------------------------------ MODULE DevServer ------------------------------
(***************************************************************************)
(* `zuc dev' (crates/zumar-cli): the first build, the watch loop that      *)
(* polls modification times and rebuilds into www/, the server threads     *)
(* that answer from www/ as it is at that moment, and the page, which      *)
(* loads boot.js and the app it names and polls /__build to reload.        *)
(*                                                                         *)
(* A source is the number of its last save, which is also its mtime.  The  *)
(* wasmgc backend installs pkg/app.wasm and then boot.js; the Rust backend *)
(* writes boot.js first and then lets wasm-pack fill pkg/, which may fail. *)
(***************************************************************************)
EXTENDS Naturals, FiniteSets

CONSTANTS
    MaxSaves,     \* bound on the saves of the .zu file
    MaxHtmlSaves, \* bound on the saves of index.html
    MaxRestarts,  \* bound on the times the user restarts zuc dev
    Compiles,     \* the saves of the .zu file that compile
    CrateOf,      \* CrateOf[v]: the crate the Rust backend makes of save v
    Backends,     \* those zuc dev may be started with
    Torn,         \* a file in the middle of fs::write
    Missing       \* what a 404 leaves on the page

Saves == 0 .. MaxSaves

ASSUME DevAssumption ==
    /\ MaxSaves \in Nat /\ MaxHtmlSaves \in Nat /\ MaxRestarts \in Nat
    /\ 0 \in Compiles /\ Compiles \subseteq Saves
    /\ CrateOf \in [Saves -> STRING]
    /\ Backends \subseteq {"rust", "gc"}
    /\ Torn # Missing /\ Torn \notin Saves /\ Missing \notin Saves

VARIABLES
    backend,   \* the backend zuc dev was started with
    saved,     \* the .zu file and index.html on disk, by their last save
    stamp,     \* zu_stamp and html_stamp
    watcher,   \* where the main thread is
    job,       \* the save being built
    boot, pkg, \* www/boot.js, by the crate it imports; www/pkg, crate -> save
    counter,   \* the build counter behind /__build; 0 until it is served
    restarts,
    page       \* the open page

serverVars == <<stamp, watcher, job, boot, pkg, counter>>
devVars == <<backend, saved, serverVars, restarts, page>>

BootFirst == backend = "rust"

(* The name of what a build puts into pkg/.                                 *)
Crate(v) == IF BootFirst THEN CrateOf[v] ELSE "app.wasm"

Crates == {"app.wasm"} \cup {CrateOf[v] : v \in Saves}

(* ---------------------------- the main thread --------------------------- *)

First == counter = 0

(* A build that fails ends zuc dev if it is the first, and is reported and  *)
(* forgotten if it is not.                                                  *)
BuildFails == watcher' = IF First THEN "exited" ELSE "html"

(* Mutant: the errors of the source are printed, and the build goes on.     *)
CompileAlways ==
    /\ watcher = "compile"
    /\ job' = saved.zu
    /\ watcher' = IF BootFirst THEN "boot" ELSE "write"
    /\ UNCHANGED <<stamp, boot, pkg, counter>>

(* compile_file: the source is read and compiled.                           *)
Compile ==
    /\ watcher = "compile"
    /\ job' = saved.zu
    /\ IF saved.zu \in Compiles
       THEN watcher' = IF BootFirst THEN "boot" ELSE "write"
       ELSE BuildFails
    /\ UNCHANGED <<stamp, boot, pkg, counter>>

WriteBoot ==
    /\ watcher = "boot"
    /\ boot' = Crate(job)
    /\ watcher' = IF BootFirst THEN "write" ELSE "built"
    /\ UNCHANGED <<stamp, job, pkg, counter>>

Installed(v) ==
    [c \in DOMAIN pkg \cup {Crate(job)} |-> IF c = Crate(job) THEN v ELSE pkg[c]]

(* Mutant: the old file is deleted first, and the new one written later.    *)
BeginByDeleting ==
    /\ watcher = "write"
    /\ pkg' = Installed(Missing)
    /\ watcher' = "writing"
    /\ UNCHANGED <<stamp, job, boot, counter>>

BeginWrite ==
    /\ watcher = "write"
    /\ pkg' = Installed(Torn)
    /\ watcher' = "writing"
    /\ UNCHANGED <<stamp, job, boot, counter>>

(* Mutant: boot.js is not written.                                          *)
EndWriteNoBoot ==
    /\ watcher = "writing"
    /\ pkg' = Installed(job)
    /\ watcher' = "built"
    /\ UNCHANGED <<stamp, job, boot, counter>>

EndWrite ==
    /\ watcher = "writing"
    /\ pkg' = Installed(job)
    /\ watcher' = IF BootFirst THEN "built" ELSE "boot"
    /\ UNCHANGED <<stamp, job, boot, counter>>

(* wasm-pack is missing or exits with an error before it touches pkg/.      *)
PackFails ==
    /\ BootFirst
    /\ watcher = "write"
    /\ BuildFails
    /\ UNCHANGED <<stamp, job, boot, pkg, counter>>

(* Mutant: only a change of index.html counts.                              *)
BuiltUncounted ==
    /\ watcher = "built"
    /\ counter' = IF First THEN 1 ELSE counter
    /\ watcher' = IF First THEN "stamp" ELSE "html"
    /\ UNCHANGED <<stamp, job, boot, pkg>>

(* Mutant: the stamp is taken after the build.                              *)
BuiltStamps ==
    /\ watcher = "built"
    /\ counter' = counter + 1
    /\ watcher' = IF First THEN "stamp" ELSE "html"
    /\ stamp' = [stamp EXCEPT !.zu = saved.zu]
    /\ UNCHANGED <<job, boot, pkg>>

(* A finished build is counted; the first one starts the server.            *)
Built ==
    /\ watcher = "built"
    /\ counter' = counter + 1
    /\ watcher' = IF First THEN "stamp" ELSE "html"
    /\ UNCHANGED <<stamp, job, boot, pkg>>

(* The stamps the loop starts from.                                         *)
Stamp ==
    /\ watcher = "stamp"
    /\ stamp' = saved
    /\ watcher' = "sleep"
    /\ UNCHANGED <<job, boot, pkg, counter>>

LookAtSource ==
    /\ watcher = "sleep"
    /\ stamp' = [stamp EXCEPT !.zu = saved.zu]
    /\ watcher' = IF saved.zu # stamp.zu THEN "compile" ELSE "html"
    /\ UNCHANGED <<job, boot, pkg, counter>>

LookAtHtml ==
    /\ watcher = "html"
    /\ stamp' = [stamp EXCEPT !.html = saved.html]
    /\ counter' = IF saved.html # stamp.html THEN counter + 1 ELSE counter
    /\ watcher' = "sleep"
    /\ UNCHANGED <<job, boot, pkg>>

Watcher ==
    /\ \/ Compile \/ WriteBoot \/ BeginWrite \/ EndWrite \/ PackFails
       \/ Built \/ Stamp \/ LookAtSource \/ LookAtHtml
    /\ UNCHANGED <<backend, saved, restarts, page>>

(* ------------------------------- the page ------------------------------- *)

Blank == [at |-> "closed", html |-> 0, crate |-> Missing, app |-> Missing,
          last |-> 0, since |-> 0]

(* The page is loaded, or reloaded; `since' is a ghost, the counter then.   *)
Navigate ==
    /\ page.at = "closed"
    /\ counter > 0
    /\ page' = [Blank EXCEPT !.at = "html", !.html = saved.html, !.since = counter]

GetBoot ==
    /\ page.at = "html"
    /\ counter > 0
    /\ page' = [page EXCEPT !.at = "boot", !.crate = boot]

GetApp ==
    /\ page.at = "boot"
    /\ counter > 0
    /\ page' = [page EXCEPT !.at = "up",
                            !.app = IF page.crate \in DOMAIN pkg
                                    THEN pkg[page.crate] ELSE Missing]

(* One round of the reload snippet; `last' is 0 for null.                   *)
Poll ==
    /\ page.at # "closed"
    /\ counter > 0
    /\ page' = IF page.last # 0 /\ counter # page.last
               THEN Blank
               ELSE [page EXCEPT !.last = counter]

Page ==
    /\ Navigate \/ GetBoot \/ GetApp \/ Poll
    /\ UNCHANGED <<backend, saved, serverVars, restarts>>

(* ------------------------------- the user ------------------------------- *)

SaveSource ==
    /\ saved.zu < MaxSaves
    /\ saved' = [saved EXCEPT !.zu = @ + 1]
    /\ UNCHANGED <<backend, serverVars, restarts, page>>

SaveHtml ==
    /\ saved.html < MaxHtmlSaves
    /\ saved' = [saved EXCEPT !.html = @ + 1]
    /\ UNCHANGED <<backend, serverVars, restarts, page>>

(* ctrl-c, and zuc dev again, with either backend; the page stays open.     *)
Restart ==
    /\ restarts < MaxRestarts
    /\ restarts' = restarts + 1
    /\ backend' \in Backends
    /\ watcher' = "compile"
    /\ counter' = 0
    /\ UNCHANGED <<saved, stamp, job, boot, pkg, page>>

-----------------------------------------------------------------------------
DevInit ==
    /\ backend \in Backends
    /\ saved = [zu |-> 0, html |-> 0]
    /\ stamp = saved
    /\ watcher = "compile"
    /\ job = 0
    /\ boot = Missing
    /\ pkg = [c \in {} |-> Missing]
    /\ counter = 0
    /\ restarts = 0
    /\ page = Blank

DevNext == Watcher \/ Page \/ SaveSource \/ SaveHtml \/ Restart

(* The main thread and the page's loops keep running; each fetch of the     *)
(* page is answered.  The user owes nothing.                                *)
DevFairness ==
    /\ WF_devVars(Watcher)
    /\ WF_devVars(Navigate /\ UNCHANGED <<backend, saved, serverVars, restarts>>)
    /\ WF_devVars(GetBoot /\ UNCHANGED <<backend, saved, serverVars, restarts>>)
    /\ WF_devVars(GetApp /\ UNCHANGED <<backend, saved, serverVars, restarts>>)
    /\ WF_devVars(Poll /\ UNCHANGED <<backend, saved, serverVars, restarts>>)

DevSpec == DevInit /\ [][DevNext]_devVars

FairDevSpec == DevSpec /\ DevFairness

-----------------------------------------------------------------------------
(* The app keeps its name.                                                  *)
OneCrate == \A v, w \in Saves : CrateOf[v] = CrateOf[w]

Served == IF boot \in DOMAIN pkg THEN pkg[boot] ELSE Missing

(* Type correctness of the dev session.                                     *)
DevTypeOK ==
    /\ backend \in Backends
    /\ saved \in [zu : Saves, html : 0 .. MaxHtmlSaves]
    /\ stamp \in [zu : Saves, html : 0 .. MaxHtmlSaves]
    /\ watcher \in {"compile", "boot", "write", "writing", "built", "stamp",
                    "sleep", "html", "exited"}
    /\ job \in Saves
    /\ boot \in Crates \cup {Missing}
    /\ DOMAIN pkg \subseteq Crates
    /\ \A c \in DOMAIN pkg : pkg[c] \in Saves \cup {Torn}
    /\ counter \in Nat
    /\ restarts \in 0 .. MaxRestarts
    /\ page \in [at : {"closed", "html", "boot", "up"}, html : 0 .. MaxHtmlSaves,
                 crate : Crates \cup {Missing}, app : Saves \cup {Torn, Missing},
                 last : Nat, since : Nat]

(* The page has loaded its app, its polls show the very count it was loaded *)
(* at, and no build is being installed.                                     *)
Settled ==
    /\ page.at = "up"
    /\ page.last = counter
    /\ page.since = counter
    /\ watcher \in {"sleep", "html", "compile", "write"}

(* Such a page runs the app being served: no build goes unnoticed by a page *)
(* that polls before the next one, a file caught half-written included.  If *)
(* it was loaded while the loop was watching index.html, it also shows the  *)
(* last save of that.  A restart counts from 1 again and is left out.       *)
SettledPageIsFresh ==
    Settled /\ restarts = 0 =>
               /\ page.app = Served
               /\ page.since > 1 /\ stamp.html = saved.html => page.html = saved.html

(* "the last good build keeps serving" (README 35): while the server runs,  *)
(* boot.js names an app that is there.                                      *)
GoodBuildKeepsServing == counter > 0 => Served # Missing

(* A source that does not compile never gets into pkg/, and a build never   *)
(* replaces, or stands beside, one of a later save; nothing is removed.     *)
BuildsMoveForward ==
    [][ \A c \in DOMAIN pkg :
          /\ c \in DOMAIN pkg'
          /\ pkg'[c] # Torn => pkg'[c] \in Compiles
          /\ pkg' # pkg /\ pkg[c] # Torn => pkg[c] <= job ]_devVars

(* A save made while the loop is watching is compiled, even one made during *)
(* the rebuild of an earlier save.                                          *)
WatchedSavesAreBuilt ==
    (counter > 0 /\ watcher # "stamp" /\ stamp.zu # saved.zu)
        ~> (job = saved.zu \/ watcher = "exited")
=============================================================================
