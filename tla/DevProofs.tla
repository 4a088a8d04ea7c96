------------------------------ MODULE DevProofs ------------------------------
(* Theorems about the dev server, for any number of saves and restarts.     *)
EXTENDS DevServer, TLAPS

(* What every build keeps: the job is a save that compiles and is not       *)
(* newer than the disk, and pkg/ holds no save beyond the job.              *)
JobCompiles == watcher \in {"boot", "write", "writing", "built"} => job \in Compiles

PkgInOrder ==
    \A c \in DOMAIN pkg : pkg[c] # Torn => pkg[c] \in Compiles /\ pkg[c] <= job

BuildInv ==
    /\ DevTypeOK
    /\ JobCompiles
    /\ job <= saved.zu
    /\ PkgInOrder

(* The crate of an app that keeps its name.                                 *)
TheCrate == Crate(0)

CrateThere ==
    (\/ counter > 0
     \/ watcher \in {"writing", "built"}
     \/ watcher = "boot" /\ ~BootFirst) => TheCrate \in DOMAIN pkg

BootNamesIt ==
    (\/ counter > 0
     \/ watcher = "built"
     \/ watcher \in {"write", "writing"} /\ BootFirst) => boot = TheCrate

LoopServes ==
    /\ watcher \in {"sleep", "html"} => counter > 0
    /\ watcher = "stamp" => counter = 1

ServeInv == CrateThere /\ BootNamesIt /\ LoopServes

(* Between the first byte of a build in www/ and its count.                 *)
Installing ==
    \/ watcher \in {"writing", "built"}
    \/ watcher = "boot" /\ ~BootFirst

(* What the page has of the current count.                                  *)
PageIsOld ==
    page.at # "closed" => page.since > 0 /\ page.since <= counter

PageHasServed ==
    ~Installing /\ page.since = counter =>
        /\ page.at \in {"boot", "up"} => page.crate = boot
        /\ page.at = "up" => page.app = Served

PageHasHtml ==
    page.at # "closed" /\ page.since = counter /\ counter > 1 =>
        stamp.html <= page.html /\ page.html <= saved.html

FreshInv ==
    restarts = 0 =>
        stamp.html <= saved.html /\ PageIsOld /\ PageHasServed /\ PageHasHtml

-----------------------------------------------------------------------------
(* What a build installs.                                                   *)
LEMMA InstalledPkg ==
    ASSUME NEW v
    PROVE  /\ DOMAIN Installed(v) = DOMAIN pkg \cup {Crate(job)}
           /\ Installed(v)[Crate(job)] = v
           /\ \A c \in DOMAIN pkg : c # Crate(job) => Installed(v)[c] = pkg[c]
  BY DEF Installed

LEMMA CrateTyped ==
    ASSUME DevAssumption, NEW v \in Saves
    PROVE  Crate(v) \in Crates
  BY DEF Crate, Crates

LEMMA InitBuilds == DevAssumption /\ DevInit => BuildInv
<1> SUFFICES ASSUME DevAssumption, DevInit PROVE BuildInv
  OBVIOUS
<1>1. 0 \in Saves /\ 0 \in 0 .. MaxHtmlSaves /\ 0 \in 0 .. MaxRestarts
  BY DEF DevAssumption, Saves
<1>2. DOMAIN pkg = {}
  BY DEF DevInit
<1>3. DevTypeOK
  BY <1>1, <1>2 DEF DevTypeOK, DevInit, Blank
<1> QED BY <1>1, <1>2, <1>3 DEF BuildInv, JobCompiles, PkgInOrder, DevInit

(* The builds, step by step.                                                *)
LEMMA WatcherBuilds ==
    ASSUME DevAssumption, BuildInv, Watcher
    PROVE  BuildInv'
<1> USE DEF DevAssumption, Saves
<1>1. /\ backend \in Backends
      /\ saved \in [zu : Saves, html : 0 .. MaxHtmlSaves]
      /\ stamp \in [zu : Saves, html : 0 .. MaxHtmlSaves]
      /\ job \in Saves /\ counter \in Nat /\ job <= saved.zu
      /\ UNCHANGED <<backend, saved, restarts, page>>
  BY DEF BuildInv, DevTypeOK, Watcher
<1>2. Crate(job) \in Crates
  BY <1>1, CrateTyped
<1>3. CASE Compile
  BY <1>1, <1>3 DEF Compile, BuildFails, BuildInv, DevTypeOK, JobCompiles, PkgInOrder
<1>4. CASE WriteBoot
  BY <1>1, <1>2, <1>4 DEF WriteBoot, BuildInv, DevTypeOK, JobCompiles, PkgInOrder
<1>5. CASE BeginWrite
  BY <1>1, <1>2, <1>5, InstalledPkg
     DEF BeginWrite, BuildInv, DevTypeOK, JobCompiles, PkgInOrder
<1>6. CASE EndWrite
  BY <1>1, <1>2, <1>6, InstalledPkg
     DEF EndWrite, BuildInv, DevTypeOK, JobCompiles, PkgInOrder
<1>7. CASE PackFails
  BY <1>1, <1>7 DEF PackFails, BuildFails, BuildInv, DevTypeOK, JobCompiles, PkgInOrder
<1>8. CASE Built
  BY <1>1, <1>8 DEF Built, BuildInv, DevTypeOK, JobCompiles, PkgInOrder
<1>9. CASE Stamp
  BY <1>1, <1>9 DEF Stamp, BuildInv, DevTypeOK, JobCompiles, PkgInOrder
<1>10. CASE LookAtSource
  BY <1>1, <1>10 DEF LookAtSource, BuildInv, DevTypeOK, JobCompiles, PkgInOrder
<1>11. CASE LookAtHtml
  BY <1>1, <1>11 DEF LookAtHtml, BuildInv, DevTypeOK, JobCompiles, PkgInOrder
<1> QED BY <1>3, <1>4, <1>5, <1>6, <1>7, <1>8, <1>9, <1>10, <1>11 DEF Watcher

LEMMA PageBuilds ==
    ASSUME DevAssumption, BuildInv, Page
    PROVE  BuildInv'
<1>1. UNCHANGED <<backend, saved, stamp, watcher, job, boot, pkg, counter, restarts>>
  BY DEF Page, serverVars
<1>2. page' \in [at : {"closed", "html", "boot", "up"}, html : 0 .. MaxHtmlSaves,
                 crate : Crates \cup {Missing}, app : Saves \cup {Torn, Missing},
                 last : Nat, since : Nat]
  <2>1. DevTypeOK
    BY DEF BuildInv
  <2>2. Blank \in [at : {"closed"}, html : 0 .. MaxHtmlSaves, crate : {Missing},
                   app : {Missing}, last : Nat, since : Nat]
    BY DEF Blank, DevAssumption
  <2>3. CASE Navigate
    BY <2>1, <2>2, <2>3 DEF Navigate, DevTypeOK
  <2>4. CASE GetBoot
    BY <2>1, <2>4 DEF GetBoot, DevTypeOK
  <2>5. CASE GetApp
    BY <2>1, <2>5 DEF GetApp, DevTypeOK
  <2>6. CASE Poll
    BY <2>1, <2>2, <2>6 DEF Poll, DevTypeOK
  <2> QED BY <2>3, <2>4, <2>5, <2>6 DEF Page
<1> QED BY <1>1, <1>2 DEF BuildInv, DevTypeOK, JobCompiles, PkgInOrder

LEMMA UserBuilds ==
    ASSUME DevAssumption, BuildInv, SaveSource \/ SaveHtml \/ Restart
    PROVE  BuildInv'
<1> USE DEF DevAssumption, Saves
<1>1. CASE SaveSource
  BY <1>1 DEF SaveSource, serverVars, BuildInv, DevTypeOK, JobCompiles, PkgInOrder
<1>2. CASE SaveHtml
  BY <1>2 DEF SaveHtml, serverVars, BuildInv, DevTypeOK, JobCompiles, PkgInOrder
<1>3. CASE Restart
  BY <1>3 DEF Restart, BuildInv, DevTypeOK, JobCompiles, PkgInOrder
<1> QED BY <1>1, <1>2, <1>3

LEMMA NextBuilds == DevAssumption /\ BuildInv /\ [DevNext]_devVars => BuildInv'
<1> SUFFICES ASSUME DevAssumption, BuildInv, [DevNext]_devVars PROVE BuildInv'
  OBVIOUS
<1>1. CASE UNCHANGED devVars
  BY <1>1 DEF devVars, serverVars, BuildInv, DevTypeOK, JobCompiles, PkgInOrder
<1> QED BY <1>1, WatcherBuilds, PageBuilds, UserBuilds DEF DevNext

LEMMA BuildInvHolds == DevSpec => []BuildInv
<1>1. DevInit => BuildInv
  BY DevAssumption, InitBuilds
<1>2. BuildInv /\ [DevNext]_devVars => BuildInv'
  BY DevAssumption, NextBuilds
<1> QED BY <1>1, <1>2, PTL DEF DevSpec

(* Whatever is saved, whatever fails and however often zuc dev is restarted *)
(* with another backend, the session keeps its types: what stands in pkg/   *)
(* is a save or a file being written (main.rs 347-470).                     *)
THEOREM DevTypeCorrect == DevSpec => []DevTypeOK
<1>1. BuildInv => DevTypeOK
  BY DEF BuildInv
<1> QED BY <1>1, BuildInvHolds, PTL

(* Builds move pkg/ forward only (main.rs 290-345): nothing that does not   *)
(* compile gets there, nothing is removed, and no build touches pkg/ while  *)
(* a later save's stands in it.                                             *)
THEOREM PkgMovesForward == DevSpec => BuildsMoveForward
<1>1. BuildInv /\ BuildInv' /\ [DevNext]_devVars
        => [\A c \in DOMAIN pkg :
              /\ c \in DOMAIN pkg'
              /\ pkg'[c] # Torn => pkg'[c] \in Compiles
              /\ pkg' # pkg /\ pkg[c] # Torn => pkg[c] <= job]_devVars
  <2> SUFFICES ASSUME BuildInv, BuildInv', DevNext, NEW c \in DOMAIN pkg
               PROVE  /\ c \in DOMAIN pkg'
                      /\ pkg'[c] # Torn => pkg'[c] \in Compiles
                      /\ pkg' # pkg /\ pkg[c] # Torn => pkg[c] <= job
    OBVIOUS
  <2>1. c \in DOMAIN pkg'
    BY InstalledPkg DEF DevNext, Watcher, Page, SaveSource, SaveHtml, Restart, serverVars,
         Compile, WriteBoot, BeginWrite, EndWrite, PackFails, Built, Stamp, LookAtSource,
         LookAtHtml
  <2> QED BY <2>1 DEF BuildInv, PkgInOrder
<1> QED BY <1>1, BuildInvHolds, PTL DEF DevSpec, BuildsMoveForward
-----------------------------------------------------------------------------
LEMMA OneName ==
    ASSUME DevAssumption, OneCrate, NEW v \in Saves
    PROVE  Crate(v) = TheCrate
<1>1. 0 \in Saves
  BY DEF DevAssumption, Saves
<1> QED BY <1>1 DEF OneCrate, Crate, TheCrate

(* What is served, step by step.                                            *)
LEMMA WatcherServes ==
    ASSUME DevAssumption, OneCrate, BuildInv, ServeInv, Watcher
    PROVE  ServeInv'
<1>1. /\ job \in Saves /\ counter \in Nat
      /\ BootFirst' = BootFirst
      /\ TheCrate' = TheCrate
  BY DEF BuildInv, DevTypeOK, Watcher, TheCrate, Crate, BootFirst
<1>2. Crate(job) = TheCrate
  BY <1>1, OneName
<1>3. CASE Compile
  BY <1>1, <1>3 DEF Compile, BuildFails, First, ServeInv, CrateThere, BootNamesIt, LoopServes
<1>4. CASE WriteBoot
  BY <1>1, <1>2, <1>4 DEF WriteBoot, ServeInv, CrateThere, BootNamesIt, LoopServes
<1>5. CASE BeginWrite
  BY <1>1, <1>2, <1>5, InstalledPkg
     DEF BeginWrite, ServeInv, CrateThere, BootNamesIt, LoopServes
<1>6. CASE EndWrite
  BY <1>1, <1>2, <1>6, InstalledPkg
     DEF EndWrite, ServeInv, CrateThere, BootNamesIt, LoopServes
<1>7. CASE PackFails
  BY <1>1, <1>7 DEF PackFails, BuildFails, First, ServeInv, CrateThere, BootNamesIt, LoopServes
<1>8. CASE Built
  BY <1>1, <1>8 DEF Built, First, ServeInv, CrateThere, BootNamesIt, LoopServes
<1>9. CASE Stamp
  BY <1>1, <1>9 DEF Stamp, ServeInv, CrateThere, BootNamesIt, LoopServes
<1>10. CASE LookAtSource
  BY <1>1, <1>10 DEF LookAtSource, ServeInv, CrateThere, BootNamesIt, LoopServes
<1>11. CASE LookAtHtml
  BY <1>1, <1>11 DEF LookAtHtml, ServeInv, CrateThere, BootNamesIt, LoopServes
<1> QED BY <1>3, <1>4, <1>5, <1>6, <1>7, <1>8, <1>9, <1>10, <1>11 DEF Watcher

LEMMA NextServes ==
    ASSUME DevAssumption, OneCrate, BuildInv, ServeInv, [DevNext]_devVars
    PROVE  ServeInv'
<1>1. CASE UNCHANGED <<backend, watcher, boot, pkg, counter>>
  BY <1>1 DEF ServeInv, CrateThere, BootNamesIt, LoopServes, TheCrate, Crate, BootFirst
<1>2. CASE Restart
  BY <1>2 DEF Restart, ServeInv, CrateThere, BootNamesIt, LoopServes
<1>3. CASE Page \/ SaveSource \/ SaveHtml \/ UNCHANGED devVars
  BY <1>1, <1>3 DEF Page, SaveSource, SaveHtml, devVars, serverVars
<1> QED BY <1>2, <1>3, WatcherServes DEF DevNext

LEMMA ServeInvHolds ==
    ASSUME OneCrate
    PROVE  DevSpec => []ServeInv
<1>1. DevInit => ServeInv
  BY DEF DevInit, ServeInv, CrateThere, BootNamesIt, LoopServes
<1>2. BuildInv /\ ServeInv /\ [DevNext]_devVars => ServeInv'
  BY DevAssumption, NextServes
<1> QED BY <1>1, <1>2, BuildInvHolds, PTL DEF DevSpec

(* For an app that keeps its name: whatever fails to compile or to build    *)
(* after the first build, boot.js keeps naming an app that is in pkg/       *)
(* (README 35; main.rs 290-345).                                            *)
THEOREM LastGoodBuildServes ==
    ASSUME OneCrate
    PROVE  DevSpec => []GoodBuildKeepsServing
<1>1. BuildInv /\ ServeInv => GoodBuildKeepsServing
  BY DevAssumption
     DEF BuildInv, DevTypeOK, ServeInv, CrateThere, BootNamesIt, GoodBuildKeepsServing,
         Served, DevAssumption
<1> QED BY <1>1, BuildInvHolds, ServeInvHolds, PTL

-----------------------------------------------------------------------------
(* Only the end of a build, a change of index.html and a restart change     *)
(* what a page is given, and each counts.                                   *)
LEMMA ServedKept ==
    ASSUME DevAssumption, OneCrate, BuildInv, ServeInv, Watcher, counter > 0,
           counter' = counter, ~Installing'
    PROVE  ~Installing /\ boot' = boot /\ Served' = Served
<1>1. /\ job \in Saves /\ counter \in Nat /\ BootFirst' = BootFirst
      /\ boot = TheCrate
  BY DEF BuildInv, DevTypeOK, Watcher, BootFirst, ServeInv, BootNamesIt
<1>2. Crate(job) = TheCrate
  BY <1>1, OneName
<1> QED
  BY <1>1, <1>2 DEF Watcher, Installing, Served, Compile, BuildFails, First, WriteBoot,
     BeginWrite, EndWrite, PackFails, Built, Stamp, LookAtSource, LookAtHtml

LEMMA WatcherFresh ==
    ASSUME DevAssumption, OneCrate, BuildInv, ServeInv, FreshInv, Watcher
    PROVE  FreshInv'
<1> SUFFICES ASSUME restarts = 0 PROVE FreshInv'
  BY DEF Watcher, FreshInv
<1>1. /\ UNCHANGED <<saved, page>>
      /\ counter \in Nat /\ page.since \in Nat
      /\ saved.html \in Nat /\ stamp.html \in Nat /\ page.html \in Nat
  BY DEF Watcher, BuildInv, DevTypeOK, DevAssumption
<1>2. stamp.html <= saved.html /\ PageIsOld /\ PageHasServed /\ PageHasHtml
  BY DEF FreshInv
<1>3. counter' = counter \/ counter' = counter + 1
  BY DEF Watcher, Compile, WriteBoot, BeginWrite, EndWrite, PackFails, Built, Stamp,
         LookAtSource, LookAtHtml
<1>4. PageIsOld'
  BY <1>1, <1>2, <1>3 DEF PageIsOld
<1>5. stamp'.html <= saved'.html
  <2>1. CASE stamp'.html = stamp.html
    BY <1>1, <1>2, <2>1
  <2>2. CASE stamp'.html = saved.html
    BY <1>1, <2>2
  <2>3. stamp'.html = stamp.html \/ stamp'.html = saved.html
    BY DEF Watcher, Compile, WriteBoot, BeginWrite, EndWrite, PackFails, Built, Stamp,
           LookAtSource, LookAtHtml, BuildInv, DevTypeOK
  <2> QED BY <2>1, <2>2, <2>3
<1>6. CASE page.at = "closed"
  BY <1>1, <1>4, <1>5, <1>6 DEF FreshInv, PageHasServed, PageHasHtml
<1>7. CASE counter' = counter + 1 /\ page.at # "closed"
  BY <1>1, <1>2, <1>4, <1>5, <1>7 DEF FreshInv, PageIsOld, PageHasServed, PageHasHtml
<1>8. CASE counter' = counter /\ page.at # "closed"
  <2>1. counter > 0
    BY <1>1, <1>2, <1>8 DEF PageIsOld
  <2>2. PageHasServed'
    BY <1>1, <1>2, <1>8, <2>1, ServedKept DEF PageHasServed
  <2>3. PageHasHtml'
    <3>1. SUFFICES ASSUME counter > 1 PROVE stamp'.html = stamp.html
      BY <1>1, <1>2, <1>8 DEF PageHasHtml
    <3>2. watcher # "stamp"
      BY <1>1, <3>1 DEF ServeInv, LoopServes
    <3> QED BY <1>1, <1>8, <3>2
            DEF Watcher, Compile, WriteBoot, BeginWrite, EndWrite, PackFails, Built, Stamp,
                LookAtSource, LookAtHtml, BuildInv, DevTypeOK
  <2> QED BY <1>4, <1>5, <2>2, <2>3 DEF FreshInv
<1> QED BY <1>3, <1>6, <1>7, <1>8

LEMMA PageFresh ==
    ASSUME DevAssumption, BuildInv, FreshInv, Page
    PROVE  FreshInv'
<1> SUFFICES ASSUME restarts = 0 PROVE FreshInv'
  BY DEF Page, FreshInv
<1>1. /\ UNCHANGED <<backend, saved, stamp, watcher, boot, pkg, counter>>
      /\ counter \in Nat /\ saved.html \in Nat
      /\ Installing' = Installing /\ Served' = Served
  BY DEF Page, serverVars, BuildInv, DevTypeOK, DevAssumption, Installing, BootFirst, Served
<1>2. stamp.html <= saved.html /\ PageIsOld /\ PageHasServed /\ PageHasHtml
  BY DEF FreshInv
<1>3. page \in [at : {"closed", "html", "boot", "up"}, html : 0 .. MaxHtmlSaves,
                crate : Crates \cup {Missing}, app : Saves \cup {Torn, Missing},
                last : Nat, since : Nat]
  BY DEF BuildInv, DevTypeOK
<1>4. PageIsOld' /\ PageHasServed' /\ PageHasHtml'
  <2>1. CASE Navigate
    <3>1. page'.at = "html" /\ page'.html = saved.html /\ page'.since = counter
      BY <2>1 DEF Navigate, Blank
    <3> QED BY <1>1, <1>2, <2>1, <3>1 DEF Navigate, PageIsOld, PageHasServed, PageHasHtml
  <2>2. CASE GetBoot
    BY <1>1, <1>2, <1>3, <2>2 DEF GetBoot, PageIsOld, PageHasServed, PageHasHtml
  <2>3. CASE GetApp
    BY <1>1, <1>2, <1>3, <2>3 DEF GetApp, Served, PageIsOld, PageHasServed, PageHasHtml
  <2>4. CASE Poll
    BY <1>1, <1>2, <1>3, <2>4 DEF Poll, Blank, PageIsOld, PageHasServed, PageHasHtml
  <2> QED BY <2>1, <2>2, <2>3, <2>4 DEF Page
<1> QED BY <1>1, <1>2, <1>4 DEF FreshInv

LEMMA NextFresh ==
    ASSUME DevAssumption, OneCrate, BuildInv, ServeInv, FreshInv, [DevNext]_devVars
    PROVE  FreshInv'
<1>1. CASE SaveSource \/ SaveHtml \/ UNCHANGED devVars
  <2>1. /\ UNCHANGED <<backend, stamp, watcher, boot, pkg, counter, restarts, page>>
        /\ Installing' = Installing /\ Served' = Served
    BY <1>1 DEF SaveSource, SaveHtml, devVars, serverVars, Installing, BootFirst, Served
  <2>2. /\ saved.html \in Nat /\ stamp.html \in Nat /\ page.html \in Nat
        /\ saved'.html \in Nat /\ saved.html <= saved'.html
    BY <1>1 DEF SaveSource, SaveHtml, devVars, BuildInv, DevTypeOK, DevAssumption
  <2> QED BY <2>1, <2>2 DEF FreshInv, PageIsOld, PageHasServed, PageHasHtml
<1>2. CASE Restart
  <2>1. restarts' # 0
    BY <1>2 DEF Restart, BuildInv, DevTypeOK, DevAssumption
  <2> QED BY <2>1 DEF FreshInv
<1> QED BY <1>1, <1>2, WatcherFresh, PageFresh DEF DevNext

LEMMA InitFresh == DevAssumption /\ DevInit => FreshInv
  BY DEF DevInit, Blank, FreshInv, PageIsOld, PageHasServed, PageHasHtml

(* For an app that keeps its name and a session without a restart: a page   *)
(* whose polls show the count it was loaded at runs the app being served,   *)
(* and no half-written one that has been completed since (main.rs 380-470). *)
THEOREM SettledPagesAreFresh ==
    ASSUME OneCrate
    PROVE  DevSpec => []SettledPageIsFresh
<1>1. BuildInv /\ FreshInv => SettledPageIsFresh
  BY DevAssumption
     DEF BuildInv, DevTypeOK, DevAssumption, FreshInv, PageHasServed, PageHasHtml,
         SettledPageIsFresh, Settled, Installing
<1>2. DevInit => FreshInv
  BY DevAssumption, InitFresh
<1>3. BuildInv /\ ServeInv /\ FreshInv /\ [DevNext]_devVars => FreshInv'
  BY DevAssumption, NextFresh
<1> QED BY <1>1, <1>2, <1>3, BuildInvHolds, ServeInvHolds, PTL DEF DevSpec
=============================================================================
