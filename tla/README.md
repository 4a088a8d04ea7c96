# zumar in TLA+

zumar is a front-end framework in the Elm style: an application is a model, an
`update` and a `view`; the vdom, the diff and the effect bookkeeping live in Rust
(or in a WebAssembly module emitted from a `.zu` program), and one JavaScript
file, `www/zumar.js`, carries out what they decide. This directory holds TLA+
models of it, TLC runs over small instances, and TLAPS proofs.

Run from here, with the community modules on the library path:

    tlc -config client.cfg MCClient      # any of the runs below
    tlapm ProgramProofs.tla              # the proofs; also ClientProofs, LiveProofs, DevProofs,
                                         # GcProofs, PatchProofs, TreeDiffProofs, LiveTurnProofs

## The system

| component | source | state | operations |
|---|---|---|---|
| runtime Program | `crates/zumar-runtime/src/{lib,effects}.rs` | model, last rendered tree, commands pending (id -> callback), subscriptions active (key -> id, callback), next id | `initial_render`, `dispatch`, `resolve`, `notify`, `rerender` |
| virtual tree, diff | `crates/zumar-core/src/{vdom,diff,patch}.rs` | none | `diff`, `find_listener`, `collect_events` |
| browser shim | `www/zumar.js` | names listened to and their preventDefault flag, interval handles; the browser's timeouts and fetches | `mount`, `step` = apply, ensure, exec, subDelta |
| live transport | `www/zumar-live.js` | the socket, `push`, the reconnect loop | `connect`, `mountLive` |
| server bridge | `spikes/sutegi-zumar/src/main.rs` | one Program per connection | `on_open`, `on_message`, `on_close` |
| dev server | `crates/zumar-cli/src/main.rs` | two stamps, the build counter, `www/boot.js` and `www/pkg` | watch loop, `build_wasm`, `build_gc`, `handle`, the reload snippet |
| wire format, frames | `runtime/src/wire.rs`, `www/zumar-wire.js`; `www/zumar-live.js`, `frame.rs` | none | an encoder and a decoder for each direction; `peekEventNames` of `zumar-gc.js` |
| `.zu` front end | `crates/zumar-lang/src` | the parser's position and depth; the generator's counter of names | `parse`, `parse_decls`, `check`, `generate`, and `compile`, `compile_with` that chain them |
| wasmgc emitter | `crates/zumar-wasmgc/src/lib.rs`, `www/zumar-gc.js` | of the emitted module: model, next id, subscription bits, linear memory | emit; the module's init, dispatch, resolve, notify |

How they interact. The host calls the Program; every call returns one update
(patches, event names, commands, subscription deltas), which the shim carries out
before anything else runs in the page. Carrying it out starts timeouts, fetches and
intervals, and their completions are the next calls. With a synchronous transport
(wasm-bindgen or gc) call and update are one browser task. In live mode the calls are
frames to a server and the updates are frames back, so that both ends act on what the
other knew some time ago. `zuc dev` stands beside this: its main thread writes
`www/` while its server threads read it and the page polls a counter.

What is hard, and where the properties aim:

* events, completions and ticks that refer to a state which is gone (stale paths,
  ids of finished commands and stopped subscriptions);
* ids: one counter serves commands and subscriptions, over any sequence of turns;
* two ledgers that must agree without talking: the Program's and the page's;
* patches that are only right if applied in order, on the tree they were made from;
* a socket that loses what is in flight, and a Program that starts over;
* two directions of bytes without a schema, each written and read by code in another
  language;
* a parser that decides by one or two tokens, a checker and a generator that each walk the
  tree with their own idea of what is expected where, and rustc behind them;
* two backends that must give one meaning to a program: the runtime renders and
  compares trees, the emitter decides at compile time what can change where;
* a build that has several steps and can fail, be overtaken by a save, or be read
  half-way.

`PROJECT.json` lists these hazards at their lines.

## The modules

| module | models | abstracts from |
|---|---|---|
| `Program` | the runtime's Program under an arbitrary host | the application: a model is known by what `subscriptions` and `view` return for it, and an update may go to any model with any command list |
| `Shim` | the page's state and what `step` does to it | trees (see `TreeDiff`); an interval's handle is its id, the names listened to are the names with a flag |
| `Client` | Program and shim over a synchronous transport; one browser task is one action | milliseconds: a timeout or interval may fire at any time |
| `EffectsContract` | what an application is promised: the intervals it asks for tick, once each, undisturbed; one turn completes at most one command; ids are new | who keeps the promise |
| `Live` | page, socket and server-side Program, with drops and reconnects | a tree is the list of clickable items a path can lead to; an update's patches are the pair of models they connect; frames are records (their bytes are `LiveTurn`'s) |
| `DevServer` | `zuc dev` with either backend, the page's loading and polling, the user's saves and restarts | time; a file is the number of the save it was made from, `Torn` while it is being written; `boot.js` is written at once |
| `TreeDiff` | `diff` and `apply`: two trees, the patches, and the DOM they are applied to one by one | attribute guards and the live `value`/`checked` properties |
| `Patch` | patches and `apply`, and the ways through a tree: `TreeDiff` and `GcView` share it | - |
| `Fenwick` | the counting tree `Bit` of `diff.rs`, at the level of its cells: operators that `TreeDiff` uses where the code does | - |
| `Codec` | numbers and strings as bytes, and a reader that takes them apart or throws | characters: the strings that occur, and their bytes, are given; a byte has `2 * Radix` values; numbers are those JavaScript holds exactly |
| `Wire` | `to_bytes` of both messages, `decodeInit`, `decodeUpdate`, `peekEventNames` | - |
| `Frame` | the writer of `zumar-live.js` and `decode` of `frame.rs` | the text of the error a malformed frame is answered with |
| `LiveTurn` | one turn over the socket: first render and update as bytes, the patches one by one, and then an event, a completion or a tick, as bytes, up to the message it stands for | how the turn came about (`Program`), lag and drops (`Live`) |
| `GcEffects` | what an emitted module does about commands and subscriptions, with its page | the application, as in `Program`: an update may go to any model, and stages the sites of its equation |
| `GcView` | the view as the emitter compiles it - template, patch plan, handler table - and as the runtime renders it | expressions: a text or an argument is a constant, a field, the item, or the event's value; lists are regions over one field |
| `GcPage` | `GcEffects` with the tree on the page and events by path | - |
| `ZuExpr` | the expressions of `.zu` and what the generated Rust (release build) computes for them | types: programs are given, and taken to be well typed; `sum`, `nth`, payloads of variants |
| `ZuEmit` | what the code the emitter inlines for an expression does when it runs: the order of evaluation, the locals it uses, traps | single instructions of the stack machine; an array or a struct is a value, as none is changed after it was filled |
| `ZuBackends` | a program run by both backends with the same messages | tags and paths of the view: a view is its texts outside of loops, and the texts of each loop's items |
| `ZuAst` | the tree of a `.zu` program | positions |
| `ZuParse` | the recursive descent of `parse.rs`, with its depth and its two tokens of lookahead | the lexer: a source is a sequence of tokens; which error is reported |
| `ZuPrint` | no code: how a tree is written down, from the grammar at the head of `parse.rs` | - |
| `ZuCheck` | `check.rs`: what is inferred and expected where, and what is refused | which error is reported |
| `ZuTypes` | no code: the types an expression can have, as rules | - |
| `ZuGen` | `gen.rs` as far as types go: the type it takes an expression to have, the type the Rust has, and where it panics or rustc refuses | Rust's names; borrowing, except that a place is copied or referred to |
| `Zuc` | `compile` and `compile_with`: parse, check, generate, rustc | - |
| `ProgramProofs`, `ClientProofs`, `LiveProofs`, `DevProofs`, `GcProofs` | theorems about `Program`, about `Client` against `Program` and `EffectsContract`, about `Live`, about `DevServer`, and about `GcEffects` against `EffectsContract` and the tree and the events of `GcPage` | - |
| `PatchProofs`, `TreeDiffProofs` | lemmas about numbers, lists and `apply`, which `GcProofs` and `LiveTurnProofs` use too; theorems about the counting tree, the matching loop of `diff_children_keyed` and a turn of `TreeDiff` | - |
| `LiveTurnProofs` | that a frame written is the frame read (`Frame`), a message written the message read (`Wire`), and what follows for a live turn (`LiveTurn`) | - |
| `MCClient`, `MCLive`, `MCDevServer`, `MCTreeDiff`, `MCGc`, `MCZu`, `MCZuc` | the instances TLC checks | - |

`Shim` EXTENDS `Program`, `Client` and `Live` EXTEND `Shim` and conjoin the Program's
actions with what the page or the network does in the same step. Names are the
source's where TLA+ allows: `Resolve` is `resolve`, `Ensured` is what `ensure`
leaves, `Retimed` what the `subDelta`s of one update leave, `Settle` is
`register_cmds` followed by `diff_subs`. `Settle` gives the i-th command the i-th
fresh id and the first free id after those to the first subscription that must be
started; a key listed twice is started twice, because the loop takes the ledger's
entry at its first occurrence - this is the code, not a simplification.

The emitted module has no ledgers. `delay`, `httpGet` and `every` are numbered where
they stand in the program (sites); `StagedId` and `SiteOf` are how a command's id
carries its site through the browser and back, `Starts` and `Stops` compare what the
model wants with one bit per `every`. In `GcEffects` the entries of `inflight` and
`timers` are named by the number of the effect (`handles`), which the code does not
have: it tells one interval from a later one of the same site, as the browser's
handle does, and it is what `EffectsContract` takes for ids. The field `site` of an
entry is likewise only remembered, so that a property can compare it with what `SiteOf`
computes. In `GcView`, `View` is the tree the generated Rust `view` builds and
`FindListener` the runtime's way through it; `Tree` is what `init` and the region
functions write, `Plan` and `Table` what the emitter computes from the template, and
`Applied` and `Dispatched` what the module and the page make of them. `GcPage` puts the
two ways side by side. The templates of a program and their parts are the constant `Parts`, `Bodies`
those inside a region and `Items` what the lists of a model may hold; `Height` is a measure as in
`TreeDiff`, by which `walk` and `collect_body_handlers` come to an end. A region stands in no other
(`ViewAssumption`): the emitter refuses that.

`ZuEmit` differs from an interpreter in one respect that matters: emitted code is inline,
and its temporaries are locals of the function around it, zero when the function is
entered. `Within(at, ..)` names the local that `Ctx::tmp` allocates for the expression
at `at`, so code that runs again (in the loop over a region's items, in a comprehension,
in a fold) finds what it left there. `FnBoot`, `FnUpdate`, `FnPatches` and `FnRegion` are the functions;
each starts with no local set. An Int has `Width` bits, a String is the sequence of its
bytes, a null reference is the emitted `none`.

`ZuParse` is the parser as a table: `Production` gives for a method and the next two tokens what
it reads (tokens to `Skip`, names to `Push`, methods to `Descend` into, loops), `Node` what it makes of
it. `Go` carries it out; the depth goes up in `Descend` and down in `Ascend`, which stands for the
`self.depth -= 1` at the returns of `expr` and `element`. `ZuCheck` infers a set: the type, or
nothing (`Error`). `ZuGen` follows each piece of emitted Rust as a `Code`: the type the generator
reports to its caller, the type rustc sees, and what is wrong with it. The three walk the same tree
and were translated apart, each from its own file; `AcceptedCompiles` compares them.

`Wire` and `Frame` have the writers as operators on bytes, and the readers of
`zumar-wire.js` as a table too: `Layout` is the order in which a method reads, `MadeOf` what it
returns. `LiveTurn` EXTENDS them and `TreeDiff`, whose trees have listeners (`on`) for it.

Where the code calls itself, so does a function of the model; what it calls itself about is bounded.
The writer goes down a tree. The methods of `Reader` go down bytes, and JavaScript has no bound but its
stack: `Read[n]` is a method whose calls may be nested `n` deep, and `Decoded` allows as many as the
message has bytes. In a complete message a nested call reads at least a byte less than the
one around it, so the bound is never met (`RenderDecodes` and `UpdateDecodes` would not hold if it were).
`PastNode` is bounded in the same way. `PathsOf` goes no deeper than the tree that was rendered is high.

In `TreeDiff` a tree is a record that holds its children. The trees of an instance are the
constant `VNodes`, and `Height` is any measure by which a part is less than the whole: that a VNode owns its children is what
makes the recursions of `diff` and `SerNode::from_vnode` end (`TreeAssumption`). `Diff` and `FromVNode` are
recursive functions, `Matching` the loop of `diff_children_keyed` and `Matched` one round of it. `was` is a
ghost: which DOM node each child of the root is, by its place before the turn, so that
`KeyedNodesSurvive` can tell a node that was moved from one that was made again.

Patches do not appear in `Program`, `Client` and `Live`: there a tree is replaced by
what matters to the state machines, and that applying a diff to the tree it was made
from yields the new tree is `TreeDiff`'s business. `Live` then checks that updates are
applied to exactly the tree they were made from.

## The runs

| run | question | instance, and why it is enough |
|---|---|---|
| `client` | Do page and Program agree after every task, and keep the contract? | three models with none, one and three subscriptions (one not an interval), two callbacks, views with and without a listener; lists with no, one and two commands, a `publish` among them; 8 ids: every pair of models in both directions, with commands overlapping |
| `client_any` | The same application freedom with a model that lists one interval twice: stray timers tick, ids are consumed. Do the ledger, the ids, the delegated events hold, and do commands come to an end? | 6 ids; with fairness |
| `live` | Can the page diverge from the server's tree, lose or double a command, confuse a tick; does everything catch up? | two models that share no interval and list two and one items; 2 frames each way, 5 ids, a turn requesting nothing or a delay and a request at once, one drop at any moment |
| `dev` | Which build does a page run; can the server point at nothing; is a save missed? | three saves, the second of which does not compile; one save of index.html; one restart, with either backend |
| `diff` | Does every patch fit when its turn comes, is the result the new tree, are keyed nodes kept? Do the messages of a turn arrive as they were sent, in both directions? Does an event on the new screen become the message of the nearest listener? | all pairs of lists of up to three children from six kinds (keyed, unkeyed, text, one key under two tags), from four of these kinds when both lists have three; all pairs of lists of up to two lists with up to two children, keyed or not; selections and permutations of four to six out of a keyed list of six, where the counting tree has cells of every kind. The bytes are followed (`Sessions`) for the lists of up to two children, for up to three lists in lists, for every order of the six, and between nine trees with listeners on items, inside them and on the root, for clicks, typing and checking; nine turns have every kind of command and subscription, with ids and milliseconds of one to four bytes. `CountsAreExact`, an assumption TLC evaluates with this run, compares the counting tree with a count, for lists of up to nine children in every state |
| `gc` | Does an emitted module keep the contract without ledgers, recover every continuation, show the tree and answer the events the runtime would? | a page of three models with no, one and two items; an attribute and texts that change, a region with handlers on the item and on a button inside it, an input; two delays and a fetch at three sites, staged by `init` and by two updates; two intervals, wanted alone and together; 9 effects, so that each interval is stopped and started again beside outstanding commands |
| `eval` | Do the two backends give one meaning to a program: models, texts, wanted intervals? Does the emitted module ever trap? | a calculator on all pairs of 6-bit Ints that its operations reach (wrap-around, division by zero and by negative numbers, remainders, an equation that swaps two fields); a form that parses and shows what is typed (signs, leading zeros, no digits, characters next to the digits); a to-do list with comprehensions, counts and folds in updates, texts, regions and subscriptions, `case` over a filter and over `head`, record updates, up to three items in any order |
| `zuc` | Does the parser read what was meant? Does the checker take the programs whose parts fit their places, and no others? Does all that it takes compile? | one application with an expression put into a field of an update, a text, a key, a message's argument, a command, a subscription or the list of a loop: every leaf in every kind of field, every builtin on every leaf, operators on pairs of nine operands, every list of arms on every kind of value, records with fields missing, double or unknown, folds and loops in each other; every operator inside every other on both sides; nestings of five to eight and more levels with `MaxDepth = 8`; some fifty whole programs of which a declaration is missing, double or does not fit, with and without a fragment |

In `client`, `client_any`, `dev`, `diff`, `gc` and `zuc` the system may really stop (an
application with nothing to wait for, a first build that fails, a turn that is over, a program
that is compiled or refused), so
deadlock is not checked; in `live` and `eval` it is.

### Where the code departs from its documents

Each of these is a run that TLC ends with a counterexample.

* `client_dup`: `effects.rs` 152-154 calls two subscriptions with one spec "the same
  subscription (last callback wins)". The callback does; but the second occurrence
  gets an id and a timer of its own, the ledger forgets the first timer's id, and every
  later turn starts another one.
* `live_race`: an event that raced a render is said to be dropped (`vdom.rs` 194-196,
  `lib.rs` 235-237). It is, if its path leads nowhere now; if another item has moved
  there, that item gets the click.
* `eval_fold`: a fold is "inlined as a loop" (`wasmgc/src/lib.rs` 1353, README 104-106). `fold_gc`
  leaves the loop's counter as it is, unlike `count_loop` and `comprehension`, which set
  theirs to 0. A fold that runs again in one call of the function - in the text of every
  item of a list, in a comprehension, in another fold - has nothing left to do the second time and
  yields its initial value. In the program `Shares`, every row but the first shows 0 for
  the total. In a `where` it can make the two passes of a comprehension disagree.

* `zuc_hint`: `.expect("typechecked: none has a hint")` (`gen.rs` 655). `check_msg_call` checks the
  arguments of a message against its payload's types, `emit_msg_call` (`gen.rs` 557-567) emits them
  without an expected type. `onClick Pick(none)` passes the checker, and the generator panics.

Six more that no run is spent on. If the body of a response cannot be read after the
headers came, `done` is never called and the command stays pending, where `effects.rs` 89-90 says
"the response (or network error, ...) arrives through `f`" (`CommandsSettle` allows for it). With
the Rust backend boot.js is rewritten before wasm-pack runs: after the app was renamed, a
failing wasm-pack leaves a page that imports nothing, where the README (35) says "the last good build
keeps serving" (in `dev` the app keeps its name). The stamps of `zuc dev` are taken after the first build,
so a save made during it is never built, where `main.rs` 267 says "`zuc dev` rebuilds on
save". A page whose first poll comes after a rebuild
takes the new count for its own and does not reload (`main.rs` 530-542). The
preventDefault flags are said to be "refreshed per render" (`zumar.js` 15), but a name
that left the tree keeps its flag. `patch.rs` 40-41 says insertions only touch the
tail of a child list; keyed diffs insert anywhere.

Where checker and generator part. Reading the two side by side shows other programs that
are accepted and then make the generator panic or rustc refuse its output; the programs of `MCZuc`
leave them out, and `AcceptedCompiles` is to be read with that in mind.

* In a list without an expected type the checker takes the first element's for the others, the
  generator nothing (`length [some 1, none]`); `[]` is accepted as a message's argument, like `none`;
  `type_of` looks at the first arm of a `case` without the arm's variable.
* A variable of a loop is a `&i64` or a `&bool`, and is not dereferenced where it stands alone.
* `{ b | }` changes nothing and is no Rust; the model as a value needs a Clone it does not have; a
  record as the payload of a variant needs a PartialEq it does not have.
* The payload types of variants are not checked to exist (`check.rs` 97-107 looks at records and
  the model), and a record literal for one that does not makes the generator panic. Two payload
  variables of one name, two settings of one field in an update, a record that contains itself, `acc` and
  item of one name in a fold: none is refused by the checker.
* Rust's names: keywords, and functions for messages that differ in case only
  (`__http_got` for `Got` and `GOT`). A payload variable called `model` hides the model from
  the commands after it.
* `-model.count` is read as `(0 - model).count`: a sign binds tighter than a field. `ZuPrint`
  writes the other as `-(model.count)`.

Where the two backends part. No document says they agree in these cases, so there is no
run; the models stay within the programs on which they do, by the hypotheses named
below or by the templates given to `GcView`.

* Two `every` sites with one interval have a timer each in an emitted module and are
  one subscription in the runtime; if they are the two branches of an `if`, going from
  one to the other restarts the interval in the module and retains it in the runtime
  (hence `DistinctKeys`).
* With two handlers for one event on one element, the table's first one wins and the
  runtime's last one does (hence `OneHandlerPerEvent`).
* preventDefault is decided for the whole program when it is compiled, and per render
  by the runtime.
* The counter of an emitted module wraps inside `next_id * n_sites + site`, after
  2^32 / `n_sites` commands, where the site is recovered only if `n_sites` divides 2^32
  (hence `NoWrap`); the runtime's wraps after 2^32.
* `toInt` takes a leading `+` and gives 0 for a number out of range in Rust; the emitted
  `atoi` takes no `+` and wraps. The least Int has no digits in the emitted `itoa`, and
  divided by -1 it is 0 in Rust and a trap in the module. (The programs of `MCZu` avoid
  all four.) A debug build of the Rust, which `zuc dev` makes, panics when arithmetic overflows.
* `==` on Bools passes the checker and is emitted as a comparison of i64s, which makes an invalid
  module.
* An emitted module has one i32 of subscription bits, and fixed buffers for the event's
  value, its path and the update it writes.

### Fairness

`Client` assumes that the browser runs a timeout that is due and settles the promises
of a fetch, one way or the other; it assumes nothing of users and intervals, and
nothing about how a promise settles. `Live` adds that an open socket delivers, that the
server answers frames, and that `mountLive`'s loop connects again; a drop may still
happen at any step (boundedly often). `DevServer` assumes that the main thread runs,
that the page's requests are answered and that its poll loop turns; saves and restarts
are never owed. All fairness is weak.

### Bounds

`MaxDepth` is the parser's limit, 64 in the code and 8 in the run, which nests programs to both
sides of it. `Radix` is 128 in the code and 8 in the run: numbers and lengths from 8 on take two bytes and
those from 64 on three; the strings of the run have every length from 0 to 15. `MaxPath` is 64 in
the code and 2 in the run, whose paths have up to three levels. A string stands for its bytes (`Utf8`, injective), so
that a leading byte order mark, which `TextDecoder` drops and `from_utf8` keeps, is outside the
model. `MaxNumber` is 2^53 - 1 in the code, the last number JavaScript holds exactly, and 170000 in the
run, beyond any id, time or length in it; `MaxU32` and `MaxU16`, the largest of u32 and u16, are 4095
and 511. The frames of the run stay within them (`FramesArrive` does not); an id the server handed out does, too. `Sessions` are the turns whose messages are
followed; on the other pairs of trees the patches are applied as they are. `TreesFit` and `TurnsFit`, which TLC
evaluates with the run, say that nothing is larger than a number can say: what a tree is made of are strings that have
bytes, and lists - of children, attributes, patches, events, commands - are no longer than `MaxNumber`. Two to the 53
items do not fit into any memory. A list of children is no longer than `MaxU32`, as an index on the way of an
event is a u32.

`MaxId` bounds the ids a behaviour hands out and stands for `u32::MAX`: a turn that
would need more is not taken, so the wrap-around after 2^32 effects is outside the
models. `MaxFrames` bounds the frames the user and the timers put on the wire and the
updates the server has in flight, `MaxDrops` the lost connections, `MaxSaves`,
`MaxHtmlSaves` and `MaxRestarts` what the developer does. `Width` is that of an Int, 64 in
the code and 6 in the runs: the digits, the wrap-around and the bounds are then within
reach of a few messages. `MaxHandles` bounds the effects an emitted module's page starts, and `Wrap`
is the range of an i32; with `Wrap = 64` and nine effects at three sites the counter
does not wrap (`NoWrap`, which TLC evaluates as an assumption of `MCGc`).

## What is proved

`ProgramProofs` proves, for every application (every set of models, subscriptions,
views, command lists), every host and every `MaxId`:

* `ProgramTypeCorrect`: `ProgramSpec => []ProgramTypeOK`;
* `IdsHaveOneOwner`: no two effects ever share an id;
* `LedgerIsTheModels`: after every turn the ledger is what the model asks for;
* `IdsNeverReturn`: an id that was given up is never handed out again.

The only assumption is `AppAssumption`, the types of the constants and that an update
may request nothing.

The argument. Type correctness and unique ids are not inductive by themselves: that a
fresh id differs from every id in use needs that all of those are below `next_id`
(`IdsIssued`), and that a retained subscription's id is still unused needs unique ids
before. `ProgramInv` is the conjunction of these with `LedgerFollowsModel` and
`TreeIsView`. All turns end in `Settle`, so `SettleKeepsInv` is proved once, for any
ledger that is part of the old one, and `NextKeepsInv` only has to show which ledger
each action starts from. Below it, `SettledPending` and `SettledSubs` describe the two
ledgers after `Settle`; they rest on `FreshCounts` (counting the fresh entries of a
list is strictly increasing along it), `SubIds` (hence fresh ids are distinct and in
range) and `LastWins` with `GreatestPosition` (the last occurrence of a key exists,
so that CHOOSE picks it).

`ClientProofs` carries this over to the page:

* `ClientImplementsProgram`: `ClientSpec => ProgramSpec`, since every browser task is
  at most one call; all of the above therefore holds in a page;
* `ClientTypeCorrect`, `CommandsAgree` (`InFlightIsPending`) and `EventsAreDelegated`
  (`EventsDelegated`), for every application;
* `TimersAreTheLedgers` (`TimersMatchLedger`) and `PageKeepsContract`
  (`ClientSpec => KeepsContract`), for every application with `NoDuplicateSubs`. The
  hypothesis is needed: `client_dup` is the counterexample without it.

The argument. `ClientInv` joins `ProgramInv` to the shim's half; the Program's half is
what bounds the ids that an update can carry (`ShimStepKeepsInv`). If no key is asked
for twice, `SettledDistinct` says what a turn does to the ledger in terms of keys
alone: an old key keeps its id, and the Starts are exactly the new keys under their
new ids. `RetimedMatches` follows for the timers, and `TurnKeepsContract` checks the
conjuncts of `EffectsContract`'s `Turn` one by one.

`LiveProofs` does so for a session over a socket, for every application and every bound on
frames and dropped connections:

* `LiveTypeCorrect`: `LiveSpec => []LiveTypeOK`;
* `PagesNeverDiverge` (`ScreenCatchesUp`): every update meets the tree it was diffed from;
* `LiveCommandsAgree` (`CommandsInOnePlace`): an id the server awaits is in an update, with
  the browser, or in a completion, and in one of them only;
* `TicksAreNotMistaken` (`TicksReachTheirSub`): a tick that crosses its Stop reaches nobody;
* `LiveTimersAgree` (`TimersCatchUp`), under `NoDuplicateSubs`.

The argument. What the runs check mentions either the ends or a page that has caught up;
that is not inductive, as an update in flight is applied later. `LiveInv` says of every
position on the wire what the property says of its ends: `Chained` (each update starts from
the tree the one before leads to), `CommandsOnce` (the places of an id, and no two of them),
`NamesAgree` (an id on the wire, in a timer or in the ledger names one key, now and later).
For the timers, `TimersComing` applies all the updates in flight to the browser's timers, in
order, and says that the result is the ledger. There is then one lemma for each
conjunct and each thing the wire does: a turn appends an update (`PushChains`,
`PushCommands`, ...), the page takes the oldest (`Apply...`), a frame goes up (`Send...`).
`TurnCarries` and `TurnRetimes` are what they need of `Settle`, from `ProgramProofs`. A drop empties the
wire, so `DropKeepsLive` starts over with a new Program.

`DevProofs` proves, for any number of saves and restarts and any choice of those that
compile:

* `DevTypeCorrect` and `PkgMovesForward` (`BuildsMoveForward`), for every app;
* `LastGoodBuildServes` (`GoodBuildKeepsServing`) and `SettledPagesAreFresh`
  (`SettledPageIsFresh`), under `OneCrate`, for an app that keeps its name. The hypothesis
  is needed: with the Rust backend `boot.js` names the new crate before wasm-pack runs, and
  if that fails there is no such crate in `pkg/`.

The argument, in three layers. `BuildInv`: the build under way is of a save that compiles
and `pkg/` holds none beyond it. `ServeInv`: from the first build on the crate is there and
`boot.js` names it, at every step of the later builds and after a failure of any of them.
`FreshInv`, until a restart: a page loaded at the present count has, outside of a build,
what is served, and has not a later `index.html` than the stamp. The count goes up after
the last write of a build, so a page that saw less of it is told to reload. After a restart
the count starts over, and a page may take the new count for the old; so
`SettledPageIsFresh` is about sessions without one.

`GcProofs` proves, for every program (`GcAssumption`: sites, kinds, messages, at most 32
`every`s), every `Wrap` and every `MaxHandles`:

* `GcTypeCorrect`: `GcSpec => []GcTypeOK`;
* `TimersFollowTheModel` (`TimersAreWanted`): after every call bits, map and browser hold
  one interval for each site the model wants, and no other;
* `ModuleKeepsContract` (`GcSpec => GcKeepsContract`), under `DistinctKeys`: the contract
  the runtime keeps, with a bit per site in place of the ledger;
* `ContinuationsAreRecovered` and `CommandIdsAreUnique`, under `NoWrap`.

The argument. `Steps` reduces every action to two: `TurnOf`, which carries out an update,
and `Advance`, which moves a fetch on. `Consistent` is `TimersAreWanted` for what was
last asked for, which is nothing before `init`; `CarriedOut` describes intervals and map
after an update by `KeptOrNew`: each wanted site has the interval it had or the new one
of this update. The contract also needs that a command and an interval never have one
name (`NothingShared`). For the ids, `IssuedBelow` says that every outstanding one is below
`nextId * NSites`; a new one is at least that (`IdRange`), so it is new, and none is cut off
by `Wrap` (`StagedWithoutWrap`), so that its remainder is its site (`SiteRecovered`).

For `GcPage` it proves, for every template and every set of models and items (`ViewAssumption`: parts
are less high than the whole, no region in a region, an attribute is written once; `PageAssumption`: a
list that a region names is one in every model):

* `PageRefinesEffects`: `PageSpec` implements `GcSpec`, so that all of the above holds on the page;
* `PlanCarriesOver`: for any two models, the plan made when the program was compiled turns the
  tree of the one into the tree of the other;
* `PageShowsTree` (`TreeOnScreen`);
* `TableFindsListener`: for any model, any node and any event, the sorted table and the runtime's
  `find_listener` come to the same message with the same argument, or both to none;
* `EventsFindTheirHandler` (`HandlersAgree`), which is that for the states of the page.

The last two are under `OneHandlerPerEvent`; a program without it is the one thing the two backends
disagree about here.

The argument for the tree. `PageInv` says that the page's tree is `Tree(Template, model)`, and
`PlanCarriesOver` that an update keeps it so. The patches come in three lists (texts, attributes,
regions), and by induction on the height of a template each list changes, wherever the template
stands, what it is about and nothing else: `Between` has the trees that lie in between, with the
texts of the new model and the attributes of the old one. What is not in the plan is a constant,
which has one value in all models. `TreeOnScreen` compares this tree with the one the runtime renders
node by node; `Seen` says that a path leads to the same part of the template, for the same item, in both.

The argument for the events goes along a path `p` through the rendered tree. A rendered node
`Says` what is written on its part of the template (`ViewSays`). `TemplateAgrees`, by induction on
height: a handler collected for the template is `Caught` by `dispatch`, with specificity `k`, just if
the `k`-th node on the way says so; below a region `BodyAgrees` is the same for the
handlers that `collect_body_handlers` finds, where the step behind the region picks the item. So the handlers that match
are the listeners on the way, each at its depth. The table is sorted by depth
(`SortedIs`), so its first match is the deepest, and the last one bubbling meets (`FindListenerIs`) is the
deepest, too; that there is only one at that depth is the hypothesis.

`TreeDiffProofs` proves, on the lemmas of `PatchProofs`, for all trees of any width and height
(`TreeAssumption`: text nodes have neither key, attributes nor children, attributes are
finitely many, children are trees and less high than their parent):

* `CountsStayExact`: in every state matching can leave it in, the counting tree counts exactly
  the children not matched before any place (what `CountsAreExact` compares up to nine);
* `StructureFollowsMatching`: the moves and insertions of `diff_children_keyed` are in range
  when their turn comes, go from the right to the left, and bring each matched child and
  each new one to its place; `OnlyMatchIsTaken`: two children that only each other can be
  matched with are matched;
* `DiffCarriesOver`: wherever the snapshot of `a` stands in a DOM, the patches from `a` to `b` fit
  one after the other and leave the snapshot of `b` there and all else as it was;
* `TurnPatchesFit` (`PatchesFit`), `TurnShowsTree` (`ScreenShowsTree`) and
  `TurnKeepsKeyedNodes` (`KeyedNodesSurvive`).

The argument. A cell `j` of the counting tree holds the number of unmatched children in the
`LowBit[j]` places up to `j` (`Counts`). `add` visits exactly the cells whose span has the place,
`count_below` splits a prefix into such spans; both rest on facts about the lowest set bit,
proved by induction on the number.

For the matching loop, `Frontier` is the invariant of a round: what stands before the frontier are the
first new children, in order, and behind it are the old ones not matched yet, in
their old order. The place of the next match is then the frontier plus the number of unmatched ones
before it, which is what the counting tree says; a move takes it out from there, and the rest
keeps its order.

That `PatchesFit` holds now says nothing of the patches after the next, so it is not inductive.
`TurnInv` is: the patches that are left fit one after the other and lead from the DOM as it is to the
snapshot of the new tree (`Leads`). A step takes the first of them away. That it holds at the
beginning is `DiffCarriesOver`, by induction on the height of the tree: `DiffPairs` works inside
children, each at its new place, and a patch inside one child neither moves nor changes another, so
the children's own patches can be followed one child after the other
(`Carries` for all children gives it for the parent). It quantifies over the path and the DOM around it, because the
recursive calls are made in a DOM that is half new.

For the keyed nodes `PlacesInv` says the same of the ghost: following what is left to do from `was`
ends with every element of a lone key where it should be (`Traces`, `Kept`). Here one has to know
where patches lie: those of a child are at its place or below, and one of them makes it anew only if its
tag has changed (`Orderly`), so that two children with one key and one tag spare the node they share
(`Spares`); and that a key which each list has once is matched with itself (`OnlyMatchIsTaken`).

`TurnInv` and `PlacesInv` speak of a sequence of DOMs that exists, out of a set no run can
enumerate. TLC therefore checks what follows from them, on every step of every pair of trees of
the run `diff`.

`LiveTurnProofs` proves, for every `Radix`, every alphabet of strings, all limits, all trees and whatever is
requested in a turn, first of the messages:

* `FramesArrive`: what `zumar-live.js` writes, `frame.rs` reads as it was meant. Malformed are just the
  events more than `MaxPath` levels deep and the numbers that u32 and u16 have no room for;
* `RenderDecodes` and `UpdateDecodes`: what `wire.rs` writes, `decodeInit` and `decodeUpdate` read as it was
  meant, for any tree, any list of patches, any events, commands and subscriptions;
* `PeekFindsTheNames`: the walk of `zumar-gc.js` over a first render finds the names of its events;

then of a live turn:

* `LiveTurnIsATurn`: `LiveTurnSpec => AnyTurnSpec`, the turn of `TreeDiff` on any two trees. The page applies
  what it has decoded, and that is what was made; hence `LivePatchesFit` (`PatchesFit`), `LiveShowsTree`
  (`ScreenShowsTree`) and `LiveKeepsKeyedNodes` (`KeyedNodesSurvive`);
* `WireLosesNothing` (`WireIsLossless`);
* `EventsReachListeners` (`EventReachesItsListener`).

What is assumed of the constants: different strings have different bytes (`CodecAssumption`), a number JavaScript
holds exactly takes at most the ten bytes a reader looks at, and a string is no longer than such a number
(`NumbersFit`), and nor is anything else (`TreesFit`, `TurnsFit`; see Bounds). Since the numbers are below 2^53, neither the
u64 of `frame.rs` nor the f64 of the page loses a digit.

The argument for the frames. A reader cannot see where a value ends but by reading it, so each lemma is about bytes with
anything behind them: `Takes` says that a read takes off exactly what its writer wrote, whatever
follows. For numbers (`VarintRead`) that is because only the last byte of a varint lacks the top bit, and because its
digits add up to the number (`NumberIs`, by induction on the number); for strings, because a
length is read first. `AllTaken` carries it over to reads in a row, and so to a path of any length. The optional strings of
an event are told by its flags: `FlagsSay` that every flag can be read off their sum, `PayloadArrives` that
the strings present then come in the order in which they were written.

The argument for the messages. Here methods call each other, and trees are read by a method that calls itself.
`RecursionEnds` says once, for all recursive functions of the modules (`Unfolds` lists them), that a
function whose value at `x` depends on what is lower than `x` exists, and so satisfies the equation it is
defined by; `ChainEnds` is the case of numbers. `Tells(what, x, v)` is `Takes` for methods: of any bytes
that start with `x`, the method `what`, if its calls may be nested as deep as `x` is long, takes just these and
makes `v` of them. It is composed as the methods are: `PartsTogether` and `AllRead` for reads in a row, each
part shorter than the whole; `ListTells` for what is preceded by a count; `StructureTells` for a layout that its
first byte selects. There is one lemma for each method (`PatchTells`, `CmdTells`, `SubTells`, ...), with
a case for each tag. `NodeTells` is by induction on the height of the tree. `PeekFindsTheNames` goes the same
way for the third reader, which makes no value and only has to come out at the right byte (`Skips`).

That an update can be written in the first place needs a fact about `diff`: indices are positive, paths
lead no deeper than the tree, lists are no longer than a number can say. `SentPatches` are the patches of which
that holds, and `AlwaysSends` proves it of `Diff` by induction on the height, through the matching loop (`MatchingSent`).

`WireIsLossless` is about steps and not inductive by itself; `StageInv` is: until the update is there the screen shows the old
tree, the patches are those that `Diff` made, and what the page has learned can be sent. With it `Mount` and
`Receive` leave the DOM, the patches and the ghost as they were made (`MountIsExact`, `ReceiveIsExact`), so they are
stutters of `TreeDiff`, and its `TurnInv` holds of a live turn, too. An event is sent when no patch is left, so the screen is then the
snapshot of the tree the server resolves the event in. `WaysAgree`: a path leads somewhere in the
one just if it does in the other, so every `pathOf` an element leads to a node of the tree
(`PathsLead`), with indices a u32 has room for (`PathsAreSent`). `FindsDeepest`: the walk of `find_listener`, which
keeps the last listener it meets, ends with the one of the deepest node on the way that has one.

Only model-checked: the liveness of `Client`, `Live` and `DevServer`, since liveness under fairness and
ENABLED are beyond the prover; `ZuBackends` (that both backends compute one value) and `Zuc` (parser,
checker and generator). Their modules are written with recursive operators over programs and values, which the prover
does not take. And as they stand they are not theorems: `ModelsAgree` and `AcceptedCompiles` are false of some
programs, those listed above where checker and generator and where the two backends part, and the runs leave these out one by one. To prove them one would
have to say in general which programs are left, and then go by induction over programs of every form, restated
over carriers of finite height as in `TreeDiff`, `GcView` and `Wire`.

## What is not modelled

* The lexer: which characters make a token. A program is its tokens, and a position in an error message
  is not followed.
* Of the Rust generator, the values of `sum`, `nth`, variants with payloads, `httpPost`,
  `publish` and `topic`, which the other backend does not accept (their types are in `ZuGen`), and the text of Cargo.toml.
* Of the wasmgc emitter: the linear memory's layout, and the writer of updates inside the module.
  `LiveTurn` follows the writer of `wire.rs` only.
* The attribute guards of `zumar.js` and the split between an input's attribute and
  its live value.
* `zuc new`, `build`, `check`, `assets`: run once, keep no state.
* The journal and the bus a live server may have: not in this repository. The examples and spikes
  are applications; the models leave the application open.
* Timers of a page whose connection dropped: they keep firing into a closed socket,
  which changes nothing.
* A server that closes for reasons of its own (policy, shutdown), other than as one of `Live`'s drops.

## What could come next

`GcMemory`: the emitted module's buffers, its writer of updates, and the updates that outgrow them. Then the expressions
of `ZuExpr` and `ZuEmit` as recursive functions over programs of finite height, and `ModelsAgree` proved for
programs without folds.
