# Specifications of hostcompute_nspawn

`hostcompute_nspawn` starts a Windows Server container through the Host Compute
Service (HCS), runs one process in it, waits for the process to exit, and takes
everything down again. The program is short, but one thread of it talks to a
service that answers on threads of its own, and what it sets up on the host has
to be undone whatever call fails. That part, and what stands around it (the lazy
binding to the DLL, the settings, the documents made of them, the command line
and the C interface), is specified here in TLA+, checked with TLC on small
instances, and proved with TLAPS wherever safety is concerned.

## The system

| component | source | state | operations |
|---|---|---|---|
| `callback_latch` | `src/callback_latch.hpp` | a mutex; for each of four notification types a condition variable and an atomic flag | `lock`, `cancel`, `await` by the spawning thread; `unlock` by threads of the service |
| `spawn_and_wait`, `hcs_*` | `src/hostcompute_nspawn.cpp` | its position, the objects in scope | the set-up calls, three awaited calls, four deferred clean-ups |
| notification types | `src/notification_type.hpp` | none | |
| vmcompute binding | `src/vmcompute.cpp` | a function-local static per export, and one for the library | sixteen wrappers that look the function up at the first use and throw when it is missing |
| HCS and layer driver | outside the repository | the layer, the compute system, the process, pending notifications | the calls, completions, exits, loss of the service |
| C interface | `hostcompute_nspawn`, `hostcompute_nspawn_free` | the error message handed out | argument checks, parsing, catch-all |
| `nspawn_config` | `src/nspawn_config.hpp` | the settings | parse, validate, move, print |
| layers and identifiers | `container_layer.hpp`, `container_id.hpp`, `collect_acsendant_layers` | names, paths | GUIDs, descriptors, layer chain |
| documents | `container_config.hpp`, `process_config.hpp` | references to the settings | JSON for HCS |
| command line | `src/main.cpp` | the options | parse, choose and read the configuration, exit code |
| `utils`, tests, build | | none | |

The spawning thread calls the service through the wrappers. Before each of the
calls whose completion it awaits it takes the latch's mutex (`lock`) and keeps
it, with no guard object, until `await` or `cancel` adopts it. The service
calls `container_callback` on its own threads with the address of the latch;
the callback calls `unlock`, which sets the flag and then takes the mutex to
notify. Flags are never reset and callbacks are never unregistered. The
clean-ups and the latch are objects in the scope of `spawn_and_wait` and go in
the reverse order of their declaration, on a normal end and on an exception.

Hard behaviours, each listed with its line under `hazards` in `PROJECT.json`:
the flag is set outside the mutex; the mutex is locked in one function and
unlocked in another; operations complete before, while and after they are
awaited; any of sixteen calls may be refused, or missing from the DLL, half way
up; a clean-up may fail in turn; the container may exit by itself; the service
may go away; the latch dies while callbacks may still come; two threads may meet
at a static that is not initialised yet; descriptors point into strings that
move when their vector grows; the option parser returns early; a length is narrowed to an `int`.

What makes the components correct:

- latch: the mutex is never orphaned, no wake-up is lost, a repeated
  notification does no harm, `await` returns if and only if its event came;
- spawning thread: each wait has waited for what it says; the layer is not
  taken from under a container; what is left behind has been reported; it ends;
- binding: whoever calls first and however many call at once, a call reaches
  its function if and only if the DLL exports it;
- configuration: an object is accepted exactly when all of it is good, and then
  holds what it says;
- documents and layers: the driver, which follows pointers, and the service,
  which reads documents, are told of the same layers, and the process runs where
  the settings say;
- command line and C interface: one exit code per outcome, and every error
  message freed once.

## Modules

| module | role |
|---|---|
| `OneShotEvents` | what a latch promises: events raised once, a wait that ends after its event and does end |
| `CallbackLatch` | `callback_latch`, one action per atomic step of a thread |
| `CallbackLatch_proofs` | the proofs about it |
| `HostCompute` | the service and the layer driver, external, as the code relies on them |
| `SandboxLife` | what `spawn_and_wait` promises about the host: up in stages, one turn, down in stages, never under a live compute system |
| `SpawnAndWait` | `spawn_and_wait`, `container_callback` and the `hcs_` functions, composed with the latch and the service |
| `SpawnAndWait_proofs` | the proofs about it: its invariants |
| `SpawnRefines_proofs` | the proofs that it uses the latch as meant and keeps `SandboxLife`'s promise |
| `BindingTable` | what the wrappers promise: one decision about the library, then a table of functions |
| `Vmcompute` | the wrappers and their statics, with any number of callers |
| `Vmcompute_proofs` | the proofs about them |
| `NspawnConfig` | `nspawn_config`: the constructor, the two moves, `to_json` |
| `NspawnConfig_proofs` | the proofs about it |
| `Documents` | `container_layer`, `container_id`, `container_config`, `process_config` as functions of the settings |
| `LayerChain` | `spawn_and_wait` again, for its data: the vectors of layers and descriptors, and the documents |
| `LayerChain_proofs` | the proofs about it and about the documents |
| `Launcher` | `main.cpp`, `hostcompute_nspawn` and `hostcompute_nspawn_free` |
| `Launcher_proofs` | the proofs about it |
| `SequenceLemmas` | facts about numbers and sequences that the proofs about data use |
| `MC`... | instances for TLC |

### CallbackLatch

`mutex` is the owner of the mutex, `flag` the set of types whose flag is true.
`phase` and `target` say where the spawning thread is: `Lock` is `lock()`,
`Cancel` is `cancel()`, `Await(n)` the switch of `await` and the adoption of
the mutex. `await_internal` is the loop hidden in `condition_variable::wait`:
the predicate is read (`WaitEnds`, `WaitGoesOn`), the thread joins the wait set
and releases the mutex at once (`Sleep`), is woken by a notification or for no
reason (`SpuriousWakeup`), and takes the mutex again (`Reacquire`). `stage` and
`note` say where each service thread is in `unlock`: `Callback(w, n)` is its
switch with the ignoring default, `SetFlag` the compare-and-exchange, which
needs no mutex and so may fall between any two steps of the waiter, `TakeMutex`
and `NotifyAll` the guarded notification.

In this module any thread may deliver any notification at any time and again,
which is more than the service does.

### SpawnAndWait and HostCompute

`pc` names the vmcompute function the thread calls next, and `scope` the
objects with a destructor declared so far. The actions have the names of the
functions in the source. A call succeeds, is refused with an error code, or
throws because the DLL does not export it (`missing` is chosen once, at the
start). In `unwind` the object declared last (`Rank`) is destroyed first: the
clean-ups are actions, and so is the end of `cs_latch`. `reported` collects the
clean-ups for which an `ERROR` line was printed. An exception out of a clean-up
ends the process (`crashed`), and so may the use of a destroyed latch; in the
other outcome of that undefined behaviour the old bytes still serve.
`threw` tells the two ways of returning apart.

`HostCompute` makes few assumptions: a pending operation ends once, with success
or failure, and is notified once; notifications wait for their callback to be
registered and then come in any order on any thread; the container and the
process may exit at any time; the service may be lost, after which nothing but
that is notified. Start needs a created system, process creation and
termination a running one; every other call may be refused or served at will.
That notifications wait for their callback is what the code relies on when it
registers after the creation of the system and of the process: no check would
find a wait that never ends because the service drops what comes too early. Nor
is anything promised of a wait once the service is lost (`EventuallyReturns`), or
of the process once an export under the latch or of a clean-up is missing
(`DeathHasCause`).

### Vmcompute

`guard` and `value` are the compiler's flag and the contents of each static; the
library has one (`Lib`), each wrapper has one. An address is the name of what is
found there: the wrappers cast what `lookupfun` returns, so that only `TypeOK` and
`InvokesFound` tell a wrapper's own function from another's. `Enter` is the declaration of a
static being reached: it is used, or initialised by this thread, or waited for.
`Serialised` says whether threads wait, as C++11 asks; without it a thread that
meets a static under initialisation uses it as it is or initialises it too.
`LoadLibrary` keeps what it gets, null as well; `CheckLib` and `GetProcAddress`
throw out of the initialiser of the wrapper's static, which is then open again.
`Invoke` through a null pointer ends the process. `exported`, what the DLL
exports, is chosen once.

### NspawnConfig

`doc` is the JSON object, a sequence of fields in which a name may repeat, and
`pos` the field the loop of the constructor has reached. `ReadField` has the
switch on the name and the kind and range it demands; `Validate` is the check
after the loop. `MoveConstruct` and `MoveAssign` differ in the numbers they
reset in the object they leave.

### Documents and LayerChain

`Documents` has no state. Texts are sequences of the pieces that matter:
separators, blanks, hexadecimal digits, names. `LayerChain` follows one call of
`spawn_and_wait` along its data. `layers` and `buffer` are the vector of layers
and how often it has moved; `Characters(i)` is the address of the characters of
a path, inside its layer when the path is short, and `Read` what the driver
finds there when it follows a descriptor, in `hcs_create_layer` and again in
`hcs_prepare_layer`. Which calls fail, and what is undone then, is
`SpawnAndWait`'s subject: here a failure ends the run. `Started` is how `cmd` and
`start` read the command line again: the mask is the word after `/affinity`, the
program the next one, and the output goes to the word after the last `>>`.

### Launcher

`argv` is a sequence of options, arguments and elements popt refuses; `opt` is
where popt stores, `config`, `directory` and `help` the public members that the
constructor of `Options` sets last, if it gets there. `help` starts
`indeterminate`. A text is its length and the lengths of those beginnings of it
that are a complete configuration (`IsText`). `ReadConfig` takes the length through
`Narrow`, the conversion to `int`, and `LoadSettings` reads that much. The same
actions serve a program linked with the library (`LibraryCalls`), which may pass
null, a length that is none, or one of a beginning. `spawn_and_wait`
is here three outcomes: it returns, it throws, it takes the process with it.

## Runs

| run | instance | checks |
|---|---|---|
| `callback_latch` | 2 awaited types, 1 ignored, 3 service threads | `TypeOK`, `LockHandOff`, `NoLostWakeup`, `OneNotifier`, refinement `KeepsPromise` with liveness |
| `spawn_faults` | 3 threads, every call may be refused, 4 may be missing, service may be lost | `TypeOK`, `WaitsHaveEnded`, `LayerOutlivesSystem`, `LayerLeftIffReported`, `LateCallbackReported`, `DeathHasCause`, `EventuallyReturns` |
| `spawn_clean` | 2 threads, the compute system's own calls and the clean-ups are served | `LatchProtocol` (the whole program takes only steps of the latch), `KeepsHostClean` (refines `SandboxLife`) |
| `vmcompute_threads` | 3 callers, 2 functions, any exports, statics serialised | `TypeOK`, `OneInitialiser`, `InvokesFound`, refinement `KeepsTable` with liveness |
| `vmcompute_plain` | 2 callers, 2 functions, statics not serialised | `RaceLeavesNoTrace` |
| `nspawn_config` | a complete object with any two fields put in, spoilt, repeated or taken out | `TypeOK`, `HoldsWhatWasSaid`, `PrintedReadsBack` |
| `layer_chain` | chains of up to 3 layers below the parent, 11 affinity masks | `TypeOK`, `DriverSeesChain`, `DocumentStacksSameLayers`, `ProcessRunsInItsDirectory`, `AffinityMaskRead` |
| `launcher` | command lines of up to 3 elements, 7 paths, an `int` of at most 3 | `TypeOK`, `RunsWhatWasAsked`, `ReadsWithinText`, `HelpIsInitialised`, `ExitTellsOutcome` |
| `start_refused`, `self_lock`, `latch_gone`, `start_fails` | 2 threads, one cause each | disagreements between the code and what the repository says, below |

Bounds. Three service threads let a repeated notification meet the first one in
flight while a third thread holds the mutex. The latch's types do not interact,
so two stand for four. In the composed model a type is notified at most once,
and at most three notifications (create or start, system exit, process exit)
can be under way together, so three threads are as good as any number for
safety, and `spawn_faults` checks liveness with them too; the refinement run uses
two, which already lets every pair of handlers overlap. The four missing exports of `spawn_faults` are one per
kind of place: a call under the latch with and without a clean-up of the
compute system in scope, the termination, and a layer clean-up.

In `vmcompute_threads` one thread initialises, one waits and one uses, and a
function that is found stands beside one that is not. In `nspawn_config`, `Max16`
is the real bound and `Max32` any larger number, since only comparisons are made;
TLC's integers end before the real one. Two changes let a bad value follow a good
one of the same name and the reverse. `InlineMax` puts some paths inside their
strings and some outside, and the vector may move at each of three growths; the
masks have one to four digits, 0 and 65535 among them, and an argument has a blank
in it. `MaxInt`, the largest `int`, is 3, and `Ints`, the number of its values, is 8;
the lengths of the files are 0, some an `int` holds, 6, which stands for 2 to 4 GiB
and narrows to a negative number, and 10, which stands for more than 4 GiB and
narrows to 2. Three elements of a command line let an option repeat with a third
element before, between or after. There is no unbounded counter in the models
and no state constraint in the runs.

Fairness. In `CallbackLatch`, a thread inside `await` or `unlock` keeps running
(weak fairness); nobody has to call `lock` or to notify, and spurious wake-ups
are never assumed. In `SpawnAndWait` the thread and the service run (weak
fairness), which is what the operating system and a live service give; a thread
that waits for a mutex that is free again and again gets it (strong fairness),
since otherwise endless spurious wake-ups of the spawning thread could keep a
callback out for ever. No fairness makes the process in the container exit, the
service break, or a thread that owns the mutex get out of locking it again.

In `Vmcompute` a thread runs (weak fairness) and gets past a declaration that is
open again and again because the initialiser keeps throwing in other threads
(strong fairness); nobody has to call. The other modules are sequential and
state safety only.

Deadlock checking is on in every run; a returned or dead process stutters.

## What the runs show

The latch is right as a latch: setting the flag outside the mutex loses no
wake-up, because the notification itself is made under the mutex, and the
compare-and-exchange makes repeated notifications harmless. `spawn_and_wait`
keeps its order under every failure: it does not take the layer from under a
started container unless it has reported that the container would not stop, it
leaves a layer only with a report, and it ends unless it waits for a process
that runs for ever, for a service that is lost, or for its own mutex (`self_lock`
below). It dies, and loses its
clean-ups, only of a missing export or of a callback that is still inside the
latch (`DeathHasCause`).

The wrappers are as good as a table filled in once, if statics are serialised;
if not, a thread can meet a null function or be told that the library is
missing, but nothing of that lasts. Settings mean what they say whatever their
order, a bad value is never wrapped or overwritten unnoticed, and no address in
a descriptor is stale when the driver follows it, because the descriptors are
made after the vector has stopped growing. The two documents, built apart,
agree on the mounted directory. A configuration whose length overflows an `int`
is refused up to 4 GiB (`RunsWhatWasAsked`), and no length makes the parser read
past the text (`ReadsWithinText`).

Four runs show a disagreement:

- `start_refused`: the clean-up that terminates the compute system is declared
  after the start, so a refused registration or start leaves the compute system
  behind while its layer is destroyed;
- `self_lock`: an export missing at the process registration throws between
  `lock` and `await`; the rollback then locks the mutex again on one thread;
- `latch_gone`: the flag is set before the mutex is taken, so `await` may return
  and the latch be destroyed while the callback is about to lock it;
- `start_fails`: the status of a notification is printed and dropped, so a
  failed start ends the wait and is announced as "Container started";

Modelling the rest met more, which no run checks, since the code plainly does
it. From 4 GiB on the low bits of a file's length may be a legal length
(`main.cpp:161`), so a container may be started from the beginning of a file that
as a whole is no configuration; `RunsWhatWasAsked` leaves that case out and says so,
and the `launcher` run has such a file. Built with the compiler that `README.md` names, a wrapper may say "Cannot load
'vmcompute.dll' library" of a library that loads, in the race that
`vmcompute_plain` lets happen. An argument with a blank in it is not quoted and
arrives as two. The `Name` in the document of the compute system is the directory
of the layers, not the name that "Container created, name" reports. `--directory`
is parsed and nothing reads it.

## Proofs

`CallbackLatch_proofs` proves, for all sets of types and threads that satisfy
`LatchAssumption` (awaited and ignored types differ, the names for nobody and
for the spawning thread are not service threads): `TypeOK`, `LockHandOff`,
`NoLostWakeup` and `OneNotifier` as invariants of `Spec`, and that the latch
implements the safety part of `OneShotEvents`.

The argument is one inductive invariant, `IInv`: the four invariants and
`Bookkeeping`, which ties `target` to `phase` and `note` to `stage`. None of
the four is inductive alone. `NoLostWakeup` needs `LockHandOff` in the one step
that could break it: the notifier owns the mutex, so the waiter cannot be
between its predicate and its sleep, and a sleeping waiter is woken.
`OneNotifier` carries with it that a notifier's flag is set, which is why the
exchange of a second thread fails.

`SpawnAndWait_proofs` proves six invariants of `SafeSpec`: `TypeOK`,
`WaitsHaveEnded`, `LayerOutlivesSystem`, `LayerLeftIffReported`,
`LateCallbackReported` and `DeathHasCause`. `SpawnAssumption` is all that is assumed: `Failing` and
`Unresolvable` are sets of calls, `MayDisconnect` is a truth value, and the
names for nobody and for the spawning thread are not service threads. So they
hold for any number of service threads, whichever calls are refused or missing,
whether or not the service is lost, and in the runs of undefined behaviour that
the model lets go on.

Its `IInv` says which objects are in scope at each position (`ScopeInv`), how
far the layer (`LayerInv`) and the compute system (`SystemInv`) have come there,
that a notification posted, in hand or flagged tells the truth (`HeardInv`),
what an unfinished wait waits for (`AwaitInv`), and what has become of a started
system that nothing in scope will terminate (`FateInv`). The invariants to be
proved speak of the thread and the service; `HeardInv` is the bridge, since the
thread learns of the service through a flag only, and `AwaitInv` says which flag.

`LateCallbackReported` needs more: that nothing the service owes is on its way.
`CInv` adds that a notification is in one place at a time (`OnceInv`), that none
comes before its registration (`RegisteredInv`), which flags are set at each
position (`WaitedInv`), and that after the last wait nothing more is owed unless
a failed termination was reported (`SettledInv`). One case is no accident of
the model: a container whose start was refused is left behind, but it was never
started, so it owes no notification and harms no latch.

`DeathHasCause` rests on `MutexInv`: a service thread owns the latch's mutex only
while it notifies, and the spawning thread only inside an awaited call, unless the
export of such a call is missing. So the ways to die are the ones the property
names: the rollback finds the mutex its own, a clean-up is missing from the DLL,
or the latch is destroyed under a callback.

`SpawnRefines_proofs` proves what the run `spawn_clean` checks on one instance.
`LatchProtocol`, that the whole program takes only steps of the latch, needs one
hypothesis: no call made under the latch is missing from the DLL
(`Unresolvable` and `LatchedCalls` are disjoint); which calls are refused does not
matter. With it the theorems of the latch, proved there for any users, hold of the
latch inside the program (`LatchServes`), and the rollback never locks the mutex
its own thread holds (`NeverSelfLocks`): what `self_lock` shows has no other cause.
`KeepsHostClean`, that the program implements `SandboxLife`, needs `ServiceObeys`:
the registration and the start of the compute system, which come before its
termination is deferred, are neither refused nor missing, the clean-ups are not
refused (one missing from the DLL ends the process, and is allowed), and the
service is not lost; every other call may be refused or missing, at any point. `StageInv` says
that the layer is at the stage the innermost clean-up in scope undoes, `GuestInv`
that on the way down a compute system that lives has its clean-up in scope, and
that one is terminated only while its exit is awaited.
Under the same hypothesis nothing is left behind by a rollback
(`RollbackTerminates`), so what `start_refused` shows comes of a refused
registration or start alone.

`Vmcompute_proofs` proves, for any callers and functions and whatever is
exported, that `Serialised` makes `OneInitialiser` and `InvokesFound`
invariants of `SafeSpec`, and that `Vmcompute` then implements the safety part of
`BindingTable`. `VmcomputeAssumption` only keeps the name of the library's static
apart from the functions. Its `IInv` says that two callers inside an initialiser
bind different functions, at most one of them inside the library's (`AloneInv`),
that a static is marked exactly while someone is (`MarkedInv`), and that one that
is set holds a function (`BoundInv`). For the refinement `LibraryInv` adds that
nothing is found before the library is, and that what is found is exported.
`TypeOK` and `RaceLeavesNoTrace` are proved without serialised statics, where
`IInv` is false: `RaceInv` says less, that a static marked as being initialised has
someone in its initialiser and that one that is set holds a function the DLL
exports, and leaves open how many threads are inside.

`NspawnConfig_proofs` proves `TypeOK`, `HoldsWhatWasSaid` and `PrintedReadsBack` for
objects of any number of fields in any order. `ConfigAssumption` is that documents
are sequences of fields whose values are of one of the kinds of JSON, and
`Max16 < Max32`. `HeldInv` says what each setting is after some of the fields: the
value of the last of that name, or the default; for the arguments the
concatenation of all. `ReadInv` says that all fields before were readable, `StatusInv`
what was found when the object was accepted or refused, and `MovedInv` what a move
has left behind.

`LayerChain_proofs` proves all five invariants of its run, for any settings, any
chain and any `InlineMax`. `LayerChainAssumption` says of the settings what
`nspawn_config` makes of them (texts, a list of texts, a number), and that the paths
and the GUIDs of their names are texts; a path may be of any length and have any
separators. `LayersInv` says that the vector holds the first of the recorded paths,
`DescribedInv` that the descriptors were made of the complete vector, and `SeenInv`
that what has been read through them, and the documents, are of those layers.
`DriverSeesChain` rests on addresses of different layers being different, and
`DocumentStacksSameLayers` on a path being put together as it was cut and on the
identifier losing the braces and the null character, no more. `AffinityMaskRead`
holds of every number: `PrintedNumber` is an induction over the digits. It and
`ProcessRunsInItsDirectory` also need the places of the parts in the command line
(`Layout`, `Marks`) and that they are read there (`MaskAndProgram`, `OutputNamed`). The
latter has a hypothesis, `FilesAreWords`: the mounted directory, the executable and
the output file have no blank in them, nor the output file a `>>`. Without it the
property is false, since nothing is quoted. The arguments may be anything.

`Launcher_proofs` proves `TypeOK`, `RunsWhatWasAsked`, `ReadsWithinText`,
`HelpIsInitialised` and `ExitTellsOutcome` for any set of command lines, any files and
any `MaxInt` above 0, from `LauncherAssumption`: elements are of the five kinds, a given path is a path, the
default path is one, and a file is a text of any length or unreadable. Its `IInv`
has a part for the parser, what popt has stored is what the elements read so far say
(`ParserInv`); one for the way of the text to the call (`WayInv`), where the length
is not positive or is that of a beginning of the text, from main the whole text if
that has less characters than there are ints (`Measured`, by
`Narrowed`); and one for the outcome (`OutcomeInv`).

`SequenceLemmas` has the inductions. The library's theorems about induction have an
operator for a parameter, so `Induction` is about a set of numbers, from the fact
that each has a least element; with it a recursive function is shown to
exist for every length or number (`Gathering` for `FlattenSeq`, `Reading` for
`Hexadecimal`, `PrintedNumber` for `Numeral`).

So every invariant of the passing runs is proved, as are the refinements, in their
safety parts, and `LatchProtocol`. Only model-checked is liveness, which the prover
does not treat: that `KeepsPromise` and `KeepsTable` make progress, and
`EventuallyReturns`. The four disagreements are counterexamples, found by TLC.

## Not modelled

Killing the launcher: nothing is persisted and nothing is read back, so there
is no recovery to specify. Notifications delivered on the calling thread, and
repeated notifications in the composed model (the latch's own run has them).
Memory that is not freed, handles that are not closed, texts that are printed.
The build, the test programs and the timestamp in `utils`. The move operations of
`container_config`, which no code calls but a compiler that does not elide the
return of a temporary, and the fields of the documents that are constants. Paths
with no separator, or with one at their end; blanks in
the executable or the output file, which break the command line as those in an
argument do. What `start` does with an affinity mask of 0, and the service with a
percentage above 100: neither is in this repository.

## Plan

1. Done: the latch, its promise, its proofs; the composition with the spawning
   thread and the service, its promise about the host, its inductive invariants.
2. Done: the wrappers, their promise, their proofs; the settings; the layers and
   documents; the command line and the C interface, and their proofs.
3. Done: what the program promises about the host and how it uses the latch, for any
   number of threads; the wrappers without serialised statics; the settings, the
   layers and the documents, for any length.
4. `SpawnAndWait` with what each call left behind on a missing export in a clean-up
   (`DeathHasCause` says why the process dies, not what is then left on the host).
5. A proof that the hypotheses of `SpawnRefines_proofs` cannot be weakened call by
   call: for each call of `ServiceObeys`, a run or an argument that needs it.
