# Verification of the DeviceInfo plugin

Models, model-checking runs and proofs for `src/plugin`, the Thunder
(WPEFramework) plugin that answers questions about an RDK device: who made it,
what it runs, which audio and video it can do, which addresses it has.

## 1. The system

| Component | State it keeps | Operations | Talks to |
|---|---|---|---|
| Plugin shell, `DeviceInfo.{h,cpp}` | `_service`, `_connectionId`, the pointers to the three implementations, `configure` | `Initialize`, `Deinitialize`, `Information`, `Deactivated`, the interface map | the framework (`IShell`), the implementations, JSON-RPC registration |
| Implementation life cycle, `DeviceInfoImplementation.{h,cpp}` | `_service` | constructor, `Configure`, destructor | IARM, Device Settings, `IShell` |
| Identity queries and `SystemInfo`, same file | none | 12 queries over files, MFR library, RFC | sources that change at any time |
| `Addresses`, same file | none | loop over adapters and addresses | the kernel |
| Script queries, same file | none | `EthMac`, `EstbMac`, `WifiMac`, `EstbIp` | `getDeviceDetails.sh` |
| `SupportedAudioPorts`, same file | none | one getter | Device Settings |
| Audio capabilities, `DeviceAudioCapabilities.cpp` | none | 3 getters | Device Settings |
| Video capabilities, `DeviceVideoCapabilities.cpp` | none | 5 getters | Device Settings |

How they interact. The framework calls `Initialize` on one thread; it creates
the three implementations with `IShell::Root`, in the framework's process
("Off") or in a process each ("Local"), hands the shell to
`DeviceInfoImplementation` through `Configure`, and registers JSON-RPC handlers
that capture the three raw pointers. From then on the workers of the framework
run handlers, and COM-RPC clients obtain references through the interface map
and drop them when they like. `Deinitialize` undoes all this while handlers and
clients are still busy. Out of process, any of the three processes may die at
any moment.

What is hard, and what has to hold:

* **Plugin shell.** Reference counts are touched by the framework thread,
  clients and the recovery of dead processes in any order: no object may be
  destroyed under a holder, none may outlive its last one, and no handler may
  run on a destroyed object. Initialization may fail half way (a failed
  `Root`, a dead process, a lost answer), and what it had acquired has to be
  given back by the `Deinitialize` that follows.
* **Implementation life cycle.** The shell is referenced by an implementation
  from `Configure` to its destructor, which runs on the thread of whoever
  drops the last reference. `SystemInfo` uses `_service` unchecked, so an
  implementation must not be asked before it is configured; but the interface
  map forwards to it from its `Root` on.
* **Requests.** A JSON-RPC handler or a COM-RPC call is inside an implementation,
  perhaps inside `SystemInfo`, which holds a reference of the framework by then,
  while `Deinitialize` runs or the process dies: the
  reference must be given back, and a deactivation alone must not lose a JSON-RPC
  request.
* **Identity queries.** Each is a chain of reads of sources that change between
  two reads: failure and fallback must be justified by what the sources held,
  and an answer must be one they gave.
* **Addresses, script queries, capabilities.** Sequential code over data that
  other parties own: leftovers from one iteration to the next, sizes at their
  limit, exceptions between two lookups.

`PROJECT.json` lists every hazard at its line with the properties that would
catch it.

## 2. The modules

### DeviceInfoPlugin

The plugin shell with everything that reaches it. `pc` is the position of the
framework thread inside `Initialize` and `Deinitialize`; each call another party
can see or interleave with is a step.

| Code | Model |
|---|---|
| `_service`, `_connectionId`, `configure`, local `connection` | `service`, `connectionId`, `configure`, `connection` |
| `_deviceInfo`, `_deviceAudioCapabilities`, `_deviceVideoCapabilities` | `ptr[c]`, by class |
| local `message` of `Initialize` | `message`: there is an error text |
| handlers of `J*::Register` | `registered[c]`: the pointer captured |
| an implementation, its count, its `_service` | `<<class, activation>>`, `refs[o]`, `o \in configured` |
| count of the `IShell` | `shellRefs` |
| `Initialize`, lines 71-109 | `Activate`, `Root` x3, `RootsFailed` or `QueryConfiguration`, `Configure`, `Register`, `InitializeReturns` |
| `Deinitialize`, lines 121-173 | `Deinitialize`, then per class `Unregister`, `Drain`, `Release`, `Clear`, with `ReleaseConfigure` and `RemoteConnection` before the Release of `_deviceInfo`, `Terminate`, `DeinitializeReturns` |
| interface map, `DeviceInfo.h` 47-53 | `Acquire`, at any moment at which the pointer is set (`QueryComes`) |
| `_service->SubSystems()` of `SystemInfo` where `_service` is null | `UnsetService` |
| constructor, `Configure` and destructor of the implementation | `Construct`, `StoreShell`, `Unconfigure` |

`ASSERT`s are not steps: a release build drops them. Undefined behaviour ends in
a state of `pc` of its own: `nullDereference` (in `Deinitialize`), `destroyedAccess`
(a query), `nullService` (in `SystemInfo`). The last one ends, out of process, only
the process of the implementation.

Nothing in the interface map asks whether the plugin is activated, so a query is
served from `Root` to the store of `nullptr`, and after a failed `Root` or a failed
`Configure` too. Queries outside the activated state are two kinds of fault, so that
a run or a theorem can say what holds with and without them: "earlyQuery", before
`Initialize` has returned and between two activations (where a pointer was left
behind), and "lateQuery", during `Deinitialize`, between `Release` and the store of
`nullptr` in particular.

What the model takes from the framework, which is not part of the repository:

* A plugin whose `Initialize` returned a message is deinitialized at once, on
  the same thread, and the same plugin object is initialized again later
  (`Initialize` and `Deinitialize` are serialized, `ARCHITECTURE.md:153`).
* `J*::Unregister` removes the handlers and returns when none is running.
* Out of process each `Root` starts a process and stores its id; a failed one
  leaves id 0. `RemoteConnection` finds no connection for a process that died.
* `QueryInterface` through the interface map reads the pointer and adds the
  reference in one step.
* A JSON-RPC request is dispatched to an activated plugin only; it may reach its
  handler when `Deinitialize` is already running (the guard of `Invoke`). Early
  JSON-RPC requests are therefore not modelled; early COM-RPC queries are.
* `QueryInterface<IConfiguration>` is answered unless the process is dead.
* When a process dies, the framework gives back the references to the shell
  that the process held.

### ObjectOwnership

The promise behind the counting: per object the set of its holders, created for
one, granted only while somebody holds, gone for good with the last. No counter
and no pointer appear in it. `DeviceInfoPlugin!Ownership` maps the counts,
pointers and positions to it.

An object that a query found destroyed (fault "lateQuery") has no holder in the
mapping, wherever in `Deinitialize` the query struck.

### DeviceInfoRequests

The composition of the shell with the calls into the implementations. It extends
`DeviceInfoPlugin`; each of its steps is a step of that module together with what
it does to the calls, or a step inside a call. A user is a JSON-RPC worker, which
calls the object its handler captured, or a COM-RPC client, which calls the object it
holds.

| Code | Model |
|---|---|
| the handlers registered by `J*::Register` | `InvokeHandler` |
| a call through an interface of `DeviceInfo.h` 50-52 | `CallHeld` |
| a getter that stays inside its object | `Query`, one step; its inside is `DeviceInfoQueries` or `DeviceListings` |
| `SystemInfo`: `_service->SubSystems()`, `SerialNumber`, the rest up to `_subSystem->Release()` | `SubSystems`, or `SubSystemsUnset` where `_service` is null, `SerialNumber`, `Version` |
| local `_subSystem` | `subSystem[u]` |
| where a call is, how it ended | `at[u]`: a step, `answered`, `unavailable` |
| the references taken on the framework's `ISubSystem` | `subSystemRefs` |
| which processes died on their own | `crashed`, history |

Taken from the framework: `SubSystems` hands out a reference or nothing (the
`ASSERT` is no check in a release build); a call into a dead process
fails at once, one that is under way fails when the process ends (`Interrupted`), and
the references that process had are recovered. A client does not drop an object
while it calls it.

### DeviceInfoQueries

The twelve identity queries and the four script queries, one disjunct per read,
over an environment that replaces files and changes library items, parameters
and script outputs between two reads. `at`
is the source read next, then the result; `out` the answer's members, each with
the source it came from; `past` is the sequence of what the sources held since the
call, its last element being what they hold now. The implementation keeps no state between calls and two calls share none,
so one call at a time, against an arbitrary environment, covers concurrent
calls; `Return` therefore forgets everything.

| Code | Model |
|---|---|
| `GetFileRegex`, `GetMFRData`, `GetRFCData` | the operators of these names, instances of `Read` |
| a member set to `""` when its read fails | `OrEmpty` |
| `popen` of a script, its output the answer, the exit status ignored | `GetDeviceDetails` |
| each query | the definition of its name |
| contents of files, MFR items, RFC parameters | `content`, the last of `past`: a token of `ContentOf(s)`: `Absent`, `Blank` (success with an empty answer) or a value |
| the result, the caller's variable | `at`, `out` |

One read of a file is one step and a file is replaced as a whole. The lines of
`version.txt` belong to one image (`OneImage`), of which at most one is missing
if the file is there; since `FirmwareVersion` opens the file for each member, its
answer may still mix two, and `FirmwareInOrder` says how far.
Regular expressions are reduced to whether a key has a value; of an image name
only whether it carries a release number matters. `SystemInfo`'s members with a
single source that always answers (time, uptime, memory, load) are left out.

### DeviceListings

The getters that report what another party lists: three audio capabilities, five
video capabilities, `SupportedAudioPorts` and `Addresses`. A call goes through
at most five kinds of steps, `default` (name of the default port), `port`
(look-up by name), `ask` (the question itself) or `list`, and `item` (one turn of
the loop), then `finish`. Any call into Device Settings may throw (`Throw`), and
between two of them `Change` replaces the default port, adds or removes a port,
or changes what one answers. `defaults`, `there`, `missing` and `had` remember
what was so during the call: the default ports, the ports that were there, those that
were not, and what each had at the moments at which it was there.

| Code | Model |
|---|---|
| `strAudioPort`, `strVideoPort`, `list`, `result`, `nodeName` | `port`, `list`, `result`, `nodeName` |
| the caller's iterator or value, its `success` flag | `written` and `answer`, `success` |
| each getter | the step of its name, which asks; what the getters share is `DefaultPort`, `Port`, `Item`, `LoopEnds`, `Finish` |
| `if` chains over a bit mask | `IfNone` and `If` per bit, joined to `AudioList` and `MS12List`; a mask is a set of bits, "unknown" those that the code does not test |
| `std::find` on the names so far | `Listed` |
| `nodeName` and the loop over an adapter's addresses | `LastAddress` |
| `size() > numeric_limits<uint16_t>::max()` | `TooLong`; the encoder takes the length modulo 2^16 |

The masks, names, EDID lengths and the numbers of adapters and addresses are
constants. An adapter is a number, its k-th address the pair of that number and k.

An EDID is its length. For an empty one the code forms `&edidVec[0]` of an empty
vector and encodes zero bytes from it, which gives the empty
text (the build files do not switch on the checks of the standard library).
What a getter computes on the way to an error and nobody sees, such as the
`AUDIOCAPABILITY_NONE` put into the list after an exception, is left out. The
caller's flag is taken to be `FALSE` before the call, so that setting it shows.

### MCDeviceInfoPlugin

The symmetry of clients and workers, used by the runs that check safety only.

## 3. The runs

| Run | Configuration | Shows |
|---|---|---|
| `in_process` | `DeviceInfoPlugin`, mode Off (the default of `src/plugin/CMakeLists.txt:24`), 2 clients, 2 workers, 2 activations; any `Root` may fail, queries come early | no object destroyed under a holder, no call on a destroyed object, the shell's count exact, whoever reaches the implementation of a successful `Initialize` finds it configured, an activated plugin complete, no handler outliving its activation, no call of `Deinitialize` or a query through a null or dead pointer |
| `out_of_process` | `DeviceInfoPlugin`, mode Local, 2 clients, 1 worker, 2 activations; processes die during `Initialize` or later, `Configure`'s answer is lost, queries come early and late, `Terminate` throws, one process is unwilling | the same with exact counts, nothing left referenced, the null dereference only after a failed `Initialize`, and the implementation of `ObjectOwnership` |
| `life_cycle` | `DeviceInfoRequests`, Local, 1 client, 2 workers, 1 activation, crashes, lost answers and early queries, one process unwilling, with fairness | a request is cut short only by a process that died on its own; the subsystem's references; `Deinitialize` ends, and processes end |
| `queries` | all sixteen queries, at most 2 changes during a call | failures, fallbacks and answers are justified by what the sources held, a firmware answer goes forward in time, and a known device type is answered |
| `listings` | all ten getters, 2 ports, at most 3 listed ports, 4 masks, 2 profiles or resolutions, at most 3 adapters with up to 2 addresses, 5 EDID lengths, at most 2 changes during a call | a whole answer of one port the caller meant, or none; every failure has a cause; every port and adapter is reported |

Runs that look for a violation, each a disagreement between the code and
something the repository says (the findings of `PROJECT.json` quote both):

| Run | Property violated | Scenario |
|---|---|---|
| `failed_root` | `AcquiredIsReleased` | one of three `Root` calls fails; the others' objects are never released |
| `early_crash` | `CleanupChecksNull` | the process dies before `QueryInterface`; `configure->Release()` on null |
| `late_query` | `QueriesReachLiveObjects` | a query between `Release` and the store of `nullptr` |
| `unseen_crash` | `CrashDeactivates` | nobody tells the plugin that a process died |
| `unwilling_process` | `ProcessesEnd` | only the process of the last `Root` is ever terminated |
| `early_query` | `QueriesReachConfiguredObjects` | a query between `Root` and `Configure`; `SystemInfo` calls through the null `_service` |
| `foreign_address` | `AddressesAreOwn` | an adapter without an IPv4 address is reported with another's |

Bounds. Two activations are needed, and are enough, for what one leaves to the
next: objects of different activations meet only through pointers that every
activation overwrites. Two clients let one drop a reference while another keeps
it; two workers keep a handler running while another finds its own. Two changes
per call are what a chain of three reads can tell apart: one in each gap; the
getters of `DeviceListings` likewise have two gaps, before the look-up and before the
question. The largest runs are `listings` with 2,120,330 distinct states, `queries` with
203,737, `out_of_process` with 187,468 and `life_cycle` with 107,854; `in_process` has 17,978. Three listed ports over two names make a name come back after another
one; three adapters put one without an address after one with; the EDID lengths
lie on both sides of 2^16. `life_cycle` has one activation: its properties are about
one `Deinitialize` and the calls and processes it meets, and what an activation
leaves to the next is the subject of the first two runs. These have a call as one
stretch without `SystemInfo`'s inside; since the composition implements the plugin
(`CallsImplementPlugin`, below), what they check holds with it, too.

Faults are divided between the first two runs because some properties fail under some
of them: with a failed `Root` objects stay referenced (`failed_root`), and a
death before `QueryInterface` or a late query ends in undefined behaviour
(`early_crash`, `late_query`), so `ReferencesExact` and `NothingLeaks` are
checked without the first and `Defined` without the others. Early queries are in all
three runs. In the first they may end in `nullService`, in the others they end
a process in the middle of `Initialize`; what is checked holds all the same.

`DeviceTypeIsAnswered` says when a type is in the answer: whenever the call succeeds
and `authService.conf` named no type that the code does not know. For one that it does not
know, `DeviceInfoImplementation.cpp:206` leaves the answer unwritten and returns
`ERROR_NONE`; no document says what should happen, so this is not among the findings.

`CHECK_DEADLOCK FALSE` stands where the activations are used up and where the
program has run into undefined behaviour: both are ends of the model, not of
the program.

Fairness. `FairSpec` and `FairCallsSpec` assume that the framework thread goes on,
that every running handler, or call, goes on (the getters are loop-free or loop over
finite data) and that a willing process ends when its object was released. It does not assume
that clients drop references, that anybody deactivates the plugin, or that
processes crash. `Drain` waits for the handlers of a class that nobody can
newly enter, so weak fairness is enough.

## 4. The proofs

`DeviceInfoPlugin_proofs` holds for every mode, every finite set of clients,
every set of workers, every number of activations, and **every subset of the
faults**. The assumptions are those the module declares on its constants. The
properties are not inductive: what a count is depends on where the framework
thread is. The invariant is built in three layers, each inductive given
those before it.

1. `Control`: types of the control variables; which pointers are set, and to
   the current activation's objects, at which `pc`; what `configure` may be; that
   a registered or running handler implies its pointer has not been released.
2. `Counting`: `refs[o]` is a natural number at least the number of `Holders(o)`;
   objects whose `Root` is still to come have count 0 and no holder. The lemmas `AddCovered` and
   `DropCovered` say what taking and dropping a reference does to both sides.
3. `Shell`: `shellRefs` is one for the framework, one for `_service`, and one per
   configured implementation, all of which are alive.

`DeviceInfoRequests_proofs` shows first that every step of the composition is a
step of the plugin or leaves it alone (`CallsImplementPlugin`), so that all of the
above holds under the calls as well, and then proves the books of the calls
from an invariant of their own, `CallsInvariant`: a call under way is in a process that is
alive (`CallsAlive`), and the references taken are those of the calls between
`SubSystems` and `Version` (`Balanced`). It assumes in addition that clients and
workers are different and workers finitely many.

That a request is cut short only by a death is not inductive either: it needs to be known,
before any call, what became of the process called. The invariant `Fate` says it: until
a class's handlers are drained, the process of its object of the current activation is alive
or died on its own (`PointerFate`); the same holds for what a client holds until
the plugin is deactivated (`HeldFate`). The only step of the framework thread that ends a process is
`Terminate`, which by `Control` comes after every drain, when no worker is in a call
(`ThreadFate`).

`DeviceInfoOwnership_proofs` is about the plugin as long as no `Root` fails
(`"root" \notin Faults`; every other fault is allowed). The hypothesis is needed: after a
failed `Root` the pointers of the other classes stay set and the next activation
overwrites them, so that objects are referenced that nobody holds (`failed_root` shows it).
Under it, `Pointers` says that a pointer is set exactly
from its `Root` to its `Clear`, so that no set pointer is ever overwritten; then the count of an
object moves with the set of its holders at every step (`ReferencesExact` is
inductive given `Control`, `Counting` and `Pointers`). From the exact counts
follows that nothing is left, and the refinement (a null `_service` can be met only before
`Register`, `UnsetOnlyBeforeConfigure`, so that what is mapped then are the objects whose pointers are set): each step is classed as one that keeps
the holders, lets one join, lets one leave, or ends in undefined behaviour, and each of the four is
shown to be a step of `ObjectOwnership` or a stutter.

`DeviceInfoService_proofs` is about what can be asked. `Sound` says that the
implementation asked for `IConfiguration` is alive until it answers, and that
`configure` is set wherever `Deinitialize` goes through it; this gives `Defined`
without late queries and, out of process, without early deaths, be they a process's own or that of an
early query, which is as far as it is true (`late_query` and `early_crash` refute
it with them). `Ready` says that from `Register` on, in an activation without an error
to report, the implementation is configured or destroyed or its process gone. Since it speaks of the
object and not of who holds it, it covers a client that took its reference before `Configure`:
`ServedIsConfigured` holds under every fault, early queries included. The lemma
`ConfiguredStays` does the work: only the destructor or the end of the process takes the
shell away. What early queries do break is that nobody ever asks an implementation
without a shell (`early_query`). `TimelyQueriesAreServed` shows that nothing else does:
`HeldReady` and `CallsAccepted` carry `Ready` over to what clients hold and workers run on
while queries come to an activated plugin only, and then no step calls through a null `_service`.

`DeviceInfoQueries_proofs` holds for every set of queries and every number of changes of
the sources during a call. None of the properties is inductive, since they speak of results
only. Every query is first shown to go through its order of
preference, passing on from a source without an answer or taking it
(`StepShape`, with tables of what each query reads). The invariant then says of every position:

* `Chain`: the sources before this one were passed over at a moment when they had no
  answer, and Model's library item was reached over a provisioned name;
* `Unwritten`: nothing has been written before the answer is found;
* `AllReal`: what has been written was in its source, and was an answer;
* `TypeFound`, `VersionFound`: the same for the two queries that convert what they read;
* `Progress`: the members of a firmware written so far come from moments in order.

The history only grows (`GrowsKeepsSeen`), so what was once seen stays seen. `SteadyAnswer`
follows for a history of length one: then what was passed over has no answer now.

`DeviceListings_proofs` holds for every set of ports, profiles, resolutions, masks and EDID
lengths, and for any number of listed ports, adapters, addresses and changes. The invariant:
`Phases`, what has been written at each step;
`Observed`, the port in hand is one the caller meant and that was there;
`Caused`, an error has its cause from the moment it is set; `Walking`, the loop invariant: part of one
answer of that port (or of one listing) is left, and from the part before it exactly
what should be has been collected, which for displays means once and in the order of first
mention, for adapters with the last address; and `Telling`, what is at hand when
the call finishes is the whole. The masks' lists are computed by lemmas on
concatenation (`AudioListTells`, `MS12ListTells`).

| Theorem | Says |
|---|---|
| `ReferencesAreCovered` | no object is destroyed under a holder |
| `CallsAreSafe` | no handler runs on a destroyed object |
| `ShellIsReferencedExactly` | the shell's count is exact |
| `ActivatedIsAvailable` | an activated plugin has three live implementations, registered, and a `configure` of this activation |
| `ActivatedCanBeStopped` | the null dereference needs a failed `Initialize` |
| `HandlersAreOver` | no handler outlives the activation that registered it |
| `TypeCorrect` of `DeviceInfoPlugin_proofs` | types; in particular no count ever falls below zero |
| `ReferencesAreExact` | if no `Root` fails, an object's count is the number of its holders |
| `NothingIsLeft` | if no `Root` fails, a stopped plugin without clients leaves no object, handler or reference |
| `PluginImplementsOwnership` | if no `Root` fails, the plugin implements `ObjectOwnership` |
| `NothingUndefined` | without late queries and, out of process, early queries and early deaths, no null or destroyed object is called by `Deinitialize` or a query |
| `ServedIsConfigured` | once `Initialize` has succeeded, whoever reaches its implementation finds it configured, under every fault |
| `TimelyQueriesAreServed` | without early and late queries, no step calls through a null `_service` |
| `CallsImplementPlugin` | the composition implements the plugin |
| `SubSystemIsGivenBack` | the references to the subsystem are those of the `SystemInfo` calls under way in live processes |
| `RequestsAreNotCutShort` | a deactivation cuts no JSON-RPC request short, only a process that died on its own, or of a `SystemInfo` without a shell, does |
| `CallsTypeCorrect` | types of the calls; no reference is given back that was not taken |
| `FailuresAreJustified` | a query fails only if every source had no answer at some moment |
| `PreferencesAreRespected` | a fallback's answer means that the preferred sources had none |
| `AnswersAreReal` | what is answered was in its source |
| `FailuresLeaveAnswers` | a failed query writes nothing, Brand its default |
| `FirmwareGoesForward` | the members of a firmware come from moments in order |
| `DeviceTypesAreAnswered` | a device type that is known is always in the answer |
| `SteadyCallsAnswer` | when nothing changes, the preferred source that can answer does |
| `AnswersAreWhole` | variable and flag are set with success, or not at all |
| `AnswersAreOfOnePort` | an answer is what one port the caller meant had, at one moment at which it was there |
| `FailuresHaveCauses` | every error has one of four causes |
| `EDIDsAreWhole` | an EDID returned is encoded over its whole length |
| `PortListsAreComplete` | every port is reported, a display once |
| `AdapterListsAreComplete` | every adapter is reported, with its last address if it has one |
| `TypeCorrect` of `DeviceInfoQueries_proofs`, `DeviceListings_proofs` | types of calls, answers and lists |

Every invariant of a passing run has its theorem. Model-checked only are the
liveness properties `DeinitializeEnds` and `ProcessesEnd`, which hold unless the plugin ran into
undefined behaviour, since TLAPS does not handle liveness under fairness. The properties of the runs that
look for a violation are false as they stand.

## 5. Not modelled

* What the constructors do to IARM and Device Settings: they swallow every failure and
  keep nothing of it, and a later call that suffers from it is one that fails or
  throws in `DeviceInfoQueries` and `DeviceListings`.
* `Information`, a constant; `Deactivated`, which nothing calls (`unseen_crash`).
* Texts: regular expressions, base64, JSON, MAC addresses, the formatting of
  `SystemInfo`'s members.
* The mock headers, build files and tests.

## 6. Plan

The invariants the runs check are proved. What would add to them:

1. `DeviceInfoRequests`: the theorems of `DeviceInfoOwnership_proofs` and
   `DeviceInfoService_proofs` stated of the composition, and from
   `TimelyQueriesAreServed` that without early and late queries `SubSystemsUnset` is never taken.
2. The counterparts of the findings: under which faults, and no others, `AcquiredIsReleased`,
   `CleanupChecksNull` and `QueriesReachLiveObjects` do hold, as `TimelyQueriesAreServed`
   says it of `QueriesReachConfiguredObjects`; that
   `AddressesAreOwn` holds when every adapter has an address.
3. `ObjectOwnership`: what it promises by itself (a destroyed object has no holder and is
   never revived), proved of the abstract specification and inherited through
   `PluginImplementsOwnership`.
