-------------------------- MODULE DeviceInfoPlugin --------------------------
(***************************************************************************)
(* The plugin shell, src/plugin/DeviceInfo.cpp: the framework activates    *)
(* and deactivates it, COM-RPC clients take and drop references to its     *)
(* three implementations, JSON-RPC workers call into them, and, out of     *)
(* process, the process of an implementation may die at any moment.        *)
(*                                                                         *)
(* One framework thread runs Initialize and Deinitialize; pc is its        *)
(* position, and every call it makes that another party can see is a step  *)
(* of its own. The ASSERTs are not steps: the release build drops them.    *)
(***************************************************************************)
EXTENDS Naturals, FiniteSets

CONSTANTS
  Mode,            \* "Off": in the framework's process, "Local": one process per Root
  Clients,         \* COM-RPC clients
  Workers,         \* framework threads that serve JSON-RPC requests
  MaxActivations,  \* bound: how often the plugin is activated
  Faults,          \* what may go wrong, a subset of FaultKinds
  Unwilling        \* classes whose process does not end when its object goes

Info  == "DeviceInfoImplementation"
Audio == "DeviceAudioCapabilities"
Video == "DeviceVideoCapabilities"
Classes == {Info, Audio, Video}

(***************************************************************************)
(* root:       a Root<>() call may return nullptr                          *)
(* crash:      a remote process may die, except during Initialize          *)
(* earlyCrash: a remote process may die during Initialize                  *)
(* timeout:    the answer to Configure may be lost, run or not             *)
(* throw:      Terminate may throw                                         *)
(* earlyQuery: a QueryInterface may come before the plugin is activated    *)
(* lateQuery:  a QueryInterface may overlap Deinitialize                   *)
(***************************************************************************)
FaultKinds == {"root", "crash", "earlyCrash", "timeout", "throw",
               "earlyQuery", "lateQuery"}

ASSUME ModeAssumption       == Mode \in {"Off", "Local"}
ASSUME ClientsAssumption    == IsFiniteSet(Clients)
                               /\ Clients \cap {"plugin", "configure"} = {}
ASSUME ActivationAssumption == MaxActivations \in Nat
ASSUME FaultsAssumption     == Faults \subseteq FaultKinds
ASSUME UnwillingAssumption  == Unwilling \subseteq Classes

(* An implementation object is known by its class and the activation that  *)
(* created it; the id of a remote process is the object it was started for.*)
Object == Classes \X (1 .. MaxActivations)
Null   == <<"null", 0>>

VARIABLES
  \* the framework
  shell,         \* state of the plugin as the framework reports it
  shellRefs,     \* reference count of the IShell given to the plugin
  gen,           \* number of the current activation
  pc,            \* where the framework thread is inside the plugin
  \* members of DeviceInfo, and the locals of its two functions
  message,       \* Initialize has an error text to return
  service,       \* _service is set
  connectionId,  \* _connectionId
  ptr,           \* _deviceInfo, _deviceAudioCapabilities, _deviceVideoCapabilities
  configure,     \* configure
  connection,    \* local of Deinitialize
  registered,    \* per class: the object the JSON-RPC handlers captured
  \* the implementation objects, and those who use them
  refs,          \* reference count of each object
  configured,    \* objects whose _service is set
  running,       \* remote processes that are alive
  held,          \* per client: the object it has a reference to
  call           \* per worker: the object its handler is running on

framework == <<shell, gen>>
plugin    == <<message, service, connectionId, ptr, configure, connection, registered>>
counts    == <<shellRefs, refs, configured>>
users     == <<held, call>>
vars == <<framework, pc, plugin, counts, running, users>>

InitSteps   == {"rootInfo", "rootAudio", "rootVideo", "query", "configure",
                "register", "return"}
DeinitSteps == {"deinit",
                "unregisterAudio", "drainAudio", "releaseAudio", "clearAudio",
                "unregisterVideo", "drainVideo", "releaseVideo", "clearVideo",
                "unregisterInfo", "drainInfo", "releaseConfigure",
                "remoteConnection", "releaseInfo", "clearInfo",
                "terminate", "final"}
Undefined   == {"nullDereference", "destroyedAccess", "nullService"}

TypeOK ==
  /\ shell \in {"DEACTIVATED", "ACTIVATION", "ACTIVATED", "DEACTIVATION"}
  /\ shellRefs \in Nat
  /\ gen \in 0 .. MaxActivations
  /\ pc \in {"idle"} \cup InitSteps \cup DeinitSteps \cup Undefined
  /\ message \in BOOLEAN /\ service \in BOOLEAN
  /\ connectionId \in Object \cup {Null}
  /\ ptr \in [Classes -> Object \cup {Null}]
  /\ configure \in Object \cup {Null}
  /\ connection \in Object \cup {Null}
  /\ registered \in [Classes -> Object \cup {Null}]
  /\ refs \in [Object -> Nat]
  /\ configured \in SUBSET Object
  /\ running \in SUBSET Object
  /\ held \in [Clients -> Object \cup {Null}]
  /\ call \in [Workers -> Object \cup {Null}]

Init ==
  /\ shell = "DEACTIVATED" /\ shellRefs = 1 /\ gen = 0 /\ pc = "idle"
  /\ message = FALSE /\ service = FALSE /\ connectionId = Null
  /\ ptr = [c \in Classes |-> Null] /\ configure = Null /\ connection = Null
  /\ registered = [c \in Classes |-> Null]
  /\ refs = [o \in Object |-> 0] /\ configured = {} /\ running = {}
  /\ held = [k \in Clients |-> Null] /\ call = [w \in Workers |-> Null]

-----------------------------------------------------------------------------
(* Reference counting.                                                     *)

Transition(from, to) == pc = from /\ pc' = to

AllRooted == \A c \in Classes : ptr[c] # Null

(* An object is reachable by calls: it is in the framework's process, or   *)
(* its own process is alive.                                               *)
Reachable(o) == Mode = "Off" \/ o \in running

(* Mutant: the destructor forgets the shell.                               *)
UnconfigureKeepsShell(S) ==
  /\ configured' = configured \ S
  /\ UNCHANGED shellRefs

(* The objects of S are no longer configured: the destructor of each that  *)
(* was releases the shell.                                                 *)
Unconfigure(S) ==
  /\ configured' = configured \ S
  /\ shellRefs' = shellRefs - Cardinality(configured \cap S)

(* The implementation's own Configure stores the shell with a reference.   *)
StoreShell(o) ==
  /\ configured' = configured \cup {o}
  /\ shellRefs' = shellRefs + 1

(* Dropping the last reference runs the destructor.                        *)
ReleaseRef(o) ==
  /\ refs' = [refs EXCEPT ![o] = @ - 1]
  /\ Unconfigure(IF refs[o] = 1 THEN {o} ELSE {})

(* A process that dies takes its object along; the framework recovers the  *)
(* references that object had.                                             *)
ProcessEnds(o) ==
  /\ running' = running \ {o}
  /\ Unconfigure({o})
  /\ UNCHANGED refs

-----------------------------------------------------------------------------
(* Initialize                                                              *)

(* The framework calls Initialize: the plugin keeps the shell.             *)
Activate ==
  /\ shell = "DEACTIVATED" /\ gen < MaxActivations
  /\ Transition("idle", "rootInfo")
  /\ shell' = "ACTIVATION" /\ gen' = gen + 1
  /\ message' = FALSE
  /\ service' = TRUE /\ shellRefs' = shellRefs + 1
  /\ UNCHANGED <<connectionId, ptr, configure, connection, registered,
                 refs, configured, running, users>>

(* The constructors: the object is made, for one holder and without a      *)
(* shell, even when the IARM bus or Device Settings cannot be reached.     *)
Construct(o) == refs' = [refs EXCEPT ![o] = 1]

(* Mutant: the id of the first process is kept.                            *)
RootKeepsFirstId(c, from, to) ==
  LET o == <<c, gen>> IN
  /\ Transition(from, to)
  /\ ptr' = [ptr EXCEPT ![c] = o]
  /\ Construct(o)
  /\ running' = IF Mode = "Local" THEN running \cup {o} ELSE running
  /\ connectionId' = IF Mode = "Local" /\ connectionId = Null THEN o ELSE connectionId
  /\ UNCHANGED <<framework, message, service, configure, connection,
                 registered, shellRefs, configured, users>>

(* One Root<>() call: a new object with one reference, in a new process    *)
(* when out of process, whose id replaces the one in _connectionId.        *)
Root(c, from, to) ==
  LET o == <<c, gen>> IN
  /\ Transition(from, to)
  /\ \/ /\ ptr' = [ptr EXCEPT ![c] = o]
        /\ Construct(o)
        /\ running' = IF Mode = "Local" THEN running \cup {o} ELSE running
        /\ connectionId' = IF Mode = "Local" THEN o ELSE Null
     \/ /\ "root" \in Faults
        /\ ptr' = [ptr EXCEPT ![c] = Null]
        /\ connectionId' = Null
        /\ UNCHANGED <<refs, running>>
  /\ UNCHANGED <<framework, message, service, configure, connection,
                 registered, shellRefs, configured, users>>

(* Mutant: a missing implementation is only logged.                        *)
RootsFailedUnreported ==
  /\ ~AllRooted
  /\ Transition("query", "return")
  /\ UNCHANGED <<framework, plugin, counts, running, users>>

(* A missing implementation is reported and nothing else is done.          *)
RootsFailed ==
  /\ ~AllRooted
  /\ Transition("query", "return")
  /\ message' = TRUE
  /\ UNCHANGED <<framework, service, connectionId, ptr, configure, connection,
                 registered, counts, running, users>>

(* Mutant: the second pointer is not counted.                              *)
QueryConfigurationUncounted ==
  /\ AllRooted
  /\ Transition("query", "configure")
  /\ configure' = ptr[Info]
  /\ UNCHANGED <<framework, message, service, connectionId, ptr, connection,
                 registered, counts, running, users>>

(* Mutant: configure is only asked for when it is not set already.         *)
QueryConfigurationOnce ==
  /\ AllRooted
  /\ Transition("query", "configure")
  /\ IF configure = Null
       THEN configure' = ptr[Info] /\ refs' = [refs EXCEPT ![ptr[Info]] = @ + 1]
       ELSE UNCHANGED <<configure, refs>>
  /\ UNCHANGED <<framework, message, service, connectionId, ptr, connection,
                 registered, shellRefs, configured, running, users>>

(* Mutant: the pointer is kept in a local, the member stays null.          *)
QueryConfigurationUnstored ==
  /\ AllRooted
  /\ Transition("query", "register")
  /\ UNCHANGED <<framework, plugin, counts, running, users>>

(* QueryInterface<IConfiguration>: the class offers it, so it fails only   *)
(* when the process that would answer is gone.                             *)
QueryConfiguration ==
  /\ AllRooted
  /\ \/ /\ Reachable(ptr[Info])
        /\ Transition("query", "configure")
        /\ configure' = ptr[Info]
        /\ refs' = [refs EXCEPT ![ptr[Info]] = @ + 1]
        /\ UNCHANGED message
     \/ /\ ~Reachable(ptr[Info])
        /\ Transition("query", "register")
        /\ configure' = Null
        /\ message' = TRUE
        /\ UNCHANGED refs
  /\ UNCHANGED <<framework, service, connectionId, ptr, connection, registered,
                 shellRefs, configured, running, users>>

(* Mutant: the result of Configure is not looked at.                       *)
ConfigureUnchecked ==
  /\ Transition("configure", "register")
  /\ \/ Reachable(configure) /\ StoreShell(configure)
     \/ /\ ~Reachable(configure) \/ "timeout" \in Faults
        /\ UNCHANGED <<configured, shellRefs>>
  /\ UNCHANGED <<framework, plugin, refs, running, users>>

(* Mutant: Configure is not called.                                        *)
ConfigureSkipped ==
  /\ Transition("configure", "register")
  /\ UNCHANGED <<framework, plugin, counts, running, users>>

(* Configure keeps the shell and always succeeds; it is reported as failed *)
(* when its answer does not arrive, whether it ran or not.                 *)
Configure ==
  /\ Transition("configure", "register")
  /\ \/ /\ Reachable(configure)
        /\ StoreShell(configure)
        /\ message' \in IF Mode = "Local" /\ "timeout" \in Faults
                        THEN BOOLEAN ELSE {FALSE}
     \/ /\ ~Reachable(configure) \/ (Mode = "Local" /\ "timeout" \in Faults)
        /\ message' = TRUE
        /\ UNCHANGED <<configured, shellRefs>>
  /\ UNCHANGED <<framework, service, connectionId, ptr, configure, connection,
                 registered, refs, running, users>>

(* The JSON-RPC handlers capture the three pointers, message or not.       *)
Register ==
  /\ Transition("register", "return")
  /\ registered' = ptr
  /\ UNCHANGED <<framework, message, service, connectionId, ptr, configure,
                 connection, counts, running, users>>

(* Initialize returns; the framework deinitializes a plugin that reported  *)
(* an error.                                                               *)
InitializeReturns ==
  /\ pc = "return"
  /\ IF message
       THEN shell' = "DEACTIVATION" /\ pc' = "deinit"
       ELSE shell' = "ACTIVATED" /\ pc' = "idle"
  /\ UNCHANGED <<gen, plugin, counts, running, users>>

-----------------------------------------------------------------------------
(* Deinitialize                                                            *)

(* The framework decides to stop the plugin.                               *)
Deactivate ==
  /\ shell = "ACTIVATED"
  /\ Transition("idle", "deinit")
  /\ shell' = "DEACTIVATION"
  /\ UNCHANGED <<gen, plugin, counts, running, users>>

(* The clean-up is done only when all three implementations are there.     *)
Deinitialize ==
  /\ Transition("deinit", IF AllRooted THEN "unregisterAudio" ELSE "final")
  /\ UNCHANGED <<framework, plugin, counts, running, users>>

(* Mutant: the handlers are left registered.                               *)
UnregisterForgotten(c, from, to) ==
  /\ Transition(from, to)
  /\ UNCHANGED <<framework, plugin, counts, running, users>>

(* J*::Unregister takes the handlers of c away ...                         *)
Unregister(c, from, to) ==
  /\ Transition(from, to)
  /\ registered' = [registered EXCEPT ![c] = Null]
  /\ UNCHANGED <<framework, message, service, connectionId, ptr, configure,
                 connection, counts, running, users>>

(* Mutant: nobody waits for the handlers that are running.                 *)
DrainSkipped(c, from, to) ==
  /\ Transition(from, to)
  /\ UNCHANGED <<framework, plugin, counts, running, users>>

(* ... and returns when none of them is running.                           *)
Drain(c, from, to) ==
  /\ Transition(from, to)
  /\ \A w \in Workers : call[w] = Null \/ call[w][1] # c
  /\ UNCHANGED <<framework, plugin, counts, running, users>>

(* _p->Release()                                                           *)
Release(c, from, to) ==
  /\ Transition(from, to)
  /\ ReleaseRef(ptr[c])
  /\ UNCHANGED <<framework, plugin, running, users>>

(* _p = nullptr                                                            *)
Clear(c, from, to) ==
  /\ Transition(from, to)
  /\ ptr' = [ptr EXCEPT ![c] = Null]
  /\ UNCHANGED <<framework, message, service, connectionId, configure,
                 connection, registered, counts, running, users>>

(* Mutant: configure is not released.                                      *)
ReleaseConfigureForgotten ==
  /\ Transition("releaseConfigure", "remoteConnection")
  /\ UNCHANGED <<framework, plugin, counts, running, users>>

(* configure->Release(), with no check of configure, which keeps its value.*)
ReleaseConfigure ==
  /\ \/ /\ configure # Null
        /\ Transition("releaseConfigure", "remoteConnection")
        /\ ReleaseRef(configure)
     \/ /\ configure = Null
        /\ Transition("releaseConfigure", "nullDereference")
        /\ UNCHANGED counts
  /\ UNCHANGED <<framework, plugin, running, users>>

(* service->RemoteConnection(_connectionId)                                *)
RemoteConnection ==
  /\ Transition("remoteConnection", "releaseInfo")
  /\ connection' = IF connectionId \in running THEN connectionId ELSE Null
  /\ UNCHANGED <<framework, message, service, connectionId, ptr, configure,
                 registered, counts, running, users>>

(* connection->Terminate() ends the process at once; an exception it       *)
(* throws is logged. The connection is then released.                      *)
Terminate ==
  /\ Transition("terminate", "final")
  /\ connection' = Null
  /\ \/ connection # Null /\ ProcessEnds(connection)
     \/ /\ connection = Null \/ "throw" \in Faults
        /\ UNCHANGED <<counts, running>>
  /\ UNCHANGED <<framework, message, service, connectionId, ptr, configure,
                 registered, users>>

(* Mutant: the shell is not released.                                      *)
DeinitializeKeepsShell ==
  /\ Transition("final", "idle")
  /\ shell' = "DEACTIVATED"
  /\ connectionId' = Null /\ service' = FALSE
  /\ UNCHANGED <<gen, message, ptr, configure, connection, registered, counts,
                 running, users>>

(* Mutant: the shell is released twice.                                    *)
DeinitializeReleasesTwice ==
  /\ Transition("final", "idle")
  /\ shell' = "DEACTIVATED"
  /\ connectionId' = Null
  /\ service' = FALSE /\ shellRefs' = shellRefs - 2
  /\ UNCHANGED <<gen, message, ptr, configure, connection, registered, refs,
                 configured, running, users>>

(* _connectionId, the shell's reference and _service are given up, and the *)
(* framework reports the plugin as deactivated.                            *)
DeinitializeReturns ==
  /\ Transition("final", "idle")
  /\ shell' = "DEACTIVATED"
  /\ connectionId' = Null
  /\ service' = FALSE /\ shellRefs' = shellRefs - 1
  /\ UNCHANGED <<gen, message, ptr, configure, connection, registered, refs,
                 configured, running, users>>

FrameworkThread ==
  \/ Root(Info, "rootInfo", "rootAudio")
  \/ Root(Audio, "rootAudio", "rootVideo")
  \/ Root(Video, "rootVideo", "query")
  \/ RootsFailed \/ QueryConfiguration \/ Configure \/ Register
  \/ InitializeReturns
  \/ Deinitialize
  \/ Unregister(Audio, "unregisterAudio", "drainAudio")
  \/ Drain(Audio, "drainAudio", "releaseAudio")
  \/ Release(Audio, "releaseAudio", "clearAudio")
  \/ Clear(Audio, "clearAudio", "unregisterVideo")
  \/ Unregister(Video, "unregisterVideo", "drainVideo")
  \/ Drain(Video, "drainVideo", "releaseVideo")
  \/ Release(Video, "releaseVideo", "clearVideo")
  \/ Clear(Video, "clearVideo", "unregisterInfo")
  \/ Unregister(Info, "unregisterInfo", "drainInfo")
  \/ Drain(Info, "drainInfo", "releaseConfigure")
  \/ ReleaseConfigure \/ RemoteConnection
  \/ Release(Info, "releaseInfo", "clearInfo")
  \/ Clear(Info, "clearInfo", "terminate")
  \/ Terminate \/ DeinitializeReturns

-----------------------------------------------------------------------------
(* The users of the implementations                                        *)

Healthy == pc \notin Undefined

(* Nothing in the plugin keeps a query out while it is not activated: what *)
(* it takes is a fault of its own.                                         *)
QueryComes ==
  shell # "ACTIVATED" =>
    (IF shell = "DEACTIVATION" THEN "lateQuery" ELSE "earlyQuery") \in Faults

(* Mutant: the interface map hands the pointer out without a reference.    *)
AcquireUncounted(k, c) ==
  /\ Healthy /\ QueryComes
  /\ held[k] = Null /\ ptr[c] # Null
  /\ held' = [held EXCEPT ![k] = ptr[c]]
  /\ UNCHANGED <<framework, pc, plugin, counts, running, call>>

(* A client asks the shell for an interface of class c: the interface map  *)
(* forwards to the pointer if it is set, from its Root to its Clear, and   *)
(* longer after a failed Root. A stored pointer to an object that is gone  *)
(* is a use after its destruction.                                         *)
Acquire(k, c) ==
  /\ Healthy /\ QueryComes
  /\ held[k] = Null /\ ptr[c] # Null
  /\ IF refs[ptr[c]] > 0
       THEN /\ held' = [held EXCEPT ![k] = ptr[c]]
            /\ refs' = [refs EXCEPT ![ptr[c]] = @ + 1]
            /\ UNCHANGED pc
       ELSE /\ pc' = "destroyedAccess"
            /\ UNCHANGED <<held, refs>>
  /\ UNCHANGED <<framework, plugin, shellRefs, configured, running, call>>

(* The client releases what it holds, whatever the plugin does meanwhile.  *)
Drop(k) ==
  /\ Healthy
  /\ held[k] # Null
  /\ ReleaseRef(held[k])
  /\ held' = [held EXCEPT ![k] = Null]
  /\ UNCHANGED <<framework, pc, plugin, running, call>>

(* A request accepted while the plugin was activated finds its handler,    *)
(* possibly when Deinitialize is already running.                          *)
Invoke(w, c) ==
  /\ Healthy
  /\ shell = "ACTIVATED" \/ (shell = "DEACTIVATION" /\ ~message)
  /\ call[w] = Null /\ registered[c] # Null
  /\ call' = [call EXCEPT ![w] = registered[c]]
  /\ UNCHANGED <<framework, pc, plugin, counts, running, held>>

(* SystemInfo calls through _service without a check: asked of an object   *)
(* that is not configured, it ends the process the object is in.           *)
UnsetService(o) ==
  /\ Healthy
  /\ o[1] = Info /\ Reachable(o) /\ o \notin configured
  /\ o \in {held[k] : k \in Clients} \cup {call[w] : w \in Workers}
  /\ IF Mode = "Off"
       THEN pc' = "nullService" /\ UNCHANGED <<counts, running>>
       ELSE UNCHANGED pc /\ ProcessEnds(o)
  /\ UNCHANGED <<framework, plugin, users>>

(* The handler is done with the object.                                    *)
Respond(w) ==
  /\ Healthy
  /\ call[w] # Null
  /\ call' = [call EXCEPT ![w] = Null]
  /\ UNCHANGED <<framework, pc, plugin, counts, running, held>>

-----------------------------------------------------------------------------
(* The remote processes                                                    *)

(* A process dies on its own. The plugin is not told: Deactivated is       *)
(* private, and no notification is ever registered with the shell.         *)
Crash(o) ==
  /\ Healthy
  /\ o \in running
  /\ IF shell = "ACTIVATION" THEN "earlyCrash" \in Faults ELSE "crash" \in Faults
  /\ ProcessEnds(o)
  /\ UNCHANGED <<framework, pc, plugin, users>>

(* A willing process ends when its object was released.                    *)
Exit(o) ==
  /\ Healthy
  /\ o \in running /\ refs[o] = 0 /\ o[1] \notin Unwilling
  /\ ProcessEnds(o)
  /\ UNCHANGED <<framework, pc, plugin, users>>

-----------------------------------------------------------------------------

Next ==
  \/ Activate \/ Deactivate \/ FrameworkThread
  \/ \E k \in Clients : Drop(k) \/ \E c \in Classes : Acquire(k, c)
  \/ \E w \in Workers : Respond(w) \/ \E c \in Classes : Invoke(w, c)
  \/ \E o \in Object : Crash(o) \/ Exit(o) \/ UnsetService(o)

(* The framework thread goes on, handlers return and willing processes     *)
(* end. Nothing makes a client drop what it holds, the framework           *)
(* deactivate the plugin, or a process die.                                *)
Fairness ==
  /\ WF_vars(FrameworkThread)
  /\ \A w \in Workers : WF_vars(Respond(w))
  /\ \A o \in Object : WF_vars(Exit(o))

Spec     == Init /\ [][Next]_vars
FairSpec == Spec /\ Fairness

-----------------------------------------------------------------------------
(* Who holds a reference.                                                  *)

Holder == Clients \cup {"plugin", "configure"}

ClearStep(c) == CASE c = Info  -> "clearInfo"
                  [] c = Audio -> "clearAudio"
                  [] c = Video -> "clearVideo"

(* The pointer counts until its Release, one step before it is cleared.    *)
PluginHolds(o) == ptr[o[1]] = o /\ pc # ClearStep(o[1])

(* The pointer configure keeps its value after its Release: it counts only *)
(* in the activation that obtained it, until that Release.                 *)
ConfigureHolds(o) ==
  /\ configure = o /\ o[2] = gen
  /\ pc \notin {"remoteConnection", "releaseInfo", "clearInfo", "terminate", "final"}
  /\ pc = "idle" => shell = "ACTIVATED"

Holders(o) == {k \in Clients : held[k] = o}
              \cup {h \in {"plugin"} : PluginHolds(o)}
              \cup {h \in {"configure"} : ConfigureHolds(o)}

-----------------------------------------------------------------------------
(* Safety                                                                  *)

(* No holder's reference is missing from an object's count: whoever drops  *)
(* a reference, in whatever order, an object is not destroyed under        *)
(* another holder (the AddRefs and Releases of Initialize, Deinitialize    *)
(* and the clients).                                                       *)
ReferencesCovered ==
  Healthy => \A o \in Object : refs[o] >= Cardinality(Holders(o))

(* Nor is a reference counted that nobody holds, at any point of           *)
(* Initialize or Deinitialize: every object goes when its last user does.  *)
ReferencesExact ==
  Healthy => \A o \in Object : refs[o] <= Cardinality(Holders(o))

(* A JSON-RPC handler runs on the raw pointer its registration captured,   *)
(* with no reference of its own: Deinitialize must not release the object  *)
(* before the handlers are gone.                                           *)
CallsOnLiveObjects ==
  Healthy => \A w \in Workers : call[w] # Null => refs[call[w]] > 0

(* No handler outlives the activation that registered it, even on an       *)
(* object that a client keeps alive: none is running when the plugin is    *)
(* reported as deactivated (the order of Unregister and Release).          *)
HandlersEndInTime == shell = "DEACTIVATED" => \A w \in Workers : call[w] = Null

(* SystemInfo calls through _service of the implementation without a       *)
(* check: once an Initialize has reported success, whoever can reach its   *)
(* implementation, by JSON-RPC or by a reference, finds it configured, the *)
(* client too that asked for it before Configure and has kept it.          *)
ServedObjectsConfigured ==
  Healthy /\ shell \in {"ACTIVATED", "DEACTIVATION"} /\ ~message =>
    \A o \in Object :
      /\ o[1] = Info /\ o[2] = gen /\ Reachable(o)
      /\ o \in {held[k] : k \in Clients} \cup {call[w] : w \in Workers}
      => o \in configured

(* The shell is referenced by the framework, by the plugin while _service  *)
(* is set, and by each configured implementation that has not been         *)
(* destroyed: what AddRef takes, a Release, a destructor or the recovery   *)
(* of a dead process gives back.                                           *)
ShellReferences ==
  /\ shellRefs = 1 + (IF service THEN 1 ELSE 0) + Cardinality(configured)
  /\ \A o \in configured : refs[o] > 0 /\ Reachable(o)

(* A plugin reported as activated offers all three interfaces, of the      *)
(* current activation, by reference and by JSON-RPC alike, and has its     *)
(* IConfiguration from this activation too: none of the pointers, which    *)
(* Deinitialize will release, is one that an earlier activation left.      *)
ActivatedMeansAvailable ==
  shell = "ACTIVATED" /\ Healthy =>
    /\ \A c \in Classes : ptr[c] = <<c, gen>> /\ registered[c] = ptr[c]
                          /\ refs[ptr[c]] > 0
    /\ configure = <<Info, gen>>

(* When the plugin is deactivated and no client holds anything, no object, *)
(* no handler and no reference to the shell is left behind.                *)
NothingLeaks ==
  pc = "idle" /\ shell = "DEACTIVATED" /\ (\A k \in Clients : held[k] = Null) =>
    /\ \A o \in Object : refs[o] = 0
    /\ \A c \in Classes : registered[c] = Null
    /\ configured = {} /\ shellRefs = 1

(* Deinitialize can always clean up after a plugin that was activated: the *)
(* null pointer it may call through is that of a failed Initialize.        *)
ActivatedCanStop == pc = "nullDereference" => message

(* Deinitialize never calls through a null pointer, and no query reaches   *)
(* an object that was destroyed.                                           *)
Defined == pc \notin {"nullDereference", "destroyedAccess"}

-----------------------------------------------------------------------------
(* Refinement                                                              *)

(* The steps before and at the Root of class c.                            *)
UntilRoot(c) == CASE c = Info  -> {"rootInfo"}
                  [] c = Audio -> {"rootInfo", "rootAudio"}
                  [] c = Video -> {"rootInfo", "rootAudio", "rootVideo"}

(* The objects whose Root is behind. A query that found an object without  *)
(* its shell stopped Initialize where the pointers tell.                   *)
Rooted(o) ==
  \/ o[2] < gen
  \/ o[2] = gen /\ IF pc = "nullService" THEN ptr[o[1]] = o ELSE pc \notin UntilRoot(o[1])

(* The object that a query found destroyed has no holder, whatever step of *)
(* Deinitialize the query met.                                             *)
Holding(o) == IF pc = "destroyedAccess" /\ refs[o] = 0 THEN {} ELSE Holders(o)

Ownership == INSTANCE ObjectOwnership WITH
  holders <- [o \in Object |-> Holding(o)],
  gone    <- {o \in Object : Rooted(o) /\ refs[o] = 0}

(* The counts and pointers implement ownership: an object is destroyed     *)
(* with its last holder, never before, never later, and never comes back.  *)
OwnershipImplemented == Ownership!Spec

-----------------------------------------------------------------------------
(* Liveness                                                                *)

(* Deinitialize returns, however many requests are being served, unless it *)
(* ran into undefined behaviour.                                           *)
DeinitializeEnds == shell = "DEACTIVATION" ~> (shell = "DEACTIVATED" \/ ~Healthy)

(* A process whose object was released ends, on its own or terminated,     *)
(* unless the plugin ran into undefined behaviour before.                  *)
ProcessesEnd ==
  \A o \in Object : (o \in running /\ refs[o] = 0) ~> (o \notin running \/ ~Healthy)

-----------------------------------------------------------------------------
(* What the documents and comments of the repository say, and the code     *)
(* does not do.                                                            *)

(* Every acquired interface is released, also when Initialize failed.      *)
AcquiredIsReleased ==
  pc = "idle" /\ shell = "DEACTIVATED" /\ (\A k \in Clients : held[k] = Null) =>
    \A o \in Object : refs[o] = 0

(* Pointers are checked for nullptr before the clean-up uses them.         *)
CleanupChecksNull == pc # "nullDereference"

(* The interface methods are thread-safe: an object that a query finds is  *)
(* there ...                                                               *)
QueriesReachLiveObjects == pc # "destroyedAccess"

(* ... and ready to be used.                                               *)
QueriesReachConfiguredObjects == pc # "nullService"

(* The death of a remote process leads to the plugin's deactivation.       *)
CrashDeactivates ==
  \A o \in Object :
    (shell = "ACTIVATED" /\ Mode = "Local" /\ ptr[o[1]] = o /\ o \notin running)
      ~> shell # "ACTIVATED"
=============================================================================
