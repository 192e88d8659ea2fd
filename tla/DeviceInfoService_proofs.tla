------------------------ MODULE DeviceInfoService_proofs ------------------------
(***************************************************************************)
(* Proofs about what DeviceInfoPlugin serves. Under every fault, an        *)
(* implementation whose Initialize succeeded is configured for whoever     *)
(* reaches it, the client too that asked before Configure; when queries    *)
(* come only while the plugin is activated, nobody ever finds one that is  *)
(* not; and, when neither a query comes late nor a process ends early,     *)
(* nothing is called that is null or was destroyed.                        *)
(***************************************************************************)
EXTENDS DeviceInfoOwnership_proofs

-----------------------------------------------------------------------------
(* An Initialize that succeeds has configured its implementation.          *)

(* From the registration on, when there is no error to report, the         *)
(* implementation of the current activation is configured as long as it    *)
(* can answer.                                                             *)
Ready ==
  Healthy /\ ~message
  /\ (pc \in {"register", "return"} \/ shell \in {"ACTIVATED", "DEACTIVATION"}) =>
    \A o \in Object :
      o = <<Info, gen>> /\ refs[o] > 0 /\ Reachable(o) => o \in configured

(* An object becomes reachable only by its Root.                           *)
LEMMA ReachableStays ==
  ASSUME [Next]_vars, NEW o \in Object, Reachable(o)'
  PROVE  Reachable(o) \/ \E c \in Classes : Rooting(c) /\ o = <<c, gen>>
<1> USE DEF Reachable
<1>1. CASE Quiet
  BY <1>1
  DEF Quiet, Activate, Deactivate, RootsFailed, Configure, Register, InitializeReturns,
      Deinitialize, RemoteConnection, DeinitializeReturns, Terminate, ProcessEnds,
      Unregistering, Draining, Unregister, Drain, Respond, Invoke, Crash, Exit, vars
<1>2. ASSUME NEW c \in Classes, Rooting(c)
      PROVE  Reachable(o) \/ \E d \in Classes : Rooting(d) /\ o = <<d, gen>>
  <2>1. running' = running \/ running' = running \cup {<<c, gen>>}
    BY <1>2 DEF Rooting, Root
  <2> QED
    BY <1>2, <2>1
<1>3. ASSUME NEW c \in Classes, Releasing(c) \/ Clearing(c)
      PROVE  running' = running
  BY <1>3 DEF Releasing, Clearing, Release, Clear
<1>4. CASE QueryConfiguration \/ ReleaseConfigure
  BY <1>4 DEF QueryConfiguration, ReleaseConfigure
<1>5. ASSUME NEW k \in Clients, Drop(k) \/ \E c \in Classes : Acquire(k, c)
      PROVE  running' = running
  BY <1>5 DEF Drop, Acquire
<1>6. ASSUME NEW p \in Object, UnsetService(p)
      PROVE  running' \subseteq running
  BY <1>6 DEF UnsetService, ProcessEnds
<1> QED
  BY <1>1, <1>2, <1>3, <1>4, <1>5, <1>6, StepCases

(* An Initialize without an error has configured its implementation.       *)
LEMMA ReadyStep ==
  ASSUME Control, Counting, Shell, Ready, [Next]_vars
  PROVE  Ready'
<1> SUFFICES ASSUME Healthy', ~message',
                    pc' \in {"register", "return"} \/ shell' \in {"ACTIVATED", "DEACTIVATION"},
                    NEW o \in Object, o = <<Info, gen'>>, refs'[o] > 0,
                    Reachable(o)'
             PROVE  o \in configured'
  BY DEF Ready
<1> DEFINE Before == /\ Healthy /\ ~message
                     /\ pc \in {"register", "return"} \/ shell \in {"ACTIVATED", "DEACTIVATION"}
                     /\ o = <<Info, gen>> /\ refs[o] > 0
<1>1. ASSUME Before, Reachable(o)
      PROVE  o \in configured'
  BY <1>1, ConfiguredStays DEF Ready
<1>2. \/ Before \/ \E c \in Classes : Rooting(c)
      \/ Configure
  <2> USE DEF Healthy, Undefined, Transition, framework, plugin, users, Control,
          TypeControl, ShellControl, InitSteps, DeinitSteps
  <2>1. CASE Quiet
    <3>1. CASE Activate \/ RootsFailed
      BY <3>1 DEF Activate, RootsFailed
    <3>2. CASE Deactivate \/ Register \/ InitializeReturns \/ Deinitialize
      BY <3>2 DEF Deactivate, Register, InitializeReturns, Deinitialize, counts
    <3>3. CASE RemoteConnection \/ Terminate \/ DeinitializeReturns
      BY <3>3 DEF RemoteConnection, Terminate, DeinitializeReturns, ProcessEnds, counts
    <3>4. ASSUME NEW c \in Classes, Unregistering(c) \/ Draining(c)
          PROVE  Before
      BY <3>4 DEF Unregistering, Draining, Unregister, Drain, counts
    <3>5. ASSUME NEW w \in Workers, Respond(w) \/ \E c \in Classes : Invoke(w, c)
          PROVE  Before
      BY <3>5 DEF Respond, Invoke, counts
    <3>6. ASSUME NEW p \in Object, Crash(p) \/ Exit(p)
          PROVE  Before
      BY <3>6 DEF Crash, Exit, ProcessEnds, counts
    <3>7. CASE UNCHANGED vars
      BY <3>7 DEF vars, counts
    <3> QED
      BY <2>1, <3>1, <3>2, <3>3, <3>4, <3>5, <3>6, <3>7 DEF Quiet
  <2>2. ASSUME NEW p \in Object, ReleaseRef(p)
        PROVE  refs[o] > 0
    BY <2>2 DEF ReleaseRef, Counting
  <2>3. ASSUME NEW c \in Classes, Releasing(c) \/ Clearing(c)
        PROVE  Before
    <3>1. CASE Releasing(c)
      <4>1. ptr[c] \in Object
        BY <3>1
        DEF Releasing, Release, PointerControl, OwnedSteps, AudioCleanup,
            VideoCleanup, Current, Object, Null, Classes, Info, Audio, Video
      <4> QED
        BY <2>2, <3>1, <4>1 DEF Releasing, Release
    <3>2. CASE Clearing(c)
      BY <3>2 DEF Clearing, Clear, counts, Object, Null, Classes, Info, Audio, Video
    <3> QED
      BY <2>3, <3>1, <3>2
  <2>4. CASE QueryConfiguration
    BY <2>4 DEF QueryConfiguration
  <2>5. CASE ReleaseConfigure
    BY <2>2, <2>5 DEF ReleaseConfigure
  <2>6. ASSUME NEW k \in Clients, Drop(k)
        PROVE  Before
    BY <2>2, <2>6 DEF Drop
  <2>7. ASSUME NEW k \in Clients, NEW c \in Classes, Acquire(k, c)
        PROVE  Before
    BY <2>7 DEF Acquire, Counting
  <2>8. ASSUME NEW p \in Object, UnsetService(p)
        PROVE  Before
    BY <2>8 DEF UnsetService, ProcessEnds
  <2> QED
    BY <2>1, <2>3, <2>4, <2>5, <2>6, <2>7, <2>8, StepCases
<1>3. ASSUME NEW c \in Classes, Rooting(c) PROVE FALSE
  BY <1>3
  DEF Rooting, Root, Transition, framework, Control, ShellControl, InitSteps, DeinitSteps
<1>4. CASE Configure
  BY <1>4
  DEF Configure, StoreShell, Transition, framework, Control, ConfigureControl
<1> QED
  BY <1>1, <1>2, <1>3, <1>4, ReachableStays

THEOREM ReadyInvariant == Spec => []Ready
<1>1. Init => Ready
  BY DEF Init, Ready
<1>2. Control /\ Counting /\ Shell /\ Ready /\ [Next]_vars => Ready'
  BY ReadyStep
<1> QED
  BY <1>1, <1>2, ControlInvariant, CountingInvariant, ShellInvariant, PTL DEF Spec

(* Once an Initialize has succeeded, whoever reaches its implementation    *)
(* finds it configured, whatever fails and whenever the client asked for   *)
(* it: SystemInfo may call through _service.                               *)
THEOREM ServedIsConfigured == Spec => []ServedObjectsConfigured
<1>1. ASSUME UsersLive, Ready PROVE ServedObjectsConfigured
  <2> SUFFICES ASSUME Healthy, shell \in {"ACTIVATED", "DEACTIVATION"}, ~message,
                      NEW o \in Object, o[1] = Info, o[2] = gen, Reachable(o),
                      o \in {held[k] : k \in Clients} \cup {call[w] : w \in Workers}
               PROVE  o \in configured
    BY DEF ServedObjectsConfigured
  <2>1. o = <<Info, gen>> /\ o # Null
    BY DEF Object, Null, Classes, Info, Audio, Video
  <2>2. refs[o] > 0
    BY <1>1, <2>1 DEF UsersLive
  <2> QED
    BY <1>1, <2>1, <2>2 DEF Ready
<1> QED
  BY <1>1, UsersStayLive, ReadyInvariant, PTL

-----------------------------------------------------------------------------
(* Queries that come in time.                                              *)

Timely == "earlyQuery" \notin Faults /\ "lateQuery" \notin Faults

(* What a client holds is configured, of whichever activation it is ...    *)
HeldReady ==
  Healthy => \A k \in Clients :
    held[k] # Null /\ held[k][1] = Info /\ Reachable(held[k]) => held[k] \in configured

(* ... and handlers run only in an activation without an error.            *)
CallsAccepted == Healthy => \A w \in Workers : call[w] # Null => ~message

(* The plugin has an error to report before it has handlers, or never.     *)
LEMMA CallsAcceptedStep ==
  ASSUME Control, CallsAccepted, [Next]_vars
  PROVE  CallsAccepted'
<1> USE DEF CallsAccepted, Control, TypeControl, Healthy, Undefined, Transition, framework,
        plugin, users
<1>1. CASE Quiet
  <2>1. CASE Activate \/ RootsFailed \/ Configure
    <3>1. \A w \in Workers : call[w] = Null
      BY <2>1
      DEF Activate, RootsFailed, Configure, ShellControl, RegistrationControl,
          RegisteredSteps, DrainStep, AudioCleanup, VideoCleanup, InitSteps, Classes, Info,
          Audio, Video
    <3> QED
      BY <2>1, <3>1 DEF Activate, RootsFailed, Configure
  <2>2. CASE Deactivate \/ Register \/ InitializeReturns \/ Deinitialize
    BY <2>2 DEF Deactivate, Register, InitializeReturns, Deinitialize
  <2>3. CASE RemoteConnection \/ Terminate \/ DeinitializeReturns
    BY <2>3 DEF RemoteConnection, Terminate, DeinitializeReturns
  <2>4. ASSUME NEW c \in Classes, Unregistering(c) \/ Draining(c)
        PROVE  CallsAccepted'
    BY <2>4 DEF Unregistering, Draining, Unregister, Drain
  <2>5. ASSUME NEW w \in Workers, Respond(w) \/ \E c \in Classes : Invoke(w, c)
        PROVE  CallsAccepted'
    BY <2>5 DEF Respond, Invoke, ShellControl
  <2>6. ASSUME NEW o \in Object, Crash(o) \/ Exit(o)
        PROVE  CallsAccepted'
    BY <2>6 DEF Crash, Exit
  <2>7. CASE UNCHANGED vars
    BY <2>7 DEF vars
  <2> QED
    BY <1>1, <2>1, <2>2, <2>3, <2>4, <2>5, <2>6, <2>7 DEF Quiet
<1>2. ASSUME NEW c \in Classes, Rooting(c)
      PROVE  CallsAccepted'
  BY <1>2 DEF Rooting, Root
<1>3. ASSUME NEW c \in Classes, Releasing(c) \/ Clearing(c)
      PROVE  CallsAccepted'
  BY <1>3 DEF Releasing, Clearing, Release, Clear
<1>4. CASE QueryConfiguration
  <2>1. \A w \in Workers : call[w] = Null
    BY <1>4
    DEF QueryConfiguration, RegistrationControl, RegisteredSteps, DrainStep, AudioCleanup,
        VideoCleanup, Classes, Info, Audio, Video
  <2> QED
    BY <1>4, <2>1 DEF QueryConfiguration
<1>5. CASE ReleaseConfigure
  BY <1>5 DEF ReleaseConfigure
<1>6. ASSUME NEW k \in Clients, Drop(k) \/ \E c \in Classes : Acquire(k, c)
      PROVE  CallsAccepted'
  BY <1>6 DEF Drop, Acquire
<1>7. ASSUME NEW o \in Object, UnsetService(o)
      PROVE  CallsAccepted'
  BY <1>7 DEF UnsetService
<1> QED
  BY <1>1, <1>2, <1>3, <1>4, <1>5, <1>6, <1>7, StepCases

(* A client is handed what is configured, and it stays so while it is held.*)
LEMMA HeldReadyStep ==
  ASSUME Timely, Control, Counting, Shell, UsersLive, UsersLive', Ready, HeldReady,
         [Next]_vars
  PROVE  HeldReady'
<1> SUFFICES ASSUME Healthy', NEW k \in Clients, NEW o \in Object, o = held'[k],
                    o[1] = Info, Reachable(o)'
             PROVE  o \in configured'
  <2>1. held' \in [Clients -> Object \cup {Null}]
    BY TypeControlStep DEF TypeControl
  <2> QED
    BY <2>1 DEF HeldReady
<1>1. refs'[o] > 0 /\ o # Null
  BY DEF UsersLive, Object, Null, Classes, Info, Audio, Video
<1>2. CASE held'[k] = held[k] /\ Healthy
  <2>1. refs[o] > 0
    BY <1>1, <1>2 DEF UsersLive
  <2>2. ~\E c \in Classes : Rooting(c) /\ o = <<c, gen>>
    BY <2>1
    DEF Counting, UnbornUncounted, AfterRoot, InitSteps, DeinitSteps, Rooting, Root,
        Transition, Info, Audio, Video
  <2>3. o \in configured
    BY <1>1, <1>2, <2>2, ReachableStays DEF HeldReady
  <2> QED
    BY <1>1, <2>3, ConfiguredStays
<1>3. CASE \E c \in Classes : Acquire(k, c) /\ held'[k] = ptr[c]
  <2>1. PICK c \in Classes : Acquire(k, c) /\ o = ptr[c]
    BY <1>3
  <2>2. /\ Healthy /\ running' = running /\ configured' = configured
        /\ shell = "ACTIVATED" /\ ~message /\ refs[o] > 0
    BY <1>1, <2>1
    DEF Acquire, QueryComes, Timely, Control, ShellControl, Healthy, Undefined, plugin
  <2>3. o = <<Info, gen>>
    BY <1>1, <2>1, <2>2 DEF Control, PointerControl, Current
  <2> QED
    BY <2>1, <2>2, <2>3 DEF Ready, Reachable
<1>4. (held'[k] = held[k] /\ Healthy) \/ \E c \in Classes : Acquire(k, c) /\ held'[k] = ptr[c]
  <2> USE DEF users, Control, TypeControl, Healthy, Undefined, Transition
  <2>1. CASE Quiet
    <3>1. held' = held
      BY <2>1
      DEF Quiet, Activate, Deactivate, RootsFailed, Configure, Register, InitializeReturns,
          Deinitialize, RemoteConnection, DeinitializeReturns, Terminate, Unregistering,
          Draining, Unregister, Drain, Respond, Invoke, Crash, Exit, vars
    <3> QED
      BY <2>1, <3>1, QuietIsHarmless DEF Harmless
  <2>2. ASSUME NEW c \in Classes, Rooting(c) \/ Releasing(c) \/ Clearing(c)
        PROVE  held' = held /\ Healthy
    BY <2>2 DEF Rooting, Releasing, Clearing, Root, Release, Clear
  <2>3. CASE QueryConfiguration \/ ReleaseConfigure
    BY <2>3 DEF QueryConfiguration, ReleaseConfigure
  <2>4. ASSUME NEW j \in Clients, Drop(j)
        PROVE  held'[k] = held[k] /\ Healthy
    BY <1>1, <2>4 DEF Drop
  <2>5. ASSUME NEW j \in Clients, NEW c \in Classes, Acquire(j, c)
        PROVE  (held'[k] = held[k] /\ Healthy) \/ (Acquire(k, c) /\ held'[k] = ptr[c])
    <3>1. CASE j = k
      BY <2>5, <3>1 DEF Acquire
    <3>2. CASE j # k
      BY <2>5, <3>2 DEF Acquire
    <3> QED
      BY <3>1, <3>2
  <2>6. ASSUME NEW p \in Object, UnsetService(p)
        PROVE  held' = held /\ Healthy
    BY <2>6 DEF UnsetService
  <2> QED
    BY <2>1, <2>2, <2>3, <2>4, <2>5, <2>6, StepCases
<1> QED
  BY <1>2, <1>3, <1>4

THEOREM UsersAreReady == Timely => (Spec => [](HeldReady /\ CallsAccepted))
<1> SUFFICES ASSUME Timely PROVE Spec => [](HeldReady /\ CallsAccepted)
  OBVIOUS
<1>1. Init => HeldReady /\ CallsAccepted
  BY DEF Init, HeldReady, CallsAccepted
<1>2. Control /\ Counting /\ Shell /\ UsersLive /\ UsersLive' /\ Ready /\ HeldReady
        /\ CallsAccepted /\ [Next]_vars => HeldReady' /\ CallsAccepted'
  BY HeldReadyStep, CallsAcceptedStep
<1> QED
  BY <1>1, <1>2, ControlInvariant, CountingInvariant, ShellInvariant, UsersStayLive,
     ReadyInvariant, PTL
  DEF Spec

(* Nobody holds or runs on an object whose _service is null.               *)
LEMMA NobodyFindsUnset ==
  ASSUME Control, UsersLive, Ready, HeldReady, CallsAccepted, NEW o \in Object
  PROVE  ~UnsetService(o)
<1> SUFFICES ASSUME UnsetService(o) PROVE FALSE
  OBVIOUS
<1>1. Healthy /\ o[1] = Info /\ Reachable(o) /\ o \notin configured /\ o # Null
  BY DEF UnsetService, Object, Null, Classes, Info, Audio, Video
<1>2. ASSUME NEW k \in Clients, held[k] = o
      PROVE  FALSE
  BY <1>1, <1>2 DEF HeldReady
<1>3. ASSUME NEW w \in Workers, call[w] = o
      PROVE  FALSE
  <2>1. o = <<Info, gen>> /\ ~message /\ refs[o] > 0
    BY <1>1, <1>3 DEF Control, RegistrationControl, CallsAccepted, UsersLive, Current
  <2>2. shell \in {"ACTIVATED", "DEACTIVATION"}
    BY <1>1, <1>3
    DEF Control, ShellControl, RegistrationControl, RegisteredSteps, DrainStep,
        AudioCleanup, VideoCleanup, DeinitSteps, Classes, Info, Audio, Video
  <2> QED
    BY <1>1, <2>1, <2>2 DEF Ready
<1> QED
  BY <1>2, <1>3 DEF UnsetService

(* While queries come only to an activated plugin, no step calls through   *)
(* the null _service of an implementation, be it in the framework's        *)
(* process or in one of its own, whatever else fails.                      *)
THEOREM TimelyQueriesAreServed ==
  "earlyQuery" \notin Faults /\ "lateQuery" \notin Faults
    => (Spec => /\ []QueriesReachConfiguredObjects
                /\ [][\A o \in Object : ~UnsetService(o)]_vars)
<1> SUFFICES ASSUME Timely
             PROVE  Spec => /\ []QueriesReachConfiguredObjects
                            /\ [][\A o \in Object : ~UnsetService(o)]_vars
  BY DEF Timely
<1> USE DEF QueriesReachConfiguredObjects
<1>1. Init => QueriesReachConfiguredObjects
  BY DEF Init
<1>2. ASSUME QueriesReachConfiguredObjects, [Next]_vars, \A o \in Object : ~UnsetService(o)
      PROVE  QueriesReachConfiguredObjects'
  <2> USE DEF Transition, vars
  <2>1. CASE Quiet
    BY <1>2, <2>1
    DEF Quiet, Activate, Deactivate, RootsFailed, Configure, Register, InitializeReturns,
        Deinitialize, RemoteConnection, Terminate, DeinitializeReturns, Unregistering,
        Unregister, Draining, Drain, Respond, Invoke, Crash, Exit
  <2>2. ASSUME NEW c \in Classes, Rooting(c) \/ Releasing(c) \/ Clearing(c)
        PROVE  QueriesReachConfiguredObjects'
    BY <2>2 DEF Rooting, Root, Releasing, Release, Clearing, Clear
  <2>3. CASE QueryConfiguration \/ ReleaseConfigure
    BY <2>3 DEF QueryConfiguration, ReleaseConfigure
  <2>4. ASSUME NEW k \in Clients, Drop(k) \/ \E c \in Classes : Acquire(k, c)
        PROVE  QueriesReachConfiguredObjects'
    BY <1>2, <2>4 DEF Drop, Acquire
  <2> QED
    BY <1>2, <2>1, <2>2, <2>3, <2>4, StepCases
<1>3. Control /\ UsersLive /\ Ready /\ HeldReady /\ CallsAccepted
        => \A o \in Object : ~UnsetService(o)
  BY NobodyFindsUnset
<1> QED
  BY <1>1, <1>2, <1>3, ControlInvariant, UsersStayLive, ReadyInvariant, UsersAreReady, PTL
  DEF Spec

-----------------------------------------------------------------------------
(* Nothing null is called, and nothing that was destroyed.                 *)

(* What breaks the plugin: a query during Deinitialize, and the end of a   *)
(* process during Initialize, on its own or by a query.                    *)
Mild == /\ "lateQuery" \notin Faults
        /\ Mode = "Off" \/ ("earlyCrash" \notin Faults /\ "earlyQuery" \notin Faults)

(* The implementation that Initialize asks for IConfiguration is there     *)
(* until it answers, so Deinitialize finds configure set.                  *)
Sound ==
  /\ pc \notin {"nullDereference", "destroyedAccess"}
  /\ pc \in {"rootAudio", "rootVideo", "query"} /\ ptr[Info] # Null => Reachable(ptr[Info])
  /\ pc \in {"register"} \cup BeforeReleaseConfigure => configure # Null
  /\ pc \in {"return", "deinit"} /\ AllRooted => configure # Null

(* The object that the plugin holds is counted.                            *)
LEMMA PluginObjectLives ==
  ASSUME Control, Counting, Healthy, NEW c \in Classes, ptr[c] # Null, pc # ClearStep(c)
  PROVE  ptr[c] \in Object /\ refs[ptr[c]] > 0
<1>1. ptr[c] \in Object /\ ptr[c][1] = c
  BY DEF Control, TypeControl, PointerControl
<1>2. "plugin" \in Holders(ptr[c])
  BY <1>1 DEF Holders, PluginHolds
<1> QED
  BY <1>1, <1>2, HeldIsCounted DEF Counting, Covered

LEMMA SoundStep ==
  ASSUME Mild, Control, Counting, Sound, [Next]_vars,
         Mode = "Off" \/ \A o \in Object : ~UnsetService(o)
  PROVE  Sound'
<1> USE DEF Sound, Reachable, AllRooted, BeforeReleaseConfigure, AudioCleanup, VideoCleanup,
        Healthy, Undefined, InitSteps, DeinitSteps, Transition, Classes, Info, Audio,
        Video, framework, plugin, Control, ShellControl
<1>1. CASE Quiet
  <2>1. CASE Activate \/ Deactivate \/ InitializeReturns \/ DeinitializeReturns
    BY <2>1
    DEF Activate, Deactivate, InitializeReturns, DeinitializeReturns, ConfigureControl,
        Null, Object
  <2>2. CASE RootsFailed \/ Register \/ RemoteConnection \/ Terminate
    BY <2>2 DEF RootsFailed, Register, RemoteConnection, Terminate
  <2>2a. CASE Configure
    <3>1. configure # Null
      BY <2>2a DEF Configure, ConfigureControl, Null
    <3> QED
      BY <2>2a, <3>1 DEF Configure
  <2>3. CASE Deinitialize
    BY <2>3 DEF Deinitialize
  <2>4. ASSUME NEW c \in Classes, Unregistering(c) \/ Draining(c)
        PROVE  Sound'
    BY <2>4 DEF Unregistering, Draining, Unregister, Drain
  <2>5. ASSUME NEW w \in Workers, Respond(w) \/ \E c \in Classes : Invoke(w, c)
        PROVE  Sound'
    BY <2>5 DEF Respond, Invoke
  <2>6. ASSUME NEW o \in Object, Crash(o)
        PROVE  Sound'
    BY <2>6 DEF Crash, ProcessEnds, Mild
  <2>7. ASSUME NEW o \in Object, Exit(o)
        PROVE  Sound'
    <3>1. pc \in {"rootAudio", "rootVideo", "query"} /\ ptr[Info] # Null
            => refs[ptr[Info]] > 0
      BY PluginObjectLives DEF ClearStep
    <3> QED
      BY <2>7, <3>1 DEF Exit, ProcessEnds
  <2>8. CASE UNCHANGED vars
    BY <2>8 DEF vars
  <2> QED
    BY <1>1, <2>1, <2>2, <2>2a, <2>3, <2>4, <2>5, <2>6, <2>7, <2>8 DEF Quiet
<1>2. ASSUME NEW c \in Classes, Rooting(c)
      PROVE  Sound'
  BY <1>2, ModeAssumption DEF Rooting, Root, TypeControl
<1>3. ASSUME NEW c \in Classes, Releasing(c) \/ Clearing(c)
      PROVE  Sound'
  BY <1>3 DEF Releasing, Clearing, Release, Clear
<1>4. CASE QueryConfiguration \/ ReleaseConfigure
  BY <1>4 DEF QueryConfiguration, ReleaseConfigure
<1>5. ASSUME NEW k \in Clients, Drop(k)
      PROVE  Sound'
  BY <1>5 DEF Drop
<1>6. ASSUME NEW k \in Clients, NEW c \in Classes, Acquire(k, c)
      PROVE  Sound'
  <2>1. Healthy /\ ptr[c] # Null /\ shell # "DEACTIVATION"
    BY <1>6 DEF Acquire, QueryComes, Mild
  <2>2. pc # ClearStep(c)
    BY <2>1 DEF ClearStep
  <2>3. refs[ptr[c]] > 0
    BY <2>1, <2>2, PluginObjectLives
  <2> QED
    BY <1>6, <2>3 DEF Acquire
<1>7. ASSUME NEW o \in Object, UnsetService(o)
      PROVE  Sound'
  BY <1>7 DEF UnsetService
<1> QED
  BY <1>1, <1>2, <1>3, <1>4, <1>5, <1>6, <1>7, StepCases

(* Deinitialize calls through no null pointer and no query meets a         *)
(* destroyed object, unless a query comes during Deinitialize or a process *)
(* ends during Initialize, by its own fault or that of an early query.     *)
THEOREM NothingUndefined ==
  ("lateQuery" \notin Faults
     /\ (Mode = "Off" \/ ("earlyCrash" \notin Faults /\ "earlyQuery" \notin Faults)))
  => (Spec => []Defined)
<1> SUFFICES ASSUME Mild
             PROVE  Spec => []Defined
  BY DEF Mild
<1>1. Init => Sound
  BY DEF Init, Sound, BeforeReleaseConfigure, AudioCleanup, VideoCleanup
<1>2. ASSUME Mode = "Off", Control, Counting, Sound, [Next]_vars
      PROVE  Sound'
  BY <1>2, SoundStep
<1>3. CASE Mode = "Off"
  <2>1. Control /\ Counting /\ Sound /\ [Next]_vars => Sound'
    BY <1>2, <1>3
  <2>2. Sound => Defined
    BY DEF Sound, Defined
  <2> QED
    BY <1>1, <2>1, <2>2, ControlInvariant, CountingInvariant, PTL DEF Spec
<1>4. CASE Mode # "Off"
  <2>1. Timely
    BY <1>4 DEF Mild, Timely
  <2>2. Control /\ Counting /\ UsersLive /\ Ready /\ HeldReady /\ CallsAccepted /\ Sound
          /\ [Next]_vars => Sound'
    BY NobodyFindsUnset, SoundStep
  <2>3. Sound => Defined
    BY DEF Sound, Defined
  <2>4. Spec => [](HeldReady /\ CallsAccepted)
    BY <2>1, UsersAreReady
  <2> QED
    BY <1>1, <2>2, <2>3, <2>4, ControlInvariant, CountingInvariant, UsersStayLive,
       ReadyInvariant, PTL
    DEF Spec
<1> QED
  BY <1>3, <1>4
=============================================================================
