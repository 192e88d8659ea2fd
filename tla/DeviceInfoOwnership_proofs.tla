----------------------- MODULE DeviceInfoOwnership_proofs -----------------------
(***************************************************************************)
(* More proofs about DeviceInfoPlugin: as long as every Root succeeds, the *)
(* counts are not only enough but exact, nothing is left behind, and the   *)
(* plugin implements ObjectOwnership. For every mode, users, activations   *)
(* and every set of the other faults.                                      *)
(*                                                                         *)
(* The hypothesis is needed: after a failed Root the pointers of the other *)
(* two classes stay set and are overwritten by the next activation.        *)
(***************************************************************************)
EXTENDS DeviceInfoPlugin_proofs

-----------------------------------------------------------------------------
(* The steps of the framework thread, by class.                            *)

Rooting(c) ==
  \/ c = Info /\ Root(Info, "rootInfo", "rootAudio")
  \/ c = Audio /\ Root(Audio, "rootAudio", "rootVideo")
  \/ c = Video /\ Root(Video, "rootVideo", "query")

Unregistering(c) ==
  \/ c = Info /\ Unregister(Info, "unregisterInfo", "drainInfo")
  \/ c = Audio /\ Unregister(Audio, "unregisterAudio", "drainAudio")
  \/ c = Video /\ Unregister(Video, "unregisterVideo", "drainVideo")

Draining(c) ==
  \/ c = Info /\ Drain(Info, "drainInfo", "releaseConfigure")
  \/ c = Audio /\ Drain(Audio, "drainAudio", "releaseAudio")
  \/ c = Video /\ Drain(Video, "drainVideo", "releaseVideo")

Releasing(c) ==
  \/ c = Info /\ Release(Info, "releaseInfo", "clearInfo")
  \/ c = Audio /\ Release(Audio, "releaseAudio", "clearAudio")
  \/ c = Video /\ Release(Video, "releaseVideo", "clearVideo")

Clearing(c) ==
  \/ c = Info /\ Clear(Info, "clearInfo", "terminate")
  \/ c = Audio /\ Clear(Audio, "clearAudio", "unregisterVideo")
  \/ c = Video /\ Clear(Video, "clearVideo", "unregisterInfo")

(* The steps that touch neither a count nor a pointer to an object.        *)
Quiet ==
  \/ Activate \/ Deactivate
  \/ RootsFailed \/ Configure \/ Register \/ InitializeReturns \/ Deinitialize
  \/ \E c \in Classes : Unregistering(c) \/ Draining(c)
  \/ RemoteConnection \/ Terminate \/ DeinitializeReturns
  \/ \E w \in Workers : Respond(w) \/ \E c \in Classes : Invoke(w, c)
  \/ \E o \in Object : Crash(o) \/ Exit(o)
  \/ UNCHANGED vars

(* The others, one by one.                                                 *)
LEMMA StepCases ==
  ASSUME [Next]_vars
  PROVE  \/ Quiet
         \/ \E c \in Classes : Rooting(c) \/ Releasing(c) \/ Clearing(c)
         \/ QueryConfiguration \/ ReleaseConfigure
         \/ \E k \in Clients : Drop(k) \/ \E c \in Classes : Acquire(k, c)
         \/ \E o \in Object : UnsetService(o)
<1>1. CASE FrameworkThread
  <2>1. /\ Root(Info, "rootInfo", "rootAudio") => Rooting(Info)
        /\ Root(Audio, "rootAudio", "rootVideo") => Rooting(Audio)
        /\ Root(Video, "rootVideo", "query") => Rooting(Video)
    BY DEF Rooting, Info, Audio, Video
  <2>2. /\ Unregister(Info, "unregisterInfo", "drainInfo") => Unregistering(Info)
        /\ Unregister(Audio, "unregisterAudio", "drainAudio") => Unregistering(Audio)
        /\ Unregister(Video, "unregisterVideo", "drainVideo") => Unregistering(Video)
    BY DEF Unregistering, Info, Audio, Video
  <2>3. /\ Drain(Info, "drainInfo", "releaseConfigure") => Draining(Info)
        /\ Drain(Audio, "drainAudio", "releaseAudio") => Draining(Audio)
        /\ Drain(Video, "drainVideo", "releaseVideo") => Draining(Video)
    BY DEF Draining, Info, Audio, Video
  <2>4. /\ Release(Info, "releaseInfo", "clearInfo") => Releasing(Info)
        /\ Release(Audio, "releaseAudio", "clearAudio") => Releasing(Audio)
        /\ Release(Video, "releaseVideo", "clearVideo") => Releasing(Video)
    BY DEF Releasing, Info, Audio, Video
  <2>5. /\ Clear(Info, "clearInfo", "terminate") => Clearing(Info)
        /\ Clear(Audio, "clearAudio", "unregisterVideo") => Clearing(Audio)
        /\ Clear(Video, "clearVideo", "unregisterInfo") => Clearing(Video)
    BY DEF Clearing, Info, Audio, Video
  <2>6. Info \in Classes /\ Audio \in Classes /\ Video \in Classes
    BY DEF Classes
  <2> QED
    BY <1>1, <2>1, <2>2, <2>3, <2>4, <2>5, <2>6 DEF FrameworkThread, Quiet
<1>2. CASE Activate \/ Deactivate \/ UNCHANGED vars
  BY <1>2 DEF Quiet
<1>3. CASE \E w \in Workers : Respond(w) \/ \E c \in Classes : Invoke(w, c)
  BY <1>3 DEF Quiet
<1>4. CASE \E o \in Object : Crash(o) \/ Exit(o)
  BY <1>4 DEF Quiet
<1> QED
  BY <1>1, <1>2, <1>3, <1>4 DEF Next

-----------------------------------------------------------------------------
(* The pointers, when every Root succeeds.                                 *)

(* The steps at which the pointer of class c is set.                       *)
SetSteps(c) == (InitSteps \cap AfterRoot(c)) \cup {"deinit"} \cup OwnedSteps(c)

(* A pointer is set from its Root to its Clear, and null otherwise; before *)
(* the query, configure is at most what an earlier activation left in it.  *)
Pointers ==
  Healthy =>
    /\ \A c \in Classes :
         IF pc \in SetSteps(c) \/ shell = "ACTIVATED" THEN Current(c) ELSE ptr[c] = Null
    /\ pc \in {"rootInfo", "rootAudio", "rootVideo", "query"} => configure # <<Info, gen>>

LEMMA PointersStep ==
  ASSUME "root" \notin Faults, Control, Stopped, Pointers, [Next]_vars
  PROVE  Pointers'
<1> USE DEF Pointers, SetSteps, AfterRoot, OwnedSteps, AudioCleanup, VideoCleanup,
        Current, Healthy, Undefined, InitSteps, DeinitSteps, Transition, Classes, Info,
        Audio, Video, framework, plugin
<1>1. CASE Quiet
  <2>0. CASE Activate
    <3>1. configure' # <<Info, gen'>>
      BY <2>0 DEF Activate, Control, TypeControl, ConfigureControl, Null, Object
    <3>2. \A c \in Classes : ptr[c] = Null
      BY <2>0 DEF Activate
    <3> QED
      BY <2>0, <3>1, <3>2 DEF Activate
  <2>1. CASE Deactivate \/ InitializeReturns \/ DeinitializeReturns
    BY <2>1
    DEF Deactivate, InitializeReturns, DeinitializeReturns, Control, TypeControl,
        ShellControl
  <2>2a. CASE RootsFailed
    BY <2>2a DEF RootsFailed, AllRooted, Null, Control, ShellControl
  <2>2b. CASE Configure \/ Register
    BY <2>2b DEF Configure, Register, Control, ShellControl
  <2>2c. CASE RemoteConnection \/ Terminate
    BY <2>2c DEF RemoteConnection, Terminate, Control, ShellControl
  <2>3. CASE Deinitialize
    BY <2>3 DEF Deinitialize, AllRooted, Null, Control, ShellControl
  <2>4. ASSUME NEW c \in Classes, Unregistering(c) \/ Draining(c)
        PROVE  Pointers'
    BY <2>4 DEF Unregistering, Draining, Unregister, Drain, Control, ShellControl
  <2>5. ASSUME NEW w \in Workers, Respond(w) \/ \E c \in Classes : Invoke(w, c)
        PROVE  Pointers'
    BY <2>5 DEF Respond, Invoke
  <2>6. ASSUME NEW o \in Object, Crash(o) \/ Exit(o)
        PROVE  Pointers'
    BY <2>6 DEF Crash, Exit
  <2>7. CASE UNCHANGED vars
    BY <2>7 DEF vars
  <2> QED
    BY <1>1, <2>0, <2>1, <2>2a, <2>2b, <2>2c, <2>3, <2>4, <2>5, <2>6, <2>7 DEF Quiet
<1>2. ASSUME NEW c \in Classes, Rooting(c)
      PROVE  Pointers'
  BY <1>2 DEF Rooting, Root, Control, TypeControl, ShellControl
<1>3. ASSUME NEW c \in Classes, Releasing(c) \/ Clearing(c)
      PROVE  Pointers'
  BY <1>3 DEF Releasing, Clearing, Release, Clear, Control, TypeControl, ShellControl
<1>4. CASE QueryConfiguration \/ ReleaseConfigure
  BY <1>4 DEF QueryConfiguration, ReleaseConfigure, Control, ShellControl
<1>5. ASSUME NEW k \in Clients, Drop(k) \/ \E c \in Classes : Acquire(k, c)
      PROVE  Pointers'
  BY <1>5 DEF Drop, Acquire
<1>6. ASSUME NEW o \in Object, UnsetService(o)
      PROVE  Pointers'
  BY <1>6 DEF UnsetService
<1> QED
  BY <1>1, <1>2, <1>3, <1>4, <1>5, <1>6, StepCases

(* The pointers are what they should be in every reachable state.          *)
THEOREM PointersInvariant == "root" \notin Faults => (Spec => []Pointers)
<1> SUFFICES ASSUME "root" \notin Faults
             PROVE  Spec => []Pointers
  OBVIOUS
<1>1. Init => Stopped /\ Pointers
  BY DEF Init, Stopped, Pointers, SetSteps, AfterRoot, OwnedSteps, AudioCleanup,
         VideoCleanup, InitSteps, DeinitSteps, Classes, Info, Audio, Video
<1>2. Stopped /\ [Next]_vars => Stopped'
  BY StoppedStep
<1>3. Control /\ Stopped /\ Pointers /\ [Next]_vars => Pointers'
  BY PointersStep
<1> QED
  BY <1>1, <1>2, <1>3, ControlInvariant, PTL DEF Spec

-----------------------------------------------------------------------------
(* Where a query finds an implementation without its shell.                *)

(* An implementation stays configured until its destructor or the end of   *)
(* its process.                                                            *)
LEMMA ConfiguredStays ==
  ASSUME Control, Counting, Shell, [Next]_vars, NEW o \in configured
  PROVE  o \in configured' \/ refs'[o] = 0 \/ ~Reachable(o)'
<1> USE DEF Reachable, Shell
<1>1. ASSUME NEW S \in SUBSET Object, Unconfigure(S), o \notin S
      PROVE  o \in configured'
  BY <1>1 DEF Unconfigure
<1>2. ASSUME NEW p \in Object, ProcessEnds(p), p \in running
      PROVE  o \in configured' \/ ~Reachable(o)'
  <2>1. Mode # "Off"
    BY <1>2
  <2>2. CASE o = p
    BY <1>2, <2>1, <2>2 DEF ProcessEnds
  <2>3. CASE o # p
    BY <1>2, <2>3 DEF ProcessEnds, Unconfigure
  <2> QED
    BY <2>2, <2>3
<1>3. ASSUME NEW p \in Object, ReleaseRef(p)
      PROVE  o \in configured' \/ refs'[o] = 0
  BY <1>3 DEF ReleaseRef, Unconfigure, Counting
<1>4. CASE Quiet
  <2>1. CASE Activate \/ Deactivate \/ RootsFailed \/ Configure \/ Register
             \/ InitializeReturns \/ Deinitialize
    BY <2>1
    DEF Activate, Deactivate, RootsFailed, Configure, StoreShell, Register,
        InitializeReturns, Deinitialize, counts
  <2>2. CASE RemoteConnection \/ DeinitializeReturns
    BY <2>2 DEF RemoteConnection, DeinitializeReturns, counts
  <2>3. CASE Terminate
    <3>1. CASE connection # Null /\ ProcessEnds(connection)
      <4>1. Mode # "Off" /\ connection \in Object
        BY <3>1 DEF Control, TypeControl
      <4> QED
        BY <3>1, <4>1 DEF ProcessEnds, Unconfigure
    <3>2. CASE UNCHANGED <<counts, running>>
      BY <3>2 DEF counts
    <3> QED
      BY <2>3, <3>1, <3>2 DEF Terminate
  <2>4. ASSUME NEW c \in Classes, Unregistering(c) \/ Draining(c)
        PROVE  o \in configured'
    BY <2>4 DEF Unregistering, Draining, Unregister, Drain, counts
  <2>5. ASSUME NEW w \in Workers, Respond(w) \/ \E c \in Classes : Invoke(w, c)
        PROVE  o \in configured'
    BY <2>5 DEF Respond, Invoke, counts
  <2>6. ASSUME NEW p \in Object, Crash(p) \/ Exit(p)
        PROVE  o \in configured' \/ ~Reachable(o)'
    BY <1>2, <2>6 DEF Crash, Exit
  <2>7. CASE UNCHANGED vars
    BY <2>7 DEF vars, counts
  <2> QED
    BY <1>4, <2>1, <2>2, <2>3, <2>4, <2>5, <2>6, <2>7 DEF Quiet
<1>5. ASSUME NEW c \in Classes, Rooting(c) \/ Clearing(c)
      PROVE  o \in configured'
  BY <1>5 DEF Rooting, Clearing, Root, Clear, counts
<1>6. ASSUME NEW c \in Classes, Releasing(c)
      PROVE  o \in configured' \/ refs'[o] = 0
  BY <1>3, <1>6
  DEF Releasing, Release, Transition, Control, TypeControl, PointerControl, OwnedSteps,
      AudioCleanup, VideoCleanup, Current, ShellControl, DeinitSteps, Object, Classes, Info,
      Audio, Video
<1>7. CASE QueryConfiguration
  BY <1>7 DEF QueryConfiguration
<1>8. CASE ReleaseConfigure
  BY <1>3, <1>8 DEF ReleaseConfigure, Control, TypeControl, counts
<1>9. ASSUME NEW k \in Clients, Drop(k)
      PROVE  o \in configured' \/ refs'[o] = 0
  BY <1>3, <1>9 DEF Drop, Control, TypeControl
<1>10. ASSUME NEW k \in Clients, NEW c \in Classes, Acquire(k, c)
      PROVE  o \in configured'
  BY <1>10 DEF Acquire
<1>11. ASSUME NEW p \in Object, UnsetService(p)
      PROVE  o \in configured' \/ ~Reachable(o)'
  <2>1. CASE Mode = "Off"
    BY <1>11, <2>1 DEF UnsetService, counts
  <2>2. CASE Mode # "Off"
    BY <1>2, <1>11, <2>2 DEF UnsetService
  <2> QED
    BY <2>1, <2>2
<1> QED
  BY <1>4, <1>5, <1>6, <1>7, <1>8, <1>9, <1>10, <1>11, StepCases

(* In the framework's process Configure always runs and succeeds: only     *)
(* between the Root of DeviceInfoImplementation and Configure is there an  *)
(* object that is not configured, that of the current activation.          *)
UnsetOnlyBefore ==
  Healthy /\ Mode = "Off" =>
    \A o \in Object : o[1] = Info /\ refs[o] > 0 /\ o \notin configured =>
      o[2] = gen /\ pc \in {"rootAudio", "rootVideo", "query", "configure"}

LEMMA UnsetOnlyBeforeStep ==
  ASSUME "root" \notin Faults, Control, Counting, Shell, Pointers, UnsetOnlyBefore,
         [Next]_vars
  PROVE  UnsetOnlyBefore'
<1> SUFFICES ASSUME Healthy', Mode = "Off", NEW o \in Object, o[1] = Info, refs'[o] > 0,
                    o \notin configured'
             PROVE  /\ o[2] = gen'
                    /\ pc' \in {"rootAudio", "rootVideo", "query", "configure"}
  BY DEF UnsetOnlyBefore
<1> DEFINE Early == o[2] = gen /\ pc \in {"rootAudio", "rootVideo", "query", "configure"}
<1>1. refs[o] > 0 => o \notin configured
  BY ConfiguredStays DEF Reachable
<1>2. Healthy
  <2>1. \/ FrameworkThread \/ Activate \/ Deactivate \/ UNCHANGED vars
        \/ \E k \in Clients : Drop(k) \/ \E c \in Classes : Acquire(k, c)
        \/ \E w \in Workers : Respond(w) \/ \E c \in Classes : Invoke(w, c)
        \/ \E p \in Object : Crash(p) \/ Exit(p) \/ UnsetService(p)
    BY DEF Next
  <2>2. CASE FrameworkThread \/ Activate \/ Deactivate \/ UNCHANGED vars
    BY <2>2
    DEF FrameworkThread, Root, RootsFailed, QueryConfiguration, Configure, Register,
        InitializeReturns, Deinitialize, Unregister, Drain, Release, Clear,
        ReleaseConfigure, RemoteConnection, Terminate, DeinitializeReturns, Activate,
        Deactivate, Transition, Healthy, Undefined, vars
  <2> QED
    BY <2>1, <2>2 DEF Drop, Acquire, Respond, Invoke, Crash, Exit, UnsetService
<1>3. refs[o] > 0 => Early
  BY <1>1, <1>2 DEF UnsetOnlyBefore
<1>4. \/ refs[o] > 0
      \/ o = <<Info, gen>> /\ Rooting(Info)
  <2> USE DEF Counting, Control
  <2>1. CASE Quiet
    <3>1. refs' = refs
      BY <2>1
      DEF Quiet, Activate, Deactivate, RootsFailed, Configure, StoreShell, Register,
          InitializeReturns, Deinitialize, RemoteConnection, Terminate, ProcessEnds,
          DeinitializeReturns, Unregistering, Unregister, Draining, Drain, Respond,
          Invoke, Crash, Exit, vars, counts
    <3> QED
      BY <3>1
  <2>2. ASSUME NEW c \in Classes, Rooting(c)
        PROVE  refs[o] > 0 \/ (o = <<Info, gen>> /\ Rooting(Info))
    BY <2>2 DEF Rooting, Root, Construct, Object, Classes, Info, Audio, Video
  <2>3. ASSUME NEW p, ReleaseRef(p)
        PROVE  refs[o] > 0
    BY <2>3 DEF ReleaseRef
  <2>4. ASSUME NEW c \in Classes, Releasing(c) \/ Clearing(c)
        PROVE  refs[o] > 0
    BY <2>3, <2>4 DEF Releasing, Release, Clearing, Clear, counts
  <2>5. CASE QueryConfiguration
    <3>1. pc = "query" /\ ptr[Info] # Null /\ refs' = [refs EXCEPT ![ptr[Info]] = @ + 1]
      BY <2>5 DEF QueryConfiguration, Reachable, AllRooted, Transition, Classes
    <3>2. Covered /\ ptr[Info] \in Object /\ "plugin" \in Holders(ptr[Info])
      BY <3>1
      DEF TypeControl, PointerControl, Covered, Holders, PluginHolds, ClearStep, Classes
    <3> QED
      BY <1>2, <3>1, <3>2, HeldIsCounted
  <2>6. CASE ReleaseConfigure
    BY <2>3, <2>6 DEF ReleaseConfigure, counts
  <2>7. ASSUME NEW k \in Clients, Drop(k) \/ \E c \in Classes : Acquire(k, c)
        PROVE  refs[o] > 0
    BY <2>3, <2>7 DEF Drop, Acquire
  <2>8. ASSUME NEW p \in Object, UnsetService(p)
        PROVE  refs[o] > 0
    BY <2>8 DEF UnsetService, counts
  <2> QED
    BY <2>1, <2>2, <2>4, <2>5, <2>6, <2>7, <2>8, StepCases
<1>5. CASE o = <<Info, gen>> /\ Rooting(Info)
  BY <1>5 DEF Rooting, Root, Transition, framework, Info, Audio, Video
<1>6. CASE Early
  <2> USE DEF Transition, framework, Control, ShellControl, InitSteps
  <2>1. CASE Quiet
    <3>1. CASE Activate \/ Deactivate \/ Register \/ InitializeReturns \/ Deinitialize
      BY <1>6, <3>1 DEF Activate, Deactivate, Register, InitializeReturns, Deinitialize
    <3>2. CASE RootsFailed
      BY <1>6, <3>2
      DEF RootsFailed, AllRooted, Pointers, SetSteps, AfterRoot, Current, Healthy,
          Undefined, Object, Null, Classes, Info, Audio, Video
    <3>3. CASE Configure
      <4>1. configure = <<Info, gen>> /\ configure = o
        BY <1>6, <3>3 DEF Configure, ConfigureControl, Object
      <4> QED
        BY <3>3, <4>1 DEF Configure, StoreShell, Reachable
    <3>4. CASE RemoteConnection \/ Terminate \/ DeinitializeReturns
      BY <1>6, <3>4 DEF RemoteConnection, Terminate, DeinitializeReturns
    <3>5. ASSUME NEW c \in Classes, Unregistering(c) \/ Draining(c)
          PROVE  FALSE
      BY <1>6, <3>5 DEF Unregistering, Unregister, Draining, Drain
    <3>6. CASE \/ \E w \in Workers : Respond(w) \/ \E c \in Classes : Invoke(w, c)
               \/ \E p \in Object : Crash(p) \/ Exit(p)
               \/ UNCHANGED vars
      BY <1>6, <3>6 DEF Respond, Invoke, Crash, Exit, vars
    <3> QED
      BY <2>1, <3>1, <3>2, <3>3, <3>4, <3>5, <3>6 DEF Quiet
  <2>2. ASSUME NEW c \in Classes, Rooting(c) \/ Releasing(c) \/ Clearing(c)
        PROVE  gen' = gen /\ pc' \in {"rootAudio", "rootVideo", "query", "configure"}
    BY <1>6, <2>2 DEF Rooting, Root, Releasing, Release, Clearing, Clear
  <2>3. CASE QueryConfiguration \/ ReleaseConfigure
    BY <1>6, <2>3 DEF QueryConfiguration, ReleaseConfigure, Reachable
  <2>4. ASSUME NEW k \in Clients, Drop(k) \/ \E c \in Classes : Acquire(k, c)
        PROVE  gen' = gen /\ pc' \in {"rootAudio", "rootVideo", "query", "configure"}
    BY <1>6, <2>4 DEF Drop, Acquire, Healthy, Undefined
  <2>5. ASSUME NEW p \in Object, UnsetService(p)
        PROVE  FALSE
    BY <2>5 DEF UnsetService, Healthy, Undefined
  <2> QED
    BY <1>6, <2>1, <2>2, <2>3, <2>4, <2>5, StepCases
<1> QED
  BY <1>3, <1>4, <1>5, <1>6

(* A query finds an implementation without its shell during Initialize.    *)
THEOREM UnsetOnlyBeforeConfigure == "root" \notin Faults => (Spec => []UnsetOnlyBefore)
<1> SUFFICES ASSUME "root" \notin Faults
             PROVE  Spec => []UnsetOnlyBefore
  OBVIOUS
<1>1. Init => UnsetOnlyBefore
  BY DEF Init, UnsetOnlyBefore
<1>2. Control /\ Counting /\ Shell /\ Pointers /\ UnsetOnlyBefore /\ [Next]_vars
        => UnsetOnlyBefore'
  BY UnsetOnlyBeforeStep
<1> QED
  BY <1>1, <1>2, ControlInvariant, CountingInvariant, ShellInvariant, PointersInvariant, PTL
  DEF Spec

-----------------------------------------------------------------------------
(* What a step does to the holders of the objects.                         *)

Keeps == refs' = refs /\ \A o \in Object : Holders(o)' = Holders(o)

OthersKeep(o) == \A p \in Object \ {o} : Holders(p)' = Holders(p)

(* Holder h comes to o, which is live or just being made.                  *)
Joins(o, h) ==
  /\ h \in Holder \ Holders(o) /\ Holders(o)' = Holders(o) \cup {h} /\ OthersKeep(o)
  /\ refs' = [refs EXCEPT ![o] = @ + 1]
  /\ refs[o] > 0 \/ ~Rooted(o)

(* Holder h leaves o.                                                      *)
Leaves(o, h) ==
  /\ h \in Holders(o) /\ Holders(o)' = Holders(o) \ {h} /\ OthersKeep(o)
  /\ refs' = [refs EXCEPT ![o] = @ - 1]

LEMMA QuietKeeps ==
  ASSUME "root" \notin Faults, Control, Pointers, Quiet
  PROVE  Keeps /\ \A o \in Object : Rooted(o)' = Rooted(o)
<1> USE DEF Pointers, SetSteps, AfterRoot, OwnedSteps, AudioCleanup, VideoCleanup,
        Current, Healthy, Undefined, InitSteps, DeinitSteps, Transition, Classes, Info,
        Audio, Video, framework, plugin, users, counts, Keeps, Holders, PluginHolds,
        ConfigureHolds, ClearStep, Rooted, UntilRoot, Object, Null
<1>1. CASE Activate
  <2>1. /\ shell = "DEACTIVATED" /\ pc = "idle" /\ pc' = "rootInfo" /\ gen' = gen + 1
        /\ gen \in Nat /\ UNCHANGED <<refs, ptr, configure, held>>
    BY <1>1 DEF Activate, Control, TypeControl
  <2>2. \A o \in Object : ~ConfigureHolds(o) /\ ~ConfigureHolds(o)'
    BY <2>1 DEF Control, TypeControl, ConfigureControl
  <2>3. Keeps
    BY <2>1, <2>2
  <2>4. \A o \in Object : Rooted(o)' = Rooted(o)
    BY <2>1
  <2> QED
    BY <2>3, <2>4
<1>2. CASE Deactivate \/ InitializeReturns \/ DeinitializeReturns
  BY <1>2 DEF Deactivate, InitializeReturns, DeinitializeReturns, Control, ShellControl
<1>3. CASE RootsFailed \/ Configure \/ Register \/ RemoteConnection \/ Terminate
  <2>1. CASE RootsFailed \/ Register
    BY <2>1 DEF RootsFailed, Register
  <2>2. CASE Configure
    BY <2>2 DEF Configure
  <2>3. CASE RemoteConnection \/ Terminate
    BY <2>3 DEF RemoteConnection, Terminate, ProcessEnds
  <2> QED
    BY <1>3, <2>1, <2>2, <2>3
<1>4. CASE Deinitialize
  BY <1>4 DEF Deinitialize, AllRooted
<1>5. ASSUME NEW c \in Classes, Unregistering(c) \/ Draining(c)
      PROVE  Keeps /\ \A o \in Object : Rooted(o)' = Rooted(o)
  BY <1>5 DEF Unregistering, Draining, Unregister, Drain
<1>6. ASSUME NEW w \in Workers, Respond(w) \/ \E c \in Classes : Invoke(w, c)
      PROVE  Keeps /\ \A o \in Object : Rooted(o)' = Rooted(o)
  BY <1>6 DEF Respond, Invoke
<1>7. ASSUME NEW o \in Object, Crash(o) \/ Exit(o)
      PROVE  Keeps /\ \A p \in Object : Rooted(p)' = Rooted(p)
  BY <1>7 DEF Crash, Exit, ProcessEnds
<1>8. CASE UNCHANGED vars
  BY <1>8 DEF vars
<1> QED
  BY <1>1, <1>2, <1>3, <1>4, <1>5, <1>6, <1>7, <1>8 DEF Quiet

(* What is counted has been made.                                          *)
LEMMA CountedIsRooted ==
  ASSUME Control, Counting, Healthy, NEW o \in Object, refs[o] > 0
  PROVE  Rooted(o)
<1>1. gen \in Nat /\ o[1] \in Classes /\ o[2] \in Nat
  BY ActivationAssumption DEF Control, TypeControl, Object
<1>2. ~(o[2] > gen) /\ ~(o[2] = gen /\ pc \in InitSteps \ AfterRoot(o[1]))
  BY DEF Counting, UnbornUncounted
<1> QED
  BY <1>1, <1>2
  DEF Rooted, UntilRoot, AfterRoot, InitSteps, DeinitSteps, Healthy, Undefined, Classes,
      Info, Audio, Video

(* Root makes an object for the plugin that nobody had before.             *)
LEMMA RootingJoins ==
  ASSUME "root" \notin Faults, Control, Counting, Pointers, NEW c \in Classes, Rooting(c)
  PROVE  /\ \E o \in Object : /\ Joins(o, "plugin") /\ Rooted(o)'
                              /\ \A p \in Object \ {o} : Rooted(p)' = Rooted(p)
         /\ Healthy /\ Healthy'
<1> USE DEF Pointers, SetSteps, AfterRoot, OwnedSteps, AudioCleanup, VideoCleanup,
        Current, Healthy, Undefined, InitSteps, DeinitSteps, Transition, Classes, Info,
        Audio, Video, framework, plugin, users, Object, Null, Rooting, Root
<1>0. PICK o : o = <<c, gen>>
  OBVIOUS
<1>1. o \in Object
  BY <1>0 DEF Control, TypeControl, ShellControl
<1>2. refs[o] = 0
  BY <1>0, <1>1 DEF Counting, UnbornUncounted
<1>3. ptr[c] = Null /\ ptr' = [ptr EXCEPT ![c] = o]
  BY <1>0 DEF Control, ShellControl
<1>4. refs' = [refs EXCEPT ![o] = @ + 1]
  BY <1>0, <1>1, <1>2 DEF Construct, Counting
<1>5. ~Rooted(o) /\ Rooted(o)' /\ Healthy /\ Healthy'
  BY <1>0 DEF Rooted, UntilRoot, Control, TypeControl
<1>6. \A p \in Object \ {o} : Rooted(p)' = Rooted(p)
  BY <1>0 DEF Rooted, UntilRoot
<1>7. "plugin" \notin Holders(o) /\ Holders(o)' = Holders(o) \cup {"plugin"}
  BY <1>0, <1>3, ClientsAssumption
  DEF Holders, PluginHolds, ConfigureHolds, ClearStep, Control, TypeControl
<1>8. OthersKeep(o)
  BY <1>0, <1>3
  DEF OthersKeep, Holders, PluginHolds, ConfigureHolds, ClearStep, Control, TypeControl
<1>9. "plugin" \in Holder
  BY DEF Holder
<1>10. Joins(o, "plugin")
  BY <1>2, <1>4, <1>5, <1>7, <1>8, <1>9 DEF Joins
<1> HIDE DEF Joins, Rooted, Healthy
<1> QED
  BY <1>0, <1>1, <1>5, <1>6, <1>10

(* The query for IConfiguration is one more reference, if it is answered.  *)
LEMMA QueryJoins ==
  ASSUME "root" \notin Faults, Control, Counting, Pointers, QueryConfiguration
  PROVE  /\ Keeps \/ \E o \in Object : Joins(o, "configure") /\ Rooted(o)
         /\ Healthy /\ Healthy'
         /\ \A p \in Object : Rooted(p)' = Rooted(p)
<1> USE DEF Control, TypeControl, ConfigureControl, PointerControl, AfterRoot, Current,
        Healthy, Undefined, InitSteps, DeinitSteps, Transition, Classes, Info, Audio,
        Video, framework, plugin, users, Object, Null, QueryConfiguration, AllRooted,
        PluginHolds, ConfigureHolds, ClearStep
<1>1. \A p \in Object : Rooted(p)' = Rooted(p)
  BY DEF Rooted, UntilRoot
<1>2. \A p \in Object : ~ConfigureHolds(p)
  BY DEF Pointers, SetSteps
<1>3. CASE Reachable(ptr[Info])
  <2>0. PICK o : o = ptr[Info]
    OBVIOUS
  <2>1. o \in Object /\ "plugin" \in Holders(o)
    BY <2>0 DEF Holders
  <2>2. refs[o] > 0
    BY <2>1, HeldIsCounted DEF Counting, Covered
  <2>3. "configure" \notin Holders(o) /\ Holders(o)' = Holders(o) \cup {"configure"}
    BY <1>2, <1>3, <2>0, <2>1, ClientsAssumption DEF Holders
  <2>4. OthersKeep(o)
    BY <1>2, <1>3, <2>0 DEF OthersKeep, Holders
  <2>5. refs' = [refs EXCEPT ![o] = @ + 1]
    BY <1>3, <2>0
  <2> QED
    BY <1>1, <2>0, <2>1, <2>2, <2>3, <2>4, <2>5, CountedIsRooted DEF Joins, Holder
<1>4. CASE ~Reachable(ptr[Info])
  <2>1. \A p \in Object : Holders(p)' = Holders(p)
    BY <1>2, <1>4 DEF Holders
  <2> QED
    BY <1>1, <1>4, <2>1 DEF Keeps
<1> QED
  BY <1>3, <1>4

(* Release gives back what Root made the plugin hold ...                   *)
LEMMA ReleasingLeaves ==
  ASSUME "root" \notin Faults, Control, Counting, Pointers, NEW c \in Classes, Releasing(c)
  PROVE  /\ \E o \in Object : Leaves(o, "plugin")
         /\ Healthy /\ Healthy'
         /\ \A p \in Object : Rooted(p)' = Rooted(p)
<1> USE DEF Control, TypeControl, ConfigureControl, PointerControl, OwnedSteps,
        AudioCleanup, VideoCleanup, Current, Healthy, Undefined, InitSteps, DeinitSteps,
        Transition, Classes, Info, Audio, Video, framework, plugin, users, Object, Null,
        Releasing, Release, ReleaseRef
<1>0. PICK o : o = ptr[c]
  OBVIOUS
<1>1. \A p \in Object : Rooted(p)' = Rooted(p)
  BY DEF Rooted, UntilRoot
<1>2. o \in Object /\ "plugin" \in Holders(o)
  BY <1>0 DEF Holders, PluginHolds, ClearStep
<1>3. refs' = [refs EXCEPT ![o] = @ - 1]
  BY <1>0
<1>4. Holders(o)' = Holders(o) \ {"plugin"}
  BY <1>0, ClientsAssumption DEF Holders, PluginHolds, ConfigureHolds, ClearStep
<1>5. OthersKeep(o)
  BY <1>0 DEF OthersKeep, Holders, PluginHolds, ConfigureHolds, ClearStep
<1> QED
  BY <1>0, <1>1, <1>2, <1>3, <1>4, <1>5 DEF Leaves

(* ... and the pointer that is then cleared holds nothing any more.        *)
LEMMA ClearingKeeps ==
  ASSUME "root" \notin Faults, Control, Counting, Pointers, NEW c \in Classes, Clearing(c)
  PROVE  /\ Keeps
         /\ Healthy /\ Healthy'
         /\ \A p \in Object : Rooted(p)' = Rooted(p)
<1> USE DEF Control, TypeControl, PointerControl, OwnedSteps, AudioCleanup, VideoCleanup,
        Current, Healthy, Undefined, InitSteps, DeinitSteps, Transition, Classes, Info,
        Audio, Video, framework, plugin, users, counts, Object, Null, Clearing, Clear
<1>1. \A p \in Object : Rooted(p)' = Rooted(p)
  BY DEF Rooted, UntilRoot
<1>2. \A p \in Object : Holders(p)' = Holders(p)
  BY DEF Holders, PluginHolds, ConfigureHolds, ClearStep
<1> QED
  BY <1>1, <1>2 DEF Keeps

(* configure is given back, unless there is none.                          *)
LEMMA ReleaseConfigureLeaves ==
  ASSUME "root" \notin Faults, Control, Counting, Pointers, ReleaseConfigure
  PROVE  /\ \/ Healthy' /\ \E o \in Object : Leaves(o, "configure")
            \/ Keeps /\ pc' = "nullDereference"
         /\ Healthy
         /\ \A p \in Object : Rooted(p)' = Rooted(p)
<1> USE DEF Control, TypeControl, ConfigureControl, BeforeReleaseConfigure, ShellControl,
        AudioCleanup, VideoCleanup, Healthy, Undefined, InitSteps, DeinitSteps,
        Transition, Classes, Info, Audio, Video, framework, plugin, users, counts,
        Object, Null, ReleaseConfigure, ReleaseRef
<1>1. \A p \in Object : Rooted(p)' = Rooted(p)
  BY DEF Rooted, UntilRoot
<1>2. CASE configure = Null
  BY <1>1, <1>2 DEF Keeps, Holders, PluginHolds, ConfigureHolds, ClearStep
<1>3. CASE configure # Null
  <2>0. PICK o : o = configure
    OBVIOUS
  <2>1. o \in Object /\ "configure" \in Holders(o)
    BY <1>3, <2>0 DEF Holders, ConfigureHolds
  <2>2. refs' = [refs EXCEPT ![o] = @ - 1]
    BY <1>3, <2>0
  <2>3. Holders(o)' = Holders(o) \ {"configure"}
    BY <1>3, <2>0, ClientsAssumption DEF Holders, PluginHolds, ConfigureHolds, ClearStep
  <2>4. OthersKeep(o)
    BY <1>3, <2>0 DEF OthersKeep, Holders, PluginHolds, ConfigureHolds, ClearStep
  <2> QED
    BY <1>1, <1>3, <2>0, <2>1, <2>2, <2>3, <2>4 DEF Leaves
<1> QED
  BY <1>2, <1>3

(* A client gives back what it holds.                                      *)
LEMMA DropLeaves ==
  ASSUME Control, Counting, NEW k \in Clients, Drop(k)
  PROVE  /\ \E o \in Object : Leaves(o, k)
         /\ Healthy /\ Healthy'
         /\ \A p \in Object : Rooted(p)' = Rooted(p)
<1>0. PICK o : o = held[k]
  OBVIOUS
<1>1. /\ o \in Object /\ o # Null /\ held[k] = o /\ held \in [Clients -> Object \cup {Null}]
      /\ held' = [held EXCEPT ![k] = Null] /\ refs' = [refs EXCEPT ![o] = @ - 1]
      /\ UNCHANGED <<shell, gen, pc, ptr, configure>>
  BY <1>0 DEF Control, TypeControl, Drop, ReleaseRef, framework, plugin
<1>2. Healthy /\ Healthy' /\ \A p \in Object : Rooted(p)' = Rooted(p)
  BY <1>1 DEF Rooted, UntilRoot, Drop, Healthy, Object, Classes
<1>3. \A p \in Object : {h \in {"plugin"} : PluginHolds(p)}' = {h \in {"plugin"} : PluginHolds(p)}
  BY <1>1 DEF PluginHolds, ClearStep, Object, Classes
<1>4. \A p \in Object : {h \in {"configure"} : ConfigureHolds(p)}'
                         = {h \in {"configure"} : ConfigureHolds(p)}
  BY <1>1 DEF ConfigureHolds
<1>5. {j \in Clients : held'[j] = o} = {j \in Clients : held[j] = o} \ {k}
  BY <1>1
<1>6. \A p \in Object \ {o} :
        {j \in Clients : held'[j] = p} = {j \in Clients : held[j] = p}
  BY <1>1 DEF Object, Null, Classes, Info, Audio, Video
<1>7. k \in Holders(o) /\ Holders(o)' = Holders(o) \ {k}
  <2>1. k \in Holders(o) /\ k # "plugin" /\ k # "configure"
    BY <1>1, ClientsAssumption DEF Holders
  <2>2. ({h \in {"plugin"} : PluginHolds(o)} \cup {h \in {"configure"} : ConfigureHolds(o)})
          \cap {k} = {}
    BY <2>1
  <2>3. Holders(o)' = ({j \in Clients : held[j] = o} \ {k})
                      \cup {h \in {"plugin"} : PluginHolds(o)}
                      \cup {h \in {"configure"} : ConfigureHolds(o)}
    BY <1>1, <1>3, <1>4, <1>5 DEF Holders
  <2> QED
    BY <2>1, <2>2, <2>3 DEF Holders
<1>8. ASSUME NEW p \in Object \ {o} PROVE Holders(p)' = Holders(p)
  <2>1. {h \in {"plugin"} : PluginHolds(p)}' = {h \in {"plugin"} : PluginHolds(p)}
    BY <1>3
  <2>2. {h \in {"configure"} : ConfigureHolds(p)}' = {h \in {"configure"} : ConfigureHolds(p)}
    BY <1>4
  <2>3. {j \in Clients : held'[j] = p} = {j \in Clients : held[j] = p}
    BY <1>6
  <2> QED
    BY <2>1, <2>2, <2>3, Zenon DEF Holders
<1> QED
  BY <1>0, <1>1, <1>2, <1>7, <1>8 DEF Leaves, OthersKeep

(* A client joins a live object, or meets one that is destroyed: that one  *)
(* was released and its pointer is about to be cleared.                    *)
LEMMA AcquireJoins ==
  ASSUME "root" \notin Faults, Control, Counting, Pointers,
         NEW k \in Clients, NEW c \in Classes, Acquire(k, c)
  PROVE  /\ \/ Healthy' /\ \E o \in Object : Joins(o, k) /\ Rooted(o)
            \/ /\ pc' = "destroyedAccess" /\ refs' = refs
               /\ \E o \in Object : refs[o] = 0 /\ OthersKeep(o)
         /\ Healthy
         /\ \A p \in Object : Rooted(p)' = Rooted(p)
<1> USE DEF Control, TypeControl, PointerControl, ShellControl, Healthy, Undefined,
        framework, plugin, Acquire, Object, Null
<1>0. PICK o : o = ptr[c]
  OBVIOUS
<1>1. o \in Object /\ refs \in [Object -> Nat]
  BY <1>0 DEF Counting
<1>2. CASE refs[o] > 0
  <2>0. gen' = gen /\ pc' = pc
    BY <1>0, <1>2
  <2>1. \A p \in Object : Rooted(p)' = Rooted(p)
    BY <2>0 DEF Rooted, UntilRoot
  <2>2. refs' = [refs EXCEPT ![o] = @ + 1]
    BY <1>0, <1>2
  <2>3. k \notin Holders(o) /\ Holders(o)' = Holders(o) \cup {k}
    BY <1>0, <1>1, <1>2, ClientsAssumption DEF Holders, PluginHolds, ConfigureHolds
  <2>4. OthersKeep(o)
    BY <1>0, <1>2, ClientsAssumption DEF OthersKeep, Holders, PluginHolds, ConfigureHolds
  <2> QED
    BY <1>0, <1>1, <1>2, <2>1, <2>2, <2>3, <2>4, CountedIsRooted DEF Joins, Holder
<1>3. CASE ~(refs[o] > 0)
  <2>1. refs[o] = 0 /\ refs' = refs /\ pc' = "destroyedAccess"
    BY <1>0, <1>1, <1>3
  <2>2. "plugin" \notin Holders(o)
    BY <1>1, <2>1, HeldIsCounted DEF Counting, Covered
  <2>3. pc = ClearStep(c) /\ ptr[c][1] = c
    BY <1>0, <2>2 DEF Holders, PluginHolds
  <2>4. \A p \in Object : Rooted(p)' = Rooted(p)
    <3>1. pc \notin {"rootInfo", "rootAudio", "rootVideo"}
      BY <2>3 DEF ClearStep, Classes, Info, Audio, Video
    <3>2. gen' = gen /\ pc' \notin {"rootInfo", "rootAudio", "rootVideo"}
      BY <2>1
    <3> QED
      BY <3>1, <3>2 DEF Rooted, UntilRoot, Classes, Info, Audio, Video
  <2>5. ASSUME NEW p \in Object \ {o} PROVE Holders(p)' = Holders(p)
    <3>1. {h \in {"plugin"} : PluginHolds(p)}' = {h \in {"plugin"} : PluginHolds(p)}
      BY <1>0, <2>1, <2>3 DEF PluginHolds, ClearStep, Classes, Info, Audio, Video
    <3>2. {h \in {"configure"} : ConfigureHolds(p)}'
            = {h \in {"configure"} : ConfigureHolds(p)}
      BY <1>0, <2>1, <2>3
      DEF ConfigureHolds, ConfigureControl, OwnedSteps, AudioCleanup, VideoCleanup, Current,
          ClearStep, Classes, Info, Audio, Video
    <3>3. held' = held
      BY <1>0, <1>3
    <3> QED
      BY <3>1, <3>2, <3>3, Zenon DEF Holders
  <2> QED
    BY <1>1, <2>1, <2>4, <2>5 DEF OthersKeep
<1> QED
  BY <1>0, <1>2, <1>3

(* The query that finds an implementation without its shell finds it in    *)
(* the middle of Initialize, where it changes nothing else.                *)
LEMMA UnsetServiceKeeps ==
  ASSUME "root" \notin Faults, Control, Pointers, UsersLive, UnsetOnlyBefore,
         NEW o \in Object, UnsetService(o)
  PROVE  /\ Keeps /\ \A p \in Object : Rooted(p)' = Rooted(p)
         /\ Healthy /\ pc' # "destroyedAccess"
<1> USE DEF Healthy, Undefined, InitSteps, DeinitSteps, framework, plugin, users, counts,
        Keeps, Holders, PluginHolds, ConfigureHolds, ClearStep, UnsetService
<1>1. CASE Mode # "Off"
  BY <1>1 DEF ProcessEnds, Rooted, UntilRoot
<1>2. CASE Mode = "Off"
  <2>1. o # Null /\ refs[o] > 0
    BY DEF UsersLive, Object, Null, Classes, Info, Audio, Video
  <2>2. /\ pc \in {"rootAudio", "rootVideo", "query", "configure"}
        /\ pc' = "nullService"
        /\ UNCHANGED <<refs, ptr, configure, held, gen, shell>>
    BY <1>2, <2>1 DEF UnsetOnlyBefore
  <2>3. Keeps
    <3>1. ASSUME NEW p \in Object
          PROVE  PluginHolds(p)' = PluginHolds(p) /\ ConfigureHolds(p)' = ConfigureHolds(p)
      <4>1. p[1] \in Classes
        BY DEF Object
      <4> QED
        BY <2>2, <4>1 DEF Classes, Info, Audio, Video
    <3> HIDE DEF PluginHolds, ConfigureHolds
    <3> QED
      BY <2>2, <3>1
  <2>4. \A p \in Object : Rooted(p)' = Rooted(p)
    <3> SUFFICES ASSUME NEW p \in Object, p[2] = gen
                 PROVE  Rooted(p)' = Rooted(p)
      BY <2>2 DEF Rooted
    <3>1. p = <<p[1], gen>> /\ p[1] \in Classes /\ p # Null
      BY DEF Object, Null, Classes, Info, Audio, Video
    <3>2. IF pc \in SetSteps(p[1]) \/ shell = "ACTIVATED" THEN Current(p[1])
                                                         ELSE ptr[p[1]] = Null
      BY <3>1 DEF Pointers
    <3>3. ptr[p[1]] = p <=> pc \notin UntilRoot(p[1])
      BY <2>2, <3>1, <3>2
      DEF SetSteps, AfterRoot, OwnedSteps, AudioCleanup, VideoCleanup, Current, UntilRoot,
          Classes, Info, Audio, Video, Control, ShellControl
    <3> QED
      BY <2>2, <3>3 DEF Rooted
  <2> QED
    BY <2>2, <2>3, <2>4
<1> QED
  BY <1>1, <1>2

(* A quiet step neither meets a destroyed object nor heals anything.       *)
Harmless == /\ pc' = "destroyedAccess" <=> pc = "destroyedAccess"
            /\ Healthy' => Healthy

LEMMA QuietIsHarmless ==
  ASSUME Quiet
  PROVE  Harmless
<1> USE DEF Harmless, Transition, Healthy, Undefined, vars
<1>1. CASE Activate \/ Deactivate \/ RootsFailed \/ Configure \/ Register
           \/ InitializeReturns \/ Deinitialize
  BY <1>1 DEF Activate, Deactivate, RootsFailed, Configure, Register, InitializeReturns,
       Deinitialize
<1>2. CASE RemoteConnection \/ Terminate \/ DeinitializeReturns
  BY <1>2 DEF RemoteConnection, Terminate, DeinitializeReturns
<1>3. ASSUME NEW c \in Classes, Unregistering(c) \/ Draining(c)
      PROVE  Harmless
  BY <1>3 DEF Unregistering, Draining, Unregister, Drain
<1>4. ASSUME NEW w \in Workers, Respond(w) \/ \E c \in Classes : Invoke(w, c)
      PROVE  Harmless
  BY <1>4 DEF Respond, Invoke
<1>5. ASSUME NEW o \in Object, Crash(o) \/ Exit(o)
      PROVE  Harmless
  BY <1>5 DEF Crash, Exit
<1> QED
  BY <1>1, <1>2, <1>3, <1>4, <1>5 DEF Quiet

(* The four kinds of steps.                                                *)
Made(S) == \A p \in Object \ S : Rooted(p)' = Rooted(p)

Keeping == Keeps /\ Made({}) /\ Harmless

Joining == /\ Healthy /\ Healthy'
           /\ \E o \in Object, h \in Holder : Joins(o, h) /\ Made({o}) /\ Rooted(o)'

Leaving == /\ Healthy /\ Healthy'
           /\ \E o \in Object, h \in Holder : Leaves(o, h) /\ Made({})

Failing == /\ Healthy /\ pc' = "destroyedAccess" /\ refs' = refs /\ Made({})
           /\ \E o \in Object : refs[o] = 0 /\ OthersKeep(o)

LEMMA StepKinds ==
  ASSUME "root" \notin Faults, Control, Counting, Pointers, UsersLive, UnsetOnlyBefore,
         [Next]_vars
  PROVE  Keeping \/ Joining \/ Leaving \/ Failing
<1> USE DEF Made, Harmless
<1>1. CASE Quiet
  BY <1>1, QuietKeeps, QuietIsHarmless DEF Keeping
<1>2. ASSUME NEW c \in Classes, Rooting(c)
      PROVE  Joining
  BY <1>2, RootingJoins DEF Joining, Holder
<1>3. ASSUME NEW o \in Object, NEW h \in Holder, Joins(o, h), Rooted(o),
             \A p \in Object : Rooted(p)' = Rooted(p), Healthy, Healthy'
      PROVE  Joining
  BY <1>3 DEF Joining
<1>4. CASE QueryConfiguration
  BY <1>3, <1>4, QueryJoins DEF Keeping, Holder, Healthy, Undefined
<1>5. ASSUME NEW c \in Classes, Releasing(c)
      PROVE  Leaving
  BY <1>5, ReleasingLeaves DEF Leaving, Holder
<1>6. ASSUME NEW c \in Classes, Clearing(c)
      PROVE  Keeping
  BY <1>6, ClearingKeeps DEF Keeping, Healthy, Undefined
<1>7. CASE ReleaseConfigure
  BY <1>7, ReleaseConfigureLeaves DEF Leaving, Keeping, Healthy, Undefined, Holder
<1>8. ASSUME NEW k \in Clients, Drop(k)
      PROVE  Leaving
  BY <1>8, DropLeaves DEF Leaving, Holder
<1>9. ASSUME NEW k \in Clients, NEW c \in Classes, Acquire(k, c)
      PROVE  Joining \/ Failing
  BY <1>3, <1>9, AcquireJoins DEF Failing, Holder
<1>10. ASSUME NEW o \in Object, UnsetService(o)
       PROVE  Keeping
  BY <1>10, UnsetServiceKeeps DEF Keeping, Healthy, Undefined
<1> QED
  BY <1>1, <1>2, <1>4, <1>5, <1>6, <1>7, <1>8, <1>9, <1>10, StepCases

-----------------------------------------------------------------------------
(* The counts are exact.                                                   *)

(* A holder that comes or leaves is one member more or less.               *)
LEMMA HoldersCount ==
  ASSUME NEW S \in SUBSET Holder, NEW h \in Holder
  PROVE  /\ IsFiniteSet(S) /\ Cardinality(S) \in Nat
         /\ h \notin S => Cardinality(S \cup {h}) = Cardinality(S) + 1
         /\ h \in S => Cardinality(S \ {h}) = Cardinality(S) - 1
BY FewerHolders, FS_AddElement, FS_RemoveElement

(* Every step counts exactly the holders it adds and those that leave.     *)
LEMMA ExactStep ==
  ASSUME "root" \notin Faults, Control, Counting, Pointers, UsersLive, UnsetOnlyBefore,
         ReferencesExact, [Next]_vars
  PROVE  ReferencesExact'
<1> SUFFICES ASSUME Healthy', NEW p \in Object
             PROVE  refs'[p] <= Cardinality(Holders(p)')
  BY DEF ReferencesExact
<1>1. refs \in [Object -> Nat]
  BY DEF Counting
<1>2. CASE Keeping
  BY <1>2 DEF Keeping, Harmless, Keeps, ReferencesExact
<1>3. CASE Joining
  <2>1. PICK o \in Object, h \in Holder : Joins(o, h)
    BY <1>3 DEF Joining
  <2>2. refs[p] <= Cardinality(Holders(p)) /\ Cardinality(Holders(p)) \in Nat
    BY <1>3, HoldersAreHolder, FewerHolders DEF Joining, ReferencesExact
  <2>3. CASE p # o
    BY <1>1, <2>1, <2>2, <2>3 DEF Joins, OthersKeep
  <2>4. CASE p = o
    <3>1. refs'[p] = refs[p] + 1
      BY <1>1, <2>1, <2>4 DEF Joins
    <3>2. h \notin Holders(p) /\ Holders(p)' = Holders(p) \cup {h}
      BY <2>1, <2>4 DEF Joins
    <3> QED
      BY <1>1, <2>2, <3>1, <3>2, HoldersAreHolder, HoldersCount
  <2> QED
    BY <2>3, <2>4
<1>4. CASE Leaving
  <2>1. PICK o \in Object, h \in Holder : Leaves(o, h)
    BY <1>4 DEF Leaving
  <2>2. refs[p] <= Cardinality(Holders(p)) /\ Cardinality(Holders(p)) \in Nat
    BY <1>4, HoldersAreHolder, FewerHolders DEF Leaving, ReferencesExact
  <2>3. CASE p # o
    BY <1>1, <2>1, <2>2, <2>3 DEF Leaves, OthersKeep
  <2>4. CASE p = o
    <3>1. refs'[p] = refs[p] - 1
      BY <1>1, <2>1, <2>4 DEF Leaves
    <3>2. h \in Holders(p) /\ Holders(p)' = Holders(p) \ {h}
      BY <2>1, <2>4 DEF Leaves
    <3> QED
      BY <1>1, <2>2, <3>1, <3>2, HoldersAreHolder, HoldersCount
  <2> QED
    BY <2>3, <2>4
<1>5. CASE Failing
  BY <1>5 DEF Failing, Healthy, Undefined
<1> QED
  BY <1>2, <1>3, <1>4, <1>5, StepKinds

(* No reference is counted that nobody holds, in every reachable state.    *)
THEOREM ReferencesAreExact == "root" \notin Faults => (Spec => []ReferencesExact)
<1> SUFFICES ASSUME "root" \notin Faults
             PROVE  Spec => []ReferencesExact
  OBVIOUS
<1>1. Init => ReferencesExact
  <2>1. ASSUME Init, NEW o \in Object
        PROVE  refs[o] = 0 /\ Cardinality(Holders(o)) \in Nat
    BY <2>1, HoldersAreHolder, FewerHolders DEF Init
  <2> QED
    BY <2>1 DEF ReferencesExact
<1>2. Control /\ Counting /\ Pointers /\ UsersLive /\ UnsetOnlyBefore /\ ReferencesExact
        /\ [Next]_vars => ReferencesExact'
  BY ExactStep
<1> QED
  BY <1>1, <1>2, ControlInvariant, CountingInvariant, PointersInvariant, UsersStayLive,
     UnsetOnlyBeforeConfigure, PTL
  DEF Spec

(* Once the plugin is deactivated and no client holds anything, nothing is *)
(* left: no object, no handler, and no reference to the shell but the      *)
(* framework's own.                                                        *)
THEOREM NothingIsLeft == "root" \notin Faults => (Spec => []NothingLeaks)
<1> SUFFICES ASSUME "root" \notin Faults
             PROVE  Spec => []NothingLeaks
  OBVIOUS
<1>1. ASSUME Control, Counting, Shell, Pointers, ReferencesExact
      PROVE  NothingLeaks
  <2> SUFFICES ASSUME pc = "idle", shell = "DEACTIVATED", \A k \in Clients : held[k] = Null
               PROVE  /\ \A o \in Object : refs[o] = 0
                      /\ \A c \in Classes : registered[c] = Null
                      /\ configured = {} /\ shellRefs = 1
    BY DEF NothingLeaks
  <2>1. Healthy
    BY DEF Healthy, Undefined
  <2>2. \A c \in Classes : ptr[c] = Null /\ registered[c] = Null
    BY <1>1, <2>1
    DEF Pointers, SetSteps, AfterRoot, OwnedSteps, AudioCleanup, VideoCleanup, InitSteps,
        DeinitSteps, Classes, Info, Audio, Video, Control, RegistrationControl
  <2>3. \A o \in Object : o # Null /\ o[1] \in Classes
    BY DEF Object, Null, Classes, Info, Audio, Video
  <2>4. \A o \in Object : Holders(o) = {}
    BY <2>2, <2>3 DEF Holders, PluginHolds, ConfigureHolds
  <2>5. \A o \in Object : refs[o] = 0
    BY <1>1, <2>1, <2>4, FS_EmptySet DEF Counting, ReferencesExact
  <2>6. configured = {}
    BY <1>1, <2>5 DEF Shell, ShellReferences
  <2>7. shellRefs = 1
    BY <1>1, <2>6, FS_EmptySet DEF Shell, ShellReferences, Control, ShellControl
  <2> QED
    BY <2>2, <2>5, <2>6, <2>7
<1> QED
  BY <1>1, ControlInvariant, CountingInvariant, ShellInvariant, PointersInvariant,
     ReferencesAreExact, PTL

-----------------------------------------------------------------------------
(* The refinement of ObjectOwnership.                                      *)

(* The mapping of the two variables of ObjectOwnership.                    *)
HoldersOf == [o \in Object |-> Holding(o)]
Gone      == {o \in Object : Rooted(o) /\ refs[o] = 0}

(* Counting everything that is needed.                                     *)
Owned == Control /\ Counting /\ Pointers /\ UsersLive /\ UnsetOnlyBefore /\ ReferencesExact

(* Who holds an object is what its count says.                             *)
LEMMA CountsAreHolders ==
  ASSUME Owned, Healthy, NEW o \in Object
  PROVE  /\ refs[o] \in Nat /\ Holding(o) = Holders(o)
         /\ refs[o] = 0 <=> Holders(o) = {}
         /\ \A h \in Holders(o) : refs[o] = 1 <=> Holders(o) = {h}
<1>1. /\ refs[o] \in Nat /\ refs[o] = Cardinality(Holders(o))
      /\ IsFiniteSet(Holders(o)) /\ Holders(o) \subseteq Holder
  BY HoldersAreHolder, FewerHolders DEF Owned, Counting, ReferencesCovered, ReferencesExact
<1>2. Holding(o) = Holders(o)
  BY DEF Holding, Healthy, Undefined
<1>3. refs[o] = 0 <=> Holders(o) = {}
  BY <1>1, FS_EmptySet
<1>4. ASSUME NEW h \in Holders(o)
      PROVE  refs[o] = 1 <=> Holders(o) = {h}
  <2>1. IsFiniteSet(Holders(o) \ {h}) /\ Cardinality(Holders(o) \ {h}) = refs[o] - 1
    BY <1>1, <1>4, FS_RemoveElement
  <2>2. Cardinality(Holders(o) \ {h}) = 0 <=> Holders(o) \ {h} = {}
    BY <2>1, FS_EmptySet
  <2> QED
    BY <1>1, <1>4, <2>1, <2>2
<1> QED
  BY <1>1, <1>2, <1>3, <1>4

(* A step that changes no holder and makes or destroys nothing stutters.   *)
LEMMA KeepingStutters ==
  ASSUME Keeping
  PROVE  HoldersOf' = HoldersOf /\ Gone' = Gone
<1>1. \A o \in Object : Holding(o)' = Holding(o)
  BY DEF Keeping, Keeps, Harmless, Holding
<1>2. \A o \in Object : Rooted(o)' = Rooted(o) /\ refs'[o] = refs[o]
  BY DEF Keeping, Keeps, Made
<1> QED
  BY <1>1, <1>2 DEF HoldersOf, Gone

(* So does the query that finds its object destroyed.                      *)
LEMMA FailingStutters ==
  ASSUME Owned, Failing
  PROVE  HoldersOf' = HoldersOf /\ Gone' = Gone
<1>1. PICK o \in Object : refs[o] = 0 /\ OthersKeep(o)
  BY DEF Failing
<1>2. ASSUME NEW p \in Object PROVE Holding(p)' = Holding(p)
  <2>1. /\ Holding(p) = Holders(p)
        /\ refs[p] = 0 <=> Holders(p) = {}
    BY CountsAreHolders DEF Failing
  <2>2. CASE refs[p] = 0
    BY <2>1, <2>2 DEF Failing, Holding
  <2>3. CASE refs[p] # 0
    BY <1>1, <2>1, <2>3 DEF Failing, Holding, OthersKeep
  <2> QED
    BY <2>2, <2>3
<1>3. \A p \in Object : Rooted(p)' = Rooted(p) /\ refs'[p] = refs[p]
  BY DEF Failing, Made
<1> QED
  BY <1>2, <1>3 DEF HoldersOf, Gone

(* A holder that joins creates the object or is granted it.                *)
LEMMA JoiningIsOwnership ==
  ASSUME Owned, Joining
  PROVE  Ownership!Next
<1>1. PICK o \in Object, h \in Holder : Joins(o, h) /\ Made({o}) /\ Rooted(o)'
  BY DEF Joining
<1>2. \A p \in Object : /\ refs[p] \in Nat /\ Holding(p) = Holders(p)
                        /\ refs[p] = 0 <=> Holders(p) = {}
  BY CountsAreHolders DEF Joining
<1>3. \A p \in Object : Holding(p)' = Holders(p)'
  BY DEF Joining, Holding, Healthy, Undefined
<1>4. refs \in [Object -> Nat]
  BY DEF Owned, Counting
<1>5. refs'[o] = refs[o] + 1 /\ \A p \in Object \ {o} : refs'[p] = refs[p]
  BY <1>1, <1>4 DEF Joins
<1>6. HoldersOf' = [HoldersOf EXCEPT ![o] = @ \cup {h}]
  BY <1>1, <1>2, <1>3 DEF HoldersOf, Joins, OthersKeep
<1>7. HoldersOf[o] = Holders(o) /\ h \notin Holders(o)
  BY <1>1, <1>2 DEF HoldersOf, Joins
<1>8. Gone' = Gone
  BY <1>1, <1>2, <1>5 DEF Gone, Made, Joins
<1>9. HoldersOf'[o] # HoldersOf[o]
  BY <1>6, <1>7 DEF HoldersOf
<1>10. CASE refs[o] > 0
  <2>1. Ownership!Grant(o, h)
    BY <1>2, <1>6, <1>7, <1>8, <1>10
    DEF Ownership!Grant, Ownership!Live, HoldersOf, Gone
  <2> QED
    BY <1>9, <2>1 DEF Ownership!Next, HoldersOf
<1>11. CASE refs[o] = 0
  <2>1. HoldersOf[o] = {} /\ HoldersOf' = [HoldersOf EXCEPT ![o] = {h}]
    BY <1>2, <1>6, <1>7, <1>11
  <2>2. o \notin Gone
    BY <1>1, <1>11 DEF Joins, Gone
  <2>3. Ownership!Create(o, h)
    BY <1>8, <2>1, <2>2 DEF Ownership!Create, Ownership!Live, HoldersOf, Gone
  <2> QED
    BY <1>9, <2>3 DEF Ownership!Next, HoldersOf
<1> QED
  BY <1>2, <1>10, <1>11

(* A holder that leaves gives the object back, and the last one ends it.   *)
LEMMA LeavingIsOwnership ==
  ASSUME Owned, Leaving
  PROVE  Ownership!Next
<1>1. PICK o \in Object, h \in Holder : Leaves(o, h) /\ Made({})
  BY DEF Leaving
<1>2. \A p \in Object : refs[p] \in Nat /\ Holding(p) = Holders(p)
  BY CountsAreHolders DEF Leaving
<1>3. \A p \in Object : Holding(p)' = Holders(p)'
  BY DEF Leaving, Holding, Healthy, Undefined
<1>4. refs \in [Object -> Nat]
  BY DEF Owned, Counting
<1>5. refs'[o] = refs[o] - 1 /\ \A p \in Object \ {o} : refs'[p] = refs[p]
  BY <1>1, <1>4 DEF Leaves
<1>6. HoldersOf' = [HoldersOf EXCEPT ![o] = @ \ {h}]
  BY <1>1, <1>2, <1>3 DEF HoldersOf, Leaves, OthersKeep
<1>7. HoldersOf[o] = Holders(o) /\ h \in Holders(o)
  BY <1>1, <1>2 DEF HoldersOf, Leaves
<1>8. (refs[o] = 1 <=> Holders(o) = {h}) /\ refs[o] # 0
  BY <1>7, CountsAreHolders DEF Leaving
<1>9. Rooted(o) /\ \A p \in Object : Rooted(p)' = Rooted(p)
  BY <1>1, <1>2, <1>8, CountedIsRooted DEF Owned, Made, Leaving
<1>10. Gone' = IF HoldersOf[o] = {h} THEN Gone \cup {o} ELSE Gone
  <2>1. CASE refs[o] = 1
    BY <1>2, <1>5, <1>7, <1>8, <1>9, <2>1 DEF Gone
  <2>2. CASE refs[o] # 1
    BY <1>2, <1>5, <1>7, <1>8, <1>9, <2>2 DEF Gone
  <2> QED
    BY <2>1, <2>2
<1>11. HoldersOf'[o] # HoldersOf[o]
  BY <1>6, <1>7 DEF HoldersOf
<1>12. Ownership!GiveBack(o, h)
  BY <1>6, <1>7, <1>10 DEF Ownership!GiveBack, HoldersOf, Gone
<1> QED
  BY <1>11, <1>12 DEF Ownership!Next, HoldersOf

(* The plugin implements ownership: its reference counts make an object    *)
(* end with its last holder, never before, never later, and for good.      *)
THEOREM PluginImplementsOwnership == "root" \notin Faults => (Spec => OwnershipImplemented)
<1> SUFFICES ASSUME "root" \notin Faults
             PROVE  Spec => OwnershipImplemented
  OBVIOUS
<1>1. ASSUME Init PROVE Ownership!Init
  <2>1. \A o \in Object : o # Null /\ ~Rooted(o)
    BY <1>1 DEF Init, Rooted, Object, Null, Classes, Info, Audio, Video
  <2>2. \A o \in Object : Holders(o) = {}
    BY <1>1, <2>1
    DEF Init, Holders, PluginHolds, ConfigureHolds, Object, Classes
  <2>3. HoldersOf = [o \in Object |-> {}] /\ Gone = {}
    BY <1>1, <2>1, <2>2 DEF Init, HoldersOf, Holding, Gone
  <2> QED
    BY <2>3 DEF Ownership!Init, HoldersOf, Gone
<1>2. ASSUME Owned, [Next]_vars PROVE [Ownership!Next]_(Ownership!vars)
  <2>1. Keeping \/ Joining \/ Leaving \/ Failing
    BY <1>2, StepKinds DEF Owned
  <2>2. CASE Keeping \/ Failing
    <3>1. HoldersOf' = HoldersOf /\ Gone' = Gone
      BY <1>2, <2>2, KeepingStutters, FailingStutters
    <3> QED
      BY <3>1 DEF Ownership!vars, HoldersOf, Gone
  <2> QED
    BY <1>2, <2>1, <2>2, JoiningIsOwnership, LeavingIsOwnership
<1>3. Control /\ Counting /\ Pointers /\ UsersLive /\ UnsetOnlyBefore /\ ReferencesExact
        => Owned
  BY DEF Owned
<1> QED
  BY <1>1, <1>2, <1>3, ControlInvariant, CountingInvariant, PointersInvariant,
     UsersStayLive, UnsetOnlyBeforeConfigure, ReferencesAreExact, PTL
  DEF Spec, OwnershipImplemented, Ownership!Spec
=============================================================================
