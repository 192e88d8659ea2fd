----------------------- MODULE DeviceInfoPlugin_proofs -----------------------
(***************************************************************************)
(* Proofs about DeviceInfoPlugin, for every mode, every set of clients and *)
(* workers, every number of activations and every set of faults.           *)
(*                                                                         *)
(* Three layers, each inductive given the ones before it: where the        *)
(* framework thread is and what the pointers are there (Control), the      *)
(* reference counts (Counting), and the references to the shell (Shell).   *)
(***************************************************************************)
EXTENDS DeviceInfoPlugin, FiniteSetTheorems, TLAPS

-----------------------------------------------------------------------------
(* The first layer: control.                                               *)

AudioCleanup == {"unregisterAudio", "drainAudio", "releaseAudio", "clearAudio"}
VideoCleanup == {"unregisterVideo", "drainVideo", "releaseVideo", "clearVideo"}

(* The steps that come after Root of class c.                              *)
AfterRoot(c) ==
  DeinitSteps \cup
  (CASE c = Info  -> InitSteps \ {"rootInfo"}
     [] c = Audio -> InitSteps \ {"rootInfo", "rootAudio"}
     [] c = Video -> InitSteps \ {"rootInfo", "rootAudio", "rootVideo"})

(* The steps at which the pointer of class c is surely set.                *)
OwnedSteps(c) ==
  {"configure", "register"} \cup AudioCleanup \cup
  (CASE c = Info  -> VideoCleanup \cup {"unregisterInfo", "drainInfo", "releaseConfigure",
                                        "remoteConnection", "releaseInfo", "clearInfo"}
     [] c = Audio -> {}
     [] c = Video -> VideoCleanup)

(* The steps of Deinitialize at which configure is not released yet.       *)
BeforeReleaseConfigure ==
  AudioCleanup \cup VideoCleanup \cup {"unregisterInfo", "drainInfo", "releaseConfigure"}

(* The steps at which a handler of class c may be registered.              *)
RegisteredSteps(c) ==
  {"return", "idle", "deinit"} \cup
  (CASE c = Info  -> AudioCleanup \cup VideoCleanup \cup {"unregisterInfo"}
     [] c = Audio -> {"unregisterAudio"}
     [] c = Video -> AudioCleanup \cup {"unregisterVideo"})

DrainStep(c) == CASE c = Info  -> "drainInfo"
                  [] c = Audio -> "drainAudio"
                  [] c = Video -> "drainVideo"

Current(c) == ptr[c] = <<c, gen>>

TypeControl ==
  /\ shell \in {"DEACTIVATED", "ACTIVATION", "ACTIVATED", "DEACTIVATION"}
  /\ gen \in 0 .. MaxActivations
  /\ pc \in {"idle"} \cup InitSteps \cup DeinitSteps \cup Undefined
  /\ message \in BOOLEAN /\ service \in BOOLEAN
  /\ connectionId \in Object \cup {Null}
  /\ ptr \in [Classes -> Object \cup {Null}]
  /\ configure \in Object \cup {Null}
  /\ connection \in Object \cup {Null}
  /\ registered \in [Classes -> Object \cup {Null}]
  /\ held \in [Clients -> Object \cup {Null}]
  /\ call \in [Workers -> Object \cup {Null}]

ShellControl ==
  /\ pc \in InitSteps => shell = "ACTIVATION"
  /\ pc \in DeinitSteps => shell = "DEACTIVATION"
  /\ pc = "idle" => shell \in {"DEACTIVATED", "ACTIVATED"}
  /\ shell # "DEACTIVATED" => gen # 0
  /\ shell # "DEACTIVATED" <=> service
  /\ shell = "ACTIVATED" => ~message

PointerControl ==
  \A c \in Classes :
    /\ ptr[c] # Null => ptr[c][1] = c /\ ptr[c][2] <= gen
    /\ pc \in AfterRoot(c) => ptr[c] = Null \/ Current(c)
    /\ pc \in OwnedSteps(c) => Current(c)
    /\ shell = "ACTIVATED" => Current(c)
    /\ pc = "return" /\ ~message => Current(c)

ConfigureControl ==
  /\ configure # Null => configure[1] = Info /\ configure[2] <= gen
  /\ pc = "configure" => configure = <<Info, gen>>
  /\ pc \in {"register"} \cup BeforeReleaseConfigure
       => configure = <<Info, gen>> \/ (configure = Null /\ message)
  /\ pc \in {"return", "deinit"} /\ AllRooted
       => configure = <<Info, gen>> \/ (configure = Null /\ message)
  /\ shell = "ACTIVATED" => configure = <<Info, gen>>
  /\ pc = "nullDereference" => message

RegistrationControl ==
  /\ pc \in {"idle", "return"} /\ ~message /\ shell # "DEACTIVATED" => registered = ptr
  /\ Healthy => \A c \in Classes :
       registered[c] # Null =>
         /\ registered[c] = <<c, gen>> /\ Current(c)
         /\ pc \in RegisteredSteps(c)
         /\ pc = "idle" => shell = "ACTIVATED"
         /\ pc \in {"return", "deinit"} => AllRooted
  /\ Healthy => \A w \in Workers :
       call[w] # Null =>
         /\ call[w] = ptr[call[w][1]] /\ Current(call[w][1])
         /\ call[w][1] \in Classes
         /\ pc \in (RegisteredSteps(call[w][1]) \ {"return"}) \cup {DrainStep(call[w][1])}
         /\ pc = "idle" => shell = "ACTIVATED"
         /\ pc = "deinit" => AllRooted

Control == TypeControl /\ ShellControl /\ PointerControl /\ ConfigureControl
           /\ RegistrationControl

(* Every step keeps the control variables in their types.                  *)
LEMMA TypeControlStep ==
  ASSUME Control, [Next]_vars
  PROVE  TypeControl'
<1> USE DEF Control, TypeControl, ShellControl, Transition, ReleaseRef,
        Unconfigure, StoreShell, ProcessEnds, framework, plugin, counts, users,
        Object, Null, Classes, Info, Audio, Video, InitSteps, DeinitSteps,
        Undefined, AllRooted
<1>1. CASE Activate
  <2>1. gen' \in 0 .. MaxActivations
    BY <1>1, ActivationAssumption DEF Activate
  <2> QED
    BY <1>1, <2>1 DEF Activate
<1>2. CASE Deactivate
  BY <1>2 DEF Deactivate
<1>3. CASE Root(Info, "rootInfo", "rootAudio")
  BY <1>3 DEF Root, Construct
<1>4. CASE Root(Audio, "rootAudio", "rootVideo")
  BY <1>4 DEF Root, Construct
<1>5. CASE Root(Video, "rootVideo", "query")
  BY <1>5 DEF Root, Construct
<1>6. CASE RootsFailed
  BY <1>6 DEF RootsFailed
<1>7. CASE QueryConfiguration
  BY <1>7 DEF QueryConfiguration
<1>8. CASE Configure
  BY <1>8 DEF Configure
<1>9. CASE Register
  BY <1>9 DEF Register
<1>10. CASE InitializeReturns
  BY <1>10 DEF InitializeReturns
<1>11. CASE Deinitialize
  BY <1>11 DEF Deinitialize
<1>12. CASE Unregister(Audio, "unregisterAudio", "drainAudio")
  BY <1>12 DEF Unregister
<1>13. CASE Drain(Audio, "drainAudio", "releaseAudio")
  BY <1>13 DEF Drain
<1>14. CASE Release(Audio, "releaseAudio", "clearAudio")
  BY <1>14 DEF Release
<1>15. CASE Clear(Audio, "clearAudio", "unregisterVideo")
  BY <1>15 DEF Clear
<1>16. CASE Unregister(Video, "unregisterVideo", "drainVideo")
  BY <1>16 DEF Unregister
<1>17. CASE Drain(Video, "drainVideo", "releaseVideo")
  BY <1>17 DEF Drain
<1>18. CASE Release(Video, "releaseVideo", "clearVideo")
  BY <1>18 DEF Release
<1>19. CASE Clear(Video, "clearVideo", "unregisterInfo")
  BY <1>19 DEF Clear
<1>20. CASE Unregister(Info, "unregisterInfo", "drainInfo")
  BY <1>20 DEF Unregister
<1>21. CASE Drain(Info, "drainInfo", "releaseConfigure")
  BY <1>21 DEF Drain
<1>22. CASE Release(Info, "releaseInfo", "clearInfo")
  BY <1>22 DEF Release
<1>23. CASE Clear(Info, "clearInfo", "terminate")
  BY <1>23 DEF Clear
<1>24. CASE ReleaseConfigure
  BY <1>24 DEF ReleaseConfigure
<1>25. CASE RemoteConnection
  BY <1>25 DEF RemoteConnection
<1>26. CASE Terminate
  BY <1>26 DEF Terminate
<1>27. CASE DeinitializeReturns
  BY <1>27 DEF DeinitializeReturns
<1>28. ASSUME NEW k \in Clients, Drop(k)
      PROVE  TypeControl'
  BY <1>28 DEF Drop
<1>29. ASSUME NEW k \in Clients, NEW c \in Classes, Acquire(k, c)
      PROVE  TypeControl'
  BY <1>29 DEF Acquire
<1>30. ASSUME NEW w \in Workers, Respond(w)
      PROVE  TypeControl'
  BY <1>30 DEF Respond
<1>31. ASSUME NEW w \in Workers, NEW c \in Classes, Invoke(w, c)
      PROVE  TypeControl'
  BY <1>31 DEF Invoke
<1>32. ASSUME NEW o \in Object, Crash(o)
      PROVE  TypeControl'
  BY <1>32 DEF Crash
<1>33. ASSUME NEW o \in Object, Exit(o)
      PROVE  TypeControl'
  BY <1>33 DEF Exit
<1>34. CASE UNCHANGED vars
  BY <1>34 DEF vars
<1>35. ASSUME NEW o \in Object, UnsetService(o)
      PROVE  TypeControl'
  BY <1>35 DEF UnsetService
<1> HIDE DEF Control, TypeControl, ShellControl, Transition, ReleaseRef,
         Unconfigure, StoreShell, ProcessEnds, framework, plugin, counts, users,
         Object, Null, Classes, Info, Audio, Video, InitSteps, DeinitSteps,
         Undefined, AllRooted
<1> QED
  BY <1>1, <1>2, <1>3, <1>4, <1>5, <1>6, <1>7, <1>8, <1>9, <1>10, <1>11, <1>12,
     <1>13, <1>14, <1>15, <1>16, <1>17, <1>18, <1>19, <1>20, <1>21, <1>22,
     <1>23, <1>24, <1>25, <1>26, <1>27, <1>28, <1>29, <1>30, <1>31, <1>32,
     <1>33, <1>34, <1>35
  DEF Next, FrameworkThread

(* The position of the framework thread and the state of the shell agree.  *)
LEMMA ShellControlStep ==
  ASSUME Control, [Next]_vars
  PROVE  ShellControl'
<1> USE DEF Control, TypeControl, ShellControl, ConfigureControl, Healthy,
        Transition, ReleaseRef, Unconfigure, StoreShell, ProcessEnds,
        framework, plugin, counts, users, Object, Null, Classes, Info, Audio,
        Video, InitSteps, DeinitSteps, Undefined, AllRooted
<1>1. CASE Activate
  BY <1>1 DEF Activate
<1>2. CASE Deactivate
  BY <1>2 DEF Deactivate
<1>3. CASE Root(Info, "rootInfo", "rootAudio")
  BY <1>3 DEF Root, Construct
<1>4. CASE Root(Audio, "rootAudio", "rootVideo")
  BY <1>4 DEF Root, Construct
<1>5. CASE Root(Video, "rootVideo", "query")
  BY <1>5 DEF Root, Construct
<1>6. CASE RootsFailed
  BY <1>6 DEF RootsFailed
<1>7. CASE QueryConfiguration
  BY <1>7 DEF QueryConfiguration
<1>8. CASE Configure
  BY <1>8 DEF Configure
<1>9. CASE Register
  BY <1>9 DEF Register
<1>10. CASE InitializeReturns
  BY <1>10 DEF InitializeReturns
<1>11. CASE Deinitialize
  BY <1>11 DEF Deinitialize
<1>12. CASE Unregister(Audio, "unregisterAudio", "drainAudio")
  BY <1>12 DEF Unregister
<1>13. CASE Drain(Audio, "drainAudio", "releaseAudio")
  BY <1>13 DEF Drain
<1>14. CASE Release(Audio, "releaseAudio", "clearAudio")
  BY <1>14 DEF Release
<1>15. CASE Clear(Audio, "clearAudio", "unregisterVideo")
  BY <1>15 DEF Clear
<1>16. CASE Unregister(Video, "unregisterVideo", "drainVideo")
  BY <1>16 DEF Unregister
<1>17. CASE Drain(Video, "drainVideo", "releaseVideo")
  BY <1>17 DEF Drain
<1>18. CASE Release(Video, "releaseVideo", "clearVideo")
  BY <1>18 DEF Release
<1>19. CASE Clear(Video, "clearVideo", "unregisterInfo")
  BY <1>19 DEF Clear
<1>20. CASE Unregister(Info, "unregisterInfo", "drainInfo")
  BY <1>20 DEF Unregister
<1>21. CASE Drain(Info, "drainInfo", "releaseConfigure")
  BY <1>21 DEF Drain
<1>22. CASE Release(Info, "releaseInfo", "clearInfo")
  BY <1>22 DEF Release
<1>23. CASE Clear(Info, "clearInfo", "terminate")
  BY <1>23 DEF Clear
<1>24. CASE ReleaseConfigure
  BY <1>24 DEF ReleaseConfigure
<1>25. CASE RemoteConnection
  BY <1>25 DEF RemoteConnection
<1>26. CASE Terminate
  BY <1>26 DEF Terminate
<1>27. CASE DeinitializeReturns
  BY <1>27 DEF DeinitializeReturns
<1>28. ASSUME NEW k \in Clients, Drop(k)
      PROVE  ShellControl'
  BY <1>28 DEF Drop
<1>29. ASSUME NEW k \in Clients, NEW c \in Classes, Acquire(k, c)
      PROVE  ShellControl'
  BY <1>29 DEF Acquire
<1>30. ASSUME NEW w \in Workers, Respond(w)
      PROVE  ShellControl'
  BY <1>30 DEF Respond
<1>31. ASSUME NEW w \in Workers, NEW c \in Classes, Invoke(w, c)
      PROVE  ShellControl'
  BY <1>31 DEF Invoke
<1>32. ASSUME NEW o \in Object, Crash(o)
      PROVE  ShellControl'
  BY <1>32 DEF Crash
<1>33. ASSUME NEW o \in Object, Exit(o)
      PROVE  ShellControl'
  BY <1>33 DEF Exit
<1>34. CASE UNCHANGED vars
  BY <1>34 DEF vars
<1>35. ASSUME NEW o \in Object, UnsetService(o)
      PROVE  ShellControl'
  BY <1>35 DEF UnsetService
<1> HIDE DEF Control, TypeControl, ShellControl, ConfigureControl, Healthy,
         Transition, ReleaseRef, Unconfigure, StoreShell, ProcessEnds,
         framework, plugin, counts, users, Object, Null, Classes, Info, Audio,
         Video, InitSteps, DeinitSteps, Undefined, AllRooted
<1> QED
  BY <1>1, <1>2, <1>3, <1>4, <1>5, <1>6, <1>7, <1>8, <1>9, <1>10, <1>11, <1>12,
     <1>13, <1>14, <1>15, <1>16, <1>17, <1>18, <1>19, <1>20, <1>21, <1>22,
     <1>23, <1>24, <1>25, <1>26, <1>27, <1>28, <1>29, <1>30, <1>31, <1>32,
     <1>33, <1>34, <1>35
  DEF Next, FrameworkThread

(* The pointers are what the steps behind the framework thread made them.  *)
LEMMA PointerControlStep ==
  ASSUME Control, [Next]_vars
  PROVE  PointerControl'
<1> USE DEF Control, TypeControl, ShellControl, PointerControl,
        ConfigureControl, Healthy, AfterRoot, OwnedSteps, Current,
        AudioCleanup, VideoCleanup, Transition, ReleaseRef, Unconfigure,
        StoreShell, ProcessEnds, framework, plugin, counts, users, Object,
        Null, Classes, Info, Audio, Video, InitSteps, DeinitSteps, Undefined,
        AllRooted
<1>1. CASE Activate
  BY <1>1 DEF Activate
<1>2. CASE Deactivate
  BY <1>2 DEF Deactivate
<1>3. CASE Root(Info, "rootInfo", "rootAudio")
  BY <1>3 DEF Root, Construct
<1>4. CASE Root(Audio, "rootAudio", "rootVideo")
  BY <1>4 DEF Root, Construct
<1>5. CASE Root(Video, "rootVideo", "query")
  BY <1>5 DEF Root, Construct
<1>6. CASE RootsFailed
  BY <1>6 DEF RootsFailed
<1>7. CASE QueryConfiguration
  BY <1>7 DEF QueryConfiguration
<1>8. CASE Configure
  BY <1>8 DEF Configure
<1>9. CASE Register
  BY <1>9 DEF Register
<1>10. CASE InitializeReturns
  BY <1>10 DEF InitializeReturns
<1>11. CASE Deinitialize
  BY <1>11 DEF Deinitialize
<1>12. CASE Unregister(Audio, "unregisterAudio", "drainAudio")
  BY <1>12 DEF Unregister
<1>13. CASE Drain(Audio, "drainAudio", "releaseAudio")
  BY <1>13 DEF Drain
<1>14. CASE Release(Audio, "releaseAudio", "clearAudio")
  BY <1>14 DEF Release
<1>15. CASE Clear(Audio, "clearAudio", "unregisterVideo")
  BY <1>15 DEF Clear
<1>16. CASE Unregister(Video, "unregisterVideo", "drainVideo")
  BY <1>16 DEF Unregister
<1>17. CASE Drain(Video, "drainVideo", "releaseVideo")
  BY <1>17 DEF Drain
<1>18. CASE Release(Video, "releaseVideo", "clearVideo")
  BY <1>18 DEF Release
<1>19. CASE Clear(Video, "clearVideo", "unregisterInfo")
  BY <1>19 DEF Clear
<1>20. CASE Unregister(Info, "unregisterInfo", "drainInfo")
  BY <1>20 DEF Unregister
<1>21. CASE Drain(Info, "drainInfo", "releaseConfigure")
  BY <1>21 DEF Drain
<1>22. CASE Release(Info, "releaseInfo", "clearInfo")
  BY <1>22 DEF Release
<1>23. CASE Clear(Info, "clearInfo", "terminate")
  BY <1>23 DEF Clear
<1>24. CASE ReleaseConfigure
  BY <1>24 DEF ReleaseConfigure
<1>25. CASE RemoteConnection
  BY <1>25 DEF RemoteConnection
<1>26. CASE Terminate
  BY <1>26 DEF Terminate
<1>27. CASE DeinitializeReturns
  BY <1>27 DEF DeinitializeReturns
<1>28. ASSUME NEW k \in Clients, Drop(k)
      PROVE  PointerControl'
  BY <1>28 DEF Drop
<1>29. ASSUME NEW k \in Clients, NEW c \in Classes, Acquire(k, c)
      PROVE  PointerControl'
  BY <1>29 DEF Acquire
<1>30. ASSUME NEW w \in Workers, Respond(w)
      PROVE  PointerControl'
  BY <1>30 DEF Respond
<1>31. ASSUME NEW w \in Workers, NEW c \in Classes, Invoke(w, c)
      PROVE  PointerControl'
  BY <1>31 DEF Invoke
<1>32. ASSUME NEW o \in Object, Crash(o)
      PROVE  PointerControl'
  BY <1>32 DEF Crash
<1>33. ASSUME NEW o \in Object, Exit(o)
      PROVE  PointerControl'
  BY <1>33 DEF Exit
<1>34. CASE UNCHANGED vars
  BY <1>34 DEF vars
<1>35. ASSUME NEW o \in Object, UnsetService(o)
      PROVE  PointerControl'
  BY <1>35 DEF UnsetService
<1> HIDE DEF Control, TypeControl, ShellControl, PointerControl,
         ConfigureControl, Healthy, AfterRoot, OwnedSteps, Current,
         AudioCleanup, VideoCleanup, Transition, ReleaseRef, Unconfigure,
         StoreShell, ProcessEnds, framework, plugin, counts, users, Object,
         Null, Classes, Info, Audio, Video, InitSteps, DeinitSteps, Undefined,
         AllRooted
<1> QED
  BY <1>1, <1>2, <1>3, <1>4, <1>5, <1>6, <1>7, <1>8, <1>9, <1>10, <1>11, <1>12,
     <1>13, <1>14, <1>15, <1>16, <1>17, <1>18, <1>19, <1>20, <1>21, <1>22,
     <1>23, <1>24, <1>25, <1>26, <1>27, <1>28, <1>29, <1>30, <1>31, <1>32,
     <1>33, <1>34, <1>35
  DEF Next, FrameworkThread

(* configure is the second reference to the current implementation, or     *)
(* null in an activation that has an error to report.                      *)
LEMMA ConfigureControlStep ==
  ASSUME Control, [Next]_vars
  PROVE  ConfigureControl'
<1> USE DEF Control, TypeControl, ShellControl, PointerControl,
        ConfigureControl, Healthy, AfterRoot, OwnedSteps, Current,
        BeforeReleaseConfigure, AudioCleanup, VideoCleanup, Transition,
        ReleaseRef, Unconfigure, StoreShell, ProcessEnds, framework, plugin,
        counts, users, Object, Null, Classes, Info, Audio, Video, InitSteps,
        DeinitSteps, Undefined, AllRooted
<1>1. CASE Activate
  BY <1>1 DEF Activate
<1>2. CASE Deactivate
  BY <1>2 DEF Deactivate
<1>3. CASE Root(Info, "rootInfo", "rootAudio")
  BY <1>3 DEF Root, Construct
<1>4. CASE Root(Audio, "rootAudio", "rootVideo")
  BY <1>4 DEF Root, Construct
<1>5. CASE Root(Video, "rootVideo", "query")
  BY <1>5 DEF Root, Construct
<1>6. CASE RootsFailed
  BY <1>6 DEF RootsFailed
<1>7. CASE QueryConfiguration
  BY <1>7 DEF QueryConfiguration
<1>8. CASE Configure
  BY <1>8 DEF Configure
<1>9. CASE Register
  BY <1>9 DEF Register
<1>10. CASE InitializeReturns
  BY <1>10 DEF InitializeReturns
<1>11. CASE Deinitialize
  BY <1>11 DEF Deinitialize
<1>12. CASE Unregister(Audio, "unregisterAudio", "drainAudio")
  BY <1>12 DEF Unregister
<1>13. CASE Drain(Audio, "drainAudio", "releaseAudio")
  BY <1>13 DEF Drain
<1>14. CASE Release(Audio, "releaseAudio", "clearAudio")
  BY <1>14 DEF Release
<1>15. CASE Clear(Audio, "clearAudio", "unregisterVideo")
  BY <1>15 DEF Clear
<1>16. CASE Unregister(Video, "unregisterVideo", "drainVideo")
  BY <1>16 DEF Unregister
<1>17. CASE Drain(Video, "drainVideo", "releaseVideo")
  BY <1>17 DEF Drain
<1>18. CASE Release(Video, "releaseVideo", "clearVideo")
  BY <1>18 DEF Release
<1>19. CASE Clear(Video, "clearVideo", "unregisterInfo")
  BY <1>19 DEF Clear
<1>20. CASE Unregister(Info, "unregisterInfo", "drainInfo")
  BY <1>20 DEF Unregister
<1>21. CASE Drain(Info, "drainInfo", "releaseConfigure")
  BY <1>21 DEF Drain
<1>22. CASE Release(Info, "releaseInfo", "clearInfo")
  BY <1>22 DEF Release
<1>23. CASE Clear(Info, "clearInfo", "terminate")
  BY <1>23 DEF Clear
<1>24. CASE ReleaseConfigure
  BY <1>24 DEF ReleaseConfigure
<1>25. CASE RemoteConnection
  BY <1>25 DEF RemoteConnection
<1>26. CASE Terminate
  BY <1>26 DEF Terminate
<1>27. CASE DeinitializeReturns
  BY <1>27 DEF DeinitializeReturns
<1>28. ASSUME NEW k \in Clients, Drop(k)
      PROVE  ConfigureControl'
  BY <1>28 DEF Drop
<1>29. ASSUME NEW k \in Clients, NEW c \in Classes, Acquire(k, c)
      PROVE  ConfigureControl'
  BY <1>29 DEF Acquire
<1>30. ASSUME NEW w \in Workers, Respond(w)
      PROVE  ConfigureControl'
  BY <1>30 DEF Respond
<1>31. ASSUME NEW w \in Workers, NEW c \in Classes, Invoke(w, c)
      PROVE  ConfigureControl'
  BY <1>31 DEF Invoke
<1>32. ASSUME NEW o \in Object, Crash(o)
      PROVE  ConfigureControl'
  BY <1>32 DEF Crash
<1>33. ASSUME NEW o \in Object, Exit(o)
      PROVE  ConfigureControl'
  BY <1>33 DEF Exit
<1>34. CASE UNCHANGED vars
  BY <1>34 DEF vars
<1>35. ASSUME NEW o \in Object, UnsetService(o)
      PROVE  ConfigureControl'
  BY <1>35 DEF UnsetService
<1> HIDE DEF Control, TypeControl, ShellControl, PointerControl,
         ConfigureControl, Healthy, AfterRoot, OwnedSteps, Current,
         BeforeReleaseConfigure, AudioCleanup, VideoCleanup, Transition,
         ReleaseRef, Unconfigure, StoreShell, ProcessEnds, framework, plugin,
         counts, users, Object, Null, Classes, Info, Audio, Video, InitSteps,
         DeinitSteps, Undefined, AllRooted
<1> QED
  BY <1>1, <1>2, <1>3, <1>4, <1>5, <1>6, <1>7, <1>8, <1>9, <1>10, <1>11, <1>12,
     <1>13, <1>14, <1>15, <1>16, <1>17, <1>18, <1>19, <1>20, <1>21, <1>22,
     <1>23, <1>24, <1>25, <1>26, <1>27, <1>28, <1>29, <1>30, <1>31, <1>32,
     <1>33, <1>34, <1>35
  DEF Next, FrameworkThread

(* Handlers are registered, and run, only for the current implementations  *)
(* and only until Deinitialize has drained them.                           *)
LEMMA RegistrationControlStep ==
  ASSUME Control, [Next]_vars
  PROVE  RegistrationControl'
<1> USE DEF Control, TypeControl, ShellControl, PointerControl,
        RegistrationControl, Healthy, AfterRoot, OwnedSteps, Current,
        RegisteredSteps, DrainStep, AudioCleanup, VideoCleanup, Transition,
        ReleaseRef, Unconfigure, StoreShell, ProcessEnds, framework, plugin,
        counts, users, Object, Null, Classes, Info, Audio, Video, InitSteps,
        DeinitSteps, Undefined, AllRooted
<1>1. CASE Activate
  BY <1>1 DEF Activate
<1>2. CASE Deactivate
  BY <1>2 DEF Deactivate
<1>3. CASE Root(Info, "rootInfo", "rootAudio")
  BY <1>3 DEF Root, Construct
<1>4. CASE Root(Audio, "rootAudio", "rootVideo")
  BY <1>4 DEF Root, Construct
<1>5. CASE Root(Video, "rootVideo", "query")
  BY <1>5 DEF Root, Construct
<1>6. CASE RootsFailed
  BY <1>6 DEF RootsFailed
<1>7. CASE QueryConfiguration
  BY <1>7 DEF QueryConfiguration
<1>8. CASE Configure
  BY <1>8 DEF Configure
<1>9. CASE Register
  BY <1>9 DEF Register
<1>10. CASE InitializeReturns
  BY <1>10 DEF InitializeReturns
<1>11. CASE Deinitialize
  BY <1>11 DEF Deinitialize
<1>12. CASE Unregister(Audio, "unregisterAudio", "drainAudio")
  BY <1>12 DEF Unregister
<1>13. CASE Drain(Audio, "drainAudio", "releaseAudio")
  BY <1>13 DEF Drain
<1>14. CASE Release(Audio, "releaseAudio", "clearAudio")
  BY <1>14 DEF Release
<1>15. CASE Clear(Audio, "clearAudio", "unregisterVideo")
  BY <1>15 DEF Clear
<1>16. CASE Unregister(Video, "unregisterVideo", "drainVideo")
  BY <1>16 DEF Unregister
<1>17. CASE Drain(Video, "drainVideo", "releaseVideo")
  BY <1>17 DEF Drain
<1>18. CASE Release(Video, "releaseVideo", "clearVideo")
  BY <1>18 DEF Release
<1>19. CASE Clear(Video, "clearVideo", "unregisterInfo")
  BY <1>19 DEF Clear
<1>20. CASE Unregister(Info, "unregisterInfo", "drainInfo")
  BY <1>20 DEF Unregister
<1>21. CASE Drain(Info, "drainInfo", "releaseConfigure")
  BY <1>21 DEF Drain
<1>22. CASE Release(Info, "releaseInfo", "clearInfo")
  BY <1>22 DEF Release
<1>23. CASE Clear(Info, "clearInfo", "terminate")
  BY <1>23 DEF Clear
<1>24. CASE ReleaseConfigure
  BY <1>24 DEF ReleaseConfigure
<1>25. CASE RemoteConnection
  BY <1>25 DEF RemoteConnection
<1>26. CASE Terminate
  BY <1>26 DEF Terminate
<1>27. CASE DeinitializeReturns
  BY <1>27 DEF DeinitializeReturns
<1>28. ASSUME NEW k \in Clients, Drop(k)
      PROVE  RegistrationControl'
  BY <1>28 DEF Drop
<1>29. ASSUME NEW k \in Clients, NEW c \in Classes, Acquire(k, c)
      PROVE  RegistrationControl'
  BY <1>29 DEF Acquire
<1>30. ASSUME NEW w \in Workers, Respond(w)
      PROVE  RegistrationControl'
  BY <1>30 DEF Respond
<1>31. ASSUME NEW w \in Workers, NEW c \in Classes, Invoke(w, c)
      PROVE  RegistrationControl'
  BY <1>31 DEF Invoke
<1>32. ASSUME NEW o \in Object, Crash(o)
      PROVE  RegistrationControl'
  BY <1>32 DEF Crash
<1>33. ASSUME NEW o \in Object, Exit(o)
      PROVE  RegistrationControl'
  BY <1>33 DEF Exit
<1>34. CASE UNCHANGED vars
  BY <1>34 DEF vars
<1>35. ASSUME NEW o \in Object, UnsetService(o)
      PROVE  RegistrationControl'
  BY <1>35 DEF UnsetService
<1> HIDE DEF Control, TypeControl, ShellControl, PointerControl,
         RegistrationControl, Healthy, AfterRoot, OwnedSteps, Current,
         RegisteredSteps, DrainStep, AudioCleanup, VideoCleanup, Transition,
         ReleaseRef, Unconfigure, StoreShell, ProcessEnds, framework, plugin,
         counts, users, Object, Null, Classes, Info, Audio, Video, InitSteps,
         DeinitSteps, Undefined, AllRooted
<1> QED
  BY <1>1, <1>2, <1>3, <1>4, <1>5, <1>6, <1>7, <1>8, <1>9, <1>10, <1>11, <1>12,
     <1>13, <1>14, <1>15, <1>16, <1>17, <1>18, <1>19, <1>20, <1>21, <1>22,
     <1>23, <1>24, <1>25, <1>26, <1>27, <1>28, <1>29, <1>30, <1>31, <1>32,
     <1>33, <1>34, <1>35
  DEF Next, FrameworkThread

(* The control layer holds in every reachable state.                       *)
THEOREM ControlInvariant == Spec => []Control
<1>1. ASSUME Init PROVE Control
  <2>1. TypeControl
    <3>1. gen \in 0 .. MaxActivations
      BY <1>1, ActivationAssumption DEF Init
    <3> QED
      BY <1>1, <3>1 DEF Init, TypeControl
  <2>2. ShellControl
    BY <1>1 DEF Init, ShellControl, InitSteps, DeinitSteps
  <2>3. PointerControl
    BY <1>1
    DEF Init, PointerControl, AfterRoot, OwnedSteps, AudioCleanup, VideoCleanup,
        InitSteps, DeinitSteps, Classes, Info, Audio, Video
  <2>4. ConfigureControl
    BY <1>1
    DEF Init, ConfigureControl, BeforeReleaseConfigure, AudioCleanup, VideoCleanup
  <2>5. RegistrationControl
    BY <1>1 DEF Init, RegistrationControl
  <2> QED
    BY <2>1, <2>2, <2>3, <2>4, <2>5 DEF Control
<1>2. Control /\ [Next]_vars => Control'
  BY TypeControlStep, ShellControlStep, PointerControlStep, ConfigureControlStep,
     RegistrationControlStep
  DEF Control
<1> QED
  BY <1>1, <1>2, PTL DEF Spec

-----------------------------------------------------------------------------
(* The second layer: an object's count covers its holders.                 *)

(* An object whose Root is still to come has no reference.                 *)
UnbornUncounted ==
  \A o \in Object :
    o[2] > gen \/ (o[2] = gen /\ pc \in InitSteps \ AfterRoot(o[1])) => refs[o] = 0

Counting == refs \in [Object -> Nat] /\ UnbornUncounted /\ ReferencesCovered

(* Sets of holders are finite, and a smaller one has no more members.      *)
LEMMA FewerHolders ==
  ASSUME NEW S \in SUBSET Holder, NEW T \in SUBSET S
  PROVE  /\ IsFiniteSet(S) /\ Cardinality(S) \in Nat /\ Cardinality(T) \in Nat
         /\ Cardinality(T) <= Cardinality(S)
<1>1. IsFiniteSet(Clients \cup {"plugin"})
  BY ClientsAssumption, FS_AddElement
<1>2. IsFiniteSet((Clients \cup {"plugin"}) \cup {"configure"})
  BY <1>1, FS_AddElement
<1>3. IsFiniteSet(S)
  BY <1>2, FS_Subset DEF Holder
<1> QED
  BY <1>3, FS_Subset, FS_CardinalityType

(* One more holder is one more member at most.                             *)
LEMMA OneMoreHolder ==
  ASSUME NEW S \in SUBSET Holder, NEW x, NEW T \in SUBSET (S \cup {x})
  PROVE  Cardinality(T) \in Nat /\ Cardinality(T) <= Cardinality(S) + 1
<1>1. IsFiniteSet(S) /\ Cardinality(S) \in Nat
  BY FewerHolders
<1>2. /\ IsFiniteSet(S \cup {x})
      /\ Cardinality(S \cup {x}) = Cardinality(S)
         \/ Cardinality(S \cup {x}) = Cardinality(S) + 1
  BY <1>1, FS_AddElement
<1>3. /\ Cardinality(T) <= Cardinality(S \cup {x})
      /\ IsFiniteSet(T)
  BY <1>2, FS_Subset
<1> QED
  BY <1>1, <1>2, <1>3, FS_CardinalityType

(* A holder that leaves is one member less.                                *)
LEMMA OneHolderGone ==
  ASSUME NEW S \in SUBSET Holder, NEW x \in S, NEW T \in SUBSET (S \ {x})
  PROVE  /\ Cardinality(S) \in Nat /\ Cardinality(T) \in Nat
         /\ Cardinality(T) + 1 <= Cardinality(S)
<1>1. IsFiniteSet(S) /\ Cardinality(S) \in Nat
  BY FewerHolders
<1>2. /\ IsFiniteSet(S \ {x})
      /\ Cardinality(S \ {x}) = Cardinality(S) - 1
  BY <1>1, FS_RemoveElement
<1>3. Cardinality(T) <= Cardinality(S \ {x}) /\ IsFiniteSet(T)
  BY <1>2, FS_Subset
<1> QED
  BY <1>1, <1>2, <1>3, FS_CardinalityType

(* Holders are clients, the pointer and configure, before and after a step.*)
LEMMA HoldersAreHolder ==
  ASSUME NEW o PROVE Holders(o) \subseteq Holder /\ Holders(o)' \subseteq Holder
BY DEF Holders, Holder

Covered == refs \in [Object -> Nat] /\ ReferencesCovered

(* A step that adds no holder and counts nothing keeps the counts covered. *)
LEMMA KeptCovered ==
  ASSUME Covered, Healthy, refs' = refs,
         \A o \in Object : Holders(o)' \subseteq Holders(o)
  PROVE  Covered'
<1> SUFFICES ASSUME NEW o \in Object PROVE refs[o] >= Cardinality(Holders(o)')
  BY DEF Covered, ReferencesCovered
<1>1. refs[o] >= Cardinality(Holders(o)) /\ refs[o] \in Nat
  BY DEF Covered, ReferencesCovered
<1> QED
  BY <1>1, HoldersAreHolder, FewerHolders

(* A step that adds one holder of o and counts it.                         *)
LEMMA AddCovered ==
  ASSUME Covered, Healthy, NEW o \in Object, NEW h,
         refs' = [refs EXCEPT ![o] = @ + 1],
         \A p \in Object \ {o} : Holders(p)' \subseteq Holders(p),
         Holders(o)' \subseteq Holders(o) \cup {h}
  PROVE  Covered'
<1>1. refs' \in [Object -> Nat]
  BY DEF Covered
<1> SUFFICES ASSUME NEW p \in Object PROVE refs'[p] >= Cardinality(Holders(p)')
  BY <1>1 DEF Covered, ReferencesCovered
<1>2. refs[p] >= Cardinality(Holders(p)) /\ refs[p] \in Nat
  BY DEF Covered, ReferencesCovered
<1>3. CASE p # o
  <2>1. refs'[p] = refs[p] BY <1>3 DEF Covered
  <2> QED BY <1>2, <1>3, <2>1, HoldersAreHolder, FewerHolders
<1>4. CASE p = o
  <2>1. refs'[p] = refs[p] + 1 BY <1>4 DEF Covered
  <2>2. Cardinality(Holders(p)) \in Nat BY HoldersAreHolder, FewerHolders
  <2>3. /\ Cardinality(Holders(p)') \in Nat
        /\ Cardinality(Holders(p)') <= Cardinality(Holders(p)) + 1
    BY <1>4, HoldersAreHolder, OneMoreHolder
  <2> QED BY <1>2, <2>1, <2>2, <2>3
<1> QED
  BY <1>3, <1>4

(* A step in which a holder of o leaves and is counted off.                *)
LEMMA DropCovered ==
  ASSUME Covered, Healthy, NEW o \in Object, NEW h \in Holders(o),
         refs' = [refs EXCEPT ![o] = @ - 1],
         \A p \in Object \ {o} : Holders(p)' \subseteq Holders(p),
         Holders(o)' \subseteq Holders(o) \ {h}
  PROVE  Covered'
<1>1. /\ Cardinality(Holders(o)) \in Nat /\ Cardinality(Holders(o)') \in Nat
      /\ Cardinality(Holders(o)') + 1 <= Cardinality(Holders(o))
  BY HoldersAreHolder, OneHolderGone
<1>2. refs[o] >= Cardinality(Holders(o)) /\ refs[o] \in Nat
  BY DEF Covered, ReferencesCovered
<1>3. refs' \in [Object -> Nat]
  BY <1>1, <1>2 DEF Covered
<1> SUFFICES ASSUME NEW p \in Object PROVE refs'[p] >= Cardinality(Holders(p)')
  BY <1>3 DEF Covered, ReferencesCovered
<1>4. CASE p # o
  <2>1. refs'[p] = refs[p] /\ refs[p] >= Cardinality(Holders(p)) /\ refs[p] \in Nat
    BY <1>4 DEF Covered, ReferencesCovered
  <2> QED BY <1>4, <2>1, HoldersAreHolder, FewerHolders
<1>5. CASE p = o
  <2>1. refs'[p] = refs[p] - 1 BY <1>5 DEF Covered
  <2> QED BY <1>1, <1>2, <1>5, <2>1
<1> QED
  BY <1>4, <1>5

(* A holder's object has a reference.                                      *)
LEMMA HeldIsCounted ==
  ASSUME Covered, Healthy, NEW o \in Object, Holders(o) # {}
  PROVE  refs[o] >= 1
<1>1. PICK h : h \in Holders(o)
  OBVIOUS
<1>2. {} \in SUBSET (Holders(o) \ {h})
  OBVIOUS
<1>3. Cardinality({}) = 0 /\ Cardinality(Holders(o)) \in Nat
      /\ Cardinality({}) + 1 <= Cardinality(Holders(o))
  BY <1>1, <1>2, HoldersAreHolder, OneHolderGone, FS_EmptySet
<1> QED
  BY <1>3 DEF Covered, ReferencesCovered

(* Nobody can count a reference to an object before it is made.            *)
LEMMA UnbornStep ==
  ASSUME Control, Counting, [Next]_vars
  PROVE  UnbornUncounted'
<1> USE DEF Control, TypeControl, ShellControl, PointerControl,
        ConfigureControl, Counting, UnbornUncounted, Healthy, AfterRoot,
        OwnedSteps, Current, AudioCleanup, VideoCleanup, Transition,
        ReleaseRef, Unconfigure, StoreShell, ProcessEnds, framework, plugin,
        counts, users, Object, Null, Classes, Info, Audio, Video, InitSteps,
        DeinitSteps, AllRooted
<1>1. CASE Activate
  BY <1>1 DEF Activate
<1>2. CASE Deactivate
  BY <1>2 DEF Deactivate
<1>3. CASE Root(Info, "rootInfo", "rootAudio")
  BY <1>3 DEF Root, Construct
<1>4. CASE Root(Audio, "rootAudio", "rootVideo")
  BY <1>4 DEF Root, Construct
<1>5. CASE Root(Video, "rootVideo", "query")
  BY <1>5 DEF Root, Construct
<1>6. CASE RootsFailed
  BY <1>6 DEF RootsFailed
<1>7. CASE QueryConfiguration
  BY <1>7 DEF QueryConfiguration
<1>8. CASE Configure
  BY <1>8 DEF Configure
<1>9. CASE Register
  BY <1>9 DEF Register
<1>10. CASE InitializeReturns
  BY <1>10 DEF InitializeReturns
<1>11. CASE Deinitialize
  BY <1>11 DEF Deinitialize
<1>12. CASE Unregister(Audio, "unregisterAudio", "drainAudio")
  BY <1>12 DEF Unregister
<1>13. CASE Drain(Audio, "drainAudio", "releaseAudio")
  BY <1>13 DEF Drain
<1>14. CASE Release(Audio, "releaseAudio", "clearAudio")
  BY <1>14 DEF Release
<1>15. CASE Clear(Audio, "clearAudio", "unregisterVideo")
  BY <1>15 DEF Clear
<1>16. CASE Unregister(Video, "unregisterVideo", "drainVideo")
  BY <1>16 DEF Unregister
<1>17. CASE Drain(Video, "drainVideo", "releaseVideo")
  BY <1>17 DEF Drain
<1>18. CASE Release(Video, "releaseVideo", "clearVideo")
  BY <1>18 DEF Release
<1>19. CASE Clear(Video, "clearVideo", "unregisterInfo")
  BY <1>19 DEF Clear
<1>20. CASE Unregister(Info, "unregisterInfo", "drainInfo")
  BY <1>20 DEF Unregister
<1>21. CASE Drain(Info, "drainInfo", "releaseConfigure")
  BY <1>21 DEF Drain
<1>22. CASE Release(Info, "releaseInfo", "clearInfo")
  BY <1>22 DEF Release
<1>23. CASE Clear(Info, "clearInfo", "terminate")
  BY <1>23 DEF Clear
<1>24. CASE ReleaseConfigure
  BY <1>24 DEF ReleaseConfigure
<1>25. CASE RemoteConnection
  BY <1>25 DEF RemoteConnection
<1>26. CASE Terminate
  BY <1>26 DEF Terminate
<1>27. CASE DeinitializeReturns
  BY <1>27 DEF DeinitializeReturns
<1>28. ASSUME NEW k \in Clients, Drop(k)
      PROVE  UnbornUncounted'
  <2>1. held[k] \in Object /\ k \in Holders(held[k])
    BY <1>28 DEF Drop, Holders
  <2>2. refs[held[k]] >= 1
    BY <1>28, <2>1, HeldIsCounted DEF Drop, Covered
  <2> QED
    BY <1>28, <2>1, <2>2 DEF Drop
<1>29. ASSUME NEW k \in Clients, NEW c \in Classes, Acquire(k, c)
      PROVE  UnbornUncounted'
  BY <1>29 DEF Acquire
<1>30. ASSUME NEW w \in Workers, Respond(w)
      PROVE  UnbornUncounted'
  BY <1>30 DEF Respond
<1>31. ASSUME NEW w \in Workers, NEW c \in Classes, Invoke(w, c)
      PROVE  UnbornUncounted'
  BY <1>31 DEF Invoke
<1>32. ASSUME NEW o \in Object, Crash(o)
      PROVE  UnbornUncounted'
  BY <1>32 DEF Crash
<1>33. ASSUME NEW o \in Object, Exit(o)
      PROVE  UnbornUncounted'
  BY <1>33 DEF Exit
<1>34. CASE UNCHANGED vars
  BY <1>34 DEF vars
<1>35. ASSUME NEW o \in Object, UnsetService(o)
      PROVE  UnbornUncounted'
  BY <1>35 DEF UnsetService
<1> HIDE DEF Control, TypeControl, ShellControl, PointerControl,
         ConfigureControl, Counting, UnbornUncounted, Healthy, AfterRoot,
         OwnedSteps, Current, AudioCleanup, VideoCleanup, Transition,
         ReleaseRef, Unconfigure, StoreShell, ProcessEnds, framework, plugin,
         counts, users, Object, Null, Classes, Info, Audio, Video, InitSteps,
         DeinitSteps, AllRooted
<1> QED
  BY <1>1, <1>2, <1>3, <1>4, <1>5, <1>6, <1>7, <1>8, <1>9, <1>10, <1>11, <1>12,
     <1>13, <1>14, <1>15, <1>16, <1>17, <1>18, <1>19, <1>20, <1>21, <1>22,
     <1>23, <1>24, <1>25, <1>26, <1>27, <1>28, <1>29, <1>30, <1>31, <1>32,
     <1>33, <1>34, <1>35
  DEF Next, FrameworkThread

(* Every step counts the holders it adds, and discounts only those that    *)
(* leave.                                                                  *)
LEMMA CoveredStep ==
  ASSUME Control, Counting, Covered, [Next]_vars
  PROVE  Covered'
<1> USE DEF Control, TypeControl, ShellControl, PointerControl,
        ConfigureControl, Healthy, AfterRoot, OwnedSteps,
        BeforeReleaseConfigure, Current, AudioCleanup, VideoCleanup,
        Transition, ReleaseRef, Unconfigure, StoreShell, ProcessEnds,
        framework, plugin, counts, users, Object, Null, Classes, Info, Audio,
        Video, InitSteps, DeinitSteps, Undefined, AllRooted
<1>1. CASE Activate
  <2>1. \A o \in Object : Holders(o)' \subseteq Holders(o)
    BY <1>1 DEF Activate, Holders, PluginHolds, ConfigureHolds, ClearStep
  <2> QED
    BY <1>1, <2>1, KeptCovered DEF Activate
<1>2. CASE Deactivate
  <2>1. \A o \in Object : Holders(o)' \subseteq Holders(o)
    BY <1>2 DEF Deactivate, Holders, PluginHolds, ConfigureHolds, ClearStep
  <2> QED
    BY <1>2, <2>1, KeptCovered DEF Deactivate
<1>3. CASE Root(Info, "rootInfo", "rootAudio")
  <2>0. PICK o : o = <<Info, gen>>
    OBVIOUS
  <2>1. CASE ptr' = [ptr EXCEPT ![Info] = Null] /\ refs' = refs
    <3>1. \A p \in Object : Holders(p)' \subseteq Holders(p)
      BY <1>3, <2>1 DEF Root, Construct, Holders, PluginHolds, ConfigureHolds, ClearStep
    <3> QED
      BY <1>3, <2>1, <3>1, KeptCovered DEF Root, Construct
  <2>2. CASE ptr' = [ptr EXCEPT ![Info] = o] /\ refs' = [refs EXCEPT ![o] = 1]
    <3>1. o \in Object /\ refs[o] = 0
      BY <1>3, <2>0 DEF Root, Construct, Counting, UnbornUncounted
    <3>2. refs' = [refs EXCEPT ![o] = @ + 1]
      BY <2>2, <3>1 DEF Covered
    <3>3. /\ \A p \in Object \ {o} : Holders(p)' \subseteq Holders(p)
          /\ Holders(o)' \subseteq Holders(o) \cup {"plugin"}
      BY <1>3, <2>0, <2>2 DEF Root, Construct, Holders, PluginHolds, ConfigureHolds, ClearStep
    <3> QED
      BY <1>3, <3>1, <3>2, <3>3, AddCovered DEF Root, Construct
  <2> QED
    BY <1>3, <2>0, <2>1, <2>2 DEF Root, Construct
<1>4. CASE Root(Audio, "rootAudio", "rootVideo")
  <2>0. PICK o : o = <<Audio, gen>>
    OBVIOUS
  <2>1. CASE ptr' = [ptr EXCEPT ![Audio] = Null] /\ refs' = refs
    <3>1. \A p \in Object : Holders(p)' \subseteq Holders(p)
      BY <1>4, <2>1 DEF Root, Construct, Holders, PluginHolds, ConfigureHolds, ClearStep
    <3> QED
      BY <1>4, <2>1, <3>1, KeptCovered DEF Root, Construct
  <2>2. CASE ptr' = [ptr EXCEPT ![Audio] = o] /\ refs' = [refs EXCEPT ![o] = 1]
    <3>1. o \in Object /\ refs[o] = 0
      BY <1>4, <2>0 DEF Root, Construct, Counting, UnbornUncounted
    <3>2. refs' = [refs EXCEPT ![o] = @ + 1]
      BY <2>2, <3>1 DEF Covered
    <3>3. /\ \A p \in Object \ {o} : Holders(p)' \subseteq Holders(p)
          /\ Holders(o)' \subseteq Holders(o) \cup {"plugin"}
      BY <1>4, <2>0, <2>2 DEF Root, Construct, Holders, PluginHolds, ConfigureHolds, ClearStep
    <3> QED
      BY <1>4, <3>1, <3>2, <3>3, AddCovered DEF Root, Construct
  <2> QED
    BY <1>4, <2>0, <2>1, <2>2 DEF Root, Construct
<1>5. CASE Root(Video, "rootVideo", "query")
  <2>0. PICK o : o = <<Video, gen>>
    OBVIOUS
  <2>1. CASE ptr' = [ptr EXCEPT ![Video] = Null] /\ refs' = refs
    <3>1. \A p \in Object : Holders(p)' \subseteq Holders(p)
      BY <1>5, <2>1 DEF Root, Construct, Holders, PluginHolds, ConfigureHolds, ClearStep
    <3> QED
      BY <1>5, <2>1, <3>1, KeptCovered DEF Root, Construct
  <2>2. CASE ptr' = [ptr EXCEPT ![Video] = o] /\ refs' = [refs EXCEPT ![o] = 1]
    <3>1. o \in Object /\ refs[o] = 0
      BY <1>5, <2>0 DEF Root, Construct, Counting, UnbornUncounted
    <3>2. refs' = [refs EXCEPT ![o] = @ + 1]
      BY <2>2, <3>1 DEF Covered
    <3>3. /\ \A p \in Object \ {o} : Holders(p)' \subseteq Holders(p)
          /\ Holders(o)' \subseteq Holders(o) \cup {"plugin"}
      BY <1>5, <2>0, <2>2 DEF Root, Construct, Holders, PluginHolds, ConfigureHolds, ClearStep
    <3> QED
      BY <1>5, <3>1, <3>2, <3>3, AddCovered DEF Root, Construct
  <2> QED
    BY <1>5, <2>0, <2>1, <2>2 DEF Root, Construct
<1>6. CASE RootsFailed
  <2>1. \A o \in Object : Holders(o)' \subseteq Holders(o)
    BY <1>6 DEF RootsFailed, Holders, PluginHolds, ConfigureHolds, ClearStep
  <2> QED
    BY <1>6, <2>1, KeptCovered DEF RootsFailed
<1>7. CASE QueryConfiguration
  <2>1. CASE Reachable(ptr[Info])
    <3>1. ptr[Info] \in Object /\ refs' = [refs EXCEPT ![ptr[Info]] = @ + 1]
      BY <1>7, <2>1 DEF QueryConfiguration
    <3>2. /\ \A p \in Object \ {ptr[Info]} : Holders(p)' \subseteq Holders(p)
          /\ Holders(ptr[Info])' \subseteq Holders(ptr[Info]) \cup {"configure"}
      BY <1>7, <2>1 DEF QueryConfiguration, Holders, PluginHolds, ConfigureHolds, ClearStep
    <3> QED
      BY <1>7, <3>1, <3>2, AddCovered DEF QueryConfiguration
  <2>2. CASE ~Reachable(ptr[Info])
    <3>1. \A p \in Object : Holders(p)' \subseteq Holders(p)
      BY <1>7, <2>2 DEF QueryConfiguration, Holders, PluginHolds, ConfigureHolds, ClearStep
    <3> QED
      BY <1>7, <2>2, <3>1, KeptCovered DEF QueryConfiguration
  <2> QED
    BY <2>1, <2>2
<1>8. CASE Configure
  <2>1. \A o \in Object : Holders(o)' \subseteq Holders(o)
    BY <1>8 DEF Configure, Holders, PluginHolds, ConfigureHolds, ClearStep
  <2> QED
    BY <1>8, <2>1, KeptCovered DEF Configure
<1>9. CASE Register
  <2>1. \A o \in Object : Holders(o)' \subseteq Holders(o)
    BY <1>9 DEF Register, Holders, PluginHolds, ConfigureHolds, ClearStep
  <2> QED
    BY <1>9, <2>1, KeptCovered DEF Register
<1>10. CASE InitializeReturns
  <2>1. \A o \in Object : Holders(o)' \subseteq Holders(o)
    BY <1>10 DEF InitializeReturns, Holders, PluginHolds, ConfigureHolds, ClearStep
  <2> QED
    BY <1>10, <2>1, KeptCovered DEF InitializeReturns
<1>11. CASE Deinitialize
  <2>1. \A o \in Object : Holders(o)' \subseteq Holders(o)
    BY <1>11 DEF Deinitialize, Holders, PluginHolds, ConfigureHolds, ClearStep
  <2> QED
    BY <1>11, <2>1, KeptCovered DEF Deinitialize
<1>12. CASE Unregister(Audio, "unregisterAudio", "drainAudio")
  <2>1. \A o \in Object : Holders(o)' \subseteq Holders(o)
    BY <1>12 DEF Unregister, Holders, PluginHolds, ConfigureHolds, ClearStep
  <2> QED
    BY <1>12, <2>1, KeptCovered DEF Unregister
<1>13. CASE Drain(Audio, "drainAudio", "releaseAudio")
  <2>1. \A o \in Object : Holders(o)' \subseteq Holders(o)
    BY <1>13 DEF Drain, Holders, PluginHolds, ConfigureHolds, ClearStep
  <2> QED
    BY <1>13, <2>1, KeptCovered DEF Drain
<1>14. CASE Release(Audio, "releaseAudio", "clearAudio")
  <2>1. ptr[Audio] \in Object /\ "plugin" \in Holders(ptr[Audio])
    BY <1>14 DEF Release, Holders, PluginHolds, ConfigureHolds, ClearStep
  <2>2. /\ \A p \in Object \ {ptr[Audio]} : Holders(p)' \subseteq Holders(p)
        /\ Holders(ptr[Audio])' \subseteq Holders(ptr[Audio]) \ {"plugin"}
    BY <1>14, ClientsAssumption DEF Release, Holders, PluginHolds, ConfigureHolds, ClearStep
  <2>3. refs' = [refs EXCEPT ![ptr[Audio]] = @ - 1]
    BY <1>14 DEF Release
  <2> QED
    BY <1>14, <2>1, <2>2, <2>3, DropCovered DEF Release
<1>15. CASE Clear(Audio, "clearAudio", "unregisterVideo")
  <2>1. \A o \in Object : Holders(o)' \subseteq Holders(o)
    BY <1>15 DEF Clear, Holders, PluginHolds, ConfigureHolds, ClearStep
  <2> QED
    BY <1>15, <2>1, KeptCovered DEF Clear
<1>16. CASE Unregister(Video, "unregisterVideo", "drainVideo")
  <2>1. \A o \in Object : Holders(o)' \subseteq Holders(o)
    BY <1>16 DEF Unregister, Holders, PluginHolds, ConfigureHolds, ClearStep
  <2> QED
    BY <1>16, <2>1, KeptCovered DEF Unregister
<1>17. CASE Drain(Video, "drainVideo", "releaseVideo")
  <2>1. \A o \in Object : Holders(o)' \subseteq Holders(o)
    BY <1>17 DEF Drain, Holders, PluginHolds, ConfigureHolds, ClearStep
  <2> QED
    BY <1>17, <2>1, KeptCovered DEF Drain
<1>18. CASE Release(Video, "releaseVideo", "clearVideo")
  <2>1. ptr[Video] \in Object /\ "plugin" \in Holders(ptr[Video])
    BY <1>18 DEF Release, Holders, PluginHolds, ConfigureHolds, ClearStep
  <2>2. /\ \A p \in Object \ {ptr[Video]} : Holders(p)' \subseteq Holders(p)
        /\ Holders(ptr[Video])' \subseteq Holders(ptr[Video]) \ {"plugin"}
    BY <1>18, ClientsAssumption DEF Release, Holders, PluginHolds, ConfigureHolds, ClearStep
  <2>3. refs' = [refs EXCEPT ![ptr[Video]] = @ - 1]
    BY <1>18 DEF Release
  <2> QED
    BY <1>18, <2>1, <2>2, <2>3, DropCovered DEF Release
<1>19. CASE Clear(Video, "clearVideo", "unregisterInfo")
  <2>1. \A o \in Object : Holders(o)' \subseteq Holders(o)
    BY <1>19 DEF Clear, Holders, PluginHolds, ConfigureHolds, ClearStep
  <2> QED
    BY <1>19, <2>1, KeptCovered DEF Clear
<1>20. CASE Unregister(Info, "unregisterInfo", "drainInfo")
  <2>1. \A o \in Object : Holders(o)' \subseteq Holders(o)
    BY <1>20 DEF Unregister, Holders, PluginHolds, ConfigureHolds, ClearStep
  <2> QED
    BY <1>20, <2>1, KeptCovered DEF Unregister
<1>21. CASE Drain(Info, "drainInfo", "releaseConfigure")
  <2>1. \A o \in Object : Holders(o)' \subseteq Holders(o)
    BY <1>21 DEF Drain, Holders, PluginHolds, ConfigureHolds, ClearStep
  <2> QED
    BY <1>21, <2>1, KeptCovered DEF Drain
<1>22. CASE Release(Info, "releaseInfo", "clearInfo")
  <2>1. ptr[Info] \in Object /\ "plugin" \in Holders(ptr[Info])
    BY <1>22 DEF Release, Holders, PluginHolds, ConfigureHolds, ClearStep
  <2>2. /\ \A p \in Object \ {ptr[Info]} : Holders(p)' \subseteq Holders(p)
        /\ Holders(ptr[Info])' \subseteq Holders(ptr[Info]) \ {"plugin"}
    BY <1>22, ClientsAssumption DEF Release, Holders, PluginHolds, ConfigureHolds, ClearStep
  <2>3. refs' = [refs EXCEPT ![ptr[Info]] = @ - 1]
    BY <1>22 DEF Release
  <2> QED
    BY <1>22, <2>1, <2>2, <2>3, DropCovered DEF Release
<1>23. CASE Clear(Info, "clearInfo", "terminate")
  <2>1. \A o \in Object : Holders(o)' \subseteq Holders(o)
    BY <1>23 DEF Clear, Holders, PluginHolds, ConfigureHolds, ClearStep
  <2> QED
    BY <1>23, <2>1, KeptCovered DEF Clear
<1>24. CASE ReleaseConfigure
  <2>1. CASE configure # Null
    <3>1. configure \in Object /\ "configure" \in Holders(configure)
      BY <1>24, <2>1 DEF ReleaseConfigure, Holders, PluginHolds, ConfigureHolds, ClearStep
    <3>2. /\ \A p \in Object \ {configure} : Holders(p)' \subseteq Holders(p)
          /\ Holders(configure)' \subseteq Holders(configure) \ {"configure"}
      BY <1>24, <2>1, ClientsAssumption DEF ReleaseConfigure, Holders, PluginHolds, ConfigureHolds, ClearStep
    <3>3. refs' = [refs EXCEPT ![configure] = @ - 1]
      BY <1>24, <2>1 DEF ReleaseConfigure
    <3> QED
      BY <1>24, <2>1, <3>1, <3>2, <3>3, DropCovered DEF ReleaseConfigure
  <2>2. CASE configure = Null
    BY <1>24, <2>2 DEF ReleaseConfigure, Covered, ReferencesCovered
  <2> QED
    BY <2>1, <2>2
<1>25. CASE RemoteConnection
  <2>1. \A o \in Object : Holders(o)' \subseteq Holders(o)
    BY <1>25 DEF RemoteConnection, Holders, PluginHolds, ConfigureHolds, ClearStep
  <2> QED
    BY <1>25, <2>1, KeptCovered DEF RemoteConnection
<1>26. CASE Terminate
  <2>1. \A o \in Object : Holders(o)' \subseteq Holders(o)
    BY <1>26 DEF Terminate, Holders, PluginHolds, ConfigureHolds, ClearStep
  <2> QED
    BY <1>26, <2>1, KeptCovered DEF Terminate
<1>27. CASE DeinitializeReturns
  <2>1. \A o \in Object : Holders(o)' \subseteq Holders(o)
    BY <1>27 DEF DeinitializeReturns, Holders, PluginHolds, ConfigureHolds, ClearStep
  <2> QED
    BY <1>27, <2>1, KeptCovered DEF DeinitializeReturns
<1>28. ASSUME NEW k \in Clients, Drop(k)
      PROVE  Covered'
  <2>0. PICK o : o = held[k]
    OBVIOUS
  <2>1. o \in Object /\ k \in Holders(o)
    BY <1>28, <2>0 DEF Drop, Holders, PluginHolds, ConfigureHolds, ClearStep
  <2>2. /\ \A p \in Object \ {o} : Holders(p)' \subseteq Holders(p)
        /\ Holders(o)' \subseteq Holders(o) \ {k}
    BY <1>28, <2>0, ClientsAssumption DEF Drop, Holders, PluginHolds, ConfigureHolds, ClearStep
  <2>3. refs' = [refs EXCEPT ![o] = @ - 1]
    BY <1>28, <2>0 DEF Drop
  <2> QED
    BY <1>28, <2>0, <2>1, <2>2, <2>3, DropCovered DEF Drop
<1>29. ASSUME NEW k \in Clients, NEW c \in Classes, Acquire(k, c)
      PROVE  Covered'
  <2>1. CASE refs[ptr[c]] > 0
    <3>1. ptr[c] \in Object /\ refs' = [refs EXCEPT ![ptr[c]] = @ + 1]
      BY <1>29, <2>1 DEF Acquire
    <3>2. /\ \A p \in Object \ {ptr[c]} : Holders(p)' \subseteq Holders(p)
          /\ Holders(ptr[c])' \subseteq Holders(ptr[c]) \cup {k}
      BY <1>29, <2>1 DEF Acquire, Holders, PluginHolds, ConfigureHolds, ClearStep
    <3> QED
      BY <1>29, <3>1, <3>2, AddCovered DEF Acquire
  <2>2. CASE ~(refs[ptr[c]] > 0)
    BY <1>29, <2>2 DEF Acquire, Covered, ReferencesCovered
  <2> QED
    BY <2>1, <2>2
<1>30. ASSUME NEW w \in Workers, Respond(w)
      PROVE  Covered'
  <2>1. \A o \in Object : Holders(o)' \subseteq Holders(o)
    BY <1>30 DEF Respond, Holders, PluginHolds, ConfigureHolds, ClearStep
  <2> QED
    BY <1>30, <2>1, KeptCovered DEF Respond
<1>31. ASSUME NEW w \in Workers, NEW c \in Classes, Invoke(w, c)
      PROVE  Covered'
  <2>1. \A o \in Object : Holders(o)' \subseteq Holders(o)
    BY <1>31 DEF Invoke, Holders, PluginHolds, ConfigureHolds, ClearStep
  <2> QED
    BY <1>31, <2>1, KeptCovered DEF Invoke
<1>32. ASSUME NEW o \in Object, Crash(o)
      PROVE  Covered'
  <2>1. \A q \in Object : Holders(q)' \subseteq Holders(q)
    BY <1>32 DEF Crash, Holders, PluginHolds, ConfigureHolds, ClearStep
  <2> QED
    BY <1>32, <2>1, KeptCovered DEF Crash
<1>33. ASSUME NEW o \in Object, Exit(o)
      PROVE  Covered'
  <2>1. \A q \in Object : Holders(q)' \subseteq Holders(q)
    BY <1>33 DEF Exit, Holders, PluginHolds, ConfigureHolds, ClearStep
  <2> QED
    BY <1>33, <2>1, KeptCovered DEF Exit
<1>34. CASE UNCHANGED vars
  <2>1. /\ refs' = refs /\ Healthy' = Healthy
        /\ \A o \in Object : Holders(o)' = Holders(o)
    BY <1>34 DEF vars, Holders, PluginHolds, ConfigureHolds
  <2> QED
    BY <2>1 DEF Covered, ReferencesCovered
<1>35. ASSUME NEW o \in Object, UnsetService(o)
      PROVE  Covered'
  <2>1. CASE Mode = "Off"
    BY <1>35, <2>1 DEF UnsetService, Covered, ReferencesCovered
  <2>2. CASE Mode # "Off"
    <3>1. \A q \in Object : Holders(q)' \subseteq Holders(q)
      BY <1>35, <2>2 DEF UnsetService, Holders, PluginHolds, ConfigureHolds, ClearStep
    <3> QED
      BY <1>35, <2>2, <3>1, KeptCovered DEF UnsetService
  <2> QED
    BY <2>1, <2>2
<1> HIDE DEF Control, TypeControl, ShellControl, PointerControl,
         ConfigureControl, Healthy, AfterRoot, OwnedSteps,
         BeforeReleaseConfigure, Current, AudioCleanup, VideoCleanup,
         Transition, ReleaseRef, Unconfigure, StoreShell, ProcessEnds,
         framework, plugin, counts, users, Object, Null, Classes, Info, Audio,
         Video, InitSteps, DeinitSteps, Undefined, AllRooted
<1> QED
  BY <1>1, <1>2, <1>3, <1>4, <1>5, <1>6, <1>7, <1>8, <1>9, <1>10, <1>11, <1>12,
     <1>13, <1>14, <1>15, <1>16, <1>17, <1>18, <1>19, <1>20, <1>21, <1>22,
     <1>23, <1>24, <1>25, <1>26, <1>27, <1>28, <1>29, <1>30, <1>31, <1>32,
     <1>33, <1>34, <1>35
  DEF Next, FrameworkThread

(* The counting layer holds in every reachable state.                      *)
THEOREM CountingInvariant == Spec => []Counting
<1>1. ASSUME Init PROVE Counting
  <2>1. ASSUME NEW o \in Object PROVE Holders(o) = {}
    BY <1>1, <2>1
    DEF Init, Holders, PluginHolds, ConfigureHolds, Object, Null, Classes, Info, Audio,
        Video
  <2> QED
    BY <1>1, <2>1, FS_EmptySet DEF Init, Counting, UnbornUncounted, ReferencesCovered
<1>2. Control /\ Counting /\ [Next]_vars => Counting'
  BY UnbornStep, CoveredStep DEF Counting, Covered
<1> QED
  BY <1>1, <1>2, ControlInvariant, PTL DEF Spec

(* The reference counts cover their holders in every reachable state.      *)
THEOREM ReferencesAreCovered == Spec => []ReferencesCovered
<1>1. Counting => ReferencesCovered
  BY DEF Counting
<1> QED
  BY <1>1, CountingInvariant, PTL

(* A handler runs, a client holds and Initialize configures an object that *)
(* somebody is counted for.                                                *)
UsersLive ==
  Healthy =>
    /\ \A w \in Workers : call[w] # Null => refs[call[w]] > 0
    /\ \A k \in Clients : held[k] # Null => refs[held[k]] > 0
    /\ pc = "configure" => refs[configure] > 0

(* The counts of the second layer keep the users of the objects safe.      *)
LEMMA CountsKeepUsersLive ==
  ASSUME Control, Counting
  PROVE  UsersLive
<1> SUFFICES ASSUME Healthy PROVE UsersLive
  BY DEF UsersLive
<1>1. Covered
  BY DEF Counting, Covered
<1>2. ASSUME NEW w \in Workers, call[w] # Null PROVE refs[call[w]] > 0
  <2>1. call[w] \in Object /\ "plugin" \in Holders(call[w])
    BY <1>2
    DEF Control, TypeControl, RegistrationControl, RegisteredSteps, AudioCleanup,
        VideoCleanup, DrainStep, Holders, PluginHolds, ClearStep, Classes, Info, Audio,
        Video
  <2> QED
    BY <1>1, <2>1, HeldIsCounted DEF Covered
<1>3. ASSUME NEW k \in Clients, held[k] # Null PROVE refs[held[k]] > 0
  <2>1. held[k] \in Object /\ k \in Holders(held[k])
    BY <1>3 DEF Control, TypeControl, Holders
  <2> QED
    BY <1>1, <2>1, HeldIsCounted DEF Covered
<1>4. ASSUME pc = "configure" PROVE refs[configure] > 0
  <2>1. configure \in Object /\ "configure" \in Holders(configure)
    BY <1>4
    DEF Control, TypeControl, ShellControl, InitSteps, ConfigureControl, Holders,
        ConfigureHolds, Object, Null, Info
  <2> QED
    BY <1>1, <2>1, HeldIsCounted DEF Covered
<1> QED
  BY <1>2, <1>3, <1>4 DEF UsersLive

(* Users of an object are counted in every reachable state.                *)
THEOREM UsersStayLive == Spec => []UsersLive
  BY CountsKeepUsersLive, ControlInvariant, CountingInvariant, PTL

(* No JSON-RPC handler ever runs on an object that Deinitialize released.  *)
THEOREM CallsAreSafe == Spec => []CallsOnLiveObjects
<1>1. UsersLive => CallsOnLiveObjects
  BY DEF UsersLive, CallsOnLiveObjects
<1> QED
  BY <1>1, UsersStayLive, PTL

-----------------------------------------------------------------------------
(* The third layer: the references to the shell.                           *)

Shell ==
  /\ configured \in SUBSET Object /\ IsFiniteSet(configured)
  /\ running \in SUBSET Object
  /\ Mode = "Off" => running = {} /\ connection = Null
  /\ shellRefs \in Nat
  /\ ShellReferences
  /\ pc \in {"rootInfo", "rootAudio", "rootVideo", "query", "configure"}
       => <<Info, gen>> \notin configured

(* The first reference to a new object takes none from another.            *)
LEMMA RootKeepsCounted ==
  ASSUME Counting, NEW o, refs' = [refs EXCEPT ![o] = 1]
  PROVE  \A p \in Object : refs[p] > 0 => refs'[p] > 0
BY DEF Counting

(* Objects that are no longer configured give their references back.       *)
LEMMA UnconfigureGivesBack ==
  ASSUME Shell, NEW S \in SUBSET Object, Unconfigure(S), service \in BOOLEAN
  PROVE  /\ configured' \in SUBSET configured /\ IsFiniteSet(configured')
         /\ shellRefs' \in Nat
         /\ shellRefs' = 1 + (IF service THEN 1 ELSE 0) + Cardinality(configured')
<1>1. /\ IsFiniteSet(configured \ S)
      /\ Cardinality(configured \ S) = Cardinality(configured) - Cardinality(configured \cap S)
  BY FS_Difference DEF Shell
<1>2. /\ Cardinality(configured) \in Nat /\ Cardinality(configured \ S) \in Nat
      /\ Cardinality(configured \cap S) \in Nat
  BY <1>1, FS_CardinalityType, FS_Intersection DEF Shell
<1>3. shellRefs = 1 + (IF service THEN 1 ELSE 0) + Cardinality(configured)
  BY DEF Shell, ShellReferences
<1>4. /\ configured' = configured \ S
      /\ shellRefs' = shellRefs - Cardinality(configured \cap S)
  BY DEF Unconfigure
<1> QED
  BY <1>1, <1>2, <1>3, <1>4

(* What is taken from the shell is what its holders took.                  *)
LEMMA ShellStep ==
  ASSUME Control, Counting, UsersLive, Shell, [Next]_vars
  PROVE  Shell'
<1> USE DEF Control, TypeControl, ShellControl, PointerControl,
        ConfigureControl, Counting, Healthy, AfterRoot, OwnedSteps, Current,
        AudioCleanup, VideoCleanup, BeforeReleaseConfigure, Transition,
        StoreShell, framework, plugin, counts, users, Object, Null, Classes,
        Info, Audio, Video, InitSteps, DeinitSteps, Undefined, AllRooted,
        Shell, ShellReferences, Reachable
<1>1. CASE Activate
  <2>1. ASSUME NEW p \in configured PROVE p[2] <= gen
    BY <2>1 DEF UnbornUncounted
  <2>2. <<Info, gen'>> \notin configured'
    BY <1>1, <2>1 DEF Activate
  <2>3. shellRefs' \in Nat
        /\ shellRefs' = 1 + (IF service' THEN 1 ELSE 0) + Cardinality(configured')
    <3>1. ~service /\ service' /\ configured' = configured /\ shellRefs' = shellRefs + 1
      BY <1>1 DEF Activate
    <3>2. shellRefs \in Nat /\ shellRefs = 1 + Cardinality(configured)
      BY <3>1, FS_CardinalityType
    <3>3. Cardinality(configured) \in Nat
      BY FS_CardinalityType
    <3> QED
      BY <3>1, <3>2, <3>3
  <2> QED
    BY <1>1, <2>2, <2>3 DEF Activate
<1>2. CASE Deactivate
  BY <1>2 DEF Deactivate
<1>3. CASE Root(Info, "rootInfo", "rootAudio")
  <2>1. UNCHANGED <<configured, shellRefs, service, gen, connection>>
        /\ pc = "rootInfo" /\ pc' = "rootAudio"
    BY <1>3 DEF Root, Construct
  <2>2. refs' = refs \/ refs' = [refs EXCEPT ![<<Info, gen>>] = 1]
    BY <1>3 DEF Root, Construct
  <2>3. \A p \in Object : refs[p] > 0 => refs'[p] > 0
    BY <2>2, RootKeepsCounted
  <2>4. running' = running
        \/ (Mode = "Local" /\ running' = running \cup {<<Info, gen>>})
    BY <1>3 DEF Root, Construct
  <2>5. <<Info, gen>> \in Object
    BY <2>1
  <2> QED
    BY <2>1, <2>3, <2>4, <2>5
<1>4. CASE Root(Audio, "rootAudio", "rootVideo")
  <2>1. UNCHANGED <<configured, shellRefs, service, gen, connection>>
        /\ pc = "rootAudio" /\ pc' = "rootVideo"
    BY <1>4 DEF Root, Construct
  <2>2. refs' = refs \/ refs' = [refs EXCEPT ![<<Audio, gen>>] = 1]
    BY <1>4 DEF Root, Construct
  <2>3. \A p \in Object : refs[p] > 0 => refs'[p] > 0
    BY <2>2, RootKeepsCounted
  <2>4. running' = running
        \/ (Mode = "Local" /\ running' = running \cup {<<Audio, gen>>})
    BY <1>4 DEF Root, Construct
  <2>5. <<Audio, gen>> \in Object
    BY <2>1
  <2> QED
    BY <2>1, <2>3, <2>4, <2>5
<1>5. CASE Root(Video, "rootVideo", "query")
  <2>1. UNCHANGED <<configured, shellRefs, service, gen, connection>>
        /\ pc = "rootVideo" /\ pc' = "query"
    BY <1>5 DEF Root, Construct
  <2>2. refs' = refs \/ refs' = [refs EXCEPT ![<<Video, gen>>] = 1]
    BY <1>5 DEF Root, Construct
  <2>3. \A p \in Object : refs[p] > 0 => refs'[p] > 0
    BY <2>2, RootKeepsCounted
  <2>4. running' = running
        \/ (Mode = "Local" /\ running' = running \cup {<<Video, gen>>})
    BY <1>5 DEF Root, Construct
  <2>5. <<Video, gen>> \in Object
    BY <2>1
  <2> QED
    BY <2>1, <2>3, <2>4, <2>5
<1>6. CASE RootsFailed
  BY <1>6 DEF RootsFailed
<1>7. CASE QueryConfiguration
  BY <1>7 DEF QueryConfiguration
<1>8. CASE Configure
  <2>1. CASE UNCHANGED <<configured, shellRefs>>
    BY <1>8, <2>1 DEF Configure
  <2>2. CASE /\ Reachable(configure)
             /\ configured' = configured \cup {configure}
             /\ shellRefs' = shellRefs + 1
    <3>1. configure = <<Info, gen>> /\ configure \in Object /\ configure \notin configured
          /\ refs[configure] > 0
      BY SMTT(30), <1>8 DEF Configure, UsersLive
    <3>2. /\ IsFiniteSet(configured')
          /\ Cardinality(configured') = Cardinality(configured) + 1
          /\ Cardinality(configured) \in Nat
      BY <2>2, <3>1, FS_AddElement, FS_CardinalityType
    <3>3. shellRefs' \in Nat
          /\ shellRefs' = 1 + (IF service THEN 1 ELSE 0) + Cardinality(configured')
      BY <2>2, <3>2
    <3> QED
      BY <1>8, <2>2, <3>1, <3>2, <3>3 DEF Configure
  <2> QED
    BY <1>8, <2>1, <2>2 DEF Configure
<1>9. CASE Register
  BY <1>9 DEF Register
<1>10. CASE InitializeReturns
  BY <1>10 DEF InitializeReturns
<1>11. CASE Deinitialize
  BY <1>11 DEF Deinitialize
<1>12. CASE Unregister(Audio, "unregisterAudio", "drainAudio")
  BY <1>12 DEF Unregister
<1>13. CASE Drain(Audio, "drainAudio", "releaseAudio")
  BY <1>13 DEF Drain
<1>14. CASE Release(Audio, "releaseAudio", "clearAudio")
  <2>1. ptr[Audio] \in Object
    BY <1>14 DEF Release
  <2>2. PICK S \in SUBSET Object :
          /\ Unconfigure(S) /\ S \subseteq {ptr[Audio]} /\ (refs[ptr[Audio]] = 1 => ptr[Audio] \in S)
          /\ refs' = [refs EXCEPT ![ptr[Audio]] = @ - 1]
    BY <1>14, <2>1 DEF Release, ReleaseRef
  <2>3. /\ configured' = configured \ S /\ IsFiniteSet(configured')
        /\ shellRefs' \in Nat
        /\ shellRefs' = 1 + (IF service THEN 1 ELSE 0) + Cardinality(configured')
    BY <2>2, UnconfigureGivesBack DEF Unconfigure
  <2>4. \A p \in configured' : refs'[p] > 0
    BY <2>1, <2>2, <2>3
  <2> QED
    BY <1>14, <2>3, <2>4 DEF Release
<1>15. CASE Clear(Audio, "clearAudio", "unregisterVideo")
  BY <1>15 DEF Clear
<1>16. CASE Unregister(Video, "unregisterVideo", "drainVideo")
  BY <1>16 DEF Unregister
<1>17. CASE Drain(Video, "drainVideo", "releaseVideo")
  BY <1>17 DEF Drain
<1>18. CASE Release(Video, "releaseVideo", "clearVideo")
  <2>1. ptr[Video] \in Object
    BY <1>18 DEF Release
  <2>2. PICK S \in SUBSET Object :
          /\ Unconfigure(S) /\ S \subseteq {ptr[Video]} /\ (refs[ptr[Video]] = 1 => ptr[Video] \in S)
          /\ refs' = [refs EXCEPT ![ptr[Video]] = @ - 1]
    BY <1>18, <2>1 DEF Release, ReleaseRef
  <2>3. /\ configured' = configured \ S /\ IsFiniteSet(configured')
        /\ shellRefs' \in Nat
        /\ shellRefs' = 1 + (IF service THEN 1 ELSE 0) + Cardinality(configured')
    BY <2>2, UnconfigureGivesBack DEF Unconfigure
  <2>4. \A p \in configured' : refs'[p] > 0
    BY <2>1, <2>2, <2>3
  <2> QED
    BY <1>18, <2>3, <2>4 DEF Release
<1>19. CASE Clear(Video, "clearVideo", "unregisterInfo")
  BY <1>19 DEF Clear
<1>20. CASE Unregister(Info, "unregisterInfo", "drainInfo")
  BY <1>20 DEF Unregister
<1>21. CASE Drain(Info, "drainInfo", "releaseConfigure")
  BY <1>21 DEF Drain
<1>22. CASE Release(Info, "releaseInfo", "clearInfo")
  <2>1. ptr[Info] \in Object
    BY <1>22 DEF Release
  <2>2. PICK S \in SUBSET Object :
          /\ Unconfigure(S) /\ S \subseteq {ptr[Info]} /\ (refs[ptr[Info]] = 1 => ptr[Info] \in S)
          /\ refs' = [refs EXCEPT ![ptr[Info]] = @ - 1]
    BY <1>22, <2>1 DEF Release, ReleaseRef
  <2>3. /\ configured' = configured \ S /\ IsFiniteSet(configured')
        /\ shellRefs' \in Nat
        /\ shellRefs' = 1 + (IF service THEN 1 ELSE 0) + Cardinality(configured')
    BY <2>2, UnconfigureGivesBack DEF Unconfigure
  <2>4. \A p \in configured' : refs'[p] > 0
    BY <2>1, <2>2, <2>3
  <2> QED
    BY <1>22, <2>3, <2>4 DEF Release
<1>23. CASE Clear(Info, "clearInfo", "terminate")
  BY <1>23 DEF Clear
<1>24. CASE ReleaseConfigure
  <2>1. CASE configure # Null
    <3>1. configure \in Object
      BY <1>24, <2>1 DEF ReleaseConfigure
    <3>2. PICK S \in SUBSET Object :
            /\ Unconfigure(S) /\ S \subseteq {configure} /\ (refs[configure] = 1 => configure \in S)
            /\ refs' = [refs EXCEPT ![configure] = @ - 1]
      BY <1>24, <2>1, <3>1 DEF ReleaseConfigure, ReleaseRef
    <3>3. /\ configured' = configured \ S /\ IsFiniteSet(configured')
          /\ shellRefs' \in Nat
          /\ shellRefs' = 1 + (IF service THEN 1 ELSE 0) + Cardinality(configured')
      BY <3>2, UnconfigureGivesBack DEF Unconfigure
    <3>4. \A p \in configured' : refs'[p] > 0
      BY <3>1, <3>2, <3>3
    <3> QED
      BY <1>24, <2>1, <3>3, <3>4 DEF ReleaseConfigure
  <2>2. CASE configure = Null
    BY <1>24, <2>2 DEF ReleaseConfigure
  <2> QED
    BY <2>1, <2>2
<1>25. CASE RemoteConnection
  BY <1>25 DEF RemoteConnection
<1>26. CASE Terminate
  <2>1. CASE connection # Null /\ ProcessEnds(connection)
    <3>1. connection \in Object /\ Unconfigure({connection}) /\ running' = running \ {connection}
          /\ refs' = refs
      BY <1>26, <2>1 DEF Terminate, ProcessEnds
    <3>2. /\ configured' = configured \ {connection} /\ IsFiniteSet(configured')
          /\ shellRefs' \in Nat
          /\ shellRefs' = 1 + (IF service THEN 1 ELSE 0) + Cardinality(configured')
      BY <3>1, UnconfigureGivesBack DEF Unconfigure
    <3> QED
      BY <1>26, <2>1, <3>1, <3>2 DEF Terminate
  <2>2. CASE UNCHANGED <<counts, running>>
    BY <1>26, <2>2 DEF Terminate
  <2> QED
    BY <1>26, <2>1, <2>2 DEF Terminate
<1>27. CASE DeinitializeReturns
  <2>1. shellRefs' \in Nat
        /\ shellRefs' = 1 + (IF service' THEN 1 ELSE 0) + Cardinality(configured')
    BY SMTT(30), <1>27, FS_CardinalityType DEF DeinitializeReturns
  <2> QED
    BY <1>27, <2>1 DEF DeinitializeReturns
<1>28. ASSUME NEW k \in Clients, Drop(k)
      PROVE  Shell'
  <2>1. held[k] \in Object
    BY <1>28 DEF Drop
  <2>2. PICK S \in SUBSET Object :
          /\ Unconfigure(S) /\ S \subseteq {held[k]} /\ (refs[held[k]] = 1 => held[k] \in S)
          /\ refs' = [refs EXCEPT ![held[k]] = @ - 1]
    BY <1>28, <2>1 DEF Drop, ReleaseRef
  <2>3. /\ configured' = configured \ S /\ IsFiniteSet(configured')
        /\ shellRefs' \in Nat
        /\ shellRefs' = 1 + (IF service THEN 1 ELSE 0) + Cardinality(configured')
    BY <2>2, UnconfigureGivesBack DEF Unconfigure
  <2>4. \A p \in configured' : refs'[p] > 0
    BY <2>1, <2>2, <2>3
  <2> QED
    BY <1>28, <2>3, <2>4 DEF Drop
<1>29. ASSUME NEW k \in Clients, NEW c \in Classes, Acquire(k, c)
      PROVE  Shell'
  BY <1>29 DEF Acquire
<1>30. ASSUME NEW w \in Workers, Respond(w)
      PROVE  Shell'
  BY <1>30 DEF Respond
<1>31. ASSUME NEW w \in Workers, NEW c \in Classes, Invoke(w, c)
      PROVE  Shell'
  BY <1>31 DEF Invoke
<1>32. ASSUME NEW o \in Object, Crash(o)
      PROVE  Shell'
  <2>1. o \in Object /\ Unconfigure({o}) /\ running' = running \ {o}
        /\ refs' = refs
    BY <1>32 DEF Crash, ProcessEnds
  <2>2. /\ configured' = configured \ {o} /\ IsFiniteSet(configured')
        /\ shellRefs' \in Nat
        /\ shellRefs' = 1 + (IF service THEN 1 ELSE 0) + Cardinality(configured')
    BY <2>1, UnconfigureGivesBack DEF Unconfigure
  <2> QED
    BY <1>32, <2>1, <2>2 DEF Crash
<1>33. ASSUME NEW o \in Object, Exit(o)
      PROVE  Shell'
  <2>1. o \in Object /\ Unconfigure({o}) /\ running' = running \ {o}
        /\ refs' = refs
    BY <1>33 DEF Exit, ProcessEnds
  <2>2. /\ configured' = configured \ {o} /\ IsFiniteSet(configured')
        /\ shellRefs' \in Nat
        /\ shellRefs' = 1 + (IF service THEN 1 ELSE 0) + Cardinality(configured')
    BY <2>1, UnconfigureGivesBack DEF Unconfigure
  <2> QED
    BY <1>33, <2>1, <2>2 DEF Exit
<1>34. CASE UNCHANGED vars
  BY <1>34 DEF vars
<1>35. ASSUME NEW o \in Object, UnsetService(o)
      PROVE  Shell'
  <2>1. CASE Mode = "Off"
    BY <1>35, <2>1 DEF UnsetService
  <2>2. CASE Mode # "Off"
    <3>1. o \in Object /\ Unconfigure({o}) /\ running' = running \ {o}
          /\ refs' = refs
      BY <1>35, <2>2 DEF UnsetService, ProcessEnds
    <3>2. /\ configured' = configured \ {o} /\ IsFiniteSet(configured')
          /\ shellRefs' \in Nat
          /\ shellRefs' = 1 + (IF service THEN 1 ELSE 0) + Cardinality(configured')
      BY <3>1, UnconfigureGivesBack DEF Unconfigure
    <3> QED
      BY <1>35, <2>2, <3>1, <3>2 DEF UnsetService
  <2> QED
    BY <2>1, <2>2
<1> HIDE DEF Control, TypeControl, ShellControl, PointerControl,
         ConfigureControl, Counting, Healthy, AfterRoot, OwnedSteps, Current,
         AudioCleanup, VideoCleanup, BeforeReleaseConfigure, Transition,
         StoreShell, framework, plugin, counts, users, Object, Null, Classes,
         Info, Audio, Video, InitSteps, DeinitSteps, Undefined, AllRooted,
         Shell, ShellReferences, Reachable
<1> QED
  BY <1>1, <1>2, <1>3, <1>4, <1>5, <1>6, <1>7, <1>8, <1>9, <1>10, <1>11, <1>12,
     <1>13, <1>14, <1>15, <1>16, <1>17, <1>18, <1>19, <1>20, <1>21, <1>22,
     <1>23, <1>24, <1>25, <1>26, <1>27, <1>28, <1>29, <1>30, <1>31, <1>32,
     <1>33, <1>34, <1>35
  DEF Next, FrameworkThread

(* The shell layer holds in every reachable state.                         *)
THEOREM ShellInvariant == Spec => []Shell
<1>1. ASSUME Init PROVE Shell
  BY <1>1, FS_EmptySet DEF Init, Shell, ShellReferences
<1>2. Control /\ Counting /\ UsersLive /\ Shell /\ [Next]_vars => Shell'
  BY ShellStep
<1> QED
  BY <1>1, <1>2, ControlInvariant, CountingInvariant, UsersStayLive, PTL DEF Spec

(* The shell's count is exact in every reachable state.                    *)
THEOREM ShellIsReferencedExactly == Spec => []ShellReferences
<1>1. Shell => ShellReferences
  BY DEF Shell
<1> QED
  BY <1>1, ShellInvariant, PTL

(* Type correctness: the counts stay natural numbers because no Release    *)
(* comes without its AddRef.                                               *)
THEOREM TypeCorrect == Spec => []TypeOK
<1>1. Control /\ Counting /\ Shell => TypeOK
  BY DEF Control, Counting, Shell, TypeControl, TypeOK
<1> QED
  BY <1>1, ControlInvariant, CountingInvariant, ShellInvariant, PTL

(* An activated plugin offers all its interfaces.                          *)
THEOREM ActivatedIsAvailable == Spec => []ActivatedMeansAvailable
<1>1. ASSUME Control, Counting PROVE ActivatedMeansAvailable
  <2> SUFFICES ASSUME shell = "ACTIVATED", Healthy
               PROVE  /\ \A c \in Classes : ptr[c] = <<c, gen>> /\ registered[c] = ptr[c]
                                            /\ refs[ptr[c]] > 0
                      /\ configure = <<Info, gen>>
    BY DEF ActivatedMeansAvailable
  <2>1. configure = <<Info, gen>>
    BY <1>1 DEF Control, ConfigureControl
  <2>2. ASSUME NEW c \in Classes
        PROVE  ptr[c] = <<c, gen>> /\ registered[c] = ptr[c] /\ refs[ptr[c]] > 0
    <3>1. pc = "idle" /\ ~message /\ ptr[c] = <<c, gen>>
      BY <1>1
      DEF Control, TypeControl, ShellControl, PointerControl, Current, Healthy
    <3>2. registered[c] = ptr[c]
      BY <1>1, <3>1 DEF Control, RegistrationControl
    <3>3. ptr[c] \in Object /\ "plugin" \in Holders(ptr[c])
      BY <1>1, <3>1
      DEF Control, TypeControl, Holders, PluginHolds, ClearStep, Classes, Info, Audio,
          Video, Object, Null
    <3>4. refs[ptr[c]] >= 1
      BY <1>1, <3>3, HeldIsCounted DEF Counting, Covered
    <3> QED
      BY <1>1, <3>1, <3>2, <3>3, <3>4 DEF Counting
  <2> QED
    BY <2>1, <2>2
<1> QED
  BY <1>1, ControlInvariant, CountingInvariant, PTL

(* A plugin that was activated can always be cleaned up.                   *)
THEOREM ActivatedCanBeStopped == Spec => []ActivatedCanStop
<1>1. Control => ActivatedCanStop
  BY DEF Control, ConfigureControl, ActivatedCanStop
<1> QED
  BY <1>1, ControlInvariant, PTL

(* A plugin that is deactivated is not inside a function of its own.       *)
Stopped == shell = "DEACTIVATED" => pc \in {"idle"} \cup Undefined

LEMMA StoppedStep ==
  ASSUME Stopped, [Next]_vars
  PROVE  Stopped'
<1> USE DEF Stopped, Transition, framework, vars, Undefined
<1>1. CASE Activate \/ Deactivate
  BY <1>1 DEF Activate, Deactivate
<1>2. CASE FrameworkThread
  BY <1>2
  DEF FrameworkThread, Root, RootsFailed, QueryConfiguration, Configure, Register,
      InitializeReturns, Deinitialize, Unregister, Drain, Release, Clear,
      ReleaseConfigure, RemoteConnection, Terminate, DeinitializeReturns
<1>3. ASSUME NEW k \in Clients, Drop(k) \/ \E c \in Classes : Acquire(k, c)
      PROVE  Stopped'
  BY <1>3 DEF Drop, Acquire
<1>4. ASSUME NEW w \in Workers, Respond(w) \/ \E c \in Classes : Invoke(w, c)
      PROVE  Stopped'
  BY <1>4 DEF Respond, Invoke
<1>5. ASSUME NEW o \in Object, Crash(o) \/ Exit(o) \/ UnsetService(o)
      PROVE  Stopped'
  BY <1>5 DEF Crash, Exit, UnsetService
<1>6. CASE UNCHANGED vars
  BY <1>6
<1> QED
  BY <1>1, <1>2, <1>3, <1>4, <1>5, <1>6 DEF Next

(* Undefined behaviour is the end of the model, and met by none of the     *)
(* handlers' own steps.                                                    *)
LEMMA UndefinedIsFinal ==
  ASSUME [Next]_vars, ~Healthy'
  PROVE  UNCHANGED <<shell, call>>
<1> USE DEF Healthy, Undefined, Transition, framework, users, vars
<1>1. CASE Activate \/ Deactivate
  BY <1>1 DEF Activate, Deactivate
<1>2. CASE FrameworkThread
  BY <1>2
  DEF FrameworkThread, Root, RootsFailed, QueryConfiguration, Configure, Register,
      InitializeReturns, Deinitialize, Unregister, Drain, Release, Clear,
      ReleaseConfigure, RemoteConnection, Terminate, DeinitializeReturns
<1>3. ASSUME NEW k \in Clients, Drop(k) \/ \E c \in Classes : Acquire(k, c)
      PROVE  UNCHANGED <<shell, call>>
  BY <1>3 DEF Drop, Acquire
<1>4. ASSUME NEW w \in Workers, Respond(w) \/ \E c \in Classes : Invoke(w, c)
      PROVE  UNCHANGED <<shell, call>>
  BY <1>4 DEF Respond, Invoke
<1>5. ASSUME NEW o \in Object, Crash(o) \/ Exit(o) \/ UnsetService(o)
      PROVE  UNCHANGED <<shell, call>>
  BY <1>5 DEF Crash, Exit, UnsetService
<1>6. CASE UNCHANGED vars
  BY <1>6
<1> QED
  BY <1>1, <1>2, <1>3, <1>4, <1>5, <1>6 DEF Next

(* No handler outlives the activation that registered it.                  *)
THEOREM HandlersAreOver == Spec => []HandlersEndInTime
<1>1. Init => Stopped /\ HandlersEndInTime
  BY DEF Init, Stopped, HandlersEndInTime
<1>2. Stopped /\ [Next]_vars => Stopped'
  BY StoppedStep
<1>3. ASSUME HandlersEndInTime, Control', Stopped', [Next]_vars
      PROVE  HandlersEndInTime'
  <2>1. CASE Healthy'
    BY <1>3, <2>1
    DEF Control, RegistrationControl, Stopped, HandlersEndInTime, Healthy, Undefined
  <2>2. CASE ~Healthy'
    BY <1>3, <2>2, UndefinedIsFinal DEF HandlersEndInTime
  <2> QED
    BY <2>1, <2>2
<1> QED
  BY <1>1, <1>2, <1>3, ControlInvariant, PTL DEF Spec
=============================================================================
