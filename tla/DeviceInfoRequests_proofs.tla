---------------------- MODULE DeviceInfoRequests_proofs ----------------------
(***************************************************************************)
(* Proofs about DeviceInfoRequests: with its users' calls the plugin does  *)
(* nothing it does not do without them, so that what is proved of          *)
(* DeviceInfoPlugin holds here too; and the references that the calls take *)
(* are given back. For every mode, users, activations and faults.          *)
(***************************************************************************)
EXTENDS DeviceInfoRequests, DeviceInfoPlugin_proofs

-----------------------------------------------------------------------------
(* The plugin under its calls.                                             *)

(* A step with calls is a step of the plugin, or leaves it alone.          *)
LEMMA CallsStep ==
  ASSUME [CallsNext]_allVars
  PROVE  [Next]_vars
<1>1. CASE Thread
  BY <1>1 DEF Thread, Next
<1>2. CASE Others
  BY <1>2 DEF Others, Next
<1>3. ASSUME NEW w \in Workers, NEW c \in Classes, InvokeHandler(w, c)
      PROVE  [Next]_vars
  BY <1>3 DEF InvokeHandler, Next
<1>4. ASSUME NEW k \in Clients, CallHeld(k)
      PROVE  [Next]_vars
  BY <1>4 DEF CallHeld
<1>5. ASSUME NEW u \in Users, Serve(u)
      PROVE  [Next]_vars
  <2>1. CASE Query(u) \/ SubSystems(u) \/ SerialNumber(u) \/ Version(u)
    BY <2>1 DEF Query, SubSystems, SerialNumber, Version
  <2>2. CASE Returns(u)
    BY <2>2 DEF Returns, Next
  <2>3. CASE SubSystemsUnset(u)
    BY <2>3 DEF SubSystemsUnset, Next
  <2> QED
    BY <1>5, <2>1, <2>2, <2>3 DEF Serve
<1>6. ASSUME NEW o \in Object, Dies(o) \/ Exits(o)
      PROVE  [Next]_vars
  BY <1>6 DEF Dies, Exits, Next
<1>7. CASE UNCHANGED allVars
  BY <1>7 DEF allVars
<1> QED
  BY <1>1, <1>2, <1>3, <1>4, <1>5, <1>6, <1>7 DEF CallsNext

(* The composition implements the plugin: every theorem about Spec is one  *)
(* about CallsSpec.                                                        *)
THEOREM CallsImplementPlugin == CallsSpec => Spec
<1>1. CallsInit => Init
  BY DEF CallsInit
<1>2. [CallsNext]_allVars => [Next]_vars
  BY CallsStep
<1> QED
  BY <1>1, <1>2, PTL DEF CallsSpec, Spec

-----------------------------------------------------------------------------
(* The calls.                                                              *)

CallTypes ==
  /\ at \in [Users -> {"none"} \cup Steps \cup Ended]
  /\ subSystem \in [Users -> BOOLEAN]
  /\ crashed \subseteq Object
  /\ \A w \in Workers : at[w] = "none" <=> call[w] = Null
  /\ \A k \in Clients : at[k] # "none" => held[k] # Null

(* A call that is under way is in a process that is alive.                 *)
CallsAlive ==
  Healthy => \A u \in Users : at[u] \in Steps => Reachable(Target(u))

Referencing == {u \in Users : subSystem[u]}

(* The references to the subsystem that were taken and not given back.     *)
Balanced ==
  /\ subSystemRefs = Cardinality(Referencing)
  /\ \A u \in Users : subSystem[u] => at[u] \in {"serialNumber", "version"}

(* The framework thread and the processes leave the users' targets alone,  *)
(* and stop when the plugin has run into undefined behaviour.              *)
LEMMA ThreadKeepsUsers ==
  ASSUME FrameworkThread \/ \E o \in Object : Crash(o) \/ Exit(o) \/ UnsetService(o)
  PROVE  Healthy /\ UNCHANGED <<held, call>>
<1>1. CASE FrameworkThread
  BY <1>1
  DEF FrameworkThread, Root, RootsFailed, QueryConfiguration, Configure, Register,
      InitializeReturns, Deinitialize, Unregister, Drain, Release, Clear,
      ReleaseConfigure, RemoteConnection, Terminate, DeinitializeReturns,
      Transition, Healthy, Undefined, users
<1>2. CASE \E o \in Object : Crash(o) \/ Exit(o) \/ UnsetService(o)
  BY <1>2 DEF Crash, Exit, UnsetService, users
<1> QED
  BY <1>1, <1>2

LEMMA FiniteUsers == IsFiniteSet(Referencing) /\ Cardinality(Referencing) \in Nat
<1>1. IsFiniteSet(Users)
  BY ClientsAssumption, UsersAssumption, FS_Union DEF Users
<1> QED
  BY <1>1, FS_Subset, FS_CardinalityType DEF Referencing

LEMMA Fewer ==
  ASSUME NEW S, IsFiniteSet(S), NEW T \in SUBSET S
  PROVE  Cardinality(S \ T) = Cardinality(S) - Cardinality(T)
<1>1. S \cap T = T
  OBVIOUS
<1> QED
  BY <1>1, FS_Difference

(* What cuts calls short leaves the books of the others in order.          *)
LEMMA InterruptedStep ==
  ASSUME CallTypes, CallsAlive, Balanced, Interrupted, Healthy,
         UNCHANGED <<held, call>>, crashed' \subseteq Object
  PROVE  CallTypes' /\ CallsAlive' /\ Balanced'
<1> DEFINE cut == {u \in Users : at[u] \in Steps /\ Target(u) \in running \ running'}
<1>1. /\ at' = [u \in Users |-> IF u \in cut THEN "unavailable" ELSE at[u]]
      /\ subSystem' = [u \in Users |-> u \notin cut /\ subSystem[u]]
      /\ subSystemRefs' = subSystemRefs - Cardinality({u \in cut : subSystem[u]})
  BY DEF Interrupted
<1>2. CallTypes'
  BY <1>1 DEF CallTypes, Steps, Ended, Users
<1>3. CallsAlive'
  <2> SUFFICES ASSUME NEW u \in Users, at'[u] \in Steps
               PROVE  Mode = "Off" \/ Target(u)' \in running'
    BY DEF CallsAlive, Reachable
  <2>1. u \notin cut /\ at[u] \in Steps
    BY <1>1 DEF Steps
  <2>2. Target(u)' = Target(u)
    BY DEF Target
  <2> QED
    BY <2>1, <2>2 DEF CallsAlive, Reachable
<1>4. Balanced'
  <2> DEFINE lost == {u \in cut : subSystem[u]}
  <2>1. Referencing' = Referencing \ lost
    BY <1>1 DEF Referencing
  <2>2. lost \in SUBSET Referencing
    BY DEF Referencing
  <2>3. \A u \in Users : subSystem'[u] => at'[u] \in {"serialNumber", "version"}
    BY <1>1 DEF Balanced
  <2>4. subSystemRefs' = Cardinality(Referencing) - Cardinality(lost)
    BY <1>1 DEF Balanced
  <2> HIDE DEF lost
  <2>5. Cardinality(Referencing') = Cardinality(Referencing) - Cardinality(lost)
    BY <2>1, <2>2, FiniteUsers, Fewer
  <2> QED
    BY <2>3, <2>4, <2>5 DEF Balanced
<1> QED
  BY <1>2, <1>3, <1>4

(* A step that leaves the references to the subsystem alone.               *)
LEMMA KeptBalanced ==
  ASSUME Balanced, UNCHANGED <<subSystem, subSystemRefs>>,
         \A u \in Users : at'[u] = at[u] \/ ~subSystem[u]
                                       \/ at'[u] \in {"serialNumber", "version"}
  PROVE  Balanced'
<1>1. Referencing' = Referencing
  BY DEF Referencing
<1> QED
  BY <1>1 DEF Balanced

LEMMA OthersStep ==
  ASSUME CallTypes, CallsAlive, Balanced, Others,
         held \in [Clients -> Object \cup {Null}]
  PROVE  CallTypes' /\ CallsAlive' /\ Balanced'
<1>1. /\ UNCHANGED <<at, subSystem, subSystemRefs, crashed, call>>
      /\ Healthy' => Healthy /\ running' = running
      /\ \A k \in Clients : at[k] # "none" => held'[k] = held[k]
  <2>1. CASE Activate \/ Deactivate
    BY <2>1
    DEF Others, Activate, Deactivate, Transition, Healthy, Undefined, plugin, counts,
        users, calls
  <2>2. ASSUME NEW k \in Clients, at[k] = "none" /\ Drop(k), UNCHANGED <<calls, crashed>>
        PROVE  /\ UNCHANGED <<at, subSystem, subSystemRefs, crashed, call>>
               /\ Healthy' => Healthy /\ running' = running
               /\ \A x \in Clients : at[x] # "none" => held'[x] = held[x]
    BY <2>2 DEF Drop, calls
  <2>3. ASSUME NEW k \in Clients, NEW c \in Classes, Acquire(k, c), UNCHANGED <<calls, crashed>>
        PROVE  /\ UNCHANGED <<at, subSystem, subSystemRefs, crashed, call>>
               /\ Healthy' => Healthy /\ running' = running
               /\ \A x \in Clients : at[x] # "none" => held'[x] = held[x]
    <3>1. /\ held[k] = Null /\ Healthy
          /\ held' = held \/ held' = [held EXCEPT ![k] = ptr[c]]
          /\ UNCHANGED <<at, subSystem, subSystemRefs, crashed, call, running>>
      BY <2>3 DEF Acquire, calls
    <3>2. \A x \in Clients : at[x] # "none" => x # k
      BY <3>1 DEF CallTypes
    <3> QED
      BY <3>1, <3>2
  <2> QED
    BY <2>1, <2>2, <2>3 DEF Others
<1>2. CallTypes'
  BY <1>1 DEF CallTypes
<1>3. CallsAlive'
  <2> SUFFICES ASSUME Healthy', NEW u \in Users, at'[u] \in Steps
               PROVE  Mode = "Off" \/ Target(u)' \in running'
    BY DEF CallsAlive, Reachable
  <2>1. Target(u)' = Target(u)
    BY <1>1 DEF Target, Users, Steps
  <2> QED
    BY <1>1, <2>1 DEF CallsAlive, Reachable
<1>4. Balanced'
  BY <1>1, KeptBalanced
<1> QED
  BY <1>2, <1>3, <1>4

(* A call of user u begins, on the object o that it finds.                 *)
LEMMA BeginsStep ==
  ASSUME CallTypes, CallsAlive, Balanced, Healthy, NEW u \in Users, NEW o,
         Begins(u, o), Target(u)' = o, o # Null, running' = running,
         IF u \in Workers THEN call' = [call EXCEPT ![u] = o] /\ UNCHANGED held
                          ELSE UNCHANGED <<call, held>>,
         call \in [Workers -> Object \cup {Null}]
  PROVE  CallTypes' /\ CallsAlive' /\ Balanced'
<1>1. PICK first \in IF Reachable(o) THEN {"query", "subSystems"} ELSE {"unavailable"} :
        /\ at[u] = "none" /\ at' = [at EXCEPT ![u] = first]
        /\ UNCHANGED <<subSystem, subSystemRefs, crashed>>
  BY DEF Begins, Moves
<1>2. first \in Steps \cup Ended /\ first # "none"
  BY <1>1 DEF Steps, Ended
<1>3. CallTypes'
  <2>1. at' \in [Users -> {"none"} \cup Steps \cup Ended]
    BY <1>1, <1>2 DEF CallTypes
  <2>2. \A w \in Workers : at'[w] = "none" <=> call'[w] = Null
    BY <1>1, <1>2 DEF CallTypes, Users
  <2>3. \A k \in Clients : at'[k] # "none" => held'[k] # Null
    <3> SUFFICES ASSUME NEW k \in Clients, at'[k] # "none" PROVE held'[k] # Null
      OBVIOUS
    <3>1. CASE k = u
      BY <3>1, UsersAssumption DEF Target
    <3>2. CASE k # u
      BY <1>1, <3>2 DEF CallTypes, Users
    <3> QED
      BY <3>1, <3>2
  <2> QED
    BY <1>1, <2>1, <2>2, <2>3 DEF CallTypes
<1>4. CallsAlive'
  <2> SUFFICES ASSUME NEW v \in Users, at'[v] \in Steps
               PROVE  Mode = "Off" \/ Target(v)' \in running'
    BY DEF CallsAlive, Reachable
  <2>1. CASE v = u
    BY <1>1, <2>1 DEF Reachable, CallTypes, Steps
  <2>2. CASE v # u
    <3>1. Target(v)' = Target(v) /\ at'[v] = at[v]
      BY <1>1, <2>2 DEF Target, CallTypes
    <3> QED
      BY <3>1 DEF CallsAlive, Reachable
  <2> QED
    BY <2>1, <2>2
<1>5. Balanced'
  <2>1. ~subSystem[u]
    BY <1>1 DEF Balanced
  <2> QED
    BY <1>1, <2>1, KeptBalanced DEF CallTypes
<1> QED
  BY <1>3, <1>4, <1>5

(* A step inside a call, after which it is at another step or answered.    *)
LEMMA InsideStep ==
  ASSUME CallTypes, CallsAlive, NEW u \in Users, NEW to, at[u] \in Steps,
         at' = [at EXCEPT ![u] = to], to \in Steps \cup {"answered"},
         UNCHANGED <<vars, crashed>>, subSystem' \in [Users -> BOOLEAN]
  PROVE  CallTypes' /\ CallsAlive'
<1>1. UNCHANGED <<held, call, running, pc>>
  BY DEF vars, users
<1>2. CallTypes'
  BY <1>1 DEF CallTypes, Steps, Ended, Users
<1>3. CallsAlive'
  <2> SUFFICES ASSUME Healthy', NEW v \in Users, at'[v] \in Steps
               PROVE  Mode = "Off" \/ Target(v)' \in running'
    BY DEF CallsAlive, Reachable
  <2>1. Target(v)' = Target(v) /\ at[v] \in Steps /\ Healthy
    BY <1>1 DEF Target, CallTypes, Healthy
  <2> QED
    BY <1>1, <2>1 DEF CallsAlive, Reachable
<1> QED
  BY <1>2, <1>3

LEMMA ServeStep ==
  ASSUME CallTypes, CallsAlive, Balanced, NEW u \in Users, Serve(u),
         call \in [Workers -> Object \cup {Null}]
  PROVE  CallTypes' /\ CallsAlive' /\ Balanced'
<1>1. CASE Query(u)
  <2>1. ~subSystem[u]
    BY <1>1 DEF Query, Moves, Balanced
  <2>2. CallTypes' /\ CallsAlive'
    <3>1. /\ at[u] \in Steps /\ at' = [at EXCEPT ![u] = "answered"]
          /\ UNCHANGED <<vars, crashed>> /\ subSystem' \in [Users -> BOOLEAN]
      BY <1>1 DEF Query, Moves, Steps, CallTypes
    <3> QED
      BY <3>1, InsideStep
  <2>3. Balanced'
    BY <1>1, <2>1, KeptBalanced DEF Query, Moves, CallTypes
  <2> QED
    BY <2>2, <2>3
<1>2. CASE SubSystems(u)
  <2>1. ~subSystem[u] /\ at[u] = "subSystems" /\ at' = [at EXCEPT ![u] = "serialNumber"]
    BY <1>2 DEF SubSystems, Moves, Balanced
  <2>2. CallTypes' /\ CallsAlive'
    <3>1. /\ at[u] \in Steps /\ "serialNumber" \in Steps
          /\ UNCHANGED <<vars, crashed>> /\ subSystem' \in [Users -> BOOLEAN]
      BY <1>2 DEF SubSystems, Moves, Steps, CallTypes
    <3> QED
      BY <2>1, <3>1, InsideStep
  <2>3. CASE UNCHANGED <<subSystem, subSystemRefs>>
    BY <2>1, <2>3, <2>2, KeptBalanced DEF CallTypes
  <2>4. CASE /\ subSystem' = [subSystem EXCEPT ![u] = TRUE]
             /\ subSystemRefs' = subSystemRefs + 1
    <3>1. Referencing' = Referencing \cup {u} /\ u \notin Referencing
      BY <2>1, <2>4 DEF Referencing, CallTypes
    <3>2. Cardinality(Referencing') = Cardinality(Referencing) + 1
      BY <3>1, FiniteUsers, FS_AddElement
    <3>3. \A v \in Users : subSystem'[v] => at'[v] \in {"serialNumber", "version"}
      BY <2>1, <2>4 DEF Balanced, CallTypes
    <3> QED
      BY <2>2, <2>4, <3>2, <3>3 DEF Balanced
  <2> QED
    BY <1>2, <2>2, <2>3, <2>4 DEF SubSystems
<1>3. CASE SerialNumber(u)
  <2>1. CallTypes' /\ CallsAlive'
    BY <1>3, InsideStep DEF SerialNumber, Moves, Steps, CallTypes
  <2>2. Balanced'
    BY <1>3, KeptBalanced DEF SerialNumber, Moves, CallTypes
  <2> QED
    BY <2>1, <2>2
<1>4. CASE Version(u)
  <2>1. /\ at[u] = "version" /\ at' = [at EXCEPT ![u] = "answered"]
        /\ subSystem' = [subSystem EXCEPT ![u] = FALSE]
        /\ subSystemRefs' = subSystemRefs - (IF subSystem[u] THEN 1 ELSE 0)
    BY <1>4 DEF Version, Moves
  <2>2. CallTypes' /\ CallsAlive'
    <3>1. /\ at[u] \in Steps
          /\ UNCHANGED <<vars, crashed>> /\ subSystem' \in [Users -> BOOLEAN]
      BY <1>4 DEF Version, Moves, Steps, CallTypes
    <3> QED
      BY <2>1, <3>1, InsideStep
  <2>3. Referencing' = Referencing \ {u} /\ (u \in Referencing <=> subSystem[u])
    BY <2>1 DEF Referencing, CallTypes
  <2>4. Cardinality(Referencing') = Cardinality(Referencing) - (IF subSystem[u] THEN 1 ELSE 0)
    <3>1. CASE subSystem[u]
      BY <2>3, <3>1, FiniteUsers, FS_RemoveElement
    <3>2. CASE ~subSystem[u]
      <4>1. Referencing' = Referencing
        BY <2>3, <3>2
      <4> QED
        BY <4>1, <3>2, FiniteUsers
    <3> QED
      BY <3>1, <3>2
  <2>5. \A v \in Users : subSystem'[v] => at'[v] \in {"serialNumber", "version"}
    BY <2>1 DEF Balanced, CallTypes
  <2> QED
    BY <2>1, <2>2, <2>4, <2>5 DEF Balanced
<1>5. CASE Returns(u)
  <2>1. /\ at[u] \in Ended /\ at' = [at EXCEPT ![u] = "none"]
        /\ UNCHANGED <<subSystem, subSystemRefs, crashed, held, running, pc>>
        /\ IF u \in Workers THEN call' = [call EXCEPT ![u] = Null] ELSE UNCHANGED call
    BY <1>5 DEF Returns, Moves, Respond, vars, users
  <2>2. ~subSystem[u]
    BY <2>1 DEF Balanced, Ended
  <2>3. CallTypes'
    BY <2>1 DEF CallTypes, Users
  <2>4. CallsAlive'
    <3> SUFFICES ASSUME Healthy', NEW v \in Users, at'[v] \in Steps
                 PROVE  Mode = "Off" \/ Target(v)' \in running'
      BY DEF CallsAlive, Reachable
    <3>1. v # u /\ at[v] \in Steps /\ Healthy
      BY <2>1 DEF CallTypes, Steps, Healthy
    <3>2. Target(v)' = Target(v)
      BY <2>1, <3>1 DEF Target
    <3> QED
      BY <2>1, <3>1, <3>2 DEF CallsAlive, Reachable
  <2>5. Balanced'
    BY <2>1, <2>2, KeptBalanced DEF CallTypes
  <2> QED
    BY <2>3, <2>4, <2>5
<1>6. CASE SubSystemsUnset(u)
  <2>1. PICK o \in Object : UnsetService(o)
    BY <1>6 DEF SubSystemsUnset
  <2>2. Healthy /\ UNCHANGED <<held, call>>
    BY <2>1, ThreadKeepsUsers
  <2>3. running \ running' \subseteq {o}
    BY <2>1 DEF UnsetService, ProcessEnds
  <2>4. Interrupted /\ crashed' \subseteq Object
    BY <1>6, <2>3 DEF SubSystemsUnset, CallTypes
  <2> QED
    BY <2>2, <2>4, InterruptedStep
<1> QED
  BY <1>1, <1>2, <1>3, <1>4, <1>5, <1>6 DEF Serve

CallsInvariant == CallTypes /\ CallsAlive /\ Balanced

(* Every step of the composition keeps the books of its calls.             *)
LEMMA CallsInvariantStep ==
  ASSUME CallsInvariant, TypeControl, [CallsNext]_allVars
  PROVE  CallsInvariant'
<1> USE DEF CallsInvariant
<1>0. /\ held \in [Clients -> Object \cup {Null}]
      /\ call \in [Workers -> Object \cup {Null}]
  BY DEF TypeControl
<1>1. CASE Thread
  <2>1. Interrupted /\ Healthy /\ UNCHANGED <<held, call>> /\ crashed' \subseteq Object
    BY <1>1, ThreadKeepsUsers DEF Thread, CallTypes
  <2> QED
    BY <2>1, InterruptedStep
<1>2. CASE Others
  BY <1>0, <1>2, OthersStep
<1>3. ASSUME NEW w \in Workers, NEW c \in Classes, InvokeHandler(w, c)
      PROVE  CallsInvariant'
  <2>1. /\ Healthy /\ Begins(w, registered[c]) /\ registered[c] # Null
        /\ call' = [call EXCEPT ![w] = registered[c]]
        /\ UNCHANGED <<held, running>>
    BY <1>3 DEF InvokeHandler, Invoke
  <2>2. w \in Users /\ Target(w)' = registered[c]
    BY <1>0, <2>1 DEF Users, Target
  <2> QED
    BY <1>0, <2>1, <2>2, BeginsStep
<1>4. ASSUME NEW k \in Clients, CallHeld(k)
      PROVE  CallsInvariant'
  <2>1. /\ Healthy /\ Begins(k, held[k]) /\ held[k] # Null
        /\ UNCHANGED <<call, held, running>>
    BY <1>4 DEF CallHeld, vars, users
  <2>2. k \in Users /\ k \notin Workers /\ Target(k)' = held[k]
    BY <2>1, UsersAssumption DEF Users, Target
  <2> QED
    BY <1>0, <2>1, <2>2, BeginsStep
<1>5. ASSUME NEW u \in Users, Serve(u)
      PROVE  CallsInvariant'
  BY <1>0, <1>5, ServeStep
<1>6. ASSUME NEW o \in Object, Dies(o) \/ Exits(o)
      PROVE  CallsInvariant'
  <2>1. Interrupted /\ Healthy /\ UNCHANGED <<held, call>> /\ crashed' \subseteq Object
    BY <1>6, ThreadKeepsUsers DEF Dies, Exits, CallTypes
  <2> QED
    BY <2>1, InterruptedStep
<1>7. CASE UNCHANGED allVars
  <2>1. UNCHANGED <<at, subSystem, subSystemRefs, crashed, held, call, running, pc>>
    BY <1>7 DEF allVars, vars, users, calls
  <2>2. CallTypes'
    BY <2>1 DEF CallTypes
  <2>3. CallsAlive'
    BY <2>1 DEF CallsAlive, Healthy, Reachable, Target
  <2>4. Balanced'
    BY <2>1, KeptBalanced
  <2> QED
    BY <2>2, <2>3, <2>4
<1> QED
  BY <1>1, <1>2, <1>3, <1>4, <1>5, <1>6, <1>7 DEF CallsNext

THEOREM CallsInvariantHolds == CallsSpec => []CallsInvariant
<1>1. CallsInit => CallsInvariant
  <2> SUFFICES ASSUME CallsInit PROVE CallsInvariant
    OBVIOUS
  <2>1. CallTypes
    BY DEF CallsInit, Init, CallTypes, Users
  <2>2. CallsAlive
    BY DEF CallsInit, CallsAlive, Steps
  <2>3. Referencing = {}
    BY DEF CallsInit, Referencing
  <2>4. Balanced
    BY <2>3, FS_EmptySet DEF CallsInit, Balanced
  <2> QED
    BY <2>1, <2>2, <2>4 DEF CallsInvariant
<1>2. Control => TypeControl
  BY DEF Control
<1>3. CallsInvariant /\ TypeControl /\ [CallsNext]_allVars
        => CallsInvariant'
  BY CallsInvariantStep
<1> QED
  BY <1>1, <1>2, <1>3, ControlInvariant, CallsImplementPlugin, PTL DEF CallsSpec

(* Type correctness of the calls: no reference to the subsystem is given   *)
(* back that was not taken.                                                *)
THEOREM CallsTypeCorrect == CallsSpec => []CallsTypeOK
<1>1. ASSUME CallsInvariant PROVE CallsTypeOK
  BY <1>1, FiniteUsers DEF CallsInvariant, CallTypes, Balanced, CallsTypeOK
<1> QED
  BY <1>1, CallsInvariantHolds, PTL

(* SystemInfo gives its reference to the subsystem back on every path, and *)
(* a dead process keeps none.                                              *)
THEOREM SubSystemIsGivenBack == CallsSpec => []SubSystemReferences
<1>1. ASSUME CallsInvariant PROVE SubSystemReferences
  <2>1. subSystemRefs = Cardinality({u \in Users : subSystem[u]})
    BY <1>1 DEF CallsInvariant, Balanced, Referencing
  <2>2. ASSUME NEW u \in Users, subSystem[u]
        PROVE  /\ at[u] \in {"serialNumber", "version"}
               /\ Healthy => Reachable(Target(u))
    BY <1>1, <2>2 DEF CallsInvariant, Balanced, CallsAlive, Steps
  <2> QED
    BY <2>1, <2>2 DEF SubSystemReferences
<1> QED
  BY <1>1, CallsInvariantHolds, PTL

-----------------------------------------------------------------------------
(* Calls cut short.                                                        *)

Available(o) == Reachable(o) \/ o \in crashed

(* The implementation of class c may be registered, or have a handler.     *)
Serving(c) ==
  \/ shell \in {"ACTIVATION", "ACTIVATED"}
  \/ shell = "DEACTIVATION" /\ pc \in RegisteredSteps(c) \cup {DrainStep(c)}

(* Until its handlers are gone, nothing but a death of its own ends the    *)
(* process of an implementation of the current activation.                 *)
PointerFate ==
  \A c \in Classes : Current(c) /\ Serving(c) => Available(ptr[c])

(* Nor of one that a client holds, also when it asked for it before the    *)
(* plugin was activated, until the plugin is deactivated.                  *)
HeldFate ==
  \A k \in Clients : held[k] # Null =>
    /\ held[k][2] <= gen
    /\ shell \in {"ACTIVATION", "ACTIVATED"} => held[k][2] < gen \/ Available(held[k])

Fate == PointerFate /\ HeldFate /\ CutShortOnlyByCrash

(* The framework thread ends a process by Terminate only, after which no   *)
(* class is served.                                                        *)
LEMMA ThreadFate ==
  ASSUME Control, FrameworkThread
  PROVE  /\ running \subseteq running' \/ (pc = "terminate" /\ shell' = "DEACTIVATION")
         /\ gen' = gen
         /\ shell' = "ACTIVATED" => shell = "ACTIVATION"
         /\ shell' = "ACTIVATION" => shell = "ACTIVATION"
         /\ \A c \in Classes : Current(c)' /\ Serving(c)' =>
              \/ Current(c) /\ Serving(c) /\ running \subseteq running' /\ ptr'[c] = ptr[c]
              \/ Mode = "Off" \/ ptr'[c] \in running'
<1> USE DEF Control, TypeControl, ShellControl, Transition, Current, Serving,
        RegisteredSteps, DrainStep, AudioCleanup, VideoCleanup, InitSteps, DeinitSteps,
        framework, plugin, Classes, Info, Audio, Video
<1> DEFINE Goal ==
         /\ running \subseteq running' \/ (pc = "terminate" /\ shell' = "DEACTIVATION")
         /\ gen' = gen
         /\ shell' = "ACTIVATED" => shell = "ACTIVATION"
         /\ shell' = "ACTIVATION" => shell = "ACTIVATION"
         /\ \A c \in Classes : Current(c)' /\ Serving(c)' =>
              \/ Current(c) /\ Serving(c) /\ running \subseteq running' /\ ptr'[c] = ptr[c]
              \/ Mode = "Off" \/ ptr'[c] \in running'
<1>1. ASSUME NEW c \in Classes, NEW from \in InitSteps, NEW to \in InitSteps,
             Root(c, from, to)
      PROVE  Goal
  <2>1. shell = "ACTIVATION" /\ shell' = "ACTIVATION" /\ gen' = gen /\ running \subseteq running'
    BY <1>1 DEF Root
  <2>2. \A d \in Classes \ {c} : ptr'[d] = ptr[d]
    BY <1>1 DEF Root
  <2>3. ptr'[c] = Null \/ Mode = "Off" \/ ptr'[c] \in running'
    BY <1>1, ModeAssumption DEF Root
  <2>4. ptr'[c] = Null => ~Current(c)'
    BY DEF Null
  <2> HIDE DEF Current
  <2>5. ASSUME NEW d \in Classes, Current(d)', d # c PROVE Current(d)
    BY <2>1, <2>2, <2>5 DEF Current
  <2> QED
    BY <2>1, <2>2, <2>3, <2>4, <2>5
<1>2. CASE RootsFailed \/ QueryConfiguration \/ Configure \/ Register
  BY <1>2 DEF RootsFailed, QueryConfiguration, Configure, Register
<1>3. CASE InitializeReturns
  BY <1>3 DEF InitializeReturns
<1>4. CASE Deinitialize
  BY <1>4 DEF Deinitialize
<1>5. CASE \/ Unregister(Audio, "unregisterAudio", "drainAudio")
           \/ Unregister(Video, "unregisterVideo", "drainVideo")
           \/ Unregister(Info, "unregisterInfo", "drainInfo")
  BY <1>5 DEF Unregister
<1>6. CASE \/ Drain(Audio, "drainAudio", "releaseAudio")
           \/ Drain(Video, "drainVideo", "releaseVideo")
           \/ Drain(Info, "drainInfo", "releaseConfigure")
  BY <1>6 DEF Drain
<1>7. CASE \/ Release(Audio, "releaseAudio", "clearAudio")
           \/ Release(Video, "releaseVideo", "clearVideo")
           \/ Release(Info, "releaseInfo", "clearInfo")
  BY <1>7 DEF Release
<1>8. CASE \/ Clear(Audio, "clearAudio", "unregisterVideo")
           \/ Clear(Video, "clearVideo", "unregisterInfo")
           \/ Clear(Info, "clearInfo", "terminate")
  BY <1>8 DEF Clear, Null
<1>9. CASE ReleaseConfigure \/ RemoteConnection
  BY <1>9 DEF ReleaseConfigure, RemoteConnection
<1>10. CASE Terminate
  BY <1>10 DEF Terminate
<1>11. CASE DeinitializeReturns
  BY <1>11 DEF DeinitializeReturns
<1> QED
  BY <1>1, <1>2, <1>3, <1>4, <1>5, <1>6, <1>7, <1>8, <1>9, <1>10, <1>11
  DEF FrameworkThread

(* What keeps the targets in place and ends no process but by Terminate.   *)
LEMMA ThreadFateStep ==
  ASSUME Control, CallTypes, Fate, Thread
  PROVE  Fate'
<1>1. /\ FrameworkThread /\ Interrupted /\ crashed' = crashed
      /\ Healthy /\ UNCHANGED <<held, call>>
  BY ThreadKeepsUsers DEF Thread
<1>2. PointerFate'
  <2> SUFFICES ASSUME NEW c \in Classes, Current(c)', Serving(c)'
               PROVE  Mode = "Off" \/ ptr'[c] \in running' \/ ptr'[c] \in crashed'
    BY DEF PointerFate, Available, Reachable
  <2> QED
    BY <1>1, ThreadFate DEF Fate, PointerFate, Available, Reachable
<1>3. HeldFate'
  <2> SUFFICES ASSUME NEW k \in Clients, held[k] # Null
               PROVE  /\ held[k][2] <= gen'
                      /\ shell' \in {"ACTIVATION", "ACTIVATED"}
                           => held[k][2] < gen' \/ Available(held[k])'
    BY <1>1 DEF HeldFate, Available, Reachable
  <2> QED
    BY <1>1, ThreadFate DEF Fate, HeldFate, Available, Reachable
<1>4. CutShortOnlyByCrash'
  <2> SUFFICES ASSUME NEW u \in Users, at'[u] = "unavailable"
               PROVE  \/ Target(u) \in crashed
                      \/ /\ u \in Clients
                         /\ shell' \notin {"ACTIVATION", "ACTIVATED"} \/ Target(u)[2] < gen
    BY <1>1, ThreadFate DEF CutShortOnlyByCrash, Target
  <2>1. CASE at[u] = "unavailable"
    <3>1. u \in Clients => Target(u) = held[u] /\ held[u] # Null
      BY <2>1, UsersAssumption DEF Target, CallTypes
    <3> QED
      BY <1>1, <2>1, <3>1, ThreadFate DEF Fate, CutShortOnlyByCrash, HeldFate
  <2>2. CASE at[u] # "unavailable"
    <3>1. at[u] \in Steps /\ Target(u) \in running \ running'
      BY <1>1, <2>2 DEF Interrupted
    <3>2. pc = "terminate" /\ shell' = "DEACTIVATION"
      BY <1>1, <3>1, ThreadFate
    <3>3. u \notin Workers
      BY <1>1, <3>1, <3>2
      DEF CallTypes, Steps, Control, RegistrationControl, RegisteredSteps, DrainStep,
          AudioCleanup, VideoCleanup, Classes, Info, Audio, Video
    <3> QED
      BY <3>2, <3>3 DEF Users
  <2> QED
    BY <2>1, <2>2
<1> QED
  BY <1>2, <1>3, <1>4 DEF Fate

LEMMA OthersFateStep ==
  ASSUME Control, CallTypes, Fate, Others
  PROVE  Fate'
<1> USE DEF Control, TypeControl, PointerControl, Classes, Info, Audio, Video
<1>0. UNCHANGED <<at, crashed>>
  BY DEF Others, calls
<1>1. CASE Activate
  <2>1. /\ shell' = "ACTIVATION" /\ gen' = gen + 1 /\ gen \in Nat
        /\ UNCHANGED <<ptr, running, held, call>>
    BY <1>1, ActivationAssumption DEF Activate, users
  <2>2. PointerFate'
    BY <2>1 DEF PointerFate, Current, Null
  <2>3. HeldFate'
    BY <1>0, <2>1 DEF Fate, HeldFate, Object
  <2>4. \A u \in Clients : at[u] # "none" => Target(u)[2] < gen'
    BY <2>1, UsersAssumption DEF CallTypes, Target, Fate, HeldFate, Object
  <2>5. CutShortOnlyByCrash'
    BY <1>0, <2>1, <2>4 DEF Fate, CutShortOnlyByCrash, Target
  <2> QED
    BY <2>2, <2>3, <2>5 DEF Fate
<1>2. CASE Deactivate
  <2>1. /\ shell = "ACTIVATED" /\ shell' = "DEACTIVATION"
        /\ UNCHANGED <<gen, ptr, running, held, call>>
    BY <1>2 DEF Deactivate, plugin, users
  <2>2. PointerFate'
    BY <1>0, <2>1 DEF Fate, PointerFate, Current, Serving, Available, Reachable
  <2>3. HeldFate'
    BY <2>1 DEF Fate, HeldFate
  <2>4. CutShortOnlyByCrash'
    BY <1>0, <2>1 DEF Fate, CutShortOnlyByCrash, Target
  <2> QED
    BY <2>2, <2>3, <2>4 DEF Fate
<1>3. ASSUME NEW k \in Clients, at[k] = "none", Drop(k)
      PROVE  Fate'
  <2>1. /\ UNCHANGED <<shell, gen, pc, ptr, running, call>>
        /\ held' = [held EXCEPT ![k] = Null]
    BY <1>3 DEF Drop, framework, plugin
  <2>2. PointerFate'
    BY <1>0, <2>1 DEF Fate, PointerFate, Current, Serving, Available, Reachable
  <2>3. HeldFate'
    BY <1>0, <2>1 DEF Fate, HeldFate, Available, Reachable
  <2>4. CutShortOnlyByCrash'
    BY <1>0, <1>3, <2>1 DEF Fate, CutShortOnlyByCrash, Target, Users
  <2> QED
    BY <2>2, <2>3, <2>4 DEF Fate
<1>4. ASSUME NEW k \in Clients, NEW c \in Classes, Acquire(k, c)
      PROVE  Fate'
  <2>1. /\ UNCHANGED <<shell, gen, ptr, running, call>>
        /\ held[k] = Null /\ ptr[c] # Null
        /\ pc' = pc \/ pc' = "destroyedAccess"
        /\ held' = held \/ held' = [held EXCEPT ![k] = ptr[c]]
    BY <1>4 DEF Acquire, framework, plugin
  <2>2. PointerFate'
    BY <1>0, <2>1
    DEF Fate, PointerFate, Current, Serving, Available, Reachable, RegisteredSteps,
        DrainStep, AudioCleanup, VideoCleanup
  <2>3. HeldFate'
    <3> SUFFICES ASSUME NEW x \in Clients, held'[x] # Null
                 PROVE  /\ held'[x][2] <= gen
                        /\ shell \in {"ACTIVATION", "ACTIVATED"}
                             => held'[x][2] < gen \/ Available(held'[x])
      BY <1>0, <2>1 DEF HeldFate, Available, Reachable
    <3>1. CASE held'[x] = held[x]
      BY <3>1 DEF Fate, HeldFate
    <3>2. CASE x = k /\ held'[x] = ptr[c]
      <4>1. ptr[c][2] <= gen
        BY <2>1
      <4>2. ptr[c] \in Object /\ ptr[c][1] = c
        BY <2>1
      <4>3. ptr[c][2] < gen \/ Current(c)
        BY <4>1, <4>2 DEF Current, Object
      <4>4. shell \in {"ACTIVATION", "ACTIVATED"} => ptr[c][2] < gen \/ Available(ptr[c])
        BY <4>3 DEF Fate, PointerFate, Serving
      <4> QED
        BY <3>2, <4>1, <4>4
    <3> QED
      BY <2>1, <3>1, <3>2
  <2>4. CutShortOnlyByCrash'
    <3> SUFFICES ASSUME NEW u \in Users, at[u] = "unavailable"
                 PROVE  Target(u)' = Target(u)
      BY <1>0, <2>1 DEF Fate, CutShortOnlyByCrash
    <3>1. u # k
      BY <2>1 DEF CallTypes
    <3> QED
      BY <2>1, <3>1 DEF Target, Users
  <2> QED
    BY <2>2, <2>3, <2>4 DEF Fate
<1> QED
  BY <1>1, <1>2, <1>3, <1>4 DEF Others

(* The calls themselves: a call that finds its object's process dead when  *)
(* it begins is one that the object's fate excuses.                        *)
LEMMA InvokeFateStep ==
  ASSUME Control, CallTypes, Fate, NEW w \in Workers, NEW c \in Classes,
         InvokeHandler(w, c)
  PROVE  Fate'
<1>1. /\ Healthy /\ shell \in {"ACTIVATED", "DEACTIVATION"}
      /\ registered[c] # Null /\ Begins(w, registered[c])
      /\ call' = [call EXCEPT ![w] = registered[c]]
      /\ UNCHANGED <<shell, gen, pc, ptr, running, held>>
  BY DEF InvokeHandler, Invoke, framework, plugin
<1>2. /\ at[w] = "none" /\ crashed' = crashed
      /\ at' = [at EXCEPT ![w] = at'[w]]
      /\ at'[w] = "unavailable" => ~Reachable(registered[c])
  BY <1>1 DEF Begins, Moves, CallTypes, Users
<1>3. PointerFate' /\ HeldFate'
  BY <1>1, <1>2
  DEF Fate, PointerFate, HeldFate, Current, Serving, Available, Reachable
<1>4. Available(registered[c])
  BY <1>1
  DEF Control, RegistrationControl, Fate, PointerFate, Current, Serving
<1>5. CutShortOnlyByCrash'
  <2> SUFFICES ASSUME NEW u \in Users, at'[u] = "unavailable"
               PROVE  \/ Target(u)' \in crashed
                      \/ /\ u \in Clients
                         /\ shell \notin {"ACTIVATION", "ACTIVATED"} \/ Target(u)'[2] < gen
    BY <1>1, <1>2 DEF CutShortOnlyByCrash
  <2>1. CASE u = w
    BY <1>1, <1>2, <1>4, <2>1 DEF Target, Available, Control, TypeControl
  <2>2. CASE u # w
    BY <1>1, <1>2, <2>2 DEF Fate, CutShortOnlyByCrash, Target, CallTypes
  <2> QED
    BY <2>1, <2>2
<1> QED
  BY <1>3, <1>5 DEF Fate

LEMMA CallHeldFateStep ==
  ASSUME Control, CallTypes, Fate, NEW k \in Clients, CallHeld(k)
  PROVE  Fate'
<1>1. /\ held[k] # Null /\ Begins(k, held[k])
      /\ UNCHANGED <<shell, gen, pc, ptr, running, held, call>>
  BY DEF CallHeld, vars, framework, plugin, users
<1>2. /\ at[k] = "none" /\ crashed' = crashed
      /\ at' = [at EXCEPT ![k] = at'[k]]
      /\ at'[k] = "unavailable" => ~Reachable(held[k])
  BY <1>1 DEF Begins, Moves, CallTypes, Users
<1>3. PointerFate' /\ HeldFate'
  BY <1>1, <1>2
  DEF Fate, PointerFate, HeldFate, Current, Serving, Available, Reachable
<1>4. CutShortOnlyByCrash'
  <2> SUFFICES ASSUME NEW u \in Users, at'[u] = "unavailable"
               PROVE  \/ Target(u) \in crashed
                      \/ /\ u \in Clients
                         /\ shell \notin {"ACTIVATION", "ACTIVATED"} \/ Target(u)[2] < gen
    BY <1>1, <1>2 DEF CutShortOnlyByCrash, Target
  <2>1. CASE u = k
    <3>1. Target(u) = held[k]
      BY <2>1, UsersAssumption DEF Target
    <3> QED
      BY <1>1, <1>2, <2>1, <3>1 DEF Fate, HeldFate, Available
  <2>2. CASE u # k
    BY <1>2, <2>2 DEF Fate, CutShortOnlyByCrash, CallTypes
  <2> QED
    BY <2>1, <2>2
<1> QED
  BY <1>3, <1>4 DEF Fate

LEMMA ServeFateStep ==
  ASSUME Control, CallTypes, Fate, NEW u \in Users,
         Query(u) \/ SubSystems(u) \/ SerialNumber(u) \/ Version(u) \/ Returns(u)
  PROVE  Fate'
<1>1. /\ UNCHANGED <<shell, gen, pc, ptr, running, held, crashed>>
      /\ \A v \in Workers \ {u} : call'[v] = call[v]
      /\ \A v \in Users : at'[v] = "unavailable" => v # u /\ at[v] = "unavailable"
  <2>1. CASE Query(u) \/ SubSystems(u) \/ SerialNumber(u) \/ Version(u)
    BY <2>1
    DEF Query, SubSystems, SerialNumber, Version, Moves, CallTypes, vars, framework,
        plugin, users
  <2>2. CASE Returns(u)
    <3>1. at' = [at EXCEPT ![u] = "none"] /\ crashed' = crashed
      BY <2>2 DEF Returns, Moves
    <3>2. /\ UNCHANGED <<shell, gen, pc, ptr, running, held>>
          /\ call' = call \/ call' = [call EXCEPT ![u] = Null]
      BY <2>2 DEF Returns, Respond, vars, framework, plugin, users
    <3>3. \A v \in Workers \ {u} : call'[v] = call[v]
      BY <3>2 DEF Control, TypeControl
    <3>4. \A v \in Users : at'[v] = "unavailable" => v # u /\ at[v] = "unavailable"
      BY <3>1 DEF CallTypes
    <3> QED
      BY <3>1, <3>2, <3>3, <3>4
  <2> QED
    BY <2>1, <2>2
<1>2. PointerFate' /\ HeldFate'
  BY <1>1 DEF Fate, PointerFate, HeldFate, Current, Serving, Available, Reachable
<1>3. CutShortOnlyByCrash'
  BY <1>1 DEF Fate, CutShortOnlyByCrash, Target
<1> QED
  BY <1>2, <1>3 DEF Fate

(* A process that SystemInfo ends, for want of its shell, is remembered.   *)
LEMMA UnsetFateStep ==
  ASSUME Control, CallTypes, Fate, NEW u \in Users, SubSystemsUnset(u)
  PROVE  Fate'
<1>1. PICK o \in Object : UnsetService(o)
  BY DEF SubSystemsUnset
<1>2. /\ Interrupted /\ crashed' = crashed \cup (running \ running')
      /\ UNCHANGED <<shell, gen, ptr, held, call>>
      /\ pc' = pc \/ pc' = "nullService"
  BY <1>1 DEF SubSystemsUnset, UnsetService, framework, plugin, users
<1>3. \A p : Available(p) => Available(p)'
  BY <1>2 DEF Available, Reachable
<1>4. PointerFate'
  <2> SUFFICES ASSUME NEW c \in Classes, Current(c), Serving(c)
               PROVE  Available(ptr[c])'
    BY <1>2
    DEF PointerFate, Current, Serving, Available, Reachable, RegisteredSteps, DrainStep,
        AudioCleanup, VideoCleanup, Classes, Info, Audio, Video
  <2> QED
    BY <1>2, <1>3 DEF Fate, PointerFate, Available, Reachable
<1>5. HeldFate'
  <2> SUFFICES ASSUME NEW k \in Clients, held[k] # Null, Available(held[k])
               PROVE  Available(held[k])'
    BY <1>2 DEF Fate, HeldFate
  <2> QED
    BY <1>2, <1>3 DEF Available, Reachable
<1>6. CutShortOnlyByCrash'
  <2> SUFFICES ASSUME NEW v \in Users, at'[v] = "unavailable"
               PROVE  \/ Target(v) \in crashed'
                      \/ /\ v \in Clients
                         /\ shell \notin {"ACTIVATION", "ACTIVATED"} \/ Target(v)[2] < gen
    BY <1>2 DEF CutShortOnlyByCrash, Target
  <2>1. CASE at[v] = "unavailable"
    BY <1>2, <2>1 DEF Fate, CutShortOnlyByCrash
  <2>2. CASE at[v] # "unavailable"
    BY <1>2, <2>2 DEF Interrupted
  <2> QED
    BY <2>1, <2>2
<1> QED
  BY <1>4, <1>5, <1>6 DEF Fate

(* A process that dies on its own is remembered; one that ends willingly   *)
(* was released by everybody.                                              *)
LEMMA ProcessFateStep ==
  ASSUME Control, Counting, UsersLive, CallTypes, Fate, NEW o \in Object,
         Dies(o) \/ Exits(o)
  PROVE  Fate'
<1>1. /\ Healthy /\ Interrupted /\ running' = running \ {o} /\ crashed \subseteq crashed'
      /\ UNCHANGED <<shell, gen, pc, ptr, held, call>>
      /\ o \in crashed' \/ refs[o] = 0
  BY DEF Dies, Exits, Crash, Exit, ProcessEnds, framework, plugin, users
<1>2. \A p \in Object : Available(p) => Available(p)' \/ (p = o /\ refs[o] = 0)
  BY <1>1 DEF Available, Reachable
<1>3. PointerFate'
  <2> SUFFICES ASSUME NEW c \in Classes, Current(c), Serving(c)
               PROVE  Available(ptr[c])'
    BY <1>1 DEF PointerFate, Current, Serving, Available, Reachable
  <2>1. Available(ptr[c]) /\ ptr[c] = <<c, gen>>
    BY DEF Fate, PointerFate, Current
  <2>2. ptr[c] \in Object /\ "plugin" \in Holders(ptr[c])
    BY <1>1, <2>1
    DEF Control, TypeControl, ShellControl, Serving, RegisteredSteps, DrainStep,
        AudioCleanup, VideoCleanup, DeinitSteps, Holders, PluginHolds, ClearStep,
        Classes, Info, Audio, Video, Object, Null
  <2>3. refs[ptr[c]] >= 1
    BY <1>1, <2>2, HeldIsCounted DEF Counting, Covered
  <2> QED
    BY <1>1, <1>2, <2>1, <2>2, <2>3
<1>4. HeldFate'
  <2> SUFFICES ASSUME NEW k \in Clients, held[k] # Null, Available(held[k])
               PROVE  Available(held[k])'
    BY <1>1 DEF Fate, HeldFate
  <2>1. held[k] \in Object /\ refs[held[k]] > 0
    BY <1>1 DEF Control, TypeControl, UsersLive
  <2>2. CASE Mode = "Off" \/ held[k] \in crashed
    BY <1>1, <2>2 DEF Available, Reachable
  <2>3. CASE held[k] \in running
    <3>1. held[k] # o \/ o \in crashed'
      BY <1>1, <2>1
    <3> QED
      BY <1>1, <2>3, <3>1 DEF Available, Reachable
  <2> QED
    BY <2>2, <2>3 DEF Available, Reachable
<1>5. CutShortOnlyByCrash'
  <2> SUFFICES ASSUME NEW u \in Users, at'[u] = "unavailable"
               PROVE  \/ Target(u) \in crashed'
                      \/ /\ u \in Clients
                         /\ shell \notin {"ACTIVATION", "ACTIVATED"} \/ Target(u)[2] < gen
    BY <1>1 DEF CutShortOnlyByCrash, Target
  <2>1. CASE at[u] = "unavailable"
    BY <1>1, <2>1 DEF Fate, CutShortOnlyByCrash
  <2>2. CASE at[u] # "unavailable"
    <3>1. at[u] \in Steps /\ Target(u) = o
      BY <1>1, <2>2 DEF Interrupted
    <3>2. refs[Target(u)] > 0
      BY <1>1, <3>1, UsersAssumption DEF Target, Users, CallTypes, Steps, UsersLive
    <3> QED
      BY <1>1, <3>1, <3>2
  <2> QED
    BY <2>1, <2>2
<1> QED
  BY <1>3, <1>4, <1>5 DEF Fate

(* Deinitialize cuts no JSON-RPC request short: only a process that died   *)
(* on its own does, and a deactivation only the calls of COM-RPC clients.  *)
THEOREM RequestsAreNotCutShort == CallsSpec => []CutShortOnlyByCrash
<1>1. ASSUME CallsInit
      PROVE  Fate
  <2>1. PointerFate
    BY <1>1 DEF CallsInit, Init, PointerFate, Serving
  <2>2. HeldFate
    BY <1>1 DEF CallsInit, Init, HeldFate
  <2>3. CutShortOnlyByCrash
    BY <1>1 DEF CallsInit, CutShortOnlyByCrash
  <2> QED
    BY <2>1, <2>2, <2>3 DEF Fate
<1>2. ASSUME Control, Counting, UsersLive, CallTypes, Fate, [CallsNext]_allVars
      PROVE  Fate'
  <2>1. CASE UNCHANGED allVars
    BY <1>2, <2>1
    DEF allVars, vars, framework, plugin, users, calls, Fate, PointerFate, Current,
        Serving, HeldFate, CutShortOnlyByCrash, Target, Available, Reachable
  <2> QED
    BY <1>2, <2>1, ThreadFateStep, OthersFateStep, InvokeFateStep, CallHeldFateStep,
       ServeFateStep, UnsetFateStep, ProcessFateStep
    DEF CallsNext, Serve
<1>3. CallsInvariant => CallTypes
  BY DEF CallsInvariant
<1>4. Fate => CutShortOnlyByCrash
  BY DEF Fate
<1>5. Control /\ Counting /\ UsersLive /\ CallTypes /\ Fate /\ [CallsNext]_allVars => Fate'
  BY <1>2
<1> QED
  BY <1>1, <1>3, <1>4, <1>5, ControlInvariant, CountingInvariant, UsersStayLive,
     CallsInvariantHolds, CallsImplementPlugin, PTL DEF CallsSpec
=============================================================================
