-------------------------- MODULE DeviceInfoRequests --------------------------
(***************************************************************************)
(* Requests that go through the plugin shell into an implementation: a     *)
(* JSON-RPC worker or a COM-RPC client calls a getter of an object, which  *)
(* may be in a process of its own, while the plugin is deinitialized       *)
(* around it and processes die. SystemInfo is followed step by step, since *)
(* it calls back into the framework and takes a reference there; the other *)
(* getters keep to their object (DeviceInfoQueries, DeviceListings).       *)
(*                                                                         *)
(* This is DeviceInfoPlugin with its users' calls: a step is one of that   *)
(* module, together with what it does to the calls, or a step of a call.   *)
(***************************************************************************)
EXTENDS DeviceInfoPlugin

ASSUME UsersAssumption == Clients \cap Workers = {} /\ IsFiniteSet(Workers)

VARIABLES
  at,             \* per user: the step its call is at, or how it ended
  subSystem,      \* per user: local _subSystem of SystemInfo is set
  subSystemRefs,  \* references to the framework's ISubSystem that were taken
  crashed         \* history: the objects whose process crashed

calls   == <<at, subSystem, subSystemRefs>>
allVars == <<vars, calls, crashed>>

Users  == Clients \cup Workers
Steps  == {"query", "subSystems", "serialNumber", "version"}
Ended  == {"answered", "unavailable"}

(* The object a user calls: a worker the one its handler captured, a       *)
(* client the one it holds.                                                *)
Target(u) == IF u \in Workers THEN call[u] ELSE held[u]

CallsInit ==
  /\ Init
  /\ at = [u \in Users |-> "none"] /\ subSystem = [u \in Users |-> FALSE]
  /\ subSystemRefs = 0 /\ crashed = {}

-----------------------------------------------------------------------------
(* The calls.                                                              *)

Moves(u, from, to) == at[u] = from /\ at' = [at EXCEPT ![u] = to]

(* User u calls object o; there is nobody to answer when its process is    *)
(* dead.                                                                   *)
Begins(u, o) ==
  /\ \E first \in IF ~Reachable(o) THEN {"unavailable"}
                  ELSE IF o[1] = Info THEN {"query", "subSystems"} ELSE {"query"} :
       Moves(u, "none", first)
  /\ UNCHANGED <<subSystem, subSystemRefs, crashed>>

InvokeHandler(w, c) == Invoke(w, c) /\ Begins(w, registered[c])

CallHeld(k) ==
  /\ Healthy /\ held[k] # Null
  /\ Begins(k, held[k])
  /\ UNCHANGED vars

(* A getter that needs nothing of the framework.                           *)
Query(u) ==
  /\ Healthy
  /\ Moves(u, "query", "answered")
  /\ UNCHANGED <<vars, subSystem, subSystemRefs, crashed>>

(* _service->SubSystems(): the framework hands out a reference, or nothing.*)
SubSystems(u) ==
  /\ Healthy /\ Target(u) \in configured
  /\ Moves(u, "subSystems", "serialNumber")
  /\ \/ /\ subSystem' = [subSystem EXCEPT ![u] = TRUE]
        /\ subSystemRefs' = subSystemRefs + 1
     \/ UNCHANGED <<subSystem, subSystemRefs>>
  /\ UNCHANGED <<vars, crashed>>

(* Mutant: SystemInfo fails when SerialNumber does.                        *)
SerialNumberChecked(u) ==
  /\ Healthy
  /\ \/ Moves(u, "serialNumber", "version") /\ UNCHANGED subSystem
     \/ Moves(u, "serialNumber", "answered") /\ subSystem' = [subSystem EXCEPT ![u] = FALSE]
  /\ UNCHANGED <<vars, subSystemRefs, crashed>>

(* SerialNumber(deviceSerial), whose result is ignored.                    *)
SerialNumber(u) ==
  /\ Healthy
  /\ Moves(u, "serialNumber", "version")
  /\ UNCHANGED <<vars, subSystem, subSystemRefs, crashed>>

(* Mutant: the reference is given back twice.                              *)
VersionReleasesTwice(u) ==
  /\ Healthy
  /\ Moves(u, "version", "answered")
  /\ subSystem' = [subSystem EXCEPT ![u] = FALSE]
  /\ subSystemRefs' = subSystemRefs - (IF subSystem[u] THEN 2 ELSE 0)
  /\ UNCHANGED <<vars, crashed>>

(* The version is asked of the subsystem, if there is one, and the rest of *)
(* the answer of the operating system; then the reference is given back.   *)
Version(u) ==
  /\ Healthy
  /\ Moves(u, "version", "answered")
  /\ subSystem' = [subSystem EXCEPT ![u] = FALSE]
  /\ subSystemRefs' = subSystemRefs - (IF subSystem[u] THEN 1 ELSE 0)
  /\ UNCHANGED <<vars, crashed>>

(* The user has its answer, or its error.                                  *)
Returns(u) ==
  /\ \E end \in Ended : Moves(u, end, "none")
  /\ IF u \in Workers THEN Respond(u) ELSE Healthy /\ UNCHANGED vars
  /\ UNCHANGED <<subSystem, subSystemRefs, crashed>>

(* The calls into a process that ends with this step fail, and the         *)
(* framework recovers the references that process had.                     *)
Interrupted ==
  LET cut == {u \in Users : at[u] \in Steps /\ Target(u) \in running \ running'} IN
  /\ at' = [u \in Users |-> IF u \in cut THEN "unavailable" ELSE at[u]]
  /\ subSystem' = [u \in Users |-> u \notin cut /\ subSystem[u]]
  /\ subSystemRefs' = subSystemRefs - Cardinality({u \in cut : subSystem[u]})

(* SystemInfo finds _service null.                                         *)
SubSystemsUnset(u) ==
  /\ at[u] = "subSystems"
  /\ \E o \in Object : o = Target(u) /\ UnsetService(o)
  /\ Interrupted
  /\ crashed' = crashed \cup (running \ running')

Serve(u) ==
  Query(u) \/ SubSystems(u) \/ SubSystemsUnset(u) \/ SerialNumber(u) \/ Version(u)
    \/ Returns(u)

Thread == FrameworkThread /\ Interrupted /\ UNCHANGED crashed

(* What else the framework and the clients do; a client keeps the object   *)
(* it is calling.                                                          *)
Others ==
  /\ \/ Activate \/ Deactivate
     \/ \E k \in Clients : (at[k] = "none" /\ Drop(k)) \/ \E c \in Classes : Acquire(k, c)
  /\ UNCHANGED <<calls, crashed>>

Dies(o)  == Crash(o) /\ Interrupted /\ crashed' = crashed \cup {o}
Exits(o) == Exit(o) /\ Interrupted /\ UNCHANGED crashed

CallsNext ==
  \/ Thread \/ Others
  \/ \E w \in Workers, c \in Classes : InvokeHandler(w, c)
  \/ \E k \in Clients : CallHeld(k)
  \/ \E u \in Users : Serve(u)
  \/ \E o \in Object : Dies(o) \/ Exits(o)

CallsSpec == CallsInit /\ [][CallsNext]_allVars

(* As in DeviceInfoPlugin, where a handler returns if it goes on serving.  *)
FairCallsSpec ==
  /\ CallsSpec
  /\ WF_vars(FrameworkThread)
  /\ \A u \in Users : WF_calls(Serve(u))
  /\ \A o \in Object : WF_vars(Exit(o))

-----------------------------------------------------------------------------
(* Properties.                                                             *)

(* The type invariant, of this module's variables.                         *)
CallsTypeOK ==
  /\ at \in [Users -> {"none"} \cup Steps \cup Ended]
  /\ subSystem \in [Users -> BOOLEAN]
  /\ subSystemRefs \in Nat
  /\ crashed \subseteq Object
  /\ \A w \in Workers : at[w] = "none" <=> call[w] = Null
  /\ \A k \in Clients : at[k] # "none" => held[k] # Null

(* The references to the subsystem are those of the calls of SystemInfo    *)
(* between SubSystems() and the Release at its end, in processes that are  *)
(* alive: whatever SerialNumber answers, and wherever a call is cut short. *)
SubSystemReferences ==
  /\ subSystemRefs = Cardinality({u \in Users : subSystem[u]})
  /\ \A u \in Users : subSystem[u] => /\ at[u] \in {"serialNumber", "version"}
                                      /\ Healthy => Reachable(Target(u))

(* Deinitialize ends the process of _connectionId by force and waits for   *)
(* the JSON-RPC handlers before: a request is cut short only by a process  *)
(* that died on its own, a COM-RPC call also by the deactivation of the    *)
(* plugin it came through, or by an Initialize that failed.                *)
CutShortOnlyByCrash ==
  \A u \in Users : at[u] = "unavailable" =>
    \/ Target(u) \in crashed
    \/ u \in Clients /\ (shell \notin {"ACTIVATION", "ACTIVATED"} \/ Target(u)[2] < gen)
=============================================================================
