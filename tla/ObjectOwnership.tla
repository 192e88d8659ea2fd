-------------------------- MODULE ObjectOwnership --------------------------
(***************************************************************************)
(* What the plugin promises about its implementation objects, with no      *)
(* counter and no pointer: an object is made for one holder, is handed on  *)
(* only while somebody holds it, and is gone for good the moment the last  *)
(* holder gives it back. DeviceInfoPlugin implements this with the         *)
(* reference counts of Initialize, Deinitialize and the COM-RPC clients.   *)
(***************************************************************************)
EXTENDS FiniteSets

CONSTANTS Object, Holder

VARIABLES
  holders,  \* per object: who has a reference to it
  gone      \* the objects that were destroyed

vars == <<holders, gone>>

Live(o) == holders[o] # {}

Init == holders = [o \in Object |-> {}] /\ gone = {}

Create(o, h) ==
  /\ ~Live(o) /\ o \notin gone
  /\ holders' = [holders EXCEPT ![o] = {h}]
  /\ UNCHANGED gone

Grant(o, h) ==
  /\ Live(o) /\ h \notin holders[o]
  /\ holders' = [holders EXCEPT ![o] = @ \cup {h}]
  /\ UNCHANGED gone

GiveBack(o, h) ==
  /\ h \in holders[o]
  /\ holders' = [holders EXCEPT ![o] = @ \ {h}]
  /\ gone' = IF holders[o] = {h} THEN gone \cup {o} ELSE gone

(* Each action changes who holds its object: said first, it spares TLC the *)
(* search for the holder of any other.                                     *)
Next == \E o \in Object :
          /\ holders'[o] # holders[o]
          /\ \E h \in Holder : Create(o, h) \/ Grant(o, h) \/ GiveBack(o, h)

Spec == Init /\ [][Next]_vars
=============================================================================
