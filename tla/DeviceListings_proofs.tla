------------------------ MODULE DeviceListings_proofs ------------------------
(***************************************************************************)
(* Proofs about DeviceListings, for all ports, lengths and numbers of      *)
(* changes.                                                                *)
(*                                                                         *)
(* A getter is at a port that the caller meant and that was there; it      *)
(* walks over one answer of that port, or over one listing, and has        *)
(* collected what it should of the part behind it. What it found is what   *)
(* it tells at the end, and an error keeps the cause it had.               *)
(***************************************************************************)
EXTENDS DeviceListings, SequenceTheorems, TLAPS

-----------------------------------------------------------------------------
(* The invariants.                                                         *)

Masks   == {"AudioCapabilities", "MS12Capabilities"}
Walkers == {"SupportedMS12AudioProfiles", "SupportedResolutions", "SupportedAudioPorts",
            "SupportedVideoDisplays", "Addresses"}

Names  == 1 .. MaxAdapters
IPs    == Names \X (1 .. MaxAddresses)

(* What a getter walks over has these items.                               *)
Pieces == IF getter = "Addresses" THEN [name : Names, ips : Seq(IPs)] ELSE Members

(* The types, as an inductive invariant.                                   *)
Types ==
  /\ getter \in Getters \cup {"none"}
  /\ at \in {"idle", "finish"} \cup Calls \cup Results
  /\ at = "idle" <=> getter = "none"
  /\ result \in Results /\ thrown \in BOOLEAN /\ written \in BOOLEAN /\ success \in BOOLEAN
  /\ default \in IF getter \in PortGetters THEN Ports ELSE {""}
  /\ present \subseteq Ports /\ has \in [Ports -> Settings(getter)]
  /\ listing \in Listings(getter)
  /\ had \in [Ports -> SUBSET Settings(getter)] /\ there \subseteq Ports
  /\ argument \in Ports \cup {""}
  /\ port \in Ports \cup {""} /\ (at \in {"port", "ask"} => port \in Ports)
  /\ list \in Seq(Members) /\ rest \in Seq(Pieces)
  /\ nodeName \in {<<>>} \cup IPs /\ (nodeName # <<>> => getter = "Addresses")

(* Where each getter goes, and what it has written by then.                *)
Phases ==
  /\ at = "idle" => had = [p \in Ports |-> {}] /\ there = {}
  /\ at \in {"default", "port", "ask"} => getter \in PortGetters
  /\ at = "default" => argument = ""
  /\ at = "list" => getter \notin PortGetters
  /\ at = "item" => getter \in Walkers
  /\ at \in {"idle", "item"} \cup Calls =>
       result = "ERROR_NONE" /\ ~written /\ ~success /\ ~thrown
  /\ at \in {"idle", "default", "port", "ask", "list"} => list = <<>> /\ rest = <<>>
  /\ at = "finish" => ~success /\ (written <=> result = "ERROR_NONE" /\ getter \notin ByList)
  /\ getter = "Addresses" => result = "ERROR_NONE"
  /\ at \in Results => /\ result = at /\ (written <=> Succeeded)
                       /\ (success <=> Succeeded /\ getter \in ByList \ {"Addresses"})

(* The history knows of what there is, and of the port the call is about.  *)
Observed ==
  /\ getter # "none" => /\ default \in defaults /\ present \subseteq there
                        /\ Ports \ present \subseteq missing
                        /\ \A p \in there : has[p] \in had[p]
  /\ at \in {"port", "ask"} => port \in Meant
  /\ at = "ask" => port \in there
  /\ at \in {"item", "finish", "ERROR_NONE"} /\ result = "ERROR_NONE" /\ getter \in PortGetters
       => port \in Ports /\ port \in Meant \cap there

(* An error has its cause from the start.                                  *)
Caused ==
  result = "ERROR_GENERAL" =>
    \/ thrown
    \/ getter \in PortGetters /\ Meant \cap missing # {}
    \/ getter = "SupportedHdcp" /\ \E p \in Meant : "dsHDCP_VERSION_MAX" \in had[p]
    \/ getter = "HostEDID" /\ listing > 65535

(* What list l should hold after m turns over the items of L.              *)
Collected(l, L, m) ==
  CASE getter = "SupportedVideoDisplays" ->
         /\ Items(l) = {L[n] : n \in 1 .. m}
         /\ \A i, j \in DOMAIN l : i < j =>
              \E k \in 1 .. m : L[k] = l[i] /\ \A n \in 1 .. k : L[n] # l[j]
    [] getter = "Addresses" ->
         /\ Len(l) = m
         /\ \A i \in 1 .. m : /\ l[i].name = L[i].name
                              /\ L[i].ips # <<>> => l[i].ip = L[i].ips[Len(L[i].ips)]
    [] OTHER -> Len(l) = m /\ \A i \in 1 .. m : l[i] = L[i]

(* What it walks over: an answer of the port, or the listing.              *)
Basis == IF getter \in PortGetters THEN had[port] ELSE {listing}

(* Part of L is left, and the part before it is collected.                 *)
Walked(L) ==
  \E m \in 0 .. Len(L) :
    /\ Len(rest) = Len(L) - m /\ \A i \in 1 .. Len(rest) : rest[i] = L[m + i]
    /\ Collected(list, L, m)

Walking == at = "item" => \E L \in Basis : Walked(L)

(* Answer a tells all there is to tell.                                    *)
Told(a) ==
  CASE getter \in Walkers -> \E L \in Basis : Collected(a, L, Len(L))
    [] getter = "AudioCapabilities" ->
         \E s \in had[port] :
           Items(a) = IF s = {} THEN {"AUDIOCAPABILITY_NONE"} ELSE s \ {"unknown"}
    [] getter = "MS12Capabilities" ->
         \E s \in had[port] :
           Items(a) = IF s = {} THEN {"MS12CAPABILITY_NONE"} ELSE s \ {"unknown"}
    [] getter = "DefaultResolution" -> a \in had[port]
    [] getter = "SupportedHdcp" ->
         \E s \in had[port] : <<s, a>> \in {<<"dsHDCP_VERSION_1X", "HDCP_14">>,
                                            <<"dsHDCP_VERSION_2X", "HDCP_22">>}
    [] getter = "HostEDID" -> a = listing

Telling ==
  /\ at = "finish" /\ result = "ERROR_NONE" => Told(IF getter \in ByList THEN list ELSE answer)
  /\ Succeeded => Told(answer) /\ (getter \in ByList => answer \in Seq(Members))

-----------------------------------------------------------------------------
(* What the other parties answer, and what is made of it.                  *)

LEMMA ListsAreSequences ==
  ASSUME NEW S, NEW max \in Nat, NEW L \in Lists(S, max)
  PROVE  L \in Seq(S) /\ Len(L) \in Nat
<1>1. PICK n \in 0 .. max : L \in [1 .. n -> S]
  BY DEF Lists
<1> QED
  BY <1>1

LEMMA ItemsOfJoin ==
  ASSUME NEW S, NEW s \in Seq(S), NEW t \in Seq(S)
  PROVE  s \o t \in Seq(S) /\ Items(s \o t) = Items(s) \cup Items(t)
<1> DEFINE st == s \o t
<1>1. st \in Seq(S) /\ Len(st) = Len(s) + Len(t)
  OBVIOUS
<1>2. \A i \in DOMAIN s : i \in DOMAIN st /\ st[i] = s[i]
  OBVIOUS
<1>3. \A i \in DOMAIN t : i + Len(s) \in DOMAIN st /\ st[i + Len(s)] = t[i]
  OBVIOUS
<1>4. \A i \in DOMAIN st : i \in DOMAIN s \/ \E j \in DOMAIN t : i = j + Len(s)
  <2>1. TAKE i \in DOMAIN st
  <2>2. CASE i <= Len(s)
    BY <2>2
  <2>3. CASE ~(i <= Len(s))
    <3>1. i - Len(s) \in DOMAIN t /\ i = (i - Len(s)) + Len(s)
      BY <1>1, <2>3
    <3> QED
      BY <3>1
  <2> QED
    BY <2>2, <2>3
<1> HIDE DEF st
<1>5. {st[i] : i \in DOMAIN st} = {s[i] : i \in DOMAIN s} \cup {t[i] : i \in DOMAIN t}
  <2>1. ASSUME NEW i \in DOMAIN st
        PROVE  st[i] \in {s[j] : j \in DOMAIN s} \cup {t[j] : j \in DOMAIN t}
    BY <1>2, <1>3, <1>4, <2>1
  <2>2. ASSUME NEW i \in DOMAIN s PROVE s[i] \in {st[j] : j \in DOMAIN st}
    BY <1>2, <2>2
  <2>3. ASSUME NEW i \in DOMAIN t PROVE t[i] \in {st[j] : j \in DOMAIN st}
    BY <1>3, <2>3
  <2> QED
    BY <2>1, <2>2, <2>3
<1> QED
  BY <1>1, <1>5 DEF st, Items

LEMMA IfItems ==
  ASSUME NEW mask, NEW bit, NEW S, bit \in S
  PROVE  /\ If(bit, mask) \in Seq(S) /\ Items(If(bit, mask)) = {bit} \cap mask
         /\ IfNone(mask, bit) \in Seq(S)
         /\ Items(IfNone(mask, bit)) = IF mask = {} THEN {bit} ELSE {}
<1>1. <<bit>> \in Seq(S) /\ Items(<<bit>>) = {bit}
  BY DEF Items
<1>2. <<>> \in Seq(S) /\ Items(<<>>) = {}
  BY DEF Items
<1> QED
  BY <1>1, <1>2 DEF If, IfNone

(* A mask becomes the list of the bits that the code tests.                *)
LEMMA AudioListTells ==
  ASSUME NEW s \in AudioMasks, NEW S,
         S = {"AUDIOCAPABILITY_NONE", "ATMOS", "DD", "DDPLUS", "DAD", "DAPv2", "MS12"}
  PROVE  /\ AudioList(s) \in Seq(S)
         /\ Items(AudioList(s)) = IF s = {} THEN {"AUDIOCAPABILITY_NONE"} ELSE s \ {"unknown"}
<1> DEFINE a0 == IfNone(s, "AUDIOCAPABILITY_NONE")
           a1 == a0 \o If("ATMOS", s)
           a2 == a1 \o If("DD", s)
           a3 == a2 \o If("DDPLUS", s)
           a4 == a3 \o If("DAD", s)
           a5 == a4 \o If("DAPv2", s)
           a6 == a5 \o If("MS12", s)
<1>0. a0 \in Seq(S) /\ Items(a0) = IF s = {} THEN {"AUDIOCAPABILITY_NONE"} ELSE {}
  <2>1. "AUDIOCAPABILITY_NONE" \in S
    OBVIOUS
  <2> QED
    BY <2>1, IfItems
<1> HIDE DEF a0
<1>1. a1 \in Seq(S) /\ Items(a1) = Items(a0) \cup ({"ATMOS"} \cap s)
  BY <1>0, IfItems, ItemsOfJoin
<1> HIDE DEF a1
<1>2. a2 \in Seq(S) /\ Items(a2) = Items(a1) \cup ({"DD"} \cap s)
  BY <1>1, IfItems, ItemsOfJoin
<1> HIDE DEF a2
<1>3. a3 \in Seq(S) /\ Items(a3) = Items(a2) \cup ({"DDPLUS"} \cap s)
  BY <1>2, IfItems, ItemsOfJoin
<1> HIDE DEF a3
<1>4. a4 \in Seq(S) /\ Items(a4) = Items(a3) \cup ({"DAD"} \cap s)
  BY <1>3, IfItems, ItemsOfJoin
<1> HIDE DEF a4
<1>5. a5 \in Seq(S) /\ Items(a5) = Items(a4) \cup ({"DAPv2"} \cap s)
  BY <1>4, IfItems, ItemsOfJoin
<1> HIDE DEF a5
<1>6. a6 \in Seq(S) /\ Items(a6) = Items(a5) \cup ({"MS12"} \cap s)
  BY <1>5, IfItems, ItemsOfJoin
<1>7. a6 = AudioList(s)
  BY DEF a0, a1, a2, a3, a4, a5, AudioList
<1> HIDE DEF a6
<1>8. s \subseteq {"ATMOS", "DD", "DDPLUS", "DAD", "DAPv2", "MS12", "unknown"}
  BY MasksAssumption DEF AudioBits
<1>9. Items(a6) = IF s = {} THEN {"AUDIOCAPABILITY_NONE"} ELSE s \ {"unknown"}
  BY <1>0, <1>1, <1>2, <1>3, <1>4, <1>5, <1>6, <1>8
<1> QED
  BY <1>6, <1>7, <1>9

LEMMA MS12ListTells ==
  ASSUME NEW s \in MS12Masks, NEW S,
         S = {"MS12CAPABILITY_NONE", "DolbyVolume", "InteligentEqualizer", "DialogueEnhancer"}
  PROVE  /\ MS12List(s) \in Seq(S)
         /\ Items(MS12List(s)) = IF s = {} THEN {"MS12CAPABILITY_NONE"} ELSE s \ {"unknown"}
<1> DEFINE a0 == IfNone(s, "MS12CAPABILITY_NONE")
           a1 == a0 \o If("DolbyVolume", s)
           a2 == a1 \o If("InteligentEqualizer", s)
           a3 == a2 \o If("DialogueEnhancer", s)
<1>0. a0 \in Seq(S) /\ Items(a0) = IF s = {} THEN {"MS12CAPABILITY_NONE"} ELSE {}
  BY IfItems
<1> HIDE DEF a0
<1>1. a1 \in Seq(S) /\ Items(a1) = Items(a0) \cup ({"DolbyVolume"} \cap s)
  BY <1>0, IfItems, ItemsOfJoin
<1> HIDE DEF a1
<1>2. a2 \in Seq(S) /\ Items(a2) = Items(a1) \cup ({"InteligentEqualizer"} \cap s)
  BY <1>1, IfItems, ItemsOfJoin
<1> HIDE DEF a2
<1>3. a3 \in Seq(S) /\ Items(a3) = Items(a2) \cup ({"DialogueEnhancer"} \cap s)
  BY <1>2, IfItems, ItemsOfJoin
<1>4. a3 = MS12List(s)
  BY DEF a0, a1, a2, MS12List
<1> HIDE DEF a3
<1>5. s \subseteq {"DolbyVolume", "InteligentEqualizer", "DialogueEnhancer", "unknown"}
  BY MasksAssumption DEF MS12Bits
<1>6. Items(a3) = IF s = {} THEN {"MS12CAPABILITY_NONE"} ELSE s \ {"unknown"}
  BY <1>0, <1>1, <1>2, <1>3, <1>5
<1> QED
  BY <1>3, <1>4, <1>6

(* The adapters, in a list, each with its list of addresses.               *)
LEMMA AdapterLists ==
  ASSUME NEW L \in Adapters
  PROVE  L \in Seq([name : Names, ips : Seq(IPs)])
<1> DEFINE Piece == [name : Names, ips : Seq(IPs)]
           AddressesOf(a, c) == [k \in 1 .. c |-> <<a, k>>]
           Made(n) == {[a \in 1 .. n |-> [name |-> a, ips |-> AddressesOf(a, count[a])]]
                       : count \in [1 .. n -> 0 .. MaxAddresses]}
<1>0. Adapters = UNION {Made(n) : n \in 0 .. MaxAdapters}
  BY Zenon DEF Adapters
<1> HIDE DEF Made
<1>1. PICK n \in 0 .. MaxAdapters : L \in Made(n)
  BY <1>0
<1> HIDE DEF AddressesOf
<1>2. PICK count \in [1 .. n -> 0 .. MaxAddresses] :
        L = [a \in 1 .. n |-> [name |-> a, ips |-> AddressesOf(a, count[a])]]
  BY <1>1 DEF Made
<1> USE DEF AddressesOf
<1>3. MaxAdapters \in Nat /\ MaxAddresses \in Nat /\ n \in Nat
  BY LengthAssumption
<1>4. ASSUME NEW a \in Names, NEW c \in 0 .. MaxAddresses
      PROVE  AddressesOf(a, c) \in Seq(IPs)
  <2>1. \A k \in 1 .. c : <<a, k>> \in IPs
    BY <1>3 DEF IPs
  <2>2. c \in Nat /\ AddressesOf(a, c) \in [1 .. c -> IPs]
    BY <1>3, <2>1
  <2> QED
    BY <2>2
<1> HIDE DEF AddressesOf
<1>5. ASSUME NEW a \in 1 .. n PROVE L[a] \in Piece
  <2>1. a \in Names /\ count[a] \in 0 .. MaxAddresses
    BY <1>3 DEF Names
  <2> QED
    BY <1>2, <1>4, <2>1
<1>6. L \in [1 .. n -> Piece]
  BY <1>2, <1>5
<1> HIDE DEF Piece
<1>7. L \in Seq(Piece)
  BY <1>3, <1>6
<1> QED
  BY <1>7 DEF Piece

-----------------------------------------------------------------------------
(* The steps of a getter, by what they do to its list.                     *)

(* What no step of a getter changes.                                       *)
Kept == UNCHANGED <<default, present, has, listing, changes, getter, argument,
                    defaults, there, missing, had>>

LEMMA KeptMeaning ==
  ASSUME Kept
  PROVE  /\ Members' = Members /\ Pieces' = Pieces /\ Meant' = Meant
         /\ port' = port => Basis' = Basis
BY DEF Kept, Members, Pieces, Meant, Basis

(* What a getter walks over is a list of what it collects from.            *)
LEMMA BasisTyped ==
  ASSUME Types, getter \in Walkers, getter \in PortGetters => port \in Ports, NEW L \in Basis
  PROVE  L \in Seq(Pieces)
<1>1. CASE getter = "SupportedMS12AudioProfiles"
  <2>1. L \in Lists(Profiles, MaxLength)
    BY <1>1 DEF Types, Basis, PortGetters, Settings
  <2>2. Pieces = Profiles
    BY <1>1 DEF Pieces, Members
  <2> QED
    BY <2>1, <2>2, ListsAreSequences, LengthAssumption
<1>2. CASE getter = "SupportedResolutions"
  <2>1. L \in Lists(Resolutions, MaxLength)
    BY <1>2 DEF Types, Basis, PortGetters, Settings
  <2>2. Pieces = Resolutions
    BY <1>2 DEF Pieces, Members
  <2> QED
    BY <2>1, <2>2, ListsAreSequences, LengthAssumption
<1>3. CASE getter \in PortLists
  <2>1. L \in Lists(Ports, MaxListed)
    BY <1>3 DEF Types, Basis, PortGetters, PortLists, Listings
  <2>2. Pieces = Ports
    BY <1>3 DEF Pieces, Members, PortLists
  <2> QED
    BY <2>1, <2>2, ListsAreSequences, LengthAssumption
<1>4. CASE getter = "Addresses"
  <2>1. L \in Adapters
    BY <1>4 DEF Types, Basis, PortGetters, PortLists, Listings
  <2> QED
    BY <1>4, <2>1, AdapterLists DEF Pieces
<1> QED
  BY <1>1, <1>2, <1>3, <1>4 DEF Walkers, PortLists

(* A walk begins at the head of such a list, with nothing collected.       *)
Starts ==
  /\ getter \in Walkers /\ at \in {"ask", "list"} /\ at' = "item"
  /\ rest' \in Basis /\ list = <<>>
  /\ UNCHANGED <<thrown, result, port, list, nodeName, written, answer, success>>

LEMMA WalkStarts ==
  ASSUME Types, Phases, Observed,
         \/ SupportedMS12AudioProfiles \/ SupportedResolutions
         \/ SupportedAudioPorts \/ SupportedVideoDisplays \/ Addresses
  PROVE  Kept /\ Starts
<1> USE DEF Walk, Takes, world, seen, output, Kept, Starts, Basis, Walkers, PortGetters
<1>1. ASSUME NEW g \in {"SupportedMS12AudioProfiles", "SupportedResolutions"},
             Walk(g, "ask", has[port])
      PROVE  Kept /\ Starts
  <2>1. has[port] \in had[port] /\ list = <<>>
    BY <1>1 DEF Observed, Types, Phases
  <2> QED
    BY <1>1, <2>1
<1>2. ASSUME NEW g \in {"SupportedAudioPorts", "SupportedVideoDisplays", "Addresses"},
             Walk(g, "list", listing)
      PROVE  Kept /\ Starts
  BY <1>2 DEF Phases
<1> QED
  BY <1>1, <1>2
  DEF SupportedMS12AudioProfiles, SupportedResolutions, SupportedAudioPorts,
      SupportedVideoDisplays, Addresses

(* A turn takes the first piece that is left.                              *)
Turns ==
  /\ getter \in Walkers /\ at = "item" /\ at' = "item"
  /\ rest # <<>> /\ rest' = Tail(rest)
  /\ UNCHANGED <<thrown, result, port, written, answer, success>>

LEMMA TurnShape ==
  ASSUME Types, Phases, Item \/ Display \/ Adapter
  PROVE  /\ Kept /\ Turns /\ Head(rest) \in Pieces
         /\ list' \in Seq(Members) /\ nodeName' \in {<<>>} \cup IPs
         /\ nodeName' # <<>> => getter = "Addresses"
<1>1. Kept /\ Turns
  BY DEF Item, Display, Adapter, Takes, world, seen, output, Kept, Turns, Phases
<1>2. Head(rest) \in Pieces /\ list \in Seq(Members)
  <2> DEFINE P == Pieces
  <2>1. rest \in Seq(P) /\ rest # <<>> /\ list \in Seq(Members)
    BY <1>1 DEF Turns, Types
  <2> HIDE DEF P
  <2>2. Head(rest) \in P
    BY <2>1
  <2> QED
    BY <2>1, <2>2 DEF P
<1>3. CASE Item \/ Display
  <2>1. getter # "Addresses" /\ Pieces = Members /\ nodeName' = nodeName
    BY <1>3 DEF Item, Display, Pieces
  <2>2. list' = list \/ list' = Append(list, Head(rest))
    BY <1>3 DEF Item, Display
  <2>3. list' \in Seq(Members)
    <3> DEFINE M == Members
    <3>1. Head(rest) \in M /\ list \in Seq(M)
      BY <1>2, <2>1
    <3> HIDE DEF M
    <3>2. list' \in Seq(M)
      BY <2>2, <3>1
    <3> QED
      BY <3>2 DEF M
  <2> QED
    BY <1>1, <1>2, <2>1, <2>3 DEF Types
<1>4. CASE Adapter
  <2>1. getter = "Addresses" /\ Head(rest) \in [name : Names, ips : Seq(IPs)]
    BY <1>2, <1>4 DEF Adapter, Pieces
  <2>2. nodeName' \in {<<>>} \cup IPs
    <3>1. Head(rest).ips \in Seq(IPs)
      BY <2>1
    <3> DEFINE ips == Head(rest).ips
    <3>2. CASE ips = <<>>
      BY <1>4, <3>2 DEF Adapter, LastAddress, Types
    <3>3. CASE ips # <<>>
      <4>1. ips[Len(ips)] \in IPs
        <5> HIDE DEF ips
        <5>1. ips \in Seq(IPs)
          BY <3>1 DEF ips
        <5> QED
          BY <3>3, <5>1
      <4> QED
        BY <1>4, <3>3, <4>1 DEF Adapter, LastAddress
    <3> QED
      BY <3>2, <3>3
  <2>3. [name |-> Head(rest).name, ip |-> nodeName'] \in Members
    BY <2>1, <2>2 DEF Members, Names, IPs
  <2>4. list' \in Seq(Members)
    <3> DEFINE M == Members
               e == [name |-> Head(rest).name, ip |-> nodeName']
    <3>1. e \in M /\ list \in Seq(M) /\ list' = Append(list, e)
      BY <1>2, <1>4, <2>3 DEF Adapter
    <3> HIDE DEF M, e
    <3>2. list' \in Seq(M)
      BY <3>1
    <3> QED
      BY <3>2 DEF M
  <2> QED
    BY <1>1, <1>2, <2>1, <2>2, <2>4
<1> QED
  BY <1>3, <1>4

(* A mask is told by a list.                                               *)
LEMMA MaskShape ==
  ASSUME Types, Phases, Observed, AudioCapabilities \/ MS12Capabilities
  PROVE  /\ Kept /\ getter \in Masks /\ at = "ask" /\ at' = "finish"
         /\ UNCHANGED <<thrown, result, port, rest, nodeName, written, answer, success>>
         /\ list' \in Seq(Members) /\ Told(list')
<1> USE DEF Takes, world, seen, output, Kept, Masks
<1>1. CASE AudioCapabilities
  <2>1. getter = "AudioCapabilities" /\ at = "ask" /\ list' = AudioList(has[port])
    BY <1>1 DEF AudioCapabilities
  <2>2. has[port] \in AudioMasks /\ has[port] \in had[port]
    BY <2>1 DEF Types, Settings, Observed
  <2>3. list' \in Seq(Members)
        /\ Items(list') = IF has[port] = {} THEN {"AUDIOCAPABILITY_NONE"}
                                            ELSE has[port] \ {"unknown"}
    <3>1. Members = {"AUDIOCAPABILITY_NONE", "ATMOS", "DD", "DDPLUS", "DAD", "DAPv2", "MS12"}
      BY <2>1 DEF Members
    <3> QED
      BY <2>1, <2>2, <3>1, AudioListTells
  <2>4. Told(list')
    BY <2>1, <2>2, <2>3 DEF Told, Walkers
  <2> QED
    BY <1>1, <2>1, <2>3, <2>4 DEF AudioCapabilities
<1>2. CASE MS12Capabilities
  <2>1. getter = "MS12Capabilities" /\ at = "ask" /\ list' = MS12List(has[port])
    BY <1>2 DEF MS12Capabilities
  <2>2. has[port] \in MS12Masks /\ has[port] \in had[port]
    BY <2>1 DEF Types, Settings, Observed
  <2>3. list' \in Seq(Members)
        /\ Items(list') = IF has[port] = {} THEN {"MS12CAPABILITY_NONE"}
                                            ELSE has[port] \ {"unknown"}
    <3>1. Members = {"MS12CAPABILITY_NONE", "DolbyVolume", "InteligentEqualizer",
                     "DialogueEnhancer"}
      BY <2>1 DEF Members
    <3> QED
      BY <2>1, <2>2, <3>1, MS12ListTells
  <2>4. Told(list')
    BY <2>1, <2>2, <2>3 DEF Told, Walkers
  <2> QED
    BY <1>2, <2>1, <2>3, <2>4 DEF MS12Capabilities
<1> QED
  BY <1>1, <1>2

-----------------------------------------------------------------------------
(* Each invariant holds after a step.                                      *)

(* The steps of a getter that are left: how each of them goes on.          *)
Others ==
  DefaultPort \/ Port \/ DefaultResolution \/ SupportedHdcp \/ HostEDID \/ LoopEnds
    \/ Throw \/ Finish

LEMMA StepCases ==
  ASSUME Next
  PROVE  \/ SupportedMS12AudioProfiles \/ SupportedResolutions
         \/ SupportedAudioPorts \/ SupportedVideoDisplays \/ Addresses
         \/ Item \/ Display \/ Adapter
         \/ AudioCapabilities \/ MS12Capabilities
         \/ Others
         \/ \E g \in Getters, a \in Ports \cup {""} : Call(g, a)
         \/ Change \/ Return
BY DEF Next, Others

LEMMA OthersKeep ==
  ASSUME Others
  PROVE  Kept /\ UNCHANGED <<list, rest, nodeName>>
BY DEF Others, Kept, Takes, world, seen, locals, output, DefaultPort, Port, DefaultResolution,
       SupportedHdcp, HostEDID, LoopEnds, Throw, Finish

(* A call begins with nothing found ...                                    *)
LEMMA CallStarts ==
  ASSUME Types, Phases, NEW g \in Getters, NEW a \in Ports \cup {""}, Call(g, a)
  PROVE  /\ g \in Getter /\ getter' = g /\ argument' = a /\ port' = a
         /\ list' = <<>> /\ rest' = <<>> /\ nodeName' = nodeName
         /\ UNCHANGED <<result, written, answer, success, thrown>>
         /\ result = "ERROR_NONE" /\ ~written /\ ~success /\ ~thrown
         /\ at' = FirstCall(g, a) /\ at' \in {"default", "port", "list"}
         /\ at' \in {"default", "port"} <=> g \in PortGetters
         /\ at' = "port" => a \in Ports
         /\ at' = "default" => a = ""
         /\ default' \in IF g \in PortGetters THEN Ports ELSE {""}
         /\ present' \subseteq Ports /\ has' \in [Ports -> Settings(g)]
         /\ listing' \in Listings(g)
         /\ nodeName = <<>>
<1> USE DEF Call, locals, output
<1>1. at = "idle" /\ list = <<>> /\ rest = <<>>
  BY DEF Phases
<1>2. nodeName = <<>>
  BY <1>1 DEF Types, Getter, PortGetters, PortLists
<1>3. at' = FirstCall(g, a) /\ at' \in {"default", "port", "list"}
      /\ (at' \in {"default", "port"} <=> g \in PortGetters)
      /\ (at' = "port" => a \in Ports) /\ (at' = "default" => a = "")
  BY DEF FirstCall
<1> QED
  BY <1>1, <1>2, <1>3, GettersAssumption DEF Phases

(* ... and a return forgets all of it.                                     *)
Forgotten ==
  /\ default = "" /\ present = {} /\ has = [p \in Ports |-> "none"] /\ listing = 0
  /\ changes = 0 /\ getter = "none" /\ argument = "" /\ at = "idle"
  /\ result = "ERROR_NONE" /\ port = "" /\ rest = <<>> /\ list = <<>> /\ nodeName = <<>>
  /\ written = FALSE /\ answer = <<>> /\ success = FALSE
  /\ defaults = {} /\ there = {} /\ missing = {} /\ had = [p \in Ports |-> {}]
  /\ thrown = FALSE

LEMMA ForgottenHolds ==
  ASSUME Forgotten
  PROVE  Types /\ Phases /\ Observed /\ Caused /\ Walking /\ Telling
<1>1. Listings("none") = {0} /\ Settings("none") = {"none"}
  BY DEF Listings, Settings, PortLists
<1>2. "none" \notin PortGetters /\ "idle" \notin Results /\ "idle" # "finish"
      /\ "none" # "HostEDID"
  BY DEF PortGetters, Results
<1>3. Types
  <2>1. <<>> \in Seq(Members) /\ <<>> \in Seq(Pieces)
    OBVIOUS
  <2>2. has \in [Ports -> Settings(getter)] /\ had \in [Ports -> SUBSET Settings(getter)]
    BY <1>1 DEF Forgotten
  <2>3. listing \in Listings(getter) /\ default \in IF getter \in PortGetters THEN Ports ELSE {""}
    BY <1>1, <1>2 DEF Forgotten
  <2> QED
    BY <2>1, <2>2, <2>3 DEF Forgotten, Types, Results
<1>4. Phases
  BY <1>2 DEF Forgotten, Phases, Results
<1>5. Observed
  BY DEF Forgotten, Observed
<1>6. Caused
  <2>1. result # "ERROR_GENERAL"
    BY DEF Forgotten
  <2> QED
    BY <2>1 DEF Caused
<1>7. Walking
  BY DEF Forgotten, Walking
<1>8. Telling
  BY DEF Forgotten, Telling, Succeeded
<1> QED
  BY <1>3, <1>4, <1>5, <1>6, <1>7, <1>8

LEMMA ForgottenNext ==
  Forgotten' => (Types /\ Phases /\ Observed /\ Caused /\ Walking /\ Telling)'
<1>1. Forgotten => Types /\ Phases /\ Observed /\ Caused /\ Walking /\ Telling
  BY ForgottenHolds
<1> QED
  BY <1>1, PTL

LEMMA ReturnForgets ==
  ASSUME Return
  PROVE  (Types /\ Phases /\ Observed /\ Caused /\ Walking /\ Telling)'
<1>1. Forgotten'
  BY DEF Return, Forgotten
<1> QED
  BY <1>1, ForgottenNext


(* What changes while a getter is at work: the ports and their answers.    *)
LEMMA ChangeShape ==
  ASSUME Types, Phases, Change
  PROVE  /\ at \in {"default", "port", "ask"} /\ getter \in PortGetters
         /\ UNCHANGED <<listing, getter, argument, at, result, port, rest, list, nodeName,
                        written, answer, success, thrown>>
         /\ default' \in Ports /\ present' \subseteq Ports
         /\ has' \in [Ports -> Settings(getter)]
         /\ \A p \in Ports : p \notin present' => has'[p] = has[p]
<1>1. at \in {"default", "port", "ask"} /\ getter \in PortGetters
  BY DEF Change, Phases
<1>2. default \in Ports /\ present \subseteq Ports /\ has \in [Ports -> Settings(getter)]
  BY <1>1 DEF Types
<1>3. /\ default' \in Ports /\ present' \subseteq Ports /\ has' \in [Ports -> Settings(getter)]
      /\ \A p \in Ports : p \notin present' => has'[p] = has[p]
  BY <1>2 DEF Change
<1> QED
  BY <1>1, <1>3 DEF Change, locals, output

(* The history only grows.                                                 *)
LEMMA ObserveGrows ==
  ASSUME Types, Observe, has' \in [Ports -> Settings(getter')],
         had \in [Ports -> SUBSET Settings(getter')], present' \subseteq Ports
  PROVE  /\ defaults \subseteq defaults' /\ there \subseteq there' /\ missing \subseteq missing'
         /\ default' \in defaults' /\ present' \subseteq there' /\ Ports \ present' \subseteq missing'
         /\ had' \in [Ports -> SUBSET Settings(getter')]
         /\ \A p \in Ports : had[p] \subseteq had'[p] /\ (p \in present' => has'[p] \in had'[p])
         /\ there' = there \cup present'
BY DEF Observe

LEMMA TypesStep ==
  ASSUME Types, Phases, Observed, [Next]_vars
  PROVE  Types'
<1>1. CASE \/ SupportedMS12AudioProfiles \/ SupportedResolutions
           \/ SupportedAudioPorts \/ SupportedVideoDisplays \/ Addresses
  <2>1. Kept /\ Starts
    BY <1>1, WalkStarts
  <2>2. rest' \in Seq(Pieces)
    BY <2>1, BasisTyped DEF Starts, Types, Phases
  <2> QED
    BY <2>1, <2>2, KeptMeaning DEF Types, Kept, Starts, Calls
<1>2. CASE Item \/ Display \/ Adapter
  <2>1. /\ Kept /\ Turns
        /\ list' \in Seq(Members) /\ nodeName' \in {<<>>} \cup IPs
        /\ nodeName' # <<>> => getter = "Addresses"
    BY <1>2, TurnShape
  <2>2. rest' \in Seq(Pieces)
    <3> DEFINE P == Pieces
    <3>1. rest \in Seq(P) /\ rest # <<>> /\ rest' = Tail(rest)
      BY <2>1 DEF Turns, Types
    <3> HIDE DEF P
    <3>2. rest' \in Seq(P)
      BY <3>1
    <3> QED
      BY <3>2 DEF P
  <2> QED
    BY <2>1, <2>2, KeptMeaning DEF Types, Kept, Turns, Calls
<1>3. CASE AudioCapabilities \/ MS12Capabilities
  BY <1>3, MaskShape, KeptMeaning DEF Types, Kept
<1>4. CASE Others
  <2>1. Kept /\ UNCHANGED <<list, rest, nodeName>>
    BY <1>4, OthersKeep
  <2>2. /\ at' \in {"idle", "finish"} \cup Calls \cup Results /\ at # "idle" /\ at' # "idle"
        /\ result' \in Results /\ thrown' \in BOOLEAN
        /\ written' \in BOOLEAN /\ success' \in BOOLEAN
        /\ port' \in Ports \cup {""} /\ (at' \in {"port", "ask"} => port' \in Ports)
    <3>1. CASE DefaultPort
      BY <3>1 DEF DefaultPort, Takes, Calls, output, Types, Phases, Results
    <3>2. CASE Port
      BY <3>2 DEF Port, Takes, Calls, output, locals, Types, Results
    <3>3. CASE DefaultResolution \/ SupportedHdcp \/ HostEDID
      <4>1. UNCHANGED <<port, thrown, success>> /\ at' = "finish"
            /\ result' \in {result, "ERROR_GENERAL"} /\ written' \in {written, TRUE}
            /\ at \in {"ask", "list"}
        <5>1. CASE DefaultResolution
          BY <5>1 DEF DefaultResolution, Takes, locals, Answers
        <5>2. CASE SupportedHdcp
          BY <5>2 DEF SupportedHdcp, Takes, Answers
        <5>3. CASE HostEDID
          <6>1. at = "list" /\ at' = "finish" /\ UNCHANGED <<port, success, thrown>>
            BY <5>3 DEF HostEDID, Takes
          <6>2. (result' = "ERROR_GENERAL" /\ written' = written)
                \/ (written' = TRUE /\ result' = result)
            BY <5>3 DEF HostEDID, Answers
          <6> QED
            BY <6>1, <6>2
        <5> QED
          BY <3>3, <5>1, <5>2, <5>3
      <4> QED
        BY <4>1 DEF Types, Results
    <3>4. CASE LoopEnds \/ Throw
      BY <3>4 DEF LoopEnds, Throw, Takes, locals, output, Types, Results, Calls
    <3>5. CASE Finish
      BY <3>5 DEF Finish, locals, output, Types, Results, Answers
    <3> QED
      BY <1>4, <3>1, <3>2, <3>3, <3>4, <3>5 DEF Others
  <2> QED
    BY <2>1, <2>2, KeptMeaning DEF Types, Kept
<1>5. ASSUME NEW g \in Getters, NEW a \in Ports \cup {""}, Call(g, a) PROVE Types'
  <2>1. had \in [Ports -> SUBSET Settings(g)]
    BY <1>5 DEF Call, Phases
  <2>2. Observe /\ getter' = g
    BY <1>5 DEF Call
  <2>3. had' \in [Ports -> SUBSET Settings(g)] /\ there' \subseteq Ports
    BY <1>5, <2>1, <2>2, CallStarts, ObserveGrows DEF Types
  <2>4. at' \in Calls /\ g # "none"
    BY <1>5, CallStarts DEF Calls, Getter, PortGetters, PortLists
  <2>5. list' \in Seq(Members') /\ rest' \in Seq(Pieces')
    <3>1. list' = <<>> /\ rest' = <<>>
      BY <1>5, CallStarts
    <3>2. \A S : <<>> \in Seq(S)
      BY EmptySeq
    <3> QED
      BY <3>1, <3>2, Zenon
  <2> QED
    BY <1>5, <2>2, <2>3, <2>4, <2>5, CallStarts DEF Types, Calls, Results
<1>6. CASE Change
  <2>1. Observe
    BY <1>6 DEF Change
  <2>2. had' \in [Ports -> SUBSET Settings(getter)] /\ there' \subseteq Ports
    BY <1>6, <2>1, ChangeShape, ObserveGrows DEF Types
  <2>3. Members' = Members /\ Pieces' = Pieces
    BY <1>6, ChangeShape DEF Members, Pieces
  <2> QED
    BY <1>6, <2>2, <2>3, ChangeShape DEF Types
<1>7. CASE Return
  BY <1>7, ReturnForgets
<1>8. CASE UNCHANGED vars
  <2>1. Kept /\ UNCHANGED <<at, thrown, result, port, list, rest, nodeName, written, success>>
    BY <1>8 DEF vars, world, locals, output, seen, Kept
  <2> QED
    BY <2>1, KeptMeaning DEF Types, Kept
<1> QED
  BY <1>1, <1>2, <1>3, <1>4, <1>5, <1>6, <1>7, <1>8, StepCases

LEMMA PhasesStep ==
  ASSUME Types, Phases, Observed, [Next]_vars
  PROVE  Phases'
<1> USE DEF Calls, Results
<1>1. CASE \/ SupportedMS12AudioProfiles \/ SupportedResolutions
           \/ SupportedAudioPorts \/ SupportedVideoDisplays \/ Addresses
  <2>1. Kept /\ Starts
    BY <1>1, WalkStarts
  <2> QED
    BY <2>1 DEF Phases, Kept, Starts, Succeeded
<1>2. CASE Item \/ Display \/ Adapter
  <2>1. Kept /\ Turns
    BY <1>2, TurnShape
  <2> QED
    BY <2>1 DEF Phases, Kept, Turns, Succeeded
<1>3. CASE AudioCapabilities \/ MS12Capabilities
  <2>1. /\ getter' = getter /\ getter \in Masks /\ at = "ask" /\ at' = "finish"
        /\ UNCHANGED <<result, written, success>>
    BY <1>3, MaskShape DEF Kept
  <2>2. getter \in ByList
    BY <2>1 DEF Masks, ByList, Getter, PortGetters
  <2> QED
    BY <2>1, <2>2 DEF Phases
<1>4. CASE Others
  <2>1. getter' = getter /\ UNCHANGED <<list, rest, nodeName>>
    BY <1>4, OthersKeep DEF Kept
  <2>2. ASSUME at \in Calls, at' = "finish", success' = success,
               \/ result' = result /\ written' = written /\ getter \in ByList
               \/ result' = result /\ written' = TRUE /\ getter \notin ByList
               \/ result' = "ERROR_GENERAL" /\ written' = written /\ getter # "Addresses"
        PROVE  Phases'
    <3>1. result = "ERROR_NONE" /\ ~written /\ ~success
      BY <2>2 DEF Phases
    <3>2. ~success' /\ (written' <=> result' = "ERROR_NONE" /\ getter \notin ByList)
      BY <2>2, <3>1
    <3> QED
      BY <2>1, <2>2, <3>2 DEF Phases
  <2>3. CASE DefaultPort
    BY <2>1, <2>3 DEF DefaultPort, Takes, output, Phases
  <2>4. CASE Port
    BY <2>1, <2>4 DEF Port, Takes, output, locals, Phases
  <2>5. CASE DefaultResolution
    BY <2>2, <2>5 DEF DefaultResolution, Takes, locals, Answers, ByList
  <2>6. CASE SupportedHdcp
    BY <2>2, <2>6 DEF SupportedHdcp, Takes, Answers, ByList
  <2>7. CASE HostEDID
    <3>1. at = "list" /\ at' = "finish" /\ success' = success /\ getter = "HostEDID"
      BY <2>7 DEF HostEDID, Takes
    <3>2. (result' = "ERROR_GENERAL" /\ written' = written) \/ (result' = result /\ written' = TRUE)
      BY <2>7 DEF HostEDID, Answers
    <3> QED
      BY <2>2, <3>1, <3>2 DEF ByList
  <2>8. CASE LoopEnds
    <3>1. getter \in ByList
      BY <2>8 DEF LoopEnds, Takes, Phases, Walkers, ByList, Getter, PortGetters, PortLists
    <3> QED
      BY <2>2, <2>8, <3>1 DEF LoopEnds, Takes, locals, output
  <2>9. CASE Throw
    BY <2>2, <2>9 DEF Throw, output
  <2>10. CASE Finish
    <3>1. at = "finish" /\ at' = result /\ result' = result /\ result \in Results
      BY <2>10 DEF Finish, locals, Types
    <3>2. CASE HandedOut
      BY <2>1, <2>10, <3>1, <3>2 DEF Finish, HandedOut, Answers, Phases, Succeeded
    <3>3. CASE ~HandedOut
      BY <2>1, <2>10, <3>1, <3>3 DEF Finish, HandedOut, output, Phases, Succeeded
    <3> QED
      BY <3>2, <3>3
  <2> QED
    BY <1>4, <2>3, <2>4, <2>5, <2>6, <2>7, <2>8, <2>9, <2>10 DEF Others
<1>5. ASSUME NEW g \in Getters, NEW a \in Ports \cup {""}, Call(g, a) PROVE Phases'
  <2>1. /\ getter' = g /\ list' = <<>> /\ rest' = <<>>
        /\ result' = "ERROR_NONE" /\ ~written' /\ ~success' /\ ~thrown'
        /\ at' \in {"default", "port", "list"}
        /\ at' \in {"default", "port"} <=> g \in PortGetters
        /\ at' = "default" => argument' = ""
    BY <1>5, CallStarts
  <2> QED
    BY <2>1 DEF Phases
<1>6. CASE Change
  <2>1. /\ at \in {"default", "port", "ask"} /\ getter \in PortGetters
        /\ UNCHANGED <<getter, argument, at, result, rest, list, written, success, thrown>>
    BY <1>6, ChangeShape
  <2> QED
    BY <2>1 DEF Phases
<1>7. CASE Return
  BY <1>7, ReturnForgets
<1>8. CASE UNCHANGED vars
  <2>1. UNCHANGED <<getter, argument, had, there, at, thrown, result, port, list, rest, written, success>>
    BY <1>8 DEF vars, world, locals, output, seen
  <2> QED
    BY <2>1 DEF Phases, Succeeded
<1> QED
  BY <1>1, <1>2, <1>3, <1>4, <1>5, <1>6, <1>7, <1>8, StepCases

LEMMA ObservedStep ==
  ASSUME Types, Phases, Observed, [Next]_vars
  PROVE  Observed'
<1>1. ASSUME Kept, port' = port, at' # "port" \/ at = "port",
             at' = "ask" => at = "ask" \/ (at = "port" /\ port \in present),
             at' \in {"item", "finish", "ERROR_NONE"} /\ result' = "ERROR_NONE" /\ getter \in PortGetters
               => at = "ask" \/ (at \in {"item", "finish", "ERROR_NONE"} /\ result = "ERROR_NONE")
      PROVE  Observed'
  <2>1. Meant' = Meant
    BY <1>1, KeptMeaning
  <2>2. port \in Ports \/ at # "ask"
    BY DEF Types
  <2>3. getter' # "none" => /\ default' \in defaults' /\ present' \subseteq there'
                            /\ Ports \ present' \subseteq missing'
                            /\ \A p \in there' : has'[p] \in had'[p]
    BY <1>1 DEF Observed, Kept
  <2>4. at' \in {"port", "ask"} => port' \in Meant'
    BY <1>1, <2>1 DEF Observed
  <2>5. at' = "ask" => port' \in there'
    BY <1>1 DEF Observed, Kept, Types, Phases, Calls
  <2>6. at' \in {"item", "finish", "ERROR_NONE"} /\ result' = "ERROR_NONE" /\ getter' \in PortGetters
          => port' \in Ports /\ port' \in Meant' \cap there'
    BY <1>1, <2>1, <2>2 DEF Observed, Kept
  <2> QED
    BY <2>3, <2>4, <2>5, <2>6 DEF Observed
<1>2. CASE \/ SupportedMS12AudioProfiles \/ SupportedResolutions
           \/ SupportedAudioPorts \/ SupportedVideoDisplays \/ Addresses
  <2>1. Kept /\ Starts
    BY <1>2, WalkStarts
  <2> QED
    BY <1>1, <2>1 DEF Starts, Phases
<1>3. CASE Item \/ Display \/ Adapter
  <2>1. Kept /\ Turns
    BY <1>3, TurnShape
  <2> QED
    BY <1>1, <2>1 DEF Turns
<1>4. CASE AudioCapabilities \/ MS12Capabilities
  BY <1>1, <1>4, MaskShape
<1>5. CASE Others
  <2>0. Kept
    BY <1>5, OthersKeep
  <2>1. CASE DefaultPort
    <3>1. at = "default" /\ at' = "port" /\ port' = default /\ default \in Ports /\ argument = ""
          /\ getter # "none"
      BY <2>1 DEF DefaultPort, Takes, Types, Phases, Observed
    <3>2. port' \in Meant'
      BY <2>0, <3>1 DEF Kept, Meant, Observed
    <3> QED
      BY <2>0, <3>1, <3>2 DEF Observed, Kept
  <2>2. CASE Port
    BY <1>1, <2>0, <2>2 DEF Port, Known, Takes, locals
  <2>3. CASE DefaultResolution \/ SupportedHdcp
    BY <1>1, <2>0, <2>3 DEF DefaultResolution, SupportedHdcp, Takes, locals
  <2>4. CASE HostEDID
    <3>1. at' = "finish" /\ port' = port /\ getter \notin PortGetters
      BY <2>4 DEF HostEDID, Takes, PortGetters
    <3> QED
      BY <1>1, <2>0, <3>1
  <2>5. CASE LoopEnds
    BY <1>1, <2>0, <2>5 DEF LoopEnds, Takes, locals, Phases
  <2>6. CASE Throw
    BY <1>1, <2>0, <2>6 DEF Throw
  <2>7. CASE Finish
    <3>1. at = "finish" /\ at' = result /\ port' = port /\ result' = result /\ result \in Results
      BY <2>7 DEF Finish, locals, Types
    <3> QED
      BY <1>1, <2>0, <3>1 DEF Results
  <2> QED
    BY <1>5, <2>1, <2>2, <2>3, <2>4, <2>5, <2>6, <2>7 DEF Others
<1>6. ASSUME NEW g \in Getters, NEW a \in Ports \cup {""}, Call(g, a) PROVE Observed'
  <2>1. had \in [Ports -> SUBSET Settings(g)]
    BY <1>6 DEF Call, Phases
  <2>2. Observe /\ getter' = g
    BY <1>6 DEF Call
  <2>3. /\ default' \in defaults' /\ present' \subseteq there' /\ Ports \ present' \subseteq missing'
        /\ \A p \in there' : has'[p] \in had'[p]
    <3>1. there' = present'
      BY <1>6, <2>1, <2>2, CallStarts, ObserveGrows DEF Call, Phases
    <3> QED
      BY <1>6, <2>1, <2>2, <3>1, CallStarts, ObserveGrows
  <2>4. at' \in {"default", "port", "list"} /\ (at' = "port" => a \in Ports)
        /\ port' = a /\ argument' = a
    BY <1>6, CallStarts
  <2>5. at' = "port" => port' \in Meant'
    BY <2>4, PortsAssumption DEF Meant
  <2> QED
    BY <2>3, <2>4, <2>5 DEF Observed
<1>7. CASE Change
  <2>1. Observe
    BY <1>7 DEF Change
  <2>2. /\ at \in {"default", "port", "ask"}
        /\ UNCHANGED <<getter, argument, at, result, port>>
        /\ present' \subseteq Ports /\ has' \in [Ports -> Settings(getter)]
    BY <1>7, ChangeShape
  <2>3. /\ defaults \subseteq defaults' /\ there \subseteq there'
        /\ default' \in defaults' /\ present' \subseteq there' /\ Ports \ present' \subseteq missing'
        /\ \A p \in Ports : had[p] \subseteq had'[p] /\ (p \in present' => has'[p] \in had'[p])
        /\ there' = there \cup present' /\ there \subseteq Ports
    BY <2>1, <2>2, ObserveGrows DEF Types
  <2>5. \A p \in there' : has'[p] \in had'[p]
    <3> SUFFICES ASSUME NEW p \in there', p \notin present' PROVE has'[p] \in had'[p]
      BY <2>2, <2>3
    <3>1. p \in there /\ p \in Ports /\ has'[p] = has[p] /\ has[p] \in had[p]
      BY <1>7, <2>2, <2>3, ChangeShape DEF Observed, PortGetters
    <3> QED
      BY <2>3, <3>1
  <2>4. Meant \subseteq Meant'
    BY <2>2, <2>3 DEF Meant
  <2> QED
    BY <2>2, <2>3, <2>5, <2>4 DEF Observed
<1>8. CASE Return
  BY <1>8, ReturnForgets
<1>9. CASE UNCHANGED vars
  <2>1. UNCHANGED <<default, present, has, getter, argument, defaults, there, missing, had,
                    at, result, port>>
    BY <1>9 DEF vars, world, locals, seen
  <2> QED
    BY <2>1 DEF Observed, Meant
<1> QED
  BY <1>2, <1>3, <1>4, <1>5, <1>6, <1>7, <1>8, <1>9, StepCases

LEMMA CausedStep ==
  ASSUME Types, Phases, Observed, Caused, [Next]_vars
  PROVE  Caused'
<1>0. ASSUME result' # "ERROR_GENERAL" PROVE Caused'
  BY <1>0 DEF Caused
<1>1. ASSUME Kept, result' = "ERROR_NONE" \/ (result' = result /\ thrown' = thrown) PROVE Caused'
  <2>1. Meant' = Meant
    BY <1>1, KeptMeaning
  <2> QED
    BY <1>1, <2>1 DEF Caused, Kept
<1>2. CASE \/ SupportedMS12AudioProfiles \/ SupportedResolutions
           \/ SupportedAudioPorts \/ SupportedVideoDisplays \/ Addresses
  BY <1>1, <1>2, WalkStarts DEF Starts
<1>3. CASE Item \/ Display \/ Adapter
  BY <1>1, <1>3, TurnShape DEF Turns
<1>4. CASE AudioCapabilities \/ MS12Capabilities
  BY <1>1, <1>4, MaskShape
<1>5. CASE Others
  <2>0. Kept /\ Meant' = Meant
    BY <1>5, OthersKeep, KeptMeaning
  <2>1. CASE DefaultPort \/ Port \/ DefaultResolution \/ LoopEnds
    BY <1>1, <2>0, <2>1 DEF DefaultPort, Port, DefaultResolution, LoopEnds, Takes, locals
  <2>2. CASE SupportedHdcp
    <3>1. CASE has[port] = "dsHDCP_VERSION_MAX"
      <4>1. port \in Meant /\ has[port] \in had[port] /\ getter = "SupportedHdcp"
        BY <2>2 DEF SupportedHdcp, Takes, Observed, Types
      <4>2. port \in Meant' /\ "dsHDCP_VERSION_MAX" \in had'[port] /\ getter' = "SupportedHdcp"
        BY <2>0, <3>1, <4>1 DEF Kept
      <4> QED
        BY <4>2 DEF Caused
    <3>2. CASE has[port] # "dsHDCP_VERSION_MAX"
      BY <1>1, <2>0, <2>2, <3>2 DEF SupportedHdcp, Takes
    <3> QED
      BY <3>1, <3>2
  <2>3. CASE HostEDID
    <3>1. CASE TooLong(listing)
      <4>1. listing' > 65535 /\ getter' = "HostEDID"
        BY <2>0, <2>3, <3>1 DEF TooLong, HostEDID, Kept
      <4> QED
        BY <4>1 DEF Caused
    <3>2. CASE ~TooLong(listing)
      <4>1. result' = result /\ thrown' = thrown
        BY <2>3, <3>2 DEF HostEDID, Takes
      <4> QED
        BY <1>1, <2>0, <4>1
    <3> QED
      BY <3>1, <3>2
  <2>4. CASE Throw
    <3>1. CASE at # "port" \/ port \in present
      <4>1. thrown'
        BY <2>4, <3>1 DEF Throw
      <4> QED
        BY <4>1 DEF Caused
    <3>2. CASE at = "port" /\ port \notin present
      <4>1. port \in Meant /\ port \in missing /\ getter \in PortGetters
        BY <3>2 DEF Observed, Types, Phases
      <4>2. Meant' \cap missing' # {} /\ getter' \in PortGetters
        BY <2>0, <4>1 DEF Kept
      <4> QED
        BY <4>2 DEF Caused
    <3> QED
      BY <3>1, <3>2
  <2>5. CASE Finish
    BY <1>1, <2>0, <2>5 DEF Finish, locals
  <2> QED
    BY <1>5, <2>1, <2>2, <2>3, <2>4, <2>5 DEF Others
<1>6. ASSUME NEW g \in Getters, NEW a \in Ports \cup {""}, Call(g, a) PROVE Caused'
  <2>1. result' = "ERROR_NONE"
    BY <1>6, CallStarts
  <2> QED
    BY <1>0, <2>1
<1>7. CASE Change
  <2>1. at \in Calls /\ result' = result
    BY <1>7, ChangeShape DEF Calls
  <2>2. result' = "ERROR_NONE"
    BY <2>1 DEF Phases
  <2> QED
    BY <1>0, <2>2
<1>8. CASE Return
  BY <1>8, ReturnForgets
<1>9. CASE UNCHANGED vars
  <2>1. Kept /\ result' = result /\ thrown' = thrown
    BY <1>9 DEF vars, world, locals, seen, Kept
  <2> QED
    BY <1>1, <2>1
<1> QED
  BY <1>2, <1>3, <1>4, <1>5, <1>6, <1>7, <1>8, <1>9, StepCases

(* One turn more collects one item more, of a list ...                     *)
LEMMA ItemCollects ==
  ASSUME NEW S, NEW l \in Seq(S), NEW x \in S, NEW m \in Nat, Len(l) = m
  PROVE  /\ Len(Append(l, x)) = m + 1 /\ Append(l, x)[m + 1] = x
         /\ \A i \in 1 .. m : Append(l, x)[i] = l[i]
OBVIOUS

(* ... and of the displays, unless it is there.                            *)
FirstMentions(l, L, m) ==
  /\ Items(l) = {L[n] : n \in 1 .. m}
  /\ \A i, j \in DOMAIN l : i < j =>
       \E k \in 1 .. m : L[k] = l[i] /\ \A n \in 1 .. k : L[n] # l[j]

LEMMA DisplayCollects ==
  ASSUME NEW S, NEW l \in Seq(S), NEW L, NEW m \in Nat, L[m + 1] \in S, FirstMentions(l, L, m)
  PROVE  /\ L[m + 1] \in Items(l) => FirstMentions(l, L, m + 1)
         /\ L[m + 1] \notin Items(l) => FirstMentions(Append(l, L[m + 1]), L, m + 1)
<1> DEFINE x == L[m + 1]
           a == Append(l, x)
<1>1. {L[n] : n \in 1 .. m + 1} = {L[n] : n \in 1 .. m} \cup {x}
  <2>1. 1 .. m + 1 = (1 .. m) \cup {m + 1}
    OBVIOUS
  <2> QED
    BY <2>1
<1>2. CASE x \in Items(l)
  <2>1. Items(l) = {L[n] : n \in 1 .. m + 1}
    BY <1>1, <1>2 DEF FirstMentions
  <2>2. \A i, j \in DOMAIN l : i < j =>
          \E k \in 1 .. m + 1 : L[k] = l[i] /\ \A n \in 1 .. k : L[n] # l[j]
    BY DEF FirstMentions
  <2> QED
    BY <1>2, <2>1, <2>2 DEF FirstMentions
<1>3. CASE x \notin Items(l)
  <2>1. /\ Len(a) = Len(l) + 1 /\ DOMAIN a = 1 .. Len(l) + 1 /\ DOMAIN l = 1 .. Len(l)
        /\ Len(l) \in Nat /\ a[Len(l) + 1] = x /\ \A i \in DOMAIN l : a[i] = l[i]
    OBVIOUS
  <2> HIDE DEF a
  <2>2. Items(a) = Items(l) \cup {x}
    BY <2>1 DEF Items
  <2>3. Items(a) = {L[n] : n \in 1 .. m + 1}
    BY <1>1, <2>2 DEF FirstMentions
  <2>4. ASSUME NEW i \in DOMAIN a, NEW j \in DOMAIN a, i < j
        PROVE  \E k \in 1 .. m + 1 : L[k] = a[i] /\ \A n \in 1 .. k : L[n] # a[j]
    <3>1. i \in DOMAIN l
      BY <2>1, <2>4
    <3>2. CASE j \in DOMAIN l
      BY <2>1, <2>4, <3>1, <3>2 DEF FirstMentions
    <3>3. CASE j \notin DOMAIN l
      <4>1. a[j] = x /\ a[i] \in Items(l)
        BY <2>1, <3>1, <3>3 DEF Items
      <4>2. PICK k \in 1 .. m : L[k] = a[i]
        BY <4>1 DEF FirstMentions
      <4>3. \A n \in 1 .. k : L[n] \in Items(l)
        BY DEF FirstMentions
      <4> QED
        BY <1>3, <4>1, <4>2, <4>3
    <3> QED
      BY <3>2, <3>3
  <2> QED
    BY <1>3, <2>3, <2>4 DEF a, FirstMentions
<1> QED
  BY <1>2, <1>3

LEMMA TurnCollects ==
  ASSUME Types, Phases, Item \/ Display \/ Adapter,
         NEW L, NEW m \in Nat, Head(rest) = L[m + 1], Collected(list, L, m)
  PROVE  Collected(list', L, m + 1)
<1>1. CASE Item
  <2>1. /\ getter # "SupportedVideoDisplays" /\ getter # "Addresses" /\ Pieces = Members
        /\ list' = Append(list, Head(rest))
    BY <1>1 DEF Item, Pieces
  <2>2. Len(list) = m /\ \A i \in 1 .. m : list[i] = L[i]
    BY <2>1 DEF Collected
  <2>3. list \in Seq(Members) /\ Head(rest) \in Members
    BY <1>1, <2>1, TurnShape DEF Types
  <2>4. /\ Len(list') = m + 1 /\ list'[m + 1] = L[m + 1]
        /\ \A i \in 1 .. m : list'[i] = list[i]
    BY <2>1, <2>2, <2>3, ItemCollects
  <2>5. \A i \in 1 .. m + 1 : list'[i] = L[i]
    BY <2>2, <2>4
  <2> QED
    BY <2>1, <2>4, <2>5 DEF Collected
<1>2. CASE Display
  <2>1. /\ getter = "SupportedVideoDisplays" /\ Pieces = Members
        /\ list' = IF Head(rest) \in Items(list) THEN list ELSE Append(list, Head(rest))
    BY <1>2 DEF Display, Listed, Pieces
  <2>2. FirstMentions(list, L, m)
    BY <2>1 DEF Collected, FirstMentions
  <2>3. list \in Seq(Members) /\ L[m + 1] \in Members
    BY <1>2, <2>1, TurnShape DEF Types
  <2>4. FirstMentions(list', L, m + 1)
    BY <2>1, <2>2, <2>3, DisplayCollects
  <2> QED
    BY <2>1, <2>4 DEF Collected, FirstMentions
<1>3. CASE Adapter
  <2> DEFINE x == [name |-> Head(rest).name, ip |-> nodeName']
  <2>1. /\ getter = "Addresses" /\ list' = Append(list, x)
        /\ Head(rest).ips # <<>> => nodeName' = Head(rest).ips[Len(Head(rest).ips)]
    BY <1>3 DEF Adapter, LastAddress
  <2>2. /\ Len(list) = m
        /\ \A i \in 1 .. m : /\ list[i].name = L[i].name
                             /\ L[i].ips # <<>> => list[i].ip = L[i].ips[Len(L[i].ips)]
    BY <2>1 DEF Collected
  <2>3. x.name = L[m + 1].name
        /\ (L[m + 1].ips # <<>> => x.ip = L[m + 1].ips[Len(L[m + 1].ips)])
    BY <2>1
  <2> HIDE DEF x
  <2>4. list \in Seq(Members \cup {x})
    BY SeqMonotonic DEF Types
  <2>5. /\ Len(list') = m + 1 /\ list'[m + 1] = x
        /\ \A i \in 1 .. m : list'[i] = list[i]
    BY <2>1, <2>2, <2>4, ItemCollects
  <2>6. \A i \in 1 .. m + 1 :
          /\ list'[i].name = L[i].name
          /\ L[i].ips # <<>> => list'[i].ip = L[i].ips[Len(L[i].ips)]
    <3>1. TAKE i \in 1 .. m + 1
    <3>2. CASE i = m + 1
      BY <2>3, <2>5, <3>2
    <3>3. CASE i # m + 1
      BY <2>2, <2>5, <3>3
    <3> QED
      BY <3>2, <3>3
  <2> QED
    BY <2>1, <2>5, <2>6 DEF Collected
<1> QED
  BY <1>1, <1>2, <1>3

LEMMA WalkingStep ==
  ASSUME Types, Phases, Observed, Walking, [Next]_vars
  PROVE  Walking'
<1>1. ASSUME Kept, port' = port
      PROVE  Basis' = Basis /\ \A l, L, m : Collected(l, L, m)' <=> Collected(l, L, m)
  <2>1. Basis' = Basis
    BY <1>1, KeptMeaning
  <2>2. ASSUME NEW l, NEW L, NEW m PROVE Collected(l, L, m)' <=> Collected(l, L, m)
    BY <1>1 DEF Kept, Collected
  <2> QED
    BY <2>1, <2>2
<1>2. ASSUME Kept, port' = port, at' = "item",
             NEW l, l = list', NEW r, r = rest', NEW L \in Basis, NEW m \in 0 .. Len(L),
             Len(r) = Len(L) - m, \A i \in 1 .. Len(r) : r[i] = L[m + i], Collected(l, L, m)
      PROVE  Walking'
  <2>1. L \in Basis' /\ Collected(list, L, m)'
    <3>1. Collected(l, L, m)' /\ L \in Basis'
      BY <1>1, <1>2
    <3> QED
      BY <1>2, <3>1 DEF Collected
  <2> QED
    BY <1>2, <2>1 DEF Walking, Walked
<1>3. CASE \/ SupportedMS12AudioProfiles \/ SupportedResolutions
           \/ SupportedAudioPorts \/ SupportedVideoDisplays \/ Addresses
  <2>1. Kept /\ Starts
    BY <1>3, WalkStarts
  <2>2. PICK L \in Basis : L = rest'
    BY <2>1 DEF Starts
  <2>3. L \in Seq(Pieces)
    BY <2>1, BasisTyped DEF Starts, Types, Phases
  <2>4. Len(L) \in Nat /\ Len(L) = Len(L) - 0 /\ 0 \in 0 .. Len(L)
        /\ \A i \in 1 .. Len(L) : L[i] = L[0 + i]
    BY <2>3, LenProperties
  <2>5. Collected(<<>>, L, 0)
    BY DEF Collected, Items
  <2>6. list' = <<>> /\ port' = port /\ at' = "item"
    BY <2>1 DEF Starts
  <2> QED
    BY <1>2, <2>1, <2>2, <2>4, <2>5, <2>6
<1>4. CASE Item \/ Display \/ Adapter
  <2>1. Kept /\ Turns
    BY <1>4, TurnShape
  <2>2. PICK L \in Basis : Walked(L)
    BY <2>1 DEF Turns, Walking
  <2>3. PICK m \in 0 .. Len(L) :
          /\ Len(rest) = Len(L) - m /\ \A i \in 1 .. Len(rest) : rest[i] = L[m + i]
          /\ Collected(list, L, m)
    BY <2>2 DEF Walked
  <2>4. L \in Seq(Pieces)
    BY <2>1, BasisTyped DEF Turns, Types, Phases, Observed
  <2>5. Len(L) \in Nat /\ m \in Nat
    BY <2>3, <2>4, LenProperties
  <2>6. /\ Len(rest) > 0 /\ Head(rest) = rest[1] /\ Len(rest') = Len(rest) - 1
        /\ \A i \in 1 .. Len(rest') : rest'[i] = rest[i + 1]
    <3> DEFINE P == Pieces
    <3>1. rest \in Seq(P) /\ rest # <<>> /\ rest' = Tail(rest)
      BY <2>1 DEF Turns, Types
    <3> HIDE DEF P
    <3> QED
      BY <3>1
  <2>7. Head(rest) = L[m + 1] /\ m + 1 \in 0 .. Len(L)
    BY <2>3, <2>5, <2>6
  <2>8. Collected(list', L, m + 1)
    BY <1>4, <2>3, <2>5, <2>7, TurnCollects
  <2>9. Len(rest') = Len(L) - (m + 1) /\ \A i \in 1 .. Len(rest') : rest'[i] = L[(m + 1) + i]
    BY <2>3, <2>5, <2>6
  <2>10. PICK k \in 0 .. Len(L) : k = m + 1
    BY <2>7
  <2>11. Len(rest') = Len(L) - k /\ (\A i \in 1 .. Len(rest') : rest'[i] = L[k + i])
         /\ Collected(list', L, k)
    BY <2>8, <2>9, <2>10
  <2>12. port' = port /\ at' = "item"
    BY <2>1 DEF Turns
  <2> QED
    BY <1>2, <2>1, <2>11, <2>12
<1>5. CASE AudioCapabilities \/ MS12Capabilities
  <2>1. at' # "item"
    BY <1>5, MaskShape
  <2> QED
    BY <2>1 DEF Walking
<1>6. CASE Others
  <2>1. at' # "item"
    <3>1. CASE DefaultPort \/ Port \/ LoopEnds \/ Throw
      BY <3>1 DEF DefaultPort, Port, LoopEnds, Throw, Takes
    <3>2. CASE DefaultResolution \/ SupportedHdcp
      BY <3>2 DEF DefaultResolution, SupportedHdcp, Takes
    <3>3. CASE HostEDID
      BY <3>3 DEF HostEDID, Takes
    <3>4. CASE Finish
      BY <3>4 DEF Finish, Types, Results
    <3> QED
      BY <1>6, <3>1, <3>2, <3>3, <3>4 DEF Others
  <2> QED
    BY <2>1 DEF Walking
<1>7. ASSUME NEW g \in Getters, NEW a \in Ports \cup {""}, Call(g, a) PROVE Walking'
  <2>1. at' # "item"
    BY <1>7, CallStarts
  <2> QED
    BY <2>1 DEF Walking
<1>8. CASE Change
  <2>1. at' # "item"
    BY <1>8, ChangeShape
  <2> QED
    BY <2>1 DEF Walking
<1>9. CASE Return
  BY <1>9, ReturnForgets
<1>10. CASE UNCHANGED vars
  <2>1. Kept /\ UNCHANGED <<port, at, rest, list>>
    BY <1>10 DEF vars, world, locals, seen, Kept
  <2>2. CASE at = "item"
    <3>1. PICK L \in Basis : Walked(L)
      BY <2>2 DEF Walking
    <3>2. PICK m \in 0 .. Len(L) :
            /\ Len(rest) = Len(L) - m /\ \A i \in 1 .. Len(rest) : rest[i] = L[m + i]
            /\ Collected(list, L, m)
      BY <3>1 DEF Walked
    <3> QED
      BY <1>2, <2>1, <2>2, <3>2
  <2>3. CASE at # "item"
    BY <2>1, <2>3 DEF Walking
  <2> QED
    BY <2>2, <2>3
<1> QED
  BY <1>3, <1>4, <1>5, <1>6, <1>7, <1>8, <1>9, <1>10, StepCases

LEMMA SizesAreNumbers == Listings("HostEDID") \subseteq Nat
<1>1. Listings("HostEDID") = EDIDSizes
  BY DEF Listings, PortLists
<1> QED
  BY <1>1, SizesAssumption

LEMMA TellingStep ==
  ASSUME Types, Phases, Observed, Walking, Telling, [Next]_vars
  PROVE  Telling'
<1>0. ASSUME at' # "finish", at' # "ERROR_NONE" PROVE Telling'
  BY <1>0 DEF Telling, Succeeded
<1>1. ASSUME Kept, port' = port, NEW a, Told(a) PROVE Told(a)'
  <2>1. Basis' = Basis
    BY <1>1, KeptMeaning
  <2> QED
    BY <1>1, <2>1 DEF Kept, Told, Collected
<1>2. ASSUME Kept, port' = port, at' = "finish", getter \in ByList, NEW a, a = list', Told(a)
      PROVE  Telling'
  <2>1. Told(a)' /\ getter' \in ByList
    BY <1>1, <1>2 DEF Kept
  <2>2. Told(list)'
    BY <1>2, <2>1
  <2> QED
    BY <1>2, <2>1, <2>2 DEF Telling, Succeeded
<1>3. ASSUME Kept, port' = port, at' = "finish", getter \notin ByList,
             NEW a, a = answer', result' = "ERROR_NONE" => Told(a)
      PROVE  Telling'
  <2>1. getter' \notin ByList
    BY <1>3 DEF Kept
  <2>2. result' = "ERROR_NONE" => Told(a)'
    BY <1>1, <1>3
  <2>3. result' = "ERROR_NONE" => Told(answer)'
    BY <1>3, <2>2
  <2> QED
    BY <1>3, <2>1, <2>3 DEF Telling, Succeeded
<1>4. CASE \/ SupportedMS12AudioProfiles \/ SupportedResolutions
           \/ SupportedAudioPorts \/ SupportedVideoDisplays \/ Addresses
  BY <1>0, <1>4, WalkStarts DEF Starts
<1>5. CASE Item \/ Display \/ Adapter
  BY <1>0, <1>5, TurnShape DEF Turns
<1>6. CASE AudioCapabilities \/ MS12Capabilities
  BY <1>2, <1>6, MaskShape DEF Masks, ByList, Getter, PortGetters
<1>7. CASE Others
  <2>0. Kept /\ UNCHANGED <<list, rest, nodeName>>
    BY <1>7, OthersKeep
  <2>1. CASE DefaultPort \/ Port
    BY <1>0, <2>1 DEF DefaultPort, Port, Takes
  <2>2. CASE DefaultResolution
    <3>1. getter = "DefaultResolution" /\ at = "ask" /\ at' = "finish" /\ port' = port
          /\ answer' = has[port]
      BY <2>2 DEF DefaultResolution, Takes, Answers, locals
    <3>2. has[port] \in had[port]
      BY <3>1 DEF Observed, Types
    <3>3. Told(answer')
      BY <3>1, <3>2 DEF Told, Walkers
    <3> QED
      BY <1>3, <2>0, <3>1, <3>3 DEF ByList
  <2>3. CASE SupportedHdcp
    <3>1. getter = "SupportedHdcp" /\ at = "ask" /\ at' = "finish" /\ port' = port
          /\ \/ has[port] = "dsHDCP_VERSION_2X" /\ answer' = "HDCP_22"
             \/ has[port] = "dsHDCP_VERSION_1X" /\ answer' = "HDCP_14"
             \/ result' = "ERROR_GENERAL"
      BY <2>3 DEF SupportedHdcp, Takes, Answers
    <3>2. has[port] \in had[port]
      BY <3>1 DEF Observed, Types
    <3>3. result' = "ERROR_NONE" => Told(answer')
      BY <3>1, <3>2 DEF Told, Walkers
    <3> QED
      BY <1>3, <2>0, <3>1, <3>3 DEF ByList
  <2>4. CASE HostEDID
    <3>1. getter = "HostEDID" /\ at' = "finish" /\ port' = port
      BY <2>4 DEF HostEDID, Takes
    <3>2. (result' = "ERROR_GENERAL") \/ (listing <= 65535 /\ answer' = listing % 65536)
      <4>1. listing \in Nat
        BY <3>1, SizesAreNumbers DEF Types
      <4> QED
        BY <2>4, <4>1 DEF HostEDID, TooLong, Answers
    <3>3. listing \in Nat /\ (listing <= 65535 => listing % 65536 = listing)
      <4>1. listing \in Nat
        BY <3>1, SizesAreNumbers DEF Types
      <4> QED
        BY <4>1
    <3>4. result' = "ERROR_NONE" => Told(answer')
      BY <3>1, <3>2, <3>3 DEF Told, Walkers
    <3> QED
      BY <1>3, <2>0, <3>1, <3>4 DEF ByList
  <2>5. CASE LoopEnds
    <3>1. at = "item" /\ at' = "finish" /\ port' = port /\ rest = <<>> /\ getter \in Walkers
      BY <2>5 DEF LoopEnds, Takes, locals, Phases
    <3>2. PICK L \in Basis : Walked(L)
      BY <3>1 DEF Walking
    <3>3. L \in Seq(Pieces)
      BY <3>1, BasisTyped DEF Types, Phases, Observed
    <3>4. PICK m \in 0 .. Len(L) : Len(rest) = Len(L) - m /\ Collected(list, L, m)
      BY <3>2 DEF Walked
    <3>5. m = Len(L)
      <4>1. Len(L) \in Nat
        BY <3>3, LenProperties
      <4>2. Len(rest) = 0
        BY <3>1
      <4> QED
        BY <3>4, <4>1, <4>2
    <3>6. Told(list)
      <4>1. Collected(list, L, Len(L))
        BY <3>4, <3>5
      <4> QED
        BY <3>1, <3>2, <4>1 DEF Told, Walkers
    <3>7. getter \in ByList
      BY <3>1 DEF Walkers, ByList, Getter, PortGetters, PortLists
    <3> QED
      BY <1>2, <2>0, <3>1, <3>6, <3>7
  <2>6. CASE Throw
    <3>1. at' = "finish" /\ result' = "ERROR_GENERAL"
      BY <2>6 DEF Throw
    <3> QED
      BY <3>1 DEF Telling, Succeeded
  <2>7. CASE Finish
    <3>1. at = "finish" /\ at' = result /\ port' = port /\ result' = result
      BY <2>7 DEF Finish, locals
    <3>2. CASE result = "ERROR_NONE"
      <4>1. Told(IF getter \in ByList THEN list ELSE answer)
        BY <3>1, <3>2 DEF Telling
      <4>2. CASE getter \in ByList
        <5>1. answer' = list /\ list \in Seq(Members)
          BY <2>7, <3>2, <4>2 DEF Finish, HandedOut, Answers, Types
        <5>2. PICK a : a = list
          OBVIOUS
        <5>3. Told(a)'
          BY <1>1, <2>0, <3>1, <4>1, <4>2, <5>2
        <5>4. Told(answer)'
          BY <5>1, <5>2, <5>3
        <5>5. answer' \in Seq(Members)'
          BY <2>0, <5>1, KeptMeaning
        <5> QED
          BY <3>1, <3>2, <5>4, <5>5 DEF Telling, Succeeded
      <4>3. CASE getter \notin ByList
        <5>1. answer' = answer
          BY <2>7, <4>3 DEF Finish, HandedOut, output
        <5>2. PICK a : a = answer
          OBVIOUS
        <5>3. Told(a)'
          BY <1>1, <2>0, <3>1, <4>1, <4>3, <5>2
        <5>4. Told(answer)'
          BY <5>1, <5>2, <5>3
        <5>5. getter' \notin ByList
          BY <2>0, <4>3 DEF Kept
        <5> QED
          BY <3>1, <3>2, <5>4, <5>5 DEF Telling, Succeeded
      <4> QED
        BY <4>2, <4>3
    <3>3. CASE result # "ERROR_NONE"
      BY <1>0, <3>1, <3>3 DEF Types, Results
    <3> QED
      BY <3>2, <3>3
  <2> QED
    BY <1>7, <2>1, <2>2, <2>3, <2>4, <2>5, <2>6, <2>7 DEF Others
<1>8. ASSUME NEW g \in Getters, NEW a \in Ports \cup {""}, Call(g, a) PROVE Telling'
  <2>1. at' \in {"default", "port", "list"}
    BY <1>8, CallStarts
  <2> QED
    BY <1>0, <2>1
<1>9. CASE Change
  BY <1>0, <1>9, ChangeShape
<1>10. CASE Return
  BY <1>10, ReturnForgets
<1>11. CASE UNCHANGED vars
  <2>1. Kept /\ UNCHANGED <<port, at, result, list, answer>>
    BY <1>11 DEF vars, world, locals, output, seen, Kept
  <2>2. ASSUME NEW a, Told(a) PROVE Told(a)'
    BY <1>1, <2>1, <2>2
  <2>3. PICK l, b : l = list /\ b = answer
    OBVIOUS
  <2>4. (Told(list) => Told(list)') /\ (Told(answer) => Told(answer)')
    <3>1. Told(l)' = Told(list)' /\ Told(b)' = Told(answer)'
      BY <2>1, <2>3
    <3> QED
      BY <2>2, <2>3, <3>1
  <2>5. getter' = getter /\ Members' = Members
    BY <2>1, KeptMeaning DEF Kept
  <2> QED
    BY <2>1, <2>4, <2>5 DEF Telling, Succeeded
<1> QED
  BY <1>4, <1>5, <1>6, <1>7, <1>8, <1>9, <1>10, <1>11, StepCases

-----------------------------------------------------------------------------
(* The theorems.                                                           *)

IInv == Types /\ Phases /\ Observed /\ Caused /\ Walking /\ Telling

(* Together the invariants are inductive.                                  *)
THEOREM Invariant == Spec => []IInv
<1>1. Init => IInv
  <2>1. Init => Forgotten
    BY DEF Init, Forgotten
  <2> QED
    BY <2>1, ForgottenHolds DEF IInv
<1>2. IInv /\ [Next]_vars => IInv'
  BY TypesStep, PhasesStep, ObservedStep, CausedStep, WalkingStep, TellingStep DEF IInv
<1> QED
  BY <1>1, <1>2, PTL DEF Spec

(* A getter is at a call of its own, and its list holds members of its own *)
(* interface.                                                              *)
THEOREM TypeCorrect == Spec => []TypeOK
<1>1. Types /\ Phases => TypeOK
  <2> SUFFICES ASSUME Types, Phases PROVE TypeOK
    OBVIOUS
  <2>1. Items(list) \subseteq Members
    <3> DEFINE M == Members
    <3>1. list \in Seq(M)
      BY DEF Types
    <3> HIDE DEF M
    <3>2. \A i \in DOMAIN list : list[i] \in M
      BY <3>1
    <3> QED
      BY <3>2 DEF M, Items
  <2>2. at = "ask" => port # ""
    BY PortsAssumption DEF Types
  <2>3. at \in IF getter = "none" THEN {"idle"} ELSE CallsOf(getter) \cup {"finish"} \cup Results
    BY DEF Types, Phases, CallsOf, Calls, ByList, Getter, PortGetters, PortLists, Walkers
  <2>4. at = "default" => argument = ""
    BY DEF Phases
  <2> QED
    BY <2>1, <2>2, <2>3, <2>4 DEF Types, TypeOK
<1> QED
  BY <1>1, Invariant, PTL DEF IInv

(* A call answers in full or not at all.                                   *)
THEOREM AnswersAreWhole == Spec => []AllOrNothing
<1>1. Phases => AllOrNothing
  BY DEF Phases, AllOrNothing
<1> QED
  BY <1>1, Invariant, PTL DEF IInv

(* A call fails only for a cause.                                          *)
THEOREM FailuresHaveCauses == Spec => []FailureHasCause
<1>1. Phases /\ Caused => FailureHasCause
  <2>1. Phases /\ Failed => result = "ERROR_GENERAL"
    BY DEF Phases, Failed, Results
  <2> QED
    BY <2>1 DEF Caused, FailureHasCause
<1> QED
  BY <1>1, Invariant, PTL DEF IInv

(* The EDID is encoded over its whole length.                              *)
THEOREM EDIDsAreWhole == Spec => []EDIDIsWhole
<1>1. Telling => EDIDIsWhole
  BY DEF Telling, EDIDIsWhole, Told, Walkers
<1> QED
  BY <1>1, Invariant, PTL DEF IInv

(* What is collected item by item is the list itself.                      *)
LEMMA CopiesAreEqual ==
  ASSUME NEW S, NEW l \in Seq(S), NEW L \in Seq(S), Len(l) = Len(L),
         \A i \in 1 .. Len(L) : l[i] = L[i]
  PROVE  l = L
BY SeqEqual

(* An answer is that of one port that the caller meant, at one moment at   *)
(* which it was there.                                                     *)
THEOREM AnswersAreOfOnePort == Spec => []AnswerOfOnePort
<1>1. IInv => AnswerOfOnePort
  <2> SUFFICES ASSUME IInv, Succeeded, getter \in PortGetters
               PROVE  \E p \in Meant : \E s \in had[p] : Reports(s)
    BY DEF AnswerOfOnePort
  <2> USE DEF IInv
  <2>1. port \in Ports /\ port \in Meant \cap there
    BY DEF Succeeded, Phases, Observed, Results
  <2>2. Told(answer) /\ (getter \in ByList => answer \in Seq(Members))
    BY DEF Telling
  <2>3. CASE getter \in {"SupportedMS12AudioProfiles", "SupportedResolutions"}
    <3>1. PICK L \in had[port] : Collected(answer, L, Len(L))
      BY <2>2, <2>3 DEF Told, Walkers, Basis, PortGetters
    <3>2. L \in Seq(Pieces) /\ Pieces = Members
      BY <2>1, <2>3, <3>1, BasisTyped DEF Walkers, Basis, PortGetters, Pieces
    <3>3. answer \in Seq(Members)
      BY <2>2, <2>3 DEF ByList, Getter, PortGetters
    <3>4. Len(answer) = Len(L) /\ \A i \in 1 .. Len(L) : answer[i] = L[i]
      BY <2>3, <3>1 DEF Collected
    <3>5. answer = L
      BY <3>2, <3>3, <3>4, CopiesAreEqual
    <3>6. Reports(L)
      BY <2>3, <3>5 DEF Reports
    <3> QED
      BY <2>1, <3>1, <3>6
  <2>4. CASE getter \in Masks
    BY <2>1, <2>2, <2>4 DEF Told, Reports, Masks, Walkers
  <2>5. CASE getter = "DefaultResolution"
    BY <2>1, <2>2, <2>5 DEF Told, Reports, Walkers
  <2>6. CASE getter = "SupportedHdcp"
    BY <2>1, <2>2, <2>6 DEF Told, Reports, Walkers
  <2> QED
    BY <2>3, <2>4, <2>5, <2>6 DEF PortGetters, Masks
<1> QED
  BY <1>1, Invariant, PTL

(* Every port is listed, and every display once, by its first mention.     *)
THEOREM PortListsAreComplete == Spec => []PortsAreListed
<1>1. IInv => PortsAreListed
  <2> SUFFICES ASSUME IInv, Succeeded, getter \in PortLists PROVE PortsAreListed
    BY DEF PortsAreListed
  <2> USE DEF IInv
  <2>1. Basis = {listing} /\ Pieces = Members /\ getter \in Walkers
    BY DEF Basis, Pieces, PortGetters, PortLists, Walkers
  <2>2. Collected(answer, listing, Len(listing)) /\ answer \in Seq(Members)
    BY <2>1 DEF Telling, Told, ByList, Getter, PortLists
  <2>3. listing \in Seq(Members)
    BY <2>1, BasisTyped DEF PortGetters, PortLists
  <2>4. DOMAIN listing = 1 .. Len(listing)
    BY <2>3, LenProperties
  <2>5. CASE getter = "SupportedAudioPorts"
    <3>1. Len(answer) = Len(listing) /\ \A i \in 1 .. Len(listing) : answer[i] = listing[i]
      BY <2>2, <2>5 DEF Collected
    <3>2. answer = listing
      BY <2>2, <2>3, <3>1, CopiesAreEqual
    <3> QED
      BY <2>5, <3>2 DEF PortsAreListed
  <2>6. CASE getter = "SupportedVideoDisplays"
    <3>1. /\ Items(answer) = {listing[n] : n \in 1 .. Len(listing)}
          /\ \A i, j \in DOMAIN answer : i < j =>
               \E k \in 1 .. Len(listing) :
                 listing[k] = answer[i] /\ \A n \in 1 .. k : listing[n] # answer[j]
      BY <2>2, <2>6 DEF Collected
    <3>2. Items(answer) = Items(listing)
      BY <2>4, <3>1 DEF Items
    <3> QED
      BY <2>4, <2>6, <3>1, <3>2 DEF PortsAreListed
  <2> QED
    BY <2>5, <2>6 DEF PortLists
<1> QED
  BY <1>1, Invariant, PTL

(* Every adapter is listed, with its own last address if it has one.       *)
THEOREM AdapterListsAreComplete == Spec => []AdaptersAreListed
<1>1. IInv => AdaptersAreListed
  <2> SUFFICES ASSUME IInv, at \in Results, getter = "Addresses" PROVE AdaptersAreListed
    BY DEF AdaptersAreListed
  <2> USE DEF IInv
  <2>1. Succeeded
    BY DEF Phases, Succeeded
  <2>2. Basis = {listing} /\ getter \in Walkers
    BY DEF Basis, PortGetters, Walkers
  <2>3. Collected(answer, listing, Len(listing))
    BY <2>1, <2>2 DEF Telling, Told
  <2>4. listing \in Seq(Pieces)
    BY <2>2, BasisTyped DEF PortGetters
  <2>5. DOMAIN listing = 1 .. Len(listing)
    BY <2>4, LenProperties
  <2> QED
    BY <2>1, <2>3, <2>5 DEF Collected, AdaptersAreListed
<1> QED
  BY <1>1, Invariant, PTL
=============================================================================
