------------------------ MODULE DeviceInfoQueries_proofs ------------------------
(***************************************************************************)
(* Proofs about DeviceInfoQueries, for every set of queries and any number *)
(* of changes of their sources during a call.                              *)
(*                                                                         *)
(* A query goes through its order of preference: at each source it either  *)
(* takes the answer or passes on to the next one (StepShape). What it has  *)
(* passed, and what it has written, is what it says at the end.            *)
(***************************************************************************)
EXTENDS DeviceInfoQueries, SequenceTheorems, TLAPS

-----------------------------------------------------------------------------
(* The tables.                                                             *)

(* What is said of the orders of preference: a few different sources.      *)
Distinct(order, S) ==
  /\ Len(order) \in 1 .. 3 /\ DOMAIN order = 1 .. Len(order)
  /\ \A i \in DOMAIN order : order[i] \in S
  /\ \A i, j \in DOMAIN order : order[i] = order[j] => i = j

LEMMA ShortOrders ==
  /\ \A S : \A a \in S : Distinct(<<a>>, S)
  /\ \A S : \A a, b \in S : a # b => Distinct(<<a, b>>, S)
  /\ \A S : \A a, b, c \in S : a # b /\ a # c /\ b # c => Distinct(<<a, b, c>>, S)
<1>1. ASSUME NEW S, NEW a \in S PROVE Distinct(<<a>>, S)
  BY DEF Distinct
<1>2. ASSUME NEW S, NEW a \in S, NEW b \in S, a # b PROVE Distinct(<<a, b>>, S)
  BY <1>2 DEF Distinct
<1>3. ASSUME NEW S, NEW a \in S, NEW b \in S, NEW c \in S, a # b, a # c, b # c
      PROVE  Distinct(<<a, b, c>>, S)
  BY <1>3 DEF Distinct
<1> QED
  BY <1>1, <1>2, <1>3

(* The order of preference of a query names each of its sources once.      *)
LEMMA OrderTable ==
  ASSUME NEW q \in Query
  PROVE  /\ Distinct(Order(q), Source)
         /\ \A i \in DOMAIN Order(q) : Order(q)[i] \in ReadBy(q) /\ Order(q)[i] # "DEVICE_NAME"
<1> DEFINE S == Source \ {"DEVICE_NAME"}
<1>0. Distinct(Order(q), S)
  <2>1. CASE q \in {"SerialNumber", "SystemInfo"}
    <3>1. Order(q) = <<"mfrSerialNumber", "rfcSerialNumber">> /\ {"mfrSerialNumber", "rfcSerialNumber"} \subseteq S
      BY <2>1
      DEF Order, Source, DeviceProperties, VersionTxt, LineFiles, Mfr, Rfc, Script
    <3> QED
      BY <3>1, ShortOrders
  <2>2. CASE q = "Sku"
    <3>1. Order(q) = <<"MODEL_NUM", "mfrModelName", "rfcModelName">> /\ {"MODEL_NUM", "mfrModelName", "rfcModelName"} \subseteq S
      BY <2>2
      DEF Order, Source, DeviceProperties, VersionTxt, LineFiles, Mfr, Rfc, Script
    <3> QED
      BY <3>1, ShortOrders
  <2>3. CASE q = "Make"
    <3>1. Order(q) = <<"mfrManufacturer", "MFG_NAME">> /\ {"mfrManufacturer", "MFG_NAME"} \subseteq S
      BY <2>3
      DEF Order, Source, DeviceProperties, VersionTxt, LineFiles, Mfr, Rfc, Script
    <3> QED
      BY <3>1, ShortOrders
  <2>4. CASE q = "Model"
    <3>1. Order(q) = <<"mfrProvisioned", "FRIENDLY_ID">> /\ {"mfrProvisioned", "FRIENDLY_ID"} \subseteq S
      BY <2>4
      DEF Order, Source, DeviceProperties, VersionTxt, LineFiles, Mfr, Rfc, Script
    <3> QED
      BY <3>1, ShortOrders
  <2>5. CASE q = "Brand"
    <3>1. Order(q) = <<"manufacturer", "mfrManufacturer">> /\ {"manufacturer", "mfrManufacturer"} \subseteq S
      BY <2>5
      DEF Order, Source, DeviceProperties, VersionTxt, LineFiles, Mfr, Rfc, Script
    <3> QED
      BY <3>1, ShortOrders
  <2>6. CASE q = "DeviceType"
    <3>1. Order(q) = <<"deviceType", "DEVICE_TYPE">> /\ {"deviceType", "DEVICE_TYPE"} \subseteq S
      BY <2>6
      DEF Order, Source, DeviceProperties, VersionTxt, LineFiles, Mfr, Rfc, Script
    <3> QED
      BY <3>1, ShortOrders
  <2>7. CASE q = "SocName"
    <3>1. Order(q) = <<"SOC">> /\ {"SOC"} \subseteq S
      BY <2>7
      DEF Order, Source, DeviceProperties, VersionTxt, LineFiles, Mfr, Rfc, Script
    <3> QED
      BY <3>1, ShortOrders
  <2>8. CASE q = "DistributorId"
    <3>1. Order(q) = <<"partnerId3", "rfcPartnerId">> /\ {"partnerId3", "rfcPartnerId"} \subseteq S
      BY <2>8
      DEF Order, Source, DeviceProperties, VersionTxt, LineFiles, Mfr, Rfc, Script
    <3> QED
      BY <3>1, ShortOrders
  <2>9. CASE q = "ChipSet"
    <3>1. Order(q) = <<"CHIPSET_NAME">> /\ {"CHIPSET_NAME"} \subseteq S
      BY <2>9
      DEF Order, Source, DeviceProperties, VersionTxt, LineFiles, Mfr, Rfc, Script
    <3> QED
      BY <3>1, ShortOrders
  <2>10. CASE q \in {"ReleaseVersion", "FirmwareVersion"}
    <3>1. Order(q) = <<"imagename">> /\ {"imagename"} \subseteq S
      BY <2>10
      DEF Order, Source, DeviceProperties, VersionTxt, LineFiles, Mfr, Rfc, Script
    <3> QED
      BY <3>1, ShortOrders
  <2>11. CASE q = "EthMac"
    <3>1. Order(q) = <<"eth_mac">> /\ {"eth_mac"} \subseteq S
      BY <2>11
      DEF Order, Source, DeviceProperties, VersionTxt, LineFiles, Mfr, Rfc, Script
    <3> QED
      BY <3>1, ShortOrders
  <2>12. CASE q = "EstbMac"
    <3>1. Order(q) = <<"estb_mac">> /\ {"estb_mac"} \subseteq S
      BY <2>12
      DEF Order, Source, DeviceProperties, VersionTxt, LineFiles, Mfr, Rfc, Script
    <3> QED
      BY <3>1, ShortOrders
  <2>13. CASE q = "WifiMac"
    <3>1. Order(q) = <<"wifi_mac">> /\ {"wifi_mac"} \subseteq S
      BY <2>13
      DEF Order, Source, DeviceProperties, VersionTxt, LineFiles, Mfr, Rfc, Script
    <3> QED
      BY <3>1, ShortOrders
  <2>14. CASE q = "EstbIp"
    <3>1. Order(q) = <<"estb_ip">> /\ {"estb_ip"} \subseteq S
      BY <2>14
      DEF Order, Source, DeviceProperties, VersionTxt, LineFiles, Mfr, Rfc, Script
    <3> QED
      BY <3>1, ShortOrders
  <2> QED
    BY <2>1, <2>2, <2>3, <2>4, <2>5, <2>6, <2>7, <2>8, <2>9, <2>10, <2>11, <2>12, <2>13, <2>14 DEF Query
<1>1. \A i \in DOMAIN Order(q) : Order(q)[i] \in ReadBy(q)
  BY DEF ReadBy
<1> QED
  BY <1>0, <1>1 DEF Distinct

(* A query begins at a source of its own, and reads nothing else.          *)
LEMMA ReadTable ==
  ASSUME NEW q \in Query
  PROVE  /\ ReadBy(q) \subseteq Source /\ First(q) \in ReadBy(q)
         /\ First(q) = Order(q)[1] \/ (q = "Model" /\ First(q) = "DEVICE_NAME")
         /\ "DEVICE_NAME" \in ReadBy(q) <=> q = "Model"
         /\ First(q) # "mfrProvisioned"
         /\ \A i \in DOMAIN Order(q) : Order(q)[i] = "mfrProvisioned" => i = 1
<1>1. \A i \in DOMAIN Order(q) : Order(q)[i] \in Source /\ Order(q)[i] # "DEVICE_NAME"
  BY OrderTable DEF Distinct
<1>2. 1 \in DOMAIN Order(q) /\ Order(q)[1] \in ReadBy(q)
  BY OrderTable DEF Distinct
<1>3. First(q) # "mfrProvisioned"
  BY DEF First, Order, Query
<1>4. CASE q = "Model"
  <2>1. Order(q)[1] = "mfrProvisioned"
    BY <1>4 DEF Order
  <2>2. \A i \in DOMAIN Order(q) : Order(q)[i] = "mfrProvisioned" => i = 1
    BY <1>2, <2>1, OrderTable DEF Distinct
  <2> QED
    BY <1>1, <1>2, <1>3, <1>4, <2>2
    DEF ReadBy, First, Source, DeviceProperties, VersionTxt, LineFiles, Mfr, Rfc, Script
<1>5. CASE q # "Model"
  <2>1. \A i \in DOMAIN Order(q) : Order(q)[i] # "mfrProvisioned"
    BY <1>5 DEF Order, Query
  <2> QED
    BY <1>1, <1>2, <1>3, <1>5, <2>1
    DEF ReadBy, First, Source, DeviceProperties, VersionTxt, LineFiles, Mfr, Rfc, Script
<1> QED
  BY <1>4, <1>5

(* Nobody else asks for the type of device.properties.                     *)
LEMMA TypeTable ==
  ASSUME NEW q \in Query, q # "DeviceType"
  PROVE  \A i \in DOMAIN Order(q) : Order(q)[i] # "DEVICE_TYPE"
BY DEF Order, Query

-----------------------------------------------------------------------------
(* Types, and the shape of a step.                                         *)

(* What the sources of query q may contain at one moment.                  *)
Values == UNION {ContentOf(s) : s \in Source}
Snapshots(q) == {held \in [ReadBy(q) -> Values] : \A s \in ReadBy(q) : held[s] \in ContentOf(s)}

(* The types, as an inductive invariant: past is a sequence of snapshots,  *)
(* and out a function.                                                     *)
Types ==
  /\ query \in Queries \cup {"none"}
  /\ at \in IF query = "none" THEN {"idle"} ELSE ReadBy(query) \cup Results
  /\ past \in Seq(Snapshots(query))
  /\ Len(past) \in IF query = "none" THEN {0} ELSE 1 .. MaxUpdates + 1
  /\ out = [f \in Fields |-> out[f]]

At(i) == i \in DOMAIN Order(query) /\ at = Order(query)[i]

(* The i-th source has no answer: the next one is asked, or nobody is left.*)
Pass(i) ==
  /\ At(i) /\ ~Usable(at, content[at])
  /\ at' = IF i = Len(Order(query)) THEN "ERROR_GENERAL" ELSE Order(query)[i + 1]
  /\ out' = out

(* The i-th source has the answer.                                         *)
Take(i) ==
  /\ At(i) /\ Usable(at, content[at])
  /\ at' = "ERROR_NONE"
  /\ out' = [out EXCEPT !["value"] = <<at, content[at]>>]

(* What the sources contain now was seen, and is something they may contain.*)
LEMMA ContentSeen ==
  ASSUME Types, query # "none", NEW s \in ReadBy(query)
  PROVE  content[s] \in Seen(s) /\ content[s] \in ContentOf(s)
<1>1. Len(past) \in DOMAIN past /\ past[Len(past)] \in Snapshots(query)
  BY DEF Types
<1> QED
  BY <1>1 DEF content, Seen, Snapshots

(* Which contents are answers, by the kind of source.                      *)
LEMMA UsableTable ==
  ASSUME NEW s \in Source, NEW v \in ContentOf(s)
  PROVE  /\ s \in Mfr \cup Rfc => (Usable(s, v) <=> v \notin {Absent, Blank})
         /\ s \notin Mfr \cup Rfc => (Usable(s, v) <=> v # Absent)
<1> USE DEF ContentOf, Usable, Absent, Blank, Source, DeviceProperties, VersionTxt, LineFiles,
        Mfr, Rfc, Script
<1>1. CASE s \in Mfr \cup Rfc
  BY <1>1
<1>2. CASE s \in Script
  BY <1>2
<1>3. CASE s \in DeviceProperties \cup VersionTxt \cup LineFiles
  BY <1>3
<1> QED
  BY <1>1, <1>2, <1>3

(* The reader of the i-th source passes on or takes the answer.            *)
Asks(i) == UNCHANGED <<past, query>> /\ (Pass(i) \/ Take(i))

LEMMA ReadShape ==
  ASSUME Types, query # "none", NEW i \in DOMAIN Order(query), NEW s, NEW missing,
         s = Order(query)[i],
         missing = IF i = Len(Order(query)) THEN "ERROR_GENERAL" ELSE Order(query)[i + 1],
         \/ s \notin Mfr \cup Rfc /\ GetFileRegex(s, "value", "ERROR_NONE", missing)
         \/ s \in Mfr \cup Rfc /\ GetMFRData(s, "value", "ERROR_NONE", missing)
         \/ s \in Mfr \cup Rfc /\ GetRFCData(s, "value", "ERROR_NONE", missing)
  PROVE  Asks(i)
<1>1. s \in Source /\ s \in ReadBy(query)
  BY OrderTable, QueriesAssumption DEF Types, Distinct
<1>2. content[s] \in ContentOf(s)
  BY <1>1, ContentSeen
<1>3. /\ s \in Mfr \cup Rfc => (Usable(s, content[s]) <=> content[s] \notin {Absent, Blank})
      /\ s \notin Mfr \cup Rfc => (Usable(s, content[s]) <=> content[s] # Absent)
  BY <1>1, <1>2, UsableTable
<1>4. at = s /\ At(i)
  BY DEF GetFileRegex, GetMFRData, GetRFCData, Read, At
<1> QED
  BY <1>3, <1>4 DEF GetFileRegex, GetMFRData, GetRFCData, Read, Pass, Take, Asks

(* A query that only asks its sources in order.                            *)
Asking == \E i \in DOMAIN Order(query) : Asks(i)

LEMMA ChainShape ==
  ASSUME Types, NEW q \in Queries, query = q,
         \/ q = "SerialNumber" /\ SerialNumber
         \/ q = "Sku" /\ Sku
         \/ q = "Make" /\ Make
         \/ q = "Brand" /\ Brand
         \/ q = "DistributorId" /\ DistributorId
  PROVE  Asking
<1> USE DEF Asking, Mfr, Rfc
<1>0. q \in Query /\ query # "none"
  BY QueriesAssumption DEF Query
<1>1. CASE q = "Sku"
  <2>0. Order(query) = <<"MODEL_NUM", "mfrModelName", "rfcModelName">>
    BY <1>1 DEF Order
  <2>1. CASE GetFileRegex("MODEL_NUM", "value", "ERROR_NONE", "mfrModelName")
    BY <1>0, <2>0, <2>1, ReadShape
  <2>2. CASE GetMFRData("mfrModelName", "value", "ERROR_NONE", "rfcModelName")
    BY <1>0, <2>0, <2>2, ReadShape
  <2>3. CASE GetRFCData("rfcModelName", "value", "ERROR_NONE", "ERROR_GENERAL")
    BY <1>0, <2>0, <2>3, ReadShape
  <2> QED
    BY <1>1, <2>1, <2>2, <2>3 DEF Sku
<1>2. CASE q = "SerialNumber"
  <2>0. Order(query) = <<"mfrSerialNumber", "rfcSerialNumber">>
    BY <1>2 DEF Order
  <2>1. CASE GetMFRData("mfrSerialNumber", "value", "ERROR_NONE", "rfcSerialNumber")
    BY <1>0, <2>0, <2>1, ReadShape
  <2>2. CASE GetRFCData("rfcSerialNumber", "value", "ERROR_NONE", "ERROR_GENERAL")
    BY <1>0, <2>0, <2>2, ReadShape
  <2> QED
    BY <1>2, <2>1, <2>2 DEF SerialNumber
<1>3. CASE q = "Make"
  <2>0. Order(query) = <<"mfrManufacturer", "MFG_NAME">>
    BY <1>3 DEF Order
  <2>1. CASE GetMFRData("mfrManufacturer", "value", "ERROR_NONE", "MFG_NAME")
    BY <1>0, <2>0, <2>1, ReadShape
  <2>2. CASE GetFileRegex("MFG_NAME", "value", "ERROR_NONE", "ERROR_GENERAL")
    BY <1>0, <2>0, <2>2, ReadShape
  <2> QED
    BY <1>3, <2>1, <2>2 DEF Make
<1>4. CASE q = "Brand"
  <2>0. Order(query) = <<"manufacturer", "mfrManufacturer">>
    BY <1>4 DEF Order
  <2>1. CASE GetFileRegex("manufacturer", "value", "ERROR_NONE", "mfrManufacturer")
    BY <1>0, <2>0, <2>1, ReadShape
  <2>2. CASE GetMFRData("mfrManufacturer", "value", "ERROR_NONE", "ERROR_GENERAL")
    BY <1>0, <2>0, <2>2, ReadShape
  <2> QED
    BY <1>4, <2>1, <2>2 DEF Brand
<1>5. CASE q = "DistributorId"
  <2>0. Order(query) = <<"partnerId3", "rfcPartnerId">>
    BY <1>5 DEF Order
  <2>1. CASE GetFileRegex("partnerId3", "value", "ERROR_NONE", "rfcPartnerId")
    BY <1>0, <2>0, <2>1, ReadShape
  <2>2. CASE GetRFCData("rfcPartnerId", "value", "ERROR_NONE", "ERROR_GENERAL")
    BY <1>0, <2>0, <2>2, ReadShape
  <2> QED
    BY <1>5, <2>1, <2>2 DEF DistributorId
<1> QED
  BY <1>1, <1>2, <1>3, <1>4, <1>5

LEMMA OneSourceShape ==
  ASSUME Types, NEW q \in Queries, query = q,
         \/ q = "SocName" /\ SocName
         \/ q = "ChipSet" /\ ChipSet
         \/ q = "EthMac" /\ EthMac
         \/ q = "EstbMac" /\ EstbMac
         \/ q = "WifiMac" /\ WifiMac
         \/ q = "EstbIp" /\ EstbIp
  PROVE  Asking
<1>0. q \in Query /\ query # "none"
  BY QueriesAssumption DEF Query
<1>1. ASSUME NEW s, s \notin Mfr \cup Rfc, Order(query) = <<s>>,
             GetFileRegex(s, "value", "ERROR_NONE", "ERROR_GENERAL")
      PROVE  Asking
  BY <1>0, <1>1, ReadShape DEF Asking
<1>2. CASE q = "SocName"
  BY <1>1, <1>2 DEF SocName, Order, Mfr, Rfc
<1>3. CASE q = "ChipSet"
  BY <1>1, <1>3 DEF ChipSet, Order, Mfr, Rfc
<1>4. CASE q = "EthMac"
  BY <1>1, <1>4 DEF EthMac, Order, Mfr, Rfc, GetDeviceDetails, GetFileRegex
<1>5. CASE q = "EstbMac"
  BY <1>1, <1>5 DEF EstbMac, Order, Mfr, Rfc, GetDeviceDetails, GetFileRegex
<1>6. CASE q = "WifiMac"
  BY <1>1, <1>6 DEF WifiMac, Order, Mfr, Rfc, GetDeviceDetails, GetFileRegex
<1>7. CASE q = "EstbIp"
  BY <1>1, <1>7 DEF EstbIp, Order, Mfr, Rfc, GetDeviceDetails, GetFileRegex
<1> QED
  BY <1>2, <1>3, <1>4, <1>5, <1>6, <1>7

-----------------------------------------------------------------------------
(* The invariants.                                                         *)

PassedBefore(i) ==
  \A j \in 1 .. i - 1 : j \in DOMAIN Order(query) => Skipped(Order(query)[j])

(* The library has the model's name on a provisioned device only.          *)
SeenProvisioned(s) == s = "mfrProvisioned" => Seen("DEVICE_NAME") \cap Provisioned # {}

(* The answer is that of source i, the ones before it having none.         *)
Answered ==
  \E i \in DOMAIN Order(query) : /\ out["value"][1] = Order(query)[i]
                                 /\ PassedBefore(i) /\ SeenProvisioned(Order(query)[i])

NobodyAnswered == PassedBefore(Len(Order(query)) + 1)

(* What a query has passed when it asks a source, fails or succeeds.       *)
Chain ==
  query # "none" =>
    /\ \A i \in DOMAIN Order(query) :
         at = Order(query)[i] => PassedBefore(i) /\ SeenProvisioned(Order(query)[i])
    /\ Failed => NobodyAnswered /\ query \notin {"ReleaseVersion", "SystemInfo"}
    /\ Succeeded /\ query \in TextQuery => Answered
    /\ Succeeded /\ query = "SystemInfo" =>
         Answered \/ (NobodyAnswered /\ out["value"] = Empty)

(* What the caller finds if nothing is written.                            *)
Fresh(q) == [f \in Fields |-> IF q = "Brand" /\ f = "value" THEN Unknown ELSE Untouched]

Unwritten ==
  query # "none" /\ (at = "DEVICE_NAME" \/ Failed \/ \E i \in DOMAIN Order(query) : At(i))
    => out = Fresh(query)

(* The two queries that convert what they read.                            *)
TypeFound ==
  query = "DeviceType" /\ Succeeded =>
    \/ \E v \in Seen("deviceType") :
         v # Absent /\ (v \in StringToDeviceType => out["value"] = <<"deviceType", v>>)
    \/ /\ Skipped("deviceType")
       /\ \E v \in Seen("DEVICE_TYPE") :
            v # Absent /\ out["value"] = <<"DEVICE_TYPE", Converted(v)>>

VersionFound ==
  query = "ReleaseVersion" /\ at # "imagename" =>
    /\ Succeeded
    /\ \E v \in Seen("imagename") :
         out["value"] = IF v = "v1" THEN <<"imagename", "v1">> ELSE NoVersion

(* FirmwareVersion has written its first members, in order, each at a      *)
(* moment that is not before that of the one before it.                    *)
FirmwareField  == <<"value", "sdk", "mediarite", "yocto", "pdri">>
FirmwareSource == <<"imagename", "SDK_VERSION", "MEDIARITE", "YOCTO_VERSION", "mfrPdri">>

Done == CASE at = "SDK_VERSION"   -> 1
          [] at = "MEDIARITE"     -> 2
          [] at = "YOCTO_VERSION" -> 3
          [] at = "mfrPdri"       -> 4
          [] at = "ERROR_NONE"    -> 5
          [] OTHER                -> 0

WrittenAt(when) ==
  /\ when \in [1 .. 5 -> DOMAIN past]
  /\ \A i \in 1 .. 4 : when[i] <= when[i + 1]
  /\ \A k \in 1 .. Done :
       out[FirmwareField[k]] = MemberOf(past[when[k]], FirmwareSource[k])
  /\ Done > 0 => past[when[1]]["imagename"] # Absent

Progress ==
  query = "FirmwareVersion" => \E when \in [1 .. 5 -> DOMAIN past] : WrittenAt(when)

-----------------------------------------------------------------------------
(* What a call, a change of the sources and a step do.                     *)

(* A call starts with one snapshot ...                                     *)
LEMMA CallStarts ==
  ASSUME NEW q \in Queries, Call(q)
  PROVE  /\ query' = q /\ q \in Query /\ query' # "none" /\ at' = First(q)
         /\ at' \in ReadBy(q) /\ out' = Fresh(q)
         /\ past' \in Seq(Snapshots(q)) /\ Len(past') = 1
<1>1. q \in Query /\ q # "none" /\ ReadBy(q) \subseteq Source /\ First(q) \in ReadBy(q)
  BY QueriesAssumption, ReadTable DEF Query
<1>2. PICK new \in Contents(ReadBy(q)) : past' = <<new>>
  BY DEF Call
<1>3. new \in Snapshots(q)
  <2>1. /\ new \in [ReadBy(q) -> UNION {ContentOf(s) : s \in ReadBy(q)}]
        /\ \A s \in ReadBy(q) : new[s] \in ContentOf(s)
    BY <1>2 DEF Contents
  <2>2. \A s \in ReadBy(q) : new[s] \in Values
    BY <1>1, <2>1 DEF Values
  <2> QED
    BY <2>1, <2>2 DEF Snapshots
<1> QED
  BY <1>1, <1>2, <1>3 DEF Call, Fresh

(* ... and a change of a unit adds one.                                    *)
LEMMA UpdateAdds ==
  ASSUME Types, NEW unit \in Units, Update(unit)
  PROVE  /\ query # "none" /\ UNCHANGED <<query, at, out>>
         /\ Len(past) <= MaxUpdates
         /\ \E new \in Snapshots(query) : past' = Append(past, new)
<1>1. query \in Query /\ query # "none"
  BY QueriesAssumption
  DEF Types, Update, Source, DeviceProperties, VersionTxt, LineFiles, Mfr, Rfc, Script
<1>2. PICK new \in Contents(unit \cap ReadBy(query)) :
        past' = Append(past, [s \in ReadBy(query) |->
                               IF s \in unit \cap ReadBy(query) THEN new[s] ELSE content[s]])
  BY DEF Update
<1> DEFINE next == [s \in ReadBy(query) |->
                     IF s \in unit \cap ReadBy(query) THEN new[s] ELSE content[s]]
<1>3. \A s \in unit \cap ReadBy(query) : new[s] \in ContentOf(s)
  BY <1>2 DEF Contents
<1>4. \A s \in ReadBy(query) : content[s] \in ContentOf(s)
  BY <1>1, ContentSeen
<1>5. \A s \in ReadBy(query) : next[s] \in ContentOf(s)
  BY <1>3, <1>4
<1>6. \A s \in ReadBy(query) : next[s] \in Values
  BY <1>1, <1>5, ReadTable DEF Values
<1>7. next \in Snapshots(query)
  BY <1>5, <1>6 DEF Snapshots
<1> QED
  BY <1>1, <1>2, <1>7 DEF Update

(* What was seen stays seen, and what was passed over stays so.            *)
Grows == query' = query /\ (past' = past \/ \E new \in Snapshots(query) : past' = Append(past, new))

LEMMA GrowsKeepsSeen ==
  ASSUME Types, Grows, NEW s
  PROVE  Seen(s) \subseteq Seen(s)' /\ (Skipped(s) => Skipped(s)')
<1>1. \A i \in DOMAIN past : i \in DOMAIN past' /\ past'[i] = past[i]
  BY DEF Types, Grows
<1>2. \A t : Seen(t) \subseteq Seen(t)'
  BY <1>1 DEF Seen
<1>3. Skipped(s) => Skipped(s)'
  BY <1>2 DEF Skipped
<1> QED
  BY <1>2, <1>3

(* The steps of the queries that convert or collect what they read.        *)
Elsewhere ==
  /\ query \in {"DeviceType", "FirmwareVersion", "ReleaseVersion"}
  /\ at' \in ReadBy(query) \cup {"ERROR_NONE"}
  /\ \A i \in DOMAIN Order(query) : at' # Order(query)[i]
  /\ out' = [f \in Fields |-> out'[f]]

(* SystemInfo goes on without a serial number.                             *)
NoSerial ==
  /\ query = "SystemInfo" /\ At(2) /\ ~Usable(at, content[at])
  /\ at' = "ERROR_NONE" /\ out' = [out EXCEPT !["value"] = Empty]

LEMMA StepShape ==
  ASSUME Types, Step
  PROVE  /\ query \in Queries /\ query \in Query /\ query # "none" /\ UNCHANGED <<past, query>>
         /\ \/ \E i \in DOMAIN Order(query) :
                 Pass(i) /\ query # "ReleaseVersion" /\ (query = "SystemInfo" => i = 1)
            \/ \E i \in DOMAIN Order(query) : Take(i) /\ query \in TextQuery \cup {"SystemInfo"}
            \/ query = "Model" /\ DeviceName
            \/ NoSerial \/ Elsewhere
<1> USE DEF Asking, Asks
<1>0. query \in Queries /\ query \in Query /\ query # "none"
  BY QueriesAssumption DEF Types, Step, Query
<1>1. CASE query \in {"SerialNumber", "Sku", "Make", "Brand", "DistributorId"}
  <2>1. Asking
    BY <1>0, <1>1, ChainShape DEF Step
  <2> QED
    BY <1>0, <1>1, <2>1 DEF TextQuery, Query
<1>2. CASE query \in {"SocName", "ChipSet", "EthMac", "EstbMac", "WifiMac", "EstbIp"}
  <2>1. Asking
    BY <1>0, <1>2, OneSourceShape DEF Step
  <2> QED
    BY <1>0, <1>2, <2>1 DEF TextQuery, Query
<1>3. CASE query = "Model"
  <2>0. Order(query) = <<"mfrProvisioned", "FRIENDLY_ID">>
    BY <1>3 DEF Order
  <2>1. CASE DeviceName
    BY <1>0, <1>3, <2>1 DEF DeviceName
  <2>2. CASE GetMFRData("mfrProvisioned", "value", "ERROR_NONE", "FRIENDLY_ID")
    <3>1. Asks(1)
      BY <1>0, <2>0, <2>2, ReadShape DEF Mfr, Rfc
    <3> QED
      BY <1>0, <1>3, <2>0, <3>1 DEF TextQuery, Query
  <2>3. CASE GetFileRegex("FRIENDLY_ID", "value", "ERROR_NONE", "ERROR_GENERAL")
    <3>1. Asks(2)
      BY <1>0, <2>0, <2>3, ReadShape DEF Mfr, Rfc
    <3> QED
      BY <1>0, <1>3, <2>0, <3>1 DEF TextQuery, Query
  <2> QED
    BY <1>3, <2>1, <2>2, <2>3 DEF Step, Model
<1>4. CASE query = "SystemInfo"
  <2>0. Order(query) = <<"mfrSerialNumber", "rfcSerialNumber">>
    BY <1>4 DEF Order
  <2>1. CASE GetMFRData("mfrSerialNumber", "value", "ERROR_NONE", "rfcSerialNumber")
    <3>1. Asks(1)
      BY <1>0, <2>0, <2>1, ReadShape DEF Mfr, Rfc
    <3> QED
      BY <1>0, <1>4, <2>0, <3>1
  <2>2. CASE OrEmpty("rfcSerialNumber", content["rfcSerialNumber"] \notin {Absent, Blank},
                     "value", "ERROR_NONE")
    <3>1. at = "rfcSerialNumber" /\ At(2) /\ 2 \in DOMAIN Order(query)
      BY <2>0, <2>2 DEF OrEmpty, At
    <3>2. "rfcSerialNumber" \in Source /\ "rfcSerialNumber" \in ReadBy(query)
      BY <1>0, <2>0, <3>1, OrderTable DEF Distinct
    <3>3. Usable(at, content[at]) <=> content[at] \notin {Absent, Blank}
      BY <1>0, <3>1, <3>2, ContentSeen, UsableTable DEF Rfc
    <3> QED
      BY <1>0, <1>4, <2>2, <3>1, <3>3 DEF OrEmpty, Take, NoSerial
  <2> QED
    BY <1>4, <2>1, <2>2 DEF Step, SystemInfo
<1>5. CASE query = "ReleaseVersion"
  <2>1. /\ out' = [f \in Fields |-> out'[f]] /\ at' = "ERROR_NONE"
        /\ UNCHANGED <<past, query>>
    BY <1>5 DEF Step, ReleaseVersion, Types
  <2> QED
    BY <1>0, <1>5, <2>1 DEF Elsewhere, Order
<1>6. CASE query = "DeviceType"
  <2>0. Order(query) = <<"deviceType", "DEVICE_TYPE">>
    BY <1>6 DEF Order
  <2>1. content["deviceType"] = Absent <=> ~Usable("deviceType", content["deviceType"])
    BY <1>0, <1>6, <2>0, OrderTable, ContentSeen, UsableTable DEF Distinct, Mfr, Rfc
  <2>2. content["DEVICE_TYPE"] = Absent <=> ~Usable("DEVICE_TYPE", content["DEVICE_TYPE"])
    BY <1>0, <1>6, <2>0, OrderTable, ContentSeen, UsableTable DEF Distinct, Mfr, Rfc
  <2>3. CASE at = "deviceType"
    <3>1. CASE content["deviceType"] = Absent
      <4>1. out' = out /\ at' = "DEVICE_TYPE" /\ UNCHANGED <<past, query>>
        BY <1>6, <2>3, <3>1 DEF Step, DeviceType, Absent, StringToDeviceType
      <4> QED
        BY <1>0, <1>6, <2>0, <2>1, <2>3, <3>1, <4>1 DEF Pass, At
    <3>2. CASE content["deviceType"] # Absent
      <4>1. out' = [f \in Fields |-> out'[f]] /\ at' = "ERROR_NONE" /\ UNCHANGED <<past, query>>
        BY <1>6, <2>3, <3>2 DEF Step, DeviceType, Types
      <4> QED
        BY <1>0, <1>6, <2>0, <4>1 DEF Elsewhere
    <3> QED
      BY <3>1, <3>2
  <2>4. CASE at = "DEVICE_TYPE"
    <3>1. CASE content["DEVICE_TYPE"] = Absent
      <4>1. out' = out /\ at' = "ERROR_GENERAL" /\ UNCHANGED <<past, query>>
        BY <1>6, <2>4, <3>1 DEF Step, DeviceType
      <4>2. Pass(2)
        BY <1>6, <2>0, <2>2, <2>4, <3>1, <4>1 DEF Pass, At
      <4> QED
        BY <1>0, <1>6, <2>0, <4>1, <4>2
    <3>2. CASE content["DEVICE_TYPE"] # Absent
      <4>1. out' = [f \in Fields |-> out'[f]] /\ at' = "ERROR_NONE" /\ UNCHANGED <<past, query>>
        BY <1>6, <2>4, <3>2 DEF Step, DeviceType, Types
      <4> QED
        BY <1>0, <1>6, <2>0, <4>1 DEF Elsewhere
    <3> QED
      BY <3>1, <3>2
  <2> QED
    BY <1>6, <2>3, <2>4 DEF Step, DeviceType
<1>7. CASE query = "FirmwareVersion"
  <2>0. Order(query) = <<"imagename">>
    BY <1>7 DEF Order
  <2>5. {"SDK_VERSION", "MEDIARITE", "YOCTO_VERSION", "mfrPdri"} \subseteq ReadBy(query)
    BY <1>7 DEF ReadBy, VersionTxt
  <2>1. CASE GetFileRegex("imagename", "value", "SDK_VERSION", "ERROR_GENERAL")
    <3>1. content["imagename"] = Absent <=> ~Usable("imagename", content["imagename"])
      BY <1>0, <1>7, <2>0, OrderTable, ContentSeen, UsableTable DEF Distinct, Mfr, Rfc
    <3>2. CASE content["imagename"] = Absent
      <4>1. Pass(1) /\ UNCHANGED <<past, query>>
        BY <2>0, <2>1, <3>1, <3>2 DEF GetFileRegex, Read, Pass, At
      <4> QED
        BY <1>0, <1>7, <2>0, <4>1
    <3>3. CASE content["imagename"] # Absent
      <4>1. out' = [f \in Fields |-> out'[f]] /\ at' = "SDK_VERSION" /\ UNCHANGED <<past, query>>
        BY <2>1, <3>3 DEF GetFileRegex, Read, Types
      <4> QED
        BY <1>0, <1>7, <2>0, <2>5, <4>1 DEF Elsewhere
    <3> QED
      BY <3>2, <3>3
  <2>2. ASSUME NEW s, NEW usable, NEW f \in Fields \ {"value"}, NEW next,
               next \in {"MEDIARITE", "YOCTO_VERSION", "mfrPdri", "ERROR_NONE"},
               OrEmpty(s, usable, f, next)
        PROVE  Elsewhere /\ UNCHANGED <<past, query>>
    <3>1. out' = [g \in Fields |-> out'[g]]
      BY <2>2 DEF OrEmpty, Types
    <3> QED
      BY <1>0, <1>7, <2>0, <2>2, <2>5, <3>1 DEF OrEmpty, Elsewhere
  <2> QED
    BY <1>0, <1>7, <2>1, <2>2 DEF Step, FirmwareVersion, Fields
<1> QED
  BY <1>0, <1>1, <1>2, <1>3, <1>4, <1>5, <1>6, <1>7 DEF Query

-----------------------------------------------------------------------------
(* Each invariant holds after a step.                                      *)

(* Sources and results are different things.                               *)
LEMMA ResultsAreNoSources ==
  ASSUME NEW q \in Query, NEW s \in ReadBy(q)
  PROVE  s \in Source /\ s \notin Results /\ s # "idle"
BY ReadTable
DEF Results, Source, DeviceProperties, VersionTxt, LineFiles, Mfr, Rfc, Script

LEMMA TypesStep ==
  ASSUME Types, [Next]_vars
  PROVE  Types'
<1>1. ASSUME NEW q \in Queries, Call(q) PROVE Types'
  <2>1. Len(past') \in 1 .. MaxUpdates + 1
    <3>1. Len(past') = 1
      BY <1>1, CallStarts
    <3> QED
      BY <3>1, UpdatesAssumption
  <2>2. /\ query' \in Queries /\ query' # "none" /\ at' \in ReadBy(query')
        /\ past' \in Seq(Snapshots(query'))
    BY <1>1, CallStarts
  <2>3. out' = [f \in Fields |-> out'[f]]
    BY <1>1, CallStarts DEF Fresh
  <2> QED
    BY <2>1, <2>2, <2>3 DEF Types
<1>2. CASE Return
  BY <1>2 DEF Return, Types
<1>3. ASSUME NEW unit \in Units, Update(unit) PROVE Types'
  <2>1. PICK new \in Snapshots(query) : past' = Append(past, new)
    BY <1>3, UpdateAdds
  <2>2. past' \in Seq(Snapshots(query)) /\ Len(past') = Len(past) + 1
    BY <2>1 DEF Types
  <2> QED
    BY <1>3, <2>2, UpdateAdds, UpdatesAssumption DEF Types
<1>4. CASE Step
  <2>1. query # "none" /\ query \in Query /\ UNCHANGED <<past, query>>
    BY <1>4, StepShape
  <2>2. out' = [f \in Fields |-> out'[f]] /\ at' \in ReadBy(query) \cup Results
    <3>1. ASSUME NEW i \in DOMAIN Order(query), Pass(i) \/ Take(i)
          PROVE  out' = [f \in Fields |-> out'[f]] /\ at' \in ReadBy(query) \cup Results
      BY <2>1, <3>1, OrderTable DEF Pass, Take, Distinct, Types, Results
    <3>2. CASE query = "Model" /\ DeviceName
      BY <3>2 DEF DeviceName, ReadBy, Order, Types
    <3>3. CASE NoSerial
      BY <3>3 DEF NoSerial, Types, Results
    <3>4. CASE Elsewhere
      BY <3>4 DEF Elsewhere, Results
    <3> QED
      BY <1>4, <3>1, <3>2, <3>3, <3>4, StepShape
  <2> QED
    BY <2>1, <2>2 DEF Types
<1>5. CASE UNCHANGED vars
  BY <1>5 DEF Types, vars
<1> QED
  BY <1>1, <1>2, <1>3, <1>4, <1>5 DEF Next

(* What was passed stays passed.                                           *)
LEMMA GrowsKeepsPassed ==
  ASSUME Types, Grows
  PROVE  /\ \A i : PassedBefore(i) => PassedBefore(i)'
         /\ \A s : SeenProvisioned(s) => SeenProvisioned(s)'
<1>1. ASSUME NEW i, PassedBefore(i) PROVE PassedBefore(i)'
  BY <1>1, GrowsKeepsSeen DEF PassedBefore, Grows
<1>2. ASSUME NEW s, SeenProvisioned(s) PROVE SeenProvisioned(s)'
  BY <1>2, GrowsKeepsSeen DEF SeenProvisioned
<1> QED
  BY <1>1, <1>2

(* The i-th source has no answer: it is rightly passed over.               *)
LEMMA PassSkips ==
  ASSUME Types, query # "none", NEW i \in DOMAIN Order(query), At(i), ~Usable(at, content[at])
  PROVE  Skipped(Order(query)[i])
<1>1. query \in Query /\ Order(query)[i] \in ReadBy(query)
  BY OrderTable, QueriesAssumption DEF Types
<1> QED
  BY <1>1, ContentSeen DEF At, Skipped

LEMMA ChainStep ==
  ASSUME Types, Chain, [Next]_vars
  PROVE  Chain'
<1>1. ASSUME NEW q \in Queries, Call(q) PROVE Chain'
  <2>1. /\ query' = q /\ q \in Query /\ at' = First(q)
        /\ at' # "ERROR_GENERAL" /\ at' # "ERROR_NONE" /\ at' # "mfrProvisioned"
    BY <1>1, CallStarts, ReadTable, ResultsAreNoSources DEF Results
  <2>2. ASSUME NEW i \in DOMAIN Order(q), at' = Order(q)[i]
        PROVE  i = 1
    <3>1. Order(q)[i] = Order(q)[1]
      <4>1. First(q) = Order(q)[1] \/ First(q) = "DEVICE_NAME"
        BY <2>1, ReadTable
      <4>2. Order(q)[i] # "DEVICE_NAME"
        BY <2>1, OrderTable
      <4> QED
        BY <2>1, <2>2, <4>1, <4>2
    <3>2. 1 \in DOMAIN Order(q) /\ Distinct(Order(q), Source)
      BY <2>1, OrderTable DEF Distinct
    <3> QED
      BY <3>1, <3>2 DEF Distinct
  <2>3. ~Failed' /\ ~Succeeded'
    BY <2>1 DEF Failed, Succeeded
  <2>4. ASSUME NEW i \in DOMAIN Order(q), at' = Order(q)[i]
        PROVE  PassedBefore(i)' /\ SeenProvisioned(Order(q)[i])'
    BY <2>1, <2>2, <2>4 DEF PassedBefore, SeenProvisioned
  <2> QED
    BY <2>1, <2>3, <2>4 DEF Chain
<1>2. CASE Return
  BY <1>2 DEF Return, Chain
<1>3. ASSUME NEW unit \in Units, Update(unit) PROVE Chain'
  <2>1. Grows /\ query # "none" /\ UNCHANGED <<query, at, out>>
    BY <1>3, UpdateAdds DEF Grows
  <2>2. Len(Order(query))' = Len(Order(query))
    BY <2>1
  <2>3. NobodyAnswered => NobodyAnswered'
    BY <2>1, <2>2, GrowsKeepsPassed DEF NobodyAnswered
  <2>4. Answered => Answered'
    BY <2>1, GrowsKeepsPassed DEF Answered
  <2> QED
    BY <2>1, <2>3, <2>4, GrowsKeepsPassed DEF Chain, Failed, Succeeded
<1>4. CASE Step
  <2>1. query \in Query /\ query # "none" /\ UNCHANGED <<past, query>>
    BY <1>4, StepShape
  <2>2. Grows
    BY <2>1 DEF Grows
  <2>3. Distinct(Order(query), Source)
    BY <2>1, OrderTable
  <2>4. \A i \in DOMAIN Order(query) :
           Order(query)[i] # "ERROR_GENERAL" /\ Order(query)[i] # "ERROR_NONE"
    BY <2>1, OrderTable, ResultsAreNoSources DEF Results
  <2>5. ASSUME NEW i \in DOMAIN Order(query), Pass(i), query # "ReleaseVersion",
               query = "SystemInfo" => i = 1
        PROVE  Chain'
    <3>1. PassedBefore(i) /\ Skipped(Order(query)[i])
      BY <2>1, <2>5, PassSkips DEF Pass, At, Chain
    <3>2. i \in 1 .. Len(Order(query)) /\ Len(Order(query)) \in Nat
      BY <2>3 DEF Distinct
    <3>3. PassedBefore(i + 1)
      BY <3>1, <3>2 DEF PassedBefore
    <3>4. PassedBefore(i + 1)'
      BY <2>2, <3>3, GrowsKeepsPassed
    <3>5. CASE i = Len(Order(query))
      <4>1. at' = "ERROR_GENERAL"
        BY <2>5, <3>5 DEF Pass
      <4>2. query # "SystemInfo"
        BY <2>5, <3>5 DEF Order
      <4>3. NobodyAnswered'
        BY <2>1, <3>4, <3>5 DEF NobodyAnswered
      <4> QED
        BY <2>1, <2>4, <2>5, <4>1, <4>2, <4>3 DEF Chain, Succeeded
    <3>6. CASE i # Len(Order(query))
      <4>1. at' = Order(query)[i + 1] /\ i + 1 \in DOMAIN Order(query) /\ i + 1 # 1
        BY <2>3, <2>5, <3>2, <3>6 DEF Pass, Distinct
      <4>2. at' # "mfrProvisioned"
        BY <2>1, <4>1, ReadTable
      <4>3. \A j \in DOMAIN Order(query) : at' = Order(query)[j] => j = i + 1
        BY <2>3, <4>1 DEF Distinct
      <4> QED
        BY <2>1, <2>4, <3>4, <4>1, <4>2, <4>3 DEF Chain, Failed, Succeeded, SeenProvisioned
    <3> QED
      BY <3>5, <3>6
  <2>6. ASSUME NEW i \in DOMAIN Order(query), Take(i) PROVE Chain'
    <3>1. /\ at' = "ERROR_NONE" /\ at = Order(query)[i]
          /\ out' = [out EXCEPT !["value"] = <<at, content[at]>>]
      BY <2>6 DEF Take, At
    <3>2. "value" \in DOMAIN out
      BY DEF Types, Fields
    <3>3. out'["value"][1] = Order(query)[i]
      BY <3>1, <3>2
    <3>4. PassedBefore(i)' /\ SeenProvisioned(Order(query)[i])'
      BY <2>1, <2>2, <3>1, GrowsKeepsPassed DEF Chain, SeenProvisioned
    <3>5. Answered'
      BY <2>1, <3>3, <3>4 DEF Answered
    <3> QED
      BY <2>1, <2>4, <3>1, <3>5 DEF Chain, Failed
  <2>7. CASE query = "Model" /\ DeviceName
    <3>1. Order(query) = <<"mfrProvisioned", "FRIENDLY_ID">>
      BY <2>7 DEF Order
    <3>2. content["DEVICE_NAME"] \in Seen("DEVICE_NAME")
      BY <2>1, <2>7, ReadTable, ContentSeen
    <3>3. CASE content["DEVICE_NAME"] \in Provisioned
      <4>1. at' = "mfrProvisioned"
        BY <2>7, <3>3 DEF DeviceName
      <4>2. SeenProvisioned("mfrProvisioned")'
        BY <2>1, <3>2, <3>3 DEF SeenProvisioned, Seen
      <4>3. PassedBefore(1)'
        BY DEF PassedBefore
      <4> QED
        BY <2>1, <3>1, <4>1, <4>2, <4>3 DEF Chain, Failed, Succeeded
    <3>4. CASE content["DEVICE_NAME"] \notin Provisioned
      <4>1. at' = "FRIENDLY_ID"
        BY <2>7, <3>4 DEF DeviceName
      <4>2. Skipped("mfrProvisioned")
        BY <3>2, <3>4 DEF Skipped
      <4>3. PassedBefore(2)
        BY <3>1, <4>2 DEF PassedBefore
      <4>4. PassedBefore(2)'
        BY <2>2, <4>3, GrowsKeepsPassed
      <4> QED
        BY <2>1, <3>1, <4>1, <4>4 DEF Chain, Failed, Succeeded, SeenProvisioned
    <3> QED
      BY <3>3, <3>4
  <2>8. CASE NoSerial
    <3>1. Order(query) = <<"mfrSerialNumber", "rfcSerialNumber">>
      BY <2>8 DEF NoSerial, Order
    <3>2. Skipped(Order(query)[2]) /\ PassedBefore(2)
      BY <2>1, <2>8, <3>1, PassSkips DEF NoSerial, At, Chain
    <3>3. PassedBefore(3)
      BY <3>2 DEF PassedBefore
    <3>4. NobodyAnswered'
      BY <2>1, <2>2, <3>1, <3>3, GrowsKeepsPassed DEF NobodyAnswered
    <3>5. out'["value"] = Empty
      BY <2>8 DEF NoSerial, Types, Fields
    <3> QED
      BY <2>1, <2>4, <2>8, <3>4, <3>5 DEF Chain, Failed, NoSerial, TextQuery
  <2>9. CASE Elsewhere
    <3>1. at' # "ERROR_GENERAL"
      BY <2>1, <2>9, ResultsAreNoSources DEF Elsewhere, Results
    <3> QED
      BY <2>1, <2>9, <3>1 DEF Elsewhere, Chain, Failed, Succeeded, TextQuery
  <2> QED
    BY <1>4, <2>5, <2>6, <2>7, <2>8, <2>9, StepShape
<1>5. CASE UNCHANGED vars
  <2>1. Seen("DEVICE_NAME")' = Seen("DEVICE_NAME") /\ Grows
    BY <1>5 DEF vars, Seen, Grows
  <2>2. UNCHANGED <<query, at, out>>
    BY <1>5 DEF vars
  <2>3. NobodyAnswered => NobodyAnswered'
    BY <2>1, <2>2, GrowsKeepsPassed DEF NobodyAnswered
  <2>4. Answered => Answered'
    BY <2>1, <2>2, GrowsKeepsPassed DEF Answered
  <2> QED
    BY <2>1, <2>2, <2>3, <2>4, GrowsKeepsPassed DEF Chain, Failed, Succeeded
<1> QED
  BY <1>1, <1>2, <1>3, <1>4, <1>5 DEF Next

LEMMA UnwrittenStep ==
  ASSUME Types, Unwritten, [Next]_vars
  PROVE  Unwritten'
<1>1. ASSUME NEW q \in Queries, Call(q) PROVE Unwritten'
  BY <1>1, CallStarts DEF Unwritten, Fresh
<1>2. CASE Return
  BY <1>2 DEF Return, Unwritten
<1>3. ASSUME NEW unit \in Units, Update(unit) PROVE Unwritten'
  BY <1>3, UpdateAdds DEF Unwritten, Fresh, Failed, At
<1>4. CASE Step
  <2>1. query \in Query /\ query # "none" /\ query' = query
    BY <1>4, StepShape
  <2>2. "ERROR_NONE" # "DEVICE_NAME" /\ "ERROR_NONE" # "ERROR_GENERAL"
    OBVIOUS
  <2>3. \A i \in DOMAIN Order(query) : Order(query)[i] # "ERROR_NONE"
    BY <2>1, OrderTable, ResultsAreNoSources DEF Results
  <2>4. ASSUME NEW i \in DOMAIN Order(query), Pass(i) PROVE Unwritten'
    BY <2>1, <2>4 DEF Pass, Unwritten, Fresh
  <2>5. CASE at' = "ERROR_NONE"
    BY <2>1, <2>2, <2>3, <2>5 DEF Unwritten, Failed, At
  <2>6. CASE query = "Model" /\ DeviceName
    BY <2>1, <2>6 DEF DeviceName, Unwritten, Fresh
  <2>7. CASE Elsewhere
    <3>1. at' \in ReadBy(query) \cup {"ERROR_NONE"} /\ at' # "DEVICE_NAME"
      BY <2>1, <2>7, ReadTable DEF Elsewhere
    <3>2. at' # "ERROR_GENERAL"
      BY <2>1, <3>1, ResultsAreNoSources DEF Results
    <3> QED
      BY <2>1, <2>7, <3>1, <3>2 DEF Elsewhere, Unwritten, Failed, At
  <2> QED
    BY <1>4, <2>4, <2>5, <2>6, <2>7, StepShape DEF Take, NoSerial
<1>5. CASE UNCHANGED vars
  BY <1>5 DEF vars, Unwritten, Fresh, Failed, At
<1> QED
  BY <1>1, <1>2, <1>3, <1>4, <1>5 DEF Next

(* An answer is as it was written: what its source held, converted if it   *)
(* is the type of device.properties.                                       *)
Constants == {Untouched, Unknown, NoVersion, Empty}

Real(w) ==
  \/ w \in Constants
  \/ /\ w[1] \in ReadBy(query)
     /\ \E v \in Seen(w[1]) :
          Usable(w[1], v) /\ w = <<w[1], IF w[1] = "DEVICE_TYPE" THEN Converted(v) ELSE v>>

AllReal == \A f \in Fields : Real(out[f])

LEMMA ConstantsAreReal ==
  Real(Untouched) /\ Real(Unknown) /\ Real(NoVersion) /\ Real(Empty)
BY DEF Real, Constants

(* They are no answer of a source.                                         *)
LEMMA ConstantsAreNoSources ==
  \A w \in Constants : w[1] \notin Source
<1>1. \A w \in Constants : w[1] \in {"caller", "code"}
  <2>1. \A a, b : <<a, b>>[1] = a
    OBVIOUS
  <2> QED
    BY <2>1 DEF Constants, Untouched, Unknown, NoVersion, Empty
<1> QED
  BY <1>1 DEF Source, DeviceProperties, VersionTxt, LineFiles, Mfr, Rfc, Script

LEMMA ReadIsReal ==
  ASSUME Types, query # "none", NEW s \in ReadBy(query), Usable(s, content[s])
  PROVE  /\ s # "DEVICE_TYPE" => Real(<<s, content[s]>>)
         /\ s = "DEVICE_TYPE" => Real(<<s, Converted(content[s])>>)
<1>1. content[s] \in Seen(s)
  BY ContentSeen
<1>2. \A x : <<s, x>>[1] = s
  OBVIOUS
<1>3. CASE s # "DEVICE_TYPE"
  BY <1>1, <1>2, <1>3 DEF Real
<1>4. CASE s = "DEVICE_TYPE"
  BY <1>1, <1>2, <1>4 DEF Real
<1> QED
  BY <1>3, <1>4

(* A step writes one member at most, with something real.                  *)
Writes == \E f \in Fields : \E w : Real(w) /\ out' = [out EXCEPT ![f] = w]

LEMMA StepWrites ==
  ASSUME Types, Step
  PROVE  out' = out \/ Writes
<1>0. query \in Query /\ query # "none" /\ "value" \in Fields
  BY StepShape DEF Fields
<1>1. ASSUME NEW i \in DOMAIN Order(query), Take(i), query \in TextQuery \cup {"SystemInfo"}
      PROVE  Writes
  <2>1. at \in ReadBy(query) /\ at # "DEVICE_TYPE"
    <3>1. at = Order(query)[i] /\ at \in ReadBy(query)
      BY <1>0, <1>1, OrderTable DEF Take, At
    <3>2. query # "DeviceType"
      BY <1>1 DEF TextQuery
    <3> QED
      BY <1>0, <1>1, <3>1, <3>2, TypeTable DEF Take, At
  <2> QED
    BY <1>0, <1>1, <2>1, ReadIsReal DEF Take, Writes
<1>2. CASE query = "DeviceType"
  <2>0. ReadBy(query) = {"deviceType", "DEVICE_TYPE"} /\ ReadBy(query) \subseteq Source
    <3>1. Order(query) = <<"deviceType", "DEVICE_TYPE">>
      BY <1>2 DEF Order
    <3>2. ReadBy(query) = {Order(query)[i] : i \in DOMAIN Order(query)}
      BY <1>2 DEF ReadBy
    <3>3. DOMAIN <<"deviceType", "DEVICE_TYPE">> = {1, 2}
      OBVIOUS
    <3>4. ReadBy(query) = {"deviceType", "DEVICE_TYPE"}
      BY <3>1, <3>2, <3>3
    <3> QED
      BY <1>0, <3>4, ReadTable
  <2>1. CASE at = "deviceType"
    <3>1. CASE content["deviceType"] \in StringToDeviceType
      <4>1. Usable("deviceType", content["deviceType"])
        BY <3>1 DEF Usable, StringToDeviceType, Absent, Blank
      <4>2. Real(<<"deviceType", content["deviceType"]>>)
        BY <1>0, <2>0, <4>1, ReadIsReal
      <4> QED
        BY <1>0, <1>2, <2>1, <3>1, <4>2 DEF Step, DeviceType, Writes
    <3>2. CASE content["deviceType"] \notin StringToDeviceType
      BY <1>2, <2>1, <3>2 DEF Step, DeviceType
    <3> QED
      BY <3>1, <3>2
  <2>2. CASE at = "DEVICE_TYPE"
    <3>1. CASE content["DEVICE_TYPE"] # Absent
      <4>1. Usable("DEVICE_TYPE", content["DEVICE_TYPE"])
        BY <1>0, <2>0, <3>1, ContentSeen, UsableTable DEF Mfr, Rfc
      <4>2. Real(<<"DEVICE_TYPE", Converted(content["DEVICE_TYPE"])>>)
        BY <1>0, <2>0, <4>1, ReadIsReal
      <4>3. out' = [out EXCEPT !["value"] = <<"DEVICE_TYPE", Converted(content["DEVICE_TYPE"])>>]
        BY <1>2, <2>2, <3>1 DEF Step, DeviceType
      <4> QED
        BY <1>0, <4>2, <4>3 DEF Writes
    <3>2. CASE content["DEVICE_TYPE"] = Absent
      BY <1>2, <2>2, <3>2 DEF Step, DeviceType
    <3> QED
      BY <3>1, <3>2
  <2> QED
    BY <1>2, <2>1, <2>2 DEF Step, DeviceType
<1>3. CASE query = "ReleaseVersion"
  <2>0. "imagename" \in ReadBy(query)
    BY <1>3 DEF ReadBy, Order
  <2>1. CASE content["imagename"] = "v1"
    <3>1. Usable("imagename", content["imagename"])
      BY <2>1 DEF Usable, Absent, Blank
    <3>2. Real(<<"imagename", "v1">>)
      BY <1>0, <2>0, <2>1, <3>1, ReadIsReal
    <3> QED
      BY <1>0, <1>3, <2>1, <3>2 DEF Step, ReleaseVersion, Writes
  <2>2. CASE content["imagename"] # "v1"
    BY <1>0, <1>3, <2>2, ConstantsAreReal DEF Step, ReleaseVersion, Writes
  <2> QED
    BY <2>1, <2>2
<1>4. CASE query = "FirmwareVersion"
  <2>0. {"imagename", "SDK_VERSION", "MEDIARITE", "YOCTO_VERSION", "mfrPdri"} \subseteq ReadBy(query)
    BY <1>4 DEF ReadBy, VersionTxt
  <2>1. CASE GetFileRegex("imagename", "value", "SDK_VERSION", "ERROR_GENERAL")
    <3>1. CASE content["imagename"] # Absent
      <4>1. Usable("imagename", content["imagename"])
        BY <1>0, <2>0, <3>1, ReadTable, ContentSeen, UsableTable DEF Mfr, Rfc
      <4>2. Real(<<"imagename", content["imagename"]>>)
        BY <1>0, <2>0, <4>1, ReadIsReal
      <4> QED
        BY <1>0, <2>1, <3>1, <4>2 DEF GetFileRegex, Read, Writes
    <3>2. CASE content["imagename"] = Absent
      BY <2>1, <3>2 DEF GetFileRegex, Read
    <3> QED
      BY <3>1, <3>2
  <2>2. ASSUME NEW s \in ReadBy(query), s # "DEVICE_TYPE", NEW f \in Fields, NEW usable, NEW next,
               OrEmpty(s, usable, f, next), usable => Usable(s, content[s])
        PROVE  Writes
    <3>1. usable => Real(<<s, content[s]>>)
      BY <1>0, <2>2, ReadIsReal
    <3>2. Real(IF usable THEN <<s, content[s]>> ELSE Empty)
      BY <3>1, ConstantsAreReal
    <3> QED
      BY <2>2, <3>2 DEF OrEmpty, Writes
  <2>3. ASSUME NEW s \in ReadBy(query)
        PROVE  /\ s \in Mfr \cup Rfc => (Usable(s, content[s]) <=> content[s] \notin {Absent, Blank})
               /\ s \notin Mfr \cup Rfc => (Usable(s, content[s]) <=> content[s] # Absent)
    BY <1>0, <2>3, ReadTable, ContentSeen, UsableTable
  <2>4. {"sdk", "mediarite", "yocto", "pdri"} \subseteq Fields
    BY DEF Fields
  <2>5. CASE OrEmpty("SDK_VERSION", content["SDK_VERSION"] # Absent, "sdk", "MEDIARITE")
    BY <2>0, <2>2, <2>3, <2>4, <2>5 DEF Mfr, Rfc
  <2>6. CASE OrEmpty("MEDIARITE", content["MEDIARITE"] # Absent, "mediarite", "YOCTO_VERSION")
    BY <2>0, <2>2, <2>3, <2>4, <2>6 DEF Mfr, Rfc
  <2>7. CASE OrEmpty("YOCTO_VERSION", content["YOCTO_VERSION"] # Absent, "yocto", "mfrPdri")
    BY <2>0, <2>2, <2>3, <2>4, <2>7 DEF Mfr, Rfc
  <2>8. CASE OrEmpty("mfrPdri", content["mfrPdri"] \notin {Absent, Blank}, "pdri", "ERROR_NONE")
    BY <2>0, <2>2, <2>3, <2>4, <2>8 DEF Mfr, Rfc
  <2> QED
    BY <1>4, <2>1, <2>5, <2>6, <2>7, <2>8 DEF Step, FirmwareVersion
<1> QED
  BY <1>0, <1>1, <1>2, <1>3, <1>4, StepShape, ConstantsAreReal
  DEF Pass, DeviceName, NoSerial, Elsewhere, Writes

LEMMA AllRealStep ==
  ASSUME Types, AllReal, [Next]_vars
  PROVE  AllReal'
<1>1. ASSUME NEW q \in Queries, Call(q) PROVE AllReal'
  <2>1. \A f \in Fields : out'[f] \in {Unknown, Untouched}
    BY <1>1, CallStarts DEF Fresh
  <2>2. Real(Untouched)' /\ Real(Unknown)'
    BY DEF Real, Constants
  <2> QED
    BY <2>1, <2>2 DEF AllReal
<1>2. CASE Return
  <2>1. \A f \in Fields : out'[f] = Untouched
    BY <1>2 DEF Return
  <2>2. Real(Untouched)'
    BY DEF Real, Constants
  <2> QED
    BY <2>1, <2>2 DEF AllReal
<1>3. ASSUME Grows PROVE \A w : Real(w) => Real(w)'
  BY <1>3, GrowsKeepsSeen DEF Real, Grows
<1>4. ASSUME Grows, out' = out PROVE AllReal'
  BY <1>3, <1>4 DEF AllReal
<1>5. ASSUME NEW unit \in Units, Update(unit) PROVE AllReal'
  BY <1>4, <1>5, UpdateAdds DEF Grows
<1>6. CASE Step
  <2>1. Grows
    BY <1>6, StepShape DEF Grows
  <2>2. CASE Writes
    <3>0. PICK f \in Fields : \E w : Real(w) /\ out' = [out EXCEPT ![f] = w]
      BY <2>2 DEF Writes
    <3>1. PICK w : Real(w) /\ out' = [out EXCEPT ![f] = w]
      BY <3>0
    <3>2. \A g \in Fields : out'[g] \in {out[g], w}
      BY <3>1 DEF Types
    <3> QED
      BY <1>3, <2>1, <3>1, <3>2 DEF AllReal
  <2> QED
    BY <1>4, <1>6, <2>1, <2>2, StepWrites
<1>7. CASE UNCHANGED vars
  <2>1. Grows /\ out' = out
    BY <1>7 DEF vars, Grows
  <2> QED
    BY <1>4, <2>1
<1> QED
  BY <1>1, <1>2, <1>5, <1>6, <1>7 DEF Next

LEMMA TypeFoundStep ==
  ASSUME Types, Chain, TypeFound, [Next]_vars
  PROVE  TypeFound'
<1>1. ASSUME NEW q \in Queries, Call(q) PROVE TypeFound'
  BY <1>1, CallStarts, ResultsAreNoSources DEF TypeFound, Succeeded, Results
<1>2. CASE Return
  BY <1>2 DEF Return, TypeFound
<1>3. ASSUME NEW unit \in Units, Update(unit) PROVE TypeFound'
  <2>1. at' # "ERROR_NONE"
    BY <1>3 DEF Update, Source, DeviceProperties, VersionTxt, LineFiles, Mfr, Rfc, Script
  <2> QED
    BY <2>1 DEF TypeFound, Succeeded
<1>4. CASE Step /\ query = "DeviceType" /\ at' = "ERROR_NONE"
  <2>0. Order(query) = <<"deviceType", "DEVICE_TYPE">> /\ query \in Query /\ query # "none"
        /\ past' = past /\ "value" \in DOMAIN out
    BY <1>4, StepShape DEF Order, Types, Fields
  <2>1. "deviceType" \in ReadBy(query) /\ "DEVICE_TYPE" \in ReadBy(query)
    BY <2>0, OrderTable
  <2>2. \A s : Seen(s)' = Seen(s)
    BY <2>0 DEF Seen
  <2>3. CASE at = "deviceType"
    <3>1. content["deviceType"] # Absent
      BY <1>4, <2>3 DEF Step, DeviceType
    <3>2. content["deviceType"] \in StringToDeviceType
            => out'["value"] = <<"deviceType", content["deviceType"]>>
      BY <1>4, <2>0, <2>3 DEF Step, DeviceType
    <3>3. content["deviceType"] \in Seen("deviceType")
      BY <2>0, <2>1, ContentSeen
    <3> QED
      BY <2>2, <3>1, <3>2, <3>3 DEF TypeFound
  <2>4. CASE at = "DEVICE_TYPE"
    <3>1. content["DEVICE_TYPE"] # Absent
          /\ out'["value"] = <<"DEVICE_TYPE", Converted(content["DEVICE_TYPE"])>>
      BY <1>4, <2>0, <2>4 DEF Step, DeviceType
    <3>2. content["DEVICE_TYPE"] \in Seen("DEVICE_TYPE")
      BY <2>0, <2>1, ContentSeen
    <3>3. Skipped("deviceType")
      BY <2>0, <2>4 DEF Chain, PassedBefore
    <3>4. Skipped("deviceType")'
      BY <2>2, <3>3 DEF Skipped
    <3> QED
      BY <2>2, <3>1, <3>2, <3>4 DEF TypeFound
  <2> QED
    BY <1>4, <2>3, <2>4 DEF Step, DeviceType
<1>5. CASE Step /\ ~(query = "DeviceType" /\ at' = "ERROR_NONE")
  <2>1. query' = query
    BY <1>5, StepShape
  <2> QED
    BY <1>5, <2>1 DEF TypeFound, Succeeded
<1>6. CASE UNCHANGED vars
  BY <1>6 DEF vars, TypeFound, Succeeded, Seen, Skipped
<1> QED
  BY <1>1, <1>2, <1>3, <1>4, <1>5, <1>6 DEF Next

LEMMA VersionFoundStep ==
  ASSUME Types, VersionFound, [Next]_vars
  PROVE  VersionFound'
<1>1. ASSUME NEW q \in Queries, Call(q) PROVE VersionFound'
  BY <1>1, CallStarts DEF VersionFound, First, Order
<1>2. CASE Return
  BY <1>2 DEF Return, VersionFound
<1>3. ASSUME NEW unit \in Units, Update(unit) PROVE VersionFound'
  <2>1. at # "ERROR_NONE" /\ UNCHANGED <<query, at>>
    BY <1>3 DEF Update, Source, DeviceProperties, VersionTxt, LineFiles, Mfr, Rfc, Script
  <2> QED
    BY <2>1 DEF VersionFound, Succeeded
<1>4. CASE Step /\ query = "ReleaseVersion"
  <2>1. query # "none" /\ past' = past /\ "value" \in DOMAIN out /\ "imagename" \in ReadBy(query)
    BY <1>4, StepShape DEF Types, Fields, ReadBy, Order
  <2>2. content["imagename"] \in Seen("imagename")
    BY <2>1, ContentSeen
  <2>3. Seen("imagename")' = Seen("imagename")
    BY <2>1 DEF Seen
  <2>4. /\ at' = "ERROR_NONE"
        /\ out'["value"] = IF content["imagename"] = "v1" THEN <<"imagename", "v1">> ELSE NoVersion
    BY <1>4, <2>1 DEF Step, ReleaseVersion
  <2> QED
    BY <2>2, <2>3, <2>4 DEF VersionFound, Succeeded
<1>5. CASE Step /\ query # "ReleaseVersion"
  <2>1. query' = query
    BY <1>5, StepShape
  <2> QED
    BY <1>5, <2>1 DEF VersionFound
<1>6. CASE UNCHANGED vars
  BY <1>6 DEF vars, VersionFound, Succeeded, Seen
<1> QED
  BY <1>1, <1>2, <1>3, <1>4, <1>5, <1>6 DEF Next

(* FirmwareVersion writes member k + 1 with what its source has by now.    *)
LEMMA MemberWritten ==
  ASSUME Types, Progress, query = "FirmwareVersion", UNCHANGED <<past, query>>,
         Done \in 0 .. 4, Done' = Done + 1,
         Done = 0 => content["imagename"] # Absent,
         out' = [out EXCEPT ![FirmwareField[Done']] = MemberOf(content, FirmwareSource[Done'])]
  PROVE  Progress'
<1>0. PICK k \in 0 .. 4 :
        /\ Done = k /\ Done' = k + 1
        /\ out' = [out EXCEPT ![FirmwareField[k + 1]] = MemberOf(content, FirmwareSource[k + 1])]
  OBVIOUS
<1>1. PICK when \in [1 .. 5 -> DOMAIN past] : WrittenAt(when)
  BY DEF Progress
<1> DEFINE now  == Len(past)
           then == [i \in 1 .. 5 |-> IF i <= k THEN when[i] ELSE now]
<1>2. DOMAIN past = 1 .. now /\ now \in Nat /\ now \in DOMAIN past /\ past' = past
  BY QueriesAssumption DEF Types, Query
<1>3. then \in [1 .. 5 -> DOMAIN past]
  BY <1>1, <1>2
<1>4. \A i \in 1 .. 4 : then[i] <= then[i + 1]
  <2>1. \A i \in 1 .. 4 : when[i] <= when[i + 1]
    BY <1>1 DEF WrittenAt
  <2>2. \A i \in 1 .. 5 : when[i] \in Nat /\ when[i] <= now
    BY <1>1, <1>2
  <2> QED
    BY <1>2, <2>1, <2>2
<1>5. \A j \in 1 .. k + 1 : out'[FirmwareField[j]] = MemberOf(past[then[j]], FirmwareSource[j])
  <2>1. \A i, j \in 1 .. 5 : FirmwareField[i] = FirmwareField[j] => i = j
    BY DEF FirmwareField
  <2>2. \A j \in 1 .. 5 : FirmwareField[j] \in DOMAIN out
    BY DEF FirmwareField, Types, Fields
  <2>3. \A j \in 1 .. k : out'[FirmwareField[j]] = MemberOf(past[when[j]], FirmwareSource[j])
    <3>1. TAKE j \in 1 .. k
    <3>2. out[FirmwareField[j]] = MemberOf(past[when[j]], FirmwareSource[j])
      BY <1>0, <1>1 DEF WrittenAt
    <3>3. FirmwareField[j] # FirmwareField[k + 1]
      BY <2>1
    <3>4. FirmwareField[j] \in DOMAIN out
      BY <2>2
    <3> QED
      BY <1>0, <3>2, <3>3, <3>4
  <2>4. out'[FirmwareField[k + 1]] = MemberOf(content, FirmwareSource[k + 1])
    BY <1>0, <2>2
  <2>5. \A j \in 1 .. k : then[j] = when[j]
    OBVIOUS
  <2>6. then[k + 1] = now
    OBVIOUS
  <2> HIDE DEF then
  <2>7. TAKE j \in 1 .. k + 1
  <2>8. CASE j = k + 1
    BY <2>4, <2>6, <2>8 DEF content
  <2>9. CASE j # k + 1
    BY <2>3, <2>5, <2>9
  <2> QED
    BY <2>8, <2>9
<1>6. past[then[1]]["imagename"] # Absent
  <2>1. CASE k = 0
    BY <1>0, <2>1 DEF content
  <2>2. CASE k # 0
    BY <1>0, <1>1, <2>2 DEF WrittenAt
  <2> QED
    BY <2>1, <2>2
<1> HIDE DEF then
<1>7. PICK w : w = then
  OBVIOUS
<1>8. w \in [1 .. 5 -> DOMAIN past'] /\ WrittenAt(w)'
  BY <1>0, <1>2, <1>3, <1>4, <1>5, <1>6, <1>7 DEF WrittenAt
<1> QED
  BY <1>8 DEF Progress

LEMMA ProgressStep ==
  ASSUME Types, Progress, [Next]_vars
  PROVE  Progress'
<1>0. ASSUME NEW n \in DOMAIN past', Done' = 0 PROVE Progress'
  <2>1. WrittenAt([i \in 1 .. 5 |-> n])'
    <3>1. Len(past') \in Nat \/ n \in Nat
      BY <1>0
    <3> QED
      BY <1>0, <3>1 DEF WrittenAt
  <2> QED
    BY <1>0, <2>1 DEF Progress
<1>1. ASSUME NEW q \in Queries, Call(q) PROVE Progress'
  <2>1. query' = q /\ at' = First(q) /\ 1 \in DOMAIN past'
    BY <1>1, CallStarts
  <2>2. CASE q = "FirmwareVersion"
    BY <1>0, <2>1, <2>2 DEF Done, First, Order
  <2>3. CASE q # "FirmwareVersion"
    BY <2>1, <2>3 DEF Progress
  <2> QED
    BY <2>2, <2>3
<1>2. CASE Return
  BY <1>2 DEF Return, Progress
<1>3. ASSUME NEW unit \in Units, Update(unit) PROVE Progress'
  <2>1. PICK new \in Snapshots(query) : past' = Append(past, new)
    BY <1>3, UpdateAdds
  <2>2. \A i \in DOMAIN past : i \in DOMAIN past' /\ past'[i] = past[i]
    BY <2>1 DEF Types
  <2>3. UNCHANGED <<query, at, out>> /\ Done' = Done
    BY <1>3, UpdateAdds DEF Done
  <2>4. CASE query = "FirmwareVersion"
    <3>1. PICK when \in [1 .. 5 -> DOMAIN past] : WrittenAt(when)
      BY <2>4 DEF Progress
    <3>2. when \in [1 .. 5 -> DOMAIN past']
      BY <2>2, <3>1
    <3>3. \A i \in 1 .. 5 : past'[when[i]] = past[when[i]]
      BY <2>2, <3>1
    <3>4. Done \in 0 .. 5
      BY DEF Done
    <3>5. WrittenAt(when)'
      BY <2>3, <3>1, <3>2, <3>3, <3>4 DEF WrittenAt
    <3> QED
      BY <3>2, <3>5 DEF Progress
  <2>5. CASE query # "FirmwareVersion"
    BY <2>3, <2>5 DEF Progress
  <2> QED
    BY <2>4, <2>5
<1>4. CASE Step /\ query = "FirmwareVersion"
  <2>0. {"imagename", "SDK_VERSION", "MEDIARITE", "YOCTO_VERSION", "mfrPdri"} \subseteq ReadBy(query)
        /\ query # "none"
    BY <1>4 DEF ReadBy, Order, VersionTxt
  <2>1. UNCHANGED <<past, query>> /\ ReadBy(query) \subseteq Source
    BY <1>4, StepShape, ReadTable
  <2>2. ASSUME NEW s \in ReadBy(query)
        PROVE  /\ s \in Mfr \cup Rfc => (Usable(s, content[s]) <=> content[s] \notin {Absent, Blank})
               /\ s \notin Mfr \cup Rfc => (Usable(s, content[s]) <=> content[s] # Absent)
    BY <2>0, <2>1, ContentSeen, UsableTable
  <2>3. FirmwareField[1] = "value" /\ FirmwareField[2] = "sdk" /\ FirmwareField[3] = "mediarite"
        /\ FirmwareField[4] = "yocto" /\ FirmwareField[5] = "pdri"
    BY DEF FirmwareField
  <2>4. FirmwareSource[1] = "imagename" /\ FirmwareSource[2] = "SDK_VERSION"
        /\ FirmwareSource[3] = "MEDIARITE" /\ FirmwareSource[4] = "YOCTO_VERSION"
        /\ FirmwareSource[5] = "mfrPdri"
    BY DEF FirmwareSource
  <2>5. CASE GetFileRegex("imagename", "value", "SDK_VERSION", "ERROR_GENERAL")
    <3>1. CASE content["imagename"] = Absent
      <4>1. Done' = 0
        BY <2>5, <3>1 DEF GetFileRegex, Read, Done
      <4>2. Len(past) \in DOMAIN past'
        BY <2>0, <2>1 DEF Types
      <4> QED
        BY <1>0, <4>1, <4>2
    <3>2. CASE content["imagename"] # Absent
      <4>1. Done = 0 /\ Done' = 1
            /\ out' = [out EXCEPT !["value"] = <<"imagename", content["imagename"]>>]
        BY <2>5, <3>2 DEF GetFileRegex, Read, Done
      <4>2. MemberOf(content, "imagename") = <<"imagename", content["imagename"]>>
        BY <2>0, <2>2, <3>2 DEF MemberOf, Mfr, Rfc
      <4> QED
        <5>1. Done \in 0 .. 4 /\ Done' = Done + 1
          BY <4>1
        <5>2. out' = [out EXCEPT ![FirmwareField[Done']] = MemberOf(content, FirmwareSource[Done'])]
          BY <2>3, <2>4, <4>1, <4>2
        <5> QED
          BY <1>4, <2>1, <3>2, <5>1, <5>2, MemberWritten
    <3> QED
      BY <3>1, <3>2
  <2>6. CASE OrEmpty("SDK_VERSION", content["SDK_VERSION"] # Absent, "sdk", "MEDIARITE")
    <3>1. Done = 1 /\ Done' = 2
      BY <2>6 DEF OrEmpty, Done
    <3>2. out' = [out EXCEPT !["sdk"] = MemberOf(content, "SDK_VERSION")]
      BY <2>0, <2>2, <2>6 DEF OrEmpty, MemberOf, Mfr, Rfc
    <3> QED
      <4>1. Done \in 0 .. 4 /\ Done' = Done + 1 /\ Done # 0
        BY <3>1
      <4>2. out' = [out EXCEPT ![FirmwareField[Done']] = MemberOf(content, FirmwareSource[Done'])]
        BY <2>3, <2>4, <3>1, <3>2
      <4> QED
        BY <1>4, <2>1, <4>1, <4>2, MemberWritten
  <2>7. CASE OrEmpty("MEDIARITE", content["MEDIARITE"] # Absent, "mediarite", "YOCTO_VERSION")
    <3>1. Done = 2 /\ Done' = 3
      BY <2>7 DEF OrEmpty, Done
    <3>2. out' = [out EXCEPT !["mediarite"] = MemberOf(content, "MEDIARITE")]
      BY <2>0, <2>2, <2>7 DEF OrEmpty, MemberOf, Mfr, Rfc
    <3> QED
      <4>1. Done \in 0 .. 4 /\ Done' = Done + 1 /\ Done # 0
        BY <3>1
      <4>2. out' = [out EXCEPT ![FirmwareField[Done']] = MemberOf(content, FirmwareSource[Done'])]
        BY <2>3, <2>4, <3>1, <3>2
      <4> QED
        BY <1>4, <2>1, <4>1, <4>2, MemberWritten
  <2>8. CASE OrEmpty("YOCTO_VERSION", content["YOCTO_VERSION"] # Absent, "yocto", "mfrPdri")
    <3>1. Done = 3 /\ Done' = 4
      BY <2>8 DEF OrEmpty, Done
    <3>2. out' = [out EXCEPT !["yocto"] = MemberOf(content, "YOCTO_VERSION")]
      BY <2>0, <2>2, <2>8 DEF OrEmpty, MemberOf, Mfr, Rfc
    <3> QED
      <4>1. Done \in 0 .. 4 /\ Done' = Done + 1 /\ Done # 0
        BY <3>1
      <4>2. out' = [out EXCEPT ![FirmwareField[Done']] = MemberOf(content, FirmwareSource[Done'])]
        BY <2>3, <2>4, <3>1, <3>2
      <4> QED
        BY <1>4, <2>1, <4>1, <4>2, MemberWritten
  <2>9. CASE OrEmpty("mfrPdri", content["mfrPdri"] \notin {Absent, Blank}, "pdri", "ERROR_NONE")
    <3>1. Done = 4 /\ Done' = 5
      BY <2>9 DEF OrEmpty, Done
    <3>2. out' = [out EXCEPT !["pdri"] = MemberOf(content, "mfrPdri")]
      BY <2>0, <2>2, <2>9 DEF OrEmpty, MemberOf, Mfr, Rfc
    <3> QED
      <4>1. Done \in 0 .. 4 /\ Done' = Done + 1 /\ Done # 0
        BY <3>1
      <4>2. out' = [out EXCEPT ![FirmwareField[Done']] = MemberOf(content, FirmwareSource[Done'])]
        BY <2>3, <2>4, <3>1, <3>2
      <4> QED
        BY <1>4, <2>1, <4>1, <4>2, MemberWritten
  <2> QED
    BY <1>4, <2>5, <2>6, <2>7, <2>8, <2>9 DEF Step, FirmwareVersion
<1>5. CASE Step /\ query # "FirmwareVersion"
  <2>1. query' = query
    BY <1>5, StepShape
  <2> QED
    BY <1>5, <2>1 DEF Progress
<1>6. CASE UNCHANGED vars
  <2>1. UNCHANGED <<past, query, at, out>> /\ Done' = Done
    BY <1>6 DEF vars, Done
  <2> QED
    BY <2>1 DEF Progress, WrittenAt
<1> QED
  BY <1>1, <1>2, <1>3, <1>4, <1>5, <1>6 DEF Next

-----------------------------------------------------------------------------
(* The theorems.                                                           *)

IInv == Types /\ Chain /\ Unwritten /\ AllReal /\ TypeFound /\ VersionFound /\ Progress

(* Together the invariants are inductive: Chain tells of the fallbacks,    *)
(* the others of what is in the answer.                                    *)
THEOREM Invariant == Spec => []IInv
<1>1. Init => IInv
  <2>1. ASSUME Init PROVE Types
    BY <2>1 DEF Init, Types, Snapshots
  <2>2. ASSUME Init PROVE Chain /\ Unwritten /\ TypeFound /\ VersionFound /\ Progress
    BY <2>2 DEF Init, Chain, Unwritten, TypeFound, VersionFound, Progress
  <2>3. ASSUME Init PROVE AllReal
    BY <2>3, ConstantsAreReal DEF Init, AllReal
  <2> QED
    BY <2>1, <2>2, <2>3 DEF IInv
<1>2. IInv /\ [Next]_vars => IInv'
  BY TypesStep, ChainStep, UnwrittenStep, AllRealStep, TypeFoundStep, VersionFoundStep, ProgressStep
  DEF IInv
<1> QED
  BY <1>1, <1>2, PTL DEF Spec

(* Every call is at a source of its own query, within its bounds, and each *)
(* member of the answer comes from such a source or is a constant.         *)
THEOREM TypeCorrect == Spec => []TypeOK
<1>1. Types /\ AllReal => TypeOK
  <2> SUFFICES ASSUME Types, AllReal PROVE TypeOK
    OBVIOUS
  <2>1. \A i \in DOMAIN past : past[i] \in Snapshots(query)
    BY DEF Types
  <2>2. \A i \in DOMAIN past : DOMAIN past[i] = ReadBy(query)
                              /\ \A s \in ReadBy(query) : past[i][s] \in ContentOf(s)
    BY <2>1 DEF Snapshots
  <2>3. DOMAIN out = Fields
    BY DEF Types
  <2>4. \A f \in Fields : out[f] \in Constants \/ out[f][1] \in ReadBy(query)
    BY DEF AllReal, Real
  <2> QED
    BY <2>2, <2>3, <2>4 DEF Types, TypeOK, Constants
<1> QED
  BY <1>1, Invariant, PTL DEF IInv

(* A query fails only if each of its sources, at some moment of the call,  *)
(* had no answer.                                                          *)
THEOREM FailuresAreJustified == Spec => []FailureIsJustified
<1>1. Types /\ Chain => FailureIsJustified
  <2> SUFFICES ASSUME Types, Chain, Failed
               PROVE  /\ query \notin {"ReleaseVersion", "SystemInfo"}
                      /\ \A i \in DOMAIN Order(query) : Skipped(Order(query)[i])
    BY DEF FailureIsJustified
  <2>1. query # "none" /\ query \in Query
    BY QueriesAssumption DEF Types, Failed
  <2>2. NobodyAnswered /\ query \notin {"ReleaseVersion", "SystemInfo"}
    BY <2>1 DEF Chain
  <2>3. DOMAIN Order(query) = 1 .. Len(Order(query)) /\ Len(Order(query)) \in Nat
    BY <2>1, OrderTable DEF Distinct
  <2> QED
    BY <2>2, <2>3 DEF NobodyAnswered, PassedBefore
<1> QED
  BY <1>1, Invariant, PTL DEF IInv

(* An answer from a fallback means that the preferred sources were passed  *)
(* over for a reason.                                                      *)
THEOREM PreferencesAreRespected == Spec => []PreferenceRespected
<1>1. Types /\ Chain => PreferenceRespected
  <2> SUFFICES ASSUME Types, Chain, Succeeded, query \in TextQuery
               PROVE  \E i \in DOMAIN Order(query) :
                        /\ out["value"][1] = Order(query)[i]
                        /\ \A j \in 1 .. i - 1 : Skipped(Order(query)[j])
                        /\ out["value"][1] = "mfrProvisioned"
                             => Seen("DEVICE_NAME") \cap Provisioned # {}
    BY DEF PreferenceRespected
  <2>1. query # "none" /\ query \in Query
    BY DEF TextQuery, Query
  <2>2. PICK i \in DOMAIN Order(query) :
          /\ out["value"][1] = Order(query)[i]
          /\ PassedBefore(i) /\ SeenProvisioned(Order(query)[i])
    BY <2>1 DEF Chain, Answered
  <2>3. \A j \in 1 .. i - 1 : j \in DOMAIN Order(query)
    BY <2>1, OrderTable DEF Distinct
  <2> QED
    BY <2>2, <2>3 DEF PassedBefore, SeenProvisioned
<1> QED
  BY <1>1, Invariant, PTL DEF IInv

(* What is written as read from a source was there, and was an answer.     *)
THEOREM AnswersAreReal == Spec => []AnswersWereThere
<1>1. AllReal => AnswersWereThere
  <2> SUFFICES ASSUME NEW f \in Fields, Real(out[f]), out[f][1] \in Source
               PROVE  \E v \in Seen(out[f][1]) :
                        /\ Usable(out[f][1], v)
                        /\ out[f][2] = IF out[f][1] = "DEVICE_TYPE" THEN Converted(v) ELSE v
    BY DEF AnswersWereThere, AllReal
  <2>1. PICK v \in Seen(out[f][1]) :
          /\ Usable(out[f][1], v)
          /\ out[f] = <<out[f][1], IF out[f][1] = "DEVICE_TYPE" THEN Converted(v) ELSE v>>
    BY ConstantsAreNoSources DEF Real
  <2>2. \A a, b : <<a, b>>[2] = b
    OBVIOUS
  <2>3. out[f][2] = IF out[f][1] = "DEVICE_TYPE" THEN Converted(v) ELSE v
    BY <2>1, <2>2
  <2> QED
    BY <2>1, <2>3
<1> QED
  BY <1>1, Invariant, PTL DEF IInv

(* DeviceType answers with a type, unless it saw one that nobody knows.    *)
THEOREM DeviceTypesAreAnswered == Spec => []DeviceTypeIsAnswered
<1>1. Types /\ TypeFound => DeviceTypeIsAnswered
  <2> SUFFICES ASSUME Types, TypeFound, query = "DeviceType", Succeeded,
                      "other" \notin Seen("deviceType")
               PROVE  out["value"][2] \in StringToDeviceType
    BY DEF DeviceTypeIsAnswered
  <2>0. \A a, b : <<a, b>>[2] = b
    OBVIOUS
  <2>1. ASSUME NEW v \in Seen("deviceType"), v # Absent,
               v \in StringToDeviceType => out["value"] = <<"deviceType", v>>
        PROVE  out["value"][2] \in StringToDeviceType
    <3>1. "deviceType" \in ReadBy(query)
      <4>1. First(query) = "deviceType" /\ query \in Query
        BY DEF First, Order, Query
      <4> QED
        BY <4>1, ReadTable
    <3>2. v \in ContentOf("deviceType")
      BY <2>1, <3>1 DEF Types, Seen, Snapshots
    <3>3. v \in {Absent, "other"} \cup StringToDeviceType
      BY <3>2
      DEF ContentOf, StringToDeviceType, Mfr, Rfc, Script
    <3> QED
      BY <2>0, <2>1, <3>3
  <2>2. ASSUME NEW v, out["value"] = <<"DEVICE_TYPE", Converted(v)>>
        PROVE  out["value"][2] \in StringToDeviceType
    BY <2>0, <2>2 DEF Converted, StringToDeviceType
  <2> QED
    BY <2>1, <2>2 DEF TypeFound
<1> QED
  BY <1>1, Invariant, PTL DEF IInv

(* A query that fails has written nothing, but for Brand's default.        *)
THEOREM FailuresLeaveAnswers == Spec => []FailureLeavesAnswer
<1>1. Types /\ Unwritten => FailureLeavesAnswer
  <2> SUFFICES ASSUME Types, Unwritten, Failed, NEW f \in Fields
               PROVE  out[f] = IF query = "Brand" /\ f = "value" THEN Unknown ELSE Untouched
    BY DEF FailureLeavesAnswer
  <2>1. query # "none"
    BY DEF Types, Failed
  <2> QED
    BY <2>1 DEF Unwritten, Fresh
<1> QED
  BY <1>1, Invariant, PTL DEF IInv

(* The members of FirmwareVersion's answer go forward in time.             *)
THEOREM FirmwareGoesForward == Spec => []FirmwareInOrder
<1>1. Types /\ Progress => FirmwareInOrder
  <2> SUFFICES ASSUME Types, Progress, query = "FirmwareVersion", Succeeded
               PROVE  FirmwareInOrder
    BY DEF FirmwareInOrder
  <2>1. PICK when \in [1 .. 5 -> DOMAIN past] : WrittenAt(when)
    BY DEF Progress
  <2>2. Done = 5
    BY DEF Done, Succeeded
  <2>3. \A k \in 1 .. 5 : out[FirmwareField[k]] = MemberOf(past[when[k]], FirmwareSource[k])
    BY <2>1, <2>2 DEF WrittenAt
  <2>4. /\ out["value"] = MemberOf(past[when[1]], "imagename")
        /\ out["sdk"] = MemberOf(past[when[2]], "SDK_VERSION")
        /\ out["mediarite"] = MemberOf(past[when[3]], "MEDIARITE")
        /\ out["yocto"] = MemberOf(past[when[4]], "YOCTO_VERSION")
        /\ out["pdri"] = MemberOf(past[when[5]], "mfrPdri")
    BY <2>3 DEF FirmwareField, FirmwareSource
  <2>5. out = [f \in Fields |-> out[f]]
    BY DEF Types
  <2>6. out = [value     |-> MemberOf(past[when[1]], "imagename"),
               sdk       |-> MemberOf(past[when[2]], "SDK_VERSION"),
               mediarite |-> MemberOf(past[when[3]], "MEDIARITE"),
               yocto     |-> MemberOf(past[when[4]], "YOCTO_VERSION"),
               pdri      |-> MemberOf(past[when[5]], "mfrPdri")]
    BY <2>4, <2>5 DEF Fields
  <2> QED
    BY <2>1, <2>6 DEF FirmwareInOrder, WrittenAt
<1> QED
  BY <1>1, Invariant, PTL DEF IInv

(* Nothing changed during the call: each source held one thing.            *)
LEMMA SteadySees ==
  ASSUME Types, query # "none", Steady
  PROVE  \A s : Seen(s) = {content[s]}
<1>1. DOMAIN past = {1}
  BY DEF Types, Steady
<1> QED
  BY <1>1 DEF Seen, content, Steady

(* Source s would answer the query now.                                    *)
Answers(s) ==
  Usable(s, content[s]) /\ (s = "mfrProvisioned" => content["DEVICE_NAME"] \in Provisioned)

(* The preferred source is the first that answers.                         *)
LEMMA FirstAnswers ==
  ASSUME query \in Query
  PROVE  /\ \A i \in DOMAIN Order(query) :
              Answers(Order(query)[i]) /\ (\A j \in 1 .. i - 1 : ~Answers(Order(query)[j]))
                => Answering = {Order(query)[i]}
         /\ (\A i \in DOMAIN Order(query) : ~Answers(Order(query)[i])) => Answering = {}
<1> DEFINE order == Order(query)
           first(i) == Answers(order[i]) /\ \A j \in 1 .. i - 1 : ~Answers(order[j])
<1>1. Answering = {order[i] : i \in {i \in DOMAIN order : first(i)}}
  BY DEF Answering, Answers
<1>2. ASSUME NEW i \in DOMAIN order, first(i) PROVE Answering = {order[i]}
  <2>1. \A j \in DOMAIN order : first(j) => j = i
    <3>1. DOMAIN order = 1 .. Len(order) /\ Len(order) \in Nat
      BY OrderTable DEF Distinct
    <3> QED
      BY <1>2, <3>1
  <2>2. {j \in DOMAIN order : first(j)} = {i}
    BY <1>2, <2>1
  <2> QED
    BY <1>1, <2>2
<1>3. ASSUME \A i \in DOMAIN order : ~Answers(order[i]) PROVE Answering = {}
  BY <1>1, <1>3
<1> QED
  BY <1>2, <1>3

(* The chain, when nothing changes: the answer is the preferred source's.  *)
LEMMA SteadyChain ==
  ASSUME Types, AllReal, query # "none", Steady
  PROVE  /\ NobodyAnswered => Answering = {}
         /\ Answered /\ query # "DeviceType"
              => \E s \in Source : Answering = {s} /\ out["value"] = <<s, content[s]>>
                                   /\ Usable(s, content[s])
<1>1. query \in Query /\ Distinct(Order(query), Source)
  BY QueriesAssumption, OrderTable DEF Types
<1>2. \A s : Skipped(s) => ~Answers(s)
  BY SteadySees DEF Skipped, Answers
<1>3. DOMAIN Order(query) = 1 .. Len(Order(query)) /\ Len(Order(query)) \in Nat
  BY <1>1 DEF Distinct
<1>4. ASSUME NobodyAnswered PROVE Answering = {}
  BY <1>1, <1>2, <1>3, <1>4, FirstAnswers DEF NobodyAnswered, PassedBefore
<1>5. ASSUME Answered, query # "DeviceType"
      PROVE  \E s \in Source : Answering = {s} /\ out["value"] = <<s, content[s]>>
                               /\ Usable(s, content[s])
  <2>1. PICK i \in DOMAIN Order(query) : /\ out["value"][1] = Order(query)[i]
                                         /\ PassedBefore(i) /\ SeenProvisioned(Order(query)[i])
    BY <1>5 DEF Answered
  <2> DEFINE s == Order(query)[i]
  <2>2. s \in Source /\ s # "DEVICE_TYPE"
    BY <1>1, <1>5, TypeTable DEF Distinct
  <2>3. Real(out["value"])
    BY DEF AllReal, Fields
  <2>4. PICK v \in Seen(s) : Usable(s, v) /\ out["value"] = <<s, v>>
    BY <2>1, <2>2, <2>3, ConstantsAreNoSources DEF Real
  <2>5. v = content[s]
    BY <2>4, SteadySees
  <2>6. Answers(s)
    BY <2>1, <2>4, <2>5, SteadySees DEF Answers, SeenProvisioned
  <2>7. \A j \in 1 .. i - 1 : ~Answers(Order(query)[j])
    BY <1>2, <1>3, <2>1 DEF PassedBefore
  <2>8. Answering = {s}
    BY <1>1, <2>6, <2>7, FirstAnswers
  <2> QED
    BY <2>2, <2>4, <2>5, <2>8
<1> QED
  BY <1>4, <1>5

(* When nothing changes during a call, its answer is the one the order of  *)
(* preference defines.                                                     *)
THEOREM SteadyCallsAnswer == Spec => []SteadyAnswer
<1>1. IInv => SteadyAnswer
  <2> SUFFICES ASSUME IInv, at \in Results, Steady PROVE SteadyAnswer
    BY DEF SteadyAnswer
  <2> USE DEF IInv
  <2>0. query # "none" /\ query \in Query /\ (Failed \/ Succeeded) /\ ~(Failed /\ Succeeded)
    BY QueriesAssumption DEF Types, Results, Failed, Succeeded
  <2>1. \A s : Seen(s) = {content[s]}
    BY <2>0, SteadySees
  <2>2. /\ NobodyAnswered => Answering = {}
        /\ Answered /\ query # "DeviceType"
             => \E s \in Source : Answering = {s} /\ out["value"] = <<s, content[s]>>
                                  /\ Usable(s, content[s])
    BY <2>0, SteadyChain
  <2>3. ASSUME NEW s \in ReadBy(query)
        PROVE  /\ s \in Mfr \cup Rfc => (Usable(s, content[s]) <=> content[s] \notin {Absent, Blank})
               /\ s \notin Mfr \cup Rfc => (Usable(s, content[s]) <=> content[s] # Absent)
    BY <2>0, ReadTable, ContentSeen, UsableTable
  <2>4. query \in TextQuery => query # "DeviceType"
    BY DEF TextQuery
  <2>5. query = "DeviceType" /\ Succeeded =>
          /\ Answering # {}
          /\ content["deviceType"] # "other" =>
               out["value"][2] = IF content["deviceType"] # Absent THEN content["deviceType"]
                                   ELSE Converted(content["DEVICE_TYPE"])
    <3> SUFFICES ASSUME query = "DeviceType", Succeeded
                 PROVE  /\ Answering # {}
                        /\ content["deviceType"] # "other" =>
                             out["value"][2] = IF content["deviceType"] # Absent
                                                 THEN content["deviceType"]
                                                 ELSE Converted(content["DEVICE_TYPE"])
      OBVIOUS
    <3>1. Order(query) = <<"deviceType", "DEVICE_TYPE">>
      BY DEF Order
    <3>2. "deviceType" \in ReadBy(query) /\ "DEVICE_TYPE" \in ReadBy(query)
      BY <2>0, <3>1, OrderTable
    <3>3. (Answers("deviceType") <=> content["deviceType"] # Absent)
          /\ (Answers("DEVICE_TYPE") <=> content["DEVICE_TYPE"] # Absent)
      BY <2>3, <3>2 DEF Answers, Mfr, Rfc
    <3>4. content["deviceType"] \in ContentOf("deviceType")
      BY <2>0, <3>2, ContentSeen
    <3>5. CASE content["deviceType"] # Absent
      <4>1. Answering = {Order(query)[1]}
        BY <2>0, <3>1, <3>3, <3>5, FirstAnswers
      <4>2. ASSUME content["deviceType"] # "other" PROVE out["value"][2] = content["deviceType"]
        <5>1. content["deviceType"] \in StringToDeviceType
          BY <3>4, <3>5, <4>2 DEF ContentOf, StringToDeviceType, Absent, Mfr, Rfc, Script
        <5>2. ~Skipped("deviceType")
          BY <2>1, <3>3, <3>5 DEF Skipped, Answers
        <5> QED
          BY <2>1, <5>1, <5>2 DEF TypeFound
      <4> QED
        BY <3>5, <4>1, <4>2
    <3>6. CASE content["deviceType"] = Absent
      <4>1. content["DEVICE_TYPE"] # Absent
            /\ out["value"] = <<"DEVICE_TYPE", Converted(content["DEVICE_TYPE"])>>
        BY <2>1, <3>6 DEF TypeFound
      <4>2. Answering = {Order(query)[2]}
        BY <2>0, <3>1, <3>3, <3>6, <4>1, FirstAnswers
      <4> QED
        BY <3>6, <4>1, <4>2
    <3> QED
      BY <3>5, <3>6
  <2>6. query = "FirmwareVersion" /\ Succeeded =>
          /\ Answering # {}
          /\ out = [value |-> Member("imagename"), sdk |-> Member("SDK_VERSION"),
                    mediarite |-> Member("MEDIARITE"), yocto |-> Member("YOCTO_VERSION"),
                    pdri |-> Member("mfrPdri")]
    <3> SUFFICES ASSUME query = "FirmwareVersion", Succeeded
                 PROVE  /\ Answering # {}
                        /\ out = [value |-> Member("imagename"), sdk |-> Member("SDK_VERSION"),
                                  mediarite |-> Member("MEDIARITE"),
                                  yocto |-> Member("YOCTO_VERSION"), pdri |-> Member("mfrPdri")]
      OBVIOUS
    <3>1. PICK when \in [1 .. 5 -> DOMAIN past] : WrittenAt(when)
      BY DEF Progress
    <3>2. Done = 5
      BY DEF Done, Succeeded
    <3>3. \A k \in 1 .. 5 : past[when[k]] = content
      <4>1. DOMAIN past = {1} /\ content = past[1]
        BY DEF Types, Steady, content
      <4> QED
        BY <3>1, <4>1
    <3>4. \A k \in 1 .. 5 : out[FirmwareField[k]] = MemberOf(content, FirmwareSource[k])
      BY <3>1, <3>2, <3>3 DEF WrittenAt
    <3>5. /\ out["value"] = Member("imagename") /\ out["sdk"] = Member("SDK_VERSION")
          /\ out["mediarite"] = Member("MEDIARITE") /\ out["yocto"] = Member("YOCTO_VERSION")
          /\ out["pdri"] = Member("mfrPdri")
      BY <3>4 DEF FirmwareField, FirmwareSource, Member
    <3>6. out = [f \in Fields |-> out[f]]
      BY DEF Types
    <3>7. out = [value |-> Member("imagename"), sdk |-> Member("SDK_VERSION"),
                 mediarite |-> Member("MEDIARITE"), yocto |-> Member("YOCTO_VERSION"),
                 pdri |-> Member("mfrPdri")]
      BY <3>5, <3>6 DEF Fields
    <3>8. Order(query) = <<"imagename">>
      BY DEF Order
    <3>9. content["imagename"] # Absent
      BY <3>1, <3>2, <3>3 DEF WrittenAt
    <3>10. Answers("imagename")
      BY <2>0, <2>3, <3>8, <3>9, OrderTable DEF Answers, Mfr, Rfc
    <3>11. Answering = {Order(query)[1]}
      BY <2>0, <3>8, <3>10, FirstAnswers
    <3> QED
      BY <3>7, <3>11
  <2>7. query \notin {"ReleaseVersion", "SystemInfo"} => (Succeeded <=> Answering # {})
    <3>1. Failed => Answering = {}
      BY <2>0, <2>2 DEF Chain
    <3>2. query \in TextQuery /\ Succeeded => Answering # {}
      BY <2>0, <2>2, <2>4 DEF Chain
    <3> QED
      BY <2>0, <2>5, <2>6, <3>1, <3>2 DEF TextQuery
  <2>8. query \in TextQuery => \A s \in Answering : out["value"] = <<s, content[s]>>
    <3>1. CASE Failed
      BY <2>0, <2>2, <3>1 DEF Chain
    <3>2. CASE Succeeded
      BY <2>0, <2>2, <2>4, <3>2 DEF Chain
    <3> QED
      BY <2>0, <3>1, <3>2
  <2>9. query = "SystemInfo" =>
          out["value"] \in IF Answering = {} THEN {Empty} ELSE {Member(s) : s \in Answering}
    BY <2>0, <2>2 DEF Chain, Member, MemberOf
  <2>10. query = "ReleaseVersion" =>
           out["value"] = IF content["imagename"] = "v1" THEN <<"imagename", "v1">> ELSE NoVersion
    <3>1. at # "imagename"
      BY DEF Results
    <3> QED
      BY <2>1, <3>1 DEF VersionFound
  <2> QED
    BY <2>5, <2>6, <2>7, <2>8, <2>9, <2>10 DEF SteadyAnswer, Converted
<1> QED
  BY <1>1, Invariant, PTL
=================================================================================
