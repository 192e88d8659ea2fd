-------------------------- MODULE DeviceInfoQueries --------------------------
(***************************************************************************)
(* The identity queries of src/plugin/DeviceInfoImplementation.cpp: each   *)
(* tries a few sources in a fixed order - a key of a file, an item of the  *)
(* manufacturer library, an RFC parameter - and stops at the first that    *)
(* answers; four take what a script prints, whatever it is. A query takes  *)
(* no lock and keeps nothing: files are replaced and services come and go  *)
(* between two of its reads, while two queries never meet, so one call at  *)
(* a time against changing sources is all that can happen to a caller.     *)
(*                                                                         *)
(* A value is a token with the source it came from. A file is replaced as  *)
(* a whole, and one read of it is one step.                                *)
(***************************************************************************)
EXTENDS Naturals, Sequences, FiniteSets

CONSTANTS
  Queries,     \* the queries made, a subset of Query
  MaxUpdates   \* bound: how often sources change during one call

Query == {"SerialNumber", "Sku", "Make", "Model", "Brand", "DeviceType", "SocName",
          "DistributorId", "ReleaseVersion", "ChipSet", "FirmwareVersion", "SystemInfo",
          "EthMac", "EstbMac", "WifiMac", "EstbIp"}

ASSUME QueriesAssumption == Queries \subseteq Query
ASSUME UpdatesAssumption == MaxUpdates \in Nat

-----------------------------------------------------------------------------
(* The sources.                                                            *)

DeviceProperties == {"MODEL_NUM", "MFG_NAME", "DEVICE_NAME", "FRIENDLY_ID",
                     "DEVICE_TYPE", "SOC", "CHIPSET_NAME"}
VersionTxt == {"imagename", "SDK_VERSION", "MEDIARITE", "YOCTO_VERSION"}
LineFiles  == {"manufacturer", "partnerId3", "deviceType"}
Mfr == {"mfrSerialNumber", "mfrModelName", "mfrManufacturer", "mfrProvisioned",
        "mfrPdri"}
Rfc == {"rfcSerialNumber", "rfcModelName", "rfcPartnerId"}
Script == {"eth_mac", "estb_mac", "wifi_mac", "estb_ip"}  \* of getDeviceDetails.sh

Source == DeviceProperties \cup VersionTxt \cup LineFiles \cup Mfr \cup Rfc \cup Script

(* What changes at once: a file, an item, a parameter, an output.          *)
Units == {DeviceProperties, VersionTxt}
         \cup {{s} : s \in LineFiles \cup Mfr \cup Rfc \cup Script}

Absent == "absent"  \* no such file or line; a call that fails; no script
Blank  == "blank"   \* a call that succeeds with an empty answer

(* An image named v1 has a release number in its name, v2 has none.        *)
ContentOf(s) ==
  CASE s = "DEVICE_NAME" -> {Absent, "PLATCO", "LLAMA", "other"}
    [] s = "DEVICE_TYPE" -> {Absent, "mediaclient", "hybrid", "other"}
    [] s = "deviceType"  -> {Absent, "IpTv", "IpStb", "QamIpStb", "other"}
    [] s \in Mfr \cup Rfc \cup Script -> {Absent, Blank, "v1", "v2"}
    [] OTHER             -> {Absent, "v1", "v2"}

(* The lines of version.txt are those of one image; bound: it lacks one    *)
(* line at most, if it is there.                                           *)
OneImage(new) ==
  LET lines   == VersionTxt \cap DOMAIN new
      present == {s \in lines : new[s] # Absent}
  IN  /\ Cardinality(lines \ present) <= 1 \/ present = {}
      /\ \A s, t \in present : new[s] = new[t]

(* What the sources of S may contain together.                             *)
Contents(S) ==
  {new \in [S -> UNION {ContentOf(s) : s \in S}] :
     OneImage(new) /\ \A s \in S : new[s] \in ContentOf(s)}

(* The sources whose answer can be that of a query, in the order of        *)
(* preference; Model tries mfrProvisioned on two devices only.             *)
Order(q) ==
  CASE q \in {"SerialNumber", "SystemInfo"} -> <<"mfrSerialNumber", "rfcSerialNumber">>
    [] q = "Sku"           -> <<"MODEL_NUM", "mfrModelName", "rfcModelName">>
    [] q = "Make"          -> <<"mfrManufacturer", "MFG_NAME">>
    [] q = "Model"         -> <<"mfrProvisioned", "FRIENDLY_ID">>
    [] q = "Brand"         -> <<"manufacturer", "mfrManufacturer">>
    [] q = "DeviceType"    -> <<"deviceType", "DEVICE_TYPE">>
    [] q = "SocName"       -> <<"SOC">>
    [] q = "DistributorId" -> <<"partnerId3", "rfcPartnerId">>
    [] q = "ChipSet"       -> <<"CHIPSET_NAME">>
    [] q = "EthMac"        -> <<"eth_mac">>
    [] q = "EstbMac"       -> <<"estb_mac">>
    [] q = "WifiMac"       -> <<"wifi_mac">>
    [] q = "EstbIp"        -> <<"estb_ip">>
    [] q \in {"ReleaseVersion", "FirmwareVersion"} -> <<"imagename">>

(* The source a query reads first, and all it may read.                    *)
First(q) == IF q = "Model" THEN "DEVICE_NAME" ELSE Order(q)[1]

ReadBy(q) ==
  {Order(q)[i] : i \in DOMAIN Order(q)} \cup
  (CASE q = "Model"           -> {"DEVICE_NAME"}
     [] q = "FirmwareVersion" -> VersionTxt \cup {"mfrPdri"}
     [] OTHER                 -> {})

Results == {"ERROR_NONE", "ERROR_GENERAL"}

(* The members of the answer; those with a single one use "value", where   *)
(* FirmwareVersion has its imagename.                                      *)
Fields == {"value", "sdk", "mediarite", "yocto", "pdri"}

(* Values that come from no source: what the caller passed in, and the     *)
(* constants of the code.                                                  *)
Untouched == <<"caller", "value">>
Unknown   == <<"code", "Unknown">>
NoVersion == <<"code", "99.99.0.0">>
Empty     == <<"code", "">>

VARIABLES
  past,   \* history: what the sources of the query contained since the call
  query,  \* the query made
  at,     \* the source it reads next, or the result returned
  out     \* the answer, as far as it is written

vars == <<past, query, at, out>>

(* What each source would answer now, and what it held during the call.    *)
content == past[Len(past)]
Seen(s) == {past[i][s] : i \in DOMAIN past}

Init ==
  /\ past = <<>>
  /\ query = "none"
  /\ at = "idle"
  /\ out = [f \in Fields |-> Untouched]

-----------------------------------------------------------------------------
(* The readers: on success the output is written and the query goes on at  *)
(* found, else the output is left alone and it goes on at missing.         *)

Read(s, usable, field, found, missing) ==
  /\ at = s
  /\ \/ /\ usable
        /\ out' = [out EXCEPT ![field] = <<s, content[s]>>]
        /\ at' = found
     \/ /\ ~usable
        /\ at' = missing
        /\ UNCHANGED out
  /\ UNCHANGED <<past, query>>

GetFileRegex(s, field, found, missing) ==
  Read(s, content[s] # Absent, field, found, missing)

(* Mutant: the length of the reply is not tested.                          *)
GetMFRDataIgnoresLength(s, field, found, missing) ==
  Read(s, content[s] # Absent, field, found, missing)

GetMFRData(s, field, found, missing) ==
  Read(s, content[s] \notin {Absent, Blank}, field, found, missing)

GetRFCData(s, field, found, missing) ==
  Read(s, content[s] \notin {Absent, Blank}, field, found, missing)

(* The output of a script, whether it succeeded and even if it is empty.   *)
GetDeviceDetails(s) ==
  Read(s, content[s] # Absent, "value", "ERROR_NONE", "ERROR_GENERAL")

(* A member that is set to "" when its source has no answer.               *)
OrEmpty(s, usable, field, next) ==
  /\ at = s
  /\ out' = [out EXCEPT ![field] = IF usable THEN <<s, content[s]>> ELSE Empty]
  /\ at' = next
  /\ UNCHANGED <<past, query>>

-----------------------------------------------------------------------------
(* The queries: each definition is the body of the member function of its  *)
(* name, one disjunct per read.                                            *)

SerialNumber ==
  \/ GetMFRData("mfrSerialNumber", "value", "ERROR_NONE", "rfcSerialNumber")
  \/ GetRFCData("rfcSerialNumber", "value", "ERROR_NONE", "ERROR_GENERAL")

(* Mutant: the fallbacks are swapped.                                      *)
SkuSkipsMfr ==
  \/ GetFileRegex("MODEL_NUM", "value", "ERROR_NONE", "rfcModelName")
  \/ GetRFCData("rfcModelName", "value", "ERROR_NONE", "mfrModelName")
  \/ GetMFRData("mfrModelName", "value", "ERROR_NONE", "ERROR_GENERAL")

Sku ==
  \/ GetFileRegex("MODEL_NUM", "value", "ERROR_NONE", "mfrModelName")
  \/ GetMFRData("mfrModelName", "value", "ERROR_NONE", "rfcModelName")
  \/ GetRFCData("rfcModelName", "value", "ERROR_NONE", "ERROR_GENERAL")

(* Mutant: the key of another query is read.                               *)
MakeReadsModelNum ==
  \/ GetMFRData("mfrManufacturer", "value", "ERROR_NONE", "MODEL_NUM")
  \/ GetFileRegex("MODEL_NUM", "value", "ERROR_NONE", "ERROR_GENERAL")

Make ==
  \/ GetMFRData("mfrManufacturer", "value", "ERROR_NONE", "MFG_NAME")
  \/ GetFileRegex("MFG_NAME", "value", "ERROR_NONE", "ERROR_GENERAL")

(* Two device names have their model name in the manufacturer library.     *)
Provisioned == {"PLATCO", "LLAMA"}

DeviceName ==
  /\ at = "DEVICE_NAME"
  /\ at' = IF content["DEVICE_NAME"] \in Provisioned THEN "mfrProvisioned"
                                                     ELSE "FRIENDLY_ID"
  /\ UNCHANGED <<past, query, out>>

(* Mutant: a provisioned device has no fallback.                           *)
ModelWithoutFallback ==
  \/ DeviceName
  \/ GetMFRData("mfrProvisioned", "value", "ERROR_NONE", "ERROR_GENERAL")
  \/ GetFileRegex("FRIENDLY_ID", "value", "ERROR_NONE", "ERROR_GENERAL")

Model ==
  \/ DeviceName
  \/ GetMFRData("mfrProvisioned", "value", "ERROR_NONE", "FRIENDLY_ID")
  \/ GetFileRegex("FRIENDLY_ID", "value", "ERROR_NONE", "ERROR_GENERAL")

(* The default is written before the first read, by Call.                  *)
Brand ==
  \/ GetFileRegex("manufacturer", "value", "ERROR_NONE", "mfrManufacturer")
  \/ GetMFRData("mfrManufacturer", "value", "ERROR_NONE", "ERROR_GENERAL")

(* The type in authService.conf is looked up as it is, and the answer is   *)
(* written only if the lookup succeeds; the one in device.properties is    *)
(* converted first, to a type the lookup knows.                            *)
StringToDeviceType == {"IpTv", "IpStb", "QamIpStb"}

Converted(type) == CASE type = "mediaclient" -> "IpStb"
                     [] type = "hybrid"      -> "QamIpStb"
                     [] OTHER                -> "IpTv"

(* Mutant: the type in device.properties is looked up without conversion.  *)
DeviceTypeUnconverted ==
  \/ /\ at = "deviceType"
     /\ at' = IF content["deviceType"] # Absent THEN "ERROR_NONE" ELSE "DEVICE_TYPE"
     /\ out' = IF content["deviceType"] \in StringToDeviceType
                 THEN [out EXCEPT !["value"] = <<"deviceType", content["deviceType"]>>]
                 ELSE out
     /\ UNCHANGED <<past, query>>
  \/ /\ at = "DEVICE_TYPE"
     /\ at' = IF content["DEVICE_TYPE"] # Absent THEN "ERROR_NONE" ELSE "ERROR_GENERAL"
     /\ out' = IF content["DEVICE_TYPE"] \in StringToDeviceType
                 THEN [out EXCEPT !["value"] = <<"DEVICE_TYPE", content["DEVICE_TYPE"]>>]
                 ELSE out
     /\ UNCHANGED <<past, query>>

DeviceType ==
  \/ /\ at = "deviceType"
     /\ at' = IF content["deviceType"] # Absent THEN "ERROR_NONE" ELSE "DEVICE_TYPE"
     /\ out' = IF content["deviceType"] \in StringToDeviceType
                 THEN [out EXCEPT !["value"] = <<"deviceType", content["deviceType"]>>]
                 ELSE out
     /\ UNCHANGED <<past, query>>
  \/ /\ at = "DEVICE_TYPE"
     /\ \/ /\ content["DEVICE_TYPE"] # Absent
           /\ at' = "ERROR_NONE"
           /\ out' = [out EXCEPT !["value"] =
                        <<"DEVICE_TYPE", Converted(content["DEVICE_TYPE"])>>]
        \/ /\ content["DEVICE_TYPE"] = Absent
           /\ at' = "ERROR_GENERAL"
           /\ UNCHANGED out
     /\ UNCHANGED <<past, query>>

SocName == GetFileRegex("SOC", "value", "ERROR_NONE", "ERROR_GENERAL")

DistributorId ==
  \/ GetFileRegex("partnerId3", "value", "ERROR_NONE", "rfcPartnerId")
  \/ GetRFCData("rfcPartnerId", "value", "ERROR_NONE", "ERROR_GENERAL")

(* Always succeeds, with a default if the image's name gives no version.   *)
ReleaseVersion ==
  /\ at = "imagename"
  /\ at' = "ERROR_NONE"
  /\ out' = [out EXCEPT !["value"] = IF content["imagename"] = "v1"
                                       THEN <<"imagename", "v1">> ELSE NoVersion]
  /\ UNCHANGED <<past, query>>

ChipSet == GetFileRegex("CHIPSET_NAME", "value", "ERROR_NONE", "ERROR_GENERAL")

(* Mutant: a missing member makes the query fail.                          *)
FirmwareVersionInOneGo ==
  \/ GetFileRegex("imagename", "value", "SDK_VERSION", "ERROR_GENERAL")
  \/ GetFileRegex("SDK_VERSION", "sdk", "MEDIARITE", "ERROR_GENERAL")
  \/ GetFileRegex("MEDIARITE", "mediarite", "YOCTO_VERSION", "ERROR_GENERAL")
  \/ GetFileRegex("YOCTO_VERSION", "yocto", "mfrPdri", "ERROR_GENERAL")
  \/ GetMFRData("mfrPdri", "pdri", "ERROR_NONE", "ERROR_GENERAL")

(* Mutant: a missing member is not set.                                    *)
FirmwareVersionKeepsMissing ==
  \/ GetFileRegex("imagename", "value", "SDK_VERSION", "ERROR_GENERAL")
  \/ GetFileRegex("SDK_VERSION", "sdk", "MEDIARITE", "MEDIARITE")
  \/ OrEmpty("MEDIARITE", content["MEDIARITE"] # Absent, "mediarite", "YOCTO_VERSION")
  \/ OrEmpty("YOCTO_VERSION", content["YOCTO_VERSION"] # Absent, "yocto", "mfrPdri")
  \/ OrEmpty("mfrPdri", content["mfrPdri"] \notin {Absent, Blank}, "pdri", "ERROR_NONE")

(* Mutant: the name of the image is read again at the end.                 *)
FirmwareVersionNameLast ==
  \/ GetFileRegex("imagename", "value", "SDK_VERSION", "ERROR_GENERAL")
  \/ OrEmpty("SDK_VERSION", content["SDK_VERSION"] # Absent, "sdk", "MEDIARITE")
  \/ OrEmpty("MEDIARITE", content["MEDIARITE"] # Absent, "mediarite", "YOCTO_VERSION")
  \/ OrEmpty("YOCTO_VERSION", content["YOCTO_VERSION"] # Absent, "yocto", "mfrPdri")
  \/ /\ at = "mfrPdri" /\ at' = "ERROR_NONE"
     /\ out' = [out EXCEPT
          !["value"] = IF content["imagename"] = Absent THEN @ ELSE <<"imagename", content["imagename"]>>,
          !["pdri"]  = IF content["mfrPdri"] \in {Absent, Blank} THEN Empty ELSE <<"mfrPdri", content["mfrPdri"]>>]
     /\ UNCHANGED <<past, query>>

(* version.txt is opened and searched anew for every member, and only the  *)
(* first has to be there.                                                  *)
FirmwareVersion ==
  \/ GetFileRegex("imagename", "value", "SDK_VERSION", "ERROR_GENERAL")
  \/ OrEmpty("SDK_VERSION", content["SDK_VERSION"] # Absent, "sdk", "MEDIARITE")
  \/ OrEmpty("MEDIARITE", content["MEDIARITE"] # Absent, "mediarite", "YOCTO_VERSION")
  \/ OrEmpty("YOCTO_VERSION", content["YOCTO_VERSION"] # Absent, "yocto", "mfrPdri")
  \/ OrEmpty("mfrPdri", content["mfrPdri"] \notin {Absent, Blank}, "pdri", "ERROR_NONE")

(* SystemInfo asks SerialNumber and ignores its result; the other members  *)
(* have one source each, which always answers.                             *)
SystemInfo ==
  \/ GetMFRData("mfrSerialNumber", "value", "ERROR_NONE", "rfcSerialNumber")
  \/ OrEmpty("rfcSerialNumber", content["rfcSerialNumber"] \notin {Absent, Blank},
             "value", "ERROR_NONE")

EthMac  == GetDeviceDetails("eth_mac")
EstbMac == GetDeviceDetails("estb_mac")
WifiMac == GetDeviceDetails("wifi_mac")
EstbIp  == GetDeviceDetails("estb_ip")

-----------------------------------------------------------------------------
(* The environment.                                                        *)

(* A caller makes a query, whatever its sources contain by then; Brand     *)
(* writes its default before it reads.                                     *)
Call(q) ==
  /\ at = "idle"
  /\ query' = q
  /\ at' = First(q)
  /\ out' = [f \in Fields |-> IF q = "Brand" /\ f = "value" THEN Unknown ELSE Untouched]
  /\ \E new \in Contents(ReadBy(q)) : past' = <<new>>

(* The caller takes the answer; nothing of the call outlives it.           *)
Return ==
  /\ at \in Results
  /\ query' = "none"
  /\ at' = "idle"
  /\ out' = [f \in Fields |-> Untouched]
  /\ past' = <<>>

(* A file is replaced, or an item or parameter changes, during a call that *)
(* reads it.                                                               *)
Update(unit) ==
  /\ at \in Source
  /\ Len(past) <= MaxUpdates
  /\ LET read == unit \cap ReadBy(query) IN
     \E new \in Contents(read) :
       /\ \E s \in read : new[s] # content[s]
       /\ past' = Append(past, [s \in ReadBy(query) |->
                                 IF s \in read THEN new[s] ELSE content[s]])
  /\ UNCHANGED <<query, at, out>>

Step ==
  \/ query = "SerialNumber"    /\ SerialNumber
  \/ query = "Sku"             /\ Sku
  \/ query = "Make"            /\ Make
  \/ query = "Model"           /\ Model
  \/ query = "Brand"           /\ Brand
  \/ query = "DeviceType"      /\ DeviceType
  \/ query = "SocName"         /\ SocName
  \/ query = "DistributorId"   /\ DistributorId
  \/ query = "ReleaseVersion"  /\ ReleaseVersion
  \/ query = "ChipSet"         /\ ChipSet
  \/ query = "FirmwareVersion" /\ FirmwareVersion
  \/ query = "SystemInfo"      /\ SystemInfo
  \/ query = "EthMac"          /\ EthMac
  \/ query = "EstbMac"         /\ EstbMac
  \/ query = "WifiMac"         /\ WifiMac
  \/ query = "EstbIp"          /\ EstbIp

Next ==
  \/ Step
  \/ Return
  \/ \E q \in Queries : Call(q)
  \/ \E unit \in Units : Update(unit)

Spec == Init /\ [][Next]_vars

-----------------------------------------------------------------------------
(* Properties.                                                             *)

(* The type invariant: every call is at a source of its own query, what a  *)
(* source holds is something it can hold, and each member of the answer is *)
(* a constant of the code, or names a source of the query as its origin    *)
(* (the whole module).                                                     *)
TypeOK ==
  /\ query \in Queries \cup {"none"}
  /\ at \in IF query = "none" THEN {"idle"} ELSE ReadBy(query) \cup Results
  /\ Len(past) \in IF query = "none" THEN {0} ELSE 1 .. MaxUpdates + 1
  /\ \A i \in DOMAIN past :
       /\ DOMAIN past[i] = ReadBy(query)
       /\ \A s \in ReadBy(query) : past[i][s] \in ContentOf(s)
  /\ DOMAIN out = Fields
  /\ \A f \in Fields : \/ out[f] \in {Untouched, Unknown, NoVersion, Empty}
                       \/ out[f][1] \in ReadBy(query)

Failed    == at = "ERROR_GENERAL"
Succeeded == at = "ERROR_NONE"

(* Only a script's empty output counts as an answer.                       *)
Usable(s, value) == value # Absent /\ (value = Blank => s \in Script)

(* Source s was rightly passed over: at some moment of the call it had no  *)
(* answer, or the device was not one that has it.                          *)
Skipped(s) ==
  \/ \E v \in Seen(s) : ~Usable(s, v)
  \/ s = "mfrProvisioned" /\ ~(Seen("DEVICE_NAME") \subseteq Provisioned)

(* A query reports failure only if each of its sources, at some moment of  *)
(* the call, had no answer: a source that was there all along is never     *)
(* missed, however the others come and go (the chains of fallbacks).       *)
FailureIsJustified ==
  Failed => /\ query \notin {"ReleaseVersion", "SystemInfo"}
            /\ \A i \in DOMAIN Order(query) : Skipped(Order(query)[i])

(* The queries whose answer is the text of one source.                     *)
TextQuery == Query \ {"ReleaseVersion", "FirmwareVersion", "SystemInfo", "DeviceType"}

(* An answer from a fallback means that each preferred source was rightly  *)
(* passed over, and Model's library item is used on provisioned devices    *)
(* only (the order of the reads in each query).                            *)
PreferenceRespected ==
  Succeeded /\ query \in TextQuery =>
    \E i \in DOMAIN Order(query) :
      /\ out["value"][1] = Order(query)[i]
      /\ \A j \in 1 .. i - 1 : Skipped(Order(query)[j])
      /\ out["value"][1] = "mfrProvisioned" => Seen("DEVICE_NAME") \cap Provisioned # {}

(* Whatever is written as read from a source was there during the call,    *)
(* and is a real answer: no error's leftover, no empty reply of the        *)
(* library or the RFC service (GetMFRData and GetRFCData test its length). *)
AnswersWereThere ==
  \A f \in Fields : out[f][1] \in Source =>
    \E v \in Seen(out[f][1]) :
      /\ Usable(out[f][1], v)
      /\ out[f][2] = IF out[f][1] = "DEVICE_TYPE" THEN Converted(v) ELSE v

(* A query that fails leaves the caller's answer as it was, in all its     *)
(* members; Brand alone has written its default.                           *)
FailureLeavesAnswer ==
  Failed => \A f \in Fields :
    out[f] = IF query = "Brand" /\ f = "value" THEN Unknown ELSE Untouched

(* The preferred of the sources of the query that have an answer.          *)
Answering ==
  LET order == Order(query)
      answers(s) == /\ Usable(s, content[s])
                    /\ s = "mfrProvisioned" => content["DEVICE_NAME"] \in Provisioned
  IN  {order[i] : i \in {i \in DOMAIN order :
         answers(order[i]) /\ \A j \in 1 .. i - 1 : ~answers(order[j])}}

Steady == Len(past) = 1

MemberOf(held, s) == IF Usable(s, held[s]) THEN <<s, held[s]>> ELSE Empty

Member(s) == MemberOf(content, s)

(* When nothing changes during a call, its answer is the one the order of  *)
(* preference defines: first usable source, converted type, default        *)
(* version, or failure (the queries as their callers understand them).     *)
SteadyAnswer ==
  at \in Results /\ Steady =>
    /\ query \notin {"ReleaseVersion", "SystemInfo"} => (Succeeded <=> Answering # {})
    /\ query \in TextQuery => \A s \in Answering : out["value"] = <<s, content[s]>>
    /\ query = "SystemInfo" =>
         out["value"] \in IF Answering = {} THEN {Empty} ELSE {Member(s) : s \in Answering}
    /\ query = "ReleaseVersion" =>
         out["value"] = IF content["imagename"] = "v1" THEN <<"imagename", "v1">> ELSE NoVersion
    /\ query = "FirmwareVersion" /\ Succeeded =>
         out = [value |-> Member("imagename"), sdk |-> Member("SDK_VERSION"),
                mediarite |-> Member("MEDIARITE"), yocto |-> Member("YOCTO_VERSION"),
                pdri |-> Member("mfrPdri")]
    /\ query = "DeviceType" /\ Succeeded /\ content["deviceType"] # "other" =>
         out["value"][2] = IF content["deviceType"] # Absent THEN content["deviceType"]
                             ELSE CASE content["DEVICE_TYPE"] = "mediaclient" -> "IpStb"
                                    [] content["DEVICE_TYPE"] = "hybrid" -> "QamIpStb"
                                    [] OTHER -> "IpTv"

(* FirmwareVersion opens version.txt anew for every member, so that the    *)
(* answer may mix two images; but it goes forward in time: no member is    *)
(* older than one before it, the name of the image least of all.           *)
FirmwareInOrder ==
  query = "FirmwareVersion" /\ Succeeded =>
    \E when \in [1 .. 5 -> DOMAIN past] :
      /\ \A i \in 1 .. 4 : when[i] <= when[i + 1]
      /\ out = [value     |-> MemberOf(past[when[1]], "imagename"),
                sdk       |-> MemberOf(past[when[2]], "SDK_VERSION"),
                mediarite |-> MemberOf(past[when[3]], "MEDIARITE"),
                yocto     |-> MemberOf(past[when[4]], "YOCTO_VERSION"),
                pdri      |-> MemberOf(past[when[5]], "mfrPdri")]

(* DeviceType succeeds with a device type in the answer, however the two   *)
(* files change under it, as long as authService.conf never names a type   *)
(* that the lookup does not know: with one, the answer is left unwritten.  *)
DeviceTypeIsAnswered ==
  query = "DeviceType" /\ Succeeded /\ "other" \notin Seen("deviceType") =>
    out["value"][2] \in StringToDeviceType
=============================================================================
