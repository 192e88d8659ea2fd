--------------------------- MODULE DeviceListings ---------------------------
(***************************************************************************)
(* The getters that report what another party lists: the audio and video   *)
(* capabilities and ports that Device Settings knows, and the kernel's     *)
(* network adapters (DeviceAudioCapabilities.cpp,                          *)
(* DeviceVideoCapabilities.cpp, and the end of                             *)
(* DeviceInfoImplementation.cpp). Each resolves a port, asks it, and walks *)
(* over the answer item by item; any call into Device Settings may throw,  *)
(* and what it knows changes between two calls. A local list collects the  *)
(* items, and the caller gets it only if nothing was thrown.               *)
(*                                                                         *)
(* The getters keep nothing, so one call at a time is enough.              *)
(***************************************************************************)
EXTENDS Naturals, Sequences, FiniteSets

CONSTANTS
  Getters,       \* the getters called, a subset of Getter
  Ports,         \* names of ports
  AudioMasks, MS12Masks,  \* what a port may say of its audio and MS12 capabilities
  Profiles, Resolutions,  \* names of MS12 profiles and of resolutions
  EDIDSizes,     \* lengths of an EDID
  MaxLength,     \* bound: profiles or resolutions of a port
  MaxListed,     \* bound: ports that Device Settings lists
  MaxAdapters, MaxAddresses,  \* bounds: adapters, IPv4 addresses of one
  MaxChanges     \* bound: how often Device Settings changes during one call

PortGetters == {"AudioCapabilities", "MS12Capabilities", "SupportedMS12AudioProfiles",
                "DefaultResolution", "SupportedResolutions", "SupportedHdcp"}
PortLists == {"SupportedAudioPorts", "SupportedVideoDisplays"}
Getter == PortGetters \cup PortLists \cup {"HostEDID", "Addresses"}

(* The bits of a mask; "unknown" stands for those the code does not test.  *)
AudioBits == {"ATMOS", "DD", "DDPLUS", "DAD", "DAPv2", "MS12", "unknown"}
MS12Bits  == {"DolbyVolume", "InteligentEqualizer", "DialogueEnhancer", "unknown"}

ASSUME GettersAssumption == Getters \subseteq Getter
ASSUME MasksAssumption   == AudioMasks \subseteq SUBSET AudioBits /\ MS12Masks \subseteq SUBSET MS12Bits
ASSUME SizesAssumption   == EDIDSizes \subseteq Nat
ASSUME LengthAssumption  == {MaxLength, MaxListed, MaxAdapters, MaxAddresses} \subseteq Nat
ASSUME ChangesAssumption == MaxChanges \in Nat
ASSUME PortsAssumption   == "" \notin Ports

-----------------------------------------------------------------------------
(* What the other parties may answer.                                      *)

Lists(S, max) == UNION {[1 .. n -> S] : n \in 0 .. max}

(* The adapters, each with its IPv4 addresses in order: a list of pairs    *)
(* <<a, k>>, the k-th address of adapter a.                                *)
Adapters ==
  UNION {{[a \in 1 .. n |-> [name |-> a, ips |-> [k \in 1 .. count[a] |-> <<a, k>>]]]
          : count \in [1 .. n -> 0 .. MaxAddresses]} : n \in 0 .. MaxAdapters}

(* What a port has, as far as getter g asks.                               *)
Settings(g) ==
  CASE g = "AudioCapabilities" -> AudioMasks
    [] g = "MS12Capabilities"  -> MS12Masks
    [] g = "SupportedMS12AudioProfiles" -> Lists(Profiles, MaxLength)
    [] g = "DefaultResolution" -> Resolutions
    [] g = "SupportedResolutions" -> Lists(Resolutions, MaxLength)
    [] g = "SupportedHdcp"     -> {"dsHDCP_VERSION_1X", "dsHDCP_VERSION_2X", "dsHDCP_VERSION_MAX"}
    [] OTHER                   -> {"none"}

(* What is listed of the device as a whole.                                *)
Listings(g) ==
  CASE g \in PortLists  -> Lists(Ports, MaxListed)
    [] g = "HostEDID"   -> EDIDSizes
    [] g = "Addresses"  -> Adapters
    [] OTHER            -> {0}

VARIABLES
  default,   \* name of the default port
  present,   \* the ports there are
  has,       \* per port: what it answers
  listing,   \* ports, EDID size or adapters
  changes,   \* how often these changed during the call
  getter, argument,  \* the call: its function, and the port name passed in
  at,        \* the call it makes next, or the result returned
  result,    \* local result
  port,      \* local strAudioPort, strVideoPort
  rest,      \* what is left of the list it walks over
  list,      \* local list
  nodeName,  \* local of Addresses
  written,   \* the caller's iterator or value has been set ...
  answer,    \* ... to this
  success,   \* the caller's success flag
  defaults, there, missing, had,  \* history since the call: the default ports, those
             \* that were present and that were not, and what each had while present
  thrown     \* history: Device Settings failed to answer

world   == <<default, present, has, listing>>
locals  == <<result, port, rest, list, nodeName>>
output  == <<written, answer, success>>
seen    == <<defaults, there, missing, had>>
vars == <<world, changes, getter, argument, at, locals, output, seen, thrown>>

Results == {"ERROR_NONE", "ERROR_GENERAL"}
Calls   == {"default", "port", "ask", "list", "item"}

Init ==
  /\ default = "" /\ present = {} /\ has = [p \in Ports |-> "none"] /\ listing = 0
  /\ changes = 0 /\ getter = "none" /\ argument = "" /\ at = "idle"
  /\ result = "ERROR_NONE" /\ port = "" /\ rest = <<>> /\ list = <<>> /\ nodeName = <<>>
  /\ written = FALSE /\ answer = <<>> /\ success = FALSE
  /\ defaults = {} /\ there = {} /\ missing = {} /\ had = [p \in Ports |-> {}]
  /\ thrown = FALSE

-----------------------------------------------------------------------------
(* The steps of a getter.                                                  *)

Takes(step, next) ==
  /\ at = step /\ at' = next
  /\ UNCHANGED <<world, changes, getter, argument, seen, thrown>>

(* The caller's variable is assigned.                                      *)
Answers(value) == written' = TRUE /\ answer' = value

(* audioPort.empty() ? getDefault...PortName() : audioPort                 *)
DefaultPort ==
  /\ Takes("default", "port")
  /\ port' = default
  /\ UNCHANGED <<result, rest, list, nodeName, output>>

(* Mutant: any name will do.                                               *)
AnyName(name) == TRUE

Known(name) == name \in present

(* get...OutputPort(name), which throws if there is none of that name.     *)
Port ==
  /\ Known(port)
  /\ Takes("port", "ask")
  /\ UNCHANGED <<locals, output>>

(* The if statements that turn a mask into a list, in the order of the     *)
(* code: a token if no bit is set, a token per bit.                        *)
IfNone(mask, token) == IF mask = {} THEN <<token>> ELSE <<>>
If(bit, mask)       == IF bit \in mask THEN <<bit>> ELSE <<>>

AudioList(mask) ==
  IfNone(mask, "AUDIOCAPABILITY_NONE") \o If("ATMOS", mask) \o If("DD", mask)
    \o If("DDPLUS", mask) \o If("DAD", mask) \o If("DAPv2", mask) \o If("MS12", mask)

(* Mutant: the token of the other interface is left from copying.          *)
MS12ListCopied(mask) ==
  IfNone(mask, "AUDIOCAPABILITY_NONE") \o If("DolbyVolume", mask)
    \o If("InteligentEqualizer", mask) \o If("DialogueEnhancer", mask)

MS12List(mask) ==
  IfNone(mask, "MS12CAPABILITY_NONE") \o If("DolbyVolume", mask)
    \o If("InteligentEqualizer", mask) \o If("DialogueEnhancer", mask)

AudioCapabilities ==
  /\ getter = "AudioCapabilities"
  /\ Takes("ask", "finish")
  /\ list' = AudioList(has[port])
  /\ UNCHANGED <<result, port, rest, nodeName, output>>

MS12Capabilities ==
  /\ getter = "MS12Capabilities"
  /\ Takes("ask", "finish")
  /\ list' = MS12List(has[port])
  /\ UNCHANGED <<result, port, rest, nodeName, output>>

(* Getter g walks over items, one turn of its loop after the other.        *)
Walk(g, step, items) ==
  /\ getter = g
  /\ Takes(step, "item")
  /\ rest' = items
  /\ UNCHANGED <<result, port, list, nodeName, output>>

SupportedMS12AudioProfiles == Walk("SupportedMS12AudioProfiles", "ask", has[port])
SupportedResolutions       == Walk("SupportedResolutions", "ask", has[port])
SupportedAudioPorts        == Walk("SupportedAudioPorts", "list", listing)
SupportedVideoDisplays     == Walk("SupportedVideoDisplays", "list", listing)
Addresses                  == Walk("Addresses", "list", listing)

(* The one getter whose answer is written inside the try block.            *)
DefaultResolution ==
  /\ getter = "DefaultResolution"
  /\ Takes("ask", "finish")
  /\ Answers(has[port])
  /\ UNCHANGED <<locals, success>>

SupportedHdcp ==
  /\ getter = "SupportedHdcp"
  /\ Takes("ask", "finish")
  /\ \/ /\ has[port] = "dsHDCP_VERSION_2X"
        /\ Answers("HDCP_22") /\ UNCHANGED result
     \/ /\ has[port] = "dsHDCP_VERSION_1X"
        /\ Answers("HDCP_14") /\ UNCHANGED result
     \/ /\ has[port] = "dsHDCP_VERSION_MAX"
        /\ result' = "ERROR_GENERAL" /\ UNCHANGED <<written, answer>>
  /\ UNCHANGED <<port, rest, list, nodeName, success>>

Items(s) == {s[i] : i \in DOMAIN s}

(* A name is appended.                                                     *)
Item ==
  /\ rest # <<>> /\ getter \notin {"SupportedVideoDisplays", "Addresses"}
  /\ Takes("item", "item")
  /\ rest' = Tail(rest)
  /\ list' = Append(list, Head(rest))
  /\ UNCHANGED <<result, port, nodeName, output>>

(* Mutant: only a name that comes twice in a row is left out.              *)
ListedLast(name) == list # <<>> /\ name = list[Len(list)]

Listed(name) == name \in Items(list)

(* A video display is appended unless its name is in the list already.     *)
Display ==
  /\ rest # <<>> /\ getter = "SupportedVideoDisplays"
  /\ Takes("item", "item")
  /\ rest' = Tail(rest)
  /\ list' = IF Listed(Head(rest)) THEN list ELSE Append(list, Head(rest))
  /\ UNCHANGED <<result, port, nodeName, output>>

(* Mutant: the walk over the addresses stops at the first.                 *)
FirstAddress(ips) == IF ips = <<>> THEN nodeName ELSE ips[1]

(* The addresses of an adapter are walked over, each replacing the one     *)
(* before; with none, nodeName stays what the adapter before left in it.   *)
LastAddress(ips) == IF ips = <<>> THEN nodeName ELSE ips[Len(ips)]

Adapter ==
  /\ rest # <<>> /\ getter = "Addresses"
  /\ Takes("item", "item")
  /\ rest' = Tail(rest)
  /\ nodeName' = LastAddress(Head(rest).ips)
  /\ list' = Append(list, [name |-> Head(rest).name, ip |-> nodeName'])
  /\ UNCHANGED <<result, port, output>>

LoopEnds ==
  /\ rest = <<>>
  /\ Takes("item", "finish")
  /\ UNCHANGED <<locals, output>>

(* Mutants: the limit excludes the largest size of 16 bits; there is none. *)
TooStrict(size) == size >= 65535
Unlimited(size) == FALSE

TooLong(size) == size > 65535

(* The EDID is encoded by a function that takes its length in 16 bits.     *)
HostEDID ==
  /\ getter = "HostEDID"
  /\ Takes("list", "finish")
  /\ IF TooLong(listing)
       THEN result' = "ERROR_GENERAL" /\ UNCHANGED <<written, answer>>
       ELSE Answers(listing % 65536) /\ UNCHANGED result
  /\ UNCHANGED <<port, rest, list, nodeName, success>>

(* Device Settings throws, wherever it is called; no such port is one      *)
(* reason. Addresses does not call it.                                     *)
Throw ==
  /\ at \in Calls
  /\ getter # "Addresses" /\ (at = "item" => rest # <<>>)
  /\ at' = "finish"
  /\ result' = "ERROR_GENERAL"
  /\ thrown' = (at # "port" \/ port \in present)
  /\ UNCHANGED <<world, changes, getter, argument, port, rest, list, nodeName, output, seen>>

ByList == Getter \ {"HostEDID", "DefaultResolution", "SupportedHdcp"}

(* Mutant: the list is handed out whatever happened.                       *)
AlwaysHandedOut == getter \in ByList

HandedOut == getter \in ByList /\ result = "ERROR_NONE"

(* The local list becomes the caller's iterator if nothing went wrong, and *)
(* the flag is set; nothing else is written.                               *)
Finish ==
  /\ at = "finish" /\ at' = result
  /\ IF HandedOut THEN Answers(list) /\ success' = (getter # "Addresses")
                  ELSE UNCHANGED output
  /\ UNCHANGED <<world, changes, getter, argument, locals, seen, thrown>>

-----------------------------------------------------------------------------
(* The environment.                                                        *)

FirstCall(g, a) == IF g \notin PortGetters THEN "list" ELSE IF a = "" THEN "default" ELSE "port"

(* The history is kept up to date.                                         *)
Observe ==
  /\ defaults' = defaults \cup {default'}
  /\ there' = there \cup present'
  /\ missing' = missing \cup (Ports \ present')
  /\ had' = [p \in Ports |-> IF p \in present' THEN had[p] \cup {has'[p]} ELSE had[p]]

(* A caller calls, whatever there is by then; the flag it passes in may    *)
(* hold anything, FALSE here so that setting it shows.                     *)
Call(g, a) ==
  /\ at = "idle" /\ (g \in PortGetters \/ a = "")
  /\ getter' = g /\ argument' = a /\ port' = a
  /\ at' = FirstCall(g, a)
  /\ default' \in IF g \in PortGetters THEN Ports ELSE {""}
  /\ present' \in IF g \in PortGetters THEN SUBSET Ports ELSE {{}}
  /\ has' \in [Ports -> Settings(g)]
  /\ listing' \in Listings(g)
  /\ Observe
  /\ UNCHANGED <<changes, result, rest, list, nodeName, output, thrown>>

(* Device Settings changes between two calls of a getter: another default  *)
(* port, a port that goes, one that comes or answers differently. A getter *)
(* that has found its port may ask it when it is gone.                     *)
Change ==
  /\ at \in {"default", "port", "ask"} /\ changes < MaxChanges
  /\ changes' = changes + 1
  /\ \/ /\ default' \in Ports /\ UNCHANGED <<present, has>>
     \/ \E p \in present : present' = present \ {p} /\ UNCHANGED <<default, has>>
     \/ \E p \in Ports, s \in Settings(getter) :
          /\ present' = present \cup {p}
          /\ has' = [has EXCEPT ![p] = s]
          /\ UNCHANGED default
  /\ Observe
  /\ UNCHANGED <<listing, getter, argument, at, locals, output, thrown>>

(* The caller takes the answer; nothing of the call is left.               *)
Return ==
  /\ at \in Results
  /\ default' = "" /\ present' = {} /\ has' = [p \in Ports |-> "none"] /\ listing' = 0
  /\ changes' = 0 /\ getter' = "none" /\ argument' = "" /\ at' = "idle"
  /\ result' = "ERROR_NONE" /\ port' = "" /\ rest' = <<>> /\ list' = <<>> /\ nodeName' = <<>>
  /\ written' = FALSE /\ answer' = <<>> /\ success' = FALSE
  /\ defaults' = {} /\ there' = {} /\ missing' = {} /\ had' = [p \in Ports |-> {}]
  /\ thrown' = FALSE

Next ==
  \/ DefaultPort \/ Port
  \/ AudioCapabilities \/ MS12Capabilities \/ SupportedMS12AudioProfiles
  \/ DefaultResolution \/ SupportedResolutions \/ SupportedHdcp
  \/ SupportedAudioPorts \/ SupportedVideoDisplays \/ HostEDID \/ Addresses
  \/ Item \/ Display \/ Adapter \/ LoopEnds
  \/ Throw \/ Finish
  \/ \E g \in Getters, a \in Ports \cup {""} : Call(g, a)
  \/ Change \/ Return

Spec == Init /\ [][Next]_vars

-----------------------------------------------------------------------------
(* Properties.                                                             *)

Members ==
  CASE getter = "AudioCapabilities" ->
         {"AUDIOCAPABILITY_NONE", "ATMOS", "DD", "DDPLUS", "DAD", "DAPv2", "MS12"}
    [] getter = "MS12Capabilities" ->
         {"MS12CAPABILITY_NONE", "DolbyVolume", "InteligentEqualizer", "DialogueEnhancer"}
    [] getter = "SupportedMS12AudioProfiles" -> Profiles
    [] getter = "SupportedResolutions" -> Resolutions
    [] getter = "Addresses" ->
         [name : 1 .. MaxAdapters, ip : {<<>>} \cup ((1 .. MaxAdapters) \X (1 .. MaxAddresses))]
    [] OTHER -> Ports

(* The calls that getter g makes.                                          *)
CallsOf(g) ==
  (IF g \in PortGetters THEN {"default", "port", "ask"} ELSE {"list"})
    \cup (IF g \in ByList \ {"AudioCapabilities", "MS12Capabilities"} THEN {"item"} ELSE {})

(* The type invariant: a getter is at a call of its own, asks for the      *)
(* default port only when none was named, and fills its list with members  *)
(* of its own interface; results and local variables are what they can be. *)
TypeOK ==
  /\ getter \in Getters \cup {"none"}
  /\ at \in IF getter = "none" THEN {"idle"} ELSE CallsOf(getter) \cup {"finish"} \cup Results
  /\ at = "default" => argument = ""
  /\ result \in Results /\ thrown \in BOOLEAN
  /\ port \in Ports \cup {""} /\ (at = "ask" => port # "")
  /\ written \in BOOLEAN /\ success \in BOOLEAN
  /\ Items(list) \subseteq Members
  /\ nodeName # <<>> => getter = "Addresses"

Succeeded == at = "ERROR_NONE"
Failed    == at = "ERROR_GENERAL"

(* A call answers in full or not at all: with ERROR_NONE the caller's      *)
(* variable is set, and its flag where there is one; with an error, at     *)
(* whichever call or item it happened, both are as they were.              *)
AllOrNothing ==
  at \in Results => /\ written <=> Succeeded
                    /\ success <=> Succeeded /\ getter \in ByList \ {"Addresses"}

(* What a getter should report of a port that has s.                       *)
Reports(s) ==
  CASE getter = "AudioCapabilities" ->
         Items(answer) = IF s = {} THEN {"AUDIOCAPABILITY_NONE"} ELSE s \ {"unknown"}
    [] getter = "MS12Capabilities" ->
         Items(answer) = IF s = {} THEN {"MS12CAPABILITY_NONE"} ELSE s \ {"unknown"}
    [] getter = "SupportedHdcp" ->
         <<s, answer>> \in {<<"dsHDCP_VERSION_1X", "HDCP_14">>, <<"dsHDCP_VERSION_2X", "HDCP_22">>}
    [] OTHER -> answer = s

(* The ports the call was about: the one named, or those that were the     *)
(* default at some moment of it.                                           *)
Meant == IF argument = "" THEN defaults ELSE {argument}

(* However ports and settings change between the calls of a getter, its    *)
(* answer is that of one port the caller meant, which had all of it at one *)
(* moment of the call at which it was there (the look-ups by name and the  *)
(* lists built from them).                                                 *)
AnswerOfOnePort ==
  Succeeded /\ getter \in PortGetters =>
    \E p \in Meant : \E s \in had[p] : Reports(s)

(* A call fails only if Device Settings did, the port meant was missing    *)
(* for a while, its HDCP version is not known, or the EDID is longer than  *)
(* 16 bits can tell.                                                       *)
FailureHasCause ==
  Failed =>
    \/ thrown
    \/ getter \in PortGetters /\ Meant \cap missing # {}
    \/ getter = "SupportedHdcp" /\ \E p \in Meant : "dsHDCP_VERSION_MAX" \in had[p]
    \/ getter = "HostEDID" /\ listing > 65535

(* The EDID is encoded over its whole length.                              *)
EDIDIsWhole == Succeeded /\ getter = "HostEDID" => answer = listing

(* Every port is reported, and a display that Device Settings lists once   *)
(* per audio port is reported once, in the order of its first mention.     *)
PortsAreListed ==
  Succeeded /\ getter \in PortLists =>
    /\ Items(answer) = Items(listing)
    /\ getter = "SupportedAudioPorts" => answer = listing
    /\ getter = "SupportedVideoDisplays" =>
         \A i, j \in DOMAIN answer : i < j =>
           \E m \in DOMAIN listing :
             /\ listing[m] = answer[i]
             /\ \A n \in 1 .. m : listing[n] # answer[j]

(* Addresses reports every adapter, in order, with its own last address if *)
(* it has one.                                                             *)
AdaptersAreListed ==
  at \in Results /\ getter = "Addresses" =>
    /\ Succeeded /\ Len(answer) = Len(listing)
    /\ \A i \in DOMAIN listing :
         /\ answer[i].name = listing[i].name
         /\ listing[i].ips # <<>> => answer[i].ip = listing[i].ips[Len(listing[i].ips)]

(* PRODUCT.md promises addressing information for all interfaces: that is, *)
(* no adapter is reported with an address that belongs to another.         *)
AddressesAreOwn ==
  Succeeded /\ getter = "Addresses" =>
    \A i \in DOMAIN answer : answer[i].ip = <<>> \/ answer[i].ip[1] = answer[i].name
=============================================================================
