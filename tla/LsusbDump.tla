------------------------------ MODULE LsusbDump -----------------------------
(***************************************************************************)
(* lsusb -v: dumpdev(), the dump of one device.  It opens the device,      *)
(* looks for an OTG descriptor in its first configuration, reads and dumps *)
(* every configuration - the extra descriptors of the configuration, of    *)
(* each setting of each interface and of each endpoint, in that order -    *)
(* and, if the device could be opened, asks it for its BOS, hub, qualifier *)
(* and debug descriptors and its status.                                   *)
(*                                                                         *)
(* Every call of libusb may fail.  A configuration is the sequence of the  *)
(* walks its dump consists of, each over the extra bytes of one place;     *)
(* what a device answers is chosen when it is asked.  One step is one call *)
(* of libusb or the dump of one descriptor.                                *)
(***************************************************************************)
EXTENDS ClassDump

CONSTANTS
  Devices,          \* the devices dumpdev() may be called with
  NoDevice,         \* none
  Descriptor,       \* their bcdUSB, bDeviceClass and bDeviceProtocol
  Configs,          \* the walks each of their configurations may consist of
  BosHeaders,       \* what a device may answer to the first read of its BOS
  BosAnswers,       \* and what it may have of the capabilities it announced
  Reports(_),       \* the contents of that many bytes of a report descriptor
  HubPorts,         \* the numbers of ports a hub descriptor may name
  MaxReport,        \* sizeof(dbuf): the longest report descriptor fetched
  MaxTries          \* retries: how often a report descriptor is asked for

ASSUME BoundsAssumption ==
  /\ NoDevice \notin Devices
  /\ MaxReport \in Nat /\ MaxTries \in Nat \ {0} /\ HubPorts \subseteq UINT8

\* The places of a configuration with extra bytes, and what a walk knows of
\* them.
Places ==
  [of : {"config", "interface", "endpoint"},
   alt : [class : UINT8, subclass : UINT8, protocol : UINT8],
   attributes : UINT8,
   extra : Seq(UINT8)]

ASSUME AnswersAssumption ==
  /\ Descriptor \in [Devices -> [bcdUSB : UINT16, class : UINT8,
                                  protocol : UINT8]]
  /\ Configs \in [Devices -> Seq(SUBSET Seq(Places))]
  /\ BosHeaders \subseteq [ret : Int, bLength : UINT8, type : UINT8,
                           total : UINT16]
  /\ BosAnswers \subseteq Seq(UINT8)
  /\ \A n \in 1 .. MaxReport : Reports(n) \subseteq [1 .. n -> UINT8]

VARIABLES
  pc,       \* where dumpdev() is
  dev,      \* the device
  udev,     \* the handle: open or not
  otg,      \* an OTG descriptor was found and shown
  has_ssp,  \* the BOS lists a SuperSpeedPlus capability
  index,    \* the configuration at hand
  config,   \* the walks of configuration 0 as do_otg() saw them
  held,     \* a configuration descriptor or the BOS is to be freed
  walks,    \* the walks left of a dump, the first one's bytes as left
  last,     \* the descriptor just dumped, and the bytes there were
  reports,  \* the lengths of the report descriptors left to fetch
  claimed,  \* the HID interface is claimed
  retries,  \* the tries left for a report descriptor
  answer,   \* the bytes the last try returned, negative for an error
  ports     \* the ports of a hub left to ask

vars == <<pc, dev, udev, otg, has_ssp, index, config, held, walks, last,
          reports, claimed, retries, answer, ports>>

device == <<dev, udev>>
found == <<otg, has_ssp>>
configuration == <<index, config, held>>
report == <<reports, claimed, retries, answer>>

NoAlt == [class |-> 0, subclass |-> 0, protocol |-> 0]
NoDump ==
  [of |-> "none", alt |-> NoAlt, attributes |-> 0, avail |-> 0, buf |-> <<>>]
NoConfig == <<>>

Locations ==
  {"idle", "open", "otg", "config", "walk", "report", "fetch", "bos",
   "bos_rest", "caps", "hub", "ports", "dualspeed", "debug", "status", "close"}

Init ==
  /\ pc = "idle" /\ dev = NoDevice /\ udev = FALSE
  /\ otg = FALSE /\ has_ssp = FALSE
  /\ index = 0 /\ config = NoConfig /\ held = FALSE
  /\ walks = <<>> /\ last = NoDump
  /\ reports = <<>> /\ claimed = FALSE /\ retries = 0 /\ answer = 0
  /\ ports = 0

-----------------------------------------------------------------------------
(* Opening the device, looking for an OTG descriptor                       *)

\* dumpdev(dev) is called.
Call(d) ==
  /\ pc = "idle"
  /\ pc' = "open" /\ dev' = d
  /\ UNCHANGED <<udev, found, configuration, walks, last, report, ports>>

AfterConfigs(open, d) ==
  IF ~ open THEN "idle"
  ELSE IF Descriptor[d].bcdUSB >= 513 THEN "bos" ELSE "hub"

\* A device that cannot be opened is dumped as far as possible.
Open ==
  /\ pc = "open"
  /\ \E opened \in BOOLEAN :
       /\ udev' = opened
       /\ pc' = IF Len(Configs[dev]) > 0 THEN "otg"
                ELSE AfterConfigs(opened, dev)
  /\ dev' = IF pc' = "idle" THEN NoDevice ELSE dev
  /\ UNCHANGED <<found, configuration, walks, last, report, ports>>

\* find_otg(): an OTG descriptor of three bytes, wherever the length bytes
\* lead before they make no sense.
Bug_find_otg(buf) == Len(buf) >= 3 /\ buf[1] = 3 /\ buf[2] = OTG

find_otg(buf) ==
  LET at[i \in 0 .. Len(buf)] ==
        /\ Len(buf) - i >= 3
        /\ \/ buf[i + 1] = 3 /\ buf[i + 2] = OTG
           \/ /\ 2 <= buf[i + 1] /\ buf[i + 1] <= Len(buf) - i
              /\ at[i + buf[i + 1]]
  IN  at[0]

do_otg(c) == \E i \in DOMAIN c : find_otg(c[i].extra)

\* Configuration 0 is read for do_otg() and freed; without it there is none.
ReadForOtg ==
  /\ pc = "otg"
  /\ pc' = "config"
  /\ \/ UNCHANGED <<otg, config>>
     \/ \E c \in Configs[dev][1] : config' = c /\ otg' = do_otg(c)
  /\ UNCHANGED <<device, has_ssp, index, held, walks, last, report, ports>>

-----------------------------------------------------------------------------
(* Configurations and their extra descriptors                              *)

\* A configuration that cannot be read is skipped.  Configuration 0 is what
\* do_otg() saw, if it could be read then.
ReadConfig ==
  /\ pc = "config" /\ index < Len(Configs[dev])
  /\ \/ \E c \in IF index = 0 /\ config # NoConfig THEN {config}
                 ELSE Configs[dev][index + 1] :
          /\ pc' = "walk" /\ held' = TRUE /\ walks' = c
          /\ UNCHANGED <<index, config>>
     \/ /\ index' = index + 1 /\ config' = NoConfig
        /\ UNCHANGED <<pc, held, walks>>
  /\ UNCHANGED <<device, found, last, report, ports>>

ConfigsDone ==
  /\ pc = "config" /\ index = Len(Configs[dev])
  /\ pc' = AfterConfigs(udev, dev)
  /\ index' = 0
  /\ dev' = IF pc' = "idle" THEN NoDevice ELSE dev
  /\ otg' = (otg /\ pc' # "idle")
  /\ UNCHANGED <<udev, has_ssp, config, held, walks, last, report, ports>>

\* The header a walk needs to go on: a length and a type, and for the
\* capabilities of the BOS a subtype.
Header(w) == IF w.of = "bos" THEN 3 ELSE 2

Left == Head(walks).extra
bLength == Left[1]

More == Len(Left) >= Header(Head(walks))

Bug_BadLength_High(w, left) == left[1] < Header(w)

BadLength(w, left) == left[1] < Header(w) \/ left[1] > Len(left)

\* The bytes the length byte claims; what lies beyond the end is unknown.
ClaimedBytes(left) ==
  [i \in 1 .. left[1] |-> IF i <= Len(left) THEN left[i] ELSE 0]

\* dump_hid_device(): the lengths of the report descriptors a HID descriptor
\* lists, of the entries that lie within it.
ReportLengths(buf) ==
  LET listed[i \in 0 .. Byte(buf, 5)] ==
        IF i = 0 THEN <<>>
        ELSE IF 6 + 3 * i <= Len(buf) /\ Byte(buf, 3 + 3 * i) = REPORT
             THEN Append(listed[i - 1], Word(buf, 4 + 3 * i))
             ELSE listed[i - 1]
  IN  IF Len(buf) < 6 THEN <<>> ELSE listed[Byte(buf, 5)]

Walking == pc \in {"walk", "caps"} /\ walks # <<>>

\* One descriptor is dumped.  The report descriptors of a HID interface are
\* fetched before the walk goes on, unless the device is not open.
WalkDump ==
  /\ Walking /\ More /\ ~ BadLength(Head(walks), Left)
  /\ LET w   == Head(walks)
         buf == ClaimedBytes(Left)
     IN  /\ last' = [of |-> w.of, alt |-> w.alt, attributes |-> w.attributes,
                     avail |-> Len(Left), buf |-> buf]
         /\ walks' = [walks EXCEPT ![1].extra =
                        SubSeq(Left, bLength + 1, Len(Left))]
         /\ has_ssp' = \/ has_ssp
                       \/ w.of = "bos" /\ Byte(buf, 2) = SUPERSPEEDPLUS
         /\ reports' = IF udev /\ w.of = "interface" /\ w.alt.class = HID
                       THEN ReportLengths(buf) ELSE <<>>
         /\ pc' = IF reports' # <<>> THEN "report" ELSE pc
  /\ UNCHANGED <<device, otg, configuration, claimed, retries, answer, ports>>

\* A walk ends where no header is left, or with a complaint about a length.
WalkDone ==
  /\ Walking /\ (More => BadLength(Head(walks), Left))
  /\ walks' = Tail(walks)
  /\ last' = NoDump
  /\ UNCHANGED <<pc, device, found, configuration, report, ports>>

ConfigDumped ==
  /\ pc = "walk" /\ walks = <<>>
  /\ pc' = "config" /\ index' = index + 1
  /\ config' = NoConfig /\ held' = FALSE
  /\ UNCHANGED <<device, found, walks, last, report, ports>>

-----------------------------------------------------------------------------
(* dump_hid_device(): the report descriptors of a HID interface            *)

\* One that is too long, or whose interface cannot be claimed, is left out.
SkipReport ==
  /\ pc = "report" /\ reports # <<>>
  /\ reports' = Tail(reports) /\ last' = NoDump
  /\ UNCHANGED <<pc, device, found, configuration, walks, claimed, retries,
                 answer, ports>>

ClaimInterface ==
  /\ pc = "report" /\ reports # <<>> /\ Head(reports) <= MaxReport
  /\ pc' = "fetch" /\ claimed' = TRUE /\ retries' = MaxTries /\ answer' = 0
  /\ last' = NoDump
  /\ UNCHANGED <<device, found, configuration, walks, reports, ports>>

Bug_Incomplete == answer < Head(reports)
Incomplete == answer < Head(reports) /\ retries > 0

Bug_Fetch ==
  /\ pc = "fetch" /\ Incomplete
  /\ \E n \in {-1, 0, Head(reports) - 1, Head(reports)} : answer' = n
  /\ UNCHANGED <<pc, device, found, configuration, walks, last, reports,
                 claimed, retries, ports>>

\* The device may answer with less than it is asked for, or not at all.
Fetch ==
  /\ pc = "fetch" /\ Incomplete
  /\ retries' = retries - 1
  /\ \E n \in {-1, 0, Head(reports) - 1, Head(reports)} : answer' = n
  /\ UNCHANGED <<pc, device, found, configuration, walks, last, reports,
                 claimed, ports>>

\* dump_report_desc(): an item has 0, 1, 2 or 4 bytes after its first; one
\* that does not fit ends the dump.
Bug_dump_report_desc(b) ==
  LET size(i) == IF b[i + 1] % 4 = 3 THEN 4 ELSE b[i + 1] % 4
      from[i \in 0 .. Len(b) + 4] ==
        IF i >= Len(b) THEN Dumped("REPORT", "fields", i, Len(b))
        ELSE from[i + 1 + size(i)]
  IN  from[0]

dump_report_desc(b) ==
  LET size(i) == IF b[i + 1] % 4 = 3 THEN 4 ELSE b[i + 1] % 4
      from[i \in 0 .. Len(b)] ==
        IF i = Len(b) THEN Dumped("REPORT", "fields", i, Len(b))
        ELSE IF i + 1 + size(i) > Len(b)
             THEN Dumped("REPORT", "short", i + 1, Len(b))
             ELSE from[i + 1 + size(i)]
  IN  from[0]

Bug_FetchDone ==
  /\ pc = "fetch" /\ ~ Incomplete
  /\ IF answer > 0
     THEN \E b \in Reports(answer) :
            last' = [NoDump EXCEPT !.of = "report", !.avail = answer,
                                   !.buf = b]
     ELSE last' = NoDump
  /\ pc' = "report" /\ claimed' = (answer <= 0) /\ reports' = Tail(reports)
  /\ retries' = 0 /\ answer' = 0
  /\ UNCHANGED <<device, found, configuration, walks, ports>>

\* What the last try returned is dumped, and the interface released.
FetchDone ==
  /\ pc = "fetch" /\ ~ Incomplete
  /\ IF answer > 0
     THEN \E b \in Reports(answer) :
            last' = [NoDump EXCEPT !.of = "report", !.avail = answer,
                                   !.buf = b]
     ELSE last' = NoDump
  /\ pc' = "report" /\ claimed' = FALSE /\ reports' = Tail(reports)
  /\ retries' = 0 /\ answer' = 0
  /\ UNCHANGED <<device, found, configuration, walks, ports>>

ReportsDone ==
  /\ pc = "report" /\ reports = <<>>
  /\ pc' = "walk" /\ last' = NoDump
  /\ UNCHANGED <<device, found, configuration, walks, report, ports>>

-----------------------------------------------------------------------------
(* What an open device is asked for                                        *)

BOS == 15

\* dump_bos_descriptor(): the header says how much there is to read; the
\* buffer for it is zeroed.
ReadBosHeader ==
  /\ pc = "bos"
  /\ \E h \in BosHeaders :
       IF h.ret <= 0 \/ h.bLength # 5 \/ h.type # BOS \/ h.total <= 5
       THEN pc' = "hub" /\ UNCHANGED <<held, walks>>
       ELSE /\ pc' = "bos_rest" /\ held' = TRUE
            /\ walks' = <<[of |-> "bos", alt |-> NoAlt, attributes |-> 0,
                           extra |-> [i \in 1 .. h.total - 5 |-> 0]]>>
  /\ UNCHANGED <<device, found, index, config, last, report, ports>>

\* The second read may fail, or return less than was announced.
ReadBos ==
  /\ pc = "bos_rest"
  /\ \/ /\ pc' = "caps"
        /\ \E a \in BosAnswers :
             walks' = [walks EXCEPT ![1].extra =
                         [i \in DOMAIN @ |-> IF i <= Len(a) THEN a[i] ELSE 0]]
     \/ pc' = "caps" /\ walks' = <<>>
  /\ UNCHANGED <<device, found, configuration, last, report, ports>>

CapsDone ==
  /\ pc = "caps" /\ walks = <<>>
  /\ pc' = "hub" /\ held' = FALSE
  /\ UNCHANGED <<device, found, index, config, walks, last, report, ports>>

\* dump_hub(): the bitmasks of the ports follow the base descriptor, in a
\* zeroed buffer for one or two bitmasks of at most three bytes.
HubBuffer == 13
Bug_BitmaskBytes(nports) == nports \div 8 + 1
BitmaskBytes(nports) ==
  IF nports \div 8 + 1 > 3 THEN 3 ELSE nports \div 8 + 1

dump_hub(buf, tt_type) ==
  LET l == BitmaskBytes(buf[3])
  IN  Dumped("HUB", "fields", IF tt_type = 3 THEN 10 + l ELSE 7 + l + l,
             HubBuffer)

\* Only a USB 2.0 device is asked for a qualifier.
AfterHub(d) == IF Descriptor[d].bcdUSB = 512 THEN "dualspeed" ELSE "debug"

\* A hub that does not answer with at least nine bytes is not asked further.
do_hub ==
  /\ pc = "hub"
  /\ \/ /\ Descriptor[dev].class = HUB
        /\ \E n \in HubPorts :
             /\ pc' = "ports" /\ ports' = n
             /\ last' = [NoDump EXCEPT !.of = "hub", !.avail = HubBuffer,
                           !.buf = [i \in 1 .. HubBuffer |->
                                      IF i = 3 THEN n ELSE 0]]
     \/ pc' = AfterHub(dev) /\ UNCHANGED <<ports, last>>
  /\ UNCHANGED <<device, found, configuration, walks, report>>

PortStatus ==
  /\ pc = "ports" /\ ports > 0
  /\ ports' = ports - 1
  /\ last' = NoDump
  /\ UNCHANGED <<pc, device, found, configuration, walks, report>>

\* All ports were asked, or one did not answer.
PortsDone ==
  /\ pc = "ports"
  /\ pc' = AfterHub(dev) /\ ports' = 0 /\ last' = NoDump
  /\ UNCHANGED <<device, found, configuration, walks, report>>

\* The qualifier of a USB 2.0 device, the debug descriptor, the status:
\* whatever the device answers, the next one is asked for.
Ask(from, to) ==
  /\ pc = from /\ pc' = to
  /\ UNCHANGED <<device, found, configuration, walks, last, report, ports>>

do_dualspeed == Ask("dualspeed", "debug")
do_debug == Ask("debug", "status")
dump_device_status == Ask("status", "close")

Close ==
  /\ pc = "close"
  /\ pc' = "idle" /\ dev' = NoDevice /\ udev' = FALSE
  /\ otg' = FALSE /\ has_ssp' = FALSE
  /\ UNCHANGED <<configuration, walks, last, report, ports>>

-----------------------------------------------------------------------------
DumpStep ==
  \/ Open \/ ReadForOtg \/ ReadConfig \/ ConfigsDone
  \/ WalkDump \/ WalkDone \/ ConfigDumped
  \/ SkipReport \/ ClaimInterface \/ Fetch \/ FetchDone \/ ReportsDone
  \/ ReadBosHeader \/ ReadBos \/ CapsDone
  \/ do_hub \/ PortStatus \/ PortsDone
  \/ do_dualspeed \/ do_debug \/ dump_device_status \/ Close

Next == DumpStep \/ \E d \in Devices : Call(d)

\* dumpdev() is sequential and every call of libusb returns.
Spec == Init /\ [][Next]_vars /\ WF_vars(DumpStep)

-----------------------------------------------------------------------------
(* Correctness                                                             *)

\* What the dump of the last descriptor does.
Chosen(buf) ==
  CASE last.of = "config"    -> ConfigExtra(buf)
    [] last.of = "interface" -> InterfaceExtra(buf, last.alt)
    [] last.of = "endpoint"  -> EndpointExtra(buf, last.alt, last.attributes)
    [] last.of = "bos"       -> DeviceCapability(buf)
    [] last.of = "report"    -> dump_report_desc(buf)
    [] last.of = "hub"       -> dump_hub(buf, Descriptor[dev].protocol)
    [] last.of = "none"      -> Dumped("NONE", "hidden", 0, 0)

Shown == Completed(last.buf, Chosen(last.buf))

\* Every variable holds values of its type.
TypeOK ==
  /\ pc \in Locations
  /\ dev \in Devices \cup {NoDevice}
  /\ udev \in BOOLEAN /\ otg \in BOOLEAN /\ has_ssp \in BOOLEAN
  /\ index \in Nat /\ held \in BOOLEAN /\ claimed \in BOOLEAN
  /\ \A i \in DOMAIN walks : walks[i].extra \in Seq(UINT8)
  /\ last.of \in {"none", "config", "interface", "endpoint", "bos", "report",
                  "hub"}
  /\ reports \in Seq(UINT16) /\ retries \in 0 .. MaxTries
  /\ answer \in -1 .. MaxReport /\ ports \in UINT8

\* The formats of a video streaming header have no control bytes: the code
\* shows the first of them all the same.
HeaderWithoutControls(dump) ==
  \/ dump.as = "INPUT_HEADER" /\ Byte(last.buf, 12) = 0
  \/ dump.as = "OUTPUT_HEADER" /\ Byte(last.buf, 8) = 0

Within(dump) ==
  HeaderWithoutControls(dump) \/ dump.reads <= Len(last.buf)

\* No dump of a descriptor looks at a byte beyond the descriptor's own length,
\* nor beyond the bytes read: neither the checks nor the fields, entries and
\* counts the code goes by, whatever counts and sizes a device states.  Left
\* out is a video streaming header whose formats have no control bytes.
ReadsWithinDescriptor == Within(Shown) /\ Len(last.buf) <= last.avail

\* All bytes were shown as fields; the bytes dumped by a table.
Whole(dump) == dump.end = "fields" /\ dump.raw = Len(last.buf)

DescribedBytes(dump) == SubSeq(last.buf, dump.skip + 1, Len(last.buf))

AsDescribed(dump) ==
  dump.desc # desc_undefined /\ FixedPrefix(dump.desc) =>
    (Whole(dump) <=> WellFormed(DescribedBytes(dump), dump.desc))

\* A descriptor that is dumped by a table whose sizes and counts stand at
\* fixed offsets is dumped without complaint and without left-over bytes if
\* and only if its fields, at the offsets and of the lengths the descriptor
\* states, fill it.
WholeIffWellFormed == AsDescribed(Shown)

\* Every field a table refers to is found, the fields being at `at`.
CountsFound(buf, desc, at) ==
  \A i \in DOMAIN desc :
    desc[i].type_field = None =>
      \A name \in Referred(desc[i]) : \A j \in {Place(desc, name)} :
        at[j] + desc[j].size <= Len(buf) =>
          get_value_from_field(buf, desc, name)
            = ValueAt(buf, at[j], desc[j].size)

FindsCounts(buf, desc) == CountsFound(buf, desc, TrueOffsets(buf, desc, 0))

FindsCountsOf(dump) == FindsCounts(DescribedBytes(dump), dump.desc)

\* What the comment on get_value_from_field() says of it: it returns the
\* value of the given field, here of every count a table refers to, when the
\* bytes up to the field are there.
ReturnsTheFieldsValue == FindsCountsOf(Shown)

\* The items shown are all of the answer.
AnswerShown(dump) ==
  /\ dump.reads <= last.avail
  /\ dump.end = "fields" => dump.reads = last.avail

\* The dump of a report descriptor stays within what the device answered, and
\* the items it shows are all of it unless the last one is truncated.
ReportWithinAnswer == last.of = "report" => AnswerShown(Shown)

\* The walks leave out an OTG descriptor because do_otg() shows it: if one of
\* three bytes is left out of configuration 0, do_otg() has found one there,
\* provided it could read the configuration.
OtgNotLost ==
  Shown.as = "OTG" /\ Len(last.buf) = 3 /\ config # NoConfig => otg

\* The interface is claimed exactly while its report descriptor is fetched; a
\* configuration or the BOS is held exactly while it is walked; after the
\* device is done nothing is held, on whatever path it was left.
NothingHeld ==
  /\ claimed <=> pc = "fetch"
  /\ held <=> pc \in {"walk", "report", "fetch", "bos_rest", "caps"}
  /\ pc \in {"bos", "bos_rest", "caps", "hub", "ports", "dualspeed", "debug",
             "status", "close", "report", "fetch"} => udev
  /\ pc = "idle" => ~ udev /\ ~ otg /\ ~ has_ssp

\* dumpdev() returns, whatever lengths the descriptors state and however
\* often a device answers with less than it is asked for: every step uses up
\* something of which there is an end, and never more than there is of it.
\* In the order of weight: the phases of the dump, the configurations left
\* and whether the one at hand is read, the bytes and the walks left of it,
\* the report descriptors left and how far the first one is, the tries left
\* for it, the ports left of a hub.
Phase ==
  [idle |-> 0, close |-> 1, status |-> 2, debug |-> 3, dualspeed |-> 4,
   ports |-> 5, hub |-> 6, caps |-> 7, bos_rest |-> 8, bos |-> 9,
   walk |-> 10, report |-> 10, fetch |-> 10, config |-> 10, otg |-> 11,
   open |-> 12]

BytesLeft(w) ==
  LET upto[i \in 0 .. Len(w)] ==
        IF i = 0 THEN 0 ELSE upto[i - 1] + Len(w[i].extra) + 1
  IN  upto[Len(w)]

Measure ==
  <<Phase[pc],
    IF dev = NoDevice THEN 0 ELSE Len(Configs[dev]) - index,
    IF pc = "config" THEN 1 ELSE 0,
    BytesLeft(walks),
    Len(reports),
    CASE pc = "report" -> 2 [] pc = "fetch" -> 1 [] OTHER -> 0,
    retries,
    ports>>

Below(m, n) ==
  \E i \in DOMAIN n : m[i] < n[i] /\ \A j \in 1 .. i - 1 : m[j] = n[j]

EveryStepUsesSomething == [][pc # "idle" => Below(Measure', Measure)]_vars
=============================================================================
