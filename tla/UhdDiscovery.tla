---------------------------- MODULE UhdDiscovery ----------------------------
(***************************************************************************)
(* usbhid-dump: its options, and the lists run() makes of the devices and  *)
(* HID interfaces they select (dev_list.c, iface_list.c), while devices    *)
(* come and go.  What it does with the interfaces is UsbhidDump, here one  *)
(* step.                                                                   *)
(*                                                                         *)
(* Each list is made by a function that hands it over only if it is        *)
(* complete: everything a failing function has opened or allocated it must *)
(* give back itself, run() knows nothing of it.                            *)
(***************************************************************************)
EXTENDS Integers, Sequences, FiniteSets, SequencesExt, FiniteSetsExt

CONSTANTS
  Devices,     \* the devices there are
  Hotplug,     \* those that come and go
  Address,     \* bus and devnum of the devices
  Id,          \* their vendor and product
  Interfaces,  \* the interfaces of their configurations
  Words        \* the options usbhid-dump may be called with, in order

VARIABLES
  plugged,    \* the devices plugged in
  stage,      \* where the program is
  line,       \* the options it was called with
  word,       \* the options left to parse
  mask,       \* what they select
  context,    \* libusb is initialized
  usbList,    \* libusb's list of devices, while it is held
  at,         \* the place in the list
  known,      \* history: the devices of the list
  devList,    \* the list of opened devices
  opened,     \* the devices that are open
  configHeld, \* a configuration descriptor is held
  slot,       \* the interface of it, or the place in the list of interfaces
  ifaceList,  \* the list of interfaces
  live,       \* how many interfaces are allocated
  ended       \* the exit status

optionVars == <<line, word, mask>>
listVars == <<usbList, at, known>>
deviceVars == <<devList, opened>>
ifaceVars == <<configHeld, slot, ifaceList, live>>
discoveryVars == <<plugged, stage, optionVars, context, listVars, deviceVars,
                   ifaceVars, ended>>

\* UHD_BUS_NUM_ANY and its like, and UHD_IFACE_NUM_ANY.
AnyNumber == 0
AnyIface == 255

UINT8 == 0 .. 255
UINT16 == 0 .. 65535

REPORT == 34
HID == 33
HidClass == 3
MaxDescriptorSize == 4096

\* What the options and configurations look like, and that there are not
\* infinitely many devices.
SoundDiscovery ==
  /\ IsFiniteSet(Devices)
  /\ \A l \in Words : l \in Seq([opt : STRING, n : Nat, m : Nat])
  /\ \A d \in Devices : Interfaces[d] \in Seq(Range(Interfaces[d]))

NoMask ==
  [bus |-> AnyNumber, dev |-> AnyNumber, vid |-> AnyNumber, pid |-> AnyNumber,
   iface |-> AnyIface]

DiscoveryAt(point, lines) ==
  /\ stage = point /\ line \in lines /\ word = line /\ mask = NoMask
  /\ context = FALSE /\ usbList = <<>> /\ at = 1 /\ known = {}
  /\ devList = <<>> /\ opened = {}
  /\ configHeld = FALSE /\ slot = 1 /\ ifaceList = <<>> /\ live = 0
  /\ ended = 0

DiscoveryInit ==
  /\ plugged \in {S \in SUBSET Devices : Devices \ Hotplug \subseteq S}
  /\ DiscoveryAt("options", Words)

\* A device that is unplugged stays open, and can only not be used any more.
Plug(d) ==
  /\ d \in Hotplug \ plugged /\ plugged' = plugged \cup {d}
  /\ UNCHANGED <<stage, optionVars, context, listVars, deviceVars, ifaceVars,
                 ended>>
Unplug(d) ==
  /\ d \in Hotplug \cap plugged /\ plugged' = plugged \ {d}
  /\ UNCHANGED <<stage, optionVars, context, listVars, deviceVars, ifaceVars,
                 ended>>

-----------------------------------------------------------------------------
(* Options.  An option is [opt, n, m]: "a" and "m" have one number or two, *)
(* "i" one; a number that is left out is 0.                                *)

parse_address(o) == o.n \in UINT8 /\ o.m \in UINT8
parse_model(o) == o.n \in UINT16 /\ o.m \in UINT16
parse_iface_num(o) == o.n \in UINT8

Exit(status) == stage' = "exit" /\ ended' = status

\* Operands are found among the options, and refused once all are parsed.
Operands == \E k \in DOMAIN line : line[k].opt = "operand"

\* Unlike lsusb's, an option replaces both numbers of the one before it.
Option ==
  /\ stage = "options" /\ word # <<>>
  /\ LET o == Head(word)
     IN  \/ /\ o.opt \in {"h", "v"} /\ Exit(0) /\ UNCHANGED mask
         \/ /\ o.opt = "a" /\ parse_address(o)
            /\ mask' = [mask EXCEPT !.bus = o.n, !.dev = o.m]
            /\ UNCHANGED <<stage, ended>>
         \/ /\ o.opt = "m" /\ parse_model(o)
            /\ mask' = [mask EXCEPT !.vid = o.n, !.pid = o.m]
            /\ UNCHANGED <<stage, ended>>
         \/ /\ o.opt = "i" /\ parse_iface_num(o)
            /\ mask' = [mask EXCEPT !.iface = o.n]
            /\ UNCHANGED <<stage, ended>>
         \/ o.opt = "operand" /\ UNCHANGED <<mask, stage, ended>>
         \/ /\ \/ o.opt \notin {"h", "v", "a", "m", "i", "operand"}
               \/ o.opt = "a" /\ ~ parse_address(o)
               \/ o.opt = "m" /\ ~ parse_model(o)
               \/ o.opt = "i" /\ ~ parse_iface_num(o)
            /\ Exit(1) /\ UNCHANGED mask
  /\ word' = Tail(word)
  /\ UNCHANGED <<plugged, line, context, listVars, deviceVars, ifaceVars>>

\* Without operands libusb is initialized, if it can be.
libusb_init ==
  /\ stage = "options" /\ word = <<>>
  /\ \/ ~ Operands /\ stage' = "list" /\ context' = TRUE /\ UNCHANGED ended
     \/ Exit(1) /\ UNCHANGED context
  /\ UNCHANGED <<plugged, optionVars, listVars, deviceVars, ifaceVars>>

-----------------------------------------------------------------------------
(* uhd_dev_list_open()                                                     *)

\* Only lack of memory counts as a failure: another one is an empty list.
GetDeviceList ==
  /\ stage = "list"
  /\ \/ /\ stage' = "open" /\ known' = plugged
        /\ \E l \in SetToSeqs(plugged) : usbList' = l
     \/ stage' = "open" /\ UNCHANGED <<known, usbList>>
     \/ stage' = "undo_open" /\ UNCHANGED <<known, usbList>>
  /\ UNCHANGED <<plugged, optionVars, context, at, deviceVars, ifaceVars,
                 ended>>

Opening == stage = "open" /\ at <= Len(usbList)

AddressFits(d) ==
  /\ mask.bus \in {AnyNumber, Address[d].bus}
  /\ mask.dev \in {AnyNumber, Address[d].dev}
ModelAsked == mask.vid # AnyNumber \/ mask.pid # AnyNumber
ModelFits(d) ==
  /\ mask.vid \in {AnyNumber, Id[d].vendor}
  /\ mask.pid \in {AnyNumber, Id[d].product}

SkipDevice ==
  /\ Opening /\ ~ (AddressFits(usbList[at]) /\ ModelFits(usbList[at]))
  /\ at' = at + 1
  /\ UNCHANGED <<plugged, stage, optionVars, context, usbList, known,
                 deviceVars, ifaceVars, ended>>

\* uhd_dev_open(): only what is plugged in can be opened.
OpenDevice ==
  /\ Opening /\ AddressFits(usbList[at]) /\ ModelFits(usbList[at])
  /\ usbList[at] \in plugged
  /\ devList' = <<usbList[at]>> \o devList
  /\ opened' = opened \cup {usbList[at]} /\ at' = at + 1
  /\ UNCHANGED <<plugged, stage, optionVars, context, usbList, known,
                 ifaceVars, ended>>

\* The descriptor of a device cannot be read, or it cannot be opened.
DeviceFails ==
  /\ Opening /\ AddressFits(usbList[at])
  /\ ModelAsked \/ ModelFits(usbList[at])
  /\ stage' = "undo_open"
  /\ UNCHANGED <<plugged, optionVars, context, listVars, deviceVars, ifaceVars,
                 ended>>

AllOpen ==
  /\ stage = "open" /\ at > Len(usbList)
  /\ stage' = "interfaces" /\ usbList' = <<>> /\ at' = 1
  /\ UNCHANGED <<plugged, optionVars, context, known, deviceVars, ifaceVars,
                 ended>>

Bug_UndoOpen ==
  /\ stage = "undo_open"
  /\ stage' = "cleanup" /\ usbList' = <<>> /\ ended' = 1
  /\ devList' = <<>> /\ opened' = opened
  /\ UNCHANGED <<plugged, optionVars, context, at, known, ifaceVars>>

\* The devices already opened are closed and forgotten.
UndoOpen ==
  /\ stage = "undo_open"
  /\ stage' = "cleanup" /\ usbList' = <<>> /\ ended' = 1
  /\ devList' = <<>> /\ opened' = opened \ Range(devList)
  /\ UNCHANGED <<plugged, optionVars, context, at, known, ifaceVars>>

-----------------------------------------------------------------------------
(* uhd_iface_list_new().  An interface is [number, alts, class, hid,       *)
(* endpoints]: hid is what follows its descriptor, of extra_length bytes,  *)
(* endpoints says of each endpoint whether it is an interrupt one and IN.  *)

Listing == stage = "interfaces" /\ at <= Len(devList)
Current == Interfaces[devList[at]][slot]

\* A failure to read a configuration ends everything.
GetConfig ==
  /\ Listing /\ ~ configHeld
  /\ \/ configHeld' = TRUE /\ slot' = 1 /\ UNCHANGED stage
     \/ stage' = "undo_list" /\ UNCHANGED <<configHeld, slot>>
  /\ UNCHANGED <<plugged, optionVars, context, listVars, deviceVars, ifaceList,
                 live, ended>>

\* The first entry for a report descriptor within both lengths: three bytes
\* each after the first six, one at least.
rd_len(hid) ==
  LET reports == {k \in DOMAIN hid.entries :
                    /\ k <= hid.bNumDescriptors
                    /\ 6 + 3 * k <= hid.bLength
                    /\ 6 + 3 * k <= hid.extra_length
                    /\ hid.entries[k].type = REPORT}
  IN  IF hid.extra_length >= 9 /\ hid.type = HID /\ reports # {}
      THEN hid.entries[Min(reports)].length
      ELSE MaxDescriptorSize

IsHid(interface) ==
  /\ interface.alts = 1 /\ interface.class = HidClass
  /\ interface.number # AnyIface
  /\ \E k \in DOMAIN interface.endpoints :
       interface.endpoints[k].interrupt /\ interface.endpoints[k].in

Reading == Listing /\ configHeld /\ slot <= Len(Interfaces[devList[at]])

SkipInterface ==
  /\ Reading /\ ~ IsHid(Current)
  /\ slot' = slot + 1
  /\ UNCHANGED <<plugged, stage, optionVars, context, listVars, deviceVars,
                 configHeld, ifaceList, live, ended>>

\* uhd_iface_new() may find no memory.
AddInterface ==
  /\ Reading /\ IsHid(Current)
  /\ \/ /\ ifaceList' = <<[dev |-> devList[at], number |-> Current.number,
                           rd_len |-> rd_len(Current.hid)]>> \o ifaceList
        /\ live' = live + 1 /\ slot' = slot + 1 /\ UNCHANGED stage
     \/ stage' = "undo_list" /\ UNCHANGED <<ifaceList, live, slot>>
  /\ UNCHANGED <<plugged, optionVars, context, listVars, deviceVars,
                 configHeld,
                 ended>>

FreeConfig ==
  /\ Listing /\ configHeld /\ slot > Len(Interfaces[devList[at]])
  /\ configHeld' = FALSE /\ at' = at + 1
  /\ UNCHANGED <<plugged, stage, optionVars, context, usbList, known,
                 deviceVars, slot, ifaceList, live, ended>>

UndoList ==
  /\ stage = "undo_list"
  /\ stage' = "cleanup" /\ configHeld' = FALSE /\ ended' = 1
  /\ ifaceList' = <<>> /\ live' = live - Len(ifaceList)
  /\ UNCHANGED <<plugged, optionVars, context, listVars, deviceVars, slot>>

-----------------------------------------------------------------------------
(* run()                                                                   *)

AllListed ==
  /\ stage = "interfaces" /\ at > Len(devList)
  /\ stage' = "filter" /\ slot' = 1
  /\ UNCHANGED <<plugged, optionVars, context, listVars, deviceVars,
                 configHeld, ifaceList, live, ended>>

\* uhd_iface_list_fltr_by_num(), called if a number was given: what has another
\* one is unlinked and freed.
Filtering ==
  stage = "filter" /\ mask.iface # AnyIface /\ slot <= Len(ifaceList)

KeepInterface ==
  /\ Filtering /\ ifaceList[slot].number = mask.iface
  /\ slot' = slot + 1
  /\ UNCHANGED <<plugged, stage, optionVars, context, listVars, deviceVars,
                 configHeld, ifaceList, live, ended>>

DropInterface ==
  /\ Filtering /\ ifaceList[slot].number # mask.iface
  /\ ifaceList' = RemoveAt(ifaceList, slot) /\ live' = live - 1
  /\ UNCHANGED <<plugged, stage, optionVars, context, listVars, deviceVars,
                 configHeld, slot, ended>>

Filtered ==
  /\ stage = "filter" /\ ~ Filtering
  /\ IF ifaceList = <<>>
     THEN stage' = "cleanup" /\ ended' = 1
     ELSE stage' = "run" /\ UNCHANGED ended
  /\ UNCHANGED <<plugged, optionVars, context, listVars, deviceVars, ifaceVars>>

\* The interfaces are borrowed, dumped and handed back, which may fail.
Run ==
  /\ stage = "run"
  /\ stage' = "cleanup" /\ ended' \in {0, 1}
  /\ UNCHANGED <<plugged, optionVars, context, listVars, deviceVars,
                 ifaceVars>>

\* The lists run() has.
Cleanup ==
  /\ stage = "cleanup"
  /\ stage' = "exit"
  /\ ifaceList' = <<>> /\ live' = live - Len(ifaceList)
  /\ devList' = <<>> /\ opened' = opened \ Range(devList)
  /\ context' = FALSE
  /\ UNCHANGED <<plugged, optionVars, listVars, configHeld, slot, ended>>

DiscoveryStep ==
  \/ Option \/ libusb_init
  \/ GetDeviceList \/ SkipDevice \/ OpenDevice \/ DeviceFails \/ AllOpen
  \/ UndoOpen
  \/ GetConfig \/ SkipInterface \/ AddInterface \/ FreeConfig \/ UndoList
  \/ AllListed \/ KeepInterface \/ DropInterface \/ Filtered \/ Run
  \/ Cleanup

DiscoveryNext == DiscoveryStep \/ \E d \in Devices : Plug(d) \/ Unplug(d)

\* The program is sequential; Run returns if its dump does.
DiscoverySpec ==
  /\ DiscoveryInit /\ [][DiscoveryNext]_discoveryVars
  /\ WF_discoveryVars(DiscoveryStep)

-----------------------------------------------------------------------------
(* Correctness                                                             *)

\* Every variable holds values of its type.
DiscoveryTypeOK ==
  /\ stage \in {"none", "options", "list", "open", "undo_open", "interfaces",
                "undo_list", "filter", "run", "cleanup", "exit"}
  /\ mask \in [bus : UINT8, dev : UINT8, vid : UINT16, pid : UINT16,
               iface : UINT8]
  /\ at \in 1 .. Cardinality(Devices) + 1 /\ known \subseteq Devices
  /\ usbList \in Seq(Devices) /\ devList \in Seq(Devices)
  /\ opened \subseteq Devices /\ configHeld \in BOOLEAN /\ slot \in Nat
  /\ live \in Nat /\ ended \in {0, 1} /\ context \in BOOLEAN

(* What the options ask for: the last of each kind decides, 0 and 255 are  *)
(* anything.                                                               *)
LastOf(opt) ==
  LET given == {k \in DOMAIN line : line[k].opt = opt}
  IN  IF given = {} THEN [n |-> IF opt = "i" THEN 255 ELSE 0, m |-> 0]
      ELSE line[Max(given)]

Places == UNION {{d} \X DOMAIN Interfaces[d] : d \in known}

Asked(d, k) ==
  /\ LastOf("a").n \in {0, Address[d].bus}
  /\ LastOf("a").m \in {0, Address[d].dev}
  /\ LastOf("m").n \in {0, Id[d].vendor}
  /\ LastOf("m").m \in {0, Id[d].product}
  /\ IsHid(Interfaces[d][k])
  /\ LastOf("i").n \in {255, Interfaces[d][k].number}

AskedFor == {p \in Places : Asked(p[1], p[2])}

\* Discovery is all or nothing: either the interfaces dumped are all those the
\* options ask for of the devices that were listed, each once and on a device
\* that is open, or none is; and when the program ends, wherever it failed, no
\* device is open and nothing is allocated or held.
AllOrNothing ==
  /\ stage = "run" =>
       /\ {<<f.dev, f.number>> : f \in Range(ifaceList)}
            = {<<p[1], Interfaces[p[1]][p[2]].number>> : p \in AskedFor}
       /\ Len(ifaceList) = Cardinality(AskedFor)
       /\ \A f \in Range(ifaceList) : f.dev \in opened
  /\ stage \in {"run", "cleanup"} =>
       ~ configHeld /\ usbList = <<>>
       /\ opened = Range(devList) /\ live = Len(ifaceList)
  /\ stage = "exit" =>
       ~ configHeld /\ ~ context /\ usbList = <<>> /\ opened = {} /\ live = 0

\* Discovery ends.
DiscoveryEnds == <>(stage = "exit")
=============================================================================
