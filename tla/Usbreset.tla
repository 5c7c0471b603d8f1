------------------------------ MODULE Usbreset ------------------------------
(***************************************************************************)
(* usbreset.c: find the one device that is asked for among the entries of  *)
(* /sys/bus/usb/devices and reset it, or list the devices.                 *)
(*                                                                         *)
(* The entry of a device is named after the port it is plugged into, and   *)
(* its attributes are files, read one after the other: the device may be   *)
(* gone before the next one is read, and another one be there.  The device *)
(* is reset by its bus and device number, which the kernel may have given  *)
(* to another device meanwhile.                                            *)
(***************************************************************************)
EXTENDS Integers, Sequences, FiniteSets

CONSTANTS
  Devices,    \* the devices there are
  NoDevice,   \* none
  Hotplug,    \* those that come and go
  Port,       \* the port each of them is plugged into
  Attr,       \* their attributes, as sysfs has them; "" for none
  Arguments   \* the arguments usbreset may be called with

VARIABLES
  plugged,  \* the devices plugged in
  job,      \* what the directory is read for: "find", "measure" or "list"
  arg,      \* the argument
  scan,     \* where the program is
  unread,   \* the ports whose entries readdir() has not come to
  name,     \* the entry at hand
  entry,    \* dev: what was read of it
  read,     \* how many of its attributes were
  hits,     \* the entries that match
  match,    \* the last of them
  steady,   \* history: the devices plugged in since the directory was opened
  quiet,    \* history: nothing came or went since then
  printed,  \* the entries listed
  target,   \* the device that was reset
  code      \* the exit status

directory == <<unread, name, entry, read>>
history == <<steady, quiet>>
result == <<hits, match, printed, target, code>>
usbresetVars == <<plugged, job, arg, scan, directory, history, result>>

Ports == {Port[d] : d \in Devices}
At(p) == {d \in plugged : Port[d] = p}
Numbered(bus, dev) ==
  {d \in plugged : Attr[d].busnum = bus /\ Attr[d].devnum = dev}

\* The attributes in the order they are read, and a zeroed entry.
Attributes ==
  <<"busnum", "devnum", "idVendor", "idProduct", "product", "serial">>
NoEntry == [busnum |-> 0, devnum |-> 0, idVendor |-> -1, idProduct |-> -1,
            product |-> "", serial |-> ""]

\* One device in a port, one device with a number.
Compatible(S) ==
  \A d, e \in S : d # e =>
    /\ Port[d] # Port[e]
    /\ <<Attr[d].busnum, Attr[d].devnum>> # <<Attr[e].busnum, Attr[e].devnum>>

UsbresetAt(point, arguments) ==
  /\ plugged \in {S \in SUBSET Devices : Devices \ Hotplug \subseteq S
                                         /\ Compatible(S)}
  /\ arg \in arguments /\ job = "find" /\ scan = point
  /\ unread = {} /\ name = "" /\ entry = NoEntry /\ read = 0
  /\ steady = {} /\ quiet = TRUE
  /\ hits = 0 /\ match = NoEntry /\ printed = <<>>
  /\ target = NoDevice /\ code = 0

UsbresetInit == UsbresetAt("start", Arguments)

\* What the kernel and sysfs guarantee: a device has all attributes but perhaps
\* a product name and a serial number, and a port belongs to one bus.
SoundBus ==
  /\ IsFiniteSet(Devices) /\ NoDevice \notin Devices
  /\ \A d \in Devices :
       /\ DOMAIN Attr[d] = DOMAIN NoEntry
       /\ Attr[d].busnum # 0 /\ Attr[d].devnum # 0
       /\ Attr[d].idVendor >= 0 /\ Attr[d].idProduct >= 0
  /\ \A d, e \in Devices :
       Port[d] = Port[e] => Attr[d].busnum = Attr[e].busnum

-----------------------------------------------------------------------------
(* The bus                                                                 *)

Plug(d) ==
  /\ d \in Hotplug \ plugged /\ Compatible(plugged \cup {d})
  /\ plugged' = plugged \cup {d} /\ quiet' = FALSE
  /\ UNCHANGED <<job, arg, scan, directory, steady, result>>

Unplug(d) ==
  /\ d \in Hotplug \cap plugged
  /\ plugged' = plugged \ {d} /\ quiet' = FALSE /\ steady' = steady \ {d}
  /\ UNCHANGED <<job, arg, scan, directory, result>>

-----------------------------------------------------------------------------
(* The directory                                                           *)

\* An argument may read as numbers ("%3d/%3d"), as ids ("%4x:%4x") or start
\* with "SN:"; its text is taken for a product name only if it does not.
Usage == arg.text = "(none)"

opendir(for) ==
  /\ job' = for /\ scan' = "names" /\ unread' = Ports
  /\ steady' = plugged /\ quiet' = TRUE
  /\ UNCHANGED <<name, entry, read>>

\* find_device() or list_devices() is called and opens the directory.
Start ==
  /\ scan = "start"
  /\ \/ opendir(IF Usage THEN "measure" ELSE "find") /\ UNCHANGED code
     \/ scan' = "exit" /\ code' = 1 /\ UNCHANGED <<job, directory, history>>
  /\ UNCHANGED <<plugged, arg, hits, match, printed, target>>

Bug_ReadName(p) ==
  /\ scan = "names" /\ p \in unread /\ At(p) # {}
  /\ scan' = "attributes" /\ name' = p /\ unread' = unread \ {p}
  /\ read' = 0
  /\ UNCHANGED <<plugged, job, arg, entry, history, result>>

\* readdir() comes to an entry that is there.  The entries of interfaces and
\* of root hubs are passed over.
ReadName(p) ==
  /\ scan = "names" /\ p \in unread /\ At(p) # {}
  /\ scan' = "attributes" /\ name' = p /\ unread' = unread \ {p}
  /\ entry' = NoEntry /\ read' = 0
  /\ UNCHANGED <<plugged, job, arg, history, result>>

\* sysfs_attr(): what is in the port now has the attribute; that of a device
\* that is gone is left out.
ReadAttribute ==
  /\ scan = "attributes" /\ read < Len(Attributes)
  /\ read' = read + 1
  /\ LET attr == Attributes[read + 1]
     IN  \/ \E d \in At(name) : entry' = [entry EXCEPT ![attr] = Attr[d][attr]]
         \/ At(name) = {} /\ UNCHANGED entry
  /\ UNCHANGED <<plugged, job, arg, scan, unread, name, history, result>>

Complete ==
  /\ entry.busnum # 0 /\ entry.devnum # 0
  /\ entry.idVendor >= 0 /\ entry.idProduct >= 0

\* Serial numbers and product names are compared without regard to case.
Matches(e) ==
  IF arg.number # <<>> THEN <<e.busnum, e.devnum>> = arg.number
  ELSE IF arg.id # <<>> THEN <<e.idVendor, e.idProduct>> = arg.id
  ELSE IF arg.serial # "-" THEN e.serial = arg.serial
  ELSE e.product = arg.text

EntryRead == scan = "attributes" /\ read = Len(Attributes) /\ Complete

\* An entry is compared with what is asked for, or printed.
Bug_UseEntry ==
  /\ EntryRead /\ ~ (job = "find" /\ Matches(entry) /\ hits > 1)
  /\ scan' = "names"
  /\ IF job = "find" /\ Matches(entry)
     THEN hits' = hits + 1 /\ match' = entry
     ELSE UNCHANGED <<hits, match>>
  /\ printed' = IF job = "list" THEN Append(printed, entry) ELSE printed
  /\ UNCHANGED <<plugged, job, arg, directory, history, target, code>>

UseEntry ==
  /\ EntryRead /\ ~ (job = "find" /\ Matches(entry) /\ hits > 0)
  /\ scan' = "names"
  /\ IF job = "find" /\ Matches(entry)
     THEN hits' = hits + 1 /\ match' = entry
     ELSE UNCHANGED <<hits, match>>
  /\ printed' = IF job = "list" THEN Append(printed, entry) ELSE printed
  /\ UNCHANGED <<plugged, job, arg, directory, history, target, code>>

\* "Multiple devices match; specify the bus/device number": none is reset.
Multiple ==
  /\ EntryRead /\ job = "find" /\ Matches(entry) /\ hits > 0
  /\ scan' = "exit" /\ hits' = hits + 1 /\ code' = 1
  /\ UNCHANGED <<plugged, job, arg, directory, history, match, printed,
                 target>>

\* The directory ends, at the earliest when every device that was there all
\* the time was read - or an entry is not complete, which counts as its end.
AtEnd ==
  \/ scan = "names" /\ \A d \in steady : Port[d] \notin unread
  \/ scan = "attributes" /\ read = Len(Attributes) /\ ~ Complete

\* list_devices() reads the directory once for the width of the serial numbers,
\* and once again to print.
Bug_EndMeasure ==
  /\ AtEnd /\ job = "measure"
  /\ opendir("measure") /\ UNCHANGED code
  /\ UNCHANGED <<plugged, arg, hits, match, printed, target>>

EndMeasure ==
  /\ AtEnd /\ job = "measure"
  /\ \/ opendir("list") /\ UNCHANGED code
     \/ scan' = "exit" /\ code' = 1 /\ UNCHANGED <<job, directory, history>>
  /\ UNCHANGED <<plugged, arg, hits, match, printed, target>>

Bug_EndOfDirectory ==
  /\ AtEnd /\ job # "measure"
  /\ IF job = "find" /\ hits > 1
     THEN scan' = "reset" /\ UNCHANGED code
     ELSE scan' = "exit" /\ code' = 1
  /\ UNCHANGED <<plugged, job, arg, directory, history, hits, match, printed,
                 target>>

EndOfDirectory ==
  /\ AtEnd /\ job # "measure"
  /\ IF job = "find" /\ hits > 0
     THEN scan' = "reset" /\ UNCHANGED code
     ELSE scan' = "exit" /\ code' = 1
  /\ UNCHANGED <<plugged, job, arg, directory, history, hits, match, printed,
                 target>>

\* reset_device(): what has the number of the match now; opening it or the
\* reset may fail, which is only reported.
reset_device ==
  /\ scan = "reset"
  /\ scan' = "exit" /\ code' = 0
  /\ target' \in {NoDevice} \cup Numbered(match.busnum, match.devnum)
  /\ UNCHANGED <<plugged, job, arg, directory, history, hits, match, printed>>

UsbresetStep ==
  \/ Start \/ \E p \in Ports : ReadName(p)
  \/ ReadAttribute \/ UseEntry \/ Multiple
  \/ EndMeasure \/ EndOfDirectory \/ reset_device

UsbresetNext == UsbresetStep \/ \E d \in Devices : Plug(d) \/ Unplug(d)

\* The program is sequential; the directory ends.
UsbresetSpec ==
  /\ UsbresetInit /\ [][UsbresetNext]_usbresetVars
  /\ WF_usbresetVars(UsbresetStep)

-----------------------------------------------------------------------------
(* Correctness                                                             *)

\* Every variable holds values of its type.
UsbresetTypeOK ==
  /\ plugged \subseteq Devices /\ steady \subseteq plugged
  /\ job \in {"find", "measure", "list"} /\ quiet \in BOOLEAN
  /\ scan \in {"none", "start", "names", "attributes", "reset", "exit"}
  /\ unread \subseteq Ports /\ read \in 0 .. Len(Attributes)
  /\ DOMAIN entry = DOMAIN NoEntry /\ DOMAIN match = DOMAIN NoEntry
  /\ hits \in 0 .. 2 /\ target \in Devices \cup {NoDevice} /\ code \in {0, 1}

\* A device that has been plugged in since the search began is never reset
\* instead of another one: it is what was asked for, although entries may be
\* put together of two devices, and numbers be reused.
NoBystanderReset ==
  target \in steady => Matches(Attr[target])

\* If nothing is plugged in or unplugged, every device with a complete entry is
\* considered: one is reset only if it is the only one that matches, and the
\* exit status says whether there was exactly one.
Sought == {d \in plugged : Matches(Attr[d])}

ResetsTheOneAskedFor ==
  scan = "exit" /\ job = "find" /\ quiet /\ steady # {} =>
    /\ code = 0 <=> Cardinality(Sought) = 1
    /\ target # NoDevice => Sought = {target}

\* Whatever comes and goes, a match that was reset is the only one of all the
\* devices that were there all the time, unless an entry that could not be
\* read cut the search short.
AmbiguityStops ==
  scan = "exit" /\ code = 0 =>
    \/ unread \cap {Port[d] : d \in steady} # {}
    \/ Cardinality({d \in steady : Matches(Attr[d])}) <= 1

\* usbreset ends.
UsbresetEnds == <>(scan = "exit")
=============================================================================
