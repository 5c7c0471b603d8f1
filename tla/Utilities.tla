----------------------------- MODULE Utilities ------------------------------
(***************************************************************************)
(* lsusb, usbreset or usbhid-dump, run while devices are plugged in and    *)
(* unplugged: all see the same devices, usbreset through sysfs and the     *)
(* others through libusb.                                                  *)
(***************************************************************************)
EXTENDS Lsusb

CONSTANTS
  Port,       \* the port each device is plugged into
  Strings,    \* the product name and the serial number of each device
  Arguments,  \* the arguments usbreset may be called with
  Interfaces, \* the interfaces of each device
  Words       \* the options usbhid-dump may be called with

VARIABLES
  job, arg, scan, unread, name, entry, read, hits, match, steady, quiet,
  printed, target, code,
  stage, line, word, mask, context, usbList, at, known, devList, opened,
  configHeld, slot, ifaceList, live, ended

\* The attributes sysfs has of a device.
SysfsAttr ==
  [d \in Devices |->
     [busnum |-> Address[d].bus, devnum |-> Address[d].dev,
      idVendor |-> Id[d].vendor, idProduct |-> Id[d].product,
      product |-> Strings[d].product, serial |-> Strings[d].serial]]

R == INSTANCE Usbreset WITH Attr <- SysfsAttr

ASSUME BusAssumption == R!SoundBus

F == INSTANCE UhdDiscovery

ASSUME DiscoveryAssumption == F!SoundDiscovery

usbresetOnly ==
  <<job, arg, scan, unread, name, entry, read, hits, match, steady, quiet,
    printed, target, code>>
discoveryOnly ==
  <<stage, line, word, mask, context, usbList, at, known, devList, opened,
    configHeld, slot, ifaceList, live, ended>>
lsusbOnly ==
  <<vars, main, optionVars, hostVars, listVars, lost, shown, status>>

\* One of the programs runs; the others never start.
UtilitiesInit ==
  \/ /\ LsusbAt("options", CommandLines)
     /\ R!UsbresetAt("none", {CHOOSE a \in Arguments : TRUE})
     /\ F!DiscoveryAt("none", {<<>>})
  \/ /\ LsusbAt("none", {<<>>})
     /\ R!UsbresetAt("start", Arguments)
     /\ F!DiscoveryAt("none", {<<>>})
  \/ /\ LsusbAt("none", {<<>>})
     /\ R!UsbresetAt("none", {CHOOSE a \in Arguments : TRUE})
     /\ F!DiscoveryAt("options", Words)

RunLsusb == LsusbStep /\ UNCHANGED <<usbresetOnly, discoveryOnly>>
RunUsbreset == R!UsbresetStep /\ UNCHANGED <<lsusbOnly, discoveryOnly>>
RunDiscovery == F!DiscoveryStep /\ UNCHANGED <<lsusbOnly, usbresetOnly>>

UtilitiesNext ==
  \/ RunLsusb
  \/ RunUsbreset
  \/ RunDiscovery
  \/ \E d \in Devices : Plug(d) /\ R!Plug(d) /\ F!Plug(d)
  \/ \E d \in Devices : Unplug(d) /\ R!Unplug(d) /\ F!Unplug(d)

\* All are sequential and what they call returns; devices come and go as they
\* like.
UtilitiesSpec ==
  /\ UtilitiesInit
  /\ [][UtilitiesNext]_<<lsusbOnly, plugged, usbresetOnly, discoveryOnly>>
  /\ WF_lsusbOnly(RunLsusb) /\ WF_usbresetOnly(RunUsbreset)
  /\ WF_discoveryOnly(RunDiscovery)

-----------------------------------------------------------------------------
(* Correctness: that of the programs.                                      *)

\* Every variable of the programs holds values of its type.
UtilitiesTypeOK == LsusbTypeOK /\ R!UsbresetTypeOK /\ F!DiscoveryTypeOK

\* usbreset never resets a device that has been there all the time instead of
\* what was asked for (NoBystanderReset of Usbreset).
NoBystanderReset == R!NoBystanderReset

\* If nothing comes or goes, usbreset resets a device only if it is the only
\* one that matches (ResetsTheOneAskedFor of Usbreset).
ResetsTheOneAskedFor == R!ResetsTheOneAskedFor

\* Of two devices that match all the time none is reset, unless an entry that
\* could not be read cut the search short (AmbiguityStops of Usbreset).
AmbiguityStops == R!AmbiguityStops

\* usbhid-dump finds all of what it is asked for or nothing, and keeps nothing
\* open (AllOrNothing of UhdDiscovery).
AllOrNothing == F!AllOrNothing

\* Whichever program runs ends, whatever is plugged in or unplugged meanwhile.
AllEnd ==
  /\ main # "none" => LsusbEnds
  /\ scan # "none" => R!UsbresetEnds
  /\ stage # "none" => F!DiscoveryEnds
=============================================================================
