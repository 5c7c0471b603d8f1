--------------------------- MODULE UsbresetProofs ---------------------------
(***************************************************************************)
(* Proofs about usbreset, for any number of devices, any arguments and     *)
(* whatever comes and goes while /sys/bus/usb/devices is read.             *)
(*                                                                         *)
(* The attributes of an entry need not be those of one device.  The        *)
(* argument is that those which identify a device that has been there all  *)
(* the time are: the bus number is that of the port, so that the device    *)
(* number, read while the device was there, is its own; and then all of    *)
(* the entry is.                                                           *)
(***************************************************************************)
EXTENDS Usbreset, FiniteSetTheorems, TLAPS

USE DEF directory, history, result, usbresetVars

\* The number of a device, and that of an entry.
NumberOf(e) == <<e.busnum, e.devnum>>

\* The first k attributes of the entry are those of d.
Same(d, k) ==
  \A j \in 1 .. k : entry[Attributes[j]] = Attr[d][Attributes[j]]

Fields == {"busnum", "devnum", "idVendor", "idProduct", "product", "serial"}

ShapeInv ==
  /\ UsbresetTypeOK
  /\ Compatible(plugged)
  /\ entry = [a \in Fields |-> entry[a]]
  /\ scan \in {"none", "start"} => steady = {}
  /\ scan = "attributes" => name \in Ports \ unread

\* What is known of the entry while it is read.
EntryInv ==
  scan = "attributes" =>
    /\ \A d \in steady : Port[d] = name => Same(d, read)
    /\ read = 0 => entry.busnum = 0
    /\ read < 2 => entry.devnum = 0
    /\ entry.busnum # 0 =>
         \E d \in Devices : Port[d] = name /\ Attr[d].busnum = entry.busnum
    /\ entry.busnum # 0 /\ entry.devnum # 0 =>
         \A d \in steady : NumberOf(Attr[d]) = NumberOf(entry) => Port[d] = name

\* A device that has the number of the match all the time is what is asked for.
MatchInv ==
  /\ hits > 0 => job = "find"
  /\ hits > 0 => \A d \in steady :
       NumberOf(Attr[d]) = NumberOf(match) => Matches(Attr[d])
  /\ scan \in {"none", "start"} => hits = 0 /\ job = "find"
  /\ scan = "reset" => hits > 0
  /\ target # NoDevice => scan = "exit" /\ hits > 0
       /\ (target \in steady => NumberOf(Attr[target]) = NumberOf(match))

\* The entry of the device has been used.
Used(d) == Port[d] \notin unread /\ ~ (scan = "attributes" /\ name = Port[d])

\* As long as the search may succeed, at most one of the devices that were there
\* all the time and whose entry was used matches, and then there was a hit.
HitInv ==
  /\ scan = "exit" /\ code = 0 => job = "find"
  /\ job = "find" /\ scan \notin {"start", "exit"} => hits < 2
  /\ job = "find" /\ scan # "start" /\ (scan = "exit" => code = 0) =>
       \A d, e \in steady :
         Matches(Attr[d]) /\ Used(d) =>
           hits > 0 /\ (Matches(Attr[e]) /\ Used(e) => d = e)

\* Once the directory was opened for the search.
Searched ==
  job = "find" /\ scan \notin {"none", "start"} /\ ~ (scan = "exit" /\ steady = {})

Known(d) == Matches(Attr[d]) /\ Used(d)

\* As long as nothing comes or goes, entries are those of devices, the match is
\* one of them, and the search only ends when all are used or two match.
QuietInv ==
  Searched /\ quiet =>
    /\ plugged = steady
    /\ scan = "attributes" => \E d \in steady : Port[d] = name
    /\ hits > 0 => \E d \in steady : Known(d) /\ NumberOf(Attr[d]) = NumberOf(match)
    /\ hits = 2 =>
         /\ scan = "exit" /\ code = 1 /\ target = NoDevice
         /\ \E d, e \in steady : d # e /\ Matches(Attr[d]) /\ Matches(Attr[e])
    /\ scan \in {"reset", "exit"} => hits = 2 \/ \A d \in steady : Used(d)
    /\ hits < 2 => \A d, e \in steady :
         Known(d) => hits = 1 /\ (Known(e) => d = e)
    /\ scan = "exit" => (code = 0 <=> hits = 1)
    /\ target # NoDevice => target \in steady

UsbresetInv == ShapeInv /\ EntryInv /\ MatchInv /\ HitInv /\ QuietInv

-----------------------------------------------------------------------------
(***************************************************************************)
(* The bus.                                                                *)
(***************************************************************************)

\* The six attributes, in the order they are read.
LEMMA AttributesRead ==
  /\ Len(Attributes) = 6
  /\ Attributes[1] = "busnum" /\ Attributes[2] = "devnum"
  /\ \A k \in 1 .. 6 : Attributes[k] \in Fields
  /\ \A k \in 3 .. 6 : Attributes[k] \notin {"busnum", "devnum"}
  /\ \A j, k \in 1 .. 6 : Attributes[j] = Attributes[k] => j = k
BY DEF Attributes, Fields

\* Nothing is read or used at the start.
LEMMA UsbresetAtInv ==
  ASSUME NEW point \in {"none", "start"}, NEW arguments,
         UsbresetAt(point, arguments)
  PROVE  UsbresetInv
<1>1. plugged \subseteq Devices /\ Compatible(plugged)
  BY Zenon DEF UsbresetAt
<1>2. /\ job = "find" /\ scan \in {"none", "start"} /\ unread = {} /\ name = ""
      /\ entry = NoEntry /\ read = 0 /\ steady = {} /\ quiet = TRUE
      /\ hits = 0 /\ match = NoEntry
      /\ target = NoDevice /\ code = 0
  BY Zenon DEF UsbresetAt
<1>3. UsbresetTypeOK
  <2>1. 0 \in 0 .. Len(Attributes) /\ 0 \in 0 .. 2 BY AttributesRead
  <2>2. read \in 0 .. Len(Attributes) /\ hits \in 0 .. 2 BY <1>2, <2>1, Zenon
  <2>3. /\ job \in {"find", "measure", "list"} /\ quiet \in BOOLEAN
        /\ scan \in {"none", "start", "names", "attributes", "reset", "exit"}
        /\ target \in Devices \cup {NoDevice} /\ code \in {0, 1}
    BY <1>2, Zenon
  <2>4. steady \subseteq plugged /\ unread \subseteq Ports BY <1>2, Zenon
  <2>5. DOMAIN entry = DOMAIN NoEntry /\ DOMAIN match = DOMAIN NoEntry
    BY <1>2, Zenon
  <2>6. QED BY <1>1, <2>2, <2>3, <2>4, <2>5, Zenon DEF UsbresetTypeOK
<1>4. entry = [a \in Fields |-> entry[a]] BY <1>2 DEF Fields, NoEntry
<1>5. ShapeInv BY <1>1, <1>2, <1>3, <1>4 DEF ShapeInv
<1>6. EntryInv /\ MatchInv /\ HitInv
  <2>1. scan \in {"none", "start"} /\ job = "find" /\ steady = {} /\ hits = 0
        /\ target = NoDevice
    BY <1>2, Zenon
  <2>2. QED BY <2>1 DEF EntryInv, MatchInv, HitInv
<1>7. QuietInv BY <1>2, Zenon DEF QuietInv, Searched
<1>8. QED BY <1>5, <1>6, <1>7 DEF UsbresetInv

\* A device that comes was not there all the time.
LEMMA PlugKeepsInv ==
  ASSUME UsbresetInv, NEW d \in Devices, Plug(d) PROVE UsbresetInv'
<1> USE DEF UsbresetInv, Plug
<1>1. UsbresetTypeOK' BY DEF ShapeInv, UsbresetTypeOK
<1>2. ShapeInv' BY <1>1 DEF ShapeInv
<1>3. EntryInv' BY DEF EntryInv, Same
<1>4. MatchInv' BY DEF MatchInv, Matches
<1>5. HitInv' BY DEF HitInv, Matches, Used
<1>6. QuietInv'
  BY DEF QuietInv, Searched, Known, Used, Matches, ShapeInv, UsbresetTypeOK
<1>7. QED BY <1>2, <1>3, <1>4, <1>5, <1>6

\* One that goes is not there all the time any more.
LEMMA UnplugKeepsInv ==
  ASSUME UsbresetInv, NEW d \in Devices, Unplug(d) PROVE UsbresetInv'
<1> USE DEF UsbresetInv, Unplug
<1>1. UsbresetTypeOK' BY DEF ShapeInv, UsbresetTypeOK
<1>2. ShapeInv' BY <1>1 DEF ShapeInv, Compatible
<1>3. EntryInv' BY DEF EntryInv, Same
<1>4. MatchInv' BY DEF MatchInv, Matches
<1>5. HitInv' BY DEF HitInv, Matches, Used
<1>6. QuietInv'
  BY DEF QuietInv, Searched, Known, Used, Matches, ShapeInv, UsbresetTypeOK
<1>7. QED BY <1>2, <1>3, <1>4, <1>5, <1>6

-----------------------------------------------------------------------------
(***************************************************************************)
(* The program.                                                            *)
(***************************************************************************)

\* Opening the directory: nothing is used yet.
LEMMA StartKeepsInv == ASSUME UsbresetInv, Start PROVE UsbresetInv'
<1> USE DEF UsbresetInv, Start, opendir
<1>1. UsbresetTypeOK' BY DEF ShapeInv, UsbresetTypeOK
<1>2. ShapeInv' BY <1>1 DEF ShapeInv
<1>3. EntryInv' BY DEF EntryInv
<1>4. MatchInv' BY DEF MatchInv
<1>5. HitInv'
  BY DEF HitInv, Used, Ports, ShapeInv, UsbresetTypeOK, MatchInv
<1>6. QuietInv'
  <2>1. CASE opendir(IF Usage THEN "measure" ELSE "find") /\ UNCHANGED code
    <3>1. /\ plugged' = plugged /\ steady' = plugged /\ scan' = "names"
          /\ unread' = Ports /\ hits' = 0 /\ target' = target
      BY <2>1 DEF MatchInv
    <3>2. target' = NoDevice BY <3>1 DEF MatchInv
    <3>3. \A d \in steady' : Port[d] \in unread'
      BY <3>1 DEF Ports, ShapeInv, UsbresetTypeOK
    <3>4. QED BY <3>1, <3>2, <3>3 DEF QuietInv, Searched, Known, Used
  <2>2. CASE scan' = "exit" /\ code' = 1 /\ UNCHANGED <<job, directory, history>>
    BY <2>2 DEF QuietInv, Searched, ShapeInv
  <2>3. QED BY <2>1, <2>2
<1>7. QED BY <1>2, <1>3, <1>4, <1>5, <1>6

LEMMA ReadNameKeepsInv ==
  ASSUME UsbresetInv, NEW p \in Ports, ReadName(p) PROVE UsbresetInv'
<1> USE DEF UsbresetInv, ReadName
<1>1. UsbresetTypeOK' BY DEF ShapeInv, UsbresetTypeOK, Attributes
<1>2. ShapeInv' BY <1>1 DEF ShapeInv, Fields, NoEntry
<1>3. EntryInv'
  <2>1. \A j \in 1 .. read' : FALSE OBVIOUS
  <2>2. entry'.busnum = 0 /\ entry'.devnum = 0 BY DEF NoEntry
  <2>3. QED BY <2>1, <2>2 DEF EntryInv, Same
<1>4. MatchInv' BY DEF MatchInv, Matches
<1>5. HitInv' BY DEF HitInv, Matches, Used
<1>6. QuietInv'
  <2>1. \A d \in steady : Used(d)' <=> Used(d) BY DEF Used
  <2>2. \A d \in steady : Known(d)' <=> Known(d) BY <2>1 DEF Known, Matches
  <2>3. (plugged = steady => \E d \in steady : Port[d] = p)
        /\ (Searched' => Searched)
    BY DEF At, Searched
  <2>4. QED BY <2>2, <2>3 DEF QuietInv, Searched
<1>7. QED BY <1>2, <1>3, <1>4, <1>5, <1>6

\* The devnum is read after the busnum of the same port: together they are the
\* number of the device that is there now.
LEMMA ReadAttributeKeepsInv ==
  ASSUME UsbresetInv, SoundBus, ReadAttribute PROVE UsbresetInv'
<1> USE DEF UsbresetInv, ReadAttribute
<1> DEFINE attr == Attributes[read + 1]
<1>1. /\ read \in 0 .. 5 /\ read' = read + 1 /\ scan = "attributes"
      /\ attr \in Fields /\ name \in Ports
      /\ entry = [a \in Fields |-> entry[a]]
      /\ steady \subseteq plugged /\ plugged \subseteq Devices
  BY AttributesRead DEF ShapeInv, UsbresetTypeOK
<1>2. UNCHANGED <<plugged, scan, unread, name, steady, hits, match, target,
                 job, arg, code>>
  OBVIOUS
<1>3. \A d \in steady : Port[d] = name => At(name) = {d}
  BY <1>1 DEF At, ShapeInv, Compatible
<1>4. \/ \E d \in At(name) : entry' = [entry EXCEPT ![attr] = Attr[d][attr]]
      \/ At(name) = {} /\ entry' = entry
  OBVIOUS
<1>5. /\ entry' = [a \in Fields |-> entry'[a]]
      /\ \A a \in Fields \ {attr} : entry'[a] = entry[a]
      /\ \/ entry' = entry /\ At(name) = {}
         \/ \E d \in At(name) : entry'[attr] = Attr[d][attr]
  BY <1>1, <1>4
<1>6. ShapeInv'
  <2>1. DOMAIN entry' = DOMAIN NoEntry BY <1>5 DEF Fields, NoEntry
  <2>2. UsbresetTypeOK'
    BY <1>1, <1>2, <2>1, AttributesRead DEF ShapeInv, UsbresetTypeOK
  <2>3. QED BY <1>2, <1>5, <2>2 DEF ShapeInv
<1>7. EntryInv'
  <2>1. ASSUME NEW d \in steady, Port[d] = name PROVE Same(d, read)'
    <3>1. entry'[attr] = Attr[d][attr] BY <1>3, <1>5, <2>1
    <3>2. Same(d, read) BY <1>1, <2>1 DEF EntryInv
    <3>3. \A j \in 1 .. read : Attributes[j] \in Fields \ {attr}
      BY <1>1, AttributesRead
    <3>4. \A j \in 1 .. read + 1 : entry'[Attributes[j]] = Attr[d][Attributes[j]]
      BY <1>1, <1>5, <3>1, <3>2, <3>3 DEF Same
    <3>5. QED BY <1>1, <3>4 DEF Same
  <2>2. CASE read = 0
    <3>1. attr = "busnum" BY <2>2, AttributesRead
    <3>2. entry'.devnum = 0 BY <1>1, <1>5, <2>2, <3>1 DEF EntryInv, Fields
    <3>3. entry'.busnum # 0 =>
            \E d \in Devices : Port[d] = name /\ Attr[d].busnum = entry'.busnum
      BY <1>1, <1>5, <2>2, <3>1 DEF EntryInv, At
    <3>4. QED BY <1>1, <1>2, <2>1, <2>2, <3>2, <3>3 DEF EntryInv
  <2>3. CASE read = 1
    <3>1. attr = "devnum" BY <2>3, AttributesRead
    <3>2. entry'.busnum = entry.busnum BY <1>5, <3>1 DEF Fields
    <3>3. ASSUME entry'.busnum # 0, entry'.devnum # 0,
                 NEW d \in steady, NumberOf(Attr[d]) = NumberOf(entry')
          PROVE  Port[d] = name
      <4>1. PICK y \in At(name) : entry'.devnum = Attr[y].devnum
        BY <1>1, <1>5, <2>3, <3>1, <3>3 DEF EntryInv
      <4>2. PICK x \in Devices : Port[x] = name /\ Attr[x].busnum = entry.busnum
        BY <1>1, <3>2, <3>3 DEF EntryInv
      <4>3. y \in plugged /\ Port[y] = name /\ Attr[y].busnum = entry'.busnum
        BY <1>1, <3>2, <4>1, <4>2 DEF At, SoundBus
      <4>4. y = d BY <1>1, <3>3, <4>1, <4>3 DEF NumberOf, ShapeInv, Compatible
      <4>5. QED BY <4>3, <4>4
    <3>4. QED BY <1>1, <1>2, <2>1, <2>3, <3>2, <3>3 DEF EntryInv
  <2>4. CASE read > 1
    <3>1. attr \notin {"busnum", "devnum"} BY <1>1, <2>4, AttributesRead
    <3>2. entry'.busnum = entry.busnum /\ entry'.devnum = entry.devnum
      BY <1>5, <3>1 DEF Fields
    <3>3. NumberOf(entry') = NumberOf(entry) BY <3>2 DEF NumberOf
    <3>4. \A d \in steady' : Port[d] = name' => Same(d, read)' BY <1>2, <2>1
    <3>5. EntryInv /\ read' > 2 BY <1>1, <2>4
    <3>6. QED BY <1>1, <1>2, <3>2, <3>3, <3>4, <3>5 DEF EntryInv
  <2>5. QED BY <1>1, <2>2, <2>3, <2>4
<1>8. MatchInv' BY <1>2 DEF MatchInv, Matches
<1>9. HitInv' BY <1>2 DEF HitInv, Matches, Used
<1>10. QuietInv'
  BY <1>2 DEF QuietInv, Searched, Known, Used, Matches
<1>11. QED BY <1>6, <1>7, <1>8, <1>9, <1>10

\* What a complete entry says of a device that was there all the time: if it
\* has its number or was read in its port, it has all of its attributes.
LEMMA EntryIsTheDevices ==
  ASSUME UsbresetInv, EntryRead, NEW d \in steady,
         Port[d] = name \/ NumberOf(Attr[d]) = NumberOf(entry)
  PROVE  Port[d] = name /\ (Matches(entry) <=> Matches(Attr[d]))
<1>1. Port[d] = name
  BY DEF UsbresetInv, EntryInv, EntryRead, Complete, NumberOf
<1>2. Same(d, 6)
  BY <1>1, AttributesRead DEF UsbresetInv, EntryInv, EntryRead
<1>3. /\ entry["busnum"] = Attr[d]["busnum"]
      /\ entry["devnum"] = Attr[d]["devnum"]
      /\ entry["idVendor"] = Attr[d]["idVendor"]
      /\ entry["idProduct"] = Attr[d]["idProduct"]
      /\ entry["product"] = Attr[d]["product"]
      /\ entry["serial"] = Attr[d]["serial"]
  BY <1>2 DEF Same, Attributes
<1>4. Matches(entry) <=> Matches(Attr[d]) BY <1>3 DEF Matches
<1>5. QED BY <1>1, <1>4

\* A first match: the device in the port, if it was there all the time, is the
\* only one of those used that matches.
LEMMA UseEntryKeepsInv == ASSUME UsbresetInv, UseEntry PROVE UsbresetInv'
<1> USE DEF UsbresetInv, UseEntry
<1>1. /\ UNCHANGED <<plugged, steady, unread, name, entry, read, target, job,
                     arg, code>>
      /\ scan' = "names" /\ scan = "attributes" /\ EntryRead
  BY DEF EntryRead
<1>2. \/ hits' = hits /\ match' = match /\ ~ (job = "find" /\ Matches(entry))
      \/ hits' = 1 /\ match' = entry /\ hits = 0 /\ job = "find" /\ Matches(entry)
  BY DEF ShapeInv, UsbresetTypeOK
<1>3. UsbresetTypeOK' BY <1>1, <1>2 DEF ShapeInv, UsbresetTypeOK
<1>4. ShapeInv' BY <1>1, <1>3 DEF ShapeInv
<1>5. EntryInv' BY <1>1 DEF EntryInv
<1>6. MatchInv'
  <2>1. CASE hits' = hits /\ match' = match
    BY <1>1, <2>1 DEF MatchInv, Matches
  <2>2. CASE hits' = 1 /\ match' = entry /\ hits = 0 /\ job = "find" /\ Matches(entry)
    <3>1. \A d \in steady :
            NumberOf(Attr[d]) = NumberOf(entry) => Matches(Attr[d])
      BY <1>1, <2>2, EntryIsTheDevices
    <3>2. QED BY <1>1, <2>2, <3>1 DEF MatchInv, Matches
  <2>3. QED BY <1>2, <2>1, <2>2
<1>7. HitInv'
  <2>1. \A d \in steady : Used(d)' <=> Used(d) \/ Port[d] = name
    BY <1>1 DEF Used, ShapeInv
  <2>2. \A d \in steady : Port[d] = name => (Matches(entry) <=> Matches(Attr[d]))
    BY <1>1, EntryIsTheDevices
  <2>3. \A d, e \in steady : Port[d] = name /\ Port[e] = name => d = e
    BY DEF ShapeInv, Compatible, UsbresetTypeOK
  <2>4. \A d \in steady : Matches(Attr[d])' <=> Matches(Attr[d])
    BY <1>1 DEF Matches
  <2>5. CASE job # "find" BY <1>1, <2>5 DEF HitInv
  <2>6. CASE job = "find" /\ ~ Matches(entry)
    BY <1>1, <1>2, <2>1, <2>2, <2>4, <2>6 DEF HitInv
  <2>7. CASE job = "find" /\ Matches(entry)
    BY <1>1, <1>2, <2>1, <2>2, <2>3, <2>4, <2>7 DEF HitInv
  <2>8. QED BY <2>5, <2>6, <2>7
<1>8. QuietInv'
  <2>1. CASE ~ quiet \/ job # "find"
    BY <1>1, <2>1 DEF QuietInv, Searched
  <2>2. CASE quiet /\ job = "find"
    <3>1. Searched BY <1>1, <2>2 DEF Searched
    <3>2. PICK d \in steady : Port[d] = name BY <1>1, <2>2, <3>1 DEF QuietInv
    <3>3. \A x \in steady : Used(x)' <=> Used(x) \/ x = d
      BY <1>1, <3>2 DEF Used, ShapeInv, Compatible, UsbresetTypeOK
    <3>4. \A x \in steady : Matches(Attr[x])' <=> Matches(Attr[x])
      BY <1>1 DEF Matches
    <3>5. Matches(entry) <=> Matches(Attr[d])
      BY <1>1, <3>2, EntryIsTheDevices
    <3>6. NumberOf(Attr[d]) = NumberOf(entry)
      <4>1. Same(d, 6)
        BY <1>1, <3>2, AttributesRead DEF EntryInv, EntryRead
      <4>2. QED BY <4>1 DEF Same, Attributes, NumberOf
    <3>7. CASE Matches(entry)
      <4>1. hits = 0 /\ hits' = 1 /\ match' = entry BY <1>2, <2>2, <3>7
      <4>2. \A x \in steady : Known(x)' <=> x = d
        BY <2>2, <3>1, <3>3, <3>4, <3>5, <3>7, <4>1 DEF QuietInv, Known
      <4>3. QED
        BY <1>1, <2>2, <3>1, <3>6, <4>1, <4>2 DEF QuietInv, Searched
    <3>8. CASE ~ Matches(entry)
      <4>1. hits' = hits /\ match' = match BY <1>2, <3>8
      <4>2. \A x \in steady : Known(x)' <=> Known(x)
        BY <3>3, <3>4, <3>5, <3>8 DEF Known
      <4>3. QED
        BY <1>1, <2>2, <3>1, <4>1, <4>2 DEF QuietInv, Searched
    <3>9. QED BY <3>7, <3>8
  <2>3. QED BY <2>1, <2>2
<1>9. QED BY <1>4, <1>5, <1>6, <1>7, <1>8

\* A second match ends the search without a reset.
LEMMA MultipleKeepsInv == ASSUME UsbresetInv, Multiple PROVE UsbresetInv'
<1> USE DEF UsbresetInv, Multiple
<1>1. UsbresetTypeOK'
  BY DEF ShapeInv, UsbresetTypeOK, HitInv, EntryRead
<1>2. ShapeInv' BY <1>1 DEF ShapeInv
<1>3. EntryInv' BY DEF EntryInv
<1>4. MatchInv' BY DEF MatchInv, Matches, EntryRead
<1>5. HitInv' BY DEF HitInv
<1>6. QuietInv'
  <2>1. CASE ~ quiet BY <2>1 DEF QuietInv
  <2>2. CASE quiet
    <3>1. Searched /\ hits = 1 /\ EntryRead /\ scan = "attributes"
      BY DEF Searched, EntryRead, HitInv, ShapeInv, UsbresetTypeOK
    <3>2. PICK d \in steady : Known(d) BY <2>2, <3>1 DEF QuietInv
    <3>3. PICK e \in steady : Port[e] = name BY <2>2, <3>1 DEF QuietInv
    <3>4. d # e /\ Matches(Attr[d]) /\ Matches(Attr[e])
      BY <3>1, <3>2, <3>3, EntryIsTheDevices DEF Known, Used
    <3>5. \A x \in steady : Matches(Attr[x])' <=> Matches(Attr[x])
      BY DEF Matches
    <3>6. hits' = 2 /\ scan' = "exit" /\ code' = 1 /\ target' = NoDevice
      BY <3>1 DEF MatchInv
    <3>7. hits' > 0 => \E x \in steady' : Known(x)' /\ NumberOf(Attr[x]) = NumberOf(match')
      <4>1. PICK x \in steady : Known(x) /\ NumberOf(Attr[x]) = NumberOf(match)
        BY <2>2, <3>1 DEF QuietInv
      <4>2. Known(x)' BY <4>1 DEF Known, Used, Matches
      <4>3. QED BY <4>1, <4>2
    <3>8. QED BY <2>2, <3>1, <3>4, <3>5, <3>6, <3>7 DEF QuietInv
  <2>3. QED BY <2>1, <2>2 DEF ShapeInv, UsbresetTypeOK
<1>7. QED BY <1>2, <1>3, <1>4, <1>5, <1>6

LEMMA EndMeasureKeepsInv == ASSUME UsbresetInv, EndMeasure PROVE UsbresetInv'
<1> USE DEF UsbresetInv, EndMeasure, opendir
<1>1. UsbresetTypeOK' BY DEF ShapeInv, UsbresetTypeOK
<1>2. ShapeInv' BY <1>1 DEF ShapeInv
<1>3. EntryInv' BY DEF EntryInv
<1>4. MatchInv' BY DEF MatchInv, ShapeInv, UsbresetTypeOK, AtEnd
<1>5. HitInv' BY DEF HitInv
<1>6. QuietInv'
  BY DEF QuietInv, Searched, Known, Used, Matches, ShapeInv, UsbresetTypeOK
<1>7. QED BY <1>2, <1>3, <1>4, <1>5, <1>6

\* The entry that ends the search is of no device that was there all the time:
\* that one's would be complete.
LEMMA EndOfDirectoryKeepsInv ==
  ASSUME UsbresetInv, SoundBus, EndOfDirectory PROVE UsbresetInv'
<1> USE DEF UsbresetInv, EndOfDirectory
<1>1. UsbresetTypeOK' BY DEF ShapeInv, UsbresetTypeOK
<1>2. ShapeInv' BY <1>1 DEF ShapeInv
<1>3. EntryInv' BY DEF EntryInv
<1>4. MatchInv' BY DEF MatchInv, Matches, AtEnd
<1>5. ASSUME scan = "attributes", NEW d \in steady PROVE Port[d] # name
  <2>1. SUFFICES ASSUME Port[d] = name PROVE FALSE OBVIOUS
  <2>2. read = Len(Attributes) /\ ~ Complete BY <1>5 DEF AtEnd
  <2>3. Same(d, 6) BY <1>5, <2>1, <2>2, AttributesRead DEF EntryInv
  <2>4. /\ entry["busnum"] = Attr[d]["busnum"]
        /\ entry["devnum"] = Attr[d]["devnum"]
        /\ entry["idVendor"] = Attr[d]["idVendor"]
        /\ entry["idProduct"] = Attr[d]["idProduct"]
    BY <2>3 DEF Same, Attributes
  <2>5. d \in Devices BY DEF ShapeInv, UsbresetTypeOK
  <2>6. Complete BY <2>4, <2>5 DEF Complete, SoundBus
  <2>7. QED BY <2>2, <2>6
<1>6. \A d \in steady : Used(d)' => Used(d) BY <1>5 DEF Used
<1>7. \A d \in steady : Matches(Attr[d])' <=> Matches(Attr[d]) BY DEF Matches
<1>8. HitInv' BY <1>6, <1>7 DEF HitInv, AtEnd
<1>9. QuietInv'
  <2>1. CASE ~ quiet \/ job # "find"
    BY <2>1 DEF QuietInv, Searched
  <2>2. CASE quiet /\ job = "find"
    <3>1. Searched BY <2>2 DEF Searched, AtEnd
    <3>2. \A d \in steady : Port[d] \notin unread /\ scan = "names"
      BY <1>5, <2>2, <3>1 DEF AtEnd, QuietInv
    <3>3. \A d \in steady : Used(d) /\ Used(d)' BY <3>2 DEF Used
    <3>4. \A d \in steady : Known(d)' <=> Known(d)
      BY <1>7, <3>3 DEF Known
    <3>5. hits < 2 BY <2>2, <3>1 DEF HitInv, AtEnd
    <3>6. target' = NoDevice BY DEF MatchInv, AtEnd
    <3>7. hits \in 0 .. 2 BY DEF ShapeInv, UsbresetTypeOK
    <3>8. QED
      BY <2>2, <3>1, <3>3, <3>4, <3>5, <3>6, <3>7 DEF QuietInv, Searched
  <2>3. QED BY <2>1, <2>2
<1>10. QED BY <1>2, <1>3, <1>4, <1>8, <1>9

\* Whatever has the number of the match now is reset.
LEMMA ResetKeepsInv ==
  ASSUME UsbresetInv, SoundBus, reset_device PROVE UsbresetInv'
<1> USE DEF UsbresetInv, reset_device
<1>1. UsbresetTypeOK' BY DEF ShapeInv, UsbresetTypeOK, Numbered
<1>2. ShapeInv' BY <1>1 DEF ShapeInv
<1>3. EntryInv' BY DEF EntryInv
<1>4. MatchInv'
  <2>1. target' # NoDevice => NumberOf(Attr[target']) = NumberOf(match)
    BY DEF Numbered, NumberOf
  <2>2. QED BY <2>1 DEF MatchInv, Matches
<1>5. \A d \in steady : Used(d)' <=> Used(d) BY DEF Used
<1>6. \A d \in steady : Matches(Attr[d])' <=> Matches(Attr[d]) BY DEF Matches
<1>7. HitInv' BY <1>5, <1>6 DEF HitInv, MatchInv
<1>8. QuietInv'
  <2>1. CASE ~ quiet \/ job # "find"
    BY <2>1 DEF QuietInv, Searched
  <2>2. CASE quiet /\ job = "find"
    <3>1. Searched BY <2>2 DEF Searched
    <3>2. \A d \in steady : Known(d)' <=> Known(d)
      BY <1>5, <1>6 DEF Known
    <3>3. hits = 1
      BY <2>2, <3>1 DEF MatchInv, QuietInv, ShapeInv, UsbresetTypeOK
    <3>4. target' # NoDevice => target' \in steady
      BY <2>2, <3>1 DEF Numbered, QuietInv
    <3>5. QED BY <1>5, <2>2, <3>1, <3>2, <3>3, <3>4 DEF QuietInv, Searched
  <2>3. QED BY <2>1, <2>2
<1>9. QED BY <1>2, <1>3, <1>4, <1>7, <1>8

LEMMA StutterKeepsInv == ASSUME UsbresetInv, UNCHANGED usbresetVars
                         PROVE  UsbresetInv'
<1> USE DEF UsbresetInv
<1>1. UsbresetTypeOK' BY DEF ShapeInv, UsbresetTypeOK
<1>2. ShapeInv' BY <1>1 DEF ShapeInv
<1>3. EntryInv' BY DEF EntryInv, Same
<1>4. MatchInv' BY DEF MatchInv, Matches
<1>5. HitInv' BY DEF HitInv, Matches, Used
<1>6. QuietInv'
  BY DEF QuietInv, Searched, Known, Used, Matches, ShapeInv, UsbresetTypeOK
<1>7. QED BY <1>2, <1>3, <1>4, <1>5, <1>6

\* UsbresetInv is inductive.
LEMMA UsbresetNextKeepsInv ==
  ASSUME UsbresetInv, SoundBus, [UsbresetNext]_usbresetVars PROVE UsbresetInv'
<1>1. CASE UsbresetStep
  BY <1>1, StartKeepsInv, ReadNameKeepsInv, ReadAttributeKeepsInv,
     UseEntryKeepsInv, MultipleKeepsInv, EndMeasureKeepsInv,
     EndOfDirectoryKeepsInv, ResetKeepsInv DEF UsbresetStep
<1>2. CASE \E d \in Devices : Plug(d) \/ Unplug(d)
  BY <1>2, PlugKeepsInv, UnplugKeepsInv
<1>3. CASE UNCHANGED usbresetVars BY <1>3, StutterKeepsInv
<1>4. QED BY <1>1, <1>2, <1>3 DEF UsbresetNext

-----------------------------------------------------------------------------
(***************************************************************************)
(* What the invariant says of the result.                                  *)
(***************************************************************************)

\* A device that was there all the time and has the number of the match matches.
LEMMA SteadyIsMatched ==
  ASSUME UsbresetInv, SoundBus PROVE NoBystanderReset
BY DEF UsbresetInv, ShapeInv, UsbresetTypeOK, MatchInv, NoBystanderReset,
       SoundBus

\* Those used that match are one.
LEMMA OneOfTheSteady == ASSUME UsbresetInv PROVE AmbiguityStops
<1>1. ASSUME UsbresetInv, scan = "exit", code = 0,
             unread \cap {Port[d] : d \in steady} = {}
      PROVE  Cardinality({d \in steady : Matches(Attr[d])}) <= 1
  <2> DEFINE matching == {d \in steady : Matches(Attr[d])}
  <2>1. \A d, e \in matching : d = e
    BY <1>1 DEF UsbresetInv, HitInv, Used
  <2>2. CASE matching = {} BY <2>2, FS_EmptySet
  <2>3. CASE matching # {}
    <3>1. PICK d : d \in matching BY <2>3
    <3>2. matching = {d} BY <2>1, <3>1
    <3>3. QED BY <3>2, FS_Singleton
  <2>4. QED BY <2>2, <2>3
<1>2. QED BY <1>1 DEF AmbiguityStops

\* As long as nothing comes or goes, usbreset succeeds if and only if exactly
\* one device matches, and no other one is reset.
LEMMA OneAskedFor ==
  ASSUME UsbresetInv, SoundBus PROVE ResetsTheOneAskedFor
<1> SUFFICES ASSUME scan = "exit", job = "find", quiet, steady # {}
             PROVE  /\ code = 0 <=> Cardinality(Sought) = 1
                    /\ target # NoDevice => Sought = {target}
  BY DEF ResetsTheOneAskedFor
<1>1. Searched BY DEF Searched
<1>2. hits \in 0 .. 2 /\ Sought \subseteq steady /\ plugged = steady
  BY <1>1 DEF UsbresetInv, QuietInv, ShapeInv, UsbresetTypeOK, Sought
<1>3. CASE hits = 0
  <2>1. Sought = {}
    BY <1>1, <1>2, <1>3 DEF UsbresetInv, QuietInv, Known, Sought
  <2>2. Cardinality(Sought) = 0 BY <2>1, FS_EmptySet
  <2>3. code # 0 /\ target = NoDevice
    BY <1>1, <1>3 DEF UsbresetInv, QuietInv, MatchInv
  <2>4. QED BY <2>2, <2>3
<1>4. CASE hits = 1
  <2>1. PICK d \in steady : Known(d) /\ NumberOf(Attr[d]) = NumberOf(match)
    BY <1>1, <1>4 DEF UsbresetInv, QuietInv
  <2>2. \A e \in steady : Matches(Attr[e]) => e = d
    BY <1>1, <1>4, <2>1 DEF UsbresetInv, QuietInv, Known
  <2>3. Sought = {d} BY <1>2, <2>1, <2>2 DEF Sought, Known
  <2>4. Cardinality(Sought) = 1 BY <2>3, FS_Singleton
  <2>5. target # NoDevice => Matches(Attr[target]) /\ target \in steady
    BY <1>1 DEF UsbresetInv, QuietInv, MatchInv
  <2>6. code = 0 BY <1>1, <1>4 DEF UsbresetInv, QuietInv
  <2>7. QED BY <2>2, <2>3, <2>4, <2>5, <2>6
<1>5. CASE hits = 2
  <2>1. PICK d, e \in steady : d # e /\ Matches(Attr[d]) /\ Matches(Attr[e])
    BY <1>1, <1>5 DEF UsbresetInv, QuietInv
  <2>2. \A x : Sought # {x} BY <1>2, <2>1 DEF Sought
  <2>3. Cardinality(Sought) # 1
    <3>1. SUFFICES ASSUME Cardinality(Sought) = 1 PROVE FALSE OBVIOUS
    <3>2. IsFiniteSet(Sought)
      BY FS_Subset DEF SoundBus, Sought, UsbresetInv, ShapeInv, UsbresetTypeOK
    <3>3. PICK x : Sought = {x} BY <3>1, <3>2, FS_Singleton
    <3>4. QED BY <2>2, <3>3
  <2>4. code # 0 BY <1>1, <1>5 DEF UsbresetInv, QuietInv
  <2>5. target = NoDevice BY <1>1, <1>5 DEF UsbresetInv, QuietInv
  <2>6. QED BY <2>3, <2>4, <2>5
<1>6. QED BY <1>2, <1>3, <1>4, <1>5
-----------------------------------------------------------------------------
(***************************************************************************)
(* The theorems.                                                           *)
(***************************************************************************)

\* Every reachable state satisfies the inductive invariant, the types of
\* UsbresetTypeOK among it.
THEOREM UsbresetInvariant ==
  ASSUME SoundBus PROVE UsbresetSpec => []UsbresetInv
<1>1. UsbresetInit => UsbresetInv BY UsbresetAtInv DEF UsbresetInit
<1>2. UsbresetInv /\ [UsbresetNext]_usbresetVars => UsbresetInv'
  BY UsbresetNextKeepsInv
<1>3. QED BY <1>1, <1>2, PTL DEF UsbresetSpec

\* usbreset never resets a device that has been plugged in all the time unless
\* it is what was asked for, although entries may be put together of several
\* devices and numbers be reused.
THEOREM SparesBystanders ==
  ASSUME SoundBus PROVE UsbresetSpec => []NoBystanderReset
<1>1. UsbresetInv => NoBystanderReset BY SteadyIsMatched
<1>2. QED BY <1>1, UsbresetInvariant, PTL

\* Of several devices that match all the time none is reset, unless an entry
\* that could not be read cut the search short.
THEOREM StopsIfAmbiguous ==
  ASSUME SoundBus PROVE UsbresetSpec => []AmbiguityStops
<1>1. UsbresetInv => AmbiguityStops BY OneOfTheSteady
<1>2. QED BY <1>1, UsbresetInvariant, PTL

\* As long as nothing comes or goes, usbreset resets the device asked for if
\* it is the only one, and else none, and its status says so.
THEOREM ResetsOnlyTheOneAskedFor ==
  ASSUME SoundBus PROVE UsbresetSpec => []ResetsTheOneAskedFor
<1>1. UsbresetInv => ResetsTheOneAskedFor BY OneAskedFor
<1>2. QED BY <1>1, UsbresetInvariant, PTL
=============================================================================
