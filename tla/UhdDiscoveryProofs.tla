------------------------- MODULE UhdDiscoveryProofs -------------------------
(***************************************************************************)
(* Proofs about discovery in usbhid-dump, for any devices with any         *)
(* interfaces, any options, and whatever is plugged in or unplugged while  *)
(* the lists are made.                                                     *)
(*                                                                         *)
(* The argument follows the lists: each is the selection of the part of    *)
(* the one before that has been gone through, every element once.  Of the  *)
(* list of interfaces this says that its elements stand for places - a     *)
(* device and an index - one to one; an interface itself does not tell     *)
(* which place it is from, since a configuration may have a number twice.  *)
(***************************************************************************)
EXTENDS UhdDiscovery, FiniteSetTheorems, FunctionTheorems, SequenceTheorems,
        TLAPS

USE DEF optionVars, listVars, deviceVars, ifaceVars, discoveryVars

Options == [opt : STRING, n : Nat, m : Nat]

\* How many of the options have been parsed.
Parsed == Len(line) - Len(word)

\* The last option of this kind among those parsed is the k-th, or none is.
LastParsed(opt, k) ==
  /\ k \in 1 .. Parsed /\ line[k].opt = opt
  /\ \A j \in 1 .. Parsed : line[j].opt = opt => j <= k
NoneParsed(opt) == \A j \in 1 .. Parsed : line[j].opt # opt

\* What the mask says is what they asked for, as long as all were valid.
OptionsInv ==
  /\ line \in Seq(Options) /\ word \in Seq(Options)
  /\ Len(word) <= Len(line)
  /\ \A k \in 1 .. Len(word) : word[k] = line[Parsed + k]
  /\ stage \notin {"none", "options", "exit"} => word = <<>>
  /\ stage # "exit" =>
       /\ \/ NoneParsed("a") /\ mask.bus = 0 /\ mask.dev = 0
          \/ \E k \in 1 .. Parsed :
               LastParsed("a", k) /\ mask.bus = line[k].n /\ mask.dev = line[k].m
       /\ \/ NoneParsed("m") /\ mask.vid = 0 /\ mask.pid = 0
          \/ \E k \in 1 .. Parsed :
               LastParsed("m", k) /\ mask.vid = line[k].n /\ mask.pid = line[k].m
       /\ \/ NoneParsed("i") /\ mask.iface = 255
          \/ \E k \in 1 .. Parsed : LastParsed("i", k) /\ mask.iface = line[k].n

Fits(d) == AddressFits(d) /\ ModelFits(d)

Once(list) == \A j, k \in DOMAIN list : list[j] = list[k] => j = k

\* libusb's list is one of the devices known, the list of opened devices the
\* selection of them.
DevicesInv ==
  /\ plugged \subseteq Devices
  /\ Once(usbList) /\ Once(devList) /\ opened = Range(devList)
  /\ usbList # <<>> => stage \in {"open", "undo_open"}
  /\ stage \in {"none", "options", "list"} => devList = <<>> /\ at = 1 /\ known = {}
  /\ stage = "open" =>
       /\ Range(usbList) = known /\ at \in 1 .. Len(usbList) + 1
       /\ Range(devList) = {usbList[j] : j \in {k \in 1 .. at - 1 : Fits(usbList[k])}}
  /\ stage \in {"interfaces", "filter", "run"} =>
       Range(devList) = {d \in known : Fits(d)}

\* The places that count: interfaces of the selected devices that are HID.
Hids == {p \in Places : Fits(p[1]) /\ IsHid(Interfaces[p[1]][p[2]])}
NumberAt(p) == Interfaces[p[1]][p[2]].number
NumberFits(n) == mask.iface = AnyIface \/ n = mask.iface

\* Those that have been read.
Done(p) ==
  \/ \E j \in 1 .. at - 1 : j <= Len(devList) /\ devList[j] = p[1]
  \/ Listing /\ configHeld /\ p[1] = devList[at] /\ p[2] < slot

\* The interfaces of the list stand for these places, one for each.
StandsFor(g, list, S) ==
  /\ \A x, y \in 1 .. Len(list) : g[x] = g[y] => x = y
  /\ \A p \in S : \E x \in 1 .. Len(list) : g[x] = p
  /\ \A x \in 1 .. Len(list) :
       list[x].dev = g[x][1] /\ list[x].number = NumberAt(g[x])

Standing(list, S) == \E g \in [1 .. Len(list) -> S] : StandsFor(g, list, S)

InterfacesInv ==
  /\ ifaceList \in Seq(Range(ifaceList)) /\ live = Len(ifaceList)
  /\ slot \in Nat \ {0}
  /\ stage \in {"none", "options", "list", "open", "undo_open"} =>
       ifaceList = <<>> /\ ~ configHeld
  /\ configHeld => stage \in {"interfaces", "undo_list"}
  /\ stage = "interfaces" =>
       /\ at \in 1 .. Len(devList) + 1
       /\ configHeld =>
            at <= Len(devList) /\ slot <= Len(Interfaces[devList[at]]) + 1
       /\ Standing(ifaceList, {p \in Hids : Done(p)})
  /\ stage = "filter" =>
       /\ mask.iface # AnyIface =>
            /\ slot <= Len(ifaceList) + 1
            /\ \A x \in 1 .. slot - 1 : ifaceList[x].number = mask.iface
       /\ \E S \in SUBSET Hids :
            /\ Standing(ifaceList, S)
            /\ \A p \in Hids : NumberFits(NumberAt(p)) => p \in S
  /\ stage = "run" => Standing(ifaceList, {p \in Hids : NumberFits(NumberAt(p))})
  /\ stage \in {"none", "options", "exit"} => ~ context
  /\ stage = "exit" => opened = {} /\ live = 0

DiscoveryInv ==
  /\ DiscoveryTypeOK /\ OptionsInv /\ DevicesInv /\ InterfacesInv

-----------------------------------------------------------------------------
(***************************************************************************)
(* Sequences.                                                              *)
(***************************************************************************)

LEMMA Prepended ==
  ASSUME NEW S, NEW s \in Seq(S), NEW e
  PROVE  /\ <<e>> \o s \in Seq(S \cup {e})
         /\ Len(<<e>> \o s) = Len(s) + 1
         /\ (<<e>> \o s)[1] = e
         /\ \A k \in 1 .. Len(s) : (<<e>> \o s)[k + 1] = s[k]
         /\ \A k \in 2 .. Len(s) + 1 : (<<e>> \o s)[k] = s[k - 1]
<1>1. s \in Seq(S \cup {e}) /\ <<e>> \in Seq(S \cup {e}) BY SeqMonotonic
<1>2. QED BY <1>1, ConcatProperties

LEMMA Removed ==
  ASSUME NEW S, NEW s \in Seq(S), NEW k \in 1 .. Len(s)
  PROVE  /\ RemoveAt(s, k) \in Seq(S)
         /\ Len(RemoveAt(s, k)) = Len(s) - 1
         /\ \A j \in 1 .. Len(s) - 1 :
              RemoveAt(s, k)[j] = IF j < k THEN s[j] ELSE s[j + 1]
<1>1. /\ SubSeq(s, 1, k - 1) \in Seq(S) /\ Len(SubSeq(s, 1, k - 1)) = k - 1
      /\ \A j \in 1 .. k - 1 : SubSeq(s, 1, k - 1)[j] = s[j]
  BY SubSeqProperties
<1>2. /\ SubSeq(s, k + 1, Len(s)) \in Seq(S)
      /\ Len(SubSeq(s, k + 1, Len(s))) = Len(s) - k
      /\ \A j \in 1 .. Len(s) - k : SubSeq(s, k + 1, Len(s))[j] = s[j + k]
  <2>1. /\ k + 1 \in Int /\ Len(s) \in Int
        /\ \A j \in k + 1 .. Len(s) : s[j] \in S
    OBVIOUS
  <2>2. /\ SubSeq(s, k + 1, Len(s)) \in Seq(S)
        /\ Len(SubSeq(s, k + 1, Len(s))) =
             IF k + 1 <= Len(s) THEN Len(s) - (k + 1) + 1 ELSE 0
        /\ \A j \in 1 .. Len(s) - (k + 1) + 1 :
             SubSeq(s, k + 1, Len(s))[j] = s[k + 1 + j - 1]
    BY <2>1, SubSeqProperties
  <2>3. QED BY <2>2
<1> DEFINE a == SubSeq(s, 1, k - 1)
           b == SubSeq(s, k + 1, Len(s))
<1> HIDE DEF a, b
<1>3. /\ a \o b \in Seq(S) /\ Len(a \o b) = Len(s) - 1
      /\ \A j \in 1 .. Len(s) - 1 :
           (a \o b)[j] = IF j < k THEN s[j] ELSE s[j + 1]
  <2>1. /\ a \in Seq(S) /\ Len(a) = k - 1
        /\ \A j \in 1 .. k - 1 : a[j] = s[j]
    BY <1>1 DEF a
  <2>2. /\ b \in Seq(S) /\ Len(b) = Len(s) - k
        /\ \A j \in 1 .. Len(s) - k : b[j] = s[j + k]
    BY <1>2 DEF b
  <2>3. /\ a \o b \in Seq(S) /\ Len(a \o b) = Len(a) + Len(b)
        /\ \A j \in 1 .. Len(a) + Len(b) :
             (a \o b)[j] = IF j <= Len(a) THEN a[j] ELSE b[j - Len(a)]
    BY <2>1, <2>2, ConcatProperties
  <2>4. QED BY <2>1, <2>2, <2>3
<1>4. RemoveAt(s, k) = a \o b BY DEF RemoveAt, a, b
<1>5. QED BY <1>3, <1>4

LEMMA EmptyList == Once(<<>>) /\ Range(<<>>) = {}
BY DEF Once, Range

\* What has an element once is not longer than the set of elements is large.
LEMMA OnceIsShort ==
  ASSUME NEW S, IsFiniteSet(S), NEW s \in Seq(S), Once(s)
  PROVE  Len(s) <= Cardinality(S)
<1>1. s \in [1 .. Len(s) -> S] /\ DOMAIN s = 1 .. Len(s) BY LenProperties
<1>2. s \in Injection(1 .. Len(s), S) BY <1>1, Fun_IsInj DEF Once
<1>3. Cardinality(1 .. Len(s)) <= Cardinality(S) BY <1>2, FS_Injection
<1>4. Cardinality(1 .. Len(s)) = Len(s)
  BY <1>1, FS_Interval
<1>5. QED BY <1>3, <1>4

\* Something new in front.
LEMMA PrependedOnce ==
  ASSUME NEW S, NEW s \in Seq(S), Once(s), NEW e \in S, e \notin Range(s)
  PROVE  /\ <<e>> \o s \in Seq(S) /\ Once(<<e>> \o s)
         /\ Range(<<e>> \o s) = Range(s) \cup {e}
<1> DEFINE more == <<e>> \o s
<1>1. S \cup {e} = S OBVIOUS
<1>2. /\ more \in Seq(S) /\ Len(more) = Len(s) + 1 /\ more[1] = e
      /\ \A k \in 2 .. Len(s) + 1 : more[k] = s[k - 1]
  BY <1>1, Prepended
<1>3. Len(s) \in Nat /\ DOMAIN s = 1 .. Len(s) OBVIOUS
<1>4. DOMAIN more = 1 .. Len(s) + 1 BY <1>2, LenProperties
<1> HIDE DEF more
<1>5. \A k \in 1 .. Len(s) : s[k] # e BY <1>3 DEF Range
<1>6. Once(more)
  <2>1. SUFFICES ASSUME NEW j \in 1 .. Len(s) + 1, NEW k \in 1 .. Len(s) + 1,
                        more[j] = more[k]
                 PROVE  j = k
    BY <1>4 DEF Once
  <2>2. \A x \in 1 .. Len(s) + 1 : x # 1 =>
          x - 1 \in 1 .. Len(s) /\ more[x] = s[x - 1] /\ more[x] # e
    <3>1. TAKE x \in 1 .. Len(s) + 1
    <3>2. HAVE x # 1
    <3>3. x - 1 \in 1 .. Len(s) /\ more[x] = s[x - 1] BY <1>2, <1>3, <3>2
    <3>4. QED BY <1>5, <3>3
  <2>3. j = 1 <=> k = 1 BY <1>2, <2>1, <2>2
  <2>4. CASE j # 1
    <3>1. s[j - 1] = s[k - 1] BY <2>1, <2>2, <2>3, <2>4
    <3>2. j - 1 = k - 1 BY <1>3, <2>2, <2>3, <2>4, <3>1 DEF Once
    <3>3. QED BY <3>2
  <2>5. QED BY <2>3, <2>4
<1>7. Range(more) = Range(s) \cup {e}
  <2>1. ASSUME NEW k \in 1 .. Len(s) + 1
        PROVE  more[k] = e \/ \E j \in 1 .. Len(s) : more[k] = s[j]
    <3>1. CASE k = 1 BY <1>2, <3>1
    <3>2. CASE k # 1
      <4>1. k \in 2 .. Len(s) + 1 /\ k - 1 \in 1 .. Len(s) BY <1>3, <3>2
      <4>2. QED BY <1>2, <4>1
    <3>3. QED BY <3>1, <3>2
  <2>2. ASSUME NEW j \in 1 .. Len(s)
        PROVE  \E k \in 1 .. Len(s) + 1 : more[k] = s[j]
    <3>1. j + 1 \in 2 .. Len(s) + 1 /\ j + 1 \in 1 .. Len(s) + 1
          /\ (j + 1) - 1 = j
      BY <1>3
    <3>2. more[j + 1] = s[j] BY <1>2, <3>1
    <3>3. QED BY <3>1, <3>2
  <2>3. \E k \in 1 .. Len(s) + 1 : more[k] = e
    <3>1. 1 \in 1 .. Len(s) + 1 BY <1>3
    <3>2. QED BY <1>2, <3>1
  <2>4. \A x : x \in Range(more) <=> x = e \/ x \in Range(s)
    <3>1. \A x : x \in Range(more) <=> \E k \in 1 .. Len(s) + 1 : x = more[k]
      BY <1>4, Zenon DEF Range
    <3>2. \A x : x \in Range(s) <=> \E j \in 1 .. Len(s) : x = s[j]
      BY <1>3, Zenon DEF Range
    <3>3. QED BY <2>1, <2>2, <2>3, <3>1, <3>2
  <2>5. QED BY <2>4, Zenon
<1>8. QED BY <1>2, <1>6, <1>7 DEF more

\* The orders of a set have each of its elements once.
LEMMA OrdersOf ==
  ASSUME NEW S, IsFiniteSet(S), NEW s \in SetToSeqs(S)
  PROVE  s \in Seq(S) /\ Once(s) /\ Range(s) = S
<1> DEFINE n == Cardinality(S)
<1>1. n \in Nat BY FS_CardinalityType
<1>2. s \in [1 .. n -> S] /\ \A j, k \in 1 .. n : s[j] = s[k] => j = k
  BY DEF SetToSeqs
<1>3. s \in Seq(S) /\ DOMAIN s = 1 .. n BY <1>1, <1>2
<1>4. s \in Injection(1 .. n, S) BY <1>2, Fun_IsInj
<1>5. Cardinality(1 .. n) = n BY <1>1, FS_Interval
<1>6. s \in Surjection(1 .. n, S) BY <1>4, <1>5, FS_Injection
<1>7. QED BY <1>2, <1>3, <1>6, Fun_SurjectionProperties DEF Once

-----------------------------------------------------------------------------
(***************************************************************************)
(* Interfaces and the places they stand for.                               *)
(***************************************************************************)

LEMMA NoneStand == Standing(<<>>, {})
<1>1. [x \in 1 .. Len(<<>>) |-> x] \in [1 .. Len(<<>>) -> {}] OBVIOUS
<1>2. StandsFor([x \in 1 .. Len(<<>>) |-> x], <<>>, {}) BY DEF StandsFor
<1>3. QED BY <1>1, <1>2 DEF Standing

\* One more interface stands for one more place.
LEMMA OneMoreStands ==
  ASSUME NEW R, NEW list \in Seq(R), NEW S, Standing(list, S),
         NEW f, NEW p, p \notin S, f.dev = p[1], f.number = NumberAt(p)
  PROVE  Standing(<<f>> \o list, S \cup {p})
<1>1. PICK g \in [1 .. Len(list) -> S] : StandsFor(g, list, S) BY DEF Standing
<1> DEFINE more == <<f>> \o list
           h == [x \in 1 .. Len(list) + 1 |-> IF x = 1 THEN p ELSE g[x - 1]]
<1>2. /\ Len(list) \in Nat /\ Len(more) = Len(list) + 1 /\ more[1] = f
      /\ \A x \in 2 .. Len(list) + 1 : more[x] = list[x - 1]
  BY Prepended
<1> HIDE DEF more
<1>3. h \in [1 .. Len(more) -> S \cup {p}] BY <1>2
<1>4. \A x, y \in 1 .. Len(more) : h[x] = h[y] => x = y
  <2>1. TAKE x, y \in 1 .. Len(more)
  <2>2. HAVE h[x] = h[y]
  <2>3. \A z \in 1 .. Len(more) : z # 1 => h[z] = g[z - 1] /\ h[z] \in S
    BY <1>2
  <2>4. h[1] = p BY <1>2
  <2> HIDE DEF h
  <2>5. x = 1 <=> y = 1 BY <2>2, <2>3, <2>4
  <2>6. CASE x # 1
    <3>1. g[x - 1] = g[y - 1] BY <2>2, <2>3, <2>5, <2>6
    <3>2. x - 1 \in 1 .. Len(list) /\ y - 1 \in 1 .. Len(list)
      BY <1>2, <2>5, <2>6
    <3>3. x - 1 = y - 1 BY <1>1, <3>1, <3>2 DEF StandsFor
    <3>4. QED BY <3>3
  <2>7. QED BY <2>5, <2>6
<1>5. \A q \in S \cup {p} : \E x \in 1 .. Len(more) : h[x] = q
  <2>1. TAKE q \in S \cup {p}
  <2>2. CASE q = p BY <1>2, <2>2
  <2>3. CASE q \in S
    <3>1. PICK x \in 1 .. Len(list) : g[x] = q BY <1>1, <2>3 DEF StandsFor
    <3>2. x + 1 \in 1 .. Len(more) /\ h[x + 1] = q BY <1>2, <3>1
    <3>3. QED BY <3>2
  <2>4. QED BY <2>2, <2>3
<1>6. \A x \in 1 .. Len(more) :
        more[x].dev = h[x][1] /\ more[x].number = NumberAt(h[x])
  <2>1. TAKE x \in 1 .. Len(more)
  <2>2. CASE x = 1 BY <1>2, <2>2
  <2>3. CASE x # 1
    <3>1. x - 1 \in 1 .. Len(list) /\ more[x] = list[x - 1] /\ h[x] = g[x - 1]
      BY <1>2, <2>3
    <3> HIDE DEF h
    <3>2. QED BY <1>1, <3>1 DEF StandsFor
  <2>4. QED BY <2>2, <2>3
<1>7. StandsFor(h, more, S \cup {p}) BY <1>4, <1>5, <1>6 DEF StandsFor
<1>8. QED BY <1>3, <1>7 DEF Standing, more

\* Without one of the interfaces the others stand for one place less.
LEMMA OneLessStands ==
  ASSUME NEW R, NEW list \in Seq(R), NEW S, Standing(list, S),
         NEW k \in 1 .. Len(list)
  PROVE  \E p \in S : /\ NumberAt(p) = list[k].number
                      /\ Standing(RemoveAt(list, k), S \ {p})
<1>1. PICK g \in [1 .. Len(list) -> S] : StandsFor(g, list, S) BY DEF Standing
<1> DEFINE less == RemoveAt(list, k)
           h == [x \in 1 .. Len(list) - 1 |-> IF x < k THEN g[x] ELSE g[x + 1]]
           T == S \ {g[k]}
<1>2. /\ Len(list) \in Nat /\ Len(less) = Len(list) - 1
      /\ \A x \in 1 .. Len(list) - 1 :
           less[x] = IF x < k THEN list[x] ELSE list[x + 1]
  <2>1. Len(list) \in Nat OBVIOUS
  <2>2. QED BY <2>1, Removed, Zenon
<1> HIDE DEF less
<1>3. h \in [1 .. Len(less) -> T] BY <1>1, <1>2 DEF StandsFor
<1>4. \A x, y \in 1 .. Len(less) : h[x] = h[y] => x = y
  BY <1>1, <1>2 DEF StandsFor
<1>5. \A q \in T : \E x \in 1 .. Len(less) : h[x] = q
  <2>1. TAKE q \in T
  <2>2. PICK x \in 1 .. Len(list) : g[x] = q /\ x # k
    BY <1>1 DEF StandsFor
  <2>3. CASE x < k
    <3>1. x \in 1 .. Len(less) /\ h[x] = q BY <1>2, <2>2, <2>3
    <3>2. QED BY <3>1
  <2>4. CASE x > k
    <3>1. x - 1 \in 1 .. Len(less) /\ h[x - 1] = q BY <1>2, <2>2, <2>4
    <3>2. QED BY <3>1
  <2>5. x < k \/ x > k BY <2>2
  <2>6. QED BY <2>3, <2>4, <2>5
<1>6. \A x \in 1 .. Len(less) :
        less[x].dev = h[x][1] /\ less[x].number = NumberAt(h[x])
  <2>1. TAKE x \in 1 .. Len(less)
  <2>2. CASE x < k
    <3>1. x \in 1 .. Len(list) /\ less[x] = list[x] /\ h[x] = g[x]
      BY <1>2, <2>2
    <3> HIDE DEF h
    <3>2. QED BY <1>1, <3>1 DEF StandsFor
  <2>3. CASE ~ (x < k)
    <3>1. x + 1 \in 1 .. Len(list) /\ less[x] = list[x + 1] /\ h[x] = g[x + 1]
      BY <1>2, <2>3
    <3> HIDE DEF h
    <3>2. QED BY <1>1, <3>1 DEF StandsFor
  <2>4. QED BY <2>2, <2>3
<1>7. Standing(less, T) BY <1>3, <1>4, <1>5, <1>6 DEF StandsFor, Standing
<1>8. g[k] \in S /\ NumberAt(g[k]) = list[k].number BY <1>1 DEF StandsFor
<1>9. QED BY <1>7, <1>8 DEF less

\* What the interfaces that stand for places are.
LEMMA WhatStands ==
  ASSUME NEW R, NEW list \in Seq(R), NEW S, Standing(list, S)
  PROVE  /\ Len(list) = Cardinality(S)
         /\ \A p \in S : \E x \in 1 .. Len(list) :
              list[x].dev = p[1] /\ list[x].number = NumberAt(p)
         /\ \A x \in 1 .. Len(list) : \E p \in S :
              list[x].dev = p[1] /\ list[x].number = NumberAt(p)
<1>1. PICK g \in [1 .. Len(list) -> S] : StandsFor(g, list, S) BY DEF Standing
<1>2. Len(list) \in Nat OBVIOUS
<1>3. g \in Bijection(1 .. Len(list), S)
  BY <1>1, Fun_IsBij DEF StandsFor
<1>4. ExistsBijection(1 .. Len(list), S) BY <1>3 DEF ExistsBijection
<1>5. Len(list) = Cardinality(S) BY <1>2, <1>4, FS_CountingElements
<1>6. QED BY <1>1, <1>5 DEF StandsFor

-----------------------------------------------------------------------------
(***************************************************************************)
(* What a step that concerns something else leaves true.                   *)
(***************************************************************************)

LEMMA OptionsKept ==
  ASSUME OptionsInv, UNCHANGED optionVars,
         stage' = stage \/ stage \notin {"none", "options", "exit"}
  PROVE  OptionsInv'
<1>1. Parsed' = Parsed BY DEF Parsed, optionVars
<1>2. \A opt : NoneParsed(opt)' <=> NoneParsed(opt)
  BY <1>1 DEF NoneParsed, optionVars
<1>3. \A opt, k : LastParsed(opt, k)' <=> LastParsed(opt, k)
  BY <1>1 DEF LastParsed, optionVars
<1>4. line' = line /\ word' = word /\ mask' = mask BY DEF optionVars
<1>5. QED BY <1>1, <1>2, <1>3, <1>4 DEF OptionsInv

LEMMA DevicesKept ==
  ASSUME DevicesInv, plugged' \subseteq Devices,
         UNCHANGED <<mask, usbList, at, known, devList, opened>>,
         stage' = stage
  PROVE  DevicesInv'
<1>1. \A d : Fits(d)' <=> Fits(d) BY DEF Fits, AddressFits, ModelFits
<1>2. {d \in known' : Fits(d)'} = {d \in known : Fits(d)} BY <1>1
<1>3. {usbList'[j] : j \in {k \in 1 .. at' - 1 : Fits(usbList[k])'}}
        = {usbList[j] : j \in {k \in 1 .. at - 1 : Fits(usbList[k])}}
  BY <1>1
<1>4. QED BY <1>2, <1>3 DEF DevicesInv, Once

\* The steps with the list of interfaces.
LEMMA DevicesListed ==
  ASSUME DevicesInv, UNCHANGED <<plugged, mask, usbList, known, deviceVars>>,
         stage \in {"interfaces", "undo_list", "filter", "run"},
         stage' \in {"interfaces", "undo_list", "filter", "run", "cleanup"},
         stage' \in {"interfaces", "filter", "run"} =>
           stage \in {"interfaces", "filter", "run"}
  PROVE  DevicesInv'
<1>1. \A d : Fits(d)' <=> Fits(d) BY DEF Fits, AddressFits, ModelFits
<1>2. {d \in known' : Fits(d)'} = {d \in known : Fits(d)} BY <1>1
<1>3. QED BY <1>2 DEF DevicesInv, Once

LEMMA HidsKept ==
  ASSUME UNCHANGED <<known, mask>>
  PROVE  Hids' = Hids /\ \A n : NumberFits(n)' <=> NumberFits(n)
BY DEF Hids, Places, Fits, AddressFits, ModelFits, NumberFits

LEMMA InterfacesKept ==
  ASSUME InterfacesInv,
         UNCHANGED <<stage, mask, context, at, known, deviceVars, ifaceVars>>
  PROVE  InterfacesInv'
<1>1. Hids' = Hids /\ \A n : NumberFits(n)' <=> NumberFits(n) BY HidsKept
<1>2. \A p : Done(p)' <=> Done(p) BY DEF Done, Listing
<1>3. {p \in Hids' : Done(p)'} = {p \in Hids : Done(p)} BY <1>1, <1>2
<1>4. {p \in Hids' : NumberFits(NumberAt(p))'} = {p \in Hids : NumberFits(NumberAt(p))}
  BY <1>1
<1>5. QED BY <1>1, <1>3, <1>4 DEF InterfacesInv

LEMMA BusKeepsInv ==
  ASSUME DiscoveryInv, plugged' \subseteq Devices,
         UNCHANGED <<stage, optionVars, context, listVars, deviceVars,
                     ifaceVars, ended>>
  PROVE  DiscoveryInv'
<1>1. DiscoveryTypeOK'
  <2>1. /\ stage' = stage /\ mask' = mask /\ at' = at /\ known' = known
        /\ usbList' = usbList /\ devList' = devList /\ opened' = opened
        /\ configHeld' = configHeld /\ slot' = slot /\ live' = live
        /\ ended' = ended /\ context' = context
    OBVIOUS
  <2>2. DiscoveryTypeOK BY DEF DiscoveryInv
  <2>3. QED BY <2>1, <2>2 DEF DiscoveryTypeOK
<1>2. OptionsInv' BY OptionsKept DEF DiscoveryInv
<1>3. DevicesInv' BY DevicesKept DEF DiscoveryInv
<1>4. InterfacesInv' BY InterfacesKept DEF DiscoveryInv
<1>5. QED BY <1>1, <1>2, <1>3, <1>4 DEF DiscoveryInv

-----------------------------------------------------------------------------
(***************************************************************************)
(* Each step keeps the invariant.                                          *)
(***************************************************************************)

\* It holds before the program runs and when it starts.
LEMMA DiscoveryAtInv ==
  ASSUME SoundDiscovery, plugged \subseteq Devices,
         NEW point \in {"none", "options"}, NEW lines \in SUBSET Seq(Options),
         DiscoveryAt(point, lines)
  PROVE  DiscoveryInv
<1> USE DEF DiscoveryAt
<1>1. DiscoveryTypeOK
  <2>1. Cardinality(Devices) \in Nat BY FS_CardinalityType DEF SoundDiscovery
  <2>2. 0 \in UINT8 /\ 255 \in UINT8 BY DEF UINT8
  <2>3. 0 \in UINT16 BY DEF UINT16
  <2>4. mask \in [bus : UINT8, dev : UINT8, vid : UINT16, pid : UINT16,
                  iface : UINT8]
    BY <2>2, <2>3 DEF NoMask, AnyNumber, AnyIface
  <2>5. context \in BOOLEAN /\ configHeld \in BOOLEAN BY Zenon
  <2>6. usbList \in Seq(Devices) /\ devList \in Seq(Devices) BY EmptySeq
  <2>7. /\ stage \in {"none", "options"} /\ at = 1 /\ known = {} /\ opened = {}
        /\ slot = 1 /\ live = 0 /\ ended = 0
    OBVIOUS
  <2>8. at \in 1 .. Cardinality(Devices) + 1 BY <2>1, <2>7
  <2>9. slot \in Nat /\ live \in Nat /\ ended \in {0, 1} BY <2>7
  <2> HIDE DEF DiscoveryAt
  <2>10. QED BY <2>4, <2>5, <2>6, <2>7, <2>8, <2>9, Zenon DEF DiscoveryTypeOK
<1>2. OptionsInv
  <2>1. line \in Seq(Options) /\ word = line /\ stage = point OBVIOUS
  <2>2. mask.bus = 0 /\ mask.dev = 0 /\ mask.vid = 0 /\ mask.pid = 0
        /\ mask.iface = 255
    BY DEF NoMask, AnyNumber, AnyIface
  <2>3. Parsed = 0 BY <2>1 DEF Parsed
  <2>4. \A opt : NoneParsed(opt) BY <2>3 DEF NoneParsed
  <2>5. QED BY <2>1, <2>2, <2>3, <2>4 DEF OptionsInv
<1>3. DevicesInv BY DEF DevicesInv, Once, Range
<1>4. InterfacesInv
  <2>1. /\ ifaceList = <<>> /\ ifaceList \in Seq(Range(ifaceList))
        /\ live = Len(ifaceList)
    BY EmptySeq
  <2>2. ~ configHeld /\ ~ context BY Zenon
  <2>3. stage \in {"none", "options"} /\ slot \in Nat \ {0} OBVIOUS
  <2> HIDE DEF DiscoveryAt
  <2>4. QED BY <2>1, <2>2, <2>3 DEF InterfacesInv
<1>5. QED BY <1>1, <1>2, <1>3, <1>4 DEF DiscoveryInv

\* The option at hand is the last one parsed of its kind.
LEMMA OneMoreParsed ==
  ASSUME OptionsInv, word # <<>>, word' = Tail(word), line' = line
  PROVE  /\ word' \in Seq(Options) /\ Len(word') <= Len(line')
         /\ \A k \in 1 .. Len(word') : word'[k] = line'[Parsed' + k]
         /\ Parsed' = Parsed + 1 /\ Parsed \in Nat
         /\ Head(word) \in Options
         /\ \A k, opt : k = Parsed + 1 /\ opt = Head(word).opt => LastParsed(opt, k)'
         /\ line'[Parsed + 1] = Head(word)
         /\ \A opt : opt # Head(word).opt =>
              /\ NoneParsed(opt) => NoneParsed(opt)'
              /\ \A k \in 1 .. Parsed : LastParsed(opt, k) => LastParsed(opt, k)'
<1>1. /\ Head(word) = word[1] /\ Head(word) \in Options
      /\ word' \in Seq(Options) /\ Len(word') = Len(word) - 1
      /\ \A k \in 1 .. Len(word') : word'[k] = word[k + 1]
      /\ Len(word) \in Nat /\ Len(word) > 0 /\ Len(line) \in Nat
  BY HeadTailProperties DEF OptionsInv
<1>2. Parsed' = Parsed + 1 /\ Parsed \in Nat
  BY <1>1 DEF Parsed, OptionsInv
<1>3. line[Parsed + 1] = Head(word) BY <1>1 DEF OptionsInv
<1>4. \A k, opt : k = Parsed + 1 /\ opt = Head(word).opt => LastParsed(opt, k)'
  BY <1>2, <1>3 DEF LastParsed
<1>5. \A k \in 1 .. Len(word') : word'[k] = line'[Parsed' + k]
  <2>1. TAKE k \in 1 .. Len(word')
  <2>2. k + 1 \in 1 .. Len(word) /\ word'[k] = word[k + 1] BY <1>1
  <2>3. word[k + 1] = line[Parsed + (k + 1)] BY <2>2 DEF OptionsInv
  <2>4. Parsed + (k + 1) = Parsed' + k BY <1>2
  <2>5. QED BY <2>2, <2>3, <2>4
<1>6. \A j \in 1 .. Parsed' : j \in 1 .. Parsed \/ j = Parsed + 1 BY <1>2
<1>7. ASSUME NEW opt, opt # Head(word).opt
      PROVE  /\ NoneParsed(opt) => NoneParsed(opt)'
             /\ \A k \in 1 .. Parsed : LastParsed(opt, k) => LastParsed(opt, k)'
  BY <1>2, <1>3, <1>6, <1>7 DEF NoneParsed, LastParsed
<1>8. Len(word') <= Len(line') BY <1>1 DEF OptionsInv
<1>9. QED BY <1>1, <1>2, <1>3, <1>4, <1>5, <1>7, <1>8

LEMMA OptionKeepsInv == ASSUME DiscoveryInv, Option PROVE DiscoveryInv'
<1> DEFINE o == Head(word)
<1>1. /\ stage = "options" /\ word # <<>> /\ word' = Tail(word) /\ line' = line
      /\ UNCHANGED <<plugged, context, listVars, deviceVars, ifaceVars>>
  BY DEF Option
<1>2. \/ /\ stage' = "exit" /\ ended' \in {0, 1} /\ mask' = mask
      \/ /\ o.opt = "a" /\ o.n \in UINT8 /\ o.m \in UINT8
         /\ mask' = [mask EXCEPT !.bus = o.n, !.dev = o.m]
         /\ UNCHANGED <<stage, ended>>
      \/ /\ o.opt = "m" /\ o.n \in UINT16 /\ o.m \in UINT16
         /\ mask' = [mask EXCEPT !.vid = o.n, !.pid = o.m]
         /\ UNCHANGED <<stage, ended>>
      \/ /\ o.opt = "i" /\ o.n \in UINT8
         /\ mask' = [mask EXCEPT !.iface = o.n]
         /\ UNCHANGED <<stage, ended>>
      \/ o.opt = "operand" /\ UNCHANGED <<mask, stage, ended>>
  BY DEF Option, Exit, parse_address, parse_model, parse_iface_num
<1> HIDE DEF o
<1>3. stage' \in {"options", "exit"} BY <1>1, <1>2
<1>4. mask \in [bus : UINT8, dev : UINT8, vid : UINT16, pid : UINT16,
                iface : UINT8]
  BY DEF DiscoveryInv, DiscoveryTypeOK
<1>5. DiscoveryTypeOK'
  <2>1. mask' \in [bus : UINT8, dev : UINT8, vid : UINT16, pid : UINT16,
                   iface : UINT8]
    BY <1>2, <1>4
  <2>2. ended' \in {0, 1} BY <1>2 DEF DiscoveryInv, DiscoveryTypeOK
  <2>3. QED BY <1>1, <1>3, <2>1, <2>2 DEF DiscoveryInv, DiscoveryTypeOK
<1>6. OptionsInv'
  <2>1. OptionsInv BY DEF DiscoveryInv
  <2>2. /\ word' \in Seq(Options) /\ Len(word') <= Len(line')
        /\ \A k \in 1 .. Len(word') : word'[k] = line'[Parsed' + k]
        /\ Parsed' = Parsed + 1 /\ Parsed \in Nat
        /\ \A k, opt : k = Parsed + 1 /\ opt = o.opt => LastParsed(opt, k)'
        /\ line'[Parsed + 1] = o
        /\ \A opt : opt # o.opt =>
              /\ NoneParsed(opt) => NoneParsed(opt)'
              /\ \A k \in 1 .. Parsed : LastParsed(opt, k) => LastParsed(opt, k)'
    BY <1>1, <2>1, OneMoreParsed DEF o
  <2>3. CASE stage' = "exit"
    BY <1>1, <2>1, <2>2, <2>3 DEF OptionsInv
  <2>4. CASE stage' = stage
    <3>1. \/ /\ o.opt = "a" /\ mask'.bus = o.n /\ mask'.dev = o.m
             /\ UNCHANGED <<mask.vid, mask.pid, mask.iface>>
          \/ /\ o.opt = "m" /\ mask'.vid = o.n /\ mask'.pid = o.m
             /\ UNCHANGED <<mask.bus, mask.dev, mask.iface>>
          \/ /\ o.opt = "i" /\ mask'.iface = o.n
             /\ UNCHANGED <<mask.bus, mask.dev, mask.vid, mask.pid>>
          \/ o.opt \notin {"a", "m", "i"} /\ mask' = mask
      BY <1>1, <1>2, <1>4, <2>4
    <3>2. Parsed + 1 \in 1 .. Parsed' /\ \A k \in 1 .. Parsed : k \in 1 .. Parsed' /\ line'[k] = line[k]
      BY <1>1, <2>2
    <3>3. \/ NoneParsed("a") /\ mask.bus = 0 /\ mask.dev = 0
          \/ \E k \in 1 .. Parsed :
               LastParsed("a", k) /\ mask.bus = line[k].n /\ mask.dev = line[k].m
      BY <1>1, <2>1 DEF OptionsInv
    <3>4. \/ NoneParsed("m") /\ mask.vid = 0 /\ mask.pid = 0
          \/ \E k \in 1 .. Parsed :
               LastParsed("m", k) /\ mask.vid = line[k].n /\ mask.pid = line[k].m
      BY <1>1, <2>1 DEF OptionsInv
    <3>5. \/ NoneParsed("i") /\ mask.iface = 255
          \/ \E k \in 1 .. Parsed : LastParsed("i", k) /\ mask.iface = line[k].n
      BY <1>1, <2>1 DEF OptionsInv
    <3>6. \/ NoneParsed("a")' /\ mask'.bus = 0 /\ mask'.dev = 0
          \/ \E k \in 1 .. Parsed' :
               LastParsed("a", k)' /\ mask'.bus = line'[k].n /\ mask'.dev = line'[k].m
      <4>1. CASE o.opt = "a" /\ mask'.bus = o.n /\ mask'.dev = o.m
        BY <2>2, <3>2, <4>1
      <4>2. CASE o.opt # "a" /\ UNCHANGED <<mask.bus, mask.dev>>
        BY <2>2, <3>2, <3>3, <4>2
      <4>3. QED BY <3>1, <4>1, <4>2
    <3>7. \/ NoneParsed("m")' /\ mask'.vid = 0 /\ mask'.pid = 0
          \/ \E k \in 1 .. Parsed' :
               LastParsed("m", k)' /\ mask'.vid = line'[k].n /\ mask'.pid = line'[k].m
      <4>1. CASE o.opt = "m" /\ mask'.vid = o.n /\ mask'.pid = o.m
        BY <2>2, <3>2, <4>1
      <4>2. CASE o.opt # "m" /\ UNCHANGED <<mask.vid, mask.pid>>
        BY <2>2, <3>2, <3>4, <4>2
      <4>3. QED BY <3>1, <4>1, <4>2
    <3>8. \/ NoneParsed("i")' /\ mask'.iface = 255
          \/ \E k \in 1 .. Parsed' : LastParsed("i", k)' /\ mask'.iface = line'[k].n
      <4>1. CASE o.opt = "i" /\ mask'.iface = o.n
        BY <2>2, <3>2, <4>1
      <4>2. CASE o.opt # "i" /\ UNCHANGED mask.iface
        BY <2>2, <3>2, <3>5, <4>2
      <4>3. QED BY <3>1, <4>1, <4>2
    <3>9. QED BY <1>1, <2>1, <2>2, <2>4, <3>6, <3>7, <3>8 DEF OptionsInv
  <2>5. QED BY <1>2, <2>3, <2>4
<1>7. DevicesInv'
  BY <1>1, <1>3 DEF DiscoveryInv, DevicesInv, Once
<1>8. InterfacesInv'
  <2>1. devList = <<>> /\ opened = Range(devList) /\ ifaceList = <<>>
        /\ ~ configHeld /\ ~ context /\ live = 0
    BY <1>1 DEF DiscoveryInv, DevicesInv, InterfacesInv
  <2>2. opened = {} BY <2>1 DEF Range
  <2>3. QED BY <1>1, <1>3, <2>1, <2>2 DEF DiscoveryInv, InterfacesInv
<1>9. QED BY <1>5, <1>6, <1>7, <1>8 DEF DiscoveryInv

LEMMA InitLibusbKeepsInv ==
  ASSUME DiscoveryInv, libusb_init PROVE DiscoveryInv'
<1> USE DEF DiscoveryInv
<1>1. /\ stage = "options" /\ word = <<>>
      /\ stage' = "list" \/ (stage' = "exit" /\ context' = context)
      /\ ended' \in {0, 1} /\ context' \in BOOLEAN
      /\ UNCHANGED <<plugged, optionVars, listVars, deviceVars, ifaceVars>>
  BY DEF libusb_init, Exit, DiscoveryTypeOK
<1>2. DiscoveryTypeOK' BY <1>1 DEF DiscoveryTypeOK
<1>3. OptionsInv' BY <1>1 DEF OptionsInv, Parsed, LastParsed, NoneParsed
<1>4. DevicesInv' BY <1>1 DEF DevicesInv, Once
<1>5. InterfacesInv'
  <2>1. devList = <<>> /\ opened = Range(devList) /\ ifaceList = <<>>
        /\ ~ configHeld /\ ~ context /\ live = 0
    BY <1>1 DEF DevicesInv, InterfacesInv
  <2>2. opened = {} BY <2>1 DEF Range
  <2>3. /\ ifaceList' = <<>> /\ live' = 0 /\ opened' = {} /\ ifaceList' \in Seq(Range(ifaceList'))
    BY <1>1, <2>1, <2>2 DEF InterfacesInv
  <2>4. ~ configHeld' /\ (stage' = "exit" => ~ context')
    <3>1. configHeld' = configHeld /\ (stage' = "exit" => context' = context)
      BY <1>1
    <3>2. QED BY <2>1, <3>1
  <2>5. stage' \in {"list", "exit"} BY <1>1
  <2> HIDE DEF DiscoveryInv
  <2>6. live' = Len(ifaceList') /\ slot' \in Nat \ {0}
    BY <1>1, <2>3 DEF InterfacesInv, DiscoveryInv
  <2>7. QED BY <2>3, <2>4, <2>5, <2>6 DEF InterfacesInv
<1>6. QED BY <1>2, <1>3, <1>4, <1>5

LEMMA GetDeviceListKeepsInv ==
  ASSUME DiscoveryInv, SoundDiscovery, GetDeviceList PROVE DiscoveryInv'
<1> USE DEF DiscoveryInv
<1>1. /\ stage = "list" /\ stage' \in {"open", "undo_open"}
      /\ UNCHANGED <<plugged, optionVars, context, at, deviceVars, ifaceVars,
                     ended>>
  BY DEF GetDeviceList
<1>2. usbList = <<>> /\ devList = <<>> /\ at = 1 /\ known = {}
      /\ plugged \subseteq Devices /\ opened = Range(devList)
  BY <1>1 DEF DevicesInv
<1>3. Range(<<>>) = {} BY DEF Range
<1>4. usbList' \in Seq(Devices) /\ known' \subseteq Devices /\ Once(usbList')
      /\ Range(usbList') = known'
  <2>1. CASE \E l \in SetToSeqs(plugged) : usbList' = l /\ known' = plugged
    <3>1. PICK l \in SetToSeqs(plugged) : usbList' = l /\ known' = plugged
      BY <2>1
    <3>2. IsFiniteSet(plugged) BY <1>2, FS_Subset DEF SoundDiscovery
    <3>3. l \in Seq(plugged) /\ Once(l) /\ Range(l) = plugged
      BY <3>2, OrdersOf
    <3>4. l \in Seq(Devices) BY <1>2, <3>3, SeqMonotonic
    <3>5. QED BY <1>2, <3>1, <3>3, <3>4
  <2>2. CASE UNCHANGED <<known, usbList>>
    BY <1>2, <1>3, <2>2, EmptySeq DEF Once
  <2>3. QED BY <2>1, <2>2 DEF GetDeviceList
<1>5. DiscoveryTypeOK' BY <1>1, <1>4 DEF DiscoveryTypeOK
<1>6. OptionsInv' BY <1>1, OptionsKept
<1>7. DevicesInv'
  <2>1. at' = 1 BY <1>1, <1>2
  <2>2. {k \in 1 .. at' - 1 : Fits(usbList[k])'} = {} BY <2>1
  <2>3. {usbList'[j] : j \in {k \in 1 .. at' - 1 : Fits(usbList[k])'}} = {}
    BY <2>2, Zenon
  <2>4. at' \in 1 .. Len(usbList') + 1 BY <1>4, <2>1
  <2>5. devList' = devList /\ opened' = opened BY <1>1
  <2>6. Once(devList') BY <1>2, <2>5 DEF Once
  <2>7. opened' = Range(devList') /\ Range(devList') = {}
    BY <1>2, <1>3, <2>5, Zenon
  <2>8. QED BY <1>1, <1>2, <1>4, <2>3, <2>4, <2>6, <2>7 DEF DevicesInv
<1>8. InterfacesInv' BY <1>1 DEF InterfacesInv
<1>9. QED BY <1>5, <1>6, <1>7, <1>8

LEMMA SkipDeviceKeepsInv ==
  ASSUME DiscoveryInv, SoundDiscovery, SkipDevice PROVE DiscoveryInv'
<1> USE DEF DiscoveryInv
<1>1. /\ stage = "open" /\ at <= Len(usbList) /\ ~ Fits(usbList[at])
      /\ at' = at + 1
      /\ UNCHANGED <<plugged, stage, optionVars, context, usbList, known,
                     deviceVars, ifaceVars, ended>>
  BY DEF SkipDevice, Opening, Fits
<1>2. /\ usbList \in Seq(Devices) /\ at \in 1 .. Len(usbList) /\ Len(usbList) \in Nat
  BY <1>1 DEF DiscoveryTypeOK, DevicesInv
<1>3. DiscoveryTypeOK'
  <2>1. Len(usbList) <= Cardinality(Devices)
    BY <1>2, OnceIsShort DEF SoundDiscovery, DevicesInv
  <2>2. Cardinality(Devices) \in Nat BY FS_CardinalityType DEF SoundDiscovery
  <2>3. at' \in 1 .. Cardinality(Devices) + 1 BY <1>1, <1>2, <2>1, <2>2
  <2>4. QED BY <1>1, <2>3 DEF DiscoveryTypeOK
<1>4. OptionsInv' BY <1>1, OptionsKept
<1>5. DevicesInv'
  <2>1. \A d : Fits(d)' <=> Fits(d)
    BY <1>1 DEF Fits, AddressFits, ModelFits
  <2>2. {k \in 1 .. at' - 1 : Fits(usbList[k])'} = {k \in 1 .. at - 1 : Fits(usbList[k])}
    BY <1>1, <1>2, <2>1
  <2>3. {usbList'[j] : j \in {k \in 1 .. at' - 1 : Fits(usbList[k])'}}
          = {usbList[j] : j \in {k \in 1 .. at - 1 : Fits(usbList[k])}}
    BY <1>1, <2>2
  <2>4. at' \in 1 .. Len(usbList') + 1 BY <1>1, <1>2
  <2>5. QED BY <1>1, <2>3, <2>4 DEF DevicesInv, Once
<1>6. InterfacesInv' BY <1>1 DEF InterfacesInv
<1>7. QED BY <1>3, <1>4, <1>5, <1>6

LEMMA OpenDeviceKeepsInv ==
  ASSUME DiscoveryInv, SoundDiscovery, OpenDevice PROVE DiscoveryInv'
<1> USE DEF DiscoveryInv
<1> DEFINE d == usbList[at]
<1>1. /\ stage = "open" /\ at <= Len(usbList) /\ Fits(d)
      /\ at' = at + 1 /\ devList' = <<d>> \o devList /\ opened' = opened \cup {d}
      /\ UNCHANGED <<plugged, stage, optionVars, context, usbList, known,
                     ifaceVars, ended>>
  BY DEF OpenDevice, Opening, Fits
<1>2. /\ usbList \in Seq(Devices) /\ at \in 1 .. Len(usbList)
      /\ Len(usbList) \in Nat /\ d \in Devices /\ devList \in Seq(Devices)
  BY <1>1 DEF DiscoveryTypeOK, DevicesInv
<1>3. d \notin Range(devList)
  <2>1. \A j \in 1 .. at - 1 : usbList[j] # d
    <3>1. DOMAIN usbList = 1 .. Len(usbList) BY <1>2
    <3>2. Once(usbList) BY DEF DevicesInv
    <3>3. QED BY <1>2, <3>1, <3>2 DEF Once
  <2>2. QED BY <1>1, <2>1 DEF DevicesInv
<1>4. /\ devList' \in Seq(Devices) /\ Once(devList')
      /\ Range(devList') = Range(devList) \cup {d}
  <2>1. Once(devList) BY DEF DevicesInv
  <2> HIDE DEF d
  <2>2. /\ <<d>> \o devList \in Seq(Devices) /\ Once(<<d>> \o devList)
        /\ Range(<<d>> \o devList) = Range(devList) \cup {d}
    BY <1>2, <1>3, <2>1, PrependedOnce
  <2>3. QED BY <1>1, <2>2, Zenon
<1>5. DiscoveryTypeOK'
  <2>1. Len(usbList) <= Cardinality(Devices)
    BY <1>2, OnceIsShort DEF SoundDiscovery, DevicesInv
  <2>2. Cardinality(Devices) \in Nat BY FS_CardinalityType DEF SoundDiscovery
  <2>3. at' \in 1 .. Cardinality(Devices) + 1 BY <1>1, <1>2, <2>1, <2>2
  <2>4. opened' \subseteq Devices BY <1>1, <1>2 DEF DiscoveryTypeOK
  <2>5. QED BY <1>1, <1>4, <2>3, <2>4 DEF DiscoveryTypeOK
<1>6. OptionsInv' BY <1>1, OptionsKept
<1>7. DevicesInv'
  <2>1. \A e : Fits(e)' <=> Fits(e)
    BY <1>1 DEF Fits, AddressFits, ModelFits
  <2>2. {k \in 1 .. at' - 1 : Fits(usbList[k])'}
          = {k \in 1 .. at - 1 : Fits(usbList[k])} \cup {at}
    BY <1>1, <1>2, <2>1
  <2>3. {usbList'[j] : j \in {k \in 1 .. at' - 1 : Fits(usbList[k])'}}
          = {usbList[j] : j \in {k \in 1 .. at - 1 : Fits(usbList[k])}} \cup {d}
    BY <1>1, <2>2
  <2>4. at' \in 1 .. Len(usbList') + 1 BY <1>1, <1>2
  <2>5. opened' = Range(devList') BY <1>1, <1>4 DEF DevicesInv
  <2>6. Range(devList') = {usbList'[j] : j \in {k \in 1 .. at' - 1 : Fits(usbList[k])'}}
    BY <1>1, <1>4, <2>3 DEF DevicesInv
  <2>7. QED BY <1>1, <1>4, <2>4, <2>5, <2>6 DEF DevicesInv, Once
<1>8. InterfacesInv' BY <1>1 DEF InterfacesInv
<1>9. QED BY <1>5, <1>6, <1>7, <1>8

LEMMA DeviceFailsKeepsInv ==
  ASSUME DiscoveryInv, DeviceFails PROVE DiscoveryInv'
<1> USE DEF DiscoveryInv
<1>1. /\ stage = "open" /\ stage' = "undo_open"
      /\ UNCHANGED <<plugged, optionVars, context, listVars, deviceVars,
                     ifaceVars, ended>>
  BY DEF DeviceFails, Opening
<1>2. DiscoveryTypeOK' BY <1>1 DEF DiscoveryTypeOK
<1>3. OptionsInv' BY <1>1, OptionsKept
<1>4. DevicesInv' BY <1>1 DEF DevicesInv, Once
<1>5. InterfacesInv' BY <1>1 DEF InterfacesInv
<1>6. QED BY <1>2, <1>3, <1>4, <1>5

\* The list of libusb has been gone through.
LEMMA AllOpenKeepsInv ==
  ASSUME DiscoveryInv, SoundDiscovery, AllOpen PROVE DiscoveryInv'
<1> USE DEF DiscoveryInv
<1>1. /\ stage = "open" /\ stage' = "interfaces" /\ at > Len(usbList)
      /\ usbList' = <<>> /\ at' = 1
      /\ UNCHANGED <<plugged, optionVars, context, known, deviceVars, ifaceVars,
                     ended>>
  BY DEF AllOpen
<1>2. /\ usbList \in Seq(Devices) /\ Len(usbList) \in Nat /\ at = Len(usbList) + 1
      /\ DOMAIN usbList = 1 .. Len(usbList) /\ devList \in Seq(Devices)
  BY <1>1 DEF DiscoveryTypeOK, DevicesInv
<1>3. DiscoveryTypeOK'
  <2>1. Cardinality(Devices) \in Nat BY FS_CardinalityType DEF SoundDiscovery
  <2>2. at' \in 1 .. Cardinality(Devices) + 1 BY <1>1, <2>1
  <2>3. usbList' \in Seq(Devices) BY <1>1, EmptySeq
  <2>4. QED BY <1>1, <2>2, <2>3 DEF DiscoveryTypeOK
<1>4. OptionsInv' BY <1>1, OptionsKept
<1>5. DevicesInv'
  <2>1. \A e : Fits(e)' <=> Fits(e)
    BY <1>1 DEF Fits, AddressFits, ModelFits
  <2>2. Range(usbList) = {usbList[k] : k \in 1 .. Len(usbList)}
    BY <1>2 DEF Range
  <2>3. {usbList[j] : j \in {k \in 1 .. at - 1 : Fits(usbList[k])}}
          = {d \in Range(usbList) : Fits(d)}
    BY <1>2, <2>2
  <2>4. {d \in known' : Fits(d)'} = Range(devList)
    BY <1>1, <2>1, <2>3 DEF DevicesInv
  <2>5. Once(usbList') BY <1>1 DEF Once
  <2>6. QED BY <1>1, <2>4, <2>5 DEF DevicesInv, Once
<1>6. InterfacesInv'
  <2>1. ifaceList' = <<>> /\ ~ configHeld /\ configHeld' = configHeld
    BY <1>1 DEF InterfacesInv
  <2>2. \A p : ~ Done(p)' BY <1>1, <2>1 DEF Done
  <2>3. {p \in Hids' : Done(p)'} = {} BY <2>2
  <2>4. Standing(ifaceList', {p \in Hids' : Done(p)'})
    BY <2>1, <2>3, NoneStand
  <2>5. QED BY <1>1, <1>2, <2>1, <2>4 DEF InterfacesInv
<1>7. QED BY <1>3, <1>4, <1>5, <1>6

LEMMA UndoOpenKeepsInv == ASSUME DiscoveryInv, UndoOpen PROVE DiscoveryInv'
<1> USE DEF DiscoveryInv
<1>1. /\ stage = "undo_open" /\ stage' = "cleanup" /\ usbList' = <<>>
      /\ ended' = 1 /\ devList' = <<>> /\ opened' = opened \ Range(devList)
      /\ UNCHANGED <<plugged, optionVars, context, at, known, ifaceVars>>
  BY DEF UndoOpen
<1>2. opened' = {} BY <1>1 DEF DevicesInv
<1>3. DiscoveryTypeOK' BY <1>1, <1>2, EmptySeq DEF DiscoveryTypeOK
<1>4. OptionsInv' BY <1>1, OptionsKept
<1>5. DevicesInv'
  <2>1. Once(usbList') /\ Once(devList') BY <1>1, EmptyList, Zenon
  <2>2. Range(devList') = {} BY <1>1, EmptyList, Zenon
  <2>3. QED BY <1>1, <1>2, <2>1, <2>2 DEF DevicesInv
<1>6. InterfacesInv' BY <1>1 DEF InterfacesInv
<1>7. QED BY <1>3, <1>4, <1>5, <1>6

\* The device whose interfaces are read.
LEMMA AtDevice ==
  ASSUME DiscoveryInv, SoundDiscovery, Listing
  PROVE  LET d == devList[at]
         IN  /\ stage = "interfaces" /\ at \in 1 .. Len(devList)
             /\ Len(devList) \in Nat
             /\ d \in known /\ Fits(d)
             /\ DOMAIN Interfaces[d] = 1 .. Len(Interfaces[d])
             /\ Len(Interfaces[d]) \in Nat
             /\ \A j \in 1 .. Len(devList) : devList[j] = d => j = at
<1> USE DEF DiscoveryInv
<1>1. /\ stage = "interfaces" /\ at \in 1 .. Len(devList) /\ devList \in Seq(Devices)
      /\ Len(devList) \in Nat /\ DOMAIN devList = 1 .. Len(devList)
  BY DEF Listing, InterfacesInv, DiscoveryTypeOK
<1>2. devList[at] \in Range(devList) BY <1>1 DEF Range
<1>3. devList[at] \in known /\ Fits(devList[at]) BY <1>1, <1>2 DEF DevicesInv
<1>4. devList[at] \in Devices BY <1>1
<1>5. Interfaces[devList[at]] \in Seq(Range(Interfaces[devList[at]]))
  BY <1>4 DEF SoundDiscovery
<1>6. /\ DOMAIN Interfaces[devList[at]] = 1 .. Len(Interfaces[devList[at]])
      /\ Len(Interfaces[devList[at]]) \in Nat
  BY <1>5, LenProperties
<1>7. \A j \in 1 .. Len(devList) : devList[j] = devList[at] => j = at
  BY <1>1 DEF DevicesInv, Once
<1>8. QED BY <1>1, <1>3, <1>6, <1>7

LEMMA WhatHidsAre ==
  ASSUME DiscoveryInv, SoundDiscovery, NEW p \in Hids
  PROVE  /\ p = <<p[1], p[2]>> /\ p[1] \in known /\ Fits(p[1])
         /\ IsHid(Interfaces[p[1]][p[2]])
         /\ p[2] \in 1 .. Len(Interfaces[p[1]])
         /\ Len(Interfaces[p[1]]) \in Nat
<1>1. p \in Places /\ Fits(p[1]) /\ IsHid(Interfaces[p[1]][p[2]]) BY DEF Hids
<1>2. PICK d \in known : p \in {d} \X DOMAIN Interfaces[d] BY <1>1 DEF Places
<1>3. p = <<p[1], p[2]>> /\ p[1] = d /\ p[2] \in DOMAIN Interfaces[d] BY <1>2
<1>4. d \in Devices BY <1>2 DEF DiscoveryInv, DiscoveryTypeOK
<1>5. Interfaces[d] \in Seq(Range(Interfaces[d])) BY <1>4 DEF SoundDiscovery
<1>6. DOMAIN Interfaces[d] = 1 .. Len(Interfaces[d]) /\ Len(Interfaces[d]) \in Nat
  BY <1>5, LenProperties
<1>7. QED BY <1>1, <1>2, <1>3, <1>6

LEMMA GetConfigKeepsInv ==
  ASSUME DiscoveryInv, SoundDiscovery, GetConfig PROVE DiscoveryInv'
<1> USE DEF DiscoveryInv
<1>1. /\ Listing /\ ~ configHeld /\ stage = "interfaces"
      /\ \/ configHeld' = TRUE /\ slot' = 1 /\ UNCHANGED stage
         \/ stage' = "undo_list" /\ configHeld' = configHeld /\ slot' = slot
      /\ UNCHANGED <<plugged, optionVars, context, listVars, deviceVars,
                     ifaceList, live, ended>>
  BY DEF GetConfig, Listing
<1>2. DiscoveryTypeOK'
  <2>1. configHeld' \in BOOLEAN /\ slot' \in Nat
    <3>1. configHeld' = TRUE \/ configHeld' = configHeld BY <1>1, Zenon
    <3>2. configHeld \in BOOLEAN BY DEF DiscoveryTypeOK
    <3>3. configHeld' \in BOOLEAN BY <3>1, <3>2, Zenon
    <3>4. slot' = 1 \/ slot' = slot BY <1>1, Zenon
    <3>5. slot' \in Nat
      <4>1. slot \in Nat BY DEF DiscoveryTypeOK
      <4>2. QED BY <3>4, <4>1
    <3>6. QED BY <3>3, <3>5
  <2>2. stage' \in {"interfaces", "undo_list"} BY <1>1
  <2>3. QED BY <1>1, <2>1, <2>2 DEF DiscoveryTypeOK
<1>3. OptionsInv' BY <1>1, OptionsKept
<1>4. DevicesInv' BY <1>1, DevicesListed
<1>5. InterfacesInv'
  <2>1. CASE stage' = "undo_list"
    BY <1>1, <2>1 DEF InterfacesInv
  <2>2. CASE configHeld' = TRUE /\ slot' = 1 /\ UNCHANGED stage
    <3>1. Hids' = Hids BY <1>1, HidsKept
    <3>2. ASSUME NEW p \in Hids PROVE Done(p)' <=> Done(p)
      <4>1. ~ (p[2] < 1) BY WhatHidsAre
      <4>2. QED BY <1>1, <2>2, <4>1 DEF Done
    <3>3. {p \in Hids' : Done(p)'} = {p \in Hids : Done(p)} BY <3>1, <3>2
    <3>4. at \in 1 .. Len(devList) /\ Len(devList) \in Nat
          /\ Len(Interfaces[devList[at]]) \in Nat
      BY <1>1, AtDevice
    <3>5. 1 <= Len(Interfaces[devList[at]]) + 1 /\ 1 \in Nat \ {0}
      BY <3>4
    <3>6. Standing(ifaceList', {p \in Hids' : Done(p)'})
      BY <1>1, <3>3 DEF InterfacesInv
    <3>7. ifaceList' \in Seq(Range(ifaceList')) /\ live' = Len(ifaceList')
      BY <1>1 DEF InterfacesInv
    <3> HIDE DEF DiscoveryInv
    <3>8. QED BY <1>1, <2>2, <3>4, <3>5, <3>6, <3>7 DEF InterfacesInv
  <2>3. QED BY <1>1, <2>1, <2>2
<1>6. QED BY <1>2, <1>3, <1>4, <1>5

LEMMA SkipInterfaceKeepsInv ==
  ASSUME DiscoveryInv, SoundDiscovery, SkipInterface PROVE DiscoveryInv'
<1> USE DEF DiscoveryInv
<1>1. /\ Listing /\ configHeld /\ slot <= Len(Interfaces[devList[at]])
      /\ ~ IsHid(Interfaces[devList[at]][slot]) /\ slot' = slot + 1
      /\ stage = "interfaces"
      /\ UNCHANGED <<plugged, stage, optionVars, context, listVars, deviceVars,
                     configHeld, ifaceList, live, ended>>
  BY DEF SkipInterface, Reading, Listing, Current
<1>2. slot \in Nat \ {0} BY DEF InterfacesInv
<1>3. DiscoveryTypeOK' BY <1>1, <1>2 DEF DiscoveryTypeOK
<1>4. OptionsInv' BY <1>1, OptionsKept
<1>5. DevicesInv' BY <1>1, DevicesListed
<1>6. InterfacesInv'
  <2>1. Hids' = Hids BY <1>1, HidsKept
  <2>2. ASSUME NEW p \in Hids PROVE Done(p)' <=> Done(p)
    <3>1. p[2] \in Nat /\ ~ (p[1] = devList[at] /\ p[2] = slot)
      BY <1>1, WhatHidsAre
    <3>2. p[1] = devList[at] => (p[2] < slot' <=> p[2] < slot)
      BY <1>1, <1>2, <3>1
    <3>3. Listing' BY <1>1 DEF Listing
    <3>4. QED BY <1>1, <3>2, <3>3 DEF Done
  <2>3. {p \in Hids' : Done(p)'} = {p \in Hids : Done(p)} BY <2>1, <2>2
  <2>4. slot' <= Len(Interfaces[devList[at]]) + 1 /\ at \in 1 .. Len(devList)
    BY <1>1, <1>2, AtDevice
  <2>5. Standing(ifaceList', {p \in Hids' : Done(p)'})
    BY <1>1, <2>3 DEF InterfacesInv
  <2>6. ifaceList' \in Seq(Range(ifaceList')) /\ live' = Len(ifaceList')
    BY <1>1 DEF InterfacesInv
  <2>7. slot' \in Nat \ {0} /\ Len(devList) \in Nat BY <1>1, <1>2, AtDevice
  <2> HIDE DEF DiscoveryInv
  <2>8. QED BY <1>1, <2>4, <2>5, <2>6, <2>7 DEF InterfacesInv
<1>7. QED BY <1>3, <1>4, <1>5, <1>6

LEMMA AddInterfaceKeepsInv ==
  ASSUME DiscoveryInv, SoundDiscovery, AddInterface PROVE DiscoveryInv'
<1> USE DEF DiscoveryInv
<1> DEFINE d == devList[at]
           f == [dev |-> d, number |-> Current.number,
                 rd_len |-> rd_len(Current.hid)]
<1>1. /\ Listing /\ configHeld /\ slot <= Len(Interfaces[d])
      /\ IsHid(Interfaces[d][slot]) /\ stage = "interfaces"
      /\ \/ /\ ifaceList' = <<f>> \o ifaceList
            /\ live' = live + 1 /\ slot' = slot + 1 /\ UNCHANGED stage
         \/ /\ stage' = "undo_list"
            /\ ifaceList' = ifaceList /\ live' = live /\ slot' = slot
      /\ UNCHANGED <<plugged, optionVars, context, listVars, deviceVars,
                     configHeld, ended>>
  BY DEF AddInterface, Reading, Listing, Current
<1>2. f.dev = d /\ f.number = NumberAt(<<d, slot>>) BY DEF Current, NumberAt
<1> HIDE DEF f
<1>3. /\ slot \in Nat \ {0} /\ ifaceList \in Seq(Range(ifaceList))
      /\ live = Len(ifaceList)
  BY DEF InterfacesInv
<1>4. DiscoveryTypeOK'
  <2>1. slot' \in Nat /\ live' \in Nat
    <3>1. slot' = slot + 1 \/ slot' = slot BY <1>1, Zenon
    <3>2. live' = live + 1 \/ live' = live BY <1>1, Zenon
    <3>3. live \in Nat BY DEF DiscoveryTypeOK
    <3>4. QED BY <1>3, <3>1, <3>2, <3>3
  <2>2. stage' \in {"interfaces", "undo_list"} BY <1>1
  <2>3. QED BY <1>1, <2>1, <2>2 DEF DiscoveryTypeOK
<1>5. OptionsInv' BY <1>1, OptionsKept
<1>6. DevicesInv' BY <1>1, DevicesListed
<1>7. InterfacesInv'
  <2>1. CASE stage' = "undo_list"
    BY <1>1, <2>1 DEF InterfacesInv
  <2>2. CASE ifaceList' = <<f>> \o ifaceList /\ live' = live + 1
             /\ slot' = slot + 1 /\ UNCHANGED stage
    <3>1. Hids' = Hids BY <1>1, HidsKept
    <3>2. /\ at \in 1 .. Len(devList) /\ Len(devList) \in Nat
          /\ d \in known /\ Fits(d) /\ DOMAIN Interfaces[d] = 1 .. Len(Interfaces[d])
          /\ Len(Interfaces[d]) \in Nat
          /\ \A j \in 1 .. Len(devList) : devList[j] = d => j = at
      BY <1>1, AtDevice
    <3>3. <<d, slot>> \in Hids
      <4> DEFINE p == <<d, slot>>
      <4>1. slot \in DOMAIN Interfaces[d]
        <5>1. slot <= Len(Interfaces[d]) BY <1>1
        <5>2. slot \in 1 .. Len(Interfaces[d]) BY <1>3, <3>2, <5>1
        <5>3. QED BY <3>2, <5>2, Zenon
      <4>2. p \in {d} \X DOMAIN Interfaces[d] BY <4>1
      <4>3. p \in Places BY <3>2, <4>2 DEF Places
      <4>4. p[1] = d /\ p[2] = slot OBVIOUS
      <4> HIDE DEF p
      <4>5. Fits(p[1]) /\ IsHid(Interfaces[p[1]][p[2]]) BY <1>1, <3>2, <4>4
      <4>6. p \in Hids BY <4>3, <4>5 DEF Hids
      <4>7. QED BY <4>6 DEF p
    <3>4. ~ Done(<<d, slot>>)
      BY <1>3, <3>2 DEF Done
    <3>5. ASSUME NEW p \in Hids
          PROVE  Done(p)' <=> Done(p) \/ p = <<d, slot>>
      <4>1. p = <<p[1], p[2]>> /\ p[2] \in Nat BY WhatHidsAre
      <4>2. p[2] < slot' <=> p[2] < slot \/ p[2] = slot
        BY <1>3, <2>2, <4>1
      <4>3. p = <<d, slot>> <=> p[1] = d /\ p[2] = slot BY <4>1
      <4>4. Listing' BY <1>1, <2>2 DEF Listing
      <4>5. QED BY <1>1, <2>2, <4>2, <4>3, <4>4 DEF Done
    <3>6. {p \in Hids' : Done(p)'} = {p \in Hids : Done(p)} \cup {<<d, slot>>}
      BY <3>1, <3>3, <3>5
    <3>7. Standing(ifaceList, {p \in Hids : Done(p)})
      BY <1>1 DEF InterfacesInv
    <3>8. <<d, slot>> \notin {p \in Hids : Done(p)} BY <3>4
    <3>9. Standing(<<f>> \o ifaceList, {p \in Hids : Done(p)} \cup {<<d, slot>>})
      <4>1. <<d, slot>>[1] = d OBVIOUS
      <4> HIDE DEF d
      <4>2. QED BY <1>2, <1>3, <3>7, <3>8, <4>1, OneMoreStands
    <3>10. Standing(ifaceList', {p \in Hids' : Done(p)'})
      BY <2>2, <3>6, <3>9
    <3>11. ifaceList' \in Seq(Range(ifaceList')) /\ live' = Len(ifaceList')
      BY <1>3, <2>2, Prepended, SeqOfRange
    <3>12. slot' \in Nat \ {0} /\ slot' <= Len(Interfaces[d]) + 1
      BY <1>1, <1>3, <2>2, <3>2
    <3> HIDE DEF DiscoveryInv
    <3>13. QED BY <1>1, <2>2, <3>2, <3>10, <3>11, <3>12 DEF InterfacesInv
  <2>3. QED BY <1>1, <2>1, <2>2
<1>8. QED BY <1>4, <1>5, <1>6, <1>7

\* All interfaces of a device have been read.
LEMMA FreeConfigKeepsInv ==
  ASSUME DiscoveryInv, SoundDiscovery, FreeConfig PROVE DiscoveryInv'
<1> USE DEF DiscoveryInv
<1> DEFINE d == devList[at]
<1>1. /\ Listing /\ configHeld /\ slot > Len(Interfaces[d]) /\ stage = "interfaces"
      /\ configHeld' = FALSE /\ at' = at + 1
      /\ UNCHANGED <<plugged, stage, optionVars, context, usbList, known,
                     deviceVars, slot, ifaceList, live, ended>>
  BY DEF FreeConfig, Listing
<1>2. /\ at \in 1 .. Len(devList) /\ Len(devList) \in Nat /\ devList \in Seq(Devices)
      /\ Len(Interfaces[d]) \in Nat /\ slot \in Nat \ {0}
  BY <1>1, AtDevice DEF DiscoveryTypeOK, InterfacesInv
<1>3. DiscoveryTypeOK'
  <2>1. Len(devList) <= Cardinality(Devices)
    BY <1>2, OnceIsShort DEF SoundDiscovery, DevicesInv
  <2>2. Cardinality(Devices) \in Nat BY FS_CardinalityType DEF SoundDiscovery
  <2>3. at' \in 1 .. Cardinality(Devices) + 1 BY <1>1, <1>2, <2>1, <2>2
  <2>4. configHeld' \in BOOLEAN BY <1>1, Zenon
  <2>5. QED BY <1>1, <2>3, <2>4 DEF DiscoveryTypeOK
<1>4. OptionsInv' BY <1>1, OptionsKept
<1>5. DevicesInv' BY <1>1, DevicesListed
<1>6. InterfacesInv'
  <2>1. Hids' = Hids BY <1>1, HidsKept
  <2>2. ASSUME NEW p \in Hids PROVE Done(p)' <=> Done(p)
    <3>1. p[1] = d => p[2] < slot BY <1>1, <1>2, WhatHidsAre
    <3>2. Done(p)' <=> \E j \in 1 .. at : j <= Len(devList) /\ devList[j] = p[1]
      BY <1>1, <1>2 DEF Done
    <3>3. Done(p) <=> \/ \E j \in 1 .. at - 1 : j <= Len(devList) /\ devList[j] = p[1]
                      \/ p[1] = d
      BY <1>1, <3>1 DEF Done
    <3>4. QED BY <1>2, <3>2, <3>3
  <2>3. {p \in Hids' : Done(p)'} = {p \in Hids : Done(p)} BY <2>1, <2>2
  <2>4. Standing(ifaceList', {p \in Hids' : Done(p)'})
    BY <1>1, <2>3 DEF InterfacesInv
  <2>5. ifaceList' \in Seq(Range(ifaceList')) /\ live' = Len(ifaceList')
    BY <1>1 DEF InterfacesInv
  <2>6. at' \in 1 .. Len(devList) + 1 BY <1>1, <1>2
  <2> HIDE DEF DiscoveryInv
  <2>7. QED BY <1>1, <1>2, <2>4, <2>5, <2>6 DEF InterfacesInv
<1>7. QED BY <1>3, <1>4, <1>5, <1>6

LEMMA UndoListKeepsInv == ASSUME DiscoveryInv, UndoList PROVE DiscoveryInv'
<1> USE DEF DiscoveryInv
<1>1. /\ stage = "undo_list" /\ stage' = "cleanup"
      /\ ended' = 1 /\ ifaceList' = <<>> /\ live' = live - Len(ifaceList)
      /\ UNCHANGED <<plugged, optionVars, context, listVars, deviceVars, slot>>
  BY DEF UndoList
<1>2. live' = 0 /\ live' = Len(ifaceList')
  <2>1. live = Len(ifaceList) /\ Len(ifaceList) \in Nat
    BY DEF InterfacesInv, DiscoveryTypeOK
  <2>2. QED BY <1>1, <2>1
<1>3. DiscoveryTypeOK'
  <2>1. configHeld' \in BOOLEAN BY Zenon DEF UndoList
  <2>2. live' \in Nat /\ ended' \in {0, 1} /\ stage' = "cleanup" BY <1>1, <1>2
  <2>3. QED BY <1>1, <2>1, <2>2 DEF DiscoveryTypeOK
<1>4. OptionsInv' BY <1>1, OptionsKept
<1>5. DevicesInv' BY <1>1, DevicesListed
<1>6. InterfacesInv'
  <2>1. ifaceList' \in Seq(Range(ifaceList')) BY <1>1, EmptySeq
  <2>2. ~ configHeld' BY Zenon DEF UndoList
  <2>3. QED BY <1>1, <1>2, <2>1, <2>2 DEF InterfacesInv
<1>7. QED BY <1>3, <1>4, <1>5, <1>6

\* All devices have been gone through: the interfaces stand for all of Hids.
LEMMA AllListedKeepsInv ==
  ASSUME DiscoveryInv, SoundDiscovery, AllListed PROVE DiscoveryInv'
<1> USE DEF DiscoveryInv
<1>1. /\ stage = "interfaces" /\ at > Len(devList)
      /\ stage' = "filter" /\ slot' = 1
      /\ UNCHANGED <<plugged, optionVars, context, listVars, deviceVars,
                     configHeld, ifaceList, live, ended>>
  BY DEF AllListed
<1>2. DiscoveryTypeOK' BY <1>1 DEF DiscoveryTypeOK
<1>3. OptionsInv' BY <1>1, OptionsKept
<1>4. DevicesInv' BY <1>1, DevicesListed
<1>5. InterfacesInv'
  <2>1. Hids' = Hids BY <1>1, HidsKept
  <2>2. at = Len(devList) + 1 /\ Len(devList) \in Nat
        /\ DOMAIN devList = 1 .. Len(devList)
    BY <1>1 DEF InterfacesInv, DiscoveryTypeOK
  <2>3. ~ configHeld BY <1>1, <2>2 DEF InterfacesInv
  <2>4. ASSUME NEW p \in Hids PROVE Done(p)
    <3>1. p[1] \in Range(devList) BY <1>1, WhatHidsAre DEF DevicesInv
    <3>2. PICK j \in 1 .. Len(devList) : devList[j] = p[1]
      BY <2>2, <3>1 DEF Range
    <3>3. j \in 1 .. at - 1 /\ j <= Len(devList) BY <2>2
    <3>4. QED BY <3>2, <3>3 DEF Done
  <2>5. {p \in Hids : Done(p)} = Hids BY <2>4
  <2>6. Standing(ifaceList, Hids) BY <1>1, <2>5 DEF InterfacesInv
  <2>7. Standing(ifaceList', Hids') BY <1>1, <2>1, <2>6
  <2>8. \E S \in SUBSET Hids' :
          /\ Standing(ifaceList', S)
          /\ \A p \in Hids' : NumberFits(NumberAt(p))' => p \in S
    BY <2>7
  <2>9. ifaceList' \in Seq(Range(ifaceList')) /\ live' = Len(ifaceList')
        /\ Len(ifaceList') \in Nat /\ configHeld' = configHeld
    BY <1>1 DEF InterfacesInv
  <2> HIDE DEF DiscoveryInv
  <2>10. QED BY <1>1, <2>3, <2>8, <2>9 DEF InterfacesInv
<1>6. QED BY <1>2, <1>3, <1>4, <1>5

LEMMA KeepInterfaceKeepsInv ==
  ASSUME DiscoveryInv, KeepInterface PROVE DiscoveryInv'
<1> USE DEF DiscoveryInv
<1>1. /\ stage = "filter" /\ mask.iface # AnyIface /\ slot <= Len(ifaceList)
      /\ ifaceList[slot].number = mask.iface /\ slot' = slot + 1
      /\ UNCHANGED <<plugged, stage, optionVars, context, listVars, deviceVars,
                     configHeld, ifaceList, live, ended>>
  BY DEF KeepInterface, Filtering
<1>2. /\ slot \in Nat \ {0} /\ Len(ifaceList) \in Nat
      /\ ifaceList \in Seq(Range(ifaceList)) /\ live = Len(ifaceList)
      /\ ~ configHeld
  BY <1>1 DEF InterfacesInv
<1>3. DiscoveryTypeOK' BY <1>1, <1>2 DEF DiscoveryTypeOK
<1>4. OptionsInv' BY <1>1, OptionsKept
<1>5. DevicesInv' BY <1>1, DevicesListed
<1>6. InterfacesInv'
  <2>1. Hids' = Hids /\ \A n : NumberFits(n)' <=> NumberFits(n)
    BY <1>1, HidsKept
  <2>2. PICK S \in SUBSET Hids :
          /\ Standing(ifaceList, S)
          /\ \A p \in Hids : NumberFits(NumberAt(p)) => p \in S
    BY <1>1 DEF InterfacesInv
  <2>3. \E T \in SUBSET Hids' :
          /\ Standing(ifaceList', T)
          /\ \A p \in Hids' : NumberFits(NumberAt(p))' => p \in T
    BY <1>1, <2>1, <2>2
  <2>4. slot' \in Nat \ {0} /\ slot' <= Len(ifaceList') + 1
    BY <1>1, <1>2
  <2>5. \A x \in 1 .. slot - 1 : ifaceList[x].number = mask.iface
    BY <1>1 DEF InterfacesInv
  <2>6. ASSUME NEW x \in 1 .. slot' - 1
        PROVE  ifaceList'[x].number = mask'.iface
    <3>1. x \in 1 .. slot - 1 \/ x = slot BY <1>1, <1>2
    <3>2. QED BY <1>1, <2>5, <3>1
  <2>7. ifaceList' \in Seq(Range(ifaceList')) /\ live' = Len(ifaceList')
        /\ configHeld' = configHeld
    BY <1>1, <1>2
  <2> HIDE DEF DiscoveryInv
  <2>8. QED BY <1>1, <1>2, <2>3, <2>4, <2>6, <2>7 DEF InterfacesInv
<1>7. QED BY <1>3, <1>4, <1>5, <1>6

\* What is dropped has another number, and so has its place.
LEMMA DropInterfaceKeepsInv ==
  ASSUME DiscoveryInv, DropInterface PROVE DiscoveryInv'
<1> USE DEF DiscoveryInv
<1>1. /\ stage = "filter" /\ mask.iface # AnyIface /\ slot <= Len(ifaceList)
      /\ ifaceList[slot].number # mask.iface
      /\ ifaceList' = RemoveAt(ifaceList, slot) /\ live' = live - 1
      /\ UNCHANGED <<plugged, stage, optionVars, context, listVars, deviceVars,
                     configHeld, slot, ended>>
  BY DEF DropInterface, Filtering
<1>2. /\ slot \in 1 .. Len(ifaceList) /\ Len(ifaceList) \in Nat
      /\ ifaceList \in Seq(Range(ifaceList)) /\ live = Len(ifaceList)
      /\ ~ configHeld
  BY <1>1 DEF InterfacesInv
<1>3. /\ ifaceList' \in Seq(Range(ifaceList))
      /\ Len(ifaceList') = Len(ifaceList) - 1
      /\ \A j \in 1 .. Len(ifaceList) - 1 :
           ifaceList'[j] = IF j < slot THEN ifaceList[j] ELSE ifaceList[j + 1]
  BY <1>1, <1>2, Removed
<1>4. DiscoveryTypeOK' BY <1>1, <1>2 DEF DiscoveryTypeOK
<1>5. OptionsInv' BY <1>1, OptionsKept
<1>6. DevicesInv' BY <1>1, DevicesListed
<1>7. InterfacesInv'
  <2>1. Hids' = Hids /\ \A n : NumberFits(n)' <=> NumberFits(n)
    BY <1>1, HidsKept
  <2>2. PICK S \in SUBSET Hids :
          /\ Standing(ifaceList, S)
          /\ \A p \in Hids : NumberFits(NumberAt(p)) => p \in S
    BY <1>1 DEF InterfacesInv
  <2>3. PICK q \in S : /\ NumberAt(q) = ifaceList[slot].number
                       /\ Standing(RemoveAt(ifaceList, slot), S \ {q})
    BY <1>2, <2>2, OneLessStands
  <2>4. ~ NumberFits(NumberAt(q)) BY <1>1, <2>3 DEF NumberFits
  <2>5. Standing(ifaceList', S \ {q}) BY <1>1, <2>3
  <2>6. \A p \in Hids' : NumberFits(NumberAt(p))' => p \in S \ {q}
    BY <2>1, <2>2, <2>4
  <2>7. \E T \in SUBSET Hids' :
          /\ Standing(ifaceList', T)
          /\ \A p \in Hids' : NumberFits(NumberAt(p))' => p \in T
    BY <2>1, <2>5, <2>6
  <2>8. slot' \in Nat \ {0} /\ slot' <= Len(ifaceList') + 1
    BY <1>1, <1>2, <1>3
  <2>9. \A x \in 1 .. slot - 1 : ifaceList[x].number = mask.iface
    BY <1>1 DEF InterfacesInv
  <2>10. ASSUME NEW x \in 1 .. slot' - 1
         PROVE  ifaceList'[x].number = mask'.iface
    <3>1. x \in 1 .. slot - 1 /\ x \in 1 .. Len(ifaceList) - 1 /\ x < slot
      BY <1>1, <1>2
    <3>2. ifaceList'[x] = ifaceList[x] BY <1>3, <3>1
    <3>3. mask' = mask BY <1>1
    <3>4. QED BY <2>9, <3>1, <3>2, <3>3
  <2>11. ifaceList' \in Seq(Range(ifaceList')) /\ live' = Len(ifaceList')
    BY <1>1, <1>2, <1>3, SeqOfRange
  <2> HIDE DEF DiscoveryInv
  <2>12. QED BY <1>1, <1>2, <2>7, <2>8, <2>10, <2>11 DEF InterfacesInv
<1>8. QED BY <1>4, <1>5, <1>6, <1>7

\* What is left stands for the places with the number asked for.
LEMMA FilteredKeepsInv == ASSUME DiscoveryInv, Filtered PROVE DiscoveryInv'
<1> USE DEF DiscoveryInv
<1>1. /\ stage = "filter" /\ (mask.iface = AnyIface \/ slot > Len(ifaceList))
      /\ \/ stage' = "cleanup" /\ ended' = 1
         \/ stage' = "run" /\ ended' = ended
      /\ UNCHANGED <<plugged, optionVars, context, listVars, deviceVars, ifaceVars>>
  BY DEF Filtered, Filtering, DiscoveryTypeOK, InterfacesInv
<1>2. DiscoveryTypeOK' BY <1>1 DEF DiscoveryTypeOK
<1>3. OptionsInv' BY <1>1, OptionsKept
<1>4. DevicesInv' BY <1>1, DevicesListed
<1>5. InterfacesInv'
  <2>1. Hids' = Hids /\ \A n : NumberFits(n)' <=> NumberFits(n)
    BY <1>1, HidsKept
  <2>2. PICK S \in SUBSET Hids :
          /\ Standing(ifaceList, S)
          /\ \A p \in Hids : NumberFits(NumberAt(p)) => p \in S
    BY <1>1 DEF InterfacesInv
  <2>3. /\ slot \in Nat \ {0} /\ Len(ifaceList) \in Nat
        /\ ifaceList \in Seq(Range(ifaceList)) /\ live = Len(ifaceList)
        /\ ~ configHeld
    BY <1>1 DEF InterfacesInv
  <2>4. ASSUME NEW p \in S PROVE NumberFits(NumberAt(p))
    <3>1. CASE mask.iface = AnyIface BY <3>1 DEF NumberFits
    <3>2. CASE mask.iface # AnyIface
      <4>1. PICK x \in 1 .. Len(ifaceList) : ifaceList[x].number = NumberAt(p)
        BY <2>2, <2>3, WhatStands
      <4>2. slot > Len(ifaceList) BY <1>1, <3>2
      <4>3. x \in 1 .. slot - 1 BY <2>3, <4>2
      <4>4. \A y \in 1 .. slot - 1 : ifaceList[y].number = mask.iface
        BY <1>1, <3>2 DEF InterfacesInv
      <4>5. QED BY <4>1, <4>3, <4>4 DEF NumberFits
    <3>3. QED BY <3>1, <3>2
  <2>5. S = {p \in Hids : NumberFits(NumberAt(p))} BY <2>2, <2>4
  <2>6. {p \in Hids' : NumberFits(NumberAt(p))'} = S BY <2>1, <2>5
  <2>7. Standing(ifaceList', {p \in Hids' : NumberFits(NumberAt(p))'})
    BY <1>1, <2>2, <2>6
  <2>8. slot' = slot /\ ifaceList' = ifaceList /\ live' = live
        /\ configHeld' = configHeld /\ stage' \in {"cleanup", "run"}
    BY <1>1
  <2>9. slot' \in Nat \ {0} /\ ifaceList' \in Seq(Range(ifaceList'))
        /\ live' = Len(ifaceList') /\ ~ configHeld'
    BY <2>3, <2>8
  <2> HIDE DEF DiscoveryInv
  <2>10. QED BY <2>7, <2>8, <2>9 DEF InterfacesInv
<1>6. QED BY <1>2, <1>3, <1>4, <1>5

LEMMA RunKeepsInv == ASSUME DiscoveryInv, Run PROVE DiscoveryInv'
<1> USE DEF DiscoveryInv
<1>1. /\ stage = "run" /\ stage' = "cleanup" /\ ended' \in {0, 1}
      /\ UNCHANGED <<plugged, optionVars, context, listVars, deviceVars, ifaceVars>>
  BY DEF Run
<1>2. DiscoveryTypeOK' BY <1>1 DEF DiscoveryTypeOK
<1>3. OptionsInv' BY <1>1, OptionsKept
<1>4. DevicesInv' BY <1>1, DevicesListed
<1>5. InterfacesInv' BY <1>1 DEF InterfacesInv
<1>6. QED BY <1>2, <1>3, <1>4, <1>5

LEMMA CleanupKeepsInv == ASSUME DiscoveryInv, Cleanup PROVE DiscoveryInv'
<1> USE DEF DiscoveryInv
<1>1. /\ stage = "cleanup" /\ stage' = "exit"
      /\ ifaceList' = <<>> /\ live' = live - Len(ifaceList)
      /\ devList' = <<>> /\ opened' = opened \ Range(devList)
      /\ context' = FALSE
      /\ UNCHANGED <<plugged, optionVars, listVars, configHeld, slot, ended>>
  BY DEF Cleanup
<1>2. live' = 0 /\ live' = Len(ifaceList')
  <2>1. live = Len(ifaceList) /\ Len(ifaceList) \in Nat
    BY DEF InterfacesInv, DiscoveryTypeOK
  <2>2. QED BY <1>1, <2>1
<1>3. opened' = {} BY <1>1 DEF DevicesInv
<1>4. DiscoveryTypeOK'
  <2>1. context' \in BOOLEAN BY <1>1, Zenon
  <2>2. devList' \in Seq(Devices) BY <1>1, EmptySeq
  <2>3. QED BY <1>1, <1>2, <1>3, <2>1, <2>2 DEF DiscoveryTypeOK
<1>5. OptionsInv' BY <1>1, OptionsKept
<1>6. DevicesInv'
  <2>1. Once(devList') /\ Range(devList') = {} BY <1>1, EmptyList, Zenon
  <2>2. QED BY <1>1, <1>3, <2>1 DEF DevicesInv, Once
<1>7. InterfacesInv'
  <2>1. ifaceList' \in Seq(Range(ifaceList')) BY <1>1, EmptySeq
  <2>2. ~ context' /\ ~ configHeld BY <1>1 DEF InterfacesInv
  <2>3. QED BY <1>1, <1>2, <1>3, <2>1, <2>2 DEF InterfacesInv
<1>8. QED BY <1>4, <1>5, <1>6, <1>7

\* DiscoveryInv is inductive.
LEMMA DiscoveryNextKeepsInv ==
  ASSUME DiscoveryInv, SoundDiscovery, [DiscoveryNext]_discoveryVars
  PROVE  DiscoveryInv'
<1>1. CASE DiscoveryStep
  BY <1>1, OptionKeepsInv, InitLibusbKeepsInv, GetDeviceListKeepsInv,
     SkipDeviceKeepsInv, OpenDeviceKeepsInv, DeviceFailsKeepsInv,
     AllOpenKeepsInv, UndoOpenKeepsInv, GetConfigKeepsInv,
     SkipInterfaceKeepsInv, AddInterfaceKeepsInv, FreeConfigKeepsInv,
     UndoListKeepsInv, AllListedKeepsInv, KeepInterfaceKeepsInv,
     DropInterfaceKeepsInv, FilteredKeepsInv, RunKeepsInv, CleanupKeepsInv
  DEF DiscoveryStep
<1>2. ASSUME NEW d \in Devices, Plug(d) \/ Unplug(d) PROVE DiscoveryInv'
  <2>1. plugged' \subseteq Devices
    BY <1>2 DEF Plug, Unplug, DiscoveryInv, DevicesInv
  <2>2. QED BY <1>2, <2>1, BusKeepsInv DEF Plug, Unplug
<1>3. CASE UNCHANGED discoveryVars
  BY <1>3, BusKeepsInv DEF DiscoveryInv, DevicesInv
<1>4. QED BY <1>1, <1>2, <1>3 DEF DiscoveryNext

-----------------------------------------------------------------------------
(***************************************************************************)
(* What the invariant says.                                                *)
(***************************************************************************)

\* Once all are parsed, the last option of a kind is the last one parsed.
LEMMA LastIsLastParsed ==
  ASSUME OptionsInv, word = <<>>, NEW opt
  PROVE  /\ \A k \in 1 .. Parsed : LastParsed(opt, k) => LastOf(opt) = line[k]
         /\ NoneParsed(opt) =>
              LastOf(opt) = [n |-> IF opt = "i" THEN 255 ELSE 0, m |-> 0]
<1> DEFINE given == {k \in DOMAIN line : line[k].opt = opt}
<1>1. Parsed = Len(line) /\ Len(line) \in Nat /\ DOMAIN line = 1 .. Parsed
  <2>1. Len(line) \in Nat /\ DOMAIN line = 1 .. Len(line) BY DEF OptionsInv
  <2>2. Len(word) = 0 OBVIOUS
  <2>3. QED BY <2>1, <2>2 DEF Parsed
<1>2. ASSUME NEW k \in 1 .. Parsed, LastParsed(opt, k)
      PROVE  LastOf(opt) = line[k]
  <2>1. k \in given /\ \A j \in given : k >= j
    BY <1>1, <1>2 DEF LastParsed
  <2>2. \A j \in given : j \in Int BY <1>1
  <2> HIDE DEF given
  <2>3. Max(given) \in given /\ \A j \in given : Max(given) >= j
    BY <2>1 DEF Max
  <2>4. Max(given) \in Int /\ k \in Int BY <2>1, <2>2, <2>3
  <2>5. Max(given) >= k /\ k >= Max(given) BY <2>1, <2>3
  <2>6. Max(given) = k BY <2>4, <2>5
  <2>7. given # {} BY <2>1
  <2>8. QED BY <2>6, <2>7 DEF LastOf, given
<1>3. ASSUME NoneParsed(opt) PROVE given = {}
  BY <1>1, <1>3 DEF NoneParsed
<1>4. QED BY <1>2, <1>3 DEF LastOf

\* The mask is what the options ask for.
LEMMA MaskIsAsked ==
  ASSUME OptionsInv, word = <<>>, stage # "exit"
  PROVE  /\ LastOf("a").n = mask.bus /\ LastOf("a").m = mask.dev
         /\ LastOf("m").n = mask.vid /\ LastOf("m").m = mask.pid
         /\ LastOf("i").n = mask.iface
<1>1. /\ \/ NoneParsed("a") /\ mask.bus = 0 /\ mask.dev = 0
         \/ \E k \in 1 .. Parsed :
              LastParsed("a", k) /\ mask.bus = line[k].n /\ mask.dev = line[k].m
      /\ \/ NoneParsed("m") /\ mask.vid = 0 /\ mask.pid = 0
         \/ \E k \in 1 .. Parsed :
              LastParsed("m", k) /\ mask.vid = line[k].n /\ mask.pid = line[k].m
      /\ \/ NoneParsed("i") /\ mask.iface = 255
         \/ \E k \in 1 .. Parsed : LastParsed("i", k) /\ mask.iface = line[k].n
  BY DEF OptionsInv
<1>2. LastOf("a").n = mask.bus /\ LastOf("a").m = mask.dev
  BY <1>1, LastIsLastParsed
<1>3. LastOf("m").n = mask.vid /\ LastOf("m").m = mask.pid
  BY <1>1, LastIsLastParsed
<1>4. LastOf("i").n = mask.iface BY <1>1, LastIsLastParsed
<1>5. QED BY <1>2, <1>3, <1>4

\* The places that count are those asked for.
LEMMA AskedAreHids ==
  ASSUME OptionsInv, word = <<>>, stage # "exit"
  PROVE  AskedFor = {p \in Hids : NumberFits(NumberAt(p))}
BY MaskIsAsked
DEF AskedFor, Asked, Hids, Fits, AddressFits, ModelFits, NumberFits, NumberAt,
    AnyNumber, AnyIface

LEMMA InvIsAllOrNothing ==
  ASSUME DiscoveryInv, SoundDiscovery PROVE AllOrNothing
<1> USE DEF DiscoveryInv
<1>1. /\ ifaceList \in Seq(Range(ifaceList)) /\ live = Len(ifaceList)
      /\ opened = Range(devList)
  BY DEF InterfacesInv, DevicesInv
<1>2. ASSUME stage = "run"
      PROVE  /\ {<<f.dev, f.number>> : f \in Range(ifaceList)}
                  = {<<p[1], Interfaces[p[1]][p[2]].number>> : p \in AskedFor}
             /\ Len(ifaceList) = Cardinality(AskedFor)
             /\ \A f \in Range(ifaceList) : f.dev \in opened
  <2>1. word = <<>> BY <1>2 DEF OptionsInv
  <2>2. Standing(ifaceList, AskedFor)
    BY <1>2, <2>1, AskedAreHids DEF InterfacesInv
  <2>3. /\ Len(ifaceList) = Cardinality(AskedFor)
        /\ \A p \in AskedFor : \E x \in 1 .. Len(ifaceList) :
             ifaceList[x].dev = p[1] /\ ifaceList[x].number = NumberAt(p)
        /\ \A x \in 1 .. Len(ifaceList) : \E p \in AskedFor :
             ifaceList[x].dev = p[1] /\ ifaceList[x].number = NumberAt(p)
    BY <1>1, <2>2, WhatStands
  <2>4. Range(ifaceList) = {ifaceList[x] : x \in 1 .. Len(ifaceList)}
    BY <1>1 DEF Range
  <2>5. {<<f.dev, f.number>> : f \in Range(ifaceList)}
          = {<<p[1], NumberAt(p)>> : p \in AskedFor}
    <3>1. ASSUME NEW f \in Range(ifaceList)
          PROVE  \E p \in AskedFor :
                   <<f.dev, f.number>> = <<p[1], NumberAt(p)>>
      BY <2>3, <2>4
    <3>2. ASSUME NEW p \in AskedFor
          PROVE  \E f \in Range(ifaceList) :
                   <<f.dev, f.number>> = <<p[1], NumberAt(p)>>
      BY <2>3, <2>4
    <3> DEFINE A == {<<f.dev, f.number>> : f \in Range(ifaceList)}
               B == {<<p[1], NumberAt(p)>> : p \in AskedFor}
    <3>3. \A x : x \in A => x \in B BY <3>1
    <3>4. \A x : x \in B => x \in A BY <3>2
    <3> HIDE DEF A, B
    <3>5. A = B BY <3>3, <3>4
    <3>6. QED BY <3>5 DEF A, B
  <2>6. ASSUME NEW f \in Range(ifaceList) PROVE f.dev \in opened
    <3>1. PICK p \in AskedFor : f.dev = p[1] BY <2>3, <2>4
    <3>2. p \in Hids BY <1>2, <2>1, <3>1, AskedAreHids
    <3>3. p[1] \in known /\ Fits(p[1]) BY <3>2, WhatHidsAre
    <3>4. Range(devList) = {d \in known : Fits(d)} BY <1>2 DEF DevicesInv
    <3>5. QED BY <1>1, <3>1, <3>3, <3>4
  <2>7. QED BY <2>3, <2>5, <2>6 DEF NumberAt
<1>3. ASSUME stage \in {"run", "cleanup"}
      PROVE  ~ configHeld /\ usbList = <<>>
             /\ opened = Range(devList) /\ live = Len(ifaceList)
  BY <1>1, <1>3 DEF InterfacesInv, DevicesInv
<1>4. ASSUME stage = "exit"
      PROVE  ~ configHeld /\ ~ context /\ usbList = <<>>
             /\ opened = {} /\ live = 0
  BY <1>4 DEF InterfacesInv, DevicesInv
<1>5. QED BY <1>2, <1>3, <1>4 DEF AllOrNothing

-----------------------------------------------------------------------------
(***************************************************************************)
(* Theorems.                                                               *)
(***************************************************************************)

\* In every state of usbhid-dump's discovery each list is the selection of
\* what has been gone through of the one before it, and nothing else is open,
\* held or allocated.
THEOREM DiscoveryIsSound ==
  ASSUME SoundDiscovery PROVE DiscoverySpec => []DiscoveryInv
<1>1. DiscoveryInit => DiscoveryInv
  <2>1. SUFFICES ASSUME DiscoveryInit PROVE DiscoveryInv
    OBVIOUS
  <2>2. plugged \subseteq Devices BY <2>1 DEF DiscoveryInit
  <2>3. Words \in SUBSET Seq(Options)
    BY DEF SoundDiscovery, Options
  <2>4. DiscoveryAt("options", Words) BY <2>1 DEF DiscoveryInit
  <2>5. QED BY <2>2, <2>3, <2>4, DiscoveryAtInv
<1>2. DiscoveryInv /\ [DiscoveryNext]_discoveryVars => DiscoveryInv'
  BY DiscoveryNextKeepsInv
<1>3. QED BY <1>1, <1>2, PTL DEF DiscoverySpec

\* usbhid-dump dumps all the interfaces its options ask for, each once and on
\* a device that is open, or none; and it ends with nothing open, allocated or
\* held, wherever making its lists failed.
THEOREM DiscoveryAllOrNothing ==
  ASSUME SoundDiscovery PROVE DiscoverySpec => []AllOrNothing
<1>1. DiscoveryInv => AllOrNothing BY InvIsAllOrNothing
<1>2. QED BY <1>1, DiscoveryIsSound, PTL
=============================================================================
