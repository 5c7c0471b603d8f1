-------------------------- MODULE LsusbTreeProofs ---------------------------
(***************************************************************************)
(* Proofs about lsusb -t, for any buses, devices and interfaces, any of    *)
(* which may come and go while the directory is read in any order: the     *)
(* tree printed is what was read and hangs together, in order, and has     *)
(* what was there all the time.                                            *)
(*                                                                         *)
(* The argument follows the passes over what was read.  Connecting goes    *)
(* along the list of devices and, for each, along that of interfaces: what *)
(* has been passed hangs where it belongs.  Sorting and printing go down   *)
(* the tree: what is in the tree has been passed, or hangs below something *)
(* on the queue.                                                           *)
(***************************************************************************)
EXTENDS LsusbTree, FiniteSetTheorems, FunctionTheorems, SequenceTheorems, TLAPS

Once(list) == \A j, k \in 1..Len(list) : list[j] = list[k] => j = k

\* The points at which the directory has been read, and the lists are there.
WasRead ==
    {"connect", "connect_if", "sort", "sort_if", "print", "cleanup"}

\* Nothing is on a list twice; what was there all the time is on one or unread.
DirInv ==
    /\ Once(usbbuslist) /\ Once(usbdevlist) /\ Once(interfacelist)
    /\ Seen \cap unread = {} /\ Range(interfacelist) \cap unreadIfs = {}
    /\ stable \subseteq present /\ stableIfs \subseteq presentIfs
    /\ pc # "done" => /\ stable \subseteq Seen \cup unread
                      /\ stableIfs \subseteq Range(interfacelist) \cup unreadIfs
    /\ pc \in WasRead => unread = {} /\ unreadIfs = {}

\* While devices are connected the queue is the rest of their list.
Turn == Len(usbdevlist) - Len(queue)
QueueInv ==
    pc \in {"connect", "connect_if"} =>
        /\ Len(queue) <= Len(usbdevlist)
        /\ \A k \in 1..Len(queue) : queue[k] = usbdevlist[Turn + k]
        /\ pc = "connect_if" =>
               queue # <<>> /\ at \in 1..(Len(interfacelist) + 1)

FirstDevices(n) == {usbdevlist[k] : k \in 1..n}

\* The devices that have been put under their parent, and those that have all
\* of their interfaces.
Placed ==
    IF pc = "connect" THEN FirstDevices(Turn)
    ELSE IF pc = "connect_if" THEN FirstDevices(Turn + 1)
    ELSE IF pc \in WasRead THEN Range(usbdevlist) ELSE {}
Equipped ==
    IF pc \in {"connect", "connect_if"} THEN FirstDevices(Turn)
    ELSE IF pc \in WasRead THEN Range(usbdevlist) ELSE {}

OfDevice(list, n, d) == {list[k] : k \in {j \in 1..n : list[j].of = d}}

\* A node's children are the devices below it that have been placed.
ChildrenInv ==
    \A n \in Nodes :
        /\ Once(children[n])
        /\ Range(children[n]) = {d \in Placed : n \in Seen /\ n = Parent(d)}

\* A device has its interfaces, one at its turn those passed so far, one whose
\* turn has not come none.
IfsInv ==
    /\ \A n \in Nodes :
          Once(ifs[n]) /\ \A i \in Range(ifs[n]) : Owner(i) = n
    /\ \A n \in Devices :
          Range(ifs[n]) =
              IF n \in Equipped
              THEN OfDevice(interfacelist, Len(interfacelist), n)
              ELSE IF pc = "connect_if" /\ n = queue[1]
              THEN OfDevice(interfacelist, at - 1, n)
              ELSE {}

\* Siblings are in the order of their ports, interfaces in that of their
\* configurations as well as their numbers.
InOrder(list) == \A j, k \in 1..Len(list) : j < k => Last(list[j]) < Last(list[k])
NotAfter(a, b) == a.num <= b.num /\ a.cfg <= b.cfg
IfsInOrder(list, n) == \A j \in 1..(n - 1) : NotAfter(list[j], list[j + 1])
NodeInOrder(n) ==
    /\ InOrder(children[n])
    /\ IsBus(n) \/ IfsInOrder(ifs[n], Len(ifs[n]))

InTree == {n \in Seen : Rooted(n)}
Prefix(n, k) == SubSeq(n, 1, k)
On(list, n) == \E k \in 1..Len(n) : Prefix(n, k) \in list

\* What is in the tree has been entered or hangs below something on the queue
\* that has not; and what has been entered is sorted once it is off the queue.
SortInv ==
    /\ pc \in {"start", "walk", "connect", "connect_if"} => entered = {}
    /\ pc \in {"sort", "sort_if"} =>
        /\ Range(queue) \subseteq Seen
        /\ \A n \in Range(queue) \cup entered : IsBus(n) \/ Parent(n) \in entered
        /\ \A n \in InTree : n \in entered \/ On(Range(queue) \ entered, n)
        /\ \A n \in entered \ Range(queue) : NodeInOrder(n)
    /\ pc = "sort_if" =>
        /\ queue # <<>> /\ queue[1] \in entered /\ ~IsBus(queue[1])
        /\ InOrder(children[queue[1]])
        /\ at \in 1..Len(ifs[queue[1]])
        /\ ~swapped => IfsInOrder(ifs[queue[1]], at)

\* a comes before b and all that is below a before all that is below b.
LeftOf(a, b) ==
    \E k \in 1..Len(a) :
        k <= Len(b) /\ a[k] < b[k] /\ \A l \in 1..(k - 1) : a[l] = b[l]

\* What is in the tree is printed or hangs below something on the queue, which
\* is in order.
PrintInv ==
    /\ pc \notin {"print", "cleanup", "done"} => printed = <<>>
    /\ pc \in {"print", "cleanup"} =>
        /\ \A n \in InTree : NodeInOrder(n)
        /\ Range(queue) \subseteq InTree
        /\ \A j, k \in 1..Len(queue) : j < k => LeftOf(queue[j], queue[k])
        /\ printed # <<>> /\ queue # <<>> =>
               PathBefore(printed[Len(printed)].node, queue[1])
        /\ \A k \in 1..Len(printed) :
               /\ printed[k].node \in InTree
               /\ printed[k] \in Range(LinesOf(printed[k].node))
        /\ \A n \in InTree :
               Range(LinesOf(n)) \subseteq Printed \/ On(Range(queue), n)
    /\ pc = "cleanup" => queue = <<>>

\* The inductive invariant.
TreeInv ==
    /\ TypeOK /\ DirInv /\ QueueInv /\ ChildrenInv /\ IfsInv /\ SortInv
    /\ PrintInv /\ LinesAscend

-----------------------------------------------------------------------------
(***************************************************************************)
(* Sequences.                                                              *)
(***************************************************************************)

LEMMA ListIs ==
  ASSUME NEW S, NEW s \in Seq(S)
  PROVE  /\ Len(s) \in Nat /\ DOMAIN s = 1..Len(s)
         /\ \A k \in 1..Len(s) : s[k] \in S /\ s[k] \in Range(s)
         /\ Range(s) = {s[k] : k \in 1..Len(s)}
         /\ Range(s) \subseteq S
         /\ s = <<>> <=> Len(s) = 0
<1>1. Len(s) \in Nat /\ DOMAIN s = 1..Len(s) BY LenProperties
<1>2. \A k \in 1..Len(s) : s[k] \in S BY ElementOfSeq
<1>3. QED BY <1>1, <1>2, EmptySeq DEF Range

LEMMA EmptyList == Once(<<>>) /\ Range(<<>>) = {}
BY DEF Once, Range

LEMMA OnceIsInjective ==
  ASSUME NEW S, NEW s \in Seq(S)
  PROVE  Once(s) <=> IsInjective(s)
BY ListIs DEF Once, IsInjective

\* One more at the end of a list.
LEMMA OneMore ==
  ASSUME NEW S, NEW s \in Seq(S), NEW e \in S
  PROVE  /\ Append(s, e) \in Seq(S)
         /\ Range(Append(s, e)) = Range(s) \cup {e}
         /\ Once(s) /\ e \notin Range(s) => Once(Append(s, e))
<1> DEFINE more == Append(s, e)
<1>1. /\ more \in Seq(S) /\ Len(more) = Len(s) + 1
      /\ \A k \in 1..Len(s) : more[k] = s[k]
      /\ more[Len(s) + 1] = e
  BY AppendProperties
<1> HIDE DEF more
<1>2. Len(s) \in Nat BY ListIs
<1>3. \A k \in 1..Len(more) : k = Len(s) + 1 \/ k \in 1..Len(s) BY <1>1, <1>2
<1>4. Range(more) = Range(s) \cup {e}
  <2>1. Range(more) = {more[k] : k \in 1..Len(more)} BY <1>1, ListIs
  <2>2. Range(s) = {s[k] : k \in 1..Len(s)} BY ListIs
  <2>3. Len(s) + 1 \in 1..Len(more) /\ \A k \in 1..Len(s) : k \in 1..Len(more)
    BY <1>1, <1>2
  <2>4. ASSUME NEW x \in Range(more) PROVE x \in Range(s) \cup {e}
    BY <1>1, <1>3, <2>1, <2>2
  <2>5. ASSUME NEW x \in Range(s) \cup {e} PROVE x \in Range(more)
    BY <1>1, <2>1, <2>2, <2>3
  <2>6. QED BY <2>4, <2>5
<1>5. ASSUME Once(s), e \notin Range(s) PROVE Once(more)
  <2>1. \A k \in 1..Len(s) : s[k] # e BY <1>5, ListIs
  <2>2. SUFFICES ASSUME NEW j \in 1..Len(more), NEW k \in 1..Len(more),
                        more[j] = more[k]
                 PROVE  j = k
    BY DEF Once
  <2>3. QED BY <1>1, <1>3, <1>5, <2>1, <2>2 DEF Once
<1>6. QED BY <1>1, <1>4, <1>5 DEF more

\* The first of a list and the rest.
LEMMA FirstAndRest ==
  ASSUME NEW S, NEW s \in Seq(S), s # <<>>
  PROVE  /\ 1 \in 1..Len(s)
         /\ Head(s) = s[1] /\ s[1] \in S
         /\ Tail(s) \in Seq(S) /\ Len(Tail(s)) = Len(s) - 1
         /\ \A k \in 1..Len(s) - 1 : Tail(s)[k] = s[k + 1]
         /\ Range(s) = {s[1]} \cup Range(Tail(s))
<1>1. Len(s) \in Nat \ {0} BY ListIs
<1>2. /\ 1 \in 1..Len(s) /\ Head(s) = s[1] /\ s[1] \in S
      /\ Tail(s) \in Seq(S) /\ Len(Tail(s)) = Len(s) - 1
      /\ \A k \in 1..Len(s) - 1 : Tail(s)[k] = s[k + 1]
  BY <1>1, HeadTailProperties
<1> DEFINE t == Tail(s)
<1>3. t \in Seq(S) BY <1>2
<1>4. Range(t) = {t[k] : k \in 1..Len(t)} BY <1>3, ListIs
<1>5. Range(s) = {s[k] : k \in 1..Len(s)} BY ListIs
<1>6. \A k \in 1..Len(t) : k + 1 \in 1..Len(s) /\ t[k] = s[k + 1] BY <1>1, <1>2
<1>7. \A k \in 1..Len(s) : k # 1 => k - 1 \in 1..Len(t) /\ t[k - 1] = s[k]
  <2> TAKE k \in 1..Len(s)
  <2> HAVE k # 1
  <2>1. k - 1 \in 1..Len(s) - 1 /\ (k - 1) + 1 = k BY <1>1
  <2>2. QED BY <1>2, <2>1
<1> HIDE DEF t
<1>8. ASSUME NEW x \in Range(s) PROVE x \in {s[1]} \cup Range(t)
  BY <1>4, <1>5, <1>7
<1>9. ASSUME NEW x \in {s[1]} \cup Range(t) PROVE x \in Range(s)
  BY <1>2, <1>4, <1>5, <1>6
<1>10. QED BY <1>2, <1>8, <1>9 DEF t

\* Two neighbours of a list change places.
Exchanged(s, k) == [s EXCEPT ![k] = s[k + 1], ![k + 1] = s[k]]

LEMMA ExchangedIs ==
  ASSUME NEW S, NEW s \in Seq(S), NEW k \in 1..(Len(s) - 1)
  PROVE  /\ Exchanged(s, k) \in Seq(S) /\ Len(Exchanged(s, k)) = Len(s)
         /\ Range(Exchanged(s, k)) = Range(s)
         /\ Once(s) => Once(Exchanged(s, k))
<1> DEFINE x == Exchanged(s, k)
<1>1. /\ Len(s) \in Nat /\ DOMAIN s = 1..Len(s)
      /\ \A j \in 1..Len(s) : s[j] \in S
      /\ Range(s) = {s[j] : j \in 1..Len(s)}
  BY ListIs
<1>2. k \in 1..Len(s) /\ k + 1 \in 1..Len(s) BY <1>1
<1>3. DOMAIN x = 1..Len(s) BY <1>1 DEF Exchanged
<1>4. \A j \in 1..Len(s) :
        x[j] = IF j = k + 1 THEN s[k] ELSE IF j = k THEN s[k + 1] ELSE s[j]
  BY <1>1, <1>2 DEF Exchanged
<1>5. x \in [1..Len(s) -> S]
  <2>1. x = [j \in 1..Len(s) |-> x[j]] BY <1>1 DEF Exchanged
  <2>2. \A j \in 1..Len(s) : x[j] \in S BY <1>1, <1>2, <1>4
  <2>3. QED BY <2>1, <2>2
<1>6. x \in Seq(S) /\ Len(x) = Len(s) BY <1>1, <1>5
<1>7. Range(x) = {x[j] : j \in 1..Len(s)} BY <1>3 DEF Range
<1>8. Range(x) = Range(s)
  <2>1. ASSUME NEW e \in Range(x) PROVE e \in Range(s)
    BY <1>1, <1>2, <1>4, <1>7
  <2>2. ASSUME NEW e \in Range(s) PROVE e \in Range(x)
    <3>1. PICK j \in 1..Len(s) : e = s[j] BY <1>1, <2>2
    <3>2. CASE j = k BY <1>2, <1>4, <1>7, <3>1, <3>2
    <3>3. CASE j = k + 1
      <4>1. x[k] = e BY <1>2, <1>4, <3>1, <3>3
      <4>2. QED BY <1>2, <1>7, <4>1
    <3>4. CASE j # k /\ j # k + 1 BY <1>4, <1>7, <3>1, <3>4
    <3>5. QED BY <3>2, <3>3, <3>4
  <2>3. QED BY <2>1, <2>2
<1>9. ASSUME Once(s) PROVE Once(x)
  <2>1. SUFFICES ASSUME NEW i \in 1..Len(s), NEW j \in 1..Len(s), x[i] = x[j]
                 PROVE  i = j
    BY <1>6 DEF Once
  <2> DEFINE was(n) == IF n = k + 1 THEN k ELSE IF n = k THEN k + 1 ELSE n
  <2>2. was(i) \in 1..Len(s) /\ was(j) \in 1..Len(s) BY <1>2
  <2>3. x[i] = s[was(i)] /\ x[j] = s[was(j)] BY <1>4
  <2>4. was(i) = was(j) BY <1>9, <2>1, <2>2, <2>3 DEF Once
  <2>5. QED BY <1>2, <2>4
<1>10. QED BY <1>6, <1>8, <1>9

-----------------------------------------------------------------------------
(***************************************************************************)
(* Nodes.                                                                  *)
(***************************************************************************)

LEMMA NodeIs ==
  ASSUME NEW n \in Nodes
  PROVE  /\ n \in Seq(Nat \ {0}) /\ Len(n) \in Nat \ {0}
         /\ \A k \in 1..Len(n) : n[k] \in Nat \ {0}
         /\ Last(n) = n[Len(n)] /\ Last(n) \in Nat \ {0}
<1>1. n \in Seq(Nat \ {0}) /\ Len(n) > 0 BY NodesAssumption
<1>2. Len(n) \in Nat /\ \A k \in 1..Len(n) : n[k] \in Nat \ {0} BY <1>1, ListIs
<1>3. Last(n) = n[Len(n)] BY DEF Last
<1>4. Len(n) \in 1..Len(n) BY <1>1, <1>2
<1>5. QED BY <1>1, <1>2, <1>3, <1>4

LEMMA BusIs ==
  /\ Buses \subseteq Nodes /\ \A n \in Nodes : n \in Buses <=> IsBus(n)
  /\ Devices \subseteq Nodes /\ \A n \in Nodes : n \in Devices <=> ~IsBus(n)
BY DEF Buses, Devices

\* What a device hangs on.
LEMMA ParentIs ==
  ASSUME NEW d \in Nodes, ~IsBus(d)
  PROVE  /\ Parent(d) \in Nodes /\ Len(Parent(d)) = Len(d) - 1 /\ Len(d) > 1
         /\ \A k \in 1..(Len(d) - 1) : Parent(d)[k] = d[k]
         /\ Parent(d) = Prefix(d, Len(d) - 1)
<1>1. d \in Seq(Nat \ {0}) /\ Len(d) \in Nat \ {0} BY NodeIs
<1>2. Len(d) > 1
  <2>1. Len(d) # 1 BY DEF IsBus
  <2>2. \A m \in Nat \ {0} : m # 1 => m > 1 OBVIOUS
  <2>3. QED BY <1>1, <2>1, <2>2
<1>3. Parent(d) \in Nodes BY <1>2, NodesAssumption
<1>4. Parent(d) = SubSeq(d, 1, Len(d) - 1) BY DEF Parent, Front
<1>5. \A k \in 1..(Len(d) - 1) : d[k] \in Nat \ {0} BY <1>1, ListIs
<1>6. /\ Len(SubSeq(d, 1, Len(d) - 1)) = Len(d) - 1
      /\ \A k \in 1..(Len(d) - 1) : SubSeq(d, 1, Len(d) - 1)[k] = d[k]
  <2>1. 1 \in Int /\ Len(d) - 1 \in Int /\ 1 <= Len(d) - 1 BY <1>1, <1>2
  <2>2. /\ Len(SubSeq(d, 1, Len(d) - 1)) = (Len(d) - 1) - 1 + 1
        /\ \A k \in 1..((Len(d) - 1) - 1 + 1) :
              SubSeq(d, 1, Len(d) - 1)[k] = d[1 + k - 1]
    BY <1>5, <2>1, SubSeqProperties
  <2>3. QED BY <1>1, <2>2
<1>7. QED BY <1>2, <1>3, <1>4, <1>6 DEF Prefix

\* A node is its path.
LEMMA SameNode ==
  ASSUME NEW a \in Nodes, NEW b \in Nodes, Len(a) = Len(b),
         \A k \in 1..Len(a) : a[k] = b[k]
  PROVE  a = b
BY NodeIs, SeqEqual

\* No two devices on one hub have one port.
LEMMA SamePort ==
  ASSUME NEW a \in Nodes, NEW b \in Nodes, ~IsBus(a), ~IsBus(b),
         Parent(a) = Parent(b), Last(a) = Last(b)
  PROVE  a = b
<1>1. Len(a) \in Nat \ {0} /\ Len(b) \in Nat \ {0} BY NodeIs
<1>2. Len(a) = Len(b) /\ \A k \in 1..(Len(a) - 1) : a[k] = b[k]
  BY <1>1, ParentIs
<1>3. \A k \in 1..Len(a) : a[k] = b[k]
  <2> TAKE k \in 1..Len(a)
  <2>1. CASE k = Len(a) BY <1>2, <2>1, NodeIs
  <2>2. CASE k # Len(a)
    <3>1. k \in 1..(Len(a) - 1) BY <1>1, <2>2
    <3>2. QED BY <1>2, <3>1
  <2>3. QED BY <2>1, <2>2
<1>4. QED BY <1>2, <1>3, SameNode

-----------------------------------------------------------------------------
(***************************************************************************)
(* Sorting.                                                                *)
(***************************************************************************)

LEMMA FiniteRange ==
  ASSUME NEW S, NEW s \in Seq(S)
  PROVE  IsFiniteSet(Range(s))
<1>1. Len(s) \in Nat /\ DOMAIN s = 1..Len(s) /\ s \in [1..Len(s) -> S]
  BY LenProperties
<1>2. IsFiniteSet(1..Len(s)) BY <1>1, FS_Interval
<1>3. s \in Surjection(1..Len(s), Range(s)) BY <1>1, Fun_RangeProperties
<1>4. QED BY <1>2, <1>3, FS_Surjection

\* The orders of a set have each of its elements once.
LEMMA OrdersOf ==
  ASSUME NEW S, IsFiniteSet(S), NEW s \in SetToSeqs(S)
  PROVE  s \in Seq(S) /\ Once(s) /\ Range(s) = S
<1> DEFINE n == Cardinality(S)
<1>1. n \in Nat BY FS_CardinalityType
<1>2. s \in [1..n -> S] /\ \A j, k \in 1..n : s[j] = s[k] => j = k
  BY DEF SetToSeqs
<1>3. s \in Seq(S) /\ DOMAIN s = 1..n BY <1>1, <1>2
<1>4. s \in Injection(1..n, S) BY <1>2, Fun_IsInj
<1>5. Cardinality(1..n) = n BY <1>1, FS_Interval
<1>6. s \in Surjection(1..n, S) BY <1>4, <1>5, FS_Injection
<1>7. Range(s) = S BY <1>6, Fun_SurjectionProperties
<1>8. Once(s) BY <1>1, <1>2 DEF Once
<1>9. QED BY <1>3, <1>7, <1>8

\* Nodes that differ in their last part have an order by it: each at the place
\* that tells how many come no later.
LEMMA SomeOrder ==
  ASSUME NEW R \in SUBSET Nodes, IsFiniteSet(R),
         \A a, b \in R : Last(a) = Last(b) => a = b
  PROVE  \E l \in SetToSeqs(R) :
            \A j, k \in 1..Len(l) : j < k => ~ToBeSwapped(l[j], l[k])
<1> DEFINE n == Cardinality(R)
           before(x) == {y \in R : Last(y) <= Last(x)}
           rank == [x \in R |-> Cardinality(before(x))]
           l == [k \in 1..n |-> CHOOSE x \in R : rank[x] = k]
<1>1. n \in Nat BY FS_CardinalityType
<1>2. \A x \in R : Last(x) \in Nat BY NodeIs
<1>3. \A x \in R : /\ IsFiniteSet(before(x)) /\ Cardinality(before(x)) \in Nat
                   /\ Cardinality(before(x)) <= n
  <2> TAKE x \in R
  <2>1. before(x) \in SUBSET R OBVIOUS
  <2>2. QED BY <2>1, FS_Subset, FS_CardinalityType
<1>4. rank \in [R -> 1..n]
  <2>1. ASSUME NEW x \in R PROVE Cardinality(before(x)) \in 1..n
    <3>1. x \in before(x) BY <1>2
    <3>2. Cardinality(before(x)) # 0 BY <1>3, <3>1, FS_EmptySet
    <3>3. QED BY <1>1, <1>3, <3>2
  <2>2. QED BY <2>1
<1>5. ASSUME NEW x \in R, NEW y \in R, Last(x) < Last(y)
      PROVE  rank[x] < rank[y]
  <2>1. before(x) \in SUBSET before(y) /\ y \in before(y) /\ y \notin before(x)
    BY <1>2, <1>5
  <2>2. /\ Cardinality(before(x)) <= Cardinality(before(y))
        /\ Cardinality(before(x)) # Cardinality(before(y))
    BY <1>3, <2>1, FS_Subset
  <2>3. QED BY <1>3, <2>2
<1> HIDE DEF rank
<1>6. \A x, y \in R : rank[x] = rank[y] => x = y
  <2> TAKE x, y \in R
  <2> HAVE rank[x] = rank[y]
  <2>1. rank[x] \in Nat /\ rank[y] \in Nat BY <1>4
  <2>2. ~ (Last(x) < Last(y)) /\ ~ (Last(y) < Last(x)) BY <1>5, <2>1
  <2>3. QED BY <1>2, <2>2
<1>7. rank \in Injection(R, 1..n) BY <1>4, <1>6, Fun_IsInj
<1>8. IsFiniteSet(1..n) /\ Cardinality(1..n) = n BY <1>1, FS_Interval
<1>9. rank \in Surjection(R, 1..n) BY <1>7, <1>8, FS_Injection
<1>10. \A k \in 1..n : \E x \in R : rank[x] = k
  BY <1>9, Fun_SurjectionProperties
<1>11. \A k \in 1..n : l[k] \in R /\ rank[l[k]] = k BY <1>10
<1>12. l \in [1..n -> R] BY <1>10
<1> HIDE DEF l
<1>13. l \in SetToSeqs(R) BY <1>11, <1>12 DEF SetToSeqs
<1>14. Len(l) = n BY <1>1, <1>12
<1>15. \A j, k \in 1..n : j < k => ~ToBeSwapped(l[j], l[k])
  <2> TAKE j, k \in 1..n
  <2> HAVE j < k
  <2>1. rank[l[j]] = j /\ rank[l[k]] = k /\ l[j] \in R /\ l[k] \in R BY <1>11
  <2>2. ~ (rank[l[k]] < rank[l[j]]) BY <2>1
  <2>3. QED BY <1>5, <2>1, <2>2 DEF ToBeSwapped
<1>16. QED BY <1>13, <1>14, <1>15

\* Sorting loses nothing, repeats nothing and puts in order.
LEMMA SortedIs ==
  ASSUME NEW S \in SUBSET Nodes, NEW list \in Seq(S), Once(list),
         \A a, b \in Range(list) : Last(a) = Last(b) => a = b
  PROVE  /\ Sorted(list) \in Seq(S) /\ Once(Sorted(list))
         /\ Range(Sorted(list)) = Range(list)
         /\ InOrder(Sorted(list))
<1> DEFINE R == Range(list)
           l == Sorted(list)
<1>1. R \in SUBSET S /\ R \in SUBSET Nodes BY ListIs
<1>2. IsFiniteSet(R) BY FiniteRange
<1>3. \E o \in SetToSeqs(R) :
         \A j, k \in 1..Len(o) : j < k => ~ToBeSwapped(o[j], o[k])
  BY <1>1, <1>2, SomeOrder
<1>4. /\ l \in SetToSeqs(R)
      /\ \A j, k \in 1..Len(l) : j < k => ~ToBeSwapped(l[j], l[k])
  BY <1>3 DEF Sorted
<1> HIDE DEF l
<1>5. l \in Seq(R) /\ Once(l) /\ Range(l) = R BY <1>2, <1>4, OrdersOf
<1>6. l \in Seq(S) BY <1>1, <1>5, SeqMonotonic
<1>7. InOrder(l)
  <2>1. SUFFICES ASSUME NEW j \in 1..Len(l), NEW k \in 1..Len(l), j < k
                 PROVE  Last(l[j]) < Last(l[k])
    BY DEF InOrder
  <2>2. l[j] \in R /\ l[k] \in R BY <1>5, ListIs
  <2>3. Len(l) \in Nat /\ j # k BY <1>5, <2>1, ListIs
  <2>4. l[j] # l[k] BY <1>5, <2>3 DEF Once
  <2>5. Last(l[j]) # Last(l[k]) BY <2>2, <2>4
  <2>6. ~ (Last(l[j]) > Last(l[k])) BY <1>4, <2>1 DEF ToBeSwapped
  <2>7. Last(l[j]) \in Nat /\ Last(l[k]) \in Nat BY <1>1, <2>2, NodeIs
  <2>8. QED BY <2>5, <2>6, <2>7
<1>8. QED BY <1>5, <1>6, <1>7 DEF l

-----------------------------------------------------------------------------
(***************************************************************************)
(* The tree: what is above a node, and what is left of it.                 *)
(***************************************************************************)

LEMMA PrefixIs ==
  ASSUME NEW n \in Seq(Nat \ {0}), NEW k \in 1..Len(n)
  PROVE  /\ Prefix(n, k) \in Seq(Nat \ {0}) /\ Len(Prefix(n, k)) = k
         /\ \A j \in 1..k : Prefix(n, k)[j] = n[j]
<1>1. Len(n) \in Nat /\ \A j \in 1..Len(n) : n[j] \in Nat \ {0} BY ListIs
<1>2. 1 \in Int /\ k \in Int /\ 1 <= k /\ \A j \in 1..k : n[j] \in Nat \ {0}
  BY <1>1
<1>3. /\ SubSeq(n, 1, k) \in Seq(Nat \ {0}) /\ Len(SubSeq(n, 1, k)) = k - 1 + 1
      /\ \A j \in 1..(k - 1 + 1) : SubSeq(n, 1, k)[j] = n[1 + j - 1]
  BY <1>2, SubSeqProperties
<1>4. QED BY <1>2, <1>3 DEF Prefix

LEMMA WholePrefix ==
  ASSUME NEW n \in Seq(Nat \ {0})
  PROVE  Prefix(n, Len(n)) = n
BY SubSeqFull DEF Prefix

LEMMA PrefixOfPrefix ==
  ASSUME NEW n \in Seq(Nat \ {0}), NEW k \in 1..Len(n), NEW j \in 1..k
  PROVE  Prefix(Prefix(n, k), j) = Prefix(n, j)
<1> DEFINE p == Prefix(n, k)
<1>1. /\ p \in Seq(Nat \ {0}) /\ Len(p) = k /\ \A i \in 1..k : p[i] = n[i]
  BY PrefixIs
<1> HIDE DEF p
<1>2. Len(n) \in Nat BY ListIs
<1>3. j \in 1..Len(n) /\ j \in 1..Len(p) BY <1>1, <1>2
<1>4. /\ Prefix(n, j) \in Seq(Nat \ {0}) /\ Len(Prefix(n, j)) = j
      /\ \A i \in 1..j : Prefix(n, j)[i] = n[i]
  BY <1>3, PrefixIs
<1>5. /\ Prefix(p, j) \in Seq(Nat \ {0}) /\ Len(Prefix(p, j)) = j
      /\ \A i \in 1..j : Prefix(p, j)[i] = p[i]
  BY <1>1, <1>3, PrefixIs
<1>6. \A i \in 1..j : i \in 1..k OBVIOUS
<1>7. Prefix(p, j) = Prefix(n, j) BY <1>1, <1>4, <1>5, <1>6, SeqEqual
<1>8. QED BY <1>7 DEF p

\* The next prefix hangs on the one before.
LEMMA NextPrefix ==
  ASSUME NEW n \in Seq(Nat \ {0}), NEW k \in 1..Len(n), k # Len(n)
  PROVE  /\ k + 1 \in 1..Len(n)
         /\ ~IsBus(Prefix(n, k + 1)) /\ Parent(Prefix(n, k + 1)) = Prefix(n, k)
<1>1. Len(n) \in Nat BY ListIs
<1>2. k + 1 \in 1..Len(n) /\ k \in 1..(k + 1) /\ (k + 1) - 1 = k BY <1>1
<1>3. Len(Prefix(n, k + 1)) = k + 1 BY <1>2, PrefixIs
<1>4. ~IsBus(Prefix(n, k + 1))
  <2>1. k + 1 # 1 BY <1>1
  <2>2. Len(Prefix(n, k + 1)) # 1 BY <1>3, <2>1
  <2>3. QED BY <2>2 DEF IsBus
<1>5. Parent(Prefix(n, k + 1)) = Prefix(Prefix(n, k + 1), k)
  BY <1>2, <1>3 DEF Parent, Front, Prefix
<1>6. QED BY <1>2, <1>4, <1>5, PrefixOfPrefix

\* What is above something in the tree is in the tree ...
LEMMA AboveIsInTree ==
  ASSUME Seen \subseteq Nodes, NEW n \in InTree, NEW k \in 1..Len(n)
  PROVE  Prefix(n, k) \in InTree
<1>1. n \in Nodes BY DEF InTree
<1>2. n \in Seq(Nat \ {0}) BY <1>1, NodeIs
<1>3. \A j \in 1..Len(n) : Prefix(n, j) \in Seen BY DEF InTree, Rooted, Prefix
<1>4. Len(Prefix(n, k)) = k BY <1>2, PrefixIs
<1>5. \A j \in 1..k : Prefix(Prefix(n, k), j) \in Seen
  <2> TAKE j \in 1..k
  <2>1. j \in 1..Len(n) BY <1>2, ListIs
  <2>2. QED BY <1>2, <1>3, <2>1, PrefixOfPrefix
<1>6. Rooted(Prefix(n, k)) BY <1>4, <1>5 DEF Rooted, Prefix
<1>7. QED BY <1>3, <1>6 DEF InTree

\* ... and so is a bus, and what was seen below something in the tree.
LEMMA BusIsInTree ==
  ASSUME NEW n \in Seen, n \in Nodes, IsBus(n)
  PROVE  n \in InTree
<1>1. n \in Seq(Nat \ {0}) /\ Len(n) = 1 BY NodeIs DEF IsBus
<1>2. \A k \in 1..Len(n) : Prefix(n, k) = n
  <2>1. Prefix(n, 1) = n BY <1>1, WholePrefix
  <2>2. \A k \in 1..1 : k = 1 OBVIOUS
  <2>3. QED BY <1>1, <2>1, <2>2
<1>3. QED BY <1>2 DEF InTree, Rooted, Prefix

LEMMA BelowIsInTree ==
  ASSUME NEW d \in Seen, d \in Nodes, ~IsBus(d), Parent(d) \in InTree
  PROVE  d \in InTree
<1>1. d \in Seq(Nat \ {0}) /\ Len(d) \in Nat BY NodeIs
<1>2. /\ Len(Parent(d)) = Len(d) - 1 /\ Len(d) > 1
      /\ Parent(d) = Prefix(d, Len(d) - 1)
  BY ParentIs
<1>3. \A k \in 1..Len(d) : Prefix(d, k) \in Seen
  <2> TAKE k \in 1..Len(d)
  <2>1. CASE k = Len(d) BY <1>1, <2>1, WholePrefix
  <2>2. CASE k # Len(d)
    <3>1. /\ k \in 1..(Len(d) - 1) /\ Len(d) - 1 \in 1..Len(d)
      BY <1>1, <1>2, <2>2
    <3>2. Prefix(Parent(d), k) = Prefix(d, k)
      BY <1>1, <1>2, <3>1, PrefixOfPrefix
    <3>3. Prefix(Parent(d), k) \in Seen
      BY <1>2, <3>1 DEF InTree, Rooted, Prefix
    <3>4. QED BY <3>2, <3>3
  <2>3. QED BY <2>1, <2>2
<1>4. QED BY <1>3 DEF InTree, Rooted, Prefix

LEMMA OnSelf ==
  ASSUME NEW n \in Nodes, NEW list, n \in list
  PROVE  On(list, n)
<1>1. n \in Seq(Nat \ {0}) /\ Len(n) \in 1..Len(n) BY NodeIs
<1>2. QED BY <1>1, WholePrefix DEF On

LEMMA OnMore ==
  ASSUME NEW n, NEW list, NEW more, On(list, n), list \subseteq more
  PROVE  On(more, n)
BY DEF On

\* Of what hangs below something on a list, all but that itself hangs below
\* what is put on the list in its stead.
LEMMA OnBelow ==
  ASSUME Seen \subseteq Nodes, NEW n \in InTree, NEW list, On(list, n), NEW h,
         NEW more, list \ {h} \subseteq more,
         \A d \in Seen : ~IsBus(d) /\ Parent(d) = h => d \in more
  PROVE  n = h \/ On(more, n)
<1>1. n \in Nodes BY DEF InTree
<1>2. n \in Seq(Nat \ {0}) BY <1>1, NodeIs
<1>3. PICK k \in 1..Len(n) : Prefix(n, k) \in list BY DEF On
<1>4. CASE Prefix(n, k) # h
  <2>1. Prefix(n, k) \in more BY <1>3, <1>4
  <2>2. QED BY <2>1 DEF On
<1>5. CASE Prefix(n, k) = h /\ k = Len(n) BY <1>2, <1>5, WholePrefix
<1>6. CASE Prefix(n, k) = h /\ k # Len(n)
  <2>1. /\ k + 1 \in 1..Len(n) /\ ~IsBus(Prefix(n, k + 1))
        /\ Parent(Prefix(n, k + 1)) = h
    BY <1>2, <1>6, NextPrefix
  <2>2. Prefix(n, k + 1) \in Seen BY <2>1 DEF InTree, Rooted, Prefix
  <2>3. Prefix(n, k + 1) \in more BY <2>1, <2>2
  <2>4. QED BY <2>1, <2>3 DEF On
<1>7. QED BY <1>4, <1>5, <1>6

LEMMA LeftIsBefore ==
  ASSUME NEW a, NEW b, LeftOf(a, b)
  PROVE  PathBefore(a, b)
BY DEF LeftOf, PathBefore

LEMMA ParentIsBefore ==
  ASSUME NEW d \in Nodes, ~IsBus(d)
  PROVE  PathBefore(Parent(d), d)
<1>1. Len(d) \in Nat BY NodeIs
<1>2. /\ Len(Parent(d)) = Len(d) - 1
      /\ \A k \in 1..(Len(d) - 1) : Parent(d)[k] = d[k]
  BY ParentIs
<1>3. Len(Parent(d)) < Len(d) BY <1>1, <1>2
<1>4. \A k \in 1..Len(Parent(d)) : Parent(d)[k] = d[k] BY <1>2
<1>5. QED BY <1>3, <1>4 DEF PathBefore

\* What is below something on the left is on the left.
LEMMA LeftBelow ==
  ASSUME NEW d \in Nodes, ~IsBus(d), NEW b \in Nodes, LeftOf(Parent(d), b)
  PROVE  LeftOf(d, b)
<1> DEFINE a == Parent(d)
<1>1. Len(d) \in Nat BY NodeIs
<1>2. Len(a) = Len(d) - 1 /\ \A k \in 1..(Len(d) - 1) : a[k] = d[k]
  BY ParentIs
<1>3. PICK k \in 1..Len(a) : k <= Len(b) /\ a[k] < b[k]
                             /\ \A l \in 1..(k - 1) : a[l] = b[l]
  BY DEF LeftOf
<1> HIDE DEF a
<1>4. k \in 1..Len(d) /\ k \in 1..(Len(d) - 1) BY <1>1, <1>2
<1>5. d[k] < b[k] BY <1>2, <1>3, <1>4
<1>6. \A l \in 1..(k - 1) : d[l] = b[l]
  <2> TAKE l \in 1..(k - 1)
  <2>1. l \in 1..(Len(d) - 1) BY <1>1, <1>4
  <2>2. QED BY <1>2, <1>3, <2>1
<1>7. QED BY <1>3, <1>4, <1>5, <1>6 DEF LeftOf

\* Of siblings the one with the smaller port is on the left, as of buses.
LEMMA SiblingIsLeft ==
  ASSUME NEW a \in Nodes, NEW b \in Nodes, ~IsBus(a), ~IsBus(b),
         Parent(a) = Parent(b), Last(a) < Last(b)
  PROVE  LeftOf(a, b)
<1>1. Len(a) \in Nat \ {0} /\ Len(b) \in Nat \ {0}
      /\ Last(a) = a[Len(a)] /\ Last(b) = b[Len(b)]
  BY NodeIs
<1>2. Len(a) = Len(b) /\ \A k \in 1..(Len(a) - 1) : a[k] = b[k]
  BY <1>1, ParentIs
<1>3. Len(a) \in 1..Len(a) BY <1>1
<1>4. Len(a) <= Len(b) /\ a[Len(a)] < b[Len(a)] BY <1>1, <1>2
<1>5. QED BY <1>2, <1>3, <1>4 DEF LeftOf

LEMMA BusIsLeft ==
  ASSUME NEW a \in Nodes, NEW b \in Nodes, IsBus(a), IsBus(b), Last(a) < Last(b)
  PROVE  LeftOf(a, b)
<1>1. Len(a) = 1 /\ Len(b) = 1 BY DEF IsBus
<1>2. a[1] < b[1] BY <1>1 DEF Last
<1>3. \A l \in 1..(1 - 1) : a[l] = b[l] OBVIOUS
<1>4. 1 \in 1..Len(a) BY <1>1
<1>5. QED BY <1>1, <1>2, <1>3, <1>4 DEF LeftOf

\* Buses are told apart by their numbers.
LEMMA SameBus ==
  ASSUME NEW a \in Nodes, NEW b \in Nodes, IsBus(a), IsBus(b), Last(a) = Last(b)
  PROVE  a = b
<1>1. Len(a) = 1 /\ Len(b) = 1 BY DEF IsBus
<1>2. a[1] = b[1] BY <1>1 DEF Last
<1>3. QED BY <1>1, <1>2, SameNode

-----------------------------------------------------------------------------
(***************************************************************************)
(* Reading the directory.                                                  *)
(***************************************************************************)

LEMMA SeenTyped ==
  ASSUME TypeOK
  PROVE  /\ Range(usbbuslist) \subseteq Buses
         /\ Range(usbdevlist) \subseteq Devices
         /\ Range(interfacelist) \subseteq Interfaces
         /\ Seen \subseteq Nodes
<1>1. /\ usbbuslist \in Seq(Buses) /\ usbdevlist \in Seq(Devices)
      /\ interfacelist \in Seq(Interfaces)
  BY DEF TypeOK
<1>2. /\ Range(usbbuslist) \subseteq Buses /\ Range(usbdevlist) \subseteq Devices
      /\ Range(interfacelist) \subseteq Interfaces
  BY <1>1, ListIs
<1>3. QED BY <1>2, BusIs DEF Seen

\* Nothing is connected, sorted or printed before all has been read.
LEMMA WhileReading ==
  ASSUME TreeInv, pc \in {"start", "walk"}
  PROVE  /\ \A n \in Nodes :
               /\ Once(children[n]) /\ Range(children[n]) = {}
               /\ Once(ifs[n]) /\ \A i \in Range(ifs[n]) : Owner(i) = n
         /\ \A n \in Devices : Range(ifs[n]) = {}
         /\ entered = {} /\ printed = <<>>
<1>1. pc \notin WasRead /\ pc # "connect" /\ pc # "connect_if" BY DEF WasRead
<1>2. Placed = {} /\ Equipped = {} BY <1>1, Zenon DEF Placed, Equipped
<1>3. QED BY <1>1, <1>2 DEF TreeInv, ChildrenInv, IfsInv, SortInv, PrintInv

LEMMA ReadingKeepsInv ==
  ASSUME TreeInv, pc \in {"start", "walk"}, pc' \in {"walk", "done"},
         UNCHANGED <<treeVars, entered, printed>>, TypeOK', DirInv'
  PROVE  TreeInv'
<1>1. UNCHANGED <<children, ifs, entered, printed>> BY DEF treeVars
<1>2. pc' \notin WasRead /\ pc' # "connect" /\ pc' # "connect_if" /\ pc' # "sort"
      /\ pc' # "sort_if" /\ pc' # "print" /\ pc' # "cleanup"
  BY DEF WasRead
<1>3. Placed' = {} /\ Equipped' = {}
  <2>1. Placed' = IF pc' = "connect" THEN FirstDevices(Turn)'
                  ELSE IF pc' = "connect_if" THEN FirstDevices(Turn + 1)'
                  ELSE IF pc' \in WasRead THEN Range(usbdevlist)' ELSE {}
    BY Zenon DEF Placed, WasRead
  <2>2. Equipped' = IF pc' \in {"connect", "connect_if"} THEN FirstDevices(Turn)'
                    ELSE IF pc' \in WasRead THEN Range(usbdevlist)' ELSE {}
    BY Zenon DEF Equipped, WasRead
  <2>3. QED BY <1>2, <2>1, <2>2, Zenon
<1>4. QueueInv' BY <1>2 DEF QueueInv
<1>5. ChildrenInv' BY <1>1, <1>3, WhileReading DEF ChildrenInv
<1>6. IfsInv' BY <1>1, <1>2, <1>3, WhileReading DEF IfsInv
<1>7. SortInv' BY <1>1, <1>2, WhileReading DEF SortInv
<1>8. PrintInv' BY <1>1, <1>2, WhileReading DEF PrintInv
<1>9. LinesAscend' BY <1>1 DEF TreeInv, LinesAscend
<1>10. QED BY <1>4, <1>5, <1>6, <1>7, <1>8, <1>9 DEF TreeInv

LEMMA KernelKeepsInv == ASSUME TreeInv, Kernel PROVE TreeInv'
<1>1. /\ pc = "walk" /\ pc' = pc
      /\ UNCHANGED <<unread, unreadIfs, usbbuslist, usbdevlist, interfacelist,
                     children, ifs, queue, entered, at, swapped, printed>>
  BY DEF Kernel, dirVars, listVars, treeVars, sortVars
<1>2. TypeOK /\ DirInv BY DEF TreeInv
<1>3. CASE \E n \in Nodes : Plug(n) \/ Unplug(n)
  <2>1. /\ present' \subseteq Nodes /\ presentIfs' = presentIfs
        /\ stable' \subseteq stable /\ stable' \subseteq present'
        /\ stableIfs' = stableIfs
    BY <1>2, <1>3 DEF TypeOK, DirInv, Plug, Unplug, histVars
  <2>2. TypeOK' BY <1>1, <1>2, <2>1 DEF TypeOK
  <2>3. DirInv' BY <1>1, <1>2, <2>1 DEF DirInv, Seen, WasRead
  <2>4. QED BY <1>1, <2>2, <2>3, ReadingKeepsInv DEF treeVars
<1>4. CASE \E i \in Interfaces : AddInterface(i) \/ RemoveInterface(i)
  <2>1. /\ presentIfs' \subseteq Interfaces /\ present' = present
        /\ stableIfs' \subseteq stableIfs /\ stableIfs' \subseteq presentIfs'
        /\ stable' = stable
    BY <1>2, <1>4 DEF TypeOK, DirInv, AddInterface, RemoveInterface, histVars
  <2>2. TypeOK' BY <1>1, <1>2, <2>1 DEF TypeOK
  <2>3. DirInv' BY <1>1, <1>2, <2>1 DEF DirInv, Seen, WasRead
  <2>4. QED BY <1>1, <2>2, <2>3, ReadingKeepsInv DEF treeVars
<1>5. QED BY <1>3, <1>4 DEF Kernel

LEMMA OpenDirKeepsInv == ASSUME TreeInv, OpenDir PROVE TreeInv'
<1>1. /\ pc = "start" /\ pc' \in {"walk", "done"}
      /\ UNCHANGED <<present, presentIfs, unread, unreadIfs, stable, stableIfs,
                     usbbuslist, usbdevlist, interfacelist, children, ifs,
                     queue, entered, at, swapped, printed>>
  BY DEF OpenDir, sysfsVars, dirVars, histVars, listVars, treeVars, sortVars
<1>2. TypeOK' BY <1>1 DEF TreeInv, TypeOK
<1>3. DirInv' BY <1>1 DEF TreeInv, DirInv, Seen, WasRead
<1>4. QED BY <1>1, <1>2, <1>3, ReadingKeepsInv DEF treeVars

\* A name read goes to one of the lists, or is dropped and not counted on.
LEMMA NodeRead ==
  ASSUME TypeOK, DirInv, NEW n \in unread, AddNode(n)
  PROVE  /\ usbbuslist' \in Seq(Buses) /\ Once(usbbuslist')
         /\ usbdevlist' \in Seq(Devices) /\ Once(usbdevlist')
         /\ Seen' = Seen \cup {n}
<1>1. /\ usbbuslist \in Seq(Buses) /\ usbdevlist \in Seq(Devices)
      /\ Once(usbbuslist) /\ Once(usbdevlist) /\ n \in Nodes
      /\ n \notin Range(usbbuslist) /\ n \notin Range(usbdevlist)
  BY DEF TypeOK, DirInv, Seen
<1>2. CASE IsBus(n)
  <2>1. usbbuslist' = Append(usbbuslist, n) /\ usbdevlist' = usbdevlist
    BY <1>2 DEF AddNode
  <2>2. n \in Buses BY <1>1, <1>2, BusIs
  <2>3. /\ usbbuslist' \in Seq(Buses) /\ Once(usbbuslist')
        /\ Range(usbbuslist') = Range(usbbuslist) \cup {n}
    BY <1>1, <2>1, <2>2, OneMore
  <2>4. QED BY <1>1, <2>1, <2>3 DEF Seen
<1>3. CASE ~IsBus(n)
  <2>1. usbdevlist' = Append(usbdevlist, n) /\ usbbuslist' = usbbuslist
    BY <1>3 DEF AddNode
  <2>2. n \in Devices BY <1>1, <1>3, BusIs
  <2>3. /\ usbdevlist' \in Seq(Devices) /\ Once(usbdevlist')
        /\ Range(usbdevlist') = Range(usbdevlist) \cup {n}
    BY <1>1, <2>1, <2>2, OneMore
  <2>4. QED BY <1>1, <2>1, <2>3 DEF Seen
<1>4. QED BY <1>2, <1>3

LEMMA ReadNodeKeepsInv ==
  ASSUME TreeInv, NEW n \in Nodes, ReadNode(n) PROVE TreeInv'
<1>1. /\ pc = "walk" /\ pc' = pc /\ n \in unread /\ unread' = unread \ {n}
      /\ UNCHANGED <<present, presentIfs, unreadIfs, stableIfs, interfacelist,
                     children, ifs, queue, entered, at, swapped, printed>>
  BY DEF ReadNode, sysfsVars, treeVars, sortVars
<1>2. TypeOK /\ DirInv BY DEF TreeInv
<1>3. /\ usbbuslist' \in Seq(Buses) /\ Once(usbbuslist')
      /\ usbdevlist' \in Seq(Devices) /\ Once(usbdevlist')
      /\ Seen' \cap unread' = {} /\ stable' \subseteq stable
      /\ stable' \subseteq Seen' \cup unread'
  <2>1. CASE n \in present /\ AddNode(n) /\ UNCHANGED stable
    <3>1. Seen' = Seen \cup {n} BY <1>1, <1>2, <2>1, NodeRead
    <3>2. QED BY <1>1, <1>2, <2>1, <3>1, NodeRead DEF DirInv
  <2>2. CASE \/ stable' = stable \ {n} /\ UNCHANGED <<usbbuslist, usbdevlist>>
             \/ n \notin present /\ UNCHANGED <<stable, usbbuslist, usbdevlist>>
    <3>1. UNCHANGED <<usbbuslist, usbdevlist>> /\ Seen' = Seen
          /\ stable' \subseteq stable \ {n}
      BY <1>2, <2>2 DEF Seen, DirInv
    <3>2. QED BY <1>1, <1>2, <3>1 DEF DirInv, TypeOK
  <2>3. QED BY <2>1, <2>2 DEF ReadNode
<1>4. TypeOK' BY <1>1, <1>2, <1>3 DEF TypeOK
<1>5. DirInv' BY <1>1, <1>2, <1>3 DEF DirInv, WasRead
<1>6. QED BY <1>1, <1>4, <1>5, ReadingKeepsInv DEF treeVars

LEMMA ReadInterfaceKeepsInv ==
  ASSUME TreeInv, NEW i \in Interfaces, ReadInterface(i) PROVE TreeInv'
<1>1. /\ pc = "walk" /\ pc' = pc
      /\ i \in unreadIfs /\ unreadIfs' = unreadIfs \ {i}
      /\ UNCHANGED <<present, presentIfs, unread, stable, usbbuslist, usbdevlist,
                     children, ifs, queue, entered, at, swapped, printed>>
  BY DEF ReadInterface, sysfsVars, treeVars, sortVars
<1>2. TypeOK /\ DirInv BY DEF TreeInv
<1>3. /\ interfacelist \in Seq(Interfaces) /\ Once(interfacelist)
      /\ i \notin Range(interfacelist)
  BY <1>1, <1>2 DEF TypeOK, DirInv
<1>4. /\ interfacelist' \in Seq(Interfaces) /\ Once(interfacelist')
      /\ Range(interfacelist') \cap unreadIfs' = {} /\ stableIfs' \subseteq stableIfs
      /\ stableIfs' \subseteq Range(interfacelist') \cup unreadIfs'
  <2>1. CASE interfacelist' = Append(interfacelist, i) /\ UNCHANGED stableIfs
    <3>1. /\ interfacelist' \in Seq(Interfaces) /\ Once(interfacelist')
          /\ Range(interfacelist') = Range(interfacelist) \cup {i}
      BY <1>3, <2>1, OneMore
    <3>2. QED BY <1>1, <1>2, <2>1, <3>1 DEF DirInv
  <2>2. CASE \/ stableIfs' = stableIfs \ {i} /\ UNCHANGED interfacelist
             \/ i \notin presentIfs /\ UNCHANGED <<stableIfs, interfacelist>>
    <3>1. interfacelist' = interfacelist /\ stableIfs' \subseteq stableIfs \ {i}
      BY <1>2, <2>2 DEF DirInv
    <3>2. QED BY <1>1, <1>2, <1>3, <3>1 DEF DirInv
  <2>3. QED BY <2>1, <2>2 DEF ReadInterface
<1>5. TypeOK' BY <1>1, <1>2, <1>4 DEF TypeOK
<1>6. DirInv' BY <1>1, <1>2, <1>4 DEF DirInv, WasRead, Seen
<1>7. QED BY <1>1, <1>5, <1>6, ReadingKeepsInv DEF treeVars

-----------------------------------------------------------------------------
(***************************************************************************)
(* Connecting what was read.                                               *)
(***************************************************************************)

\* The devices passed so far, and the next.
LEMMA FirstDevicesAre ==
  ASSUME TypeOK, DirInv
  PROVE  /\ FirstDevices(0) = {} /\ FirstDevices(Len(usbdevlist)) = Range(usbdevlist)
         /\ \A n \in 0..(Len(usbdevlist) - 1) :
               /\ FirstDevices(n + 1) = FirstDevices(n) \cup {usbdevlist[n + 1]}
               /\ usbdevlist[n + 1] \notin FirstDevices(n)
<1>1. usbdevlist \in Seq(Devices) /\ Once(usbdevlist) BY DEF TypeOK, DirInv
<1>2. /\ Len(usbdevlist) \in Nat
      /\ Range(usbdevlist) = {usbdevlist[k] : k \in 1..Len(usbdevlist)}
  BY <1>1, ListIs
<1>3. FirstDevices(0) = {} BY DEF FirstDevices
<1>4. FirstDevices(Len(usbdevlist)) = Range(usbdevlist)
  BY <1>2 DEF FirstDevices
<1>5. ASSUME NEW n \in 0..(Len(usbdevlist) - 1)
      PROVE  /\ FirstDevices(n + 1) = FirstDevices(n) \cup {usbdevlist[n + 1]}
             /\ usbdevlist[n + 1] \notin FirstDevices(n)
  <2>1. \A k : k \in 1..(n + 1) <=> k \in 1..n \/ k = n + 1 BY <1>2
  <2>2. FirstDevices(n + 1) = FirstDevices(n) \cup {usbdevlist[n + 1]}
    BY <2>1 DEF FirstDevices
  <2>3. \A k \in 1..n : k \in 1..Len(usbdevlist) /\ k # n + 1 BY <1>2
  <2>4. n + 1 \in 1..Len(usbdevlist) BY <1>2
  <2>5. \A k \in 1..n : usbdevlist[k] # usbdevlist[n + 1]
    BY <1>1, <2>3, <2>4 DEF Once
  <2>6. QED BY <2>2, <2>5 DEF FirstDevices
<1>6. QED BY <1>3, <1>4, <1>5

\* While devices are connected, the first of the queue is the next of the list.
LEMMA AtTurn ==
  ASSUME TreeInv, pc \in {"connect", "connect_if"}
  PROVE  /\ Len(usbdevlist) \in Nat /\ Len(queue) \in Nat /\ queue \in Seq(Nodes)
         /\ Turn \in 0..Len(usbdevlist)
         /\ queue = <<>> => Turn = Len(usbdevlist)
         /\ queue # <<>> =>
               /\ Turn \in 0..(Len(usbdevlist) - 1)
               /\ Head(queue) = queue[1] /\ queue[1] = usbdevlist[Turn + 1]
               /\ queue[1] \in Devices /\ queue[1] \in Range(usbdevlist)
<1>1. TypeOK /\ QueueInv BY DEF TreeInv
<1>2. usbdevlist \in Seq(Devices) /\ queue \in Seq(Nodes) BY <1>1 DEF TypeOK
<1>3. /\ Len(usbdevlist) \in Nat /\ Len(queue) \in Nat
      /\ queue = <<>> <=> Len(queue) = 0
  BY <1>2, ListIs
<1>4. /\ Len(queue) <= Len(usbdevlist)
      /\ \A k \in 1..Len(queue) : queue[k] = usbdevlist[Turn + k]
  BY <1>1 DEF QueueInv
<1>5. Turn \in 0..Len(usbdevlist) BY <1>3, <1>4 DEF Turn
<1>6. ASSUME queue # <<>>
      PROVE  /\ Turn \in 0..(Len(usbdevlist) - 1)
             /\ Head(queue) = queue[1] /\ queue[1] = usbdevlist[Turn + 1]
             /\ queue[1] \in Devices /\ queue[1] \in Range(usbdevlist)
  <2>1. Turn \in 0..(Len(usbdevlist) - 1) BY <1>3, <1>4, <1>6 DEF Turn
  <2>2. Head(queue) = queue[1] /\ 1 \in 1..Len(queue)
    BY <1>2, <1>6, FirstAndRest
  <2>3. queue[1] = usbdevlist[Turn + 1] BY <1>4, <2>2
  <2>4. Turn + 1 \in 1..Len(usbdevlist) BY <1>3, <2>1
  <2>5. QED BY <1>2, <2>1, <2>2, <2>3, <2>4, ListIs
<1>7. queue = <<>> => Turn = Len(usbdevlist) BY <1>3 DEF Turn
<1>8. QED BY <1>2, <1>3, <1>5, <1>6, <1>7

\* The search for a device's bus or hub finds what it hangs on, if that was read.
LEMMA ParentsOfIs ==
  ASSUME TypeOK, NEW d \in Devices
  PROVE  ParentsOf(d) = Seen \cap {Parent(d)}
<1>1. d \in Nodes /\ ~IsBus(d) BY BusIs
<1>2. Parent(d) \in Nodes /\ Len(Parent(d)) = Len(d) - 1 /\ Len(d) \in Nat \ {0}
  BY <1>1, ParentIs, NodeIs
<1>3. Parent(d) \in Buses <=> Len(d) = 2
  <2>1. Len(Parent(d)) = 1 <=> Len(d) = 2 BY <1>2
  <2>2. QED BY <1>2, <2>1, BusIs DEF IsBus
<1>4. Range(usbbuslist) \subseteq Buses /\ Range(usbdevlist) \subseteq Devices
  BY SeenTyped
<1>5. CASE Len(d) = 2
  <2>1. Parent(d) \notin Range(usbdevlist) BY <1>3, <1>4, <1>5 DEF Devices
  <2>2. QED BY <1>5, <2>1 DEF ParentsOf, Seen
<1>6. CASE Len(d) # 2
  <2>1. Parent(d) \notin Range(usbbuslist) BY <1>3, <1>4, <1>6
  <2>2. QED BY <1>6, <2>1 DEF ParentsOf, Seen
<1>7. QED BY <1>5, <1>6

LEMMA EndOfDirKeepsInv == ASSUME TreeInv, EndOfDir PROVE TreeInv'
<1>1. /\ pc = "walk" /\ unread = {} /\ unreadIfs = {}
      /\ pc' = "connect" /\ queue' = usbdevlist
      /\ UNCHANGED <<present, presentIfs, unread, unreadIfs, stable, stableIfs,
                     usbbuslist, usbdevlist, interfacelist, children, ifs,
                     entered, at, swapped, printed>>
  BY DEF EndOfDir, sysfsVars, dirVars, histVars, listVars, treeVars
<1>2. TypeOK /\ DirInv BY DEF TreeInv
<1>3. usbdevlist \in Seq(Devices) /\ usbdevlist \in Seq(Nodes)
  BY <1>2, BusIs, SeqMonotonic DEF TypeOK
<1>4. TypeOK' BY <1>1, <1>2, <1>3 DEF TypeOK
<1>5. DirInv' BY <1>1, <1>2 DEF DirInv, Seen, WasRead
<1>6. Len(usbdevlist) \in Nat BY <1>3, ListIs
<1>7. Turn' = 0 BY <1>1, <1>6 DEF Turn
<1>8. QueueInv' BY <1>1, <1>6, <1>7 DEF QueueInv
<1>9. FirstDevices(Turn)' = {} BY <1>1, <1>7 DEF FirstDevices
<1>10. Placed' = {} /\ Equipped' = {}
  BY <1>1, <1>9, Zenon DEF Placed, Equipped
<1>11. ChildrenInv' BY <1>1, <1>10, WhileReading DEF ChildrenInv
<1>12. IfsInv' BY <1>1, <1>10, WhileReading DEF IfsInv
<1>13. SortInv' BY <1>1, WhileReading DEF SortInv
<1>14. PrintInv' /\ LinesAscend'
  BY <1>1, WhileReading DEF PrintInv, TreeInv, LinesAscend
<1>15. QED BY <1>4, <1>5, <1>8, <1>11, <1>12, <1>13, <1>14 DEF TreeInv

\* What connecting leaves alone.
LEMMA ConnectingKeeps ==
  ASSUME TreeInv, pc \in {"connect", "connect_if"},
         pc' \in {"connect", "connect_if"},
         UNCHANGED <<sysfsVars, dirVars, histVars, listVars, entered, printed>>
  PROVE  DirInv' /\ SortInv' /\ PrintInv' /\ LinesAscend' /\ Seen' = Seen
<1>1. UNCHANGED <<present, presentIfs, unread, unreadIfs, stable, stableIfs,
                  usbbuslist, usbdevlist, interfacelist, entered, printed>>
  BY DEF sysfsVars, dirVars, histVars, listVars
<1>2. DirInv /\ SortInv /\ PrintInv /\ LinesAscend BY DEF TreeInv
<1>3. Seen' = Seen BY <1>1 DEF Seen
<1>4. DirInv' BY <1>1, <1>2, <1>3 DEF DirInv, WasRead
<1>5. SortInv' BY <1>1, <1>2 DEF SortInv
<1>6. PrintInv' BY <1>1, <1>2 DEF PrintInv
<1>7. LinesAscend' BY <1>1, <1>2 DEF LinesAscend
<1>8. QED BY <1>3, <1>4, <1>5, <1>6, <1>7

LEMMA ConnectDeviceKeepsInv == ASSUME TreeInv, ConnectDevice PROVE TreeInv'
<1> DEFINE d == queue[1]
<1>1. /\ pc = "connect" /\ queue # <<>> /\ at' = 1 /\ pc' = "connect_if"
      /\ UNCHANGED <<sysfsVars, dirVars, histVars, listVars, ifs, queue, entered,
                     swapped, printed>>
  BY DEF ConnectDevice
<1>2. UNCHANGED <<present, presentIfs, unread, unreadIfs, stable, stableIfs,
                  usbbuslist, usbdevlist, interfacelist>>
  BY <1>1 DEF sysfsVars, dirVars, histVars, listVars
<1>3. TypeOK /\ DirInv /\ QueueInv /\ ChildrenInv /\ IfsInv BY DEF TreeInv
<1>4. /\ Turn \in 0..(Len(usbdevlist) - 1) /\ Len(usbdevlist) \in Nat
      /\ Head(queue) = d /\ d = usbdevlist[Turn + 1]
      /\ d \in Devices
  BY <1>1, AtTurn
<1>5. /\ FirstDevices(Turn + 1) = FirstDevices(Turn) \cup {d}
      /\ d \notin FirstDevices(Turn)
  BY <1>3, <1>4, FirstDevicesAre
<1>6. /\ Turn' = Turn /\ FirstDevices(Turn)' = FirstDevices(Turn)
      /\ FirstDevices(Turn + 1)' = FirstDevices(Turn + 1)
  BY <1>1, <1>2 DEF Turn, FirstDevices
<1>7. /\ Placed = FirstDevices(Turn) /\ Equipped = FirstDevices(Turn)
      /\ Placed' = Placed \cup {d} /\ Equipped' = Equipped
  BY <1>1, <1>5, <1>6, Zenon DEF Placed, Equipped
<1>8. \A n \in Nodes : /\ n \in Seen /\ n = Parent(d) =>
                              children'[n] = Append(children[n], d)
                       /\ ~(n \in Seen /\ n = Parent(d)) =>
                              children'[n] = children[n]
  BY <1>3, <1>4, ParentsOfIs DEF ConnectDevice
<1>9. \A n \in Nodes :
        children[n] \in Seq(Devices) /\ IsInjective(children[n]) /\ Once(children[n])
        /\ Range(children[n]) = {x \in Placed : n \in Seen /\ n = Parent(x)}
  BY <1>3 DEF TypeOK, ChildrenInv
<1>10. \A n \in Nodes :
         /\ children'[n] \in Seq(Devices) /\ Once(children'[n])
         /\ Range(children'[n]) = {x \in Placed' : n \in Seen /\ n = Parent(x)}
  <2> TAKE n \in Nodes
  <2>1. CASE n \in Seen /\ n = Parent(d)
    <3>1. d \notin Range(children[n]) BY <1>5, <1>7, <1>9
    <3>2. /\ children'[n] \in Seq(Devices) /\ Once(children'[n])
          /\ Range(children'[n]) = Range(children[n]) \cup {d}
      <4>1. children'[n] = Append(children[n], d) BY <1>8, <2>1
      <4>2. children[n] \in Seq(Devices) /\ Once(children[n]) /\ d \in Devices
        BY <1>4, <1>9
      <4> HIDE DEF d
      <4>3. QED BY <3>1, <4>1, <4>2, OneMore
    <3>3. QED BY <1>7, <1>9, <2>1, <3>2
  <2>2. CASE ~(n \in Seen /\ n = Parent(d))
    <3>1. children'[n] = children[n] BY <1>8, <2>2
    <3>2. QED BY <1>7, <1>9, <2>2, <3>1
  <2>3. QED BY <2>1, <2>2
<1>11. DOMAIN children' = Nodes BY DEF ConnectDevice
<1>12. TypeOK'
  <2>1. \A n \in Nodes : IsInjective(children'[n]) BY <1>10, OnceIsInjective
  <2>2. QED BY <1>1, <1>2, <1>3, <1>10, <1>11, <2>1 DEF TypeOK
<1>13. DirInv' /\ SortInv' /\ PrintInv' /\ LinesAscend' /\ Seen' = Seen
  BY <1>1, ConnectingKeeps
<1>14. ChildrenInv' BY <1>10, <1>13 DEF ChildrenInv
<1>15. QueueInv'
  <2>1. interfacelist \in Seq(Interfaces) BY <1>3 DEF TypeOK
  <2>2. 1 \in 1..(Len(interfacelist) + 1) BY <2>1, ListIs
  <2>3. QED BY <1>1, <1>2, <1>3, <1>6, <2>2 DEF QueueInv
<1>16. IfsInv'
  <2>1. \A n \in Nodes :
          Once(ifs'[n]) /\ \A i \in Range(ifs'[n]) : Owner(i) = n
    BY <1>1, <1>3 DEF IfsInv
  <2>2. OfDevice(interfacelist', at' - 1, d) = {} BY <1>1 DEF OfDevice
  <2>3. \A n \in Devices : Range(ifs[n]) =
           IF n \in Equipped THEN OfDevice(interfacelist, Len(interfacelist), n)
                             ELSE {}
    BY <1>1, <1>3 DEF IfsInv
  <2>4. queue'[1] = d BY <1>1
  <2>5. QED BY <1>1, <1>2, <1>7, <2>1, <2>2, <2>3, <2>4 DEF IfsInv
<1>17. QED BY <1>12, <1>13, <1>14, <1>15, <1>16 DEF TreeInv

\* One more interface of the list has been passed.
LEMMA OneMorePassed ==
  ASSUME NEW list, NEW k \in Nat \ {0}, NEW d
  PROVE  OfDevice(list, k, d) = OfDevice(list, k - 1, d) \cup
            (IF list[k].of = d THEN {list[k]} ELSE {})
<1>1. \A j : j \in 1..k <=> j \in 1..(k - 1) \/ j = k OBVIOUS
<1>2. QED BY <1>1 DEF OfDevice

\* Its owner is the device it names, but for those of root hubs.
LEMMA OwnerIs ==
  ASSUME NEW i \in Interfaces
  PROVE  /\ Owner(i) \in Nodes
         /\ i.of \in Nodes => i.of \in Devices /\ Owner(i) = i.of
<1>1. Owner(i) \in Nodes /\ Len(i.of) > 1 BY InterfacesAssumption
<1>2. ASSUME i.of \in Nodes PROVE i.of \in Devices /\ Owner(i) = i.of
  <2>1. Len(i.of) \in Nat \ {0} /\ \A k \in 1..Len(i.of) : i.of[k] \in Nat \ {0}
    BY <1>2, NodeIs
  <2>2. 2 \in 1..Len(i.of) /\ Len(i.of) # 1 BY <1>1, <2>1
  <2>3. i.of[2] # 0 BY <2>1, <2>2
  <2>4. i.of \in Devices BY <1>2, <2>2, BusIs DEF IsBus
  <2>5. QED BY <2>3, <2>4 DEF Owner
<1>3. QED BY <1>1, <1>2

LEMMA ConnectInterfaceKeepsInv == ASSUME TreeInv, ConnectInterface PROVE TreeInv'
<1> DEFINE d == queue[1]
           i == interfacelist[at]
           o == Owner(i)
<1>1. /\ pc = "connect_if" /\ pc' = pc /\ at <= Len(interfacelist) /\ at' = at + 1
      /\ UNCHANGED <<sysfsVars, dirVars, histVars, listVars, children, queue,
                     entered, swapped, printed>>
  BY DEF ConnectInterface
<1>2. UNCHANGED <<present, presentIfs, unread, unreadIfs, stable, stableIfs,
                  usbbuslist, usbdevlist, interfacelist>>
  BY <1>1 DEF sysfsVars, dirVars, histVars, listVars
<1>3. TypeOK /\ DirInv /\ QueueInv /\ ChildrenInv /\ IfsInv BY DEF TreeInv
<1>4. queue # <<>> /\ at \in 1..(Len(interfacelist) + 1)
  BY <1>1, <1>3 DEF QueueInv
<1>5. /\ Turn \in 0..(Len(usbdevlist) - 1) /\ Len(usbdevlist) \in Nat
      /\ Head(queue) = d /\ d = usbdevlist[Turn + 1]
      /\ d \in Devices /\ d \in Nodes
  BY <1>1, <1>4, AtTurn, BusIs
<1>6. /\ interfacelist \in Seq(Interfaces) /\ Once(interfacelist)
      /\ Len(interfacelist) \in Nat
  BY <1>3, ListIs DEF TypeOK, DirInv
<1>7. at \in 1..Len(interfacelist) /\ at \in Nat \ {0} BY <1>1, <1>4, <1>6
<1>8. i \in Interfaces /\ o \in Nodes BY <1>6, <1>7, ListIs, OwnerIs
<1>9. d \notin FirstDevices(Turn) BY <1>3, <1>5, FirstDevicesAre
<1>10. /\ Turn' = Turn /\ FirstDevices(Turn)' = FirstDevices(Turn)
       /\ FirstDevices(Turn + 1)' = FirstDevices(Turn + 1)
  BY <1>1, <1>2 DEF Turn, FirstDevices
<1>11. Equipped = FirstDevices(Turn) /\ Placed' = Placed /\ Equipped' = Equipped
  BY <1>1, <1>10, Zenon DEF Placed, Equipped
<1>12. /\ \A n \in Nodes : /\ ifs[n] \in Seq(Interfaces) /\ Once(ifs[n])
                           /\ \A j \in Range(ifs[n]) : Owner(j) = n
       /\ \A n \in Devices : Range(ifs[n]) =
             IF n \in Equipped THEN OfDevice(interfacelist, Len(interfacelist), n)
             ELSE IF n = d THEN OfDevice(interfacelist, at - 1, n) ELSE {}
       /\ DOMAIN ifs = Nodes
  BY <1>1, <1>3 DEF TypeOK, IfsInv
<1>13. OfDevice(interfacelist, at, d) =
          OfDevice(interfacelist, at - 1, d) \cup (IF i.of = d THEN {i} ELSE {})
  BY <1>7, OneMorePassed
<1>14. ifs' = IF Appended(i, d) THEN [ifs EXCEPT ![o] = Append(@, i)] ELSE ifs
  BY <1>5 DEF ConnectInterface
<1>15. i.of = d => o = d BY <1>5, <1>8, OwnerIs
<1>16. i.of = d => i \notin Range(ifs[d])
  <2>1. \A k \in 1..(at - 1) : k \in 1..Len(interfacelist) /\ k # at BY <1>6, <1>7
  <2>2. i \notin OfDevice(interfacelist, at - 1, d)
    BY <1>6, <1>7, <2>1 DEF OfDevice, Once
  <2>3. QED BY <1>5, <1>9, <1>11, <1>12, <2>2
<1> HIDE DEF i, o, d
<1>17. \/ ifs' = ifs /\ i.of # d
       \/ /\ ifs' = [ifs EXCEPT ![o] = Append(@, i)] /\ i \notin Range(ifs[o])
          /\ \/ i.of = d /\ o = d
             \/ i.of # d /\ o \in Buses
  <2>1. CASE i.of = d BY <1>14, <1>15, <1>16, <2>1 DEF Appended
  <2>2. CASE i.of # d /\ Appended(i, d)
    <3>1. o \in Range(usbbuslist) /\ i \notin Range(ifs[o])
      BY <2>2 DEF Appended, o
    <3>2. o \in Buses BY <1>3, <3>1, SeenTyped
    <3>3. QED BY <1>14, <2>2, <3>1, <3>2
  <2>3. CASE ~Appended(i, d) BY <1>14, <2>3 DEF Appended
  <2>4. QED BY <2>1, <2>2, <2>3
<1>18. /\ DOMAIN ifs' = Nodes
       /\ \A n \in Nodes : /\ ifs'[n] \in Seq(Interfaces) /\ Once(ifs'[n])
                           /\ \A j \in Range(ifs'[n]) : Owner(j) = n
       /\ \A n \in Devices : n # d => ifs'[n] = ifs[n]
       /\ Range(ifs'[d]) = Range(ifs[d]) \cup (IF i.of = d THEN {i} ELSE {})
  <2>1. CASE ifs' = ifs /\ i.of # d BY <1>12, <2>1
  <2>2. CASE /\ ifs' = [ifs EXCEPT ![o] = Append(@, i)] /\ i \notin Range(ifs[o])
             /\ \/ i.of = d /\ o = d
                \/ i.of # d /\ o \in Buses
    <3>1. ifs[o] \in Seq(Interfaces) /\ Once(ifs[o])
          /\ \A j \in Range(ifs[o]) : Owner(j) = o
      BY <1>8, <1>12
    <3>2. /\ ifs'[o] = Append(ifs[o], i) /\ DOMAIN ifs' = Nodes
          /\ \A n \in Nodes : n # o => ifs'[n] = ifs[n]
      BY <1>8, <1>12, <2>2
    <3>3. /\ Append(ifs[o], i) \in Seq(Interfaces) /\ Once(Append(ifs[o], i))
          /\ Range(Append(ifs[o], i)) = Range(ifs[o]) \cup {i}
      BY <1>8, <2>2, <3>1, OneMore
    <3>4. \A j \in Range(ifs'[o]) : Owner(j) = o BY <3>1, <3>2, <3>3 DEF o
    <3>5. \A n \in Nodes : /\ ifs'[n] \in Seq(Interfaces) /\ Once(ifs'[n])
                           /\ \A j \in Range(ifs'[n]) : Owner(j) = n
      BY <1>12, <3>2, <3>3, <3>4
    <3>6. \A n \in Devices : n # d => n # o BY <2>2, BusIs
    <3>7. \/ i.of = d /\ o = d
          \/ i.of # d /\ d # o
      BY <1>5, <2>2 DEF Devices
    <3>8. Range(ifs'[d]) = Range(ifs[d]) \cup (IF i.of = d THEN {i} ELSE {})
      <4>1. CASE i.of = d /\ o = d BY <3>2, <3>3, <4>1
      <4>2. CASE i.of # d /\ d # o BY <1>5, <3>2, <4>2
      <4>3. QED BY <3>7, <4>1, <4>2
    <3>9. QED BY <3>2, <3>5, <3>6, <3>8, BusIs
  <2>3. QED BY <1>17, <2>1, <2>2
<1>19. TypeOK'
  <2>1. \A n \in Nodes : IsInjective(ifs'[n]) BY <1>18, OnceIsInjective
  <2>2. QED BY <1>1, <1>2, <1>3, <1>7, <1>18, <2>1 DEF TypeOK
<1>20. DirInv' /\ SortInv' /\ PrintInv' /\ LinesAscend' /\ Seen' = Seen
  BY <1>1, ConnectingKeeps
<1>21. ChildrenInv' BY <1>1, <1>3, <1>11, <1>20 DEF ChildrenInv
<1>22. QueueInv'
  <2>1. at' \in 1..(Len(interfacelist) + 1) BY <1>1, <1>6, <1>7
  <2>2. QED BY <1>1, <1>2, <1>3, <1>10, <2>1 DEF QueueInv
<1>23. IfsInv'
  <2>1. at' - 1 = at /\ queue'[1] = d BY <1>1, <1>7 DEF d
  <2>2. d \notin Equipped BY <1>9, <1>11
  <2>3. Range(ifs'[d]) = OfDevice(interfacelist, at, d)
    BY <1>5, <1>12, <1>13, <1>18, <2>2
  <2>4. \A n \in Devices : Range(ifs'[n]) =
           IF n \in Equipped THEN OfDevice(interfacelist, Len(interfacelist), n)
           ELSE IF n = d THEN OfDevice(interfacelist, at, n) ELSE {}
    BY <1>12, <1>18, <2>2, <2>3
  <2>5. QED BY <1>1, <1>2, <1>11, <1>18, <2>1, <2>4 DEF IfsInv
<1>24. QED BY <1>19, <1>20, <1>21, <1>22, <1>23 DEF TreeInv

LEMMA NextDeviceKeepsInv == ASSUME TreeInv, NextDevice PROVE TreeInv'
<1> DEFINE d == queue[1]
<1>1. /\ pc = "connect_if" /\ pc' = "connect" /\ at > Len(interfacelist)
      /\ queue' = Tail(queue) /\ at' = 1
      /\ UNCHANGED <<sysfsVars, dirVars, histVars, listVars, children, ifs,
                     entered, swapped, printed>>
  BY DEF NextDevice, treeVars
<1>2. UNCHANGED <<present, presentIfs, unread, unreadIfs, stable, stableIfs,
                  usbbuslist, usbdevlist, interfacelist>>
  BY <1>1 DEF sysfsVars, dirVars, histVars, listVars
<1>3. TypeOK /\ DirInv /\ QueueInv /\ ChildrenInv /\ IfsInv BY DEF TreeInv
<1>4. queue # <<>> /\ at \in 1..(Len(interfacelist) + 1)
  BY <1>1, <1>3 DEF QueueInv
<1>5. /\ Turn \in 0..(Len(usbdevlist) - 1) /\ Len(usbdevlist) \in Nat
      /\ d = usbdevlist[Turn + 1] /\ queue \in Seq(Nodes) /\ Len(queue) \in Nat
  BY <1>1, <1>4, AtTurn
<1>6. Len(interfacelist) \in Nat BY <1>3, ListIs DEF TypeOK
<1>7. at - 1 = Len(interfacelist) BY <1>1, <1>4, <1>6
<1>8. /\ queue' \in Seq(Nodes) /\ Len(queue') = Len(queue) - 1
      /\ \A k \in 1..(Len(queue) - 1) : queue'[k] = queue[k + 1]
  BY <1>1, <1>4, <1>5, FirstAndRest
<1>9. Turn' = Turn + 1 BY <1>2, <1>5, <1>8 DEF Turn
<1>10. FirstDevices(Turn)' = FirstDevices(Turn + 1) BY <1>2, <1>9 DEF FirstDevices
<1>11. FirstDevices(Turn + 1) = FirstDevices(Turn) \cup {d}
  BY <1>3, <1>5, FirstDevicesAre
<1>12. /\ Equipped = FirstDevices(Turn) /\ Placed' = Placed
       /\ Equipped' = FirstDevices(Turn) \cup {d}
  BY <1>1, <1>10, <1>11, Zenon DEF Placed, Equipped
<1>13. TypeOK' BY <1>1, <1>2, <1>3, <1>8 DEF TypeOK
<1>14. DirInv' /\ SortInv' /\ PrintInv' /\ LinesAscend' /\ Seen' = Seen
  BY <1>1, ConnectingKeeps
<1>15. QueueInv'
  <2>1. Len(queue') <= Len(usbdevlist) BY <1>1, <1>3, <1>5, <1>8 DEF QueueInv
  <2>2. ASSUME NEW k \in 1..Len(queue') PROVE queue'[k] = usbdevlist[Turn' + k]
    <3>1. k \in 1..(Len(queue) - 1) /\ k + 1 \in 1..Len(queue)
      BY <1>5, <1>8, <2>2
    <3>2. queue'[k] = queue[k + 1] BY <1>8, <3>1
    <3>3. queue[k + 1] = usbdevlist[Turn + (k + 1)]
      BY <1>1, <1>3, <3>1 DEF QueueInv
    <3>4. Turn' + k = Turn + (k + 1) BY <1>5, <1>9, <3>1
    <3>5. QED BY <3>2, <3>3, <3>4
  <2>3. QED BY <1>1, <1>2, <2>1, <2>2 DEF QueueInv
<1>16. ChildrenInv' BY <1>1, <1>3, <1>12, <1>14 DEF ChildrenInv
<1>17. IfsInv'
  <2>1. \A n \in Devices : Range(ifs[n]) =
           IF n \in FirstDevices(Turn) \cup {d}
           THEN OfDevice(interfacelist, Len(interfacelist), n) ELSE {}
    BY <1>1, <1>3, <1>7, <1>12 DEF IfsInv
  <2>2. QED BY <1>1, <1>2, <1>3, <1>12, <2>1 DEF IfsInv
<1>18. QED BY <1>13, <1>14, <1>15, <1>16, <1>17 DEF TreeInv

-----------------------------------------------------------------------------
(***************************************************************************)
(* Sorting the tree.                                                       *)
(***************************************************************************)

AfterConnecting == {"sort", "sort_if", "print", "cleanup"}

\* All that was read hangs where it belongs.
Hung ==
    /\ \A n \in Nodes :
          /\ Once(children[n])
          /\ Range(children[n]) =
                {d \in Range(usbdevlist) : n \in Seen /\ n = Parent(d)}
          /\ Once(ifs[n]) /\ \A i \in Range(ifs[n]) : Owner(i) = n
    /\ \A n \in Devices :
          Range(ifs[n]) =
              IF n \in Range(usbdevlist)
              THEN OfDevice(interfacelist, Len(interfacelist), n) ELSE {}

LEMMA HungAfterConnecting ==
  ASSUME TreeInv,
         pc \in AfterConnecting \/ (pc = "connect" /\ queue = <<>>)
  PROVE  Hung
<1>1. TypeOK /\ DirInv /\ ChildrenInv /\ IfsInv BY DEF TreeInv
<1>2. Placed = Range(usbdevlist) /\ Equipped = Range(usbdevlist) /\ pc # "connect_if"
  <2>1. CASE pc \in AfterConnecting
    BY <2>1 DEF AfterConnecting, Placed, Equipped, WasRead
  <2>2. CASE pc = "connect" /\ queue = <<>>
    <3>1. Turn = Len(usbdevlist) BY <2>2, AtTurn
    <3>2. FirstDevices(Turn) = Range(usbdevlist) BY <1>1, <3>1, FirstDevicesAre
    <3>3. QED BY <2>2, <3>2, Zenon DEF Placed, Equipped
  <2>3. QED BY <2>1, <2>2
<1>3. QED BY <1>1, <1>2 DEF Hung, ChildrenInv, IfsInv

LEMMA HungStays ==
  ASSUME pc' \in AfterConnecting, Hung'
  PROVE  ChildrenInv' /\ IfsInv'
<1>1. pc' # "connect_if" /\ pc' # "connect" /\ pc' \in WasRead
  BY DEF AfterConnecting, WasRead
<1>2. Placed' = Range(usbdevlist)'
  <2>1. Placed' = IF pc' = "connect" THEN FirstDevices(Turn)'
                  ELSE IF pc' = "connect_if" THEN FirstDevices(Turn + 1)'
                  ELSE IF pc' \in WasRead THEN Range(usbdevlist)' ELSE {}
    BY Zenon DEF Placed, WasRead
  <2>2. QED BY <1>1, <2>1, Zenon
<1>3. Equipped' = Range(usbdevlist)'
  <2>1. Equipped' = IF pc' \in {"connect", "connect_if"} THEN FirstDevices(Turn)'
                    ELSE IF pc' \in WasRead THEN Range(usbdevlist)' ELSE {}
    BY Zenon DEF Equipped, WasRead
  <2>2. pc' \notin {"connect", "connect_if"} BY <1>1
  <2>3. QED BY <1>1, <2>1, <2>2, Zenon
<1>4. QED BY <1>1, <1>2, <1>3 DEF Hung, ChildrenInv, IfsInv

\* The children of a node are the devices seen below it.
LEMMA HungChildren ==
  ASSUME TypeOK, Hung, NEW n \in Seen
  PROVE  /\ n \in Nodes /\ children[n] \in Seq(Devices) /\ Once(children[n])
         /\ \A d : d \in Range(children[n]) <=>
                      d \in Seen /\ ~IsBus(d) /\ Parent(d) = n
<1>1. n \in Nodes BY SeenTyped
<1>2. \A d : d \in Range(children[n]) <=> d \in Range(usbdevlist) /\ Parent(d) = n
  BY <1>1 DEF Hung
<1>3. \A d : d \in Range(usbdevlist) <=> d \in Seen /\ ~IsBus(d)
  <2>1. \A d \in Range(usbdevlist) : d \in Seen /\ ~IsBus(d)
    BY SeenTyped, BusIs DEF Seen
  <2>2. \A d \in Seen : ~IsBus(d) => d \in Range(usbdevlist)
    BY SeenTyped, BusIs DEF Seen
  <2>3. QED BY <2>1, <2>2
<1>4. QED BY <1>1, <1>2, <1>3 DEF TypeOK, Hung

\* Everything in the tree hangs below a bus.
LEMMA OnABus ==
  ASSUME TypeOK, NEW n \in InTree
  PROVE  On(Range(usbbuslist), n)
<1>1. Seen \subseteq Nodes /\ Range(usbdevlist) \subseteq Devices BY SeenTyped
<1>2. n \in Nodes BY <1>1 DEF InTree
<1>3. n \in Seq(Nat \ {0}) /\ 1 \in 1..Len(n) BY <1>2, NodeIs
<1>4. Len(Prefix(n, 1)) = 1 BY <1>3, PrefixIs
<1>5. Prefix(n, 1) \in Seen BY <1>3 DEF InTree, Rooted, Prefix
<1>6. Prefix(n, 1) \in Range(usbbuslist) BY <1>1, <1>4, <1>5, BusIs DEF IsBus, Seen
<1>7. QED BY <1>3, <1>6 DEF On

\* What sorting leaves alone.
LEMMA SortingKeeps ==
  ASSUME TreeInv, pc \in {"connect", "sort", "sort_if"},
         pc' \in {"sort", "sort_if", "print"},
         UNCHANGED <<sysfsVars, dirVars, histVars, usbdevlist, interfacelist,
                     printed>>,
         Once(usbbuslist'), Range(usbbuslist') = Range(usbbuslist)
  PROVE  /\ DirInv' /\ QueueInv' /\ LinesAscend' /\ printed = <<>>
         /\ Seen' = Seen /\ InTree' = InTree
         /\ pc' # "print" => PrintInv'
<1>1. UNCHANGED <<present, presentIfs, unread, unreadIfs, stable, stableIfs>>
  BY DEF sysfsVars, dirVars, histVars
<1>2. DirInv /\ PrintInv /\ LinesAscend BY DEF TreeInv
<1>3. Seen' = Seen BY DEF Seen
<1>4. InTree' = InTree BY <1>3 DEF InTree, Rooted
<1>5. DirInv' BY <1>1, <1>2, <1>3 DEF DirInv, WasRead
<1>6. QueueInv' BY DEF QueueInv
<1>7. printed = <<>> BY <1>2 DEF PrintInv
<1>8. pc' # "print" => PrintInv' BY <1>7 DEF PrintInv
<1>9. LinesAscend' BY <1>2 DEF LinesAscend
<1>10. QED BY <1>3, <1>4, <1>5, <1>6, <1>7, <1>8, <1>9

LEMMA ConnectedKeepsInv == ASSUME TreeInv, Connected PROVE TreeInv'
<1>1. /\ pc = "connect" /\ queue = <<>> /\ queue' = usbbuslist /\ pc' = "sort"
      /\ UNCHANGED <<sysfsVars, dirVars, histVars, usbbuslist, usbdevlist,
                     interfacelist, children, ifs, entered, at, swapped, printed>>
  BY DEF Connected, listVars, treeVars
<1>2. UNCHANGED <<present, presentIfs, unread, unreadIfs, stable, stableIfs>>
  BY <1>1 DEF sysfsVars, dirVars, histVars
<1>3. TypeOK /\ DirInv /\ SortInv BY DEF TreeInv
<1>4. usbbuslist \in Seq(Nodes) BY <1>3, BusIs, SeqMonotonic DEF TypeOK
<1>5. TypeOK' BY <1>1, <1>2, <1>3, <1>4 DEF TypeOK
<1>6. /\ DirInv' /\ QueueInv' /\ LinesAscend' /\ PrintInv'
      /\ Seen' = Seen /\ InTree' = InTree
  BY <1>1, <1>3, SortingKeeps DEF DirInv
<1>7. Hung' BY <1>1, <1>6, HungAfterConnecting DEF Hung
<1>8. ChildrenInv' /\ IfsInv' BY <1>1, <1>7, HungStays DEF AfterConnecting
<1>9. SortInv'
  <2>1. entered = {} BY <1>1, <1>3 DEF SortInv
  <2>2. Range(queue') \subseteq Seen /\ \A n \in Range(queue') : IsBus(n)
    BY <1>1, <1>3, SeenTyped, BusIs DEF Seen
  <2>3. \A n \in InTree : On(Range(queue') \ entered, n)
    <3>1. Range(queue') \ entered = Range(usbbuslist) BY <1>1, <2>1
    <3>2. QED BY <1>3, <3>1, OnABus
  <2>4. QED BY <1>1, <1>6, <2>1, <2>2, <2>3 DEF SortInv
<1>10. QED BY <1>5, <1>6, <1>8, <1>9 DEF TreeInv

\* While the tree is sorted, what is at hand.
LEMMA AtSort ==
  ASSUME TreeInv, pc \in {"sort", "sort_if"}, queue # <<>>
  PROVE  LET h == queue[1] IN
         /\ queue \in Seq(Nodes) /\ Head(queue) = h
         /\ h \in Seen /\ h \in Nodes /\ h \in Range(queue)
         /\ Range(queue) \subseteq Seen
         /\ Tail(queue) \in Seq(Nodes)
         /\ Range(queue) = {h} \cup Range(Tail(queue))
         /\ children[h] \in Seq(Devices) /\ Once(children[h])
         /\ ifs[h] \in Seq(Interfaces) /\ Once(ifs[h])
         /\ \A d : d \in Range(children[h]) <=>
                      d \in Seen /\ ~IsBus(d) /\ Parent(d) = h
<1> DEFINE h == queue[1]
<1>1. TypeOK /\ SortInv BY DEF TreeInv
<1>2. queue \in Seq(Nodes) BY <1>1 DEF TypeOK
<1>3. Range(queue) \subseteq Seen BY <1>1 DEF SortInv
<1>4. /\ Head(queue) = h /\ Tail(queue) \in Seq(Nodes)
      /\ Range(queue) = {h} \cup Range(Tail(queue))
  BY <1>2, FirstAndRest
<1>5. Hung BY HungAfterConnecting DEF AfterConnecting
<1>6. h \in Seen /\ h \in Nodes BY <1>1, <1>3, <1>4, SeenTyped
<1>7. /\ children[h] \in Seq(Devices) /\ Once(children[h])
      /\ \A d : d \in Range(children[h]) <=>
                   d \in Seen /\ ~IsBus(d) /\ Parent(d) = h
  BY <1>1, <1>5, <1>6, HungChildren
<1>8. ifs[h] \in Seq(Interfaces) /\ Once(ifs[h])
  BY <1>1, <1>5, <1>6 DEF TypeOK, Hung
<1>9. QED BY <1>2, <1>3, <1>4, <1>6, <1>7, <1>8

LEMMA SortBelowKeepsInv == ASSUME TreeInv, SortBelow PROVE TreeInv'
<1> DEFINE h == queue[1]
<1>1. /\ pc = "sort" /\ queue # <<>> /\ pc' = pc
      /\ UNCHANGED <<sysfsVars, dirVars, histVars, usbbuslist, usbdevlist,
                     interfacelist, children, ifs, at, swapped, printed>>
  BY DEF SortBelow, listVars, treeVars
<1>2. UNCHANGED <<present, presentIfs, unread, unreadIfs, stable, stableIfs>>
  BY <1>1 DEF sysfsVars, dirVars, histVars
<1>3. TypeOK /\ DirInv /\ SortInv BY DEF TreeInv
<1>4. /\ queue \in Seq(Nodes) /\ Head(queue) = h
      /\ h \in Seen /\ h \in Nodes /\ h \in Range(queue)
      /\ children[h] \in Seq(Devices)
      /\ \A d : d \in Range(children[h]) <=>
                   d \in Seen /\ ~IsBus(d) /\ Parent(d) = h
  BY <1>1, AtSort
<1>5. /\ h \notin entered /\ queue' = children[h] \o queue
      /\ entered' = entered \cup {h}
  BY <1>4 DEF SortBelow
<1>6. children[h] \in Seq(Nodes) BY <1>4, BusIs, SeqMonotonic
<1> HIDE DEF h
<1>7. /\ queue' \in Seq(Nodes)
      /\ Range(queue') = Range(children[h]) \cup Range(queue)
  BY <1>4, <1>5, <1>6, ConcatProperties, RangeConcatenation
<1>8. TypeOK' BY <1>1, <1>2, <1>3, <1>4, <1>5, <1>7 DEF TypeOK
<1>9. /\ DirInv' /\ QueueInv' /\ LinesAscend' /\ PrintInv'
      /\ Seen' = Seen /\ InTree' = InTree
  BY <1>1, <1>3, SortingKeeps DEF DirInv
<1>10. Hung
  BY <1>1, HungAfterConnecting DEF AfterConnecting
<1>11. Hung' BY <1>1, <1>9, <1>10 DEF Hung
<1>12. ChildrenInv' /\ IfsInv' BY <1>1, <1>11, HungStays DEF AfterConnecting
<1>13. /\ Range(queue) \subseteq Seen
       /\ \A n \in Range(queue) \cup entered : IsBus(n) \/ Parent(n) \in entered
       /\ \A n \in InTree : n \in entered \/ On(Range(queue) \ entered, n)
       /\ \A n \in entered \ Range(queue) : NodeInOrder(n)
  BY <1>1, <1>3 DEF SortInv
<1>14. Range(queue') \subseteq Seen BY <1>4, <1>7, <1>13
<1>15. \A n \in Range(queue') \cup entered' : IsBus(n) \/ Parent(n) \in entered'
  <2> TAKE n \in Range(queue') \cup entered'
  <2>1. CASE n \in Range(children[h]) BY <1>4, <1>5, <2>1
  <2>2. CASE n \in Range(queue) \cup entered BY <1>5, <1>13, <2>2
  <2>3. QED BY <1>4, <1>5, <1>7, <2>1, <2>2
<1>16. \A n \in InTree : n \in entered' \/ On(Range(queue') \ entered', n)
  <2> TAKE n \in InTree
  <2> DEFINE more == Range(queue') \ entered'
  <2>1. CASE n \in entered BY <1>5, <2>1
  <2>2. CASE On(Range(queue) \ entered, n)
    <3>1. (Range(queue) \ entered) \ {h} \subseteq more BY <1>5, <1>7
    <3>2. ASSUME NEW d \in Seen, ~IsBus(d), Parent(d) = h PROVE d \in more
      <4>1. d \in Range(queue') BY <1>4, <1>7, <3>2
      <4>2. d \notin entered BY <1>5, <1>13, <3>2
      <4>3. d # h
        <5>1. d \in Nodes /\ Seen \subseteq Nodes BY <1>3, SeenTyped
        <5>2. Len(Parent(d)) = Len(d) - 1 /\ Len(d) \in Nat
          BY <3>2, <5>1, ParentIs, NodeIs
        <5>3. Len(Parent(d)) # Len(d) BY <5>2
        <5>4. QED BY <3>2, <5>3
      <4>4. QED BY <1>5, <4>1, <4>2, <4>3
    <3>3. Seen \subseteq Nodes BY <1>3, SeenTyped
    <3> HIDE DEF more
    <3>4. n = h \/ On(more, n) BY <2>2, <3>1, <3>2, <3>3, OnBelow
    <3>5. QED BY <1>5, <3>4 DEF more
  <2>3. QED BY <1>13, <2>1, <2>2
<1>17. \A n \in entered' \ Range(queue') : NodeInOrder(n)'
  <2> TAKE n \in entered' \ Range(queue')
  <2>1. n \in entered \ Range(queue) BY <1>4, <1>5, <1>7
  <2>2. NodeInOrder(n) BY <1>13, <2>1
  <2>3. QED BY <1>1, <2>2 DEF NodeInOrder
<1>18. SortInv' BY <1>1, <1>9, <1>14, <1>15, <1>16, <1>17 DEF SortInv
<1>19. QED BY <1>8, <1>9, <1>12, <1>18 DEF TreeInv

\* What is sorted and has been sorted below goes off the queue.
LEMMA SortedOff ==
  ASSUME TreeInv, pc \in {"sort", "sort_if"}, queue # <<>>,
         NEW h \in entered, h = queue[1],
         pc' = "sort", queue' = Tail(queue), entered' = entered,
         Seen' = Seen, InTree' = InTree, NodeInOrder(h)',
         \A n \in Nodes : n # h /\ NodeInOrder(n) => NodeInOrder(n)'
  PROVE  SortInv'
<1>1. TypeOK /\ SortInv BY DEF TreeInv
<1>2. Range(queue) = {h} \cup Range(queue') BY AtSort
<1>3. /\ Range(queue) \subseteq Seen
      /\ \A n \in Range(queue) \cup entered : IsBus(n) \/ Parent(n) \in entered
      /\ \A n \in InTree : n \in entered \/ On(Range(queue) \ entered, n)
      /\ \A n \in entered \ Range(queue) : NodeInOrder(n)
  BY <1>1 DEF SortInv
<1>4. Range(queue) \ entered = Range(queue') \ entered BY <1>2
<1>5. \A n \in entered \ Range(queue') : NodeInOrder(n)'
  <2> TAKE n \in entered \ Range(queue')
  <2>1. CASE n = h BY <2>1
  <2>2. CASE n # h
    <3>1. n \in entered \ Range(queue) /\ n \in Nodes BY <1>1, <1>2, <2>2 DEF TypeOK
    <3>2. QED BY <1>3, <2>2, <3>1
  <2>3. QED BY <2>1, <2>2
<1>6. QED BY <1>2, <1>3, <1>4, <1>5 DEF SortInv

LEMMA SortChildrenKeepsInv == ASSUME TreeInv, SortChildren PROVE TreeInv'
<1> PICK h : h = queue[1] OBVIOUS
<1>1. /\ pc = "sort" /\ queue # <<>> /\ at' = 1 /\ swapped' = FALSE
      /\ UNCHANGED <<sysfsVars, dirVars, histVars, usbbuslist, usbdevlist,
                     interfacelist, ifs, entered, printed>>
  BY DEF SortChildren, listVars
<1>2. UNCHANGED <<present, presentIfs, unread, unreadIfs, stable, stableIfs>>
  BY <1>1 DEF sysfsVars, dirVars, histVars
<1>3. TypeOK /\ DirInv /\ SortInv BY DEF TreeInv
<1>4. /\ queue \in Seq(Nodes) /\ Head(queue) = h /\ Tail(queue) \in Seq(Nodes)
      /\ h \in Nodes /\ h \in Range(queue)
      /\ children[h] \in Seq(Devices) /\ Once(children[h])
      /\ ifs[h] \in Seq(Interfaces)
      /\ \A d : d \in Range(children[h]) <=>
                   d \in Seen /\ ~IsBus(d) /\ Parent(d) = h
  BY <1>1, AtSort
<1>5. /\ h \in entered
      /\ children' = [children EXCEPT ![h] = Sorted(@)]
      /\ \/ /\ IsBus(h) \/ ifs[h] = <<>>
            /\ queue' = Tail(queue) /\ pc' = "sort"
         \/ /\ ~IsBus(h) /\ ifs[h] # <<>>
            /\ queue' = queue /\ pc' = "sort_if"
  BY <1>1, <1>4 DEF SortChildren
<1> DEFINE l == Sorted(children[h])
<1>6. l \in Seq(Devices) /\ Once(l) /\ Range(l) = Range(children[h]) /\ InOrder(l)
  <2>1. Devices \in SUBSET Nodes /\ Seen \subseteq Nodes BY <1>3, BusIs, SeenTyped
  <2>2. \A a, b \in Range(children[h]) : Last(a) = Last(b) => a = b
    BY <1>4, <2>1, SamePort
  <2>3. QED BY <1>4, <2>1, <2>2, SortedIs
<1>7. DOMAIN children = Nodes BY <1>3 DEF TypeOK
<1>8. /\ DOMAIN children' = Nodes /\ children'[h] = l
      /\ \A n \in Nodes : n # h => children'[n] = children[n]
  BY <1>4, <1>5, <1>7
<1> HIDE DEF l
<1>9. TypeOK'
  <2>1. \A n \in Nodes : children'[n] \in Seq(Devices) /\ IsInjective(children'[n])
    <3> TAKE n \in Nodes
    <3>1. CASE n = h BY <1>6, <1>8, <3>1, OnceIsInjective
    <3>2. CASE n # h BY <1>3, <1>8, <3>2 DEF TypeOK
    <3>3. QED BY <3>1, <3>2
  <2>2. queue' \in Seq(Nodes) BY <1>4, <1>5
  <2>3. pc' \in {"sort", "sort_if"} BY <1>5
  <2>4. at' \in Nat \ {0} BY <1>1
  <2>5. swapped' \in BOOLEAN BY <1>1, Zenon
  <2>6. QED BY <1>1, <1>2, <1>3, <1>8, <2>1, <2>2, <2>3, <2>4, <2>5 DEF TypeOK
<1>10. /\ DirInv' /\ QueueInv' /\ LinesAscend' /\ PrintInv'
       /\ Seen' = Seen /\ InTree' = InTree
  BY <1>1, <1>3, <1>5, SortingKeeps DEF DirInv
<1>11. Hung
  BY <1>1, HungAfterConnecting DEF AfterConnecting
<1>12. \A n \in Nodes : Once(children'[n]) /\ Range(children'[n]) = Range(children[n])
  <2> TAKE n \in Nodes
  <2>1. CASE n = h BY <1>6, <1>8, <2>1
  <2>2. CASE n # h BY <1>8, <1>11, <2>2 DEF Hung
  <2>3. QED BY <2>1, <2>2
<1>13. Hung' BY <1>1, <1>10, <1>11, <1>12 DEF Hung
<1>14. ChildrenInv' /\ IfsInv' BY <1>5, <1>13, HungStays DEF AfterConnecting
<1>15. \A n \in Nodes : n # h /\ NodeInOrder(n) => NodeInOrder(n)'
  BY <1>1, <1>8 DEF NodeInOrder
<1>16. SortInv'
  <2>1. CASE /\ IsBus(h) \/ ifs[h] = <<>>
             /\ queue' = Tail(queue) /\ pc' = "sort"
    <3>1. ifs[h] = <<>> => IfsInOrder(ifs[h], Len(ifs[h]))
      BY EmptySeq DEF IfsInOrder
    <3>2. NodeInOrder(h)' BY <1>1, <1>6, <1>8, <2>1, <3>1 DEF NodeInOrder
    <3>3. QED BY <1>1, <1>5, <1>10, <1>15, <2>1, <3>2, SortedOff
  <2>2. CASE /\ ~IsBus(h) /\ ifs[h] # <<>>
             /\ queue' = queue /\ pc' = "sort_if"
    <3>1. Len(ifs[h]) \in Nat \ {0} BY <1>4, <2>2, ListIs
    <3>2. at' \in 1..Len(ifs[h]) BY <1>1, <3>1
    <3>3. IfsInOrder(ifs[h], 1) BY DEF IfsInOrder
    <3>4. \A n \in entered \ Range(queue) : NodeInOrder(n)'
      <4> TAKE n \in entered \ Range(queue)
      <4>1. n \in Nodes /\ n # h BY <1>3, <1>4 DEF TypeOK
      <4>2. NodeInOrder(n) BY <1>1, <1>3 DEF SortInv
      <4>3. QED BY <1>15, <4>1, <4>2
    <3>5. /\ Range(queue) \subseteq Seen
          /\ \A n \in Range(queue) \cup entered : IsBus(n) \/ Parent(n) \in entered
          /\ \A n \in InTree : n \in entered \/ On(Range(queue) \ entered, n)
      BY <1>1, <1>3 DEF SortInv
    <3>6. queue'[1] = h BY <2>2
    <3>7. QED BY <1>1, <1>5, <1>6, <1>8, <1>10, <2>2, <3>2, <3>3, <3>4, <3>5, <3>6
              DEF SortInv
  <2>3. QED BY <1>5, <2>1, <2>2
<1>17. QED BY <1>9, <1>10, <1>14, <1>16 DEF TreeInv

\* Interfaces are sorted one comparison at a time.
LEMMA AtSortIf ==
  ASSUME TreeInv, pc = "sort_if", NEW h, h = queue[1]
  PROVE  /\ queue # <<>> /\ Head(queue) = h /\ h \in entered /\ ~IsBus(h)
         /\ h \in Nodes /\ h \in Range(queue)
         /\ ifs[h] \in Seq(Interfaces) /\ Once(ifs[h])
         /\ InOrder(children[h])
         /\ Len(ifs[h]) \in Nat /\ at \in 1..Len(ifs[h])
         /\ ~swapped => IfsInOrder(ifs[h], at)
         /\ Hung /\ DOMAIN ifs = Nodes
<1>1. /\ queue # <<>> /\ queue[1] \in entered /\ ~IsBus(queue[1])
      /\ InOrder(children[queue[1]])
      /\ at \in 1..Len(ifs[queue[1]])
      /\ ~swapped => IfsInOrder(ifs[queue[1]], at)
  BY DEF TreeInv, SortInv
<1>2. /\ Head(queue) = h /\ h \in Nodes /\ h \in Range(queue)
      /\ ifs[h] \in Seq(Interfaces) /\ Once(ifs[h])
  BY <1>1, AtSort
<1>3. Hung BY HungAfterConnecting DEF AfterConnecting
<1>4. Len(ifs[h]) \in Nat BY <1>2, ListIs
<1>5. QED BY <1>1, <1>2, <1>3, <1>4 DEF TreeInv, TypeOK

LEMMA CompareInterfacesKeepsInv ==
  ASSUME TreeInv, CompareInterfaces PROVE TreeInv'
<1> PICK h : h = queue[1] OBVIOUS
<1> DEFINE list  == ifs[h]
           a     == list[at]
           b     == list[at + 1]
           byCfg == a.cfg > b.cfg
           byNum == IF byCfg THEN OutOfOrder(b, a) ELSE OutOfOrder(a, b)
<1>1. /\ pc = "sort_if" /\ pc' = pc /\ at' = at + 1
      /\ UNCHANGED <<sysfsVars, dirVars, histVars, usbbuslist, usbdevlist,
                     interfacelist, children, queue, entered, printed>>
  BY DEF CompareInterfaces, listVars
<1>2. UNCHANGED <<present, presentIfs, unread, unreadIfs, stable, stableIfs>>
  BY <1>1 DEF sysfsVars, dirVars, histVars
<1>3. TypeOK /\ DirInv /\ SortInv BY DEF TreeInv
<1>4. /\ queue # <<>> /\ Head(queue) = h /\ h \in entered /\ ~IsBus(h)
      /\ h \in Nodes /\ h \in Range(queue)
      /\ list \in Seq(Interfaces) /\ Once(list)
      /\ InOrder(children[h])
      /\ Len(list) \in Nat /\ at \in 1..Len(list)
      /\ ~swapped => IfsInOrder(list, at)
      /\ Hung /\ DOMAIN ifs = Nodes
  BY <1>1, AtSortIf
<1>5. /\ at < Len(list)
      /\ ifs' = IF byCfg # byNum
                THEN [ifs EXCEPT ![h] = [@ EXCEPT ![at] = b, ![at + 1] = a]]
                ELSE ifs
      /\ swapped' = (swapped \/ byCfg \/ byNum)
  BY <1>4 DEF CompareInterfaces
<1>6. at \in 1..(Len(list) - 1) /\ at + 1 \in 1..Len(list) BY <1>4, <1>5
<1>7. a \in Interfaces /\ b \in Interfaces BY <1>4, <1>6, ListIs
<1>8. /\ a.cfg \in Nat /\ b.cfg \in Nat /\ a.num \in Nat /\ b.num \in Nat
  BY <1>7, InterfacesAssumption
<1>9. swapped' \in BOOLEAN BY <1>5, Zenon
<1>10. ~swapped' => ~swapped /\ NotAfter(a, b) /\ ifs' = ifs
  <2>1. SUFFICES ASSUME ~swapped' PROVE ~swapped /\ NotAfter(a, b) /\ ifs' = ifs
    OBVIOUS
  <2>2. ~swapped /\ ~byCfg /\ ~byNum BY <1>5, <2>1, Zenon
  <2>3. ifs' = ifs
    <3>1. byCfg = FALSE /\ byNum = FALSE BY <1>8, <2>2 DEF OutOfOrder
    <3>2. ~ (byCfg # byNum) BY <3>1
    <3> HIDE DEF byCfg, byNum
    <3>3. QED BY <1>5, <3>2
  <2>4. ~ (a.cfg > b.cfg) /\ ~ (a.num > b.num) BY <2>2 DEF OutOfOrder
  <2>5. NotAfter(a, b) BY <1>8, <2>4 DEF NotAfter
  <2>6. QED BY <2>2, <2>3, <2>5
<1> DEFINE x == [list EXCEPT ![at] = b, ![at + 1] = a]
<1>11. x \in Seq(Interfaces) /\ Len(x) = Len(list) /\ Range(x) = Range(list) /\ Once(x)
  <2>1. x = Exchanged(list, at) BY DEF Exchanged
  <2> HIDE DEF x, list
  <2>2. QED BY <1>4, <1>6, <2>1, ExchangedIs
<1>12. \/ ifs' = ifs
       \/ ifs' = [ifs EXCEPT ![h] = x]
  BY <1>5
<1> HIDE DEF x
<1>13. /\ DOMAIN ifs' = Nodes
       /\ ifs'[h] \in Seq(Interfaces) /\ Len(ifs'[h]) = Len(list)
       /\ Range(ifs'[h]) = Range(list) /\ Once(ifs'[h])
       /\ \A n \in Nodes : n # h => ifs'[n] = ifs[n]
  <2>1. CASE ifs' = ifs BY <1>4, <2>1
  <2>2. CASE ifs' = [ifs EXCEPT ![h] = x]
    <3>1. DOMAIN ifs' = Nodes /\ ifs'[h] = x BY <1>4, <2>2
    <3>2. \A n \in Nodes : n # h => ifs'[n] = ifs[n] BY <1>4, <2>2
    <3>3. QED BY <1>11, <3>1, <3>2
  <2>3. QED BY <1>12, <2>1, <2>2
<1>14. ~swapped' => IfsInOrder(ifs'[h], at')
  <2>1. SUFFICES ASSUME ~swapped', NEW j \in 1..(at' - 1)
                 PROVE  NotAfter(list[j], list[j + 1])
    BY <1>10 DEF IfsInOrder
  <2>2. CASE j = at BY <1>10, <2>1, <2>2
  <2>3. CASE j # at
    <3>1. j \in 1..(at - 1) BY <1>1, <1>4, <2>3
    <3>2. QED BY <1>4, <1>10, <2>1, <3>1 DEF IfsInOrder
  <2>4. QED BY <2>2, <2>3
<1> HIDE DEF list, a, b, byCfg, byNum
<1>15. TypeOK'
  <2>1. \A n \in Nodes : ifs'[n] \in Seq(Interfaces) /\ IsInjective(ifs'[n])
    <3> TAKE n \in Nodes
    <3>1. CASE n = h BY <1>13, <3>1, OnceIsInjective
    <3>2. CASE n # h BY <1>3, <1>13, <3>2 DEF TypeOK
    <3>3. QED BY <3>1, <3>2
  <2>2. at' \in Nat \ {0} BY <1>1, <1>4
  <2>3. QED BY <1>1, <1>2, <1>3, <1>9, <1>13, <2>1, <2>2 DEF TypeOK
<1>16. /\ DirInv' /\ QueueInv' /\ LinesAscend' /\ PrintInv'
       /\ Seen' = Seen /\ InTree' = InTree
  BY <1>1, <1>3, SortingKeeps DEF DirInv
<1>17. \A n \in Nodes : Once(ifs'[n]) /\ Range(ifs'[n]) = Range(ifs[n])
  <2> TAKE n \in Nodes
  <2>1. CASE n = h BY <1>13, <2>1 DEF list
  <2>2. CASE n # h BY <1>4, <1>13, <2>2 DEF Hung
  <2>3. QED BY <2>1, <2>2
<1>18. Hung' BY <1>1, <1>4, <1>16, <1>17, BusIs DEF Hung
<1>19. ChildrenInv' /\ IfsInv' BY <1>1, <1>18, HungStays DEF AfterConnecting
<1>20. SortInv'
  <2>1. \A n \in entered \ Range(queue) : NodeInOrder(n)'
    <3> TAKE n \in entered \ Range(queue)
    <3>1. n \in Nodes /\ n # h BY <1>3, <1>4 DEF TypeOK
    <3>2. NodeInOrder(n) BY <1>1, <1>3 DEF SortInv
    <3>3. children'[n] = children[n] /\ ifs'[n] = ifs[n] BY <1>1, <1>13, <3>1
    <3>4. QED BY <3>2, <3>3 DEF NodeInOrder
  <2>2. /\ Range(queue) \subseteq Seen
        /\ \A n \in Range(queue) \cup entered : IsBus(n) \/ Parent(n) \in entered
        /\ \A n \in InTree : n \in entered \/ On(Range(queue) \ entered, n)
    BY <1>1, <1>3 DEF SortInv
  <2>3. queue'[1] = h BY <1>1
  <2>4. at' \in 1..Len(ifs'[h]) BY <1>1, <1>6, <1>13
  <2>5. QED BY <1>1, <1>4, <1>14, <1>16, <2>1, <2>2, <2>3, <2>4 DEF SortInv
<1>21. QED BY <1>15, <1>16, <1>19, <1>20 DEF TreeInv

LEMMA EndOfPassKeepsInv == ASSUME TreeInv, EndOfPass PROVE TreeInv'
<1> PICK h : h = queue[1] OBVIOUS
<1>1. /\ pc = "sort_if" /\ at' = 1 /\ swapped' = FALSE
      /\ UNCHANGED <<sysfsVars, dirVars, histVars, usbbuslist, usbdevlist,
                     interfacelist, children, ifs, entered, printed>>
  BY DEF EndOfPass, listVars, treeVars
<1>2. UNCHANGED <<present, presentIfs, unread, unreadIfs, stable, stableIfs>>
  BY <1>1 DEF sysfsVars, dirVars, histVars
<1>3. TypeOK /\ DirInv /\ SortInv BY DEF TreeInv
<1>4. /\ queue # <<>> /\ Head(queue) = h /\ h \in entered /\ ~IsBus(h)
      /\ InOrder(children[h])
      /\ Len(ifs[h]) \in Nat /\ at \in 1..Len(ifs[h])
      /\ ~swapped => IfsInOrder(ifs[h], at)
      /\ Hung
  BY <1>1, AtSortIf
<1>5. /\ at = Len(ifs[h])
      /\ \/ swapped /\ pc' = "sort_if" /\ queue' = queue
         \/ ~swapped /\ pc' = "sort" /\ queue' = Tail(queue)
  BY <1>1, <1>4 DEF EndOfPass
<1>6. TypeOK'
  <2>1. Tail(queue) \in Seq(Nodes) BY <1>1, <1>4, AtSort
  <2>2. queue' \in Seq(Nodes) /\ pc' \in {"sort", "sort_if"}
    BY <1>3, <1>5, <2>1 DEF TypeOK
  <2>3. at' \in Nat \ {0} BY <1>1
  <2>4. swapped' \in BOOLEAN BY <1>1, Zenon
  <2>5. QED BY <1>1, <1>2, <1>3, <2>2, <2>3, <2>4 DEF TypeOK
<1>7. /\ DirInv' /\ QueueInv' /\ LinesAscend' /\ PrintInv'
      /\ Seen' = Seen /\ InTree' = InTree
  BY <1>1, <1>3, <1>5, SortingKeeps DEF DirInv
<1>8. Hung' BY <1>1, <1>4, <1>7 DEF Hung
<1>9. ChildrenInv' /\ IfsInv' BY <1>5, <1>8, HungStays DEF AfterConnecting
<1>10. \A n \in Nodes : NodeInOrder(n) => NodeInOrder(n)' BY <1>1 DEF NodeInOrder
<1>11. SortInv'
  <2>1. CASE swapped /\ pc' = "sort_if" /\ queue' = queue
    <3>1. \A n \in entered \ Range(queue) : NodeInOrder(n)'
      BY <1>1, <1>3, <1>10 DEF SortInv, TypeOK
    <3>2. at' \in 1..Len(ifs[h]) /\ IfsInOrder(ifs[h], 1)
      BY <1>1, <1>4 DEF IfsInOrder
    <3>3. /\ Range(queue) \subseteq Seen
          /\ \A n \in Range(queue) \cup entered : IsBus(n) \/ Parent(n) \in entered
          /\ \A n \in InTree : n \in entered \/ On(Range(queue) \ entered, n)
      BY <1>1, <1>3 DEF SortInv
    <3>4. queue'[1] = h BY <2>1
    <3>5. QED BY <1>1, <1>4, <1>7, <2>1, <3>1, <3>2, <3>3, <3>4 DEF SortInv
  <2>2. CASE ~swapped /\ pc' = "sort" /\ queue' = Tail(queue)
    <3>1. NodeInOrder(h)' BY <1>1, <1>4, <1>5, <2>2 DEF NodeInOrder
    <3>2. QED BY <1>1, <1>4, <1>7, <1>10, <2>2, <3>1, SortedOff
  <2>3. QED BY <1>5, <2>1, <2>2
<1>12. QED BY <1>6, <1>7, <1>9, <1>11 DEF TreeInv

LEMMA SortBusesKeepsInv == ASSUME TreeInv, SortBuses PROVE TreeInv'
<1>1. /\ pc = "sort" /\ queue = <<>> /\ pc' = "print"
      /\ usbbuslist' = Sorted(usbbuslist) /\ queue' = usbbuslist'
      /\ UNCHANGED <<sysfsVars, dirVars, histVars, usbdevlist, interfacelist,
                     children, ifs, entered, at, swapped, printed>>
  BY DEF SortBuses, treeVars
<1>2. UNCHANGED <<present, presentIfs, unread, unreadIfs, stable, stableIfs>>
  BY <1>1 DEF sysfsVars, dirVars, histVars
<1>3. TypeOK /\ DirInv /\ SortInv BY DEF TreeInv
<1>4. /\ usbbuslist \in Seq(Buses) /\ Once(usbbuslist)
      /\ Buses \subseteq Nodes /\ \A n \in Buses : IsBus(n)
  BY <1>3, BusIs DEF TypeOK, DirInv
<1>5. /\ usbbuslist' \in Seq(Buses) /\ Once(usbbuslist') /\ InOrder(usbbuslist')
      /\ Range(usbbuslist') = Range(usbbuslist)
  <2>1. Range(usbbuslist) \subseteq Buses BY <1>3, SeenTyped
  <2>2. \A a, b \in Range(usbbuslist) : Last(a) = Last(b) => a = b
    BY <1>4, <2>1, SameBus
  <2>3. QED BY <1>1, <1>4, <2>2, SortedIs
<1>6. usbbuslist' \in Seq(Nodes) BY <1>4, <1>5, SeqMonotonic
<1>7. TypeOK' BY <1>1, <1>2, <1>3, <1>5, <1>6 DEF TypeOK
<1>8. /\ DirInv' /\ QueueInv' /\ LinesAscend' /\ printed = <<>>
      /\ Seen' = Seen /\ InTree' = InTree
  BY <1>1, <1>5, SortingKeeps
<1>9. Hung BY <1>1, HungAfterConnecting DEF AfterConnecting
<1>10. Hung' BY <1>1, <1>8, <1>9 DEF Hung
<1>11. ChildrenInv' /\ IfsInv' BY <1>1, <1>10, HungStays DEF AfterConnecting
<1>12. SortInv' BY <1>1 DEF SortInv
<1>13. \A n \in InTree : NodeInOrder(n)'
  <2> TAKE n \in InTree
  <2>1. Range(queue) = {} BY <1>1, EmptyList
  <2>2. n \in entered BY <1>1, <1>3, <2>1 DEF SortInv, On
  <2>3. NodeInOrder(n) BY <1>1, <1>3, <2>1, <2>2 DEF SortInv
  <2>4. QED BY <1>1, <2>3 DEF NodeInOrder
<1>14. Range(queue') \subseteq InTree
  <2>1. \A n \in Range(usbbuslist) : n \in Seen /\ n \in Nodes /\ IsBus(n)
    BY <1>3, <1>4, SeenTyped DEF Seen
  <2>2. QED BY <1>1, <1>5, <2>1, BusIsInTree
<1>15. \A j, k \in 1..Len(queue') : j < k => LeftOf(queue'[j], queue'[k])
  <2> TAKE j, k \in 1..Len(queue')
  <2> HAVE j < k
  <2>1. queue'[j] \in Buses /\ queue'[k] \in Buses BY <1>1, <1>5, ElementOfSeq
  <2>2. Last(queue'[j]) < Last(queue'[k]) BY <1>1, <1>5 DEF InOrder
  <2>3. QED BY <1>4, <2>1, <2>2, BusIsLeft
<1>16. \A n \in InTree : On(Range(queue'), n) BY <1>1, <1>3, <1>5, OnABus
<1>17. PrintInv'
  <2>1. printed' = <<>> /\ Len(printed') = 0 BY <1>1, <1>8, EmptySeq
  <2>2. QED BY <1>1, <1>8, <1>13, <1>14, <1>15, <1>16, <2>1 DEF PrintInv
<1>18. QED BY <1>7, <1>8, <1>11, <1>12, <1>17 DEF TreeInv

-----------------------------------------------------------------------------
(***************************************************************************)
(* Printing it.                                                            *)
(***************************************************************************)

\* A device of the tree has its interfaces that were read.
LEMMA HungInterfaces ==
  ASSUME TypeOK, Hung, NEW n \in Seen, ~IsBus(n)
  PROVE  /\ n \in Nodes /\ ifs[n] \in Seq(Interfaces) /\ Once(ifs[n])
         /\ Range(ifs[n]) = {i \in Range(interfacelist) : i.of = n}
<1>1. n \in Nodes /\ n \in Devices BY SeenTyped, BusIs
<1>2. n \in Range(usbdevlist) BY <1>1, SeenTyped DEF Seen, Devices
<1>3. Range(ifs[n]) = OfDevice(interfacelist, Len(interfacelist), n)
  BY <1>1, <1>2 DEF Hung
<1>4. Range(interfacelist) = {interfacelist[k] : k \in 1..Len(interfacelist)}
  BY ListIs DEF TypeOK
<1>5. Range(ifs[n]) = {i \in Range(interfacelist) : i.of = n}
  BY <1>3, <1>4 DEF OfDevice
<1>6. QED BY <1>1, <1>5 DEF TypeOK, Hung

\* a may be printed just before b.
LineBefore(a, b) ==
    \/ PathBefore(a.node, b.node)
    \/ /\ a.node = b.node
       /\ \/ a.if.num < b.if.num
          \/ a.if.num = b.if.num /\ a.if.cfg < b.if.cfg

LEMMA LinesAscendIs ==
  LinesAscend <=>
     \A k \in 1..(Len(printed) - 1) : LineBefore(printed[k], printed[k + 1])
BY DEF LinesAscend, LineBefore

\* The lines of a node are of that node, and in order.
LEMMA LinesAre ==
  ASSUME TypeOK, Hung, NEW n \in Seen, NodeInOrder(n)
  PROVE  /\ LinesOf(n) \in Seq(Line) /\ LinesOf(n) # <<>>
         /\ \A k \in 1..Len(LinesOf(n)) : LinesOf(n)[k].node = n
         /\ \A k \in 1..(Len(LinesOf(n)) - 1) :
               LineBefore(LinesOf(n)[k], LinesOf(n)[k + 1])
<1>1. n \in Nodes BY SeenTyped
<1>2. CASE IsBus(n) \/ ifs[n] = <<>>
  <2> DEFINE line == [node |-> n, if |-> NoInterface]
  <2>1. LinesOf(n) = <<line>> BY <1>2 DEF LinesOf
  <2>2. line \in Line /\ line.node = n BY <1>1 DEF Line
  <2> HIDE DEF line
  <2>3. <<line>> \in Seq(Line) /\ Len(<<line>>) = 1 /\ <<line>>[1] = line
    BY <2>2
  <2>4. \A k \in 1..1 : k = 1 OBVIOUS
  <2>5. 1..(1 - 1) = {} OBVIOUS
  <2>6. QED BY <2>1, <2>2, <2>3, <2>4, <2>5, EmptySeq
<1>3. CASE ~IsBus(n) /\ ifs[n] # <<>>
  <2> DEFINE l == ifs[n]
  <2>1. /\ l \in Seq(Interfaces) /\ Once(l)
        /\ Range(l) = {i \in Range(interfacelist) : i.of = n}
    BY <1>3, HungInterfaces
  <2>2. /\ Len(l) \in Nat /\ Len(l) # 0
        /\ \A k \in 1..Len(l) : l[k] \in Interfaces /\ l[k] \in Range(l)
    BY <1>3, <2>1, ListIs
  <2>3. \A k \in 1..(Len(l) - 1) : NotAfter(l[k], l[k + 1])
    BY <1>3 DEF NodeInOrder, IfsInOrder
  <2>4. LinesOf(n) = [k \in 1..Len(l) |-> [node |-> n, if |-> l[k]]]
    BY <1>3 DEF LinesOf
  <2> HIDE DEF l
  <2>5. \A k \in 1..Len(l) : [node |-> n, if |-> l[k]] \in Line
    BY <1>1, <2>2 DEF Line
  <2>6. /\ LinesOf(n) \in Seq(Line) /\ Len(LinesOf(n)) = Len(l)
        /\ \A k \in 1..Len(l) :
              LinesOf(n)[k].node = n /\ LinesOf(n)[k].if = l[k]
    BY <2>2, <2>4, <2>5
  <2>7. \A k \in 1..(Len(l) - 1) : LineBefore(LinesOf(n)[k], LinesOf(n)[k + 1])
    <3> TAKE k \in 1..(Len(l) - 1)
    <3> DEFINE a == l[k]
               b == l[k + 1]
    <3>1. k \in 1..Len(l) /\ k + 1 \in 1..Len(l) /\ k # k + 1 BY <2>2
    <3>2. a # b BY <2>1, <3>1 DEF Once
    <3>3. a \in Interfaces /\ b \in Interfaces /\ a.of = n /\ b.of = n
      BY <2>1, <2>2, <3>1
    <3>4. NotAfter(a, b) BY <2>3
    <3>5. /\ LinesOf(n)[k].node = n /\ LinesOf(n)[k + 1].node = n
          /\ LinesOf(n)[k].if = a /\ LinesOf(n)[k + 1].if = b
      BY <2>6, <3>1
    <3> HIDE DEF a, b
    <3>6. /\ a = [of |-> a.of, cfg |-> a.cfg, num |-> a.num]
          /\ b = [of |-> b.of, cfg |-> b.cfg, num |-> b.num]
          /\ a.cfg \in Nat /\ b.cfg \in Nat /\ a.num \in Nat /\ b.num \in Nat
      BY <3>3, InterfacesAssumption
    <3>7. a.num # b.num \/ a.cfg # b.cfg BY <3>2, <3>3, <3>6
    <3>8. a.num < b.num \/ (a.num = b.num /\ a.cfg < b.cfg)
      BY <3>4, <3>6, <3>7 DEF NotAfter
    <3>9. QED BY <3>5, <3>8 DEF LineBefore
  <2>8. LinesOf(n) # <<>> BY <2>2, <2>6, EmptySeq
  <2>9. QED BY <2>6, <2>7, <2>8
<1>4. QED BY <1>2, <1>3

\* The lines of a node as a set.
LEMMA LinesAsSet ==
  ASSUME TypeOK, Hung, NEW n \in Seen
  PROVE  Range(LinesOf(n)) =
            IF IsBus(n) \/ \A i \in Range(interfacelist) : i.of # n
            THEN {[node |-> n, if |-> NoInterface]}
            ELSE {[node |-> n, if |-> i] :
                     i \in {j \in Range(interfacelist) : j.of = n}}
<1>1. CASE IsBus(n)
  <2>1. LinesOf(n) = <<[node |-> n, if |-> NoInterface]>> BY <1>1 DEF LinesOf
  <2>2. QED BY <1>1, <2>1 DEF Range
<1>2. CASE ~IsBus(n)
  <2>1. /\ ifs[n] \in Seq(Interfaces)
        /\ Range(ifs[n]) = {i \in Range(interfacelist) : i.of = n}
    BY <1>2, HungInterfaces
  <2>2. /\ Range(ifs[n]) = {ifs[n][k] : k \in 1..Len(ifs[n])}
        /\ ifs[n] = <<>> <=> Len(ifs[n]) = 0
        /\ Len(ifs[n]) \in Nat
        /\ DOMAIN ifs[n] = 1..Len(ifs[n])
    BY <2>1, ListIs
  <2>3. CASE ifs[n] = <<>>
    <3>1. Range(ifs[n]) = {} BY <2>3, EmptyList
    <3>2. LinesOf(n) = <<[node |-> n, if |-> NoInterface]>> BY <2>3 DEF LinesOf
    <3>3. Range(LinesOf(n)) = {[node |-> n, if |-> NoInterface]}
      BY <3>2 DEF Range
    <3>4. QED BY <2>1, <3>1, <3>3
  <2>4. CASE ifs[n] # <<>>
    <3>1. LinesOf(n) =
             [k \in 1..Len(ifs[n]) |-> [node |-> n, if |-> ifs[n][k]]]
      BY <1>2, <2>4 DEF LinesOf
    <3>2. Range(LinesOf(n)) = {[node |-> n, if |-> ifs[n][k]] : k \in 1..Len(ifs[n])}
      BY <3>1 DEF Range
    <3>3. Range(LinesOf(n)) = {[node |-> n, if |-> i] : i \in Range(ifs[n])}
      BY <2>2, <3>2
    <3>4. 1 \in 1..Len(ifs[n]) BY <2>2, <2>4
    <3>5. Range(ifs[n]) # {} BY <2>2, <3>4
    <3>6. QED BY <1>2, <2>1, <3>3, <3>5
  <2>5. QED BY <2>3, <2>4
<1>3. QED BY <1>1, <1>2

\* What printing and cleaning up leave alone.
LEMMA PrintingKeeps ==
  ASSUME TreeInv, pc = "print", pc' \in {"print", "cleanup"},
         UNCHANGED <<sysfsVars, dirVars, histVars, listVars, treeVars>>
  PROVE  /\ DirInv' /\ QueueInv' /\ ChildrenInv' /\ IfsInv' /\ SortInv'
         /\ Seen' = Seen /\ InTree' = InTree
<1>1. UNCHANGED <<present, presentIfs, unread, unreadIfs, stable, stableIfs,
                  usbbuslist, usbdevlist, interfacelist, children, ifs>>
  BY DEF sysfsVars, dirVars, histVars, listVars, treeVars
<1>2. Seen' = Seen BY <1>1 DEF Seen
<1>3. InTree' = InTree BY <1>2 DEF InTree, Rooted
<1>4. DirInv' BY <1>1, <1>2 DEF TreeInv, DirInv, WasRead
<1>5. QueueInv' /\ SortInv' BY DEF QueueInv, SortInv
<1>6. Hung BY HungAfterConnecting DEF AfterConnecting
<1>7. Hung' BY <1>1, <1>2, <1>6 DEF Hung
<1>8. ChildrenInv' /\ IfsInv' BY <1>7, HungStays DEF AfterConnecting
<1>9. QED BY <1>2, <1>3, <1>4, <1>5, <1>8

LEMMA PrintTreeKeepsInv == ASSUME TreeInv, PrintTree PROVE TreeInv'
<1> PICK h : h = queue[1] OBVIOUS
<1> DEFINE c == children[h]
           t == Tail(queue)
           lines == LinesOf(h)
<1>1. /\ pc = "print" /\ pc' = pc /\ queue # <<>>
      /\ UNCHANGED <<sysfsVars, dirVars, histVars, listVars, treeVars, entered,
                     at, swapped>>
  BY DEF PrintTree
<1>2. UNCHANGED <<present, presentIfs, unread, unreadIfs, stable, stableIfs,
                  usbbuslist, usbdevlist, interfacelist, children, ifs>>
  BY <1>1 DEF sysfsVars, dirVars, histVars, listVars, treeVars
<1>3. TypeOK /\ PrintInv /\ LinesAscend BY DEF TreeInv
<1>4. /\ DirInv' /\ QueueInv' /\ ChildrenInv' /\ IfsInv' /\ SortInv'
      /\ Seen' = Seen /\ InTree' = InTree
  BY <1>1, PrintingKeeps
<1>5. Hung BY <1>1, HungAfterConnecting DEF AfterConnecting
<1>6. /\ \A n \in InTree : NodeInOrder(n)
      /\ Range(queue) \subseteq InTree
      /\ \A j, k \in 1..Len(queue) : j < k => LeftOf(queue[j], queue[k])
      /\ printed # <<>> => PathBefore(printed[Len(printed)].node, h)
      /\ \A k \in 1..Len(printed) :
            /\ printed[k].node \in InTree
            /\ printed[k] \in Range(LinesOf(printed[k].node))
      /\ \A n \in InTree : Range(LinesOf(n)) \subseteq Printed \/ On(Range(queue), n)
  BY <1>1, <1>3 DEF PrintInv
<1>7. queue \in Seq(Nodes) /\ printed \in Seq(Line) BY <1>3 DEF TypeOK
<1>8. /\ 1 \in 1..Len(queue) /\ Head(queue) = h /\ h \in Nodes
      /\ t \in Seq(Nodes) /\ Len(t) = Len(queue) - 1 /\ Len(queue) \in Nat
      /\ \A k \in 1..(Len(queue) - 1) : t[k] = queue[k + 1]
      /\ Range(queue) = {h} \cup Range(t)
  BY <1>1, <1>7, FirstAndRest, ListIs
<1>9. h \in InTree /\ h \in Seen /\ Seen \subseteq Nodes
  BY <1>3, <1>6, <1>8, SeenTyped DEF InTree
<1>10. /\ c \in Seq(Devices)
       /\ \A d : d \in Range(c) <=> d \in Seen /\ ~IsBus(d) /\ Parent(d) = h
  BY <1>3, <1>5, <1>9, HungChildren
<1>11. c \in Seq(Nodes) /\ Len(c) \in Nat BY <1>10, BusIs, SeqMonotonic, ListIs
<1>12. /\ lines \in Seq(Line) /\ lines # <<>>
       /\ \A k \in 1..Len(lines) : lines[k].node = h
       /\ \A k \in 1..(Len(lines) - 1) : LineBefore(lines[k], lines[k + 1])
  BY <1>3, <1>5, <1>6, <1>9, LinesAre
<1>13. printed' = printed \o lines /\ queue' = c \o t
  BY <1>8 DEF PrintTree
<1>14. \A n : LinesOf(n)' = LinesOf(n) BY <1>2 DEF LinesOf
<1> HIDE DEF c, t, lines
<1>15. /\ queue' \in Seq(Nodes) /\ Len(queue') = Len(c) + Len(t)
       /\ \A k \in 1..(Len(c) + Len(t)) :
             queue'[k] = IF k <= Len(c) THEN c[k] ELSE t[k - Len(c)]
       /\ Range(queue') = Range(c) \cup Range(t)
  <2>1. c \in Seq(Nodes) /\ t \in Seq(Nodes) BY <1>8, <1>11
  <2>2. Range(c \o t) = Range(c) \cup Range(t)
    BY <2>1, RangeConcatenation, Zenon
  <2>3. QED BY <1>13, <2>1, <2>2, ConcatProperties, Zenon
<1>16. /\ printed' \in Seq(Line) /\ Len(printed') = Len(printed) + Len(lines)
       /\ \A k \in 1..(Len(printed) + Len(lines)) : printed'[k] =
             IF k <= Len(printed) THEN printed[k] ELSE lines[k - Len(printed)]
       /\ Range(printed') = Range(printed) \cup Range(lines)
  <2>1. Range(printed \o lines) = Range(printed) \cup Range(lines)
    BY <1>7, <1>12, RangeConcatenation, Zenon
  <2>2. QED BY <1>7, <1>12, <1>13, <2>1, ConcatProperties, Zenon
<1>17. Len(printed) \in Nat /\ Len(lines) \in Nat \ {0}
       /\ (printed = <<>> <=> Len(printed) = 0)
  BY <1>7, <1>12, ListIs
<1>18. TypeOK' BY <1>1, <1>2, <1>3, <1>15, <1>16 DEF TypeOK
<1>19. \A d \in Range(c) : d \in InTree /\ d \in Nodes /\ ~IsBus(d) /\ Parent(d) = h
  BY <1>9, <1>10, BelowIsInTree
<1>20. Range(queue') \subseteq InTree BY <1>6, <1>8, <1>15, <1>19
<1>21. \A k \in 1..Len(c) : c[k] \in Range(c) BY <1>10, ListIs
<1>22. \A k \in 1..Len(t) :
         /\ k + 1 \in 1..Len(queue) /\ t[k] = queue[k + 1] /\ t[k] \in Nodes
         /\ LeftOf(h, t[k])
  <2> TAKE k \in 1..Len(t)
  <2>1. k + 1 \in 1..Len(queue) /\ 1 < k + 1 BY <1>8
  <2>2. t[k] = queue[k + 1] /\ t[k] \in Nodes BY <1>8, ElementOfSeq
  <2>3. LeftOf(queue[1], queue[k + 1]) BY <1>6, <1>8, <2>1
  <2>4. QED BY <2>1, <2>2, <2>3
<1>23. \A j, k \in 1..Len(queue') : j < k => LeftOf(queue'[j], queue'[k])
  <2> TAKE j, k \in 1..Len(queue')
  <2> HAVE j < k
  <2>1. CASE k <= Len(c)
    <3>1. j \in 1..Len(c) /\ k \in 1..Len(c) BY <1>11, <2>1
    <3>2. queue'[j] = c[j] /\ queue'[k] = c[k] BY <1>8, <1>15, <3>1
    <3>3. Last(c[j]) < Last(c[k])
      BY <1>6, <1>9, <3>1 DEF NodeInOrder, InOrder, c
    <3>4. QED BY <1>19, <1>21, <3>1, <3>2, <3>3, SiblingIsLeft
  <2>2. CASE j <= Len(c) /\ Len(c) < k
    <3>1. j \in 1..Len(c) /\ k - Len(c) \in 1..Len(t) BY <1>8, <1>11, <1>15, <2>2
    <3>2. queue'[j] = c[j] /\ queue'[k] = t[k - Len(c)]
      BY <1>11, <1>15, <2>2
    <3>3. LeftOf(h, t[k - Len(c)]) /\ t[k - Len(c)] \in Nodes BY <1>22, <3>1
    <3>4. c[j] \in Nodes /\ ~IsBus(c[j]) /\ Parent(c[j]) = h
      BY <1>19, <1>21, <3>1
    <3>5. LeftOf(c[j], t[k - Len(c)]) BY <3>3, <3>4, LeftBelow
    <3>6. QED BY <3>2, <3>5
  <2>3. CASE Len(c) < j
    <3>1. /\ j - Len(c) \in 1..Len(t) /\ k - Len(c) \in 1..Len(t)
          /\ (j - Len(c)) + 1 < (k - Len(c)) + 1
      BY <1>8, <1>11, <1>15, <2>3
    <3>2. queue'[j] = t[j - Len(c)] /\ queue'[k] = t[k - Len(c)]
      BY <1>11, <1>15, <2>3
    <3>3. LeftOf(queue[(j - Len(c)) + 1], queue[(k - Len(c)) + 1])
      BY <1>6, <1>22, <3>1
    <3>4. QED BY <1>22, <3>1, <3>2, <3>3
  <2>4. QED BY <1>8, <1>11, <1>15, <2>1, <2>2, <2>3
<1>24. printed'[Len(printed')].node = h
  <2>1. /\ Len(printed') \in 1..(Len(printed) + Len(lines))
        /\ ~ (Len(printed') <= Len(printed))
        /\ Len(printed') - Len(printed) \in 1..Len(lines)
    BY <1>16, <1>17
  <2>2. QED BY <1>12, <1>16, <2>1
<1>25. queue' # <<>> => PathBefore(h, queue'[1])
  <2>1. SUFFICES ASSUME queue' # <<>> PROVE PathBefore(h, queue'[1]) OBVIOUS
  <2>2. 1 \in 1..(Len(c) + Len(t)) BY <1>15, <2>1, FirstAndRest
  <2>3. CASE Len(c) # 0
    <3>1. 1 \in 1..Len(c) /\ 1 <= Len(c) BY <1>11, <2>3
    <3>2. queue'[1] = c[1] BY <1>15, <2>2, <3>1
    <3>3. c[1] \in Nodes /\ ~IsBus(c[1]) /\ Parent(c[1]) = h
      BY <1>19, <1>21, <3>1
    <3>4. QED BY <3>2, <3>3, ParentIsBefore
  <2>4. CASE Len(c) = 0
    <3>1. 1 \in 1..Len(t) /\ ~ (1 <= Len(c)) /\ 1 - Len(c) = 1 BY <1>8, <2>2, <2>4
    <3>2. queue'[1] = t[1] BY <1>15, <2>2, <3>1
    <3>3. QED BY <1>22, <3>1, <3>2, LeftIsBefore
  <2>5. QED BY <2>3, <2>4
<1>26. \A k \in 1..Len(printed') :
         /\ printed'[k].node \in InTree
         /\ printed'[k] \in Range(LinesOf(printed'[k].node))
  <2> TAKE k \in 1..Len(printed')
  <2>1. CASE k <= Len(printed)
    <3>1. printed'[k] = printed[k] /\ k \in 1..Len(printed) BY <1>16, <1>17, <2>1
    <3>2. QED BY <1>6, <3>1
  <2>2. CASE ~ (k <= Len(printed))
    <3>1. /\ printed'[k] = lines[k - Len(printed)]
          /\ k - Len(printed) \in 1..Len(lines)
      BY <1>16, <1>17, <2>2
    <3>2. lines[k - Len(printed)] \in Range(lines) BY <1>12, <3>1, ListIs
    <3>3. printed'[k].node = h BY <1>12, <3>1
    <3>4. printed'[k] \in Range(lines) BY <3>1, <3>2
    <3>5. QED BY <1>9, <3>3, <3>4 DEF lines
  <2>3. QED BY <2>1, <2>2
<1>27. \A n \in InTree : Range(LinesOf(n)) \subseteq Range(printed')
                         \/ On(Range(queue'), n)
  <2> TAKE n \in InTree
  <2>1. CASE Range(LinesOf(n)) \subseteq Printed BY <1>16, <2>1 DEF Printed
  <2>2. CASE On(Range(queue), n)
    <3>1. Range(queue) \ {h} \subseteq Range(queue') BY <1>8, <1>15
    <3>2. \A d \in Seen : ~IsBus(d) /\ Parent(d) = h => d \in Range(queue')
      BY <1>10, <1>15
    <3>3. n = h \/ On(Range(queue'), n) BY <1>9, <2>2, <3>1, <3>2, OnBelow
    <3>4. n = h => Range(LinesOf(n)) = Range(lines) BY DEF lines
    <3>5. QED BY <1>16, <3>3, <3>4
  <2>3. QED BY <1>6, <2>1, <2>2
<1>28. PrintInv'
  <2>1. \A n \in InTree : NodeInOrder(n)' BY <1>2, <1>6 DEF NodeInOrder
  <2>2. Printed' = Range(printed') BY DEF Printed
  <2>3. \A k \in 1..Len(printed') :
           printed'[k] \in Range((LinesOf(printed[k].node))')
    BY <1>14, <1>26
  <2>4. \A n \in InTree : Range(LinesOf(n)') \subseteq Printed'
                          \/ On(Range(queue'), n)
    BY <1>14, <1>27, <2>2
  <2>5. QED BY <1>1, <1>4, <1>20, <1>23, <1>24, <1>25, <1>26, <2>1, <2>3, <2>4
            DEF PrintInv
<1>29. LinesAscend'
  <2>1. ASSUME NEW k \in 1..(Len(printed') - 1)
        PROVE  LineBefore(printed'[k], printed'[k + 1])
    <3>1. CASE k < Len(printed)
      <4>1. k \in 1..(Len(printed) - 1) BY <1>17, <3>1
      <4>2. printed'[k] = printed[k] /\ printed'[k + 1] = printed[k + 1]
        BY <1>16, <1>17, <4>1
      <4>3. QED BY <1>3, <4>1, <4>2, LinesAscendIs
    <3>2. CASE k = Len(printed)
      <4>1. printed # <<>> /\ 1 \in 1..Len(lines) BY <1>17, <3>2
      <4>2. printed'[k] = printed[Len(printed)] /\ printed'[k + 1] = lines[1]
        BY <1>16, <1>17, <3>2
      <4>3. lines[1].node = h BY <1>12, <4>1
      <4>4. QED BY <1>6, <4>1, <4>2, <4>3 DEF LineBefore
    <3>3. CASE k > Len(printed)
      <4> DEFINE j == k - Len(printed)
      <4>1. j \in 1..(Len(lines) - 1) /\ (k + 1) - Len(printed) = j + 1
        BY <1>16, <1>17, <2>1, <3>3
      <4>2. printed'[k] = lines[j] /\ printed'[k + 1] = lines[j + 1]
        BY <1>16, <1>17, <2>1, <3>3, <4>1
      <4> HIDE DEF j
      <4>3. QED BY <1>12, <4>1, <4>2
    <3>4. QED BY <1>16, <1>17, <2>1, <3>1, <3>2, <3>3
  <2>2. QED BY <2>1 DEF LinesAscend, LineBefore
<1>30. QED BY <1>4, <1>18, <1>28, <1>29 DEF TreeInv

LEMMA TreePrintedKeepsInv == ASSUME TreeInv, TreePrinted PROVE TreeInv'
<1>1. /\ pc = "print" /\ pc' = "cleanup" /\ queue = <<>>
      /\ UNCHANGED <<sysfsVars, dirVars, histVars, listVars, treeVars, queue,
                     entered, at, swapped, printed>>
  BY DEF TreePrinted, sortVars
<1>2. UNCHANGED <<present, presentIfs, unread, unreadIfs, stable, stableIfs,
                  usbbuslist, usbdevlist, interfacelist, children, ifs>>
  BY <1>1 DEF sysfsVars, dirVars, histVars, listVars, treeVars
<1>3. TypeOK /\ PrintInv /\ LinesAscend BY DEF TreeInv
<1>4. /\ DirInv' /\ QueueInv' /\ ChildrenInv' /\ IfsInv' /\ SortInv'
      /\ Seen' = Seen /\ InTree' = InTree
  BY <1>1, PrintingKeeps
<1>5. TypeOK' BY <1>1, <1>2, <1>3 DEF TypeOK
<1>6. /\ \A n : NodeInOrder(n)' = NodeInOrder(n) /\ LinesOf(n)' = LinesOf(n)
      /\ Printed' = Printed
  BY <1>1, <1>2 DEF NodeInOrder, LinesOf, Printed
<1>7. PrintInv'
  <2>1. /\ \A n \in InTree : NodeInOrder(n)
        /\ Range(queue) \subseteq InTree
        /\ \A j, k \in 1..Len(queue) : j < k => LeftOf(queue[j], queue[k])
        /\ printed # <<>> /\ queue # <<>> =>
               PathBefore(printed[Len(printed)].node, queue[1])
        /\ \A k \in 1..Len(printed) :
               /\ printed[k].node \in InTree
               /\ printed[k] \in Range(LinesOf(printed[k].node))
        /\ \A n \in InTree :
               Range(LinesOf(n)) \subseteq Printed \/ On(Range(queue), n)
    BY <1>1, <1>3 DEF PrintInv
  <2>2. \A k \in 1..Len(printed) :
           printed[k] \in Range((LinesOf(printed[k].node))')
    BY <1>1, <1>6, <2>1
  <2>3. QED BY <1>1, <1>4, <1>6, <2>1, <2>2 DEF PrintInv
<1>8. LinesAscend' BY <1>1, <1>3 DEF LinesAscend
<1>9. QED BY <1>4, <1>5, <1>7, <1>8 DEF TreeInv

\* Empty lists are what they have to be before and after.
LEMMA NothingHeld ==
  ASSUME usbbuslist = <<>>, usbdevlist = <<>>, interfacelist = <<>>,
         children = [n \in Nodes |-> <<>>], ifs = [n \in Nodes |-> <<>>]
  PROVE  /\ Once(usbbuslist) /\ Once(usbdevlist) /\ Once(interfacelist)
         /\ Range(interfacelist) = {} /\ Seen = {}
         /\ usbbuslist \in Seq(Buses) /\ usbdevlist \in Seq(Devices)
         /\ interfacelist \in Seq(Interfaces)
         /\ DOMAIN children = Nodes /\ DOMAIN ifs = Nodes
         /\ \A n \in Nodes :
               /\ children[n] \in Seq(Devices) /\ IsInjective(children[n])
               /\ Once(children[n]) /\ Range(children[n]) = {}
               /\ ifs[n] \in Seq(Interfaces) /\ IsInjective(ifs[n])
               /\ Once(ifs[n]) /\ Range(ifs[n]) = {}
<1>1. Once(<<>>) /\ Range(<<>>) = {} /\ IsInjective(<<>>)
  BY EmptyList DEF IsInjective
<1>2. <<>> \in Seq(Buses) /\ <<>> \in Seq(Devices) /\ <<>> \in Seq(Interfaces)
  BY EmptySeq
<1>3. DOMAIN children = Nodes /\ DOMAIN ifs = Nodes
      /\ \A n \in Nodes : children[n] = <<>> /\ ifs[n] = <<>>
  OBVIOUS
<1>4. Seen = {} BY <1>1 DEF Seen
<1>5. QED BY <1>1, <1>2, <1>3, <1>4

LEMMA CleanupKeepsInv == ASSUME TreeInv, Cleanup PROVE TreeInv'
<1>1. /\ pc = "cleanup" /\ pc' = "done"
      /\ usbbuslist' = <<>> /\ usbdevlist' = <<>> /\ interfacelist' = <<>>
      /\ children' = [n \in Nodes |-> <<>>] /\ ifs' = [n \in Nodes |-> <<>>]
      /\ UNCHANGED <<present, presentIfs, unread, unreadIfs, stable, stableIfs,
                     queue, entered, at, swapped, printed>>
  BY DEF Cleanup, sysfsVars, dirVars, histVars, sortVars
<1>2. TypeOK /\ DirInv /\ LinesAscend BY DEF TreeInv
<1>3. /\ Once(usbbuslist') /\ Once(usbdevlist') /\ Once(interfacelist')
      /\ Range(interfacelist') = {} /\ Seen' = {}
      /\ usbbuslist' \in Seq(Buses) /\ usbdevlist' \in Seq(Devices)
      /\ interfacelist' \in Seq(Interfaces)
      /\ DOMAIN children' = Nodes /\ DOMAIN ifs' = Nodes
      /\ \A n \in Nodes :
            /\ children'[n] \in Seq(Devices) /\ IsInjective(children'[n])
            /\ Once(children'[n]) /\ Range(children'[n]) = {}
            /\ ifs'[n] \in Seq(Interfaces) /\ IsInjective(ifs'[n])
            /\ Once(ifs'[n]) /\ Range(ifs'[n]) = {}
  <2>1. Once(<<>>) /\ Range(<<>>) = {} /\ IsInjective(<<>>)
    BY EmptyList DEF IsInjective
  <2>2. <<>> \in Seq(Buses) /\ <<>> \in Seq(Devices) /\ <<>> \in Seq(Interfaces)
    BY EmptySeq
  <2>3. DOMAIN children' = Nodes /\ DOMAIN ifs' = Nodes
        /\ \A n \in Nodes : children'[n] = <<>> /\ ifs'[n] = <<>>
    BY <1>1
  <2>4. Seen' = {} BY <1>1, <2>1 DEF Seen
  <2>5. QED BY <1>1, <2>1, <2>2, <2>3, <2>4
<1>4. TypeOK' BY <1>1, <1>2, <1>3 DEF TypeOK
<1>5. pc' \notin WasRead /\ pc' # "connect" /\ pc' # "connect_if"
  BY <1>1 DEF WasRead
<1>6. DirInv' BY <1>1, <1>2, <1>3, <1>5 DEF DirInv
<1>7. QueueInv' /\ SortInv' /\ PrintInv'
  BY <1>1 DEF QueueInv, SortInv, PrintInv
<1>8. Placed' = {} /\ Equipped' = {}
  <2>1. Placed' = IF pc' = "connect" THEN FirstDevices(Turn)'
                  ELSE IF pc' = "connect_if" THEN FirstDevices(Turn + 1)'
                  ELSE IF pc' \in WasRead THEN Range(usbdevlist)' ELSE {}
    BY Zenon DEF Placed, WasRead
  <2>2. Equipped' = IF pc' \in {"connect", "connect_if"} THEN FirstDevices(Turn)'
                    ELSE IF pc' \in WasRead THEN Range(usbdevlist)' ELSE {}
    BY Zenon DEF Equipped, WasRead
  <2>3. QED BY <1>5, <2>1, <2>2, Zenon
<1>9. ChildrenInv' BY <1>3, <1>8 DEF ChildrenInv
<1>10. IfsInv' BY <1>3, <1>5, <1>8, BusIs DEF IfsInv
<1>11. LinesAscend' BY <1>1, <1>2 DEF LinesAscend
<1>12. QED BY <1>4, <1>6, <1>7, <1>9, <1>10, <1>11 DEF TreeInv

-----------------------------------------------------------------------------
(***************************************************************************)
(* The whole run, and what follows.                                        *)
(***************************************************************************)

LEMMA TreeStarts == Init => TreeInv
<1> SUFFICES ASSUME Init PROVE TreeInv OBVIOUS
<1>1. /\ present \subseteq Nodes /\ presentIfs \subseteq Interfaces
      /\ unread = Nodes /\ unreadIfs = Interfaces
      /\ stable = present /\ stableIfs = presentIfs /\ pc = "start"
      /\ usbbuslist = <<>> /\ usbdevlist = <<>> /\ interfacelist = <<>>
      /\ children = [n \in Nodes |-> <<>>] /\ ifs = [n \in Nodes |-> <<>>]
      /\ queue = <<>> /\ entered = {} /\ at = 1 /\ swapped = FALSE
      /\ printed = <<>>
  BY DEF Init
<1>2. pc \notin WasRead /\ pc # "connect" /\ pc # "connect_if"
  BY <1>1 DEF WasRead
<1>3. queue \in Seq(Nodes) /\ printed \in Seq(Line) /\ Len(printed) = 0
  BY <1>1, EmptySeq
<1>4. swapped \in BOOLEAN BY <1>1, Zenon
<1>5. at \in Nat \ {0} BY <1>1
<1>6. TypeOK BY <1>1, <1>3, <1>4, <1>5, NothingHeld DEF TypeOK
<1>7. DirInv BY <1>1, <1>2, NothingHeld DEF DirInv
<1>8. QueueInv /\ SortInv /\ PrintInv BY <1>1 DEF QueueInv, SortInv, PrintInv
<1>9. Placed = {} /\ Equipped = {} BY <1>2, Zenon DEF Placed, Equipped
<1>10. ChildrenInv BY <1>1, <1>9, NothingHeld DEF ChildrenInv
<1>11. IfsInv BY <1>1, <1>2, <1>9, NothingHeld, BusIs DEF IfsInv
<1>12. LinesAscend BY <1>3 DEF LinesAscend
<1>13. QED BY <1>6, <1>7, <1>8, <1>10, <1>11, <1>12 DEF TreeInv

LEMMA TreeStutters == ASSUME TreeInv, UNCHANGED vars PROVE TreeInv'
<1>1. UNCHANGED <<present, presentIfs, unread, unreadIfs, stable, stableIfs, pc,
                  usbbuslist, usbdevlist, interfacelist, children, ifs, queue,
                  entered, at, swapped, printed>>
  BY DEF vars, sysfsVars, dirVars, histVars, listVars, treeVars, sortVars
<1>2. TypeOK' BY <1>1 DEF TreeInv, TypeOK
<1>3. DirInv' BY <1>1 DEF TreeInv, DirInv, Seen, WasRead
<1>4. QueueInv' BY <1>1 DEF TreeInv, QueueInv, Turn
<1>5. Placed' = Placed /\ Equipped' = Equipped /\ Seen' = Seen
  BY <1>1 DEF Placed, Equipped, FirstDevices, Turn, WasRead, Seen
<1>6. ChildrenInv' BY <1>1, <1>5 DEF TreeInv, ChildrenInv
<1>7. IfsInv' BY <1>1, <1>5 DEF TreeInv, IfsInv
<1>8. InTree' = InTree BY <1>5 DEF InTree, Rooted
<1>9. SortInv' BY <1>1, <1>5, <1>8 DEF TreeInv, SortInv, NodeInOrder
<1>10. PrintInv'
  BY <1>1, <1>8 DEF TreeInv, PrintInv, NodeInOrder, LinesOf, Printed
<1>11. LinesAscend' BY <1>1 DEF TreeInv, LinesAscend
<1>12. QED BY <1>2, <1>3, <1>4, <1>6, <1>7, <1>9, <1>10, <1>11 DEF TreeInv

LEMMA TreeNextKeepsInv == TreeInv /\ [Next]_vars => TreeInv'
<1> SUFFICES ASSUME TreeInv, [Next]_vars PROVE TreeInv' OBVIOUS
<1>1. CASE Kernel BY <1>1, KernelKeepsInv
<1>2. CASE OpenDir BY <1>2, OpenDirKeepsInv
<1>3. CASE \E n \in Nodes : ReadNode(n) BY <1>3, ReadNodeKeepsInv
<1>4. CASE \E i \in Interfaces : ReadInterface(i) BY <1>4, ReadInterfaceKeepsInv
<1>5. CASE EndOfDir BY <1>5, EndOfDirKeepsInv
<1>6. CASE ConnectDevice BY <1>6, ConnectDeviceKeepsInv
<1>7. CASE ConnectInterface BY <1>7, ConnectInterfaceKeepsInv
<1>8. CASE NextDevice BY <1>8, NextDeviceKeepsInv
<1>9. CASE Connected BY <1>9, ConnectedKeepsInv
<1>10. CASE SortBelow BY <1>10, SortBelowKeepsInv
<1>11. CASE SortChildren BY <1>11, SortChildrenKeepsInv
<1>12. CASE CompareInterfaces BY <1>12, CompareInterfacesKeepsInv
<1>13. CASE EndOfPass BY <1>13, EndOfPassKeepsInv
<1>14. CASE SortBuses BY <1>14, SortBusesKeepsInv
<1>15. CASE PrintTree BY <1>15, PrintTreeKeepsInv
<1>16. CASE TreePrinted BY <1>16, TreePrintedKeepsInv
<1>17. CASE Cleanup BY <1>17, CleanupKeepsInv
<1>18. CASE UNCHANGED vars BY <1>18, TreeStutters
<1>19. QED
  BY <1>1, <1>2, <1>3, <1>4, <1>5, <1>6, <1>7, <1>8, <1>9, <1>10, <1>11, <1>12,
     <1>13, <1>14, <1>15, <1>16, <1>17, <1>18 DEF Next, Program, Done

\* When all is printed, the lines are those of what is in the tree.
LEMMA InvPrintsWhatHangsTogether == TreeInv => PrintsWhatHangsTogether
<1> SUFFICES ASSUME TreeInv, pc = "cleanup"
             PROVE  Printed =
                      {[node |-> n, if |-> NoInterface] : n \in
                          {m \in Seen : Rooted(m) /\ (IsBus(m) \/
                              \A i \in Range(interfacelist) : i.of # m)}}
                      \cup {[node |-> i.of, if |-> i] : i \in
                          {j \in Range(interfacelist) : j.of \in Seen
                                                        /\ Rooted(j.of)}}
  BY DEF PrintsWhatHangsTogether
<1> DEFINE Alone == {m \in Seen : Rooted(m) /\ (IsBus(m) \/
                        \A i \in Range(interfacelist) : i.of # m)}
           Rest == {j \in Range(interfacelist) : j.of \in Seen /\ Rooted(j.of)}
<1>1. TypeOK /\ PrintInv BY DEF TreeInv
<1>2. Hung BY HungAfterConnecting DEF AfterConnecting
<1>3. /\ queue = <<>>
      /\ \A k \in 1..Len(printed) :
            /\ printed[k].node \in InTree
            /\ printed[k] \in Range(LinesOf(printed[k].node))
      /\ \A n \in InTree : Range(LinesOf(n)) \subseteq Printed \/ On(Range(queue), n)
  BY <1>1 DEF PrintInv
<1>4. \A n \in InTree : Range(LinesOf(n)) \subseteq Printed
  BY <1>3, EmptyList DEF On
<1>5. Printed = {printed[k] : k \in 1..Len(printed)}
  BY <1>1, ListIs DEF TypeOK, Printed
<1>6. \A n \in InTree : n \in Seen /\ Rooted(n) BY DEF InTree
<1>7. \A i \in Rest : ~IsBus(i.of) /\ i.of \in InTree
  BY <1>1, SeenTyped, OwnerIs, BusIs DEF InTree
<1>8. ASSUME NEW line \in Printed
      PROVE  \/ \E n \in Alone : line = [node |-> n, if |-> NoInterface]
             \/ \E i \in Rest : line = [node |-> i.of, if |-> i]
  <2>1. PICK n \in InTree : line \in Range(LinesOf(n)) BY <1>3, <1>5, <1>8
  <2>2. n \in Seen /\ Rooted(n) BY <1>6
  <2>3. CASE IsBus(n) \/ \A i \in Range(interfacelist) : i.of # n
    <3>1. line = [node |-> n, if |-> NoInterface]
      BY <1>1, <1>2, <2>1, <2>2, <2>3, LinesAsSet
    <3>2. n \in Alone BY <2>2, <2>3
    <3>3. QED BY <3>1, <3>2
  <2>4. CASE ~ (IsBus(n) \/ \A i \in Range(interfacelist) : i.of # n)
    <3>1. line \in {[node |-> n, if |-> i] :
                       i \in {j \in Range(interfacelist) : j.of = n}}
      BY <1>1, <1>2, <2>1, <2>2, <2>4, LinesAsSet
    <3>2. PICK i \in Range(interfacelist) :
             i.of = n /\ line = [node |-> n, if |-> i]
      BY <3>1
    <3>3. i \in Rest BY <2>2, <3>2
    <3>4. QED BY <3>2, <3>3
  <2>5. QED BY <2>3, <2>4
<1>9. ASSUME NEW n \in Alone PROVE [node |-> n, if |-> NoInterface] \in Printed
  <2>1. n \in InTree BY DEF InTree
  <2>2. Range(LinesOf(n)) = {[node |-> n, if |-> NoInterface]}
    BY <1>1, <1>2, LinesAsSet
  <2>3. QED BY <1>4, <2>1, <2>2
<1>10. ASSUME NEW i \in Rest PROVE [node |-> i.of, if |-> i] \in Printed
  <2>1. i.of \in InTree /\ i.of \in Seen /\ ~IsBus(i.of) BY <1>7
  <2>2. Range(LinesOf(i.of)) =
           {[node |-> i.of, if |-> x] :
               x \in {j \in Range(interfacelist) : j.of = i.of}}
    BY <1>1, <1>2, <2>1, LinesAsSet
  <2>3. [node |-> i.of, if |-> i] \in Range(LinesOf(i.of)) BY <2>2
  <2>4. QED BY <1>4, <2>1, <2>3
<1> HIDE DEF Alone, Rest
<1>11. Printed = {[node |-> n, if |-> NoInterface] : n \in Alone}
                 \cup {[node |-> i.of, if |-> i] : i \in Rest}
  BY <1>8, <1>9, <1>10
<1>12. QED BY <1>11 DEF Alone, Rest

\* What was there all the time was read, with all that is above it.
LEMMA InvStableIsPrinted == TreeInv => StableIsPrinted
<1> SUFFICES ASSUME TreeInv, pc = "cleanup"
             PROVE  /\ \A n \in stable :
                          (\A k \in 1..Len(n) : SubSeq(n, 1, k) \in stable)
                              => \E line \in Printed : line.node = n
                    /\ \A i \in stableIfs :
                          (i.of \in Nodes /\ \A k \in 1..Len(i.of) :
                                                SubSeq(i.of, 1, k) \in stable)
                              => [node |-> i.of, if |-> i] \in Printed
  BY DEF StableIsPrinted
<1>1. TypeOK /\ DirInv /\ PrintInv BY DEF TreeInv
<1>2. stable \subseteq Seen /\ stableIfs \subseteq Range(interfacelist)
  BY <1>1 DEF DirInv, WasRead
<1>3. Printed =
        {[node |-> n, if |-> NoInterface] : n \in
            {m \in Seen : Rooted(m) /\ (IsBus(m) \/
                \A i \in Range(interfacelist) : i.of # m)}}
        \cup {[node |-> i.of, if |-> i] : i \in
            {j \in Range(interfacelist) : j.of \in Seen /\ Rooted(j.of)}}
  BY InvPrintsWhatHangsTogether DEF PrintsWhatHangsTogether
<1>4. ASSUME NEW n \in Seen, \A k \in 1..Len(n) : SubSeq(n, 1, k) \in stable
      PROVE  \E line \in Printed : line.node = n
  <2>1. Rooted(n) BY <1>2, <1>4 DEF Rooted
  <2>2. CASE IsBus(n) \/ \A i \in Range(interfacelist) : i.of # n
    <3>1. [node |-> n, if |-> NoInterface] \in Printed BY <1>3, <2>1, <2>2
    <3>2. QED BY <3>1
  <2>3. CASE \E i \in Range(interfacelist) : i.of = n
    <3>1. PICK i \in Range(interfacelist) : i.of = n BY <2>3
    <3>2. [node |-> n, if |-> i] \in Printed BY <1>3, <2>1, <3>1
    <3>3. QED BY <3>2
  <2>4. QED BY <2>2, <2>3
<1>5. ASSUME NEW i \in Range(interfacelist), i.of \in Nodes,
             \A k \in 1..Len(i.of) : SubSeq(i.of, 1, k) \in stable
      PROVE  [node |-> i.of, if |-> i] \in Printed
  <2>1. Rooted(i.of) BY <1>2, <1>5 DEF Rooted
  <2>2. i.of \in Seq(Nat \ {0}) /\ Len(i.of) \in 1..Len(i.of) BY <1>5, NodeIs
  <2>3. SubSeq(i.of, 1, Len(i.of)) = i.of BY <2>2, WholePrefix DEF Prefix
  <2>4. i.of \in Seen BY <1>2, <1>5, <2>2, <2>3
  <2>5. QED BY <1>3, <2>1, <2>4
<1>6. QED BY <1>2, <1>4, <1>5

\* The passes over what was read do what they are for: lsusb_t() as it is.
THEOREM TreeIsBuilt == Spec => []TreeInv
<1>1. Init => TreeInv BY TreeStarts
<1>2. TreeInv /\ [Next]_vars => TreeInv' BY TreeNextKeepsInv
<1>3. QED BY <1>1, <1>2, PTL DEF Spec

\* Whatever comes and goes while the directory is read: an entry is on a list
\* of lsusb_t() at most once, an interface of a root hub, which comes up with
\* every device, too.
THEOREM TreeTypeOK == Spec => []TypeOK
<1>1. TreeInv => TypeOK BY DEF TreeInv
<1>2. QED BY <1>1, TreeIsBuilt, PTL

\* print_tree() shows every bus read, every device read all of whose hubs were
\* read, and each of their interfaces that was read, and nothing else.
THEOREM TreePrintsWhatHangsTogether == Spec => []PrintsWhatHangsTogether
<1>1. QED BY InvPrintsWhatHangsTogether, TreeIsBuilt, PTL

\* The sorts of sort_dev_siblings(), sort_dev_interfaces() and sort_busses()
\* make the lines of print_tree() ascend.
THEOREM TreeLinesAscend == Spec => []LinesAscend
<1>1. TreeInv => LinesAscend BY DEF TreeInv
<1>2. QED BY <1>1, TreeIsBuilt, PTL

\* What was in the directory all the time is shown by lsusb_t(): no change
\* elsewhere and no order of reading hides it.
THEOREM TreeStableIsPrinted == Spec => []StableIsPrinted
<1>1. QED BY InvStableIsPrinted, TreeIsBuilt, PTL

=============================================================================
