--------------------------- MODULE LsusbDumpProofs --------------------------
(***************************************************************************)
(* Proofs about LsusbDump.                                                 *)
(***************************************************************************)
EXTENDS LsusbDump, ClassDumpProofs

\* Bytes and words.
LEMMA Bytes8And16 ==
  /\ UINT8 \subseteq Nat /\ UINT16 \subseteq Nat /\ 0 \in UINT8
  /\ \A n \in UINT8 : n # 0 => n - 1 \in UINT8
  /\ \A n \in UINT8 : n <= 255
BY DEF UINT8, UINT16

LEMMA TwoBytes == \A m, n \in UINT8 : m + 256 * n \in UINT16
<1> DEFINE largest == 255 + 256 * 255
<1>1. \A m, n \in Int : 0 <= m /\ 0 <= n /\ m <= 255 /\ n <= 255
        => /\ m + 256 * n \in Int /\ 0 <= m + 256 * n
           /\ m + 256 * n <= largest
  OBVIOUS
<1>2. largest \in Int /\ UINT16 = 0 .. largest BY DEF UINT16
<1>3. \A m \in UINT8 : m \in Int /\ 0 <= m /\ m <= 255 BY DEF UINT8
<1> HIDE DEF largest
<1>4. \A k \in Int : 0 <= k /\ k <= largest => k \in UINT16 BY <1>2
<1>5. QED BY <1>1, <1>3, <1>4

\* A word of a descriptor.
LEMMA WordIs ==
  ASSUME NEW buf \in Seq(UINT8), NEW i \in Nat
  PROVE  Word(buf, i) \in UINT16
<1>1. Byte(buf, i) \in UINT8 /\ Byte(buf, i + 1) \in UINT8 BY ByteIs
<1>2. QED BY <1>1, TwoBytes DEF Word

\* dump_hid_device(): the lengths it finds are words.
LEMMA ReportLengthsAre ==
  ASSUME NEW buf \in Seq(UINT8)
  PROVE  ReportLengths(buf) \in Seq(UINT16)
<1> DEFINE N == Byte(buf, 5)
           S == Seq(UINT16)
           Takes(k, l) ==
             IF 6 + 3 * k <= Len(buf) /\ Byte(buf, 3 + 3 * k) = REPORT
             THEN Append(l, Word(buf, 4 + 3 * k)) ELSE l
           step == [a \in (1 .. N) \X S |-> Takes(a[1], a[2])]
           Solves(f) ==
             f = [i \in 0 .. N |->
                    IF i = 0 THEN <<>>
                    ELSE IF 6 + 3 * i <= Len(buf)
                              /\ Byte(buf, 3 + 3 * i) = REPORT
                         THEN Append(f[i - 1], Word(buf, 4 + 3 * i))
                         ELSE f[i - 1]]
           listed == CHOOSE f : Solves(f)
<1>1. N \in Nat BY ByteIs, Bytes8And16
<1>2. ASSUME NEW k \in 1 .. N, NEW l \in S PROVE Takes(k, l) \in S
  <2>1. 4 + 3 * k \in Nat OBVIOUS
  <2>2. Word(buf, 4 + 3 * k) \in UINT16 BY <2>1, WordIs
  <2>3. QED BY <2>2
<1>3. step \in [(1 .. N) \X S -> S] BY <1>2
<1>4. <<>> \in S OBVIOUS
<1>5. ASSUME NEW f
      PROVE  Solves(f) <=>
               f = [i \in 0 .. N |->
                      IF i = 0 THEN <<>> ELSE Takes(i, f[i - 1])]
  OBVIOUS
<1> HIDE DEF Solves
<1>6. ASSUME NEW f \in [0 .. N -> S], IsUp(f, <<>>, step, N) PROVE Solves(f)
  <2>1. \A k \in 1 .. N : f[k - 1] \in S BY <1>1
  <2>2. \A k \in 1 .. N : step[<<k, f[k - 1]>>] = Takes(k, f[k - 1])
    BY <2>1
  <2> HIDE DEF step, Takes, S, N
  <2>3. f = [i \in 0 .. N |-> IF i = 0 THEN <<>> ELSE Takes(i, f[i - 1])]
    <3>1. ASSUME NEW i \in 0 .. N
          PROVE  f[i] = IF i = 0 THEN <<>> ELSE Takes(i, f[i - 1])
      <4>1. i # 0 => i \in 1 .. N BY <1>1
      <4>2. f[0] = <<>> BY <1>6 DEF IsUp
      <4>3. \A k \in 1 .. N : f[k] = Takes(k, f[k - 1]) BY <1>6, <2>2 DEF IsUp
      <4>4. QED BY <4>1, <4>2, <4>3, Zenon
    <3>2. f = [i \in 0 .. N |-> f[i]] BY <1>6
    <3>3. QED BY <3>1, <3>2, Zenon
  <2>4. QED BY <1>5, <2>3
<1>7. \E f : Solves(f)
  <2> HIDE DEF step, S
  <2>1. QED BY <1>1, <1>3, <1>4, <1>6, UpExists
<1>8. Solves(listed) BY <1>7
<1> HIDE DEF listed
<1>9. listed[N] \in S
  <2>1. listed = [i \in 0 .. N |->
                    IF i = 0 THEN <<>> ELSE Takes(i, listed[i - 1])]
    BY <1>5, <1>8
  <2>2. ASSUME NEW n \in 0 .. N, listed[n] \in S, n < N
        PROVE  listed[n + 1] \in S
    <3>1. n + 1 \in 1 .. N /\ (n + 1) - 1 = n BY <2>2, <1>1
    <3> HIDE DEF S, Takes
    <3>2. Takes(n + 1, listed[n]) \in S BY <1>2, <2>2, <3>1
    <3>3. QED BY <2>1, <3>1, <3>2
  <2> DEFINE H == {n \in 0 .. N : listed[n] \in S}
  <2>3. 0 \in H BY <1>1, <1>4, <2>1
  <2>4. ASSUME NEW n \in 0 .. N, n \in H, n < N PROVE n + 1 \in H
    <3>1. n + 1 \in 0 .. N BY <2>4, <1>1
    <3>2. QED BY <2>2, <2>4, <3>1
  <2>5. H \in SUBSET (0 .. N) OBVIOUS
  <2> HIDE DEF H
  <2>6. H = 0 .. N BY <1>1, <2>3, <2>4, <2>5, Upwards
  <2>7. QED BY <1>1, <2>6 DEF H
<1>10. ReportLengths(buf) = IF Len(buf) < 6 THEN <<>> ELSE listed[N]
  BY DEF ReportLengths, listed, Solves
<1>11. QED BY <1>9, <1>10

\* The search of find_otg() from an offset on, as a recursion downwards.
OtgAt(buf, k) == buf[k + 1] = 3 /\ buf[k + 2] = OTG

OtgGoesOn(buf, k) == 2 <= buf[k + 1] /\ buf[k + 1] <= Len(buf) - k

IsSearch(at, buf) ==
  at = [i \in 0 .. Len(buf) |->
          /\ Len(buf) - i >= 3
          /\ \/ OtgAt(buf, i)
             \/ OtgGoesOn(buf, i) /\ at[i + buf[i + 1]]]

\* What the search finds at an offset.
LEMMA SearchAt ==
  ASSUME NEW buf, NEW at, IsSearch(at, buf), NEW i \in 0 .. Len(buf)
  PROVE  at[i] = /\ Len(buf) - i >= 3
                 /\ \/ OtgAt(buf, i)
                    \/ OtgGoesOn(buf, i) /\ at[i + buf[i + 1]]
BY DEF IsSearch

\* find_otg() is such a search.
LEMMA FindOtgIs ==
  ASSUME NEW buf \in Seq(UINT8)
  PROVE  \E at : /\ find_otg(buf) = at[0] /\ IsSearch(at, buf)
                 /\ at \in [0 .. Len(buf) -> BOOLEAN]
<1> DEFINE N == Len(buf)
           ends == [k \in 0 .. N |->
                      ~ (N - k >= 3 /\ ~ OtgAt(buf, k) /\ OtgGoesOn(buf, k))]
           base == [k \in 0 .. N |-> N - k >= 3 /\ OtgAt(buf, k)]
           next == [k \in 0 .. N |-> k + buf[k + 1]]
           Solves(f) ==
             f = [k \in 0 .. N |-> IF ends[k] THEN base[k] ELSE f[next[k]]]
<1>1. N \in Nat OBVIOUS
<1>2. GoesOn(ends, next, N)
  <2>1. ASSUME NEW k \in 0 .. N, ~ ends[k]
        PROVE  next[k] \in 0 .. N /\ next[k] > k
    <3>1. N - k >= 3 /\ 2 <= buf[k + 1] /\ buf[k + 1] <= N - k
      BY <2>1 DEF OtgGoesOn
    <3>2. k + 1 \in 1 .. Len(buf) BY <3>1
    <3>3. buf[k + 1] \in Nat BY <3>2, ElementOfSeq, Bytes8And16
    <3>4. QED BY <3>1, <3>3
  <2> HIDE DEF ends, next
  <2>2. QED BY <2>1 DEF GoesOn
<1>3. PICK f : Solves(f)
  <2> HIDE DEF N, ends, base, next
  <2>1. \E f : Solves(f) BY <1>1, <1>2, DownExists, SMTT(30)
  <2>2. QED BY <2>1, Zenon
<1>4. \A k \in 0 .. N : f[k] \in BOOLEAN
  <2>1. \A k \in 0 .. N : ends[k] => base[k] \in BOOLEAN OBVIOUS
  <2>2. IsDown(f, ends, base, next, N)
    <3> HIDE DEF ends, base, next, N
    <3>1. QED BY <1>3 DEF IsDown
  <2> HIDE DEF ends, base, next, N
  <2>3. QED BY <1>1, <1>2, <2>1, <2>2, DownIs
<1>5. ASSUME NEW k \in 0 .. N
      PROVE  f[k] = /\ Len(buf) - k >= 3
                    /\ \/ OtgAt(buf, k)
                       \/ OtgGoesOn(buf, k) /\ f[k + buf[k + 1]]
  <2>1. f[k] = IF ends[k] THEN base[k] ELSE f[next[k]] BY <1>3
  <2>2. CASE ends[k] BY <2>1, <2>2
  <2>3. CASE ~ ends[k]
    <3>1. next[k] \in 0 .. N BY <1>2, <2>3 DEF GoesOn
    <3>2. f[k + buf[k + 1]] \in BOOLEAN BY <1>4, <3>1
    <3>3. QED BY <2>1, <2>3, <3>2
  <2>4. QED BY <2>2, <2>3
<1>6. IsSearch(f, buf)
  <2>1. f = [k \in 0 .. N |-> f[k]] BY <1>3
  <2> HIDE DEF Solves, ends, base, next
  <2>2. QED BY <1>5, <2>1 DEF IsSearch
<1> HIDE DEF Solves
<1> DEFINE at == CHOOSE g : IsSearch(g, buf)
<1>7. IsSearch(at, buf) BY <1>6
<1>8. find_otg(buf) = at[0] BY DEF find_otg, IsSearch, OtgAt, OtgGoesOn
<1> HIDE DEF at
<1>9. at \in [0 .. Len(buf) -> BOOLEAN] BY <1>7 DEF IsSearch
<1>10. QED BY <1>7, <1>8, <1>9

\* A descriptor that is an OTG descriptor of three bytes is found, and what is
\* found behind a descriptor is found.
LEMMA FoundFirst ==
  ASSUME NEW buf \in Seq(UINT8), Len(buf) >= 3, buf[1] = 3, buf[2] = OTG
  PROVE  find_otg(buf)
<1>1. PICK at : find_otg(buf) = at[0] /\ IsSearch(at, buf)
  BY FindOtgIs
<1>2. 0 \in 0 .. Len(buf) OBVIOUS
<1>3. QED BY <1>1, <1>2 DEF IsSearch, OtgAt

LEMMA FoundBehind ==
  ASSUME NEW buf \in Seq(UINT8), Len(buf) >= 2,
         2 <= buf[1], buf[1] <= Len(buf),
         find_otg(SubSeq(buf, buf[1] + 1, Len(buf)))
  PROVE  find_otg(buf)
<1> DEFINE d == buf[1]
           rest == SubSeq(buf, d + 1, Len(buf))
           N == Len(rest)
<1>1. d \in Nat
  <2>1. 1 \in 1 .. Len(buf) OBVIOUS
  <2>2. QED BY <2>1, ElementOfSeq, Bytes8And16
<1>2. /\ rest \in Seq(UINT8) /\ N = Len(buf) - d /\ N \in Nat
      /\ \A i \in 1 .. N : rest[i] = buf[i + d]
  BY <1>1
<1>3. PICK a : find_otg(buf) = a[0] /\ IsSearch(a, buf)
               /\ a \in [0 .. Len(buf) -> BOOLEAN]
  BY FindOtgIs
<1>4. PICK b : find_otg(rest) = b[0] /\ IsSearch(b, rest)
               /\ b \in [0 .. N -> BOOLEAN]
  BY <1>2, FindOtgIs
<1> DEFINE H == {k \in 0 .. N : b[k] = a[k + d]}
<1> HIDE DEF rest, N
<1>5. ASSUME NEW k \in 0 .. N, \A j \in k + 1 .. N : j \in H PROVE k \in H
  <2>1. /\ b[k] = /\ N - k >= 3
                  /\ \/ OtgAt(rest, k)
                     \/ OtgGoesOn(rest, k) /\ b[k + rest[k + 1]]
        /\ a[k + d] = /\ Len(buf) - (k + d) >= 3
                      /\ \/ OtgAt(buf, k + d)
                         \/ OtgGoesOn(buf, k + d)
                            /\ a[k + d + buf[k + d + 1]]
    <3>1. k + d \in 0 .. Len(buf) BY <1>1, <1>2
    <3>2. k \in 0 .. Len(rest) BY DEF N
    <3>3. QED BY <1>3, <1>4, <3>1, <3>2, SearchAt DEF N
  <2>2. N - k = Len(buf) - (k + d) BY <1>1, <1>2
  <2>3. CASE N - k >= 3
    <3>1. k + 1 \in 1 .. N /\ k + 2 \in 1 .. N BY <1>2, <2>3
    <3>2. rest[k + 1] = buf[k + d + 1] /\ rest[k + 2] = buf[k + d + 2]
      <4>1. rest[k + 1] = buf[(k + 1) + d] /\ rest[k + 2] = buf[(k + 2) + d]
        BY <1>2, <3>1, Zenon
      <4>2. (k + 1) + d = k + d + 1 /\ (k + 2) + d = k + d + 2 BY <1>1, <3>1
      <4>3. QED BY <4>1, <4>2, Zenon
    <3>3. OtgAt(rest, k) <=> OtgAt(buf, k + d) BY <3>2 DEF OtgAt
    <3>4. OtgGoesOn(rest, k) <=> OtgGoesOn(buf, k + d)
      BY <2>2, <3>2 DEF OtgGoesOn, N
    <3>5. OtgGoesOn(rest, k) => b[k + rest[k + 1]] = a[k + d + buf[k + d + 1]]
      <4>1. HAVE OtgGoesOn(rest, k)
      <4>2. 2 <= rest[k + 1] /\ rest[k + 1] <= N - k BY <4>1 DEF OtgGoesOn, N
      <4>3. rest[k + 1] \in Nat BY <1>2, <3>1, ElementOfSeq, Bytes8And16 DEF N
      <4>4. k + rest[k + 1] \in k + 1 .. N BY <1>2, <4>2, <4>3
      <4>5. k + rest[k + 1] + d = k + d + buf[k + d + 1]
        BY <1>1, <3>2, <4>3
      <4>6. QED BY <1>5, <4>4, <4>5
    <3>6. QED BY <2>1, <2>2, <3>3, <3>4, <3>5
  <2>4. CASE ~ (N - k >= 3) BY <2>1, <2>2, <2>4
  <2>5. QED BY <2>3, <2>4
<1>6. H = 0 .. N
  <2>1. H \in SUBSET (0 .. N) OBVIOUS
  <2> HIDE DEF H
  <2>2. QED BY <1>2, <1>5, <2>1, Downwards
<1>7. b[0] = a[d]
  <2>1. 0 \in 0 .. N /\ 0 + d = d BY <1>1, <1>2
  <2>2. 0 \in H BY <1>6, <2>1, Zenon
  <2>3. b[0] = a[0 + d] BY <2>2, Zenon DEF H
  <2>4. QED BY <2>1, <2>3, Zenon
<1>8. a[d] BY <1>4, <1>7 DEF rest
<1>9. Len(buf) - d >= 3
  <2>1. d \in 0 .. Len(buf) BY <1>1
  <2>2. QED BY <1>3, <1>8, <2>1 DEF IsSearch
<1>10. a[0]
  <2>1. 0 \in 0 .. Len(buf) OBVIOUS
  <2>2. a[0] = /\ Len(buf) - 0 >= 3
               /\ \/ OtgAt(buf, 0)
                  \/ OtgGoesOn(buf, 0) /\ a[0 + buf[0 + 1]]
    BY <1>3, <2>1 DEF IsSearch
  <2>3. OtgGoesOn(buf, 0) /\ 0 + buf[0 + 1] = d BY <1>1, <1>9 DEF OtgGoesOn
  <2>4. QED BY <1>1, <1>8, <1>9, <2>2, <2>3
<1>11. QED BY <1>3, <1>10

\* What is walked: places of a configuration, or capabilities.
AnyWalk ==
  [of : {"config", "interface", "endpoint", "bos"},
   alt : [class : UINT8, subclass : UINT8, protocol : UINT8],
   attributes : UINT8,
   extra : Seq(UINT8)]

OfConfig == {"walk", "report", "fetch"}
OfBos == {"bos_rest", "caps"}
OfOpen ==
  {"bos", "bos_rest", "caps", "hub", "ports", "dualspeed", "debug", "status",
   "close"}

Dumps ==
  [of : {"none", "config", "interface", "endpoint", "bos", "report", "hub"},
   alt : [class : UINT8, subclass : UINT8, protocol : UINT8],
   attributes : UINT8, avail : Nat, buf : Seq(UINT8)]

\* The variables have values of their types.
Typed ==
  /\ pc \in Locations
  /\ dev \in Devices \cup {NoDevice}
  /\ udev \in BOOLEAN /\ otg \in BOOLEAN /\ has_ssp \in BOOLEAN
  /\ index \in Nat /\ held \in BOOLEAN /\ claimed \in BOOLEAN
  /\ config \in Seq(Places) /\ walks \in Seq(AnyWalk)
  /\ reports \in Seq(UINT16) /\ retries \in 0 .. MaxTries
  /\ answer \in -1 .. MaxReport /\ ports \in UINT8

\* A device is dumped; its configurations are gone through one by one.
DeviceInv ==
  /\ dev = NoDevice <=> pc = "idle"
  /\ pc = "otg" => Len(Configs[dev]) > 0
  /\ pc = "config" => index <= Len(Configs[dev])
  /\ pc \in OfConfig => index < Len(Configs[dev])
  /\ pc \notin OfConfig \cup {"config"} => index = 0
  /\ config # NoConfig => /\ index = 0 /\ Len(Configs[dev]) > 0
                          /\ pc \in OfConfig \cup {"config"}

\* What is walked is what is read: a configuration or the BOS.
WalksInv ==
  /\ walks # <<>> => pc \in OfConfig \cup OfBos
  /\ pc = "bos_rest" => Len(walks) = 1
  /\ \A k \in DOMAIN walks : walks[k].of = "bos" <=> pc \in OfBos

\* What is held, and until when it is.
HeldInv ==
  /\ claimed <=> pc = "fetch"
  /\ held <=> pc \in OfConfig \cup OfBos
  /\ pc \in OfOpen \cup {"report", "fetch"} => udev
  /\ udev => pc \notin {"idle", "open"}
  /\ has_ssp => pc \in OfOpen \ {"bos", "bos_rest"}
  /\ otg => pc \notin {"idle", "open", "otg"}

\* The report descriptors are fetched one by one, each at most MaxReport long.
ReportsInv ==
  /\ reports # <<>> => pc \in {"report", "fetch"}
  /\ pc = "fetch" => reports # <<>> /\ Head(reports) <= MaxReport
  /\ pc = "fetch" => answer <= Head(reports)
  /\ pc # "fetch" => retries = 0 /\ answer = 0
  /\ ports # 0 => pc = "ports"

\* The descriptor that was dumped.
LastInv ==
  /\ last \in Dumps
  /\ last.of = "none" => last.buf = <<>>
  /\ last.of \in {"config", "interface", "endpoint", "bos"} =>
       /\ Len(last.buf) = last.buf[1] /\ Len(last.buf) <= last.avail
       /\ Len(last.buf) >= IF last.of = "bos" THEN 3 ELSE 2
       /\ pc \in IF last.of = "bos" THEN {"caps"} ELSE OfConfig
       /\ walks # <<>>
  /\ last.of = "report" => Len(last.buf) = last.avail /\ last.avail > 0
  /\ last.of = "hub" => /\ Len(last.buf) = HubBuffer
                        /\ last.avail = HubBuffer
                        /\ pc = "ports"

\* do_otg() has seen what is left of configuration 0, and what was shown.
OtgInv ==
  /\ config # NoConfig /\ pc = "config" => otg = do_otg(config)
  /\ config # NoConfig /\ pc \in OfConfig =>
       /\ \A k \in DOMAIN walks : find_otg(walks[k].extra) => otg
       /\ /\ last.of \in {"config", "interface", "endpoint"}
          /\ Len(last.buf) = 3 /\ last.buf[2] = OTG
          => otg

DumpInv ==
  Typed /\ DeviceInv /\ WalksInv /\ HeldInv /\ ReportsInv /\ LastInv /\ OtgInv

\* Facts about sequences and the values the steps assign.
LEMMA JustOne ==
  ASSUME NEW S, NEW w \in S
  PROVE  /\ <<w>> \in Seq(S) /\ Len(<<w>>) = 1
         /\ \A k \in DOMAIN <<w>> : <<w>>[k] = w
OBVIOUS

LEMMA FirstReplaced ==
  ASSUME NEW S, NEW s \in Seq(S), s # <<>>, NEW w \in S,
         NEW t, t = [s EXCEPT ![1] = w]
  PROVE  /\ t \in Seq(S) /\ Len(t) = Len(s) /\ t # <<>> /\ t[1] = w
         /\ DOMAIN t = DOMAIN s
         /\ \A k \in DOMAIN s : k # 1 => t[k] = s[k]
<1>1. 1 \in 1 .. Len(s) OBVIOUS
<1>2. t \in Seq(S) /\ Len(t) = Len(s) BY <1>1, ExceptSeq
<1>3. QED BY <1>1, <1>2

LEMMA Zeros == 0 \in -1 .. MaxReport /\ 0 \in 0 .. MaxTries
BY BoundsAssumption

LEMMA AfterConfigsIs ==
  ASSUME NEW open \in BOOLEAN, NEW d
  PROVE  /\ AfterConfigs(open, d) \in {"idle", "bos", "hub"}
         /\ AfterConfigs(open, d) = "idle" <=> ~ open
BY DEF AfterConfigs

LEMMA NoDumpIs ==
  NoDump \in Dumps /\ NoDump.of = "none" /\ NoDump.buf = <<>>
BY Bytes8And16 DEF NoDump, NoAlt, Dumps

\* The dump of a report or a hub descriptor.
LEMMA NewDumpIs ==
  ASSUME NEW n \in Nat, NEW b \in Seq(UINT8), NEW of \in {"report", "hub"},
         last' = [NoDump EXCEPT !.of = of, !.avail = n, !.buf = b]
  PROVE  last' \in Dumps /\ last'.of = of /\ last'.avail = n /\ last'.buf = b
BY Bytes8And16 DEF NoDump, NoAlt, Dumps

LEMMA OneOf ==
  ASSUME NEW S, NEW c \in Seq(SUBSET S), NEW k \in 1 .. Len(c)
  PROVE  c[k] \subseteq S
BY ElementOfSeq

\* The device being dumped is one of those there are.
LEMMA AtDevice ==
  ASSUME DumpInv, pc # "idle"
  PROVE  /\ dev \in Devices /\ Configs[dev] \in Seq(SUBSET Seq(Places))
         /\ Descriptor[dev] \in [bcdUSB : UINT16, class : UINT8,
                                 protocol : UINT8]
BY AnswersAssumption DEF DumpInv, Typed, DeviceInv

\* A configuration is walked place by place.
LEMMA PlacesAreWalks ==
  ASSUME NEW c \in Seq(Places)
  PROVE  c \in Seq(AnyWalk) /\ \A k \in DOMAIN c : c[k].of # "bos"
<1>1. Places \subseteq AnyWalk BY DEF Places, AnyWalk
<1>2. c \in Seq(AnyWalk) BY <1>1, SeqMonotonic
<1>3. \A k \in DOMAIN c : c[k] \in Places BY ElementOfSeq
<1>4. QED BY <1>2, <1>3 DEF Places

LEMMA AfterHubIs == \A d : AfterHub(d) \in {"dualspeed", "debug"}
BY DEF AfterHub

\* Every step keeps the invariant, each part of it.
LEMMA OpenKeepsInv == ASSUME DumpInv, Open PROVE DumpInv'
<1> USE AfterConfigsIs
<1> USE DEF Open, DumpInv, device, found, configuration, report
<1>1. Typed' BY DEF Typed, Locations
<1>2. DeviceInv' BY DEF Typed, DeviceInv, OfConfig
<1>3. WalksInv' BY DEF Typed, WalksInv, OfConfig, OfBos
<1>4. HeldInv' BY DEF Typed, HeldInv, OfConfig, OfBos, OfOpen
<1>5. ReportsInv' BY DEF Typed, ReportsInv
<1>6. LastInv' BY DEF Typed, LastInv, WalksInv, OfConfig, OfBos
<1>7. OtgInv'
  BY DEF Typed, OtgInv, LastInv, WalksInv, DeviceInv, OfConfig, OfBos
<1>8. QED BY <1>1, <1>2, <1>3, <1>4, <1>5, <1>6, <1>7

LEMMA ReadForOtgKeepsInv == ASSUME DumpInv, ReadForOtg PROVE DumpInv'
<1>1. /\ dev \in Devices /\ Configs[dev] \in Seq(SUBSET Seq(Places))
      /\ Descriptor[dev] \in [bcdUSB : UINT16, class : UINT8, protocol : UINT8]
  BY AtDevice DEF ReadForOtg
<1>2. Configs[dev][1] \subseteq Seq(Places)
  <2>1. 1 \in 1 .. Len(Configs[dev])
    BY <1>1, LenProperties DEF ReadForOtg, DumpInv, DeviceInv
  <2>2. QED BY <1>1, <2>1, OneOf
<1> USE DEF ReadForOtg, DumpInv, device, found, configuration, report
<1>3. Typed'
  <2>1. config' \in Seq(Places) /\ otg' \in BOOLEAN
    BY <1>2 DEF Typed, do_otg
  <2>2. pc' \in Locations BY DEF Locations
  <2>3. QED BY <2>1, <2>2 DEF Typed
<1>4. DeviceInv' BY DEF Typed, DeviceInv, OfConfig
<1>5. WalksInv' BY DEF Typed, WalksInv, OfConfig, OfBos
<1>6. HeldInv' BY DEF Typed, HeldInv, OfConfig, OfBos, OfOpen
<1>7. ReportsInv' BY DEF Typed, ReportsInv
<1>8. LastInv' BY DEF Typed, LastInv, WalksInv, OfConfig, OfBos
<1>9. OtgInv'
  BY DEF Typed, OtgInv, LastInv, WalksInv, DeviceInv, OfConfig, OfBos
<1>10. QED BY <1>3, <1>4, <1>5, <1>6, <1>7, <1>8, <1>9

LEMMA ReadConfigKeepsInv == ASSUME DumpInv, ReadConfig PROVE DumpInv'
<1>1. /\ dev \in Devices /\ Configs[dev] \in Seq(SUBSET Seq(Places))
      /\ Descriptor[dev] \in [bcdUSB : UINT16, class : UINT8, protocol : UINT8]
  BY AtDevice DEF ReadConfig
<1>2. Configs[dev][index + 1] \subseteq Seq(Places)
  <2>1. index + 1 \in 1 .. Len(Configs[dev])
    BY <1>1, LenProperties DEF ReadConfig, DumpInv, Typed
  <2>2. QED BY <1>1, <2>1, OneOf
<1> USE DEF ReadConfig, DumpInv, device, found, configuration, report
<1>3. Typed'
  <2>1. walks' \in Seq(AnyWalk) BY <1>2, PlacesAreWalks DEF Typed
  <2>2. config' \in Seq(Places) BY EmptySeq DEF Typed, NoConfig
  <2>3. pc' \in Locations /\ index' \in Nat BY DEF Typed, Locations
  <2>4. held' \in BOOLEAN BY DEF Typed
  <2>5. UNCHANGED <<dev, udev, otg, has_ssp, reports, claimed, retries,
                    answer, ports>>
    OBVIOUS
  <2>6. QED BY <2>1, <2>2, <2>3, <2>4, <2>5, Zenon DEF Typed
<1>4. DeviceInv' BY DEF Typed, DeviceInv, OfConfig
<1>5. WalksInv' BY <1>2, PlacesAreWalks DEF Typed, WalksInv, OfConfig, OfBos
<1>6. HeldInv' BY DEF Typed, HeldInv, OfConfig, OfBos, OfOpen
<1>7. ReportsInv' BY DEF Typed, ReportsInv
<1>8. LastInv'
  BY <1>2, PlacesAreWalks DEF Typed, LastInv, WalksInv, OfConfig, OfBos
<1>9. OtgInv'
  BY <1>2
  DEF Typed, OtgInv, WalksInv, LastInv, DeviceInv, do_otg, OfConfig, OfBos
<1>10. QED BY <1>3, <1>4, <1>5, <1>6, <1>7, <1>8, <1>9

LEMMA ConfigsDoneKeepsInv == ASSUME DumpInv, ConfigsDone PROVE DumpInv'
<1> USE AfterConfigsIs
<1>1. /\ dev \in Devices /\ Configs[dev] \in Seq(SUBSET Seq(Places))
      /\ Descriptor[dev] \in [bcdUSB : UINT16, class : UINT8, protocol : UINT8]
  BY AtDevice DEF ConfigsDone
<1> USE DEF ConfigsDone, DumpInv, device, found, configuration, report
<1>2. Typed' BY DEF Typed, Locations
<1>3. DeviceInv' BY DEF Typed, DeviceInv, OfConfig
<1>4. WalksInv' BY DEF Typed, WalksInv, OfConfig, OfBos
<1>5. HeldInv' BY DEF Typed, HeldInv, OfConfig, OfBos, OfOpen
<1>6. ReportsInv' BY DEF Typed, ReportsInv
<1>7. LastInv' BY DEF Typed, LastInv, WalksInv, OfConfig, OfBos
<1>8. OtgInv'
  BY DEF Typed, OtgInv, LastInv, WalksInv, DeviceInv, OfConfig, OfBos
<1>9. QED BY <1>2, <1>3, <1>4, <1>5, <1>6, <1>7, <1>8

LEMMA WalkDoneKeepsInv == ASSUME DumpInv, WalkDone PROVE DumpInv'
<1> USE DEF WalkDone, DumpInv, Walking, device, found, configuration, report
<1>1. Typed' BY DEF Typed, Locations
<1>2. DeviceInv' BY DEF Typed, DeviceInv, OfConfig
<1>3. WalksInv' BY DEF Typed, WalksInv, OfConfig, OfBos
<1>4. HeldInv' BY DEF Typed, HeldInv, OfConfig, OfBos, OfOpen
<1>5. ReportsInv' BY DEF Typed, ReportsInv
<1>6. LastInv' BY NoDumpIs DEF Typed, LastInv, WalksInv, OfConfig, OfBos
<1>7. OtgInv'
  BY NoDumpIs DEF Typed, OtgInv, LastInv, WalksInv, DeviceInv, OfConfig, OfBos
<1>8. QED BY <1>1, <1>2, <1>3, <1>4, <1>5, <1>6, <1>7

LEMMA ConfigDumpedKeepsInv == ASSUME DumpInv, ConfigDumped PROVE DumpInv'
<1> USE DEF ConfigDumped, DumpInv, device, found, configuration, report
<1>1. Typed'
  <2>1. config' \in Seq(Places) BY EmptySeq DEF NoConfig
  <2>2. pc' \in Locations BY DEF Locations
  <2>3. index' \in Nat BY DEF Typed
  <2>4. held' \in BOOLEAN OBVIOUS
  <2>5. UNCHANGED <<dev, udev, otg, has_ssp, walks, reports, claimed, retries,
                    answer, ports>>
    OBVIOUS
  <2>6. QED BY <2>1, <2>2, <2>3, <2>4, <2>5, Zenon DEF Typed
<1>2. DeviceInv' BY EmptySeq DEF Typed, DeviceInv, OfConfig
<1>3. WalksInv' BY DEF Typed, WalksInv, OfConfig, OfBos
<1>4. HeldInv' BY DEF Typed, HeldInv, OfConfig, OfBos, OfOpen
<1>5. ReportsInv' BY DEF Typed, ReportsInv
<1>6. LastInv' BY DEF Typed, LastInv, WalksInv, OfConfig, OfBos
<1>7. OtgInv'
  BY DEF Typed, OtgInv, LastInv, WalksInv, DeviceInv, OfConfig, OfBos
<1>8. QED BY <1>1, <1>2, <1>3, <1>4, <1>5, <1>6, <1>7

LEMMA SkipReportKeepsInv == ASSUME DumpInv, SkipReport PROVE DumpInv'
<1> USE DEF SkipReport, DumpInv, device, found, configuration, report
<1>1. Typed' BY DEF Typed, Locations
<1>2. DeviceInv' BY DEF Typed, DeviceInv, OfConfig
<1>3. WalksInv' BY DEF Typed, WalksInv, OfConfig, OfBos
<1>4. HeldInv' BY DEF Typed, HeldInv, OfConfig, OfBos, OfOpen
<1>5. ReportsInv' BY DEF Typed, ReportsInv
<1>6. LastInv' BY NoDumpIs DEF Typed, LastInv, WalksInv, OfConfig, OfBos
<1>7. OtgInv'
  BY NoDumpIs DEF Typed, OtgInv, LastInv, WalksInv, DeviceInv, OfConfig, OfBos
<1>8. QED BY <1>1, <1>2, <1>3, <1>4, <1>5, <1>6, <1>7

LEMMA ClaimInterfaceKeepsInv == ASSUME DumpInv, ClaimInterface PROVE DumpInv'
<1> USE DEF ClaimInterface, DumpInv, device, found, configuration, report
<1>1. Typed' BY BoundsAssumption DEF Typed, Locations
<1>2. DeviceInv' BY DEF Typed, DeviceInv, OfConfig
<1>3. WalksInv' BY DEF Typed, WalksInv, OfConfig, OfBos
<1>4. HeldInv' BY DEF Typed, HeldInv, OfConfig, OfBos, OfOpen
<1>5. ReportsInv'
  <2>1. Head(reports) \in Nat BY Bytes8And16, HeadTailProperties DEF Typed
  <2>2. QED BY <2>1 DEF ReportsInv
<1>6. LastInv' BY NoDumpIs DEF Typed, LastInv, WalksInv, OfConfig, OfBos
<1>7. OtgInv'
  BY NoDumpIs DEF Typed, OtgInv, LastInv, WalksInv, DeviceInv, OfConfig, OfBos
<1>8. QED BY <1>1, <1>2, <1>3, <1>4, <1>5, <1>6, <1>7

LEMMA FetchKeepsInv == ASSUME DumpInv, Fetch PROVE DumpInv'
<1> USE DEF Fetch, DumpInv, Incomplete, device, found, configuration, report
<1>1. Typed'
  <2>1. Head(reports) \in Nat /\ Head(reports) <= MaxReport
    BY Bytes8And16, HeadTailProperties DEF Typed, ReportsInv
  <2>2. answer' \in -1 .. MaxReport BY <2>1, BoundsAssumption
  <2>3. retries' \in 0 .. MaxTries BY BoundsAssumption DEF Typed
  <2>4. QED BY <2>2, <2>3 DEF Typed
<1>2. DeviceInv' BY DEF Typed, DeviceInv, OfConfig
<1>3. WalksInv' BY DEF Typed, WalksInv, OfConfig, OfBos
<1>4. HeldInv' BY DEF Typed, HeldInv, OfConfig, OfBos, OfOpen
<1>5. ReportsInv'
  <2>1. Head(reports) \in Nat
    BY Bytes8And16, HeadTailProperties DEF Typed, ReportsInv
  <2>2. answer' <= Head(reports') BY <2>1
  <2>3. QED BY <2>2 DEF ReportsInv
<1>6. LastInv' BY DEF Typed, LastInv, WalksInv, OfConfig, OfBos
<1>7. OtgInv'
  BY DEF Typed, OtgInv, LastInv, WalksInv, DeviceInv, OfConfig, OfBos
<1>8. QED BY <1>1, <1>2, <1>3, <1>4, <1>5, <1>6, <1>7

LEMMA FetchDoneKeepsInv == ASSUME DumpInv, FetchDone PROVE DumpInv'
<1>1. last' \in Dumps /\ last'.of \in {"none", "report"}
      /\ (last'.of = "none" => last'.buf = <<>>)
      /\ (last'.of = "report" => Len(last'.buf) = last'.avail
                                 /\ last'.avail > 0)
  <2>1. CASE answer > 0
    <3>1. answer \in 1 .. MaxReport
      BY <2>1, BoundsAssumption DEF DumpInv, Typed
    <3>2. PICK b \in Reports(answer) :
            last' = [NoDump EXCEPT !.of = "report", !.avail = answer, !.buf = b]
      BY <2>1 DEF FetchDone
    <3>3. b \in [1 .. answer -> UINT8] BY <3>1, <3>2, AnswersAssumption
    <3>4. b \in Seq(UINT8) /\ Len(b) = answer BY <3>1, <3>3
    <3>5. answer \in Nat BY <3>1, BoundsAssumption
    <3>6. last' \in Dumps /\ last'.of = "report" /\ last'.avail = answer
          /\ last'.buf = b
      BY <3>2, <3>4, <3>5, NewDumpIs
    <3>7. QED BY <3>1, <3>4, <3>5, <3>6
  <2>2. CASE ~ (answer > 0) BY <2>2, NoDumpIs DEF FetchDone
  <2>3. QED BY <2>1, <2>2
<1> USE DEF FetchDone, DumpInv, Incomplete, device, found, configuration,
            report
<1>2. Typed'
  <2>1. reports' \in Seq(UINT16) BY HeadTailProperties DEF Typed, ReportsInv
  <2>2. answer' \in -1 .. MaxReport /\ retries' \in 0 .. MaxTries
    <3>1. answer' = 0 /\ retries' = 0 OBVIOUS
    <3>2. QED BY <3>1, Zeros
  <2>3. pc' \in Locations BY DEF Locations
  <2>4. claimed' \in BOOLEAN OBVIOUS
  <2>5. QED BY <2>1, <2>2, <2>3, <2>4 DEF Typed
<1>3. DeviceInv' BY DEF Typed, DeviceInv, OfConfig
<1>4. WalksInv' BY DEF Typed, WalksInv, OfConfig, OfBos
<1>5. HeldInv' BY DEF Typed, HeldInv, OfConfig, OfBos, OfOpen
<1>6. ReportsInv' BY DEF Typed, ReportsInv
<1>7. LastInv' BY <1>1 DEF Typed, LastInv, WalksInv, OfConfig, OfBos
<1>8. OtgInv'
  BY <1>1 DEF Typed, OtgInv, LastInv, WalksInv, DeviceInv, OfConfig, OfBos
<1>9. QED BY <1>2, <1>3, <1>4, <1>5, <1>6, <1>7, <1>8

LEMMA ReportsDoneKeepsInv == ASSUME DumpInv, ReportsDone PROVE DumpInv'
<1> USE DEF ReportsDone, DumpInv, device, found, configuration, report
<1>1. Typed' BY DEF Typed, Locations
<1>2. DeviceInv' BY DEF Typed, DeviceInv, OfConfig
<1>3. WalksInv' BY DEF Typed, WalksInv, OfConfig, OfBos
<1>4. HeldInv' BY DEF Typed, HeldInv, OfConfig, OfBos, OfOpen
<1>5. ReportsInv' BY DEF Typed, ReportsInv
<1>6. LastInv' BY NoDumpIs DEF Typed, LastInv, WalksInv, OfConfig, OfBos
<1>7. OtgInv'
  BY NoDumpIs DEF Typed, OtgInv, LastInv, WalksInv, DeviceInv, OfConfig, OfBos
<1>8. QED BY <1>1, <1>2, <1>3, <1>4, <1>5, <1>6, <1>7

LEMMA ReadBosHeaderKeepsInv == ASSUME DumpInv, ReadBosHeader PROVE DumpInv'
<1>1. /\ walks' \in Seq(AnyWalk)
      /\ \A k \in DOMAIN walks' : walks'[k].of = "bos"
      /\ walks' # <<>> => pc' = "bos_rest"
      /\ pc' = "bos_rest" => Len(walks') = 1
  <2>1. walks = <<>> BY DEF ReadBosHeader, DumpInv, WalksInv, OfConfig, OfBos
  <2>2. PICK h \in BosHeaders :
          \/ pc' = "hub" /\ walks' = walks
          \/ /\ h.total > 5 /\ pc' = "bos_rest"
             /\ walks' = <<[of |-> "bos", alt |-> NoAlt, attributes |-> 0,
                            extra |-> [i \in 1 .. h.total - 5 |-> 0]]>>
    <3>1. \A h \in BosHeaders : h.total \in Nat
      BY AnswersAssumption, Bytes8And16
    <3>2. QED BY <3>1 DEF ReadBosHeader
  <2>3. CASE h.total > 5
    <3>1. h.total \in Nat BY AnswersAssumption, Bytes8And16
    <3>2. [i \in 1 .. h.total - 5 |-> 0] \in Seq(UINT8)
      <4>1. h.total - 5 \in Nat BY <3>1, <2>3
      <4>2. QED BY <4>1, Bytes8And16
    <3>3. NoAlt \in [class : UINT8, subclass : UINT8, protocol : UINT8]
      BY Bytes8And16 DEF NoAlt
    <3> DEFINE w == [of |-> "bos", alt |-> NoAlt, attributes |-> 0,
                     extra |-> [i \in 1 .. h.total - 5 |-> 0]]
    <3>4. w \in AnyWalk /\ w.of = "bos"
      BY <3>2, <3>3, Bytes8And16 DEF AnyWalk
    <3>5. \/ pc' = "hub" /\ walks' = <<>>
          \/ pc' = "bos_rest" /\ walks' = <<w>>
      BY <2>1, <2>2
    <3> HIDE DEF w
    <3>6. /\ <<w>> \in Seq(AnyWalk) /\ Len(<<w>>) = 1
          /\ \A k \in DOMAIN <<w>> : <<w>>[k] = w
      BY <3>4, JustOne
    <3>7. CASE pc' = "hub" /\ walks' = <<>> BY <3>7
    <3>8. CASE pc' = "bos_rest" /\ walks' = <<w>> BY <3>4, <3>6, <3>8
    <3>9. QED BY <3>5, <3>7, <3>8
  <2>4. CASE ~ (h.total > 5)
    <3>1. pc' = "hub" /\ walks' = <<>> BY <2>1, <2>2, <2>4
    <3>2. QED BY <3>1
  <2>5. QED BY <2>3, <2>4
<1> USE DEF ReadBosHeader, DumpInv, device, found, configuration, report
<1>2. Typed'
  <2>1. walks' \in Seq(AnyWalk) BY <1>1 DEF Typed
  <2>2. pc' \in Locations /\ held' \in BOOLEAN BY DEF Locations, Typed
  <2>3. QED BY <2>1, <2>2 DEF Typed
<1>3. DeviceInv' BY <1>1 DEF Typed, DeviceInv, OfConfig
<1>4. WalksInv' BY <1>1 DEF Typed, WalksInv, OfConfig, OfBos
<1>5. HeldInv' BY <1>1 DEF Typed, HeldInv, OfConfig, OfBos, OfOpen
<1>6. ReportsInv' BY <1>1 DEF Typed, ReportsInv
<1>7. LastInv' BY <1>1 DEF Typed, LastInv, WalksInv, OfConfig, OfBos
<1>8. OtgInv'
  BY <1>1 DEF Typed, OtgInv, LastInv, WalksInv, DeviceInv, OfConfig, OfBos
<1>9. QED BY <1>2, <1>3, <1>4, <1>5, <1>6, <1>7, <1>8

LEMMA ReadBosKeepsInv == ASSUME DumpInv, ReadBos PROVE DumpInv'
<1>1. /\ walks' \in Seq(AnyWalk) /\ pc' = "caps"
      /\ \A k \in DOMAIN walks' : walks'[k].of = "bos"
  <2>1. /\ Len(walks) = 1 /\ walks \in Seq(AnyWalk)
        /\ \A k \in DOMAIN walks : walks[k].of = "bos"
    BY DEF ReadBos, DumpInv, Typed, WalksInv, OfBos
  <2>2. CASE pc' = "caps" /\ walks' = <<>> BY <2>2
  <2>3. ASSUME NEW a \in BosAnswers, pc' = "caps",
               walks' = [walks EXCEPT ![1].extra =
                           [i \in DOMAIN @ |-> IF i <= Len(a) THEN a[i] ELSE 0]]
        PROVE  walks' \in Seq(AnyWalk)
               /\ \A k \in DOMAIN walks' : walks'[k].of = "bos"
    <3> DEFINE e == [i \in DOMAIN walks[1].extra |->
                       IF i <= Len(a) THEN a[i] ELSE 0]
    <3>1. walks[1] \in AnyWalk /\ 1 \in DOMAIN walks BY <2>1
    <3>2. walks[1].extra \in Seq(UINT8) BY <3>1 DEF AnyWalk
    <3>3. a \in Seq(UINT8) BY AnswersAssumption
    <3>4. \A i \in DOMAIN walks[1].extra : i <= Len(a) => a[i] \in UINT8
      BY <3>2, <3>3
    <3>5. e \in Seq(UINT8) BY <3>2, <3>4, Bytes8And16
    <3>6. walks' = [walks EXCEPT ![1] = [walks[1] EXCEPT !.extra = e]]
      BY <2>3, <3>1
    <3> HIDE DEF e
    <3> DEFINE w == [walks[1] EXCEPT !.extra = e]
    <3>7. w \in AnyWalk /\ w.of = "bos" BY <2>1, <3>1, <3>5 DEF AnyWalk
    <3>8. walks' = [walks EXCEPT ![1] = w] BY <3>6
    <3> HIDE DEF w
    <3>9. walks # <<>> BY <2>1
    <3>10. /\ walks' \in Seq(AnyWalk) /\ walks'[1] = w
           /\ DOMAIN walks' = DOMAIN walks
           /\ \A k \in DOMAIN walks : k # 1 => walks'[k] = walks[k]
      BY <2>1, <3>7, <3>8, <3>9, FirstReplaced
    <3>11. QED BY <2>1, <3>7, <3>10
  <2>4. QED BY <2>2, <2>3 DEF ReadBos
<1> USE DEF ReadBos, DumpInv, device, found, configuration, report
<1>2. Typed'
  <2>1. walks' \in Seq(AnyWalk) BY <1>1
  <2>2. pc' \in Locations BY DEF Locations
  <2>3. QED BY <2>1, <2>2 DEF Typed
<1>3. DeviceInv' BY DEF Typed, DeviceInv, OfConfig
<1>4. WalksInv' BY <1>1 DEF WalksInv, OfConfig, OfBos
<1>5. HeldInv' BY DEF Typed, HeldInv, OfConfig, OfBos, OfOpen
<1>6. ReportsInv' BY DEF Typed, ReportsInv
<1>7. LastInv' BY <1>1 DEF LastInv, WalksInv, OfConfig, OfBos
<1>8. OtgInv'
  BY DEF Typed, OtgInv, LastInv, WalksInv, DeviceInv, OfConfig, OfBos
<1>9. QED BY <1>2, <1>3, <1>4, <1>5, <1>6, <1>7, <1>8

LEMMA CapsDoneKeepsInv == ASSUME DumpInv, CapsDone PROVE DumpInv'
<1> USE DEF CapsDone, DumpInv, device, found, configuration, report
<1>1. Typed' BY DEF Typed, Locations
<1>2. DeviceInv' BY DEF Typed, DeviceInv, OfConfig
<1>3. WalksInv' BY DEF Typed, WalksInv, OfConfig, OfBos
<1>4. HeldInv' BY DEF Typed, HeldInv, OfConfig, OfBos, OfOpen
<1>5. ReportsInv' BY DEF Typed, ReportsInv
<1>6. LastInv' BY DEF Typed, LastInv, WalksInv, OfConfig, OfBos
<1>7. OtgInv'
  BY DEF Typed, OtgInv, LastInv, WalksInv, DeviceInv, OfConfig, OfBos
<1>8. QED BY <1>1, <1>2, <1>3, <1>4, <1>5, <1>6, <1>7

LEMMA do_hubKeepsInv == ASSUME DumpInv, do_hub PROVE DumpInv'
<1> USE AfterHubIs
<1>1. \/ last' = last /\ pc' # "ports"
      \/ /\ last' \in Dumps /\ last'.of = "hub" /\ Len(last'.buf) = HubBuffer
         /\ last'.avail = HubBuffer /\ pc' = "ports"
  <2>1. CASE pc' = AfterHub(dev) /\ last' = last BY <2>1, AfterHubIs
  <2>2. ASSUME NEW n \in HubPorts, pc' = "ports",
               last' = [NoDump EXCEPT !.of = "hub", !.avail = HubBuffer,
                          !.buf = [i \in 1 .. HubBuffer |->
                                     IF i = 3 THEN n ELSE 0]]
        PROVE  last' \in Dumps /\ last'.of = "hub" /\ last'.avail = HubBuffer
               /\ Len(last'.buf) = HubBuffer
    <3> DEFINE b == [i \in 1 .. HubBuffer |-> IF i = 3 THEN n ELSE 0]
    <3>1. b \in Seq(UINT8) /\ Len(b) = HubBuffer
      BY BoundsAssumption, Bytes8And16 DEF HubBuffer
    <3>2. HubBuffer \in Nat BY DEF HubBuffer
    <3> HIDE DEF b
    <3>3. last' = [NoDump EXCEPT !.of = "hub", !.avail = HubBuffer,
                          !.buf = b] BY <2>2 DEF b
    <3>4. last' \in Dumps /\ last'.of = "hub" /\ last'.avail = HubBuffer
          /\ last'.buf = b
      BY <3>1, <3>2, <3>3, NewDumpIs
    <3>5. QED BY <3>1, <3>4
  <2>3. QED BY <2>1, <2>2 DEF do_hub
<1> USE DEF do_hub, DumpInv, device, found, configuration, report
<1>2. Typed'
  <2>1. ports' \in UINT8 BY BoundsAssumption DEF Typed
  <2>2. pc' \in Locations BY AfterHubIs DEF Locations
  <2>3. QED BY <2>1, <2>2 DEF Typed
<1>3. DeviceInv' BY DEF Typed, DeviceInv, OfConfig
<1>4. WalksInv' BY DEF Typed, WalksInv, OfConfig, OfBos
<1>5. HeldInv' BY DEF Typed, HeldInv, OfConfig, OfBos, OfOpen
<1>6. ReportsInv' BY DEF Typed, ReportsInv
<1>7. LastInv' BY <1>1 DEF Typed, LastInv, WalksInv, OfConfig, OfBos
<1>8. OtgInv'
  BY <1>1 DEF Typed, OtgInv, LastInv, WalksInv, DeviceInv, OfConfig, OfBos
<1>9. QED BY <1>2, <1>3, <1>4, <1>5, <1>6, <1>7, <1>8

LEMMA PortStatusKeepsInv == ASSUME DumpInv, PortStatus PROVE DumpInv'
<1> USE DEF PortStatus, DumpInv, device, found, configuration, report
<1>1. Typed' BY DEF Typed, Locations, UINT8
<1>2. DeviceInv' BY DEF Typed, DeviceInv, OfConfig
<1>3. WalksInv' BY DEF Typed, WalksInv, OfConfig, OfBos
<1>4. HeldInv' BY DEF Typed, HeldInv, OfConfig, OfBos, OfOpen
<1>5. ReportsInv' BY DEF Typed, ReportsInv
<1>6. LastInv' BY NoDumpIs DEF Typed, LastInv, WalksInv, OfConfig, OfBos
<1>7. OtgInv'
  BY NoDumpIs DEF Typed, OtgInv, LastInv, WalksInv, DeviceInv, OfConfig, OfBos
<1>8. QED BY <1>1, <1>2, <1>3, <1>4, <1>5, <1>6, <1>7

LEMMA PortsDoneKeepsInv == ASSUME DumpInv, PortsDone PROVE DumpInv'
<1> USE AfterHubIs
<1> USE DEF PortsDone, DumpInv, device, found, configuration, report
<1>1. Typed' BY DEF Typed, Locations, UINT8
<1>2. DeviceInv' BY DEF Typed, DeviceInv, OfConfig
<1>3. WalksInv' BY DEF Typed, WalksInv, OfConfig, OfBos
<1>4. HeldInv' BY DEF Typed, HeldInv, OfConfig, OfBos, OfOpen
<1>5. ReportsInv' BY DEF Typed, ReportsInv
<1>6. LastInv' BY NoDumpIs DEF Typed, LastInv, WalksInv, OfConfig, OfBos
<1>7. OtgInv'
  BY NoDumpIs DEF Typed, OtgInv, LastInv, WalksInv, DeviceInv, OfConfig, OfBos
<1>8. QED BY <1>1, <1>2, <1>3, <1>4, <1>5, <1>6, <1>7

LEMMA do_dualspeedKeepsInv == ASSUME DumpInv, do_dualspeed PROVE DumpInv'
<1> USE DEF do_dualspeed, DumpInv, Ask, device, found, configuration, report
<1>1. Typed' BY DEF Typed, Locations
<1>2. DeviceInv' BY DEF Typed, DeviceInv, OfConfig
<1>3. WalksInv' BY DEF Typed, WalksInv, OfConfig, OfBos
<1>4. HeldInv' BY DEF Typed, HeldInv, OfConfig, OfBos, OfOpen
<1>5. ReportsInv' BY DEF Typed, ReportsInv
<1>6. LastInv' BY DEF Typed, LastInv, WalksInv, OfConfig, OfBos
<1>7. OtgInv'
  BY DEF Typed, OtgInv, LastInv, WalksInv, DeviceInv, OfConfig, OfBos
<1>8. QED BY <1>1, <1>2, <1>3, <1>4, <1>5, <1>6, <1>7

LEMMA do_debugKeepsInv == ASSUME DumpInv, do_debug PROVE DumpInv'
<1> USE DEF do_debug, DumpInv, Ask, device, found, configuration, report
<1>1. Typed' BY DEF Typed, Locations
<1>2. DeviceInv' BY DEF Typed, DeviceInv, OfConfig
<1>3. WalksInv' BY DEF Typed, WalksInv, OfConfig, OfBos
<1>4. HeldInv' BY DEF Typed, HeldInv, OfConfig, OfBos, OfOpen
<1>5. ReportsInv' BY DEF Typed, ReportsInv
<1>6. LastInv' BY DEF Typed, LastInv, WalksInv, OfConfig, OfBos
<1>7. OtgInv'
  BY DEF Typed, OtgInv, LastInv, WalksInv, DeviceInv, OfConfig, OfBos
<1>8. QED BY <1>1, <1>2, <1>3, <1>4, <1>5, <1>6, <1>7

LEMMA dump_device_statusKeepsInv ==
  ASSUME DumpInv, dump_device_status
  PROVE  DumpInv'
<1> USE DEF dump_device_status, DumpInv, Ask, device, found, configuration,
            report
<1>1. Typed' BY DEF Typed, Locations
<1>2. DeviceInv' BY DEF Typed, DeviceInv, OfConfig
<1>3. WalksInv' BY DEF Typed, WalksInv, OfConfig, OfBos
<1>4. HeldInv' BY DEF Typed, HeldInv, OfConfig, OfBos, OfOpen
<1>5. ReportsInv' BY DEF Typed, ReportsInv
<1>6. LastInv' BY DEF Typed, LastInv, WalksInv, OfConfig, OfBos
<1>7. OtgInv'
  BY DEF Typed, OtgInv, LastInv, WalksInv, DeviceInv, OfConfig, OfBos
<1>8. QED BY <1>1, <1>2, <1>3, <1>4, <1>5, <1>6, <1>7

LEMMA CloseKeepsInv == ASSUME DumpInv, Close PROVE DumpInv'
<1> USE DEF Close, DumpInv, device, found, configuration, report
<1>1. Typed' BY DEF Typed, Locations
<1>2. DeviceInv' BY DEF Typed, DeviceInv, OfConfig
<1>3. WalksInv' BY DEF Typed, WalksInv, OfConfig, OfBos
<1>4. HeldInv' BY DEF Typed, HeldInv, OfConfig, OfBos, OfOpen
<1>5. ReportsInv' BY DEF Typed, ReportsInv
<1>6. LastInv' BY DEF Typed, LastInv, WalksInv, OfConfig, OfBos
<1>7. OtgInv'
  BY DEF Typed, OtgInv, LastInv, WalksInv, DeviceInv, OfConfig, OfBos
<1>8. QED BY <1>1, <1>2, <1>3, <1>4, <1>5, <1>6, <1>7

\* The dump of a descriptor of a walk: what is left of the walk is what lies
\* behind it.
LEMMA WalkDumpKeepsInv == ASSUME DumpInv, WalkDump PROVE DumpInv'
<1> DEFINE w == Head(walks)
           rest == SubSeq(Left, bLength + 1, Len(Left))
           buf == ClaimedBytes(Left)
           less == [w EXCEPT !.extra = rest]
<1>1. /\ pc \in {"walk", "caps"} /\ walks \in Seq(AnyWalk) /\ walks # <<>>
      /\ w = walks[1] /\ w \in AnyWalk /\ 1 \in DOMAIN walks
      /\ Left = w.extra /\ Left \in Seq(UINT8)
      /\ w.of = "bos" <=> pc = "caps"
  <2>1. pc \in {"walk", "caps"} /\ walks \in Seq(AnyWalk) /\ walks # <<>>
    BY DEF DumpInv, Typed, WalkDump, Walking
  <2>2. w = walks[1] /\ 1 \in DOMAIN walks /\ w \in AnyWalk BY <2>1
  <2>3. Left = w.extra BY DEF Left
  <2>4. Left \in Seq(UINT8) BY <2>2, <2>3 DEF AnyWalk
  <2>5. w.of = "bos" <=> pc = "caps"
    BY <2>1, <2>2 DEF DumpInv, WalksInv, OfBos
  <2> HIDE DEF w
  <2>6. QED BY <2>1, <2>2, <2>3, <2>4, <2>5
<1>2. /\ bLength = Left[1] /\ bLength \in UINT8
      /\ Header(w) \in {2, 3} /\ (Header(w) = 3 <=> w.of = "bos")
      /\ Header(w) <= bLength /\ bLength <= Len(Left)
  <2>1. Header(w) \in {2, 3} /\ (Header(w) = 3 <=> w.of = "bos") BY DEF Header
  <2>2. Len(Left) >= Header(w) /\ ~ BadLength(w, Left) BY DEF WalkDump, More
  <2>3. 1 \in 1 .. Len(Left) BY <1>1, <2>1, <2>2
  <2>4. Left[1] \in UINT8 BY <1>1, <2>3, ElementOfSeq
  <2>5. Left[1] \in Nat BY <2>4, Bytes8And16
  <2> HIDE DEF w
  <2>6. Header(w) <= Left[1] /\ Left[1] <= Len(Left)
    BY <1>1, <2>1, <2>2, <2>5 DEF BadLength
  <2>7. QED BY <2>1, <2>4, <2>6 DEF bLength
<1>3. rest \in Seq(UINT8) BY <1>1, <1>2, Bytes8And16
<1>4. /\ buf \in Seq(UINT8) /\ Len(buf) = bLength
      /\ buf[1] = bLength /\ buf[2] = Left[2]
  <2>1. bLength \in Nat /\ 2 <= bLength /\ bLength <= Len(Left)
    BY <1>1, <1>2, Bytes8And16
  <2>2. buf = [i \in 1 .. bLength |-> IF i <= Len(Left) THEN Left[i] ELSE 0]
    BY <1>2 DEF ClaimedBytes
  <2>3. \A i \in 1 .. bLength : Left[i] \in UINT8 /\ i <= Len(Left)
    BY <1>1, <2>1, ElementOfSeq
  <2> HIDE DEF w, buf
  <2>4. \A i \in 1 .. bLength : buf[i] = Left[i] BY <2>2, <2>3
  <2>5. buf \in Seq(UINT8) /\ Len(buf) = bLength BY <2>1, <2>2, <2>3, <2>4
  <2>6. QED BY <1>2, <2>1, <2>4, <2>5
<1>5. less \in AnyWalk /\ less.of = w.of /\ less.extra = rest
  BY <1>1, <1>3 DEF AnyWalk
<1>6. walks' = [walks EXCEPT ![1] = less] BY <1>1 DEF WalkDump
<1>7. /\ last' = [of |-> w.of, alt |-> w.alt, attributes |-> w.attributes,
                  avail |-> Len(Left), buf |-> buf]
      /\ has_ssp' = (\/ has_ssp
                     \/ w.of = "bos" /\ Byte(buf, 2) = SUPERSPEEDPLUS)
      /\ reports' = IF udev /\ w.of = "interface" /\ w.alt.class = HID
                    THEN ReportLengths(buf) ELSE <<>>
      /\ pc' = IF reports' # <<>> THEN "report" ELSE pc
      /\ UNCHANGED <<dev, udev, otg, index, config, held, claimed, retries,
                     answer, ports>>
  BY DEF WalkDump, device, configuration
<1> HIDE DEF w, rest, buf, less
<1>8. /\ walks' \in Seq(AnyWalk) /\ walks' # <<>> /\ walks'[1] = less
      /\ DOMAIN walks' = DOMAIN walks
      /\ \A k \in DOMAIN walks : k # 1 => walks'[k] = walks[k]
  BY <1>1, <1>5, <1>6, FirstReplaced
<1>9. reports' \in Seq(UINT16) BY <1>4, <1>7, ReportLengthsAre
<1>10. reports' # <<>> => udev /\ w.of = "interface" BY <1>7
<1>11. \/ pc' = pc /\ pc \in {"walk", "caps"} /\ reports' = <<>>
       \/ pc' = "report" /\ pc = "walk" /\ udev
  BY <1>1, <1>7, <1>10
<1>12. Typed'
  <2>1. has_ssp' \in BOOLEAN BY <1>7 DEF DumpInv, Typed
  <2>2. pc' \in Locations BY <1>11 DEF Locations
  <2>3. QED BY <1>7, <1>8, <1>9, <2>1, <2>2 DEF DumpInv, Typed
<1>13. DeviceInv' BY <1>7, <1>11 DEF DumpInv, DeviceInv, OfConfig
<1>14. WalksInv'
  <2>1. \A k \in DOMAIN walks' : walks'[k].of = walks[k].of
    BY <1>1, <1>5, <1>8
  <2>2. QED BY <1>8, <1>11, <2>1 DEF DumpInv, WalksInv, OfConfig, OfBos
<1>15. HeldInv'
  <2>1. has_ssp' => has_ssp \/ pc = "caps" BY <1>1, <1>7
  <2>2. QED BY <1>7, <1>11, <2>1 DEF DumpInv, HeldInv, OfConfig, OfBos, OfOpen
<1>16. ReportsInv' BY <1>7, <1>11 DEF DumpInv, ReportsInv
<1>17. LastInv'
  <2>1. last' \in Dumps /\ last'.of = w.of /\ last'.buf = buf
        /\ last'.avail = Len(Left)
        /\ w.of \in {"config", "interface", "endpoint", "bos"}
    BY <1>1, <1>4, <1>7 DEF Dumps, AnyWalk
  <2>2. pc' \in IF w.of = "bos" THEN {"caps"} ELSE OfConfig
    BY <1>1, <1>11 DEF OfConfig
  <2>3. QED BY <1>2, <1>4, <1>8, <2>1, <2>2 DEF LastInv
<1>18. OtgInv'
  <2>1. SUFFICES ASSUME config # NoConfig
                 PROVE  /\ \A k \in DOMAIN walks' :
                             find_otg(walks'[k].extra) => otg
                        /\ Len(buf) = 3 /\ buf[2] = OTG => otg
    BY <1>7, <1>11 DEF OtgInv
  <2>2. \A k \in DOMAIN walks : find_otg(walks[k].extra) => otg
    BY <1>1, <2>1 DEF DumpInv, OtgInv, DeviceInv, OfConfig
  <2>3. find_otg(rest) => find_otg(Left)
    <3>1. Len(Left) >= 2 /\ 2 <= Left[1] /\ Left[1] <= Len(Left)
      BY <1>1, <1>2, Bytes8And16
    <3>2. rest = SubSeq(Left, Left[1] + 1, Len(Left)) BY <1>2 DEF rest
    <3>3. QED BY <1>1, <3>1, <3>2, FoundBehind
  <2>4. Len(buf) = 3 /\ buf[2] = OTG => find_otg(Left)
    BY <1>1, <1>2, <1>4, FoundFirst
  <2>5. QED BY <1>1, <1>5, <1>8, <2>2, <2>3, <2>4
<1>19. QED BY <1>12, <1>13, <1>14, <1>15, <1>16, <1>17, <1>18 DEF DumpInv

LEMMA CallKeepsInv ==
  ASSUME NEW d \in Devices, DumpInv, Call(d)
  PROVE  DumpInv'
<1> USE BoundsAssumption
<1> USE DEF DumpInv, Call, found, configuration, report
<1>1. Typed' BY DEF Typed, Locations
<1>2. DeviceInv' BY DEF DeviceInv, OfConfig
<1>3. WalksInv' BY DEF WalksInv, OfConfig, OfBos
<1>4. HeldInv' BY DEF HeldInv, OfConfig, OfBos, OfOpen
<1>5. ReportsInv' BY DEF ReportsInv
<1>6. LastInv' BY DEF LastInv, OfConfig
<1>7. OtgInv' BY DEF OtgInv, OfConfig
<1>8. QED BY <1>1, <1>2, <1>3, <1>4, <1>5, <1>6, <1>7

\* The invariant holds at first and is kept.
LEMMA InitHasInv == ASSUME Init PROVE DumpInv
<1> USE DEF Init
<1>1. Typed BY Zeros, EmptySeq, Bytes8And16 DEF Typed, Locations, NoConfig
<1>2. DeviceInv BY DEF DeviceInv, OfConfig
<1>3. WalksInv BY DEF WalksInv, OfConfig, OfBos
<1>4. HeldInv BY DEF HeldInv, OfConfig, OfBos, OfOpen
<1>5. ReportsInv BY DEF ReportsInv
<1>6. LastInv BY NoDumpIs DEF LastInv, OfConfig
<1>7. OtgInv BY DEF OtgInv, OfConfig
<1>8. QED BY <1>1, <1>2, <1>3, <1>4, <1>5, <1>6, <1>7 DEF DumpInv

LEMMA StutterKeepsInv == ASSUME DumpInv, UNCHANGED vars PROVE DumpInv'
BY DEF DumpInv, vars, Typed, DeviceInv, WalksInv, HeldInv, ReportsInv, LastInv,
       OtgInv

LEMMA DumpStepKeepsInv == ASSUME DumpInv, DumpStep PROVE DumpInv'
BY OpenKeepsInv, ReadForOtgKeepsInv, ReadConfigKeepsInv, ConfigsDoneKeepsInv,
   WalkDumpKeepsInv, WalkDoneKeepsInv, ConfigDumpedKeepsInv,
   SkipReportKeepsInv, ClaimInterfaceKeepsInv, FetchKeepsInv,
   FetchDoneKeepsInv, ReportsDoneKeepsInv, ReadBosHeaderKeepsInv,
   ReadBosKeepsInv, CapsDoneKeepsInv, do_hubKeepsInv, PortStatusKeepsInv,
   PortsDoneKeepsInv, do_dualspeedKeepsInv, do_debugKeepsInv,
   dump_device_statusKeepsInv, CloseKeepsInv DEF DumpStep

LEMMA NextKeepsInv == ASSUME DumpInv, [Next]_vars PROVE DumpInv'
BY DumpStepKeepsInv, CallKeepsInv, StutterKeepsInv DEF Next

\* The bytes and walks left, walk by walk.
LEMMA BytesLeftIs ==
  ASSUME NEW w \in Seq(AnyWalk)
  PROVE  \E s \in [0 .. Len(w) -> Nat] :
           /\ BytesLeft(w) = s[Len(w)] /\ s[0] = 0
           /\ \A k \in 1 .. Len(w) : s[k] = s[k - 1] + Len(w[k].extra) + 1
<1> DEFINE N == Len(w)
           step == [a \in (1 .. N) \X Nat |-> a[2] + Len(w[a[1]].extra) + 1]
           Sums(s) == s = [i \in 0 .. N |->
                             IF i = 0 THEN 0 ELSE s[i - 1] + Len(w[i].extra) + 1]
           upto == CHOOSE s : Sums(s)
<1>1. N \in Nat /\ \A k \in 1 .. N : Len(w[k].extra) \in Nat
  <2>1. \A k \in 1 .. N : w[k] \in AnyWalk BY ElementOfSeq
  <2>2. QED BY <2>1 DEF AnyWalk
<1>2. step \in [(1 .. N) \X Nat -> Nat] BY <1>1
<1> HIDE DEF N
<1>3. PICK f \in [0 .. N -> Nat] : IsUp(f, 0, step, N) BY <1>1, <1>2, UpExists
<1>4. Sums(f)
  <2>1. ASSUME NEW k \in 1 .. N
        PROVE  f[k - 1] \in Nat /\ f[k] = f[k - 1] + Len(w[k].extra) + 1
    <3>1. k - 1 \in 0 .. N BY <1>1
    <3>2. f[k - 1] \in Nat BY <1>3, <3>1
    <3>3. f[k] = step[<<k, f[k - 1]>>] BY <1>3 DEF IsUp
    <3>4. <<k, f[k - 1]>> \in (1 .. N) \X Nat BY <3>2
    <3>5. QED BY <3>2, <3>3, <3>4
  <2>2. f[0] = 0 BY <1>3 DEF IsUp
  <2> HIDE DEF step
  <2>3. QED BY <1>1, <1>3, <2>1, <2>2
<1>5. Sums(upto) BY <1>4
<1> HIDE DEF upto
<1>6. \A k \in 1 .. N : upto[k] = upto[k - 1] + Len(w[k].extra) + 1
  BY <1>1, <1>5
<1>7. upto[0] = 0 BY <1>1, <1>5
<1>8. \A k \in 0 .. N : upto[k] \in Nat
  <2> DEFINE H == {k \in 0 .. N : upto[k] \in Nat}
  <2>1. 0 \in H BY <1>1, <1>7
  <2>2. ASSUME NEW n \in 0 .. N, n \in H, n < N PROVE n + 1 \in H
    <3>1. n + 1 \in 1 .. N /\ (n + 1) - 1 = n BY <2>2, <1>1
    <3>2. upto[n + 1] = upto[n] + Len(w[n + 1].extra) + 1 BY <1>6, <3>1
    <3>3. upto[n] \in Nat /\ Len(w[n + 1].extra) \in Nat
      BY <1>1, <2>2, <3>1
    <3>4. n + 1 \in 0 .. N BY <1>1, <3>1
    <3>5. upto[n + 1] \in Nat BY <3>2, <3>3
    <3>6. QED BY <3>4, <3>5
  <2>3. H \in SUBSET (0 .. N) OBVIOUS
  <2> HIDE DEF H
  <2>4. H = 0 .. N BY <1>1, <2>1, <2>2, <2>3, Upwards
  <2>5. QED BY <2>4 DEF H
<1>9. upto \in [0 .. N -> Nat] BY <1>5, <1>8
<1>10. BytesLeft(w) = upto[N] BY DEF BytesLeft, upto, N
<1>11. QED BY <1>6, <1>7, <1>9, <1>10 DEF N

\* A walk that is shorter, or gone, leaves fewer bytes.
LEMMA ShorterWalk ==
  ASSUME NEW w \in Seq(AnyWalk), NEW v \in Seq(AnyWalk), w # <<>>,
         Len(v) = Len(w), Len(v[1].extra) < Len(w[1].extra),
         \A k \in DOMAIN w : k # 1 => v[k] = w[k]
  PROVE  BytesLeft(v) < BytesLeft(w)
<1> DEFINE N == Len(w)
<1>1. PICK s \in [0 .. N -> Nat] :
        /\ BytesLeft(w) = s[N] /\ s[0] = 0
        /\ \A k \in 1 .. N : s[k] = s[k - 1] + Len(w[k].extra) + 1
  BY BytesLeftIs
<1>2. PICK r \in [0 .. N -> Nat] :
        /\ BytesLeft(v) = r[N] /\ r[0] = 0
        /\ \A k \in 1 .. N : r[k] = r[k - 1] + Len(v[k].extra) + 1
  BY BytesLeftIs
<1>3. N \in Nat \ {0} /\ \A k \in 1 .. N : Len(w[k].extra) \in Nat
                                           /\ Len(v[k].extra) \in Nat
  <2>1. \A k \in 1 .. N : w[k] \in AnyWalk /\ v[k] \in AnyWalk BY ElementOfSeq
  <2>2. QED BY <2>1 DEF AnyWalk
<1>4. \A k \in 1 .. N : k # 1 => v[k] = w[k]
  <2>1. DOMAIN w = 1 .. N BY LenProperties
  <2>2. QED BY <2>1
<1>5. 1 \in 1 .. N /\ Len(v[1].extra) < Len(w[1].extra) BY <1>3
<1> HIDE DEF N
<1> DEFINE H == {k \in 0 .. N : k # 0 => r[k] < s[k]}
<1>6. 0 \in H BY <1>3
<1>7. ASSUME NEW n \in 0 .. N, n \in H, n < N PROVE n + 1 \in H
  <2>1. n + 1 \in 1 .. N /\ (n + 1) - 1 = n BY <1>3, <1>7
  <2>2. /\ s[n + 1] = s[n] + Len(w[n + 1].extra) + 1
        /\ r[n + 1] = r[n] + Len(v[n + 1].extra) + 1
    BY <1>1, <1>2, <2>1
  <2>3. s[n] \in Nat /\ r[n] \in Nat BY <1>1, <1>2
  <2>4. Len(v[n + 1].extra) \in Nat /\ Len(w[n + 1].extra) \in Nat
    BY <1>3, <2>1
  <2>5. CASE n = 0
    <3>1. s[0] = 0 /\ r[0] = 0 BY <1>1, <1>2
    <3>2. r[n + 1] < s[n + 1] BY <1>5, <2>2, <2>4, <2>5, <3>1
    <3>3. QED BY <1>3, <2>1, <3>2
  <2>6. CASE n # 0
    <3>1. r[n] < s[n] BY <1>7, <2>6
    <3>2. n + 1 # 1 BY <2>6
    <3>3. Len(v[n + 1].extra) = Len(w[n + 1].extra) BY <1>4, <2>1, <3>2
    <3>4. \A x, y, z \in Nat : x < y => x + z + 1 < y + z + 1 OBVIOUS
    <3>5. r[n] + Len(w[n + 1].extra) + 1 < s[n] + Len(w[n + 1].extra) + 1
      BY <2>3, <2>4, <3>1, <3>4
    <3>6. r[n + 1] < s[n + 1] BY <2>2, <3>5, <3>3
    <3>7. QED BY <1>3, <2>1, <3>6
  <2>7. QED BY <2>5, <2>6
<1>8. H \in SUBSET (0 .. N) OBVIOUS
<1> HIDE DEF H
<1>9. H = 0 .. N BY <1>3, <1>6, <1>7, <1>8, Upwards
<1>10. N \in 0 .. N /\ N # 0 BY <1>3
<1>11. N \in H BY <1>9, <1>10
<1>12. QED BY <1>1, <1>2, <1>10, <1>11 DEF H

\* A walk that has ended takes its bytes with it.
LEMMA WalkGone ==
  ASSUME NEW w \in Seq(AnyWalk), w # <<>>
  PROVE  BytesLeft(Tail(w)) < BytesLeft(w)
<1> DEFINE v == Tail(w)
           N == Len(v)
<1>1. v \in Seq(AnyWalk) /\ N \in Nat /\ Len(w) = N + 1
      /\ \A k \in 1 .. N : v[k] = w[k + 1]
  OBVIOUS
<1>2. PICK s \in [0 .. N + 1 -> Nat] :
        /\ BytesLeft(w) = s[N + 1] /\ s[0] = 0
        /\ \A k \in 1 .. N + 1 : s[k] = s[k - 1] + Len(w[k].extra) + 1
  BY <1>1, BytesLeftIs
<1>3. PICK r \in [0 .. N -> Nat] :
        /\ BytesLeft(v) = r[N] /\ r[0] = 0
        /\ \A k \in 1 .. N : r[k] = r[k - 1] + Len(v[k].extra) + 1
  BY <1>1, BytesLeftIs
<1>4. \A k \in 1 .. N + 1 : Len(w[k].extra) \in Nat
  <2>1. \A k \in 1 .. N + 1 : w[k] \in AnyWalk BY <1>1, ElementOfSeq
  <2>2. QED BY <2>1 DEF AnyWalk
<1> HIDE DEF N, v
<1> DEFINE H == {k \in 0 .. N : r[k] < s[k + 1]}
<1>5. 0 \in H
  <2>1. 1 \in 1 .. N + 1 /\ 0 \in 0 .. N BY <1>1
  <2>2. QED BY <1>2, <1>3, <1>4, <2>1
<1>6. ASSUME NEW n \in 0 .. N, n \in H, n < N PROVE n + 1 \in H
  <2>1. /\ n + 1 \in 1 .. N /\ (n + 1) - 1 = n
        /\ n + 1 + 1 \in 1 .. N + 1 /\ (n + 1 + 1) - 1 = n + 1
    BY <1>1, <1>6
  <2>2. s[n + 1 + 1] = s[n + 1] + Len(w[n + 1 + 1].extra) + 1 BY <1>2, <2>1
  <2>3. r[n + 1] = r[n] + Len(w[n + 1 + 1].extra) + 1 BY <1>1, <1>3, <2>1
  <2>4. s[n + 1] \in Nat /\ r[n] \in Nat BY <1>1, <2>1
  <2>5. r[n] < s[n + 1] BY <1>6
  <2>6. Len(w[n + 1 + 1].extra) \in Nat BY <1>4, <2>1
  <2>7. r[n + 1] < s[n + 1 + 1] BY <2>2, <2>3, <2>4, <2>5, <2>6
  <2>8. n + 1 \in 0 .. N BY <1>1, <2>1
  <2>9. QED BY <2>7, <2>8
<1>7. H \in SUBSET (0 .. N) OBVIOUS
<1> HIDE DEF H
<1>8. H = 0 .. N BY <1>1, <1>5, <1>6, <1>7, Upwards
<1>9. N \in H BY <1>1, <1>8
<1>10. r[N] < s[N + 1] BY <1>9 DEF H
<1>11. QED BY <1>2, <1>3, <1>10 DEF v

\* The invariant holds throughout the dump of every device.
THEOREM Dumping == Spec => []DumpInv
<1>1. Init => DumpInv BY InitHasInv
<1>2. DumpInv /\ [Next]_vars => DumpInv' BY NextKeepsInv
<1>3. QED BY <1>1, <1>2, PTL DEF Spec

LEMMA DumpInvTyped == DumpInv => TypeOK
<1>1. SUFFICES ASSUME DumpInv PROVE TypeOK OBVIOUS
<1>2. \A i \in DOMAIN walks : walks[i].extra \in Seq(UINT8)
  <2>1. \A i \in DOMAIN walks : walks[i] \in AnyWalk
    BY <1>1, ElementOfSeq, LenProperties DEF DumpInv, Typed
  <2>2. QED BY <2>1 DEF AnyWalk
<1>3. last.of \in {"none", "config", "interface", "endpoint", "bos",
                   "report", "hub"}
  BY <1>1 DEF DumpInv, LastInv, Dumps
<1>4. QED BY <1>1, <1>2, <1>3 DEF DumpInv, Typed, TypeOK

\* Every variable of dumpdev() holds values of its type.
THEOREM DumpTypeOK == Spec => []TypeOK
BY DumpInvTyped, Dumping, PTL

\* Whatever fails, dumpdev() holds the interface, the configuration and the
\* BOS exactly as long as it uses them, and nothing once it is done.
THEOREM DumpNothingHeld == Spec => []NothingHeld
<1>1. DumpInv => NothingHeld
  BY DEF DumpInv, HeldInv, NothingHeld, OfConfig, OfBos, OfOpen
<1>2. QED BY <1>1, Dumping, PTL

\* The measure, entry by entry.
LEMMA Phases ==
  /\ Phase["idle"] = 0 /\ Phase["close"] = 1 /\ Phase["status"] = 2
  /\ Phase["debug"] = 3 /\ Phase["dualspeed"] = 4 /\ Phase["ports"] = 5
  /\ Phase["hub"] = 6 /\ Phase["caps"] = 7 /\ Phase["bos_rest"] = 8
  /\ Phase["bos"] = 9 /\ Phase["walk"] = 10 /\ Phase["report"] = 10
  /\ Phase["fetch"] = 10 /\ Phase["config"] = 10 /\ Phase["otg"] = 11
  /\ Phase["open"] = 12
BY DEF Phase

\* It is below if it is at one place and the same before.
LEMMA BelowAt ==
  ASSUME NEW i \in 1 .. 8, Measure'[i] < Measure[i],
         \A j \in 1 .. i - 1 : Measure'[j] = Measure[j]
  PROVE  Below(Measure', Measure)
<1>1. DOMAIN Measure = 1 .. 8 BY DEF Measure
<1>2. QED BY <1>1 DEF Below

\* Its entries, before a step and after it.
LEMMA MeasureIs ==
  /\ Measure[1] = Phase[pc]
  /\ Measure[2] = IF dev = NoDevice THEN 0 ELSE Len(Configs[dev]) - index
  /\ Measure[3] = IF pc = "config" THEN 1 ELSE 0
  /\ Measure[4] = BytesLeft(walks)
  /\ Measure[5] = Len(reports)
  /\ Measure[6] = IF pc = "report" THEN 2 ELSE IF pc = "fetch" THEN 1 ELSE 0
  /\ Measure[7] = retries
  /\ Measure[8] = ports
BY DEF Measure

LEMMA NextMeasureIs ==
  /\ Measure'[1] = Phase[pc']
  /\ Measure'[2] = IF dev' = NoDevice THEN 0 ELSE Len(Configs[dev']) - index'
  /\ Measure'[3] = IF pc' = "config" THEN 1 ELSE 0
  /\ Measure'[4] = BytesLeft(walks')
  /\ Measure'[5] = Len(reports')
  /\ Measure'[6] = IF pc' = "report" THEN 2 ELSE IF pc' = "fetch" THEN 1 ELSE 0
  /\ Measure'[7] = retries'
  /\ Measure'[8] = ports'
BY DEF Measure, BytesLeft, Phase

\* A step to a later phase.
LEMMA NextPhase ==
  ASSUME Phase[pc'] < Phase[pc]
  PROVE  Below(Measure', Measure)
<1>1. 1 \in 1 .. 8 /\ \A j \in 1 .. 1 - 1 : Measure'[j] = Measure[j] OBVIOUS
<1>2. Measure'[1] < Measure[1] BY MeasureIs, NextMeasureIs
<1>3. QED BY <1>1, <1>2, BelowAt

LEMMA PhasesGoOn ==
  ASSUME DumpInv,
         \/ Open \/ ReadForOtg \/ ConfigsDone \/ ReadBosHeader \/ ReadBos
         \/ CapsDone \/ do_hub \/ PortsDone \/ do_dualspeed \/ do_debug
         \/ dump_device_status \/ Close
  PROVE  Below(Measure', Measure)
<1>1. SUFFICES Phase[pc'] < Phase[pc] BY NextPhase
<1> USE Phases
<1>2. CASE Open
  <2>1. PICK opened \in BOOLEAN :
          pc' = IF Len(Configs[dev]) > 0 THEN "otg"
                ELSE AfterConfigs(opened, dev)
    BY <1>2 DEF Open
  <2>2. pc = "open" BY <1>2 DEF Open
  <2>3. AfterConfigs(opened, dev) \in {"idle", "bos", "hub"}
    BY AfterConfigsIs
  <2>4. QED BY <2>1, <2>2, <2>3
<1>3. CASE ReadForOtg BY <1>3 DEF ReadForOtg
<1>4. CASE ConfigsDone
  <2>1. pc = "config" /\ pc' = AfterConfigs(udev, dev) /\ udev \in BOOLEAN
    BY <1>4 DEF ConfigsDone, DumpInv, Typed
  <2>2. pc' \in {"idle", "bos", "hub"} BY <2>1, AfterConfigsIs
  <2>3. QED BY <2>1, <2>2
<1>5. CASE ReadBosHeader BY <1>5 DEF ReadBosHeader
<1>6. CASE ReadBos BY <1>6 DEF ReadBos
<1>7. CASE CapsDone BY <1>7 DEF CapsDone
<1>8. CASE do_hub
  <2>1. pc = "hub" /\ pc' \in {"ports", "dualspeed", "debug"}
    BY <1>8, AfterHubIs DEF do_hub
  <2>2. QED BY <2>1
<1>9. CASE PortsDone BY <1>9, AfterHubIs DEF PortsDone
<1>10. CASE do_dualspeed BY <1>10 DEF do_dualspeed, Ask
<1>11. CASE do_debug BY <1>11 DEF do_debug, Ask
<1>12. CASE dump_device_status BY <1>12 DEF dump_device_status, Ask
<1>13. CASE Close BY <1>13 DEF Close
<1>14. QED
  BY <1>2, <1>3, <1>4, <1>5, <1>6, <1>7, <1>8, <1>9, <1>10, <1>11, <1>12,
     <1>13

\* The steps that use up something within the dump of the configurations, or
\* of the capabilities, or of the ports: what weighs more stays as it is.
LEMMA WithinPhase ==
  ASSUME NEW i \in 2 .. 8, Phase[pc'] = Phase[pc], Measure'[i] < Measure[i],
         \A j \in 2 .. i - 1 : Measure'[j] = Measure[j]
  PROVE  Below(Measure', Measure)
<1>1. i \in 1 .. 8 OBVIOUS
<1>2. Measure'[1] = Measure[1] BY MeasureIs, NextMeasureIs
<1>3. \A j \in 1 .. i - 1 : j = 1 \/ j \in 2 .. i - 1 OBVIOUS
<1>4. \A j \in 1 .. i - 1 : Measure'[j] = Measure[j] BY <1>2, <1>3
<1>5. QED BY <1>1, <1>4, BelowAt

\* Reading a configuration, walking it, fetching reports, asking ports: each
\* uses up what it goes through.
LEMMA ReadConfigUses ==
  ASSUME DumpInv, ReadConfig PROVE Below(Measure', Measure)
<1> USE MeasureIs, NextMeasureIs, Phases
<1>1. Phase[pc'] = Phase[pc] BY DEF ReadConfig
<1>2. CASE pc' = "walk" /\ index' = index
  <2>1. Measure'[3] < Measure[3] BY <1>2 DEF ReadConfig
  <2>2. Measure'[2] = Measure[2] BY <1>2 DEF ReadConfig, device
  <2>3. 3 \in 2 .. 8 /\ \A j \in 2 .. 3 - 1 : j = 2 OBVIOUS
  <2>4. \A j \in 2 .. 3 - 1 : Measure'[j] = Measure[j] BY <2>2, <2>3
  <2>5. QED BY <1>1, <2>1, <2>3, <2>4, WithinPhase
<1>3. CASE index' = index + 1
  <2>1. dev # NoDevice /\ index \in Nat /\ Len(Configs[dev]) \in Nat
    BY AtDevice, BoundsAssumption DEF ReadConfig, DumpInv, DeviceInv, Typed
  <2>2. Measure'[2] < Measure[2] BY <1>3, <2>1 DEF ReadConfig, device
  <2>3. 2 \in 2 .. 8 /\ \A j \in 2 .. 2 - 1 : Measure'[j] = Measure[j] OBVIOUS
  <2>4. QED BY <1>1, <2>2, <2>3, WithinPhase
<1>4. QED BY <1>2, <1>3 DEF ReadConfig

\* The bytes of the descriptor dumped are gone, or the walk is.
LEMMA WalkDumpIs ==
  ASSUME DumpInv, WalkDump
  PROVE  BytesLeft(walks') < BytesLeft(walks)
<1> DEFINE w == Head(walks)
           rest == SubSeq(Left, bLength + 1, Len(Left))
           less == [w EXCEPT !.extra = rest]
<1>1. /\ walks \in Seq(AnyWalk) /\ walks # <<>> /\ w = walks[1]
      /\ w \in AnyWalk /\ Left = w.extra /\ Left \in Seq(UINT8)
  <2>1. walks \in Seq(AnyWalk) /\ walks # <<>>
    BY DEF DumpInv, Typed, WalkDump, Walking
  <2>2. w = walks[1] /\ 1 \in DOMAIN walks /\ w \in AnyWalk BY <2>1
  <2>3. Left = w.extra BY DEF Left
  <2>4. Left \in Seq(UINT8) BY <2>2, <2>3 DEF AnyWalk
  <2> HIDE DEF w
  <2>5. QED BY <2>1, <2>2, <2>3, <2>4
<1>2. bLength \in Nat /\ 2 <= bLength /\ bLength <= Len(Left)
  <2>1. Header(w) \in {2, 3} BY DEF Header
  <2>2. Len(Left) >= Header(w) /\ ~ BadLength(w, Left) BY DEF WalkDump, More
  <2>3. 1 \in 1 .. Len(Left) BY <1>1, <2>1, <2>2
  <2>4. Left[1] \in Nat BY <1>1, <2>3, ElementOfSeq, Bytes8And16
  <2> HIDE DEF w
  <2>5. Header(w) <= Left[1] /\ Left[1] <= Len(Left)
    BY <1>1, <2>1, <2>2, <2>4 DEF BadLength
  <2>6. QED BY <2>1, <2>4, <2>5 DEF bLength
<1>3. rest \in Seq(UINT8) /\ Len(rest) < Len(Left) BY <1>1, <1>2
<1>4. walks' = [walks EXCEPT ![1] = less] BY <1>1 DEF WalkDump
<1>5. less \in AnyWalk /\ less.extra = rest BY <1>1, <1>3 DEF AnyWalk
<1> HIDE DEF w, rest, less
<1>6. /\ walks' \in Seq(AnyWalk) /\ Len(walks') = Len(walks)
      /\ walks'[1] = less
      /\ \A k \in DOMAIN walks : k # 1 => walks'[k] = walks[k]
  BY <1>1, <1>4, <1>5, FirstReplaced
<1>7. Len(walks'[1].extra) < Len(walks[1].extra) BY <1>1, <1>3, <1>5, <1>6
<1>8. QED BY <1>1, <1>6, <1>7, ShorterWalk

LEMMA WalksUse ==
  ASSUME DumpInv, WalkDump \/ WalkDone PROVE Below(Measure', Measure)
<1> USE MeasureIs, NextMeasureIs, Phases
<1>1. Phase[pc'] = Phase[pc]
      /\ Measure'[2] = Measure[2] /\ Measure'[3] = Measure[3]
  <2>1. /\ pc \in {"walk", "caps"} /\ dev' = dev /\ index' = index
        /\ pc' = pc \/ (pc' = "report" /\ pc = "walk")
    <3>1. CASE WalkDone
      BY <3>1 DEF WalkDone, Walking, device, configuration
    <3>2. CASE WalkDump
      <4>1. /\ pc \in {"walk", "caps"} /\ dev' = dev /\ index' = index
            /\ pc' = IF reports' # <<>> THEN "report" ELSE pc
            /\ reports' # <<>> => udev /\ Head(walks).of = "interface"
        BY <3>2 DEF WalkDump, Walking, device, configuration
      <4>2. pc = "caps" => Head(walks).of = "bos"
        <5>1. walks \in Seq(AnyWalk) /\ walks # <<>>
          BY <3>2 DEF DumpInv, Typed, WalkDump, Walking
        <5>2. Head(walks) = walks[1] /\ 1 \in DOMAIN walks BY <5>1
        <5>3. QED BY <5>2 DEF DumpInv, WalksInv, OfBos
      <4>3. QED BY <4>1, <4>2
    <3>3. QED BY <3>1, <3>2
  <2>2. QED BY <2>1
<1>2. BytesLeft(walks') < BytesLeft(walks)
  <2>1. CASE WalkDump BY <2>1, WalkDumpIs
  <2>2. CASE WalkDone
    <3>1. walks \in Seq(AnyWalk) /\ walks # <<>> /\ walks' = Tail(walks)
      BY <2>2 DEF DumpInv, Typed, WalkDone, Walking
    <3>2. QED BY <3>1, WalkGone
  <2>3. QED BY <2>1, <2>2
<1>3. 4 \in 2 .. 8 /\ \A j \in 2 .. 4 - 1 : j = 2 \/ j = 3 OBVIOUS
<1>4. Measure'[4] < Measure[4] BY <1>2
<1>5. \A j \in 2 .. 4 - 1 : Measure'[j] = Measure[j] BY <1>1, <1>3
<1>6. QED BY <1>1, <1>3, <1>4, <1>5, WithinPhase

LEMMA ConfigDumpedUses ==
  ASSUME DumpInv, ConfigDumped PROVE Below(Measure', Measure)
<1> USE MeasureIs, NextMeasureIs, Phases
<1>1. Phase[pc'] = Phase[pc] BY DEF ConfigDumped
<1>2. dev # NoDevice /\ index \in Nat /\ Len(Configs[dev]) \in Nat
  BY AtDevice, BoundsAssumption DEF ConfigDumped, DumpInv, DeviceInv, Typed
<1>3. Measure'[2] < Measure[2] BY <1>2 DEF ConfigDumped, device
<1>4. 2 \in 2 .. 8 /\ \A j \in 2 .. 2 - 1 : Measure'[j] = Measure[j] OBVIOUS
<1>5. QED BY <1>1, <1>3, <1>4, WithinPhase

LEMMA ReportsUse ==
  ASSUME DumpInv,
         \/ SkipReport \/ ClaimInterface \/ Fetch \/ FetchDone \/ ReportsDone
  PROVE  Below(Measure', Measure)
<1> USE MeasureIs, NextMeasureIs, Phases
<1>1. /\ Phase[pc'] = Phase[pc] /\ Measure'[2] = Measure[2]
      /\ Measure'[3] = Measure[3] /\ Measure'[4] = Measure[4]
  <2>1. /\ pc \in {"report", "fetch"} /\ pc' \in {"report", "fetch", "walk"}
        /\ dev' = dev /\ index' = index /\ walks' = walks
    BY DEF SkipReport, ClaimInterface, Fetch, FetchDone, ReportsDone, device,
           configuration
  <2>2. QED BY <2>1
<1>2. \A j \in 2 .. 5 - 1 : j = 2 \/ j = 3 \/ j = 4 OBVIOUS
<1>3. CASE SkipReport \/ FetchDone
  <2>1. reports \in Seq(UINT16) /\ reports # <<>> /\ reports' = Tail(reports)
    BY <1>3 DEF SkipReport, FetchDone, DumpInv, Typed, ReportsInv
  <2>2. Len(reports') < Len(reports) BY <2>1
  <2>3. Measure'[5] < Measure[5] /\ 5 \in 2 .. 8 BY <2>2
  <2>4. \A j \in 2 .. 5 - 1 : Measure'[j] = Measure[j] BY <1>1, <1>2
  <2>5. QED BY <1>1, <2>3, <2>4, WithinPhase
<1>4. CASE ClaimInterface \/ ReportsDone
  <2>1. /\ reports' = reports
        /\ \/ pc = "report" /\ pc' = "fetch"
           \/ pc = "report" /\ pc' = "walk"
    BY <1>4 DEF ClaimInterface, ReportsDone, report
  <2>2. Measure'[6] < Measure[6] /\ 6 \in 2 .. 8 BY <2>1
  <2>3. \A j \in 2 .. 6 - 1 : j \in 2 .. 5 - 1 \/ j = 5 OBVIOUS
  <2>4. Measure'[5] = Measure[5] BY <2>1
  <2>5. \A j \in 2 .. 6 - 1 : Measure'[j] = Measure[j]
    BY <1>1, <1>2, <2>3, <2>4
  <2>6. QED BY <1>1, <2>2, <2>5, WithinPhase
<1>5. CASE Fetch
  <2>1. reports' = reports /\ pc' = pc /\ retries' = retries - 1
        /\ retries \in Int
    BY <1>5 DEF Fetch, DumpInv, Typed
  <2>2. Measure'[7] < Measure[7] /\ 7 \in 2 .. 8 BY <2>1
  <2>3. \A j \in 2 .. 7 - 1 : j \in 2 .. 5 - 1 \/ j = 5 \/ j = 6 OBVIOUS
  <2>4. Measure'[5] = Measure[5] /\ Measure'[6] = Measure[6] BY <2>1
  <2>5. \A j \in 2 .. 7 - 1 : Measure'[j] = Measure[j]
    BY <1>1, <1>2, <2>3, <2>4
  <2>6. QED BY <1>1, <2>2, <2>5, WithinPhase
<1>6. QED BY <1>3, <1>4, <1>5

LEMMA PortStatusUses ==
  ASSUME DumpInv, PortStatus PROVE Below(Measure', Measure)
<1> USE MeasureIs, NextMeasureIs
<1>1. /\ Phase[pc'] = Phase[pc] /\ ports' = ports - 1 /\ ports \in Int
      /\ \A j \in 2 .. 8 - 1 : Measure'[j] = Measure[j]
  <2>1. /\ pc' = pc /\ dev' = dev /\ index' = index /\ walks' = walks
        /\ reports' = reports /\ retries' = retries /\ ports' = ports - 1
    BY DEF PortStatus, device, configuration, report
  <2>2. ports \in Int BY Bytes8And16 DEF DumpInv, Typed
  <2>3. /\ Measure'[2] = Measure[2] /\ Measure'[3] = Measure[3]
        /\ Measure'[4] = Measure[4] /\ Measure'[5] = Measure[5]
        /\ Measure'[6] = Measure[6] /\ Measure'[7] = Measure[7]
    BY <2>1
  <2>4. \A j \in 2 .. 8 - 1 :
          j = 2 \/ j = 3 \/ j = 4 \/ j = 5 \/ j = 6 \/ j = 7
    OBVIOUS
  <2>5. QED BY <2>1, <2>2, <2>3, <2>4
<1>2. Measure'[8] < Measure[8] /\ 8 \in 2 .. 8 BY <1>1
<1>3. QED BY <1>1, <1>2, WithinPhase

\* Every step uses up something.
LEMMA DumpStepUses ==
  ASSUME DumpInv, DumpStep PROVE Below(Measure', Measure)
BY PhasesGoOn, ReadConfigUses, WalksUse, ConfigDumpedUses, ReportsUse,
   PortStatusUses DEF DumpStep

\* Every step of dumpdev() uses up something of which there is an end: it
\* returns, whatever lengths the descriptors state and the device answers.
THEOREM DumpEveryStepUsesSomething == Spec => EveryStepUsesSomething
<1>1. DumpInv /\ [Next]_vars => [pc # "idle" => Below(Measure', Measure)]_vars
  <2>1. ASSUME NEW d \in Devices, Call(d) PROVE pc = "idle"
    BY <2>1 DEF Call
  <2>2. ASSUME DumpInv, [Next]_vars, pc # "idle", ~ UNCHANGED vars
        PROVE  Below(Measure', Measure)
    <3>1. DumpStep BY <2>1, <2>2 DEF Next
    <3>2. QED BY <2>2, <3>1, DumpStepUses
  <2>3. QED BY <2>2
<1>2. QED BY <1>1, Dumping, PTL DEF Spec, EveryStepUsesSomething

\* And there is an end: what is used up are eight numbers, each at least 0, so
\* that no sequence of steps uses up something for ever.
THEOREM DumpMeasuresInNumbers ==
  Spec => [](\A k \in 1 .. 8 : Measure[k] \in Nat)
<1>1. DumpInv => \A k \in 1 .. 8 : Measure[k] \in Nat
  <2> SUFFICES ASSUME DumpInv PROVE \A k \in 1 .. 8 : Measure[k] \in Nat
    OBVIOUS
  <2>1. Phase[pc] \in Nat
    <3>1. pc \in Locations BY DEF DumpInv, Typed
    <3>2. \A p \in Locations : Phase[p] \in 0 .. 12
      BY Phases DEF Locations
    <3>3. QED BY <3>1, <3>2
  <2>2. Measure[2] \in Nat
    <3>1. CASE dev = NoDevice BY <3>1, MeasureIs
    <3>2. CASE dev # NoDevice
      <4>1. pc # "idle" BY <3>2 DEF DumpInv, DeviceInv
      <4>2. Len(Configs[dev]) \in Nat BY <4>1, AtDevice, LenProperties
      <4>3. index \in Nat /\ index <= Len(Configs[dev])
        BY <4>2 DEF DumpInv, Typed, DeviceInv
      <4>4. QED BY <3>2, <4>2, <4>3, MeasureIs
    <3>3. QED BY <3>1, <3>2
  <2>3. BytesLeft(walks) \in Nat
    <3>1. walks \in Seq(AnyWalk) /\ Len(walks) \in 0 .. Len(walks)
      BY LenProperties DEF DumpInv, Typed
    <3>2. QED BY <3>1, BytesLeftIs
  <2>4. Len(reports) \in Nat BY LenProperties DEF DumpInv, Typed
  <2>5. retries \in Nat /\ ports \in Nat
    BY Bytes8And16 DEF DumpInv, Typed
  <2>6. Measure[1] \in Nat /\ Measure[3] \in Nat /\ Measure[4] \in Nat
        /\ Measure[5] \in Nat /\ Measure[6] \in Nat /\ Measure[7] \in Nat
        /\ Measure[8] \in Nat
    BY <2>1, <2>3, <2>4, <2>5, MeasureIs
  <2>7. \A k \in 1 .. 8 : k = 1 \/ k = 2 \/ k = 3 \/ k = 4 \/ k = 5 \/ k = 6
                          \/ k = 7 \/ k = 8
    OBVIOUS
  <2>8. QED BY <2>2, <2>6, <2>7
<1>2. QED BY <1>1, Dumping, PTL

-----------------------------------------------------------------------------
(* What is shown.                                                          *)

\* The dump of a report descriptor: it reaches the end of the answer, or it
\* stops before an item that does not fit.
LEMMA ReportReads ==
  ASSUME NEW b \in Seq(UINT8)
  PROVE  LET dump == dump_report_desc(b) IN
         /\ dump.reads \in 0 .. Len(b) /\ dump.as = "REPORT"
         /\ dump.end \in {"fields", "short"}
         /\ dump.end = "fields" => dump.reads = Len(b)
         /\ ByItself(b, dump)
<1> DEFINE N == Len(b)
           size(i) == IF b[i + 1] % 4 = 3 THEN 4 ELSE b[i + 1] % 4
           whole == Dumped("REPORT", "fields", N, N)
           S == {whole} \cup {Dumped("REPORT", "short", r, N) : r \in 1 .. N}
           ends == [k \in 0 .. N |-> k = N \/ k + 1 + size(k) > N]
           base == [k \in 0 .. N |->
                      IF k = N THEN Dumped("REPORT", "fields", k, N)
                      ELSE Dumped("REPORT", "short", k + 1, N)]
           next == [k \in 0 .. N |-> k + 1 + size(k)]
           Solves(f) ==
             f = [k \in 0 .. N |-> IF ends[k] THEN base[k] ELSE f[next[k]]]
           Runs(f) ==
             f = [i \in 0 .. Len(b) |->
                    IF i = Len(b) THEN Dumped("REPORT", "fields", i, Len(b))
                    ELSE IF i + 1 + size(i) > Len(b)
                         THEN Dumped("REPORT", "short", i + 1, Len(b))
                         ELSE f[i + 1 + size(i)]]
           from == CHOOSE f : Runs(f)
<1>1. N \in Nat OBVIOUS
<1>2. ASSUME NEW k \in 0 .. N, k # N PROVE size(k) \in Nat
  <2>1. k + 1 \in 1 .. N BY <1>2
  <2>2. b[k + 1] \in Nat BY <2>1, ElementOfSeq, Bytes8And16
  <2>3. QED BY <2>2
<1>3. GoesOn(ends, next, N)
  <2>1. ASSUME NEW k \in 0 .. N, ~ ends[k]
        PROVE  next[k] \in 0 .. N /\ next[k] > k
    <3>1. k # N /\ ~ (k + 1 + size(k) > N) BY <2>1
    <3>2. size(k) \in Nat BY <1>2, <3>1
    <3>3. next[k] = k + 1 + size(k) OBVIOUS
    <3> HIDE DEF size, next, ends
    <3>4. QED BY <1>1, <3>1, <3>2, <3>3
  <2> HIDE DEF ends, next
  <2>2. QED BY <2>1 DEF GoesOn
<1>4. \A f : Solves(f) <=> Runs(f)
  <2> SUFFICES ASSUME NEW f PROVE Solves(f) <=> Runs(f) OBVIOUS
  <2>1. ASSUME NEW k \in 0 .. N
        PROVE  (IF ends[k] THEN base[k] ELSE f[next[k]])
                 = IF k = Len(b) THEN Dumped("REPORT", "fields", k, Len(b))
                   ELSE IF k + 1 + size(k) > Len(b)
                        THEN Dumped("REPORT", "short", k + 1, Len(b))
                        ELSE f[k + 1 + size(k)]
    OBVIOUS
  <2> HIDE DEF ends, base, next, size
  <2>2. QED BY <2>1
<1>5. Solves(from)
  <2>1. \E f : Solves(f)
    <3> HIDE DEF N, ends, base, next
    <3>1. QED BY <1>1, <1>3, DownExists, SMTT(30)
  <2> HIDE DEF Solves, Runs
  <2>2. \E f : Runs(f) BY <1>4, <2>1
  <2>3. QED BY <1>4, <2>2
<1>6. dump_report_desc(b) = from[0] BY DEF dump_report_desc
<1>7. from[0] \in S
  <2>1. \A k \in 0 .. N : ends[k] => base[k] \in S
    <3> SUFFICES ASSUME NEW k \in 0 .. N PROVE base[k] \in S OBVIOUS
    <3>1. CASE k = N BY <3>1
    <3>2. CASE k # N
      <4>1. k + 1 \in 1 .. N BY <1>1, <3>2
      <4>2. QED BY <3>2, <4>1
    <3>3. QED BY <3>1, <3>2
  <2>2. IsDown(from, ends, base, next, N)
    <3> HIDE DEF ends, base, next, N, from
    <3>1. QED BY <1>5 DEF IsDown
  <2> HIDE DEF ends, base, next, N, from, S, Solves
  <2>3. \A k \in 0 .. N : from[k] \in S BY <1>1, <1>3, <2>1, <2>2, DownIs
  <2>4. QED BY <1>1, <2>3
<1> HIDE DEF from
<1>8. \A d \in S : /\ d.reads \in 0 .. N /\ d.as = "REPORT"
                   /\ d.end \in {"fields", "short"}
                   /\ d.end = "fields" => d.reads = N
                   /\ ByItself(b, d)
  BY <1>1 DEF Dumped, ByItself
<1> HIDE DEF S
<1>9. QED BY <1>6, <1>7, <1>8

\* The descriptor of a hub and its bitmasks.
LEMMA HubReads ==
  ASSUME NEW buf \in Seq(UINT8), Len(buf) = HubBuffer, NEW tt_type
  PROVE  ByItself(buf, dump_hub(buf, tt_type))
         /\ NotOtg(dump_hub(buf, tt_type))
<1> DEFINE l == BitmaskBytes(buf[3])
<1>1. l \in Int /\ l <= 3
  <2>1. buf[3] \in Nat
    <3>1. 3 \in 1 .. Len(buf) BY DEF HubBuffer
    <3>2. QED BY <3>1, ElementOfSeq, Bytes8And16
  <2> DEFINE n == buf[3]
  <2>2. n \div 8 + 1 \in Int BY <2>1
  <2>3. QED BY <2>2 DEF BitmaskBytes
<1>2. dump_hub(buf, tt_type)
        = Dumped("HUB", "fields", IF tt_type = 3 THEN 10 + l ELSE 7 + l + l,
                 HubBuffer)
  BY DEF dump_hub
<1> HIDE DEF l
<1>3. QED BY <1>1, <1>2 DEF Dumped, HubBuffer, NotOtg, ByItself

\* A dump without a table is complete.
LEMMA CompletedPlain ==
  ASSUME NEW buf, NEW dump, dump.end # "table"
  PROVE  Completed(buf, dump) = dump
BY DEF Completed

\* What is known of the dump chosen for the last descriptor.
LEMMA ChosenIs ==
  ASSUME DumpInv
  PROVE  /\ last.buf \in Seq(UINT8)
         /\ KnownReads(last.buf, Chosen(last.buf))
         /\ \/ last.of \in {"config", "interface", "endpoint"}
               /\ Byte(last.buf, 1) = OTG
            \/ NotOtg(Chosen(last.buf))
<1> DEFINE buf == last.buf
<1>1. buf \in Seq(UINT8) /\ last.of \in {"none", "config", "interface",
                                         "endpoint", "bos", "report", "hub"}
  BY DEF DumpInv, LastInv, Dumps
<1>2. CASE last.of \in {"config", "interface", "endpoint"}
  <2>1. Len(buf) >= 2 BY <1>2 DEF DumpInv, LastInv
  <2>2. CASE last.of = "config"
    <3>1. Chosen(buf) = ConfigExtra(buf) BY <2>2 DEF Chosen
    <3>2. KnownReads(buf, Chosen(buf))
      BY <1>1, <2>1, <3>1, ConfigExtraReads DEF KnownReads
    <3>3. Byte(buf, 1) # OTG => NotOtg(Chosen(buf)) BY <3>1, OtgByType
    <3>4. QED BY <1>1, <2>2, <3>2, <3>3
  <2>3. CASE last.of = "interface"
    <3>1. Chosen(buf) = InterfaceExtra(buf, last.alt) BY <2>3 DEF Chosen
    <3>2. KnownReads(buf, Chosen(buf))
      BY <1>1, <2>1, <3>1, InterfaceExtraReads
    <3>3. Byte(buf, 1) # OTG => NotOtg(Chosen(buf)) BY <3>1, OtgByType
    <3>4. QED BY <1>1, <2>3, <3>2, <3>3
  <2>4. CASE last.of = "endpoint"
    <3>1. Chosen(buf) = EndpointExtra(buf, last.alt, last.attributes)
      BY <2>4 DEF Chosen
    <3>2. KnownReads(buf, Chosen(buf))
      BY <1>1, <2>1, <3>1, EndpointExtraReads DEF KnownReads
    <3>3. Byte(buf, 1) # OTG => NotOtg(Chosen(buf)) BY <3>1, OtgByType
    <3>4. QED BY <1>1, <2>4, <3>2, <3>3
  <2>5. QED BY <1>2, <2>2, <2>3, <2>4
<1>3. CASE last.of = "bos"
  <2>1. Len(buf) >= 3 BY <1>3 DEF DumpInv, LastInv
  <2>2. Chosen(buf) = DeviceCapability(buf) BY <1>3 DEF Chosen
  <2>3. KnownReads(buf, Chosen(buf))
    BY <1>1, <2>1, <2>2, DeviceCapabilityReads DEF KnownReads
  <2>4. NotOtg(Chosen(buf)) BY <2>2, CapabilityNamed
  <2>5. QED BY <1>1, <2>3, <2>4
<1>4. CASE last.of = "report"
  <2>1. Chosen(buf) = dump_report_desc(buf) BY <1>4 DEF Chosen
  <2>2. ByItself(buf, Chosen(buf)) /\ Chosen(buf).as = "REPORT"
    BY <1>1, <2>1, ReportReads
  <2>3. QED BY <1>1, <2>2 DEF KnownReads, StaysWithin, NotOtg
<1>5. CASE last.of = "hub"
  <2>1. Chosen(buf) = dump_hub(buf, Descriptor[dev].protocol)
    BY <1>5 DEF Chosen
  <2>2. Len(buf) = HubBuffer BY <1>5 DEF DumpInv, LastInv
  <2>3. ByItself(buf, Chosen(buf)) /\ NotOtg(Chosen(buf))
    BY <1>1, <2>1, <2>2, HubReads
  <2>4. QED BY <1>1, <2>3 DEF KnownReads, StaysWithin
<1>6. CASE last.of = "none"
  <2>1. Chosen(buf) = Dumped("NONE", "hidden", 0, 0) BY <1>6 DEF Chosen
  <2>2. Len(buf) \in Nat BY <1>1
  <2>3. ByItself(buf, Chosen(buf)) /\ NotOtg(Chosen(buf))
    BY <2>1, <2>2 DEF Dumped, ByItself, NotOtg
  <2>4. QED BY <1>1, <2>3 DEF KnownReads, StaysWithin
<1>7. QED BY <1>1, <1>2, <1>3, <1>4, <1>5, <1>6

\* What is known of it when its table has completed it.
LEMMA ShownIs ==
  ASSUME DumpInv
  PROVE  /\ Shown.reads <= Len(last.buf) \/ HeaderWithoutControls(Shown)
         /\ Shown.as = "OTG" => last.of \in {"config", "interface", "endpoint"}
                                /\ Byte(last.buf, 1) = OTG
<1>1. Shown.as = Chosen(last.buf).as
  BY ChosenIs, CompletedWithin, CompletedPlain
  DEF KnownReads, WithoutControls, Shown
<1>2. Shown.reads <= Len(last.buf) \/ HeaderWithoutControls(Shown)
  BY ChosenIs, CompletedWithin, CompletedPlain
  DEF KnownReads, WithoutControls, HeaderWithoutControls, Shown
<1>3. QED BY <1>1, <1>2, ChosenIs DEF NotOtg

\* A dump by a table shows all exactly if the descriptor is well-formed.
LEMMA TabledAsDescribed ==
  ASSUME last.buf \in Seq(UINT8), NEW dump, ByATable(last.buf, dump)
  PROVE  AsDescribed(Completed(last.buf, dump))
<1> DEFINE buf == last.buf
           rest == SubSeq(buf, dump.skip + 1, Len(buf))
           d == desc_dump(rest, dump.desc)
           c == Completed(buf, dump)
<1>1. /\ dump.skip \in Nat /\ dump.skip <= Len(buf) /\ Len(buf) \in Nat
      /\ dump = Tabled(dump.as, dump.desc, dump.skip)
      /\ SoundTables(dump.desc)
  BY DEF ByATable
<1>2. rest \in Seq(UINT8) /\ Len(rest) = Len(buf) - dump.skip BY <1>1
<1> HIDE DEF rest
<1>3. d \in Positions(rest) BY <1>1, <1>2, DescDumpWithin
<1>4. d.offset \in Nat BY <1>2, <1>3 DEF Positions
<1>5. FixedPrefix(dump.desc) =>
        (ShowsAll(rest, d) <=> WellFormed(rest, dump.desc))
  BY <1>1, <1>2, DescDumpShowsAll
<1>6. c = ByTable(Tabled(dump.as, dump.desc, dump.skip), d)
  BY <1>1 DEF Completed, Tabled, rest
<1> HIDE DEF d
<1>7. /\ c.desc = dump.desc /\ c.skip = dump.skip
      /\ c.raw = dump.skip + d.offset
      /\ c.end = IF d.end = "insufficient" THEN "short" ELSE "fields"
  BY <1>6 DEF ByTable, Tabled
<1> HIDE DEF c
<1>8. Whole(c) <=> ShowsAll(rest, d)
  BY <1>1, <1>2, <1>4, <1>7 DEF Whole, ShowsAll
<1>9. DescribedBytes(c) = rest BY <1>7 DEF DescribedBytes, rest
<1>10. QED BY <1>5, <1>7, <1>8, <1>9 DEF AsDescribed, c

\* No dump of a descriptor looks beyond the descriptor, nor beyond the bytes
\* read, whatever the device states; a video streaming header whose formats
\* have no control bytes is the one exception.
THEOREM DumpReadsWithinDescriptor == Spec => []ReadsWithinDescriptor
<1>1. DumpInv => ReadsWithinDescriptor
  <2> SUFFICES ASSUME DumpInv PROVE ReadsWithinDescriptor OBVIOUS
  <2>1. Within(Shown) BY ShownIs DEF Within
  <2>2. Len(last.buf) <= last.avail
    BY DEF DumpInv, LastInv, Dumps
  <2>3. QED BY <2>1, <2>2 DEF ReadsWithinDescriptor
<1>2. QED BY <1>1, Dumping, PTL

\* What desc_dump() shows without complaint and without junk is exactly what
\* the fields of its table fill, at the offsets and of the lengths it states.
THEOREM DumpWholeIffWellFormed == Spec => []WholeIffWellFormed
<1>1. DumpInv => WholeIffWellFormed
  <2> SUFFICES ASSUME DumpInv PROVE AsDescribed(Shown)
    BY DEF WholeIffWellFormed
  <2> DEFINE dump == Chosen(last.buf)
  <2>1. last.buf \in Seq(UINT8) /\ KnownReads(last.buf, dump) BY ChosenIs
  <2> HIDE DEF dump
  <2>2. CASE ByATable(last.buf, dump)
    BY <2>1, <2>2, TabledAsDescribed DEF Shown, dump
  <2>3. CASE ~ ByATable(last.buf, dump)
    <3>1. dump.end # "table" /\ dump.desc = desc_undefined
      BY <2>1, <2>3
      DEF KnownReads, StaysWithin, WithoutControls, ByItself, Dumped
    <3>2. Shown = dump BY <3>1, CompletedPlain DEF Shown, dump
    <3>3. QED BY <3>1, <3>2 DEF AsDescribed
  <2>4. QED BY <2>2, <2>3
<1>2. QED BY <1>1, Dumping, PTL

\* dump_report_desc() stays within what the device answered, and shows all of
\* it unless the last item is truncated.
THEOREM DumpReportWithinAnswer == Spec => []ReportWithinAnswer
<1>1. DumpInv => ReportWithinAnswer
  <2> SUFFICES ASSUME DumpInv, last.of = "report" PROVE AnswerShown(Shown)
    BY DEF ReportWithinAnswer
  <2> DEFINE dump == dump_report_desc(last.buf)
  <2>1. last.buf \in Seq(UINT8) /\ Len(last.buf) = last.avail
    BY DEF DumpInv, LastInv, Dumps
  <2>2. /\ dump.reads \in 0 .. Len(last.buf)
        /\ dump.end \in {"fields", "short"}
        /\ dump.end = "fields" => dump.reads = Len(last.buf)
    BY <2>1, ReportReads
  <2> HIDE DEF dump
  <2>3. Chosen(last.buf) = dump BY DEF Chosen, dump
  <2>4. Shown = dump BY <2>2, <2>3, CompletedPlain DEF Shown
  <2>5. QED BY <2>1, <2>2, <2>4 DEF AnswerShown
<1>2. QED BY <1>1, Dumping, PTL

\* What the walks leave out as an OTG descriptor do_otg() has found.
THEOREM DumpOtgNotLost == Spec => []OtgNotLost
<1>1. DumpInv => OtgNotLost
  <2> SUFFICES ASSUME DumpInv, Shown.as = "OTG", Len(last.buf) = 3,
                      config # NoConfig
               PROVE  otg
    BY DEF OtgNotLost
  <2>1. last.of \in {"config", "interface", "endpoint"}
        /\ Byte(last.buf, 1) = OTG
    BY ShownIs
  <2>2. last.buf[2] = OTG BY <2>1 DEF Byte
  <2>3. pc \in OfConfig BY <2>1 DEF DumpInv, LastInv
  <2>4. QED BY <2>1, <2>2, <2>3 DEF DumpInv, OtgInv
<1>2. QED BY <1>1, Dumping, PTL

=============================================================================
