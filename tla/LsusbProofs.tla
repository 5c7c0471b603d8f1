----------------------------- MODULE LsusbProofs ----------------------------
(***************************************************************************)
(* Proofs about Lsusb: what lsusb lists, what it returns and what it holds *)
(* while devices come and go.                                              *)
(***************************************************************************)
EXTENDS Lsusb, LsusbDumpProofs

-----------------------------------------------------------------------------
(* Loops.  A loop that goes from x to next[x] until it is in T is a        *)
(* function, whether or not it ends; what it computes is found by a number *)
(* that gets smaller.                                                      *)

\* s leads from x to the end of the loop in n steps.
LeadsTo(s, n, x, T, next) ==
  /\ s[0] = x /\ s[n] \in T
  /\ \A k \in 0 .. n - 1 : s[k] \notin T /\ s[k + 1] = next[s[k]]

\* What the loop gives when it starts at x: nothing if it does not end.
Results(x, X, T, next, out) ==
  {y \in {out[z] : z \in X} :
     \E n \in Nat : \E s \in [0 .. n -> X] :
       LeadsTo(s, n, x, T, next) /\ y = out[s[n]]}

\* At its end, a loop gives out of where it is.
LEMMA ResultsAtEnd ==
  ASSUME NEW X, NEW T, NEW next \in [X -> X], NEW out, NEW x \in X, x \in T
  PROVE  Results(x, X, T, next, out) = {out[x]}
<1>1. ASSUME NEW n \in Nat, NEW s \in [0 .. n -> X],
             LeadsTo(s, n, x, T, next)
      PROVE  s[n] = x
  <2>1. n = 0
    <3>1. SUFFICES ASSUME n # 0 PROVE FALSE OBVIOUS
    <3>2. 0 \in 0 .. n - 1 BY <3>1
    <3>3. QED BY <1>1, <3>2 DEF LeadsTo
  <2>2. QED BY <1>1, <2>1 DEF LeadsTo
<1>2. out[x] \in Results(x, X, T, next, out)
  <2> DEFINE s == [k \in 0 .. 0 |-> x]
  <2>1. s \in [0 .. 0 -> X] /\ LeadsTo(s, 0, x, T, next) /\ s[0] = x
    BY DEF LeadsTo
  <2> HIDE DEF s
  <2>2. 0 \in Nat OBVIOUS
  <2>3. QED BY <2>1, <2>2 DEF Results
<1>3. QED BY <1>1, <1>2 DEF Results

\* A step before, it gives what it gives from the next place on.
LEMMA ResultsBefore ==
  ASSUME NEW X, NEW T, NEW next \in [X -> X], NEW out, NEW x \in X, x \notin T
  PROVE  Results(x, X, T, next, out) = Results(next[x], X, T, next, out)
<1>1. ASSUME NEW n \in Nat, NEW s \in [0 .. n -> X],
             LeadsTo(s, n, x, T, next)
      PROVE  \E m \in Nat : \E t \in [0 .. m -> X] :
               LeadsTo(t, m, next[x], T, next) /\ out[t[m]] = out[s[n]]
  <2>1. n # 0 BY <1>1 DEF LeadsTo
  <2> DEFINE t == [k \in 0 .. n - 1 |-> s[k + 1]]
  <2>2. \A k \in 0 .. n - 1 : k + 1 \in 0 .. n BY <2>1
  <2>3. t \in [0 .. n - 1 -> X] BY <2>2
  <2>4. t[n - 1] = s[n] BY <2>1
  <2>5. t[0] = next[x] BY <1>1, <2>1 DEF LeadsTo
  <2>6. ASSUME NEW k \in 0 .. (n - 1) - 1
        PROVE  t[k] \notin T /\ t[k + 1] = next[t[k]]
    <3>1. k \in 0 .. n - 1 /\ k + 1 \in 0 .. n - 1 BY <2>1
    <3>2. t[k] = s[k + 1] /\ t[k + 1] = s[(k + 1) + 1] BY <3>1
    <3>3. s[k + 1] \notin T /\ s[(k + 1) + 1] = next[s[k + 1]]
      BY <1>1, <3>1 DEF LeadsTo
    <3>4. QED BY <3>2, <3>3
  <2>7. s[n] \in T BY <1>1 DEF LeadsTo
  <2> HIDE DEF t
  <2>8. LeadsTo(t, n - 1, next[x], T, next)
    BY <2>4, <2>5, <2>6, <2>7 DEF LeadsTo
  <2>9. n - 1 \in Nat BY <2>1
  <2>10. QED BY <2>3, <2>4, <2>8, <2>9
<1>2. ASSUME NEW n \in Nat, NEW s \in [0 .. n -> X],
             LeadsTo(s, n, next[x], T, next)
      PROVE  \E m \in Nat : \E t \in [0 .. m -> X] :
               LeadsTo(t, m, x, T, next) /\ out[t[m]] = out[s[n]]
  <2> DEFINE t == [k \in 0 .. n + 1 |-> IF k = 0 THEN x ELSE s[k - 1]]
  <2>1. \A k \in 0 .. n + 1 : k # 0 => k - 1 \in 0 .. n OBVIOUS
  <2>2. t \in [0 .. n + 1 -> X] BY <2>1
  <2>3. t[0] = x /\ t[n + 1] = s[n] OBVIOUS
  <2>4. ASSUME NEW k \in 0 .. (n + 1) - 1
        PROVE  t[k] \notin T /\ t[k + 1] = next[t[k]]
    <3>1. CASE k = 0
      <4>1. t[k] = x /\ t[k + 1] = s[0] BY <3>1
      <4>2. QED BY <1>2, <4>1 DEF LeadsTo
    <3>2. CASE k # 0
      <4>1. t[k] = s[k - 1] /\ t[k + 1] = s[k] BY <3>2
      <4>2. k - 1 \in 0 .. n - 1 /\ (k - 1) + 1 = k BY <3>2
      <4>3. s[k - 1] \notin T /\ s[(k - 1) + 1] = next[s[k - 1]]
        BY <1>2, <4>2 DEF LeadsTo
      <4>4. QED BY <4>1, <4>2, <4>3
    <3>3. QED BY <3>1, <3>2
  <2>5. s[n] \in T BY <1>2 DEF LeadsTo
  <2> HIDE DEF t
  <2>6. LeadsTo(t, n + 1, x, T, next) BY <2>3, <2>4, <2>5 DEF LeadsTo
  <2>7. n + 1 \in Nat OBVIOUS
  <2>8. QED BY <2>2, <2>3, <2>6, <2>7
<1>3. QED BY <1>1, <1>2 DEF Results

\* f is what the loop gives.
IsLoop(f, X, T, next, out) ==
  f = [x \in X |-> IF x \in T THEN out[x] ELSE f[next[x]]]

\* There is a function a loop defines.
LEMMA LoopExists ==
  ASSUME NEW X, NEW T, NEW next \in [X -> X], NEW out
  PROVE  \E f : IsLoop(f, X, T, next, out)
<1> DEFINE R(x) == Results(x, X, T, next, out)
           f == [x \in X |-> CHOOSE y : y \in R(x)]
<1>1. ASSUME NEW x \in X, x \in T PROVE f[x] = out[x]
  <2>1. R(x) = {out[x]} BY <1>1, ResultsAtEnd
  <2> HIDE DEF R
  <2>2. QED BY <2>1
<1>2. ASSUME NEW x \in X, x \notin T PROVE f[x] = f[next[x]]
  <2>1. R(x) = R(next[x]) BY <1>2, ResultsBefore
  <2>2. next[x] \in X OBVIOUS
  <2> HIDE DEF R
  <2>3. QED BY <2>1, <2>2
<1>3. DOMAIN f = X /\ f = [x \in X |-> f[x]] OBVIOUS
<1> HIDE DEF f
<1>4. IsLoop(f, X, T, next, out) BY <1>1, <1>2, <1>3 DEF IsLoop
<1>5. QED BY <1>4

\* What holds if it holds wherever the number is smaller holds everywhere.
LEMMA ByMeasure ==
  ASSUME NEW X, NEW m \in [X -> Nat], NEW H \in SUBSET X,
         \A x \in X : (\A z \in X : m[z] < m[x] => z \in H) => x \in H
  PROVE  H = X
<1>1. SUFFICES ASSUME X \ H # {} PROVE FALSE OBVIOUS
<1> DEFINE B == {m[x] : x \in X \ H}
<1>2. B \in SUBSET Nat /\ B # {} BY <1>1
<1>3. PICK n \in B : \A k \in B : n <= k BY <1>2, Least
<1>4. PICK x \in X \ H : n = m[x] BY <1>3
<1>5. ASSUME NEW z \in X, m[z] < m[x], z \notin H PROVE FALSE
  <2>1. m[z] \in B BY <1>5
  <2>2. m[z] \in Nat /\ m[x] \in Nat BY <1>4
  <2> HIDE DEF B
  <2>3. n <= m[z] BY <1>3, <2>1
  <2>4. QED BY <1>4, <1>5, <2>2, <2>3
<1>6. QED BY <1>4, <1>5

-----------------------------------------------------------------------------
(* sort_device_list().                                                     *)

\* Addresses are compared as numbers.
LEMMA AddressIs ==
  ASSUME NEW d \in Devices
  PROVE  /\ Address[d] \in [bus : UINT8, dev : UINT8]
         /\ Address[d].bus \in Nat /\ Address[d].dev \in Nat
<1>1. Address[d] \in [bus : UINT8, dev : UINT8] BY LsusbAssumption
<1>2. Address[d].bus \in UINT8 /\ Address[d].dev \in UINT8 BY <1>1
<1>3. QED BY <1>1, <1>2, Bytes8And16

\* The order of the devices is that of their addresses.
LEMMA BeforeIs ==
  /\ \A a, b \in Devices : Before(a, b) => ~ Before(b, a)
  /\ \A a, b, c \in Devices : Before(a, b) /\ Before(b, c) => Before(a, c)
  /\ \A a, b \in Devices :
       Address[a] # Address[b] => Before(a, b) \/ Before(b, a)
<1>1. \A a \in Devices : Address[a].bus \in Nat /\ Address[a].dev \in Nat
  BY AddressIs
<1>2. ASSUME NEW a \in Devices, NEW b \in Devices, Address[a] # Address[b]
      PROVE  Address[a].bus # Address[b].bus \/ Address[a].dev # Address[b].dev
  BY <1>2, AddressIs
<1>3. QED BY <1>1, <1>2 DEF Before

\* An exchange of neighbours leaves the others where they are.
LEMMA ExchangedIs ==
  ASSUME NEW l \in Seq(Devices), NEW k \in 1 .. Len(l) - 1
  PROVE  /\ Exchanged(l, k) \in Seq(Devices)
         /\ Len(Exchanged(l, k)) = Len(l)
         /\ Exchanged(l, k)[k] = l[k + 1] /\ Exchanged(l, k)[k + 1] = l[k]
         /\ \A j \in 1 .. Len(l) :
              j # k /\ j # k + 1 => Exchanged(l, k)[j] = l[j]
<1>1. Len(l) \in Nat /\ k \in 1 .. Len(l) /\ k + 1 \in 1 .. Len(l)
      /\ k # k + 1
  BY LenProperties
<1>2. l[k] \in Devices /\ l[k + 1] \in Devices BY <1>1, ElementOfSeq
<1> DEFINE s == [l EXCEPT ![k] = l[k + 1]]
<1>3. s \in Seq(Devices) /\ Len(s) = Len(l)
      /\ s[k] = l[k + 1]
      /\ \A j \in 1 .. Len(l) : j # k => s[j] = l[j]
  BY <1>1, <1>2, ExceptSeq
<1> HIDE DEF s
<1> DEFINE t == [s EXCEPT ![k + 1] = l[k]]
<1>4. t \in Seq(Devices) /\ Len(t) = Len(s)
      /\ t[k + 1] = l[k]
      /\ \A j \in 1 .. Len(s) : j # k + 1 => t[j] = s[j]
  BY <1>1, <1>2, <1>3, ExceptSeq
<1>5. Exchanged(l, k) = t BY DEF Exchanged, s, t
<1> HIDE DEF t
<1>6. QED BY <1>1, <1>3, <1>4, <1>5

\* The pairs that are in the wrong order, of which an exchange leaves fewer.
Inverted(l) ==
  {q \in (1 .. Len(l)) \X (1 .. Len(l)) :
     q[1] < q[2] /\ Before(l[q[2]], l[q[1]])}

\* There is a finite number of such pairs.
LEMMA InvertedFinite ==
  ASSUME NEW l \in Seq(Devices)
  PROVE  IsFiniteSet(Inverted(l)) /\ Cardinality(Inverted(l)) \in Nat
<1> DEFINE N == Len(l)
<1>1. N \in Nat BY LenProperties
<1>2. IsFiniteSet(1 .. N) BY <1>1, 1 \in Int, N \in Int, FS_Interval, Zenon
<1>3. IsFiniteSet((1 .. N) \X (1 .. N)) BY <1>2, FS_Product
<1>4. Inverted(l) \in SUBSET ((1 .. N) \X (1 .. N)) BY DEF Inverted
<1>5. QED BY <1>3, <1>4, FS_Subset, FS_CardinalityType

\* An exchange of neighbours in the wrong order rights their pair, and wrongs
\* none.
LEMMA InvertedLess ==
  ASSUME NEW l \in Seq(Devices), NEW k \in 1 .. Len(l) - 1,
         Before(l[k + 1], l[k])
  PROVE  Cardinality(Inverted(Exchanged(l, k))) < Cardinality(Inverted(l))
<1> DEFINE e == Exchanged(l, k)
           N == Len(l)
           t(j) == IF j = k THEN k + 1 ELSE IF j = k + 1 THEN k ELSE j
           S == Inverted(e)
           P == <<k, k + 1>>
           D == Inverted(l) \ {P}
           g == [q \in S |-> <<t(q[1]), t(q[2])>>]
<1>1. N \in Nat /\ k \in 1 .. N /\ k + 1 \in 1 .. N BY LenProperties
<1>2. e \in Seq(Devices) /\ Len(e) = N
      /\ \A j \in 1 .. N : t(j) \in 1 .. N /\ e[j] = l[t(j)]
  BY <1>1, ExchangedIs
<1>3. \A j \in 1 .. N : l[j] \in Devices BY ElementOfSeq
<1> HIDE DEF e, N
<1>4. \A q \in S : /\ q[1] \in 1 .. N /\ q[2] \in 1 .. N /\ q[1] < q[2]
                   /\ q = <<q[1], q[2]>>
                   /\ Before(l[t(q[2])], l[t(q[1])])
  BY <1>2 DEF Inverted
<1>5. ASSUME NEW q \in S PROVE g[q] \in D
  <2>1. q[1] # k \/ q[2] # k + 1
    BY <1>1, <1>3, <1>4, BeforeIs
  <2>2. t(q[1]) < t(q[2]) BY <1>1, <1>4, <2>1
  <2>3. t(q[1]) # k \/ t(q[2]) # k + 1 BY <1>1, <1>4
  <2>4. t(q[1]) \in 1 .. N /\ t(q[2]) \in 1 .. N BY <1>2, <1>4
  <2>5. Before(l[t(q[2])], l[t(q[1])]) BY <1>4
  <2> HIDE DEF t
  <2>6. <<t(q[1]), t(q[2])>> \in Inverted(l)
    BY <2>2, <2>4, <2>5 DEF Inverted, N
  <2>7. QED BY <2>3, <2>6
<1>6. \A q, r \in S : g[q] = g[r] => q = r
  <2>1. SUFFICES ASSUME NEW q \in S, NEW r \in S, g[q] = g[r] PROVE q = r
    OBVIOUS
  <2>2. t(q[1]) = t(r[1]) /\ t(q[2]) = t(r[2]) BY <2>1
  <2>3. q[1] = r[1] /\ q[2] = r[2] BY <1>1, <1>4, <2>2
  <2>4. QED BY <1>4, <2>3
<1>7. IsFiniteSet(D) /\ Cardinality(D) = Cardinality(Inverted(l)) - 1
  <2>1. P \in Inverted(l)
    <3>1. <<k, k + 1>> \in (1 .. Len(l)) \X (1 .. Len(l)) BY <1>1 DEF N
    <3>2. k < k + 1 BY <1>1
    <3>3. QED BY <3>1, <3>2 DEF Inverted
  <2>2. IsFiniteSet(Inverted(l)) BY InvertedFinite
  <2>3. QED BY <2>1, <2>2, FS_RemoveElement
<1>8. g \in Injection(S, D)
  <2>1. g \in [S -> D] BY <1>5
  <2>2. DOMAIN g = S OBVIOUS
  <2> HIDE DEF g, S, D
  <2>3. QED BY <1>6, <2>1, <2>2 DEF Injection, IsInjective
<1>9. Cardinality(S) <= Cardinality(D)
  <2> HIDE DEF g, S, D
  <2>1. QED BY <1>7, <1>8, FS_Injection
<1>10. Cardinality(Inverted(l)) \in Nat /\ Cardinality(S) \in Nat
  BY <1>2, InvertedFinite
<1>11. QED BY <1>7, <1>9, <1>10 DEF e

\* The states of the sort, and those it ends in.
Passes == [of : Seq(Devices), k : Nat \ {0}, sorted : BOOLEAN]
Done == {p \in Passes : p.k >= Len(p.of) /\ p.sorted}

\* The pairs left to exchange, whether another pass is due, how far it is.
SortMeasure ==
  [p \in Passes |->
     (2 * Cardinality(Inverted(p.of)) + IF p.sorted THEN 0 ELSE 1)
       * (Len(p.of) + 1)
     + IF p.k < Len(p.of) THEN Len(p.of) - p.k ELSE 0]

\* Of two numbers with two digits the first digit decides.
LEMMA Lexicographic ==
  ASSUME NEW N \in Nat, NEW a \in Nat, NEW b \in Nat, NEW q \in Nat,
         NEW r \in Nat, r <= N, a < b
  PROVE  a * (N + 1) + r < b * (N + 1) + q
<1>1. (a + 1) * (N + 1) <= b * (N + 1)
  <2>1. a + 1 \in Nat /\ N + 1 \in Nat /\ a + 1 <= b OBVIOUS
  <2>2. QED BY <2>1, FewerEntries
<1>2. (a + 1) * (N + 1) = a * (N + 1) + (N + 1) OBVIOUS
<1>3. a * (N + 1) \in Nat /\ b * (N + 1) \in Nat OBVIOUS
<1>4. QED BY <1>1, <1>2, <1>3

\* The measure is a number of two such digits.
LEMMA SortMeasureIs ==
  ASSUME NEW p \in Passes
  PROVE  \E a \in Nat : \E r \in Nat :
           /\ a = 2 * Cardinality(Inverted(p.of)) + IF p.sorted THEN 0 ELSE 1
           /\ r = IF p.k < Len(p.of) THEN Len(p.of) - p.k ELSE 0
           /\ r <= Len(p.of) /\ Len(p.of) \in Nat
           /\ SortMeasure[p] = a * (Len(p.of) + 1) + r
           /\ SortMeasure[p] \in Nat
<1>1. p.of \in Seq(Devices) /\ p.k \in Nat /\ p.sorted \in BOOLEAN
  BY DEF Passes
<1> DEFINE C == Cardinality(Inverted(p.of))
           N == Len(p.of)
           a == 2 * C + IF p.sorted THEN 0 ELSE 1
           r == IF p.k < N THEN N - p.k ELSE 0
<1>2. C \in Nat /\ N \in Nat BY <1>1, InvertedFinite, LenProperties
<1>3. SortMeasure[p] = a * (N + 1) + r BY DEF SortMeasure
<1> HIDE DEF C, N
<1>4. a \in Nat /\ r \in Nat /\ r <= N BY <1>1, <1>2
<1> HIDE DEF a, r
<1>5. a * (N + 1) + r \in Nat BY <1>2, <1>4
<1>6. QED BY <1>2, <1>3, <1>4, <1>5 DEF a, r, C, N

\* The same devices in another order.
Rearranged(l, m) ==
  /\ m \in Seq(Devices) /\ Len(m) = Len(l)
  /\ \A j \in 1 .. Len(l) : \E h \in 1 .. Len(l) : m[j] = l[h]
  /\ \A j \in 1 .. Len(l) : \E h \in 1 .. Len(l) : l[j] = m[h]
  /\ (\A j, h \in 1 .. Len(l) : l[j] = l[h] => j = h)
       => \A j, h \in 1 .. Len(l) : m[j] = m[h] => j = h

\* What the pass has gone over is in order unless something was exchanged.
InOrder(l, n) == \A j \in 1 .. Len(l) - 1 : j < n => ~ Before(l[j + 1], l[j])
SoFar(p) == p.sorted => InOrder(p.of, p.k)

\* To rearrange nothing, and to rearrange twice, is to rearrange.
LEMMA RearrangedIs ==
  /\ \A l \in Seq(Devices) : Rearranged(l, l)
  /\ \A l, m, n \in Seq(Devices) :
       Rearranged(l, m) /\ Rearranged(m, n) => Rearranged(l, n)
<1>1. ASSUME NEW l \in Seq(Devices) PROVE Rearranged(l, l)
  BY DEF Rearranged
<1>2. ASSUME NEW l \in Seq(Devices), NEW m \in Seq(Devices),
             NEW n \in Seq(Devices), Rearranged(l, m), Rearranged(m, n)
      PROVE  Rearranged(l, n)
  <2>1. Len(n) = Len(l) /\ Len(m) = Len(l) BY <1>2 DEF Rearranged
  <2>2. \A j \in 1 .. Len(l) : \E h \in 1 .. Len(l) : n[j] = l[h]
    <3> TAKE j \in 1 .. Len(l)
    <3>1. PICK h \in 1 .. Len(l) : n[j] = m[h] BY <1>2, <2>1 DEF Rearranged
    <3>2. PICK i0 \in 1 .. Len(l) : m[h] = l[i0] BY <1>2 DEF Rearranged
    <3>3. QED BY <3>1, <3>2
  <2>3. \A j \in 1 .. Len(l) : \E h \in 1 .. Len(l) : l[j] = n[h]
    <3> TAKE j \in 1 .. Len(l)
    <3>1. PICK h \in 1 .. Len(l) : l[j] = m[h] BY <1>2 DEF Rearranged
    <3>2. PICK i0 \in 1 .. Len(l) : m[h] = n[i0] BY <1>2, <2>1 DEF Rearranged
    <3>3. QED BY <3>1, <3>2
  <2>4. (\A j, h \in 1 .. Len(l) : l[j] = l[h] => j = h)
          => \A j, h \in 1 .. Len(l) : n[j] = n[h] => j = h
    BY <1>2, <2>1 DEF Rearranged
  <2>5. QED BY <2>1, <2>2, <2>3, <2>4 DEF Rearranged
<1>3. QED BY <1>1, <1>2

\* An exchange rearranges.
LEMMA ExchangedRearranged ==
  ASSUME NEW l \in Seq(Devices), NEW k \in 1 .. Len(l) - 1
  PROVE  Rearranged(l, Exchanged(l, k))
<1> DEFINE e == Exchanged(l, k)
           N == Len(l)
           t(j) == IF j = k THEN k + 1 ELSE IF j = k + 1 THEN k ELSE j
<1>1. N \in Nat /\ k \in 1 .. N /\ k + 1 \in 1 .. N BY LenProperties
<1>2. e \in Seq(Devices) /\ Len(e) = N
      /\ \A j \in 1 .. N : t(j) \in 1 .. N /\ e[j] = l[t(j)]
  BY <1>1, ExchangedIs
<1>3. \A j \in 1 .. N : l[j] = e[t(j)] BY <1>1, ExchangedIs
<1>4. \A j, h \in 1 .. N : t(j) = t(h) => j = h BY <1>1
<1> HIDE DEF e, N, t
<1>5. (\A j, h \in 1 .. N : l[j] = l[h] => j = h)
        => \A j, h \in 1 .. N : e[j] = e[h] => j = h
  <2>1. SUFFICES ASSUME \A j, h \in 1 .. N : l[j] = l[h] => j = h,
                        NEW j \in 1 .. N, NEW h \in 1 .. N, e[j] = e[h]
                 PROVE  j = h
    OBVIOUS
  <2>2. t(j) \in 1 .. N /\ t(h) \in 1 .. N /\ l[t(j)] = l[t(h)]
    BY <1>2, <2>1
  <2>3. t(j) = t(h) BY <2>1, <2>2
  <2>4. QED BY <1>4, <2>3
<1>6. QED BY <1>2, <1>3, <1>5 DEF Rearranged, e, N

\* A step of the sort comes closer to its end.
LEMMA SortStepIs ==
  ASSUME NEW p \in Passes \ Done
  PROVE  /\ SortStep(p) \in Passes
         /\ SortMeasure[SortStep(p)] < SortMeasure[p]
         /\ Rearranged(p.of, SortStep(p).of)
         /\ SoFar(p) => SoFar(SortStep(p))
<1> DEFINE q == SortStep(p)
           N == Len(p.of)
<1>1. p.of \in Seq(Devices) /\ p.k \in Nat /\ p.k >= 1 /\ p.sorted \in BOOLEAN
      /\ p = [of |-> p.of, k |-> p.k, sorted |-> p.sorted] /\ N \in Nat
  BY LenProperties DEF Passes
<1>2. PICK a \in Nat, r \in Nat :
        /\ a = 2 * Cardinality(Inverted(p.of)) + IF p.sorted THEN 0 ELSE 1
        /\ r = IF p.k < N THEN N - p.k ELSE 0
        /\ SortMeasure[p] = a * (N + 1) + r
  BY SortMeasureIs
<1>3. \A l \in Seq(Devices) : Cardinality(Inverted(l)) \in Nat
  BY InvertedFinite
<1>4. ASSUME q \in Passes, Len(q.of) = N
      PROVE  \E b \in Nat : \E s \in Nat :
               /\ b = 2 * Cardinality(Inverted(q.of))
                        + IF q.sorted THEN 0 ELSE 1
               /\ s = IF q.k < N THEN N - q.k ELSE 0
               /\ s <= N /\ SortMeasure[q] = b * (N + 1) + s
  <2> HIDE DEF q
  <2>1. \E b \in Nat : \E s \in Nat :
           /\ b = 2 * Cardinality(Inverted(q.of)) + IF q.sorted THEN 0 ELSE 1
           /\ s = IF q.k < Len(q.of) THEN Len(q.of) - q.k ELSE 0
           /\ s <= Len(q.of) /\ Len(q.of) \in Nat
           /\ SortMeasure[q] = b * (Len(q.of) + 1) + s
           /\ SortMeasure[q] \in Nat
    BY <1>4, SortMeasureIs
  <2>2. QED BY <1>4, <2>1
<1>5. CASE p.k >= N
  <2>1. q = [of |-> p.of, k |-> 1, sorted |-> TRUE] /\ p.sorted = FALSE
    BY <1>1, <1>5 DEF SortStep, Done
  <2>2. q \in Passes /\ Len(q.of) = N BY <1>1, <2>1 DEF Passes
  <2>3. PICK b \in Nat, s \in Nat :
               /\ b = 2 * Cardinality(Inverted(q.of))
                        + IF q.sorted THEN 0 ELSE 1
               /\ s = IF q.k < N THEN N - q.k ELSE 0
               /\ s <= N /\ SortMeasure[q] = b * (N + 1) + s
    BY <1>4, <2>2
  <2>4. b < a BY <1>1, <1>2, <1>3, <2>1, <2>3
  <2>5. SortMeasure[q] < SortMeasure[p]
    <3> HIDE DEF q, N
    <3>1. b * (N + 1) + s < a * (N + 1) + r
      BY <1>1, <2>3, <2>4, Lexicographic
    <3>2. QED BY <1>2, <2>3, <3>1
  <2>6. SoFar(q) BY <2>1 DEF SoFar, InOrder
  <2>7. QED BY <1>1, <2>1, <2>2, <2>5, <2>6, RearrangedIs
<1>6. CASE p.k < N /\ Before(p.of[p.k + 1], p.of[p.k])
  <2>1. q = [of |-> Exchanged(p.of, p.k), k |-> p.k + 1, sorted |-> FALSE]
    BY <1>1, <1>6 DEF SortStep
  <2>2. p.k \in 1 .. N - 1 BY <1>1, <1>6
  <2>3. q \in Passes /\ Len(q.of) = N
    <3>1. Exchanged(p.of, p.k) \in Seq(Devices)
          /\ Len(Exchanged(p.of, p.k)) = N
      BY <1>1, <2>2, ExchangedIs
    <3>2. p.k + 1 \in Nat \ {0} BY <1>1
    <3>3. QED BY <2>1, <3>1, <3>2 DEF Passes
  <2>4. PICK b \in Nat, s \in Nat :
               /\ b = 2 * Cardinality(Inverted(q.of))
                        + IF q.sorted THEN 0 ELSE 1
               /\ s = IF q.k < N THEN N - q.k ELSE 0
               /\ s <= N /\ SortMeasure[q] = b * (N + 1) + s
    BY <1>4, <2>3
  <2>5. Cardinality(Inverted(q.of)) < Cardinality(Inverted(p.of))
    BY <1>1, <1>6, <2>1, <2>2, InvertedLess
  <2>6. /\ Cardinality(Inverted(q.of)) \in Nat
        /\ Cardinality(Inverted(p.of)) \in Nat
    BY <1>1, <1>3, <2>3 DEF Passes
  <2>7. b < a
    <3>1. q.sorted = FALSE BY <2>1
    <3> HIDE DEF q
    <3>2. b = 2 * Cardinality(Inverted(q.of)) + 1 BY <2>4, <3>1
    <3>3. a >= 2 * Cardinality(Inverted(p.of)) BY <1>2, <2>6
    <3>4. QED BY <2>5, <2>6, <3>2, <3>3
  <2>8. SortMeasure[q] < SortMeasure[p]
    <3> HIDE DEF q, N
    <3>1. b * (N + 1) + s < a * (N + 1) + r
      BY <1>1, <2>4, <2>7, Lexicographic
    <3>2. QED BY <1>2, <2>4, <3>1
  <2>9. SoFar(q) BY <2>1 DEF SoFar
  <2>10. Rearranged(p.of, q.of)
    BY <1>1, <2>1, <2>2, ExchangedRearranged
  <2>11. QED BY <2>3, <2>8, <2>9, <2>10
<1>7. CASE p.k < N /\ ~ Before(p.of[p.k + 1], p.of[p.k])
  <2>1. q = [of |-> p.of, k |-> p.k + 1, sorted |-> p.sorted]
    BY <1>1, <1>7 DEF SortStep
  <2>2. q \in Passes /\ Len(q.of) = N BY <1>1, <2>1 DEF Passes
  <2>3. PICK b \in Nat, s \in Nat :
               /\ b = 2 * Cardinality(Inverted(q.of))
                        + IF q.sorted THEN 0 ELSE 1
               /\ s = IF q.k < N THEN N - q.k ELSE 0
               /\ s <= N /\ SortMeasure[q] = b * (N + 1) + s
    BY <1>4, <2>2
  <2>4. b = a /\ s < r BY <1>1, <1>2, <1>7, <2>1, <2>3
  <2>5. a * (N + 1) \in Nat BY <1>1
  <2>6. SortMeasure[q] < SortMeasure[p] BY <1>2, <2>3, <2>4, <2>5
  <2>7. SoFar(p) => SoFar(q)
    <3>1. \A j \in 1 .. N - 1 : j < p.k + 1 => j < p.k \/ j = p.k BY <1>1
    <3>2. QED BY <1>1, <1>7, <2>1, <3>1 DEF SoFar, InOrder
  <2>8. QED BY <1>1, <2>1, <2>2, <2>6, <2>7, RearrangedIs
<1>8. QED BY <1>1, <1>5, <1>6, <1>7

\* The sort ends, with the same devices in the order of their addresses.
LEMMA sort_device_listIs ==
  ASSUME NEW devices \in Seq(Devices)
  PROVE  LET sorted == sort_device_list(devices)
         IN  Rearranged(devices, sorted) /\ InOrder(sorted, Len(sorted))
<1> DEFINE out == [p \in Passes |-> p.of]
           next == [p \in Passes |-> IF p \in Done THEN p ELSE SortStep(p)]
           Solves(f) ==
             f = [p \in Passes |->
                    IF p.k >= Len(p.of) /\ p.sorted THEN p.of
                    ELSE f[SortStep(p)]]
           pass == CHOOSE f : Solves(f)
           H == {p \in Passes : /\ Rearranged(p.of, pass[p])
                                /\ SoFar(p) => InOrder(pass[p], Len(pass[p]))}
<1>1. next \in [Passes -> Passes] BY SortStepIs
<1>2. PICK f : IsLoop(f, Passes, Done, next, out)
  <2> HIDE DEF next, out
  <2>1. QED BY <1>1, LoopExists
<1>3. Solves(f)
  <2>1. \A p \in Passes : p \in Done <=> p.k >= Len(p.of) /\ p.sorted
    BY DEF Done
  <2>2. QED BY <1>2, <2>1 DEF IsLoop
<1>4. Solves(pass) BY <1>3
<1> HIDE DEF pass
<1>5. \A p \in Done : pass[p] = p.of BY <1>4 DEF Done
<1>6. \A p \in Passes \ Done : pass[p] = pass[SortStep(p)] BY <1>4 DEF Done
<1>7. SortMeasure \in [Passes -> Nat]
  <2>1. DOMAIN SortMeasure = Passes
        /\ SortMeasure = [p \in Passes |-> SortMeasure[p]]
    BY DEF SortMeasure
  <2>2. \A p \in Passes : SortMeasure[p] \in Nat BY SortMeasureIs
  <2>3. QED BY <2>1, <2>2
<1>8. ASSUME NEW p \in Passes,
             \A z \in Passes : SortMeasure[z] < SortMeasure[p] => z \in H
      PROVE  p \in H
  <2>1. p.of \in Seq(Devices) BY DEF Passes
  <2>2. CASE p \in Done
    <3>1. pass[p] = p.of BY <1>5, <2>2
    <3>2. SoFar(p) => InOrder(p.of, Len(p.of))
      BY <2>1, <2>2 DEF SoFar, InOrder, Done, Passes
    <3>3. QED BY <2>1, <3>1, <3>2, RearrangedIs
  <2>3. CASE p \notin Done
    <3>1. SortStep(p) \in H BY <1>8, <2>3, SortStepIs
    <3>2. pass[p] = pass[SortStep(p)] BY <1>6, <2>3
    <3>3. /\ Rearranged(p.of, SortStep(p).of)
          /\ SoFar(p) => SoFar(SortStep(p))
      BY <2>3, SortStepIs
    <3>4. /\ Rearranged(SortStep(p).of, pass[p])
          /\ SoFar(SortStep(p)) => InOrder(pass[p], Len(pass[p]))
      BY <3>1, <3>2
    <3>5. SortStep(p).of \in Seq(Devices) /\ pass[p] \in Seq(Devices)
      BY <3>3, <3>4 DEF Rearranged
    <3>6. Rearranged(p.of, pass[p]) BY <2>1, <3>3, <3>4, <3>5, RearrangedIs
    <3>7. QED BY <3>3, <3>4, <3>6
  <2>4. QED BY <2>2, <2>3
<1>9. H = Passes
  <2>1. H \in SUBSET Passes OBVIOUS
  <2>2. \A p \in Passes :
          (\A z \in Passes : SortMeasure[z] < SortMeasure[p] => z \in H)
            => p \in H
    BY <1>8
  <2> HIDE DEF H
  <2>3. QED BY <1>7, <2>1, <2>2, ByMeasure
<1> DEFINE p0 == [of |-> devices, k |-> 1, sorted |-> TRUE]
<1>10. p0 \in Passes /\ p0.of = devices BY DEF Passes
<1>11. SoFar(p0)
  BY LenProperties DEF SoFar, InOrder
<1>12. sort_device_list(devices) = pass[p0]
  BY DEF sort_device_list, pass, Passes
<1> HIDE DEF p0
<1>13. QED BY <1>9, <1>10, <1>11, <1>12

\* Neighbours in order are in order with all behind them.
LEMMA InOrderIs ==
  ASSUME NEW l \in Seq(Devices), InOrder(l, Len(l)),
         \A j, h \in 1 .. Len(l) : j # h => Address[l[j]] # Address[l[h]]
  PROVE  \A j, k \in 1 .. Len(l) : j < k => Before(l[j], l[k])
<1> DEFINE N == Len(l)
<1>1. N \in Nat /\ \A j \in 1 .. N : l[j] \in Devices
  BY LenProperties, ElementOfSeq
<1>2. \A j \in 1 .. N - 1 : Before(l[j], l[j + 1])
  <2> TAKE j \in 1 .. N - 1
  <2>1. j \in 1 .. N /\ j + 1 \in 1 .. N /\ j # j + 1 /\ j < N BY <1>1
  <2>2. ~ Before(l[j + 1], l[j]) BY <2>1 DEF InOrder
  <2>3. Address[l[j]] # Address[l[j + 1]] BY <2>1
  <2>4. QED BY <1>1, <2>1, <2>2, <2>3, BeforeIs
<1> HIDE DEF N
<1>3. ASSUME NEW j \in 1 .. N
      PROVE  \A k \in 1 .. N : j < k => Before(l[j], l[k])
  <2> DEFINE H == {n \in 0 .. N : j < n => Before(l[j], l[n])}
  <2>1. 0 \in H BY <1>1
  <2>2. ASSUME NEW n \in 0 .. N, n \in H, n < N PROVE n + 1 \in H
    <3>1. n + 1 \in 0 .. N BY <1>1, <2>2
    <3>2. CASE n < j BY <3>1, <3>2
    <3>3. CASE n = j BY <1>1, <1>2, <2>2, <3>1, <3>3
    <3>4. CASE j < n
      <4>1. n \in 1 .. N - 1 /\ n \in 1 .. N /\ n + 1 \in 1 .. N
        BY <1>1, <2>2, <3>4
      <4>2. Before(l[j], l[n]) /\ Before(l[n], l[n + 1])
        BY <1>2, <2>2, <3>4, <4>1
      <4>3. Before(l[j], l[n + 1]) BY <1>1, <4>1, <4>2, BeforeIs
      <4>4. QED BY <3>1, <4>3
    <3>5. QED BY <1>1, <2>2, <3>2, <3>3, <3>4
  <2>3. H \in SUBSET (0 .. N) OBVIOUS
  <2> HIDE DEF H
  <2>4. H = 0 .. N BY <1>1, <2>1, <2>2, <2>3, Upwards
  <2>5. QED BY <1>1, <2>4 DEF H
<1>4. QED BY <1>3 DEF N

\* What libusb lists: each device once, in whatever order.
LEMMA SetToSeqsIs ==
  ASSUME NEW S \in SUBSET Devices, NEW l \in SetToSeqs(S)
  PROVE  /\ l \in Seq(Devices) /\ Range(l) = S
         /\ Len(l) = Cardinality(S) /\ Len(l) <= Cardinality(Devices)
         /\ \A j, h \in 1 .. Len(l) : l[j] = l[h] => j = h
<1> DEFINE D == 1 .. Cardinality(S)
<1>1. IsFiniteSet(S) /\ Cardinality(S) \in Nat
      /\ Cardinality(S) <= Cardinality(Devices)
  BY LsusbAssumption, FS_Subset, FS_CardinalityType
<1>2. l \in [D -> S] /\ \A j, h \in D : j # h => l[j] # l[h]
  BY DEF SetToSeqs
<1>3. IsFiniteSet(D) /\ Cardinality(D) = Cardinality(S)
  <2>1. 1 \in Int /\ Cardinality(S) \in Int BY <1>1
  <2>2. IsFiniteSet(D) /\ Cardinality(D) =
           IF 1 > Cardinality(S) THEN 0 ELSE Cardinality(S) - 1 + 1
    BY <2>1, FS_Interval, Zenon
  <2>3. QED BY <1>1, <2>2
<1>4. l \in Injection(D, S)
  <2>1. DOMAIN l = D BY <1>2
  <2>2. QED BY <1>2, <2>1 DEF Injection, IsInjective
<1>5. l \in Surjection(D, S) BY <1>1, <1>3, <1>4, FS_Injection
<1>6. \A d \in S : \E j \in D : l[j] = d BY <1>5 DEF Surjection
<1>7. Range(l) = S BY <1>2, <1>6 DEF Range
<1>8. l \in Seq(S) /\ Len(l) = Cardinality(S) BY <1>1, <1>2
<1>9. l \in Seq(Devices) BY <1>8, SeqMonotonic
<1>10. QED BY <1>1, <1>2, <1>7, <1>8, <1>9

\* What lsusb makes of it.
LEMMA ListedIs ==
  ASSUME NEW S \in SUBSET Devices, Distinct(S), NEW l \in SetToSeqs(S)
  PROVE  LET sorted == sort_device_list(l)
         IN  /\ sorted \in Seq(Devices) /\ Range(sorted) = S
             /\ Len(sorted) = Cardinality(S)
             /\ Len(sorted) <= Cardinality(Devices)
             /\ \A j, k \in 1 .. Len(sorted) :
                  j < k => Before(sorted[j], sorted[k])
<1> DEFINE s == sort_device_list(l)
<1>1. /\ l \in Seq(Devices) /\ Range(l) = S
      /\ Len(l) = Cardinality(S) /\ Len(l) <= Cardinality(Devices)
      /\ \A j, h \in 1 .. Len(l) : l[j] = l[h] => j = h
  BY SetToSeqsIs
<1>2. Rearranged(l, s) /\ InOrder(s, Len(s)) BY <1>1, sort_device_listIs
<1> HIDE DEF s
<1>3. s \in Seq(Devices) /\ Len(s) = Len(l) BY <1>2 DEF Rearranged
<1>4. Range(s) = S
  <2>1. DOMAIN l = 1 .. Len(l) /\ DOMAIN s = 1 .. Len(l)
    BY <1>1, <1>3, LenProperties
  <2>2. QED BY <1>1, <1>2, <2>1 DEF Rearranged, Range
<1>5. \A j, h \in 1 .. Len(s) : j # h => Address[s[j]] # Address[s[h]]
  <2>1. \A j, h \in 1 .. Len(s) : s[j] = s[h] => j = h
    BY <1>1, <1>2, <1>3 DEF Rearranged
  <2>2. \A j \in 1 .. Len(s) : s[j] \in S
    BY <1>3, <1>4, LenProperties DEF Range
  <2>3. QED BY <2>1, <2>2 DEF Distinct
<1>6. QED BY <1>1, <1>2, <1>3, <1>4, <1>5, InOrderIs DEF s

-----------------------------------------------------------------------------
(* Numbers of an int.                                                      *)

\* The recursion that defines Power is one: its values up to any exponent.
LEMMA PowersAre ==
  ASSUME NEW n \in Nat
  PROVE  \E p \in [0 .. n -> Nat] :
           /\ Power(n) = p[n] /\ p[0] = 1
           /\ \A k \in 1 .. n : p[k] = 2 * p[k - 1]
<1> DEFINE step == [a \in (1 .. n) \X Nat |-> 2 * a[2]]
           Solves(p) ==
             p = [k \in 0 .. n |-> IF k = 0 THEN 1 ELSE 2 * p[k - 1]]
           chosen == CHOOSE p : Solves(p)
<1>1. step \in [(1 .. n) \X Nat -> Nat] OBVIOUS
<1>2. PICK f \in [0 .. n -> Nat] : IsUp(f, 1, step, n)
  <2>1. 1 \in Nat OBVIOUS
  <2> HIDE DEF step
  <2>2. QED BY <1>1, <2>1, UpExists
<1>3. f[0] = 1 /\ \A k \in 1 .. n : f[k] = 2 * f[k - 1]
  <2>1. f[0] = 1 BY <1>2 DEF IsUp
  <2>2. ASSUME NEW k \in 1 .. n PROVE f[k] = 2 * f[k - 1]
    <3>1. k - 1 \in 0 .. n OBVIOUS
    <3>2. f[k - 1] \in Nat BY <1>2, <3>1
    <3>3. f[k] = step[<<k, f[k - 1]>>] BY <1>2 DEF IsUp
    <3>4. <<k, f[k - 1]>> \in (1 .. n) \X Nat BY <3>2
    <3>5. QED BY <3>3, <3>4
  <2>3. QED BY <2>1, <2>2
<1>4. Solves(f)
  <2> HIDE DEF step
  <2>1. QED BY <1>2, <1>3
<1>5. Solves(chosen) BY <1>4
<1> HIDE DEF chosen
<1>6. chosen[0] = 1 /\ \A k \in 1 .. n : chosen[k] = 2 * chosen[k - 1]
  BY <1>5
<1>7. \A k \in 0 .. n : chosen[k] \in Nat
  <2> DEFINE H == {k \in 0 .. n : chosen[k] \in Nat}
  <2>1. 0 \in H BY <1>6
  <2>2. ASSUME NEW k \in 0 .. n, k \in H, k < n PROVE k + 1 \in H
    <3>1. k + 1 \in 1 .. n /\ k + 1 \in 0 .. n /\ (k + 1) - 1 = k BY <2>2
    <3>2. chosen[k + 1] = 2 * chosen[k] /\ chosen[k] \in Nat
      BY <1>6, <2>2, <3>1
    <3>3. QED BY <3>1, <3>2
  <2>3. H \in SUBSET (0 .. n) OBVIOUS
  <2> HIDE DEF H
  <2>4. H = 0 .. n BY <2>1, <2>2, <2>3, Upwards
  <2>5. QED BY <2>4 DEF H
<1>8. chosen \in [0 .. n -> Nat] BY <1>5, <1>7
<1>9. Power(n) = chosen[n] BY DEF Power, chosen
<1>10. QED BY <1>6, <1>8, <1>9

\* A power of 2 is twice the one before it.
LEMMA PowerIs ==
  ASSUME NEW n \in Nat
  PROVE  Power(n) \in Nat \ {0} /\ Power(n + 1) = 2 * Power(n)
<1>1. PICK p \in [0 .. n -> Nat] :
           /\ Power(n) = p[n] /\ p[0] = 1
           /\ \A k \in 1 .. n : p[k] = 2 * p[k - 1]
  BY PowersAre
<1>2. PICK q \in [0 .. n + 1 -> Nat] :
           /\ Power(n + 1) = q[n + 1] /\ q[0] = 1
           /\ \A k \in 1 .. n + 1 : q[k] = 2 * q[k - 1]
  <2>1. n + 1 \in Nat OBVIOUS
  <2>2. QED BY <2>1, PowersAre
<1> DEFINE H == {k \in 0 .. n : p[k] = q[k] /\ p[k] # 0}
<1>3. 0 \in H BY <1>1, <1>2
<1>4. ASSUME NEW k \in 0 .. n, k \in H, k < n PROVE k + 1 \in H
  <2>1. k + 1 \in 1 .. n /\ k + 1 \in 0 .. n /\ (k + 1) - 1 = k
        /\ k + 1 \in 1 .. n + 1
    BY <1>4
  <2>2. p[k + 1] = 2 * p[k] /\ q[k + 1] = 2 * q[k] BY <1>1, <1>2, <2>1
  <2>3. p[k] \in Nat /\ p[k] # 0 /\ p[k] = q[k] BY <1>4
  <2>4. QED BY <2>1, <2>2, <2>3
<1>5. H \in SUBSET (0 .. n) OBVIOUS
<1> HIDE DEF H
<1>6. H = 0 .. n BY <1>3, <1>4, <1>5, Upwards
<1>7. p[n] = q[n] /\ p[n] # 0
  <2>1. n \in H BY <1>6
  <2>2. QED BY <2>1 DEF H
<1>8. n + 1 \in 1 .. n + 1 /\ (n + 1) - 1 = n OBVIOUS
<1>9. QED BY <1>1, <1>2, <1>7, <1>8

\* A remainder is less than what is divided by.
LEMMA Remainder == \A n \in Nat, m \in Nat \ {0} : n % m \in 0 .. m - 1
OBVIOUS

\* What does not fit into an int wraps around.
LEMMA AsIntIs == -1 \in Ints /\ \A n \in Nat : AsInt(n) \in Ints
<1> DEFINE w == IntWidth - 1
           P == Power(w)
<1>1. w \in Nat /\ w + 1 = IntWidth BY LsusbAssumption
<1>2. P \in Nat \ {0} /\ Power(IntWidth) = 2 * P BY <1>1, PowerIs
<1>3. Ints = - P .. P - 1 BY DEF Ints
<1> HIDE DEF P, w
<1>4. ASSUME NEW n \in Nat PROVE AsInt(n) \in Ints
  <2> DEFINE low == n % Power(IntWidth)
  <2>1. low \in 0 .. 2 * P - 1
    <3>1. 2 * P \in Nat \ {0} BY <1>2
    <3>2. QED BY <1>2, <3>1, Remainder
  <2>2. AsInt(n) = IF low >= P THEN low - 2 * P ELSE low
    BY <1>2 DEF AsInt, P, w
  <2> HIDE DEF low
  <2>3. QED BY <1>2, <1>3, <2>1, <2>2
<1>5. QED BY <1>2, <1>3, <1>4

-----------------------------------------------------------------------------
(* The device a path names.  Where the lookup of a path ends, and with how *)
(* many links left, is looked at first; then what a link changes of it.    *)

\* What holds if it holds wherever the first number is smaller, or the same
\* and the second one is smaller, holds everywhere.
LEMMA ByTwoMeasures ==
  ASSUME NEW X, NEW m \in [X -> Nat], NEW n \in [X -> Nat], NEW H \in SUBSET X,
         \A x \in X :
           (\A z \in X :
              m[z] < m[x] \/ (m[z] = m[x] /\ n[z] < n[x]) => z \in H)
           => x \in H
  PROVE  H = X
<1>1. SUFFICES ASSUME X \ H # {} PROVE FALSE OBVIOUS
<1> DEFINE B == {m[x] : x \in X \ H}
<1>2. B \in SUBSET Nat /\ B # {} BY <1>1
<1>3. PICK k \in B : \A j \in B : k <= j BY <1>2, Least
<1> DEFINE C == {n[x] : x \in {y \in X \ H : m[y] = k}}
<1>4. C \in SUBSET Nat /\ C # {} BY <1>3
<1>5. PICK l \in C : \A j \in C : l <= j BY <1>4, Least
<1>6. PICK x \in X \ H : m[x] = k /\ n[x] = l BY <1>5
<1>7. ASSUME NEW z \in X, z \notin H,
             m[z] < m[x] \/ (m[z] = m[x] /\ n[z] < n[x])
      PROVE  FALSE
  <2>1. m[z] \in B /\ m[z] \in Nat /\ n[z] \in Nat /\ k \in Nat /\ l \in Nat
    BY <1>2, <1>4, <1>7
  <2>2. m[z] = k => n[z] \in C BY <1>7
  <2> HIDE DEF B, C
  <2>3. k <= m[z] /\ (m[z] = k => l <= n[z]) BY <1>3, <1>5, <2>1, <2>2
  <2>4. QED BY <1>6, <1>7, <2>1, <2>3
<1>8. QED BY <1>6, <1>7

\* The places of a lookup, and those at which it ends.
Walks == [at : Seq(STRING), todo : Seq(STRING), left : Int]
Ended == {w \in Walks : w.left < 0 \/ w.todo = <<>>}
Lookup(at, todo, left) == [at |-> at, todo |-> todo, left |-> left]

\* The front and the last of a sequence.
LEMMA FrontIs ==
  ASSUME NEW S, NEW s \in Seq(S), s # <<>>
  PROVE  /\ Front(s) \in Seq(S) /\ Last(s) \in S
         /\ s = Front(s) \o <<Last(s)>>
         /\ Len(Front(s)) = Len(s) - 1
<1>1. Len(s) \in Nat \ {0} BY EmptySeq
<1>2. s = SubSeq(s, 1, Len(s)) BY SubSeqFull
<1>3. SubSeq(s, 1, Len(s)) = SubSeq(s, 1, Len(s) - 1) \o <<s[Len(s)]>>
  BY <1>1, SubSeqRecursiveSecond
<1>4. \A j \in 1 .. Len(s) : s[j] \in S BY ElementOfSeq
<1>5. SubSeq(s, 1, Len(s) - 1) \in Seq(S)
      /\ Len(SubSeq(s, 1, Len(s) - 1)) = Len(s) - 1
  <2>1. 1 \in Int /\ Len(s) - 1 \in Int BY <1>1
  <2>2. \A j \in 1 .. Len(s) - 1 : s[j] \in S
    <3>1. \A j \in 1 .. Len(s) - 1 : j \in 1 .. Len(s) BY <1>1
    <3>2. QED BY <1>4, <3>1, Zenon
  <2>3. SubSeq(s, 1, Len(s) - 1) \in Seq(S) BY <2>1, <2>2, SubSeqProperties, Zenon
  <2>4. ASSUME NEW n \in Nat, \A j \in 1 .. n : s[j] \in S
        PROVE  Len(SubSeq(s, 1, n)) = n
    <3>1. 1 \in Int /\ n \in Int OBVIOUS
    <3>2. Len(SubSeq(s, 1, n)) = IF 1 <= n THEN n - 1 + 1 ELSE 0
      BY <2>4, <3>1, SubSeqProperties
    <3>3. QED BY <3>2
  <2>5. Len(s) - 1 \in Nat BY <1>1
  <2>6. Len(SubSeq(s, 1, Len(s) - 1)) = Len(s) - 1 BY <2>2, <2>4, <2>5, Zenon
  <2>7. QED BY <2>3, <2>6
<1>6. Front(s) = SubSeq(s, 1, Len(s) - 1) /\ Last(s) = s[Len(s)]
  BY DEF Front, Last
<1>7. Len(s) \in 1 .. Len(s) BY <1>1
<1>8. s[Len(s)] \in S BY <1>4, <1>7
<1>9. s = SubSeq(s, 1, Len(s) - 1) \o <<s[Len(s)]>> BY <1>2, <1>3, Zenon
<1>10. QED BY <1>5, <1>6, <1>8, <1>9, Zenon

\* What is left of a sequence that has another one behind it.
LEMMA TailOfConcat ==
  ASSUME NEW S, NEW s \in Seq(S), NEW t \in Seq(S), s # <<>>
  PROVE  /\ s \o t # <<>> /\ s \o t \in Seq(S)
         /\ Head(s \o t) = Head(s) /\ Tail(s \o t) = Tail(s) \o t
         /\ Tail(s) \in Seq(S) /\ Head(s) \in S /\ Len(Tail(s)) = Len(s) - 1
<1>1. /\ Len(s) \in Nat \ {0} /\ Len(t) \in Nat
      /\ s \o t \in Seq(S) /\ Len(s \o t) = Len(s) + Len(t)
  BY EmptySeq, LenProperties, ConcatProperties
<1>2. s \o t # <<>> BY <1>1, EmptySeq
<1>3. /\ Tail(s) \in Seq(S) /\ Head(s) \in S /\ Len(Tail(s)) = Len(s) - 1
      /\ \A j \in 1 .. Len(s) - 1 : Tail(s)[j] = s[j + 1]
      /\ Head(s) = s[1]
  BY HeadTailProperties
<1>4. /\ Tail(s \o t) \in Seq(S) /\ Len(Tail(s \o t)) = Len(s) + Len(t) - 1
      /\ \A j \in 1 .. Len(s) + Len(t) - 1 : Tail(s \o t)[j] = (s \o t)[j + 1]
      /\ Head(s \o t) = (s \o t)[1]
  BY <1>1, <1>2, HeadTailProperties
<1>5. /\ Tail(s) \o t \in Seq(S) /\ Len(Tail(s) \o t) = Len(s) - 1 + Len(t)
      /\ \A j \in 1 .. Len(s) - 1 + Len(t) :
           (Tail(s) \o t)[j] = IF j <= Len(s) - 1 THEN Tail(s)[j]
                               ELSE t[j - (Len(s) - 1)]
  BY <1>3, ConcatProperties
<1>6. \A j \in 1 .. Len(s) + Len(t) :
        (s \o t)[j] = IF j <= Len(s) THEN s[j] ELSE t[j - Len(s)]
  BY ConcatProperties
<1>7. Head(s \o t) = Head(s) BY <1>1, <1>3, <1>4, <1>6
<1>8. ASSUME NEW j \in 1 .. Len(s) + Len(t) - 1
      PROVE  Tail(s \o t)[j] = (Tail(s) \o t)[j]
  <2>1. j + 1 \in 1 .. Len(s) + Len(t) /\ j \in 1 .. Len(s) - 1 + Len(t)
        /\ j - (Len(s) - 1) = (j + 1) - Len(s)
    BY <1>1
  <2>2. Tail(s \o t)[j] = (s \o t)[j + 1] BY <1>4
  <2>3. (s \o t)[j + 1] = IF j + 1 <= Len(s) THEN s[j + 1]
                          ELSE t[(j + 1) - Len(s)]
    BY <1>6, <2>1
  <2>4. j <= Len(s) - 1 => Tail(s)[j] = s[j + 1] BY <1>1, <1>3
  <2>5. j <= Len(s) - 1 <=> j + 1 <= Len(s) BY <1>1
  <2>6. QED BY <1>5, <2>1, <2>2, <2>3, <2>4, <2>5
<1>9. Len(Tail(s \o t)) = Len(Tail(s) \o t) BY <1>1, <1>4, <1>5
<1>10. Tail(s \o t) = Tail(s) \o t
  <2>1. \A j \in 1 .. Len(Tail(s \o t)) : Tail(s \o t)[j] = (Tail(s) \o t)[j]
    BY <1>4, <1>8
  <2>2. QED BY <1>4, <1>5, <1>9, <2>1, SeqEqual
<1>11. QED BY <1>1, <1>2, <1>3, <1>7, <1>10

\* A lookup as a record.
LEMMA LookupIs ==
  \A at, todo, left :
    /\ Lookup(at, todo, left).at = at
    /\ Lookup(at, todo, left).todo = todo
    /\ Lookup(at, todo, left).left = left
BY DEF Lookup

LEMMA LookupExcept ==
  \A at, todo, left, new :
    /\ [Lookup(at, todo, left) EXCEPT !.todo = new] = Lookup(at, new, left)
    /\ [Lookup(at, todo, left) EXCEPT !.at = new] = Lookup(new, todo, left)
BY DEF Lookup

LEMMA LookupType ==
  \A at, todo \in Seq(STRING), left \in Int : Lookup(at, todo, left) \in Walks
BY DEF Walks, Lookup

LEMMA WalksAre ==
  \A w \in Walks : /\ w.at \in Seq(STRING) /\ w.todo \in Seq(STRING)
                   /\ w.left \in Int /\ w = Lookup(w.at, w.todo, w.left)
BY DEF Walks, Lookup

\* A sequence of one.
LEMMA OneName ==
  ASSUME NEW S, NEW n \in S PROVE <<n>> \in Seq(S) /\ Len(<<n>>) = 1
OBVIOUS

\* A step of a lookup.
NextLookup(at, n, rest, left) ==
  IF n \in {"", ".", ".."}
  THEN Lookup(IF n = ".." THEN IF at = <<>> THEN <<>> ELSE Front(at) ELSE at,
              rest, left)
  ELSE IF Append(at, n) \notin DOMAIN Links
  THEN Lookup(Append(at, n), rest, left)
  ELSE Lookup(IF Links[Append(at, n)].absolute THEN <<>> ELSE at,
              Links[Append(at, n)].names \o rest, left - 1)

LEMMA WalkStepOf ==
  ASSUME NEW at, NEW todo, NEW left
  PROVE  WalkStep(Lookup(at, todo, left)) =
           NextLookup(at, Head(todo), Tail(todo), left)
<1> DEFINE w == Lookup(at, todo, left)
           n == Head(todo)
           rest == Tail(todo)
<1>1. w.at = at /\ w.todo = todo /\ w.left = left BY LookupIs
<1>2. [w EXCEPT !.todo = rest] = Lookup(at, rest, left)
  <2>1. \A r : [[at |-> at, todo |-> todo, left |-> left] EXCEPT !.todo = r]
                = [at |-> at, todo |-> r, left |-> left]
    OBVIOUS
  <2>2. QED BY <2>1, Zenon DEF Lookup
<1>3. Lookup(at, rest, left).at = at BY LookupIs, Zenon
<1>4. \A a : [Lookup(at, rest, left) EXCEPT !.at = a] = Lookup(a, rest, left)
  BY LookupExcept
<1>5. \A a, t, l : [at |-> a, todo |-> t, left |-> l] = Lookup(a, t, l)
  BY DEF Lookup
<1> HIDE DEF w
<1>6. WalkStep(w) =
        IF n \in {"", ".", ".."}
        THEN [[w EXCEPT !.todo = rest] EXCEPT
                !.at = IF n = ".." THEN IF at = <<>> THEN <<>> ELSE Front(at)
                       ELSE [w EXCEPT !.todo = rest].at]
        ELSE IF Append(at, n) \notin DOMAIN Links
        THEN [[w EXCEPT !.todo = rest] EXCEPT !.at = Append(at, n)]
        ELSE [at   |-> IF Links[Append(at, n)].absolute THEN <<>> ELSE at,
              todo |-> Links[Append(at, n)].names \o rest,
              left |-> left - 1]
  BY <1>1, Zenon DEF WalkStep
<1>7. QED BY <1>2, <1>3, <1>4, <1>5, <1>6, Zenon DEF w, NextLookup

\* A step of a lookup takes a name away or follows a link, and it does so
\* whatever names come behind and however many more links may be followed.
LEMMA WalkStepIs ==
  ASSUME NEW w \in Walks \ Ended, NEW b \in Seq(STRING), NEW e \in Nat
  PROVE  /\ WalkStep(w) \in Walks
         /\ \/ /\ WalkStep(w).left = w.left
               /\ Len(WalkStep(w).todo) = Len(w.todo) - 1
            \/ WalkStep(w).left = w.left - 1
         /\ Lookup(w.at, w.todo \o b, w.left + e) \in Walks \ Ended
         /\ WalkStep(Lookup(w.at, w.todo \o b, w.left + e)) =
              Lookup(WalkStep(w).at, WalkStep(w).todo \o b,
                    WalkStep(w).left + e)
<1>1. /\ w.at \in Seq(STRING) /\ w.todo \in Seq(STRING) /\ w.left \in Int
      /\ w = Lookup(w.at, w.todo, w.left)
      /\ w.left >= 0 /\ w.todo # <<>>
  BY WalksAre DEF Ended
<1> DEFINE n == Head(w.todo)
           rest == Tail(w.todo)
           file == Append(w.at, n)
           up == IF w.at = <<>> THEN <<>> ELSE Front(w.at)
           x == Lookup(w.at, w.todo \o b, w.left + e)
<1>2. /\ n \in STRING /\ rest \in Seq(STRING)
      /\ Len(rest) = Len(w.todo) - 1
      /\ w.todo \o b \in Seq(STRING) /\ w.todo \o b # <<>>
      /\ Head(w.todo \o b) = n /\ Tail(w.todo \o b) = rest \o b
      /\ rest \o b \in Seq(STRING)
  <2>1. \A s, t \in Seq(STRING) :
          s # <<>> =>
            /\ s \o t # <<>> /\ s \o t \in Seq(STRING)
            /\ Head(s \o t) = Head(s) /\ Tail(s \o t) = Tail(s) \o t
            /\ Tail(s) \in Seq(STRING) /\ Head(s) \in STRING
            /\ Len(Tail(s)) = Len(s) - 1
    BY TailOfConcat
  <2>2. \A s, t \in Seq(STRING) : s \o t \in Seq(STRING)
    BY ConcatProperties
  <2>3. QED BY <1>1, <2>1, <2>2
<1>3. file \in Seq(STRING) /\ up \in Seq(STRING)
  BY <1>1, <1>2, AppendProperties, FrontIs
<1>4. x \in Walks \ Ended
  <2>1. w.left + e \in Int /\ w.left + e >= 0 BY <1>1
  <2>2. x.todo = w.todo \o b /\ x.left = w.left + e BY DEF Lookup
  <2>3. x \in Walks BY <1>1, <1>2, <2>1, LookupType
  <2> HIDE DEF x
  <2>4. ~ (x.left < 0) /\ x.todo # <<>> BY <1>2, <2>1, <2>2
  <2>5. QED BY <2>3, <2>4 DEF Ended
<1>5. WalkStep(w) = NextLookup(w.at, n, rest, w.left)
  <2>1. WalkStep(Lookup(w.at, w.todo, w.left)) =
          NextLookup(w.at, n, rest, w.left)
    BY WalkStepOf, Zenon
  <2>2. QED BY <1>1, <2>1
<1>6. WalkStep(x) = NextLookup(w.at, n, rest \o b, w.left + e)
  <2>1. WalkStep(x) = NextLookup(w.at, Head(w.todo \o b), Tail(w.todo \o b),
                                 w.left + e)
    BY WalkStepOf, Zenon
  <2>2. QED BY <1>2, <2>1
<1> HIDE DEF n, rest, file, up, x
<1>7. ASSUME NEW a \in Seq(STRING), WalkStep(w) = Lookup(a, rest, w.left),
             WalkStep(x) = Lookup(a, rest \o b, w.left + e)
      PROVE  /\ WalkStep(w) \in Walks
             /\ WalkStep(w).left = w.left
             /\ Len(WalkStep(w).todo) = Len(w.todo) - 1
             /\ WalkStep(x) = Lookup(WalkStep(w).at, WalkStep(w).todo \o b,
                                     WalkStep(w).left + e)
  <2>1. WalkStep(w) \in Walks BY <1>1, <1>2, <1>7, LookupType
  <2>2. WalkStep(w).at = a /\ WalkStep(w).todo = rest
        /\ WalkStep(w).left = w.left
    BY <1>7, LookupIs
  <2>3. QED BY <1>2, <1>7, <2>1, <2>2
<1>8. CASE n \in {"", ".", ".."}
  <2>1. (IF n = ".." THEN up ELSE w.at) \in Seq(STRING) BY <1>1, <1>3
  <2>2. QED BY <1>4, <1>5, <1>6, <1>7, <1>8, <2>1
        DEF x, up, NextLookup
<1>9. CASE n \notin {"", ".", ".."} /\ file \notin DOMAIN Links
  BY <1>3, <1>4, <1>5, <1>6, <1>7, <1>9 DEF x, file, NextLookup
<1>10. CASE n \notin {"", ".", ".."} /\ file \in DOMAIN Links
  <2> DEFINE a == IF Links[file].absolute THEN <<>> ELSE w.at
             t == Links[file].names
  <2>1. t \in Seq(STRING) /\ a \in Seq(STRING)
    BY <1>1, <1>10, PathsAssumption, EmptySeq DEF Paths
  <2>2. WalkStep(w) = Lookup(a, t \o rest, w.left - 1)
        /\ WalkStep(x) = Lookup(a, t \o (rest \o b), (w.left + e) - 1)
    BY <1>5, <1>6, <1>10 DEF file, NextLookup
  <2> HIDE DEF a, t
  <2>3. /\ t \o rest \in Seq(STRING)
        /\ (t \o rest) \o b = t \o (rest \o b)
    <3>1. \A r, s \in Seq(STRING) : r \o s \in Seq(STRING)
      BY ConcatProperties
    <3>2. \A r, s, q \in Seq(STRING) : (r \o s) \o q = r \o (s \o q)
      BY ConcatAssociative
    <3>3. t \in Seq(STRING) /\ rest \in Seq(STRING) /\ b \in Seq(STRING)
      BY <1>2, <2>1
    <3>4. t \o rest \in Seq(STRING) BY <3>1, <3>3, Zenon
    <3>5. (t \o rest) \o b = t \o (rest \o b) BY <3>2, <3>3, Zenon
    <3>6. QED BY <3>4, <3>5, Zenon
  <2>4. (w.left + e) - 1 = (w.left - 1) + e /\ w.left - 1 \in Int BY <1>1
  <2>5. WalkStep(w) \in Walks BY <2>1, <2>2, <2>3, <2>4, LookupType
  <2>6. WalkStep(w).at = a /\ WalkStep(w).todo = t \o rest
        /\ WalkStep(w).left = w.left - 1
    BY <2>2 DEF Lookup
  <2>7. QED BY <1>4, <2>2, <2>3, <2>4, <2>5, <2>6 DEF x
<1>11. QED BY <1>8, <1>9, <1>10

\* Where a lookup ends.
StepOn == [w \in Walks |-> IF w \in Ended THEN w ELSE WalkStep(w)]
EndOf == CHOOSE f : IsLoop(f, Walks, Ended, StepOn, [w \in Walks |-> w])

LEMMA EndOfIs ==
  /\ \A w \in Ended : w \in Walks /\ EndOf[w] = w
  /\ \A w \in Walks \ Ended : EndOf[w] = EndOf[WalkStep(w)]
<1>1. \A w \in Walks \ Ended : WalkStep(w) \in Walks
  <2>1. 0 \in Nat /\ <<>> \in Seq(STRING) BY EmptySeq
  <2>2. QED BY <2>1, WalkStepIs
<1>2. StepOn \in [Walks -> Walks] BY <1>1 DEF StepOn
<1>3. \E f : IsLoop(f, Walks, Ended, StepOn, [w \in Walks |-> w])
  BY <1>2, LoopExists
<1>4. IsLoop(EndOf, Walks, Ended, StepOn, [w \in Walks |-> w])
  BY <1>3 DEF EndOf
<1>5. EndOf = [w \in Walks |-> IF w \in Ended THEN [v \in Walks |-> v][w]
                              ELSE EndOf[StepOn[w]]]
  BY <1>4 DEF IsLoop
<1>6. Ended \subseteq Walks BY DEF Ended
<1>7. ASSUME NEW w \in Walks
      PROVE  EndOf[w] = IF w \in Ended THEN w ELSE EndOf[StepOn[w]]
  BY <1>5
<1>8. \A w \in Walks \ Ended : StepOn[w] = WalkStep(w) BY DEF StepOn
<1>9. QED BY <1>6, <1>7, <1>8

\* What holds at the ends of lookups and, if it holds after a step, before it,
\* holds of all.
LEMMA LookupInduction ==
  ASSUME NEW H \in SUBSET Walks, Ended \subseteq H,
         \A w \in Walks \ Ended : WalkStep(w) \in H => w \in H
  PROVE  H = Walks
<1> DEFINE links == [w \in Walks |-> IF w.left < 0 THEN 0 ELSE w.left + 1]
           length == [w \in Walks |-> Len(w.todo)]
<1>1. links \in [Walks -> Nat] /\ length \in [Walks -> Nat]
  <2>1. \A w \in Walks : Len(w.todo) \in Nat BY WalksAre, LenProperties
  <2>2. QED BY <2>1, WalksAre
<1>2. ASSUME NEW w \in Walks \ Ended,
             \A z \in Walks :
               links[z] < links[w]
                 \/ (links[z] = links[w] /\ length[z] < length[w]) => z \in H
      PROVE  w \in H
  <2> DEFINE z == WalkStep(w)
  <2>1. /\ z \in Walks /\ w.left \in Int /\ w.left >= 0
        /\ z.left \in Int /\ Len(z.todo) \in Nat /\ Len(w.todo) \in Nat
        /\ \/ z.left = w.left /\ Len(z.todo) = Len(w.todo) - 1
           \/ z.left = w.left - 1
    <3>1. 0 \in Nat /\ <<>> \in Seq(STRING) BY EmptySeq
    <3>2. z \in Walks
          /\ \/ z.left = w.left /\ Len(z.todo) = Len(w.todo) - 1
             \/ z.left = w.left - 1
      BY <3>1, WalkStepIs
    <3>3. w.left >= 0 BY WalksAre DEF Ended
    <3>4. QED BY <3>2, <3>3, WalksAre, LenProperties
  <2> HIDE DEF z
  <2>2. links[z] < links[w]
          \/ (links[z] = links[w] /\ length[z] < length[w])
    BY <2>1
  <2>3. z \in H BY <1>2, <2>1, <2>2
  <2>4. QED BY <2>3 DEF z
<1>3. \A w \in Walks :
        (\A z \in Walks :
           links[z] < links[w]
             \/ (links[z] = links[w] /\ length[z] < length[w]) => z \in H)
        => w \in H
  BY <1>2
<1> HIDE DEF links, length
<1>4. QED BY <1>1, <1>3, ByTwoMeasures

\* Every lookup ends.  Names that come behind are looked up from where it
\* ends, and one that may follow more links ends there with as many more.
Behind(w, b, e) == Lookup(w.at, w.todo \o b, w.left + e)

EndsWell(w) ==
  /\ EndOf[w] \in Ended /\ EndOf[w].left <= w.left
  /\ EndOf[w].left >= 0 =>
       \A b \in Seq(STRING), e \in Nat :
         EndOf[Behind(w, b, e)] = EndOf[Lookup(EndOf[w].at, b,
                                               EndOf[w].left + e)]
  /\ EndOf[w].left < 0 =>
       \A b \in Seq(STRING) : EndOf[Behind(w, b, 0)].left < 0

LEMMA LookupsEnd == \A w \in Walks : EndsWell(w)
<1> DEFINE H == {w \in Walks : EndsWell(w)}
<1>1. ASSUME NEW w \in Ended PROVE w \in H
  <2>1. /\ w \in Walks /\ EndOf[w] = w /\ w.at \in Seq(STRING)
        /\ w.todo \in Seq(STRING) /\ w.left \in Int
        /\ w.left < 0 \/ w.todo = <<>>
    BY EndOfIs, WalksAre DEF Ended
  <2>2. ASSUME w.left >= 0, NEW b \in Seq(STRING), NEW e \in Nat
        PROVE  Behind(w, b, e) = Lookup(w.at, b, w.left + e)
    <3>1. w.todo \o b = b BY <2>1, <2>2, ConcatEmptySeq
    <3>2. QED BY <3>1 DEF Behind
  <2>3. ASSUME w.left < 0, NEW b \in Seq(STRING)
        PROVE  EndOf[Behind(w, b, 0)].left < 0
    <3>1. w.todo \o b \in Seq(STRING) BY <2>1, ConcatProperties
    <3>2. w.left + 0 = w.left BY <2>1
    <3>3. /\ Behind(w, b, 0) = Lookup(w.at, w.todo \o b, w.left)
          /\ Behind(w, b, 0) \in Walks
      BY <2>1, <3>1, <3>2, LookupType DEF Behind
    <3>4. Behind(w, b, 0).left = w.left BY <3>3 DEF Lookup
    <3>5. Behind(w, b, 0) \in Ended BY <2>3, <3>3, <3>4 DEF Ended
    <3>6. QED BY <2>3, <3>4, <3>5, EndOfIs
  <2>4. w.left <= w.left BY <2>1
  <2>5. w.left >= 0 =>
          \A b \in Seq(STRING), e \in Nat :
            EndOf[Behind(w, b, e)] = EndOf[Lookup(w.at, b, w.left + e)]
    BY <2>2
  <2>6. EndsWell(w) BY <2>1, <2>3, <2>4, <2>5, Zenon DEF EndsWell
  <2>7. QED BY <2>1, <2>6
<1>2. ASSUME NEW w \in Walks \ Ended, WalkStep(w) \in H PROVE w \in H
  <2> DEFINE z == WalkStep(w)
  <2>1. z \in Walks /\ z.left <= w.left /\ z.left \in Int /\ w.left \in Int
    <3>1. 0 \in Nat /\ <<>> \in Seq(STRING) BY EmptySeq
    <3>2. z \in Walks /\ (z.left = w.left \/ z.left = w.left - 1)
      BY <3>1, WalkStepIs
    <3>3. QED BY <3>2, WalksAre
  <2>2. ASSUME NEW b \in Seq(STRING), NEW e \in Nat
        PROVE  EndOf[Behind(w, b, e)] = EndOf[Behind(z, b, e)]
    <3>1. /\ Behind(w, b, e) \in Walks \ Ended
          /\ WalkStep(Behind(w, b, e)) = Behind(z, b, e)
      BY WalkStepIs, Zenon DEF Behind
    <3>2. QED BY <3>1, EndOfIs
  <2>3. EndOf[w] = EndOf[z] BY EndOfIs
  <2>4. EndsWell(z) BY <1>2
  <2> HIDE DEF z
  <2>5. EndOf[w] \in Ended /\ EndOf[w].left <= w.left
    <3>1. EndOf[w] \in Ended /\ EndOf[w].left <= z.left
      BY <2>3, <2>4 DEF EndsWell
    <3>2. EndOf[w].left \in Int BY <3>1, WalksAre DEF Ended
    <3>3. QED BY <2>1, <3>1, <3>2
  <2>6. EndsWell(w) BY <2>2, <2>3, <2>4, <2>5 DEF EndsWell
  <2>7. QED BY <2>6
<1>3. H = Walks
  <2>1. H \in SUBSET Walks /\ Ended \subseteq H BY <1>1
  <2> HIDE DEF H
  <2>2. QED BY <1>2, <2>1, LookupInduction
<1>4. QED BY <1>3

\* What Walk() gives is where the lookup ends, or Loop.
LEMMA WalkIs ==
  ASSUME NEW path \in Seq(STRING)
  PROVE  LET end == EndOf[Lookup(<<>>, path, MaxLinks)]
         IN  Walk(path) = IF end.left < 0 THEN Loop ELSE end.at
<1> DEFINE out == [w \in Walks |-> IF w.left < 0 THEN Loop ELSE w.at]
           Solves(f) ==
             f = [w \in Walks |->
                    IF w.left < 0 THEN Loop
                    ELSE IF w.todo = <<>> THEN w.at ELSE f[WalkStep(w)]]
           walk == CHOOSE f : Solves(f)
           H == {w \in Walks : walk[w] = out[EndOf[w]]}
<1>1. StepOn \in [Walks -> Walks]
  <2>1. 0 \in Nat /\ <<>> \in Seq(STRING) BY EmptySeq
  <2>2. \A w \in Walks \ Ended : WalkStep(w) \in Walks BY <2>1, WalkStepIs
  <2>3. QED BY <2>2 DEF StepOn
<1>2. PICK f : IsLoop(f, Walks, Ended, StepOn, out)
  <2> HIDE DEF out
  <2>1. QED BY <1>1, LoopExists
<1>3. Solves(f) BY <1>2 DEF IsLoop, StepOn, Ended
<1>4. Solves(walk) BY <1>3
<1> HIDE DEF walk
<1>5. walk = [w \in Walks |->
                IF w.left < 0 THEN Loop
                ELSE IF w.todo = <<>> THEN w.at ELSE walk[WalkStep(w)]]
  BY <1>4
<1>6. \A w \in Ended : w \in H
  <2>1. ASSUME NEW w \in Ended PROVE walk[w] = out[w]
    <3>1. w \in Walks /\ (w.left < 0 \/ w.todo = <<>>) BY DEF Ended
    <3>2. QED BY <1>5, <3>1
  <2>2. QED BY <2>1, EndOfIs
<1>7. ASSUME NEW w \in Walks \ Ended, WalkStep(w) \in H PROVE w \in H
  <2>1. ~ (w.left < 0) /\ w.todo # <<>> BY DEF Ended
  <2>2. walk[w] = walk[WalkStep(w)] BY <1>5, <2>1
  <2>3. QED BY <1>7, <2>2, EndOfIs
<1>8. H = Walks
  <2>1. H \in SUBSET Walks /\ Ended \subseteq H BY <1>6
  <2> HIDE DEF H
  <2>2. QED BY <1>7, <2>1, LookupInduction
<1> DEFINE w0 == Lookup(<<>>, path, MaxLinks)
<1>9. w0 \in Walks
  <2>1. MaxLinks \in Int /\ <<>> \in Seq(STRING) BY PathsAssumption, EmptySeq
  <2>2. QED BY <2>1, LookupType
<1>10. walk[w0] = out[EndOf[w0]] BY <1>8, <1>9
<1>11. EndOf[w0] \in Walks BY <1>9, LookupsEnd DEF EndsWell, Ended
<1>12. Walk(path) = walk[w0] BY Zenon DEF Walk, Lookup, Walks, walk
<1> HIDE DEF w0, walk
<1>13. walk[w0] = IF EndOf[w0].left < 0 THEN Loop ELSE EndOf[w0].at
  BY <1>10, <1>11
<1>14. QED BY <1>12, <1>13 DEF w0

-----------------------------------------------------------------------------
(* What a link changes.                                                    *)

\* Where a path leads.
Leads(path) == EndOf[Lookup(<<>>, Rooted(path), MaxLinks)]

\* A path from the root: its names in front and the last one.
LEMMA RootedIs ==
  ASSUME NEW p \in Paths
  PROVE  /\ p.names \in Seq(STRING) /\ p.names # <<>>
         /\ p.absolute \in BOOLEAN
         /\ Rooted(p) \in Seq(STRING)
         /\ Front(Rooted(p)) \in Seq(STRING) /\ Last(p.names) \in STRING
         /\ Rooted(p) = Front(Rooted(p)) \o <<Last(p.names)>>
         /\ Front(p.names) \in Seq(STRING)
         /\ ~ p.absolute => Front(Rooted(p)) = Cwd \o Front(p.names)
<1>1. /\ p.names \in Seq(STRING) /\ p.names # <<>>
      /\ p.absolute \in BOOLEAN
  BY DEF Paths
<1>2. /\ Front(p.names) \in Seq(STRING) /\ Last(p.names) \in STRING
      /\ p.names = Front(p.names) \o <<Last(p.names)>>
  BY <1>1, FrontIs
<1>3. CASE p.absolute BY <1>1, <1>2, <1>3 DEF Rooted
<1>4. CASE ~ p.absolute
  <2> DEFINE c == Cwd \o Front(p.names)
             l == <<Last(p.names)>>
  <2>1. Rooted(p) = Cwd \o p.names BY <1>4 DEF Rooted
  <2>2. Cwd \in Seq(STRING) /\ l \in Seq(STRING) /\ c \in Seq(STRING)
        /\ c \o l \in Seq(STRING)
    BY <1>2, PathsAssumption, ConcatProperties
  <2>3. Rooted(p) = c \o l
    <3>1. (Cwd \o Front(p.names)) \o l = Cwd \o (Front(p.names) \o l)
      BY <1>2, <2>2, ConcatAssociative
    <3>2. QED BY <1>2, <2>1, <3>1
  <2>4. Front(c \o l) = c
    <3>1. Len(l) = 1 /\ Len(c) \in Nat BY <2>2, LenProperties
    <3>2. Len(c \o l) = Len(c) + 1 BY <2>2, <3>1, ConcatProperties
    <3>3. c \o l # <<>> BY <3>1, <3>2, EmptySeq
    <3>4. /\ Front(c \o l) \in Seq(STRING)
          /\ c \o l = Front(c \o l) \o <<Last(c \o l)>>
          /\ Len(Front(c \o l)) = Len(c)
      <4>1. Len(c \o l) - 1 = Len(c) BY <3>1, <3>2
      <4>2. \A s \in Seq(STRING) :
              s # <<>> => /\ Front(s) \in Seq(STRING)
                          /\ s = Front(s) \o <<Last(s)>>
                          /\ Len(Front(s)) = Len(s) - 1
        BY FrontIs, Zenon
      <4>3. QED BY <2>2, <3>3, <4>1, <4>2, Zenon
    <3>5. ASSUME NEW j \in 1 .. Len(c) PROVE Front(c \o l)[j] = c[j]
      <4>1. (c \o l)[j] = c[j] BY <2>2, <3>1, ConcatProperties
      <4>2. Front(c \o l)[j] = (c \o l)[j]
        <5>1. Front(c \o l) = SubSeq(c \o l, 1, Len(c))
          BY <3>1, <3>2 DEF Front
        <5>2. \A k \in 1 .. Len(c) : (c \o l)[k] \in STRING
          BY <2>2, <3>1, <3>2, ElementOfSeq
        <5>3. \A k \in 1 .. Len(c) - 1 + 1 :
                SubSeq(c \o l, 1, Len(c))[k] = (c \o l)[1 + k - 1]
          BY <3>1, <5>2, SubSeqProperties
        <5>4. QED BY <3>1, <5>1, <5>3
      <4>3. QED BY <4>1, <4>2
    <3>6. QED BY <2>2, <3>4, <3>5, SeqEqual
  <2>5. QED BY <1>1, <1>2, <1>4, <2>2, <2>3, <2>4
<1>5. QED BY <1>1, <1>2, <1>3, <1>4

\* A path whose lookup ends in time leads to its last name in the directory
\* its front leads to, or on from there if that is a link.
LEMMA LeadsIs ==
  ASSUME NEW p \in Paths
  PROVE  Leads(p).left >= 0 /\ Last(p.names) \notin {"", ".", ".."} =>
             \E at \in Seq(STRING), left \in Nat :
               /\ left <= MaxLinks
               /\ \A b \in Seq(STRING), e \in Nat :
                    EndOf[Lookup(<<>>, Front(Rooted(p)) \o b, MaxLinks + e)] =
                      EndOf[Lookup(at, b, left + e)]
               /\ Walk(Front(Rooted(p))) = at
               /\ File(p) = Append(at, Last(p.names))
               /\ IF File(p) \notin DOMAIN Links
                  THEN Leads(p) = Lookup(File(p), <<>>, left)
                  ELSE Leads(p) =
                         EndOf[Lookup(IF Links[File(p)].absolute THEN <<>>
                                      ELSE at,
                                      Links[File(p)].names, left - 1)]
<1>1. SUFFICES ASSUME Leads(p).left >= 0,
                      Last(p.names) \notin {"", ".", ".."}
               PROVE
             \E at \in Seq(STRING), left \in Nat :
               /\ left <= MaxLinks
               /\ \A b \in Seq(STRING), e \in Nat :
                    EndOf[Lookup(<<>>, Front(Rooted(p)) \o b, MaxLinks + e)] =
                      EndOf[Lookup(at, b, left + e)]
               /\ Walk(Front(Rooted(p))) = at
               /\ File(p) = Append(at, Last(p.names))
               /\ IF File(p) \notin DOMAIN Links
                  THEN Leads(p) = Lookup(File(p), <<>>, left)
                  ELSE Leads(p) =
                         EndOf[Lookup(IF Links[File(p)].absolute THEN <<>>
                                      ELSE at,
                                      Links[File(p)].names, left - 1)]
  OBVIOUS
<1> DEFINE F == Front(Rooted(p))
           n == Last(p.names)
           w == Lookup(<<>>, F, MaxLinks)
           v == EndOf[w]
<1>2. /\ F \in Seq(STRING) /\ n \in STRING /\ Rooted(p) = F \o <<n>>
  BY RootedIs
<1>3. <<n>> \in Seq(STRING) /\ <<>> \in Seq(STRING) BY <1>2, EmptySeq
<1>4. MaxLinks \in Nat /\ MaxLinks + 0 = MaxLinks BY PathsAssumption
<1>5. w \in Walks /\ w.at = <<>> /\ w.todo = F /\ w.left = MaxLinks
  <2>1. MaxLinks \in Int BY <1>4
  <2>2. w \in Walks BY <1>2, <1>3, <2>1, LookupType, Zenon DEF w
  <2>3. QED BY <2>2 DEF Lookup
<1>6. \A b, e : Behind(w, b, e) = Lookup(<<>>, F \o b, MaxLinks + e)
  BY <1>5 DEF Behind
<1> HIDE DEF w, F, n
<1>7. Leads(p) = EndOf[Behind(w, <<n>>, 0)]
  BY <1>2, <1>6, <1>4, Zenon DEF Leads
<1>8. EndsWell(w) BY <1>5, LookupsEnd
<1>9. v \in Ended /\ v.left <= MaxLinks /\ v.at \in Seq(STRING)
  BY <1>5, <1>8, WalksAre DEF EndsWell, Ended
<1>10. v.left \in Int BY <1>9, WalksAre DEF Ended
<1>11. v.left >= 0 /\ v.left \in Nat /\ v.left + 0 = v.left
  <2>1. v.left >= 0 => v.left \in Nat /\ v.left + 0 = v.left BY <1>10
  <2>2. SUFFICES ASSUME v.left < 0 PROVE FALSE BY <1>10, <2>1
  <2>3. Leads(p).left < 0 BY <1>3, <1>7, <1>8, <2>2 DEF EndsWell
  <2>4. Behind(w, <<n>>, 0) \in Walks
    <3>1. F \o <<n>> \in Seq(STRING) BY <1>2, <1>3, ConcatProperties
    <3>2. MaxLinks + 0 \in Int BY <1>4
    <3>3. QED BY <1>3, <1>6, <3>1, <3>2, LookupType
  <2>5. Leads(p).left \in Int
    BY <1>7, <2>4, LookupsEnd, WalksAre DEF EndsWell, Ended
  <2>6. ~ (Leads(p).left < 0)
    <3>1. \A k \in Int : k >= 0 => ~ (k < 0) OBVIOUS
    <3>2. QED BY <1>1, <2>5, <3>1, Zenon
  <2>7. QED BY <1>1, <2>3, <2>6
<1>12. \A b \in Seq(STRING), e \in Nat :
        EndOf[Lookup(<<>>, F \o b, MaxLinks + e)] =
          EndOf[Lookup(v.at, b, v.left + e)]
  BY <1>6, <1>8, <1>11 DEF EndsWell
<1>13. Walk(F) = v.at
  <2>1. Walk(F) = IF v.left < 0 THEN Loop ELSE v.at BY <1>2, WalkIs DEF w
  <2>2. ~ (v.left < 0) BY <1>11
  <2>3. QED BY <2>1, <2>2
<1>14. File(p) = Append(v.at, n) BY <1>13 DEF File, F, n
<1>15. Leads(p) = EndOf[Lookup(v.at, <<n>>, v.left)]
  <2>1. 0 \in Nat OBVIOUS
  <2>2. Leads(p) = EndOf[Lookup(<<>>, F \o <<n>>, MaxLinks + 0)]
    BY <1>6, <1>7, Zenon
  <2>3. EndOf[Lookup(<<>>, F \o <<n>>, MaxLinks + 0)] =
          EndOf[Lookup(v.at, <<n>>, v.left + 0)]
    BY <1>12, <1>3, <2>1, Zenon
  <2>4. v.left + 0 = v.left BY <1>11
  <2> HIDE DEF v
  <2>5. QED BY <2>2, <2>3, <2>4, Zenon
<1> DEFINE u == Lookup(v.at, <<n>>, v.left)
<1>16. u \in Walks \ Ended /\ Head(<<n>>) = n /\ Tail(<<n>>) = <<>>
  <2>1. u \in Walks BY <1>3, <1>9, <1>10, LookupType
  <2>2. u.todo = <<n>> /\ u.left = v.left BY DEF Lookup
  <2>3. ~ (v.left < 0) /\ <<n>> # <<>> BY <1>11
  <2> HIDE DEF u
  <2>4. ~ (u.left < 0) /\ u.todo # <<>> BY <2>2, <2>3, Zenon
  <2>5. u \notin Ended BY <2>4, Zenon DEF Ended
  <2>6. QED BY <2>1, <2>5
<1>17. EndOf[u] = EndOf[NextLookup(v.at, n, <<>>, v.left)]
  <2>1. EndOf[u] = EndOf[WalkStep(u)] BY <1>16, EndOfIs
  <2>2. WalkStep(u) = NextLookup(v.at, Head(<<n>>), Tail(<<n>>), v.left)
    BY WalkStepOf, Zenon
  <2>3. QED BY <1>16, <2>1, <2>2
<1>18. n \notin {"", ".", ".."} BY <1>1 DEF n
<1> HIDE DEF u, v
<1>19. CASE File(p) \notin DOMAIN Links
  <2>1. NextLookup(v.at, n, <<>>, v.left) = Lookup(File(p), <<>>, v.left)
    BY <1>14, <1>18, <1>19 DEF NextLookup
  <2>2. Lookup(File(p), <<>>, v.left) \in Ended
    <3>1. Append(v.at, n) \in Seq(STRING) BY <1>2, <1>9, AppendProperties
    <3>2. Lookup(File(p), <<>>, v.left) \in Walks
      BY <1>3, <1>10, <1>14, <3>1, LookupType
    <3>3. Lookup(File(p), <<>>, v.left).todo = <<>> BY DEF Lookup
    <3>4. QED BY <3>2, <3>3 DEF Ended
  <2>3. Leads(p) = Lookup(File(p), <<>>, v.left)
    BY <1>15, <1>17, <2>1, <2>2, EndOfIs DEF u
  <2>4. QED BY <1>9, <1>11, <1>12, <1>13, <1>14, <1>19, <2>3 DEF F, n
<1>20. CASE File(p) \in DOMAIN Links
  <2>1. NextLookup(v.at, n, <<>>, v.left) =
          Lookup(IF Links[File(p)].absolute THEN <<>> ELSE v.at,
                 Links[File(p)].names \o <<>>, v.left - 1)
    BY <1>14, <1>18, <1>20 DEF NextLookup
  <2>2. Links[File(p)].names \in Seq(STRING)
    BY <1>20, PathsAssumption DEF Paths
  <2>3. Links[File(p)].names \o <<>> = Links[File(p)].names
    BY <2>2, ConcatEmptySeq
  <2>4. Leads(p) = EndOf[Lookup(IF Links[File(p)].absolute THEN <<>> ELSE v.at,
                                Links[File(p)].names, v.left - 1)]
    BY <1>15, <1>17, <2>1, <2>3 DEF u
  <2>5. QED BY <1>9, <1>11, <1>12, <1>13, <1>14, <1>20, <2>4 DEF F, n
<1>21. QED BY <1>19, <1>20

\* A lookup ends with no more links left than it started with.
LEMMA LeadsTyped ==
  ASSUME NEW p \in Paths
  PROVE  /\ Leads(p).left \in Int /\ Leads(p).left <= MaxLinks
         /\ Walk(Rooted(p)) # Loop =>
              Leads(p).left >= 0 /\ Leads(p).at = Walk(Rooted(p))
<1> DEFINE w == Lookup(<<>>, Rooted(p), MaxLinks)
<1>1. Rooted(p) \in Seq(STRING) BY RootedIs
<1>2. MaxLinks \in Int /\ <<>> \in Seq(STRING) BY PathsAssumption, EmptySeq
<1>3. w \in Walks BY <1>1, <1>2, LookupType, Zenon
<1>4. w.left = MaxLinks BY DEF Lookup
<1>5. Leads(p) = EndOf[w] BY DEF Leads
<1> HIDE DEF w
<1>6. EndsWell(w) BY <1>3, LookupsEnd
<1>7. Leads(p) \in Walks /\ Leads(p).left <= MaxLinks
  BY <1>4, <1>5, <1>6 DEF EndsWell, Ended
<1>8. Leads(p).left \in Int BY <1>7, WalksAre
<1>9. Walk(Rooted(p)) = IF Leads(p).left < 0 THEN Loop ELSE Leads(p).at
  BY <1>1, WalkIs DEF Leads
<1>10. \A k \in Int : ~ (k < 0) => k >= 0 OBVIOUS
<1>11. QED BY <1>7, <1>8, <1>9, <1>10

\* Whether what a link made of a path is a path that makes sense.
Garbled(p, t) == ~ t.absolute /\ ~ p.absolute /\ Len(p.names) = 1

\* What a link makes of a path is a path.
LEMMA FollowedIs ==
  ASSUME NEW p \in Paths, NEW t \in Paths
  PROVE  /\ Followed(p, t) \in Paths
         /\ t.absolute => Followed(p, t) = t
         /\ ~ t.absolute /\ ~ Garbled(p, t) =>
              /\ Followed(p, t).absolute = p.absolute
              /\ Followed(p, t).names = Front(p.names) \o t.names
         /\ Garbled(p, t) => Followed(p, t).names[1] = "(garbled)"
<1>1. /\ p.names \in Seq(STRING) /\ p.names # <<>> /\ p.absolute \in BOOLEAN
      /\ t.names \in Seq(STRING) /\ t.names # <<>> /\ t.absolute \in BOOLEAN
      /\ p = [absolute |-> p.absolute, names |-> p.names]
  BY DEF Paths
<1>2. Front(p.names) \in Seq(STRING) BY <1>1, FrontIs
<1>3. \A a \in Seq(STRING) :
        a # <<>> => [p EXCEPT !.names = a] \in Paths
                    /\ [p EXCEPT !.names = a].absolute = p.absolute
                    /\ [p EXCEPT !.names = a].names = a
  BY <1>1 DEF Paths
<1>4. /\ Front(p.names) \o t.names \in Seq(STRING)
      /\ Front(p.names) \o t.names # <<>>
  <2>1. Front(p.names) \o t.names \in Seq(STRING)
    BY <1>1, <1>2, ConcatProperties
  <2>2. Front(p.names) \o t.names = <<>> <=>
          Front(p.names) = <<>> /\ t.names = <<>>
    BY <1>1, <1>2, ConcatEqualIffEmpty
  <2>3. QED BY <1>1, <2>1, <2>2
<1> DEFINE g == <<"(garbled)">> \o Tail(t.names)
<1>5. g \in Seq(STRING) /\ g # <<>> /\ g[1] = "(garbled)"
  <2>1. Tail(t.names) \in Seq(STRING) BY <1>1, HeadTailProperties
  <2>2. <<"(garbled)">> \in Seq(STRING) /\ Len(<<"(garbled)">>) = 1
    BY OneName, PathsAssumption, Zenon
  <2>3. /\ g \in Seq(STRING) /\ Len(g) = 1 + Len(Tail(t.names))
        /\ \A j \in 1 .. 1 + Len(Tail(t.names)) :
             g[j] = IF j <= 1 THEN <<"(garbled)">>[j]
                    ELSE Tail(t.names)[j - 1]
    BY <2>1, <2>2, ConcatProperties
  <2>4. Len(Tail(t.names)) \in Nat BY <2>1, LenProperties
  <2>5. 1 \in 1 .. 1 + Len(Tail(t.names)) /\ 1 <= 1 BY <2>4
  <2>6. g[1] = <<"(garbled)">>[1] BY <2>3, <2>5
  <2>7. g # <<>>
    <3>1. Len(g) # 0 BY <2>3, <2>4
    <3>2. QED BY <3>1, EmptySeq
  <2>8. QED BY <2>3, <2>6, <2>7
<1> HIDE DEF g
<1>6. CASE t.absolute BY <1>6 DEF Followed, Garbled
<1>7. CASE ~ t.absolute /\ Garbled(p, t)
  <2>1. Followed(p, t) = [p EXCEPT !.names = g]
    BY <1>7, Zenon DEF Followed, Garbled, g
  <2>2. QED BY <1>3, <1>5, <1>7, <2>1
<1>8. CASE ~ t.absolute /\ ~ Garbled(p, t)
  <2>1. Followed(p, t) = [p EXCEPT !.names = Front(p.names) \o t.names]
    BY <1>8, Zenon DEF Followed, Garbled
  <2>2. QED BY <1>3, <1>4, <1>8, <2>1
<1>9. QED BY <1>6, <1>7, <1>8

\* A link taken out of a path leaves where it leads, with a link less.
LEMMA FollowedLeads ==
  ASSUME NEW p \in Paths, File(p) \in DOMAIN Links,
         ~ Garbled(p, Links[File(p)])
  PROVE  LET q == Followed(p, Links[File(p)])
         IN  Leads(p).left >= 0 /\ Last(p.names) \notin {"", ".", ".."} =>
               Leads(q).at = Leads(p).at /\ Leads(q).left >= Leads(p).left + 1
<1> DEFINE t == Links[File(p)]
           q == Followed(p, t)
           F == Front(Rooted(p))
           v == Leads(p)
<1>0. SUFFICES ASSUME v.left >= 0, Last(p.names) \notin {"", ".", ".."}
               PROVE  Leads(q).at = v.at /\ Leads(q).left >= v.left + 1
  OBVIOUS
<1>1. PICK at \in Seq(STRING), left \in Nat :
        /\ left <= MaxLinks
        /\ \A b \in Seq(STRING), e \in Nat :
             EndOf[Lookup(<<>>, F \o b, MaxLinks + e)] =
               EndOf[Lookup(at, b, left + e)]
        /\ v = EndOf[Lookup(IF t.absolute THEN <<>> ELSE at, t.names,
                            left - 1)]
  BY <1>0, LeadsIs
<1>2. /\ t \in Paths /\ q \in Paths /\ t.names \in Seq(STRING)
      /\ t.absolute => q = t
      /\ ~ t.absolute =>
           q.absolute = p.absolute /\ q.names = Front(p.names) \o t.names
  BY PathsAssumption, FollowedIs DEF Paths
<1>3. /\ Front(p.names) \in Seq(STRING) /\ F \in Seq(STRING)
      /\ p.absolute => F = Front(p.names)
      /\ ~ p.absolute => F = Cwd \o Front(p.names)
  BY RootedIs DEF Rooted
<1> HIDE DEF t, q, F, v
<1>4. MaxLinks \in Nat /\ Cwd \in Seq(STRING) BY PathsAssumption
<1>5. v.left \in Int /\ v.left >= 0 BY <1>0, LeadsTyped DEF v
<1>6. ASSUME NEW a \in Seq(STRING), NEW n \in Nat,
             v = EndOf[Lookup(a, t.names, left - 1)]
      PROVE  LET u == EndOf[Lookup(a, t.names, left - 1 + n)]
             IN  u.at = v.at /\ u.left = v.left + n
  <2> DEFINE w == Lookup(a, t.names, left - 1)
             x == Lookup(v.at, <<>>, v.left + n)
  <2>1. left - 1 \in Int OBVIOUS
  <2>2. w \in Walks BY <1>2, <1>6, <2>1, LookupType, Zenon
  <2>3. w.at = a /\ w.todo = t.names /\ w.left = left - 1 BY DEF Lookup
  <2>4. <<>> \in Seq(STRING) /\ t.names \o <<>> = t.names
    BY <1>2, EmptySeq, ConcatEmptySeq
  <2>5. v = EndOf[w] BY <1>6
  <2> HIDE DEF w
  <2>6. EndsWell(w) BY <2>2, LookupsEnd
  <2>7. EndOf[Behind(w, <<>>, n)] = EndOf[x]
    BY <1>5, <1>6, <2>4, <2>5, <2>6 DEF EndsWell
  <2>8. Behind(w, <<>>, n) = Lookup(a, t.names, left - 1 + n)
    BY <2>3, <2>4 DEF Behind
  <2>9. v \in Ended BY <2>5, <2>6 DEF EndsWell
  <2>10. v.at \in Seq(STRING) BY <2>9, WalksAre DEF Ended
  <2>11. v.left + n \in Int BY <1>5, <1>6
  <2>12. x \in Walks BY <2>4, <2>10, <2>11, LookupType, Zenon
  <2>13. x.at = v.at /\ x.todo = <<>> /\ x.left = v.left + n BY DEF Lookup
  <2> HIDE DEF x
  <2>14. x \in Ended BY <2>12, <2>13, Zenon DEF Ended
  <2>15. EndOf[x] = x BY <2>14, EndOfIs
  <2>16. QED BY <2>7, <2>8, <2>13, <2>15
<1>7. CASE t.absolute
  <2> DEFINE n == MaxLinks - (left - 1)
  <2>1. n \in Nat /\ n >= 1 /\ left - 1 + n = MaxLinks BY <1>1, <1>4
  <2>2. <<>> \in Seq(STRING) BY EmptySeq
  <2>3. v = EndOf[Lookup(<<>>, t.names, left - 1)] BY <1>1, <1>7
  <2>4. Leads(q) = EndOf[Lookup(<<>>, t.names, left - 1 + n)]
    BY <1>2, <1>7, <2>1 DEF Leads, Rooted
  <2> HIDE DEF n
  <2>5. Leads(q).at = v.at /\ Leads(q).left = v.left + n
    BY <1>6, <2>1, <2>2, <2>3, <2>4
  <2>6. QED BY <1>5, <2>1, <2>5
<1>8. CASE ~ t.absolute
  <2>1. Rooted(q) = F \o t.names
    <3>1. CASE p.absolute BY <1>2, <1>3, <1>8, <3>1 DEF Rooted
    <3>2. CASE ~ p.absolute
      <4>1. Rooted(q) = Cwd \o (Front(p.names) \o t.names)
        BY <1>2, <1>8, <3>2 DEF Rooted
      <4>2. (Cwd \o Front(p.names)) \o t.names
              = Cwd \o (Front(p.names) \o t.names)
        <5>1. \A r, s, u \in Seq(STRING) : (r \o s) \o u = r \o (s \o u)
          BY ConcatAssociative
        <5>2. QED BY <1>2, <1>3, <1>4, <5>1, Zenon
      <4>3. QED BY <1>3, <3>2, <4>1, <4>2
    <3>3. QED BY <3>1, <3>2
  <2>2. v = EndOf[Lookup(at, t.names, left - 1)] BY <1>1, <1>8
  <2>3. Leads(q) = EndOf[Lookup(at, t.names, left - 1 + 1)]
    <3>1. /\ MaxLinks + 0 = MaxLinks /\ left + 0 = left - 1 + 1
          /\ 0 \in Nat
      BY <1>4
    <3>2. EndOf[Lookup(<<>>, F \o t.names, MaxLinks + 0)] =
            EndOf[Lookup(at, t.names, left + 0)]
      BY <1>1, <1>2, <3>1
    <3>3. QED BY <2>1, <3>1, <3>2, Zenon DEF Leads
  <2>4. 1 \in Nat OBVIOUS
  <2>5. Leads(q).at = v.at /\ Leads(q).left = v.left + 1
    BY <1>6, <2>2, <2>3, <2>4
  <2>6. QED BY <1>5, <2>5
<1>9. QED BY <1>7, <1>8 DEF q, t, v

-----------------------------------------------------------------------------
(* The chain of links, and the device at its end.                          *)

Chains == Seq(Paths) \ {<<>>}
ChainEnds ==
  {c \in Chains : File(Last(c)) \notin DOMAIN Links \/ Len(c) = MaxLinks + 2}
NextChain(c) == Append(c, Followed(Last(c), Links[File(Last(c))]))

\* A link is added to a chain that has not ended.
LEMMA NextChainIs ==
  ASSUME NEW c \in Chains
  PROVE  /\ c \in Seq(Paths) /\ c # <<>> /\ Len(c) \in Nat \ {0}
         /\ Last(c) \in Paths /\ Last(c) \in Range(c)
         /\ Range(c) \subseteq Paths
         /\ c \notin ChainEnds =>
              /\ File(Last(c)) \in DOMAIN Links /\ Len(c) # MaxLinks + 2
              /\ NextChain(c) \in Chains /\ Len(NextChain(c)) = Len(c) + 1
              /\ Last(NextChain(c)) = Followed(Last(c), Links[File(Last(c))])
              /\ Range(c) \subseteq Range(NextChain(c))
<1>1. c \in Seq(Paths) /\ c # <<>> BY DEF Chains
<1>2. Len(c) \in Nat \ {0} /\ DOMAIN c = 1 .. Len(c)
  BY <1>1, EmptySeq, LenProperties
<1>3. Last(c) \in Paths BY <1>1, FrontIs
<1>4. Len(c) \in DOMAIN c BY <1>2
<1>5. Last(c) \in Range(c) BY <1>4 DEF Last, Range
<1>6. Range(c) \subseteq Paths BY <1>1, <1>2, ElementOfSeq DEF Range
<1>7. ASSUME c \notin ChainEnds
      PROVE  /\ File(Last(c)) \in DOMAIN Links /\ Len(c) # MaxLinks + 2
             /\ NextChain(c) \in Chains /\ Len(NextChain(c)) = Len(c) + 1
             /\ Last(NextChain(c)) = Followed(Last(c), Links[File(Last(c))])
             /\ Range(c) \subseteq Range(NextChain(c))
  <2> DEFINE q == Followed(Last(c), Links[File(Last(c))])
             d == Append(c, q)
  <2>1. File(Last(c)) \in DOMAIN Links /\ Len(c) # MaxLinks + 2
    BY <1>7 DEF ChainEnds
  <2>2. Links[File(Last(c))] \in Paths BY <2>1, PathsAssumption
  <2>3. q \in Paths BY <1>3, <2>2, FollowedIs
  <2> HIDE DEF q
  <2>4. /\ d \in Seq(Paths) /\ d # <<>> /\ Len(d) = Len(c) + 1
        /\ \A j \in 1 .. Len(c) : d[j] = c[j]
        /\ d[Len(c) + 1] = q
    BY <1>1, <2>3, AppendProperties
  <2> HIDE DEF d
  <2>5. NextChain(c) = d BY DEF NextChain, d, q
  <2>6. Last(d) = q BY <2>4 DEF Last
  <2>7. DOMAIN d = 1 .. Len(c) + 1 BY <2>4, LenProperties
  <2>8. ASSUME NEW j \in DOMAIN c PROVE j \in DOMAIN d /\ d[j] = c[j]
    BY <1>2, <2>4, <2>7
  <2>9. Range(c) \subseteq Range(d) BY <2>8 DEF Range
  <2>10. QED BY <2>1, <2>4, <2>5, <2>6, <2>9 DEF Chains, q
<1>8. QED BY <1>1, <1>2, <1>3, <1>5, <1>6, <1>7

\* A path on which the dots, the slashes and the bare links that make a
\* difference are left out.
Clear(p) == Last(p.names) \notin {"", ".", ".."} /\ p.names[1] # "(garbled)"

\* Where the chain of a path ends is a file, and what the path leads to.
LEMMA ChainIs ==
  ASSUME NEW p \in Paths
  PROVE  /\ Chain(p) \in Chains
         /\ (\A q \in Range(Chain(p)) : Clear(q)) /\ Leads(p).left >= 0 =>
              LET q == Last(Chain(p))
              IN  /\ File(q) \notin DOMAIN Links
                  /\ Leads(q).at = Leads(p).at /\ Leads(q).left >= 0
<1> DEFINE out == [c \in Chains |-> c]
           next == [c \in Chains |->
                      IF c \in ChainEnds THEN c ELSE NextChain(c)]
           Solves(f) ==
             f = [c \in Chains |->
                    IF File(Last(c)) \notin DOMAIN Links
                       \/ Len(c) = MaxLinks + 2
                    THEN c
                    ELSE f[Append(c, Followed(Last(c),
                                              Links[File(Last(c))]))]]
           chain == CHOOSE f : Solves(f)
           G == {c \in Chains : Len(c) <= MaxLinks + 2}
           m == [c \in G |-> MaxLinks + 2 - Len(c)]
           Good(c) ==
             LET r == chain[c]
             IN  /\ r \in Chains /\ Range(c) \subseteq Range(r)
                 /\ (\A q \in Range(r) : Clear(q))
                      /\ Leads(Last(c)).left >= Len(c) - 1 =>
                      /\ File(Last(r)) \notin DOMAIN Links
                      /\ Leads(Last(r)).at = Leads(Last(c)).at
                      /\ Leads(Last(r)).left >= 0
           H == {c \in G : Good(c)}
<1>1. next \in [Chains -> Chains] BY NextChainIs
<1>2. PICK f : IsLoop(f, Chains, ChainEnds, next, out)
  <2> HIDE DEF next, out
  <2>1. QED BY <1>1, LoopExists
<1>3. Solves(f)
  <2>1. \A c \in Chains : c \in ChainEnds <=>
          File(Last(c)) \notin DOMAIN Links \/ Len(c) = MaxLinks + 2
    BY DEF ChainEnds
  <2>2. QED BY <1>2, <2>1 DEF IsLoop, NextChain
<1>4. Solves(chain) BY <1>3
<1> HIDE DEF chain
<1>5. \A c \in ChainEnds : chain[c] = c BY <1>4 DEF ChainEnds
<1>6. \A c \in Chains \ ChainEnds : chain[c] = chain[NextChain(c)]
  BY <1>4 DEF ChainEnds, NextChain
<1>7. MaxLinks \in Nat BY PathsAssumption
<1>8. m \in [G -> Nat]
  <2>1. \A c \in G : MaxLinks + 2 - Len(c) \in Nat BY <1>7, NextChainIs
  <2> HIDE DEF G
  <2>2. QED BY <2>1
<1>9. ASSUME NEW c \in G, \A d \in G : m[d] < m[c] => d \in H
      PROVE  c \in H
  <2>1. /\ c \in Chains /\ Len(c) \in Nat \ {0} /\ Len(c) <= MaxLinks + 2
        /\ Last(c) \in Paths /\ Last(c) \in Range(c)
    BY NextChainIs
  <2>2. Leads(Last(c)).left \in Int /\ Leads(Last(c)).left <= MaxLinks
    BY <2>1, LeadsTyped
  <2>3. CASE c \in ChainEnds
    <3>1. chain[c] = c BY <1>5, <2>3
    <3>2. ASSUME Leads(Last(c)).left >= Len(c) - 1
          PROVE  File(Last(c)) \notin DOMAIN Links
      <4>1. Len(c) # MaxLinks + 2 BY <1>7, <2>1, <2>2, <3>2
      <4>2. QED BY <2>3, <4>1 DEF ChainEnds
    <3>3. ASSUME Leads(Last(c)).left >= Len(c) - 1
          PROVE  Leads(Last(c)).left >= 0
      BY <2>1, <2>2, <3>3
    <3>4. Good(c) BY <2>1, <3>1, <3>2, <3>3
    <3>5. QED BY <3>4
  <2>4. CASE c \notin ChainEnds
    <3> DEFINE d == NextChain(c)
               r == chain[d]
               t == Links[File(Last(c))]
    <3>1. /\ d \in Chains /\ Len(d) = Len(c) + 1 /\ Len(c) # MaxLinks + 2
          /\ Last(d) = Followed(Last(c), t) /\ Range(c) \subseteq Range(d)
          /\ File(Last(c)) \in DOMAIN Links
          /\ Last(d) \in Range(d) /\ Last(d) \in Paths
      BY <2>1, <2>4, NextChainIs
    <3>2. d \in G /\ m[d] < m[c] BY <1>7, <2>1, <3>1
    <3>3. Good(d) BY <1>9, <3>2
    <3>4. chain[c] = r BY <1>6, <2>1, <2>4
    <3>5. t \in Paths BY <3>1, PathsAssumption
    <3> HIDE DEF d, t
    <3>6. r \in Chains /\ Range(d) \subseteq Range(r) BY <3>3
    <3>7. ASSUME \A q \in Range(r) : Clear(q),
                 Leads(Last(c)).left >= Len(c) - 1
          PROVE  /\ Leads(Last(d)).at = Leads(Last(c)).at
                 /\ Leads(Last(d)).left >= Len(d) - 1
      <4>1. Clear(Last(c)) /\ Clear(Last(d)) BY <2>1, <3>1, <3>6, <3>7
      <4>2. ~ Garbled(Last(c), t)
        <5>1. Garbled(Last(c), t) =>
                Followed(Last(c), t).names[1] = "(garbled)"
          BY <2>1, <3>5, FollowedIs, Zenon
        <5>2. Last(d).names[1] # "(garbled)" BY <4>1, Zenon DEF Clear
        <5>3. QED BY <3>1, <5>1, <5>2, Zenon
      <4>3. Last(c).names # <<>> /\ Last(Last(c).names) \notin {"", ".", ".."}
        BY <2>1, <4>1 DEF Clear, Paths
      <4>4. Leads(Last(c)).left >= 0 BY <2>1, <2>2, <3>7
      <4>5. /\ Leads(Last(d)).at = Leads(Last(c)).at
            /\ Leads(Last(d)).left >= Leads(Last(c)).left + 1
        BY <2>1, <3>1, <4>2, <4>3, <4>4, FollowedLeads DEF t
      <4>6. Leads(Last(d)).left \in Int BY <3>1, LeadsTyped
      <4>7. QED BY <2>1, <2>2, <3>1, <3>7, <4>5, <4>6
    <3>8. (\A q \in Range(r) : Clear(q)) /\ Leads(Last(d)).left >= Len(d) - 1
            => /\ File(Last(r)) \notin DOMAIN Links
               /\ Leads(Last(r)).at = Leads(Last(d)).at
               /\ Leads(Last(r)).left >= 0
      BY <3>3
    <3> HIDE DEF r
    <3>9. Good(c) BY <3>1, <3>4, <3>6, <3>7, <3>8
    <3>10. QED BY <3>9
  <2>5. QED BY <2>3, <2>4
<1>10. H = G
  <2>1. H \in SUBSET G OBVIOUS
  <2>2. \A c \in G : (\A d \in G : m[d] < m[c] => d \in H) => c \in H BY <1>9
  <2> HIDE DEF H, G, m
  <2>3. QED BY <1>8, <2>1, <2>2, ByMeasure
<1> DEFINE c0 == <<p>>
<1>11. c0 \in Chains /\ Len(c0) = 1 /\ Last(c0) = p BY DEF Chains, Last
<1>12. c0 \in G BY <1>7, <1>11
<1>13. Chain(p) = chain[c0] BY Zenon DEF Chain, chain, Chains
<1> HIDE DEF c0
<1>14. Good(c0) BY <1>10, <1>12
<1> HIDE DEF H, G, m
<1>15. QED BY <1>11, <1>13, <1>14

\* The path readlink_recursive() and get_absolute_path() find is the one the
\* path leads to.
LEMMA PlainPathLeads ==
  ASSUME NEW p \in Paths, Plain(p), Walk(Rooted(p)) # Loop
  PROVE  get_absolute_path(readlink_recursive(p)) = Walk(Rooted(p))
<1> DEFINE q == Last(Chain(p))
           F == Front(Rooted(q))
<1>1. Leads(p).left >= 0 /\ Leads(p).at = Walk(Rooted(p)) BY LeadsTyped
<1>2. \A r \in Range(Chain(p)) : Clear(r) BY DEF Plain, Clear
<1>3. Chain(p) \in Chains BY ChainIs
<1>4. q \in Range(Chain(p)) /\ q \in Paths BY <1>3, NextChainIs
<1>5. File(q) \notin DOMAIN Links /\ Leads(q).at = Leads(p).at
      /\ Leads(q).left >= 0
  BY <1>1, <1>2, ChainIs
<1>6. /\ Dots(Front(Joined(q))) = Walk(F)
      /\ Last(q.names) \notin {"", ".", ".."}
  BY <1>4 DEF Plain, readlink_recursive
<1> HIDE DEF q
<1>7. PICK at, left : /\ Walk(F) = at /\ File(q) = Append(at, Last(q.names))
                      /\ Leads(q) = Lookup(File(q), <<>>, left)
  <2>1. Leads(q).left >= 0 /\ Last(q.names) \notin {"", ".", ".."}
    BY <1>5, <1>6, Zenon
  <2>2. \E at \in Seq(STRING), left \in Nat :
          /\ Walk(Front(Rooted(q))) = at
          /\ File(q) = Append(at, Last(q.names))
          /\ File(q) \notin DOMAIN Links => Leads(q) = Lookup(File(q), <<>>, left)
    BY <1>4, <2>1, LeadsIs, Zenon
  <2>3. QED BY <1>5, <2>2, Zenon
<1>8. Leads(q).at = File(q) BY <1>7 DEF Lookup
<1>9. get_absolute_path(q) = Append(Walk(F), Last(q.names))
  BY <1>6 DEF get_absolute_path
<1>10. QED BY <1>1, <1>5, <1>7, <1>8, <1>9 DEF readlink_recursive, q

-----------------------------------------------------------------------------
(* The invariant of lsusb.                                                 *)

\* What parsing the options may come to.
OptsType ==
  [err : BOOLEAN, operands : BOOLEAN, help : BOOLEAN, tree : BOOLEAN,
   verbose : BOOLEAN, bus : Ints, devnum : Ints, vendor : Ints,
   product : Ints, devdump : Paths \cup {NoPath}]

\* The variables have values of their types.
LsusbTyped ==
  /\ plugged \subseteq Devices /\ Distinct(plugged)
  /\ listed \subseteq Devices /\ lost \subseteq Devices
  /\ main \in Points
  /\ asked \in Seq(Options) /\ argv \in Seq(Options) /\ opts \in OptsType
  /\ names \in BOOLEAN /\ ctx \in BOOLEAN
  /\ list \in Seq(Devices) /\ Len(list) <= Cardinality(Devices)
  /\ i \in 1 .. Cardinality(Devices) + 1
  /\ shown \in Seq(Devices) /\ status \in {0, 1}

\* The options parsed, and the number the last one of them that gave one gave.
Past == Len(asked) - Len(argv)

Gives(s, k, opt, field) == s[k].opt = opt /\ s[k][field] # -1

LastIs(s, n, value, opt, field) ==
  \/ value = -1 /\ \A k \in 1 .. n : ~ Gives(s, k, opt, field)
  \/ \E k \in 1 .. n :
       /\ Gives(s, k, opt, field) /\ value = AsInt(s[k][field])
       /\ \A j \in k + 1 .. n : ~ Gives(s, j, opt, field)

\* What was asked for is what the options parsed so far say.
ParsedInv ==
  /\ Len(argv) <= Len(asked)
  /\ \A k \in 1 .. Len(argv) : argv[k] = asked[Past + k]
  /\ LastIs(asked, Past, opts.bus, "s", "bus")
  /\ LastIs(asked, Past, opts.devnum, "s", "devnum")
  /\ LastIs(asked, Past, opts.vendor, "d", "vendor")
  /\ LastIs(asked, Past, opts.product, "d", "product")
  /\ opts.help => \E k \in DOMAIN asked : asked[k].opt = "h"
  /\ main \notin {"none", "options", "exit"} => argv = <<>>

\* No device has been looked for.
NotYet ==
  \/ main \in {"none", "options", "tree", "libusb"}
  \/ main = "list" /\ list = <<>>

\* What is in use where main() is.
PlaceInv ==
  /\ main = "dump" <=> pc # "idle"
  /\ ctx <=> main \in {"list", "dump", "free", "close"}
  /\ list # <<>> => main \in {"list", "dump", "free"} /\ opts.devdump = NoPath
  /\ main \in {"none", "options"} => ~ names
  /\ main = "tree" => opts.tree
  /\ NotYet => /\ shown = <<>> /\ listed = {} /\ list = <<>>
               /\ i = 1 /\ status = 0
  /\ main = "free" /\ list = <<>> => listed = {} /\ shown = <<>>

\* The status says whether a device was shown.
StatusInv ==
  /\ ~ NotYet /\ main # "exit" => (status = 0 <=> shown # <<>>)
  /\ main = "exit" =>
       /\ shown # <<>> => status = 0
       /\ status = 0 => \/ shown # <<>>
                        \/ opts.tree
                        \/ \E k \in DOMAIN asked : asked[k].opt \in {"V", "h"}
       /\ names => shown = <<>> /\ status = 1

\* Something refers to the device that is dumped, or it was unplugged and the
\* list it was found in is gone.
UseInv ==
  main = "dump" =>
    /\ list # <<>> => dev \in Range(list)
    /\ list = <<>> => opts.devdump # NoPath /\ dev \in plugged \cup lost

\* The list is in order, and shown are those of it that are selected so far.
ListInv ==
  list # <<>> =>
    /\ Range(list) = listed
    /\ \A j, k \in 1 .. Len(list) : j < k => Before(list[j], list[k])
    /\ i <= Len(list) + 1
    /\ main = "free" => i = Len(list) + 1
    /\ Range(shown) = {list[k] : k \in {j \in 1 .. i - 1 : Selected(list[j])}}

\* The devices shown are in order, and in the end those that are selected.
ShownInv ==
  opts.devdump = NoPath =>
    /\ \A j, k \in 1 .. Len(shown) : j < k => Before(shown[j], shown[k])
    /\ main \in {"free", "close"} =>
         Range(shown) = {d \in listed : Selected(d)}

\* The device shown for -D is the one listed that the path was found to name.
NodeInv ==
  opts.devdump # NoPath /\ main \in {"dump", "close"} =>
    Range(shown) = get_usb_device(opts.devdump, listed)

\* The inductive invariant.
LsusbInv ==
  /\ DumpInv /\ LsusbTyped /\ ParsedInv /\ PlaceInv /\ StatusInv /\ UseInv
  /\ ListInv /\ ShownInv /\ NodeInv

\* An option, and what it makes of the options before it.
LEMMA OptionIs ==
  ASSUME NEW o \in Options
  PROVE  /\ o.opt = "s" => o.bus \in Numbers /\ o.devnum \in Numbers
         /\ o.opt = "d" => o.vendor \in Numbers /\ o.product \in Numbers
         /\ o.opt = "D" => o.path \in Paths
BY DEF Options

\* What an option makes of a number is an int.
LEMMA GivenIs ==
  ASSUME NEW n \in Numbers, NEW before \in Ints PROVE Given(n, before) \in Ints
BY AsIntIs DEF Given, Numbers

\* What an option changes of what was asked for, and what it does not.
LEMMA ParsedIs ==
  ASSUME opts \in OptsType, NEW o \in Options
  PROVE  /\ Parsed(o) \in OptsType
         /\ Parsed(o).bus =
              IF o.opt = "s" THEN Given(o.bus, opts.bus) ELSE opts.bus
         /\ Parsed(o).devnum =
              IF o.opt = "s" THEN Given(o.devnum, opts.devnum) ELSE opts.devnum
         /\ Parsed(o).vendor =
              IF o.opt = "d" THEN Given(o.vendor, opts.vendor) ELSE opts.vendor
         /\ Parsed(o).product =
              IF o.opt = "d" THEN Given(o.product, opts.product)
              ELSE opts.product
         /\ Parsed(o).help => opts.help \/ o.opt = "h"
<1>1. opts.bus \in Ints /\ opts.devnum \in Ints /\ opts.vendor \in Ints
      /\ opts.product \in Ints
  BY DEF OptsType
<1>2. CASE o.opt = "v"
  <2>1. Parsed(o) = [opts EXCEPT !.verbose = TRUE] BY <1>2 DEF Parsed
  <2>2. QED BY <1>2, <2>1 DEF OptsType
<1>3. CASE o.opt = "h"
  <2>1. Parsed(o) = [opts EXCEPT !.help = TRUE] BY <1>3 DEF Parsed
  <2>2. QED BY <1>3, <2>1 DEF OptsType
<1>4. CASE o.opt = "t"
  <2>1. Parsed(o) = [opts EXCEPT !.tree = TRUE] BY <1>4 DEF Parsed
  <2>2. QED BY <1>4, <2>1 DEF OptsType
<1>5. CASE o.opt = "s"
  <2>1. Parsed(o) = [opts EXCEPT !.bus = Given(o.bus, opts.bus),
                                 !.devnum = Given(o.devnum, opts.devnum)]
    BY <1>5 DEF Parsed
  <2>2. /\ Given(o.bus, opts.bus) \in Ints
        /\ Given(o.devnum, opts.devnum) \in Ints
    BY <1>1, <1>5, OptionIs, GivenIs
  <2>3. QED BY <1>5, <2>1, <2>2 DEF OptsType
<1>6. CASE o.opt = "d"
  <2>1. Parsed(o) = [opts EXCEPT !.vendor = Given(o.vendor, opts.vendor),
                                 !.product = Given(o.product, opts.product)]
    BY <1>6 DEF Parsed
  <2>2. /\ Given(o.vendor, opts.vendor) \in Ints
        /\ Given(o.product, opts.product) \in Ints
    BY <1>1, <1>6, OptionIs, GivenIs
  <2>3. QED BY <1>6, <2>1, <2>2 DEF OptsType
<1>7. CASE o.opt = "D"
  <2>1. Parsed(o) = [opts EXCEPT !.devdump = o.path] BY <1>7 DEF Parsed
  <2>2. QED BY <1>7, <2>1, OptionIs DEF OptsType
<1>8. CASE o.opt = "operand"
  <2>1. Parsed(o) = [opts EXCEPT !.operands = TRUE] BY <1>8 DEF Parsed
  <2>2. QED BY <1>8, <2>1 DEF OptsType
<1>9. CASE o.opt \notin {"v", "h", "t", "s", "d", "D", "operand"}
  <2>1. Parsed(o) = [opts EXCEPT !.err = TRUE] BY <1>9 DEF Parsed
  <2>2. QED BY <1>9, <2>1 DEF OptsType
<1>10. QED BY <1>2, <1>3, <1>4, <1>5, <1>6, <1>7, <1>8, <1>9

\* One option more.
LEMMA LastNext ==
  ASSUME NEW s, NEW n \in Nat, NEW value, NEW opt, NEW field,
         LastIs(s, n, value, opt, field)
  PROVE  LastIs(s, n + 1, IF s[n + 1].opt = opt
                          THEN Given(s[n + 1][field], value) ELSE value,
                opt, field)
<1>1. /\ n + 1 \in 1 .. n + 1
      /\ \A k \in 1 .. n + 1 : k = n + 1 \/ k \in 1 .. n
      /\ \A k \in 1 .. n : k \in 1 .. n + 1 /\ k < n + 1
  OBVIOUS
<1>2. CASE Gives(s, n + 1, opt, field)
  <2>1. \A j \in (n + 1) + 1 .. n + 1 : ~ Gives(s, j, opt, field) OBVIOUS
  <2>2. Given(s[n + 1][field], value) = AsInt(s[n + 1][field])
        /\ s[n + 1].opt = opt
    BY <1>2 DEF Given, Gives
  <2>3. QED BY <1>1, <1>2, <2>1, <2>2 DEF LastIs
<1>3. CASE ~ Gives(s, n + 1, opt, field)
  <2>1. (IF s[n + 1].opt = opt THEN Given(s[n + 1][field], value) ELSE value)
          = value
    BY <1>3 DEF Given, Gives
  <2>2. CASE value = -1 /\ \A k \in 1 .. n : ~ Gives(s, k, opt, field)
    BY <1>1, <1>3, <2>1, <2>2 DEF LastIs
  <2>3. ASSUME NEW k \in 1 .. n,
               /\ Gives(s, k, opt, field) /\ value = AsInt(s[k][field])
               /\ \A j \in k + 1 .. n : ~ Gives(s, j, opt, field)
        PROVE  LastIs(s, n + 1, value, opt, field)
    <3>1. \A j \in k + 1 .. n + 1 : j = n + 1 \/ j \in k + 1 .. n OBVIOUS
    <3>2. \A j \in k + 1 .. n + 1 : ~ Gives(s, j, opt, field)
      BY <1>3, <2>3, <3>1
    <3>3. QED BY <1>1, <2>3, <3>2 DEF LastIs
  <2>4. QED BY <2>1, <2>2, <2>3 DEF LastIs
<1>4. QED BY <1>2, <1>3

\* What an action that changes none of them leaves as it was.
LEMMA ParsedStays ==
  ASSUME ParsedInv, UNCHANGED optionVars,
         main' \in {"none", "options", "exit"} \/ argv = <<>>
  PROVE  ParsedInv'
BY DEF ParsedInv, optionVars, Past, LastIs, Gives

\* Before a device is looked for there is none.
LEMMA NothingYet ==
  ASSUME LsusbInv, NotYet
  PROVE  /\ shown = <<>> /\ Range(shown) = {} /\ listed = {} /\ i = 1
         /\ status = 0 /\ list = <<>>
<1>1. Range(<<>>) = {} BY DEF Range
<1>2. QED BY <1>1 DEF LsusbInv, PlaceInv

\* A number given replaces the one of its kind; with the last option, what was
\* asked for is what all of them say.
LEMMA OptionKeepsInv == ASSUME LsusbInv, Option PROVE LsusbInv'
<1> DEFINE o == Head(argv)
<1>1. NotYet /\ shown = <<>> /\ listed = {} /\ list = <<>> /\ status = 0
  <2>1. NotYet BY DEF Option, NotYet
  <2>2. QED BY <2>1, NothingYet
<1>2. DumpInv' BY StutterKeepsInv DEF LsusbInv, Option
<1>3. /\ o \in Options /\ Tail(argv) \in Seq(Options) /\ Len(argv) \in Nat
      /\ Len(argv) > 0 /\ Len(Tail(argv)) = Len(argv) - 1
      /\ \A k \in 1 .. Len(argv) - 1 : Tail(argv)[k] = argv[k + 1]
      /\ o = argv[1] /\ Len(asked) \in Nat
  BY DEF LsusbInv, LsusbTyped, Option
<1>4. LsusbTyped'
  <2>1. opts' \in OptsType
    BY <1>3, ParsedIs DEF LsusbInv, LsusbTyped, Option
  <2>2. QED BY <1>3, <2>1
        DEF LsusbInv, LsusbTyped, Option, Exit, hostVars, listVars, Points,
            Distinct
<1>5. /\ Past \in Nat /\ Past' = Past + 1 /\ Past + 1 \in 1 .. Len(asked)
      /\ asked[Past + 1] = o /\ asked' = asked
  <2>1. Len(argv) <= Len(asked) /\ argv[1] = asked[Past + 1]
    BY <1>3 DEF LsusbInv, ParsedInv
  <2>2. QED BY <1>3, <2>1 DEF Option, Past
<1>6. ParsedInv'
  <2>1. Len(argv') <= Len(asked')
    BY <1>3, <1>5 DEF LsusbInv, ParsedInv, Option
  <2>2. ASSUME NEW k \in 1 .. Len(argv') PROVE argv'[k] = asked'[Past' + k]
    <3>1. k \in 1 .. Len(argv) - 1 /\ argv'[k] = argv[k + 1]
          /\ k + 1 \in 1 .. Len(argv)
      BY <1>3 DEF Option
    <3>2. argv[k + 1] = asked[Past + (k + 1)]
      BY <3>1 DEF LsusbInv, ParsedInv
    <3>3. Past + (k + 1) = Past' + k BY <1>5
    <3>4. QED BY <1>5, <3>1, <3>2, <3>3
  <2>3. CASE o.opt = "V"
    <3>1. opts' = opts BY <2>3 DEF Option
    <3>2. /\ LastIs(asked, Past + 1, opts.bus, "s", "bus")
          /\ LastIs(asked, Past + 1, opts.devnum, "s", "devnum")
          /\ LastIs(asked, Past + 1, opts.vendor, "d", "vendor")
          /\ LastIs(asked, Past + 1, opts.product, "d", "product")
      <4>1. "V" # "s" /\ "V" # "d" OBVIOUS
      <4>2. asked[Past + 1].opt = "V" BY <1>5, <2>3
      <4>3. QED BY <1>5, <4>1, <4>2, LastNext DEF LsusbInv, ParsedInv
    <3>3. asked' = asked /\ Past' = Past + 1 /\ opts' = opts
          /\ main' = "exit"
      BY <1>5, <2>3, <3>1 DEF Option, Exit
    <3>4. /\ LastIs(asked, Past, opts.bus, "s", "bus")'
          /\ LastIs(asked, Past, opts.devnum, "s", "devnum")'
          /\ LastIs(asked, Past, opts.vendor, "d", "vendor")'
          /\ LastIs(asked, Past, opts.product, "d", "product")'
      BY <3>2, <3>3 DEF LastIs, Gives
    <3>5. opts.help => \E k \in DOMAIN asked : asked[k].opt = "h"
      BY DEF LsusbInv, ParsedInv
    <3>6. QED BY <2>1, <2>2, <3>3, <3>4, <3>5 DEF ParsedInv
  <2>4. CASE o.opt # "V"
    <3>1. opts' = Parsed(o) /\ main' = main BY <2>4 DEF Option
    <3>2. /\ LastIs(asked, Past + 1, Parsed(o).bus, "s", "bus")
          /\ LastIs(asked, Past + 1, Parsed(o).devnum, "s", "devnum")
          /\ LastIs(asked, Past + 1, Parsed(o).vendor, "d", "vendor")
          /\ LastIs(asked, Past + 1, Parsed(o).product, "d", "product")
      <4>1. opts \in OptsType BY DEF LsusbInv, LsusbTyped
      <4>2. /\ o["bus"] = o.bus /\ o["devnum"] = o.devnum
            /\ o["vendor"] = o.vendor /\ o["product"] = o.product
        OBVIOUS
      <4>3. /\ LastIs(asked, Past, opts.bus, "s", "bus")
            /\ LastIs(asked, Past, opts.devnum, "s", "devnum")
            /\ LastIs(asked, Past, opts.vendor, "d", "vendor")
            /\ LastIs(asked, Past, opts.product, "d", "product")
        BY DEF LsusbInv, ParsedInv
      <4>4. \A value, opt, field :
              LastIs(asked, Past, value, opt, field) =>
                LastIs(asked, Past + 1,
                       IF o.opt = opt THEN Given(o[field], value) ELSE value,
                       opt, field)
        BY <1>5, LastNext, Zenon
      <4>5. /\ Parsed(o).bus = IF o.opt = "s" THEN Given(o["bus"], opts.bus)
                               ELSE opts.bus
            /\ Parsed(o).devnum = IF o.opt = "s"
                                  THEN Given(o["devnum"], opts.devnum)
                                  ELSE opts.devnum
            /\ Parsed(o).vendor = IF o.opt = "d"
                                  THEN Given(o["vendor"], opts.vendor)
                                  ELSE opts.vendor
            /\ Parsed(o).product = IF o.opt = "d"
                                   THEN Given(o["product"], opts.product)
                                   ELSE opts.product
        BY <1>3, <4>1, <4>2, ParsedIs
      <4> HIDE DEF o
      <4>6. QED BY <4>3, <4>4, <4>5, Zenon
    <3>3. opts'.help => \E k \in DOMAIN asked : asked[k].opt = "h"
      <4>1. Parsed(o).help => opts.help \/ o.opt = "h"
        BY <1>3, ParsedIs DEF LsusbInv, LsusbTyped
      <4>2. DOMAIN asked = 1 .. Len(asked)
        BY LenProperties DEF LsusbInv, LsusbTyped
      <4>3. QED BY <1>5, <3>1, <4>1, <4>2 DEF LsusbInv, ParsedInv
    <3>4. asked' = asked /\ Past' = Past + 1 /\ main' = "options"
      BY <1>5, <3>1 DEF Option
    <3>5. /\ LastIs(asked, Past, opts.bus, "s", "bus")'
          /\ LastIs(asked, Past, opts.devnum, "s", "devnum")'
          /\ LastIs(asked, Past, opts.vendor, "d", "vendor")'
          /\ LastIs(asked, Past, opts.product, "d", "product")'
      BY <3>1, <3>2, <3>4 DEF LastIs, Gives
    <3>6. QED BY <2>1, <2>2, <3>3, <3>4, <3>5 DEF ParsedInv
  <2>5. QED BY <2>3, <2>4
<1>7. PlaceInv'
  BY <1>1 DEF LsusbInv, PlaceInv, NotYet, Option, Exit, vars, hostVars,
              listVars
<1>8. StatusInv'
  <2>1. CASE o.opt = "V"
    <3>1. Past + 1 \in DOMAIN asked'
      BY <1>5, LenProperties DEF LsusbInv, LsusbTyped
    <3>2. asked'[Past + 1].opt \in {"V", "h"} BY <1>5, <2>1
    <3>3. status' = 0 /\ main' = "exit" /\ names' = names /\ ~ names
      BY <2>1 DEF Option, Exit, hostVars, LsusbInv, PlaceInv
    <3>4. QED BY <3>1, <3>2, <3>3 DEF StatusInv
  <2>2. CASE o.opt # "V"
    BY <2>2 DEF StatusInv, Option, NotYet
  <2>3. QED BY <2>1, <2>2
<1>9. UseInv' BY DEF UseInv, Option, Exit
<1>10. ListInv' BY <1>1 DEF ListInv, Option, listVars
<1>11. ShownInv'
  BY <1>1, EmptySeq DEF ShownInv, Option, Exit
<1>12. NodeInv' BY <1>1 DEF NodeInv, Option, Exit, NotYet
<1>13. QED BY <1>2, <1>4, <1>6, <1>7, <1>8, <1>9, <1>10, <1>11, <1>12
       DEF LsusbInv

\* Nothing has been opened or shown when the options end the program.
LEMMA UsageKeepsInv == ASSUME LsusbInv, Usage PROVE LsusbInv'
<1>1. NotYet /\ shown = <<>> /\ listed = {} /\ list = <<>> /\ status = 0
  <2>1. NotYet BY DEF Usage, NotYet
  <2>2. QED BY <2>1, NothingYet
<1>2. DumpInv' BY StutterKeepsInv DEF LsusbInv, Usage
<1>3. LsusbTyped'
  BY DEF LsusbInv, LsusbTyped, Usage, Exit, optionVars, hostVars, listVars,
         Points, Distinct
<1>4. ParsedInv' BY ParsedStays DEF LsusbInv, Usage
<1>5. PlaceInv'
  BY <1>1 DEF LsusbInv, PlaceInv, NotYet, Usage, Exit, vars, optionVars,
              hostVars, listVars
<1>6. StatusInv'
  <2>1. main' = "exit" /\ shown' = <<>> /\ ~ names' /\ asked' = asked
    BY <1>1 DEF LsusbInv, PlaceInv, Usage, Exit, optionVars, hostVars
  <2>2. status' = 0 => opts.help BY DEF Usage, Exit
  <2>3. opts.help => \E k \in DOMAIN asked : asked[k].opt \in {"V", "h"}
    BY DEF LsusbInv, ParsedInv
  <2>4. QED BY <2>1, <2>2, <2>3 DEF StatusInv
<1>7. UseInv' BY DEF UseInv, Usage, Exit
<1>8. ListInv' BY <1>1 DEF ListInv, Usage, listVars
<1>9. ShownInv' BY <1>1, EmptySeq DEF ShownInv, Usage, Exit
<1>10. NodeInv' BY DEF NodeInv, Usage, Exit
<1>11. QED BY <1>2, <1>3, <1>4, <1>5, <1>6, <1>7, <1>8, <1>9, <1>10
       DEF LsusbInv

\* The database is open from here on.
LEMMA names_initKeepsInv == ASSUME LsusbInv, names_init PROVE LsusbInv'
<1>1. NotYet /\ shown = <<>> /\ listed = {} /\ list = <<>> /\ status = 0
  <2>1. NotYet BY DEF names_init, NotYet
  <2>2. QED BY <2>1, NothingYet
<1>2. DumpInv' BY StutterKeepsInv DEF LsusbInv, names_init
<1>3. LsusbTyped'
  BY DEF LsusbInv, LsusbTyped, names_init, optionVars, listVars, Points,
         Distinct
<1>4. ParsedInv' BY ParsedStays DEF LsusbInv, names_init
<1>5. PlaceInv'
  BY <1>1 DEF LsusbInv, PlaceInv, NotYet, names_init, vars, optionVars,
              listVars
<1>6. StatusInv' BY DEF StatusInv, NotYet, names_init
<1>7. UseInv' BY DEF UseInv, names_init
<1>8. ListInv' BY <1>1 DEF ListInv, names_init, listVars
<1>9. ShownInv' BY <1>1, EmptySeq DEF ShownInv, names_init
<1>10. NodeInv' BY DEF NodeInv, names_init
<1>11. QED BY <1>2, <1>3, <1>4, <1>5, <1>6, <1>7, <1>8, <1>9, <1>10
       DEF LsusbInv

\* The tree has its own status.
LEMMA lsusb_tKeepsInv == ASSUME LsusbInv, lsusb_t PROVE LsusbInv'
<1>1. NotYet /\ shown = <<>> /\ listed = {} /\ list = <<>> /\ status = 0
  <2>1. NotYet BY DEF lsusb_t, NotYet
  <2>2. QED BY <2>1, NothingYet
<1>2. DumpInv' BY StutterKeepsInv DEF LsusbInv, lsusb_t
<1>3. LsusbTyped'
  BY DEF LsusbInv, LsusbTyped, lsusb_t, Exit, optionVars, listVars, Points,
         Distinct
<1>4. ParsedInv' BY ParsedStays DEF LsusbInv, lsusb_t, Exit
<1>5. PlaceInv'
  BY <1>1 DEF LsusbInv, PlaceInv, NotYet, lsusb_t, Exit, vars, optionVars,
              listVars
<1>6. StatusInv'
  BY <1>1 DEF LsusbInv, PlaceInv, StatusInv, lsusb_t, Exit, optionVars
<1>7. UseInv' BY DEF UseInv, lsusb_t, Exit
<1>8. ListInv' BY <1>1 DEF ListInv, lsusb_t, listVars
<1>9. ShownInv' BY <1>1, EmptySeq DEF ShownInv, lsusb_t, Exit
<1>10. NodeInv' BY DEF NodeInv, lsusb_t, Exit
<1>11. QED BY <1>2, <1>3, <1>4, <1>5, <1>6, <1>7, <1>8, <1>9, <1>10
       DEF LsusbInv

\* What libusb has not set up needs no end; only the database stays open.
LEMMA libusb_initKeepsInv == ASSUME LsusbInv, libusb_init PROVE LsusbInv'
<1>1. NotYet /\ shown = <<>> /\ listed = {} /\ list = <<>> /\ status = 0
  <2>1. NotYet BY DEF libusb_init, NotYet
  <2>2. QED BY <2>1, NothingYet
<1>2. DumpInv' BY StutterKeepsInv DEF LsusbInv, libusb_init
<1>3. LsusbTyped'
  BY DEF LsusbInv, LsusbTyped, libusb_init, Exit, optionVars, listVars,
         Points, Distinct
<1>4. ParsedInv' BY ParsedStays DEF LsusbInv, ParsedInv, libusb_init
<1>5. PlaceInv'
  BY <1>1 DEF LsusbInv, PlaceInv, NotYet, libusb_init, Exit, vars, optionVars,
              listVars
<1>6. StatusInv'
  BY <1>1 DEF LsusbInv, StatusInv, NotYet, libusb_init, Exit, listVars
<1>7. UseInv' BY DEF UseInv, libusb_init, Exit
<1>8. ListInv' BY <1>1 DEF ListInv, libusb_init, listVars
<1>9. ShownInv' BY <1>1, EmptySeq DEF ShownInv, libusb_init, Exit
<1>10. NodeInv' BY DEF NodeInv, libusb_init, Exit
<1>11. QED BY <1>2, <1>3, <1>4, <1>5, <1>6, <1>7, <1>8, <1>9, <1>10
       DEF LsusbInv

\* One device more is shown.
LEMMA ShownNext ==
  ASSUME NEW s \in Seq(Devices), NEW d \in Devices
  PROVE  /\ Append(s, d) \in Seq(Devices) /\ Append(s, d) # <<>>
         /\ Range(Append(s, d)) = Range(s) \cup {d}
         /\ Len(Append(s, d)) = Len(s) + 1 /\ Append(s, d)[Len(s) + 1] = d
         /\ \A k \in 1 .. Len(s) : Append(s, d)[k] = s[k] /\ s[k] \in Range(s)
<1>1. /\ Append(s, d) \in Seq(Devices) /\ Len(Append(s, d)) = Len(s) + 1
      /\ Append(s, d)[Len(s) + 1] = d /\ Len(s) \in Nat
      /\ \A k \in 1 .. Len(s) : Append(s, d)[k] = s[k]
  BY AppendProperties, LenProperties
<1>2. DOMAIN s = 1 .. Len(s) /\ DOMAIN Append(s, d) = 1 .. Len(s) + 1
  BY <1>1, LenProperties
<1>3. \A k \in 1 .. Len(s) + 1 : k = Len(s) + 1 \/ k \in 1 .. Len(s) BY <1>1
<1>4. Range(Append(s, d)) = Range(s) \cup {d}
  BY <1>1, <1>2, <1>3 DEF Range
<1>5. Append(s, d) # <<>> BY <1>1
<1>6. QED BY <1>1, <1>2, <1>4, <1>5 DEF Range

\* The device a path leads to is one that is plugged in; without one nothing
\* is shown, and the status says so.
LEMMA dump_one_deviceKeepsInv ==
  ASSUME LsusbInv, dump_one_device PROVE LsusbInv'
<1>1. NotYet /\ shown = <<>> /\ listed = {} /\ list = <<>> /\ status = 0
  <2>1. NotYet BY DEF dump_one_device, LsusbInv, PlaceInv, NotYet
  <2>2. QED BY <2>1, NothingYet
<1>2. argv = <<>> BY DEF LsusbInv, ParsedInv, dump_one_device
<1>3. /\ main = "list" /\ opts.devdump # NoPath /\ lost' = {}
      /\ UNCHANGED <<plugged, optionVars, hostVars, list, i>>
  BY DEF dump_one_device
<1>4. ParsedInv' BY <1>2, <1>3, ParsedStays DEF LsusbInv
<1>5. CASE /\ main' = "close" /\ status' = not_found
           /\ UNCHANGED <<vars, shown>> /\ listed' \in {plugged, listed}
           /\ get_usb_device(opts.devdump, listed') = {}
  <2>1. DumpInv' BY <1>5, StutterKeepsInv DEF LsusbInv
  <2>2. LsusbTyped'
    BY <1>3, <1>5 DEF LsusbInv, LsusbTyped, optionVars, hostVars, Points,
                      Distinct, not_found
  <2>3. PlaceInv'
    BY <1>1, <1>3, <1>5 DEF LsusbInv, PlaceInv, NotYet, vars, optionVars,
                            hostVars
  <2>4. StatusInv' BY <1>1, <1>5 DEF StatusInv, not_found
  <2>5. UseInv' BY <1>5 DEF UseInv
  <2>6. ListInv' BY <1>1, <1>3 DEF ListInv
  <2>7. ShownInv' BY <1>3 DEF ShownInv, optionVars
  <2>8. NodeInv'
    <3>1. Range(<<>>) = {} BY DEF Range
    <3>2. QED BY <1>1, <1>3, <1>5, <3>1 DEF NodeInv, optionVars
  <2>9. QED BY <1>4, <2>1, <2>2, <2>3, <2>4, <2>5, <2>6, <2>7, <2>8
        DEF LsusbInv
<1>6. ASSUME NEW d \in plugged, main' = "dump", Found(d), listed' = plugged,
             d \in get_usb_device(opts.devdump, plugged)
      PROVE  LsusbInv'
  <2>1. d \in Devices BY DEF LsusbInv, LsusbTyped
  <2>2. /\ shown' = Append(shown, d) /\ status' = 0 /\ Call(d)
        /\ dev' = d /\ pc' = "open"
    BY <1>6 DEF Found, Call
  <2>3. DumpInv' BY <2>1, <2>2, CallKeepsInv DEF LsusbInv
  <2>4. shown' \in Seq(Devices) /\ shown' # <<>>
    BY <2>1, <2>2, ShownNext DEF LsusbInv, LsusbTyped
  <2>5. LsusbTyped'
    BY <1>3, <1>6, <2>2, <2>4 DEF LsusbInv, LsusbTyped, optionVars, hostVars,
                                  Points, Distinct
  <2>6. PlaceInv'
    BY <1>1, <1>3, <1>6, <2>2 DEF LsusbInv, PlaceInv, NotYet, optionVars,
                                  hostVars
  <2>7. StatusInv' BY <1>6, <2>2, <2>4 DEF StatusInv
  <2>8. UseInv' BY <1>1, <1>3, <2>2 DEF UseInv, optionVars
  <2>9. ListInv' BY <1>1, <1>3 DEF ListInv
  <2>10. ShownInv' BY <1>3 DEF ShownInv, optionVars
  <2>11. NodeInv'
    <3>1. get_usb_device(opts.devdump, plugged) = {d}
      BY <1>6, PathsAssumption
      DEF get_usb_device, LsusbInv, LsusbTyped, Distinct
    <3>2. Range(shown') = {d}
      <4>1. Range(shown') = Range(shown) \cup {d}
        BY <2>1, <2>2, ShownNext DEF LsusbInv, LsusbTyped
      <4>2. Range(<<>>) = {} BY DEF Range
      <4>3. QED BY <1>1, <4>1, <4>2
    <3>3. QED BY <1>3, <1>6, <3>1, <3>2 DEF NodeInv, optionVars
  <2>12. QED BY <1>4, <2>3, <2>5, <2>6, <2>7, <2>8, <2>9, <2>10, <2>11
         DEF LsusbInv
<1>7. \A d \in get_usb_device(opts.devdump, plugged) : d \in plugged
  BY DEF get_usb_device
<1>8. get_usb_device(opts.devdump, {}) = {} BY DEF get_usb_device
<1>9. QED BY <1>1, <1>5, <1>6, <1>7, <1>8 DEF dump_one_device

\* The list has the devices plugged in, sorted; nothing of it has been shown.
LEMMA GetDeviceListKeepsInv ==
  ASSUME LsusbInv, GetDeviceList PROVE LsusbInv'
<1>1. /\ NotYet /\ shown = <<>> /\ Range(shown) = {} /\ listed = {} /\ i = 1
      /\ list = <<>> /\ status = 0
  <2>1. NotYet BY DEF GetDeviceList, NotYet
  <2>2. QED BY <2>1, NothingYet
<1>2. argv = <<>> BY DEF LsusbInv, ParsedInv, GetDeviceList
<1>3. /\ main = "list" /\ opts.devdump = NoPath /\ status' = 1
      /\ UNCHANGED <<vars, plugged, optionVars, hostVars, i, lost, shown>>
  BY DEF GetDeviceList, not_found
<1>4. ParsedInv' BY <1>2, <1>3, ParsedStays DEF LsusbInv
<1>5. DumpInv' BY <1>3, StutterKeepsInv DEF LsusbInv
<1>6. NodeInv' BY <1>3 DEF NodeInv, optionVars
<1>7. CASE main' = "close" /\ UNCHANGED <<list, listed>>
  <2>1. LsusbTyped'
    BY <1>3, <1>7 DEF LsusbInv, LsusbTyped, optionVars, hostVars, Points,
                      Distinct
  <2>2. PlaceInv'
    BY <1>1, <1>3, <1>7 DEF LsusbInv, PlaceInv, NotYet, vars, optionVars,
                            hostVars
  <2>3. StatusInv' BY <1>1, <1>3, <1>7 DEF StatusInv
  <2>4. UseInv' BY <1>7 DEF UseInv
  <2>5. ListInv' BY <1>1, <1>7 DEF ListInv
  <2>6. ShownInv'
    <3>1. shown' = <<>> /\ Range(shown') = {} /\ listed' = {} /\ Len(<<>>) = 0
      BY <1>1, <1>3, <1>7
    <3>2. QED BY <3>1 DEF ShownInv
  <2>7. QED BY <1>4, <1>5, <1>6, <2>1, <2>2, <2>3, <2>4, <2>5, <2>6
        DEF LsusbInv
<1>8. ASSUME NEW l \in SetToSeqs(plugged), list' = sort_device_list(l),
             listed' = plugged,
             main' = IF plugged = {} THEN "free" ELSE main
      PROVE  LsusbInv'
  <2>1. /\ list' \in Seq(Devices) /\ Range(list') = plugged
        /\ Len(list') = Cardinality(plugged)
        /\ Len(list') <= Cardinality(Devices)
        /\ \A j, k \in 1 .. Len(list') : j < k => Before(list'[j], list'[k])
    <3>1. plugged \in SUBSET Devices /\ Distinct(plugged)
      BY DEF LsusbInv, LsusbTyped
    <3>2. QED BY <1>8, <3>1, ListedIs
  <2>2. list' = <<>> <=> plugged = {}
    <3>1. DOMAIN list' = 1 .. Len(list') BY <2>1, LenProperties
    <3>2. list' = <<>> => Range(list') = {} BY DEF Range
    <3>3. plugged = {} => Len(list') = 0 BY <2>1, FS_EmptySet
    <3>4. QED BY <2>1, <3>2, <3>3, EmptySeq
  <2>3. LsusbTyped'
    BY <1>3, <1>8, <2>1 DEF LsusbInv, LsusbTyped, optionVars, hostVars,
                            Points, Distinct
  <2>4. PlaceInv'
    BY <1>1, <1>3, <1>8, <2>2 DEF LsusbInv, PlaceInv, NotYet, vars,
                                  optionVars, hostVars
  <2>5. StatusInv' BY <1>1, <1>3, <1>8 DEF StatusInv
  <2>6. UseInv' BY <1>3, <1>8 DEF UseInv
  <2>7. ListInv'
    <3>1. i' = 1 /\ Len(list') \in Nat /\ Range(shown') = {}
      BY <1>1, <1>3, <2>1, LenProperties
    <3>2. {k \in 1 .. i' - 1 : Selected(list[k])'} = {} BY <3>1
    <3>3. {list'[k] : k \in {j \in 1 .. i' - 1 : Selected(list[j])'}} = {}
      BY <3>2
    <3>4. list' # <<>> => main' # "free" BY <1>3, <1>8, <2>2
    <3>5. QED BY <1>8, <2>1, <3>1, <3>3, <3>4 DEF ListInv, Selected
  <2>8. ShownInv'
    <3>1. shown' = <<>> /\ Range(shown') = {} /\ Len(<<>>) = 0
      BY <1>1, <1>3
    <3>2. main' \in {"free", "close"} => listed' = {} BY <1>3, <1>8
    <3>3. QED BY <3>1, <3>2 DEF ShownInv
  <2>9. QED BY <1>4, <1>5, <1>6, <2>3, <2>4, <2>5, <2>6, <2>7, <2>8
        DEF LsusbInv
<1>9. QED BY <1>7, <1>8 DEF GetDeviceList

\* A device that is not selected is not shown.
LEMMA SkipDeviceKeepsInv == ASSUME LsusbInv, SkipDevice PROVE LsusbInv'
<1>1. /\ main = "list" /\ list # <<>> /\ i <= Len(list) /\ ~ Selected(list[i])
      /\ i' = i + 1
      /\ UNCHANGED <<vars, plugged, main, optionVars, hostVars, list, listed,
                     lost, shown, status>>
  BY DEF SkipDevice, Listing
<1>2. i \in Nat /\ i >= 1 /\ Len(list) \in Nat
      /\ Len(list) <= Cardinality(Devices) /\ Cardinality(Devices) \in Nat
  BY LsusbAssumption, FS_CardinalityType, LenProperties
  DEF LsusbInv, LsusbTyped
<1>3. DumpInv' BY <1>1, StutterKeepsInv DEF LsusbInv
<1>4. LsusbTyped'
  BY <1>1, <1>2 DEF LsusbInv, LsusbTyped, optionVars, hostVars, Distinct
<1>5. ParsedInv'
  BY <1>1, ParsedStays DEF LsusbInv, ParsedInv
<1>6. PlaceInv'
  BY <1>1 DEF LsusbInv, PlaceInv, NotYet, vars, optionVars, hostVars
<1>7. StatusInv' BY <1>1 DEF LsusbInv, StatusInv, NotYet
<1>8. UseInv' BY <1>1 DEF UseInv
<1>9. ListInv'
  <2>1. {j \in 1 .. i' - 1 : Selected(list[j])}
          = {j \in 1 .. i - 1 : Selected(list[j])}
    <3>1. \A j \in 1 .. i' - 1 : j = i \/ j \in 1 .. i - 1 BY <1>1, <1>2
    <3>2. \A j \in 1 .. i - 1 : j \in 1 .. i' - 1 BY <1>1, <1>2
    <3>3. QED BY <1>1, <3>1, <3>2
  <2>2. {j \in 1 .. i' - 1 : Selected(list[j])'}
          = {j \in 1 .. i' - 1 : Selected(list[j])}
    BY <1>1 DEF Selected, optionVars
  <2>3. i' <= Len(list') + 1 /\ main' # "free" BY <1>1, <1>2
  <2>4. Range(shown') = {list'[k] : k \in {j \in 1 .. i' - 1 :
                                             Selected(list[j])'}}
    BY <1>1, <2>1, <2>2 DEF LsusbInv, ListInv
  <2>5. /\ Range(list') = listed'
        /\ \A j, k \in 1 .. Len(list') : j < k => Before(list'[j], list'[k])
    BY <1>1 DEF LsusbInv, ListInv
  <2>6. QED BY <2>3, <2>4, <2>5 DEF ListInv
<1>10. ShownInv' BY <1>1 DEF LsusbInv, ShownInv, optionVars
<1>11. NodeInv' BY DEF NodeInv, SkipDevice, Listing
<1>12. QED BY <1>3, <1>4, <1>5, <1>6, <1>7, <1>8, <1>9, <1>10, <1>11
       DEF LsusbInv

\* A device that is selected is shown behind those before it in the list, and
\* the list refers to it while it is dumped.
LEMMA ShowDeviceKeepsInv == ASSUME LsusbInv, ShowDevice PROVE LsusbInv'
<1> DEFINE d == list[i]
<1>1. /\ main = "list" /\ list # <<>> /\ i <= Len(list) /\ Selected(d)
      /\ i' = i + 1 /\ shown' = Append(shown, d) /\ status' = 0
      /\ UNCHANGED <<plugged, optionVars, hostVars, list, listed, lost>>
      /\ \/ main' = "dump" /\ Call(d)
         \/ main' = main /\ UNCHANGED vars
  BY DEF ShowDevice, Listing, Found
<1>2. i \in Nat /\ i >= 1 /\ i \in 1 .. Len(list) /\ Len(list) \in Nat
      /\ Len(list) <= Cardinality(Devices) /\ Cardinality(Devices) \in Nat
      /\ list \in Seq(Devices) /\ shown \in Seq(Devices)
      /\ DOMAIN list = 1 .. Len(list)
  BY <1>1, LsusbAssumption, FS_CardinalityType, LenProperties
  DEF LsusbInv, LsusbTyped
<1>3. d \in Devices /\ d \in Range(list)
  BY <1>2, ElementOfSeq DEF Range
<1>4. DumpInv' BY <1>1, <1>3, StutterKeepsInv, CallKeepsInv DEF LsusbInv
<1>5. /\ shown' \in Seq(Devices) /\ shown' # <<>>
      /\ Range(shown') = Range(shown) \cup {d}
      /\ Len(shown') = Len(shown) + 1 /\ shown'[Len(shown) + 1] = d
      /\ \A k \in 1 .. Len(shown) : shown'[k] = shown[k]
                                    /\ shown[k] \in Range(shown)
      /\ Len(shown) \in Nat
  BY <1>1, <1>2, <1>3, ShownNext, LenProperties
<1>6. main' \in {"list", "dump"} /\ (main' = "dump" <=> pc' # "idle")
      /\ (main' = "dump" => dev' = d)
  BY <1>1 DEF Call, LsusbInv, PlaceInv, vars
<1> HIDE DEF d
<1>7. LsusbTyped'
  BY <1>1, <1>2, <1>5, <1>6
  DEF LsusbInv, LsusbTyped, optionVars, hostVars, Distinct, Points
<1>8. ParsedInv'
  BY <1>1, ParsedStays DEF LsusbInv, ParsedInv
<1>9. PlaceInv'
  BY <1>1, <1>6 DEF LsusbInv, PlaceInv, NotYet, optionVars, hostVars
<1>10. StatusInv' BY <1>1, <1>5, <1>6 DEF StatusInv
<1>11. UseInv' BY <1>1, <1>3, <1>6 DEF UseInv
<1>12. ListInv'
  <2>1. {j \in 1 .. i' - 1 : Selected(list[j])}
          = {j \in 1 .. i - 1 : Selected(list[j])} \cup {i}
    <3>1. \A j \in 1 .. i' - 1 : j = i \/ j \in 1 .. i - 1 BY <1>1, <1>2
    <3>2. \A j \in 1 .. i - 1 : j \in 1 .. i' - 1 BY <1>1, <1>2
    <3>3. i \in 1 .. i' - 1 BY <1>1, <1>2
    <3>4. QED BY <1>1, <3>1, <3>2, <3>3 DEF d
  <2>2. {j \in 1 .. i' - 1 : Selected(list[j])'}
          = {j \in 1 .. i' - 1 : Selected(list[j])}
    BY <1>1 DEF Selected, optionVars
  <2>3. i' <= Len(list') + 1 /\ main' # "free" BY <1>1, <1>2, <1>6
  <2>4. Range(shown) = {list[k] : k \in {j \in 1 .. i - 1 :
                                           Selected(list[j])}}
    BY <1>1 DEF LsusbInv, ListInv
  <2>5. Range(shown') = {list'[k] : k \in {j \in 1 .. i' - 1 :
                                             Selected(list[j])'}}
    <3>1. list' = list /\ list[i] = d BY <1>1 DEF d
    <3>2. {list[k] : k \in {j \in 1 .. i - 1 : Selected(list[j])} \cup {i}}
            = {list[k] : k \in {j \in 1 .. i - 1 : Selected(list[j])}}
                \cup {list[i]}
      OBVIOUS
    <3>3. {j \in 1 .. i' - 1 : Selected(list[j])'}
            = {j \in 1 .. i - 1 : Selected(list[j])} \cup {i}
      BY <2>1, <2>2, Zenon
    <3>4. Range(shown')
            = {list[k] : k \in {j \in 1 .. i - 1 : Selected(list[j])}}
                \cup {list[i]}
      BY <1>5, <2>4, <3>1, Zenon
    <3>5. QED BY <3>1, <3>2, <3>3, <3>4, Zenon
  <2>6. /\ Range(list') = listed'
        /\ \A j, k \in 1 .. Len(list') : j < k => Before(list'[j], list'[k])
    BY <1>1 DEF LsusbInv, ListInv
  <2>7. QED BY <2>3, <2>5, <2>6 DEF ListInv
<1>13. ShownInv'
  <2>1. SUFFICES ASSUME opts.devdump = NoPath,
                        NEW j \in 1 .. Len(shown'), NEW k \in 1 .. Len(shown'),
                        j < k
                 PROVE  Before(shown'[j], shown'[k])
    BY <1>1, <1>6 DEF ShownInv, optionVars
  <2>2. CASE k \in 1 .. Len(shown)
    <3>1. j \in 1 .. Len(shown) BY <1>5, <2>1, <2>2
    <3>2. Before(shown[j], shown[k])
      BY <2>1, <2>2, <3>1 DEF LsusbInv, ShownInv
    <3>3. QED BY <1>5, <2>2, <3>1, <3>2
  <2>3. CASE k = Len(shown) + 1
    <3>1. j \in 1 .. Len(shown) BY <1>5, <2>1, <2>3
    <3>2. PICK h \in 1 .. i - 1 : shown[j] = list[h]
      BY <1>1, <1>5, <3>1 DEF LsusbInv, ListInv
    <3>3. h \in 1 .. Len(list) /\ h < i BY <1>1, <1>2
    <3>4. Before(list[h], list[i])
      BY <1>1, <1>2, <3>3 DEF LsusbInv, ListInv
    <3>5. QED BY <1>5, <2>3, <3>1, <3>2, <3>4 DEF d
  <2>4. QED BY <1>5, <2>2, <2>3
<1>14. NodeInv'
  BY DEF LsusbInv, PlaceInv, NodeInv, ShowDevice, Listing, optionVars
<1>15. QED BY <1>4, <1>7, <1>8, <1>9, <1>10, <1>11, <1>12, <1>13, <1>14
       DEF LsusbInv

\* At the end of the list all that is selected has been shown.
LEMMA AllListedKeepsInv == ASSUME LsusbInv, AllListed PROVE LsusbInv'
<1>1. /\ main = "list" /\ list # <<>> /\ i > Len(list) /\ main' = "free"
      /\ UNCHANGED <<vars, plugged, optionVars, hostVars, listVars, lost,
                     shown, status>>
  BY DEF AllListed, Listing
<1>2. list \in Seq(Devices) /\ i \in Nat /\ Len(list) \in Nat
      /\ i = Len(list) + 1 /\ DOMAIN list = 1 .. Len(list)
  BY <1>1, LenProperties DEF LsusbInv, LsusbTyped, ListInv
<1>3. DumpInv' BY <1>1, StutterKeepsInv DEF LsusbInv
<1>4. LsusbTyped'
  BY <1>1
  DEF LsusbInv, LsusbTyped, optionVars, hostVars, listVars, Distinct, Points
<1>5. ParsedInv' BY <1>1, ParsedStays DEF LsusbInv, ParsedInv
<1>6. PlaceInv'
  BY <1>1
  DEF LsusbInv, PlaceInv, NotYet, vars, optionVars, hostVars, listVars
<1>7. StatusInv' BY <1>1 DEF LsusbInv, StatusInv, NotYet
<1>8. UseInv' BY <1>1 DEF UseInv
<1>9. ListInv'
  BY <1>1, <1>2 DEF LsusbInv, ListInv, Selected, listVars, optionVars
<1>10. ShownInv'
  <2>1. Range(shown) = {list[k] : k \in {j \in 1 .. Len(list) :
                                           Selected(list[j])}}
    BY <1>1, <1>2 DEF LsusbInv, ListInv
  <2>2. listed = {list[k] : k \in 1 .. Len(list)}
    BY <1>1, <1>2 DEF LsusbInv, ListInv, Range
  <2>3. Range(shown) = {d \in listed : Selected(d)} BY <2>1, <2>2
  <2>4. Range(shown') = {d \in listed' : Selected(d)'}
    BY <1>1, <2>3 DEF Selected, optionVars, listVars
  <2>5. QED BY <1>1, <2>4 DEF LsusbInv, ShownInv, optionVars
<1>11. NodeInv' BY <1>1 DEF NodeInv
<1>12. QED BY <1>3, <1>4, <1>5, <1>6, <1>7, <1>8, <1>9, <1>10, <1>11
       DEF LsusbInv

\* Nothing is being dumped when the list is freed.
LEMMA FreeDeviceListKeepsInv ==
  ASSUME LsusbInv, FreeDeviceList PROVE LsusbInv'
<1>1. /\ main = "free" /\ list' = <<>> /\ main' = "close"
      /\ UNCHANGED <<vars, plugged, optionVars, hostVars, i, listed, lost,
                     shown, status>>
  BY DEF FreeDeviceList
<1>2. DumpInv' BY <1>1, StutterKeepsInv DEF LsusbInv
<1>3. LsusbTyped'
  <2>1. list' \in Seq(Devices) /\ Len(list') <= Cardinality(Devices)
    BY <1>1, EmptySeq, LsusbAssumption, FS_CardinalityType
  <2>2. QED BY <1>1, <2>1
        DEF LsusbInv, LsusbTyped, optionVars, hostVars, Distinct, Points
<1>4. ParsedInv' BY <1>1, ParsedStays DEF LsusbInv, ParsedInv
<1>5. PlaceInv'
  BY <1>1 DEF LsusbInv, PlaceInv, NotYet, vars, optionVars, hostVars
<1>6. StatusInv' BY <1>1 DEF LsusbInv, StatusInv, NotYet
<1>7. UseInv' BY <1>1 DEF UseInv
<1>8. ListInv' BY <1>1 DEF ListInv
<1>9. ShownInv'
  BY <1>1 DEF LsusbInv, ShownInv, optionVars, Selected
<1>10. NodeInv'
  <2>1. opts.devdump # NoPath => listed = {} /\ shown = <<>>
    BY <1>1 DEF LsusbInv, PlaceInv
  <2>2. Range(<<>>) = {} /\ get_usb_device(opts.devdump, {}) = {}
    BY DEF Range, get_usb_device
  <2>3. QED BY <1>1, <2>1, <2>2 DEF NodeInv, optionVars
<1>11. QED BY <1>2, <1>3, <1>4, <1>5, <1>6, <1>7, <1>8, <1>9, <1>10
       DEF LsusbInv

\* A dump is of one device, and ends.
LEMMA SameDevice == ASSUME DumpStep, pc' # "idle" PROVE dev' = dev
BY DEF DumpStep, device, Open, ReadForOtg, ReadConfig, ConfigsDone, WalkDump,
       WalkDone, ConfigDumped, SkipReport, ClaimInterface, Fetch, FetchDone,
       ReportsDone, ReadBosHeader, ReadBos, CapsDone, do_hub, PortStatus,
       PortsDone, do_dualspeed, do_debug, dump_device_status, Ask, Close

\* The dump goes on with the same device, until it has ended.
LEMMA DumpKeepsInv == ASSUME LsusbInv, Dump PROVE LsusbInv'
<1>1. /\ main = "dump" /\ DumpStep
      /\ main' = IF pc' # "idle" THEN "dump"
                 ELSE IF list = <<>> THEN "close" ELSE "list"
      /\ UNCHANGED <<plugged, optionVars, hostVars, listVars, lost, shown,
                     status>>
  BY DEF Dump
<1>2. DumpInv' BY <1>1, DumpStepKeepsInv DEF LsusbInv
<1>3. LsusbTyped'
  BY <1>1
  DEF LsusbInv, LsusbTyped, optionVars, hostVars, listVars, Distinct, Points
<1>4. ParsedInv' BY <1>1, ParsedStays DEF LsusbInv, ParsedInv
<1>5. PlaceInv'
  BY <1>1 DEF LsusbInv, PlaceInv, NotYet, optionVars, hostVars, listVars
<1>6. StatusInv' BY <1>1 DEF LsusbInv, StatusInv, NotYet, listVars
<1>7. UseInv'
  <2>1. main' = "dump" => dev' = dev BY <1>1, SameDevice
  <2>2. QED BY <1>1, <2>1 DEF LsusbInv, UseInv, optionVars, listVars
<1>8. ListInv'
  BY <1>1 DEF LsusbInv, ListInv, Selected, listVars, optionVars
<1>9. ShownInv'
  BY <1>1 DEF LsusbInv, ShownInv, UseInv, Selected, listVars, optionVars
<1>10. NodeInv' BY <1>1 DEF LsusbInv, NodeInv, optionVars, listVars
<1>11. QED BY <1>2, <1>3, <1>4, <1>5, <1>6, <1>7, <1>8, <1>9, <1>10
       DEF LsusbInv

\* All that was opened is closed.
LEMMA CloseLibusbKeepsInv == ASSUME LsusbInv, CloseLibusb PROVE LsusbInv'
<1>1. /\ main = "close" /\ main' = "exit" /\ names' = FALSE /\ ctx' = FALSE
      /\ UNCHANGED <<vars, plugged, optionVars, listVars, lost, shown, status>>
  BY DEF CloseLibusb
<1>2. list = <<>> BY <1>1 DEF LsusbInv, PlaceInv
<1>3. DumpInv' BY <1>1, StutterKeepsInv DEF LsusbInv
<1>4. LsusbTyped'
  BY <1>1 DEF LsusbInv, LsusbTyped, optionVars, listVars, Distinct, Points
<1>5. ParsedInv' BY <1>1, ParsedStays DEF LsusbInv
<1>6. PlaceInv'
  BY <1>1, <1>2 DEF LsusbInv, PlaceInv, NotYet, vars, optionVars, listVars
<1>7. StatusInv' BY <1>1 DEF LsusbInv, StatusInv, NotYet
<1>8. UseInv' BY <1>1 DEF UseInv
<1>9. ListInv' BY <1>1, <1>2 DEF ListInv, listVars
<1>10. ShownInv' BY <1>1 DEF LsusbInv, ShownInv, optionVars
<1>11. NodeInv' BY <1>1 DEF NodeInv
<1>12. QED BY <1>3, <1>4, <1>5, <1>6, <1>7, <1>8, <1>9, <1>10, <1>11
       DEF LsusbInv

\* Devices come and go.
LEMMA BusKeepsInv ==
  ASSUME LsusbInv, NEW d \in Devices, Plug(d) \/ Unplug(d) PROVE LsusbInv'
<1>1. UNCHANGED <<vars, main, optionVars, hostVars, listVars, shown, status>>
  BY DEF Plug, Unplug
<1>2. /\ plugged' \subseteq Devices /\ lost' \subseteq Devices
      /\ Distinct(plugged')
  <2>1. CASE Plug(d) BY <2>1 DEF Plug, LsusbInv, LsusbTyped
  <2>2. CASE Unplug(d) BY <2>2 DEF Unplug, LsusbInv, LsusbTyped, Distinct
  <2>3. QED BY <2>1, <2>2
<1>3. list = <<>> => plugged \cup lost \subseteq plugged' \cup lost'
  BY DEF Plug, Unplug
<1>4. DumpInv' BY <1>1, StutterKeepsInv DEF LsusbInv
<1>5. LsusbTyped'
  BY <1>1, <1>2 DEF LsusbInv, LsusbTyped, optionVars, hostVars, listVars,
                    Distinct
<1>6. ParsedInv' BY <1>1, ParsedStays DEF LsusbInv, ParsedInv
<1>7. PlaceInv'
  BY <1>1
  DEF LsusbInv, PlaceInv, NotYet, vars, optionVars, hostVars, listVars
<1>8. StatusInv'
  BY <1>1 DEF LsusbInv, StatusInv, NotYet, optionVars, hostVars, listVars
<1>9. UseInv'
  <2>1. dev' = dev BY <1>1 DEF vars
  <2>2. QED BY <1>1, <1>3, <2>1 DEF LsusbInv, UseInv, optionVars, listVars
<1>10. ListInv'
  BY <1>1 DEF LsusbInv, ListInv, Selected, listVars, optionVars
<1>11. ShownInv'
  BY <1>1 DEF LsusbInv, ShownInv, Selected, listVars, optionVars
<1>12. NodeInv' BY <1>1 DEF LsusbInv, NodeInv, optionVars, listVars
<1>13. QED BY <1>4, <1>5, <1>6, <1>7, <1>8, <1>9, <1>10, <1>11, <1>12
       DEF LsusbInv

\* lsusb starts, or is left alone.
LEMMA LsusbStarts ==
  ASSUME NEW point \in {"none", "options"}, NEW lines \in SUBSET Seq(Options),
         LsusbAt(point, lines)
  PROVE  LsusbInv
<1>1. /\ Init /\ plugged \subseteq Devices /\ Distinct(plugged)
      /\ main = point /\ asked \in Seq(Options) /\ argv = asked
      /\ opts = NoOptions /\ names = FALSE /\ ctx = FALSE /\ list = <<>>
      /\ i = 1 /\ listed = {} /\ lost = {} /\ shown = <<>> /\ status = 0
  BY DEF LsusbAt
<1>2. DumpInv BY <1>1, InitHasInv
<1>3. LsusbTyped
  <2>1. Cardinality(Devices) \in Nat BY LsusbAssumption, FS_CardinalityType
  <2>2. <<>> \in Seq(Devices) /\ Len(<<>>) = 0 BY EmptySeq
  <2>3. opts \in OptsType
    BY <1>1, AsIntIs DEF NoOptions, OptsType
  <2>4. i \in 1 .. Cardinality(Devices) + 1
        /\ Len(list) <= Cardinality(Devices) /\ list \in Seq(Devices)
        /\ shown \in Seq(Devices)
    BY <1>1, <2>1, <2>2
  <2>5. main \in Points /\ status \in {0, 1} /\ names \in BOOLEAN
        /\ ctx \in BOOLEAN
    BY <1>1 DEF Points
  <2>6. QED BY <1>1, <2>3, <2>4, <2>5 DEF LsusbTyped
<1>4. ParsedInv
  <2>1. Len(asked) \in Nat /\ Past = 0 BY <1>1, LenProperties DEF Past
  <2>2. \A k \in 1 .. Len(argv) : argv[k] = asked[Past + k] BY <1>1, <2>1
  <2>3. \A opt, field : LastIs(asked, Past, -1, opt, field)
    BY <2>1 DEF LastIs
  <2>4. QED BY <1>1, <2>1, <2>2, <2>3 DEF ParsedInv, NoOptions
<1>5. PlaceInv BY <1>1 DEF PlaceInv, Init
<1>6. StatusInv BY <1>1 DEF StatusInv, NotYet
<1>7. UseInv BY <1>1 DEF UseInv
<1>8. ListInv BY <1>1 DEF ListInv
<1>9. ShownInv BY <1>1, EmptySeq DEF ShownInv
<1>10. NodeInv BY <1>1 DEF NodeInv
<1>11. QED BY <1>2, <1>3, <1>4, <1>5, <1>6, <1>7, <1>8, <1>9, <1>10
       DEF LsusbInv

\* Steps of others.
LEMMA LsusbStutters == ASSUME LsusbInv, UNCHANGED lsusbVars PROVE LsusbInv'
<1>1. DumpInv' BY StutterKeepsInv DEF LsusbInv, lsusbVars
<1>2. ParsedInv'
  <2>1. ParsedInv /\ UNCHANGED <<main, asked, argv, opts>>
    BY DEF LsusbInv, lsusbVars, optionVars
  <2>2. QED BY <2>1 DEF ParsedInv, Past, LastIs, Gives
<1>3. ListInv' /\ ShownInv'
  BY DEF LsusbInv, ListInv, ShownInv, Selected, lsusbVars, optionVars, listVars
<1>4. LsusbTyped' /\ PlaceInv' /\ StatusInv' /\ UseInv'
  BY DEF LsusbInv, LsusbTyped, PlaceInv, StatusInv, UseInv, NotYet, Distinct,
         lsusbVars, vars, optionVars, hostVars, listVars
<1>5. NodeInv' BY DEF LsusbInv, NodeInv, lsusbVars, optionVars, listVars
<1>6. QED BY <1>1, <1>2, <1>3, <1>4, <1>5 DEF LsusbInv

\* Every step of lsusb keeps the invariant.
LEMMA LsusbStepKeepsInv == ASSUME LsusbInv, LsusbStep PROVE LsusbInv'
BY OptionKeepsInv, UsageKeepsInv, names_initKeepsInv, lsusb_tKeepsInv,
   libusb_initKeepsInv, dump_one_deviceKeepsInv, GetDeviceListKeepsInv,
   SkipDeviceKeepsInv, ShowDeviceKeepsInv, AllListedKeepsInv,
   FreeDeviceListKeepsInv, DumpKeepsInv, CloseLibusbKeepsInv DEF LsusbStep

-----------------------------------------------------------------------------
(* What the invariant says.                                                *)

\* The types are part of it.
LEMMA LsusbInvTyped == LsusbInv => LsusbTypeOK
<1>1. LsusbInv => TypeOK BY DumpInvTyped DEF LsusbInv
<1>2. QED BY <1>1 DEF LsusbInv, LsusbTyped, LsusbTypeOK, OptsType

\* The last option that gives a number is the one of the greatest place.
LEMMA LastGivenIs ==
  ASSUME asked \in Seq(Options), NEW opt, NEW field, NEW value,
         LastIs(asked, Len(asked), value, opt, field),
         \A k \in DOMAIN asked :
           asked[k].opt = opt => \/ asked[k][field] = -1
                                 \/ AsInt(asked[k][field]) = asked[k][field]
  PROVE  LastGiven(opt, field) = value
<1> DEFINE given == {k \in DOMAIN asked : asked[k].opt = opt
                                            /\ asked[k][field] # -1}
<1>1. DOMAIN asked = 1 .. Len(asked) /\ Len(asked) \in Nat BY LenProperties
<1>2. LastGiven(opt, field) =
        IF given = {} THEN -1 ELSE asked[Max(given)][field]
  BY DEF LastGiven
<1>3. CASE /\ value = -1
           /\ \A k \in 1 .. Len(asked) : ~ Gives(asked, k, opt, field)
  <2>1. given = {} BY <1>1, <1>3 DEF Gives
  <2> HIDE DEF given
  <2>2. QED BY <1>2, <1>3, <2>1
<1>4. ASSUME NEW k \in 1 .. Len(asked),
             Gives(asked, k, opt, field), value = AsInt(asked[k][field]),
             \A j \in k + 1 .. Len(asked) : ~ Gives(asked, j, opt, field)
      PROVE  LastGiven(opt, field) = value
  <2>1. k \in given BY <1>1, <1>4 DEF Gives
  <2>2. \A j \in given : j \in 1 .. Len(asked) /\ ~ (j \in k + 1 .. Len(asked))
    BY <1>1, <1>4 DEF Gives
  <2>3. \A j \in given : j \in Nat /\ j <= k BY <1>1, <2>2
  <2>4. value = asked[k][field] BY <1>1, <1>4 DEF Gives
  <2> HIDE DEF given
  <2>5. Max(given) = k BY <2>1, <2>3 DEF Max
  <2>6. QED BY <1>2, <2>1, <2>4, <2>5
<1>5. QED BY <1>3, <1>4 DEF LastIs

\* If all numbers fit into an int, the numbers the options were parsed into
\* select what the options, read as a whole, ask for.
LEMMA SelectedIsWanted ==
  ASSUME LsusbInv, argv = <<>>, NumbersFit, NEW d
  PROVE  Selected(d) <=> Wanted(d)
<1>1. asked \in Seq(Options) /\ Past = Len(asked)
  <2>1. Len(<<>>) = 0 /\ asked \in Seq(Options)
    BY EmptySeq DEF LsusbInv, LsusbTyped
  <2>2. QED BY <2>1, LenProperties DEF Past
<1>2. /\ LastIs(asked, Len(asked), opts.bus, "s", "bus")
      /\ LastIs(asked, Len(asked), opts.devnum, "s", "devnum")
      /\ LastIs(asked, Len(asked), opts.vendor, "d", "vendor")
      /\ LastIs(asked, Len(asked), opts.product, "d", "product")
  BY <1>1 DEF LsusbInv, ParsedInv
<1>3. \A k \in DOMAIN asked :
        /\ asked[k].opt = "s" =>
             /\ \/ asked[k]["bus"] = -1
                \/ AsInt(asked[k]["bus"]) = asked[k]["bus"]
             /\ \/ asked[k]["devnum"] = -1
                \/ AsInt(asked[k]["devnum"]) = asked[k]["devnum"]
        /\ asked[k].opt = "d" =>
             /\ \/ asked[k]["vendor"] = -1
                \/ AsInt(asked[k]["vendor"]) = asked[k]["vendor"]
             /\ \/ asked[k]["product"] = -1
                \/ AsInt(asked[k]["product"]) = asked[k]["product"]
  BY DEF NumbersFit
<1>4. /\ LastGiven("s", "bus") = opts.bus
      /\ LastGiven("s", "devnum") = opts.devnum
      /\ LastGiven("d", "vendor") = opts.vendor
      /\ LastGiven("d", "product") = opts.product
  BY <1>1, <1>2, <1>3, LastGivenIs
<1>5. QED BY <1>4 DEF Selected, Wanted, Wants

\* What the parts on the list and the devices shown mean for the selection.
LEMMA InvShowsTheSelection == LsusbInv => ShowsTheSelectionInOrder
<1>1. SUFFICES ASSUME LsusbInv, opts.devdump = NoPath, NumbersFit
               PROVE  /\ \A k \in 2 .. Len(shown) :
                           Before(shown[k - 1], shown[k])
                      /\ main \in {"free", "close"} =>
                           Range(shown) = {d \in listed : Wanted(d)}
  BY DEF ShowsTheSelectionInOrder
<1>2. \A k \in 2 .. Len(shown) : Before(shown[k - 1], shown[k])
  <2>1. Len(shown) \in Nat BY <1>1, LenProperties DEF LsusbInv, LsusbTyped
  <2>2. \A k \in 2 .. Len(shown) :
          k \in 1 .. Len(shown) /\ k - 1 \in 1 .. Len(shown) /\ k - 1 < k
    BY <2>1
  <2>3. QED BY <1>1, <2>2 DEF LsusbInv, ShownInv
<1>3. ASSUME main \in {"free", "close"}
      PROVE  Range(shown) = {d \in listed : Wanted(d)}
  <2>1. argv = <<>> BY <1>1, <1>3 DEF LsusbInv, ParsedInv
  <2>2. \A d : Selected(d) <=> Wanted(d) BY <1>1, <2>1, SelectedIsWanted
  <2>3. Range(shown) = {d \in listed : Selected(d)}
    BY <1>1, <1>3 DEF LsusbInv, ShownInv
  <2>4. QED BY <2>2, <2>3
<1>4. QED BY <1>2, <1>3

\* The device shown is at the node the path leads to.
LEMMA InvFindsTheNode == LsusbInv => FindsTheNode
<1>1. SUFFICES ASSUME LsusbInv, opts.devdump # NoPath,
                      main \in {"dump", "close"}, Plain(opts.devdump),
                      Walk(Rooted(opts.devdump)) # Loop
               PROVE  Range(shown) =
                        {d \in listed :
                           NodeOf[d] = Walk(Rooted(opts.devdump))}
  BY DEF FindsTheNode
<1>2. opts.devdump \in Paths BY <1>1 DEF LsusbInv, LsusbTyped, OptsType
<1>3. get_absolute_path(readlink_recursive(opts.devdump)) =
        Walk(Rooted(opts.devdump))
  BY <1>1, <1>2, PlainPathLeads
<1>4. Range(shown) = get_usb_device(opts.devdump, listed)
  BY <1>1 DEF LsusbInv, NodeInv
<1>5. QED BY <1>3, <1>4 DEF get_usb_device

\* That on the status is the property.
LEMMA InvStatusTells == LsusbInv => StatusTells
BY DEF LsusbInv, StatusInv, StatusTells

\* What those on the place, the device and dumpdev() mean for what is held.
LEMMA InvHeldWhileUsed == LsusbInv => HeldWhileUsed
<1>1. SUFFICES ASSUME LsusbInv PROVE HeldWhileUsed OBVIOUS
<1>2. pc # "idle" => \/ dev \in (plugged \ lost) \cup Range(list)
                     \/ udev
                     \/ opts.devdump # NoPath /\ dev \in lost
  BY <1>1 DEF LsusbInv, PlaceInv, UseInv
<1>3. list # <<>> \/ pc # "idle" => ctx BY <1>1 DEF LsusbInv, PlaceInv
<1>4. main = "exit" => ~ ctx /\ (names => shown = <<>> /\ status = 1)
  BY <1>1 DEF LsusbInv, PlaceInv, StatusInv
<1>5. pc = "idle" => ~ udev /\ ~ held /\ ~ claimed
  BY <1>1 DEF LsusbInv, DumpInv, HeldInv, OfConfig, OfBos
<1>6. QED BY <1>2, <1>3, <1>4, <1>5 DEF HeldWhileUsed

\* The invariant holds while devices come and go.
THEOREM Listed == LsusbSpec => []LsusbInv
<1>1. LsusbInit => LsusbInv
  BY LsusbStarts, LsusbAssumption DEF LsusbInit
<1>2. LsusbInv /\ [LsusbNext]_lsusbVars => LsusbInv'
  BY LsusbStepKeepsInv, BusKeepsInv, LsusbStutters DEF LsusbNext
<1>3. QED BY <1>1, <1>2, PTL DEF LsusbSpec

\* What lsusb shows are the devices its options select of those there were,
\* each once and in the order of their addresses.
THEOREM LsusbShowsTheSelectionInOrder ==
  LsusbSpec => []ShowsTheSelectionInOrder
BY Listed, InvShowsTheSelection, PTL

\* A path that leads to the node of a device leads -D to that device, through
\* links in whatever directory, to whatever depth, and no other path does - but
\* for what Plain leaves out, as paths get_absolute_path() begins with "//".
THEOREM LsusbFindsTheNode == LsusbSpec => []FindsTheNode
BY Listed, InvFindsTheNode, PTL

\* lsusb succeeds exactly if it could do what it was asked for.
THEOREM LsusbStatusTells == LsusbSpec => []StatusTells
BY Listed, InvStatusTells, PTL

\* Something refers to a device for as long as lsusb uses it, but for the one
\* -D names; in the end all is given back.
THEOREM LsusbHeldWhileUsed == LsusbSpec => []HeldWhileUsed
BY Listed, InvHeldWhileUsed, PTL

=============================================================================
