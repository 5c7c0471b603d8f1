--------------------------- MODULE ClassDumpProofs --------------------------
(***************************************************************************)
(* Proofs about the dumps of DescDump and ClassDump: whatever bytes a      *)
(* descriptor has, they look at none beyond it.                            *)
(***************************************************************************)
EXTENDS ClassDump, FiniteSetTheorems, SequenceTheorems,
        WellFoundedInduction, TLAPS

-----------------------------------------------------------------------------
(* Recursion over numbers.  What the dumps compute is defined by recursion *)
(* over the offsets of a buffer, up or down, or over the entries of a      *)
(* table.  Such a definition defines something, and what it does is found  *)
(* by looking at the least number for which it would not.                  *)

\* Every set of numbers has a least one.
LEMMA Least ==
  ASSUME NEW T \in SUBSET Nat, T # {}
  PROVE  \E n \in T : \A m \in T : n <= m
<1> DEFINE R == OpToRel(<, Nat)
<1>1. PICK n \in T : \A m \in T : ~ (<<m, n>> \in R)
  <2>1. IsWellFoundedOn(R, Nat) BY NatLessThanWellFounded
  <2>2. QED BY <2>1, WFMin
<1>2. \A m \in T : m < n => <<m, n>> \in R BY DEF OpToRel
<1> HIDE DEF R
<1>3. \A m \in T : ~ (m < n) BY <1>1, <1>2, Zenon
<1>4. QED BY <1>3

\* Upwards: what holds at 0 and is handed on holds up to N.
LEMMA Upwards ==
  ASSUME NEW N \in Nat, NEW H \in SUBSET (0 .. N), 0 \in H,
         \A n \in 0 .. N : n \in H /\ n < N => n + 1 \in H
  PROVE  H = 0 .. N
<1>1. SUFFICES ASSUME (0 .. N) \ H # {} PROVE FALSE OBVIOUS
<1>2. PICK n \in (0 .. N) \ H : \A m \in (0 .. N) \ H : n <= m
  <2>1. (0 .. N) \ H \subseteq Nat OBVIOUS
  <2>2. QED BY <1>1, <2>1, Least
<1>3. n - 1 \in 0 .. N /\ n - 1 < N /\ n - 1 \notin (0 .. N) \ H BY <1>2
<1>4. QED BY <1>2, <1>3

\* f is defined upwards from `first`, step by step.
IsUp(f, first, step, n) ==
  f[0] = first /\ \A k \in 1 .. n : f[k] = step[<<k, f[k - 1]>>]

\* Such a function exists.
LEMMA UpExists ==
  ASSUME NEW N \in Nat, NEW S, NEW first \in S,
         NEW step \in [(1 .. N) \X S -> S]
  PROVE  \E f \in [0 .. N -> S] : IsUp(f, first, step, N)
<1> DEFINE H == {n \in 0 .. N : \E f \in [0 .. n -> S] : IsUp(f, first, step, n)}
<1>1. 0 \in H
  <2>1. [k \in 0 .. 0 |-> first] \in [0 .. 0 -> S] OBVIOUS
  <2>2. IsUp([k \in 0 .. 0 |-> first], first, step, 0) BY DEF IsUp
  <2>3. QED BY <2>1, <2>2
<1>2. ASSUME NEW n \in 0 .. N, n \in H, n < N PROVE n + 1 \in H
  <2>1. PICK f \in [0 .. n -> S] : IsUp(f, first, step, n) BY <1>2
  <2> DEFINE g == [k \in 0 .. n + 1 |->
                     IF k = n + 1 THEN step[<<k, f[k - 1]>>] ELSE f[k]]
  <2>2. f[n] \in S /\ n + 1 \in 1 .. N BY <1>2
  <2>3. g \in [0 .. n + 1 -> S] BY <2>2
  <2>4. IsUp(g, first, step, n + 1) BY <1>2, <2>1 DEF IsUp
  <2> HIDE DEF g
  <2>5. n + 1 \in 0 .. N BY <1>2
  <2>6. QED BY <2>3, <2>4, <2>5
<1> HIDE DEF H
<1>3. H = 0 .. N
  <2>1. H \in SUBSET (0 .. N) BY DEF H
  <2>2. QED BY <1>1, <1>2, <2>1, Upwards
<1>4. N \in H BY <1>3
<1>5. QED BY <1>4 DEF H

\* What f is defined from stays in S.
LEMMA UpIs ==
  ASSUME NEW N \in Nat, NEW S, NEW first \in S,
         NEW step \in [(1 .. N) \X S -> S],
         NEW f, IsUp(f, first, step, N)
  PROVE  \A k \in 0 .. N : f[k] \in S
<1> DEFINE H == {k \in 0 .. N : f[k] \in S}
<1>1. 0 \in H BY DEF IsUp
<1>2. ASSUME NEW n \in 0 .. N, n \in H, n < N PROVE n + 1 \in H
  <2>1. n + 1 \in 1 .. N /\ f[n] \in S BY <1>2
  <2>2. f[n + 1] = step[<<n + 1, f[n]>>] BY <2>1 DEF IsUp
  <2>3. QED BY <2>1, <2>2
<1>3. H \in SUBSET (0 .. N) OBVIOUS
<1> HIDE DEF H
<1>4. H = 0 .. N BY <1>1, <1>2, <1>3, Upwards
<1>5. QED BY <1>4 DEF H

\* A function that goes on as stated wherever it is in S is so defined.
LEMMA UpStays ==
  ASSUME NEW N \in Nat, NEW S, NEW first \in S,
         NEW step, NEW f, f[0] = first,
         \A n \in 1 .. N : \A d \in S : step[<<n, d>>] \in S,
         \A n \in 1 .. N : f[n - 1] \in S => f[n] = step[<<n, f[n - 1]>>]
  PROVE  (\A n \in 0 .. N : f[n] \in S) /\ IsUp(f, first, step, N)
<1> DEFINE H == {n \in 0 .. N : f[n] \in S}
<1>1. 0 \in H /\ H \in SUBSET (0 .. N) OBVIOUS
<1>2. ASSUME NEW n \in 0 .. N, n \in H, n < N PROVE n + 1 \in H
  <2>1. n + 1 \in 1 .. N /\ n + 1 \in 0 .. N /\ (n + 1) - 1 = n BY <1>2
  <2>2. f[n] \in S BY <1>2
  <2>3. f[n + 1] = step[<<n + 1, f[n]>>] BY <2>1, <2>2
  <2>4. QED BY <2>1, <2>2, <2>3
<1> HIDE DEF H
<1>3. H = 0 .. N BY <1>1, <1>2, Upwards
<1>4. \A n \in 0 .. N : f[n] \in S BY <1>3 DEF H
<1>5. \A n \in 1 .. N : n - 1 \in 0 .. N OBVIOUS
<1>6. \A n \in 1 .. N : f[n] = step[<<n, f[n - 1]>>] BY <1>4, <1>5
<1>7. QED BY <1>4, <1>6 DEF IsUp

\* g[i] is the sum of the first i of the numbers.
IsSum(g, numbers, N) ==
  /\ g \in [0 .. N -> Nat] /\ g[0] = 0
  /\ \A i \in 1 .. N : g[i] = g[i - 1] + numbers[i]

\* Every sequence of numbers has sums.
LEMMA SumExists ==
  ASSUME NEW N \in Nat, NEW numbers \in [1 .. N -> Nat]
  PROVE  \E g : IsSum(g, numbers, N)
<1> DEFINE step == [a \in (1 .. N) \X Nat |-> a[2] + numbers[a[1]]]
<1>1. step \in [(1 .. N) \X Nat -> Nat] OBVIOUS
<1>2. PICK g \in [0 .. N -> Nat] : IsUp(g, 0, step, N)
  <2> HIDE DEF step
  <2>1. QED BY <1>1, UpExists
<1>3. \A i \in 1 .. N : g[i] = g[i - 1] + numbers[i]
  <2>1. SUFFICES ASSUME NEW i \in 1 .. N
                 PROVE  g[i] = g[i - 1] + numbers[i]
    OBVIOUS
  <2>2. i - 1 \in 0 .. N OBVIOUS
  <2>3. <<i, g[i - 1]>> \in (1 .. N) \X Nat BY <1>2, <2>2
  <2>4. g[i] = step[<<i, g[i - 1]>>] BY <1>2 DEF IsUp
  <2>5. QED BY <2>3, <2>4
<1>4. g[0] = 0 BY <1>2 DEF IsUp
<1>5. QED BY <1>2, <1>3, <1>4 DEF IsSum

\* Downwards: what holds at k if it holds above k holds from N down.
LEMMA Downwards ==
  ASSUME NEW N \in Nat, NEW H \in SUBSET (0 .. N),
         \A k \in 0 .. N : (\A j \in k + 1 .. N : j \in H) => k \in H
  PROVE  H = 0 .. N
<1> DEFINE G == {n \in 0 .. N : \A j \in N - n .. N : j \in H}
<1>1. 0 \in G
  <2>1. N \in H BY N \in 0 .. N
  <2>2. QED BY <2>1
<1>2. ASSUME NEW n \in 0 .. N, n \in G, n < N PROVE n + 1 \in G
  <2>1. \A j \in N - n .. N : j \in H BY <1>2
  <2>2. N - (n + 1) \in 0 .. N /\ (N - (n + 1)) + 1 = N - n BY <1>2
  <2>3. N - (n + 1) \in H BY <2>1, <2>2
  <2>4. \A j \in N - (n + 1) .. N : j = N - (n + 1) \/ j \in N - n .. N
    BY <1>2
  <2>5. n + 1 \in 0 .. N BY <1>2
  <2>6. QED BY <2>1, <2>3, <2>4, <2>5
<1> HIDE DEF G
<1>3. G = 0 .. N
  <2>1. G \in SUBSET (0 .. N) BY DEF G
  <2>2. QED BY <1>1, <1>2, <2>1, Upwards
<1>4. N \in G BY <1>3
<1>5. \A j \in N - N .. N : j \in H BY <1>4 DEF G
<1>6. N - N = 0 OBVIOUS
<1>7. QED BY <1>5, <1>6

\* f is defined downwards: it ends at some offsets and else goes on further.
IsDown(f, ends, base, next, n) ==
  \A k \in 0 .. n : f[k] = IF ends[k] THEN base[k] ELSE f[next[k]]

GoesOn(ends, next, n) ==
  \A k \in 0 .. n : ~ ends[k] => next[k] \in 0 .. n /\ next[k] > k

\* What it is everywhere is what it is where it ends.
LEMMA DownIs ==
  ASSUME NEW N \in Nat, NEW f, NEW ends, NEW base, NEW next, NEW S,
         GoesOn(ends, next, N), IsDown(f, ends, base, next, N),
         \A k \in 0 .. N : ends[k] => base[k] \in S
  PROVE  \A k \in 0 .. N : f[k] \in S
<1> DEFINE H == {k \in 0 .. N : f[k] \in S}
<1>1. ASSUME NEW k \in 0 .. N, \A j \in k + 1 .. N : j \in H
      PROVE  k \in H
  <2>1. CASE ends[k] BY <2>1 DEF IsDown
  <2>2. CASE ~ ends[k]
    <3>1. next[k] \in k + 1 .. N BY <2>2 DEF GoesOn
    <3>2. QED BY <1>1, <2>2, <3>1 DEF IsDown
  <2>3. QED BY <2>1, <2>2
<1>2. H \in SUBSET (0 .. N) OBVIOUS
<1> HIDE DEF H
<1>3. H = 0 .. N BY <1>1, <1>2, Downwards
<1>4. QED BY <1>3 DEF H

\* And there is such a function.
LEMMA DownExists ==
  ASSUME NEW N \in Nat, NEW ends, NEW base, NEW next,
         GoesOn(ends, next, N)
  PROVE  \E f : f = [k \in 0 .. N |-> IF ends[k] THEN base[k] ELSE f[next[k]]]
<1> DEFINE Solves(f, n) ==
             f = [k \in N - n .. N |-> IF ends[k] THEN base[k] ELSE f[next[k]]]
           H == {n \in 0 .. N : \E f : Solves(f, n)}
<1>1. 0 \in H
  <2>1. ends[N] BY DEF GoesOn
  <2>2. Solves([k \in N - 0 .. N |-> base[k]], 0) BY <2>1
  <2>3. QED BY <2>2
<1>2. ASSUME NEW n \in 0 .. N, n \in H, n < N PROVE n + 1 \in H
  <2>1. PICK f : Solves(f, n) BY <1>2
  <2> DEFINE low == N - (n + 1)
             g == [k \in low .. N |->
                     IF k = low
                     THEN IF ends[k] THEN base[k] ELSE f[next[k]]
                     ELSE f[k]]
  <2>2. low \in 0 .. N /\ low + 1 = N - n BY <1>2
  <2>3. ASSUME NEW k \in low .. N
        PROVE  g[k] = IF ends[k] THEN base[k] ELSE g[next[k]]
    <3>1. ~ ends[k] => next[k] \in low + 1 .. N /\ next[k] # low
      BY <2>2 DEF GoesOn
    <3>2. ~ ends[k] => g[next[k]] = f[next[k]] BY <3>1, <2>2
    <3>3. k # low => f[k] = IF ends[k] THEN base[k] ELSE f[next[k]]
      BY <2>1, <2>2
    <3>4. QED BY <3>2, <3>3
  <2>4. Solves(g, n + 1) BY <2>3
  <2> HIDE DEF g, Solves
  <2>5. n + 1 \in 0 .. N BY <1>2
  <2>6. QED BY <2>4, <2>5
<1> HIDE DEF H
<1>3. H = 0 .. N
  <2>1. H \in SUBSET (0 .. N) BY DEF H
  <2>2. QED BY <1>1, <1>2, <2>1, Upwards
<1>4. N \in H BY <1>3
<1>5. PICK f : Solves(f, N) BY <1>4 DEF H
<1>6. N - N = 0 OBVIOUS
<1>7. QED BY <1>5, <1>6

-----------------------------------------------------------------------------
\* What holds of i if it holds of all of lower rank holds of all.
LEMMA ByRank ==
  ASSUME NEW N \in Nat, NEW D, NEW rank \in [D -> 0 .. N], NEW H \in SUBSET D,
         \A i \in D : (\A j \in D : rank[j] < rank[i] => j \in H) => i \in H
  PROVE  H = D
<1>1. SUFFICES ASSUME D \ H # {} PROVE FALSE OBVIOUS
<1> DEFINE T == {rank[i] : i \in D \ H}
<1>2. PICK n \in T : \A m \in T : n <= m
  <2>1. T \subseteq Nat /\ T # {} BY <1>1
  <2> HIDE DEF T
  <2>2. QED BY <2>1, Least
<1>3. PICK i \in D \ H : rank[i] = n BY <1>2
<1>4. \A j \in D : rank[j] < rank[i] => j \in H
  <2>1. ASSUME NEW j \in D, rank[j] < rank[i], j \notin H PROVE FALSE
    <3>1. rank[j] \in T BY <2>1
    <3>2. rank[i] <= rank[j] BY <1>2, <1>3, <3>1
    <3>3. rank[i] \in Int /\ rank[j] \in Int BY <1>3, <2>1
    <3>4. QED BY <2>1, <3>2, <3>3
  <2>2. QED BY <2>1
<1>5. QED BY <1>3, <1>4

\* There is no number between a number and the next one.
LEMMA NoneBetween == \A a, b \in Int : a < b + 1 => a = b \/ a < b
OBVIOUS

\* F looks only at values of lower rank.
LooksDown(F, D, rank, S) ==
  \A i \in D : \A g, h \in [D -> S] :
    (\A j \in D : rank[j] < rank[i] => g[j] = h[j]) => F[i][g] = F[i][h]

Defined(F, D, S) == \E f \in [D -> S] : \A i \in D : f[i] = F[i][f]

\* A function whose values are stated in terms of those of lower rank exists.
LEMMA RankedExists ==
  ASSUME NEW N \in Nat, NEW D, NEW rank \in [D -> 0 .. N],
         NEW S, S # {}, NEW F \in [D -> [[D -> S] -> S]],
         LooksDown(F, D, rank, S)
  PROVE  Defined(F, D, S)
<1> DEFINE UpTo(f, n) == \A i \in D : rank[i] < n => f[i] = F[i][f]
           H == {n \in 0 .. N + 1 : \E f \in [D -> S] : UpTo(f, n)}
<1>1. 0 \in H
  <2>1. PICK s \in S : TRUE OBVIOUS
  <2>2. UpTo([i \in D |-> s], 0) OBVIOUS
  <2>3. [i \in D |-> s] \in [D -> S] OBVIOUS
  <2> HIDE DEF UpTo
  <2>4. QED BY <2>2, <2>3
<1>2. ASSUME NEW n \in 0 .. N + 1, n \in H, n < N + 1 PROVE n + 1 \in H
  <2>1. PICK f \in [D -> S] : UpTo(f, n) BY <1>2
  <2> DEFINE g == [i \in D |-> IF rank[i] = n THEN F[i][f] ELSE f[i]]
  <2>2. g \in [D -> S] OBVIOUS
  <2>3. ASSUME NEW i \in D, rank[i] < n + 1 PROVE g[i] = F[i][g]
    <3>1. \A j \in D : rank[j] < rank[i] => f[j] = g[j] BY <1>2, <2>3
    <3>2. F[i][f] = F[i][g] BY <2>2, <3>1 DEF LooksDown
    <3>3. rank[i] \in Int /\ n \in Int BY <1>2
    <3>4. rank[i] = n \/ rank[i] < n BY <2>3, <3>3, NoneBetween
    <3>5. QED BY <2>1, <3>2, <3>4
  <2>4. UpTo(g, n + 1) BY <2>3
  <2> HIDE DEF g, UpTo
  <2>5. n + 1 \in 0 .. N + 1 BY <1>2
  <2>6. QED BY <2>2, <2>4, <2>5
<1>3. H \in SUBSET (0 .. N + 1) OBVIOUS
<1> HIDE DEF H
<1>4. H = 0 .. N + 1 BY <1>1, <1>2, <1>3, Upwards
<1>5. N + 1 \in H BY <1>4
<1>6. PICK f \in [D -> S] : UpTo(f, N + 1) BY <1>5 DEF H
<1>7. \A i \in D : rank[i] < N + 1 OBVIOUS
<1>8. QED BY <1>6, <1>7 DEF Defined

-----------------------------------------------------------------------------
(* Values and sizes are numbers                                            *)

\* Bytes are numbers.
LEMMA BytesAreNumbers == UINT8 \subseteq Nat
BY DEF UINT8

LEMMA ByteOf ==
  ASSUME NEW buf \in Seq(UINT8), NEW i \in 1 .. Len(buf)
  PROVE  buf[i] \in Nat
BY ElementOfSeq, BytesAreNumbers

\* get_n_bytes_as_ull(): bytes of the buffer make a number.
LEMMA BytesAsNumber ==
  ASSUME NEW buf \in Seq(UINT8), NEW offset \in Nat, NEW bytes \in Nat,
         offset + bytes <= Len(buf)
  PROVE  get_n_bytes_as_ull(buf, offset, bytes) \in Nat
<1> DEFINE n == IF bytes > 8 THEN 8 ELSE bytes
           D == 0 .. n
           rank == [i \in D |-> n - i]
           Next(i, g) == IF i = n THEN 0 ELSE buf[offset + i + 1] + 256 * g[i + 1]
           F == [i \in D |-> [g \in [D -> Nat] |-> Next(i, g)]]
           Solves(f) ==
             f = [i \in 0 .. n |-> IF i = n THEN 0
                                   ELSE buf[offset + i + 1] + 256 * f[i + 1]]
           value == CHOOSE f : Solves(f)
<1>1. n \in Nat /\ offset + n <= Len(buf) OBVIOUS
<1> HIDE DEF n
<1>2. rank \in [D -> 0 .. n] BY <1>1
<1>3. ASSUME NEW i \in D, i # n
      PROVE  buf[offset + i + 1] \in Nat /\ i + 1 \in D /\ rank[i + 1] < rank[i]
  <2>1. offset + i + 1 \in 1 .. Len(buf) BY <1>1, <1>3
  <2>2. buf[offset + i + 1] \in Nat BY <2>1, ByteOf
  <2>3. QED BY <1>1, <1>3, <2>2
<1>4. ASSUME NEW i \in D, NEW g, i # n => g[i + 1] \in Nat
      PROVE  Next(i, g) \in Nat
  <2>1. CASE i = n BY <2>1
  <2>2. CASE i # n
    <3>1. buf[offset + i + 1] \in Nat /\ g[i + 1] \in Nat
      BY <1>3, <1>4, <2>2
    <3>2. QED BY <2>2, <3>1
  <2>3. QED BY <2>1, <2>2
<1>5. F \in [D -> [[D -> Nat] -> Nat]] BY <1>3, <1>4
<1>6. LooksDown(F, D, rank, Nat)
  <2>1. ASSUME NEW i \in D, NEW g \in [D -> Nat], NEW h \in [D -> Nat],
               \A j \in D : rank[j] < rank[i] => g[j] = h[j]
        PROVE  Next(i, g) = Next(i, h)
    BY <1>3, <2>1
  <2> HIDE DEF Next, rank
  <2>2. QED BY <2>1 DEF LooksDown
<1>7. \E f : Solves(f)
  <2>1. PICK f \in [D -> Nat] : \A i \in D : f[i] = F[i][f]
    <3>1. n \in Nat /\ Nat # {} BY <1>1
    <3>2. Defined(F, D, Nat)
      <4> HIDE DEF D, F, rank
      <4>1. QED BY <1>2, <1>5, <1>6, <3>1, RankedExists
    <3> HIDE DEF F
    <3>3. QED BY <3>2 DEF Defined
  <2>2. \A i \in D : f[i] = Next(i, f) BY <2>1
  <2>3. Solves(f) BY <2>1, <2>2
  <2>4. QED BY <2>3
<1>8. Solves(value) BY <1>7
<1> HIDE DEF value
<1>9. \A i \in D : value[i] = Next(i, value) BY <1>8
<1> DEFINE H == {i \in D : value[i] \in Nat}
<1>10. ASSUME NEW i \in D, \A j \in D : rank[j] < rank[i] => j \in H
       PROVE  i \in H
  <2>1. i # n => value[i + 1] \in Nat BY <1>3, <1>10
  <2>2. Next(i, value) \in Nat BY <1>4, <2>1
  <2>3. QED BY <1>9, <2>2
<1>11. H \in SUBSET D OBVIOUS
<1>12. H = D
  <2> HIDE DEF D, H, rank
  <2>1. QED BY <1>1, <1>2, <1>10, <1>11, ByRank
<1>13. value[0] \in Nat BY <1>1, <1>12
<1>14. get_n_bytes_as_ull(buf, offset, bytes) = value[0]
  BY DEF get_n_bytes_as_ull, n, value
<1>15. QED BY <1>13, <1>14

\* So they do where they may lie beyond its end.
LEMMA ValueAtIs ==
  ASSUME NEW buf \in Seq(UINT8), NEW offset \in Nat, NEW bytes \in Nat
  PROVE  ValueAt(buf, offset, bytes) \in Nat
BY BytesAsNumber DEF ValueAt

\* What a sound table says of the fields others refer to.
LEMMA ReferredIs ==
  ASSUME NEW desc, SoundTable(desc), NEW i \in DOMAIN desc,
         NEW name \in Referred(desc[i])
  PROVE  /\ Place(desc, name) \in 1 .. i - 1 /\ Place(desc, name) \in DOMAIN desc
         /\ desc[Place(desc, name)].size \in Nat
<1> DEFINE j == Place(desc, name)
<1>1. j \in 1 .. i - 1 BY DEF SoundTable
<1> HIDE DEF j
<1>2. DOMAIN desc = 1 .. Len(desc) /\ Len(desc) \in Nat
      /\ \A k \in DOMAIN desc : desc[k].size \in Nat
  BY DEF SoundTable
<1>3. j \in DOMAIN desc BY <1>1, <1>2
<1>4. QED BY <1>1, <1>2, <1>3 DEF j

\* The size of a field, the fields before it being at numbers.
LEMMA EntrySizeIs ==
  ASSUME NEW buf \in Seq(UINT8), NEW desc, SoundTable(desc),
         NEW i \in DOMAIN desc, NEW offset,
         \A j \in 1 .. i - 1 : offset[j] \in Nat
  PROVE  EntrySize(buf, desc, offset, desc[i]) \in Nat
<1>1. CASE desc[i].size_field = None BY <1>1 DEF EntrySize, SoundTable
<1>2. CASE desc[i].size_field # None
  <2> DEFINE j == Place(desc, desc[i].size_field)
  <2>1. desc[i].size_field \in Referred(desc[i]) BY <1>2 DEF Referred
  <2>2. j \in 1 .. i - 1 /\ desc[j].size \in Nat BY <2>1, ReferredIs
  <2> HIDE DEF j
  <2>3. offset[j] \in Nat /\ j # 0 BY <2>2
  <2>4. ValueAt(buf, offset[j], desc[j].size) \in Nat
    BY <2>2, <2>3, ValueAtIs
  <2>5. QED BY <1>2, <2>3, <2>4 DEF EntrySize, ValueOf, j
<1>3. QED BY <1>1, <1>2

\* It depends on no other offsets.
LEMMA EntrySizeSame ==
  ASSUME NEW buf, NEW desc, SoundTable(desc), NEW i \in DOMAIN desc,
         NEW g, NEW h, \A j \in 1 .. i - 1 : g[j] = h[j]
  PROVE  EntrySize(buf, desc, g, desc[i]) = EntrySize(buf, desc, h, desc[i])
<1>1. CASE desc[i].size_field = None BY <1>1 DEF EntrySize
<1>2. CASE desc[i].size_field # None
  <2> DEFINE j == Place(desc, desc[i].size_field)
  <2>1. desc[i].size_field \in Referred(desc[i]) BY <1>2 DEF Referred
  <2>2. j \in 1 .. i - 1 BY <2>1, ReferredIs
  <2> HIDE DEF j
  <2>3. g[j] = h[j] BY <2>2
  <2>4. QED BY <1>2, <2>3 DEF EntrySize, ValueOf, j
<1>3. QED BY <1>1, <1>2

\* The offsets get_value_from_field() takes the fields to be at: each one's is
\* behind an entry of the one before, and a number.
LEMMA SearchOffsetsAre ==
  ASSUME NEW buf \in Seq(UINT8), NEW desc, SoundTable(desc),
         NEW k \in DOMAIN desc
  PROVE  /\ SearchOffsets(buf, desc)[k] \in Nat
         /\ SearchOffsets(buf, desc)[k] =
              IF k = 1 THEN 0
              ELSE SearchOffsets(buf, desc)[k - 1]
                     + EntrySize(buf, desc, SearchOffsets(buf, desc),
                                 desc[k - 1])
<1> DEFINE n == Len(desc)
           D == 1 .. n
           rank == [i \in D |-> i]
           Next(i, g) == IF i = 1 THEN 0
                         ELSE g[i - 1] + EntrySize(buf, desc, g, desc[i - 1])
           F == [i \in D |-> [g \in [D -> Nat] |-> Next(i, g)]]
           Solves(f) ==
             f = [i \in 1 .. Len(desc) |->
                    IF i = 1 THEN 0
                    ELSE f[i - 1] + EntrySize(buf, desc, f, desc[i - 1])]
           offset == CHOOSE f : Solves(f)
<1>1. n \in Nat /\ DOMAIN desc = D BY DEF SoundTable
<1>2. ASSUME NEW f PROVE Solves(f) <=> f = [i \in D |-> Next(i, f)]
  OBVIOUS
<1>3. SearchOffsets(buf, desc) = offset BY DEF SearchOffsets
<1> HIDE DEF n, Solves, offset
<1>4. rank \in [D -> 0 .. n] BY <1>1
<1>5. ASSUME NEW i \in D, NEW g, \A j \in D : j < i => g[j] \in Nat
      PROVE  Next(i, g) \in Nat
  <2>1. CASE i = 1 BY <2>1
  <2>2. CASE i # 1
    <3>1. i - 1 \in D /\ i - 1 < i BY <1>1, <2>2
    <3>2. \A j \in 1 .. (i - 1) - 1 : j \in D /\ j < i BY <1>1
    <3>3. \A j \in 1 .. (i - 1) - 1 : g[j] \in Nat BY <1>5, <3>2
    <3>4. EntrySize(buf, desc, g, desc[i - 1]) \in Nat
      BY <1>1, <3>1, <3>3, EntrySizeIs
    <3>5. g[i - 1] \in Nat BY <1>5, <3>1
    <3>6. QED BY <2>2, <3>4, <3>5
  <2>3. QED BY <2>1, <2>2
<1>6. F \in [D -> [[D -> Nat] -> Nat]]
  <2>1. ASSUME NEW i \in D, NEW g \in [D -> Nat] PROVE Next(i, g) \in Nat
    <3> HIDE DEF Next
    <3>1. QED BY <1>5
  <2> HIDE DEF Next
  <2>2. QED BY <2>1
<1>7. LooksDown(F, D, rank, Nat)
  <2>1. ASSUME NEW i \in D, NEW g \in [D -> Nat], NEW h \in [D -> Nat],
               \A j \in D : rank[j] < rank[i] => g[j] = h[j]
        PROVE  Next(i, g) = Next(i, h)
    <3>1. CASE i = 1 BY <3>1
    <3>2. CASE i # 1
      <4>1. i - 1 \in D /\ i - 1 < i BY <1>1, <3>2
      <4>2. \A j \in D : j < i => g[j] = h[j] BY <2>1
      <4>3. \A j \in 1 .. (i - 1) - 1 : j \in D /\ j < i BY <1>1
      <4>4. \A j \in 1 .. (i - 1) - 1 : g[j] = h[j] BY <4>2, <4>3
      <4>5. EntrySize(buf, desc, g, desc[i - 1])
              = EntrySize(buf, desc, h, desc[i - 1])
        BY <1>1, <4>1, <4>4, EntrySizeSame
      <4>6. g[i - 1] = h[i - 1] BY <4>1, <4>2
      <4>7. QED BY <4>5, <4>6
    <3>3. QED BY <3>1, <3>2
  <2> HIDE DEF Next, rank
  <2>2. QED BY <2>1 DEF LooksDown
<1>8. \E f : Solves(f)
  <2>1. Nat # {} OBVIOUS
  <2>2. Defined(F, D, Nat)
    <3> HIDE DEF D, F, rank
    <3>1. QED BY <1>1, <1>4, <1>6, <1>7, <2>1, RankedExists
  <2>3. PICK f \in [D -> Nat] : \A i \in D : f[i] = F[i][f]
    <3> HIDE DEF F
    <3>1. QED BY <2>2 DEF Defined
  <2> HIDE DEF Next
  <2>4. \A i \in D : f[i] = Next(i, f) BY <2>3
  <2>5. f = [i \in D |-> Next(i, f)] BY <2>3, <2>4
  <2>6. QED BY <1>2, <2>5
<1>9. Solves(offset) BY <1>8 DEF offset
<1>10. \A i \in D : offset[i] = Next(i, offset)
  <2> HIDE DEF Next
  <2>1. offset = [i \in D |-> Next(i, offset)] BY <1>2, <1>9
  <2>2. QED BY <2>1
<1> DEFINE H == {i \in D : offset[i] \in Nat}
<1>11. ASSUME NEW i \in D, \A j \in D : rank[j] < rank[i] => j \in H
       PROVE  i \in H
  <2>1. \A j \in D : j < i => offset[j] \in Nat BY <1>11
  <2> HIDE DEF Next
  <2>2. Next(i, offset) \in Nat BY <1>5, <2>1
  <2>3. QED BY <1>10, <2>2
<1>12. H \in SUBSET D OBVIOUS
<1>13. H = D
  <2> HIDE DEF D, H, rank
  <2>1. QED BY <1>1, <1>4, <1>11, <1>12, ByRank
<1>14. offset[k] \in Nat BY <1>1, <1>13
<1>15. offset[k] = Next(k, offset) BY <1>1, <1>10
<1>16. QED BY <1>3, <1>14, <1>15

\* get_value_from_field(): the value of a field a table refers to.
LEMMA FieldValueIs ==
  ASSUME NEW buf \in Seq(UINT8), NEW desc, SoundTable(desc),
         NEW i \in DOMAIN desc, NEW name \in Referred(desc[i])
  PROVE  get_value_from_field(buf, desc, name) \in Nat
<1> DEFINE j == Place(desc, name)
<1>1. j \in 1 .. i - 1 /\ j \in DOMAIN desc /\ desc[j].size \in Nat
  BY ReferredIs
<1> HIDE DEF j
<1>2. SearchOffsets(buf, desc)[j] \in Nat BY <1>1, SearchOffsetsAre
<1>3. ValueAt(buf, SearchOffsets(buf, desc)[j], desc[j].size) \in Nat
  BY <1>1, <1>2, ValueAtIs
<1>4. j # 0 BY <1>1
<1>5. QED BY <1>3, <1>4 DEF get_value_from_field, ValueOf, j

\* get_entry_size(): the size of an entry, fixed or stated by a field.
LEMMA FieldSizeIs ==
  ASSUME NEW buf \in Seq(UINT8), NEW desc, SoundTable(desc),
         NEW i \in DOMAIN desc
  PROVE  get_entry_size(buf, desc, desc[i]) \in Nat
<1>1. i \in 1 .. Len(desc) /\ DOMAIN desc = 1 .. Len(desc)
      /\ Len(desc) \in Nat
  BY DEF SoundTable
<1>2. \A j \in 1 .. i - 1 : j \in DOMAIN desc BY <1>1
<1>3. \A j \in 1 .. i - 1 : SearchOffsets(buf, desc)[j] \in Nat
  BY <1>2, SearchOffsetsAre
<1>4. QED BY <1>3, EntrySizeIs DEF get_entry_size

\* Facts of arithmetic the counts need.
LEMMA Products == \A a, b \in Nat : a * b \in Nat
OBVIOUS

LEMMA InBytes == \A a \in Nat : (a + 7) \div 8 \in Nat
OBVIOUS

\* The number of entries of an array, stated by fields or inferred from the
\* room that is left.
LEMMA StatedEntriesAre ==
  ASSUME NEW buf \in Seq(UINT8), NEW desc, SoundTable(desc),
         NEW i \in DOMAIN desc, desc[i].length_field1 # None
  PROVE  StatedEntries(buf, desc, desc[i]) \in Nat
<1> DEFINE f == desc[i]
           rows == get_value_from_field(buf, desc, f.length_field1)
           columns == IF f.length_field2 = None THEN 1
                      ELSE get_value_from_field(buf, desc, f.length_field2)
<1>1. rows \in Nat
  <2>1. f.length_field1 \in Referred(f) BY DEF Referred
  <2>2. QED BY <2>1, FieldValueIs
<1>2. columns \in Nat
  <2>1. CASE f.length_field2 = None BY <2>1
  <2>2. CASE f.length_field2 # None
    <3>1. f.length_field2 \in Referred(f) BY <2>2 DEF Referred
    <3>2. get_value_from_field(buf, desc, f.length_field2) \in Nat
      BY <3>1, FieldValueIs
    <3>3. QED BY <2>2, <3>2
  <2>3. QED BY <2>1, <2>2
<1>3. StatedEntries(buf, desc, f) = Bytes(f, rows * columns)
  BY DEF StatedEntries
<1> HIDE DEF rows, columns
<1>4. rows * columns \in Nat BY <1>1, <1>2, Products
<1>5. Bytes(f, rows * columns) \in Nat
  BY <1>4, InBytes DEF Bytes
<1>6. QED BY <1>3, <1>5

\* The entries that fit into the bytes left.
LEMMA EntriesInAre ==
  ASSUME NEW left \in Int, NEW size \in Nat
  PROVE  EntriesIn(left, size) \in Nat
BY DEF EntriesIn

\* The entries of a field, the inferred array having n, and the bytes all
\* fields take up.
Entries(buf, desc, n, f) ==
  IF ~ f.array THEN 1
  ELSE IF f.length_field1 = None THEN n ELSE StatedEntries(buf, desc, f)

Taken(buf, desc, n) ==
  [i \in 1 .. Len(desc) |->
     get_entry_size(buf, desc, desc[i]) * Entries(buf, desc, n, desc[i])]

LEMMA TakenIs ==
  ASSUME NEW buf \in Seq(UINT8), NEW desc, SoundTable(desc), NEW n \in Nat
  PROVE  /\ Taken(buf, desc, n) \in [1 .. Len(desc) -> Nat]
         /\ \A i \in DOMAIN desc : Entries(buf, desc, n, desc[i]) \in Nat
<1>1. DOMAIN desc = 1 .. Len(desc) BY DEF SoundTable
<1>2. ASSUME NEW i \in DOMAIN desc
      PROVE  Entries(buf, desc, n, desc[i]) \in Nat
  BY StatedEntriesAre DEF Entries
<1>3. ASSUME NEW i \in DOMAIN desc
      PROVE  get_entry_size(buf, desc, desc[i])
               * Entries(buf, desc, n, desc[i]) \in Nat
  BY <1>2, FieldSizeIs, Products
<1>4. QED BY <1>1, <1>2, <1>3 DEF Taken

\* An array that is inferred has as many entries as fit beside the other
\* fields, those that would take up the descriptor if it had none.
LEMMA InferredEntriesAre ==
  ASSUME NEW buf \in Seq(UINT8), NEW desc, SoundTable(desc),
         NEW k \in DOMAIN desc, desc[k].array, desc[k].length_field1 = None
  PROVE  /\ \A g : IsSum(g, Taken(buf, desc, 0), Len(desc)) =>
              InferredEntries(buf, desc, desc[k])
                = EntriesIn(Len(buf) - g[Len(desc)],
                            get_entry_size(buf, desc, desc[k]))
         /\ InferredEntries(buf, desc, desc[k]) \in Nat
<1> DEFINE f == desc[k]
           N == Len(desc)
           uses == Taken(buf, desc, 0)
           Uses(i) == IF desc[i] = f THEN 0
                      ELSE get_entry_size(buf, desc, desc[i]) *
                             IF desc[i].array
                             THEN StatedEntries(buf, desc, desc[i]) ELSE 1
           Solves(g) ==
             g = [i \in 0 .. Len(desc) |->
                    IF i = 0 THEN 0
                    ELSE g[i - 1] +
                         IF desc[i] = f THEN 0
                         ELSE get_entry_size(buf, desc, desc[i]) *
                                IF desc[i].array
                                THEN StatedEntries(buf, desc, desc[i]) ELSE 1]
           taken == CHOOSE g : Solves(g)
<1>1. N \in Nat /\ DOMAIN desc = 1 .. N BY DEF SoundTable
<1>2. InferredEntries(buf, desc, f)
        = EntriesIn(Len(buf) - taken[N], get_entry_size(buf, desc, f))
  BY DEF InferredEntries
<1>3. ASSUME NEW g
      PROVE  Solves(g) <=>
               g = [i \in 0 .. N |-> IF i = 0 THEN 0 ELSE g[i - 1] + Uses(i)]
  OBVIOUS
<1>4. ASSUME NEW i \in 1 .. N PROVE Uses(i) = uses[i]
  <2>1. get_entry_size(buf, desc, desc[i]) \in Nat BY <1>1, FieldSizeIs
  <2> DEFINE size == get_entry_size(buf, desc, desc[i])
  <2>2. size * 0 = 0 BY <2>1
  <2>3. uses[i] = size * Entries(buf, desc, 0, desc[i]) BY DEF Taken
  <2> HIDE DEF size
  <2>4. CASE i = k
    <3>1. Entries(buf, desc, 0, desc[i]) = 0 BY <2>4 DEF Entries
    <3>2. QED BY <2>2, <2>3, <2>4, <3>1
  <2>5. CASE i # k
    <3>1. /\ desc[i] # f
          /\ desc[i].array => desc[i].length_field1 # None
      BY <1>1, <2>5 DEF SoundTable
    <3> HIDE DEF uses
    <3>2. QED BY <2>3, <3>1 DEF Entries, size
  <2>6. QED BY <2>4, <2>5
<1>5. uses \in [1 .. N -> Nat] BY TakenIs
<1> HIDE DEF N, Solves, taken, Uses, uses
<1>6. ASSUME NEW g, IsSum(g, uses, N) PROVE Solves(g)
  <2>1. ASSUME NEW i \in 0 .. N
        PROVE  g[i] = IF i = 0 THEN 0 ELSE g[i - 1] + Uses(i)
    <3>1. CASE i = 0 BY <1>6, <3>1 DEF IsSum
    <3>2. CASE i # 0
      <4>1. i \in 1 .. N BY <1>1, <3>2
      <4>2. g[i] = g[i - 1] + uses[i] BY <1>6, <4>1 DEF IsSum
      <4>3. QED BY <1>4, <3>2, <4>1, <4>2
    <3>3. QED BY <3>1, <3>2
  <2>2. g = [i \in 0 .. N |-> g[i]] BY <1>6 DEF IsSum
  <2>3. g = [i \in 0 .. N |-> IF i = 0 THEN 0 ELSE g[i - 1] + Uses(i)]
    BY <2>1, <2>2
  <2>4. QED BY <1>3, <2>3
<1>7. PICK g : IsSum(g, uses, N) BY <1>1, <1>5, SumExists
<1>8. taken = [i \in 0 .. N |-> IF i = 0 THEN 0 ELSE taken[i - 1] + Uses(i)]
  <2>1. Solves(taken) BY <1>6, <1>7 DEF taken
  <2>2. QED BY <1>3, <2>1
<1>9. ASSUME NEW h, IsSum(h, uses, N) PROVE taken[N] = h[N]
  <2> DEFINE H == {n \in 0 .. N : taken[n] = h[n]}
  <2>1. 0 \in H BY <1>1, <1>8, <1>9 DEF IsSum
  <2>2. ASSUME NEW n \in 0 .. N, n \in H, n < N PROVE n + 1 \in H
    <3>1. n + 1 \in 1 .. N /\ n + 1 \in 0 .. N /\ (n + 1) - 1 = n
      BY <1>1, <2>2
    <3>2. taken[n + 1] = taken[n] + Uses(n + 1) BY <1>8, <3>1
    <3>3. h[n + 1] = h[n] + uses[n + 1] BY <1>9, <3>1 DEF IsSum
    <3>4. QED BY <1>4, <2>2, <3>1, <3>2, <3>3
  <2>3. H \in SUBSET (0 .. N) OBVIOUS
  <2> HIDE DEF H
  <2>4. H = 0 .. N BY <1>1, <2>1, <2>2, <2>3, Upwards
  <2>5. QED BY <1>1, <2>4 DEF H
<1>10. Len(buf) - g[N] \in Int BY <1>1, <1>7 DEF IsSum
<1>11. InferredEntries(buf, desc, f) \in Nat
  BY <1>2, <1>7, <1>9, <1>10, FieldSizeIs, EntriesInAre
<1>12. QED BY <1>2, <1>9, <1>11 DEF N, uses

-----------------------------------------------------------------------------
(* A dump by a table stays within the descriptor                           *)

Ends == {"running", "insufficient", "whole", "junk"}

Positions(buf) == [offset : 0 .. Len(buf), end : Ends]

\* The entries that fit do not take more than the room there is.
LEMMA RoomIs ==
  ASSUME NEW a \in Nat, NEW size \in Nat, size # 0
  PROVE  a \div size \in Nat /\ (a \div size) * size <= a
OBVIOUS

LEMMA FewerEntries ==
  \A m, n, size \in Nat : m <= n => m * size <= n * size
OBVIOUS

\* Entries, fields and what is left over: the position stays within.
LEMMA DumpEntriesWithin ==
  ASSUME NEW buf \in Seq(UINT8), NEW d \in Positions(buf),
         NEW size \in Nat, NEW entries \in Nat
  PROVE  DumpEntries(buf, d, size, entries) \in Positions(buf)
<1> DEFINE room == IF size = 0 THEN entries
                   ELSE (Len(buf) - d.offset) \div size
<1>1. d.offset \in Nat /\ Len(buf) \in Nat /\ d.offset <= Len(buf)
      /\ d.end \in Ends
  BY DEF Positions, Ends
<1>2. room \in Nat /\ d.offset + room * size <= Len(buf)
      /\ room * size \in Nat
  <2>1. CASE size = 0
    <3>1. room = entries /\ entries * 0 = 0 BY <2>1
    <3>2. QED BY <1>1, <2>1, <3>1
  <2>2. CASE size # 0
    <3> DEFINE a == Len(buf) - d.offset
    <3>1. a \in Nat /\ d.offset + a = Len(buf) BY <1>1
    <3> HIDE DEF a
    <3>2. a \div size \in Nat /\ (a \div size) * size <= a
          /\ (a \div size) * size \in Nat
      BY <2>2, <3>1, RoomIs, Products
    <3>3. room = a \div size BY <2>2 DEF a
    <3> HIDE DEF room
    <3>4. room \in Nat /\ room * size <= a /\ room * size \in Nat
      BY <3>2, <3>3
    <3>5. QED BY <1>1, <3>1, <3>4
  <2>3. QED BY <2>1, <2>2
<1>3. DumpEntries(buf, d, size, entries)
        = IF entries <= room
          THEN [d EXCEPT !.offset = @ + entries * size]
          ELSE [offset |-> d.offset + room * size, end |-> "insufficient"]
  BY DEF DumpEntries
<1> HIDE DEF room
<1>4. CASE entries <= room
  <2>1. entries * size <= room * size /\ entries * size \in Nat
    BY <1>2, <1>4, FewerEntries, Products
  <2>2. d.offset + entries * size \in 0 .. Len(buf) BY <1>1, <1>2, <2>1
  <2>3. QED BY <1>3, <1>4, <2>2 DEF Positions, Ends
<1>5. CASE ~ (entries <= room)
  <2>1. d.offset + room * size \in 0 .. Len(buf) BY <1>1, <1>2
  <2>2. QED BY <1>3, <1>5, <2>1 DEF Positions, Ends
<1>6. QED BY <1>4, <1>5

\* A field, whatever the size and the number of entries it states.
LEMMA DumpFieldWithin ==
  ASSUME NEW buf \in Seq(UINT8), NEW desc, SoundTable(desc),
         NEW i \in DOMAIN desc, NEW d \in Positions(buf)
  PROVE  DumpField(buf, desc, d, desc[i]) \in Positions(buf)
<1>1. get_entry_size(buf, desc, desc[i]) \in Nat BY FieldSizeIs
<1>2. CASE ~ desc[i].array
  BY <1>1, <1>2, DumpEntriesWithin DEF DumpField
<1>3. CASE desc[i].array
  <2>1. get_array_entry_count(buf, desc, desc[i]) \in Nat
    BY <1>3, StatedEntriesAre, InferredEntriesAre DEF get_array_entry_count
  <2>2. QED BY <1>1, <1>3, <2>1, DumpEntriesWithin DEF DumpField
<1>4. QED BY <1>2, <1>3

\* A dump that goes on from position to position stays within the descriptor:
\* of the recursion of PlainDump() and of desc_dump().
LEMMA GoingOnWithin ==
  ASSUME NEW buf \in Seq(UINT8), NEW N \in Nat,
         NEW step \in [(1 .. N) \X Positions(buf) -> Positions(buf)]
  PROVE  \E f \in [0 .. N -> Positions(buf)] : IsUp(f, Begin, step, N)
<1>1. Begin \in Positions(buf) BY DEF Begin, Positions, Ends
<1> DEFINE S == Positions(buf)
<1> HIDE DEF S
<1>2. \E f \in [0 .. N -> S] : IsUp(f, Begin, step, N)
  BY <1>1, UpExists DEF S
<1>3. QED BY <1>2 DEF S

\* What is left over is junk, and within.
LEMMA FinishWithin ==
  ASSUME NEW buf \in Seq(UINT8), NEW d \in Positions(buf)
  PROVE  Finish(buf, d) \in Positions(buf)
BY DEF Finish, Positions, Ends

\* The fields of a table, one after the other, from position to position.
PlainStep(buf, desc) ==
  [a \in (1 .. Len(desc)) \X Positions(buf) |->
     IF a[2].end = "running" THEN DumpField(buf, desc, a[2], desc[a[1]])
                             ELSE a[2]]

LEMMA PlainStepIs ==
  ASSUME NEW buf \in Seq(UINT8), NEW desc, SoundTable(desc)
  PROVE  PlainStep(buf, desc)
           \in [(1 .. Len(desc)) \X Positions(buf) -> Positions(buf)]
<1>1. DOMAIN desc = 1 .. Len(desc) BY DEF SoundTable
<1>2. QED BY <1>1, DumpFieldWithin DEF PlainStep

LEMMA PlainDumpGoesOn ==
  ASSUME NEW buf \in Seq(UINT8), NEW desc, SoundTable(desc)
  PROVE  \E upto \in [0 .. Len(desc) -> Positions(buf)] :
           /\ IsUp(upto, Begin, PlainStep(buf, desc), Len(desc))
           /\ PlainDump(buf, desc) = Finish(buf, upto[Len(desc)])
<1> DEFINE N == Len(desc)
           S == Positions(buf)
           step == PlainStep(buf, desc)
           Goes(i, d) == IF d.end = "running"
                         THEN DumpField(buf, desc, d, desc[i]) ELSE d
           Solves(f) ==
             f = [i \in 0 .. Len(desc) |->
                    IF i = 0 THEN Begin
                    ELSE IF f[i - 1].end = "running"
                         THEN DumpField(buf, desc, f[i - 1], desc[i])
                         ELSE f[i - 1]]
           upto == CHOOSE f : Solves(f)
<1>1. N \in Nat BY DEF SoundTable
<1>2. PlainDump(buf, desc) = Finish(buf, upto[N]) BY DEF PlainDump
<1>3. ASSUME NEW f
      PROVE  Solves(f) <=>
               f = [i \in 0 .. N |-> IF i = 0 THEN Begin ELSE Goes(i, f[i - 1])]
  OBVIOUS
<1>4. step \in [(1 .. N) \X S -> S] BY PlainStepIs
<1>5. \A i \in 1 .. N : \A d \in S : step[<<i, d>>] = Goes(i, d)
  BY DEF PlainStep
<1> HIDE DEF N, Solves, upto, Goes, step, S
<1>6. \E f : Solves(f)
  <2>1. PICK f \in [0 .. N -> S] : IsUp(f, Begin, step, N)
    BY <1>1, <1>4, GoingOnWithin DEF S
  <2>2. \A i \in 1 .. N : f[i] = Goes(i, f[i - 1])
    BY <1>1, <1>5, <2>1 DEF IsUp
  <2>3. f = [i \in 0 .. N |-> IF i = 0 THEN Begin ELSE Goes(i, f[i - 1])]
    BY <1>1, <2>1, <2>2 DEF IsUp
  <2>4. QED BY <1>3, <2>3
<1>7. upto = [i \in 0 .. N |-> IF i = 0 THEN Begin ELSE Goes(i, upto[i - 1])]
  BY <1>3, <1>6 DEF upto
<1>8. upto \in [0 .. N -> S] /\ IsUp(upto, Begin, step, N)
  <2>1. Begin \in S /\ upto[0] = Begin
    BY <1>1, <1>7 DEF S, Begin, Positions, Ends
  <2>2. \A n \in 1 .. N : \A d \in S : step[<<n, d>>] \in S BY <1>4
  <2>3. ASSUME NEW n \in 1 .. N, upto[n - 1] \in S
        PROVE  upto[n] = step[<<n, upto[n - 1]>>]
    <3>1. n \in 0 .. N /\ n # 0 BY <1>1
    <3>2. upto[n] = IF n = 0 THEN Begin ELSE Goes(n, upto[n - 1])
      BY <1>7, <3>1, Zenon
    <3>3. step[<<n, upto[n - 1]>>] = Goes(n, upto[n - 1]) BY <1>5, <2>3, Zenon
    <3>4. QED BY <3>1, <3>2, <3>3, Zenon
  <2>4. (\A n \in 0 .. N : upto[n] \in S) /\ IsUp(upto, Begin, step, N)
    BY <1>1, <2>1, <2>2, <2>3, UpStays
  <2>5. upto = [n \in 0 .. N |-> upto[n]] BY <1>7
  <2>6. QED BY <2>4, <2>5
<1>9. QED BY <1>2, <1>8 DEF N, S, step

LEMMA PlainDumpWithin ==
  ASSUME NEW buf \in Seq(UINT8), NEW desc, SoundTable(desc)
  PROVE  PlainDump(buf, desc) \in Positions(buf)
<1>1. PICK upto \in [0 .. Len(desc) -> Positions(buf)] :
        PlainDump(buf, desc) = Finish(buf, upto[Len(desc)])
  BY PlainDumpGoesOn
<1>2. Len(desc) \in 0 .. Len(desc) BY DEF SoundTable
<1>3. QED BY <1>1, <1>2, FinishWithin

\* The table a type field leads to.
LEMMA DumpExtensionWithin ==
  ASSUME NEW buf \in Seq(UINT8), NEW desc, SoundTables(desc),
         NEW i \in DOMAIN desc, NEW d \in Positions(buf)
  PROVE  DumpExtension(buf, desc, d, desc[i]) \in Positions(buf)
<1> DEFINE rest == SubSeq(buf, d.offset + 1, Len(buf))
           type == get_value_from_field(buf, desc, desc[i].type_field)
           table == ExtensionTable(desc[i], type)
           plain == PlainDump(rest, table)
<1>1. d.offset \in Nat /\ Len(buf) \in Nat /\ d.offset <= Len(buf)
      /\ d.end \in Ends
  BY DEF Positions, Ends
<1>2. rest \in Seq(UINT8) /\ Len(rest) = Len(buf) - d.offset BY <1>1
<1>3. SoundTable(table)
  <2>1. SoundTable(desc_undefined)
    BY DEF SoundTable, desc_undefined
  <2>2. type \in DOMAIN desc[i].extension => SoundTable(desc[i].extension[type])
    BY DEF SoundTables
  <2> HIDE DEF type
  <2>3. QED BY <2>1, <2>2 DEF ExtensionTable
<1> HIDE DEF rest, type, table
<1>4. plain \in Positions(rest) BY <1>2, <1>3, PlainDumpWithin
<1>5. plain.offset \in 0 .. Len(rest) /\ plain.end \in Ends
      /\ plain = [offset |-> plain.offset, end |-> plain.end]
  BY <1>4 DEF Positions, Ends
<1>6. DumpExtension(buf, desc, d, desc[i])
        = IF d.offset + desc[i].size > Len(buf)
          THEN [d EXCEPT !.end = "insufficient"]
          ELSE [plain EXCEPT !.offset = @ + d.offset]
  BY DEF DumpExtension, rest, type, table
<1>7. [d EXCEPT !.end = "insufficient"] \in Positions(buf)
  BY DEF Positions, Ends
<1> HIDE DEF plain
<1>8. plain.offset + d.offset \in 0 .. Len(buf) BY <1>1, <1>2, <1>5
<1>9. [plain EXCEPT !.offset = @ + d.offset] \in Positions(buf)
  BY <1>5, <1>8 DEF Positions, Ends
<1>10. QED BY <1>6, <1>7, <1>9

\* The fields of a table that may go on with another one.
DescStep(buf, desc) ==
  [a \in (1 .. Len(desc)) \X Positions(buf) |->
     IF a[2].end # "running" THEN a[2]
     ELSE IF desc[a[1]].type_field = None
          THEN DumpField(buf, desc, a[2], desc[a[1]])
          ELSE DumpExtension(buf, desc, a[2], desc[a[1]])]

LEMMA DescStepIs ==
  ASSUME NEW buf \in Seq(UINT8), NEW desc, SoundTables(desc)
  PROVE  DescStep(buf, desc)
           \in [(1 .. Len(desc)) \X Positions(buf) -> Positions(buf)]
<1>1. SoundTable(desc) BY DEF SoundTables
<1>2. DOMAIN desc = 1 .. Len(desc) BY <1>1 DEF SoundTable
<1>3. QED BY <1>1, <1>2, DumpFieldWithin, DumpExtensionWithin DEF DescStep

LEMMA DescDumpGoesOn ==
  ASSUME NEW buf \in Seq(UINT8), NEW desc, SoundTables(desc)
  PROVE  \E upto \in [0 .. Len(desc) -> Positions(buf)] :
           /\ IsUp(upto, Begin, DescStep(buf, desc), Len(desc))
           /\ desc_dump(buf, desc) = Finish(buf, upto[Len(desc)])
<1> DEFINE N == Len(desc)
           S == Positions(buf)
           step == DescStep(buf, desc)
           Goes(i, d) ==
             IF d.end # "running" THEN d
             ELSE IF desc[i].type_field = None
                  THEN DumpField(buf, desc, d, desc[i])
                  ELSE DumpExtension(buf, desc, d, desc[i])
           Solves(f) ==
             f = [i \in 0 .. Len(desc) |->
                    IF i = 0 THEN Begin
                    ELSE IF f[i - 1].end # "running" THEN f[i - 1]
                         ELSE IF desc[i].type_field = None
                              THEN DumpField(buf, desc, f[i - 1], desc[i])
                              ELSE DumpExtension(buf, desc, f[i - 1], desc[i])]
           upto == CHOOSE f : Solves(f)
<1>1. N \in Nat BY DEF SoundTable, SoundTables
<1>2. desc_dump(buf, desc) = Finish(buf, upto[N]) BY DEF desc_dump
<1>3. ASSUME NEW f
      PROVE  Solves(f) <=>
               f = [i \in 0 .. N |-> IF i = 0 THEN Begin ELSE Goes(i, f[i - 1])]
  OBVIOUS
<1>4. step \in [(1 .. N) \X S -> S] BY DescStepIs
<1>5. \A i \in 1 .. N : \A d \in S : step[<<i, d>>] = Goes(i, d)
  BY DEF DescStep
<1> HIDE DEF N, Solves, upto, Goes, step, S
<1>6. \E f : Solves(f)
  <2>1. PICK f \in [0 .. N -> S] : IsUp(f, Begin, step, N)
    BY <1>1, <1>4, GoingOnWithin DEF S
  <2>2. \A i \in 1 .. N : f[i] = Goes(i, f[i - 1])
    BY <1>1, <1>5, <2>1 DEF IsUp
  <2>3. f = [i \in 0 .. N |-> IF i = 0 THEN Begin ELSE Goes(i, f[i - 1])]
    BY <1>1, <2>1, <2>2 DEF IsUp
  <2>4. QED BY <1>3, <2>3
<1>7. upto = [i \in 0 .. N |-> IF i = 0 THEN Begin ELSE Goes(i, upto[i - 1])]
  BY <1>3, <1>6 DEF upto
<1>8. upto \in [0 .. N -> S] /\ IsUp(upto, Begin, step, N)
  <2>1. Begin \in S /\ upto[0] = Begin
    BY <1>1, <1>7 DEF S, Begin, Positions, Ends
  <2>2. \A n \in 1 .. N : \A d \in S : step[<<n, d>>] \in S BY <1>4
  <2>3. ASSUME NEW n \in 1 .. N, upto[n - 1] \in S
        PROVE  upto[n] = step[<<n, upto[n - 1]>>]
    <3>1. n \in 0 .. N /\ n # 0 BY <1>1
    <3>2. upto[n] = IF n = 0 THEN Begin ELSE Goes(n, upto[n - 1])
      BY <1>7, <3>1, Zenon
    <3>3. step[<<n, upto[n - 1]>>] = Goes(n, upto[n - 1]) BY <1>5, <2>3, Zenon
    <3>4. QED BY <3>1, <3>2, <3>3, Zenon
  <2>4. (\A n \in 0 .. N : upto[n] \in S) /\ IsUp(upto, Begin, step, N)
    BY <1>1, <2>1, <2>2, <2>3, UpStays
  <2>5. upto = [n \in 0 .. N |-> upto[n]] BY <1>7
  <2>6. QED BY <2>4, <2>5
<1>9. QED BY <1>2, <1>8 DEF N, S, step

\* desc_dump(): for whatever bytes, a dump by a table one can rely on ends
\* within them.
THEOREM DescDumpWithin ==
  ASSUME NEW buf \in Seq(UINT8), NEW desc, SoundTables(desc)
  PROVE  desc_dump(buf, desc) \in Positions(buf)
<1>1. PICK upto \in [0 .. Len(desc) -> Positions(buf)] :
        desc_dump(buf, desc) = Finish(buf, upto[Len(desc)])
  BY DescDumpGoesOn
<1>2. Len(desc) \in 0 .. Len(desc) BY DEF SoundTable, SoundTables
<1>3. QED BY <1>1, <1>2, FinishWithin

-----------------------------------------------------------------------------
(* A dump shows all of a descriptor exactly if the descriptor is filled by *)
(* its fields, at the offsets and of the lengths it states.                *)

\* A field that is referred to lies, counts standing in front, where
\* get_value_from_field() takes it to be.
LEMMA SearchedIs ==
  ASSUME NEW buf \in Seq(UINT8), NEW desc, SoundTable(desc),
         FixedPrefix(desc), NEW n \in Nat, NEW g,
         IsSum(g, Taken(buf, desc, n), Len(desc)),
         NEW i \in DOMAIN desc, NEW name \in Referred(desc[i])
  PROVE  /\ Place(desc, name) \in 1 .. i - 1
         /\ SearchOffsets(buf, desc)[Place(desc, name)]
              = g[Place(desc, name) - 1]
<1> DEFINE j == Place(desc, name)
           offset == SearchOffsets(buf, desc)
           H == {m \in 0 .. j - 1 : offset[m + 1] = g[m]}
<1>1. DOMAIN desc = 1 .. Len(desc) /\ Len(desc) \in Nat BY DEF SoundTable
<1>2. j \in 1 .. i - 1 BY ReferredIs
<1>3. \A k \in 1 .. j - 1 : ~ desc[k].array /\ desc[k].size_field = None
  BY DEF FixedPrefix
<1> HIDE DEF j
<1>4. j - 1 \in Nat /\ \A k \in 1 .. j : k \in DOMAIN desc BY <1>1, <1>2
<1>5. ASSUME NEW k \in 1 .. j - 1
      PROVE  /\ EntrySize(buf, desc, offset, desc[k]) = desc[k].size
             /\ Taken(buf, desc, n)[k] = desc[k].size
  <2>1. k \in 1 .. Len(desc) /\ desc[k].size \in Nat
    <3>1. k \in 1 .. j BY <1>2, <1>5
    <3>2. k \in DOMAIN desc BY <1>4, <3>1
    <3>3. QED BY <1>1, <3>2 DEF SoundTable
  <2>2. EntrySize(buf, desc, offset, desc[k]) = desc[k].size
    BY <1>3 DEF EntrySize
  <2>3. Entries(buf, desc, n, desc[k]) = 1 BY <1>3 DEF Entries
  <2>4. get_entry_size(buf, desc, desc[k]) = desc[k].size
    BY <2>2 DEF get_entry_size
  <2>5. Taken(buf, desc, n)[k] = desc[k].size * 1
    BY <2>1, <2>3, <2>4 DEF Taken
  <2>6. QED BY <2>1, <2>2, <2>5
<1>6. \A k \in DOMAIN desc :
        offset[k] = IF k = 1 THEN 0
                    ELSE offset[k - 1]
                           + EntrySize(buf, desc, offset, desc[k - 1])
  BY SearchOffsetsAre
<1> HIDE DEF offset
<1>7. 0 \in H
  <2>1. offset[1] = 0 BY <1>2, <1>4, <1>6
  <2>2. QED BY <1>4, <2>1 DEF IsSum
<1>8. ASSUME NEW m \in 0 .. j - 1, m \in H, m < j - 1 PROVE m + 1 \in H
  <2>1. /\ m + 1 \in 1 .. j - 1 /\ m + 1 \in 1 .. Len(desc)
        /\ (m + 1) + 1 \in 1 .. j /\ (m + 1) + 1 # 1
        /\ ((m + 1) + 1) - 1 = m + 1 /\ (m + 1) - 1 = m
    BY <1>1, <1>2, <1>8
  <2>2. offset[(m + 1) + 1] = offset[m + 1] + desc[m + 1].size
    BY <1>4, <1>5, <1>6, <2>1
  <2>3. g[m + 1] = g[m] + desc[m + 1].size BY <1>5, <2>1 DEF IsSum
  <2>4. QED BY <1>8, <2>1, <2>2, <2>3
<1>9. H \in SUBSET (0 .. j - 1) OBVIOUS
<1> HIDE DEF H
<1>10. H = 0 .. j - 1 BY <1>4, <1>7, <1>8, <1>9, Upwards
<1>11. j - 1 \in H /\ (j - 1) + 1 = j BY <1>2, <1>4, <1>10
<1>12. QED BY <1>2, <1>11 DEF H, j, offset

\* The bytes a field takes up, the fields before it lying at `at`.
TrueTaken(buf, desc, n, at, f) ==
  LET of(name) == LET j == Place(desc, name)
                  IN  ValueAt(buf, at[j], desc[j].size)
      rows    == of(f.length_field1)
      entries == IF f.length_field2 = None THEN rows
                 ELSE rows * of(f.length_field2)
      size    == IF f.size_field = None THEN f.size ELSE of(f.size_field)
  IN  size * IF ~ f.array THEN 1
             ELSE IF f.length_field1 = None THEN n
                  ELSE IF f.bits THEN (entries + 7) \div 8 ELSE entries

LEMMA TrueTakenIs ==
  ASSUME NEW buf \in Seq(UINT8), NEW desc, SoundTable(desc),
         NEW n \in Nat, NEW at, NEW i \in DOMAIN desc,
         \A name \in Referred(desc[i]) :
           at[Place(desc, name)] = SearchOffsets(buf, desc)[Place(desc, name)]
  PROVE  TrueTaken(buf, desc, n, at, desc[i]) = Taken(buf, desc, n)[i]
<1> DEFINE f == desc[i]
           Of(name) == ValueAt(buf, at[Place(desc, name)],
                               desc[Place(desc, name)].size)
<1>1. i \in 1 .. Len(desc) BY DEF SoundTable
<1>2. ASSUME NEW name \in Referred(f)
      PROVE  /\ get_value_from_field(buf, desc, name) = Of(name)
             /\ Of(name) \in Nat
             /\ ValueOf(buf, desc, SearchOffsets(buf, desc),
                        Place(desc, name)) = Of(name)
  <2>1. Place(desc, name) # 0 BY ReferredIs
  <2>2. get_value_from_field(buf, desc, name) = Of(name)
    BY <2>1 DEF get_value_from_field, ValueOf
  <2>3. ValueOf(buf, desc, SearchOffsets(buf, desc), Place(desc, name))
          = Of(name)
    BY <2>1 DEF ValueOf
  <2> HIDE DEF Of
  <2>4. QED BY <2>2, <2>3, FieldValueIs
<1> HIDE DEF Of
<1>3. get_entry_size(buf, desc, f)
        = IF f.size_field = None THEN f.size ELSE Of(f.size_field)
  <2>1. f.size_field # None => f.size_field \in Referred(f) BY DEF Referred
  <2>2. QED BY <1>2, <2>1 DEF get_entry_size, EntrySize
<1> DEFINE entries == IF f.length_field2 = None THEN Of(f.length_field1)
                      ELSE Of(f.length_field1) * Of(f.length_field2)
           counted == IF f.bits THEN (entries + 7) \div 8 ELSE entries
<1>4. f.length_field1 # None => StatedEntries(buf, desc, f) = counted
  <2>1. SUFFICES ASSUME f.length_field1 # None
                 PROVE  StatedEntries(buf, desc, f) = counted
    OBVIOUS
  <2>2. f.length_field1 \in Referred(f)
        /\ (f.length_field2 # None => f.length_field2 \in Referred(f))
    BY <2>1 DEF Referred
  <2>3. Of(f.length_field1) * 1 = Of(f.length_field1) BY <1>2, <2>2
  <2>4. entries = get_value_from_field(buf, desc, f.length_field1) *
                    IF f.length_field2 = None THEN 1
                    ELSE get_value_from_field(buf, desc, f.length_field2)
    BY <1>2, <2>2, <2>3
  <2> HIDE DEF entries
  <2>5. QED BY <2>4 DEF StatedEntries, Bytes
<1>5. TrueTaken(buf, desc, n, at, f)
        = (IF f.size_field = None THEN f.size ELSE Of(f.size_field)) *
            IF ~ f.array THEN 1
            ELSE IF f.length_field1 = None THEN n ELSE counted
  BY DEF TrueTaken, Of
<1> HIDE DEF counted
<1>6. Entries(buf, desc, n, f)
        = IF ~ f.array THEN 1
          ELSE IF f.length_field1 = None THEN n ELSE counted
  BY <1>4 DEF Entries
<1>7. QED BY <1>1, <1>3, <1>5, <1>6 DEF Taken

\* The fields lie one behind the other.
LEMMA TrueOffsetsAre ==
  ASSUME NEW buf \in Seq(UINT8), NEW desc, SoundTable(desc),
         FixedPrefix(desc), NEW n \in Nat, NEW g,
         IsSum(g, Taken(buf, desc, n), Len(desc))
  PROVE  \A k \in 0 .. Len(desc) : TrueOffsets(buf, desc, n)[k + 1] = g[k]
<1> DEFINE N == Len(desc)
           Solves(f) ==
             f = [i \in 1 .. Len(desc) + 1 |->
                    IF i = 1 THEN 0
                    ELSE LET d == desc[i - 1]
                             of(name) ==
                               LET j == Place(desc, name)
                               IN  ValueAt(buf, f[j], desc[j].size)
                             rows    == of(d.length_field1)
                             entries == IF d.length_field2 = None THEN rows
                                        ELSE rows * of(d.length_field2)
                             size    == IF d.size_field = None THEN d.size
                                        ELSE of(d.size_field)
                         IN  f[i - 1] +
                               size * IF ~ d.array THEN 1
                                      ELSE IF d.length_field1 = None THEN n
                                           ELSE IF d.bits
                                                THEN (entries + 7) \div 8
                                                ELSE entries]
           at == CHOOSE f : Solves(f)
           uses == Taken(buf, desc, n)
<1>1. DOMAIN desc = 1 .. N /\ N \in Nat BY DEF SoundTable
<1>2. TrueOffsets(buf, desc, n) = at BY DEF TrueOffsets
<1>3. ASSUME NEW f
      PROVE  Solves(f) <=>
               f = [i \in 1 .. N + 1 |->
                      IF i = 1 THEN 0
                      ELSE f[i - 1] + TrueTaken(buf, desc, n, f, desc[i - 1])]
  BY DEF TrueTaken
<1> HIDE DEF N, Solves, at, uses
<1>4. ASSUME NEW f, NEW i \in 1 .. N, \A k \in 0 .. i - 1 : f[k + 1] = g[k]
      PROVE  TrueTaken(buf, desc, n, f, desc[i]) = uses[i]
  <2>1. ASSUME NEW name \in Referred(desc[i])
        PROVE  f[Place(desc, name)]
                 = SearchOffsets(buf, desc)[Place(desc, name)]
    <3> DEFINE j == Place(desc, name)
    <3>1. j \in 1 .. i - 1 /\ SearchOffsets(buf, desc)[j] = g[j - 1]
      BY <1>1, <2>1, SearchedIs DEF N
    <3> HIDE DEF j
    <3>2. j - 1 \in 0 .. i - 1 /\ (j - 1) + 1 = j BY <1>1, <3>1
    <3>3. f[j] = g[j - 1] BY <1>4, <3>2
    <3>4. QED BY <3>1, <3>3 DEF j
  <2>2. QED BY <1>1, <2>1, TrueTakenIs DEF uses
<1>5. g[0] = 0 /\ \A i \in 1 .. N : g[i] = g[i - 1] + uses[i]
  BY DEF IsSum, N, uses
<1>6. \E f : Solves(f)
  <2> DEFINE f == [i \in 1 .. N + 1 |-> g[i - 1]]
  <2>1. \A k \in 0 .. N : k + 1 \in 1 .. N + 1 /\ (k + 1) - 1 = k BY <1>1
  <2>2. \A k \in 0 .. N : f[k + 1] = g[k] BY <2>1
  <2>3. ASSUME NEW i \in 1 .. N + 1
        PROVE  f[i] = IF i = 1 THEN 0
                      ELSE f[i - 1] + TrueTaken(buf, desc, n, f, desc[i - 1])
    <3>1. CASE i = 1 BY <1>1, <1>5, <3>1
    <3>2. CASE i # 1
      <4>1. i - 1 \in 1 .. N /\ f[i] = g[i - 1] /\ f[i - 1] = g[(i - 1) - 1]
        BY <1>1, <3>2
      <4>2. \A k \in 0 .. (i - 1) - 1 : k \in 0 .. N BY <1>1, <4>1
      <4> HIDE DEF f
      <4>3. TrueTaken(buf, desc, n, f, desc[i - 1]) = uses[i - 1]
        BY <1>4, <2>2, <4>1, <4>2
      <4>4. QED BY <1>5, <3>2, <4>1, <4>3
    <3>3. QED BY <3>1, <3>2
  <2>4. f = [i \in 1 .. N + 1 |-> f[i]] OBVIOUS
  <2> HIDE DEF f
  <2>5. f = [i \in 1 .. N + 1 |->
               IF i = 1 THEN 0
               ELSE f[i - 1] + TrueTaken(buf, desc, n, f, desc[i - 1])]
    BY <2>3, <2>4
  <2>6. QED BY <1>3, <2>5
<1>7. at = [i \in 1 .. N + 1 |->
              IF i = 1 THEN 0
              ELSE at[i - 1] + TrueTaken(buf, desc, n, at, desc[i - 1])]
  BY <1>3, <1>6 DEF at
<1> DEFINE H == {m \in 0 .. N : \A k \in 0 .. m : at[k + 1] = g[k]}
<1>8. 0 \in H
  <2>1. at[1] = 0 BY <1>1, <1>7
  <2>2. QED BY <1>1, <1>5, <2>1
<1>9. ASSUME NEW m \in 0 .. N, m \in H, m < N PROVE m + 1 \in H
  <2>1. /\ m + 1 \in 1 .. N /\ (m + 1) - 1 = m /\ m + 1 \in 0 .. N
        /\ (m + 1) + 1 \in 1 .. N + 1 /\ (m + 1) + 1 # 1
        /\ ((m + 1) + 1) - 1 = m + 1
    BY <1>1, <1>9
  <2>2. \A k \in 0 .. m : at[k + 1] = g[k] BY <1>9
  <2>3. TrueTaken(buf, desc, n, at, desc[m + 1]) = uses[m + 1]
    BY <1>4, <2>1, <2>2
  <2>4. at[(m + 1) + 1]
          = at[m + 1] + TrueTaken(buf, desc, n, at, desc[m + 1])
    BY <1>7, <2>1
  <2>5. at[m + 1] = g[m] BY <2>2
  <2>6. at[(m + 1) + 1] = g[m + 1] BY <1>5, <2>1, <2>3, <2>4, <2>5
  <2>7. \A k \in 0 .. m + 1 : k \in 0 .. m \/ k = m + 1 OBVIOUS
  <2>8. QED BY <2>1, <2>2, <2>6, <2>7
<1>10. H \in SUBSET (0 .. N) OBVIOUS
<1>11. H = 0 .. N
  <2> HIDE DEF H
  <2>1. QED BY <1>1, <1>8, <1>9, <1>10, Upwards
<1>12. N \in H BY <1>1, <1>11
<1>13. QED BY <1>2, <1>12 DEF N

\* The array that is inferred adds its entries to what the others take up.
IsInferred(f) == f.array /\ f.length_field1 = None

InferredSize(buf, desc, s) ==
  \/ s = 0 /\ \A k \in DOMAIN desc : ~ IsInferred(desc[k])
  \/ \E k \in DOMAIN desc :
       IsInferred(desc[k]) /\ s = get_entry_size(buf, desc, desc[k])

LEMMA TotalsAre ==
  ASSUME NEW buf \in Seq(UINT8), NEW desc, SoundTable(desc), NEW n \in Nat,
         NEW s \in Nat, InferredSize(buf, desc, s),
         NEW g, IsSum(g, Taken(buf, desc, 0), Len(desc)),
         NEW h, IsSum(h, Taken(buf, desc, n), Len(desc))
  PROVE  h[Len(desc)] = IF \E k \in DOMAIN desc : IsInferred(desc[k])
                        THEN g[Len(desc)] + n * s ELSE g[Len(desc)]
<1> DEFINE N == Len(desc)
           Some(i) == \E k \in 1 .. i : IsInferred(desc[k])
           more == n * s
           H == {i \in 0 .. N : h[i] = IF Some(i) THEN g[i] + more ELSE g[i]}
<1>1. N \in Nat /\ DOMAIN desc = 1 .. N BY DEF SoundTable
<1>2. more \in Nat BY Products
<1>3. ASSUME NEW i \in 1 .. N
      PROVE  /\ Taken(buf, desc, n)[i] = IF IsInferred(desc[i]) THEN more
                                         ELSE Taken(buf, desc, 0)[i]
             /\ IsInferred(desc[i]) => Taken(buf, desc, 0)[i] = 0
             /\ Taken(buf, desc, 0)[i] \in Nat
  <2> DEFINE size == get_entry_size(buf, desc, desc[i])
  <2>1. size \in Nat BY <1>1, FieldSizeIs
  <2>2. /\ Taken(buf, desc, n)[i] = size * Entries(buf, desc, n, desc[i])
        /\ Taken(buf, desc, 0)[i] = size * Entries(buf, desc, 0, desc[i])
    BY DEF Taken
  <2>3. CASE ~ IsInferred(desc[i])
    <3>1. Entries(buf, desc, n, desc[i]) = Entries(buf, desc, 0, desc[i])
      BY <2>3 DEF Entries, IsInferred
    <3>2. Taken(buf, desc, 0) \in [1 .. Len(desc) -> Nat] BY TakenIs
    <3> HIDE DEF size
    <3>3. QED BY <2>2, <2>3, <3>1, <3>2
  <2>4. CASE IsInferred(desc[i])
    <3>1. Entries(buf, desc, n, desc[i]) = n
          /\ Entries(buf, desc, 0, desc[i]) = 0
      BY <2>4 DEF Entries, IsInferred
    <3>2. size = s
      BY <1>1, <2>4 DEF InferredSize, IsInferred, SoundTable
    <3> HIDE DEF size
    <3>3. size * n = n * s /\ size * 0 = 0 BY <2>1, <3>2
    <3>4. QED BY <2>2, <2>4, <3>1, <3>3
  <2>5. QED BY <2>3, <2>4
<1> HIDE DEF more
<1>4. ASSUME NEW i \in 1 .. N
      PROVE  /\ h[i] = h[i - 1] + Taken(buf, desc, n)[i]
             /\ g[i] = g[i - 1] + Taken(buf, desc, 0)[i]
             /\ g[i - 1] \in Nat /\ h[i - 1] \in Nat
  <2>1. i - 1 \in 0 .. N BY <1>1
  <2>2. QED BY <2>1 DEF IsSum
<1>5. 0 \in H
  <2>1. ~ Some(0) OBVIOUS
  <2>2. g[0] = 0 /\ h[0] = 0 BY DEF IsSum
  <2> HIDE DEF Some
  <2>3. QED BY <1>1, <2>1, <2>2
<1>6. ASSUME NEW i \in 0 .. N, i \in H, i < N PROVE i + 1 \in H
  <2>1. i + 1 \in 1 .. N /\ i + 1 \in 0 .. N /\ (i + 1) - 1 = i
    BY <1>1, <1>6
  <2>2. Some(i + 1) <=> Some(i) \/ IsInferred(desc[i + 1])
    <3>1. \A k \in 1 .. i + 1 : k \in 1 .. i \/ k = i + 1 OBVIOUS
    <3>2. \A k \in 1 .. i : k \in 1 .. i + 1 OBVIOUS
    <3>3. i + 1 \in 1 .. i + 1 BY <2>1
    <3>4. QED BY <3>1, <3>2, <3>3
  <2>3. ~ (Some(i) /\ IsInferred(desc[i + 1]))
    <3>1. SUFFICES ASSUME NEW k \in 1 .. i, IsInferred(desc[k]),
                          IsInferred(desc[i + 1])
                   PROVE  FALSE
      OBVIOUS
    <3>2. k \in DOMAIN desc /\ i + 1 \in DOMAIN desc /\ k # i + 1
      BY <1>1, <2>1
    <3>3. QED BY <3>1, <3>2 DEF IsInferred, SoundTable
  <2> HIDE DEF Some
  <2>4. h[i] = IF Some(i) THEN g[i] + more ELSE g[i] BY <1>6
  <2>5. /\ h[i + 1] = h[i] + Taken(buf, desc, n)[i + 1]
        /\ g[i + 1] = g[i] + Taken(buf, desc, 0)[i + 1]
        /\ g[i] \in Nat /\ h[i] \in Nat
    BY <1>4, <2>1
  <2> DEFINE t == Taken(buf, desc, 0)[i + 1]
  <2>6. t \in Nat /\ (IsInferred(desc[i + 1]) => t = 0)
        /\ Taken(buf, desc, n)[i + 1]
             = IF IsInferred(desc[i + 1]) THEN more ELSE t
    BY <1>3, <2>1
  <2> HIDE DEF t
  <2>7. g[i + 1] = g[i] + t BY <2>5 DEF t
  <2>8. h[i + 1] = IF Some(i + 1) THEN g[i + 1] + more ELSE g[i + 1]
    <3>1. CASE IsInferred(desc[i + 1])
      BY <1>2, <2>2, <2>3, <2>4, <2>5, <2>6, <2>7, <3>1
    <3>2. CASE ~ IsInferred(desc[i + 1])
      BY <1>2, <2>2, <2>4, <2>5, <2>6, <2>7, <3>2
    <3>3. QED BY <3>1, <3>2
  <2>9. QED BY <2>1, <2>8
<1>7. H \in SUBSET (0 .. N) OBVIOUS
<1>8. H = 0 .. N
  <2> HIDE DEF H
  <2>1. QED BY <1>1, <1>5, <1>6, <1>7, Upwards
<1>9. N \in H BY <1>1, <1>8
<1>10. QED BY <1>1, <1>9 DEF more

\* As many entries fit as the quotient says.
LEMMA QuotientIs ==
  ASSUME NEW a \in Nat, NEW s \in Nat, s # 0
  PROVE  a \div s \in Nat /\ \A n \in Nat : n <= a \div s <=> n * s <= a
<1> DEFINE q == a \div s
<1>1. q \in Nat /\ q * s <= a /\ a < (q + 1) * s OBVIOUS
<1> HIDE DEF q
<1>2. ASSUME NEW n \in Nat PROVE n <= q <=> n * s <= a
  <2>1. n * s \in Nat /\ q * s \in Nat /\ (q + 1) * s \in Nat
    BY <1>1, Products
  <2>2. CASE n <= q
    <3>1. n * s <= q * s BY <1>1, <2>2, FewerEntries
    <3>2. QED BY <1>1, <2>1, <2>2, <3>1
  <2>3. CASE ~ (n <= q)
    <3>1. q + 1 <= n /\ q + 1 \in Nat BY <1>1, <2>3
    <3>2. (q + 1) * s <= n * s BY <3>1, FewerEntries
    <3>3. QED BY <1>1, <2>1, <2>3, <3>2
  <2>4. QED BY <2>2, <2>3
<1>3. QED BY <1>1, <1>2 DEF q

\* Entries fill the room left if as many as fit do.
LEMMA RoomDecides ==
  ASSUME NEW taken \in Nat, NEW length \in Nat, NEW s \in Nat
  PROVE  taken + EntriesIn(length - taken, s) * s = length
           <=> \E n \in 0 .. length : taken + n * s = length
<1> DEFINE e == EntriesIn(length - taken, s)
<1>1. CASE s = 0
  <2>1. e = 0 /\ e * s = 0 /\ \A n \in Nat : n * s = 0
    BY <1>1 DEF EntriesIn
  <2> HIDE DEF e
  <2>2. 0 \in 0 .. length /\ 0 * s = 0 BY <1>1
  <2>3. QED BY <2>1, <2>2 DEF e
<1>2. CASE s # 0 /\ taken > length
  <2>1. e \in Nat BY EntriesInAre
  <2> HIDE DEF e
  <2>2. e * s \in Nat /\ \A n \in Nat : n * s \in Nat BY <2>1, Products
  <2>3. taken + e * s # length BY <1>2, <2>2
  <2>4. \A n \in 0 .. length : n * s \in Nat BY <2>2
  <2>5. \A n \in 0 .. length : taken + n * s # length BY <1>2, <2>4
  <2>6. QED BY <2>3, <2>5 DEF e
<1>3. CASE s # 0 /\ taken <= length
  <2> DEFINE a == length - taken
  <2>1. a \in Nat /\ a <= length /\ taken + a = length BY <1>3
  <2>2. e = a \div s BY <1>3 DEF EntriesIn
  <2> HIDE DEF a, e
  <2>3. e \in Nat /\ \A n \in Nat : n <= e <=> n * s <= a
    BY <1>3, <2>1, <2>2, QuotientIs
  <2>4. taken + e * s = length => e \in 0 .. length
    <3>1. e * 1 <= e * s BY <1>3, <2>3
    <3>2. e * s \in Nat BY <2>3, Products
    <3>3. QED BY <2>3, <3>1, <3>2
  <2>5. \A n \in 0 .. length : n * s \in Nat BY Products
  <2>6. ASSUME NEW n \in 0 .. length, taken + n * s = length
        PROVE  n \in Nat /\ e = n
    <3>1. n * s = a /\ n \in Nat BY <2>1, <2>5, <2>6
    <3>2. (n + 1) * s = n * s + s OBVIOUS
    <3>3. ~ ((n + 1) * s <= a) BY <1>3, <2>1, <3>1, <3>2
    <3>4. n <= e /\ ~ (n + 1 <= e) BY <2>1, <2>3, <3>1, <3>3
    <3>5. QED BY <2>3, <3>1, <3>4
  <2>7. ASSUME NEW n \in 0 .. length, taken + n * s = length
        PROVE  taken + e * s = length
    <3>1. e = n BY <2>6, <2>7
    <3>2. QED BY <2>7, <3>1
  <2>8. taken + e * s = length
          <=> \E n \in 0 .. length : taken + n * s = length
    BY <2>4, <2>7
  <2>9. QED BY <2>8 DEF e
<1>4. QED BY <1>1, <1>2, <1>3

\* Entries are shown if they fit.
LEMMA DumpEntriesIs ==
  ASSUME NEW buf \in Seq(UINT8), NEW d \in Positions(buf),
         NEW size \in Nat, NEW entries \in Nat
  PROVE  IF d.offset + size * entries <= Len(buf)
         THEN DumpEntries(buf, d, size, entries)
                = [offset |-> d.offset + size * entries, end |-> d.end]
         ELSE DumpEntries(buf, d, size, entries).end = "insufficient"
<1> DEFINE room == IF size = 0 THEN entries
                   ELSE (Len(buf) - d.offset) \div size
           a == Len(buf) - d.offset
<1>1. d.offset \in Nat /\ Len(buf) \in Nat /\ a \in Nat
      /\ d.offset + a = Len(buf)
      /\ d = [offset |-> d.offset, end |-> d.end]
  BY DEF Positions
<1>2. size * entries = entries * size OBVIOUS
<1>3. DumpEntries(buf, d, size, entries)
        = IF entries <= room
          THEN [offset |-> d.offset + size * entries, end |-> d.end]
          ELSE [offset |-> d.offset + room * size, end |-> "insufficient"]
  BY <1>1, <1>2 DEF DumpEntries
<1>4. entries <= room <=> size * entries <= a
  <2>1. CASE size = 0 BY <1>1, <2>1
  <2>2. CASE size # 0
    <3>1. room = a \div size BY <2>2
    <3> HIDE DEF room, a
    <3>2. entries <= a \div size <=> entries * size <= a
      BY <1>1, <2>2, QuotientIs
    <3>3. QED BY <1>2, <3>1, <3>2
  <2>3. QED BY <2>1, <2>2
<1>5. size * entries <= a <=> d.offset + size * entries <= Len(buf)
  <2> DEFINE p == size * entries
  <2>1. p \in Nat BY Products
  <2> HIDE DEF p, a
  <2>2. p <= a <=> d.offset + p <= Len(buf) BY <1>1, <2>1
  <2>3. QED BY <2>2 DEF p
<1> HIDE DEF room, a
<1>6. QED BY <1>3, <1>4, <1>5

\* The fields fill the descriptor if they do so with as many entries in the
\* inferred array as are shown.
EntriesShown(buf, desc, e) ==
  \A k \in DOMAIN desc :
    IsInferred(desc[k]) => e = InferredEntries(buf, desc, desc[k])

LEMMA FillsIs ==
  ASSUME NEW buf \in Seq(UINT8), NEW desc, SoundTable(desc),
         FixedPrefix(desc)
  PROVE  \E e \in Nat :
           /\ EntriesShown(buf, desc, e)
           /\ \A h : IsSum(h, Taken(buf, desc, e), Len(desc)) =>
                (Fills(buf, desc) <=> h[Len(desc)] = Len(buf))
<1> DEFINE N == Len(desc)
           Some == \E k \in DOMAIN desc : IsInferred(desc[k])
<1>1. N \in Nat /\ DOMAIN desc = 1 .. N /\ Len(buf) \in Nat
  BY DEF SoundTable
<1>2. PICK s \in Nat : InferredSize(buf, desc, s)
  <2>1. CASE Some
    <3>1. PICK k \in DOMAIN desc : IsInferred(desc[k]) BY <2>1
    <3>2. get_entry_size(buf, desc, desc[k]) \in Nat BY FieldSizeIs
    <3>3. QED BY <3>1, <3>2 DEF InferredSize
  <2>2. CASE ~ Some BY <2>2 DEF InferredSize
  <2>3. QED BY <2>1, <2>2
<1>3. PICK g : IsSum(g, Taken(buf, desc, 0), N)
  BY <1>1, TakenIs, SumExists
<1> DEFINE taken == g[N]
           e == EntriesIn(Len(buf) - taken, s)
           Total(n) == IF Some THEN taken + n * s ELSE taken
<1>4. taken \in Nat BY <1>1, <1>3 DEF IsSum
<1>5. e \in Nat
  <2>1. Len(buf) - taken \in Int BY <1>1, <1>4
  <2>2. QED BY <2>1, EntriesInAre
<1>6. EntriesShown(buf, desc, e)
  <2>1. SUFFICES ASSUME NEW k \in DOMAIN desc, IsInferred(desc[k])
                 PROVE  e = InferredEntries(buf, desc, desc[k])
    BY DEF EntriesShown
  <2>2. s = get_entry_size(buf, desc, desc[k])
    BY <1>2, <2>1 DEF InferredSize, IsInferred, SoundTable
  <2>3. InferredEntries(buf, desc, desc[k])
          = EntriesIn(Len(buf) - g[N], get_entry_size(buf, desc, desc[k]))
    BY <1>3, <2>1, InferredEntriesAre DEF IsInferred
  <2>4. QED BY <2>2, <2>3
<1>7. ASSUME NEW n \in Nat, NEW h, IsSum(h, Taken(buf, desc, n), N)
      PROVE  h[N] = Total(n)
  BY <1>2, <1>3, <1>7, TotalsAre
<1>8. ASSUME NEW n \in Nat
      PROVE  TrueOffsets(buf, desc, n)[N + 1] = Total(n)
  <2>1. PICK h : IsSum(h, Taken(buf, desc, n), N)
    BY <1>1, TakenIs, SumExists
  <2>2. N \in 0 .. N BY <1>1
  <2>3. TrueOffsets(buf, desc, n)[N + 1] = h[N]
    BY <2>1, <2>2, TrueOffsetsAre
  <2> HIDE DEF Total
  <2>4. QED BY <1>7, <2>1, <2>3
<1>9. Fills(buf, desc) <=> \E n \in 0 .. Len(buf) : Total(n) = Len(buf)
  <2> HIDE DEF Total
  <2>1. \A n \in 0 .. Len(buf) :
          TrueOffsets(buf, desc, n)[Len(desc) + 1] = Total(n)
    BY <1>8
  <2>2. QED BY <2>1 DEF Fills
<1>10. (\E n \in 0 .. Len(buf) : Total(n) = Len(buf)) <=> Total(e) = Len(buf)
  <2>1. taken + e * s = Len(buf)
          <=> \E n \in 0 .. Len(buf) : taken + n * s = Len(buf)
    BY <1>1, <1>4, RoomDecides
  <2> HIDE DEF taken, e
  <2>2. CASE Some BY <2>1, <2>2
  <2>3. CASE ~ Some
    <3>1. 0 \in 0 .. Len(buf) BY <1>1
    <3>2. QED BY <2>3, <3>1
  <2>4. QED BY <2>2, <2>3
<1> HIDE DEF Total, e, N
<1>11. \A h : IsSum(h, Taken(buf, desc, e), N) =>
          (Fills(buf, desc) <=> h[N] = Len(buf))
  BY <1>5, <1>7, <1>9, <1>10
<1>12. QED BY <1>5, <1>6, <1>11 DEF N

\* Where a dump is after i fields: g are the bytes they take up.
Reached(buf, g, i, d) ==
  IF g[i] <= Len(buf) THEN d = [offset |-> g[i], end |-> "running"]
                      ELSE d.end = "insufficient"

\* A field is shown if it fits.
LEMMA DumpFieldIs ==
  ASSUME NEW buf \in Seq(UINT8), NEW desc, SoundTable(desc),
         NEW e \in Nat, EntriesShown(buf, desc, e),
         NEW g, IsSum(g, Taken(buf, desc, e), Len(desc)),
         NEW i \in 1 .. Len(desc), NEW d \in Positions(buf),
         Reached(buf, g, i - 1, d)
  PROVE  Reached(buf, g, i, IF d.end = "running"
                            THEN DumpField(buf, desc, d, desc[i]) ELSE d)
<1> DEFINE f == desc[i]
           size == get_entry_size(buf, desc, f)
           entries == Entries(buf, desc, e, f)
<1>1. i \in DOMAIN desc BY DEF SoundTable
<1>2. size \in Nat /\ entries \in Nat BY <1>1, FieldSizeIs, TakenIs
<1>3. /\ g[i] = g[i - 1] + size * entries
      /\ g[i - 1] \in Nat /\ Len(buf) \in Nat
  <2>1. Taken(buf, desc, e)[i] = size * entries BY DEF Taken
  <2>2. Len(desc) \in Nat BY DEF SoundTable
  <2>3. i - 1 \in 0 .. Len(desc) BY <2>2
  <2> HIDE DEF size, entries
  <2>4. QED BY <2>1, <2>3 DEF IsSum
<1>4. DumpField(buf, desc, d, f) = DumpEntries(buf, d, size, entries)
  BY <1>1 DEF DumpField, Entries, get_array_entry_count, EntriesShown,
              IsInferred
<1> HIDE DEF f, size, entries
<1>5. size * entries \in Nat BY <1>2, Products
<1>6. CASE g[i - 1] <= Len(buf)
  <2>1. d = [offset |-> g[i - 1], end |-> "running"] BY <1>6 DEF Reached
  <2>2. d.end = "running" /\ d.offset = g[i - 1] BY <2>1
  <2>3. IF g[i] <= Len(buf)
        THEN DumpEntries(buf, d, size, entries)
               = [offset |-> g[i], end |-> "running"]
        ELSE DumpEntries(buf, d, size, entries).end = "insufficient"
    <3>1. d.offset + size * entries = g[i] BY <1>3, <2>2
    <3>2. IF d.offset + size * entries <= Len(buf)
          THEN DumpEntries(buf, d, size, entries)
                 = [offset |-> d.offset + size * entries, end |-> d.end]
          ELSE DumpEntries(buf, d, size, entries).end = "insufficient"
      BY <1>2, DumpEntriesIs, Zenon
    <3>3. QED BY <2>2, <3>1, <3>2, Zenon
  <2>4. QED BY <1>4, <2>2, <2>3 DEF Reached, f
<1>7. CASE ~ (g[i - 1] <= Len(buf))
  <2>1. d.end = "insufficient" BY <1>7 DEF Reached
  <2>2. ~ (g[i] <= Len(buf)) BY <1>3, <1>5, <1>7
  <2>3. QED BY <2>1, <2>2 DEF Reached
<1>8. QED BY <1>6, <1>7

\* All bytes are shown, and none was missing.
ShowsAll(buf, d) == d.end # "insufficient" /\ d.offset = Len(buf)

LEMMA FinishIs ==
  ASSUME NEW buf \in Seq(UINT8), NEW g, NEW i, g[i] \in Nat, NEW d,
         Reached(buf, g, i, d)
  PROVE  ShowsAll(buf, Finish(buf, d)) <=> g[i] = Len(buf)
<1>1. Len(buf) \in Nat OBVIOUS
<1>2. CASE g[i] <= Len(buf)
  <2>1. d = [offset |-> g[i], end |-> "running"] BY <1>2 DEF Reached
  <2>2. Finish(buf, d)
          = [offset |-> g[i],
             end |-> IF g[i] < Len(buf) THEN "junk" ELSE "whole"]
    BY <2>1 DEF Finish
  <2>3. QED BY <2>2 DEF ShowsAll
<1>3. CASE ~ (g[i] <= Len(buf))
  <2>1. d.end = "insufficient" BY <1>3 DEF Reached
  <2>2. Finish(buf, d) = d BY <2>1 DEF Finish
  <2>3. g[i] # Len(buf) BY <1>1, <1>3
  <2>4. QED BY <2>1, <2>2, <2>3 DEF ShowsAll
<1>4. QED BY <1>2, <1>3

\* The fields of a table are shown as far as they fit.
LEMMA FieldsReach ==
  ASSUME NEW buf \in Seq(UINT8), NEW desc, SoundTable(desc),
         NEW e \in Nat, EntriesShown(buf, desc, e),
         NEW g, IsSum(g, Taken(buf, desc, e), Len(desc)),
         NEW m \in 0 .. Len(desc), NEW upto, upto[0] = Begin,
         \A i \in 1 .. m :
           /\ upto[i - 1] \in Positions(buf)
           /\ upto[i] = IF upto[i - 1].end = "running"
                        THEN DumpField(buf, desc, upto[i - 1], desc[i])
                        ELSE upto[i - 1]
  PROVE  Reached(buf, g, m, upto[m])
<1> DEFINE H == {i \in 0 .. m : Reached(buf, g, i, upto[i])}
<1>1. m \in Nat /\ m <= Len(desc) /\ Len(desc) \in Nat BY DEF SoundTable
<1>2. 0 \in H
  <2>1. g[0] = 0 /\ Len(buf) >= 0 BY DEF IsSum
  <2>2. QED BY <1>1, <2>1 DEF Reached, Begin
<1>3. ASSUME NEW i \in 0 .. m, i \in H, i < m PROVE i + 1 \in H
  <2>1. /\ i + 1 \in 1 .. m /\ i + 1 \in 0 .. m /\ (i + 1) - 1 = i
        /\ i + 1 \in 1 .. Len(desc)
    BY <1>1, <1>3
  <2>2. Reached(buf, g, (i + 1) - 1, upto[i]) BY <1>3, <2>1
  <2>3. upto[i] \in Positions(buf) BY <2>1
  <2>4. upto[i + 1] = IF upto[i].end = "running"
                      THEN DumpField(buf, desc, upto[i], desc[i + 1])
                      ELSE upto[i]
    BY <2>1
  <2>5. Reached(buf, g, i + 1, upto[i + 1])
    BY <2>1, <2>2, <2>3, <2>4, DumpFieldIs
  <2>6. QED BY <2>1, <2>5
<1>4. H \in SUBSET (0 .. m) OBVIOUS
<1> HIDE DEF H
<1>5. H = 0 .. m BY <1>1, <1>2, <1>3, <1>4, Upwards
<1>6. QED BY <1>1, <1>5 DEF H

\* A table without extension shows all of a descriptor if its fields fill it.
LEMMA PlainDumpShowsAll ==
  ASSUME NEW buf \in Seq(UINT8), NEW desc, SoundTable(desc),
         FixedPrefix(desc)
  PROVE  ShowsAll(buf, PlainDump(buf, desc)) <=> Fills(buf, desc)
<1> DEFINE N == Len(desc)
<1>1. N \in Nat /\ DOMAIN desc = 1 .. N BY DEF SoundTable
<1>2. PICK e \in Nat :
        /\ EntriesShown(buf, desc, e)
        /\ \A h : IsSum(h, Taken(buf, desc, e), N) =>
             (Fills(buf, desc) <=> h[N] = Len(buf))
  BY FillsIs
<1>3. PICK g : IsSum(g, Taken(buf, desc, e), N)
  BY <1>1, TakenIs, SumExists
<1>4. PICK upto \in [0 .. N -> Positions(buf)] :
        /\ IsUp(upto, Begin, PlainStep(buf, desc), N)
        /\ PlainDump(buf, desc) = Finish(buf, upto[N])
  BY PlainDumpGoesOn
<1>5. ASSUME NEW i \in 1 .. N
      PROVE  /\ upto[i - 1] \in Positions(buf)
             /\ upto[i] = IF upto[i - 1].end = "running"
                          THEN DumpField(buf, desc, upto[i - 1], desc[i])
                          ELSE upto[i - 1]
  <2>1. i - 1 \in 0 .. N BY <1>1
  <2>2. upto[i - 1] \in Positions(buf) BY <1>4, <2>1
  <2>3. upto[i] = PlainStep(buf, desc)[<<i, upto[i - 1]>>]
    BY <1>4 DEF IsUp
  <2>4. QED BY <2>2, <2>3 DEF PlainStep
<1>6. upto[0] = Begin BY <1>4 DEF IsUp
<1>7. N \in 0 .. N /\ g[N] \in Nat BY <1>1, <1>3 DEF IsSum
<1>8. Reached(buf, g, N, upto[N])
  BY <1>2, <1>3, <1>5, <1>6, <1>7, FieldsReach
<1>9. QED BY <1>2, <1>3, <1>4, <1>7, <1>8, FinishIs

\* Finish() only names the end.
LEMMA FinishShows ==
  ASSUME NEW buf, NEW d \in Positions(buf)
  PROVE  ShowsAll(buf, Finish(buf, d)) <=> ShowsAll(buf, d)
BY DEF ShowsAll, Finish, Positions

\* An extension shows all if what is left is a descriptor its table fills.
LEMMA DumpExtensionIs ==
  ASSUME NEW buf \in Seq(UINT8), NEW desc, SoundTables(desc),
         NEW i \in DOMAIN desc, desc[i].type_field # None,
         NEW d \in Positions(buf), NEW type,
         type = get_value_from_field(buf, desc, desc[i].type_field)
  PROVE  ShowsAll(buf, DumpExtension(buf, desc, d, desc[i])) <=>
           /\ d.offset < Len(buf) /\ type \in DOMAIN desc[i].extension
           /\ Fills(SubSeq(buf, d.offset + 1, Len(buf)),
                    desc[i].extension[type])
<1> DEFINE rest == SubSeq(buf, d.offset + 1, Len(buf))
           table == ExtensionTable(desc[i], type)
           plain == PlainDump(rest, table)
<1>1. /\ d.offset \in Nat /\ Len(buf) \in Nat /\ d.offset <= Len(buf)
      /\ d = [offset |-> d.offset, end |-> d.end]
  BY DEF Positions
<1>2. rest \in Seq(UINT8) /\ Len(rest) = Len(buf) - d.offset BY <1>1
<1>3. desc[i].size = 1 BY DEF SoundTables
<1>4. CASE ~ (d.offset < Len(buf))
  <2>1. d.offset + 1 > Len(buf) BY <1>1, <1>4
  <2>2. DumpExtension(buf, desc, d, desc[i]).end = "insufficient"
    BY <1>1, <1>3, <2>1 DEF DumpExtension
  <2>3. QED BY <1>4, <2>2 DEF ShowsAll
<1>5. CASE d.offset < Len(buf)
  <2>1. ~ (d.offset + 1 > Len(buf)) BY <1>1, <1>5
  <2>2. DumpExtension(buf, desc, d, desc[i])
          = [plain EXCEPT !.offset = @ + d.offset]
    BY <1>3, <2>1 DEF DumpExtension
  <2>3. SoundTable(table) /\ FixedPrefix(table)
    <3>1. SoundTable(desc_undefined) /\ FixedPrefix(desc_undefined)
      BY DEF SoundTable, FixedPrefix, desc_undefined
    <3>2. type \in DOMAIN desc[i].extension =>
            /\ SoundTable(desc[i].extension[type])
            /\ FixedPrefix(desc[i].extension[type])
      BY DEF SoundTables
    <3>3. QED BY <3>1, <3>2 DEF ExtensionTable
  <2> HIDE DEF rest, table
  <2>4. plain \in Positions(rest) BY <1>2, <2>3, PlainDumpWithin
  <2>5. ShowsAll(rest, plain) <=> Fills(rest, table)
    BY <1>2, <2>3, PlainDumpShowsAll
  <2> HIDE DEF plain
  <2>6. plain = [offset |-> plain.offset, end |-> plain.end]
        /\ plain.offset \in Nat
    BY <1>2, <2>4 DEF Positions
  <2>7. DumpExtension(buf, desc, d, desc[i])
          = [offset |-> plain.offset + d.offset, end |-> plain.end]
    BY <2>2, <2>6
  <2>8. plain.offset + d.offset = Len(buf) <=> plain.offset = Len(rest)
    BY <1>1, <1>2, <2>6
  <2>9. ShowsAll(buf, DumpExtension(buf, desc, d, desc[i]))
          <=> ShowsAll(rest, plain)
    BY <2>7, <2>8 DEF ShowsAll
  <2>10. CASE type \in DOMAIN desc[i].extension
    <3>1. table = desc[i].extension[type]
      BY <2>10 DEF table, ExtensionTable
    <3>2. QED BY <1>5, <2>5, <2>9, <2>10, <3>1 DEF rest
  <2>11. CASE type \notin DOMAIN desc[i].extension
    <3>1. table = <<>>
      BY <2>11 DEF table, ExtensionTable, desc_undefined
    <3>2. PICK e \in Nat :
            \A h : IsSum(h, Taken(rest, table, e), Len(table)) =>
              (Fills(rest, table) <=> h[Len(table)] = Len(rest))
      BY <1>2, <2>3, FillsIs
    <3>3. Len(table) = 0 BY <3>1
    <3>4. PICK h : IsSum(h, Taken(rest, table, e), Len(table))
      <4>1. Taken(rest, table, e) \in [1 .. Len(table) -> Nat]
        BY <1>2, <2>3, TakenIs
      <4>2. Len(table) \in Nat BY <3>3
      <4>3. QED BY <4>1, <4>2, SumExists
    <3>5. h[Len(table)] = 0 BY <3>3, <3>4 DEF IsSum
    <3>6. Len(rest) # 0 BY <1>1, <1>2, <1>5
    <3>7. ~ Fills(rest, table) BY <3>2, <3>4, <3>5, <3>6
    <3>8. QED BY <2>5, <2>9, <2>11, <3>7
  <2>12. QED BY <2>10, <2>11
<1>6. QED BY <1>4, <1>5

\* desc_dump() shows all bytes of a descriptor, without complaint, exactly if
\* it is well-formed.
THEOREM DescDumpShowsAll ==
  ASSUME NEW buf \in Seq(UINT8), NEW desc, SoundTables(desc),
         FixedPrefix(desc)
  PROVE  ShowsAll(buf, desc_dump(buf, desc)) <=> WellFormed(buf, desc)
<1> DEFINE N == Len(desc)
<1>1. SoundTable(desc) BY DEF SoundTables
<1>2. N \in Nat /\ DOMAIN desc = 1 .. N BY <1>1 DEF SoundTable
<1>3. PICK upto \in [0 .. N -> Positions(buf)] :
        /\ IsUp(upto, Begin, DescStep(buf, desc), N)
        /\ desc_dump(buf, desc) = Finish(buf, upto[N])
  BY DescDumpGoesOn
<1>4. upto[0] = Begin BY <1>3 DEF IsUp
<1>5. ASSUME NEW i \in 1 .. N
      PROVE  /\ upto[i - 1] \in Positions(buf)
             /\ upto[i] = IF upto[i - 1].end # "running" THEN upto[i - 1]
                          ELSE IF desc[i].type_field = None
                          THEN DumpField(buf, desc, upto[i - 1], desc[i])
                          ELSE DumpExtension(buf, desc, upto[i - 1], desc[i])
  <2>1. i - 1 \in 0 .. N BY <1>2
  <2>2. upto[i - 1] \in Positions(buf) BY <1>3, <2>1
  <2>3. upto[i] = DescStep(buf, desc)[<<i, upto[i - 1]>>]
    BY <1>3 DEF IsUp
  <2>4. QED BY <2>2, <2>3 DEF DescStep
<1>6. ASSUME NEW i \in 1 .. N, desc[i].type_field = None
      PROVE  /\ upto[i - 1] \in Positions(buf)
             /\ upto[i] = IF upto[i - 1].end = "running"
                          THEN DumpField(buf, desc, upto[i - 1], desc[i])
                          ELSE upto[i - 1]
  BY <1>5, <1>6
<1>7. \A i \in 1 .. N : desc[i].type_field # None => i = N
  BY <1>1, <1>2 DEF SoundTable
<1>8. CASE N = 0 \/ desc[N].type_field = None
  <2>1. \A i \in 1 .. N : desc[i].type_field = None BY <1>7, <1>8
  <2>2. PICK e \in Nat :
          /\ EntriesShown(buf, desc, e)
          /\ \A h : IsSum(h, Taken(buf, desc, e), N) =>
               (Fills(buf, desc) <=> h[N] = Len(buf))
    BY <1>1, FillsIs
  <2>3. PICK g : IsSum(g, Taken(buf, desc, e), N)
    BY <1>1, <1>2, TakenIs, SumExists
  <2>4. N \in 0 .. N /\ g[N] \in Nat BY <1>2, <2>3 DEF IsSum
  <2>5. Reached(buf, g, N, upto[N])
    BY <1>1, <1>4, <1>6, <2>1, <2>2, <2>3, <2>4, FieldsReach
  <2>6. WellFormed(buf, desc) <=> Fills(buf, desc)
    BY <1>8 DEF WellFormed
  <2>7. QED BY <1>3, <2>2, <2>3, <2>4, <2>5, <2>6, FinishIs
<1>9. CASE N # 0 /\ desc[N].type_field # None
  <2> DEFINE f == desc[N]
             type == get_value_from_field(buf, desc, f.type_field)
             d == upto[N - 1]
  <2>1. N \in DOMAIN desc /\ N - 1 \in 0 .. N /\ (N - 1) + 1 = N
    BY <1>2, <1>9
  <2>2. EntriesShown(buf, desc, 0)
    BY <1>9, <2>1 DEF EntriesShown, IsInferred, SoundTables
  <2>3. PICK g : IsSum(g, Taken(buf, desc, 0), N)
    BY <1>1, <1>2, TakenIs, SumExists
  <2>4. g[N - 1] \in Nat BY <2>1, <2>3 DEF IsSum
  <2>5. ASSUME NEW i \in 1 .. N - 1
        PROVE  i \in 1 .. N /\ desc[i].type_field = None
    <3>1. \A m \in Nat : \A k \in 1 .. m - 1 : k \in 1 .. m /\ k # m
      OBVIOUS
    <3>2. i \in 1 .. N /\ i # N BY <1>2, <2>5, <3>1, Zenon
    <3>3. QED BY <1>7, <3>2
  <2>6. Reached(buf, g, N - 1, d)
    BY <1>1, <1>4, <1>6, <2>1, <2>2, <2>3, <2>5, FieldsReach
  <2>7. \A k \in 0 .. N : TrueOffsets(buf, desc, 0)[k + 1] = g[k]
    BY <1>1, <2>3, TrueOffsetsAre
  <2>8. TrueOffsets(buf, desc, 0)[N] = g[N - 1] BY <2>1, <2>7
  <2>9. type = ValueAt(buf, TrueOffsets(buf, desc, 0)
                              [Place(desc, f.type_field)], 2)
    <3> DEFINE j == Place(desc, f.type_field)
    <3>1. f.type_field \in Referred(f) BY <1>9 DEF Referred
    <3>2. j \in 1 .. N - 1 /\ SearchOffsets(buf, desc)[j] = g[j - 1]
      BY <1>1, <2>1, <2>3, <3>1, SearchedIs
    <3>3. desc[j].size = 2 BY <1>1, <2>1, <3>1 DEF SoundTable
    <3> HIDE DEF j
    <3>4. j - 1 \in 0 .. N /\ (j - 1) + 1 = j /\ j # 0 BY <1>2, <3>2
    <3>5. TrueOffsets(buf, desc, 0)[j] = g[j - 1] BY <2>7, <3>4
    <3>6. type = ValueAt(buf, SearchOffsets(buf, desc)[j], desc[j].size)
      BY <3>4 DEF get_value_from_field, ValueOf, j
    <3>7. QED BY <3>2, <3>3, <3>5, <3>6 DEF j
  <2> HIDE DEF type
  <2>10. WellFormed(buf, desc) <=>
           /\ g[N - 1] < Len(buf) /\ type \in DOMAIN f.extension
           /\ Fills(SubSeq(buf, g[N - 1] + 1, Len(buf)), f.extension[type])
    BY <1>9, <2>8, <2>9 DEF WellFormed
  <2>11. /\ d \in Positions(buf) /\ upto[N] \in Positions(buf)
         /\ upto[N] = IF d.end # "running" THEN d
                      ELSE DumpExtension(buf, desc, d, f)
    BY <1>2, <1>3, <1>5, <1>9, <2>1
  <2>12. ShowsAll(buf, desc_dump(buf, desc)) <=> ShowsAll(buf, upto[N])
    BY <1>3, <2>11, FinishShows
  <2> HIDE DEF d
  <2>13. CASE g[N - 1] <= Len(buf)
    <3>1. d.end = "running" /\ d.offset = g[N - 1]
      BY <2>6, <2>13 DEF Reached
    <3>2. upto[N] = DumpExtension(buf, desc, d, f) BY <2>11, <3>1
    <3>3. ShowsAll(buf, DumpExtension(buf, desc, d, f)) <=>
            /\ d.offset < Len(buf) /\ type \in DOMAIN f.extension
            /\ Fills(SubSeq(buf, d.offset + 1, Len(buf)), f.extension[type])
      BY <1>9, <2>1, <2>11, DumpExtensionIs DEF type
    <3>4. QED BY <2>10, <2>12, <3>1, <3>2, <3>3
  <2>14. CASE ~ (g[N - 1] <= Len(buf))
    <3>1. d.end = "insufficient" BY <2>6, <2>14 DEF Reached
    <3>2. ~ ShowsAll(buf, upto[N]) BY <2>11, <3>1 DEF ShowsAll
    <3>3. ~ (g[N - 1] < Len(buf)) BY <2>4, <2>14
    <3>4. QED BY <2>10, <2>12, <3>2, <3>3
  <2>15. QED BY <2>13, <2>14
<1>10. QED BY <1>8, <1>9

-----------------------------------------------------------------------------
(* Every dump stays within the descriptor                                  *)

ByItself(buf, dump) ==
  /\ dump = Dumped(dump.as, dump.end, dump.reads, dump.raw)
  /\ dump.end # "table" /\ dump.reads <= Len(buf)

ByATable(buf, dump) ==
  /\ dump = Tabled(dump.as, dump.desc, dump.skip)
  /\ dump.skip \in 0 .. Len(buf) /\ SoundTables(dump.desc)

StaysWithin(buf, dump) == ByItself(buf, dump) \/ ByATable(buf, dump)

\* A dump known to stay within does so when it is completed by its table.
LEMMA CompletedWithin ==
  ASSUME NEW buf \in Seq(UINT8), NEW dump, StaysWithin(buf, dump)
  PROVE  /\ Completed(buf, dump).reads <= Len(buf)
         /\ Completed(buf, dump).as = dump.as
         /\ ByItself(buf, dump) => Completed(buf, dump) = dump
<1>1. ByItself(buf, dump) => Completed(buf, dump) = dump
  BY DEF ByItself, Completed
<1>2. CASE ByItself(buf, dump) BY <1>1, <1>2 DEF ByItself
<1>3. CASE ByATable(buf, dump)
  <2> DEFINE rest == SubSeq(buf, dump.skip + 1, Len(buf))
             d == desc_dump(rest, dump.desc)
  <2>1. dump.skip \in Nat /\ dump.skip <= Len(buf) /\ Len(buf) \in Nat
    BY <1>3 DEF ByATable
  <2>2. rest \in Seq(UINT8) /\ Len(rest) = Len(buf) - dump.skip BY <2>1
  <2> HIDE DEF rest
  <2>3. d \in Positions(rest)
    BY <1>3, <2>2, DescDumpWithin DEF ByATable
  <2>4. d.offset \in Nat /\ d.offset <= Len(rest)
    BY <2>2, <2>3 DEF Positions
  <2> DEFINE t == Tabled(dump.as, dump.desc, dump.skip)
  <2>5. dump = t /\ t.end = "table" /\ t.reads = dump.skip /\ t.as = dump.as
    BY <1>3 DEF ByATable, Tabled
  <2>6. Completed(buf, t) = ByTable(t, d)
    BY <2>5 DEF Completed, rest, Tabled
  <2> HIDE DEF d
  <2>7. ByTable(t, d).reads = dump.skip + d.offset /\ ByTable(t, d).as = dump.as
    BY <2>5 DEF ByTable, Tabled
  <2> HIDE DEF t
  <2>8. Completed(buf, dump) = ByTable(t, d) BY <2>5, <2>6
  <2>9. dump.skip + d.offset <= Len(buf) BY <2>1, <2>2, <2>4
  <2>10. QED BY <1>1, <2>7, <2>8, <2>9
<1>4. QED BY <1>2, <1>3 DEF StaysWithin

\* A dump that requires lengths reaches no further than it requires: where one
\* of them fails it has looked at what the one before it required.
LEMMA CheckedWithin ==
  ASSUME NEW buf \in Seq(UINT8), Len(buf) >= 2, NEW as, NEW n \in Nat,
         NEW needs, DOMAIN needs = 1 .. n, \A i \in 1 .. n : needs[i] \in Int,
         NEW reads, NEW junk,
         (\A i \in 1 .. n : needs[i] <= Len(buf)) => reads <= Len(buf)
  PROVE  /\ ByItself(buf, Checked(buf, as, needs, reads, junk))
         /\ Checked(buf, as, needs, reads, junk).as = as
         /\ Checked(buf, as, needs, reads, junk).end \in {"fields", "short"}
<1> DEFINE failed == {i \in DOMAIN needs : Len(buf) < needs[i]}
           raw == IF junk < Len(buf) THEN junk ELSE Len(buf)
           seen == IF Min(failed) = 1 THEN 2 ELSE needs[Min(failed) - 1]
<1>1. CASE failed = {}
  <2>1. \A i \in 1 .. n : needs[i] <= Len(buf) BY <1>1
  <2>2. Checked(buf, as, needs, reads, junk) = Dumped(as, "fields", reads, raw)
    BY <1>1 DEF Checked
  <2> HIDE DEF failed, raw
  <2>3. QED BY <2>1, <2>2 DEF Dumped, ByItself
<1>2. CASE failed # {}
  <2>1. Checked(buf, as, needs, reads, junk)
          = Dumped(as, "short", seen, Len(buf))
    BY <1>2 DEF Checked
  <2>2. Min(failed) \in failed /\ \A i \in failed : Min(failed) <= i
    <3>1. failed \subseteq Nat OBVIOUS
    <3> HIDE DEF failed
    <3>2. \E i \in failed : \A m \in failed : i <= m BY <1>2, <3>1, Least
    <3>3. QED BY <3>2 DEF Min
  <2>3. seen <= Len(buf)
    <3> DEFINE m == Min(failed)
    <3>1. m \in 1 .. n /\ \A i \in 1 .. n : Len(buf) < needs[i] => m <= i
      BY <2>2
    <3> HIDE DEF m, failed
    <3>2. CASE m = 1 BY <3>2 DEF m
    <3>3. CASE m # 1
      <4>1. m - 1 \in 1 .. n /\ ~ (m <= m - 1) BY <3>1, <3>3
      <4>2. ~ (Len(buf) < needs[m - 1]) BY <3>1, <4>1
      <4>3. needs[m - 1] \in Int /\ Len(buf) \in Int BY <4>1
      <4>4. needs[m - 1] <= Len(buf) BY <4>2, <4>3
      <4>5. QED BY <3>3, <4>4 DEF m
    <3>4. QED BY <3>2, <3>3
  <2> HIDE DEF failed, seen
  <2>4. QED BY <2>1, <2>3 DEF Dumped, ByItself
<1>3. QED BY <1>1, <1>2

\* A check, or several, that hold where the fields are read.
LEMMA OneCheck ==
  ASSUME NEW buf \in Seq(UINT8), Len(buf) >= 2, NEW as, NEW a \in Int,
         NEW reads, NEW junk, a <= Len(buf) => reads <= Len(buf)
  PROVE  /\ ByItself(buf, Checked(buf, as, <<a>>, reads, junk))
         /\ Checked(buf, as, <<a>>, reads, junk).end \in {"fields", "short"}
<1>1. DOMAIN <<a>> = 1 .. 1 /\ 1 \in Nat OBVIOUS
<1>2. \A i \in 1 .. 1 : <<a>>[i] = a OBVIOUS
<1> DEFINE needs == <<a>>
<1>3. DOMAIN needs = 1 .. 1 /\ (\A i \in 1 .. 1 : needs[i] \in Int)
      /\ ((\A i \in 1 .. 1 : needs[i] <= Len(buf)) => reads <= Len(buf))
  BY <1>1, <1>2
<1> HIDE DEF needs
<1>4. /\ ByItself(buf, Checked(buf, as, needs, reads, junk))
      /\ Checked(buf, as, needs, reads, junk).end \in {"fields", "short"}
  BY <1>1, <1>3, CheckedWithin
<1>5. QED BY <1>4 DEF needs

LEMMA TwoChecks ==
  ASSUME NEW buf \in Seq(UINT8), Len(buf) >= 2, NEW as, NEW a \in Int,
         NEW b \in Int, NEW reads, NEW junk,
         a <= Len(buf) /\ b <= Len(buf) => reads <= Len(buf)
  PROVE  /\ ByItself(buf, Checked(buf, as, <<a, b>>, reads, junk))
         /\ Checked(buf, as, <<a, b>>, reads, junk).as = as
<1> DEFINE needs == <<a, b>>
<1>1. DOMAIN needs = 1 .. 2 /\ needs[1] = a /\ needs[2] = b OBVIOUS
<1>2. 1 \in 1 .. 2 /\ 2 \in 1 .. 2 /\ 2 \in Nat
      /\ \A i \in 1 .. 2 : i = 1 \/ i = 2
  OBVIOUS
<1> HIDE DEF needs
<1>3. /\ \A i \in 1 .. 2 : needs[i] \in Int
      /\ (\A i \in 1 .. 2 : needs[i] <= Len(buf)) => reads <= Len(buf)
  BY <1>1, <1>2
<1>4. ByItself(buf, Checked(buf, as, needs, reads, junk))
  BY <1>1, <1>2, <1>3, CheckedWithin
<1>5. Checked(buf, as, needs, reads, junk).as = as
  BY DEF Checked, Dumped
<1>6. QED BY <1>4, <1>5 DEF needs

LEMMA ThreeChecks ==
  ASSUME NEW buf \in Seq(UINT8), Len(buf) >= 2, NEW as, NEW a \in Int,
         NEW b \in Int, NEW c \in Int, NEW reads, NEW junk,
         a <= Len(buf) /\ b <= Len(buf) /\ c <= Len(buf)
           => reads <= Len(buf)
  PROVE  ByItself(buf, Checked(buf, as, <<a, b, c>>, reads, junk))
<1> DEFINE needs == <<a, b, c>>
<1>1. DOMAIN needs = 1 .. 3 /\ needs[1] = a /\ needs[2] = b /\ needs[3] = c
  OBVIOUS
<1>2. 1 \in 1 .. 3 /\ 2 \in 1 .. 3 /\ 3 \in 1 .. 3 /\ 3 \in Nat
      /\ \A i \in 1 .. 3 : i = 1 \/ i = 2 \/ i = 3
  OBVIOUS
<1> HIDE DEF needs
<1>3. /\ \A i \in 1 .. 3 : needs[i] \in Int
      /\ (\A i \in 1 .. 3 : needs[i] <= Len(buf)) => reads <= Len(buf)
  BY <1>1, <1>2
<1>4. ByItself(buf, Checked(buf, as, needs, reads, junk))
  BY <1>1, <1>2, <1>3, CheckedWithin
<1>5. QED BY <1>4 DEF needs

LEMMA FourChecks ==
  ASSUME NEW buf \in Seq(UINT8), Len(buf) >= 2, NEW as, NEW a \in Int,
         NEW b \in Int, NEW c \in Int, NEW d \in Int, NEW reads, NEW junk,
         d <= Len(buf) => reads <= Len(buf)
  PROVE  ByItself(buf, Checked(buf, as, <<a, b, c, d>>, reads, junk))
<1> DEFINE needs == <<a, b, c, d>>
<1>1. DOMAIN needs = 1 .. 4
      /\ needs[1] = a /\ needs[2] = b /\ needs[3] = c /\ needs[4] = d
  OBVIOUS
<1>2. 4 \in 1 .. 4 /\ 4 \in Nat
      /\ \A i \in 1 .. 4 : i = 1 \/ i = 2 \/ i = 3 \/ i = 4
  OBVIOUS
<1> HIDE DEF needs
<1>3. /\ \A i \in 1 .. 4 : needs[i] \in Int
      /\ (\A i \in 1 .. 4 : needs[i] <= Len(buf)) => reads <= Len(buf)
  BY <1>1, <1>2
<1>4. ByItself(buf, Checked(buf, as, needs, reads, junk))
  BY <1>1, <1>2, <1>3, CheckedWithin
<1>5. QED BY <1>4 DEF needs

\* Descriptors of fixed length and those that are not recognised.
LEMMA FixedWithin ==
  ASSUME NEW buf \in Seq(UINT8), Len(buf) >= 2, NEW as, NEW need \in Int
  PROVE  ByItself(buf, Fixed(buf, as, need))
BY OneCheck DEF Fixed

LEMMA RawWithin ==
  ASSUME NEW buf \in Seq(UINT8), Len(buf) >= 2, NEW as, NEW from
  PROVE  ByItself(buf, Raw(buf, as, from)) /\ ByItself(buf, Hidden(buf, as))
BY DEF ByItself, Raw, Hidden, Dumped

\* A byte of a descriptor, and what one that is not 0 tells of the length.
LEMMA ByteIs ==
  ASSUME NEW buf \in Seq(UINT8), NEW i \in Nat
  PROVE  Byte(buf, i) \in UINT8 /\ Byte(buf, i) \in Nat
<1>1. 0 \in UINT8 BY DEF UINT8
<1>2. i < Len(buf) => i + 1 \in 1 .. Len(buf) OBVIOUS
<1>3. i < Len(buf) => buf[i + 1] \in UINT8 BY <1>2, ElementOfSeq
<1>4. QED BY <1>1, <1>3, BytesAreNumbers DEF Byte

LEMMA BytesAt ==
  ASSUME NEW buf \in Seq(UINT8)
  PROVE  \A i \in Nat : Byte(buf, i) \in Nat
                        /\ (Byte(buf, i) # 0 => Len(buf) > i)
<1>1. ASSUME NEW i \in Nat, Byte(buf, i) # 0 PROVE Len(buf) > i
  BY <1>1 DEF Byte
<1>2. QED BY <1>1, ByteIs

\* A dump by a table of what follows the bytes skipped.
LEMMA TabledWithin ==
  ASSUME NEW buf \in Seq(UINT8), NEW as, NEW desc, SoundTables(desc),
         NEW skip \in Nat, skip <= Len(buf)
  PROVE  ByATable(buf, Tabled(as, desc, skip))
BY DEF ByATable, Tabled

\* Audio.
LEMMA AudioSubtypeWithin ==
  ASSUME NEW buf \in Seq(UINT8), Len(buf) >= 3, NEW as, NEW desc,
         \A v \in 1 .. 3 : SoundTables(desc[v]), NEW protocol
  PROVE  StaysWithin(buf, dump_audio_subtype(buf, as, desc, protocol))
<1> DEFINE version == CASE protocol = 32 -> 2 [] protocol = 48 -> 3
                        [] OTHER -> 1
<1>1. version \in 1 .. 3 OBVIOUS
<1>2. dump_audio_subtype(buf, as, desc, protocol)
        = IF desc[version] # NoTable THEN Tabled(as, desc[version], 3)
          ELSE Dumped(as, "illegal", 3, Len(buf))
  BY DEF dump_audio_subtype
<1> HIDE DEF version
<1>3. ByATable(buf, Tabled(as, desc[version], 3)) BY <1>1, TabledWithin
<1>4. ByItself(buf, Dumped(as, "illegal", 3, Len(buf)))
  BY DEF ByItself, Dumped
<1>5. QED BY <1>2, <1>3, <1>4 DEF StaysWithin

\* Audio.
LEMMA AudioControlWithin ==
  ASSUME NEW buf \in Seq(UINT8), Len(buf) >= 2, NEW protocol
  PROVE  StaysWithin(buf, dump_audiocontrol_interface(buf, protocol))
<1> DEFINE subtype == get_uac_interface_subtype(Byte(buf, 2), protocol)
           named == AudioControlDumps[subtype][1]
           table == AudioControlDumps[subtype][2]
<1>1. dump_audiocontrol_interface(buf, protocol)
        = IF Len(buf) < 3 THEN Fixed(buf, "AC", 3)
          ELSE IF subtype \in DOMAIN AudioControlDumps \ {4, 15}
          THEN dump_audio_subtype(buf, named, table, protocol)
          ELSE Raw(buf, "AC", 3)
  BY DEF dump_audiocontrol_interface
<1>2. ByItself(buf, Fixed(buf, "AC", 3)) BY FixedWithin
<1>3. ByItself(buf, Raw(buf, "AC", 3)) BY RawWithin
<1> HIDE DEF subtype
<1>4. ASSUME ~ (Len(buf) < 3), subtype \in DOMAIN AudioControlDumps \ {4, 15}
      PROVE  StaysWithin(buf, dump_audio_subtype(buf, named, table, protocol))
  <2>1. \A v \in 1 .. 3 : SoundTables(table[v])
    BY <1>4, TablesAssumption
  <2>2. Len(buf) >= 3 BY <1>4
  <2> HIDE DEF named, table
  <2>3. QED BY <2>1, <2>2, AudioSubtypeWithin
<1>5. QED BY <1>1, <1>2, <1>3, <1>4 DEF StaysWithin

\* The format types, of both versions of the class.
LEMMA FormatTypeWithin ==
  ASSUME NEW buf \in Seq(UINT8), Len(buf) >= 2, NEW protocol
  PROVE  StaysWithin(buf, FormatType(buf, protocol))
<1> DEFINE b(i) == Byte(buf, i)
           typeI == Frequencies(b(7), 8)
           all == Frequencies(b(8), 9)
<1>1. b(7) \in Nat /\ b(8) \in Nat BY BytesAt
<1>2. typeI \in Int /\ all \in Int BY <1>1 DEF Frequencies
<1> HIDE DEF typeI, all
<1>3. ByItself(buf, Checked(buf, "FORMAT_TYPE_I_III", <<4, 8, typeI>>,
                            typeI, typeI))
  BY <1>2, ThreeChecks
<1>4. ByItself(buf, Checked(buf, "FORMAT_TYPE_II", <<4, 8, 9, all>>,
                            all, all))
  BY <1>2, FourChecks
<1>5. ByItself(buf, Checked(buf, "FORMAT_TYPE_I_III", <<4, 6>>, 6, 6))
  BY TwoChecks
<1>6. ByItself(buf, Checked(buf, "FORMAT_TYPE_II", <<4, 8>>, 8, 8))
  BY TwoChecks
<1>7. ByItself(buf, Fixed(buf, "FORMAT_TYPE_IV", 4))
      /\ ByItself(buf, Fixed(buf, "FORMAT_TYPE", 8))
  BY FixedWithin
<1>8. ByItself(buf, Raw(buf, "FORMAT_TYPE", 4))
      /\ ByItself(buf, Hidden(buf, "FORMAT_TYPE"))
  BY RawWithin
<1>9. FormatType(buf, protocol) \in
        {Checked(buf, "FORMAT_TYPE_I_III", <<4, 8, typeI>>, typeI, typeI),
         Checked(buf, "FORMAT_TYPE_II", <<4, 8, 9, all>>, all, all),
         Checked(buf, "FORMAT_TYPE_I_III", <<4, 6>>, 6, 6),
         Checked(buf, "FORMAT_TYPE_II", <<4, 8>>, 8, 8),
         Fixed(buf, "FORMAT_TYPE_IV", 4), Fixed(buf, "FORMAT_TYPE", 8),
         Raw(buf, "FORMAT_TYPE", 4), Hidden(buf, "FORMAT_TYPE")}
  BY DEF FormatType, typeI, all
<1>10. QED
  BY <1>3, <1>4, <1>5, <1>6, <1>7, <1>8, <1>9 DEF StaysWithin

\* The formats that state a tag.
LEMMA FormatSpecificWithin ==
  ASSUME NEW buf \in Seq(UINT8), Len(buf) >= 2
  PROVE  ByItself(buf, FormatSpecific(buf))
<1>1. ByItself(buf, Checked(buf, "MPEG", <<5, 8>>, 8, 8)) BY TwoChecks
<1>2. ByItself(buf, Checked(buf, "AC-3", <<5, 10>>, 10, 8)) BY TwoChecks
<1>3. ByItself(buf, Checked(buf, "FORMAT_SPECIFIC", <<5>>, 5, 4)) BY OneCheck
<1>4. QED BY <1>1, <1>2, <1>3 DEF FormatSpecific

\* The interfaces and endpoints of audio streaming.
LEMMA AudioStreamingWithin ==
  ASSUME NEW buf \in Seq(UINT8), Len(buf) >= 2, NEW protocol
  PROVE  /\ StaysWithin(buf, dump_audiostreaming_interface(buf, protocol))
         /\ StaysWithin(buf, dump_audiostreaming_endpoint(buf, protocol))
<1> DEFINE general == dump_audio_subtype(buf, "AS_GENERAL",
                                         desc_audio_as_interface, protocol)
           endpoint == dump_audio_subtype(buf, "EP_GENERAL",
                         desc_audio_as_isochronous_audio_data_endpoint,
                         protocol)
<1>1. Len(buf) >= 3 => StaysWithin(buf, general) /\ StaysWithin(buf, endpoint)
  BY TablesAssumption, AudioSubtypeWithin
<1>2. ByItself(buf, Fixed(buf, "AS", 3)) /\ ByItself(buf, Fixed(buf, "AS_EP", 3))
  BY FixedWithin
<1>3. ByItself(buf, Raw(buf, "AS", 3)) BY RawWithin
<1>4. Byte(buf, 2) = 1 => Len(buf) >= 3 BY BytesAt
<1>5. \/ dump_audiostreaming_interface(buf, protocol) \in
           {Fixed(buf, "AS", 3), FormatType(buf, protocol),
            FormatSpecific(buf), Raw(buf, "AS", 3)}
      \/ Byte(buf, 2) = 1
         /\ dump_audiostreaming_interface(buf, protocol) = general
  BY DEF dump_audiostreaming_interface
<1>6. \/ dump_audiostreaming_endpoint(buf, protocol) = Fixed(buf, "AS_EP", 3)
      \/ Len(buf) >= 3
         /\ dump_audiostreaming_endpoint(buf, protocol) = endpoint
  BY DEF dump_audiostreaming_endpoint
<1> HIDE DEF general, endpoint
<1>7. StaysWithin(buf, FormatType(buf, protocol))
      /\ StaysWithin(buf, FormatSpecific(buf))
  BY FormatTypeWithin, FormatSpecificWithin DEF StaysWithin
<1>8. QED BY <1>1, <1>2, <1>3, <1>4, <1>5, <1>6, <1>7 DEF StaysWithin

\* The interfaces and endpoints of MIDI streaming.
LEMMA MidiStreamingWithin ==
  ASSUME NEW buf \in Seq(UINT8), Len(buf) >= 2
  PROVE  /\ StaysWithin(buf, dump_midistreaming_interface(buf))
         /\ StaysWithin(buf, dump_midistreaming_endpoint(buf))
<1> DEFINE tables == {Tabled("MS_HEADER", desc_midi_ms_header, 3),
                      Tabled("MIDI_IN_JACK", desc_midi_ms_in_jack, 3),
                      Tabled("MIDI_OUT_JACK", desc_midi_ms_out_jack, 3),
                      Tabled("ELEMENT", desc_midi_ms_element, 3),
                      Tabled("MS_EP", desc_midi_ms_endpoint_general, 3)}
<1>1. Len(buf) >= 3 => \A t \in tables : ByATable(buf, t)
  BY TablesAssumption, TabledWithin
<1>2. ByItself(buf, Fixed(buf, "MS", 3)) /\ ByItself(buf, Fixed(buf, "MS_EP", 3))
  BY FixedWithin
<1>3. ByItself(buf, Raw(buf, "MS", 3)) BY RawWithin
<1>4. Byte(buf, 2) \in {1, 2, 3, 4} => Len(buf) >= 3
  <2>1. 2 \in Nat /\ Len(buf) \in Nat OBVIOUS
  <2>2. Byte(buf, 2) # 0 => Len(buf) > 2 BY <2>1, BytesAt, Zenon
  <2>3. QED BY <2>1, <2>2
<1>5. \/ dump_midistreaming_interface(buf) \in
           {Fixed(buf, "MS", 3), Raw(buf, "MS", 3)}
      \/ Byte(buf, 2) \in {1, 2, 3, 4}
         /\ dump_midistreaming_interface(buf) \in tables
  BY DEF dump_midistreaming_interface
<1>6. \/ dump_midistreaming_endpoint(buf) = Fixed(buf, "MS_EP", 3)
      \/ Len(buf) >= 3 /\ dump_midistreaming_endpoint(buf) \in tables
  BY DEF dump_midistreaming_endpoint
<1> HIDE DEF tables
<1>7. QED BY <1>1, <1>2, <1>3, <1>4, <1>5, <1>6 DEF StaysWithin

\* Video.
LEMMA VideoControlWithin ==
  ASSUME NEW buf \in Seq(UINT8), Len(buf) >= 2
  PROVE  /\ ByItself(buf, dump_videocontrol_interface(buf))
         /\ ByItself(buf, dump_videocontrol_interrupt_endpoint(buf))
<1> DEFINE b(i) == Byte(buf, i)
           camera == IF Word(buf, 4) = ITT_CAMERA THEN 7 ELSE 0
           lens   == IF camera = 0 THEN 8 ELSE 15 + b(14)
           n == b(7)
           p == b(21)
           m == b(22 + p)
<1>1. n \in Nat /\ p \in Nat /\ b(4) \in Nat /\ b(11) \in Nat
      /\ b(14) \in Nat
  BY BytesAt
<1>2. m \in Nat
  <2>1. 22 + p \in Nat BY <1>1
  <2> HIDE DEF p
  <2>2. QED BY <2>1, ByteIs
<1>3. 8 + camera \in Int /\ lens \in Int BY <1>1
<1> DEFINE h == 12 + b(11)
           s == 6 + b(4)
           u == 10 + n
           x == 23 + p
           y == 24 + p + m
           c == 8 + camera
<1>4. h \in Int /\ s \in Int /\ u \in Int /\ x \in Int /\ y \in Int
      /\ c \in Int
  <2> HIDE DEF n, p, m
  <2>1. QED BY <1>1, <1>2, <1>3
<1>5. dump_videocontrol_interface(buf) \in
        {Fixed(buf, "VC", 3), Checked(buf, "VC_HEADER", <<12, h>>, h, h),
         Checked(buf, "VC_INPUT_TERMINAL", <<8, c, lens>>, lens, lens),
         Fixed(buf, "VC_OUTPUT_TERMINAL", 9),
         Checked(buf, "VC_SELECTOR_UNIT", <<5, s>>, s, s),
         Checked(buf, "VC_PROCESSING_UNIT", <<8, u>>, u, NoJunk),
         Checked(buf, "VC_EXTENSION_UNIT", <<22, x, y>>, y, y),
         Checked(buf, "VC_ENCODING_UNIT", <<13>>, 13, NoJunk),
         Raw(buf, "VC", 3)}
  BY DEF dump_videocontrol_interface
<1> HIDE DEF lens, h, s, u, x, y, c
<1>6. /\ ByItself(buf, Checked(buf, "VC_HEADER", <<12, h>>, h, h))
      /\ ByItself(buf, Checked(buf, "VC_SELECTOR_UNIT", <<5, s>>, s, s))
      /\ ByItself(buf, Checked(buf, "VC_PROCESSING_UNIT", <<8, u>>, u, NoJunk))
  BY <1>4, TwoChecks
<1>7. /\ ByItself(buf, Checked(buf, "VC_INPUT_TERMINAL", <<8, c, lens>>,
                               lens, lens))
      /\ ByItself(buf, Checked(buf, "VC_EXTENSION_UNIT", <<22, x, y>>, y, y))
  BY <1>3, <1>4, ThreeChecks
<1>8. ByItself(buf, Checked(buf, "VC_ENCODING_UNIT", <<13>>, 13, NoJunk))
  BY OneCheck
<1>9. /\ ByItself(buf, Fixed(buf, "VC", 3))
      /\ ByItself(buf, Fixed(buf, "VC_OUTPUT_TERMINAL", 9))
      /\ ByItself(buf, dump_videocontrol_interrupt_endpoint(buf))
  BY FixedWithin DEF dump_videocontrol_interrupt_endpoint
<1>10. ByItself(buf, Raw(buf, "VC", 3)) BY RawWithin
<1>11. QED BY <1>5, <1>6, <1>7, <1>8, <1>9, <1>10

\* The header of a video stream whose formats have no control bytes is the one
\* that shows a byte it has not got.
WithoutControls(buf, dump) ==
  /\ dump.end # "table" /\ dump.desc = desc_undefined
  /\ \/ dump.as = "INPUT_HEADER" /\ Byte(buf, 12) = 0
     \/ dump.as = "OUTPUT_HEADER" /\ Byte(buf, 8) = 0

\* The first control byte of the last format lies within the formats.
LEMMA LastOfFormats ==
  ASSUME NEW p \in Nat, NEW n \in Nat, p # 0, n # 0
  PROVE  (p - 1) * n + 1 <= p * n /\ (p - 1) * n \in Int
<1>1. (p - 1) * n + n = p * n OBVIOUS
<1>2. (p - 1) * n \in Int OBVIOUS
<1>3. QED BY <1>1, <1>2

\* A header whose formats have controls stays within.
LEMMA FormatListWithin ==
  ASSUME NEW buf \in Seq(UINT8), Len(buf) >= 2, NEW as, NEW at \in Nat, at > 0,
         Byte(buf, at - 1) # 0
  PROVE  ByItself(buf, FormatList(buf, as, at))
<1> DEFINE p == Byte(buf, 3)
           n == Byte(buf, at - 1)
           last == IF p = 0 THEN at ELSE at + (p - 1) * n + 1
           all == at + p * n
<1>1. p \in Nat /\ n \in Nat /\ n # 0
  <2>1. at - 1 \in Nat /\ 3 \in Nat OBVIOUS
  <2>2. QED BY <2>1, BytesAt
<1>2. FormatList(buf, as, at) = Checked(buf, as, <<at, all>>, last, all)
  BY DEF FormatList
<1> HIDE DEF p, n
<1>3. all \in Int /\ p * n \in Nat BY <1>1, Products
<1>4. last <= all
  <2>1. CASE p = 0 BY <1>1, <1>3, <2>1
  <2>2. CASE p # 0
    <3>1. (p - 1) * n + 1 <= p * n /\ (p - 1) * n \in Int
      BY <1>1, <2>2, LastOfFormats
    <3>2. last = at + (p - 1) * n + 1 BY <2>2
    <3>3. QED BY <1>3, <3>1, <3>2
  <2>3. QED BY <2>1, <2>2
<1>5. last \in Int
  <2>1. (p - 1) * n \in Int BY <1>1
  <2>2. QED BY <2>1
<1> HIDE DEF last, all
<1>6. all <= Len(buf) => last <= Len(buf) BY <1>3, <1>4, <1>5
<1>7. ByItself(buf, Checked(buf, as, <<at, all>>, last, all))
  <2>1. at <= Len(buf) /\ all <= Len(buf) => last <= Len(buf) BY <1>6
  <2>2. at \in Int /\ all \in Int BY <1>3
  <2>3. QED BY <2>1, <2>2, TwoChecks
<1>8. QED BY <1>2, <1>7

\* The header's name is kept, whatever its check comes to.
LEMMA FormatListIs ==
  ASSUME NEW buf, NEW as, NEW at
  PROVE  /\ FormatList(buf, as, at).as = as
         /\ FormatList(buf, as, at).end # "table"
         /\ FormatList(buf, as, at).desc = desc_undefined
BY DEF FormatList, Checked, Dumped

\* A frame and its intervals.
LEMMA FrameIntervalsWithin ==
  ASSUME NEW buf \in Seq(UINT8), Len(buf) >= 2, NEW as, NEW at \in Nat
  PROVE  ByItself(buf, FrameIntervals(buf, as, at))
<1> DEFINE n == Byte(buf, at)
           all == IF n = 0 THEN 38 ELSE 26 + 4 * n
<1>1. n \in Nat BY BytesAt
<1>2. all \in Int /\ at + 1 \in Int BY <1>1
<1>3. FrameIntervals(buf, as, at) = Checked(buf, as, <<at + 1, all>>, all, all)
  BY DEF FrameIntervals
<1> DEFINE needed == at + 1
<1> HIDE DEF all, needed
<1>4. needed \in Int BY <1>2 DEF needed
<1>5. ByItself(buf, Checked(buf, as, <<needed, all>>, all, all))
  BY <1>2, <1>4, TwoChecks
<1>6. QED BY <1>3, <1>5 DEF needed

\* A video streaming descriptor stays within, but for a header without
\* controls.
LEMMA VideoStreamingWithin ==
  ASSUME NEW buf \in Seq(UINT8), Len(buf) >= 2
  PROVE  \/ ByItself(buf, dump_videostreaming_interface(buf))
         \/ WithoutControls(buf, dump_videostreaming_interface(buf))
<1> DEFINE dump == dump_videostreaming_interface(buf)
           sizes == 6 + 4 * Byte(buf, 4)
           all == sizes + Byte(buf, sizes - 1)
           mpeg == IF Len(buf) < 23 THEN 7 ELSE 23
           input == FormatList(buf, "INPUT_HEADER", 13)
           output == FormatList(buf, "OUTPUT_HEADER", 9)
<1>1. sizes \in Int /\ all \in Int /\ mpeg \in Int
  <2>1. Byte(buf, 4) \in Nat BY BytesAt
  <2>2. sizes \in Nat /\ sizes - 1 \in Nat BY <2>1
  <2> HIDE DEF sizes
  <2>3. Byte(buf, sizes - 1) \in Nat BY <2>2, BytesAt
  <2>4. QED BY <2>2, <2>3
<1> DEFINE fixed == {Fixed(buf, "VS", 3), Fixed(buf, "FORMAT_UNCOMPRESSED", 27),
                     Fixed(buf, "FORMAT_FRAME_BASED", 28),
                     Fixed(buf, "FORMAT_MJPEG", 11),
                     Fixed(buf, "FORMAT_MPEG2TS", mpeg),
                     Fixed(buf, "COLORFORMAT", 6)}
           frames == {FrameIntervals(buf, "FRAME_UNCOMPRESSED", 25),
                      FrameIntervals(buf, "FRAME_MJPEG", 25),
                      FrameIntervals(buf, "FRAME_FRAME_BASED", 21)}
           still == Checked(buf, "STILL_IMAGE_FRAME", <<5, sizes, all>>,
                            all, all)
           stream == Checked(buf, "FORMAT_STREAM_BASED", <<24>>, 21, 24)
<1>2. \/ dump \in fixed \/ dump \in frames \/ dump = still \/ dump = stream
      \/ dump = input \/ dump = output \/ dump = Raw(buf, "VS", 3)
  <2> DEFINE u == Fixed(buf, "FORMAT_UNCOMPRESSED", 27)
             b == Fixed(buf, "FORMAT_FRAME_BASED", 28)
             j == Fixed(buf, "FORMAT_MJPEG", 11)
             t == Fixed(buf, "FORMAT_MPEG2TS", mpeg)
             c == Fixed(buf, "COLORFORMAT", 6)
             v == Fixed(buf, "VS", 3)
             fu == FrameIntervals(buf, "FRAME_UNCOMPRESSED", 25)
             fj == FrameIntervals(buf, "FRAME_MJPEG", 25)
             fb == FrameIntervals(buf, "FRAME_FRAME_BASED", 21)
             raw == Raw(buf, "VS", 3)
             kind == Byte(buf, 2)
             short == Len(buf) < 3
  <2>1. dump = IF short THEN v
               ELSE CASE kind = 1 -> input [] kind = 2 -> output
                      [] kind = 3 -> still [] kind = 4 -> u [] kind = 16 -> b
                      [] kind = 5 -> fu [] kind = 7 -> fj [] kind = 17 -> fb
                      [] kind = 6 -> j [] kind = 10 -> t [] kind = 13 -> c
                      [] kind = 18 -> stream [] OTHER -> raw
    BY DEF dump_videostreaming_interface
  <2>2. v \in fixed /\ u \in fixed /\ b \in fixed /\ j \in fixed
        /\ t \in fixed /\ c \in fixed
        /\ fu \in frames /\ fj \in frames /\ fb \in frames
    OBVIOUS
  <2> HIDE DEF dump, input, output, still, stream, fixed, frames, u, b, j, t,
               c, v, fu, fj, fb, raw, kind
  <2>3. \/ dump \in fixed \/ dump \in frames \/ dump = still
        \/ dump = stream \/ dump = input \/ dump = output \/ dump = raw
    <3>1. CASE short BY <3>1, <2>1, <2>2
    <3>2. CASE ~short /\ kind = 1
      <4>1. dump = input BY <3>2, <2>1
      <4>2. QED BY <4>1, <2>2
    <3>3. CASE ~short /\ kind = 2
      <4>1. dump = output BY <3>3, <2>1
      <4>2. QED BY <4>1, <2>2
    <3>4. CASE ~short /\ kind = 3
      <4>1. dump = still BY <3>4, <2>1
      <4>2. QED BY <4>1, <2>2
    <3>5. CASE ~short /\ kind = 4
      <4>1. dump = u BY <3>5, <2>1
      <4>2. QED BY <4>1, <2>2
    <3>6. CASE ~short /\ kind = 16
      <4>1. dump = b BY <3>6, <2>1
      <4>2. QED BY <4>1, <2>2
    <3>7. CASE ~short /\ kind = 5
      <4>1. dump = fu BY <3>7, <2>1
      <4>2. QED BY <4>1, <2>2
    <3>8. CASE ~short /\ kind = 7
      <4>1. dump = fj BY <3>8, <2>1
      <4>2. QED BY <4>1, <2>2
    <3>9. CASE ~short /\ kind = 17
      <4>1. dump = fb BY <3>9, <2>1
      <4>2. QED BY <4>1, <2>2
    <3>10. CASE ~short /\ kind = 6
      <4>1. dump = j BY <3>10, <2>1
      <4>2. QED BY <4>1, <2>2
    <3>11. CASE ~short /\ kind = 10
      <4>1. dump = t BY <3>11, <2>1
      <4>2. QED BY <4>1, <2>2
    <3>12. CASE ~short /\ kind = 13
      <4>1. dump = c BY <3>12, <2>1
      <4>2. QED BY <4>1, <2>2
    <3>13. CASE ~short /\ kind = 18
      <4>1. dump = stream BY <3>13, <2>1
      <4>2. QED BY <4>1, <2>2
    <3>14. CASE ~short /\ kind \notin {1, 2, 3, 4, 5, 6, 7, 10, 13, 16, 17, 18}
      BY <3>14, <2>1
    <3>15. QED
      BY <3>1, <3>2, <3>3, <3>4, <3>5, <3>6, <3>7, <3>8, <3>9, <3>10, <3>11,
         <3>12, <3>13, <3>14
  <2>4. QED BY <2>3 DEF raw
<1> HIDE DEF dump, sizes, all, mpeg
<1>3. ByItself(buf, input) \/ WithoutControls(buf, input)
  <2>1. CASE Byte(buf, 12) = 0 BY <2>1, FormatListIs DEF WithoutControls
  <2>2. CASE Byte(buf, 12) # 0
    <3>1. Byte(buf, 13 - 1) # 0 BY <2>2
    <3>2. QED BY <3>1, FormatListWithin
  <2>3. QED BY <2>1, <2>2
<1>4. ByItself(buf, output) \/ WithoutControls(buf, output)
  <2>1. CASE Byte(buf, 8) = 0 BY <2>1, FormatListIs DEF WithoutControls
  <2>2. CASE Byte(buf, 8) # 0
    <3>1. Byte(buf, 9 - 1) # 0 BY <2>2
    <3>2. QED BY <3>1, FormatListWithin
  <2>3. QED BY <2>1, <2>2
<1> HIDE DEF input, output
<1>5. ByItself(buf, still) BY <1>1, ThreeChecks
<1>6. \A d \in fixed : ByItself(buf, d) BY <1>1, FixedWithin
<1>7. \A d \in frames : ByItself(buf, d) BY FrameIntervalsWithin
<1>8. ByItself(buf, stream) BY OneCheck
<1>9. ByItself(buf, Raw(buf, "VS", 3)) BY RawWithin
<1> HIDE DEF fixed, frames, still, stream
<1>10. QED BY <1>2, <1>3, <1>4, <1>5, <1>6, <1>7, <1>8, <1>9 DEF dump

\* The other classes.
LEMMA PrinterItemsAre ==
  ASSUME NEW buf \in Seq(UINT8), Len(buf) >= 4
  PROVE  PrinterItems(buf).reads <= Len(buf)
<1> DEFINE b(i) == Byte(buf, i)
           N == b(3)
           S == [at : Nat, reads : 0 .. Len(buf), bad : BOOLEAN]
           first == [at |-> 4, reads |-> 4, bad |-> FALSE]
           Upto(e) == e.at + 2 + b(e.at + 1)
           Uses(e) == e.at + IF b(e.at) = 0 THEN 6 ELSE 2
           Goes(e) == IF e.bad \/ e.at + 2 > Len(buf) \/ Upto(e) > Len(buf)
                         \/ Uses(e) > Len(buf)
                      THEN [e EXCEPT !.bad = TRUE]
                      ELSE [at |-> Upto(e), reads |-> Larger(e.reads, Uses(e)),
                            bad |-> FALSE]
           step == [a \in (1 .. N) \X S |-> Goes(a[2])]
           Solves(f) ==
             f = [k \in 0 .. b(3) |->
                    IF k = 0 THEN [at |-> 4, reads |-> 4, bad |-> FALSE]
                    ELSE LET e == f[k - 1]
                             next == e.at + 2 + b(e.at + 1)
                             uses == e.at + IF b(e.at) = 0 THEN 6 ELSE 2
                         IN  IF e.bad \/ e.at + 2 > Len(buf)
                                \/ next > Len(buf) \/ uses > Len(buf)
                             THEN [e EXCEPT !.bad = TRUE]
                             ELSE [at |-> next, reads |-> Larger(e.reads, uses),
                                   bad |-> FALSE]]
           end == CHOOSE f : Solves(f)
<1>1. N \in Nat BY BytesAt
<1>2. PrinterItems(buf) = end[N] BY DEF PrinterItems
<1>3. ASSUME NEW f
      PROVE  Solves(f) <=>
               f = [k \in 0 .. N |-> IF k = 0 THEN first ELSE Goes(f[k - 1])]
  OBVIOUS
<1>4. ASSUME NEW e \in S PROVE Goes(e) \in S
  <2>1. e.at \in Nat /\ e.reads \in 0 .. Len(buf) OBVIOUS
  <2>2. e.at + 1 \in Nat BY <2>1
  <2>3. b(e.at + 1) \in Nat BY <2>2, ByteIs
  <2>4. Upto(e) \in Nat /\ Uses(e) \in Nat BY <2>1, <2>3
  <2>5. [e EXCEPT !.bad = TRUE] \in S OBVIOUS
  <2> HIDE DEF Upto, Uses
  <2>6. Uses(e) <= Len(buf) => Larger(e.reads, Uses(e)) \in 0 .. Len(buf)
    BY <2>1, <2>4 DEF Larger
  <2>7. ~ (Uses(e) > Len(buf)) => Uses(e) <= Len(buf) BY <2>4
  <2>8. QED BY <2>4, <2>5, <2>6, <2>7
<1>5. first \in S OBVIOUS
<1> HIDE DEF N, Solves, end, Goes, first, S
<1>6. step \in [(1 .. N) \X S -> S] BY <1>4
<1>7. \E f : Solves(f)
  <2>1. PICK f \in [0 .. N -> S] : IsUp(f, first, step, N)
    BY <1>1, <1>5, <1>6, UpExists
  <2>2. \A k \in 1 .. N : f[k] = Goes(f[k - 1])
    <3>1. ASSUME NEW k \in 1 .. N PROVE f[k] = Goes(f[k - 1])
      <4>1. k - 1 \in 0 .. N BY <1>1
      <4>2. <<k, f[k - 1]>> \in (1 .. N) \X S BY <2>1, <4>1
      <4>3. f[k] = step[<<k, f[k - 1]>>] BY <2>1 DEF IsUp
      <4>4. QED BY <4>2, <4>3
    <3>2. QED BY <3>1
  <2>3. f[0] = first BY <2>1 DEF IsUp
  <2> HIDE DEF step
  <2>4. f = [k \in 0 .. N |-> IF k = 0 THEN first ELSE Goes(f[k - 1])]
    BY <1>1, <2>1, <2>2, <2>3
  <2>5. QED BY <1>3, <2>4
<1>8. end = [k \in 0 .. N |-> IF k = 0 THEN first ELSE Goes(end[k - 1])]
  <2>1. Solves(end) BY <1>7 DEF end
  <2>2. QED BY <1>3, <2>1
<1>9. end[N] \in S
  <2> DEFINE H == {n \in 0 .. N : end[n] \in S}
  <2>1. 0 \in H BY <1>1, <1>5, <1>8
  <2>2. ASSUME NEW n \in 0 .. N, n \in H, n < N PROVE n + 1 \in H
    <3>1. n + 1 \in 1 .. N /\ n + 1 \in 0 .. N /\ (n + 1) - 1 = n
      BY <1>1, <2>2
    <3>2. end[n + 1] = Goes(end[n]) BY <1>8, <3>1
    <3>3. QED BY <1>4, <2>2, <3>1, <3>2
  <2>3. H \in SUBSET (0 .. N) OBVIOUS
  <2> HIDE DEF H
  <2>4. H = 0 .. N BY <1>1, <2>1, <2>2, <2>3, Upwards
  <2>5. QED BY <1>1, <2>4 DEF H
<1>10. QED BY <1>2, <1>9 DEF S

\* What a dump says of its end does not change what it reads.
LEMMA EndChanged ==
  ASSUME NEW buf, NEW dump, ByItself(buf, dump), NEW end, end # "table"
  PROVE  ByItself(buf, [dump EXCEPT !.end = end])
BY DEF ByItself, Dumped

LEMMA ReadsChanged ==
  ASSUME NEW buf, NEW dump, ByItself(buf, dump), NEW reads, reads <= Len(buf)
  PROVE  ByItself(buf, [dump EXCEPT !.reads = reads])
BY DEF ByItself, Dumped

\* Descriptors that are dumped once their length is checked.
LEMMA DeviceClassesWithin ==
  ASSUME NEW buf \in Seq(UINT8), Len(buf) >= 2
  PROVE  /\ ByItself(buf, dump_dfu_interface(buf))
         /\ ByItself(buf, dump_ccid_device(buf))
         /\ ByItself(buf, dump_pipe_desc(buf))
         /\ ByItself(buf, dump_association(buf))
         /\ ByItself(buf, dump_security(buf))
         /\ ByItself(buf, dump_encryption_type(buf))
         /\ ByItself(buf, dump_wire_adapter(buf))
         /\ ByItself(buf, dump_rc_interface(buf))
         /\ ByItself(buf, Unrecognized(buf))
<1>1. ByItself(buf, dump_dfu_interface(buf))
  BY OneCheck DEF dump_dfu_interface
<1>2. ByItself(buf, dump_ccid_device(buf)) BY FixedWithin DEF dump_ccid_device
<1>3. ByItself(buf, dump_pipe_desc(buf))
  BY OneCheck, RawWithin DEF dump_pipe_desc
<1>4. ByItself(buf, dump_association(buf)) BY OneCheck DEF dump_association
<1>5. ByItself(buf, dump_security(buf)) BY OneCheck DEF dump_security
<1>6. ByItself(buf, dump_encryption_type(buf))
  BY OneCheck DEF dump_encryption_type
<1>7. ByItself(buf, dump_wire_adapter(buf)) BY OneCheck DEF dump_wire_adapter
<1>8. ByItself(buf, dump_rc_interface(buf)) BY OneCheck DEF dump_rc_interface
<1>9. ByItself(buf, Unrecognized(buf)) BY RawWithin DEF Unrecognized
<1>10. QED BY <1>1, <1>2, <1>3, <1>4, <1>5, <1>6, <1>7, <1>8, <1>9

\* The capabilities of a printer.
LEMMA PrinterWithin ==
  ASSUME NEW buf \in Seq(UINT8), Len(buf) >= 2, NEW protocol
  PROVE  ByItself(buf, dump_printer_device(buf, protocol))
<1>1. CASE protocol # 4 BY <1>1, RawWithin DEF dump_printer_device
<1>2. CASE protocol = 4
  <2> DEFINE items == PrinterItems(buf)
             plain == Checked(buf, "IPP", <<4>>, items.reads, NoJunk)
  <2>1. dump_printer_device(buf, protocol)
          = [plain EXCEPT !.end = IF items.bad THEN "short" ELSE @]
    BY <1>2 DEF dump_printer_device
  <2>2. 4 <= Len(buf) => items.reads <= Len(buf) BY PrinterItemsAre
  <2> HIDE DEF items
  <2>3. ByItself(buf, plain) /\ plain.end \in {"fields", "short"}
    BY <2>2, OneCheck
  <2> HIDE DEF plain
  <2>4. PICK end : end \in {"fields", "short"}
                   /\ dump_printer_device(buf, protocol)
                        = [plain EXCEPT !.end = end]
    BY <2>1, <2>3
  <2>5. ByItself(buf, [plain EXCEPT !.end = end])
    <3>1. end # "table" BY <2>4
    <3>2. QED BY <2>3, <3>1, EndChanged
  <2>6. QED BY <2>4, <2>5
<1>3. QED BY <1>1, <1>2

\* As many entries of three bytes fit as there are thirds.
LEMMA ThirdOf ==
  ASSUME NEW n \in Nat
  PROVE  n \div 3 \in Nat /\ 3 * (n \div 3) <= n
         /\ \A i \in Nat : 3 * i + 3 <= n => i <= n \div 3 - 1
OBVIOUS

\* The subordinate descriptors a HID descriptor lists.
LEMMA HidHeaderWithin ==
  ASSUME NEW buf \in Seq(UINT8), Len(buf) >= 2
  PROVE  ByItself(buf, dump_hid_header(buf))
<1> DEFINE n == Byte(buf, 5)
           fit == {i \in 0 .. n - 1 : 9 + 3 * i <= Len(buf)}
           plain == Checked(buf, "HID", <<6>>, 6 + 3 * Cardinality(fit),
                            6 + 3 * n)
<1>1. 6 <= Len(buf) => 6 + 3 * Cardinality(fit) <= Len(buf)
  <2> SUFFICES ASSUME 6 <= Len(buf)
               PROVE  6 + 3 * Cardinality(fit) <= Len(buf)
    OBVIOUS
  <2> DEFINE room == Len(buf) - 6
             k == room \div 3
  <2>1. room \in Nat OBVIOUS
  <2> HIDE DEF room
  <2>2. k \in Nat /\ 3 * k <= room
        /\ \A i \in Nat : 3 * i + 3 <= room => i <= k - 1
    BY <2>1, ThirdOf
  <2>3. n \in Nat BY ByteIs
  <2> HIDE DEF k, n
  <2>4. fit \subseteq 0 .. k - 1
    <3> SUFFICES ASSUME NEW i \in 0 .. n - 1, 9 + 3 * i <= Len(buf)
                 PROVE  i \in 0 .. k - 1
      OBVIOUS
    <3>1. i \in Nat /\ 3 * i + 3 <= room BY <2>3 DEF room
    <3>2. QED BY <3>1, <2>2
  <2> HIDE DEF fit
  <2>5. IsFiniteSet(0 .. k - 1) /\ Cardinality(0 .. k - 1) = k
    <3> DEFINE last == k - 1
    <3>1. 0 \in Int /\ last \in Int /\ (0 > last => k = 0) /\ last - 0 + 1 = k
      BY <2>2
    <3> HIDE DEF last
    <3>2. IsFiniteSet(0 .. last)
          /\ Cardinality(0 .. last) = IF 0 > last THEN 0 ELSE last - 0 + 1
      BY <3>1, FS_Interval, Zenon
    <3>3. IsFiniteSet(0 .. last) /\ Cardinality(0 .. last) = k
      BY <3>1, <3>2
    <3>4. QED BY <3>3 DEF last
  <2>6. Cardinality(fit) \in Nat /\ Cardinality(fit) <= k
    <3> DEFINE all == 0 .. k - 1
    <3>1. IsFiniteSet(all) /\ Cardinality(all) = k /\ fit \in SUBSET all
      BY <2>4, <2>5
    <3> HIDE DEF all
    <3>2. IsFiniteSet(fit) /\ Cardinality(fit) <= Cardinality(all)
      BY <3>1, FS_Subset
    <3>3. Cardinality(fit) \in Nat BY <3>2, FS_CardinalityType
    <3>4. QED BY <3>1, <3>2, <3>3
  <2>7. QED BY <2>2, <2>6 DEF room
<1> HIDE DEF fit
<1>2. ByItself(buf, plain) /\ plain.end \in {"fields", "short"}
  BY <1>1, OneCheck
<1>3. dump_hid_header(buf)
        = [plain EXCEPT !.end = IF Len(buf) < 6 + 3 * n THEN "short" ELSE @]
  BY DEF dump_hid_header, fit
<1> HIDE DEF plain
<1>4. PICK end : end \in {"fields", "short"}
                 /\ dump_hid_header(buf) = [plain EXCEPT !.end = end]
  BY <1>2, <1>3
<1>5. ByItself(buf, [plain EXCEPT !.end = end])
  <2>1. end # "table" BY <1>4
  <2>2. QED BY <1>2, <2>1, EndChanged
<1>6. QED BY <1>4, <1>5

\* CDC functional descriptors: their length is checked before they are read.
LEMMA CommWithin ==
  ASSUME NEW buf \in Seq(UINT8), Len(buf) >= 2
  PROVE  ByItself(buf, dump_comm_descriptor(buf))
<1> DEFINE dump == dump_comm_descriptor(buf)
           valid == Dumped("CDC", "fields", Len(buf), Len(buf))
           raw == Raw(buf, "CDC", 0)
<1>1. dump \in {Fixed(buf, "CDC", 3), raw, valid,
                [raw EXCEPT !.end = "short"]}
  BY Zenon DEF dump_comm_descriptor
<1> HIDE DEF dump, raw
<1>2. ByItself(buf, Fixed(buf, "CDC", 3)) BY FixedWithin
<1>3. ByItself(buf, raw) BY RawWithin DEF raw
<1>4. ByItself(buf, [raw EXCEPT !.end = "short"]) BY <1>3, EndChanged
<1>5. ByItself(buf, valid) BY DEF ByItself, Dumped
<1>6. QED BY <1>1, <1>2, <1>3, <1>4, <1>5 DEF dump

-----------------------------------------------------------------------------
(* Every dump a walk chooses.                                             *)

\* What the dump of a descriptor is known to do.
KnownReads(buf, dump) == StaysWithin(buf, dump) \/ WithoutControls(buf, dump)

\* The extra descriptors of a configuration.
LEMMA ConfigExtraReads ==
  ASSUME NEW buf \in Seq(UINT8), Len(buf) >= 2
  PROVE  StaysWithin(buf, ConfigExtra(buf))
<1>1. ConfigExtra(buf) \in {Hidden(buf, "OTG"), dump_association(buf),
                            dump_security(buf), dump_encryption_type(buf),
                            Unrecognized(buf)}
  BY Zenon DEF ConfigExtra
<1>2. QED BY <1>1, DeviceClassesWithin, RawWithin DEF StaysWithin

\* Those of an interface, by its class.
LEMMA TaggedExtraReads ==
  ASSUME NEW buf \in Seq(UINT8), Len(buf) >= 2, NEW alt
  PROVE  KnownReads(buf, TaggedExtra(buf, alt))
<1>1. TaggedExtra(buf, alt) \in
        {dump_audiocontrol_interface(buf, alt.protocol),
         dump_audiostreaming_interface(buf, alt.protocol),
         dump_midistreaming_interface(buf), dump_comm_descriptor(buf),
         dump_videocontrol_interface(buf), dump_videostreaming_interface(buf),
         dump_dfu_interface(buf), dump_hid_header(buf),
         dump_printer_device(buf, alt.protocol), dump_ccid_device(buf),
         Unrecognized(buf)}
  BY Zenon DEF TaggedExtra
<1>2. KnownReads(buf, dump_audiocontrol_interface(buf, alt.protocol))
  BY AudioControlWithin DEF KnownReads
<1>3. KnownReads(buf, dump_audiostreaming_interface(buf, alt.protocol))
  BY AudioStreamingWithin DEF KnownReads
<1>4. KnownReads(buf, dump_midistreaming_interface(buf))
  BY MidiStreamingWithin DEF KnownReads
<1>5. KnownReads(buf, dump_videocontrol_interface(buf))
  BY VideoControlWithin DEF KnownReads, StaysWithin
<1>6. KnownReads(buf, dump_videostreaming_interface(buf))
  BY VideoStreamingWithin DEF KnownReads, StaysWithin
<1>7. /\ KnownReads(buf, dump_comm_descriptor(buf))
      /\ KnownReads(buf, dump_hid_header(buf))
      /\ KnownReads(buf, dump_printer_device(buf, alt.protocol))
  BY CommWithin, HidHeaderWithin, PrinterWithin DEF KnownReads, StaysWithin
<1>8. /\ KnownReads(buf, dump_dfu_interface(buf))
      /\ KnownReads(buf, dump_ccid_device(buf))
      /\ KnownReads(buf, Unrecognized(buf))
  BY DeviceClassesWithin DEF KnownReads, StaysWithin
<1>9. QED BY <1>1, <1>2, <1>3, <1>4, <1>5, <1>6, <1>7, <1>8

LEMMA UntaggedExtraReads ==
  ASSUME NEW buf \in Seq(UINT8), Len(buf) >= 2, NEW alt
  PROVE  StaysWithin(buf, UntaggedExtra(buf, alt))
<1>1. UntaggedExtra(buf, alt) \in
        {dump_hid_header(buf), dump_ccid_device(buf), dump_rc_interface(buf),
         dump_wire_adapter(buf),
         dump_audiostreaming_endpoint(buf, alt.protocol),
         Hidden(buf, "OTG"), dump_association(buf), Unrecognized(buf)}
  BY Zenon DEF UntaggedExtra
<1>2. StaysWithin(buf, dump_audiostreaming_endpoint(buf, alt.protocol))
  BY AudioStreamingWithin
<1>3. StaysWithin(buf, dump_hid_header(buf))
      /\ StaysWithin(buf, Hidden(buf, "OTG"))
  BY HidHeaderWithin, RawWithin DEF StaysWithin
<1>4. QED BY <1>1, <1>2, <1>3, DeviceClassesWithin DEF StaysWithin

\* Tagged or not.
LEMMA InterfaceExtraReads ==
  ASSUME NEW buf \in Seq(UINT8), Len(buf) >= 2, NEW alt
  PROVE  KnownReads(buf, InterfaceExtra(buf, alt))
BY TaggedExtraReads, UntaggedExtraReads DEF InterfaceExtra, KnownReads

\* Those of an endpoint.
LEMMA EndpointExtraReads ==
  ASSUME NEW buf \in Seq(UINT8), Len(buf) >= 2, NEW alt, NEW attributes
  PROVE  StaysWithin(buf, EndpointExtra(buf, alt, attributes))
<1>1. EndpointExtra(buf, alt, attributes) \in
        {dump_audiostreaming_endpoint(buf, alt.protocol),
         dump_midistreaming_endpoint(buf),
         dump_videocontrol_interrupt_endpoint(buf),
         dump_comm_descriptor(buf), dump_pipe_desc(buf),
         dump_ccid_device(buf), Hidden(buf, "OTG"), dump_association(buf),
         EndpointCompanion(buf, attributes), Hidden(buf, "CS_ENDPOINT"),
         Unrecognized(buf)}
  BY Zenon DEF EndpointExtra
<1>2. StaysWithin(buf, dump_audiostreaming_endpoint(buf, alt.protocol))
      /\ StaysWithin(buf, dump_midistreaming_endpoint(buf))
  BY AudioStreamingWithin, MidiStreamingWithin
<1>3. StaysWithin(buf, dump_videocontrol_interrupt_endpoint(buf))
      /\ StaysWithin(buf, dump_comm_descriptor(buf))
  BY VideoControlWithin, CommWithin DEF StaysWithin
<1>4. StaysWithin(buf, Hidden(buf, "OTG"))
      /\ StaysWithin(buf, Hidden(buf, "CS_ENDPOINT"))
  BY RawWithin DEF StaysWithin
<1>5. StaysWithin(buf, EndpointCompanion(buf, attributes))
  <2>1. ASSUME NEW n \in {3, 4, 6}
        PROVE  ByItself(buf, Checked(buf, "SS_ENDPOINT_COMP", <<6>>, n, NoJunk))
    BY OneCheck
  <2>2. QED BY <2>1 DEF StaysWithin, EndpointCompanion
<1>6. QED BY <1>1, <1>2, <1>3, <1>4, <1>5, DeviceClassesWithin DEF StaysWithin

\* The capabilities of a device.
LEMMA EightBytesReads ==
  ASSUME NEW buf \in Seq(UINT8), Len(buf) >= 2, NEW as
  PROVE  StaysWithin(buf, EightBytes(buf, as))
<1>1. ByItself(buf, Fixed(buf, as, 8))
  <2>1. 8 \in Int OBVIOUS
  <2>2. QED BY <2>1, FixedWithin
<1>2. ByItself(buf, Fixed(buf, as, TooMany))
  <2>1. TooMany \in Int BY DEF TooMany
  <2>2. QED BY <2>1, FixedWithin
<1>3. ByItself(buf, [Fixed(buf, as, TooMany) EXCEPT !.reads = 1])
  <2>1. 1 <= Len(buf) OBVIOUS
  <2>2. QED BY <1>2, <2>1, ReadsChanged
<1>4. QED BY <1>1, <1>3 DEF EightBytes, StaysWithin

LEMMA DeviceCapabilityReads ==
  ASSUME NEW buf \in Seq(UINT8), Len(buf) >= 3
  PROVE  StaysWithin(buf, DeviceCapability(buf))
<1> DEFINE speeds == 12 + 4 * ((Byte(buf, 4) % 32) + 1)
           modes  == 44 + 4 * Byte(buf, 4)
           summary == Tabled("CONFIGURATION_SUMMARY",
                             desc_usb3_dc_configuration_summary, 0)
           usb2 == Checked(buf, "USB2_EXTENSION", <<7>>, 7, NoJunk)
           super == Checked(buf, "SUPERSPEED", <<10>>, 10, NoJunk)
           id == Checked(buf, "CONTAINER_ID", <<20>>, 20, NoJunk)
           platform == Checked(buf, "PLATFORM", <<20>>, Len(buf), NoJunk)
           ssp == Checked(buf, "SUPERSPEEDPLUS", <<12, speeds>>, speeds, NoJunk)
           toomany == Checked(buf, "BILLBOARD", <<48, TooMany>>, 0, NoJunk)
           billboard == Checked(buf, "BILLBOARD", <<48, modes>>, modes, NoJunk)
           wireless == Hidden(buf, "WIRELESS_USB")
           altmode == EightBytes(buf, "BILLBOARD_ALT_MODE")
           fwstatus == EightBytes(buf, "FWSTATUS")
           other == Unrecognized(buf)
<1>1. speeds \in Int /\ modes \in Int /\ TooMany \in Int /\ Len(buf) >= 2
  <2>1. Byte(buf, 4) \in Nat BY ByteIs
  <2>2. TooMany \in Int BY DEF TooMany
  <2>3. QED BY <2>1, <2>2
<1>2. DeviceCapability(buf) \in
        {wireless, usb2, super, ssp, id, platform, toomany, billboard,
         altmode, summary, fwstatus, other}
  <2> DEFINE type == Byte(buf, 2)
             many == Len(buf) >= 48 /\ Byte(buf, 4) > MaxAlternateModes
  <2>1. DeviceCapability(buf) =
          CASE type = WIRELESS_USB -> wireless [] type = 2 -> usb2
            [] type = 3 -> super [] type = SUPERSPEEDPLUS -> ssp
            [] type = 4 -> id [] type = 5 -> platform
            [] type = 13 -> IF many THEN toomany ELSE billboard
            [] type = 15 -> altmode [] type = 16 -> summary
            [] type = 17 -> fwstatus [] OTHER -> other
    BY DEF DeviceCapability
  <2> HIDE DEF wireless, usb2, super, ssp, id, platform, toomany, billboard,
               altmode, summary, fwstatus, other, type, many
  <2>2. QED BY <2>1, Zenon
<1> HIDE DEF speeds, modes
<1>3. /\ ByItself(buf, usb2) /\ ByItself(buf, super) /\ ByItself(buf, id)
      /\ ByItself(buf, platform)
  BY <1>1, OneCheck
<1>4. ByItself(buf, ssp) /\ ByItself(buf, toomany) /\ ByItself(buf, billboard)
  BY <1>1, TwoChecks
<1>5. ByItself(buf, wireless) /\ ByItself(buf, other)
  BY <1>1, RawWithin, DeviceClassesWithin
<1>6. StaysWithin(buf, altmode) /\ StaysWithin(buf, fwstatus)
  BY <1>1, EightBytesReads
<1>7. StaysWithin(buf, summary)
  BY TabledWithin, TablesAssumption DEF StaysWithin
<1> HIDE DEF wireless, usb2, super, ssp, id, platform, toomany, billboard,
             altmode, summary, fwstatus, other
<1>8. QED BY <1>2, <1>3, <1>4, <1>5, <1>6, <1>7 DEF StaysWithin

-----------------------------------------------------------------------------
(* Which dumps go by the name of an OTG descriptor.                       *)

\* No dump but that of an OTG descriptor goes by its name.
NotOtg(dump) == dump.as # "OTG"

\* What a dump is named does not depend on its bytes.
LEMMA Named ==
  ASSUME NEW buf, NEW as, as # "OTG"
  PROVE  /\ \A needs, reads, junk : NotOtg(Checked(buf, as, needs, reads, junk))
         /\ \A need : NotOtg(Fixed(buf, as, need))
         /\ \A from : NotOtg(Raw(buf, as, from))
         /\ NotOtg(Hidden(buf, as))
         /\ \A desc, skip : NotOtg(Tabled(as, desc, skip))
         /\ \A end, reads, raw : NotOtg(Dumped(as, end, reads, raw))
         /\ \A desc, protocol :
              NotOtg(dump_audio_subtype(buf, as, desc, protocol))
         /\ \A at : NotOtg(FormatList(buf, as, at))
         /\ \A at : NotOtg(FrameIntervals(buf, as, at))
         /\ NotOtg(EightBytes(buf, as))
<1>1. \A end, reads, raw : Dumped(as, end, reads, raw).as = as BY DEF Dumped
<1>2. \A needs, reads, junk : Checked(buf, as, needs, reads, junk).as = as
  BY <1>1 DEF Checked
<1>3. \A need : Fixed(buf, as, need).as = as BY <1>2 DEF Fixed
<1>4. \A from : Raw(buf, as, from).as = as BY <1>1 DEF Raw
<1>5. Hidden(buf, as).as = as BY <1>1 DEF Hidden
<1>6. \A desc, skip : Tabled(as, desc, skip).as = as BY DEF Tabled
<1>7. \A desc, protocol : dump_audio_subtype(buf, as, desc, protocol).as = as
  BY <1>1, <1>6, Zenon DEF dump_audio_subtype
<1>8. \A at : FormatList(buf, as, at).as = as BY <1>2 DEF FormatList
<1>9. \A at : FrameIntervals(buf, as, at).as = as BY <1>2 DEF FrameIntervals
<1>10. EightBytes(buf, as).as = as
  BY <1>3 DEF EightBytes, Fixed, Checked, Dumped
<1>11. QED
  BY <1>1, <1>2, <1>3, <1>4, <1>5, <1>6, <1>7, <1>8, <1>9, <1>10 DEF NotOtg

LEMMA EndNamed ==
  ASSUME NEW dump, NotOtg(dump), NEW end
  PROVE  NotOtg([dump EXCEPT !.end = end])
BY DEF NotOtg

\* Class by class.
LEMMA AudioControlNamed ==
  ASSUME NEW buf, NEW protocol
  PROVE  NotOtg(dump_audiocontrol_interface(buf, protocol))
<1>1. \A i \in DOMAIN AudioControlDumps \ {4, 15} :
        AudioControlDumps[i][1] # "OTG"
  BY DEF AudioControlDumps
<1>2. QED BY <1>1, Named DEF dump_audiocontrol_interface

LEMMA AudioStreamingNamed ==
  ASSUME NEW buf, NEW protocol
  PROVE  /\ NotOtg(dump_audiostreaming_interface(buf, protocol))
         /\ NotOtg(dump_audiostreaming_endpoint(buf, protocol))
<1>1. NotOtg(FormatType(buf, protocol)) BY Named DEF FormatType
<1>2. NotOtg(FormatSpecific(buf))
  <2>1. NotOtg(Checked(buf, "MPEG", <<5, 8>>, 8, 8)) BY Named
  <2>2. NotOtg(Checked(buf, "AC-3", <<5, 10>>, 10, 8)) BY Named
  <2>3. NotOtg(Checked(buf, "FORMAT_SPECIFIC", <<5>>, 5, 4)) BY Named
  <2>4. QED BY <2>1, <2>2, <2>3 DEF FormatSpecific
<1>3. NotOtg(dump_audiostreaming_interface(buf, protocol))
  BY <1>1, <1>2, Named DEF dump_audiostreaming_interface
<1>4. QED BY <1>3, Named DEF dump_audiostreaming_endpoint

LEMMA MidiStreamingNamed ==
  ASSUME NEW buf
  PROVE  /\ NotOtg(dump_midistreaming_interface(buf))
         /\ NotOtg(dump_midistreaming_endpoint(buf))
BY Named DEF dump_midistreaming_interface, dump_midistreaming_endpoint

LEMMA VideoNamed ==
  ASSUME NEW buf
  PROVE  /\ NotOtg(dump_videocontrol_interface(buf))
         /\ NotOtg(dump_videocontrol_interrupt_endpoint(buf))
         /\ NotOtg(dump_videostreaming_interface(buf))
<1>1. NotOtg(dump_videocontrol_interface(buf))
  BY Named DEF dump_videocontrol_interface
<1>2. NotOtg(dump_videocontrol_interrupt_endpoint(buf))
  BY Named DEF dump_videocontrol_interrupt_endpoint
<1>3. NotOtg(dump_videostreaming_interface(buf))
  BY Named DEF dump_videostreaming_interface
<1>4. QED BY <1>1, <1>2, <1>3

LEMMA OthersNamed ==
  ASSUME NEW buf, NEW protocol
  PROVE  /\ NotOtg(dump_dfu_interface(buf))
         /\ NotOtg(dump_ccid_device(buf))
         /\ NotOtg(dump_pipe_desc(buf))
         /\ NotOtg(dump_association(buf))
         /\ NotOtg(dump_security(buf))
         /\ NotOtg(dump_encryption_type(buf))
         /\ NotOtg(dump_wire_adapter(buf))
         /\ NotOtg(dump_rc_interface(buf))
         /\ NotOtg(Unrecognized(buf))
         /\ NotOtg(dump_printer_device(buf, protocol))
         /\ NotOtg(dump_hid_header(buf))
         /\ NotOtg(dump_comm_descriptor(buf))
<1>1. NotOtg(dump_dfu_interface(buf)) BY Named DEF dump_dfu_interface
<1>2. NotOtg(dump_ccid_device(buf)) BY Named DEF dump_ccid_device
<1>3. NotOtg(dump_pipe_desc(buf)) BY Named DEF dump_pipe_desc
<1>4. NotOtg(dump_association(buf)) BY Named DEF dump_association
<1>5. NotOtg(dump_security(buf)) BY Named DEF dump_security
<1>6. NotOtg(dump_encryption_type(buf)) BY Named DEF dump_encryption_type
<1>7. NotOtg(dump_wire_adapter(buf)) BY Named DEF dump_wire_adapter
<1>8. NotOtg(dump_rc_interface(buf)) BY Named DEF dump_rc_interface
<1>9. NotOtg(Unrecognized(buf)) BY Named DEF Unrecognized
<1>10. NotOtg(dump_printer_device(buf, protocol))
  BY Named, EndNamed DEF dump_printer_device
<1>11. NotOtg(dump_hid_header(buf)) BY Named, EndNamed DEF dump_hid_header
<1>12. NotOtg(dump_comm_descriptor(buf))
  BY Named, EndNamed, Zenon DEF dump_comm_descriptor
<1>13. QED
  BY <1>1, <1>2, <1>3, <1>4, <1>5, <1>6, <1>7, <1>8, <1>9, <1>10, <1>11, <1>12

\* A dump of an OTG descriptor's name is one of a descriptor of its type.
LEMMA OtgByType ==
  ASSUME NEW buf, Byte(buf, 1) # OTG, NEW alt, NEW attributes
  PROVE  /\ NotOtg(ConfigExtra(buf))
         /\ NotOtg(InterfaceExtra(buf, alt))
         /\ NotOtg(EndpointExtra(buf, alt, attributes))
<1>1. NotOtg(ConfigExtra(buf)) BY OthersNamed DEF ConfigExtra
<1>2. NotOtg(TaggedExtra(buf, alt))
  BY OthersNamed, AudioControlNamed, AudioStreamingNamed, MidiStreamingNamed,
     VideoNamed, Zenon
  DEF TaggedExtra
<1>3. NotOtg(UntaggedExtra(buf, alt))
  BY OthersNamed, AudioStreamingNamed, Zenon DEF UntaggedExtra
<1>4. NotOtg(InterfaceExtra(buf, alt)) BY <1>2, <1>3 DEF InterfaceExtra
<1>5. NotOtg(Hidden(buf, "CS_ENDPOINT"))
      /\ NotOtg(EndpointCompanion(buf, attributes))
  BY Named DEF EndpointCompanion
<1>6. NotOtg(EndpointExtra(buf, alt, attributes))
  BY <1>5, OthersNamed, AudioStreamingNamed, MidiStreamingNamed, VideoNamed,
     Zenon
  DEF EndpointExtra
<1>7. QED BY <1>1, <1>4, <1>6

\* No capability does either.
LEMMA CapabilityNamed ==
  ASSUME NEW buf
  PROVE  NotOtg(DeviceCapability(buf))
BY Named, OthersNamed DEF DeviceCapability

=============================================================================
