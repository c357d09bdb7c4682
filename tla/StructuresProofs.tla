-------------------------- MODULE StructuresProofs --------------------------
(***************************************************************************)
(* What module Structures says of the lists, the tasks and the page table, *)
(* for every set of nodes, tasks and addresses.  A list of pointers is     *)
(* described by the sequence it holds: ringed (list.h, the ring of tasks), *)
(* or ended by NULL with a way back (the pid hash, the children of a       *)
(* task).  The first sections say what a change of pointers does to such a *)
(* list; then come the inductive invariants ListInv, TableInv and TaskInv, *)
(* that each operation keeps them, and what follows from them.             *)
(***************************************************************************)
EXTENDS Structures, Sequences, FiniteSetTheorems, SequenceTheorems, WellFoundedInduction, TLAPS

-----------------------------------------------------------------------------
(* Induction over the naturals, for a set: the step holds of every number, *)
(* or there would be a least one outside.                                  *)
LEMMA NatInduct ==
  ASSUME NEW S, 0 \in S, \A n \in Nat : n \in S => n + 1 \in S
  PROVE  \A n \in Nat : n \in S
<1>. DEFINE R == OpToRel(<, Nat)
<1>1. \A m, n \in Nat : m < n => <<m, n>> \in R
  BY Zenon DEF OpToRel
<1>2. IsWellFoundedOn(R, Nat)
  BY NatLessThanWellFounded
<1>. HIDE DEF R
<1>. SUFFICES ASSUME NEW z \in Nat \ S PROVE FALSE
  OBVIOUS
<1>3. PICK m \in Nat \ S : \A n \in Nat \ S : <<n, m>> \notin R
  <2>. DEFINE T == Nat \ S
  <2>1. T \subseteq Nat /\ T # {}
    OBVIOUS
  <2>. HIDE DEF T
  <2>2. \E m \in T : \A n \in T : <<n, m>> \notin R
    BY <1>2, <2>1, WFMin, Zenon
  <2>. QED BY <2>2 DEF T
<1>4. m - 1 \in Nat
  BY <1>3
<1>5. <<m - 1, m>> \in R
  BY <1>1, <1>3, <1>4
<1>6. m - 1 \in S
  BY <1>3, <1>4, <1>5
<1>. QED BY <1>3, <1>4, <1>6

(* A sequence cut after its element i, and other ones put in between.      *)
LEMMA Cut ==
  ASSUME NEW S, NEW s \in Seq(S), NEW i \in 0 .. Len(s)
  PROVE  /\ SubSeq(s, 1, i) \in Seq(S) /\ Len(SubSeq(s, 1, i)) = i
         /\ \A k \in 1 .. i : SubSeq(s, 1, i)[k] = s[k]
         /\ SubSeq(s, i + 1, Len(s)) \in Seq(S) /\ Len(SubSeq(s, i + 1, Len(s))) = Len(s) - i
         /\ \A k \in 1 .. Len(s) - i : SubSeq(s, i + 1, Len(s))[k] = s[i + k]
<1>. DEFINE a == SubSeq(s, 1, i)
            b == SubSeq(s, i + 1, Len(s))
<1>0. Len(s) \in Nat /\ i \in Int /\ \A k \in 1 .. Len(s) : s[k] \in S
  BY ElementOfSeq, LenProperties
<1>1. a \in Seq(S) /\ Len(a) = i /\ \A k \in 1 .. i : a[k] = s[k]
  <2>1. 1 \in Int /\ \A k \in 1 .. i : s[k] \in S
    BY <1>0
  <2>2. /\ a \in Seq(S) /\ Len(a) = (IF 1 <= i THEN i - 1 + 1 ELSE 0)
        /\ \A k \in 1 .. i - 1 + 1 : a[k] = s[1 + k - 1]
    BY <1>0, <2>1, SubSeqProperties
  <2>. QED BY <1>0, <2>2
<1>2. b \in Seq(S) /\ Len(b) = Len(s) - i /\ \A k \in 1 .. Len(s) - i : b[k] = s[i + k]
  <2>1. i + 1 \in Int /\ Len(s) \in Int /\ \A k \in i + 1 .. Len(s) : s[k] \in S
    BY <1>0
  <2>2. /\ b \in Seq(S) /\ Len(b) = (IF i + 1 <= Len(s) THEN Len(s) - (i + 1) + 1 ELSE 0)
        /\ \A k \in 1 .. Len(s) - (i + 1) + 1 : b[k] = s[(i + 1) + k - 1]
    BY <2>1, SubSeqProperties
  <2>. QED BY <1>0, <2>2
<1>. QED BY <1>1, <1>2

LEMMA Joined ==
  ASSUME NEW S, NEW s \in Seq(S), NEW r \in Seq(S), NEW i \in 0 .. Len(s)
  PROVE  LET t == SubSeq(s, 1, i) \o r \o SubSeq(s, i + 1, Len(s))
         IN  /\ t \in Seq(S) /\ Len(t) = Len(s) + Len(r)
             /\ \A k \in 1 .. i : t[k] = s[k]
             /\ \A k \in 1 .. Len(r) : t[i + k] = r[k]
             /\ \A k \in i + 1 .. Len(s) : t[Len(r) + k] = s[k]
<1>. DEFINE a == SubSeq(s, 1, i)
            b == SubSeq(s, i + 1, Len(s))
            ar == a \o r
            t == ar \o b
            n == Len(s)
            m == Len(r)
<1>0. n \in Nat /\ m \in Nat /\ i \in 0 .. n
  BY LenProperties
<1>1. a \in Seq(S) /\ Len(a) = i /\ \A k \in 1 .. i : a[k] = s[k]
  BY Cut
<1>2. b \in Seq(S) /\ Len(b) = n - i /\ \A k \in 1 .. n - i : b[k] = s[i + k]
  BY Cut
<1>3. r \in Seq(S) /\ Len(r) = m
  OBVIOUS
<1>. HIDE DEF a, b, n, m
<1>4. /\ ar \in Seq(S) /\ Len(ar) = i + m
      /\ \A k \in 1 .. i + m : ar[k] = IF k <= i THEN a[k] ELSE r[k - i]
  <2>1. /\ ar \in Seq(S) /\ Len(ar) = Len(a) + Len(r)
        /\ \A k \in 1 .. Len(a) + Len(r) : ar[k] = IF k <= Len(a) THEN a[k] ELSE r[k - Len(a)]
    BY <1>1, ConcatProperties
  <2>. HIDE DEF ar
  <2>2. Len(a) + Len(r) = i + m
    BY <1>1, <1>3
  <2>. QED BY <1>1, <2>1, <2>2, Zenon
<1>. HIDE DEF ar
<1>5. /\ t \in Seq(S) /\ Len(t) = n + m
      /\ \A k \in 1 .. n + m : t[k] = IF k <= i + m THEN ar[k] ELSE b[k - (i + m)]
  <2>1. /\ t \in Seq(S) /\ Len(t) = Len(ar) + Len(b)
        /\ \A k \in 1 .. Len(ar) + Len(b) : t[k] = IF k <= Len(ar) THEN ar[k] ELSE b[k - Len(ar)]
    BY <1>2, <1>4, ConcatProperties
  <2>. HIDE DEF t
  <2>2. Len(ar) + Len(b) = n + m
    BY <1>0, <1>2, <1>4
  <2>. QED BY <1>4, <2>1, <2>2, Zenon
<1>. HIDE DEF t
<1>6. ASSUME NEW k \in 1 .. i PROVE t[k] = s[k]
  <2>1. k \in 1 .. n + m /\ k <= i + m /\ k \in 1 .. i + m /\ k <= i
    BY <1>0
  <2>2. t[k] = ar[k] /\ ar[k] = a[k]
    BY <1>4, <1>5, <2>1, Zenon
  <2>. QED BY <1>1, <2>2
<1>7. ASSUME NEW k \in 1 .. m PROVE t[i + k] = r[k]
  <2>1. i + k \in 1 .. n + m /\ i + k <= i + m /\ i + k \in 1 .. i + m /\ ~(i + k <= i) /\ (i + k) - i = k
    BY <1>0
  <2>2. t[i + k] = ar[i + k] /\ ar[i + k] = r[(i + k) - i]
    BY <1>4, <1>5, <2>1, Zenon
  <2>. QED BY <2>1, <2>2
<1>8. ASSUME NEW k \in i + 1 .. n PROVE t[m + k] = s[k]
  <2>1. /\ m + k \in 1 .. n + m /\ ~(m + k <= i + m)
        /\ (m + k) - (i + m) = k - i /\ k - i \in 1 .. n - i /\ i + (k - i) = k
    BY <1>0
  <2>2. t[m + k] = b[(m + k) - (i + m)]
    BY <1>5, <2>1, Zenon
  <2>3. b[k - i] = s[i + (k - i)]
    BY <1>2, <2>1, Zenon
  <2>. QED BY <2>1, <2>2, <2>3
<1>9. t = SubSeq(s, 1, i) \o r \o SubSeq(s, i + 1, Len(s))
  BY Zenon DEF t, ar, a, b
<1>. HIDE DEF t
<1>10. t \in Seq(S) /\ Len(t) = Len(s) + Len(r)
  BY <1>5, Zenon DEF n, m
<1>11. \A k \in 1 .. Len(r) : t[i + k] = r[k]
  BY <1>7, Zenon DEF m
<1>12. \A k \in i + 1 .. Len(s) : t[Len(r) + k] = s[k]
  BY <1>8, Zenon DEF n, m
<1>. QED BY <1>6, <1>9, <1>10, <1>11, <1>12, Zenon

(* The sequence t is s with e after element i, without element i, or with  *)
(* r after element i.                                                      *)
Inserts(s, i, e, t) ==
  /\ i \in 0 .. Len(s) /\ Len(t) = Len(s) + 1 /\ t[i + 1] = e
  /\ \A k \in 1 .. i : t[k] = s[k]
  /\ \A k \in i + 1 .. Len(s) : t[k + 1] = s[k]
Removes(s, i, t) ==
  /\ i \in 1 .. Len(s) /\ Len(t) = Len(s) - 1
  /\ \A k \in 1 .. i - 1 : t[k] = s[k]
  /\ \A k \in i + 1 .. Len(s) : t[k - 1] = s[k]
Joins(s, i, r, t) ==
  /\ i \in 0 .. Len(s) /\ Len(t) = Len(s) + Len(r)
  /\ \A k \in 1 .. i : t[k] = s[k]
  /\ \A k \in 1 .. Len(r) : t[i + k] = r[k]
  /\ \A k \in i + 1 .. Len(s) : t[Len(r) + k] = s[k]

PutIn(s, i, e) == SubSeq(s, 1, (i + 1) - 1) \o <<e>> \o SubSeq(s, i + 1, Len(s))
TakenOut(s, i) == SubSeq(s, 1, i - 1) \o SubSeq(s, i + 1, Len(s))
PutAll(s, i, r) == SubSeq(s, 1, i) \o r \o SubSeq(s, i + 1, Len(s))

(* An element more, and one less.                                          *)
LEMMA PutInInserts ==
  ASSUME NEW S, NEW s \in Seq(S), NEW e \in S, NEW i \in 0 .. Len(s)
  PROVE  PutIn(s, i, e) \in Seq(S) /\ Inserts(s, i, e, PutIn(s, i, e))
<1>. DEFINE one == <<e>>
            t == SubSeq(s, 1, i) \o one \o SubSeq(s, i + 1, Len(s))
<1>0. Len(s) \in Nat /\ i \in Int /\ (i + 1) - 1 = i
  BY LenProperties
<1>1. one \in Seq(S) /\ Len(one) = 1 /\ one[1] = e /\ 1 \in 1 .. 1
  OBVIOUS
<1>. HIDE DEF one
<1>2. /\ t \in Seq(S) /\ Len(t) = Len(s) + Len(one)
      /\ \A k \in 1 .. i : t[k] = s[k]
      /\ \A k \in 1 .. Len(one) : t[i + k] = one[k]
      /\ \A k \in i + 1 .. Len(s) : t[Len(one) + k] = s[k]
  BY <1>1, Joined
<1>3. t = PutIn(s, i, e)
  BY <1>0, Zenon DEF one, PutIn
<1>. HIDE DEF t
<1>4. t[i + 1] = e
  BY <1>1, <1>2, Zenon
<1>5. \A k \in i + 1 .. Len(s) : t[k + 1] = s[k]
  <2>. TAKE k \in i + 1 .. Len(s)
  <2>1. t[1 + k] = s[k] /\ 1 + k = k + 1
    <3>1. t[1 + k] = s[k]
      BY <1>1, <1>2, Zenon
    <3>. QED BY <1>0, <3>1
  <2>. QED BY <2>1, Zenon
<1>6. Len(t) = Len(s) + 1
  BY <1>1, <1>2, Zenon
<1>7. t \in Seq(S) /\ Inserts(s, i, e, t)
  BY <1>2, <1>4, <1>5, <1>6 DEF Inserts
<1>. QED BY <1>3, <1>7, Zenon

LEMMA Removed ==
  ASSUME NEW S, NEW s \in Seq(S), NEW i \in 1 .. Len(s)
  PROVE  LET t == SubSeq(s, 1, i - 1) \o SubSeq(s, i + 1, Len(s))
         IN  /\ t \in Seq(S) /\ Len(t) = Len(s) - 1
             /\ \A k \in 1 .. i - 1 : t[k] = s[k]
             /\ \A k \in i + 1 .. Len(s) : t[k - 1] = s[k]
<1>. DEFINE a == SubSeq(s, 1, i - 1)
            b == SubSeq(s, i + 1, Len(s))
            t == a \o b
            n == Len(s)
<1>0. n \in Nat /\ i \in 1 .. n /\ i - 1 \in 0 .. Len(s) /\ i \in 0 .. Len(s)
  BY LenProperties
<1>1. a \in Seq(S) /\ Len(a) = i - 1 /\ \A k \in 1 .. i - 1 : a[k] = s[k]
  BY <1>0, Cut
<1>2. b \in Seq(S) /\ Len(b) = n - i /\ \A k \in 1 .. n - i : b[k] = s[i + k]
  BY <1>0, Cut
<1>. HIDE DEF a, b, n
<1>3. /\ t \in Seq(S) /\ Len(t) = n - 1
      /\ \A k \in 1 .. n - 1 : t[k] = IF k <= i - 1 THEN a[k] ELSE b[k - (i - 1)]
  <2>1. /\ t \in Seq(S) /\ Len(t) = Len(a) + Len(b)
        /\ \A k \in 1 .. Len(a) + Len(b) : t[k] = IF k <= Len(a) THEN a[k] ELSE b[k - Len(a)]
    BY <1>1, <1>2, ConcatProperties
  <2>. HIDE DEF t
  <2>2. Len(a) + Len(b) = n - 1
    BY <1>0, <1>1, <1>2
  <2>. QED BY <1>1, <2>1, <2>2, Zenon
<1>. HIDE DEF t
<1>4. ASSUME NEW k \in 1 .. i - 1 PROVE t[k] = s[k]
  <2>1. k \in 1 .. n - 1 /\ k <= i - 1
    BY <1>0
  <2>. QED BY <1>1, <1>3, <2>1, Zenon
<1>5. ASSUME NEW k \in i + 1 .. n PROVE t[k - 1] = s[k]
  <2>1. /\ k - 1 \in 1 .. n - 1 /\ ~(k - 1 <= i - 1) /\ (k - 1) - (i - 1) = k - i
        /\ k - i \in 1 .. n - i /\ i + (k - i) = k
    BY <1>0
  <2>2. t[k - 1] = b[(k - 1) - (i - 1)]
    BY <1>3, <2>1, Zenon
  <2>3. b[k - i] = s[i + (k - i)]
    BY <1>2, <2>1, Zenon
  <2>. QED BY <2>1, <2>2, <2>3
<1>6. t = SubSeq(s, 1, i - 1) \o SubSeq(s, i + 1, Len(s))
  BY Zenon DEF t, a, b
<1>. HIDE DEF t
<1>7. Len(t) = Len(s) - 1
  BY <1>3, Zenon DEF n
<1>8. \A k \in i + 1 .. Len(s) : t[k - 1] = s[k]
  BY <1>5, Zenon DEF n
<1>. QED BY <1>3, <1>4, <1>6, <1>7, <1>8, Zenon

LEMMA TakenOutRemoves ==
  ASSUME NEW S, NEW s \in Seq(S), NEW i \in 1 .. Len(s)
  PROVE  TakenOut(s, i) \in Seq(S) /\ Removes(s, i, TakenOut(s, i))
<1>. DEFINE t == TakenOut(s, i)
<1>1. /\ t \in Seq(S) /\ Len(t) = Len(s) - 1
      /\ \A k \in 1 .. i - 1 : t[k] = s[k]
      /\ \A k \in i + 1 .. Len(s) : t[k - 1] = s[k]
  BY Removed, Zenon DEF TakenOut
<1>. HIDE DEF t
<1>2. Removes(s, i, t)
  BY <1>1 DEF Removes
<1>. QED BY <1>1, <1>2 DEF t

LEMMA PutAllJoins ==
  ASSUME NEW S, NEW s \in Seq(S), NEW r \in Seq(S), NEW i \in 0 .. Len(s)
  PROVE  PutAll(s, i, r) \in Seq(S) /\ Joins(s, i, r, PutAll(s, i, r))
<1>. DEFINE t == PutAll(s, i, r)
<1>1. /\ t \in Seq(S) /\ Len(t) = Len(s) + Len(r)
      /\ \A k \in 1 .. i : t[k] = s[k]
      /\ \A k \in 1 .. Len(r) : t[i + k] = r[k]
      /\ \A k \in i + 1 .. Len(s) : t[Len(r) + k] = s[k]
  BY Joined, Zenon DEF PutAll
<1>. HIDE DEF t
<1>2. Joins(s, i, r, t)
  BY <1>1 DEF Joins
<1>. QED BY <1>1, <1>2 DEF t
-----------------------------------------------------------------------------
(* A function iterated: the recursive definitions of the model exist.      *)
Within(g, V) == g \in [V -> V]
Orbit(f, V, g, v) == f \in [Nat -> V] /\ f[0] = v /\ \A n \in Nat : f[n + 1] = g[f[n]]

LEMMA Iteration ==
  ASSUME NEW V, NEW g, Within(g, V), NEW v \in V
  PROVE  \E f : Orbit(f, V, g, v)
<1>0. g \in [V -> V]
  BY DEF Within
<1>. DEFINE Good(f, n) == f \in [0 .. n -> V] /\ f[0] = v /\ \A i \in 0 .. n - 1 : f[i + 1] = g[f[i]]
            S == {n \in Nat : \E f : Good(f, n)}
            T(f, e, n) == {i \in Nat : i <= n => f[i] = e[i]}
            f0(n) == CHOOSE f : Good(f, n)
            F == [n \in Nat |-> f0(n)[n]]
<1>1. 0 \in S
  <2>1. Good([i \in 0 .. 0 |-> v], 0)
    OBVIOUS
  <2>. QED BY <2>1
<1>2. ASSUME NEW n \in Nat, n \in S PROVE n + 1 \in S
  <2>1. PICK f : Good(f, n)
    BY <1>2
  <2>. DEFINE e == [i \in 0 .. n + 1 |-> IF i = n + 1 THEN g[f[n]] ELSE f[i]]
  <2>2. e \in [0 .. n + 1 -> V] /\ e[0] = v
    BY <1>0, <2>1
  <2>3. \A i \in 0 .. (n + 1) - 1 : e[i + 1] = g[e[i]]
    <3>. TAKE i \in 0 .. (n + 1) - 1
    <3>1. i \in 0 .. n + 1 /\ i + 1 \in 0 .. n + 1 /\ i # n + 1
      OBVIOUS
    <3>2. e[i] = f[i]
      BY <3>1
    <3>3. CASE i = n
      <4>1. e[i + 1] = g[f[n]]
        BY <3>1, <3>3
      <4>. QED BY <3>2, <3>3, <4>1
    <3>4. CASE i # n
      <4>1. i \in 0 .. n - 1 /\ i + 1 # n + 1
        BY <3>4
      <4>2. e[i + 1] = f[i + 1]
        BY <3>1, <4>1
      <4>. QED BY <2>1, <3>2, <4>1, <4>2
    <3>. QED BY <3>3, <3>4
  <2>. HIDE DEF e
  <2>4. Good(e, n + 1)
    BY <2>2, <2>3
  <2>. QED BY <2>4
<1>3. \A n \in Nat : n \in S
  <2>. HIDE DEF S
  <2>. QED BY <1>1, <1>2, NatInduct
<1>4. ASSUME NEW n \in Nat, NEW m \in Nat, n <= m, NEW f, NEW e, Good(f, n), Good(e, m)
      PROVE  f[n] = e[n]
  <2>1. 0 \in T(f, e, n)
    BY <1>4
  <2>2. ASSUME NEW i \in Nat, i \in T(f, e, n) PROVE i + 1 \in T(f, e, n)
    <3>1. SUFFICES ASSUME i + 1 <= n PROVE f[i + 1] = e[i + 1]
      OBVIOUS
    <3>2. i \in 0 .. n - 1 /\ i \in 0 .. m - 1 /\ f[i] = e[i]
      BY <1>4, <2>2, <3>1
    <3>. QED BY <1>4, <3>2
  <2>3. n \in T(f, e, n)
    <3>. DEFINE U == T(f, e, n)
    <3>1. 0 \in U /\ \A i \in Nat : i \in U => i + 1 \in U
      BY <2>1, <2>2
    <3>. HIDE DEF U
    <3>2. n \in U
      BY <3>1, NatInduct
    <3>. QED BY <3>2 DEF U
  <2>. QED BY <2>3
<1>5. ASSUME NEW n \in Nat PROVE Good(f0(n), n)
  BY <1>3, <1>5
<1>6. ASSUME NEW n \in Nat PROVE F[n] \in V
  <2>0. Good(f0(n), n)
    BY <1>5, Zenon
  <2>1. f0(n) \in [0 .. n -> V] /\ n \in 0 .. n
    <3>. HIDE DEF f0
    <3>. QED BY <2>0
  <2>. QED BY <2>1
<1>7. F[0] = v
  <2>1. f0(0)[0] = v
    BY <1>5
  <2>. QED BY <2>1
<1>8. ASSUME NEW n \in Nat PROVE F[n + 1] = g[F[n]]
  <2>0. n + 1 \in Nat /\ n <= n + 1 /\ n \in 0 .. (n + 1) - 1
    OBVIOUS
  <2>1. Good(f0(n), n) /\ Good(f0(n + 1), n + 1)
    <3>. HIDE DEF Good, f0
    <3>. QED BY <1>5, <2>0
  <2>2. f0(n)[n] = f0(n + 1)[n]
    <3>. HIDE DEF Good, f0
    <3>. QED BY <1>4, <2>0, <2>1
  <2>3. f0(n + 1)[n + 1] = g[f0(n + 1)[n]]
    BY <2>0, <2>1
  <2>. HIDE DEF f0
  <2>. QED BY <2>0, <2>2, <2>3
<1>. HIDE DEF F
<1>9. F \in [Nat -> V]
  <2>1. F = [n \in Nat |-> F[n]]
    BY DEF F
  <2>. QED BY <1>6, <2>1
<1>10. Orbit(F, V, g, v)
  BY <1>7, <1>8, <1>9 DEF Orbit
<1>. QED BY <1>10, Zenon

-----------------------------------------------------------------------------
(* Lists on pointers.  Node i of the list s with the head h: the head is   *)
(* before the first and behind the last.                                   *)
At(h, s, i) == IF i \in 1 .. Len(s) THEN s[i] ELSE h

Chain(nx, pv, h, s) ==
  \A i \in 0 .. Len(s) : nx[At(h, s, i)] = At(h, s, i + 1) /\ pv[At(h, s, i + 1)] = At(h, s, i)

Once(s) == \A i, j \in 1 .. Len(s) : s[i] = s[j] => i = j

LEMMA AtOnce ==
  ASSUME NEW E, NEW h, h \notin E, NEW s \in Seq(E), Once(s)
  PROVE  /\ \A i \in 1 .. Len(s) : At(h, s, i) = s[i] /\ s[i] \in E
         /\ At(h, s, 0) = h /\ At(h, s, Len(s) + 1) = h
         /\ \A i, j \in 0 .. Len(s) : At(h, s, i) = At(h, s, j) => i = j
         /\ \A i, j \in 1 .. Len(s) + 1 : At(h, s, i) = At(h, s, j) => i = j
         /\ Len(s) \in Nat
<1>1. Len(s) \in Nat /\ \A i \in 1 .. Len(s) : s[i] \in E
  BY ElementOfSeq, LenProperties
<1>. QED BY <1>1 DEF At, Once

(* The pointers of the nodes in N change so that e, the nodes from first   *)
(* to last, or nothing is between p and q.                                 *)
LinksIn(N, nx, pv, nx2, pv2, p, q, e) ==
  /\ nx2[e] = q /\ nx2[p] = e /\ pv2[e] = p /\ pv2[q] = e
  /\ \A x \in N : (x \notin {e, p} => nx2[x] = nx[x]) /\ (x \notin {e, q} => pv2[x] = pv[x])
LinksOut(N, nx, pv, nx2, pv2, p, q, e) ==
  /\ nx2[p] = q /\ pv2[q] = p
  /\ \A x \in N : (x \notin {e, p} => nx2[x] = nx[x]) /\ (x \notin {e, q} => pv2[x] = pv[x])
LinksOver(N, nx, pv, nx2, pv2, p, q, first, last) ==
  /\ nx2[p] = first /\ nx2[last] = q /\ pv2[q] = last /\ pv2[first] = p
  /\ \A x \in N : (x \notin {last, p} => nx2[x] = nx[x]) /\ (x \notin {first, q} => pv2[x] = pv[x])

ListOf(E, h, s) == h \notin E /\ s \in Seq(E) /\ Once(s)
Has(s, e) == \E i \in 1 .. Len(s) : s[i] = e
Apart(s, r) == \A i \in 1 .. Len(s), j \in 1 .. Len(r) : s[i] # r[j]

(* An element comes in between node i and the next one.                    *)
LEMMA ChainInsert ==
  ASSUME NEW E, NEW h, NEW s, ListOf(E, h, s), NEW t \in Seq(E), NEW e \in E, ~Has(s, e),
         NEW i, Inserts(s, i, e, t),
         NEW nx, NEW pv, NEW nx2, NEW pv2, Chain(nx, pv, h, s),
         LinksIn(E \union {h}, nx, pv, nx2, pv2, At(h, s, i), At(h, s, i + 1), e)
  PROVE  Chain(nx2, pv2, h, t) /\ Once(t)
<1>. USE DEF ListOf, Has, Inserts, LinksIn
<1>. DEFINE n == Len(s)
            a(k) == At(h, s, k)
            b(k) == At(h, t, k)
<1>0. /\ n \in Nat /\ i \in 0 .. n /\ Len(t) = n + 1
      /\ \A k \in 1 .. n : a(k) = s[k] /\ s[k] \in E
      /\ a(0) = h /\ a(n + 1) = h
      /\ \A k, j \in 0 .. n : a(k) = a(j) => k = j
      /\ \A k, j \in 1 .. n + 1 : a(k) = a(j) => k = j
  BY AtOnce
<1>1. /\ \A k \in 0 .. n + 1 : a(k) \in E \union {h} /\ a(k) # e
      /\ \A k \in 0 .. n : nx[a(k)] = a(k + 1) /\ pv[a(k + 1)] = a(k)
  <2>1. \A k \in 0 .. n + 1 : k \in 1 .. n \/ a(k) = h
    BY <1>0
  <2>. QED BY <1>0, <2>1 DEF Chain
<1>2. /\ \A k \in 0 .. i : b(k) = a(k)
      /\ b(i + 1) = e
      /\ \A k \in i + 1 .. n + 1 : b(k + 1) = a(k)
  <2>1. b(0) = h /\ b(n + 2) = h /\ \A k \in 1 .. n + 1 : b(k) = t[k]
    BY <1>0 DEF At
  <2>2. \A k \in 0 .. i : b(k) = a(k)
    <3>1. \A k \in 1 .. i : b(k) = t[k] /\ a(k) = s[k] /\ t[k] = s[k]
      BY <1>0, <2>1
    <3>. QED BY <1>0, <2>1, <3>1
  <2>3. b(i + 1) = e
    BY <1>0, <2>1
  <2>4. ASSUME NEW k \in i + 1 .. n + 1 PROVE b(k + 1) = a(k)
    <3>1. CASE k = n + 1
      BY <1>0, <2>1, <3>1
    <3>2. CASE k \in 1 .. n
      <4>1. k + 1 \in 1 .. n + 1 /\ t[k + 1] = s[k]
        BY <1>0, <3>2
      <4>. QED BY <1>0, <2>1, <3>2, <4>1
    <3>. QED BY <1>0, <3>1, <3>2
  <2>. QED BY <2>2, <2>3, <2>4
<1>. HIDE DEF n, a, b
<1>3. /\ nx2[e] = a(i + 1) /\ nx2[a(i)] = e /\ pv2[e] = a(i) /\ pv2[a(i + 1)] = e
      /\ \A x \in E \union {h} : (x \notin {e, a(i)} => nx2[x] = nx[x]) /\ (x \notin {e, a(i + 1)} => pv2[x] = pv[x])
  BY DEF a
<1>4. ASSUME NEW k \in 0 .. n + 1 PROVE nx2[b(k)] = b(k + 1) /\ pv2[b(k + 1)] = b(k)
  <2>1. CASE k < i
    <3>1. k \in 0 .. n /\ k + 1 \in 1 .. n + 1 /\ i + 1 \in 1 .. n + 1 /\ k \in 0 .. i /\ k + 1 \in 0 .. i /\ k + 1 \in 0 .. n + 1
          /\ k \in 0 .. n + 1
      BY <1>0, <2>1
    <3>2. a(k) # a(i) /\ a(k + 1) # a(i + 1)
      BY <1>0, <2>1, <3>1
    <3>3. nx2[a(k)] = a(k + 1) /\ pv2[a(k + 1)] = a(k)
      BY <1>1, <1>3, <3>1, <3>2
    <3>. QED BY <1>2, <3>1, <3>3
  <2>2. CASE k = i
    BY <1>0, <1>2, <1>3, <2>2
  <2>3. CASE k = i + 1
    <3>1. i + 1 \in i + 1 .. n + 1
      BY <1>0
    <3>. QED BY <1>2, <1>3, <2>3, <3>1
  <2>4. CASE k > i + 1
    <3>1. k - 1 \in 0 .. n /\ k \in 1 .. n + 1 /\ i + 1 \in 1 .. n + 1 /\ k - 1 \in i + 1 .. n + 1 /\ k \in i + 1 .. n + 1
          /\ k - 1 \in 0 .. n + 1 /\ (k - 1) + 1 = k
      BY <1>0, <2>4
    <3>2. a(k - 1) # a(i) /\ a(k) # a(i + 1)
      BY <1>0, <2>4, <3>1
    <3>3. nx[a(k - 1)] = a(k) /\ pv[a(k)] = a(k - 1) /\ a(k - 1) # e /\ a(k) # e /\ a(k - 1) \in E \union {h} /\ a(k) \in E \union {h}
      BY <1>1, <3>1, Zenon
    <3>4. nx2[a(k - 1)] = a(k) /\ pv2[a(k)] = a(k - 1)
      BY <1>3, <3>2, <3>3
    <3>5. b(k) = a(k - 1) /\ b(k + 1) = a(k)
      BY <1>2, <3>1
    <3>. QED BY <3>4, <3>5
  <2>. QED BY <1>0, <2>1, <2>2, <2>3, <2>4
<1>5. Chain(nx2, pv2, h, t)
  BY <1>0, <1>4 DEF Chain, b
<1>6. Once(t)
  <2>1. \A k \in 1 .. n + 1 : t[k] = b(k)
    BY <1>0 DEF b, At
  <2>2. \A k \in 1 .. n + 1 : b(k) = (IF k <= i THEN a(k) ELSE IF k = i + 1 THEN e ELSE a(k - 1))
    BY <1>0, <1>2
  <2>3. \A k, j \in 1 .. n : a(k) = a(j) => k = j
    BY <1>0
  <2>4. \A k \in 1 .. n : k \in 0 .. n + 1
    BY <1>0
  <2>5. \A k \in 1 .. n : a(k) # e
    BY <1>1, <2>4, Zenon
  <2>6. n \in Nat /\ i \in 0 .. n /\ Len(t) = n + 1
    BY <1>0
  <2>7. ASSUME NEW k \in 1 .. n + 1, NEW j \in 1 .. n + 1, t[k] = t[j] PROVE k = j
    <3>1. /\ t[k] = (IF k <= i THEN a(k) ELSE IF k = i + 1 THEN e ELSE a(k - 1))
          /\ t[j] = (IF j <= i THEN a(j) ELSE IF j = i + 1 THEN e ELSE a(j - 1))
      BY <2>1, <2>2
    <3>2. /\ k <= i => k \in 1 .. n
          /\ k > i + 1 => k - 1 \in 1 .. n
          /\ j <= i => j \in 1 .. n
          /\ j > i + 1 => j - 1 \in 1 .. n
      BY <2>6
    <3>3. /\ k - 1 \in 1 .. n => a(k - 1) # e
          /\ j - 1 \in 1 .. n => a(j - 1) # e
          /\ k \in 1 .. n => a(k) # e
          /\ j \in 1 .. n => a(j) # e
      BY <2>5
    <3>4. /\ k \in 1 .. n /\ j \in 1 .. n /\ a(k) = a(j) => k = j
          /\ k - 1 \in 1 .. n /\ j - 1 \in 1 .. n /\ a(k - 1) = a(j - 1) => k - 1 = j - 1
          /\ k - 1 \in 1 .. n /\ j \in 1 .. n /\ a(k - 1) = a(j) => k - 1 = j
          /\ k \in 1 .. n /\ j - 1 \in 1 .. n /\ a(k) = a(j - 1) => k = j - 1
      BY ONLY <2>3
    <3>5. k \in 1 .. n + 1 /\ j \in 1 .. n + 1
      OBVIOUS
    <3>6. t[k] = t[j]
      BY <2>7
    <3>7. CASE k <= i
      BY <2>6, <3>1, <3>2, <3>3, <3>4, <3>5, <3>6, <3>7
    <3>8. CASE k = i + 1
      BY <2>6, <3>1, <3>2, <3>3, <3>4, <3>5, <3>6, <3>8
    <3>9. CASE k > i + 1
      BY <2>6, <3>1, <3>2, <3>3, <3>4, <3>5, <3>6, <3>9
    <3>. QED BY <2>6, <3>5, <3>7, <3>8, <3>9
  <2>. QED BY <2>6, <2>7, Zenon DEF Once
<1>. QED BY <1>5, <1>6

(* Element i is taken out; its own pointers are not looked at.             *)
LEMMA ChainRemove ==
  ASSUME NEW E, NEW h, NEW s, ListOf(E, h, s), NEW t \in Seq(E), NEW i, Removes(s, i, t),
         NEW nx, NEW pv, NEW nx2, NEW pv2, Chain(nx, pv, h, s),
         LinksOut(E \union {h}, nx, pv, nx2, pv2, At(h, s, i - 1), At(h, s, i + 1), s[i])
  PROVE  Chain(nx2, pv2, h, t) /\ Once(t)
<1>. USE DEF ListOf, Removes, LinksOut
<1>. DEFINE n == Len(s)
            a(k) == At(h, s, k)
            b(k) == At(h, t, k)
<1>0. /\ n \in Nat /\ i \in 1 .. n /\ Len(t) = n - 1
      /\ \A k \in 1 .. n : a(k) = s[k] /\ s[k] \in E
      /\ a(0) = h /\ a(n + 1) = h
      /\ \A k, j \in 0 .. n : a(k) = a(j) => k = j
      /\ \A k, j \in 1 .. n + 1 : a(k) = a(j) => k = j
  BY AtOnce
<1>1. /\ \A k \in 0 .. n + 1 : a(k) \in E \union {h}
      /\ \A k \in 0 .. n : nx[a(k)] = a(k + 1) /\ pv[a(k + 1)] = a(k)
  <2>1. \A k \in 0 .. n + 1 : k \in 1 .. n \/ a(k) = h
    BY <1>0
  <2>. QED BY <1>0, <2>1 DEF Chain
<1>2. /\ \A k \in 0 .. i - 1 : b(k) = a(k)
      /\ \A k \in i + 1 .. n + 1 : b(k - 1) = a(k)
  <2>1. b(0) = h /\ b(n) = h /\ \A k \in 1 .. n - 1 : b(k) = t[k]
    BY <1>0 DEF At
  <2>2. \A k \in 0 .. i - 1 : b(k) = a(k)
    <3>1. \A k \in 1 .. i - 1 : b(k) = t[k] /\ a(k) = s[k] /\ t[k] = s[k]
      BY <1>0, <2>1
    <3>. QED BY <1>0, <2>1, <3>1
  <2>3. ASSUME NEW k \in i + 1 .. n + 1 PROVE b(k - 1) = a(k)
    <3>1. CASE k = n + 1
      BY <1>0, <2>1, <3>1
    <3>2. CASE k \in 1 .. n
      <4>1. k - 1 \in 1 .. n - 1 /\ t[k - 1] = s[k]
        BY <1>0, <3>2
      <4>. QED BY <1>0, <2>1, <3>2, <4>1
    <3>3. k = n + 1 \/ k \in 1 .. n
      BY <1>0
    <3>. QED BY <3>1, <3>2, <3>3
  <2>. QED BY <2>2, <2>3
<1>. HIDE DEF n, a, b
<1>3. /\ nx2[a(i - 1)] = a(i + 1) /\ pv2[a(i + 1)] = a(i - 1) /\ s[i] = a(i)
      /\ \A x \in E \union {h} :
           (x \notin {a(i), a(i - 1)} => nx2[x] = nx[x]) /\ (x \notin {a(i), a(i + 1)} => pv2[x] = pv[x])
  <2>1. s[i] = a(i)
    BY <1>0
  <2>. QED BY <2>1 DEF a
<1>4. ASSUME NEW k \in 0 .. n - 1 PROVE nx2[b(k)] = b(k + 1) /\ pv2[b(k + 1)] = b(k)
  <2>1. CASE k < i - 1
    <3>1. k \in 0 .. n /\ k + 1 \in 1 .. n + 1 /\ i + 1 \in 1 .. n + 1 /\ i - 1 \in 0 .. n /\ i \in 0 .. n /\ i \in 1 .. n + 1
          /\ k \in 0 .. i - 1 /\ k + 1 \in 0 .. i - 1 /\ k + 1 \in 0 .. n + 1 /\ k \in 0 .. n + 1
      BY <1>0, <2>1
    <3>2. a(k) # a(i) /\ a(k) # a(i - 1) /\ a(k + 1) # a(i + 1) /\ a(k + 1) # a(i)
      BY <1>0, <2>1, <3>1
    <3>3. nx2[a(k)] = a(k + 1) /\ pv2[a(k + 1)] = a(k)
      BY <1>1, <1>3, <3>1, <3>2
    <3>. QED BY <1>2, <3>1, <3>3
  <2>2. CASE k = i - 1
    <3>1. i - 1 \in 0 .. i - 1 /\ i + 1 \in i + 1 .. n + 1 /\ (i + 1) - 1 = k + 1
      BY <1>0, <2>2
    <3>2. b(k) = a(i - 1) /\ b(k + 1) = a(i + 1)
      BY <1>2, <2>2, <3>1
    <3>. QED BY <1>3, <3>2
  <2>3. CASE k > i - 1
    <3>1. k + 1 \in 0 .. n /\ k + 2 \in 1 .. n + 1 /\ i + 1 \in 1 .. n + 1 /\ k + 1 \in i + 1 .. n + 1 /\ k + 2 \in i + 1 .. n + 1
          /\ k + 1 \in 0 .. n + 1 /\ (k + 1) - 1 = k /\ (k + 2) - 1 = k + 1 /\ (k + 1) + 1 = k + 2 /\ k + 2 \in 0 .. n + 1
          /\ i \in 0 .. n /\ i - 1 \in 0 .. n /\ i \in 1 .. n + 1
      BY <1>0, <2>3
    <3>2. a(k + 1) # a(i) /\ a(k + 1) # a(i - 1) /\ a(k + 2) # a(i + 1) /\ a(k + 2) # a(i)
      BY <1>0, <2>3, <3>1
    <3>3. nx[a(k + 1)] = a(k + 2) /\ pv[a(k + 2)] = a(k + 1) /\ a(k + 1) \in E \union {h} /\ a(k + 2) \in E \union {h}
      BY <1>1, <3>1, Zenon
    <3>4. nx2[a(k + 1)] = a(k + 2) /\ pv2[a(k + 2)] = a(k + 1)
      BY <1>3, <3>2, <3>3
    <3>5. b(k) = a(k + 1) /\ b(k + 1) = a(k + 2)
      BY <1>2, <3>1
    <3>. QED BY <3>4, <3>5
  <2>. QED BY <1>0, <2>1, <2>2, <2>3
<1>5. Chain(nx2, pv2, h, t)
  BY <1>0, <1>4 DEF Chain, b
<1>6. Once(t)
  <2>1. \A k \in 1 .. n - 1 : t[k] = b(k)
    BY <1>0 DEF b, At
  <2>2. \A k \in 1 .. n - 1 : b(k) = (IF k < i THEN a(k) ELSE a(k + 1))
    <3>. TAKE k \in 1 .. n - 1
    <3>1. CASE k < i
      BY <1>0, <1>2, <3>1
    <3>2. CASE k >= i
      <4>1. k + 1 \in i + 1 .. n + 1 /\ (k + 1) - 1 = k /\ ~(k < i)
        BY <1>0, <3>2
      <4>2. b((k + 1) - 1) = a(k + 1)
        BY <1>2, <4>1, Zenon
      <4>. QED BY <4>1, <4>2
    <3>. QED BY <1>0, <3>1, <3>2
  <2>3. \A k, j \in 1 .. n : a(k) = a(j) => k = j
    BY <1>0
  <2>4. n \in Nat /\ i \in 1 .. n /\ Len(t) = n - 1
    BY <1>0
  <2>5. \A k, j \in 1 .. n - 1 : t[k] = t[j] => k = j
    BY ONLY <2>1, <2>2, <2>3, <2>4
  <2>. QED BY <2>4, <2>5, Zenon DEF Once
<1>. QED BY <1>5, <1>6
(* The elements of another list come in between node i and the next one.   *)
LEMMA ChainJoin ==
  ASSUME NEW E, NEW h, NEW s, ListOf(E, h, s), NEW g, NEW r, ListOf(E, g, r), Apart(s, r), Len(r) # 0,
         NEW t \in Seq(E), NEW i, Joins(s, i, r, t),
         NEW nx, NEW pv, NEW nx2, NEW pv2, Chain(nx, pv, h, s), Chain(nx, pv, g, r),
         LinksOver(E \union {h}, nx, pv, nx2, pv2, At(h, s, i), At(h, s, i + 1), r[1], r[Len(r)])
  PROVE  Chain(nx2, pv2, h, t) /\ Once(t)
<1>. USE DEF ListOf, Apart, Joins, LinksOver
<1>. DEFINE n == Len(s)
            m == Len(r)
            a(k) == At(h, s, k)
            b(k) == At(h, t, k)
<1>0. /\ n \in Nat /\ i \in 0 .. n
      /\ \A k \in 1 .. n : a(k) = s[k] /\ s[k] \in E
      /\ a(0) = h /\ a(n + 1) = h
      /\ \A k, j \in 0 .. n : a(k) = a(j) => k = j
      /\ \A k, j \in 1 .. n + 1 : a(k) = a(j) => k = j
  BY AtOnce
<1>. DEFINE c(k) == At(g, r, k)
<1>1. /\ m \in Nat /\ m > 0 /\ Len(t) = n + m
      /\ \A k \in 1 .. m : r[k] \in E /\ c(k) = r[k]
      /\ \A k, j \in 1 .. m : r[k] = r[j] => k = j
  <2>1. Len(r) \in Nat /\ \A k \in 1 .. Len(r) : r[k] \in E
    BY ElementOfSeq, LenProperties
  <2>. QED BY <2>1 DEF Once, At
<1>2. /\ \A k \in 0 .. n + 1 : a(k) \in E \union {h}
      /\ \A k \in 0 .. n : nx[a(k)] = a(k + 1) /\ pv[a(k + 1)] = a(k)
  <2>1. \A k \in 0 .. n + 1 : k \in 1 .. n \/ a(k) = h
    BY <1>0
  <2>. QED BY <1>0, <2>1 DEF Chain
<1>3. \A k \in 1 .. m - 1 : nx[r[k]] = r[k + 1] /\ pv[r[k + 1]] = r[k]
  <2>. TAKE k \in 1 .. m - 1
  <2>1. k \in 0 .. m /\ k \in 1 .. m /\ k + 1 \in 1 .. m
    BY <1>1
  <2>2. nx[c(k)] = c(k + 1) /\ pv[c(k + 1)] = c(k)
    BY <2>1 DEF Chain
  <2>. QED BY <1>1, <2>1, <2>2
<1>4. \A k \in 0 .. n + 1, j \in 1 .. m : a(k) # r[j]
  <2>. TAKE k \in 0 .. n + 1, j \in 1 .. m
  <2>1. k \in 1 .. n \/ a(k) = h
    BY <1>0
  <2>2. CASE k \in 1 .. n
    <3>1. \A x \in 1 .. n, y \in 1 .. m : s[x] # r[y]
      OBVIOUS
    <3>2. a(k) = s[k]
      BY <1>0, <2>2, Zenon
    <3>3. s[k] # r[j]
      BY <3>1, <2>2, Zenon
    <3>. HIDE DEF a, n, m
    <3>. QED BY <3>2, <3>3, Zenon
  <2>. QED BY <1>1, <2>1, <2>2
<1>5. /\ \A k \in 0 .. i : b(k) = a(k)
      /\ \A k \in 1 .. m : b(i + k) = r[k]
      /\ \A k \in i + 1 .. n + 1 : b(m + k) = a(k)
  <2>1. b(0) = h /\ b(n + m + 1) = h /\ \A k \in 1 .. n + m : b(k) = t[k]
    BY <1>0, <1>1 DEF At
  <2>2. \A k \in 0 .. i : b(k) = a(k)
    <3>1. \A k \in 1 .. i : k \in 1 .. n + m /\ k \in 1 .. n
      BY <1>0, <1>1
    <3>2. \A k \in 1 .. i : b(k) = t[k] /\ a(k) = s[k] /\ t[k] = s[k]
      BY <1>0, <2>1, <3>1
    <3>. QED BY <1>0, <2>1, <3>2
  <2>3. ASSUME NEW k \in 1 .. m PROVE b(i + k) = r[k]
    <3>1. i + k \in 1 .. n + m
      BY <1>0, <1>1
    <3>. QED BY <2>1, <3>1
  <2>4. ASSUME NEW k \in i + 1 .. n + 1 PROVE b(m + k) = a(k)
    <3>1. CASE k = n + 1
      <4>1. m + k = n + m + 1
        BY <1>0, <1>1, <3>1
      <4>. QED BY <1>0, <2>1, <3>1, <4>1
    <3>2. CASE k \in 1 .. n
      <4>1. m + k \in 1 .. n + m /\ t[m + k] = s[k]
        BY <1>0, <1>1, <3>2
      <4>. QED BY <1>0, <2>1, <3>2, <4>1
    <3>3. k = n + 1 \/ k \in 1 .. n
      <4>1. n \in Nat /\ i \in 0 .. n /\ k \in i + 1 .. n + 1
        BY <1>0
      <4>. HIDE DEF n
      <4>. QED BY ONLY <4>1
    <3>. QED BY <3>1, <3>2, <3>3
  <2>. QED BY <2>2, <2>3, <2>4
<1>. HIDE DEF n, m, a, b, c
<1>6. /\ nx2[a(i)] = r[1] /\ nx2[r[m]] = a(i + 1) /\ pv2[a(i + 1)] = r[m] /\ pv2[r[1]] = a(i)
      /\ \A x \in E \union {h} : (x \notin {r[m], a(i)} => nx2[x] = nx[x]) /\ (x \notin {r[1], a(i + 1)} => pv2[x] = pv[x])
  BY DEF a, m
<1>7. ASSUME NEW k \in 0 .. n + m PROVE nx2[b(k)] = b(k + 1) /\ pv2[b(k + 1)] = b(k)
  <2>1. CASE k < i
    <3>1. k \in 0 .. n /\ k + 1 \in 1 .. n + 1 /\ i + 1 \in 1 .. n + 1 /\ k \in 0 .. i /\ k + 1 \in 0 .. i /\ k + 1 \in 0 .. n + 1
          /\ k \in 0 .. n + 1 /\ m \in 1 .. m /\ 1 \in 1 .. m
      BY <1>0, <1>1, <2>1
    <3>2. a(k) # a(i) /\ a(k + 1) # a(i + 1)
      BY <1>0, <2>1, <3>1
    <3>3. a(k) # r[m] /\ a(k + 1) # r[1] /\ a(k) \in E \union {h} /\ a(k + 1) \in E \union {h} /\ nx[a(k)] = a(k + 1) /\ pv[a(k + 1)] = a(k)
      BY <1>2, <1>4, <3>1, Zenon
    <3>4. nx2[a(k)] = a(k + 1) /\ pv2[a(k + 1)] = a(k)
      BY <1>6, <3>2, <3>3
    <3>. QED BY <1>5, <3>1, <3>4
  <2>2. CASE k = i
    <3>1. i \in 0 .. i /\ 1 \in 1 .. m
      BY <1>0, <1>1
    <3>2. b(k) = a(i) /\ b(k + 1) = r[1]
      BY <1>5, <2>2, <3>1
    <3>. QED BY <1>6, <3>2
  <2>3. CASE k > i /\ k < i + m
    <3>. DEFINE j == k - i
    <3>1. j \in 1 .. m - 1 /\ j \in 1 .. m /\ j + 1 \in 1 .. m /\ k = i + j /\ k + 1 = i + (j + 1)
          /\ m \in 1 .. m /\ 1 \in 1 .. m /\ j # m /\ j + 1 # 1 /\ i \in 0 .. n + 1 /\ i + 1 \in 0 .. n + 1
      BY <1>0, <1>1, <2>3
    <3>. HIDE DEF j
    <3>2. b(k) = r[j] /\ b(k + 1) = r[j + 1]
      BY <1>5, <3>1
    <3>3. nx[r[j]] = r[j + 1] /\ pv[r[j + 1]] = r[j] /\ r[j] \in E /\ r[j + 1] \in E
      BY <1>1, <1>3, <3>1
    <3>4. r[j] # r[m] /\ r[j + 1] # r[1]
      BY <1>1, <3>1
    <3>5. r[j] # a(i) /\ r[j + 1] # a(i + 1)
      BY <1>4, <3>1
    <3>. QED BY <1>6, <3>2, <3>3, <3>4, <3>5
  <2>4. CASE k = i + m
    <3>1. m \in 1 .. m /\ i + 1 \in i + 1 .. n + 1 /\ k + 1 = m + (i + 1)
      BY <1>0, <1>1, <2>4
    <3>2. b(k) = r[m] /\ b(k + 1) = a(i + 1)
      BY <1>5, <2>4, <3>1
    <3>. QED BY <1>6, <3>2
  <2>5. CASE k > i + m
    <3>. DEFINE j == k - m
    <3>1. j \in 0 .. n /\ j + 1 \in 1 .. n + 1 /\ i + 1 \in 1 .. n + 1 /\ j \in i + 1 .. n + 1 /\ j + 1 \in i + 1 .. n + 1
          /\ j \in 0 .. n + 1 /\ j + 1 \in 0 .. n + 1 /\ k = m + j /\ k + 1 = m + (j + 1)
          /\ j # i /\ j + 1 # i + 1 /\ i \in 0 .. n /\ m \in 1 .. m /\ 1 \in 1 .. m
      BY <1>0, <1>1, <2>5
    <3>. HIDE DEF j
    <3>2. a(j) # a(i) /\ a(j + 1) # a(i + 1)
      BY <1>0, <3>1
    <3>3. a(j) # r[m] /\ a(j + 1) # r[1] /\ a(j) \in E \union {h} /\ a(j + 1) \in E \union {h} /\ nx[a(j)] = a(j + 1) /\ pv[a(j + 1)] = a(j)
      BY <1>2, <1>4, <3>1, Zenon
    <3>4. nx2[a(j)] = a(j + 1) /\ pv2[a(j + 1)] = a(j)
      BY <1>6, <3>2, <3>3
    <3>5. b(k) = a(j) /\ b(k + 1) = a(j + 1)
      BY <1>5, <3>1
    <3>. QED BY <3>4, <3>5
  <2>. QED BY <1>0, <1>1, <2>1, <2>2, <2>3, <2>4, <2>5
<1>8. Chain(nx2, pv2, h, t)
  BY <1>1, <1>7 DEF Chain, b
<1>9. Once(t)
  <2>0. n \in Nat /\ m \in Nat /\ i \in 0 .. n /\ Len(t) = n + m
    BY <1>0, <1>1
  <2>1. ASSUME NEW k \in 1 .. n + m
        PROVE  \/ k <= i /\ k \in 1 .. n /\ t[k] = a(k)
               \/ k > i /\ k <= i + m /\ k - i \in 1 .. m /\ t[k] = r[k - i]
               \/ k > i + m /\ k - m \in 1 .. n /\ t[k] = a(k - m)
    <3>1. t[k] = b(k)
      BY <1>1 DEF b, At
    <3>2. CASE k <= i
      <4>1. k \in 0 .. i /\ k \in 1 .. n
        BY <2>0, <3>2
      <4>. QED BY <1>5, <3>1, <3>2, <4>1
    <3>3. CASE k > i /\ k <= i + m
      <4>1. k - i \in 1 .. m /\ i + (k - i) = k
        BY <2>0, <3>3
      <4>2. b(i + (k - i)) = r[k - i]
        BY <1>5, <4>1, Zenon
      <4>. QED BY <3>1, <3>3, <4>1, <4>2
    <3>4. CASE k > i + m
      <4>1. k - m \in 1 .. n /\ k - m \in i + 1 .. n + 1 /\ m + (k - m) = k
        BY <2>0, <3>4
      <4>2. b(m + (k - m)) = a(k - m)
        BY <1>5, <4>1, Zenon
      <4>. QED BY <3>1, <3>4, <4>1, <4>2
    <3>. QED BY <2>0, <3>2, <3>3, <3>4
  <2>2. ASSUME NEW k \in 1 .. n + m, NEW j \in 1 .. n + m, t[k] = t[j] PROVE k = j
    <3>1. /\ \/ k <= i /\ k \in 1 .. n /\ t[k] = a(k)
             \/ k > i /\ k <= i + m /\ k - i \in 1 .. m /\ t[k] = r[k - i]
             \/ k > i + m /\ k - m \in 1 .. n /\ t[k] = a(k - m)
          /\ \/ j <= i /\ j \in 1 .. n /\ t[j] = a(j)
             \/ j > i /\ j <= i + m /\ j - i \in 1 .. m /\ t[j] = r[j - i]
             \/ j > i + m /\ j - m \in 1 .. n /\ t[j] = a(j - m)
      BY <2>1
    <3>2. /\ \A x, z \in 1 .. n : a(x) = a(z) => x = z
          /\ \A x \in 1 .. n, z \in 1 .. m : a(x) # r[z]
          /\ \A x, z \in 1 .. m : r[x] = r[z] => x = z
      BY <1>0, <1>1, <1>4
    <3>3. t[k] = t[j]
      BY <2>2
    <3>4. CASE k <= i
      BY <2>0, <3>1, <3>2, <3>3, <3>4
    <3>5. CASE k > i /\ k <= i + m
      BY <2>0, <3>1, <3>2, <3>3, <3>5
    <3>6. CASE k > i + m
      BY <2>0, <3>1, <3>2, <3>3, <3>6
    <3>. QED BY <2>0, <3>4, <3>5, <3>6
  <2>. QED BY <2>0, <2>2, Zenon DEF Once
<1>. QED BY <1>8, <1>9

(* A list is what it was as long as its own pointers are.                  *)
LEMMA ChainFrame ==
  ASSUME NEW h, NEW s, NEW nx, NEW pv, NEW nx2, NEW pv2, Chain(nx, pv, h, s), Len(s) \in Nat,
         \A i \in 0 .. Len(s) : LET x == At(h, s, i) IN nx2[x] = nx[x] /\ pv2[x] = pv[x]
  PROVE  Chain(nx2, pv2, h, s)
<1>. SUFFICES ASSUME NEW i \in 0 .. Len(s)
              PROVE  nx2[At(h, s, i)] = At(h, s, i + 1) /\ pv2[At(h, s, i + 1)] = At(h, s, i)
  BY DEF Chain
<1>1. nx[At(h, s, i)] = At(h, s, i + 1) /\ pv[At(h, s, i + 1)] = At(h, s, i)
  BY DEF Chain
<1>2. \E j \in 0 .. Len(s) : At(h, s, i + 1) = At(h, s, j)
  <2>1. CASE i + 1 <= Len(s)
    BY <2>1
  <2>2. CASE i = Len(s)
    <3>1. At(h, s, i + 1) = h /\ At(h, s, 0) = h /\ 0 \in 0 .. Len(s)
      BY <2>2 DEF At
    <3>. QED BY <3>1
  <2>. QED BY <2>1, <2>2
<1>. QED BY <1>1, <1>2
-----------------------------------------------------------------------------
(* What Items of LinkedList computes, as a function of the pointers.       *)
StepsOf(nx, n, i) == LET f[j \in Nat] == IF j = 0 THEN n ELSE nx[f[j - 1]] IN f[i]

ItemsOf(nx, st, h) ==
  LET limit == Cardinality(Heads \union Entries)
      end == CHOOSE i \in 1 .. limit :
        /\ StepsOf(nx, h, i) = h \/ i = limit
        /\ \A j \in 1 .. i - 1 : StepsOf(nx, h, j) # h
  IN IF h \in st THEN <<>> ELSE [i \in 1 .. end - 1 |-> StepsOf(nx, h, i)]

(* Following the pointers from the head is going along the sequence.       *)
LEMMA StepsAre ==
  ASSUME NEW E, NEW h, h \notin E, NEW s \in Seq(E), Once(s),
         NEW nx, NEW pv, Chain(nx, pv, h, s)
  PROVE  \A i \in 0 .. Len(s) + 1 : StepsOf(nx, h, i) = At(h, s, i)
<1>. DEFINE n == Len(s)
            a(i) == At(h, s, i)
            f[j \in Nat] == IF j = 0 THEN h ELSE nx[f[j - 1]]
            V == {a(i) : i \in 0 .. n}
            g == [x \in V |-> nx[x]]
<1>0. n \in Nat /\ a(0) = h /\ a(n + 1) = h /\ \A i \in 0 .. n : nx[a(i)] = a(i + 1)
  BY AtOnce DEF Chain
<1>. HIDE DEF n, a
<1>1. h \in V /\ g \in [V -> V]
  <2>1. h \in V
    BY <1>0
  <2>2. ASSUME NEW x \in V PROVE nx[x] \in V
    <3>1. PICK i \in 0 .. n : x = a(i)
      OBVIOUS
    <3>2. nx[x] = a(i + 1)
      BY <1>0, <3>1
    <3>3. CASE i = n
      BY <1>0, <2>1, <3>2, <3>3
    <3>4. CASE i # n
      <4>1. i + 1 \in 0 .. n
        BY <1>0, <3>4
      <4>. QED BY <3>2, <4>1
    <3>. QED BY <3>3, <3>4
  <2>. HIDE DEF V
  <2>. QED BY <2>1, <2>2
<1>2. PICK F \in [Nat -> V] : F[0] = h /\ \A k \in Nat : F[k + 1] = g[F[k]]
  <2>. HIDE DEF f, g, V
  <2>1. Within(g, V)
    BY <1>1 DEF Within
  <2>2. PICK F : Orbit(F, V, g, h)
    BY <1>1, <2>1, Iteration
  <2>. QED BY <2>2 DEF Orbit
<1>3. F = [j \in Nat |-> IF j = 0 THEN h ELSE nx[F[j - 1]]]
  <2>1. ASSUME NEW j \in Nat PROVE F[j] = IF j = 0 THEN h ELSE nx[F[j - 1]]
    <3>1. CASE j # 0
      <4>1. j - 1 \in Nat /\ (j - 1) + 1 = j
        BY <3>1
      <4>2. F[j] = g[F[j - 1]] /\ F[j - 1] \in V
        <5>. HIDE DEF V, g
        <5>. QED BY <1>2, <4>1
      <4>3. g[F[j - 1]] = nx[F[j - 1]]
        <5>. HIDE DEF V
        <5>. QED BY <4>2
      <4>. QED BY <3>1, <4>2, <4>3, Zenon
    <3>. QED BY <1>2, <3>1
  <2>2. F = [j \in Nat |-> F[j]]
    <3>. HIDE DEF V
    <3>. QED BY <1>2
  <2>. HIDE DEF V, g
  <2>. QED BY <2>1, <2>2
<1>4. f = [j \in Nat |-> IF j = 0 THEN h ELSE nx[f[j - 1]]]
  <2>. HIDE DEF g, V
  <2>. QED BY <1>3, Zenon
<1>. HIDE DEF f, g, V
<1>5. f[0] = h /\ \A k \in Nat : f[k + 1] = nx[f[k]]
  <2>1. f[0] = h
    BY <1>4
  <2>2. ASSUME NEW k \in Nat PROVE f[k + 1] = nx[f[k]]
    <3>1. k + 1 \in Nat /\ k + 1 # 0 /\ (k + 1) - 1 = k
      OBVIOUS
    <3>2. f[k + 1] = nx[f[(k + 1) - 1]]
      BY <1>4, <3>1
    <3>. QED BY <3>1, <3>2
  <2>. QED BY <2>1, <2>2
<1>. DEFINE S == {k \in Nat : k <= n + 1 => f[k] = a(k)}
<1>6. \A k \in Nat : k \in S
  <2>1. 0 \in S
    BY <1>0, <1>5
  <2>2. ASSUME NEW k \in Nat, k \in S PROVE k + 1 \in S
    <3>1. CASE k <= n
      <4>1. k \in 0 .. n
        BY <1>0, <3>1
      <4>2. k <= n + 1 => f[k] = a(k)
        BY <2>2
      <4>3. f[k] = a(k)
        BY <1>0, <3>1, <4>2
      <4>4. f[k + 1] = nx[f[k]] /\ nx[a(k)] = a(k + 1)
        BY <1>0, <1>5, <4>1
      <4>5. f[k + 1] = a(k + 1) /\ k + 1 \in Nat
        BY <4>3, <4>4
      <4>. QED BY <4>5
    <3>. QED BY <1>0, <3>1
  <2>. HIDE DEF S
  <2>. QED BY <2>1, <2>2, NatInduct
<1>7. ASSUME NEW i \in 0 .. n + 1 PROVE StepsOf(nx, h, i) = a(i)
  <2>1. StepsOf(nx, h, i) = f[i]
    BY Zenon DEF StepsOf, f
  <2>2. i \in Nat /\ i <= n + 1 /\ i \in S
    BY <1>0, <1>6
  <2>. QED BY <2>1, <2>2
<1>. QED BY <1>7 DEF n, a

(* And Items returns it: the walk is back at its head before it has made as*)
(* many steps as there are nodes.                                          *)
LEMMA ItemsFound ==
  ASSUME IsFiniteSet(Heads \union Entries), NEW h \in Heads, h \notin Entries, NEW s \in Seq(Entries), Once(s),
         NEW nx, NEW pv, Chain(nx, pv, h, s), NEW st, h \notin st
  PROVE  ItemsOf(nx, st, h) = s
<1>. DEFINE N == Heads \union Entries
            n == Len(s)
            limit == Cardinality(N)
            S(i) == StepsOf(nx, h, i)
            P(i) == (S(i) = h \/ i = limit) /\ \A j \in 1 .. i - 1 : S(j) # h
            end == CHOOSE i \in 1 .. limit : P(i)
<1>0. /\ n \in Nat /\ S(n + 1) = h /\ S(0) = h /\ \A i \in 1 .. n : S(i) = s[i] /\ s[i] \in Entries
      /\ \A i, j \in 0 .. n : S(i) = S(j) => i = j
  <2>0. /\ \A i \in 1 .. n : At(h, s, i) = s[i] /\ s[i] \in Entries
        /\ At(h, s, 0) = h /\ At(h, s, n + 1) = h
        /\ \A i, j \in 0 .. n : At(h, s, i) = At(h, s, j) => i = j
        /\ n \in Nat
    BY AtOnce
  <2>1. \A i \in 0 .. n + 1 : S(i) = At(h, s, i)
    BY StepsAre
  <2>. HIDE DEF S, n
  <2>2. 0 \in 0 .. n + 1 /\ n + 1 \in 0 .. n + 1 /\ (\A i \in 1 .. n : i \in 0 .. n + 1) /\ (\A i \in 0 .. n : i \in 0 .. n + 1)
    BY <2>0
  <2>. QED BY <2>0, <2>1, <2>2
<1>1. limit \in Nat
  BY FS_CardinalityType
<1>2. n + 1 <= limit
  <2>. DEFINE c == [i \in 0 .. n |-> S(i)]
  <2>1. c \in [0 .. n -> N]
    <3>1. ASSUME NEW i \in 0 .. n PROVE S(i) \in N
      <4>1. i = 0 \/ i \in 1 .. n
        BY <1>0
      <4>. QED BY <1>0, <4>1
    <3>. HIDE DEF S, N
    <3>. QED BY <3>1
  <2>2. \A i, j \in 0 .. n : c[i] = c[j] => i = j
    <3>. HIDE DEF S
    <3>. QED BY <1>0
  <2>3. IsFiniteSet(0 .. n) /\ Cardinality(0 .. n) = n + 1
    <3>1. 0 \in Int /\ n \in Int /\ ~(0 > n) /\ n - 0 + 1 = n + 1
      BY <1>0
    <3>. QED BY <3>1, FS_Interval
  <2>. DEFINE D == 0 .. n
  <2>4. c \in [D -> N] /\ IsFiniteSet(D) /\ Cardinality(D) = n + 1 /\ IsFiniteSet(N)
    BY <2>1, <2>3
  <2>5. \A i, j \in D : c[i] = c[j] => i = j
    BY <2>2
  <2>. HIDE DEF c, n, N, D, end, P
  <2>6. ASSUME limit < n + 1 PROVE FALSE
    <3>1. Cardinality(N) < Cardinality(D)
      BY <2>4, <2>6
    <3>2. \E x, y \in D : x # y /\ c[x] = c[y]
      BY <2>4, <3>1, FS_PigeonHole
    <3>. QED BY <2>5, <3>2
  <2>. HIDE DEF limit
  <2>. QED BY <1>0, <1>1, <2>6
<1>. HIDE DEF n, S, limit, N
<1>3. P(n + 1)
  <2>1. ASSUME NEW j \in 1 .. (n + 1) - 1 PROVE S(j) # h
    BY <1>0
  <2>. QED BY <1>0, <2>1
<1>4. ASSUME NEW i \in 1 .. limit, P(i) PROVE i = n + 1
  <2>1. CASE i > n + 1
    <3>1. n + 1 \in 1 .. i - 1
      BY <1>0, <1>1, <2>1
    <3>. QED BY <1>0, <1>4, <3>1
  <2>2. CASE i < n + 1
    <3>1. i \in 1 .. n /\ i # limit
      BY <1>0, <1>1, <1>2, <2>2
    <3>2. S(i) \in Entries
      BY <1>0, <3>1
    <3>. QED BY <1>4, <3>1, <3>2
  <2>. QED BY <1>0, <1>1, <2>1, <2>2
<1>5. end = n + 1
  <2>. HIDE DEF P
  <2>1. n + 1 \in 1 .. limit
    BY <1>0, <1>1, <1>2
  <2>2. \E i \in 1 .. limit : P(i)
    BY <1>3, <2>1
  <2>3. end \in 1 .. limit /\ P(end)
    BY <2>2, Zenon
  <2>. QED BY <1>4, <2>3
<1>. HIDE DEF end
<1>6. ItemsOf(nx, st, h) = [i \in 1 .. end - 1 |-> S(i)]
  BY Zenon DEF ItemsOf, end, P, limit, S, N
<1>7. s = [i \in 1 .. n |-> s[i]]
  BY DEF n
<1>8. end - 1 = n
  BY <1>0, <1>5
<1>. QED BY <1>0, <1>6, <1>7, <1>8
(* What is in a sequence that has an element more, or one less.            *)
LEMMA InsertsHas ==
  ASSUME NEW E, NEW s \in Seq(E), NEW i, NEW e, NEW t, Inserts(s, i, e, t)
  PROVE  \A x : Has(t, x) <=> x = e \/ Has(s, x)
<1>a. s \in Seq(E) /\ Len(s) \in Nat
  BY LenProperties
<1>b. i \in 0 .. Len(s) /\ Len(t) = Len(s) + 1 /\ (\A k \in 1 .. i : t[k] = s[k]) /\ t[i + 1] = e
      /\ (\A k \in i + 1 .. Len(s) : t[k + 1] = s[k])
  BY DEF Inserts
<1>1. \A k \in 1 .. Len(t) : \/ k \in 1 .. i /\ k \in 1 .. Len(s) /\ t[k] = s[k]
                             \/ t[k] = e
                             \/ k - 1 \in 1 .. Len(s) /\ t[k] = s[k - 1]
  <2>. TAKE k \in 1 .. Len(t)
  <2>1. CASE k <= i
    BY <1>a, <1>b, <2>1
  <2>2. CASE k = i + 1
    BY <1>b, <2>2
  <2>3. CASE k > i + 1
    <3>1. k - 1 \in i + 1 .. Len(s) /\ (k - 1) + 1 = k /\ k - 1 \in 1 .. Len(s)
      BY <1>a, <1>b, <2>3
    <3>2. t[(k - 1) + 1] = s[k - 1]
      BY <1>b, <3>1
    <3>. QED BY <3>1, <3>2
  <2>. QED BY <1>a, <1>b, <2>1, <2>2, <2>3
<1>2. \A k \in 1 .. Len(s) : \E j \in 1 .. Len(t) : t[j] = s[k]
  <2>. TAKE k \in 1 .. Len(s)
  <2>1. CASE k <= i
    <3>1. k \in 1 .. i /\ k \in 1 .. Len(t)
      BY <1>a, <1>b, <2>1
    <3>. QED BY <1>b, <3>1
  <2>2. CASE k > i
    <3>1. k \in i + 1 .. Len(s) /\ k + 1 \in 1 .. Len(t)
      BY <1>a, <1>b, <2>2
    <3>. QED BY <1>b, <3>1
  <2>. QED BY <1>a, <1>b, <2>1, <2>2
<1>3. i + 1 \in 1 .. Len(t) /\ t[i + 1] = e
  BY <1>a, <1>b
<1>. TAKE x
<1>4. ASSUME Has(t, x) PROVE x = e \/ Has(s, x)
  <2>1. PICK k \in 1 .. Len(t) : t[k] = x
    BY <1>4 DEF Has
  <2>2. CASE k \in 1 .. i /\ k \in 1 .. Len(s) /\ t[k] = s[k]
    BY <2>1, <2>2 DEF Has
  <2>3. CASE k - 1 \in 1 .. Len(s) /\ t[k] = s[k - 1]
    BY <2>1, <2>3 DEF Has
  <2>. QED BY <1>1, <2>1, <2>2, <2>3
<1>5. ASSUME x = e \/ Has(s, x) PROVE Has(t, x)
  BY <1>2, <1>3, <1>5 DEF Has
<1>. QED BY <1>4, <1>5

LEMMA RemovesHas ==
  ASSUME NEW E, NEW s \in Seq(E), Once(s), NEW i, NEW t, Removes(s, i, t)
  PROVE  \A x : Has(t, x) <=> x # s[i] /\ Has(s, x)
<1>a. s \in Seq(E) /\ Len(s) \in Nat /\ Once(s)
  BY LenProperties
<1>b. i \in 1 .. Len(s) /\ Len(t) = Len(s) - 1 /\ (\A k \in 1 .. i - 1 : t[k] = s[k])
      /\ (\A k \in i + 1 .. Len(s) : t[k - 1] = s[k])
  BY DEF Removes
<1>0. \A k, j \in 1 .. Len(s) : s[k] = s[j] => k = j
  BY <1>a DEF Once
<1>1. \A k \in 1 .. Len(t) : \E j \in 1 .. Len(s) : j # i /\ t[k] = s[j]
  <2>. TAKE k \in 1 .. Len(t)
  <2>1. CASE k < i
    <3>1. k \in 1 .. i - 1 /\ k \in 1 .. Len(s) /\ k # i
      BY <1>a, <1>b, <2>1
    <3>. QED BY <1>b, <3>1
  <2>2. CASE k >= i
    <3>1. k + 1 \in i + 1 .. Len(s) /\ (k + 1) - 1 = k /\ k + 1 \in 1 .. Len(s) /\ k + 1 # i
      BY <1>a, <1>b, <2>2
    <3>2. t[(k + 1) - 1] = s[k + 1]
      BY <1>b, <3>1
    <3>. QED BY <3>1, <3>2
  <2>. QED BY <1>a, <1>b, <2>1, <2>2
<1>2. \A k \in 1 .. Len(s) : k # i => \E j \in 1 .. Len(t) : t[j] = s[k]
  <2>. TAKE k \in 1 .. Len(s)
  <2>1. CASE k < i
    <3>1. k \in 1 .. i - 1 /\ k \in 1 .. Len(t)
      BY <1>a, <1>b, <2>1
    <3>. QED BY <1>b, <3>1
  <2>2. CASE k > i
    <3>1. k \in i + 1 .. Len(s) /\ k - 1 \in 1 .. Len(t)
      BY <1>a, <1>b, <2>2
    <3>. QED BY <1>b, <3>1
  <2>. QED BY <1>a, <1>b, <2>1, <2>2
<1>. TAKE x
<1>4. ASSUME Has(t, x) PROVE x # s[i] /\ Has(s, x)
  <2>1. PICK k \in 1 .. Len(t) : t[k] = x
    BY <1>4 DEF Has
  <2>2. PICK j \in 1 .. Len(s) : j # i /\ t[k] = s[j]
    BY <1>1
  <2>3. s[j] # s[i]
    BY <1>b, <1>0, <2>2
  <2>. QED BY <2>1, <2>2, <2>3 DEF Has
<1>5. ASSUME x # s[i], Has(s, x) PROVE Has(t, x)
  <2>1. PICK k \in 1 .. Len(s) : s[k] = x
    BY <1>5 DEF Has
  <2>2. k # i
    BY <1>5, <2>1
  <2>. QED BY <1>2, <2>1, <2>2 DEF Has
<1>. QED BY <1>4, <1>5
-----------------------------------------------------------------------------
(* The pointers, the spliced-away heads and the sequences that go with     *)
(* them.                                                                   *)
Fits(nx, pv, st, L) ==
  /\ L \in [Heads -> Seq(Entries)]
  /\ \A h \in st : L[h] = <<>>
  /\ \A h \in Heads : Once(L[h])
  /\ \A h \in Heads \ st : Chain(nx, pv, h, L[h])
  /\ \A h, g \in Heads : h # g => Apart(L[h], L[g])

LEMMA RingsApart ==
  ASSUME NEW h \in Heads, NEW g \in Heads, h # g, Heads \intersect Entries = {},
         NEW s \in Seq(Entries), NEW r \in Seq(Entries), Apart(s, r)
  PROVE  \A i, j : At(h, s, i) # At(g, r, j)
<1>1. (\A i \in 1 .. Len(s) : s[i] \in Entries) /\ (\A j \in 1 .. Len(r) : r[j] \in Entries)
  BY ElementOfSeq
<1>2. ASSUME NEW i, NEW j PROVE At(h, s, i) # At(g, r, j)
  <2>1. (i \in 1 .. Len(s) /\ At(h, s, i) = s[i]) \/ (i \notin 1 .. Len(s) /\ At(h, s, i) = h)
    BY DEF At
  <2>2. (j \in 1 .. Len(r) /\ At(g, r, j) = r[j]) \/ (j \notin 1 .. Len(r) /\ At(g, r, j) = g)
    BY DEF At
  <2>3. \A x \in 1 .. Len(s), y \in 1 .. Len(r) : s[x] # r[y]
    BY DEF Apart
  <2>. QED BY <1>1, <2>1, <2>2, <2>3
<1>. QED BY <1>2

(* A list that becomes t does not touch the other ones.                    *)
LEMMA FitsChange ==
  ASSUME NEW nx, NEW pv, NEW st, NEW L, Fits(nx, pv, st, L), NEW h \in Heads, h \notin st,
         NEW t \in Seq(Entries), Once(t), NEW nx2, NEW pv2, Chain(nx2, pv2, h, t),
         \A g \in Heads \ {h} : Apart(L[g], t) /\ Apart(t, L[g]),
         \A g \in Heads \ (st \union {h}) : \A k \in 0 .. Len(L[g]) :
           LET x == At(g, L[g], k) IN nx2[x] = nx[x] /\ pv2[x] = pv[x]
  PROVE  Fits(nx2, pv2, st, [L EXCEPT ![h] = t])
<1>. DEFINE L2 == [L EXCEPT ![h] = t]
<1>0. L \in [Heads -> Seq(Entries)]
  BY DEF Fits
<1>1. L2 \in [Heads -> Seq(Entries)] /\ L2[h] = t /\ \A g \in Heads \ {h} : L2[g] = L[g]
  BY <1>0
<1>. HIDE DEF L2
<1>2. ASSUME NEW g \in st PROVE L2[g] = <<>>
  <2>1. g # h /\ L[g] = <<>>
    BY DEF Fits
  <2>2. CASE g \in Heads
    BY <1>1, <2>1, <2>2
  <2>3. CASE g \notin Heads
    <3>1. DOMAIN L = Heads
      BY <1>0
    <3>2. L2 = [L EXCEPT ![h] = t]
      BY DEF L2
    <3>. QED BY <2>1, <3>2
  <2>. QED BY <2>2, <2>3
<1>3. ASSUME NEW g \in Heads PROVE Once(L2[g])
  BY <1>1 DEF Fits
<1>4. ASSUME NEW g \in Heads \ st PROVE Chain(nx2, pv2, g, L2[g])
  <2>1. CASE g = h
    BY <1>1, <2>1
  <2>2. CASE g # h
    <3>1. L2[g] = L[g] /\ L[g] \in Seq(Entries)
      BY <1>0, <1>1, <2>2
    <3>2. Chain(nx, pv, g, L[g])
      BY DEF Fits
    <3>3. Len(L[g]) \in Nat
      BY <3>1, LenProperties
    <3>4. \A k \in 0 .. Len(L[g]) : LET x == At(g, L[g], k) IN nx2[x] = nx[x] /\ pv2[x] = pv[x]
      BY <2>2, Zenon
    <3>5. Chain(nx2, pv2, g, L[g])
      BY <3>2, <3>3, <3>4, ChainFrame
    <3>. QED BY <3>1, <3>5
  <2>. QED BY <2>1, <2>2
<1>5. ASSUME NEW g \in Heads, NEW f \in Heads, g # f PROVE Apart(L2[g], L2[f])
  <2>1. Apart(L[g], L[f])
    BY <1>5 DEF Fits
  <2>2. CASE g = h
    <3>1. f \in Heads \ {h}
      BY <1>5, <2>2
    <3>2. L2[g] = t /\ L2[f] = L[f] /\ Apart(t, L[f])
      BY <1>1, <2>2, <3>1
    <3>. QED BY <3>2
  <2>3. CASE f = h
    <3>1. g \in Heads \ {h}
      BY <1>5, <2>3
    <3>2. L2[f] = t /\ L2[g] = L[g] /\ Apart(L[g], t)
      BY <1>1, <2>3, <3>1
    <3>. QED BY <3>2
  <2>4. CASE g # h /\ f # h
    <3>1. L2[g] = L[g] /\ L2[f] = L[f]
      BY <1>1, <2>4
    <3>. QED BY <2>1, <3>1
  <2>. QED BY <2>2, <2>3, <2>4
<1>6. Fits(nx2, pv2, st, L2)
  BY <1>1, <1>2, <1>3, <1>4, <1>5 DEF Fits
<1>. QED BY <1>6 DEF L2
(* __list_add of an entry that is in no list, after node i of h.           *)
LEMMA FitsInsert ==
  ASSUME Heads \intersect Entries = {},
         NEW nx, NEW pv, NEW st, NEW L, Fits(nx, pv, st, L), NEW h \in Heads, h \notin st,
         NEW e \in Entries, \A g \in Heads : ~Has(L[g], e),
         NEW t \in Seq(Entries), NEW i, Inserts(L[h], i, e, t), NEW nx2, NEW pv2,
         LinksIn(Heads \union Entries, nx, pv, nx2, pv2, At(h, L[h], i), At(h, L[h], i + 1), e)
  PROVE  Fits(nx2, pv2, st, [L EXCEPT ![h] = t]) /\ (\A x : Has(t, x) <=> x = e \/ Has(L[h], x))
<1>. DEFINE s == L[h]
<1>0. /\ \A g \in Heads : L[g] \in Seq(Entries) /\ Once(L[g]) /\ Len(L[g]) \in Nat
      /\ h \notin Entries
  <2>1. \A g \in Heads : L[g] \in Seq(Entries) /\ Once(L[g])
    BY DEF Fits
  <2>. QED BY <2>1, LenProperties
<1>1. s \in Seq(Entries) /\ Once(s) /\ Len(s) \in Nat /\ Chain(nx, pv, h, s)
  BY <1>0 DEF Fits
<1>2. ListOf(Entries, h, s) /\ ~Has(s, e) /\ Inserts(s, i, e, t)
      /\ LinksIn(Heads \union Entries, nx, pv, nx2, pv2, At(h, s, i), At(h, s, i + 1), e)
  BY <1>0, <1>1 DEF ListOf
<1>3. i \in 0 .. Len(s) /\ Len(t) = Len(s) + 1 /\ (\A k \in 1 .. i : t[k] = s[k]) /\ t[i + 1] = e
      /\ (\A k \in i + 1 .. Len(s) : t[k + 1] = s[k])
  BY <1>2 DEF Inserts
<1>4. \A g \in Heads \ {h} : Apart(L[g], s) /\ L[g] \in Seq(Entries) /\ ~Has(L[g], e)
  BY <1>0 DEF Fits
<1>. HIDE DEF s
<1>5. Chain(nx2, pv2, h, t) /\ Once(t)
  <2>1. LinksIn(Entries \union {h}, nx, pv, nx2, pv2, At(h, s, i), At(h, s, i + 1), e)
    BY <1>2 DEF LinksIn
  <2>. QED BY <1>1, <1>2, <2>1, ChainInsert
<1>6. \A x : Has(t, x) <=> x = e \/ Has(s, x)
  BY <1>1, <1>2, InsertsHas
<1>7. \A g \in Heads \ {h} : Apart(L[g], t) /\ Apart(t, L[g])
  <2>1. ASSUME NEW g \in Heads \ {h}, NEW k \in 1 .. Len(L[g]), NEW j \in 1 .. Len(t) PROVE L[g][k] # t[j]
    <3>1. t[j] = e \/ Has(s, t[j])
      <4>1. Has(t, t[j])
        BY DEF Has
      <4>. QED BY <1>6, <4>1
    <3>. QED BY <1>4, <3>1 DEF Has, Apart
  <2>. QED BY <2>1 DEF Apart
<1>8. ASSUME NEW g \in Heads \ (st \union {h}), NEW k \in 0 .. Len(L[g])
      PROVE  LET x == At(g, L[g], k) IN nx2[x] = nx[x] /\ pv2[x] = pv[x]
  <2>1. g # h /\ g \in Heads /\ L[g] \in Seq(Entries) /\ Apart(L[g], s) /\ ~Has(L[g], e)
    BY <1>4
  <2>2. At(g, L[g], k) # At(h, s, i) /\ At(g, L[g], k) # At(h, s, i + 1)
    BY <1>1, <2>1, RingsApart
  <2>3. At(g, L[g], k) \in Heads \union Entries /\ At(g, L[g], k) # e
    <3>1. CASE k \in 1 .. Len(L[g])
      <4>1. At(g, L[g], k) = L[g][k] /\ L[g][k] \in Entries
        BY <2>1, <3>1, ElementOfSeq DEF At
      <4>. QED BY <2>1, <3>1, <4>1 DEF Has
    <3>2. CASE k \notin 1 .. Len(L[g])
      BY <2>1, <3>2 DEF At
    <3>. QED BY <3>1, <3>2
  <2>. QED BY <1>2, <2>2, <2>3 DEF LinksIn
<1>9. Fits(nx2, pv2, st, [L EXCEPT ![h] = t])
  <2>1. t \in Seq(Entries) /\ h \in Heads /\ h \notin st /\ Fits(nx, pv, st, L)
    OBVIOUS
  <2>. QED BY ONLY <2>1, <1>5, <1>7, <1>8, FitsChange
<1>. QED BY <1>6, <1>9 DEF s

(* __list_del of element i of h, whatever its own pointers become.         *)
LEMMA FitsRemove ==
  ASSUME Heads \intersect Entries = {},
         NEW nx, NEW pv, NEW st, NEW L, Fits(nx, pv, st, L), NEW h \in Heads, h \notin st,
         NEW t \in Seq(Entries), NEW i, Removes(L[h], i, t), NEW nx2, NEW pv2,
         LinksOut(Heads \union Entries, nx, pv, nx2, pv2, At(h, L[h], i - 1), At(h, L[h], i + 1), L[h][i])
  PROVE  Fits(nx2, pv2, st, [L EXCEPT ![h] = t]) /\ (\A x : Has(t, x) <=> x # L[h][i] /\ Has(L[h], x))
<1>. DEFINE s == L[h]
<1>0. /\ \A g \in Heads : L[g] \in Seq(Entries) /\ Once(L[g]) /\ Len(L[g]) \in Nat
      /\ h \notin Entries
  <2>1. \A g \in Heads : L[g] \in Seq(Entries) /\ Once(L[g])
    BY DEF Fits
  <2>. QED BY <2>1, LenProperties
<1>1. s \in Seq(Entries) /\ Once(s) /\ Len(s) \in Nat /\ Chain(nx, pv, h, s)
  BY <1>0 DEF Fits
<1>2. ListOf(Entries, h, s) /\ Removes(s, i, t)
      /\ LinksOut(Heads \union Entries, nx, pv, nx2, pv2, At(h, s, i - 1), At(h, s, i + 1), s[i])
  BY <1>0, <1>1 DEF ListOf
<1>3. i \in 1 .. Len(s) /\ Len(t) = Len(s) - 1 /\ (\A k \in 1 .. i - 1 : t[k] = s[k])
      /\ (\A k \in i + 1 .. Len(s) : t[k - 1] = s[k])
  BY <1>2 DEF Removes
<1>4. \A g \in Heads \ {h} : Apart(L[g], s) /\ L[g] \in Seq(Entries)
  BY <1>0 DEF Fits
<1>. HIDE DEF s
<1>5. Chain(nx2, pv2, h, t) /\ Once(t)
  <2>1. LinksOut(Entries \union {h}, nx, pv, nx2, pv2, At(h, s, i - 1), At(h, s, i + 1), s[i])
    BY <1>2 DEF LinksOut
  <2>. QED BY <1>1, <1>2, <2>1, ChainRemove
<1>6. \A x : Has(t, x) <=> x # s[i] /\ Has(s, x)
  BY <1>1, <1>2, RemovesHas
<1>7. \A g \in Heads \ {h} : Apart(L[g], t) /\ Apart(t, L[g])
  <2>1. ASSUME NEW g \in Heads \ {h}, NEW k \in 1 .. Len(L[g]), NEW j \in 1 .. Len(t) PROVE L[g][k] # t[j]
    <3>1. Has(s, t[j])
      <4>1. Has(t, t[j])
        BY DEF Has
      <4>. QED BY <1>6, <4>1
    <3>. QED BY <1>4, <3>1 DEF Has, Apart
  <2>. QED BY <2>1 DEF Apart
<1>8. ASSUME NEW g \in Heads \ (st \union {h}), NEW k \in 0 .. Len(L[g])
      PROVE  LET x == At(g, L[g], k) IN nx2[x] = nx[x] /\ pv2[x] = pv[x]
  <2>1. g # h /\ g \in Heads /\ L[g] \in Seq(Entries) /\ Apart(L[g], s)
    BY <1>4
  <2>2. At(g, L[g], k) # At(h, s, i - 1) /\ At(g, L[g], k) # At(h, s, i + 1) /\ At(g, L[g], k) # At(h, s, i)
    BY <1>1, <2>1, RingsApart
  <2>3. At(g, L[g], k) \in Heads \union Entries /\ At(h, s, i) = s[i]
    BY <1>3, <2>1, ElementOfSeq DEF At
  <2>. QED BY <1>2, <2>2, <2>3 DEF LinksOut
<1>9. Fits(nx2, pv2, st, [L EXCEPT ![h] = t])
  <2>1. t \in Seq(Entries) /\ h \in Heads /\ h \notin st /\ Fits(nx, pv, st, L)
    OBVIOUS
  <2>. QED BY ONLY <2>1, <1>5, <1>7, <1>8, FitsChange
<1>. QED BY <1>6, <1>9 DEF s
(* A head that is spliced away has no entries any more.                    *)
LEMMA FitsEmptied ==
  ASSUME NEW nx, NEW pv, NEW st, NEW L, Fits(nx, pv, st, L), NEW g \in Heads
  PROVE  Fits(nx, pv, st \union {g}, [L EXCEPT ![g] = <<>>])
<1>. DEFINE none == <<>>
            L1 == [L EXCEPT ![g] = none]
<1>0. none \in Seq(Entries) /\ Len(none) = 0 /\ none = <<>>
  OBVIOUS
<1>. HIDE DEF none
<1>1. L \in [Heads -> Seq(Entries)]
  BY DEF Fits
<1>2. L1 \in [Heads -> Seq(Entries)] /\ L1[g] = none /\ \A f \in Heads \ {g} : L1[f] = L[f]
  BY <1>0, <1>1
<1>3. ASSUME NEW f \in st \union {g} PROVE L1[f] = none
  <2>1. CASE f = g
    BY <1>2, <2>1
  <2>2. CASE f # g
    <3>1. L[f] = none
      BY <1>0, <2>2 DEF Fits
    <3>2. CASE f \in Heads
      BY <1>2, <2>2, <3>1, <3>2
    <3>3. CASE f \notin Heads
      <4>1. DOMAIN L = Heads
        BY <1>1
      <4>. QED BY <2>2, <3>1, <3>3, <4>1
    <3>. QED BY <3>2, <3>3
  <2>. QED BY <2>1, <2>2
<1>. HIDE DEF L1
<1>4. ASSUME NEW f \in Heads PROVE Once(L1[f])
  <2>1. Once(none)
    BY <1>0 DEF Once
  <2>. QED BY <1>2, <2>1 DEF Fits
<1>5. ASSUME NEW f \in Heads \ (st \union {g}) PROVE Chain(nx, pv, f, L1[f])
  BY <1>2 DEF Fits
<1>6. ASSUME NEW f \in Heads, NEW e \in Heads, f # e PROVE Apart(L1[f], L1[e])
  <2>1. Apart(L[f], L[e])
    BY <1>6 DEF Fits
  <2>2. CASE f = g \/ e = g
    <3>1. L1[f] = none \/ L1[e] = none
      BY <1>2, <2>2
    <3>. QED BY <1>0, <3>1 DEF Apart
  <2>3. CASE f # g /\ e # g
    BY <1>2, <2>1, <2>3
  <2>. QED BY <2>2, <2>3
<1>7. Fits(nx, pv, st \union {g}, L1)
  BY <1>0, <1>2, <1>3, <1>4, <1>5, <1>6 DEF Fits
<1>. QED BY <1>0, <1>7 DEF L1

LEMMA JoinedHas ==
  ASSUME NEW E, NEW s \in Seq(E), NEW r \in Seq(E), NEW t \in Seq(E), NEW i, Joins(s, i, r, t)
  PROVE  \A x : Has(t, x) <=> Has(s, x) \/ Has(r, x)
<1>. DEFINE n == Len(s)
            m == Len(r)
<1>0. /\ n \in Nat /\ m \in Nat /\ i \in 0 .. n /\ Len(t) = n + m
      /\ \A k \in 1 .. i : t[k] = s[k]
      /\ \A k \in 1 .. m : t[i + k] = r[k]
      /\ \A k \in i + 1 .. n : t[m + k] = s[k]
  BY LenProperties DEF Joins
<1>. HIDE DEF n, m
<1>1. ASSUME NEW k \in 1 .. n + m
      PROVE  (\E j \in 1 .. n : t[k] = s[j]) \/ (\E j \in 1 .. m : t[k] = r[j])
  <2>1. CASE k <= i
    <3>1. k \in 1 .. i /\ k \in 1 .. n
      BY <1>0, <2>1
    <3>. QED BY <1>0, <3>1
  <2>2. CASE k > i /\ k <= i + m
    <3>1. k - i \in 1 .. m /\ i + (k - i) = k
      BY <1>0, <2>2
    <3>2. t[i + (k - i)] = r[k - i]
      BY <1>0, <3>1, Zenon
    <3>. QED BY <3>1, <3>2
  <2>3. CASE k > i + m
    <3>1. k - m \in i + 1 .. n /\ k - m \in 1 .. n /\ m + (k - m) = k
      BY <1>0, <2>3
    <3>2. t[m + (k - m)] = s[k - m]
      BY <1>0, <3>1, Zenon
    <3>. QED BY <3>1, <3>2
  <2>. QED BY <1>0, <2>1, <2>2, <2>3
<1>2. ASSUME NEW k \in 1 .. n PROVE \E j \in 1 .. n + m : t[j] = s[k]
  <2>1. CASE k <= i
    <3>1. k \in 1 .. i /\ k \in 1 .. n + m
      BY <1>0, <2>1
    <3>. QED BY <1>0, <3>1
  <2>2. CASE k > i
    <3>1. k \in i + 1 .. n /\ m + k \in 1 .. n + m
      BY <1>0, <2>2
    <3>. QED BY <1>0, <3>1
  <2>. QED BY <1>0, <2>1, <2>2
<1>3. ASSUME NEW k \in 1 .. m PROVE \E j \in 1 .. n + m : t[j] = r[k]
  <2>1. i + k \in 1 .. n + m
    BY <1>0
  <2>. QED BY <1>0, <2>1
<1>. TAKE x
<1>4. ASSUME Has(t, x) PROVE Has(s, x) \/ Has(r, x)
  <2>1. PICK k \in 1 .. n + m : t[k] = x
    BY <1>0, <1>4 DEF Has
  <2>. QED BY <1>1, <2>1 DEF Has, n, m
<1>5. ASSUME Has(s, x) PROVE Has(t, x)
  <2>1. PICK k \in 1 .. n : s[k] = x
    BY <1>5 DEF Has, n
  <2>. QED BY <1>0, <1>2, <2>1 DEF Has
<1>6. ASSUME Has(r, x) PROVE Has(t, x)
  <2>1. PICK k \in 1 .. m : r[k] = x
    BY <1>6 DEF Has, m
  <2>. QED BY <1>0, <1>3, <2>1 DEF Has
<1>. QED BY <1>4, <1>5, <1>6

(* list_splice of the entries of g after node i of h.                      *)
LEMMA FitsJoin ==
  ASSUME Heads \intersect Entries = {},
         NEW nx, NEW pv, NEW st, NEW L, Fits(nx, pv, st, L), NEW h \in Heads, h \notin st,
         NEW g \in Heads, g \notin st, g # h, Len(L[g]) # 0,
         NEW t \in Seq(Entries), NEW i, Joins(L[h], i, L[g], t), NEW nx2, NEW pv2,
         LinksOver(Heads \union Entries, nx, pv, nx2, pv2, At(h, L[h], i), At(h, L[h], i + 1),
                   L[g][1], L[g][Len(L[g])])
  PROVE  /\ Fits(nx2, pv2, st \union {g}, [[L EXCEPT ![g] = <<>>] EXCEPT ![h] = t])
         /\ \A x : Has(t, x) <=> Has(L[h], x) \/ Has(L[g], x)
<1>. DEFINE s == L[h]
            r == L[g]
            first == r[1]
            last == r[Len(r)]
            L1 == [L EXCEPT ![g] = <<>>]
<1>0. /\ \A f \in Heads : L[f] \in Seq(Entries) /\ Once(L[f]) /\ Len(L[f]) \in Nat
      /\ h \notin Entries /\ g \notin Entries
  <2>1. \A f \in Heads : L[f] \in Seq(Entries) /\ Once(L[f])
    BY DEF Fits
  <2>. QED BY <2>1, LenProperties
<1>1. /\ s \in Seq(Entries) /\ Len(s) \in Nat /\ Chain(nx, pv, h, s) /\ ListOf(Entries, h, s)
      /\ r \in Seq(Entries) /\ Len(r) \in Nat /\ Len(r) # 0 /\ Chain(nx, pv, g, r) /\ ListOf(Entries, g, r)
      /\ Apart(s, r) /\ Joins(s, i, r, t)
      /\ LinksOver(Heads \union Entries, nx, pv, nx2, pv2, At(h, s, i), At(h, s, i + 1), first, last)
  BY <1>0 DEF Fits, ListOf
<1>2. \A f \in Heads \ {h, g} : Apart(L[f], s) /\ Apart(L[f], r) /\ L[f] \in Seq(Entries)
  BY <1>0 DEF Fits
<1>3. /\ Fits(nx, pv, st \union {g}, L1)
      /\ \A f \in Heads \ {h, g} : L1[f] = L[f]
      /\ L1[g] = <<>>
  <2>1. L \in [Heads -> Seq(Entries)]
    BY DEF Fits
  <2>. QED BY <2>1, FitsEmptied
<1>. HIDE DEF s, r, L1, first, last
<1>5. Chain(nx2, pv2, h, t) /\ Once(t)
  <2>1. LinksOver(Entries \union {h}, nx, pv, nx2, pv2, At(h, s, i), At(h, s, i + 1), first, last)
    BY <1>1 DEF LinksOver
  <2>. QED BY <1>1, <2>1, ChainJoin DEF first, last
<1>6. \A x : Has(t, x) <=> Has(s, x) \/ Has(r, x)
  BY <1>1, JoinedHas
<1>7. ASSUME NEW f \in Heads \ {h} PROVE Apart(L1[f], t) /\ Apart(t, L1[f])
  <2>1. CASE f = g
    <3>1. Len(L1[f]) = 0
      BY <1>3, <2>1
    <3>. QED BY <3>1 DEF Apart
  <2>2. CASE f # g
    <3>1. ASSUME NEW k \in 1 .. Len(L[f]), NEW j \in 1 .. Len(t) PROVE L[f][k] # t[j]
      <4>1. Has(s, t[j]) \/ Has(r, t[j])
        <5>1. Has(t, t[j])
          BY DEF Has
        <5>. QED BY <1>6, <5>1
      <4>2. Apart(L[f], s) /\ Apart(L[f], r)
        BY <1>2, <2>2
      <4>. QED BY <4>1, <4>2 DEF Has, Apart
    <3>2. L1[f] = L[f]
      BY <1>3, <2>2
    <3>. QED BY <3>1, <3>2 DEF Apart
  <2>. QED BY <2>1, <2>2
<1>8. ASSUME NEW f \in Heads \ ((st \union {g}) \union {h}), NEW k \in 0 .. Len(L1[f])
      PROVE  LET x == At(f, L1[f], k) IN nx2[x] = nx[x] /\ pv2[x] = pv[x]
  <2>1. f # h /\ f # g /\ f \in Heads /\ L[f] \in Seq(Entries) /\ Apart(L[f], s) /\ Apart(L[f], r) /\ L1[f] = L[f]
    BY <1>2, <1>3
  <2>. DEFINE y == At(f, L[f], k)
  <2>2. y # At(h, s, i) /\ y # At(h, s, i + 1) /\ y # At(g, r, 1) /\ y # At(g, r, Len(r))
    BY <1>1, <2>1, RingsApart
  <2>3. y \in Heads \union Entries /\ At(g, r, 1) = first /\ At(g, r, Len(r)) = last
    BY <1>1, <2>1, ElementOfSeq DEF At, first, last
  <2>. HIDE DEF y
  <2>4. \A x \in Heads \union Entries :
             /\ x \notin {last, At(h, s, i)} => nx2[x] = nx[x]
             /\ x \notin {first, At(h, s, i + 1)} => pv2[x] = pv[x]
    BY <1>1 DEF LinksOver
  <2>5. nx2[y] = nx[y] /\ pv2[y] = pv[y]
    BY <2>2, <2>3, <2>4
  <2>. QED BY <2>1, <2>5 DEF y
<1>9. Fits(nx2, pv2, st \union {g}, [L1 EXCEPT ![h] = t])
  <2>1. t \in Seq(Entries) /\ h \in Heads /\ h \notin st \union {g}
    OBVIOUS
  <2>2. ASSUME NEW S, S = st \union {g} PROVE Fits(nx2, pv2, S, [L1 EXCEPT ![h] = t])
    <3>1. h \notin S /\ Fits(nx, pv, S, L1)
      BY <1>3, <2>1, <2>2
    <3>2. \A f \in Heads \ (S \union {h}) : \A k \in 0 .. Len(L1[f]) :
             LET x == At(f, L1[f], k) IN nx2[x] = nx[x] /\ pv2[x] = pv[x]
      BY <1>8, <2>2
    <3>. QED BY ONLY <2>1, <3>1, <3>2, <1>5, <1>7, FitsChange
  <2>. QED BY <2>2
<1>. QED BY <1>6, <1>9 DEF s, r, L1

(* INIT_LIST_HEAD of a head that was spliced away.                         *)
LEMMA FitsReset ==
  ASSUME Heads \intersect Entries = {},
         NEW nx, NEW pv, NEW st, NEW L, Fits(nx, pv, st, L), NEW h \in Heads, h \in st,
         NEW nx2, NEW pv2, nx2[h] = h, pv2[h] = h,
         \A x \in (Heads \union Entries) \ {h} : nx2[x] = nx[x] /\ pv2[x] = pv[x]
  PROVE  Fits(nx2, pv2, st \ {h}, L)
<1>1. \A f \in Heads : L[f] \in Seq(Entries)
  BY DEF Fits
<1>2. L[h] = <<>> /\ \A f \in st \ {h} : L[f] = <<>>
  BY DEF Fits
<1>3. ASSUME NEW f \in Heads \ (st \ {h}) PROVE Chain(nx2, pv2, f, L[f])
  <2>1. CASE f = h
    <3>1. Len(L[f]) = 0
      BY <1>2, <2>1
    <3>2. \A i : At(h, L[f], i) = h
      BY <3>1 DEF At
    <3>. QED BY <2>1, <3>1, <3>2 DEF Chain
  <2>2. CASE f # h
    <3>1. Chain(nx, pv, f, L[f]) /\ L[f] \in Seq(Entries) /\ Len(L[f]) \in Nat
      BY <1>1, <2>2, LenProperties DEF Fits
    <3>2. ASSUME NEW k \in 0 .. Len(L[f])
          PROVE  LET x == At(f, L[f], k) IN nx2[x] = nx[x] /\ pv2[x] = pv[x]
      <4>1. (k \in 1 .. Len(L[f]) /\ At(f, L[f], k) = L[f][k] /\ L[f][k] \in Entries) \/ At(f, L[f], k) = f
        BY <3>1, ElementOfSeq DEF At
      <4>2. At(f, L[f], k) \in (Heads \union Entries) \ {h}
        BY <2>2, <4>1
      <4>. QED BY <4>2
    <3>. QED BY <3>1, <3>2, ChainFrame
  <2>. QED BY <2>1, <2>2
<1>. QED BY <1>2, <1>3 DEF Fits
-----------------------------------------------------------------------------
(* Where a walk is: at node k of its list, or at an entry that is in none  *)
(* and leads there.  What is before it and was to be seen has been seen,   *)
(* what is not before it has not.                                          *)
Loose(L, e) == \A g \in Heads : ~Has(L[g], e)

Cursor(nx, L, head, pos, saw, must, k) ==
  /\ k \in 1 .. Len(L[head]) + 1
  /\ pos = At(head, L[head], k) \/ (pos \in Entries /\ Loose(L, pos) /\ nx[pos] = At(head, L[head], k))
  /\ \A j \in 1 .. k - 1 : L[head][j] \in must => L[head][j] \in saw
  /\ \A j \in k .. Len(L[head]) : L[head][j] \notin saw

Standing(nx, L, head, pos, saw, must) == \E k : Cursor(nx, L, head, pos, saw, must, k)

(* An entry that a walk stands on and that is in no list stays so.         *)
StaysLoose(L, L2, nx, nx2, pos) == pos \in Entries /\ Loose(L, pos) => Loose(L2, pos) /\ nx2[pos] = nx[pos]

Follows(nx, st, L, w) ==
  /\ w \in [head : Heads, pos : Heads \union Entries, saw : SUBSET Entries, must : SUBSET Entries]
  /\ w.head \notin st
  /\ \A e \in w.saw \union w.must : Has(L[w.head], e)
  /\ Standing(nx, L, w.head, w.pos, w.saw, w.must)

LEMMA CursorPut ==
  ASSUME NEW head \in Heads, NEW L, NEW L2, L[head] \in Seq(Entries), L2[head] \in Seq(Entries),
         NEW r \in Seq(Entries), NEW i, Joins(L[head], i, r, L2[head]), Apart(L[head], r),
         NEW nx, NEW nx2, NEW pos, NEW saw, NEW must, \A e \in saw \union must : Has(L[head], e),
         StaysLoose(L, L2, nx, nx2, pos), Standing(nx, L, head, pos, saw, must)
  PROVE  Standing(nx2, L2, head, pos, saw, must)
<1>. PICK k : Cursor(nx, L, head, pos, saw, must, k)
  BY DEF Standing
<1>. USE DEF StaysLoose
<1>. DEFINE s == L[head]
            t == L2[head]
            n == Len(s)
            m == Len(r)
            l == IF i < k THEN m + k ELSE k
<1>0. /\ n \in Nat /\ m \in Nat /\ i \in 0 .. n /\ Len(t) = n + m /\ k \in 1 .. n + 1
      /\ \A j \in 1 .. i : t[j] = s[j]
      /\ \A j \in 1 .. m : t[i + j] = r[j]
      /\ \A j \in i + 1 .. n : t[m + j] = s[j]
  BY LenProperties DEF Joins, Cursor
<1>1. \A j \in 1 .. m : r[j] \notin saw /\ r[j] \notin must
  <2>. TAKE j \in 1 .. m
  <2>1. ~Has(s, r[j])
    BY DEF Has, Apart
  <2>. QED BY <2>1
<1>2. /\ pos = At(head, s, k) \/ (pos \in Entries /\ Loose(L, pos) /\ nx[pos] = At(head, s, k))
      /\ \A j \in 1 .. k - 1 : s[j] \in must => s[j] \in saw
      /\ \A j \in k .. n : s[j] \notin saw
  BY DEF Cursor
<1>3. l \in 1 .. Len(t) + 1
  <2>. HIDE DEF t, n, m
  <2>. QED BY <1>0
<1>4. At(head, t, l) = At(head, s, k)
  <2>1. CASE i < k /\ k = n + 1
    <3>1. l = Len(t) + 1
      <4>. HIDE DEF t, n, m
      <4>. QED BY <1>0, <2>1
    <3>. QED BY <1>0, <2>1, <3>1 DEF At
  <2>2. CASE i < k /\ k # n + 1
    <3>1. l = m + k /\ k \in i + 1 .. n /\ k \in 1 .. n /\ m + k \in 1 .. Len(t)
      <4>. HIDE DEF t, n, m
      <4>. QED BY <1>0, <2>2
    <3>2. t[m + k] = s[k]
      BY <1>0, <3>1
    <3>. QED BY <3>1, <3>2 DEF At
  <2>3. CASE k <= i
    <3>1. l = k /\ k \in 1 .. i /\ k \in 1 .. n /\ k \in 1 .. Len(t)
      <4>. HIDE DEF t, n, m
      <4>. QED BY <1>0, <2>3
    <3>2. t[k] = s[k]
      BY <1>0, <3>1
    <3>. QED BY <3>1, <3>2 DEF At
  <2>4. i < k \/ k <= i
    <3>. HIDE DEF t, n, m
    <3>. QED BY <1>0
  <2>. QED BY <2>1, <2>2, <2>3, <2>4
<1>. HIDE DEF s, t, n, m
<1>5. ASSUME NEW j \in 1 .. l - 1, t[j] \in must PROVE t[j] \in saw
  <2>1. CASE j <= i
    <3>1. j \in 1 .. i /\ j \in 1 .. k - 1
      BY <1>0, <2>1
    <3>2. t[j] = s[j]
      BY <1>0, <3>1
    <3>. QED BY <1>2, <1>5, <3>1, <3>2
  <2>2. CASE j > i /\ j <= i + m
    <3>1. j - i \in 1 .. m /\ i + (j - i) = j
      BY <1>0, <2>2
    <3>2. t[i + (j - i)] = r[j - i]
      BY <1>0, <3>1, Zenon
    <3>3. r[j - i] \notin must
      BY <1>1, <3>1
    <3>. QED BY <1>5, <3>1, <3>2, <3>3
  <2>3. CASE j > i + m
    <3>1. j - m \in i + 1 .. n /\ m + (j - m) = j /\ j - m \in 1 .. k - 1
      BY <1>0, <2>3
    <3>2. t[m + (j - m)] = s[j - m]
      BY <1>0, <3>1, Zenon
    <3>. QED BY <1>2, <1>5, <3>1, <3>2
  <2>4. j \in Int
    BY <1>0
  <2>. HIDE DEF l
  <2>. QED BY <1>0, <2>1, <2>2, <2>3, <2>4
<1>6. ASSUME NEW j \in l .. Len(t) PROVE t[j] \notin saw
  <2>1. CASE j <= i
    <3>1. j \in 1 .. i /\ j \in k .. n
      BY <1>0, <2>1
    <3>2. t[j] = s[j]
      BY <1>0, <3>1
    <3>. QED BY <1>2, <3>1, <3>2
  <2>2. CASE j > i /\ j <= i + m
    <3>1. j - i \in 1 .. m /\ i + (j - i) = j
      BY <1>0, <2>2
    <3>2. t[i + (j - i)] = r[j - i]
      BY <1>0, <3>1, Zenon
    <3>. QED BY <1>1, <3>1, <3>2
  <2>3. CASE j > i + m
    <3>1. j - m \in i + 1 .. n /\ m + (j - m) = j /\ j - m \in k .. n
      BY <1>0, <2>3
    <3>2. t[m + (j - m)] = s[j - m]
      BY <1>0, <3>1, Zenon
    <3>. QED BY <1>2, <3>1, <3>2
  <2>4. j \in Int
    BY <1>0
  <2>. HIDE DEF l
  <2>. QED BY <1>0, <2>1, <2>2, <2>3, <2>4
<1>7. pos = At(head, t, l) \/ (pos \in Entries /\ Loose(L2, pos) /\ nx2[pos] = At(head, t, l))
  BY <1>2, <1>4
<1>. HIDE DEF l
<1>8. Cursor(nx2, L2, head, pos, saw, must, l)
  BY <1>3, <1>5, <1>6, <1>7 DEF Cursor, t
<1>. QED BY <1>8 DEF Standing

(* Element i of the list of the walk is taken out.                         *)
LEMMA CursorOut ==
  ASSUME NEW head \in Heads, head \notin Entries, NEW L, NEW L2,
         L[head] \in Seq(Entries), Once(L[head]), L2[head] \in Seq(Entries),
         NEW i, Removes(L[head], i, L2[head]),
         NEW nx, NEW nx2, NEW pos, NEW saw, NEW must,
         StaysLoose(L, L2, nx, nx2, pos), pos \in Entries /\ Loose(L, pos) => nx[pos] # L[head][i],
         pos = L[head][i] => pos \in Entries /\ Loose(L2, pos) /\ nx2[pos] = At(head, L[head], i + 1),
         Standing(nx, L, head, pos, saw, must)
  PROVE  Standing(nx2, L2, head, pos, saw \ {L[head][i]}, must \ {L[head][i]})
<1>. PICK k : Cursor(nx, L, head, pos, saw, must, k)
  BY DEF Standing
<1>. USE DEF StaysLoose
<1>. DEFINE s == L[head]
            t == L2[head]
            n == Len(s)
            l == IF i < k THEN k - 1 ELSE k
            e == s[i]
<1>0. /\ n \in Nat /\ i \in 1 .. n /\ Len(t) = n - 1 /\ k \in 1 .. n + 1
      /\ \A j \in 1 .. i - 1 : t[j] = s[j]
      /\ \A j \in i + 1 .. n : t[j - 1] = s[j]
      /\ \A j \in 1 .. n : s[j] = e => j = i
  BY LenProperties DEF Removes, Cursor, Once
<1>2. /\ pos = At(head, s, k) \/ (pos \in Entries /\ Loose(L, pos) /\ nx[pos] = At(head, s, k))
      /\ \A j \in 1 .. k - 1 : s[j] \in must => s[j] \in saw
      /\ \A j \in k .. n : s[j] \notin saw
      /\ pos \in Entries /\ Loose(L, pos) => pos \in Entries /\ Loose(L2, pos) /\ nx2[pos] = nx[pos] /\ nx[pos] # e
      /\ pos = e => pos \in Entries /\ Loose(L2, pos) /\ nx2[pos] = At(head, s, i + 1)
  BY DEF Cursor
<1>3. l \in 1 .. Len(t) + 1
  <2>. HIDE DEF s, t, n, e
  <2>. QED BY <1>0
<1>4. /\ k # i => At(head, t, l) = At(head, s, k)
      /\ k = i => At(head, t, l) = At(head, s, i + 1) /\ At(head, s, k) = e
  <2>1. CASE i < k /\ k = n + 1
    <3>1. l = Len(t) + 1 /\ l \notin 1 .. Len(t) /\ k \notin 1 .. n /\ k # i
      <4>. HIDE DEF s, t, n, e
      <4>. QED BY <1>0, <2>1
    <3>. QED BY <3>1 DEF At
  <2>2. CASE i < k /\ k # n + 1
    <3>1. l = k - 1 /\ k \in i + 1 .. n /\ k \in 1 .. n /\ k - 1 \in 1 .. Len(t) /\ k # i
      <4>. HIDE DEF s, t, n, e
      <4>. QED BY <1>0, <2>2
    <3>2. t[k - 1] = s[k]
      BY <1>0, <3>1
    <3>. QED BY <3>1, <3>2 DEF At
  <2>3. CASE k < i
    <3>1. l = k /\ k \in 1 .. i - 1 /\ k \in 1 .. n /\ k \in 1 .. Len(t) /\ k # i
      <4>. HIDE DEF s, t, n, e
      <4>. QED BY <1>0, <2>3
    <3>2. t[k] = s[k]
      BY <1>0, <3>1
    <3>. QED BY <3>1, <3>2 DEF At
  <2>4. CASE k = i /\ i < n
    <3>1. l = i /\ i \in 1 .. Len(t) /\ i + 1 \in i + 1 .. n /\ (i + 1) - 1 = i /\ i + 1 \in 1 .. n /\ i \in 1 .. n
      <4>. HIDE DEF s, t, n, e
      <4>. QED BY <1>0, <2>4
    <3>2. t[(i + 1) - 1] = s[i + 1]
      BY <1>0, <3>1
    <3>. QED BY <2>4, <3>1, <3>2 DEF At
  <2>5. CASE k = i /\ i = n
    <3>1. l = i /\ i \notin 1 .. Len(t) /\ i + 1 \notin 1 .. n /\ i \in 1 .. n
      <4>. HIDE DEF s, t, n, e
      <4>. QED BY <1>0, <2>5
    <3>. QED BY <2>5, <3>1 DEF At
  <2>6. (i < k /\ (k = n + 1 \/ k # n + 1)) \/ k < i \/ (k = i /\ (i < n \/ i = n))
    <3>. HIDE DEF s, t, n, e
    <3>. QED BY <1>0
  <2>. HIDE DEF l
  <2>. QED BY <2>1, <2>2, <2>3, <2>4, <2>5, <2>6
<1>. HIDE DEF s, t, n, e
<1>5. ASSUME NEW j \in 1 .. l - 1, t[j] \in must \ {e} PROVE t[j] \in saw \ {e}
  <2>1. CASE j < i
    <3>1. j \in 1 .. i - 1 /\ j \in 1 .. k - 1
      BY <1>0, <2>1
    <3>2. t[j] = s[j]
      BY <1>0, <3>1
    <3>. QED BY <1>2, <1>5, <3>1, <3>2
  <2>2. CASE j >= i
    <3>1. j + 1 \in i + 1 .. n /\ (j + 1) - 1 = j /\ j + 1 \in 1 .. k - 1
      BY <1>0, <2>2
    <3>2. t[(j + 1) - 1] = s[j + 1]
      BY <1>0, <3>1, Zenon
    <3>. QED BY <1>2, <1>5, <3>1, <3>2
  <2>3. j \in Int
    BY <1>0
  <2>. HIDE DEF l
  <2>. QED BY <1>0, <2>1, <2>2, <2>3
<1>6. ASSUME NEW j \in l .. Len(t) PROVE t[j] \notin saw \ {e}
  <2>1. CASE j < i
    <3>1. j \in 1 .. i - 1 /\ j \in k .. n
      BY <1>0, <2>1
    <3>2. t[j] = s[j]
      BY <1>0, <3>1
    <3>. QED BY <1>2, <3>1, <3>2
  <2>2. CASE j >= i
    <3>1. j + 1 \in i + 1 .. n /\ (j + 1) - 1 = j /\ j + 1 \in k .. n
      BY <1>0, <2>2
    <3>2. t[(j + 1) - 1] = s[j + 1]
      BY <1>0, <3>1, Zenon
    <3>. QED BY <1>2, <3>1, <3>2
  <2>3. j \in Int
    BY <1>0
  <2>. HIDE DEF l
  <2>. QED BY <1>0, <2>1, <2>2, <2>3
<1>7. pos = At(head, t, l) \/ (pos \in Entries /\ Loose(L2, pos) /\ nx2[pos] = At(head, t, l))
  <2>. HIDE DEF l
  <2>1. CASE k = i
    <3>1. pos = e
      BY <1>2, <1>4, <2>1
    <3>. QED BY <1>2, <1>4, <2>1, <3>1
  <2>2. CASE k # i
    BY <1>2, <1>4, <2>2
  <2>. QED BY <2>1, <2>2
<1>. HIDE DEF l
<1>8. Cursor(nx2, L2, head, pos, saw \ {e}, must \ {e}, l)
  BY <1>3, <1>5, <1>6, <1>7 DEF Cursor, t
<1>. QED BY <1>8 DEF e, s, Standing

(* Another list changes.                                                   *)
LEMMA CursorSame ==
  ASSUME NEW head, NEW L, NEW L2, L2[head] = L[head], NEW nx, NEW nx2, NEW pos, NEW saw, NEW must,
         StaysLoose(L, L2, nx, nx2, pos), Standing(nx, L, head, pos, saw, must)
  PROVE  Standing(nx2, L2, head, pos, saw, must)
BY DEF Standing, Cursor, StaysLoose
-----------------------------------------------------------------------------
(* What an operation leaves a list with: its pointers fit sequences that   *)
(* come from the earlier ones as the abstract operation says, and a walk   *)
(* still knows its place.                                                  *)
InsertStep(L, L2) == \E h \in Heads, e \in Entries : Loose(L, e) /\ \E i \in 0 .. Len(L[h]) :
  L2 = [L EXCEPT ![h] = PutIn(L[h], i, e)]
DeleteStep(L, L2) == \E h \in Heads : \E i \in 1 .. Len(L[h]) :
  L2 = [L EXCEPT ![h] = TakenOut(L[h], i)]
SpliceStep(L, L2) == \E from, to \in Heads : \E i \in 0 .. Len(L[to]) : from # to /\
  L2 = [[L EXCEPT ![from] = <<>>] EXCEPT ![to] = PutAll(L[to], i, L[from])]

WalkFits(nx, st, L, w) == w = List!NoWalk \/ Follows(nx, st, L, w)

(* The pointers, heads and walk that an operation on the lists L leaves.   *)
Leaves(nx, pv, st, w, L) == \E L2 :
  /\ Fits(nx, pv, st, L2) /\ WalkFits(nx, st, L2, w)
  /\ InsertStep(L, L2) \/ DeleteStep(L, L2) \/ SpliceStep(L, L2) \/ L2 = L

LEMMA AtHas ==
  ASSUME NEW h, h \notin Entries, NEW s, NEW i, At(h, s, i) \in Entries
  PROVE  Has(s, At(h, s, i))
BY DEF At, Has

JoinsOne(s, i, e, t) == \E r : r \in Seq(Entries) /\ Joins(s, i, r, t) /\ (Has(s, e) \/ Apart(s, r))
LEMMA InsertsJoins ==
  ASSUME NEW s \in Seq(Entries), NEW i, NEW e \in Entries, NEW t, Inserts(s, i, e, t)
  PROVE  JoinsOne(s, i, e, t)
<1>. DEFINE r == <<e>>
<1>1. r \in Seq(Entries) /\ Len(r) = 1 /\ r[1] = e
  OBVIOUS
<1>. HIDE DEF r
<1>3. /\ i \in 0 .. Len(s) /\ Len(t) = Len(s) + 1 /\ t[i + 1] = e /\ Len(s) \in Nat
      /\ \A k \in 1 .. i : t[k] = s[k]
      /\ \A k \in i + 1 .. Len(s) : t[k + 1] = s[k]
  BY LenProperties DEF Inserts
<1>4. \A k \in 1 .. Len(r) : t[i + k] = r[k]
  BY <1>1, <1>3
<1>5. \A k \in i + 1 .. Len(s) : t[Len(r) + k] = s[k]
  <2>1. \A k \in i + 1 .. Len(s) : Len(r) + k = k + 1
    BY <1>1, <1>3
  <2>. QED BY <1>3, <2>1
<1>6. Joins(s, i, r, t)
  BY <1>1, <1>3, <1>4, <1>5 DEF Joins
<1>7. Has(s, e) \/ Apart(s, r)
  BY <1>1 DEF Apart, Has
<1>. QED BY <1>1, <1>6, <1>7 DEF JoinsOne

(* list_add and list_add_tail                                              *)
LEMMA AddKept ==
  ASSUME Heads \intersect Entries = {},
         NEW nx, NEW pv, NEW st, NEW L, Fits(nx, pv, st, L), NEW h \in Heads, h \notin st,
         NEW e \in Entries, Loose(L, e), NEW i \in 0 .. Len(L[h]), NEW nx2, NEW pv2,
         LinksIn(Heads \union Entries, nx, pv, nx2, pv2, At(h, L[h], i), At(h, L[h], i + 1), e),
         NEW w, WalkFits(nx, st, L, w), e # w.pos
  PROVE  Leaves(nx2, pv2, st, w, L)
<1>. DEFINE s == L[h]
            t == PutIn(s, i, e)
            L2 == [L EXCEPT ![h] = t]
<1>0. L \in [Heads -> Seq(Entries)] /\ s \in Seq(Entries) /\ Len(s) \in Nat /\ i \in 0 .. Len(s)
  BY LenProperties DEF Fits
<1>1. t \in Seq(Entries) /\ Inserts(s, i, e, t)
  <2>. HIDE DEF s
  <2>. QED BY <1>0, PutInInserts
<1>2. InsertStep(L, L2)
  <2>1. L2 = [L EXCEPT ![h] = PutIn(L[h], i, e)]
    OBVIOUS
  <2>. HIDE DEF L2
  <2>. QED BY <2>1 DEF InsertStep
<1>. HIDE DEF t
<1>3. Fits(nx2, pv2, st, L2) /\ \A x : Has(t, x) <=> x = e \/ Has(s, x)
  <2>1. \A g \in Heads : ~Has(L[g], e)
    BY DEF Loose
  <2>2. Inserts(L[h], i, e, t)
    BY <1>1
  <2>. HIDE DEF s
  <2>3. Fits(nx2, pv2, st, [L EXCEPT ![h] = t]) /\ (\A x : Has(t, x) <=> x = e \/ Has(L[h], x))
    BY <1>1, <2>1, <2>2, FitsInsert
  <2>. QED BY <2>3 DEF s
<1>4. L2[h] = t /\ \A g \in Heads \ {h} : L2[g] = L[g]
  BY <1>0
<1>. HIDE DEF L2
<1>5. ASSUME Follows(nx, st, L, w) PROVE Follows(nx2, st, L2, w)
  <2>. DEFINE head == w.head
              pos == w.pos
              saw == w.saw
              must == w.must
  <2>1. /\ w \in [head : Heads, pos : Heads \union Entries, saw : SUBSET Entries, must : SUBSET Entries]
        /\ head \in Heads /\ head \notin st
        /\ \A x \in saw \union must : Has(L[head], x)
        /\ Standing(nx, L, head, pos, saw, must)
    BY <1>5 DEF Follows
  <2>2. pos # e
    OBVIOUS
  <2>. HIDE DEF head, pos, saw, must
  <2>4. ASSUME pos \in Entries, Loose(L, pos) PROVE Loose(L2, pos) /\ nx2[pos] = nx[pos]
    <3>1. Loose(L2, pos)
      BY <1>3, <1>4, <2>2, <2>4 DEF Loose
    <3>2. pos # At(h, s, i)
      <4>1. ~Has(s, pos)
        BY <2>4 DEF Loose
      <4>2. h \notin Entries
        OBVIOUS
      <4>. HIDE DEF s
      <4>. QED BY <2>4, <4>1, <4>2, AtHas
    <3>3. pos \notin {e, At(h, s, i)} => nx2[pos] = nx[pos]
      BY <2>4 DEF LinksIn
    <3>. QED BY <2>2, <3>1, <3>2, <3>3
  <2>3. StaysLoose(L, L2, nx, nx2, pos)
    BY <2>4 DEF StaysLoose
  <2>5. \A x \in saw \union must : Has(L2[head], x)
    BY <1>3, <1>4, <2>1
  <2>6. Standing(nx2, L2, head, pos, saw, must)
    <3>1. CASE head = h
      <4>0. ~Has(s, e)
        BY DEF Loose
      <4>1. PICK r : r \in Seq(Entries) /\ Joins(s, i, r, t) /\ Apart(s, r)
        <5>. HIDE DEF s
        <5>1. JoinsOne(s, i, e, t)
          BY <1>0, <1>1, InsertsJoins
        <5>. QED BY <4>0, <5>1 DEF JoinsOne
      <4>2. L[head] = s /\ L2[head] = t
        BY <1>4, <3>1
      <4>3. L[head] \in Seq(Entries) /\ L2[head] \in Seq(Entries) /\ Joins(L[head], i, r, L2[head]) /\ Apart(L[head], r)
        BY <1>0, <1>1, <4>1, <4>2
      <4>. QED BY <2>1, <2>3, <4>1, <4>3, CursorPut
    <3>2. CASE head # h
      <4>1. L2[head] = L[head]
        BY <1>4, <2>1, <3>2
      <4>. QED BY <2>1, <2>3, <4>1, CursorSame
    <3>. QED BY <3>1, <3>2
  <2>. QED BY <2>1, <2>5, <2>6 DEF Follows, head, pos, saw, must
<1>6. WalkFits(nx2, st, L2, w)
  BY <1>5 DEF WalkFits
<1>. QED BY <1>2, <1>3, <1>6 DEF Leaves
LEMMA NothingForgotten ==
  ASSUME NEW A, NEW B, NEW C, NEW D, NEW e, NEW w \in [head : A, pos : B, saw : C, must : D],
         w.saw \ {e} = w.saw, w.must \ {e} = w.must
  PROVE  [w EXCEPT !.saw = @ \ {e}, !.must = @ \ {e}] = w
OBVIOUS

(* list_del and list_del_init                                              *)
LEMMA DelKept ==
  ASSUME Heads \intersect Entries = {}, Junk \notin Heads,
         NEW nx, NEW pv, NEW st, NEW L, Fits(nx, pv, st, L), NEW h \in Heads, h \notin st,
         NEW i \in 1 .. Len(L[h]), NEW e, e = L[h][i], NEW nx2, NEW pv2,
         LinksOut(Heads \union Entries, nx, pv, nx2, pv2, At(h, L[h], i - 1), At(h, L[h], i + 1), e),
         NEW w, WalkFits(nx, st, L, w),
         w.pos \in Entries /\ Loose(L, w.pos) => e # nx[w.pos],
         w.pos = e => nx2[e] = nx[e]
  PROVE  Leaves(nx2, pv2, st, [w EXCEPT !.saw = @ \ {e}, !.must = @ \ {e}], L)
<1>. DEFINE s == L[h]
            t == TakenOut(s, i)
            L2 == [L EXCEPT ![h] = t]
            w2 == [w EXCEPT !.saw = @ \ {e}, !.must = @ \ {e}]
<1>0. /\ L \in [Heads -> Seq(Entries)] /\ s \in Seq(Entries) /\ Len(s) \in Nat /\ i \in 1 .. Len(s) /\ Once(s)
      /\ e = s[i] /\ e \in Entries /\ h \notin Entries
  <2>1. L \in [Heads -> Seq(Entries)] /\ Once(s)
    BY DEF Fits
  <2>2. s \in Seq(Entries)
    BY <2>1
  <2>. QED BY <2>1, <2>2, LenProperties, ElementOfSeq
<1>1. t \in Seq(Entries) /\ Removes(s, i, t)
  <2>. HIDE DEF s
  <2>. QED BY <1>0, TakenOutRemoves
<1>2. DeleteStep(L, L2)
  <2>1. L2 = [L EXCEPT ![h] = TakenOut(L[h], i)]
    OBVIOUS
  <2>. HIDE DEF L2
  <2>. QED BY <2>1 DEF DeleteStep
<1>3. nx[e] = At(h, s, i + 1)
  <2>1. i \in 0 .. Len(s) /\ At(h, s, i) = e
    <3>. HIDE DEF s
    <3>. QED BY <1>0 DEF At
  <2>2. Chain(nx, pv, h, s)
    BY DEF Fits
  <2>. QED BY <2>1, <2>2 DEF Chain
<1>. HIDE DEF t
<1>4. Fits(nx2, pv2, st, L2) /\ \A x : Has(t, x) <=> x # e /\ Has(s, x)
  <2>1. /\ Removes(L[h], i, t)
        /\ LinksOut(Heads \union Entries, nx, pv, nx2, pv2, At(h, L[h], i - 1), At(h, L[h], i + 1), L[h][i])
    BY <1>1
  <2>. HIDE DEF s
  <2>2. Fits(nx2, pv2, st, [L EXCEPT ![h] = t]) /\ (\A x : Has(t, x) <=> x # L[h][i] /\ Has(L[h], x))
    BY <1>1, <2>1, FitsRemove
  <2>. QED BY <2>2 DEF s
<1>5. L2[h] = t /\ \A g \in Heads \ {h} : L2[g] = L[g]
  BY <1>0
<1>. HIDE DEF L2
<1>6. \A g \in Heads \ {h} : ~Has(L[g], e)
  <2>. TAKE g \in Heads \ {h}
  <2>1. Apart(L[g], s)
    BY DEF Fits
  <2>. QED BY <1>0, <2>1 DEF Apart, Has
<1>7. ASSUME Follows(nx, st, L, w) PROVE Follows(nx2, st, L2, w2)
  <2>. DEFINE head == w.head
              pos == w.pos
              saw == w.saw
              must == w.must
  <2>1. /\ w \in [head : Heads, pos : Heads \union Entries, saw : SUBSET Entries, must : SUBSET Entries]
        /\ head \in Heads /\ head \notin st
        /\ \A x \in saw \union must : Has(L[head], x)
        /\ Standing(nx, L, head, pos, saw, must)
    BY <1>7 DEF Follows
  <2>2. /\ w2 \in [head : Heads, pos : Heads \union Entries, saw : SUBSET Entries, must : SUBSET Entries]
        /\ w2.head = head /\ w2.pos = pos /\ w2.saw = saw \ {e} /\ w2.must = must \ {e}
    BY <2>1
  <2>3. /\ pos \in Entries /\ Loose(L, pos) => nx[pos] # e
        /\ pos = e => nx2[e] = nx[e]
    OBVIOUS
  <2>. HIDE DEF head, pos, saw, must, w2, s
  <2>4. ASSUME pos \in Entries, Loose(L, pos) PROVE Loose(L2, pos) /\ nx2[pos] = nx[pos]
    <3>1. Loose(L2, pos)
      BY <1>4, <1>5, <2>4 DEF Loose, s
    <3>2. ~Has(s, pos)
      BY <2>4 DEF Loose, s
    <3>3. pos # At(h, s, i - 1) /\ pos # e
      BY <1>0, <2>4, <3>2, AtHas DEF Has
    <3>4. pos \notin {e, At(h, s, i - 1)} => nx2[pos] = nx[pos]
      BY <2>4 DEF LinksOut, s
    <3>. QED BY <3>1, <3>3, <3>4
  <2>5. StaysLoose(L, L2, nx, nx2, pos)
    BY <2>4 DEF StaysLoose
  <2>6. ASSUME NEW x \in (saw \ {e}) \union (must \ {e}) PROVE Has(L2[head], x)
    BY <1>4, <1>5, <2>1, <2>6 DEF s
  <2>7. Standing(nx2, L2, head, pos, saw \ {e}, must \ {e})
    <3>1. CASE head = h
      <4>1. L[head] = s /\ L2[head] = t
        BY <1>5, <3>1 DEF s
      <4>2. pos = e => pos \in Entries /\ Loose(L2, pos) /\ nx2[pos] = At(head, L[head], i + 1)
        <5>1. ASSUME pos = e PROVE Loose(L2, pos)
          BY <1>4, <1>5, <1>6, <5>1 DEF Loose
        <5>. QED BY <1>0, <1>3, <2>3, <3>1, <4>1, <5>1
      <4>3. /\ L[head] \in Seq(Entries) /\ Once(L[head]) /\ L2[head] \in Seq(Entries) /\ Removes(L[head], i, L2[head])
            /\ L[head][i] = e /\ head \notin Entries
            /\ (pos \in Entries /\ Loose(L, pos) => nx[pos] # L[head][i])
            /\ (pos = L[head][i] => pos \in Entries /\ Loose(L2, pos) /\ nx2[pos] = At(head, L[head], i + 1))
        BY <1>0, <1>1, <2>3, <3>1, <4>1, <4>2
      <4>4. Standing(nx2, L2, head, pos, saw \ {L[head][i]}, must \ {L[head][i]})
        BY <2>1, <2>5, <4>3, CursorOut
      <4>. QED BY <4>3, <4>4
    <3>2. CASE head # h
      <4>1. L2[head] = L[head]
        BY <1>5, <2>1, <3>2
      <4>2. saw \ {e} = saw /\ must \ {e} = must
        BY <1>6, <2>1, <3>2
      <4>3. Standing(nx2, L2, head, pos, saw, must)
        BY <2>1, <2>5, <4>1, CursorSame
      <4>. QED BY <4>2, <4>3
    <3>. QED BY <3>1, <3>2
  <2>. QED BY <2>1, <2>2, <2>6, <2>7 DEF Follows
<1>8. WalkFits(nx2, st, L2, w2)
  <2>1. CASE w = List!NoWalk
    <3>1. w2 = List!NoWalk
      <4>1. /\ w \in [head : {Junk}, pos : {Junk}, saw : {{}}, must : {{}}]
            /\ w.saw \ {e} = w.saw /\ w.must \ {e} = w.must
        BY <2>1 DEF List!NoWalk
      <4>2. w2 = w
        BY <4>1, NothingForgotten
      <4>. HIDE DEF w2
      <4>. QED BY <2>1, <4>2
    <3>. HIDE DEF w2
    <3>. QED BY <3>1 DEF WalkFits
  <2>2. CASE Follows(nx, st, L, w)
    <3>. HIDE DEF w2
    <3>. QED BY <1>7, <2>2 DEF WalkFits
  <2>. QED BY <2>1, <2>2 DEF WalkFits
<1>. HIDE DEF w2
<1>9. Leaves(nx2, pv2, st, w2, L)
  BY <1>2, <1>4, <1>8 DEF Leaves
<1>. QED BY <1>9 DEF w2

(* list_splice of a list that is not empty.                                *)
LEMMA SpliceKept ==
  ASSUME Heads \intersect Entries = {},
         NEW nx, NEW pv, NEW st, NEW L, Fits(nx, pv, st, L), NEW h \in Heads, h \notin st,
         NEW g \in Heads, g \notin st, g # h, Len(L[g]) # 0, NEW i \in 0 .. Len(L[h]), NEW nx2, NEW pv2,
         LinksOver(Heads \union Entries, nx, pv, nx2, pv2, At(h, L[h], i), At(h, L[h], i + 1),
                   L[g][1], L[g][Len(L[g])]),
         NEW w, WalkFits(nx, st, L, w), g # w.head
  PROVE  Leaves(nx2, pv2, st \union {g}, w, L)
<1>. DEFINE s == L[h]
            r == L[g]
            t == PutAll(s, i, r)
            L2 == [[L EXCEPT ![g] = <<>>] EXCEPT ![h] = t]
<1>0. /\ L \in [Heads -> Seq(Entries)] /\ s \in Seq(Entries) /\ r \in Seq(Entries) /\ i \in 0 .. Len(s)
      /\ Len(r) \in Nat /\ Len(r) # 0 /\ h \notin Entries /\ g \notin Entries
      /\ Apart(s, r)
  <2>1. L \in [Heads -> Seq(Entries)] /\ Apart(s, r)
    BY DEF Fits
  <2>2. s \in Seq(Entries) /\ r \in Seq(Entries)
    BY <2>1
  <2>. QED BY <2>1, <2>2, LenProperties
<1>1. t \in Seq(Entries) /\ Joins(s, i, r, t)
  <2>. HIDE DEF s, r
  <2>. QED BY <1>0, PutAllJoins
<1>2. SpliceStep(L, L2)
  <2>1. L2 = [[L EXCEPT ![g] = <<>>] EXCEPT ![h] = PutAll(L[h], i, L[g])]
    OBVIOUS
  <2>. HIDE DEF L2
  <2>. QED BY <2>1 DEF SpliceStep
<1>. HIDE DEF t
<1>3. Fits(nx2, pv2, st \union {g}, L2) /\ \A x : Has(t, x) <=> Has(s, x) \/ Has(r, x)
  <2>1. Joins(L[h], i, L[g], t)
    BY <1>1
  <2>. HIDE DEF s, r
  <2>2. /\ Fits(nx2, pv2, st \union {g}, [[L EXCEPT ![g] = <<>>] EXCEPT ![h] = t])
        /\ \A x : Has(t, x) <=> Has(L[h], x) \/ Has(L[g], x)
    BY <1>1, <2>1, FitsJoin
  <2>. QED BY <2>2 DEF s, r
<1>4. L2[h] = t /\ Len(L2[g]) = 0 /\ \A f \in Heads \ {h, g} : L2[f] = L[f]
  BY <1>0
<1>5. Has(r, r[1]) /\ Has(r, r[Len(r)]) /\ r[1] \in Entries /\ r[Len(r)] \in Entries
  <2>1. 1 \in 1 .. Len(r) /\ Len(r) \in 1 .. Len(r)
    <3>. HIDE DEF r
    <3>. QED BY <1>0
  <2>. QED BY <1>0, <2>1, ElementOfSeq DEF Has
<1>. HIDE DEF L2
<1>6. ASSUME Follows(nx, st, L, w) PROVE Follows(nx2, st \union {g}, L2, w)
  <2>. DEFINE head == w.head
              pos == w.pos
              saw == w.saw
              must == w.must
  <2>1. /\ w \in [head : Heads, pos : Heads \union Entries, saw : SUBSET Entries, must : SUBSET Entries]
        /\ head \in Heads /\ head \notin st
        /\ \A x \in saw \union must : Has(L[head], x)
        /\ Standing(nx, L, head, pos, saw, must)
    BY <1>6 DEF Follows
  <2>2. head # g
    OBVIOUS
  <2>3. /\ LinksOver(Heads \union Entries, nx, pv, nx2, pv2, At(h, s, i), At(h, s, i + 1), r[1], r[Len(r)])
        /\ \A x : Loose(L, x) => ~Has(s, x) /\ ~Has(r, x)
    BY DEF Loose
  <2>4. \A f \in Heads : L2[f] = t \/ Len(L2[f]) = 0 \/ L2[f] = L[f]
    BY <1>4
  <2>. HIDE DEF head, pos, saw, must, s, r
  <2>5. ASSUME pos \in Entries, Loose(L, pos) PROVE Loose(L2, pos) /\ nx2[pos] = nx[pos]
    <3>1. ~Has(s, pos) /\ ~Has(r, pos)
      BY <2>3, <2>5
    <3>2. Loose(L2, pos)
      <4>1. ASSUME NEW f \in Heads PROVE ~Has(L2[f], pos)
        <5>1. CASE L2[f] = t
          BY <1>3, <3>1, <5>1
        <5>2. CASE Len(L2[f]) = 0
          BY <5>2 DEF Has
        <5>3. CASE L2[f] = L[f]
          BY <2>5, <5>3 DEF Loose
        <5>. QED BY <2>4, <5>1, <5>2, <5>3
      <4>. QED BY <4>1 DEF Loose
    <3>3. pos # At(h, s, i) /\ pos # r[Len(r)]
      BY <1>0, <1>5, <2>5, <3>1, AtHas
    <3>4. pos \notin {r[Len(r)], At(h, s, i)} => nx2[pos] = nx[pos]
      BY <2>3, <2>5 DEF LinksOver
    <3>. QED BY <3>2, <3>3, <3>4
  <2>6. StaysLoose(L, L2, nx, nx2, pos)
    BY <2>5 DEF StaysLoose
  <2>7. ASSUME NEW x \in saw \union must PROVE Has(L2[head], x)
    BY <1>3, <1>4, <2>1, <2>2 DEF s
  <2>8. Standing(nx2, L2, head, pos, saw, must)
    <3>1. CASE head = h
      <4>1. L[head] = s /\ L2[head] = t
        BY <1>4, <3>1 DEF s
      <4>2. L[head] \in Seq(Entries) /\ L2[head] \in Seq(Entries) /\ Joins(L[head], i, r, L2[head]) /\ Apart(L[head], r)
        BY <1>0, <1>1, <4>1
      <4>. QED BY <1>0, <2>1, <2>6, <4>2, CursorPut
    <3>2. CASE head # h
      <4>1. L2[head] = L[head]
        BY <1>4, <2>1, <2>2, <3>2
      <4>. QED BY <2>1, <2>6, <4>1, CursorSame
    <3>. QED BY <3>1, <3>2
  <2>9. head \notin st \union {g}
    BY <2>1, <2>2
  <2>. QED BY <2>1, <2>7, <2>8, <2>9 DEF Follows, head, pos, saw, must
<1>7. WalkFits(nx2, st \union {g}, L2, w)
  BY <1>6 DEF WalkFits
<1>. QED BY <1>2, <1>3, <1>7 DEF Leaves

(* INIT_LIST_HEAD                                                          *)
LEMMA ResetKept ==
  ASSUME Heads \intersect Entries = {},
         NEW nx, NEW pv, NEW st, NEW L, Fits(nx, pv, st, L), NEW h \in Heads, h \in st,
         NEW nx2, NEW pv2, nx2[h] = h, pv2[h] = h,
         \A x \in (Heads \union Entries) \ {h} : nx2[x] = nx[x] /\ pv2[x] = pv[x],
         NEW w, WalkFits(nx, st, L, w)
  PROVE  Leaves(nx2, pv2, st \ {h}, w, L)
<1>1. Fits(nx2, pv2, st \ {h}, L)
  BY FitsReset
<1>2. ASSUME Follows(nx, st, L, w) PROVE Follows(nx2, st \ {h}, L, w)
  <2>1. StaysLoose(L, L, nx, nx2, w.pos)
    BY DEF StaysLoose
  <2>2. Standing(nx, L, w.head, w.pos, w.saw, w.must)
    BY <1>2 DEF Follows
  <2>3. Standing(nx2, L, w.head, w.pos, w.saw, w.must)
    BY <2>1, <2>2, CursorSame
  <2>. QED BY <1>2, <2>3 DEF Follows
<1>. QED BY <1>1, <1>2 DEF WalkFits, Leaves

(* list_for_each begins, and goes on.                                      *)
LEMMA BeginKept ==
  ASSUME NEW nx, NEW pv, NEW st, NEW L, Fits(nx, pv, st, L), NEW h \in Heads, h \notin st,
         nx[h] \in Heads \union Entries
  PROVE  Follows(nx, st, L, [head |-> h, pos |-> nx[h], saw |-> {}, must |-> {L[h][i] : i \in 1 .. Len(L[h])}])
<1>. DEFINE s == L[h]
            none == {}
            must == {s[i] : i \in 1 .. Len(s)}
            w == [head |-> h, pos |-> nx[h], saw |-> none, must |-> must]
<1>1. s \in Seq(Entries) /\ Len(s) \in Nat /\ Chain(nx, pv, h, s)
  <2>1. s \in Seq(Entries) /\ Chain(nx, pv, h, s)
    BY DEF Fits
  <2>. QED BY <2>1, LenProperties
<1>2. nx[h] = At(h, s, 1)
  <2>1. 0 \in 0 .. Len(s) /\ At(h, s, 0) = h /\ At(h, s, 0 + 1) = At(h, s, 1)
    <3>. HIDE DEF s
    <3>. QED BY <1>1 DEF At
  <2>2. nx[At(h, s, 0)] = At(h, s, 0 + 1)
    BY <1>1, <2>1 DEF Chain
  <2>. QED BY <2>1, <2>2
<1>3. Cursor(nx, L, h, nx[h], none, must, 1)
  <2>1. 1 \in 1 .. Len(s) + 1 /\ \A j \in 1 .. 1 - 1 : FALSE
    BY <1>1
  <2>. QED BY <1>2, <2>1 DEF Cursor
<1>4. must \subseteq Entries /\ \A x \in none \union must : Has(s, x)
  BY <1>1, ElementOfSeq DEF Has
<1>5. w.head = h /\ w.pos = nx[h] /\ w.saw = none /\ w.must = must
      /\ w \in [head : Heads, pos : Heads \union Entries, saw : SUBSET Entries, must : SUBSET Entries]
  BY <1>4
<1>. HIDE DEF w, must, none
<1>6. Standing(nx, L, h, nx[h], none, must)
  BY <1>3 DEF Standing
<1>7. Follows(nx, st, L, w)
  BY <1>4, <1>5, <1>6 DEF Follows
<1>. QED BY <1>7 DEF w, must, none

LEMMA StepKept ==
  ASSUME Heads \intersect Entries = {},
         NEW nx, NEW pv, NEW st, NEW L, Fits(nx, pv, st, L), NEW w, Follows(nx, st, L, w), w.pos # w.head,
         NEW K, \A x \in Entries : x \in K <=> ~Loose(L, x), nx[w.pos] \in Heads \union Entries
  PROVE  Follows(nx, st, L, [w EXCEPT !.pos = nx[w.pos], !.saw = @ \union ({w.pos} \intersect K)])
<1>. DEFINE head == w.head
            pos == w.pos
            saw == w.saw
            must == w.must
            s == L[head]
            more == saw \union ({pos} \intersect K)
            w2 == [w EXCEPT !.pos = nx[w.pos], !.saw = @ \union ({w.pos} \intersect K)]
<1>1. /\ w \in [head : Heads, pos : Heads \union Entries, saw : SUBSET Entries, must : SUBSET Entries]
      /\ head \in Heads /\ head \notin st /\ pos # head /\ saw \subseteq Entries
      /\ \A x \in saw \union must : Has(s, x)
      /\ Standing(nx, L, head, pos, saw, must)
      /\ nx[pos] \in Heads \union Entries
  BY DEF Follows
<1>2. s \in Seq(Entries) /\ Len(s) \in Nat /\ Chain(nx, pv, head, s) /\ Once(s) /\ head \notin Entries
  <2>1. s \in Seq(Entries) /\ Chain(nx, pv, head, s) /\ Once(s)
    BY <1>1 DEF Fits
  <2>. QED BY <1>1, <2>1, LenProperties
<1>3. w2.head = head /\ w2.pos = nx[pos] /\ w2.saw = more /\ w2.must = must
  BY <1>1
<1>4. PICK k : Cursor(nx, L, head, pos, saw, must, k)
  BY <1>1 DEF Standing
<1>5. /\ k \in 1 .. Len(s) + 1
      /\ pos = At(head, s, k) \/ (pos \in Entries /\ Loose(L, pos) /\ nx[pos] = At(head, s, k))
      /\ \A j \in 1 .. k - 1 : s[j] \in must => s[j] \in saw
      /\ \A j \in k .. Len(s) : s[j] \notin saw
  BY <1>4 DEF Cursor
<1>6. Standing(nx, L, head, nx[pos], more, must) /\ more \subseteq Entries /\ \A x \in more : Has(s, x)
  <2>1. CASE pos = At(head, s, k)
    <3>1. k \in 1 .. Len(s) /\ pos = s[k] /\ pos \in Entries
      BY <1>1, <1>2, <2>1, ElementOfSeq DEF At
    <3>2. Has(s, pos) /\ pos \in K
      <4>1. Has(s, pos)
        BY <3>1 DEF Has
      <4>2. ~Loose(L, pos)
        BY <1>1, <4>1 DEF Loose
      <4>. QED BY <3>1, <4>1, <4>2
    <3>3. more = saw \union {pos}
      BY <3>2
    <3>. HIDE DEF s, more, head, pos, saw, must
    <3>4. nx[pos] = At(head, s, k + 1) /\ k + 1 \in 1 .. Len(s) + 1
      <4>1. k \in 0 .. Len(s) /\ k + 1 \in 1 .. Len(s) + 1
        BY <1>2, <3>1
      <4>. QED BY <1>2, <2>1, <4>1 DEF Chain
    <3>5. \A j \in 1 .. (k + 1) - 1 : s[j] \in must => s[j] \in more
      <4>. TAKE j \in 1 .. (k + 1) - 1
      <4>1. j = k \/ j \in 1 .. k - 1
        BY <1>2, <3>1
      <4>. QED BY <1>5, <3>1, <3>3, <4>1
    <3>6. \A j \in k + 1 .. Len(s) : s[j] \notin more
      <4>. TAKE j \in k + 1 .. Len(s)
      <4>1. j \in k .. Len(s) /\ j # k /\ j \in 1 .. Len(s)
        BY <1>2, <3>1
      <4>2. s[j] # s[k]
        BY <1>2, <3>1, <4>1 DEF Once
      <4>. QED BY <1>5, <3>1, <3>3, <4>1, <4>2
    <3>7. Cursor(nx, L, head, nx[pos], more, must, k + 1)
      BY <3>4, <3>5, <3>6 DEF Cursor, s
    <3>8. more \subseteq Entries /\ \A x \in more : Has(s, x)
      BY <1>1, <3>1, <3>2, <3>3
    <3>. QED BY <3>7, <3>8 DEF Standing
  <2>2. CASE pos \in Entries /\ Loose(L, pos) /\ nx[pos] = At(head, s, k)
    <3>1. more = saw
      BY <2>2
    <3>. HIDE DEF s, more, head, pos, saw, must
    <3>2. Cursor(nx, L, head, nx[pos], more, must, k)
      BY <1>5, <2>2, <3>1 DEF Cursor, s
    <3>. QED BY <1>1, <3>1, <3>2 DEF Standing
  <2>. QED BY <1>5, <2>1, <2>2
<1>7. w2 \in [head : Heads, pos : Heads \union Entries, saw : SUBSET Entries, must : SUBSET Entries]
  <2>1. more \subseteq Entries
    BY <1>6
  <2>. QED BY <1>1, <2>1
<1>. HIDE DEF w2, more
<1>8. Follows(nx, st, L, w2)
  BY <1>1, <1>3, <1>6, <1>7 DEF Follows
<1>. QED BY <1>8 DEF w2
-----------------------------------------------------------------------------
(* The lists as sequences, and what holds of them in every state.          *)
Seqs == [h \in Heads |-> List!Items(h)]

ListInv ==
  /\ lnext \in [Heads \union Entries -> Heads \union Entries \union {Junk}]
  /\ lprev \in [Heads \union Entries -> Heads \union Entries \union {Junk}]
  /\ lstale \subseteq Heads
  /\ Fits(lnext, lprev, lstale, Seqs)
  /\ WalkFits(lnext, lstale, Seqs, lwalk)

LEMMA ListSizes ==
  /\ Heads \intersect Entries = {} /\ IsFiniteSet(Heads \union Entries)
  /\ Junk \notin Heads /\ Junk \notin Entries
BY Sizes DEF List!NodesOK, List!Nodes, List!IsFiniteSet, IsFiniteSet

LEMMA AllFound ==
  ASSUME NEW nx, NEW pv, NEW st, NEW L, Fits(nx, pv, st, L)
  PROVE  [h \in Heads |-> ItemsOf(nx, st, h)] = L
<1>1. L \in [Heads -> Seq(Entries)]
  BY DEF Fits
<1>2. ASSUME NEW h \in Heads PROVE ItemsOf(nx, st, h) = L[h]
  <2>1. CASE h \in st
    <3>1. L[h] = <<>>
      BY <2>1 DEF Fits
    <3>2. ItemsOf(nx, st, h) = <<>>
      BY <2>1, Zenon DEF ItemsOf
    <3>. QED BY <3>1, <3>2
  <2>2. CASE h \notin st
    <3>1. L[h] \in Seq(Entries) /\ Once(L[h]) /\ Chain(nx, pv, h, L[h])
      BY <1>1, <2>2 DEF Fits
    <3>2. h \notin Entries /\ IsFiniteSet(Heads \union Entries)
      BY ListSizes
    <3>. QED BY <2>2, <3>1, <3>2, ItemsFound
  <2>. QED BY <2>1, <2>2
<1>. QED BY <1>1, <1>2

LEMMA ItemsOfState ==
  /\ \A h : List!Items(h) = ItemsOf(lnext, lstale, h)
  /\ \A h : List!Items(h)' = ItemsOf(lnext', lstale', h)
BY DEF List!Items, List!Steps, List!Nodes, ItemsOf, StepsOf, List!Cardinality, Cardinality

LEMMA SeqsAre ==
  /\ \A L : Fits(lnext, lprev, lstale, L) => Seqs = L
  /\ \A L : Fits(lnext', lprev', lstale', L) => Seqs' = L
<1>1. Seqs = [h \in Heads |-> ItemsOf(lnext, lstale, h)]
  BY ItemsOfState DEF Seqs
<1>2. Seqs' = [h \in Heads |-> ItemsOf(lnext', lstale', h)]
  BY ItemsOfState DEF Seqs
<1>. QED BY <1>1, <1>2, AllFound
(* A node that is in a ring is before one of its nodes and behind another. *)
InRing(st, L, x) == x \in Heads \ st \/ \E h \in Heads : Has(L[h], x)

Before(st, L, x) == \E h \in Heads : h \notin st /\ \E i \in 0 .. Len(L[h]) : x = At(h, L[h], i)
Behind(st, L, x) == \E h \in Heads : h \notin st /\ \E i \in 0 .. Len(L[h]) : x = At(h, L[h], i + 1)

LEMMA Placed ==
  ASSUME NEW nx, NEW pv, NEW st, NEW L, Fits(nx, pv, st, L), NEW x, InRing(st, L, x)
  PROVE  Before(st, L, x) /\ Behind(st, L, x)
<1>0. \A h \in Heads : L[h] \in Seq(Entries) /\ Len(L[h]) \in Nat
  <2>1. \A h \in Heads : L[h] \in Seq(Entries)
    BY DEF Fits
  <2>. QED BY <2>1, LenProperties
<1>1. CASE x \in Heads \ st
  <2>1. 0 \in 0 .. Len(L[x]) /\ At(x, L[x], 0) = x /\ Len(L[x]) \in 0 .. Len(L[x]) /\ At(x, L[x], Len(L[x]) + 1) = x
    BY <1>0, <1>1 DEF At
  <2>. QED BY <1>1, <2>1 DEF Before, Behind
<1>2. CASE \E h \in Heads : Has(L[h], x)
  <2>1. PICK h \in Heads : Has(L[h], x)
    BY <1>2
  <2>2. PICK i \in 1 .. Len(L[h]) : L[h][i] = x
    BY <2>1 DEF Has
  <2>3. h \notin st
    <3>1. h \in st => Len(L[h]) = 0
      BY DEF Fits
    <3>. QED BY <2>2, <3>1
  <2>4. i \in 0 .. Len(L[h]) /\ i - 1 \in 0 .. Len(L[h]) /\ (i - 1) + 1 = i /\ At(h, L[h], i) = x
    BY <1>0, <2>2 DEF At
  <2>. QED BY <2>3, <2>4 DEF Before, Behind
<1>. QED BY <1>1, <1>2 DEF InRing

LEMMA Neighbours ==
  ASSUME NEW nx, NEW pv, NEW st, NEW L, Fits(nx, pv, st, L), NEW h \in Heads, h \notin st, NEW i \in 0 .. Len(L[h])
  PROVE  nx[At(h, L[h], i)] = At(h, L[h], i + 1) /\ pv[At(h, L[h], i + 1)] = At(h, L[h], i)
BY DEF Fits, Chain

LEMMA NodesAt ==
  ASSUME NEW nx, NEW pv, NEW st, NEW L, Fits(nx, pv, st, L), NEW h \in Heads, h \notin st, NEW j
  PROVE  InRing(st, L, At(h, L[h], j)) /\ At(h, L[h], j) \in Heads \union Entries
<1>1. L[h] \in Seq(Entries)
  BY DEF Fits
<1>2. CASE j \in 1 .. Len(L[h])
  <2>1. At(h, L[h], j) = L[h][j] /\ L[h][j] \in Entries
    BY <1>1, <1>2, ElementOfSeq DEF At
  <2>. QED BY <1>2, <2>1 DEF InRing, Has
<1>3. CASE j \notin 1 .. Len(L[h])
  BY <1>3 DEF InRing, At
<1>. QED BY <1>2, <1>3

LEMMA LinkedAre ==
  ASSUME ListInv
  PROVE  /\ \A x : x \in List!Linked <=> InRing(lstale, Seqs, x)
         /\ \A h \in Heads : /\ List!ItemSet(h) = {Seqs[h][i] : i \in 1 .. Len(Seqs[h])}
                             /\ \A x : x \in List!ItemSet(h) <=> Has(Seqs[h], x)
<1>1. \A h \in Heads : Seqs[h] = List!Items(h)
  BY DEF Seqs
<1>2. \A h \in Heads : Seqs[h] \in Seq(Entries) /\ DOMAIN Seqs[h] = 1 .. Len(Seqs[h])
  <2>1. \A h \in Heads : Seqs[h] \in Seq(Entries)
    BY DEF ListInv, Fits
  <2>. QED BY <2>1, LenProperties
<1>3. \A h \in Heads : List!ItemSet(h) = {Seqs[h][i] : i \in 1 .. Len(Seqs[h])}
  BY <1>1, <1>2 DEF List!ItemSet
<1>4. \A h \in Heads : \A x : x \in List!ItemSet(h) <=> Has(Seqs[h], x)
  BY <1>3 DEF Has
<1>5. List!Linked = (Heads \ lstale) \union UNION {List!ItemSet(h) : h \in Heads}
  BY DEF List!Linked
<1>6. \A x : x \in List!Linked <=> InRing(lstale, Seqs, x)
  <2>. TAKE x
  <2>1. x \in UNION {List!ItemSet(h) : h \in Heads} <=> \E h \in Heads : x \in List!ItemSet(h)
    OBVIOUS
  <2>. QED BY <1>4, <1>5, <2>1 DEF InRing
<1>. QED BY <1>3, <1>4, <1>6

(* Between makes an entry that is in no list the one after node i.         *)
LEMMA BetweenLinks ==
  ASSUME NEW N, NEW nx \in [N -> N \union {Junk}], NEW pv \in [N -> N \union {Junk}],
         NEW e \in N, NEW p \in N, NEW q \in N, p # e, q # e
  PROVE  /\ [nx EXCEPT ![e] = q, ![p] = e] \in [N -> N \union {Junk}]
         /\ [pv EXCEPT ![q] = e, ![e] = p] \in [N -> N \union {Junk}]
         /\ LinksIn(N, nx, pv, [nx EXCEPT ![e] = q, ![p] = e], [pv EXCEPT ![q] = e, ![e] = p], p, q, e)
BY DEF LinksIn

(* What each operation does to the sequences.                              *)
ListStep == \/ InsertStep(Seqs, Seqs') \/ DeleteStep(Seqs, Seqs') \/ SpliceStep(Seqs, Seqs') \/ Seqs' = Seqs

LEMMA ListKept ==
  ASSUME lnext' \in [Heads \union Entries -> Heads \union Entries \union {Junk}],
         lprev' \in [Heads \union Entries -> Heads \union Entries \union {Junk}],
         lstale' \subseteq Heads, Leaves(lnext', lprev', lstale', lwalk', Seqs)
  PROVE  ListInv' /\ ListStep
<1>1. PICK L2 : /\ Fits(lnext', lprev', lstale', L2) /\ WalkFits(lnext', lstale', L2, lwalk')
                /\ InsertStep(Seqs, L2) \/ DeleteStep(Seqs, L2) \/ SpliceStep(Seqs, L2) \/ L2 = Seqs
  BY Zenon DEF Leaves
<1>2. Seqs' = L2
  BY <1>1, SeqsAre
<1>. QED BY <1>1, <1>2, Zenon DEF ListInv, ListStep

LEMMA AddStep ==
  ASSUME ListInv, NEW e \in Entries, NEW at \in List!Linked, List!ListAdd(e, at) \/ List!ListAddTail(e, at)
  PROVE  ListInv' /\ ListStep
<1>. DEFINE N == Heads \union Entries
            L == Seqs
<1>0. /\ Heads \intersect Entries = {} /\ Fits(lnext, lprev, lstale, L) /\ WalkFits(lnext, lstale, L, lwalk)
      /\ lnext \in [N -> N \union {Junk}] /\ lprev \in [N -> N \union {Junk}] /\ lstale \subseteq Heads
  BY ListSizes DEF ListInv
<1>1. InRing(lstale, L, at) /\ ~InRing(lstale, L, e) /\ e # lwalk.pos
  BY LinkedAre DEF List!ListAdd, List!ListAddTail, List!MayAdd
<1>2. lstale' = lstale /\ lwalk' = lwalk
  BY DEF List!ListAdd, List!ListAddTail
<1>. HIDE DEF L
<1>3. \E h \in Heads : h \notin lstale /\ \E i \in 0 .. Len(L[h]) :
        LET p == At(h, L[h], i)
            q == At(h, L[h], i + 1)
        IN lnext' = [lnext EXCEPT ![e] = q, ![p] = e] /\ lprev' = [lprev EXCEPT ![q] = e, ![e] = p]
  <2>1. CASE List!ListAdd(e, at)
    <3>1. lnext' = [lnext EXCEPT ![e] = lnext[at], ![at] = e] /\ lprev' = [lprev EXCEPT ![lnext[at]] = e, ![e] = at]
      BY <2>1 DEF List!ListAdd, List!Between
    <3>2. PICK h \in Heads : h \notin lstale /\ \E i \in 0 .. Len(L[h]) : at = At(h, L[h], i)
      BY <1>0, <1>1, Placed DEF Before
    <3>3. PICK i \in 0 .. Len(L[h]) : at = At(h, L[h], i)
      BY <3>2
    <3>4. lnext[at] = At(h, L[h], i + 1)
      BY <1>0, <3>2, <3>3, Neighbours
    <3>. QED BY <3>1, <3>2, <3>3, <3>4
  <2>2. CASE List!ListAddTail(e, at)
    <3>1. lnext' = [lnext EXCEPT ![e] = at, ![lprev[at]] = e] /\ lprev' = [lprev EXCEPT ![at] = e, ![e] = lprev[at]]
      BY <2>2 DEF List!ListAddTail, List!Between
    <3>2. PICK h \in Heads : h \notin lstale /\ \E i \in 0 .. Len(L[h]) : at = At(h, L[h], i + 1)
      BY <1>0, <1>1, Placed DEF Behind
    <3>3. PICK i \in 0 .. Len(L[h]) : at = At(h, L[h], i + 1)
      BY <3>2
    <3>4. lprev[at] = At(h, L[h], i)
      BY <1>0, <3>2, <3>3, Neighbours
    <3>. QED BY <3>1, <3>2, <3>3, <3>4
  <2>. QED BY <2>1, <2>2
<1>30. PICK h \in Heads : h \notin lstale /\ \E i \in 0 .. Len(L[h]) :
        LET p == At(h, L[h], i)
            q == At(h, L[h], i + 1)
        IN lnext' = [lnext EXCEPT ![e] = q, ![p] = e] /\ lprev' = [lprev EXCEPT ![q] = e, ![e] = p]
  BY <1>3
<1>4. PICK i \in 0 .. Len(L[h]) : h \notin lstale /\
        LET p == At(h, L[h], i)
            q == At(h, L[h], i + 1)
        IN lnext' = [lnext EXCEPT ![e] = q, ![p] = e] /\ lprev' = [lprev EXCEPT ![q] = e, ![e] = p]
  BY <1>30
<1>. DEFINE p == At(h, L[h], i)
            q == At(h, L[h], i + 1)
<1>5. p \in N /\ q \in N /\ p # e /\ q # e
  <2>1. InRing(lstale, L, p) /\ InRing(lstale, L, q) /\ p \in N /\ q \in N
    BY <1>0, <1>4, NodesAt
  <2>. HIDE DEF p, q
  <2>. QED BY <1>1, <2>1
<1>6. /\ lnext' \in [N -> N \union {Junk}] /\ lprev' \in [N -> N \union {Junk}]
      /\ LinksIn(N, lnext, lprev, lnext', lprev', p, q, e)
  <2>1. lnext' = [lnext EXCEPT ![e] = q, ![p] = e] /\ lprev' = [lprev EXCEPT ![q] = e, ![e] = p]
    BY <1>4
  <2>2. e \in N
    OBVIOUS
  <2>. HIDE DEF p, q, N
  <2>. QED BY <1>0, <1>5, <2>1, <2>2, BetweenLinks
<1>7. Loose(L, e)
  BY <1>1 DEF InRing, Loose
<1>8. Leaves(lnext', lprev', lstale, lwalk, L)
  <2>1. /\ Heads \intersect Entries = {} /\ Fits(lnext, lprev, lstale, L) /\ h \in Heads /\ h \notin lstale
        /\ e \in Entries /\ Loose(L, e) /\ i \in 0 .. Len(L[h])
        /\ LinksIn(Heads \union Entries, lnext, lprev, lnext', lprev', At(h, L[h], i), At(h, L[h], i + 1), e)
        /\ WalkFits(lnext, lstale, L, lwalk) /\ e # lwalk.pos
    BY <1>0, <1>1, <1>4, <1>6, <1>7
  <2>. QED BY ONLY <2>1, AddKept
<1>. QED BY <1>0, <1>2, <1>6, <1>8, ListKept DEF L
LEMMA UnlinkLinks ==
  ASSUME NEW N, NEW nx \in [N -> N \union {Junk}], NEW pv \in [N -> N \union {Junk}],
         NEW e \in N, NEW p \in N, NEW q \in N, p # e, q # e
  PROVE  /\ [nx EXCEPT ![p] = q] \in [N -> N \union {Junk}]
         /\ [pv EXCEPT ![q] = p] \in [N -> N \union {Junk}]
         /\ LinksOut(N, nx, pv, [nx EXCEPT ![p] = q], [pv EXCEPT ![q] = p], p, q, e)
         /\ [nx EXCEPT ![p] = q][e] = nx[e]
         /\ [[nx EXCEPT ![p] = q] EXCEPT ![e] = e] \in [N -> N \union {Junk}]
         /\ [[pv EXCEPT ![q] = p] EXCEPT ![e] = e] \in [N -> N \union {Junk}]
         /\ LinksOut(N, nx, pv, [[nx EXCEPT ![p] = q] EXCEPT ![e] = e], [[pv EXCEPT ![q] = p] EXCEPT ![e] = e], p, q, e)
BY DEF LinksOut

LEMMA DelStep ==
  ASSUME ListInv, NEW e \in Entries, List!ListDel(e) \/ List!ListDelInit(e)
  PROVE  ListInv' /\ ListStep
<1>. DEFINE N == Heads \union Entries
            L == Seqs
<1>0. /\ Heads \intersect Entries = {} /\ Junk \notin Heads
      /\ Fits(lnext, lprev, lstale, L) /\ WalkFits(lnext, lstale, L, lwalk)
      /\ lnext \in [N -> N \union {Junk}] /\ lprev \in [N -> N \union {Junk}] /\ lstale \subseteq Heads
  BY ListSizes DEF ListInv
<1>1. /\ e \in List!Linked \ Heads
      /\ lwalk.pos \in Entries \ List!Linked => e # lnext[lwalk.pos]
      /\ lstale' = lstale
      /\ lwalk' = [lwalk EXCEPT !.saw = @ \ {e}, !.must = @ \ {e}]
  BY DEF List!ListDel, List!ListDelInit, List!MayDelete, List!Forget
<1>2. InRing(lstale, L, e) /\ (lwalk.pos \in Entries /\ Loose(L, lwalk.pos) => e # lnext[lwalk.pos])
  <2>1. InRing(lstale, L, e)
    BY <1>1, LinkedAre
  <2>2. ASSUME lwalk.pos \in Entries, Loose(L, lwalk.pos) PROVE lwalk.pos \notin List!Linked
    <3>1. ~InRing(lstale, L, lwalk.pos)
      BY <1>0, <2>2 DEF InRing, Loose
    <3>. QED BY <3>1, LinkedAre
  <2>. QED BY <1>1, <2>1, <2>2
<1>. HIDE DEF L
<1>3. PICK h \in Heads : Has(L[h], e)
  BY <1>0, <1>1, <1>2 DEF InRing
<1>4. PICK i \in 1 .. Len(L[h]) : L[h][i] = e
  BY <1>3 DEF Has
<1>5. h \notin lstale /\ L[h] \in Seq(Entries) /\ Len(L[h]) \in Nat /\ Once(L[h]) /\ h \notin Entries
  <2>1. h \in lstale => Len(L[h]) = 0
    BY <1>0 DEF Fits
  <2>2. L[h] \in Seq(Entries) /\ Once(L[h])
    BY <1>0 DEF Fits
  <2>. QED BY <1>0, <1>4, <2>1, <2>2, LenProperties
<1>. DEFINE p == At(h, L[h], i - 1)
            q == At(h, L[h], i + 1)
<1>6. i - 1 \in 0 .. Len(L[h]) /\ i \in 0 .. Len(L[h]) /\ (i - 1) + 1 = i /\ At(h, L[h], i) = e /\ i # i - 1
      /\ i \in 1 .. Len(L[h]) + 1 /\ i + 1 \in 1 .. Len(L[h]) + 1 /\ i # i + 1
  BY <1>4, <1>5 DEF At
<1>7. p \in N /\ q \in N /\ lprev[e] = p /\ lnext[e] = q
  <2>1. lnext[At(h, L[h], i)] = At(h, L[h], i + 1)
    BY <1>0, <1>5, <1>6, Neighbours
  <2>2. lprev[At(h, L[h], (i - 1) + 1)] = At(h, L[h], i - 1)
    BY <1>0, <1>5, <1>6, Neighbours
  <2>3. At(h, L[h], i - 1) \in N /\ At(h, L[h], i + 1) \in N
    BY <1>0, <1>5, NodesAt
  <2>. QED BY <1>6, <2>1, <2>2, <2>3
<1>8. p # e /\ q # e
  <2>1. /\ \A k, j \in 0 .. Len(L[h]) : At(h, L[h], k) = At(h, L[h], j) => k = j
        /\ \A k, j \in 1 .. Len(L[h]) + 1 : At(h, L[h], k) = At(h, L[h], j) => k = j
    BY <1>5, AtOnce
  <2>. QED BY <1>6, <2>1
<1>9. /\ lnext' \in [N -> N \union {Junk}] /\ lprev' \in [N -> N \union {Junk}]
      /\ LinksOut(N, lnext, lprev, lnext', lprev', p, q, e)
      /\ lwalk.pos = e => lnext'[e] = lnext[e]
  <2>1. e \in N
    OBVIOUS
  <2>2. CASE List!ListDel(e)
    <3>1. lnext' = [lnext EXCEPT ![p] = q] /\ lprev' = [lprev EXCEPT ![q] = p]
      BY <1>7, <2>2 DEF List!ListDel, List!Unlink
    <3>. HIDE DEF p, q, N
    <3>. QED BY <1>0, <1>7, <1>8, <2>1, <3>1, UnlinkLinks
  <2>3. CASE List!ListDelInit(e)
    <3>1. /\ lnext' = [[lnext EXCEPT ![p] = q] EXCEPT ![e] = e]
          /\ lprev' = [[lprev EXCEPT ![q] = p] EXCEPT ![e] = e]
          /\ e # lwalk.pos
      BY <1>7, <2>3 DEF List!ListDelInit
    <3>. HIDE DEF p, q, N
    <3>. QED BY <1>0, <1>7, <1>8, <2>1, <3>1, UnlinkLinks
  <2>. QED BY <2>2, <2>3
<1>10. Leaves(lnext', lprev', lstale, [lwalk EXCEPT !.saw = @ \ {e}, !.must = @ \ {e}], L)
  <2>1. /\ Heads \intersect Entries = {} /\ Junk \notin Heads
        /\ Fits(lnext, lprev, lstale, L) /\ h \in Heads /\ h \notin lstale
        /\ i \in 1 .. Len(L[h]) /\ e = L[h][i]
        /\ LinksOut(Heads \union Entries, lnext, lprev, lnext', lprev', At(h, L[h], i - 1), At(h, L[h], i + 1), e)
        /\ WalkFits(lnext, lstale, L, lwalk)
        /\ (lwalk.pos \in Entries /\ Loose(L, lwalk.pos) => e # lnext[lwalk.pos])
        /\ (lwalk.pos = e => lnext'[e] = lnext[e])
    BY <1>0, <1>2, <1>4, <1>5, <1>9
  <2>. QED BY ONLY <2>1, DelKept
<1>11. lstale' \subseteq Heads /\ Leaves(lnext', lprev', lstale', lwalk', Seqs)
  BY <1>0, <1>1, <1>10 DEF L
<1>. QED BY <1>9, <1>11, ListKept

LEMMA OverLinks ==
  ASSUME NEW N, NEW nx \in [N -> N \union {Junk}], NEW pv \in [N -> N \union {Junk}],
         NEW p \in N, NEW q \in N, NEW first \in N, NEW last \in N, p # last, q # first
  PROVE  /\ [nx EXCEPT ![p] = first, ![last] = q] \in [N -> N \union {Junk}]
         /\ [pv EXCEPT ![first] = p, ![q] = last] \in [N -> N \union {Junk}]
         /\ LinksOver(N, nx, pv, [nx EXCEPT ![p] = first, ![last] = q], [pv EXCEPT ![first] = p, ![q] = last],
                      p, q, first, last)
BY DEF LinksOver

LEMMA ListSame ==
  ASSUME UNCHANGED <<lnext, lprev, lstale>>
  PROVE  Seqs' = Seqs
<1>1. \A h : List!Items(h)' = List!Items(h)
  BY ItemsOfState
<1>. QED BY <1>1 DEF Seqs

LEMMA ListFrame ==
  ASSUME ListInv, UNCHANGED listvars
  PROVE  ListInv' /\ Seqs' = Seqs
<1>1. UNCHANGED <<lnext, lprev, lstale, lwalk>>
  BY DEF listvars
<1>2. Seqs' = Seqs
  BY <1>1, ListSame
<1>. QED BY <1>1, <1>2 DEF ListInv

LEMMA SpliceKeeps ==
  ASSUME ListInv, NEW g \in Heads, NEW at \in List!Linked, List!Splice(g, at)
  PROVE  ListInv' /\ ListStep
<1>. DEFINE N == Heads \union Entries
            L == Seqs
            r == L[g]
            first == r[1]
            last == r[Len(r)]
<1>0. /\ Heads \intersect Entries = {}
      /\ Fits(lnext, lprev, lstale, L) /\ WalkFits(lnext, lstale, L, lwalk)
      /\ lnext \in [N -> N \union {Junk}] /\ lprev \in [N -> N \union {Junk}] /\ lstale \subseteq Heads
  BY ListSizes DEF ListInv
<1>1. /\ g \notin lstale /\ at \notin List!ItemSet(g) \union {g} /\ g # lwalk.head /\ lwalk' = lwalk
      /\ IF lnext[g] = g THEN UNCHANGED <<lnext, lprev, lstale>>
         ELSE /\ lnext' = [lnext EXCEPT ![at] = lnext[g], ![lprev[g]] = lnext[at]]
              /\ lprev' = [lprev EXCEPT ![lnext[g]] = at, ![lnext[at]] = lprev[g]]
              /\ lstale' = lstale \union {g}
  BY DEF List!Splice, List!ListEmpty
<1>2. CASE lnext[g] = g
  <2>1. UNCHANGED listvars
    BY <1>1, <1>2 DEF listvars
  <2>. QED BY <2>1, ListFrame DEF ListStep
<1>3. CASE lnext[g] # g
  <2>1. InRing(lstale, L, at) /\ ~Has(r, at) /\ at # g
    BY <1>1, LinkedAre
  <2>. HIDE DEF L
  <2>2. PICK h \in Heads : h \notin lstale /\ \E i \in 0 .. Len(L[h]) : at = At(h, L[h], i)
    BY <1>0, <2>1, Placed DEF Before
  <2>3. PICK i \in 0 .. Len(L[h]) : at = At(h, L[h], i)
    BY <2>2
  <2>. DEFINE q == At(h, L[h], i + 1)
  <2>4. h # g
    <3>1. ASSUME h = g PROVE FALSE
      <4>1. at = At(g, r, i)
        BY <2>3, <3>1
      <4>. QED BY <2>1, <4>1 DEF At, Has
    <3>. QED BY <3>1
  <2>5. r \in Seq(Entries) /\ Len(r) \in Nat /\ L[h] \in Seq(Entries) /\ Len(L[h]) \in Nat /\ Apart(L[h], r)
        /\ Chain(lnext, lprev, g, r)
    <3>1. r \in Seq(Entries) /\ L[h] \in Seq(Entries) /\ Apart(L[h], r) /\ Chain(lnext, lprev, g, r)
      BY <1>0, <1>1, <2>4 DEF Fits
    <3>. QED BY <3>1, LenProperties
  <2>6. lnext[g] = At(g, r, 1) /\ lprev[g] = At(g, r, Len(r))
    <3>1. 0 \in 0 .. Len(r) /\ Len(r) \in 0 .. Len(r) /\ At(g, r, 0) = g /\ At(g, r, Len(r) + 1) = g /\ 0 + 1 = 1
      <4>. HIDE DEF r
      <4>. QED BY <2>5 DEF At
    <3>2. lnext[At(g, r, 0)] = At(g, r, 0 + 1) /\ lprev[At(g, r, Len(r) + 1)] = At(g, r, Len(r))
      BY <2>5, <3>1 DEF Chain
    <3>. QED BY <3>1, <3>2
  <2>7. Len(r) # 0
    <3>1. ASSUME Len(r) = 0 PROVE At(g, r, 1) = g
      <4>. HIDE DEF r
      <4>. QED BY <3>1 DEF At
    <3>. QED BY <1>3, <2>6, <3>1
  <2>8. At(g, r, 1) = first /\ At(g, r, Len(r)) = last /\ first \in N /\ last \in N
    <3>1. 1 \in 1 .. Len(r) /\ Len(r) \in 1 .. Len(r)
      <4>. HIDE DEF r
      <4>. QED BY <2>5, <2>7
    <3>. QED BY <2>5, <3>1, ElementOfSeq DEF At
  <2>9. lnext[at] = q /\ q \in N /\ at \in N
    <3>1. lnext[At(h, L[h], i)] = At(h, L[h], i + 1)
      BY <1>0, <2>2, <2>3, Neighbours
    <3>2. At(h, L[h], i) \in N /\ At(h, L[h], i + 1) \in N
      BY <1>0, <2>2, NodesAt
    <3>. QED BY <2>3, <3>1, <3>2
  <2>. HIDE DEF r
  <2>10. at # last /\ q # first
    BY <1>0, <2>3, <2>4, <2>5, <2>8, RingsApart
  <2>11. lnext' = [lnext EXCEPT ![at] = first, ![last] = q] /\ lprev' = [lprev EXCEPT ![first] = at, ![q] = last]
    BY <1>1, <1>3, <2>6, <2>8, <2>9
  <2>12. /\ lnext' \in [N -> N \union {Junk}] /\ lprev' \in [N -> N \union {Junk}]
         /\ LinksOver(N, lnext, lprev, lnext', lprev', at, q, first, last)
    <3>. HIDE DEF N, first, last, q
    <3>. QED BY <1>0, <2>8, <2>9, <2>10, <2>11, OverLinks
  <2>13. Leaves(lnext', lprev', lstale \union {g}, lwalk, L)
    <3>1. /\ Heads \intersect Entries = {} /\ Fits(lnext, lprev, lstale, L) /\ h \in Heads /\ h \notin lstale
          /\ g \in Heads /\ g \notin lstale /\ g # h /\ Len(L[g]) # 0 /\ i \in 0 .. Len(L[h])
          /\ LinksOver(Heads \union Entries, lnext, lprev, lnext', lprev', At(h, L[h], i), At(h, L[h], i + 1),
                       L[g][1], L[g][Len(L[g])])
          /\ WalkFits(lnext, lstale, L, lwalk) /\ g # lwalk.head
      BY <1>0, <1>1, <2>2, <2>3, <2>4, <2>7, <2>12 DEF r
    <3>. QED BY ONLY <3>1, SpliceKept
  <2>14. lstale' \subseteq Heads /\ Leaves(lnext', lprev', lstale', lwalk', Seqs)
    BY <1>0, <1>1, <1>3, <2>13 DEF L
  <2>. QED BY <2>12, <2>14, ListKept
<1>. QED BY <1>2, <1>3

LEMMA ResetStep ==
  ASSUME ListInv, NEW h \in Heads, List!InitListHead(h)
  PROVE  ListInv' /\ ListStep
<1>. DEFINE N == Heads \union Entries
            L == Seqs
<1>0. /\ Heads \intersect Entries = {}
      /\ Fits(lnext, lprev, lstale, L) /\ WalkFits(lnext, lstale, L, lwalk)
      /\ lnext \in [N -> N \union {Junk}] /\ lprev \in [N -> N \union {Junk}] /\ lstale \subseteq Heads
  BY ListSizes DEF ListInv
<1>1. /\ h \in lstale /\ lnext' = [lnext EXCEPT ![h] = h] /\ lprev' = [lprev EXCEPT ![h] = h]
      /\ lstale' = lstale \ {h} /\ lwalk' = lwalk
  BY DEF List!InitListHead
<1>. HIDE DEF L
<1>2. /\ lnext' \in [N -> N \union {Junk}] /\ lprev' \in [N -> N \union {Junk}]
      /\ lnext'[h] = h /\ lprev'[h] = h
      /\ \A x \in N \ {h} : lnext'[x] = lnext[x] /\ lprev'[x] = lprev[x]
  BY <1>0, <1>1
<1>3. Leaves(lnext', lprev', lstale \ {h}, lwalk, L)
  <2>1. /\ Heads \intersect Entries = {} /\ Fits(lnext, lprev, lstale, L) /\ h \in Heads /\ h \in lstale
        /\ lnext'[h] = h /\ lprev'[h] = h
        /\ \A x \in (Heads \union Entries) \ {h} : lnext'[x] = lnext[x] /\ lprev'[x] = lprev[x]
        /\ WalkFits(lnext, lstale, L, lwalk)
    BY <1>0, <1>1, <1>2
  <2>. QED BY ONLY <2>1, ResetKept
<1>4. lstale' \subseteq Heads /\ Leaves(lnext', lprev', lstale', lwalk', Seqs)
  BY <1>0, <1>1, <1>3 DEF L
<1>. QED BY <1>2, <1>4, ListKept

(* The steps of a walk leave the lists alone.                              *)
LEMMA WalkStep ==
  ASSUME ListInv, (\E h \in Heads : List!BeginWalk(h)) \/ List!StepWalk \/ List!EndWalk
  PROVE  ListInv' /\ ListStep
<1>. DEFINE N == Heads \union Entries
            L == Seqs
<1>0. /\ Heads \intersect Entries = {} /\ Junk \notin N
      /\ Fits(lnext, lprev, lstale, L) /\ WalkFits(lnext, lstale, L, lwalk)
      /\ lnext \in [N -> N \union {Junk}] /\ lprev \in [N -> N \union {Junk}] /\ lstale \subseteq Heads
  BY ListSizes DEF ListInv
<1>1. UNCHANGED <<lnext, lprev, lstale>> /\ Seqs' = L
  <2>1. UNCHANGED <<lnext, lprev, lstale>>
    BY DEF List!BeginWalk, List!StepWalk, List!EndWalk
  <2>. QED BY <2>1, ListSame
<1>2. WalkFits(lnext, lstale, L, lwalk')
  <2>1. ASSUME NEW h \in Heads, List!BeginWalk(h) PROVE WalkFits(lnext, lstale, L, lwalk')
    <3>1. /\ h \notin lstale
          /\ lwalk' = [head |-> h, pos |-> lnext[h], saw |-> {}, must |-> {L[h][i] : i \in 1 .. Len(L[h])}]
      BY <2>1, LinkedAre DEF List!BeginWalk
    <3>. HIDE DEF L
    <3>2. lnext[h] \in Heads \union Entries
      <4>1. L[h] \in Seq(Entries) /\ Len(L[h]) \in Nat
        <5>1. L[h] \in Seq(Entries)
          BY <1>0 DEF Fits
        <5>. QED BY <5>1, LenProperties
      <4>2. 0 \in 0 .. Len(L[h]) /\ At(h, L[h], 0) = h
        BY <4>1 DEF At
      <4>3. lnext[At(h, L[h], 0)] = At(h, L[h], 0 + 1)
        BY <1>0, <3>1, <4>2, Neighbours
      <4>4. At(h, L[h], 0 + 1) \in Heads \union Entries
        BY <1>0, <3>1, NodesAt
      <4>. QED BY <4>2, <4>3, <4>4
    <3>3. Follows(lnext, lstale, L, lwalk')
      BY <1>0, <3>1, <3>2, BeginKept
    <3>. QED BY <3>3 DEF WalkFits
  <2>2. ASSUME List!StepWalk PROVE WalkFits(lnext, lstale, L, lwalk')
    <3>1. /\ lwalk # List!NoWalk /\ lwalk.pos # lwalk.head
          /\ lwalk' = [lwalk EXCEPT !.pos = lnext[lwalk.pos], !.saw = @ \union ({lwalk.pos} \intersect List!Linked)]
      BY <2>2 DEF List!StepWalk, List!Walking
    <3>2. \A x \in Entries : x \in List!Linked <=> ~Loose(L, x)
      BY <1>0, LinkedAre DEF InRing, Loose
    <3>. HIDE DEF L
    <3>3. Follows(lnext, lstale, L, lwalk)
      BY <1>0, <3>1 DEF WalkFits
    <3>4. lnext[lwalk.pos] \in Heads \union Entries
      <4>. DEFINE head == lwalk.head
                  pos == lwalk.pos
      <4>1. head \in Heads /\ head \notin lstale /\ pos # head /\ Standing(lnext, L, head, pos, lwalk.saw, lwalk.must)
        BY <3>1, <3>3 DEF Follows
      <4>2. PICK k : Cursor(lnext, L, head, pos, lwalk.saw, lwalk.must, k)
        BY <4>1 DEF Standing
      <4>3. /\ k \in 1 .. Len(L[head]) + 1
            /\ pos = At(head, L[head], k) \/ lnext[pos] = At(head, L[head], k)
        BY <4>2 DEF Cursor
      <4>. HIDE DEF head, pos
      <4>4. L[head] \in Seq(Entries) /\ Len(L[head]) \in Nat
        <5>1. L[head] \in Seq(Entries)
          BY <1>0, <4>1 DEF Fits
        <5>. QED BY <5>1, LenProperties
      <4>5. Len(L[head]) \in 0 .. Len(L[head])
        BY <4>4
      <4>6. CASE pos = At(head, L[head], k)
        <5>1. k \in 1 .. Len(L[head])
          BY <4>1, <4>3, <4>6 DEF At
        <5>2. k \in 0 .. Len(L[head])
          BY <4>4, <5>1
        <5>3. lnext[At(head, L[head], k)] = At(head, L[head], k + 1)
          BY <1>0, <4>1, <5>2, Neighbours
        <5>30. At(head, L[head], k + 1) \in Heads \union Entries
          BY <1>0, <4>1, NodesAt
        <5>4. lnext[pos] \in Heads \union Entries
          BY <4>6, <5>3, <5>30
        <5>. QED BY <5>4 DEF pos
      <4>7. CASE lnext[pos] = At(head, L[head], k)
        <5>1. At(head, L[head], k) \in Heads \union Entries
          BY <1>0, <4>1, NodesAt
        <5>2. lnext[pos] \in Heads \union Entries
          BY <4>7, <5>1
        <5>. QED BY <5>2 DEF pos
      <4>. QED BY <4>3, <4>6, <4>7
    <3>5. Follows(lnext, lstale, L, [lwalk EXCEPT !.pos = lnext[lwalk.pos], !.saw = @ \union ({lwalk.pos} \intersect List!Linked)])
      BY <1>0, <3>1, <3>2, <3>3, <3>4, StepKept
    <3>. QED BY <3>1, <3>5 DEF WalkFits
  <2>3. ASSUME List!EndWalk PROVE WalkFits(lnext, lstale, L, lwalk')
    BY <2>3 DEF List!EndWalk, WalkFits
  <2>. QED BY <2>1, <2>2, <2>3
<1>. QED BY <1>0, <1>1, <1>2 DEF ListInv, ListStep
-----------------------------------------------------------------------------
(* ListInv holds at first and after every operation.                       *)
LEMMA ListInit ==
  ASSUME List!Init
  PROVE  ListInv /\ Seqs = [h \in Heads |-> <<>>]
<1>. DEFINE N == Heads \union Entries
            L == [h \in Heads |-> <<>>]
<1>1. /\ lnext = [n \in N |-> IF n \in Heads THEN n ELSE Junk] /\ lprev = lnext
      /\ lstale = {} /\ lwalk = List!NoWalk
  BY DEF List!Init, List!Nodes
<1>2. lnext \in [N -> N \union {Junk}] /\ lprev \in [N -> N \union {Junk}] /\ lstale \subseteq Heads
  BY <1>1
<1>3. \A h \in Heads : lnext[h] = h /\ lprev[h] = h
  BY <1>1
<1>4. L \in [Heads -> Seq(Entries)] /\ \A h \in Heads : L[h] = <<>> /\ Len(L[h]) = 0
  OBVIOUS
<1>. HIDE DEF L
<1>5. \A h \in Heads : Once(L[h]) /\ Chain(lnext, lprev, h, L[h])
  <2>. TAKE h \in Heads
  <2>1. Once(L[h])
    BY <1>4 DEF Once
  <2>2. Chain(lnext, lprev, h, L[h])
    BY <1>3, <1>4 DEF Chain, At
  <2>. QED BY <2>1, <2>2
<1>6. \A h, g \in Heads : Apart(L[h], L[g])
  BY <1>4 DEF Apart
<1>7. Fits(lnext, lprev, lstale, L)
  BY <1>1, <1>4, <1>5, <1>6 DEF Fits
<1>8. Seqs = L
  BY <1>7, SeqsAre
<1>9. WalkFits(lnext, lstale, L, lwalk)
  BY <1>1 DEF WalkFits
<1>. QED BY <1>2, <1>7, <1>8, <1>9 DEF ListInv, L

LEMMA ListNext ==
  ASSUME ListInv, List!Next
  PROVE  ListInv' /\ ListStep
<1>1. ASSUME NEW e \in Entries, List!ListDel(e) \/ List!ListDelInit(e) PROVE ListInv' /\ ListStep
  BY <1>1, DelStep
<1>2. ASSUME NEW e \in Entries, NEW at \in List!Linked, List!ListAdd(e, at) \/ List!ListAddTail(e, at)
      PROVE  ListInv' /\ ListStep
  BY <1>2, AddStep
<1>3. ASSUME NEW h \in Heads, List!InitListHead(h) PROVE ListInv' /\ ListStep
  BY <1>3, ResetStep
<1>4. ASSUME NEW h \in Heads, List!BeginWalk(h) PROVE ListInv' /\ ListStep
  BY <1>4, WalkStep
<1>5. ASSUME NEW h \in Heads, NEW at \in List!Linked, List!Splice(h, at) PROVE ListInv' /\ ListStep
  BY <1>5, SpliceKeeps
<1>6. ASSUME List!StepWalk \/ List!EndWalk PROVE ListInv' /\ ListStep
  BY <1>6, WalkStep
<1>7. \/ \E e \in Entries : List!ListDel(e) \/ List!ListDelInit(e)
      \/ \E e \in Entries : \E at \in List!Linked : List!ListAdd(e, at) \/ List!ListAddTail(e, at)
      \/ \E h \in Heads : List!InitListHead(h)
      \/ \E h \in Heads : List!BeginWalk(h)
      \/ \E h \in Heads : \E at \in List!Linked : List!Splice(h, at)
      \/ List!StepWalk \/ List!EndWalk
  BY Zenon DEF List!Next
<1>. QED BY <1>1, <1>2, <1>3, <1>4, <1>5, <1>6, <1>7

(* What ListInv says of the pointers and of the walk.                      *)
LEMMA ListPointers ==
  ASSUME ListInv
  PROVE  List!TypeOK /\ List!Circular
<1>. DEFINE L == Seqs
<1>1. Fits(lnext, lprev, lstale, L) /\ \A x : x \in List!Linked <=> InRing(lstale, L, x)
  BY LinkedAre DEF ListInv
<1>2. List!TypeOK
  BY DEF List!TypeOK, List!Nodes, ListInv, WalkFits, Follows
<1>. HIDE DEF L
<1>3. ASSUME NEW n \in List!Linked PROVE lnext[n] \in List!Linked /\ lprev[lnext[n]] = n
  <2>1. InRing(lstale, L, n)
    BY <1>1, <1>3
  <2>2. PICK h \in Heads : h \notin lstale /\ \E i \in 0 .. Len(L[h]) : n = At(h, L[h], i)
    BY <1>1, <2>1, Placed DEF Before
  <2>3. PICK i \in 0 .. Len(L[h]) : n = At(h, L[h], i)
    BY <2>2
  <2>4. lnext[At(h, L[h], i)] = At(h, L[h], i + 1) /\ lprev[At(h, L[h], i + 1)] = At(h, L[h], i)
    BY <1>1, <2>2, Neighbours
  <2>5. InRing(lstale, L, At(h, L[h], i + 1))
    BY <1>1, <2>2, NodesAt
  <2>. QED BY <1>1, <2>3, <2>4, <2>5
<1>4. ASSUME NEW n \in List!Linked PROVE lprev[n] \in List!Linked /\ lnext[lprev[n]] = n
  <2>1. InRing(lstale, L, n)
    BY <1>1, <1>4
  <2>2. PICK h \in Heads : h \notin lstale /\ \E i \in 0 .. Len(L[h]) : n = At(h, L[h], i + 1)
    BY <1>1, <2>1, Placed DEF Behind
  <2>3. PICK i \in 0 .. Len(L[h]) : n = At(h, L[h], i + 1)
    BY <2>2
  <2>4. lnext[At(h, L[h], i)] = At(h, L[h], i + 1) /\ lprev[At(h, L[h], i + 1)] = At(h, L[h], i)
    BY <1>1, <2>2, Neighbours
  <2>5. InRing(lstale, L, At(h, L[h], i))
    BY <1>1, <2>2, NodesAt
  <2>. QED BY <1>1, <2>3, <2>4, <2>5
<1>5. List!Circular
  BY <1>3, <1>4 DEF List!Circular
<1>. QED BY <1>2, <1>5

LEMMA ListWalks ==
  ASSUME ListInv
  PROVE  List!WalkComplete
<1>. SUFFICES ASSUME lwalk # List!NoWalk PROVE List!WalkComplete
  BY DEF List!WalkComplete, List!Walking
<1>. DEFINE L == Seqs
            head == lwalk.head
            pos == lwalk.pos
            saw == lwalk.saw
            must == lwalk.must
            s == L[head]
<1>1. /\ Heads \intersect Entries = {} /\ Fits(lnext, lprev, lstale, L)
      /\ \A x : x \in List!Linked <=> InRing(lstale, L, x)
      /\ \A h \in Heads : \A x : x \in List!ItemSet(h) <=> Has(L[h], x)
  BY LinkedAre, ListSizes DEF ListInv
<1>2. /\ head \in Heads /\ head \notin lstale /\ saw \subseteq Entries
      /\ \A x \in saw \union must : Has(s, x)
      /\ Standing(lnext, L, head, pos, saw, must)
  BY DEF ListInv, WalkFits, Follows
<1>. HIDE DEF L, head, pos, saw, must
<1>3. PICK k : Cursor(lnext, L, head, pos, saw, must, k)
  BY <1>2 DEF Standing
<1>4. /\ k \in 1 .. Len(s) + 1
      /\ pos = At(head, s, k) \/ (pos \in Entries /\ Loose(L, pos) /\ lnext[pos] = At(head, s, k))
      /\ \A j \in 1 .. k - 1 : s[j] \in must => s[j] \in saw
      /\ \A j \in k .. Len(s) : s[j] \notin saw
  BY <1>3 DEF Cursor
<1>5. s \in Seq(Entries) /\ Len(s) \in Nat /\ \A j \in 1 .. Len(s) : s[j] \in Entries
  <2>1. s \in Seq(Entries)
    BY <1>1, <1>2 DEF Fits
  <2>. HIDE DEF s
  <2>. QED BY <2>1, LenProperties, ElementOfSeq
<1>6. InRing(lstale, L, At(head, s, k))
  BY <1>1, <1>2, NodesAt
<1>. HIDE DEF s
<1>7. (k \in 1 .. Len(s) /\ At(head, s, k) = s[k] /\ Has(s, s[k])) \/ (k = Len(s) + 1 /\ At(head, s, k) = head)
  BY <1>4, <1>5 DEF At, Has
<1>8. \A x : x \in List!ItemSet(head) <=> Has(s, x)
  BY <1>1, <1>2 DEF s
<1>9. pos \in Entries /\ Loose(L, pos) => pos \notin List!Linked /\ ~Has(s, pos)
  <2>1. Loose(L, pos) => ~Has(s, pos)
    BY <1>2 DEF Loose, s
  <2>2. pos \in Entries /\ Loose(L, pos) => ~InRing(lstale, L, pos)
    BY <1>1 DEF InRing, Loose
  <2>. QED BY <1>1, <2>1, <2>2
<1>10. pos \in List!Linked \/ lnext[pos] \in List!ItemSet(head) \union {head}
  BY <1>1, <1>4, <1>6, <1>7, <1>8
<1>11. pos \in List!Linked => pos \in List!ItemSet(head) \union {head}
  BY <1>4, <1>7, <1>8, <1>9
<1>12. pos \notin saw
  <2>1. CASE pos = At(head, s, k)
    <3>1. k \in 1 .. Len(s) => k \in k .. Len(s)
      BY <1>4, <1>5
    <3>. QED BY <1>1, <1>2, <1>4, <1>7, <2>1, <3>1
  <2>2. CASE pos \in Entries /\ Loose(L, pos)
    BY <1>2, <1>9, <2>2
  <2>. QED BY <1>4, <2>1, <2>2
<1>13. pos = head => must \subseteq saw
  <2>1. ASSUME pos = head PROVE k = Len(s) + 1
    BY <1>1, <1>2, <1>4, <1>5, <1>7, <2>1
  <2>2. k = Len(s) + 1 => k - 1 = Len(s)
    BY <1>5
  <2>3. ASSUME pos = head, NEW x \in must PROVE x \in saw
    <3>1. PICK j \in 1 .. Len(s) : s[j] = x
      BY <1>2, <2>3 DEF Has
    <3>2. j \in 1 .. k - 1
      BY <2>1, <2>2, <2>3
    <3>. QED BY <1>4, <2>3, <3>1, <3>2
  <2>. QED BY <2>3
<1>. QED BY <1>10, <1>11, <1>12, <1>13 DEF List!WalkComplete, head, pos, saw, must
-----------------------------------------------------------------------------
(* The sequences do what the lists promise.                                *)
LEMMA StepPromised ==
  ASSUME ListInv, ListStep
  PROVE  List!ImplementsLists!Next \/ UNCHANGED Seqs
<1>. DEFINE L == Seqs
<1>0. Seqs = [h \in Heads |-> List!Items(h)] /\ Seqs' = [h \in Heads |-> List!Items(h)]'
  BY DEF Seqs
<1>1. /\ L \in [Heads -> Seq(Entries)]
      /\ \A h \in Heads : L[h] \in Seq(Entries) /\ Len(L[h]) \in Nat /\ DOMAIN L[h] = 1 .. Len(L[h])
  <2>1. L \in [Heads -> Seq(Entries)]
    BY DEF ListInv, Fits
  <2>. QED BY <2>1, LenProperties
<1>2. ASSUME InsertStep(L, Seqs') PROVE List!ImplementsLists!Insert
  <2>1. PICK h \in Heads : \E e \in Entries : Loose(L, e) /\ \E i \in 0 .. Len(L[h]) : Seqs' = [L EXCEPT ![h] = PutIn(L[h], i, e)]
    BY <1>2 DEF InsertStep
  <2>2. PICK e \in Entries : Loose(L, e) /\ \E i \in 0 .. Len(L[h]) : Seqs' = [L EXCEPT ![h] = PutIn(L[h], i, e)]
    BY <2>1
  <2>3. PICK i \in 0 .. Len(L[h]) : Seqs' = [L EXCEPT ![h] = PutIn(L[h], i, e)]
    BY <2>2
  <2>4. e \notin List!ImplementsLists!Used
    BY <1>0, <1>1, <2>2 DEF List!ImplementsLists!Used, List!ImplementsLists!Range, Loose, Has
  <2>5. i + 1 \in 1 .. Len(L[h]) + 1
    BY <1>1
  <2>6. Seqs' = [L EXCEPT ![h] = List!ImplementsLists!InsertAt(@, i + 1, e)]
    BY <2>3 DEF PutIn, List!ImplementsLists!InsertAt
  <2>. QED BY <1>0, <2>4, <2>5, <2>6 DEF List!ImplementsLists!Insert
<1>3. ASSUME DeleteStep(L, Seqs') PROVE List!ImplementsLists!Delete
  <2>1. PICK h \in Heads : \E i \in 1 .. Len(L[h]) : Seqs' = [L EXCEPT ![h] = TakenOut(L[h], i)]
    BY <1>3 DEF DeleteStep
  <2>2. PICK i \in 1 .. Len(L[h]) : Seqs' = [L EXCEPT ![h] = TakenOut(L[h], i)]
    BY <2>1
  <2>3. i \in DOMAIN L[h]
    BY <1>1
  <2>4. Seqs' = [L EXCEPT ![h] = List!ImplementsLists!RemoveAt(@, i)]
    BY <2>2 DEF TakenOut, List!ImplementsLists!RemoveAt
  <2>. QED BY <1>0, <2>3, <2>4 DEF List!ImplementsLists!Delete
<1>4. ASSUME SpliceStep(L, Seqs') PROVE List!ImplementsLists!Splice
  <2>1. PICK from \in Heads : \E to \in Heads : \E i \in 0 .. Len(L[to]) : from # to /\
          Seqs' = [[L EXCEPT ![from] = <<>>] EXCEPT ![to] = PutAll(L[to], i, L[from])]
    BY <1>4 DEF SpliceStep
  <2>2. PICK to \in Heads : \E i \in 0 .. Len(L[to]) : from # to /\
          Seqs' = [[L EXCEPT ![from] = <<>>] EXCEPT ![to] = PutAll(L[to], i, L[from])]
    BY <2>1
  <2>3. PICK i \in 0 .. Len(L[to]) : from # to /\
          Seqs' = [[L EXCEPT ![from] = <<>>] EXCEPT ![to] = PutAll(L[to], i, L[from])]
    BY <2>2
  <2>4. [L EXCEPT ![from] = <<>>][to] = L[to]
    BY <1>1, <2>3
  <2>5. Seqs' = [L EXCEPT ![from] = <<>>, ![to] = SubSeq(@, 1, i) \o L[from] \o SubSeq(@, i + 1, Len(@))]
    BY <2>3, <2>4 DEF PutAll
  <2>6. \E f, g \in Heads : \E j \in 0 .. Len(Seqs[g]) : f # g /\
          Seqs' = [Seqs EXCEPT ![f] = <<>>, ![g] = SubSeq(@, 1, j) \o Seqs[f] \o SubSeq(@, j + 1, Len(@))]
    BY <2>3, <2>5, Zenon
  <2>. QED BY <2>6, Zenon DEF List!ImplementsLists!Splice, Seqs
<1>. QED BY <1>2, <1>3, <1>4 DEF ListStep, List!ImplementsLists!Next

LEMMA StructuresInit ==
  ASSUME Init
  PROVE  ListInv /\ List!ImplementsLists!Init
<1>1. ListInv /\ Seqs = [h \in Heads |-> <<>>]
  BY ListInit DEF Init
<1>. QED BY <1>1 DEF List!ImplementsLists!Init, Seqs

LEMMA StructuresNext ==
  ASSUME ListInv, [Next]_vars
  PROVE  ListInv' /\ [List!ImplementsLists!Next]_([h \in Heads |-> List!Items(h)])
<1>1. ListInv' /\ (ListStep \/ Seqs' = Seqs)
  <2>1. CASE List!Next
    BY <2>1, ListNext
  <2>2. CASE UNCHANGED listvars
    BY <2>2, ListFrame
  <2>. QED BY <2>1, <2>2 DEF Next, vars
<1>2. List!ImplementsLists!Next \/ UNCHANGED Seqs
  BY <1>1, StepPromised
<1>. QED BY <1>1, <1>2 DEF Seqs

-----------------------------------------------------------------------------
(* Division with a remainder.                                              *)
LEMMA DivIs ==
  ASSUME NEW a \in Nat, NEW p \in Nat, p > 0
  PROVE  a \div p \in Nat /\ p * (a \div p) <= a /\ a < p * (a \div p) + p
OBVIOUS

LEMMA DivIsOnly ==
  ASSUME NEW a \in Nat, NEW p \in Nat, p > 0, NEW q \in Int, p * q <= a, a < p * q + p
  PROVE  a \div p = q
OBVIOUS

LEMMA ModIs ==
  ASSUME NEW a \in Nat, NEW p \in Nat, p > 0
  PROVE  a % p \in 0 .. p - 1 /\ a % p = a - p * (a \div p)
<1>1. a % p \in 0 .. p - 1
  OBVIOUS
<1>2. a % p = a - p * (a \div p)
  OBVIOUS
<1>. QED BY <1>1, <1>2

LEMMA ModSmall ==
  ASSUME NEW a \in Nat, NEW p \in Nat, a < p
  PROVE  a % p = a
OBVIOUS

LEMMA TimesMonotone ==
  ASSUME NEW x \in Int, NEW y \in Int, NEW p \in Nat, x <= y
  PROVE  p * x <= p * y
OBVIOUS

LEMMA TimesAssociate ==
  ASSUME NEW p \in Int, NEW x \in Int, NEW y \in Int
  PROVE  (p * x) * y = p * (x * y) /\ p * (x + y) = p * x + p * y /\ p * x \in Int
OBVIOUS

(* Dividing by a page, then by the entries of a table, is dividing by what *)
(* a table maps.                                                           *)
LEMMA TwoLevels ==
  ASSUME NEW a \in Nat, NEW p \in Nat, p > 0, NEW n \in Nat, n > 0
  PROVE  a \div (p * n) = (a \div p) \div n
<1>. DEFINE q == a \div p
            d == q \div n
            pn == p * n
            nd == n * d
            pq == p * q
<1>1. q \in Nat /\ pq <= a /\ a < pq + p
  BY DivIs
<1>. HIDE DEF q
<1>2. d \in Nat /\ nd <= q /\ q < nd + n
  BY <1>1, DivIs
<1>. HIDE DEF d
<1>3. pn \in Nat /\ pn > 0 /\ nd \in Int /\ pq \in Int
  BY <1>1, <1>2
<1>4. p * nd <= pq
  BY <1>1, <1>2, <1>3, TimesMonotone
<1>5. p * (q + 1) <= p * (nd + n)
  <2>1. q + 1 \in Int /\ nd + n \in Int /\ q + 1 <= nd + n
    BY <1>1, <1>2, <1>3
  <2>. QED BY <2>1, TimesMonotone
<1>6. pn * d = p * nd
  BY <1>2, TimesAssociate
<1>7. p * (q + 1) = pq + p * 1 /\ p * (nd + n) = p * nd + pn
  BY <1>1, <1>3, TimesAssociate
<1>8. p * 1 = p /\ p * nd \in Int
  BY <1>3
<1>. HIDE DEF pn, nd, pq
<1>9. pn * d <= a /\ a < pn * d + pn
  BY <1>1, <1>3, <1>4, <1>5, <1>6, <1>7, <1>8
<1>10. a \div pn = d
  BY <1>2, <1>3, <1>9, DivIsOnly
<1>. QED BY <1>10 DEF pn, d, q

(* An address has one place in the tables, its page's own.                 *)
Layout(p, pn, n) == p \in Nat \ {0} /\ n \in Nat \ {0} /\ pn = p * n

LEMMA PlaceOf ==
  ASSUME NEW p, NEW pn, NEW n, Layout(p, pn, n), NEW a \in 0 .. n * pn - 1
  PROVE  /\ a \div p \in Nat /\ (a \div pn) % n \in 0 .. n - 1 /\ (a \div p) % n \in 0 .. n - 1
         /\ a \div p = n * ((a \div pn) % n) + ((a \div p) % n)
<1>. DEFINE q == a \div p
            d == q \div n
<1>0. p \in Nat /\ p > 0 /\ n \in Nat /\ n > 0 /\ pn = p * n /\ pn \in Nat /\ pn > 0 /\ n * pn \in Nat /\ a \in Nat
  BY DEF Layout
<1>1. q \in Nat
  BY <1>0, DivIs
<1>2. a \div pn = d
  BY <1>0, TwoLevels
<1>3. d \in Nat /\ pn * d <= a
  BY <1>0, <1>2, DivIs
<1>. HIDE DEF q
<1>4. q % n \in 0 .. n - 1 /\ q % n = q - n * d
  BY <1>0, <1>1, ModIs
<1>. HIDE DEF d
<1>5. d < n
  <2>1. SUFFICES ASSUME n <= d PROVE FALSE
    BY <1>0, <1>3
  <2>2. pn * n <= pn * d
    BY <1>0, <1>3, <2>1, TimesMonotone
  <2>3. pn * n = n * pn /\ pn * n \in Int /\ pn * d \in Int
    BY <1>0, <1>3
  <2>4. a < n * pn
    BY <1>0
  <2>. QED BY <1>0, <1>3, <2>2, <2>3, <2>4
<1>6. d % n = d /\ d \in 0 .. n - 1
  <2>1. d % n = d
    BY <1>0, <1>3, <1>5, ModSmall
  <2>. QED BY <1>0, <1>3, <1>5, <2>1
<1>7. n * d \in Int
  BY <1>0, <1>3
<1>8. q = n * d + (q % n)
  BY <1>1, <1>4, <1>7
<1>. QED BY <1>1, <1>2, <1>4, <1>6, <1>8 DEF q

LEMMA Places ==
  /\ \A a \in Addresses : Table!pgd_index(a) \in Table!Indices /\ Table!pte_index(a) \in Table!Indices
  /\ \A a, b \in Addresses :
       Table!Page(a) = Table!Page(b) <=> Table!pgd_index(a) = Table!pgd_index(b) /\ Table!pte_index(a) = Table!pte_index(b)
<1>. DEFINE p == 2^PAGE_SHIFT
            pn == 2^PGDIR_SHIFT
            n == PTRS
<1>1. Layout(p, pn, n) /\ Addresses \subseteq 0 .. n * pn - 1
  BY Sizes DEF Table!LayoutOK, Layout
<1>2. \A a \in Addresses : /\ Table!Page(a) = a \div p /\ Table!pgd_index(a) = (a \div pn) % n
                           /\ Table!pte_index(a) = (a \div p) % n
  BY Zenon DEF Table!Page, Table!pgd_index, Table!pte_index, Table!Index
<1>3. Table!Indices = 0 .. n - 1
  BY DEF Table!Indices
<1>. HIDE DEF p, pn, n
<1>4. ASSUME NEW a \in Addresses
      PROVE  /\ a \div p \in Nat /\ (a \div pn) % n \in 0 .. n - 1 /\ (a \div p) % n \in 0 .. n - 1
             /\ a \div p = n * ((a \div pn) % n) + ((a \div p) % n)
  BY <1>1, PlaceOf
<1>5. ASSUME NEW a \in Addresses, NEW b \in Addresses
      PROVE  a \div p = b \div p <=> (a \div pn) % n = (b \div pn) % n /\ (a \div p) % n = (b \div p) % n
  <2>1. ASSUME a \div p = b \div p PROVE (a \div pn) % n = (b \div pn) % n
    <3>1. a \div pn = (a \div p) \div n /\ b \div pn = (b \div p) \div n
      <4>1. p \in Nat /\ p > 0 /\ n \in Nat /\ n > 0 /\ pn = p * n /\ a \in Nat /\ b \in Nat
        BY <1>1 DEF Layout
      <4>. QED BY <4>1, TwoLevels
    <3>. QED BY <2>1, <3>1
  <2>2. ASSUME (a \div pn) % n = (b \div pn) % n, (a \div p) % n = (b \div p) % n PROVE a \div p = b \div p
    <3>1. a \div p = n * ((a \div pn) % n) + ((a \div p) % n)
      BY <1>4
    <3>2. b \div p = n * ((b \div pn) % n) + ((b \div p) % n)
      BY <1>4
    <3>. QED BY <2>2, <3>1, <3>2, Zenon
  <2>. QED BY <2>1, <2>2
<1>. QED BY <1>2, <1>3, <1>4, <1>5
-----------------------------------------------------------------------------
(* What a page may be meant to be, and entries that agree with it.         *)
Nothing == [is |-> "none"]
PageMeant == [is : {"page"}, frame : Frames, flags : VmFlags, dirty : BOOLEAN]
SwapMeant == [is : {"swap"}, entry : SwapTypes \X SwapOffsets]
Meant == {Nothing} \union PageMeant \union SwapMeant

(* A table entry, the meanings taken apart.                                *)
Present(e) == 0 \in e \/ 7 \in e
IsPage(e, m) ==
  /\ Present(e) /\ {b \in e : b >= FRAME} = m.frame
  /\ (0 \in e /\ 1 \in e /\ 2 \in e) <=> ("WRITE" \in m.flags /\ "SHARED" \in m.flags)
  /\ 0 \in e <=> \E x \in m.flags : x # "SHARED"
  /\ m.dirty => 6 \in e
IsSwap(e, m) ==
  /\ ~Present(e) /\ e # {}
  /\ m.entry = <<{b - 1 : b \in e \intersect (1 .. 6)}, {b - 8 : b \in {c \in e : c >= 8}}>>

LEMMA FrameBits ==
  /\ FRAME \in Nat /\ FRAME > 7
  /\ \A f \in Frames : f \subseteq Nat /\ \A b \in f : b >= FRAME
  /\ \A flags \in VmFlags : flags \subseteq {"READ", "WRITE", "EXEC", "SHARED"}
  /\ \A type \in SwapTypes : type \subseteq 0 .. 5
  /\ \A offset \in SwapOffsets : offset # {} /\ offset \subseteq Nat
<1>1. Table!LayoutOK
  BY Sizes
<1>2. \A f \in Frames : f \subseteq Nat /\ \A b \in f : b >= FRAME
  BY <1>1 DEF Table!LayoutOK
<1>3. \A offset \in SwapOffsets : offset # {} /\ offset \subseteq Nat
  BY <1>1 DEF Table!LayoutOK
<1>. QED BY <1>1, <1>2, <1>3 DEF Table!LayoutOK

LEMMA AgreeIs ==
  ASSUME NEW e, NEW m \in Meant
  PROVE  /\ m \in PageMeant => (Table!Agree(e, m) <=> IsPage(e, m))
         /\ m \in SwapMeant => (Table!Agree(e, m) <=> IsSwap(e, m))
         /\ m = Nothing => (Table!Agree(e, m) <=> e = {})
<1>1. Table!pte_none(e) <=> e = {}
  BY DEF Table!pte_none
<1>2. Table!pte_present(e) <=> Present(e)
  BY DEF Table!pte_present, Table!_PAGE_PRESENT, Table!_PAGE_PROTNONE, Present
<1>3. Present(e) => e # {}
  BY DEF Present
<1>4. Table!Writable(e) <=> 0 \in e /\ 1 \in e /\ 2 \in e
  BY DEF Table!Writable, Table!_PAGE_PRESENT, Table!_PAGE_RW, Table!_PAGE_USER
<1>5. /\ Table!Meaning(e) = {"none"} <=> e = {}
      /\ Table!Meaning(e) = {"page"} <=> Present(e)
      /\ Table!Meaning(e) = {"swap"} <=> e # {} /\ ~Present(e)
  BY <1>1, <1>2, <1>3 DEF Table!Meaning
<1>6. ASSUME m \in PageMeant PROVE Table!Agree(e, m) <=> IsPage(e, m)
  <2>1. m.is = "page"
    BY <1>6 DEF PageMeant
  <2>2. m.flags \ {"SHARED"} # {} <=> \E x \in m.flags : x # "SHARED"
    OBVIOUS
  <2>. QED BY <1>4, <1>5, <2>1, <2>2 DEF Table!Agree, IsPage, Table!PTE_MASK, Table!_PAGE_PRESENT, Table!_PAGE_DIRTY
<1>7. ASSUME m \in SwapMeant PROVE Table!Agree(e, m) <=> IsSwap(e, m)
  <2>1. m.is = "swap"
    BY <1>7 DEF SwapMeant
  <2>. QED BY <1>5, <2>1 DEF Table!Agree, IsSwap, Table!SWP_TYPE, Table!SWP_OFFSET
<1>8. ASSUME m = Nothing PROVE Table!Agree(e, m) <=> e = {}
  <2>1. m.is = "none"
    BY <1>8 DEF Nothing
  <2>. QED BY <1>5, <2>1 DEF Table!Agree
<1>. QED BY <1>6, <1>7, <1>8

(* The protection of an area's flags, as bits.                             *)
Protects(e, flags) ==
  /\ \A b \in e : b \in Nat /\ b <= 7 /\ b # 6
  /\ Present(e)
  /\ (0 \in e /\ 1 \in e /\ 2 \in e) <=> ("WRITE" \in flags /\ "SHARED" \in flags)
  /\ 0 \in e <=> \E x \in flags : x # "SHARED"

LEMMA Protection ==
  ASSUME NEW flags \in VmFlags
  PROVE  Protects(Table!protection_map(flags), flags)
<1>. DEFINE e == Table!protection_map(flags)
<1>. USE DEF Table!_PAGE_PRESENT, Table!_PAGE_RW, Table!_PAGE_USER, Table!_PAGE_ACCESSED, Table!_PAGE_PROTNONE
<1>1. flags \subseteq {"READ", "WRITE", "EXEC", "SHARED"}
  BY FrameBits
<1>2. ASSUME "WRITE" \in flags /\ "SHARED" \in flags PROVE Protects(e, flags)
  <2>1. e = {0, 1, 2, 5}
    BY <1>2 DEF Table!protection_map, Table!PAGE_SHARED
  <2>. HIDE DEF e
  <2>. QED BY <1>2, <2>1 DEF Present, Protects
<1>3. ASSUME "WRITE" \in flags /\ "SHARED" \notin flags PROVE Protects(e, flags)
  <2>1. e = {0, 2, 5}
    BY <1>3 DEF Table!protection_map, Table!PAGE_COPY
  <2>. HIDE DEF e
  <2>. QED BY <1>3, <2>1 DEF Present, Protects
<1>4. ASSUME "WRITE" \notin flags /\ ("READ" \in flags \/ "EXEC" \in flags) PROVE Protects(e, flags)
  <2>1. e = {0, 2, 5}
    BY <1>4 DEF Table!protection_map, Table!PAGE_READONLY
  <2>. HIDE DEF e
  <2>. QED BY <1>4, <2>1 DEF Present, Protects
<1>5. ASSUME "WRITE" \notin flags /\ "READ" \notin flags /\ "EXEC" \notin flags PROVE Protects(e, flags)
  <2>1. e = {7, 5}
    BY <1>5 DEF Table!protection_map, Table!PAGE_NONE
  <2>2. \A x \in flags : x = "SHARED"
    BY <1>1, <1>5
  <2>. HIDE DEF e
  <2>. QED BY <1>5, <2>1, <2>2 DEF Present, Protects
<1>6. Protects(e, flags)
  <2>. HIDE DEF e
  <2>. QED BY <1>2, <1>3, <1>4, <1>5
<1>. QED BY <1>6

(* What the operations leave in an entry is what the page is meant to be.  *)
LEMMA EntryMapped ==
  ASSUME NEW f \in Frames, NEW flags \in VmFlags
  PROVE  LET m == [is |-> "page", frame |-> f, flags |-> flags, dirty |-> FALSE] IN
         /\ m \in PageMeant /\ f \union Table!protection_map(flags) \in SUBSET Nat
         /\ IsPage(f \union Table!protection_map(flags), m)
<1>. DEFINE e == Table!protection_map(flags)
            m == [is |-> "page", frame |-> f, flags |-> flags, dirty |-> FALSE]
<1>1. /\ (\A b \in e : b \in Nat /\ b <= 7) /\ Present(e)
      /\ (0 \in e /\ 1 \in e /\ 2 \in e) <=> ("WRITE" \in flags /\ "SHARED" \in flags)
      /\ 0 \in e <=> \E x \in flags : x # "SHARED"
  BY Protection DEF Protects
<1>2. m \in PageMeant /\ m.frame = f /\ m.flags = flags /\ ~m.dirty
  BY DEF PageMeant
<1>. HIDE DEF e, m
<1>3. FRAME \in Nat /\ FRAME > 7 /\ f \subseteq Nat /\ \A b \in f : b >= FRAME
  BY FrameBits
<1>4. \A b \in 0 .. 7 : b \in f \union e <=> b \in e
  BY <1>3
<1>5. {b \in f \union e : b >= FRAME} = f
  <2>1. \A b \in e : ~(b >= FRAME)
    BY <1>1, <1>3
  <2>. QED BY <1>3, <2>1
<1>6. f \union e \subseteq Nat
  BY <1>1, <1>3
<1>7. 0 \in 0 .. 7 /\ 1 \in 0 .. 7 /\ 2 \in 0 .. 7 /\ 7 \in 0 .. 7
  OBVIOUS
<1>8. IsPage(f \union e, m)
  BY <1>1, <1>2, <1>4, <1>5, <1>7 DEF IsPage, Present
<1>. QED BY <1>2, <1>6, <1>8 DEF e, m

LEMMA EntryProtected ==
  ASSUME NEW e \in SUBSET Nat, NEW m \in PageMeant, IsPage(e, m), NEW flags \in VmFlags
  PROVE  LET c == Table!pte_modify(e, Table!protection_map(flags)) IN
         /\ [m EXCEPT !.flags = flags] \in PageMeant /\ c \in SUBSET Nat /\ IsPage(c, [m EXCEPT !.flags = flags])
<1>. DEFINE p == Table!protection_map(flags)
            m2 == [m EXCEPT !.flags = flags]
            c == Table!pte_modify(e, p)
<1>1. /\ (\A b \in p : b \in Nat /\ b <= 7) /\ Present(p) /\ 6 \notin p
      /\ (0 \in p /\ 1 \in p /\ 2 \in p) <=> ("WRITE" \in flags /\ "SHARED" \in flags)
      /\ 0 \in p <=> \E x \in flags : x # "SHARED"
  BY Protection DEF Protects
<1>2. m2 \in PageMeant /\ m2.frame = m.frame /\ m2.flags = flags /\ m2.dirty = m.dirty
  BY DEF PageMeant
<1>. HIDE DEF p, m2
<1>3. FRAME \in Nat /\ FRAME > 7
  BY FrameBits
<1>4. c = {b \in e : b >= FRAME} \union (e \intersect {5, 6}) \union p
  BY DEF Table!pte_modify, Table!ChgMask, Table!PTE_MASK, Table!_PAGE_ACCESSED, Table!_PAGE_DIRTY
<1>. HIDE DEF c
<1>5. \A b \in {0, 1, 2, 7} : b \in c <=> b \in p
  BY <1>3, <1>4
<1>6. 6 \in c <=> 6 \in e
  BY <1>1, <1>3, <1>4
<1>7. {b \in c : b >= FRAME} = {b \in e : b >= FRAME}
  <2>1. \A b \in p : ~(b >= FRAME)
    BY <1>1, <1>3
  <2>2. \A b : b \in c /\ b \notin p => b \in e
    BY <1>4
  <2>3. \A b \in e : b >= FRAME => b \in c
    BY <1>4
  <2>. QED BY <2>1, <2>2, <2>3
<1>8. c \subseteq Nat
  <2>1. \A b \in c : b \in e \/ b \in p
    BY <1>4
  <2>. QED BY <1>1, <2>1
<1>9. IsPage(c, m2)
  BY <1>1, <1>2, <1>5, <1>6, <1>7 DEF IsPage, Present
<1>. QED BY <1>2, <1>8, <1>9 DEF c, m2, p

LEMMA EntryWritten ==
  ASSUME NEW e \in SUBSET Nat, NEW m \in PageMeant, IsPage(e, m)
  PROVE  LET c == e \union {Table!_PAGE_ACCESSED, Table!_PAGE_DIRTY} IN
         /\ [m EXCEPT !.dirty = TRUE] \in PageMeant /\ c \in SUBSET Nat /\ IsPage(c, [m EXCEPT !.dirty = TRUE])
<1>. DEFINE c == e \union {Table!_PAGE_ACCESSED, Table!_PAGE_DIRTY}
            m2 == [m EXCEPT !.dirty = TRUE]
<1>1. m2 \in PageMeant /\ m2.frame = m.frame /\ m2.flags = m.flags /\ m2.dirty
  BY DEF PageMeant
<1>2. c = e \union {5, 6} /\ FRAME \in Nat /\ FRAME > 7
  BY FrameBits DEF Table!_PAGE_ACCESSED, Table!_PAGE_DIRTY
<1>. HIDE DEF c, m2
<1>3. /\ \A b \in {0, 1, 2, 7} : b \in c <=> b \in e
      /\ 6 \in c /\ c \subseteq Nat /\ {b \in c : b >= FRAME} = {b \in e : b >= FRAME}
  BY <1>2
<1>4. IsPage(c, m2)
  BY <1>1, <1>3 DEF IsPage, Present
<1>. QED BY <1>1, <1>3, <1>4 DEF c, m2

LEMMA EntrySwapped ==
  ASSUME NEW entry \in SwapTypes \X SwapOffsets
  PROVE  LET m == [is |-> "swap", entry |-> entry] IN
         m \in SwapMeant /\ Table!SWP_ENTRY(entry) \in SUBSET Nat /\ IsSwap(Table!SWP_ENTRY(entry), m)
<1>. DEFINE e == Table!SWP_ENTRY(entry)
            type == entry[1]
            offset == entry[2]
<1>1. type \subseteq 0 .. 5 /\ offset # {} /\ offset \subseteq Nat /\ entry = <<type, offset>>
  BY FrameBits
<1>2. e = {b + 1 : b \in type} \union {b + 8 : b \in offset}
  BY DEF Table!SWP_ENTRY
<1>. HIDE DEF e, type, offset
<1>3. \A b \in e : (b \in 1 .. 6 /\ b - 1 \in type) \/ (b >= 8 /\ b - 8 \in offset /\ b \in Nat)
  BY <1>1, <1>2
<1>4. (\A b \in type : b + 1 \in e /\ b + 1 \in 1 .. 6 /\ (b + 1) - 1 = b)
      /\ (\A b \in offset : b + 8 \in e /\ b + 8 >= 8 /\ (b + 8) - 8 = b)
  BY <1>1, <1>2
<1>5. ~Present(e) /\ e # {} /\ e \subseteq Nat
  <2>1. 0 \notin e /\ 7 \notin e /\ \A b \in e : b \in Nat
    BY <1>3
  <2>2. e # {}
    BY <1>1, <1>4
  <2>. QED BY <2>1, <2>2 DEF Present
<1>6. {b - 1 : b \in e \intersect (1 .. 6)} = type
  <2>1. \A b \in e \intersect (1 .. 6) : b - 1 \in type
    BY <1>3
  <2>2. \A x \in type : x \in {b - 1 : b \in e \intersect (1 .. 6)}
    BY <1>4
  <2>. QED BY <2>1, <2>2
<1>7. {b - 8 : b \in {c \in e : c >= 8}} = offset
  <2>1. \A b \in {c \in e : c >= 8} : b - 8 \in offset
    BY <1>3
  <2>2. \A x \in offset : x \in {b - 8 : b \in {c \in e : c >= 8}}
    BY <1>4
  <2>. QED BY <2>1, <2>2
<1>8. [is |-> "swap", entry |-> entry] \in SwapMeant
  BY DEF SwapMeant
<1>9. IsSwap(e, [is |-> "swap", entry |-> entry])
  BY <1>1, <1>5, <1>6, <1>7 DEF IsSwap
<1>. QED BY <1>5, <1>8, <1>9 DEF e
-----------------------------------------------------------------------------
(* The page table: a directory entry that is none leaves a table empty, and*)
(* every address's entry, in a table in use or not, is what its page is    *)
(* meant to be.                                                            *)
TableInv ==
  /\ ppgd \in [Table!Indices -> {{}, Table!_PAGE_TABLE}]
  /\ ptables \in [Table!Indices -> [Table!Indices -> SUBSET Nat]]
  /\ pspace \in [Table!Pages -> Meant]
  /\ \A i, j \in Table!Indices : ppgd[i] = {} => ptables[i][j] = {}
  /\ \A a \in Addresses : Table!Agree(Table!Pte(a), pspace[Table!Page(a)])

LEMMA PageOf == \A a \in Addresses : Table!Page(a) \in Table!Pages
BY DEF Table!Pages

(* An entry set, for what its page becomes.                                *)
LEMMA EntrySet ==
  ASSUME TableInv, NEW a \in Addresses, NEW e \in SUBSET Nat, NEW m \in Meant, Table!Agree(e, m),
         Table!set_pte(a, e), Table!Becomes(a, m),
         ppgd' \in [Table!Indices -> {{}, Table!_PAGE_TABLE}],
         \A i \in Table!Indices : ppgd'[i] = {} => ppgd[i] = {} /\ i # Table!pgd_index(a)
  PROVE  TableInv'
<1>. DEFINE I == Table!Indices
            x == Table!pgd_index(a)
            y == Table!pte_index(a)
            q == Table!Page(a)
<1>1. x \in I /\ y \in I /\ q \in Table!Pages
  BY Places, PageOf
<1>2. ptables' = [ptables EXCEPT ![x][y] = e] /\ pspace' = [pspace EXCEPT ![q] = m]
  BY DEF Table!set_pte, Table!Becomes
<1>3. /\ ptables \in [I -> [I -> SUBSET Nat]] /\ pspace \in [Table!Pages -> Meant]
      /\ \A i, j \in I : ppgd[i] = {} => ptables[i][j] = {}
  BY DEF TableInv
<1>4. \A b \in Addresses : /\ Table!pgd_index(b) \in I /\ Table!pte_index(b) \in I /\ Table!Page(b) \in Table!Pages
                           /\ Table!Page(b) = q <=> Table!pgd_index(b) = x /\ Table!pte_index(b) = y
  BY Places, PageOf
<1>5. \A b \in Addresses : /\ Table!Agree(ptables[Table!pgd_index(b)][Table!pte_index(b)], pspace[Table!Page(b)])
                           /\ Table!Agree(Table!Pte(b), pspace[Table!Page(b)])' <=>
                                Table!Agree(ptables'[Table!pgd_index(b)][Table!pte_index(b)], pspace'[Table!Page(b)])
  BY DEF TableInv, Table!Pte
<1>. HIDE DEF I, x, y, q
<1>6. ptables' \in [I -> [I -> SUBSET Nat]] /\ pspace' \in [Table!Pages -> Meant]
  BY <1>1, <1>2, <1>3
<1>7. /\ ptables'[x][y] = e /\ pspace'[q] = m
      /\ \A i, j \in I : i # x \/ j # y => ptables'[i][j] = ptables[i][j]
      /\ \A r \in Table!Pages : r # q => pspace'[r] = pspace[r]
  BY <1>1, <1>2, <1>3
<1>8. \A i, j \in I : ppgd'[i] = {} => ptables'[i][j] = {}
  BY <1>3, <1>7 DEF I, x
<1>9. ASSUME NEW b \in Addresses
      PROVE  Table!Agree(ptables'[Table!pgd_index(b)][Table!pte_index(b)], pspace'[Table!Page(b)])
  <2>1. CASE Table!Page(b) = q
    BY <1>4, <1>7, <2>1
  <2>2. CASE Table!Page(b) # q
    <3>1. /\ ptables'[Table!pgd_index(b)][Table!pte_index(b)] = ptables[Table!pgd_index(b)][Table!pte_index(b)]
          /\ pspace'[Table!Page(b)] = pspace[Table!Page(b)]
      BY <1>4, <1>7, <2>2
    <3>. QED BY <1>5, <3>1
  <2>. QED BY <2>1, <2>2
<1>10. \A b \in Addresses : Table!Agree(Table!Pte(b), pspace[Table!Page(b)])'
  BY <1>5, <1>9
<1>. QED BY <1>6, <1>8, <1>10 DEF TableInv, I

(* An entry that is a page's is meant to be one.                           *)
LEMMA PagesMeant ==
  ASSUME TableInv, NEW a \in Addresses
  PROVE  /\ Table!Pte(a) \in SUBSET Nat /\ pspace[Table!Page(a)] \in Meant
         /\ Table!Agree(Table!Pte(a), pspace[Table!Page(a)])
         /\ Present(Table!Pte(a)) => pspace[Table!Page(a)] \in PageMeant /\ IsPage(Table!Pte(a), pspace[Table!Page(a)])
<1>. DEFINE e == Table!Pte(a)
            m == pspace[Table!Page(a)]
<1>1. e \in SUBSET Nat /\ m \in Meant /\ Table!Agree(e, m)
  BY Places, PageOf DEF TableInv, Table!Pte
<1>. HIDE DEF e, m
<1>2. Present(e) => e # {}
  BY DEF Present
<1>3. m \in SwapMeant => ~Present(e)
  BY <1>1, AgreeIs DEF IsSwap
<1>4. Present(e) => m \in PageMeant /\ IsPage(e, m)
  BY <1>1, <1>2, <1>3, AgreeIs DEF Meant
<1>. QED BY <1>1, <1>4 DEF e, m

LEMMA TableInit ==
  ASSUME Table!Init
  PROVE  TableInv
<1>. DEFINE I == Table!Indices
<1>1. /\ ppgd = [i \in I |-> {}] /\ ptables = [i \in I |-> [j \in I |-> {}]]
      /\ pspace = [q \in Table!Pages |-> Nothing]
  BY DEF Table!Init, Table!Nothing, Nothing
<1>2. Nothing \in Meant
  BY DEF Meant
<1>3. Table!Agree({}, Nothing)
  BY <1>2, AgreeIs
<1>4. \A a \in Addresses : Table!Pte(a) = {} /\ pspace[Table!Page(a)] = Nothing
  BY <1>1, Places, PageOf DEF Table!Pte
<1>5. ppgd \in [I -> {{}, Table!_PAGE_TABLE}] /\ ptables \in [I -> [I -> SUBSET Nat]]
      /\ pspace \in [Table!Pages -> Meant]
  BY <1>1, <1>2
<1>6. \A i, j \in I : ptables[i][j] = {}
  BY <1>1
<1>. QED BY <1>3, <1>4, <1>5, <1>6 DEF TableInv

LEMMA TableNext ==
  ASSUME TableInv, Table!Next
  PROVE  TableInv'
<1>. DEFINE I == Table!Indices
            directories == [I -> {{}, Table!_PAGE_TABLE}]
<1>0. ppgd \in directories /\ \A a \in Addresses : Table!pgd_index(a) \in I
  BY Places DEF TableInv
<1>1. ASSUME NEW a \in Addresses, ~Table!pmd_none(ppgd[Table!pgd_index(a)]), UNCHANGED ppgd
      PROVE  ppgd' \in directories /\ \A i \in I : ppgd'[i] = {} => ppgd[i] = {} /\ i # Table!pgd_index(a)
  BY <1>0, <1>1 DEF Table!pmd_none
<1>2. ASSUME NEW f \in Frames, NEW flags \in VmFlags
      PROVE  LET m == [is |-> "page", frame |-> f, flags |-> flags, dirty |-> FALSE]
                 e == f \union Table!protection_map(flags)
             IN  m \in Meant /\ e \in SUBSET Nat /\ Table!Agree(e, m)
  <2>. DEFINE m == [is |-> "page", frame |-> f, flags |-> flags, dirty |-> FALSE]
              e == f \union Table!protection_map(flags)
  <2>1. m \in PageMeant /\ e \in SUBSET Nat /\ IsPage(e, m)
    BY EntryMapped
  <2>. HIDE DEF m, e
  <2>2. m \in Meant
    BY <2>1 DEF Meant
  <2>3. Table!Agree(e, m)
    BY <2>1, <2>2, AgreeIs
  <2>. QED BY <2>1, <2>2, <2>3 DEF m, e
<1>3. ASSUME NEW a \in Addresses, NEW f \in Frames, NEW flags \in VmFlags, Table!Map(a, f, flags) PROVE TableInv'
  <2>1. /\ ppgd' = [ppgd EXCEPT ![Table!pgd_index(a)] = Table!_PAGE_TABLE]
        /\ Table!set_pte(a, f \union Table!protection_map(flags))
        /\ Table!Becomes(a, [is |-> "page", frame |-> f, flags |-> flags, dirty |-> FALSE])
    BY <1>3 DEF Table!Map
  <2>2. 0 \in Table!_PAGE_TABLE
    BY DEF Table!_PAGE_TABLE, Table!_PAGE_PRESENT
  <2>3. ppgd' \in directories /\ \A i \in I : ppgd'[i] = {} => ppgd[i] = {} /\ i # Table!pgd_index(a)
    BY <1>0, <2>1, <2>2
  <2>. QED BY <1>2, <2>1, <2>3, EntrySet
<1>4. ASSUME NEW a \in Addresses, NEW f \in Frames, NEW flags \in VmFlags, Table!SwapIn(a, f, flags) PROVE TableInv'
  <2>1. /\ ~Table!pmd_none(ppgd[Table!pgd_index(a)]) /\ UNCHANGED ppgd
        /\ Table!set_pte(a, f \union Table!protection_map(flags))
        /\ Table!Becomes(a, [is |-> "page", frame |-> f, flags |-> flags, dirty |-> FALSE])
    BY <1>4 DEF Table!SwapIn
  <2>. QED BY <1>1, <1>2, <2>1, EntrySet
<1>5. ASSUME NEW a \in Addresses, Table!HasPage(a)
      PROVE  /\ ~Table!pmd_none(ppgd[Table!pgd_index(a)]) /\ Table!Pte(a) \in SUBSET Nat
             /\ pspace[Table!Page(a)] \in PageMeant /\ IsPage(Table!Pte(a), pspace[Table!Page(a)])
  <2>1. ~Table!pmd_none(ppgd[Table!pgd_index(a)]) /\ Present(Table!Pte(a))
    BY <1>5 DEF Table!HasPage, Table!pte_present, Table!_PAGE_PRESENT, Table!_PAGE_PROTNONE, Present
  <2>. QED BY <2>1, PagesMeant
<1>6. ASSUME NEW a \in Addresses, NEW flags \in VmFlags, Table!Protect(a, flags) PROVE TableInv'
  <2>. DEFINE e == Table!pte_modify(Table!Pte(a), Table!protection_map(flags))
              m == [pspace[Table!Page(a)] EXCEPT !.flags = flags]
  <2>1. Table!HasPage(a) /\ UNCHANGED ppgd /\ Table!set_pte(a, e) /\ Table!Becomes(a, m)
    BY <1>6 DEF Table!Protect
  <2>2. m \in PageMeant /\ e \in SUBSET Nat /\ IsPage(e, m)
    BY <1>5, <2>1, EntryProtected
  <2>. HIDE DEF m, e
  <2>3. m \in Meant
    BY <2>2 DEF Meant
  <2>4. Table!Agree(e, m)
    BY <2>2, <2>3, AgreeIs
  <2>. QED BY <1>1, <1>5, <2>1, <2>2, <2>3, <2>4, EntrySet
<1>7. ASSUME NEW a \in Addresses, Table!Write(a) PROVE TableInv'
  <2>. DEFINE e == Table!Pte(a) \union {Table!_PAGE_ACCESSED, Table!_PAGE_DIRTY}
              m == [pspace[Table!Page(a)] EXCEPT !.dirty = TRUE]
  <2>1. /\ ~Table!pmd_none(ppgd[Table!pgd_index(a)]) /\ Table!Writable(Table!Pte(a)) /\ UNCHANGED ppgd
        /\ Table!set_pte(a, e) /\ Table!Becomes(a, m)
    BY <1>7 DEF Table!Write
  <2>2. Present(Table!Pte(a))
    BY <2>1 DEF Table!Writable, Present, Table!_PAGE_PRESENT
  <2>3. m \in PageMeant /\ e \in SUBSET Nat /\ IsPage(e, m)
    BY <2>2, PagesMeant, EntryWritten
  <2>. HIDE DEF m, e
  <2>4. m \in Meant
    BY <2>3 DEF Meant
  <2>5. Table!Agree(e, m)
    BY <2>3, <2>4, AgreeIs
  <2>. QED BY <1>1, <2>1, <2>3, <2>4, <2>5, EntrySet
<1>8. ASSUME NEW a \in Addresses, NEW entry \in SwapTypes \X SwapOffsets, Table!SwapOut(a, entry) PROVE TableInv'
  <2>. DEFINE e == Table!SWP_ENTRY(entry)
              m == [is |-> "swap", entry |-> entry]
  <2>1. Table!HasPage(a) /\ UNCHANGED ppgd /\ Table!set_pte(a, e) /\ Table!Becomes(a, m)
    BY <1>8 DEF Table!SwapOut
  <2>2. m \in SwapMeant /\ e \in SUBSET Nat /\ IsSwap(e, m)
    BY EntrySwapped
  <2>. HIDE DEF m, e
  <2>3. m \in Meant
    BY <2>2 DEF Meant
  <2>4. Table!Agree(e, m)
    BY <2>2, <2>3, AgreeIs
  <2>. QED BY <1>1, <1>5, <2>1, <2>2, <2>3, <2>4, EntrySet
<1>9. ASSUME NEW a \in Addresses, Table!Unmap(a) PROVE TableInv'
  <2>1. /\ ~Table!pmd_none(ppgd[Table!pgd_index(a)]) /\ UNCHANGED ppgd
        /\ Table!set_pte(a, {}) /\ Table!Becomes(a, Nothing)
    BY <1>9 DEF Table!Unmap, Table!Nothing, Nothing
  <2>2. Nothing \in Meant /\ {} \in SUBSET Nat
    BY DEF Meant
  <2>3. Table!Agree({}, Nothing)
    BY <2>2, AgreeIs
  <2>. QED BY <1>1, <2>1, <2>2, <2>3, EntrySet
<1>10. ASSUME NEW i \in I, Table!FreeTable(i) PROVE TableInv'
  <2>1. /\ \A j \in I : ptables[i][j] = {}
        /\ ppgd' = [ppgd EXCEPT ![i] = {}] /\ ptables' = ptables /\ pspace' = pspace
    BY <1>10 DEF Table!FreeTable, Table!pte_none
  <2>2. ppgd' \in directories /\ \A k \in I : k # i => ppgd'[k] = ppgd[k]
    BY <1>0, <2>1
  <2>3. \A k, j \in I : ppgd'[k] = {} => ptables'[k][j] = {}
    BY <2>1, <2>2 DEF TableInv
  <2>4. \A a \in Addresses : Table!Agree(Table!Pte(a), pspace[Table!Page(a)])'
    BY <2>1 DEF TableInv, Table!Pte
  <2>. QED BY <2>1, <2>2, <2>3, <2>4 DEF TableInv
<1>. QED BY <1>3, <1>4, <1>6, <1>7, <1>8, <1>9, <1>10, Zenon DEF Table!Next

LEMMA TableFrame ==
  ASSUME TableInv, UNCHANGED tablevars
  PROVE  TableInv'
<1>1. ppgd' = ppgd /\ ptables' = ptables /\ pspace' = pspace
  BY DEF tablevars
<1>2. \A a \in Addresses : Table!Agree(Table!Pte(a), pspace[Table!Page(a)])'
  BY <1>1 DEF TableInv, Table!Pte
<1>. QED BY <1>1, <1>2 DEF TableInv

LEMMA TableFound ==
  ASSUME TableInv
  PROVE  Table!WalkAgrees
<1>1. ASSUME NEW a \in Addresses
      PROVE  IF Table!pmd_none(ppgd[Table!pgd_index(a)]) THEN pspace[Table!Page(a)] = Table!Nothing
             ELSE Table!Agree(Table!Pte(a), pspace[Table!Page(a)])
  <2>. DEFINE e == Table!Pte(a)
              m == pspace[Table!Page(a)]
  <2>1. m \in Meant /\ Table!Agree(e, m)
    BY PagesMeant
  <2>2. ASSUME Table!pmd_none(ppgd[Table!pgd_index(a)]) PROVE e = {}
    BY <2>2, Places DEF TableInv, Table!pmd_none, Table!Pte
  <2>. HIDE DEF e, m
  <2>3. ASSUME e = {} PROVE m = Nothing
    <3>1. m \in PageMeant => IsPage(e, m)
      BY <2>1, AgreeIs
    <3>2. m \in SwapMeant => IsSwap(e, m)
      BY <2>1, AgreeIs
    <3>3. ~IsPage(e, m) /\ ~IsSwap(e, m)
      BY <2>3 DEF IsPage, IsSwap, Present
    <3>. QED BY <2>1, <3>1, <3>2, <3>3 DEF Meant
  <2>. QED BY <2>1, <2>2, <2>3 DEF e, m, Nothing, Table!Nothing
<1>2. ASSUME NEW i \in Table!Indices, ~Table!pmd_none(ppgd[i]) PROVE ~Table!pmd_bad(ppgd[i])
  <2>1. ppgd[i] = Table!_PAGE_TABLE
    BY <1>2 DEF TableInv, Table!pmd_none
  <2>2. Table!_PAGE_TABLE \ {Table!_PAGE_USER} = Table!_KERNPG_TABLE
    BY DEF Table!_PAGE_TABLE, Table!_KERNPG_TABLE, Table!_PAGE_PRESENT, Table!_PAGE_RW, Table!_PAGE_USER,
           Table!_PAGE_ACCESSED, Table!_PAGE_DIRTY
  <2>. QED BY <2>1, <2>2 DEF Table!pmd_bad
<1>. QED BY <1>1, <1>2 DEF Table!WalkAgrees
-----------------------------------------------------------------------------
(* Lists that end with NULL: s leads from first on, each element points    *)
(* back at the one before it, in its own way, and the first at from.       *)
Line(first, nx, pv, from, back, s) ==
  /\ first = At(NULL, s, 1)
  /\ \A k \in 1 .. Len(s) : /\ nx[s[k]] = At(NULL, s, k + 1)
                            /\ pv[s[k]] = IF k = 1 THEN from ELSE back[s[k - 1]]

FrontLinks(first, nx, pv, nx2, pv2, from, back, t) ==
  /\ nx2[t] = first /\ pv2[t] = from
  /\ first # NULL => pv2[first] = back[t]
  /\ \A x \in Tasks : (x # t => nx2[x] = nx[x]) /\ (x \notin {t, first} => pv2[x] = pv[x])

OutLinks(first, nx, pv, first2, nx2, pv2, s, i) ==
  /\ i = 1 => first2 = nx[s[i]]
  /\ i # 1 => first2 = first /\ nx2[s[i - 1]] = nx[s[i]]
  /\ nx[s[i]] # NULL => pv2[nx[s[i]]] = pv[s[i]]
  /\ \A x \in Tasks : /\ x # s[i] /\ (i # 1 => x # s[i - 1]) => nx2[x] = nx[x]
                      /\ x \notin {s[i], nx[s[i]]} => pv2[x] = pv[x]

LEMMA NoTask == NULL \notin Tasks /\ init_task \notin Tasks /\ init_task # NULL /\ IsFiniteSet(Tasks)
BY Sizes DEF Task!InitOK, Task!IsFiniteSet, IsFiniteSet

(* One more at the front.                                                  *)
LEMMA LineFront ==
  ASSUME NEW s \in Seq(Tasks), Once(s), NEW t \in Tasks, ~Has(s, t), NEW r \in Seq(Tasks), Inserts(s, 0, t, r),
         NEW first, NEW nx, NEW pv, NEW from, NEW back, Line(first, nx, pv, from, back, s),
         NEW nx2, NEW pv2, FrontLinks(first, nx, pv, nx2, pv2, from, back, t)
  PROVE  Line(t, nx2, pv2, from, back, r) /\ Once(r)
<1>. DEFINE n == Len(s)
<1>0. n \in Nat /\ \A k \in 1 .. n : s[k] \in Tasks /\ s[k] # t /\ s[k] # NULL
  BY LenProperties, ElementOfSeq, NoTask DEF Has
<1>1. Len(r) = n + 1 /\ r[1] = t /\ \A k \in 1 .. n : r[k + 1] = s[k]
  <2>1. Len(r) = n + 1 /\ r[0 + 1] = t /\ \A k \in 0 + 1 .. n : r[k + 1] = s[k]
    BY DEF Inserts
  <2>. QED BY <2>1
<1>2. \A k \in 1 .. n : nx[s[k]] = At(NULL, s, k + 1) /\ pv[s[k]] = IF k = 1 THEN from ELSE back[s[k - 1]]
  BY DEF Line
<1>3. first = At(NULL, s, 1)
  BY DEF Line
<1>. HIDE DEF n
<1>4. At(NULL, r, 1) = t /\ \A k \in 1 .. n + 1 : At(NULL, r, k + 1) = At(NULL, s, k)
  <2>1. At(NULL, r, 1) = t
    BY <1>0, <1>1 DEF At
  <2>2. ASSUME NEW k \in 1 .. n PROVE At(NULL, r, k + 1) = At(NULL, s, k)
    <3>1. k + 1 \in 1 .. n + 1
      BY <1>0
    <3>. QED BY <1>1, <3>1 DEF At, n
  <2>3. At(NULL, r, (n + 1) + 1) = At(NULL, s, n + 1)
    <3>1. (n + 1) + 1 \notin 1 .. n + 1 /\ n + 1 \notin 1 .. n
      BY <1>0
    <3>. QED BY <1>1, <3>1 DEF At, n
  <2>. QED BY <1>0, <2>1, <2>2, <2>3
<1>5. ASSUME NEW k \in 1 .. n + 1
      PROVE  nx2[r[k]] = At(NULL, r, k + 1) /\ pv2[r[k]] = IF k = 1 THEN from ELSE back[r[k - 1]]
  <2>1. CASE k = 1
    <3>1. nx2[t] = first /\ pv2[t] = from
      BY DEF FrontLinks
    <3>. QED BY <1>1, <1>3, <1>4, <2>1, <3>1
  <2>2. CASE k # 1
    <3>. DEFINE j == k - 1
    <3>1. j \in 1 .. n /\ j + 1 = k /\ j + 1 \in 1 .. n + 1
      BY <1>0, <2>2
    <3>. HIDE DEF j
    <3>2. r[k] = s[j] /\ s[j] \in Tasks /\ s[j] # t /\ s[j] # NULL
      BY <1>0, <1>1, <3>1
    <3>3. nx2[s[j]] = nx[s[j]]
      BY <3>2 DEF FrontLinks
    <3>4. nx2[r[k]] = At(NULL, r, k + 1)
      BY <1>2, <1>4, <3>1, <3>2, <3>3
    <3>5. CASE j = 1
      <4>1. s[j] = first
        BY <1>3, <3>1, <3>5 DEF At, n
      <4>2. pv2[r[k]] = back[t]
        BY <3>2, <4>1 DEF FrontLinks
      <4>3. k - 1 = 1
        BY <3>1, <3>5
      <4>. QED BY <1>1, <2>2, <3>4, <4>2, <4>3
    <3>6. CASE j # 1
      <4>1. 1 \in 1 .. n /\ j - 1 \in 1 .. n /\ (j - 1) + 1 = j /\ k - 1 = j
        BY <1>0, <3>1, <3>6
      <4>2. first = s[1] /\ s[1] # s[j]
        BY <1>3, <3>1, <3>6, <4>1 DEF At, Once, n
      <4>3. pv2[s[j]] = pv[s[j]] /\ pv[s[j]] = back[s[j - 1]]
        BY <1>2, <3>1, <3>2, <3>6, <4>2 DEF FrontLinks
      <4>4. r[k - 1] = s[j - 1]
        <5>1. r[(j - 1) + 1] = s[j - 1]
          BY <1>1, <4>1
        <5>. QED BY <4>1, <5>1
      <4>. QED BY <2>2, <3>2, <3>4, <4>3, <4>4
    <3>. QED BY <3>5, <3>6
  <2>. QED BY <2>1, <2>2
<1>6. Line(t, nx2, pv2, from, back, r)
  BY <1>1, <1>4, <1>5 DEF Line
<1>7. Once(r)
  <2>1. ASSUME NEW k \in 1 .. n + 1, NEW j \in 1 .. n + 1, r[k] = r[j] PROVE k = j
    <3>1. k = 1 \/ (k - 1 \in 1 .. n /\ r[(k - 1) + 1] = s[k - 1] /\ (k - 1) + 1 = k)
      BY <1>0, <1>1
    <3>2. j = 1 \/ (j - 1 \in 1 .. n /\ r[(j - 1) + 1] = s[j - 1] /\ (j - 1) + 1 = j)
      BY <1>0, <1>1
    <3>3. \A a, b \in 1 .. n : s[a] = s[b] => a = b
      BY DEF Once, n
    <3>4. CASE k = 1
      BY <1>0, <1>1, <2>1, <3>2, <3>4
    <3>5. CASE j = 1
      BY <1>0, <1>1, <2>1, <3>1, <3>5
    <3>6. CASE k # 1 /\ j # 1
      <4>1. s[k - 1] = s[j - 1] /\ k - 1 \in 1 .. n /\ j - 1 \in 1 .. n
        BY <2>1, <3>1, <3>2, <3>6
      <4>2. k - 1 = j - 1
        BY <3>3, <4>1
      <4>. QED BY <4>2
    <3>. QED BY <3>4, <3>5, <3>6
  <2>. QED BY <1>1, <2>1 DEF Once
<1>. QED BY <1>6, <1>7

(* One less, wherever it is.                                               *)
LEMMA LineOut ==
  ASSUME NEW s \in Seq(Tasks), Once(s), NEW i, NEW r \in Seq(Tasks), Removes(s, i, r),
         NEW first, NEW nx, NEW pv, NEW from, NEW back, Line(first, nx, pv, from, back, s),
         NEW first2, NEW nx2, NEW pv2, OutLinks(first, nx, pv, first2, nx2, pv2, s, i)
  PROVE  Line(first2, nx2, pv2, from, back, r) /\ Once(r)
<1>. DEFINE n == Len(s)
            e == s[i]
<1>0. n \in Nat /\ i \in 1 .. n /\ \A k \in 1 .. n : s[k] \in Tasks /\ s[k] # NULL
  BY LenProperties, ElementOfSeq, NoTask DEF Removes
<1>1. Len(r) = n - 1 /\ (\A k \in 1 .. i - 1 : r[k] = s[k]) /\ \A k \in i + 1 .. n : r[k - 1] = s[k]
  BY DEF Removes
<1>2. \A k \in 1 .. n : nx[s[k]] = At(NULL, s, k + 1) /\ pv[s[k]] = IF k = 1 THEN from ELSE back[s[k - 1]]
  BY DEF Line
<1>3. first = At(NULL, s, 1)
  BY DEF Line
<1>4. \A k, j \in 1 .. n : s[k] = s[j] => k = j
  BY DEF Once
<1>5. /\ \A k \in 1 .. n : At(NULL, s, k) = s[k]
      /\ At(NULL, s, n + 1) = NULL
  BY <1>0 DEF At
<1>. HIDE DEF n
<1>6. /\ \A k \in 1 .. i - 1 : At(NULL, r, k) = s[k] /\ r[k] = s[k] /\ k \in 1 .. n
      /\ \A k \in i .. n - 1 : At(NULL, r, k) = s[k + 1] /\ r[k] = s[k + 1] /\ k + 1 \in 1 .. n
      /\ At(NULL, r, n) = NULL
  <2>1. ASSUME NEW k \in 1 .. i - 1 PROVE At(NULL, r, k) = s[k] /\ r[k] = s[k] /\ k \in 1 .. n
    <3>1. k \in 1 .. n - 1 /\ k \in 1 .. n
      BY <1>0
    <3>. QED BY <1>1, <3>1 DEF At
  <2>2. ASSUME NEW k \in i .. n - 1 PROVE At(NULL, r, k) = s[k + 1] /\ r[k] = s[k + 1] /\ k + 1 \in 1 .. n
    <3>1. k \in 1 .. n - 1 /\ k + 1 \in 1 .. n /\ k + 1 \in i + 1 .. n /\ (k + 1) - 1 = k
      BY <1>0
    <3>2. r[(k + 1) - 1] = s[k + 1]
      BY <1>1, <3>1
    <3>. QED BY <1>1, <3>1, <3>2 DEF At
  <2>3. At(NULL, r, n) = NULL
    <3>1. n \notin 1 .. n - 1
      BY <1>0
    <3>. QED BY <1>1, <3>1 DEF At
  <2>. QED BY <2>1, <2>2, <2>3
<1>7. /\ e \in Tasks /\ nx[e] = At(NULL, s, i + 1) /\ At(NULL, r, i) = At(NULL, s, i + 1)
      /\ pv[e] = IF i = 1 THEN from ELSE back[s[i - 1]]
  <2>1. At(NULL, r, i) = At(NULL, s, i + 1)
    <3>1. CASE i = n
      BY <1>5, <1>6, <3>1
    <3>2. CASE i # n
      <4>1. i \in i .. n - 1 /\ i + 1 \in 1 .. n
        BY <1>0, <3>2
      <4>. QED BY <1>5, <1>6, <4>1
    <3>. QED BY <3>1, <3>2
  <2>. QED BY <1>0, <1>2, <2>1
<1>8. /\ i = 1 => first2 = nx[e]
      /\ i # 1 => first2 = first /\ nx2[s[i - 1]] = nx[e]
      /\ nx[e] # NULL => pv2[nx[e]] = pv[e]
      /\ \A x \in Tasks : /\ x # e /\ (i # 1 => x # s[i - 1]) => nx2[x] = nx[x]
                          /\ x \notin {e, nx[e]} => pv2[x] = pv[x]
  BY DEF OutLinks
<1>. HIDE DEF e
<1>9. first2 = At(NULL, r, 1)
  <2>1. CASE i = 1
    BY <1>7, <1>8, <2>1
  <2>2. CASE i # 1
    <3>1. 1 \in 1 .. i - 1 /\ 1 \in 1 .. n
      BY <1>0, <2>2
    <3>. QED BY <1>3, <1>5, <1>6, <1>8, <2>2, <3>1
  <2>. QED BY <2>1, <2>2
<1>10. ASSUME NEW k \in 1 .. n - 1 PROVE nx2[r[k]] = At(NULL, r, k + 1)
  <2>1. CASE k = i - 1
    <3>1. k \in 1 .. i - 1 /\ i # 1 /\ k + 1 = i
      BY <1>0, <2>1
    <3>. QED BY <1>6, <1>7, <1>8, <2>1, <3>1
  <2>2. CASE k < i - 1
    <3>1. k \in 1 .. i - 1 /\ k + 1 \in 1 .. i - 1 /\ k \in 1 .. n /\ k + 1 \in 1 .. n /\ i - 1 \in 1 .. n /\ k # i /\ k # i - 1
      BY <1>0, <2>2
    <3>2. s[k] # e /\ s[k] # s[i - 1]
      BY <1>0, <1>4, <3>1 DEF e
    <3>3. nx2[s[k]] = nx[s[k]]
      BY <1>0, <1>8, <3>1, <3>2
    <3>. QED BY <1>2, <1>5, <1>6, <3>1, <3>3
  <2>3. CASE k >= i
    <3>1. k \in i .. n - 1 /\ k + 1 \in 1 .. n /\ k + 1 # i /\ (i # 1 => i - 1 \in 1 .. n /\ k + 1 # i - 1)
      BY <1>0, <2>3
    <3>2. s[k + 1] # e /\ (i # 1 => s[k + 1] # s[i - 1])
      BY <1>0, <1>4, <3>1 DEF e
    <3>3. nx2[s[k + 1]] = nx[s[k + 1]]
      BY <1>0, <1>8, <3>1, <3>2
    <3>4. nx[s[k + 1]] = At(NULL, s, (k + 1) + 1)
      BY <1>2, <3>1
    <3>5. At(NULL, s, (k + 1) + 1) = At(NULL, r, k + 1)
      <4>1. CASE k + 1 = n
        BY <1>5, <1>6, <4>1
      <4>2. CASE k + 1 # n
        <5>1. k + 1 \in i .. n - 1 /\ (k + 1) + 1 \in 1 .. n
          BY <1>0, <3>1, <4>2
        <5>. QED BY <1>5, <1>6, <5>1
      <4>. QED BY <4>1, <4>2
    <3>. QED BY <1>6, <3>1, <3>3, <3>4, <3>5
  <2>. QED BY <1>0, <2>1, <2>2, <2>3
<1>11. ASSUME NEW k \in 1 .. n - 1 PROVE pv2[r[k]] = IF k = 1 THEN from ELSE back[r[k - 1]]
  <2>1. CASE k = i
    <3>1. k \in i .. n - 1 /\ i + 1 \in 1 .. n
      BY <1>0, <2>1
    <3>2. r[k] = s[i + 1] /\ nx[e] = s[i + 1] /\ nx[e] # NULL
      BY <1>0, <1>5, <1>6, <1>7, <2>1, <3>1
    <3>3. pv2[r[k]] = pv[e]
      BY <1>8, <3>2
    <3>4. i # 1 => r[i - 1] = s[i - 1]
      <4>1. i # 1 => i - 1 \in 1 .. i - 1
        BY <1>0
      <4>. QED BY <1>6, <4>1
    <3>. QED BY <1>7, <2>1, <3>3, <3>4
  <2>2. CASE k < i
    <3>1. k \in 1 .. i - 1 /\ k \in 1 .. n /\ k # i /\ k # i + 1 /\ (k # 1 => k - 1 \in 1 .. i - 1)
      BY <1>0, <2>2
    <3>2. s[k] # e /\ s[k] # nx[e]
      <4>1. nx[e] = NULL \/ (i + 1 \in 1 .. n /\ nx[e] = s[i + 1])
        BY <1>7 DEF At, n
      <4>. QED BY <1>0, <1>4, <3>1, <4>1 DEF e
    <3>3. pv2[s[k]] = pv[s[k]]
      BY <1>0, <1>8, <3>1, <3>2
    <3>. QED BY <1>2, <1>6, <3>1, <3>3
  <2>3. CASE k > i
    <3>1. /\ k \in i .. n - 1 /\ k + 1 \in 1 .. n /\ k + 1 # i /\ k + 1 # i + 1 /\ k # 1 /\ k + 1 # 1
          /\ k - 1 \in i .. n - 1 /\ (k + 1) - 1 = k /\ (k - 1) + 1 = k
      BY <1>0, <2>3
    <3>2. s[k + 1] # e /\ s[k + 1] # nx[e]
      <4>1. nx[e] = NULL \/ (i + 1 \in 1 .. n /\ nx[e] = s[i + 1])
        BY <1>7 DEF At, n
      <4>. QED BY <1>0, <1>4, <3>1, <4>1 DEF e
    <3>3. pv2[s[k + 1]] = pv[s[k + 1]]
      BY <1>0, <1>8, <3>1, <3>2
    <3>4. pv[s[k + 1]] = back[s[k]]
      BY <1>2, <3>1
    <3>5. r[k - 1] = s[k] /\ r[k] = s[k + 1]
      BY <1>6, <3>1
    <3>. QED BY <3>1, <3>3, <3>4, <3>5
  <2>. QED BY <1>0, <2>1, <2>2, <2>3
<1>12. Line(first2, nx2, pv2, from, back, r)
  BY <1>1, <1>9, <1>10, <1>11 DEF Line
<1>13. Once(r)
  <2>1. ASSUME NEW k \in 1 .. n - 1, NEW j \in 1 .. n - 1, r[k] = r[j] PROVE k = j
    <3>1. (k \in 1 .. n /\ k < i /\ r[k] = s[k]) \/ (k + 1 \in 1 .. n /\ k >= i /\ r[k] = s[k + 1])
      BY <1>0, <1>6
    <3>2. (j \in 1 .. n /\ j < i /\ r[j] = s[j]) \/ (j + 1 \in 1 .. n /\ j >= i /\ r[j] = s[j + 1])
      BY <1>0, <1>6
    <3>3. CASE k < i /\ j < i
      BY <1>0, <1>4, <2>1, <3>1, <3>2, <3>3
    <3>4. CASE k >= i /\ j >= i
      <4>1. k + 1 = j + 1
        BY <1>0, <1>4, <2>1, <3>1, <3>2, <3>4
      <4>. QED BY <4>1
    <3>5. CASE k < i /\ j >= i
      <4>1. k = j + 1
        BY <1>0, <1>4, <2>1, <3>1, <3>2, <3>5
      <4>. QED BY <1>0, <3>5, <4>1
    <3>6. CASE k >= i /\ j < i
      <4>1. k + 1 = j
        BY <1>0, <1>4, <2>1, <3>1, <3>2, <3>6
      <4>. QED BY <1>0, <3>6, <4>1
    <3>. QED BY <1>0, <3>3, <3>4, <3>5, <3>6
  <2>. QED BY <1>1, <2>1 DEF Once
<1>. QED BY <1>12, <1>13
-----------------------------------------------------------------------------
(* One such list for each i of I, of the elements of K whose key it is.    *)
Lined(I, first, nx, pv, from, back, key, K, S) ==
  /\ S \in [I -> Seq(Tasks)]
  /\ \A i \in I : Once(S[i]) /\ Line(first[i], nx, pv, from[i], back, S[i])
  /\ \A i \in I : \A x : Has(S[i], x) <=> x \in K /\ key[x] = i
  /\ \A x \in K : x \in Tasks /\ key[x] \in I
Lines(I, first, nx, pv, from, back, key, K) == \E S : Lined(I, first, nx, pv, from, back, key, K, S)

(* The ways back differ.                                                   *)
Distinct(I, from, back) ==
  /\ \A i \in I, u \in Tasks : from[i] # back[u]
  /\ \A t, u \in Tasks : back[t] = back[u] => t = u

LEMMA LineFrame ==
  ASSUME NEW s, NEW first, NEW nx, NEW pv, NEW from, NEW back, Line(first, nx, pv, from, back, s),
         NEW nx2, NEW pv2, \A k \in 1 .. Len(s) : nx2[s[k]] = nx[s[k]] /\ pv2[s[k]] = pv[s[k]]
  PROVE  Line(first, nx2, pv2, from, back, s)
BY DEF Line

(* t comes to the front of list i.                                         *)
LEMMA LinesFront ==
  ASSUME NEW I, NEW first, NEW nx, NEW pv, NEW from, NEW back, NEW key, NEW K,
         Lines(I, first, nx, pv, from, back, key, K),
         NEW i \in I, NEW t \in Tasks, t \notin K, NEW first2, NEW nx2, NEW pv2, NEW key2,
         first2[i] = t, \A j \in I : j # i => first2[j] = first[j],
         FrontLinks(first[i], nx, pv, nx2, pv2, from[i], back, t),
         key2[t] = i, \A x \in K : key2[x] = key[x]
  PROVE  Lines(I, first2, nx2, pv2, from, back, key2, K \union {t})
<1>. PICK S : Lined(I, first, nx, pv, from, back, key, K, S)
  BY DEF Lines
<1>. DEFINE s == S[i]
            r == PutIn(s, 0, t)
            S2 == [S EXCEPT ![i] = r]
<1>1. /\ S \in [I -> Seq(Tasks)] /\ \A j \in I : S[j] \in Seq(Tasks)
      /\ \A j \in I : Once(S[j]) /\ Line(first[j], nx, pv, from[j], back, S[j])
      /\ \A j \in I : \A x : Has(S[j], x) <=> x \in K /\ key[x] = j
      /\ \A x \in K : x \in Tasks /\ key[x] \in I
  BY DEF Lined
<1>2. s \in Seq(Tasks) /\ ~Has(s, t) /\ Once(s) /\ Line(first[i], nx, pv, from[i], back, s)
  BY <1>1
<1>3. S2[i] = r /\ \A j \in I : j # i => S2[j] = S[j]
  BY <1>1
<1>. HIDE DEF s, S2
<1>4. r \in Seq(Tasks) /\ Inserts(s, 0, t, r)
  <2>1. 0 \in 0 .. Len(s)
    BY <1>2, LenProperties
  <2>. QED BY <1>2, <2>1, PutInInserts
<1>. HIDE DEF r
<1>5. Line(t, nx2, pv2, from[i], back, r) /\ Once(r)
  BY <1>2, <1>4, LineFront
<1>6. \A x : Has(r, x) <=> x = t \/ Has(s, x)
  BY <1>2, <1>4, InsertsHas
<1>7. ASSUME NEW j \in I, j # i PROVE Line(first[j], nx2, pv2, from[j], back, S[j])
  <2>1. ASSUME NEW k \in 1 .. Len(S[j]) PROVE nx2[S[j][k]] = nx[S[j][k]] /\ pv2[S[j][k]] = pv[S[j][k]]
    <3>. DEFINE x == S[j][k]
    <3>1. x \in K /\ key[x] = j
      BY <1>1 DEF Has
    <3>. HIDE DEF x
    <3>2. x \in Tasks /\ x # t
      BY <1>1, <3>1
    <3>3. x # first[i]
      <4>1. SUFFICES ASSUME x = first[i] PROVE FALSE
        OBVIOUS
      <4>2. first[i] = At(NULL, s, 1)
        BY <1>2 DEF Line
      <4>3. x # NULL
        BY <3>2, NoTask
      <4>4. Has(s, x)
        BY <4>1, <4>2, <4>3 DEF At, Has
      <4>. QED BY <1>1, <1>7, <3>1, <4>4 DEF s
    <3>4. nx2[x] = nx[x] /\ pv2[x] = pv[x]
      BY <3>2, <3>3 DEF FrontLinks
    <3>. QED BY <3>4 DEF x
  <2>. QED BY <1>1, <2>1, LineFrame
<1>8. ASSUME NEW j \in I
      PROVE  /\ S2[j] \in Seq(Tasks) /\ Once(S2[j]) /\ Line(first2[j], nx2, pv2, from[j], back, S2[j])
             /\ \A x : Has(S2[j], x) <=> x \in K \union {t} /\ key2[x] = j
  <2>1. CASE j = i
    BY <1>1, <1>3, <1>4, <1>5, <1>6, <2>1 DEF s
  <2>2. CASE j # i
    BY <1>1, <1>3, <1>7, <2>2
  <2>. QED BY <2>1, <2>2
<1>9. S2 \in [I -> Seq(Tasks)]
  BY <1>1, <1>4 DEF S2
<1>10. \A x \in K \union {t} : x \in Tasks /\ key2[x] \in I
  BY <1>1
<1>11. Lined(I, first2, nx2, pv2, from, back, key2, K \union {t}, S2)
  BY <1>8, <1>9, <1>10 DEF Lined
<1>. QED BY <1>11 DEF Lines

(* t is taken out of its list, by what points at it.                       *)
OutOf(first, nx, pv, from, back, key, t, first2, nx2) ==
  \/ pv[t] = from[key[t]] /\ first2[key[t]] = nx[t] /\ \A x \in Tasks : x # t => nx2[x] = nx[x]
  \/ \E u \in Tasks : /\ pv[t] = back[u] /\ first2[key[t]] = first[key[t]] /\ nx2[u] = nx[t]
                      /\ \A x \in Tasks : x \notin {t, u} => nx2[x] = nx[x]

LEMMA LinesOut ==
  ASSUME NEW I, NEW first, NEW nx, NEW pv, NEW from, NEW back, NEW key, NEW K, Distinct(I, from, back),
         Lines(I, first, nx, pv, from, back, key, K), NEW t \in K, NEW first2, NEW nx2, NEW pv2,
         OutOf(first, nx, pv, from, back, key, t, first2, nx2),
         \A j \in I : j # key[t] => first2[j] = first[j],
         nx[t] # NULL => pv2[nx[t]] = pv[t],
         \A x \in Tasks : x \notin {t, nx[t]} => pv2[x] = pv[x]
  PROVE  Lines(I, first2, nx2, pv2, from, back, key, K \ {t})
<1>. PICK S : Lined(I, first, nx, pv, from, back, key, K, S)
  BY DEF Lines
<1>. DEFINE i == key[t]
            s == S[i]
<1>1. /\ S \in [I -> Seq(Tasks)] /\ \A j \in I : S[j] \in Seq(Tasks)
      /\ \A j \in I : Once(S[j]) /\ Line(first[j], nx, pv, from[j], back, S[j])
      /\ \A j \in I : \A x : Has(S[j], x) <=> x \in K /\ key[x] = j
      /\ \A x \in K : x \in Tasks /\ key[x] \in I
  BY DEF Lined
<1>2. i \in I /\ s \in Seq(Tasks) /\ Once(s) /\ Line(first[i], nx, pv, from[i], back, s) /\ Has(s, t)
  BY <1>1
<1>3. PICK k \in 1 .. Len(s) : s[k] = t
  BY <1>2 DEF Has
<1>. DEFINE r == TakenOut(s, k)
            S2 == [S EXCEPT ![i] = r]
<1>4. S2[i] = r /\ \A j \in I : j # i => S2[j] = S[j]
  BY <1>1, <1>2
<1>. HIDE DEF s, S2
<1>5. r \in Seq(Tasks) /\ Removes(s, k, r)
  BY <1>2, TakenOutRemoves
<1>. HIDE DEF r
<1>6. Len(s) \in Nat /\ \A j \in 1 .. Len(s) : s[j] \in Tasks /\ s[j] # NULL /\ s[j] \in K /\ key[s[j]] = i
  <2>1. Len(s) \in Nat /\ \A j \in 1 .. Len(s) : s[j] \in Tasks
    BY <1>2, LenProperties, ElementOfSeq
  <2>2. \A j \in 1 .. Len(s) : s[j] \in K /\ key[s[j]] = i
    BY <1>1, <1>2 DEF Has, s
  <2>. QED BY <2>1, <2>2, NoTask
<1>7. nx[t] = At(NULL, s, k + 1) /\ pv[t] = IF k = 1 THEN from[i] ELSE back[s[k - 1]]
  BY <1>2, <1>3 DEF Line
<1>8. k # 1 => k - 1 \in 1 .. Len(s)
  BY <1>6
<1>9. nx[t] = NULL \/ (nx[t] \in K /\ key[nx[t]] = i)
  BY <1>6, <1>7 DEF At
<1>10. /\ k = 1 => first2[i] = nx[t] /\ \A x \in Tasks : x # t => nx2[x] = nx[x]
       /\ k # 1 => /\ first2[i] = first[i] /\ nx2[s[k - 1]] = nx[t]
                   /\ \A x \in Tasks : x \notin {t, s[k - 1]} => nx2[x] = nx[x]
  <2>1. CASE k = 1
    <3>1. pv[t] = from[i]
      BY <1>7, <2>1
    <3>2. \A u \in Tasks : pv[t] # back[u]
      BY <1>2, <3>1 DEF Distinct
    <3>. QED BY <2>1, <3>2 DEF OutOf
  <2>2. CASE k # 1
    <3>1. pv[t] = back[s[k - 1]] /\ s[k - 1] \in Tasks
      BY <1>6, <1>7, <1>8, <2>2
    <3>2. pv[t] # from[i] /\ \A u \in Tasks : pv[t] = back[u] => u = s[k - 1]
      BY <1>2, <3>1 DEF Distinct
    <3>. QED BY <2>2, <3>2 DEF OutOf
  <2>. QED BY <2>1, <2>2
<1>11. OutLinks(first[i], nx, pv, first2[i], nx2, pv2, s, k)
  BY <1>3, <1>10 DEF OutLinks
<1>12. Line(first2[i], nx2, pv2, from[i], back, r) /\ Once(r)
  BY <1>2, <1>5, <1>11, LineOut
<1>13. \A x : Has(r, x) <=> x # t /\ Has(s, x)
  BY <1>2, <1>3, <1>5, RemovesHas
<1>14. ASSUME NEW j \in I, j # i PROVE Line(first[j], nx2, pv2, from[j], back, S[j])
  <2>1. ASSUME NEW l \in 1 .. Len(S[j]) PROVE nx2[S[j][l]] = nx[S[j][l]] /\ pv2[S[j][l]] = pv[S[j][l]]
    <3>. DEFINE x == S[j][l]
    <3>1. x \in K /\ key[x] = j
      BY <1>1 DEF Has
    <3>. HIDE DEF x
    <3>2. x \in Tasks /\ x # t /\ x # NULL
      BY <1>1, <1>14, <3>1, NoTask
    <3>3. x # nx[t] /\ (k # 1 => x # s[k - 1])
      BY <1>6, <1>8, <1>9, <1>14, <3>1, <3>2
    <3>4. nx2[x] = nx[x] /\ pv2[x] = pv[x]
      BY <1>10, <3>2, <3>3
    <3>. QED BY <3>4 DEF x
  <2>. QED BY <1>1, <2>1, LineFrame
<1>15. ASSUME NEW j \in I
       PROVE  /\ S2[j] \in Seq(Tasks) /\ Once(S2[j]) /\ Line(first2[j], nx2, pv2, from[j], back, S2[j])
              /\ \A x : Has(S2[j], x) <=> x \in K \ {t} /\ key[x] = j
  <2>1. CASE j = i
    BY <1>1, <1>4, <1>5, <1>12, <1>13, <2>1 DEF s
  <2>2. CASE j # i
    <3>1. \A x : Has(S[j], x) <=> x \in K \ {t} /\ key[x] = j
      BY <1>1, <2>2
    <3>2. S2[j] = S[j] /\ first2[j] = first[j]
      BY <1>4, <2>2
    <3>. QED BY <1>1, <1>14, <2>2, <3>1, <3>2
  <2>. QED BY <2>1, <2>2
<1>16. S2 \in [I -> Seq(Tasks)]
  BY <1>1, <1>5 DEF S2
<1>17. \A x \in K \ {t} : x \in Tasks /\ key[x] \in I
  BY <1>1
<1>18. Lined(I, first2, nx2, pv2, from, back, key, K \ {t}, S2)
  BY <1>15, <1>16, <1>17 DEF Lined
<1>. QED BY <1>18 DEF Lines

(* Nothing about the lists changes for their elements.                     *)
LEMMA LinesSame ==
  ASSUME NEW I, NEW first, NEW nx, NEW pv, NEW from, NEW back, NEW key, NEW K,
         Lines(I, first, nx, pv, from, back, key, K),
         NEW first2, NEW nx2, NEW pv2, NEW key2, \A i \in I : first2[i] = first[i],
         \A x \in K : nx2[x] = nx[x] /\ pv2[x] = pv[x] /\ key2[x] = key[x]
  PROVE  Lines(I, first2, nx2, pv2, from, back, key2, K)
<1>. PICK S : Lined(I, first, nx, pv, from, back, key, K, S)
  BY DEF Lines
<1>1. /\ S \in [I -> Seq(Tasks)]
      /\ \A j \in I : Once(S[j]) /\ Line(first[j], nx, pv, from[j], back, S[j])
      /\ \A j \in I : \A x : Has(S[j], x) <=> x \in K /\ key[x] = j
      /\ \A x \in K : x \in Tasks /\ key[x] \in I
  BY DEF Lined
<1>2. ASSUME NEW j \in I PROVE Line(first[j], nx2, pv2, from[j], back, S[j])
  <2>1. ASSUME NEW k \in 1 .. Len(S[j]) PROVE nx2[S[j][k]] = nx[S[j][k]] /\ pv2[S[j][k]] = pv[S[j][k]]
    <3>1. S[j][k] \in K
      BY <1>1 DEF Has
    <3>. QED BY <3>1
  <2>. QED BY <1>1, <2>1, LineFrame
<1>3. Lined(I, first2, nx2, pv2, from, back, key2, K, S)
  <2>1. \A j \in I : Once(S[j]) /\ Line(first2[j], nx2, pv2, from[j], back, S[j])
    BY <1>1, <1>2
  <2>2. \A j \in I : \A x : Has(S[j], x) <=> x \in K /\ key2[x] = j
    BY <1>1
  <2>3. \A x \in K : x \in Tasks /\ key2[x] \in I
    BY <1>1
  <2>. QED BY <1>1, <2>1, <2>2, <2>3 DEF Lined
<1>. QED BY <1>3 DEF Lines

LEMMA LinesNone ==
  ASSUME NEW I, NEW first, \A i \in I : first[i] = NULL, NEW nx, NEW pv, NEW from, NEW back, NEW key
  PROVE  Lines(I, first, nx, pv, from, back, key, {})
<1>. DEFINE S == [i \in I |-> <<>>]
<1>1. S \in [I -> Seq(Tasks)] /\ \A i \in I : S[i] = <<>> /\ Len(S[i]) = 0
  OBVIOUS
<1>. HIDE DEF S
<1>2. \A i \in I : Once(S[i]) /\ Line(first[i], nx, pv, from[i], back, S[i])
  BY <1>1 DEF Once, Line, At
<1>3. \A i \in I : \A x : ~Has(S[i], x)
  BY <1>1 DEF Has
<1>4. Lined(I, first, nx, pv, from, back, key, {}, S)
  BY <1>1, <1>2, <1>3 DEF Lined
<1>. QED BY <1>4 DEF Lines

(* What the pointers of an element say.                                    *)
Among(K, key, i, x) == x \in K /\ key[x] = i
LineSays(first, nx, pv, from, back, key, K, i, t) ==
  /\ pv[t] = from[i] <=> first[i] = t
  /\ nx[t] # NULL => Among(K, key, i, nx[t]) /\ pv[nx[t]] = back[t]
  /\ pv[t] = from[i] \/ \E u \in Tasks : u # t /\ Among(K, key, i, u) /\ pv[t] = back[u] /\ nx[u] = t

LEMMA LinesSay ==
  ASSUME NEW I, NEW first, NEW nx, NEW pv, NEW from, NEW back, NEW key, NEW K, Distinct(I, from, back),
         Lines(I, first, nx, pv, from, back, key, K), NEW i \in I
  PROVE  /\ \A t : Among(K, key, i, t) => LineSays(first, nx, pv, from, back, key, K, i, t) /\ t \in Tasks
         /\ first[i] # NULL => Among(K, key, i, first[i]) /\ pv[first[i]] = from[i]
         /\ (\E t : Among(K, key, i, t)) => first[i] # NULL
<1>. PICK S : Lined(I, first, nx, pv, from, back, key, K, S)
  BY DEF Lines
<1>. DEFINE s == S[i]
<1>1. /\ s \in Seq(Tasks) /\ Once(s) /\ Line(first[i], nx, pv, from[i], back, s)
      /\ \A x : Has(s, x) <=> Among(K, key, i, x)
  BY DEF Lined, Among
<1>. HIDE DEF s
<1>2. Len(s) \in Nat /\ \A j \in 1 .. Len(s) : s[j] \in Tasks /\ s[j] # NULL /\ Among(K, key, i, s[j])
  <2>1. Len(s) \in Nat /\ \A j \in 1 .. Len(s) : s[j] \in Tasks
    BY <1>1, LenProperties, ElementOfSeq
  <2>2. \A j \in 1 .. Len(s) : Among(K, key, i, s[j])
    BY <1>1 DEF Has
  <2>. QED BY <2>1, <2>2, NoTask
<1>3. /\ first[i] = At(NULL, s, 1)
      /\ \A k \in 1 .. Len(s) : nx[s[k]] = At(NULL, s, k + 1) /\ pv[s[k]] = IF k = 1 THEN from[i] ELSE back[s[k - 1]]
  BY <1>1 DEF Line
<1>4. \A k, j \in 1 .. Len(s) : s[k] = s[j] => k = j
  BY <1>1 DEF Once
<1>5. ASSUME NEW t, Among(K, key, i, t) PROVE LineSays(first, nx, pv, from, back, key, K, i, t) /\ t \in Tasks
  <2>1. PICK k \in 1 .. Len(s) : s[k] = t
    BY <1>1, <1>5 DEF Has
  <2>2. 1 \in 1 .. Len(s) /\ first[i] = s[1]
    BY <1>2, <1>3, <2>1 DEF At
  <2>3. k # 1 => /\ k - 1 \in 1 .. Len(s) /\ s[k - 1] \in Tasks /\ s[k - 1] # t /\ pv[t] = back[s[k - 1]]
                 /\ Among(K, key, i, s[k - 1]) /\ nx[s[k - 1]] = t
    <3>1. ASSUME k # 1 PROVE k - 1 \in 1 .. Len(s) /\ (k - 1) + 1 = k /\ k - 1 # k
      BY <1>2, <3>1
    <3>2. ASSUME k # 1 PROVE nx[s[k - 1]] = t
      <4>1. nx[s[k - 1]] = At(NULL, s, (k - 1) + 1)
        BY <1>3, <3>1, <3>2
      <4>. QED BY <2>1, <3>1, <3>2, <4>1 DEF At
    <3>. QED BY <1>2, <1>3, <1>4, <2>1, <3>1, <3>2
  <2>4. k = 1 => pv[t] = from[i]
    BY <1>3, <2>1
  <2>5. pv[t] = from[i] <=> first[i] = t
    <3>1. ASSUME k # 1 PROVE pv[t] # from[i] /\ first[i] # t
      BY <1>4, <2>1, <2>2, <2>3, <3>1 DEF Distinct
    <3>. QED BY <2>1, <2>2, <2>4, <3>1
  <2>6. ASSUME nx[t] # NULL PROVE Among(K, key, i, nx[t]) /\ pv[nx[t]] = back[t]
    <3>1. nx[t] = At(NULL, s, k + 1)
      BY <1>3, <2>1
    <3>2. k + 1 \in 1 .. Len(s) /\ nx[t] = s[k + 1]
      BY <2>6, <3>1 DEF At
    <3>3. k + 1 # 1 /\ (k + 1) - 1 = k
      BY <1>2
    <3>4. pv[s[k + 1]] = back[s[(k + 1) - 1]]
      BY <1>3, <3>2, <3>3
    <3>. QED BY <1>2, <2>1, <3>2, <3>3, <3>4
  <2>7. pv[t] = from[i] \/ \E u \in Tasks : u # t /\ Among(K, key, i, u) /\ pv[t] = back[u] /\ nx[u] = t
    BY <2>3, <2>4
  <2>8. t \in Tasks
    BY <1>2, <2>1
  <2>. QED BY <2>5, <2>6, <2>7, <2>8 DEF LineSays
<1>6. ASSUME first[i] # NULL PROVE Among(K, key, i, first[i]) /\ pv[first[i]] = from[i]
  <2>1. 1 \in 1 .. Len(s) /\ first[i] = s[1]
    BY <1>3, <1>6 DEF At
  <2>. QED BY <1>2, <1>3, <2>1
<1>7. ASSUME NEW t, Among(K, key, i, t) PROVE first[i] # NULL
  <2>1. PICK k \in 1 .. Len(s) : s[k] = t
    BY <1>1, <1>7 DEF Has
  <2>2. 1 \in 1 .. Len(s) /\ first[i] = s[1]
    BY <1>2, <1>3, <2>1 DEF At
  <2>. QED BY <1>2, <2>2
<1>. QED BY <1>5, <1>6, <1>7
-----------------------------------------------------------------------------
(* The ring of the tasks in K, with the first task as its head.            *)
RingOf(nx, pv, K, s) ==
  /\ s \in Seq(Tasks) /\ Once(s) /\ Chain(nx, pv, init_task, s)
  /\ \A x : Has(s, x) <=> x \in K
Ring(nx, pv, K) == \E s : RingOf(nx, pv, K, s)

LEMMA RingEnds ==
  ASSUME NEW nx, NEW pv, NEW K, NEW s, RingOf(nx, pv, K, s)
  PROVE  /\ Len(s) \in Nat /\ (\A i \in 1 .. Len(s) : At(init_task, s, i) = s[i] /\ s[i] \in K /\ s[i] \in Tasks)
         /\ At(init_task, s, 0) = init_task /\ At(init_task, s, Len(s) + 1) = init_task
         /\ \A i \in 0 .. Len(s) : /\ nx[At(init_task, s, i)] = At(init_task, s, i + 1)
                                   /\ pv[At(init_task, s, i + 1)] = At(init_task, s, i)
<1>1. s \in Seq(Tasks) /\ Once(s) /\ Chain(nx, pv, init_task, s) /\ \A x : Has(s, x) <=> x \in K
  BY DEF RingOf
<1>2. Len(s) \in Nat /\ \A i \in 1 .. Len(s) : s[i] \in Tasks
  BY <1>1, LenProperties, ElementOfSeq
<1>3. \A i \in 1 .. Len(s) : s[i] \in K
  BY <1>1 DEF Has
<1>. QED BY <1>1, <1>2, <1>3 DEF At, Chain

(* What the pointers of a task in the ring say.                            *)
LEMMA RingSays ==
  ASSUME NEW nx, NEW pv, NEW K, Ring(nx, pv, K), NEW t \in K \union {init_task}
  PROVE  /\ nx[t] \in K \union {init_task} /\ pv[t] \in K \union {init_task}
         /\ pv[nx[t]] = t /\ nx[pv[t]] = t
<1>. PICK s : RingOf(nx, pv, K, s)
  BY DEF Ring
<1>. DEFINE n == Len(s)
            a(i) == At(init_task, s, i)
<1>1. /\ n \in Nat /\ (\A i \in 1 .. n : a(i) = s[i] /\ s[i] \in K)
      /\ a(0) = init_task /\ a(n + 1) = init_task
      /\ \A i \in 0 .. n : nx[a(i)] = a(i + 1) /\ pv[a(i + 1)] = a(i)
  BY RingEnds
<1>2. \A x : Has(s, x) <=> x \in K
  BY DEF RingOf
<1>. HIDE DEF a
<1>3. \A i \in 0 .. n + 1 : a(i) \in K \union {init_task}
  BY <1>1
<1>4. PICK i \in 0 .. n : t = a(i)
  <2>1. CASE t = init_task
    BY <1>1, <2>1
  <2>2. CASE t \in K
    <3>1. PICK i \in 1 .. n : s[i] = t
      BY <1>2, <2>2 DEF Has
    <3>. QED BY <1>1, <3>1
  <2>. QED BY <2>1, <2>2
<1>5. nx[t] = a(i + 1) /\ pv[a(i + 1)] = t /\ i + 1 \in 0 .. n + 1
  BY <1>1, <1>4
<1>6. PICK j \in 0 .. n : t = a(j + 1)
  <2>1. CASE i = 0
    BY <1>1, <1>4, <2>1
  <2>2. CASE i # 0
    <3>1. i - 1 \in 0 .. n /\ (i - 1) + 1 = i
      BY <1>1, <2>2
    <3>. QED BY <1>4, <3>1
  <2>. QED BY <2>1, <2>2
<1>7. pv[t] = a(j) /\ nx[a(j)] = t /\ j \in 0 .. n + 1
  BY <1>1, <1>6
<1>. QED BY <1>3, <1>5, <1>7

(* One more at the end.                                                    *)
LEMMA RingAdd ==
  ASSUME NEW nx, NEW pv, NEW K, Ring(nx, pv, K), NEW t \in Tasks, t \notin K, NEW nx2, NEW pv2,
         LinksIn(Tasks \union {init_task}, nx, pv, nx2, pv2, pv[init_task], init_task, t)
  PROVE  Ring(nx2, pv2, K \union {t})
<1>. PICK s : RingOf(nx, pv, K, s)
  BY DEF Ring
<1>. DEFINE n == Len(s)
            r == PutIn(s, n, t)
<1>1. s \in Seq(Tasks) /\ Once(s) /\ Chain(nx, pv, init_task, s) /\ \A x : Has(s, x) <=> x \in K
  BY DEF RingOf
<1>2. n \in Nat /\ n \in 0 .. n /\ At(init_task, s, n + 1) = init_task /\ At(init_task, s, n) = pv[init_task]
  BY RingEnds
<1>3. r \in Seq(Tasks) /\ Inserts(s, n, t, r)
  BY <1>1, <1>2, PutInInserts
<1>. HIDE DEF n, r
<1>4. ListOf(Tasks, init_task, s) /\ ~Has(s, t)
  BY <1>1, NoTask DEF ListOf
<1>5. LinksIn(Tasks \union {init_task}, nx, pv, nx2, pv2, At(init_task, s, n), At(init_task, s, n + 1), t)
  BY <1>2
<1>6. Chain(nx2, pv2, init_task, r) /\ Once(r)
  <2>1. /\ ListOf(Tasks, init_task, s) /\ r \in Seq(Tasks) /\ t \in Tasks /\ ~Has(s, t) /\ Inserts(s, n, t, r)
        /\ Chain(nx, pv, init_task, s)
        /\ LinksIn(Tasks \union {init_task}, nx, pv, nx2, pv2, At(init_task, s, n), At(init_task, s, n + 1), t)
    BY <1>1, <1>3, <1>4, <1>5
  <2>. QED BY ONLY <2>1, ChainInsert
<1>7. \A x : Has(r, x) <=> x = t \/ Has(s, x)
  BY <1>1, <1>3, InsertsHas
<1>8. RingOf(nx2, pv2, K \union {t}, r)
  BY <1>1, <1>3, <1>6, <1>7 DEF RingOf
<1>. QED BY <1>8 DEF Ring

(* One less.                                                               *)
LEMMA RingOut ==
  ASSUME NEW nx, NEW pv, NEW K, Ring(nx, pv, K), NEW t \in K, NEW nx2, NEW pv2,
         LinksOut(Tasks \union {init_task}, nx, pv, nx2, pv2, pv[t], nx[t], t)
  PROVE  Ring(nx2, pv2, K \ {t})
<1>. PICK s : RingOf(nx, pv, K, s)
  BY DEF Ring
<1>1. s \in Seq(Tasks) /\ Once(s) /\ Chain(nx, pv, init_task, s) /\ \A x : Has(s, x) <=> x \in K
  BY DEF RingOf
<1>2. PICK i \in 1 .. Len(s) : s[i] = t
  BY <1>1 DEF Has
<1>. DEFINE n == Len(s)
            r == TakenOut(s, i)
<1>3. n \in Nat /\ i \in 0 .. n /\ At(init_task, s, i) = t /\ i - 1 \in 0 .. n /\ (i - 1) + 1 = i
  BY <1>2, RingEnds
<1>4. nx[t] = At(init_task, s, i + 1) /\ pv[t] = At(init_task, s, i - 1)
  <2>1. \A k \in 0 .. n : /\ nx[At(init_task, s, k)] = At(init_task, s, k + 1)
                          /\ pv[At(init_task, s, k + 1)] = At(init_task, s, k)
    BY RingEnds
  <2>2. pv[At(init_task, s, (i - 1) + 1)] = At(init_task, s, i - 1)
    BY <1>3, <2>1
  <2>. QED BY <1>3, <2>1, <2>2
<1>5. r \in Seq(Tasks) /\ Removes(s, i, r)
  BY <1>1, TakenOutRemoves
<1>. HIDE DEF n, r
<1>6. Chain(nx2, pv2, init_task, r) /\ Once(r)
  <2>1. /\ ListOf(Tasks, init_task, s) /\ r \in Seq(Tasks) /\ Removes(s, i, r) /\ Chain(nx, pv, init_task, s)
        /\ LinksOut(Tasks \union {init_task}, nx, pv, nx2, pv2, At(init_task, s, i - 1), At(init_task, s, i + 1), s[i])
    BY <1>1, <1>2, <1>4, <1>5, NoTask DEF ListOf
  <2>. QED BY ONLY <2>1, ChainRemove
<1>7. \A x : Has(r, x) <=> x # t /\ Has(s, x)
  BY <1>1, <1>2, <1>5, RemovesHas
<1>8. RingOf(nx2, pv2, K \ {t}, r)
  BY <1>1, <1>5, <1>6, <1>7 DEF RingOf
<1>. QED BY <1>8 DEF Ring

(* Nothing about the ring changes.                                         *)
LEMMA RingSame ==
  ASSUME NEW nx, NEW pv, NEW K, Ring(nx, pv, K), NEW nx2, NEW pv2,
         \A x \in K \union {init_task} : nx2[x] = nx[x] /\ pv2[x] = pv[x]
  PROVE  Ring(nx2, pv2, K)
<1>. PICK s : RingOf(nx, pv, K, s)
  BY DEF Ring
<1>1. /\ Len(s) \in Nat /\ \A i \in 1 .. Len(s) : At(init_task, s, i) = s[i] /\ s[i] \in K
      /\ At(init_task, s, 0) = init_task
  BY RingEnds
<1>2. \A i \in 0 .. Len(s) : LET x == At(init_task, s, i) IN nx2[x] = nx[x] /\ pv2[x] = pv[x]
  <2>1. \A i \in 0 .. Len(s) : i = 0 \/ i \in 1 .. Len(s)
    BY <1>1
  <2>. QED BY <1>1, <2>1
<1>3. Chain(nx, pv, init_task, s)
  BY DEF RingOf
<1>4. Chain(nx2, pv2, init_task, s)
  BY <1>1, <1>2, <1>3, ChainFrame
<1>5. RingOf(nx2, pv2, K, s)
  BY <1>4 DEF RingOf
<1>. QED BY <1>5 DEF Ring

LEMMA RingNone ==
  ASSUME NEW nx, NEW pv, nx[init_task] = init_task, pv[init_task] = init_task
  PROVE  Ring(nx, pv, {})
<1>1. <<>> \in Seq(Tasks) /\ Len(<<>>) = 0
  OBVIOUS
<1>2. Once(<<>>) /\ (\A x : ~Has(<<>>, x)) /\ \A i : At(init_task, <<>>, i) = init_task
  BY <1>1 DEF Once, Has, At
<1>3. Chain(nx, pv, init_task, <<>>)
  BY <1>2 DEF Chain
<1>4. RingOf(nx, pv, {}, <<>>)
  BY <1>1, <1>2, <1>3 DEF RingOf
<1>. QED BY <1>4 DEF Ring
-----------------------------------------------------------------------------
(* The links of a task are six pointers, each to a task or to nothing.     *)
All == Tasks \union {init_task}
Pointers == [All -> All \union {NULL}]
LinkNames == {"next", "prev", "pptr", "cptr", "ysptr", "osptr"}
Links == [next : Pointers, prev : Pointers, pptr : Pointers, cptr : Pointers, ysptr : Pointers, osptr : Pointers]

LEMMA AllTasks == Task!All = All /\ NULL \notin All /\ init_task \in All /\ Tasks \subseteq All /\ \A t \in Tasks : t # init_task
BY NoTask DEF Task!All, All

LEMMA LinksRecord ==
  ASSUME NEW m, m = [f \in LinkNames |-> m[f]], \A f \in LinkNames : m[f] \in Pointers
  PROVE  m \in Links
<1>1. m = [next |-> m.next, prev |-> m.prev, pptr |-> m.pptr, cptr |-> m.cptr, ysptr |-> m.ysptr, osptr |-> m.osptr]
  BY DEF LinkNames
<1>2. m.next \in Pointers /\ m.prev \in Pointers /\ m.pptr \in Pointers /\ m.cptr \in Pointers /\ m.ysptr \in Pointers /\ m.osptr \in Pointers
  BY DEF LinkNames
<1>. QED BY ONLY <1>1, <1>2 DEF Links

LEMMA LinksTyped ==
  ASSUME NEW k \in Links
  PROVE  /\ DOMAIN k = LinkNames /\ \A f \in LinkNames : k[f] \in Pointers
         /\ k.next \in Pointers /\ k.prev \in Pointers /\ k.pptr \in Pointers
         /\ k.cptr \in Pointers /\ k.ysptr \in Pointers /\ k.osptr \in Pointers
BY DEF Links, LinkNames

LEMMA PointersPut ==
  ASSUME NEW g \in Pointers, NEW x \in All, NEW v \in All \union {NULL}
  PROVE  [g EXCEPT ![x] = v] \in Pointers /\ [g EXCEPT ![x] = v][x] = v /\ \A y \in All : y # x => [g EXCEPT ![x] = v][y] = g[y]
BY DEF Pointers

LEMMA PointersIf ==
  ASSUME NEW g \in Pointers, NEW x \in All \union {NULL}, NEW v \in All \union {NULL}
  PROVE  /\ Task!If(g, x, v) \in Pointers
         /\ x # NULL => Task!If(g, x, v)[x] = v
         /\ \A y \in All : y # x => Task!If(g, x, v)[y] = g[y]
<1>1. CASE x = NULL
  BY <1>1, AllTasks DEF Task!If
<1>2. CASE x # NULL
  <2>. DEFINE h == [g EXCEPT ![x] = v]
  <2>1. x \in All /\ Task!If(g, x, v) = h
    BY <1>2 DEF Task!If
  <2>2. h \in Pointers /\ h[x] = v /\ \A y \in All : y # x => h[y] = g[y]
    BY <2>1 DEF Pointers
  <2>. HIDE DEF h
  <2>. QED BY <2>1, <2>2
<1>. QED BY <1>1, <1>2

(* The copy of p's links to t.                                             *)
LEMMA LinksCopied ==
  ASSUME NEW k \in Links, NEW t \in All, NEW p \in All
  PROVE  LET m == [f \in DOMAIN k |-> [k[f] EXCEPT ![t] = k[f][p]]]
         IN  m \in Links /\ \A f \in LinkNames : \A x \in All : x # t => m[f][x] = k[f][x]
<1>. DEFINE m == [f \in DOMAIN k |-> [k[f] EXCEPT ![t] = k[f][p]]]
<1>1. DOMAIN k = LinkNames /\ \A f \in LinkNames : k[f] \in Pointers
  BY LinksTyped
<1>2. m = [f \in LinkNames |-> m[f]]
  BY <1>1
<1>3. ASSUME NEW f \in LinkNames PROVE m[f] \in Pointers /\ \A x \in All : x # t => m[f][x] = k[f][x]
  <2>. DEFINE g == k[f]
              v == g[p]
  <2>1. m[f] = [g EXCEPT ![t] = v] /\ g \in Pointers
    BY <1>1
  <2>2. v \in All \union {NULL}
    BY <2>1 DEF Pointers
  <2>. HIDE DEF g, v, m
  <2>3. [g EXCEPT ![t] = v] \in Pointers /\ \A y \in All : y # t => [g EXCEPT ![t] = v][y] = g[y]
    BY <2>1, <2>2, PointersPut
  <2>. QED BY <2>1, <2>3 DEF g
<1>4. m \in Links
  <2>. HIDE DEF m
  <2>. QED BY <1>2, <1>3, LinksRecord
<1>. HIDE DEF m
<1>5. m \in Links /\ \A f \in LinkNames : \A x \in All : x # t => m[f][x] = k[f][x]
  BY <1>3, <1>4
<1>. QED BY <1>5 DEF m

(* What SET_LINKS does to each of them.                                    *)
LinksSet(k, m, p) ==
  /\ LinksIn(All, k.next, k.prev, m.next, m.prev, k.prev[init_task], init_task, p)
  /\ m.pptr = k.pptr
  /\ FrontLinks(k.cptr[k.pptr[p]], k.osptr, k.ysptr, m.osptr, m.ysptr, NULL, [t \in Tasks |-> t], p)
  /\ m.cptr[k.pptr[p]] = p /\ \A x \in All : x # k.pptr[p] => m.cptr[x] = k.cptr[x]

LEMMA SetLinks ==
  ASSUME NEW k \in Links, NEW p \in Tasks, k.pptr[p] \in All, k.prev[init_task] \in All, k.prev[init_task] # p,
         k.cptr[k.pptr[p]] # p, k.cptr[k.pptr[p]] \in Tasks \union {NULL}
  PROVE  Task!SET_LINKS(k, p) \in Links /\ LinksSet(k, Task!SET_LINKS(k, p), p)
<1>. DEFINE last == k.prev[init_task]
            father == k.pptr[p]
            older == k.cptr[father]
            nx1 == [k.next EXCEPT ![p] = init_task]
            nx == [nx1 EXCEPT ![last] = p]
            pv1 == [k.prev EXCEPT ![p] = last]
            pv == [pv1 EXCEPT ![init_task] = p]
            ys1 == Task!If(k.ysptr, older, p)
            ys == [ys1 EXCEPT ![p] = NULL]
            os == [k.osptr EXCEPT ![p] = older]
            cs == [k.cptr EXCEPT ![father] = p]
            m == Task!SET_LINKS(k, p)
<1>0. /\ k.next \in Pointers /\ k.prev \in Pointers /\ k.pptr \in Pointers
      /\ k.cptr \in Pointers /\ k.ysptr \in Pointers /\ k.osptr \in Pointers
      /\ p \in All /\ last \in All /\ father \in All /\ older \in All \union {NULL} /\ init_task \in All /\ p # init_task
      /\ last # p /\ older # p /\ NULL \notin All
  BY LinksTyped, AllTasks
<1>1. m = [k EXCEPT !.next = nx, !.prev = pv, !.ysptr = ys, !.osptr = os, !.cptr = cs]
  BY DEF Task!SET_LINKS
<1>. HIDE DEF last, father, older, m, ys1
<1>2. nx1 \in Pointers /\ nx1[p] = init_task /\ \A x \in All : x # p => nx1[x] = k.next[x]
  BY <1>0, PointersPut
<1>3. pv1 \in Pointers /\ pv1[p] = last /\ \A x \in All : x # p => pv1[x] = k.prev[x]
  BY <1>0, PointersPut
<1>4. ys1 \in Pointers /\ (older # NULL => ys1[older] = p) /\ \A x \in All : x # older => ys1[x] = k.ysptr[x]
  <2>. DEFINE g == k.ysptr
  <2>1. g \in Pointers /\ older \in All \union {NULL} /\ p \in All \union {NULL} /\ ys1 = Task!If(g, older, p)
    BY <1>0 DEF ys1
  <2>. HIDE DEF g
  <2>2. /\ Task!If(g, older, p) \in Pointers
        /\ older # NULL => Task!If(g, older, p)[older] = p
        /\ \A y \in All : y # older => Task!If(g, older, p)[y] = g[y]
    BY ONLY <2>1, PointersIf
  <2>. QED BY <2>1, <2>2 DEF g
<1>. HIDE DEF nx1, pv1
<1>5. nx \in Pointers /\ nx[last] = p /\ \A x \in All : x # last => nx[x] = nx1[x]
  BY <1>0, <1>2, PointersPut
<1>6. pv \in Pointers /\ pv[init_task] = p /\ \A x \in All : x # init_task => pv[x] = pv1[x]
  BY <1>0, <1>3, PointersPut
<1>7. ys \in Pointers /\ ys[p] = NULL /\ \A x \in All : x # p => ys[x] = ys1[x]
  BY <1>0, <1>4, PointersPut
<1>8. os \in Pointers /\ os[p] = older /\ \A x \in All : x # p => os[x] = k.osptr[x]
  BY <1>0, PointersPut
<1>9. cs \in Pointers /\ cs[father] = p /\ \A x \in All : x # father => cs[x] = k.cptr[x]
  BY <1>0, PointersPut
<1>. HIDE DEF nx, pv, ys, os, cs
<1>10. m \in Links /\ m.next = nx /\ m.prev = pv /\ m.pptr = k.pptr /\ m.ysptr = ys /\ m.osptr = os /\ m.cptr = cs
  BY <1>1, <1>5, <1>6, <1>7, <1>8, <1>9 DEF Links
<1>11. LinksIn(All, k.next, k.prev, m.next, m.prev, last, init_task, p)
  BY <1>0, <1>2, <1>3, <1>5, <1>6, <1>10 DEF LinksIn
<1>12. FrontLinks(older, k.osptr, k.ysptr, m.osptr, m.ysptr, NULL, [t \in Tasks |-> t], p)
  BY <1>0, <1>4, <1>7, <1>8, <1>10 DEF FrontLinks, All
<1>. QED BY <1>9, <1>10, <1>11, <1>12 DEF LinksSet, m, last, father, older

(* What REMOVE_LINKS does to each of them.                                 *)
LinksRemoved(k, m, p) ==
  /\ LinksOut(All, k.next, k.prev, m.next, m.prev, k.prev[p], k.next[p], p)
  /\ m.pptr = k.pptr
  /\ k.osptr[p] # NULL => m.ysptr[k.osptr[p]] = k.ysptr[p]
  /\ \A x \in All : x # k.osptr[p] => m.ysptr[x] = k.ysptr[x]
  /\ k.ysptr[p] # NULL => m.osptr[k.ysptr[p]] = k.osptr[p] /\ m.cptr = k.cptr
  /\ \A x \in All : x # k.ysptr[p] => m.osptr[x] = k.osptr[x]
  /\ k.ysptr[p] = NULL => m.cptr[k.pptr[p]] = k.osptr[p]
  /\ \A x \in All : x # k.pptr[p] => m.cptr[x] = k.cptr[x]

LEMMA RemoveLinks ==
  ASSUME NEW k \in Links, NEW p \in Tasks, k.next[p] \in All, k.prev[p] \in All, k.pptr[p] \in All
  PROVE  Task!REMOVE_LINKS(k, p) \in Links /\ LinksRemoved(k, Task!REMOVE_LINKS(k, p), p)
<1>. DEFINE after == k.next[p]
            before == k.prev[p]
            father == k.pptr[p]
            older == k.osptr[p]
            younger == k.ysptr[p]
            pv == [k.prev EXCEPT ![after] = before]
            nx == [k.next EXCEPT ![before] = after]
            ys == Task!If(k.ysptr, older, younger)
            os == Task!If(k.osptr, younger, older)
            cs1 == [k.cptr EXCEPT ![father] = older]
            cs == IF younger = NULL THEN cs1 ELSE k.cptr
            m == Task!REMOVE_LINKS(k, p)
<1>0. /\ k.next \in Pointers /\ k.prev \in Pointers /\ k.pptr \in Pointers
      /\ k.cptr \in Pointers /\ k.ysptr \in Pointers /\ k.osptr \in Pointers
      /\ p \in All /\ after \in All /\ before \in All /\ father \in All
      /\ older \in All \union {NULL} /\ younger \in All \union {NULL}
  <2>1. /\ k.next \in Pointers /\ k.prev \in Pointers /\ k.pptr \in Pointers
        /\ k.cptr \in Pointers /\ k.ysptr \in Pointers /\ k.osptr \in Pointers
        /\ p \in All
    BY LinksTyped, AllTasks
  <2>. QED BY <2>1 DEF Pointers
<1>1. m = [k EXCEPT !.prev = pv, !.next = nx, !.ysptr = ys, !.osptr = os, !.cptr = cs]
  BY DEF Task!REMOVE_LINKS
<1>. HIDE DEF after, before, father, older, younger, m, ys, os
<1>2. nx \in Pointers /\ nx[before] = after /\ \A x \in All : x # before => nx[x] = k.next[x]
  BY <1>0, PointersPut
<1>3. pv \in Pointers /\ pv[after] = before /\ \A x \in All : x # after => pv[x] = k.prev[x]
  BY <1>0, PointersPut
<1>4. ys \in Pointers /\ (older # NULL => ys[older] = younger) /\ \A x \in All : x # older => ys[x] = k.ysptr[x]
  <2>. DEFINE g == k.ysptr
  <2>1. g \in Pointers /\ older \in All \union {NULL} /\ younger \in All \union {NULL} /\ ys = Task!If(g, older, younger)
    BY <1>0 DEF ys
  <2>. HIDE DEF g
  <2>2. /\ Task!If(g, older, younger) \in Pointers
        /\ older # NULL => Task!If(g, older, younger)[older] = younger
        /\ \A y \in All : y # older => Task!If(g, older, younger)[y] = g[y]
    BY ONLY <2>1, PointersIf
  <2>. QED BY <2>1, <2>2 DEF g
<1>5. os \in Pointers /\ (younger # NULL => os[younger] = older) /\ \A x \in All : x # younger => os[x] = k.osptr[x]
  <2>. DEFINE g == k.osptr
  <2>1. g \in Pointers /\ younger \in All \union {NULL} /\ older \in All \union {NULL} /\ os = Task!If(g, younger, older)
    BY <1>0 DEF os
  <2>. HIDE DEF g
  <2>2. /\ Task!If(g, younger, older) \in Pointers
        /\ younger # NULL => Task!If(g, younger, older)[younger] = older
        /\ \A y \in All : y # younger => Task!If(g, younger, older)[y] = g[y]
    BY ONLY <2>1, PointersIf
  <2>. QED BY <2>1, <2>2 DEF g
<1>6. cs1 \in Pointers /\ cs1[father] = older /\ \A x \in All : x # father => cs1[x] = k.cptr[x]
  BY <1>0, PointersPut
<1>. HIDE DEF nx, pv, cs1
<1>7. /\ cs \in Pointers /\ (younger = NULL => cs[father] = older) /\ (younger # NULL => cs = k.cptr)
      /\ \A x \in All : x # father => cs[x] = k.cptr[x]
  BY <1>0, <1>6
<1>. HIDE DEF cs
<1>8. m \in Links /\ m.next = nx /\ m.prev = pv /\ m.pptr = k.pptr /\ m.ysptr = ys /\ m.osptr = os /\ m.cptr = cs
  BY <1>1, <1>2, <1>3, <1>4, <1>5, <1>7 DEF Links
<1>9. LinksOut(All, k.next, k.prev, m.next, m.prev, before, after, p)
  BY <1>0, <1>2, <1>3, <1>8 DEF LinksOut
<1>10. /\ older # NULL => m.ysptr[older] = younger
       /\ \A x \in All : x # older => m.ysptr[x] = k.ysptr[x]
       /\ younger # NULL => m.osptr[younger] = older /\ m.cptr = k.cptr
       /\ \A x \in All : x # younger => m.osptr[x] = k.osptr[x]
       /\ younger = NULL => m.cptr[father] = older
       /\ \A x \in All : x # father => m.cptr[x] = k.cptr[x]
  BY <1>4, <1>5, <1>7, <1>8
<1>. QED BY <1>8, <1>9, <1>10 DEF LinksRemoved, m, after, before, father, older, younger
-----------------------------------------------------------------------------
(* The links of the tasks in K: they are in the ring, and each is among    *)
(* the children of its parent.                                             *)
Self == [t \in Tasks |-> t]
None == [p \in All |-> NULL]
Kin(k, K) == Lines(All, k.cptr, k.osptr, k.ysptr, None, Self, k.pptr, K)
Related(k, K) == k \in Links /\ K \subseteq Tasks /\ Ring(k.next, k.prev, K) /\ Kin(k, K)
Parents(k, K) == \A x \in K : k.pptr[x] \in K \union {init_task}

LEMMA SelfDistinct == Distinct(All, None, Self)
BY AllTasks DEF Distinct, None, Self

(* A parent's youngest child, if there is one, is a child of it.           *)
LEMMA Youngest ==
  ASSUME NEW k, NEW K, Related(k, K), NEW p \in All
  PROVE  k.cptr[p] # NULL => k.cptr[p] \in K /\ k.pptr[k.cptr[p]] = p
<1>. DEFINE first == k.cptr
            nx == k.osptr
            pv == k.ysptr
            key == k.pptr
<1>1. Lines(All, first, nx, pv, None, Self, key, K)
  BY DEF Related, Kin
<1>. HIDE DEF first, nx, pv, key
<1>2. Distinct(All, None, Self) /\ Lines(All, first, nx, pv, None, Self, key, K) /\ p \in All
  BY <1>1, SelfDistinct
<1>3. first[p] # NULL => Among(K, key, p, first[p]) /\ pv[first[p]] = None[p]
  BY ONLY <1>2, LinesSay
<1>. QED BY <1>3 DEF Among, first, key

LEMMA Adding ==
  ASSUME NEW k, NEW K, Related(k, K), NEW t \in Tasks, t \notin K, k.pptr[t] \in K \union {init_task}
  PROVE  Related(Task!SET_LINKS(k, t), K \union {t})
<1>. DEFINE m == Task!SET_LINKS(k, t)
            father == k.pptr[t]
            older == k.cptr[father]
<1>1. k \in Links /\ K \subseteq Tasks /\ father \in All /\ t \in All /\ t # init_task
  BY AllTasks DEF Related
<1>2. k.prev[init_task] \in K \union {init_task}
  <2>1. Ring(k.next, k.prev, K) /\ init_task \in K \union {init_task}
    BY DEF Related
  <2>. QED BY ONLY <2>1, RingSays
<1>3. older # t /\ older \in Tasks \union {NULL}
  <2>1. older # NULL => older \in K
    BY <1>1, Youngest
  <2>2. t # NULL
    BY NoTask
  <2>. QED BY <1>1, <2>1, <2>2
<1>4. m \in Links /\ LinksSet(k, m, t)
  <2>1. /\ k \in Links /\ t \in Tasks /\ k.pptr[t] \in All /\ k.prev[init_task] \in All /\ k.prev[init_task] # t
        /\ k.cptr[k.pptr[t]] # t /\ k.cptr[k.pptr[t]] \in Tasks \union {NULL}
    BY <1>1, <1>2, <1>3, AllTasks
  <2>. QED BY ONLY <2>1, SetLinks
<1>. HIDE DEF m
<1>5. Ring(m.next, m.prev, K \union {t})
  <2>1. /\ Ring(k.next, k.prev, K) /\ t \in Tasks /\ t \notin K
        /\ LinksIn(Tasks \union {init_task}, k.next, k.prev, m.next, m.prev, k.prev[init_task], init_task, t)
    BY <1>4 DEF Related, LinksSet, All
  <2>. QED BY ONLY <2>1, RingAdd
<1>6. Kin(m, K \union {t})
  <2>. DEFINE first == k.cptr
              nx == k.osptr
              pv == k.ysptr
              key == k.pptr
              first2 == m.cptr
              nx2 == m.osptr
              pv2 == m.ysptr
              key2 == m.pptr
  <2>1. /\ FrontLinks(first[father], nx, pv, nx2, pv2, NULL, Self, t)
        /\ first2[father] = t /\ \A j \in All : j # father => first2[j] = first[j]
    BY <1>4 DEF LinksSet, Self
  <2>2. NULL = None[father]
    BY <1>1 DEF None
  <2>3. key2[t] = father /\ \A x \in K : key2[x] = key[x]
    BY <1>4 DEF LinksSet
  <2>4. Lines(All, first, nx, pv, None, Self, key, K)
    BY DEF Related, Kin
  <2>. HIDE DEF first, nx, pv, key, first2, nx2, pv2, key2, father
  <2>5. /\ Lines(All, first, nx, pv, None, Self, key, K) /\ father \in All /\ t \in Tasks /\ t \notin K
        /\ first2[father] = t /\ (\A j \in All : j # father => first2[j] = first[j])
        /\ FrontLinks(first[father], nx, pv, nx2, pv2, None[father], Self, t)
        /\ key2[t] = father /\ \A x \in K : key2[x] = key[x]
    BY <1>1, <2>1, <2>2, <2>3, <2>4
  <2>6. Lines(All, first2, nx2, pv2, None, Self, key2, K \union {t})
    BY ONLY <2>5, LinesFront
  <2>. QED BY <2>6 DEF Kin, first2, nx2, pv2, key2
<1>7. Related(m, K \union {t})
  BY <1>1, <1>4, <1>5, <1>6 DEF Related
<1>. QED BY <1>7 DEF m

LEMMA Removing ==
  ASSUME NEW k, NEW K, Related(k, K), NEW t \in K
  PROVE  Related(Task!REMOVE_LINKS(k, t), K \ {t}) /\ Task!REMOVE_LINKS(k, t).pptr = k.pptr
<1>. DEFINE m == Task!REMOVE_LINKS(k, t)
<1>1. k \in Links /\ K \subseteq Tasks /\ t \in Tasks /\ t \in All
  BY AllTasks DEF Related
<1>2. k.next[t] \in K \union {init_task} /\ k.prev[t] \in K \union {init_task}
  <2>1. Ring(k.next, k.prev, K) /\ t \in K \union {init_task}
    BY DEF Related
  <2>. QED BY ONLY <2>1, RingSays
<1>. DEFINE first == k.cptr
            nx == k.osptr
            pv == k.ysptr
            key == k.pptr
            father == key[t]
<1>3. Lines(All, first, nx, pv, None, Self, key, K)
  BY DEF Related, Kin
<1>4. father \in All
  <2>. HIDE DEF first, nx, pv, key
  <2>. QED BY <1>3 DEF Lines, Lined
<1>5. m \in Links /\ LinksRemoved(k, m, t)
  <2>1. k \in Links /\ t \in Tasks /\ k.next[t] \in All /\ k.prev[t] \in All /\ k.pptr[t] \in All
    BY <1>1, <1>2, <1>4, AllTasks
  <2>. QED BY ONLY <2>1, RemoveLinks
<1>. HIDE DEF m
<1>6. Ring(m.next, m.prev, K \ {t})
  <2>1. /\ Ring(k.next, k.prev, K) /\ t \in K
        /\ LinksOut(Tasks \union {init_task}, k.next, k.prev, m.next, m.prev, k.prev[t], k.next[t], t)
    BY <1>5 DEF Related, LinksRemoved, All
  <2>. QED BY ONLY <2>1, RingOut
<1>. DEFINE first2 == m.cptr
            nx2 == m.osptr
            pv2 == m.ysptr
<1>7. /\ nx[t] # NULL => pv2[nx[t]] = pv[t]
      /\ \A x \in All : x # nx[t] => pv2[x] = pv[x]
      /\ pv[t] # NULL => nx2[pv[t]] = nx[t] /\ first2 = first
      /\ \A x \in All : x # pv[t] => nx2[x] = nx[x]
      /\ pv[t] = NULL => first2[father] = nx[t]
      /\ \A x \in All : x # father => first2[x] = first[x]
      /\ m.pptr = key
  BY <1>5 DEF LinksRemoved
<1>. HIDE DEF first, nx, pv, key, first2, nx2, pv2, father
<1>8. None[father] = NULL /\ \A u \in Tasks : Self[u] = u /\ u # NULL
  BY <1>4, NoTask DEF None, Self
<1>9. pv[t] = NULL \/ pv[t] \in Tasks
  <2>1. Distinct(All, None, Self) /\ Lines(All, first, nx, pv, None, Self, key, K) /\ father \in All
    BY <1>3, <1>4, SelfDistinct
  <2>2. Among(K, key, father, t)
    BY DEF Among, father
  <2>3. LineSays(first, nx, pv, None, Self, key, K, father, t)
    BY ONLY <2>1, <2>2, LinesSay
  <2>4. pv[t] = None[father] \/ \E u \in Tasks : pv[t] = Self[u]
    BY <2>3 DEF LineSays
  <2>. QED BY <1>8, <2>4
<1>10. OutOf(first, nx, pv, None, Self, key, t, first2, nx2)
  <2>1. CASE pv[t] = NULL
    <3>1. pv[t] = None[father] /\ first2[father] = nx[t] /\ \A x \in Tasks : x # t => nx2[x] = nx[x]
      BY <1>7, <1>8, <2>1, AllTasks
    <3>. QED BY <3>1 DEF OutOf, father
  <2>2. CASE pv[t] # NULL
    <3>1. pv[t] \in Tasks /\ pv[t] = Self[pv[t]] /\ first2[father] = first[father] /\ nx2[pv[t]] = nx[t]
          /\ \A x \in Tasks : x \notin {t, pv[t]} => nx2[x] = nx[x]
      BY <1>7, <1>8, <1>9, <2>2, AllTasks
    <3>. QED BY <3>1 DEF OutOf, father
  <2>. QED BY <2>1, <2>2
<1>11. Lines(All, first2, nx2, pv2, None, Self, key, K \ {t})
  <2>1. /\ Distinct(All, None, Self) /\ Lines(All, first, nx, pv, None, Self, key, K) /\ t \in K
        /\ OutOf(first, nx, pv, None, Self, key, t, first2, nx2)
        /\ (\A j \in All : j # key[t] => first2[j] = first[j])
        /\ (nx[t] # NULL => pv2[nx[t]] = pv[t])
        /\ \A x \in Tasks : x \notin {t, nx[t]} => pv2[x] = pv[x]
    BY <1>3, <1>7, <1>10, SelfDistinct, AllTasks DEF father
  <2>. QED BY ONLY <2>1, LinesOut
<1>12. Kin(m, K \ {t})
  BY <1>7, <1>11 DEF Kin, first2, nx2, pv2, key
<1>13. m.pptr = k.pptr
  BY <1>7 DEF key
<1>14. Related(m, K \ {t})
  BY <1>1, <1>5, <1>6, <1>12 DEF Related
<1>. QED BY <1>13, <1>14 DEF m

(* Links that are the same for the tasks in K and the first one.           *)
LEMMA Unmoved ==
  ASSUME NEW k, NEW K, Related(k, K), NEW m \in Links,
         \A x \in K \union {init_task} : m.next[x] = k.next[x] /\ m.prev[x] = k.prev[x],
         \A x \in K : m.osptr[x] = k.osptr[x] /\ m.ysptr[x] = k.ysptr[x] /\ m.pptr[x] = k.pptr[x],
         \A x \in All : m.cptr[x] = k.cptr[x]
  PROVE  Related(m, K)
<1>1. Ring(m.next, m.prev, K)
  <2>1. Ring(k.next, k.prev, K) /\ \A x \in K \union {init_task} : m.next[x] = k.next[x] /\ m.prev[x] = k.prev[x]
    BY DEF Related
  <2>. QED BY ONLY <2>1, RingSame
<1>2. Kin(m, K)
  <2>1. /\ Lines(All, k.cptr, k.osptr, k.ysptr, None, Self, k.pptr, K)
        /\ \A x \in All : m.cptr[x] = k.cptr[x]
        /\ \A x \in K : m.osptr[x] = k.osptr[x] /\ m.ysptr[x] = k.ysptr[x] /\ m.pptr[x] = k.pptr[x]
    BY DEF Related, Kin
  <2>2. Lines(All, m.cptr, m.osptr, m.ysptr, None, Self, m.pptr, K)
    BY ONLY <2>1, LinesSame
  <2>. QED BY <2>2 DEF Kin
<1>. QED BY <1>1, <1>2 DEF Related
-----------------------------------------------------------------------------
(* The pid hash of the tasks in K.                                         *)
InBucket == [i \in Task!Buckets |-> Task!Bucket(i)]
InTasks == [t \in Tasks |-> Task!InTask(t)]
Ways == {NULL} \union {InBucket[i] : i \in Task!Buckets} \union {InTasks[t] : t \in Tasks}
Hashes(pid) == [t \in Tasks |-> Task!pid_hashfn(pid[t])]
Hashed(first, nx, pv, pid, K) ==
  /\ first \in [Task!Buckets -> All \union {NULL}] /\ nx \in Pointers /\ pv \in [All -> Ways]
  /\ Lines(Task!Buckets, first, nx, pv, InBucket, InTasks, Hashes(pid), K)

LEMMA WaysBack ==
  /\ Distinct(Task!Buckets, InBucket, InTasks)
  /\ \A i \in Task!Buckets : InBucket[i] = Task!Bucket(i) /\ InBucket[i] \in Ways /\ InBucket[i][1] = "bucket" /\ InBucket[i][2] = i
  /\ \A t \in Tasks : InTasks[t] = Task!InTask(t) /\ InTasks[t] \in Ways /\ InTasks[t][1] # "bucket" /\ InTasks[t][2] = t
<1>1. \A i \in Task!Buckets : InBucket[i] = Task!Bucket(i) /\ InBucket[i] \in Ways
  BY DEF InBucket, Ways
<1>2. \A t \in Tasks : InTasks[t] = Task!InTask(t) /\ InTasks[t] \in Ways
  BY DEF InTasks, Ways
<1>3. \A i : Task!Bucket(i)[1] = "bucket" /\ Task!Bucket(i)[2] = i
  BY DEF Task!Bucket
<1>4. \A t : Task!InTask(t)[1] = "task" /\ Task!InTask(t)[2] = t
  BY DEF Task!InTask
<1>5. "task" # "bucket"
  OBVIOUS
<1>6. /\ \A i \in Task!Buckets : InBucket[i][1] = "bucket" /\ InBucket[i][2] = i
      /\ \A t \in Tasks : InTasks[t][1] = "task" /\ InTasks[t][2] = t
  BY <1>1, <1>2, <1>3, <1>4
<1>7. Distinct(Task!Buckets, InBucket, InTasks)
  <2>1. \A i \in Task!Buckets, u \in Tasks : InBucket[i] # InTasks[u]
    BY <1>5, <1>6
  <2>2. \A t, u \in Tasks : InTasks[t] = InTasks[u] => t = u
    BY <1>6
  <2>. QED BY <2>1, <2>2 DEF Distinct
<1>. QED BY <1>1, <1>2, <1>5, <1>6, <1>7

LEMMA Hashing == \A x : Task!pid_hashfn(x) \in Task!Buckets
BY DEF Task!pid_hashfn, Task!Buckets

LEMMA Bucketed == \A pid : \A t \in Tasks : Hashes(pid)[t] = Task!pid_hashfn(pid[t]) /\ Hashes(pid)[t] \in Task!Buckets
BY Hashing DEF Hashes

(* Functions that change in one place, or in none.                         *)
LEMMA PutOne ==
  ASSUME NEW A, NEW B, NEW g \in [A -> B], NEW x \in A, NEW v \in B
  PROVE  [g EXCEPT ![x] = v] \in [A -> B] /\ [g EXCEPT ![x] = v][x] = v /\ \A y \in A : y # x => [g EXCEPT ![x] = v][y] = g[y]
OBVIOUS

LEMMA PutIf ==
  ASSUME NEW g \in [All -> Ways], NEW x \in All \union {NULL}, NEW v \in Ways
  PROVE  /\ Task!If(g, x, v) \in [All -> Ways]
         /\ x # NULL => Task!If(g, x, v)[x] = v
         /\ \A y \in All : y # x => Task!If(g, x, v)[y] = g[y]
<1>1. CASE x = NULL
  BY <1>1, AllTasks DEF Task!If
<1>2. CASE x # NULL
  <2>. DEFINE h == [g EXCEPT ![x] = v]
  <2>1. x \in All /\ Task!If(g, x, v) = h
    BY <1>2 DEF Task!If
  <2>2. h \in [All -> Ways] /\ h[x] = v /\ \A y \in All : y # x => h[y] = g[y]
    BY <2>1
  <2>. HIDE DEF h
  <2>. QED BY <2>1, <2>2
<1>. QED BY <1>1, <1>2

(* The first of a bucket, if there is one, is hashed there.                *)
LEMMA FirstHashed ==
  ASSUME NEW first, NEW nx, NEW pv, NEW pid, NEW K, Hashed(first, nx, pv, pid, K), NEW i \in Task!Buckets
  PROVE  first[i] # NULL => first[i] \in K /\ first[i] \in Tasks
<1>. DEFINE key == Hashes(pid)
<1>1. Lines(Task!Buckets, first, nx, pv, InBucket, InTasks, key, K)
  BY DEF Hashed
<1>. HIDE DEF key
<1>2. Distinct(Task!Buckets, InBucket, InTasks) /\ Lines(Task!Buckets, first, nx, pv, InBucket, InTasks, key, K) /\ i \in Task!Buckets
  BY <1>1, WaysBack
<1>3. /\ first[i] # NULL => Among(K, key, i, first[i]) /\ pv[first[i]] = InBucket[i]
      /\ \A t : Among(K, key, i, t) => LineSays(first, nx, pv, InBucket, InTasks, key, K, i, t) /\ t \in Tasks
  BY ONLY <1>2, LinesSay
<1>. QED BY <1>3 DEF Among

LEMMA HashAdd ==
  ASSUME NEW K, Hashed(thash, thash_next, thash_pprev, tpid, K), NEW t \in Tasks, t \notin K,
         \A x \in Tasks : x # t => tpid'[x] = tpid[x], Task!hash_pid(t), K \subseteq Tasks
  PROVE  Hashed(thash', thash_next', thash_pprev', tpid', K \union {t})
<1>. DEFINE i == Task!pid_hashfn(tpid'[t])
            first == thash
            nx == thash_next
            pv == thash_pprev
            head == thash[i]
            pv1 == Task!If(pv, head, Task!InTask(t))
            way == InBucket[i]
<1>1. i \in Task!Buckets /\ t \in All /\ NULL \notin All /\ InTasks[t] = Task!InTask(t) /\ InTasks[t] \in Ways
      /\ way = Task!Bucket(i) /\ way \in Ways
  BY AllTasks, Hashing, WaysBack
<1>2. first \in [Task!Buckets -> All \union {NULL}] /\ nx \in Pointers /\ pv \in [All -> Ways]
      /\ Lines(Task!Buckets, first, nx, pv, InBucket, InTasks, Hashes(tpid), K)
  BY DEF Hashed
<1>3. head \in All \union {NULL} /\ head # t /\ (head # NULL => head \in Tasks)
  <2>1. head # NULL => head \in K /\ head \in Tasks
    BY <1>1, FirstHashed
  <2>. HIDE DEF i
  <2>. QED BY <1>1, <1>2, <2>1
<1>4. /\ thash_next' = [nx EXCEPT ![t] = head]
      /\ thash_pprev' = [pv1 EXCEPT ![t] = way]
      /\ thash' = [first EXCEPT ![i] = t]
  BY <1>1 DEF Task!hash_pid
<1>. HIDE DEF i, head, way, pv1
<1>5. thash' \in [Task!Buckets -> All \union {NULL}] /\ thash'[i] = t /\ \A j \in Task!Buckets : j # i => thash'[j] = first[j]
  BY <1>1, <1>2, <1>4
<1>6. thash_next' \in Pointers /\ thash_next'[t] = head /\ \A x \in All : x # t => thash_next'[x] = nx[x]
  BY <1>1, <1>2, <1>3, <1>4 DEF Pointers
<1>7. pv1 \in [All -> Ways] /\ (head # NULL => pv1[head] = InTasks[t]) /\ \A x \in All : x # head => pv1[x] = pv[x]
  <2>1. pv \in [All -> Ways] /\ head \in All \union {NULL} /\ InTasks[t] \in Ways /\ pv1 = Task!If(pv, head, InTasks[t])
    BY <1>1, <1>2, <1>3 DEF pv1
  <2>. DEFINE v == InTasks[t]
  <2>. HIDE DEF v
  <2>2. /\ Task!If(pv, head, v) \in [All -> Ways]
        /\ head # NULL => Task!If(pv, head, v)[head] = v
        /\ \A y \in All : y # head => Task!If(pv, head, v)[y] = pv[y]
    <3>1. pv \in [All -> Ways] /\ head \in All \union {NULL} /\ v \in Ways
      BY <2>1 DEF v
    <3>. QED BY ONLY <3>1, PutIf
  <2>. QED BY <2>1, <2>2 DEF v
<1>8. thash_pprev' \in [All -> Ways] /\ thash_pprev'[t] = way /\ \A x \in All : x # t => thash_pprev'[x] = pv1[x]
  BY <1>1, <1>4, <1>7
<1>9. FrontLinks(first[i], nx, pv, thash_next', thash_pprev', InBucket[i], InTasks, t)
  <2>1. first[i] = head
    BY DEF head
  <2>2. InBucket[i] = way
    BY DEF way
  <2>. HIDE DEF first, nx, pv
  <2>. QED BY <1>3, <1>6, <1>7, <1>8, <2>1, <2>2, AllTasks DEF FrontLinks
<1>. DEFINE key == Hashes(tpid)
            key2 == Hashes(tpid')
            first2 == thash'
            nx2 == thash_next'
            pv2 == thash_pprev'
<1>10. key2[t] = i /\ \A x \in K : key2[x] = key[x]
  BY Bucketed DEF i
<1>11. Lines(Task!Buckets, first2, nx2, pv2, InBucket, InTasks, key2, K \union {t})
  <2>. HIDE DEF first, nx, pv, first2, nx2, pv2, key, key2
  <2>1. /\ Lines(Task!Buckets, first, nx, pv, InBucket, InTasks, key, K) /\ i \in Task!Buckets /\ t \in Tasks /\ t \notin K
        /\ first2[i] = t /\ (\A j \in Task!Buckets : j # i => first2[j] = first[j])
        /\ FrontLinks(first[i], nx, pv, nx2, pv2, InBucket[i], InTasks, t)
        /\ key2[t] = i /\ \A x \in K : key2[x] = key[x]
    BY <1>1, <1>2, <1>5, <1>9, <1>10 DEF key, first2, nx2, pv2
  <2>. QED BY ONLY <2>1, LinesFront
<1>. QED BY <1>5, <1>6, <1>8, <1>11 DEF Hashed

LEMMA HashOut ==
  ASSUME NEW K, Hashed(thash, thash_next, thash_pprev, tpid, K), NEW t \in K, Task!unhash_pid(t), tpid' = tpid, K \subseteq Tasks
  PROVE  Hashed(thash', thash_next', thash_pprev', tpid', K \ {t})
<1>. DEFINE first == thash
            nx == thash_next
            pv == thash_pprev
            key == Hashes(tpid)
            i == key[t]
            at == pv[t]
            older == nx[t]
<1>1. t \in Tasks /\ t \in All /\ i \in Task!Buckets /\ NULL \notin All
  BY AllTasks, Bucketed
<1>2. first \in [Task!Buckets -> All \union {NULL}] /\ nx \in Pointers /\ pv \in [All -> Ways]
      /\ Lines(Task!Buckets, first, nx, pv, InBucket, InTasks, key, K)
  BY DEF Hashed
<1>3. at \in Ways /\ older \in All \union {NULL}
  BY <1>1, <1>2 DEF Pointers
<1>4. at = InBucket[i] \/ \E u \in Tasks : u # t /\ at = InTasks[u]
  <2>. HIDE DEF first, nx, pv, key
  <2>1. Distinct(Task!Buckets, InBucket, InTasks) /\ Lines(Task!Buckets, first, nx, pv, InBucket, InTasks, key, K) /\ i \in Task!Buckets
        /\ Among(K, key, i, t)
    BY <1>1, <1>2, WaysBack DEF Among
  <2>2. LineSays(first, nx, pv, InBucket, InTasks, key, K, i, t)
    BY ONLY <2>1, LinesSay
  <2>. QED BY <2>2 DEF LineSays
<1>5. /\ thash_pprev' = Task!If(pv, older, at)
      /\ IF at[1] = "bucket" THEN thash' = [first EXCEPT ![at[2]] = older] /\ thash_next' = nx
         ELSE thash_next' = [nx EXCEPT ![at[2]] = older] /\ thash' = first
  BY DEF Task!unhash_pid
<1>. DEFINE first2 == thash'
            nx2 == thash_next'
            pv2 == thash_pprev'
<1>. HIDE DEF i, at, older
<1>6. /\ pv2 \in [All -> Ways] /\ (older # NULL => pv2[older] = at)
      /\ \A x \in All : x # older => pv2[x] = pv[x]
  <2>1. pv \in [All -> Ways] /\ older \in All \union {NULL} /\ at \in Ways
    BY <1>2, <1>3
  <2>2. /\ Task!If(pv, older, at) \in [All -> Ways]
        /\ older # NULL => Task!If(pv, older, at)[older] = at
        /\ \A y \in All : y # older => Task!If(pv, older, at)[y] = pv[y]
    BY ONLY <2>1, PutIf
  <2>. QED BY <1>5, <2>2
<1>7. /\ first2 \in [Task!Buckets -> All \union {NULL}] /\ nx2 \in Pointers
      /\ \A j \in Task!Buckets : j # i => first2[j] = first[j]
      /\ OutOf(first, nx, pv, InBucket, InTasks, key, t, first2, nx2)
  <2>1. CASE at = InBucket[i]
    <3>1. thash' = [first EXCEPT ![i] = older] /\ thash_next' = nx
      BY <1>1, <1>5, <2>1, WaysBack
    <3>2. first2 \in [Task!Buckets -> All \union {NULL}] /\ first2[i] = older /\ \A j \in Task!Buckets : j # i => first2[j] = first[j]
      BY <1>1, <1>2, <1>3, <3>1
    <3>3. nx2 \in Pointers /\ nx2 = nx
      BY <1>2, <3>1
    <3>. HIDE DEF first, nx, pv, key, first2, nx2
    <3>4. pv[t] = InBucket[key[t]] /\ first2[key[t]] = nx[t] /\ \A x \in Tasks : x # t => nx2[x] = nx[x]
      BY <2>1, <3>2, <3>3 DEF at, i, older
    <3>. QED BY <3>2, <3>3, <3>4 DEF OutOf
  <2>2. ASSUME NEW u \in Tasks, u # t, at = InTasks[u]
        PROVE  /\ first2 \in [Task!Buckets -> All \union {NULL}] /\ nx2 \in Pointers
               /\ \A j \in Task!Buckets : j # i => first2[j] = first[j]
               /\ OutOf(first, nx, pv, InBucket, InTasks, key, t, first2, nx2)
    <3>1. thash_next' = [nx EXCEPT ![u] = older] /\ thash' = first
      BY <1>5, <2>2, WaysBack
    <3>2. nx2 \in Pointers /\ nx2[u] = older /\ \A x \in All : x # u => nx2[x] = nx[x]
      BY <1>2, <1>3, <3>1, AllTasks DEF Pointers
    <3>3. first2 \in [Task!Buckets -> All \union {NULL}] /\ first2 = first
      BY <1>2, <3>1
    <3>. HIDE DEF first, nx, pv, key, first2, nx2
    <3>4. /\ pv[t] = InTasks[u] /\ first2[key[t]] = first[key[t]] /\ nx2[u] = nx[t]
          /\ \A x \in Tasks : x \notin {t, u} => nx2[x] = nx[x]
      BY <2>2, <3>2, <3>3, AllTasks DEF at, older
    <3>. QED BY <3>2, <3>3, <3>4 DEF OutOf
  <2>. HIDE DEF first, nx, pv, key, first2, nx2
  <2>. QED BY <1>4, <2>1, <2>2
<1>8. Lines(Task!Buckets, first2, nx2, pv2, InBucket, InTasks, key, K \ {t})
  <2>. HIDE DEF first, nx, pv, first2, nx2, pv2, key
  <2>1. /\ Distinct(Task!Buckets, InBucket, InTasks) /\ Lines(Task!Buckets, first, nx, pv, InBucket, InTasks, key, K) /\ t \in K
        /\ OutOf(first, nx, pv, InBucket, InTasks, key, t, first2, nx2)
        /\ (\A j \in Task!Buckets : j # key[t] => first2[j] = first[j])
        /\ (nx[t] # NULL => pv2[nx[t]] = pv[t])
        /\ \A x \in Tasks : x \notin {t, nx[t]} => pv2[x] = pv[x]
    BY <1>2, <1>6, <1>7, WaysBack, AllTasks DEF at, older, i
  <2>. QED BY ONLY <2>1, LinesOut
<1>. QED BY <1>6, <1>7, <1>8 DEF Hashed

LEMMA HashSame ==
  ASSUME NEW first, NEW nx, NEW pv, NEW pid, NEW K, Hashed(first, nx, pv, pid, K), NEW pid2, \A x \in K : pid2[x] = pid[x], K \subseteq Tasks
  PROVE  Hashed(first, nx, pv, pid2, K)
<1>. DEFINE key == Hashes(pid)
            key2 == Hashes(pid2)
<1>1. \A x \in K : key2[x] = key[x]
  BY DEF Hashes
<1>2. Lines(Task!Buckets, first, nx, pv, InBucket, InTasks, key, K)
  BY DEF Hashed
<1>. HIDE DEF key, key2
<1>3. Lines(Task!Buckets, first, nx, pv, InBucket, InTasks, key2, K)
  BY <1>1, <1>2, LinesSame
<1>. QED BY <1>3 DEF Hashed, key2
-----------------------------------------------------------------------------
(* The tasks there are, linked to one another and hashed by their pids.    *)
Members == {t \in Tasks : tstate[t] # "free"}
TaskInv ==
  /\ tstate \in [All -> {"free", "live", "zombie"}] /\ tstate[init_task] = "live"
  /\ tpid \in [All -> Pids \union {{}}]
  /\ Related(tlink, Members) /\ Parents(tlink, Members)
  /\ Hashed(thash, thash_next, thash_pprev, tpid, Members)

LEMMA TaskInit ==
  ASSUME Task!Init
  PROVE  TaskInv
<1>. DEFINE self == [t \in All |-> IF t = init_task THEN t ELSE NULL]
            none == [t \in All |-> NULL]
            link == [next |-> self, prev |-> self, pptr |-> self, cptr |-> none, ysptr |-> none, osptr |-> none]
<1>1. /\ tstate = [t \in All |-> IF t = init_task THEN "live" ELSE "free"] /\ tpid = [t \in All |-> {}]
      /\ tlink = link /\ thash = [i \in Task!Buckets |-> NULL] /\ thash_next = none /\ thash_pprev = none
  BY AllTasks DEF Task!Init
<1>2. tstate \in [All -> {"free", "live", "zombie"}] /\ tstate[init_task] = "live" /\ Members = {}
  BY <1>1, AllTasks DEF Members
<1>3. tpid \in [All -> Pids \union {{}}]
  BY <1>1
<1>4. self \in Pointers /\ none \in Pointers /\ self[init_task] = init_task /\ \A p \in All : none[p] = NULL
  BY AllTasks DEF Pointers
<1>5. none \in [All -> Ways]
  BY DEF Ways
<1>. HIDE DEF self, none
<1>6. link \in Links
  BY <1>4 DEF Links
<1>7. Ring(link.next, link.prev, {})
  <2>1. link.next = self /\ link.prev = self
    OBVIOUS
  <2>. HIDE DEF link
  <2>. QED BY <1>4, <2>1, RingNone
<1>8. Kin(link, {})
  <2>1. link.cptr = none
    OBVIOUS
  <2>. HIDE DEF link
  <2>2. \A p \in All : link.cptr[p] = NULL
    BY <1>4, <2>1
  <2>. DEFINE first == link.cptr
              nx == link.osptr
              pv == link.ysptr
              key == link.pptr
  <2>3. \A p \in All : first[p] = NULL
    BY <2>2
  <2>. HIDE DEF first, nx, pv, key
  <2>4. Lines(All, first, nx, pv, None, Self, key, {})
    BY <2>3, LinesNone
  <2>. QED BY <2>4 DEF Kin, first, nx, pv, key
<1>. HIDE DEF link
<1>9. Related(link, {}) /\ Parents(link, {})
  BY <1>6, <1>7, <1>8 DEF Related, Parents
<1>10. Hashed(thash, thash_next, thash_pprev, tpid, {})
  <2>. DEFINE first == thash
              nx == thash_next
              pv == thash_pprev
              key == Hashes(tpid)
  <2>1. \A i \in Task!Buckets : first[i] = NULL
    BY <1>1
  <2>2. Lines(Task!Buckets, first, nx, pv, InBucket, InTasks, key, {})
    <3>. HIDE DEF first, nx, pv, key
    <3>. QED BY <2>1, LinesNone
  <2>3. first \in [Task!Buckets -> All \union {NULL}] /\ nx \in Pointers /\ pv \in [All -> Ways]
    BY <1>1, <1>4, <1>5
  <2>. QED BY <2>2, <2>3 DEF Hashed
<1>. QED BY <1>1, <1>2, <1>3, <1>9, <1>10 DEF TaskInv

LEMMA MembersAre ==
  ASSUME TaskInv
  PROVE  Members \subseteq Tasks /\ Task!Known = Members \union {init_task} /\ Members = Task!Known \ {init_task}
BY AllTasks DEF TaskInv, Members, Task!Known, All

(* fork: the copy changes nothing for the others, and nobody has the free  *)
(* task as its parent.                                                     *)
LEMMA ForkKeeps ==
  ASSUME TaskInv, NEW p \in All, NEW t \in Tasks, NEW x \in Pids, Task!Fork(p, t, x)
  PROVE  TaskInv'
<1>. DEFINE K == Members
            k == tlink
            c == [f \in DOMAIN k |-> [k[f] EXCEPT ![t] = k[f][p]]]
            pp == [c.pptr EXCEPT ![t] = p]
            cc == [c.cptr EXCEPT ![t] = NULL]
            m == [c EXCEPT !.pptr = pp, !.cptr = cc]
<1>0. /\ tstate \in [All -> {"free", "live", "zombie"}] /\ tstate[init_task] = "live" /\ tpid \in [All -> Pids \union {{}}]
      /\ Related(k, K) /\ Parents(k, K) /\ Hashed(thash, thash_next, thash_pprev, tpid, K) /\ k \in Links /\ K \subseteq Tasks
  BY DEF TaskInv, Related
<1>1. /\ tstate[p] = "live" /\ tstate[t] = "free"
      /\ tstate' = [tstate EXCEPT ![t] = "live"] /\ tpid' = [tpid EXCEPT ![t] = x]
      /\ tlink' = Task!SET_LINKS(m, t) /\ Task!hash_pid(t)
  BY DEF Task!Fork
<1>2. t \in All /\ t # init_task /\ t # p /\ t \notin K /\ p \in K \union {init_task}
  BY <1>1, AllTasks DEF Members, All
<1>3. K' = K \union {t}
  BY <1>0, <1>1, <1>2, AllTasks DEF Members
<1>4. c \in Links /\ \A f \in LinkNames : \A y \in All : y # t => c[f][y] = k[f][y]
  BY <1>0, <1>2, LinksCopied
<1>. HIDE DEF c
<1>5. /\ c.pptr \in Pointers /\ c.cptr \in Pointers
      /\ \A y \in All : y # t => /\ c.next[y] = k.next[y] /\ c.prev[y] = k.prev[y] /\ c.pptr[y] = k.pptr[y]
                                 /\ c.cptr[y] = k.cptr[y] /\ c.ysptr[y] = k.ysptr[y] /\ c.osptr[y] = k.osptr[y]
  BY <1>0, <1>4 DEF Links, LinkNames
<1>6. pp \in Pointers /\ pp[t] = p /\ \A y \in All : y # t => pp[y] = c.pptr[y]
  BY <1>2, <1>5 DEF Pointers
<1>7. cc \in Pointers /\ cc[t] = NULL /\ \A y \in All : y # t => cc[y] = c.cptr[y]
  BY <1>2, <1>5 DEF Pointers
<1>. HIDE DEF pp, cc
<1>8. /\ m \in Links /\ m.next = c.next /\ m.prev = c.prev /\ m.ysptr = c.ysptr /\ m.osptr = c.osptr
      /\ m.pptr = pp /\ m.cptr = cc
  BY <1>4, <1>6, <1>7 DEF Links
<1>. HIDE DEF m, K
<1>9. k.cptr[t] = NULL
  <2>1. k.cptr[t] # NULL => k.cptr[t] \in K /\ k.pptr[k.cptr[t]] = t
    BY <1>0, <1>2, Youngest
  <2>. QED BY <1>0, <1>2, <2>1 DEF Parents
<1>10. \A y \in K \union {init_task} : y \in All /\ y # t
  BY <1>0, <1>2, AllTasks
<1>11. Related(m, K)
  <2>1. /\ \A y \in K \union {init_task} : m.next[y] = k.next[y] /\ m.prev[y] = k.prev[y]
        /\ \A y \in K : m.osptr[y] = k.osptr[y] /\ m.ysptr[y] = k.ysptr[y] /\ m.pptr[y] = k.pptr[y]
        /\ \A y \in All : m.cptr[y] = k.cptr[y]
    BY <1>5, <1>6, <1>7, <1>8, <1>9, <1>10
  <2>. QED BY <1>0, <1>8, <2>1, Unmoved
<1>12. Related(tlink', K \union {t})
  <2>1. Related(m, K) /\ t \in Tasks /\ t \notin K /\ m.pptr[t] \in K \union {init_task}
    BY <1>2, <1>6, <1>8, <1>11
  <2>2. Related(Task!SET_LINKS(m, t), K \union {t})
    BY ONLY <2>1, Adding
  <2>. QED BY <1>1, <2>2
<1>13. Parents(tlink', K \union {t})
  <2>1. tlink'.pptr = m.pptr
    BY <1>1, <1>8 DEF Task!SET_LINKS, Links
  <2>2. \A y \in K : m.pptr[y] = k.pptr[y]
    BY <1>5, <1>6, <1>8, <1>10
  <2>. QED BY <1>0, <1>2, <1>6, <1>8, <2>1, <2>2 DEF Parents
<1>14. Hashed(thash', thash_next', thash_pprev', tpid', K \union {t})
  <2>1. \A y \in Tasks : y # t => tpid'[y] = tpid[y]
    BY <1>0, <1>1, AllTasks
  <2>. QED BY <1>0, <1>1, <1>2, <2>1, HashAdd
<1>15. tstate' \in [All -> {"free", "live", "zombie"}] /\ tstate'[init_task] = "live" /\ tpid' \in [All -> Pids \union {{}}]
  BY <1>0, <1>1, <1>2
<1>16. Members' = K \union {t}
  BY <1>3 DEF K
<1>. QED BY <1>12, <1>13, <1>14, <1>15, <1>16 DEF TaskInv

(* exit changes the state alone.                                           *)
LEMMA ExitKeeps ==
  ASSUME TaskInv, NEW t \in Tasks, Task!Exit(t)
  PROVE  TaskInv'
<1>1. /\ tstate[t] = "live" /\ tstate' = [tstate EXCEPT ![t] = "zombie"]
      /\ tpid' = tpid /\ tlink' = tlink /\ thash' = thash /\ thash_next' = thash_next /\ thash_pprev' = thash_pprev
  BY DEF Task!Exit
<1>2. tstate \in [All -> {"free", "live", "zombie"}] /\ tstate[init_task] = "live" /\ t \in All /\ t # init_task
  BY AllTasks DEF TaskInv
<1>3. Members' = Members
  BY <1>1, <1>2, AllTasks DEF Members
<1>4. tstate' \in [All -> {"free", "live", "zombie"}] /\ tstate'[init_task] = "live"
  BY <1>1, <1>2
<1>. QED BY <1>1, <1>3, <1>4 DEF TaskInv

(* The orphan leaves its parent's children and comes to the first task's.  *)
LEMMA ReparentKeeps ==
  ASSUME TaskInv, NEW t \in Tasks, Task!Reparent(t)
  PROVE  TaskInv'
<1>. DEFINE K == Members
            k == tlink
            r == Task!REMOVE_LINKS(k, t)
            pp == [r.pptr EXCEPT ![t] = init_task]
            m == [r EXCEPT !.pptr = pp]
<1>0. Related(k, K) /\ Parents(k, K) /\ Hashed(thash, thash_next, thash_pprev, tpid, K) /\ k \in Links /\ K \subseteq Tasks
  BY DEF TaskInv, Related
<1>1. /\ tstate[t] # "free" /\ tlink' = Task!SET_LINKS(m, t)
      /\ tstate' = tstate /\ tpid' = tpid /\ thash' = thash /\ thash_next' = thash_next /\ thash_pprev' = thash_pprev
  BY DEF Task!Reparent
<1>2. t \in K /\ t \in All /\ K' = K /\ init_task \in All
  BY <1>1, AllTasks DEF Members
<1>3. Related(r, K \ {t}) /\ r.pptr = k.pptr
  BY <1>0, <1>2, Removing
<1>. HIDE DEF r, K
<1>4. r \in Links /\ r.pptr \in Pointers
  BY <1>3 DEF Related, Links
<1>5. pp \in Pointers /\ pp[t] = init_task /\ \A y \in All : y # t => pp[y] = r.pptr[y]
  BY <1>2, <1>4 DEF Pointers
<1>. HIDE DEF pp
<1>6. /\ m \in Links /\ m.next = r.next /\ m.prev = r.prev /\ m.ysptr = r.ysptr /\ m.osptr = r.osptr
      /\ m.cptr = r.cptr /\ m.pptr = pp
  BY <1>4, <1>5 DEF Links
<1>. HIDE DEF m
<1>7. Related(m, K \ {t})
  <2>1. /\ \A y \in (K \ {t}) \union {init_task} : m.next[y] = r.next[y] /\ m.prev[y] = r.prev[y]
        /\ \A y \in K \ {t} : m.osptr[y] = r.osptr[y] /\ m.ysptr[y] = r.ysptr[y] /\ m.pptr[y] = r.pptr[y]
        /\ \A y \in All : m.cptr[y] = r.cptr[y]
    BY <1>0, <1>5, <1>6, AllTasks
  <2>. QED BY <1>3, <1>6, <2>1, Unmoved
<1>8. Related(tlink', K)
  <2>. DEFINE L == K \ {t}
  <2>1. Related(m, L) /\ t \in Tasks /\ t \notin L /\ m.pptr[t] \in L \union {init_task}
    BY <1>5, <1>6, <1>7
  <2>2. L \union {t} = K
    BY <1>2
  <2>. HIDE DEF L
  <2>3. Related(Task!SET_LINKS(m, t), L \union {t})
    BY ONLY <2>1, Adding
  <2>. QED BY <1>1, <2>2, <2>3
<1>9. Parents(tlink', K)
  <2>1. tlink'.pptr = m.pptr
    BY <1>1, <1>6 DEF Task!SET_LINKS, Links
  <2>. QED BY <1>0, <1>3, <1>5, <1>6, <2>1, AllTasks DEF Parents
<1>10. Members' = K
  BY <1>2 DEF K
<1>. QED BY <1>0, <1>1, <1>8, <1>9, <1>10 DEF TaskInv

(* The zombie that is released has no children left.                       *)
LEMMA ReleaseKeeps ==
  ASSUME TaskInv, NEW t \in Tasks, Task!Release(t)
  PROVE  TaskInv'
<1>. DEFINE K == Members
            k == tlink
<1>0. /\ tstate \in [All -> {"free", "live", "zombie"}] /\ tstate[init_task] = "live"
      /\ Related(k, K) /\ Parents(k, K) /\ Hashed(thash, thash_next, thash_pprev, tpid, K) /\ K \subseteq Tasks
  BY DEF TaskInv, Related
<1>1. /\ tstate[t] = "zombie" /\ k.cptr[t] = NULL /\ tstate' = [tstate EXCEPT ![t] = "free"]
      /\ Task!unhash_pid(t) /\ tlink' = Task!REMOVE_LINKS(k, t) /\ tpid' = tpid
  BY DEF Task!Release
<1>2. t \in K /\ t \in All /\ t # init_task
  BY <1>1, AllTasks DEF Members
<1>3. K' = K \ {t}
  BY <1>0, <1>1, <1>2, AllTasks DEF Members
<1>. HIDE DEF K
<1>4. Related(tlink', K \ {t}) /\ tlink'.pptr = k.pptr
  BY <1>0, <1>1, <1>2, Removing
<1>5. \A y \in K : k.pptr[y] # t
  <2>. DEFINE first == k.cptr
              nx == k.osptr
              pv == k.ysptr
              key == k.pptr
  <2>1. Lines(All, first, nx, pv, None, Self, key, K) /\ first[t] = NULL
    BY <1>0, <1>1 DEF Related, Kin
  <2>. HIDE DEF first, nx, pv, key
  <2>2. Distinct(All, None, Self) /\ Lines(All, first, nx, pv, None, Self, key, K) /\ t \in All
    BY <1>2, <2>1, SelfDistinct
  <2>3. (\E y : Among(K, key, t, y)) => first[t] # NULL
    BY ONLY <2>2, LinesSay
  <2>. QED BY <2>1, <2>3 DEF Among, key
<1>6. Parents(tlink', K \ {t})
  BY <1>0, <1>4, <1>5 DEF Parents
<1>7. Hashed(thash', thash_next', thash_pprev', tpid', K \ {t})
  BY <1>0, <1>1, <1>2, HashOut
<1>8. tstate' \in [All -> {"free", "live", "zombie"}] /\ tstate'[init_task] = "live" /\ tpid' \in [All -> Pids \union {{}}]
  BY <1>0, <1>1, <1>2 DEF TaskInv
<1>9. Members' = K \ {t}
  BY <1>3 DEF K
<1>. QED BY <1>4, <1>6, <1>7, <1>8, <1>9 DEF TaskInv

LEMMA TaskNext ==
  ASSUME TaskInv, Task!Next
  PROVE  TaskInv'
<1>1. PICK t \in Tasks : \/ Task!Exit(t) \/ Task!Reparent(t) \/ Task!Release(t)
                         \/ \E p \in Task!All, x \in Pids : Task!Fork(p, t, x)
  BY DEF Task!Next
<1>2. CASE \E p \in Task!All, x \in Pids : Task!Fork(p, t, x)
  <2>1. PICK p \in Task!All : \E x \in Pids : Task!Fork(p, t, x)
    BY <1>2
  <2>2. PICK x \in Pids : Task!Fork(p, t, x)
    BY <2>1
  <2>3. p \in All
    BY AllTasks
  <2>. QED BY <2>2, <2>3, ForkKeeps
<1>. QED BY <1>1, <1>2, ExitKeeps, ReparentKeeps, ReleaseKeeps

LEMMA TaskFrame ==
  ASSUME TaskInv, UNCHANGED taskvars
  PROVE  TaskInv'
<1>1. /\ tstate' = tstate /\ tpid' = tpid /\ tlink' = tlink
      /\ thash' = thash /\ thash_next' = thash_next /\ thash_pprev' = thash_pprev
  BY DEF taskvars
<1>2. Members' = Members
  BY <1>1 DEF Members
<1>. QED BY <1>1, <1>2 DEF TaskInv
-----------------------------------------------------------------------------
(* What TaskInv says of the tasks: the types and the families.             *)
LEMMA TaskTypes ==
  ASSUME TaskInv
  PROVE  Task!TypeOK
<1>1. /\ tstate \in [Task!All -> {"free", "live", "zombie"}] /\ tpid \in [Task!All -> Pids \union {{}}]
  BY AllTasks DEF TaskInv
<1>2. \A f \in DOMAIN tlink : tlink[f] \in [Task!All -> Task!All \union {NULL}]
  <2>1. tlink \in Links
    BY DEF TaskInv, Related
  <2>2. DOMAIN tlink = LinkNames /\ \A f \in LinkNames : tlink[f] \in Pointers
    BY <2>1, LinksTyped
  <2>. QED BY <2>2, AllTasks DEF Pointers
<1>3. thash \in [Task!Buckets -> Task!Known \union {NULL}]
  <2>1. thash \in [Task!Buckets -> All \union {NULL}] /\ Hashed(thash, thash_next, thash_pprev, tpid, Members)
    BY DEF TaskInv, Hashed
  <2>2. \A i \in Task!Buckets : thash[i] \in Task!Known \union {NULL}
    BY <2>1, FirstHashed, MembersAre
  <2>. QED BY <2>1, <2>2
<1>4. thash_next \in [Task!All -> Task!All \union {NULL}]
  BY AllTasks DEF TaskInv, Hashed, Pointers
<1>. QED BY <1>1, <1>2, <1>3, <1>4 DEF Task!TypeOK

LEMMA Families ==
  ASSUME TaskInv
  PROVE  Task!Family
<1>. DEFINE first == tlink.cptr
            nx == tlink.osptr
            pv == tlink.ysptr
            key == tlink.pptr
            K == Members
<1>1. Lines(All, first, nx, pv, None, Self, key, K)
  BY DEF TaskInv, Related, Kin
<1>2. Task!Known \subseteq All /\ K = Task!Known \ {init_task}
  BY MembersAre, AllTasks
<1>. HIDE DEF first, nx, pv, key, K
<1>3. ASSUME NEW p \in Task!Known
      PROVE  LET C == {t \in K : key[t] = p}
             IN  /\ C = {} <=> first[p] = NULL
                 /\ C # {} => first[p] \in C /\ pv[first[p]] = NULL
                 /\ \A t \in C : /\ pv[t] = NULL <=> t = first[p]
                                 /\ nx[t] # NULL => nx[t] \in C /\ pv[nx[t]] = t
                                 /\ pv[t] # NULL => pv[t] \in C /\ nx[pv[t]] = t
  <2>. DEFINE C == {t \in K : key[t] = p}
  <2>1. Distinct(All, None, Self) /\ Lines(All, first, nx, pv, None, Self, key, K) /\ p \in All
    BY <1>1, <1>2, SelfDistinct
  <2>2. /\ \A t : Among(K, key, p, t) => LineSays(first, nx, pv, None, Self, key, K, p, t) /\ t \in Tasks
        /\ first[p] # NULL => Among(K, key, p, first[p]) /\ pv[first[p]] = None[p]
        /\ (\E t : Among(K, key, p, t)) => first[p] # NULL
    BY ONLY <2>1, LinesSay
  <2>3. None[p] = NULL /\ \A u \in Tasks : Self[u] = u /\ u # NULL
    BY <1>2, NoTask DEF None, Self
  <2>4. \A t : t \in C <=> Among(K, key, p, t)
    BY DEF Among
  <2>. HIDE DEF C
  <2>5. ASSUME NEW t \in C
        PROVE  /\ pv[t] = NULL <=> t = first[p]
               /\ nx[t] # NULL => nx[t] \in C /\ pv[nx[t]] = t
               /\ pv[t] # NULL => pv[t] \in C /\ nx[pv[t]] = t
    <3>1. LineSays(first, nx, pv, None, Self, key, K, p, t) /\ t \in Tasks
      BY <2>2, <2>4
    <3>2. /\ pv[t] = NULL <=> first[p] = t
          /\ nx[t] # NULL => nx[t] \in C /\ pv[nx[t]] = t
          /\ pv[t] = NULL \/ \E u \in Tasks : u \in C /\ pv[t] = u /\ nx[u] = t
      BY <2>3, <2>4, <3>1 DEF LineSays
    <3>. QED BY <3>2
  <2>6. C = {} <=> first[p] = NULL
    BY <2>2, <2>4
  <2>7. C # {} => first[p] \in C /\ pv[first[p]] = NULL
    BY <2>2, <2>3, <2>4, <2>6
  <2>8. /\ C = {} <=> first[p] = NULL
        /\ C # {} => first[p] \in C /\ pv[first[p]] = NULL
        /\ \A t \in C : /\ pv[t] = NULL <=> t = first[p]
                        /\ nx[t] # NULL => nx[t] \in C /\ pv[nx[t]] = t
                        /\ pv[t] # NULL => pv[t] \in C /\ nx[pv[t]] = t
    BY <2>5, <2>6, <2>7
  <2>. QED BY <2>8 DEF C
<1>. QED BY <1>2, <1>3 DEF Task!Family, Task!Children, first, nx, pv, key

(* A list without repetitions, of all of a finite set.                     *)
LEMMA OnceCounts ==
  ASSUME NEW E, IsFiniteSet(E), NEW s \in Seq(E), Once(s)
  PROVE  /\ Len(s) \in Nat /\ Cardinality(E) \in Nat /\ Len(s) <= Cardinality(E)
         /\ (\A x \in E : Has(s, x)) => Len(s) = Cardinality(E)
<1>. DEFINE n == Len(s)
            D == 1 .. n
<1>1. n \in Nat /\ s \in [D -> E]
  BY LenProperties, SeqDef
<1>2. \A i, j \in D : s[i] = s[j] => i = j
  BY DEF Once
<1>3. IsFiniteSet(D) /\ Cardinality(D) = n
  BY <1>1, FS_Interval
<1>4. s \in Injection(D, E)
  <2>. HIDE DEF D
  <2>. QED BY <1>1, <1>2 DEF Injection, IsInjective
<1>5. Cardinality(D) <= Cardinality(E) /\ (Cardinality(D) = Cardinality(E) <=> s \in Surjection(D, E))
  <2>. HIDE DEF D
  <2>. QED BY <1>4, FS_Injection
<1>6. ASSUME \A x \in E : Has(s, x) PROVE s \in Surjection(D, E)
  <2>1. \A x \in E : \E i \in D : s[i] = x
    BY <1>6 DEF Has
  <2>. HIDE DEF D
  <2>. QED BY <1>1, <2>1 DEF Surjection
<1>7. Cardinality(E) \in Nat
  BY FS_CardinalityType
<1>. QED BY <1>1, <1>3, <1>5, <1>6, <1>7

(* The ring is as long as there are tasks: each is visited once.           *)
LEMMA AllVisited ==
  ASSUME TaskInv
  PROVE  Task!EachTask
<1>. DEFINE nx == tlink.next
            pv == tlink.prev
            K == Members
            W == [n \in 0 .. Cardinality(Task!Known) |-> StepsOf(nx, init_task, n)]
<1>0. Ring(nx, pv, K) /\ K \subseteq Tasks /\ Task!Known = K \union {init_task} /\ init_task \notin K
  BY MembersAre, NoTask DEF TaskInv, Related
<1>1. Task!Visited = W
  BY Zenon DEF Task!Visited, StepsOf, Task!Cardinality, Cardinality
<1>. HIDE DEF nx, pv, K
<1>2. PICK s : RingOf(nx, pv, K, s)
  BY <1>0 DEF Ring
<1>. DEFINE n == Len(s)
            a(i) == At(init_task, s, i)
<1>3. /\ n \in Nat /\ (\A i \in 1 .. n : a(i) = s[i] /\ s[i] \in K)
      /\ a(0) = init_task /\ a(n + 1) = init_task
  BY <1>2, RingEnds
<1>4. s \in Seq(Tasks) /\ Once(s) /\ Chain(nx, pv, init_task, s) /\ \A x : Has(s, x) <=> x \in K
  BY <1>2 DEF RingOf
<1>5. \A i \in 0 .. n + 1 : StepsOf(nx, init_task, i) = a(i)
  <2>1. init_task \notin Tasks /\ s \in Seq(Tasks) /\ Once(s) /\ Chain(nx, pv, init_task, s)
    BY <1>4, NoTask
  <2>. QED BY ONLY <2>1, StepsAre
<1>6. IsFiniteSet(K) /\ Cardinality(Task!Known) = n + 1
  <2>1. IsFiniteSet(K)
    BY <1>0, NoTask, FS_Subset
  <2>2. s \in Seq(K)
    <3>1. s \in [1 .. n -> K]
      BY <1>3, <1>4, LenProperties, SeqDef
    <3>. QED BY <1>3, <3>1
  <2>3. n = Cardinality(K)
    BY <1>4, <2>1, <2>2, OnceCounts
  <2>4. Cardinality(K \union {init_task}) = Cardinality(K) + 1
    BY <1>0, <2>1, FS_AddElement
  <2>. QED BY <1>0, <2>1, <2>3, <2>4
<1>. HIDE DEF a
<1>7. DOMAIN W = 0 .. n + 1 /\ \A i \in 0 .. n + 1 : W[i] = a(i)
  BY <1>5, <1>6
<1>. HIDE DEF W
<1>8. {W[i] : i \in DOMAIN W} = Task!Known
  <2>1. \A i \in 0 .. n + 1 : a(i) \in Task!Known
    BY <1>0, <1>3
  <2>2. ASSUME NEW x \in Task!Known PROVE \E i \in 0 .. n + 1 : a(i) = x
    <3>1. CASE x = init_task
      BY <1>3, <3>1
    <3>2. CASE x \in K
      <4>1. PICK i \in 1 .. n : s[i] = x
        BY <1>4, <3>2 DEF Has
      <4>. QED BY <1>3, <4>1
    <3>. QED BY <1>0, <3>1, <3>2
  <2>. QED BY <1>7, <2>1, <2>2
<1>9. W[Cardinality(Task!Known)] = init_task
  BY <1>3, <1>6, <1>7
<1>10. \A t \in Task!Known : pv[nx[t]] = t
  BY <1>0, RingSays
<1>. QED BY <1>1, <1>8, <1>9, <1>10 DEF Task!EachTask, Task!Cardinality, Cardinality, nx, pv
-----------------------------------------------------------------------------
(* find_task_by_pid: how far along the bucket's list it is after k steps,  *)
(* and what was not found before.                                          *)
Passed(s, pid, x, k, j, y) ==
  /\ j \in 1 .. Len(s) + 1 /\ j <= k + 1 /\ y = At(NULL, s, j)
  /\ \A l \in 1 .. j - 1 : pid[s[l]] # x
  /\ j = k + 1 \/ j = Len(s) + 1 \/ pid[s[j]] = x

LEMMA WalkOn ==
  ASSUME NEW s \in Seq(Tasks), NEW nx, NEW pid, NEW x, NEW k \in Nat, NEW y,
         \A l \in 1 .. Len(s) : nx[s[l]] = At(NULL, s, l + 1),
         \E j : Passed(s, pid, x, k, j, y)
  PROVE  \E j : Passed(s, pid, x, k + 1, j, IF y = NULL \/ pid[y] = x THEN y ELSE nx[y])
<1>. PICK j : Passed(s, pid, x, k, j, y)
  OBVIOUS
<1>1. /\ Len(s) \in Nat /\ j \in 1 .. Len(s) + 1 /\ j <= k + 1 /\ y = At(NULL, s, j)
      /\ \A l \in 1 .. j - 1 : pid[s[l]] # x
      /\ j = k + 1 \/ j = Len(s) + 1 \/ pid[s[j]] = x
  BY LenProperties DEF Passed
<1>2. \A l \in 1 .. Len(s) : s[l] \in Tasks /\ s[l] # NULL
  BY NoTask, ElementOfSeq
<1>3. CASE j = Len(s) + 1
  <2>1. y = NULL
    BY <1>1, <1>3 DEF At
  <2>2. j \in 1 .. Len(s) + 1 /\ j <= (k + 1) + 1
    BY <1>1
  <2>3. Passed(s, pid, x, k + 1, j, y)
    BY <1>1, <1>3, <2>2 DEF Passed
  <2>. QED BY <2>1, <2>3
<1>4. CASE j # Len(s) + 1 /\ pid[s[j]] = x
  <2>1. j \in 1 .. Len(s)
    BY <1>1, <1>4
  <2>2. y = s[j]
    BY <1>1, <2>1 DEF At
  <2>3. j \in 1 .. Len(s) + 1 /\ j <= (k + 1) + 1
    BY <1>1
  <2>4. Passed(s, pid, x, k + 1, j, y)
    BY <1>1, <1>4, <2>3 DEF Passed
  <2>. QED BY <1>4, <2>2, <2>4
<1>5. CASE j # Len(s) + 1 /\ pid[s[j]] # x
  <2>1. j \in 1 .. Len(s) /\ j = k + 1
    BY <1>1, <1>5
  <2>2. y = s[j] /\ y # NULL /\ nx[y] = At(NULL, s, j + 1)
    BY <1>1, <1>2, <2>1 DEF At
  <2>3. j + 1 \in 1 .. Len(s) + 1 /\ j + 1 <= (k + 1) + 1 /\ j + 1 = (k + 1) + 1
    BY <1>1, <2>1
  <2>4. \A l \in 1 .. (j + 1) - 1 : pid[s[l]] # x
    <3>1. \A l \in 1 .. (j + 1) - 1 : l = j \/ l \in 1 .. j - 1
      BY <2>1
    <3>. QED BY <1>1, <1>5, <3>1
  <2>5. Passed(s, pid, x, k + 1, j + 1, nx[y])
    BY <2>2, <2>3, <2>4 DEF Passed
  <2>. QED BY <1>5, <2>2, <2>5
<1>. QED BY <1>3, <1>4, <1>5

Located(s, pid, x, y) ==
  IF \E z : Has(s, z) /\ pid[z] = x THEN Has(s, y) /\ pid[y] = x ELSE y = NULL
Walks(s, first, nx, pid, x, f) ==
  /\ first = At(NULL, s, 1) /\ \A l \in 1 .. Len(s) : nx[s[l]] = At(NULL, s, l + 1)
  /\ f[0] = first /\ \A k \in Nat : f[k + 1] = IF f[k] = NULL \/ pid[f[k]] = x THEN f[k] ELSE nx[f[k]]

(* Walking a list until it ends or the pid is found: after as many steps   *)
(* as it has elements it is found, or nobody in the list has it.           *)
LEMMA WalkEnds ==
  ASSUME NEW s \in Seq(Tasks), NEW first, NEW nx, NEW pid, NEW x, NEW f, Walks(s, first, nx, pid, x, f),
         NEW n \in Nat, Len(s) <= n
  PROVE  Located(s, pid, x, f[n])
<1>z. /\ first = At(NULL, s, 1) /\ \A l \in 1 .. Len(s) : nx[s[l]] = At(NULL, s, l + 1)
      /\ f[0] = first /\ \A k \in Nat : f[k + 1] = IF f[k] = NULL \/ pid[f[k]] = x THEN f[k] ELSE nx[f[k]]
  BY DEF Walks
<1>. DEFINE S == {k \in Nat : \E j : Passed(s, pid, x, k, j, f[k])}
<1>0. Len(s) \in Nat
  BY LenProperties
<1>1. 0 \in S
  <2>1. 1 \in 1 .. Len(s) + 1 /\ 1 <= 0 + 1 /\ 1 = 0 + 1 /\ \A l \in 1 .. 1 - 1 : FALSE
    BY <1>0
  <2>2. Passed(s, pid, x, 0, 1, f[0])
    BY <1>z, <2>1 DEF Passed
  <2>. QED BY <2>2
<1>2. ASSUME NEW k \in Nat, k \in S PROVE k + 1 \in S
  <2>. DEFINE y == f[k]
              z == IF y = NULL \/ pid[y] = x THEN y ELSE nx[y]
  <2>1. \E j : Passed(s, pid, x, k, j, y)
    BY <1>2
  <2>2. f[k + 1] = z
    BY <1>z
  <2>. HIDE DEF y
  <2>3. \E j : Passed(s, pid, x, k + 1, j, z)
    BY <1>z, <2>1, WalkOn
  <2>. DEFINE k1 == k + 1
  <2>4. k1 \in Nat /\ f[k1] = z /\ \E j : Passed(s, pid, x, k1, j, z)
    BY <2>2, <2>3
  <2>. HIDE DEF z, k1
  <2>5. k1 \in S
    BY <2>4
  <2>. QED BY <2>5 DEF k1
<1>3. n \in S
  <2>. HIDE DEF S
  <2>. QED BY <1>1, <1>2, NatInduct
<1>4. PICK j : Passed(s, pid, x, n, j, f[n])
  BY <1>3
<1>5. /\ j \in 1 .. Len(s) + 1 /\ f[n] = At(NULL, s, j)
      /\ \A l \in 1 .. j - 1 : pid[s[l]] # x
      /\ j = Len(s) + 1 \/ pid[s[j]] = x
  <2>1. /\ j \in 1 .. Len(s) + 1 /\ f[n] = At(NULL, s, j)
        /\ \A l \in 1 .. j - 1 : pid[s[l]] # x
        /\ j = n + 1 \/ j = Len(s) + 1 \/ pid[s[j]] = x
    BY <1>4 DEF Passed
  <2>2. j \in 1 .. Len(s) + 1
    BY <2>1
  <2>. DEFINE m == Len(s)
  <2>3. m \in Nat /\ m <= n /\ j \in 1 .. m + 1
    BY <1>0, <2>2
  <2>. HIDE DEF m
  <2>4. j = n + 1 => j = m + 1
    BY <2>3
  <2>. QED BY <2>1, <2>4 DEF m
<1>6. CASE j = Len(s) + 1
  <2>1. f[n] = NULL
    BY <1>0, <1>5, <1>6 DEF At
  <2>2. \A l \in 1 .. Len(s) : pid[s[l]] # x
    <3>1. \A l \in 1 .. Len(s) : l \in 1 .. j - 1
      BY <1>0, <1>6
    <3>. QED BY <1>5, <3>1
  <2>3. ~ \E y : Has(s, y) /\ pid[y] = x
    BY <2>2 DEF Has
  <2>. QED BY <2>1, <2>3 DEF Located
<1>7. CASE j # Len(s) + 1
  <2>. DEFINE m == Len(s)
  <2>a. m \in Nat /\ j \in 1 .. m + 1 /\ j # m + 1
    BY <1>0, <1>5, <1>7
  <2>. HIDE DEF m
  <2>b. j \in 1 .. m
    BY <2>a
  <2>1. j \in 1 .. Len(s) /\ pid[s[j]] = x
    BY <1>5, <1>7, <2>b DEF m
  <2>2. f[n] = s[j]
    BY <1>5, <2>1 DEF At
  <2>3. Has(s, f[n]) /\ pid[f[n]] = x
    BY <2>1, <2>2 DEF Has
  <2>. QED BY <2>3 DEF Located
<1>. QED BY <1>6, <1>7

LEMMA PidsFound ==
  ASSUME TaskInv
  PROVE  Task!FindsByPid
<1>. SUFFICES ASSUME NEW x \in Pids
              PROVE  LET has == {t \in Task!Known \ {init_task} : tpid[t] = x}
                     IN  IF has = {} THEN Task!find_task_by_pid(x) = NULL ELSE Task!find_task_by_pid(x) \in has
  BY DEF Task!FindsByPid
<1>. DEFINE i == Task!pid_hashfn(x)
            K == Members
            has == {t \in K : tpid[t] = x}
            key == Hashes(tpid)
            limit == Cardinality(All)
            f[n \in Nat] ==
              LET p == IF n = 0 THEN thash[i] ELSE f[n - 1] IN
              IF p = NULL \/ tpid[p] = x \/ n = 0 THEN p ELSE thash_next[p]
<1>1. /\ thash \in [Task!Buckets -> All \union {NULL}] /\ thash_next \in Pointers /\ K \subseteq Tasks
      /\ Lines(Task!Buckets, thash, thash_next, thash_pprev, InBucket, InTasks, key, K)
      /\ K = Task!Known \ {init_task}
  BY MembersAre DEF TaskInv, Hashed
<1>2. i \in Task!Buckets /\ \A t \in Tasks : key[t] = Task!pid_hashfn(tpid[t])
  BY Hashing, Bucketed
<1>3. Task!find_task_by_pid(x) = f[limit]
  BY Zenon, AllTasks DEF Task!find_task_by_pid, Task!Cardinality, Cardinality
<1>. HIDE DEF K, key
<1>4. PICK S : Lined(Task!Buckets, thash, thash_next, thash_pprev, InBucket, InTasks, key, K, S)
  BY <1>1 DEF Lines
<1>. DEFINE s == S[i]
<1>5. /\ s \in Seq(Tasks) /\ Once(s) /\ Line(thash[i], thash_next, thash_pprev, InBucket[i], InTasks, s)
      /\ \A y : Has(s, y) <=> y \in K /\ key[y] = i
  BY <1>2, <1>4 DEF Lined
<1>. HIDE DEF i, s
<1>6. thash[i] = At(NULL, s, 1) /\ \A l \in 1 .. Len(s) : thash_next[s[l]] = At(NULL, s, l + 1)
  BY <1>5 DEF Line
<1>. DEFINE V == All \union {NULL}
            g == [p \in V |-> IF p = NULL \/ tpid[p] = x THEN p ELSE thash_next[p]]
<1>7. Within(g, V) /\ thash[i] \in V
  BY <1>1, <1>2 DEF Within, Pointers
<1>8. PICK F : Orbit(F, V, g, thash[i])
  <2>. HIDE DEF g, V
  <2>. QED BY <1>7, Iteration
<1>9. F \in [Nat -> V] /\ F[0] = thash[i] /\ \A n \in Nat : F[n + 1] = IF F[n] = NULL \/ tpid[F[n]] = x THEN F[n] ELSE thash_next[F[n]]
  <2>1. F \in [Nat -> V] /\ F[0] = thash[i] /\ \A n \in Nat : F[n] \in V /\ F[n + 1] = g[F[n]]
    <3>. HIDE DEF g, V
    <3>. QED BY <1>8 DEF Orbit
  <2>2. \A p \in V : g[p] = IF p = NULL \/ tpid[p] = x THEN p ELSE thash_next[p]
    <3>. HIDE DEF V
    <3>. QED OBVIOUS
  <2>. HIDE DEF g, V
  <2>. QED BY <2>1, <2>2
<1>. HIDE DEF V, g
<1>10. F = [n \in Nat |-> LET p == IF n = 0 THEN thash[i] ELSE F[n - 1] IN
                          IF p = NULL \/ tpid[p] = x \/ n = 0 THEN p ELSE thash_next[p]]
  <2>1. ASSUME NEW n \in Nat
        PROVE  F[n] = LET p == IF n = 0 THEN thash[i] ELSE F[n - 1] IN
                      IF p = NULL \/ tpid[p] = x \/ n = 0 THEN p ELSE thash_next[p]
    <3>1. CASE n = 0
      BY <1>9, <3>1
    <3>2. CASE n # 0
      <4>1. n - 1 \in Nat /\ (n - 1) + 1 = n
        BY <3>2
      <4>2. F[(n - 1) + 1] = IF F[n - 1] = NULL \/ tpid[F[n - 1]] = x THEN F[n - 1] ELSE thash_next[F[n - 1]]
        BY <1>9, <4>1
      <4>3. F[n] = IF F[n - 1] = NULL \/ tpid[F[n - 1]] = x THEN F[n - 1] ELSE thash_next[F[n - 1]]
        BY <4>1, <4>2
      <4>. QED BY <3>2, <4>3
    <3>. QED BY <3>1, <3>2
  <2>2. F = [n \in Nat |-> F[n]]
    BY <1>9
  <2>. QED BY <2>1, <2>2
<1>11. f = [n \in Nat |-> LET p == IF n = 0 THEN thash[i] ELSE f[n - 1] IN
                          IF p = NULL \/ tpid[p] = x \/ n = 0 THEN p ELSE thash_next[p]]
  BY <1>10, Zenon
<1>. HIDE DEF f
<1>12. f[0] = thash[i] /\ \A n \in Nat : f[n + 1] = IF f[n] = NULL \/ tpid[f[n]] = x THEN f[n] ELSE thash_next[f[n]]
  <2>1. f[0] = thash[i]
    BY <1>11
  <2>2. ASSUME NEW n \in Nat PROVE f[n + 1] = IF f[n] = NULL \/ tpid[f[n]] = x THEN f[n] ELSE thash_next[f[n]]
    <3>1. n + 1 \in Nat /\ n + 1 # 0 /\ (n + 1) - 1 = n
      OBVIOUS
    <3>2. f[n + 1] = LET p == IF n + 1 = 0 THEN thash[i] ELSE f[(n + 1) - 1] IN
                     IF p = NULL \/ tpid[p] = x \/ n + 1 = 0 THEN p ELSE thash_next[p]
      BY <1>11, <3>1
    <3>. QED BY <3>1, <3>2
  <2>. QED BY <2>1, <2>2
<1>13. limit \in Nat /\ Len(s) <= limit
  <2>1. IsFiniteSet(Tasks) /\ Len(s) \in Nat /\ Cardinality(Tasks) \in Nat /\ Len(s) <= Cardinality(Tasks)
    BY <1>5, NoTask, OnceCounts
  <2>2. Cardinality(Tasks \union {init_task}) = Cardinality(Tasks) + 1
    BY <2>1, NoTask, FS_AddElement
  <2>. QED BY <2>1, <2>2 DEF All
<1>. HIDE DEF limit
<1>14. IF \E y : Has(s, y) /\ tpid[y] = x THEN Has(s, f[limit]) /\ tpid[f[limit]] = x ELSE f[limit] = NULL
  <2>. DEFINE first == thash[i]
              nx == thash_next
              pid == tpid
  <2>1. s \in Seq(Tasks) /\ Walks(s, first, nx, pid, x, f) /\ limit \in Nat /\ Len(s) <= limit
    BY <1>5, <1>6, <1>12, <1>13 DEF Walks
  <2>. HIDE DEF first, nx, pid
  <2>2. Located(s, pid, x, f[limit])
    BY ONLY <2>1, WalkEnds
  <2>. QED BY <2>2 DEF Located, pid
<1>15. \A y : Has(s, y) /\ tpid[y] = x <=> y \in has
  <2>1. \A y \in K : tpid[y] = x => key[y] = i
    BY <1>1, <1>2 DEF i
  <2>. QED BY <1>5, <2>1
<1>16. IF has = {} THEN f[limit] = NULL ELSE f[limit] \in has
  <2>. HIDE DEF has
  <2>. QED BY <1>14, <1>15
<1>17. has = {t \in Task!Known \ {init_task} : tpid[t] = x}
  BY <1>1
<1>. QED BY <1>3, <1>16, <1>17
-----------------------------------------------------------------------------
(* The three together.                                                     *)
Inv == ListInv /\ TaskInv /\ TableInv

LEMMA InvInit ==
  ASSUME Init
  PROVE  Inv
BY StructuresInit, TaskInit, TableInit DEF Init, Inv

LEMMA InvNext ==
  ASSUME Inv, [Next]_vars
  PROVE  Inv'
<1>1. ListInv'
  BY StructuresNext DEF Inv
<1>2. TaskInv'
  <2>1. CASE Task!Next
    BY <2>1, TaskNext DEF Inv
  <2>2. CASE UNCHANGED taskvars
    BY <2>2, TaskFrame DEF Inv
  <2>. QED BY <2>1, <2>2 DEF Next, vars
<1>3. TableInv'
  <2>1. CASE Table!Next
    BY <2>1, TableNext DEF Inv
  <2>2. CASE UNCHANGED tablevars
    BY <2>2, TableFrame DEF Inv
  <2>. QED BY <2>1, <2>2 DEF Next, vars
<1>. QED BY <1>1, <1>2, <1>3 DEF Inv

(* The inductive invariant: the pointers of the lists fit sequences and    *)
(* the walk knows its place in them; the links of the tasks are a ring,    *)
(* the children of each parent, and the list of each bucket of the hash    *)
(* (sched.h:483-511, 614-635); every address's entry agrees with what its  *)
(* page is, and tables under none entries are empty.                       *)
THEOREM InvKept == Spec => []Inv
<1>1. Init => Inv
  BY InvInit
<1>2. Inv /\ [Next]_vars => Inv'
  BY InvNext
<1>. QED BY <1>1, <1>2, PTL DEF Spec

(* What is linked is found, all of it and nothing else: entries of lists,  *)
(* under a traversal that deletes (list.h), tasks by pid, in the ring and  *)
(* in families (sched.h), pages by their addresses (pgtable.h).            *)
THEOREM StructuresLinked == Spec => []Linked
<1>1. Inv => Linked
  BY ListPointers, ListWalks, TaskTypes, PidsFound, AllVisited, Families, TableFound DEF Inv, Linked
<1>. QED BY <1>1, InvKept, PTL

(* The lists do what sequences do: list_add, list_del, list_splice and     *)
(* the others insert, remove and join (list.h:35-133).                     *)
THEOREM ListsRefine == Spec => Refines
<1>1. Init => List!ImplementsLists!Init
  BY StructuresInit
<1>2. Inv /\ [Next]_vars => [List!ImplementsLists!Next]_([h \in Heads |-> List!Items(h)])
  BY StructuresNext DEF Inv
<1>. QED BY <1>1, <1>2, InvKept, PTL DEF Spec, Refines, List!Refines, List!ImplementsLists!Spec
=============================================================================
