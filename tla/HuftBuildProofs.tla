--------------------------- MODULE HuftBuildProofs ---------------------------
(* Proofs about huft_build(), for all lists of code lengths and table      *)
(* sizes.                                                                  *)
EXTENDS HuftBuild, FiniteSetTheorems, WellFoundedInduction, TLAPS
-----------------------------------------------------------------------------
(* Induction over the naturals, for a set: the step holds of every number, *)
(* or there would be a least one outside.                                  *)
LEMMA NatInduct ==
  ASSUME NEW S, 0 \in S, \A n \in Nat : n \in S => n + 1 \in S
  PROVE  \A n \in Nat : n \in S
<1>. DEFINE R == OpToRel(<, Nat)
<1>1. \A e, n \in Nat : e < n => <<e, n>> \in R
  BY Zenon DEF OpToRel
<1>2. IsWellFoundedOn(R, Nat)
  BY NatLessThanWellFounded
<1>. HIDE DEF R
<1>. SUFFICES ASSUME NEW z \in Nat \ S PROVE FALSE
  OBVIOUS
<1>3. PICK e \in Nat \ S : \A n \in Nat \ S : <<n, e>> \notin R
  <2>. DEFINE T == Nat \ S
  <2>1. T \subseteq Nat /\ T # {}
    OBVIOUS
  <2>. HIDE DEF T
  <2>2. \E e \in T : \A n \in T : <<n, e>> \notin R
    BY <1>2, <2>1, WFMin, Zenon
  <2>. QED BY <2>2 DEF T
<1>4. e - 1 \in Nat
  BY <1>3
<1>5. <<e - 1, e>> \in R
  BY <1>1, <1>3, <1>4
<1>6. e - 1 \in S
  BY <1>3, <1>4, <1>5
<1>. QED BY <1>3, <1>4, <1>6

(* A function iterated: the recursive definitions of the model exist.      *)
Within(step, V) == step \in [Nat \X V -> V]
Orbit(f, V, step, start) == f \in [Nat -> V] /\ f[0] = start /\ \A n \in Nat : f[n + 1] = step[<<n, f[n]>>]

LEMMA Iteration ==
  ASSUME NEW V, NEW step, Within(step, V), NEW start \in V
  PROVE  \E f : Orbit(f, V, step, start)
<1>0. step \in [Nat \X V -> V]
  BY DEF Within
<1>. DEFINE Good(f, n) == f \in [0 .. n -> V] /\ f[0] = start /\ \A j \in 0 .. n - 1 : f[j + 1] = step[<<j, f[j]>>]
            S == {n \in Nat : \E f : Good(f, n)}
            T(f, e, n) == {j \in Nat : j <= n => f[j] = e[j]}
            f0(n) == CHOOSE f : Good(f, n)
            F == [n \in Nat |-> f0(n)[n]]
<1>1. 0 \in S
  <2>1. Good([j \in 0 .. 0 |-> start], 0)
    OBVIOUS
  <2>. QED BY <2>1
<1>2. ASSUME NEW n \in Nat, n \in S PROVE n + 1 \in S
  <2>1. PICK f : Good(f, n)
    BY <1>2
  <2>. DEFINE e == [j \in 0 .. n + 1 |-> IF j = n + 1 THEN step[<<n, f[n]>>] ELSE f[j]]
  <2>2. e \in [0 .. n + 1 -> V] /\ e[0] = start
    BY <1>0, <2>1
  <2>3. \A j \in 0 .. (n + 1) - 1 : e[j + 1] = step[<<j, e[j]>>]
    <3>. TAKE j \in 0 .. (n + 1) - 1
    <3>1. j \in 0 .. n + 1 /\ j + 1 \in 0 .. n + 1 /\ j # n + 1
      OBVIOUS
    <3>2. e[j] = f[j]
      BY <3>1
    <3>3. CASE j = n
      <4>1. e[j + 1] = step[<<n, f[n]>>]
        BY <3>1, <3>3
      <4>. QED BY <3>2, <3>3, <4>1
    <3>4. CASE j # n
      <4>1. j \in 0 .. n - 1 /\ j + 1 # n + 1
        BY <3>4
      <4>2. e[j + 1] = f[j + 1]
        BY <3>1, <4>1
      <4>. QED BY <2>1, <3>2, <4>1, <4>2
    <3>. QED BY <3>3, <3>4
  <2>. HIDE DEF e
  <2>4. Good(e, n + 1)
    BY <2>2, <2>3
  <2>. QED BY <2>4
<1>3. \A n \in Nat : n \in S
  <2>. HIDE DEF S
  <2>. QED BY <1>1, <1>2, NatInduct
<1>4. ASSUME NEW n \in Nat, NEW d \in Nat, n <= d, NEW f, NEW e, Good(f, n), Good(e, d)
      PROVE  f[n] = e[n]
  <2>1. 0 \in T(f, e, n)
    BY <1>4
  <2>2. ASSUME NEW j \in Nat, j \in T(f, e, n) PROVE j + 1 \in T(f, e, n)
    <3>1. SUFFICES ASSUME j + 1 <= n PROVE f[j + 1] = e[j + 1]
      OBVIOUS
    <3>2. j \in 0 .. n - 1 /\ j \in 0 .. d - 1 /\ f[j] = e[j]
      BY <1>4, <2>2, <3>1
    <3>. QED BY <1>4, <3>2
  <2>3. n \in T(f, e, n)
    <3>. DEFINE U == T(f, e, n)
    <3>1. 0 \in U /\ \A j \in Nat : j \in U => j + 1 \in U
      BY <2>1, <2>2
    <3>. HIDE DEF U
    <3>2. n \in U
      BY <3>1, NatInduct
    <3>. QED BY <3>2 DEF U
  <2>. QED BY <2>3
<1>5. ASSUME NEW n \in Nat PROVE Good(f0(n), n)
  BY <1>3, <1>5
<1>6. ASSUME NEW n \in Nat PROVE F[n] \in V
  <2>0. Good(f0(n), n)
    BY <1>5, Zenon
  <2>1. f0(n) \in [0 .. n -> V] /\ n \in 0 .. n
    <3>. HIDE DEF f0
    <3>. QED BY <2>0
  <2>. QED BY <2>1
<1>7. F[0] = start
  <2>1. f0(0)[0] = start
    BY <1>5
  <2>. QED BY <2>1
<1>8. ASSUME NEW n \in Nat PROVE F[n + 1] = step[<<n, F[n]>>]
  <2>0. n + 1 \in Nat /\ n <= n + 1 /\ n \in 0 .. (n + 1) - 1
    OBVIOUS
  <2>1. Good(f0(n), n) /\ Good(f0(n + 1), n + 1)
    <3>. HIDE DEF Good, f0
    <3>. QED BY <1>5, <2>0
  <2>2. f0(n)[n] = f0(n + 1)[n]
    <3>. HIDE DEF Good, f0
    <3>. QED BY <1>4, <2>0, <2>1
  <2>3. f0(n + 1)[n + 1] = step[<<n, f0(n + 1)[n]>>]
    BY <2>0, <2>1
  <2>. HIDE DEF f0
  <2>. QED BY <2>0, <2>2, <2>3
<1>. HIDE DEF F
<1>9. F \in [Nat -> V]
  <2>1. F = [n \in Nat |-> F[n]]
    BY DEF F
  <2>. QED BY <1>6, <2>1
<1>10. Orbit(F, V, step, start)
  BY <1>7, <1>8, <1>9 DEF Orbit
<1>. QED BY <1>10, Zenon

(* Division with a remainder.                                              *)
LEMMA Divided ==
  ASSUME NEW N \in Nat, NEW n \in Nat, n > 0
  PROVE  N \div n \in Nat /\ n * (N \div n) <= N /\ N < n * (N \div n) + n
OBVIOUS

LEMMA DividedOnce ==
  ASSUME NEW N \in Nat, NEW n \in Nat, n > 0, NEW q \in Int, n * q <= N, N < n * q + n
  PROVE  N \div n = q
OBVIOUS

LEMMA Remains ==
  ASSUME NEW N \in Nat, NEW n \in Nat, n > 0
  PROVE  N % n \in 0 .. n - 1 /\ N = n * (N \div n) + (N % n)
<1>1. N % n \in 0 .. n - 1
  OBVIOUS
<1>2. N % n = N - n * (N \div n)
  OBVIOUS
<1>3. n * (N \div n) \in Int
  BY Divided
<1> QED BY <1>1, <1>2, <1>3

LEMMA Ring ==
  ASSUME NEW r \in Int, NEW s \in Int, NEW t \in Int
  PROVE  r * s \in Int /\ r * s = s * r /\ (r * s) * t = r * (s * t) /\ r * (s + t) = r * s + r * t
OBVIOUS

LEMMA Monotone ==
  ASSUME NEW r \in Int, NEW s \in Int, NEW t \in Nat, r <= s
  PROVE  t * r <= t * s
OBVIOUS

(* A number is its quotient and its remainder.                             *)
LEMMA DividedIs ==
  ASSUME NEW n \in Nat, n > 0, NEW q \in Nat, NEW r \in Nat, r < n
  PROVE  (n * q + r) \div n = q /\ (n * q + r) % n = r
<1>1. n * q \in Nat
  OBVIOUS
<1>2. (n * q + r) \div n = q
  <2> DEFINE N == n * q + r
  <2>1. N \in Nat /\ n * q <= N /\ N < n * q + n
    BY <1>1
  <2> HIDE DEF N
  <2>2. N \div n = q
    BY <2>1, DividedOnce
  <2> QED BY <2>2 DEF N
<1>3. (n * q + r) = n * ((n * q + r) \div n) + ((n * q + r) % n)
  <2> DEFINE N == n * q + r
  <2>1. N \in Nat
    BY <1>1
  <2> HIDE DEF N
  <2>2. N = n * (N \div n) + (N % n)
    BY <2>1, Remains
  <2> QED BY <2>2 DEF N
<1>4. (n * q + r) % n \in Int
  BY <1>1
<1>5. n * q + r = n * q + ((n * q + r) % n)
  BY <1>2, <1>3, Zenon
<1> QED BY <1>1, <1>2, <1>4, <1>5
-----------------------------------------------------------------------------
(* Powers of two.                                                          *)
LEMMA ShlIs ==
  /\ Shl[0] = 1
  /\ \A n \in Nat : Shl[n] \in Nat /\ Shl[n] > 0 /\ Shl[n + 1] = 2 * Shl[n]
<1> DEFINE step == [z \in Nat \X Nat |-> 2 * z[2]]
<1>1. Within(step, Nat)
  BY DEF Within
<1>2. PICK F : Orbit(F, Nat, step, 1)
  <2> HIDE DEF step
  <2> QED BY <1>1, Iteration
<1>3. F = [bits \in Nat |-> IF bits = 0 THEN 1 ELSE 2 * F[bits - 1]]
  <2>1. F \in [Nat -> Nat] /\ F[0] = 1 /\ \A n \in Nat : F[n + 1] = 2 * F[n]
    BY <1>2 DEF Orbit
  <2>2. ASSUME NEW n \in Nat, n # 0 PROVE F[n] = 2 * F[n - 1]
    <3>1. n - 1 \in Nat /\ (n - 1) + 1 = n
      BY <2>2
    <3> QED BY <2>1, <3>1
  <2> QED BY <2>1, <2>2
<1>4. Shl = [bits \in Nat |-> IF bits = 0 THEN 1 ELSE 2 * Shl[bits - 1]]
  BY <1>3, Zenon DEF Shl
<1>5. Shl[0] = 1 /\ \A n \in Nat : Shl[n + 1] = 2 * Shl[n]
  <2>1. ASSUME NEW n \in Nat PROVE n + 1 \in Nat /\ n + 1 # 0 /\ (n + 1) - 1 = n
    OBVIOUS
  <2> QED BY <1>4, <2>1
<1>6. \A n \in Nat : Shl[n] \in Nat /\ Shl[n] > 0
  <2> DEFINE S == {t \in Nat : Shl[t] \in Nat /\ Shl[t] > 0}
  <2>1. 0 \in S
    BY <1>5
  <2>2. \A n \in Nat : n \in S => n + 1 \in S
    BY <1>5
  <2> HIDE DEF S
  <2>3. \A n \in Nat : n \in S
    BY <2>1, <2>2, NatInduct
  <2> QED BY <2>3 DEF S
<1> QED BY <1>5, <1>6

LEMMA ShlSum ==
  ASSUME NEW n \in Nat, NEW d \in Nat
  PROVE  Shl[n + d] = Shl[n] * Shl[d]
<1> DEFINE S == {t \in Nat : Shl[n + t] = Shl[n] * Shl[t]}
<1>1. 0 \in S
  BY ShlIs
<1>2. ASSUME NEW t \in Nat, t \in S PROVE t + 1 \in S
  <2>1. Shl[n + (t + 1)] = 2 * Shl[n + t] /\ Shl[t + 1] = 2 * Shl[t]
    <3>1. n + (t + 1) = (n + t) + 1 /\ n + t \in Nat
      OBVIOUS
    <3> QED BY <3>1, ShlIs
  <2>2. Shl[n + t] = Shl[n] * Shl[t] /\ Shl[n] \in Nat /\ Shl[t] \in Nat
    BY <1>2, ShlIs
  <2>3. 2 * (Shl[n] * Shl[t]) = Shl[n] * (2 * Shl[t])
    BY <2>2
  <2> QED BY <2>1, <2>2, <2>3
<1> HIDE DEF S
<1>3. d \in S
  BY <1>1, <1>2, NatInduct
<1> QED BY <1>3 DEF S

LEMMA ShlGrows ==
  ASSUME NEW n \in Nat, NEW d \in Nat, n <= d
  PROVE  Shl[n] <= Shl[d] /\ Shl[d] = Shl[n] * Shl[d - n] /\ Shl[d - n] \in Nat /\ Shl[d - n] > 0
<1>1. d - n \in Nat /\ n + (d - n) = d
  OBVIOUS
<1>2. Shl[d] = Shl[n] * Shl[d - n]
  BY <1>1, ShlSum
<1>3. Shl[n] \in Nat /\ Shl[d - n] \in Nat /\ Shl[d - n] > 0
  BY <1>1, ShlIs
<1>4. Shl[n] * 1 <= Shl[n] * Shl[d - n]
  BY <1>3, Monotone
<1> QED BY <1>2, <1>3, <1>4
-----------------------------------------------------------------------------
(* Numbers with their bits reversed, as the codes are stored.              *)
LEMMA ReversedIs ==
  /\ \A C \in Nat : Reversed[0][C] = 0
  /\ \A n, C \in Nat :
       /\ Reversed[n][C] \in Nat /\ Reversed[n][C] < Shl[n]
       /\ Reversed[n + 1][C] = (C % 2) * Shl[n] + Reversed[n][C \div 2]
<1> DEFINE V == [Nat -> Nat]
           step == [z \in Nat \X V |-> [C \in Nat |-> (C % 2) * Shl[z[1]] + z[2][C \div 2]]]
           zero == [C \in Nat |-> 0]
<1>1. Within(step, V) /\ zero \in V
  <2>1. ASSUME NEW n \in Nat, NEW f \in V, NEW C \in Nat PROVE (C % 2) * Shl[n] + f[C \div 2] \in Nat
    <3>1. C % 2 \in Nat /\ C \div 2 \in Nat /\ Shl[n] \in Nat
      BY ShlIs
    <3>2. f[C \div 2] \in Nat
      BY <3>1
    <3>3. (C % 2) * Shl[n] \in Nat
      BY <3>1
    <3> QED BY <3>2, <3>3
  <2>2. ASSUME NEW z \in Nat \X V PROVE [C \in Nat |-> (C % 2) * Shl[z[1]] + z[2][C \div 2]] \in V
    <3>1. z[1] \in Nat /\ z[2] \in V
      OBVIOUS
    <3> HIDE DEF V
    <3>2. \A C \in Nat : (C % 2) * Shl[z[1]] + z[2][C \div 2] \in Nat
      BY <2>1, <3>1
    <3> QED BY <3>2 DEF V
  <2>3. step \in [Nat \X V -> V]
    <3> HIDE DEF V
    <3> QED BY <2>2
  <2> QED BY <2>3 DEF Within
<1>2. PICK F : Orbit(F, V, step, zero)
  <2> HIDE DEF step, V, zero
  <2> QED BY <1>1, Iteration
<1>3. F \in [Nat -> V] /\ F[0] = zero /\ \A n \in Nat : F[n + 1] = [C \in Nat |-> (C % 2) * Shl[n] + F[n][C \div 2]]
  <2>1. F \in [Nat -> V] /\ F[0] = zero /\ \A n \in Nat : F[n + 1] = step[<<n, F[n]>>]
    BY <1>2 DEF Orbit
  <2>2. ASSUME NEW n \in Nat PROVE <<n, F[n]>> \in Nat \X V
    <3> HIDE DEF V
    <3> QED BY <2>1
  <2> QED BY <2>1, <2>2
<1>4. F = [len \in Nat |-> [code \in Nat |->
            IF len = 0 THEN 0 ELSE (code % 2) * Shl[len - 1] + F[len - 1][code \div 2]]]
  <2> HIDE DEF V
  <2>1. ASSUME NEW n \in Nat
        PROVE  F[n] = [code \in Nat |-> IF n = 0 THEN 0 ELSE (code % 2) * Shl[n - 1] + F[n - 1][code \div 2]]
    <3>1. CASE n = 0
      BY <1>3, <3>1
    <3>2. CASE n # 0
      <4>1. n - 1 \in Nat /\ (n - 1) + 1 = n
        BY <3>2
      <4>2. F[n] = [C \in Nat |-> (C % 2) * Shl[n - 1] + F[n - 1][C \div 2]]
        BY <1>3, <4>1
      <4> QED BY <3>2, <4>2
    <3> QED BY <3>1, <3>2
  <2>2. F = [n \in Nat |-> F[n]]
    BY <1>3
  <2> QED BY <2>1, <2>2
<1>5. Reversed = [len \in Nat |-> [code \in Nat |->
            IF len = 0 THEN 0 ELSE (code % 2) * Shl[len - 1] + Reversed[len - 1][code \div 2]]]
  BY <1>4, Zenon DEF Reversed
<1> HIDE DEF V, step, zero
<1>6. \A C \in Nat : Reversed[0][C] = 0
  BY <1>5
<1>7. ASSUME NEW n \in Nat, NEW C \in Nat PROVE Reversed[n + 1][C] = (C % 2) * Shl[n] + Reversed[n][C \div 2]
  <2>1. n + 1 \in Nat /\ n + 1 # 0 /\ (n + 1) - 1 = n
    OBVIOUS
  <2> QED BY <1>5, <2>1
<1>8. \A n \in Nat : \A C \in Nat : Reversed[n][C] \in Nat /\ Reversed[n][C] < Shl[n]
  <2> DEFINE S == {n \in Nat : \A C \in Nat : Reversed[n][C] \in Nat /\ Reversed[n][C] < Shl[n]}
  <2>1. 0 \in S
    BY <1>6, ShlIs
  <2>2. ASSUME NEW n \in Nat, n \in S PROVE n + 1 \in S
    <3>1. ASSUME NEW C \in Nat PROVE Reversed[n + 1][C] \in Nat /\ Reversed[n + 1][C] < Shl[n + 1]
      <4>1. C \div 2 \in Nat /\ C % 2 \in 0 .. 1
        OBVIOUS
      <4>2. Reversed[n][C \div 2] \in Nat /\ Reversed[n][C \div 2] < Shl[n]
        BY <2>2, <4>1
      <4>3. (C % 2) * Shl[n] \in Nat /\ (C % 2) * Shl[n] <= Shl[n] /\ Shl[n + 1] = 2 * Shl[n] /\ Shl[n] \in Nat
        BY <4>1, ShlIs
      <4>4. Reversed[n + 1][C] = (C % 2) * Shl[n] + Reversed[n][C \div 2]
        BY <1>7
      <4> QED BY <4>2, <4>3, <4>4
    <3> QED BY <3>1
  <2> HIDE DEF S
  <2>3. \A n \in Nat : n \in S
    BY <2>1, <2>2, NatInduct
  <2> QED BY <2>3 DEF S
<1> QED BY <1>6, <1>7, <1>8

(* The bits of D behind those of P, reversed.                              *)
LEMMA Spliced ==
  ASSUME NEW n \in Nat, NEW d \in Nat, NEW P \in Nat, NEW D \in 0 .. Shl[d] - 1
  PROVE  Reversed[n + d][Shl[d] * P + D] = Shl[n] * Reversed[d][D] + Reversed[n][P]
<1> DEFINE S == {t \in Nat : \A E \in Nat : E < Shl[t] =>
                   Reversed[n + t][Shl[t] * P + E] = Shl[n] * Reversed[t][E] + Reversed[n][P]}
<1>1. 0 \in S
  <2>1. ASSUME NEW E \in Nat, E < Shl[0]
        PROVE  Reversed[n + 0][Shl[0] * P + E] = Shl[n] * Reversed[0][E] + Reversed[n][P]
    <3>1. E = 0 /\ Shl[0] * P + E = P /\ n + 0 = n
      BY <2>1, ShlIs
    <3>2. Reversed[0][E] = 0 /\ Reversed[n][P] \in Nat /\ Shl[n] \in Nat
      BY ReversedIs, ShlIs
    <3> QED BY <3>1, <3>2
  <2> QED BY <2>1
<1>2. ASSUME NEW t \in Nat, t \in S PROVE t + 1 \in S
  <2>1. ASSUME NEW E \in Nat, E < Shl[t + 1]
        PROVE  Reversed[n + (t + 1)][Shl[t + 1] * P + E] = Shl[n] * Reversed[t + 1][E] + Reversed[n][P]
    <3> DEFINE N == Shl[t + 1] * P + E
               B == E % 2
               H == E \div 2
    <3>1. Shl[t + 1] = 2 * Shl[t] /\ Shl[t] \in Nat /\ Shl[n] \in Nat /\ Shl[n + t] = Shl[n] * Shl[t]
      BY ShlIs, ShlSum
    <3>2. B \in 0 .. 1 /\ H \in Nat /\ E = 2 * H + B /\ H < Shl[t]
      BY <2>1, <3>1
    <3>3. Shl[t] * P \in Nat
      BY <3>1
    <3>4. N = 2 * (Shl[t] * P + H) + B
      <4>1. (2 * Shl[t]) * P = 2 * (Shl[t] * P)
        BY <3>1
      <4> HIDE DEF B, H
      <4> QED BY <3>1, <3>2, <3>3, <4>1
    <3>5. N \in Nat /\ N % 2 = B /\ N \div 2 = Shl[t] * P + H
      <4> DEFINE M == Shl[t] * P + H
      <4>1. M \in Nat
        BY <3>2, <3>3
      <4>2. N = 2 * M + B
        BY <3>4
      <4> HIDE DEF M, B, H, N
      <4>3. N \in Nat /\ N % 2 = B /\ N \div 2 = M
        BY <3>2, <4>1, <4>2
      <4> QED BY <4>3 DEF M
    <3>6. n + (t + 1) = (n + t) + 1 /\ n + t \in Nat
      OBVIOUS
    <3>7. Reversed[(n + t) + 1][N] = B * Shl[n + t] + Reversed[n + t][Shl[t] * P + H]
      <4> HIDE DEF N, B, H
      <4>1. Reversed[(n + t) + 1][N] = (N % 2) * Shl[n + t] + Reversed[n + t][N \div 2]
        BY <3>5, <3>6, ReversedIs
      <4> QED BY <3>5, <4>1
    <3>8. Reversed[n + t][Shl[t] * P + H] = Shl[n] * Reversed[t][H] + Reversed[n][P]
      BY <1>2, <3>2
    <3>9. Reversed[t + 1][E] = B * Shl[t] + Reversed[t][H]
      BY ReversedIs
    <3>10. Reversed[t][H] \in Nat /\ Reversed[n][P] \in Nat
      BY <3>2, ReversedIs
    <3> HIDE DEF N, B, H
    <3>11. Shl[n] * (B * Shl[t] + Reversed[t][H]) = B * (Shl[n] * Shl[t]) + Shl[n] * Reversed[t][H]
      <4> DEFINE T == Shl[t]
                 U == Shl[n]
                 R == Reversed[t][H]
      <4>1. T \in Nat /\ U \in Nat /\ R \in Nat /\ B \in 0 .. 1
        BY <3>1, <3>2, <3>10
      <4> HIDE DEF T, U, R
      <4>2. U * (B * T + R) = B * (U * T) + U * R
        BY ONLY <4>1
      <4> QED BY <4>2 DEF T, U, R
    <3>12. Shl[n] * Reversed[t][H] \in Nat /\ B * (Shl[n] * Shl[t]) \in Nat
      BY <3>1, <3>2, <3>10
    <3> QED BY <3>1, <3>6, <3>7, <3>8, <3>9, <3>10, <3>11, <3>12 DEF N
  <2> QED BY <2>1
<1> HIDE DEF S
<1>3. d \in S
  BY <1>1, <1>2, NatInduct
<1> QED BY <1>3, ShlIs DEF S

LEMMA ReversedType ==
  ASSUME NEW n \in Nat, NEW C \in Nat
  PROVE  /\ Reversed[n][C] \in Nat /\ Reversed[n][C] < Shl[n] /\ Reversed[n][C] \in 0 .. Shl[n] - 1
         /\ Shl[n] \in Nat /\ Shl[n] > 0
         /\ Reversed[0][C] = 0
<1>1. Reversed[n][C] \in Nat /\ Reversed[n][C] < Shl[n] /\ Reversed[0][C] = 0
  BY ReversedIs
<1>2. Shl[n] \in Nat /\ Shl[n] > 0
  BY ShlIs
<1> QED BY <1>1, <1>2

(* The same of a number and a length that are taken apart.                 *)
Taken(n, d, N) ==
  /\ Reversed[n + d][N] % Shl[n] = Reversed[n][N \div Shl[d]]
  /\ Reversed[n + d][N] \div Shl[n] = Reversed[d][N % Shl[d]]
  /\ N \div Shl[d] \in Nat /\ N % Shl[d] \in 0 .. Shl[d] - 1
  /\ N = Shl[d] * (N \div Shl[d]) + (N % Shl[d])

LEMMA TakenApart ==
  ASSUME NEW n \in Nat, NEW d \in Nat, NEW N \in Nat
  PROVE  Taken(n, d, N)
<1> DEFINE P == N \div Shl[d]
           D == N % Shl[d]
<1>1. Shl[d] \in Nat /\ Shl[d] > 0 /\ Shl[n] \in Nat /\ Shl[n] > 0
  BY ShlIs
<1>2. P \in Nat /\ D \in 0 .. Shl[d] - 1 /\ N = Shl[d] * P + D
  BY <1>1, Divided, Remains
<1> HIDE DEF P, D
<1>3. Reversed[n + d][N] = Shl[n] * Reversed[d][D] + Reversed[n][P]
  BY <1>2, Spliced
<1>4. Reversed[d][D] \in Nat /\ Reversed[n][P] \in Nat /\ Reversed[n][P] < Shl[n]
  BY <1>1, <1>2, ReversedType
<1>5. Reversed[n + d][N] % Shl[n] = Reversed[n][P] /\ Reversed[n + d][N] \div Shl[n] = Reversed[d][D]
  <2> DEFINE M == Shl[n]
             Q == Reversed[d][D]
             R == Reversed[n][P]
             T == Reversed[n + d][N]
  <2>1. M \in Nat /\ M > 0 /\ Q \in Nat /\ R \in Nat /\ R < M /\ T = M * Q + R
    BY <1>1, <1>3, <1>4
  <2> HIDE DEF M, Q, R, T
  <2>2. T % M = R /\ T \div M = Q
    BY <2>1, DividedIs
  <2> QED BY <2>2 DEF M, Q, R, T
<1>6. /\ Reversed[n + d][N] % Shl[n] = Reversed[n][N \div Shl[d]]
      /\ Reversed[n + d][N] \div Shl[n] = Reversed[d][N % Shl[d]]
      /\ N \div Shl[d] \in Nat /\ N % Shl[d] \in 0 .. Shl[d] - 1
      /\ N = Shl[d] * (N \div Shl[d]) + (N % Shl[d])
  BY <1>2, <1>5 DEF P, D
<1> QED BY <1>6, Zenon DEF Taken

(* Reversed twice, the bits are as they were.                              *)
LEMMA ReversedTwice ==
  ASSUME NEW n \in Nat, NEW C \in 0 .. Shl[n] - 1
  PROVE  Reversed[n][C] \in 0 .. Shl[n] - 1 /\ Reversed[n][Reversed[n][C]] = C
<1> DEFINE S == {t \in Nat : \A E \in Nat : E < Shl[t] => Reversed[t][Reversed[t][E]] = E}
<1>1. 0 \in S
  <2>1. ASSUME NEW E \in Nat, E < Shl[0] PROVE Reversed[0][Reversed[0][E]] = E
    <3>1. E = 0 /\ 0 \in Nat
      BY <2>1, ShlIs
    <3>2. Reversed[0][0] = 0
      BY ReversedType
    <3> QED BY <3>1, <3>2
  <2> QED BY <2>1
<1>2. ASSUME NEW t \in Nat, t \in S PROVE t + 1 \in S
  <2>1. ASSUME NEW E \in Nat, E < Shl[t + 1] PROVE Reversed[t + 1][Reversed[t + 1][E]] = E
    <3> DEFINE B == E % 2
               H == E \div 2
               R == Reversed[t][H]
    <3>1. Shl[t + 1] = 2 * Shl[t] /\ Shl[t] \in Nat
      BY ShlIs
    <3>2. B \in 0 .. 1 /\ H \in Nat /\ E = 2 * H + B /\ H < Shl[t]
      BY <2>1, <3>1
    <3>3. R \in Nat /\ R < Shl[t] /\ Reversed[t][R] = H
      <4> HIDE DEF H
      <4> QED BY <1>2, <3>2, ReversedIs
    <3>4. Reversed[t + 1][E] = B * Shl[t] + R
      BY ReversedIs
    <3> HIDE DEF B, H, R
    <3>5. Reversed[1 + t][Shl[t] * B + R] = Shl[1] * Reversed[t][R] + Reversed[1][B]
      <4>1. B \in Nat /\ R \in 0 .. Shl[t] - 1
        BY <3>1, <3>2, <3>3
      <4> QED BY <4>1, Spliced
    <3>6. Shl[1] = 2 /\ Reversed[1][B] = B
      <4>1. Shl[0 + 1] = 2 /\ 0 + 1 = 1 /\ Shl[0] = 1
        BY ShlIs
      <4>2. Reversed[0 + 1][B] = (B % 2) * Shl[0] + Reversed[0][B \div 2]
        BY <3>2, ReversedIs
      <4>3. B % 2 = B /\ B \div 2 = 0
        BY <3>2
      <4>4. Reversed[0][0] = 0
        BY ReversedIs
      <4> QED BY <3>2, <4>1, <4>2, <4>3, <4>4
    <3>7. Shl[t] * B + R = B * Shl[t] + R /\ 1 + t = t + 1
      BY <3>1, <3>2
    <3> QED BY <3>2, <3>3, <3>4, <3>5, <3>6, <3>7
  <2> QED BY <2>1
<1> HIDE DEF S
<1>3. n \in S
  BY <1>1, <1>2, NatInduct
<1>4. Reversed[n][C] \in 0 .. Shl[n] - 1
  <2>1. C \in Nat
    BY ShlIs
  <2> QED BY <2>1, ReversedType
<1> QED BY <1>3, <1>4, ShlIs DEF S

(* A zero behind the last bit changes nothing.                             *)
LEMMA Doubled ==
  ASSUME NEW n \in Nat, NEW N \in Nat
  PROVE  Reversed[n + 1][2 * N] = Reversed[n][N]
<1>1. 2 * N \in Nat /\ (2 * N) % 2 = 0 /\ (2 * N) \div 2 = N
  OBVIOUS
<1>2. Reversed[n + 1][2 * N] = ((2 * N) % 2) * Shl[n] + Reversed[n][(2 * N) \div 2]
  BY <1>1, ReversedIs
<1> QED BY <1>1, <1>2, ReversedType

(* The backwards increment takes the reversed code to that of the next     *)
(* number.                                                                 *)
LEMMA CarryIs ==
  /\ \A C \in Nat : Carry[0][C] = C
  /\ \A n, C \in Nat : Carry[n + 1][C] = IF C >= Shl[n] THEN Carry[n][C - Shl[n]] ELSE C + Shl[n]
<1> DEFINE V == [Nat -> Nat]
           step == [z \in Nat \X V |-> [C \in Nat |-> IF C >= Shl[z[1]] THEN z[2][C - Shl[z[1]]] ELSE C + Shl[z[1]]]]
           same == [C \in Nat |-> C]
<1>1. Within(step, V) /\ same \in V
  <2>1. ASSUME NEW n \in Nat, NEW f \in V, NEW C \in Nat
        PROVE  (IF C >= Shl[n] THEN f[C - Shl[n]] ELSE C + Shl[n]) \in Nat
    <3>1. Shl[n] \in Nat
      BY ShlIs
    <3>2. ASSUME C >= Shl[n] PROVE f[C - Shl[n]] \in Nat
      <4>1. C - Shl[n] \in Nat
        BY <3>1, <3>2
      <4> QED BY <4>1
    <3> QED BY <3>1, <3>2
  <2>2. ASSUME NEW z \in Nat \X V
        PROVE  [C \in Nat |-> IF C >= Shl[z[1]] THEN z[2][C - Shl[z[1]]] ELSE C + Shl[z[1]]] \in V
    <3>1. z[1] \in Nat /\ z[2] \in V
      OBVIOUS
    <3> HIDE DEF V
    <3>2. \A C \in Nat : (IF C >= Shl[z[1]] THEN z[2][C - Shl[z[1]]] ELSE C + Shl[z[1]]) \in Nat
      BY <2>1, <3>1
    <3> QED BY <3>2 DEF V
  <2>3. step \in [Nat \X V -> V]
    <3> HIDE DEF V
    <3> QED BY <2>2
  <2> QED BY <2>3 DEF Within
<1>2. PICK F : Orbit(F, V, step, same)
  <2> HIDE DEF step, V, same
  <2> QED BY <1>1, Iteration
<1>3. /\ F \in [Nat -> V] /\ F[0] = same
      /\ \A n \in Nat : F[n + 1] = [C \in Nat |-> IF C >= Shl[n] THEN F[n][C - Shl[n]] ELSE C + Shl[n]]
  <2>1. F \in [Nat -> V] /\ F[0] = same /\ \A n \in Nat : F[n + 1] = step[<<n, F[n]>>]
    BY <1>2 DEF Orbit
  <2>2. ASSUME NEW n \in Nat PROVE <<n, F[n]>> \in Nat \X V
    <3> HIDE DEF V
    <3> QED BY <2>1
  <2> QED BY <2>1, <2>2
<1>4. F = [len \in Nat |-> [code \in Nat |->
            IF len = 0 THEN code
            ELSE IF code >= Shl[len - 1] THEN F[len - 1][code - Shl[len - 1]]
            ELSE code + Shl[len - 1]]]
  <2> HIDE DEF V
  <2>1. ASSUME NEW n \in Nat
        PROVE  F[n] = [code \in Nat |->
                         IF n = 0 THEN code
                         ELSE IF code >= Shl[n - 1] THEN F[n - 1][code - Shl[n - 1]]
                         ELSE code + Shl[n - 1]]
    <3>1. CASE n = 0
      BY <1>3, <3>1
    <3>2. CASE n # 0
      <4>1. n - 1 \in Nat /\ (n - 1) + 1 = n
        BY <3>2
      <4>2. F[n] = [C \in Nat |-> IF C >= Shl[n - 1] THEN F[n - 1][C - Shl[n - 1]] ELSE C + Shl[n - 1]]
        BY <1>3, <4>1
      <4> QED BY <3>2, <4>2
    <3> QED BY <3>1, <3>2
  <2>2. F = [n \in Nat |-> F[n]]
    BY <1>3
  <2> QED BY <2>1, <2>2
<1>5. Carry = [len \in Nat |-> [code \in Nat |->
                IF len = 0 THEN code
                ELSE IF code >= Shl[len - 1] THEN Carry[len - 1][code - Shl[len - 1]]
                ELSE code + Shl[len - 1]]]
  BY <1>4, Zenon DEF Carry
<1>6. ASSUME NEW n \in Nat PROVE n + 1 \in Nat /\ n + 1 # 0 /\ (n + 1) - 1 = n
  OBVIOUS
<1> QED BY <1>5, <1>6

LEMMA Incremented ==
  ASSUME NEW n \in Nat, NEW C \in Nat
  PROVE  Increment(Reversed[n][C], n) = Reversed[n][C + 1]
<1> DEFINE S == {t \in Nat : \A E \in Nat : Carry[t][Reversed[t][E]] = Reversed[t][E + 1]}
<1>1. 0 \in S
  BY ReversedIs, CarryIs
<1>2. ASSUME NEW t \in Nat, t \in S PROVE t + 1 \in S
  <2>1. ASSUME NEW E \in Nat PROVE Carry[t + 1][Reversed[t + 1][E]] = Reversed[t + 1][E + 1]
    <3> DEFINE H == E \div 2
               R == Reversed[t][H]
               Q == Reversed[t + 1][E]
    <3>1. Shl[t] \in Nat /\ H \in Nat /\ R \in Nat /\ R < Shl[t]
      <4>1. H \in Nat
        OBVIOUS
      <4> QED BY <4>1, ReversedIs, ShlIs
    <3>2. Q = (E % 2) * Shl[t] + R /\ Q \in Nat
      BY ReversedIs
    <3>3. Carry[t + 1][Q] = IF Q >= Shl[t] THEN Carry[t][Q - Shl[t]] ELSE Q + Shl[t]
      BY <3>2, CarryIs
    <3>4. Reversed[t + 1][E + 1] = ((E + 1) % 2) * Shl[t] + Reversed[t][(E + 1) \div 2]
      BY ReversedIs
    <3>5. CASE E % 2 = 0
      <4>1. (E + 1) % 2 = 1 /\ (E + 1) \div 2 = H
        BY <3>5
      <4> HIDE DEF Q, H
      <4>2. Q = R
        BY <3>1, <3>2, <3>5
      <4>3. Reversed[t + 1][E + 1] = Shl[t] + R
        BY <3>1, <3>4, <4>1
      <4> QED BY <3>1, <3>3, <4>2, <4>3 DEF Q
    <3>6. CASE E % 2 = 1
      <4>1. (E + 1) % 2 = 0 /\ (E + 1) \div 2 = H + 1
        BY <3>6
      <4>2. Carry[t][R] = Reversed[t][H + 1]
        BY <1>2, <3>1
      <4> HIDE DEF Q, H, R
      <4>3. Q = Shl[t] + R
        BY <3>1, <3>2, <3>6
      <4>4. Q >= Shl[t] /\ Q - Shl[t] = R
        BY <3>1, <4>3
      <4>5. Reversed[t][H + 1] \in Nat
        BY <3>1, ReversedIs
      <4>6. Reversed[t + 1][E + 1] = Reversed[t][H + 1]
        BY <3>1, <3>4, <4>1, <4>5
      <4> QED BY <3>3, <4>2, <4>4, <4>6 DEF Q
    <3> QED BY <3>5, <3>6
  <2> QED BY <2>1
<1> HIDE DEF S
<1>3. n \in S
  BY <1>1, <1>2, NatInduct
<1> QED BY <1>3 DEF S, Increment

LEMMA ReversedZero ==
  ASSUME NEW n \in Nat
  PROVE  Reversed[n][0] = 0
<1> DEFINE S == {t \in Nat : Reversed[t][0] = 0}
<1>1. 0 \in S
  BY ReversedType
<1>2. ASSUME NEW t \in Nat, t \in S PROVE t + 1 \in S
  <2>1. Reversed[t + 1][2 * 0] = Reversed[t][0]
    BY Doubled
  <2> QED BY <1>2, <2>1
<1> HIDE DEF S
<1>3. n \in S
  BY <1>1, <1>2, NatInduct
<1> QED BY <1>3 DEF S

(* Numbers that end in zeros.                                              *)
LEMMA ModMod ==
  ASSUME NEW n \in Nat, NEW d \in Nat, n <= d, NEW N \in Nat
  PROVE  (N % Shl[d]) % Shl[n] = N % Shl[n]
<1> DEFINE A == Shl[n]
           B == Shl[d - n]
           q == N \div Shl[d]
           r == N % Shl[d]
           s == r \div A
           t == r % A
<1>1. A \in Nat /\ A > 0 /\ B \in Nat /\ B > 0 /\ Shl[d] = A * B /\ Shl[d] \in Nat /\ Shl[d] > 0
  BY ShlGrows, ShlIs
<1>2. q \in Nat /\ r \in 0 .. Shl[d] - 1 /\ N = Shl[d] * q + r
  BY <1>1, Divided, Remains
<1> HIDE DEF q, r
<1>3. s \in Nat /\ t \in 0 .. A - 1 /\ r = A * s + t
  BY <1>1, <1>2, Divided, Remains
<1> HIDE DEF A, B, s, t
<1>4. N = A * (B * q + s) + t /\ B * q + s \in Nat
  <2>1. B * q \in Nat /\ (A * B) * q = A * (B * q) /\ A * (B * q + s) = A * (B * q) + A * s /\ A * s \in Int /\ A * (B * q) \in Int
    <3>1. B * q \in Nat
      BY <1>1, <1>2
    <3> QED BY <1>1, <1>2, <1>3, <3>1, Ring
  <2> QED BY <1>1, <1>2, <1>3, <2>1
<1>5. N % A = t
  <2> DEFINE Q == B * q + s
  <2>1. A \in Nat /\ A > 0 /\ Q \in Nat /\ t \in Nat /\ t < A /\ N = A * Q + t
    BY <1>1, <1>3, <1>4
  <2> HIDE DEF Q
  <2> QED BY ONLY <2>1, DividedIs
<1> QED BY <1>5 DEF A, t, r

LEMMA AlignedLess ==
  ASSUME NEW n \in Nat, NEW d \in Nat, n <= d, NEW N \in Nat, N % Shl[d] = 0
  PROVE  N % Shl[n] = 0
<1>1. (N % Shl[d]) % Shl[n] = N % Shl[n]
  BY ModMod
<1>2. Shl[n] \in Nat /\ Shl[n] > 0
  BY ShlIs
<1>3. 0 % Shl[n] = 0
  BY <1>2
<1> QED BY <1>1, <1>3

LEMMA AlignedDouble ==
  ASSUME NEW n \in Nat, NEW N \in Nat, n > 0 => N % Shl[n] = 0
  PROVE  (2 * N) % Shl[n + 1] = 0
<1> DEFINE A == Shl[n]
           q == N \div A
<1>1. A \in Nat /\ A > 0 /\ Shl[n + 1] = 2 * A
  BY ShlIs
<1>2. N % A = 0
  <2>1. CASE n = 0
    <3>1. Shl[0] = 1
      BY ShlIs
    <3>2. N % 1 = 0
      OBVIOUS
    <3> QED BY <2>1, <3>1, <3>2
  <2> QED BY <2>1
<1>3. q \in Nat /\ N = A * q
  <2>1. q \in Nat /\ A * q \in Nat
    BY <1>1, Divided
  <2>2. N = A * q + (N % A)
    BY <1>1, Remains
  <2> HIDE DEF A, q
  <2> QED BY <1>2, <2>1, <2>2
<1> HIDE DEF A, q
<1>4. 2 * N = (2 * A) * q + 0
  <2>1. 2 * (A * q) = (2 * A) * q /\ (2 * A) * q \in Int
    BY <1>1, <1>3
  <2> QED BY <1>3, <2>1
<1> DEFINE M == 2 * A
<1>5. M \in Nat /\ M > 0 /\ 2 * N = M * q + 0
  BY <1>1, <1>4
<1> HIDE DEF M
<1>6. (M * q + 0) % M = 0
  BY <1>3, <1>5, DividedIs
<1>7. (2 * N) % M = 0
  BY <1>5, <1>6
<1> QED BY <1>1, <1>7 DEF M

LEMMA Aligned ==
  ASSUME NEW n \in Nat, NEW d \in Nat, NEW N \in Nat, N % Shl[d] = 0
  PROVE  Reversed[n + d][N] < Shl[n] /\ Reversed[n + d][N] % Shl[n] = Reversed[n + d][N]
<1> DEFINE R == Reversed[n + d][N]
<1>1. R \div Shl[n] = 0
  <2>1. R \div Shl[n] = Reversed[d][0]
    <3>1. Taken(n, d, N)
      BY TakenApart
    <3> QED BY <3>1 DEF Taken
  <2>2. Reversed[d][0] = 0
    BY ReversedZero
  <2> QED BY <2>1, <2>2
<1>2. R \in Nat /\ Shl[n] \in Nat /\ Shl[n] > 0
  <2>1. n + d \in Nat
    OBVIOUS
  <2> QED BY <2>1, ReversedType, ShlIs
<1> HIDE DEF R
<1>3. R = Shl[n] * (R \div Shl[n]) + (R % Shl[n]) /\ R % Shl[n] \in 0 .. Shl[n] - 1
  BY <1>2, Remains
<1>4. Shl[n] * 0 = 0
  BY <1>2
<1>5. R = 0 + (R % Shl[n])
  BY <1>1, <1>3, <1>4
<1>6. R = R % Shl[n] /\ R < Shl[n]
  BY <1>2, <1>3, <1>5
<1> QED BY <1>6 DEF R

(* The bits before change with the increment only if those behind have     *)
(* run through.                                                            *)
LEMMA Moved ==
  ASSUME NEW n \in Nat, NEW d \in Nat, NEW N \in Nat, N > 0,
         Reversed[n + d][N] % Shl[n] # Reversed[n + d][N - 1] % Shl[n]
  PROVE  /\ N % Shl[d] = 0 /\ N \div Shl[d] = (N - 1) \div Shl[d] + 1
         /\ N = Shl[d] * (((N - 1) \div Shl[d]) + 1)
<1> DEFINE A == Shl[d]
           q == (N - 1) \div A
           r == (N - 1) % A
<1>1. A \in Nat /\ A > 0 /\ N - 1 \in Nat
  BY ShlIs
<1>2. q \in Nat /\ r \in 0 .. A - 1 /\ N - 1 = A * q + r
  BY <1>1, Divided, Remains
<1>3. N \div A # q
  <2>1. Reversed[n + d][N] % Shl[n] = Reversed[n][N \div A]
    <3>1. Taken(n, d, N)
      BY TakenApart
    <3> QED BY <3>1, Zenon DEF Taken
  <2>2. Reversed[n + d][N - 1] % Shl[n] = Reversed[n][q]
    <3>1. Taken(n, d, N - 1)
      BY <1>1, TakenApart
    <3> QED BY <3>1, Zenon DEF Taken
  <2> QED BY <2>1, <2>2
<1> HIDE DEF A, q, r
<1>4. A * q \in Nat /\ A * (q + 1) = A * q + A
  BY <1>1, <1>2
<1>5. r = A - 1
  <2> SUFFICES ASSUME r + 1 < A PROVE FALSE
    BY <1>1, <1>2
  <2>1. r + 1 \in Nat /\ N = A * q + (r + 1)
    BY <1>2, <1>4
  <2>2. (A * q + (r + 1)) \div A = q
    BY <1>1, <1>2, <2>1, DividedIs
  <2> QED BY <1>3, <2>1, <2>2
<1>6. N = A * (q + 1) /\ q + 1 \in Nat
  BY <1>1, <1>2, <1>4, <1>5
<1> DEFINE e == q + 1
<1>7. e \in Nat /\ N = A * e + 0
  BY <1>1, <1>4, <1>6
<1> HIDE DEF e
<1>8. (A * e + 0) \div A = e /\ (A * e + 0) % A = 0
  BY <1>1, <1>7, DividedIs
<1> QED BY <1>6, <1>7, <1>8 DEF A, q, e
-----------------------------------------------------------------------------
(* The code lengths, and how many there are of each.                       *)
Below(n) == Cardinality({s \in Used : b[s] < n})

LEMMA Lengths ==
  ASSUME b \in LengthLists
  PROVE  /\ BMAX \in Nat
         /\ \E n \in Nat : n > 0 /\ Symbols = 0 .. n - 1 /\ Cardinality(Symbols) = n
         /\ IsFiniteSet(Symbols) /\ Symbols \subseteq Nat /\ Cardinality(Symbols) \in Nat
         /\ \A s \in Symbols : b[s] \in 0 .. BMAX /\ b[s] \in Nat
         /\ Used \subseteq Symbols /\ IsFiniteSet(Used) /\ Cardinality(Used) \in Nat
         /\ Cardinality(Used) <= Cardinality(Symbols)
<1>1. BMAX \in Nat /\ \E n \in 1 .. Cardinality(DOMAIN b) : b \in [0 .. n - 1 -> 0 .. BMAX]
  BY ListsOK
<1>2. PICK n \in 1 .. Cardinality(DOMAIN b) : b \in [0 .. n - 1 -> 0 .. BMAX]
  BY <1>1
<1>3. Symbols = 0 .. n - 1
  BY <1>2 DEF Symbols
<1>4. n \in Int
  BY <1>2
<1>5. IsFiniteSet(0 .. n - 1) /\ Cardinality(0 .. n - 1) = IF 0 > n - 1 THEN 0 ELSE (n - 1) - 0 + 1
  BY <1>4, FS_Interval
<1>6. n \in Nat /\ n > 0 /\ Cardinality(Symbols) = n
  <2>1. Cardinality(DOMAIN b) \in Nat
    BY <1>3, <1>4, <1>5 DEF Symbols
  <2>2. n \in Nat /\ n > 0
    BY <1>2, <2>1
  <2> QED BY <1>3, <1>5, <2>2
<1>7. Used \subseteq Symbols
  BY DEF Used
<1>8. IsFiniteSet(Symbols)
  BY <1>3, <1>5
<1>9. IsFiniteSet(Used) /\ Cardinality(Used) \in Nat /\ Cardinality(Used) <= Cardinality(Symbols)
  BY <1>7, <1>8, FS_Subset, FS_CardinalityType
<1>10. \A s \in Symbols : b[s] \in 0 .. BMAX /\ b[s] \in Nat
  BY <1>1, <1>2, <1>3
<1> QED BY <1>1, <1>3, <1>6, <1>7, <1>8, <1>9, <1>10

LEMMA Counted ==
  ASSUME b \in LengthLists, NEW T, T \subseteq Symbols
  PROVE  IsFiniteSet(T) /\ Cardinality(T) \in Nat
BY Lengths, FS_Subset, FS_CardinalityType

LEMMA CountedIn ==
  ASSUME b \in LengthLists, NEW T, T \subseteq Symbols, NEW S, S \subseteq T
  PROVE  Cardinality(S) <= Cardinality(T) /\ (S # T => Cardinality(S) < Cardinality(T))
<1>1. IsFiniteSet(T) /\ Cardinality(T) \in Nat /\ IsFiniteSet(S) /\ Cardinality(S) \in Nat
  BY Counted
<1>2. S \in SUBSET T
  OBVIOUS
<1>3. Cardinality(S) <= Cardinality(T) /\ (Cardinality(S) = Cardinality(T) => S = T)
  BY <1>1, <1>2, FS_Subset
<1> QED BY <1>1, <1>3

LEMMA CountedApart ==
  ASSUME b \in LengthLists, NEW S, S \subseteq Symbols, NEW T, T \subseteq Symbols, S \cap T = {}
  PROVE  Cardinality(S \union T) = Cardinality(S) + Cardinality(T)
<1>1. IsFiniteSet(T) /\ Cardinality(T) \in Nat /\ IsFiniteSet(S) /\ Cardinality(S) \in Nat
  BY Counted
<1>2. Cardinality(S \union T) = Cardinality(S) + Cardinality(T) - Cardinality(S \cap T)
  BY <1>1, FS_Union
<1>3. Cardinality(S \cap T) = 0
  BY FS_EmptySet
<1> QED BY <1>1, <1>2, <1>3

LEMMA CardinalIs ==
  ASSUME b \in LengthLists, NEW n \in Nat
  PROVE  /\ Cardinal(n) \in Nat /\ Below(n) \in Nat /\ Below(n) <= Cardinality(Used)
         /\ n > 0 => Below(n + 1) = Below(n) + Cardinal(n)
<1> DEFINE L == {s \in Used : b[s] < n}
           E == {s \in Symbols : b[s] = n}
<1>1. L \subseteq Symbols /\ L \subseteq Used /\ E \subseteq Symbols /\ L \cap E = {} /\ Used \subseteq Symbols
  BY Lengths DEF Used
<1>2. n > 0 => {s \in Used : b[s] < n + 1} = L \union E
  BY Lengths DEF Used
<1>3. Cardinality(L) = Below(n) /\ Cardinality(E) = Cardinal(n)
  BY DEF Below, Cardinal
<1> HIDE DEF L, E
<1>4. Cardinality(L) \in Nat /\ Cardinality(E) \in Nat
  BY <1>1, Counted
<1>5. Cardinality(L) <= Cardinality(Used)
  BY <1>1, CountedIn
<1>6. Cardinality(L \union E) = Cardinality(L) + Cardinality(E)
  BY <1>1, CountedApart
<1>7. n > 0 => Below(n + 1) = Cardinality(L \union E)
  BY <1>2 DEF Below
<1> QED BY <1>3, <1>4, <1>5, <1>6, <1>7

(* A set of numbers has a least one, and a greatest if it is bounded.      *)
LEMMA Least ==
  ASSUME NEW T, T \subseteq Nat, NEW n \in T
  PROVE  Min(T) \in T /\ \A r \in T : Min(T) <= r
<1> DEFINE R == OpToRel(<, Nat)
<1>1. \A r, s \in Nat : r < s => <<r, s>> \in R
  BY Zenon DEF OpToRel
<1>2. IsWellFoundedOn(R, Nat)
  BY NatLessThanWellFounded
<1> HIDE DEF R
<1>3. PICK r \in T : \A s \in T : <<s, r>> \notin R
  BY <1>2, WFMin, Zenon
<1>4. \A s \in T : r <= s
  <2> TAKE s \in T
  <2>1. s \in Nat /\ r \in Nat /\ ~(s < r)
    BY <1>1, <1>3
  <2> QED BY <2>1
<1>5. \E s \in T : \A t \in T : s =< t
  BY <1>3, <1>4
<1> QED BY <1>5, Zenon DEF Min

LEMMA Greatest ==
  ASSUME NEW T, NEW d \in Nat, T \subseteq 0 .. d, NEW n \in T
  PROVE  Max(T) \in T /\ \A r \in T : r <= Max(T)
<1> DEFINE S == {r \in Nat : r <= d /\ d - r \in T}
<1>1. d - n \in S /\ S \subseteq Nat
  OBVIOUS
<1>2. Min(S) \in S /\ \A r \in S : Min(S) <= r
  <2> HIDE DEF S
  <2> QED BY <1>1, Least
<1> DEFINE e == Min(S)
<1>3. e \in Nat /\ d - e \in T /\ \A r \in S : e <= r
  BY <1>2
<1> HIDE DEF e
<1>4. \A r \in T : d - e >= r
  <2> TAKE r \in T
  <2>1. r \in Nat /\ d - r \in Nat /\ d - r \in S
    <3>1. r \in 0 .. d /\ d - (d - r) = r
      OBVIOUS
    <3> QED BY <3>1
  <2>2. e <= d - r
    BY <1>3, <2>1
  <2> QED BY <1>3, <2>1, <2>2
<1>5. \E s \in T : \A t \in T : s >= t
  BY <1>3, <1>4
<1>6. Max(T) \in T /\ \A r \in T : Max(T) >= r
  BY <1>5, Zenon DEF Max
<1> QED
  <2>1. \A r \in T : r \in 0 .. d
    OBVIOUS
  <2>2. \A r \in T : r \in Int
    BY <2>1
  <2>3. Max(T) \in Int
    BY <1>6, <2>2
  <2> QED BY <1>6, <2>2, <2>3

LEMMA Extremes ==
  ASSUME b \in LengthLists, Used # {}
  PROVE  /\ Shortest \in 1 .. BMAX /\ Longest \in 1 .. BMAX /\ Shortest <= Longest
         /\ Shortest \in Nat /\ Longest \in Nat
         /\ \A s \in Used : b[s] \in Shortest .. Longest
         /\ Cardinal(Longest) > 0
         /\ \A n \in Nat : n > 0 /\ n < Shortest => Cardinal(n) = 0
         /\ Below(Shortest) = 0
         /\ Below(Longest + 1) = Cardinality(Used)
<1> DEFINE T == {b[s] : s \in Used}
<1>1. BMAX \in Nat /\ Used \subseteq Symbols /\ \A s \in Used : b[s] \in 1 .. BMAX
  BY Lengths DEF Used
<1>2. PICK s \in Used : TRUE
  OBVIOUS
<1>3. T \subseteq Nat /\ T \subseteq 0 .. BMAX /\ b[s] \in T
  BY <1>1, <1>2
<1>4. Min(T) \in T /\ Max(T) \in T /\ \A r \in T : Min(T) <= r /\ r <= Max(T)
  <2> HIDE DEF T
  <2> QED BY <1>1, <1>3, Least, Greatest
<1>5. Shortest = Min(T) /\ Longest = Max(T)
  BY DEF Shortest, Longest
<1>6. \A r \in T : r \in 1 .. BMAX
  BY <1>1
<1>7. \A t \in Used : b[t] \in T
  OBVIOUS
<1>8. PICK t \in Used : b[t] = Longest
  BY <1>4, <1>5
<1> HIDE DEF T
<1>9. Shortest \in 1 .. BMAX /\ Longest \in 1 .. BMAX /\ Shortest <= Longest
  BY <1>4, <1>5, <1>6
<1>10. \A r \in Used : b[r] \in Shortest .. Longest
  BY <1>4, <1>5, <1>6, <1>7
<1>11. Cardinal(Longest) > 0
  <2>1. {} \subseteq {r \in Symbols : b[r] = Longest} /\ {r \in Symbols : b[r] = Longest} # {}
    BY <1>1, <1>8
  <2>2. Cardinality({}) < Cardinality({r \in Symbols : b[r] = Longest})
    <3> DEFINE S == {r \in Symbols : b[r] = Longest}
    <3>1. S \subseteq Symbols /\ {} \subseteq S /\ {} # S
      BY <2>1
    <3> HIDE DEF S
    <3>2. Cardinality({}) < Cardinality(S)
      BY <3>1, CountedIn
    <3> QED BY <3>2 DEF S
  <2>3. Cardinality({}) = 0
    BY FS_EmptySet
  <2> QED BY <2>2, <2>3 DEF Cardinal
<1>12. ASSUME NEW n \in Nat, n > 0, n < Shortest PROVE Cardinal(n) = 0
  <2>1. {r \in Symbols : b[r] = n} = {}
    <3>1. ASSUME NEW r \in Symbols, b[r] = n PROVE FALSE
      <4>1. r \in Used
        BY <1>12, <3>1 DEF Used
      <4> QED BY <1>9, <1>10, <1>12, <3>1, <4>1
    <3> QED BY <3>1
  <2> QED BY <2>1, FS_EmptySet DEF Cardinal
<1>13. Below(Shortest) = 0
  <2>1. {r \in Used : b[r] < Shortest} = {}
    BY <1>9, <1>10
  <2> QED BY <2>1, FS_EmptySet DEF Below
<1>14. Below(Longest + 1) = Cardinality(Used)
  <2>1. {r \in Used : b[r] < Longest + 1} = Used
    BY <1>9, <1>10
  <2> QED BY <2>1 DEF Below
<1> QED BY <1>1, <1>9, <1>10, <1>11, <1>12, <1>13, <1>14
-----------------------------------------------------------------------------
(* The first codes of the lengths, and the patterns left over.             *)
LEMMA FirstCodeIs ==
  ASSUME b \in LengthLists
  PROVE  /\ FirstCode[0] = 0 /\ FirstCode[1] = 0
         /\ \A n \in Nat : FirstCode[n] \in Nat /\ (n > 0 => FirstCode[n + 1] = 2 * (FirstCode[n] + Cardinal(n)))
<1> DEFINE step == [z \in Nat \X Nat |-> IF z[1] + 1 <= 1 THEN 0 ELSE 2 * (z[2] + Cardinal(z[1]))]
<1>1. Within(step, Nat)
  <2>1. ASSUME NEW z \in Nat \X Nat
        PROVE  (IF z[1] + 1 <= 1 THEN 0 ELSE 2 * (z[2] + Cardinal(z[1]))) \in Nat
    <3>1. z[1] \in Nat /\ z[2] \in Nat /\ Cardinal(z[1]) \in Nat
      BY CardinalIs
    <3> QED BY <3>1
  <2> QED BY <2>1 DEF Within
<1>2. PICK F : Orbit(F, Nat, step, 0)
  <2> HIDE DEF step
  <2> QED BY <1>1, Iteration
<1>3. F \in [Nat -> Nat] /\ F[0] = 0 /\ \A n \in Nat : F[n + 1] = IF n + 1 <= 1 THEN 0 ELSE 2 * (F[n] + Cardinal(n))
  BY <1>2 DEF Orbit
<1>4. F = [len \in Nat |-> IF len <= 1 THEN 0 ELSE 2 * (F[len - 1] + Cardinal(len - 1))]
  <2>1. ASSUME NEW n \in Nat PROVE F[n] = IF n <= 1 THEN 0 ELSE 2 * (F[n - 1] + Cardinal(n - 1))
    <3>1. CASE n = 0
      BY <1>3, <3>1
    <3>2. CASE n # 0
      <4>1. n - 1 \in Nat /\ (n - 1) + 1 = n
        BY <3>2
      <4> QED BY <1>3, <4>1
    <3> QED BY <3>1, <3>2
  <2> QED BY <1>3, <2>1
<1>5. FirstCode = [len \in Nat |-> IF len <= 1 THEN 0 ELSE 2 * (FirstCode[len - 1] + Cardinal(len - 1))]
  BY <1>4, Zenon DEF FirstCode
<1>6. FirstCode[0] = 0 /\ FirstCode[1] = 0
  BY <1>5
<1>7. ASSUME NEW n \in Nat, n > 0 PROVE FirstCode[n + 1] = 2 * (FirstCode[n] + Cardinal(n))
  <2>1. n + 1 \in Nat /\ ~(n + 1 <= 1) /\ (n + 1) - 1 = n
    BY <1>7
  <2> QED BY <1>5, <2>1
<1>8. \A n \in Nat : FirstCode[n] \in Nat
  <2> DEFINE S == {n \in Nat : FirstCode[n] \in Nat}
  <2>1. 0 \in S
    BY <1>6
  <2>2. ASSUME NEW n \in Nat, n \in S PROVE n + 1 \in S
    <3>1. CASE n = 0
      BY <1>6, <3>1
    <3>2. CASE n > 0
      BY <1>7, <2>2, <3>2, CardinalIs
    <3> QED BY <3>1, <3>2
  <2> HIDE DEF S
  <2>3. \A n \in Nat : n \in S
    BY <2>1, <2>2, NatInduct
  <2> QED BY <2>3 DEF S
<1> QED BY <1>6, <1>7, <1>8

LEMMA LeftIs ==
  ASSUME b \in LengthLists
  PROVE  /\ Left[0] = 1
         /\ \A n \in Nat : Left[n] \in Int /\ Left[n + 1] = 2 * Left[n] - Cardinal(n + 1)
<1> DEFINE step == [z \in Nat \X Int |-> 2 * z[2] - Cardinal(z[1] + 1)]
<1>1. Within(step, Int)
  <2>1. ASSUME NEW z \in Nat \X Int PROVE 2 * z[2] - Cardinal(z[1] + 1) \in Int
    <3>1. z[1] \in Nat /\ z[2] \in Int /\ z[1] + 1 \in Nat
      OBVIOUS
    <3>2. Cardinal(z[1] + 1) \in Nat
      BY <3>1, CardinalIs
    <3> QED BY <3>1, <3>2
  <2> QED BY <2>1 DEF Within
<1>2. PICK F : Orbit(F, Int, step, 1)
  <2> HIDE DEF step
  <2>1. 1 \in Int
    OBVIOUS
  <2> QED BY <1>1, <2>1, Iteration
<1>3. F \in [Nat -> Int] /\ F[0] = 1 /\ \A n \in Nat : F[n + 1] = 2 * F[n] - Cardinal(n + 1)
  BY <1>2 DEF Orbit
<1>4. F = [len \in Nat |-> IF len = 0 THEN 1 ELSE 2 * F[len - 1] - Cardinal(len)]
  <2>1. ASSUME NEW n \in Nat PROVE F[n] = IF n = 0 THEN 1 ELSE 2 * F[n - 1] - Cardinal(n)
    <3>1. CASE n = 0
      BY <1>3, <3>1
    <3>2. CASE n # 0
      <4>1. n - 1 \in Nat /\ (n - 1) + 1 = n
        BY <3>2
      <4> QED BY <1>3, <3>2, <4>1
    <3> QED BY <3>1, <3>2
  <2> QED BY <1>3, <2>1
<1>5. Left = [len \in Nat |-> IF len = 0 THEN 1 ELSE 2 * Left[len - 1] - Cardinal(len)]
  BY <1>4, Zenon DEF Left
<1>6. Left[0] = 1
  BY <1>5
<1>7. ASSUME NEW n \in Nat PROVE Left[n + 1] = 2 * Left[n] - Cardinal(n + 1)
  <2>1. n + 1 \in Nat /\ n + 1 # 0 /\ (n + 1) - 1 = n
    OBVIOUS
  <2> QED BY <1>5, <2>1
<1>8. \A n \in Nat : Left[n] \in Int
  <2> DEFINE S == {n \in Nat : Left[n] \in Int}
  <2>1. 0 \in S
    BY <1>6
  <2>2. ASSUME NEW n \in Nat, n \in S PROVE n + 1 \in S
    <3>1. Cardinal(n + 1) \in Nat
      BY CardinalIs
    <3> QED BY <1>7, <2>2, <3>1
  <2> HIDE DEF S
  <2>3. \A n \in Nat : n \in S
    BY <2>1, <2>2, NatInduct
  <2> QED BY <2>3 DEF S
<1> QED BY <1>6, <1>7, <1>8

(* What is left are the patterns behind the last code.                     *)
LEMMA LeftBehind ==
  ASSUME b \in LengthLists, NEW n \in Nat, n > 0
  PROVE  Left[n] = Shl[n] - (FirstCode[n] + Cardinal(n))
<1> DEFINE S == {t \in Nat : Left[t + 1] = Shl[t + 1] - (FirstCode[t + 1] + Cardinal(t + 1))}
<1>0. 0 + 1 = 1 /\ 1 \in Nat
  OBVIOUS
<1>1. 0 \in S
  <2>1. Left[0 + 1] = 2 * Left[0] - Cardinal(0 + 1) /\ Left[0] = 1 /\ Shl[0 + 1] = 2 * Shl[0] /\ Shl[0] = 1
    BY LeftIs, ShlIs
  <2>2. FirstCode[1] = 0 /\ Cardinal(1) \in Nat
    BY <1>0, FirstCodeIs, CardinalIs
  <2> QED BY <1>0, <2>1, <2>2
<1>2. ASSUME NEW t \in Nat, t \in S PROVE t + 1 \in S
  <2> DEFINE e == t + 1
  <2>1. e \in Nat /\ e > 0 /\ e + 1 \in Nat
    OBVIOUS
  <2>2. Left[e] = Shl[e] - (FirstCode[e] + Cardinal(e))
    BY <1>2
  <2> HIDE DEF e
  <2>3. Left[e + 1] = 2 * Left[e] - Cardinal(e + 1) /\ Shl[e + 1] = 2 * Shl[e] /\ Shl[e] \in Nat
    BY <2>1, LeftIs, ShlIs
  <2>4. FirstCode[e + 1] = 2 * (FirstCode[e] + Cardinal(e)) /\ FirstCode[e] \in Nat
    BY <2>1, FirstCodeIs
  <2>5. Cardinal(e) \in Nat /\ Cardinal(e + 1) \in Nat
    BY <2>1, CardinalIs
  <2>6. Left[e + 1] = Shl[e + 1] - (FirstCode[e + 1] + Cardinal(e + 1))
    BY <2>2, <2>3, <2>4, <2>5
  <2> QED BY <2>6 DEF e
<1>3. n - 1 \in Nat /\ (n - 1) + 1 = n
  OBVIOUS
<1>4. n - 1 \in S
  <2> HIDE DEF S
  <2> QED BY <1>1, <1>2, <1>3, NatInduct
<1> QED BY <1>3, <1>4

(* Where the codes of a length end: no later than the numbers do, if the   *)
(* set is not oversubscribed, and there if dummies fill it up.             *)
End(n) == FirstCode[n] + Cardinal(n)

LEMMA Fits ==
  ASSUME b \in LengthLists, Used # {}, Spare >= 0, NEW n \in Nat, n > 0, n <= Longest
  PROVE  End(n) \in Nat /\ End(n) <= Shl[n] /\ Left[n] >= 0 /\ Shl[Longest] = End(Longest) + Spare /\ Spare \in Nat
<1>1. Longest \in Nat /\ Longest > 0
  BY Extremes, Lengths
<1> DEFINE S == {t \in Nat : n + t <= Longest => (Left[n] < 0 => Left[n + t] < 0)}
<1>2. 0 \in S
  OBVIOUS
<1>3. ASSUME NEW t \in Nat, t \in S PROVE t + 1 \in S
  <2>1. SUFFICES ASSUME n + (t + 1) <= Longest, Left[n] < 0 PROVE Left[n + (t + 1)] < 0
    OBVIOUS
  <2>2. Left[n + t] < 0 /\ n + t \in Nat /\ n + (t + 1) = (n + t) + 1
    BY <1>1, <1>3, <2>1
  <2>3. Left[(n + t) + 1] = 2 * Left[n + t] - Cardinal((n + t) + 1) /\ Left[n + t] \in Int
    BY <2>2, LeftIs
  <2>4. Cardinal((n + t) + 1) \in Nat
    BY <2>2, CardinalIs
  <2> QED BY <2>2, <2>3, <2>4
<1>4. Longest - n \in Nat /\ n + (Longest - n) = Longest
  BY <1>1
<1>5. Longest - n \in S
  <2> HIDE DEF S
  <2> QED BY <1>2, <1>3, <1>4, NatInduct
<1>6. Left[Longest] >= 0 /\ Left[Longest] \in Int /\ Left[n] \in Int
  BY <1>1, LeftIs DEF Spare
<1>7. Left[n] >= 0
  BY <1>1, <1>4, <1>5, <1>6
<1>8. Left[n] = Shl[n] - End(n) /\ Left[Longest] = Shl[Longest] - End(Longest)
  BY <1>1, LeftBehind DEF End
<1>9. End(n) \in Nat /\ End(Longest) \in Nat /\ Shl[n] \in Nat /\ Shl[Longest] \in Nat
  <2>1. FirstCode[n] \in Nat /\ Cardinal(n) \in Nat /\ FirstCode[Longest] \in Nat /\ Cardinal(Longest) \in Nat
    BY <1>1, FirstCodeIs, CardinalIs
  <2>2. Shl[n] \in Nat /\ Shl[Longest] \in Nat
    BY <1>1, ShlIs
  <2> QED BY <2>1, <2>2 DEF End
<1> QED BY <1>6, <1>7, <1>8, <1>9 DEF Spare

LEMMA FirstIsZero ==
  ASSUME b \in LengthLists, Used # {}
  PROVE  FirstCode[Shortest] = 0
<1>1. Shortest \in Nat /\ Shortest > 0
  BY Extremes, Lengths
<1> DEFINE S == {t \in Nat : t + 1 <= Shortest => FirstCode[t + 1] = 0}
<1>2. 0 \in S
  <2>1. 0 + 1 = 1
    OBVIOUS
  <2> QED BY <2>1, FirstCodeIs
<1>3. ASSUME NEW t \in Nat, t \in S PROVE t + 1 \in S
  <2> DEFINE e == t + 1
  <2>1. SUFFICES ASSUME e + 1 <= Shortest PROVE FirstCode[e + 1] = 0
    OBVIOUS
  <2>2. e \in Nat /\ e > 0 /\ e < Shortest /\ FirstCode[e] = 0
    BY <1>1, <1>3, <2>1
  <2> HIDE DEF e
  <2>3. Cardinal(e) = 0 /\ FirstCode[e + 1] = 2 * (FirstCode[e] + Cardinal(e))
    BY <2>2, Extremes, FirstCodeIs
  <2> QED BY <2>2, <2>3
<1>4. Shortest - 1 \in Nat /\ (Shortest - 1) + 1 = Shortest
  BY <1>1
<1>5. Shortest - 1 \in S
  <2> HIDE DEF S
  <2> QED BY <1>2, <1>3, <1>4, NatInduct
<1> QED BY <1>1, <1>4, <1>5

(* The codes of a length begin behind those of the lengths before.         *)
LEMMA BeginsBehind ==
  ASSUME b \in LengthLists, NEW n \in Nat, n > 0, NEW d \in Nat, d > 0
  PROVE  Shl[d] * End(n) <= FirstCode[n + d] /\ FirstCode[n + d] \in Nat /\ End(n) \in Nat
<1>0. FirstCode[n] \in Nat /\ Cardinal(n) \in Nat /\ End(n) \in Nat
  <2>1. FirstCode[n] \in Nat /\ Cardinal(n) \in Nat
    BY FirstCodeIs, CardinalIs
  <2> QED BY <2>1 DEF End
<1> DEFINE S == {t \in Nat : Shl[t + 1] * End(n) <= FirstCode[n + (t + 1)]}
<1>1. 0 \in S
  <2>1. 0 + 1 = 1 /\ Shl[0 + 1] = 2 * Shl[0] /\ Shl[0] = 1
    BY ShlIs
  <2>2. FirstCode[n + 1] = 2 * End(n)
    BY FirstCodeIs DEF End
  <2>3. Shl[0 + 1] * End(n) <= FirstCode[n + (0 + 1)]
    BY <1>0, <2>1, <2>2
  <2> QED BY <2>3
<1>2. ASSUME NEW t \in Nat, t \in S PROVE t + 1 \in S
  <2> DEFINE e == t + 1
             f == n + e
  <2>1. e \in Nat /\ f \in Nat /\ f > 0 /\ n + (e + 1) = f + 1
    OBVIOUS
  <2>2. Shl[e] * End(n) <= FirstCode[f]
    BY <1>2
  <2> HIDE DEF e, f
  <2>3. FirstCode[f + 1] = 2 * (FirstCode[f] + Cardinal(f)) /\ FirstCode[f] \in Nat /\ Cardinal(f) \in Nat
    BY <2>1, FirstCodeIs, CardinalIs
  <2>4. Shl[e + 1] = 2 * Shl[e] /\ Shl[e] \in Nat
    BY <2>1, ShlIs
  <2>5. (2 * Shl[e]) * End(n) = 2 * (Shl[e] * End(n)) /\ Shl[e] * End(n) \in Nat
    BY <1>0, <2>4
  <2>6. Shl[e + 1] * End(n) <= FirstCode[n + (e + 1)]
    <3> DEFINE T == Shl[e] * End(n)
    <3>1. Shl[e + 1] * End(n) = 2 * T
      BY <2>4, <2>5
    <3>2. T \in Nat /\ T <= FirstCode[f]
      BY <2>2, <2>5
    <3> HIDE DEF T
    <3>3. 2 * T <= FirstCode[f + 1]
      BY <2>3, <3>2
    <3> QED BY <2>1, <3>1, <3>3
  <2> QED BY <2>6 DEF e
<1>3. d - 1 \in Nat /\ (d - 1) + 1 = d
  OBVIOUS
<1>4. d - 1 \in S
  <2> HIDE DEF S
  <2> QED BY <1>1, <1>2, <1>3, NatInduct
<1>5. n + d \in Nat
  OBVIOUS
<1>6. FirstCode[n + d] \in Nat
  BY <1>5, FirstCodeIs
<1> QED BY <1>0, <1>3, <1>4, <1>6
-----------------------------------------------------------------------------
(* The order of the symbols.                                               *)
Rank(s) == Cardinality({t \in Used : Before(t, s)})
Sooner(s) == Cardinality({t \in Used : b[t] = b[s] /\ t < s})

LEMMA Ranked ==
  ASSUME b \in LengthLists, NEW s \in Used
  PROVE  /\ Rank(s) = Below(b[s]) + Sooner(s)
         /\ Sooner(s) \in Nat /\ Sooner(s) < Cardinal(b[s])
         /\ Rank(s) \in Nat /\ Rank(s) < Cardinality(Used)
         /\ b[s] \in Nat /\ b[s] > 0
<1> DEFINE L == {t \in Used : b[t] < b[s]}
           E == {t \in Used : b[t] = b[s] /\ t < s}
           A == {t \in Symbols : b[t] = b[s]}
           R == {t \in Used : Before(t, s)}
<1>1. s \in Symbols /\ s \in Nat /\ b[s] \in Nat /\ b[s] > 0 /\ Used \subseteq Symbols
  BY Lengths DEF Used
<1>2. L \union E = R
  BY DEF Before
<1>3. L \subseteq Symbols /\ E \subseteq Symbols /\ L \cap E = {} /\ R \subseteq Symbols
  BY <1>1, Lengths DEF Used
<1>4. E \subseteq A /\ s \in A /\ s \notin E /\ A \subseteq Symbols
  BY <1>1, Lengths DEF Used
<1>5. R \subseteq Used /\ s \notin R
  BY <1>1, Lengths DEF Before
<1>6. Rank(s) = Cardinality(R) /\ Below(b[s]) = Cardinality(L) /\ Sooner(s) = Cardinality(E)
      /\ Cardinal(b[s]) = Cardinality(A)
  BY DEF Rank, Below, Sooner, Cardinal
<1> HIDE DEF L, E, A, R
<1>7. Cardinality(R) = Cardinality(L) + Cardinality(E)
  BY <1>2, <1>3, CountedApart
<1>8. Cardinality(R) \in Nat /\ Cardinality(E) \in Nat
  BY <1>3, Counted
<1>9. Cardinality(E) < Cardinality(A)
  BY <1>4, CountedIn
<1>10. Cardinality(R) < Cardinality(Used)
  BY <1>1, <1>5, CountedIn
<1> QED BY <1>1, <1>6, <1>7, <1>8, <1>9, <1>10

LEMMA RankedApart ==
  ASSUME b \in LengthLists, NEW s \in Used, NEW t \in Used, s # t
  PROVE  Rank(s) # Rank(t)
<1> DEFINE R(r) == {q \in Used : Before(q, r)}
<1>1. \A r \in Used : r \in Nat /\ b[r] \in Nat
  BY Lengths DEF Used
<1>2. ASSUME NEW q \in Used, NEW r \in Used, Before(q, r) PROVE Rank(q) < Rank(r)
  <2>1. R(q) \subseteq R(r)
    BY <1>1, <1>2 DEF Before
  <2>2. q \in R(r) /\ q \notin R(q)
    BY <1>1, <1>2 DEF Before
  <2>3. R(r) \subseteq Symbols
    BY Lengths
  <2>4. Rank(q) = Cardinality(R(q)) /\ Rank(r) = Cardinality(R(r))
    BY DEF Rank
  <2> HIDE DEF R
  <2>5. Cardinality(R(q)) < Cardinality(R(r))
    BY <2>1, <2>2, <2>3, CountedIn
  <2> QED BY <2>4, <2>5
<1>3. Before(s, t) \/ Before(t, s)
  BY <1>1 DEF Before
<1>4. Rank(s) \in Nat /\ Rank(t) \in Nat
  BY Ranked
<1> QED BY <1>2, <1>3, <1>4

(* Every place of v that is used holds the symbol of that rank.            *)
LEMMA SortedIs ==
  ASSUME b \in LengthLists, NEW q \in Nat, q < Cardinality(Used)
  PROVE  q \in Symbols /\ Sorted[q] \in Used /\ Rank(Sorted[q]) = q
<1> DEFINE n == Cardinality(Used)
           f == [s \in Used |-> Rank(s)]
<1>1. n \in Nat /\ IsFiniteSet(Used) /\ q \in Symbols
  BY Lengths
<1>2. \E s \in Used : Rank(s) = q
  <2> SUFFICES ASSUME \A s \in Used : Rank(s) # q PROVE FALSE
    OBVIOUS
  <2> DEFINE T == (0 .. n - 1) \ {q}
  <2>1. f \in [Used -> T]
    BY <1>1, Ranked
  <2>2. IsFiniteSet(T) /\ Cardinality(T) = n - 1
    <3>1. IsFiniteSet(0 .. n - 1) /\ Cardinality(0 .. n - 1) = n
      <4>1. 0 \in Int /\ n - 1 \in Int
        BY <1>1
      <4>2. IsFiniteSet(0 .. n - 1) /\ Cardinality(0 .. n - 1) = IF 0 > n - 1 THEN 0 ELSE (n - 1) - 0 + 1
        BY <4>1, FS_Interval
      <4> HIDE DEF n
      <4> QED BY <1>1, <4>2
    <3>2. q \in 0 .. n - 1
      BY <1>1
    <3> HIDE DEF n
    <3> QED BY <3>1, <3>2, FS_RemoveElement
  <2>3. Cardinality(T) < Cardinality(Used)
    BY <1>1, <2>2
  <2> HIDE DEF T, f, n
  <2>4. \E s, t \in Used : s # t /\ f[s] = f[t]
    BY <1>1, <2>1, <2>2, <2>3, FS_PigeonHole
  <2>5. PICK s \in Used, t \in Used : s # t /\ f[s] = f[t]
    BY <2>4
  <2>6. f[s] = Rank(s) /\ f[t] = Rank(t)
    BY DEF f
  <2> QED BY <2>5, <2>6, RankedApart
<1>3. Sorted[q] = CHOOSE s \in Used : Rank(s) = q
  BY <1>1 DEF Sorted, Rank
<1>4. Sorted[q] \in Used /\ Rank(Sorted[q]) = q
  BY <1>2, <1>3, Zenon
<1> QED BY <1>1, <1>4

(* Those of one length follow each other, and have codes that do.          *)
LEMMA SortedAt ==
  ASSUME b \in LengthLists, NEW n \in Nat, n > 0, NEW e \in Nat, e < Cardinal(n)
  PROVE  LET q == Below(n) + e
         IN  /\ q \in Nat /\ q < Cardinality(Used) /\ q \in Symbols
             /\ Sorted[q] \in Used /\ b[Sorted[q]] = n
             /\ CodeOf(Sorted[q]) = FirstCode[n] + e
<1> DEFINE q == Below(n) + e
           s == Sorted[q]
<1>1. Below(n) \in Nat /\ Cardinal(n) \in Nat /\ Below(n + 1) = Below(n) + Cardinal(n)
      /\ n + 1 \in Nat /\ Below(n + 1) <= Cardinality(Used) /\ Cardinality(Used) \in Nat
  BY CardinalIs, Lengths
<1>2. q \in Nat /\ q < Cardinality(Used) /\ q < Below(n + 1) /\ q >= Below(n)
  BY <1>1
<1>3. q \in Symbols /\ s \in Used /\ Rank(s) = q
  <2> HIDE DEF q
  <2> QED BY <1>2, SortedIs
<1> HIDE DEF q, s
<1>4. Rank(s) = Below(b[s]) + Sooner(s) /\ Sooner(s) \in Nat /\ Sooner(s) < Cardinal(b[s])
      /\ b[s] \in Nat /\ b[s] > 0
  BY <1>3, Ranked
<1>5. Below(b[s]) \in Nat /\ Cardinal(b[s]) \in Nat /\ Below(b[s] + 1) = Below(b[s]) + Cardinal(b[s])
  BY <1>4, CardinalIs
<1>6. ASSUME NEW r \in Nat, NEW t \in Nat, r <= t PROVE Below(r) <= Below(t)
  <2> DEFINE S == {z \in Used : b[z] < r}
             T == {z \in Used : b[z] < t}
  <2>1. S \subseteq T /\ T \subseteq Symbols
    BY <1>6, Lengths DEF Used
  <2>2. Below(r) = Cardinality(S) /\ Below(t) = Cardinality(T)
    BY DEF Below
  <2> HIDE DEF S, T
  <2> QED BY <2>1, <2>2, CountedIn
<1>7. b[s] = n
  <2>1. CASE b[s] < n
    <3>1. b[s] + 1 <= n /\ b[s] + 1 \in Nat
      BY <1>4, <2>1
    <3>2. Below(b[s] + 1) <= Below(n)
      BY <1>6, <3>1
    <3> QED BY <1>1, <1>2, <1>3, <1>4, <1>5, <3>2
  <2>2. CASE b[s] > n
    <3>1. n + 1 <= b[s]
      BY <1>4, <2>2
    <3>2. Below(n + 1) <= Below(b[s])
      BY <1>1, <1>4, <1>6, <3>1
    <3> QED BY <1>1, <1>2, <1>3, <1>4, <1>5, <3>2
  <2> QED BY <1>4, <2>1, <2>2
<1>8. Sooner(s) = e
  BY <1>1, <1>3, <1>4, <1>7 DEF q
<1>9. CodeOf(s) = FirstCode[n] + e
  BY <1>7, <1>8 DEF CodeOf, Sooner
<1> QED BY <1>2, <1>3, <1>7, <1>9 DEF q, s
-----------------------------------------------------------------------------
(* The inductive invariant.  The running code is the reversed number of a  *)
(* code of length k; Entered is how many codes came before it.             *)
Pending == IF pc = "tables" THEN a + 1 ELSE a
Passed == c[k] - Pending
Number == FirstCode[k] + Passed
Entered == Below(k) + Passed

Filled == [len \in 0 .. BMAX |-> IF len = Longest THEN Cardinal(len) + Spare ELSE Cardinal(len)]

Idle ==
  /\ g = 0 /\ l = 0 /\ k = 0 /\ y = 0 /\ a = 0 /\ i = 0 /\ p = 0 /\ h = -1 /\ w = 0
  /\ x = [lev \in 0 .. BMAX |-> 0] /\ u = [lev \in 0 .. BMAX |-> 0]
  /\ tabs = <<>>
  /\ pc \in {"count", "done"}

(* What huft_build() set out with.                                         *)
Ready ==
  /\ Used # {} /\ Spare >= 0
  /\ g = Longest /\ l \in 1 .. g /\ m = l /\ y = Spare /\ c = Filled /\ v = Sorted

(* The code, and the levels: x[h] are the bits of the code that led to the *)
(* table of level h; behind the bits it decides the code still has none.   *)
Codes ==
  /\ k \in 1 .. g /\ a \in Nat /\ Pending <= c[k]
  /\ pc \in {"codes", "tables", "backup", "done"}
  /\ pc = "backup" => a < c[k] /\ h >= 0
  /\ pc = "done" => k = g /\ a = 0
  /\ i = Reversed[k][Number]
  /\ p = IF Entered < Cardinality(Symbols) THEN Entered ELSE Cardinality(Symbols)

Listed == \E S : tabs \in Seq(S)
Levels ==
  /\ Listed
  /\ h \in Int /\ h >= -1 /\ h < Len(tabs) /\ (h = -1 => tabs = <<>>)
  /\ w = l * h /\ w < k
  /\ DOMAIN x = 0 .. BMAX /\ DOMAIN u = 0 .. BMAX
  /\ x[0] = 0
  /\ \A j \in 0 .. h : u[j] \in 1 .. Len(tabs)
  /\ \A j \in 0 .. h : x[j] \in 0 .. Shl[l * j] - 1
  /\ \A j \in 0 .. h : j > 0 => x[j] % Shl[l * (j - 1)] = x[j - 1]
  /\ h >= 0 /\ pc \in {"codes", "tables"} => i % Shl[w] = x[h]
  /\ pc = "backup" => Reversed[k][Number - 1] % Shl[w] = x[h]
  /\ k > w + l => Number % Shl[k - (w + l)] = 0

CodesInv == b \in LengthLists /\ m \in 0 .. BMAX /\ ret \in 0 .. 2 /\ (Idle \/ (Ready /\ Codes /\ Levels))

-----------------------------------------------------------------------------
(* What is derived from the lengths stays as they do.                      *)
LEMMA Kept ==
  ASSUME b' = b
  PROVE  /\ Symbols' = Symbols /\ Used' = Used /\ Shortest' = Shortest /\ Longest' = Longest
         /\ Spare' = Spare /\ FirstCode' = FirstCode /\ Sorted' = Sorted /\ Filled' = Filled
<1>1. Symbols' = Symbols
  BY DEF Symbols
<1>2. Used' = Used
  BY DEF Used, Symbols
<1>3. Shortest' = Shortest /\ Longest' = Longest
  BY Zenon DEF Shortest, Longest, Used, Symbols
<1>4. Spare' = Spare
  BY Zenon DEF Spare, Left, Longest, Used, Symbols, Cardinal
<1>5. FirstCode' = FirstCode
  BY Zenon DEF FirstCode, Cardinal, Symbols
<1>6. Sorted' = Sorted
  BY SMT DEF Sorted, Used, Symbols, Before
<1>7. Filled' = Filled
  <2>1. \A n : Cardinality({s \in DOMAIN b' : b'[s] = n}) = Cardinality({s \in DOMAIN b : b[s] = n})
    OBVIOUS
  <2> HIDE DEF Spare, Longest
  <2> QED BY <1>3, <1>4, <2>1 DEF Filled, Cardinal, Symbols
<1> QED BY <1>1, <1>2, <1>3, <1>4, <1>5, <1>6, <1>7

LEMMA KeptBelow ==
  ASSUME b' = b, NEW n, NEW d, d = n
  PROVE  Cardinality({s \in DOMAIN b' : b'[s] = d}) = Cardinal(n) /\ Cardinality({s \in {t \in DOMAIN b' : b'[t] > 0} : b'[s] < d}) = Below(n)
BY DEF Cardinal, Below, Used, Symbols

(* The codes of a length, dummies included, fit.                           *)
LEMMA ReadyIs ==
  ASSUME b \in LengthLists, Ready, NEW n \in 1 .. g
  PROVE  /\ g \in Nat /\ g > 0 /\ l \in Nat /\ l > 0 /\ l <= g /\ BMAX \in Nat /\ g <= BMAX /\ n \in Nat /\ n > 0 /\ n <= BMAX
         /\ c[n] \in Nat /\ (n < g => c[n] = Cardinal(n)) /\ (n = g => c[n] = Cardinal(n) + y) /\ y \in Nat
         /\ FirstCode[n] \in Nat /\ FirstCode[n] + c[n] <= Shl[n] /\ Shl[n] \in Nat /\ Shl[n] > 0
         /\ n = g => FirstCode[n] + c[n] = Shl[n]
         /\ Cardinal(n) \in Nat /\ Below(n) \in Nat
<1>1. g \in Nat /\ g > 0 /\ l \in Nat /\ l > 0 /\ l <= g /\ BMAX \in Nat /\ g <= BMAX /\ g = Longest
  BY Extremes, Lengths DEF Ready
<1>2. n \in Nat /\ n > 0 /\ n <= Longest /\ n <= BMAX
  BY <1>1
<1>3. /\ End(n) \in Nat /\ End(n) <= Shl[n] /\ Shl[Longest] = End(Longest) + Spare /\ Spare \in Nat
  BY <1>2, Fits DEF Ready
<1>4. c[n] = IF n = Longest THEN Cardinal(n) + Spare ELSE Cardinal(n)
  BY <1>1, <1>2 DEF Ready, Filled
<1>5. FirstCode[n] \in Nat /\ Cardinal(n) \in Nat /\ Below(n) \in Nat /\ Shl[n] \in Nat /\ Shl[n] > 0
  BY <1>2, FirstCodeIs, CardinalIs, ShlIs
<1>6. y = Spare
  BY DEF Ready
<1> QED BY <1>1, <1>2, <1>3, <1>4, <1>5, <1>6 DEF End

LEMMA NumberIs ==
  ASSUME b \in LengthLists, Ready, Codes
  PROVE  /\ k \in 1 .. g /\ a \in Nat /\ Pending \in Nat /\ Passed \in Nat /\ Passed <= c[k]
         /\ Number \in Nat /\ Number <= Shl[k] /\ FirstCode[k] <= Number
         /\ pc = "tables" => Passed < c[k] /\ Number < Shl[k]
         /\ pc = "backup" => Number > 0 /\ FirstCode[k] < Number
         /\ Entered = Below(k) + Passed /\ Entered \in Nat
         /\ i \in Nat /\ i < Shl[k]
<1>1. k \in 1 .. g /\ a \in Nat /\ Pending <= c[k] /\ (pc = "backup" => a < c[k])
  BY DEF Codes
<1>2. c[k] \in Nat /\ FirstCode[k] \in Nat /\ FirstCode[k] + c[k] <= Shl[k] /\ Shl[k] \in Nat /\ Below(k) \in Nat /\ k \in Nat
  BY <1>1, ReadyIs
<1>3. Pending = (IF pc = "tables" THEN a + 1 ELSE a) /\ Passed = c[k] - Pending /\ Number = FirstCode[k] + Passed
  BY DEF Pending, Passed, Number
<1>4. /\ Pending \in Nat /\ Passed \in Nat /\ Passed <= c[k]
      /\ Number \in Nat /\ Number <= Shl[k] /\ FirstCode[k] <= Number
      /\ pc = "tables" => Passed < c[k] /\ Number < Shl[k]
      /\ pc = "backup" => Number > 0 /\ FirstCode[k] < Number
  <2>1. CASE pc = "tables"
    <3>1. Pending = a + 1
      BY <1>3, <2>1
    <3>2. pc # "backup"
      BY <2>1
    <3> HIDE DEF Pending, Passed, Number
    <3> QED BY <1>1, <1>2, <1>3, <3>1, <3>2
  <2>2. CASE pc # "tables"
    <3>1. Pending = a
      BY <1>3, <2>2
    <3> HIDE DEF Pending, Passed, Number
    <3> QED BY <1>1, <1>2, <1>3, <2>2, <3>1
  <2> QED BY <2>1, <2>2
<1>5. i = Reversed[k][Number]
  BY DEF Codes
<1>6. i \in Nat /\ i < Shl[k]
  BY <1>2, <1>4, <1>5, ReversedType
<1>7. Entered = Below(k) + Passed
  BY DEF Entered
<1>8. Entered \in Nat
  BY <1>2, <1>4, <1>7
<1> QED BY <1>1, <1>2, <1>4, <1>6, <1>7, <1>8

LEMMA CodesInit ==
  ASSUME Init
  PROVE  CodesInv
<1>1. b \in LengthLists /\ m \in Lookups /\ BMAX \in Nat
  BY ListsOK DEF Init
<1>2. m \in 0 .. BMAX
  BY <1>1, LookupsOK
<1> QED BY <1>1, <1>2 DEF Init, CodesInv, Idle

LEMMA CodesPrepare ==
  ASSUME CodesInv, Prepare
  PROVE  CodesInv'
<1>1. /\ pc = "count" /\ Used # {} /\ Spare >= 0 /\ b' = b
      /\ g' = Longest /\ k' = Shortest /\ l' = Bound(Shortest, Longest, m) /\ m' = l' /\ y' = Spare
      /\ c' = [len \in 0 .. BMAX |-> IF len = Longest THEN Cardinal(len) + Spare ELSE Cardinal(len)]
      /\ a' = c'[k'] /\ v' = Sorted /\ w' = -l' /\ pc' = "codes"
      /\ i' = i /\ p' = p /\ h' = h /\ x' = x /\ u' = u /\ tabs' = tabs /\ ret' = ret
  BY DEF Prepare
<1>2. Idle /\ b \in LengthLists /\ ret \in 0 .. 2 /\ m \in 0 .. BMAX
  BY <1>1 DEF CodesInv, Codes
<1>3. /\ Shortest \in 1 .. BMAX /\ Longest \in 1 .. BMAX /\ Shortest <= Longest /\ BMAX \in Nat
      /\ Below(Shortest) = 0 /\ FirstCode[Shortest] = 0
  BY <1>1, <1>2, Extremes, FirstIsZero, Lengths
<1>4. l' \in 1 .. Longest /\ l' \in 0 .. BMAX
  BY <1>1, <1>2, <1>3 DEF Bound
<1>5. c' = Filled
  BY <1>1 DEF Filled
<1>6. Ready'
  BY <1>1, <1>4, <1>5, Kept DEF Ready
<1>7. c'[k'] \in Nat
  <2>1. Shortest \in Nat
    BY <1>3
  <2>2. Cardinal(Shortest) \in Nat
    BY <1>2, <2>1, CardinalIs
  <2>3. Spare \in Nat
    <3>1. Longest \in Nat /\ Longest > 0 /\ Longest <= Longest
      BY <1>3
    <3> QED BY <1>1, <1>2, <3>1, Fits
  <2> QED BY <1>1, <1>3, <2>2, <2>3
<1>8. Passed' = 0 /\ Pending' = a' /\ Number' = 0
  <2>1. Pending' = a'
    BY <1>1 DEF Pending
  <2>2. Passed' = 0
    BY <1>1, <1>7, <2>1 DEF Passed
  <2>3. Number' = FirstCode'[k'] + 0
    BY <2>2 DEF Number
  <2> QED BY <1>1, <1>3, <2>1, <2>2, <2>3, Kept
<1>9. Entered' = 0
  <2>1. Below(k)' = Below(Shortest)
    BY <1>1 DEF Below, Used, Symbols
  <2> QED BY <1>3, <1>8, <2>1 DEF Entered
<1>10. Codes'
  <2>1. k' \in 1 .. g' /\ a' \in Nat
    BY <1>1, <1>3, <1>7
  <2>2. i' = Reversed[k'][0] /\ i' = 0
    <3>1. k' \in Nat
      BY <1>1, <1>3
    <3> QED BY <1>1, <1>2, <3>1, ReversedZero DEF Idle
  <2>3. p' = IF Entered' < Cardinality(Symbols') THEN Entered' ELSE Cardinality(Symbols')
    BY <1>1, <1>2, <1>9, Kept, Lengths DEF Idle
  <2>4. Reversed' = Reversed
    BY Zenon DEF Reversed, Shl
  <2> QED BY <1>1, <1>7, <1>8, <2>1, <2>2, <2>3, <2>4 DEF Codes
<1>11. Levels'
  <2>1. h' = -1 /\ tabs' = <<>> /\ x' = [lev \in 0 .. BMAX |-> 0] /\ u' = [lev \in 0 .. BMAX |-> 0]
    BY <1>1, <1>2 DEF Idle
  <2>2. w' = l' * h' /\ w' < k' /\ h' < Len(tabs')
    BY <1>1, <1>3, <1>4, <2>1
  <2>3. \A j \in 0 .. h' : FALSE
    BY <2>1
  <2>4. Number' % Shl'[k' - (w' + l')] = 0
    <3>1. Shl' = Shl
      BY Zenon DEF Shl
    <3>2. w' + l' = 0 /\ k' - 0 = k' /\ k' \in Nat
      BY <1>1, <1>3, <1>4
    <3>3. Shl[k'] \in Nat /\ Shl[k'] > 0
      BY <3>2, ShlIs
    <3>4. 0 % Shl[k'] = 0
      BY <3>3
    <3> QED BY <1>8, <3>1, <3>2, <3>4
  <2>5. x'[0] = 0 /\ DOMAIN x' = 0 .. BMAX /\ DOMAIN u' = 0 .. BMAX
    BY <1>3, <2>1
  <2>6. h' \in Int /\ h' >= -1 /\ Listed'
    <3>1. tabs' \in Seq({})
      BY <2>1
    <3> QED BY <2>1, <3>1 DEF Listed
  <2> QED BY <1>1, <2>1, <2>2, <2>3, <2>4, <2>5, <2>6 DEF Levels
<1> QED BY <1>1, <1>2, <1>4, <1>6, <1>10, <1>11 DEF CodesInv

LEMMA ConstantsKept ==
  Shl' = Shl /\ Reversed' = Reversed /\ Carry' = Carry
<1>1. Shl' = Shl
  BY Zenon DEF Shl
<1>2. Reversed' = Reversed
  BY Zenon DEF Reversed, Shl
<1>3. Carry' = Carry
  BY Zenon DEF Carry, Shl
<1> QED BY <1>1, <1>2, <1>3

LEMMA ReadyKept ==
  ASSUME Ready, b' = b, g' = g, l' = l, m' = m, y' = y, c' = c, v' = v
  PROVE  Ready'
BY Kept DEF Ready

(* The invariant of a step that leaves the number and the tables alone.    *)
LEMMA CodesRelabelled ==
  ASSUME b \in LengthLists, Ready, Codes, b' = b, k' = k, c' = c, Pending' = Pending
  PROVE  Passed' = Passed /\ Number' = Number /\ Entered' = Entered
<1>1. Passed' = Passed
  BY DEF Passed
<1>2. Number' = Number
  BY <1>1, Kept DEF Number
<1>3. Below(k)' = Below(k)
  BY DEF Below, Used, Symbols
<1> QED BY <1>1, <1>2, <1>3 DEF Entered

LEMMA CodesNextLength ==
  ASSUME b \in LengthLists, Ready, Codes, Levels, NextLength
  PROVE  Ready' /\ Codes' /\ Levels'
<1>1. /\ pc = "codes" /\ a = 0 /\ k < g /\ k' = k + 1 /\ a' = c[k + 1]
      /\ b' = b /\ m' = m /\ c' = c /\ v' = v /\ y' = y /\ g' = g /\ l' = l /\ i' = i /\ p' = p /\ h' = h /\ w' = w
      /\ x' = x /\ u' = u /\ tabs' = tabs /\ pc' = pc /\ ret' = ret
  BY DEF NextLength
<1>2. k \in Nat /\ k > 0 /\ g \in Nat /\ k \in 1 .. g /\ k + 1 \in 1 .. g /\ k + 1 \in Nat /\ c[k] = Cardinal(k)
      /\ c[k] \in Nat /\ c[k + 1] \in Nat
  <2>1. k \in 1 .. g
    BY DEF Codes
  <2>2. k \in Nat /\ k > 0 /\ g \in Nat /\ c[k] = Cardinal(k) /\ c[k] \in Nat
    BY <1>1, <2>1, ReadyIs
  <2>3. k + 1 \in 1 .. g
    BY <1>1, <2>2
  <2>4. c[k + 1] \in Nat
    BY <2>3, ReadyIs
  <2> QED BY <2>1, <2>2, <2>3, <2>4
<1>3. /\ Pending = 0 /\ Passed = c[k] /\ Number = FirstCode[k] + c[k] /\ Number \in Nat
      /\ Pending' = a' /\ Passed' = 0 /\ Number' = 2 * Number
  <2>1. Pending = 0 /\ Pending' = a'
    BY <1>1 DEF Pending
  <2>2. Passed = c[k] /\ Passed' = 0
    BY <1>1, <1>2, <2>1 DEF Passed
  <2>3. Number = FirstCode[k] + c[k]
    BY <2>2 DEF Number
  <2>4. Number' = FirstCode[k + 1] + 0
    BY <1>1, <2>2, Kept DEF Number
  <2>5. FirstCode[k + 1] = 2 * (FirstCode[k] + c[k]) /\ FirstCode[k] \in Nat
    BY <1>2, FirstCodeIs
  <2> QED BY <1>2, <2>1, <2>2, <2>3, <2>4, <2>5
<1>4. Entered' = Entered
  <2>1. Below(k)' = Below(k + 1)
    BY <1>1 DEF Below, Used, Symbols
  <2>2. Below(k + 1) = Below(k) + Cardinal(k) /\ Below(k) \in Nat /\ Cardinal(k) \in Nat /\ Below(k + 1) \in Nat
    BY <1>2, CardinalIs
  <2> QED BY <1>2, <1>3, <2>1, <2>2 DEF Entered
<1>5. Ready'
  BY <1>1, ReadyKept
<1>6. Codes'
  <2>1. i = Reversed[k][Number] /\ p = IF Entered < Cardinality(Symbols) THEN Entered ELSE Cardinality(Symbols)
    BY DEF Codes
  <2>2. i' = Reversed[k'][Number']
    BY <1>1, <1>2, <1>3, <2>1, Doubled
  <2>3. i' = Reversed'[k'][Number']
    BY <2>2, ConstantsKept
  <2>4. p' = IF Entered' < Cardinality(Symbols') THEN Entered' ELSE Cardinality(Symbols')
    BY <1>1, <1>4, <2>1, Kept
  <2>5. k' \in 1 .. g' /\ a' \in Nat /\ Pending' <= c'[k'] /\ pc' = "codes"
    BY <1>1, <1>2, <1>3
  <2> QED BY <2>3, <2>4, <2>5 DEF Codes
<1>7. Levels'
  <2>1. h \in Int /\ w = l * h /\ w < k /\ l \in Nat
    BY <1>2, ReadyIs DEF Levels
  <2>2. w \in Int /\ w < k + 1
    BY <1>2, <2>1
  <2>3. k + 1 > w + l => (2 * Number) % Shl[(k + 1) - (w + l)] = 0
    <3>1. SUFFICES ASSUME k + 1 > w + l PROVE (2 * Number) % Shl[(k + 1) - (w + l)] = 0
      OBVIOUS
    <3> DEFINE n == k - (w + l)
    <3>2. n \in Nat /\ (k + 1) - (w + l) = n + 1
      BY <1>2, <2>1, <2>2, <3>1
    <3>3. n > 0 => Number % Shl[n] = 0
      <4>1. n > 0 => k > w + l
        BY <1>2, <2>1, <2>2
      <4> QED BY <4>1 DEF Levels
    <3> HIDE DEF n
    <3> QED BY <1>3, <3>2, <3>3, AlignedDouble
  <2> QED BY <1>1, <1>3, <2>2, <2>3, ConstantsKept DEF Levels, Listed
<1> QED BY <1>5, <1>6, <1>7

LEMMA CodesNextCode ==
  ASSUME b \in LengthLists, Ready, Codes, Levels, NextCode \/ BackedUp
  PROVE  Ready' /\ Codes' /\ Levels'
<1>1. /\ b' = b /\ m' = m /\ c' = c /\ v' = v /\ y' = y /\ g' = g /\ l' = l /\ k' = k /\ i' = i /\ p' = p /\ h' = h /\ w' = w
      /\ x' = x /\ u' = u /\ tabs' = tabs /\ ret' = ret
      /\ \/ pc = "codes" /\ a > 0 /\ a' = a - 1 /\ pc' = "tables"
         \/ pc = "backup" /\ i % Shl[w] = x[h] /\ a' = a /\ pc' = "codes"
  BY DEF NextCode, BackedUp
<1>2. Pending' = Pending
  <2>1. a \in Nat
    BY DEF Codes
  <2> QED BY <1>1, <2>1 DEF Pending
<1>3. Passed' = Passed /\ Number' = Number /\ Entered' = Entered
  BY <1>1, <1>2, CodesRelabelled
<1>4. Ready'
  BY <1>1, ReadyKept
<1>5. Codes'
  <2>1. a' \in Nat /\ pc' \in {"codes", "tables"}
    BY <1>1 DEF Codes
  <2>2. Symbols' = Symbols /\ Reversed' = Reversed
    BY <1>1, Kept, ConstantsKept
  <2> QED BY <1>1, <1>2, <1>3, <2>1, <2>2 DEF Codes
<1>6. Levels'
  <2>1. pc' \in {"codes", "tables"} /\ (h >= 0 => i % Shl[w] = x[h])
    BY <1>1 DEF Levels
  <2> QED BY <1>1, <1>3, <2>1, ConstantsKept DEF Levels, Listed
<1> QED BY <1>4, <1>5, <1>6

LEMMA CodesFinish ==
  ASSUME b \in LengthLists, Ready, Codes, Levels, Finish
  PROVE  Ready' /\ Codes' /\ Levels' /\ ret' \in 0 .. 2 /\ m' = m /\ b' = b
<1>1. /\ b' = b /\ m' = m /\ c' = c /\ v' = v /\ y' = y /\ g' = g /\ l' = l /\ k' = k /\ a' = a /\ i' = i /\ p' = p
      /\ h' = h /\ w' = w /\ x' = x /\ u' = u /\ tabs' = tabs /\ pc = "codes" /\ a = 0 /\ k = g /\ pc' = "done"
      /\ ret' = IF y # 0 /\ g # 1 THEN 1 ELSE 0
  BY DEF Finish
<1>2. Pending' = Pending
  BY <1>1 DEF Pending
<1>3. Passed' = Passed /\ Number' = Number /\ Entered' = Entered
  BY <1>1, <1>2, CodesRelabelled
<1>4. Ready'
  BY <1>1, ReadyKept
<1>5. Codes'
  <2>1. Symbols' = Symbols /\ Reversed' = Reversed
    BY <1>1, Kept, ConstantsKept
  <2> QED BY <1>1, <1>2, <1>3, <2>1 DEF Codes
<1>6. Levels'
  BY <1>1, <1>3, ConstantsKept DEF Levels, Listed
<1>7. ret' \in 0 .. 2
  BY <1>1
<1> QED BY <1>1, <1>4, <1>5, <1>6, <1>7

(* A new table, and what hangs on it.                                      *)
LEMMA ListedExcept ==
  ASSUME NEW S, NEW s \in Seq(S), NEW n \in 1 .. Len(s), NEW e
  PROVE  LET t == [s EXCEPT ![n] = e]
         IN  /\ t \in Seq(S \union {e}) /\ Len(t) = Len(s)
             /\ \A j \in 1 .. Len(s) : t[j] = IF j = n THEN e ELSE s[j]
<1> DEFINE t == [s EXCEPT ![n] = e]
<1>1. s \in [1 .. Len(s) -> S] /\ Len(s) \in Nat
  OBVIOUS
<1>2. t \in [1 .. Len(s) -> S \union {e}]
  BY <1>1
<1>3. \A j \in 1 .. Len(s) : t[j] = IF j = n THEN e ELSE s[j]
  BY <1>1
<1> HIDE DEF t
<1>4. t \in Seq(S \union {e}) /\ Len(t) = Len(s)
  BY <1>1, <1>2
<1> QED BY <1>3, <1>4 DEF t

LEMMA ListedAppend ==
  ASSUME NEW S, NEW s \in Seq(S), NEW e
  PROVE  LET t == Append(s, e)
         IN  /\ t \in Seq(S \union {e}) /\ Len(t) = Len(s) + 1 /\ Len(s) \in Nat
             /\ \A j \in 1 .. Len(s) : t[j] = s[j]
             /\ t[Len(s) + 1] = e
<1>1. s \in Seq(S \union {e})
  OBVIOUS
<1> QED BY <1>1

(* The table a link is entered in.                                         *)
Linked(row, q, e) == [row EXCEPT ![q] = e]

LEMMA NewTableIs ==
  ASSUME b \in LengthLists, Ready, Codes, Levels, NewTable
  PROVE  LET j == TableBits(w')
             q == i \div Shl[w]
             link == [e |-> "table", b |-> l, v |-> Len(tabs) + 1, next |-> j]
         IN  /\ h' = h + 1 /\ w' = w + l /\ w' = l * h' /\ w' < k /\ h' \in 0 .. BMAX /\ w' \in Nat /\ h' \in Nat
             /\ u' = [u EXCEPT ![h'] = Len(tabs) + 1]
             /\ x' = IF h' = 0 THEN x ELSE [x EXCEPT ![h'] = i]
             /\ Len(tabs') = Len(tabs) + 1 /\ Len(tabs) \in Nat /\ Listed'
             /\ tabs'[Len(tabs) + 1] = [r \in 0 .. Shl[j] - 1 |-> NoEntry]
             /\ \A t \in 1 .. Len(tabs) : tabs'[t] = IF h' # 0 /\ t = u[h] THEN Linked(tabs[t], q, link) ELSE tabs[t]
             /\ b' = b /\ m' = m /\ c' = c /\ v' = v /\ y' = y /\ g' = g /\ l' = l /\ k' = k /\ a' = a /\ i' = i /\ p' = p
             /\ pc' = pc /\ pc = "tables" /\ ret' = ret
<1> DEFINE j == TableBits(w')
           q == i \div Shl[w]
           link == [e |-> "table", b |-> l, v |-> Len(tabs) + 1, next |-> j]
           row == [r \in 0 .. Shl[j] - 1 |-> NoEntry]
<1>1. /\ k > w + l /\ h' = h + 1 /\ w' = w + l
      /\ u' = [u EXCEPT ![h'] = Len(tabs) + 1]
      /\ h' = 0 => tabs' = Append(tabs, row) /\ x' = x
      /\ h' # 0 => tabs' = Append([tabs EXCEPT ![u[h]][q] = link], row) /\ x' = [x EXCEPT ![h'] = i]
      /\ b' = b /\ m' = m /\ c' = c /\ v' = v /\ y' = y /\ g' = g /\ l' = l /\ k' = k /\ a' = a /\ i' = i /\ p' = p
      /\ pc' = pc /\ pc = "tables" /\ ret' = ret
  <2> HIDE DEF q
  <2> QED BY DEF NewTable, q
<1>2. l \in Nat /\ l > 0 /\ k \in Nat /\ k <= BMAX /\ BMAX \in Nat /\ h \in Int /\ h >= -1 /\ w = l * h
  <2>1. k \in 1 .. g
    BY DEF Codes
  <2> QED BY <2>1, ReadyIs DEF Levels
<1>3. h' \in Nat /\ w' = l * h' /\ w' \in Nat
  <2>1. h + 1 \in Nat /\ l * (h + 1) = l * h + l
    BY <1>2
  <2>2. l * (h + 1) \in Nat
    BY <1>2, <2>1
  <2> QED BY <1>1, <1>2, <2>1, <2>2
<1>4. h' <= w'
  <2> DEFINE n == h'
  <2>1. n \in Nat
    BY <1>3
  <2> HIDE DEF n
  <2>2. n <= l * n
    BY <1>2, <2>1
  <2> QED BY <1>3, <2>2 DEF n
<1>5. h' \in 0 .. BMAX /\ w' < k
  BY <1>1, <1>2, <1>3, <1>4
<1>6. PICK S : tabs \in Seq(S)
  BY DEF Levels, Listed
<1> DEFINE done == IF h' = 0 THEN tabs ELSE [tabs EXCEPT ![u[h]] = Linked(tabs[u[h]], q, link)]
<1>7. tabs' = Append(done, row)
  <2>1. [tabs EXCEPT ![u[h]][q] = link] = [tabs EXCEPT ![u[h]] = Linked(tabs[u[h]], q, link)]
    <3> HIDE DEF q, link
    <3> QED BY DEF Linked
  <2> HIDE DEF q, link, row
  <2> QED BY <1>1, <2>1
<1> HIDE DEF j, q, link, row
<1>8. /\ \E T : done \in Seq(T)
      /\ Len(done) = Len(tabs) /\ Len(tabs) \in Nat
      /\ \A t \in 1 .. Len(tabs) : done[t] = IF h' # 0 /\ t = u[h] THEN Linked(tabs[t], q, link) ELSE tabs[t]
  <2>1. CASE h' = 0
    <3>1. done = tabs
      BY <2>1
    <3> HIDE DEF done
    <3> QED BY <1>6, <2>1, <3>1
  <2>2. CASE h' # 0
    <3> DEFINE n == u[h]
               f == Linked(tabs[u[h]], q, link)
    <3>1. n \in 1 .. Len(tabs)
      <4>1. h \in 0 .. h
        BY <1>1, <1>2, <2>2
      <4> QED BY <4>1 DEF Levels
    <3>2. done = [tabs EXCEPT ![n] = f]
      BY <2>2
    <3> HIDE DEF n, f, done
    <3>3. done \in Seq(S \union {f}) /\ Len(done) = Len(tabs)
          /\ \A t \in 1 .. Len(tabs) : done[t] = IF t = n THEN f ELSE tabs[t]
      BY <1>6, <3>1, <3>2, ListedExcept
    <3>4. \A t \in 1 .. Len(tabs) : done[t] = IF h' # 0 /\ t = u[h] THEN Linked(tabs[t], q, link) ELSE tabs[t]
      BY <2>2, <3>3, Zenon DEF n, f
    <3>5. Len(tabs) \in Nat
      BY <1>6
    <3> QED BY <3>3, <3>4, <3>5
  <2> QED BY <2>1, <2>2
<1> HIDE DEF done
<1>9. PICK T : done \in Seq(T)
  BY <1>8
<1>10. /\ tabs' \in Seq(T \union {row}) /\ Len(tabs') = Len(done) + 1
       /\ \A t \in 1 .. Len(done) : tabs'[t] = done[t]
       /\ tabs'[Len(done) + 1] = row
  BY <1>7, <1>9, ListedAppend
<1>11. Listed'
  BY <1>10 DEF Listed
<1>12. x' = IF h' = 0 THEN x ELSE [x EXCEPT ![h'] = i]
  BY <1>1
<1>13. \A t \in 1 .. Len(tabs) : tabs'[t] = IF h' # 0 /\ t = u[h] THEN Linked(tabs[t], q, link) ELSE tabs[t]
  BY <1>8, <1>10
<1>14. tabs'[Len(tabs) + 1] = row /\ Len(tabs') = Len(tabs) + 1 /\ Len(tabs) \in Nat
  BY <1>8, <1>10
<1> QED BY <1>1, <1>3, <1>5, <1>11, <1>12, <1>13, <1>14 DEF j, q, link, row

LEMMA CodesNewTable ==
  ASSUME b \in LengthLists, Ready, Codes, Levels, NewTable
  PROVE  Ready' /\ Codes' /\ Levels'
<1>1. /\ h' = h + 1 /\ w' = w + l /\ w' = l * h' /\ w' < k /\ h' \in 0 .. BMAX /\ w' \in Nat /\ h' \in Nat
      /\ u' = [u EXCEPT ![h'] = Len(tabs) + 1]
      /\ x' = IF h' = 0 THEN x ELSE [x EXCEPT ![h'] = i]
      /\ Len(tabs') = Len(tabs) + 1 /\ Len(tabs) \in Nat /\ Listed'
      /\ b' = b /\ m' = m /\ c' = c /\ v' = v /\ y' = y /\ g' = g /\ l' = l /\ k' = k /\ a' = a /\ i' = i /\ p' = p
      /\ pc' = pc /\ pc = "tables" /\ ret' = ret
  BY NewTableIs
<1>2. Pending' = Pending
  BY <1>1 DEF Pending
<1>3. Passed' = Passed /\ Number' = Number /\ Entered' = Entered
  BY <1>1, <1>2, CodesRelabelled
<1>4. Ready'
  BY <1>1, ReadyKept
<1>5. Codes'
  <2>1. Symbols' = Symbols /\ Reversed' = Reversed
    BY <1>1, Kept, ConstantsKept
  <2> QED BY <1>1, <1>2, <1>3, <2>1 DEF Codes
<1>6. Number \in Nat /\ i = Reversed[k][Number] /\ k \in Nat /\ l \in Nat /\ l > 0 /\ i \in Nat /\ k \in 1 .. g
  <2>1. k \in 1 .. g
    BY DEF Codes
  <2> QED BY <2>1, NumberIs, ReadyIs DEF Codes
<1>7. /\ h \in Int /\ h >= -1 /\ h < Len(tabs) /\ w = l * h /\ w < k
      /\ DOMAIN x = 0 .. BMAX /\ DOMAIN u = 0 .. BMAX /\ x[0] = 0
      /\ h >= 0 => i % Shl[w] = x[h]
      /\ k > w + l => Number % Shl[k - (w + l)] = 0
  BY <1>1 DEF Levels
<1>8. k - w' \in Nat /\ k - w' > 0 /\ w' + (k - w') = k /\ Number % Shl[k - w'] = 0
  <2> DEFINE W == w'
  <2>1. W \in Nat /\ W < k /\ W = w + l
    BY <1>1
  <2>2. k > W => Number % Shl[k - W] = 0
    BY <1>7, <2>1
  <2> HIDE DEF W
  <2>3. k - W \in Nat /\ k - W > 0 /\ W + (k - W) = k /\ Number % Shl[k - W] = 0
    BY ONLY <1>6, <2>1, <2>2
  <2> QED BY <2>3 DEF W
<1>9. i < Shl[w'] /\ i % Shl[w'] = i
  <2> DEFINE W == w'
             d == k - w'
  <2>1. W \in Nat /\ d \in Nat /\ W + d = k /\ Number % Shl[d] = 0 /\ Number \in Nat /\ i = Reversed[k][Number]
    BY <1>1, <1>6, <1>8
  <2> HIDE DEF W, d
  <2>2. Reversed[W + d][Number] < Shl[W] /\ Reversed[W + d][Number] % Shl[W] = Reversed[W + d][Number]
    BY <2>1, Aligned
  <2> QED BY <2>1, <2>2 DEF W
<1>10. x'[0] = 0 /\ DOMAIN x' = 0 .. BMAX /\ DOMAIN u' = 0 .. BMAX
  BY <1>1, <1>7
<1>11. \A j \in 0 .. h : x'[j] = x[j]
  BY <1>1, <1>7
<1>12. h' # 0 => x'[h'] = i
  BY <1>1, <1>7
<1>13. \A j \in 0 .. h' : x'[j] \in 0 .. Shl[l * j] - 1
  <2> TAKE j \in 0 .. h'
  <2>1. j \in 0 .. h \/ j = h'
    BY <1>1, <1>7
  <2>2. CASE j \in 0 .. h
    BY <1>11, <2>2 DEF Levels
  <2>3. CASE j = h' /\ h' # 0
    <3>1. Shl[w'] \in Nat
      BY <1>1, ShlIs
    <3> QED BY <1>1, <1>6, <1>9, <1>12, <2>3, <3>1
  <2>4. CASE j = h' /\ h' = 0
    <3>1. l * 0 = 0 /\ Shl[0] = 1
      BY <1>6, ShlIs
    <3> QED BY <1>10, <2>4, <3>1
  <2> QED BY <2>1, <2>2, <2>3, <2>4
<1>14. \A j \in 0 .. h' : j > 0 => x'[j] % Shl[l * (j - 1)] = x'[j - 1]
  <2> TAKE j \in 0 .. h'
  <2> SUFFICES ASSUME j > 0 PROVE x'[j] % Shl[l * (j - 1)] = x'[j - 1]
    OBVIOUS
  <2>1. j \in 0 .. h \/ j = h'
    BY <1>1, <1>7
  <2>2. CASE j \in 0 .. h
    <3>1. j - 1 \in 0 .. h
      BY <1>7, <2>2
    <3>2. x[j] % Shl[l * (j - 1)] = x[j - 1]
      BY <2>2 DEF Levels
    <3> QED BY <1>11, <2>2, <3>1, <3>2
  <2>3. CASE j = h'
    <3>1. j - 1 = h /\ h >= 0 /\ h' # 0 /\ h \in 0 .. h
      BY <1>1, <1>7, <2>3
    <3>2. x'[j] = i /\ x'[h] = x[h]
      BY <1>11, <1>12, <2>3, <3>1
    <3> QED BY <1>7, <3>1, <3>2
  <2> QED BY <2>1, <2>2, <2>3
<1>15. i % Shl[w'] = x'[h']
  <2>1. CASE h' = 0
    <3>1. w' = 0 /\ Shl[0] = 1
      BY <1>1, <1>6, <2>1, ShlIs
    <3>2. i % 1 = 0
      BY <1>6
    <3> QED BY <1>10, <2>1, <3>1, <3>2
  <2> QED BY <1>9, <1>12, <2>1
<1>16. k > w' + l => Number % Shl[k - (w' + l)] = 0
  <2> SUFFICES ASSUME k > w' + l PROVE Number % Shl[k - (w' + l)] = 0
    OBVIOUS
  <2> DEFINE W == w'
             n == k - (W + l)
             d == k - W
  <2>1. W \in Nat /\ k > W + l
    BY <1>1
  <2>2. Number % Shl[d] = 0
    BY <1>8
  <2> HIDE DEF W
  <2>3. n \in Nat /\ d \in Nat /\ n <= d
    BY <1>6, <2>1
  <2> HIDE DEF n, d
  <2>4. Number % Shl[n] = 0
    BY <1>6, <2>2, <2>3, AlignedLess
  <2> QED BY <2>4 DEF W, n
<1>17. \A j \in 0 .. h' : u'[j] \in 1 .. Len(tabs')
  <2> TAKE j \in 0 .. h'
  <2>1. j \in 0 .. h \/ j = h'
    BY <1>1, <1>7
  <2>2. CASE j \in 0 .. h
    <3>1. u[j] \in 1 .. Len(tabs) /\ j # h' /\ u'[j] = u[j]
      <4>1. u[j] \in 1 .. Len(tabs)
        BY <2>2 DEF Levels
      <4>2. j # h'
        BY <1>1, <1>7, <2>2
      <4> QED BY <1>1, <4>1, <4>2
    <3> QED BY <1>1, <3>1
  <2>3. CASE j = h'
    <3>1. u'[j] = Len(tabs) + 1
      BY <1>1, <1>7, <2>3
    <3> QED BY <1>1, <3>1
  <2> QED BY <2>1, <2>2, <2>3
<1>18. Levels'
  <2>1. h' \in Int /\ h' >= -1 /\ h' < Len(tabs') /\ (h' = -1 => tabs' = <<>>)
    BY <1>1, <1>7
  <2> QED BY <1>1, <1>3, <1>10, <1>13, <1>14, <1>15, <1>16, <1>17, <2>1, ConstantsKept DEF Levels
<1> QED BY <1>4, <1>5, <1>18

(* A code entered, and what hangs on it.                                   *)
LEMMA FillInIs ==
  ASSUME b \in LengthLists, Ready, Codes, Levels, FillIn
  PROVE  /\ h \in Nat /\ w \in Nat /\ w = l * h /\ w < k /\ k <= w + l /\ Len(tabs) \in Nat /\ h < Len(tabs)
         /\ Len(tabs') = Len(tabs) /\ Listed'
         /\ \A t \in 1 .. Len(tabs) : tabs'[t] = IF t = Len(tabs) THEN Fill(tabs[t]) ELSE tabs[t]
         /\ p' = (IF p < Cardinality(Symbols) THEN p + 1 ELSE p) /\ i' = Increment(i, k)
         /\ b' = b /\ m' = m /\ c' = c /\ v' = v /\ y' = y /\ g' = g /\ l' = l /\ k' = k /\ a' = a /\ h' = h /\ w' = w
         /\ x' = x /\ u' = u /\ pc = "tables" /\ pc' = "backup" /\ ret' = ret
         /\ Passed' = Passed + 1 /\ Number' = Number + 1 /\ Entered' = Entered + 1
<1>1. /\ pc = "tables" /\ k <= w + l /\ tabs' = [tabs EXCEPT ![Len(tabs)] = Fill(tabs[Len(tabs)])]
      /\ p' = (IF p < Cardinality(Symbols) THEN p + 1 ELSE p) /\ i' = Increment(i, k) /\ pc' = "backup"
      /\ b' = b /\ m' = m /\ c' = c /\ v' = v /\ y' = y /\ g' = g /\ l' = l /\ k' = k /\ a' = a /\ h' = h /\ w' = w
      /\ x' = x /\ u' = u /\ ret' = ret
  BY DEF FillIn
<1>2. l \in Nat /\ l > 0 /\ k \in Nat /\ k > 0 /\ k \in 1 .. g /\ h \in Int /\ h >= -1 /\ h < Len(tabs) /\ w = l * h /\ w < k
      /\ (h = -1 => tabs = <<>>)
  <2>1. k \in 1 .. g
    BY DEF Codes
  <2> QED BY <2>1, ReadyIs DEF Levels
<1>3. h \in Nat /\ w \in Nat
  <2>1. h # -1
    <3> SUFFICES ASSUME h = -1 PROVE FALSE
      OBVIOUS
    <3>1. w = -l
      BY <1>2
    <3> QED BY <1>1, <1>2, <3>1
  <2>2. h \in Nat
    BY <1>2, <2>1
  <2> QED BY <1>2, <2>2
<1>4. PICK S : tabs \in Seq(S)
  BY DEF Levels, Listed
<1>5. Len(tabs) \in Nat /\ Len(tabs) \in 1 .. Len(tabs)
  BY <1>2, <1>3, <1>4
<1>6. Len(tabs') = Len(tabs) /\ Listed' /\ \A t \in 1 .. Len(tabs) : tabs'[t] = IF t = Len(tabs) THEN Fill(tabs[t]) ELSE tabs[t]
  <2> DEFINE f == Fill(tabs[Len(tabs)])
  <2> HIDE DEF f
  <2>1. tabs' = [tabs EXCEPT ![Len(tabs)] = f]
    BY <1>1 DEF f
  <2>2. /\ tabs' \in Seq(S \union {f}) /\ Len(tabs') = Len(tabs)
        /\ \A t \in 1 .. Len(tabs) : tabs'[t] = IF t = Len(tabs) THEN f ELSE tabs[t]
    BY <1>4, <1>5, <2>1, ListedExcept
  <2>3. \A t \in 1 .. Len(tabs) : tabs'[t] = IF t = Len(tabs) THEN Fill(tabs[t]) ELSE tabs[t]
    BY <2>2, Zenon DEF f
  <2> QED BY <2>2, <2>3 DEF Listed
<1>7. Passed' = Passed + 1 /\ Number' = Number + 1 /\ Entered' = Entered + 1
  <2>1. a \in Nat /\ Passed \in Nat /\ c[k] \in Nat /\ FirstCode[k] \in Nat /\ Below(k) \in Nat
    BY <1>2, NumberIs, ReadyIs
  <2>2. Pending = a + 1 /\ Pending' = a
    BY <1>1 DEF Pending
  <2>3. Passed = c[k] - Pending /\ Passed' = c[k] - Pending'
    BY <1>1 DEF Passed
  <2>4. Passed' = Passed + 1
    BY <2>1, <2>2, <2>3
  <2>5. Number = FirstCode[k] + Passed /\ Number' = FirstCode[k] + Passed'
    BY <1>1, Kept DEF Number
  <2>6. Below(k)' = Below(k)
    BY <1>1 DEF Below, Used, Symbols
  <2>7. Entered = Below(k) + Passed /\ Entered' = Below(k) + Passed'
    BY <2>6 DEF Entered
  <2> QED BY <2>1, <2>4, <2>5, <2>7
<1> QED BY <1>1, <1>2, <1>3, <1>5, <1>6, <1>7

LEMMA CodesFillIn ==
  ASSUME b \in LengthLists, Ready, Codes, Levels, FillIn
  PROVE  Ready' /\ Codes' /\ Levels'
<1>1. /\ h \in Nat /\ w \in Nat /\ w = l * h /\ w < k /\ k <= w + l /\ Len(tabs) \in Nat /\ h < Len(tabs)
      /\ Len(tabs') = Len(tabs) /\ Listed'
      /\ p' = (IF p < Cardinality(Symbols) THEN p + 1 ELSE p) /\ i' = Increment(i, k)
      /\ b' = b /\ m' = m /\ c' = c /\ v' = v /\ y' = y /\ g' = g /\ l' = l /\ k' = k /\ a' = a /\ h' = h /\ w' = w
      /\ x' = x /\ u' = u /\ pc = "tables" /\ pc' = "backup" /\ ret' = ret
      /\ Passed' = Passed + 1 /\ Number' = Number + 1 /\ Entered' = Entered + 1
  BY FillInIs
<1>2. Number \in Nat /\ Entered \in Nat /\ k \in Nat /\ k \in 1 .. g /\ a \in Nat /\ Pending <= c[k] /\ i = Reversed[k][Number]
      /\ p = (IF Entered < Cardinality(Symbols) THEN Entered ELSE Cardinality(Symbols)) /\ Cardinality(Symbols) \in Nat
      /\ c[k] \in Nat /\ l \in Nat
  <2>1. k \in 1 .. g
    BY DEF Codes
  <2> QED BY <2>1, NumberIs, ReadyIs, Lengths DEF Codes
<1>3. Ready'
  BY <1>1, ReadyKept
<1>4. Codes'
  <2>1. Pending = a + 1 /\ Pending' = a
    BY <1>1 DEF Pending
  <2>2. i' = Reversed'[k'][Number']
    <3>1. i' = Reversed[k][Number + 1]
      BY <1>1, <1>2, Incremented
    <3> QED BY <1>1, <3>1, ConstantsKept
  <2>3. p' = IF Entered' < Cardinality(Symbols') THEN Entered' ELSE Cardinality(Symbols')
    <3>1. Symbols' = Symbols
      BY <1>1, Kept
    <3> DEFINE n == Cardinality(Symbols)
    <3>2. p = (IF Entered < n THEN Entered ELSE n) /\ p' = (IF p < n THEN p + 1 ELSE p) /\ n \in Nat
      BY <1>1, <1>2
    <3> HIDE DEF n
    <3>3. p' = IF Entered' < n THEN Entered' ELSE n
      BY <1>1, <1>2, <3>2
    <3> QED BY <3>1, <3>3 DEF n
  <2>4. k' \in 1 .. g' /\ a' \in Nat /\ Pending' <= c'[k'] /\ a' < c'[k'] /\ h' >= 0 /\ pc' = "backup"
    BY <1>1, <1>2, <2>1
  <2> QED BY <2>2, <2>3, <2>4 DEF Codes
<1>5. Levels'
  <2>1. h \in Int /\ h >= -1 /\ (h = -1 => tabs' = <<>>) /\ ~(k > w + l)
    <3>1. h # -1 /\ h \in Int /\ h >= -1
      BY <1>1
    <3> DEFINE W == w
    <3>2. W \in Nat /\ k <= W + l
      BY <1>1
    <3> HIDE DEF W
    <3>3. ~(k > W + l)
      BY <1>2, <3>2
    <3> QED BY <3>1, <3>3 DEF W
  <2>2. Reversed[k][Number' - 1] % Shl[w] = x[h]
    <3>1. Number' - 1 = Number
      BY <1>1, <1>2
    <3>2. i % Shl[w] = x[h]
      BY <1>1 DEF Levels
    <3> QED BY <1>2, <3>1, <3>2
  <2>3. /\ DOMAIN x = 0 .. BMAX /\ DOMAIN u = 0 .. BMAX /\ x[0] = 0
        /\ \A j \in 0 .. h : u[j] \in 1 .. Len(tabs)
        /\ \A j \in 0 .. h : x[j] \in 0 .. Shl[l * j] - 1
        /\ \A j \in 0 .. h : j > 0 => x[j] % Shl[l * (j - 1)] = x[j - 1]
    BY DEF Levels
  <2> QED BY <1>1, <2>1, <2>2, <2>3, ConstantsKept DEF Levels
<1> QED BY <1>3, <1>4, <1>5

(* A table left: behind the code before, the bits of its own have run      *)
(* through.                                                                *)
LEMMA BackUpIs ==
  ASSUME b \in LengthLists, Ready, Codes, Levels, BackUp
  PROVE  /\ h \in Nat /\ h > 0 /\ w \in Nat /\ w = l * h /\ w < k /\ h' = h - 1 /\ w' = w - l /\ w' \in Nat /\ h' \in Nat
         /\ w' = l * (h - 1)
         /\ pc = "backup" /\ i % Shl[w] # x[h]
         /\ b' = b /\ m' = m /\ c' = c /\ v' = v /\ y' = y /\ g' = g /\ l' = l /\ k' = k /\ a' = a /\ i' = i /\ p' = p
         /\ x' = x /\ u' = u /\ tabs' = tabs /\ pc' = pc /\ ret' = ret
         /\ Pending' = Pending /\ Passed' = Passed /\ Number' = Number /\ Entered' = Entered
         /\ Number % Shl[k - w] = 0 /\ Number = Shl[k - w] * (((Number - 1) \div Shl[k - w]) + 1)
<1>1. /\ pc = "backup" /\ i % Shl[w] # x[h] /\ h' = h - 1 /\ w' = w - l
      /\ b' = b /\ m' = m /\ c' = c /\ v' = v /\ y' = y /\ g' = g /\ l' = l /\ k' = k /\ a' = a /\ i' = i /\ p' = p
      /\ x' = x /\ u' = u /\ tabs' = tabs /\ pc' = pc /\ ret' = ret
  BY DEF BackUp
<1>2. /\ l \in Nat /\ l > 0 /\ k \in Nat /\ h \in Int /\ h >= 0 /\ w = l * h /\ w < k /\ x[0] = 0 /\ i \in Nat
      /\ Number \in Nat /\ Number > 0 /\ i = Reversed[k][Number]
      /\ Reversed[k][Number - 1] % Shl[w] = x[h]
  <2>1. k \in 1 .. g
    BY DEF Codes
  <2> QED BY <1>1, <2>1, NumberIs, ReadyIs DEF Levels, Codes
<1>3. h > 0
  <2> SUFFICES ASSUME h = 0 PROVE FALSE
    BY <1>2
  <2>1. w = 0 /\ Shl[0] = 1
    BY <1>2, ShlIs
  <2>2. i % 1 = 0
    BY <1>2
  <2> QED BY <1>1, <1>2, <2>1, <2>2
<1>4. w \in Nat /\ w' = l * (h - 1) /\ h - 1 \in Nat /\ w' \in Nat
  <2>1. h - 1 \in Nat /\ l * (h - 1) = l * h - l
    BY <1>2, <1>3
  <2>2. l * (h - 1) \in Nat /\ l * h \in Nat
    BY <1>2, <2>1
  <2> QED BY <1>1, <1>2, <2>1, <2>2
<1>5. Number % Shl[k - w] = 0 /\ Number = Shl[k - w] * (((Number - 1) \div Shl[k - w]) + 1)
  <2> DEFINE W == w
             d == k - w
  <2>1. W \in Nat /\ d \in Nat /\ W + d = k
    BY <1>2, <1>4
  <2>2. Reversed[W + d][Number] % Shl[W] # Reversed[W + d][Number - 1] % Shl[W]
    BY <1>1, <1>2, <2>1
  <2> HIDE DEF W, d
  <2>3. Number % Shl[d] = 0 /\ Number = Shl[d] * (((Number - 1) \div Shl[d]) + 1)
    BY <1>2, <2>1, <2>2, Moved
  <2> QED BY <2>3 DEF d
<1>6. Pending' = Pending
  BY <1>1 DEF Pending
<1>7. Passed' = Passed /\ Number' = Number /\ Entered' = Entered
  BY <1>1, <1>6, CodesRelabelled
<1> QED BY <1>1, <1>2, <1>3, <1>4, <1>5, <1>6, <1>7

LEMMA CodesBackUp ==
  ASSUME b \in LengthLists, Ready, Codes, Levels, BackUp
  PROVE  Ready' /\ Codes' /\ Levels'
<1>1. /\ h \in Nat /\ h > 0 /\ w \in Nat /\ w = l * h /\ w < k /\ h' = h - 1 /\ w' = w - l /\ w' \in Nat /\ h' \in Nat
      /\ w' = l * (h - 1)
      /\ pc = "backup"
      /\ b' = b /\ m' = m /\ c' = c /\ v' = v /\ y' = y /\ g' = g /\ l' = l /\ k' = k /\ a' = a /\ i' = i /\ p' = p
      /\ x' = x /\ u' = u /\ tabs' = tabs /\ pc' = pc /\ ret' = ret
      /\ Pending' = Pending /\ Passed' = Passed /\ Number' = Number /\ Entered' = Entered
      /\ Number % Shl[k - w] = 0
  BY BackUpIs
<1>2. Ready'
  BY <1>1, ReadyKept
<1>3. Codes'
  <2>1. Symbols' = Symbols /\ Reversed' = Reversed
    BY <1>1, Kept, ConstantsKept
  <2> QED BY <1>1, <2>1 DEF Codes
<1>4. /\ l \in Nat /\ l > 0 /\ k \in Nat /\ h < Len(tabs)
      /\ DOMAIN x = 0 .. BMAX /\ DOMAIN u = 0 .. BMAX /\ x[0] = 0
      /\ \A j \in 0 .. h : u[j] \in 1 .. Len(tabs)
      /\ \A j \in 0 .. h : x[j] \in 0 .. Shl[l * j] - 1
      /\ \A j \in 0 .. h : j > 0 => x[j] % Shl[l * (j - 1)] = x[j - 1]
      /\ Reversed[k][Number - 1] % Shl[w] = x[h]
      /\ Number \in Nat /\ Number > 0 /\ Len(tabs) \in Nat /\ Listed
  <2>1. k \in 1 .. g
    BY DEF Codes
  <2>2. Listed /\ Len(tabs) \in Nat
    <3>1. PICK S : tabs \in Seq(S)
      BY DEF Levels, Listed
    <3> QED BY <3>1 DEF Levels
  <2> QED BY <1>1, <2>1, <2>2, NumberIs, ReadyIs DEF Levels
<1>5. Reversed[k][Number - 1] % Shl[w'] = x[h']
  <2> DEFINE R == Reversed[k][Number - 1]
             W == w'
             T == w
  <2>1. R \in Nat
    BY <1>4, ReversedType
  <2>2. W \in Nat /\ T \in Nat /\ W <= T
    BY <1>1, <1>4
  <2>3. x[h] % Shl[W] = x[h - 1]
    <3>1. h \in 0 .. h
      BY <1>1
    <3> QED BY <1>1, <1>4, <3>1
  <2>4. R % Shl[T] = x[h]
    BY <1>4
  <2> HIDE DEF R, W, T
  <2>5. (R % Shl[T]) % Shl[W] = R % Shl[W]
    BY <2>1, <2>2, ModMod
  <2>6. R % Shl[W] = x[h - 1]
    BY <2>3, <2>4, <2>5
  <2> QED BY <1>1, <2>6 DEF R, W
<1>6. k > w' + l => Number % Shl[k - (w' + l)] = 0
  <2>1. w' + l = w
    BY <1>1, <1>4
  <2> QED BY <1>1, <2>1
<1>7. Levels'
  <2>1. h' \in Int /\ h' >= -1 /\ h' < Len(tabs') /\ h' # -1
    <3> DEFINE H == h'
    <3>1. H \in Nat /\ H = h - 1 /\ tabs' = tabs /\ h \in Nat
      BY <1>1
    <3> HIDE DEF H
    <3>2. H \in Int /\ H >= -1 /\ H < Len(tabs) /\ H # -1
      BY <1>4, <3>1
    <3> QED BY <3>1, <3>2 DEF H
  <2>2. w' = l' * h' /\ w' < k'
    BY <1>1, <1>4
  <2>3. /\ \A j \in 0 .. h' : u[j] \in 1 .. Len(tabs)
        /\ \A j \in 0 .. h' : x[j] \in 0 .. Shl[l * j] - 1
        /\ \A j \in 0 .. h' : j > 0 => x[j] % Shl[l * (j - 1)] = x[j - 1]
    <3>1. \A j \in 0 .. h' : j \in 0 .. h
      BY <1>1
    <3> QED BY <1>4, <3>1
  <2>4. pc' = "backup"
    BY <1>1
  <2> QED BY <1>1, <1>4, <1>5, <1>6, <2>1, <2>2, <2>3, <2>4, ConstantsKept DEF Levels, Listed
<1> QED BY <1>2, <1>3, <1>7

LEMMA CodesNext ==
  ASSUME CodesInv, [Next]_vars
  PROVE  CodesInv'
<1>1. b \in LengthLists /\ m \in 0 .. BMAX /\ ret \in 0 .. 2 /\ (Idle \/ (Ready /\ Codes /\ Levels))
  BY DEF CodesInv
<1>2. ASSUME UNCHANGED vars
      PROVE  CodesInv'
  <2>1. /\ b' = b /\ m' = m /\ c' = c /\ v' = v /\ y' = y /\ g' = g /\ l' = l /\ k' = k /\ a' = a /\ i' = i /\ p' = p
        /\ h' = h /\ w' = w /\ x' = x /\ u' = u /\ tabs' = tabs /\ pc' = pc /\ ret' = ret
    BY <1>2 DEF vars
  <2>2. CASE Idle
    BY <1>1, <2>1, <2>2 DEF CodesInv, Idle
  <2>3. CASE Ready /\ Codes /\ Levels
    <3>1. Pending' = Pending
      BY <2>1 DEF Pending
    <3>2. Passed' = Passed /\ Number' = Number /\ Entered' = Entered
      BY <1>1, <2>1, <2>3, <3>1, CodesRelabelled
    <3>3. Ready'
      BY <2>1, <2>3, ReadyKept
    <3>4. Codes'
      <4>1. Symbols' = Symbols /\ Reversed' = Reversed
        BY <2>1, Kept, ConstantsKept
      <4> QED BY <2>1, <2>3, <3>1, <3>2, <4>1 DEF Codes
    <3>5. Levels'
      BY <2>1, <2>3, <3>2, ConstantsKept DEF Levels, Listed
    <3> QED BY <1>1, <2>1, <3>3, <3>4, <3>5 DEF CodesInv
  <2> QED BY <1>1, <2>2, <2>3
<1>3. ASSUME NullInput
      PROVE  CodesInv'
  <2>1. Idle
    BY <1>1, <1>3 DEF NullInput, Codes
  <2>2. 0 \in 0 .. BMAX
    BY <1>1, Lengths
  <2> QED BY <1>1, <1>3, <2>1, <2>2 DEF NullInput, CodesInv, Idle
<1>4. ASSUME Oversubscribed
      PROVE  CodesInv'
  <2>1. Idle
    BY <1>1, <1>4 DEF Oversubscribed, Codes
  <2>2. Shortest \in 1 .. BMAX /\ Longest \in 1 .. BMAX /\ BMAX \in Nat
    BY <1>1, <1>4, Extremes, Lengths DEF Oversubscribed
  <2>3. Bound(Shortest, Longest, m) \in 0 .. BMAX
    BY <1>1, <2>2 DEF Bound
  <2> QED BY <1>1, <1>4, <2>1, <2>3 DEF Oversubscribed, CodesInv, Idle
<1>5. ASSUME Prepare
      PROVE  CodesInv'
  BY <1>5, CodesPrepare
<1>6. ASSUME NextLength \/ NextCode \/ Finish \/ NewTable \/ FillIn \/ BackUp \/ BackedUp
      PROVE  CodesInv'
  <2>1. Ready /\ Codes /\ Levels
    <3>1. ~Idle
      BY <1>6 DEF NextLength, NextCode, Finish, NewTable, FillIn, BackUp, BackedUp, Idle
    <3> QED BY <1>1, <3>1
  <2>2. Ready' /\ Codes' /\ Levels'
    BY <1>1, <1>6, <2>1, CodesNextLength, CodesNextCode, CodesFinish, CodesNewTable, CodesFillIn, CodesBackUp
  <2>3. b' = b /\ m' = m /\ ret' \in 0 .. 2
    BY <1>1, <1>6, <2>1 DEF NextLength, NextCode, Finish, NewTable, FillIn, BackUp, BackedUp
  <2> QED BY <1>1, <2>2, <2>3 DEF CodesInv
<1> QED BY <1>2, <1>3, <1>4, <1>5, <1>6 DEF Next, Returned

LEMMA CodesHold ==
  Spec => []CodesInv
<1>1. Init => CodesInv
  BY CodesInit
<1>2. CodesInv /\ [Next]_vars => CodesInv'
  BY CodesNext
<1> QED BY <1>1, <1>2, PTL DEF Spec

(* Every variable keeps its type: the running code fits g bits, p stays    *)
(* inside v, and the level h below the number of tables (lib/inflate.c:    *)
(* 290-311).                                                               *)
THEOREM TypesKept ==
  Spec => []TypeOK
<1>1. ASSUME CodesInv
      PROVE  TypeOK
  <2>1. b \in LengthLists /\ m \in 0 .. BMAX /\ ret \in 0 .. 2 /\ (Idle \/ (Ready /\ Codes /\ Levels))
    BY <1>1 DEF CodesInv
  <2>2. BMAX \in Nat /\ Cardinality(Symbols) \in Nat
    BY <2>1, Lengths
  <2>3. CASE Idle
    <3>1. Shl[0] = 1 /\ Len(tabs) = 0
      BY <2>3, ShlIs DEF Idle
    <3>2. /\ l \in 0 .. BMAX /\ g \in 0 .. BMAX /\ k \in 0 .. BMAX /\ y \in Nat /\ a \in Nat /\ i \in 0 .. Shl[g] - 1
          /\ p \in 0 .. Cardinality(Symbols) /\ h \in -1 .. (Len(tabs) - 1) /\ w \in -BMAX .. BMAX
          /\ pc \in {"count", "codes", "tables", "backup", "done"}
      BY <2>2, <2>3, <3>1 DEF Idle
    <3> QED BY <2>1, <3>2 DEF TypeOK
  <2>4. CASE Ready /\ Codes /\ Levels
    <3>1. k \in 1 .. g /\ pc \in {"count", "codes", "tables", "backup", "done"}
      BY <2>4 DEF Codes
    <3>2. /\ g \in Nat /\ g > 0 /\ l \in Nat /\ l > 0 /\ l <= g /\ g <= BMAX /\ k \in Nat /\ k > 0 /\ k <= BMAX
          /\ y \in Nat /\ a \in Nat /\ i \in Nat /\ i < Shl[k] /\ Entered \in Nat
          /\ Shl[k] \in Nat
      BY <2>1, <2>4, <3>1, ReadyIs, NumberIs
    <3>3. i \in 0 .. Shl[g] - 1
      <4>1. Shl[k] <= Shl[g] /\ Shl[g] \in Nat
        <5>1. k \in Nat /\ g \in Nat /\ k <= g
          BY <3>1, <3>2
        <5>2. Shl[k] <= Shl[g]
          BY ONLY <5>1, ShlGrows
        <5> QED BY <5>1, <5>2, ShlIs
      <4> QED BY <3>2, <4>1
    <3>4. p \in 0 .. Cardinality(Symbols)
      <4>1. p = IF Entered < Cardinality(Symbols) THEN Entered ELSE Cardinality(Symbols)
        BY <2>4 DEF Codes
      <4> QED BY <2>2, <3>2, <4>1
    <3>5. h \in Int /\ h >= -1 /\ h < Len(tabs) /\ w = l * h /\ w < k
      BY <2>4 DEF Levels
    <3>6. h \in -1 .. (Len(tabs) - 1)
      <4>1. PICK S : tabs \in Seq(S)
        BY <2>4 DEF Levels, Listed
      <4>2. Len(tabs) \in Nat
        BY <4>1
      <4> QED BY <3>5, <4>2
    <3>7. w \in -BMAX .. BMAX
      <4>1. h = -1 \/ h \in Nat
        BY <3>5
      <4>2. CASE h = -1
        <5>1. w = -l
          BY <3>2, <3>5, <4>2
        <5> QED BY <2>2, <3>2, <5>1
      <4>3. CASE h \in Nat
        <5>1. w \in Nat
          BY <3>2, <3>5, <4>3
        <5> QED BY <2>2, <3>2, <3>5, <5>1
      <4> QED BY <4>1, <4>2, <4>3
    <3>8. l \in 0 .. BMAX /\ g \in 0 .. BMAX /\ k \in 0 .. BMAX
      BY <2>2, <3>2
    <3> QED BY <2>1, <3>1, <3>2, <3>3, <3>4, <3>6, <3>7, <3>8 DEF TypeOK
  <2> QED BY <2>1, <2>3, <2>4
<1> QED BY <1>1, CodesHold, PTL

(* The running code is the one of the symbol it is entered for: what the   *)
(* two counters i and p do between them (lib/inflate.c:391-476).           *)
THEOREM RightCodes ==
  Spec => []EntersTheRightCode
<1>1. ASSUME CodesInv
      PROVE  EntersTheRightCode
  <2> SUFFICES ASSUME pc = "tables", p < Cardinality(Used)
               PROVE  b[v[p]] = k /\ BeginsWith(i, v[p]) /\ i < Shl[k]
    BY DEF EntersTheRightCode
  <2>1. b \in LengthLists /\ Ready /\ Codes /\ Levels
    BY <1>1 DEF CodesInv, Idle
  <2>2. /\ k \in Nat /\ k > 0 /\ k \in 1 .. g /\ g \in Nat /\ Passed \in Nat /\ Passed < c[k] /\ Entered = Below(k) + Passed /\ Number = FirstCode[k] + Passed
        /\ Below(k) \in Nat /\ Cardinal(k) \in Nat /\ c[k] \in Nat /\ i = Reversed[k][Number] /\ i \in Nat /\ i < Shl[k] /\ Number \in Nat
        /\ (k < g => c[k] = Cardinal(k)) /\ v = Sorted /\ g = Longest
    <3>1. k \in 1 .. g
      BY <2>1 DEF Codes
    <3>2. v = Sorted /\ g = Longest /\ i = Reversed[k][Number] /\ Number = FirstCode[k] + Passed
      BY <2>1 DEF Codes, Ready, Number
    <3> QED BY <2>1, <3>1, <3>2, NumberIs, ReadyIs
  <2>3. Cardinality(Used) <= Cardinality(Symbols) /\ Cardinality(Used) \in Nat /\ Cardinality(Symbols) \in Nat
    BY <2>1, Lengths
  <2>4. p = Entered /\ Entered < Cardinality(Used)
    <3>1. p = IF Entered < Cardinality(Symbols) THEN Entered ELSE Cardinality(Symbols)
      BY <2>1 DEF Codes
    <3> QED BY <2>1, <2>3, <3>1, NumberIs
  <2>5. Passed < Cardinal(k)
    <3>1. CASE k < g
      BY <2>2, <3>1
    <3>2. CASE k = g
      <4>1. Below(k + 1) = Cardinality(Used) /\ Below(k + 1) = Below(k) + Cardinal(k)
        BY <2>1, <2>2, <3>2, Extremes, CardinalIs DEF Ready
      <4> QED BY <2>2, <2>4, <4>1
    <3> QED BY <2>2, <3>1, <3>2
  <2>6. b[v[p]] = k /\ CodeOf(v[p]) = FirstCode[k] + Passed
    BY <2>1, <2>2, <2>4, <2>5, SortedAt
  <2>7. i % Shl[k] = i
    <3>1. Shl[k] \in Nat
      BY <2>2, ShlIs
    <3> QED BY <2>2, <3>1
  <2> QED BY <2>2, <2>6, <2>7 DEF BeginsWith
<1> QED BY <1>1, CodesHold, PTL

-----------------------------------------------------------------------------
(* Every set of codes but one too small for the tables it asks for.        *)
Roomy == g <= 2 * l \/ (Cardinality(Symbols) < Shl[l] /\ y = 0)

(* The bits before the table of a level; a table of J bits behind the bits *)
(* P of a code holds all codes that begin with them, or at least l bits;   *)
(* where its places begin.                                                 *)
Prefix(j) == Reversed[l * j][x[j]]
Sized(n, P, J) == J >= l \/ J >= g - n \/ End(n + J) >= Shl[J] * (P + 1)
Slot(P, J, q) == Shl[J] * P + Reversed[J][q]

(* From the code N of d bits on a table is empty.                          *)
Behind(table, n, P, J, N, d) ==
  \A q \in 0 .. Shl[J] - 1 : N * Shl[n + J] <= Slot(P, J, q) * Shl[d] => table[q].e = "unset"

(* A table on the stack: it is linked to from the one before it, and behind*)
(* the table after it, or behind the running code, it is empty.            *)
Link(t, J) == [e |-> "table", b |-> l, v |-> t, next |-> J]
Ahead(j, J) ==
  IF j = h THEN Behind(tabs[u[j]], l * j, Prefix(j), J, Number, k)
  ELSE Behind(tabs[u[j]], l * j, Prefix(j), J, Prefix(j + 1) + 1, l * (j + 1))
TableAt(j, J) ==
  /\ J > 0
  /\ DOMAIN tabs[u[j]] = 0 .. Shl[J] - 1
  /\ Sized(l * j, Prefix(j), J)
  /\ Roomy /\ g > 2 * l /\ j > 0 => J <= l
  /\ j > 0 => tabs[u[j - 1]][x[j] \div Shl[l * (j - 1)]] = Link(u[j], J)
  /\ Ahead(j, J)

Stacked ==
  /\ h >= 0 => u[0] = 1
  /\ \A j \in 0 .. h : \A n \in 0 .. j - 1 : u[n] < u[j]
  /\ h >= 0 /\ k <= w + l => u[h] = Len(tabs)
  /\ \A j \in 0 .. h : \E J \in Nat : TableAt(j, J)

(* The walk inflate_codes() takes, and where it ends: at the symbol whose  *)
(* code the stream begins with, or at a code of no symbol.                 *)
PlaceIn(T, f) ==
  IF f.rest % Shl[f.bits] \in DOMAIN T[f.t] THEN T[f.t][f.rest % Shl[f.bits]] ELSE NoEntry
FollowIn(T, f) ==
  LET e == PlaceIn(T, f)
  IN IF e.e # "table" THEN f
     ELSE [t |-> e.v, bits |-> e.next, rest |-> f.rest \div Shl[e.b], used |-> f.used + e.b]
Trace(F, T, stream) ==
  F = [j \in Nat |-> IF j = 0 THEN [t |-> 1, bits |-> l, rest |-> stream, used |-> 0] ELSE FollowIn(T, F[j - 1])]
Ends(e, used, stream) ==
  /\ DOMAIN e = {"e", "b", "v", "next"}
  /\ \/ e.e = "code" /\ e.v \in Used /\ BeginsWith(stream, e.v) /\ e.b + used = b[e.v]
     \/ e.e \in {"code", "unused"} /\ Reversed[g][stream] >= End(g) /\ (Used = Symbols => e.e = "unused")
Found(stream) ==
  \E F : /\ Trace(F, tabs, stream)
         /\ \A j \in Nat : F[j].t \in 1 .. Len(tabs) /\ PlaceIn(tabs, F[j]).e # "unset"
         /\ Ends(PlaceIn(tabs, F[g]), F[g].used, stream)

(* Every stream that begins with a code up to the running one is found.    *)
Covered ==
  Roomy => \A stream \in 0 .. Shl[g] - 1 : Reversed[g][stream] * Shl[k] < Number * Shl[g] => Found(stream)
-----------------------------------------------------------------------------
(* Where a place of a table begins: by the low bits of its number.         *)
LEMMA ReversedSplit ==
  ASSUME NEW n \in Nat, NEW J \in Nat, n <= J, NEW q \in Nat
  PROVE  /\ Reversed[J][q] = Shl[J - n] * Reversed[n][q % Shl[n]] + Reversed[J - n][q \div Shl[n]]
         /\ Reversed[J - n][q \div Shl[n]] \in 0 .. Shl[J - n] - 1 /\ Reversed[n][q % Shl[n]] \in Nat
         /\ Shl[J - n] \in Nat /\ Shl[J - n] > 0 /\ Shl[n] \in Nat /\ Shl[n] > 0
<1> DEFINE d == J - n
           D == q % Shl[n]
           A == q \div Shl[n]
<1>1. d \in Nat /\ d + n = J /\ Shl[n] \in Nat /\ Shl[n] > 0
  BY ShlIs
<1>2. D \in 0 .. Shl[n] - 1 /\ q = Shl[n] * A + D
  BY <1>1, Remains
<1>3. A \in Nat
  BY <1>1, Divided
<1> HIDE DEF d, D, A
<1>4. Reversed[d + n][Shl[n] * A + D] = Shl[d] * Reversed[n][D] + Reversed[d][A]
  <2>1. d \in Nat /\ n \in Nat /\ A \in Nat /\ D \in 0 .. Shl[n] - 1
    BY <1>1, <1>2, <1>3
  <2> QED BY ONLY <2>1, Spliced
<1>5. Reversed[d][A] \in 0 .. Shl[d] - 1 /\ Shl[d] \in Nat /\ Shl[d] > 0
  BY <1>1, <1>3, ReversedType
<1>6. Reversed[n][D] \in Nat
  <2>1. D \in Nat
    BY <1>1, <1>2
  <2> QED BY <2>1, ReversedType
<1>7. Reversed[J][q] = Shl[d] * Reversed[n][D] + Reversed[d][A]
  BY <1>1, <1>2, <1>4
<1> QED BY <1>1, <1>5, <1>6, <1>7 DEF d, D, A

LEMMA ReversedShort ==
  ASSUME NEW n \in Nat, NEW J \in Nat, n <= J, NEW q \in Nat, q < Shl[n]
  PROVE  Reversed[J][q] = Shl[J - n] * Reversed[n][q]
<1>1. Shl[n] \in Nat /\ Shl[n] > 0
  BY ShlIs
<1>2. q % Shl[n] = q /\ q \div Shl[n] = 0
  <2> DEFINE B == Shl[n]
  <2>1. B \in Nat /\ B > 0 /\ q < B /\ q = B * 0 + q
    BY <1>1
  <2> HIDE DEF B
  <2>2. (B * 0 + q) \div B = 0 /\ (B * 0 + q) % B = q
    BY <2>1, DividedIs
  <2> QED BY <2>1, <2>2 DEF B
<1>3. J - n \in Nat
  OBVIOUS
<1>4. Reversed[J - n][0] = 0
  BY <1>3, ReversedZero
<1>5. Reversed[J][q] = Shl[J - n] * Reversed[n][q] + 0 /\ Shl[J - n] \in Nat /\ Reversed[n][q] \in Nat
  <2>1. /\ Reversed[J][q] = Shl[J - n] * Reversed[n][q % Shl[n]] + Reversed[J - n][q \div Shl[n]]
        /\ Reversed[n][q % Shl[n]] \in Nat /\ Shl[J - n] \in Nat
    BY ReversedSplit
  <2> QED BY <1>2, <1>4, <2>1
<1>6. Shl[J - n] * Reversed[n][q] \in Int
  BY <1>5
<1> QED BY <1>5, <1>6

LEMMA AlignedIs ==
  ASSUME NEW N \in Nat, NEW d \in Nat, N % Shl[d] = 0
  PROVE  N = Shl[d] * (N \div Shl[d]) /\ N \div Shl[d] \in Nat /\ Shl[d] * (N \div Shl[d]) \in Nat
<1> DEFINE B == Shl[d]
           q == N \div B
<1>1. B \in Nat /\ B > 0 /\ N % B = 0
  BY ShlIs
<1>2. N = B * q + (N % B) /\ q \in Nat
  <2> HIDE DEF B
  <2> QED BY <1>1, Remains, Divided
<1> HIDE DEF q, B
<1>3. B * q \in Nat
  BY <1>1, <1>2
<1>4. N = B * q
  BY <1>1, <1>2, <1>3
<1> QED BY <1>2, <1>3, <1>4 DEF B, q

(* Fractions compared: over a common power of two.                         *)
LEMMA Scaled ==
  ASSUME NEW r \in Nat, NEW s \in Nat, NEW t \in Nat, t > 0
  PROVE  (r * t <= s * t) <=> (r <= s)
<1>1. r <= s => r * t <= s * t
  BY Monotone, Ring
<1>2. ASSUME r > s PROVE r * t > s * t
  <2>1. s + 1 <= r /\ s + 1 \in Int /\ r \in Int
    BY <1>2
  <2>2. t * (s + 1) <= t * r
    BY <2>1, Monotone
  <2>3. t * (s + 1) = t * s + t /\ t * r = r * t /\ t * s = s * t /\ s * t \in Int /\ r * t \in Int
    BY Ring
  <2> QED BY <2>2, <2>3
<1>3. r * t \in Int /\ s * t \in Int
  BY Ring
<1> QED BY <1>1, <1>2, <1>3

(* Short of the next multiple.                                             *)
LEMMA Beyond ==
  ASSUME NEW N \in Nat, NEW d \in Nat
  PROVE  /\ N < Shl[d] * ((N \div Shl[d]) + 1) /\ Shl[d] * (N \div Shl[d]) <= N
         /\ N \div Shl[d] \in Nat /\ Shl[d] \in Nat /\ Shl[d] > 0
<1> DEFINE B == Shl[d]
           q == N \div B
<1>1. B \in Nat /\ B > 0
  BY ShlIs
<1>2. q \in Nat /\ B * q <= N /\ N < B * q + B
  BY <1>1, Divided
<1> HIDE DEF B, q
<1>3. B * (q + 1) = B * q + B
  BY <1>1, <1>2
<1> QED BY <1>1, <1>2, <1>3 DEF B, q

(* A table on the way to a code is as wide as the code asks for.           *)
LEMMA Wide ==
  ASSUME b \in LengthLists, NEW n \in Nat, NEW d \in Nat, n < d, d <= g, g \in Nat, l \in Nat, NEW J \in Nat, NEW N \in Nat,
         FirstCode[d] <= N, n + J > 0, Sized(n, N \div Shl[d - n], J)
  PROVE  J >= l \/ J >= d - n
<1> SUFFICES ASSUME ~(J >= l), ~(J >= d - n) PROVE FALSE
  OBVIOUS
<1> DEFINE e == d - n
           P == N \div Shl[e]
           r == e - J
<1>1. e \in Nat /\ r \in Nat /\ r > 0 /\ (n + J) + r = d /\ J + r = e /\ n + J \in Nat
  OBVIOUS
<1>2. End(n + J) >= Shl[J] * (P + 1)
  BY DEF Sized
<1>3. Shl[r] * End(n + J) <= FirstCode[d] /\ FirstCode[d] \in Nat /\ End(n + J) \in Nat
  <2> HIDE DEF r
  <2>1. Shl[r] * End(n + J) <= FirstCode[(n + J) + r] /\ FirstCode[(n + J) + r] \in Nat /\ End(n + J) \in Nat
    BY <1>1, BeginsBehind
  <2> QED BY <1>1, <2>1
<1>4. N < Shl[e] * (P + 1) /\ P \in Nat
  <2> HIDE DEF e
  <2> QED BY <1>1, Beyond
<1>5. Shl[e] = Shl[J] * Shl[r] /\ Shl[J] \in Nat /\ Shl[r] \in Nat
  <2> HIDE DEF r, e
  <2> QED BY <1>1, ShlSum, ShlIs
<1> HIDE DEF e, P, r
<1>6. Shl[r] * (Shl[J] * (P + 1)) <= Shl[r] * End(n + J)
  <2>1. P + 1 \in Int /\ Shl[J] * (P + 1) \in Int
    BY <1>4, <1>5
  <2> QED BY <1>2, <1>3, <1>5, <2>1, Monotone
<1>7. Shl[r] * (Shl[J] * (P + 1)) = Shl[e] * (P + 1)
  <2>1. P + 1 \in Int /\ Shl[r] \in Int /\ Shl[J] \in Int
    BY <1>4, <1>5
  <2>2. (Shl[r] * Shl[J]) * (P + 1) = Shl[r] * (Shl[J] * (P + 1)) /\ Shl[r] * Shl[J] = Shl[J] * Shl[r]
    BY <2>1, Ring
  <2> QED BY <1>5, <2>2
<1>8. Shl[e] * (P + 1) \in Int /\ Shl[r] * End(n + J) \in Int
  <2>1. Shl[e] \in Nat /\ P + 1 \in Nat
    BY <1>1, <1>4, ShlIs
  <2> QED BY <1>3, <1>5, <2>1
<1> QED BY <1>3, <1>4, <1>6, <1>7, <1>8

(* The bits of a code a table's level decides.                             *)
LEMMA Decided ==
  ASSUME NEW n \in Nat, NEW d \in Nat, n <= d, NEW N \in Nat, N < Shl[d]
  PROVE  /\ N \div Shl[d - n] \in Nat /\ N \div Shl[d - n] < Shl[n]
         /\ Reversed[n][Reversed[d][N] % Shl[n]] = N \div Shl[d - n]
<1> DEFINE e == d - n
           P == N \div Shl[e]
<1>1. e \in Nat /\ n + e = d
  OBVIOUS
<1> HIDE DEF e
<1>2. P \in Nat /\ Shl[e] * P <= N /\ Shl[e] \in Nat /\ Shl[e] > 0
  BY <1>1, Beyond
<1>3. Shl[d] = Shl[n] * Shl[e] /\ Shl[n] \in Nat
  BY <1>1, ShlSum, ShlIs
<1>4. Reversed[d][N] % Shl[n] = Reversed[n][P]
  <2>1. Reversed[n + e][N] % Shl[n] = Reversed[n][N \div Shl[e]]
    <3>1. n \in Nat /\ e \in Nat /\ N \in Nat
      BY <1>1
    <3>2. Taken(n, e, N)
      BY ONLY <3>1, TakenApart
    <3> QED BY ONLY <3>2, Zenon DEF Taken
  <2> QED BY <1>1, <2>1
<1> HIDE DEF P
<1>5. P < Shl[n]
  <2> SUFFICES ASSUME P >= Shl[n] PROVE FALSE
    BY <1>2, <1>3
  <2>1. Shl[e] * Shl[n] <= Shl[e] * P
    BY <1>2, <1>3, Monotone
  <2>2. Shl[e] * Shl[n] = Shl[n] * Shl[e] /\ Shl[e] * P \in Int
    BY <1>2, <1>3, Ring
  <2>3. Shl[e] * Shl[n] \in Int
    BY <1>2, <1>3
  <2> QED BY <1>2, <1>3, <2>1, <2>2, <2>3
<1>6. Reversed[n][Reversed[n][P]] = P
  <2>1. P \in 0 .. Shl[n] - 1
    BY <1>2, <1>3, <1>5
  <2> QED BY <2>1, ReversedTwice
<1> QED BY <1>2, <1>4, <1>5, <1>6 DEF P, e

LEMMA StackOf ==
  ASSUME l \in Nat, Levels, h >= 0, NEW R \in Nat, R % Shl[l * h] = x[h], NEW j \in 0 .. h
  PROVE  R % Shl[l * j] = x[j]
<1> DEFINE S == {n \in Nat : n <= h => R % Shl[l * (h - n)] = x[h - n]}
<1>1. h \in Nat
  BY DEF Levels
<1>2. 0 \in S
  <2>1. h - 0 = h
    BY <1>1
  <2> QED BY <2>1
<1>3. ASSUME NEW n \in Nat, n \in S PROVE n + 1 \in S
  <2> SUFFICES ASSUME n + 1 <= h PROVE R % Shl[l * (h - (n + 1))] = x[h - (n + 1)]
    OBVIOUS
  <2> DEFINE d == h - n
             A == l * d
             B == l * (d - 1)
  <2>1. d \in 0 .. h /\ d > 0 /\ h - (n + 1) = d - 1 /\ d \in Nat /\ d - 1 \in Nat /\ n <= h
    BY <1>1
  <2>2. R % Shl[A] = x[d]
    BY <1>3, <2>1
  <2>3. x[d] % Shl[B] = x[d - 1]
    <3> HIDE DEF d
    <3> QED BY <2>1 DEF Levels
  <2> HIDE DEF d
  <2>4. A \in Nat /\ B \in Nat /\ B <= A
    <3>1. d - 1 <= d /\ d \in Int /\ d - 1 \in Int
      BY <2>1
    <3> QED BY <2>1, <3>1, Monotone
  <2> HIDE DEF A, B
  <2>5. (R % Shl[A]) % Shl[B] = R % Shl[B]
    BY <2>4, ModMod
  <2>6. R % Shl[B] = x[d - 1]
    BY <2>2, <2>3, <2>5
  <2> QED BY <2>1, <2>6 DEF B
<1> HIDE DEF S
<1>4. h - j \in S
  <2>1. h - j \in Nat
    BY <1>1
  <2> QED BY <1>2, <1>3, <2>1, NatInduct
<1>5. h - j <= h /\ h - (h - j) = j
  BY <1>1
<1> QED BY <1>4, <1>5 DEF S

(* The levels of the stack follow the bits of the code that led there.     *)
LEMMA LevelOf ==
  ASSUME l \in Nat, k \in Nat, Levels, h >= 0, NEW j \in 0 .. h
  PROVE  l * j \in Nat /\ l * j <= w /\ l * j < k /\ w \in Nat /\ w = l * h /\ h \in Nat /\ j \in Nat
<1>1. h \in Nat /\ w = l * h /\ w < k
  BY DEF Levels
<1>2. j \in Nat /\ j <= h
  BY <1>1
<1>3. l * j <= l * h
  <2>1. j \in Int /\ h \in Int
    BY <1>1, <1>2
  <2> QED BY <1>2, <2>1, Monotone
<1>4. l * j \in Nat /\ l * h \in Nat
  BY <1>1, <1>2
<1> DEFINE A == l * j
           B == l * h
<1>5. A \in Nat /\ B \in Nat /\ A <= B /\ w = B
  BY <1>1, <1>3, <1>4
<1> HIDE DEF A, B
<1>6. A <= w
  BY <1>5
<1>7. A < k
  <2>1. B < k /\ k \in Nat
    BY <1>1, <1>5
  <2> QED BY ONLY <1>5, <2>1
<1> QED BY <1>1, <1>2, <1>5, <1>6, <1>7 DEF A

LEMMA PrefixAt ==
  ASSUME l \in Nat, k \in Nat, Levels, h >= 0, NEW N \in Nat, N < Shl[k], Reversed[k][N] % Shl[w] = x[h], NEW j \in 0 .. h
  PROVE  /\ Reversed[k][N] % Shl[l * j] = x[j] /\ Prefix(j) = N \div Shl[k - l * j]
         /\ Prefix(j) \in Nat /\ Prefix(j) < Shl[l * j]
<1> DEFINE A == l * j
           R == Reversed[k][N]
<1>1. A \in Nat /\ A < k /\ w = l * h
  BY LevelOf
<1>2. R \in Nat
  BY ReversedType
<1>3. R % Shl[A] = x[j]
  <2> HIDE DEF R
  <2>1. R % Shl[l * h] = x[h]
    BY <1>1 DEF R
  <2> QED BY <1>2, <2>1, StackOf
<1>4. /\ N \div Shl[k - A] \in Nat /\ N \div Shl[k - A] < Shl[A]
      /\ Reversed[A][R % Shl[A]] = N \div Shl[k - A]
  <2> HIDE DEF A
  <2>1. A <= k
    BY <1>1
  <2> QED BY <1>1, <2>1, Decided
<1> QED BY <1>3, <1>4 DEF Prefix

(* While codes are entered: the running code's bits.                       *)
LEMMA PrefixIs ==
  ASSUME b \in LengthLists, Ready, Codes, Levels, h >= 0, pc \in {"codes", "tables"}, Number < Shl[k], NEW j \in 0 .. h
  PROVE  /\ i % Shl[l * j] = x[j] /\ Prefix(j) = Number \div Shl[k - l * j]
         /\ Prefix(j) \in Nat /\ Prefix(j) < Shl[l * j]
<1>1. k \in 1 .. g
  BY DEF Codes
<1>2. k \in Nat /\ l \in Nat /\ Number \in Nat /\ i = Reversed[k][Number]
  BY <1>1, ReadyIs, NumberIs DEF Codes
<1>3. Reversed[k][Number] % Shl[w] = x[h]
  BY <1>2 DEF Levels
<1> QED BY <1>2, <1>3, PrefixAt
-----------------------------------------------------------------------------
(* If nothing is to spare, there are as many codes to come as patterns     *)
(* left.                                                                   *)
Above(n) == {s \in Symbols : b[s] > n}

LEMMA LeftForLonger ==
  ASSUME b \in LengthLists, Used # {}, Spare = 0, NEW n \in Nat, n <= Longest
  PROVE  Left[n] <= Cardinality(Above(n)) /\ Left[n] \in Int /\ Cardinality(Above(n)) \in Nat
<1>1. Longest \in Nat
  BY Extremes
<1>2. \A j \in Nat : Cardinality(Above(j)) \in Nat /\ Left[j] \in Int
  BY Counted, LeftIs DEF Above
<1> DEFINE S == {j \in Nat : j <= Longest => Left[Longest - j] <= Cardinality(Above(Longest - j))}
<1>3. 0 \in S
  <2>1. Left[Longest - 0] = 0 /\ Longest - 0 = Longest
    BY <1>1 DEF Spare
  <2> QED BY <1>1, <1>2, <2>1
<1>4. ASSUME NEW j \in Nat, j \in S PROVE j + 1 \in S
  <2> SUFFICES ASSUME j + 1 <= Longest PROVE Left[Longest - (j + 1)] <= Cardinality(Above(Longest - (j + 1)))
    OBVIOUS
  <2> DEFINE d == Longest - (j + 1)
  <2>1. d \in Nat /\ Longest - j = d + 1 /\ d + 1 \in Nat /\ j <= Longest /\ d <= Longest
    BY <1>1
  <2>2. Left[d + 1] <= Cardinality(Above(d + 1))
    BY <1>4, <2>1
  <2> HIDE DEF d
  <2>3. Left[d + 1] = 2 * Left[d] - Cardinal(d + 1)
    BY <2>1, LeftIs
  <2>4. Left[d] >= 0
    <3>1. CASE d = 0
      BY <3>1, LeftIs
    <3>2. CASE d > 0
      <4>1. Spare >= 0
        OBVIOUS
      <4> QED BY <2>1, <3>2, <4>1, Fits
    <3> QED BY <2>1, <3>1, <3>2
  <2>5. Cardinality(Above(d)) = Cardinality(Above(d + 1)) + Cardinal(d + 1)
    <3> DEFINE E == {s \in Symbols : b[s] = d + 1}
    <3>1. Above(d) = Above(d + 1) \union E /\ Above(d + 1) \cap E = {}
      <4>1. \A s \in Symbols : b[s] \in Nat
        BY Lengths
      <4> QED BY <2>1, <4>1 DEF Above
    <3>2. Above(d + 1) \subseteq Symbols /\ E \subseteq Symbols
      BY DEF Above
    <3>3. Cardinal(d + 1) = Cardinality(E)
      BY DEF Cardinal
    <3> HIDE DEF E
    <3>4. Cardinality(Above(d + 1) \union E) = Cardinality(Above(d + 1)) + Cardinality(E)
      BY <3>1, <3>2, CountedApart
    <3> QED BY <3>1, <3>3, <3>4
  <2>6. Cardinal(d + 1) \in Nat
    BY <2>1, CardinalIs
  <2>7. Left[d] <= Cardinality(Above(d))
    BY <1>2, <2>1, <2>2, <2>3, <2>4, <2>5, <2>6
  <2> QED BY <2>7 DEF d
<1> HIDE DEF S
<1>5. Longest - n \in S
  <2>1. Longest - n \in Nat
    BY <1>1
  <2> QED BY <1>3, <1>4, <2>1, NatInduct
<1>6. Longest - n <= Longest /\ Longest - (Longest - n) = n
  BY <1>1
<1> QED BY <1>2, <1>5, <1>6 DEF S

LEMMA Remaining ==
  ASSUME b \in LengthLists, Ready, Codes, y = 0
  PROVE  Shl[k] - Number <= Cardinality(Symbols)
<1>1. k \in 1 .. g
  BY DEF Codes
<1>2. /\ k \in Nat /\ k > 0 /\ Passed \in Nat /\ Number \in Nat /\ FirstCode[k] \in Nat /\ Cardinal(k) \in Nat /\ Shl[k] \in Nat
      /\ Used # {} /\ Spare = 0 /\ k <= Longest
  BY <1>1, ReadyIs, NumberIs DEF Ready
<1>3. Number = FirstCode[k] + Passed
  BY DEF Number
<1>4. Left[k] = Shl[k] - (FirstCode[k] + Cardinal(k))
  BY <1>2, LeftBehind
<1>5. Left[k] <= Cardinality(Above(k)) /\ Left[k] \in Int /\ Cardinality(Above(k)) \in Nat
  BY <1>2, LeftForLonger
<1>6. Cardinality(Above(k)) + Cardinal(k) <= Cardinality(Symbols) /\ Cardinality(Symbols) \in Nat
  <2> DEFINE E == {s \in Symbols : b[s] = k}
  <2>1. Above(k) \cap E = {} /\ Above(k) \subseteq Symbols /\ E \subseteq Symbols /\ Above(k) \union E \subseteq Symbols
    <3>1. \A s \in Symbols : b[s] \in Nat
      BY Lengths
    <3> QED BY <1>2, <3>1 DEF Above
  <2>2. Cardinal(k) = Cardinality(E)
    BY DEF Cardinal
  <2> HIDE DEF E
  <2>3. Cardinality(Above(k) \union E) = Cardinality(Above(k)) + Cardinality(E)
    BY <2>1, CountedApart
  <2>4. Cardinality(Above(k) \union E) <= Cardinality(Symbols)
    <3> DEFINE T == Above(k) \union E
    <3>1. T \subseteq Symbols /\ Symbols \subseteq Symbols
      BY <2>1
    <3> HIDE DEF T
    <3>2. Cardinality(T) <= Cardinality(Symbols)
      BY <3>1, CountedIn
    <3> QED BY <3>2 DEF T
  <2> QED BY <2>2, <2>3, <2>4, Lengths
<1> HIDE DEF Number, Passed
<1> QED BY <1>2, <1>3, <1>4, <1>5, <1>6
-----------------------------------------------------------------------------
(* The bits of a new table, behind the bits P of the running code: the     *)
(* patterns left over are those of the codes that begin with P.            *)
Spared(f, at, d, J0, start, C) ==
  /\ f = [j \in 0 .. d |-> IF j <= J0 THEN start ELSE 2 * f[j - 1] - C[at + j]]
  /\ \A j \in 0 .. d : f[j] \in Int

LEMMA Leftover ==
  ASSUME NEW at \in Nat, NEW d \in Nat, NEW J0 \in Nat, J0 <= d, NEW start \in Int, NEW C \in [Nat -> Int]
  PROVE  \E f : Spared(f, at, d, J0, start, C)
<1> DEFINE step == [z \in Nat \X Int |-> IF z[1] + 1 <= J0 THEN start ELSE 2 * z[2] - C[at + (z[1] + 1)]]
<1>1. Within(step, Int)
  <2>1. ASSUME NEW z \in Nat \X Int
        PROVE  (IF z[1] + 1 <= J0 THEN start ELSE 2 * z[2] - C[at + (z[1] + 1)]) \in Int
    <3>1. z[1] \in Nat /\ z[2] \in Int /\ at + (z[1] + 1) \in Nat
      OBVIOUS
    <3>2. C[at + (z[1] + 1)] \in Int
      BY <3>1
    <3> QED BY <3>1, <3>2
  <2> QED BY <2>1 DEF Within
<1>2. PICK F : Orbit(F, Int, step, start)
  <2> HIDE DEF step
  <2> QED BY <1>1, Iteration
<1>3. F \in [Nat -> Int] /\ F[0] = start
  BY <1>2 DEF Orbit
<1>4. ASSUME NEW n \in Nat
      PROVE  F[n + 1] = IF n + 1 <= J0 THEN start ELSE 2 * F[n] - C[at + (n + 1)]
  <2>1. F[n] \in Int /\ F[n + 1] = step[<<n, F[n]>>]
    BY <1>2, <1>3 DEF Orbit
  <2> QED BY <2>1
<1> HIDE DEF step
<1> DEFINE f == [j \in 0 .. d |-> F[j]]
<1>5. \A j \in 0 .. d : F[j] = IF j <= J0 THEN start ELSE 2 * f[j - 1] - C[at + j]
  <2> TAKE j \in 0 .. d
  <2>1. CASE j = 0
    BY <1>3, <2>1
  <2>2. CASE j # 0
    <3>1. j - 1 \in Nat /\ (j - 1) + 1 = j /\ j - 1 \in 0 .. d
      BY <2>2
    <3>2. F[j] = IF j <= J0 THEN start ELSE 2 * F[j - 1] - C[at + j]
      BY <1>4, <3>1
    <3>3. f[j - 1] = F[j - 1]
      BY <3>1
    <3> QED BY <3>2, <3>3
  <2> QED BY <2>1, <2>2
<1>6. f = [j \in 0 .. d |-> IF j <= J0 THEN start ELSE 2 * f[j - 1] - C[at + j]]
  BY <1>5
<1>7. \A j \in 0 .. d : f[j] \in Int
  BY <1>3
<1>8. Spared(f, at, d, J0, start, C)
  <2> HIDE DEF f
  <2> QED BY <1>6, <1>7 DEF Spared
<1> QED BY <1>8, Zenon

Choice(f, J0, z) ==
  IF f[J0] <= 0 THEN J0
  ELSE IF J0 + 1 >= z THEN J0 + 1
  ELSE Min({j \in (J0 + 1) .. z : j = z \/ f[j] <= 0})

LEMMA TableBitsIs ==
  ASSUME b \in LengthLists, Ready, Codes, NEW at \in Nat, at < k
  PROVE  \E f : /\ Spared(f, at, g - at, k - at, Shl[k - at] - (a + 1), c)
                /\ TableBits(at) = Choice(f, k - at, IF g - at > l THEN l ELSE g - at)
<1>1. k \in 1 .. g /\ a \in Nat
  BY DEF Codes
<1>2. k \in Nat /\ g \in Nat /\ k <= g /\ k - at \in Nat /\ g - at \in Nat /\ k - at <= g - at
  <2>1. k \in Nat /\ g \in Nat
    BY <1>1, ReadyIs
  <2> QED BY <1>1, <2>1
<1>3. \A n \in 1 .. g : c[n] \in Int
  <2> TAKE n \in 1 .. g
  <2>1. c[n] \in Nat
    BY ReadyIs
  <2> QED BY <2>1
<1> DEFINE C == [n \in Nat |-> IF n \in 1 .. g THEN c[n] ELSE 0]
           start == Shl[k - at] - (a + 1)
<1>4. C \in [Nat -> Int]
  BY <1>3
<1>5. start \in Int
  <2>1. Shl[k - at] \in Nat
    BY <1>2, ShlIs
  <2> QED BY <1>1, <2>1
<1>6. \E f : Spared(f, at, g - at, k - at, start, C)
  <2> HIDE DEF C, start
  <2> QED BY <1>2, <1>4, <1>5, Leftover
<1> DEFINE G(f) == [j \in 0 .. g - at |-> IF j <= k - at THEN start ELSE 2 * f[j - 1] - c[at + j]]
<1>7. \E f : f = G(f) /\ \A j \in 0 .. g - at : f[j] \in Int
  <2>1. PICK f : /\ f = [j \in 0 .. g - at |-> IF j <= k - at THEN start ELSE 2 * f[j - 1] - C[at + j]]
                 /\ \A j \in 0 .. g - at : f[j] \in Int
    <3> HIDE DEF C, start
    <3> QED BY <1>6, Zenon DEF Spared
  <2>2. \A j \in 0 .. g - at : ~(j <= k - at) => C[at + j] = c[at + j]
    <3> TAKE j \in 0 .. g - at
    <3>1. ~(j <= k - at) => at + j \in 1 .. g /\ at + j \in Nat
      BY <1>2
    <3> QED BY <3>1
  <2> HIDE DEF C, start
  <2>3. f = G(f)
    BY <2>1, <2>2
  <2> QED BY <2>1, <2>3
<1>8. \A e, f : e = G(e) /\ f = G(f) => e = f
  <2> SUFFICES ASSUME NEW e, NEW f, e = G(e), f = G(f) PROVE e = f
    OBVIOUS
  <2> DEFINE S == {j \in Nat : j <= g - at => e[j] = f[j]}
  <2>1. \A j \in 0 .. g - at : e[j] = IF j <= k - at THEN start ELSE 2 * e[j - 1] - c[at + j]
    OBVIOUS
  <2>2. \A j \in 0 .. g - at : f[j] = IF j <= k - at THEN start ELSE 2 * f[j - 1] - c[at + j]
    OBVIOUS
  <2> HIDE DEF start
  <2>3. 0 \in S
    BY <1>2, <2>1, <2>2
  <2>4. ASSUME NEW j \in Nat, j \in S PROVE j + 1 \in S
    <3> SUFFICES ASSUME j + 1 <= g - at PROVE e[j + 1] = f[j + 1]
      OBVIOUS
    <3>1. e[j] = f[j] /\ j + 1 \in 0 .. g - at /\ (j + 1) - 1 = j
      BY <1>2, <2>4
    <3> QED BY <2>1, <2>2, <3>1
  <2> HIDE DEF S
  <2>5. \A j \in Nat : j \in S
    BY <2>3, <2>4, NatInduct
  <2>6. \A j \in 0 .. g - at : e[j] = f[j]
    <3> TAKE j \in 0 .. g - at
    <3>1. j \in Nat /\ j <= g - at
      BY <1>2
    <3> QED BY <2>5, <3>1 DEF S
  <2>7. G(e) = G(f)
    <3>1. \A j \in 0 .. g - at : G(e)[j] = G(f)[j]
      <4> HIDE DEF G
      <4> QED BY <2>6
    <3>2. G(e) = [j \in 0 .. g - at |-> G(e)[j]] /\ G(f) = [j \in 0 .. g - at |-> G(f)[j]]
      OBVIOUS
    <3> HIDE DEF G
    <3> QED BY <3>1, <3>2
  <2> QED BY <2>7
<1>9. PICK f : f = G(f) /\ \A j \in 0 .. g - at : f[j] \in Int
  BY <1>7
<1> DEFINE e == CHOOSE r : r = G(r)
<1>10. e = f
  <2> HIDE DEF G
  <2>1. e = G(e)
    BY <1>9
  <2> HIDE DEF e
  <2> QED BY <1>8, <1>9, <2>1
<1>11. TableBits(at) = Choice(e, k - at, IF g - at > l THEN l ELSE g - at)
  BY Zenon DEF TableBits, Choice
<1>12. Spared(f, at, g - at, k - at, start, c)
  BY <1>9, Zenon DEF Spared
<1> HIDE DEF e
<1> QED BY <1>10, <1>11, <1>12, Zenon
(* The patterns that begin with P at a width at which no more than the     *)
(* codes of that length are left are all taken.                            *)
LEMMA SparedIs ==
  ASSUME b \in LengthLists, Ready, Codes, pc = "tables", NEW at \in Nat, at < k, Number % Shl[k - at] = 0, NEW f,
         Spared(f, at, g - at, k - at, Shl[k - at] - (a + 1), c),
         NEW d \in Nat, k - at <= d, d <= g - at
  PROVE  f[d] = Shl[d] * ((Number \div Shl[k - at]) + 1) - (FirstCode[at + d] + c[at + d])
<1> DEFINE J0 == k - at
           P == Number \div Shl[J0]
           G == g - at
           S == {t \in Nat : J0 + t <= G =>
                   f[J0 + t] = Shl[J0 + t] * (P + 1) - (FirstCode[at + (J0 + t)] + c[at + (J0 + t)])}
<1>1. /\ k \in 1 .. g /\ k \in Nat /\ g \in Nat /\ Number \in Nat /\ Number = FirstCode[k] + Passed /\ Passed = c[k] - (a + 1)
      /\ c[k] \in Nat /\ FirstCode[k] \in Nat /\ a \in Nat
  <2>1. k \in 1 .. g
    BY DEF Codes
  <2> QED BY <2>1, NumberIs, ReadyIs DEF Number, Passed, Pending
<1>2. J0 \in Nat /\ J0 > 0 /\ at + J0 = k /\ G \in Nat /\ J0 <= G
  BY <1>1
<1>3. \A j \in 0 .. G : f[j] = IF j <= J0 THEN Shl[J0] - (a + 1) ELSE 2 * f[j - 1] - c[at + j]
  <2>1. f = [j \in 0 .. G |-> IF j <= J0 THEN Shl[J0] - (a + 1) ELSE 2 * f[j - 1] - c[at + j]]
    BY Zenon DEF Spared
  <2> HIDE DEF G, J0
  <2> QED BY <2>1
<1>4. Number = Shl[J0] * P /\ P \in Nat /\ Shl[J0] \in Nat /\ Shl[J0] > 0
  <2> DEFINE B == Shl[J0]
  <2>1. B \in Nat /\ B > 0 /\ Number % B = 0
    BY <1>2, ShlIs
  <2> HIDE DEF B
  <2>2. Number = B * (Number \div B) + (Number % B) /\ Number \div B \in Nat
    BY <1>1, <2>1, Remains, Divided
  <2>3. B * (Number \div B) \in Int
    BY <2>1, <2>2
  <2>4. Number = B * (Number \div B)
    BY <2>1, <2>2, <2>3
  <2> QED BY <2>1, <2>2, <2>4 DEF B
<1>5. 0 \in S
  <2>1. J0 + 0 = J0 /\ J0 \in 0 .. G
    BY <1>2
  <2>2. f[J0] = Shl[J0] - (a + 1)
    BY <1>3, <2>1
  <2> HIDE DEF J0, P
  <2>3. Shl[J0] * (P + 1) = Shl[J0] * P + Shl[J0] /\ Shl[J0] * P \in Int
    BY <1>4
  <2> DEFINE X == Shl[J0] * P
             Y == Shl[J0] * (P + 1)
             s == Shl[J0]
  <2>4. X \in Int /\ Y = X + s /\ s \in Int /\ f[J0] = s - (a + 1) /\ FirstCode[k] + (c[k] - (a + 1)) = X
    BY <1>1, <1>4, <2>2, <2>3
  <2> HIDE DEF X, Y, s
  <2>5. f[J0] = Y - (FirstCode[k] + c[k])
    BY <1>1, <2>4
  <2>6. f[J0] = Shl[J0] * (P + 1) - (FirstCode[k] + c[k])
    BY <2>5 DEF Y
  <2> QED BY <1>2, <2>1, <2>6
<1>6. ASSUME NEW t \in Nat, t \in S PROVE t + 1 \in S
  <2> SUFFICES ASSUME J0 + (t + 1) <= G
               PROVE  f[J0 + (t + 1)] = Shl[J0 + (t + 1)] * (P + 1) - (FirstCode[at + (J0 + (t + 1))] + c[at + (J0 + (t + 1))])
    OBVIOUS
  <2> DEFINE j == J0 + t
             n == at + j
  <2>1. j \in Nat /\ j <= G /\ J0 + (t + 1) = j + 1 /\ j + 1 \in 0 .. G /\ ~(j + 1 <= J0) /\ (j + 1) - 1 = j
    BY <1>2
  <2>2. f[j] = Shl[j] * (P + 1) - (FirstCode[n] + c[n])
    BY <1>6, <2>1
  <2>3. n \in Nat /\ n > 0 /\ n \in 1 .. g /\ n < g /\ at + (j + 1) = n + 1 /\ n + 1 \in 1 .. g
    BY <1>1, <1>2, <2>1
  <2> HIDE DEF j, G, J0, P
  <2>4. f[j + 1] = 2 * f[j] - c[n + 1]
    BY <1>3, <2>1, <2>3
  <2> HIDE DEF n
  <2>5. c[n] = Cardinal(n) /\ c[n] \in Nat /\ c[n + 1] \in Nat
    BY <2>3, ReadyIs
  <2>6. FirstCode[n + 1] = 2 * (FirstCode[n] + c[n]) /\ FirstCode[n] \in Nat
    BY <2>3, <2>5, FirstCodeIs
  <2>7. Shl[j + 1] * (P + 1) = 2 * (Shl[j] * (P + 1)) /\ Shl[j] * (P + 1) \in Int
    <3>1. Shl[j + 1] = 2 * Shl[j] /\ Shl[j] \in Nat /\ P + 1 \in Int
      BY <1>4, <2>1, ShlIs
    <3>2. (2 * Shl[j]) * (P + 1) = 2 * (Shl[j] * (P + 1))
      BY <3>1, Ring
    <3> QED BY <3>1, <3>2
  <2>8. f[j + 1] = Shl[j + 1] * (P + 1) - (FirstCode[n + 1] + c[n + 1])
    BY <2>2, <2>4, <2>5, <2>6, <2>7
  <2> QED BY <2>1, <2>3, <2>8
<1> HIDE DEF S
<1>7. d - J0 \in S
  <2>1. d - J0 \in Nat
    BY <1>2
  <2> QED BY <1>5, <1>6, <2>1, NatInduct
<1>8. J0 + (d - J0) = d /\ d <= G
  BY <1>2
<1> QED BY <1>7, <1>8 DEF S

LEMMA BitsAre ==
  ASSUME b \in LengthLists, Ready, Codes, pc = "tables", NEW at \in Nat, at < k, Number % Shl[k - at] = 0
  PROVE  LET J == TableBits(at)
         IN  /\ J \in Nat /\ J > 0 /\ J >= k - at
             /\ Sized(at, Number \div Shl[k - at], J)
             /\ k - at < l => J <= l
<1> DEFINE J == TableBits(at)
           J0 == k - at
           P == Number \div Shl[J0]
           z == IF g - at > l THEN l ELSE g - at
<1>1. k \in 1 .. g /\ k \in Nat /\ g \in Nat /\ l \in Nat /\ k <= g
  <2>1. k \in 1 .. g
    BY DEF Codes
  <2> QED BY <2>1, ReadyIs
<1>2. J0 \in Nat /\ J0 > 0 /\ at + J0 = k /\ g - at \in Nat /\ J0 <= g - at /\ z \in Nat /\ z <= l /\ z <= g - at
      /\ (z = l \/ z = g - at)
  BY <1>1
<1>3. PICK f : /\ Spared(f, at, g - at, k - at, Shl[k - at] - (a + 1), c)
               /\ J = Choice(f, J0, z)
  BY TableBitsIs
<1>4. \A j \in 0 .. g - at : f[j] \in Int
  BY <1>3, Zenon DEF Spared
<1>5. ASSUME NEW d \in Nat, J0 <= d, d <= g - at, f[d] <= 0
      PROVE  Sized(at, P, d)
  <2>1. f[d] = Shl[d] * (P + 1) - (FirstCode[at + d] + c[at + d])
    BY <1>3, <1>5, SparedIs
  <2>2. CASE d = g - at
    BY <1>2, <2>2 DEF Sized
  <2>3. CASE d # g - at
    <3> DEFINE n == at + d
    <3>1. n \in 1 .. g /\ n < g /\ n \in Nat
      BY <1>1, <1>2, <1>5, <2>3
    <3> HIDE DEF n
    <3>2. c[n] = Cardinal(n) /\ c[n] \in Nat /\ FirstCode[n] \in Nat
      BY <3>1, ReadyIs
    <3>3. End(n) = FirstCode[n] + c[n]
      BY <3>2 DEF End
    <3>4. f[d] = Shl[d] * (P + 1) - End(n)
      BY <2>1, <3>3 DEF n
    <3>5. Shl[d] * (P + 1) \in Int
      <4>1. P \in Nat
        <5> HIDE DEF J0
        <5> QED BY <1>2, NumberIs, Beyond
      <4>2. Shl[d] \in Nat /\ P + 1 \in Nat
        BY <4>1, ShlIs
      <4> QED BY <4>2
    <3>6. End(n) \in Int
      BY <3>2, <3>3
    <3>7. End(n) >= Shl[d] * (P + 1)
      BY <1>5, <3>4, <3>5, <3>6
    <3> QED BY <3>7 DEF Sized, n
  <2> QED BY <2>2, <2>3
<1>6. CASE f[J0] <= 0
  <2>1. J = J0
    BY <1>3, <1>6 DEF Choice
  <2>2. Sized(at, P, J0)
    BY <1>2, <1>5, <1>6
  <2>3. J0 < l => J0 <= l
    BY <1>1, <1>2
  <2> QED BY <1>2, <2>1, <2>2, <2>3
<1>7. CASE ~(f[J0] <= 0) /\ J0 + 1 >= z
  <2>1. J = J0 + 1
    BY <1>3, <1>7 DEF Choice
  <2>2. J0 + 1 >= l \/ J0 + 1 >= g - at
    BY <1>2, <1>7
  <2>3. Sized(at, P, J0 + 1)
    BY <2>2 DEF Sized
  <2>4. J0 < l => J0 + 1 <= l
    BY <1>1, <1>2
  <2> QED BY <1>2, <2>1, <2>3, <2>4
<1>8. CASE ~(f[J0] <= 0) /\ ~(J0 + 1 >= z)
  <2> DEFINE T == {j \in (J0 + 1) .. z : j = z \/ f[j] <= 0}
  <2>1. J = Min(T)
    BY <1>3, <1>8 DEF Choice
  <2>2. T \subseteq Nat /\ z \in T
    BY <1>2, <1>8
  <2>3. Min(T) \in T
    <3> HIDE DEF T, z
    <3> QED BY <2>2, Least
  <2>4. J \in (J0 + 1) .. z /\ (J = z \/ f[J] <= 0)
    <3>1. J \in T
      BY <2>1, <2>3
    <3> HIDE DEF J
    <3> QED BY <3>1
  <2> HIDE DEF J, z
  <2>5. J \in Nat /\ J > 0 /\ J >= J0 /\ J <= l /\ J <= g - at
    BY <1>1, <1>2, <2>4
  <2>6. Sized(at, P, J)
    <3>1. CASE J = z
      <4>1. J >= l \/ J >= g - at
        BY <1>1, <1>2, <3>1
      <4> QED BY <4>1 DEF Sized
    <3>2. CASE f[J] <= 0
      BY <1>5, <2>5, <3>2
    <3> QED BY <2>4, <3>1, <3>2
  <2> QED BY <2>5, <2>6 DEF J
<1> QED BY <1>6, <1>7, <1>8
-----------------------------------------------------------------------------
LEMMA SlotType ==
  ASSUME NEW P \in Nat, NEW J \in Nat, NEW q \in Nat
  PROVE  Slot(P, J, q) \in Nat
<1>1. Shl[J] \in Nat /\ Reversed[J][q] \in Nat
  BY ReversedType
<1>2. Shl[J] * P \in Nat
  BY <1>1
<1> QED BY <1>1, <1>2 DEF Slot

(* Places further on are behind.                                           *)
LEMMA BehindFurther ==
  ASSUME NEW table, NEW n \in Nat, NEW P \in Nat, NEW J \in Nat, NEW N \in Nat, NEW d \in Nat, NEW M \in Nat, NEW e \in Nat,
         N * Shl[e] <= M * Shl[d], Behind(table, n, P, J, N, d)
  PROVE  Behind(table, n, P, J, M, e)
<1> SUFFICES ASSUME NEW q \in 0 .. Shl[J] - 1, M * Shl[n + J] <= Slot(P, J, q) * Shl[e]
             PROVE  N * Shl[n + J] <= Slot(P, J, q) * Shl[d]
  BY DEF Behind
<1> DEFINE A == Shl[n + J]
           D == Shl[d]
           E == Shl[e]
           T == Slot(P, J, q)
<1>1. A \in Nat /\ D \in Nat /\ E \in Nat /\ E > 0
  <2>1. n + J \in Nat
    OBVIOUS
  <2> QED BY <2>1, ShlIs
<1>2. T \in Nat
  <2>1. q \in Nat
    OBVIOUS
  <2> QED BY <2>1, SlotType
<1>3. N * E <= M * D /\ M * A <= T * E
  OBVIOUS
<1> HIDE DEF A, D, E, T
<1>4. A * (N * E) <= A * (M * D) /\ D * (M * A) <= D * (T * E)
  <2>1. N * E \in Int /\ M * D \in Int /\ M * A \in Int /\ T * E \in Int
    BY <1>1, <1>2
  <2> QED BY <1>1, <1>3, <2>1, Monotone
<1>5. A * (N * E) = (N * A) * E /\ A * (M * D) = D * (M * A) /\ D * (T * E) = (T * D) * E
  BY <1>1, <1>2
<1>6. (N * A) * E <= (T * D) * E
  <2>1. A * (N * E) \in Int /\ A * (M * D) \in Int /\ D * (T * E) \in Int
    BY <1>1, <1>2
  <2> QED BY <1>4, <1>5, <2>1
<1>7. N * A \in Nat /\ T * D \in Nat
  BY <1>1, <1>2
<1>8. N * A <= T * D
  BY <1>1, <1>6, <1>7, Scaled
<1> QED BY <1>8 DEF A, D, T

(* The places of a code in a table of J bits behind the bits P: the d bits *)
(* of the code behind P are their low bits.                                *)
LEMMA SlotOf ==
  ASSUME NEW n \in Nat, NEW d \in Nat, NEW J \in Nat, d <= J, NEW N \in Nat
  PROVE  LET P == N \div Shl[d]
             place == Reversed[n + d][N] \div Shl[n]
         IN  /\ P \in Nat /\ place \in Nat /\ place < Shl[d] /\ place \in 0 .. Shl[J] - 1 /\ place % Shl[d] = place
             /\ \A q \in Nat : q % Shl[d] = place =>
                  N * Shl[n + J] <= Slot(P, J, q) * Shl[n + d] /\ Slot(P, J, q) * Shl[n + d] < (N + 1) * Shl[n + J]
<1> DEFINE P == N \div Shl[d]
           D == N % Shl[d]
           place == Reversed[n + d][N] \div Shl[n]
           B == Shl[d]
           A == Shl[J - d]
<1>1. place = Reversed[d][D] /\ P \in Nat /\ D \in 0 .. B - 1 /\ N = B * P + D
  <2>1. n \in Nat /\ d \in Nat /\ N \in Nat
    OBVIOUS
  <2>2. Taken(n, d, N)
    BY ONLY <2>1, TakenApart
  <2> QED BY ONLY <2>2, Zenon DEF Taken
<1>2. B \in Nat /\ B > 0 /\ A \in Nat /\ A > 0 /\ Shl[J] = A * B /\ Shl[J] \in Nat /\ B <= Shl[J]
  <2>1. J - d \in Nat
    OBVIOUS
  <2>2. Shl[J] = Shl[d] * Shl[J - d] /\ Shl[d] <= Shl[J]
    BY ShlGrows
  <2>3. B \in Nat /\ B > 0 /\ A \in Nat /\ A > 0 /\ Shl[J] \in Nat
    BY <2>1, ShlIs
  <2> QED BY <2>2, <2>3, Ring
<1>3. place \in Nat /\ place < B /\ Reversed[d][place] = D
  <2>1. D \in 0 .. Shl[d] - 1
    BY <1>1
  <2> HIDE DEF D
  <2>2. Reversed[d][D] \in 0 .. Shl[d] - 1 /\ Reversed[d][Reversed[d][D]] = D
    BY <2>1, ReversedTwice
  <2> HIDE DEF place
  <2> QED BY <1>1, <1>2, <2>2
<1>4. place % B = place
  <2> HIDE DEF place, B
  <2> QED BY <1>2, <1>3
<1>5. place \in 0 .. Shl[J] - 1
  <2> HIDE DEF place, B, A
  <2> QED BY <1>2, <1>3
<1>6. ASSUME NEW q \in Nat, q % B = place
      PROVE  N * Shl[n + J] <= Slot(P, J, q) * Shl[n + d] /\ Slot(P, J, q) * Shl[n + d] < (N + 1) * Shl[n + J]
  <2> DEFINE r == Reversed[J - d][q \div Shl[d]]
             T == Slot(P, J, q)
             Z == Shl[n + d]
  <2>1. Reversed[J][q] = A * D + r /\ r \in 0 .. A - 1
    <3>1. /\ Reversed[J][q] = Shl[J - d] * Reversed[d][q % Shl[d]] + Reversed[J - d][q \div Shl[d]]
          /\ Reversed[J - d][q \div Shl[d]] \in 0 .. Shl[J - d] - 1
      BY ReversedSplit
    <3> QED BY <1>3, <1>6, <3>1
  <2>2. T = (A * B) * P + (A * D + r)
    BY <1>2, <2>1 DEF Slot
  <2>3. D \in Nat
    BY <1>1, <1>2
  <2>4. Z \in Nat /\ Z > 0 /\ Shl[n + J] = Z * A
    <3>1. n + d \in Nat /\ J - d \in Nat /\ (n + d) + (J - d) = n + J
      OBVIOUS
    <3>2. Shl[(n + d) + (J - d)] = Shl[n + d] * Shl[J - d]
      BY ONLY <3>1, ShlSum
    <3> QED BY <3>1, <3>2, ShlIs
  <2> HIDE DEF T, Z, A, B, D, P, r, place
  <2>5. T = A * N + r
    <3>1. (A * B) * P = A * (B * P) /\ A * (B * P + D) = A * (B * P) + A * D /\ B * P \in Int /\ A * D \in Int /\ A * (B * P) \in Int
      BY <1>1, <1>2, <2>3
    <3>2. T = A * (B * P) + (A * D + r)
      BY <2>2, <3>1
    <3>3. A * N = A * (B * P) + A * D
      BY <1>1, <3>1
    <3> QED BY <1>2, <2>1, <3>1, <3>2, <3>3
  <2>6. A * N <= T /\ T + 1 <= A * (N + 1) /\ T \in Nat /\ A * N \in Nat /\ A * (N + 1) \in Nat
    <3>1. A * N \in Nat /\ A * (N + 1) = A * N + A
      BY <1>2
    <3>2. r \in Nat /\ r < A
      BY <1>2, <2>1
    <3> QED BY <1>2, <2>5, <3>1, <3>2
  <2>7. Z * (A * N) <= Z * T /\ Z * (T + 1) <= Z * (A * (N + 1))
    <3>1. T + 1 \in Int /\ T \in Int /\ A * N \in Int /\ A * (N + 1) \in Int
      BY <2>6
    <3> QED BY <2>4, <2>6, <3>1, Monotone
  <2>8. Z * (A * N) = N * (Z * A) /\ Z * T = T * Z /\ Z * (T + 1) = T * Z + Z /\ Z * (A * (N + 1)) = (N + 1) * (Z * A)
    BY <1>2, <2>4, <2>6
  <2>9. T * Z \in Int /\ (N + 1) * (Z * A) \in Int /\ N * (Z * A) \in Int
    BY <1>2, <2>4, <2>6
  <2>10. N * (Z * A) <= T * Z /\ T * Z < (N + 1) * (Z * A)
    BY <2>4, <2>7, <2>8, <2>9
  <2> QED BY <2>4, <2>10 DEF T, Z
<1> QED BY <1>1, <1>2, <1>3, <1>4, <1>5, <1>6
-----------------------------------------------------------------------------
(* The tables of the stack: what a step that changes little leaves alone.  *)
LEMMA MeasuresKept ==
  ASSUME b' = b, l' = l, g' = g, y' = y
  PROVE  /\ \A n, P, J : Sized(n, P, J)' <=> Sized(n, P, J)
         /\ \A table, n, P, J, N, d : Behind(table, n, P, J, N, d)' <=> Behind(table, n, P, J, N, d)
         /\ \A t, J : Link(t, J)' = Link(t, J)
         /\ Roomy' <=> Roomy
<1>1. ASSUME NEW n, NEW P, NEW J
      PROVE  Sized(n, P, J)' <=> Sized(n, P, J)
  <2>1. End(n + J)' = End(n + J)
    <3>1. Cardinal(n + J)' = Cardinal(n + J)
      BY DEF Cardinal, Symbols
    <3> QED BY <3>1, Kept DEF End
  <2> QED BY <2>1, ConstantsKept DEF Sized
<1>2. ASSUME NEW table, NEW n, NEW P, NEW J, NEW N, NEW d
      PROVE  Behind(table, n, P, J, N, d)' <=> Behind(table, n, P, J, N, d)
  BY ConstantsKept DEF Behind, Slot
<1>3. ASSUME NEW t, NEW J
      PROVE  Link(t, J)' = Link(t, J)
  BY DEF Link
<1>4. Roomy' <=> Roomy
  BY Kept, ConstantsKept DEF Roomy
<1> QED BY <1>1, <1>2, <1>3, <1>4

LEMMA TableAtKept ==
  ASSUME b' = b, l' = l, g' = g, y' = y, NEW j, NEW J, TableAt(j, J), x'[j] = x[j], u'[j] = u[j],
         DOMAIN tabs'[u[j]] = DOMAIN tabs[u[j]],
         j > 0 => u'[j - 1] = u[j - 1],
         j > 0 => tabs'[u[j - 1]][x[j] \div Shl[l * (j - 1)]] = tabs[u[j - 1]][x[j] \div Shl[l * (j - 1)]],
         Ahead(j, J)'
  PROVE  TableAt(j, J)'
<1>1. Prefix(j)' = Prefix(j)
  BY ConstantsKept DEF Prefix
<1>2. Sized(l * j, Prefix(j), J)' <=> Sized(l * j, Prefix(j), J)
  BY <1>1, MeasuresKept
<1>3. Link(u[j], J)' = Link(u[j], J)
  BY MeasuresKept
<1> QED BY <1>2, <1>3, MeasuresKept, ConstantsKept DEF TableAt

LEMMA AheadKept ==
  ASSUME b' = b, l' = l, g' = g, y' = y, NEW j, NEW J, Ahead(j, J), j # h, j # h',
         x'[j] = x[j], x'[j + 1] = x[j + 1], u'[j] = u[j], tabs'[u[j]] = tabs[u[j]]
  PROVE  Ahead(j, J)'
<1>1. Prefix(j)' = Prefix(j) /\ Prefix(j + 1)' = Prefix(j + 1)
  BY ConstantsKept DEF Prefix
<1>2. Behind(tabs[u[j]], l * j, Prefix(j), J, Prefix(j + 1) + 1, l * (j + 1))
  BY DEF Ahead
<1>3. Behind(tabs[u[j]], l * j, Prefix(j), J, Prefix(j + 1) + 1, l * (j + 1))'
  BY <1>1, <1>2, MeasuresKept
<1> QED BY <1>3 DEF Ahead

LEMMA AheadTop ==
  ASSUME b' = b, l' = l, g' = g, y' = y, NEW j, NEW J, j = h', x'[j] = x[j], u'[j] = u[j],
         Behind(tabs'[u[j]], l * j, Prefix(j), J, Number', k')
  PROVE  Ahead(j, J)'
<1>1. Prefix(j)' = Prefix(j)
  BY ConstantsKept DEF Prefix
<1>2. Behind(tabs[u[j]], l * j, Prefix(j), J, Number, k)'
  BY <1>1, MeasuresKept
<1> QED BY <1>2 DEF Ahead

LEMMA PrefixType ==
  ASSUME l \in Nat, Levels, NEW j \in 0 .. h
  PROVE  Prefix(j) \in Nat /\ x[j] \in Nat /\ l * j \in Nat /\ j \in Nat /\ h \in Nat
<1>1. h \in Nat /\ j \in Nat
  BY DEF Levels
<1>2. l * j \in Nat
  BY <1>1
<1>3. x[j] \in Nat
  <2>1. x[j] \in 0 .. Shl[l * j] - 1 /\ Shl[l * j] \in Nat
    BY <1>2, ShlIs DEF Levels
  <2> QED BY <2>1
<1>4. Prefix(j) \in Nat
  BY <1>2, <1>3, ReversedType DEF Prefix
<1> QED BY <1>1, <1>2, <1>3, <1>4

LEMMA StackedSame ==
  ASSUME b \in LengthLists, Ready, Codes, Levels, Stacked,
         b' = b, l' = l, g' = g, y' = y, h' = h, w' = w, x' = x, u' = u, tabs' = tabs,
         k' \in Nat, k <= k', Number' \in Nat, Number * Shl[k'] <= Number' * Shl[k]
  PROVE  Stacked'
<1>1. k \in Nat /\ l \in Nat /\ Number \in Nat /\ h \in Int /\ w = l * h /\ w \in Int
  <2>1. k \in 1 .. g
    BY DEF Codes
  <2>2. k \in Nat /\ l \in Nat /\ Number \in Nat
    BY <2>1, ReadyIs, NumberIs
  <2>3. h \in Int /\ w = l * h
    BY DEF Levels
  <2> QED BY <2>2, <2>3
<1>2. \A j \in 0 .. h : \E J \in Nat : TableAt(j, J)'
  <2> TAKE j \in 0 .. h
  <2>1. PICK J \in Nat : TableAt(j, J)
    BY DEF Stacked
  <2>2. Ahead(j, J)'
    <3>1. CASE j = h
      <4>1. Behind(tabs[u[j]], l * j, Prefix(j), J, Number, k)
        BY <2>1, <3>1 DEF TableAt, Ahead
      <4>2. Prefix(j) \in Nat /\ l * j \in Nat
        BY <1>1, PrefixType
      <4> DEFINE N == Number'
                 K == k'
      <4>3. N \in Nat /\ K \in Nat /\ Number * Shl[K] <= N * Shl[k]
        OBVIOUS
      <4> HIDE DEF N, K
      <4>4. Behind(tabs[u[j]], l * j, Prefix(j), J, N, K)
        BY <1>1, <2>1, <4>1, <4>2, <4>3, BehindFurther
      <4> QED BY <3>1, <4>4, AheadTop DEF N, K
    <3>2. CASE j # h
      <4>1. Ahead(j, J)
        BY <2>1 DEF TableAt
      <4> QED BY <3>2, <4>1, AheadKept
    <3> QED BY <3>1, <3>2
  <2>3. TableAt(j, J)'
    BY <2>1, <2>2, TableAtKept
  <2> QED BY <2>3
<1>3. k' <= w + l => k <= w + l
  BY <1>1
<1> QED BY <1>2, <1>3 DEF Stacked
(* A new table behind a code of l bits or more holds less than 2^l places  *)
(* if there are less symbols than that.                                    *)
LEMMA SmallBits ==
  ASSUME b \in LengthLists, Ready, Codes, pc = "tables", Roomy, g > 2 * l, NEW at \in Nat, at < k, Number % Shl[k - at] = 0
  PROVE  k - at < l
<1> DEFINE d == k - at
           n == Cardinality(Symbols)
<1>1. k \in 1 .. g
  BY DEF Codes
<1>2. k \in Nat /\ l \in Nat /\ d \in Nat /\ at + d = k /\ Number \in Nat /\ Number < Shl[k] /\ n \in Nat
  BY <1>1, ReadyIs, NumberIs, Lengths
<1>3. y = 0 /\ n < Shl[l]
  <2>1. ~(g <= 2 * l)
    BY <1>1, ReadyIs
  <2> QED BY <2>1 DEF Roomy
<1>4. Shl[k] - Number <= n
  BY <1>3, Remaining
<1>5. Number % Shl[d] = 0
  OBVIOUS
<1> HIDE DEF d, n
<1>6. Shl[k] = Shl[at] * Shl[d] /\ Shl[at] \in Nat /\ Shl[d] \in Nat /\ Shl[d] > 0 /\ Shl[l] \in Nat
  BY <1>2, ShlSum, ShlIs
<1> DEFINE B == Shl[d]
           A == Shl[at]
           P == Number \div B
<1>7. Number = B * P /\ P \in Nat /\ B * P \in Nat
  BY <1>2, <1>5, AlignedIs
<1>8. A \in Nat /\ B \in Nat /\ Shl[k] = A * B /\ A * B \in Nat
  BY <1>6
<1> HIDE DEF A, B, P
<1>9. P < A
  <2> SUFFICES ASSUME A <= P PROVE FALSE
    BY <1>7, <1>8
  <2>1. B * A <= B * P
    BY <1>7, <1>8, Monotone
  <2>2. B * A = A * B
    BY <1>8
  <2> QED BY <1>2, <1>7, <1>8, <2>1, <2>2
<1>10. B * (P + 1) <= B * A
  BY <1>7, <1>8, <1>9, Monotone
<1>11. B * (P + 1) = B * P + B /\ B * A = A * B
  BY <1>7, <1>8
<1>12. B <= n
  BY <1>2, <1>4, <1>7, <1>8, <1>10, <1>11
<1>13. d < l
  <2> SUFFICES ASSUME l <= d PROVE FALSE
    BY <1>2
  <2>1. Shl[l] <= Shl[d]
    BY <1>2, ShlGrows
  <2> QED BY <1>2, <1>3, <1>6, <1>8, <1>12, <2>1 DEF B
<1> QED BY <1>13 DEF d

LEMMA NewTableAt ==
  ASSUME b \in LengthLists, Ready, Codes, Levels, NewTable, NEW W, W = w', NEW H, H = h', NEW J0, J0 = TableBits(W)
  PROVE  LET Q == Number \div Shl[k - W]
         IN  /\ W \in Nat /\ H \in Nat /\ W = l * H /\ W < k /\ H = h + 1 /\ W = w + l /\ k \in Nat /\ l \in Nat /\ l > 0
             /\ J0 \in Nat /\ J0 > 0 /\ Sized(W, Q, J0) /\ (Roomy /\ g > 2 * l => J0 <= l)
             /\ Q \in Nat /\ Q < Shl[W] /\ Number = Shl[k - W] * Q /\ i = Reversed[W][Q] /\ Reversed[W][x'[H]] = Q
             /\ Number \in Nat
<1> DEFINE D == k - W
           Q == Number \div Shl[D]
<1>1. /\ H = h + 1 /\ W = w + l /\ W = l * H /\ W < k /\ H \in Nat /\ W \in Nat /\ pc = "tables" /\ k > w + l
      /\ x' = IF H = 0 THEN x ELSE [x EXCEPT ![H] = i]
      /\ H \in 0 .. BMAX
  BY NewTableIs DEF NewTable
<1>2. k \in 1 .. g
  BY DEF Codes
<1>3. /\ k \in Nat /\ l \in Nat /\ l > 0 /\ Number \in Nat /\ Number < Shl[k] /\ i = Reversed[k][Number]
      /\ x[0] = 0 /\ DOMAIN x = 0 .. BMAX
  BY <1>1, <1>2, ReadyIs, NumberIs DEF Codes, Levels
<1>4. D \in Nat /\ W + D = k /\ W <= k /\ Number % Shl[D] = 0
  <2>1. Number % Shl[k - (w + l)] = 0
    BY <1>1 DEF Levels
  <2>2. w + l = W
    BY <1>1
  <2>3. Number % Shl[D] = 0
    BY <2>1, <2>2
  <2>4. D \in Nat /\ W + D = k /\ W <= k
    <3>1. W \in Nat /\ k \in Nat /\ W < k
      BY <1>1, <1>3
    <3> QED BY ONLY <3>1 DEF D
  <2> QED BY <2>3, <2>4
<1>5. Number = Shl[D] * Q /\ Q \in Nat
  <2> HIDE DEF D
  <2> QED BY <1>3, <1>4, AlignedIs
<1>6. i % Shl[W] = i /\ i \in Nat
  <2> HIDE DEF D
  <2>1. Reversed[W + D][Number] % Shl[W] = Reversed[W + D][Number]
    BY <1>1, <1>3, <1>4, Aligned
  <2> QED BY <1>3, <1>4, <2>1, ReversedType
<1>7. Q < Shl[W] /\ Reversed[W][i] = Q
  <2>1. Number \div Shl[k - W] < Shl[W] /\ Reversed[W][Reversed[k][Number] % Shl[W]] = Number \div Shl[k - W]
    BY <1>1, <1>3, <1>4, Decided
  <2> QED BY <1>3, <1>6, <2>1
<1>8. i = Reversed[W][Q]
  <2> HIDE DEF D
  <2>1. W \in Nat /\ D \in Nat /\ Number \in Nat
    BY <1>1, <1>3, <1>4
  <2>2. Reversed[W + D][Number] % Shl[W] = Reversed[W][Number \div Shl[D]]
    <3>1. Taken(W, D, Number)
      BY ONLY <2>1, TakenApart
    <3> QED BY ONLY <3>1, Zenon DEF Taken
  <2> QED BY <1>3, <1>4, <1>6, <2>2
<1>9. Reversed[W][x'[H]] = Q
  <2>1. CASE H = 0
    <3>1. W = 0 /\ x'[H] = 0 /\ Shl[0] = 1
      BY <1>1, <1>3, <2>1, ShlIs
    <3>2. Reversed[0][0] = 0
      BY ReversedType
    <3> HIDE DEF Q
    <3>3. Q = 0
      BY <1>5, <1>7, <3>1
    <3> QED BY <3>1, <3>2, <3>3
  <2>2. CASE H # 0
    <3>1. x'[H] = i
      BY <1>1, <1>3, <2>2
    <3> QED BY <1>7, <3>1
  <2> QED BY <2>1, <2>2
<1>10. J0 \in Nat /\ J0 > 0 /\ Sized(W, Q, J0) /\ (k - W < l => J0 <= l)
  <2>1. Number % Shl[k - W] = 0
    BY <1>4
  <2> QED BY <1>1, <2>1, BitsAre
<1>11. ASSUME Roomy, g > 2 * l PROVE J0 <= l
  <2>1. Number % Shl[k - W] = 0
    BY <1>4
  <2>2. k - W < l
    BY <1>1, <1>11, <2>1, SmallBits
  <2> QED BY <1>10, <2>2
<1> HIDE DEF Q
<1>12. Number = Shl[k - W] * Q
  BY <1>5
<1> QED BY <1>1, <1>3, <1>5, <1>7, <1>8, <1>9, <1>10, <1>11, <1>12 DEF Q
(* A table of the stack is as wide as the running code asks for.           *)
LEMMA LevelWide ==
  ASSUME b \in LengthLists, Ready, Codes, Levels, pc \in {"codes", "tables"}, Number < Shl[k], NEW j \in 0 .. h, NEW J \in Nat, TableAt(j, J)
  PROVE  /\ J >= l \/ J >= k - l * j
         /\ l * j \in Nat /\ l * j < k /\ l * j <= w /\ w = l * h /\ w \in Nat /\ h \in Nat /\ k \in Nat /\ l \in Nat /\ l > 0
         /\ Number \in Nat /\ i \in Nat /\ i = Reversed[k][Number] /\ i % Shl[l * j] = x[j]
         /\ Prefix(j) = Number \div Shl[k - l * j] /\ Prefix(j) \in Nat /\ Prefix(j) < Shl[l * j]
<1>1. k \in 1 .. g
  BY DEF Codes
<1>2. k \in Nat /\ l \in Nat /\ l > 0 /\ g \in Nat /\ k <= g /\ Number \in Nat /\ FirstCode[k] <= Number /\ i \in Nat /\ i = Reversed[k][Number]
  BY <1>1, ReadyIs, NumberIs DEF Codes
<1>3. h \in Nat /\ h >= 0
  BY DEF Levels
<1>4. l * j \in Nat /\ l * j < k /\ l * j <= w /\ w = l * h /\ w \in Nat
  BY <1>2, <1>3, LevelOf
<1>5. i % Shl[l * j] = x[j] /\ Prefix(j) = Number \div Shl[k - l * j] /\ Prefix(j) \in Nat /\ Prefix(j) < Shl[l * j]
  BY <1>3, PrefixIs
<1>6. J > 0 /\ Sized(l * j, Number \div Shl[k - l * j], J)
  BY <1>5 DEF TableAt
<1>7. J >= l \/ J >= k - l * j
  <2> DEFINE n == l * j
  <2>1. n \in Nat /\ n < k /\ n + J > 0 /\ Sized(n, Number \div Shl[k - n], J)
    BY <1>4, <1>6
  <2> HIDE DEF n
  <2>2. J >= l \/ J >= k - n
    BY <1>2, <2>1, Wide
  <2> QED BY <2>2 DEF n
<1> QED BY <1>2, <1>3, <1>4, <1>5, <1>7

LEMMA AheadParent ==
  ASSUME b' = b, l' = l, g' = g, y' = y, NEW j, NEW J, NEW Q, j # h', x'[j] = x[j], u'[j] = u[j], Reversed[l * (j + 1)][x'[j + 1]] = Q,
         Behind(tabs'[u[j]], l * j, Prefix(j), J, Q + 1, l * (j + 1))
  PROVE  Ahead(j, J)'
<1>1. Prefix(j)' = Prefix(j) /\ Prefix(j + 1)' = Q
  BY ConstantsKept DEF Prefix
<1>2. Behind(tabs[u[j]], l * j, Prefix(j), J, Prefix(j + 1) + 1, l * (j + 1))'
  BY <1>1, MeasuresKept
<1> QED BY <1>2 DEF Ahead

(* The open table: where the running code goes it is empty, and behind the *)
(* code's places it stays so.                                              *)
Opens(table, new, n, d, J, N) ==
  LET place == Reversed[n + d][N] \div Shl[n]
  IN  /\ DOMAIN new = DOMAIN table
      /\ \A q \in DOMAIN table : q % Shl[d] # place => new[q] = table[q]

LEMMA OpenBehind ==
  ASSUME NEW table, NEW new, NEW n \in Nat, NEW d \in Nat, NEW J \in Nat, d <= J, NEW N \in Nat,
         DOMAIN table = 0 .. Shl[J] - 1, Behind(table, n, N \div Shl[d], J, N, n + d), Opens(table, new, n, d, J, N)
  PROVE  Behind(new, n, N \div Shl[d], J, N + 1, n + d)
<1> DEFINE P == N \div Shl[d]
           place == Reversed[n + d][N] \div Shl[n]
<1>1. /\ P \in Nat /\ place \in Nat
      /\ \A q \in Nat : q % Shl[d] = place => Slot(P, J, q) * Shl[n + d] < (N + 1) * Shl[n + J]
  BY SlotOf
<1>2. /\ DOMAIN new = 0 .. Shl[J] - 1
      /\ \A q \in 0 .. Shl[J] - 1 : q % Shl[d] # place => new[q] = table[q]
  BY DEF Opens
<1> HIDE DEF P, place
<1>3. Behind(table, n, P, J, N + 1, n + d)
  <2>1. n + d \in Nat /\ N + 1 \in Nat /\ Behind(table, n, P, J, N, n + d)
    BY DEF P
  <2>2. N * Shl[n + d] <= (N + 1) * Shl[n + d]
    <3> DEFINE A == Shl[n + d]
    <3>1. A \in Nat
      BY ONLY <2>1, ShlIs
    <3> HIDE DEF A
    <3>2. N * A <= (N + 1) * A
      <4>1. (N + 1) * A = N * A + A /\ N * A \in Nat
        BY <3>1
      <4> QED BY <3>1, <4>1
    <3> QED BY <3>2 DEF A
  <2> QED BY <1>1, <2>1, <2>2, BehindFurther
<1>4. ASSUME NEW q \in 0 .. Shl[J] - 1, (N + 1) * Shl[n + J] <= Slot(P, J, q) * Shl[n + d]
      PROVE  q % Shl[d] # place
  <2> DEFINE A == Slot(P, J, q) * Shl[n + d]
             B == (N + 1) * Shl[n + J]
  <2>1. q \in Nat
    OBVIOUS
  <2>2. A \in Int /\ B \in Int
    <3>1. n + d \in Nat /\ n + J \in Nat
      OBVIOUS
    <3>2. Shl[n + d] \in Int /\ Shl[n + J] \in Int
      BY ONLY <3>1, ShlIs
    <3>3. Slot(P, J, q) \in Int
      BY <1>1, <2>1, SlotType
    <3>4. N + 1 \in Int
      OBVIOUS
    <3> QED BY ONLY <3>2, <3>3, <3>4, Ring
  <2>3. q % Shl[d] = place => A < B
    BY <1>1, <2>1
  <2>4. B <= A
    BY <1>4
  <2> HIDE DEF A, B
  <2> QED BY <2>2, <2>3, <2>4
<1>5. Behind(new, n, P, J, N + 1, n + d)
  BY <1>2, <1>3, <1>4 DEF Behind
<1> QED BY <1>5 DEF P

OpenAt(table, n, d, J, N) ==
  LET place == Reversed[n + d][N] \div Shl[n]
  IN  place \in 0 .. Shl[J] - 1 /\ table[place].e = "unset"

LEMMA OpenPlace ==
  ASSUME NEW table, NEW n \in Nat, NEW d \in Nat, NEW J \in Nat, d <= J, NEW N \in Nat, Behind(table, n, N \div Shl[d], J, N, n + d)
  PROVE  OpenAt(table, n, d, J, N)
<1> DEFINE place == Reversed[n + d][N] \div Shl[n]
<1>1. /\ place \in Nat /\ place \in 0 .. Shl[J] - 1 /\ place % Shl[d] = place
      /\ \A q \in Nat : q % Shl[d] = place => N * Shl[n + J] <= Slot(N \div Shl[d], J, q) * Shl[n + d]
  BY SlotOf
<1> HIDE DEF place
<1>2. N * Shl[n + J] <= Slot(N \div Shl[d], J, place) * Shl[n + d]
  BY <1>1
<1>3. table[place].e = "unset"
  BY <1>1, <1>2 DEF Behind
<1> QED BY <1>1, <1>3 DEF place, OpenAt

(* The table a link is entered in: behind the codes the new table is for   *)
(* it is empty.                                                            *)
LinkedAt(table, n, d, J, Q, e) ==
  LET place == Reversed[n + d][Q] \div Shl[n]
  IN  /\ Behind(Linked(table, place, e), n, Q \div Shl[d], J, Q + 1, n + d)
      /\ place \in 0 .. Shl[J] - 1 /\ Linked(table, place, e)[place] = e
      /\ DOMAIN Linked(table, place, e) = DOMAIN table

LEMMA ParentBehind ==
  ASSUME NEW table, NEW n \in Nat, NEW d \in Nat, NEW J \in Nat, d <= J, NEW Q \in Nat, NEW e,
         DOMAIN table = 0 .. Shl[J] - 1, Behind(table, n, Q \div Shl[d], J, Q, n + d)
  PROVE  LinkedAt(table, n, d, J, Q, e)
<1> DEFINE place == Reversed[n + d][Q] \div Shl[n]
           new == Linked(table, place, e)
<1>1. place \in Nat /\ place \in 0 .. Shl[J] - 1 /\ place % Shl[d] = place
  BY SlotOf
<1> HIDE DEF place
<1>2. /\ \A q \in 0 .. Shl[J] - 1 : q # place => new[q] = table[q]
      /\ new[place] = e
      /\ DOMAIN new = DOMAIN table
  BY <1>1 DEF Linked
<1> HIDE DEF new
<1>3. \A q \in DOMAIN table : q % Shl[d] # place => new[q] = table[q]
  BY <1>1, <1>2
<1>4. Opens(table, new, n, d, J, Q)
  BY <1>2, <1>3 DEF Opens, place
<1>5. Behind(new, n, Q \div Shl[d], J, Q + 1, n + d)
  BY <1>4, OpenBehind
<1> QED BY <1>1, <1>2, <1>5 DEF place, new, LinkedAt

LEMMA Parent ==
  ASSUME b \in LengthLists, Ready, Codes, Levels, Stacked, NewTable, h >= 0, NEW W, W = w', NEW Q, Q = Number \div Shl[k - W]
  PROVE  /\ h \in 0 .. h /\ h \in Nat /\ w \in Nat /\ w = l * h /\ W = w + l /\ l \in Nat /\ Q \in Nat
         /\ i \div Shl[w] = Reversed[w + l][Q] \div Shl[w]
         /\ \E J \in Nat : /\ TableAt(h, J) /\ l <= J /\ DOMAIN tabs[u[h]] = 0 .. Shl[J] - 1
                           /\ Prefix(h) = Q \div Shl[l]
                           /\ Behind(tabs[u[h]], w, Q \div Shl[l], J, Q, w + l)
<1> PICK H : H = h'
  OBVIOUS
<1> PICK J0 : J0 = TableBits(W)
  OBVIOUS
<1>1. /\ W \in Nat /\ H \in Nat /\ W < k /\ H = h + 1 /\ W = w + l /\ k \in Nat /\ l \in Nat /\ l > 0
      /\ Q \in Nat /\ Q < Shl[W] /\ Number = Shl[k - W] * Q /\ i = Reversed[W][Q] /\ Number \in Nat
  BY NewTableAt
<1>2. pc = "tables" /\ k > w + l
  BY DEF NewTable
<1>3. h \in Nat /\ h \in 0 .. h /\ w = l * h
  <2>1. h \in Int /\ w = l * h
    BY DEF Levels
  <2>2. h \in Nat /\ h \in 0 .. h
    BY <2>1
  <2> QED BY <2>1, <2>2
<1>4. PICK J \in Nat : TableAt(h, J)
  BY <1>3 DEF Stacked
<1>5. /\ J >= l \/ J >= k - l * h
      /\ Prefix(h) = Number \div Shl[k - l * h] /\ i % Shl[l * h] = x[h] /\ w \in Nat
  <2>1. pc \in {"codes", "tables"} /\ Number < Shl[k]
    BY <1>2, NumberIs
  <2> QED BY <1>3, <1>4, <2>1, LevelWide
<1>6. l <= J
  <2>1. k - w > l
    BY <1>1, <1>2, <1>5
  <2> QED BY <1>1, <1>3, <1>5, <2>1
<1>7. Prefix(h) = Q \div Shl[l]
  <2>1. w <= W /\ W - w = l
    BY <1>1, <1>5
  <2>2. Reversed[w][Reversed[W][Q] % Shl[w]] = Q \div Shl[W - w]
    <3>1. w \in Nat /\ W \in Nat /\ w <= W /\ Q \in Nat /\ Q < Shl[W]
      BY <1>1, <1>5, <2>1
    <3> QED BY ONLY <3>1, Decided
  <2> QED BY <1>1, <1>3, <1>5, <2>1, <2>2 DEF Prefix
<1>8. Number * Shl[W] <= Q * Shl[k]
  <2> DEFINE A == Shl[k - W]
             B == Shl[W]
  <2>1. Shl[k] = A * B /\ A \in Nat /\ B \in Nat
    <3>1. k - W \in Nat /\ (k - W) + W = k
      BY <1>1
    <3>2. Shl[(k - W) + W] = Shl[k - W] * Shl[W]
      BY ONLY <1>1, <3>1, ShlSum
    <3> QED BY <1>1, <3>1, <3>2, ShlIs
  <2>2. Number = A * Q
    BY <1>1
  <2> HIDE DEF A, B
  <2>3. Number * B = Q * (A * B) /\ Q * (A * B) \in Int
    BY <1>1, <2>1, <2>2
  <2>4. Number * B = Q * Shl[k] /\ Q * Shl[k] \in Int
    BY <2>1, <2>3
  <2> QED BY <2>4 DEF B
<1>9. DOMAIN tabs[u[h]] = 0 .. Shl[J] - 1 /\ Behind(tabs[u[h]], w, Q \div Shl[l], J, Number, k)
  BY <1>3, <1>4, <1>7 DEF TableAt, Ahead
<1>10. Behind(tabs[u[h]], w, Q \div Shl[l], J, Q, w + l)
  <2> DEFINE P == Q \div Shl[l]
             N == Number
             n == w
  <2>1. P \in Nat
    <3>1. Prefix(h) \in Nat
      BY <1>1, <1>3, PrefixType
    <3> QED BY <1>7, <3>1
  <2>2. n \in Nat /\ N \in Nat /\ W \in Nat /\ k \in Nat /\ Q \in Nat /\ N * Shl[W] <= Q * Shl[k]
        /\ Behind(tabs[u[h]], n, P, J, N, k)
    BY <1>1, <1>5, <1>8, <1>9
  <2> HIDE DEF P, N, n
  <2>3. Behind(tabs[u[h]], n, P, J, Q, W)
    BY <1>4, <2>1, <2>2, BehindFurther
  <2> QED BY <1>1, <2>3 DEF P, n
<1>11. i \div Shl[w] = Reversed[w + l][Q] \div Shl[w]
  BY <1>1
<1> QED BY <1>1, <1>3, <1>4, <1>5, <1>6, <1>7, <1>9, <1>10, <1>11
LEMMA StackedNewTable ==
  ASSUME b \in LengthLists, Ready, Codes, Levels, Stacked, NewTable
  PROVE  Stacked'
<1> PICK W : W = w'
  OBVIOUS
<1> PICK H : H = h'
  OBVIOUS
<1> PICK J0 : J0 = TableBits(W)
  OBVIOUS
<1> DEFINE Q == Number \div Shl[k - W]
           T == Len(tabs)
           place == i \div Shl[w]
           link == Link(T + 1, J0)
<1>1. /\ W \in Nat /\ H \in Nat /\ W = l * H /\ W < k /\ H = h + 1 /\ W = w + l /\ k \in Nat /\ l \in Nat /\ l > 0
      /\ J0 \in Nat /\ J0 > 0 /\ Sized(W, Q, J0) /\ (Roomy /\ g > 2 * l => J0 <= l)
      /\ Q \in Nat /\ Q < Shl[W] /\ Number = Shl[k - W] * Q /\ i = Reversed[W][Q] /\ Reversed[W][x'[H]] = Q
      /\ Number \in Nat
  BY NewTableAt
<1>2. /\ u' = [u EXCEPT ![H] = T + 1]
      /\ x' = IF H = 0 THEN x ELSE [x EXCEPT ![H] = i]
      /\ Len(tabs') = T + 1 /\ T \in Nat
      /\ tabs'[T + 1] = [r \in 0 .. Shl[J0] - 1 |-> NoEntry]
      /\ b' = b /\ l' = l /\ g' = g /\ y' = y /\ k' = k /\ pc = "tables" /\ H \in 0 .. BMAX /\ k > w + l
  BY NewTableIs DEF NewTable
<1>3. \A t \in 1 .. T : tabs'[t] = IF H # 0 /\ t = u[h] THEN Linked(tabs[t], place, link) ELSE tabs[t]
  <2>1. link = [e |-> "table", b |-> l, v |-> Len(tabs) + 1, next |-> TableBits(w')]
    BY DEF Link
  <2> HIDE DEF link, place
  <2> QED BY <2>1, NewTableIs DEF place
<1>4. /\ DOMAIN x = 0 .. BMAX /\ DOMAIN u = 0 .. BMAX /\ h \in Int /\ h >= -1 /\ w = l * h /\ (h = -1 => tabs = <<>>)
      /\ \A j \in 0 .. h : u[j] \in 1 .. T
  BY DEF Levels
<1>5. Number < Shl[k]
  BY <1>2, NumberIs
<1> HIDE DEF Q, T, place, link
<1>6. \A j \in 0 .. h : u'[j] = u[j] /\ x'[j] = x[j] /\ j # H /\ u[j] \in 1 .. T /\ u[j] \in Nat
  <2> TAKE j \in 0 .. h
  <2>1. j # H
    BY <1>1, <1>4
  <2>2. u[j] \in 1 .. T
    BY <1>4
  <2> QED BY <1>2, <2>1, <2>2
<1>7. u'[H] = T + 1
  BY <1>2, <1>4
<1>8. \A j \in 0 .. h : j # h => tabs'[u[j]] = tabs[u[j]]
  <2> TAKE j \in 0 .. h
  <2> SUFFICES ASSUME j # h PROVE tabs'[u[j]] = tabs[u[j]]
    OBVIOUS
  <2>1. h \in 0 .. h /\ j \in 0 .. h - 1
    BY <1>4
  <2>2. u[j] < u[h]
    BY <2>1 DEF Stacked
  <2>3. u[j] \in 1 .. T /\ u[j] # u[h]
    BY <1>6, <2>1, <2>2
  <2> QED BY <1>3, <2>3
<1>9. ASSUME h >= 0
      PROVE  \E J \in Nat : /\ TableAt(h, J) /\ Behind(tabs'[u[h]], l * h, Prefix(h), J, Q + 1, W)
                            /\ DOMAIN tabs'[u[h]] = DOMAIN tabs[u[h]]
                            /\ tabs'[u[h]][place] = link
  <2>1. h \in 0 .. h /\ h \in Nat /\ H # 0 /\ w = l * h /\ W = w + l /\ place = Reversed[w + l][Q] \div Shl[w]
    <3>1. h \in Int /\ h >= 0 /\ H = h + 1
      BY <1>1, <1>4, <1>9
    <3>2. h \in 0 .. h /\ h \in Nat /\ H # 0
      BY ONLY <3>1
    <3>3. w = l * h /\ W = w + l /\ i \div Shl[w] = Reversed[w + l][Q] \div Shl[w]
      BY <1>9, Parent DEF Q
    <3> QED BY <3>2, <3>3 DEF place
  <2>2. PICK J \in Nat : /\ TableAt(h, J) /\ l <= J /\ DOMAIN tabs[u[h]] = 0 .. Shl[J] - 1
                         /\ Prefix(h) = Q \div Shl[l]
                         /\ Behind(tabs[u[h]], w, Q \div Shl[l], J, Q, w + l)
    BY <1>9, Parent DEF Q
  <2>3. w \in Nat /\ l \in Nat
    BY <1>1, <1>9, Parent DEF Q
  <2>4. /\ Behind(Linked(tabs[u[h]], place, link), w, Q \div Shl[l], J, Q + 1, w + l)
        /\ place \in 0 .. Shl[J] - 1 /\ Linked(tabs[u[h]], place, link)[place] = link
        /\ DOMAIN Linked(tabs[u[h]], place, link) = DOMAIN tabs[u[h]]
    <3> DEFINE table == tabs[u[h]]
    <3>1. w \in Nat /\ l \in Nat /\ J \in Nat /\ l <= J /\ Q \in Nat
          /\ DOMAIN table = 0 .. Shl[J] - 1 /\ Behind(table, w, Q \div Shl[l], J, Q, w + l)
      BY <1>1, <2>2, <2>3
    <3> HIDE DEF table
    <3>2. LinkedAt(table, w, l, J, Q, link)
      BY ONLY <3>1, ParentBehind
    <3> QED BY <2>1, <3>2 DEF table, LinkedAt
  <2>5. tabs'[u[h]] = Linked(tabs[u[h]], place, link)
    <3>1. u[h] \in 1 .. T
      BY <1>6, <2>1
    <3> QED BY <1>3, <2>1, <3>1
  <2>6. Behind(tabs'[u[h]], l * h, Prefix(h), J, Q + 1, W)
    BY <2>1, <2>2, <2>4, <2>5
  <2> QED BY <2>2, <2>4, <2>5, <2>6
<1>10. ASSUME NEW j \in 0 .. h
       PROVE  \E J \in Nat : TableAt(j, J)'
  <2>1. u'[j] = u[j] /\ x'[j] = x[j] /\ j # H /\ j \in Nat /\ h >= 0
    BY <1>4, <1>6
  <2>2. j > 0 => u'[j - 1] = u[j - 1] /\ tabs'[u[j - 1]] = tabs[u[j - 1]]
    <3> SUFFICES ASSUME j > 0 PROVE u'[j - 1] = u[j - 1] /\ tabs'[u[j - 1]] = tabs[u[j - 1]]
      OBVIOUS
    <3>1. j - 1 \in 0 .. h /\ j - 1 # h
      BY <1>4
    <3> QED BY <1>6, <1>8, <3>1
  <2>3. CASE j = h
    <3>1. PICK J \in Nat : /\ TableAt(h, J) /\ Behind(tabs'[u[h]], l * h, Prefix(h), J, Q + 1, W)
                           /\ DOMAIN tabs'[u[h]] = DOMAIN tabs[u[h]]
      BY <1>9, <2>1
    <3>2. h + 1 = H /\ Reversed[l * H][x'[H]] = Q /\ W = l * H
      BY <1>1
    <3>3. Ahead(j, J)'
      BY <1>2, <2>1, <2>3, <3>1, <3>2, AheadParent
    <3>4. TableAt(j, J)'
      BY <1>2, <2>1, <2>2, <2>3, <3>1, <3>3, TableAtKept
    <3> QED BY <3>4
  <2>4. CASE j # h
    <3>1. PICK J \in Nat : TableAt(j, J)
      BY DEF Stacked
    <3>2. tabs'[u[j]] = tabs[u[j]] /\ x'[j + 1] = x[j + 1]
      <4>1. j + 1 \in 0 .. h
        BY <1>4, <2>4
      <4> QED BY <1>6, <1>8, <2>4, <4>1
    <3>3. Ahead(j, J)'
      BY <1>2, <2>1, <2>4, <3>1, <3>2, AheadKept DEF TableAt
    <3>4. TableAt(j, J)'
      BY <1>2, <2>1, <2>2, <3>1, <3>2, <3>3, TableAtKept
    <3> QED BY <3>4
  <2> QED BY <2>3, <2>4
<1>11. ASSUME NEW j, j = H
       PROVE  TableAt(j, J0)'
  <2>1. Prefix(j)' = Q
    BY <1>1, <1>2, <1>11, ConstantsKept DEF Prefix
  <2>2. Sized(l * j, Prefix(j), J0)'
    BY <1>1, <1>2, <1>11, <2>1, MeasuresKept
  <2>3. tabs'[u'[j]] = [r \in 0 .. Shl[J0] - 1 |-> NoEntry]
    BY <1>2, <1>7, <1>11
  <2>4. Behind(tabs[u[j]], l * j, Prefix(j), J0, Number, k)'
    <3>1. \A q \in 0 .. Shl[J0] - 1 : tabs'[u'[j]][q].e = "unset"
      BY <2>3 DEF NoEntry
    <3> QED BY <3>1, ConstantsKept DEF Behind
  <2>5. Ahead(j, J0)'
    BY <1>11, <2>4 DEF Ahead
  <2>6. j > 0 => tabs'[u'[j - 1]][x'[j] \div Shl[l * (j - 1)]] = Link(u'[j], J0)
    <3> SUFFICES ASSUME j > 0 PROVE tabs'[u'[j - 1]][x'[j] \div Shl[l * (j - 1)]] = Link(u'[j], J0)
      OBVIOUS
    <3>1. j - 1 = h /\ h >= 0 /\ h \in 0 .. h /\ H # 0
      BY <1>1, <1>4, <1>11
    <3>2. x'[j] = i
      BY <1>2, <1>4, <1>11, <3>1
    <3>3. u'[h] = u[h]
      BY <1>6, <3>1
    <3>4. tabs'[u[h]][place] = link
      BY <1>9, <3>1
    <3> QED BY <1>4, <1>7, <1>11, <3>1, <3>2, <3>3, <3>4 DEF place, link
  <2>7. DOMAIN tabs'[u'[j]] = 0 .. Shl[J0] - 1
    BY <2>3
  <2>8. Link(u[j], J0)' = Link(u'[j], J0)
    BY <1>2 DEF Link
  <2> QED BY <1>1, <1>2, <2>2, <2>5, <2>6, <2>7, <2>8, MeasuresKept, ConstantsKept DEF TableAt
<1>12. \A j \in 0 .. h' : \E J \in Nat : TableAt(j, J)'
  <2> TAKE j \in 0 .. h'
  <2>1. j \in 0 .. h \/ j = H
    BY <1>1, <1>4
  <2> QED BY <1>1, <1>10, <1>11, <2>1
<1>13. \A j \in 0 .. h' : \A n \in 0 .. j - 1 : u'[n] < u'[j]
  <2> TAKE j \in 0 .. h'
  <2> TAKE n \in 0 .. j - 1
  <2>1. n \in 0 .. h /\ (j \in 0 .. h \/ j = H)
    BY <1>1, <1>4
  <2>2. CASE j \in 0 .. h
    <3>1. u[n] < u[j]
      BY <2>2 DEF Stacked
    <3> QED BY <1>6, <2>1, <2>2, <3>1
  <2>3. CASE j = H
    <3>1. u'[n] \in 1 .. T /\ u'[j] = T + 1
      BY <1>6, <1>7, <2>1, <2>3
    <3> QED BY <1>2, <3>1 DEF T
  <2> QED BY <2>1, <2>2, <2>3
<1>14. u'[0] = 1
  <2>1. CASE H = 0
    <3>1. h = -1
      BY <1>1, <1>4, <2>1
    <3>2. T = 0
      BY <1>4, <3>1 DEF T
    <3> QED BY <1>7, <2>1, <3>2
  <2>2. CASE H # 0
    <3>1. 0 \in 0 .. h /\ h >= 0
      BY <1>1, <1>4, <2>2
    <3>2. u[0] = 1
      BY <3>1 DEF Stacked
    <3> QED BY <1>6, <3>1, <3>2
  <2> QED BY <2>1, <2>2
<1>15. u'[h'] = Len(tabs')
  BY <1>2, <1>7 DEF T
<1> QED BY <1>12, <1>13, <1>14, <1>15 DEF Stacked
(* The top of the stack, with a code that fits.                            *)
LEMMA OpenTop ==
  ASSUME b \in LengthLists, Ready, Codes, Levels, Stacked, pc = "tables", k <= w + l
  PROVE  /\ h \in Nat /\ h \in 0 .. h /\ w = l * h /\ w \in Nat /\ k - w \in Nat /\ w + (k - w) = k /\ u[h] = Len(tabs)
         /\ Number \in Nat /\ i = Reversed[w + (k - w)][Number] /\ Number < Shl[k] /\ k \in Nat /\ l \in Nat
         /\ \E J \in Nat : /\ TableAt(h, J) /\ k - w <= J /\ DOMAIN tabs[u[h]] = 0 .. Shl[J] - 1
                           /\ Behind(tabs[u[h]], w, Number \div Shl[k - w], J, Number, w + (k - w))
                           /\ Prefix(h) = Number \div Shl[k - w]
<1>1. k \in 1 .. g
  BY DEF Codes
<1>2. k \in Nat /\ k > 0 /\ l \in Nat /\ l > 0 /\ Number < Shl[k] /\ h \in Int /\ h >= -1 /\ w = l * h /\ w < k
  BY <1>1, ReadyIs, NumberIs DEF Levels
<1>3. h \in Nat /\ h \in 0 .. h
  <2>1. h # -1
    <3> SUFFICES ASSUME h = -1 PROVE FALSE
      OBVIOUS
    <3>1. w = -l
      BY <1>2
    <3> QED BY <1>2, <3>1
  <2>2. h \in Int /\ h >= -1 /\ h # -1
    BY <1>2, <2>1
  <2> QED BY ONLY <2>2
<1>4. PICK J \in Nat : TableAt(h, J)
  BY <1>3 DEF Stacked
<1>5. /\ J >= l \/ J >= k - l * h
      /\ w \in Nat /\ Number \in Nat /\ i = Reversed[k][Number] /\ Prefix(h) = Number \div Shl[k - l * h]
  <2>1. pc \in {"codes", "tables"}
    OBVIOUS
  <2> QED BY <1>2, <1>3, <1>4, <2>1, LevelWide
<1>6. k - w \in Nat /\ w + (k - w) = k
  <2>1. w \in Nat /\ k \in Nat /\ w < k
    BY <1>2, <1>5
  <2> QED BY ONLY <2>1
<1>7. k - w <= J
  <2> DEFINE W == w
  <2>1. W \in Nat /\ k \in Nat /\ l \in Nat /\ k <= W + l /\ (J >= l \/ J >= k - W)
    BY <1>2, <1>5
  <2> HIDE DEF W
  <2>2. k - W <= J
    BY ONLY <2>1
  <2> QED BY <2>2 DEF W
<1>8. DOMAIN tabs[u[h]] = 0 .. Shl[J] - 1 /\ Behind(tabs[u[h]], w, Number \div Shl[k - w], J, Number, w + (k - w))
  <2>1. Behind(tabs[u[h]], w, Number \div Shl[k - w], J, Number, k)
    BY <1>2, <1>4, <1>5 DEF TableAt, Ahead
  <2> QED BY <1>4, <1>6, <2>1 DEF TableAt
<1>9. u[h] = Len(tabs)
  <2>1. h >= 0
    BY <1>3
  <2> QED BY <2>1 DEF Stacked
<1>10. Prefix(h) = Number \div Shl[k - w] /\ i = Reversed[w + (k - w)][Number]
  BY <1>2, <1>5, <1>6
<1> QED BY <1>2, <1>3, <1>4, <1>5, <1>6, <1>7, <1>8, <1>9, <1>10
LEMMA StackedFillIn ==
  ASSUME b \in LengthLists, Ready, Codes, Levels, Stacked, FillIn
  PROVE  Stacked'
<1> DEFINE T == Len(tabs)
<1>1. /\ h \in Nat /\ w \in Nat /\ w = l * h /\ w < k /\ k <= w + l /\ T \in Nat /\ h < T
      /\ Len(tabs') = T
      /\ \A t \in 1 .. T : tabs'[t] = IF t = T THEN Fill(tabs[t]) ELSE tabs[t]
      /\ b' = b /\ y' = y /\ g' = g /\ l' = l /\ k' = k /\ h' = h /\ w' = w
      /\ x' = x /\ u' = u /\ pc = "tables"
      /\ Number' = Number + 1
  BY FillInIs
<1>2. /\ h \in 0 .. h /\ w + (k - w) = k /\ k - w \in Nat /\ u[h] = T /\ k \in Nat /\ l \in Nat
      /\ Number \in Nat /\ i = Reversed[w + (k - w)][Number]
  BY <1>1, OpenTop
<1>3. PICK J \in Nat : /\ TableAt(h, J) /\ k - w <= J /\ DOMAIN tabs[u[h]] = 0 .. Shl[J] - 1
                       /\ Behind(tabs[u[h]], w, Number \div Shl[k - w], J, Number, w + (k - w))
                       /\ Prefix(h) = Number \div Shl[k - w]
  BY <1>1, OpenTop
<1>4. \A j \in 0 .. h : u[j] \in 1 .. T
  BY DEF Levels
<1> HIDE DEF T
<1>5. \A j \in 0 .. h : j # h => tabs'[u[j]] = tabs[u[j]]
  <2> TAKE j \in 0 .. h
  <2> SUFFICES ASSUME j # h PROVE tabs'[u[j]] = tabs[u[j]]
    OBVIOUS
  <2>1. h \in 0 .. h /\ j \in 0 .. h - 1
    BY <1>1
  <2>2. u[j] < u[h]
    BY <2>1 DEF Stacked
  <2>3. u[j] \in 1 .. T /\ u[j] # T
    BY <1>1, <1>2, <1>4, <2>1, <2>2
  <2> QED BY <1>1, <2>3
<1>6. tabs'[u[h]] = Fill(tabs[u[h]])
  <2>1. T \in 1 .. T
    BY <1>1
  <2> QED BY <1>1, <1>2, <2>1
<1>7. Opens(tabs[u[h]], Fill(tabs[u[h]]), w, k - w, J, Number)
  <2> DEFINE table == tabs[u[h]]
  <2>1. i \div Shl[w] = Reversed[w + (k - w)][Number] \div Shl[w]
    BY <1>2
  <2>2. DOMAIN Fill(table) = DOMAIN table /\ \A q \in DOMAIN table : q % Shl[k - w] # i \div Shl[w] => Fill(table)[q] = table[q]
    <3> HIDE DEF table
    <3> QED BY DEF Fill
  <2> QED BY <2>1, <2>2 DEF Opens
<1>8. Behind(tabs'[u[h]], l * h, Prefix(h), J, Number', k')
  <2> DEFINE table == tabs[u[h]]
             new == Fill(tabs[u[h]])
             d == k - w
             W == w
             N == Number
  <2>1. W \in Nat /\ d \in Nat /\ d <= J /\ N \in Nat /\ J \in Nat /\ DOMAIN table = 0 .. Shl[J] - 1
        /\ Behind(table, W, N \div Shl[d], J, N, W + d) /\ Opens(table, new, W, d, J, N)
    BY <1>1, <1>2, <1>3, <1>7
  <2> HIDE DEF table, new, d, W, N
  <2>2. Behind(new, W, N \div Shl[d], J, N + 1, W + d)
    BY ONLY <2>1, OpenBehind
  <2> QED BY <1>1, <1>2, <1>3, <1>6, <2>2 DEF new, d, W, N
<1>9. ASSUME NEW j \in 0 .. h
      PROVE  \E K \in Nat : TableAt(j, K)'
  <2>1. j > 0 => tabs'[u[j - 1]] = tabs[u[j - 1]]
    <3> SUFFICES ASSUME j > 0 PROVE tabs'[u[j - 1]] = tabs[u[j - 1]]
      OBVIOUS
    <3>1. j - 1 \in 0 .. h /\ j - 1 # h
      BY <1>1
    <3> QED BY <1>5, <3>1
  <2>2. CASE j = h
    <3>1. Ahead(j, J)'
      BY <1>1, <1>8, <2>2, AheadTop
    <3>2. DOMAIN tabs'[u[j]] = DOMAIN tabs[u[j]]
      BY <1>6, <1>7, <2>2 DEF Opens
    <3>3. TableAt(j, J)'
      BY <1>1, <1>3, <2>1, <2>2, <3>1, <3>2, TableAtKept
    <3> QED BY <3>3
  <2>3. CASE j # h
    <3>1. PICK K \in Nat : TableAt(j, K)
      BY DEF Stacked
    <3>2. tabs'[u[j]] = tabs[u[j]]
      BY <1>5, <2>3
    <3>3. Ahead(j, K)'
      BY <1>1, <2>3, <3>1, <3>2, AheadKept DEF TableAt
    <3>4. TableAt(j, K)'
      BY <1>1, <2>1, <3>1, <3>2, <3>3, TableAtKept
    <3> QED BY <3>4
  <2> QED BY <2>2, <2>3
<1>10. u'[0] = 1 /\ u'[h'] = Len(tabs')
  <2>1. h >= 0
    BY <1>1
  <2>2. u[0] = 1
    BY <2>1 DEF Stacked
  <2> QED BY <1>1, <1>2, <2>2
<1>11. \A j \in 0 .. h' : \E K \in Nat : TableAt(j, K)'
  BY <1>1, <1>9
<1>12. \A j \in 0 .. h' : \A n \in 0 .. j - 1 : u'[n] < u'[j]
  BY <1>1 DEF Stacked
<1> QED BY <1>10, <1>11, <1>12 DEF Stacked

LEMMA StackedBackUp ==
  ASSUME b \in LengthLists, Ready, Codes, Levels, Stacked, BackUp
  PROVE  Stacked'
<1>1. /\ h \in Nat /\ h > 0 /\ w \in Nat /\ w = l * h /\ w < k /\ h' = h - 1 /\ w' = w - l
      /\ pc = "backup"
      /\ b' = b /\ y' = y /\ g' = g /\ l' = l /\ k' = k /\ x' = x /\ u' = u /\ tabs' = tabs
      /\ Number' = Number /\ Number = Shl[k - w] * (((Number - 1) \div Shl[k - w]) + 1)
  BY BackUpIs
<1>2. k \in 1 .. g
  BY DEF Codes
<1>3. k \in Nat /\ l \in Nat /\ l > 0 /\ Number \in Nat /\ Number > 0 /\ Number <= Shl[k] /\ Reversed[k][Number - 1] % Shl[w] = x[h]
  BY <1>1, <1>2, ReadyIs, NumberIs DEF Levels
<1> PICK H : H = h - 1
  OBVIOUS
<1>4. H \in Nat /\ H + 1 = h /\ H \in 0 .. h /\ h \in 0 .. h /\ H # h /\ h' = H
  BY <1>1
<1> DEFINE N == Number - 1
           d == k - w
           P == N \div Shl[d]
<1>5. N \in Nat /\ N < Shl[k] /\ d \in Nat /\ w + d = k /\ Number = Shl[d] * (P + 1)
  <2>1. Shl[k] \in Nat
    BY <1>3, ShlIs
  <2>2. N \in Nat /\ N < Shl[k]
    BY ONLY <1>3, <2>1
  <2>3. d \in Nat /\ w + d = k
    <3>1. w \in Nat /\ k \in Nat /\ w < k
      BY <1>1, <1>3
    <3> QED BY ONLY <3>1
  <2> QED BY <1>1, <2>2, <2>3
<1>6. Prefix(h) = P /\ P \in Nat
  <2> HIDE DEF N
  <2>1. Reversed[k][N] % Shl[w] = x[h] /\ h >= 0
    BY <1>1, <1>3 DEF N
  <2>2. Prefix(h) = N \div Shl[k - l * h] /\ Prefix(h) \in Nat
    BY <1>3, <1>4, <1>5, <2>1, PrefixAt
  <2> QED BY <1>1, <2>2
<1> HIDE DEF N, P
<1>7. PICK J \in Nat : TableAt(H, J)
  BY <1>4 DEF Stacked
<1>8. Behind(tabs[u[H]], l * H, Prefix(H), J, P + 1, l * h)
  BY <1>4, <1>6, <1>7 DEF TableAt, Ahead
<1>9. (P + 1) * Shl[k] <= Number * Shl[w]
  <2> HIDE DEF d
  <2> DEFINE A == Shl[d]
             B == Shl[w]
  <2>1. Shl[k] = B * A /\ A \in Nat /\ B \in Nat
    <3>1. w \in Nat /\ d \in Nat
      BY <1>1, <1>5
    <3>2. Shl[w + d] = Shl[w] * Shl[d]
      BY ONLY <3>1, ShlSum
    <3> QED BY <1>5, <3>1, <3>2, ShlIs
  <2>2. Number = A * (P + 1)
    BY <1>5
  <2> HIDE DEF A, B
  <2>3. (P + 1) * (B * A) = (A * (P + 1)) * B /\ (P + 1) * (B * A) \in Int
    BY <1>6, <2>1
  <2>4. (P + 1) * Shl[k] = Number * B /\ (P + 1) * Shl[k] \in Int
    BY <2>1, <2>2, <2>3
  <2> QED BY <2>4 DEF B
<1>10. Behind(tabs[u[H]], l * H, Prefix(H), J, Number, k)
  <2> DEFINE n == l * H
             W == w
             M == Number
  <2>1. Prefix(H) \in Nat /\ n \in Nat
    BY <1>3, <1>4, PrefixType
  <2>2. W \in Nat /\ M \in Nat /\ P + 1 \in Nat /\ (P + 1) * Shl[k] <= M * Shl[W] /\ Behind(tabs[u[H]], n, Prefix(H), J, P + 1, W)
    BY <1>1, <1>3, <1>6, <1>8, <1>9
  <2> HIDE DEF n, W, M
  <2>3. Behind(tabs[u[H]], n, Prefix(H), J, M, k)
    BY <1>3, <1>7, <2>1, <2>2, BehindFurther
  <2> QED BY <2>3 DEF n, M
<1>11. ASSUME NEW j \in 0 .. H
       PROVE  \E K \in Nat : TableAt(j, K)'
  <2>1. j \in 0 .. h
    BY <1>4
  <2>2. CASE j = H
    <3>1. Ahead(j, J)'
      BY <1>1, <1>4, <1>10, <2>2, AheadTop
    <3>2. TableAt(j, J)'
      BY <1>1, <1>7, <2>2, <3>1, TableAtKept
    <3> QED BY <3>2
  <2>3. CASE j # H
    <3>1. PICK K \in Nat : TableAt(j, K)
      BY <2>1 DEF Stacked
    <3>2. j # h /\ j # h'
      BY <1>4, <2>3
    <3>3. Ahead(j, K)'
      BY <1>1, <3>1, <3>2, AheadKept DEF TableAt
    <3>4. TableAt(j, K)'
      BY <1>1, <3>1, <3>3, TableAtKept
    <3> QED BY <3>4
  <2> QED BY <2>2, <2>3
<1>12. \A j \in 0 .. h' : \E K \in Nat : TableAt(j, K)'
  BY <1>4, <1>11
<1>13. \A j \in 0 .. h' : \A n \in 0 .. j - 1 : u'[n] < u'[j]
  <2>1. \A j \in 0 .. H : j \in 0 .. h
    BY <1>4
  <2> QED BY <1>1, <1>4, <2>1 DEF Stacked
<1>14. u'[0] = 1
  <2>1. h >= 0
    BY <1>1
  <2> QED BY <1>1, <2>1 DEF Stacked
<1>15. ~(k' <= w' + l')
  <2> DEFINE W == w
  <2>1. W \in Nat /\ W < k /\ w' + l' = W /\ k' = k /\ k \in Nat
    <3>1. (w - l) + l = w
      BY <1>1, <1>3
    <3> QED BY <1>1, <1>3, <3>1
  <2> HIDE DEF W
  <2>2. ~(k <= W)
    BY ONLY <2>1
  <2> QED BY <2>1, <2>2
<1> QED BY <1>12, <1>13, <1>14, <1>15 DEF Stacked
LEMMA StackedRelabelled ==
  ASSUME b \in LengthLists, Ready, Codes, Levels, Stacked, NextLength \/ NextCode \/ BackedUp \/ Finish \/ UNCHANGED vars
  PROVE  /\ Stacked' /\ k \in Nat /\ k' \in Nat /\ Number \in Nat /\ Number' \in Nat
         /\ Number * Shl[k'] = Number' * Shl[k]
<1>1. /\ b' = b /\ y' = y /\ g' = g /\ l' = l /\ c' = c /\ h' = h /\ w' = w /\ x' = x /\ u' = u /\ tabs' = tabs
      /\ \/ k' = k
         \/ k' = k + 1 /\ pc = "codes" /\ pc' = "codes" /\ a = 0 /\ a' = c[k + 1] /\ k < g
  BY DEF NextLength, NextCode, BackedUp, Finish, vars
<1>2. k \in 1 .. g
  BY DEF Codes
<1>3. k \in Nat /\ Number \in Nat /\ Number = FirstCode[k] + Passed /\ g \in Nat /\ a \in Nat /\ k > 0 /\ c[k] \in Nat /\ FirstCode[k] \in Nat
  BY <1>2, ReadyIs, NumberIs DEF Number, Codes
<1>4. CASE k' = k
  <2>1. Pending' = Pending
    BY <1>1, <1>3, <1>4 DEF NextLength, NextCode, BackedUp, Finish, vars, Pending
  <2>2. Number' = Number
    BY <1>1, <1>4, <2>1, CodesRelabelled
  <2>3. Number * Shl[k'] <= Number' * Shl[k]
    <3> DEFINE A == Number * Shl[k]
    <3>1. A \in Int
      <4>1. Shl[k] \in Int /\ Number \in Int
        BY <1>3, ShlIs
      <4> QED BY <4>1
    <3>2. Number * Shl[k'] = A /\ Number' * Shl[k] = A
      BY <1>4, <2>2
    <3> HIDE DEF A
    <3> QED BY <3>1, <3>2
  <2> QED BY <1>1, <1>3, <1>4, <2>2, <2>3, StackedSame
<1>5. CASE k' = k + 1 /\ pc = "codes" /\ pc' = "codes" /\ a = 0 /\ a' = c[k + 1] /\ k < g
  <2>1. Passed = c[k] /\ c[k] = Cardinal(k) /\ c[k + 1] \in Nat
    <3>1. k + 1 \in 1 .. g
      BY <1>3, <1>5
    <3> QED BY <1>2, <1>3, <1>5, <3>1, ReadyIs DEF Passed, Pending
  <2>2. Passed' = 0
    <3>1. Pending' = a'
      BY <1>5 DEF Pending
    <3> QED BY <1>1, <1>5, <2>1, <3>1 DEF Passed
  <2>3. Number' = FirstCode[k + 1]
    <3>1. Number' = FirstCode'[k'] + Passed'
      BY DEF Number
    <3>2. FirstCode[k + 1] \in Nat
      BY <1>3, FirstCodeIs
    <3> QED BY <1>1, <1>5, <2>2, <3>1, <3>2, Kept
  <2>4. Number' = 2 * Number
    BY <1>3, <2>1, <2>3, FirstCodeIs
  <2>5. Shl[k + 1] = 2 * Shl[k] /\ Shl[k] \in Nat
    BY <1>3, ShlIs
  <2>6. Number * (2 * Shl[k]) = (2 * Number) * Shl[k] /\ (2 * Number) * Shl[k] \in Int
    BY <1>3, <2>5
  <2>7. Number * Shl[k'] = Number' * Shl[k] /\ Number' * Shl[k] \in Int /\ k' \in Nat /\ k <= k' /\ Number' \in Nat
    BY <1>3, <1>5, <2>4, <2>5, <2>6
  <2>8. Number * Shl[k'] <= Number' * Shl[k]
    BY <2>7
  <2> QED BY <1>1, <1>3, <2>7, <2>8, StackedSame
<1> QED BY <1>1, <1>4, <1>5

StackInv == Ready => Stacked

LEMMA StackedNext ==
  ASSUME CodesInv, StackInv, [Next]_vars
  PROVE  StackInv'
<1> SUFFICES ASSUME Ready' PROVE Stacked'
  BY DEF StackInv
<1>1. b \in LengthLists /\ (Idle \/ (Ready /\ Codes /\ Levels))
  BY DEF CodesInv
<1>2. CASE Idle
  <2>1. h' = -1
    <3>1. h = -1 /\ pc \in {"count", "done"}
      BY <1>2 DEF Idle
    <3> QED BY <3>1 DEF Next, vars, NullInput, Oversubscribed, Prepare, NextLength, NextCode, Finish, NewTable, FillIn, BackUp, BackedUp, Returned
  <2>2. 0 .. h' = {} /\ ~(h' >= 0)
    BY <2>1
  <2> QED BY <2>2 DEF Stacked
<1>3. CASE Ready /\ Codes /\ Levels
  <2>1. Stacked
    BY <1>3 DEF StackInv
  <2>2. NextLength \/ NextCode \/ BackedUp \/ Finish \/ UNCHANGED vars \/ NewTable \/ FillIn \/ BackUp
    BY <1>3 DEF Next, Codes, NullInput, Oversubscribed, Prepare, Returned
  <2> QED BY <1>1, <1>3, <2>1, <2>2, StackedRelabelled, StackedNewTable, StackedFillIn, StackedBackUp
<1> QED BY <1>1, <1>2, <1>3

LEMMA StackedHolds ==
  Spec => [](CodesInv /\ StackInv)
<1>1. Init => StackInv
  <2> SUFFICES ASSUME Init PROVE Stacked
    BY DEF StackInv
  <2>1. 0 .. h = {} /\ ~(h >= 0)
    BY DEF Init
  <2> QED BY <2>1 DEF Stacked
<1>2. CodesInv /\ StackInv /\ [Next]_vars => StackInv'
  BY StackedNext
<1> QED BY <1>1, <1>2, CodesHold, PTL DEF Spec

(* A code's entry is written in the table of its level, and that one is    *)
(* still open at its place: no step that enters a code finds another's     *)
(* entry there, whatever tables were begun and left before (lib/inflate.c: *)
(* 447-476, "don't need to update q").                                     *)
THEOREM FillsOpenTables ==
  Spec => []FillsTheOpenTable
<1>1. ASSUME CodesInv, StackInv
      PROVE  FillsTheOpenTable
  <2> SUFFICES ASSUME pc = "tables", k <= w + l
               PROVE  /\ u[h] = Len(tabs)
                      /\ i \div Shl[w] \in DOMAIN tabs[Len(tabs)]
                      /\ tabs[Len(tabs)][i \div Shl[w]].e = "unset"
    BY DEF FillsTheOpenTable
  <2>1. b \in LengthLists /\ Ready /\ Codes /\ Levels /\ Stacked
    BY <1>1 DEF CodesInv, Idle, StackInv
  <2>2. w \in Nat /\ k - w \in Nat /\ u[h] = Len(tabs) /\ Number \in Nat /\ i = Reversed[w + (k - w)][Number]
    BY <2>1, OpenTop
  <2>3. PICK J \in Nat : /\ k - w <= J /\ DOMAIN tabs[u[h]] = 0 .. Shl[J] - 1
                         /\ Behind(tabs[u[h]], w, Number \div Shl[k - w], J, Number, w + (k - w))
    BY <2>1, OpenTop
  <2> DEFINE table == tabs[u[h]]
             d == k - w
             W == w
             N == Number
  <2>4. W \in Nat /\ d \in Nat /\ d <= J /\ J \in Nat /\ N \in Nat /\ Behind(table, W, N \div Shl[d], J, N, W + d)
        /\ DOMAIN table = 0 .. Shl[J] - 1 /\ i = Reversed[W + d][N]
    BY <2>2, <2>3
  <2> HIDE DEF table, d, W, N
  <2>5. Reversed[W + d][N] \div Shl[W] \in 0 .. Shl[J] - 1 /\ table[Reversed[W + d][N] \div Shl[W]].e = "unset"
    <3>1. OpenAt(table, W, d, J, N)
      BY ONLY <2>4, OpenPlace
    <3> QED BY ONLY <3>1, Zenon DEF OpenAt
  <2>6. i \div Shl[W] \in DOMAIN table /\ table[i \div Shl[W]].e = "unset"
    BY <2>4, <2>5
  <2> QED BY <2>2, <2>6 DEF table, W
<1> QED BY <1>1, StackedHolds, PTL
-----------------------------------------------------------------------------
(* Entries once made stay, and with them the walks that ended.             *)
Frozen(T, U) ==
  /\ Len(T) \in Nat /\ Len(U) \in Nat /\ Len(T) <= Len(U)
  /\ \A t \in 1 .. Len(T) :
       /\ DOMAIN U[t] = DOMAIN T[t]
       /\ \A q \in DOMAIN T[t] : T[t][q].e # "unset" => U[t][q] = T[t][q]

LEMMA PlaceFrozen ==
  ASSUME NEW T, NEW U, Frozen(T, U), NEW f, f.t \in 1 .. Len(T), PlaceIn(T, f).e # "unset"
  PROVE  PlaceIn(U, f) = PlaceIn(T, f) /\ FollowIn(U, f) = FollowIn(T, f) /\ f.t \in 1 .. Len(U)
<1> DEFINE q == f.rest % Shl[f.bits]
           t == f.t
<1>1. PlaceIn(T, f) = (IF q \in DOMAIN T[t] THEN T[t][q] ELSE NoEntry) /\ PlaceIn(U, f) = (IF q \in DOMAIN U[t] THEN U[t][q] ELSE NoEntry)
  BY Zenon DEF PlaceIn
<1>2. t \in 1 .. Len(T)
  OBVIOUS
<1> HIDE DEF q, t
<1>3. q \in DOMAIN T[t] /\ T[t][q].e # "unset"
  BY <1>1 DEF NoEntry
<1>4. DOMAIN U[t] = DOMAIN T[t] /\ U[t][q] = T[t][q]
  BY <1>2, <1>3 DEF Frozen
<1>5. PlaceIn(U, f) = PlaceIn(T, f)
  BY <1>1, <1>4
<1>6. FollowIn(U, f) = FollowIn(T, f)
  BY <1>5 DEF FollowIn
<1>7. t \in 1 .. Len(U)
  BY <1>2 DEF Frozen
<1> QED BY <1>5, <1>6, <1>7 DEF t

LEMMA EndsKept ==
  ASSUME b' = b, g' = g, NEW e, NEW n, NEW stream, Ends(e, n, stream)
  PROVE  Ends(e, n, stream)'
<1>1. End(g)' = End(g)
  <2>1. Cardinal(g)' = Cardinal(g)
    BY DEF Cardinal, Symbols
  <2> QED BY <2>1, Kept DEF End
<1>2. ASSUME NEW s PROVE BeginsWith(stream, s)' <=> BeginsWith(stream, s)
  <2>1. CodeOf(s)' = CodeOf(s)
    <3>1. Used' = Used /\ FirstCode' = FirstCode
      BY Kept
    <3> QED BY <3>1 DEF CodeOf
  <2> QED BY <2>1, ConstantsKept DEF BeginsWith
<1> QED BY <1>1, <1>2, Kept, ConstantsKept DEF Ends

LEMMA FoundWith ==
  ASSUME b' = b, g' = g, l' = l, NEW stream, NEW F, Trace(F, tabs', stream),
         \A j \in Nat : F[j].t \in 1 .. Len(tabs') /\ PlaceIn(tabs', F[j]).e # "unset",
         Ends(PlaceIn(tabs', F[g]), F[g].used, stream)
  PROVE  Found(stream)'
<1>1. \A T, f : PlaceIn(T, f)' = PlaceIn(T, f) /\ FollowIn(T, f)' = FollowIn(T, f)
  BY ConstantsKept DEF PlaceIn, FollowIn, NoEntry
<1>2. Trace(F, tabs, stream)'
  BY <1>1 DEF Trace
<1>3. Ends(PlaceIn(tabs, F[g]), F[g].used, stream)'
  <2> PICK e : e = PlaceIn(tabs', F[g])
    OBVIOUS
  <2> PICK n : n = F[g].used
    OBVIOUS
  <2>1. Ends(e, n, stream)'
    BY EndsKept
  <2>2. PlaceIn(tabs, F[g])' = e /\ (F[g].used)' = n
    BY <1>1
  <2> QED BY <2>1, <2>2
<1> QED BY <1>1, <1>2, <1>3 DEF Found

LEMMA FoundKept ==
  ASSUME b' = b, g' = g, l' = l, g \in Nat, NEW stream, Found(stream), Frozen(tabs, tabs')
  PROVE  Found(stream)'
<1>1. PICK F : /\ Trace(F, tabs, stream)
               /\ \A j \in Nat : F[j].t \in 1 .. Len(tabs) /\ PlaceIn(tabs, F[j]).e # "unset"
               /\ Ends(PlaceIn(tabs, F[g]), F[g].used, stream)
  BY DEF Found
<1>2. \A j \in Nat : PlaceIn(tabs', F[j]) = PlaceIn(tabs, F[j]) /\ FollowIn(tabs', F[j]) = FollowIn(tabs, F[j]) /\ F[j].t \in 1 .. Len(tabs')
  BY <1>1, PlaceFrozen
<1>3. Trace(F, tabs', stream)
  <2> DEFINE G(T) == [j \in Nat |-> IF j = 0 THEN [t |-> 1, bits |-> l, rest |-> stream, used |-> 0] ELSE FollowIn(T, F[j - 1])]
  <2>1. F = G(tabs)
    BY <1>1, Zenon DEF Trace
  <2>2. \A j \in Nat : j # 0 => FollowIn(tabs', F[j - 1]) = FollowIn(tabs, F[j - 1])
    <3> TAKE j \in Nat
    <3>1. j # 0 => j - 1 \in Nat
      OBVIOUS
    <3> QED BY <1>2, <3>1
  <2>3. G(tabs') = G(tabs)
    BY <2>2
  <2>4. F = G(tabs')
    <3> HIDE DEF G
    <3> QED BY <2>1, <2>3
  <2> QED BY <2>4, Zenon DEF Trace
<1> QED BY <1>1, <1>2, <1>3, FoundWith
LEMMA FrozenNewTable ==
  ASSUME b \in LengthLists, Ready, Codes, Levels, Stacked, NewTable
  PROVE  Frozen(tabs, tabs')
<1> PICK W : W = w'
  OBVIOUS
<1> DEFINE Q == Number \div Shl[k - W]
           T == Len(tabs)
           place == i \div Shl[w]
           link == [e |-> "table", b |-> l, v |-> Len(tabs) + 1, next |-> TableBits(w')]
<1>1. Len(tabs') = T + 1 /\ T \in Nat /\ h' = h + 1 /\ h' \in Nat
  BY NewTableIs
<1>2. \A t \in 1 .. T : tabs'[t] = IF h' # 0 /\ t = u[h] THEN Linked(tabs[t], place, link) ELSE tabs[t]
  BY NewTableIs
<1> HIDE DEF Q, T, place, link
<1>3. ASSUME h' # 0
      PROVE  DOMAIN Linked(tabs[u[h]], place, link) = DOMAIN tabs[u[h]] /\ place \in DOMAIN tabs[u[h]] /\ tabs[u[h]][place].e = "unset"
  <2>1. h >= 0
    <3>1. h \in Int
      BY DEF Levels
    <3> PICK H : H = h'
      OBVIOUS
    <3>2. H = h + 1 /\ H \in Nat /\ H # 0
      BY <1>1, <1>3
    <3> QED BY <3>1, <3>2
  <2>2. w \in Nat /\ l \in Nat /\ Q \in Nat /\ place = Reversed[w + l][Q] \div Shl[w]
    BY <2>1, Parent DEF Q, place
  <2>3. PICK J \in Nat : /\ l <= J /\ DOMAIN tabs[u[h]] = 0 .. Shl[J] - 1
                         /\ Behind(tabs[u[h]], w, Q \div Shl[l], J, Q, w + l)
    BY <2>1, Parent DEF Q
  <2> DEFINE table == tabs[u[h]]
             n == w
             d == l
  <2>4. n \in Nat /\ d \in Nat /\ J \in Nat /\ d <= J /\ Q \in Nat /\ Behind(table, n, Q \div Shl[d], J, Q, n + d)
    BY <2>2, <2>3
  <2> HIDE DEF table, n, d
  <2>5. Reversed[n + d][Q] \div Shl[n] \in 0 .. Shl[J] - 1 /\ table[Reversed[n + d][Q] \div Shl[n]].e = "unset"
    <3>1. OpenAt(table, n, d, J, Q)
      BY ONLY <2>4, OpenPlace
    <3> QED BY ONLY <3>1, Zenon DEF OpenAt
  <2>6. place \in DOMAIN tabs[u[h]] /\ tabs[u[h]][place].e = "unset"
    BY <2>2, <2>3, <2>5 DEF table, n, d
  <2> QED BY <2>6 DEF Linked
<1>4. ASSUME NEW t \in 1 .. T
      PROVE  DOMAIN tabs'[t] = DOMAIN tabs[t] /\ \A q \in DOMAIN tabs[t] : tabs[t][q].e # "unset" => tabs'[t][q] = tabs[t][q]
  <2>1. CASE h' # 0 /\ t = u[h]
    <3>1. tabs'[t] = Linked(tabs[t], place, link)
      BY <1>2, <2>1
    <3>2. DOMAIN Linked(tabs[t], place, link) = DOMAIN tabs[t] /\ place \in DOMAIN tabs[t] /\ tabs[t][place].e = "unset"
      BY <1>3, <2>1
    <3> DEFINE table == tabs[t]
    <3> HIDE DEF table
    <3>3. \A q \in DOMAIN table : q # place => Linked(table, place, link)[q] = table[q]
      BY DEF Linked
    <3> QED BY <3>1, <3>2, <3>3 DEF table
  <2>2. CASE ~(h' # 0 /\ t = u[h])
    BY <1>2, <2>2
  <2> QED BY <2>1, <2>2
<1>5. Len(tabs) \in Nat /\ Len(tabs') \in Nat /\ Len(tabs) <= Len(tabs')
  BY <1>1 DEF T
<1> QED BY <1>4, <1>5 DEF Frozen, T

LEMMA FrozenFillIn ==
  ASSUME b \in LengthLists, Ready, Codes, Levels, Stacked, FillIn
  PROVE  Frozen(tabs, tabs')
<1> DEFINE T == Len(tabs)
<1>1. /\ T \in Nat /\ Len(tabs') = T /\ k <= w + l /\ pc = "tables"
      /\ \A t \in 1 .. T : tabs'[t] = IF t = T THEN Fill(tabs[t]) ELSE tabs[t]
  BY FillInIs
<1>2. /\ w \in Nat /\ k - w \in Nat /\ w + (k - w) = k /\ u[h] = T /\ k \in Nat
      /\ Number \in Nat /\ i = Reversed[w + (k - w)][Number]
  BY <1>1, OpenTop
<1>3. PICK J \in Nat : /\ k - w <= J /\ DOMAIN tabs[u[h]] = 0 .. Shl[J] - 1
                       /\ Behind(tabs[u[h]], w, Number \div Shl[k - w], J, Number, w + (k - w))
  BY <1>1, OpenTop
<1> HIDE DEF T
<1> DEFINE table == tabs[T]
           d == k - w
           N == Number
           place == i \div Shl[w]
<1>4. /\ w \in Nat /\ d \in Nat /\ J \in Nat /\ d <= J /\ N \in Nat /\ DOMAIN table = 0 .. Shl[J] - 1
      /\ Behind(table, w, N \div Shl[d], J, N, w + d) /\ place = Reversed[w + d][N] \div Shl[w]
  BY <1>2, <1>3
<1>5. DOMAIN Fill(table) = DOMAIN table /\ \A q \in DOMAIN table : q % Shl[d] # place => Fill(table)[q] = table[q]
  <2> HIDE DEF table
  <2> QED BY DEF Fill
<1> HIDE DEF table, d, N, place
<1>6. ASSUME NEW q \in 0 .. Shl[J] - 1, q % Shl[d] = place
      PROVE  table[q].e = "unset"
  <2>1. q \in Nat
    OBVIOUS
  <2>2. N * Shl[w + J] <= Slot(N \div Shl[d], J, q) * Shl[w + d]
    <3>1. w \in Nat /\ d \in Nat /\ J \in Nat /\ d <= J /\ N \in Nat
      BY <1>4
    <3>2. q % Shl[d] = Reversed[w + d][N] \div Shl[w]
      BY <1>4, <1>6
    <3> QED BY ONLY <2>1, <3>1, <3>2, SlotOf
  <2> QED BY <1>4, <2>2 DEF Behind
<1>7. ASSUME NEW t \in 1 .. T
      PROVE  DOMAIN tabs'[t] = DOMAIN tabs[t] /\ \A q \in DOMAIN tabs[t] : tabs[t][q].e # "unset" => tabs'[t][q] = tabs[t][q]
  <2>1. CASE t = T
    <3>1. tabs'[t] = Fill(table) /\ tabs[t] = table
      BY <1>1, <2>1 DEF table
    <3>2. \A q \in DOMAIN table : table[q].e # "unset" => Fill(table)[q] = table[q]
      BY <1>4, <1>5, <1>6
    <3> QED BY <1>5, <3>1, <3>2
  <2>2. CASE t # T
    BY <1>1, <2>2
  <2> QED BY <2>1, <2>2
<1>8. Len(tabs) \in Nat /\ Len(tabs') \in Nat /\ Len(tabs) <= Len(tabs')
  BY <1>1 DEF T
<1> QED BY <1>7, <1>8 DEF Frozen, T

(* What is found stays found; a step that leaves the running code where it *)
(* is covers no more.                                                      *)
LEMMA CoveredSame ==
  ASSUME b \in LengthLists, Ready, Codes, Covered, Frozen(tabs, tabs'), b' = b, l' = l, g' = g, y' = y,
         k' \in Nat, Number' \in Nat, Number * Shl[k'] = Number' * Shl[k]
  PROVE  Covered'
<1>1. k \in 1 .. g
  BY DEF Codes
<1>2. k \in Nat /\ g \in Nat /\ Number \in Nat
  BY <1>1, ReadyIs, NumberIs
<1> PICK K : K = k'
  OBVIOUS
<1> PICK M : M = Number'
  OBVIOUS
<1> SUFFICES ASSUME Roomy, NEW stream \in 0 .. Shl[g] - 1, Reversed[g][stream] * Shl[K] < M * Shl[g]
             PROVE  Found(stream)'
  BY ConstantsKept, MeasuresKept DEF Covered
<1> DEFINE R == Reversed[g][stream]
           A == Shl[k]
           B == Shl[K]
           C == Shl[g]
           N == Number
<1>3. R \in Nat /\ stream \in Nat
  <2>1. stream \in Nat
    OBVIOUS
  <2> QED BY <1>2, <2>1, ReversedType
<1>4. A \in Nat /\ A > 0 /\ B \in Nat /\ B > 0 /\ C \in Nat /\ C > 0 /\ N \in Nat /\ M \in Nat /\ N * B = M * A /\ R * B < M * C
  BY <1>2, ShlIs
<1> HIDE DEF R, A, B, C, N
<1>5. R * A < N * C
  <2> SUFFICES ASSUME N * C <= R * A PROVE FALSE
    <3>1. R * A \in Int /\ N * C \in Int
      BY <1>3, <1>4
    <3> QED BY <3>1
  <2>1. B * (N * C) <= B * (R * A)
    <3>1. N * C \in Int /\ R * A \in Int
      BY <1>3, <1>4
    <3> QED BY <1>4, <3>1, Monotone
  <2>2. A * ((R * B) + 1) <= A * (M * C)
    <3>1. R * B \in Int /\ M * C \in Int
      BY <1>3, <1>4
    <3>2. (R * B) + 1 <= M * C /\ (R * B) + 1 \in Int
      BY <1>4, <3>1
    <3> QED BY <1>4, <3>1, <3>2, Monotone
  <2>3. B * (N * C) = (N * B) * C /\ B * (R * A) = A * (R * B) /\ A * (M * C) = (M * A) * C
    BY <1>3, <1>4
  <2>4. A * ((R * B) + 1) = A * (R * B) + A
    <3>1. R * B \in Int
      BY <1>3, <1>4
    <3> QED BY <1>4, <3>1
  <2>5. A * (R * B) \in Int /\ (N * B) * C \in Int
    <3>1. R * B \in Int /\ N * B \in Int
      BY <1>3, <1>4
    <3> QED BY <1>4, <3>1
  <2>6. (N * B) * C = (M * A) * C
    BY <1>4
  <2> DEFINE X == (N * B) * C
             Y == A * (R * B)
  <2>7. X <= Y /\ Y + A <= X
    BY <2>1, <2>2, <2>3, <2>4, <2>6
  <2> HIDE DEF X, Y
  <2>8. X \in Int /\ Y \in Int
    BY <2>5 DEF X, Y
  <2> QED BY ONLY <1>4, <2>7, <2>8
<1>6. Found(stream)
  BY <1>5 DEF Covered, R, A, C, N
<1> QED BY <1>2, <1>6, FoundKept
-----------------------------------------------------------------------------
(* Bits taken in two goes, and bits of bits.                               *)
LEMMA DividedTwice ==
  ASSUME NEW N \in Nat, NEW n \in Nat, n > 0, NEW d \in Nat, d > 0
  PROVE  (N \div n) \div d = N \div (n * d)
<1> DEFINE q == N \div n
           r == q \div d
<1>1. q \in Nat /\ n * q <= N /\ N < n * q + n
  BY Divided
<1> HIDE DEF q
<1>2. r \in Nat /\ d * r <= q /\ q < d * r + d
  BY <1>1, Divided
<1> HIDE DEF r
<1>3. d * r \in Int /\ q + 1 \in Int /\ q + 1 <= d * r + d /\ d * r + d \in Int
  BY <1>1, <1>2
<1>4. n * (d * r) <= n * q /\ n * (q + 1) <= n * (d * r + d)
  BY <1>1, <1>2, <1>3, Monotone
<1>5. n * (q + 1) = n * q + n /\ n * (d * r + d) = n * (d * r) + n * d /\ n * (d * r) = (n * d) * r
  BY <1>1, <1>2, <1>3, Ring
<1> DEFINE m1 == n * d
           z == m1 * r
           t == n * q
<1>6. m1 \in Nat /\ m1 > 0 /\ z \in Int /\ t \in Int
  BY <1>1, <1>2
<1>7. z <= t /\ t + n <= z + m1
  BY <1>4, <1>5, Zenon
<1> HIDE DEF m1, z, t
<1>8. z <= N /\ N < z + m1
  <2>1. t <= N /\ N < t + n
    BY <1>1 DEF t
  <2> QED BY <1>6, <1>7, <2>1
<1>9. N \div m1 = r
  BY <1>2, <1>6, <1>8, DividedOnce DEF z
<1> QED BY <1>9 DEF m1, r, q

LEMMA BitsTwice ==
  ASSUME NEW N \in Nat, NEW n \in Nat, NEW d \in Nat
  PROVE  /\ (N \div Shl[n]) \div Shl[d] = N \div Shl[n + d]
         /\ (N \div Shl[n]) % Shl[d] = (N % Shl[n + d]) \div Shl[n]
         /\ N \div Shl[n] \in Nat
<1> DEFINE A == Shl[n]
           B == Shl[d]
           q == N \div A
           r == N % A
           s == q \div B
           t == q % B
<1>1. A \in Nat /\ A > 0 /\ B \in Nat /\ B > 0 /\ Shl[n + d] = A * B
  BY ShlIs, ShlSum
<1> HIDE DEF A, B
<1>2. q \in Nat /\ r \in 0 .. A - 1 /\ N = A * q + r
  BY <1>1, Divided, Remains
<1> HIDE DEF q, r
<1>3. s \in Nat /\ t \in 0 .. B - 1 /\ q = B * s + t
  BY <1>1, <1>2, Divided, Remains
<1>4. s = N \div (A * B)
  BY <1>1, DividedTwice DEF s, q
<1> HIDE DEF s, t
<1>5. A * q = (A * B) * s + A * t
  <2>1. B * s \in Int /\ t \in Int /\ A \in Int /\ s \in Int /\ B \in Int
    BY <1>1, <1>3
  <2>2. A * (B * s + t) = A * (B * s) + A * t /\ (A * B) * s = A * (B * s)
    BY <2>1, Ring
  <2> QED BY <1>3, <2>2
<1> DEFINE Z == A * B
           R == A * t + r
<1>6. Z \in Nat /\ Z > 0 /\ A * t \in Nat /\ R \in Nat /\ R < Z
  <2>1. A * (t + 1) <= A * B
    BY <1>1, <1>3, Monotone
  <2>2. A * (t + 1) = A * t + A
    BY <1>1, <1>3
  <2>3. A * t \in Nat /\ Z \in Nat /\ Z > 0
    BY <1>1, <1>3
  <2> QED BY <1>1, <1>2, <2>1, <2>2, <2>3
<1>7. N % Z = R
  <2>1. N = Z * s + R
    <3>1. Z * s \in Int
      BY <1>3, <1>6
    <3> QED BY <1>2, <1>5, <1>6, <3>1
  <2> HIDE DEF Z, R
  <2> QED BY <1>3, <1>6, <2>1, DividedIs
<1>8. R \div A = t
  BY <1>1, <1>2, <1>3, DividedIs
<1>9. (N % (A * B)) \div A = t
  BY <1>7, <1>8, Zenon DEF Z
<1>10. q \div B = N \div (A * B) /\ q % B = (N % (A * B)) \div A
  BY <1>4, <1>9, Zenon DEF s, t
<1>11. (N \div A) \div B = N \div (A * B) /\ (N \div A) % B = (N % (A * B)) \div A /\ N \div A \in Nat
  BY <1>2, <1>10, Zenon DEF q
<1> HIDE DEF s, t, q, Z, R, r
<1> QED BY <1>1, <1>11, Zenon DEF A, B

(* A stream of d bits lies among those that begin with the n bits of N.    *)
LEMMA InCode ==
  ASSUME NEW n \in Nat, NEW d \in Nat, n <= d, NEW N \in Nat, NEW stream \in 0 .. Shl[d] - 1,
         N * Shl[d] <= Reversed[d][stream] * Shl[n], Reversed[d][stream] * Shl[n] < (N + 1) * Shl[d]
  PROVE  Reversed[d][stream] \div Shl[d - n] = N /\ stream % Shl[n] = Reversed[n][N]
<1> DEFINE R == Reversed[d][stream]
           A == Shl[n]
           B == Shl[d - n]
<1>1. A \in Nat /\ A > 0 /\ B \in Nat /\ B > 0 /\ Shl[d] = A * B /\ d - n \in Nat /\ n + (d - n) = d
  BY ShlIs, ShlGrows
<1>2. R \in 0 .. Shl[d] - 1 /\ Reversed[d][R] = stream /\ R \in Nat
  BY ReversedTwice
<1>3. R \div B = N
  <2>1. N * (A * B) <= R * A /\ R * A < (N + 1) * (A * B)
    BY <1>1
  <2> HIDE DEF R, A, B
  <2>2. N * (A * B) = (N * B) * A /\ (N + 1) * (A * B) = ((N + 1) * B) * A /\ N * B \in Nat /\ (N + 1) * B \in Nat
    BY <1>1
  <2>3. N * B <= R
    BY <1>1, <1>2, <2>1, <2>2, Scaled
  <2>4. ~((N + 1) * B <= R)
    <3>1. R * A \in Int /\ ((N + 1) * B) * A \in Int
      BY <1>1, <1>2, <2>2
    <3>2. ~(((N + 1) * B) * A <= R * A)
      BY <2>1, <2>2, <3>1
    <3> QED BY <1>1, <1>2, <2>2, <3>2, Scaled
  <2>5. B * N <= R /\ R < B * N + B
    <3>1. (N + 1) * B = B * N + B /\ N * B = B * N /\ B * N \in Int
      BY <1>1
    <3> QED BY <1>1, <1>2, <2>3, <2>4, <3>1
  <2> QED BY <1>1, <1>2, <2>5, DividedOnce
<1>4. Reversed[n + (d - n)][R] % Shl[n] = Reversed[n][R \div Shl[d - n]]
  <2> HIDE DEF R
  <2> PICK r : r = d - n
    OBVIOUS
  <2>1. n \in Nat /\ r \in Nat /\ R \in Nat
    BY <1>1, <1>2
  <2>2. Reversed[n + r][R] % Shl[n] = Reversed[n][R \div Shl[r]]
    <3>1. Taken(n, r, R)
      BY ONLY <2>1, TakenApart
    <3> QED BY ONLY <3>1, Zenon DEF Taken
  <2> QED BY <2>2
<1> QED BY <1>1, <1>2, <1>3, <1>4
-----------------------------------------------------------------------------
(* A walk down a stack of H tables linked by l bits each.                  *)
At(U, H, B, stream, j) ==
  [t |-> U[j], bits |-> IF j < H THEN l ELSE B, rest |-> stream \div Shl[l * j], used |-> l * j]

LEMMA Walk ==
  ASSUME l \in Nat, NEW H \in Nat, NEW T, NEW U, NEW B, NEW stream \in Nat, U[0] = 1, H = 0 => B = l,
         \A j \in 0 .. H - 1 : PlaceIn(T, At(U, H, B, stream, j)) = Link(U[j + 1], IF j + 1 < H THEN l ELSE B),
         PlaceIn(T, At(U, H, B, stream, H)).e # "table",
         NEW F, F = [j \in Nat |-> At(U, H, B, stream, IF j <= H THEN j ELSE H)]
  PROVE  Trace(F, T, stream)
<1> DEFINE A(j) == At(U, H, B, stream, j)
<1>1. A(0) = [t |-> 1, bits |-> l, rest |-> stream, used |-> 0]
  <2>1. l * 0 = 0 /\ Shl[0] = 1
    BY ShlIs
  <2>2. stream \div 1 = stream
    OBVIOUS
  <2> QED BY <2>1, <2>2 DEF At
<1>2. ASSUME NEW j \in 0 .. H - 1 PROVE FollowIn(T, A(j)) = A(j + 1)
  <2>1. PlaceIn(T, A(j)) = Link(U[j + 1], IF j + 1 < H THEN l ELSE B)
    OBVIOUS
  <2> DEFINE n == l * j
             e == Link(U[j + 1], IF j + 1 < H THEN l ELSE B)
  <2>2. e.e = "table" /\ e.v = U[j + 1] /\ e.next = (IF j + 1 < H THEN l ELSE B) /\ e.b = l
    BY DEF Link
  <2>3. A(j).rest = stream \div Shl[n] /\ A(j).used = n
    BY DEF At
  <2>4. A(j + 1) = [t |-> U[j + 1], bits |-> IF j + 1 < H THEN l ELSE B, rest |-> stream \div Shl[l * (j + 1)], used |-> l * (j + 1)]
    BY DEF At
  <2>5. n \in Nat /\ l * (j + 1) = n + l
    OBVIOUS
  <2> HIDE DEF n, e, A
  <2>6. (stream \div Shl[n]) \div Shl[l] = stream \div Shl[n + l]
    BY <2>5, BitsTwice
  <2>7. FollowIn(T, A(j)) = [t |-> e.v, bits |-> e.next, rest |-> A(j).rest \div Shl[e.b], used |-> A(j).used + e.b]
    BY <2>1, <2>2, Zenon DEF FollowIn, e
  <2> QED BY ONLY <2>2, <2>3, <2>4, <2>5, <2>6, <2>7
<1>3. FollowIn(T, A(H)) = A(H)
  BY DEF FollowIn
<1> HIDE DEF A
<1>4. \A j \in Nat : F[j] = A(IF j <= H THEN j ELSE H)
  BY DEF A
<1>5. ASSUME NEW j \in Nat, j # 0 PROVE F[j] = FollowIn(T, F[j - 1])
  <2>1. j - 1 \in Nat
    BY <1>5
  <2>2. CASE j <= H
    <3>1. j - 1 \in 0 .. H - 1 /\ (j - 1) + 1 = j /\ j - 1 <= H
      BY <1>5, <2>2
    <3> QED BY <1>2, <1>4, <2>1, <2>2, <3>1
  <2>3. CASE ~(j <= H)
    <3>1. F[j] = A(H) /\ F[j - 1] = A(H)
      <4>1. IF j - 1 <= H THEN j - 1 = H ELSE TRUE
        BY <2>1, <2>3
      <4> QED BY <1>4, <2>1, <2>3, <4>1
    <3> QED BY <1>3, <3>1
  <2> QED BY <2>2, <2>3
<1>6. F = [j \in Nat |-> IF j = 0 THEN [t |-> 1, bits |-> l, rest |-> stream, used |-> 0] ELSE FollowIn(T, F[j - 1])]
  <2>1. F = [j \in Nat |-> F[j]]
    BY DEF A
  <2>2. F[0] = A(0)
    BY <1>4
  <2> QED BY <1>1, <1>5, <2>1, <2>2
<1> QED BY <1>6, Zenon DEF Trace

(* The first table has all the bits of the lookups.                        *)
LEMMA RootWide ==
  ASSUME b \in LengthLists, Ready, x[0] = 0, NEW J \in Nat, TableAt(0, J)
  PROVE  J >= l
<1>1. g \in 1 .. g
  <2>1. g \in Nat /\ g > 0
    BY Extremes DEF Ready
  <2> QED BY <2>1
<1>2. g \in Nat /\ g > 0 /\ l \in Nat /\ l <= g /\ g = Longest
  BY <1>1, ReadyIs DEF Ready
<1>3. J > 0 /\ (J >= l \/ J >= g \/ End(J) >= Shl[J])
  <2>1. Sized(l * 0, Prefix(0), J) /\ J > 0
    BY DEF TableAt
  <2>2. l * 0 = 0 /\ Prefix(0) = 0
    <3>1. l * 0 = 0
      BY <1>2
    <3>2. Reversed[0][0] = 0
      BY ReversedIs
    <3> QED BY <3>1, <3>2 DEF Prefix
  <2>3. g - 0 = g /\ 0 + J = J /\ Shl[J] * (0 + 1) = Shl[J]
    BY <1>2, ShlIs
  <2> QED BY <2>1, <2>2, <2>3 DEF Sized
<1>4. ASSUME J < g, End(J) >= Shl[J] PROVE FALSE
  <2> DEFINE d == g - J
             A == Shl[J]
             B == Shl[d]
  <2>1. d \in Nat /\ d > 0 /\ J + d = g
    BY <1>2, <1>4
  <2> HIDE DEF d
  <2>2. B * End(J) <= FirstCode[g] /\ FirstCode[g] \in Nat /\ End(J) \in Nat
    BY <1>3, <2>1, BeginsBehind
  <2>3. End(g) <= Shl[g] /\ Cardinal(g) > 0 /\ Cardinal(g) \in Nat
    <3>1. End(g) <= Shl[g]
      BY <1>2, Fits DEF Ready
    <3>2. Cardinal(g) > 0
      BY <1>2, Extremes DEF Ready
    <3>3. Cardinal(g) \in Nat
      BY <1>2, CardinalIs
    <3> QED BY <3>1, <3>2, <3>3
  <2>4. Shl[g] = B * A /\ A \in Nat /\ B \in Nat /\ Shl[g] \in Nat
    <3>1. Shl[d + J] = Shl[d] * Shl[J] /\ d + J = g
      BY ONLY <2>1, <1>2, J \in Nat, ShlSum
    <3> QED BY <1>2, <2>1, <3>1, ShlIs
  <2>5. B * A <= B * End(J)
    BY <1>4, <2>2, <2>4, Monotone
  <2>6. FirstCode[g] + Cardinal(g) <= Shl[g]
    BY <2>3 DEF End
  <2>7. B * A \in Int /\ B * End(J) \in Int
    BY <2>2, <2>4
  <2> HIDE DEF A, B
  <2> QED BY <2>2, <2>3, <2>4, <2>5, <2>6, <2>7
<1> QED BY <1>2, <1>3, <1>4
-----------------------------------------------------------------------------
(* The entry for the running code is what its streams are to end at: the   *)
(* symbol's, or a dummy's behind the last code of the longest.             *)
LEMMA EntryEnds ==
  ASSUME b \in LengthLists, Ready, Codes, pc = "tables", w \in Nat, w < k, NEW stream \in 0 .. Shl[g] - 1,
         stream % Shl[k] = Reversed[k][Number], Reversed[g][stream] \div Shl[g - k] = Number
  PROVE  Ends(Entry, w, stream) /\ Entry.e # "unset" /\ Entry.e # "table"
<1> DEFINE n == Cardinality(Symbols)
           R == Reversed[g][stream]
<1>1. k \in 1 .. g
  BY DEF Codes
<1>2. /\ k \in Nat /\ k > 0 /\ g \in Nat /\ k <= g /\ Passed \in Nat /\ Passed < c[k] /\ Entered = Below(k) + Passed
      /\ Entered \in Nat /\ Number = FirstCode[k] + Passed /\ Below(k) \in Nat /\ Cardinal(k) \in Nat
      /\ (k < g => c[k] = Cardinal(k)) /\ v = Sorted /\ g = Longest /\ FirstCode[k] \in Nat /\ Number \in Nat
  <2>1. v = Sorted /\ g = Longest /\ Number = FirstCode[k] + Passed
    BY DEF Ready, Number
  <2> QED BY <1>1, <2>1, NumberIs, ReadyIs
<1>3. n \in Nat /\ Cardinality(Used) <= n /\ Cardinality(Used) \in Nat
  BY Lengths
<1>4. p = IF Entered < n THEN Entered ELSE n
  BY DEF Codes
<1>5. Entry = IF p < n THEN [e |-> "code", b |-> k - w, v |-> v[p], next |-> 0]
              ELSE [e |-> "unused", b |-> k - w, v |-> Garbage, next |-> 0]
  BY DEF Entry
<1>6. Entry.e \in {"code", "unused"} /\ DOMAIN Entry = {"e", "b", "v", "next"} /\ Entry.b = k - w
  BY <1>5
<1>7. Entry.e # "unset" /\ Entry.e # "table"
  BY <1>6
<1> HIDE DEF n, R
<1>8. CASE Passed < Cardinal(k)
  <2> DEFINE q == Below(k) + Passed
  <2>1. q \in Nat /\ q < Cardinality(Used) /\ Sorted[q] \in Used /\ b[Sorted[q]] = k /\ CodeOf(Sorted[q]) = FirstCode[k] + Passed
    BY <1>2, <1>8, SortedAt
  <2>2. p = q /\ p < n
    BY <1>2, <1>3, <1>4, <2>1
  <2>3. Entry.e = "code" /\ Entry.v = Sorted[q]
    BY <1>2, <1>5, <2>2
  <2>4. BeginsWith(stream, Sorted[q])
    BY <1>2, <2>1 DEF BeginsWith
  <2>5. Entry.b + w = k
    BY <1>2, <1>6
  <2> QED BY <1>6, <1>7, <2>1, <2>3, <2>4, <2>5 DEF Ends
<1>9. CASE ~(Passed < Cardinal(k))
  <2>1. k = g
    BY <1>2, <1>9
  <2>2. R = Number
    <3>1. R \in Nat
      BY <1>2, ReversedType DEF R
    <3>2. g - g = 0 /\ Shl[0] = 1 /\ R \div 1 = R
      BY <1>2, <3>1, ShlIs
    <3> QED BY <2>1, <3>2 DEF R
  <2>3. R >= End(g)
    BY <1>2, <1>9, <2>1, <2>2 DEF End
  <2>4. ASSUME Used = Symbols PROVE Entry.e = "unused"
    <3>1. Below(k + 1) = Cardinality(Used) /\ Below(k + 1) = Below(k) + Cardinal(k)
      BY <1>2, <2>1, Extremes, CardinalIs DEF Ready
    <3>2. Entered >= n
      BY <1>2, <1>9, <2>4, <3>1 DEF n
    <3>3. ~(p < n)
      BY <1>2, <1>3, <1>4, <3>2
    <3> QED BY <1>5, <3>3
  <2> QED BY <1>6, <1>7, <2>3, <2>4 DEF Ends, R
<1> QED BY <1>7, <1>8, <1>9

(* From a table of the stack the lookup leads to the next one: none of     *)
(* those between the first and the last has more than l bits.              *)
LEMMA StackStep ==
  ASSUME b \in LengthLists, Ready, Codes, Levels, Stacked, pc = "tables", k <= w + l, Roomy, NEW J \in Nat, TableAt(h, J),
         NEW B, h > 0 => B = J, NEW stream \in Nat, stream % Shl[k] = i, NEW j \in 0 .. h - 1
  PROVE  PlaceIn(tabs, At(u, h, B, stream, j)) = Link(u[j + 1], IF j + 1 < h THEN l ELSE B) /\ u[j] < Len(tabs)
<1>1. /\ h \in Nat /\ h \in 0 .. h /\ w = l * h /\ w \in Nat /\ u[h] = Len(tabs) /\ Number < Shl[k] /\ k \in Nat /\ l \in Nat
  BY OpenTop
<1>2. j \in Nat /\ j < h /\ j \in 0 .. h /\ j + 1 \in 0 .. h /\ j + 1 > 0 /\ (j + 1) - 1 = j /\ h > 0
  BY <1>1
<1>3. u[j] < u[h]
  BY <1>1, <1>2 DEF Stacked
<1>4. k <= g /\ g \in Nat /\ l > 0
  <2>1. k \in 1 .. g
    BY DEF Codes
  <2> QED BY <2>1, ReadyIs
<1>5. pc \in {"codes", "tables"}
  OBVIOUS
<1>6. ASSUME NEW e \in 0 .. h - 1, NEW E \in Nat, TableAt(e, E)
      PROVE  E >= l /\ l * e \in Nat /\ l * (e + 1) = l * e + l /\ l * (e + 1) <= w
  <2>1. e \in Nat /\ e \in 0 .. h /\ e + 1 \in 0 .. h
    BY <1>1
  <2>2. (E >= l \/ E >= k - l * e) /\ l * e \in Nat
    BY <1>1, <1>5, <1>6, <2>1, LevelWide
  <2>3. l * (e + 1) = l * e + l
    BY <1>1, <2>1, Ring
  <2>4. l * (e + 1) <= w
    <3>1. h >= 0
      BY <1>1
    <3> QED BY <1>1, <2>1, <3>1, LevelOf
  <2> DEFINE n == l * e
  <2>5. n \in Nat /\ (E >= l \/ E >= k - n) /\ n + l <= w /\ w < k
    BY <2>2, <2>3, <2>4 DEF Levels
  <2> HIDE DEF n
  <2>6. E >= l
    BY <1>1, <1>6, <2>5
  <2> QED BY <2>2, <2>3, <2>4, <2>6
<1>7. PICK E \in Nat : TableAt(j, E)
  BY <1>2 DEF Stacked
<1>8. E >= l /\ l * j \in Nat /\ l * (j + 1) = l * j + l /\ l * (j + 1) <= w
  BY <1>6, <1>7
<1>9. PICK E1 \in Nat : TableAt(j + 1, E1) /\ E1 = (IF j + 1 < h THEN l ELSE B)
  <2>1. CASE j + 1 < h
    <3>1. PICK E1 \in Nat : TableAt(j + 1, E1)
      BY <1>2 DEF Stacked
    <3>2. j + 1 \in 0 .. h - 1
      BY <1>1, <1>2, <2>1
    <3>3. E1 >= l /\ l * ((j + 1) + 1) = l * (j + 1) + l /\ l * ((j + 1) + 1) <= w
      BY <1>6, <3>1, <3>2
    <3>4. g > 2 * l
      <4> DEFINE n == l * j
      <4>1. n \in Nat /\ (n + l) + l <= w /\ w < k
        BY <1>8, <3>3 DEF Levels
      <4> HIDE DEF n
      <4> QED BY <1>1, <1>4, <4>1
    <3>5. E1 <= l
      BY <1>2, <3>1, <3>4 DEF TableAt
    <3>6. E1 = l
      BY <1>1, <3>3, <3>5
    <3> QED BY <2>1, <3>1, <3>6
  <2>2. CASE ~(j + 1 < h)
    <3>1. j + 1 = h /\ h > 0
      BY <1>1, <1>2, <2>2
    <3> QED BY <2>2, <3>1
  <2> QED BY <2>1, <2>2
<1>10. tabs[u[j]][x[j + 1] \div Shl[l * j]] = Link(u[j + 1], E1)
  BY <1>2, <1>9 DEF TableAt
<1>11. stream % Shl[l * (j + 1)] = x[j + 1]
  <2>1. i % Shl[l * (j + 1)] = x[j + 1]
    BY <1>1, <1>2, <1>5, <1>9, LevelWide
  <2> DEFINE d == l * (j + 1)
  <2>2. d \in Nat /\ d <= k
    <3>1. l * j + l \in Nat /\ l * (j + 1) <= w /\ w < k
      BY <1>1, <1>8 DEF Levels
    <3> QED BY <1>1, <1>8, <3>1
  <2> HIDE DEF d
  <2>3. (stream % Shl[k]) % Shl[d] = stream % Shl[d]
    BY <1>1, <2>2, ModMod
  <2>4. i % Shl[d] = stream % Shl[d]
    BY <2>3
  <2> QED BY <2>1, <2>4 DEF d
<1> DEFINE n == l * j
           q == x[j + 1] \div Shl[n]
           f == At(u, h, B, stream, j)
<1>12. f.t = u[j] /\ f.bits = l /\ f.rest = stream \div Shl[n]
  BY <1>2 DEF At
<1>13. (stream \div Shl[n]) % Shl[l] = q /\ stream \div Shl[n] \in Nat
  <2>1. n \in Nat /\ l * (j + 1) = n + l
    BY <1>8
  <2>2. (stream \div Shl[n]) % Shl[l] = (stream % Shl[n + l]) \div Shl[n] /\ stream \div Shl[n] \in Nat
    BY ONLY <1>1, <2>1, stream \in Nat, BitsTwice
  <2>3. stream % Shl[n + l] = x[j + 1]
    BY <1>11, <2>1
  <2> QED BY <2>2, <2>3, Zenon
<1>14. DOMAIN tabs[u[j]] = 0 .. Shl[E] - 1 /\ tabs[u[j]][q] = Link(u[j + 1], E1)
  BY <1>7, <1>10 DEF TableAt
<1> HIDE DEF f, q, n
<1>15. q \in 0 .. Shl[E] - 1
  <2>1. Shl[l] <= Shl[E] /\ Shl[l] \in Nat /\ Shl[l] > 0 /\ Shl[E] \in Nat
    BY <1>1, <1>8, ShlGrows, ShlIs
  <2> PICK r \in Nat : r = stream \div Shl[n]
    BY <1>13
  <2>2. r % Shl[l] = q
    BY <1>13
  <2>3. r % Shl[l] \in 0 .. Shl[l] - 1
    BY <2>1, Remains
  <2> QED BY <2>1, <2>2, <2>3
<1>16. f.rest % Shl[f.bits] = q
  BY <1>12, <1>13
<1>17. PlaceIn(tabs, f) = Link(u[j + 1], E1)
  BY <1>12, <1>14, <1>15, <1>16 DEF PlaceIn
<1> QED BY <1>1, <1>3, <1>9, <1>17 DEF f
-----------------------------------------------------------------------------
(* The streams that begin with the code just entered are found.            *)
LEMMA NewlyFound ==
  ASSUME b \in LengthLists, Ready, Codes, Levels, Stacked, FillIn, Roomy, NEW stream \in 0 .. Shl[g] - 1,
         Number * Shl[g] <= Reversed[g][stream] * Shl[k], Reversed[g][stream] * Shl[k] < (Number + 1) * Shl[g]
  PROVE  Found(stream)'
<1>1. /\ Len(tabs) \in Nat /\ Len(tabs') = Len(tabs) /\ k <= w + l /\ pc = "tables" /\ b' = b /\ g' = g /\ l' = l
      /\ \A t \in 1 .. Len(tabs) : tabs'[t] = IF t = Len(tabs) THEN Fill(tabs[t]) ELSE tabs[t]
  BY FillInIs
<1>2. /\ h \in Nat /\ h \in 0 .. h /\ w \in Nat /\ k - w \in Nat /\ w + (k - w) = k /\ u[h] = Len(tabs) /\ k \in Nat /\ l \in Nat
      /\ Number \in Nat /\ i = Reversed[w + (k - w)][Number] /\ w = l * h
  BY <1>1, OpenTop
<1>3. PICK J \in Nat : TableAt(h, J) /\ k - w <= J /\ DOMAIN tabs[u[h]] = 0 .. Shl[J] - 1
  BY <1>1, OpenTop
<1>4. g \in Nat /\ k <= g /\ l > 0 /\ k > 0
  <2>1. k \in 1 .. g
    BY DEF Codes
  <2> QED BY <2>1, ReadyIs
<1>5. Reversed[g][stream] \div Shl[g - k] = Number /\ stream % Shl[k] = Reversed[k][Number]
  BY <1>2, <1>4, InCode
<1>6. stream % Shl[k] = i /\ stream \in Nat
  BY <1>2, <1>5
<1>7. w < k
  BY DEF Levels
<1>8. Ends(Entry, w, stream) /\ Entry.e # "unset" /\ Entry.e # "table"
  BY <1>1, <1>2, <1>5, <1>7, EntryEnds
<1> DEFINE B == IF h = 0 THEN l ELSE J
<1>9. B \in Nat /\ B <= J /\ k - w <= B /\ (h > 0 => B = J) /\ (h = 0 => B = l)
  <2>1. CASE h = 0
    <3>1. J >= l
      BY <1>3, <2>1, RootWide DEF Levels
    <3> QED BY <1>1, <1>2, <2>1, <3>1
  <2>2. CASE h # 0
    BY <1>3, <2>2
  <2> QED BY <2>1, <2>2
<1> HIDE DEF B
<1>10. \A j \in 0 .. h : u[j] \in 1 .. Len(tabs)
  BY DEF Levels
<1>11. u[0] = 1
  <2>1. h >= 0
    BY <1>2
  <2> QED BY <2>1 DEF Stacked
<1> DEFINE A(j) == At(u, h, B, stream, j)
<1>12. ASSUME NEW j \in 0 .. h - 1
       PROVE  PlaceIn(tabs', A(j)) = Link(u[j + 1], IF j + 1 < h THEN l ELSE B)
  <2>1. PlaceIn(tabs, A(j)) = Link(u[j + 1], IF j + 1 < h THEN l ELSE B) /\ u[j] < Len(tabs)
    BY <1>1, <1>3, <1>6, <1>9, StackStep
  <2>2. A(j).t = u[j]
    BY DEF At
  <2>3. tabs'[u[j]] = tabs[u[j]]
    <3>1. j \in 0 .. h
      BY <1>2
    <3> QED BY <1>1, <1>10, <2>1, <3>1
  <2> QED BY <2>1, <2>2, <2>3 DEF PlaceIn
<1>13. PlaceIn(tabs', A(h)) = Entry
  <2> DEFINE r == stream \div Shl[w]
             d == k - w
             q == r % Shl[B]
             table == tabs[u[h]]
  <2>1. A(h).t = u[h] /\ A(h).bits = B /\ A(h).rest = r
    BY <1>2 DEF At
  <2>2. tabs'[u[h]] = Fill(table)
    BY <1>1, <1>2, <1>10
  <2>3. r \in Nat /\ r % Shl[d] = i \div Shl[w]
    <3>1. w \in Nat /\ d \in Nat /\ stream \in Nat /\ w + d = k
      BY <1>2, <1>6
    <3> HIDE DEF d, r
    <3>2. (stream \div Shl[w]) % Shl[d] = (stream % Shl[w + d]) \div Shl[w] /\ stream \div Shl[w] \in Nat
      BY ONLY <3>1, BitsTwice
    <3>3. (stream \div Shl[w]) % Shl[d] = i \div Shl[w]
      BY <1>6, <3>1, <3>2
    <3> QED BY <3>2, <3>3 DEF r
  <2> HIDE DEF r
  <2>4. d \in Nat /\ d <= B
    BY <1>2, <1>9
  <2> HIDE DEF d
  <2>5. q % Shl[d] = i \div Shl[w]
    BY <1>9, <2>3, <2>4, ModMod
  <2>6. q \in 0 .. Shl[J] - 1
    <3>1. Shl[B] <= Shl[J] /\ Shl[B] \in Nat /\ Shl[B] > 0 /\ Shl[J] \in Nat
      BY <1>9, ShlGrows, ShlIs
    <3>2. q \in 0 .. Shl[B] - 1
      BY <2>3, <3>1, Remains
    <3> QED BY <3>1, <3>2
  <2>7. q \in DOMAIN table
    BY <1>3, <2>6
  <2> HIDE DEF q, table
  <2>8. DOMAIN Fill(table) = DOMAIN table /\ Fill(table)[q] = Entry
    BY <2>5, <2>7 DEF Fill, d
  <2>9. A(h).rest % Shl[A(h).bits] = q
    BY <2>1 DEF q
  <2> HIDE DEF A
  <2> QED BY <2>1, <2>2, <2>7, <2>8, <2>9 DEF PlaceIn
<1> DEFINE F == [j \in Nat |-> At(u, h, B, stream, IF j <= h THEN j ELSE h)]
<1>14. Trace(F, tabs', stream)
  <2> DEFINE T == tabs'
             G == F
  <2>1. l \in Nat /\ h \in Nat /\ stream \in Nat /\ u[0] = 1 /\ (h = 0 => B = l)
    BY <1>2, <1>6, <1>9, <1>11
  <2>2. \A j \in 0 .. h - 1 : PlaceIn(T, At(u, h, B, stream, j)) = Link(u[j + 1], IF j + 1 < h THEN l ELSE B)
    BY <1>12
  <2>3. PlaceIn(T, At(u, h, B, stream, h)).e # "table"
    BY <1>8, <1>13
  <2>4. G = [j \in Nat |-> At(u, h, B, stream, IF j <= h THEN j ELSE h)]
    OBVIOUS
  <2> HIDE DEF T, G
  <2>5. Trace(G, T, stream)
    BY ONLY <2>1, <2>2, <2>3, <2>4, Walk
  <2> QED BY <2>5 DEF T, G
<1>15. \A j \in Nat : F[j] = A(IF j <= h THEN j ELSE h)
  OBVIOUS
<1> HIDE DEF F
<1>16. ASSUME NEW j \in Nat PROVE F[j].t \in 1 .. Len(tabs') /\ PlaceIn(tabs', F[j]).e # "unset"
  <2> PICK n : n = IF j <= h THEN j ELSE h
    OBVIOUS
  <2>1. n \in 0 .. h /\ (n # h => n \in 0 .. h - 1)
    BY <1>2
  <2>2. F[j] = A(n)
    BY <1>15
  <2>3. A(n).t = u[n]
    BY DEF At
  <2>4. PlaceIn(tabs', A(n)).e # "unset"
    <3>1. CASE n = h
      BY <1>8, <1>13, <3>1
    <3>2. CASE n # h
      <4>1. PlaceIn(tabs', A(n)) = Link(u[n + 1], IF n + 1 < h THEN l ELSE B)
        BY <1>12, <2>1, <3>2
      <4> QED BY <4>1 DEF Link
    <3> QED BY <3>1, <3>2
  <2> HIDE DEF A
  <2> QED BY <1>1, <1>10, <2>1, <2>2, <2>3, <2>4
<1>17. Ends(PlaceIn(tabs', F[g]), F[g].used, stream)
  <2>1. h <= g
    <3>1. l * h < k
      BY <1>2, <1>7
    <3>2. h <= l * h
      <4>1. l >= 1
        BY <1>2, <1>4
      <4>2. h * 1 <= h * l
        BY <1>2, <4>1, Monotone
      <4> QED BY <1>2, <4>2
    <3>3. l * h \in Nat
      BY <1>2
    <3> QED BY <1>2, <1>4, <3>1, <3>2, <3>3
  <2>2. F[g] = A(h)
    <3>1. IF g <= h THEN g = h ELSE TRUE
      BY <1>2, <1>4, <2>1
    <3> QED BY <1>4, <1>15, <3>1
  <2>3. A(h).used = w
    BY <1>2 DEF At
  <2> QED BY <1>8, <1>13, <2>2, <2>3
<1> QED BY <1>1, <1>14, <1>16, <1>17, FoundWith

LEMMA CoveredFillIn ==
  ASSUME b \in LengthLists, Ready, Codes, Levels, Stacked, Covered, FillIn
  PROVE  Covered'
<1>1. Number' = Number + 1 /\ b' = b /\ g' = g /\ l' = l /\ y' = y /\ k' = k
  BY FillInIs
<1>2. g \in Nat /\ Number \in Nat /\ k \in Nat
  <2>1. k \in 1 .. g
    BY DEF Codes
  <2> QED BY <2>1, ReadyIs, NumberIs
<1> SUFFICES ASSUME Roomy, NEW stream \in 0 .. Shl[g] - 1, Reversed[g][stream] * Shl[k] < (Number + 1) * Shl[g]
             PROVE  Found(stream)'
  BY <1>1, ConstantsKept, MeasuresKept DEF Covered
<1>3. CASE Reversed[g][stream] * Shl[k] < Number * Shl[g]
  <2>1. Found(stream)
    BY <1>3 DEF Covered
  <2> QED BY <1>1, <1>2, <2>1, FrozenFillIn, FoundKept
<1>4. CASE ~(Reversed[g][stream] * Shl[k] < Number * Shl[g])
  <2> DEFINE A == Reversed[g][stream] * Shl[k]
             C == Number * Shl[g]
  <2>1. A \in Int /\ C \in Int
    <3>1. stream \in Nat
      OBVIOUS
    <3> QED BY <1>2, <3>1, ReversedType
  <2> HIDE DEF A, C
  <2>2. C <= A
    BY <1>4, <2>1 DEF A, C
  <2> QED BY <2>2, NewlyFound DEF A, C
<1> QED BY <1>3, <1>4
-----------------------------------------------------------------------------
CoverInv == Ready => Covered

(* huft_build() calls a set with dummies a success only if it is one code  *)
(* of one bit.                                                             *)
RetInv == pc = "done" /\ tabs # <<>> /\ ret = 0 => y = 0 \/ g = 1

LEMMA CoveredPrepare ==
  ASSUME b \in LengthLists, Prepare
  PROVE  Covered'
<1>1. /\ Used # {} /\ Spare >= 0 /\ g' = Longest /\ k' = Shortest /\ y' = Spare /\ b' = b /\ pc' = "codes" /\ a' = c'[k']
      /\ c' = [len \in 0 .. BMAX |-> IF len = g' THEN Cardinal(len) + y' ELSE Cardinal(len)]
  BY DEF Prepare
<1>2. /\ Shortest \in 0 .. BMAX /\ Shortest \in Nat /\ Longest \in Nat /\ Longest > 0 /\ BMAX \in Nat /\ Cardinal(Shortest) \in Nat
  <2>1. Shortest \in 1 .. BMAX /\ Longest \in 1 .. BMAX /\ Shortest \in Nat /\ Longest \in Nat /\ BMAX \in Nat
    BY <1>1, Extremes, Lengths
  <2> QED BY <2>1, CardinalIs
<1>3. Spare \in Nat
  BY <1>1, <1>2, Fits
<1>4. c'[k'] \in Int
  BY <1>1, <1>2, <1>3
<1>5. Pending' = a'
  BY <1>1 DEF Pending
<1>6. Passed' = 0
  <2> PICK z : z = c'[k']
    OBVIOUS
  <2>1. Passed' = z - z
    BY <1>1, <1>5 DEF Passed
  <2> QED BY <1>4, <2>1
<1>7. Number' = 0
  <2>1. FirstCode' = FirstCode
    BY <1>1, Kept
  <2>2. Number' = FirstCode[Shortest] + 0
    BY <1>1, <1>6, <2>1 DEF Number
  <2> QED BY <1>1, <2>2, FirstIsZero
<1> SUFFICES ASSUME NEW stream \in 0 .. Shl[Longest] - 1, Reversed[Longest][stream] * Shl[Shortest] < 0 * Shl[Longest]
             PROVE  FALSE
  BY <1>1, <1>7, ConstantsKept DEF Covered
<1> DEFINE A == Reversed[Longest][stream]
           B == Shl[Shortest]
           C == Shl[Longest]
<1>8. A \in Nat /\ B \in Nat /\ C \in Nat
  <2>1. stream \in Nat
    OBVIOUS
  <2> QED BY <1>2, <2>1, ReversedType, ShlIs
<1>9. A * B < 0 * C
  OBVIOUS
<1> HIDE DEF A, B, C
<1>10. A * B \in Nat /\ 0 * C = 0
  BY <1>8
<1> QED BY <1>9, <1>10

LEMMA CoverNext ==
  ASSUME CodesInv, StackInv, CoverInv, [Next]_vars
  PROVE  CoverInv'
<1> SUFFICES ASSUME Ready' PROVE Covered'
  BY DEF CoverInv
<1>1. b \in LengthLists /\ (Idle \/ (Ready /\ Codes /\ Levels))
  BY DEF CodesInv
<1>2. CASE Idle
  <2>1. Prepare \/ (l' = l /\ g' = g)
    BY <1>2 DEF Idle, Next, vars, NullInput, Oversubscribed, NextLength, NextCode, Finish, NewTable, FillIn, BackUp, BackedUp, Returned
  <2>2. ~(l' = l /\ g' = g)
    <3>1. l' \in 1 .. g'
      BY DEF Ready
    <3> QED BY <1>2, <3>1 DEF Idle
  <2> QED BY <1>1, <2>1, <2>2, CoveredPrepare
<1>3. CASE Ready /\ Codes /\ Levels
  <2>1. Stacked /\ Covered
    BY <1>3 DEF StackInv, CoverInv
  <2>2. NextLength \/ NextCode \/ BackedUp \/ Finish \/ UNCHANGED vars \/ NewTable \/ FillIn \/ BackUp
    BY <1>3 DEF Next, Codes, NullInput, Oversubscribed, Prepare, Returned
  <2>3. k \in Nat /\ Number \in Nat
    <3>1. k \in 1 .. g
      BY <1>3 DEF Codes
    <3> QED BY <1>1, <1>3, <3>1, ReadyIs, NumberIs
  <2>4. ASSUME tabs' = tabs PROVE Frozen(tabs, tabs')
    <3>1. PICK S : tabs \in Seq(S)
      BY <1>3 DEF Levels, Listed
    <3>2. Len(tabs) \in Nat
      BY <3>1
    <3> QED BY <2>4, <3>2 DEF Frozen
  <2>5. CASE NextLength \/ NextCode \/ BackedUp \/ Finish \/ UNCHANGED vars
    <3>1. b' = b /\ l' = l /\ g' = g /\ y' = y /\ tabs' = tabs
      BY <2>5 DEF vars, NextLength, NextCode, BackedUp, Finish
    <3>2. k' \in Nat /\ Number' \in Nat /\ Number * Shl[k'] = Number' * Shl[k]
      BY <1>1, <1>3, <2>1, <2>5, StackedRelabelled
    <3> QED BY <1>1, <1>3, <2>1, <2>4, <3>1, <3>2, CoveredSame
  <2>6. CASE NewTable
    <3>1. b' = b /\ l' = l /\ g' = g /\ y' = y /\ k' = k /\ c' = c /\ a' = a /\ pc' = pc
      BY <1>1, <1>3, <2>6, NewTableIs
    <3>2. Number' = Number
      <4>1. Pending' = Pending
        BY <3>1 DEF Pending
      <4> QED BY <1>1, <1>3, <3>1, <4>1, CodesRelabelled
    <3> QED BY <1>1, <1>3, <2>1, <2>3, <2>6, <3>1, <3>2, FrozenNewTable, CoveredSame
  <2>7. CASE FillIn
    BY <1>1, <1>3, <2>1, <2>7, CoveredFillIn
  <2>8. CASE BackUp
    <3>1. b' = b /\ l' = l /\ g' = g /\ y' = y /\ k' = k /\ tabs' = tabs /\ Number' = Number
      BY <1>1, <1>3, <2>8, BackUpIs
    <3> QED BY <1>1, <1>3, <2>1, <2>3, <2>4, <3>1, CoveredSame
  <2> QED BY <2>2, <2>5, <2>6, <2>7, <2>8
<1> QED BY <1>1, <1>2, <1>3

LEMMA RetNext ==
  ASSUME CodesInv, RetInv, [Next]_vars
  PROVE  RetInv'
<1>1. pc = "count" => tabs = <<>>
  BY DEF CodesInv, Idle, Codes
<1>2. CASE NullInput \/ Oversubscribed
  BY <1>1, <1>2 DEF NullInput, Oversubscribed, RetInv
<1>3. CASE Prepare \/ NextLength \/ NextCode \/ BackedUp \/ FillIn
  <2>1. pc' # "done"
    BY <1>3 DEF Prepare, NextLength, NextCode, BackedUp, FillIn
  <2> QED BY <2>1 DEF RetInv
<1>4. CASE NewTable \/ BackUp
  <2>1. pc' # "done"
    BY <1>4 DEF NewTable, BackUp
  <2> QED BY <2>1 DEF RetInv
<1>5. CASE Finish
  BY <1>5 DEF Finish, RetInv
<1>6. CASE UNCHANGED vars
  BY <1>6 DEF vars, RetInv
<1> QED BY <1>2, <1>3, <1>4, <1>5, <1>6 DEF Next, Returned

LEMMA CoverHolds ==
  Spec => [](CodesInv /\ CoverInv /\ RetInv)
<1>1. Init => CoverInv /\ RetInv
  <2> SUFFICES ASSUME Init PROVE ~Ready /\ RetInv
    BY DEF CoverInv
  <2>1. g = 0 /\ l = 0 /\ pc = "count"
    BY DEF Init
  <2> QED BY <2>1 DEF Ready, RetInv
<1>2. CodesInv /\ StackInv /\ CoverInv /\ [Next]_vars => CoverInv'
  BY CoverNext
<1>3. CodesInv /\ RetInv /\ [Next]_vars => RetInv'
  BY RetNext
<1> QED BY <1>1, <1>2, <1>3, CodesHold, StackedHolds, PTL DEF Spec
-----------------------------------------------------------------------------
(* inflate_codes()'s lookup, as specified, is the walk.                    *)
LEMMA DecodeIs ==
  ASSUME m = l, NEW stream, NEW F, Trace(F, tabs, stream)
  PROVE  Decode(stream) = [PlaceIn(tabs, F[g]) EXCEPT !.b = @ + F[g].used]
<1> DEFINE start == [t |-> 1, bits |-> m, rest |-> stream, used |-> 0]
           G(f) == [j \in Nat |-> IF j = 0 THEN start ELSE Follow(f[j - 1])]
<1>1. \A f : Place(f) = PlaceIn(tabs, f)
  BY Zenon DEF Place, PlaceIn
<1>2. \A f : Follow(f) = FollowIn(tabs, f)
  BY <1>1 DEF Follow, FollowIn
<1>3. F = G(F)
  <2>1. F = [j \in Nat |-> IF j = 0 THEN [t |-> 1, bits |-> l, rest |-> stream, used |-> 0] ELSE FollowIn(tabs, F[j - 1])]
    BY Zenon DEF Trace
  <2> QED BY <1>2, <2>1
<1>4. \A f : f = G(f) => f = F
  <2> SUFFICES ASSUME NEW f, f = G(f) PROVE f = F
    OBVIOUS
  <2> DEFINE S == {j \in Nat : f[j] = F[j]}
  <2>1. \A j \in Nat : f[j] = IF j = 0 THEN start ELSE Follow(f[j - 1])
    OBVIOUS
  <2>2. \A j \in Nat : F[j] = IF j = 0 THEN start ELSE Follow(F[j - 1])
    BY <1>3
  <2> HIDE DEF start
  <2>3. 0 \in S
    BY <2>1, <2>2
  <2>4. ASSUME NEW j \in Nat, j \in S PROVE j + 1 \in S
    <3>1. f[j] = F[j] /\ j + 1 \in Nat /\ (j + 1) - 1 = j /\ j + 1 # 0
      BY <2>4
    <3> QED BY <2>1, <2>2, <3>1
  <2> HIDE DEF S
  <2>5. \A j \in Nat : j \in S
    BY <2>3, <2>4, NatInduct
  <2>6. \A j \in Nat : f[j] = F[j]
    BY <2>5 DEF S
  <2>7. f = [j \in Nat |-> f[j]] /\ F = [j \in Nat |-> F[j]]
    <3>1. F = [j \in Nat |-> F[j]]
      BY <1>3
    <3> QED BY <3>1
  <2> HIDE DEF G
  <2> QED BY <2>6, <2>7
<1> DEFINE e == CHOOSE r : r = G(r)
<1>5. e = F
  <2> HIDE DEF G
  <2>1. e = G(e)
    BY <1>3
  <2> HIDE DEF e
  <2> QED BY <1>4, <2>1
<1>6. Decode(stream) = [Place(e[g]) EXCEPT !.b = @ + e[g].used]
  BY Zenon DEF Decode
<1> HIDE DEF e, G
<1> QED BY <1>1, <1>5, <1>6

(* At the end all streams are covered.                                     *)
LEMMA AllFound ==
  ASSUME b \in LengthLists, Ready, Codes, Covered, Roomy, pc = "done", NEW stream \in 0 .. Shl[g] - 1
  PROVE  Found(stream)
<1>1. k = g /\ a = 0 /\ k \in 1 .. g
  BY DEF Codes
<1>2. FirstCode[g] \in Nat /\ c[g] \in Nat /\ FirstCode[g] + c[g] = Shl[g] /\ g \in Nat
  BY <1>1, ReadyIs
<1>3. Number = Shl[g]
  <2>1. Pending = 0
    BY <1>1 DEF Pending
  <2> QED BY <1>1, <1>2, <2>1 DEF Number, Passed
<1> DEFINE R == Reversed[g][stream]
           A == Shl[g]
<1>4. R \in Nat /\ R < A /\ A \in Nat
  <2>1. stream \in Nat
    OBVIOUS
  <2> QED BY <1>2, <2>1, ReversedType
<1> HIDE DEF R, A
<1>5. R * A < A * A
  <2>1. A * (R + 1) <= A * A /\ A * (R + 1) = R * A + A /\ A > 0
    <3>1. R + 1 <= A /\ R + 1 \in Int /\ A > 0
      BY <1>4
    <3>2. A * (R + 1) = R * A + A
      BY <1>4
    <3> QED BY <1>4, <3>1, <3>2, Monotone
  <2>2. R * A \in Int /\ A * A \in Int
    BY <1>4
  <2> QED BY <1>4, <2>1, <2>2
<1> QED BY <1>1, <1>3, <1>5 DEF Covered, R, A

(* The codes of a symbol are the streams from its first to its last, and   *)
(* those of one length come before those of the next.                      *)
LEMMA Span ==
  ASSUME b \in LengthLists, Ready, NEW s \in Used, NEW stream \in 0 .. Shl[g] - 1, BeginsWith(stream, s)
  PROVE  LET n == b[s]
             R == Reversed[g][stream]
         IN  /\ n \in Nat /\ n > 0 /\ n <= g /\ R \in Nat
             /\ CodeOf(s) = R \div Shl[g - n] /\ CodeOf(s) = FirstCode[n] + Sooner(s)
             /\ Shl[g - n] * FirstCode[n] <= R /\ R < Shl[g - n] * End(n)
<1> DEFINE n == b[s]
           R == Reversed[g][stream]
           C == CodeOf(s)
           d == g - n
<1>1. n \in Nat /\ n > 0 /\ n <= g /\ g \in Nat /\ g = Longest
  <2>1. n \in Shortest .. Longest /\ Shortest \in Nat /\ Shortest > 0 /\ Longest \in Nat /\ g = Longest
    BY Extremes DEF Ready
  <2> QED BY <2>1
<1>2. d \in Nat /\ n + d = g
  BY <1>1
<1> HIDE DEF d
<1>3. C = FirstCode[n] + Sooner(s) /\ FirstCode[n] \in Nat /\ Sooner(s) \in Nat /\ Sooner(s) < Cardinal(n) /\ Cardinal(n) \in Nat
  <2>1. C = FirstCode[n] + Sooner(s)
    BY DEF CodeOf, Sooner
  <2> QED BY <1>1, <2>1, Ranked, CardinalIs, FirstCodeIs
<1>4. End(n) = FirstCode[n] + Cardinal(n) /\ End(n) <= Shl[n]
  BY <1>1, Fits DEF End, Ready
<1> HIDE DEF n, C
<1>5. C \in 0 .. Shl[n] - 1 /\ C + 1 <= End(n) /\ FirstCode[n] <= C /\ End(n) \in Nat /\ C \in Nat
  <2>1. Shl[n] \in Nat
    BY <1>1, ShlIs
  <2> QED BY <1>3, <1>4, <2>1
<1>6. R \in 0 .. Shl[g] - 1 /\ Reversed[g][R] = stream /\ R \in Nat /\ R < Shl[g]
  <2>1. R \in 0 .. Shl[g] - 1 /\ Reversed[g][R] = stream
    BY <1>1, ReversedTwice
  <2>2. Shl[g] \in Nat
    BY <1>1, ShlIs
  <2> QED BY <2>1, <2>2
<1> HIDE DEF R
<1>7. R \div Shl[d] \in Nat /\ Reversed[n][stream % Shl[n]] = R \div Shl[d]
  <2>1. R \div Shl[g - n] \in Nat /\ Reversed[n][Reversed[g][R] % Shl[n]] = R \div Shl[g - n]
    BY <1>1, <1>6, Decided
  <2> QED BY <1>6, <2>1 DEF d
<1>8. Reversed[n][stream % Shl[n]] = C
  <2>1. stream % Shl[n] = Reversed[n][C]
    BY DEF BeginsWith, n, C
  <2>2. Reversed[n][Reversed[n][C]] = C
    BY <1>1, <1>5, ReversedTwice
  <2> QED BY <2>1, <2>2
<1>9. C = R \div Shl[d]
  BY <1>7, <1>8
<1> DEFINE A == Shl[d]
<1>10. A \in Nat /\ A > 0
  BY <1>2, ShlIs
<1> HIDE DEF A
<1>11. A * C <= R /\ R < A * C + A
  BY <1>6, <1>9, <1>10, Divided DEF A
<1>12. A * FirstCode[n] <= A * C /\ A * (C + 1) <= A * End(n) /\ A * (C + 1) = A * C + A
  <2>1. C + 1 \in Int
    BY <1>5
  <2>2. A * (C + 1) = A * C + A
    BY <1>5, <1>10
  <2> QED BY <1>3, <1>5, <1>10, <2>1, <2>2, Monotone
<1>13. A * FirstCode[n] <= R /\ R < A * End(n)
  <2>1. A * C \in Int /\ A * FirstCode[n] \in Int /\ A * End(n) \in Int
    BY <1>3, <1>5, <1>10
  <2> QED BY <1>6, <1>10, <1>11, <1>12, <2>1
<1> QED BY <1>1, <1>3, <1>6, <1>9, <1>13 DEF n, R, C, d, A

LEMMA SpansApart ==
  ASSUME b \in LengthLists, g \in Nat, NEW n \in Nat, n > 0, NEW d \in Nat, n < d, d <= g
  PROVE  Shl[g - n] * End(n) <= Shl[g - d] * FirstCode[d]
<1> DEFINE A == Shl[g - d]
           B == Shl[d - n]
<1>1. A \in Nat /\ B \in Nat /\ Shl[g - n] = A * B
  <2> PICK r \in Nat : r = g - d
    OBVIOUS
  <2> PICK s \in Nat : s = d - n
    OBVIOUS
  <2>1. Shl[r + s] = Shl[r] * Shl[s] /\ Shl[r] \in Nat /\ Shl[s] \in Nat
    BY ShlIs, ShlSum
  <2>2. r + s = g - n
    OBVIOUS
  <2> QED BY <2>1, <2>2
<1>2. B * End(n) <= FirstCode[d] /\ FirstCode[d] \in Nat /\ End(n) \in Nat
  <2> PICK e \in Nat : e = d - n /\ e > 0 /\ n + e = d
    <3>1. d - n \in Nat /\ d - n > 0 /\ n + (d - n) = d
      OBVIOUS
    <3> QED BY <3>1
  <2> QED BY BeginsBehind
<1> HIDE DEF A, B
<1>3. A * (B * End(n)) <= A * FirstCode[d] /\ (A * B) * End(n) = A * (B * End(n))
  <2>1. B * End(n) \in Int
    BY <1>1, <1>2
  <2> QED BY <1>1, <1>2, <2>1, Monotone, Ring
<1> QED BY <1>1, <1>3 DEF A, B

LEMMA PrefixFree ==
  ASSUME b \in LengthLists, Ready, NEW s \in Used, NEW t \in Used, NEW stream \in 0 .. Shl[g] - 1,
         BeginsWith(stream, s), BeginsWith(stream, t)
  PROVE  s = t
<1> DEFINE R == Reversed[g][stream]
           A(n) == Shl[g - n] * FirstCode[n]
           E(n) == Shl[g - n] * End(n)
           P(z) == b[z] \in Nat /\ b[z] > 0 /\ b[z] <= g /\ R \in Nat /\ A(b[z]) <= R /\ R < E(b[z])
<1>1. P(s) /\ P(t)
  BY Span
<1>2. g \in Nat
  BY Extremes DEF Ready
<1>3. ASSUME NEW n \in Nat, n > 0, n <= g PROVE A(n) \in Int /\ E(n) \in Int
  <2>1. g - n \in Nat
    BY <1>2, <1>3
  <2>2. Shl[g - n] \in Int /\ FirstCode[n] \in Int /\ Cardinal(n) \in Int
    BY <2>1, ShlIs, FirstCodeIs, CardinalIs
  <2>3. End(n) \in Int
    BY <2>2 DEF End
  <2> QED BY <2>2, <2>3
<1>4. ASSUME NEW y1 \in Used, NEW z1 \in Used, P(y1), P(z1), b[y1] < b[z1] PROVE FALSE
  <2>1. E(b[y1]) <= A(b[z1])
    BY <1>2, <1>4, SpansApart
  <2>2. E(b[y1]) \in Int /\ A(b[z1]) \in Int
    BY <1>3, <1>4
  <2> HIDE DEF A, E, R
  <2> QED BY <1>4, <2>1, <2>2
<1>5. b[s] = b[t]
  <2>1. ~(b[s] < b[t]) /\ ~(b[t] < b[s])
    <3> HIDE DEF P
    <3> QED BY <1>1, <1>4
  <2> QED BY <1>1, <2>1
<1>6. Sooner(s) = Sooner(t)
  <2>1. CodeOf(s) = FirstCode[b[s]] + Sooner(s) /\ CodeOf(t) = FirstCode[b[t]] + Sooner(t) /\ CodeOf(s) = CodeOf(t)
    <3>1. CodeOf(s) = R \div Shl[g - b[s]] /\ CodeOf(s) = FirstCode[b[s]] + Sooner(s)
      BY Span
    <3>2. CodeOf(t) = R \div Shl[g - b[t]] /\ CodeOf(t) = FirstCode[b[t]] + Sooner(t)
      BY Span
    <3> QED BY <1>5, <3>1, <3>2
  <2>2. FirstCode[b[s]] \in Nat /\ Sooner(s) \in Nat /\ Sooner(t) \in Nat
    BY <1>1, FirstCodeIs, Ranked
  <2> QED BY <1>5, <2>1, <2>2
<1>7. Rank(s) = Rank(t)
  BY <1>5, <1>6, Ranked
<1> QED BY <1>7, RankedApart
-----------------------------------------------------------------------------
(* What is left at the end when there are tables.                          *)
LEMMA BuiltIs ==
  ASSUME CodesInv, StackInv, CoverInv, RetInv, Built
  PROVE  /\ b \in LengthLists /\ Ready /\ Codes /\ Covered /\ pc = "done" /\ m = l /\ g \in Nat /\ l \in Nat /\ l > 0
         /\ ret = 0 => y = 0 \/ g = 1
<1>1. b \in LengthLists /\ Ready /\ Codes
  BY DEF CodesInv, Idle, Built
<1>2. k \in 1 .. g
  BY <1>1 DEF Codes
<1> QED BY <1>1, <1>2, ReadyIs DEF Ready, CoverInv, RetInv, Built

(* What a walk that ended found is what Decode says.                       *)
LEMMA DecodeEnds ==
  ASSUME m = l, NEW stream, Found(stream)
  PROVE  LET found == Decode(stream)
         IN  \/ /\ found.e = "code" /\ found.v \in Used /\ BeginsWith(stream, found.v) /\ found.b = b[found.v]
             \/ Reversed[g][stream] >= End(g) /\ (Used = Symbols => found.e = "unused")
<1>1. PICK F : Trace(F, tabs, stream) /\ Ends(PlaceIn(tabs, F[g]), F[g].used, stream)
  BY DEF Found
<1> PICK e : e = PlaceIn(tabs, F[g])
  OBVIOUS
<1> PICK n : n = F[g].used
  OBVIOUS
<1>2. Decode(stream) = [e EXCEPT !.b = @ + n]
  BY <1>1, DecodeIs
<1>3. Ends(e, n, stream)
  BY <1>1
<1>4. Decode(stream).e = e.e /\ Decode(stream).v = e.v /\ Decode(stream).b = e.b + n
  <2>1. DOMAIN e = {"e", "b", "v", "next"}
    BY <1>3 DEF Ends
  <2> QED BY <1>2, <2>1
<1> QED BY <1>3, <1>4 DEF Ends

(* Tables that huft_build() calls a success decode every stream that       *)
(* begins with a code to its symbol, and use up exactly the code's bits,   *)
(* for every set of lengths, if tables are at most two deep or have room   *)
(* for more codes than there are symbols (lib/inflate.c:274-488, 539-547). *)
THEOREM DecodesRight ==
  Spec => []DecodesAsSpecified
<1>1. ASSUME CodesInv, StackInv, CoverInv, RetInv
      PROVE  DecodesAsSpecified
  <2> SUFFICES ASSUME Built, ret = 0, NoGap, NEW stream \in Streams, NEW s \in Used, BeginsWith(stream, s)
               PROVE  Decode(stream).e = "code" /\ Decode(stream).v = s /\ Decode(stream).b = b[s]
    BY DEF DecodesAsSpecified
  <2>1. b \in LengthLists /\ Ready /\ Codes /\ Covered /\ pc = "done" /\ m = l /\ g \in Nat /\ l \in Nat /\ l > 0 /\ (y = 0 \/ g = 1)
    BY <1>1, BuiltIs
  <2>2. Roomy
    <3>1. g = 1 => g <= 2 * l
      BY <2>1
    <3> QED BY <2>1, <3>1 DEF Roomy, NoGap
  <2>3. stream \in 0 .. Shl[g] - 1
    BY DEF Streams
  <2>4. Found(stream)
    BY <2>1, <2>2, <2>3, AllFound
  <2>5. CASE Reversed[g][stream] >= End(g)
    <3> PICK R \in Nat : R = Reversed[g][stream]
      <4>1. stream \in Nat
        BY <2>3
      <4> QED BY <2>1, <4>1, ReversedType
    <3>1. b[s] \in Nat /\ b[s] > 0 /\ b[s] <= g /\ R < Shl[g - b[s]] * End(b[s])
      BY <2>1, <2>3, Span
    <3>2. Shl[g - b[s]] * End(b[s]) <= End(g) /\ End(g) \in Nat
      <4> PICK d : d = b[s]
        OBVIOUS
      <4>1. FirstCode[g] \in Nat /\ Cardinal(g) \in Nat
        BY <2>1, FirstCodeIs, CardinalIs
      <4>2. End(g) \in Nat /\ FirstCode[g] <= End(g)
        BY <4>1 DEF End
      <4>3. g - g = 0 /\ Shl[0] = 1
        BY <2>1, ShlIs
      <4>4. CASE d < g
        <5>1. Shl[g - d] * End(d) <= Shl[g - g] * FirstCode[g]
          BY <2>1, <3>1, <4>4, SpansApart
        <5>2. Shl[g - d] * End(d) \in Int
          <6>1. d \in Nat /\ g - d \in Nat
            BY <2>1, <3>1, <4>4
          <6>2. Cardinal(d) \in Nat /\ FirstCode[d] \in Nat /\ Shl[g - d] \in Nat
            BY <2>1, <6>1, FirstCodeIs, CardinalIs, ShlIs
          <6> QED BY <6>2 DEF End
        <5>3. 1 * FirstCode[g] = FirstCode[g]
          BY <4>1
        <5> QED BY <4>1, <4>2, <4>3, <5>1, <5>2, <5>3
      <4>5. CASE d = g
        <5>1. 1 * End(g) = End(g)
          BY <4>2
        <5> QED BY <4>2, <4>3, <4>5, <5>1
      <4> QED BY <2>1, <3>1, <4>4, <4>5
    <3>3. Shl[g - b[s]] * End(b[s]) \in Int
      <4>1. b[s] \in Nat /\ g - b[s] \in Nat
        BY <2>1, <3>1
      <4>2. Cardinal(b[s]) \in Nat /\ FirstCode[b[s]] \in Nat /\ Shl[g - b[s]] \in Nat
        BY <2>1, <4>1, FirstCodeIs, CardinalIs, ShlIs
      <4> QED BY <4>2 DEF End
    <3> QED BY <2>5, <3>1, <3>2, <3>3
  <2>6. CASE ~(Reversed[g][stream] >= End(g))
    <3>1. Decode(stream).e = "code" /\ Decode(stream).v \in Used /\ BeginsWith(stream, Decode(stream).v)
          /\ Decode(stream).b = b[Decode(stream).v]
      BY <2>1, <2>4, <2>6, DecodeEnds
    <3>2. Decode(stream).v = s
      BY <2>1, <2>3, <3>1, PrefixFree
    <3> QED BY <3>1, <3>2
  <2> QED BY <2>5, <2>6
<1> QED BY <1>1, StackedHolds, CoverHolds, PTL

(* If every symbol has a code and one table holds them all, a stream that  *)
(* begins with no code is found to: past the last symbol the entries are   *)
(* marked (lib/inflate.c:448-449), which the 30 distances of               *)
(* inflate_fixed() at 706-710 need.                                        *)
THEOREM CatchesUnused ==
  Spec => []UnusedCaught
<1>1. ASSUME CodesInv, StackInv, CoverInv, RetInv
      PROVE  UnusedCaught
  <2> SUFFICES ASSUME Built, g = l, Used = Symbols, NEW stream \in Streams, \A s \in Used : ~BeginsWith(stream, s)
               PROVE  Decode(stream).e = "unused"
    BY DEF UnusedCaught
  <2>1. b \in LengthLists /\ Ready /\ Codes /\ Covered /\ pc = "done" /\ m = l /\ g \in Nat /\ l \in Nat
    BY <1>1, BuiltIs
  <2>2. Roomy
    BY <2>1 DEF Roomy
  <2>3. stream \in 0 .. Shl[g] - 1
    BY DEF Streams
  <2>4. Found(stream)
    BY <2>1, <2>2, <2>3, AllFound
  <2> QED BY <2>1, <2>4, DecodeEnds
<1> QED BY <1>1, StackedHolds, CoverHolds, PTL
=============================================================================
