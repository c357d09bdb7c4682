----------------------------- MODULE SyncProofs -----------------------------
(***************************************************************************)
(* What module Sync says of the locks and the sleeping, for every number   *)
(* of processors, processes and waiters and every width of the counters    *)
(* the assumption Sizes allows.  One section for each part: its inductive  *)
(* invariant (XInv), that it holds first (XInit), that every step keeps it *)
(* (XNext), that it gives the properties (XKept), and that a step is one   *)
(* of the abstract lock or none (XExcludes).  The last section puts them   *)
(* together.                                                               *)
(***************************************************************************)
EXTENDS Sync, FiniteSetTheorems, SequenceTheorems, TLAPS

(* One more, one less.                                                     *)
LEMMA Counting ==
  ASSUME NEW S, IsFiniteSet(S), NEW x
  PROVE  /\ Cardinality(S) \in Nat
         /\ IsFiniteSet(S \union {x}) /\ IsFiniteSet(S \ {x})
         /\ x \notin S => Cardinality(S \union {x}) = Cardinality(S) + 1
         /\ x \in S => Cardinality(S \ {x}) = Cardinality(S) - 1 /\ Cardinality(S) > 0
<1>1. Cardinality(S) \in Nat
  BY FS_CardinalityType
<1>2. ASSUME x \notin S PROVE Cardinality(S \union {x}) = Cardinality(S) + 1
  BY <1>2, FS_AddElement
<1>3. ASSUME x \in S PROVE Cardinality(S \ {x}) = Cardinality(S) - 1
  BY <1>3, FS_RemoveElement
<1>4. ASSUME x \in S PROVE Cardinality(S) > 0
  BY <1>1, <1>4, FS_EmptySet
<1>5. IsFiniteSet(S \union {x}) /\ IsFiniteSet(S \ {x})
  BY FS_AddElement, FS_RemoveElement
<1> QED BY <1>1, <1>2, <1>3, <1>4, <1>5

(* A set that leaves one out is smaller.                                   *)
LEMMA Smaller ==
  ASSUME NEW S, IsFiniteSet(S), NEW T \in SUBSET S
  PROVE  /\ IsFiniteSet(T) /\ Cardinality(T) \in Nat /\ Cardinality(T) <= Cardinality(S)
         /\ Cardinality(S) \in Nat
         /\ \A x \in S \ T : Cardinality(T) < Cardinality(S)
<1>1. IsFiniteSet(T) /\ Cardinality(T) <= Cardinality(S) /\ (Cardinality(S) = Cardinality(T) => S = T)
  BY FS_Subset
<1>2. Cardinality(T) \in Nat /\ Cardinality(S) \in Nat
  BY <1>1, FS_CardinalityType
<1>3. \A x \in S \ T : Cardinality(T) < Cardinality(S)
  BY <1>1, <1>2
<1> QED BY <1>1, <1>2, <1>3

(* None, one, and at most one.                                             *)
LEMMA FewElements ==
  /\ IsFiniteSet({}) /\ Cardinality({}) = 0
  /\ \A x : IsFiniteSet({x}) /\ Cardinality({x}) = 1
  /\ \A S : IsFiniteSet(S) =>
       /\ Cardinality(S) = 0 <=> S = {}
       /\ Cardinality(S) <= 1 <=> \A x, y \in S : x = y
<1>1. /\ IsFiniteSet({}) /\ Cardinality({}) = 0
      /\ \A x : IsFiniteSet({x}) /\ Cardinality({x}) = 1
  BY FS_EmptySet, FS_Singleton
<1> SUFFICES ASSUME NEW S, IsFiniteSet(S)
             PROVE  /\ Cardinality(S) = 0 <=> S = {}
                    /\ Cardinality(S) <= 1 <=> \A x, y \in S : x = y
  BY <1>1
<1>2. Cardinality(S) \in Nat /\ (Cardinality(S) = 0 <=> S = {}) /\ (Cardinality(S) = 1 <=> \E x : S = {x})
  BY FS_CardinalityType, FS_EmptySet, FS_Singleton
<1>3. ASSUME \A x, y \in S : x = y PROVE S = {} \/ \E x : S = {x}
  <2>1. CASE S # {}
    <3> PICK x \in S : TRUE BY <2>1
    <3>1. S = {x} BY <1>3
    <3> QED BY <3>1
  <2> QED BY <2>1
<1>4. ASSUME Cardinality(S) <= 1 PROVE S = {} \/ \E x : S = {x}
  BY <1>2, <1>4
<1>5. (S = {} \/ \E x : S = {x}) => Cardinality(S) <= 1 /\ \A x, y \in S : x = y
  BY <1>2
<1> QED BY <1>2, <1>3, <1>4, <1>5

-----------------------------------------------------------------------------
(* Where the actors of a part are, and how many are somewhere after one of *)
(* them has moved.                                                         *)
At(f, P, S) == {p \in P : f[p] \in S}

Moved(P, f, g, c, to) == c \in P /\ \A p \in P : g[p] = IF p = c THEN to ELSE f[p]

LEMMA Moves ==
  ASSUME NEW P, IsFiniteSet(P), NEW f, NEW g, NEW c, NEW to, Moved(P, f, g, c, to)
  PROVE  \A S :
         /\ At(g, P, S) = IF to \in S THEN At(f, P, S) \union {c} ELSE At(f, P, S) \ {c}
         /\ IsFiniteSet(At(f, P, S)) /\ Cardinality(At(f, P, S)) \in Nat
         /\ IsFiniteSet(At(g, P, S)) /\ Cardinality(At(g, P, S)) \in Nat
         /\ Cardinality(At(g, P, S)) = Cardinality(At(f, P, S))
              + (IF to \in S THEN 1 ELSE 0) - (IF f[c] \in S THEN 1 ELSE 0)
<1> TAKE S
<1> DEFINE before == At(f, P, S)
           after == At(g, P, S)
<1>1. after = IF to \in S THEN before \union {c} ELSE before \ {c}
  BY DEF At, Moved
<1>2. c \in before <=> f[c] \in S
  BY DEF At, Moved
<1>3. IsFiniteSet(before) /\ Cardinality(before) \in Nat
  BY Smaller DEF At
<1>4. IsFiniteSet(after) /\ Cardinality(after) \in Nat
  BY Smaller DEF At
<1> HIDE DEF before, after
<1>5. c \in before => before \union {c} = before
  OBVIOUS
<1>6. c \notin before => before \ {c} = before
  OBVIOUS
<1>7. /\ c \notin before => Cardinality(before \union {c}) = Cardinality(before) + 1
      /\ c \in before => Cardinality(before \ {c}) = Cardinality(before) - 1
  BY <1>3, Counting
<1>8. Cardinality(after) = Cardinality(before) + (IF to \in S THEN 1 ELSE 0) - (IF f[c] \in S THEN 1 ELSE 0)
  <2>1. CASE to \in S
    <3>1. CASE c \notin before
      <4>1. after = before \union {c} /\ Cardinality(before \union {c}) = Cardinality(before) + 1
        BY <1>1, <1>7, <2>1, <3>1
      <4> QED BY <1>2, <1>3, <2>1, <3>1, <4>1
    <3>2. CASE c \in before
      <4>1. after = before
        BY <1>1, <1>5, <2>1, <3>2
      <4> QED BY <1>2, <1>3, <2>1, <3>2, <4>1
    <3> QED BY <3>1, <3>2
  <2>2. CASE to \notin S
    <3>1. CASE c \in before
      <4>1. after = before \ {c} /\ Cardinality(before \ {c}) = Cardinality(before) - 1
        BY <1>1, <1>7, <2>2, <3>1
      <4> QED BY <1>2, <1>3, <2>2, <3>1, <4>1
    <3>2. CASE c \notin before
      <4>1. after = before
        BY <1>1, <1>6, <2>2, <3>2
      <4> QED BY <1>2, <1>3, <2>2, <3>2, <4>1
    <3> QED BY <3>1, <3>2
  <2> QED BY <2>1, <2>2
<1> QED BY <1>1, <1>3, <1>4, <1>8 DEF before, after

LEMMA Somewhere ==
  ASSUME NEW P, IsFiniteSet(P), NEW f, NEW S
  PROVE  /\ At(f, P, S) \subseteq P /\ IsFiniteSet(At(f, P, S))
         /\ Cardinality(At(f, P, S)) \in Nat /\ Cardinality(At(f, P, S)) <= Cardinality(P)
         /\ Cardinality(At(f, P, S)) = 0 <=> At(f, P, S) = {}
         /\ Cardinality(P) \in Nat
<1>1. At(f, P, S) \in SUBSET P
  BY DEF At
<1> QED BY <1>1, Smaller, FewElements

(* Multiplication keeps the order.                                         *)
LEMMA Product ==
  ASSUME NEW a \in Nat, NEW b \in Nat, NEW c \in Nat, b <= c
  PROVE  a * b \in Nat /\ a * c \in Nat /\ a * b <= a * c /\ a * (b + 1) = a * b + a
<1>1. PICK d \in Nat : c = b + d
  <2>1. c - b \in Nat /\ c = b + (c - b)
    OBVIOUS
  <2> QED BY <2>1
<1>2. a * c = a * b + a * d /\ a * d \in Nat /\ a * b \in Nat
  BY <1>1
<1> QED BY <1>2

-----------------------------------------------------------------------------
(* The spin lock.  The instance has its own Cardinality, which is the same.*)
LEMMA SpinSets == \A S : Spin!Cardinality(S) = Cardinality(S) /\ (Spin!IsFiniteSet(S) <=> IsFiniteSet(S))
<1>1. \A S : Spin!IsFiniteSet(S) <=> IsFiniteSet(S)
  BY Zenon DEF Spin!IsFiniteSet, IsFiniteSet
<1>2. \A S : Spin!Cardinality(S) = Cardinality(S)
  BY Zenon DEF Spin!Cardinality, Cardinality
<1> QED BY <1>1, <1>2

SpinTaken == {c \in SpinCpus : spc[c] \in {"spin", "held"}}
SpinHolders == {c \in SpinCpus : spc[c] = "held"}

(* The byte is down by at most one for each who counted and has not gone.  *)
SpinInv ==
  /\ Spin!TypeOK
  /\ slock <= 1 /\ slock >= 1 - Cardinality(SpinTaken)
  /\ slock = 1 <=> SpinHolders = {}
  /\ \A c, d \in SpinHolders : c = d

LEMMA SpinSizes == IsFiniteSet(SpinCpus) /\ SpinHalf \in Nat /\ SpinHalf > 1 /\ Cardinality(SpinCpus) <= SpinHalf
<1>1. Spin!CpusOK
  BY Sizes
<1> QED BY <1>1, SpinSets DEF Spin!CpusOK

LEMMA SpinInit == Spin!Init => SpinInv
<1> SUFFICES ASSUME Spin!Init PROVE SpinInv
  OBVIOUS
<1> USE DEF Spin!Init
<1>1. SpinTaken = {} /\ SpinHolders = {}
  BY DEF SpinTaken, SpinHolders
<1>2. Spin!TypeOK
  BY SpinSizes DEF Spin!TypeOK
<1> QED BY <1>1, <1>2, FewElements DEF SpinInv

(* One who is not in leaves room for himself.                              *)
LEMMA SpinRoom ==
  ASSUME SpinInv, NEW c \in SpinCpus, spc[c] \in {"free", "retry"}
  PROVE  slock > -SpinHalf
<1>1. SpinTaken \in SUBSET SpinCpus /\ c \in SpinCpus \ SpinTaken
  BY DEF SpinTaken
<1>2. Cardinality(SpinTaken) < SpinHalf /\ Cardinality(SpinTaken) \in Nat
  BY <1>1, SpinSizes, Smaller
<1> QED BY <1>2, SpinSizes DEF SpinInv, Spin!TypeOK

LEMMA SpinNext == ASSUME SpinInv, Spin!Next PROVE SpinInv'
<1> USE DEF SpinInv
<1>1. IsFiniteSet(SpinTaken) /\ Cardinality(SpinTaken) \in Nat
  BY SpinSizes, Smaller DEF SpinTaken
<1>3. slock \in -SpinHalf .. SpinHalf - 1 /\ spc \in [SpinCpus -> {"free", "spin", "retry", "held", "wait"}]
  BY DEF Spin!TypeOK
<1> PICK c \in SpinCpus : \/ Spin!Try(c) \/ Spin!Spin(c) \/ Spin!TryLock(c)
                          \/ Spin!Unlock(c) \/ Spin!UnlockWait(c) \/ Spin!WaitEnds(c)
  BY DEF Spin!Next
<1>4. CASE Spin!Try(c)
  <2> USE <1>4 DEF Spin!Try, Spin!Failed
  <2>1. c \notin SpinTaken /\ SpinTaken' = SpinTaken \union {c}
    BY <1>3 DEF SpinTaken
  <2>2. slock' = slock - 1 /\ slock' \in -SpinHalf .. SpinHalf - 1
    <3>1. slock > -SpinHalf
      BY <1>4, SpinRoom DEF Spin!Try
    <3> QED BY <1>3, <3>1, SpinSizes DEF Spin!Dec
  <2>3. slock' >= 1 - Cardinality(SpinTaken')
    BY <1>1, <1>3, <2>1, <2>2, Counting
  <2>4. SpinHolders' = IF slock = 1 THEN {c} ELSE SpinHolders
    BY <1>3, <2>2 DEF SpinHolders
  <2> QED BY <1>3, <2>2, <2>3, <2>4 DEF Spin!TypeOK
<1>5. CASE Spin!Spin(c)
  <2> USE <1>5 DEF Spin!Spin, Spin!Goto, Spin!IsLocked
  <2>1. slock = 1 /\ SpinTaken' = SpinTaken \ {c} /\ SpinHolders' = SpinHolders
    BY <1>3 DEF SpinTaken, SpinHolders
  <2>2. Cardinality(SpinTaken') \in Nat
    BY <1>1, <2>1, Counting, FS_CardinalityType
  <2> QED BY <1>3, <2>1, <2>2 DEF Spin!TypeOK
<1>6. CASE Spin!TryLock(c)
  <2> USE <1>6 DEF Spin!TryLock, Spin!Goto
  <2>1. SpinHolders' = IF slock = 1 THEN {c} ELSE SpinHolders
    BY <1>3 DEF SpinHolders
  <2>2. Cardinality(SpinTaken') >= 1
    <3>1. IsFiniteSet(SpinTaken') /\ SpinTaken' # {}
      BY <1>3, <2>1, SpinSizes, Smaller DEF SpinTaken, SpinHolders
    <3> QED BY <3>1, FewElements, FS_CardinalityType
  <2>3. Cardinality(SpinTaken') \in Nat
    BY SpinSizes, Smaller DEF SpinTaken
  <2> QED BY <1>3, <2>1, <2>2, <2>3, SpinSizes DEF Spin!TypeOK
<1>7. CASE Spin!Unlock(c)
  <2> USE <1>7 DEF Spin!Unlock, Spin!Goto
  <2>1. SpinTaken' = SpinTaken \ {c} /\ SpinHolders' = {}
    BY <1>3 DEF SpinTaken, SpinHolders
  <2>2. Cardinality(SpinTaken') \in Nat
    BY <1>1, <2>1, Counting, FS_CardinalityType
  <2> QED BY <1>3, <2>1, <2>2, SpinSizes DEF Spin!TypeOK
<1>8. CASE Spin!UnlockWait(c) \/ Spin!WaitEnds(c)
  <2> USE <1>8 DEF Spin!UnlockWait, Spin!WaitEnds, Spin!Goto
  <2>1. SpinTaken' = SpinTaken /\ SpinHolders' = SpinHolders
    BY <1>3 DEF SpinTaken, SpinHolders
  <2> QED BY <1>3, <2>1 DEF Spin!TypeOK
<1> QED BY <1>4, <1>5, <1>6, <1>7, <1>8

(* The byte counts the spinners.                                           *)
LEMMA SpinKept == SpinInv => Spin!TypeOK /\ Spin!CountsSpinners
BY SpinSets DEF SpinInv, Spin!CountsSpinners, SpinTaken, SpinHolders

(* A step takes the lock when nobody has it, gives it up, or neither.       *)
LEMMA SpinExcludes ==
  ASSUME SpinInv, Spin!Next
  PROVE  Spin!ImplementsExclusion!Next \/ SpinHolders' = SpinHolders
<1> USE DEF SpinInv, Spin!TypeOK, SpinHolders
<1>1. ASSUME NEW c \in SpinHolders', SpinHolders = {}, SpinHolders' = {c} PROVE Spin!ImplementsExclusion!Next
  BY <1>1 DEF Spin!ImplementsExclusion!Next, Spin!ImplementsExclusion!BeginWrite
<1>2. ASSUME NEW c \in SpinHolders, SpinHolders' = SpinHolders \ {c} PROVE Spin!ImplementsExclusion!Next
  BY <1>2 DEF Spin!ImplementsExclusion!Next, Spin!ImplementsExclusion!EndWrite
<1> PICK c \in SpinCpus : \/ Spin!Try(c) \/ Spin!Spin(c) \/ Spin!TryLock(c)
                          \/ Spin!Unlock(c) \/ Spin!UnlockWait(c) \/ Spin!WaitEnds(c)
  BY DEF Spin!Next
<1>3. CASE Spin!Try(c)
  <2>1. SpinHolders' = IF Spin!Failed(slock') THEN SpinHolders ELSE SpinHolders \union {c}
    BY <1>3 DEF Spin!Try
  <2>2. ~Spin!Failed(slock') => SpinHolders = {}
    <3>1. slock > -SpinHalf
      BY <1>3, SpinRoom DEF Spin!Try
    <3>2. slock' = slock - 1 /\ slock \in Int
      BY <1>3, <3>1, SpinSizes DEF Spin!Try, Spin!Dec
    <3> QED BY <3>2 DEF Spin!Failed
  <2> QED BY <2>1, <2>2, <1>1
<1>4. CASE Spin!TryLock(c)
  <2>1. SpinHolders' = IF slock = 1 THEN {c} ELSE SpinHolders
    BY <1>4 DEF Spin!TryLock, Spin!Goto
  <2> QED BY <2>1, <1>1
<1>5. CASE Spin!Unlock(c)
  <2>1. c \in SpinHolders /\ SpinHolders' = SpinHolders \ {c}
    BY <1>5 DEF Spin!Unlock, Spin!Goto
  <2> QED BY <2>1, <1>2
<1>6. CASE Spin!Spin(c) \/ Spin!UnlockWait(c) \/ Spin!WaitEnds(c)
  BY <1>6 DEF Spin!Spin, Spin!UnlockWait, Spin!WaitEnds, Spin!Goto
<1> QED BY <1>3, <1>4, <1>5, <1>6

-----------------------------------------------------------------------------
(* The reader/writer lock.                                                 *)
LEMMA RwSets == \A S : Rw!Cardinality(S) = Cardinality(S) /\ (Rw!IsFiniteSet(S) <=> IsFiniteSet(S))
<1>1. \A S : Rw!IsFiniteSet(S) <=> IsFiniteSet(S)
  BY Zenon DEF Rw!IsFiniteSet, IsFiniteSet
<1>2. \A S : Rw!Cardinality(S) = Cardinality(S)
  BY Zenon DEF Rw!Cardinality, Cardinality
<1> QED BY <1>1, <1>2

RwStates == {"idle", "rtry", "rfail", "rwait", "reading", "wtry", "wfail", "wwait", "writing", "restore"}
RwIn(S) == At(rpc, Rw!Contexts, S)
RwReads == Cardinality(RwIn({"reading", "rfail"}))
RwWrites == Cardinality(RwIn({"writing", "wfail"}))

(* Handlers only read; while one runs interrupts are on, and who writes    *)
(* has them off.                                                           *)
RwInv ==
  /\ rpc \in [Rw!Contexts -> RwStates] /\ rirqs \in [Cpus -> BOOLEAN]
  /\ rlock = RwBias - RwReads - RwBias * RwWrites
  /\ \A u \in Cpus : rpc[<<u, "irq">>] \in {"idle", "rtry", "rfail", "rwait", "reading"}
  /\ \A u \in Cpus : rpc[<<u, "irq">>] # "idle" => rirqs[u]
  /\ \A u \in Cpus : rpc[<<u, "task">>] \in {"wtry", "wfail", "wwait", "writing", "restore"} => ~rirqs[u]
  /\ \A c, d \in RwIn({"writing"}) : c = d
  /\ RwIn({"writing"}) # {} => RwIn({"reading"}) = {}

LEMMA RwSizes ==
  /\ IsFiniteSet(Rw!Contexts) /\ IsFiniteSet(Cpus)
  /\ RwBias \in Nat /\ RwHalf \in Nat /\ RwBias < RwHalf /\ Cardinality(Cpus) \in Nat
  /\ RwBias > Cardinality(Rw!Contexts) /\ RwBias * Cardinality(Cpus) <= RwHalf
<1>1. Rw!BiasOK
  BY Sizes
<1>2. IsFiniteSet({"task", "irq"})
  <2>1. IsFiniteSet({"task"}) /\ {"task", "irq"} = {"task"} \union {"irq"}
    BY FewElements
  <2> QED BY <2>1, FS_AddElement
<1>3. IsFiniteSet(Cpus) /\ IsFiniteSet(Rw!Contexts)
  BY <1>1, <1>2, FS_Product, RwSets DEF Rw!BiasOK, Rw!Contexts
<1> QED BY <1>1, <1>3, FS_CardinalityType, RwSets DEF Rw!BiasOK

(* The counts stay within what keeps the counter from coming round.        *)
LEMMA RwRange ==
  ASSUME NEW f \in [Rw!Contexts -> RwStates],
         \A u \in Cpus : f[<<u, "irq">>] \in {"idle", "rtry", "rfail", "rwait", "reading"},
         NEW reads, reads = Cardinality(At(f, Rw!Contexts, {"reading", "rfail"})),
         NEW writes, writes = Cardinality(At(f, Rw!Contexts, {"writing", "wfail"}))
  PROVE  /\ reads \in Nat /\ writes \in Nat /\ reads < RwBias
         /\ RwBias * writes \in Nat /\ RwBias * writes <= RwHalf
         /\ RwBias - reads - RwBias * writes \in -RwHalf .. RwHalf - 1
<1>1. reads \in Nat /\ writes \in Nat /\ reads < RwBias
  BY RwSizes, Somewhere, FS_CardinalityType
<1>2. writes <= Cardinality(Cpus)
  <2> DEFINE of == [u \in Cpus |-> <<u, "task">>]
             tasks == {<<u, "task">> : u \in Cpus}
  <2>1. At(f, Rw!Contexts, {"writing", "wfail"}) \subseteq tasks
    BY DEF At, Rw!Contexts
  <2>2. of \in Surjection(Cpus, tasks)
    BY DEF Surjection
  <2>3. IsFiniteSet(tasks) /\ Cardinality(tasks) <= Cardinality(Cpus)
    BY <2>2, RwSizes, FS_Surjection
  <2> HIDE DEF tasks
  <2> QED BY <2>1, <2>3, Smaller, RwSizes
<1>3. RwBias * writes \in Nat /\ RwBias * writes <= RwHalf
  <2>1. RwBias * writes \in Nat /\ RwBias * writes <= RwBias * Cardinality(Cpus) /\ RwBias * Cardinality(Cpus) \in Nat
    BY <1>1, <1>2, RwSizes, Product
  <2> QED BY <2>1, RwSizes
<1> QED BY <1>1, <1>3, RwSizes

LEMMA RwExact ==
  ASSUME NEW a \in Int, NEW b \in Int, a - b \in -RwHalf .. RwHalf - 1
  PROVE  Rw!Minus(a, b) = a - b
<1>1. (a - b + RwHalf) % (2 * RwHalf) = a - b + RwHalf
  BY RwSizes
<1> QED BY <1>1, RwSizes DEF Rw!Minus

LEMMA RwInit == Rw!Init => RwInv
<1> SUFFICES ASSUME Rw!Init PROVE RwInv
  OBVIOUS
<1> USE DEF Rw!Init
<1>1. RwIn({"reading", "rfail"}) = {} /\ RwIn({"writing", "wfail"}) = {} /\ RwIn({"writing"}) = {} /\ RwIn({"reading"}) = {}
  BY DEF RwIn, At
<1>2. RwReads = 0 /\ RwWrites = 0
  BY <1>1, FewElements DEF RwReads, RwWrites
<1>3. rlock = RwBias - RwReads - RwBias * RwWrites
  BY <1>2, RwSizes
<1> QED BY <1>1, <1>3 DEF RwInv, RwStates, Rw!Contexts

(* What a step of one context does to the counts.                          *)
LEMMA RwStep ==
  ASSUME RwInv, NEW c \in Rw!Contexts, NEW to \in RwStates, Rw!Goto(c, to)
  PROVE  /\ rpc' \in [Rw!Contexts -> RwStates]
         /\ RwReads' = RwReads + (IF to \in {"reading", "rfail"} THEN 1 ELSE 0)
                               - (IF rpc[c] \in {"reading", "rfail"} THEN 1 ELSE 0)
         /\ RwWrites' = RwWrites + (IF to \in {"writing", "wfail"} THEN 1 ELSE 0)
                                 - (IF rpc[c] \in {"writing", "wfail"} THEN 1 ELSE 0)
         /\ \A S : RwIn(S)' = IF to \in S THEN RwIn(S) \union {c} ELSE RwIn(S) \ {c}
<1>1. rpc \in [Rw!Contexts -> RwStates] /\ rpc' = [rpc EXCEPT ![c] = to]
  BY DEF RwInv, Rw!Goto
<1>2. \A S : /\ At(rpc', Rw!Contexts, S) = IF to \in S THEN At(rpc, Rw!Contexts, S) \union {c} ELSE At(rpc, Rw!Contexts, S) \ {c}
             /\ Cardinality(At(rpc', Rw!Contexts, S)) = Cardinality(At(rpc, Rw!Contexts, S)) + (IF to \in S THEN 1 ELSE 0) - (IF rpc[c] \in S THEN 1 ELSE 0)
  <2>1. IsFiniteSet(Rw!Contexts) /\ Moved(Rw!Contexts, rpc, rpc', c, to)
    BY <1>1, RwSizes DEF Moved
  <2> QED BY <2>1, Moves
<1>3. \A S : RwIn(S)' = IF to \in S THEN RwIn(S) \union {c} ELSE RwIn(S) \ {c}
  BY <1>2 DEF RwIn
<1> QED BY <1>1, <1>2, <1>3 DEF RwReads, RwWrites, RwIn

(* A positive counter: nobody writes; a full one: nobody reads either.     *)
LEMMA RwEmpty ==
  ASSUME RwInv
  PROVE  /\ rlock \in Int
         /\ rlock > 0 => RwIn({"writing"}) = {}
         /\ rlock = RwBias => RwIn({"writing"}) = {} /\ RwIn({"reading"}) = {}
<1>1. /\ RwReads \in Nat /\ RwWrites \in Nat /\ RwBias * RwWrites \in Nat
      /\ rlock = RwBias - RwReads - RwBias * RwWrites
  BY RwRange DEF RwInv, RwReads, RwWrites, RwIn
<1>2. ASSUME rlock > 0 \/ rlock = RwBias PROVE RwWrites = 0
  <2> SUFFICES ASSUME RwWrites >= 1 PROVE FALSE
    BY <1>1
  <2>1. RwBias * 1 <= RwBias * RwWrites
    BY <1>1, RwSizes, Product
  <2>2. RwBias > 0
    BY RwSizes, FS_CardinalityType
  <2> QED BY <1>1, <1>2, <2>1, <2>2, RwSizes
<1>3. RwWrites = 0 => RwIn({"writing"}) = {}
  <2>1. RwWrites = 0 => RwIn({"writing", "wfail"}) = {}
    BY RwSizes, Somewhere DEF RwWrites, RwIn
  <2> QED BY <2>1 DEF RwIn, At
<1>4. RwReads = 0 => RwIn({"reading"}) = {}
  <2>1. RwReads = 0 => RwIn({"reading", "rfail"}) = {}
    BY RwSizes, Somewhere DEF RwReads, RwIn
  <2> QED BY <2>1 DEF RwIn, At
<1>5. rlock = RwBias => RwReads = 0
  BY <1>1, RwSizes
<1> QED BY <1>1, <1>2, <1>3, <1>4, <1>5, RwSizes

(* The counter follows the counts, without coming round.                   *)
LEMMA RwCount ==
  ASSUME RwInv, NEW c \in Rw!Contexts, NEW to \in RwStates, Rw!Goto(c, to),
         c[2] = "irq" => to \in {"idle", "rtry", "rfail", "rwait", "reading"},
         NEW d \in Int, rlock' = Rw!Minus(rlock, d),
         RwReads' + RwBias * RwWrites' = RwReads + RwBias * RwWrites + d
  PROVE  rlock' = RwBias - RwReads' - RwBias * RwWrites' /\ rlock' = rlock - d
<1>1. /\ rpc' \in [Rw!Contexts -> RwStates]
      /\ \A u \in Cpus : rpc'[<<u, "irq">>] \in {"idle", "rtry", "rfail", "rwait", "reading"}
  BY RwStep DEF RwInv, Rw!Goto, Rw!Contexts
<1>2. RwBias - RwReads' - RwBias * RwWrites' \in -RwHalf .. RwHalf - 1
      /\ RwReads' \in Nat /\ RwBias * RwWrites' \in Nat
  BY <1>1, RwRange DEF RwReads, RwWrites, RwIn
<1>3. RwReads \in Nat /\ RwBias * RwWrites \in Nat /\ rlock = RwBias - RwReads - RwBias * RwWrites
  BY RwRange DEF RwInv, RwReads, RwWrites, RwIn
<1>4. rlock - d = RwBias - RwReads' - RwBias * RwWrites' /\ rlock \in Int
  BY <1>2, <1>3, RwSizes
<1> QED BY <1>2, <1>4, RwExact

LEMMA RwNext == ASSUME RwInv, Rw!Next PROVE RwInv'
<1> USE DEF Rw!At, Rw!Runs
<1>1. RwReads \in Nat /\ RwWrites \in Nat /\ RwBias * RwWrites \in Nat /\ RwBias \in Nat
  BY RwRange, RwSizes DEF RwInv, RwReads, RwWrites, RwIn
<1>2. RwBias * (RwWrites + 1) = RwBias * RwWrites + RwBias /\ RwBias * (RwWrites - 1) = RwBias * RwWrites - RwBias
  BY <1>1
<1>3. ASSUME NEW c \in Rw!Contexts, NEW to \in RwStates, Rw!Goto(c, to), Rw!Runs(c), rpc[c] # to,
             c[2] = "irq" => to \in {"idle", "rtry", "rfail", "rwait", "reading"},
             c[2] = "irq" /\ rpc[c] = "idle" => rirqs[c[1]],
             \/ rirqs' = rirqs /\ (to \in {"wtry", "wfail", "wwait", "writing", "restore"} => ~rirqs[c[1]])
             \/ c[2] = "task" /\ to = "wtry" /\ rirqs' = [rirqs EXCEPT ![c[1]] = FALSE]
             \/ c[2] = "task" /\ to = "idle" /\ rirqs' = [rirqs EXCEPT ![c[1]] = TRUE],
             rlock' = RwBias - RwReads' - RwBias * RwWrites',
             to = "reading" => RwIn({"writing"}) = {},
             to = "writing" => RwIn({"writing"}) = {} /\ RwIn({"reading"}) = {}
      PROVE  RwInv'
  <2>0. /\ RwIn({"writing"})' = IF to = "writing" THEN RwIn({"writing"}) \union {c} ELSE RwIn({"writing"}) \ {c}
        /\ RwIn({"reading"})' = IF to = "reading" THEN RwIn({"reading"}) \union {c} ELSE RwIn({"reading"}) \ {c}
    BY <1>3, RwStep
  <2> USE DEF RwInv, Rw!Goto, Rw!Contexts
  <2>1. rpc' \in [Rw!Contexts -> RwStates] /\ rirqs' \in [Cpus -> BOOLEAN]
    BY <1>3
  <2>2. /\ \A u \in Cpus : rpc'[<<u, "irq">>] \in {"idle", "rtry", "rfail", "rwait", "reading"}
        /\ \A u \in Cpus : rpc'[<<u, "irq">>] # "idle" => rirqs'[u]
        /\ \A u \in Cpus : rpc'[<<u, "task">>] \in {"wtry", "wfail", "wwait", "writing", "restore"} => ~rirqs'[u]
    BY <1>3
  <2>3. /\ \A e, d \in RwIn({"writing"})' : e = d
        /\ RwIn({"writing"})' # {} => RwIn({"reading"})' = {}
    <3>2. /\ \A e, d \in RwIn({"writing"}) : e = d
          /\ RwIn({"writing"}) # {} => RwIn({"reading"}) = {}
          /\ to = "reading" => RwIn({"writing"}) = {}
          /\ to = "writing" => RwIn({"writing"}) = {} /\ RwIn({"reading"}) = {}
      BY <1>3
    <3> QED BY ONLY <2>0, <3>2
  <2> QED BY <1>3, <2>1, <2>2, <2>3
<1>4. ASSUME NEW c \in Rw!Contexts
      PROVE  /\ c[1] \in Cpus /\ c[2] \in {"task", "irq"} /\ c = <<c[1], c[2]>>
             /\ c[2] = "irq" => rpc[c] \in {"idle", "rtry", "rfail", "rwait", "reading"}
             /\ rpc[c] \in {"wtry", "wfail", "wwait", "writing", "restore"} => c[2] = "task" /\ ~rirqs[c[1]]
  BY <1>4 DEF RwInv, Rw!Contexts
<1>5. rlock = RwBias - RwReads - RwBias * RwWrites /\ rlock \in Int
  BY RwEmpty DEF RwInv
<1>6. ASSUME NEW c \in Rw!Contexts, Rw!ReadLock(c) PROVE RwInv'
  <2> DEFINE to == IF Rw!ReadFails(rlock') THEN "rfail" ELSE "reading"
  <2>1. to \in {"rfail", "reading"} /\ to \in RwStates /\ Rw!Goto(c, to) /\ rpc[c] = "rtry" /\ Rw!Runs(c) /\ rirqs' = rirqs
    BY <1>6 DEF Rw!ReadLock, RwStates
  <2> HIDE DEF to
  <2>2. RwReads' = RwReads + 1 /\ RwWrites' = RwWrites
    BY <2>1, RwStep, <1>1
  <2>3. rlock' = RwBias - RwReads' - RwBias * RwWrites' /\ rlock' = rlock - 1
    BY <1>1, <1>6, <2>1, <2>2, RwCount DEF Rw!ReadLock
  <2>4. to = "reading" => RwIn({"writing"}) = {}
    BY <1>5, <2>3, RwEmpty DEF to, Rw!ReadFails
  <2> QED BY <1>3, <1>4, <2>1, <2>3, <2>4
<1>7. ASSUME NEW c \in Rw!Contexts, Rw!WriteLock(c) PROVE RwInv'
  <2> DEFINE to == IF Rw!WriteFails(rlock') THEN "wfail" ELSE "writing"
  <2>1. to \in {"wfail", "writing"} /\ to \in RwStates /\ Rw!Goto(c, to) /\ rpc[c] = "wtry" /\ Rw!Runs(c) /\ rirqs' = rirqs
    BY <1>7 DEF Rw!WriteLock, RwStates
  <2> HIDE DEF to
  <2>2. RwReads' = RwReads /\ RwWrites' = RwWrites + 1
    BY <2>1, RwStep, <1>1
  <2>3. c[2] = "task" /\ ~rirqs[c[1]]
    BY <1>4, <2>1
  <2>4. rlock' = RwBias - RwReads' - RwBias * RwWrites' /\ rlock' = rlock - RwBias
    BY <1>1, <1>2, <1>7, <2>1, <2>2, <2>3, RwCount DEF Rw!WriteLock
  <2>5. to = "writing" => RwIn({"writing"}) = {} /\ RwIn({"reading"}) = {}
    BY <1>1, <1>5, <2>4, RwEmpty DEF to, Rw!WriteFails
  <2> QED BY <1>3, <2>1, <2>3, <2>4, <2>5
<1>8. ASSUME NEW c \in Rw!Contexts, NEW from \in {"rfail", "reading"}, NEW to \in {"rwait", "idle"},
             rpc[c] = from, Rw!Runs(c), Rw!Goto(c, to), rlock' = Rw!Minus(rlock, -1), rirqs' = rirqs
      PROVE  RwInv'
  <2>1. to \in RwStates /\ to \in {"idle", "rtry", "rfail", "rwait", "reading"}
    BY DEF RwStates
  <2>2. RwReads' = RwReads - 1 /\ RwWrites' = RwWrites
    BY <1>1, <1>8, <2>1, RwStep
  <2>3. rlock' = RwBias - RwReads' - RwBias * RwWrites'
    BY <1>1, <1>8, <2>1, <2>2, RwCount
  <2> QED BY <1>3, <1>4, <1>8, <2>1, <2>3
<1>9. ASSUME NEW c \in Rw!Contexts, NEW from \in {"wfail", "writing"}, NEW to \in {"wwait", "restore"},
             rpc[c] = from, Rw!Runs(c), Rw!Goto(c, to), rlock' = Rw!Minus(rlock, -RwBias), rirqs' = rirqs
      PROVE  RwInv'
  <2>1. to \in RwStates /\ c[2] = "task" /\ ~rirqs[c[1]]
    BY <1>4, <1>9 DEF RwStates
  <2>2. RwReads' = RwReads /\ RwWrites' = RwWrites - 1
    BY <1>1, <1>9, <2>1, RwStep
  <2>3. rlock' = RwBias - RwReads' - RwBias * RwWrites'
    BY <1>1, <1>2, <1>9, <2>1, <2>2, RwCount
  <2> QED BY <1>3, <1>9, <2>1, <2>3
<1>10. ASSUME NEW c \in Rw!Contexts, NEW from \in {"idle", "rwait", "wwait", "restore"}, NEW to \in {"rtry", "wtry", "idle"},
              rpc[c] = from, Rw!Goto(c, to), rlock' = rlock
       PROVE  rlock' = RwBias - RwReads' - RwBias * RwWrites'
  <2>1. to \in RwStates
    BY DEF RwStates
  <2>2. RwReads' = RwReads /\ RwWrites' = RwWrites
    BY <1>1, <1>10, <2>1, RwStep
  <2> QED BY <1>5, <1>10, <2>2
<1>11. ASSUME NEW c \in Rw!Contexts, \/ Rw!ReadUndo(c) \/ Rw!ReadUnlock(c) \/ Rw!WriteUndo(c) \/ Rw!WriteUnlock(c)
       PROVE  RwInv'
  BY <1>8, <1>9, <1>11 DEF Rw!ReadUndo, Rw!ReadUnlock, Rw!WriteUndo, Rw!WriteUnlock
<1>12. ASSUME NEW c \in Rw!Contexts, \/ Rw!ReadWait(c) \/ Rw!WriteWait(c) \/ Rw!Restore(c)
                                     \/ Rw!BeginRead(c) \/ Rw!BeginWrite(c)
       PROVE  RwInv'
  <2> USE <1>3, <1>4, <1>10 DEF RwStates
  <2>1. CASE Rw!ReadWait(c)
    BY <2>1 DEF Rw!ReadWait
  <2>2. CASE Rw!WriteWait(c)
    BY <2>2 DEF Rw!WriteWait
  <2>3. CASE Rw!Restore(c)
    BY <2>3 DEF Rw!Restore
  <2>4. CASE Rw!BeginRead(c)
    BY <2>4 DEF Rw!BeginRead
  <2>5. CASE Rw!BeginWrite(c)
    BY <2>5 DEF Rw!BeginWrite
  <2> QED BY <1>12, <2>1, <2>2, <2>3, <2>4, <2>5
<1>13. ASSUME NEW u \in Cpus, Rw!Interrupt(u) PROVE RwInv'
  <2>1. <<u, "irq">> \in Rw!Contexts /\ "rtry" \in RwStates /\ <<u, "irq">>[1] = u /\ <<u, "irq">>[2] = "irq"
    BY DEF Rw!Contexts, RwStates
  <2> QED BY <1>3, <1>10, <1>13, <2>1 DEF Rw!Interrupt
<1> QED BY <1>6, <1>7, <1>11, <1>12, <1>13 DEF Rw!Next, Rw!Go

(* The counter is kept, and no handler waits for the task below it.        *)
LEMMA RwKept == RwInv => Rw!TypeOK /\ Rw!Counted /\ Rw!NoSelfDeadlock
<1> SUFFICES ASSUME RwInv PROVE Rw!TypeOK /\ Rw!Counted /\ Rw!NoSelfDeadlock
  OBVIOUS
<1>1. \A S : Rw!Having(S) = RwIn(S)
  BY DEF Rw!Having, RwIn, At
<1>2. Rw!TypeOK
  BY RwRange DEF RwInv, RwReads, RwWrites, RwIn, RwStates, Rw!TypeOK
<1>3. Rw!Counted
  BY <1>1, RwSets DEF RwInv, RwReads, RwWrites, Rw!Counted
<1>4. Rw!NoSelfDeadlock
  BY DEF RwInv, Rw!NoSelfDeadlock
<1> QED BY <1>2, <1>3, <1>4

(* A step lets one reader or the one writer in or out, or nobody.          *)
LEMMA RwExcludes ==
  ASSUME RwInv, Rw!Next
  PROVE  Rw!ImplementsExclusion!Next
         \/ (Rw!Having({"reading"})' = Rw!Having({"reading"}) /\ Rw!Having({"writing"})' = Rw!Having({"writing"}))
<1>1. \A S : Rw!Having(S) = RwIn(S) /\ Rw!Having(S)' = RwIn(S)'
  BY DEF Rw!Having, RwIn, At
<1>2. RwInv'
  BY RwNext
<1>3. PICK c \in Rw!Contexts, to \in RwStates :
             Rw!Goto(c, to) /\ ~(rpc[c] \in {"reading", "writing"} /\ to \in {"reading", "writing"})
  BY DEF Rw!At, Rw!Next, Rw!Go, Rw!ReadLock, Rw!ReadUndo, Rw!ReadWait, Rw!ReadUnlock, Rw!WriteLock, Rw!WriteUndo,
         Rw!WriteWait, Rw!WriteUnlock, Rw!Restore, Rw!BeginRead, Rw!BeginWrite, Rw!Interrupt, Rw!Contexts, RwStates
<1>4. \A S : RwIn(S)' = IF to \in S THEN RwIn(S) \union {c} ELSE RwIn(S) \ {c}
  BY <1>3, RwStep
<1>5. \A S : c \in RwIn(S) <=> rpc[c] \in S
  BY DEF RwIn, At
<1> DEFINE r == RwIn({"reading"})
           w == RwIn({"writing"})
           rr == RwIn({"reading"})'
           ww == RwIn({"writing"})'
<1>6. /\ w # {} => r = {}
      /\ ww # {} => rr = {}
      /\ \A e, d \in w : e = d
      /\ \A e, d \in ww : e = d
  BY <1>2 DEF RwInv
<1>7. /\ rr = IF to = "reading" THEN r \union {c} ELSE r \ {c}
      /\ ww = IF to = "writing" THEN w \union {c} ELSE w \ {c}
  BY <1>4
<1>8. /\ c \in r <=> rpc[c] = "reading"
      /\ c \in w <=> rpc[c] = "writing"
  BY <1>5
<1> HIDE DEF r, w, rr, ww
<1>9. CASE c \in r
  <2>1. rr = r \ {c} /\ ww = w
    BY <1>3, <1>7, <1>8, <1>9
  <2> QED BY <1>1, <1>9, <2>1 DEF Rw!ImplementsExclusion!Next, Rw!ImplementsExclusion!EndRead, r, w, rr, ww
<1>10. CASE c \in w
  <2>1. ww = w \ {c} /\ rr = r
    BY <1>3, <1>6, <1>7, <1>8, <1>10
  <2> QED BY <1>1, <1>10, <2>1 DEF Rw!ImplementsExclusion!Next, Rw!ImplementsExclusion!EndWrite, r, w, rr, ww
<1>11. CASE c \notin r /\ c \notin w /\ to = "reading"
  <2>1. rr = r \union {c} /\ ww = w /\ c \in rr \ r
    BY <1>7, <1>11
  <2>2. w = {}
    BY <1>6, <2>1
  <2> QED BY <1>1, <2>1, <2>2 DEF Rw!ImplementsExclusion!Next, Rw!ImplementsExclusion!BeginRead, r, w, rr, ww
<1>12. CASE c \notin r /\ c \notin w /\ to = "writing"
  <2>1. rr = r /\ ww = w \union {c} /\ c \in ww
    BY <1>7, <1>12
  <2>2. r = {} /\ w = {} /\ ww = {c}
    BY <1>6, <1>12, <2>1
  <2> QED BY <1>1, <2>1, <2>2 DEF Rw!ImplementsExclusion!Next, Rw!ImplementsExclusion!BeginWrite, r, w, rr, ww
<1>13. CASE c \notin r /\ c \notin w /\ to \notin {"reading", "writing"}
  <2>1. rr = r /\ ww = w
    BY <1>7, <1>13
  <2> QED BY <1>1, <2>1 DEF r, w, rr, ww
<1> QED BY <1>9, <1>10, <1>11, <1>12, <1>13

-----------------------------------------------------------------------------
(* The semaphore.                                                          *)
LEMMA SemSets == \A S : Sem!Cardinality(S) = Cardinality(S) /\ (Sem!IsFiniteSet(S) <=> IsFiniteSet(S))
<1>1. \A S : Sem!IsFiniteSet(S) <=> IsFiniteSet(S)
  BY Zenon DEF Sem!IsFiniteSet, IsFiniteSet
<1>2. \A S : Sem!Cardinality(S) = Cardinality(S)
  BY Zenon DEF Sem!Cardinality, Cardinality
<1> QED BY <1>1, <1>2

SemNew == {"down", "interruptible", "trylock"}
SemLoops == {"down loop", "interruptible loop"}
SemGoing == {"down", "interruptible", "trylock", "up", "got", "eintr"}
SemStates == SemGoing \union SemLoops \union {"idle", "held"}
SemIn(S) == At(mpc, Procs, S)
SemHeld == Cardinality(SemIn({"held", "got"}))
SemTries == Cardinality(SemIn(SemNew))

(* What the count and "sleepers" lack is who has the semaphore and who     *)
(* counted itself and has not looked again; "sleepers" says that somebody  *)
(* waits; and if the count lets one in while some sleep, there is one that *)
(* will look, or pass the wake-up on.                                      *)
SemInv ==
  /\ mpc \in [Procs -> SemStates] /\ msleepers \in {0, 1}
  /\ masleep \subseteq mqueue /\ mqueue \subseteq Procs /\ msignal \subseteq Procs
  /\ masleep \subseteq SemIn(SemLoops)
  /\ msleepers = 1 => SemIn(SemLoops) # {}
  /\ mcount = Count - SemHeld - SemTries - msleepers
  /\ SemHeld <= Count
  /\ masleep # {} /\ mcount >= 0 => SemIn(SemGoing) \union (SemIn(SemLoops) \ masleep) # {}

LEMMA SemSizes == IsFiniteSet(Procs) /\ Count \in Nat /\ Count > 0
<1>1. Sem!CountOK
  BY Sizes
<1> QED BY <1>1, SemSets DEF Sem!CountOK

LEMMA SemInit == Sem!Init => SemInv
<1> SUFFICES ASSUME Sem!Init PROVE SemInv
  OBVIOUS
<1> USE DEF Sem!Init
<1>1. SemIn({"held", "got"}) = {} /\ SemIn(SemNew) = {}
  BY DEF SemIn, At, SemNew
<1>2. SemHeld = 0 /\ SemTries = 0
  BY <1>1, FewElements DEF SemHeld, SemTries
<1> QED BY <1>2, SemSizes DEF SemInv, SemStates, SemGoing, SemLoops

(* What a step of one process does to the counts.                          *)
SemGoes(p, to) == mpc' = [mpc EXCEPT ![p] = to]

LEMMA SemStep ==
  ASSUME SemInv, NEW p \in Procs, NEW to \in SemStates, SemGoes(p, to)
  PROVE  /\ mpc' \in [Procs -> SemStates]
         /\ SemHeld \in Nat /\ SemTries \in Nat /\ SemHeld' \in Nat /\ SemTries' \in Nat
         /\ SemHeld' = SemHeld + (IF to \in {"held", "got"} THEN 1 ELSE 0)
                               - (IF mpc[p] \in {"held", "got"} THEN 1 ELSE 0)
         /\ SemTries' = SemTries + (IF to \in SemNew THEN 1 ELSE 0) - (IF mpc[p] \in SemNew THEN 1 ELSE 0)
         /\ SemIn(SemLoops)' = IF to \in SemLoops THEN SemIn(SemLoops) \union {p} ELSE SemIn(SemLoops) \ {p}
         /\ SemIn(SemGoing)' = IF to \in SemGoing THEN SemIn(SemGoing) \union {p} ELSE SemIn(SemGoing) \ {p}
         /\ p \in SemIn(SemLoops) <=> mpc[p] \in SemLoops
         /\ p \in SemIn(SemGoing) <=> mpc[p] \in SemGoing
<1>1. mpc \in [Procs -> SemStates] /\ IsFiniteSet(Procs) /\ Moved(Procs, mpc, mpc', p, to)
  BY SemSizes DEF SemInv, Moved, SemGoes
<1>2. \A S : /\ At(mpc', Procs, S) = IF to \in S THEN At(mpc, Procs, S) \union {p} ELSE At(mpc, Procs, S) \ {p}
             /\ Cardinality(At(mpc, Procs, S)) \in Nat /\ Cardinality(At(mpc', Procs, S)) \in Nat
             /\ Cardinality(At(mpc', Procs, S)) = Cardinality(At(mpc, Procs, S)) + (IF to \in S THEN 1 ELSE 0) - (IF mpc[p] \in S THEN 1 ELSE 0)
  <2>1. IsFiniteSet(Procs) /\ Moved(Procs, mpc, mpc', p, to)
    BY <1>1
  <2> QED BY <2>1, Moves
<1>3. /\ p \in SemIn(SemLoops) <=> mpc[p] \in SemLoops
      /\ p \in SemIn(SemGoing) <=> mpc[p] \in SemGoing
  BY DEF SemIn, At
<1>4. /\ SemIn(SemLoops)' = IF to \in SemLoops THEN SemIn(SemLoops) \union {p} ELSE SemIn(SemLoops) \ {p}
      /\ SemIn(SemGoing)' = IF to \in SemGoing THEN SemIn(SemGoing) \union {p} ELSE SemIn(SemGoing) \ {p}
  <2>1. SemLoops' = SemLoops /\ SemGoing' = SemGoing
    BY DEF SemLoops, SemGoing
  <2> QED BY <1>2, <2>1 DEF SemIn
<1>5. /\ SemHeld \in Nat /\ SemHeld' \in Nat
      /\ SemHeld' = SemHeld + (IF to \in {"held", "got"} THEN 1 ELSE 0)
                            - (IF mpc[p] \in {"held", "got"} THEN 1 ELSE 0)
  BY <1>2 DEF SemHeld, SemIn
<1>6. /\ SemTries \in Nat /\ SemTries' \in Nat
      /\ SemTries' = SemTries + (IF to \in SemNew THEN 1 ELSE 0) - (IF mpc[p] \in SemNew THEN 1 ELSE 0)
  <2>1. SemNew' = SemNew
    BY DEF SemNew
  <2> QED BY <1>2, <2>1 DEF SemTries, SemIn
<1>7. mpc' \in [Procs -> SemStates]
  <2>1. SemStates' = SemStates
    BY DEF SemStates, SemGoing, SemLoops
  <2> QED BY <1>1 DEF SemGoes
<1> QED BY <1>3, <1>4, <1>5, <1>6, <1>7

(* A wake-up finds a sleeper if there is one.                              *)
LEMMA SemWakes ==
  ASSUME SemInv, NEW q, masleep \subseteq q, Sem!Wake(q)
  PROVE  IF masleep = {} THEN masleep' = {} ELSE \E w \in masleep : masleep' = masleep \ {w}
<1>1. CASE q \intersect masleep = {}
  <2>1. masleep = {} /\ masleep' = masleep \ {}
    BY <1>1 DEF Sem!Wake
  <2> QED BY <2>1
<1>2. CASE q \intersect masleep # {}
  BY <1>2 DEF Sem!Wake
<1> QED BY <1>1, <1>2

LEMMA SemNumbers == SemInv => SemHeld \in Nat /\ SemTries \in Nat /\ mcount \in Int /\ msleepers \in 0 .. 1
<1>1. SemHeld \in Nat /\ SemTries \in Nat
  BY SemSizes, Somewhere DEF SemHeld, SemTries, SemIn
<1> QED BY <1>1, SemSizes DEF SemInv

LEMMA SemNext == ASSUME SemInv, Sem!Next PROVE SemInv'
<1>0. SemHeld \in Nat /\ SemTries \in Nat /\ mcount \in Int /\ msleepers \in 0 .. 1 /\ Count \in Nat
  BY SemNumbers, SemSizes
<1>1. ASSUME NEW p \in Procs, NEW way \in Sem!Ways, Sem!Down(p, way) PROVE SemInv'
  <2> DEFINE to == IF Sem!Contended(mcount') THEN way ELSE "held"
  <2>1. /\ to \in SemNew \union {"held"} /\ mpc[p] = "idle" /\ SemGoes(p, to)
        /\ mcount' = mcount - 1 /\ (to = "held" <=> mcount' >= 0)
        /\ UNCHANGED <<msleepers, mqueue, masleep, msignal>>
    BY <1>1, <1>0 DEF Sem!Down, Sem!Goto, SemGoes, Sem!Ways, SemNew, Sem!Contended
  <2> HIDE DEF to
  <2>2. to \in SemStates /\ to \notin SemLoops
    BY <2>1 DEF SemStates, SemGoing, SemNew, SemLoops
  <2>3. SemHeld' = SemHeld + (IF to = "held" THEN 1 ELSE 0) /\ SemTries' = SemTries + (IF to = "held" THEN 0 ELSE 1)
        /\ mpc' \in [Procs -> SemStates]
    BY <1>0, <2>1, <2>2, SemStep DEF SemNew
  <2>4. SemIn(SemLoops)' = SemIn(SemLoops) /\ SemIn(SemGoing) \subseteq SemIn(SemGoing)'
    <3>1. p \notin SemIn(SemLoops) /\ p \notin SemIn(SemGoing)
      BY <2>1, <2>2, SemStep DEF SemLoops, SemGoing
    <3>2. /\ SemIn(SemLoops)' = IF to \in SemLoops THEN SemIn(SemLoops) \union {p} ELSE SemIn(SemLoops) \ {p}
          /\ SemIn(SemGoing)' = IF to \in SemGoing THEN SemIn(SemGoing) \union {p} ELSE SemIn(SemGoing) \ {p}
      BY <2>1, <2>2, SemStep
    <3>3. SemIn(SemLoops)' = SemIn(SemLoops)
      BY <2>2, <3>1, <3>2
    <3>4. SemIn(SemGoing) \subseteq SemIn(SemGoing)'
      BY <3>1, <3>2
    <3> QED BY <3>3, <3>4
  <2>5. mcount' = Count - SemHeld' - SemTries' - msleepers' /\ SemHeld' <= Count
    BY <1>0, <2>1, <2>3 DEF SemInv
  <2>6. masleep' # {} /\ mcount' >= 0 => SemIn(SemGoing)' \union (SemIn(SemLoops)' \ masleep') # {}
    BY <1>0, <2>1, <2>4 DEF SemInv
  <2> QED BY <2>1, <2>3, <2>4, <2>5, <2>6 DEF SemInv
<1>2. ASSUME NEW p \in Procs, Sem!Up(p) PROVE SemInv'
  <2> DEFINE to == IF Sem!Waiting(mcount') THEN "up" ELSE "idle"
  <2>1. /\ to \in {"up", "idle"} /\ mpc[p] = "held" /\ SemGoes(p, to)
        /\ mcount' = mcount + 1 /\ (to = "up" <=> mcount' <= 0)
        /\ UNCHANGED <<msleepers, mqueue, masleep, msignal>>
    BY <1>2, <1>0 DEF Sem!Up, Sem!Goto, SemGoes, Sem!Waiting
  <2> HIDE DEF to
  <2>2. to \in SemStates /\ to \notin SemLoops /\ to \notin SemNew
    BY <2>1 DEF SemStates, SemGoing, SemNew, SemLoops
  <2>3. SemHeld' = SemHeld - 1 /\ SemTries' = SemTries /\ mpc' \in [Procs -> SemStates]
    BY <1>0, <2>1, <2>2, SemStep DEF SemNew
  <2>4. SemIn(SemLoops)' = SemIn(SemLoops) /\ SemIn(SemGoing) \subseteq SemIn(SemGoing)'
        /\ (to = "up" => p \in SemIn(SemGoing)')
    <3>1. p \notin SemIn(SemLoops) /\ p \notin SemIn(SemGoing)
      BY <2>1, <2>2, SemStep DEF SemLoops, SemGoing
    <3>2. to = "up" => to \in SemGoing
      BY DEF SemGoing
    <3>3. /\ SemIn(SemLoops)' = IF to \in SemLoops THEN SemIn(SemLoops) \union {p} ELSE SemIn(SemLoops) \ {p}
          /\ SemIn(SemGoing)' = IF to \in SemGoing THEN SemIn(SemGoing) \union {p} ELSE SemIn(SemGoing) \ {p}
      BY <2>1, <2>2, SemStep
    <3>4. SemIn(SemLoops)' = SemIn(SemLoops)
      BY <2>2, <3>1, <3>3
    <3>5. SemIn(SemGoing) \subseteq SemIn(SemGoing)' /\ (to = "up" => p \in SemIn(SemGoing)')
      BY <3>1, <3>2, <3>3
    <3> QED BY <3>4, <3>5
  <2>5. mcount' = Count - SemHeld' - SemTries' - msleepers' /\ SemHeld' <= Count
    BY <1>0, <2>1, <2>3 DEF SemInv
  <2>6. masleep' # {} /\ mcount' >= 0 => SemIn(SemGoing)' \union (SemIn(SemLoops)' \ masleep') # {}
    BY <1>0, <2>1, <2>4 DEF SemInv
  <2> QED BY <2>1, <2>3, <2>4, <2>5, <2>6 DEF SemInv
(* One that wakes and is done: a sleeper it wakes is under way.            *)
<1>3. ASSUME NEW p \in Procs, NEW to \in {"idle", "held"}, mpc[p] \in SemGoing, SemGoes(p, to),
             NEW q, Sem!Wake(q), masleep \subseteq q
      PROVE  /\ masleep' \subseteq masleep /\ masleep' \subseteq SemIn(SemLoops)' /\ SemIn(SemLoops)' = SemIn(SemLoops)
             /\ masleep' # {} => SemIn(SemGoing)' \union (SemIn(SemLoops)' \ masleep') # {}
             /\ mpc' \in [Procs -> SemStates] /\ p \notin masleep
             /\ SemHeld' = SemHeld + (IF to = "held" THEN 1 ELSE 0) - (IF mpc[p] = "got" THEN 1 ELSE 0)
             /\ SemTries' = SemTries - (IF mpc[p] \in SemNew THEN 1 ELSE 0)
  <2>1. to \in SemStates /\ to \notin SemLoops /\ to \notin SemNew /\ mpc[p] \notin SemLoops /\ mpc[p] # "held"
    BY <1>3 DEF SemStates, SemGoing, SemNew, SemLoops
  <2>2. SemIn(SemLoops)' = SemIn(SemLoops) /\ p \notin SemIn(SemLoops)
    BY <1>3, <2>1, SemStep
  <2>3. IF masleep = {} THEN masleep' = {} ELSE \E w \in masleep : masleep' = masleep \ {w}
    BY <1>3, SemWakes
  <2>4. mpc' \in [Procs -> SemStates]
        /\ SemHeld' = SemHeld + (IF to = "held" THEN 1 ELSE 0) - (IF mpc[p] = "got" THEN 1 ELSE 0)
        /\ SemTries' = SemTries - (IF mpc[p] \in SemNew THEN 1 ELSE 0)
    BY <1>0, <1>3, <2>1, SemStep
  <2>5. masleep \subseteq SemIn(SemLoops)
    BY DEF SemInv
  <2> QED BY <2>2, <2>3, <2>4, <2>5
<1>4. ASSUME NEW p \in Procs, Sem!UpWakeup(p) PROVE SemInv'
  <2>1. /\ mpc[p] = "up" /\ SemGoes(p, "idle") /\ Sem!Wake(mqueue)
        /\ UNCHANGED <<mcount, msleepers, mqueue, msignal>>
    BY <1>4 DEF Sem!UpWakeup, Sem!Goto, SemGoes
  <2>2. "up" \in SemGoing /\ "up" \notin SemNew
    BY DEF SemGoing, SemNew
  <2> QED BY <1>0, <1>3, <2>1, <2>2 DEF SemInv
<1>5. ASSUME NEW p \in Procs, Sem!Leave(p) PROVE SemInv'
  <2>1. PICK to \in {"held", "idle"} :
          /\ mpc[p] = (IF to = "held" THEN "got" ELSE "eintr") /\ SemGoes(p, to)
          /\ msignal' \subseteq msignal
    BY <1>5 DEF Sem!Leave, Sem!Goto, SemGoes
  <2>2. Sem!Wake(mqueue \ {p}) /\ mqueue' = mqueue \ {p} /\ UNCHANGED <<mcount, msleepers>>
    BY <1>5 DEF Sem!Leave, Sem!Goto, SemGoes
  <2>3. mpc[p] \in SemGoing /\ mpc[p] \notin SemNew /\ mpc[p] \notin SemLoops
    BY <2>1 DEF SemGoing, SemNew, SemLoops
  <2>4. masleep \subseteq mqueue \ {p}
    BY <2>3 DEF SemInv, SemIn, At
  <2> QED BY <1>0, <1>3, <2>1, <2>2, <2>3, <2>4 DEF SemInv
<1>6. ASSUME NEW p \in Procs, Sem!TryFails(p) PROVE SemInv'
  <2>1. /\ mpc[p] = "trylock" /\ SemGoes(p, "idle")
        /\ mcount' = mcount + msleepers + 1 /\ msleepers' = 0
        /\ IF mcount' >= 0 THEN Sem!Wake(mqueue) ELSE masleep' = masleep
        /\ UNCHANGED <<mqueue, msignal>>
    BY <1>6 DEF Sem!TryFails, Sem!Goto, SemGoes
  <2>2. "trylock" \in SemGoing /\ "trylock" \in SemNew
    BY DEF SemGoing, SemNew
  <2>3. CASE mcount' >= 0
    BY <1>0, <1>3, <2>1, <2>2, <2>3 DEF SemInv
  <2>4. CASE ~(mcount' >= 0)
    <3>1. "idle" \in SemStates /\ "idle" \notin SemLoops /\ "idle" \notin SemNew /\ "trylock" \notin SemLoops
      BY DEF SemStates, SemNew, SemLoops
    <3>2. /\ SemIn(SemLoops)' = SemIn(SemLoops) \ {p} /\ p \notin SemIn(SemLoops)
          /\ mpc' \in [Procs -> SemStates]
      BY <2>1, <3>1, SemStep
    <3>3. SemHeld' = SemHeld /\ SemTries' = SemTries - 1
      BY <1>0, <2>1, <2>2, <3>1, SemStep
    <3>4. SemIn(SemLoops)' = SemIn(SemLoops)
      BY <3>2
    <3> QED BY <1>0, <2>1, <2>4, <3>2, <3>3, <3>4 DEF SemInv
  <2> QED BY <2>3, <2>4
<1>7. ASSUME NEW p \in Procs, Sem!Signal(p) PROVE SemInv'
  <2>1. /\ mpc[p] \in {"interruptible", "interruptible loop"} /\ mpc' = mpc
        /\ msignal' = msignal \union {p} /\ masleep' = masleep \ {p}
        /\ UNCHANGED <<mcount, msleepers, mqueue>>
    BY <1>7 DEF Sem!Signal
  <2>2. \A S : SemIn(S)' = SemIn(S)
    BY <2>1 DEF SemIn
  <2>3. SemHeld' = SemHeld /\ SemTries' = SemTries
    BY <2>2 DEF SemHeld, SemTries
  <2>4. p \in SemIn(SemGoing) \union (SemIn(SemLoops) \ masleep')
    BY <2>1 DEF SemIn, At, SemGoing, SemLoops
  <2> QED BY <1>7, <2>1, <2>2, <2>3, <2>4 DEF SemInv
<1>8. ASSUME NEW p \in Procs, NEW way \in {"down", "interruptible"}, Sem!Sleep(p, way) PROVE SemInv'
  <2> DEFINE first == mpc[p] = way
             s == msleepers + (IF first THEN 1 ELSE 0)
             loop == Sem!Loop(way)
  <2>1. /\ first \/ (mpc[p] = loop /\ p \notin masleep)
        /\ mqueue' = mqueue \union {p} /\ msignal' = msignal
        /\ \/ /\ msleepers' = 0 /\ mcount' = mcount + s
              /\ SemGoes(p, "eintr") /\ masleep' = masleep
           \/ /\ mcount' = mcount + s - 1 /\ mcount' >= 0 /\ msleepers' = 0
              /\ SemGoes(p, "got") /\ masleep' = masleep
           \/ /\ mcount' = mcount + s - 1 /\ ~(mcount' >= 0) /\ msleepers' = 1
              /\ SemGoes(p, loop) /\ masleep' = masleep \union {p}
    BY <1>8 DEF Sem!Sleep, Sem!Goto, SemGoes
  <2>2. /\ way \in SemNew /\ way \notin SemLoops /\ loop \in SemLoops /\ loop \notin SemNew /\ loop \in SemStates
        /\ way \notin {"held", "got"} /\ loop \notin {"held", "got"}
        /\ {"eintr", "got"} \subseteq SemGoing /\ {"eintr", "got"} \subseteq SemStates
        /\ {"eintr", "got"} \intersect SemNew = {} /\ {"eintr", "got"} \intersect SemLoops = {}
    BY DEF SemNew, SemLoops, SemStates, SemGoing, Sem!Loop
  <2>3. p \notin masleep
    BY <2>1, <2>2 DEF SemInv, SemIn, At
  <2>4. s \in Nat /\ s = msleepers + (IF mpc[p] \in SemNew THEN 1 ELSE 0) /\ mpc[p] \notin {"held", "got"}
    BY <1>0, <2>1, <2>2
  <2> HIDE DEF s, first, loop
  <2>5. CASE msleepers' = 0 /\ mcount' = mcount + s /\ SemGoes(p, "eintr") /\ masleep' = masleep
    <3>1. /\ mpc' \in [Procs -> SemStates] /\ SemHeld' = SemHeld
          /\ SemTries' = SemTries - (IF mpc[p] \in SemNew THEN 1 ELSE 0)
          /\ SemIn(SemLoops)' = SemIn(SemLoops) \ {p} /\ SemIn(SemGoing)' = SemIn(SemGoing) \union {p}
      BY <1>0, <2>2, <2>4, <2>5, SemStep
    <3> QED BY <1>0, <2>1, <2>3, <2>4, <2>5, <3>1 DEF SemInv
  <2>6. CASE mcount' = mcount + s - 1 /\ mcount' >= 0 /\ msleepers' = 0 /\ SemGoes(p, "got") /\ masleep' = masleep
    <3>1. /\ mpc' \in [Procs -> SemStates] /\ SemHeld' = SemHeld + 1 /\ SemTries' \in Nat
          /\ SemTries' = SemTries - (IF mpc[p] \in SemNew THEN 1 ELSE 0)
          /\ SemIn(SemLoops)' = SemIn(SemLoops) \ {p} /\ SemIn(SemGoing)' = SemIn(SemGoing) \union {p}
      BY <1>0, <2>2, <2>4, <2>6, SemStep
    <3> QED BY <1>0, <2>1, <2>3, <2>4, <2>6, <3>1 DEF SemInv
  <2>7. CASE /\ mcount' = mcount + s - 1 /\ ~(mcount' >= 0) /\ msleepers' = 1
             /\ SemGoes(p, loop) /\ masleep' = masleep \union {p}
    <3>1. /\ mpc' \in [Procs -> SemStates] /\ SemHeld' = SemHeld /\ SemTries' \in Nat
          /\ SemTries' = SemTries - (IF mpc[p] \in SemNew THEN 1 ELSE 0)
          /\ SemIn(SemLoops)' = SemIn(SemLoops) \union {p}
      BY <1>0, <2>2, <2>4, <2>7, SemStep
    <3> QED BY <1>0, <2>1, <2>4, <2>7, <3>1 DEF SemInv
  <2> QED BY <2>1, <2>5, <2>6, <2>7 DEF s
<1> QED BY <1>1, <1>2, <1>4, <1>5, <1>6, <1>7, <1>8 DEF Sem!Next, Sem!Go

(* The count, who is in, and that nobody is forgotten.                     *)
LEMMA SemKept == SemInv => Sem!TypeOK /\ Sem!CountRestored /\ Sem!NoneForgotten /\ Sem!Excludes
<1> SUFFICES ASSUME SemInv PROVE Sem!TypeOK /\ Sem!CountRestored /\ Sem!NoneForgotten /\ Sem!Excludes
  OBVIOUS
<1>1. Sem!Holders = SemIn({"held", "got"})
  BY DEF Sem!Holders, SemIn, At
<1>2. Sem!Cardinality(Sem!Holders) = SemHeld /\ Sem!Cardinality(Procs) = Cardinality(Procs)
  BY <1>1, SemSets DEF SemHeld
<1>3. SemHeld \in Nat /\ SemTries \in Nat /\ mcount \in Int /\ msleepers \in 0 .. 1 /\ Count \in Nat
      /\ Cardinality(Procs) \in Nat
  BY SemNumbers, SemSizes, FS_CardinalityType
<1>4. SemHeld + SemTries + msleepers <= Cardinality(Procs)
  <2> DEFINE h == SemIn({"held", "got"})
             n == SemIn(SemNew)
             l == SemIn(SemLoops)
  <2>1. h \subseteq Procs /\ n \subseteq Procs /\ l \subseteq Procs /\ h \intersect n = {} /\ (h \union n) \intersect l = {}
    BY DEF SemIn, At, SemNew, SemLoops
  <2> HIDE DEF h, n, l
  <2>2. IsFiniteSet(h) /\ IsFiniteSet(n) /\ IsFiniteSet(h \union n) /\ Cardinality(h \union n) = Cardinality(h) + Cardinality(n)
    <3>1. IsFiniteSet(h) /\ IsFiniteSet(n) /\ Cardinality(h) \in Nat /\ Cardinality(n) \in Nat
      BY <2>1, SemSizes, Smaller
    <3>2. Cardinality(h \intersect n) = 0
      BY <2>1, FewElements
    <3>3. /\ IsFiniteSet(h \union n)
          /\ Cardinality(h \union n) = Cardinality(h) + Cardinality(n) - Cardinality(h \intersect n)
      BY <3>1, FS_Union
    <3> QED BY <3>1, <3>2, <3>3
  <2>3. Cardinality(h) = SemHeld /\ Cardinality(n) = SemTries
    BY DEF h, n, SemHeld, SemTries
  <2>4. h \union n \in SUBSET Procs
    BY <2>1
  <2>5. CASE msleepers = 0
    BY <1>3, <2>2, <2>3, <2>4, <2>5, Smaller, SemSizes
  <2>6. CASE msleepers = 1
    <3>1. PICK x \in Procs : x \notin h \union n
      BY <2>1, <2>6 DEF SemInv, l
    <3>2. Cardinality(h \union n) < Cardinality(Procs)
      BY <2>4, <3>1, Smaller, SemSizes
    <3> QED BY <1>3, <2>2, <2>3, <2>6, <3>2
  <2> QED BY <1>3, <2>5, <2>6
<1>5. Sem!TypeOK
  <2>1. SemStates = Sem!Slow \union {"idle", "held", "got"}
    BY DEF SemStates, SemGoing, SemLoops, Sem!Slow, Sem!Ways
  <2>2. mcount \in -Cardinality(Procs) .. Count /\ msleepers \in 0 .. Cardinality(Procs)
    BY <1>3, <1>4 DEF SemInv
  <2> QED BY <1>2, <2>1, <2>2 DEF SemInv, Sem!TypeOK
<1>6. ASSUME \A p \in Procs : mpc[p] \in {"idle", "held"} PROVE mcount = Count - SemHeld
  <2>1. SemIn(SemNew) = {} /\ SemIn(SemLoops) = {}
    BY <1>6 DEF SemIn, At, SemNew, SemLoops
  <2>2. SemTries = 0 /\ msleepers = 0
    BY <2>1, FewElements DEF SemInv, SemTries
  <2> QED BY <1>3, <2>2 DEF SemInv
<1>7. ASSUME masleep # {}, \A p \in Procs : mpc[p] \in {"idle", "held"} \/ p \in masleep PROVE SemHeld = Count
  <2>1. SemIn(SemNew) = {} /\ SemIn(SemGoing) \union (SemIn(SemLoops) \ masleep) = {}
    BY <1>7 DEF SemInv, SemIn, At, SemNew, SemLoops, SemGoing
  <2>2. SemTries = 0 /\ mcount < 0
    BY <1>3, <1>7, <2>1, FewElements DEF SemInv, SemTries
  <2> QED BY <1>3, <2>2 DEF SemInv
<1> QED BY <1>2, <1>5, <1>6, <1>7 DEF SemInv, Sem!CountRestored, Sem!NoneForgotten, Sem!Excludes

-----------------------------------------------------------------------------
(* The page.                                                               *)
LEMMA PageSets == \A S : Page!Cardinality(S) = Cardinality(S) /\ (Page!IsFiniteSet(S) <=> IsFiniteSet(S))
<1>1. \A S : Page!IsFiniteSet(S) <=> IsFiniteSet(S)
  BY Zenon DEF Page!IsFiniteSet, IsFiniteSet
<1>2. \A S : Page!Cardinality(S) = Cardinality(S)
  BY Zenon DEF Page!Cardinality, Cardinality
<1> QED BY <1>1, <1>2

PageUsers == {p \in Procs : ppc[p] # "none"}
PageOwners == {p \in Procs : ppc[p] \in {"locked", "done"}}

(* Who waits is in the queue until it is done, and who sleeps on an        *)
(* unlocked page is still to be woken.                                     *)
PageInv ==
  /\ ppc \in [Procs -> Page!States] /\ pfreed \in BOOLEAN /\ pflags \subseteq {"locked", "uptodate", "error"}
  /\ pcount = Cardinality(PageUsers)
  /\ pfreed <=> PageUsers = {}
  /\ pwait = {p \in Procs : ppc[p] \in {"looks", "asleep", "leaves"}}
  /\ "locked" \in pflags <=> PageOwners # {}
  /\ \A p, q \in PageOwners : p = q
  /\ (\E p \in Procs : ppc[p] = "asleep") /\ "locked" \notin pflags
       => \E p \in Procs : ppc[p] \in {"cleared", "wakes"}

LEMMA PageFinite ==
  /\ IsFiniteSet(Procs) /\ Cardinality(Procs) \in Nat
  /\ IsFiniteSet(PageUsers) /\ Cardinality(PageUsers) \in 0 .. Cardinality(Procs)
  /\ Cardinality(PageUsers) = 0 <=> PageUsers = {}
<1>1. IsFiniteSet(Procs)
  BY Sizes, PageSets DEF Page!ProcsOK
<1>2. PageUsers \in SUBSET Procs
  BY DEF PageUsers
<1> QED BY <1>1, <1>2, Smaller, FewElements

LEMMA PageInit == Page!Init => PageInv
<1> SUFFICES ASSUME Page!Init PROVE PageInv
  OBVIOUS
<1> USE DEF Page!Init
<1>1. PageUsers = {} /\ PageOwners = {}
  BY DEF PageUsers, PageOwners
<1> QED BY <1>1, FewElements DEF PageInv, Page!States

LEMMA PageNext == ASSUME PageInv, Page!Next PROVE PageInv'
<1> USE DEF PageInv, Page!Goto, Page!PageLocked
<1> PICK p \in Procs : Page!Alloc(p) \/ Page!Get(p) \/ Page!Put(p) \/ Page!TryLockPage(p) \/ Page!Go(p)
  BY DEF Page!Next
(* A reference more, a reference less.                                     *)
<1>1. CASE Page!Alloc(p)
  <2> USE <1>1 DEF Page!Alloc
  <2>1. PageUsers' = {p} /\ PageOwners' = {} /\ PageUsers = {} /\ PageOwners = {}
    BY DEF PageUsers, PageOwners
  <2>2. ppc' \in [Procs -> Page!States] /\ (\A q \in Procs : ppc'[q] \in {"none", "has"})
    BY <2>1 DEF Page!States, PageUsers
  <2>3. pcount' = Cardinality(PageUsers')
    BY <2>1, FewElements
  <2> QED BY <2>1, <2>2, <2>3 DEF PageUsers
<1>2. CASE Page!Get(p)
  <2> USE <1>2 DEF Page!Get
  <2>1. PageUsers' = PageUsers \union {p} /\ p \notin PageUsers /\ PageOwners' = PageOwners
    BY DEF PageUsers, PageOwners
  <2>2. pcount' = Cardinality(PageUsers') /\ PageUsers # {}
    BY <2>1, PageFinite, Counting
  <2>3. ppc' \in [Procs -> Page!States]
    BY DEF Page!States
  <2> QED BY <2>1, <2>2, <2>3
<1>3. CASE Page!Put(p)
  <2> USE <1>3 DEF Page!Put
  <2>1. PageUsers' = PageUsers \ {p} /\ p \in PageUsers /\ PageOwners' = PageOwners
    BY DEF PageUsers, PageOwners
  <2>2. pcount' = Cardinality(PageUsers') /\ (pcount' = 0 <=> PageUsers' = {})
    <3>1. IsFiniteSet(PageUsers \ {p}) /\ Cardinality(PageUsers \ {p}) = Cardinality(PageUsers) - 1
      BY <2>1, PageFinite, Counting
    <3> QED BY <2>1, <3>1, FewElements
  <2>3. ppc' \in [Procs -> Page!States]
    BY DEF Page!States
  <2> QED BY <2>1, <2>2, <2>3
(* All other steps keep who has a reference.                               *)
<1>4. CASE Page!TryLockPage(p)
  <2> USE <1>4 DEF Page!TryLockPage
  <2>1. PageUsers' = PageUsers /\ PageOwners' = IF PageOwners = {} THEN {p} ELSE PageOwners
    BY DEF PageUsers, PageOwners
  <2>2. ppc' \in [Procs -> Page!States]
    BY DEF Page!States
  <2>3. pwait' = {q \in Procs : ppc'[q] \in {"looks", "asleep", "leaves"}}
    OBVIOUS
  <2> QED BY <2>1, <2>2, <2>3
<1>5. CASE Page!Queue(p) \/ Page!Look(p) \/ Page!Leave(p)
  <2> USE <1>5 DEF Page!Queue, Page!Look, Page!Leave
  <2>1. PageUsers' = PageUsers /\ PageOwners' = PageOwners /\ UNCHANGED <<pcount, pflags, pfreed>>
    BY DEF PageUsers, PageOwners
  <2>2. ppc' \in [Procs -> Page!States]
    BY DEF Page!States
  <2>3. pwait' = {q \in Procs : ppc'[q] \in {"looks", "asleep", "leaves"}}
    OBVIOUS
  <2>4. (\E q \in Procs : ppc'[q] = "asleep") /\ "locked" \notin pflags' => \E q \in Procs : ppc'[q] \in {"cleared", "wakes"}
    BY <2>1
  <2> QED BY <2>1, <2>2, <2>3, <2>4
<1>6. CASE Page!Complete(p, "uptodate") \/ Page!Complete(p, "error")
  <2> USE <1>6 DEF Page!Complete
  <2>1. PageUsers' = PageUsers /\ PageOwners' = PageOwners /\ p \in PageOwners
    BY DEF PageUsers, PageOwners
  <2>2. ppc' \in [Procs -> Page!States] /\ UNCHANGED <<pcount, pwait, pfreed>>
    BY DEF Page!States
  <2>3. "locked" \in pflags' /\ pflags' \subseteq {"locked", "uptodate", "error"}
    BY <2>1
  <2>4. pwait' = {q \in Procs : ppc'[q] \in {"looks", "asleep", "leaves"}}
    OBVIOUS
  <2> QED BY <2>1, <2>2, <2>3, <2>4
<1>7. CASE Page!Clear(p)
  <2> USE <1>7 DEF Page!Clear
  <2>1. PageUsers' = PageUsers /\ PageOwners' = {}
    BY DEF PageUsers, PageOwners
  <2>2. ppc' \in [Procs -> Page!States]
    BY DEF Page!States
  <2> QED BY <2>1, <2>2
<1>8. CASE Page!Check(p)
  <2> USE <1>8 DEF Page!Check
  <2>1. PageUsers' = PageUsers /\ PageOwners' = PageOwners
    BY DEF PageUsers, PageOwners
  <2>2. ppc' \in [Procs -> Page!States]
    BY DEF Page!States
  <2> QED BY <2>1, <2>2
<1>9. CASE Page!Wake(p)
  <2> USE <1>9 DEF Page!Wake
  <2>1. PageUsers' = PageUsers /\ PageOwners' = PageOwners
    BY DEF PageUsers, PageOwners
  <2>2. ppc' \in [Procs -> Page!States] /\ \A q \in Procs : ppc'[q] # "asleep"
    BY DEF Page!States
  <2>3. pwait' = {q \in Procs : ppc'[q] \in {"looks", "asleep", "leaves"}}
    OBVIOUS
  <2> QED BY <2>1, <2>2, <2>3
<1> QED BY <1>1, <1>2, <1>3, <1>4, <1>5, <1>6, <1>7, <1>8, <1>9 DEF Page!Go

LEMMA PageKept == PageInv => Page!TypeOK /\ Page!Counted /\ Page!NoLostWakeup
<1> SUFFICES ASSUME PageInv PROVE Page!TypeOK /\ Page!Counted /\ Page!NoLostWakeup
  OBVIOUS
<1> USE DEF PageInv, Page!PageLocked
<1>1. Page!TypeOK
  BY PageFinite, PageSets DEF Page!TypeOK
<1>2. Page!Counted
  <2>1. pcount = Page!Cardinality({p \in Procs : ppc[p] # "none"}) /\ (pfreed <=> pcount = 0)
    BY PageFinite, PageSets DEF PageUsers
  <2>2. pfreed => pwait = {} /\ "locked" \notin pflags
    BY DEF PageUsers, PageOwners
  <2>3. "locked" \in pflags <=> \E p \in Procs : ppc[p] \in {"locked", "done"}
    BY DEF PageOwners
  <2> QED BY <2>1, <2>2, <2>3 DEF Page!Counted
<1>3. Page!NoLostWakeup
  BY DEF Page!NoLostWakeup
<1> QED BY <1>1, <1>2, <1>3

(* A step takes the page's lock when nobody has it, gives it up, or neither.*)
LEMMA PageExcludes ==
  ASSUME PageInv, Page!Next
  PROVE  Page!ImplementsExclusion!Next \/ PageOwners' = PageOwners
<1> USE DEF PageInv, Page!Goto, Page!PageLocked
<1>1. ASSUME NEW p \in PageOwners', PageOwners = {}, PageOwners' = {p} PROVE Page!ImplementsExclusion!Next
  BY <1>1 DEF Page!ImplementsExclusion!Next, Page!ImplementsExclusion!BeginWrite, PageOwners
<1>2. ASSUME NEW p \in PageOwners, PageOwners' = PageOwners \ {p} PROVE Page!ImplementsExclusion!Next
  BY <1>2 DEF Page!ImplementsExclusion!Next, Page!ImplementsExclusion!EndWrite, PageOwners
<1> PICK p \in Procs : Page!Alloc(p) \/ Page!Get(p) \/ Page!Put(p) \/ Page!TryLockPage(p) \/ Page!Go(p)
  BY DEF Page!Next
<1>3. CASE Page!TryLockPage(p)
  <2>1. PageOwners' = IF PageOwners = {} THEN {p} ELSE PageOwners
    BY <1>3 DEF Page!TryLockPage, PageOwners
  <2> QED BY <1>1, <2>1
<1>4. CASE Page!Clear(p)
  <2>1. p \in PageOwners /\ PageOwners' = PageOwners \ {p}
    BY <1>4 DEF Page!Clear, PageOwners
  <2> QED BY <1>2, <2>1
<1>5. CASE Page!Alloc(p) \/ Page!Get(p) \/ Page!Put(p) \/ Page!Queue(p) \/ Page!Look(p) \/ Page!Leave(p) \/ Page!Check(p)
  BY <1>5 DEF Page!Alloc, Page!Get, Page!Put, Page!Queue, Page!Look, Page!Leave, Page!Check, PageOwners
<1>6. CASE Page!Complete(p, "uptodate") \/ Page!Complete(p, "error")
  BY <1>6 DEF Page!Complete, PageOwners
<1>7. CASE Page!Wake(p)
  BY <1>7 DEF Page!Wake, PageOwners
<1> QED BY <1>3, <1>4, <1>5, <1>6, <1>7 DEF Page!Go

-----------------------------------------------------------------------------
(* The tasklet.                                                            *)
LEMMA TaskSets == \A S : Task!Cardinality(S) = Cardinality(S) /\ (Task!IsFiniteSet(S) <=> IsFiniteSet(S))
<1>1. \A S : Task!IsFiniteSet(S) <=> IsFiniteSet(S)
  BY Zenon DEF Task!IsFiniteSet, IsFiniteSet
<1>2. \A S : Task!Cardinality(S) = Cardinality(S)
  BY Zenon DEF Task!Cardinality, Cardinality
<1> QED BY <1>1, <1>2

TaskStates == {"idle", "taken", "locked", "running", "back", "waiting", "disabled"}
TaskRuns == {c \in Cpus : kpc[c] = "running"}
TaskUnderWay == Cardinality(At(kpc, Cpus, {"taken", "locked", "back"}))
TaskListed == Cardinality(klist)
TaskDisabled == Cardinality(At(kpc, Users, {"waiting", "disabled"}))

(* RUN is set by the one processor that has locked the tasklet.            *)
TaskInv ==
  /\ kstate \subseteq {"SCHED", "RUN"} /\ klist \subseteq Cpus /\ kpc \in [Cpus \union Users -> TaskStates]
  /\ kcount = TaskDisabled
  /\ TaskListed + TaskUnderWay = IF "SCHED" \in kstate THEN 1 ELSE 0
  /\ "RUN" \in kstate <=> \E c \in Cpus : kpc[c] \in {"locked", "running"}
  /\ \A c, d \in Cpus : kpc[c] \in {"locked", "running"} /\ kpc[d] \in {"locked", "running"} => c = d
  /\ (\E u \in Users : kpc[u] = "disabled") => TaskRuns = {}

LEMMA TaskSizes == IsFiniteSet(Cpus) /\ IsFiniteSet(Users) /\ Cpus \intersect Users = {}
<1>1. Task!ActorsOK
  BY Sizes
<1> QED BY <1>1, TaskSets DEF Task!ActorsOK

LEMMA TaskInit == Task!Init => TaskInv
<1> SUFFICES ASSUME Task!Init PROVE TaskInv
  OBVIOUS
<1> USE DEF Task!Init
<1>1. At(kpc, Users, {"waiting", "disabled"}) = {} /\ At(kpc, Cpus, {"taken", "locked", "back"}) = {} /\ TaskRuns = {}
  BY DEF At, TaskRuns
<1>2. TaskDisabled = 0 /\ TaskListed = 0 /\ TaskUnderWay = 0
  BY <1>1, FewElements DEF TaskDisabled, TaskListed, TaskUnderWay
<1> QED BY <1>1, <1>2 DEF TaskInv, TaskStates

LEMMA TaskNumbers ==
  ASSUME TaskInv
  PROVE  /\ TaskListed \in Nat /\ TaskUnderWay \in Nat /\ TaskDisabled \in 0 .. Cardinality(Users)
         /\ IsFiniteSet(klist) /\ (TaskListed = 0 <=> klist = {})
         /\ TaskDisabled = 0 => \A u \in Users : kpc[u] \notin {"waiting", "disabled"}
         /\ \A c \in Cpus : kpc[c] \in {"taken", "locked", "back"} => TaskUnderWay >= 1
<1>1. IsFiniteSet(klist) /\ TaskListed \in Nat /\ (TaskListed = 0 <=> klist = {})
  BY TaskSizes, Smaller, FewElements DEF TaskInv, TaskListed
<1>2. TaskUnderWay \in Nat /\ (TaskUnderWay = 0 <=> At(kpc, Cpus, {"taken", "locked", "back"}) = {})
  BY TaskSizes, Somewhere DEF TaskUnderWay
<1>3. TaskDisabled \in 0 .. Cardinality(Users) /\ (TaskDisabled = 0 <=> At(kpc, Users, {"waiting", "disabled"}) = {})
  BY TaskSizes, Somewhere DEF TaskDisabled
<1> QED BY <1>1, <1>2, <1>3 DEF At

TaskletGoes(a, to) == kpc' = [kpc EXCEPT ![a] = to]

(* What a step of a processor, or of a user, leaves and changes.           *)
TaskCpuGone(c, to) ==
  /\ kpc' \in [Cpus \union Users -> TaskStates] /\ TaskDisabled' = TaskDisabled
  /\ TaskUnderWay' = TaskUnderWay + (IF to \in {"taken", "locked", "back"} THEN 1 ELSE 0)
                                  - (IF kpc[c] \in {"taken", "locked", "back"} THEN 1 ELSE 0)
  /\ \A u \in Users : kpc'[u] = kpc[u]
  /\ \A d \in Cpus : kpc'[d] = IF d = c THEN to ELSE kpc[d]

TaskUserGone(u, to) ==
  /\ kpc' \in [Cpus \union Users -> TaskStates] /\ TaskUnderWay' = TaskUnderWay
  /\ TaskDisabled' = TaskDisabled + (IF to \in {"waiting", "disabled"} THEN 1 ELSE 0)
                                  - (IF kpc[u] \in {"waiting", "disabled"} THEN 1 ELSE 0)
  /\ \A c \in Cpus : kpc'[c] = kpc[c]
  /\ \A w \in Users : kpc'[w] = IF w = u THEN to ELSE kpc[w]

LEMMA TaskCpuStep ==
  ASSUME TaskInv, NEW c \in Cpus, NEW to \in TaskStates, TaskletGoes(c, to)
  PROVE  TaskCpuGone(c, to)
<1>1. kpc' \in [Cpus \union Users -> TaskStates] /\ (\A u \in Users : kpc'[u] = kpc[u])
      /\ (\A d \in Cpus : kpc'[d] = IF d = c THEN to ELSE kpc[d])
  BY TaskSizes DEF TaskInv, TaskletGoes
<1>2. IsFiniteSet(Cpus) /\ Moved(Cpus, kpc, kpc', c, to)
  BY <1>1, TaskSizes DEF Moved
<1>3. TaskUnderWay' = TaskUnderWay + (IF to \in {"taken", "locked", "back"} THEN 1 ELSE 0)
                                   - (IF kpc[c] \in {"taken", "locked", "back"} THEN 1 ELSE 0)
  BY <1>2, Moves DEF TaskUnderWay
<1>4. TaskDisabled' = TaskDisabled
  <2>1. At(kpc', Users, {"waiting", "disabled"}) = At(kpc, Users, {"waiting", "disabled"})
    BY <1>1 DEF At
  <2> QED BY <2>1 DEF TaskDisabled
<1> QED BY <1>1, <1>3, <1>4 DEF TaskCpuGone

LEMMA TaskUserStep ==
  ASSUME TaskInv, NEW u \in Users, NEW to \in TaskStates, TaskletGoes(u, to)
  PROVE  TaskUserGone(u, to)
<1>1. kpc' \in [Cpus \union Users -> TaskStates] /\ (\A c \in Cpus : kpc'[c] = kpc[c])
      /\ (\A w \in Users : kpc'[w] = IF w = u THEN to ELSE kpc[w])
  BY TaskSizes DEF TaskInv, TaskletGoes
<1>2. IsFiniteSet(Users) /\ Moved(Users, kpc, kpc', u, to)
  BY <1>1, TaskSizes DEF Moved
<1>3. TaskDisabled' = TaskDisabled + (IF to \in {"waiting", "disabled"} THEN 1 ELSE 0)
                                   - (IF kpc[u] \in {"waiting", "disabled"} THEN 1 ELSE 0)
  BY <1>2, Moves DEF TaskDisabled
<1>4. TaskUnderWay' = TaskUnderWay
  <2>1. At(kpc', Cpus, {"taken", "locked", "back"}) = At(kpc, Cpus, {"taken", "locked", "back"})
    BY <1>1 DEF At
  <2> QED BY <2>1 DEF TaskUnderWay
<1> QED BY <1>1, <1>3, <1>4 DEF TaskUserGone

LEMMA TaskNext == ASSUME TaskInv, Task!Next PROVE TaskInv'
<1>1. /\ TaskListed \in Nat /\ TaskUnderWay \in Nat /\ TaskDisabled \in Nat /\ IsFiniteSet(klist)
      /\ TaskListed = 0 <=> klist = {}
      /\ TaskDisabled = 0 => \A u \in Users : kpc[u] \notin {"waiting", "disabled"}
      /\ \A c \in Cpus : kpc[c] \in {"taken", "locked", "back"} => TaskUnderWay >= 1
      /\ TaskListed + TaskUnderWay = IF "SCHED" \in kstate THEN 1 ELSE 0
  BY TaskNumbers DEF TaskInv
<1>0. TaskUnderWay \in Nat
  BY <1>1
<1>2. ASSUME NEW c \in Cpus, Task!Schedule(c) PROVE TaskInv'
  <2>1. "SCHED" \notin kstate /\ kstate' = kstate \union {"SCHED"} /\ klist' = klist \union {c} /\ UNCHANGED <<kcount, kpc>>
    BY <1>2 DEF Task!Schedule
  <2>2. klist' = {c} /\ TaskUnderWay = 0
    BY <1>1, <2>1
  <2>3. TaskListed' = 1 /\ TaskUnderWay' = TaskUnderWay /\ TaskDisabled' = TaskDisabled /\ TaskRuns' = TaskRuns
    BY <2>1, <2>2, FewElements DEF TaskListed, TaskUnderWay, TaskDisabled, TaskRuns
  <2> QED BY <2>1, <2>2, <2>3 DEF TaskInv
<1>3. ASSUME NEW c \in Cpus, Task!Take(c) PROVE TaskInv'
  <2>1. c \in klist /\ kpc[c] = "idle" /\ TaskletGoes(c, "taken") /\ klist' = klist \ {c} /\ UNCHANGED <<kstate, kcount>>
    BY <1>3 DEF Task!Take, Task!Goto, TaskletGoes
  <2>2. TaskListed' = TaskListed - 1
    BY <1>1, <2>1, Counting DEF TaskListed
  <2>3. "taken" \in TaskStates
    BY DEF TaskStates
  <2>4. /\ kpc' \in [Cpus \union Users -> TaskStates] /\ TaskDisabled' = TaskDisabled /\ TaskUnderWay' = TaskUnderWay + 1
        /\ \A u \in Users : kpc'[u] = kpc[u]
        /\ \A d \in Cpus : kpc'[d] = IF d = c THEN "taken" ELSE kpc[d]
    <3>1. TaskCpuGone(c, "taken")
      BY <2>1, <2>3, TaskCpuStep
    <3> QED BY <1>0, <2>1, <3>1 DEF TaskCpuGone
  <2> QED BY <1>1, <2>1, <2>2, <2>4 DEF TaskInv, TaskRuns
<1>4. ASSUME NEW c \in Cpus, Task!PutBack(c) PROVE TaskInv'
  <2>1. kpc[c] = "back" /\ TaskletGoes(c, "idle") /\ klist' = klist \union {c} /\ UNCHANGED <<kstate, kcount>>
    BY <1>4 DEF Task!PutBack, Task!Goto, TaskletGoes
  <2>2. klist' = {c} /\ TaskListed = 0 /\ TaskUnderWay = 1
    BY <1>1, <2>1
  <2>3. TaskListed' = 1
    BY <2>2, FewElements DEF TaskListed
  <2>4. "idle" \in TaskStates
    BY DEF TaskStates
  <2>5. /\ kpc' \in [Cpus \union Users -> TaskStates] /\ TaskDisabled' = TaskDisabled /\ TaskUnderWay' = TaskUnderWay - 1
        /\ \A u \in Users : kpc'[u] = kpc[u]
        /\ \A d \in Cpus : kpc'[d] = IF d = c THEN "idle" ELSE kpc[d]
    <3>1. TaskCpuGone(c, "idle")
      BY <2>1, <2>4, TaskCpuStep
    <3> QED BY <1>0, <2>1, <3>1 DEF TaskCpuGone
  <2> QED BY <1>1, <2>1, <2>2, <2>3, <2>5 DEF TaskInv, TaskRuns
<1>5. ASSUME NEW c \in Cpus, Task!TryLock(c) PROVE TaskInv'
  <2> DEFINE to == IF "RUN" \in kstate THEN "back" ELSE "locked"
  <2>1. /\ kpc[c] = "taken" /\ TaskletGoes(c, to) /\ kstate' = kstate \union {"RUN"} /\ UNCHANGED <<kcount, klist>>
        /\ to \in {"back", "locked"} /\ (to = "back" <=> "RUN" \in kstate) /\ to \in TaskStates
    BY <1>5 DEF Task!TryLock, Task!Goto, TaskletGoes, TaskStates
  <2> HIDE DEF to
  <2>2. /\ kpc' \in [Cpus \union Users -> TaskStates] /\ TaskDisabled' = TaskDisabled /\ TaskUnderWay' = TaskUnderWay
        /\ \A u \in Users : kpc'[u] = kpc[u]
        /\ \A d \in Cpus : kpc'[d] = IF d = c THEN to ELSE kpc[d]
    <3>1. TaskCpuGone(c, to)
      BY <2>1, TaskCpuStep
    <3> QED BY <1>0, <2>1, <3>1 DEF TaskCpuGone
  <2>3. TaskListed' = TaskListed /\ TaskRuns' = TaskRuns
    BY <2>1, <2>2 DEF TaskListed, TaskRuns
  <2> QED BY <1>1, <2>1, <2>2, <2>3 DEF TaskInv
<1>6. ASSUME NEW c \in Cpus, Task!Begin(c) PROVE TaskInv'
  <2>1. kcount = 0 /\ kpc[c] = "locked" /\ TaskletGoes(c, "running") /\ kstate' = kstate \ {"SCHED"} /\ UNCHANGED <<kcount, klist>>
    BY <1>6 DEF Task!Begin, Task!Goto, TaskletGoes
  <2>2. "running" \in TaskStates
    BY DEF TaskStates
  <2>3. /\ kpc' \in [Cpus \union Users -> TaskStates] /\ TaskDisabled' = TaskDisabled /\ TaskUnderWay' = TaskUnderWay - 1
        /\ \A u \in Users : kpc'[u] = kpc[u]
        /\ \A d \in Cpus : kpc'[d] = IF d = c THEN "running" ELSE kpc[d]
    <3>1. TaskCpuGone(c, "running")
      BY <2>1, <2>2, TaskCpuStep
    <3> QED BY <1>0, <2>1, <3>1 DEF TaskCpuGone
  <2>4. TaskListed' = TaskListed /\ TaskUnderWay = 1 /\ TaskListed = 0
    BY <1>1, <2>1 DEF TaskListed
  <2>5. \A u \in Users : kpc'[u] # "disabled"
    BY <1>1, <2>1, <2>3 DEF TaskInv
  <2>6. TaskRuns' = {c} /\ ~\E u \in Users : kpc'[u] = "disabled"
    BY <2>1, <2>3, <2>5 DEF TaskInv, TaskRuns
  <2>7. /\ "RUN" \in kstate' /\ \E d \in Cpus : kpc'[d] \in {"locked", "running"}
        /\ \A e, d \in Cpus : kpc'[e] \in {"locked", "running"} /\ kpc'[d] \in {"locked", "running"} => e = d
    BY <2>1, <2>3 DEF TaskInv
  <2>8. /\ TaskListed' + TaskUnderWay' = IF "SCHED" \in kstate' THEN 1 ELSE 0
        /\ kcount' = TaskDisabled' /\ klist' \subseteq Cpus /\ kstate' \subseteq {"SCHED", "RUN"}
    <3>1. TaskListed' = 0 /\ TaskUnderWay' = 0 /\ "SCHED" \notin kstate'
      BY <2>1, <2>3, <2>4
    <3>2. kcount' = TaskDisabled' /\ klist' \subseteq Cpus /\ kstate' \subseteq {"SCHED", "RUN"}
      BY <2>1, <2>3 DEF TaskInv
    <3> QED BY <3>1, <3>2
  <2> QED BY <2>3, <2>6, <2>7, <2>8 DEF TaskInv
<1>7. ASSUME NEW c \in Cpus, Task!GiveUp(c) PROVE TaskInv'
  <2>1. kpc[c] = "locked" /\ TaskletGoes(c, "back") /\ kstate' = kstate \ {"RUN"} /\ UNCHANGED <<kcount, klist>>
    BY <1>7 DEF Task!GiveUp, Task!Goto, TaskletGoes
  <2>2. "back" \in TaskStates
    BY DEF TaskStates
  <2>3. /\ kpc' \in [Cpus \union Users -> TaskStates] /\ TaskDisabled' = TaskDisabled /\ TaskUnderWay' = TaskUnderWay
        /\ \A u \in Users : kpc'[u] = kpc[u]
        /\ \A d \in Cpus : kpc'[d] = IF d = c THEN "back" ELSE kpc[d]
    <3>1. TaskCpuGone(c, "back")
      BY <2>1, <2>2, TaskCpuStep
    <3> QED BY <1>0, <2>1, <3>1 DEF TaskCpuGone
  <2>4. TaskListed' = TaskListed /\ TaskRuns' = TaskRuns
    BY <2>1, <2>3 DEF TaskListed, TaskRuns
  <2> QED BY <1>1, <2>1, <2>3, <2>4 DEF TaskInv
<1>8. ASSUME NEW c \in Cpus, Task!Unlock(c) PROVE TaskInv'
  <2>1. kpc[c] = "running" /\ TaskletGoes(c, "idle") /\ kstate' = kstate \ {"RUN"} /\ UNCHANGED <<kcount, klist>>
    BY <1>8 DEF Task!Unlock, Task!Goto, TaskletGoes
  <2>2. "idle" \in TaskStates
    BY DEF TaskStates
  <2>3. /\ kpc' \in [Cpus \union Users -> TaskStates] /\ TaskDisabled' = TaskDisabled /\ TaskUnderWay' = TaskUnderWay
        /\ \A u \in Users : kpc'[u] = kpc[u]
        /\ \A d \in Cpus : kpc'[d] = IF d = c THEN "idle" ELSE kpc[d]
    <3>1. TaskCpuGone(c, "idle")
      BY <2>1, <2>2, TaskCpuStep
    <3> QED BY <1>0, <2>1, <3>1 DEF TaskCpuGone
  <2>4. TaskListed' = TaskListed /\ TaskRuns' \subseteq TaskRuns
    BY <2>1, <2>3 DEF TaskListed, TaskRuns
  <2> QED BY <1>1, <2>1, <2>3, <2>4 DEF TaskInv
<1>9. ASSUME NEW u \in Users, Task!Disable(u) \/ Task!UnlockWait(u) \/ Task!Enable(u) PROVE TaskInv'
  <2> DEFINE to == IF kpc[u] = "idle" THEN "waiting" ELSE IF kpc[u] = "waiting" THEN "disabled" ELSE "idle"
  <2>1. /\ TaskletGoes(u, to) /\ UNCHANGED <<kstate, klist>> /\ kpc[u] \in {"idle", "waiting", "disabled"}
        /\ kcount' = kcount + (IF kpc[u] = "idle" THEN 1 ELSE 0) - (IF kpc[u] = "disabled" THEN 1 ELSE 0)
        /\ to = "disabled" => "RUN" \notin kstate
        /\ to \in TaskStates
    BY <1>1, <1>9 DEF Task!Disable, Task!UnlockWait, Task!Enable, Task!Goto, TaskletGoes, TaskInv, TaskStates
  <2>2. /\ kpc' \in [Cpus \union Users -> TaskStates] /\ TaskUnderWay' = TaskUnderWay
        /\ TaskDisabled' = TaskDisabled + (IF to \in {"waiting", "disabled"} THEN 1 ELSE 0)
                                         - (IF kpc[u] \in {"waiting", "disabled"} THEN 1 ELSE 0)
        /\ \A c \in Cpus : kpc'[c] = kpc[c]
        /\ \A w \in Users : kpc'[w] = IF w = u THEN to ELSE kpc[w]
    <3>1. TaskUserGone(u, to)
      BY <2>1, TaskUserStep
    <3> QED BY <3>1 DEF TaskUserGone
  <2>3. TaskListed' = TaskListed /\ TaskRuns' = TaskRuns
    BY <2>1, <2>2 DEF TaskListed, TaskRuns
  <2>4. kcount' = TaskDisabled'
    BY <1>1, <2>1, <2>2 DEF TaskInv
  <2>5. (\E w \in Users : kpc'[w] = "disabled") => TaskRuns = {}
    BY <2>1, <2>2 DEF TaskInv, TaskRuns
  <2> QED BY <2>1, <2>2, <2>3, <2>4, <2>5 DEF TaskInv
<1> QED BY <1>2, <1>3, <1>4, <1>5, <1>6, <1>7, <1>8, <1>9 DEF Task!Next, Task!Softirq

LEMMA TaskKept == TaskInv => Task!TypeOK /\ Task!Counted
<1> SUFFICES ASSUME TaskInv PROVE Task!TypeOK /\ Task!Counted
  OBVIOUS
<1>1. Task!TypeOK
  BY TaskNumbers, TaskSets DEF TaskInv, TaskStates, Task!TypeOK
<1>2. Task!Counted
  BY TaskSets DEF TaskInv, TaskRuns, TaskListed, TaskUnderWay, At, Task!Counted
<1> QED BY <1>1, <1>2

(* A step starts the tasklet where it runs nowhere, ends it, or neither.   *)
LEMMA TaskExcludes ==
  ASSUME TaskInv, Task!Next
  PROVE  Task!ImplementsExclusion!Next \/ TaskRuns' = TaskRuns
<1> USE DEF Task!Goto, TaskRuns
<1>1. ASSUME NEW c \in TaskRuns', TaskRuns = {}, TaskRuns' = {c} PROVE Task!ImplementsExclusion!Next
  BY <1>1 DEF Task!ImplementsExclusion!Next, Task!ImplementsExclusion!BeginWrite
<1>2. ASSUME NEW c \in TaskRuns, TaskRuns' = TaskRuns \ {c} PROVE Task!ImplementsExclusion!Next
  BY <1>2 DEF Task!ImplementsExclusion!Next, Task!ImplementsExclusion!EndWrite
<1>3. kpc \in [Cpus \union Users -> TaskStates] /\ Cpus \intersect Users = {}
  BY TaskSizes DEF TaskInv
<1>4. ASSUME NEW c \in Cpus, Task!Begin(c) PROVE Task!ImplementsExclusion!Next
  <2>1. TaskRuns = {} /\ TaskRuns' = {c}
    BY <1>3, <1>4 DEF Task!Begin, TaskInv
  <2> QED BY <1>1, <2>1
<1>5. ASSUME NEW c \in Cpus, Task!Unlock(c) PROVE Task!ImplementsExclusion!Next
  <2>1. c \in TaskRuns /\ TaskRuns' = TaskRuns \ {c}
    BY <1>3, <1>5 DEF Task!Unlock
  <2> QED BY <1>2, <2>1
<1>6. ASSUME NEW c \in Cpus, Task!Schedule(c) \/ Task!Take(c) \/ Task!PutBack(c) \/ Task!TryLock(c) \/ Task!GiveUp(c)
      PROVE  TaskRuns' = TaskRuns
  BY <1>3, <1>6 DEF Task!Schedule, Task!Take, Task!PutBack, Task!TryLock, Task!GiveUp
<1>7. ASSUME NEW u \in Users, Task!Disable(u) \/ Task!UnlockWait(u) \/ Task!Enable(u) PROVE TaskRuns' = TaskRuns
  BY <1>3, <1>7 DEF Task!Disable, Task!UnlockWait, Task!Enable
<1> QED BY <1>4, <1>5, <1>6, <1>7 DEF Task!Next, Task!Softirq

-----------------------------------------------------------------------------
(* The big lock.  A processor is in when its task runs at a depth of it.   *)
LEMMA BigSets == \A S : Big!Cardinality(S) = Cardinality(S)
BY Zenon DEF Big!Cardinality, Cardinality

BigIn == {c \in Cpus : bpc[c] = "run" /\ Big!Depth(c) >= 0}

BigInv ==
  /\ bflag \in BOOLEAN /\ bdepth \in [Procs -> -1 .. MaxDepth] /\ bcurrent \in [Cpus -> Procs]
  /\ birqs \in [Cpus -> BOOLEAN] /\ bpc \in [Cpus -> {"run", "spin", "switch"}]
  /\ \A c, d \in Cpus : bcurrent[c] = bcurrent[d] => c = d
  /\ bflag <=> BigIn # {}
  /\ \A c, d \in BigIn : c = d
  /\ \A c \in Cpus : bpc[c] = "spin" => Big!Depth(c) >= 0
  /\ \A c \in Cpus : bpc[c] = "switch" => birqs[c]

LEMMA BigDepths == MaxDepth \in Nat
BY Sizes DEF Big!MaxDepthOK

LEMMA BigInit == Big!Init => BigInv
<1> SUFFICES ASSUME Big!Init PROVE BigInv
  OBVIOUS
<1> USE DEF Big!Init
<1>1. BigIn = {}
  BY DEF BigIn, Big!Depth
<1>2. bdepth \in [Procs -> -1 .. MaxDepth]
  BY BigDepths
<1>3. bflag = FALSE /\ (bflag <=> BigIn # {})
  BY <1>1
<1>4. \A c \in Cpus : bpc[c] = "run"
  OBVIOUS
<1>5. /\ bcurrent \in [Cpus -> Procs] /\ birqs \in [Cpus -> BOOLEAN] /\ bpc \in [Cpus -> {"run", "spin", "switch"}]
      /\ \A c, d \in Cpus : bcurrent[c] = bcurrent[d] => c = d
  OBVIOUS
<1> QED BY ONLY <1>1, <1>2, <1>3, <1>4, <1>5 DEF BigInv

(* What a step of one processor does, its task's depth and who is in.      *)
BigChange(c, to, depth) ==
  /\ bpc' = [bpc EXCEPT ![c] = to]
  /\ \A d \in Cpus : Big!Depth(d)' = IF d = c THEN depth ELSE Big!Depth(d)

LEMMA BigStep ==
  ASSUME BigInv, NEW c \in Cpus, NEW to \in {"run", "spin", "switch"}, NEW depth \in -1 .. MaxDepth,
         BigChange(c, to, depth),
         bdepth' \in [Procs -> -1 .. MaxDepth], bcurrent' \in [Cpus -> Procs], birqs' \in [Cpus -> BOOLEAN],
         \A e, d \in Cpus : bcurrent'[e] = bcurrent'[d] => e = d,
         \A d \in Cpus \ {c} : birqs'[d] = birqs[d],
         to = "switch" => birqs'[c],
         to = "spin" => depth >= 0,
         to = "run" /\ depth >= 0 => BigIn \subseteq {c},
         bflag' \in BOOLEAN, bflag' <=> (to = "run" /\ depth >= 0) \/ (bflag /\ c \notin BigIn)
  PROVE  /\ BigInv'
         /\ BigIn' = IF to = "run" /\ depth >= 0 THEN BigIn \union {c} ELSE BigIn \ {c}
<1> USE DEF BigInv
<1>1. bpc' \in [Cpus -> {"run", "spin", "switch"}] /\ \A d \in Cpus : bpc'[d] = IF d = c THEN to ELSE bpc[d]
  BY DEF BigChange
<1>2. BigIn' = IF to = "run" /\ depth >= 0 THEN BigIn \union {c} ELSE BigIn \ {c}
  BY <1>1 DEF BigChange, BigIn
<1>3. bflag' <=> BigIn' # {}
  <2>1. BigIn' # {} <=> (to = "run" /\ depth >= 0) \/ (BigIn # {} /\ c \notin BigIn)
    BY <1>2
  <2> QED BY <2>1
<1>6. \A e, d \in BigIn' : e = d
  BY <1>2
<1>4. \A d \in Cpus : bpc'[d] = "spin" => Big!Depth(d)' >= 0
  BY <1>1 DEF BigChange
<1>5. \A d \in Cpus : bpc'[d] = "switch" => birqs'[d]
  BY <1>1
<1> QED BY <1>1, <1>2, <1>3, <1>4, <1>5, <1>6

BigMoved(c) ==
  /\ \A d \in Cpus \ {c} : bcurrent'[d] = bcurrent[d]
  /\ \/ BigIn' = BigIn /\ (c \in BigIn => bcurrent'[c] = bcurrent[c])
     \/ BigIn' = {} /\ BigIn = {c}
     \/ BigIn' = {c} /\ BigIn = {}

LEMMA BigNext == ASSUME BigInv, Big!Next PROVE BigInv' /\ \E c \in Cpus : BigMoved(c)
<1> USE DEF BigInv, Big!Goto, BigMoved
<1>1. \A c \in Cpus : Big!Depth(c) \in -1 .. MaxDepth
  BY DEF Big!Depth
<1>2. ASSUME NEW c \in Cpus, Big!LockKernel(c) PROVE BigInv' /\ BigMoved(c)
  <2> DEFINE to == IF Big!Depth(c) = -1 THEN "spin" ELSE "run"
             depth == Big!Depth(c) + 1
  <2> USE <1>2 DEF Big!LockKernel
  <2>1. to \in {"run", "spin", "switch"} /\ depth \in -1 .. MaxDepth /\ depth >= 0
    BY <1>1, BigDepths
  <2>2. bdepth' \in [Procs -> -1 .. MaxDepth]
    BY <2>1 DEF Big!Depth
  <2>3. BigChange(c, to, depth)
    BY DEF BigChange, Big!Depth
  <2>4. to = "run" => c \in BigIn
    BY <1>1 DEF BigIn
  <2>5. bflag' \in BOOLEAN /\ (bflag' <=> (to = "run" /\ depth >= 0) \/ (bflag /\ c \notin BigIn))
    <3>1. to = "spin" => c \notin BigIn
      BY <1>1 DEF BigIn
    <3>2. to = "run" => bflag
      BY <2>4
    <3> QED BY <2>1, <2>4, <3>1, <3>2
  <2>6. BigInv' /\ BigIn' = IF to = "run" /\ depth >= 0 THEN BigIn \union {c} ELSE BigIn \ {c}
    BY <2>1, <2>2, <2>3, <2>4, <2>5, BigStep
  <2>7. to = "spin" => c \notin BigIn
    BY <1>1 DEF BigIn
  <2> QED BY <2>1, <2>4, <2>6, <2>7
<1>3. ASSUME NEW c \in Cpus, Big!UnlockKernel(c) PROVE BigInv' /\ BigMoved(c)
  <2> DEFINE depth == Big!Depth(c) - 1
  <2> USE <1>3 DEF Big!UnlockKernel
  <2>1. depth \in -1 .. MaxDepth
    BY <1>1, BigDepths
  <2>2. bdepth' \in [Procs -> -1 .. MaxDepth]
    BY <2>1 DEF Big!Depth
  <2>3. BigChange(c, "run", depth)
    BY DEF BigChange, Big!Depth
  <2>4. c \in BigIn /\ BigIn = {c}
    BY <1>1 DEF BigIn
  <2>5. bflag' \in BOOLEAN /\ (bflag' <=> depth >= 0 \/ (bflag /\ c \notin BigIn))
    <3>1. Big!Depth(c) > 0 <=> depth >= 0
      BY <1>1
    <3>2. bflag' = (bflag /\ Big!Depth(c) > 0) /\ bflag
      BY <2>4
    <3> QED BY ONLY <3>1, <3>2, <2>4, Zenon
  <2>6. BigInv' /\ BigIn' = IF depth >= 0 THEN BigIn \union {c} ELSE BigIn \ {c}
    BY <2>1, <2>2, <2>3, <2>4, <2>5, BigStep
  <2> QED BY <2>4, <2>6
<1>4. ASSUME NEW c \in Cpus, Big!Cli(c) PROVE BigInv' /\ BigMoved(c)
  <2> USE <1>4 DEF Big!Cli
  <2>1. BigIn' = BigIn
    BY DEF BigIn, Big!Depth
  <2>2. /\ birqs' \in [Cpus -> BOOLEAN] /\ bpc' = bpc
        /\ \A d \in Cpus : bpc[d] = "switch" => birqs'[d]
    OBVIOUS
  <2> QED BY <2>1, <2>2 DEF Big!Depth
<1>5. ASSUME NEW c \in Cpus, Big!Release(c) PROVE BigInv' /\ BigMoved(c)
  <2> USE <1>5 DEF Big!Release
  <2>1. BigChange(c, "switch", Big!Depth(c))
    BY DEF BigChange, Big!Depth
  <2>2. c \in BigIn <=> Big!Depth(c) >= 0
    BY DEF BigIn
  <2>3. bflag' \in BOOLEAN /\ (bflag' <=> bflag /\ c \notin BigIn)
    <3>1. Big!Depth(c) < 0 <=> c \notin BigIn
      BY <1>1, <2>2
    <3>2. bflag' = (bflag /\ Big!Depth(c) < 0)
      OBVIOUS
    <3> QED BY ONLY <3>1, <3>2, Zenon
  <2>4. birqs' \in [Cpus -> BOOLEAN] /\ birqs'[c] /\ \A d \in Cpus \ {c} : birqs'[d] = birqs[d]
    OBVIOUS
  <2>5. BigInv' /\ BigIn' = BigIn \ {c}
    BY <1>1, <2>1, <2>3, <2>4, BigStep
  <2> QED BY <2>5
<1>6. ASSUME NEW c \in Cpus, NEW t \in Procs, Big!Switch(c, t) PROVE BigInv' /\ BigMoved(c)
  <2> DEFINE to == IF bdepth[t] >= 0 THEN "spin" ELSE "run"
  <2> USE <1>6 DEF Big!Switch
  <2>1. to \in {"run", "spin", "switch"} /\ bdepth[t] \in -1 .. MaxDepth /\ (to = "spin" <=> bdepth[t] >= 0)
    OBVIOUS
  <2>2. BigChange(c, to, bdepth[t])
    BY DEF BigChange, Big!Depth
  <2>3. bcurrent' \in [Cpus -> Procs] /\ \A e, d \in Cpus : bcurrent'[e] = bcurrent'[d] => e = d
    OBVIOUS
  <2>4. c \notin BigIn /\ UNCHANGED <<bdepth, birqs, bflag>>
    BY DEF BigIn
  <2>5. BigInv' /\ BigIn' = BigIn \ {c}
    BY <2>1, <2>2, <2>3, <2>4, BigStep
  <2> QED BY <2>4, <2>5
<1>7. ASSUME NEW c \in Cpus, Big!SpinLock(c) PROVE BigInv' /\ BigMoved(c)
  <2> USE <1>7 DEF Big!SpinLock
  <2>1. BigChange(c, "run", Big!Depth(c)) /\ Big!Depth(c) >= 0
    BY DEF BigChange, Big!Depth
  <2>2. BigIn = {} /\ bflag' = TRUE /\ UNCHANGED <<bdepth, bcurrent, birqs>>
    OBVIOUS
  <2>3. BigInv' /\ BigIn' = BigIn \union {c}
    BY <1>1, <2>1, <2>2, BigStep
  <2> QED BY <2>2, <2>3
<1> QED BY <1>2, <1>3, <1>4, <1>5, <1>6, <1>7 DEF Big!Next

LEMMA BigKept == BigInv => Big!TypeOK /\ Big!Counted
<1> SUFFICES ASSUME BigInv PROVE Big!TypeOK /\ Big!Counted
  OBVIOUS
<1>1. Big!Holders = {bcurrent[c] : c \in BigIn}
  BY DEF Big!Holders, BigIn
<1>2. CASE bflag
  <2>1. PICK c \in BigIn : BigIn = {c}
    BY <1>2 DEF BigInv
  <2>2. Big!Holders = {bcurrent[c]}
    BY <1>1, <2>1
  <2>3. Big!Cardinality(Big!Holders) = 1
    BY <2>2, BigSets, FewElements
  <2> QED BY <1>2, <2>3 DEF BigInv, Big!TypeOK, Big!Counted
<1>3. CASE ~bflag
  <2>1. Big!Holders = {}
    BY <1>1, <1>3 DEF BigInv
  <2>2. Big!Cardinality(Big!Holders) = 0
    BY <2>1, BigSets, FewElements
  <2> QED BY <1>3, <2>2 DEF BigInv, Big!TypeOK, Big!Counted
<1> QED BY <1>2, <1>3

(* A step lets one task in where none is, lets it out, or neither.         *)
LEMMA BigExcludes ==
  ASSUME BigInv, Big!Next
  PROVE  Big!ImplementsExclusion!Next \/ Big!Holders' = Big!Holders
<1>1. Big!Holders = {bcurrent[c] : c \in BigIn} /\ Big!Holders' = {bcurrent'[c] : c \in BigIn'}
  BY DEF Big!Holders, BigIn
<1>2. BigIn \subseteq Cpus /\ BigIn' \subseteq Cpus
  BY DEF BigIn
<1> PICK c \in Cpus : BigMoved(c)
  BY BigNext
<1>3. CASE BigIn' = BigIn /\ (c \in BigIn => bcurrent'[c] = bcurrent[c])
  <2>1. \A d \in BigIn : bcurrent'[d] = bcurrent[d]
    BY <1>2, <1>3 DEF BigMoved
  <2> QED BY <1>1, <1>3, <2>1
<1>4. CASE BigIn' = {} /\ BigIn = {c}
  <2>1. Big!Holders = {bcurrent[c]} /\ Big!Holders' = Big!Holders \ {bcurrent[c]}
    BY <1>1, <1>4
  <2> QED BY <2>1 DEF Big!ImplementsExclusion!Next, Big!ImplementsExclusion!EndWrite
<1>5. CASE BigIn' = {c} /\ BigIn = {}
  <2>1. Big!Holders = {} /\ Big!Holders' = {bcurrent'[c]}
    BY <1>1, <1>5
  <2> QED BY <2>1 DEF Big!ImplementsExclusion!Next, Big!ImplementsExclusion!BeginWrite
<1> QED BY <1>3, <1>4, <1>5 DEF BigMoved

-----------------------------------------------------------------------------
(* The wait queue.                                                         *)
LEMMA WaitSets == \A S : Wait!Cardinality(S) = Cardinality(S)
BY Zenon DEF Wait!Cardinality, Cardinality

WaitStates == {"idle", "add", "set", "test", "schedule", "leave", "restart", "take"}
WaitOn == {"set", "test", "schedule", "leave", "restart"}

(* Who waits has its one place on the queue, and only who waits is not     *)
(* running; it sleeps in the state of its kind.                            *)
WaitInv ==
  /\ wkind \in [Sleepers -> Wait!Kinds] /\ witems \in 0 .. MaxItems /\ wqueue \in Seq(Sleepers)
  /\ wwaking \subseteq Cpus /\ wsignal \subseteq Sleepers
  /\ wstate \in [Sleepers -> {"running", "interruptible", "uninterruptible"}]
  /\ wpc \in [Sleepers -> WaitStates]
  /\ \A t \in Sleepers : wstate[t] # "running" => wpc[t] \in WaitOn /\ wstate[t] = Wait!Asleep(t)
  /\ \A i, j \in DOMAIN wqueue : wqueue[i] = wqueue[j] => i = j
  /\ \A t \in Sleepers : wpc[t] \in WaitOn <=> \E i \in DOMAIN wqueue : wqueue[i] = t
  /\ \A i, j \in DOMAIN wqueue : wkind[wqueue[i]] = "exclusive" /\ wkind[wqueue[j]] # "exclusive" => j < i
  /\ witems > 0 /\ wwaking = {} =>
       \A t \in Sleepers : wpc[t] = "schedule" /\ wstate[t] # "running" => wkind[t] = "exclusive"

LEMMA WaitSizes == MaxItems \in Nat /\ MaxItems > 0
BY Sizes DEF Wait!MaxItemsOK

LEMMA WaitInit == Wait!Init => WaitInv
BY WaitSizes DEF Wait!Init, WaitInv, WaitStates, WaitOn

(* A step that leaves the queue and the posts alone.                       *)
WaitGoes(t, to, now) == wpc' = [wpc EXCEPT ![t] = to] /\ wstate' = [wstate EXCEPT ![t] = now]

LEMMA WaitStep ==
  ASSUME WaitInv, NEW t \in Sleepers, NEW to \in WaitStates, NEW now \in {"running", Wait!Asleep(t)},
         WaitGoes(t, to, now),
         wpc[t] \in WaitOn <=> to \in WaitOn,
         now # "running" => to \in WaitOn,
         to = "schedule" => witems' = 0 \/ wwaking # {} \/ now = "running",
         witems' \in 0 .. witems, wsignal' \subseteq Sleepers, UNCHANGED <<wkind, wqueue, wwaking>>
  PROVE  WaitInv'
<1> USE DEF WaitInv, WaitGoes
<1>1. wpc' \in [Sleepers -> WaitStates] /\ wstate' \in [Sleepers -> {"running", "interruptible", "uninterruptible"}]
  BY DEF Wait!Asleep
<1>2. \A u \in Sleepers : wstate'[u] # "running" => wpc'[u] \in WaitOn /\ wstate'[u] = Wait!Asleep(u)'
  BY DEF Wait!Asleep
<1>3. \A u \in Sleepers : wpc'[u] \in WaitOn <=> wpc[u] \in WaitOn
  OBVIOUS
<1>4. witems' > 0 /\ wwaking' = {} =>
        \A u \in Sleepers : wpc'[u] = "schedule" /\ wstate'[u] # "running" => wkind'[u] = "exclusive"
  BY WaitSizes
<1>5. witems' \in 0 .. MaxItems
  BY WaitSizes
<1> QED BY <1>1, <1>2, <1>3, <1>4, <1>5

(* Joining at the tail, joining at the head, leaving from the middle.      *)
LEMMA WaitTail ==
  ASSUME NEW S, NEW q \in Seq(S), NEW t \in S
  PROVE  /\ Append(q, t) \in Seq(S) /\ DOMAIN Append(q, t) = 1 .. Len(q) + 1 /\ DOMAIN q = 1 .. Len(q) /\ Len(q) \in Nat
         /\ \A i \in 1 .. Len(q) + 1 : Append(q, t)[i] = IF i = Len(q) + 1 THEN t ELSE q[i]
OBVIOUS

LEMMA WaitHead ==
  ASSUME NEW S, NEW q \in Seq(S), NEW t \in S
  PROVE  /\ <<t>> \o q \in Seq(S) /\ DOMAIN (<<t>> \o q) = 1 .. Len(q) + 1 /\ DOMAIN q = 1 .. Len(q) /\ Len(q) \in Nat
         /\ \A i \in 1 .. Len(q) + 1 : (<<t>> \o q)[i] = IF i = 1 THEN t ELSE q[i - 1]
OBVIOUS

LEMMA WaitMiddle ==
  ASSUME NEW S, wqueue \in Seq(S), NEW k \in DOMAIN wqueue
  PROVE  /\ Wait!Without(k) \in Seq(S) /\ DOMAIN Wait!Without(k) = 1 .. Len(wqueue) - 1
         /\ DOMAIN wqueue = 1 .. Len(wqueue) /\ Len(wqueue) \in Nat /\ k \in 1 .. Len(wqueue)
         /\ \A i \in 1 .. Len(wqueue) - 1 : Wait!Without(k)[i] = wqueue[IF i < k THEN i ELSE i + 1]
<1>1. DOMAIN wqueue = 1 .. Len(wqueue) /\ Len(wqueue) \in Nat /\ k \in 1 .. Len(wqueue)
  OBVIOUS
<1>2. \A i \in 1 .. Len(wqueue) - 1 : wqueue[IF i < k THEN i ELSE i + 1] \in S
  BY <1>1
<1>3. Wait!Without(k) \in [1 .. Len(wqueue) - 1 -> S] /\ Len(wqueue) - 1 \in Nat
  BY <1>1, <1>2 DEF Wait!Without
<1>4. Wait!Without(k) \in Seq(S)
  BY <1>3, SeqDef
<1> QED BY <1>1, <1>3, <1>4 DEF Wait!Without

LEMMA WaitNext == ASSUME WaitInv, Wait!Next PROVE WaitInv'
<1> USE DEF WaitInv, Wait!Goto
<1>0. witems \in Nat /\ witems \in 0 .. witems /\ wsignal \subseteq Sleepers
  BY WaitSizes
<1>1. ASSUME NEW t \in Sleepers, Wait!Enter(t) \/ Wait!SetState(t) \/ Wait!Test(t) \/ Wait!Schedule(t) \/ Wait!Take(t) \/ Wait!Signal(t)
      PROVE  WaitInv'
  <2> USE DEF WaitOn, WaitStates
  <2>1. wstate[t] \in {"running", Wait!Asleep(t)} /\ wstate = [wstate EXCEPT ![t] = wstate[t]]
    OBVIOUS
  <2>2. CASE Wait!Enter(t)
    <3> DEFINE to == IF witems > 0 THEN "take" ELSE "add"
    <3>1. to \in WaitStates /\ to \notin WaitOn /\ wpc[t] \notin WaitOn /\ wstate[t] = "running" /\ to # "schedule"
      BY <2>2 DEF Wait!Enter
    <3>2. WaitGoes(t, to, wstate[t]) /\ UNCHANGED <<wkind, witems, wqueue, wwaking, wsignal>>
      BY <2>1, <2>2 DEF Wait!Enter, WaitGoes
    <3> HIDE DEF to, WaitOn, WaitStates
    <3> QED BY <1>0, <2>1, <3>1, <3>2, WaitStep
  <2>3. CASE Wait!SetState(t)
    <3>1. /\ wpc[t] \in WaitOn /\ WaitGoes(t, "test", Wait!Asleep(t))
          /\ UNCHANGED <<wkind, witems, wqueue, wwaking, wsignal>> /\ "test" \in WaitOn /\ "test" \in WaitStates
      BY <2>3 DEF Wait!SetState, WaitGoes
    <3> HIDE DEF WaitOn, WaitStates
    <3> QED BY <1>0, <3>1, WaitStep
  <2>4. CASE Wait!Test(t)
    <3> DEFINE to == IF witems > 0 THEN "leave"
                     ELSE IF wkind[t] = "interruptible" /\ t \in wsignal THEN "restart" ELSE "schedule"
    <3>1. /\ wpc[t] \in WaitOn /\ to \in WaitOn /\ to \in WaitStates /\ (to = "schedule" => witems = 0)
      BY <2>4 DEF Wait!Test
    <3>2. WaitGoes(t, to, wstate[t]) /\ UNCHANGED <<wkind, witems, wqueue, wwaking, wsignal>>
      BY <2>1, <2>4 DEF Wait!Test, WaitGoes
    <3> HIDE DEF to, WaitOn, WaitStates
    <3> QED BY <1>0, <2>1, <3>1, <3>2, WaitStep
  <2>5. CASE Wait!Schedule(t)
    <3>1. /\ wpc[t] \in WaitOn /\ WaitGoes(t, "set", wstate[t]) /\ "set" \in WaitOn /\ "set" \in WaitStates
          /\ UNCHANGED <<wkind, witems, wqueue, wwaking, wsignal>>
      BY <2>1, <2>5 DEF Wait!Schedule, WaitGoes
    <3> HIDE DEF WaitOn, WaitStates
    <3> QED BY <1>0, <2>1, <3>1, WaitStep
  <2>6. CASE Wait!Take(t)
    <3>1. /\ wpc[t] \notin WaitOn /\ WaitGoes(t, "idle", wstate[t]) /\ "idle" \notin WaitOn /\ "idle" \in WaitStates
          /\ UNCHANGED <<wkind, wqueue, wwaking, wsignal>> /\ wstate[t] = "running"
      BY <2>1, <2>6 DEF Wait!Take, WaitGoes
    <3>2. witems' \in 0 .. witems
      BY <2>6, WaitSizes DEF Wait!Take
    <3> HIDE DEF WaitOn, WaitStates
    <3> QED BY <1>0, <2>1, <3>1, <3>2, WaitStep
  <2>7. CASE Wait!Signal(t)
    BY <2>7 DEF Wait!Signal, Wait!Asleep
  <2> QED BY <1>1, <2>2, <2>3, <2>4, <2>5, <2>6, <2>7
<1>2. ASSUME NEW t \in Sleepers, Wait!Add(t) PROVE WaitInv'
  <2>1. /\ wpc[t] = "add" /\ wpc' = [wpc EXCEPT ![t] = "set"] /\ UNCHANGED <<wkind, witems, wstate, wwaking, wsignal>>
        /\ wqueue' = IF wkind[t] = "exclusive" THEN Append(wqueue, t) ELSE <<t>> \o wqueue
    BY <1>2 DEF Wait!Add
  <2>2. t \notin {wqueue[i] : i \in DOMAIN wqueue}
    BY <2>1 DEF WaitOn
  <2>3. /\ wpc' \in [Sleepers -> WaitStates] /\ \A u \in Sleepers : wpc'[u] = IF u = t THEN "set" ELSE wpc[u]
        /\ "set" \in WaitOn /\ "set" # "schedule"
    BY <2>1 DEF WaitStates, WaitOn
  <2>4. /\ \A u \in Sleepers : wstate'[u] # "running" => wpc'[u] \in WaitOn /\ wstate'[u] = Wait!Asleep(u)'
        /\ witems' > 0 /\ wwaking' = {} =>
             \A u \in Sleepers : wpc'[u] = "schedule" /\ wstate'[u] # "running" => wkind'[u] = "exclusive"
    BY <2>1, <2>3 DEF Wait!Asleep
  <2>5. CASE wkind[t] = "exclusive"
    <3>1. /\ wqueue' \in Seq(Sleepers) /\ DOMAIN wqueue' = 1 .. Len(wqueue) + 1 /\ DOMAIN wqueue = 1 .. Len(wqueue) /\ Len(wqueue) \in Nat
          /\ \A i \in 1 .. Len(wqueue) + 1 : wqueue'[i] = IF i = Len(wqueue) + 1 THEN t ELSE wqueue[i]
      BY <2>1, <2>5, WaitTail
    <3>2. \A i, j \in DOMAIN wqueue' : wqueue'[i] = wqueue'[j] => i = j
      BY <2>2, <3>1
    <3>3. \A u \in Sleepers : wpc'[u] \in WaitOn <=> \E i \in DOMAIN wqueue' : wqueue'[i] = u
      <4>1. \A u \in Sleepers : (\E i \in DOMAIN wqueue' : wqueue'[i] = u) <=> u = t \/ \E i \in DOMAIN wqueue : wqueue[i] = u
        BY <3>1
      <4> QED BY <2>3, <4>1
    <3>4. \A i, j \in DOMAIN wqueue' : wkind[wqueue'[i]] = "exclusive" /\ wkind[wqueue'[j]] # "exclusive" => j < i
      BY <2>5, <3>1
    <3> QED BY <2>1, <2>3, <2>4, <3>1, <3>2, <3>3, <3>4
  <2>6. CASE wkind[t] # "exclusive"
    <3>1. /\ wqueue' \in Seq(Sleepers) /\ DOMAIN wqueue' = 1 .. Len(wqueue) + 1 /\ DOMAIN wqueue = 1 .. Len(wqueue) /\ Len(wqueue) \in Nat
          /\ \A i \in 1 .. Len(wqueue) + 1 : wqueue'[i] = IF i = 1 THEN t ELSE wqueue[i - 1]
      BY <2>1, <2>6, WaitHead
    <3>2. \A i, j \in DOMAIN wqueue' : wqueue'[i] = wqueue'[j] => i = j
      BY <2>2, <3>1
    <3>3. \A u \in Sleepers : wpc'[u] \in WaitOn <=> \E i \in DOMAIN wqueue' : wqueue'[i] = u
      <4>1. \A i \in DOMAIN wqueue : i + 1 \in DOMAIN wqueue' /\ wqueue'[i + 1] = wqueue[i]
        BY <3>1
      <4>2. 1 \in DOMAIN wqueue' /\ wqueue'[1] = t
        BY <3>1
      <4>3. \A i \in DOMAIN wqueue' : wqueue'[i] = t \/ \E j \in DOMAIN wqueue : wqueue'[i] = wqueue[j]
        <5> TAKE i \in DOMAIN wqueue'
        <5>1. CASE i = 1
          BY <4>2, <5>1
        <5>2. CASE i # 1
          <6>1. i - 1 \in DOMAIN wqueue /\ wqueue'[i] = wqueue[i - 1]
            BY <3>1, <5>2
          <6> QED BY <6>1
        <5> QED BY <5>1, <5>2
      <4>4. \A u \in Sleepers : (\E i \in DOMAIN wqueue' : wqueue'[i] = u) <=> u = t \/ \E i \in DOMAIN wqueue : wqueue[i] = u
        BY ONLY <4>1, <4>2, <4>3
      <4> QED BY <2>3, <4>4
    <3>4. \A i, j \in DOMAIN wqueue' : wkind[wqueue'[i]] = "exclusive" /\ wkind[wqueue'[j]] # "exclusive" => j < i
      <4> SUFFICES ASSUME NEW i \in DOMAIN wqueue', NEW j \in DOMAIN wqueue',
                          wkind[wqueue'[i]] = "exclusive", wkind[wqueue'[j]] # "exclusive"
                   PROVE  j < i
        OBVIOUS
      <4>1. i # 1 /\ i - 1 \in DOMAIN wqueue /\ wqueue'[i] = wqueue[i - 1]
        BY <2>6, <3>1
      <4>2. CASE j = 1
        BY <3>1, <4>1, <4>2
      <4>3. CASE j # 1
        <5>1. j - 1 \in DOMAIN wqueue /\ wqueue'[j] = wqueue[j - 1]
          BY <3>1, <4>3
        <5>2. j - 1 < i - 1
          BY <4>1, <5>1
        <5> QED BY <3>1, <5>2
      <4> QED BY <4>2, <4>3
    <3> QED BY <2>1, <2>3, <2>4, <3>1, <3>2, <3>3, <3>4
  <2> QED BY <2>5, <2>6
<1>3. ASSUME NEW t \in Sleepers, Wait!Leave(t) PROVE WaitInv'
  <2>1. PICK to \in {"take", "idle"}, k \in DOMAIN wqueue :
          /\ wpc[t] \in {"leave", "restart"} /\ wpc' = [wpc EXCEPT ![t] = to] /\ wsignal' \subseteq wsignal
          /\ wstate' = [wstate EXCEPT ![t] = "running"] /\ wqueue[k] = t /\ wqueue' = Wait!Without(k)
          /\ UNCHANGED <<wkind, witems, wwaking>>
    BY <1>3 DEF Wait!Leave
  <2>2. /\ wqueue' \in Seq(Sleepers) /\ DOMAIN wqueue' = 1 .. Len(wqueue) - 1
        /\ DOMAIN wqueue = 1 .. Len(wqueue) /\ Len(wqueue) \in Nat /\ k \in 1 .. Len(wqueue)
        /\ \A i \in 1 .. Len(wqueue) - 1 : wqueue'[i] = wqueue[IF i < k THEN i ELSE i + 1]
    BY <2>1, WaitMiddle
  <2>3. /\ wpc' \in [Sleepers -> WaitStates] /\ \A u \in Sleepers : wpc'[u] = IF u = t THEN to ELSE wpc[u]
        /\ to \notin WaitOn /\ to # "schedule"
    BY <2>1 DEF WaitStates, WaitOn
  <2>4. /\ wstate' \in [Sleepers -> {"running", "interruptible", "uninterruptible"}]
        /\ \A u \in Sleepers : wstate'[u] # "running" => wpc'[u] \in WaitOn /\ wstate'[u] = Wait!Asleep(u)'
        /\ witems' > 0 /\ wwaking' = {} =>
             \A u \in Sleepers : wpc'[u] = "schedule" /\ wstate'[u] # "running" => wkind'[u] = "exclusive"
    BY <2>1, <2>3 DEF Wait!Asleep
  <2> DEFINE old(i) == IF i < k THEN i ELSE i + 1
  <2>8. /\ \A i \in DOMAIN wqueue' : old(i) \in DOMAIN wqueue /\ old(i) # k /\ wqueue'[i] = wqueue[old(i)]
        /\ \A i, j \in DOMAIN wqueue' : (old(i) = old(j) => i = j) /\ (old(j) < old(i) => j < i)
    BY <2>2
  <2> HIDE DEF old
  <2>5. \A i, j \in DOMAIN wqueue' : wqueue'[i] = wqueue'[j] => i = j
    BY <2>8
  <2>6. \A u \in Sleepers : wpc'[u] \in WaitOn <=> \E i \in DOMAIN wqueue' : wqueue'[i] = u
    <3>1. \A i \in DOMAIN wqueue' : wqueue'[i] # t /\ \E j \in DOMAIN wqueue : wqueue[j] = wqueue'[i]
      BY <2>1, <2>8
    <3>2. \A j \in DOMAIN wqueue : j # k => \E i \in DOMAIN wqueue' : wqueue'[i] = wqueue[j]
      <4> SUFFICES ASSUME NEW j \in DOMAIN wqueue, j # k PROVE \E i \in DOMAIN wqueue' : wqueue'[i] = wqueue[j]
        OBVIOUS
      <4> DEFINE i == IF j < k THEN j ELSE j - 1
      <4>1. i \in DOMAIN wqueue' /\ wqueue'[i] = wqueue[j]
        BY <2>2
      <4> QED BY <4>1
    <3>3. \A u \in Sleepers : (\E i \in DOMAIN wqueue' : wqueue'[i] = u) <=> u # t /\ \E i \in DOMAIN wqueue : wqueue[i] = u
      BY <2>1, <3>1, <3>2
    <3> QED BY <2>3, <3>3
  <2>7. \A i, j \in DOMAIN wqueue' : wkind[wqueue'[i]] = "exclusive" /\ wkind[wqueue'[j]] # "exclusive" => j < i
    BY <2>8
  <2> QED BY <2>1, <2>2, <2>3, <2>4, <2>5, <2>6, <2>7
<1>4. ASSUME NEW w \in Cpus, Wait!Post(w) PROVE WaitInv'
  BY <1>4, WaitSizes DEF Wait!Post, Wait!Asleep
<1>5. ASSUME NEW w \in Cpus, Wait!WakeUp(w) PROVE WaitInv'
  <2>1. PICK macro \in Wait!Macros :
          /\ Wait!MayUse(macro) /\ wwaking' = wwaking \ {w}
          /\ wstate' = [t \in Sleepers |-> IF t \in Wait!Woken(macro) THEN "running" ELSE wstate[t]]
          /\ UNCHANGED <<wkind, witems, wqueue, wpc, wsignal>>
    BY <1>5 DEF Wait!WakeUp
  <2>2. \A t \in Sleepers : wpc[t] = "schedule" /\ wstate[t] # "running" => wkind[t] = "exclusive" \/ t \in Wait!Woken(macro)
    <3> SUFFICES ASSUME NEW t \in Sleepers, wpc[t] = "schedule", wstate[t] # "running", wkind[t] # "exclusive"
                 PROVE  t \in Wait!Woken(macro)
      OBVIOUS
    <3>1. PICK j \in DOMAIN wqueue : wqueue[j] = t
      BY DEF WaitOn
    <3>2. j \in Wait!Able(macro)
      BY <2>1, <3>1 DEF Wait!Able, Wait!MayUse
    <3>3. \A k \in Wait!Able(macro) : wkind[wqueue[k]] = "exclusive" => k >= j
      BY <3>1 DEF Wait!Able
    <3> QED BY <3>1, <3>2, <3>3 DEF Wait!Woken
  <2>3. \A t \in Sleepers : wpc'[t] = "schedule" /\ wstate'[t] # "running" => wkind'[t] = "exclusive"
    BY <2>1, <2>2
  <2>4. /\ wstate' \in [Sleepers -> {"running", "interruptible", "uninterruptible"}]
        /\ \A t \in Sleepers : wstate'[t] # "running" => wpc'[t] \in WaitOn /\ wstate'[t] = Wait!Asleep(t)'
    BY <2>1 DEF Wait!Asleep
  <2> QED BY <2>1, <2>3, <2>4
<1> QED BY <1>1, <1>2, <1>3, <1>4, <1>5 DEF Wait!Next, Wait!Go

LEMMA WaitKept == WaitInv => Wait!TypeOK /\ Wait!Queued /\ Wait!NoLostWakeup
<1> SUFFICES ASSUME WaitInv PROVE Wait!TypeOK /\ Wait!Queued /\ Wait!NoLostWakeup
  OBVIOUS
<1> USE DEF WaitInv
<1>1. Wait!TypeOK
  BY DEF Wait!TypeOK, Wait!Both, WaitStates
<1>2. Wait!NoLostWakeup
  BY DEF Wait!NoLostWakeup, Wait!Sleeps
<1>3. ASSUME NEW t \in Sleepers
      PROVE  Wait!Cardinality({i \in DOMAIN wqueue : wqueue[i] = t}) = IF Wait!Waiting(t) THEN 1 ELSE 0
  <2>1. Wait!Waiting(t) <=> wpc[t] \in WaitOn
    BY DEF Wait!Waiting, WaitOn
  <2>2. CASE Wait!Waiting(t)
    <3>1. PICK i \in DOMAIN wqueue : {j \in DOMAIN wqueue : wqueue[j] = t} = {i}
      BY <2>1, <2>2
    <3> QED BY <2>2, <3>1, WaitSets, FewElements
  <2>3. CASE ~Wait!Waiting(t)
    <3>1. {j \in DOMAIN wqueue : wqueue[j] = t} = {}
      BY <2>1, <2>3
    <3> QED BY <2>3, <3>1, WaitSets, FewElements
  <2> QED BY <2>2, <2>3
<1> QED BY <1>1, <1>2, <1>3 DEF Wait!Queued

-----------------------------------------------------------------------------
(* The readers/writers semaphore.                                          *)
LEMMA RwsSets == \A S : Rws!Cardinality(S) = Cardinality(S) /\ (Rws!IsFiniteSet(S) <=> IsFiniteSet(S))
<1>1. \A S : Rws!IsFiniteSet(S) <=> IsFiniteSet(S)
  BY Zenon DEF Rws!IsFiniteSet, IsFiniteSet
<1>2. \A S : Rws!Cardinality(S) = Cardinality(S)
  BY Zenon DEF Rws!Cardinality, Cardinality
<1> QED BY <1>1, <1>2

LEMMA RwsSizes ==
  IsFiniteSet(Procs) /\ RwBias \in Nat /\ Cardinality(Procs) \in Nat /\ RwBias > Cardinality(Procs)
<1>1. Rws!BiasOK
  BY Sizes
<1>2. IsFiniteSet(Procs) /\ RwBias \in Nat /\ RwBias > Cardinality(Procs)
  BY <1>1, RwsSets DEF Rws!BiasOK
<1> QED BY <1>2, FS_CardinalityType

(* Who has the lock, whose part of the count it is, and who wakes.         *)
RwsFree == {"r", "w"} \X {"idle", "wait", "retry"}
RwsHold(m) == {<<m, "got">>, <<m, "in">>, <<m, "out">>}
RwsPart(m) == RwsHold(m) \union {<<m, "biased">>, <<m, "undo">>}
RwsWake(m) == {<<n, "wake", m, next>> : n \in {"r", "w"}, next \in {"idle", "wait"}}
RwsStates ==
  RwsFree \union RwsPart("r") \union RwsPart("w") \union RwsWake("r") \union RwsWake("w")

HoldNo(f, m) == Cardinality(At(f, Procs, RwsHold(m)))
PartNo(f, m) == Cardinality(At(f, Procs, RwsPart(m)))
BiasedNo(f, m) == Cardinality(At(f, Procs, {<<m, "biased">>}))
WakeNo(f, m) == Cardinality(At(f, Procs, RwsWake(m)))
GrantNo(f, g, m) == WakeNo(f, m) + (IF m \in g THEN 1 ELSE 0)

(* The count lacks every part.  It goes below zero when somebody becomes   *)
(* biased and comes back when somebody must wake: so of the biased all but *)
(* one have a grant, or all, and only for one there is a grant at a time.  *)
(* A grant excludes what the lock it is for excludes.                      *)
RwsBalance(c, hr, hw, pr, pw, br, bw, tr, tw) ==
  /\ c = RwBias - pr - RwBias * pw
  /\ br + bw = tr + tw + (IF c < 0 THEN 1 ELSE 0)
  /\ tr <= br /\ tw <= bw /\ tr + tw <= 1 /\ br <= 1
  /\ hw + tw <= 1 /\ (hw + tw = 1 => hr + tr = 0)

RwsFits(f, c, g) ==
  /\ f \in [Procs -> RwsStates] /\ g \subseteq {"r", "w"}
  /\ RwsBalance(c, HoldNo(f, "r"), HoldNo(f, "w"), PartNo(f, "r"), PartNo(f, "w"),
                BiasedNo(f, "r"), BiasedNo(f, "w"), GrantNo(f, g, "r"), GrantNo(f, g, "w"))

RwsInv == RwsFits(xpc, xcount, xgranted) /\ xbug = FALSE /\ xasleep \subseteq Procs

(* Where each state belongs.                                               *)
LEMMA RwsKinds ==
  ASSUME NEW m \in {"r", "w"}, NEW k \in {"r", "w"}
  PROVE  /\ \A x \in {"got", "in", "out", "biased", "undo"} :
              /\ <<m, x>> \in RwsPart(k) <=> m = k
              /\ <<m, x>> \in RwsHold(k) <=> m = k /\ x \notin {"biased", "undo"}
              /\ <<m, x>> \in {<<k, "biased">>} <=> m = k /\ x = "biased"
              /\ <<m, x>> \notin RwsWake(k) /\ <<m, x>> \in RwsStates
         /\ \A s \in RwsFree : /\ s \notin RwsPart(k) /\ s \notin RwsHold(k) /\ s \notin {<<k, "biased">>}
                               /\ s \notin RwsWake(k) /\ s \in RwsStates
         /\ \A n \in {"r", "w"}, next \in {"idle", "wait"} :
              /\ <<n, "wake", m, next>> \in RwsWake(k) <=> m = k
              /\ <<n, "wake", m, next>> \notin RwsPart(k) /\ <<n, "wake", m, next>> \notin RwsHold(k)
              /\ <<n, "wake", m, next>> \notin {<<k, "biased">>} /\ <<n, "wake", m, next>> \in RwsStates
<1>1. \A x \in {"got", "in", "out", "biased", "undo"} :
              /\ <<m, x>> \in RwsPart(k) <=> m = k
              /\ <<m, x>> \in RwsHold(k) <=> m = k /\ x \notin {"biased", "undo"}
              /\ <<m, x>> \in {<<k, "biased">>} <=> m = k /\ x = "biased"
  BY DEF RwsPart, RwsHold
<1>2. \A x \in {"got", "in", "out", "biased", "undo"} : <<m, x>> \notin RwsWake(k) /\ <<m, x>> \in RwsStates
  <2> TAKE x \in {"got", "in", "out", "biased", "undo"}
  <2>1. <<m, x>> \notin RwsWake(k)
    BY DEF RwsWake
  <2>2. <<m, x>> \in RwsPart(m)
    BY DEF RwsPart, RwsHold
  <2>3. RwsPart(m) \subseteq RwsStates
    BY DEF RwsStates
  <2> QED BY <2>1, <2>2, <2>3
<1>3. \A s \in RwsFree : /\ s \notin RwsPart(k) /\ s \notin RwsHold(k) /\ s \notin {<<k, "biased">>}
                         /\ s \notin RwsWake(k) /\ s \in RwsStates
  <2> TAKE s \in RwsFree
  <2>1. PICK n \in {"r", "w"}, x \in {"idle", "wait", "retry"} : s = <<n, x>>
    BY DEF RwsFree
  <2>2. s \notin RwsHold(k) /\ s \notin RwsPart(k) /\ s \notin {<<k, "biased">>}
    BY <2>1 DEF RwsHold, RwsPart
  <2>3. s \notin RwsWake(k)
    BY <2>1 DEF RwsWake
  <2> QED BY <2>2, <2>3 DEF RwsStates
<1>4. \A n \in {"r", "w"}, next \in {"idle", "wait"} :
              /\ <<n, "wake", m, next>> \in RwsWake(k) <=> m = k
              /\ <<n, "wake", m, next>> \notin RwsPart(k) /\ <<n, "wake", m, next>> \notin RwsHold(k)
              /\ <<n, "wake", m, next>> \notin {<<k, "biased">>} /\ <<n, "wake", m, next>> \in RwsStates
  BY DEF RwsPart, RwsHold, RwsWake, RwsStates
<1> QED BY <1>1, <1>2, <1>3, <1>4

(* The numbers, whatever the states are.                                   *)
LEMMA RwsNumbers ==
  ASSUME NEW f, NEW m \in {"r", "w"}
  PROVE  /\ HoldNo(f, m) \in Nat /\ PartNo(f, m) \in Nat /\ BiasedNo(f, m) \in Nat /\ WakeNo(f, m) \in Nat
         /\ HoldNo(f, m) + BiasedNo(f, m) <= PartNo(f, m)
         /\ PartNo(f, m) <= Cardinality(Procs)
<1> DEFINE hold == At(f, Procs, RwsHold(m))
           biased == At(f, Procs, {<<m, "biased">>})
           parts == At(f, Procs, RwsPart(m))
<1>1. /\ IsFiniteSet(hold) /\ IsFiniteSet(biased) /\ IsFiniteSet(parts)
      /\ Cardinality(hold) \in Nat /\ Cardinality(biased) \in Nat /\ Cardinality(parts) \in Nat
      /\ Cardinality(parts) <= Cardinality(Procs) /\ WakeNo(f, m) \in Nat
  BY RwsSizes, Somewhere DEF WakeNo
<1>2. hold \intersect biased = {}
  BY DEF At, RwsHold
<1>3. hold \union biased \subseteq parts
  BY DEF At, RwsPart
<1> HIDE DEF hold, biased, parts
<1>4. Cardinality(hold \union biased) = Cardinality(hold) + Cardinality(biased)
  <2>1. Cardinality(hold \union biased) = Cardinality(hold) + Cardinality(biased) - Cardinality(hold \intersect biased)
    BY <1>1, FS_Union
  <2>2. Cardinality(hold \intersect biased) = 0
    BY <1>2, FewElements
  <2> QED BY <1>1, <2>1, <2>2
<1>5. Cardinality(hold \union biased) <= Cardinality(parts)
  <2>1. hold \union biased \in SUBSET parts
    BY <1>3
  <2> QED BY <1>1, <2>1, Smaller
<1> QED BY <1>1, <1>4, <1>5 DEF HoldNo, BiasedNo, PartNo, hold, biased, parts

(* One process goes to t.                                                  *)
RwsGoes(f, h, p, t) == h = [f EXCEPT ![p] = t]
One(b) == IF b THEN 1 ELSE 0

LEMMA RwsStep ==
  ASSUME NEW f \in [Procs -> RwsStates], NEW p \in Procs, NEW t \in RwsStates, NEW h,
         RwsGoes(f, h, p, t), NEW m \in {"r", "w"}
  PROVE  /\ h \in [Procs -> RwsStates]
         /\ HoldNo(h, m) = HoldNo(f, m) + One(t \in RwsHold(m)) - One(f[p] \in RwsHold(m))
         /\ PartNo(h, m) = PartNo(f, m) + One(t \in RwsPart(m)) - One(f[p] \in RwsPart(m))
         /\ BiasedNo(h, m) = BiasedNo(f, m) + One(t \in {<<m, "biased">>}) - One(f[p] \in {<<m, "biased">>})
         /\ WakeNo(h, m) = WakeNo(f, m) + One(t \in RwsWake(m)) - One(f[p] \in RwsWake(m))
<1>1. IsFiniteSet(Procs) /\ Moved(Procs, f, h, p, t) /\ h \in [Procs -> RwsStates]
  BY RwsSizes DEF Moved, RwsGoes
<1>2. \A S : Cardinality(At(h, Procs, S)) = Cardinality(At(f, Procs, S)) + One(t \in S) - One(f[p] \in S)
  BY <1>1, Moves DEF One
<1> QED BY <1>1, <1>2 DEF HoldNo, PartNo, BiasedNo, WakeNo

(* What the count says of the parts.                                       *)
RwsNumbersOK(hr, hw, pr, pw, br, bw, tr, tw) ==
  /\ hr \in Nat /\ hw \in Nat /\ pr \in Nat /\ pw \in Nat
  /\ br \in Nat /\ bw \in Nat /\ tr \in Nat /\ tw \in Nat
  /\ hr + br <= pr /\ hw + bw <= pw /\ pr < RwBias

LEMMA RwsCount ==
  ASSUME NEW b \in Nat, NEW pr \in Nat, NEW pw \in Nat, pr < b, NEW c, c = b - pr - b * pw
  PROVE  /\ c \in Int /\ b * pw \in Nat
         /\ b * (pw + 1) = b * pw + b /\ (pw > 0 => b * (pw - 1) = b * pw - b)
         /\ pw = 0 => c = b - pr /\ c > 0
         /\ pw = 1 => c = -pr
         /\ pw > 1 => c <= -b - pr /\ c < 0
<1> DEFINE e == b * pw
<1>1. \A n \in Nat : b * n \in Nat /\ b * (n + 1) = b * n + b /\ b * 0 = 0 /\ b * 1 = b /\ b * 2 = b + b
  OBVIOUS
<1>2. pw > 1 => b * 2 <= b * pw
  BY Product
<1>3. pw > 0 => pw - 1 \in Nat /\ (pw - 1) + 1 = pw
  OBVIOUS
<1>4. e \in Nat /\ b * (pw + 1) = e + b /\ (pw = 0 => e = 0) /\ (pw = 1 => e = b) /\ (pw > 1 => e >= b + b)
  BY <1>1, <1>2
<1>5. pw > 0 => b * (pw - 1) = e - b
  BY <1>1, <1>3
<1>6. c = b - pr - e
  OBVIOUS
<1> HIDE DEF e
<1>7. c \in Int /\ (pw = 0 => c = b - pr /\ c > 0) /\ (pw = 1 => c = -pr) /\ (pw > 1 => c <= -b - pr /\ c < 0)
  BY <1>4, <1>6
<1> QED BY <1>4, <1>5, <1>7 DEF e

(* A part is taken: the lock with it, or the bias, or neither.             *)
LEMMA RwsTakesRead ==
  ASSUME NEW c, NEW hr, NEW hw, NEW pr, NEW pw, NEW br, NEW bw, NEW tr, NEW tw,
         RwsNumbersOK(hr, hw, pr, pw, br, bw, tr, tw), RwsBalance(c, hr, hw, pr, pw, br, bw, tr, tw)
  PROVE  /\ c - 1 >= 0 => RwsBalance(c - 1, hr + 1, hw, pr + 1, pw, br, bw, tr, tw)
         /\ c = 0 => RwsBalance(c - 1, hr, hw, pr + 1, pw, br + 1, bw, tr, tw)
         /\ c < 0 => RwsBalance(c - 1, hr, hw, pr + 1, pw, br, bw, tr, tw)
<1>1. RwBias \in Nat
  BY RwsSizes
<1>2. /\ c \in Int /\ RwBias * pw \in Nat
      /\ pw = 0 => c = RwBias - pr /\ c > 0
      /\ pw = 1 => c = -pr
      /\ pw > 1 => c <= -RwBias - pr /\ c < 0
  BY <1>1, RwsCount DEF RwsNumbersOK, RwsBalance
<1> DEFINE e == RwBias * pw
<1> HIDE DEF e
<1>3. /\ e \in Nat /\ c = RwBias - pr - e
      /\ br + bw = tr + tw + (IF c < 0 THEN 1 ELSE 0)
      /\ tr <= br /\ tw <= bw /\ tr + tw <= 1 /\ br <= 1
      /\ hw + tw <= 1 /\ (hw + tw = 1 => hr + tr = 0)
  BY <1>2 DEF RwsBalance, e
<1> USE DEF RwsNumbersOK
<1>4. ASSUME c - 1 >= 0 PROVE RwsBalance(c - 1, hr + 1, hw, pr + 1, pw, br, bw, tr, tw)
  <2>1. pw = 0 /\ hw = 0 /\ tw = 0 /\ ~(c - 1 < 0) /\ ~(c < 0)
    BY <1>1, <1>2, <1>3, <1>4
  <2>2. c - 1 = RwBias - (pr + 1) - e
    BY <1>1, <1>2, <1>3
  <2> QED BY <1>3, <2>1, <2>2 DEF RwsBalance, e
<1>5. ASSUME c = 0 PROVE RwsBalance(c - 1, hr, hw, pr + 1, pw, br + 1, bw, tr, tw)
  <2>1. pr = 0 /\ br = 0 /\ c - 1 < 0 /\ ~(c < 0)
    BY <1>1, <1>2, <1>3, <1>5
  <2>2. c - 1 = RwBias - (pr + 1) - e
    BY <1>1, <1>2, <1>3
  <2> QED BY <1>3, <2>1, <2>2 DEF RwsBalance, e
<1>6. ASSUME c < 0 PROVE RwsBalance(c - 1, hr, hw, pr + 1, pw, br, bw, tr, tw)
  <2>1. c - 1 < 0 /\ c - 1 = RwBias - (pr + 1) - e
    BY <1>1, <1>2, <1>3, <1>6
  <2> QED BY <1>3, <1>6, <2>1 DEF RwsBalance, e
<1> QED BY <1>4, <1>5, <1>6

LEMMA RwsTakesWrite ==
  ASSUME NEW c, NEW hr, NEW hw, NEW pr, NEW pw, NEW br, NEW bw, NEW tr, NEW tw,
         RwsNumbersOK(hr, hw, pr, pw, br, bw, tr, tw), RwsBalance(c, hr, hw, pr, pw, br, bw, tr, tw)
  PROVE  /\ c - RwBias = 0 => RwsBalance(c - RwBias, hr, hw + 1, pr, pw + 1, br, bw, tr, tw)
         /\ c \in 0 .. RwBias - 1 => RwsBalance(c - RwBias, hr, hw, pr, pw + 1, br, bw + 1, tr, tw)
         /\ c < 0 => RwsBalance(c - RwBias, hr, hw, pr, pw + 1, br, bw, tr, tw)
         /\ c <= RwBias
<1>1. RwBias \in Nat
  BY RwsSizes
<1>2. /\ c \in Int /\ RwBias * pw \in Nat /\ RwBias * (pw + 1) = RwBias * pw + RwBias
      /\ pw = 0 => c = RwBias - pr /\ c > 0
      /\ pw = 1 => c = -pr
      /\ pw > 1 => c <= -RwBias - pr /\ c < 0
  BY <1>1, RwsCount DEF RwsNumbersOK, RwsBalance
<1> DEFINE e == RwBias * pw
           e1 == RwBias * (pw + 1)
<1> HIDE DEF e, e1
<1>3. /\ e \in Nat /\ c = RwBias - pr - e /\ e1 = e + RwBias
      /\ br + bw = tr + tw + (IF c < 0 THEN 1 ELSE 0)
      /\ tr <= br /\ tw <= bw /\ tr + tw <= 1 /\ br <= 1
      /\ hw + tw <= 1 /\ (hw + tw = 1 => hr + tr = 0)
  BY <1>2 DEF RwsBalance, e, e1
<1> USE DEF RwsNumbersOK
<1>4. c - RwBias = RwBias - pr - e1
  BY <1>1, <1>2, <1>3
<1>5. ASSUME c - RwBias = 0 PROVE RwsBalance(c - RwBias, hr, hw + 1, pr, pw + 1, br, bw, tr, tw)
  <2>1. pw = 0 /\ pr = 0 /\ hr = 0 /\ hw = 0 /\ tr = 0 /\ tw = 0 /\ ~(c - RwBias < 0) /\ ~(c < 0)
    BY <1>1, <1>2, <1>3, <1>5
  <2> QED BY <1>3, <1>4, <2>1 DEF RwsBalance, e1
<1>6. ASSUME c \in 0 .. RwBias - 1 PROVE RwsBalance(c - RwBias, hr, hw, pr, pw + 1, br, bw + 1, tr, tw)
  <2>1. c - RwBias < 0 /\ ~(c < 0)
    BY <1>1, <1>6
  <2> QED BY <1>3, <1>4, <2>1 DEF RwsBalance, e1
<1>7. ASSUME c < 0 PROVE RwsBalance(c - RwBias, hr, hw, pr, pw + 1, br, bw, tr, tw)
  <2>1. c - RwBias < 0
    BY <1>1, <1>2, <1>7
  <2> QED BY <1>3, <1>4, <1>7, <2>1 DEF RwsBalance, e1
<1>8. c <= RwBias
  BY <1>1, <1>2
<1> QED BY <1>5, <1>6, <1>7, <1>8

(* A part is given back, by one who had the lock or not: if the count      *)
(* comes back from below zero somebody gets a grant, whose turn it is.     *)
LEMMA RwsGivesRead ==
  ASSUME NEW c, NEW hr, NEW hw, NEW pr, NEW pw, NEW br, NEW bw, NEW tr, NEW tw,
         RwsNumbersOK(hr, hw, pr, pw, br, bw, tr, tw), RwsBalance(c, hr, hw, pr, pw, br, bw, tr, tw),
         NEW k \in {0, 1}, k <= hr, hr - k + br <= pr - 1
  PROVE  /\ c # -1 => RwsBalance(c + 1, hr - k, hw, pr - 1, pw, br, bw, tr, tw)
         /\ c = -1 => RwsBalance(c + 1, hr - k, hw, pr - 1, pw, br, bw, tr, tw + 1)
<1>1. RwBias \in Nat
  BY RwsSizes
<1>2. /\ c \in Int /\ RwBias * pw \in Nat
      /\ pw = 0 => c = RwBias - pr /\ c > 0
      /\ pw = 1 => c = -pr
      /\ pw > 1 => c <= -RwBias - pr /\ c < 0
  BY <1>1, RwsCount DEF RwsNumbersOK, RwsBalance
<1> DEFINE e == RwBias * pw
<1> HIDE DEF e
<1>3. /\ e \in Nat /\ c = RwBias - pr - e
      /\ br + bw = tr + tw + (IF c < 0 THEN 1 ELSE 0)
      /\ tr <= br /\ tw <= bw /\ tr + tw <= 1 /\ br <= 1
      /\ hw + tw <= 1 /\ (hw + tw = 1 => hr + tr = 0)
  BY <1>2 DEF RwsBalance, e
<1> USE DEF RwsNumbersOK
<1>4. c + 1 = RwBias - (pr - 1) - e
  BY <1>1, <1>2, <1>3
<1>5. hr = 0 => hr - k = 0
  OBVIOUS
<1>6. ASSUME c # -1 PROVE RwsBalance(c + 1, hr - k, hw, pr - 1, pw, br, bw, tr, tw)
  <2>1. c + 1 < 0 <=> c < 0
    BY <1>2, <1>6
  <2>2. hw + tw = 1 => hr - k + tr = 0
    BY <1>3
  <2> QED BY <1>3, <1>4, <2>1, <2>2 DEF RwsBalance, e
<1>7. ASSUME c = -1 PROVE RwsBalance(c + 1, hr - k, hw, pr - 1, pw, br, bw, tr, tw + 1)
  <2>1. pr = 1 /\ pw = 1
    BY <1>1, <1>2, <1>7
  <2>2. hr - k = 0 /\ br = 0 /\ tr = 0
    BY <1>3, <2>1
  <2>3. bw = tw + 1 /\ ~(c + 1 < 0)
    BY <1>3, <1>7, <2>2
  <2>4. bw = 1 /\ tw = 0 /\ hw = 0
    BY <1>3, <2>1, <2>3
  <2> QED BY <1>3, <1>4, <2>2, <2>3, <2>4 DEF RwsBalance, e
<1> QED BY <1>6, <1>7

LEMMA RwsGivesWrite ==
  ASSUME NEW c, NEW hr, NEW hw, NEW pr, NEW pw, NEW br, NEW bw, NEW tr, NEW tw,
         RwsNumbersOK(hr, hw, pr, pw, br, bw, tr, tw), RwsBalance(c, hr, hw, pr, pw, br, bw, tr, tw),
         NEW k \in {0, 1}, k <= hw, hw - k + bw <= pw - 1
  PROVE  /\ c \notin -RwBias .. -1 => RwsBalance(c + RwBias, hr, hw - k, pr, pw - 1, br, bw, tr, tw)
         /\ c \in -RwBias .. -1 /\ c + RwBias = 0 =>
              RwsBalance(c + RwBias, hr, hw - k, pr, pw - 1, br, bw, tr, tw + 1)
         /\ c \in -RwBias .. -1 /\ c + RwBias # 0 =>
              RwsBalance(c + RwBias, hr, hw - k, pr, pw - 1, br, bw, tr + 1, tw)
<1> DEFINE e == RwBias * pw
           u == pw - 1
           e1 == RwBias * u
           d == c + RwBias
<1>1. RwBias \in Nat /\ u \in Nat /\ pw > 0
  BY RwsSizes DEF RwsNumbersOK
<1>2. c \in Int /\ RwBias * pw \in Nat /\ e1 = e - RwBias /\ c = RwBias - pr - e
  <2>1. c = RwBias - pr - RwBias * pw /\ pr \in Nat /\ pw \in Nat /\ pr < RwBias
    BY DEF RwsNumbersOK, RwsBalance
  <2> QED BY <1>1, <2>1, RwsCount
<1> HIDE DEF e, e1, u
<1>3. d \in Int /\ d = RwBias - pr - e1 /\ e \in Nat
  BY <1>1, <1>2 DEF e, RwsNumbersOK
<1>4. /\ u = 0 => d = RwBias - pr /\ d > 0
      /\ u = 1 => d = -pr
      /\ u > 1 => d <= -RwBias - pr /\ d < 0
  <2>1. pr \in Nat /\ pr < RwBias
    BY DEF RwsNumbersOK
  <2> QED BY <1>1, <1>3, <2>1, RwsCount DEF e1
<1> HIDE DEF d
<1>5. /\ br + bw = tr + tw + (IF c < 0 THEN 1 ELSE 0)
      /\ tr <= br /\ tw <= bw /\ tr + tw <= 1 /\ br <= 1
      /\ hw + tw <= 1 /\ (hw + tw = 1 => hr + tr = 0)
  BY DEF RwsBalance
<1>6. d = c + RwBias /\ hw - k + bw <= u /\ hw - k \in Nat
  BY <1>1 DEF d, u, RwsNumbersOK
<1> USE DEF RwsNumbersOK
<1>7. ASSUME c \notin -RwBias .. -1 PROVE RwsBalance(d, hr, hw - k, pr, u, br, bw, tr, tw)
  <2>1. d < 0 <=> c < 0
    BY <1>1, <1>2, <1>6, <1>7
  <2>2. hw - k + tw <= 1 /\ (hw - k + tw = 1 => hr + tr = 0)
    BY <1>5
  <2> QED BY <1>3, <1>5, <2>1, <2>2 DEF RwsBalance, e1
<1>8. ASSUME c \in -RwBias .. -1, d = 0 PROVE RwsBalance(d, hr, hw - k, pr, u, br, bw, tr, tw + 1)
  <2>1. u = 1 /\ pr = 0 /\ c < 0 /\ ~(d < 0)
    BY <1>1, <1>2, <1>3, <1>4, <1>8
  <2>2. hr = 0 /\ br = 0 /\ tr = 0
    BY <1>5, <2>1
  <2>3. bw = tw + 1
    BY <1>5, <2>1, <2>2
  <2>4. bw = 1 /\ tw = 0 /\ hw - k = 0
    BY <1>5, <1>6, <2>1, <2>3
  <2> QED BY <1>3, <1>5, <2>1, <2>2, <2>4 DEF RwsBalance, e1
<1>9. ASSUME c \in -RwBias .. -1, d # 0 PROVE RwsBalance(d, hr, hw - k, pr, u, br, bw, tr + 1, tw)
  <2>1. u = 0 /\ c < 0 /\ ~(d < 0)
    BY <1>1, <1>2, <1>3, <1>4, <1>6, <1>9
  <2>2. hw - k = 0 /\ bw = 0 /\ tw = 0
    BY <1>5, <1>6, <2>1
  <2>3. br = 1 /\ tr = 0
    BY <1>5, <2>1, <2>2
  <2> QED BY <1>3, <1>5, <2>1, <2>2, <2>3 DEF RwsBalance, e1
<1> QED BY <1>7, <1>8, <1>9 DEF d, u

(* One who has a grant takes the lock.                                     *)
LEMMA RwsGetsGrant ==
  ASSUME NEW c, NEW hr, NEW hw, NEW pr, NEW pw, NEW br, NEW bw, NEW tr, NEW tw,
         RwsNumbersOK(hr, hw, pr, pw, br, bw, tr, tw), RwsBalance(c, hr, hw, pr, pw, br, bw, tr, tw)
  PROVE  /\ tr > 0 => RwsBalance(c, hr + 1, hw, pr, pw, br - 1, bw, tr - 1, tw)
         /\ tw > 0 => RwsBalance(c, hr, hw + 1, pr, pw, br, bw - 1, tr, tw - 1)
<1> DEFINE e == RwBias * pw
<1>1. /\ c = RwBias - pr - e
      /\ br + bw = tr + tw + (IF c < 0 THEN 1 ELSE 0)
      /\ tr <= br /\ tw <= bw /\ tr + tw <= 1 /\ br <= 1
      /\ hw + tw <= 1 /\ (hw + tw = 1 => hr + tr = 0)
  BY DEF RwsBalance
<1> HIDE DEF e
<1>2. ASSUME tr > 0 PROVE RwsBalance(c, hr + 1, hw, pr, pw, br - 1, bw, tr - 1, tw)
  <2>1. tr = 1 /\ tw = 0 /\ br = 1
    BY <1>1, <1>2 DEF RwsNumbersOK
  <2>2. hw = 0
    BY <1>1, <2>1 DEF RwsNumbersOK
  <2>3. br - 1 + bw = tr - 1 + tw + (IF c < 0 THEN 1 ELSE 0)
    BY <1>1, <2>1 DEF RwsNumbersOK
  <2> QED BY <1>1, <2>1, <2>2, <2>3 DEF RwsBalance, RwsNumbersOK, e
<1>3. ASSUME tw > 0 PROVE RwsBalance(c, hr, hw + 1, pr, pw, br, bw - 1, tr, tw - 1)
  <2>1. tw = 1 /\ tr = 0 /\ hw = 0 /\ hr = 0
    BY <1>1, <1>3 DEF RwsNumbersOK
  <2>2. br + (bw - 1) = tr + (tw - 1) + (IF c < 0 THEN 1 ELSE 0)
    BY <1>1, <2>1 DEF RwsNumbersOK
  <2> QED BY <1>1, <2>1, <2>2 DEF RwsBalance, RwsNumbersOK, e
<1> QED BY <1>2, <1>3

LEMMA RwsTyped ==
  ASSUME NEW f, NEW g
  PROVE  RwsNumbersOK(HoldNo(f, "r"), HoldNo(f, "w"), PartNo(f, "r"), PartNo(f, "w"),
                      BiasedNo(f, "r"), BiasedNo(f, "w"), GrantNo(f, g, "r"), GrantNo(f, g, "w"))
<1>1. \A m \in {"r", "w"} :
        /\ HoldNo(f, m) \in Nat /\ PartNo(f, m) \in Nat /\ BiasedNo(f, m) \in Nat /\ WakeNo(f, m) \in Nat
        /\ HoldNo(f, m) + BiasedNo(f, m) <= PartNo(f, m)
        /\ PartNo(f, m) <= Cardinality(Procs)
  BY RwsNumbers
<1>2. GrantNo(f, g, "r") \in Nat /\ GrantNo(f, g, "w") \in Nat
  BY <1>1 DEF GrantNo
<1>3. PartNo(f, "r") < RwBias
  BY <1>1, RwsSizes
<1> QED BY <1>1, <1>2, <1>3 DEF RwsNumbersOK

(* The same as steps of a process.  First those that change no number.     *)
LEMMA RwsQuiet ==
  ASSUME NEW f, NEW c, NEW g, RwsFits(f, c, g), NEW p \in Procs, NEW t, NEW h, RwsGoes(f, h, p, t),
         NEW m \in {"r", "w"}, (f[p] \in RwsHold(m) /\ t \in RwsHold(m)) \/ (f[p] \in RwsFree /\ t \in RwsFree)
  PROVE  RwsFits(h, c, g)
<1>1. f \in [Procs -> RwsStates]
  BY DEF RwsFits
<1>2. /\ t \in RwsStates
      /\ \A k \in {"r", "w"} : /\ t \in RwsHold(k) <=> f[p] \in RwsHold(k)
                               /\ t \in RwsPart(k) <=> f[p] \in RwsPart(k)
                               /\ t \in {<<k, "biased">>} <=> f[p] \in {<<k, "biased">>}
                               /\ t \in RwsWake(k) <=> f[p] \in RwsWake(k)
  <2>1. CASE f[p] \in RwsFree /\ t \in RwsFree
    BY <2>1, RwsKinds
  <2>2. CASE f[p] \in RwsHold(m) /\ t \in RwsHold(m)
    <3>1. PICK x \in {"got", "in", "out"}, y \in {"got", "in", "out"} : f[p] = <<m, x>> /\ t = <<m, y>>
      BY <2>2 DEF RwsHold
    <3> QED BY <3>1, RwsKinds
  <2> QED BY <2>1, <2>2
<1>3. \A k \in {"r", "w"} : /\ HoldNo(h, k) = HoldNo(f, k) /\ PartNo(h, k) = PartNo(f, k)
                            /\ BiasedNo(h, k) = BiasedNo(f, k) /\ WakeNo(h, k) = WakeNo(f, k)
                            /\ h \in [Procs -> RwsStates]
  <2> TAKE k \in {"r", "w"}
  <2>1. /\ h \in [Procs -> RwsStates]
        /\ HoldNo(h, k) = HoldNo(f, k) + One(t \in RwsHold(k)) - One(f[p] \in RwsHold(k))
        /\ PartNo(h, k) = PartNo(f, k) + One(t \in RwsPart(k)) - One(f[p] \in RwsPart(k))
        /\ BiasedNo(h, k) = BiasedNo(f, k) + One(t \in {<<k, "biased">>}) - One(f[p] \in {<<k, "biased">>})
        /\ WakeNo(h, k) = WakeNo(f, k) + One(t \in RwsWake(k)) - One(f[p] \in RwsWake(k))
    BY <1>1, <1>2, RwsStep
  <2>2. HoldNo(f, k) \in Nat /\ PartNo(f, k) \in Nat /\ BiasedNo(f, k) \in Nat /\ WakeNo(f, k) \in Nat
    BY RwsNumbers
  <2> QED BY <1>2, <2>1, <2>2 DEF One
<1> QED BY <1>3 DEF RwsFits, GrantNo

LEMMA RwsTakes ==
  ASSUME NEW f, NEW c, NEW g, RwsFits(f, c, g), NEW p \in Procs, NEW m \in {"r", "w"}, f[p] \in RwsFree,
         NEW d, d = c - Rws!Part(m), NEW x \in {"got", "biased", "undo"},
         x = IF Rws!Taken(m, d) THEN "got" ELSE IF Rws!Borrow(m, c) THEN "biased" ELSE "undo",
         NEW h, RwsGoes(f, h, p, <<m, x>>)
  PROVE  RwsFits(h, d, g)
<1>1. \A k \in {"r", "w"} :
        /\ h \in [Procs -> RwsStates]
        /\ HoldNo(h, k) = HoldNo(f, k) + One(k = m /\ x = "got")
        /\ PartNo(h, k) = PartNo(f, k) + One(k = m)
        /\ BiasedNo(h, k) = BiasedNo(f, k) + One(k = m /\ x = "biased")
        /\ WakeNo(h, k) = WakeNo(f, k)
  <2> TAKE k \in {"r", "w"}
  <2>1. f \in [Procs -> RwsStates] /\ <<m, x>> \in RwsStates
    BY RwsKinds DEF RwsFits
  <2>2. /\ f[p] \notin RwsPart(k) /\ f[p] \notin RwsHold(k) /\ f[p] \notin {<<k, "biased">>} /\ f[p] \notin RwsWake(k)
        /\ <<m, x>> \in RwsPart(k) <=> k = m
        /\ <<m, x>> \in RwsHold(k) <=> k = m /\ x = "got"
        /\ <<m, x>> \in {<<k, "biased">>} <=> k = m /\ x = "biased"
        /\ <<m, x>> \notin RwsWake(k)
    BY RwsKinds
  <2>3. HoldNo(f, k) \in Nat /\ PartNo(f, k) \in Nat /\ BiasedNo(f, k) \in Nat /\ WakeNo(f, k) \in Nat
    BY RwsNumbers
  <2>4. /\ h \in [Procs -> RwsStates]
        /\ HoldNo(h, k) = HoldNo(f, k) + One(<<m, x>> \in RwsHold(k)) - One(f[p] \in RwsHold(k))
        /\ PartNo(h, k) = PartNo(f, k) + One(<<m, x>> \in RwsPart(k)) - One(f[p] \in RwsPart(k))
        /\ BiasedNo(h, k) = BiasedNo(f, k) + One(<<m, x>> \in {<<k, "biased">>}) - One(f[p] \in {<<k, "biased">>})
        /\ WakeNo(h, k) = WakeNo(f, k) + One(<<m, x>> \in RwsWake(k)) - One(f[p] \in RwsWake(k))
    BY <2>1, RwsStep
  <2> QED BY <2>2, <2>3, <2>4 DEF One
<1> DEFINE hr == HoldNo(f, "r")   hw == HoldNo(f, "w")
           pr == PartNo(f, "r")   pw == PartNo(f, "w")
           br == BiasedNo(f, "r")   bw == BiasedNo(f, "w")
           tr == GrantNo(f, g, "r")   tw == GrantNo(f, g, "w")
<1>2. RwsNumbersOK(hr, hw, pr, pw, br, bw, tr, tw) /\ RwsBalance(c, hr, hw, pr, pw, br, bw, tr, tw)
  BY RwsTyped DEF RwsFits
<1>3. GrantNo(h, g, "r") = tr /\ GrantNo(h, g, "w") = tw
  BY <1>1 DEF GrantNo
<1>4. RwBias \in Nat /\ c \in Int
  <2>1. RwBias \in Nat
    BY RwsSizes
  <2>2. c = RwBias - pr - RwBias * pw /\ pr \in Nat /\ pw \in Nat /\ pr < RwBias
    BY <1>2 DEF RwsNumbersOK, RwsBalance
  <2> QED BY <2>1, <2>2, RwsCount
<1>5. SUFFICES RwsBalance(d, HoldNo(h, "r"), HoldNo(h, "w"), PartNo(h, "r"), PartNo(h, "w"),
                          BiasedNo(h, "r"), BiasedNo(h, "w"), tr, tw)
  BY <1>1, <1>3 DEF RwsFits
<1>6. CASE m = "r"
  <2>1. /\ HoldNo(h, "r") = hr + One(x = "got") /\ HoldNo(h, "w") = hw
        /\ PartNo(h, "r") = pr + 1 /\ PartNo(h, "w") = pw
        /\ BiasedNo(h, "r") = br + One(x = "biased") /\ BiasedNo(h, "w") = bw
    BY <1>1, <1>2, <1>6 DEF One, RwsNumbersOK
  <2>2. /\ d = c - 1 /\ (x = "got" <=> c - 1 >= 0) /\ (x = "biased" => c = 0)
        /\ x = "undo" => c < 0
    BY <1>4, <1>6 DEF Rws!Part, Rws!Taken, Rws!Borrow
  <2> HIDE DEF hr, hw, pr, pw, br, bw, tr, tw
  <2>3. hr + 0 = hr /\ br + 0 = br
    BY <1>2 DEF RwsNumbersOK
  <2> QED BY <1>2, <2>1, <2>2, <2>3, RwsTakesRead DEF One
<1>7. CASE m = "w"
  <2>1. /\ HoldNo(h, "w") = hw + One(x = "got") /\ HoldNo(h, "r") = hr
        /\ PartNo(h, "w") = pw + 1 /\ PartNo(h, "r") = pr
        /\ BiasedNo(h, "w") = bw + One(x = "biased") /\ BiasedNo(h, "r") = br
    BY <1>1, <1>2, <1>7 DEF One, RwsNumbersOK
  <2>2. /\ d = c - RwBias /\ (x = "got" => c - RwBias = 0) /\ (x = "biased" => c \in 0 .. RwBias - 1)
        /\ x = "undo" => c < 0 \/ c > RwBias
    BY <1>4, <1>7 DEF Rws!Part, Rws!Taken, Rws!Borrow
  <2> HIDE DEF hr, hw, pr, pw, br, bw, tr, tw
  <2>3. hw + 0 = hw /\ bw + 0 = bw
    BY <1>2 DEF RwsNumbersOK
  <2>4. x = "undo" => c < 0
    <3>1. c <= RwBias
      BY <1>2, RwsTakesWrite
    <3> QED BY <1>4, <2>2, <3>1
  <2> QED BY <1>2, <2>1, <2>2, <2>3, <2>4, RwsTakesWrite DEF One
<1> QED BY <1>6, <1>7

(* Who gives his part back goes on, or wakes first.                        *)
LEMMA RwsGives ==
  ASSUME NEW f, NEW c, NEW g, RwsFits(f, c, g), NEW p \in Procs, NEW m \in {"r", "w"},
         NEW x \in {"out", "undo"}, f[p] = <<m, x>>, NEW next \in {"idle", "wait"},
         NEW d, d = c + Rws!Part(m), NEW t,
         t = IF Rws!MustWake(m, c) THEN <<m, "wake", IF d = 0 THEN "w" ELSE "r", next>> ELSE <<m, next>>,
         NEW h, RwsGoes(f, h, p, t)
  PROVE  RwsFits(h, d, g)
<1> DEFINE to == IF d = 0 THEN "w" ELSE "r"
           wakes == Rws!MustWake(m, c)
<1>0. to \in {"r", "w"} /\ (wakes => t = <<m, "wake", to, next>>) /\ (~wakes => t = <<m, next>>)
  OBVIOUS
<1>1. \A k \in {"r", "w"} :
        /\ h \in [Procs -> RwsStates]
        /\ HoldNo(h, k) = HoldNo(f, k) - One(k = m /\ x = "out")
        /\ PartNo(h, k) = PartNo(f, k) - One(k = m)
        /\ BiasedNo(h, k) = BiasedNo(f, k)
        /\ WakeNo(h, k) = WakeNo(f, k) + One(wakes /\ k = to)
  <2> TAKE k \in {"r", "w"}
  <2> HIDE DEF to, wakes
  <2>1. /\ t \notin RwsPart(k) /\ t \notin RwsHold(k) /\ t \notin {<<k, "biased">>} /\ t \in RwsStates
        /\ t \in RwsWake(k) <=> wakes /\ k = to
    <3>1. CASE wakes
      <4>1. t = <<m, "wake", to, next>>
        BY <1>0, <3>1
      <4> QED BY <1>0, <3>1, <4>1, RwsKinds
    <3>2. CASE ~wakes
      <4>1. t \in RwsFree
        BY <1>0, <3>2 DEF RwsFree
      <4> QED BY <3>2, <4>1, RwsKinds
    <3> QED BY <3>1, <3>2
  <2>2. /\ f[p] \in RwsPart(k) <=> k = m
        /\ f[p] \in RwsHold(k) <=> k = m /\ x = "out"
        /\ f[p] \notin {<<k, "biased">>} /\ f[p] \notin RwsWake(k)
    BY RwsKinds
  <2>3. HoldNo(f, k) \in Nat /\ PartNo(f, k) \in Nat /\ BiasedNo(f, k) \in Nat /\ WakeNo(f, k) \in Nat
    BY RwsNumbers
  <2>4. /\ h \in [Procs -> RwsStates]
        /\ HoldNo(h, k) = HoldNo(f, k) + One(t \in RwsHold(k)) - One(f[p] \in RwsHold(k))
        /\ PartNo(h, k) = PartNo(f, k) + One(t \in RwsPart(k)) - One(f[p] \in RwsPart(k))
        /\ BiasedNo(h, k) = BiasedNo(f, k) + One(t \in {<<k, "biased">>}) - One(f[p] \in {<<k, "biased">>})
        /\ WakeNo(h, k) = WakeNo(f, k) + One(t \in RwsWake(k)) - One(f[p] \in RwsWake(k))
    <3>1. f \in [Procs -> RwsStates]
      BY DEF RwsFits
    <3>2. p \in Procs /\ t \in RwsStates /\ RwsGoes(f, h, p, t) /\ k \in {"r", "w"}
      BY <2>1
    <3> QED BY ONLY <3>1, <3>2, RwsStep
  <2> QED BY <2>1, <2>2, <2>3, <2>4 DEF One
<1> DEFINE hr == HoldNo(f, "r")   hw == HoldNo(f, "w")
           pr == PartNo(f, "r")   pw == PartNo(f, "w")
           br == BiasedNo(f, "r")   bw == BiasedNo(f, "w")
           tr == GrantNo(f, g, "r")   tw == GrantNo(f, g, "w")
           k == One(x = "out")
<1>2. RwsNumbersOK(hr, hw, pr, pw, br, bw, tr, tw) /\ RwsBalance(c, hr, hw, pr, pw, br, bw, tr, tw)
  BY RwsTyped DEF RwsFits
<1>3. GrantNo(h, g, "r") = tr + One(wakes /\ to = "r") /\ GrantNo(h, g, "w") = tw + One(wakes /\ to = "w")
  <2>1. WakeNo(f, "r") \in Nat /\ WakeNo(f, "w") \in Nat
    BY RwsNumbers
  <2>2. WakeNo(h, "r") = WakeNo(f, "r") + One(wakes /\ "r" = to) /\ WakeNo(h, "w") = WakeNo(f, "w") + One(wakes /\ "w" = to)
    BY <1>1
  <2> HIDE DEF to, wakes
  <2> QED BY <2>1, <2>2 DEF GrantNo, One
<1>4. RwBias \in Nat /\ c \in Int
  <2>1. RwBias \in Nat
    BY RwsSizes
  <2>2. c = RwBias - pr - RwBias * pw /\ pr \in Nat /\ pw \in Nat /\ pr < RwBias
    BY <1>2 DEF RwsNumbersOK, RwsBalance
  <2> QED BY <2>1, <2>2, RwsCount
<1>5. /\ k \in {0, 1}
      /\ HoldNo(h, m) \in Nat /\ HoldNo(h, m) + BiasedNo(h, m) <= PartNo(h, m)
  BY RwsNumbers DEF One
<1>6. SUFFICES RwsBalance(d, HoldNo(h, "r"), HoldNo(h, "w"), PartNo(h, "r"), PartNo(h, "w"),
                          BiasedNo(h, "r"), BiasedNo(h, "w"), GrantNo(h, g, "r"), GrantNo(h, g, "w"))
  BY <1>1 DEF RwsFits
<1>7. CASE m = "r"
  <2>1. /\ HoldNo(h, "r") = hr - k /\ HoldNo(h, "w") = hw
        /\ PartNo(h, "r") = pr - 1 /\ PartNo(h, "w") = pw
        /\ BiasedNo(h, "r") = br /\ BiasedNo(h, "w") = bw
    BY <1>1, <1>2, <1>7 DEF One, RwsNumbersOK
  <2>2. d = c + 1 /\ (wakes <=> c = -1) /\ (wakes => to = "w")
    BY <1>4, <1>7 DEF Rws!Part, Rws!MustWake
  <2>3. GrantNo(h, g, "r") = tr /\ GrantNo(h, g, "w") = tw + One(wakes)
    BY <1>2, <1>3, <2>2 DEF One, RwsNumbersOK
  <2>4. k <= hr /\ hr - k + br <= pr - 1
    BY <1>2, <1>5, <1>7, <2>1 DEF RwsNumbersOK
  <2> HIDE DEF hr, hw, pr, pw, br, bw, tr, tw, k, to, wakes
  <2>5. tw + 0 = tw
    BY <1>2 DEF RwsNumbersOK
  <2>6. /\ c # -1 => RwsBalance(c + 1, hr - k, hw, pr - 1, pw, br, bw, tr, tw)
        /\ c = -1 => RwsBalance(c + 1, hr - k, hw, pr - 1, pw, br, bw, tr, tw + 1)
    BY <1>2, <1>5, <2>4, RwsGivesRead
  <2> QED BY <2>1, <2>2, <2>3, <2>5, <2>6 DEF One
<1>8. CASE m = "w"
  <2>1. /\ HoldNo(h, "w") = hw - k /\ HoldNo(h, "r") = hr
        /\ PartNo(h, "w") = pw - 1 /\ PartNo(h, "r") = pr
        /\ BiasedNo(h, "w") = bw /\ BiasedNo(h, "r") = br
    BY <1>1, <1>2, <1>8 DEF One, RwsNumbersOK
  <2>2. d = c + RwBias /\ (wakes <=> c \in -RwBias .. -1)
    BY <1>8 DEF Rws!Part, Rws!MustWake
  <2>3. to = "w" <=> d = 0
    OBVIOUS
  <2>4. k <= hw /\ hw - k + bw <= pw - 1
    BY <1>2, <1>5, <1>8, <2>1 DEF RwsNumbersOK
  <2> HIDE DEF hr, hw, pr, pw, br, bw, tr, tw, k, to, wakes
  <2>5. tw + 0 = tw /\ tr + 0 = tr
    BY <1>2 DEF RwsNumbersOK
  <2>6. /\ c \notin -RwBias .. -1 => RwsBalance(c + RwBias, hr, hw - k, pr, pw - 1, br, bw, tr, tw)
        /\ c \in -RwBias .. -1 /\ c + RwBias = 0 =>
              RwsBalance(c + RwBias, hr, hw - k, pr, pw - 1, br, bw, tr, tw + 1)
        /\ c \in -RwBias .. -1 /\ c + RwBias # 0 =>
              RwsBalance(c + RwBias, hr, hw - k, pr, pw - 1, br, bw, tr + 1, tw)
    BY <1>2, <1>5, <2>4, RwsGivesWrite
  <2>7. CASE ~wakes
    <3>1. GrantNo(h, g, "r") = tr /\ GrantNo(h, g, "w") = tw
      BY <1>3, <2>5, <2>7 DEF One
    <3> QED BY <2>1, <2>2, <2>6, <2>7, <3>1
  <2>8. CASE wakes /\ d = 0
    <3>1. GrantNo(h, g, "r") = tr /\ GrantNo(h, g, "w") = tw + 1
      BY <1>0, <1>3, <2>3, <2>5, <2>8 DEF One
    <3> QED BY <2>1, <2>2, <2>6, <2>8, <3>1
  <2>9. CASE wakes /\ d # 0
    <3>1. GrantNo(h, g, "r") = tr + 1 /\ GrantNo(h, g, "w") = tw
      BY <1>0, <1>3, <2>3, <2>5, <2>9 DEF One
    <3> QED BY <2>1, <2>2, <2>6, <2>9, <3>1
  <2> QED BY <2>7, <2>8, <2>9
<1> QED BY <1>7, <1>8

(* The wake-up is the grant: there was none before.                        *)
LEMMA RwsWakes ==
  ASSUME NEW f, NEW c, NEW g, RwsFits(f, c, g), NEW p \in Procs, NEW n \in {"r", "w"}, NEW m \in {"r", "w"},
         NEW next \in {"idle", "wait"}, f[p] = <<n, "wake", m, next>>, NEW h, RwsGoes(f, h, p, <<n, next>>)
  PROVE  m \notin g /\ RwsFits(h, c, g \union {m})
<1>1. \A k \in {"r", "w"} :
        /\ h \in [Procs -> RwsStates]
        /\ HoldNo(h, k) = HoldNo(f, k) /\ PartNo(h, k) = PartNo(f, k)
        /\ BiasedNo(h, k) = BiasedNo(f, k)
        /\ WakeNo(h, k) = WakeNo(f, k) - One(k = m)
        /\ WakeNo(h, k) \in Nat /\ WakeNo(f, k) \in Nat
  <2> TAKE k \in {"r", "w"}
  <2>1. <<n, next>> \in RwsFree /\ <<n, next>> \in RwsStates
    BY RwsKinds DEF RwsFree
  <2>2. /\ <<n, next>> \notin RwsPart(k) /\ <<n, next>> \notin RwsHold(k)
        /\ <<n, next>> \notin {<<k, "biased">>} /\ <<n, next>> \notin RwsWake(k)
    BY <2>1, RwsKinds
  <2>3. /\ f[p] \notin RwsPart(k) /\ f[p] \notin RwsHold(k) /\ f[p] \notin {<<k, "biased">>}
        /\ f[p] \in RwsWake(k) <=> k = m
    BY RwsKinds
  <2>4. /\ HoldNo(f, k) \in Nat /\ PartNo(f, k) \in Nat /\ BiasedNo(f, k) \in Nat /\ WakeNo(f, k) \in Nat
        /\ WakeNo(h, k) \in Nat
    BY RwsNumbers
  <2>5. /\ h \in [Procs -> RwsStates]
        /\ HoldNo(h, k) = HoldNo(f, k) + One(<<n, next>> \in RwsHold(k)) - One(f[p] \in RwsHold(k))
        /\ PartNo(h, k) = PartNo(f, k) + One(<<n, next>> \in RwsPart(k)) - One(f[p] \in RwsPart(k))
        /\ BiasedNo(h, k) = BiasedNo(f, k) + One(<<n, next>> \in {<<k, "biased">>}) - One(f[p] \in {<<k, "biased">>})
        /\ WakeNo(h, k) = WakeNo(f, k) + One(<<n, next>> \in RwsWake(k)) - One(f[p] \in RwsWake(k))
    <3>1. f \in [Procs -> RwsStates]
      BY DEF RwsFits
    <3> QED BY <2>1, <3>1, RwsStep
  <2> QED BY <2>2, <2>3, <2>4, <2>5 DEF One
<1>2. GrantNo(f, g, "r") + GrantNo(f, g, "w") <= 1 /\ GrantNo(f, g, "r") \in Nat /\ GrantNo(f, g, "w") \in Nat
  BY RwsTyped DEF RwsFits, RwsBalance, RwsNumbersOK
<1>3. GrantNo(f, g, m) <= 1 /\ WakeNo(f, m) >= 1
  BY <1>1, <1>2 DEF One
<1>4. m \notin g
  BY <1>1, <1>3 DEF GrantNo
<1>5. ASSUME NEW k \in {"r", "w"} PROVE GrantNo(h, g \union {m}, k) = GrantNo(f, g, k)
  BY <1>1, <1>4 DEF GrantNo, One
<1> QED BY <1>1, <1>4, <1>5 DEF RwsFits

(* The biased one uses the grant up.                                       *)
LEMMA RwsGranted ==
  ASSUME NEW f, NEW c, NEW g, RwsFits(f, c, g), NEW p \in Procs, NEW m \in {"r", "w"}, m \in g,
         f[p] = <<m, "biased">>, NEW h, RwsGoes(f, h, p, <<m, "got">>)
  PROVE  RwsFits(h, c, g \ {m})
<1>1. \A k \in {"r", "w"} :
        /\ h \in [Procs -> RwsStates]
        /\ HoldNo(h, k) = HoldNo(f, k) + One(k = m) /\ PartNo(h, k) = PartNo(f, k)
        /\ BiasedNo(h, k) = BiasedNo(f, k) - One(k = m)
        /\ WakeNo(h, k) = WakeNo(f, k) /\ WakeNo(f, k) \in Nat
  <2> TAKE k \in {"r", "w"}
  <2>1. /\ <<m, "got">> \in RwsPart(k) <=> k = m
        /\ <<m, "got">> \in RwsHold(k) <=> k = m
        /\ <<m, "got">> \notin {<<k, "biased">>} /\ <<m, "got">> \notin RwsWake(k)
        /\ <<m, "got">> \in RwsStates
    BY RwsKinds
  <2>2. /\ f[p] \in RwsPart(k) <=> k = m
        /\ f[p] \notin RwsHold(k) /\ f[p] \notin RwsWake(k)
        /\ f[p] \in {<<k, "biased">>} <=> k = m
    BY RwsKinds
  <2>3. /\ HoldNo(f, k) \in Nat /\ PartNo(f, k) \in Nat /\ BiasedNo(f, k) \in Nat /\ WakeNo(f, k) \in Nat
    BY RwsNumbers
  <2>4. /\ h \in [Procs -> RwsStates]
        /\ HoldNo(h, k) = HoldNo(f, k) + One(<<m, "got">> \in RwsHold(k)) - One(f[p] \in RwsHold(k))
        /\ PartNo(h, k) = PartNo(f, k) + One(<<m, "got">> \in RwsPart(k)) - One(f[p] \in RwsPart(k))
        /\ BiasedNo(h, k) = BiasedNo(f, k) + One(<<m, "got">> \in {<<k, "biased">>}) - One(f[p] \in {<<k, "biased">>})
        /\ WakeNo(h, k) = WakeNo(f, k) + One(<<m, "got">> \in RwsWake(k)) - One(f[p] \in RwsWake(k))
    <3>1. f \in [Procs -> RwsStates]
      BY DEF RwsFits
    <3> QED BY <2>1, <3>1, RwsStep
  <2> QED BY <2>1, <2>2, <2>3, <2>4 DEF One
<1> DEFINE hr == HoldNo(f, "r")   hw == HoldNo(f, "w")
           pr == PartNo(f, "r")   pw == PartNo(f, "w")
           br == BiasedNo(f, "r")   bw == BiasedNo(f, "w")
           tr == GrantNo(f, g, "r")   tw == GrantNo(f, g, "w")
<1>2. RwsNumbersOK(hr, hw, pr, pw, br, bw, tr, tw) /\ RwsBalance(c, hr, hw, pr, pw, br, bw, tr, tw)
  BY RwsTyped DEF RwsFits
<1>3. \A k \in {"r", "w"} : /\ GrantNo(h, g \ {m}, k) = GrantNo(f, g, k) - One(k = m)
                            /\ k = m => GrantNo(f, g, k) > 0
  BY <1>1 DEF GrantNo, One
<1>4. SUFFICES RwsBalance(c, HoldNo(h, "r"), HoldNo(h, "w"), PartNo(h, "r"), PartNo(h, "w"), BiasedNo(h, "r"),
                          BiasedNo(h, "w"), GrantNo(h, g \ {m}, "r"), GrantNo(h, g \ {m}, "w"))
  BY <1>1 DEF RwsFits
<1>5. CASE m = "r"
  <2>1. /\ HoldNo(h, "r") = hr + 1 /\ HoldNo(h, "w") = hw
        /\ PartNo(h, "r") = pr /\ PartNo(h, "w") = pw
        /\ BiasedNo(h, "r") = br - 1 /\ BiasedNo(h, "w") = bw
        /\ GrantNo(h, g \ {m}, "r") = tr - 1 /\ GrantNo(h, g \ {m}, "w") = tw /\ tr > 0
    BY <1>1, <1>2, <1>3, <1>5 DEF One, RwsNumbersOK
  <2> HIDE DEF hr, hw, pr, pw, br, bw, tr, tw
  <2> QED BY <1>2, <2>1, RwsGetsGrant
<1>6. CASE m = "w"
  <2>1. /\ HoldNo(h, "w") = hw + 1 /\ HoldNo(h, "r") = hr
        /\ PartNo(h, "r") = pr /\ PartNo(h, "w") = pw
        /\ BiasedNo(h, "w") = bw - 1 /\ BiasedNo(h, "r") = br
        /\ GrantNo(h, g \ {m}, "w") = tw - 1 /\ GrantNo(h, g \ {m}, "r") = tr /\ tw > 0
    BY <1>1, <1>2, <1>3, <1>6 DEF One, RwsNumbersOK
  <2> HIDE DEF hr, hw, pr, pw, br, bw, tr, tw
  <2> QED BY <1>2, <2>1, RwsGetsGrant
<1> QED BY <1>5, <1>6

LEMMA RwsInit == Rws!Init => RwsInv
<1> SUFFICES ASSUME Rws!Init PROVE RwsInv
  OBVIOUS
<1>1. xpc = [p \in Procs |-> <<"r", "idle">>] /\ xcount = RwBias /\ xgranted = {} /\ xbug = FALSE /\ xasleep = {}
  BY DEF Rws!Init
<1>2. <<"r", "idle">> \in RwsFree
  BY DEF RwsFree
<1>3. \A k \in {"r", "w"} : /\ HoldNo(xpc, k) = 0 /\ PartNo(xpc, k) = 0 /\ BiasedNo(xpc, k) = 0
                            /\ GrantNo(xpc, xgranted, k) = 0
  <2> TAKE k \in {"r", "w"}
  <2>1. /\ At(xpc, Procs, RwsHold(k)) = {} /\ At(xpc, Procs, RwsPart(k)) = {}
        /\ At(xpc, Procs, {<<k, "biased">>}) = {} /\ At(xpc, Procs, RwsWake(k)) = {}
    BY <1>1, <1>2, RwsKinds DEF At
  <2>2. /\ HoldNo(xpc, k) = 0 /\ PartNo(xpc, k) = 0
        /\ BiasedNo(xpc, k) = 0 /\ WakeNo(xpc, k) = 0
    BY <2>1, FewElements DEF HoldNo, PartNo, BiasedNo, WakeNo
  <2> QED BY <1>1, <2>2 DEF GrantNo
<1>4. xpc \in [Procs -> RwsStates]
  BY <1>1, <1>2, RwsKinds
<1>5. RwBias \in Nat /\ xcount = RwBias - 0 - RwBias * 0 /\ ~(xcount < 0)
  BY <1>1, RwsSizes
<1> QED BY <1>1, <1>3, <1>4, <1>5 DEF RwsInv, RwsFits, RwsBalance

(* A step moves one process at most, and never from a part of a reader to  *)
(* that of a writer or back.                                               *)
RwsMoved ==
  \E p \in Procs, t \in RwsStates :
    /\ RwsGoes(xpc, xpc', p, t)
    /\ ~(xpc[p] \in RwsHold("r") /\ t \in RwsHold("w")) /\ ~(xpc[p] \in RwsHold("w") /\ t \in RwsHold("r"))

LEMMA RwsNext == ASSUME RwsInv, Rws!Next PROVE RwsInv' /\ (xpc' = xpc \/ RwsMoved)
<1>0. RwsFits(xpc, xcount, xgranted) /\ xbug = FALSE /\ xasleep \subseteq Procs
  BY DEF RwsInv
<1>1. ASSUME NEW p \in Procs, NEW m \in {"r", "w"}, NEW from \in RwsFree, Rws!Down(p, m, from)
      PROVE  RwsInv' /\ (xpc' = xpc \/ RwsMoved)
  <2> DEFINE x == IF Rws!Taken(m, xcount') THEN "got" ELSE IF Rws!Borrow(m, xcount) THEN "biased" ELSE "undo"
  <2>1. /\ xpc[p] \in RwsFree /\ xcount' = xcount - Rws!Part(m) /\ RwsGoes(xpc, xpc', p, <<m, x>>)
        /\ UNCHANGED <<xgranted, xasleep, xbug>>
    BY <1>1 DEF Rws!Down, RwsGoes
  <2>2. x \in {"got", "biased", "undo"}
    OBVIOUS
  <2>3. x = IF Rws!Taken(m, xcount') THEN "got" ELSE IF Rws!Borrow(m, xcount) THEN "biased" ELSE "undo"
    OBVIOUS
  <2> HIDE DEF x
  <2>4. RwsFits(xpc', xcount', xgranted)
    BY <1>0, <2>1, <2>2, <2>3, RwsTakes
  <2>5. RwsMoved
    <3>1. <<m, x>> \in RwsStates /\ xpc[p] \notin RwsHold("r") /\ xpc[p] \notin RwsHold("w")
      BY <2>1, <2>2, RwsKinds
    <3> QED BY <2>1, <3>1 DEF RwsMoved
  <2> QED BY <1>0, <2>1, <2>4, <2>5 DEF RwsInv
<1>2. ASSUME NEW p \in Procs, NEW m \in {"r", "w"}, Rws!CountIn(p, m) \/ Rws!CountOut(p, m)
      PROVE  RwsInv' /\ (xpc' = xpc \/ RwsMoved)
  <2>1. PICK y \in {"got", "in"}, z \in {"in", "out"} :
              /\ xpc[p] = <<m, y>> /\ RwsGoes(xpc, xpc', p, <<m, z>>)
              /\ UNCHANGED <<xcount, xgranted, xasleep, xbug>>
    BY <1>2 DEF Rws!CountIn, Rws!CountOut, Rws!Goto, RwsGoes
  <2>2. xpc[p] \in RwsHold(m) /\ <<m, z>> \in RwsHold(m) /\ <<m, z>> \in RwsStates
    BY <2>1, RwsKinds
  <2>3. RwsFits(xpc', xcount, xgranted)
    BY <1>0, <2>1, <2>2, RwsQuiet
  <2>4. RwsMoved
    <3>1. /\ xpc[p] \in RwsHold("r") => m = "r"
          /\ xpc[p] \in RwsHold("w") => m = "w"
          /\ <<m, z>> \in RwsHold("r") => m = "r"
          /\ <<m, z>> \in RwsHold("w") => m = "w"
      BY <2>1, RwsKinds
    <3> QED BY <2>1, <2>2, <3>1 DEF RwsMoved
  <2> QED BY <1>0, <2>1, <2>3, <2>4 DEF RwsInv
<1>3. ASSUME NEW p \in Procs, NEW m \in {"r", "w"}, NEW y \in {"out", "undo"}, NEW next \in {"idle", "wait"},
             Rws!Up(p, m, y, next)
      PROVE  RwsInv' /\ (xpc' = xpc \/ RwsMoved)
  <2> DEFINE t == IF Rws!MustWake(m, xcount) THEN <<m, "wake", IF xcount' = 0 THEN "w" ELSE "r", next>> ELSE <<m, next>>
  <2>1. /\ xpc[p] = <<m, y>> /\ xcount' = xcount + Rws!Part(m) /\ RwsGoes(xpc, xpc', p, t)
        /\ UNCHANGED <<xgranted, xasleep, xbug>>
    BY <1>3 DEF Rws!Up, RwsGoes
  <2>2. RwsFits(xpc', xcount', xgranted)
    BY <1>0, <2>1, RwsGives
  <2>3. t \in RwsStates /\ t \notin RwsHold("r") /\ t \notin RwsHold("w")
    <3>1. CASE Rws!MustWake(m, xcount)
      <4>1. PICK to \in {"r", "w"} : t = <<m, "wake", to, next>>
        BY <3>1
      <4> HIDE DEF t
      <4> QED BY <4>1, RwsKinds
    <3>2. CASE ~Rws!MustWake(m, xcount)
      <4>1. t \in RwsFree
        BY <3>2 DEF RwsFree
      <4> HIDE DEF t
      <4> QED BY <4>1, RwsKinds
    <3> QED BY <3>1, <3>2
  <2> HIDE DEF t
  <2>4. RwsMoved
    BY <2>1, <2>3 DEF RwsMoved
  <2> QED BY <1>0, <2>1, <2>2, <2>4 DEF RwsInv
<1>4. ASSUME Rws!WakeAll PROVE xasleep' \subseteq Procs
  BY <1>0, <1>4 DEF Rws!WakeAll
<1>5. ASSUME NEW p \in Procs, NEW n \in {"r", "w"}, NEW m \in {"r", "w"}, NEW next \in {"idle", "wait"},
             Rws!RwsemWake(p, n, m, next)
      PROVE  RwsInv' /\ (xpc' = xpc \/ RwsMoved)
  <2>1. /\ xpc[p] = <<n, "wake", m, next>> /\ RwsGoes(xpc, xpc', p, <<n, next>>)
        /\ xbug' = (xbug \/ m \in xgranted) /\ xgranted' = xgranted \union {m} /\ xcount' = xcount
    BY <1>5 DEF Rws!RwsemWake, RwsGoes
  <2>2. m \notin xgranted /\ RwsFits(xpc', xcount, xgranted \union {m})
    BY <1>0, <2>1, RwsWakes
  <2>3. xasleep' \subseteq Procs
    BY <1>0, <1>4, <1>5 DEF Rws!RwsemWake
  <2>4. xbug' = FALSE
    BY <1>0, <2>1, <2>2
  <2>5. RwsMoved
    <3>1. <<n, next>> \in RwsFree
      BY DEF RwsFree
    <3>2. <<n, next>> \in RwsStates /\ <<n, next>> \notin RwsHold("r") /\ <<n, next>> \notin RwsHold("w")
      BY <3>1, RwsKinds
    <3> QED BY <2>1, <3>2 DEF RwsMoved
  <2>6. RwsFits(xpc', xcount', xgranted')
    BY <2>1, <2>2
  <2> QED BY <2>3, <2>4, <2>5, <2>6 DEF RwsInv
<1>6. ASSUME NEW p \in Procs, NEW m \in {"r", "w"}, Rws!Biased(p, m)
      PROVE  RwsInv' /\ (xpc' = xpc \/ RwsMoved)
  <2>1. xcount' = xcount /\ xbug' = xbug
    BY <1>6 DEF Rws!Biased
  <2>2. CASE m \in xgranted
    <3>1. xpc[p] = <<m, "biased">> /\ RwsGoes(xpc, xpc', p, <<m, "got">>) /\ xgranted' = xgranted \ {m}
      BY <1>6, <2>2 DEF Rws!Biased, Rws!Goto, RwsGoes
    <3>2. RwsFits(xpc', xcount, xgranted \ {m})
      BY <1>0, <2>2, <3>1, RwsGranted
    <3>3. xasleep' \subseteq Procs
      BY <1>0, <1>4, <1>6, <2>2 DEF Rws!Biased
    <3>4. RwsMoved
      <4>1. <<m, "got">> \in RwsStates /\ xpc[p] \notin RwsHold("r") /\ xpc[p] \notin RwsHold("w")
        BY <3>1, RwsKinds
      <4> QED BY <3>1, <4>1 DEF RwsMoved
    <3>5. RwsFits(xpc', xcount', xgranted')
      BY <2>1, <3>1, <3>2
    <3> QED BY <1>0, <2>1, <3>3, <3>4, <3>5 DEF RwsInv
  <2>3. CASE m \notin xgranted
    <3>1. xpc' = xpc /\ xgranted' = xgranted /\ xasleep' = xasleep \union {p}
      BY <1>6, <2>3 DEF Rws!Biased
    <3> QED BY <1>0, <2>1, <3>1 DEF RwsInv
  <2> QED BY <2>2, <2>3
<1>7. ASSUME NEW p \in Procs, NEW m \in {"r", "w"}, Rws!Wait(p, m)
      PROVE  RwsInv' /\ (xpc' = xpc \/ RwsMoved)
  <2>1. xcount' = xcount /\ xgranted' = xgranted /\ xbug' = xbug
    BY <1>7 DEF Rws!Wait
  <2>2. CASE xcount < 0
    <3>1. xpc' = xpc /\ xasleep' = xasleep \union {p}
      BY <1>7, <2>2 DEF Rws!Wait
    <3> QED BY <1>0, <2>1, <3>1 DEF RwsInv
  <2>3. CASE ~(xcount < 0)
    <3>1. xpc[p] = <<m, "wait">> /\ RwsGoes(xpc, xpc', p, <<m, "retry">>) /\ xasleep' = xasleep
      BY <1>7, <2>3 DEF Rws!Wait, Rws!Goto, RwsGoes
    <3>2. xpc[p] \in RwsFree /\ <<m, "retry">> \in RwsFree
      BY <3>1 DEF RwsFree
    <3>3. RwsFits(xpc', xcount, xgranted)
      BY <1>0, <3>1, <3>2, RwsQuiet
    <3>4. RwsMoved
      <4>1. <<m, "retry">> \in RwsStates /\ xpc[p] \notin RwsHold("r") /\ xpc[p] \notin RwsHold("w")
        BY <3>2, RwsKinds
      <4> QED BY <3>1, <4>1 DEF RwsMoved
    <3>5. RwsFits(xpc', xcount', xgranted')
      BY <2>1, <3>3
    <3> QED BY <1>0, <2>1, <3>1, <3>4, <3>5 DEF RwsInv
  <2> QED BY <2>2, <2>3
<1>8. PICK p \in Procs : Rws!Go(p) \/ Rws!Begin(p)
  BY DEF Rws!Next
<1>9. CASE Rws!Go(p)
  <2>1. PICK m \in {"r", "w"} :
         \/ Rws!CountIn(p, m) \/ Rws!CountOut(p, m) \/ Rws!Biased(p, m) \/ Rws!Wait(p, m)
         \/ Rws!Down(p, m, <<m, "retry">>)
         \/ Rws!Up(p, m, "out", "idle") \/ Rws!Up(p, m, "undo", "wait")
         \/ \E to \in {"r", "w"}, next \in {"idle", "wait"} : Rws!RwsemWake(p, m, to, next)
    BY <1>9 DEF Rws!Go
  <2>2. <<m, "retry">> \in RwsFree
    BY DEF RwsFree
  <2> QED BY <1>1, <1>2, <1>3, <1>5, <1>6, <1>7, <2>1, <2>2
<1>10. CASE Rws!Begin(p)
  <2>1. PICK m \in {"r", "w"}, from \in Rws!Idle : Rws!Down(p, m, from)
    BY <1>10 DEF Rws!Begin
  <2>2. from \in RwsFree
    BY DEF Rws!Idle, RwsFree
  <2> QED BY <1>1, <2>1, <2>2
<1> QED BY <1>8, <1>9, <1>10

LEMMA RwsKept == RwsInv => Rws!TypeOK /\ Rws!Restored /\ Rws!NoBug
<1> SUFFICES ASSUME RwsInv PROVE Rws!TypeOK /\ Rws!Restored /\ Rws!NoBug
  OBVIOUS
<1>0. RwsFits(xpc, xcount, xgranted) /\ xbug = FALSE /\ xasleep \subseteq Procs
  BY DEF RwsInv
<1> DEFINE hr == HoldNo(xpc, "r")   hw == HoldNo(xpc, "w")
           pr == PartNo(xpc, "r")   pw == PartNo(xpc, "w")
           br == BiasedNo(xpc, "r")   bw == BiasedNo(xpc, "w")
           tr == GrantNo(xpc, xgranted, "r")   tw == GrantNo(xpc, xgranted, "w")
<1>1. RwsNumbersOK(hr, hw, pr, pw, br, bw, tr, tw) /\ RwsBalance(xcount, hr, hw, pr, pw, br, bw, tr, tw)
  BY <1>0, RwsTyped DEF RwsFits
<1>2. /\ pr \in Nat /\ pw \in Nat /\ pr <= Cardinality(Procs) /\ pw <= Cardinality(Procs)
      /\ Cardinality(Procs) \in Nat /\ RwBias \in Nat /\ Cardinality(Procs) < RwBias
  BY RwsNumbers, RwsSizes
<1>3. xpc \in [Procs -> RwsStates]
  BY <1>0 DEF RwsFits
<1>4. Rws!TypeOK
  <2> DEFINE n == Cardinality(Procs)
  <2>1. xcount \in -RwBias * n .. RwBias
    <3>1. RwBias * pw \in Nat /\ RwBias * n \in Nat /\ RwBias * pw <= RwBias * n
      BY <1>2, Product
    <3>2. xcount = RwBias - pr - RwBias * pw
      BY <1>1 DEF RwsBalance
    <3>3. -RwBias * n = -(RwBias * n)
      BY <1>2
    <3>4. -(RwBias * n) <= xcount /\ xcount <= RwBias /\ xcount \in Int
      <4> DEFINE e == RwBias * pw
                 l == RwBias * n
      <4>1. e \in Nat /\ l \in Nat /\ e <= l /\ xcount = RwBias - pr - e
        BY <3>1, <3>2
      <4> HIDE DEF e, l, pr, pw
      <4>2. -l <= xcount /\ xcount <= RwBias /\ xcount \in Int
        BY <1>2, <4>1
      <4> QED BY <4>2 DEF l
    <3> HIDE DEF n, pr, pw
    <3>5. -RwBias * n \in Int /\ -RwBias * n <= xcount
      BY <1>2, <3>1, <3>3, <3>4
    <3> QED BY <1>2, <3>4, <3>5
  <2>2. \A s \in RwsStates :
          s \in Rws!Idle \union (Rws!Modes \X {"biased", "undo", "wait", "retry", "got", "in", "out"})
                         \union (Rws!Modes \X {"wake"} \X Rws!Modes \X {"idle", "wait"})
    <3> TAKE s \in RwsStates
    <3>1. CASE s \in RwsFree
      BY <3>1 DEF RwsFree, Rws!Idle, Rws!Modes
    <3>2. ASSUME NEW m \in {"r", "w"}, s \in RwsPart(m)
          PROVE  s \in Rws!Modes \X {"biased", "undo", "wait", "retry", "got", "in", "out"}
      BY <3>2 DEF RwsPart, RwsHold, Rws!Modes
    <3>3. ASSUME NEW m \in {"r", "w"}, s \in RwsWake(m)
          PROVE  s \in Rws!Modes \X {"wake"} \X Rws!Modes \X {"idle", "wait"}
      BY <3>3 DEF RwsWake, Rws!Modes
    <3> QED BY <3>1, <3>2, <3>3 DEF RwsStates
  <2>3. xgranted \subseteq Rws!Modes
    BY <1>0 DEF RwsFits, Rws!Modes
  <2> QED BY <1>0, <1>3, <2>1, <2>2, <2>3, RwsSets DEF Rws!TypeOK
<1>5. Rws!Restored
  <2> SUFFICES ASSUME \A p \in Procs : xpc[p] \in Rws!Idle PROVE xcount = RwBias /\ xgranted = {}
    BY DEF Rws!Restored
  <2>1. \A p \in Procs : xpc[p] \in RwsFree
    BY DEF Rws!Idle, RwsFree
  <2>2. \A k \in {"r", "w"} : PartNo(xpc, k) = 0 /\ BiasedNo(xpc, k) = 0
    <3> TAKE k \in {"r", "w"}
    <3>1. At(xpc, Procs, RwsPart(k)) = {} /\ At(xpc, Procs, {<<k, "biased">>}) = {}
      BY <2>1, RwsKinds DEF At
    <3> QED BY <3>1, FewElements DEF PartNo, BiasedNo
  <2>3. pr = 0 /\ pw = 0 /\ br = 0 /\ bw = 0
    BY <2>2
  <2>4. xcount = RwBias
    BY <1>1, <1>2, <2>3 DEF RwsBalance
  <2>5. tr = 0 /\ tw = 0
    <3> HIDE DEF hr, hw, pr, pw, br, bw, tr, tw
    <3> QED BY <1>1, <2>3 DEF RwsBalance, RwsNumbersOK
  <2>6. \A m \in {"r", "w"} : m \notin xgranted
    BY <2>5, RwsNumbers DEF GrantNo
  <2> QED BY <1>0, <2>4, <2>6 DEF RwsFits
<1>6. Rws!NoBug
  <2>1. \A m \in {"r", "w"}, x \in {"got", "in"} : Rws!Doing(m, x) \subseteq At(xpc, Procs, RwsHold(m))
    BY DEF Rws!Doing, At, RwsHold
  <2>2. /\ At(xpc, Procs, RwsHold("r")) # {} => hr > 0
        /\ At(xpc, Procs, RwsHold("w")) # {} => hw > 0
    BY RwsSizes, Somewhere DEF HoldNo
  <2>3. \A m \in {"r", "w"} : m \in xgranted => GrantNo(xpc, xgranted, m) > 0
    BY RwsNumbers DEF GrantNo
  <2>4. /\ hr > 0 => hw = 0 /\ tw = 0
        /\ hw > 0 => hr = 0 /\ tr = 0 /\ tw = 0 /\ hw = 1
    <3> HIDE DEF hr, hw, pr, pw, br, bw, tr, tw
    <3> QED BY <1>1 DEF RwsBalance, RwsNumbersOK
  <2>5. Rws!Doing("r", "got") \union Rws!Doing("r", "in") # {} => "w" \notin xgranted /\ Rws!Doing("w", "in") = {}
    BY <2>1, <2>2, <2>3, <2>4
  <2>6. Rws!Doing("w", "got") \union Rws!Doing("w", "in") # {} => xgranted = {} /\ Rws!Doing("r", "in") = {}
    <3>1. xgranted \subseteq {"r", "w"}
      BY <1>0 DEF RwsFits
    <3> QED BY <2>1, <2>2, <2>3, <2>4, <3>1
  <2>7. Cardinality(Rws!Doing("w", "in")) <= 1
    <3>1. Rws!Doing("w", "in") \in SUBSET At(xpc, Procs, RwsHold("w")) /\ IsFiniteSet(At(xpc, Procs, RwsHold("w")))
      BY <2>1, RwsSizes, Somewhere
    <3>2. Cardinality(Rws!Doing("w", "in")) <= hw /\ Cardinality(Rws!Doing("w", "in")) \in Nat
      BY <3>1, Smaller DEF HoldNo
    <3>3. hw <= 1 /\ hw \in Nat
      <4> HIDE DEF hr, hw, pr, pw, br, bw, tr, tw
      <4> QED BY <1>1 DEF RwsBalance, RwsNumbersOK
    <3> QED BY <3>2, <3>3
  <2> QED BY <1>0, <2>5, <2>6, <2>7, RwsSets DEF Rws!NoBug
<1> QED BY <1>4, <1>5, <1>6

(* Who is in excludes whom it must.                                        *)
LEMMA RwsAlone ==
  ASSUME NEW f, NEW c, NEW g, RwsFits(f, c, g)
  PROVE  /\ At(f, Procs, RwsHold("w")) # {} => At(f, Procs, RwsHold("r")) = {}
         /\ \A p, q \in At(f, Procs, RwsHold("w")) : p = q
<1> DEFINE r == At(f, Procs, RwsHold("r"))
           w == At(f, Procs, RwsHold("w"))
<1>1. /\ HoldNo(f, "w") <= 1 /\ HoldNo(f, "w") \in Nat /\ HoldNo(f, "r") \in Nat
      /\ HoldNo(f, "w") = 1 => HoldNo(f, "r") = 0
  BY RwsTyped DEF RwsFits, RwsBalance, RwsNumbersOK
<1>2. IsFiniteSet(w) /\ (HoldNo(f, "w") = 0 <=> w = {}) /\ (HoldNo(f, "r") = 0 <=> r = {})
  BY RwsSizes, Somewhere DEF HoldNo
<1>3. Cardinality(w) <= 1
  BY <1>1 DEF HoldNo
<1> HIDE DEF r, w
<1>4. \A p, q \in w : p = q
  BY <1>2, <1>3, FewElements
<1> QED BY <1>1, <1>2, <1>4 DEF r, w

LEMMA RwsExcludes ==
  ASSUME RwsInv, Rws!Next
  PROVE  Rws!ImplementsExclusion!Next
         \/ (Rws!Inside("r")' = Rws!Inside("r") /\ Rws!Inside("w")' = Rws!Inside("w"))
<1> DEFINE r == At(xpc, Procs, RwsHold("r"))
           w == At(xpc, Procs, RwsHold("w"))
           rr == At(xpc', Procs, RwsHold("r"))
           ww == At(xpc', Procs, RwsHold("w"))
<1>1. /\ Rws!Inside("r") = r /\ Rws!Inside("w") = w
      /\ Rws!Inside("r")' = rr /\ Rws!Inside("w")' = ww
  BY DEF Rws!Inside, Rws!Doing, RwsHold, At
<1>2. RwsFits(xpc, xcount, xgranted) /\ RwsFits(xpc', xcount', xgranted')
  BY RwsNext DEF RwsInv
<1>3. xpc' = xpc \/ RwsMoved
  BY RwsNext
<1>4. CASE xpc' = xpc
  BY <1>1, <1>4
<1>5. CASE RwsMoved
  <2>1. PICK p \in Procs, t \in RwsStates :
          /\ RwsGoes(xpc, xpc', p, t)
          /\ ~(xpc[p] \in RwsHold("r") /\ t \in RwsHold("w")) /\ ~(xpc[p] \in RwsHold("w") /\ t \in RwsHold("r"))
    BY <1>5 DEF RwsMoved
  <2>2. \A S : At(xpc', Procs, S) = IF t \in S THEN At(xpc, Procs, S) \union {p} ELSE At(xpc, Procs, S) \ {p}
    BY <1>2, <2>1 DEF At, RwsGoes, RwsFits
  <2>3. /\ rr = IF t \in RwsHold("r") THEN r \union {p} ELSE r \ {p}
        /\ ww = IF t \in RwsHold("w") THEN w \union {p} ELSE w \ {p}
    BY <2>2
  <2>4. /\ p \in r <=> xpc[p] \in RwsHold("r")
        /\ p \in w <=> xpc[p] \in RwsHold("w")
    BY DEF At
  <2>5. /\ w # {} => r = {}
        /\ ww # {} => rr = {}
        /\ \A q, s \in w : q = s
        /\ \A q, s \in ww : q = s
    BY <1>2, RwsAlone
  <2> HIDE DEF r, w, rr, ww
  <2>6. CASE p \in r /\ p \notin rr
    <3>1. rr = r \ {p} /\ ww = w
      BY <2>1, <2>3, <2>4, <2>5, <2>6
    <3> QED BY <1>1, <2>6, <3>1 DEF Rws!ImplementsExclusion!Next, Rws!ImplementsExclusion!EndRead
  <2>7. CASE p \in w /\ p \notin ww
    <3>1. ww = w \ {p} /\ rr = r
      BY <2>1, <2>3, <2>4, <2>5, <2>7
    <3> QED BY <1>1, <2>7, <3>1 DEF Rws!ImplementsExclusion!Next, Rws!ImplementsExclusion!EndWrite
  <2>8. CASE p \notin r /\ p \in rr
    <3>1. rr = r \union {p} /\ p \in rr \ r /\ ww = {}
      BY <2>3, <2>5, <2>8
    <3>2. w = {} /\ ww = {}
      BY <2>1, <2>3, <2>4, <2>8, <3>1
    <3> QED BY <1>1, <3>1, <3>2 DEF Rws!ImplementsExclusion!Next, Rws!ImplementsExclusion!BeginRead
  <2>9. CASE p \notin w /\ p \in ww
    <3>1. ww = {p} /\ w = {} /\ rr = {}
      BY <2>3, <2>5, <2>9
    <3>2. r = {}
      BY <2>1, <2>3, <2>4, <2>9, <3>1
    <3> QED BY <1>1, <3>1, <3>2 DEF Rws!ImplementsExclusion!Next, Rws!ImplementsExclusion!BeginWrite
  <2>10. CASE (p \in r <=> p \in rr) /\ (p \in w <=> p \in ww)
    <3>1. rr = r /\ ww = w
      BY <2>3, <2>10
    <3> QED BY <1>1, <3>1
  <2> QED BY <2>6, <2>7, <2>8, <2>9, <2>10
<1> QED BY <1>3, <1>4, <1>5

-----------------------------------------------------------------------------
(* All parts.  A step of the whole is a step of one of them.               *)
SyncInv == SpinInv /\ RwInv /\ SemInv /\ RwsInv /\ WaitInv /\ PageInv /\ TaskInv /\ BigInv

LEMMA OneSteps ==
  ASSUME [Next]_vars
  PROVE  /\ [Spin!Next]_spinvars /\ [Rw!Next]_rwvars /\ [Sem!Next]_semvars /\ [Rws!Next]_rwsemvars
         /\ [Wait!Next]_waitvars /\ [Page!Next]_pagevars /\ [Task!Next]_taskletvars /\ [Big!Next]_bigvars
<1> USE DEF In, Unless
<1>1. CASE In("spin", Spin!Next)
  BY <1>1
<1>2. CASE In("rw", Rw!Next)
  BY <1>2
<1>3. CASE In("sem", Sem!Next)
  BY <1>3
<1>4. CASE In("rwsem", Rws!Next)
  BY <1>4
<1>5. CASE In("wait", Wait!Next)
  BY <1>5
<1>6. CASE In("page", Page!Next)
  BY <1>6
<1>7. CASE In("tasklet", Task!Next)
  BY <1>7
<1>8. CASE In("big", Big!Next)
  BY <1>8
<1>9. CASE UNCHANGED vars
  BY <1>9 DEF vars
<1> QED BY <1>1, <1>2, <1>3, <1>4, <1>5, <1>6, <1>7, <1>8, <1>9 DEF Next

(* Each part keeps its invariant, whether it is its turn or not.           *)
LEMMA SpinKeeps == ASSUME SpinInv, [Spin!Next]_spinvars PROVE SpinInv'
<1>1. CASE UNCHANGED spinvars
  BY <1>1 DEF spinvars, SpinInv, SpinTaken, SpinHolders, Spin!TypeOK
<1> QED BY <1>1, SpinNext

LEMMA RwKeeps == ASSUME RwInv, [Rw!Next]_rwvars PROVE RwInv'
<1>1. CASE UNCHANGED rwvars
  BY <1>1 DEF rwvars, RwInv, RwIn, RwReads, RwWrites
<1> QED BY <1>1, RwNext

LEMMA SemKeeps == ASSUME SemInv, [Sem!Next]_semvars PROVE SemInv'
<1>1. CASE UNCHANGED semvars
  BY <1>1 DEF semvars, SemInv, SemIn, SemHeld, SemTries
<1> QED BY <1>1, SemNext

LEMMA RwsKeeps == ASSUME RwsInv, [Rws!Next]_rwsemvars PROVE RwsInv'
<1>1. CASE UNCHANGED rwsemvars
  BY <1>1 DEF rwsemvars, RwsInv
<1> QED BY <1>1, RwsNext

LEMMA WaitKeeps == ASSUME WaitInv, [Wait!Next]_waitvars PROVE WaitInv'
<1>1. CASE UNCHANGED waitvars
  BY <1>1 DEF waitvars, WaitInv, Wait!Asleep
<1> QED BY <1>1, WaitNext

LEMMA PageKeeps == ASSUME PageInv, [Page!Next]_pagevars PROVE PageInv'
<1>1. CASE UNCHANGED pagevars
  BY <1>1 DEF pagevars, PageInv, PageUsers, PageOwners
<1> QED BY <1>1, PageNext

LEMMA TaskKeeps == ASSUME TaskInv, [Task!Next]_taskletvars PROVE TaskInv'
<1>1. CASE UNCHANGED taskletvars
  BY <1>1 DEF taskletvars, TaskInv, TaskRuns, TaskUnderWay, TaskListed, TaskDisabled
<1> QED BY <1>1, TaskNext

LEMMA BigKeeps == ASSUME BigInv, [Big!Next]_bigvars PROVE BigInv'
<1>1. CASE UNCHANGED bigvars
  BY <1>1 DEF bigvars, BigInv, BigIn, Big!Depth
<1> QED BY <1>1, BigNext

LEMMA SyncInit == Init => SyncInv
BY SpinInit, RwInit, SemInit, RwsInit, WaitInit, PageInit, TaskInit, BigInit DEF Init, SyncInv

LEMMA SyncKeeps == SyncInv /\ [Next]_vars => SyncInv'
BY OneSteps, SpinKeeps, RwKeeps, SemKeeps, RwsKeeps, WaitKeeps, PageKeeps, TaskKeeps, BigKeeps DEF SyncInv

(* The conjunction of the eight invariants is inductive: no step of any    *)
(* actor of any of the locks leads out of it.                              *)
THEOREM Invariance == Spec => []SyncInv
<1>1. Init => SyncInv
  BY SyncInit
<1>2. SyncInv /\ [Next]_vars => SyncInv'
  BY SyncKeeps
<1> QED BY <1>1, <1>2, PTL DEF Spec

(* Every counter of the locks stays in its range and every actor and flag  *)
(* is in one of its states (spinlock.h, rwlock.h, semaphore.h, wait.h,     *)
(* mm.h, interrupt.h, smplock.h): the byte of the spin lock does not wrap  *)
(* while there are fewer processors than it has values.                    *)
THEOREM TypesKept == Spec => []TypeOK
<1>1. SyncInv => TypeOK
  BY SpinKept, RwKept, SemKept, RwsKept, WaitKept, PageKept, TaskKept, BigKept DEF SyncInv, TypeOK
<1> QED BY <1>1, Invariance, PTL

(* Counters and flags say who is in and who is under way, and are what     *)
(* they were when nobody is; no check in the semaphore of readers and      *)
(* writers fails (semaphore.h:275-282, 293-303, 346-369).                  *)
THEOREM CountsKept == Spec => []CountKept
<1>1. SyncInv => CountKept
  BY SpinKept, RwKept, SemKept, RwsKept, PageKept, TaskKept, BigKept DEF SyncInv, CountKept
<1> QED BY <1>1, Invariance, PTL

(* Nobody sleeps on a semaphore, a wait queue or a page with nobody left   *)
(* to wake him, and no interrupt handler waits for the task under it.      *)
THEOREM WakeupsKept == Spec => []NoLostWakeup
<1>1. SyncInv => NoLostWakeup
  BY RwKept, SemKept, WaitKept, PageKept DEF SyncInv, NoLostWakeup
<1> QED BY <1>1, Invariance, PTL

-----------------------------------------------------------------------------
(* Each lock, step by step, is the abstract lock of module Exclusion.      *)
LEMMA SpinImplements == Spec => Spin!Excludes
<1>1. Init => Spin!ImplementsExclusion!Init
  BY DEF Init, Spin!Init, Spin!ImplementsExclusion!Init
<1>2. SyncInv /\ [Next]_vars
        => [Spin!ImplementsExclusion!Next]_<<{}, {c \in SpinCpus : spc[c] = "held"}>>
  <2> SUFFICES ASSUME SpinInv, [Spin!Next]_spinvars
               PROVE  Spin!ImplementsExclusion!Next \/ SpinHolders' = SpinHolders
    BY OneSteps DEF SyncInv, SpinHolders
  <2>1. CASE UNCHANGED spinvars
    BY <2>1 DEF spinvars, SpinHolders
  <2> QED BY <2>1, SpinExcludes
<1> QED BY <1>1, <1>2, Invariance, PTL DEF Spec, Spin!Excludes, Spin!ImplementsExclusion!Spec

LEMMA RwImplements == Spec => Rw!Excludes
<1>1. Init => Rw!ImplementsExclusion!Init
  BY DEF Init, Rw!Init, Rw!ImplementsExclusion!Init, Rw!Having
<1>2. SyncInv /\ [Next]_vars
        => [Rw!ImplementsExclusion!Next]_<<Rw!Having({"reading"}), Rw!Having({"writing"})>>
  <2> SUFFICES ASSUME RwInv, [Rw!Next]_rwvars
               PROVE  Rw!ImplementsExclusion!Next
                      \/ (Rw!Having({"reading"})' = Rw!Having({"reading"}) /\ Rw!Having({"writing"})' = Rw!Having({"writing"}))
    BY OneSteps DEF SyncInv
  <2>1. CASE UNCHANGED rwvars
    BY <2>1 DEF rwvars, Rw!Having
  <2> QED BY <2>1, RwExcludes
<1> QED BY <1>1, <1>2, Invariance, PTL DEF Spec, Rw!Excludes, Rw!ImplementsExclusion!Spec

LEMMA RwsImplements == Spec => Rws!Excludes
<1>1. Init => Rws!ImplementsExclusion!Init
  BY DEF Init, Rws!Init, Rws!ImplementsExclusion!Init, Rws!Inside, Rws!Doing
<1>2. SyncInv /\ [Next]_vars => [Rws!ImplementsExclusion!Next]_<<Rws!Inside("r"), Rws!Inside("w")>>
  <2> SUFFICES ASSUME RwsInv, [Rws!Next]_rwsemvars
               PROVE  Rws!ImplementsExclusion!Next
                      \/ (Rws!Inside("r")' = Rws!Inside("r") /\ Rws!Inside("w")' = Rws!Inside("w"))
    BY OneSteps DEF SyncInv
  <2>1. CASE UNCHANGED rwsemvars
    BY <2>1 DEF rwsemvars, Rws!Inside, Rws!Doing
  <2> QED BY <2>1, RwsExcludes
<1> QED BY <1>1, <1>2, Invariance, PTL DEF Spec, Rws!Excludes, Rws!ImplementsExclusion!Spec

LEMMA PageImplements == Spec => Page!Excludes
<1>1. Init => Page!ImplementsExclusion!Init
  BY DEF Init, Page!Init, Page!ImplementsExclusion!Init
<1>2. SyncInv /\ [Next]_vars
        => [Page!ImplementsExclusion!Next]_<<{}, {p \in Procs : ppc[p] \in {"locked", "done"}}>>
  <2> SUFFICES ASSUME PageInv, [Page!Next]_pagevars
               PROVE  Page!ImplementsExclusion!Next \/ PageOwners' = PageOwners
    BY OneSteps DEF SyncInv, PageOwners
  <2>1. CASE UNCHANGED pagevars
    BY <2>1 DEF pagevars, PageOwners
  <2> QED BY <2>1, PageExcludes
<1> QED BY <1>1, <1>2, Invariance, PTL DEF Spec, Page!Excludes, Page!ImplementsExclusion!Spec

LEMMA TaskImplements == Spec => Task!Excludes
<1>1. Init => Task!ImplementsExclusion!Init
  BY DEF Init, Task!Init, Task!ImplementsExclusion!Init
<1>2. SyncInv /\ [Next]_vars
        => [Task!ImplementsExclusion!Next]_<<{}, {c \in Cpus : kpc[c] = "running"}>>
  <2> SUFFICES ASSUME TaskInv, [Task!Next]_taskletvars
               PROVE  Task!ImplementsExclusion!Next \/ TaskRuns' = TaskRuns
    BY OneSteps DEF SyncInv, TaskRuns
  <2>1. CASE UNCHANGED taskletvars
    BY <2>1 DEF taskletvars, TaskRuns
  <2> QED BY <2>1, TaskExcludes
<1> QED BY <1>1, <1>2, Invariance, PTL DEF Spec, Task!Excludes, Task!ImplementsExclusion!Spec

LEMMA BigImplements == Spec => Big!Excludes
<1>1. Init => Big!ImplementsExclusion!Init
  <2> SUFFICES ASSUME Big!Init PROVE Big!ImplementsExclusion!Init
    BY DEF Init
  <2>1. \A c \in Cpus : Big!Depth(c) = -1
    BY DEF Big!Init, Big!Depth
  <2>2. Big!Holders = {}
    BY <2>1 DEF Big!Holders
  <2> QED BY <2>2 DEF Big!ImplementsExclusion!Init
<1>2. SyncInv /\ [Next]_vars => [Big!ImplementsExclusion!Next]_<<{}, Big!Holders>>
  <2> SUFFICES ASSUME BigInv, [Big!Next]_bigvars
               PROVE  Big!ImplementsExclusion!Next \/ Big!Holders' = Big!Holders
    BY OneSteps DEF SyncInv
  <2>1. CASE UNCHANGED bigvars
    BY <2>1 DEF bigvars, Big!Holders, Big!Depth
  <2> QED BY <2>1, BigExcludes
<1> QED BY <1>1, <1>2, Invariance, PTL DEF Spec, Big!Excludes, Big!ImplementsExclusion!Spec

(* Every lock excludes whom it promises to exclude: each of them refines   *)
(* the abstract lock, and no more get the semaphore than it counts         *)
(* (spinlock.h, rwlock.h, semaphore.h, mm.h, interrupt.h, smplock.h).      *)
THEOREM LocksExclude == Spec => Excludes
<1>1. SyncInv => Sem!Excludes
  BY SemKept DEF SyncInv
<1> QED
  BY <1>1, Invariance, SpinImplements, RwImplements, RwsImplements, PageImplements, TaskImplements, BigImplements,
     PTL DEF Excludes
=============================================================================
