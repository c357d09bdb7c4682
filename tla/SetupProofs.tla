---------------------------- MODULE SetupProofs ----------------------------
(* Proofs about Setup, for every layout, every machine and any number of   *)
(* polls.                                                                  *)
EXTENDS Setup, TLAPS

Distance == SysStart - Chunk

(* What has been moved, and where the move stands.                         *)
Moved == mem = [u \in Units |-> IF u >= Chunk /\ u < es THEN u + Distance ELSE u]
Where ==
  /\ pc \in Early => es = 0
  /\ pc = "do_move" => es >= Chunk /\ bx = es + Distance /\ bx < InitStart
  /\ pc \in Late => es < InitStart /\ es + Distance >= InitStart

(* Nothing is in the way of the next byte for the controller.              *)
MaySend == pc \in {"send_command", "send_data", "fast_gate"} => ~ibf \/ gaveUp

IInv == TypeOK /\ Moved /\ Where /\ A20IsOn /\ MaySend

LEMMA Layout ==
  /\ Chunk \in Nat /\ Chunk > 0 /\ SysStart \in Nat /\ SysStart >= 2 * Chunk
  /\ InitStart \in Nat /\ InitStart > SysStart
  /\ Distance \in Nat /\ Distance >= Chunk
  /\ Units = 0 .. (SysStart + InitStart)
BY LayoutOK DEF LayoutOK, Distance, Units

LEMMA InitIInv == Init => IInv
<1> SUFFICES ASSUME Init PROVE IInv
  OBVIOUS
<1> USE DEF Init
<1>1. machine.kbc \in BOOLEAN
  BY DEF Machines
<1>2. obf \in BOOLEAN /\ ibf \in BOOLEAN
  <2>1. CASE machine.kbc BY <2>1
  <2>2. CASE ~machine.kbc BY <2>2
  <2> QED BY <2>1, <2>2
<1>3. TypeOK
  <2>1. mem \in [Units -> Units] /\ es \in Nat /\ bx \in Nat
    OBVIOUS
  <2>2. cx \in 0 .. Polls /\ ax \in 0 .. Words - 1 /\ high \in 0 .. Words - 1 /\ keys \in 0 .. MaxKeys
    BY CountsOK DEF CountsOK
  <2>3. pc \in Early /\ intr \in BOOLEAN /\ (intr <=> pc \in Early)
    BY DEF Early
  <2> QED BY <2>1, <2>2, <2>3, <1>2 DEF TypeOK
<1>4. Moved
  BY Layout DEF Moved
<1>5. Where /\ A20IsOn /\ MaySend
  BY DEF Where, A20IsOn, MaySend, Early, Late
<1> QED BY <1>3, <1>4, <1>5 DEF IInv

(* The step common to all that only go on among the early or late places.  *)
LEMMA GotoKeeps ==
  ASSUME NEW h, NEW n, IInv, Goto(h, n),
         \/ h \in Early /\ n \in Early
         \/ h = "mask" /\ n = "code32"
  PROVE  IInv'
<1> USE DEF IInv, Goto, cpu, kbd
<1>1. TypeOK'
  BY DEF TypeOK, Early, Late
<1>2. Moved'
  BY DEF Moved
<1>3. Where'
  BY DEF Where, Early, Late
<1>4. A20IsOn' /\ MaySend'
  BY DEF A20IsOn, MaySend, Early, Late
<1> QED BY <1>1, <1>2, <1>3, <1>4

(* The part of the invariant that a late step leaves alone.                *)
LEMMA LateKeeps ==
  ASSUME IInv, pc \in Late, pc' \in Late, UNCHANGED <<mem, es, bx>>
  PROVE  Moved' /\ Where'
<1> USE DEF IInv
<1>1. Moved'
  BY DEF Moved
<1>2. Where'
  BY DEF Where, Early, Late
<1> QED BY <1>1, <1>2

LEMMA NextIInv == ASSUME IInv, [Next]_vars PROVE IInv'
<1> USE DEF IInv
<1>1. CASE CheckSignature BY <1>1, GotoKeeps DEF CheckSignature, Early, Goto
<1>2. CASE Video BY <1>2, GotoKeeps DEF Video, Early, Goto
<1>19. CASE ModeParams BY <1>19, GotoKeeps DEF ModeParams, Early, Goto
<1>3. CASE Disks BY <1>3, GotoKeeps DEF Disks, Early, Goto
<1>4. CASE Features BY <1>4, GotoKeeps DEF Features, Early, Goto
<1>5. CASE Interrupted
  <2> PICK h \in Hlt : Goto(h[1], h[2])
    BY <1>5 DEF Interrupted
  <2>1. h[1] \in Early /\ h[2] \in Early
    BY DEF Hlt, Early
  <2> QED BY <2>1, GotoKeeps
<1>6. CASE DefaultSwitch
  <2> USE <1>6 DEF DefaultSwitch, kbd
  <2>1. pc' = "do_move" /\ es = 0 /\ es' = Chunk /\ bx' = SysStart
    BY DEF Where, Early
  <2>2. TypeOK'
    <3>1. intr' \in BOOLEAN /\ (intr' <=> pc' \in Early) /\ pc' \in Early \union {"do_move"} \union Late
      <4>1. pc' \notin Early /\ pc' \in {"do_move"}
        BY <2>1 DEF Early
      <4>2. intr' = FALSE
        OBVIOUS
      <4> QED BY <4>1, <4>2, Zenon
    <3>2. es' \in Nat /\ bx' \in Nat
      BY <2>1, Layout
    <3> QED BY <3>1, <3>2 DEF TypeOK
  <2>3. mem' = mem /\ \A u \in Units : (u >= Chunk /\ u < es) = (u >= Chunk /\ u < es')
    BY <2>1, Layout
  <2>4. Moved'
    BY <2>3, <2>1, Layout DEF Moved
  <2>5. Where' /\ A20IsOn' /\ MaySend'
    BY <2>1, Layout DEF Where, A20IsOn, MaySend, Early, Late, Distance
  <2> QED BY <2>2, <2>4, <2>5
<1>7. CASE DoMove
  <2> USE <1>7 DEF DoMove, kbd
  <2>1. /\ es \in Nat /\ es >= Chunk /\ bx = es + Distance /\ bx < InitStart
        /\ es' = es + Chunk /\ bx' = bx + Chunk
    BY DEF Where, TypeOK
  <2>2. pc' = IF bx' < InitStart THEN "do_move" ELSE "end_move"
    BY DEF MoreToMove
  <2>3. Moved'
    <3>1. ASSUME NEW u \in Units
          PROVE  mem'[u] = IF u >= Chunk /\ u < es' THEN u + Distance ELSE u
      <4>1. CASE u \in es .. (es + Chunk - 1)
        <5>1. bx + (u - es) \in Units /\ bx + (u - es) >= es
          BY <2>1, <4>1, Layout
        <5>2. mem[bx + (u - es)] = bx + (u - es)
          BY <5>1, <2>1, Layout DEF Moved
        <5>3. bx + (u - es) = u + Distance /\ u >= Chunk /\ u < es'
          BY <2>1, <4>1, Layout
        <5> QED BY <4>1, <5>2, <5>3
      <4>2. CASE u \notin es .. (es + Chunk - 1)
        <5>1. (u >= Chunk /\ u < es') <=> (u >= Chunk /\ u < es)
          BY <2>1, <4>2, Layout
        <5>2. mem'[u] = mem[u]
          BY <4>2
        <5> QED BY <5>1, <5>2 DEF Moved
      <4> QED BY <4>1, <4>2
    <3>2. mem' = [u \in Units |-> mem'[u]]
      OBVIOUS
    <3> HIDE <1>7 DEF DoMove
    <3> QED BY <3>1, <3>2 DEF Moved
  <2>4. Where'
    BY <2>1, <2>2, Layout DEF Where, Early, Late
  <2>5. mem' \in [Units -> Units]
    <3>1. ASSUME NEW u \in Units PROVE mem'[u] \in Units
      <4>1. CASE u \in es .. (es + Chunk - 1)
        <5>1. bx + (u - es) \in Units
          BY <2>1, <4>1, Layout
        <5> QED BY <4>1, <5>1 DEF TypeOK
      <4>2. CASE u \notin es .. (es + Chunk - 1)
        BY <4>2 DEF TypeOK
      <4> QED BY <4>1, <4>2
    <3>2. mem' = [u \in Units |-> mem'[u]]
      OBVIOUS
    <3> HIDE <1>7 DEF DoMove
    <3> QED BY <3>1, <3>2
  <2>6. es' \in Nat /\ bx' \in Nat
    BY <2>1, Layout
  <2>7. (pc' = "do_move" \/ pc' = "end_move") /\ pc = "do_move"
    BY <2>2
  <2>8. TypeOK'
    BY <2>5, <2>6, <2>7 DEF TypeOK, Early, Late
  <2>9. A20IsOn' /\ MaySend'
    BY <2>7 DEF A20IsOn, MaySend
  <2> QED BY <2>3, <2>4, <2>8, <2>9
<1>8. CASE EndMove
  <2> USE <1>8 DEF EndMove, Call, kbd
  <2>1. TypeOK'
    <3>1. intr' \in BOOLEAN /\ (intr' <=> pc' \in Early) /\ pc' \in Early \union {"do_move"} \union Late
      BY DEF TypeOK, Early, Late
    <3>2. cx' \in 0 .. Polls
      BY CountsOK DEF CountsOK
    <3>3. return' \in {"send_command", "send_data", "fast_gate"}
      OBVIOUS
    <3> QED BY <3>1, <3>2, <3>3 DEF TypeOK
  <2>2. Moved' /\ Where'
    BY LateKeeps DEF Late
  <2> QED BY <2>1, <2>2 DEF A20IsOn, MaySend
<1>9. CASE Poll
  <2> USE <1>9 DEF Poll, kbd
  <2>1. TypeOK'
    <3>1. return \in {"send_command", "send_data", "fast_gate"} /\ cx \in Nat /\ intr = FALSE
      <4>1. pc \notin Early
        BY DEF Early
      <4>2. intr = FALSE
        BY <4>1, Zenon DEF TypeOK
      <4> QED BY <4>2, CountsOK DEF TypeOK, CountsOK
    <3>2. pc' \in {"empty_8042", "drain", "send_command", "send_data", "fast_gate"}
      BY <3>1
    <3>3. intr' \in BOOLEAN /\ (intr' <=> pc' \in Early) /\ pc' \in Early \union {"do_move"} \union Late
      <4>1. pc' \notin Early /\ pc' \in Late
        BY <3>2 DEF Early, Late
      <4>2. intr' = FALSE
        BY <3>1
      <4> QED BY <4>1, <4>2, Zenon
    <3>4. cx' \in 0 .. Polls
      BY CountsOK DEF CountsOK, TypeOK
    <3>5. gaveUp' \in BOOLEAN
      BY DEF TypeOK
    <3> QED BY <3>3, <3>4, <3>5 DEF TypeOK
  <2>2. Moved' /\ Where'
    BY LateKeeps DEF Late, TypeOK
  <2> QED BY <2>1, <2>2 DEF A20IsOn, MaySend, TypeOK, Ready
<1>10. CASE Drain
  <2> USE <1>10 DEF Drain
  <2>1. TypeOK'
    BY DEF TypeOK, Early, Late
  <2>2. Moved' /\ Where'
    BY LateKeeps DEF Late
  <2> QED BY <2>1, <2>2 DEF A20IsOn, MaySend
<1>11. CASE SendCommand
  <2> USE <1>11 DEF SendCommand, Out, Call
  <2>1. TypeOK'
    <3>1. intr' \in BOOLEAN /\ (intr' <=> pc' \in Early) /\ pc' \in Early \union {"do_move"} \union Late
      BY DEF TypeOK, Early, Late
    <3>2. cx' \in 0 .. Polls
      BY CountsOK DEF CountsOK
    <3>3. return' \in {"send_command", "send_data", "fast_gate"}
      OBVIOUS
    <3> QED BY <3>1, <3>2, <3>3 DEF TypeOK
  <2>2. Moved' /\ Where'
    BY LateKeeps DEF Late
  <2> QED BY <2>1, <2>2 DEF A20IsOn, MaySend
<1>12. CASE SendData
  <2> USE <1>12 DEF SendData, Out, Call
  <2>1. TypeOK'
    <3>1. intr' \in BOOLEAN /\ (intr' <=> pc' \in Early) /\ pc' \in Early \union {"do_move"} \union Late
      BY DEF TypeOK, Early, Late
    <3>2. cx' \in 0 .. Polls
      BY CountsOK DEF CountsOK
    <3>3. return' \in {"send_command", "send_data", "fast_gate"}
      OBVIOUS
    <3> QED BY <3>1, <3>2, <3>3 DEF TypeOK
  <2>2. Moved' /\ Where'
    BY LateKeeps DEF Late
  <2> QED BY <2>1, <2>2 DEF A20IsOn, MaySend
<1>13. CASE FastGate
  <2> USE <1>13 DEF FastGate, kbd
  <2>1. TypeOK'
    BY CountsOK DEF TypeOK, Early, Late, CountsOK, Machines
  <2>2. Moved' /\ Where'
    BY LateKeeps DEF Late
  <2> QED BY <2>1, <2>2 DEF A20IsOn, MaySend
<1>14. CASE A20Wait
  <2> USE <1>14 DEF A20Wait, kbd
  <2>1. ax' \in 0 .. Words - 1
    BY CountsOK DEF NextWord, CountsOK, TypeOK
  <2>2. TypeOK'
    BY <2>1 DEF TypeOK, Early, Late
  <2>3. Moved' /\ Where'
    BY LateKeeps DEF Late
  <2> QED BY <2>2, <2>3 DEF A20IsOn, MaySend, Aliased
<1>15. CASE FlushInstr BY <1>15, GotoKeeps DEF FlushInstr
<1>16. CASE Controller
  <2> USE <1>16 DEF Controller, cpu
  <2>1. TypeOK'
    BY DEF TypeOK
  <2>2. Moved' /\ Where'
    BY DEF Moved, Where
  <2>3. A20IsOn'
    <3>1. pc' = pc /\ (a20' = a20 \/ a20' = TRUE)
      BY Zenon
    <3> HIDE DEF Controller
    <3> QED BY <3>1 DEF A20IsOn
  <2>4. MaySend'
    BY DEF MaySend
  <2> QED BY <2>1, <2>2, <2>3, <2>4
<1>17. CASE Key
  <2> USE <1>17 DEF Key, cpu
  <2>1. TypeOK'
    BY CountsOK DEF TypeOK, CountsOK
  <2>2. Moved' /\ Where'
    BY DEF Moved, Where
  <2> QED BY <2>1, <2>2 DEF A20IsOn, MaySend
<1>18. CASE UNCHANGED vars
  BY <1>18 DEF vars, cpu, kbd, TypeOK, Moved, Where, A20IsOn, MaySend
<1> QED
  BY <1>1, <1>2, <1>3, <1>4, <1>5, <1>6, <1>7, <1>8, <1>9, <1>10, <1>11, <1>12, <1>13, <1>14,
     <1>15, <1>16, <1>17, <1>18, <1>19 DEF Next, Step, Started
-----------------------------------------------------------------------------
(* Every state of setup satisfies the inductive invariant.                 *)
THEOREM Invariance == Spec => []IInv
BY InitIInv, NextIInv, PTL DEF Spec

(* The types, TypeOK: setup stays within memory and its registers.         *)
THEOREM Types == Spec => []TypeOK
<1>1. IInv => TypeOK BY DEF IInv
<1> QED BY <1>1, Invariance, PTL

(* do_move moves the whole system, though it overlaps itself.              *)
THEOREM MovedWhole == Spec => []SystemMoved
<1>1. ASSUME IInv PROVE SystemMoved
  <2> SUFFICES ASSUME pc \in Late, NEW u \in SysStart .. (InitStart - 1)
               PROVE  mem[u - (SysStart - Chunk)] = u
    BY DEF SystemMoved
  <2>1. es \in Nat /\ es + Distance >= InitStart
    BY <1>1 DEF IInv, Where, TypeOK
  <2> DEFINE v == u - (SysStart - Chunk)
  <2>2. v \in Units /\ v >= Chunk /\ v < es /\ v + Distance = u
    BY <2>1, Layout DEF Distance
  <2> HIDE DEF v
  <2>3. mem[v] = v + Distance
    BY <1>1, <2>2 DEF IInv, Moved
  <2> QED BY <2>2, <2>3 DEF v
<1> QED BY <1>1, Invariance, PTL

(* do_move stops before INITSEG, for every layout: the distance is at      *)
(* least one turn.                                                         *)
THEOREM NeverOverwritesSetup == Spec => []SetupKept
<1>1. ASSUME IInv PROVE SetupKept
  <2>1. es \in Nat /\ es < InitStart
    BY <1>1, Layout DEF IInv, Where, TypeOK
  <2>2. ASSUME NEW u \in Units, u >= InitStart PROVE mem[u] = u
    <3>1. ~(u < es)
      BY <2>1, <2>2, Layout
    <3> QED BY <1>1, <3>1 DEF IInv, Moved
  <2> QED BY <2>2 DEF SetupKept
<1> QED BY <1>1, Invariance, PTL

(* a20_wait is not left before the line is on.                             *)
THEOREM LineIsOn == Spec => []A20IsOn
<1>1. IInv => A20IsOn BY DEF IInv
<1> QED BY <1>1, Invariance, PTL

(* empty_8042 before each byte: none is written over another unless that   *)
(* very wait was given up.                                                 *)
THEOREM BytesKept == Spec => NoByteLost
<1>1. ASSUME IInv, [Next]_vars
      PROVE  [ibf /\ (SendCommand \/ SendData) => gaveUp]_vars
  BY <1>1 DEF IInv, MaySend, SendCommand, SendData
<1> QED BY <1>1, Invariance, PTL DEF Spec, NoByteLost
=============================================================================
