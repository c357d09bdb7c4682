------------------------------- MODULE RwSem -------------------------------
(***************************************************************************)
(* include/asm/semaphore.h: the readers/writers semaphore, one locked      *)
(* instruction to take it (those of asm/rwlock.h) and one to give it back. *)
(* Who finds it taken first keeps his part of the count and is handed the  *)
(* lock (he is biased); all others put theirs back and try again.  The     *)
(* functions for that are declared but not in the repository; their steps  *)
(* are those of Linux 2.4.0.                                               *)
(***************************************************************************)
EXTENDS Integers, FiniteSets

CONSTANTS Procs, BIAS     (* RW_LOCK_BIAS                                  *)

BiasOK == IsFiniteSet(Procs) /\ BIAS \in Nat /\ BIAS > Cardinality(Procs)

VARIABLES
  count,
  granted,  (* which of read_bias_granted and write_bias_granted are set   *)
  pc,       (* <<"r" or "w", what it does>>; of an idle one the first means  *)
            (* nothing                                                       *)
  asleep,
  bug       (* an xchg() has found its flag already set                    *)

vars == <<count, granted, pc, asleep, bug>>

Init ==
  /\ count = BIAS /\ granted = {} /\ bug = FALSE
  /\ pc = [p \in Procs |-> <<"r", "idle">>] /\ asleep = {}

Part(m) == IF m = "r" THEN 1 ELSE BIAS

Doing(m, what) == {p \in Procs : pc[p] = <<m, what>>}
Goto(p, m, from, to) == pc[p] = <<m, from>> /\ pc' = [pc EXCEPT ![p] = <<m, to>>]

(* Mutant of Taken: a reader only gives way to two.                        *)
TakenLate(m, result) == IF m = "r" THEN result >= -1 ELSE result = 0

(* subl; js or jnz                                                         *)
Taken(m, result) == IF m = "r" THEN result >= 0 ELSE result = 0

(* subl borrows: the old count as an unsigned number is less.              *)
Borrow(m, old) == old \in 0 .. Part(m) - 1

(* down_read, down_write, and another try in their slow path.              *)
Down(p, m, from) ==
  /\ pc[p] = from
  /\ count' = count - Part(m)
  /\ pc' = [pc EXCEPT ![p] = <<m, IF Taken(m, count') THEN "got"
                                 ELSE IF Borrow(m, count) THEN "biased" ELSE "undo">>]
  /\ UNCHANGED <<granted, asleep, bug>>

(* What is checked and counted when WAITQUEUE_DEBUG is set.                *)
CountIn(p, m) == Goto(p, m, "got", "in") /\ UNCHANGED <<count, granted, asleep, bug>>
CountOut(p, m) == Goto(p, m, "in", "out") /\ UNCHANGED <<count, granted, asleep, bug>>

(* incl; jz    addl; jc                                                    *)
MustWake(m, old) == IF m = "r" THEN old = -1 ELSE old \in -BIAS .. -1

(* Mutant of Up: a reader gives back a writer's part.                      *)
UpBias(p, m, what, next) ==
  /\ pc[p] = <<m, what>>
  /\ count' = count + BIAS
  /\ pc' = [pc EXCEPT ![p] = <<m, next>>]
  /\ UNCHANGED <<granted, asleep, bug>>

(* __up_read, __up_write, and the undo of the slow path.  The flags say    *)
(* whose turn it is: at zero the biased writer's.                          *)
Up(p, m, what, next) ==
  /\ pc[p] = <<m, what>>
  /\ count' = count + Part(m)
  /\ pc' = [pc EXCEPT ![p] =
       IF MustWake(m, count) THEN <<m, "wake", IF count' = 0 THEN "w" ELSE "r", next>>
       ELSE <<m, next>>]
  /\ UNCHANGED <<granted, asleep, bug>>

(* wake_up(&sem->wait): all readers, and one of the writers.               *)
Waiters(m) == asleep \intersect Doing(m, "wait")
WakeAll ==
  LET readers == Waiters("r") \union (asleep \intersect Doing("r", "biased")) IN
  IF Waiters("w") = {} THEN asleep' = asleep \ readers
  ELSE \E w \in Waiters("w") : asleep' = asleep \ (readers \union {w})

(* __rwsem_wake                                                            *)
RwsemWake(p, m, to, next) ==
  /\ pc[p] = <<m, "wake", to, next>>
  /\ pc' = [pc EXCEPT ![p] = <<m, next>>]
  /\ bug' = (bug \/ to \in granted)
  /\ granted' = granted \union {to}
  /\ IF to = "r" THEN WakeAll ELSE asleep' = asleep \ Doing("w", "biased")
  /\ UNCHANGED count

(* The biased one takes the lock when it is granted; a writer that could   *)
(* be followed wakes the others.                                           *)
Biased(p, m) ==
  /\ p \notin asleep
  /\ IF m \in granted
       THEN /\ Goto(p, m, "biased", "got") /\ granted' = granted \ {m}
            /\ IF m = "w" /\ count >= 0 THEN WakeAll ELSE UNCHANGED asleep
       ELSE /\ pc[p] = <<m, "biased">> /\ asleep' = asleep \union {p}
            /\ UNCHANGED <<pc, granted>>
  /\ UNCHANGED <<count, bug>>

(* The others sleep while the count is negative.                           *)
Wait(p, m) ==
  /\ p \notin asleep
  /\ IF count < 0
       THEN pc[p] = <<m, "wait">> /\ asleep' = asleep \union {p} /\ UNCHANGED pc
       ELSE Goto(p, m, "wait", "retry") /\ UNCHANGED asleep
  /\ UNCHANGED <<count, granted, bug>>

Go(p) ==
  \E m \in {"r", "w"} :
    \/ CountIn(p, m) \/ CountOut(p, m) \/ Biased(p, m) \/ Wait(p, m) \/ Down(p, m, <<m, "retry">>)
    \/ Up(p, m, "out", "idle") \/ Up(p, m, "undo", "wait")
    \/ \E to \in {"r", "w"}, next \in {"idle", "wait"} : RwsemWake(p, m, to, next)

Idle == {"r", "w"} \X {"idle"}
Begin(p) == \E m \in {"r", "w"}, from \in Idle : Down(p, m, from)

Next == \E p \in Procs : Go(p) \/ Begin(p)

Spec == Init /\ [][Next]_vars

-----------------------------------------------------------------------------
Modes == {"r", "w"}

TypeOK ==
  /\ count \in -BIAS * Cardinality(Procs) .. BIAS
  /\ granted \subseteq Modes /\ bug \in BOOLEAN /\ asleep \subseteq Procs
  /\ \A p \in Procs :
       pc[p] \in Idle \union (Modes \X {"biased", "undo", "wait", "retry", "got", "in", "out"})
                      \union (Modes \X {"wake"} \X Modes \X {"idle", "wait"})

(* The checks in the code, BUG() where they fail: who has the lock finds   *)
(* no bias granted that excludes it and nobody that must not be there      *)
(* (semaphore.h:275-282, 293-303, 346-369).                                *)
NoBug ==
  /\ ~bug
  /\ Doing("r", "got") \union Doing("r", "in") # {} => "w" \notin granted /\ Doing("w", "in") = {}
  /\ Doing("w", "got") \union Doing("w", "in") # {} => granted = {} /\ Doing("r", "in") = {}
  /\ Cardinality(Doing("w", "in")) <= 1

Inside(m) == Doing(m, "got") \union Doing(m, "in") \union Doing(m, "out")

(* It implements exclusion of readers and writers.                         *)
ImplementsExclusion == INSTANCE Exclusion WITH readers <- Inside("r"), writers <- Inside("w")
Excludes == ImplementsExclusion!Spec

(* All is given back: when nobody is under way nothing is left granted and *)
(* the count is what it was at first.                                      *)
Restored == (\A p \in Procs : pc[p] \in Idle) => count = BIAS /\ granted = {}
=============================================================================
