----------------------------- MODULE Semaphore ------------------------------
(***************************************************************************)
(* include/asm/semaphore.h: down, down_interruptible, down_trylock and up  *)
(* with their one locked instruction each.  The functions they call when   *)
(* that is not enough are declared there but not in the repository: their  *)
(* part is Linux 2.4.0's, each step what it does under its own lock.       *)
(***************************************************************************)
EXTENDS Integers, FiniteSets, Sequences

CONSTANTS Procs, Count  (* sema_init(sem, Count)                           *)

CountOK == IsFiniteSet(Procs) /\ Count \in Nat /\ Count > 0

VARIABLES
  count, sleepers,
  pc,
  queue,   (* sem->wait                                                    *)
  asleep,  (* in schedule(), or about to be, and not woken                 *)
  signal   (* signal_pending()                                             *)

vars == <<count, sleepers, pc, queue, asleep, signal>>

Init ==
  /\ count = Count /\ sleepers = 0
  /\ pc = [p \in Procs |-> "idle"]
  /\ queue = {} /\ asleep = {} /\ signal = {}

Goto(p, from, to) == pc[p] = from /\ pc' = [pc EXCEPT ![p] = to]

(* Mutant of Contended: one process too many gets in.                      *)
ContendedLate(v) == v < -1

(* decl; js 2f                                                             *)
Contended(v) == v < 0

(* The three ways down, and where they go if the count is negative.        *)
Ways == {"down", "interruptible", "trylock"}

(* Mutant of Down: a try that fails has not counted itself.                *)
DownUncounted(p, way) ==
  /\ count' = IF way = "trylock" /\ Contended(count - 1) THEN count ELSE count - 1
  /\ Goto(p, "idle", IF Contended(count - 1) THEN way ELSE "held")
  /\ UNCHANGED <<sleepers, queue, asleep, signal>>

Down(p, way) ==
  /\ count' = count - 1
  /\ Goto(p, "idle", IF Contended(count') THEN way ELSE "held")
  /\ UNCHANGED <<sleepers, queue, asleep, signal>>

(* wake_up: one that sleeps.                                               *)
Wake(q) ==
  IF q \intersect asleep = {} THEN asleep' = asleep \ {}
  ELSE \E p \in q \intersect asleep : asleep' = asleep \ {p}

(* Mutants of Waiting: the last one waiting is missed; nobody is woken     *)
(* while the semaphore is held.                                            *)
WaitingNegative(v) == v < 0
WaitingNever(v) == v > 0

(* incl; jle 2f                                                            *)
Waiting(v) == v <= 0

Up(p) ==
  /\ count' = count + 1
  /\ Goto(p, "held", IF Waiting(count') THEN "up" ELSE "idle")
  /\ UNCHANGED <<sleepers, queue, asleep, signal>>

(* __up                                                                    *)
UpWakeup(p) ==
  /\ Goto(p, "up", "idle")
  /\ Wake(queue)
  /\ UNCHANGED <<count, sleepers, queue, signal>>

Loop(way) == IF way = "down" THEN "down loop" ELSE "interruptible loop"

(* __down, __down_interruptible: join, or come back from schedule().  Give *)
(* up at a signal, else take the semaphore if the count with everyone who  *)
(* waits put back is not negative, else sleep.                             *)
Sleep(p, way) ==
  LET first == pc[p] = way
      s == sleepers + (IF first THEN 1 ELSE 0) IN
  /\ \/ first
     \/ pc[p] = Loop(way) /\ p \notin asleep
  /\ \/ /\ way = "interruptible" /\ p \in signal
        /\ sleepers' = 0 /\ count' = count + s
        /\ pc' = [pc EXCEPT ![p] = "eintr"]
        /\ UNCHANGED asleep
     \/ /\ way = "down" \/ p \notin signal
        /\ count' = count + s - 1
        /\ IF count' >= 0
             THEN sleepers' = 0 /\ pc' = [pc EXCEPT ![p] = "got"] /\ UNCHANGED asleep
             ELSE sleepers' = 1 /\ pc' = [pc EXCEPT ![p] = Loop(way)] /\ asleep' = asleep \union {p}
  /\ queue' = queue \union {p}
  /\ UNCHANGED signal

(* Leave the queue and pass the wake-up on.                                *)
Leave(p) ==
  /\ \/ Goto(p, "got", "held") /\ UNCHANGED signal
     \/ Goto(p, "eintr", "idle") /\ signal' = signal \ {p}
  /\ queue' = queue \ {p}
  /\ Wake(queue \ {p})
  /\ UNCHANGED <<count, sleepers>>

(* __down_trylock: put everything back.                                    *)
TryFails(p) ==
  /\ Goto(p, "trylock", "idle")
  /\ count' = count + sleepers + 1 /\ sleepers' = 0
  /\ IF count' >= 0 THEN Wake(queue) ELSE UNCHANGED asleep
  /\ UNCHANGED <<queue, signal>>

(* A signal comes and wakes an interruptible sleep.                        *)
Signal(p) ==
  /\ pc[p] \in {"interruptible", "interruptible loop"} /\ p \notin signal
  /\ signal' = signal \union {p} /\ asleep' = asleep \ {p}
  /\ UNCHANGED <<count, sleepers, pc, queue>>

Go(p) == UpWakeup(p) \/ Sleep(p, "down") \/ Sleep(p, "interruptible") \/ Leave(p) \/ TryFails(p)

Next == \E p \in Procs :
  Go(p) \/ Up(p) \/ Signal(p) \/ \E way \in Ways : Down(p, way)

Spec == Init /\ [][Next]_vars

(* What runs goes on, and who has the semaphore gives it back.             *)
Fairness == \A p \in Procs : WF_vars(Go(p)) /\ WF_vars(Up(p))
FairSpec == Spec /\ Fairness
-----------------------------------------------------------------------------
Slow == Ways \union {"down loop", "interruptible loop", "eintr", "up"}

TypeOK ==
  /\ count \in -Cardinality(Procs) .. Count /\ sleepers \in 0 .. Cardinality(Procs)
  /\ pc \in [Procs -> Slow \union {"idle", "held", "got"}]
  /\ asleep \subseteq queue /\ queue \subseteq Procs /\ signal \subseteq Procs

Holders == {p \in Procs : pc[p] \in {"held", "got"}}

(* No more than Count processes are in at once, through every contended    *)
(* down, failed try, signal and wake-up (semaphore.h:112-212).             *)
Excludes == Cardinality(Holders) <= Count

(* Once nobody is under way the count says how many more may come in: what *)
(* the ways out put back is what they took.                                *)
CountRestored ==
  (\A p \in Procs : pc[p] \in {"idle", "held"}) => count = Count - Cardinality(Holders)

(* No wake-up is lost: when all that are under way sleep, the semaphore is *)
(* held as often as it may be (semaphore.h:185-190).                       *)
NoneForgotten ==
  asleep # {} /\ (\A p \in Procs : pc[p] \in {"idle", "held"} \/ p \in asleep)
    => Cardinality(Holders) = Count

(* As long as new ones come they may overtake those that wait; once no more *)
(* come, everyone that waits gets the semaphore or gives up.               *)
Newcomer == \E p \in Procs, way \in Ways : Down(p, way)
EveryoneServed ==
  []<><<Newcomer>>_vars \/ \A p \in Procs : pc[p] \in Slow ~> pc[p] \in {"held", "idle"}
=============================================================================
