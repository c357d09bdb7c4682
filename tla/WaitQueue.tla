----------------------------- MODULE WaitQueue ------------------------------
(***************************************************************************)
(* include/linux/wait.h and the waiting macros of include/linux/sched.h:   *)
(* tasks wait for an item with wait_event(), wait_event_interruptible() or *)
(* an exclusive entry of their own; wakers post one and call wake_up().    *)
(* schedule(), __wake_up() and add_wait_queue() are declared, but not in   *)
(* the repository.                                                         *)
(***************************************************************************)
EXTENDS Integers, FiniteSets, Sequences

CONSTANTS Tasks, Wakers, MaxItems (* bound on the items posted at a time   *)

MaxItemsOK == MaxItems \in Nat \ {0}

Kinds == {"plain", "interruptible", "exclusive"}

VARIABLES
  kind,    (* how each task waits                                          *)
  items,   (* the condition is items > 0                                   *)
  queue,   (* the wait queue, its head first                               *)
  state,   (* task_struct.state                                            *)
  pc,
  waking,  (* the wakers between their post and their wake_up              *)
  signal   (* signal_pending()                                             *)

vars == <<kind, items, queue, state, pc, waking, signal>>

Init ==
  /\ kind \in [Tasks -> Kinds]
  /\ items = 0 /\ queue = <<>> /\ waking = {} /\ signal = {}
  /\ state = [t \in Tasks |-> "running"] /\ pc = [t \in Tasks |-> "idle"]

Goto(t, from, to) == pc[t] = from /\ pc' = [pc EXCEPT ![t] = to]

(* The first test of the macros.                                           *)
Enter(t) ==
  /\ Goto(t, "idle", IF items > 0 THEN "take" ELSE "add")
  /\ UNCHANGED <<kind, items, queue, state, waking, signal>>

(* Mutant of Add: all at the tail.                                         *)
AddTail(t) ==
  /\ Goto(t, "add", "set") /\ queue' = Append(queue, t)
  /\ UNCHANGED <<kind, items, state, waking, signal>>

(* __add_wait_queue at the head, __add_wait_queue_tail for wake-one tasks. *)
Add(t) ==
  /\ Goto(t, "add", "set")
  /\ queue' = IF kind[t] = "exclusive" THEN Append(queue, t) ELSE <<t>> \o queue
  /\ UNCHANGED <<kind, items, state, waking, signal>>

Asleep(t) == IF kind[t] = "interruptible" THEN "interruptible" ELSE "uninterruptible"

(* set_current_state                                                       *)
SetState(t) ==
  /\ Goto(t, "set", "test")
  /\ state' = [state EXCEPT ![t] = Asleep(t)]
  /\ UNCHANGED <<kind, items, queue, waking, signal>>

(* Mutant of Test: the signal is left to schedule().                       *)
TestUnsignalled(t) ==
  /\ Goto(t, "test", IF items > 0 THEN "leave" ELSE "schedule")
  /\ UNCHANGED <<kind, items, queue, state, waking, signal>>

(* if (condition) break; if (!signal_pending(current)) schedule()          *)
Test(t) ==
  /\ Goto(t, "test", IF items > 0 THEN "leave"
                     ELSE IF kind[t] = "interruptible" /\ t \in signal THEN "restart"
                     ELSE "schedule")
  /\ UNCHANGED <<kind, items, queue, state, waking, signal>>

(* schedule() returns at once if it was woken meanwhile, or has a signal   *)
(* it lets through.                                                        *)
Schedule(t) ==
  /\ state[t] = "running" \/ (state[t] = "interruptible" /\ t \in signal)
  /\ Goto(t, "schedule", "set")
  /\ UNCHANGED <<kind, items, queue, state, waking, signal>>

(* list_del of the entry at place k.                                       *)
Without(k) == [i \in 1 .. Len(queue) - 1 |-> queue[IF i < k THEN i ELSE i + 1]]

(* The end of the macro.                                                   *)
Leave(t) ==
  /\ \/ Goto(t, "leave", "take") /\ UNCHANGED signal
     \/ Goto(t, "restart", "idle") /\ signal' = signal \ {t}
  /\ state' = [state EXCEPT ![t] = "running"]
  /\ \E k \in DOMAIN queue : queue[k] = t /\ queue' = Without(k)
  /\ UNCHANGED <<kind, items, waking>>

(* Mutant of Take: it relies on having been woken for an item.             *)
TakeBlind(t) ==
  /\ Goto(t, "take", "idle") /\ items' = items - 1
  /\ UNCHANGED <<kind, queue, state, waking, signal>>

(* The caller takes what it waited for, unless another was faster.         *)
Take(t) ==
  /\ Goto(t, "take", "idle")
  /\ items' = IF items > 0 THEN items - 1 ELSE items
  /\ UNCHANGED <<kind, queue, state, waking, signal>>

Post(w) ==
  /\ w \notin waking /\ items < MaxItems
  /\ items' = items + 1 /\ waking' = waking \union {w}
  /\ UNCHANGED <<kind, queue, state, pc, signal>>

(* wake_up, wake_up_all, wake_up_interruptible, wake_up_interruptible_all: *)
(* the states woken, and whether one exclusive entry is enough.            *)
Both == {"interruptible", "uninterruptible"}
Macros == {[mode |-> m, one |-> o] : m \in {Both, {"interruptible"}}, o \in BOOLEAN}

(* The places on the queue of those that sleep so.                         *)
Able(macro) == {i \in DOMAIN queue : state[queue[i]] \in macro.mode}

(* Mutant of Woken: wake-one wakes one, whatever it is.                    *)
WokenOne(macro) ==
  {queue[i] : i \in {j \in Able(macro) : macro.one => \A k \in Able(macro) : k >= j}}

(* Of these all up to the first exclusive one.                             *)
Woken(macro) ==
  LET ex == {k \in Able(macro) : kind[queue[k]] = "exclusive"}
  IN {queue[i] : i \in {j \in Able(macro) : macro.one => \A k \in ex : k >= j}}

(* A waker does not leave out a state its waiters sleep in.                *)
MayUse(macro) == \A t \in Tasks : Asleep(t) \in macro.mode

WakeUp(w) == \E macro \in Macros :
  /\ w \in waking /\ MayUse(macro)
  /\ waking' = waking \ {w}
  /\ state' = [t \in Tasks |-> IF t \in Woken(macro) THEN "running" ELSE state[t]]
  /\ UNCHANGED <<kind, items, queue, pc, signal>>

Signal(t) ==
  /\ t \notin signal /\ kind[t] = "interruptible" /\ pc[t] \in {"test", "schedule"}
  /\ signal' = signal \union {t}
  /\ UNCHANGED <<kind, items, queue, state, pc, waking>>

Go(t) == Add(t) \/ SetState(t) \/ Test(t) \/ Schedule(t) \/ Leave(t) \/ Take(t)

Next ==
  \/ \E t \in Tasks : Go(t) \/ Enter(t) \/ Signal(t)
  \/ \E w \in Wakers : Post(w) \/ WakeUp(w)

Spec == Init /\ [][Next]_vars

(* What runs goes on, and who has posted calls wake_up().                  *)
Fairness ==
  /\ \A t \in Tasks : WF_vars(Go(t))
  /\ \A w \in Wakers : WF_vars(WakeUp(w))
FairSpec == Spec /\ Fairness
-----------------------------------------------------------------------------
TypeOK ==
  /\ kind \in [Tasks -> Kinds] /\ items \in 0 .. MaxItems
  /\ queue \in Seq(Tasks) /\ waking \subseteq Wakers /\ signal \subseteq Tasks
  /\ state \in [Tasks -> {"running"} \union Both]
  /\ pc \in [Tasks -> {"idle", "add", "set", "test", "schedule", "leave", "restart", "take"}]

Waiting(t) == pc[t] \in {"set", "test", "schedule", "leave", "restart"}
Sleeps(t) == pc[t] = "schedule" /\ state[t] # "running"

(* A task is on the queue exactly once while it may sleep, never after     *)
(* (sched.h:573-582), and those that share a wake-up stand before those    *)
(* that take one alone (wait.h:170-172).                                   *)
Queued ==
  /\ \A t \in Tasks : Cardinality({i \in DOMAIN queue : queue[i] = t}) = IF Waiting(t) THEN 1 ELSE 0
  /\ \A i, j \in DOMAIN queue :
       kind[queue[i]] = "exclusive" /\ kind[queue[j]] # "exclusive" => j < i

(* No wake-up is lost: nobody who shares it sleeps on while there is an    *)
(* item and no wake_up() to come (sched.h:562-583).  One that takes a      *)
(* wake-up alone may: it can go to a task that has just seen the item.     *)
NoLostWakeup ==
  items > 0 /\ waking = {} => \A t \in Tasks : Sleeps(t) => kind[t] = "exclusive"

(* A signal ends an interruptible wait, whoever wakes the queue            *)
(* (sched.h:592-611).                                                      *)
SignalEnds == \A t \in Tasks : t \in signal /\ Waiting(t) ~> ~Waiting(t)

(* An item does not lie there for ever while somebody waits who shares its *)
(* wake-up.                                                                *)
Sharing == {t \in Tasks : kind[t] # "exclusive" /\ Waiting(t)}
Served == items > 0 /\ Sharing # {} ~> items = 0 \/ Sharing = {}
=============================================================================
