------------------------------ MODULE Tasklet -------------------------------
(***************************************************************************)
(* A tasklet of linux/interrupt.h on several processors.  The header has   *)
(* its state and the three operations on TASKLET_STATE_RUN; the softirq    *)
(* that runs it and the functions that schedule, disable and enable it are *)
(* kernel/softirq.c, which is not in the repository.                       *)
(***************************************************************************)
EXTENDS Integers, FiniteSets

CONSTANTS Cpus, Users  (* users disable and enable                         *)

ActorsOK == IsFiniteSet(Cpus) /\ IsFiniteSet(Users) /\ Cpus \intersect Users = {}

VARIABLES
  state,  (* of TASKLET_STATE_SCHED and TASKLET_STATE_RUN                  *)
  count,  (* the tasklet is disabled unless this is 0                      *)
  list,   (* the processors that have the tasklet on their list            *)
  pc

vars == <<state, count, list, pc>>

(* DECLARE_TASKLET                                                         *)
Init == state = {} /\ count = 0 /\ list = {} /\ pc = [a \in Cpus \union Users |-> "idle"]

Goto(a, from, to) == pc[a] = from /\ pc' = [pc EXCEPT ![a] = to]

(* tasklet_schedule                                                        *)
Schedule(c) ==
  /\ "SCHED" \notin state
  /\ state' = state \union {"SCHED"} /\ list' = list \union {c}
  /\ UNCHANGED <<count, pc>>

(* The softirq takes its list; what it cannot run it puts back.            *)
Take(c) == c \in list /\ Goto(c, "idle", "taken") /\ list' = list \ {c} /\ UNCHANGED <<state, count>>
PutBack(c) == Goto(c, "back", "idle") /\ list' = list \union {c} /\ UNCHANGED <<state, count>>

(* Mutant of TryLock: the bit is set whatever it was.                      *)
TryLockBlind(c) == Goto(c, "taken", "locked") /\ state' = state \union {"RUN"} /\ UNCHANGED <<count, list>>

(* tasklet_trylock                                                         *)
TryLock(c) ==
  /\ Goto(c, "taken", IF "RUN" \in state THEN "back" ELSE "locked")
  /\ state' = state \union {"RUN"}
  /\ UNCHANGED <<count, list>>

(* Scheduled again from here on; but a disabled one is only put back.      *)
Begin(c) ==
  /\ count = 0 /\ Goto(c, "locked", "running")
  /\ state' = state \ {"SCHED"}
  /\ UNCHANGED <<count, list>>
GiveUp(c) == count # 0 /\ Goto(c, "locked", "back") /\ state' = state \ {"RUN"} /\ UNCHANGED <<count, list>>

(* tasklet_unlock                                                          *)
Unlock(c) == Goto(c, "running", "idle") /\ state' = state \ {"RUN"} /\ UNCHANGED <<count, list>>

(* tasklet_disable: count, then tasklet_unlock_wait.                       *)
Disable(u) == Goto(u, "idle", "waiting") /\ count' = count + 1 /\ UNCHANGED <<state, list>>
UnlockWait(u) == "RUN" \notin state /\ Goto(u, "waiting", "disabled") /\ UNCHANGED <<state, count, list>>
Enable(u) == Goto(u, "disabled", "idle") /\ count' = count - 1 /\ UNCHANGED <<state, list>>

Softirq(c) == Take(c) \/ PutBack(c) \/ TryLock(c) \/ Begin(c) \/ GiveUp(c) \/ Unlock(c)

Next ==
  \/ \E c \in Cpus : Schedule(c) \/ Softirq(c)
  \/ \E u \in Users : Disable(u) \/ UnlockWait(u) \/ Enable(u)

Spec == Init /\ [][Next]_vars

(* Softirqs go on as long as there are any.                                *)
Fairness == \A c \in Cpus : WF_vars(Softirq(c))
-----------------------------------------------------------------------------
TypeOK ==
  /\ state \subseteq {"SCHED", "RUN"} /\ count \in 0 .. Cardinality(Users) /\ list \subseteq Cpus
  /\ pc \in [Cpus \union Users -> {"idle", "taken", "locked", "running", "back", "waiting", "disabled"}]

(* The tasklet runs on one processor at a time (interrupt.h:99-102).       *)
ImplementsExclusion ==
  INSTANCE Exclusion WITH readers <- {}, writers <- {c \in Cpus : pc[c] = "running"}
Excludes == ImplementsExclusion!Spec

(* What is disabled is not running any more, and what is scheduled is on   *)
(* exactly one list or on its way (interrupt.h:88-102).                    *)
Counted ==
  /\ (\E u \in Users : pc[u] = "disabled") => \A c \in Cpus : pc[c] # "running"
  /\ Cardinality(list) + Cardinality({c \in Cpus : pc[c] \in {"taken", "locked", "back"}})
       = IF "SCHED" \in state THEN 1 ELSE 0

(* What is scheduled runs, unless it is disabled again and again.          *)
Served ==
  (<>[](count = 0)) => ("SCHED" \in state ~> \E c \in Cpus : pc[c] = "running")
=============================================================================
