------------------------------- MODULE RwLock -------------------------------
(***************************************************************************)
(* include/asm/rwlock.h, the read-write spinlock, as linux/spinlock.h      *)
(* combines it with interrupts: tasks read with interrupts on and write    *)
(* with interrupts off, interrupt handlers read.                           *)
(***************************************************************************)
EXTENDS Integers, FiniteSets

CONSTANTS Cpus, Bias, Half  (* RW_LOCK_BIAS; the counter is in -Half .. Half - 1 *)

(* A task or a handler.                                                    *)
Contexts == Cpus \X {"task", "irq"}

(* "subl'ing BIAS once per CPU will result in the long remaining negative":*)
(* semaphore.h:219-222.                                                    *)
BiasOK ==
  /\ IsFiniteSet(Cpus) /\ Bias \in Nat /\ Half \in Nat
  /\ Bias > Cardinality(Contexts)
  /\ Bias < Half /\ Bias * Cardinality(Cpus) <= Half

VARIABLES
  lock,
  pc,
  irqs    (* interrupts are on, for each CPU                               *)

vars == <<lock, pc, irqs>>

Init ==
  /\ lock = Bias
  /\ pc = [c \in Contexts |-> "idle"]
  /\ irqs = [u \in Cpus |-> TRUE]

(* The handler runs before the task it interrupted.                        *)
Runs(c) == c[2] = "irq" \/ pc[<<c[1], "irq">>] = "idle"

At(c, from) == Runs(c) /\ pc[c] = from
Goto(c, to) == pc' = [pc EXCEPT ![c] = to]

(* Mutant of Minus: the difference has no sign.                            *)
MinusUnsigned(a, b) == (a - b) % (2 * Half)

(* A 32 bit subtraction.                                                   *)
Minus(a, b) == ((a - b + Half) % (2 * Half)) - Half

(* js 2f                                                                   *)
ReadFails(v) == v < 0

(* __build_read_lock: subl $1.                                             *)
ReadLock(c) ==
  /\ At(c, "rtry")
  /\ lock' = Minus(lock, 1)
  /\ Goto(c, IF ReadFails(lock') THEN "rfail" ELSE "reading")
  /\ UNCHANGED irqs

(* Mutant of WriteFails: readers do not count.                             *)
WriteFailsNegative(v) == v <= -Bias

(* jnz 2f                                                                  *)
WriteFails(v) == v # 0

(* __build_write_lock: subl $BIAS.                                         *)
WriteLock(c) ==
  /\ At(c, "wtry")
  /\ lock' = Minus(lock, Bias)
  /\ Goto(c, IF WriteFails(lock') THEN "wfail" ELSE "writing")
  /\ UNCHANGED irqs

(* The helpers undo the subtraction, wait until it looks possible and try  *)
(* again.                                                                  *)
ReadUndo(c) == At(c, "rfail") /\ lock' = Minus(lock, -1) /\ Goto(c, "rwait") /\ UNCHANGED irqs

ReadWait(c) == At(c, "rwait") /\ lock >= 1 /\ Goto(c, "rtry") /\ UNCHANGED <<lock, irqs>>
WriteUndo(c) == At(c, "wfail") /\ lock' = Minus(lock, -Bias) /\ Goto(c, "wwait") /\ UNCHANGED irqs
WriteWait(c) == At(c, "wwait") /\ lock = Bias /\ Goto(c, "wtry") /\ UNCHANGED <<lock, irqs>>

(* read_lock of a task, with interrupts as they are.                       *)
BeginRead(c) == c[2] = "task" /\ At(c, "idle") /\ Goto(c, "rtry") /\ UNCHANGED <<lock, irqs>>

(* Mutant of BeginWrite: write_lock, with interrupts as they are.          *)
BeginWriteLate(c) == c[2] = "task" /\ At(c, "idle") /\ Goto(c, "wtry") /\ UNCHANGED <<lock, irqs>>

(* write_lock_irq, write_lock_irqsave: first the interrupts, then the lock.*)
BeginWrite(c) ==
  /\ c[2] = "task" /\ At(c, "idle") /\ Goto(c, "wtry")
  /\ irqs' = [irqs EXCEPT ![c[1]] = FALSE]
  /\ UNCHANGED lock

(* Mutant of ReadUnlock: the release of a writer.                          *)
ReadUnlockBias(c) == At(c, "reading") /\ lock' = Minus(lock, -Bias) /\ Goto(c, "idle") /\ UNCHANGED irqs

(* read_unlock: incl.                                                      *)
ReadUnlock(c) == At(c, "reading") /\ lock' = Minus(lock, -1) /\ Goto(c, "idle") /\ UNCHANGED irqs

(* write_unlock: addl $BIAS; interrupts are still off.                     *)
WriteUnlock(c) == At(c, "writing") /\ lock' = Minus(lock, -Bias) /\ Goto(c, "restore") /\ UNCHANGED irqs

(* local_irq_enable, local_irq_restore.                                    *)
Restore(c) ==
  /\ At(c, "restore") /\ Goto(c, "idle")
  /\ irqs' = [irqs EXCEPT ![c[1]] = TRUE]
  /\ UNCHANGED lock

(* An interrupt whose handler calls read_lock.                             *)
Interrupt(u) ==
  /\ irqs[u] /\ At(<<u, "irq">>, "idle")
  /\ Goto(<<u, "irq">>, "rtry")
  /\ UNCHANGED <<lock, irqs>>

Go(c) ==
  \/ ReadLock(c) \/ ReadUndo(c) \/ ReadWait(c) \/ ReadUnlock(c)
  \/ WriteLock(c) \/ WriteUndo(c) \/ WriteWait(c) \/ WriteUnlock(c) \/ Restore(c)

Next ==
  \/ \E c \in Contexts : Go(c) \/ BeginRead(c) \/ BeginWrite(c)
  \/ \E u \in Cpus : Interrupt(u)

Spec == Init /\ [][Next]_vars

(* What runs goes on; who begins and when is free.                         *)
Fairness == \A c \in Contexts : WF_vars(Go(c))
FairSpec == Spec /\ Fairness
-----------------------------------------------------------------------------
TypeOK ==
  /\ lock \in -Half .. Half - 1
  /\ pc \in [Contexts -> {"idle", "rtry", "rfail", "rwait", "reading",
                          "wtry", "wfail", "wwait", "writing", "restore"}]
  /\ irqs \in [Cpus -> BOOLEAN]

Having(s) == {c \in Contexts : pc[c] \in s}

(* The counter is what readers and writers have taken off it, tries that   *)
(* failed and are not yet undone included (rwlock.h:20-83).                *)
Counted ==
  lock = Bias - Cardinality(Having({"reading", "rfail"}))
              - Bias * Cardinality(Having({"writing", "wfail"}))

(* The lock implements exclusion of readers and writers                    *)
(* (spinlock.h:83-92).                                                     *)
ImplementsExclusion ==
  INSTANCE Exclusion WITH readers <- Having({"reading"}), writers <- Having({"writing"})
Excludes == ImplementsExclusion!Spec

(* A handler never waits for the task it interrupted: readers may leave    *)
(* interrupts on because only writers block a reader                       *)
(* (linux/spinlock.h:105-115).                                             *)
NoSelfDeadlock ==
  \A u \in Cpus : pc[<<u, "irq">>] # "idle" => pc[<<u, "task">>] \notin {"writing", "wfail"}

(* Readers that come and go, and failed tries not yet undone, keep no      *)
(* handler waiting: it is served unless writers keep coming.               *)
HandlerServed ==
  (<>[](Having({"wtry", "wfail", "wwait", "writing"}) = {})) =>
     \A u \in Cpus : pc[<<u, "irq">>] = "rwait" ~> pc[<<u, "irq">>] = "reading"
=============================================================================
