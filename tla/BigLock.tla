------------------------------ MODULE BigLock -------------------------------
(***************************************************************************)
(* The big kernel lock of asm/smplock.h across schedule(): a task that     *)
(* sleeps gives it up and, whatever its depth, has it back when it runs    *)
(* again.  lock_kernel() and unlock_kernel() are not in this copy of the   *)
(* header; they count the depth of the task and take or free the lock at   *)
(* its ends.  Without CONFIG_SMP all of it is empty (linux/smp_lock.h).    *)
(***************************************************************************)
EXTENDS Integers, FiniteSets

CONSTANTS Cpus, Tasks, MaxDepth

MaxDepthOK == MaxDepth \in Nat

VARIABLES
  kernel_flag,  (* the spin lock is taken                                  *)
  lock_depth,
  current,      (* the task of each processor                              *)
  irqs,         (* interrupts are on, for each processor                   *)
  pc

vars == <<kernel_flag, lock_depth, current, irqs, pc>>

Init ==
  /\ kernel_flag = FALSE
  /\ lock_depth = [t \in Tasks |-> -1]
  /\ current \in {f \in [Cpus -> Tasks] : \A c, d \in Cpus : f[c] = f[d] => c = d}
  /\ irqs = [c \in Cpus |-> TRUE]
  /\ pc = [c \in Cpus |-> "run"]

Goto(c, from, to) == pc[c] \in from /\ pc' = [pc EXCEPT ![c] = to]

Depth(c) == lock_depth[current[c]]

(* lock_kernel, unlock_kernel.                                             *)
LockKernel(c) ==
  /\ Depth(c) < MaxDepth
  /\ Goto(c, {"run"}, IF Depth(c) = -1 THEN "spin" ELSE "run")
  /\ lock_depth' = [lock_depth EXCEPT ![current[c]] = @ + 1]
  /\ UNCHANGED <<kernel_flag, current, irqs>>
UnlockKernel(c) ==
  /\ Depth(c) >= 0 /\ Goto(c, {"run"}, "run")
  /\ lock_depth' = [lock_depth EXCEPT ![current[c]] = @ - 1]
  /\ kernel_flag' = (kernel_flag /\ Depth(c) > 0)
  /\ UNCHANGED <<current, irqs>>

Cli(c) == Goto(c, {"run"}, "run") /\ irqs' = [irqs EXCEPT ![c] = FALSE] /\ UNCHANGED <<kernel_flag, lock_depth, current>>

(* Mutant of Release: freed whoever has it.                                *)
ReleaseAlways(c) ==
  /\ Goto(c, {"run"}, "switch")
  /\ kernel_flag' = FALSE
  /\ irqs' = [irqs EXCEPT ![c] = TRUE]
  /\ UNCHANGED <<lock_depth, current>>

(* release_kernel_lock: spin_unlock and __sti; the global interrupt lock it *)
(* gives up in between is not modelled.                                    *)
Release(c) ==
  /\ Goto(c, {"run"}, "switch")
  /\ kernel_flag' = (kernel_flag /\ Depth(c) < 0)
  /\ irqs' = [irqs EXCEPT ![c] = TRUE]
  /\ UNCHANGED <<lock_depth, current>>

(* schedule chooses a task, which reacquires what it had.                  *)
Switch(c, t) ==
  /\ \A d \in Cpus \ {c} : current[d] # t
  /\ Goto(c, {"switch"}, IF lock_depth[t] >= 0 THEN "spin" ELSE "run")
  /\ current' = [current EXCEPT ![c] = t]
  /\ UNCHANGED <<kernel_flag, lock_depth, irqs>>

(* spin_lock of lock_kernel and reacquire_kernel_lock.                     *)
SpinLock(c) ==
  /\ ~kernel_flag /\ Goto(c, {"spin"}, "run")
  /\ kernel_flag' = TRUE
  /\ UNCHANGED <<lock_depth, current, irqs>>

Next ==
  \E c \in Cpus :
    \/ LockKernel(c) \/ UnlockKernel(c) \/ Cli(c) \/ Release(c) \/ SpinLock(c)
    \/ \E t \in Tasks : Switch(c, t)

Spec == Init /\ [][Next]_vars
-----------------------------------------------------------------------------
TypeOK ==
  /\ kernel_flag \in BOOLEAN /\ lock_depth \in [Tasks -> -1 .. MaxDepth]
  /\ current \in [Cpus -> Tasks] /\ irqs \in [Cpus -> BOOLEAN] /\ pc \in [Cpus -> {"run", "spin", "switch"}]

(* A task that runs has the lock if and only if its depth says so, and one *)
(* that sleeps has not got it, nor the interrupts off (smplock.h:16-31).   *)
Holders == {current[c] : c \in {d \in Cpus : pc[d] = "run" /\ Depth(d) >= 0}}
Counted ==
  /\ Cardinality(Holders) = IF kernel_flag THEN 1 ELSE 0
  /\ \A c \in Cpus : pc[c] = "switch" => irqs[c]

(* Tasks at a depth of the lock exclude each other (smplock.h:11-31).      *)
ImplementsExclusion == INSTANCE Exclusion WITH readers <- {}, writers <- Holders
Excludes == ImplementsExclusion!Spec
=============================================================================
