------------------------------ MODULE SpinLock ------------------------------
(***************************************************************************)
(* include/asm/spinlock.h, the SMP spinlock: a byte that is 1 when free,   *)
(* counted down by everyone who wants it and set, not counted, when freed. *)
(***************************************************************************)
EXTENDS Integers, FiniteSets

CONSTANTS Cpus, Half  (* the byte has the values -Half .. Half - 1         *)

CpusOK == IsFiniteSet(Cpus) /\ Half \in Nat /\ Half > 1 /\ Cardinality(Cpus) <= Half

VARIABLES lock, pc

vars == <<lock, pc>>

Init == lock = 1 /\ pc = [c \in Cpus |-> "free"]

Goto(c, from, to) == pc[c] = from /\ pc' = [pc EXCEPT ![c] = to]

(* Mutant of Dec: the byte goes down without its sign.                     *)
DecUnsigned(b) == (b - 1) % Half

(* decb                                                                    *)
Dec(b) == IF b = -Half THEN Half - 1 ELSE b - 1

(* js                                                                      *)
Failed(b) == b < 0

(* spin_lock, the first try and those after label 2.                       *)
Try(c) ==
  /\ pc[c] \in {"free", "retry"}
  /\ lock' = Dec(lock)
  /\ pc' = [pc EXCEPT ![c] = IF Failed(lock') THEN "spin" ELSE "held"]

(* spin_is_locked; cmpb $0; jle 2b                                         *)
IsLocked(b) == b <= 0

Spin(c) == ~IsLocked(lock) /\ Goto(c, "spin", "retry") /\ UNCHANGED lock

(* Mutant of TryLock: the byte is read, then written.                      *)
TryLockLate(c) ==
  \/ lock > 0 /\ Goto(c, "free", "trying") /\ UNCHANGED lock
  \/ Goto(c, "trying", "held") /\ lock' = 0

(* spin_trylock: xchgb with 0.                                             *)
TryLock(c) ==
  /\ lock' = 0
  /\ Goto(c, "free", IF lock > 0 THEN "held" ELSE "free")

(* Mutant of Unlock: counted up like a semaphore.                          *)
UnlockCounts(c) == Goto(c, "held", "free") /\ lock' = lock + 1

(* movb $1                                                                 *)
Unlock(c) == Goto(c, "held", "free") /\ lock' = 1

(* spin_unlock_wait: look until it is free, take nothing.                  *)
UnlockWait(c) == Goto(c, "free", "wait") /\ UNCHANGED lock
WaitEnds(c) == ~IsLocked(lock) /\ Goto(c, "wait", "free") /\ UNCHANGED lock

Next == \E c \in Cpus : Try(c) \/ Spin(c) \/ TryLock(c) \/ Unlock(c) \/ UnlockWait(c) \/ WaitEnds(c)

Spec == Init /\ [][Next]_vars
-----------------------------------------------------------------------------
TypeOK ==
  /\ lock \in -Half .. Half - 1
  /\ pc \in [Cpus -> {"free", "spin", "retry", "held", "wait"}]

(* The byte does not come round: one that counts below its least value     *)
(* would be positive and let a second CPU in (spinlock.h:46-57).           *)
CountsSpinners ==
  /\ lock <= 1
  /\ lock >= 1 - Cardinality({c \in Cpus : pc[c] \in {"spin", "held"}})
  /\ lock = 1 <=> \A c \in Cpus : pc[c] # "held"

(* The lock implements exclusion (spinlock.h:16).                          *)
ImplementsExclusion ==
  INSTANCE Exclusion WITH readers <- {}, writers <- {c \in Cpus : pc[c] = "held"}
Excludes == ImplementsExclusion!Spec
=============================================================================
