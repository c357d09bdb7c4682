------------------------------- MODULE Pages --------------------------------
(***************************************************************************)
(* A page of linux/mm.h: its reference count, its lock bit with the tasks  *)
(* that wait for it, and the flags of its contents.  The counter           *)
(* operations of asm/atomic.h are one instruction each; unlocking a page is*)
(* three steps, and so is waiting for it.                                  *)
(***************************************************************************)
EXTENDS Integers, FiniteSets

CONSTANT Procs

ProcsOK == IsFiniteSet(Procs)

VARIABLES
  count,
  flags,   (* of PG_locked, PG_uptodate and PG_error                       *)
  pc,
  wait,    (* page->wait                                                   *)
  freed    (* the page was given back                                      *)

vars == <<count, flags, pc, wait, freed>>

Init ==
  /\ count = 0 /\ flags = {} /\ wait = {} /\ freed = TRUE
  /\ pc = [p \in Procs |-> "none"]

Goto(p, from, to) == pc[p] \in from /\ pc' = [pc EXCEPT ![p] = to]

(* alloc_page: set_page_count 1.                                           *)
Alloc(p) ==
  /\ freed /\ Goto(p, {"none"}, "has")
  /\ count' = 1 /\ flags' = {} /\ freed' = FALSE
  /\ UNCHANGED wait

(* get_page of a page found in the cache.                                  *)
Get(p) == count > 0 /\ Goto(p, {"none"}, "has") /\ count' = count + 1 /\ UNCHANGED <<flags, wait, freed>>

(* Mutant of Put: counted down, then looked at.                            *)
PutTwice(p) ==
  /\ UNCHANGED <<flags, wait>>
  /\ \/ Goto(p, {"has"}, "looking") /\ count' = count - 1 /\ UNCHANGED freed
     \/ Goto(p, {"looking"}, "none") /\ freed' = (count = 0) /\ UNCHANGED count

(* put_page_testzero: decl and sete; the last one frees the page.          *)
Put(p) ==
  /\ Goto(p, {"has"}, "none")
  /\ count' = count - 1 /\ freed' = (count' = 0)
  /\ UNCHANGED <<flags, wait>>

PageLocked == "locked" \in flags

(* TryLockPage: test_and_set_bit.                                          *)
TryLockPage(p) ==
  /\ Goto(p, {"has"}, IF PageLocked THEN "waits" ELSE "locked")
  /\ flags' = flags \union {"locked"}
  /\ UNCHANGED <<count, wait, freed>>

(* wait_on_page: queue, look, sleep; look again when woken.                *)
Queue(p) == Goto(p, {"waits"}, "looks") /\ wait' = wait \union {p} /\ UNCHANGED <<count, flags, freed>>
Look(p) == Goto(p, {"looks"}, IF PageLocked THEN "asleep" ELSE "leaves") /\ UNCHANGED <<count, flags, wait, freed>>
Leave(p) == Goto(p, {"leaves"}, "has") /\ wait' = wait \ {p} /\ UNCHANGED <<count, flags, freed>>

(* The end of input or output: SetPageUptodate, or SetPageError.           *)
Complete(p, flag) ==
  /\ Goto(p, {"locked"}, "done")
  /\ flags' = (flags \ {"uptodate", "error"}) \union {flag}
  /\ UNCHANGED <<count, wait, freed>>

(* UnlockPage: test_and_clear_bit, which finds it set or is a BUG();       *)
(* waitqueue_active; wake_up, which wakes all that do not wait exclusively.*)
Clear(p) == Goto(p, {"done"}, "cleared") /\ flags' = flags \ {"locked"} /\ UNCHANGED <<count, wait, freed>>
Check(p) == Goto(p, {"cleared"}, IF wait # {} THEN "wakes" ELSE "has") /\ UNCHANGED <<count, flags, wait, freed>>
Wake(p) ==
  /\ pc[p] = "wakes"
  /\ pc' = [q \in Procs |-> IF q = p THEN "has" ELSE IF pc[q] = "asleep" THEN "looks" ELSE pc[q]]
  /\ UNCHANGED <<count, flags, wait, freed>>

Go(p) ==
  \/ Queue(p) \/ Look(p) \/ Leave(p)
  \/ Complete(p, "uptodate") \/ Complete(p, "error") \/ Clear(p) \/ Check(p) \/ Wake(p)

Next == \E p \in Procs : Alloc(p) \/ Get(p) \/ Put(p) \/ TryLockPage(p) \/ Go(p)

Spec == Init /\ [][Next]_vars

(* What runs goes on.                                                      *)
Fairness == \A p \in Procs : WF_vars(Go(p))
-----------------------------------------------------------------------------
States == {"none", "has", "locked", "waits", "looks", "asleep", "leaves", "done", "cleared", "wakes"}

TypeOK ==
  /\ count \in 0 .. Cardinality(Procs) /\ freed \in BOOLEAN
  /\ flags \subseteq {"locked", "uptodate", "error"}
  /\ pc \in [Procs -> States] /\ wait \subseteq Procs

(* The page is given back exactly when the last reference is, and then     *)
(* nobody has it locked or waits for it; unlocking never finds it unlocked *)
(* (mm.h:150-154, 193).                                                    *)
Counted ==
  /\ count = Cardinality({p \in Procs : pc[p] # "none"})
  /\ freed <=> count = 0
  /\ freed => wait = {} /\ ~PageLocked
  /\ PageLocked <=> \E p \in Procs : pc[p] \in {"locked", "done"}

(* The lock bit implements exclusion (mm.h:183, 191-197).                  *)
ImplementsExclusion ==
  INSTANCE Exclusion WITH readers <- {}, writers <- {p \in Procs : pc[p] \in {"locked", "done"}}
Excludes == ImplementsExclusion!Spec

(* Who sleeps on a page that is not locked is still to be woken by the one *)
(* that unlocked it (mm.h:185-197).                                        *)
NoLostWakeup ==
  (\E p \in Procs : pc[p] = "asleep") /\ ~PageLocked => \E p \in Procs : pc[p] \in {"cleared", "wakes"}

(* Input and output that ends wakes whoever waits for it (mm.h:185-197).   *)
Served == \A p \in Procs : pc[p] = "asleep" ~> pc[p] # "asleep"
=============================================================================
