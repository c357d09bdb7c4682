----------------------------- MODULE Structures ------------------------------
(***************************************************************************)
(* The linked structures, one of them at a time: "part" says which of them *)
(* a behaviour is about, the others stay as they began.                    *)
(***************************************************************************)
EXTENDS Integers, FiniteSets, TLC

CONSTANTS
  Heads, Entries, Junk,
  Tasks, init_task, NULL, Pids, HashBits,
  PAGE_SHIFT, PGDIR_SHIFT, PTRS, Addresses, FRAME, Frames, SwapTypes, SwapOffsets,
  VmFlags

VARIABLES
  part,
  lnext, lprev, lstale, lwalk,
  tstate, tpid, tlink, thash, thash_next, thash_pprev,
  ppgd, ptables, pspace

List == INSTANCE LinkedList WITH
  next <- lnext, prev <- lprev, stale <- lstale, walk <- lwalk

Task == INSTANCE TaskLinks WITH
  state <- tstate, pid <- tpid, link <- tlink,
  pidhash <- thash, pidhash_next <- thash_next, pidhash_pprev <- thash_pprev

Table == INSTANCE PageTable WITH
  pgd <- ppgd, tables <- ptables, space <- pspace

ASSUME Sizes == List!NodesOK /\ Task!InitOK /\ Task!HashOK /\ Table!LayoutOK

listvars == <<lnext, lprev, lstale, lwalk>>
taskvars == <<tstate, tpid, tlink, thash, thash_next, thash_pprev>>
tablevars == <<ppgd, ptables, pspace>>
vars == <<part, listvars, taskvars, tablevars>>

Init ==
  /\ part \in {"list", "task", "table"}
  /\ List!Init /\ Task!Init /\ Table!Init

Next ==
  /\ part' = part
  /\ \/ part = "list" /\ List!Next /\ UNCHANGED <<taskvars, tablevars>>
     \/ part = "task" /\ Task!Next /\ UNCHANGED <<listvars, tablevars>>
     \/ part = "table" /\ Table!Next /\ UNCHANGED <<listvars, taskvars>>

Spec == Init /\ [][Next]_vars

Symmetry == Permutations(Heads) \union Permutations(Entries) \union Permutations(Tasks)
-----------------------------------------------------------------------------
(* What is linked is found, all of it and nothing else: entries of lists,  *)
(* under a traversal that deletes (list.h), tasks by pid, in the ring and  *)
(* in families (sched.h), pages by their addresses (pgtable.h).            *)
Linked ==
  /\ List!TypeOK /\ List!Circular /\ List!WalkComplete
  /\ Task!TypeOK /\ Task!FindsByPid /\ Task!EachTask /\ Task!Family
  /\ Table!WalkAgrees

(* The pointers of list.h implement sequences (list.h:35-133).             *)
Refines == List!Refines
=============================================================================
