----------------------------- MODULE LinkedList -----------------------------
(***************************************************************************)
(* include/linux/list.h: circular lists through struct list_head, the      *)
(* heads nodes like the entries, and a list_for_each() whose body changes  *)
(* the lists between its steps.                                            *)
(***************************************************************************)
EXTENDS Integers, FiniteSets, Sequences

CONSTANTS Heads, Entries, Junk (* a pointer nobody has set                 *)

Nodes == Heads \union Entries
NodesOK == Heads \intersect Entries = {} /\ Junk \notin Nodes /\ IsFiniteSet(Nodes)

VARIABLES
  next, prev,
  stale,  (* heads whose entries were spliced elsewhere, not yet reset     *)
  walk    (* list_for_each: its head and pos, the entries it has been at   *)
          (* (saw) and those in the list since it began (must)             *)

vars == <<next, prev, stale, walk>>

NoWalk == [head |-> Junk, pos |-> Junk, saw |-> {}, must |-> {}]

(* LIST_HEAD_INIT for the heads.                                           *)
Init ==
  /\ next = [n \in Nodes |-> IF n \in Heads THEN n ELSE Junk]
  /\ prev = next
  /\ stale = {} /\ walk = NoWalk

(* The node i steps from n.                                                *)
Steps(n, i) == LET f[j \in Nat] == IF j = 0 THEN n ELSE next[f[j - 1]] IN f[i]

(* The entries of a list, in the order list_for_each finds them.           *)
Items(h) ==
  LET limit == Cardinality(Nodes)
      end == CHOOSE i \in 1 .. limit :
        /\ Steps(h, i) = h \/ i = limit
        /\ \A j \in 1 .. i - 1 : Steps(h, j) # h
  IN IF h \in stale THEN <<>> ELSE [i \in 1 .. end - 1 |-> Steps(h, i)]

ItemSet(h) == {Items(h)[i] : i \in DOMAIN Items(h)}
Linked == (Heads \ stale) \union UNION {ItemSet(h) : h \in Heads}

Walking == walk # NoWalk

(* Mutant of Between: the new entry's back pointer is forgotten.           *)
BetweenForward(new, p, n) ==
  /\ next' = [next EXCEPT ![new] = n, ![p] = new]
  /\ prev' = [prev EXCEPT ![n] = new]

(* __list_add                                                              *)
Between(new, p, n) ==
  /\ next' = [next EXCEPT ![new] = n, ![p] = new]
  /\ prev' = [prev EXCEPT ![n] = new, ![new] = p]

(* Not into two lists, and not while a walk still has to leave it.         *)
MayAdd(e) == e \notin Linked /\ e # walk.pos

ListAdd(e, at) == MayAdd(e) /\ Between(e, at, next[at]) /\ UNCHANGED <<stale, walk>>
ListAddTail(e, at) == MayAdd(e) /\ Between(e, prev[at], at) /\ UNCHANGED <<stale, walk>>

(* The body of a walk may take its own entry out, or other entries; having *)
(* taken out its own it keeps its hands off the following one.             *)
MayDelete(e) == e \in Linked \ Heads /\ (walk.pos \in Entries \ Linked => e # next[walk.pos])

Forget(e) == walk' = [walk EXCEPT !.saw = @ \ {e}, !.must = @ \ {e}]

(* Mutant of Unlink: the pointers are read after they changed.             *)
UnlinkSlow(p, n) ==
  /\ prev' = [prev EXCEPT ![n] = p]
  /\ next' = [next EXCEPT ![p] = next[n]]

(* __list_del                                                              *)
Unlink(p, n) ==
  /\ prev' = [prev EXCEPT ![n] = p]
  /\ next' = [next EXCEPT ![p] = n]

(* Mutant of ListDel: the entry is reset, as list_del_init() does.         *)
ListDelReset(e) ==
  /\ MayDelete(e) /\ Forget(e)
  /\ prev' = [[prev EXCEPT ![next[e]] = prev[e]] EXCEPT ![e] = e]
  /\ next' = [[next EXCEPT ![prev[e]] = next[e]] EXCEPT ![e] = e]
  /\ UNCHANGED stale

(* Mutant of ListDel: the entry no longer points into the list.            *)
ListDelPoisoned(e) ==
  /\ MayDelete(e) /\ Forget(e)
  /\ prev' = [[prev EXCEPT ![next[e]] = prev[e]] EXCEPT ![e] = Junk]
  /\ next' = [[next EXCEPT ![prev[e]] = next[e]] EXCEPT ![e] = Junk]
  /\ UNCHANGED stale

ListDel(e) == MayDelete(e) /\ Unlink(prev[e], next[e]) /\ Forget(e) /\ UNCHANGED stale

(* A walk could never leave an entry that points at itself.                *)
ListDelInit(e) ==
  /\ MayDelete(e) /\ e # walk.pos /\ Forget(e)
  /\ prev' = [[prev EXCEPT ![next[e]] = prev[e]] EXCEPT ![e] = e]
  /\ next' = [[next EXCEPT ![prev[e]] = next[e]] EXCEPT ![e] = e]
  /\ UNCHANGED stale

ListEmpty(h) == next[h] = h

(* Mutant of Splice: list is used on as if it were empty.                  *)
SpliceReused(list, at) ==
  /\ list \in Heads \ stale /\ at \notin ItemSet(list) \union {list} /\ list # walk.head
  /\ ~ListEmpty(list)
  /\ next' = [next EXCEPT ![at] = next[list], ![prev[list]] = next[at]]
  /\ prev' = [prev EXCEPT ![next[list]] = at, ![next[at]] = prev[list]]
  /\ UNCHANGED <<stale, walk>>

(* list_splice: all of list after the node at of another.                  *)
Splice(list, at) ==
  /\ list \in Heads \ stale /\ at \notin ItemSet(list) \union {list} /\ list # walk.head
  /\ IF ListEmpty(list) THEN UNCHANGED <<next, prev, stale>>
     ELSE /\ next' = [next EXCEPT ![at] = next[list], ![prev[list]] = next[at]]
          /\ prev' = [prev EXCEPT ![next[list]] = at, ![next[at]] = prev[list]]
          /\ stale' = stale \union {list}
  /\ UNCHANGED walk

(* INIT_LIST_HEAD, the only use of a head that was spliced away.           *)
InitListHead(h) ==
  /\ h \in stale
  /\ next' = [next EXCEPT ![h] = h] /\ prev' = [prev EXCEPT ![h] = h]
  /\ stale' = stale \ {h} /\ UNCHANGED walk

BeginWalk(h) ==
  /\ ~Walking /\ h \notin stale
  /\ walk' = [head |-> h, pos |-> next[h], saw |-> {}, must |-> ItemSet(h)]
  /\ UNCHANGED <<next, prev, stale>>

(* The body has seen pos; pos = pos->next.                                 *)
StepWalk ==
  /\ Walking /\ walk.pos # walk.head
  /\ walk' = [walk EXCEPT !.pos = next[walk.pos], !.saw = @ \union ({walk.pos} \intersect Linked)]
  /\ UNCHANGED <<next, prev, stale>>

EndWalk == Walking /\ walk.pos = walk.head /\ walk' = NoWalk /\ UNCHANGED <<next, prev, stale>>

Next ==
  \/ \E e \in Entries : ListDel(e) \/ ListDelInit(e) \/ \E at \in Linked : ListAdd(e, at) \/ ListAddTail(e, at)
  \/ \E h \in Heads : InitListHead(h) \/ BeginWalk(h) \/ \E at \in Linked : Splice(h, at)
  \/ StepWalk \/ EndWalk

Spec == Init /\ [][Next]_vars
-----------------------------------------------------------------------------
TypeOK ==
  /\ next \in [Nodes -> Nodes \union {Junk}] /\ prev \in [Nodes -> Nodes \union {Junk}]
  /\ stale \subseteq Heads
  /\ walk = NoWalk \/ walk \in [head : Heads, pos : Nodes, saw : SUBSET Entries, must : SUBSET Entries]

(* Every linked node is between its neighbours in both directions, and no  *)
(* linked node leads to one that is not (list.h:35-133).                   *)
Circular == \A n \in Linked :
  next[n] \in Linked /\ prev[n] \in Linked /\ prev[next[n]] = n /\ next[prev[n]] = n

(* Every operation does to the lists what it promises and nothing else;    *)
(* in particular no entry is lost, doubled or in two lists.                *)
ImplementsLists == INSTANCE Lists WITH lists <- [h \in Heads |-> Items(h)]
Refines == ImplementsLists!Spec

(* A walk stays on its list or stands on an entry just taken out of it, is *)
(* at no entry twice and, when it ends, has been at all that were in the   *)
(* list the whole time (list.h:149-150).                                   *)
WalkComplete == Walking =>
  /\ walk.pos \in Linked \/ next[walk.pos] \in ItemSet(walk.head) \union {walk.head}
  /\ walk.pos \in Linked => walk.pos \in ItemSet(walk.head) \union {walk.head}
  /\ walk.pos \notin walk.saw
  /\ walk.pos = walk.head => walk.must \subseteq walk.saw
=============================================================================
