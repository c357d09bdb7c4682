------------------------------- MODULE Lists -------------------------------
(***************************************************************************)
(* What lists promise to their users: sequences of entries, each entry in  *)
(* one of them at most, joined by inserting, removing and splicing.        *)
(***************************************************************************)
EXTENDS Sequences, SequencesExt

CONSTANTS Heads, Entries
VARIABLE lists

Init == lists = [h \in Heads |-> <<>>]

Used == UNION {Range(lists[h]) : h \in Heads}

Insert == \E h \in Heads, e \in Entries \ Used : \E i \in 1 .. Len(lists[h]) + 1 :
  lists' = [lists EXCEPT ![h] = InsertAt(@, i, e)]

Delete == \E h \in Heads : \E i \in DOMAIN lists[h] :
  lists' = [lists EXCEPT ![h] = RemoveAt(@, i)]

Splice == \E from, to \in Heads : \E i \in 0 .. Len(lists[to]) :
  /\ from # to
  /\ lists' = [lists EXCEPT ![from] = <<>>,
       ![to] = SubSeq(@, 1, i) \o lists[from] \o SubSeq(@, i + 1, Len(@))]

Next == Insert \/ Delete \/ Splice

Spec == Init /\ [][Next]_lists
=============================================================================
