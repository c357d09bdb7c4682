----------------------------- MODULE Exclusion ------------------------------
(***************************************************************************)
(* What a lock for readers and writers promises: any number of readers or  *)
(* one writer, each entering and leaving on its own.  A lock without       *)
(* readers is one whose readers stay empty.                                *)
(***************************************************************************)
VARIABLES readers, writers

Init == readers = {} /\ writers = {}

BeginRead == writers = {} /\ writers' = {} /\ \E p \in readers' \ readers : readers' = readers \union {p}
BeginWrite == readers = {} /\ writers = {} /\ readers' = {} /\ \E p \in writers' : writers' = {p}
EndRead == writers' = writers /\ \E p \in readers : readers' = readers \ {p}
EndWrite == readers' = readers /\ \E p \in writers : writers' = writers \ {p}

Next == BeginRead \/ BeginWrite \/ EndRead \/ EndWrite

Spec == Init /\ [][Next]_<<readers, writers>>
=============================================================================
