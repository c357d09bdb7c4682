---------------------------- MODULE MCHuftBuild ----------------------------
(***************************************************************************)
(* Every list of up to MaxCodes lengths up to MaxBits, and ten codes of up *)
(* to nine bits, whose tables go three levels deep with lookups of four.   *)
(***************************************************************************)
EXTENDS HuftBuild

CONSTANTS MaxCodes, MaxBits

Steps == <<1, 2, 3, 4, 5, 6, 7, 8, 9, 9>>
Deep == {[q \in 0 .. 9 |-> Steps[((q + r) % 10) + 1]] : r \in 0 .. 9}
MCLists == Deep \union UNION {[0 .. (n - 1) -> 0 .. MaxBits] : n \in 1 .. MaxCodes}
=============================================================================
