------------------------------ MODULE MCGunzip ------------------------------
(***************************************************************************)
(* Images of a few bytes of compressed data, whole, truncated and with one *)
(* wrong field; the narrowest and the widest tables and extra bits.        *)
(***************************************************************************)
EXTENDS Gunzip

CONSTANTS MaxData  (* bound: bytes of compressed data                      *)

Image(x, nm, c, d, cut, bad) ==
  [extra |-> x, name |-> nm, comment |-> c, data |-> d, bad |-> bad,
   len |-> 10 + x + nm + c + d + 8 - cut]

MCFiles ==
  {Image(0, 0, 0, d, 0, "none") : d \in {1, 2, MaxData}}
    \union {Image(0, 0, 0, MaxData, cut, "none") : cut \in {1, 9}}
    \union {Image(2, 3, 1, 1, cut, "none") : cut \in {0, 1, 7} \union 8 .. 22}
    \union {Image(0, 2, 0, 1, 0, bad) : bad \in Fields}
=============================================================================
