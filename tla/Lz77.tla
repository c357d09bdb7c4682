-------------------------------- MODULE Lz77 --------------------------------
(***************************************************************************)
(* What lib/inflate.c promises its caller, with no window in it: the       *)
(* decompressed data is one growing history.  A literal appends a byte, a  *)
(* length/distance pair appends bytes that each equal the byte `dist'      *)
(* positions before them, so a copy may read what it has just written.     *)
(* The window of misc.c lives in the BSS that compressed/head.S clears:    *)
(* a distance that reaches before the first byte reads Zero.               *)
(***************************************************************************)
EXTENDS Integers

CONSTANTS
  Byte,     (* the byte values the model tells apart                       *)
  Zero,     (* the one a cleared BSS holds                                 *)
  MaxDist,  (* the farthest a distance reaches back                        *)
  MaxLen    (* the longest copy                                            *)

VARIABLES
  hist,     (* the bytes produced so far, a function on 0 .. size - 1      *)
  size,
  left,     (* bytes the current copy still owes                           *)
  dist,     (* its distance                                                *)
  open      (* FALSE once the stream has been handed over in full          *)

absVars == <<hist, size, left, dist, open>>

(* The byte at a position of the history h; before its start lies BSS.     *)
Before(h, i) == IF i < 0 THEN Zero ELSE h[i]

(* h2 is h, of length m, with e bytes more, each equal to the one d back.  *)
Extends(h, m, h2, d, e) ==
  /\ DOMAIN h2 = 0 .. (m + e - 1)
  /\ \A i \in 0 .. (m - 1) : h2[i] = h[i]
  /\ \A i \in m .. (m + e - 1) : h2[i] = Before(h2, i - d)

Init ==
  /\ hist = [i \in 0 .. -1 |-> Zero]
  /\ size = 0
  /\ left = 0
  /\ dist \in 1 .. MaxDist
  /\ open = TRUE

(* A literal of a Huffman coded block, or a byte of a stored one.          *)
Put(c) ==
  /\ open /\ left = 0
  /\ hist' = [i \in 0 .. size |-> IF i < size THEN hist[i] ELSE c]
  /\ size' = size + 1
  /\ UNCHANGED <<left, dist, open>>

(* A length/distance pair is decoded; nothing is copied yet.               *)
Point(n, d) ==
  /\ open /\ left = 0
  /\ left' = n
  /\ dist' = d
  /\ UNCHANGED <<hist, size, open>>

(* Part of the copy, in whatever pieces the implementation likes.          *)
Copy(e) ==
  /\ open
  /\ Extends(hist, size, hist', dist, e)
  /\ size' = size + e
  /\ left' = left - e
  /\ UNCHANGED <<dist, open>>

(* The stream is complete, the whole of it is in the caller's buffer.      *)
Close ==
  /\ open /\ left = 0
  /\ open' = FALSE
  /\ UNCHANGED <<hist, size, left, dist>>

Next ==
  \/ \E c \in Byte : Put(c)
  \/ \E n \in 1 .. MaxLen, d \in 1 .. MaxDist : Point(n, d)
  \/ \E e \in 1 .. left : Copy(e)
  \/ Close

Spec == Init /\ [][Next]_absVars
=============================================================================
