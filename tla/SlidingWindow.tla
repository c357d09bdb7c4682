--------------------------- MODULE SlidingWindow ---------------------------
(***************************************************************************)
(* The output side of lib/inflate.c as arch/i386/boot/compressed/misc.c    *)
(* builds it: inflate_codes() and inflate_stored() write a window of WSIZE *)
(* bytes through a local position w, flush_window() appends the window to  *)
(* output_data each time it is full, and inflate() flushes what remains.   *)
(* Which symbols come is the compressed data's choice; Gunzip.tla has the  *)
(* input side.                                                             *)
(***************************************************************************)
EXTENDS Integers

CONSTANTS
  WSIZE,    (* bytes in the window, 0x8000 in misc.c                       *)
  Byte,     (* the byte values the model tells apart                       *)
  Zero,     (* what the window holds before it is written (BSS)            *)
  MaxLen,   (* the longest length a code gives, 258 in cplens/cplext       *)
  MaxOut    (* bound: bytes the stream may produce                         *)

ASSUME ConstantsOK ==
  /\ WSIZE \in Nat \ {0}
  /\ Zero \in Byte
  /\ MaxLen \in Nat
  /\ MaxOut \in Nat

VARIABLES
  window,       (* `slide' in inflate.c                                    *)
  wp,           (* the global position, a macro for misc.c's outcnt        *)
  w,            (* the local copy of wp the block decoders work on         *)
  n,            (* bytes left of a copy, or of a stored block              *)
  d,            (* where the copy reads next                               *)
  e,            (* bytes left of the piece being copied byte by byte       *)
  dist,         (* the distance decoded last (history: the code drops it)  *)
  output_data,  (* the bytes at output_data[0 .. output_ptr - 1]           *)
  output_ptr,
  pc,           (* where the decoder is                                    *)
  halted        (* error() was reached: while(1)                           *)

vars ==
  <<window, wp, w, n, d, e, dist, output_data, output_ptr, pc, halted>>

Slots == 0 .. (WSIZE - 1)

(* d &= WSIZE-1 on a 32-bit unsigned d; d is less than WSIZE away from the *)
(* window on either side, and WSIZE divides 2^32.                          *)
Mask(x) == IF x < 0 THEN x + WSIZE ELSE IF x < WSIZE THEN x ELSE x - WSIZE

(* Mutant of Room: the last slot of the window is never copied to.         *)
RoomButOne(s) == WSIZE - 1 - (IF s > w THEN s ELSE w)

(* How far the longest piece of a copy from slot s to slot w may go.       *)
Room(s) == WSIZE - (IF s > w THEN s ELSE w)

Init ==
  /\ window = [i \in Slots |-> Zero]
  /\ wp = 0
  /\ w = 0
  /\ n = 0
  /\ d = 0
  /\ e = 0
  /\ dist \in 1 .. WSIZE
  /\ output_data = [i \in 0 .. -1 |-> Zero]
  /\ output_ptr = 0
  /\ pc = "inflate"
  /\ halted = FALSE

(* Mutant of flush_window: the window is always flushed as a whole.        *)
FlushWhole(win, cnt) ==
  /\ output_data' = [i \in 0 .. (output_ptr + WSIZE - 1) |->
                       IF i < output_ptr THEN output_data[i]
                                         ELSE win[i - output_ptr]]
  /\ output_ptr' = output_ptr + WSIZE
  /\ wp' = 0

(* flush_window_low(): the first `cnt' bytes of the window go to the end   *)
(* of output_data, and outcnt, that is wp, becomes 0.                      *)
flush_window(win, cnt) ==
  /\ output_data' = [i \in 0 .. (output_ptr + cnt - 1) |->
                       IF i < output_ptr THEN output_data[i]
                                         ELSE win[i - output_ptr]]
  /\ output_ptr' = output_ptr + cnt
  /\ wp' = 0

(* Mutant of Advance: the window is flushed when it has overflown.         *)
AdvanceLate(win, p) ==
  /\ window' = win
  /\ \/ /\ p > WSIZE
        /\ flush_window(win, p)
        /\ w' = 0
     \/ /\ p <= WSIZE
        /\ w' = p
        /\ UNCHANGED <<output_data, output_ptr, wp>>

(* The window is now `win' with the local position at p: flush if full.    *)
Advance(win, p) ==
  /\ window' = win
  /\ \/ /\ p = WSIZE
        /\ flush_window(win, p)
        /\ w' = 0
     \/ /\ p # WSIZE
        /\ w' = p
        /\ UNCHANGED <<output_data, output_ptr, wp>>

(* inflate_codes() is entered: the globals are copied into locals.         *)
BeginCodes ==
  /\ pc = "inflate"
  /\ pc' = "codes"
  /\ w' = wp
  /\ UNCHANGED <<window, wp, n, d, e, dist, output_data, output_ptr, halted>>

(* e == 16: the code is a literal.                                         *)
Literal(c) ==
  /\ pc = "codes"
  /\ output_ptr + w < MaxOut
  /\ Advance([window EXCEPT ![w] = c], w + 1)
  /\ UNCHANGED <<n, d, e, dist, pc, halted>>

(* Mutant of Pointer: the distance counts from the last byte written.      *)
PointerFromLast(len, back) ==
  /\ pc = "codes"
  /\ output_ptr + w + len <= MaxOut
  /\ n' = len
  /\ d' = w - 1 - back
  /\ dist' = back
  /\ pc' = "copy"
  /\ UNCHANGED <<window, wp, w, e, output_data, output_ptr, halted>>

(* A length and then a distance are decoded.                               *)
Pointer(len, back) ==
  /\ pc = "codes"
  /\ output_ptr + w + len <= MaxOut
  /\ n' = len
  /\ d' = w - back
  /\ dist' = back
  /\ pc' = "copy"
  /\ UNCHANGED <<window, wp, w, e, output_data, output_ptr, halted>>

(* One turn of the copy loop whose piece does not overlap itself, or whose *)
(* source lies ahead: memcpy(), which misc.c writes as a forward loop.     *)
CopyPiece ==
  LET s == Mask(d)
      len == IF Room(s) > n THEN n ELSE Room(s)
  IN  /\ pc = "copy"
      /\ s > w \/ w - s >= len
      /\ Advance([i \in Slots |->
                    IF i \in w .. (w + len - 1) THEN window[s + (i - w)]
                                                ELSE window[i]], w + len)
      /\ n' = n - len
      /\ d' = s + len
      /\ pc' = IF n = len THEN "codes" ELSE "copy"
      /\ UNCHANGED <<e, dist, halted>>

(* One turn whose piece overlaps its own source: byte by byte.             *)
BeginSlow ==
  LET s == Mask(d)
      len == IF Room(s) > n THEN n ELSE Room(s)
  IN  /\ pc = "copy"
      /\ s <= w /\ w - s < len
      /\ e' = len
      /\ n' = n - len
      /\ d' = s
      /\ pc' = "slow"
      /\ UNCHANGED <<window, wp, w, dist, output_data, output_ptr, halted>>

(* slide[w++] = slide[d++], and the flush test after the last byte.        *)
CopyByte ==
  /\ pc = "slow"
  /\ e' = e - 1
  /\ d' = d + 1
  /\ \/ /\ e > 1
        /\ window' = [window EXCEPT ![w] = window[d]]
        /\ w' = w + 1
        /\ pc' = "slow"
        /\ UNCHANGED <<output_data, output_ptr, wp>>
     \/ /\ e = 1
        /\ Advance([window EXCEPT ![w] = window[d]], w + 1)
        /\ pc' = IF n = 0 THEN "codes" ELSE "copy"
  /\ UNCHANGED <<n, dist, halted>>

(* Mutant of EndBlock: the local position is not written back to wp.       *)
EndBlockKeepsWp ==
  /\ pc = "codes" \/ (pc = "stored" /\ n = 0)
  /\ pc' = "inflate"
  /\ UNCHANGED <<window, wp, w, n, d, e, dist, output_data, output_ptr, halted>>

(* The end-of-block code, or the end of a stored block: back to globals.   *)
EndBlock ==
  /\ pc = "codes" \/ (pc = "stored" /\ n = 0)
  /\ pc' = "inflate"
  /\ wp' = w
  /\ UNCHANGED <<window, w, n, d, e, dist, output_data, output_ptr, halted>>

(* inflate_stored() with a length of len, complement checked.              *)
BeginStored(len) ==
  /\ pc = "inflate"
  /\ output_ptr + wp + len <= MaxOut
  /\ pc' = "stored"
  /\ w' = wp
  /\ n' = len
  /\ UNCHANGED <<window, wp, d, e, dist, output_data, output_ptr, halted>>

StoredByte(c) ==
  /\ pc = "stored" /\ n > 0
  /\ n' = n - 1
  /\ Advance([window EXCEPT ![w] = c], w + 1)
  /\ UNCHANGED <<d, e, dist, pc, halted>>

(* inflate(): the last block is done, the rest of the window is flushed.   *)
Finish ==
  /\ pc = "inflate"
  /\ flush_window(window, wp)
  /\ pc' = "done"
  /\ UNCHANGED <<window, w, n, d, e, dist, halted>>

(* A bad block type, stored length or code: gunzip() calls error().  No    *)
(* global was written back, and nothing runs after it.                     *)
Fail ==
  /\ pc \in {"inflate", "codes", "stored"}
  /\ halted' = TRUE
  /\ UNCHANGED <<window, wp, w, n, d, e, dist, output_data, output_ptr, pc>>

Step ==
  \/ BeginCodes
  \/ \E c \in Byte : Literal(c)
  \/ \E len \in 1 .. MaxLen, back \in 1 .. WSIZE : Pointer(len, back)
  \/ CopyPiece
  \/ BeginSlow
  \/ CopyByte
  \/ EndBlock
  \/ \E len \in 0 .. MaxLen : BeginStored(len)
  \/ \E c \in Byte : StoredByte(c)
  \/ Finish
  \/ Fail

Next == ~halted /\ Step

Spec == Init /\ [][Next]_vars

(* The decoder is sequential code on a CPU that keeps running: a copy that *)
(* can go on does.  Nothing is assumed of the data.                        *)
FairSpec == Spec /\ WF_vars(~halted /\ (CopyPiece \/ BeginSlow \/ CopyByte))
-----------------------------------------------------------------------------
(* The local position while a block is decoded, the global one otherwise.  *)
pos == IF pc = "inflate" THEN wp ELSE IF pc = "done" THEN 0 ELSE w

TypeOK ==
  /\ window \in [Slots -> Byte]
  /\ wp \in Slots /\ w \in Slots
  /\ n \in Nat /\ e \in Nat
  /\ d \in (-WSIZE) .. WSIZE
  /\ dist \in 1 .. WSIZE
  /\ output_ptr \in Nat
  /\ output_data \in [0 .. (output_ptr - 1) -> Byte]
  /\ pc \in {"inflate", "codes", "copy", "slow", "stored", "done"}
  /\ halted \in BOOLEAN

(* A position of the history before the window's bytes: flushed, or BSS.   *)
Flushed(i) == IF i < 0 THEN Zero ELSE output_data[i]

(* The slots at and after the current position hold the flushed bytes that *)
(* are still within WSIZE of it, so that any legal distance finds its byte *)
(* in the window: what lets inflate_codes() (lib/inflate.c:585-606) read   *)
(* back data that has already been flushed.                                *)
WindowIsHistory ==
  pc # "done" =>
    /\ output_ptr = 0 \/ output_ptr >= WSIZE
    /\ \A j \in Slots : j >= pos => window[j] = Flushed(output_ptr - WSIZE + j)

(* During a copy d is the slot `dist' bytes back, the loop still owes      *)
(* something, and a byte-by-byte piece ends inside the window: the do      *)
(* loops of lib/inflate.c:586-606 are never entered with nothing to do.    *)
CopyInBounds ==
  /\ pc = "copy" => n > 0 /\ Mask(d) = Mask(w - dist)
  /\ pc = "slow" => e > 0 /\ w + e <= WSIZE /\ d <= w /\ d = Mask(w - dist)

(* The conjunction is inductive.                                           *)
IInv == TypeOK /\ WindowIsHistory /\ CopyInBounds

(* The stream that flushed bytes and window represent together.            *)
histBar ==
  [i \in 0 .. (output_ptr + pos - 1) |->
     IF i < output_ptr THEN output_data[i] ELSE window[i - output_ptr]]

Abs == INSTANCE Lz77 WITH
  MaxDist <- WSIZE,
  hist <- histBar,
  size <- output_ptr + pos,
  left <- IF pc = "copy" THEN n ELSE IF pc = "slow" THEN n + e ELSE 0,
  dist <- dist,
  open <- pc # "done"

(* The window, its flushes, the wrap-around of copies and the two ways of  *)
(* copying deliver exactly the stream the codes describe (Lz77).           *)
ImplementsLz77 == Abs!Spec

(* Every length/distance pair is copied to its end: no piece of the copy   *)
(* loop is empty.                                                          *)
CopyEnds == pc = "copy" ~> pc = "codes"
=============================================================================
