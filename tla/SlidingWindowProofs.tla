------------------------- MODULE SlidingWindowProofs -------------------------
(***************************************************************************)
(* For every window size, byte set and bounds: the inductive invariant of  *)
(* SlidingWindow, and that it implements Lz77.                             *)
(***************************************************************************)
EXTENDS SlidingWindow, TLAPS

Decoding == {"codes", "copy", "slow", "stored"}

(* flush_window(), lib/inflate.c's flush_output: appending cnt bytes of a  *)
(* window leaves output_data a byte array of the new length.               *)
LEMMA FlushType ==
  ASSUME ConstantsOK, TypeOK, NEW win \in [Slots -> Byte],
         NEW cnt \in 0 .. WSIZE, flush_window(win, cnt)
  PROVE  /\ output_ptr' \in Nat
         /\ output_data' \in [0 .. (output_ptr' - 1) -> Byte]
         /\ wp' \in Slots
<1>1. /\ output_ptr \in Nat /\ cnt \in Nat /\ WSIZE \in Nat
      /\ output_ptr' = output_ptr + cnt
  BY DEF TypeOK, ConstantsOK, flush_window
<1>2. wp' \in Slots
  BY DEF ConstantsOK, flush_window, Slots
<1>. DEFINE At(i) == IF i < output_ptr THEN output_data[i] ELSE win[i - output_ptr]
<1>3. ASSUME NEW i \in 0 .. (output_ptr + cnt - 1)
      PROVE  At(i) \in Byte
  <2>1. CASE i < output_ptr
    BY <2>1 DEF TypeOK
  <2>2. CASE ~(i < output_ptr)
    <3>1. i - output_ptr \in Slots
      BY <1>1, <2>2 DEF Slots
    <3>. QED BY <2>2, <3>1
  <2>. QED BY <2>1, <2>2
<1>4. output_data' = [i \in 0 .. (output_ptr + cnt - 1) |-> At(i)]
  BY DEF flush_window
<1>. HIDE DEF At
<1>5. output_data' \in [0 .. (output_ptr + cnt - 1) -> Byte]
  BY <1>3, <1>4
<1>. QED BY <1>1, <1>2, <1>5

(* Writing the window up to p and flushing it when p is its end keeps the  *)
(* flushed bytes that are still in reach behind the new position.          *)
LEMMA AdvanceKeeps ==
  ASSUME ConstantsOK, TypeOK, WindowIsHistory,
         pc \in Decoding, pc' \in Decoding,
         NEW win \in [Slots -> Byte], NEW p \in (w + 1) .. WSIZE,
         \A j \in Slots : j >= p => win[j] = window[j],
         Advance(win, p)
  PROVE  /\ window' \in [Slots -> Byte]
         /\ wp' \in Slots /\ w' \in Slots
         /\ output_ptr' \in Nat
         /\ output_data' \in [0 .. (output_ptr' - 1) -> Byte]
         /\ WindowIsHistory'
<1>1. CASE p = WSIZE /\ flush_window(win, p) /\ w' = 0 /\ window' = win
  <2>1. /\ output_ptr' \in Nat
        /\ output_data' \in [0 .. (output_ptr' - 1) -> Byte]
        /\ wp' \in Slots
    BY <1>1, FlushType DEF ConstantsOK
  <2>2. w' \in Slots /\ pos' = 0 /\ output_ptr' = output_ptr + WSIZE
    BY <1>1 DEF ConstantsOK, Slots, pos, Decoding, flush_window
  <2>3. ASSUME NEW j \in Slots
        PROVE window'[j] = Flushed(output_ptr - WSIZE + j)'
    <3>1. (output_ptr' - WSIZE + j) = output_ptr + j
      BY <2>2 DEF ConstantsOK, TypeOK, Slots
    <3>2. output_data'[output_ptr + j] = win[j]
      BY <1>1 DEF flush_window, ConstantsOK, TypeOK, Slots
    <3>3. ~((output_ptr - WSIZE + j)' < 0)
      BY <3>1 DEF TypeOK, Slots
    <3>. QED BY <1>1, <3>1, <3>2, <3>3 DEF Flushed
  <2>4. output_ptr' >= WSIZE
    BY <2>2 DEF TypeOK, ConstantsOK
  <2>. QED BY <1>1, <2>1, <2>2, <2>3, <2>4 DEF WindowIsHistory
<1>2. CASE /\ p # WSIZE /\ w' = p /\ window' = win
           /\ UNCHANGED <<output_data, output_ptr, wp>>
  <2>1. w' \in Slots /\ wp' \in Slots /\ pos' = p /\ pos = w
    BY <1>2 DEF ConstantsOK, TypeOK, Slots, pos, Decoding
  <2>2. \A j \in Slots : j >= p => win[j] = Flushed(output_ptr - WSIZE + j)
    BY <2>1 DEF WindowIsHistory, Slots, Decoding, TypeOK
  <2>. QED BY <1>2, <2>1, <2>2 DEF WindowIsHistory, TypeOK, Flushed, Decoding
<1>. QED BY <1>1, <1>2 DEF Advance

(* Masking a slot that is less than WSIZE away lands in the window.        *)
LEMMA MaskInWindow ==
  ASSUME ConstantsOK, NEW x \in (-WSIZE) .. WSIZE
  PROVE  /\ Mask(x) \in Slots
         /\ Mask(Mask(x)) = Mask(x)
BY DEF ConstantsOK, Mask, Slots

(* The position moves by k on both sides of a distance: the masked source  *)
(* stays the right one, also where the position wraps to 0.                *)
LEMMA MaskStep ==
  ASSUME ConstantsOK, NEW p \in Slots, NEW back \in 1 .. WSIZE, NEW k \in Nat,
         p + k <= WSIZE, Mask(p - back) + k <= WSIZE
  PROVE  LET q == IF p + k = WSIZE THEN 0 ELSE p + k
         IN  Mask(Mask(p - back) + k) = Mask(q - back)
BY DEF ConstantsOK, Mask, Slots

(* The invariant holds initially: the window is the cleared BSS.           *)
LEMMA InitIInv == ConstantsOK /\ Init => IInv
<1> SUFFICES ASSUME ConstantsOK, Init PROVE IInv
  OBVIOUS
<1>1. TypeOK
  BY DEF ConstantsOK, Init, TypeOK, Slots
<1>2. WindowIsHistory
  BY DEF ConstantsOK, Init, WindowIsHistory, Slots, Flushed
<1>3. CopyInBounds
  BY DEF Init, CopyInBounds
<1>. QED BY <1>1, <1>2, <1>3 DEF IInv

(* One step of the decoder from a state that satisfies the invariant.      *)
LEMMA StepIInv == ConstantsOK /\ IInv /\ [Next]_vars => IInv'
<1> SUFFICES ASSUME ConstantsOK, IInv, [Next]_vars PROVE IInv'
  OBVIOUS
<1>. USE DEF Decoding
<1>1. /\ TypeOK /\ WindowIsHistory /\ CopyInBounds
      /\ WSIZE \in Nat /\ WSIZE > 0
  BY DEF IInv, ConstantsOK
<1>2. /\ window \in [Slots -> Byte]
      /\ wp \in Slots /\ w \in Slots /\ n \in Nat /\ e \in Nat
      /\ d \in (-WSIZE) .. WSIZE /\ dist \in 1 .. WSIZE
      /\ output_ptr \in Nat /\ halted \in BOOLEAN
      /\ w >= 0 /\ w < WSIZE
  BY <1>1 DEF TypeOK, Slots
<1>3. CASE BeginCodes
  <2>1. TypeOK'
    BY <1>1, <1>3 DEF BeginCodes, TypeOK
  <2>2. pos' = pos
    BY <1>3 DEF BeginCodes, pos
  <2>3. WindowIsHistory'
    BY <1>1, <1>3, <2>2 DEF BeginCodes, WindowIsHistory, Flushed
  <2>4. CopyInBounds'
    BY <1>3 DEF BeginCodes, CopyInBounds
  <2>. QED BY <2>1, <2>3, <2>4 DEF IInv
<1>4. ASSUME NEW c \in Byte, Literal(c) PROVE IInv'
  <2>. DEFINE win == [window EXCEPT ![w] = c]
  <2>1. /\ win \in [Slots -> Byte]
        /\ \A j \in Slots : j >= w + 1 => win[j] = window[j]
        /\ w + 1 \in (w + 1) .. WSIZE
    BY <1>2 DEF Slots
  <2>2. pc \in Decoding /\ pc' \in Decoding /\ Advance(win, w + 1)
    BY <1>4 DEF Literal
  <2>. HIDE DEF win
  <2>3. /\ window' \in [Slots -> Byte]
        /\ wp' \in Slots /\ w' \in Slots
        /\ output_ptr' \in Nat
        /\ output_data' \in [0 .. (output_ptr' - 1) -> Byte]
        /\ WindowIsHistory'
    BY <1>1, <2>1, <2>2, AdvanceKeeps
  <2>4. TypeOK' /\ CopyInBounds'
    BY <1>1, <1>4, <2>3 DEF Literal, TypeOK, CopyInBounds
  <2>. QED BY <2>3, <2>4 DEF IInv
<1>5. ASSUME NEW len \in 1 .. MaxLen, NEW back \in 1 .. WSIZE, Pointer(len, back)
      PROVE IInv'
  <2>1. TypeOK'
    <3>1. w - back \in (-WSIZE) .. WSIZE /\ len \in Nat
      BY <1>2 DEF Slots
    <3>. QED BY <1>1, <1>5, <3>1 DEF Pointer, TypeOK
  <2>2. WindowIsHistory'
    BY <1>1, <1>5 DEF Pointer, WindowIsHistory, Flushed, pos
  <2>3. CopyInBounds'
    BY <1>2, <1>5 DEF Pointer, CopyInBounds
  <2>. QED BY <2>1, <2>2, <2>3 DEF IInv
<1>6. CASE CopyPiece
  <2>. DEFINE s == Mask(d)
              len == IF Room(s) > n THEN n ELSE Room(s)
              win == [i \in Slots |-> IF i \in w .. (w + len - 1)
                                       THEN window[s + (i - w)] ELSE window[i]]
  <2>1. /\ pc = "copy" /\ n > 0 /\ s = Mask(w - dist) /\ s \in Slots
        /\ w - dist \in (-WSIZE) .. WSIZE
    BY <1>1, <1>2, <1>6, MaskInWindow DEF CopyPiece, CopyInBounds, Slots
  <2>2. len \in 1 .. n /\ w + len <= WSIZE /\ s + len <= WSIZE
    BY <1>2, <2>1 DEF Room, Slots
  <2>3. /\ Advance(win, w + len)
        /\ n' = n - len /\ d' = s + len
        /\ pc' = IF n = len THEN "codes" ELSE "copy"
        /\ UNCHANGED <<e, dist, halted>>
    BY <1>6 DEF CopyPiece
  <2>. HIDE DEF len
  <2>4. win \in [Slots -> Byte]
    <3>1. ASSUME NEW i \in Slots, i \in w .. (w + len - 1)
          PROVE  s + (i - w) \in Slots
      BY <1>2, <2>1, <2>2, <3>1 DEF Slots
    <3>. QED BY <1>2, <3>1
  <2>5. \A j \in Slots : j >= w + len => win[j] = window[j]
    BY <1>2, <2>2 DEF Slots
  <2>6. w + len \in (w + 1) .. WSIZE /\ pc \in Decoding /\ pc' \in Decoding
    BY <1>2, <2>1, <2>2, <2>3 DEF Slots
  <2>. HIDE DEF win
  <2>7. /\ window' \in [Slots -> Byte]
        /\ wp' \in Slots /\ w' \in Slots
        /\ output_ptr' \in Nat
        /\ output_data' \in [0 .. (output_ptr' - 1) -> Byte]
        /\ WindowIsHistory'
    BY <1>1, <2>3, <2>4, <2>5, <2>6, AdvanceKeeps
  <2>8. TypeOK'
    <3>1. n' \in Nat /\ d' \in (-WSIZE) .. WSIZE
      BY <1>2, <2>1, <2>2, <2>3 DEF Slots
    <3>. QED BY <1>1, <2>3, <2>7, <3>1 DEF TypeOK
  <2>9. CopyInBounds'
    <3>1. w' = IF w + len = WSIZE THEN 0 ELSE w + len
      BY <2>3 DEF Advance
    <3>2. Mask(s + len) = Mask(w' - dist)
      BY <1>2, <2>1, <2>2, <3>1, MaskStep DEF ConstantsOK
    <3>3. pc' = "copy" => n' > 0
      BY <1>2, <2>2, <2>3
    <3>. QED BY <2>3, <3>2, <3>3 DEF CopyInBounds
  <2>. QED BY <2>7, <2>8, <2>9 DEF IInv
<1>7. CASE BeginSlow
  <2>. DEFINE s == Mask(d)
              len == IF Room(s) > n THEN n ELSE Room(s)
  <2>1. /\ pc = "copy" /\ n > 0 /\ s = Mask(w - dist) /\ s \in Slots
    BY <1>1, <1>2, <1>7, MaskInWindow DEF BeginSlow, CopyInBounds, Slots
  <2>2. len \in 1 .. n /\ w + len <= WSIZE
    BY <1>2, <2>1 DEF Room, Slots
  <2>3. /\ s <= w /\ e' = len /\ n' = n - len /\ d' = s /\ pc' = "slow"
        /\ UNCHANGED <<window, wp, w, dist, output_data, output_ptr, halted>>
    BY <1>7 DEF BeginSlow
  <2>. HIDE DEF len
  <2>4. TypeOK'
    <3>1. n' \in Nat /\ e' \in Nat /\ d' \in (-WSIZE) .. WSIZE
      BY <1>2, <2>1, <2>2, <2>3 DEF Slots
    <3>. QED BY <1>1, <2>3, <3>1 DEF TypeOK
  <2>5. WindowIsHistory'
    BY <1>1, <2>1, <2>3 DEF WindowIsHistory, Flushed, pos
  <2>6. CopyInBounds'
    BY <1>2, <2>1, <2>2, <2>3 DEF CopyInBounds
  <2>. QED BY <2>4, <2>5, <2>6 DEF IInv
<1>8. CASE CopyByte
  <2>. DEFINE win == [window EXCEPT ![w] = window[d]]
  <2>1. /\ pc = "slow" /\ e > 0 /\ w + e <= WSIZE
        /\ d <= w /\ d = Mask(w - dist) /\ d \in Slots
        /\ w - dist \in (-WSIZE) .. WSIZE
    <3>1. /\ pc = "slow" /\ e > 0 /\ w + e <= WSIZE
          /\ d <= w /\ d = Mask(w - dist)
      BY <1>1, <1>8 DEF CopyByte, CopyInBounds
    <3>2. w - dist \in (-WSIZE) .. WSIZE
      BY <1>2 DEF Slots
    <3>. QED BY <3>1, <3>2, MaskInWindow
  <2>2. /\ win \in [Slots -> Byte]
        /\ \A j \in Slots : j >= w + 1 => win[j] = window[j]
        /\ w + 1 \in (w + 1) .. WSIZE
    BY <1>2, <2>1 DEF Slots
  <2>3. e' = e - 1 /\ d' = d + 1 /\ UNCHANGED <<n, dist, halted>>
    BY <1>8 DEF CopyByte
  <2>4. \/ /\ e > 1 /\ window' = win /\ w' = w + 1 /\ pc' = "slow"
           /\ UNCHANGED <<output_data, output_ptr, wp>>
        \/ /\ e = 1 /\ Advance(win, w + 1)
           /\ pc' = IF n = 0 THEN "codes" ELSE "copy"
    BY <1>8 DEF CopyByte
  <2>. HIDE DEF win
  <2>5. Advance(win, w + 1) /\ pc' \in Decoding
    BY <1>2, <2>1, <2>4 DEF Advance
  <2>6. /\ window' \in [Slots -> Byte]
        /\ wp' \in Slots /\ w' \in Slots
        /\ output_ptr' \in Nat
        /\ output_data' \in [0 .. (output_ptr' - 1) -> Byte]
        /\ WindowIsHistory'
    BY <1>1, <2>1, <2>2, <2>5, AdvanceKeeps
  <2>7. TypeOK'
    <3>1. e' \in Nat /\ d' \in (-WSIZE) .. WSIZE
      BY <1>2, <2>1, <2>3 DEF Slots
    <3>. QED BY <1>1, <2>3, <2>5, <2>6, <3>1 DEF TypeOK
  <2>8. CASE e > 1
    <3>1. pc' = "slow" /\ w' = w + 1
      BY <1>2, <2>4, <2>8
    <3>2. d + 1 = Mask(w + 1 - dist)
      BY <1>2, <2>1, <2>8 DEF Mask, Slots
    <3>. QED BY <1>2, <2>1, <2>3, <2>6, <2>7, <2>8, <3>1, <3>2
         DEF CopyInBounds, IInv
  <2>9. CASE e = 1
    <3>1. w' = IF w + 1 = WSIZE THEN 0 ELSE w + 1
      BY <1>2, <2>4, <2>9 DEF Advance
    <3>2. Mask(d + 1) = Mask(w' - dist)
      BY <1>2, <2>1, <3>1, MaskStep DEF ConstantsOK, Slots
    <3>3. pc' = "copy" => n > 0
      BY <1>2, <2>4, <2>9
    <3>4. pc' # "slow"
      BY <2>4, <2>9
    <3>. QED BY <2>3, <2>6, <2>7, <3>2, <3>3, <3>4 DEF CopyInBounds, IInv
  <2>. QED BY <1>2, <2>1, <2>8, <2>9
<1>9. CASE EndBlock
  <2>1. TypeOK'
    BY <1>1, <1>9 DEF EndBlock, TypeOK
  <2>2. pos' = pos
    BY <1>9 DEF EndBlock, pos
  <2>3. WindowIsHistory'
    BY <1>1, <1>9, <2>2 DEF EndBlock, WindowIsHistory, Flushed
  <2>4. CopyInBounds'
    BY <1>9 DEF EndBlock, CopyInBounds
  <2>. QED BY <2>1, <2>3, <2>4 DEF IInv
<1>10. ASSUME NEW len \in 0 .. MaxLen, BeginStored(len) PROVE IInv'
  <2>1. TypeOK'
    BY <1>1, <1>10 DEF BeginStored, TypeOK, ConstantsOK
  <2>2. pos' = pos
    BY <1>10 DEF BeginStored, pos
  <2>3. WindowIsHistory'
    BY <1>1, <1>10, <2>2 DEF BeginStored, WindowIsHistory, Flushed
  <2>4. CopyInBounds'
    BY <1>10 DEF BeginStored, CopyInBounds
  <2>. QED BY <2>1, <2>3, <2>4 DEF IInv
<1>11. ASSUME NEW c \in Byte, StoredByte(c) PROVE IInv'
  <2>. DEFINE win == [window EXCEPT ![w] = c]
  <2>1. /\ win \in [Slots -> Byte]
        /\ \A j \in Slots : j >= w + 1 => win[j] = window[j]
        /\ w + 1 \in (w + 1) .. WSIZE
    BY <1>2 DEF Slots
  <2>2. /\ pc \in Decoding /\ pc' \in Decoding /\ Advance(win, w + 1)
        /\ n' \in Nat
    BY <1>2, <1>11 DEF StoredByte
  <2>. HIDE DEF win
  <2>3. /\ window' \in [Slots -> Byte]
        /\ wp' \in Slots /\ w' \in Slots
        /\ output_ptr' \in Nat
        /\ output_data' \in [0 .. (output_ptr' - 1) -> Byte]
        /\ WindowIsHistory'
    BY <1>1, <2>1, <2>2, AdvanceKeeps
  <2>4. TypeOK' /\ CopyInBounds'
    BY <1>1, <1>11, <2>2, <2>3 DEF StoredByte, TypeOK, CopyInBounds
  <2>. QED BY <2>3, <2>4 DEF IInv
<1>12. CASE Finish
  <2>1. /\ output_ptr' \in Nat
        /\ output_data' \in [0 .. (output_ptr' - 1) -> Byte]
        /\ wp' \in Slots
    <3>1. wp \in 0 .. WSIZE
      BY <1>2 DEF Slots
    <3>. QED BY <1>1, <1>2, <1>12, <3>1, FlushType DEF Finish
  <2>. QED BY <1>1, <1>12, <2>1
       DEF Finish, IInv, TypeOK, WindowIsHistory, CopyInBounds
<1>13. CASE Fail
  BY <1>1, <1>13 DEF Fail, IInv, TypeOK, WindowIsHistory, CopyInBounds, Flushed, pos
<1>14. CASE UNCHANGED vars
  BY <1>1, <1>14 DEF vars, IInv, TypeOK, WindowIsHistory, CopyInBounds, Flushed, pos
<1>. QED BY <1>3, <1>4, <1>5, <1>6, <1>7, <1>8, <1>9, <1>10, <1>11, <1>12,
            <1>13, <1>14 DEF Next, Step

(* The invariant holds in every reachable state: for every window size,    *)
(* every slot a later distance may reach holds the flushed byte it stands  *)
(* for, and no copy reads or writes outside the window or runs empty.      *)
THEOREM Invariance == Spec => []IInv
<1>1. ConstantsOK /\ Init => IInv
  BY InitIInv
<1>2. ConstantsOK /\ IInv /\ [Next]_vars => IInv'
  BY StepIInv
<1>. QED BY <1>1, <1>2, ConstantsOK, PTL DEF Spec

(* The pointers into the window and the output stay in range: wp never     *)
(* reaches WSIZE between two bytes, in whatever pieces a copy is cut.      *)
THEOREM Types == Spec => []TypeOK
<1>1. IInv => TypeOK
  BY DEF IInv
<1>. QED BY <1>1, Invariance, PTL
-----------------------------------------------------------------------------
(* The history after Advance(win, p): what was flushed, then win up to p,  *)
(* whether the window was flushed by the step or not.                      *)
LEMMA AdvanceHistory ==
  ASSUME TypeOK, pc \in Decoding, pc' \in Decoding,
         NEW win \in [Slots -> Byte], NEW p \in (w + 1) .. WSIZE,
         Advance(win, p)
  PROVE  /\ (output_ptr + pos)' = output_ptr + p
         /\ histBar' = [i \in 0 .. (output_ptr + p - 1) |->
                          IF i < output_ptr THEN output_data[i]
                                            ELSE win[i - output_ptr]]
<1>. USE ConstantsOK DEF ConstantsOK
<1>1. output_ptr \in Nat /\ w \in Nat /\ w < WSIZE /\ pos' = w'
  BY DEF TypeOK, Slots, Decoding, pos
<1>2. CASE p = WSIZE /\ flush_window(win, p) /\ w' = 0 /\ window' = win
  <2>1. output_ptr' = output_ptr + p /\ pos' = 0 /\ output_ptr' + pos' = output_ptr + p
    BY <1>1, <1>2 DEF flush_window
  <2>2. output_data' = [i \in 0 .. (output_ptr + p - 1) |->
                          IF i < output_ptr THEN output_data[i]
                                            ELSE win[i - output_ptr]]
    BY <1>2 DEF flush_window
  <2>3. histBar' = [i \in 0 .. (output_ptr + p - 1) |->
                      IF i < output_ptr' THEN output_data'[i]
                                         ELSE window'[i - output_ptr']]
    <3>1. output_ptr' + pos' - 1 = output_ptr + p - 1
      BY <1>1, <2>1
    <3>. QED BY <3>1 DEF histBar
  <2>4. \A i \in 0 .. (output_ptr + p - 1) : i < output_ptr'
    BY <1>1, <2>1
  <2>5. histBar' = [i \in 0 .. (output_ptr + p - 1) |-> output_data'[i]]
    BY <2>3, <2>4
  <2>. QED BY <2>1, <2>2, <2>5
<1>3. CASE /\ p # WSIZE /\ w' = p /\ window' = win
           /\ UNCHANGED <<output_data, output_ptr, wp>>
  BY <1>1, <1>3 DEF histBar
<1>. QED BY <1>2, <1>3 DEF Advance

(* The window holds the last WSIZE bytes of what was produced, flushed or  *)
(* not: a distance of up to WSIZE finds its byte.                          *)
THEOREM HistoryInWindow == Spec => []WindowIsHistory
<1>1. IInv => WindowIsHistory
  BY DEF IInv
<1>. QED BY <1>1, Invariance, PTL

(* No copy runs over the end of the window or starts with nothing to copy. *)
THEOREM CopiesInBounds == Spec => []CopyInBounds
<1>1. IInv => CopyInBounds
  BY DEF IInv
<1>. QED BY <1>1, Invariance, PTL

(* A piece of a copy, in one go or a single byte, from the slot `dist'     *)
(* back: the bytes it appends to the history are the ones dist before      *)
(* them, found in the window although they may long be flushed.            *)
LEMMA PieceExtends ==
  ASSUME TypeOK, WindowIsHistory, pc \in Decoding, pc' \in Decoding,
         NEW win \in [Slots -> Byte], NEW len \in 1 .. WSIZE, NEW s \in Slots,
         w + len <= WSIZE, s + len <= WSIZE, s = Mask(w - dist),
         s >= w \/ w - s >= len,
         \A j \in 0 .. (w - 1) : win[j] = window[j],
         \A i \in 0 .. (len - 1) : win[w + i] = window[s + i],
         Advance(win, w + len)
  PROVE  /\ (output_ptr + pos)' = output_ptr + pos + len
         /\ Abs!Extends(histBar, output_ptr + pos, histBar', dist, len)
<1>. USE ConstantsOK
<1>1. /\ output_ptr \in Nat /\ w \in Nat /\ w < WSIZE /\ pos = w
      /\ WSIZE \in Nat /\ len \in Nat /\ len > 0 /\ s \in Nat
      /\ dist \in Nat /\ dist > 0 /\ dist <= WSIZE
      /\ w + len \in (w + 1) .. WSIZE
  BY DEF TypeOK, Slots, Decoding, pos, ConstantsOK
<1>. DEFINE m == output_ptr + w
            h2 == [i \in 0 .. (m + len - 1) |->
                     IF i < output_ptr THEN output_data[i] ELSE win[i - output_ptr]]
<1>2. (output_ptr + pos)' = m + len /\ output_ptr + pos = m /\ m \in Nat
  <2>1. (output_ptr + pos)' = output_ptr + (w + len)
    BY <1>1, AdvanceHistory
  <2>. QED BY <1>1, <2>1
<1>3. histBar' = h2
  <2>1. histBar' = [i \in 0 .. (output_ptr + (w + len) - 1) |->
                      IF i < output_ptr THEN output_data[i]
                                        ELSE win[i - output_ptr]]
    BY <1>1, AdvanceHistory
  <2>2. output_ptr + (w + len) - 1 = m + len - 1
    BY <1>1
  <2>. QED BY <2>1, <2>2
<1>4. DOMAIN h2 = 0 .. (m + len - 1)
  OBVIOUS
<1>5. ASSUME NEW i \in 0 .. (m - 1) PROVE h2[i] = histBar[i]
  <2>1. i \in 0 .. (m + len - 1) /\ i \in 0 .. (output_ptr + pos - 1)
    BY <1>1, <1>2
  <2>2. CASE i < output_ptr
    BY <2>1, <2>2 DEF histBar
  <2>3. CASE ~(i < output_ptr)
    <3>1. i - output_ptr \in 0 .. (w - 1)
      BY <1>1, <2>3
    <3>. QED BY <2>1, <2>3, <3>1 DEF histBar
  <2>. QED BY <2>2, <2>3
<1>6. ASSUME NEW i \in m .. (m + len - 1) PROVE h2[i] = Abs!Before(h2, i - dist)
  <2>. DEFINE k == i - m
  <2>1. /\ k \in 0 .. (len - 1) /\ k \in Nat /\ i - output_ptr = w + k
        /\ i \in 0 .. (m + len - 1) /\ ~(i < output_ptr) /\ i = m + k
    BY <1>1, <1>2
  <2>2. h2[i] = window[s + k]
    BY <2>1
  <2>3. CASE s >= w
    <3>1. s = w - dist + WSIZE
      BY <1>1, <2>3 DEF Mask
    <3>2. s + k \in Slots /\ s + k >= pos
      BY <1>1, <2>1, <2>3 DEF Slots
    <3>3. window[s + k] = Flushed(output_ptr - WSIZE + (s + k))
      BY <3>2 DEF WindowIsHistory, Decoding
    <3>4. output_ptr - WSIZE + (s + k) = i - dist /\ i - dist < output_ptr
      <4>1. s + k < WSIZE
        BY <1>1, <2>1, <3>2 DEF Slots
      <4>2. output_ptr - WSIZE + (s + k) = i - dist
        BY <1>1, <1>2, <2>1, <3>1
      <4>. QED BY <1>1, <2>1, <4>1, <4>2
    <3>5. CASE i - dist < 0
      BY <2>2, <3>3, <3>4, <3>5 DEF Flushed, Abs!Before
    <3>6. CASE ~(i - dist < 0)
      <4>1. i - dist \in 0 .. (m + len - 1)
        BY <1>1, <1>2, <2>1, <3>4, <3>6
      <4>2. h2[i - dist] = output_data[i - dist]
        BY <3>4, <4>1
      <4>. QED BY <2>2, <3>3, <3>4, <3>6, <4>2 DEF Flushed, Abs!Before
    <3>. QED BY <3>5, <3>6
  <2>4. CASE s < w
    <3>1. s = w - dist
      BY <1>1, <2>4 DEF Mask
    <3>2. w - s >= len
      BY <1>1, <2>4
    <3>3. /\ i - dist = output_ptr + (s + k) /\ s + k \in 0 .. (w - 1)
          /\ (i - dist) - output_ptr = s + k
          /\ i - dist \in 0 .. (m + len - 1) /\ ~(i - dist < output_ptr)
          /\ ~(i - dist < 0)
      BY <1>1, <1>2, <2>1, <3>1, <3>2
    <3>4. h2[i - dist] = window[s + k]
      BY <3>3
    <3>. QED BY <2>2, <3>3, <3>4 DEF Abs!Before
  <2>. QED BY <1>1, <2>3, <2>4
<1>. HIDE DEF h2
<1>. QED BY <1>2, <1>3, <1>4, <1>5, <1>6 DEF Abs!Extends

(* The initial state is Lz77's: an empty history.                          *)
LEMMA InitLz77 == Init => Abs!Init
<1> SUFFICES ASSUME Init PROVE Abs!Init
  OBVIOUS
<1>1. output_ptr = 0 /\ pos = 0 /\ output_ptr + pos = 0 /\ output_ptr + pos - 1 = -1
  BY DEF Init, pos
<1>2. histBar = [i \in 0 .. -1 |-> Zero]
  BY <1>1, SMT DEF histBar
<1>. QED BY <1>1, <1>2 DEF Init, Abs!Init

(* One step of the decoder is one step of Lz77, or none.                   *)
LEMMA StepLz77 == IInv /\ [Next]_vars => [Abs!Next]_(Abs!absVars)
<1> SUFFICES ASSUME IInv, [Next]_vars PROVE [Abs!Next]_(Abs!absVars)
  OBVIOUS
<1>. USE ConstantsOK DEF Decoding
<1>1. /\ TypeOK /\ WindowIsHistory /\ CopyInBounds
      /\ WSIZE \in Nat /\ WSIZE > 0
  BY DEF IInv, ConstantsOK
<1>2. /\ window \in [Slots -> Byte]
      /\ w \in Slots /\ w \in Nat /\ n \in Nat /\ e \in Nat
      /\ dist \in 1 .. WSIZE /\ output_ptr \in Nat
      /\ w >= 0 /\ w < WSIZE
  BY <1>1 DEF TypeOK, Slots
<1>. DEFINE Owed == IF pc = "copy" THEN n ELSE IF pc = "slow" THEN n + e ELSE 0
            Still == /\ UNCHANGED <<window, output_data, output_ptr, dist>>
                     /\ pos' = pos /\ Owed' = Owed
                     /\ (pc' = "done") = (pc = "done")
<1>3. ASSUME Still PROVE UNCHANGED Abs!absVars
  <2>1. histBar' = histBar
    BY <1>3 DEF histBar
  <2>. QED BY <1>3, <2>1 DEF Abs!absVars
<1>4. CASE BeginCodes
  BY <1>3, <1>4 DEF BeginCodes, pos
<1>5. ASSUME NEW c \in Byte, Literal(c) \/ StoredByte(c) PROVE Abs!Next
  <2>. DEFINE win == [window EXCEPT ![w] = c]
  <2>1. /\ win \in [Slots -> Byte] /\ w + 1 \in (w + 1) .. WSIZE
        /\ win[w] = c /\ \A j \in 0 .. (w - 1) : win[j] = window[j]
    BY <1>2 DEF Slots
  <2>2. /\ pc \in {"codes", "stored"} /\ pc' = pc /\ Advance(win, w + 1)
        /\ dist' = dist
    BY <1>5 DEF Literal, StoredByte
  <2>. HIDE DEF win
  <2>3. /\ pos = w /\ (output_ptr + pos)' = output_ptr + (w + 1)
        /\ histBar' = [i \in 0 .. (output_ptr + (w + 1) - 1) |->
                         IF i < output_ptr THEN output_data[i]
                                           ELSE win[i - output_ptr]]
    BY <1>1, <2>1, <2>2, AdvanceHistory DEF pos
  <2>4. /\ output_ptr + pos \in Nat
        /\ output_ptr + (w + 1) - 1 = output_ptr + pos
        /\ output_ptr + (w + 1) = output_ptr + pos + 1
    BY <1>2, <2>3
  <2>5. ASSUME NEW i \in 0 .. (output_ptr + pos)
        PROVE  (IF i < output_ptr THEN output_data[i] ELSE win[i - output_ptr])
                 = (IF i < output_ptr + pos THEN histBar[i] ELSE c)
    <3>1. CASE i < output_ptr
      BY <1>2, <2>3, <2>4, <3>1 DEF histBar
    <3>2. CASE ~(i < output_ptr) /\ i < output_ptr + w
      <4>1. i - output_ptr \in 0 .. (w - 1) /\ i \in 0 .. (output_ptr + pos - 1)
        BY <1>2, <2>3, <3>2
      <4>. QED BY <1>2, <2>1, <2>3, <3>2, <4>1 DEF histBar
    <3>3. CASE i = output_ptr + w
      <4>1. ~(i < output_ptr) /\ i - output_ptr = w /\ ~(i < output_ptr + pos)
        BY <1>2, <2>3, <3>3
      <4>. QED BY <2>1, <4>1
    <3>4. \/ i < output_ptr
          \/ ~(i < output_ptr) /\ i < output_ptr + w
          \/ i = output_ptr + w
      <4>1. pos = w
        BY <2>3
      <4>. QED BY <1>2, <4>1
    <3>. QED BY <3>1, <3>2, <3>3, <3>4
  <2>6. histBar' = [i \in 0 .. (output_ptr + pos) |->
                      IF i < output_ptr + pos THEN histBar[i] ELSE c]
    BY <2>3, <2>4, <2>5
  <2>7. Owed = 0 /\ Owed' = 0 /\ pc # "done" /\ pc' # "done"
    BY <2>2
  <2>8. Abs!Put(c)
    BY <2>2, <2>3, <2>4, <2>6, <2>7 DEF Abs!Put
  <2>. QED BY <2>8 DEF Abs!Next
<1>6. ASSUME NEW len \in 1 .. MaxLen, NEW back \in 1 .. WSIZE, Pointer(len, back)
      PROVE Abs!Next
  <2>1. pos' = pos /\ histBar' = histBar
    BY <1>6 DEF Pointer, pos, histBar
  <2>2. Abs!Point(len, back)
    BY <1>6, <2>1 DEF Pointer, Abs!Point
  <2>. QED BY <2>2 DEF Abs!Next
<1>7. CASE BeginSlow
  <2>1. pc = "copy" /\ pc' = "slow" /\ n' + e' = n /\ pos' = pos
    <3>1. Room(Mask(d)) \in Int
      BY <1>1, <1>2 DEF Room, Mask, TypeOK
    <3>. QED BY <1>2, <1>7, <3>1 DEF BeginSlow, pos
  <2>. QED BY <1>3, <1>7, <2>1 DEF BeginSlow
<1>8. CASE EndBlock
  BY <1>3, <1>8 DEF EndBlock, pos
<1>9. ASSUME NEW len \in 0 .. MaxLen, BeginStored(len) PROVE UNCHANGED Abs!absVars
  BY <1>3, <1>9 DEF BeginStored, pos
<1>10. CASE Fail
  BY <1>3, <1>10 DEF Fail, pos
<1>11. CASE UNCHANGED vars
  BY <1>3, <1>11 DEF vars, pos
<1>12. CASE CopyPiece
  <2>. DEFINE s == Mask(d)
              len == IF Room(s) > n THEN n ELSE Room(s)
              win == [i \in Slots |-> IF i \in w .. (w + len - 1)
                                       THEN window[s + (i - w)] ELSE window[i]]
  <2>1. /\ pc = "copy" /\ n > 0 /\ s = Mask(w - dist) /\ s \in Slots
        /\ w - dist \in (-WSIZE) .. WSIZE
    BY <1>1, <1>2, <1>12, MaskInWindow DEF CopyPiece, CopyInBounds, Slots
  <2>2. /\ len \in 1 .. n /\ len \in 1 .. WSIZE
        /\ w + len <= WSIZE /\ s + len <= WSIZE
    BY <1>2, <2>1 DEF Room, Slots
  <2>3. /\ Advance(win, w + len) /\ n' = n - len
        /\ pc' = IF n = len THEN "codes" ELSE "copy"
        /\ dist' = dist
        /\ s > w \/ w - s >= len
    BY <1>12 DEF CopyPiece
  <2>. HIDE DEF len
  <2>4. win \in [Slots -> Byte]
    <3>1. ASSUME NEW i \in Slots, i \in w .. (w + len - 1)
          PROVE  s + (i - w) \in Slots
      BY <1>2, <2>1, <2>2, <3>1 DEF Slots
    <3>. QED BY <1>2, <3>1
  <2>5. \A j \in 0 .. (w - 1) : win[j] = window[j]
    BY <1>2, <2>2 DEF Slots
  <2>6. ASSUME NEW i \in 0 .. (len - 1) PROVE win[w + i] = window[s + i]
    <3>1. /\ w + i \in Slots /\ w + i \in w .. (w + len - 1)
          /\ (w + i) - w = i
      BY <1>2, <2>2 DEF Slots
    <3>. QED BY <3>1
  <2>7. s >= w \/ w - s >= len
    BY <1>2, <2>1, <2>3 DEF Slots
  <2>8. pc \in Decoding /\ pc' \in Decoding
    BY <2>1, <2>3
  <2>. HIDE DEF win, s
  <2>9. /\ (output_ptr + pos)' = output_ptr + pos + len
        /\ Abs!Extends(histBar, output_ptr + pos, histBar', dist, len)
    BY <1>1, <2>1, <2>2, <2>3, <2>4, <2>5, <2>6, <2>7, <2>8, PieceExtends
  <2>10. Owed = n /\ Owed' = n - len
    BY <1>2, <2>1, <2>2, <2>3
  <2>11. Abs!Copy(len)
    BY <2>1, <2>3, <2>9, <2>10 DEF Abs!Copy
  <2>12. len \in 1 .. Owed
    BY <2>2, <2>10
  <2>. QED BY <2>11, <2>12 DEF Abs!Next
<1>13. CASE CopyByte
  <2>. DEFINE win == [window EXCEPT ![w] = window[d]]
  <2>1. /\ pc = "slow" /\ e > 0 /\ w + e <= WSIZE
        /\ d <= w /\ d = Mask(w - dist) /\ d \in Slots
    <3>1. /\ pc = "slow" /\ e > 0 /\ w + e <= WSIZE
          /\ d <= w /\ d = Mask(w - dist)
      BY <1>1, <1>13 DEF CopyByte, CopyInBounds
    <3>2. w - dist \in (-WSIZE) .. WSIZE
      BY <1>2
    <3>. QED BY <3>1, <3>2, MaskInWindow
  <2>2. /\ win \in [Slots -> Byte]
        /\ \A j \in 0 .. (w - 1) : win[j] = window[j]
        /\ \A i \in 0 .. (1 - 1) : win[w + i] = window[d + i]
    BY <1>2, <2>1 DEF Slots
  <2>3. e' = e - 1 /\ UNCHANGED <<n, dist, halted>>
    BY <1>13 DEF CopyByte
  <2>4. \/ /\ e > 1 /\ window' = win /\ w' = w + 1 /\ pc' = "slow"
           /\ UNCHANGED <<output_data, output_ptr, wp>>
        \/ /\ e = 1 /\ Advance(win, w + 1)
           /\ pc' = IF n = 0 THEN "codes" ELSE "copy"
    BY <1>13 DEF CopyByte
  <2>. HIDE DEF win
  <2>5. Advance(win, w + 1) /\ pc' \in Decoding /\ pc \in Decoding
    BY <1>2, <2>1, <2>4 DEF Advance
  <2>6. /\ 1 \in 1 .. WSIZE /\ w + 1 <= WSIZE /\ d + 1 <= WSIZE
        /\ d >= w \/ w - d >= 1
    BY <1>2, <2>1 DEF Slots
  <2>7. /\ (output_ptr + pos)' = output_ptr + pos + 1
        /\ Abs!Extends(histBar, output_ptr + pos, histBar', dist, 1)
    BY <1>1, <2>1, <2>2, <2>5, <2>6, PieceExtends
  <2>8. Owed = n + e /\ Owed' = n + e - 1
    BY <1>2, <2>1, <2>3, <2>4
  <2>9. Abs!Copy(1)
    <3>1. pc # "done" /\ pc' # "done" /\ dist' = dist /\ Owed' = Owed - 1
      BY <1>2, <2>1, <2>3, <2>5, <2>8
    <3>. QED BY <2>7, <3>1 DEF Abs!Copy
  <2>10. 1 \in 1 .. Owed
    BY <1>2, <2>1, <2>8
  <2>. QED BY <2>9, <2>10 DEF Abs!Next
<1>14. CASE Finish
  <2>1. /\ wp \in Nat /\ pos = wp /\ pos' = 0
        /\ output_ptr' = output_ptr + wp
        /\ output_data' = [i \in 0 .. (output_ptr + wp - 1) |->
                             IF i < output_ptr THEN output_data[i]
                                               ELSE window[i - output_ptr]]
    BY <1>1, <1>14 DEF Finish, flush_window, pos, TypeOK, Slots
  <2>2. (output_ptr + pos)' = output_ptr + pos
    BY <1>2, <2>1
  <2>3. output_data' = histBar
    BY <2>1 DEF histBar
  <2>4. histBar' = histBar
    <3>1. histBar' = [i \in 0 .. (output_ptr + wp - 1) |->
                        IF i < output_ptr' THEN output_data'[i]
                                           ELSE window'[i - output_ptr']]
      BY <1>2, <2>1, <2>2 DEF histBar
    <3>2. \A i \in 0 .. (output_ptr + wp - 1) : i < output_ptr'
      BY <1>2, <2>1
    <3>3. histBar' = [i \in 0 .. (output_ptr + wp - 1) |-> output_data'[i]]
      BY <3>1, <3>2
    <3>. QED BY <2>1, <2>3, <3>3
  <2>5. Abs!Close
    BY <1>14, <2>2, <2>4 DEF Finish, Abs!Close
  <2>. QED BY <2>5 DEF Abs!Next
<1>. QED BY <1>4, <1>5, <1>6, <1>7, <1>8, <1>9, <1>10, <1>11, <1>12, <1>13,
            <1>14, <1>3 DEF Next, Step, BeginCodes, BeginSlow, EndBlock, Fail

(* lib/inflate.c with its window implements the unbounded history: for     *)
(* every window size, whatever the codes, the bytes handed to the caller   *)
(* are the literals and copies the codes describe, each once and in order. *)
THEOREM Refinement == Spec => ImplementsLz77
<1>1. Init => Abs!Init
  BY InitLz77
<1>2. IInv /\ [Next]_vars => [Abs!Next]_(Abs!absVars)
  BY StepLz77
<1>. QED BY <1>1, <1>2, Invariance, PTL DEF Spec, ImplementsLz77, Abs!Spec
=============================================================================
