---------------------------- MODULE LibraryProofs ----------------------------
(* Proofs about the calls of Library, for all buffers, images, formats,    *)
(* screens and machines the assumptions allow.  Each part has an invariant *)
(* of its own, which the other parts leave alone.                          *)
EXTENDS Library, SequenceTheorems, WellFoundedInduction, TLAPS
-----------------------------------------------------------------------------
(* Transfers of user memory.  "un" is how many bytes are to be copied; the *)
(* first "done" of them have arrived, or the rest has been cleared too.    *)
un == ujob.n
Offsets == 0 .. un + 4
Arrived(done) == \A i \in Offsets : udst[i] = IF i < done THEN i ELSE -1
Settled(done) ==
  \A i \in Offsets : udst[i] = IF i < done THEN i ELSE IF i < un /\ ujob.from THEN -2 ELSE -1

(* The last move of a copy that faulted before it, and what is there when  *)
(* it is over: the byte behind the buffer is moved, or cleared and counted.*)
SettledBut(done) ==
  \A i \in Offsets : i # un => udst[i] = IF i < done THEN i ELSE IF i < un /\ ujob.from THEN -2 ELSE -1
Pending ==
  /\ User!Overshoots /\ uk = 2 /\ uecx \in 3 .. un
  /\ uesi = un - uecx /\ uedi = un /\ Settled(un - uecx)
Behind ==
  /\ User!Overshoots /\ uk = 3 /\ uecx \in 3 .. un + 1 /\ uesi \in 0 .. un /\ uedi = un + 1
  /\ \/ uecx <= un /\ SettledBut(un - uecx)
     \/ udst[un] = -2 /\ uecx > 3 /\ SettledBut(un - (uecx - 1))

UserTypes ==
  /\ ujob \in User!Jobs /\ ubase \in UserBases /\ umapped \in User!Extents
  /\ upc \in {"start", "mov", "movsl", "movsb", "tail", "end", "done"}
  /\ uk \in 1 .. 3
  /\ udst \in [Offsets -> {-1, -2} \union 0 .. un + 4]
  /\ utouched \subseteq 0 .. un - 1

UserPlaces ==
  /\ upc # "done" => uret = 0
  /\ upc \notin {"start", "done"} => ~User!Refused
  /\ upc = "start" => uecx = un \div 4 /\ uesi = 0 /\ uedi = 0 /\ uk = 1 /\ Arrived(0) /\ utouched = {}
  /\ upc = "mov" => ujob.kind = "single" /\ uecx = un \div 4 /\ uesi = 0 /\ uedi = 0 /\ Arrived(0)
  /\ upc \in {"movsl", "movsb", "tail", "end"} => ujob.kind # "single"
  /\ upc = "movsl" =>
       uk = 1 /\ uecx \in 0 .. un \div 4 /\ uesi = 4 * ((un \div 4) - uecx) /\ uedi = uesi /\ Arrived(uesi)
  /\ upc = "movsb" =>
       ujob.kind = "generic" /\ uk = 1 /\ uecx \in 0 .. un % 4 /\ uesi = un - uecx /\ uedi = uesi /\ Arrived(uesi)
  /\ upc = "tail" =>
       /\ ujob.kind = "constant"
       /\ \/ /\ uecx = 0 /\ uedi = uesi /\ Arrived(uesi)
             /\ uesi = IF uk = 1 THEN un - (un % 4) ELSE IF uk = 2 /\ un % 4 = 3 THEN un - 1 ELSE un
             /\ un % 4 = 0 => uk = 1
             /\ uk = 3 => un % 4 = 3
          \/ Pending
          \/ Behind
  /\ upc = "end" =>
       /\ uesi \in 0 .. un /\ uedi \in 0 .. un + 1
       /\ (uecx \in 0 .. un /\ Settled(un - uecx)) \/ Behind
  /\ upc = "done" =>
       /\ uecx \in 0 .. un + User!Twice /\ uesi \in 0 .. un + 1 /\ uedi \in 0 .. un + 1
       /\ User!Refused => utouched = {}
       /\ \/ User!Refused /\ Arrived(0) /\ uret \in {-14, un}
          \/ ujob.kind = "single" /\ uret = 0 /\ Settled(un)
          \/ ujob.kind = "single" /\ uret = -14 /\ Settled(0)
          \/ ujob.kind # "single" /\ uret \in 0 .. un /\ Settled(un - uret)
          \/ Behind /\ uret = uecx

UserInv == UserTypes /\ UserPlaces
-----------------------------------------------------------------------------
LEMMA UserFacts ==
  ASSUME UserTypes
  PROVE  /\ un \in Nat /\ un \in UserSizes /\ un < UserWord
         /\ un \div 4 \in Nat /\ un % 4 \in 0 .. 3 /\ un = 4 * (un \div 4) + (un % 4)
         /\ ujob.kind \in {"generic", "constant", "single"} /\ ujob.from \in BOOLEAN /\ ujob.checked \in BOOLEAN
         /\ ujob.kind = "single" => un \in {1, 2, 4}
         /\ UserWord \in Nat /\ UserLimit \in Nat /\ UserLimit < UserWord /\ ubase \in Nat /\ ubase < UserWord
         /\ User!Rest = un % 4 /\ (User!Zeroing <=> ujob.from) /\ User!Margin = 4
         /\ DOMAIN udst = Offsets
<1>1. un \in UserSizes /\ ujob.kind \in {"generic", "constant", "single"} /\ ujob.from \in BOOLEAN /\ ujob.checked \in BOOLEAN
  BY DEF UserTypes, User!Jobs, User!Kinds, un
<1>2. UserWord \in Nat /\ UserLimit \in 0 .. UserWord - 1 /\ UserBases \subseteq 0 .. UserWord - 1 /\ UserSizes \subseteq 0 .. UserWord - 1
  BY Parameters DEF User!ParametersOK
<1>3. un \in Nat /\ un < UserWord
  BY <1>1, <1>2
<1>4. ujob.kind = "single" => un \in {1, 2, 4}
  BY DEF UserTypes, User!Jobs, un
<1>5. User!Rest = un % 4 /\ (User!Zeroing <=> ujob.from) /\ User!Margin = 4
  BY DEF User!Rest, User!Zeroing, User!Margin, un
<1>6. un \div 4 \in Nat /\ un % 4 \in 0 .. 3 /\ un = 4 * (un \div 4) + (un % 4)
  <2> DEFINE n == un
  <2>1. n \in Nat
    BY <1>3
  <2> HIDE DEF n
  <2>2. n \div 4 \in Nat /\ n % 4 \in 0 .. 3 /\ n = 4 * (n \div 4) + (n % 4)
    BY <2>1, SMTT(30)
  <2> QED BY <2>2 DEF n
<1>7. ubase \in Nat /\ ubase < UserWord
  BY <1>2 DEF UserTypes
<1>8. DOMAIN udst = Offsets
  BY DEF UserTypes
<1> QED BY <1>1, <1>2, <1>3, <1>4, <1>5, <1>6, <1>7, <1>8

(* Moving w more bytes of the buffer.                                      *)
LEMMA MoveArrives ==
  ASSUME UserTypes, NEW w \in 1 .. 4, uesi \in 0 .. un, uedi = uesi, Arrived(uesi), uesi + w <= un,
         User!Move(w), UNCHANGED ujob
  PROVE  /\ uesi' = uesi + w /\ uedi' = uesi + w /\ Arrived(uesi)'
         /\ udst' \in [Offsets -> {-1, -2} \union 0 .. un + 4] /\ utouched' \subseteq 0 .. un - 1
<1>1. un \in Nat /\ DOMAIN udst = Offsets /\ un' = un
  BY UserFacts DEF un
<1>2. uesi' = uesi + w /\ uedi' = uesi + w
  BY DEF User!Move
<1>3. udst' = [i \in Offsets |-> IF i \in uesi .. uesi + w - 1 THEN uesi + (i - uesi) ELSE udst[i]]
  BY <1>1 DEF User!Move
<1>4. \A i \in Offsets : udst'[i] = IF i < uesi + w THEN i ELSE -1
  BY <1>1, <1>3 DEF Offsets, Arrived
<1>5. Arrived(uesi)'
  BY <1>1, <1>2, <1>4 DEF Arrived, Offsets
<1>6. udst' \in [Offsets -> {-1, -2} \union 0 .. un + 4]
  <2>1. \A i \in Offsets : udst'[i] \in {-1, -2} \union 0 .. un + 4
    BY <1>1, <1>4 DEF Offsets
  <2> QED BY <1>3, <2>1
<1>7. utouched' \subseteq 0 .. un - 1
  BY <1>1 DEF User!Move, User!UserBytes, UserTypes
<1> QED BY <1>2, <1>5, <1>6, <1>7

(* The fixup code for what is left of the buffer.                          *)
LEMMA FixupSettles ==
  ASSUME UserTypes, NEW w \in Nat, uesi \in 0 .. un, uedi = uesi, Arrived(uesi), uesi + w = un,
         User!Fixup(w), UNCHANGED ujob
  PROVE  /\ uesi' = uesi /\ uedi' \in 0 .. un /\ (ujob.from => uedi' = un) /\ Settled(uesi)'
         /\ udst' \in [Offsets -> {-1, -2} \union 0 .. un + 4] /\ utouched' \subseteq 0 .. un - 1
<1>1. un \in Nat /\ DOMAIN udst = Offsets /\ un' = un /\ (User!Zeroing <=> ujob.from)
  BY UserFacts DEF un
<1>2. uesi' = uesi /\ utouched' \subseteq 0 .. un - 1
  BY DEF User!Fixup, UserTypes
<1>3. \A i \in Offsets : udst'[i] = IF i < uesi THEN i ELSE IF i < un /\ ujob.from THEN -2 ELSE -1
  <2>1. CASE ujob.from
    <3>1. udst' = [i \in Offsets |-> IF i \in uesi .. uesi + w - 1 THEN -2 ELSE udst[i]]
      BY <2>1, <1>1 DEF User!Fixup, User!Clear, User!Zero
    <3> QED BY <3>1, <2>1, <1>1 DEF Arrived, Offsets
  <2>2. CASE ~ujob.from
    BY <2>2, <1>1 DEF User!Fixup, Arrived, Offsets
  <2> QED BY <2>1, <2>2
<1>4. Settled(uesi)'
  BY <1>1, <1>2, <1>3 DEF Settled, Offsets
<1>5. udst' \in [Offsets -> {-1, -2} \union 0 .. un + 4]
  <2>1. \A i \in Offsets : udst'[i] \in {-1, -2} \union 0 .. un + 4
    BY <1>1, <1>3 DEF Offsets
  <2>2. udst' = [i \in Offsets |-> udst'[i]]
    BY <1>1 DEF User!Fixup, User!Clear, UserTypes
  <2> QED BY <2>1, <2>2
<1>6. uedi' \in 0 .. un /\ (ujob.from => uedi' = un)
  BY <1>1 DEF User!Fixup, User!Clear
<1> QED BY <1>2, <1>4, <1>5, <1>6

LEMMA UserInitInv ==
  ASSUME User!Init
  PROVE  UserInv
<1>1. ujob \in User!Jobs /\ un \in Nat
  <2>1. ujob \in User!Jobs
    BY DEF User!Init
  <2>2. un \in UserSizes /\ UserWord \in Nat /\ UserSizes \subseteq 0 .. UserWord - 1
    BY <2>1, Parameters DEF User!ParametersOK, User!Jobs, un
  <2> QED BY <2>1, <2>2
<1>2. DOMAIN udst = Offsets /\ udst \in [Offsets -> {-1, -2} \union 0 .. un + 4] /\ Arrived(0)
  BY <1>1 DEF User!Init, User!Margin, User!Old, Offsets, un, Arrived
<1>3. UserTypes
  BY <1>1, <1>2 DEF User!Init, UserTypes
<1>4. UserPlaces
  BY <1>1, <1>2 DEF User!Init, UserPlaces, un
<1> QED BY <1>3, <1>4 DEF UserInv

LEMMA UserCheckKeeps ==
  ASSUME UserInv, User!Check
  PROVE  UserInv'
<1> USE DEF UserInv
<1>1. un \in Nat /\ un' = un /\ Offsets' = Offsets /\ (un \div 4) \in Nat /\ (un % 4) \in 0 .. 3
  BY UserFacts DEF User!Check, un, Offsets
<1>2. UserTypes'
  BY <1>1 DEF UserTypes, User!Check, User!Extents, User!Margin, un
<1>3. uret = 0 /\ uecx = un \div 4 /\ uesi = 0 /\ uedi = 0 /\ uk = 1 /\ Arrived(0) /\ utouched = {} /\ upc = "start"
  BY DEF User!Check, UserPlaces
<1>4. Arrived(0)' /\ UNCHANGED <<ujob, ubase, uecx, uesi, uedi, uk, utouched, udst>>
  BY <1>1, <1>3 DEF User!Check, Arrived
<1>5. User!Refused' <=> User!Refused
  BY <1>4 DEF User!Refused, User!RangeOk
<1>6. CASE User!Refused
  <2>1. upc' = "done" /\ uret' \in {-14, un}
    BY <1>6 DEF User!Check, User!Refused, User!EFAULT, un
  <2>2. uecx \in 0 .. un + User!Twice
    BY <1>1, <1>3 DEF User!Twice
  <2>3. User!Twice' = User!Twice
    BY <1>4 DEF User!Twice, User!Overshoots, User!Zeroing, User!Rest
  <2> QED BY <2>1, <2>2, <2>3, <1>1, <1>2, <1>3, <1>4, <1>5, <1>6 DEF UserPlaces
<1>7. CASE ~User!Refused
  <2>1. uret' = uret /\ upc' = IF ujob.kind = "single" THEN "mov" ELSE "movsl"
    BY <1>7 DEF User!Check, User!Refused, un
  <2>2. uecx \in 0 .. un \div 4 /\ uesi = 4 * ((un \div 4) - uecx)
    BY <1>1, <1>3
  <2> QED BY <2>1, <2>2, <1>1, <1>2, <1>3, <1>4, <1>5, <1>7 DEF UserPlaces
<1> QED BY <1>6, <1>7

LEMMA UserSingleKeeps ==
  ASSUME UserInv, User!Single
  PROVE  UserInv'
<1> USE DEF UserInv
<1>1. un \in 1 .. 4 /\ un' = un /\ Offsets' = Offsets /\ (un \div 4) \in 0 .. 1 /\ ujob.kind = "single"
  <2>1. ujob.kind = "single" /\ un \in {1, 2, 4} /\ un' = un
    BY UserFacts DEF User!Single, UserPlaces, un
  <2>2. (un \div 4) \in 0 .. 1
    BY <2>1
  <2> QED BY <2>1, <2>2 DEF Offsets
<1>2. uecx = un \div 4 /\ uesi = 0 /\ uedi = uesi /\ uesi \in 0 .. un /\ Arrived(uesi) /\ ~User!Refused
  BY <1>1 DEF User!Single, UserPlaces
<1>3. UNCHANGED <<ujob, ubase, umapped, uk, uecx>> /\ upc' = "done"
  BY DEF User!Single
<1>4. User!Refused' <=> User!Refused
  BY <1>3 DEF User!Refused, User!RangeOk
<1>5. User!Twice' = User!Twice /\ User!Twice \in 0 .. 1
  BY <1>3 DEF User!Twice, User!Overshoots, User!Zeroing, User!Rest
<1>6. UserTypes' /\ uesi' \in 0 .. un /\ uedi' \in 0 .. un /\ ((uret' = 0 /\ Settled(un)') \/ (uret' = -14 /\ Settled(0)'))
  <2>1. CASE User!Move(ujob.n) /\ uret' = 0
    <3>1. User!Move(un) /\ uesi + un <= un
      BY <2>1, <1>1, <1>2 DEF un
    <3>2. /\ uesi' = uesi + un /\ uedi' = uesi + un /\ Arrived(uesi)'
          /\ udst' \in [Offsets -> {-1, -2} \union 0 .. un + 4] /\ utouched' \subseteq 0 .. un - 1
      BY <3>1, <1>1, <1>2, <1>3, MoveArrives
    <3>3. UserTypes'
      BY <1>1, <1>3, <3>2 DEF UserTypes, User!Extents, User!Margin, un
    <3>4. Settled(un)'
      BY <1>1, <1>2, <3>2 DEF Arrived, Settled, Offsets
    <3> QED BY <3>2, <3>3, <3>4, <2>1, <1>1, <1>2
  <2>2. CASE User!Fixup(ujob.n) /\ uret' = -User!EFAULT
    <3>1. User!Fixup(un) /\ uesi + un = un /\ un \in Nat
      BY <2>2, <1>1, <1>2 DEF un
    <3>2. /\ uesi' = uesi /\ uedi' \in 0 .. un /\ Settled(uesi)'
          /\ udst' \in [Offsets -> {-1, -2} \union 0 .. un + 4] /\ utouched' \subseteq 0 .. un - 1
      BY <3>1, <1>2, <1>3, FixupSettles
    <3>3. UserTypes'
      BY <1>1, <1>3, <3>2 DEF UserTypes, User!Extents, User!Margin, un
    <3>4. Settled(0)'
      BY <1>2, <3>2 DEF Settled
    <3> QED BY <3>2, <3>3, <3>4, <2>2, <1>1, <1>2 DEF User!EFAULT
  <2>3. (User!Move(ujob.n) /\ uret' = 0) \/ (User!Fixup(ujob.n) /\ uret' = -User!EFAULT)
    BY DEF User!Single
  <2> QED BY ONLY <2>1, <2>2, <2>3
<1>7. uecx' \in 0 .. un' + User!Twice' /\ uesi' \in 0 .. un' + 1 /\ uedi' \in 0 .. un' + 1
  BY <1>1, <1>2, <1>3, <1>5, <1>6
<1> QED BY <1>1, <1>3, <1>4, <1>6, <1>7, <1>2 DEF UserPlaces

(* What a step that goes on with the copy leaves as it was.                *)
UserFrame == UNCHANGED <<ujob, ubase, umapped, uret>> /\ uret = 0 /\ ~User!Refused

LEMMA FrameFacts ==
  ASSUME UserTypes, UserFrame
  PROVE  /\ un' = un /\ Offsets' = Offsets /\ (User!Refused' <=> User!Refused)
         /\ uret' = 0 /\ (User!Overshoots' <=> User!Overshoots) /\ ~User!Refused'
         /\ (User!Overshoots <=> ujob.kind = "constant" /\ ujob.from /\ un % 4 = 3)
<1>1. un' = un /\ Offsets' = Offsets
  BY DEF UserFrame, un, Offsets
<1>2. User!Refused' <=> User!Refused
  BY DEF UserFrame, User!Refused, User!RangeOk
<1>3. User!Overshoots' <=> User!Overshoots
  BY DEF UserFrame, User!Overshoots, User!Zeroing, User!Rest
<1>4. User!Overshoots <=> ujob.kind = "constant" /\ ujob.from /\ un % 4 = 3
  BY UserFacts DEF User!Overshoots
<1> QED BY <1>1, <1>2, <1>3, <1>4 DEF UserFrame

(* The invariant again, from the types of what a move changes.             *)
LEMMA TypesKept ==
  ASSUME UserTypes, UserFrame, upc' \in {"mov", "movsl", "movsb", "tail", "end", "done"}, uk' \in 1 .. 3,
         udst' \in [Offsets -> {-1, -2} \union 0 .. un + 4], utouched' \subseteq 0 .. un - 1
  PROVE  UserTypes'
<1>1. un' = un /\ Offsets' = Offsets
  BY FrameFacts
<1> QED BY <1>1 DEF UserTypes, UserFrame, User!Extents, User!Margin, un

LEMMA UserMovslKeeps ==
  ASSUME UserInv, User!Movsl
  PROVE  UserInv'
<1> USE DEF UserInv
<1>1. /\ un \in Nat /\ un \div 4 \in Nat /\ un % 4 \in 0 .. 3 /\ un = 4 * (un \div 4) + (un % 4)
      /\ ujob.kind \in {"generic", "constant", "single"} /\ ujob.from \in BOOLEAN
      /\ User!Rest = un % 4 /\ (User!Zeroing <=> ujob.from)
  BY UserFacts
<1>2. /\ uk = 1 /\ uecx \in 1 .. un \div 4 /\ uesi = 4 * ((un \div 4) - uecx) /\ uedi = uesi /\ Arrived(uesi)
      /\ ujob.kind # "single" /\ UserFrame /\ upc = "movsl"
  BY DEF User!Movsl, UserPlaces, UserFrame
<1>3. /\ un' = un /\ Offsets' = Offsets /\ uret' = 0 /\ (User!Overshoots' <=> User!Overshoots) /\ ~User!Refused'
      /\ (User!Overshoots <=> ujob.kind = "constant" /\ ujob.from /\ un % 4 = 3) /\ ujob' = ujob
  BY <1>2, FrameFacts DEF UserFrame
<1>4. uesi \in 0 .. un /\ uesi + 4 <= un /\ uesi + (4 * uecx + (un % 4)) = un
  <2> DEFINE d == un \div 4
             r == un % 4
  <2>1. un = 4 * d + r /\ d \in Nat /\ r \in 0 .. 3 /\ uecx \in 1 .. d /\ uesi = 4 * (d - uecx)
    BY <1>1, <1>2
  <2> HIDE DEF d, r
  <2>2. uesi \in 0 .. un /\ uesi + 4 <= un /\ uesi + (4 * uecx + r) = un
    BY <2>1
  <2> QED BY <2>2 DEF r
<1>5. CASE User!Move(4) /\ uecx' = uecx - 1 /\ UNCHANGED <<upc, uk>>
  <2>1. /\ uesi' = uesi + 4 /\ uedi' = uesi + 4 /\ Arrived(uesi)'
        /\ udst' \in [Offsets -> {-1, -2} \union 0 .. un + 4] /\ utouched' \subseteq 0 .. un - 1
    BY <1>2, <1>3, <1>4, <1>5, MoveArrives
  <2>2. UserTypes'
    BY <2>1, <1>2, <1>5, TypesKept
  <2>3. uecx' \in 0 .. un \div 4 /\ uesi' = 4 * ((un \div 4) - uecx') /\ uedi' = uesi'
    <3> DEFINE d == un \div 4
    <3>1. d \in Nat /\ uecx \in 1 .. d /\ uesi = 4 * (d - uecx)
      BY <1>1, <1>2
    <3> HIDE DEF d
    <3>2. uecx' \in 0 .. d /\ uesi' = 4 * (d - uecx') /\ uedi' = uesi'
      BY <3>1, <2>1, <1>5
    <3> QED BY <3>2 DEF d
  <2> QED BY <2>1, <2>2, <2>3, <1>2, <1>3, <1>5 DEF UserPlaces
<1>6. CASE User!Fixup(User!Residue) /\ uecx' = User!Residue /\ upc' = User!Resume(0).pc /\ uk' = User!Resume(0).k
  <2> DEFINE left == 4 * uecx + (un % 4)
  <2>1. left \in Nat /\ uesi + left = un /\ User!Fixup(left) /\ uecx' = left /\ left >= 4 /\ left <= un
    BY <1>1, <1>2, <1>4, <1>6 DEF User!Residue
  <2> HIDE DEF left
  <2>2. /\ uesi' = uesi /\ uedi' \in 0 .. un /\ (ujob.from => uedi' = un) /\ Settled(uesi)'
        /\ udst' \in [Offsets -> {-1, -2} \union 0 .. un + 4] /\ utouched' \subseteq 0 .. un - 1
    BY <2>1, <1>2, <1>3, <1>4, FixupSettles
  <2>3. CASE User!Overshoots
    <3>1. upc' = "tail" /\ uk' = 2
      BY <2>3, <1>1, <1>6 DEF User!Resume, User!Overshoots
    <3>2. UserTypes'
      BY <2>2, <3>1, <1>2, TypesKept
    <3>3. uecx' \in 3 .. un /\ uesi' = un - uecx' /\ uedi' = un
      BY <2>1, <2>2, <2>3, <1>1, <1>3, <1>4
    <3>4. Pending'
      <4>1. Settled(un - uecx)'
        BY <2>1, <2>2, <3>3, <1>1, <1>3, <1>4 DEF Settled
      <4> QED BY <4>1, <3>1, <3>3, <2>3, <1>3 DEF Pending
    <3> QED BY <3>1, <3>2, <3>4, <2>3, <1>3 DEF UserPlaces
  <2>4. CASE ~User!Overshoots
    <3>1. upc' = "end" /\ uk' = 3
      BY <2>4, <1>1, <1>6 DEF User!Resume, User!Overshoots
    <3>2. UserTypes'
      BY <2>2, <3>1, <1>2, TypesKept
    <3>3. uecx' \in 0 .. un /\ Settled(un - uecx)' /\ uesi' \in 0 .. un /\ uedi' \in 0 .. un + 1
      <4>1. un - uecx' = uesi'
        BY <2>1, <2>2, <1>1, <1>4
      <4>2. Settled(un - uecx)'
        BY <4>1, <2>2, <1>3 DEF Settled
      <4> QED BY <4>2, <2>1, <2>2, <1>1, <1>4
    <3> QED BY <3>1, <3>2, <3>3, <1>2, <1>3 DEF UserPlaces
  <2> QED BY <2>3, <2>4
<1> QED BY <1>5, <1>6 DEF User!Movsl

LEMMA UserMovslEndsKeeps ==
  ASSUME UserInv, User!MovslEnds
  PROVE  UserInv'
<1> USE DEF UserInv
<1>1. /\ un \in Nat /\ un \div 4 \in Nat /\ un % 4 \in 0 .. 3 /\ un = 4 * (un \div 4) + (un % 4)
      /\ ujob.kind \in {"generic", "constant", "single"} /\ User!Rest = un % 4
  BY UserFacts
<1>2. /\ uk = 1 /\ uecx = 0 /\ uesi = 4 * ((un \div 4) - uecx) /\ uedi = uesi /\ Arrived(uesi)
      /\ ujob.kind # "single" /\ UserFrame /\ upc = "movsl"
  BY DEF User!MovslEnds, UserPlaces, UserFrame
<1>3. /\ un' = un /\ Offsets' = Offsets /\ uret' = 0 /\ ~User!Refused' /\ ujob' = ujob
  BY <1>2, FrameFacts DEF UserFrame
<1>4. uesi = un - (un % 4)
  <2> DEFINE d == un \div 4
             r == un % 4
  <2>1. un = 4 * d + r /\ d \in Nat /\ r \in 0 .. 3 /\ uesi = 4 * (d - uecx) /\ uecx = 0
    BY <1>1, <1>2
  <2> HIDE DEF d, r
  <2>2. uesi = un - r
    BY <2>1
  <2> QED BY <2>2 DEF r
<1>5. UNCHANGED <<uk, uesi, uedi, udst, utouched>>
  BY DEF User!MovslEnds
<1>6. upc' \in {"movsb", "tail"}
  BY DEF User!MovslEnds
<1>7. UserTypes'
  BY <1>2, <1>5, <1>6, TypesKept DEF UserTypes
<1>8. Arrived(uesi)'
  BY <1>2, <1>3, <1>5 DEF Arrived
<1>9. CASE ujob.kind = "generic"
  <2>1. upc' = "movsb" /\ uecx' = un % 4
    BY <1>9, <1>1 DEF User!MovslEnds
  <2> QED BY <2>1, <1>1, <1>2, <1>3, <1>4, <1>5, <1>7, <1>8, <1>9 DEF UserPlaces
<1>10. CASE ujob.kind = "constant"
  <2>1. upc' = "tail" /\ uecx' = 0
    BY <1>10, <1>2 DEF User!MovslEnds
  <2> QED BY <2>1, <1>1, <1>2, <1>3, <1>4, <1>5, <1>7, <1>8, <1>10 DEF UserPlaces
<1> QED BY <1>9, <1>10, <1>1, <1>2

LEMMA UserMovsbKeeps ==
  ASSUME UserInv, User!Movsb
  PROVE  UserInv'
<1> USE DEF UserInv
<1>1. un \in Nat /\ un % 4 \in 0 .. 3 /\ un % 4 <= un
  <2>1. un \in Nat /\ un % 4 \in 0 .. 3 /\ un \div 4 \in Nat /\ un = 4 * (un \div 4) + (un % 4)
    BY UserFacts
  <2> QED BY <2>1
<1>2. /\ uk = 1 /\ uecx \in 1 .. un % 4 /\ uesi = un - uecx /\ uedi = uesi /\ Arrived(uesi)
      /\ ujob.kind = "generic" /\ UserFrame /\ upc = "movsb" /\ uk' = uk
  BY DEF User!Movsb, UserPlaces, UserFrame
<1>3. /\ un' = un /\ Offsets' = Offsets /\ uret' = 0 /\ ~User!Refused' /\ ujob' = ujob
  BY <1>2, FrameFacts DEF UserFrame
<1>4. uesi \in 0 .. un /\ uesi + 1 <= un /\ uesi + uecx = un /\ uecx \in Nat
  BY <1>1, <1>2
<1>5. CASE User!Move(1) /\ uecx' = uecx - 1 /\ upc' = upc
  <2>1. /\ uesi' = uesi + 1 /\ uedi' = uesi + 1 /\ Arrived(uesi)'
        /\ udst' \in [Offsets -> {-1, -2} \union 0 .. un + 4] /\ utouched' \subseteq 0 .. un - 1
    BY <1>2, <1>3, <1>4, <1>5, MoveArrives
  <2>2. UserTypes'
    BY <2>1, <1>2, <1>5, TypesKept
  <2>3. uecx' \in 0 .. un % 4 /\ uesi' = un - uecx'
    BY <2>1, <1>1, <1>2, <1>5
  <2> QED BY <2>1, <2>2, <2>3, <1>2, <1>3, <1>5 DEF UserPlaces
<1>6. CASE User!Fixup(uecx) /\ uecx' = uecx /\ upc' = "end"
  <2>1. /\ uesi' = uesi /\ uedi' \in 0 .. un /\ (ujob.from => uedi' = un) /\ Settled(uesi)'
        /\ udst' \in [Offsets -> {-1, -2} \union 0 .. un + 4] /\ utouched' \subseteq 0 .. un - 1
    BY <1>2, <1>3, <1>4, <1>6, FixupSettles
  <2>2. UserTypes'
    BY <2>1, <1>2, <1>6, TypesKept
  <2>3. Settled(un - uecx)'
    <3>1. un - uecx' = uesi'
      BY <2>1, <1>1, <1>4, <1>6
    <3> QED BY <3>1, <2>1, <1>3 DEF Settled
  <2>4. uecx' \in 0 .. un /\ uesi' \in 0 .. un /\ uedi' \in 0 .. un + 1
    BY <2>1, <1>1, <1>4, <1>6
  <2> QED BY <2>2, <2>3, <2>4, <1>2, <1>3, <1>6 DEF UserPlaces
<1> QED BY <1>5, <1>6 DEF User!Movsb

LEMMA UserReturnKeeps ==
  ASSUME UserInv, User!Return
  PROVE  UserInv'
<1> USE DEF UserInv
<1>1. un \in Nat /\ un % 4 \in 0 .. 3 /\ un % 4 <= un /\ User!Rest = un % 4
  <2>1. un \in Nat /\ un % 4 \in 0 .. 3 /\ un \div 4 \in Nat /\ un = 4 * (un \div 4) + (un % 4) /\ User!Rest = un % 4
    BY UserFacts
  <2> QED BY <2>1
<1>2. upc \in {"end", "movsb", "tail"} /\ upc' = "done" /\ uret' = uecx /\ ujob.kind # "single" /\ ~User!Refused
  BY DEF User!Return, UserPlaces
<1>3. UNCHANGED <<ujob, ubase, umapped, uk, uecx, uesi, uedi, udst, utouched>>
  BY DEF User!Return
<1>4. un' = un /\ Offsets' = Offsets /\ (User!Refused' <=> User!Refused)
  BY <1>3 DEF un, Offsets, User!Refused, User!RangeOk
<1>5. User!Overshoots' = User!Overshoots /\ User!Twice' = User!Twice /\ User!Twice \in 0 .. 1 /\ (User!Overshoots => User!Twice = 1)
  BY <1>3 DEF User!Overshoots, User!Twice, User!Zeroing, User!Rest
<1>6. UserTypes'
  BY <1>2, <1>3, <1>4 DEF UserTypes, User!Extents, User!Margin, un
<1>7. \/ uecx \in 0 .. un /\ Settled(un - uecx) /\ uesi \in 0 .. un /\ uedi \in 0 .. un + 1
      \/ Behind
  <2>1. CASE upc = "end"
    BY <2>1 DEF UserPlaces
  <2>2. CASE upc = "movsb"
    <3>1. uecx = 0 /\ uesi = un - uecx /\ uedi = uesi /\ Arrived(uesi)
      BY <2>2, <1>2 DEF User!Return, UserPlaces
    <3>2. Settled(un - uecx)
      BY <3>1, <1>1 DEF Arrived, Settled, Offsets
    <3> QED BY <3>1, <3>2, <1>1
  <2>3. CASE upc = "tail" /\ ~Behind
    <3>0. ~Pending
      <4>1. CASE Pending
        <5>1. User!Rest = 3 /\ uk = 2
          BY <4>1 DEF Pending, User!Overshoots
        <5>2. Len(User!TailMoves(User!Rest)) = 2
          BY <5>1 DEF User!TailMoves
        <5> QED BY <5>1, <5>2, <2>3 DEF User!Return
      <4> QED BY <4>1
    <3>1. /\ uecx = 0 /\ uedi = uesi /\ Arrived(uesi)
          /\ uesi = IF uk = 1 THEN un - (un % 4) ELSE IF uk = 2 /\ un % 4 = 3 THEN un - 1 ELSE un
          /\ un % 4 = 0 => uk = 1
          /\ uk = 3 => un % 4 = 3
      BY <2>3, <3>0 DEF UserPlaces
    <3>2. uk > Len(User!TailMoves(un % 4)) /\ uk \in 1 .. 3
      BY <2>3, <1>1 DEF User!Return, UserTypes
    <3> DEFINE moves == Len(User!TailMoves(un % 4))
    <3>a. (un % 4 = 3 => moves = 2) /\ (un % 4 \in {1, 2} => moves = 1) /\ uk > moves
      BY <3>2 DEF User!TailMoves
    <3> HIDE DEF moves
    <3>3. un % 4 = 3 => uk = 3
      BY <3>a, <3>2
    <3>4. un % 4 \in {1, 2} => uk # 1
      BY <3>a, <3>2
    <3>5. uesi = un
      <4> DEFINE r == un % 4
      <4>1. /\ uesi = IF uk = 1 THEN un - r ELSE IF uk = 2 /\ r = 3 THEN un - 1 ELSE un
            /\ r = 3 => uk = 3
            /\ r \in {1, 2} => uk # 1
            /\ r \in 0 .. 3
        BY <3>1, <3>3, <3>4, <1>1
      <4> HIDE DEF r
      <4> QED BY <4>1, <3>2, <1>1
    <3>6. Settled(un - uecx)
      BY <3>1, <3>5, <1>1 DEF Arrived, Settled, Offsets
    <3> QED BY <3>1, <3>5, <3>6, <1>1
  <2> QED BY <2>1, <2>2, <2>3, <1>2
<1>8. CASE uecx \in 0 .. un /\ Settled(un - uecx) /\ uesi \in 0 .. un /\ uedi \in 0 .. un + 1
  <2>1. Settled(un - uret)' /\ uret' \in 0 .. un
    BY <1>8, <1>2, <1>3, <1>4 DEF Settled
  <2>2. uecx' \in 0 .. un' + User!Twice' /\ uesi' \in 0 .. un' + 1 /\ uedi' \in 0 .. un' + 1
    BY <1>8, <1>1, <1>3, <1>4, <1>5
  <2> QED BY <2>1, <2>2, <1>2, <1>3, <1>4, <1>6 DEF UserPlaces
<1>9. CASE Behind
  <2>1. Behind' /\ uret' = uecx'
    BY <1>9, <1>2, <1>3, <1>4, <1>5 DEF Behind, SettledBut
  <2>2. uecx' \in 0 .. un' + User!Twice' /\ uesi' \in 0 .. un' + 1 /\ uedi' \in 0 .. un' + 1
    BY <1>9, <1>1, <1>3, <1>4, <1>5 DEF Behind
  <2> QED BY <2>1, <2>2, <1>2, <1>3, <1>4, <1>6 DEF UserPlaces
<1> QED BY <1>7, <1>8, <1>9

LEMMA UserRemapKeeps ==
  ASSUME UserInv, User!Remap
  PROVE  UserInv'
<1>1. UNCHANGED <<ujob, ubase, upc, uk, uecx, uesi, uedi, udst, uret, utouched>> /\ umapped' \in User!Extents
  BY DEF User!Remap
<1>2. un' = un /\ Offsets' = Offsets /\ User!Extents' = User!Extents
  BY <1>1 DEF un, Offsets, User!Extents
<1>3. (User!Refused' <=> User!Refused) /\ User!Twice' = User!Twice /\ (User!Overshoots' <=> User!Overshoots)
  BY <1>1 DEF User!Refused, User!RangeOk, User!Overshoots, User!Twice, User!Zeroing, User!Rest
<1>4. UserTypes'
  BY <1>1, <1>2 DEF UserInv, UserTypes
<1>5. UserPlaces'
  BY <1>1, <1>2, <1>3 DEF UserInv, UserPlaces, Arrived, Settled, SettledBut, Pending, Behind
<1> QED BY <1>4, <1>5 DEF UserInv

LEMMA UserRestKeeps ==
  ASSUME UserInv, UNCHANGED uservars
  PROVE  UserInv'
<1>1. UNCHANGED <<ujob, ubase, umapped, upc, uk, uecx, uesi, uedi, udst, uret, utouched>>
  BY DEF uservars
<1>2. un' = un /\ Offsets' = Offsets /\ User!Extents' = User!Extents
  BY <1>1 DEF un, Offsets, User!Extents
<1>3. (User!Refused' <=> User!Refused) /\ User!Twice' = User!Twice /\ (User!Overshoots' <=> User!Overshoots)
  BY <1>1 DEF User!Refused, User!RangeOk, User!Overshoots, User!Twice, User!Zeroing, User!Rest
<1>4. UserTypes'
  BY <1>1, <1>2 DEF UserInv, UserTypes
<1>5. UserPlaces'
  BY <1>1, <1>2, <1>3 DEF UserInv, UserPlaces, Arrived, Settled, SettledBut, Pending, Behind
<1> QED BY <1>4, <1>5 DEF UserInv

LEMMA TailsTwo ==
  User!Overshoots => Len(User!TailMoves(User!Rest)) = 2
<1>1. User!Overshoots => User!TailMoves(User!Rest) = <<2, 1>>
  BY DEF User!Overshoots, User!TailMoves
<1> QED BY <1>1

(* The moves that are left, one by one.                                    *)
LEMMA Tails ==
  ASSUME UserTypes, ujob.kind = "constant", uk <= Len(User!TailMoves(User!Rest))
  PROVE  LET w == User!TailMoves(User!Rest)[uk]
             b == User!TailBytes(uk)
         IN \/ un % 4 \in {1, 2} /\ uk = 1 /\ w = un % 4 /\ b = un % 4
               /\ User!Resume(uk) = [pc |-> "end", k |-> 3]
            \/ un % 4 = 3 /\ uk = 1 /\ w = 2 /\ b = 3
               /\ User!Resume(uk) = IF ujob.from THEN [pc |-> "tail", k |-> 2] ELSE [pc |-> "end", k |-> 3]
            \/ un % 4 = 3 /\ uk = 2 /\ w = 1 /\ b = 1
               /\ User!Resume(uk) = [pc |-> "end", k |-> 3]
<1> DEFINE r == un % 4
<1>1. r \in 0 .. 3 /\ User!Rest = r /\ uk \in 1 .. 3 /\ ujob.from \in BOOLEAN /\ (User!Zeroing <=> ujob.from)
  BY UserFacts DEF UserTypes
<1> HIDE DEF r
<1>2. uk <= Len(User!TailMoves(r)) /\ User!TailMoves(User!Rest)[uk] = User!TailMoves(r)[uk]
  BY <1>1
<1>3. CASE r = 0
  <2>1. Len(User!TailMoves(r)) = 0
    BY <1>3 DEF User!TailMoves
  <2> QED BY <2>1, <1>1, <1>2
<1>4. CASE r \in {1, 2}
  <2>1. User!TailMoves(r) = <<r>>
    BY <1>4 DEF User!TailMoves
  <2>2. uk = 1 /\ User!TailMoves(r)[uk] = r
    BY <2>1, <1>1, <1>2
  <2>3. User!TailBytes(uk) = r /\ User!Resume(uk) = [pc |-> "end", k |-> 3]
    BY <2>2, <1>1, <1>4 DEF User!TailBytes, User!Resume
  <2> QED BY <2>2, <2>3, <1>2, <1>4 DEF r
<1>5. CASE r = 3
  <2>1. User!TailMoves(r) = <<2, 1>>
    BY <1>5 DEF User!TailMoves
  <2>2. uk \in {1, 2} /\ (uk = 1 => User!TailMoves(r)[uk] = 2) /\ (uk = 2 => User!TailMoves(r)[uk] = 1)
    BY <2>1, <1>1, <1>2
  <2>3. (uk = 1 => User!TailBytes(uk) = 3) /\ (uk = 2 => User!TailBytes(uk) = 1)
    BY <2>2, <1>1, <1>5 DEF User!TailBytes
  <2>4. /\ uk = 1 => User!Resume(uk) = IF ujob.from THEN [pc |-> "tail", k |-> 2] ELSE [pc |-> "end", k |-> 3]
        /\ uk = 2 => User!Resume(uk) = [pc |-> "end", k |-> 3]
    BY <2>2, <1>1, <1>5 DEF User!Resume
  <2> QED BY <2>2, <2>3, <2>4, <1>2, <1>5 DEF r
<1> QED BY <1>1, <1>3, <1>4, <1>5

LEMMA UserTailKeeps ==
  ASSUME UserInv, User!Tail1, ~Pending
  PROVE  UserInv'
<1> USE DEF UserInv
<1> DEFINE w == User!TailMoves(User!Rest)[uk]
           b == User!TailBytes(uk)
           r == un % 4
<1>1. un \in Nat /\ r \in 0 .. 3 /\ r <= un /\ ujob.from \in BOOLEAN
  <2>1. un \in Nat /\ un % 4 \in 0 .. 3 /\ un \div 4 \in Nat /\ un = 4 * (un \div 4) + (un % 4) /\ ujob.from \in BOOLEAN
    BY UserFacts
  <2> QED BY <2>1
<1>a. ~Behind
  BY TailsTwo DEF User!Tail1, Behind
<1>2. /\ upc = "tail" /\ ujob.kind = "constant" /\ UserFrame /\ uecx = 0 /\ uedi = uesi /\ Arrived(uesi)
      /\ uesi = (IF uk = 1 THEN un - r ELSE IF uk = 2 /\ r = 3 THEN un - 1 ELSE un)
  BY <1>a DEF User!Tail1, UserPlaces, UserFrame
<1>3. /\ un' = un /\ Offsets' = Offsets /\ uret' = 0 /\ (User!Overshoots' <=> User!Overshoots) /\ ~User!Refused'
      /\ (User!Overshoots <=> ujob.kind = "constant" /\ ujob.from /\ r = 3) /\ ujob' = ujob
  BY <1>2, FrameFacts DEF UserFrame
<1>4. \/ r \in {1, 2} /\ uk = 1 /\ w = r /\ b = r /\ User!Resume(uk) = [pc |-> "end", k |-> 3]
      \/ /\ r = 3 /\ uk = 1 /\ w = 2 /\ b = 3
         /\ User!Resume(uk) = IF ujob.from THEN [pc |-> "tail", k |-> 2] ELSE [pc |-> "end", k |-> 3]
      \/ r = 3 /\ uk = 2 /\ w = 1 /\ b = 1 /\ User!Resume(uk) = [pc |-> "end", k |-> 3]
  BY <1>2, Tails DEF User!Tail1
<1>5. \/ User!Move(w) /\ uk' = uk + 1 /\ UNCHANGED <<upc, uecx>>
      \/ User!Fixup(b) /\ uecx' = uecx + b /\ upc' = User!Resume(uk).pc /\ uk' = User!Resume(uk).k
  BY DEF User!Tail1
<1> HIDE DEF w, b
<1>6. (r = 3 => un' % 4 = 3) /\ (r \in {1, 2} => un' % 4 \in {1, 2}) /\ un' % 4 = r
  BY <1>3
<1> HIDE DEF r
<1>7. uesi \in 0 .. un /\ uesi + w <= un /\ uesi + b = un /\ w \in 1 .. 4 /\ b \in 1 .. 3 /\ b <= un /\ uk \in 1 .. 2
  BY <1>1, <1>2, <1>4
<1>8. CASE User!Move(w) /\ uk' = uk + 1 /\ UNCHANGED <<upc, uecx>>
  <2>1. /\ uesi' = uesi + w /\ uedi' = uesi + w /\ Arrived(uesi)'
        /\ udst' \in [Offsets -> {-1, -2} \union 0 .. un + 4] /\ utouched' \subseteq 0 .. un - 1
    BY <1>2, <1>3, <1>7, <1>8, MoveArrives
  <2>2. UserTypes'
    BY <2>1, <1>2, <1>7, <1>8, TypesKept
  <2>3. uesi' = (IF uk' = 1 THEN un - r ELSE IF uk' = 2 /\ r = 3 THEN un - 1 ELSE un) /\ r # 0 /\ (uk' = 3 => r = 3)
    BY <2>1, <1>1, <1>2, <1>4, <1>7, <1>8
  <2> QED BY <2>1, <2>2, <2>3, <1>2, <1>3, <1>6, <1>8 DEF UserPlaces
<1>9. CASE User!Fixup(b) /\ uecx' = uecx + b /\ upc' = User!Resume(uk).pc /\ uk' = User!Resume(uk).k
  <2>1. /\ uesi' = uesi /\ uedi' \in 0 .. un /\ (ujob.from => uedi' = un) /\ Settled(uesi)'
        /\ udst' \in [Offsets -> {-1, -2} \union 0 .. un + 4] /\ utouched' \subseteq 0 .. un - 1
    BY <1>2, <1>3, <1>7, <1>9, FixupSettles
  <2>2. uecx' = b /\ uesi' = un - b
    BY <2>1, <1>1, <1>2, <1>7, <1>9
  <2>3. CASE r = 3 /\ uk = 1 /\ ujob.from
    <3>1. upc' = "tail" /\ uk' = 2
      BY <2>3, <1>4, <1>9
    <3>2. UserTypes'
      BY <2>1, <3>1, <1>2, TypesKept
    <3>3. b = 3 /\ uecx' \in 3 .. un /\ uesi' = un - uecx' /\ uedi' = un
      BY <2>1, <2>2, <2>3, <1>1, <1>4, <1>7
    <3>4. Pending'
      <4>1. Settled(un - uecx)'
        BY <2>1, <3>3, <1>1, <1>3 DEF Settled
      <4> QED BY <4>1, <3>1, <3>3, <2>3, <1>2, <1>3 DEF Pending
    <3> QED BY <3>1, <3>2, <3>4, <1>2, <1>3 DEF UserPlaces
  <2>4. CASE ~(r = 3 /\ uk = 1 /\ ujob.from)
    <3>1. upc' = "end" /\ uk' = 3
      BY <2>4, <1>4, <1>9
    <3>2. UserTypes'
      BY <2>1, <3>1, <1>2, TypesKept
    <3>3. uecx' \in 0 .. un /\ Settled(un - uecx)' /\ uesi' \in 0 .. un /\ uedi' \in 0 .. un + 1
      <4>1. un - uecx' = uesi'
        BY <2>2, <1>1, <1>7
      <4>2. Settled(un - uecx)'
        BY <4>1, <2>1, <1>3 DEF Settled
      <4> QED BY <4>2, <2>1, <2>2, <1>1, <1>7
    <3> QED BY <3>1, <3>2, <3>3, <1>2, <1>3 DEF UserPlaces
  <2> QED BY <2>3, <2>4
<1> QED BY <1>5, <1>8, <1>9

LEMMA UserOvershotKeeps ==
  ASSUME UserInv, User!Tail1, Pending
  PROVE  UserInv'
<1> USE DEF UserInv
<1>1. un \in Nat /\ un > 0 /\ un % 4 = 3 /\ User!Rest = un % 4 /\ DOMAIN udst = Offsets
  <2>1. un \in Nat /\ User!Rest = un % 4 /\ DOMAIN udst = Offsets
    BY UserFacts
  <2>2. un % 4 = 3
    BY <2>1 DEF Pending, User!Overshoots
  <2>3. un # 0
    BY <2>2
  <2> QED BY <2>1, <2>2, <2>3
<1>2. User!TailMoves(User!Rest) = <<2, 1>>
  BY <1>1 DEF User!TailMoves
<1>3. /\ upc = "tail" /\ ujob.kind = "constant" /\ ujob.from /\ UserFrame /\ uk = 2
      /\ uecx \in 3 .. un /\ uesi = un - uecx /\ uesi \in 0 .. un /\ uesi < un /\ uedi = un
  <2>1. uk = 2 /\ uecx \in 3 .. un /\ uesi = un - uecx /\ uedi = un
    BY DEF Pending
  <2>2. upc = "tail" /\ ujob.kind = "constant" /\ ujob.from /\ UserFrame
    BY DEF User!Tail1, UserPlaces, UserFrame, Pending, User!Overshoots, User!Zeroing
  <2> QED BY <2>1, <2>2, <1>1
<1>4. /\ un' = un /\ Offsets' = Offsets /\ uret' = 0 /\ User!Overshoots' /\ ~User!Refused'
      /\ ujob' = ujob /\ ujob'.from
  BY <1>3, FrameFacts DEF UserFrame, Pending
<1>5. User!TailMoves(User!Rest)[uk] = 1 /\ User!TailBytes(uk) = 1 /\ User!Resume(uk) = [pc |-> "end", k |-> 3]
  BY <1>1, <1>2, <1>3 DEF User!TailBytes, User!Resume
<1>6. \A j \in Offsets : udst[j] = IF j < uesi THEN j ELSE IF j < un THEN -2 ELSE -1
  BY <1>3 DEF Pending, Settled
<1>7. \A j \in Offsets : udst[j] \in {-1, -2} \union 0 .. un + 4
  BY DEF UserTypes
<1>8. CASE User!Move(1) /\ uk' = uk + 1 /\ UNCHANGED <<upc, uecx>>
  <2>1. udst' = [j \in Offsets |-> IF j \in un .. un + 1 - 1 THEN uesi + (j - un) ELSE udst[j]]
    BY <1>1, <1>3, <1>8 DEF User!Move
  <2>2. uesi' = uesi + 1 /\ uedi' = un + 1 /\ utouched' = utouched \union uesi .. uesi + 1 - 1
    BY <1>3, <1>8 DEF User!Move, User!UserBytes
  <2>3. \A j \in Offsets : /\ udst'[j] \in {-1, -2} \union 0 .. un + 4
                           /\ j # un => udst'[j] = IF j < uesi THEN j ELSE IF j < un THEN -2 ELSE -1
    BY <2>1, <1>1, <1>3, <1>6, <1>7 DEF Offsets
  <2>4. udst' \in [Offsets -> {-1, -2} \union 0 .. un + 4] /\ utouched' \subseteq 0 .. un - 1
    BY <2>1, <2>2, <2>3, <1>1, <1>3 DEF UserTypes
  <2>5. upc' = "tail" /\ uk' = 3 /\ uecx' = uecx /\ uecx = un - uesi
    <3>1. upc' = "tail" /\ uk' = 3 /\ uecx' = uecx
      BY <1>3, <1>8
    <3>2. uecx = un - uesi
      BY <1>1, <1>3
    <3> QED BY <3>1, <3>2
  <2>6. UserTypes'
    BY <2>4, <2>5, <1>3, TypesKept
  <2>7. Behind'
    <3>0. uesi = un' - uecx'
      BY <2>5, <1>1, <1>3, <1>4
    <3>1. SettledBut(un - uecx)'
      BY <2>3, <3>0, <1>4 DEF SettledBut
    <3>2. uecx' \in 3 .. un /\ uesi' \in 0 .. un /\ uedi' = un + 1
      BY <2>2, <2>5, <1>1, <1>3
    <3> QED BY <3>1, <3>2, <2>5, <1>1, <1>4 DEF Behind
  <2> QED BY <2>5, <2>6, <2>7, <1>3, <1>4 DEF UserPlaces
<1>9. CASE User!Fixup(1) /\ uecx' = uecx + 1 /\ upc' = "end" /\ uk' = 3
  <2>1. udst' = [j \in Offsets |-> IF j \in un .. un + 1 - 1 THEN -2 ELSE udst[j]]
    BY <1>1, <1>3, <1>9 DEF User!Fixup, User!Clear, User!Zero, User!Zeroing
  <2>2. uesi' = uesi /\ uedi' = un + 1 /\ utouched' = utouched
    BY <1>3, <1>9 DEF User!Fixup, User!Clear, User!Zeroing
  <2>3. \A j \in Offsets : /\ udst'[j] \in {-1, -2} \union 0 .. un + 4
                           /\ j # un => udst'[j] = IF j < uesi THEN j ELSE IF j < un THEN -2 ELSE -1
    BY <2>1, <1>1, <1>6, <1>7 DEF Offsets
  <2>4. udst' \in [Offsets -> {-1, -2} \union 0 .. un + 4] /\ utouched' \subseteq 0 .. un - 1
    BY <2>1, <2>2, <2>3 DEF UserTypes
  <2>5. uecx' \in 4 .. un + 1 /\ un - (uecx' - 1) = uesi /\ udst'[un] = -2
    BY <1>1, <1>3, <1>9, <2>1 DEF Offsets
  <2>6. UserTypes'
    BY <2>4, <1>9, <1>3, TypesKept
  <2>7. Behind'
    <3>0. uesi = un' - (uecx' - 1)
      BY <2>5, <1>4
    <3>1. SettledBut(un - (uecx - 1))'
      BY <2>3, <3>0, <1>4 DEF SettledBut
    <3>2. uecx' \in 3 .. un + 1 /\ uecx' > 3 /\ uesi' \in 0 .. un /\ uedi' = un + 1
      BY <2>2, <2>5, <1>1, <1>3
    <3> QED BY <3>1, <3>2, <2>5, <1>1, <1>4, <1>9 DEF Behind
  <2>8. uesi' \in 0 .. un /\ uedi' \in 0 .. un + 1
    BY <2>2, <1>1, <1>3
  <2> QED BY <2>6, <2>7, <2>8, <1>3, <1>4, <1>9 DEF UserPlaces
<1> QED BY <1>5, <1>8, <1>9 DEF User!Tail1

LEMMA UserStepKeeps ==
  ASSUME UserInv, User!Step \/ User!Remap \/ User!Done \/ UNCHANGED uservars
  PROVE  UserInv'
<1>1. CASE User!Check BY <1>1, UserCheckKeeps
<1>2. CASE User!Single BY <1>2, UserSingleKeeps
<1>3. CASE User!Movsl BY <1>3, UserMovslKeeps
<1>4. CASE User!MovslEnds BY <1>4, UserMovslEndsKeeps
<1>5. CASE User!Movsb BY <1>5, UserMovsbKeeps
<1>6. CASE User!Tail1 BY <1>6, UserTailKeeps, UserOvershotKeeps
<1>7. CASE User!Return BY <1>7, UserReturnKeeps
<1>8. CASE User!Remap BY <1>8, UserRemapKeeps
<1>9. CASE User!Done \/ UNCHANGED uservars
  <2>1. UNCHANGED uservars
    BY <1>9 DEF User!Done, User!vars, uservars
  <2> QED BY <2>1, UserRestKeeps
<1> QED BY <1>1, <1>2, <1>3, <1>4, <1>5, <1>6, <1>7, <1>8, <1>9 DEF User!Step

(* A range that does not wrap round is compared as it is.                  *)
LEMMA RangeCompared ==
  ASSUME UserTypes
  PROVE  /\ User!RangeOk(ubase, un) => ubase + un <= UserLimit
         /\ ~User!RangeOk(ubase, un) => ubase + un > UserLimit
<1>1. ubase \in Nat /\ un \in Nat /\ UserWord \in Nat /\ UserLimit \in Nat /\ UserLimit < UserWord
  BY UserFacts
<1> DEFINE sum == ubase + un
<1>2. sum \in Nat
  BY <1>1
<1>3. User!RangeOk(ubase, un) <=> sum < UserWord /\ sum % UserWord <= UserLimit
  BY DEF User!RangeOk
<1> HIDE DEF sum
<1>4. sum < UserWord => sum % UserWord = sum
  BY <1>1, <1>2, SMTT(30)
<1>5. (User!RangeOk(ubase, un) => sum <= UserLimit) /\ (~User!RangeOk(ubase, un) => sum > UserLimit)
  BY <1>1, <1>2, <1>3, <1>4
<1> QED BY <1>5 DEF sum

(* The watched bytes, the accesses and the result of a transfer.           *)
LEMMA UserKept ==
  ASSUME UserInv
  PROVE  User!Inside /\ User!UserOnly /\ User!TypeOK /\ User!Accounted /\ User!AcceptsUser
<1> USE DEF UserInv
<1>1. /\ un \in Nat /\ un \div 4 \in Nat /\ un % 4 \in 0 .. 3 /\ un = 4 * (un \div 4) + (un % 4)
      /\ DOMAIN udst = Offsets /\ (User!Zeroing <=> ujob.from) /\ ubase \in Nat /\ UserLimit \in Nat
  BY UserFacts
<1>2. un \div 4 <= un /\ un % 4 <= un
  BY <1>1
<1>3. User!Twice \in 0 .. 1 /\ (User!Overshoots => User!Twice = 1)
  BY DEF User!Twice
<1>a. Behind => User!Overshot
  BY DEF Behind, User!Overshot, un
<1>4. \A j \in Offsets : j >= un => udst[j] = -1 \/ (Behind /\ j = un)
  <2>1. CASE Behind
    BY <2>1, <1>1 DEF Behind, SettledBut, Offsets
  <2>2. CASE ~Behind
    <3>1. \/ \E d \in 0 .. un : Arrived(d)
          \/ \E d \in 0 .. un : Settled(d)
      <4>1. CASE upc \in {"start", "mov", "movsl", "movsb"}
        <5>1. uesi \in 0 .. un /\ Arrived(uesi)
          <6>1. CASE upc \in {"start", "mov"}
            BY <6>1, <1>1 DEF UserPlaces
          <6>2. CASE upc = "movsl"
            <7> DEFINE d == un \div 4
                       r == un % 4
            <7>1. uecx \in 0 .. d /\ uesi = 4 * (d - uecx) /\ Arrived(uesi)
              BY <6>2 DEF UserPlaces
            <7>2. d \in Nat /\ r \in 0 .. 3 /\ un = 4 * d + r
              BY <1>1
            <7> HIDE DEF d, r
            <7> QED BY <7>1, <7>2
          <6>3. CASE upc = "movsb"
            <7> DEFINE r == un % 4
            <7>1. uecx \in 0 .. r /\ uesi = un - uecx /\ Arrived(uesi) /\ r \in 0 .. 3 /\ r <= un
              BY <6>3, <1>1, <1>2 DEF UserPlaces
            <7> HIDE DEF r
            <7> QED BY <7>1, <1>1
          <6> QED BY <4>1, <6>1, <6>2, <6>3
        <5> QED BY <5>1
      <4>2. CASE upc = "tail" /\ Pending
        <5>1. un - uecx \in 0 .. un /\ Settled(un - uecx)
          BY <4>2, <1>1 DEF Pending
        <5> QED BY <5>1
      <4>5. CASE upc = "tail" /\ ~Pending
        <5> DEFINE r == un % 4
        <5>1. Arrived(uesi) /\ uesi = (IF uk = 1 THEN un - r ELSE IF uk = 2 /\ r = 3 THEN un - 1 ELSE un)
          BY <4>5, <2>2 DEF UserPlaces
        <5>2. r \in 0 .. 3 /\ r <= un
          BY <1>1, <1>2
        <5> HIDE DEF r
        <5>3. uesi \in 0 .. un
          BY <5>1, <5>2, <1>1
        <5> QED BY <5>1, <5>3
      <4>3. CASE upc = "end"
        <5>1. uecx \in 0 .. un /\ Settled(un - uecx)
          BY <4>3, <2>2 DEF UserPlaces
        <5>2. un - uecx \in 0 .. un
          BY <5>1, <1>1
        <5> QED BY <5>1, <5>2
      <4>4. CASE upc = "done"
        <5>1. Arrived(0) \/ Settled(un) \/ Settled(0) \/ (uret \in 0 .. un /\ Settled(un - uret))
          BY <4>4, <2>2 DEF UserPlaces
        <5>2. 0 \in 0 .. un /\ un \in 0 .. un
          BY <1>1
        <5>3. uret \in 0 .. un => un - uret \in 0 .. un
          BY <1>1
        <5> QED BY <5>1, <5>2, <5>3
      <4> QED BY <4>1, <4>2, <4>3, <4>4, <4>5 DEF UserTypes
    <3> QED BY <3>1, <1>1 DEF Arrived, Settled, Offsets
  <2> QED BY <2>1, <2>2
<1>5. User!Inside
  BY <1>1, <1>4, <1>a DEF User!Inside, User!Old, un
<1>6. ujob.checked /\ upc # "start" /\ utouched # {} => User!RangeOk(ubase, un)
  BY DEF UserPlaces, User!Refused, un
<1>7. User!UserOnly
  <2> SUFFICES ASSUME ujob.checked, NEW o \in utouched PROVE ubase + o < UserLimit
    BY DEF User!UserOnly
  <2>1. upc # "start" /\ o \in 0 .. un - 1
    BY DEF UserPlaces, UserTypes
  <2>2. ubase + un <= UserLimit
    BY <2>1, <1>6, RangeCompared
  <2> QED BY <2>1, <2>2, <1>1
<1>8. User!TypeOK
  <2>1. uesi \in 0 .. un + 1 /\ uedi \in 0 .. un + 1 /\ uecx \in 0 .. un + User!Twice
    <3>1. CASE upc \in {"start", "mov"}
      BY <3>1, <1>1, <1>2, <1>3 DEF UserPlaces
    <3>2. CASE upc = "movsl"
      <4> DEFINE d == un \div 4
                 r == un % 4
      <4>1. uecx \in 0 .. d /\ uesi = 4 * (d - uecx) /\ uedi = uesi
        BY <3>2 DEF UserPlaces
      <4>2. d \in Nat /\ r \in 0 .. 3 /\ un = 4 * d + r /\ un \in Nat
        BY <1>1
      <4> HIDE DEF d, r
      <4> QED BY <4>1, <4>2, <1>3
    <3>3. CASE upc = "movsb"
      <4> DEFINE r == un % 4
      <4>1. uecx \in 0 .. r /\ uesi = un - uecx /\ uedi = uesi /\ r \in 0 .. 3 /\ r <= un
        BY <3>3, <1>1, <1>2 DEF UserPlaces
      <4> HIDE DEF r
      <4> QED BY <4>1, <1>1, <1>3
    <3>4. CASE upc = "tail" /\ ~Pending /\ ~Behind
      <4> DEFINE r == un % 4
      <4>1. uecx = 0 /\ uedi = uesi /\ uesi = (IF uk = 1 THEN un - r ELSE IF uk = 2 /\ r = 3 THEN un - 1 ELSE un)
        BY <3>4 DEF UserPlaces
      <4>2. r \in 0 .. 3 /\ r <= un /\ (uk = 2 /\ r = 3 => un >= 1)
        BY <1>1, <1>2
      <4> HIDE DEF r
      <4> QED BY <4>1, <4>2, <1>1, <1>3
    <3>5. CASE Pending \/ Behind
      BY <3>5, <1>1, <1>3 DEF Pending, Behind
    <3>6. CASE upc = "end" /\ ~Behind
      BY <3>6, <1>1, <1>3 DEF UserPlaces
    <3>7. CASE upc = "done"
      BY <3>7, <1>1, <1>3 DEF UserPlaces
    <3> QED BY <3>1, <3>2, <3>3, <3>4, <3>5, <3>6, <3>7 DEF UserTypes
  <2>2. uret \in {-14} \union 0 .. un + User!Twice
    <3>1. CASE upc = "done"
      BY <3>1, <1>1, <1>3 DEF UserPlaces, Behind
    <3>2. CASE upc # "done"
      BY <3>2, <1>1, <1>3 DEF UserPlaces
    <3> QED BY <3>1, <3>2
  <2>3. uesi \in 0 .. un + 4 /\ uedi \in 0 .. un + 4 /\ utouched \subseteq 0 .. un + 4
    BY <2>1, <1>1 DEF UserTypes
  <2> QED BY <2>1, <2>2, <2>3 DEF UserTypes, User!TypeOK, User!Margin, User!Old, User!Zero, User!EFAULT, Offsets, un
<1>9. User!Accounted
  <2> SUFFICES ASSUME upc = "done", ~User!Refused
               PROVE  User!Told(User!Missing) \/ (User!Overshot /\ udst[un] = -2 /\ User!Told(uret - 1))
    BY DEF User!Accounted, User!Zero, un
  <2>1. \A m \in 0 .. un + 1 :
          User!Told(m) <=> \A j \in 0 .. un - 1 : udst[j] = IF j < un - m THEN j ELSE IF ujob.from THEN -2 ELSE -1
    BY <1>1 DEF User!Told, User!Old, User!Zero, un
  <2>2. /\ uret = 0 => User!Missing = 0
        /\ uret = -14 => User!Missing = un
        /\ \A m \in 0 .. un + 1 : uret = m => User!Missing = m
    <3>1. \A m \in 0 .. un + 1 : m # -14
      BY <1>1
    <3>2. User!Missing = IF uret = -14 THEN un ELSE uret
      BY DEF User!Missing, User!EFAULT, un
    <3>3. 0 \in 0 .. un + 1
      BY <1>1
    <3> QED BY <3>1, <3>2, <3>3
  <2>3. ASSUME NEW m \in 0 .. un, Settled(un - m) PROVE User!Told(m)
    BY <2>1, <2>3, <1>1 DEF Settled, Offsets
  <2>4. CASE ujob.kind = "single" /\ uret = 0 /\ Settled(un)
    BY <2>2, <2>3, <2>4, <1>1
  <2>5. CASE ujob.kind = "single" /\ uret = -14 /\ Settled(0)
    BY <2>2, <2>3, <2>5, <1>1
  <2>6. CASE ujob.kind # "single" /\ uret \in 0 .. un /\ Settled(un - uret)
    BY <2>2, <2>3, <2>6, <1>1
  <2>7. CASE Behind /\ uret = uecx
    <3>1. ASSUME NEW m \in 0 .. un, SettledBut(un - m) PROVE User!Told(m)
      BY <2>1, <3>1, <1>1 DEF SettledBut, Offsets
    <3>2. CASE uecx <= un /\ SettledBut(un - uecx)
      <4>1. uecx \in 0 .. un /\ User!Missing = uecx
        BY <2>2, <2>7, <3>2, <1>1 DEF Behind
      <4> QED BY <4>1, <3>1, <3>2
    <3>3. CASE udst[un] = -2 /\ uecx > 3 /\ SettledBut(un - (uecx - 1))
      <4>1. uecx - 1 \in 0 .. un
        BY <2>7, <3>3, <1>1 DEF Behind
      <4> QED BY <4>1, <3>1, <3>3, <2>7, <1>a
    <3> QED BY <2>7, <3>2, <3>3 DEF Behind
  <2> QED BY <2>4, <2>5, <2>6, <2>7 DEF UserPlaces
<1>10. User!AcceptsUser
  BY RangeCompared DEF User!AcceptsUser, User!Refused, un
<1> QED BY <1>5, <1>7, <1>8, <1>9, <1>10
-----------------------------------------------------------------------------
(* The image builder.  What has been written is the boot sector, setup,    *)
(* what fills it up to Room, and the system, in this order.                *)
Room == bsectors * Sector
Needed == IF Image!Sectors(bargs.setup) < SETUP_SECTS THEN SETUP_SECTS ELSE Image!Sectors(bargs.setup)
KindAt(j) ==
  IF j <= Sector THEN "boot"
  ELSE IF j <= Sector + bargs.setup THEN "setup" ELSE IF j <= Sector + Room THEN "pad" ELSE "system"
Laid == \A j \in 1 .. Len(bout) : bout[j] = KindAt(j)
Whole == bsz = 0 /\ Len(bout) = Sector + Room + bargs.system

ImageTypes ==
  /\ bargs.setup \in SetupSizes /\ bargs.system \in SystemSizes /\ bargs.big \in BOOLEAN
  /\ bargs.boot \in {Sector - 1, Sector}
  /\ bout \in Seq({"boot", "setup", "pad", "system", "memory"})
  /\ bheader = [setup |-> bheader.setup, size |-> bheader.size, root |-> bheader.root]
  /\ bheader.setup \in 0 .. ByteSize - 1 /\ bheader.size \in 0 .. ByteSize * ByteSize - 1
  /\ bi \in Nat /\ bsz \in Nat /\ bsectors \in Nat /\ bsize \in Nat
  /\ bsectors = 0 \/ bsectors >= SETUP_SECTS

ImagePlaces ==
  /\ bpc \in Image!Running => ~bfailed /\ Laid
  /\ bpc \in Image!Running \ {"patch size"} => bheader.setup = SETUP_SECTS
  /\ bpc \in Image!Running => bheader.size = DEF_SYSSIZE
  /\ bpc \in {"root", "boot"} => bout = <<>> /\ bi = 0
  /\ bpc \in {"root", "boot", "setup", "setup end"} => bsectors = 0
  /\ bpc = "setup" => bi <= bargs.setup
  /\ bpc = "setup end" => bi = bargs.setup
  /\ bpc \in {"setup", "setup end", "pad"} => Len(bout) = Sector + bi
  /\ bpc \in {"pad", "stat", "system", "seek", "patch setup", "patch size", "exit 0"} =>
       bsectors = Needed /\ bargs.setup <= Room
  /\ bpc = "pad" => bargs.setup <= bi /\ bi <= Room
  /\ bpc = "stat" => Len(bout) = Sector + Room
  /\ bpc = "system" => Len(bout) + bsz = Sector + Room + bargs.system /\ Sector + Room <= Len(bout)
  /\ bpc \in {"system", "seek", "patch setup", "patch size", "exit 0"} =>
       bsize = Image!Clicks(bargs.system) /\ ~Image!TooBig(bsize)
  /\ bpc \in {"seek", "patch setup", "patch size", "exit 0"} => Whole
  /\ bpc \in {"patch size", "exit 0"} => bheader.setup = bsectors % ByteSize
  /\ bpc = "exit 0" => ~bfailed /\ Laid /\ bheader.size = bsize % (ByteSize * ByteSize)
  /\ bheader.size # DEF_SYSSIZE \/ bheader.setup # SETUP_SECTS => Whole

ImageInv == ImageTypes /\ ImagePlaces
-----------------------------------------------------------------------------

LEMMA ImageConstants ==
  /\ Sector \in Nat /\ Sector > 0 /\ BufSize \in Nat /\ BufSize > 0 /\ Click \in Nat /\ Click > 0
  /\ ByteSize \in Nat /\ ByteSize > 0 /\ SETUP_SECTS \in Nat /\ SETUP_SECTS > 0 /\ DEF_SYSSIZE \in Nat /\ DEF_SYSSIZE > 0
  /\ BigSysSize \in Nat /\ SETUP_SECTS < ByteSize /\ DEF_SYSSIZE < ByteSize * ByteSize
  /\ SetupSizes \subseteq Nat /\ SystemSizes \subseteq Nat
  /\ \A n \in SetupSizes : Image!Sectors(n) < ByteSize
BY Parameters DEF Image!SizesOK

(* Rounding up to whole units.                                             *)
LEMMA RoundedUp ==
  ASSUME NEW n \in Nat, NEW u \in Nat, u > 0
  PROVE  (n + u - 1) \div u \in Nat /\ n <= ((n + u - 1) \div u) * u
<1> DEFINE a == n + u - 1
           q == a \div u
<1>1. a \in Nat
  OBVIOUS
<1> HIDE DEF a
<1>2. q \in Nat /\ a < u * q + u
  BY <1>1, SMTT(30)
<1> HIDE DEF q
<1>3. u * q \in Nat /\ u * q = q * u
  BY <1>2
<1> DEFINE p == u * q
<1>4. p \in Nat /\ a < p + u /\ p = q * u
  BY <1>2, <1>3
<1> HIDE DEF p
<1>5. n <= p
  BY <1>4 DEF a
<1>6. q \in Nat /\ n <= q * u
  BY <1>2, <1>4, <1>5
<1> QED BY <1>6 DEF q, a

LEMMA NeededFacts ==
  ASSUME ImageTypes
  PROVE  Needed \in Nat /\ SETUP_SECTS <= Needed /\ Needed < ByteSize /\ bargs.setup <= Needed * Sector
<1> DEFINE n == Image!Sectors(bargs.setup)
<1>1. bargs.setup \in Nat /\ n < ByteSize
  BY ImageConstants DEF ImageTypes
<1>2. n \in Nat /\ bargs.setup <= n * Sector
  BY <1>1, ImageConstants, RoundedUp DEF Image!Sectors
<1> HIDE DEF n
<1>3. CASE n < SETUP_SECTS
  <2>1. n * Sector <= SETUP_SECTS * Sector /\ n * Sector \in Nat /\ SETUP_SECTS * Sector \in Nat
    BY <1>2, <1>3, ImageConstants
  <2>2. Needed = SETUP_SECTS
    BY <1>3 DEF Needed, n
  <2> DEFINE x == n * Sector
             z == SETUP_SECTS * Sector
  <2>3. bargs.setup <= x /\ x <= z /\ x \in Nat /\ z \in Nat
    BY <1>2, <2>1
  <2> HIDE DEF x, z
  <2>4. bargs.setup <= z
    BY <2>3, <1>1
  <2> QED BY <2>2, <2>4, ImageConstants DEF z
<1>4. CASE ~(n < SETUP_SECTS)
  <2>1. Needed = n
    BY <1>4 DEF Needed, n
  <2> QED BY <2>1, <1>1, <1>2, <1>4, ImageConstants
<1> QED BY <1>3, <1>4

(* n more bytes of one kind, or fewer and the end of the program.          *)
LEMMA WrittenLaid ==
  ASSUME ImageTypes, Laid, NEW kind \in {"boot", "setup", "pad", "system"}, NEW n \in Nat, NEW k \in 0 .. n,
         bout' = bout \o [j \in 1 .. k |-> kind],
         \A j \in Len(bout) + 1 .. Len(bout) + n : KindAt(j) = kind,
         UNCHANGED <<bargs, bsectors>>
  PROVE  /\ bout' \in Seq({"boot", "setup", "pad", "system", "memory"})
         /\ Len(bout') = Len(bout) + k /\ Laid'
<1> DEFINE more == [j \in 1 .. k |-> kind]
           S == {"boot", "setup", "pad", "system", "memory"}
<1>1. bout \in Seq(S) /\ k \in Nat /\ n \in Nat /\ Len(bout) \in Nat
  <2>1. bout \in Seq(S)
    BY DEF ImageTypes
  <2> QED BY <2>1, LenProperties
<1>0. more \in Seq(S) /\ Len(more) = k
  <2> HIDE DEF S
  <2>1. kind \in S
    BY DEF S
  <2> QED BY <2>1, <1>1
<1>2. bout' = bout \o more
  OBVIOUS
<1>3. \A j \in 1 .. k : more[j] = kind
  OBVIOUS
<1> HIDE DEF more, S
<1>4. bout \o more \in Seq(S) /\ Len(bout \o more) = Len(bout) + k
  BY <1>0, <1>1, ConcatProperties
<1>5. \A j \in 1 .. Len(bout) + k : (bout \o more)[j] = IF j <= Len(bout) THEN bout[j] ELSE more[j - Len(bout)]
  BY <1>0, <1>1, ConcatProperties
<1>6. Len(bout) \in Nat
  BY <1>1
<1>7. \A j \in 1 .. Len(bout') : bout'[j] = KindAt(j)
  <2> SUFFICES ASSUME NEW j \in 1 .. Len(bout) + k PROVE (bout \o more)[j] = KindAt(j)
    BY <1>1, <1>2, <1>4
  <2>1. CASE j <= Len(bout)
    <3>1. j \in 1 .. Len(bout)
      BY <2>1, <1>6
    <3> QED BY <3>1, <2>1, <1>5 DEF Laid
  <2>2. CASE ~(j <= Len(bout))
    <3>1. j \in Len(bout) + 1 .. Len(bout) + n /\ j - Len(bout) \in 1 .. k /\ ~(j <= Len(bout))
      BY <2>2, <1>1, <1>6
    <3>2. (bout \o more)[j] = more[j - Len(bout)]
      BY <3>1, <1>5
    <3>3. more[j - Len(bout)] = kind /\ KindAt(j) = kind
      BY <3>1, <1>3
    <3> QED BY <3>2, <3>3
  <2> QED BY <2>1, <2>2
<1>8. \A j : KindAt(j)' = KindAt(j)
  BY DEF KindAt, Room
<1>9. Laid'
  BY <1>7, <1>8 DEF Laid
<1> QED BY <1>1, <1>2, <1>4, <1>9 DEF S

LEMMA ImageInitInv ==
  ASSUME Image!Init
  PROVE  ImageInv
<1> USE DEF Image!Init
<1>1. bheader = [setup |-> SETUP_SECTS, size |-> DEF_SYSSIZE, root |-> "default"]
  BY DEF Image!Default
<1>2. bheader.setup = SETUP_SECTS /\ bheader.size = DEF_SYSSIZE
  BY <1>1
<1>3. SETUP_SECTS \in 0 .. ByteSize - 1 /\ DEF_SYSSIZE \in 0 .. ByteSize * ByteSize - 1
  BY ImageConstants
<1>4. bout \in Seq({"boot", "setup", "pad", "system", "memory"}) /\ Len(bout) = 0
  OBVIOUS
<1>5. bargs.setup \in SetupSizes /\ bargs.system \in SystemSizes /\ bargs.big \in BOOLEAN /\ bargs.boot \in {Sector - 1, Sector}
  OBVIOUS
<1>6. ImageTypes
  BY <1>1, <1>2, <1>3, <1>4, <1>5 DEF ImageTypes
<1>7. bi = 0 /\ bsectors = 0 /\ bfailed = FALSE /\ bpc = "root" /\ bout = <<>>
  OBVIOUS
<1>8. ImagePlaces
  BY ONLY <1>2, <1>4, <1>7 DEF ImagePlaces, Laid, Image!Running
<1> QED BY <1>6, <1>8 DEF ImageInv

(* An end other than exit 0.                                               *)
LEMMA ImageDies ==
  ASSUME ImageTypes', bpc' \notin Image!Running \union {"exit 0"},
         bheader'.size # DEF_SYSSIZE \/ bheader'.setup # SETUP_SECTS => Whole'
  PROVE  ImageInv'
<1>1. ImagePlaces'
  BY DEF ImagePlaces, Image!Running
<1> QED BY <1>1 DEF ImageInv

(* What the types need when the header and the arguments stay.             *)
LEMMA ImageTypesKept ==
  ASSUME ImageTypes, UNCHANGED <<bargs, bheader>>,
         bout' \in Seq({"boot", "setup", "pad", "system", "memory"}),
         bi' \in Nat, bsz' \in Nat, bsize' \in Nat, bsectors' \in Nat, bsectors' = 0 \/ bsectors' >= SETUP_SECTS
  PROVE  ImageTypes'
BY DEF ImageTypes

LEMMA RootKeeps ==
  ASSUME ImageInv, Image!Root
  PROVE  ImageInv'
<1>1. UNCHANGED <<bargs, bout, bheader, bi, bsz, bsectors, bsize>> /\ bpc = "root"
  BY DEF Image!Root
<1>2. ImageTypes'
  BY <1>1, ImageTypesKept DEF ImageInv, ImageTypes
<1>3. bheader.setup = SETUP_SECTS /\ bheader.size = DEF_SYSSIZE /\ bout = <<>> /\ bi = 0 /\ bsectors = 0 /\ ~bfailed
  BY <1>1 DEF ImageInv, ImagePlaces, Image!Running
<1>4. CASE bpc' \in {"Couldn't stat root device", "Usage"}
  BY <1>1, <1>2, <1>3, <1>4, ImageDies DEF Image!Running
<1>5. CASE bpc' = "boot" /\ UNCHANGED bfailed
  <2>1. Laid'
    BY <1>1, <1>3 DEF Laid
  <2>2. ImagePlaces'
    BY <1>1, <1>3, <1>5, <2>1 DEF ImagePlaces, Image!Running
  <2> QED BY <1>2, <2>2 DEF ImageInv
<1> QED BY <1>4, <1>5 DEF Image!Root, Image!die

LEMMA OpenFailsKeeps ==
  ASSUME ImageInv, Image!OpenFails
  PROVE  ImageInv'
<1>1. UNCHANGED <<bargs, bout, bheader, bi, bsz, bsectors, bsize>> /\ bpc \in Image!Running \ {"patch size"}
  BY DEF Image!OpenFails, Image!Running
<1>2. ImageTypes'
  BY <1>1, ImageTypesKept DEF ImageInv, ImageTypes
<1>3. bheader.setup = SETUP_SECTS /\ bheader.size = DEF_SYSSIZE
  BY <1>1 DEF ImageInv, ImagePlaces
<1>4. bpc' = "Unable to open"
  BY DEF Image!OpenFails, Image!die
<1> QED BY <1>1, <1>2, <1>3, <1>4, ImageDies DEF Image!Running

LEMMA BootKeeps ==
  ASSUME ImageInv, Image!Boot
  PROVE  ImageInv'
<1>1. UNCHANGED <<bargs, bi, bsz, bsectors, bsize>> /\ bpc = "boot"
  BY DEF Image!Boot
<1>2. /\ bheader.setup = SETUP_SECTS /\ bheader.size = DEF_SYSSIZE /\ bout = <<>> /\ bi = 0 /\ bsectors = 0 /\ ~bfailed /\ Laid
      /\ ImageTypes /\ bargs.setup \in Nat
  BY <1>1, ImageConstants DEF ImageInv, ImagePlaces, Image!Running, ImageTypes
<1>3. bheader'.setup = SETUP_SECTS /\ bheader'.size = DEF_SYSSIZE
      /\ bheader' = [setup |-> bheader'.setup, size |-> bheader'.size, root |-> bheader'.root]
  <2>1. bheader = [setup |-> bheader.setup, size |-> bheader.size, root |-> bheader.root]
    BY <1>2 DEF ImageTypes
  <2>2. \/ bheader' = bheader
        \/ bheader' = [bheader EXCEPT !.root = IF bargs.root = "device" THEN "device" ELSE "none"]
    BY DEF Image!Boot
  <2> QED BY ONLY <1>2, <2>1, <2>2
<1>4. CASE UNCHANGED <<bout, bheader, bfailed>> /\ bpc' \in {"Boot block must be exactly 512 bytes", "Boot block hasn't got boot flag"}
  <2>1. ImageTypes'
    BY <1>1, <1>2, <1>4 DEF ImageTypes
  <2>2. bpc' \notin Image!Running \union {"exit 0"}
    BY <1>4 DEF Image!Running
  <2> QED BY <1>3, <2>1, <2>2, ImageDies
<1>5. CASE Image!Written("boot", Sector, "setup", "Write call failed")
  <2>1. PICK k \in 0 .. Sector :
          /\ bout' = bout \o [j \in 1 .. k |-> "boot"]
          /\ IF k = Sector THEN bpc' = "setup" /\ UNCHANGED bfailed ELSE bpc' = "Write call failed" /\ bfailed' = TRUE
    BY <1>5 DEF Image!Written, Image!die
  <2>2. \A j \in Len(bout) + 1 .. Len(bout) + Sector : KindAt(j) = "boot"
    <3>1. Len(bout) = 0
      BY <1>2
    <3> QED BY <3>1, ImageConstants DEF KindAt
  <2>3. /\ bout' \in Seq({"boot", "setup", "pad", "system", "memory"})
        /\ Len(bout') = Len(bout) + k /\ Laid'
    BY <1>1, <1>2, <2>1, <2>2, ImageConstants, WrittenLaid
  <2>4. ImageTypes'
    BY <1>1, <1>2, <1>3, <2>3, ImageConstants DEF ImageTypes
  <2>5. CASE k = Sector
    <3>1. Len(bout') = Sector + bi /\ bi <= bargs.setup
      BY <2>3, <2>5, <1>2, ImageConstants
    <3>2. bpc' = "setup" /\ bfailed' = bfailed
      BY <2>1, <2>5
    <3>3. ImagePlaces'
      BY <3>1, <3>2, <2>3, <1>1, <1>2, <1>3 DEF ImagePlaces, Image!Running
    <3> QED BY <2>4, <3>3 DEF ImageInv
  <2>6. CASE k # Sector
    <3>1. bpc' \notin Image!Running \union {"exit 0"}
      BY <2>1, <2>6 DEF Image!Running
    <3> QED BY <3>1, <2>4, <1>3, ImageDies
  <2> QED BY <2>5, <2>6
<1> QED BY <1>4, <1>5 DEF Image!Boot, Image!die

LEMMA SetupReadKeeps ==
  ASSUME ImageInv, Image!SetupRead
  PROVE  ImageInv'
<1>0. PICK c \in 0 .. BufSize :
        /\ bpc = "setup" /\ c <= bargs.setup - (Len(bout) - Sector)
        /\ c = 0 => bargs.setup - (Len(bout) - Sector) = 0
        /\ c > 0 => bi' = bi + c
        /\ c > 0 => Image!Written("setup", c, "setup", "Write call failed")
        /\ ~(c > 0) => bpc' = "setup end" /\ UNCHANGED <<bi, bout, bfailed>>
        /\ UNCHANGED <<bargs, bheader, bsz, bsectors, bsize>>
  BY DEF Image!SetupRead
<1>1. UNCHANGED <<bargs, bheader, bsz, bsectors, bsize>> /\ bpc = "setup"
  BY <1>0
<1>2. /\ bheader.setup = SETUP_SECTS /\ bheader.size = DEF_SYSSIZE /\ bsectors = 0
      /\ Len(bout) = Sector + bi /\ bi <= bargs.setup
  BY <1>1 DEF ImageInv, ImagePlaces, Image!Running
<1>3. ~bfailed /\ Laid /\ ImageTypes
  BY <1>1 DEF ImageInv, ImagePlaces, Image!Running
<1>4. bi \in Nat /\ bargs.setup \in Nat /\ c \in Nat /\ Sector \in Nat
  <2>1. bi \in Nat /\ bargs.setup \in Nat
    BY <1>3, ImageConstants DEF ImageTypes
  <2>2. c \in Nat /\ Sector \in Nat
    BY ImageConstants
  <2> QED BY <2>1, <2>2
<1>5. c <= bargs.setup - bi /\ (c = 0 => bi = bargs.setup) /\ (c > 0 \/ c = 0)
  <2>1. c <= bargs.setup - (Len(bout) - Sector) /\ (c = 0 => bargs.setup - (Len(bout) - Sector) = 0)
    BY <1>0
  <2> QED BY <2>1, <1>2, <1>4
<1>6. CASE c = 0
  <2>0. ~(c > 0)
    BY <1>4, <1>6
  <2>1. bpc' = "setup end" /\ UNCHANGED <<bi, bout, bfailed>>
    BY <1>0, <2>0
  <2>2. ImageTypes'
    BY <1>1, <1>3, <2>1 DEF ImageTypes
  <2>3. Laid'
    BY <1>1, <1>3, <2>1 DEF Laid, KindAt, Room
  <2>4. bi' = bargs'.setup /\ Len(bout)' = Sector + bi'
    BY <1>1, <1>2, <1>5, <1>6, <2>1
  <2>5. ImagePlaces'
    BY <1>1, <1>2, <1>3, <2>1, <2>3, <2>4 DEF ImagePlaces, Image!Running
  <2> QED BY <2>2, <2>5 DEF ImageInv
<1>7. CASE c > 0
  <2>0. Image!Written("setup", c, "setup", "Write call failed") /\ bi' = bi + c
    BY <1>0, <1>7
  <2>1. PICK k \in 0 .. c :
          /\ bout' = bout \o [j \in 1 .. k |-> "setup"]
          /\ IF k = c THEN bpc' = "setup" /\ UNCHANGED bfailed ELSE bpc' = "Write call failed" /\ bfailed' = TRUE
    BY <2>0 DEF Image!Written, Image!die
  <2>a. bi' = bi + c
    BY <2>0
  <2>2. \A j \in Len(bout) + 1 .. Len(bout) + c : KindAt(j) = "setup"
    BY <1>2, <1>4, <1>5 DEF KindAt
  <2>3. /\ bout' \in Seq({"boot", "setup", "pad", "system", "memory"})
        /\ Len(bout') = Len(bout) + k /\ Laid'
    BY <1>1, <1>3, <1>4, <2>1, <2>2, WrittenLaid
  <2>4. bi' \in Nat /\ bi' <= bargs.setup
    BY <2>a, <1>4, <1>5
  <2>5. ImageTypes'
    BY <1>1, <1>3, <2>3, <2>4 DEF ImageTypes
  <2>6. CASE k = c
    <3>1. Len(bout') = Sector + bi'
      BY <2>3, <2>a, <2>6, <1>2, <1>4
    <3>2. bpc' = "setup" /\ bfailed' = bfailed
      BY <2>1, <2>6
    <3>3. ImagePlaces'
      BY <3>1, <3>2, <2>3, <2>4, <1>1, <1>2, <1>3 DEF ImagePlaces, Image!Running
    <3> QED BY <2>5, <3>3 DEF ImageInv
  <2>7. CASE k # c
    <3>1. bpc' \notin Image!Running \union {"exit 0"}
      BY <2>1, <2>7 DEF Image!Running
    <3> QED BY <3>1, <2>5, <1>1, <1>2, ImageDies
  <2> QED BY <2>6, <2>7
<1> QED BY <1>5, <1>6, <1>7

LEMMA SetupReadErrorKeeps ==
  ASSUME ImageInv, Image!SetupReadError
  PROVE  ImageInv'
<1>1. PICK k \in 0 .. 1 : bout' = bout \o [j \in 1 .. k |-> "memory"]
  BY DEF Image!SetupReadError
<1>2. UNCHANGED <<bargs, bheader, bi, bsz, bsectors, bsize>> /\ bpc' = "Write call failed" /\ bpc = "setup"
  BY DEF Image!SetupReadError, Image!die
<1>3. bout' \in Seq({"boot", "setup", "pad", "system", "memory"})
  <2> DEFINE S == {"boot", "setup", "pad", "system", "memory"}
             more == [j \in 1 .. k |-> "memory"]
  <2>1. bout \in Seq(S) /\ "memory" \in S
    BY DEF ImageInv, ImageTypes
  <2> HIDE DEF S
  <2>2. more \in Seq(S)
    BY <2>1
  <2> HIDE DEF more
  <2>3. bout \o more \in Seq(S)
    BY <2>1, <2>2, ConcatProperties
  <2> QED BY <2>3, <1>1 DEF S, more
<1>4. ImageTypes'
  BY <1>2, <1>3 DEF ImageInv, ImageTypes
<1>5. bheader'.setup = SETUP_SECTS /\ bheader'.size = DEF_SYSSIZE
  BY <1>2 DEF ImageInv, ImagePlaces, Image!Running
<1> QED BY <1>2, <1>4, <1>5, ImageDies DEF Image!Running

LEMMA SetupEndKeeps ==
  ASSUME ImageInv, Image!SetupEnd
  PROVE  ImageInv'
<1>1. UNCHANGED <<bargs, bout, bheader, bi, bsz, bsize>> /\ bpc = "setup end" /\ bpc' = "pad"
  BY DEF Image!SetupEnd
<1>2. /\ bheader.setup = SETUP_SECTS /\ bheader.size = DEF_SYSSIZE /\ Laid /\ bsectors = 0
      /\ Len(bout) = Sector + bi /\ bi = bargs.setup /\ ImageTypes /\ bargs.setup \in Nat
  BY <1>1, ImageConstants DEF ImageInv, ImagePlaces, Image!Running, ImageTypes
<1>0. ~bfailed /\ ~bfailed'
  BY DEF Image!SetupEnd, ImageInv, ImagePlaces, Image!Running
<1>3. bsectors' = Needed
  BY <1>2 DEF Image!SetupEnd, Needed
<1>4. Needed \in Nat /\ SETUP_SECTS <= Needed /\ bargs.setup <= Needed * Sector
  BY <1>2, NeededFacts
<1>5. Needed' = Needed
  BY <1>1 DEF Needed
<1>6. ImageTypes'
  BY <1>1, <1>2, <1>3, <1>4 DEF ImageTypes
<1>7. Laid'
  <2> SUFFICES ASSUME NEW j \in 1 .. Len(bout) PROVE bout[j] = KindAt(j)'
    BY <1>1 DEF Laid
  <2>1. bout[j] = KindAt(j) /\ (j <= Sector \/ j <= Sector + bargs.setup)
    BY <1>2, ImageConstants DEF Laid
  <2> QED BY <2>1, <1>1 DEF KindAt
<1>8. bargs'.setup <= Room'
  BY <1>1, <1>3, <1>4 DEF Room
<1>9. ImagePlaces'
  <2>1. Len(bout)' = Sector + bi' /\ bi' = bargs'.setup /\ bargs'.setup \in Nat /\ bsectors' = Needed'
    BY <1>1, <1>2, <1>3, <1>5
  <2>2. bargs'.setup <= bi' /\ bi' <= Room'
    BY <2>1, <1>8
  <2> QED BY <2>1, <2>2, <1>0, <1>1, <1>2, <1>7, <1>8 DEF ImagePlaces, Image!Running
<1> QED BY <1>6, <1>9 DEF ImageInv

LEMMA PadKeeps ==
  ASSUME ImageInv, Image!Pad
  PROVE  ImageInv'
<1>1. UNCHANGED <<bargs, bheader, bsz, bsectors, bsize>> /\ bpc = "pad"
  BY DEF Image!Pad
<1>2. /\ bheader.setup = SETUP_SECTS /\ bheader.size = DEF_SYSSIZE /\ ~bfailed /\ Laid
      /\ Len(bout) = Sector + bi /\ bargs.setup <= bi /\ bi <= Room /\ bi \in Nat
      /\ bsectors = Needed /\ bargs.setup <= Room
      /\ ImageTypes /\ bargs.setup \in Nat /\ Sector \in Nat /\ BufSize \in Nat
  BY <1>1, ImageConstants DEF ImageInv, ImagePlaces, Image!Running, ImageTypes
<1>3. Room \in Nat
  BY <1>2, NeededFacts DEF Room
<1>4. Needed' = Needed /\ Room' = Room
  BY <1>1 DEF Needed, Room
<1>5. CASE bi < Room
  <2> DEFINE c == Image!PadLen
  <2>1. c = IF Room - bi > BufSize THEN BufSize ELSE Room - bi
    BY DEF Image!PadLen, Room
  <2>2. bi' = bi + c
    BY <1>5 DEF Image!Pad, Room
  <2>0. Image!Written("pad", c, "pad", "Write call failed")
    BY <1>5 DEF Image!Pad, Room
  <2> HIDE DEF c
  <2>3. c \in Nat /\ bi + c <= Room
    BY <2>1, <1>2, <1>3, <1>5
  <2>4. PICK k \in 0 .. c :
          /\ bout' = bout \o [j \in 1 .. k |-> "pad"]
          /\ IF k = c THEN bpc' = "pad" /\ UNCHANGED bfailed ELSE bpc' = "Write call failed" /\ bfailed' = TRUE
    BY <2>0 DEF Image!Written, Image!die
  <2>5. \A j \in Len(bout) + 1 .. Len(bout) + c : KindAt(j) = "pad"
    BY <1>2, <1>3, <2>3 DEF KindAt
  <2>6. /\ bout' \in Seq({"boot", "setup", "pad", "system", "memory"})
        /\ Len(bout') = Len(bout) + k /\ Laid'
    BY <1>1, <1>2, <2>3, <2>4, <2>5, WrittenLaid
  <2>7. bi' \in Nat /\ bi' <= Room /\ bargs.setup <= bi'
    BY <1>2, <2>2, <2>3
  <2>8. ImageTypes'
    BY <1>1, <1>2, <2>6, <2>7 DEF ImageTypes
  <2>9. CASE k = c
    <3>1. Len(bout') = Sector + bi'
      BY <2>2, <2>3, <2>6, <2>9, <1>2
    <3>2. bpc' = "pad" /\ bfailed' = bfailed
      BY <2>4, <2>9
    <3>3. ImagePlaces'
      BY <3>1, <3>2, <2>6, <2>7, <1>1, <1>2, <1>4 DEF ImagePlaces, Image!Running
    <3> QED BY <2>8, <3>3 DEF ImageInv
  <2>10. CASE k # c
    <3>1. bpc' \notin Image!Running \union {"exit 0"}
      BY <2>4, <2>10 DEF Image!Running
    <3> QED BY <3>1, <2>8, <1>1, <1>2, ImageDies
  <2> QED BY <2>9, <2>10
<1>6. CASE ~(bi < Room)
  <2>1. bpc' = "stat" /\ UNCHANGED <<bi, bout, bfailed>>
    BY <1>6 DEF Image!Pad, Room
  <2>2. Len(bout) = Sector + Room
    BY <1>2, <1>3, <1>6
  <2>3. ImageTypes'
    BY <1>1, <1>2, <2>1 DEF ImageTypes
  <2>4. Laid'
    BY <1>1, <1>2, <1>4, <2>1 DEF Laid, KindAt
  <2>5. ImagePlaces'
    BY <1>1, <1>2, <1>4, <2>1, <2>2, <2>4 DEF ImagePlaces, Image!Running
  <2> QED BY <2>3, <2>5 DEF ImageInv
<1> QED BY <1>5, <1>6

LEMMA StatKeeps ==
  ASSUME ImageInv, Image!Stat
  PROVE  ImageInv'
<1>1. UNCHANGED <<bargs, bout, bheader, bi, bsectors>> /\ bpc = "stat"
  BY DEF Image!Stat
<1>2. /\ bheader.setup = SETUP_SECTS /\ bheader.size = DEF_SYSSIZE /\ ~bfailed /\ Laid
      /\ Len(bout) = Sector + Room /\ bsectors = Needed /\ bargs.setup <= Room
      /\ ImageTypes /\ bargs.system \in Nat /\ Sector \in Nat /\ Click \in Nat /\ Click > 0
  BY <1>1, ImageConstants DEF ImageInv, ImagePlaces, Image!Running, ImageTypes
<1>3. Room \in Nat /\ Needed' = Needed /\ Room' = Room
  BY <1>1, <1>2, NeededFacts DEF Needed, Room
<1>4. Laid'
  BY <1>1, <1>2, <1>3 DEF Laid, KindAt
<1>5. CASE /\ bsz' = bargs.system /\ bsize' = Image!Clicks(bsz')
           /\ IF Image!TooBig(bsize') THEN bpc' = "System is too big" ELSE bpc' = "system"
           /\ UNCHANGED bfailed
  <2>1. bsize' = Image!Clicks(bargs.system) /\ bsize' \in Nat
    <3>1. bsize' = Image!Clicks(bargs.system)
      BY <1>5
    <3>2. Image!Clicks(bargs.system) \in Nat
      BY <1>2, RoundedUp DEF Image!Clicks
    <3> QED BY <3>1, <3>2
  <2>2. ImageTypes'
    BY <1>1, <1>2, <1>5, <2>1 DEF ImageTypes
  <2>3. CASE Image!TooBig(bsize')
    <3>1. bpc' \notin Image!Running \union {"exit 0"}
      BY <1>5, <2>3 DEF Image!Running
    <3> QED BY <3>1, <2>2, <1>1, <1>2, ImageDies
  <2>4. CASE ~Image!TooBig(bsize')
    <3>1. bpc' = "system" /\ ~Image!TooBig(bsize)'
      BY <1>1, <1>5, <2>4 DEF Image!TooBig
    <3>2. bsize' = Image!Clicks(bargs.system)'
      BY <2>1, <1>1 DEF Image!Clicks
    <3>3. Len(bout) + bsz' = Sector + Room + bargs.system
      BY <1>2, <1>3, <1>5
    <3>4. Len(bout)' + bsz' = Sector + Room' + bargs'.system /\ Sector + Room' <= Len(bout)'
      BY <3>3, <1>1, <1>2, <1>3
    <3>5. ImagePlaces'
      BY <3>1, <3>2, <3>4, <1>1, <1>2, <1>3, <1>4, <1>5 DEF ImagePlaces, Image!Running
    <3> QED BY <2>2, <3>5 DEF ImageInv
  <2> QED BY <2>3, <2>4
<1>6. CASE bpc' = "Unable to stat" /\ UNCHANGED <<bsz, bsize>>
  <2>1. ImageTypes'
    BY <1>1, <1>2, <1>6 DEF ImageTypes
  <2>2. bpc' \notin Image!Running \union {"exit 0"}
    BY <1>6 DEF Image!Running
  <2> QED BY <2>1, <2>2, <1>1, <1>2, ImageDies
<1> QED BY <1>5, <1>6 DEF Image!Stat, Image!die

LEMMA Product ==
  ASSUME NEW a \in Nat, NEW b \in Nat
  PROVE  a * b \in Nat
OBVIOUS

LEMMA OneMore ==
  ASSUME NEW a \in Nat, NEW b \in Nat
  PROVE  b * (a + 1) = b + a * b
OBVIOUS

(* Where all of setup is written and the sizes are known.                  *)
LEMMA Known ==
  ASSUME ImageInv, bpc \in {"system", "seek", "patch setup", "patch size", "exit 0"}
  PROVE  /\ ImageTypes /\ Laid /\ ~bfailed /\ bsectors = Needed /\ bargs.setup <= Room
         /\ bsize = Image!Clicks(bargs.system) /\ ~Image!TooBig(bsize)
         /\ Room \in Nat /\ bargs.system \in Nat /\ bargs.setup \in Nat /\ bsz \in Nat /\ Sector \in Nat
<1>1. /\ ImageTypes /\ Laid /\ ~bfailed /\ bsectors = Needed /\ bargs.setup <= Room
      /\ bsize = Image!Clicks(bargs.system) /\ ~Image!TooBig(bsize)
  BY DEF ImageInv, ImagePlaces, Image!Running
<1>2. bargs.system \in Nat /\ bargs.setup \in Nat /\ bsz \in Nat /\ Sector \in Nat
  BY <1>1, ImageConstants DEF ImageTypes
<1>3. Room \in Nat
  <2>1. bsectors \in Nat
    BY <1>1, NeededFacts
  <2> QED BY <2>1, <1>2, Product DEF Room
<1> QED BY <1>1, <1>2, <1>3

LEMMA KnownKept ==
  ASSUME ImageInv, bpc \in {"system", "seek", "patch setup", "patch size", "exit 0"},
         UNCHANGED <<bargs, bsectors, bsize>>
  PROVE  /\ bsectors' = Needed' /\ bargs'.setup <= Room' /\ Room' = Room
         /\ bsize' = Image!Clicks(bargs.system)' /\ ~Image!TooBig(bsize)'
BY Known DEF Needed, Room, Image!Clicks, Image!TooBig

LEMMA SystemCopyKeeps ==
  ASSUME ImageInv, Image!SystemCopy
  PROVE  ImageInv'
<1>1. UNCHANGED <<bargs, bheader, bi, bsectors, bsize>> /\ bpc = "system"
  BY DEF Image!SystemCopy
<1>2. /\ ImageTypes /\ Laid /\ ~bfailed /\ bheader.setup = SETUP_SECTS /\ bheader.size = DEF_SYSSIZE
      /\ Len(bout) + bsz = Sector + Room + bargs.system /\ Sector + Room <= Len(bout)
  BY <1>1, Known DEF ImageInv, ImagePlaces, Image!Running
<1>3. /\ Room \in Nat /\ bargs.system \in Nat /\ bargs.setup \in Nat /\ bsz \in Nat /\ Sector \in Nat
      /\ bargs.setup <= Room /\ BufSize \in Nat /\ BufSize > 0
  BY <1>1, Known, ImageConstants
<1>4. /\ bsectors' = Needed' /\ bargs'.setup <= Room' /\ Room' = Room
      /\ bsize' = Image!Clicks(bargs.system)' /\ ~Image!TooBig(bsize)'
  BY <1>1, KnownKept
<1>5. Len(bout) \in Nat
  BY <1>2, LenProperties DEF ImageTypes
<1> DEFINE l == IF bsz > BufSize THEN BufSize ELSE bsz
<1>6. l \in Nat /\ l <= bsz
  BY <1>3
<1>7. \/ bsz = 0 /\ bpc' = "seek" /\ UNCHANGED <<bout, bsz, bfailed>>
      \/ bsz' = bsz - l /\ Image!Written("system", l, "system", "Write failed")
      \/ bpc' \in {"Error reading", "Unexpected EOF"} /\ UNCHANGED <<bout, bsz>>
  BY DEF Image!SystemCopy, Image!die
<1> HIDE DEF l
<1>8. CASE bsz = 0 /\ bpc' = "seek" /\ UNCHANGED <<bout, bsz, bfailed>>
  <2>1. ImageTypes'
    BY <1>1, <1>2, <1>8 DEF ImageTypes
  <2>2. Laid'
    BY <1>1, <1>2, <1>4, <1>8 DEF Laid, KindAt
  <2>3. Whole'
    <3>1. bsz' = 0 /\ Len(bout)' = Sector + Room' + bargs'.system
      BY <1>1, <1>2, <1>3, <1>4, <1>5, <1>8
    <3> QED BY <3>1 DEF Whole
  <2>4. ImagePlaces'
    BY <1>1, <1>2, <1>4, <1>8, <2>2, <2>3 DEF ImagePlaces, Image!Running
  <2> QED BY <2>1, <2>4 DEF ImageInv
<1>9. CASE bsz' = bsz - l /\ Image!Written("system", l, "system", "Write failed")
  <2>0. bsz' = bsz - l
    BY <1>9
  <2>1. PICK k \in 0 .. l :
          /\ bout' = bout \o [j \in 1 .. k |-> "system"]
          /\ IF k = l THEN bpc' = "system" /\ UNCHANGED bfailed ELSE bpc' = "Write failed" /\ bfailed' = TRUE
    BY <1>9 DEF Image!Written, Image!die
  <2>2. \A j \in Len(bout) + 1 .. Len(bout) + l : KindAt(j) = "system"
    BY <1>2, <1>3, <1>5, <1>6 DEF KindAt
  <2>3. /\ bout' \in Seq({"boot", "setup", "pad", "system", "memory"})
        /\ Len(bout') = Len(bout) + k /\ Laid'
    BY <1>1, <1>2, <1>6, <2>1, <2>2, WrittenLaid
  <2>4. bsz' \in Nat
    BY <2>0, <1>3, <1>6
  <2>5. ImageTypes'
    BY <1>1, <1>2, <2>3, <2>4 DEF ImageTypes
  <2>6. CASE k = l
    <3>1. Len(bout') + bsz' = Sector + Room + bargs.system /\ Sector + Room <= Len(bout')
      BY <2>0, <2>3, <2>6, <1>2, <1>3, <1>5, <1>6
    <3>2. bpc' = "system" /\ bfailed' = bfailed
      BY <2>1, <2>6
    <3>3. Len(bout)' + bsz' = Sector + Room' + bargs'.system /\ Sector + Room' <= Len(bout)'
      BY <3>1, <1>1, <1>4
    <3>4. ImagePlaces'
      BY <3>2, <3>3, <2>3, <1>1, <1>2, <1>4 DEF ImagePlaces, Image!Running
    <3> QED BY <2>5, <3>4 DEF ImageInv
  <2>7. CASE k # l
    <3>1. bpc' \notin Image!Running \union {"exit 0"}
      BY <2>1, <2>7 DEF Image!Running
    <3> QED BY <3>1, <2>5, <1>1, <1>2, ImageDies
  <2> QED BY <2>6, <2>7
<1>10. CASE bpc' \in {"Error reading", "Unexpected EOF"} /\ UNCHANGED <<bout, bsz>>
  <2>1. ImageTypes'
    BY <1>1, <1>2, <1>10 DEF ImageTypes
  <2>2. bpc' \notin Image!Running \union {"exit 0"}
    BY <1>10 DEF Image!Running
  <2> QED BY <2>1, <2>2, <1>1, <1>2, ImageDies
<1> QED BY <1>7, <1>8, <1>9, <1>10

LEMMA SeekKeeps ==
  ASSUME ImageInv, Image!Seek
  PROVE  ImageInv'
<1>1. UNCHANGED <<bargs, bout, bheader, bi, bsz, bsectors, bsize>> /\ bpc = "seek"
  BY DEF Image!Seek
<1>2. /\ ImageTypes /\ Laid /\ ~bfailed /\ bheader.setup = SETUP_SECTS /\ bheader.size = DEF_SYSSIZE /\ Whole
  BY <1>1, Known DEF ImageInv, ImagePlaces, Image!Running
<1>3. /\ bsectors' = Needed' /\ bargs'.setup <= Room' /\ Room' = Room
      /\ bsize' = Image!Clicks(bargs.system)' /\ ~Image!TooBig(bsize)'
  BY <1>1, KnownKept
<1>4. ImageTypes' /\ Laid' /\ Whole'
  BY <1>1, <1>2, <1>3 DEF ImageTypes, Laid, KindAt, Whole
<1>5. CASE bpc' = "patch setup" /\ UNCHANGED bfailed
  <2>1. ImagePlaces'
    BY <1>1, <1>2, <1>3, <1>4, <1>5 DEF ImagePlaces, Image!Running
  <2> QED BY <1>4, <2>1 DEF ImageInv
<1>6. CASE bpc' = "Output: seek failed"
  BY <1>1, <1>2, <1>4, <1>6, ImageDies DEF Image!Running
<1> QED BY <1>5, <1>6 DEF Image!Seek, Image!die

(* A number is kept by what fits it.                                       *)
LEMMA Fits ==
  ASSUME NEW n \in Nat, NEW b \in Nat, b > 0
  PROVE  n % b \in 0 .. b - 1 /\ (n < b => n % b = n)
OBVIOUS

LEMMA PatchKeeps ==
  ASSUME ImageInv, Image!PatchSetup \/ Image!PatchSize
  PROVE  ImageInv'
<1>1. UNCHANGED <<bargs, bout, bi, bsz, bsectors, bsize>> /\ bpc \in {"patch setup", "patch size"}
  BY DEF Image!PatchSetup, Image!PatchSize
<1>2. /\ ImageTypes /\ Laid /\ ~bfailed /\ Whole /\ bheader.size = DEF_SYSSIZE
  BY <1>1, Known DEF ImageInv, ImagePlaces, Image!Running
<1>3. /\ bsectors' = Needed' /\ bargs'.setup <= Room' /\ Room' = Room
      /\ bsize' = Image!Clicks(bargs.system)' /\ ~Image!TooBig(bsize)'
  BY <1>1, KnownKept
<1>4. Laid' /\ Whole'
  BY <1>1, <1>2, <1>3 DEF Laid, KindAt, Whole
<1> DEFINE n == bsectors % ByteSize
           m == bsize % (ByteSize * ByteSize)
<1>5. n \in 0 .. ByteSize - 1 /\ m \in 0 .. ByteSize * ByteSize - 1
  <2>1. bsectors \in Nat /\ bsize \in Nat /\ ByteSize \in Nat /\ ByteSize > 0
    BY <1>2, ImageConstants DEF ImageTypes
  <2>2. ByteSize * ByteSize \in Nat /\ ByteSize * ByteSize > 0
    BY <2>1
  <2> QED BY <2>1, <2>2, Fits
<1> HIDE DEF n, m
<1>6. \/ bheader' = [bheader EXCEPT !.setup = n] /\ bpc = "patch setup" /\ bpc' = "patch size" /\ UNCHANGED bfailed
      \/ /\ bheader' = [bheader EXCEPT !.size = m] /\ bpc = "patch size" /\ bpc' = "exit 0" /\ UNCHANGED bfailed
      \/ bheader' = bheader /\ bpc' \in {"Write of setup sector count failed", "Write of image length failed"}
  BY DEF Image!PatchSetup, Image!PatchSize, Image!die, n, m
<1>7. bheader = [setup |-> bheader.setup, size |-> bheader.size, root |-> bheader.root]
      /\ bheader.setup \in 0 .. ByteSize - 1 /\ bheader.size \in 0 .. ByteSize * ByteSize - 1
  BY <1>2 DEF ImageTypes
<1>8. CASE bheader' = [bheader EXCEPT !.setup = n] /\ bpc = "patch setup" /\ bpc' = "patch size" /\ UNCHANGED bfailed
  <2>1. bheader' = [setup |-> bheader'.setup, size |-> bheader'.size, root |-> bheader'.root]
        /\ bheader'.setup = n /\ bheader'.size = bheader.size
    BY ONLY <1>7, <1>8
  <2>2. ImageTypes'
    BY <1>1, <1>2, <1>5, <1>7, <2>1 DEF ImageTypes
  <2>3. bheader'.setup = bsectors' % ByteSize
    BY <1>1, <2>1 DEF n
  <2>4. ImagePlaces'
    BY <1>2, <1>3, <1>4, <1>8, <2>1, <2>3 DEF ImagePlaces, Image!Running
  <2> QED BY <2>2, <2>4 DEF ImageInv
<1>9. CASE bheader' = [bheader EXCEPT !.size = m] /\ bpc = "patch size" /\ bpc' = "exit 0" /\ UNCHANGED bfailed
  <2>1. bheader' = [setup |-> bheader'.setup, size |-> bheader'.size, root |-> bheader'.root]
        /\ bheader'.size = m /\ bheader'.setup = bheader.setup
    BY ONLY <1>7, <1>9
  <2>2. ImageTypes'
    BY <1>1, <1>2, <1>5, <1>7, <2>1 DEF ImageTypes
  <2>3. bheader'.size = bsize' % (ByteSize * ByteSize)
    BY <1>1, <2>1 DEF m
  <2>4. bheader.setup = bsectors % ByteSize
    BY <1>9 DEF ImageInv, ImagePlaces
  <2>5. bheader'.setup = bsectors' % ByteSize
    BY <2>1, <2>4, <1>1
  <2>6. ImagePlaces'
    BY <1>2, <1>3, <1>4, <1>9, <2>3, <2>5 DEF ImagePlaces, Image!Running
  <2> QED BY <2>2, <2>6 DEF ImageInv
<1>10. CASE bheader' = bheader /\ bpc' \in {"Write of setup sector count failed", "Write of image length failed"}
  <2>1. ImageTypes'
    BY <1>1, <1>2, <1>10 DEF ImageTypes
  <2>2. bpc' \notin Image!Running \union {"exit 0"}
    BY <1>10 DEF Image!Running
  <2> QED BY <2>1, <2>2, <1>4, ImageDies
<1> QED BY <1>6, <1>8, <1>9, <1>10

LEMMA ImageRestKeeps ==
  ASSUME ImageInv, UNCHANGED buildvars
  PROVE  ImageInv'
<1>1. UNCHANGED <<bargs, bout, bheader, bi, bsz, bsectors, bsize, bfailed, bpc>>
  BY DEF buildvars
<1>2. ImageTypes'
  BY <1>1 DEF ImageInv, ImageTypes
<1>3. Room' = Room /\ Needed' = Needed /\ (Laid' <=> Laid) /\ (Whole' <=> Whole)
  BY <1>1 DEF Room, Needed, Laid, KindAt, Whole
<1>4. Image!Clicks(bargs.system)' = Image!Clicks(bargs.system) /\ (Image!TooBig(bsize)' <=> Image!TooBig(bsize))
  BY <1>1 DEF Image!Clicks, Image!TooBig
<1>5. ImagePlaces'
  BY ONLY <1>1, <1>3, <1>4, ImageInv DEF ImageInv, ImagePlaces, Image!Running
<1> QED BY <1>2, <1>5 DEF ImageInv

LEMMA ImageStepKeeps ==
  ASSUME ImageInv, Image!Next \/ UNCHANGED buildvars
  PROVE  ImageInv'
<1>1. CASE Image!Root BY <1>1, RootKeeps
<1>12. CASE Image!OpenFails BY <1>12, OpenFailsKeeps
<1>2. CASE Image!Boot BY <1>2, BootKeeps
<1>3. CASE Image!SetupRead BY <1>3, SetupReadKeeps
<1>4. CASE Image!SetupReadError BY <1>4, SetupReadErrorKeeps
<1>5. CASE Image!SetupEnd BY <1>5, SetupEndKeeps
<1>6. CASE Image!Pad BY <1>6, PadKeeps
<1>7. CASE Image!Stat BY <1>7, StatKeeps
<1>8. CASE Image!SystemCopy BY <1>8, SystemCopyKeeps
<1>9. CASE Image!Seek BY <1>9, SeekKeeps
<1>10. CASE Image!PatchSetup \/ Image!PatchSize BY <1>10, PatchKeeps
<1>11. CASE Image!Exit \/ UNCHANGED buildvars
  <2>1. UNCHANGED buildvars
    BY <1>11 DEF Image!Exit, Image!vars, buildvars
  <2> QED BY <2>1, ImageRestKeeps
<1> QED BY <1>1, <1>2, <1>3, <1>4, <1>5, <1>6, <1>7, <1>8, <1>9, <1>10, <1>11, <1>12 DEF Image!Next

LEMMA CopiesFacts ==
  ASSUME NEW S, NEW kind \in S, NEW n \in Nat
  PROVE  /\ Image!Copies(kind, n) \in Seq(S) /\ Len(Image!Copies(kind, n)) = n
         /\ \A j \in 1 .. n : Image!Copies(kind, n)[j] = kind
BY DEF Image!Copies

(* A sequence starts with k times a and n times c; it ends with n times c. *)
Starting(o, a, c, k, n) == k + n <= Len(o) /\ \A j \in 1 .. k + n : o[j] = IF j <= k THEN a ELSE c
Ending(o, c, m, n) == Len(o) = m + n /\ \A j \in m + 1 .. m + n : o[j] = c

LEMMA StartsWith ==
  ASSUME NEW S, NEW o \in Seq(S), NEW a \in S, NEW c \in S, NEW k \in Nat, NEW n \in Nat, Starting(o, a, c, k, n)
  PROVE  SubSeq(o, 1, k + n) = Image!Copies(a, k) \o Image!Copies(c, n)
<1> DEFINE b == Image!Copies(a, k)
           t == Image!Copies(c, n)
           s == SubSeq(o, 1, k + n)
           u == b \o t
<1>1. /\ b \in Seq(S) /\ Len(b) = k /\ \A j \in 1 .. k : b[j] = a
  BY CopiesFacts
<1>2. /\ t \in Seq(S) /\ Len(t) = n /\ \A j \in 1 .. n : t[j] = c
  BY CopiesFacts
<1>0. k + n <= Len(o) /\ \A j \in 1 .. k + n : o[j] = IF j <= k THEN a ELSE c
  BY DEF Starting
<1>3. \A j \in 1 .. k + n : o[j] \in S
  BY <1>0
<1>4. /\ s \in Seq(S) /\ Len(s) = (IF 1 <= k + n THEN k + n - 1 + 1 ELSE 0)
      /\ \A j \in 1 .. k + n - 1 + 1 : s[j] = o[1 + j - 1]
  BY <1>0, <1>3, SubSeqProperties
<1> HIDE DEF s, b, t
<1>5. Len(s) = k + n /\ \A j \in 1 .. k + n : s[j] = o[j]
  <2>1. k + n - 1 + 1 = k + n /\ (IF 1 <= k + n THEN k + n - 1 + 1 ELSE 0) = k + n /\ \A j \in 1 .. k + n : 1 + j - 1 = j
    OBVIOUS
  <2> QED BY <2>1, <1>4
<1>6. u \in Seq(S) /\ Len(u) = k + n /\ \A j \in 1 .. k + n : u[j] = IF j <= k THEN b[j] ELSE t[j - k]
  BY <1>1, <1>2, ConcatProperties, Zenon
<1> HIDE DEF u
<1>7. ASSUME NEW j \in 1 .. k + n PROVE s[j] = u[j]
  <2>1. s[j] = (IF j <= k THEN a ELSE c) /\ u[j] = IF j <= k THEN b[j] ELSE t[j - k]
    BY <1>0, <1>5, <1>6
  <2>2. (j <= k => j \in 1 .. k) /\ (~(j <= k) => j - k \in 1 .. n)
    OBVIOUS
  <2> QED BY <2>1, <2>2, <1>1, <1>2
<1>8. s = u
  BY <1>4, <1>5, <1>6, <1>7, SeqEqual
<1> QED BY <1>8 DEF s, u, b, t

LEMMA EndsWith ==
  ASSUME NEW S, NEW o \in Seq(S), NEW c \in S, NEW m \in Nat, NEW n \in Nat, Ending(o, c, m, n)
  PROVE  SubSeq(o, m + 1, Len(o)) = Image!Copies(c, n)
<1> DEFINE t == Image!Copies(c, n)
           s == SubSeq(o, m + 1, Len(o))
<1>0. Len(o) = m + n /\ \A j \in m + 1 .. m + n : o[j] = c
  BY DEF Ending
<1>1. /\ t \in Seq(S) /\ Len(t) = n /\ \A j \in 1 .. n : t[j] = c
  BY CopiesFacts
<1>2. /\ s \in Seq(S) /\ Len(s) = (IF m + 1 <= Len(o) THEN Len(o) - (m + 1) + 1 ELSE 0)
      /\ \A j \in 1 .. Len(o) - (m + 1) + 1 : s[j] = o[(m + 1) + j - 1]
  BY <1>0, SubSeqProperties
<1> HIDE DEF s, t
<1>3. Len(s) = n /\ \A j \in 1 .. n : s[j] = o[m + j]
  BY <1>0, <1>2
<1>4. \A j \in 1 .. n : m + j \in m + 1 .. m + n
  OBVIOUS
<1>5. s = t
  BY <1>0, <1>1, <1>2, <1>3, <1>4, SeqEqual
<1> QED BY <1>5 DEF s, t

(* A length of three parts, of which the first part of the second counts.  *)
LEMMA ThreeParts ==
  ASSUME NEW s \in Nat, NEW u \in Nat, NEW r \in Nat, NEW y \in Nat, u <= r, NEW l, l = s + r + y
  PROVE  /\ s + u <= l /\ s + r \in Nat /\ l = (s + r) + y
         /\ \A j \in 1 .. s + u : j \in 1 .. l /\ j <= s + u
         /\ \A j \in (s + r) + 1 .. (s + r) + y : j \in 1 .. l /\ ~(j <= s) /\ ~(j <= s + u) /\ ~(j <= s + r)
OBVIOUS

(* What an image holds that is finished.                                   *)
LEMMA ImageGood ==
  ASSUME ImageInv
  PROVE  Image!GoodImage
<1> SUFFICES ASSUME bpc = "exit 0"
             PROVE  /\ SubSeq(bout, 1, Sector + bargs.setup) = Image!Copies("boot", Sector) \o Image!Copies("setup", bargs.setup)
                    /\ SubSeq(bout, Sector * (bheader.setup + 1) + 1, Len(bout)) = Image!Copies("system", bargs.system)
  BY DEF Image!GoodImage
<1> DEFINE S == {"boot", "setup", "pad", "system", "memory"}
           u == bargs.setup
           y == bargs.system
           l == Len(bout)
<1>1. ImageTypes /\ Laid /\ bsectors = Needed
  BY Known
<1>2. Room \in Nat /\ y \in Nat /\ u \in Nat /\ Sector \in Nat /\ u <= Room
  BY Known
<1>3. l = Sector + Room + y /\ bheader.setup = bsectors % ByteSize
  BY DEF ImageInv, ImagePlaces, Whole
<1>4. bheader.setup = bsectors /\ bsectors \in Nat
  <2>1. bsectors \in Nat /\ bsectors < ByteSize
    BY <1>1, NeededFacts
  <2> QED BY <2>1, <1>3, ImageConstants, Fits
<1>5. Sector * (bheader.setup + 1) = Sector + Room
  BY <1>2, <1>4, OneMore DEF Room
<1>6. bout \in Seq(S) /\ "boot" \in S /\ "setup" \in S /\ "system" \in S
  BY <1>1 DEF ImageTypes
<1>7. /\ Sector + u <= l /\ Sector + Room \in Nat /\ l = (Sector + Room) + y
      /\ \A j \in 1 .. Sector + u : j \in 1 .. l /\ j <= Sector + u
      /\ \A j \in (Sector + Room) + 1 .. (Sector + Room) + y :
           j \in 1 .. l /\ ~(j <= Sector) /\ ~(j <= Sector + u) /\ ~(j <= Sector + Room)
  <2> HIDE DEF u, y, l
  <2> QED BY ONLY <1>2, <1>3, ThreeParts
<1>8. \A j \in 1 .. Sector + u : bout[j] = IF j <= Sector THEN "boot" ELSE "setup"
  BY ONLY <1>1, <1>7, Zenon DEF Laid, KindAt
<1>9. \A j \in (Sector + Room) + 1 .. (Sector + Room) + y : bout[j] = "system"
  BY ONLY <1>1, <1>7, Zenon DEF Laid, KindAt
<1> DEFINE k == Sector
           m == Sector + Room
<1>10. /\ bout \in Seq(S) /\ "boot" \in S /\ "setup" \in S /\ "system" \in S
       /\ k \in Nat /\ u \in Nat /\ m \in Nat /\ y \in Nat
       /\ Starting(bout, "boot", "setup", k, u) /\ Ending(bout, "system", m, y)
  BY ONLY <1>2, <1>6, <1>7, <1>8, <1>9 DEF Starting, Ending
<1> HIDE DEF S, u, y, k, m
<1>11. SubSeq(bout, 1, k + u) = Image!Copies("boot", k) \o Image!Copies("setup", u)
  BY ONLY <1>10, StartsWith
<1>12. SubSeq(bout, m + 1, Len(bout)) = Image!Copies("system", y)
  BY ONLY <1>10, EndsWith
<1> QED BY <1>5, <1>11, <1>12 DEF u, y, k, m

(* A size that is not above a limit that w bytes hold.                     *)
LEMMA Limited ==
  ASSUME NEW n \in Nat, NEW d \in Nat, NEW w \in Nat, ~(n > d), d < w
  PROVE  n <= d /\ n < w /\ w > 0
OBVIOUS

LEMMA ImageKept ==
  ASSUME ImageInv
  PROVE  Image!TypeOK /\ Image!GoodImage /\ Image!Loadable /\ Image!FailureNoticed /\ Image!PatchedLast
<1>1. ImageTypes
  BY DEF ImageInv
<1>2. Image!TypeOK
  <2>1. {bout[j] : j \in DOMAIN bout} \subseteq {"boot", "setup", "pad", "system", "memory"}
    <3>1. bout \in Seq({"boot", "setup", "pad", "system", "memory"})
      BY <1>1 DEF ImageTypes
    <3>2. \A j \in DOMAIN bout : bout[j] \in {"boot", "setup", "pad", "system", "memory"}
      BY <3>1, LenProperties, ElementOfSeq
    <3> QED BY <3>2
  <2> QED BY <2>1, <1>1 DEF ImageTypes, Image!TypeOK
<1>3. Image!Loadable
  <2> SUFFICES ASSUME bpc = "exit 0", ~bargs.big
               PROVE  bheader.setup >= SETUP_SECTS /\ bheader.size <= DEF_SYSSIZE /\ bheader.size * Click >= bargs.system
    BY DEF Image!Loadable
  <2>1. bsectors = Needed /\ bsize = Image!Clicks(bargs.system) /\ ~Image!TooBig(bsize) /\ bargs.system \in Nat
    BY Known
  <2>2. bheader.setup = bsectors % ByteSize /\ bheader.size = bsize % (ByteSize * ByteSize)
    BY DEF ImageInv, ImagePlaces
  <2>3. bsectors \in Nat /\ SETUP_SECTS <= bsectors /\ bsectors < ByteSize
    BY <2>1, <1>1, NeededFacts
  <2>4. bheader.setup = bsectors
    BY <2>2, <2>3, ImageConstants, Fits
  <2>5. bsize \in Nat /\ bargs.system <= bsize * Click
    BY <2>1, ImageConstants, RoundedUp DEF Image!Clicks
  <2> DEFINE words == ByteSize * ByteSize
             p == bsize * Click
  <2>6. bsize \in Nat /\ DEF_SYSSIZE \in Nat /\ words \in Nat /\ ~(bsize > DEF_SYSSIZE) /\ DEF_SYSSIZE < words
    <3>1. ~(bsize > DEF_SYSSIZE)
      BY <2>1 DEF Image!TooBig
    <3>2. ByteSize \in Nat /\ DEF_SYSSIZE \in Nat /\ DEF_SYSSIZE < ByteSize * ByteSize
      BY ImageConstants
    <3> QED BY ONLY <2>5, <3>1, <3>2, Product
  <2>7. bheader.size = bsize % words /\ p \in Nat /\ bargs.system <= p /\ bargs.system \in Nat
    <3>1. Click \in Nat
      BY ImageConstants
    <3> QED BY ONLY <2>1, <2>2, <2>5, <3>1, Product
  <2> HIDE DEF words, p
  <2>8. bsize <= DEF_SYSSIZE /\ bsize < words /\ words > 0
    BY ONLY <2>6, Limited
  <2>9. bheader.size = bsize
    BY ONLY <2>6, <2>7, <2>8, Fits
  <2>10. p >= bargs.system
    BY ONLY <2>7
  <2>11. SETUP_SECTS \in Nat
    BY ImageConstants
  <2>12. bheader.setup >= SETUP_SECTS
    BY ONLY <2>3, <2>4, <2>11
  <2> QED BY <2>8, <2>9, <2>10, <2>12 DEF p
<1>4. Image!FailureNoticed
  BY DEF Image!FailureNoticed, ImageInv, ImagePlaces
<1>5. Image!PatchedLast
  <2> SUFFICES ASSUME bheader.size # DEF_SYSSIZE \/ bheader.setup # SETUP_SECTS
               PROVE  bsz = 0 /\ Len(bout) = Sector * (bsectors + 1) + bargs.system
    BY DEF Image!PatchedLast, Image!Default
  <2>1. bsz = 0 /\ Len(bout) = Sector + Room + bargs.system
    BY DEF ImageInv, ImagePlaces, Whole
  <2>2. Sector * (bsectors + 1) = Sector + Room
    <3>1. bsectors \in Nat /\ Sector \in Nat
      BY <1>1, ImageConstants DEF ImageTypes
    <3>2. Sector * (bsectors + 1) = Sector + bsectors * Sector
      BY <3>1
    <3> QED BY <3>2 DEF Room
  <2> QED BY <2>1, <2>2
<1> QED BY <1>2, <1>3, <1>4, <1>5, ImageGood
-----------------------------------------------------------------------------
(* The way into the kernel.  The directory has the frames of two tables    *)
(* twice; entry by entry, they map the memory to itself.                   *)
Directory ==
  /\ emem[Entry!swapper_pg_dir] = Entry!Entry((KernelAt \div TableSize) + 2)
  /\ emem[Entry!swapper_pg_dir + 1] = Entry!Entry((KernelAt \div TableSize) + 3)
  /\ emem[Entry!swapper_pg_dir + BOOT_USER_PGD_PTRS] = Entry!Entry((KernelAt \div TableSize) + 2)
  /\ emem[Entry!swapper_pg_dir + BOOT_USER_PGD_PTRS + 1] = Entry!Entry((KernelAt \div TableSize) + 3)
FilledTo(limit) == \A p \in Entry!pg0 .. limit - 1 : emem[p] = Entry!Entry(p - Entry!pg0)
Kept(m, j, word) == word = Entry!Parameters(m)[j] \/ (j = 0 /\ word = Entry!FirstWord(m.ext, "puts"))
Intact == \A j \in 0 .. TableSize - 1 : Kept(emachine, j, emem[RealMode + j])

MemoryEnough == emachine.ext >= EnoughMemory
CommandLineTold == emachine.old \/ emachine.new

Unpaged == {"a20", "clear", "decompress_kernel", "error", "gunzip", "booting", "startup_32", "tables", "paging"}
Paged == {"bss", "idt", "parameters", "pointer", "checkCPUtype", "is486", "check_x87", "start_kernel", "hlt"}

EntryTypes ==
  /\ emachine \in Machines /\ emem = [p \in 0 .. _end - 1 |-> emem[p]] /\ epc \in Unpaged \union Paged
  /\ epc \in Paged => epaging = TRUE
  /\ epc \in Unpaged => epaging = FALSE

EntryPlaces ==
  /\ epc # "a20" => emachine.a20
  /\ epc = "error" => ~MemoryEnough
  /\ epc \notin {"a20", "clear", "decompress_kernel", "error"} => MemoryEnough
  /\ epc \in Paged \union {"booting", "startup_32", "tables", "paging"} => Directory
  /\ epc = "tables" =>
       eedi \in Entry!pg0 .. Entry!empty_zero_page - 1 /\ eeax = eedi - Entry!pg0 /\ FilledTo(eedi)
  /\ epc \in Paged \union {"paging"} => FilledTo(Entry!empty_zero_page)
  /\ epc = "pointer" =>
       emem[Entry!empty_zero_page + Entry!NEW_CL_POINTER] = Entry!Parameters(emachine)[Entry!NEW_CL_POINTER]
  /\ epc \in {"checkCPUtype", "is486", "check_x87", "start_kernel"} => ~CommandLineTold
  /\ epc \in {"is486", "check_x87", "start_kernel"} => emachine.kind # "386"
  /\ epc = "hlt" => emachine.kind = "386" \/ CommandLineTold

EntryInv == EntryTypes /\ Intact /\ EntryPlaces
-----------------------------------------------------------------------------
(* Division with a remainder.                                              *)
LEMMA Divided ==
  ASSUME NEW a \in Nat, NEW n \in Nat, n > 0
  PROVE  a \div n \in Nat /\ n * (a \div n) <= a /\ a < n * (a \div n) + n
OBVIOUS

LEMMA DividedOnce ==
  ASSUME NEW a \in Nat, NEW n \in Nat, n > 0, NEW q \in Int, n * q <= a, a < n * q + n
  PROVE  a \div n = q
OBVIOUS

LEMMA Remains ==
  ASSUME NEW a \in Nat, NEW n \in Nat, n > 0
  PROVE  a % n \in 0 .. n - 1 /\ a = n * (a \div n) + (a % n)
<1>1. a % n \in 0 .. n - 1
  OBVIOUS
<1>2. a % n = a - n * (a \div n)
  OBVIOUS
<1>3. n * (a \div n) \in Int
  BY Divided
<1> QED BY <1>1, <1>2, <1>3

LEMMA Ring ==
  ASSUME NEW a \in Int, NEW b \in Int, NEW c \in Int
  PROVE  a * b \in Int /\ a * b = b * a /\ (a * b) * c = a * (b * c) /\ a * (b + c) = a * b + a * c
OBVIOUS

LEMMA Monotone ==
  ASSUME NEW x \in Int, NEW y \in Int, NEW p \in Nat, x <= y
  PROVE  p * x <= p * y
OBVIOUS

LEMMA Shifted ==
  ASSUME NEW b \in Nat, NEW v \in Nat, NEW n \in Nat, n > 0
  PROVE  (n * b + v) \div n = b + (v \div n) /\ (n * b + v) % n = v % n
<1> DEFINE q == v \div n
           r == v % n
           nb == n * b
           nq == n * q
           w == nb + v
           e == w % n
<1>1. q \in Nat /\ r \in 0 .. n - 1 /\ v = nq + r
  BY Divided, Remains
<1> HIDE DEF q, r
<1>2. nb \in Nat /\ nq \in Nat
  BY <1>1, Product
<1>3. n * (b + q) = nb + nq
  BY <1>1, Ring
<1> HIDE DEF nb, nq
<1>4. w \in Nat /\ nb + nq <= w /\ w < (nb + nq) + n /\ b + q \in Int
  BY <1>1, <1>2
<1> HIDE DEF w
<1>5. w \div n = b + q
  <2>1. n * (b + q) <= w /\ w < n * (b + q) + n
    BY <1>3, <1>4
  <2> QED BY <2>1, <1>4, DividedOnce
<1>6. e \in 0 .. n - 1 /\ w = n * (w \div n) + e
  BY <1>4, Remains
<1> HIDE DEF e
<1>7. w = (nb + nq) + e
  BY <1>3, <1>5, <1>6
<1>8. w = (nb + nq) + r
  BY <1>1, <1>2 DEF w
<1>9. e = r
  BY <1>1, <1>2, <1>6, <1>7, <1>8
<1> QED BY <1>5, <1>9 DEF e, w, nb, q, r

(* Dividing twice is dividing by the square.                               *)
LEMMA Twice ==
  ASSUME NEW a \in Nat, NEW n \in Nat, n > 0
  PROVE  a \div (n * n) = (a \div n) \div n
<1> DEFINE q == a \div n
           d == q \div n
           nn == n * n
           nd == n * d
           nq == n * q
<1>1. q \in Nat /\ nq <= a /\ a < nq + n
  BY Divided
<1> HIDE DEF q
<1>2. d \in Nat /\ nd <= q /\ q < nd + n
  BY <1>1, Divided
<1> HIDE DEF d
<1>3. nn \in Nat /\ nn > 0 /\ nd \in Int /\ nq \in Int
  BY <1>1, <1>2
<1>4. n * nd <= nq
  BY <1>1, <1>2, <1>3, Monotone
<1>5. n * (q + 1) <= n * (nd + n)
  <2>1. q + 1 \in Int /\ nd + n \in Int /\ q + 1 <= nd + n
    BY <1>1, <1>2, <1>3
  <2> QED BY <2>1, Monotone
<1>6. nn * d = n * nd
  BY <1>2, Ring
<1>7. n * (q + 1) = nq + n * 1 /\ n * (nd + n) = n * nd + nn
  BY <1>1, <1>3, Ring
<1>8. n * 1 = n /\ n * nd \in Int
  BY <1>3
<1> HIDE DEF nn, nd, nq
<1>9. nn * d <= a /\ a < nn * d + nn
  BY <1>1, <1>3, <1>4, <1>5, <1>6, <1>7, <1>8
<1>10. a \div nn = d
  BY <1>2, <1>3, <1>9, DividedOnce
<1> QED BY <1>10 DEF nn, d, q

(* Where an address b tables up is looked for: the entry of the directory  *)
(* differs by b, and nothing else.                                         *)
Looked(b, v, n) ==
  /\ (b * (n * n) + v) \div (n * n) = b + (v \div (n * n))
  /\ ((b * (n * n) + v) \div n) % n = (v \div n) % n
  /\ (b * (n * n) + v) % n = v % n
  /\ v \div (n * n) \in 0 .. 1 /\ (v \div n) % n \in 0 .. n - 1 /\ v % n \in 0 .. n - 1
  /\ v = n * (n * (v \div (n * n)) + ((v \div n) % n)) + (v % n)

LEMMA Levels ==
  ASSUME NEW b \in Nat, NEW v \in Nat, NEW n \in Nat, n > 0, v < 2 * (n * n)
  PROVE  Looked(b, v, n)
<1> DEFINE q == v \div n
           d == q \div n
           w == b * (n * n) + v
           nb == n * b
           nn == n * n
<1>1. w = n * nb + v /\ nb \in Nat
  <2>1. n * (n * b) = b * (n * n)
    <3>1. (n * n) * b = n * (n * b) /\ n * n \in Int
      BY Ring
    <3>2. (n * n) * b = b * (n * n)
      BY <3>1, Ring
    <3> QED BY <3>1, <3>2
  <2> QED BY <2>1, Product
<1>2. q \in Nat
  BY Divided
<1>3. nn \in Nat /\ nn > 0
  OBVIOUS
<1>4. w \in Nat
  <2>1. n * nb \in Nat
    BY <1>1, Product
  <2> HIDE DEF w, nb
  <2> QED BY <1>1, <2>1
<1>5. w \div n = nb + q /\ w % n = v % n
  <2> HIDE DEF w, nb
  <2> QED BY <1>1, Shifted DEF q
<1>6. (nb + q) \div n = b + d /\ (nb + q) % n = q % n
  <2> HIDE DEF q
  <2> QED BY <1>2, Shifted DEF nb
<1>7. w \div nn = b + d
  <2>1. w \div nn = (w \div n) \div n
    <3> HIDE DEF w
    <3> QED BY <1>4, Twice
  <2> QED BY <2>1, <1>5, <1>6
<1>8. v \div nn = d
  BY Twice
<1>9. v % n \in 0 .. n - 1 /\ v = n * q + (v % n)
  BY Remains
<1>10. q % n \in 0 .. n - 1 /\ q = n * d + (q % n)
  <2> HIDE DEF q
  <2> QED BY <1>2, Remains DEF d
<1>11. d \in 0 .. 1
  <2>1. d \in Nat /\ nn * d <= v
    <3>1. v \div nn \in Nat /\ nn * (v \div nn) <= v
      <4> HIDE DEF nn
      <4> QED BY <1>3, Divided
    <3> QED BY <3>1, <1>8
  <2>2. CASE d >= 2
    <3>1. nn * 2 <= nn * d /\ nn * 2 = 2 * nn /\ nn * d \in Int
      <4> HIDE DEF nn, d
      <4> QED BY <2>1, <2>2, <1>3, Monotone, Ring
    <3>2. v < 2 * nn
      OBVIOUS
    <3> HIDE DEF nn, d
    <3> DEFINE x == nn * d
               y == 2 * nn
    <3>3. y <= x /\ x <= v /\ v < y /\ x \in Int /\ y \in Int
      BY <2>1, <3>1, <3>2, <1>3
    <3> HIDE DEF x, y
    <3> QED BY <3>3
  <2>3. CASE ~(d >= 2)
    <3> HIDE DEF d
    <3> QED BY <2>1, <2>3
  <2> QED BY <2>2, <2>3
<1> HIDE DEF d
<1> QED BY <1>5, <1>6, <1>7, <1>8, <1>9, <1>10, <1>11 DEF nn, w, q, Looked
LEMMA EntryConstants ==
  /\ TableSize \in Nat /\ TableSize > 0 /\ KernelAt \in Nat /\ RealMode \in Nat /\ _edata \in Nat /\ end \in Nat
  /\ idt_table \in Nat /\ idt_entries \in Nat /\ __bss_start \in Nat /\ _end \in Nat
  /\ BOOT_USER_PGD_PTRS \in Nat /\ EnoughMemory \in Nat /\ Words \in Nat
  /\ Entry!Half \in Nat /\ TableSize = Entry!Half + Entry!Half /\ Entry!Half > 3
  /\ KernelAt % TableSize = 0
  /\ 0 < _edata /\ _edata <= end /\ end <= RealMode /\ RealMode + TableSize <= KernelAt
  /\ Entry!empty_zero_page + TableSize <= idt_table /\ idt_table + idt_entries <= __bss_start
  /\ __bss_start < _end /\ _end <= 2 * Entry!Reach
  /\ 2 <= BOOT_USER_PGD_PTRS /\ BOOT_USER_PGD_PTRS <= TableSize - 2
  /\ Entry!swapper_pg_dir = KernelAt + TableSize /\ Entry!pg0 = KernelAt + 2 * TableSize
  /\ Entry!empty_zero_page = KernelAt + 4 * TableSize
<1>1. Entry!LayoutOK
  BY Parameters
<1>2. /\ TableSize \in Nat \ {0} /\ KernelAt \in Nat /\ RealMode \in Nat /\ _edata \in Nat /\ end \in Nat
      /\ idt_table \in Nat /\ idt_entries \in Nat /\ __bss_start \in Nat /\ _end \in Nat
      /\ BOOT_USER_PGD_PTRS \in Nat /\ EnoughMemory \in Nat /\ Words \in Nat
  BY <1>1 DEF Entry!LayoutOK
<1>3. TableSize % 2 = 0 /\ Entry!Half > 3 /\ KernelAt % TableSize = 0
  BY <1>1 DEF Entry!LayoutOK, Entry!NEW_CL_POINTER
<1>4. TableSize = 2 * (TableSize \div 2) + (TableSize % 2) /\ TableSize \div 2 \in Nat
  BY <1>2, Divided, Remains
<1>5. Entry!Half \in Nat /\ TableSize = Entry!Half + Entry!Half
  <2> DEFINE h == TableSize \div 2
  <2>1. h \in Nat /\ TableSize = 2 * h + 0
    BY <1>3, <1>4
  <2>2. Entry!Half = h
    BY DEF Entry!Half
  <2> HIDE DEF h
  <2> QED BY <2>1, <2>2
<1>6. /\ 0 < _edata /\ _edata <= end /\ end <= RealMode /\ RealMode + TableSize <= KernelAt
      /\ Entry!empty_zero_page + TableSize <= idt_table /\ idt_table + idt_entries <= __bss_start
      /\ __bss_start < _end /\ _end <= 2 * Entry!Reach /\ BOOT_USER_PGD_PTRS \in 2 .. TableSize - 2
  BY <1>1 DEF Entry!LayoutOK
<1>7. 2 <= BOOT_USER_PGD_PTRS /\ BOOT_USER_PGD_PTRS <= TableSize - 2
  BY <1>2, <1>6
<1> QED BY <1>2, <1>3, <1>5, <1>6, <1>7 DEF Entry!swapper_pg_dir, Entry!pg0, Entry!empty_zero_page

(* Both mappings lead to the word itself.                                  *)
LEMMA Mapped ==
  ASSUME epaging = TRUE, Directory, FilledTo(Entry!empty_zero_page), NEW v \in 0 .. _end - 1
  PROVE  Entry!Phys(v) = v /\ Entry!Phys(Entry!PAGE_OFFSET + v) = v
<1> DEFINE n == TableSize
           nn == n * n
           b == BOOT_USER_PGD_PTRS
           f == KernelAt \div n
           w == b * nn + v
           d == v \div nn
           e == (v \div n) % n
           r == v % n
           dir == Entry!swapper_pg_dir
           pg == Entry!pg0
           ezp == Entry!empty_zero_page
<1>1. /\ n \in Nat /\ n > 0 /\ b \in Nat /\ KernelAt \in Nat /\ KernelAt % n = 0 /\ _end \in Nat /\ _end <= 2 * nn
      /\ pg = KernelAt + 2 * n /\ ezp = KernelAt + 4 * n
  BY EntryConstants DEF Entry!Reach
<1>2. nn \in Nat
  BY <1>1, Product
<1> HIDE DEF n, b, dir, pg, ezp
<1>3. v \in Nat /\ v < 2 * (n * n)
  <2> HIDE DEF nn
  <2>1. v \in Nat /\ v < 2 * nn
    BY <1>1, <1>2
  <2> QED BY <2>1 DEF nn
<1>4. /\ w \div nn = b + d /\ (w \div n) % n = e /\ w % n = r
      /\ d \in 0 .. 1 /\ e \in 0 .. n - 1 /\ r \in 0 .. n - 1 /\ v = n * (n * d + e) + r
  <2>1. Looked(b, v, n)
    BY ONLY <1>1, <1>3, Levels
  <2> QED BY <2>1 DEF Looked
<1>5. f \in Nat /\ KernelAt = n * f
  <2>1. KernelAt = n * f + (KernelAt % n) /\ f \in Nat
    BY <1>1, Remains, Divided
  <2>2. n * f \in Nat
    BY <2>1, <1>1, Product
  <2> DEFINE x == n * f
  <2> HIDE DEF x, f
  <2>3. KernelAt = x + 0 /\ x \in Nat
    BY <2>1, <2>2, <1>1 DEF x
  <2>4. KernelAt = x
    BY ONLY <2>3
  <2> QED BY <2>1, <2>4 DEF x
<1> HIDE DEF w, d, e, r, f, nn
<1>6. emem[dir + d] = Entry!Entry(f + 2 + d) /\ emem[dir + (b + d)] = Entry!Entry(f + 2 + d)
  <2>1. /\ emem[dir] = Entry!Entry(f + 2) /\ emem[dir + 1] = Entry!Entry(f + 3)
        /\ emem[dir + b] = Entry!Entry(f + 2) /\ emem[dir + b + 1] = Entry!Entry(f + 3)
    BY DEF Directory, dir, f, b, n
  <2>2. dir \in Nat
    <3>1. KernelAt + n \in Nat
      BY <1>1
    <3> QED BY <3>1, EntryConstants DEF dir, n
  <2>3. CASE d = 0
    <3>1. dir + d = dir /\ dir + (b + d) = dir + b /\ f + 2 + d = f + 2
      BY <2>2, <2>3, <1>1, <1>5
    <3> QED BY <3>1, <2>1
  <2>4. CASE d = 1
    <3>1. dir + d = dir + 1 /\ dir + (b + d) = dir + b + 1 /\ f + 2 + d = f + 3
      BY <2>2, <2>4, <1>1, <1>5
    <3> QED BY <3>1, <2>1
  <2>5. d = 0 \/ d = 1
    BY <1>4
  <2> QED BY <2>3, <2>4, <2>5
<1>7. emem[(f + 2 + d) * n + e] = Entry!Entry(n * d + e)
  <2> DEFINE x == n * d + e
  <2>1. n * d \in 0 .. n
    <3>1. CASE d = 0 BY <3>1, <1>1
    <3>2. CASE d = 1 BY <3>2, <1>1
    <3> QED BY <3>1, <3>2, <1>4
  <2>2. (f + 2 + d) * n = n * f + 2 * n + n * d
    <3>1. f \in Int /\ 2 + d \in Int /\ d \in Int /\ n \in Int /\ f + 2 + d \in Int /\ f + 2 + d = f + (2 + d)
      BY <1>1, <1>4, <1>5
    <3>2. (f + 2 + d) * n = n * (f + (2 + d)) /\ n * (f + (2 + d)) = n * f + n * (2 + d) /\ n * (2 + d) = n * 2 + n * d
      BY <3>1, Ring
    <3>3. n * f \in Int /\ n * d \in Int /\ n * 2 = 2 * n
      BY <3>1, Ring
    <3> DEFINE y == n * f
               z == n * d
    <3> HIDE DEF y, z
    <3> QED BY <3>1, <3>2, <3>3 DEF y, z
  <2>3. (f + 2 + d) * n + e = pg + x
    <3> DEFINE z == n * d
    <3>1. (f + 2 + d) * n = KernelAt + 2 * n + z /\ z \in Nat /\ pg = KernelAt + 2 * n
      BY <2>1, <2>2, <1>1, <1>5
    <3> HIDE DEF z
    <3>2. KernelAt + 2 * n + z + e = (KernelAt + 2 * n) + (z + e)
      BY <3>1, <1>1, <1>4
    <3> QED BY <3>1, <3>2 DEF z
  <2>4. x \in 0 .. 2 * n - 1
    <3> DEFINE z == n * d
    <3>1. z \in 0 .. n
      BY <2>1
    <3> HIDE DEF z
    <3>2. z + e \in 0 .. 2 * n - 1
      BY <3>1, <1>1, <1>4
    <3> QED BY <3>2 DEF z
  <2> HIDE DEF x
  <2>5. pg + x \in pg .. ezp - 1 /\ (pg + x) - pg = x
    BY <2>4, <1>1
  <2>6. emem[pg + x] = Entry!Entry((pg + x) - pg)
    <3> DEFINE z == pg + x
    <3>1. \A p \in pg .. ezp - 1 : emem[p] = Entry!Entry(p - pg)
      BY DEF FilledTo, pg, ezp
    <3>2. z \in pg .. ezp - 1
      BY <2>5
    <3> HIDE DEF z
    <3>3. emem[z] = Entry!Entry(z - pg)
      BY <3>1, <3>2
    <3> QED BY <3>3 DEF z
  <2> QED BY <2>3, <2>5, <2>6 DEF x
<1>8. (n * d + e) * n + r = v
  <2>1. n * d + e \in Int
    <3>1. n * d \in Int
      BY <1>1, <1>4, Ring
    <3> DEFINE z == n * d
    <3> HIDE DEF z
    <3> QED BY <3>1, <1>1, <1>4 DEF z
  <2>2. (n * d + e) * n = n * (n * d + e)
    BY <2>1, <1>1, Ring
  <2> QED BY <2>2, <1>4
<1>9. Entry!Entry(f + 2 + d)[1] = "entry" /\ Entry!Entry(f + 2 + d)[2] = f + 2 + d
      /\ Entry!Entry(n * d + e)[1] = "entry" /\ Entry!Entry(n * d + e)[2] = n * d + e
  BY DEF Entry!Entry
<1>10. ASSUME NEW at, NEW s, dir + (at \div nn) = s, emem[s] = Entry!Entry(f + 2 + d), (at \div n) % n = e, at % n = r
       PROVE  Entry!Phys(at) = v
  <2>1. emem[dir + (at \div nn)] = Entry!Entry(f + 2 + d)
    BY <1>10
  <2>2. emem[emem[dir + (at \div nn)][2] * n + ((at \div n) % n)] = Entry!Entry(n * d + e)
    BY <2>1, <1>7, <1>9, <1>10
  <2>3. Entry!Phys(at) = (n * d + e) * n + r
    BY <2>1, <2>2, <1>9, <1>10 DEF Entry!Phys, Entry!Reach, nn, n, dir
  <2> QED BY <2>3, <1>8
<1>11. Entry!Phys(v) = v
  BY <1>4, <1>6, <1>10 DEF d, e, r
<1>12. Entry!Phys(w) = v
  BY <1>4, <1>6, <1>10
<1> QED BY <1>11, <1>12 DEF w, nn, n, b, Entry!PAGE_OFFSET, Entry!Reach

(* Without paging an address is a word's own.                              *)
LEMMA Unmapped ==
  ASSUME epaging = FALSE, NEW v
  PROVE  Entry!Phys(v) = v
BY DEF Entry!Phys

(* A store to n words that the addresses lead to.                          *)
Leads(at, to, n) == \A j \in 0 .. n - 1 : Entry!Phys(at + j) = to + j
Written(words, to, n) ==
  /\ emem' = [p \in 0 .. _end - 1 |-> emem'[p]]
  /\ \A p \in 0 .. _end - 1 : p \in to .. to + n - 1 => emem'[p] = words[p - to]
  /\ \A p \in 0 .. _end - 1 : p \notin to .. to + n - 1 => emem'[p] = emem[p]

LEMMA Stored ==
  ASSUME NEW at, NEW to \in Nat, NEW n \in Nat, NEW words, NEW next, EntryTypes,
         DOMAIN words = 0 .. n - 1, Leads(at, to, n), to + n <= _end, Entry!Store(at, words, next)
  PROVE  epc' = next /\ Written(words, to, n)
<1>1. _end \in Nat /\ DOMAIN emem = 0 .. _end - 1
  BY EntryConstants DEF EntryTypes
<1> DEFINE t == [j \in DOMAIN words |-> Entry!Phys(at + j)]
<1>2. DOMAIN t = 0 .. n - 1 /\ \A j \in 0 .. n - 1 : t[j] = to + j
  BY DEF Leads
<1>3. IF \E j \in DOMAIN t : t[j] \notin DOMAIN emem
      THEN epc' = "fault" /\ UNCHANGED emem
      ELSE /\ epc' = next
           /\ emem' = [p \in DOMAIN emem |->
                        IF \E j \in DOMAIN t : t[j] = p THEN words[CHOOSE j \in DOMAIN t : t[j] = p] ELSE emem[p]]
  BY DEF Entry!Store
<1> HIDE DEF t
<1>4. \A j \in 0 .. n - 1 : to + j \in 0 .. _end - 1
  BY <1>1
<1>5. /\ epc' = next
      /\ emem' = [p \in 0 .. _end - 1 |->
                   IF \E j \in 0 .. n - 1 : t[j] = p THEN words[CHOOSE j \in 0 .. n - 1 : t[j] = p] ELSE emem[p]]
  BY <1>1, <1>2, <1>3, <1>4
<1>6. ASSUME NEW p \in 0 .. _end - 1, p \in to .. to + n - 1 PROVE emem'[p] = words[p - to]
  <2>1. p - to \in 0 .. n - 1 /\ to + (p - to) = p
    BY <1>1, <1>6
  <2>2. \A j \in 0 .. n - 1 : to + j = p => j = p - to
    BY <1>1
  <2>3. (\E j \in 0 .. n - 1 : t[j] = p) /\ (CHOOSE j \in 0 .. n - 1 : t[j] = p) = p - to
    BY <2>1, <2>2, <1>2
  <2> QED BY <2>3, <1>5
<1>7. ASSUME NEW p \in 0 .. _end - 1, p \notin to .. to + n - 1 PROVE emem'[p] = emem[p]
  <2>1. \A j \in 0 .. n - 1 : to + j \in to .. to + n - 1
    BY <1>1
  <2>2. ~ \E j \in 0 .. n - 1 : t[j] = p
    BY <2>1, <1>2, <1>7
  <2> QED BY <2>2, <1>5
<1>8. emem' = [p \in 0 .. _end - 1 |-> emem'[p]]
  BY <1>5
<1> QED BY <1>5, <1>6, <1>7, <1>8 DEF Written
(* What is not written to stays.                                           *)
LEMMA IntactKept ==
  ASSUME Intact, EntryTypes, NEW to \in Nat, NEW n \in Nat, NEW words, Written(words, to, n), UNCHANGED emachine,
         to + n <= RealMode \/ RealMode + TableSize <= to
  PROVE  Intact'
<1> SUFFICES ASSUME NEW j \in 0 .. TableSize - 1
             PROVE  Kept(emachine, j, emem'[RealMode + j])
  BY DEF Intact, Kept, Entry!Parameters
<1>1. /\ RealMode \in Nat /\ TableSize \in Nat /\ KernelAt \in Nat /\ _end \in Nat /\ RealMode + TableSize <= KernelAt
      /\ KernelAt <= _end
  <2> DEFINE ezp == Entry!empty_zero_page
  <2>1. /\ RealMode \in Nat /\ TableSize \in Nat /\ KernelAt \in Nat /\ _end \in Nat /\ RealMode + TableSize <= KernelAt
        /\ idt_table \in Nat /\ idt_entries \in Nat /\ __bss_start \in Nat
        /\ ezp = KernelAt + 4 * TableSize /\ ezp + TableSize <= idt_table /\ idt_table + idt_entries <= __bss_start
        /\ __bss_start < _end
    BY EntryConstants
  <2> HIDE DEF ezp
  <2> QED BY ONLY <2>1
<1>2. RealMode + j \in 0 .. _end - 1
  BY ONLY <1>1
<1>3. RealMode + j \notin to .. to + n - 1
  <2>1. CASE to + n <= RealMode
    BY ONLY <1>1, <2>1
  <2>2. CASE RealMode + TableSize <= to
    BY ONLY <1>1, <2>2
  <2> QED BY <2>1, <2>2
<1>4. emem'[RealMode + j] = emem[RealMode + j]
  BY <1>2, <1>3 DEF Written
<1> QED BY <1>4 DEF Intact

(* The order of the kernel's parts, in numbers.                            *)
LEMMA Placed ==
  /\ Entry!swapper_pg_dir \in Nat /\ Entry!pg0 \in Nat /\ Entry!empty_zero_page \in Nat
  /\ Entry!swapper_pg_dir + TableSize = Entry!pg0 /\ Entry!pg0 + 2 * TableSize = Entry!empty_zero_page
  /\ Entry!empty_zero_page + TableSize <= _end /\ Entry!empty_zero_page + TableSize <= __bss_start
  /\ KernelAt + TableSize = Entry!swapper_pg_dir /\ RealMode + TableSize <= Entry!swapper_pg_dir
  /\ RealMode + TableSize <= Entry!pg0 /\ RealMode + TableSize <= Entry!empty_zero_page
  /\ KernelAt <= __bss_start /\ RealMode + TableSize <= _end /\ end <= _end
<1> DEFINE d == Entry!swapper_pg_dir
           p == Entry!pg0
           z == Entry!empty_zero_page
<1>1. /\ TableSize \in Nat /\ KernelAt \in Nat /\ RealMode \in Nat /\ end \in Nat
      /\ idt_table \in Nat /\ idt_entries \in Nat /\ __bss_start \in Nat /\ _end \in Nat
      /\ end <= RealMode /\ RealMode + TableSize <= KernelAt
      /\ z + TableSize <= idt_table /\ idt_table + idt_entries <= __bss_start /\ __bss_start < _end
      /\ d = KernelAt + TableSize /\ p = KernelAt + 2 * TableSize /\ z = KernelAt + 4 * TableSize
  BY EntryConstants
<1> HIDE DEF d, p, z
<1>2. /\ d \in Nat /\ p \in Nat /\ z \in Nat /\ d + TableSize = p /\ p + 2 * TableSize = z
      /\ z + TableSize <= _end /\ z + TableSize <= __bss_start
      /\ KernelAt + TableSize = d /\ RealMode + TableSize <= d
      /\ RealMode + TableSize <= p /\ RealMode + TableSize <= z
      /\ KernelAt <= __bss_start /\ RealMode + TableSize <= _end /\ end <= _end
  BY ONLY <1>1
<1> QED BY <1>2 DEF d, p, z

(* The four entries of the directory are in its page.                      *)
LEMMA DirectoryAt ==
  ASSUME NEW s \in {0, 1, BOOT_USER_PGD_PTRS, BOOT_USER_PGD_PTRS + 1}
  PROVE  s \in 0 .. TableSize - 1 /\ Entry!swapper_pg_dir + s \in 0 .. _end - 1 /\ Entry!swapper_pg_dir + s < Entry!pg0
<1> DEFINE d == Entry!swapper_pg_dir
           p == Entry!pg0
           z == Entry!empty_zero_page
           b == BOOT_USER_PGD_PTRS
<1>1. /\ TableSize \in Nat /\ b \in Nat /\ _end \in Nat /\ d \in Nat /\ p \in Nat /\ z \in Nat
      /\ 2 <= b /\ b <= TableSize - 2 /\ d + TableSize = p /\ p + 2 * TableSize = z /\ z + TableSize <= _end
  BY EntryConstants, Placed
<1>2. s \in {0, 1, b, b + 1}
  OBVIOUS
<1> HIDE DEF d, p, z, b
<1>3. s \in 0 .. TableSize - 1
  BY ONLY <1>1, <1>2
<1>4. d + s \in 0 .. _end - 1 /\ d + s < p
  BY ONLY <1>1, <1>3
<1> QED BY <1>3, <1>4 DEF d, p

LEMMA DirectoryKept ==
  ASSUME Directory, NEW to \in Nat, NEW n \in Nat, NEW words, Written(words, to, n), Entry!pg0 <= to
  PROVE  Directory'
<1> DEFINE d == Entry!swapper_pg_dir
           p == Entry!pg0
           b == BOOT_USER_PGD_PTRS
<1>0. d \in Nat /\ p \in Nat /\ _end \in Nat /\ p <= to /\ b \in Nat
  BY Placed, EntryConstants
<1>1. ASSUME NEW s \in {0, 1, b, b + 1} PROVE emem'[d + s] = emem[d + s]
  <2>1. s \in Nat /\ d + s \in 0 .. _end - 1 /\ d + s < p
    <3>1. s \in Nat
      BY <1>0
    <3> QED BY <3>1, DirectoryAt
  <2>2. \A q \in 0 .. _end - 1 : q \notin to .. to + n - 1 => emem'[q] = emem[q]
    BY DEF Written
  <2> DEFINE q == d + s
  <2>3. q \in 0 .. _end - 1 /\ q < p
    BY <2>1
  <2> HIDE DEF d, p, b, q
  <2>4. q \notin to .. to + n - 1
    BY ONLY <1>0, <2>3
  <2> QED BY <2>2, <2>3, <2>4 DEF q
<1>2. d = d + 0 /\ d + b + 1 = d + (b + 1)
  <2> HIDE DEF d, b
  <2> QED BY ONLY <1>0
<1>3. emem'[d] = emem[d] /\ emem'[d + 1] = emem[d + 1] /\ emem'[d + b] = emem[d + b] /\ emem'[d + b + 1] = emem[d + b + 1]
  <2> HIDE DEF d, b
  <2> QED BY <1>1, <1>2
<1> QED BY <1>3 DEF Directory

LEMMA FilledKept ==
  ASSUME NEW limit \in Nat, FilledTo(limit), NEW to \in Nat, NEW n \in Nat, NEW words, Written(words, to, n),
         limit <= to, limit <= _end
  PROVE  \A p \in Entry!pg0 .. limit - 1 : emem'[p] = Entry!Entry(p - Entry!pg0)
<1> DEFINE a == Entry!pg0
<1>1. a \in Nat /\ _end \in Nat
  BY Placed, EntryConstants
<1>2. \A q \in 0 .. _end - 1 : q \notin to .. to + n - 1 => emem'[q] = emem[q]
  BY DEF Written
<1>3. \A q \in a .. limit - 1 : emem[q] = Entry!Entry(q - a)
  BY DEF FilledTo
<1> HIDE DEF a
<1>4. \A q \in a .. limit - 1 : q \in 0 .. _end - 1 /\ q \notin to .. to + n - 1
  BY ONLY <1>1, limit \in Nat, to \in Nat, n \in Nat, limit <= to, limit <= _end
<1>5. \A q \in a .. limit - 1 : emem'[q] = Entry!Entry(q - a)
  BY <1>2, <1>3, <1>4
<1> QED BY <1>5 DEF a

(* A store through the kernel's own addresses, behind the tables.          *)
LEMMA StoredHigh ==
  ASSUME EntryInv, epc \in Paged, NEW to \in Nat, NEW n \in Nat, NEW words, NEW next, DOMAIN words = 0 .. n - 1,
         Entry!empty_zero_page <= to, to + n <= _end, Entry!Store(Entry!PAGE_OFFSET + to, words, next),
         UNCHANGED emachine
  PROVE  epc' = next /\ Written(words, to, n) /\ Intact' /\ Directory' /\ FilledTo(Entry!empty_zero_page)'
<1>1. epaging = TRUE /\ Directory /\ FilledTo(Entry!empty_zero_page) /\ Intact /\ EntryTypes
  BY DEF EntryInv, EntryTypes, EntryPlaces
<1>2. \A v \in 0 .. _end - 1 : Entry!Phys(Entry!PAGE_OFFSET + v) = v
  BY <1>1, Mapped
<1> DEFINE o == Entry!PAGE_OFFSET
           z == Entry!empty_zero_page
           p == Entry!pg0
<1>3. o \in Nat /\ _end \in Nat /\ TableSize \in Nat /\ RealMode \in Nat
  BY EntryConstants, Product DEF Entry!PAGE_OFFSET, Entry!Reach
<1>4. z \in Nat /\ p \in Nat /\ p + 2 * TableSize = z /\ z + TableSize <= _end /\ RealMode + TableSize <= z
  BY Placed
<1> HIDE DEF o, z, p
<1>5. \A j \in 0 .. n - 1 : to + j \in 0 .. _end - 1 /\ o + (to + j) = (o + to) + j
  BY ONLY <1>3, to \in Nat, n \in Nat, to + n <= _end
<1>6. Leads(Entry!PAGE_OFFSET + to, to, n)
  BY <1>2, <1>5 DEF Leads, o
<1>7. epc' = next /\ Written(words, to, n)
  BY <1>1, <1>6, Stored
<1>8. z <= to
  BY DEF z
<1>9. RealMode + TableSize <= to /\ p <= to /\ z <= _end
  BY ONLY <1>3, <1>4, <1>8, to \in Nat
<1>10. Intact'
  BY <1>1, <1>7, <1>9, IntactKept
<1>11. Directory'
  BY <1>1, <1>7, <1>9, DirectoryKept DEF p
<1>12. FilledTo(z)'
  BY <1>1, <1>4, <1>7, <1>8, <1>9, FilledKept DEF z, FilledTo
<1> QED BY <1>7, <1>10, <1>11, <1>12 DEF z
LEMMA ParametersAre ==
  ASSUME NEW m
  PROVE  /\ DOMAIN Entry!Parameters(m) = 0 .. TableSize - 1
         /\ {0, 1, 2, 3} \subseteq 0 .. TableSize - 1 /\ {0, 1, 2, 3} \subseteq 0 .. Entry!Half - 1
         /\ Entry!Parameters(m)[0] = Entry!FirstWord(m.ext, "setup")
         /\ Entry!Parameters(m)[1] = Entry!Word(IF m.old THEN 41791 ELSE 1)
         /\ Entry!Parameters(m)[3] = Entry!Word(IF m.new THEN RealMode + Entry!Half ELSE 0)
<1>1. /\ TableSize \in Nat /\ Entry!Half \in Nat /\ TableSize = Entry!Half + Entry!Half /\ Entry!Half > 3
      /\ RealMode \in Nat
  BY EntryConstants
<1>2. {0, 1, 2, 3} \subseteq 0 .. TableSize - 1 /\ {0, 1, 2, 3} \subseteq 0 .. Entry!Half - 1
  BY <1>1
<1>3. /\ RealMode + 1 # RealMode + 2 /\ RealMode + 3 # RealMode + 1 /\ RealMode + 3 # RealMode + 2
      /\ 3 # 0 /\ 1 # 0
  BY <1>1
<1> QED BY <1>1, <1>2, <1>3 DEF Entry!Parameters, Entry!EXT_MEM_K, Entry!OLD_CL_MAGIC_ADDR,
             Entry!OLD_CL_OFFSET, Entry!NEW_CL_POINTER, Entry!OLD_CL_MAGIC, Entry!CommandLine

LEMMA IntactSame ==
  ASSUME UNCHANGED <<emachine, emem>>
  PROVE  Intact' <=> Intact
BY DEF Intact, Kept, Entry!Parameters

LEMMA IntactAfter ==
  ASSUME UNCHANGED emachine, \A j \in 0 .. TableSize - 1 : Kept(emachine, j, emem'[RealMode + j])
  PROVE  Intact'
BY DEF Intact, Kept, Entry!Parameters

(* The words behind the first are setup's.                                 *)
LEMMA ParametersKept ==
  ASSUME Intact, NEW j \in {1, 3}
  PROVE  emem[RealMode + j] = Entry!Parameters(emachine)[j]
BY ParametersAre DEF Intact, Kept

(* puts() changes the first word of setup's page and no other.             *)
LEMMA PrintedKeeps ==
  ASSUME EntryTypes, Intact, emem' = Entry!Printed, UNCHANGED emachine
  PROVE  /\ Intact' /\ emem' = [p \in 0 .. _end - 1 |-> emem'[p]]
         /\ \A p \in 0 .. _end - 1 : RealMode + TableSize <= p => emem'[p] = emem[p]
<1>1. /\ RealMode \in Nat /\ TableSize \in Nat /\ _end \in Nat /\ RealMode + TableSize <= _end
      /\ 0 \in 0 .. TableSize - 1 /\ RealMode + 0 = RealMode
  BY EntryConstants, Placed, ParametersAre
<1>2. /\ DOMAIN emem = 0 .. _end - 1 /\ RealMode \in 0 .. _end - 1
      /\ emem' = [emem EXCEPT ![RealMode] = Entry!FirstWord(emem[RealMode][2], "puts")]
  BY <1>1 DEF EntryTypes, Entry!Printed, Entry!EXT_MEM_K
<1>3. emem[RealMode][2] = emachine.ext
  BY <1>1, ParametersAre DEF Intact, Kept, Entry!FirstWord
<1>4. \A p \in 0 .. _end - 1 : emem'[p] = IF p = RealMode THEN Entry!FirstWord(emachine.ext, "puts") ELSE emem[p]
  BY <1>2, <1>3
<1>5. Intact'
  <2> SUFFICES ASSUME NEW j \in 0 .. TableSize - 1 PROVE Kept(emachine, j, emem'[RealMode + j])
    BY DEF Intact, Kept, Entry!Parameters
  <2> DEFINE q == RealMode + j
  <2>1. q \in 0 .. _end - 1 /\ (q = RealMode <=> j = 0)
    BY ONLY <1>1
  <2> HIDE DEF q
  <2> QED BY <1>4, <2>1 DEF Intact, Kept, q
<1>6. \A p \in 0 .. _end - 1 : RealMode + TableSize <= p => p # RealMode
  BY <1>1
<1>7. emem' = [p \in 0 .. _end - 1 |-> emem'[p]]
  BY <1>2
<1> QED BY <1>4, <1>5, <1>6, <1>7

LEMMA WordsDiffer ==
  ASSUME NEW a, NEW b
  PROVE  (Entry!Word(a) = Entry!Word(b) <=> a = b) /\ Entry!Word(a)[2] = a
BY DEF Entry!Word

LEMMA EntryInitInv ==
  ASSUME Entry!Init
  PROVE  EntryInv
<1>1. emachine \in Machines /\ epc = "a20" /\ epaging = FALSE
  BY DEF Entry!Init
<1>2. PICK high \in 0 .. Words - 1 :
        emem = [p \in 0 .. _end - 1 |->
                 CASE p \in RealMode .. RealMode + TableSize - 1 -> Entry!Parameters(emachine)[p - RealMode]
                   [] p = KernelAt -> Entry!Word(high)
                   [] OTHER -> <<"junk", 0>>]
  BY DEF Entry!Init
<1>3. EntryTypes
  BY <1>1, <1>2 DEF EntryTypes, Paged, Unpaged
<1>4. ASSUME NEW j \in 0 .. TableSize - 1 PROVE Kept(emachine, j, emem[RealMode + j])
  <2>1. /\ RealMode \in Nat /\ TableSize \in Nat /\ _end \in Nat /\ KernelAt \in Nat
        /\ RealMode + TableSize <= KernelAt /\ RealMode + TableSize <= _end
    BY EntryConstants, Placed
  <2> DEFINE q == RealMode + j
  <2>2. q \in 0 .. _end - 1 /\ q \in RealMode .. RealMode + TableSize - 1 /\ q - RealMode = j /\ q # KernelAt
    BY ONLY <2>1
  <2> HIDE DEF q
  <2>3. emem[q] = Entry!Parameters(emachine)[q - RealMode]
    BY <1>2, <2>2
  <2> QED BY <2>2, <2>3 DEF q, Kept
<1>5. EntryPlaces
  BY <1>1 DEF EntryPlaces, Paged
<1> QED BY <1>3, <1>4, <1>5 DEF EntryInv, Intact

LEMMA TestA20Keeps ==
  ASSUME EntryInv, Entry!TestA20
  PROVE  EntryInv'
<1>1. /\ epc = "a20" /\ UNCHANGED <<emachine, epaging>> /\ epc' \in {"a20", "clear"}
      /\ epc' = "clear" => emachine.a20
      /\ emem' = [emem EXCEPT ![0] = Entry!Word(eeax')]
  BY DEF Entry!TestA20
<1>2. EntryTypes /\ Intact
  BY DEF EntryInv
<1>3. EntryTypes'
  BY <1>1, <1>2 DEF EntryTypes, Paged, Unpaged
<1>4. Intact'
  <2> SUFFICES ASSUME NEW j \in 0 .. TableSize - 1
               PROVE  Kept(emachine, j, emem'[RealMode + j])
    BY <1>1, IntactAfter
  <2>1. /\ RealMode \in Nat /\ TableSize \in Nat /\ _end \in Nat /\ RealMode + TableSize <= _end
        /\ _edata \in Nat /\ end \in Nat /\ 0 < _edata /\ _edata <= end /\ end <= RealMode
    BY EntryConstants, Placed
  <2> DEFINE q == RealMode + j
  <2>2. q \in 0 .. _end - 1 /\ q # 0
    BY ONLY <2>1
  <2> HIDE DEF q
  <2>3. emem'[q] = emem[q]
    BY <1>1, <1>2, <2>2 DEF EntryTypes
  <2> QED BY <2>3, <1>2 DEF Intact, q
<1>5. EntryPlaces'
  BY <1>1 DEF EntryPlaces, Paged
<1> QED BY <1>3, <1>4, <1>5 DEF EntryInv

LEMMA ClearDecompressorKeeps ==
  ASSUME EntryInv, Entry!ClearDecompressor
  PROVE  EntryInv'
<1>1. /\ epc = "clear" /\ UNCHANGED <<emachine, epaging>>
      /\ Entry!Store(_edata, Entry!Zeros(end - _edata), "decompress_kernel")
  BY DEF Entry!ClearDecompressor
<1>2. EntryTypes /\ Intact /\ emachine.a20 /\ epaging = FALSE
  BY <1>1 DEF EntryInv, EntryTypes, EntryPlaces, Paged
<1> DEFINE n == end - _edata
<1>3. /\ n \in Nat /\ _edata \in Nat /\ _edata + n <= RealMode /\ _edata + n <= _end
  <2>1. /\ _edata \in Nat /\ end \in Nat /\ _edata <= end /\ end <= RealMode /\ RealMode \in Nat
        /\ _end \in Nat /\ end <= _end
    BY EntryConstants, Placed
  <2> QED BY ONLY <2>1
<1> HIDE DEF n
<1>4. DOMAIN Entry!Zeros(n) = 0 .. n - 1
  BY DEF Entry!Zeros
<1>5. Leads(_edata, _edata, n)
  BY <1>2, Unmapped DEF Leads
<1>6. epc' = "decompress_kernel" /\ Written(Entry!Zeros(n), _edata, n)
  BY <1>1, <1>2, <1>3, <1>4, <1>5, Stored DEF n
<1>7. Intact'
  BY <1>1, <1>2, <1>3, <1>6, IntactKept
<1>8. EntryTypes'
  BY <1>1, <1>2, <1>6 DEF EntryTypes, Paged, Unpaged, Written
<1>9. EntryPlaces'
  BY <1>1, <1>2, <1>6 DEF EntryPlaces, Paged
<1> QED BY <1>7, <1>8, <1>9 DEF EntryInv

LEMMA SetupOutputKeeps ==
  ASSUME EntryInv, Entry!SetupOutput
  PROVE  EntryInv'
<1>1. /\ epc = "decompress_kernel" /\ UNCHANGED <<emachine, epaging>> /\ emem' = Entry!Printed
      /\ epc' = IF emem[RealMode + 0][2] < EnoughMemory THEN "error" ELSE "gunzip"
  BY DEF Entry!SetupOutput, Entry!EXT_MEM_K
<1>2. EntryTypes /\ Intact /\ emachine.a20
  BY <1>1 DEF EntryInv, EntryPlaces
<1>3. emem[RealMode + 0][2] = emachine.ext
  BY <1>2, ParametersAre DEF Intact, Kept, Entry!FirstWord
<1>4. emachine.ext \in Nat /\ EnoughMemory \in Nat
  <2>1. emachine \in Machines
    BY <1>2 DEF EntryTypes
  <2> QED BY <2>1, EntryConstants, Parameters DEF Entry!MachinesOK
<1>5. (epc' = "error" /\ ~MemoryEnough) \/ (epc' = "gunzip" /\ MemoryEnough)
  BY <1>1, <1>3, <1>4 DEF MemoryEnough
<1>6. MemoryEnough' <=> MemoryEnough
  BY <1>1 DEF MemoryEnough
<1>7. EntryTypes' /\ Intact'
  BY <1>1, <1>2, <1>5, PrintedKeeps DEF EntryTypes, Paged, Unpaged
<1>8. EntryPlaces'
  BY <1>1, <1>2, <1>5, <1>6 DEF EntryPlaces, Paged
<1> QED BY <1>7, <1>8 DEF EntryInv

LEMMA ImageAt ==
  ASSUME NEW p
  PROVE  /\ p \in {Entry!swapper_pg_dir, Entry!swapper_pg_dir + BOOT_USER_PGD_PTRS} =>
              Entry!Image(p) = Entry!Entry((KernelAt \div TableSize) + 2)
         /\ /\ p \notin {Entry!swapper_pg_dir, Entry!swapper_pg_dir + BOOT_USER_PGD_PTRS}
            /\ p \in {Entry!swapper_pg_dir + 1, Entry!swapper_pg_dir + BOOT_USER_PGD_PTRS + 1}
            => Entry!Image(p) = Entry!Entry((KernelAt \div TableSize) + 3)
BY DEF Entry!Image

LEMMA DecompressKeeps ==
  ASSUME EntryInv, Entry!Decompress
  PROVE  EntryInv'
<1> DEFINE n == __bss_start - KernelAt
           w == [j \in 0 .. n - 1 |-> Entry!Image(KernelAt + j)]
<1>1. /\ epc = "gunzip" /\ UNCHANGED <<emachine, epaging>>
      /\ Entry!Store(KernelAt, w, "booting")
  BY DEF Entry!Decompress
<1>2. EntryTypes /\ Intact /\ emachine.a20 /\ epaging = FALSE /\ MemoryEnough
  BY <1>1 DEF EntryInv, EntryTypes, EntryPlaces, Paged
<1>3. /\ n \in Nat /\ KernelAt \in Nat /\ RealMode + TableSize <= KernelAt /\ KernelAt + n <= _end /\ KernelAt + n = __bss_start
  <2>1. /\ KernelAt \in Nat /\ __bss_start \in Nat /\ KernelAt <= __bss_start /\ __bss_start < _end /\ _end \in Nat
        /\ RealMode + TableSize <= KernelAt
    BY EntryConstants, Placed
  <2> QED BY ONLY <2>1
<1>4. DOMAIN w = 0 .. n - 1 /\ \A j \in 0 .. n - 1 : w[j] = Entry!Image(KernelAt + j)
  OBVIOUS
<1> HIDE DEF n, w
<1>5. Leads(KernelAt, KernelAt, n)
  BY <1>2, Unmapped DEF Leads
<1>6. epc' = "booting" /\ Written(w, KernelAt, n)
  BY <1>1, <1>2, <1>3, <1>4, <1>5, Stored
<1>7. Intact'
  BY <1>1, <1>2, <1>3, <1>6, IntactKept
<1>8. EntryTypes'
  BY <1>1, <1>2, <1>6 DEF EntryTypes, Paged, Unpaged, Written
<1> DEFINE d == Entry!swapper_pg_dir
           b == BOOT_USER_PGD_PTRS
<1>9. ASSUME NEW s \in {0, 1, b, b + 1} PROVE emem'[d + s] = Entry!Image(d + s)
  <2>1. /\ d \in Nat /\ s \in 0 .. TableSize - 1 /\ d + s \in 0 .. _end - 1 /\ KernelAt + TableSize = d
        /\ TableSize \in Nat /\ __bss_start \in Nat /\ d + TableSize <= __bss_start /\ _end \in Nat
    <3> DEFINE p == Entry!pg0
               z == Entry!empty_zero_page
    <3>1. /\ d \in Nat /\ p \in Nat /\ z \in Nat /\ TableSize \in Nat /\ __bss_start \in Nat /\ _end \in Nat
          /\ d + TableSize = p /\ p + 2 * TableSize = z /\ z + TableSize <= __bss_start /\ KernelAt + TableSize = d
      BY Placed, EntryConstants
    <3>2. s \in 0 .. TableSize - 1 /\ d + s \in 0 .. _end - 1
      BY DirectoryAt
    <3> HIDE DEF p, z, d
    <3>3. d + TableSize <= __bss_start
      BY ONLY <3>1
    <3> QED BY <3>1, <3>2, <3>3
  <2> DEFINE q == d + s
  <2> HIDE DEF d, b
  <2>2. q \in 0 .. _end - 1 /\ q \in KernelAt .. KernelAt + n - 1 /\ q - KernelAt \in 0 .. n - 1 /\ KernelAt + (q - KernelAt) = q
    BY ONLY <1>3, <2>1
  <2> HIDE DEF q
  <2>3. emem'[q] = w[q - KernelAt]
    BY <1>6, <2>2 DEF Written
  <2>4. emem'[q] = Entry!Image(q)
    BY <1>4, <2>2, <2>3
  <2> QED BY <2>4 DEF q
<1>10. Directory'
  <2>1. d \in Nat /\ b \in Nat /\ 2 <= b
    BY Placed, EntryConstants
  <2>2. /\ d + 0 = d /\ d + (b + 1) = d + b + 1 /\ d + 1 # d /\ d + 1 # d + b /\ d + b + 1 # d /\ d + b + 1 # d + b
    <3> HIDE DEF d, b
    <3> QED BY ONLY <2>1
  <2>3. /\ Entry!Image(d) = Entry!Entry((KernelAt \div TableSize) + 2)
        /\ Entry!Image(d + b) = Entry!Entry((KernelAt \div TableSize) + 2)
        /\ Entry!Image(d + 1) = Entry!Entry((KernelAt \div TableSize) + 3)
        /\ Entry!Image(d + b + 1) = Entry!Entry((KernelAt \div TableSize) + 3)
    BY <2>2, ImageAt
  <2>4. /\ emem'[d] = Entry!Image(d) /\ emem'[d + b] = Entry!Image(d + b)
        /\ emem'[d + 1] = Entry!Image(d + 1) /\ emem'[d + b + 1] = Entry!Image(d + b + 1)
    <3> HIDE DEF d, b
    <3> QED BY <1>9, <2>2
  <2> QED BY <2>3, <2>4 DEF Directory
<1>11. MemoryEnough'
  BY <1>1, <1>2 DEF MemoryEnough
<1>12. EntryPlaces'
  BY <1>1, <1>2, <1>6, <1>10, <1>11 DEF EntryPlaces, Paged
<1> QED BY <1>7, <1>8, <1>12 DEF EntryInv

LEMMA BootingKeeps ==
  ASSUME EntryInv, Entry!Booting
  PROVE  EntryInv'
<1>1. epc = "booting" /\ epc' = "startup_32" /\ UNCHANGED <<emachine, epaging>> /\ emem' = Entry!Printed
  BY DEF Entry!Booting, Entry!Goto
<1>2. EntryTypes /\ Intact /\ emachine.a20 /\ MemoryEnough /\ Directory
  BY <1>1 DEF EntryInv, EntryPlaces, Paged
<1>3. /\ Intact' /\ emem' = [p \in 0 .. _end - 1 |-> emem'[p]]
      /\ \A p \in 0 .. _end - 1 : RealMode + TableSize <= p => emem'[p] = emem[p]
  BY <1>1, <1>2, PrintedKeeps
<1>4. EntryTypes'
  BY <1>1, <1>2, <1>3 DEF EntryTypes, Paged, Unpaged
<1>5. Directory'
  <2> DEFINE d == Entry!swapper_pg_dir
             b == BOOT_USER_PGD_PTRS
  <2>1. /\ d \in Nat /\ RealMode \in Nat /\ TableSize \in Nat /\ RealMode + TableSize <= d /\ b \in Nat
        /\ d + 0 = d /\ d + (b + 1) = d + b + 1
    <3>1. d \in Nat /\ RealMode \in Nat /\ TableSize \in Nat /\ RealMode + TableSize <= d /\ b \in Nat
      BY EntryConstants, Placed
    <3> HIDE DEF d, b
    <3>2. d + 0 = d /\ d + (b + 1) = d + b + 1
      BY ONLY <3>1
    <3> QED BY <3>1, <3>2
  <2>2. ASSUME NEW s \in {0, 1, b, b + 1} PROVE emem'[d + s] = emem[d + s]
    <3>1. s \in Nat /\ d + s \in 0 .. _end - 1
      BY <2>1, DirectoryAt
    <3> HIDE DEF d, b
    <3>2. RealMode + TableSize <= d + s
      BY ONLY <2>1, <3>1
    <3> QED BY <1>3, <3>1, <3>2
  <2>3. emem'[d] = emem[d] /\ emem'[d + 1] = emem[d + 1] /\ emem'[d + b] = emem[d + b] /\ emem'[d + b + 1] = emem[d + b + 1]
    <3> HIDE DEF d, b
    <3> QED BY <2>1, <2>2
  <2> QED BY <1>2, <2>3 DEF Directory
<1>6. MemoryEnough'
  BY <1>1, <1>2 DEF MemoryEnough
<1>7. EntryPlaces'
  BY <1>1, <1>2, <1>5, <1>6 DEF EntryPlaces, Paged
<1> QED BY <1>3, <1>4, <1>7 DEF EntryInv

LEMMA StartTablesKeeps ==
  ASSUME EntryInv, Entry!StartTables
  PROVE  EntryInv'
<1>1. epc = "startup_32" /\ epc' = "tables" /\ eedi' = Entry!pg0 /\ eeax' = 0 /\ UNCHANGED <<emachine, epaging, emem>>
  BY DEF Entry!StartTables, Entry!Goto
<1>2. EntryTypes /\ Intact /\ emachine.a20 /\ epaging = FALSE /\ MemoryEnough /\ Directory
  BY <1>1 DEF EntryInv, EntryTypes, EntryPlaces, Unpaged
<1>3. EntryTypes' /\ Intact' /\ MemoryEnough' /\ Directory'
  BY <1>1, <1>2, IntactSame DEF EntryTypes, Paged, Unpaged, MemoryEnough, Directory
<1> DEFINE p == Entry!pg0
           z == Entry!empty_zero_page
<1>4. p \in Nat /\ z \in Nat /\ TableSize \in Nat /\ TableSize > 0 /\ p + 2 * TableSize = z
  BY Placed, EntryConstants
<1>5. p \in p .. z - 1 /\ 0 = p - p /\ \A q \in p .. p - 1 : FALSE
  <2> HIDE DEF p, z
  <2> QED BY ONLY <1>4
<1>6. eedi' \in p .. z - 1 /\ eeax' = eedi' - p /\ FilledTo(eedi)'
  BY <1>1, <1>5 DEF FilledTo
<1>7. EntryPlaces'
  BY <1>1, <1>2, <1>3, <1>6 DEF EntryPlaces, Paged
<1> QED BY <1>3, <1>7 DEF EntryInv

LEMMA FillTablesKeeps ==
  ASSUME EntryInv, Entry!FillTables
  PROVE  EntryInv'
<1> DEFINE p == Entry!pg0
           z == Entry!empty_zero_page
           w == [j \in {0} |-> Entry!Entry(eeax)]
           next == IF eedi + 1 = z THEN "paging" ELSE "tables"
<1>1. /\ epc = "tables" /\ eedi' = eedi + 1 /\ eeax' = eeax + 1 /\ UNCHANGED <<emachine, epaging>>
      /\ Entry!Store(eedi, w, next)
  BY DEF Entry!FillTables, Entry!LastTable
<1>2. /\ EntryTypes /\ Intact /\ emachine.a20 /\ epaging = FALSE /\ MemoryEnough /\ Directory
      /\ eedi \in p .. z - 1 /\ eeax = eedi - p /\ FilledTo(eedi)
  BY <1>1 DEF EntryInv, EntryTypes, EntryPlaces, Unpaged
<1>3. /\ p \in Nat /\ z \in Nat /\ TableSize \in Nat /\ p + 2 * TableSize = z /\ z + TableSize <= _end /\ _end \in Nat
      /\ RealMode \in Nat /\ RealMode + TableSize <= p
  BY Placed, EntryConstants
<1>4. DOMAIN w = 0 .. 1 - 1 /\ w[0] = Entry!Entry(eeax)
  <2>1. {0} = 0 .. 1 - 1
    OBVIOUS
  <2> QED BY <2>1
<1> HIDE DEF p, z, w
<1>5. /\ eedi \in Nat /\ eedi + 1 <= _end /\ eedi <= _end /\ RealMode + TableSize <= eedi /\ p <= eedi /\ eedi \in 0 .. _end - 1
      /\ eedi \in eedi .. eedi + 1 - 1 /\ eedi - eedi = 0 /\ 1 \in Nat
  <2>1. eedi \in p .. z - 1
    BY <1>2
  <2> QED BY ONLY <1>3, <2>1
<1>6. Leads(eedi, eedi, 1)
  BY <1>2, Unmapped DEF Leads
<1>7. epc' = next /\ Written(w, eedi, 1)
  <2> HIDE DEF next
  <2> QED BY <1>1, <1>2, <1>4, <1>5, <1>6, Stored
<1>8. Intact'
  BY <1>1, <1>2, <1>5, <1>7, IntactKept
<1>9. Directory'
  BY <1>2, <1>5, <1>7, DirectoryKept DEF p
<1>10. \A q \in p .. eedi - 1 : emem'[q] = Entry!Entry(q - p)
  BY <1>2, <1>5, <1>7, FilledKept DEF p
<1>11. emem'[eedi] = Entry!Entry(eedi - p)
  <2>1. \A q \in 0 .. _end - 1 : q \in eedi .. eedi + 1 - 1 => emem'[q] = w[q - eedi]
    BY <1>7 DEF Written
  <2>2. emem'[eedi] = w[eedi - eedi]
    BY <1>5, <2>1
  <2> QED BY <2>2, <1>2, <1>4, <1>5
<1>12. \A q \in p .. (eedi + 1) - 1 : emem'[q] = Entry!Entry(q - p)
  <2>1. \A q \in p .. (eedi + 1) - 1 : q = eedi \/ q \in p .. eedi - 1
    BY ONLY <1>3, <1>5
  <2> QED BY <2>1, <1>10, <1>11
<1>13. FilledTo(eedi)'
  <2>1. \A q \in p .. eedi' - 1 : emem'[q] = Entry!Entry(q - p)
    BY <1>1, <1>12
  <2> QED BY <2>1, Zenon DEF FilledTo, p
<1>14. eeax' = eedi' - p /\ eedi' \in Nat
  <2>1. eeax = eedi - p /\ eedi' = eedi + 1 /\ eeax' = eeax + 1
    BY <1>1, <1>2
  <2> QED BY ONLY <1>3, <1>5, <2>1
<1>15. EntryTypes' /\ MemoryEnough'
  BY <1>1, <1>2, <1>7 DEF EntryTypes, Paged, Unpaged, Written, MemoryEnough
<1>16. CASE eedi + 1 = z
  <2>1. epc' = "paging" /\ FilledTo(z)'
    BY <1>1, <1>7, <1>13, <1>16 DEF FilledTo, z
  <2>2. EntryPlaces'
    BY <2>1, <1>1, <1>2, <1>9, <1>15 DEF EntryPlaces, Paged, z
  <2> QED BY <2>2, <1>8, <1>15 DEF EntryInv
<1>17. CASE eedi + 1 # z
  <2>1. epc' = "tables"
    BY <1>7, <1>17
  <2>2. eedi' \in p .. z - 1
    <3>1. eedi \in p .. z - 1 /\ eedi' = eedi + 1
      BY <1>1, <1>2
    <3> QED BY ONLY <1>3, <1>17, <3>1
  <2>3. EntryPlaces'
    BY <2>1, <2>2, <1>1, <1>2, <1>9, <1>13, <1>14, <1>15 DEF EntryPlaces, Paged, p, z
  <2> QED BY <2>3, <1>8, <1>15 DEF EntryInv
<1> QED BY <1>16, <1>17

LEMMA EnablePagingKeeps ==
  ASSUME EntryInv, Entry!EnablePaging
  PROVE  EntryInv'
<1>1. epc = "paging" /\ epc' = "bss" /\ epaging' = TRUE /\ UNCHANGED <<emachine, emem>>
  BY DEF Entry!EnablePaging, Entry!Goto
<1>2. EntryTypes /\ Intact /\ emachine.a20 /\ MemoryEnough /\ Directory /\ FilledTo(Entry!empty_zero_page)
  BY <1>1 DEF EntryInv, EntryTypes, EntryPlaces
<1>3. EntryTypes' /\ Intact' /\ MemoryEnough' /\ Directory' /\ FilledTo(Entry!empty_zero_page)'
  BY <1>1, <1>2, IntactSame DEF EntryTypes, Paged, Unpaged, MemoryEnough, Directory, FilledTo
<1>4. EntryPlaces'
  BY <1>1, <1>2, <1>3 DEF EntryPlaces, Paged
<1> QED BY <1>3, <1>4 DEF EntryInv

(* After a store through the kernel's own addresses.                       *)
LEMMA HighKeeps ==
  ASSUME EntryInv, epc \in Paged, Intact', Directory', FilledTo(Entry!empty_zero_page)',
         emem' = [p \in 0 .. _end - 1 |-> emem'[p]], UNCHANGED <<emachine, epaging>>,
         \/ epc' \in {"idt", "parameters"}
         \/ /\ epc' = "pointer"
            /\ emem'[Entry!empty_zero_page + Entry!NEW_CL_POINTER] = Entry!Parameters(emachine)[Entry!NEW_CL_POINTER]
         \/ epc' = "hlt" /\ (emachine.kind = "386" \/ CommandLineTold)
         \/ epc' = "checkCPUtype" /\ ~CommandLineTold
         \/ epc' = "is486" /\ ~CommandLineTold /\ emachine.kind # "386"
  PROVE  EntryInv'
<1>1. epc' \in Paged /\ epc \notin {"a20", "clear", "decompress_kernel", "error"} /\ epc' \notin {"a20", "error", "tables"}
  BY DEF Paged
<1>2. EntryTypes /\ emachine.a20 /\ MemoryEnough
  BY <1>1 DEF EntryInv, EntryPlaces
<1>3. EntryTypes'
  BY <1>1, <1>2 DEF EntryTypes, Paged, Unpaged
<1>4. MemoryEnough' /\ (CommandLineTold' <=> CommandLineTold) /\ emachine'.a20
  BY <1>2 DEF MemoryEnough, CommandLineTold
<1>5. epc' = "pointer" =>
        emem'[Entry!empty_zero_page + Entry!NEW_CL_POINTER] = Entry!Parameters(emachine)'[Entry!NEW_CL_POINTER]
  BY DEF Entry!Parameters
<1>6. /\ epc' \in {"checkCPUtype", "is486", "check_x87", "start_kernel"} => ~CommandLineTold'
      /\ epc' \in {"is486", "check_x87", "start_kernel"} => emachine'.kind # "386"
      /\ epc' = "hlt" => emachine'.kind = "386" \/ CommandLineTold'
  BY <1>4
<1>7. EntryPlaces'
  BY <1>1, <1>4, <1>5, <1>6 DEF EntryPlaces
<1> QED BY <1>3, <1>7 DEF EntryInv

LEMMA HighSizes ==
  /\ __bss_start \in Nat /\ idt_table \in Nat /\ idt_entries \in Nat /\ Entry!Half \in Nat /\ TableSize \in Nat
  /\ _end - __bss_start \in Nat /\ Entry!empty_zero_page + Entry!Half \in Nat /\ Entry!empty_zero_page \in Nat
  /\ Entry!empty_zero_page <= __bss_start /\ __bss_start + (_end - __bss_start) <= _end
  /\ Entry!empty_zero_page <= idt_table /\ idt_table + idt_entries <= _end
  /\ Entry!empty_zero_page <= Entry!empty_zero_page /\ Entry!empty_zero_page + TableSize <= _end
  /\ Entry!empty_zero_page <= Entry!empty_zero_page + Entry!Half
  /\ (Entry!empty_zero_page + Entry!Half) + Entry!Half <= _end
  /\ Entry!PAGE_OFFSET \in Nat
  /\ (Entry!PAGE_OFFSET + Entry!empty_zero_page) + Entry!Half = Entry!PAGE_OFFSET + (Entry!empty_zero_page + Entry!Half)
  /\ (Entry!PAGE_OFFSET + Entry!empty_zero_page) + 3 = Entry!PAGE_OFFSET + (Entry!empty_zero_page + 3)
  /\ Entry!empty_zero_page + 3 \in 0 .. _end - 1
  /\ Entry!empty_zero_page + 3 \in Entry!empty_zero_page .. Entry!empty_zero_page + TableSize - 1
  /\ (Entry!empty_zero_page + 3) - Entry!empty_zero_page = 3
  /\ \A j \in 0 .. TableSize - 1 : RealMode + j \in 0 .. _end - 1
<1> DEFINE z == Entry!empty_zero_page
           h == Entry!Half
           o == Entry!PAGE_OFFSET
<1>1. /\ z \in Nat /\ h \in Nat /\ __bss_start \in Nat /\ idt_table \in Nat /\ idt_entries \in Nat /\ TableSize \in Nat
      /\ _end \in Nat /\ __bss_start < _end /\ TableSize = h + h /\ h > 3 /\ z + TableSize <= __bss_start
      /\ z + TableSize <= idt_table /\ idt_table + idt_entries <= __bss_start
      /\ RealMode \in Nat /\ RealMode + TableSize <= _end
  BY EntryConstants, Placed
<1>2. o \in Nat
  BY EntryConstants, Product DEF Entry!PAGE_OFFSET, Entry!Reach
<1> HIDE DEF z, h, o
<1>3. /\ __bss_start \in Nat /\ idt_table \in Nat /\ idt_entries \in Nat /\ h \in Nat /\ TableSize \in Nat
      /\ _end - __bss_start \in Nat /\ z + h \in Nat /\ z \in Nat
      /\ z <= __bss_start /\ __bss_start + (_end - __bss_start) <= _end
      /\ z <= idt_table /\ idt_table + idt_entries <= _end
      /\ z <= z /\ z + TableSize <= _end
      /\ z <= z + h
      /\ (z + h) + h <= _end
      /\ o \in Nat
      /\ (o + z) + h = o + (z + h)
      /\ (o + z) + 3 = o + (z + 3)
      /\ z + 3 \in 0 .. _end - 1
      /\ z + 3 \in z .. z + TableSize - 1
      /\ (z + 3) - z = 3
      /\ \A j \in 0 .. TableSize - 1 : RealMode + j \in 0 .. _end - 1
  BY ONLY <1>1, <1>2
<1> QED BY <1>3, Zenon DEF z, h, o

LEMMA ClearBSSKeeps ==
  ASSUME EntryInv, Entry!ClearBSS
  PROVE  EntryInv'
<1> DEFINE n == _end - __bss_start
           w == Entry!Zeros(n)
<1>1. epc = "bss" /\ UNCHANGED <<emachine, epaging>> /\ Entry!Store(Entry!PAGE_OFFSET + __bss_start, w, "idt")
  BY DEF Entry!ClearBSS
<1>2. /\ n \in Nat /\ __bss_start \in Nat /\ Entry!empty_zero_page <= __bss_start /\ __bss_start + n <= _end
  BY HighSizes
<1>3. DOMAIN w = 0 .. n - 1
  BY DEF Entry!Zeros
<1>4. epc \in Paged
  BY <1>1 DEF Paged
<1> HIDE DEF n, w
<1>5. epc' = "idt" /\ Written(w, __bss_start, n) /\ Intact' /\ Directory' /\ FilledTo(Entry!empty_zero_page)'
  BY <1>1, <1>2, <1>3, <1>4, StoredHigh
<1>6. emem' = [p \in 0 .. _end - 1 |-> emem'[p]] /\ epc' \in {"idt", "parameters"}
  BY <1>5 DEF Written
<1> QED BY <1>1, <1>4, <1>5, <1>6, HighKeeps

LEMMA setup_idtKeeps ==
  ASSUME EntryInv, Entry!setup_idt
  PROVE  EntryInv'
<1> DEFINE w == [j \in 0 .. idt_entries - 1 |-> <<"ignore_int", j>>]
<1>1. epc = "idt" /\ UNCHANGED <<emachine, epaging>> /\ Entry!Store(Entry!PAGE_OFFSET + idt_table, w, "parameters")
  BY DEF Entry!setup_idt
<1>2. /\ idt_entries \in Nat /\ idt_table \in Nat /\ Entry!empty_zero_page <= idt_table /\ idt_table + idt_entries <= _end
  BY HighSizes
<1>3. DOMAIN w = 0 .. idt_entries - 1
  OBVIOUS
<1>4. epc \in Paged
  BY <1>1 DEF Paged
<1> HIDE DEF w
<1>5. /\ epc' = "parameters" /\ Written(w, idt_table, idt_entries)
      /\ Intact' /\ Directory' /\ FilledTo(Entry!empty_zero_page)'
  BY <1>1, <1>2, <1>3, <1>4, StoredHigh
<1>6. emem' = [p \in 0 .. _end - 1 |-> emem'[p]] /\ epc' \in {"idt", "parameters"}
  BY <1>5 DEF Written
<1> QED BY <1>1, <1>4, <1>5, <1>6, HighKeeps

LEMMA CopyParametersKeeps ==
  ASSUME EntryInv, Entry!CopyParameters
  PROVE  EntryInv'
<1> DEFINE w == Entry!CopiedParameters
           z == Entry!empty_zero_page
<1>1. epc = "parameters" /\ UNCHANGED <<emachine, epaging>> /\ Entry!Store(Entry!PAGE_OFFSET + z, w, "pointer")
  BY DEF Entry!CopyParameters
<1>2. TableSize \in Nat /\ z \in Nat /\ z <= z /\ z + TableSize <= _end
  BY HighSizes
<1>3. DOMAIN w = 0 .. TableSize - 1
  BY DEF Entry!CopiedParameters
<1>4. epc \in Paged
  BY <1>1 DEF Paged
<1>5. w[3] = Entry!Parameters(emachine)[3]
  <2>1. Intact /\ epaging = TRUE /\ Directory /\ FilledTo(Entry!empty_zero_page)
    BY <1>1, <1>4 DEF EntryInv, EntryTypes, EntryPlaces
  <2>2. 3 \in 0 .. TableSize - 1 /\ 3 \in 0 .. Entry!Half - 1
    BY ParametersAre
  <2>3. 3 < Entry!Half
    <3>1. Entry!Half \in Nat
      BY EntryConstants
    <3> QED BY ONLY <2>2, <3>1
  <2>4. RealMode + 3 \in 0 .. _end - 1
    BY <2>2, HighSizes
  <2>5. Entry!Phys(RealMode + 3) = RealMode + 3
    BY <2>1, <2>4, Mapped
  <2>6. Entry!Load(RealMode, Entry!Half)[3] = emem[RealMode + 3]
    BY <2>2, <2>5 DEF Entry!Load
  <2>7. w[3] = Entry!Load(RealMode, Entry!Half)[3]
    BY <2>2, <2>3 DEF Entry!CopiedParameters
  <2> QED BY <2>1, <2>6, <2>7, ParametersKept
<1> HIDE DEF w, z
<1>6. epc' = "pointer" /\ Written(w, z, TableSize) /\ Intact' /\ Directory' /\ FilledTo(Entry!empty_zero_page)'
  BY <1>1, <1>2, <1>3, <1>4, StoredHigh DEF z
<1>7. emem'[z + 3] = w[3]
  <2> DEFINE q == z + 3
  <2>1. q \in 0 .. _end - 1 /\ q \in z .. z + TableSize - 1 /\ q - z = 3
    BY HighSizes DEF z
  <2> HIDE DEF q
  <2>2. emem'[q] = w[q - z]
    BY <2>1, <1>6 DEF Written
  <2> QED BY <2>1, <2>2 DEF q
<1>8. /\ emem' = [p \in 0 .. _end - 1 |-> emem'[p]]
      /\ epc' = "pointer" /\ emem'[z + Entry!NEW_CL_POINTER] = Entry!Parameters(emachine)[Entry!NEW_CL_POINTER]
  BY <1>5, <1>6, <1>7 DEF Written, Entry!NEW_CL_POINTER
<1> QED BY <1>1, <1>4, <1>6, <1>8, HighKeeps DEF z

LEMMA FindCommandLineKeeps ==
  ASSUME EntryInv, Entry!FindCommandLine
  PROVE  EntryInv'
<1> DEFINE z == Entry!empty_zero_page
           o == Entry!PAGE_OFFSET
           h == Entry!Half
           new == emem[Entry!Phys(o + z + 3)]
           old == emem[Entry!Phys(RealMode + 1)] = Entry!Word(41791)
           line == IF new # Entry!Word(0) THEN new[2] ELSE RealMode + emem[Entry!Phys(RealMode + 2)][2]
           w == Entry!Load(line, h)
<1>1. /\ epc = "pointer" /\ UNCHANGED <<emachine, epaging>>
      /\ IF new # Entry!Word(0) \/ old THEN Entry!Store(o + z + h, w, "hlt")
         ELSE epc' = "checkCPUtype" /\ UNCHANGED emem
  BY DEF Entry!FindCommandLine, Entry!NEW_CL_POINTER, Entry!OLD_CL_MAGIC_ADDR, Entry!OLD_CL_OFFSET, Entry!OLD_CL_MAGIC
<1>2. /\ Intact /\ epaging = TRUE /\ Directory /\ FilledTo(z) /\ EntryTypes /\ epc \in Paged
      /\ emem[z + 3] = Entry!Parameters(emachine)[3]
  BY <1>1 DEF EntryInv, EntryTypes, EntryPlaces, Paged, Entry!NEW_CL_POINTER
<1>3. emachine.old \in BOOLEAN /\ emachine.new \in BOOLEAN
  BY <1>2, Parameters DEF EntryTypes, Entry!MachinesOK
<1>4. new = Entry!Word(IF emachine.new THEN RealMode + h ELSE 0)
  <2>1. Entry!Phys(o + (z + 3)) = z + 3 /\ o + (z + 3) = o + z + 3
    BY <1>2, HighSizes, Mapped
  <2>2. Entry!Parameters(emachine)[3] = Entry!Word(IF emachine.new THEN RealMode + h ELSE 0)
    BY ParametersAre
  <2> QED BY <2>1, <2>2, <1>2
<1>5. emem[Entry!Phys(RealMode + 1)] = Entry!Word(IF emachine.old THEN 41791 ELSE 1)
  <2>1. 1 \in 0 .. TableSize - 1 /\ Entry!Parameters(emachine)[1] = Entry!Word(IF emachine.old THEN 41791 ELSE 1)
    BY ParametersAre
  <2>2. RealMode + 1 \in 0 .. _end - 1
    BY <2>1, HighSizes
  <2>3. Entry!Phys(RealMode + 1) = RealMode + 1
    BY <1>2, <2>2, Mapped
  <2> QED BY <1>2, <2>1, <2>3, ParametersKept
<1>6. RealMode + h # 0
  <2>1. RealMode \in Nat /\ h \in Nat /\ h > 3
    BY EntryConstants
  <2> HIDE DEF h
  <2> QED BY ONLY <2>1
<1>7. (new # Entry!Word(0) <=> emachine.new) /\ (old <=> emachine.old)
  <2> HIDE DEF h
  <2>1. new # Entry!Word(0) <=> emachine.new
    BY <1>3, <1>4, <1>6, WordsDiffer
  <2>2. old <=> emachine.old
    BY <1>3, <1>5, WordsDiffer
  <2> QED BY <2>1, <2>2
<1> HIDE DEF new, old
<1>8. CASE new # Entry!Word(0) \/ old
  <2>1. Entry!Store(o + z + h, w, "hlt")
    BY <1>1, <1>8
  <2>2. (o + z) + h = o + (z + h) /\ z + h \in Nat /\ h \in Nat /\ z <= z + h /\ (z + h) + h <= _end
    BY HighSizes
  <2>3. DOMAIN w = 0 .. h - 1
    BY DEF Entry!Load
  <2> HIDE DEF w, h
  <2> DEFINE to == z + h
  <2>4. to \in Nat /\ z <= to /\ to + h <= _end /\ Entry!Store(o + to, w, "hlt")
    BY <2>1, <2>2
  <2> HIDE DEF to, z, o
  <2>5. epc' = "hlt" /\ Written(w, to, h) /\ Intact' /\ Directory' /\ FilledTo(Entry!empty_zero_page)'
    BY <1>1, <1>2, <2>2, <2>3, <2>4, StoredHigh DEF z, o
  <2>6. emem' = [p \in 0 .. _end - 1 |-> emem'[p]] /\ epc' = "hlt" /\ (emachine.kind = "386" \/ CommandLineTold)
    BY <2>5, <1>7, <1>8 DEF Written, CommandLineTold
  <2> QED BY <1>1, <1>2, <2>5, <2>6, HighKeeps
<1>9. CASE ~(new # Entry!Word(0) \/ old)
  <2>1. epc' = "checkCPUtype" /\ emem' = emem /\ ~CommandLineTold
    BY <1>1, <1>7, <1>9 DEF CommandLineTold
  <2>2. Intact' /\ Directory' /\ FilledTo(Entry!empty_zero_page)' /\ emem' = [p \in 0 .. _end - 1 |-> emem'[p]]
    BY <2>1, <1>1, <1>2, IntactSame DEF Directory, FilledTo, EntryTypes
  <2> QED BY <1>1, <1>2, <2>1, <2>2, HighKeeps
<1> QED BY <1>8, <1>9

LEMMA CheckCPUTypeKeeps ==
  ASSUME EntryInv, Entry!CheckCPUType
  PROVE  EntryInv'
<1>1. /\ epc = "checkCPUtype" /\ UNCHANGED <<emachine, epaging, emem>>
      /\ (epc' = "hlt" /\ emachine.kind = "386") \/ (epc' = "is486" /\ emachine.kind # "386")
  BY DEF Entry!CheckCPUType
<1>2. /\ Intact /\ Directory /\ FilledTo(Entry!empty_zero_page) /\ EntryTypes /\ epc \in Paged /\ ~CommandLineTold
  BY <1>1 DEF EntryInv, EntryTypes, EntryPlaces, Paged
<1>3. Intact' /\ Directory' /\ FilledTo(Entry!empty_zero_page)' /\ emem' = [p \in 0 .. _end - 1 |-> emem'[p]]
  BY <1>1, <1>2, IntactSame DEF Directory, FilledTo, EntryTypes
<1> QED BY <1>1, <1>2, <1>3, HighKeeps

LEMMA EntryRestKeeps ==
  ASSUME EntryInv, Entry!is486 \/ Entry!check_x87 \/ UNCHANGED entryvars
  PROVE  EntryInv'
<1>1. /\ UNCHANGED <<emachine, epaging, emem>>
      /\ \/ epc = "is486" /\ epc' = "check_x87"
         \/ epc = "check_x87" /\ epc' = "start_kernel"
         \/ epc' = epc /\ eedi' = eedi /\ eeax' = eeax
  BY DEF Entry!is486, Entry!check_x87, Entry!Goto, entryvars
<1>2. EntryTypes /\ Intact /\ EntryPlaces
  BY DEF EntryInv
<1>3. EntryTypes' /\ Intact'
  BY <1>1, <1>2, IntactSame DEF EntryTypes, Paged, Unpaged
<1>4. /\ (Directory' <=> Directory) /\ (MemoryEnough' <=> MemoryEnough) /\ (CommandLineTold' <=> CommandLineTold)
      /\ (FilledTo(Entry!empty_zero_page)' <=> FilledTo(Entry!empty_zero_page))
  BY <1>1 DEF Directory, FilledTo, MemoryEnough, CommandLineTold
<1>5. CASE (epc = "is486" /\ epc' = "check_x87") \/ (epc = "check_x87" /\ epc' = "start_kernel")
  BY <1>1, <1>2, <1>3, <1>4, <1>5 DEF EntryInv, EntryPlaces, Paged
<1>6. CASE epc' = epc /\ eedi' = eedi /\ eeax' = eeax
  <2>1. FilledTo(eedi)' <=> FilledTo(eedi)
    BY <1>1, <1>6 DEF FilledTo
  <2> QED BY <1>1, <1>2, <1>3, <1>4, <1>6, <2>1 DEF EntryInv, EntryPlaces
<1> QED BY <1>1, <1>5, <1>6

LEMMA EntryStepKeeps ==
  ASSUME EntryInv, Entry!Next \/ UNCHANGED entryvars
  PROVE  EntryInv'
BY TestA20Keeps, ClearDecompressorKeeps, SetupOutputKeeps, DecompressKeeps, BootingKeeps, StartTablesKeeps, FillTablesKeeps,
   EnablePagingKeeps, ClearBSSKeeps, setup_idtKeeps, CopyParametersKeeps, FindCommandLineKeeps, CheckCPUTypeKeeps,
   EntryRestKeeps DEF Entry!Next

LEMMA EntryKept ==
  ASSUME EntryInv
  PROVE  Entry!Inside /\ Entry!Judged
<1>1. epc # "fault"
  BY DEF EntryInv, EntryTypes, Paged, Unpaged
<1>2. \A j \in 0 .. TableSize - 1 :
        \/ emem[RealMode + j] = Entry!Parameters(emachine)[j]
        \/ j = 0 /\ emem[RealMode + j] = Entry!FirstWord(emachine.ext, "puts")
  BY DEF EntryInv, Intact, Kept
<1>3. Entry!Judged
  <2> DEFINE runs == /\ emachine.a20 /\ emachine.kind # "386" /\ ~emachine.old /\ ~emachine.new
                     /\ emachine.ext >= EnoughMemory
  <2>1. ASSUME epc = "start_kernel" PROVE runs
    BY <2>1 DEF EntryInv, EntryPlaces, MemoryEnough, CommandLineTold
  <2>2. ASSUME epc \in {"error", "hlt"} PROVE ~runs
    BY <2>2 DEF EntryInv, EntryPlaces, MemoryEnough, CommandLineTold
  <2> HIDE DEF runs
  <2>3. (epc = "start_kernel" => runs) /\ (epc \in {"error", "hlt"} => ~runs)
    BY <2>1, <2>2
  <2> QED BY <2>3, Zenon DEF Entry!Judged, runs
<1> QED BY <1>1, <1>2, <1>3 DEF Entry!Inside, Entry!EXT_MEM_K
-----------------------------------------------------------------------------
(* What is ready for start_kernel(), step by step: the words of the kernel *)
(* as they were decompressed but for the tables, the page behind them and  *)
(* the interrupt table, which are filled, and the words behind the kernel. *)
Patched ==
  (Entry!pg0 .. Entry!empty_zero_page + TableSize - 1) \union (idt_table .. idt_table + idt_entries - 1)
KernelWhole == \A p \in KernelAt .. __bss_start - 1 : p \in Patched \/ emem[p] = Entry!Image(p)
BSSClear == \A p \in __bss_start .. _end - 1 : emem[p] = Entry!Word(0)
Ignored == \A j \in 0 .. idt_entries - 1 : emem[idt_table + j] = <<"ignore_int", j>>
Copied ==
  \A j \in 0 .. TableSize - 1 :
    emem[Entry!empty_zero_page + j] = IF j < Entry!Half THEN emem[RealMode + j] ELSE Entry!Word(0)

Detecting == {"checkCPUtype", "is486", "check_x87", "start_kernel"}
Loaded ==
  /\ epc \in {"booting", "startup_32", "tables", "paging", "bss", "idt", "parameters", "pointer"} \union Detecting => KernelWhole
  /\ epc \in {"idt", "parameters", "pointer"} \union Detecting => BSSClear
  /\ epc \in {"parameters", "pointer"} \union Detecting => Ignored
  /\ epc \in {"pointer"} \union Detecting => Copied

ControlSet ==
  /\ epc \in {"a20", "clear", "decompress_kernel", "gunzip", "booting", "startup_32", "tables", "paging"} => ecr0 = {"PE", "ET"}
  /\ epc \in {"bss", "idt", "parameters", "pointer", "checkCPUtype", "is486"} => ecr0 = {"PG", "PE", "ET"}
  /\ epc = "check_x87" => ecr0 = {"PG", "PE", "ET", "AM", "WP", "NE", "MP"}
  /\ epc = "start_kernel" => {"PG", "PE", "WP"} \subseteq ecr0 /\ ("EM" \in ecr0 <=> ~emachine.fpu)

(* The signature is what cpuid says of family, model and stepping.         *)
Told ==
  /\ ecpu \in [x86 : Int, cpuid_level : Int, x86_model : Int, x86_mask : Int,
               x86_vendor_id : BOOLEAN, x86_capability : BOOLEAN, hard_math : BOOLEAN]
  /\ IF ecpu.x86_capability
     THEN ecpu.x86 * 16 + ecpu.x86_model * 4 + ecpu.x86_mask = emachine.signature % 64
     ELSE ecpu.x86 = 4 /\ ecpu.cpuid_level \in {-1, 0}

ProcessorTold ==
  /\ epc \notin {"is486", "check_x87", "start_kernel", "hlt"} => ecpu = Entry!Unknown
  /\ epc \in {"is486", "check_x87", "start_kernel"} => Told
  /\ epc = "start_kernel" => ecpu.hard_math = emachine.fpu

PreparedInv == EntryInv /\ Loaded /\ ControlSet /\ ProcessorTold

LEMMA PreparedInit ==
  ASSUME Entry!Init
  PROVE  PreparedInv
<1>1. epc = "a20" /\ ecpu = Entry!Unknown /\ ecr0 = {"PE", "ET"}
  BY DEF Entry!Init
<1>2. EntryInv
  BY EntryInitInv
<1> QED BY <1>1, <1>2 DEF PreparedInv, Loaded, ControlSet, ProcessorTold, Detecting

(* Where the parts lie that must not be written to again.                  *)
LEMMA PartsApart ==
  /\ KernelAt \in Nat /\ __bss_start \in Nat /\ _end \in Nat /\ idt_table \in Nat /\ idt_entries \in Nat /\ TableSize \in Nat
  /\ Entry!pg0 \in Nat /\ Entry!empty_zero_page \in Nat
  /\ KernelAt <= Entry!pg0 /\ Entry!pg0 <= Entry!empty_zero_page
  /\ Entry!empty_zero_page + TableSize <= idt_table /\ idt_table + idt_entries <= __bss_start /\ __bss_start <= _end
<1> DEFINE d == Entry!swapper_pg_dir
           p == Entry!pg0
           z == Entry!empty_zero_page
<1>1. /\ KernelAt \in Nat /\ __bss_start \in Nat /\ _end \in Nat /\ idt_table \in Nat /\ idt_entries \in Nat /\ TableSize \in Nat
      /\ d \in Nat /\ p \in Nat /\ z \in Nat /\ d + TableSize = p /\ p + 2 * TableSize = z /\ KernelAt + TableSize = d
      /\ z + TableSize <= idt_table /\ idt_table + idt_entries <= __bss_start /\ __bss_start < _end
  BY EntryConstants, Placed
<1> HIDE DEF d, p, z
<1>2. KernelAt <= p /\ p <= z /\ __bss_start <= _end
  BY ONLY <1>1
<1> QED BY <1>1, <1>2 DEF p, z

LEMMA KernelWholeKept ==
  ASSUME KernelWhole, NEW to \in Nat, NEW n \in Nat, NEW words, Written(words, to, n),
         __bss_start <= to \/ \A p \in to .. to + n - 1 : p \in Patched
  PROVE  KernelWhole'
<1> SUFFICES ASSUME NEW p \in KernelAt .. __bss_start - 1, p \notin Patched
             PROVE  emem'[p] = Entry!Image(p)
  BY DEF KernelWhole, Patched
<1>1. p \in 0 .. _end - 1
  BY PartsApart
<1>2. p \notin to .. to + n - 1
  BY PartsApart
<1>3. emem'[p] = emem[p]
  BY <1>1, <1>2 DEF Written
<1> QED BY <1>3 DEF KernelWhole

LEMMA BSSClearKept ==
  ASSUME BSSClear, NEW to \in Nat, NEW n \in Nat, NEW words, Written(words, to, n), to + n <= __bss_start
  PROVE  BSSClear'
<1> SUFFICES ASSUME NEW p \in __bss_start .. _end - 1 PROVE emem'[p] = Entry!Word(0)
  BY DEF BSSClear
<1>1. p \in 0 .. _end - 1 /\ p \notin to .. to + n - 1
  BY PartsApart
<1>2. emem'[p] = emem[p]
  BY <1>1 DEF Written
<1> QED BY <1>2 DEF BSSClear

LEMMA IgnoredKept ==
  ASSUME Ignored, NEW to \in Nat, NEW n \in Nat, NEW words, Written(words, to, n), to + n <= idt_table
  PROVE  Ignored'
<1> SUFFICES ASSUME NEW j \in 0 .. idt_entries - 1 PROVE emem'[idt_table + j] = <<"ignore_int", j>>
  BY DEF Ignored
<1> DEFINE p == idt_table + j
<1>1. p \in 0 .. _end - 1 /\ p \notin to .. to + n - 1
  BY PartsApart
<1> HIDE DEF p
<1>2. emem'[p] = emem[p]
  BY <1>1 DEF Written
<1> QED BY <1>2 DEF Ignored, p

(* What is written is there.                                               *)
LEMMA WrittenThere ==
  ASSUME NEW to \in Nat, NEW n \in Nat, NEW words, Written(words, to, n), to + n <= _end, NEW j \in 0 .. n - 1
  PROVE  emem'[to + j] = words[j]
<1> DEFINE p == to + j
<1>1. p \in 0 .. _end - 1 /\ p \in to .. to + n - 1 /\ p - to = j
  BY PartsApart
<1> HIDE DEF p
<1>2. emem'[p] = words[p - to]
  BY <1>1 DEF Written
<1> QED BY <1>1, <1>2 DEF p

LEMMA LoadedAtDecompress ==
  ASSUME EntryInv, Entry!Decompress
  PROVE  Loaded'
<1> DEFINE n == __bss_start - KernelAt
           w == [j \in 0 .. n - 1 |-> Entry!Image(KernelAt + j)]
<1>1. epc = "gunzip" /\ Entry!Store(KernelAt, w, "booting")
  BY DEF Entry!Decompress
<1>2. EntryTypes /\ epaging = FALSE
  BY <1>1 DEF EntryInv, EntryTypes, Unpaged
<1>3. n \in Nat /\ KernelAt \in Nat /\ KernelAt + n <= _end /\ KernelAt + n = __bss_start
  <2>1. /\ KernelAt \in Nat /\ __bss_start \in Nat /\ _end \in Nat /\ KernelAt <= __bss_start /\ __bss_start < _end
    BY EntryConstants, Placed
  <2> QED BY ONLY <2>1
<1>4. DOMAIN w = 0 .. n - 1 /\ \A j \in 0 .. n - 1 : w[j] = Entry!Image(KernelAt + j)
  OBVIOUS
<1> HIDE DEF n, w
<1>5. Leads(KernelAt, KernelAt, n)
  BY <1>2, Unmapped DEF Leads
<1>6. epc' = "booting" /\ Written(w, KernelAt, n)
  BY <1>1, <1>2, <1>3, <1>4, <1>5, Stored
<1>7. ASSUME NEW p \in KernelAt .. __bss_start - 1 PROVE emem'[p] = Entry!Image(p)
  <2>1. p - KernelAt \in 0 .. n - 1 /\ KernelAt + (p - KernelAt) = p
    BY <1>3
  <2>2. emem'[KernelAt + (p - KernelAt)] = w[p - KernelAt]
    BY <1>3, <1>6, <2>1, WrittenThere
  <2> QED BY <1>4, <2>1, <2>2
<1>8. KernelWhole'
  BY <1>7 DEF KernelWhole, Patched
<1> QED BY <1>6, <1>8 DEF Loaded, Detecting

(* The kernel is behind setup's page.                                      *)
LEMMA LoadedAtBooting ==
  ASSUME EntryInv, Loaded, Entry!Booting
  PROVE  Loaded'
<1>1. epc = "booting" /\ epc' = "startup_32" /\ UNCHANGED emachine /\ emem' = Entry!Printed
  BY DEF Entry!Booting, Entry!Goto
<1>2. \A p \in 0 .. _end - 1 : RealMode + TableSize <= p => emem'[p] = emem[p]
  BY <1>1, PrintedKeeps DEF EntryInv
<1>3. KernelWhole
  BY <1>1 DEF Loaded
<1>4. KernelWhole'
  <2> SUFFICES ASSUME NEW p \in KernelAt .. __bss_start - 1, p \notin Patched
               PROVE  emem'[p] = Entry!Image(p)
    BY DEF KernelWhole, Patched
  <2>1. /\ KernelAt \in Nat /\ __bss_start \in Nat /\ _end \in Nat /\ __bss_start <= _end /\ RealMode \in Nat
        /\ TableSize \in Nat /\ RealMode + TableSize <= KernelAt
    BY PartsApart, EntryConstants
  <2>2. p \in 0 .. _end - 1 /\ RealMode + TableSize <= p
    BY ONLY <2>1, p \in KernelAt .. __bss_start - 1
  <2> QED BY <1>2, <1>3, <2>2 DEF KernelWhole
<1> QED BY <1>1, <1>4 DEF Loaded, Detecting

LEMMA LoadedAtTables ==
  ASSUME EntryInv, Loaded, Entry!FillTables
  PROVE  Loaded'
<1> DEFINE p == Entry!pg0
           z == Entry!empty_zero_page
           w == [j \in {0} |-> Entry!Entry(eeax)]
           next == IF eedi + 1 = z THEN "paging" ELSE "tables"
<1>1. epc = "tables" /\ Entry!Store(eedi, w, next)
  BY DEF Entry!FillTables, Entry!LastTable
<1>2. EntryTypes /\ epaging = FALSE /\ eedi \in p .. z - 1 /\ KernelWhole
  BY <1>1 DEF EntryInv, EntryTypes, EntryPlaces, Unpaged, Loaded
<1>3. DOMAIN w = 0 .. 1 - 1
  OBVIOUS
<1> HIDE DEF w, next
<1>4. p \in Nat /\ z \in Nat /\ TableSize \in Nat /\ _end \in Nat /\ z + TableSize <= _end
  BY Placed, EntryConstants
<1>5. eedi \in Nat /\ 1 \in Nat /\ eedi + 1 <= _end /\ \A q \in eedi .. eedi + 1 - 1 : q \in p .. z + TableSize - 1
  <2> HIDE DEF p, z
  <2>1. eedi \in p .. z - 1
    BY <1>2
  <2> QED BY ONLY <1>4, <2>1
<1>6. Leads(eedi, eedi, 1)
  BY <1>2, Unmapped DEF Leads
<1>7. epc' = next /\ Written(w, eedi, 1)
  BY <1>1, <1>2, <1>3, <1>5, <1>6, Stored
<1>8. KernelWhole'
  BY <1>2, <1>5, <1>7, KernelWholeKept DEF Patched
<1>9. next \in {"paging", "tables"}
  BY DEF next
<1> QED BY <1>7, <1>8, <1>9 DEF Loaded, Detecting

LEMMA LoadedAtBSS ==
  ASSUME EntryInv, Loaded, Entry!ClearBSS
  PROVE  Loaded'
<1> DEFINE n == _end - __bss_start
           w == Entry!Zeros(n)
<1>1. epc = "bss" /\ UNCHANGED <<emachine, epaging>> /\ Entry!Store(Entry!PAGE_OFFSET + __bss_start, w, "idt")
  BY DEF Entry!ClearBSS
<1>2. n \in Nat /\ __bss_start \in Nat /\ _end \in Nat /\ Entry!empty_zero_page <= __bss_start /\ __bss_start + n <= _end
  BY HighSizes, PartsApart
<1>3. DOMAIN w = 0 .. n - 1 /\ \A j \in 0 .. n - 1 : w[j] = Entry!Word(0)
  BY DEF Entry!Zeros
<1>4. epc \in Paged /\ KernelWhole
  BY <1>1 DEF Paged, Loaded
<1>5. \A p \in __bss_start .. _end - 1 : p - __bss_start \in 0 .. n - 1 /\ __bss_start + (p - __bss_start) = p
  BY <1>2
<1> HIDE DEF n, w
<1>6. epc' = "idt" /\ Written(w, __bss_start, n)
  BY <1>1, <1>2, <1>3, <1>4, StoredHigh
<1>7. BSSClear'
  <2> SUFFICES ASSUME NEW p \in __bss_start .. _end - 1 PROVE emem'[p] = Entry!Word(0)
    BY DEF BSSClear
  <2>1. emem'[__bss_start + (p - __bss_start)] = w[p - __bss_start]
    BY <1>2, <1>5, <1>6, WrittenThere
  <2> QED BY <1>3, <1>5, <2>1
<1>8. __bss_start <= __bss_start
  BY <1>2
<1>9. KernelWhole'
  BY <1>2, <1>4, <1>6, <1>8, KernelWholeKept
<1> QED BY <1>6, <1>7, <1>9 DEF Loaded, Detecting

LEMMA LoadedAtIdt ==
  ASSUME EntryInv, Loaded, Entry!setup_idt
  PROVE  Loaded'
<1> DEFINE w == [j \in 0 .. idt_entries - 1 |-> <<"ignore_int", j>>]
<1>1. epc = "idt" /\ UNCHANGED <<emachine, epaging>> /\ Entry!Store(Entry!PAGE_OFFSET + idt_table, w, "parameters")
  BY DEF Entry!setup_idt
<1>2. /\ idt_entries \in Nat /\ idt_table \in Nat /\ Entry!empty_zero_page <= idt_table /\ idt_table + idt_entries <= _end
      /\ idt_table + idt_entries <= __bss_start
  BY HighSizes, PartsApart
<1>3. DOMAIN w = 0 .. idt_entries - 1 /\ \A j \in 0 .. idt_entries - 1 : w[j] = <<"ignore_int", j>>
  OBVIOUS
<1>4. epc \in Paged /\ KernelWhole /\ BSSClear
  BY <1>1 DEF Paged, Loaded
<1> HIDE DEF w
<1>5. epc' = "parameters" /\ Written(w, idt_table, idt_entries)
  BY <1>1, <1>2, <1>3, <1>4, StoredHigh
<1>6. Ignored'
  <2> SUFFICES ASSUME NEW j \in 0 .. idt_entries - 1 PROVE emem'[idt_table + j] = <<"ignore_int", j>>
    BY DEF Ignored
  <2>1. emem'[idt_table + j] = w[j]
    BY <1>2, <1>5, WrittenThere
  <2> QED BY <1>3, <2>1
<1>7. KernelWhole' /\ BSSClear'
  BY <1>2, <1>4, <1>5, KernelWholeKept, BSSClearKept DEF Patched
<1> QED BY <1>5, <1>6, <1>7 DEF Loaded, Detecting

LEMMA LoadedAtParameters ==
  ASSUME EntryInv, Loaded, Entry!CopyParameters
  PROVE  Loaded'
<1> DEFINE w == Entry!CopiedParameters
           z == Entry!empty_zero_page
           wanted(j) == IF j < Entry!Half THEN emem[RealMode + j] ELSE Entry!Word(0)
<1>1. epc = "parameters" /\ UNCHANGED <<emachine, epaging>> /\ Entry!Store(Entry!PAGE_OFFSET + z, w, "pointer")
  BY DEF Entry!CopyParameters
<1>2. /\ TableSize \in Nat /\ z \in Nat /\ z <= z /\ z + TableSize <= _end
      /\ z + TableSize <= idt_table /\ z + TableSize <= __bss_start
      /\ \A q \in z .. z + TableSize - 1 : q \in Entry!pg0 .. z + TableSize - 1
  <2>1. z + TableSize <= __bss_start
    BY Placed
  <2>2. z \in Nat /\ Entry!pg0 \in Nat /\ Entry!pg0 <= z /\ TableSize \in Nat
    BY PartsApart
  <2> HIDE DEF z
  <2>3. \A q \in z .. z + TableSize - 1 : q \in Entry!pg0 .. z + TableSize - 1
    BY <2>2
  <2> QED BY <2>1, <2>2, <2>3, HighSizes, PartsApart DEF z
<1>3. DOMAIN w = 0 .. TableSize - 1
  BY DEF Entry!CopiedParameters
<1>4. epc \in Paged /\ KernelWhole /\ BSSClear /\ Ignored
  BY <1>1 DEF Paged, Loaded
<1>5. ASSUME NEW j \in 0 .. TableSize - 1 PROVE w[j] = wanted(j)
  <2>1. Intact /\ epaging = TRUE /\ Directory /\ FilledTo(Entry!empty_zero_page)
    BY <1>1, <1>4 DEF EntryInv, EntryTypes, EntryPlaces
  <2>2. RealMode + j \in 0 .. _end - 1
    BY HighSizes
  <2>3. Entry!Phys(RealMode + j) = RealMode + j
    BY <2>1, <2>2, Mapped
  <2>4. ASSUME j < Entry!Half PROVE Entry!Load(RealMode, Entry!Half)[j] = emem[RealMode + j]
    <3>1. j \in 0 .. Entry!Half - 1
      <4>1. Entry!Half \in Nat /\ TableSize \in Nat
        BY EntryConstants
      <4> QED BY ONLY <2>4, <4>1, j \in 0 .. TableSize - 1
    <3> QED BY <2>3, <3>1 DEF Entry!Load
  <2>5. w[j] = IF j < Entry!Half THEN Entry!Load(RealMode, Entry!Half)[j] ELSE Entry!Word(0)
    BY DEF Entry!CopiedParameters
  <2> QED BY <2>4, <2>5
<1> HIDE DEF w
<1>6. epc' = "pointer" /\ Written(w, z, TableSize)
  <2> HIDE DEF z
  <2> QED BY <1>1, <1>2, <1>3, <1>4, StoredHigh DEF z
<1>7. Copied'
  <2>1. ASSUME NEW j \in 0 .. TableSize - 1 PROVE emem'[z + j] = wanted(j)
    <3>1. emem'[z + j] = w[j]
      <4> HIDE DEF z
      <4> QED BY <1>2, <1>6, WrittenThere
    <3> QED BY <1>5, <3>1
  <2>2. ASSUME NEW j \in 0 .. TableSize - 1 PROVE emem'[RealMode + j] = emem[RealMode + j]
    <3> DEFINE q == RealMode + j
    <3>1. /\ RealMode \in Nat /\ TableSize \in Nat /\ z \in Nat /\ RealMode + TableSize <= z
          /\ _end \in Nat /\ RealMode + TableSize <= _end
      BY EntryConstants, Placed
    <3> HIDE DEF z
    <3>2. q \in 0 .. _end - 1 /\ q \notin z .. z + TableSize - 1
      BY ONLY <3>1, j \in 0 .. TableSize - 1
    <3> HIDE DEF q
    <3>3. emem'[q] = emem[q]
      BY <1>6, <3>2 DEF Written
    <3> QED BY <3>3 DEF q
  <2>3. \A j \in 0 .. TableSize - 1 : emem'[z + j] = IF j < Entry!Half THEN emem'[RealMode + j] ELSE Entry!Word(0)
    BY <2>1, <2>2
  <2> QED BY <2>3, Zenon DEF Copied
<1>8. KernelWhole' /\ BSSClear' /\ Ignored'
  <2>1. \A q \in z .. z + TableSize - 1 : q \in Patched
    BY <1>2 DEF Patched
  <2> HIDE DEF z
  <2> QED BY <1>2, <1>4, <1>6, <2>1, KernelWholeKept, BSSClearKept, IgnoredKept
<1> QED BY <1>6, <1>7, <1>8 DEF Loaded, Detecting

(* The other steps leave the memory that is ready alone, or stop.          *)
LEMMA LoadedElsewhere ==
  ASSUME EntryInv, Loaded,
         \/ Entry!TestA20 \/ Entry!ClearDecompressor \/ Entry!SetupOutput \/ Entry!StartTables \/ Entry!EnablePaging
         \/ Entry!FindCommandLine \/ Entry!CheckCPUType \/ Entry!is486 \/ Entry!check_x87 \/ UNCHANGED entryvars
  PROVE  Loaded'
<1> DEFINE Before == {"a20", "clear", "decompress_kernel", "error", "gunzip", "fault", "hlt"}
<1>1. UNCHANGED <<emem, emachine>> =>
        (KernelWhole' <=> KernelWhole) /\ (BSSClear' <=> BSSClear) /\ (Ignored' <=> Ignored) /\ (Copied' <=> Copied)
  BY DEF KernelWhole, BSSClear, Ignored, Copied, Patched
<1>2. ASSUME epc' \in Before PROVE Loaded'
  BY <1>2 DEF Loaded, Detecting
<1>3. CASE Entry!TestA20 \/ Entry!ClearDecompressor \/ Entry!SetupOutput
  <2>1. epc' \in Before
    BY <1>3 DEF Entry!TestA20, Entry!ClearDecompressor, Entry!SetupOutput, Entry!Store
  <2> QED BY <1>2, <2>1
<1>4. CASE Entry!StartTables
  <2>1. epc = "startup_32" /\ epc' = "tables" /\ UNCHANGED <<emem, emachine>>
    BY <1>4 DEF Entry!StartTables, Entry!Goto
  <2> QED BY <1>1, <2>1 DEF Loaded, Detecting
<1>5. CASE Entry!EnablePaging
  <2>1. epc = "paging" /\ epc' = "bss" /\ UNCHANGED <<emem, emachine>>
    BY <1>5 DEF Entry!EnablePaging, Entry!Goto
  <2> QED BY <1>1, <2>1 DEF Loaded, Detecting
<1>6. CASE Entry!FindCommandLine
  <2>1. epc = "pointer" /\ (epc' \in {"hlt", "fault"} \/ (epc' = "checkCPUtype" /\ UNCHANGED <<emem, emachine>>))
    BY <1>6 DEF Entry!FindCommandLine, Entry!Store
  <2> QED BY <1>1, <1>2, <2>1 DEF Loaded, Detecting
<1>7. CASE Entry!CheckCPUType \/ Entry!is486 \/ Entry!check_x87
  <2>1. epc \in Detecting /\ epc' \in Detecting \union {"hlt"} /\ UNCHANGED <<emem, emachine>>
    BY <1>7 DEF Entry!CheckCPUType, Entry!is486, Entry!check_x87, Entry!Goto, Detecting
  <2> QED BY <1>1, <2>1 DEF Loaded, Detecting
<1>8. CASE UNCHANGED entryvars
  <2>1. epc' = epc /\ UNCHANGED <<emem, emachine>>
    BY <1>8 DEF entryvars
  <2> QED BY <1>1, <2>1 DEF Loaded
<1> QED BY <1>3, <1>4, <1>5, <1>6, <1>7, <1>8

LEMMA LoadedKept ==
  ASSUME EntryInv, Loaded, Entry!Next \/ UNCHANGED entryvars
  PROVE  Loaded'
BY LoadedAtDecompress, LoadedAtBooting, LoadedAtTables, LoadedAtBSS, LoadedAtIdt, LoadedAtParameters, LoadedElsewhere DEF Entry!Next

(* Where a step leads to, and which of them touch the processor.           *)
LEMMA ControlKept ==
  ASSUME EntryInv, ControlSet, Entry!Next \/ UNCHANGED entryvars
  PROVE  ControlSet'
<1> DEFINE Early == {"a20", "clear", "decompress_kernel", "gunzip", "booting", "startup_32", "tables", "paging"}
           Late == {"bss", "idt", "parameters", "pointer", "checkCPUtype", "is486"}
           Stopped == {"error", "hlt", "fault"}
<1>1. CASE \/ Entry!TestA20 \/ Entry!ClearDecompressor \/ Entry!SetupOutput \/ Entry!Decompress
           \/ Entry!Booting \/ Entry!StartTables \/ Entry!FillTables
  <2>1. epc \in Early /\ epc' \in Early \union Stopped /\ ecr0' = ecr0
    BY <1>1 DEF Entry!TestA20, Entry!ClearDecompressor, Entry!SetupOutput, Entry!Decompress,
         Entry!Booting, Entry!StartTables, Entry!FillTables, Entry!Store, Entry!Goto
  <2> QED BY <2>1 DEF ControlSet
<1>2. CASE Entry!EnablePaging
  <2>1. epc = "paging" /\ epc' = "bss" /\ ecr0' = ecr0 \union {"PG"}
    BY <1>2 DEF Entry!EnablePaging, Entry!Goto
  <2>2. ecr0' = {"PG", "PE", "ET"}
    BY <2>1 DEF ControlSet
  <2> QED BY <2>1, <2>2 DEF ControlSet
<1>3. CASE Entry!ClearBSS \/ Entry!setup_idt \/ Entry!CopyParameters \/ Entry!FindCommandLine \/ Entry!CheckCPUType
  <2>1. epc \in Late /\ epc' \in Late \union Stopped /\ ecr0' = ecr0
    BY <1>3 DEF Entry!ClearBSS, Entry!setup_idt, Entry!CopyParameters, Entry!FindCommandLine, Entry!CheckCPUType, Entry!Store
  <2> QED BY <2>1 DEF ControlSet
<1>4. CASE Entry!is486
  <2>1. /\ epc = "is486" /\ epc' = "check_x87"
        /\ ecr0' = (ecr0 \intersect {"PG", "PE", "ET"}) \union {"AM", "WP", "NE", "MP"}
    BY <1>4 DEF Entry!is486, Entry!Goto
  <2>2. ecr0' = {"PG", "PE", "ET", "AM", "WP", "NE", "MP"}
    BY <2>1 DEF ControlSet
  <2> QED BY <2>1, <2>2 DEF ControlSet
<1>5. CASE Entry!check_x87
  <2>1. /\ epc = "check_x87" /\ epc' = "start_kernel" /\ emachine' = emachine
        /\ ecr0' = IF emachine.fpu THEN ecr0 ELSE (ecr0 \ {"EM"}) \union ({"EM"} \ ecr0)
    BY <1>5 DEF Entry!check_x87, Entry!Goto
  <2>2. ecr0 = {"PG", "PE", "ET", "AM", "WP", "NE", "MP"}
    BY <2>1 DEF ControlSet
  <2>3. {"PG", "PE", "WP"} \subseteq ecr0' /\ ("EM" \in ecr0' <=> ~emachine.fpu)
    BY <2>1, <2>2
  <2> QED BY <2>1, <2>3 DEF ControlSet
<1>6. CASE UNCHANGED entryvars
  BY <1>6 DEF entryvars, ControlSet
<1> QED BY <1>1, <1>2, <1>3, <1>4, <1>5, <1>6 DEF Entry!Next

(* Four digits in base 4: the lower three are family, model and stepping.  *)
LEMMA SignatureSplits ==
  ASSUME NEW n \in 0 .. 255
  PROVE  /\ ((n \div 16) % 4) * 16 + ((n % 16) \div 4) * 4 + ((n % 16) % 4) = n % 64
         /\ (n \div 16) % 4 \in Int /\ (n % 16) \div 4 \in Int /\ (n % 16) % 4 \in Int
OBVIOUS

LEMMA TypeChecked ==
  ASSUME EntryTypes, ecpu = Entry!Unknown, Entry!CheckCPUType, epc' # "hlt"
  PROVE  Told'
<1> DEFINE s == emachine.signature
           l == emachine.level
<1>1. s \in 0 .. 255 /\ l \in Nat
  BY Parameters DEF EntryTypes, Entry!MachinesOK
<1>2. \/ ecpu' = [ecpu EXCEPT !.x86 = 4]
      \/ /\ l = 0
         /\ ecpu' = [[ecpu EXCEPT !.cpuid_level = l, !.x86_vendor_id = TRUE] EXCEPT !.x86 = 4]
      \/ ecpu' = [[ecpu EXCEPT !.cpuid_level = l, !.x86_vendor_id = TRUE]
                    EXCEPT !.x86 = (s \div 16) % 4, !.x86_model = (s % 16) \div 4,
                           !.x86_mask = (s % 16) % 4, !.x86_capability = TRUE]
  BY DEF Entry!CheckCPUType
<1>3. emachine' = emachine
  BY DEF Entry!CheckCPUType
<1> HIDE DEF l
<1>4. CASE ecpu' = [ecpu EXCEPT !.x86 = 4]
  <2>1. ecpu' = [x86 |-> 4, cpuid_level |-> -1, x86_model |-> 0, x86_mask |-> 0,
                 x86_vendor_id |-> FALSE, x86_capability |-> FALSE, hard_math |-> FALSE]
    BY <1>4 DEF Entry!Unknown
  <2> QED BY <2>1 DEF Told
<1>5. CASE l = 0 /\ ecpu' = [[ecpu EXCEPT !.cpuid_level = l, !.x86_vendor_id = TRUE] EXCEPT !.x86 = 4]
  <2>1. ecpu' = [x86 |-> 4, cpuid_level |-> 0, x86_model |-> 0, x86_mask |-> 0,
                 x86_vendor_id |-> TRUE, x86_capability |-> FALSE, hard_math |-> FALSE]
    BY <1>5 DEF Entry!Unknown
  <2> QED BY <2>1 DEF Told
<1>6. CASE ecpu' = [[ecpu EXCEPT !.cpuid_level = l, !.x86_vendor_id = TRUE]
                      EXCEPT !.x86 = (s \div 16) % 4, !.x86_model = (s % 16) \div 4,
                             !.x86_mask = (s % 16) % 4, !.x86_capability = TRUE]
  <2> DEFINE family == (s \div 16) % 4
             model == (s % 16) \div 4
             mask == (s % 16) % 4
  <2>1. family * 16 + model * 4 + mask = s % 64 /\ family \in Int /\ model \in Int /\ mask \in Int
    BY <1>1, SignatureSplits
  <2> HIDE DEF family, model, mask
  <2>2. ecpu' = [x86 |-> family, cpuid_level |-> l, x86_model |-> model, x86_mask |-> mask,
                 x86_vendor_id |-> TRUE, x86_capability |-> TRUE, hard_math |-> FALSE]
    BY <1>6 DEF Entry!Unknown, family, model, mask
  <2>3. emachine'.signature = s
    BY <1>3
  <2> HIDE DEF s
  <2> QED BY <1>1, <2>1, <2>2, <2>3 DEF Told
<1> QED BY <1>2, <1>4, <1>5, <1>6

LEMMA ProcessorKept ==
  ASSUME EntryInv, ProcessorTold, Entry!Next \/ UNCHANGED entryvars
  PROVE  ProcessorTold'
<1> DEFINE Identified == {"is486", "check_x87", "start_kernel"}
<1>1. EntryTypes
  BY DEF EntryInv
<1>2. CASE \/ Entry!TestA20 \/ Entry!ClearDecompressor \/ Entry!SetupOutput \/ Entry!Decompress
           \/ Entry!Booting \/ Entry!StartTables \/ Entry!FillTables \/ Entry!EnablePaging
           \/ Entry!ClearBSS \/ Entry!setup_idt \/ Entry!CopyParameters \/ Entry!FindCommandLine
  <2>1. epc \notin Identified \union {"hlt"} /\ epc' \notin Identified /\ ecpu' = ecpu
    BY <1>2 DEF Entry!TestA20, Entry!ClearDecompressor, Entry!SetupOutput, Entry!Decompress, Entry!Booting,
         Entry!StartTables, Entry!FillTables, Entry!EnablePaging, Entry!ClearBSS, Entry!setup_idt, Entry!CopyParameters,
         Entry!FindCommandLine, Entry!Store, Entry!Goto
  <2> QED BY <2>1 DEF ProcessorTold
<1>3. CASE Entry!CheckCPUType
  <2>1. epc = "checkCPUtype" /\ epc' \in {"hlt", "is486"}
    BY <1>3 DEF Entry!CheckCPUType
  <2>2. ecpu = Entry!Unknown
    BY <2>1 DEF ProcessorTold
  <2>3. epc' # "hlt" => Told'
    BY <1>1, <1>3, <2>2, TypeChecked
  <2> QED BY <2>1, <2>3 DEF ProcessorTold
<1>4. CASE Entry!is486
  <2>1. epc = "is486" /\ epc' = "check_x87" /\ UNCHANGED <<ecpu, emachine>>
    BY <1>4 DEF Entry!is486, Entry!Goto
  <2> QED BY <2>1 DEF ProcessorTold, Told
<1>5. CASE Entry!check_x87
  <2>1. epc = "check_x87" /\ epc' = "start_kernel" /\ ecpu' = [ecpu EXCEPT !.hard_math = emachine.fpu] /\ emachine' = emachine
    BY <1>5 DEF Entry!check_x87, Entry!Goto
  <2>2. Told
    BY <2>1 DEF ProcessorTold
  <2>3. emachine.fpu \in BOOLEAN
    BY <1>1, Parameters DEF EntryTypes, Entry!MachinesOK
  <2>4. Told' /\ ecpu'.hard_math = emachine.fpu
    BY <2>1, <2>2, <2>3 DEF Told
  <2> QED BY <2>1, <2>4 DEF ProcessorTold
<1>6. CASE UNCHANGED entryvars
  BY <1>6 DEF entryvars, ProcessorTold, Told
<1> QED BY <1>2, <1>3, <1>4, <1>5, <1>6 DEF Entry!Next

LEMMA PreparedStepKeeps ==
  ASSUME PreparedInv, Entry!Next \/ UNCHANGED entryvars
  PROVE  PreparedInv'
BY EntryStepKeeps, LoadedKept, ControlKept, ProcessorKept DEF PreparedInv

LEMMA PreparedKept ==
  ASSUME PreparedInv
  PROVE  Entry!Inside /\ Entry!Judged /\ Entry!Prepared
<1>1. EntryInv
  BY DEF PreparedInv
<1>2. SUFFICES ASSUME epc = "start_kernel" PROVE Entry!Prepared
  BY <1>1, EntryKept DEF Entry!Prepared
<1>3. /\ EntryTypes /\ Intact /\ Directory /\ FilledTo(Entry!empty_zero_page) /\ epaging = TRUE
  BY <1>1, <1>2 DEF EntryInv, EntryTypes, EntryPlaces, Paged
<1>4. KernelWhole /\ BSSClear /\ Ignored /\ Copied
  BY <1>2 DEF PreparedInv, Loaded, Detecting
<1>5. \A p \in DOMAIN emem : Entry!Phys(p) = p /\ Entry!Phys(Entry!PAGE_OFFSET + p) = p
  <2>1. DOMAIN emem = 0 .. _end - 1
    BY <1>3 DEF EntryTypes
  <2> QED BY <1>3, <2>1, Mapped
<1>6. \A p \in KernelAt .. __bss_start - 1 :
        \/ p \in (Entry!pg0 .. Entry!empty_zero_page + TableSize - 1) \union (idt_table .. idt_table + idt_entries - 1)
        \/ emem[p] = Entry!Image(p)
  BY <1>4 DEF KernelWhole, Patched
<1>7. \A j \in 0 .. idt_entries - 1 : emem[idt_table + j][1] = "ignore_int"
  BY <1>4 DEF Ignored
<1>8. ASSUME NEW j \in 0 .. TableSize - 1
      PROVE  emem[Entry!empty_zero_page + j] = IF j < Entry!Half THEN emem[RealMode + j] ELSE Entry!Word(0)
  BY <1>4 DEF Copied
<1>9. /\ {"PG", "PE", "WP"} \subseteq ecr0 /\ ("EM" \in ecr0 <=> ~emachine.fpu)
      /\ ecpu.hard_math = emachine.fpu
      /\ IF ecpu.x86_capability
         THEN ecpu.x86 * 16 + ecpu.x86_model * 4 + ecpu.x86_mask = emachine.signature % 64
         ELSE ecpu.x86 = 4 /\ ecpu.cpuid_level \in {-1, 0}
  BY <1>2 DEF PreparedInv, ControlSet, ProcessorTold, Told
<1> QED BY <1>4, <1>5, <1>6, <1>7, <1>8, <1>9, Zenon DEF Entry!Prepared, BSSClear
-----------------------------------------------------------------------------
(* Induction over the naturals, for a set: the step holds of every number, *)
(* or there would be a least one outside.                                  *)
LEMMA NatInduct ==
  ASSUME NEW S, 0 \in S, \A n \in Nat : n \in S => n + 1 \in S
  PROVE  \A n \in Nat : n \in S
<1>. DEFINE R == OpToRel(<, Nat)
<1>1. \A m, n \in Nat : m < n => <<m, n>> \in R
  BY Zenon DEF OpToRel
<1>2. IsWellFoundedOn(R, Nat)
  BY NatLessThanWellFounded
<1>. HIDE DEF R
<1>. SUFFICES ASSUME NEW z \in Nat \ S PROVE FALSE
  OBVIOUS
<1>3. PICK m \in Nat \ S : \A n \in Nat \ S : <<n, m>> \notin R
  <2>. DEFINE T == Nat \ S
  <2>1. T \subseteq Nat /\ T # {}
    OBVIOUS
  <2>. HIDE DEF T
  <2>2. \E m \in T : \A n \in T : <<n, m>> \notin R
    BY <1>2, <2>1, WFMin, Zenon
  <2>. QED BY <2>2 DEF T
<1>4. m - 1 \in Nat
  BY <1>3
<1>5. <<m - 1, m>> \in R
  BY <1>1, <1>3, <1>4
<1>6. m - 1 \in S
  BY <1>3, <1>4, <1>5
<1>. QED BY <1>3, <1>4, <1>6

(* A function iterated: the recursive definitions of the model exist.      *)
Within(g, V) == g \in [Nat \X V -> V]
Orbit(f, V, g, v) == f \in [Nat -> V] /\ f[0] = v /\ \A n \in Nat : f[n + 1] = g[<<n, f[n]>>]

LEMMA Iteration ==
  ASSUME NEW V, NEW g, Within(g, V), NEW v \in V
  PROVE  \E f : Orbit(f, V, g, v)
<1>0. g \in [Nat \X V -> V]
  BY DEF Within
<1>. DEFINE Good(f, n) == f \in [0 .. n -> V] /\ f[0] = v /\ \A i \in 0 .. n - 1 : f[i + 1] = g[<<i, f[i]>>]
            S == {n \in Nat : \E f : Good(f, n)}
            T(f, e, n) == {i \in Nat : i <= n => f[i] = e[i]}
            f0(n) == CHOOSE f : Good(f, n)
            F == [n \in Nat |-> f0(n)[n]]
<1>1. 0 \in S
  <2>1. Good([i \in 0 .. 0 |-> v], 0)
    OBVIOUS
  <2>. QED BY <2>1
<1>2. ASSUME NEW n \in Nat, n \in S PROVE n + 1 \in S
  <2>1. PICK f : Good(f, n)
    BY <1>2
  <2>. DEFINE e == [i \in 0 .. n + 1 |-> IF i = n + 1 THEN g[<<n, f[n]>>] ELSE f[i]]
  <2>2. e \in [0 .. n + 1 -> V] /\ e[0] = v
    BY <1>0, <2>1
  <2>3. \A i \in 0 .. (n + 1) - 1 : e[i + 1] = g[<<i, e[i]>>]
    <3>. TAKE i \in 0 .. (n + 1) - 1
    <3>1. i \in 0 .. n + 1 /\ i + 1 \in 0 .. n + 1 /\ i # n + 1
      OBVIOUS
    <3>2. e[i] = f[i]
      BY <3>1
    <3>3. CASE i = n
      <4>1. e[i + 1] = g[<<n, f[n]>>]
        BY <3>1, <3>3
      <4>. QED BY <3>2, <3>3, <4>1
    <3>4. CASE i # n
      <4>1. i \in 0 .. n - 1 /\ i + 1 # n + 1
        BY <3>4
      <4>2. e[i + 1] = f[i + 1]
        BY <3>1, <4>1
      <4>. QED BY <2>1, <3>2, <4>1, <4>2
    <3>. QED BY <3>3, <3>4
  <2>. HIDE DEF e
  <2>4. Good(e, n + 1)
    BY <2>2, <2>3
  <2>. QED BY <2>4
<1>3. \A n \in Nat : n \in S
  <2>. HIDE DEF S
  <2>. QED BY <1>1, <1>2, NatInduct
<1>4. ASSUME NEW n \in Nat, NEW m \in Nat, n <= m, NEW f, NEW e, Good(f, n), Good(e, m)
      PROVE  f[n] = e[n]
  <2>1. 0 \in T(f, e, n)
    BY <1>4
  <2>2. ASSUME NEW i \in Nat, i \in T(f, e, n) PROVE i + 1 \in T(f, e, n)
    <3>1. SUFFICES ASSUME i + 1 <= n PROVE f[i + 1] = e[i + 1]
      OBVIOUS
    <3>2. i \in 0 .. n - 1 /\ i \in 0 .. m - 1 /\ f[i] = e[i]
      BY <1>4, <2>2, <3>1
    <3>. QED BY <1>4, <3>2
  <2>3. n \in T(f, e, n)
    <3>. DEFINE U == T(f, e, n)
    <3>1. 0 \in U /\ \A i \in Nat : i \in U => i + 1 \in U
      BY <2>1, <2>2
    <3>. HIDE DEF U
    <3>2. n \in U
      BY <3>1, NatInduct
    <3>. QED BY <3>2 DEF U
  <2>. QED BY <2>3
<1>5. ASSUME NEW n \in Nat PROVE Good(f0(n), n)
  BY <1>3, <1>5
<1>6. ASSUME NEW n \in Nat PROVE F[n] \in V
  <2>0. Good(f0(n), n)
    BY <1>5, Zenon
  <2>1. f0(n) \in [0 .. n -> V] /\ n \in 0 .. n
    <3>. HIDE DEF f0
    <3>. QED BY <2>0
  <2>. QED BY <2>1
<1>7. F[0] = v
  <2>1. f0(0)[0] = v
    BY <1>5
  <2>. QED BY <2>1
<1>8. ASSUME NEW n \in Nat PROVE F[n + 1] = g[<<n, F[n]>>]
  <2>0. n + 1 \in Nat /\ n <= n + 1 /\ n \in 0 .. (n + 1) - 1
    OBVIOUS
  <2>1. Good(f0(n), n) /\ Good(f0(n + 1), n + 1)
    <3>. HIDE DEF Good, f0
    <3>. QED BY <1>5, <2>0
  <2>2. f0(n)[n] = f0(n + 1)[n]
    <3>. HIDE DEF Good, f0
    <3>. QED BY <1>4, <2>0, <2>1
  <2>3. f0(n + 1)[n + 1] = g[<<n, f0(n + 1)[n]>>]
    BY <2>0, <2>1
  <2>. HIDE DEF f0
  <2>. QED BY <2>0, <2>2, <2>3
<1>. HIDE DEF F
<1>9. F \in [Nat -> V]
  <2>1. F = [n \in Nat |-> F[n]]
    BY DEF F
  <2>. QED BY <1>6, <2>1
<1>10. Orbit(F, V, g, v)
  BY <1>7, <1>8, <1>9 DEF Orbit
<1>. QED BY <1>10, Zenon
-----------------------------------------------------------------------------
(* The screen.  Video memory is Sound while it has the places it began     *)
(* with, and the attributes in the odd ones.                               *)
Places == 0 .. Display!Size - 1
Sound(m) ==
  /\ m = [i \in Places |-> m[i]]
  /\ \A i \in Places : i % 2 = 1 <=> m[i] \in Display!Attributes

LEMMA ScreenConstants ==
  /\ lines \in Nat /\ lines > 0 /\ cols \in Nat /\ cols > 0 /\ Display!Size \in Nat
  /\ Display!Size = (lines - 1) * cols * 2 + 2 * cols /\ (lines - 1) * cols * 2 \in Nat
  /\ Buffers \subseteq Nat /\ Buffers # {}
  /\ \A text \in Texts \union Messages : text \in Seq(Display!Characters)
  /\ \A c \in Display!Characters : c \notin Display!Attributes
<1>1. lines \in Nat /\ lines > 0 /\ cols \in Nat /\ cols > 0 /\ Buffers \subseteq Nat /\ Buffers # {}
  BY Parameters DEF Display!ScreenOK
<1>2. Display!Size = 2 * lines * cols
  BY DEF Display!Size
<1>3. 2 * lines * cols = (lines - 1) * cols * 2 + 2 * cols /\ 2 * lines * cols \in Nat /\ (lines - 1) * cols * 2 \in Nat
  <2>1. PICK l \in Nat : lines = l + 1
    <3>1. lines - 1 \in Nat /\ lines = (lines - 1) + 1
      BY <1>1
    <3> QED BY <3>1
  <2>2. 2 * (l + 1) * cols = ((l + 1) - 1) * cols * 2 + 2 * cols /\ 2 * (l + 1) * cols \in Nat /\ ((l + 1) - 1) * cols * 2 \in Nat
    BY ONLY <1>1, <2>1
  <2> QED BY <2>1, <2>2
<1>4. /\ \A text \in Texts \union Messages : text \in Seq(Display!Characters)
      /\ \A c \in Display!Characters : c \notin Display!Attributes
  BY Parameters DEF Display!ScreenOK, Display!Characters
<1> QED BY <1>1, <1>2, <1>3, <1>4

(* raw_print's row is one of the screen's, and a message fits into it.     *)
LEMMA RawPlaced ==
  ASSUME NEW text \in Messages
  PROVE  /\ RawRow \in 0 .. lines - 1 /\ 2 * RawRow * RawCols = 2 * (cols * RawRow)
         /\ 2 * RawRow * RawCols \in Nat /\ (2 * RawRow * RawCols) % 2 = 0
         /\ 2 * RawRow * RawCols + 2 * cols <= Display!Size
         /\ Len(text) + 4 <= cols /\ \A size \in Buffers : Len(text) + 4 < size
<1>1. /\ RawRow \in Nat /\ RawRow < lines /\ RawCols = cols
      /\ Len(text) + 4 <= cols /\ \A size \in Buffers : Len(text) + 4 < size
  BY Parameters DEF Display!ScreenOK
<1>2. /\ lines \in Nat /\ cols \in Nat /\ Display!Size = (lines - 1) * cols * 2 + 2 * cols
  BY ScreenConstants
<1> DEFINE a == cols * RawRow
           l == cols * (lines - 1)
<1>3. a \in Nat /\ l \in Nat /\ a <= l /\ RawRow \in 0 .. lines - 1
  BY <1>1, <1>2, Monotone, Product
<1>4. 2 * RawRow * RawCols = 2 * a /\ (lines - 1) * cols * 2 = 2 * l
  BY <1>1, <1>2
<1> HIDE DEF a, l
<1>5. 2 * a \in Nat /\ (2 * a) % 2 = 0 /\ 2 * a + 2 * cols <= 2 * l + 2 * cols
  BY ONLY <1>2, <1>3
<1> QED BY <1>1, <1>2, <1>3, <1>4, <1>5 DEF a

LEMMA WrittenSound ==
  ASSUME NEW m, Sound(m), NEW new, DOMAIN new \subseteq Places,
         \A i \in DOMAIN new : i % 2 = 1 <=> new[i] \in Display!Attributes
  PROVE  Sound(Display!Written(m, new))
<1>1. DOMAIN m = Places
  BY DEF Sound
<1>2. Display!Written(m, new) = [i \in Places |-> IF i \in DOMAIN new THEN new[i] ELSE m[i]]
  <2>1. DOMAIN m \union DOMAIN new = Places
    BY <1>1
  <2> QED BY <2>1 DEF Display!Written
<1> QED BY <1>2 DEF Sound

LEMMA StoreSound ==
  ASSUME NEW m, Sound(m), NEW i \in Places, NEW c, i % 2 = 1 <=> c \in Display!Attributes
  PROVE  Sound(Display!Store(m, i, c))
<1>1. Sound(Display!Written(m, [j \in {i} |-> c]))
  BY WrittenSound
<1> QED BY <1>1 DEF Display!Store

(* A copy to lower places, upwards, has read every byte before it writes   *)
(* over it.                                                                *)
Moved(m, dest, src, n) == [i \in Places |-> IF i \in dest .. dest + n - 1 THEN m[i + (src - dest)] ELSE m[i]]

LEMMA CopyMoves ==
  ASSUME NEW m, m = [i \in Places |-> m[i]], NEW dest \in Nat, NEW src \in Nat, NEW n \in Nat,
         dest <= src, src + n <= Display!Size
  PROVE  Display!memcpy(m, dest, src, n) = Moved(m, dest, src, n)
<1> DEFINE e == [j \in 0 .. n |-> Moved(m, dest, src, j)]
           f == CHOOSE f : f = [j \in 0 .. n |-> IF j = 0 THEN m ELSE
                                 LET before == f[j - 1] IN Display!Store(before, dest + (j - 1), before[src + (j - 1)])]
<1>1. Display!Size \in Nat
  BY ScreenConstants
<1>2. Moved(m, dest, src, 0) = m
  <2>1. \A i \in Places : i \notin dest .. dest + 0 - 1
    BY <1>1 DEF Places
  <2>2. Moved(m, dest, src, 0) = [i \in Places |-> m[i]]
    BY <2>1 DEF Moved
  <2> QED BY <2>2
<1>3. ASSUME NEW j \in 0 .. n - 1, NEW b, b = Moved(m, dest, src, j)
      PROVE  Display!Store(b, dest + j, b[src + j]) = Moved(m, dest, src, j + 1)
  <2>1. /\ dest + j \in Places /\ src + j \in Places /\ src + j \notin dest .. dest + j - 1
        /\ (dest + j) + (src - dest) = src + j
    BY <1>1, <1>3 DEF Places
  <2>2. \A i \in Places : i \in dest .. dest + (j + 1) - 1 <=> (i = dest + j \/ i \in dest .. dest + j - 1)
    <3>1. j \in Nat
      OBVIOUS
    <3>2. \A i \in Int : i \in dest .. dest + (j + 1) - 1 <=> (i = dest + j \/ i \in dest .. dest + j - 1)
      BY ONLY <3>1, dest \in Nat
    <3>3. Places \subseteq Int
      BY <1>1 DEF Places
    <3> QED BY <3>2, <3>3
  <2>3. DOMAIN b = Places /\ \A i \in Places : b[i] = IF i \in dest .. dest + j - 1 THEN m[i + (src - dest)] ELSE m[i]
    BY <1>3 DEF Moved
  <2>4. b[src + j] = m[src + j]
    BY <2>1, <2>3
  <2>5. Display!Store(b, dest + j, b[src + j]) = [i \in Places |-> IF i = dest + j THEN b[src + j] ELSE b[i]]
    <3>1. DOMAIN b \union DOMAIN [i \in {dest + j} |-> b[src + j]] = Places
      BY <2>1, <2>3
    <3> QED BY <3>1 DEF Display!Store, Display!Written
  <2>6. ASSUME NEW i \in Places
        PROVE  (IF i = dest + j THEN b[src + j] ELSE b[i]) =
                 (IF i \in dest .. dest + (j + 1) - 1 THEN m[i + (src - dest)] ELSE m[i])
    BY <2>1, <2>2, <2>3, <2>4
  <2> QED BY <2>5, <2>6 DEF Moved
<1>4. e = [j \in 0 .. n |-> IF j = 0 THEN m ELSE
            LET before == e[j - 1] IN Display!Store(before, dest + (j - 1), before[src + (j - 1)])]
  <2>1. ASSUME NEW j \in 0 .. n
        PROVE  Moved(m, dest, src, j) = IF j = 0 THEN m ELSE
                 LET before == e[j - 1] IN Display!Store(before, dest + (j - 1), before[src + (j - 1)])
    <3>1. CASE j = 0
      BY <1>2, <3>1
    <3>2. CASE j # 0
      <4>1. j - 1 \in 0 .. n - 1 /\ j - 1 \in 0 .. n /\ (j - 1) + 1 = j
        BY <3>2
      <4>2. e[j - 1] = Moved(m, dest, src, j - 1)
        BY <4>1
      <4> HIDE DEF e
      <4> QED BY <1>3, <3>2, <4>1, <4>2
    <3> QED BY <3>1, <3>2
  <2> DEFINE g == [j \in 0 .. n |-> IF j = 0 THEN m ELSE
                    LET before == e[j - 1] IN Display!Store(before, dest + (j - 1), before[src + (j - 1)])]
  <2>2. \A j \in 0 .. n : e[j] = g[j]
    BY <2>1
  <2> QED BY <2>1
<1> HIDE DEF e
<1>5. f = [j \in 0 .. n |-> IF j = 0 THEN m ELSE
            LET before == f[j - 1] IN Display!Store(before, dest + (j - 1), before[src + (j - 1)])]
  BY <1>4, Zenon
<1>6. Display!memcpy(m, dest, src, n) = f[n]
  BY Zenon DEF Display!memcpy
<1> HIDE DEF f
<1> DEFINE T == {j \in Nat : j <= n => f[j] = Moved(m, dest, src, j)}
<1>7. 0 \in T
  BY <1>2, <1>5
<1>8. ASSUME NEW j \in Nat, j \in T PROVE j + 1 \in T
  <2>1. SUFFICES ASSUME j + 1 <= n PROVE f[j + 1] = Moved(m, dest, src, j + 1)
    OBVIOUS
  <2>2. j \in 0 .. n - 1 /\ j + 1 \in 0 .. n /\ j + 1 # 0 /\ (j + 1) - 1 = j /\ f[j] = Moved(m, dest, src, j)
    BY <1>8, <2>1
  <2>3. f[j + 1] = Display!Store(f[j], dest + j, f[j][src + j])
    BY <1>5, <2>2
  <2> QED BY <1>3, <2>2, <2>3
<1>9. n \in T
  <2> HIDE DEF T
  <2> QED BY <1>7, <1>8, NatInduct
<1> QED BY <1>6, <1>9

(* It keeps characters and attributes apart if it moves them by an even    *)
(* distance.                                                               *)
LEMMA CopySound ==
  ASSUME NEW m, Sound(m), NEW dest \in Nat, NEW src \in Nat, NEW n \in Nat,
         dest % 2 = 0, src % 2 = 0, dest <= src, src + n <= Display!Size
  PROVE  Sound(Display!memcpy(m, dest, src, n))
<1>1. Display!memcpy(m, dest, src, n) = Moved(m, dest, src, n)
  BY CopyMoves DEF Sound
<1>2. Display!Size \in Nat
  BY ScreenConstants
<1>3. ASSUME NEW i \in Places, i \in dest .. dest + n - 1
      PROVE  i + (src - dest) \in Places /\ (i + (src - dest)) % 2 = i % 2
  <2>1. i \in Nat /\ i + (src - dest) \in Places
    BY <1>2, <1>3 DEF Places
  <2>2. (i + (src - dest)) % 2 = i % 2
    BY <2>1
  <2> QED BY <2>1, <2>2
<1>4. ASSUME NEW i \in Places PROVE i % 2 = 1 <=> Moved(m, dest, src, n)[i] \in Display!Attributes
  BY <1>3 DEF Moved, Sound
<1>5. Moved(m, dest, src, n) = [i \in Places |-> Moved(m, dest, src, n)[i]]
  BY DEF Moved
<1> QED BY <1>1, <1>4, <1>5 DEF Sound

LEMMA ScrollSound ==
  ASSUME NEW m, Sound(m)
  PROVE  Sound(Display!scroll(m))
<1> DEFINE top == (lines - 1) * cols * 2
           copied == Display!memcpy(m, 0, cols * 2, top)
           row == Display!Blank(lines - 1)
<1>1. top \in Nat /\ cols \in Nat /\ cols > 0 /\ Display!Size = top + 2 * cols /\ Display!Size \in Nat
  BY ScreenConstants
<1>2. 0 % 2 = 0 /\ (cols * 2) % 2 = 0 /\ top % 2 = 0
  <2>1. lines - 1 \in Nat
    BY ScreenConstants
  <2>2. PICK k \in Nat : k = (lines - 1) * cols
    BY <1>1, <2>1
  <2>3. (k * 2) % 2 = 0
    BY ONLY <2>2
  <2> QED BY <1>1, <2>2, <2>3
<1> HIDE DEF top
<1>3. Sound(copied)
  <2>1. 0 \in Nat /\ cols * 2 \in Nat /\ top \in Nat /\ 0 <= cols * 2 /\ cols * 2 + top <= Display!Size
    BY <1>1
  <2> QED BY <1>2, <2>1, CopySound
<1>4. \A i \in DOMAIN row : i \in Places /\ i % 2 = 0 /\ row[i] = " "
  <2> SUFFICES ASSUME NEW i \in DOMAIN row PROVE i \in Places /\ i % 2 = 0 /\ row[i] = " "
    OBVIOUS
  <2>1. row[i] = " " /\ \E j \in 0 .. cols - 1 : i = top + 2 * j
    BY DEF Display!Blank, top
  <2>2. PICK j \in 0 .. cols - 1 : i = top + 2 * j
    BY <2>1
  <2>3. i \in Nat /\ i < top + 2 * cols /\ i % 2 = 0
    BY <1>1, <1>2, <2>2
  <2>4. i \in 0 .. Display!Size - 1
    BY <1>1, <2>3
  <2> QED BY <2>1, <2>3, <2>4, Zenon DEF Places
<1>5. Display!scroll(m) = Display!Written(copied, row)
  BY DEF Display!scroll, top
<1> HIDE DEF copied, row
<1>6. Sound(Display!Written(copied, row))
  <2>1. " " \notin Display!Attributes
    BY DEF Display!Attributes
  <2>2. \A i \in DOMAIN row : ~(i % 2 = 1) /\ row[i] \notin Display!Attributes
    <3> TAKE i \in DOMAIN row
    <3>1. i % 2 = 0 /\ row[i] = " "
      BY <1>4, Zenon
    <3>2. ~(i % 2 = 1)
      <4>1. i \in Places /\ i % 2 = 0
        BY <1>4, Zenon
      <4>2. Places \subseteq Int
        BY ScreenConstants DEF Places
      <4> QED BY ONLY <4>1, <4>2
    <3>3. row[i] \notin Display!Attributes
      BY <2>1, <3>1, Zenon
    <3> QED BY <3>2, <3>3
  <2>3. DOMAIN row \subseteq Places
    BY <1>4, Zenon
  <2> QED BY <1>3, <2>2, <2>3, WrittenSound
<1> QED BY <1>5, <1>6

(* A set of numbers has a least one.                                       *)
LEMMA Least ==
  ASSUME NEW T, T \subseteq Nat, NEW n \in T
  PROVE  Display!Min(T) \in T /\ Display!Min(T) <= n
<1> DEFINE R == OpToRel(<, Nat)
<1>1. \A a, b \in Nat : a < b => <<a, b>> \in R
  BY Zenon DEF OpToRel
<1>2. IsWellFoundedOn(R, Nat)
  BY NatLessThanWellFounded
<1> HIDE DEF R
<1>3. PICK l \in T : \A k \in T : <<k, l>> \notin R
  BY <1>2, WFMin, Zenon
<1>4. \A k \in T : l <= k
  <2> TAKE k \in T
  <2>1. k \in Nat /\ l \in Nat /\ ~(k < l)
    BY <1>1, <1>3
  <2> QED BY <2>1
<1>5. \E x \in T : \A y \in T : x =< y
  BY <1>3, <1>4
<1>6. Display!Min(T) \in T /\ \A y \in T : Display!Min(T) =< y
  BY <1>5, Zenon DEF Display!Min
<1> QED BY <1>6

(* Where the next character goes, and what has been put into the buffer.   *)
DisplayInv ==
  /\ Sound(smem)
  /\ \E size \in Buffers : DOMAIN sbuf = 0 .. size - 1
  /\ \A i \in DOMAIN sbuf : sbuf[i] \notin Display!Attributes
  /\ sx \in -2 .. cols - 1 /\ (sx >= 0 => sy \in 0 .. lines - 1)
  /\ stext \in Seq(Display!Characters) /\ (stext # <<>> => sx >= 0)
  /\ sorig \in (0 .. cols - 1) \X (0 .. lines - 1)

LEMMA DisplayInitInv ==
  ASSUME Display!Init
  PROVE  DisplayInv
<1>1. Sound(smem)
  BY ScreenConstants DEF Display!Init, Sound, Places, Display!Attributes
<1>2. /\ \E size \in Buffers : DOMAIN sbuf = 0 .. size - 1
      /\ \A i \in DOMAIN sbuf : sbuf[i] \notin Display!Attributes
  BY DEF Display!Init, Display!Attributes
<1>3. sx \in -2 .. cols - 1 /\ ~(sx >= 0) /\ stext = <<>> /\ sorig \in (0 .. cols - 1) \X (0 .. lines - 1)
  BY ScreenConstants DEF Display!Init
<1> QED BY <1>1, <1>2, <1>3 DEF DisplayInv

LEMMA NewLineSound ==
  ASSUME NEW m, Sound(m), Display!NewLine(m), sy \in 0 .. lines - 1
  PROVE  Sound(smem') /\ sx' = 0 /\ sy' \in 0 .. lines - 1
<1>1. sx' = 0 /\ sy' = (IF sy + 1 >= lines THEN sy ELSE sy + 1)
      /\ smem' = (IF sy + 1 >= lines THEN Display!scroll(m) ELSE m)
  BY DEF Display!NewLine
<1>2. sy' \in 0 .. lines - 1
  BY <1>1, ScreenConstants
<1> QED BY <1>1, <1>2, ScrollSound

LEMMA TextSound ==
  ASSUME NEW text \in Seq(Display!Characters), text # <<>>
  PROVE  /\ Head(text) \in Display!Characters /\ Head(text) \notin Display!Attributes
         /\ Tail(text) \in Seq(Display!Characters)
<1>1. Head(text) \in Display!Characters /\ Tail(text) \in Seq(Display!Characters)
  BY HeadTailProperties
<1> QED BY <1>1, ScreenConstants

LEMMA TypeKeeps ==
  ASSUME DisplayInv, Display!Type
  PROVE  DisplayInv'
<1>1. /\ Sound(smem) /\ sx \in -2 .. cols - 1 /\ sx >= 0 /\ sy \in 0 .. lines - 1
      /\ stext \in Seq(Display!Characters) /\ stext # <<>>
  BY DEF DisplayInv, Display!Type
<1>2. Head(stext) \notin Display!Attributes /\ Tail(stext) \in Seq(Display!Characters)
  BY <1>1, TextSound
<1> DEFINE place == (sx + cols * sy) * 2
           m == Display!Store(smem, place, Head(stext))
<1>3. place \in Places /\ place % 2 = 0
  <2>1. cols \in Nat /\ cols > 0 /\ lines \in Nat /\ sx \in Nat /\ sx < cols /\ sy \in Nat /\ sy <= lines - 1
    BY <1>1, ScreenConstants
  <2>2. PICK k \in Nat : lines - 1 = sy + k
    <3>1. (lines - 1) - sy \in Nat /\ lines - 1 = sy + ((lines - 1) - sy)
      BY <2>1
    <3> QED BY <3>1
  <2>3. (sy + k) * cols * 2 = cols * sy * 2 + k * cols * 2 /\ k * cols * 2 \in Nat /\ cols * sy \in Nat
    BY ONLY <2>1, <2>2
  <2>4. place \in Nat /\ place < (lines - 1) * cols * 2 + 2 * cols
    BY <2>1, <2>2, <2>3
  <2>5. PICK l \in Nat : l = sx + cols * sy
    BY <2>1, <2>3
  <2>6. (l * 2) % 2 = 0
    BY ONLY <2>5
  <2>7. Display!Size = (lines - 1) * cols * 2 + 2 * cols /\ Display!Size \in Nat
    BY ScreenConstants
  <2>8. place \in 0 .. Display!Size - 1
    BY <2>4, <2>7
  <2> QED BY <2>5, <2>6, <2>8 DEF Places
<1> HIDE DEF place
<1>4. Sound(m)
  <2>1. ~(place % 2 = 1)
    BY ONLY <1>3
  <2> QED BY <1>1, <1>2, <1>3, <2>1, StoreSound
<1>5. /\ stext' = Tail(stext) /\ sorig' = sorig /\ sbuf' = sbuf
      /\ \/ sx + 1 >= cols /\ Display!NewLine(m)
         \/ ~(sx + 1 >= cols) /\ sx' = sx + 1 /\ sy' = sy /\ smem' = m
  BY DEF Display!Type, place
<1> HIDE DEF m
<1>6. Sound(smem') /\ sx' \in -2 .. cols - 1 /\ sx' >= 0 /\ sy' \in 0 .. lines - 1
  <2>1. CASE sx + 1 >= cols /\ Display!NewLine(m)
    <3>1. Sound(smem') /\ sx' = 0 /\ sy' \in 0 .. lines - 1
      BY <1>1, <1>4, <2>1, NewLineSound
    <3>2. 0 \in -2 .. cols - 1
      BY ScreenConstants
    <3> QED BY <3>1, <3>2
  <2>2. CASE ~(sx + 1 >= cols) /\ sx' = sx + 1 /\ sy' = sy /\ smem' = m
    <3>1. sx' \in -2 .. cols - 1 /\ sx' >= 0
      BY <1>1, <2>2, ScreenConstants
    <3> QED BY <1>1, <1>4, <2>2, <3>1
  <2> QED BY <1>5, <2>1, <2>2
<1>7. Sound(smem)'
  BY <1>6 DEF Sound, Places, Display!Size, Display!Attributes
<1> QED BY <1>2, <1>5, <1>6, <1>7 DEF DisplayInv, Display!Attributes, Display!Characters

LEMMA FeedKeeps ==
  ASSUME DisplayInv, Display!Feed
  PROVE  DisplayInv'
<1>1. /\ Sound(smem) /\ sx \in -2 .. cols - 1 /\ sx >= 0 /\ sy \in 0 .. lines - 1
      /\ stext \in Seq(Display!Characters) /\ stext # <<>>
  BY DEF DisplayInv, Display!Feed
<1>2. Tail(stext) \in Seq(Display!Characters)
  BY <1>1, TextSound
<1>3. stext' = Tail(stext) /\ sorig' = sorig /\ sbuf' = sbuf /\ Display!NewLine(smem)
  BY DEF Display!Feed
<1>4. Sound(smem') /\ sx' = 0 /\ sy' \in 0 .. lines - 1
  BY <1>1, <1>3, NewLineSound
<1>5. 0 \in -2 .. cols - 1 /\ 0 >= 0
  BY ScreenConstants
<1>6. Sound(smem)'
  BY <1>4 DEF Sound, Places, Display!Size, Display!Attributes
<1> QED BY <1>2, <1>3, <1>4, <1>5, <1>6 DEF DisplayInv, Display!Attributes, Display!Characters

(* The message between its brackets is shorter than the buffer and a row,  *)
(* and raw_print() finds its end.                                          *)
LEMMA MessageKeeps ==
  ASSUME DisplayInv, NEW text \in Messages, Display!Message(text)
  PROVE  DisplayInv'
<1> DEFINE n == Len(text)
           new == Display!Framed(text)
           zeros == {i \in DOMAIN sbuf' : sbuf'[i] = "0"}
           length == Display!Min(zeros)
           row == 2 * RawRow * RawCols
           put == [i \in row .. row + (2 * length - 1) |-> IF i % 2 = 0 THEN sbuf'[(i - row) \div 2] ELSE "0x07"]
<1>1. text \in Seq(Display!Characters) /\ n \in Nat /\ \A i \in 1 .. n : text[i] \notin Display!Attributes
  <2>1. text \in Seq(Display!Characters)
    BY ScreenConstants
  <2>2. \A i \in 1 .. Len(text) : text[i] \in Display!Characters
    BY <2>1, ElementOfSeq
  <2> QED BY <2>1, <2>2, ScreenConstants
<1>2. PICK size \in Buffers : DOMAIN sbuf = 0 .. size - 1 /\ size \in Nat
  BY ScreenConstants DEF DisplayInv
<1>3. /\ n + 4 \in 0 .. size - 1 /\ n + 4 <= cols /\ stext = <<>> /\ sx = -1
      /\ sbuf' = Display!Written(sbuf, new) /\ smem' = Display!Written(smem, put)
      /\ sx' \in {-2, sx} /\ stext' = stext /\ sorig' = sorig
  <2>1. n + 4 <= cols /\ n + 4 < size
    BY <1>2, RawPlaced
  <2>2. n + 4 \in 0 .. size - 1
    BY <1>1, <1>2, <2>1
  <2> QED BY <2>1, <2>2 DEF Display!Message, Display!Idle
<1>4. /\ DOMAIN new = 2 .. n + 4 /\ \A i \in 2 .. n + 4 : new[i] \notin Display!Attributes
      /\ new[n + 4] = "0"
  <2>1. new = [i \in 2 .. n + 4 |-> IF i < n + 2 THEN text[i - 1] ELSE IF i < n + 4 THEN "]" ELSE "0"]
    BY DEF Display!Framed
  <2>2. \A i \in 2 .. n + 4 : i < n + 2 => i - 1 \in 1 .. n
    BY <1>1
  <2>3. "]" \notin Display!Attributes /\ "0" \notin Display!Attributes
    BY DEF Display!Attributes
  <2>4. n + 4 \in 2 .. n + 4 /\ ~(n + 4 < n + 2) /\ ~(n + 4 < n + 4)
    BY <1>1
  <2> HIDE DEF new, n
  <2> QED BY <1>1, <2>1, <2>2, <2>3, <2>4
<1> HIDE DEF new
<1>5. /\ DOMAIN sbuf' = 0 .. size - 1 /\ sbuf'[n + 4] = "0"
      /\ \A i \in 0 .. size - 1 : sbuf'[i] \notin Display!Attributes
  <2>1. 2 .. n + 4 \subseteq 0 .. size - 1 /\ n + 4 \in 2 .. n + 4
    BY <1>1, <1>2, <1>3
  <2>2. \A i \in 0 .. size - 1 : sbuf[i] \notin Display!Attributes
    BY <1>2 DEF DisplayInv
  <2>3. sbuf' = [i \in 0 .. size - 1 |-> IF i \in 2 .. n + 4 THEN new[i] ELSE sbuf[i]]
    <3>1. DOMAIN sbuf \union DOMAIN new = 0 .. size - 1
      BY <1>2, <1>4, <2>1
    <3> QED BY <1>3, <1>4, <3>1 DEF Display!Written
  <2> HIDE DEF n
  <2> QED BY <1>3, <1>4, <2>1, <2>2, <2>3
<1>6. length \in Nat /\ length <= n + 4 /\ length <= size - 1
  <2>1. zeros \subseteq Nat /\ n + 4 \in zeros
    BY <1>3, <1>5
  <2> HIDE DEF zeros
  <2>2. length \in zeros /\ length <= n + 4
    BY <2>1, Least
  <2> HIDE DEF length
  <2>3. length \in Nat
    BY <2>1, <2>2
  <2> QED BY <1>1, <1>2, <1>3, <2>2, <2>3
<1> HIDE DEF length
<1>7. row \in Nat /\ row % 2 = 0 /\ row + 2 * cols <= Display!Size /\ cols \in Nat /\ Display!Size \in Nat
  BY RawPlaced, ScreenConstants
<1> HIDE DEF row, n
<1>8. DOMAIN put \subseteq Places
  <2>1. row + (2 * length - 1) <= Display!Size - 1 /\ length \in Int
    BY <1>1, <1>3, <1>6, <1>7
  <2> QED BY <1>7, <2>1 DEF Places
<1>9. ASSUME NEW i \in DOMAIN put PROVE i % 2 = 1 <=> put[i] \in Display!Attributes
  <2>1. i \in row .. row + (2 * length - 1) /\ put[i] = IF i % 2 = 0 THEN sbuf'[(i - row) \div 2] ELSE "0x07"
    OBVIOUS
  <2>2. i \in Nat /\ i - row \in Nat /\ i - row < 2 * length
    BY <1>6, <1>7, <2>1
  <2>3. (i - row) \div 2 \in 0 .. size - 1
    <3>1. PICK d \in Nat : d = i - row
      BY <2>2
    <3>2. d < 2 * length
      BY <2>2, <3>1
    <3>3. d \div 2 \in Nat /\ d \div 2 < length
      BY ONLY <1>6, <3>1, <3>2
    <3> QED BY <1>2, <1>6, <3>1, <3>3
  <2>4. i % 2 \in {0, 1}
    BY <2>2
  <2>5. "0x07" \in Display!Attributes
    BY DEF Display!Attributes
  <2> HIDE DEF put
  <2> QED BY <1>5, <2>1, <2>3, <2>4, <2>5
<1> HIDE DEF put
<1>10. Sound(smem')
  <2>1. Sound(smem)
    BY DEF DisplayInv
  <2> QED BY <1>3, <1>8, <1>9, <2>1, WrittenSound
<1>11. Sound(smem)'
  BY <1>10 DEF Sound, Places, Display!Size, Display!Attributes
<1>12. sx' \in -2 .. cols - 1 /\ ~(sx' >= 0)
  BY <1>3, ScreenConstants
<1> QED BY <1>3, <1>5, <1>11, <1>12 DEF DisplayInv, Display!Attributes, Display!Characters

LEMMA DisplayStepKeeps ==
  ASSUME DisplayInv, Display!Next \/ UNCHANGED screenvars
  PROVE  DisplayInv'
<1>1. CASE Display!Type
  BY <1>1, TypeKeeps
<1>2. CASE Display!Feed
  BY <1>2, FeedKeeps
<1>3. CASE \E text \in Messages : Display!Message(text)
  BY <1>3, MessageKeeps
<1>4. CASE \E text \in Texts : Display!Puts(text)
  <2>1. PICK text \in Texts : Display!Puts(text)
    BY <1>4
  <2>2. /\ stext' = text /\ sx' = sorig[1] /\ sy' = sorig[2] /\ text \in Seq(Display!Characters)
        /\ smem' = smem /\ sorig' = sorig /\ sbuf' = sbuf
    BY <2>1, ScreenConstants DEF Display!Puts
  <2>3. sx' \in -2 .. cols - 1 /\ sx' >= 0 /\ sy' \in 0 .. lines - 1
    <3>1. sx' \in 0 .. cols - 1 /\ sy' \in 0 .. lines - 1
      BY <2>2 DEF DisplayInv
    <3> QED BY <3>1, ScreenConstants
  <2> QED BY <2>2, <2>3 DEF DisplayInv, Sound, Places, Display!Size, Display!Attributes, Display!Characters
<1>5. CASE Display!Return
  <2>1. /\ sorig' = <<sx, sy>> /\ sx' = -1 /\ sx >= 0 /\ stext = <<>>
        /\ smem' = smem /\ stext' = stext /\ sbuf' = sbuf
    BY <1>5 DEF Display!Return
  <2>2. sx \in 0 .. cols - 1 /\ sy \in 0 .. lines - 1 /\ -1 \in -2 .. cols - 1 /\ ~(-1 >= 0)
    BY <2>1, ScreenConstants DEF DisplayInv
  <2>3. sorig' \in (0 .. cols - 1) \X (0 .. lines - 1)
    BY <2>1, <2>2
  <2> QED BY <2>1, <2>2, <2>3 DEF DisplayInv, Sound, Places, Display!Size, Display!Attributes, Display!Characters
<1>6. CASE UNCHANGED screenvars
  BY <1>6 DEF screenvars, DisplayInv, Sound, Places, Display!Size, Display!Attributes, Display!Characters
<1> QED BY <1>1, <1>2, <1>3, <1>4, <1>5, <1>6 DEF Display!Next

LEMMA DisplayKept == DisplayInv => Display!Inside
BY DEF DisplayInv, Sound, Places, Display!Inside
-----------------------------------------------------------------------------
(* What is on the screen.  A position has its character at an even place,  *)
(* the rows one after the other.                                           *)
Spot(r, c) == 2 * (cols * r + c)
Rows == 0 .. lines - 1
Columns == 0 .. cols - 1

LEMMA SpotsApart ==
  ASSUME NEW r \in Rows, NEW c \in Columns
  PROVE  /\ Spot(r, c) \in Places /\ Spot(r, c) % 2 = 0
         /\ \A k \in Rows : Spot(r, c) \in Spot(k, 0) .. Spot(k, 0) + 2 * cols - 1 <=> k = r
         /\ Spot(r + 1, c) = Spot(r, c) + 2 * cols /\ Spot(r, c) = Spot(r, 0) + 2 * c
         /\ Spot(lines - 1, 0) = (lines - 1) * cols * 2 /\ Spot(lines - 1, 0) \in Nat /\ Spot(r, 0) \in Nat
<1>1. /\ lines \in Nat /\ cols \in Nat /\ cols > 0 /\ Display!Size \in Nat
      /\ Display!Size = (lines - 1) * cols * 2 + 2 * cols /\ (lines - 1) * cols * 2 \in Nat
  BY ScreenConstants
<1>2. r \in Nat /\ r <= lines - 1 /\ c \in Nat /\ c < cols /\ lines - 1 \in Nat
  BY <1>1 DEF Rows, Columns
<1> DEFINE a == cols * r
           l == cols * (lines - 1)
<1>3. a \in Nat /\ a <= l /\ l \in Nat
  BY <1>1, <1>2, Monotone, Product
<1>4. (lines - 1) * cols * 2 = 2 * l
  BY <1>1, <1>2
<1>5. cols * (r + 1) = a + cols /\ cols * 0 = 0
  BY <1>1, <1>2
<1>6. ASSUME NEW k \in Rows PROVE 2 * a + 2 * c \in 2 * (cols * k) .. 2 * (cols * k) + 2 * cols - 1 <=> k = r
  <2>1. k \in Nat
    BY <1>1, <1>6 DEF Rows
  <2> DEFINE b == cols * k
  <2>2. b \in Nat
    BY <1>1, <2>1, Product
  <2>3. CASE k < r
    <3>1. cols * (k + 1) <= a /\ cols * (k + 1) = b + cols
      BY <1>1, <1>2, <2>1, <2>3, Monotone
    <3> HIDE DEF a, b, l
    <3>2. b + cols <= a
      BY <3>1
    <3>3. 2 * a + 2 * c > 2 * b + 2 * cols - 1
      BY <1>1, <1>2, <1>3, <2>2, <3>2
    <3>4. 2 * a + 2 * c \notin 2 * b .. 2 * b + 2 * cols - 1
      BY <1>1, <1>2, <1>3, <2>2, <3>3
    <3> QED BY <1>2, <2>1, <2>3, <3>4 DEF b
  <2>4. CASE r < k
    <3>1. cols * (r + 1) <= b
      BY <1>1, <1>2, <2>1, <2>4, Monotone
    <3> HIDE DEF a, b, l
    <3>2. a + cols <= b
      BY <1>5, <3>1
    <3>3. 2 * a + 2 * c < 2 * b
      BY <1>1, <1>2, <1>3, <2>2, <3>2
    <3>4. 2 * a + 2 * c \notin 2 * b .. 2 * b + 2 * cols - 1
      BY <1>1, <1>2, <1>3, <2>2, <3>3
    <3> QED BY <1>2, <2>1, <2>4, <3>4 DEF b
  <2>5. CASE k = r
    <3> HIDE DEF a, b, l
    <3>1. 2 * a + 2 * c \in 2 * a .. 2 * a + 2 * cols - 1
      BY <1>1, <1>2, <1>3
    <3> QED BY <2>5, <3>1 DEF a
  <2> QED BY <1>2, <2>1, <2>3, <2>4, <2>5
<1> HIDE DEF a, l
<1>7. /\ Spot(r, c) = 2 * a + 2 * c /\ Spot(r + 1, c) = 2 * (a + cols) + 2 * c /\ Spot(r, 0) = 2 * a
      /\ Spot(lines - 1, 0) = 2 * l
  <2>1. Spot(r, c) = 2 * (a + c) /\ Spot(r + 1, c) = 2 * ((a + cols) + c) /\ Spot(r, 0) = 2 * (a + 0) /\ Spot(lines - 1, 0) = 2 * (l + 0)
    BY <1>5 DEF Spot, a, l
  <2> QED BY <2>1, <1>1, <1>2, <1>3
<1>8. ASSUME NEW k \in Rows PROVE Spot(k, 0) = 2 * (cols * k)
  <2>1. cols * k \in Nat
    <3>1. k \in Nat
      BY <1>1, <1>8 DEF Rows
    <3> QED BY <1>1, <3>1, Product
  <2> QED BY <2>1 DEF Spot
<1>9. Spot(r, c) \in Places /\ Spot(r, c) % 2 = 0
  <2>1. Spot(r, c) \in 0 .. Display!Size - 1
    BY <1>1, <1>2, <1>3, <1>4, <1>7
  <2>2. (2 * a + 2 * c) % 2 = 0
    BY <1>2, <1>3
  <2> QED BY <1>7, <2>1, <2>2 DEF Places
<1>10. Spot(r + 1, c) = Spot(r, c) + 2 * cols /\ Spot(r, c) = Spot(r, 0) + 2 * c
  BY <1>1, <1>2, <1>3, <1>7
<1>11. Spot(lines - 1, 0) = (lines - 1) * cols * 2 /\ Spot(lines - 1, 0) \in Nat /\ Spot(r, 0) \in Nat
  BY <1>3, <1>4, <1>7
<1>12. \A k \in Rows : Spot(r, c) \in Spot(k, 0) .. Spot(k, 0) + 2 * cols - 1 <=> k = r
  BY <1>6, <1>7, <1>8
<1> QED BY <1>9, <1>10, <1>11, <1>12

(* The paper has as many rows as the screen, and the same in them.         *)
Glyphs == Display!Characters \union {".", " ", "[", "]"}
Line == [1 .. cols -> Glyphs]
Paper(rows) == rows \in Seq(Line) /\ Len(rows) = lines
Matches(m, rows) == \A r \in Rows, c \in Columns : m[Spot(r, c)] = rows[r + 1][c + 1]

ShownInv ==
  /\ DisplayInv
  /\ Paper(spaper) /\ Matches(smem, spaper)
  /\ \A i \in {0, 1} \intersect DOMAIN sbuf : sbuf[i] = "["
  /\ sx = -1 => scursor = Display!Bytes(sorig[1] + cols * sorig[2])

LEMMA ShownInit ==
  ASSUME Display!Init
  PROVE  ShownInv
<1>1. /\ smem = [i \in 0 .. Display!Size - 1 |-> IF i % 2 = 0 THEN "." ELSE "attribute"]
      /\ spaper = [r \in 1 .. lines |-> [c \in 1 .. cols |-> "."]]
      /\ scursor = Display!Bytes(sorig[1] + cols * sorig[2])
  BY DEF Display!Init
<1>2. \A i \in {0, 1} \intersect DOMAIN sbuf : sbuf[i] = "["
  <2>1. PICK size \in Buffers : sbuf = [i \in 0 .. size - 1 |-> IF i < 2 THEN "[" ELSE "0"]
    BY DEF Display!Init
  <2> QED BY <2>1
<1>3. lines \in Nat /\ cols \in Nat
  BY ScreenConstants
<1>4. [c \in 1 .. cols |-> "."] \in Line
  BY DEF Line, Glyphs
<1>5. Paper(spaper)
  <2>1. spaper \in [1 .. lines -> Line]
    BY <1>1, <1>4
  <2>2. spaper \in Seq(Line)
    BY <1>3, <2>1, SeqDef
  <2>3. DOMAIN spaper = 1 .. lines
    BY <1>1
  <2>4. Len(spaper) = lines
    BY <1>3, <2>2, <2>3, LenProperties
  <2> QED BY <2>2, <2>4 DEF Paper
<1>6. ASSUME NEW r \in Rows, NEW c \in Columns PROVE smem[Spot(r, c)] = spaper[r + 1][c + 1]
  <2>1. Spot(r, c) \in 0 .. Display!Size - 1 /\ Spot(r, c) % 2 = 0
    BY SpotsApart DEF Places
  <2>2. r + 1 \in 1 .. lines /\ c + 1 \in 1 .. cols
    BY <1>3 DEF Rows, Columns
  <2>3. spaper[r + 1] = [k \in 1 .. cols |-> "."]
    BY <1>1, <2>2
  <2>4. spaper[r + 1][c + 1] = "."
    BY <2>2, <2>3
  <2> QED BY <1>1, <2>1, <2>4
<1> QED BY <1>1, <1>2, <1>5, <1>6, DisplayInitInv DEF ShownInv, Matches

(* One row up: every place below the last row has what was a row behind.   *)
LEMMA ScrollMoves ==
  ASSUME NEW m, Sound(m), NEW r \in Rows, NEW c \in Columns
  PROVE  Display!scroll(m)[Spot(r, c)] = IF r = lines - 1 THEN " " ELSE m[Spot(r + 1, c)]
<1> DEFINE top == (lines - 1) * cols * 2
           copied == Display!memcpy(m, 0, cols * 2, top)
           row == Display!Blank(lines - 1)
           p == Spot(r, c)
<1>1. top \in Nat /\ cols \in Nat /\ cols > 0 /\ lines \in Nat /\ Display!Size = top + 2 * cols /\ Display!Size \in Nat
  BY ScreenConstants
<1>2. m = [i \in Places |-> m[i]]
  BY DEF Sound
<1>3. /\ p \in Places /\ Spot(r + 1, c) = p + 2 * cols /\ p = Spot(r, 0) + 2 * c /\ Spot(r, 0) \in Nat
      /\ Spot(lines - 1, 0) = top
      /\ p \in Spot(lines - 1, 0) .. Spot(lines - 1, 0) + 2 * cols - 1 <=> lines - 1 = r
  <2>1. lines - 1 \in Rows
    BY <1>1, ScreenConstants DEF Rows
  <2> QED BY <2>1, SpotsApart
<1>4. c \in Nat /\ c < cols /\ p \in 0 .. Display!Size - 1
  BY <1>1, <1>3 DEF Columns, Places
<1> HIDE DEF top, p
<1>5. copied = Moved(m, 0, cols * 2, top)
  <2>1. 0 \in Nat /\ cols * 2 \in Nat /\ 0 <= cols * 2 /\ cols * 2 + top <= Display!Size
    BY <1>1
  <2> QED BY <1>1, <1>2, <2>1, CopyMoves
<1>6. Display!scroll(m) = Display!Written(copied, row)
  BY DEF Display!scroll, top
<1>7. /\ DOMAIN row = {top + 2 * j : j \in 0 .. cols - 1} /\ \A i \in DOMAIN row : row[i] = " "
  BY DEF Display!Blank, top
<1>8. DOMAIN copied = Places
  BY <1>5 DEF Moved
<1> HIDE DEF copied, row
<1>9. Display!scroll(m)[p] = IF p \in DOMAIN row THEN " " ELSE copied[p]
  BY <1>3, <1>6, <1>7, <1>8 DEF Display!Written
<1>10. p \in top .. top + 2 * cols - 1 <=> lines - 1 = r
  BY <1>3
<1>11. CASE r = lines - 1
  <2>1. p = top + 2 * c /\ c \in 0 .. cols - 1
    BY <1>1, <1>3, <1>4, <1>11
  <2> QED BY <1>7, <1>9, <1>11, <2>1 DEF p
<1>12. CASE r # lines - 1
  <2>1. p < top
    BY <1>1, <1>4, <1>10, <1>12
  <2>2. p \notin DOMAIN row
    <3>1. \A j \in 0 .. cols - 1 : p # top + 2 * j
      BY <1>1, <1>4, <2>1
    <3> QED BY <1>7, <3>1, Zenon
  <2>3. p \in 0 .. 0 + top - 1 /\ p + (cols * 2 - 0) = p + 2 * cols
    BY <1>1, <1>4, <2>1
  <2>4. copied[p] = m[p + (cols * 2 - 0)]
    BY <1>3, <1>5, <2>3 DEF Moved
  <2> QED BY <1>3, <1>9, <1>12, <2>2, <2>3, <2>4 DEF p
<1> QED BY <1>11, <1>12

LEMMA AdvanceShows ==
  ASSUME NEW m, Sound(m), NEW rows, Paper(rows), Matches(m, rows), NEW row \in Rows
  PROVE  /\ Paper(Display!Advance(rows, row))
         /\ Matches(IF row + 1 >= lines THEN Display!scroll(m) ELSE m, Display!Advance(rows, row))
<1>1. lines \in Nat /\ lines > 0 /\ cols \in Nat /\ rows \in Seq(Line) /\ Len(rows) = lines
  BY ScreenConstants DEF Paper
<1>2. CASE ~(row + 1 >= lines)
  BY <1>2 DEF Display!Advance
<1>3. CASE row + 1 >= lines
  <2> DEFINE blank == [c \in 1 .. cols |-> " "]
             upper == Tail(rows)
             moved == Append(upper, blank)
  <2>1. Display!Advance(rows, row) = moved
    BY <1>3 DEF Display!Advance
  <2>2. blank \in Line
    BY DEF Line, Glyphs
  <2>3. upper \in Seq(Line) /\ Len(upper) = lines - 1 /\ \A i \in 1 .. lines - 1 : upper[i] = rows[i + 1]
    <3>1. rows # <<>>
      BY <1>1
    <3> QED BY <1>1, <3>1, HeadTailProperties
  <2>4. /\ moved \in Seq(Line) /\ Len(moved) = lines
        /\ \A i \in 1 .. lines - 1 : moved[i] = upper[i]
        /\ moved[lines] = blank
    <3> HIDE DEF blank, upper
    <3>1. Len(moved) = Len(upper) + 1 /\ moved \in Seq(Line) /\ moved[Len(upper) + 1] = blank
      BY <2>2, <2>3, AppendProperties
    <3>2. \A i \in 1 .. Len(upper) : moved[i] = upper[i]
      BY <2>2, <2>3, AppendProperties
    <3> QED BY <1>1, <2>3, <3>1, <3>2
  <2>5. ASSUME NEW r \in Rows, NEW c \in Columns
        PROVE  Display!scroll(m)[Spot(r, c)] = moved[r + 1][c + 1]
    <3>1. r \in Nat /\ r <= lines - 1 /\ c + 1 \in 1 .. cols
      BY <1>1 DEF Rows, Columns
    <3> HIDE DEF upper, moved
    <3>2. CASE r = lines - 1
      <4>1. r + 1 = lines
        BY <1>1, <3>2
      <4>2. Display!scroll(m)[Spot(r, c)] = " "
        BY <3>2, ScrollMoves
      <4>3. moved[r + 1] = blank /\ blank[c + 1] = " "
        BY <2>4, <3>1, <4>1
      <4> QED BY <4>2, <4>3
    <3>3. CASE r # lines - 1
      <4> DEFINE k == r + 1
      <4>1. k \in Rows /\ k \in 1 .. lines - 1
        BY <1>1, <3>1, <3>3 DEF Rows
      <4>2. Display!scroll(m)[Spot(r, c)] = m[Spot(k, c)]
        BY <3>3, ScrollMoves
      <4> HIDE DEF k
      <4>3. moved[k] = rows[k + 1]
        BY <2>3, <2>4, <4>1
      <4>4. m[Spot(k, c)] = rows[k + 1][c + 1]
        BY <4>1 DEF Matches
      <4>5. moved[k][c + 1] = m[Spot(k, c)]
        BY <4>3, <4>4
      <4> QED BY <4>2, <4>5 DEF k
    <3> QED BY <3>2, <3>3
  <2>6. Paper(moved)
    BY <2>4, Zenon DEF Paper
  <2>7. Matches(Display!scroll(m), moved)
    <3> HIDE DEF moved
    <3> QED BY <2>5, Zenon DEF Matches
  <2> HIDE DEF moved
  <2> QED BY <1>3, <2>1, <2>6, <2>7
<1> QED BY <1>2, <1>3

LEMMA NewLineShows ==
  ASSUME NEW m, Sound(m), NEW rows, Paper(rows), Matches(m, rows), sy \in Rows,
         Display!NewLine(m), spaper' = Display!Advance(rows, sy)
  PROVE  Paper(spaper') /\ Matches(smem', spaper') /\ sx' = 0
<1>1. sx' = 0 /\ smem' = IF sy + 1 >= lines THEN Display!scroll(m) ELSE m
  BY DEF Display!NewLine
<1> QED BY <1>1, AdvanceShows

(* A character is stored at its position only.                             *)
LEMMA StoreShows ==
  ASSUME NEW m, Sound(m), NEW rows, Paper(rows), Matches(m, rows), NEW y \in Rows, NEW x \in Columns,
         NEW ch \in Glyphs
  PROVE  /\ Paper([rows EXCEPT ![y + 1][x + 1] = ch])
         /\ Matches(Display!Store(m, (x + cols * y) * 2, ch), [rows EXCEPT ![y + 1][x + 1] = ch])
<1> DEFINE place == (x + cols * y) * 2
           new == [rows EXCEPT ![y + 1][x + 1] = ch]
           line == [rows[y + 1] EXCEPT ![x + 1] = ch]
<1>1. /\ lines \in Nat /\ cols \in Nat /\ cols > 0 /\ rows \in Seq(Line) /\ Len(rows) = lines
      /\ DOMAIN rows = 1 .. lines
  BY ScreenConstants, LenProperties DEF Paper
<1>2. y \in Nat /\ x \in Nat /\ y + 1 \in 1 .. lines /\ x + 1 \in 1 .. cols
  BY <1>1 DEF Rows, Columns
<1>3. place = Spot(y, x)
  <2>1. cols * y \in Nat
    BY <1>1, <1>2, Product
  <2> QED BY <1>2, <2>1 DEF Spot
<1> HIDE DEF place
<1>4. \A i \in 1 .. lines : rows[i] \in Line
  BY <1>1, ElementOfSeq
<1>5. line \in Line /\ \A i \in 1 .. cols : line[i] = IF i = x + 1 THEN ch ELSE rows[y + 1][i]
  BY <1>2, <1>4 DEF Line
<1>6. new = [rows EXCEPT ![y + 1] = line]
  OBVIOUS
<1> HIDE DEF new, line
<1>7. Paper(new) /\ \A i \in 1 .. lines : new[i] = IF i = y + 1 THEN line ELSE rows[i]
  <2>1. new \in Seq(Line) /\ Len(new) = Len(rows) /\ \A i \in 1 .. Len(rows) : new[i] = IF i = y + 1 THEN line ELSE rows[i]
    BY <1>1, <1>2, <1>5, <1>6, ExceptSeq
  <2> QED BY <1>1, <2>1 DEF Paper
<1>8. ASSUME NEW r \in Rows, NEW c \in Columns
      PROVE  Display!Store(m, place, ch)[Spot(r, c)] = new[r + 1][c + 1]
  <2>1. r \in Nat /\ c \in Nat /\ r + 1 \in 1 .. lines /\ c + 1 \in 1 .. cols
    BY <1>1 DEF Rows, Columns
  <2>2. Spot(r, c) = Spot(y, x) <=> r = y /\ c = x
    <3>1. Spot(r, c) \in Spot(r, 0) .. Spot(r, 0) + 2 * cols - 1 /\ Spot(y, x) \in Spot(y, 0) .. Spot(y, 0) + 2 * cols - 1
      BY SpotsApart
    <3>2. Spot(r, c) \in Spot(y, 0) .. Spot(y, 0) + 2 * cols - 1 <=> y = r
      BY SpotsApart
    <3>3. Spot(r, c) = Spot(r, 0) + 2 * c /\ Spot(y, x) = Spot(y, 0) + 2 * x /\ Spot(r, 0) \in Nat
      BY SpotsApart
    <3>4. CASE r = y
      <4> DEFINE a == Spot(y, 0)
      <4>1. Spot(r, c) = a + 2 * c /\ Spot(y, x) = a + 2 * x /\ a \in Nat
        BY <3>3, <3>4
      <4> HIDE DEF a
      <4> QED BY <1>2, <2>1, <3>4, <4>1
    <3>5. CASE r # y
      BY <3>1, <3>2, <3>5
    <3> QED BY <3>4, <3>5
  <2>3. DOMAIN m = Places /\ Spot(r, c) \in Places /\ Spot(y, x) \in Places
    BY SpotsApart DEF Sound
  <2>4. Display!Store(m, place, ch)[Spot(r, c)] = IF r = y /\ c = x THEN ch ELSE m[Spot(r, c)]
    BY <1>3, <2>2, <2>3 DEF Display!Store, Display!Written
  <2>5. new[r + 1][c + 1] = IF r = y /\ c = x THEN ch ELSE rows[r + 1][c + 1]
    <3>1. (r + 1 = y + 1 <=> r = y) /\ (c + 1 = x + 1 <=> c = x)
      BY <1>2, <2>1
    <3> QED BY <1>5, <1>7, <2>1, <3>1
  <2>6. m[Spot(r, c)] = rows[r + 1][c + 1]
    BY DEF Matches
  <2> QED BY <2>4, <2>5, <2>6
<1> QED BY <1>7, <1>8 DEF Matches, place, new

LEMMA TypeShows ==
  ASSUME ShownInv, Display!Type
  PROVE  Paper(spaper') /\ Matches(smem', spaper') /\ sx' >= 0 /\ sbuf' = sbuf
<1> DEFINE ch == Head(stext)
           m == Display!Store(smem, (sx + cols * sy) * 2, ch)
           rows == [spaper EXCEPT ![sy + 1][sx + 1] = ch]
<1>1. /\ Sound(smem) /\ Paper(spaper) /\ Matches(smem, spaper)
      /\ stext \in Seq(Display!Characters) /\ stext # <<>>
      /\ sx \in -2 .. cols - 1 /\ sx >= 0 /\ sy \in 0 .. lines - 1
  BY DEF ShownInv, DisplayInv, Display!Type
<1>2. sx \in Columns /\ sy \in Rows
  BY <1>1, ScreenConstants DEF Columns, Rows
<1>3. ch \in Glyphs /\ ch \notin Display!Attributes
  BY <1>1, TextSound DEF Glyphs
<1>4. /\ sbuf' = sbuf
      /\ \/ sx + 1 >= cols /\ Display!NewLine(m) /\ spaper' = Display!Advance(rows, sy)
         \/ ~(sx + 1 >= cols) /\ sx' = sx + 1 /\ smem' = m /\ spaper' = rows
  BY DEF Display!Type
<1> HIDE DEF ch
<1>5. Paper(rows) /\ Matches(m, rows)
  BY <1>1, <1>2, <1>3, StoreShows
<1>6. Sound(m)
  <2>1. (sx + cols * sy) * 2 = Spot(sy, sx)
    <3>1. sx \in Nat /\ sy \in Nat /\ cols \in Nat
      BY <1>1, ScreenConstants
    <3>2. cols * sy \in Nat
      BY <3>1, Product
    <3> QED BY <3>1, <3>2 DEF Spot
  <2>2. Spot(sy, sx) \in Places /\ Spot(sy, sx) % 2 = 0
    BY <1>2, SpotsApart
  <2> QED BY <1>1, <1>3, <2>1, <2>2, StoreSound
<1> HIDE DEF m, rows
<1>7. CASE sx + 1 >= cols /\ Display!NewLine(m) /\ spaper' = Display!Advance(rows, sy)
  BY <1>2, <1>4, <1>5, <1>6, <1>7, NewLineShows
<1>8. CASE ~(sx + 1 >= cols) /\ sx' = sx + 1 /\ smem' = m /\ spaper' = rows
  BY <1>1, <1>4, <1>5, <1>8
<1> QED BY <1>4, <1>7, <1>8

LEMMA FeedShows ==
  ASSUME ShownInv, Display!Feed
  PROVE  Paper(spaper') /\ Matches(smem', spaper') /\ sx' >= 0 /\ sbuf' = sbuf
<1>1. /\ Sound(smem) /\ Paper(spaper) /\ Matches(smem, spaper) /\ sy \in Rows
      /\ Display!NewLine(smem) /\ spaper' = Display!Advance(spaper, sy) /\ sbuf' = sbuf
  BY DEF ShownInv, DisplayInv, Display!Feed, Rows
<1> QED BY <1>1, NewLineShows

(* Two bytes tell of any position on the screen.                           *)
LEMMA CursorTells ==
  ASSUME NEW x \in Columns, NEW y \in Rows
  PROVE  Display!Bytes(x + cols * y)[1] * 2^ByteBits + Display!Bytes(x + cols * y)[2] = x + cols * y
<1> DEFINE k == 2^ByteBits
           pos == x + cols * y
           q == pos \div k
           r == pos % k
           t == cols * y
           u == cols * (k - 1)
           kq == k * q
<1>1. k \in Nat /\ lines < k /\ cols < k
  BY Parameters DEF Display!ScreenOK
<1>2. lines \in Nat /\ cols \in Nat /\ cols > 0
  BY ScreenConstants
<1> HIDE DEF k
<1>3. x \in Nat /\ x < cols /\ y \in Nat /\ y <= k - 1 /\ k - 1 \in Nat /\ k > 0
  BY <1>1, <1>2 DEF Rows, Columns
<1>4. t \in Nat /\ t <= u /\ u \in Nat
  BY <1>2, <1>3, Monotone, Product
<1>5. u + cols = k * cols
  BY <1>1, <1>2
<1>6. pos \in Nat /\ pos < k * cols /\ k * cols \in Nat
  <2> DEFINE v == k * cols
  <2>1. v \in Nat
    BY <1>1, <1>2, Product
  <2> HIDE DEF t, u, v
  <2>2. x + t \in Nat /\ x + t < v
    BY <1>2, <1>3, <1>4, <1>5, <2>1 DEF v
  <2> QED BY <2>1, <2>2 DEF t, v
<1> HIDE DEF pos
<1>7. q \in Nat /\ kq <= pos /\ r \in 0 .. k - 1 /\ pos = kq + r
  BY <1>1, <1>3, <1>6, Divided, Remains
<1> HIDE DEF q, r
<1>8. q < k
  <2>1. CASE q >= cols
    <3> DEFINE v == k * cols
    <3>1. v <= kq
      BY <1>1, <1>2, <1>7, <2>1, Monotone
    <3>2. kq \in Nat
      BY <1>1, <1>7, Product
    <3> HIDE DEF v, kq
    <3>3. pos < v /\ v \in Nat
      BY <1>6 DEF v
    <3> QED BY <1>6, <1>7, <3>1, <3>2, <3>3
  <2> QED BY <1>1, <1>2, <1>7, <2>1
<1>9. q % k = q
  BY <1>1, <1>7, <1>8
<1>10. Display!Bytes(pos) = <<q % k, r>>
  BY DEF Display!Bytes, q, r, k
<1>11. q * k + r = pos
  <2>1. q * k = kq
    BY <1>1, <1>7
  <2> QED BY <1>7, <2>1
<1>12. Display!Bytes(pos)[1] * k + Display!Bytes(pos)[2] = pos
  BY <1>9, <1>10, <1>11
<1> QED BY <1>12 DEF k, pos

(* A message ends at the zero behind its closing brackets, and shows whole.*)
LEMMA MessageShows ==
  ASSUME ShownInv, NEW text \in Messages, Display!Message(text)
  PROVE  /\ Paper(spaper') /\ Matches(smem', spaper')
         /\ \A i \in {0, 1} \intersect DOMAIN sbuf' : sbuf'[i] = "["
<1> DEFINE n == Len(text)
           zeros == {i \in DOMAIN sbuf' : sbuf'[i] = "0"}
           length == Display!Min(zeros)
           row == 2 * RawRow * RawCols
           put == [i \in row .. row + (2 * length - 1) |-> IF i % 2 = 0 THEN sbuf'[(i - row) \div 2] ELSE "0x07"]
           shown == <<"[", "[">> \o text \o <<"]", "]">>
           last == [c \in 1 .. cols |-> IF c <= Len(shown) THEN shown[c] ELSE spaper[RawRow + 1][c]]
<1>1. /\ text \in Seq(Display!Characters) /\ n \in Nat
      /\ \A i \in 1 .. n : text[i] \in Display!Characters /\ text[i] # "0"
  <2>1. text \in Seq(Display!Characters)
    BY ScreenConstants
  <2>2. "0" \notin Range(text)
    BY Parameters DEF Display!ScreenOK, Display!Range, Range
  <2> QED BY <2>1, <2>2, ElementOfSeq, LenProperties DEF Range
<1>2. PICK size \in Buffers : DOMAIN sbuf = 0 .. size - 1 /\ size \in Nat
  BY ScreenConstants DEF ShownInv, DisplayInv
<1>3. /\ n + 4 \in 0 .. size - 1 /\ n + 4 <= cols
      /\ sbuf' = Display!Written(sbuf, Display!Framed(text)) /\ smem' = Display!Written(smem, put)
      /\ spaper' = [spaper EXCEPT ![RawRow + 1] = [c \in 1 .. cols |-> IF c <= Len(shown) THEN shown[c] ELSE @[c]]]
  <2>1. n + 4 <= cols /\ n + 4 < size
    BY <1>2, RawPlaced
  <2>2. n + 4 \in 0 .. size - 1
    BY <1>1, <1>2, <2>1
  <2> QED BY <2>1, <2>2 DEF Display!Message
<1>4. /\ Sound(smem) /\ Paper(spaper) /\ Matches(smem, spaper)
      /\ \A i \in {0, 1} : sbuf[i] = "["
  <2>1. {0, 1} \subseteq 0 .. size - 1
    BY <1>1, <1>2, <1>3
  <2> QED BY <1>2, <2>1 DEF ShownInv, DisplayInv
<1>5. /\ DOMAIN sbuf' = 0 .. size - 1
      /\ \A i \in 0 .. size - 1 : i \in 2 .. n + 4 =>
           sbuf'[i] = IF i < n + 2 THEN text[i - 1] ELSE IF i < n + 4 THEN "]" ELSE "0"
      /\ \A i \in 0 .. 1 : sbuf'[i] = "["
  <2> HIDE DEF n
  <2> DEFINE new == [i \in 2 .. n + 4 |-> IF i < n + 2 THEN text[i - 1] ELSE IF i < n + 4 THEN "]" ELSE "0"]
  <2>1. Display!Framed(text) = new
    BY DEF Display!Framed, n
  <2>2. 2 .. n + 4 \subseteq 0 .. size - 1
    BY <1>1, <1>2, <1>3
  <2>3. sbuf' = [i \in 0 .. size - 1 |-> IF i \in 2 .. n + 4 THEN new[i] ELSE sbuf[i]]
    <3>1. DOMAIN sbuf \union DOMAIN new = 0 .. size - 1
      BY <1>2, <2>2
    <3> QED BY <1>3, <2>1, <3>1 DEF Display!Written
  <2>4. \A i \in 0 .. 1 : i \in {0, 1} /\ i \in 0 .. size - 1 /\ i \notin 2 .. n + 4
    BY <1>1, <1>2, <1>3
  <2>5. \A i \in 0 .. 1 : sbuf'[i] = "["
    <3> HIDE DEF new
    <3> QED BY <1>4, <2>3, <2>4
  <2>6. \A i \in 0 .. size - 1 : i \in 2 .. n + 4 =>
          sbuf'[i] = IF i < n + 2 THEN text[i - 1] ELSE IF i < n + 4 THEN "]" ELSE "0"
    BY <2>3
  <2> QED BY <2>3, <2>5, <2>6
<1>6. length = n + 4
  <2>1. zeros \subseteq Nat /\ n + 4 \in zeros
    <3>1. ~(n + 4 < n + 2) /\ ~(n + 4 < n + 4) /\ n + 4 \in 2 .. n + 4
      BY <1>1
    <3> QED BY <1>2, <1>3, <1>5, <3>1
  <2>2. length \in zeros /\ length <= n + 4
    <3> HIDE DEF zeros
    <3> QED BY <2>1, Least
  <2>3. ASSUME length < n + 4 PROVE FALSE
    <3> DEFINE l == length
    <3>1. l \in 0 .. size - 1 /\ sbuf'[l] = "0"
      BY <2>2, <1>5
    <3> HIDE DEF l
    <3>2. CASE l \in 0 .. 1
      BY <1>5, <3>1, <3>2
    <3>3. CASE l \notin 0 .. 1
      <4>1. l \in 2 .. n + 4 /\ l < n + 4 /\ (l < n + 2 => l - 1 \in 1 .. n)
        BY <1>1, <2>3, <3>1, <3>3 DEF l
      <4>2. sbuf'[l] = IF l < n + 2 THEN text[l - 1] ELSE "]"
        BY <1>5, <3>1, <4>1
      <4> HIDE DEF n
      <4> QED BY <1>1, <3>1, <4>1, <4>2
    <3> QED BY <3>2, <3>3
  <2>4. length \in Nat
    BY <2>1, <2>2
  <2> HIDE DEF length
  <2> QED BY <1>1, <2>2, <2>3, <2>4
<1> HIDE DEF length, zeros
<1>7. /\ Len(shown) = n + 4 /\ \A c \in 0 .. n + 3 : sbuf'[c] = shown[c + 1]
      /\ \A c \in 1 .. n + 4 : shown[c] \in Glyphs
  <2> DEFINE open == <<"[", "[">>
             front == open \o text
             close == <<"]", "]">>
  <2>1. text \in Seq(Glyphs) /\ open \in Seq(Glyphs) /\ close \in Seq(Glyphs) /\ Len(open) = 2 /\ Len(close) = 2
    <3>1. "[" \in Glyphs /\ "]" \in Glyphs /\ Display!Characters \subseteq Glyphs
      BY DEF Glyphs
    <3>2. text \in Seq(Glyphs)
      BY <1>1, <3>1, SeqMonotonic
    <3> QED BY <3>1, <3>2
  <2>2. /\ front \in Seq(Glyphs) /\ Len(front) = 2 + n
        /\ \A i \in 1 .. 2 + n : front[i] = IF i <= 2 THEN open[i] ELSE text[i - 2]
    <3> HIDE DEF open
    <3>1. /\ front \in Seq(Glyphs) /\ Len(front) = Len(open) + n
          /\ \A i \in 1 .. Len(open) + n : front[i] = IF i <= Len(open) THEN open[i] ELSE text[i - Len(open)]
      BY <2>1, ConcatProperties
    <3> HIDE DEF front
    <3> QED BY <2>1, <3>1
  <2>3. /\ shown \in Seq(Glyphs) /\ Len(shown) = (2 + n) + 2
        /\ \A i \in 1 .. (2 + n) + 2 : shown[i] = IF i <= 2 + n THEN front[i] ELSE close[i - (2 + n)]
    <3> HIDE DEF open, front, close, shown
    <3>1. shown = front \o close
      BY Zenon DEF shown, front, open, close
    <3> DEFINE whole == front \o close
    <3>2. /\ whole \in Seq(Glyphs) /\ Len(whole) = Len(front) + Len(close)
          /\ \A i \in 1 .. Len(front) + Len(close) :
               whole[i] = IF i <= Len(front) THEN front[i] ELSE close[i - Len(front)]
      BY <2>1, <2>2, ConcatProperties
    <3> HIDE DEF whole
    <3>3. shown = whole
      BY <3>1 DEF whole
    <3> QED BY <2>1, <2>2, <3>2, <3>3
  <2> HIDE DEF shown, n
  <2>4. (2 + n) + 2 = n + 4
    BY <1>1
  <2>5. \A c \in 1 .. n + 4 : shown[c] \in Glyphs
    BY <2>3, <2>4, ElementOfSeq
  <2>6. ASSUME NEW c \in 0 .. n + 3 PROVE sbuf'[c] = shown[c + 1]
    <3>1. c + 1 \in 1 .. (2 + n) + 2 /\ c \in 0 .. size - 1
      BY <1>1, <1>2, <1>3
    <3>2. CASE c \in 0 .. 1
      <4>1. shown[c + 1] = open[c + 1] /\ c + 1 \in 1 .. 2
        <5>1. c + 1 \in 1 .. 2 /\ c + 1 \in 1 .. 2 + n /\ c + 1 <= 2 /\ c + 1 <= 2 + n
          BY <1>1, <3>2
        <5> HIDE DEF open, front, close
        <5> QED BY <2>2, <2>3, <3>1, <5>1
      <4>2. open[c + 1] = "["
        BY <4>1
      <4> QED BY <1>5, <3>2, <4>1, <4>2
    <3>3. CASE c \in 2 .. n + 1
      <4>1. c < n + 2 /\ c \in 2 .. n + 4 /\ c + 1 \in 1 .. 2 + n /\ ~(c + 1 <= 2) /\ c + 1 <= 2 + n /\ (c + 1) - 2 = c - 1
        BY <1>1, <3>3
      <4> HIDE DEF open, front, close
      <4>2. shown[c + 1] = front[c + 1] /\ front[c + 1] = text[(c + 1) - 2]
        BY <2>2, <2>3, <3>1, <4>1
      <4>3. sbuf'[c] = text[c - 1]
        BY <1>5, <3>1, <4>1
      <4> QED BY <4>1, <4>2, <4>3
    <3>4. CASE c \in n + 2 .. n + 3
      <4>1. c < n + 4 /\ ~(c < n + 2) /\ c \in 2 .. n + 4 /\ ~(c + 1 <= 2 + n) /\ (c + 1) - (2 + n) \in 1 .. 2
        BY <1>1, <3>4
      <4>2. shown[c + 1] = close[(c + 1) - (2 + n)]
        <5> HIDE DEF open, front, close
        <5> QED BY <2>3, <3>1, <4>1
      <4>3. close[(c + 1) - (2 + n)] = "]"
        <5> HIDE DEF open, front
        <5> QED BY <4>1
      <4>4. sbuf'[c] = "]"
        BY <1>5, <3>1, <4>1
      <4> QED BY <4>2, <4>3, <4>4
    <3>5. c \in 0 .. 1 \/ c \in 2 .. n + 1 \/ c \in n + 2 .. n + 3
      BY <1>1
    <3> QED BY <3>2, <3>3, <3>4, <3>5
  <2> QED BY <2>3, <2>4, <2>5, <2>6
<1> HIDE DEF shown, n
<1>8. /\ lines \in Nat /\ lines > 0 /\ cols \in Nat /\ cols > 0 /\ spaper \in Seq(Line) /\ Len(spaper) = lines
      /\ DOMAIN spaper = 1 .. lines /\ RawRow + 1 \in 1 .. lines /\ RawRow \in Rows /\ RawRow \in Nat
  <2>1. lines \in Nat /\ lines > 0 /\ cols \in Nat /\ cols > 0 /\ spaper \in Seq(Line) /\ Len(spaper) = lines
    BY <1>4, ScreenConstants DEF Paper
  <2>2. RawRow \in 0 .. lines - 1
    BY RawPlaced
  <2>3. RawRow + 1 \in 1 .. lines /\ RawRow \in Nat
    BY <2>1, <2>2
  <2> QED BY <2>1, <2>2, <2>3, LenProperties DEF Rows
<1>9. spaper' = [spaper EXCEPT ![RawRow + 1] = last]
  BY <1>3, <1>8
<1>10. last \in Line /\ \A c \in 1 .. cols : last[c] = IF c <= n + 4 THEN shown[c] ELSE spaper[RawRow + 1][c]
  <2>1. spaper[RawRow + 1] \in Line
    BY <1>8, ElementOfSeq
  <2>2. \A c \in 1 .. cols : c <= n + 4 => c \in 1 .. n + 4
    BY <1>1
  <2> QED BY <1>7, <2>1, <2>2 DEF Line
<1> HIDE DEF last
<1>11. Paper(spaper') /\ \A i \in 1 .. lines : spaper'[i] = IF i = RawRow + 1 THEN last ELSE spaper[i]
  <2>1. /\ spaper' \in Seq(Line) /\ Len(spaper') = Len(spaper)
        /\ \A i \in 1 .. Len(spaper) : spaper'[i] = IF i = RawRow + 1 THEN last ELSE spaper[i]
    BY <1>8, <1>9, <1>10, ExceptSeq
  <2> QED BY <1>8, <2>1 DEF Paper
<1>12. row \in Nat /\ row % 2 = 0 /\ row = Spot(RawRow, 0)
  <2>1. cols * RawRow + 0 = cols * RawRow
    BY <1>8
  <2> QED BY <2>1, RawPlaced DEF Spot
<1> HIDE DEF row
<1>13. DOMAIN put = row .. row + (2 * (n + 4) - 1)
  BY <1>6
<1>14. ASSUME NEW r \in Rows, NEW c \in Columns PROVE smem'[Spot(r, c)] = spaper'[r + 1][c + 1]
  <2> DEFINE p == Spot(r, c)
  <2> SUFFICES smem'[p] = spaper'[r + 1][c + 1]
    OBVIOUS
  <2>1. /\ p \in Places /\ p % 2 = 0 /\ (p \in row .. row + 2 * cols - 1 <=> RawRow = r)
        /\ p = Spot(r, 0) + 2 * c /\ Spot(r, 0) \in Nat
    BY <1>8, <1>12, SpotsApart
  <2>2. c \in Nat /\ c < cols /\ r \in Nat /\ r <= lines - 1 /\ c + 1 \in 1 .. cols /\ r + 1 \in 1 .. lines
    BY <1>8 DEF Rows, Columns
  <2>3. smem[p] = spaper[r + 1][c + 1] /\ DOMAIN smem = Places
    BY <1>4 DEF Matches, Sound
  <2> HIDE DEF p
  <2>4. smem'[p] = IF p \in DOMAIN put THEN put[p] ELSE smem[p]
    BY <1>3, <2>1, <2>3 DEF Display!Written
  <2>5. CASE r = RawRow /\ c < n + 4
    <3>1. p = row + 2 * c /\ r + 1 = RawRow + 1 /\ c \in 0 .. n + 3 /\ c + 1 <= n + 4
      BY <1>1, <1>8, <1>12, <2>1, <2>2, <2>5
    <3>2. p \in row .. row + (2 * (n + 4) - 1) /\ (p - row) \div 2 = c
      <4>1. p \in row .. row + (2 * (n + 4) - 1) /\ p - row = 2 * c
        BY <1>1, <1>12, <2>2, <3>1
      <4>2. \A i \in Nat : (2 * i) \div 2 = i
        OBVIOUS
      <4> QED BY <2>2, <4>1, <4>2
    <3>3. put[p] = sbuf'[c]
      BY <1>6, <2>1, <3>2
    <3>4. spaper'[r + 1][c + 1] = shown[c + 1]
      BY <1>10, <1>11, <2>2, <3>1
    <3> QED BY <1>7, <1>13, <2>4, <3>1, <3>2, <3>3, <3>4
  <2>6. CASE r = RawRow /\ ~(c < n + 4)
    <3>1. p = row + 2 * c /\ r + 1 = RawRow + 1 /\ ~(c + 1 <= n + 4)
      BY <1>1, <1>8, <1>12, <2>1, <2>2, <2>6
    <3>2. p \notin row .. row + (2 * (n + 4) - 1)
      BY <1>1, <1>12, <2>2, <2>6, <3>1
    <3>3. spaper'[r + 1][c + 1] = spaper[RawRow + 1][c + 1]
      BY <1>10, <1>11, <2>2, <3>1
    <3> QED BY <1>13, <2>3, <2>4, <3>1, <3>2, <3>3
  <2>7. CASE r # RawRow
    <3>1. p \notin row .. row + (2 * (n + 4) - 1)
      <4>1. 2 * (n + 4) <= 2 * cols
        BY <1>1, <1>3, <1>8 DEF n
      <4>2. p \in Int /\ p \notin row .. row + 2 * cols - 1
        BY <2>1, <2>2, <2>7
      <4> QED BY <1>1, <1>8, <1>12, <4>1, <4>2
    <3>2. r + 1 # RawRow + 1
      BY <1>8, <2>2, <2>7
    <3> QED BY <1>11, <1>13, <2>2, <2>3, <2>4, <3>1, <3>2
  <2> QED BY <2>5, <2>6, <2>7
<1> QED BY <1>5, <1>11, <1>14 DEF Matches

LEMMA ShownStepKeeps ==
  ASSUME ShownInv, Display!Next \/ UNCHANGED screenvars
  PROVE  ShownInv'
<1>1. DisplayInv'
  BY DisplayStepKeeps DEF ShownInv
<1> DEFINE Shown ==
      /\ Paper(spaper') /\ Matches(smem', spaper')
      /\ \A i \in {0, 1} \intersect DOMAIN sbuf' : sbuf'[i] = "["
      /\ sx' = -1 => scursor' = Display!Bytes(sorig'[1] + cols * sorig'[2])
<1>2. SUFFICES Shown
  BY <1>1 DEF ShownInv, Paper, Line, Glyphs, Matches, Rows, Columns, Spot, Display!Characters, Display!Attributes, Display!Bytes
<1>3. Paper(spaper) /\ Matches(smem, spaper) /\ (\A i \in {0, 1} \intersect DOMAIN sbuf : sbuf[i] = "[")
  BY DEF ShownInv
<1>4. CASE Display!Type
  BY <1>3, <1>4, TypeShows
<1>5. CASE Display!Feed
  BY <1>3, <1>5, FeedShows
<1>6. CASE \E text \in Messages : Display!Message(text)
  <2>1. PICK text \in Messages : Display!Message(text)
    BY <1>6
  <2>2. sx = -1 /\ UNCHANGED <<sorig, scursor>>
    BY <2>1 DEF Display!Message, Display!Idle
  <2> QED BY <2>1, <2>2, MessageShows DEF ShownInv
<1>7. CASE \E text \in Texts : Display!Puts(text)
  <2>1. PICK text \in Texts : Display!Puts(text)
    BY <1>7
  <2>2. UNCHANGED <<smem, spaper, sbuf>> /\ sx' = sorig[1]
    BY <2>1 DEF Display!Puts
  <2>3. sx' # -1
    <3>1. sorig[1] \in 0 .. cols - 1
      BY DEF ShownInv, DisplayInv
    <3> QED BY <2>2, <3>1, ScreenConstants
  <2> QED BY <1>3, <2>2, <2>3
<1>8. CASE Display!Return
  <2>1. UNCHANGED <<smem, spaper, sbuf>> /\ sorig' = <<sx, sy>> /\ scursor' = Display!Bytes(sx + cols * sy)
    BY <1>8 DEF Display!Return
  <2>2. sorig'[1] = sx /\ sorig'[2] = sy
    BY <2>1
  <2> QED BY <1>3, <2>1, <2>2
<1>9. CASE UNCHANGED screenvars
  <2>1. UNCHANGED <<smem, spaper, sbuf, sx, sorig, scursor>>
    BY <1>9 DEF screenvars
  <2> QED BY <1>3, <2>1 DEF ShownInv
<1> QED BY <1>4, <1>5, <1>6, <1>7, <1>8, <1>9 DEF Display!Next

LEMMA ShownKept ==
  ASSUME ShownInv
  PROVE  Display!Inside /\ Display!ShowsText
<1>1. Display!Inside
  BY DisplayKept DEF ShownInv
<1>2. \A r \in 0 .. lines - 1, c \in 0 .. cols - 1 : smem[2 * (cols * r + c)] = spaper[r + 1][c + 1]
  BY DEF ShownInv, Matches, Spot, Rows, Columns
<1>3. ASSUME Display!Idle PROVE scursor[1] * 2^ByteBits + scursor[2] = sorig[1] + cols * sorig[2]
  <2>1. sx = -1 /\ scursor = Display!Bytes(sorig[1] + cols * sorig[2])
    BY <1>3 DEF Display!Idle, ShownInv
  <2>2. sorig[1] \in Columns /\ sorig[2] \in Rows
    BY DEF ShownInv, DisplayInv, Rows, Columns
  <2> QED BY <2>1, <2>2, CursorTells
<1> QED BY <1>1, <1>2, <1>3 DEF Display!ShowsText
-----------------------------------------------------------------------------
(* vsprintf().  Digits, as skip_atoi() knows them.                         *)
Figures == {"0", "1", "2", "3", "4", "5", "6", "7", "8", "9"}

LEMMA FormatConstants ==
  /\ Arguments \subseteq Seq(Int) /\ PointerWidth \in Nat
  /\ \A f \in Formats : f \in Seq(Format!Range(f)) /\ Len(f) \in Nat /\ DOMAIN f = 1 .. Len(f)
  /\ \A f \in Formats, a \in Arguments : Format!Asked(f)[Len(f)].taken <= Len(a)
<1>1. Format!ArgumentsOK
  BY Parameters
<1>2. \A f \in Formats : f \in Seq(Format!Range(f))
  BY <1>1 DEF Format!ArgumentsOK
<1>3. \A f \in Formats : Len(f) \in Nat /\ DOMAIN f = 1 .. Len(f)
  BY <1>2, LenProperties
<1> QED BY <1>1, <1>2, <1>3 DEF Format!ArgumentsOK

(* A width is none, or a number, or the most negative one.                 *)
WidthOK(w) == w >= -1 \/ w = Format!Least

LEMMA Limits ==
  /\ 2^LongLongBits \in Nat /\ 2^LongLongBits > 0
  /\ 2^IntBits \in Nat /\ 2^IntBits > 0 /\ 2^ShortBits \in Nat /\ 2^ShortBits > 0
BY Parameters DEF Format!ArgumentsOK

LEMMA LeastIs == Format!Least \in Int /\ Format!Least < -1
<1> DEFINE H == 2^(IntBits - 1)
<1>1. H \in Nat /\ H > 1
  BY Parameters DEF Format!ArgumentsOK
<1>2. Format!Least = -H
  BY Zenon DEF Format!Least
<1> HIDE DEF H
<1> QED BY <1>1, <1>2

LEMMA NoWidth == WidthOK(-1) /\ \A w \in Nat : WidthOK(w)
<1>1. -1 >= -1 /\ \A w \in Nat : w >= -1
  OBVIOUS
<1> QED BY <1>1, Zenon DEF WidthOK

Wrapped(n, L, H) == IF n % L >= H THEN (n % L) - L ELSE n % L

LEMMA Wraps ==
  \A L, H, n \in Int : H > 1 /\ L = 2 * H =>
    /\ Wrapped(n, L, H) \in Int
    /\ Wrapped(n, L, H) < 0 => Wrapped(-Wrapped(n, L, H), L, H) \in {-Wrapped(n, L, H), -H}
<1> TAKE L, H, n \in Int
<1> HAVE H > 1 /\ L = 2 * H
<1> DEFINE k == Wrapped(n, L, H)
<1>1. n % L \in 0 .. L - 1
  OBVIOUS
<1>2. k \in -H .. H - 1
  BY <1>1 DEF Wrapped
<1> HIDE DEF k
<1>3. ASSUME k < 0 PROVE (-k) % L = -k
  BY <1>2, <1>3
<1>4. ASSUME k < 0 PROVE Wrapped(-k, L, H) \in {-k, -H}
  BY <1>2, <1>3, <1>4 DEF Wrapped
<1> QED BY <1>2, <1>4 DEF k

(* A negative width, turned round.                                         *)
LEMMA WidthTurned ==
  ASSUME NEW n \in Int
  PROVE  LET k == Format!As(n, IntBits, TRUE) IN
         k \in Int /\ (k < 0 => Format!As(-k, IntBits, TRUE) \in Int /\ WidthOK(Format!As(-k, IntBits, TRUE)))
<1> DEFINE L == 2^IntBits
           H == 2^(IntBits - 1)
           k == Format!As(n, IntBits, TRUE)
           l == Format!As(-k, IntBits, TRUE)
<1>1. H \in Int /\ L \in Int /\ H > 1 /\ L = 2 * H
  BY Parameters DEF Format!ArgumentsOK
<1>2. k = Wrapped(n, L, H) /\ l = Wrapped(-k, L, H)
  BY Zenon DEF Format!As, Wrapped
<1>3. Format!Least = -H
  BY Zenon DEF Format!Least
<1> HIDE DEF L, H, k, l
<1>4. k \in Int /\ (k < 0 => l \in {-k, -H})
  BY <1>1, <1>2, Wraps
<1>5. ASSUME k < 0 PROVE l \in Int /\ (l >= -1 \/ l = -H)
  BY <1>1, <1>4, <1>5
<1> QED BY <1>3, <1>4, <1>5 DEF WidthOK, k, l

LEMMA DigitTables ==
  /\ Format!Decimal = <<"0", "1", "2", "3", "4", "5", "6", "7", "8", "9">>
  /\ Format!Lower = <<"0", "1", "2", "3", "4", "5", "6", "7", "8", "9", "a", "b", "c", "d", "e", "f">>
  /\ Format!Upper = <<"0", "1", "2", "3", "4", "5", "6", "7", "8", "9", "A", "B", "C", "D", "E", "F">>
BY DEF Format!Decimal, Format!Lower, Format!Upper

LEMMA Decimals ==
  ASSUME NEW c
  PROVE  Format!In(c, Format!Decimal) <=> c \in Figures
<1> DEFINE t == Format!Decimal
<1>1. DOMAIN t = 1 .. 10 /\ t[1] = "0" /\ t[2] = "1" /\ t[3] = "2" /\ t[4] = "3" /\ t[5] = "4"
      /\ t[6] = "5" /\ t[7] = "6" /\ t[8] = "7" /\ t[9] = "8" /\ t[10] = "9"
  BY DigitTables
<1> HIDE DEF t
<1>2. \A d \in 1 .. 10 : d \in {1, 2, 3, 4, 5, 6, 7, 8, 9, 10}
  OBVIOUS
<1>3. (\E d \in DOMAIN t : t[d] = c) <=> c \in Figures
  BY <1>1, <1>2 DEF Figures
<1> QED BY <1>3 DEF Format!In, t

LEMMA Values ==
  ASSUME NEW c, Format!isxdigit(c)
  PROVE  /\ Format!Value(c) \in 0 .. 15
         /\ Format!Value(c) < 10 <=> c \in Figures
<1> DEFINE l == Format!Lower
           u == Format!Upper
<1>1. DOMAIN l = 1 .. 16 /\ l[1] = "0" /\ l[2] = "1" /\ l[3] = "2" /\ l[4] = "3" /\ l[5] = "4"
      /\ l[6] = "5" /\ l[7] = "6" /\ l[8] = "7" /\ l[9] = "8" /\ l[10] = "9"
      /\ l[11] = "a" /\ l[12] = "b" /\ l[13] = "c" /\ l[14] = "d" /\ l[15] = "e" /\ l[16] = "f"
  BY DigitTables
<1>2. DOMAIN u = 1 .. 16 /\ u[1] = "0" /\ u[2] = "1" /\ u[3] = "2" /\ u[4] = "3" /\ u[5] = "4"
      /\ u[6] = "5" /\ u[7] = "6" /\ u[8] = "7" /\ u[9] = "8" /\ u[10] = "9"
      /\ u[11] = "A" /\ u[12] = "B" /\ u[13] = "C" /\ u[14] = "D" /\ u[15] = "E" /\ u[16] = "F"
  BY DigitTables
<1> HIDE DEF l, u
<1>3. \E d \in 1 .. 16 : l[d] = c \/ u[d] = c
  BY <1>1, <1>2 DEF Format!isxdigit, Format!In, l, u
<1> DEFINE d == CHOOSE d \in 1 .. 16 : l[d] = c \/ u[d] = c
<1>4. d \in 1 .. 16 /\ (l[d] = c \/ u[d] = c)
  BY <1>3, Zenon
<1>5. Format!Value(c) = d - 1
  BY DEF Format!Value, l, u
<1> HIDE DEF d
<1>6. d \in {1, 2, 3, 4, 5, 6, 7, 8, 9, 10} => c \in Figures
  BY <1>1, <1>2, <1>4 DEF Figures
<1>7. d \in {11, 12, 13, 14, 15, 16} => c \notin Figures
  BY <1>1, <1>2, <1>4 DEF Figures
<1>8. /\ d \in {1, 2, 3, 4, 5, 6, 7, 8, 9, 10} \/ d \in {11, 12, 13, 14, 15, 16}
      /\ d \in {1, 2, 3, 4, 5, 6, 7, 8, 9, 10} <=> d - 1 < 10
      /\ d - 1 \in 0 .. 15
  BY <1>4
<1> QED BY <1>5, <1>6, <1>7, <1>8

LEMMA FiguresAreDigits ==
  ASSUME NEW c, c \in Figures
  PROVE  Format!isxdigit(c) /\ Format!Value(c) < 10
<1>1. Format!isxdigit(c)
  <2> DEFINE l == Format!Lower
  <2>1. DOMAIN l = 1 .. 16 /\ l[1] = "0" /\ l[2] = "1" /\ l[3] = "2" /\ l[4] = "3" /\ l[5] = "4"
        /\ l[6] = "5" /\ l[7] = "6" /\ l[8] = "7" /\ l[9] = "8" /\ l[10] = "9"
    BY DigitTables
  <2> HIDE DEF l
  <2>2. {1, 2, 3, 4, 5, 6, 7, 8, 9, 10} \subseteq 1 .. 16
    OBVIOUS
  <2>3. \E d \in DOMAIN l : l[d] = c
    BY <2>1, <2>2 DEF Figures
  <2> QED BY <2>3 DEF Format!isxdigit, Format!In, l
<1> QED BY <1>1, Values

(* Digits() goes over the string, and stops at the first character that is *)
(* no digit.                                                               *)
DigitAt(s, k, base) == Format!isxdigit(Format!At(s, k)) /\ Format!Value(Format!At(s, k)) < base
Reading == [value : Nat, end : Nat]
Follows(f, s, i, base, limit) ==
  /\ f[0] = [value |-> 0, end |-> i]
  /\ \A j \in Nat : f[j] \in Reading /\
       f[j + 1] = IF DigitAt(s, i + j, base) /\ f[j].end = i + j
                    THEN [value |-> (f[j].value * base + Format!Value(Format!At(s, i + j))) % limit, end |-> i + (j + 1)]
                    ELSE f[j]

LEMMA DigitsSteps ==
  ASSUME NEW s, NEW i \in Nat, NEW base \in Nat, NEW limit \in Nat, limit > 0
  PROVE  \E f : Follows(f, s, i, base, limit) /\ Format!Digits(s, i, base, limit) = f[Len(s)]
<1> DEFINE one(j, r) == IF DigitAt(s, i + j, base) /\ r.end = i + j
                          THEN [value |-> (r.value * base + Format!Value(Format!At(s, i + j))) % limit, end |-> i + (j + 1)]
                          ELSE r
           g == [p \in Nat \X Reading |-> one(p[1], p[2])]
           f == CHOOSE f : f = [j \in Nat |->
                  IF j = 0 THEN [value |-> 0, end |-> i]
                  ELSE LET before == f[j - 1]
                           c == Format!At(s, i + (j - 1))
                       IN IF Format!isxdigit(c) /\ Format!Value(c) < base /\ before.end = i + (j - 1)
                            THEN [value |-> (before.value * base + Format!Value(c)) % limit, end |-> i + j]
                            ELSE before]
<1>1. ASSUME NEW j \in Nat, NEW r \in Reading PROVE one(j, r) \in Reading
  <2>1. CASE DigitAt(s, i + j, base) /\ r.end = i + j
    <3> DEFINE v == Format!Value(Format!At(s, i + j))
               w == r.value
    <3>1. v \in Nat /\ w \in Nat
      BY <2>1, Values DEF DigitAt, Reading
    <3> HIDE DEF v, w
    <3>2. w * base \in Nat
      BY <3>1, Product
    <3>3. (w * base + v) % limit \in Nat /\ i + (j + 1) \in Nat
      BY <3>1, <3>2
    <3>4. one(j, r) = [value |-> (w * base + v) % limit, end |-> i + (j + 1)]
      BY <2>1 DEF v, w
    <3> QED BY <3>3, <3>4 DEF Reading
  <2>2. CASE ~(DigitAt(s, i + j, base) /\ r.end = i + j)
    <3>1. one(j, r) = r
      BY <2>2
    <3> HIDE DEF one
    <3> QED BY <3>1
  <2> QED BY <2>1, <2>2
<1> HIDE DEF one
<1>2. [value |-> 0, end |-> i] \in Reading
  BY DEF Reading
<1>3. g \in [Nat \X Reading -> Reading]
  <2>1. ASSUME NEW p \in Nat \X Reading PROVE one(p[1], p[2]) \in Reading
    <3>1. p[1] \in Nat /\ p[2] \in Reading
      OBVIOUS
    <3> QED BY <1>1, <3>1
  <2> QED BY <2>1
<1>4. PICK F : F \in [Nat -> Reading] /\ F[0] = [value |-> 0, end |-> i] /\ \A j \in Nat : F[j + 1] = g[<<j, F[j]>>]
  <2> HIDE DEF g
  <2>1. PICK F : Orbit(F, Reading, g, [value |-> 0, end |-> i])
    BY <1>2, <1>3, Iteration DEF Within
  <2> QED BY <2>1 DEF Orbit
<1>5. ASSUME NEW j \in Nat PROVE F[j + 1] = one(j, F[j]) /\ F[j] \in Reading
  <2>1. F[j + 1] = g[<<j, F[j]>>] /\ F[j] \in Reading
    BY <1>4
  <2> QED BY <2>1
<1> HIDE DEF g
<1>6. F = [j \in Nat |->
            IF j = 0 THEN [value |-> 0, end |-> i]
            ELSE LET before == F[j - 1]
                     c == Format!At(s, i + (j - 1))
                 IN IF Format!isxdigit(c) /\ Format!Value(c) < base /\ before.end = i + (j - 1)
                      THEN [value |-> (before.value * base + Format!Value(c)) % limit, end |-> i + j]
                      ELSE before]
  <2>1. ASSUME NEW j \in Nat
        PROVE  F[j] = IF j = 0 THEN [value |-> 0, end |-> i]
            ELSE LET before == F[j - 1]
                     c == Format!At(s, i + (j - 1))
                 IN IF Format!isxdigit(c) /\ Format!Value(c) < base /\ before.end = i + (j - 1)
                      THEN [value |-> (before.value * base + Format!Value(c)) % limit, end |-> i + j]
                      ELSE before
    <3>1. CASE j = 0
      BY <1>4, <3>1
    <3>2. CASE j # 0
      <4>1. PICK k \in Nat : k = j - 1
        BY <3>2
      <4>2. j = k + 1 /\ j - 1 = k
        BY <4>1
      <4>3. F[k + 1] = LET before == F[k]
                           c == Format!At(s, i + k)
                       IN IF Format!isxdigit(c) /\ Format!Value(c) < base /\ before.end = i + k
                            THEN [value |-> (before.value * base + Format!Value(c)) % limit, end |-> i + (k + 1)]
                            ELSE before
        BY <1>5, Zenon DEF one, DigitAt
      <4> QED BY <3>2, <4>2, <4>3
    <3> QED BY <3>1, <3>2
  <2>2. F = [j \in Nat |-> F[j]]
    BY <1>4
  <2> QED BY <2>1, <2>2
<1>7. f = [j \in Nat |->
            IF j = 0 THEN [value |-> 0, end |-> i]
            ELSE LET before == f[j - 1]
                     c == Format!At(s, i + (j - 1))
                 IN IF Format!isxdigit(c) /\ Format!Value(c) < base /\ before.end = i + (j - 1)
                      THEN [value |-> (before.value * base + Format!Value(c)) % limit, end |-> i + j]
                      ELSE before]
  BY <1>6, Zenon
<1>8. Format!Digits(s, i, base, limit) = f[Len(s)]
  BY Zenon DEF Format!Digits
<1> HIDE DEF f
<1>9. f[0] = [value |-> 0, end |-> i]
  BY <1>7
<1>10. ASSUME NEW j \in Nat PROVE f[j + 1] = one(j, f[j])
  <2>1. j + 1 \in Nat /\ j + 1 # 0 /\ (j + 1) - 1 = j
    OBVIOUS
  <2>2. f[j + 1] = LET before == f[(j + 1) - 1]
                       c == Format!At(s, i + ((j + 1) - 1))
                   IN IF Format!isxdigit(c) /\ Format!Value(c) < base /\ before.end = i + ((j + 1) - 1)
                        THEN [value |-> (before.value * base + Format!Value(c)) % limit, end |-> i + (j + 1)]
                        ELSE before
    BY <1>7, <2>1
  <2> QED BY <2>1, <2>2, Zenon DEF one, DigitAt
<1> DEFINE T == {j \in Nat : f[j] \in Reading}
<1>11. \A j \in Nat : j \in T
  <2>1. 0 \in T
    BY <1>2, <1>9
  <2>2. ASSUME NEW j \in Nat, j \in T PROVE j + 1 \in T
    BY <1>1, <1>10, <2>2
  <2> HIDE DEF T
  <2> QED BY <2>1, <2>2, NatInduct
<1>12. \A j \in Nat : f[j] \in Reading
  BY <1>11
<1>13. Follows(f, s, i, base, limit)
  BY <1>9, <1>10, <1>12, Zenon DEF Follows, one
<1> QED BY <1>8, <1>13


(* The number at s[i] goes as far as there are digits.                     *)
Run(s, i, r) ==
  /\ r.value \in Nat /\ r.end \in Nat /\ r.end >= i
  /\ \A k \in i .. r.end - 1 : Format!At(s, k) \in Figures
  /\ Format!At(s, r.end) \notin Figures

LEMMA DigitsRun ==
  ASSUME NEW s, NEW i \in Nat, NEW limit \in Nat, limit > 0, Len(s) \in Nat, i > 0, DOMAIN s = 1 .. Len(s)
  PROVE  Run(s, i, Format!Digits(s, i, 10, limit))
<1> DEFINE Digit(k) == DigitAt(s, k, 10)
           one(j, r) == IF Digit(i + j) /\ r.end = i + j
                          THEN [value |-> (r.value * 10 + Format!Value(Format!At(s, i + j))) % limit, end |-> i + (j + 1)]
                          ELSE r
<1>1. \A k : Digit(k) <=> Format!At(s, k) \in Figures
  BY Values, FiguresAreDigits DEF DigitAt
<1>2. PICK f : Follows(f, s, i, 10, limit) /\ Format!Digits(s, i, 10, limit) = f[Len(s)]
  <2>1. 10 \in Nat
    OBVIOUS
  <2> QED BY <2>1, DigitsSteps, Zenon
<1>3. /\ f[0] = [value |-> 0, end |-> i]
      /\ \A j \in Nat : f[j] \in Reading /\ f[j + 1] = one(j, f[j])
  BY <1>2, Zenon DEF Follows
<1> DEFINE Far(j) == /\ f[j] \in Reading /\ f[j].end >= i /\ f[j].end <= i + j
                     /\ \A k \in i .. f[j].end - 1 : Format!At(s, k) \in Figures
                     /\ f[j].end = i + j \/ Format!At(s, f[j].end) \notin Figures
           T == {j \in Nat : Far(j)}
<1>4. 0 \in T
  <2>1. f[0].end = i /\ f[0] \in Reading
    <3>1. 0 \in Nat /\ f[0] = [value |-> 0, end |-> i]
      BY <1>3
    <3>2. f[0] \in Reading
      BY <3>1 DEF Reading
    <3> QED BY <3>1, <3>2
  <2>2. \A k \in i .. i - 1 : FALSE
    OBVIOUS
  <2>3. i >= i /\ i <= i + 0 /\ i = i + 0
    OBVIOUS
  <2> QED BY <2>1, <2>2, <2>3
<1>5. ASSUME NEW j \in Nat, j \in T PROVE j + 1 \in T
  <2>1. Far(j)
    BY <1>5
  <2>2. f[j + 1] = one(j, f[j]) /\ f[j + 1] \in Reading
    <3>1. j + 1 \in Nat
      OBVIOUS
    <3> QED BY <1>3, <3>1
  <2> DEFINE e == f[j].end
  <2>3. e \in Nat /\ e >= i /\ e <= i + j /\ (\A k \in i .. e - 1 : Format!At(s, k) \in Figures)
        /\ (e = i + j \/ Format!At(s, e) \notin Figures)
    BY <2>1 DEF Reading
  <2>4. CASE Digit(i + j) /\ e = i + j
    <3>1. f[j + 1].end = i + (j + 1)
      BY <2>2, <2>4 DEF one
    <3>2. Format!At(s, i + j) \in Figures
      BY <1>1, <2>4, Zenon
    <3> HIDE DEF Digit, e
    <3>3. ASSUME NEW k \in i .. (i + (j + 1)) - 1 PROVE Format!At(s, k) \in Figures
      <4>1. k \in i .. e - 1 \/ k = i + j
        BY <2>3, <2>4, <3>3
      <4> QED BY <2>3, <3>2, <4>1
    <3>4. i + (j + 1) >= i /\ i + (j + 1) <= i + (j + 1)
      OBVIOUS
    <3> QED BY <2>2, <3>1, <3>3, <3>4
  <2>5. CASE ~(Digit(i + j) /\ e = i + j)
    <3>1. f[j + 1] = f[j]
      BY <2>2, <2>5, Zenon DEF one
    <3>2. Format!At(s, e) \notin Figures
      BY <1>1, <2>3, <2>5, Zenon
    <3>3. f[j + 1].end = e
      BY <3>1
    <3> HIDE DEF Digit, e
    <3>4. e <= i + (j + 1)
      BY <2>3
    <3> QED BY <2>2, <2>3, <3>2, <3>3, <3>4
  <2> QED BY <2>4, <2>5
<1>6. Far(Len(s))
  <2>1. \A j \in Nat : j \in T
    <3> HIDE DEF T
    <3> QED BY <1>4, <1>5, NatInduct
  <2> QED BY <2>1
<1> DEFINE e == f[Len(s)].end
<1>7. e \in Nat /\ f[Len(s)].value \in Nat /\ e >= i
  BY <1>6 DEF Reading
<1>8. Format!At(s, e) \notin Figures
  <2>1. e = i + Len(s) => e \notin DOMAIN s
    BY <1>7
  <2>2. e \notin DOMAIN s => Format!At(s, e) = "NUL"
    BY DEF Format!At
  <2>3. "NUL" \notin Figures
    BY DEF Figures
  <2>4. e = i + Len(s) \/ Format!At(s, e) \notin Figures
    BY <1>6
  <2> HIDE DEF e
  <2> QED BY <2>1, <2>2, <2>3, <2>4
<1>9. \A k \in i .. e - 1 : Format!At(s, k) \in Figures
  BY <1>6
<1> QED BY <1>2, <1>7, <1>8, <1>9 DEF Run

(* What is asked for up to a place follows from what is asked for before.  *)
Stages == {"text", "flags", "width", "width taken", "dot", "precision", "precision taken", "qualified"}
Count(stage, c) == IF Format!Takes(stage, c) THEN 1 ELSE 0

Scanned(f, a) ==
  /\ a[0].stage = "text" /\ a[0].taken = 0
  /\ \A j \in 0 .. Len(f) : a[j].stage \in Stages /\ a[j].taken \in Nat
  /\ \A j \in 0 .. Len(f) - 1 : a[j + 1].stage = Format!After(a[j].stage, f[j + 1])
                               /\ a[j + 1].taken = a[j].taken + Count(a[j].stage, f[j + 1])
  /\ \A j \in 0 .. Len(f) : a[j].taken <= a[Len(f)].taken

LEMMA AfterStages ==
  ASSUME NEW stage, NEW c
  PROVE  Format!After(stage, c) \in Stages
BY DEF Format!After, Stages

LEMMA AskedScans ==
  ASSUME NEW s \in Formats
  PROVE  Scanned(s, Format!Asked(s))
<1> DEFINE n == Len(s)
           V == [stage : Stages, taken : Nat]
           first == [stage |-> "text", taken |-> 0]
           one(j, r) == [stage |-> Format!After(r.stage, s[j + 1]), taken |-> r.taken + Count(r.stage, s[j + 1])]
           g == [p \in Nat \X V |-> one(p[1], p[2])]
           a == CHOOSE a : a = [j \in 0 .. Len(s) |->
                  IF j = 0 THEN [stage |-> "text", taken |-> 0]
                  ELSE LET before == a[j - 1]
                       IN [stage |-> Format!After(before.stage, s[j]),
                           taken |-> before.taken + (IF Format!Takes(before.stage, s[j]) THEN 1 ELSE 0)]]
<1>1. n \in Nat
  BY FormatConstants
<1>2. ASSUME NEW j \in Nat, NEW r \in V PROVE one(j, r) \in V
  <2>1. Count(r.stage, s[j + 1]) \in Nat /\ r.taken \in Nat
    BY DEF Count
  <2>2. r.taken + Count(r.stage, s[j + 1]) \in Nat
    BY <2>1
  <2> QED BY <2>2, AfterStages
<1>3. first \in V
  BY DEF Stages
<1> HIDE DEF one, n
<1>4. g \in [Nat \X V -> V]
  <2>1. ASSUME NEW p \in Nat \X V PROVE one(p[1], p[2]) \in V
    <3>1. p[1] \in Nat /\ p[2] \in V
      OBVIOUS
    <3> HIDE DEF V
    <3> QED BY <1>2, <3>1
  <2> HIDE DEF V
  <2> QED BY <2>1
<1>5. PICK F : F \in [Nat -> V] /\ F[0] = first /\ \A j \in Nat : F[j + 1] = g[<<j, F[j]>>]
  <2> HIDE DEF g, V, first
  <2>1. Within(g, V)
    BY <1>4 DEF Within
  <2>2. PICK F : Orbit(F, V, g, first)
    BY <1>3, <2>1, Iteration
  <2> QED BY <2>2 DEF Orbit
<1>6. ASSUME NEW j \in Nat PROVE F[j + 1] = one(j, F[j]) /\ F[j] \in V
  <2>1. F[j + 1] = g[<<j, F[j]>>] /\ F[j] \in V
    <3> HIDE DEF V, g
    <3> QED BY <1>5
  <2> HIDE DEF V
  <2> QED BY <2>1
<1> HIDE DEF g
<1>7. \E e : e = [j \in 0 .. Len(s) |->
            IF j = 0 THEN [stage |-> "text", taken |-> 0]
            ELSE LET before == e[j - 1]
                 IN [stage |-> Format!After(before.stage, s[j]),
                     taken |-> before.taken + (IF Format!Takes(before.stage, s[j]) THEN 1 ELSE 0)]]
  <2> DEFINE e == [j \in 0 .. Len(s) |-> F[j]]
  <2>1. ASSUME NEW j \in 0 .. Len(s)
        PROVE  F[j] = IF j = 0 THEN [stage |-> "text", taken |-> 0]
                      ELSE LET before == e[j - 1]
                           IN [stage |-> Format!After(before.stage, s[j]),
                               taken |-> before.taken + (IF Format!Takes(before.stage, s[j]) THEN 1 ELSE 0)]
    <3>1. CASE j = 0
      BY <1>5, <3>1 DEF first
    <3>2. CASE j # 0
      <4>1. j - 1 \in Nat /\ (j - 1) + 1 = j /\ j - 1 \in 0 .. Len(s)
        BY <1>1, <3>2 DEF n
      <4>2. F[(j - 1) + 1] = one(j - 1, F[j - 1])
        BY <1>6, <4>1
      <4>3. e[j - 1] = F[j - 1]
        BY <4>1
      <4> HIDE DEF e, V
      <4>4. F[j] = [stage |-> Format!After(F[j - 1].stage, s[j]), taken |-> F[j - 1].taken + Count(F[j - 1].stage, s[j])]
        BY <4>1, <4>2, Zenon DEF one
      <4> QED BY <3>2, <4>3, <4>4, Zenon DEF Count
    <3> QED BY <3>1, <3>2
  <2>2. e = [j \in 0 .. Len(s) |->
              IF j = 0 THEN [stage |-> "text", taken |-> 0]
              ELSE LET before == e[j - 1]
                   IN [stage |-> Format!After(before.stage, s[j]),
                       taken |-> before.taken + (IF Format!Takes(before.stage, s[j]) THEN 1 ELSE 0)]]
    BY <2>1
  <2> HIDE DEF e
  <2> QED BY <2>2
<1>8. a = [j \in 0 .. Len(s) |->
            IF j = 0 THEN [stage |-> "text", taken |-> 0]
            ELSE LET before == a[j - 1]
                 IN [stage |-> Format!After(before.stage, s[j]),
                     taken |-> before.taken + (IF Format!Takes(before.stage, s[j]) THEN 1 ELSE 0)]]
  BY <1>7, Zenon
<1>9. Format!Asked(s) = a
  BY Zenon DEF Format!Asked
<1> HIDE DEF a
<1>10. a[0] = first
  BY <1>1, <1>8 DEF n
<1>11. ASSUME NEW j \in 0 .. n - 1 PROVE a[j + 1] = one(j, a[j])
  <2>1. j + 1 \in 0 .. Len(s) /\ j + 1 # 0 /\ (j + 1) - 1 = j
    BY <1>1 DEF n
  <2>2. a[j + 1] = LET before == a[(j + 1) - 1]
                   IN [stage |-> Format!After(before.stage, s[j + 1]),
                       taken |-> before.taken + (IF Format!Takes(before.stage, s[j + 1]) THEN 1 ELSE 0)]
    BY <1>8, <2>1
  <2> QED BY <2>1, <2>2, Zenon DEF one, Count
<1> DEFINE T == {j \in Nat : j <= n => a[j] \in V}
<1>12. \A j \in Nat : j \in T
  <2>1. 0 \in T
    BY <1>3, <1>10
  <2>2. ASSUME NEW j \in Nat, j \in T PROVE j + 1 \in T
    <3>1. SUFFICES ASSUME j + 1 <= n PROVE a[j + 1] \in V
      OBVIOUS
    <3>2. j \in 0 .. n - 1 /\ a[j] \in V
      BY <1>1, <2>2, <3>1
    <3> HIDE DEF V
    <3> QED BY <1>2, <1>11, <3>2
  <2> HIDE DEF T
  <2> QED BY <2>1, <2>2, NatInduct
<1>13. ASSUME NEW j \in 0 .. n PROVE a[j] \in V
  BY <1>1, <1>12
<1>14. ASSUME NEW j \in 0 .. n PROVE a[j].stage \in Stages /\ a[j].taken \in Nat
  BY <1>13
<1> HIDE DEF T, V
<1>15. ASSUME NEW j \in 0 .. n - 1
       PROVE  /\ a[j + 1].stage = Format!After(a[j].stage, s[j + 1])
              /\ a[j + 1].taken = a[j].taken + Count(a[j].stage, s[j + 1])
  <2>1. a[j + 1] = one(j, a[j])
    BY <1>11
  <2>2. a[j + 1] = [stage |-> Format!After(a[j].stage, s[j + 1]), taken |-> a[j].taken + Count(a[j].stage, s[j + 1])]
    BY <2>1, Zenon DEF one
  <2> QED BY <2>2
<1> DEFINE U == {k \in Nat : k <= n => a[n - k].taken <= a[n].taken}
<1>16. \A k \in Nat : k \in U
  <2>1. 0 \in U
    <3>1. n \in 0 .. n /\ n - 0 = n
      BY <1>1
    <3>2. a[n].taken \in Nat
      BY <1>14, <3>1
    <3> QED BY <3>1, <3>2
  <2>2. ASSUME NEW k \in Nat, k \in U PROVE k + 1 \in U
    <3>1. SUFFICES ASSUME k + 1 <= n PROVE a[n - (k + 1)].taken <= a[n].taken
      OBVIOUS
    <3>2. PICK j \in 0 .. n - 1 : j = n - (k + 1)
      BY <1>1, <3>1
    <3>3. j + 1 = n - k /\ j \in 0 .. n /\ j + 1 \in 0 .. n /\ n \in 0 .. n
      BY <1>1, <3>1, <3>2
    <3>4. a[j + 1].taken <= a[n].taken
      BY <2>2, <3>1, <3>3
    <3>5. a[j + 1].taken = a[j].taken + Count(a[j].stage, s[j + 1])
      BY <1>15
    <3>6. Count(a[j].stage, s[j + 1]) \in Nat
      BY DEF Count
    <3>7. a[j].taken \in Nat /\ a[n].taken \in Nat
      BY <1>14, <3>3
    <3>8. a[j].taken <= a[n].taken
      BY ONLY <3>4, <3>5, <3>6, <3>7
    <3> QED BY <3>2, <3>8
  <2> HIDE DEF U
  <2> QED BY <2>1, <2>2, NatInduct
<1>17. ASSUME NEW j \in 0 .. n PROVE a[j].taken <= a[n].taken
  <2>1. n - j \in Nat /\ n - j <= n /\ n - (n - j) = j
    BY <1>1
  <2>2. n - j \in U
    BY <1>16, <2>1
  <2> QED BY <2>1, <2>2
<1>18. a[0].stage = "text" /\ a[0].taken = 0
  BY <1>10
<1> QED BY <1>9, <1>14, <1>15, <1>17, <1>18 DEF Scanned, n

FlagChars == {"-", "+", " ", "#", "0"}
Qualifiers == {"h", "l", "L", "Z"}
Takers == {"o", "x", "X", "d", "i", "u", "p", "c", "s", "n"}

LEMMA FlagsAre ==
  /\ DOMAIN Format!FlagOf = FlagChars
  /\ \A c \in FlagChars : Format!FlagOf[c] \in {"LEFT", "PLUS", "SPACE", "SPECIAL", "ZEROPAD"}
BY DEF Format!FlagOf, FlagChars

LEMMA AfterIs ==
  ASSUME NEW stage, NEW c
  PROVE  Format!After(stage, c) =
           IF stage = "text" THEN IF c = "%" THEN "flags" ELSE "text"
           ELSE IF stage = "flags" /\ c \in FlagChars THEN "flags"
           ELSE IF stage \in {"flags", "width"} /\ c \in Figures THEN "width"
           ELSE IF stage = "flags" /\ c = "*" THEN "width taken"
           ELSE IF stage \in {"flags", "width", "width taken"} /\ c = "." THEN "dot"
           ELSE IF stage \in {"dot", "precision"} /\ c \in Figures THEN "precision"
           ELSE IF stage = "dot" /\ c = "*" THEN "precision taken"
           ELSE IF stage # "qualified" /\ c \in Qualifiers THEN "qualified"
           ELSE "text"
<1>1. c \in DOMAIN Format!FlagOf <=> c \in FlagChars
  BY FlagsAre
<1>2. Format!In(c, Format!Decimal) <=> c \in Figures
  BY Decimals
<1> QED BY <1>1, <1>2, Zenon DEF Format!After, Qualifiers

LEMMA CountIs ==
  ASSUME NEW stage, NEW c
  PROVE  Count(stage, c) = IF stage # "text" /\ (c \in Takers \/ (stage \in {"flags", "dot"} /\ c = "*")) THEN 1 ELSE 0
BY DEF Count, Format!Takes, Takers, Format!Integer

(* What vsprintf() expects of its format at each of its own places.        *)
Star(stage, c) == stage \in {"flags", "dot"} /\ c = "*"
Ready(p, stage, c) ==
  /\ p = "text" => stage = "text" \/ c = "NUL"
  /\ p = "flags" => stage = "flags"
  /\ p = "width" => stage = "flags" /\ c \notin FlagChars
  /\ p = "precision" => /\ stage \in {"flags", "width", "width taken"} /\ ~Star(stage, c)
                        /\ Format!After(stage, c) \in {"dot", "qualified", "text"}
  /\ p = "qualifier" => /\ stage \notin {"text", "qualified"} /\ ~Star(stage, c)
                        /\ Format!After(stage, c) \in {"qualified", "text"}
  /\ p = "convert" => stage # "text" /\ ~Star(stage, c) /\ Format!After(stage, c) = "text"

AllFlags == {"LEFT", "PLUS", "SPACE", "SPECIAL", "ZEROPAD", "SIGN", "LARGE"}
FormatGood(f, list, i, n, fl, w, pr, p) ==
  /\ f \in Formats /\ list \in Arguments
  /\ i \in 1 .. Len(f) + 1 /\ n = 1 + Format!Asked(f)[i - 1].taken
  /\ fl \subseteq AllFlags /\ w \in Int /\ WidthOK(w) /\ pr \in Int /\ pr >= -1
  /\ Ready(p, Format!Asked(f)[i - 1].stage, Format!At(f, i))

FormatInv == FormatGood(vfmt, vargs, vfp, vap, vflags, vwidth, vprecision, vpc)

LEMMA FormatPrimed ==
  ASSUME FormatGood(vfmt', vargs', vfp', vap', vflags', vwidth', vprecision', vpc')
  PROVE  FormatInv'
BY Zenon DEF FormatInv, FormatGood, AllFlags, Ready, Star, FlagChars, Format!Asked, Format!After, Format!Takes, Format!At,
       Format!In, Format!FlagOf, Format!Decimal, Format!Integer

(* One character further.                                                  *)
LEMMA Onward ==
  ASSUME NEW f \in Formats, NEW i \in 1 .. Len(f) + 1, Format!At(f, i) # "NUL"
  PROVE  /\ i + 1 \in 1 .. Len(f) + 1 /\ (i + 1) - 1 = i /\ f[i] = Format!At(f, i)
         /\ Format!Asked(f)[i - 1].stage \in Stages /\ Format!Asked(f)[i].stage \in Stages
         /\ Format!Asked(f)[i].stage = Format!After(Format!Asked(f)[i - 1].stage, Format!At(f, i))
         /\ Format!Asked(f)[i].taken = Format!Asked(f)[i - 1].taken + Count(Format!Asked(f)[i - 1].stage, Format!At(f, i))
         /\ Format!Asked(f)[i].taken \in Nat /\ Format!Asked(f)[i - 1].taken \in Nat
<1> DEFINE a == Format!Asked(f)
<1>1. Scanned(f, a)
  BY AskedScans
<1>2. Len(f) \in Nat /\ DOMAIN f = 1 .. Len(f)
  BY FormatConstants
<1>3. i \in 1 .. Len(f) /\ f[i] = Format!At(f, i)
  BY <1>2 DEF Format!At
<1> HIDE DEF a
<1>4. PICK j \in 0 .. Len(f) - 1 : j = i - 1
  BY <1>2, <1>3
<1>5. j + 1 = i /\ j \in 0 .. Len(f) /\ i \in 0 .. Len(f)
  BY <1>2, <1>3, <1>4
<1>6. /\ a[j].stage \in Stages /\ a[j].taken \in Nat /\ a[i].stage \in Stages /\ a[i].taken \in Nat
      /\ a[j + 1].stage = Format!After(a[j].stage, f[j + 1])
      /\ a[j + 1].taken = a[j].taken + Count(a[j].stage, f[j + 1])
  BY <1>1, <1>4, <1>5 DEF Scanned
<1>7. i + 1 \in 1 .. Len(f) + 1 /\ (i + 1) - 1 = i
  BY <1>2, <1>3
<1> QED BY <1>3, <1>4, <1>5, <1>6, <1>7 DEF a

(* There is an argument for what asks for one.                             *)
LEMMA ArgumentThere ==
  ASSUME NEW f \in Formats, NEW list \in Arguments, NEW i \in 1 .. Len(f) + 1
  PROVE  /\ Format!Asked(f)[i - 1].taken \in Nat /\ Format!Asked(f)[i - 1].taken <= Len(list)
         /\ Format!Asked(f)[i - 1].stage \in Stages
         /\ Format!At(f, i) # "NUL" /\ Count(Format!Asked(f)[i - 1].stage, Format!At(f, i)) = 1
              => list[1 + Format!Asked(f)[i - 1].taken] \in Int
<1> DEFINE a == Format!Asked(f)
           n == Len(f)
<1>1. Scanned(f, a) /\ n \in Nat /\ a[n].taken <= Len(list) /\ list \in Seq(Int)
  BY AskedScans, FormatConstants
<1>2. Len(list) \in Nat /\ \A k \in 1 .. Len(list) : list[k] \in Int
  BY <1>1, ElementOfSeq, LenProperties
<1> HIDE DEF a
<1>3. ASSUME NEW j \in 0 .. n PROVE a[j].taken \in Nat /\ a[j].taken <= Len(list) /\ a[j].stage \in Stages
  <2>1. a[j].taken \in Nat /\ a[n].taken \in Nat /\ a[j].taken <= a[n].taken /\ a[j].stage \in Stages
    BY <1>1 DEF Scanned
  <2> QED BY <1>1, <1>2, <2>1
<1>4. i - 1 \in 0 .. n
  BY <1>1
<1>5. ASSUME Format!At(f, i) # "NUL", Count(a[i - 1].stage, Format!At(f, i)) = 1
      PROVE  list[1 + a[i - 1].taken] \in Int
  <2>1. a[i].taken = a[i - 1].taken + 1
    BY <1>5, Onward DEF a
  <2>2. i \in 0 .. n
    BY <1>1, <1>5, Onward
  <2>3. a[i].taken <= Len(list) /\ a[i - 1].taken \in Nat
    BY <1>3, <1>4, <2>2
  <2>4. 1 + a[i - 1].taken \in 1 .. Len(list)
    BY <1>2, <2>1, <2>3
  <2> QED BY <1>2, <2>4
<1> QED BY <1>3, <1>4, <1>5 DEF a

(* Digits are a width or a precision, all of them.                         *)
LEMMA FiguresStage ==
  ASSUME NEW f \in Formats, NEW i \in 1 .. Len(f) + 1, NEW e \in Nat, e > i,
         \A k \in i .. e - 1 : Format!At(f, k) \in Figures,
         NEW target,
         \/ Format!Asked(f)[i - 1].stage = "flags" /\ Format!At(f, i) \notin FlagChars /\ target = "width"
         \/ Format!Asked(f)[i - 1].stage = "dot" /\ target = "precision"
  PROVE  /\ e \in 1 .. Len(f) + 1 /\ Format!Asked(f)[e - 1].stage = target
         /\ Format!Asked(f)[e - 1].taken = Format!Asked(f)[i - 1].taken
<1> DEFINE a == Format!Asked(f)
           same == a[i - 1].taken
           T == {k \in Nat : i + k <= e - 1 => /\ i + k \in 1 .. Len(f) /\ a[i + k].stage = target
                                               /\ a[i + k].taken = same}
<1>0. Len(f) \in Nat
  BY FormatConstants
<1>1. \A c \in Figures : c # "NUL" /\ \A st : Count(st, c) = 0
  <2>1. \A c \in Figures : c # "NUL" /\ c \notin Takers /\ c # "*"
    BY DEF Figures, Takers
  <2> QED BY <2>1, CountIs
<1>2. \A c \in Figures : Format!After(target, c) = target
  BY AfterIs
<1>3. 0 \in T
  <2>1. Format!At(f, i) \in Figures
    BY <1>0
  <2>2. Format!At(f, i) # "NUL" /\ Count(a[i - 1].stage, Format!At(f, i)) = 0
    BY <1>1, <2>1
  <2>3. Format!After(a[i - 1].stage, Format!At(f, i)) = target
    BY <2>1, AfterIs
  <2>4. i + 1 \in 1 .. Len(f) + 1 /\ a[i].stage = target /\ a[i].taken = same + 0 /\ same \in Nat
    BY <2>2, <2>3, Onward
  <2> HIDE DEF a, same
  <2>5. i + 0 = i /\ i \in 1 .. Len(f) /\ a[i].taken = same
    BY <1>0, <2>4
  <2> QED BY <2>4, <2>5
<1>4. ASSUME NEW k \in Nat, k \in T PROVE k + 1 \in T
  <2>1. SUFFICES ASSUME i + (k + 1) <= e - 1
                 PROVE  i + (k + 1) \in 1 .. Len(f) /\ a[i + (k + 1)].stage = target /\ a[i + (k + 1)].taken = same
    OBVIOUS
  <2>2. i + k \in 1 .. Len(f) /\ a[i + k].stage = target /\ a[i + k].taken = same
    BY <1>0, <1>4, <2>1
  <2> DEFINE m == (i + k) + 1
  <2>3. m \in 1 .. Len(f) + 1 /\ m \in i .. e - 1 /\ m = i + (k + 1) /\ m - 1 = i + k
    BY <1>0, <2>1, <2>2
  <2>4. Format!At(f, m) \in Figures
    BY <2>3
  <2>5. Format!At(f, m) # "NUL" /\ Count(a[m - 1].stage, Format!At(f, m)) = 0
    BY <1>1, <2>4
  <2> HIDE DEF m
  <2>6. /\ m + 1 \in 1 .. Len(f) + 1 /\ a[m].stage = Format!After(a[m - 1].stage, Format!At(f, m))
        /\ a[m].taken = a[m - 1].taken + 0 /\ a[m - 1].taken \in Nat
    BY <2>3, <2>5, Onward
  <2> HIDE DEF a, same
  <2>7. a[m].stage = target
    BY <1>2, <2>2, <2>3, <2>4, <2>6
  <2>8. m \in 1 .. Len(f) /\ a[m].taken = same
    BY <1>0, <2>2, <2>3, <2>6
  <2> QED BY <2>3, <2>7, <2>8
<1>5. \A k \in Nat : k \in T
  <2> HIDE DEF T
  <2> QED BY <1>3, <1>4, NatInduct
<1>6. PICK k \in Nat : i + k = e - 1
  <2>1. (e - 1) - i \in Nat /\ i + ((e - 1) - i) = e - 1
    BY <1>0
  <2> QED BY <2>1
<1>7. k \in T
  BY <1>5
<1> HIDE DEF a, same
<1>8. e - 1 \in 1 .. Len(f) /\ a[e - 1].stage = target /\ a[e - 1].taken = same
  BY <1>0, <1>6, <1>7
<1> QED BY <1>0, <1>8 DEF a, same

LEMMA FormatInitInv ==
  ASSUME Format!Init
  PROVE  FormatInv
<1>1. /\ vfmt \in Formats /\ vargs \in Arguments /\ vfp = 1 /\ vap = 1 /\ vpc = "text"
      /\ vflags = {} /\ vwidth = -1 /\ vprecision = -1
  BY DEF Format!Init
<1>2. Scanned(vfmt, Format!Asked(vfmt)) /\ Len(vfmt) \in Nat
  BY <1>1, AskedScans, FormatConstants
<1>3. Format!Asked(vfmt)[1 - 1].stage = "text" /\ Format!Asked(vfmt)[1 - 1].taken = 0
  BY <1>2 DEF Scanned
<1>4. 1 \in 1 .. Len(vfmt) + 1 /\ 1 = 1 + 0 /\ -1 \in Int /\ -1 >= -1 /\ WidthOK(-1)
  BY <1>2, NoWidth
<1>5. Ready("text", "text", Format!At(vfmt, 1))
  BY DEF Ready
<1> QED BY <1>1, <1>3, <1>4, <1>5 DEF FormatInv, FormatGood

(* One character of the format is worked off.                              *)
LEMMA Read ==
  ASSUME NEW f \in Formats, NEW list \in Arguments, NEW i \in 1 .. Len(f) + 1, NEW n, NEW m,
         n = 1 + Format!Asked(f)[i - 1].taken, Format!At(f, i) # "NUL",
         m = n + Count(Format!Asked(f)[i - 1].stage, Format!At(f, i)),
         NEW fl \in SUBSET AllFlags, NEW w \in Int, WidthOK(w), NEW pr \in Int, pr >= -1, NEW p,
         Ready(p, Format!After(Format!Asked(f)[i - 1].stage, Format!At(f, i)), Format!At(f, i + 1))
  PROVE  FormatGood(f, list, i + 1, m, fl, w, pr, p)
<1> DEFINE a == Format!Asked(f)
<1>1. /\ i + 1 \in 1 .. Len(f) + 1 /\ (i + 1) - 1 = i
      /\ a[i].stage = Format!After(a[i - 1].stage, Format!At(f, i))
      /\ a[i].taken = a[i - 1].taken + Count(a[i - 1].stage, Format!At(f, i))
      /\ a[i].taken \in Nat /\ a[i - 1].taken \in Nat
  BY Onward
<1>2. Count(a[i - 1].stage, Format!At(f, i)) \in Nat
  BY DEF Count
<1>3. n = 1 + a[i - 1].taken /\ m = n + Count(a[i - 1].stage, Format!At(f, i))
  OBVIOUS
<1>4. Ready(p, a[i].stage, Format!At(f, i + 1))
  BY <1>1
<1> HIDE DEF a
<1>5. m = 1 + a[i].taken
  BY ONLY <1>1, <1>2, <1>3
<1> QED BY <1>1, <1>4, <1>5 DEF FormatGood, a

LEMMA FormatTextKeeps ==
  ASSUME FormatInv, Format!Text
  PROVE  FormatInv'
<1> DEFINE c == Format!At(vfmt, vfp)
           st == Format!Asked(vfmt)[vfp - 1].stage
<1>1. /\ vfmt \in Formats /\ vargs \in Arguments /\ vfp \in 1 .. Len(vfmt) + 1
      /\ vap = 1 + Format!Asked(vfmt)[vfp - 1].taken
      /\ vflags \in SUBSET AllFlags /\ vwidth \in Int /\ WidthOK(vwidth) /\ vprecision \in Int /\ vprecision >= -1
      /\ Ready(vpc, st, c)
  BY DEF FormatInv, FormatGood
<1>2. vpc = "text" /\ vfmt' = vfmt /\ vargs' = vargs /\ vap' = vap
  BY DEF Format!Text
<1>3. vap \in Int
  BY <1>1, ArgumentThere
<1> SUFFICES FormatGood(vfmt', vargs', vfp', vap', vflags', vwidth', vprecision', vpc')
  BY FormatPrimed
<1>4. CASE c = "NUL" /\ vpc' = "end" /\ vfp' = vfp /\ vflags' = vflags /\ vwidth' = vwidth /\ vprecision' = vprecision
  <2>1. Ready("end", st, c)
    BY DEF Ready
  <2> QED BY <1>1, <1>2, <1>4, <2>1 DEF FormatGood
<1>5. CASE c \notin {"NUL", "%"} /\ vpc' = vpc /\ vfp' = vfp + 1 /\ vflags' = vflags /\ vwidth' = vwidth /\ vprecision' = vprecision
  <2>1. st = "text"
    BY <1>1, <1>2, <1>5 DEF Ready
  <2>2. Format!After(st, c) = "text" /\ Count(st, c) = 0
    BY <1>5, <2>1, AfterIs, CountIs
  <2>3. Ready("text", Format!After(st, c), Format!At(vfmt, vfp + 1))
    BY <2>2 DEF Ready
  <2>4. vap = vap + Count(st, c)
    BY <1>3, <2>2
  <2> QED BY <1>1, <1>2, <1>5, <2>3, <2>4, Read
<1>6. CASE c = "%" /\ vpc' = "flags" /\ vfp' = vfp + 1 /\ vflags' = {} /\ vwidth' = -1 /\ vprecision' = -1
  <2>1. st = "text"
    BY <1>1, <1>2, <1>6 DEF Ready
  <2>2. Format!After(st, c) = "flags" /\ Count(st, c) = 0
    BY <1>6, <2>1, AfterIs, CountIs
  <2>3. Ready("flags", Format!After(st, c), Format!At(vfmt, vfp + 1))
    BY <2>2 DEF Ready
  <2>4. vap = vap + Count(st, c)
    BY <1>3, <2>2
  <2>5. {} \in SUBSET AllFlags /\ -1 \in Int /\ -1 >= -1 /\ WidthOK(-1) /\ c # "NUL"
    BY <1>6, NoWidth
  <2> QED BY <1>1, <1>2, <1>6, <2>3, <2>4, <2>5, Read
<1> QED BY <1>4, <1>5, <1>6 DEF Format!Text, Format!spec

LEMMA FormatFlagsKeeps ==
  ASSUME FormatInv, Format!Flags
  PROVE  FormatInv'
<1> DEFINE c == Format!At(vfmt, vfp)
           st == Format!Asked(vfmt)[vfp - 1].stage
<1>1. /\ vfmt \in Formats /\ vargs \in Arguments /\ vfp \in 1 .. Len(vfmt) + 1
      /\ vap = 1 + Format!Asked(vfmt)[vfp - 1].taken
      /\ vflags \in SUBSET AllFlags /\ vwidth \in Int /\ WidthOK(vwidth) /\ vprecision \in Int /\ vprecision >= -1
      /\ Ready(vpc, st, c)
  BY DEF FormatInv, FormatGood
<1>2. /\ vpc = "flags" /\ vfmt' = vfmt /\ vargs' = vargs /\ vap' = vap /\ vwidth' = vwidth /\ vprecision' = vprecision
      /\ IF c \in FlagChars THEN vflags' = vflags \union {Format!FlagOf[vfmt[vfp]]} /\ vfp' = vfp + 1 /\ vpc' = vpc
         ELSE vpc' = "width" /\ vflags' = vflags /\ vfp' = vfp
  BY FlagsAre DEF Format!Flags
<1>3. vap \in Int /\ st = "flags"
  BY <1>1, <1>2, ArgumentThere DEF Ready
<1> SUFFICES FormatGood(vfmt', vargs', vfp', vap', vflags', vwidth', vprecision', vpc')
  BY FormatPrimed
<1>4. CASE c \in FlagChars
  <2>1. c # "NUL" /\ Format!After(st, c) = "flags" /\ Count(st, c) = 0
    <3>1. c \notin Takers /\ c # "*" /\ c # "NUL"
      BY <1>4 DEF FlagChars, Takers
    <3> QED BY <1>3, <1>4, <3>1, AfterIs, CountIs
  <2>2. Ready("flags", Format!After(st, c), Format!At(vfmt, vfp + 1))
    BY <2>1 DEF Ready
  <2>3. vap = vap + Count(st, c)
    BY <1>3, <2>1
  <2>4. vflags \union {Format!FlagOf[vfmt[vfp]]} \in SUBSET AllFlags
    <3>1. vfmt[vfp] = c
      BY <1>1, <2>1, Onward
    <3>2. Format!FlagOf[c] \in AllFlags
      BY <1>4, FlagsAre DEF AllFlags
    <3> QED BY <1>1, <3>1, <3>2
  <2> HIDE DEF c, st
  <2>5. vpc' = "flags" /\ vfp' = vfp + 1 /\ vflags' \in SUBSET AllFlags
    BY <1>2, <1>4, <2>4
  <2> QED BY <1>1, <1>2, <2>1, <2>2, <2>3, <2>5, Read DEF c, st
<1>5. CASE c \notin FlagChars
  <2>1. Ready("width", st, c)
    BY <1>3, <1>5 DEF Ready
  <2> QED BY <1>1, <1>2, <1>5, <2>1 DEF FormatGood
<1> QED BY <1>4, <1>5

(* skip_atoi() leaves its digits behind.                                   *)
LEMMA Skipped ==
  ASSUME NEW i \in Nat, i > 0, vfmt \in Formats, Format!At(vfmt, i) \in Figures
  PROVE  /\ Format!skip_atoi(i).value \in Nat /\ Format!skip_atoi(i).end \in Nat /\ Format!skip_atoi(i).end > i
         /\ \A k \in i .. Format!skip_atoi(i).end - 1 : Format!At(vfmt, k) \in Figures
         /\ Format!At(vfmt, Format!skip_atoi(i).end) \notin Figures
<1>1. PICK limit \in Nat : limit > 0 /\ Format!skip_atoi(i) = Format!Digits(vfmt, i, 10, limit)
  <2>1. Format!skip_atoi(i) = Format!Digits(vfmt, i, 10, 65536)
    BY SMT DEF Format!skip_atoi
  <2>2. 65536 \in Nat /\ 65536 > 0
    BY SMT
  <2> QED BY <2>1, <2>2
<1>2. Len(vfmt) \in Nat /\ DOMAIN vfmt = 1 .. Len(vfmt)
  BY FormatConstants
<1>3. Run(vfmt, i, Format!skip_atoi(i))
  BY <1>1, <1>2, DigitsRun
<1> DEFINE r == Format!skip_atoi(i)
<1>4. Run(vfmt, i, r)
  BY <1>3
<1>5. Format!At(vfmt, i) \in Figures
  OBVIOUS
<1> HIDE DEF r
<1>6. r.end # i
  BY <1>4, <1>5 DEF Run
<1>7. r.end > i
  BY <1>4, <1>6 DEF Run
<1> QED BY <1>4, <1>7 DEF Run, r

LEMMA FormatWidthKeeps ==
  ASSUME FormatInv, Format!Width
  PROVE  FormatInv'
<1> DEFINE c == Format!At(vfmt, vfp)
           st == Format!Asked(vfmt)[vfp - 1].stage
           given == Format!As(vargs[vap], IntBits, TRUE)
<1>1. /\ vfmt \in Formats /\ vargs \in Arguments /\ vfp \in 1 .. Len(vfmt) + 1
      /\ vap = 1 + Format!Asked(vfmt)[vfp - 1].taken
      /\ vflags \in SUBSET AllFlags /\ vwidth \in Int /\ WidthOK(vwidth) /\ vprecision \in Int /\ vprecision >= -1
      /\ Ready(vpc, st, c)
  BY DEF FormatInv, FormatGood
<1>2. /\ vpc = "width" /\ vfmt' = vfmt /\ vargs' = vargs /\ vpc' = "precision" /\ vprecision' = vprecision
      /\ \/ /\ c \in Figures /\ vwidth' = Format!skip_atoi(vfp).value /\ vfp' = Format!skip_atoi(vfp).end
            /\ vap' = vap /\ vflags' = vflags
         \/ /\ c = "*" /\ vfp' = vfp + 1 /\ vap' = vap + 1
            /\ IF given < 0 THEN vwidth' = Format!As(-given, IntBits, TRUE) /\ vflags' = vflags \union {"LEFT"}
               ELSE vwidth' = given /\ vflags' = vflags
         \/ /\ c # "*" /\ c \notin Figures
            /\ vfp' = vfp /\ vap' = vap /\ vwidth' = vwidth /\ vflags' = vflags
  BY Decimals, Zenon DEF Format!Width
<1>3. vap \in Int /\ st = "flags" /\ c \notin FlagChars
  BY <1>1, <1>2, ArgumentThere DEF Ready
<1> SUFFICES FormatGood(vfmt', vargs', vfp', vap', vflags', vwidth', vprecision', vpc')
  BY FormatPrimed
<1>4. CASE /\ c \in Figures /\ vwidth' = Format!skip_atoi(vfp).value /\ vfp' = Format!skip_atoi(vfp).end
           /\ vap' = vap /\ vflags' = vflags
  <2> DEFINE e == Format!skip_atoi(vfp).end
             w == Format!skip_atoi(vfp).value
  <2>1. vfp \in Nat /\ vfp > 0
    BY <1>1, FormatConstants
  <2>2. w \in Nat /\ e \in Nat /\ e > vfp /\ (\A k \in vfp .. e - 1 : Format!At(vfmt, k) \in Figures)
        /\ Format!At(vfmt, e) \notin Figures
    BY <1>1, <1>4, <2>1, Skipped
  <2> HIDE DEF e, w
  <2>3. /\ e \in 1 .. Len(vfmt) + 1 /\ Format!Asked(vfmt)[e - 1].stage = "width"
        /\ Format!Asked(vfmt)[e - 1].taken = Format!Asked(vfmt)[vfp - 1].taken
    <3>1. /\ vfmt \in Formats /\ vfp \in 1 .. Len(vfmt) + 1
          /\ Format!Asked(vfmt)[vfp - 1].stage = "flags" /\ Format!At(vfmt, vfp) \notin FlagChars
      BY <1>1, <1>3
    <3>2. e \in Nat /\ e > vfp /\ \A k \in vfp .. e - 1 : Format!At(vfmt, k) \in Figures
      BY <2>2
    <3> QED BY ONLY <3>1, <3>2, FiguresStage, Zenon
  <2>4. Ready("precision", "width", Format!At(vfmt, e))
    <3>1. Format!After("width", Format!At(vfmt, e)) \in {"dot", "qualified", "text"}
      BY <2>2, AfterIs
    <3> QED BY <3>1 DEF Ready, Star
  <2>5. w \in Int /\ WidthOK(w)
    BY <2>2, NoWidth
  <2>6. vwidth' = w /\ vfp' = e
    BY <1>4 DEF e, w
  <2>7. Ready("precision", Format!Asked(vfmt)[e - 1].stage, Format!At(vfmt, e))
    BY <2>3, <2>4
  <2>8. vap = 1 + Format!Asked(vfmt)[e - 1].taken
    BY <1>1, <2>3
  <2> QED BY <1>1, <1>2, <1>4, <2>3, <2>5, <2>6, <2>7, <2>8 DEF FormatGood
<1>5. CASE /\ c = "*" /\ vfp' = vfp + 1 /\ vap' = vap + 1
           /\ IF given < 0 THEN vwidth' = Format!As(-given, IntBits, TRUE) /\ vflags' = vflags \union {"LEFT"}
              ELSE vwidth' = given /\ vflags' = vflags
  <2>1. c # "NUL" /\ Format!After(st, c) = "width taken" /\ Count(st, c) = 1
    BY <1>3, <1>5, AfterIs, CountIs DEF Figures
  <2>2. vargs[vap] \in Int
    BY <1>1, <2>1, ArgumentThere
  <2>3. vwidth' \in Int /\ WidthOK(vwidth')
    <3>1. given \in Int /\ (given < 0 => Format!As(-given, IntBits, TRUE) \in Int /\ WidthOK(Format!As(-given, IntBits, TRUE)))
      BY <2>2, WidthTurned
    <3> HIDE DEF given
    <3>2. given < 0 \/ (given \in Nat /\ ~(given < 0))
      BY <3>1
    <3> QED BY <1>5, <3>1, <3>2, NoWidth
  <2>4. vflags' \in SUBSET AllFlags
    BY <1>1, <1>5 DEF AllFlags
  <2>5. Ready("precision", Format!After(st, c), Format!At(vfmt, vfp + 1))
    <3> DEFINE d == Format!At(vfmt, vfp + 1)
    <3>1. Format!After("width taken", d) \in {"dot", "qualified", "text"}
      BY AfterIs
    <3> HIDE DEF d
    <3>2. Ready("precision", "width taken", d)
      BY <3>1 DEF Ready, Star
    <3> QED BY <2>1, <3>2 DEF d
  <2>6. vap + 1 = vap + Count(st, c)
    BY <2>1
  <2> QED BY <1>1, <1>2, <1>5, <2>1, <2>3, <2>4, <2>5, <2>6, Read
<1>6. CASE /\ c # "*" /\ c \notin Figures
           /\ vfp' = vfp /\ vap' = vap /\ vwidth' = vwidth /\ vflags' = vflags
  <2>1. Format!After("flags", c) \in {"dot", "qualified", "text"}
    BY <1>3, <1>6, AfterIs
  <2>2. Ready("precision", st, c)
    BY <1>3, <1>6, <2>1 DEF Ready, Star
  <2> QED BY <1>1, <1>2, <1>6, <2>2 DEF FormatGood
<1> QED BY <1>2, <1>4, <1>5, <1>6

LEMMA FormatPrecisionKeeps ==
  ASSUME FormatInv, Format!Precision
  PROVE  FormatInv'
<1> DEFINE c == Format!At(vfmt, vfp)
           d == Format!At(vfmt, vfp + 1)
           st == Format!Asked(vfmt)[vfp - 1].stage
           given == Format!As(vargs[vap], IntBits, TRUE)
<1>1. /\ vfmt \in Formats /\ vargs \in Arguments /\ vfp \in 1 .. Len(vfmt) + 1
      /\ vap = 1 + Format!Asked(vfmt)[vfp - 1].taken
      /\ vflags \in SUBSET AllFlags /\ vwidth \in Int /\ WidthOK(vwidth) /\ vprecision \in Int /\ vprecision >= -1
      /\ Ready(vpc, st, c)
  BY DEF FormatInv, FormatGood
<1>2. /\ vpc = "precision" /\ vfmt' = vfmt /\ vargs' = vargs /\ vpc' = "qualifier" /\ vflags' = vflags /\ vwidth' = vwidth
      /\ IF c # "." THEN vfp' = vfp /\ vap' = vap /\ vprecision' = vprecision
         ELSE IF d \in Figures
           THEN vprecision' = Format!skip_atoi(vfp + 1).value /\ vfp' = Format!skip_atoi(vfp + 1).end /\ vap' = vap
         ELSE IF d = "*"
           THEN vprecision' = (IF given < 0 THEN 0 ELSE given) /\ vfp' = vfp + 2 /\ vap' = vap + 1
         ELSE vprecision' = 0 /\ vfp' = vfp + 1 /\ vap' = vap
  BY Decimals, Zenon DEF Format!Precision
<1>3. /\ vap \in Int /\ st \in {"flags", "width", "width taken"} /\ ~Star(st, c)
      /\ Format!After(st, c) \in {"dot", "qualified", "text"}
  <2>1. vap \in Int
    BY <1>1, ArgumentThere
  <2>2. /\ st \in {"flags", "width", "width taken"} /\ ~Star(st, c)
        /\ Format!After(st, c) \in {"dot", "qualified", "text"}
    <3> HIDE DEF st, c
    <3> QED BY <1>1, <1>2, Zenon DEF Ready
  <2> QED BY <2>1, <2>2
<1> SUFFICES FormatGood(vfmt', vargs', vfp', vap', vflags', vwidth', vprecision', vpc')
  BY FormatPrimed
<1>4. CASE c # "."
  <2>1. Format!After(st, c) # "dot"
    BY <1>4, AfterIs
  <2>2. Ready("qualifier", st, c)
    BY <1>3, <2>1 DEF Ready
  <2> QED BY <1>1, <1>2, <1>4, <2>2 DEF FormatGood
<1>5. CASE c = "."
  <2> DEFINE i == vfp + 1
  <2>1. c # "NUL" /\ Format!After(st, c) = "dot" /\ Count(st, c) = 0
    <3>1. c \notin FlagChars /\ c \notin Figures /\ c \notin Takers /\ c # "*"
      BY <1>5 DEF FlagChars, Figures, Takers
    <3> QED BY <1>3, <1>5, <3>1, AfterIs, CountIs
  <2>2. /\ i \in 1 .. Len(vfmt) + 1 /\ i - 1 = vfp
        /\ Format!Asked(vfmt)[vfp].stage = "dot"
        /\ Format!Asked(vfmt)[vfp].taken = Format!Asked(vfmt)[vfp - 1].taken + 0
        /\ Format!Asked(vfmt)[vfp - 1].taken \in Nat
    BY <1>1, <2>1, Onward
  <2>3. Format!Asked(vfmt)[i - 1].stage = "dot"
    BY <2>2
  <2>4. vap = 1 + Format!Asked(vfmt)[i - 1].taken
    BY <1>1, <2>2
  <2>5. i \in Nat /\ i > 0
    BY <2>2, <1>1, FormatConstants
  <2>6. CASE d \in Figures
    <3> DEFINE e == Format!skip_atoi(i).end
               w == Format!skip_atoi(i).value
    <3>1. w \in Nat /\ e \in Nat /\ e > i /\ (\A k \in i .. e - 1 : Format!At(vfmt, k) \in Figures)
          /\ Format!At(vfmt, e) \notin Figures
      BY <1>1, <2>5, <2>6, Skipped
    <3>2. vprecision' = w /\ vfp' = e /\ vap' = vap
      BY <1>2, <1>5, <2>6
    <3> HIDE DEF e, w
    <3>3. /\ e \in 1 .. Len(vfmt) + 1 /\ Format!Asked(vfmt)[e - 1].stage = "precision"
          /\ Format!Asked(vfmt)[e - 1].taken = Format!Asked(vfmt)[i - 1].taken
      <4> HIDE DEF i
      <4> QED BY <1>1, <2>2, <2>3, <3>1, FiguresStage, Zenon
    <3>4. Ready("qualifier", "precision", Format!At(vfmt, e))
      <4>1. Format!After("precision", Format!At(vfmt, e)) \in {"qualified", "text"}
        BY <3>1, AfterIs
      <4> QED BY <4>1 DEF Ready, Star
    <3>5. w \in Int /\ w >= -1
      BY <3>1
    <3>6. Ready("qualifier", Format!Asked(vfmt)[e - 1].stage, Format!At(vfmt, e))
      BY <3>3, <3>4
    <3>7. vap = 1 + Format!Asked(vfmt)[e - 1].taken
      BY <2>4, <3>3
    <3> QED BY <1>1, <1>2, <3>2, <3>3, <3>5, <3>6, <3>7 DEF FormatGood
  <2>7. CASE d = "*"
    <3>1. d \notin Figures /\ d \notin FlagChars /\ d # "NUL"
      BY <2>7 DEF Figures, FlagChars
    <3>2. Format!After("dot", d) = "precision taken" /\ Count("dot", d) = 1
      BY <2>7, <3>1, AfterIs, CountIs
    <3>3. vargs[vap] \in Int
      <4> HIDE DEF i
      <4>1. d = Format!At(vfmt, i)
        BY DEF i
      <4> HIDE DEF d
      <4> QED BY <1>1, <2>2, <2>3, <2>4, <3>1, <3>2, <4>1, ArgumentThere
    <3>4. vprecision' = (IF given < 0 THEN 0 ELSE given) /\ vfp' = vfp + 2 /\ vap' = vap + 1
      BY <1>2, <1>5, <2>7, <3>1
    <3>5. vprecision' \in Int /\ vprecision' >= -1
      <4>1. given \in Int
        BY <3>3, WidthTurned
      <4> HIDE DEF given
      <4> QED BY <3>4, <4>1
    <3>6. Ready("qualifier", "precision taken", Format!At(vfmt, i + 1))
      <4>1. Format!After("precision taken", Format!At(vfmt, i + 1)) \in {"qualified", "text"}
        BY AfterIs
      <4> QED BY <4>1 DEF Ready, Star
    <3>7. vfp' = i + 1
      BY <2>2, <3>4
    <3>8. d = Format!At(vfmt, i)
      OBVIOUS
    <3> HIDE DEF i, d
    <3>9. Ready("qualifier", Format!After(Format!Asked(vfmt)[i - 1].stage, Format!At(vfmt, i)), Format!At(vfmt, i + 1))
      BY <2>3, <3>2, <3>6, <3>8
    <3>10. vap' = vap + Count(Format!Asked(vfmt)[i - 1].stage, Format!At(vfmt, i)) /\ Format!At(vfmt, i) # "NUL"
      BY <2>3, <3>1, <3>2, <3>4, <3>8
    <3> QED BY <1>1, <1>2, <2>2, <2>4, <3>5, <3>7, <3>9, <3>10, Read
  <2>8. CASE d \notin Figures /\ d # "*"
    <3>1. vprecision' = 0 /\ vfp' = i /\ vap' = vap
      BY <1>2, <1>5, <2>8
    <3>2. Format!After("dot", d) \in {"qualified", "text"}
      BY <2>8, AfterIs
    <3>3. Ready("qualifier", "dot", d)
      BY <2>8, <3>2 DEF Ready, Star
    <3>4. Ready("qualifier", Format!Asked(vfmt)[i - 1].stage, Format!At(vfmt, i))
      BY <2>3, <3>3
    <3> HIDE DEF i, d
    <3> QED BY <1>1, <1>2, <2>2, <2>4, <3>1, <3>4 DEF FormatGood
  <2> QED BY <2>6, <2>7, <2>8
<1> QED BY <1>4, <1>5

LEMMA FormatQualifierKeeps ==
  ASSUME FormatInv, Format!Qualifier
  PROVE  FormatInv'
<1> DEFINE c == Format!At(vfmt, vfp)
           st == Format!Asked(vfmt)[vfp - 1].stage
<1>1. /\ vfmt \in Formats /\ vargs \in Arguments /\ vfp \in 1 .. Len(vfmt) + 1
      /\ vap = 1 + Format!Asked(vfmt)[vfp - 1].taken
      /\ vflags \in SUBSET AllFlags /\ vwidth \in Int /\ WidthOK(vwidth) /\ vprecision \in Int /\ vprecision >= -1
      /\ Ready(vpc, st, c)
  BY DEF FormatInv, FormatGood
<1>2. /\ vpc = "qualifier" /\ vpc' = "convert" /\ vfmt' = vfmt /\ vargs' = vargs /\ vap' = vap
      /\ vflags' = vflags /\ vwidth' = vwidth /\ vprecision' = vprecision
      /\ IF c \in Qualifiers THEN vfp' = vfp + 1 ELSE vfp' = vfp
  BY Zenon DEF Format!Qualifier, Qualifiers
<1>3. /\ vap \in Int /\ st \notin {"text", "qualified"} /\ ~Star(st, c)
      /\ Format!After(st, c) \in {"qualified", "text"}
  BY <1>1, <1>2, ArgumentThere DEF Ready
<1> SUFFICES FormatGood(vfmt', vargs', vfp', vap', vflags', vwidth', vprecision', vpc')
  BY FormatPrimed
<1>4. CASE c \in Qualifiers
  <2>1. c # "NUL" /\ Count(st, c) = 0 /\ Format!After(st, c) = "qualified"
    <3>1. c \notin Takers /\ c # "*" /\ c # "NUL" /\ c \notin FlagChars /\ c \notin Figures /\ c # "."
      BY <1>4 DEF Takers, Qualifiers, FlagChars, Figures
    <3> QED BY <1>3, <1>4, <3>1, AfterIs, CountIs
  <2>2. Ready("convert", Format!After(st, c), Format!At(vfmt, vfp + 1))
    <3>1. Format!After("qualified", Format!At(vfmt, vfp + 1)) = "text"
      BY AfterIs
    <3>2. Ready("convert", "qualified", Format!At(vfmt, vfp + 1))
      BY <3>1 DEF Ready, Star
    <3> QED BY <2>1, <3>2
  <2>3. vap = vap + Count(st, c)
    BY <1>3, <2>1
  <2> QED BY <1>1, <1>2, <1>4, <2>1, <2>2, <2>3, Read
<1>5. CASE c \notin Qualifiers
  <2>1. Format!After(st, c) = "text"
    BY <1>3, <1>5, AfterIs
  <2>2. Ready("convert", st, c)
    BY <1>3, <2>1 DEF Ready
  <2> QED BY <1>1, <1>2, <1>5, <2>2 DEF FormatGood
<1> QED BY <1>4, <1>5

(* A conversion that takes an argument.                                    *)
LEMMA FormatTakes ==
  ASSUME FormatInv, vpc = "convert", Format!At(vfmt, vfp) \in Takers,
         vfmt' = vfmt, vargs' = vargs, vfp' = vfp + 1, vap' = vap + 1, vpc' = "text",
         vflags' \in SUBSET AllFlags, vwidth' \in Int, WidthOK(vwidth'), vprecision' = vprecision
  PROVE  FormatInv'
<1> DEFINE c == Format!At(vfmt, vfp)
           st == Format!Asked(vfmt)[vfp - 1].stage
<1>1. /\ vfmt \in Formats /\ vargs \in Arguments /\ vfp \in 1 .. Len(vfmt) + 1
      /\ vap = 1 + Format!Asked(vfmt)[vfp - 1].taken
      /\ vflags \in SUBSET AllFlags /\ vwidth \in Int /\ WidthOK(vwidth) /\ vprecision \in Int /\ vprecision >= -1
      /\ Ready(vpc, st, c)
  BY DEF FormatInv, FormatGood
<1>2. st # "text" /\ Format!After(st, c) = "text"
  BY <1>1 DEF Ready
<1>3. c # "NUL" /\ Count(st, c) = 1
  BY <1>2, CountIs DEF Takers
<1>4. Ready("text", Format!After(st, c), Format!At(vfmt, vfp + 1))
  BY <1>2 DEF Ready
<1>5. vap' = vap + Count(st, c)
  BY <1>3
<1> HIDE DEF c, st
<1>6. FormatGood(vfmt', vargs', vfp', vap', vflags', vwidth', vprecision', vpc')
  BY <1>1, <1>3, <1>4, <1>5, Read DEF c, st
<1> QED BY <1>6, FormatPrimed

LEMMA FormatOtherKeeps ==
  ASSUME FormatInv, Format!ConvertOther
  PROVE  FormatInv'
<1> DEFINE c == Format!At(vfmt, vfp)
           st == Format!Asked(vfmt)[vfp - 1].stage
<1>1. /\ vfmt \in Formats /\ vargs \in Arguments /\ vfp \in 1 .. Len(vfmt) + 1
      /\ vap = 1 + Format!Asked(vfmt)[vfp - 1].taken
      /\ vflags \in SUBSET AllFlags /\ vwidth \in Int /\ WidthOK(vwidth) /\ vprecision \in Int /\ vprecision >= -1
      /\ Ready(vpc, st, c)
  BY DEF FormatInv, FormatGood
<1>2. /\ vpc = "convert" /\ vpc' = "text" /\ vfmt' = vfmt /\ vargs' = vargs /\ vap' = vap
      /\ vflags' = vflags /\ vwidth' = vwidth /\ vprecision' = vprecision
      /\ c \notin Takers /\ vfp' = IF c = "NUL" THEN vfp ELSE vfp + 1
  BY DEF Format!ConvertOther, Format!spec, Format!Integer, Takers
<1>3. /\ vap \in Int /\ st # "text" /\ ~Star(st, c) /\ Format!After(st, c) = "text"
  BY <1>1, <1>2, ArgumentThere DEF Ready
<1> SUFFICES FormatGood(vfmt', vargs', vfp', vap', vflags', vwidth', vprecision', vpc')
  BY FormatPrimed
<1>4. CASE c = "NUL"
  <2>1. Ready("text", st, c)
    BY <1>4 DEF Ready
  <2> QED BY <1>1, <1>2, <1>4, <2>1 DEF FormatGood
<1>5. CASE c # "NUL"
  <2>1. Count(st, c) = 0
    BY <1>2, <1>3, CountIs DEF Star
  <2>2. Ready("text", Format!After(st, c), Format!At(vfmt, vfp + 1))
    BY <1>3 DEF Ready
  <2>3. vap = vap + Count(st, c)
    BY <1>3, <2>1
  <2> QED BY <1>1, <1>2, <1>5, <2>2, <2>3, Read
<1> QED BY <1>4, <1>5

LEMMA FormatStepKeeps ==
  ASSUME FormatInv, Format!Next \/ UNCHANGED printvars
  PROVE  FormatInv'
<1>1. /\ vflags \in SUBSET AllFlags /\ vwidth \in Int /\ WidthOK(vwidth)
  BY DEF FormatInv, FormatGood
<1>2. CASE Format!ConvertInteger
  <2> DEFINE c == vfmt[vfp]
             type == vflags \union (IF c \in {"d", "i"} THEN {"SIGN"} ELSE IF c = "X" THEN {"LARGE"} ELSE {})
  <2>1. /\ vpc = "convert" /\ vpc' = "text" /\ Format!At(vfmt, vfp) \in Format!Integer /\ vflags' = type
        /\ vap' = vap + 1 /\ vfp' = vfp + 1 /\ vfmt' = vfmt /\ vargs' = vargs
        /\ vwidth' = vwidth /\ vprecision' = vprecision
    BY <1>2, Zenon DEF Format!ConvertInteger
  <2>2. Format!At(vfmt, vfp) \in Takers
    BY <2>1 DEF Format!Integer, Takers
  <2>3. vflags' \in SUBSET AllFlags
    BY <1>1, <2>1 DEF AllFlags
  <2> QED BY <1>1, <2>1, <2>2, <2>3, FormatTakes
<1>3. CASE Format!ConvertPointer
  <2>1. /\ vpc = "convert" /\ vpc' = "text" /\ Format!At(vfmt, vfp) = "p"
        /\ vwidth' = (IF vwidth = -1 THEN PointerWidth ELSE vwidth)
        /\ vflags' = (IF vwidth = -1 THEN vflags \union {"ZEROPAD"} ELSE vflags)
        /\ vap' = vap + 1 /\ vfp' = vfp + 1 /\ vfmt' = vfmt /\ vargs' = vargs /\ vprecision' = vprecision
    BY <1>3, Zenon DEF Format!ConvertPointer
  <2>2. Format!At(vfmt, vfp) \in Takers
    BY <2>1 DEF Takers
  <2>3. vflags' \in SUBSET AllFlags
    BY <1>1, <2>1 DEF AllFlags
  <2>4. vwidth' \in Int /\ WidthOK(vwidth')
    BY <1>1, <2>1, FormatConstants, NoWidth
  <2> QED BY <1>1, <2>1, <2>2, <2>3, <2>4, FormatTakes
<1>4. CASE Format!ConvertText \/ Format!ConvertCount
  <2>1. /\ vpc = "convert" /\ vpc' = "text" /\ Format!At(vfmt, vfp) \in {"c", "s", "n"}
        /\ vap' = vap + 1 /\ vfp' = vfp + 1 /\ vfmt' = vfmt /\ vargs' = vargs
        /\ vflags' = vflags /\ vwidth' = vwidth /\ vprecision' = vprecision
    BY <1>4, Zenon DEF Format!ConvertText, Format!ConvertCount, Format!spec
  <2>2. Format!At(vfmt, vfp) \in Takers
    BY <2>1 DEF Takers
  <2> QED BY <1>1, <2>1, <2>2, FormatTakes
<1>5. CASE Format!Return \/ UNCHANGED printvars
  <2>1. /\ vpc' = vpc /\ vap' = vap /\ vfp' = vfp /\ vfmt' = vfmt /\ vargs' = vargs
        /\ vflags' = vflags /\ vwidth' = vwidth /\ vprecision' = vprecision
    BY <1>5 DEF Format!Return, Format!vars, printvars
  <2>2. FormatGood(vfmt, vargs, vfp, vap, vflags, vwidth, vprecision, vpc)
    BY DEF FormatInv
  <2>3. FormatGood(vfmt', vargs', vfp', vap', vflags', vwidth', vprecision', vpc')
    BY <2>1, <2>2, Zenon
  <2> QED BY <2>3, FormatPrimed
<1>6. \/ Format!Text \/ Format!Flags \/ Format!Width \/ Format!Precision \/ Format!Qualifier \/ Format!ConvertOther
      \/ Format!ConvertInteger \/ Format!ConvertPointer \/ (Format!ConvertText \/ Format!ConvertCount)
      \/ (Format!Return \/ UNCHANGED printvars)
  BY Zenon DEF Format!Next
<1> QED BY <1>2, <1>3, <1>4, <1>5, <1>6, FormatTextKeeps, FormatFlagsKeeps, FormatWidthKeeps, FormatPrecisionKeeps,
           FormatQualifierKeeps, FormatOtherKeeps

LEMMA FormatKept == FormatInv => Format!TypeOK
<1> SUFFICES ASSUME FormatInv PROVE Format!TypeOK
  OBVIOUS
<1>1. /\ vfmt \in Formats /\ vargs \in Arguments /\ vfp \in 1 .. Len(vfmt) + 1
      /\ vap = 1 + Format!Asked(vfmt)[vfp - 1].taken
      /\ vflags \subseteq AllFlags /\ WidthOK(vwidth) /\ vprecision >= -1
  BY DEF FormatInv, FormatGood
<1>2. Format!Asked(vfmt)[vfp - 1].taken \in Nat /\ Format!Asked(vfmt)[vfp - 1].taken <= Len(vargs)
  BY <1>1, ArgumentThere
<1>3. Len(vargs) \in Nat
  BY <1>1, FormatConstants, LenProperties
<1>4. vap \in 1 .. Len(vargs) + 1
  BY <1>1, <1>2, <1>3
<1> QED BY <1>1, <1>4, Zenon DEF Format!TypeOK, AllFlags, WidthOK

-----------------------------------------------------------------------------
(* What vsprintf() writes: digits first, then number(), then the field of  *)
(* a conversion.  A digit more, of a number cut to its bits before.        *)
Cut(a, b, c, limit) == (a * b + c) % limit

LEMMA ShiftedRest == \A n, b, v \in Nat : n > 0 => (n * b + v) % n = v % n
<1> TAKE n, b, v \in Nat
<1> HAVE n > 0
<1>1. (n * b + v) \div n = b + (v \div n) /\ (n * b + v) % n = v % n
  BY Shifted
<1> QED BY <1>1, Zenon

LEMMA CutBefore ==
  ASSUME NEW a \in Nat, NEW b \in Nat, NEW c \in Nat, NEW limit \in Nat, limit > 0
  PROVE  Cut(a % limit, b, c, limit) = Cut(a, b, c, limit)
<1> DEFINE q == a \div limit
           r == a % limit
<1>1. q \in Nat /\ r \in Nat /\ a = limit * q + r
  BY Divided
<1> HIDE DEF q, r
<1>2. (limit * q + r) * b = limit * (q * b) + r * b
  BY <1>1
<1>3. q * b \in Nat /\ r * b \in Nat
  BY <1>1, Product
<1> DEFINE k == q * b
           v == r * b + c
<1>4. k \in Nat /\ v \in Nat
  BY <1>3
<1>5. a * b + c = limit * k + v
  BY <1>1, <1>2, <1>3
<1> HIDE DEF k, v
<1>6. (limit * k + v) % limit = v % limit
  BY <1>4, ShiftedRest
<1> QED BY <1>5, <1>6 DEF v, r, Cut

(* do_div() leaves less each time, and at last nothing.                    *)
Bases == {8, 10, 16}

LEMMA LeftFalls ==
  ASSUME NEW n \in Nat, NEW base \in Bases
  PROVE  LET left == Format!Left(n, base)
             i == Format!Divisions(left)
         IN /\ left[0] = n /\ \A j \in Nat : left[j] \in Nat /\ left[j + 1] = left[j] \div base
            /\ i \in Nat \ {0} /\ left[i] = 0
<1> DEFINE g == [p \in Nat \X Nat |-> p[2] \div base]
           left == CHOOSE left : left = [j \in Nat |-> IF j = 0 THEN n ELSE left[j - 1] \div base]
<1>1. base \in Nat /\ base > 1
  BY DEF Bases
<1>2. g \in [Nat \X Nat -> Nat]
  <2>1. ASSUME NEW p \in Nat \X Nat PROVE p[2] \div base \in Nat
    BY <1>1
  <2> QED BY <2>1
<1>3. PICK F : F \in [Nat -> Nat] /\ F[0] = n /\ \A j \in Nat : F[j + 1] = g[<<j, F[j]>>]
  <2> HIDE DEF g
  <2>1. PICK F : Orbit(F, Nat, g, n)
    BY <1>2, Iteration DEF Within
  <2> QED BY <2>1 DEF Orbit
<1>4. F = [j \in Nat |-> IF j = 0 THEN n ELSE F[j - 1] \div base]
  <2>1. ASSUME NEW j \in Nat PROVE F[j] = IF j = 0 THEN n ELSE F[j - 1] \div base
    <3>1. CASE j # 0
      <4>1. j - 1 \in Nat /\ (j - 1) + 1 = j
        BY <3>1
      <4>2. F[j] = g[<<j - 1, F[j - 1]>>] /\ F[j - 1] \in Nat
        BY <1>3, <4>1
      <4> QED BY <3>1, <4>1, <4>2
    <3> QED BY <1>3, <3>1
  <2> QED BY <1>3, <2>1
<1>5. left = [j \in Nat |-> IF j = 0 THEN n ELSE left[j - 1] \div base]
  BY <1>4, Zenon
<1>6. Format!Left(n, base) = left
  BY Zenon DEF Format!Left
<1> HIDE DEF left, g
<1>7. left[0] = n
  BY <1>5
<1>8. ASSUME NEW j \in Nat PROVE left[j + 1] = left[j] \div base
  <2>1. j + 1 \in Nat /\ j + 1 # 0 /\ (j + 1) - 1 = j
    OBVIOUS
  <2> QED BY <1>5, <2>1
<1> DEFINE T == {j \in Nat : left[j] \in Nat /\ (left[j] = 0 \/ left[j] + j <= n)}
<1>9. \A j \in Nat : j \in T
  <2>1. 0 \in T
    BY <1>7
  <2>2. ASSUME NEW j \in Nat, j \in T PROVE j + 1 \in T
    <3> DEFINE x == left[j]
    <3>1. x \in Nat /\ (x = 0 \/ x + j <= n) /\ left[j + 1] = x \div base
      BY <1>8, <2>2
    <3> HIDE DEF x
    <3>2. x \div base \in Nat /\ (x # 0 => x \div base < x) /\ (x = 0 => x \div base = 0)
      BY <1>1, <3>1 DEF Bases
    <3> DEFINE y == x \div base
    <3>3. y \in Nat /\ (y = 0 \/ y + (j + 1) <= n)
      <4> HIDE DEF y
      <4>1. y \in Nat /\ (x # 0 => y < x) /\ (x = 0 => y = 0)
        BY <3>2 DEF y
      <4> QED BY <3>1, <4>1
    <3>4. left[j + 1] = y
      BY <3>1
    <3> HIDE DEF y
    <3> QED BY <3>3, <3>4
  <2> HIDE DEF T
  <2> QED BY <2>1, <2>2, NatInduct
<1>10. \A j \in Nat : left[j] \in Nat /\ (left[j] = 0 \/ left[j] + j <= n)
  BY <1>9
<1>11. left[n + 1] = 0
  <2>1. left[n + 1] \in Nat /\ (left[n + 1] = 0 \/ left[n + 1] + (n + 1) <= n)
    BY <1>10
  <2> QED BY <2>1
<1> DEFINE Zero(i) == left[i] = 0 /\ \A j \in 1 .. i - 1 : left[j] # 0
           U == {m \in Nat : (\E i \in 1 .. m : left[i] = 0) => \E i \in 1 .. m : Zero(i)}
<1>12. \A m \in Nat : m \in U
  <2>1. 0 \in U
    OBVIOUS
  <2>2. ASSUME NEW m \in Nat, m \in U PROVE m + 1 \in U
    <3>1. CASE \E i \in 1 .. m : left[i] = 0
      BY <2>2, <3>1
    <3>2. CASE ~\E i \in 1 .. m : left[i] = 0
      <4>1. SUFFICES ASSUME NEW i \in 1 .. m + 1, left[i] = 0 PROVE Zero(m + 1)
        <5>1. m + 1 \in 1 .. m + 1
          OBVIOUS
        <5> HIDE DEF Zero
        <5> QED BY <4>1, <5>1
      <4>2. i = m + 1
        BY <3>2, <4>1
      <4> QED BY <3>2, <4>1, <4>2
    <3> QED BY <3>1, <3>2
  <2> HIDE DEF U
  <2> QED BY <2>1, <2>2, NatInduct
<1>13. \E i \in 1 .. left[0] + 1 : left[i] = 0 /\ \A j \in 1 .. i - 1 : left[j] # 0
  <2>1. n + 1 \in U /\ n + 1 \in 1 .. n + 1
    BY <1>12
  <2> QED BY <1>7, <1>11, <2>1
<1>14. Format!Divisions(left) \in 1 .. left[0] + 1 /\ left[Format!Divisions(left)] = 0
  BY <1>13, Zenon DEF Format!Divisions
<1>15. Format!Divisions(left) \in Nat \ {0}
  BY <1>7, <1>14
<1> QED BY <1>6, <1>7, <1>8, <1>10, <1>14, <1>15

(* A digit is at its value, as a small letter and as a capital.            *)
Hexes == {Format!Lower[d] : d \in 1 .. 16} \union {Format!Upper[d] : d \in 1 .. 16}

LEMMA HexDigits ==
  ASSUME NEW v \in 0 .. 15, NEW c \in {Format!Lower[v + 1], Format!Upper[v + 1]}
  PROVE  Format!isxdigit(c) /\ Format!Value(c) = v
<1> DEFINE l == Format!Lower
           u == Format!Upper
           d == v + 1
<1>1. DOMAIN l = 1 .. 16 /\ l[1] = "0" /\ l[2] = "1" /\ l[3] = "2" /\ l[4] = "3" /\ l[5] = "4"
      /\ l[6] = "5" /\ l[7] = "6" /\ l[8] = "7" /\ l[9] = "8" /\ l[10] = "9"
      /\ l[11] = "a" /\ l[12] = "b" /\ l[13] = "c" /\ l[14] = "d" /\ l[15] = "e" /\ l[16] = "f"
  BY DigitTables
<1>2. DOMAIN u = 1 .. 16 /\ u[1] = "0" /\ u[2] = "1" /\ u[3] = "2" /\ u[4] = "3" /\ u[5] = "4"
      /\ u[6] = "5" /\ u[7] = "6" /\ u[8] = "7" /\ u[9] = "8" /\ u[10] = "9"
      /\ u[11] = "A" /\ u[12] = "B" /\ u[13] = "C" /\ u[14] = "D" /\ u[15] = "E" /\ u[16] = "F"
  BY DigitTables
<1> HIDE DEF l, u
<1>3. d \in 1 .. 16 /\ (l[d] = c \/ u[d] = c) /\ d - 1 = v
  BY DEF l, u
<1> HIDE DEF d
<1>4. ASSUME NEW e \in 1 .. 16, l[e] = c \/ u[e] = c PROVE e = d
  <2>1. \A k \in 1 .. 16 : k \in {1, 2, 3, 4, 5, 6, 7, 8, 9, 10, 11, 12, 13, 14, 15, 16}
    OBVIOUS
  <2> QED BY <1>1, <1>2, <1>3, <1>4, <2>1
<1>5. Format!isxdigit(c)
  BY <1>1, <1>2, <1>3 DEF Format!isxdigit, Format!In, l, u
<1>6. (CHOOSE e \in 1 .. 16 : l[e] = c \/ u[e] = c) = d
  BY <1>3, <1>4
<1>7. Format!Value(c) = d - 1
  BY <1>6 DEF Format!Value, l, u
<1> QED BY <1>3, <1>5, <1>7

LEMMA HexesAre ==
  ASSUME NEW c
  PROVE  /\ c \in Hexes <=> Format!isxdigit(c)
         /\ c \in {" ", "+", "-", "x", "X", "NUL"} => c \notin Hexes
<1> DEFINE l == Format!Lower
           u == Format!Upper
<1>1. DOMAIN l = 1 .. 16 /\ l[1] = "0" /\ l[2] = "1" /\ l[3] = "2" /\ l[4] = "3" /\ l[5] = "4"
      /\ l[6] = "5" /\ l[7] = "6" /\ l[8] = "7" /\ l[9] = "8" /\ l[10] = "9"
      /\ l[11] = "a" /\ l[12] = "b" /\ l[13] = "c" /\ l[14] = "d" /\ l[15] = "e" /\ l[16] = "f"
  BY DigitTables
<1>2. DOMAIN u = 1 .. 16 /\ u[1] = "0" /\ u[2] = "1" /\ u[3] = "2" /\ u[4] = "3" /\ u[5] = "4"
      /\ u[6] = "5" /\ u[7] = "6" /\ u[8] = "7" /\ u[9] = "8" /\ u[10] = "9"
      /\ u[11] = "A" /\ u[12] = "B" /\ u[13] = "C" /\ u[14] = "D" /\ u[15] = "E" /\ u[16] = "F"
  BY DigitTables
<1> HIDE DEF l, u
<1>3. c \in Hexes <=> \E d \in 1 .. 16 : l[d] = c \/ u[d] = c
  BY DEF Hexes, l, u
<1>4. Format!isxdigit(c) <=> \E d \in 1 .. 16 : l[d] = c \/ u[d] = c
  BY <1>1, <1>2 DEF Format!isxdigit, Format!In, l, u
<1>5. \A d \in 1 .. 16 : d \in {1, 2, 3, 4, 5, 6, 7, 8, 9, 10, 11, 12, 13, 14, 15, 16}
  OBVIOUS
<1>6. ASSUME NEW d \in 1 .. 16
      PROVE  /\ l[d] \in {"0", "1", "2", "3", "4", "5", "6", "7", "8", "9", "a", "b", "c", "d", "e", "f"}
             /\ u[d] \in {"0", "1", "2", "3", "4", "5", "6", "7", "8", "9", "A", "B", "C", "D", "E", "F"}
  BY <1>1, <1>2, <1>5
<1>7. ASSUME c \in {" ", "+", "-", "x", "X", "NUL"}, NEW d \in 1 .. 16 PROVE l[d] # c /\ u[d] # c
  BY <1>6, <1>7
<1> QED BY <1>3, <1>4, <1>7

LEMMA RepeatIs ==
  ASSUME NEW c, NEW n \in Int
  PROVE  LET r == Format!Repeat(c, n)
         IN r \in Seq({c}) /\ Len(r) = (IF n > 0 THEN n ELSE 0) /\ \A j \in 1 .. Len(r) : r[j] = c
BY DEF Format!Repeat

(* A string of digits with the number it comes to, digit by digit.         *)
Adds(v, t, base, n) ==
  /\ v[0] = 0 /\ v[Len(t)] = n
  /\ \A j \in 0 .. Len(t) : v[j] \in Nat
  /\ \A j \in 0 .. Len(t) - 1 : v[j + 1] = v[j] * base + Format!Value(t[j + 1])
Numeral(t, base, n) ==
  /\ t \in Seq(Hexes) /\ Len(t) > 0
  /\ \A j \in 1 .. Len(t) : Format!Value(t[j]) \in Nat /\ Format!Value(t[j]) < base
  /\ \E v : Adds(v, t, base, n)

(* The remainders are the digits of the number.                            *)
LEMMA DigitsAre ==
  ASSUME NEW n \in Nat, NEW base \in Bases
  PROVE  Numeral(Format!DigitsOf(n, base), base, n)
<1> DEFINE left == Format!Left(n, base)
           i == Format!Divisions(left)
           t == Format!DigitsOf(n, base)
           v == [j \in 0 .. i |-> left[i - j]]
<1>1. left[0] = n /\ (\A j \in Nat : left[j] \in Nat /\ left[j + 1] = left[j] \div base) /\ i \in Nat /\ i > 0 /\ left[i] = 0
  BY LeftFalls
<1>2. t = [j \in 1 .. i |-> Format!Lower[(left[i - j] % base) + 1]]
  BY DEF Format!DigitsOf
<1> HIDE DEF left, i, t
<1>3. base \in Nat /\ base > 0 /\ base <= 16
  BY DEF Bases
<1>4. ASSUME NEW j \in 1 .. i
      PROVE  /\ i - j \in Nat /\ left[i - j] % base \in 0 .. 15 /\ left[i - j] % base < base
             /\ t[j] \in Hexes /\ Format!Value(t[j]) = left[i - j] % base
  <2> DEFINE x == left[i - j]
             r == x % base
  <2>1. i - j \in Nat /\ x \in Nat
    BY <1>1
  <2> HIDE DEF x
  <2>2. r \in 0 .. 15 /\ r < base
    BY <1>3, <2>1
  <2>3. t[j] = Format!Lower[r + 1]
    BY <1>2 DEF x
  <2> HIDE DEF r
  <2>4. Format!isxdigit(t[j]) /\ Format!Value(t[j]) = r
    BY <2>2, <2>3, HexDigits
  <2> QED BY <2>1, <2>2, <2>4, HexesAre DEF r, x
<1>5. t \in Seq(Hexes) /\ Len(t) = i
  BY <1>1, <1>2, <1>4
<1>6. Adds(v, t, base, n)
  <2>1. v[0] = 0 /\ v[i] = n
    BY <1>1
  <2>2. ASSUME NEW j \in 0 .. i PROVE v[j] \in Nat
    BY <1>1, <2>2
  <2>3. ASSUME NEW j \in 0 .. i - 1 PROVE v[j + 1] = v[j] * base + Format!Value(t[j + 1])
    <3> DEFINE x == left[i - (j + 1)]
               y == left[i - j]
    <3>1. j + 1 \in 1 .. i /\ i - (j + 1) \in Nat /\ (i - (j + 1)) + 1 = i - j /\ v[j + 1] = x /\ v[j] = y
      <4>1. \A k \in 0 .. i : v[k] = left[i - k]
        OBVIOUS
      <4> HIDE DEF v
      <4>2. j + 1 \in 0 .. i /\ j \in 0 .. i /\ j + 1 \in 1 .. i /\ i - (j + 1) \in Nat /\ (i - (j + 1)) + 1 = i - j
        BY <1>1
      <4> QED BY <4>1, <4>2
    <3>2. x \in Nat /\ y = x \div base /\ Format!Value(t[j + 1]) = x % base
      BY <1>1, <1>4, <3>1
    <3> HIDE DEF x, y, v
    <3>3. x = base * (x \div base) + (x % base)
      BY <1>3, <3>2
    <3>4. x \div base \in Nat /\ x % base \in Nat
      BY <1>3, <3>2
    <3>5. base * (x \div base) = (x \div base) * base
      BY <1>3, <3>4
    <3> QED BY <3>1, <3>2, <3>3, <3>5
  <2> HIDE DEF v
  <2> QED BY <1>5, <2>1, <2>2, <2>3 DEF Adds
<1> HIDE DEF v
<1>7. \E w : Adds(w, t, base, n)
  BY <1>6
<1>8. \A j \in 1 .. Len(t) : Format!Value(t[j]) \in Nat /\ Format!Value(t[j]) < base
  BY <1>4, <1>5
<1>9. Numeral(t, base, n)
  BY <1>1, <1>5, <1>7, <1>8 DEF Numeral
<1> QED BY <1>9 DEF t

(* Zeros before it do not change the number.                               *)
LEMMA ZerosBefore ==
  ASSUME NEW t, NEW base \in Bases, NEW n, Numeral(t, base, n), NEW k \in Int
  PROVE  /\ Numeral(Format!Repeat("0", k) \o t, base, n)
         /\ Len(Format!Repeat("0", k) \o t) = (IF k > 0 THEN k ELSE 0) + Len(t)
<1> DEFINE z == Format!Repeat("0", k)
           m == Len(z)
           s == z \o t
<1>1. Format!isxdigit("0") /\ Format!Value("0") = 0 /\ "0" \in Hexes
  <2>1. "0" \in {Format!Lower[0 + 1], Format!Upper[0 + 1]} /\ 0 \in 0 .. 15
    BY DigitTables
  <2>2. Format!isxdigit("0") /\ Format!Value("0") = 0
    BY <2>1, HexDigits
  <2> QED BY <2>2, HexesAre
<1>2. z \in Seq(Hexes) /\ m \in Nat /\ m = (IF k > 0 THEN k ELSE 0) /\ \A j \in 1 .. m : z[j] = "0"
  <2>1. z \in Seq({"0"}) /\ m = (IF k > 0 THEN k ELSE 0) /\ \A j \in 1 .. m : z[j] = "0"
    BY RepeatIs
  <2>2. z \in Seq(Hexes)
    BY <1>1, <2>1, SeqMonotonic
  <2> QED BY <2>1, <2>2
<1> HIDE DEF z
<1>3. PICK v : Adds(v, t, base, n)
  BY DEF Numeral
<1>4. t \in Seq(Hexes) /\ Len(t) \in Nat /\ Len(t) > 0
  BY DEF Numeral
<1>5. s \in Seq(Hexes) /\ Len(s) = m + Len(t) /\ \A j \in 1 .. m + Len(t) : s[j] = IF j <= m THEN z[j] ELSE t[j - m]
  BY <1>2, <1>4, ConcatProperties
<1> HIDE DEF s
<1>6. ASSUME NEW j \in 1 .. Len(s) PROVE Format!Value(s[j]) \in Nat /\ Format!Value(s[j]) < base
  <2>1. CASE j <= m
    <3>1. s[j] = "0"
      BY <1>2, <1>4, <1>5, <2>1
    <3> QED BY <1>1, <3>1 DEF Bases
  <2>2. CASE j > m
    <3>1. s[j] = t[j - m] /\ j - m \in 1 .. Len(t)
      BY <1>2, <1>4, <1>5, <2>2
    <3> QED BY <3>1 DEF Numeral
  <2> QED BY <1>2, <1>4, <1>5, <2>1, <2>2
<1> DEFINE w == [j \in 0 .. m + Len(t) |-> IF j <= m THEN 0 ELSE v[j - m]]
<1>7. Adds(w, s, base, n)
  <2>1. v[0] = 0 /\ v[Len(t)] = n /\ (\A j \in 0 .. Len(t) : v[j] \in Nat)
        /\ \A j \in 0 .. Len(t) - 1 : v[j + 1] = v[j] * base + Format!Value(t[j + 1])
    BY <1>3 DEF Adds
  <2>2. w[0] = 0 /\ w[m + Len(t)] = n
    BY <1>2, <1>4, <2>1
  <2>3. ASSUME NEW j \in 0 .. m + Len(t) PROVE w[j] \in Nat
    BY <1>2, <1>4, <2>1
  <2>4. ASSUME NEW j \in 0 .. m + Len(t) - 1 PROVE w[j + 1] = w[j] * base + Format!Value(s[j + 1])
    <3>1. CASE j < m
      <4>1. s[j + 1] = "0" /\ w[j + 1] = 0 /\ w[j] = 0
        BY <1>2, <1>4, <1>5, <3>1
      <4> HIDE DEF w
      <4> QED BY <1>1, <4>1 DEF Bases
    <3>2. CASE j >= m
      <4>1. s[j + 1] = t[(j - m) + 1] /\ w[j + 1] = v[(j - m) + 1] /\ w[j] = v[j - m] /\ j - m \in 0 .. Len(t) - 1
        <5>1. j - m \in 0 .. Len(t) - 1 /\ (j + 1) - m = (j - m) + 1 /\ ~(j + 1 <= m) /\ j + 1 \in 1 .. m + Len(t)
          BY <1>2, <1>4, <3>2
        <5>2. j <= m => j - m = 0
          BY <1>2, <3>2
        <5> QED BY <1>5, <2>1, <5>1, <5>2
      <4> HIDE DEF w
      <4> QED BY <2>1, <4>1
    <3> QED BY <1>2, <3>1, <3>2
  <2> HIDE DEF w
  <2> QED BY <1>5, <2>2, <2>3, <2>4 DEF Adds
<1> HIDE DEF w
<1>8. Len(s) > 0
  BY <1>2, <1>4, <1>5
<1>9. Numeral(s, base, n)
  BY <1>5, <1>6, <1>7, <1>8 DEF Numeral
<1> QED BY <1>2, <1>5, <1>9 DEF s, z

(* Capitals are worth the same.                                            *)
LEMMA CapitalsSame ==
  ASSUME NEW t, NEW base \in Bases, NEW n, Numeral(t, base, n)
  PROVE  Numeral(Format!Capital(t), base, n) /\ Len(Format!Capital(t)) = Len(t)
<1> DEFINE s == Format!Capital(t)
<1>1. t \in Seq(Hexes) /\ Len(t) \in Nat /\ DOMAIN t = 1 .. Len(t) /\ \A j \in 1 .. Len(t) : t[j] \in Hexes
  BY LenProperties, ElementOfSeq DEF Numeral
<1>2. ASSUME NEW j \in 1 .. Len(t) PROVE s[j] \in Hexes /\ Format!Value(s[j]) = Format!Value(t[j])
  <2> DEFINE v == Format!Value(t[j])
  <2>1. Format!isxdigit(t[j]) /\ v \in 0 .. 15
    BY <1>1, HexesAre, Values
  <2>2. s[j] = Format!Upper[v + 1]
    BY <1>1, <2>1 DEF Format!Capital
  <2> HIDE DEF v, s
  <2>3. Format!isxdigit(s[j]) /\ Format!Value(s[j]) = v
    BY <2>1, <2>2, HexDigits
  <2> QED BY <2>3, HexesAre DEF v
<1>3. s \in Seq(Hexes) /\ Len(s) = Len(t)
  <2>1. s = [j \in 1 .. Len(t) |-> s[j]]
    BY <1>1 DEF Format!Capital
  <2> HIDE DEF s
  <2> QED BY <1>1, <1>2, <2>1
<1> HIDE DEF s
<1>4. PICK v : Adds(v, t, base, n)
  BY DEF Numeral
<1>5. Adds(v, s, base, n)
  <2>1. \A j \in 0 .. Len(t) - 1 : Format!Value(s[j + 1]) = Format!Value(t[j + 1])
    <3>1. \A j \in 0 .. Len(t) - 1 : j + 1 \in 1 .. Len(t)
      BY <1>1
    <3> QED BY <1>2, <3>1
  <2> QED BY <1>3, <1>4, <2>1 DEF Adds
<1>6. Numeral(s, base, n)
  BY <1>2, <1>3, <1>5 DEF Numeral
<1> QED BY <1>3, <1>6 DEF s

(* What is left of a number in so many bits.                               *)
Cropped(n, limit) == n % limit

(* Digits() reads a numeral that ends there.                               *)
Readable(s, i, base, n, t, limit) ==
  /\ Len(s) \in Nat /\ i \in Nat /\ i > 0 /\ base \in Bases /\ n \in Nat
  /\ Numeral(t, base, n) /\ limit \in Nat /\ limit > 0 /\ Len(t) + i <= Len(s) + 1
  /\ \A j \in 0 .. Len(t) - 1 : Format!At(s, i + j) = t[j + 1]
  /\ Format!At(s, i + Len(t)) \notin Hexes

LEMMA ReadsNumeral ==
  ASSUME NEW s, NEW i, NEW base, NEW n, NEW t, NEW limit, Readable(s, i, base, n, t, limit)
  PROVE  Format!Digits(s, i, base, limit) = [value |-> Cropped(n, limit), end |-> i + Len(t)]
<1>a. /\ Len(s) \in Nat /\ i \in Nat /\ i > 0 /\ base \in Bases /\ n \in Nat
      /\ Numeral(t, base, n) /\ limit \in Nat /\ limit > 0 /\ Len(t) + i <= Len(s) + 1
      /\ \A j \in 0 .. Len(t) - 1 : Format!At(s, i + j) = t[j + 1]
      /\ Format!At(s, i + Len(t)) \notin Hexes
  BY DEF Readable
<1> USE <1>a
<1> DEFINE m == Len(t)
<1>1. m \in Nat /\ base \in Nat /\ m <= Len(s) /\ \A j \in 0 .. m - 1 : t[j + 1] \in Hexes
  <2>1. m \in Nat /\ \A j \in 1 .. m : t[j] \in Hexes
    BY LenProperties, ElementOfSeq DEF Numeral
  <2>2. \A j \in 0 .. m - 1 : j + 1 \in 1 .. m
    BY <2>1
  <2> QED BY <2>1, <2>2 DEF Bases
<1>0. \A c : c \in Hexes <=> Format!isxdigit(c)
  BY HexesAre
<1>2. PICK f : Follows(f, s, i, base, limit) /\ Format!Digits(s, i, base, limit) = f[Len(s)]
  <2>1. i \in Nat /\ base \in Nat /\ limit \in Nat /\ limit > 0
    BY <1>1
  <2> QED BY ONLY <2>1, DigitsSteps, Zenon
<1>3. PICK v : Adds(v, t, base, n)
  BY DEF Numeral
<1>4. ASSUME NEW j \in 0 .. m - 1
      PROVE  DigitAt(s, i + j, base) /\ Format!Value(Format!At(s, i + j)) = Format!Value(t[j + 1]) /\ Format!Value(t[j + 1]) \in Nat
  <2>1. Format!At(s, i + j) = t[j + 1] /\ j + 1 \in 1 .. m /\ Format!isxdigit(t[j + 1])
    BY <1>0, <1>1
  <2>2. Format!Value(t[j + 1]) < base /\ Format!Value(t[j + 1]) \in Nat
    BY <2>1 DEF Numeral
  <2> QED BY <2>1, <2>2 DEF DigitAt
<1>5. \A j \in Nat : f[j + 1] = IF DigitAt(s, i + j, base) /\ f[j].end = i + j
                    THEN [value |-> (f[j].value * base + Format!Value(Format!At(s, i + j))) % limit, end |-> i + (j + 1)]
                    ELSE f[j]
  BY <1>2 DEF Follows
<1>6. f[0] = [value |-> 0, end |-> i]
  BY <1>2 DEF Follows
<1> DEFINE T == {j \in Nat : j <= m => f[j] = [value |-> v[j] % limit, end |-> i + j]}
<1>7. 0 \in T
  <2>1. v[0] % limit = 0
    BY <1>3 DEF Adds
  <2> QED BY <1>6, <2>1
<1>8. ASSUME NEW j \in Nat, j \in T PROVE j + 1 \in T
  <2>1. SUFFICES ASSUME j + 1 <= m PROVE f[j + 1] = [value |-> v[j + 1] % limit, end |-> i + (j + 1)]
    OBVIOUS
  <2>2. j \in 0 .. m - 1 /\ f[j] = [value |-> v[j] % limit, end |-> i + j]
    BY <1>1, <1>8, <2>1
  <2> DEFINE a == v[j]
             c == Format!Value(t[j + 1])
  <2>3. a \in Nat /\ c \in Nat /\ v[j + 1] = a * base + c
    BY <1>3, <1>4, <2>2 DEF Adds
  <2>4. f[j + 1] = [value |-> Cut(a % limit, base, c, limit), end |-> i + (j + 1)]
    <3>1. f[j].end = i + j /\ f[j].value = a % limit /\ DigitAt(s, i + j, base) /\ Format!Value(Format!At(s, i + j)) = c
      BY <1>4, <2>2
    <3> HIDE DEF a, c
    <3> QED BY <1>5, <3>1 DEF Cut
  <2> HIDE DEF a, c
  <2>5. Cut(a % limit, base, c, limit) = Cut(a, base, c, limit)
    BY <1>1, <2>3, CutBefore
  <2>6. Cut(a, base, c, limit) = v[j + 1] % limit
    BY <2>3 DEF Cut
  <2> QED BY <2>4, <2>5, <2>6
<1>9. f[m] = [value |-> n % limit, end |-> i + m]
  <2>1. m \in T
    <3> HIDE DEF T
    <3> QED BY <1>1, <1>7, <1>8, NatInduct
  <2>2. v[m] = n
    BY <1>3 DEF Adds
  <2> QED BY <1>1, <2>1, <2>2
<1> DEFINE U == {k \in Nat : f[m + k] = f[m]}
<1>10. 0 \in U
  BY <1>1
<1>11. ASSUME NEW k \in Nat, k \in U PROVE k + 1 \in U
  <2>1. f[m + k].end = i + m /\ m + k \in Nat /\ (m + k) + 1 = m + (k + 1)
    BY <1>1, <1>9, <1>11
  <2>2. ~(DigitAt(s, i + (m + k), base) /\ f[m + k].end = i + (m + k))
    <3>1. CASE k = 0
      <4>1. ~Format!isxdigit(Format!At(s, i + m)) /\ i + (m + k) = i + m
        BY <1>0, <1>1, <3>1
      <4> QED BY <4>1 DEF DigitAt
    <3>2. CASE k # 0
      BY <1>1, <2>1, <3>2
    <3> QED BY <3>1, <3>2
  <2>3. f[(m + k) + 1] = f[m + k]
    BY <1>5, <2>1, <2>2
  <2> QED BY <1>11, <2>1, <2>3
<1>12. Len(s) - m \in U
  <2>1. Len(s) - m \in Nat
    BY <1>1
  <2> HIDE DEF U
  <2> QED BY <1>10, <1>11, <2>1, NatInduct
<1>13. f[Len(s)] = f[m]
  <2>1. m + (Len(s) - m) = Len(s)
    BY <1>1
  <2> QED BY <1>12, <2>1
<1> QED BY <1>2, <1>9, <1>13 DEF Cropped

(* What number() writes: what is passed over, a minus, the prefix, the     *)
(* digits and the pad behind them.                                         *)
Letters == Hexes \union {" ", "+", "-", "x", "X"}
Amount(n, type) == IF "SIGN" \in type /\ n < 0 THEN -n ELSE n % 2^LongLongBits
Scripts == Seq(Letters)
Glue(x, y) == x \o y
Composed(w, n, base, size, prec, type, a, g, p, t, z) ==
  /\ w = Glue(a, Glue(g, Glue(p, Glue(t, z))))
  /\ a \in Seq({" ", "+"}) /\ z \in Seq({" "}) /\ g \in Seq({"-"}) /\ p \in Seq({"0", "x", "X"})
  /\ g = IF "SIGN" \in type /\ n < 0 THEN <<"-">> ELSE <<>>
  /\ Numeral(t, base, Amount(n, type)) /\ Amount(n, type) \in Nat
  /\ "SPECIAL" \notin type \/ base = 10 => p = <<>>
  /\ "SPECIAL" \in type /\ base = 8 => p = <<"0">>
  /\ "SPECIAL" \in type /\ base = 16 /\ "LARGE" \notin type => p = <<"0", "x">>
  /\ prec <= Len(t) /\ size <= Len(a) + (Len(g) + (Len(p) + (Len(t) + Len(z))))
  /\ size >= -1 /\ size < Len(a) + (Len(g) + (Len(p) + (Len(t) + Len(z)))) => Len(a) <= 1 /\ z = <<>>
  /\ "LEFT" \in type => a \in {<<>>, <<"+">>} \/ (a = <<" ">> /\ "SPACE" \in type)

LEMMA ShortSequences ==
  ASSUME NEW S, NEW c \in S, NEW d \in S
  PROVE  /\ <<c>> \in Seq(S) /\ Len(<<c>>) = 1 /\ <<c>>[1] = c
         /\ <<c, d>> \in Seq(S) /\ Len(<<c, d>>) = 2 /\ <<c, d>>[1] = c /\ <<c, d>>[2] = d
OBVIOUS

LEMMA PrefixLarge ==
  ASSUME NEW base \in Bases, NEW type
  PROVE  LET p == Format!Prefix(base, type)
             q == IF "LARGE" \in type THEN Format!Capital(p) ELSE p
         IN /\ q \in Seq({"0", "x", "X"}) /\ Len(q) = Len(p) /\ Len(p) \in Nat
            /\ "SPECIAL" \notin type \/ base = 10 => q = <<>>
            /\ "SPECIAL" \in type /\ base = 8 => q = <<"0">>
            /\ "SPECIAL" \in type /\ base = 16 /\ "LARGE" \notin type => q = <<"0", "x">>
<1> DEFINE p == Format!Prefix(base, type)
           q == IF "LARGE" \in type THEN Format!Capital(p) ELSE p
<1>1. Format!isxdigit("0") /\ Format!Upper[Format!Value("0") + 1] = "0" /\ ~Format!isxdigit("x")
  <2>1. "0" \in {Format!Lower[0 + 1], Format!Upper[0 + 1]} /\ 0 \in 0 .. 15 /\ Format!Upper[0 + 1] = "0"
    BY DigitTables
  <2>2. Format!isxdigit("0") /\ Format!Value("0") = 0
    BY <2>1, HexDigits
  <2>3. "x" \in {" ", "+", "-", "x", "X", "NUL"}
    OBVIOUS
  <2> QED BY <2>1, <2>2, <2>3, HexesAre
<1>2. CASE "SPECIAL" \notin type \/ base = 10
  <2>1. Format!Prefix(base, type) = <<>>
    BY <1>2 DEF Format!Prefix
  <2>2. Format!Capital(<<>>) = <<>>
    BY DEF Format!Capital
  <2>3. p = <<>> /\ q = <<>>
    BY <2>1, <2>2
  <2>4. <<>> \in Seq({"0", "x", "X"}) /\ Len(<<>>) = 0
    BY EmptySeq
  <2> HIDE DEF p, q
  <2>5. q \in Seq({"0", "x", "X"}) /\ Len(q) = Len(p) /\ Len(p) \in Nat /\ q = <<>>
    BY <2>3, <2>4
  <2> QED BY <1>2, <2>5 DEF p, q
<1>3. CASE "SPECIAL" \in type /\ base = 8
  <2>1. Format!Prefix(base, type) = <<"0">>
    BY <1>3 DEF Format!Prefix
  <2>2. Format!Capital(<<"0">>) = <<"0">>
    BY <1>1 DEF Format!Capital
  <2>3. p = <<"0">> /\ q = <<"0">>
    BY <2>1, <2>2
  <2> HIDE DEF p, q
  <2>4. q \in Seq({"0", "x", "X"}) /\ Len(q) = Len(p) /\ Len(p) \in Nat /\ q = <<"0">>
    BY <2>3
  <2> QED BY <1>3, <2>4 DEF p, q
<1>4. CASE "SPECIAL" \in type /\ base = 16
  <2>1. Format!Prefix(base, type) = <<"0", "x">>
    BY <1>4 DEF Format!Prefix
  <2>2. Format!Capital(<<"0", "x">>) = <<"0", "X">>
    BY <1>1 DEF Format!Capital
  <2>3. p = <<"0", "x">> /\ q = IF "LARGE" \in type THEN <<"0", "X">> ELSE <<"0", "x">>
    BY <2>1, <2>2
  <2> HIDE DEF p, q
  <2>4. q \in Seq({"0", "x", "X"}) /\ Len(q) = Len(p) /\ Len(p) \in Nat /\ ("LARGE" \notin type => q = <<"0", "x">>)
    <3>1. /\ <<"0", "x">> \in Seq({"0", "x", "X"}) /\ Len(<<"0", "x">>) = 2
          /\ <<"0", "X">> \in Seq({"0", "x", "X"}) /\ Len(<<"0", "X">>) = 2
      BY ShortSequences
    <3> QED BY <2>3, <3>1
  <2> QED BY <1>4, <2>4 DEF p, q
<1> QED BY <1>2, <1>3, <1>4 DEF Bases

LEMMA SignSplits ==
  ASSUME NEW n \in Int, NEW type
  PROVE  LET sign == Format!Sign(n, type)
             a == IF sign = <<"-">> THEN <<>> ELSE sign
             g == IF "SIGN" \in type /\ n < 0 THEN <<"-">> ELSE <<>>
         IN /\ sign = <<"-">> <=> "SIGN" \in type /\ n < 0
            /\ sign = a \o g /\ Len(sign) = Len(a) + Len(g) /\ Len(a) \in 0 .. 1 /\ Len(g) \in 0 .. 1
            /\ a \in {<<>>, <<"+">>} \/ (a = <<" ">> /\ "SPACE" \in type)
            /\ a \in Seq({" ", "+"}) /\ g \in Seq({"-"})
<1>1. <<"-">> # <<>> /\ <<"-">> # <<"+">> /\ <<"-">> # <<" ">>
  OBVIOUS
<1>4. 0 \in 0 .. 1 /\ \A k \in 0 .. 1 : k + 0 = k
  OBVIOUS
<1>2. CASE "SIGN" \in type /\ n < 0
  <2>1. Format!Sign(n, type) = <<"-">>
    BY <1>2 DEF Format!Sign
  <2> QED BY <1>2, <2>1
<1>3. CASE ~("SIGN" \in type /\ n < 0)
  <2>1. Format!Sign(n, type) \in {<<>>, <<"+">>} \/ (Format!Sign(n, type) = <<" ">> /\ "SPACE" \in type)
    BY <1>3 DEF Format!Sign
  <2>2. Format!Sign(n, type) # <<"-">>
    BY <1>1, <2>1
  <2>3. \A s \in {<<>>, <<"+">>, <<" ">>} : s = s \o <<>> /\ Len(s) = Len(s) + Len(<<>>) /\ Len(s) \in 0 .. 1 /\ Len(<<>>) \in 0 .. 1
            /\ s \in Seq({" ", "+"}) /\ <<>> \in Seq({"-"})
    <3>1. <<>> \in Seq({" ", "+"}) /\ <<>> \in Seq({"-"}) /\ Len(<<>>) = 0
      BY EmptySeq
    <3>2. \A s \in {<<>>, <<"+">>, <<" ">>} : s \in Seq({" ", "+"}) /\ Len(s) \in 0 .. 1
      <4>1. /\ <<" ">> \in Seq({" ", "+"}) /\ Len(<<" ">>) \in 0 .. 1 /\ <<"+">> \in Seq({" ", "+"}) /\ Len(<<"+">>) \in 0 .. 1
            /\ Len(<<>>) \in 0 .. 1
        BY <3>1, ShortSequences
      <4> QED BY <3>1, <4>1
    <3>3. \A s \in Seq({" ", "+"}) : s \o <<>> = s
      BY ConcatEmptySeq
    <3> TAKE s \in {<<>>, <<"+">>, <<" ">>}
    <3>4. s \in Seq({" ", "+"}) /\ Len(s) \in 0 .. 1
      BY <3>2
    <3>5. s \o <<>> = s
      BY <3>3, <3>4
    <3>6. Len(s) = Len(s) + Len(<<>>) /\ Len(<<>>) \in 0 .. 1
      <4>1. Len(s) + 0 = Len(s)
        BY <3>4, <1>4, Zenon
      <4> QED BY <3>1, <1>4, <4>1, Zenon
    <3> QED BY <3>1, <3>4, <3>5, <3>6
  <2>4. Format!Sign(n, type) \in {<<>>, <<"+">>, <<" ">>}
    BY <2>1
  <2> QED BY <1>3, <2>1, <2>2, <2>3, <2>4
<1> QED BY <1>2, <1>3


(* Pieces of letters put together in either order.                         *)
LEMMA GlueAssociates ==
  /\ \A x, y \in Scripts : Glue(x, y) \in Scripts
  /\ \A x, y, v \in Scripts : Glue(Glue(x, y), v) = Glue(x, Glue(y, v))
  /\ \A x \in Scripts : Glue(x, <<>>) = x
<1>1. \A x, y \in Scripts : Glue(x, y) \in Scripts
  BY ConcatProperties DEF Scripts, Glue
<1>2. ASSUME NEW x \in Scripts, NEW y \in Scripts, NEW v \in Scripts PROVE Glue(Glue(x, y), v) = Glue(x, Glue(y, v))
  <2>1. (x \o y) \o v = x \o (y \o v)
    BY ConcatAssociative DEF Scripts
  <2> QED BY <2>1 DEF Glue
<1>3. \A x \in Scripts : Glue(x, <<>>) = x
  BY ConcatEmptySeq DEF Scripts, Glue
<1> QED BY <1>1, <1>2, <1>3

LEMMA Joined ==
  ASSUME NEW a \in Scripts, NEW g \in Scripts, NEW p \in Scripts, NEW d \in Scripts, NEW z \in Scripts
  PROVE  /\ Glue(Glue(a, g), p) = Glue(a, Glue(g, p)) /\ Glue(z, <<>>) = z
         /\ Glue(Glue(Glue(a, Glue(g, p)), d), z) = Glue(a, Glue(g, Glue(p, Glue(d, z))))
         /\ Glue(Glue(Glue(a, Glue(g, p)), z), d) = Glue(a, Glue(g, Glue(p, Glue(z, d))))
         /\ Glue(Glue(z, Glue(a, Glue(g, p))), d) = Glue(Glue(z, a), Glue(g, Glue(p, d)))
         /\ Glue(z, d) \in Scripts
<1> DEFINE gp == Glue(g, p)
<1>1. gp \in Scripts /\ Glue(d, z) \in Scripts /\ Glue(z, d) \in Scripts /\ Glue(z, a) \in Scripts /\ Glue(a, gp) \in Scripts
  BY GlueAssociates
<1>2. \A y \in Scripts : Glue(gp, y) = Glue(g, Glue(p, y)) /\ Glue(a, Glue(gp, y)) = Glue(Glue(a, gp), y)
  BY <1>1, GlueAssociates
<1>3. Glue(Glue(Glue(a, gp), d), z) = Glue(Glue(a, gp), Glue(d, z)) /\ Glue(Glue(Glue(a, gp), z), d) = Glue(Glue(a, gp), Glue(z, d))
  BY <1>1, GlueAssociates
<1>4. Glue(z, Glue(a, gp)) = Glue(Glue(z, a), gp) /\ Glue(Glue(Glue(z, a), gp), d) = Glue(Glue(z, a), Glue(gp, d))
  BY <1>1, GlueAssociates
<1> QED BY <1>1, <1>2, <1>3, <1>4, GlueAssociates

LEMMA JoinedBehind ==
  \A a, g, p, d, z \in Scripts :
    Glue(Glue(Glue(a, Glue(g, p)), z), d) = Glue(a, Glue(g, Glue(p, Glue(z, d)))) /\ Glue(z, d) \in Scripts
BY Joined

LEMMA JoinedBefore ==
  \A a, g, p, d, z \in Scripts : Glue(Glue(z, Glue(a, Glue(g, p))), d) = Glue(Glue(z, a), Glue(g, Glue(p, d)))
BY Joined

(* The room that is left is padded.                                        *)
LEMMA RoomFilled ==
  ASSUME NEW size \in Int, NEW la \in Nat, NEW lg \in Nat, NEW lp \in Nat, NEW ld \in Nat, NEW room \in Int,
         size >= -1 => room = size - (la + (lg + (lp + ld))), NEW lz, lz = IF room > 0 THEN room ELSE 0
  PROVE  /\ size <= la + (lg + (lp + (ld + lz))) /\ (size >= -1 /\ size < la + (lg + (lp + (ld + lz))) => lz = 0)
         /\ size <= la + (lg + (lp + ((lz + ld) + 0))) /\ size <= (lz + la) + (lg + (lp + (ld + 0)))
         /\ (size >= -1 /\ size < (lz + la) + (lg + (lp + (ld + 0))) => lz = 0)
         /\ lz \in Nat /\ 0 + la = la
OBVIOUS

(* What is left of a width: no less than what it says, unless it wraps.    *)
LEMMA RoomIs ==
  ASSUME NEW size \in Int, NEW taken \in Int
  PROVE  /\ Format!Room(size, taken) \in Int /\ Format!Room(size, taken) >= size - taken
         /\ size >= -1 => Format!Room(size, taken) = size - taken
<1> DEFINE L == 2^IntBits
<1>1. L \in Nat
  BY Limits
<1>2. Format!Room(size, taken) = IF size = Format!Least THEN size - taken + L ELSE size - taken
  BY Zenon DEF Format!Room
<1> HIDE DEF L
<1> QED BY <1>1, <1>2, LeastIs

LEMMA NumberComposed ==
  ASSUME NEW n \in Int, NEW base \in Bases, NEW size \in Int, NEW prec \in Int, NEW type
  PROVE  \E a, g, p, t, z : Composed(Format!number(n, base, size, prec, type), n, base, size, prec, type, a, g, p, t, z)
<1> DEFINE sign == Format!Sign(n, type)
           prefix == Format!Prefix(base, type)
           digits == Format!DigitsOf(IF sign = <<"-">> THEN -n ELSE n % 2^LongLongBits, base)
           body == Format!Repeat("0", prec - Len(digits)) \o digits
           room == Format!Room(size, Len(sign) + Len(prefix) + Len(body))
           large(s) == IF "LARGE" \in type THEN Format!Capital(s) ELSE s
           front == sign \o large(prefix)
           w == Format!number(n, base, size, prec, type)
           m == Amount(n, type)
           a == IF sign = <<"-">> THEN <<>> ELSE sign
           g == IF "SIGN" \in type /\ n < 0 THEN <<"-">> ELSE <<>>
           p == large(prefix)
           d == large(body)
           L == 2^LongLongBits
<1>1. w = IF "LEFT" \in type THEN Glue(Glue(front, d), Format!Repeat(" ", room))
          ELSE IF "ZEROPAD" \in type THEN Glue(Glue(front, Format!Repeat("0", room)), d)
          ELSE Glue(Glue(Format!Repeat(" ", room), front), d)
  BY Zenon DEF Format!number, Glue
<1>2. /\ sign = <<"-">> <=> "SIGN" \in type /\ n < 0
      /\ sign = a \o g /\ Len(sign) = Len(a) + Len(g) /\ Len(a) \in 0 .. 1 /\ Len(g) \in 0 .. 1
      /\ a \in {<<>>, <<"+">>} \/ (a = <<" ">> /\ "SPACE" \in type)
      /\ a \in Seq({" ", "+"}) /\ g \in Seq({"-"})
  BY SignSplits
<1>3. m \in Nat /\ m = IF sign = <<"-">> THEN -n ELSE n % L
  <2>1. L \in Nat /\ L > 0
    BY Limits
  <2> HIDE DEF L
  <2>2. n % L \in Nat
    BY <2>1
  <2>3. n < 0 => -n \in Nat
    OBVIOUS
  <2> QED BY <1>2, <2>2, <2>3 DEF Amount, L
<1>4. /\ p \in Seq({"0", "x", "X"}) /\ Len(p) = Len(prefix) /\ Len(prefix) \in Nat
      /\ "SPECIAL" \notin type \/ base = 10 => p = <<>>
      /\ "SPECIAL" \in type /\ base = 8 => p = <<"0">>
      /\ "SPECIAL" \in type /\ base = 16 /\ "LARGE" \notin type => p = <<"0", "x">>
  BY PrefixLarge
<1>5. digits = Format!DigitsOf(m, base) /\ Numeral(digits, base, m)
  <2>1. digits = Format!DigitsOf(m, base)
    BY <1>3
  <2> HIDE DEF digits, m
  <2> QED BY <1>3, <2>1, DigitsAre
<1> HIDE DEF sign, prefix, digits, w, m, a, g
<1>6. Len(digits) \in Nat /\ Len(digits) > 0
  BY <1>5, LenProperties DEF Numeral
<1>7. /\ Numeral(body, base, m)
      /\ Len(body) = (IF prec - Len(digits) > 0 THEN prec - Len(digits) ELSE 0) + Len(digits)
  <2>1. prec - Len(digits) \in Int
    BY <1>6
  <2> QED BY <1>5, <2>1, ZerosBefore
<1> HIDE DEF body
<1>8. Len(body) \in Nat /\ Len(body) > 0 /\ prec <= Len(body)
  BY <1>6, <1>7
<1>9. Numeral(d, base, m) /\ Len(d) = Len(body)
  BY <1>7, CapitalsSame
<1>10. room \in Int /\ (size >= -1 => room = size - (Len(a) + (Len(g) + (Len(p) + Len(d)))))
       /\ Len(a) \in Nat /\ Len(g) \in Nat /\ Len(p) \in Nat /\ Len(d) \in Nat
  <2>1. Len(sign) = Len(a) + Len(g) /\ Len(a) \in Nat /\ Len(g) \in Nat
    BY <1>2, LenProperties, Zenon
  <2>2. Len(p) = Len(prefix) /\ Len(prefix) \in Nat /\ Len(d) = Len(body) /\ Len(body) \in Nat
    BY <1>4, <1>8, <1>9
  <2> DEFINE taken == Len(sign) + Len(prefix) + Len(body)
  <2>3. taken \in Int /\ taken = Len(a) + (Len(g) + (Len(p) + Len(d)))
    <3> HIDE DEF d, p
    <3> QED BY <2>1, <2>2
  <2> HIDE DEF taken
  <2>4. room \in Int /\ (size >= -1 => room = size - taken)
    BY <2>3, RoomIs DEF taken
  <2> HIDE DEF room, d, p
  <2> QED BY <2>1, <2>2, <2>3, <2>4
<1> HIDE DEF d, p, room
<1>11. /\ a \in Scripts /\ g \in Scripts /\ p \in Scripts /\ d \in Scripts
       /\ front = Glue(a, Glue(g, p))
  <2>1. {" ", "+"} \subseteq Letters /\ {"-"} \subseteq Letters /\ {"0", "x", "X"} \subseteq Letters /\ Hexes \subseteq Letters
    <3>1. "0" \in Hexes
      <4>1. Format!Lower[1] = "0"
        BY DigitTables
      <4> QED BY <4>1 DEF Hexes
    <3> QED BY <3>1 DEF Letters
  <2>2. a \in Scripts /\ g \in Scripts /\ p \in Scripts /\ d \in Scripts
    BY <1>2, <1>4, <1>9, <2>1, SeqMonotonic DEF Numeral, Scripts
  <2>3. Glue(Glue(a, g), p) = Glue(a, Glue(g, p))
    BY <2>2, Joined
  <2>4. front = Glue(Glue(a, g), p)
    BY <1>2 DEF p, Glue
  <2> QED BY <2>2, <2>3, <2>4
<1> HIDE DEF front
<1>12. "0" \in Letters /\ " " \in Letters
  <2>1. Format!Lower[1] = "0"
    BY DigitTables
  <2> QED BY <2>1 DEF Hexes, Letters
<1> DEFINE k == IF room > 0 THEN room ELSE 0
           la == Len(a)
           lg == Len(g)
           lp == Len(p)
           ld == Len(d)
<1>13. /\ size <= la + (lg + (lp + (ld + k))) /\ (size >= -1 /\ size < la + (lg + (lp + (ld + k))) => k = 0)
       /\ size <= la + (lg + (lp + ((k + ld) + 0))) /\ size <= (k + la) + (lg + (lp + (ld + 0)))
       /\ (size >= -1 /\ size < (k + la) + (lg + (lp + (ld + 0))) => k = 0)
       /\ k \in Nat /\ 0 + la = la
  <2>1. /\ la \in Nat /\ lg \in Nat /\ lp \in Nat /\ ld \in Nat /\ room \in Int
        /\ size >= -1 => room = size - (la + (lg + (lp + ld)))
    BY <1>10
  <2>2. k = IF room > 0 THEN room ELSE 0
    OBVIOUS
  <2> HIDE DEF la, lg, lp, ld, k
  <2> QED BY <2>1, <2>2, RoomFilled
<1>14. \A c : Len(Format!Repeat(c, room)) = k /\ Format!Repeat(c, room) \in Seq({c}) /\ (k = 0 => Format!Repeat(c, room) = <<>>)
  <2> TAKE c
  <2> DEFINE r == Format!Repeat(c, room)
  <2>1. r \in Seq({c}) /\ Len(r) = k
    BY <1>10, RepeatIs
  <2> HIDE DEF r, k
  <2>2. Len(r) = 0 => r = <<>>
    BY <2>1, EmptySeq
  <2>3. Len(r) = k /\ r \in Seq({c}) /\ (k = 0 => r = <<>>)
    BY <2>1, <2>2
  <2> QED BY <2>3 DEF r
<1>15. la \in Nat /\ ld \in Nat /\ la <= 1 /\ prec <= ld
  <2>1. la \in 0 .. 1 /\ ld = Len(body)
    BY <1>2, <1>9
  <2> HIDE DEF la, ld
  <2> QED BY <1>8, <2>1
<1>16. <<>> \in Seq({" "}) /\ Len(<<>>) = 0 /\ Glue(d, <<>>) = d
  <2>1. <<>> \in Seq({" "}) /\ Len(<<>>) = 0
    BY EmptySeq
  <2>2. Glue(d, <<>>) = d
    BY <1>11, Joined
  <2> QED BY <2>1, <2>2
<1> HIDE DEF la, lg, lp, ld, k
<1>17. ASSUME NEW b, NEW t, NEW z,
              w = Glue(b, Glue(g, Glue(p, Glue(t, z)))), b \in Seq({" ", "+"}), z \in Seq({" "}), Numeral(t, base, m),
              prec <= Len(t), size <= Len(b) + (lg + (lp + (Len(t) + Len(z)))),
              size >= -1 /\ size < Len(b) + (lg + (lp + (Len(t) + Len(z)))) => Len(b) <= 1 /\ z = <<>>,
              "LEFT" \in type => b = a
       PROVE  Composed(w, n, base, size, prec, type, b, g, p, t, z)
  <2>1. lg = Len(g) /\ lp = Len(p)
    BY DEF lg, lp
  <2>2. g = (IF "SIGN" \in type /\ n < 0 THEN <<"-">> ELSE <<>>) /\ m = Amount(n, type)
    BY DEF g, m
  <2>3. /\ g \in Seq({"-"}) /\ p \in Seq({"0", "x", "X"}) /\ m \in Nat
        /\ "SPECIAL" \notin type \/ base = 10 => p = <<>>
        /\ "SPECIAL" \in type /\ base = 8 => p = <<"0">>
        /\ "SPECIAL" \in type /\ base = 16 /\ "LARGE" \notin type => p = <<"0", "x">>
        /\ a \in {<<>>, <<"+">>} \/ (a = <<" ">> /\ "SPACE" \in type)
    BY <1>2, <1>3, <1>4
  <2>4. "LEFT" \in type => b \in {<<>>, <<"+">>} \/ (b = <<" ">> /\ "SPACE" \in type)
    BY <1>17, <2>3, Zenon
  <2>5. /\ size <= Len(b) + (Len(g) + (Len(p) + (Len(t) + Len(z))))
        /\ size >= -1 /\ size < Len(b) + (Len(g) + (Len(p) + (Len(t) + Len(z)))) => Len(b) <= 1 /\ z = <<>>
    BY <1>17, <2>1, Zenon
  <2> QED BY <1>17, <2>2, <2>3, <2>4, <2>5, Zenon DEF Composed
<1>18. CASE "LEFT" \in type
  <2> DEFINE z == Format!Repeat(" ", room)
  <2>1. z \in Seq({" "}) /\ Len(z) = k /\ (k = 0 => z = <<>>)
    BY <1>14
  <2>2. w = Glue(Glue(front, d), z)
    BY <1>1, <1>18
  <2> HIDE DEF z
  <2>3. z \in Scripts
    BY <1>12, <2>1, SeqMonotonic DEF Scripts
  <2>4. w = Glue(a, Glue(g, Glue(p, Glue(d, z))))
    <3>1. Glue(Glue(Glue(a, Glue(g, p)), d), z) = Glue(a, Glue(g, Glue(p, Glue(d, z))))
      BY <1>11, <2>3, Joined
    <3> QED BY <1>11, <2>2, <3>1
  <2>5. /\ prec <= Len(d) /\ size <= Len(a) + (lg + (lp + (Len(d) + Len(z))))
        /\ size >= -1 /\ size < Len(a) + (lg + (lp + (Len(d) + Len(z)))) => Len(a) <= 1 /\ z = <<>>
    BY <1>13, <1>15, <2>1, Zenon DEF la, ld
  <2>6. Composed(w, n, base, size, prec, type, a, g, p, d, z)
    BY <1>2, <1>9, <1>17, <2>1, <2>4, <2>5, Zenon
  <2> QED BY <2>6, Zenon DEF w
<1>19. CASE "LEFT" \notin type /\ "ZEROPAD" \in type
  <2> DEFINE r == Format!Repeat("0", room)
             t == Glue(r, d)
  <2>1. Numeral(t, base, m) /\ Len(t) = k + ld
    BY <1>9, <1>10, ZerosBefore DEF k, ld, Glue
  <2>2. w = Glue(Glue(front, r), d)
    BY <1>1, <1>19
  <2>3. r \in Scripts
    <3>1. r \in Seq({"0"})
      BY <1>14
    <3> HIDE DEF r
    <3> QED BY <3>1, <1>12, SeqMonotonic DEF Scripts
  <2> HIDE DEF r
  <2>4. w = Glue(a, Glue(g, Glue(p, Glue(t, <<>>))))
    <3>1. Glue(Glue(Glue(a, Glue(g, p)), r), d) = Glue(a, Glue(g, Glue(p, t))) /\ t \in Scripts
      BY <1>11, <2>3, JoinedBehind
    <3>2. Glue(t, <<>>) = t
      BY <1>11, <3>1, Joined
    <3> QED BY <1>11, <2>2, <3>1, <3>2
  <2> HIDE DEF t
  <2>5. prec <= k + ld
    BY <1>13, <1>15
  <2>6. /\ prec <= Len(t) /\ size <= Len(a) + (lg + (lp + (Len(t) + Len(<<>>))))
        /\ size >= -1 /\ size < Len(a) + (lg + (lp + (Len(t) + Len(<<>>)))) => Len(a) <= 1 /\ <<>> = <<>>
    BY <1>13, <1>15, <1>16, <2>1, <2>5, Zenon DEF la
  <2>7. Composed(w, n, base, size, prec, type, a, g, p, t, <<>>)
    BY <1>2, <1>16, <1>17, <2>1, <2>4, <2>6, Zenon
  <2> QED BY <2>7, Zenon DEF w
<1>20. CASE "LEFT" \notin type /\ "ZEROPAD" \notin type
  <2> DEFINE r == Format!Repeat(" ", room)
             b == Glue(r, a)
  <2>1. r \in Seq({" "}) /\ Len(r) = k /\ (k = 0 => r = <<>>)
    BY <1>14
  <2>2. w = Glue(Glue(r, front), d)
    BY <1>1, <1>20
  <2> HIDE DEF r
  <2>3. r \in Scripts /\ r \in Seq({" ", "+"})
    BY <1>12, <2>1, SeqMonotonic DEF Scripts
  <2>4. b \in Seq({" ", "+"}) /\ Len(b) = k + la
    <3>1. b \in Seq({" ", "+"}) /\ Len(b) = Len(r) + Len(a)
      BY <1>2, <2>3, ConcatProperties DEF Glue
    <3> QED BY <2>1, <3>1, Zenon DEF la
  <2>5. w = Glue(b, Glue(g, Glue(p, Glue(d, <<>>))))
    <3>1. Glue(Glue(r, Glue(a, Glue(g, p))), d) = Glue(b, Glue(g, Glue(p, d)))
      <4>1. r \in Scripts
        BY <2>3
      <4>2. \A x \in Scripts : Glue(Glue(x, Glue(a, Glue(g, p))), d) = Glue(Glue(x, a), Glue(g, Glue(p, d)))
        BY <1>11, JoinedBefore
      <4> QED BY <4>1, <4>2
    <3> QED BY <1>11, <1>16, <2>2, <3>1
  <2> HIDE DEF b
  <2>6. k = 0 => k + la <= 1
    BY <1>13, <1>15
  <2>7. /\ prec <= Len(d) /\ size <= Len(b) + (lg + (lp + (Len(d) + Len(<<>>))))
        /\ size >= -1 /\ size < Len(b) + (lg + (lp + (Len(d) + Len(<<>>)))) => Len(b) <= 1 /\ <<>> = <<>>
    BY <1>13, <1>15, <1>16, <2>4, <2>6, Zenon DEF ld
  <2>8. Composed(w, n, base, size, prec, type, b, g, p, d, <<>>)
    BY <1>9, <1>16, <1>17, <1>20, <2>4, <2>5, <2>7, Zenon
  <2> QED BY <2>8, Zenon DEF w
<1> QED BY <1>18, <1>19, <1>20, Zenon

(* A piece of writing, character by character, nothing behind its end.     *)
LEMMA AtIs ==
  ASSUME NEW x \in Scripts
  PROVE  /\ Len(x) \in Nat
         /\ \A j \in 1 .. Len(x) : Format!At(x, j) = x[j] /\ x[j] \in Letters
         /\ \A j \in Int : j > Len(x) => Format!At(x, j) = "NUL"
<1>1. Len(x) \in Nat /\ DOMAIN x = 1 .. Len(x) /\ \A j \in 1 .. Len(x) : x[j] \in Letters
  BY LenProperties, ElementOfSeq DEF Scripts
<1> QED BY <1>1 DEF Format!At

LEMMA PlaceBehind ==
  ASSUME NEW l \in Nat, NEW m \in Nat, NEW j \in Nat, j > 0
  PROVE  /\ j <= m => l + j \in 1 .. l + m /\ ~(l + j <= l) /\ (l + j) - l = j /\ j \in 1 .. m
         /\ ~(j <= m) => l + j \in Int /\ l + j > l + m /\ j > m /\ j \in Int
OBVIOUS

LEMMA WithinOrBehind == \A l, j \in Nat : j > 0 => j \in 1 .. l \/ (j \in Int /\ j > l)
OBVIOUS

LEMMA GlueAt ==
  ASSUME NEW x \in Scripts, NEW y \in Scripts
  PROVE  /\ Glue(x, y) \in Scripts /\ Len(Glue(x, y)) = Len(x) + Len(y)
         /\ \A j \in 1 .. Len(x) : Format!At(Glue(x, y), j) = Format!At(x, j)
         /\ \A j \in Nat : j > 0 => Format!At(Glue(x, y), Len(x) + j) = Format!At(y, j)
<1> DEFINE s == Glue(x, y)
           lx == Len(x)
           ly == Len(y)
<1>1. s \in Seq(Letters) /\ Len(s) = lx + ly
      /\ \A i \in 1 .. lx + ly : s[i] = IF i <= lx THEN x[i] ELSE y[i - lx]
  BY ConcatProperties DEF Scripts, Glue
<1>2. s \in Scripts
  BY <1>1 DEF Scripts
<1> HIDE DEF s
<1>3. /\ lx \in Nat /\ \A j \in 1 .. lx : Format!At(x, j) = x[j]
      /\ ly \in Nat /\ (\A j \in 1 .. ly : Format!At(y, j) = y[j]) /\ \A j \in Int : j > ly => Format!At(y, j) = "NUL"
  BY AtIs
<1>4. /\ \A j \in 1 .. Len(s) : Format!At(s, j) = s[j]
      /\ \A j \in Int : j > Len(s) => Format!At(s, j) = "NUL"
  BY <1>2, AtIs
<1> HIDE DEF lx, ly
<1>5. \A j \in 1 .. lx : Format!At(s, j) = Format!At(x, j)
  <2> TAKE j \in 1 .. lx
  <2>1. j \in 1 .. lx + ly /\ j <= lx
    BY <1>3
  <2>2. Format!At(s, j) = s[j] /\ s[j] = x[j]
    BY <1>1, <1>4, <2>1
  <2> QED BY <1>3, <2>2
<1>6. ASSUME NEW j \in Nat, j > 0 PROVE Format!At(s, lx + j) = Format!At(y, j)
  <2>1. CASE j <= ly
    <3>1. lx + j \in 1 .. lx + ly /\ ~(lx + j <= lx) /\ (lx + j) - lx = j /\ j \in 1 .. ly
      BY <1>3, <1>6, <2>1, PlaceBehind
    <3>2. Format!At(s, lx + j) = s[lx + j] /\ s[lx + j] = y[(lx + j) - lx]
      BY <1>1, <1>4, <3>1
    <3> QED BY <1>3, <3>1, <3>2
  <2>2. CASE ~(j <= ly)
    <3>1. lx + j \in Int /\ lx + j > lx + ly /\ j > ly /\ j \in Int
      BY <1>3, <1>6, <2>2, PlaceBehind
    <3> QED BY <1>1, <1>3, <1>4, <3>1
  <2> QED BY <2>1, <2>2
<1> QED BY <1>1, <1>2, <1>5, <1>6 DEF s, lx, ly

LEMMA ScriptsAre ==
  /\ \A x \in Seq({" ", "+"}) : x \in Scripts /\ \A j \in 1 .. Len(x) : Format!At(x, j) \in {" ", "+"}
  /\ \A x \in Seq({" "}) : x \in Scripts /\ \A j \in 1 .. Len(x) : Format!At(x, j) = " "
  /\ \A x \in Seq({"-"}) : x \in Scripts /\ \A j \in 1 .. Len(x) : Format!At(x, j) = "-"
  /\ \A x \in Seq({"0", "x", "X"}) : x \in Scripts
  /\ \A x \in Seq(Hexes) : x \in Scripts
<1>1. "0" \in Hexes
  <2>1. Format!Lower[1] = "0"
    BY DigitTables
  <2> QED BY <2>1 DEF Hexes
<1>2. {" ", "+"} \subseteq Letters /\ {" "} \subseteq Letters /\ {"-"} \subseteq Letters /\ {"0", "x", "X"} \subseteq Letters /\ Hexes \subseteq Letters
  BY <1>1 DEF Letters
<1>3. ASSUME NEW S, S \subseteq Letters, NEW x \in Seq(S)
      PROVE  x \in Scripts /\ \A j \in 1 .. Len(x) : Format!At(x, j) \in S
  <2>1. x \in Scripts
    BY <1>3, SeqMonotonic DEF Scripts
  <2>2. \A j \in 1 .. Len(x) : x[j] \in S
    BY ElementOfSeq
  <2> QED BY <2>1, <2>2, AtIs
<1>4. \A x \in Seq({" ", "+"}) : x \in Scripts /\ \A j \in 1 .. Len(x) : Format!At(x, j) \in {" ", "+"}
  BY <1>2, <1>3
<1>5. \A x \in Seq({" "}) : x \in Scripts /\ \A j \in 1 .. Len(x) : Format!At(x, j) \in {" "}
  BY <1>2, <1>3
<1>6. \A x \in Seq({"-"}) : x \in Scripts /\ \A j \in 1 .. Len(x) : Format!At(x, j) \in {"-"}
  BY <1>2, <1>3
<1>7. (\A x \in Seq({"0", "x", "X"}) : x \in Scripts) /\ (\A x \in Seq(Hexes) : x \in Scripts)
  BY <1>2, <1>3
<1> QED BY <1>4, <1>5, <1>6, <1>7

(* Where the pieces of a number lie.                                       *)
PiecesAt(w, p, t, la, lg, lp, lt, lz) ==
  /\ la \in Nat /\ lg \in Nat /\ lp \in Nat /\ lt \in Nat /\ lz \in Nat
  /\ w \in Scripts /\ Len(w) = la + (lg + (lp + (lt + lz)))
  /\ \A j \in 1 .. la : Format!At(w, j) \in {" ", "+"}
  /\ \A j \in 1 .. lg : Format!At(w, la + j) = "-"
  /\ \A j \in 1 .. lp : Format!At(w, la + (lg + j)) = Format!At(p, j)
  /\ \A j \in 1 .. lt : Format!At(w, la + (lg + (lp + j))) = t[j] /\ t[j] \in Hexes
  /\ \A j \in Nat : j > 0 => Format!At(w, la + (lg + (lp + (lt + j)))) \in {" ", "NUL"}

LEMMA PiecesLie ==
  ASSUME NEW w, NEW n, NEW base, NEW size, NEW prec, NEW type, NEW a, NEW g, NEW p, NEW t, NEW z,
         Composed(w, n, base, size, prec, type, a, g, p, t, z)
  PROVE  PiecesAt(w, p, t, Len(a), Len(g), Len(p), Len(t), Len(z))
<1> DEFINE tz == Glue(t, z)
           ptz == Glue(p, tz)
           gptz == Glue(g, ptz)
<1>1. a \in Scripts /\ g \in Scripts /\ p \in Scripts /\ t \in Scripts /\ z \in Scripts
  BY ScriptsAre DEF Composed, Numeral
<1>2. w = Glue(a, gptz)
  BY DEF Composed
<1>3. tz \in Scripts /\ ptz \in Scripts /\ gptz \in Scripts /\ w \in Scripts
  BY <1>1, <1>2, GlueAssociates
<1>4. /\ \A j \in 1 .. Len(a) : Format!At(a, j) \in {" ", "+"}
      /\ \A j \in 1 .. Len(g) : Format!At(g, j) = "-"
      /\ \A j \in 1 .. Len(t) : Format!At(t, j) = t[j] /\ t[j] \in Hexes
      /\ \A j \in 1 .. Len(z) : Format!At(z, j) = " "
  <2>1. \A j \in 1 .. Len(t) : t[j] \in Hexes
    BY ElementOfSeq DEF Composed, Numeral
  <2>2. a \in Seq({" ", "+"}) /\ z \in Seq({" "}) /\ g \in Seq({"-"})
    BY DEF Composed
  <2>3. \A j \in 1 .. Len(t) : Format!At(t, j) = t[j]
    BY <1>1, AtIs
  <2> QED BY <2>1, <2>2, <2>3, ScriptsAre
<1>5. \A j \in Nat : j > 0 => Format!At(z, j) \in {" ", "NUL"}
  <2> TAKE j \in Nat
  <2> DEFINE lz == Len(z)
  <2>1. lz \in Nat /\ (\A i \in Int : i > lz => Format!At(z, i) = "NUL") /\ \A i \in 1 .. lz : Format!At(z, i) = " "
    BY <1>1, <1>4, AtIs
  <2> HIDE DEF lz
  <2>2. j > 0 => j \in 1 .. lz \/ (j \in Int /\ j > lz)
    BY <2>1, WithinOrBehind, Zenon
  <2> QED BY <2>1, <2>2
<1> HIDE DEF tz, ptz, gptz
<1> DEFINE la == Len(a)
           lg == Len(g)
           lp == Len(p)
           lt == Len(t)
           lz == Len(z)
<1>6. la \in Nat /\ lg \in Nat /\ lp \in Nat /\ lt \in Nat /\ lz \in Nat
  BY <1>1, AtIs
<1>7. /\ Len(w) = la + Len(gptz) /\ \A j \in 1 .. la : Format!At(w, j) = Format!At(a, j)
      /\ \A j \in Nat : j > 0 => Format!At(w, la + j) = Format!At(gptz, j)
  <2>1. /\ Len(Glue(a, gptz)) = la + Len(gptz) /\ \A j \in 1 .. la : Format!At(Glue(a, gptz), j) = Format!At(a, j)
        /\ \A j \in Nat : j > 0 => Format!At(Glue(a, gptz), la + j) = Format!At(gptz, j)
    BY <1>1, <1>3, GlueAt
  <2> HIDE DEF la
  <2> QED BY <1>2, <2>1
<1>8. /\ Len(gptz) = lg + Len(ptz) /\ \A j \in 1 .. lg : Format!At(gptz, j) = Format!At(g, j)
      /\ \A j \in Nat : j > 0 => Format!At(gptz, lg + j) = Format!At(ptz, j)
  BY <1>1, <1>3, GlueAt DEF gptz
<1>9. /\ Len(ptz) = lp + Len(tz) /\ \A j \in 1 .. lp : Format!At(ptz, j) = Format!At(p, j)
      /\ \A j \in Nat : j > 0 => Format!At(ptz, lp + j) = Format!At(tz, j)
  BY <1>1, <1>3, GlueAt DEF ptz
<1>10. /\ Len(tz) = lt + lz /\ \A j \in 1 .. lt : Format!At(tz, j) = Format!At(t, j)
       /\ \A j \in Nat : j > 0 => Format!At(tz, lt + j) = Format!At(z, j)
  BY <1>1, GlueAt DEF tz
<1> HIDE DEF la, lg, lp, lt, lz
<1>11. \A j \in 1 .. lg : Format!At(w, la + j) = "-"
  <2> TAKE j \in 1 .. lg
  <2>1. j \in Nat /\ j > 0
    OBVIOUS
  <2>2. Format!At(g, j) = "-"
    BY <1>4 DEF lg
  <2> QED BY <1>7, <1>8, <2>1, <2>2
<1>12. \A j \in 1 .. lp : Format!At(w, la + (lg + j)) = Format!At(p, j)
  <2> TAKE j \in 1 .. lp
  <2>1. j \in Nat /\ j > 0 /\ lg + j \in Nat /\ lg + j > 0
    BY <1>6
  <2> QED BY <1>7, <1>8, <1>9, <2>1
<1>13. \A j \in Nat : j > 0 => Format!At(w, la + (lg + (lp + j))) = Format!At(tz, j)
  <2> TAKE j \in Nat
  <2> HAVE j > 0
  <2>1. lp + j \in Nat /\ lp + j > 0 /\ lg + (lp + j) \in Nat /\ lg + (lp + j) > 0
    BY <1>6
  <2> QED BY <1>7, <1>8, <1>9, <2>1
<1>14. \A j \in 1 .. lt : Format!At(w, la + (lg + (lp + j))) = t[j] /\ t[j] \in Hexes
  <2> TAKE j \in 1 .. lt
  <2>1. j \in Nat /\ j > 0
    OBVIOUS
  <2>2. Format!At(t, j) = t[j] /\ t[j] \in Hexes
    BY <1>4 DEF lt
  <2> QED BY <1>10, <1>13, <2>1, <2>2
<1>15. \A j \in Nat : j > 0 => Format!At(w, la + (lg + (lp + (lt + j)))) \in {" ", "NUL"}
  <2> TAKE j \in Nat
  <2> HAVE j > 0
  <2>1. lt + j \in Nat /\ lt + j > 0
    BY <1>6
  <2> QED BY <1>5, <1>10, <1>13, <2>1
<1>16. \A j \in 1 .. la : Format!At(w, j) \in {" ", "+"}
  BY <1>4, <1>7 DEF la
<1>17. Len(w) = la + (lg + (lp + (lt + lz)))
  BY <1>7, <1>8, <1>9, <1>10
<1>18. PiecesAt(w, p, t, la, lg, lp, lt, lz)
  BY <1>3, <1>6, <1>11, <1>12, <1>14, <1>15, <1>16, <1>17 DEF PiecesAt
<1> QED BY <1>18 DEF la, lg, lp, lt, lz

(* A number is cropped but once, also by way of its opposite.              *)
LEMMA RemainderOnce ==
  ASSUME NEW a \in Int, NEW n \in Nat, n > 0, NEW q \in Int, NEW r \in 0 .. n - 1, a = n * q + r
  PROVE  a % n = r
OBVIOUS

LEMMA RemainderIs ==
  ASSUME NEW a \in Int, NEW n \in Nat, n > 0
  PROVE  \E q \in Int, r \in 0 .. n - 1 : a = n * q + r
<1> WITNESS a \div n \in Int, a % n \in 0 .. n - 1
<1> QED OBVIOUS

LEMMA CroppedAgain ==
  ASSUME NEW n \in Int, NEW limit \in Nat, limit > 0
  PROVE  /\ Cropped(Cropped(n, limit), limit) = Cropped(n, limit)
         /\ Cropped(-Cropped(-n, limit), limit) = Cropped(n, limit)
         /\ Cropped(n, limit) \in 0 .. limit - 1
<1>1. PICK q \in Int, r \in 0 .. limit - 1 : n = limit * q + r
  BY RemainderIs
<1>2. n % limit = r
  BY <1>1, RemainderOnce
<1>3. r % limit = r
  <2>1. r \in Int /\ 0 \in Int /\ r = limit * 0 + r
    BY <1>1
  <2> QED BY <2>1, RemainderOnce
<1>4. PICK p \in Int, s \in 0 .. limit - 1 : -n = limit * p + s
  <2>1. -n \in Int
    OBVIOUS
  <2> QED BY <2>1, RemainderIs
<1>5. (-n) % limit = s
  <2>1. -n \in Int
    OBVIOUS
  <2> QED BY <1>4, <2>1, RemainderOnce
<1>6. (-s) % limit = r
  <2>1. -s = limit * (p + q) + r
    <3> DEFINE a == limit * p
               b == limit * q
    <3>1. a \in Int /\ b \in Int /\ limit * (p + q) = a + b /\ -n = a + s /\ n = b + r
      BY <1>1, <1>4
    <3> HIDE DEF a, b
    <3> QED BY <1>1, <1>4, <3>1
  <2>2. -s \in Int /\ p + q \in Int
    OBVIOUS
  <2> QED BY <1>1, <2>1, <2>2, RemainderOnce
<1> QED BY <1>2, <1>3, <1>5, <1>6 DEF Cropped

(* The digits of a number read back.                                       *)
LEMMA PlacesAdd ==
  ASSUME NEW la \in Nat, NEW lg \in Nat, NEW lp \in Nat, NEW lt \in Nat, NEW lz \in Nat
  PROVE  /\ la + (lg + (lp + 1)) \in Nat /\ la + (lg + (lp + 1)) > 0
         /\ lt + (la + (lg + (lp + 1))) <= la + (lg + (lp + (lt + lz))) + 1
         /\ \A j \in 0 .. lt - 1 : (la + (lg + (lp + 1))) + j = la + (lg + (lp + (j + 1))) /\ j + 1 \in 1 .. lt
         /\ (la + (lg + (lp + 1))) + lt = la + (lg + (lp + (lt + 1)))
         /\ la + (lg + 1) \in Nat
         /\ (la + (lg + 1)) + 1 = la + (lg + (1 + 1)) /\ (la + (lg + 1)) + 2 = la + (lg + (2 + 1))
         /\ lp = 0 => la + (lg + (lp + 1)) = la + (lg + 1)
         /\ lp = 1 => la + (lg + (lp + 1)) = (la + (lg + 1)) + 1
         /\ lp = 2 => la + (lg + (lp + 1)) = (la + (lg + 1)) + 2
OBVIOUS

LEMMA DigitsRead ==
  ASSUME NEW w, NEW n \in Int, NEW base \in Bases, NEW size, NEW prec, NEW type, NEW a, NEW g, NEW p, NEW t, NEW z,
         Composed(w, n, base, size, prec, type, a, g, p, t, z)
  PROVE  LET i == Len(a) + (Len(g) + (Len(p) + 1))
         IN Format!Digits(w, i, base, 2^LongLongBits) = [value |-> Cropped(Amount(n, type), 2^LongLongBits), end |-> i + Len(t)]
<1> DEFINE la == Len(a)
           lg == Len(g)
           lp == Len(p)
           lt == Len(t)
           lz == Len(z)
           i == la + (lg + (lp + 1))
           L == 2^LongLongBits
           m == Amount(n, type)
<1>1. PiecesAt(w, p, t, la, lg, lp, lt, lz)
  BY PiecesLie, Zenon
<1>2. m \in Nat /\ Numeral(t, base, m)
  BY DEF Composed
<1>3. L \in Nat /\ L > 0
  BY Limits
<1> HIDE DEF la, lg, lp, lt, lz, L, m
<1>4. /\ i \in Nat /\ i > 0 /\ lt + i <= Len(w) + 1 /\ Len(w) \in Nat
      /\ \A j \in 0 .. lt - 1 : i + j = la + (lg + (lp + (j + 1))) /\ j + 1 \in 1 .. lt
      /\ i + lt = la + (lg + (lp + (lt + 1)))
  <2>1. la \in Nat /\ lg \in Nat /\ lp \in Nat /\ lt \in Nat /\ lz \in Nat /\ Len(w) = la + (lg + (lp + (lt + lz)))
    BY <1>1 DEF PiecesAt
  <2> DEFINE lw == Len(w)
  <2>2. lw \in Nat /\ lw = la + (lg + (lp + (lt + lz)))
    BY <2>1
  <2> HIDE DEF lw
  <2>3. /\ i \in Nat /\ i > 0 /\ lt + i <= lw + 1
        /\ \A j \in 0 .. lt - 1 : i + j = la + (lg + (lp + (j + 1))) /\ j + 1 \in 1 .. lt
        /\ i + lt = la + (lg + (lp + (lt + 1)))
    BY <2>1, <2>2, PlacesAdd
  <2> QED BY <2>2, <2>3 DEF lw
<1> HIDE DEF i
<1>5. \A j \in 0 .. lt - 1 : Format!At(w, i + j) = t[j + 1]
  <2>1. \A j \in 1 .. lt : Format!At(w, la + (lg + (lp + j))) = t[j]
    BY <1>1 DEF PiecesAt
  <2> QED BY <1>4, <2>1
<1>6. Format!At(w, i + lt) \notin Hexes
  <2>1. Format!At(w, i + lt) \in {" ", "NUL"}
    <3>1. Format!At(w, la + (lg + (lp + (lt + 1)))) \in {" ", "NUL"}
      <4>1. \A j \in Nat : j > 0 => Format!At(w, la + (lg + (lp + (lt + j)))) \in {" ", "NUL"}
        BY <1>1 DEF PiecesAt
      <4>2. 1 \in Nat /\ 1 > 0
        OBVIOUS
      <4> QED BY <4>1, <4>2, Zenon
    <3> QED BY <1>4, <3>1, Zenon
  <2> QED BY <2>1, HexesAre
<1>7. Format!Digits(w, i, base, L) = [value |-> Cropped(m, L), end |-> i + lt]
  <2>1. Readable(w, i, base, m, t, L)
    BY <1>2, <1>3, <1>4, <1>5, <1>6, Zenon DEF Readable, lt
  <2> HIDE DEF i
  <2> QED BY <2>1, ReadsNumeral DEF lt
<1> QED BY <1>7, Zenon DEF i, L, m, la, lg, lp, lt

(* The base of a number that begins with its prefix.                       *)
LEMMA UnsignedReads ==
  ASSUME NEW w, NEW n \in Int, NEW base \in Bases, NEW size, NEW prec, NEW type, NEW a, NEW g, NEW p, NEW t, NEW z,
         Composed(w, n, base, size, prec, type, a, g, p, t, z), ~("SPECIAL" \in type /\ "LARGE" \in type)
  PROVE  LET i == Len(a) + (Len(g) + (Len(p) + 1))
         IN Format!simple_strtoull(w, Len(a) + (Len(g) + 1), IF "SPECIAL" \in type /\ base # 10 THEN 0 ELSE base) =
              [value |-> Cropped(Amount(n, type), 2^LongLongBits), end |-> i + Len(t)]
<1> DEFINE la == Len(a)
           lg == Len(g)
           lp == Len(p)
           lt == Len(t)
           lz == Len(z)
           k == la + (lg + 1)
           i == la + (lg + (lp + 1))
           b == IF "SPECIAL" \in type /\ base # 10 THEN 0 ELSE base
           from == IF b = 0 THEN Format!BaseOf(w, k) ELSE <<b, k>>
           L == 2^LongLongBits
           m == Amount(n, type)
<1>0. PiecesAt(w, p, t, la, lg, lp, lt, lz)
  BY PiecesLie, Zenon
<1>2. /\ "SPECIAL" \notin type \/ base = 10 => p = <<>>
      /\ "SPECIAL" \in type /\ base = 8 => p = <<"0">>
      /\ "SPECIAL" \in type /\ base = 16 /\ "LARGE" \notin type => p = <<"0", "x">>
      /\ lt > 0 /\ base \in {8, 10, 16}
  BY DEF Composed, Numeral, Bases
<1>3. /\ p = <<>> => lp = 0
      /\ p = <<"0">> => lp = 1 /\ Format!At(p, 1) = "0"
      /\ p = <<"0", "x">> => lp = 2 /\ Format!At(p, 1) = "0" /\ Format!At(p, 2) = "x"
  BY DEF Format!At
<1> HIDE DEF la, lg, lp, lt, lz
<1>1. /\ la \in Nat /\ lg \in Nat /\ lp \in Nat /\ lt \in Nat /\ lz \in Nat
      /\ \A j \in 1 .. lp : Format!At(w, la + (lg + j)) = Format!At(p, j)
      /\ \A j \in 1 .. lt : Format!At(w, la + (lg + (lp + j))) = t[j] /\ t[j] \in Hexes
  BY <1>0 DEF PiecesAt
<1>4. Format!At(w, i) \in Hexes
  <2>1. 1 \in 1 .. lt
    BY <1>1, <1>2
  <2> QED BY <1>1, <2>1
<1>5. /\ lp = 0 => i = k
      /\ lp = 1 => i = k + 1
      /\ lp = 2 => i = k + 2
      /\ la + (lg + 2) = k + 1
  BY <1>1, PlacesAdd
<1> HIDE DEF i
<1>6. from = <<base, i>>
  <2>1. CASE "SPECIAL" \notin type \/ base = 10
    BY <1>2, <1>3, <1>5, <2>1
  <2>2. CASE "SPECIAL" \in type /\ base = 8
    <3>1. lp = 1 /\ Format!At(w, k) = "0" /\ i = k + 1
      <4>1. 1 \in 1 .. 1
        OBVIOUS
      <4> QED BY <1>1, <1>2, <1>3, <1>5, <2>2, <4>1
    <3>2. Format!At(w, k + 1) # "x"
      BY <1>4, <3>1, HexesAre
    <3> HIDE DEF k
    <3>3. Format!BaseOf(w, k) = <<8, k + 1>>
      BY <3>1, <3>2 DEF Format!BaseOf
    <3> QED BY <2>2, <3>1, <3>3
  <2>3. CASE "SPECIAL" \in type /\ base = 16
    <3>1. lp = 2 /\ Format!At(w, k) = "0" /\ Format!At(w, k + 1) = "x" /\ i = k + 2
      <4>1. 1 \in 1 .. 2 /\ 2 \in 1 .. 2
        OBVIOUS
      <4>2. lp = 2 /\ Format!At(p, 1) = "0" /\ Format!At(p, 2) = "x"
        BY <1>2, <1>3, <2>3
      <4>3. Format!At(w, la + (lg + 1)) = "0" /\ Format!At(w, la + (lg + 2)) = "x"
        BY <1>1, <4>1, <4>2
      <4> QED BY <1>5, <4>2, <4>3
    <3>2. Format!isxdigit(Format!At(w, k + 2))
      BY <1>4, <3>1, HexesAre
    <3> HIDE DEF k
    <3>3. Format!BaseOf(w, k) = <<16, k + 2>>
      BY <3>1, <3>2 DEF Format!BaseOf
    <3> QED BY <2>3, <3>1, <3>3
  <2> QED BY <1>2, <2>1, <2>2, <2>3
<1>7. Format!simple_strtoull(w, k, b) = Format!Digits(w, from[2], from[1], L)
  BY Zenon DEF Format!simple_strtoull
<1> HIDE DEF from, b, k
<1>8. from[2] = i /\ from[1] = base
  BY <1>6
<1>9. Format!simple_strtoull(w, k, b) = Format!Digits(w, i, base, L)
  BY <1>7, <1>8
<1>10. Format!Digits(w, i, base, L) = [value |-> Cropped(m, L), end |-> i + lt]
  BY DigitsRead DEF i, la, lg, lp, lt
<1> QED BY <1>9, <1>10, Zenon DEF k, b, i, la, lg, lp, lt

(* The number is read from behind what is passed over.                     *)
NumberStart(s) == CHOOSE i \in 1 .. Len(s) + 1 :
  /\ Format!At(s, i) \notin {" ", "+"}
  /\ \A j \in 1 .. i - 1 : s[j] \in {" ", "+"}

LEMMA FirstOfNumber ==
  ASSUME NEW w, NEW n, NEW base \in Bases, NEW size, NEW prec, NEW type, NEW a, NEW g, NEW p, NEW t, NEW z,
         Composed(w, n, base, size, prec, type, a, g, p, t, z)
  PROVE  LET c == Format!At(w, Len(a) + 1) IN
         /\ c \notin {" ", "+", "NUL"}
         /\ c = "-" <=> g = <<"-">>
         /\ Len(a) + 1 \in 1 .. Len(w)
<1> DEFINE la == Len(a)
           lg == Len(g)
           lp == Len(p)
           lt == Len(t)
           lz == Len(z)
           c == Format!At(w, la + 1)
<1>0. PiecesAt(w, p, t, la, lg, lp, lt, lz)
  BY PiecesLie, Zenon
<1>1. /\ g \in {<<>>, <<"-">>} /\ p \in Seq({"0", "x", "X"}) /\ lt > 0 /\ Len(<<"-">>) = 1 /\ Len(<<>>) = 0
      /\ <<"-">> # <<>>
  BY DEF Composed, Numeral
<1>2. \A j \in 1 .. lp : Format!At(p, j) \in {"0", "x", "X"}
  <2>1. p \in Scripts
    BY <1>1, ScriptsAre
  <2>2. \A j \in 1 .. lp : p[j] \in {"0", "x", "X"}
    BY <1>1, ElementOfSeq
  <2> QED BY <2>1, <2>2, AtIs
<1>3. lg = 0 \/ lg = 1
  BY <1>1
<1>4. lg = 1 <=> g = <<"-">>
  <2>1. g = <<>> => lg = 0
    BY <1>1
  <2>2. g = <<"-">> => lg = 1
    BY <1>1
  <2>3. g = <<>> \/ g = <<"-">>
    BY <1>1
  <2>4. 0 # 1
    OBVIOUS
  <2> HIDE DEF lg
  <2> QED BY <1>1, <2>1, <2>2, <2>3, <2>4, Zenon
<1> HIDE DEF la, lg, lp, lt, lz
<1>5. /\ la \in Nat /\ lg \in Nat /\ lp \in Nat /\ lt \in Nat /\ lz \in Nat /\ Len(w) = la + (lg + (lp + (lt + lz)))
      /\ \A j \in 1 .. lg : Format!At(w, la + j) = "-"
      /\ \A j \in 1 .. lp : Format!At(w, la + (lg + j)) = Format!At(p, j)
      /\ \A j \in 1 .. lt : Format!At(w, la + (lg + (lp + j))) = t[j] /\ t[j] \in Hexes
  BY <1>0 DEF PiecesAt
<1>6. la + 1 \in 1 .. Len(w)
  <2> DEFINE lw == Len(w)
  <2>1. lw = la + (lg + (lp + (lt + lz)))
    BY <1>5
  <2> HIDE DEF lw
  <2>2. la + 1 \in 1 .. lw
    BY <1>1, <1>5, <2>1
  <2> QED BY <2>2 DEF lw
<1>7. lg = 1 => c = "-"
  <2>1. 1 \in 1 .. 1
    OBVIOUS
  <2> QED BY <1>5, <2>1
<1>8. lg = 0 /\ lp > 0 => c \in {"0", "x", "X"}
  <2> HAVE lg = 0 /\ lp > 0
  <2>1. 1 \in 1 .. lp /\ la + (lg + 1) = la + 1
    BY <1>5
  <2>2. Format!At(w, la + (lg + 1)) = Format!At(p, 1)
    BY <1>5, <2>1
  <2> QED BY <1>2, <2>1, <2>2
<1>9. lg = 0 /\ lp = 0 => c \in Hexes
  <2> HAVE lg = 0 /\ lp = 0
  <2>1. 1 \in 1 .. lt /\ la + (lg + (lp + 1)) = la + 1
    BY <1>1, <1>5
  <2>2. Format!At(w, la + (lg + (lp + 1))) \in Hexes
    BY <1>5, <2>1
  <2> QED BY <2>1, <2>2
<1>10. \A d : d \in Hexes \/ d \in {"0", "x", "X"} => d \notin {" ", "+", "NUL", "-"}
  BY HexesAre
<1>11. lg = 0 => c \notin {" ", "+", "NUL", "-"}
  <2>1. lp = 0 \/ lp > 0
    BY <1>5
  <2> QED BY <1>8, <1>9, <1>10, <2>1
<1>12. c \notin {" ", "+", "NUL"} /\ (c = "-" <=> lg = 1)
  BY <1>3, <1>7, <1>11
<1> QED BY <1>4, <1>6, <1>12 DEF la

LEMMA NumberStarts ==
  ASSUME NEW w, NEW n, NEW base \in Bases, NEW size, NEW prec, NEW type, NEW a, NEW g, NEW p, NEW t, NEW z,
         Composed(w, n, base, size, prec, type, a, g, p, t, z)
  PROVE  NumberStart(w) = Len(a) + 1
<1> DEFINE la == Len(a)
           lg == Len(g)
           lp == Len(p)
           lt == Len(t)
           lz == Len(z)
           lw == Len(w)
           Starts(i) == Format!At(w, i) \notin {" ", "+"} /\ \A j \in 1 .. i - 1 : w[j] \in {" ", "+"}
<1>0. PiecesAt(w, p, t, la, lg, lp, lt, lz)
  BY PiecesLie, Zenon
<1>1. la + 1 \in 1 .. lw /\ Format!At(w, la + 1) \notin {" ", "+"}
  BY FirstOfNumber
<1> HIDE DEF la, lg, lp, lt, lz, lw
<1>2. /\ w \in Scripts /\ la \in Nat /\ \A j \in 1 .. la : Format!At(w, j) \in {" ", "+"}
  BY <1>0 DEF PiecesAt
<1>3. \A j \in 1 .. lw : Format!At(w, j) = w[j]
  BY <1>2, AtIs DEF lw
<1>4. lw \in Nat
  BY <1>2, AtIs DEF lw
<1>a. la \in Nat
  BY <1>2
<1>b. la + 1 \in 1 .. lw
  BY <1>1
<1>5. \A j \in 1 .. la : w[j] \in {" ", "+"}
  <2>1. \A j \in 1 .. la : j \in 1 .. lw
    BY <1>a, <1>b, <1>4
  <2> QED BY <1>2, <1>3, <2>1
<1>6. la + 1 \in 1 .. lw + 1 /\ Starts(la + 1)
  <2>1. la + 1 \in 1 .. lw + 1 /\ (la + 1) - 1 = la
    BY <1>a, <1>b, <1>4
  <2> QED BY <1>1, <1>5, <2>1
<1>7. ASSUME NEW i \in 1 .. lw + 1, Starts(i) PROVE i = la + 1
  <2>1. CASE i > la + 1
    <3>1. la + 1 \in 1 .. i - 1
      BY <1>a, <2>1
    <3>2. w[la + 1] \in {" ", "+"}
      BY <1>7, <3>1
    <3> QED BY <1>1, <1>3, <3>2
  <2>2. CASE i < la + 1
    <3>1. i \in 1 .. la
      BY <1>a, <2>2
    <3> QED BY <1>2, <1>7, <3>1
  <2>3. i \in Int /\ la + 1 \in Int
    BY <1>a
  <2> QED BY <2>1, <2>2, <2>3
<1>8. NumberStart(w) = CHOOSE i \in 1 .. lw + 1 : Starts(i)
  BY DEF NumberStart, lw
<1> HIDE DEF Starts
<1>9. (CHOOSE i \in 1 .. lw + 1 : Starts(i)) = la + 1
  BY <1>6, <1>7
<1> QED BY <1>8, <1>9 DEF la

LEMMA NumberReads ==
  ASSUME NEW w, NEW n \in Int, NEW base \in Bases, NEW size, NEW prec, NEW type, NEW a, NEW g, NEW p, NEW t, NEW z,
         Composed(w, n, base, size, prec, type, a, g, p, t, z), ~("SPECIAL" \in type /\ "LARGE" \in type)
  PROVE  Format!simple_strtoll(w, NumberStart(w), IF "SPECIAL" \in type /\ base # 10 THEN 0 ELSE base).value =
           Cropped(n, 2^LongLongBits)
<1> DEFINE la == Len(a)
           b == IF "SPECIAL" \in type /\ base # 10 THEN 0 ELSE base
           L == 2^LongLongBits
           m == Amount(n, type)
           e == (la + (Len(g) + (Len(p) + 1))) + Len(t)
           r == [value |-> Cropped(m, L), end |-> e]
           i == NumberStart(w)
<1>1. L \in Nat /\ L > 0
  BY Limits
<1>2. i = la + 1
  BY NumberStarts
<1>3. /\ Format!At(w, Len(a) + 1) \notin {" ", "+", "NUL"}
      /\ Format!At(w, Len(a) + 1) = "-" <=> g = <<"-">>
      /\ Len(a) + 1 \in 1 .. Len(w)
  BY FirstOfNumber
<1>4. Format!simple_strtoull(w, la + (Len(g) + 1), b) = r
  BY UnsignedReads
<1>5. /\ g = IF "SIGN" \in type /\ n < 0 THEN <<"-">> ELSE <<>>
      /\ <<"-">> # <<>> /\ Len(<<"-">>) = 1 /\ Len(<<>>) = 0
      /\ m = IF "SIGN" \in type /\ n < 0 THEN -n ELSE Cropped(n, L)
  BY DEF Composed, Amount, Cropped
<1>6. la \in Nat /\ (Format!At(w, la + 1) = "-" <=> g = <<"-">>)
  BY <1>3, PiecesLie DEF PiecesAt
<1> HIDE DEF la, b, L, m, e, i
<1>7. CASE "SIGN" \in type /\ n < 0
  <2>1. Format!At(w, i) = "-" /\ la + (Len(g) + 1) = i + 1 /\ m = -n
    BY <1>2, <1>5, <1>6, <1>7
  <2>2. Format!simple_strtoull(w, i + 1, b) = r
    BY <1>4, <2>1
  <2>3. Format!simple_strtoll(w, i, b) = [r EXCEPT !.value = Cropped(-@, L)]
    BY <2>1, <2>2, Zenon DEF Format!simple_strtoll, Cropped, L
  <2>4. Format!simple_strtoll(w, i, b).value = Cropped(-Cropped(-n, L), L)
    BY <2>1, <2>3
  <2>5. Cropped(-Cropped(-n, L), L) = Cropped(n, L)
    BY <1>1, CroppedAgain
  <2> QED BY <2>4, <2>5 DEF i, b, L
<1>8. CASE ~("SIGN" \in type /\ n < 0)
  <2>1. Format!At(w, i) # "-" /\ la + (Len(g) + 1) = i /\ m = Cropped(n, L)
    BY <1>2, <1>5, <1>6, <1>8
  <2>2. Format!simple_strtoll(w, i, b) = r
    BY <1>4, <2>1, Zenon DEF Format!simple_strtoll
  <2>3. Format!simple_strtoll(w, i, b).value = Cropped(Cropped(n, L), L)
    BY <2>1, <2>2
  <2>4. Cropped(Cropped(n, L), L) = Cropped(n, L)
    BY <1>1, CroppedAgain
  <2> QED BY <2>3, <2>4 DEF i, b, L
<1> QED BY <1>7, <1>8

(* The shape of what number() writes.                                      *)
LEMMA RoomAdds ==
  ASSUME NEW la \in Nat, NEW lg \in Nat, NEW lp \in Nat, NEW lt \in Nat, NEW lz \in Nat
  PROVE  /\ la + (lg + lp) \in 0 .. la + (lg + (lp + (lt + lz)))
         /\ \A j \in Nat : (la + (lg + lp)) + j = la + (lg + (lp + j))
         /\ \A k \in Nat : k > la =>
              \/ (\E j \in 1 .. lg : k = la + j)
              \/ (\E j \in 1 .. lp : k = la + (lg + j))
              \/ (\E j \in 1 .. lt : k = la + (lg + (lp + j)))
              \/ k > la + (lg + (lp + lt))
<1>1. ASSUME NEW k \in Nat, k > la PROVE \/ (\E j \in 1 .. lg : k = la + j)
              \/ (\E j \in 1 .. lp : k = la + (lg + j))
              \/ (\E j \in 1 .. lt : k = la + (lg + (lp + j)))
              \/ k > la + (lg + (lp + lt))
  <2>1. CASE k - la <= lg
    <3>1. k - la \in 1 .. lg /\ k = la + (k - la)
      BY <1>1, <2>1
    <3> QED BY <3>1
  <2>2. CASE ~(k - la <= lg) /\ k - (la + lg) <= lp
    <3>1. k - (la + lg) \in 1 .. lp /\ k = la + (lg + (k - (la + lg)))
      BY <1>1, <2>2
    <3> QED BY <3>1
  <2>3. CASE ~(k - (la + lg) <= lp) /\ k - (la + (lg + lp)) <= lt
    <3>1. k - (la + (lg + lp)) \in 1 .. lt /\ k = la + (lg + (lp + (k - (la + (lg + lp)))))
      BY <1>1, <2>3
    <3> QED BY <3>1
  <2>4. CASE ~(k - (la + (lg + lp)) <= lt)
    BY <1>1, <2>4
  <2> QED BY <2>1, <2>2, <2>3, <2>4
<1> QED BY <1>1

Shaped(w, size, prec, type) ==
  /\ size <= Len(w)
  /\ \E i \in 0 .. Len(w) : \A j \in 1 .. prec : Format!isxdigit(Format!At(w, i + j))
  /\ size >= -1 /\ Len(w) > size => " " \notin Format!Range(Tail(w))
  /\ "LEFT" \in type => w[1] # " " \/ "SPACE" \in type

LEMMA NumberShaped ==
  ASSUME NEW w, NEW n, NEW base \in Bases, NEW size \in Int, NEW prec \in Int, NEW type,
         NEW a, NEW g, NEW p, NEW t, NEW z, Composed(w, n, base, size, prec, type, a, g, p, t, z)
  PROVE  Shaped(w, size, prec, type)
<1> DEFINE la == Len(a)
           lg == Len(g)
           lp == Len(p)
           lt == Len(t)
           lz == Len(z)
           lw == Len(w)
<1>0. PiecesAt(w, p, t, la, lg, lp, lt, lz)
  BY PiecesLie, Zenon
<1>1. /\ prec <= lt /\ size <= la + (lg + (lp + (lt + lz)))
      /\ size >= -1 /\ size < la + (lg + (lp + (lt + lz))) => la <= 1 /\ z = <<>>
      /\ a \in Seq({" ", "+"}) /\ p \in Seq({"0", "x", "X"})
      /\ "LEFT" \in type => a \in {<<>>, <<"+">>} \/ (a = <<" ">> /\ "SPACE" \in type)
  BY DEF Composed
<1>2. z = <<>> => lz = 0
  BY EmptySeq
<1>3. Format!At(w, la + 1) # " " /\ la + 1 \in 1 .. lw
  BY FirstOfNumber
<1>4. \A j \in 1 .. lp : Format!At(p, j) \in {"0", "x", "X"}
  <2>1. p \in Scripts
    BY <1>1, ScriptsAre
  <2>2. \A j \in 1 .. lp : p[j] \in {"0", "x", "X"}
    BY <1>1, ElementOfSeq
  <2> QED BY <2>1, <2>2, AtIs
<1>5. /\ a = <<>> => la = 0
      /\ a = <<"+">> => la = 1 /\ a[1] = "+"
  OBVIOUS
<1>6. \A j \in 1 .. la : Format!At(w, j) = a[j]
  <2>1. w = Glue(a, Glue(g, Glue(p, Glue(t, z)))) /\ Numeral(t, base, Amount(n, type)) /\ g \in Seq({"-"}) /\ z \in Seq({" "})
    BY DEF Composed
  <2>2. a \in Scripts /\ g \in Scripts /\ p \in Scripts /\ t \in Scripts /\ z \in Scripts
    BY <1>1, <2>1, ScriptsAre DEF Numeral
  <2> DEFINE y == Glue(g, Glue(p, Glue(t, z)))
  <2>3. y \in Scripts
    BY <2>2, GlueAssociates
  <2> HIDE DEF y
  <2>4. \A j \in 1 .. Len(a) : Format!At(Glue(a, y), j) = Format!At(a, j)
    BY <2>2, <2>3, GlueAt
  <2>5. \A j \in 1 .. Len(a) : Format!At(a, j) = a[j]
    BY <2>2, AtIs
  <2> QED BY <2>1, <2>4, <2>5 DEF y
<1> HIDE DEF la, lg, lp, lt, lz
<1>7. la \in Nat /\ lg \in Nat /\ lp \in Nat /\ lt \in Nat /\ lz \in Nat
  BY <1>0 DEF PiecesAt
<1>8. w \in Scripts /\ lw = la + (lg + (lp + (lt + lz)))
  BY <1>0 DEF PiecesAt
<1>9. /\ \A j \in 1 .. lg : Format!At(w, la + j) = "-"
      /\ \A j \in 1 .. lp : Format!At(w, la + (lg + j)) = Format!At(p, j)
      /\ \A j \in 1 .. lt : Format!At(w, la + (lg + (lp + j))) \in Hexes
  BY <1>0 DEF PiecesAt
<1>10. lw \in Nat /\ \A j \in 1 .. lw : Format!At(w, j) = w[j]
  BY <1>8, AtIs
<1> HIDE DEF lw
<1>11. size <= lw
  BY <1>1, <1>8
<1>12. \E i \in 0 .. lw : \A j \in 1 .. prec : Format!isxdigit(Format!At(w, i + j))
  <2> DEFINE i == la + (lg + lp)
  <2>1. i \in 0 .. lw
    BY <1>7, <1>8, RoomAdds
  <2>2. prec \in Int /\ prec <= lt
    BY <1>1
  <2>3. ASSUME NEW j \in 1 .. prec PROVE Format!isxdigit(Format!At(w, i + j))
    <3>1. j \in 1 .. lt /\ j \in Nat
      BY <1>7, <2>2
    <3>2. i + j = la + (lg + (lp + j))
      BY <1>7, <3>1, RoomAdds
    <3>3. Format!At(w, i + j) \in Hexes
      BY <1>9, <3>1, <3>2
    <3> QED BY <3>3, HexesAre
  <2> HIDE DEF i
  <2> QED BY <2>1, <2>3
<1>13. \A k \in 1 .. lw : k > la /\ lz = 0 => w[k] # " "
  <2> TAKE k \in 1 .. lw
  <2> HAVE k > la /\ lz = 0
  <2>1. k \in Nat /\ ~(k > la + (lg + (lp + lt)))
    BY <1>7, <1>8
  <2>2. \/ (\E j \in 1 .. lg : k = la + j)
        \/ (\E j \in 1 .. lp : k = la + (lg + j))
        \/ (\E j \in 1 .. lt : k = la + (lg + (lp + j)))
    BY <1>7, <2>1, RoomAdds
  <2>3. CASE \E j \in 1 .. lg : k = la + j
    BY <1>9, <1>10, <2>3
  <2>4. CASE \E j \in 1 .. lp : k = la + (lg + j)
    BY <1>4, <1>9, <1>10, <2>4
  <2>5. CASE \E j \in 1 .. lt : k = la + (lg + (lp + j))
    <3>1. w[k] \in Hexes
      BY <1>9, <1>10, <2>5
    <3> QED BY <3>1, HexesAre
  <2> QED BY <2>2, <2>3, <2>4, <2>5
<1>14. size >= -1 /\ lw > size => " " \notin Format!Range(Tail(w))
  <2> HAVE size >= -1 /\ lw > size
  <2>1. la <= 1 /\ lz = 0
    BY <1>1, <1>2, <1>8
  <2>2. w \in Seq(Letters) /\ w # <<>>
    <3>1. w \in Seq(Letters)
      BY <1>8 DEF Scripts
    <3>2. lw # 0
      <4>1. la \in Nat /\ la + 1 \in 1 .. lw
        BY <1>3, <1>7
      <4> QED BY <4>1
    <3> QED BY <3>1, <3>2, EmptySeq DEF lw
  <2>3. Tail(w) \in Seq(Letters) /\ Len(Tail(w)) = lw - 1 /\ \A i \in 1 .. Len(Tail(w)) : Tail(w)[i] = w[i + 1]
    BY <2>2, HeadTailProperties DEF lw
  <2>4. DOMAIN Tail(w) = 1 .. lw - 1
    BY <2>3, LenProperties
  <2>5. ASSUME NEW i \in 1 .. lw - 1 PROVE w[i + 1] # " "
    <3>1. i + 1 \in 1 .. lw /\ i + 1 > la
      BY <1>7, <1>10, <2>1
    <3> QED BY <1>13, <2>1, <3>1
  <2>6. \A i \in DOMAIN Tail(w) : Tail(w)[i] # " "
    BY <2>3, <2>4, <2>5
  <2> QED BY <2>6 DEF Format!Range
<1>15. "LEFT" \in type => w[1] # " " \/ "SPACE" \in type
  <2> HAVE "LEFT" \in type
  <2>1. CASE a = <<" ">> /\ "SPACE" \in type
    BY <2>1
  <2>2. CASE a = <<>>
    <3>1. la + 1 = 1 /\ 1 \in 1 .. lw
      <4>1. la = 0
        BY <1>5, <2>2
      <4>2. la + 1 \in 1 .. lw
        BY <1>3
      <4> QED BY <4>1, <4>2
    <3> QED BY <1>3, <1>10, <3>1
  <2>3. CASE a = <<"+">>
    <3>1. 1 \in 1 .. la /\ 1 \in 1 .. lw
      <4>1. la = 1
        BY <1>5, <2>3
      <4>2. la + 1 \in 1 .. lw
        BY <1>3
      <4> QED BY <1>10, <4>1, <4>2
    <3> QED BY <1>5, <1>6, <1>10, <2>3, <3>1
  <2> QED BY <1>1, <2>1, <2>2, <2>3
<1> QED BY <1>11, <1>12, <1>14, <1>15 DEF Shaped, lw

(* What a conversion has written, and what it is to look like.             *)
Chars(f) == Letters \union {"%", "c", "s", "<", "N", "U", "L", ">"} \union Format!Range(f)

NumberWrote(c, w, n, width, prec, type) ==
  LET base == IF c = "p" THEN 16 ELSE Format!Base(c) IN
  /\ Shaped(w, width, prec, type)
  /\ ~("SPECIAL" \in type /\ "LARGE" \in type)
       => Format!simple_strtoll(w, NumberStart(w), IF "SPECIAL" \in type /\ base # 10 THEN 0 ELSE base).value =
            Cropped(n, 2^LongLongBits)

TextWrote(c, w, width, prec, type) ==
  /\ width <= Len(w)
  /\ c = "s" /\ prec >= 0 => \E i \in 0 .. Len(w) : \A j \in DOMAIN w : w[j] = " " \/ j - i \in 1 .. prec
  /\ "LEFT" \in type /\ ~(Format!Range(w) \subseteq {" "}) => w[1] # " "

Wrote(c, w, n, width, prec, type) ==
  /\ c \in Format!Integer \union {"p"} => NumberWrote(c, w, n, width, prec, type)
  /\ c \in {"c", "s"} => TextWrote(c, w, width, prec, type)

Letter(f, i, p) == IF p = "text" /\ i > 1 /\ Format!Asked(f)[i - 2].stage # "text" THEN Format!At(f, i - 1) ELSE "NUL"

WroteGood(f, i, p, s, b, n, w, pr, fl) ==
  /\ s \in Seq(Chars(f))
  /\ p \notin {"text", "end"} => b = Len(s)
  /\ Wrote(Letter(f, i, p), SubSeq(s, b + 1, Len(s)), n, w, pr, fl)

WroteInv == FormatInv /\ WroteGood(vfmt, vfp, vpc, vstr, vstart, vnum, vwidth, vprecision, vflags)

LEMMA WrotePrimed ==
  ASSUME FormatInv', WroteGood(vfmt', vfp', vpc', vstr', vstart', vnum', vwidth', vprecision', vflags')
  PROVE  WroteInv'
<1>1. WroteGood(vfmt, vfp, vpc, vstr, vstart, vnum, vwidth, vprecision, vflags)'
  BY Zenon DEF WroteGood, Wrote, NumberWrote, TextWrote, Shaped, Letter, Chars, Letters, Hexes, NumberStart, Cropped,
         Format!simple_strtoll, Format!simple_strtoull, Format!BaseOf, Format!Digits, Format!At, Format!isxdigit,
         Format!In, Format!Lower, Format!Upper, Format!Value, Format!Asked, Format!After, Format!Takes, Format!FlagOf,
         Format!Decimal, Format!Integer, Format!Base, Format!Range
<1>2. FormatInv'
  OBVIOUS
<1> QED BY ONLY <1>1, <1>2, Zenon DEF WroteInv

LEMMA WroteNumber ==
  ASSUME NEW c \in Format!Integer \union {"p"}, NEW n \in Int, NEW width \in Int, NEW prec \in Int, NEW type,
         NEW w, w = Format!number(n, IF c = "p" THEN 16 ELSE Format!Base(c), width, prec, type), NEW f
  PROVE  Wrote(c, w, n, width, prec, type) /\ w \in Seq(Chars(f))
<1> DEFINE base == IF c = "p" THEN 16 ELSE Format!Base(c)
<1>1. base \in Bases
  BY DEF Format!Base, Bases
<1> HIDE DEF base
<1>2. PICK a, g, p, t, z : Composed(Format!number(n, base, width, prec, type), n, base, width, prec, type, a, g, p, t, z)
  BY <1>1, NumberComposed
<1>3. Composed(w, n, base, width, prec, type, a, g, p, t, z)
  BY <1>2 DEF base
<1>4. Shaped(w, width, prec, type)
  BY <1>1, <1>3, NumberShaped
<1>5. ~("SPECIAL" \in type /\ "LARGE" \in type)
       => Format!simple_strtoll(w, NumberStart(w), IF "SPECIAL" \in type /\ base # 10 THEN 0 ELSE base).value =
            Cropped(n, 2^LongLongBits)
  BY <1>1, <1>3, NumberReads
<1>6. NumberWrote(c, w, n, width, prec, type)
  BY <1>4, <1>5, Zenon DEF NumberWrote, base
<1>7. c \notin {"c", "s"}
  BY DEF Format!Integer
<1>8. w \in Seq(Chars(f))
  <2>1. w \in Seq(Letters)
    BY <1>3, PiecesLie DEF PiecesAt, Scripts
  <2>2. Letters \subseteq Chars(f)
    BY DEF Chars
  <2> QED BY <2>1, <2>2, SeqMonotonic
<1> QED BY <1>6, <1>7, <1>8, Zenon DEF Wrote

PaddedTo(w, s, room, type) ==
  LET pad == Format!Repeat(" ", room) IN w = IF "LEFT" \in type THEN s \o pad ELSE pad \o s

PaddedShape(w, s, S, width, type) ==
  /\ w \in Seq(S \union {" "}) /\ width <= Len(w)
  /\ \E i \in 0 .. Len(w) : \A j \in DOMAIN w : w[j] = " " \/ j - i \in 1 .. Len(s)
  /\ "LEFT" \in type /\ Len(s) > 0 => w[1] = s[1]

LEMMA TextShaped ==
  ASSUME NEW S, NEW s \in Seq(S), NEW width \in Int, NEW type, NEW w,
         NEW room \in Int, room >= width - Len(s), PaddedTo(w, s, room, type)
  PROVE  PaddedShape(w, s, S, width, type)
<1> DEFINE pad == Format!Repeat(" ", room)
           T == S \union {" "}
           ls == Len(s)
           lp == Len(pad)
           lw == Len(w)
<1>1. ls \in Nat
  BY LenProperties
<1>2. pad \in Seq({" "}) /\ lp = (IF room > 0 THEN room ELSE 0) /\ room >= width - ls /\ \A j \in 1 .. lp : pad[j] = " "
  <2> QED BY RepeatIs
<1>3. w = IF "LEFT" \in type THEN s \o pad ELSE pad \o s
  BY DEF PaddedTo
<1> HIDE DEF pad
<1>4. s \in Seq(T) /\ pad \in Seq(T)
  BY <1>2, SeqMonotonic
<1> HIDE DEF T
<1>5. CASE "LEFT" \in type
  <2>1. w \in Seq(T) /\ lw = ls + lp /\ \A j \in 1 .. ls + lp : w[j] = IF j <= ls THEN s[j] ELSE pad[j - ls]
    BY <1>3, <1>4, <1>5, ConcatProperties
  <2>2. DOMAIN w = 1 .. lw
    BY <2>1, LenProperties
  <2> HIDE DEF ls, lp, lw
  <2>3. lp \in Nat /\ width <= lw /\ lw \in Nat
    <3>1. lp = (IF room > 0 THEN room ELSE 0) /\ room >= width - ls /\ lw = ls + lp
      BY <1>2, <2>1
    <3> QED BY <1>1, <3>1
  <2>4. 0 \in 0 .. lw /\ \A j \in DOMAIN w : w[j] = " " \/ j - 0 \in 1 .. ls
    <3>1. 0 \in 0 .. lw
      BY <2>3
    <3>2. ASSUME NEW j \in 1 .. lw, ~(j \in 1 .. ls) PROVE w[j] = " "
      <4>1. ~(j <= ls) /\ j - ls \in 1 .. lp /\ j \in 1 .. ls + lp
        <5>1. lw = ls + lp
          BY <2>1
        <5> QED BY <1>1, <2>3, <3>2, <5>1
      <4> QED BY <1>2, <2>1, <4>1
    <3>3. \A j \in 1 .. lw : j - 0 = j
      OBVIOUS
    <3> QED BY <2>2, <3>1, <3>2, <3>3
  <2>5. ls > 0 => w[1] = s[1]
    <3> HAVE ls > 0
    <3>1. 1 \in 1 .. ls + lp /\ 1 <= ls
      BY <1>1, <2>3
    <3> QED BY <2>1, <3>1
  <2>6. \E i \in 0 .. lw : \A j \in DOMAIN w : w[j] = " " \/ j - i \in 1 .. ls
    BY <2>4
  <2> QED BY <2>1, <2>3, <2>5, <2>6 DEF PaddedShape, T, lw, ls
<1>6. CASE ~("LEFT" \in type)
  <2>1. w \in Seq(T) /\ lw = lp + ls /\ \A j \in 1 .. lp + ls : w[j] = IF j <= lp THEN pad[j] ELSE s[j - lp]
    BY <1>3, <1>4, <1>6, ConcatProperties
  <2>2. DOMAIN w = 1 .. lw
    BY <2>1, LenProperties
  <2> HIDE DEF ls, lp, lw
  <2>3. lp \in Nat /\ width <= lw /\ lw \in Nat /\ lp \in 0 .. lw
    <3>1. lp = (IF room > 0 THEN room ELSE 0) /\ room >= width - ls /\ lw = lp + ls
      BY <1>2, <2>1
    <3> QED BY <1>1, <3>1
  <2>4. \A j \in DOMAIN w : w[j] = " " \/ j - lp \in 1 .. ls
    <3>2. ASSUME NEW j \in 1 .. lw, ~(j - lp \in 1 .. ls) PROVE w[j] = " "
      <4>1. j <= lp /\ j \in 1 .. lp /\ j \in 1 .. lp + ls
        <5>1. lw = lp + ls
          BY <2>1
        <5> QED BY <1>1, <2>3, <3>2, <5>1
      <4> QED BY <1>2, <2>1, <4>1
    <3> QED BY <2>2, <3>2
  <2>6. \E i \in 0 .. lw : \A j \in DOMAIN w : w[j] = " " \/ j - i \in 1 .. ls
    BY <2>3, <2>4
  <2> QED BY <1>6, <2>1, <2>3, <2>6 DEF PaddedShape, T, lw, ls
<1> QED BY <1>5, <1>6

(* What is put behind the string is the field of the conversion.           *)
LEMMA PutBehind ==
  ASSUME NEW S, NEW s \in Seq(S), NEW w \in Seq(S)
  PROVE  s \o w \in Seq(S) /\ SubSeq(s \o w, Len(s) + 1, Len(s \o w)) = w
<1> DEFINE r == s \o w
           ls == Len(s)
           lw == Len(w)
           q == SubSeq(r, ls + 1, ls + lw)
<1>1. r \in Seq(S) /\ Len(r) = ls + lw /\ \A i \in 1 .. ls + lw : r[i] = IF i <= ls THEN s[i] ELSE w[i - ls]
  BY ConcatProperties
<1>2. ls \in Nat /\ lw \in Nat
  BY LenProperties
<1>3. \A i \in 1 .. Len(r) : r[i] \in S
  BY <1>1, ElementOfSeq
<1> HIDE DEF r
<1>4. q \in Seq(S) /\ Len(q) = lw /\ \A i \in 1 .. lw : q[i] = r[ls + i]
  <2> HIDE DEF ls, lw
  <2>1. /\ ls + 1 \in Int /\ ls + lw \in Int /\ (\A i \in ls + 1 .. ls + lw : i \in 1 .. ls + lw)
        /\ (ls + lw) - (ls + 1) + 1 = lw /\ (\A i \in 1 .. lw : (ls + 1) + i - 1 = ls + i) /\ (ls + 1 <= ls + lw <=> lw > 0)
    BY <1>2
  <2>2. \A i \in ls + 1 .. ls + lw : r[i] \in S
    BY <1>1, <1>3, <2>1
  <2>3. /\ q \in Seq(S) /\ Len(q) = IF ls + 1 <= ls + lw THEN (ls + lw) - (ls + 1) + 1 ELSE 0
        /\ \A i \in 1 .. (ls + lw) - (ls + 1) + 1 : q[i] = r[(ls + 1) + i - 1]
    BY <2>1, <2>2, SubSeqProperties
  <2>4. Len(q) = lw
    BY <1>2, <2>1, <2>3
  <2> QED BY <2>1, <2>3, <2>4
<1> HIDE DEF q
<1>5. \A i \in 1 .. lw : q[i] = w[i]
  <2> TAKE i \in 1 .. lw
  <2> HIDE DEF ls, lw
  <2>1. ls + i \in 1 .. ls + lw /\ ~(ls + i <= ls) /\ (ls + i) - ls = i
    BY <1>2
  <2> QED BY <1>1, <1>4, <2>1
<1>6. q = w
  BY <1>4, <1>5, SeqEqual
<1> QED BY <1>1, <1>6 DEF q, r

LEMMA WroteSomething ==
  ASSUME WroteInv, FormatInv', vpc = "convert", vpc' = "text", vfmt' = vfmt, vstart' = vstart,
         NEW w \in Seq(Chars(vfmt)), vstr' = vstr \o w,
         Wrote(Letter(vfmt, vfp', "text"), w, vnum', vwidth', vprecision', vflags')
  PROVE  WroteInv'
<1>1. vstr \in Seq(Chars(vfmt)) /\ vstart = Len(vstr)
  BY DEF WroteInv, WroteGood
<1>2. vstr \o w \in Seq(Chars(vfmt)) /\ SubSeq(vstr \o w, Len(vstr) + 1, Len(vstr \o w)) = w
  BY <1>1, PutBehind
<1>3. vstr' \in Seq(Chars(vfmt)) /\ SubSeq(vstr', vstart' + 1, Len(vstr')) = w
  BY <1>1, <1>2
<1>4. WroteGood(vfmt', vfp', vpc', vstr', vstart', vnum', vwidth', vprecision', vflags')
  BY <1>3, Zenon DEF WroteGood
<1> QED BY <1>4, WrotePrimed

LEMMA WroteNothing ==
  ASSUME WroteInv, FormatInv', vfmt' = vfmt, vstr' \in Seq(Chars(vfmt)), vpc' \notin {"text", "end"} => vstart' = Len(vstr'),
         Letter(vfmt, vfp', vpc') \notin Format!Integer \union {"p", "c", "s"}
  PROVE  WroteInv'
<1>1. Wrote(Letter(vfmt, vfp', vpc'), SubSeq(vstr', vstart' + 1, Len(vstr')), vnum', vwidth', vprecision', vflags')
  BY Zenon DEF Wrote
<1>2. WroteGood(vfmt', vfp', vpc', vstr', vstart', vnum', vwidth', vprecision', vflags')
  BY <1>1, Zenon DEF WroteGood
<1> QED BY <1>2, WrotePrimed

(* The letter of a conversion that was not, because the format ends.       *)
LEMMA LetterIs ==
  ASSUME FormatInv, NEW i \in 1 .. Len(vfmt) + 1, NEW p
  PROVE  /\ p # "text" => Letter(vfmt, i, p) = "NUL"
         /\ i # 1 => Letter(vfmt, i, p) \in {Format!At(vfmt, i - 1), "NUL"}
         /\ i = vfp + 1 => Letter(vfmt, i, p) \in {Format!At(vfmt, vfp), "NUL"}
         /\ i = vfp + 1 /\ Format!Asked(vfmt)[vfp - 1].stage = "text" => Letter(vfmt, i, p) = "NUL"
<1>1. vfp \in 1 .. Len(vfmt) + 1 /\ Len(vfmt) \in Nat
  BY FormatConstants DEF FormatInv, FormatGood
<1>2. vfp \in Int /\ i \in Int
  BY <1>1
<1>3. i = vfp + 1 => i - 1 = vfp /\ i - 2 = vfp - 1 /\ i # 1
  BY <1>1, <1>2
<1> QED BY <1>3 DEF Letter

LEMMA EndQuiet ==
  ASSUME FormatInv, vpc = "convert"
  PROVE  Letter(vfmt, vfp, "text") \notin Format!Integer \union {"p", "c", "s"}
<1> DEFINE k == vfp - 1
           a == Format!Asked(vfmt)
           c == Format!At(vfmt, k)
<1>1. vfmt \in Formats /\ vfp \in 1 .. Len(vfmt) + 1 /\ Len(vfmt) \in Nat /\ a[vfp - 1].stage # "text"
  BY FormatConstants DEF FormatInv, FormatGood, Ready
<1>2. SUFFICES ASSUME vfp > 1, a[vfp - 2].stage # "text", c \in Format!Integer \union {"p", "c", "s"} PROVE FALSE
  BY DEF Letter, Format!Integer
<1>3. k \in 1 .. Len(vfmt) + 1 /\ k - 1 = vfp - 2
  BY <1>1, <1>2
<1>4. c # "NUL"
  BY <1>2 DEF Format!Integer
<1>5. a[k].stage = Format!After(a[k - 1].stage, c)
  BY <1>1, <1>3, <1>4, Onward
<1>6. Format!After(a[k - 1].stage, c) = "text"
  <2>1. c \notin FlagChars /\ c \notin Figures /\ c \notin {"*", ".", "%"} /\ c \notin Qualifiers
    BY <1>2 DEF Format!Integer, FlagChars, Figures, Qualifiers
  <2> HIDE DEF c, a
  <2> QED BY <2>1, AfterIs
<1> QED BY <1>1, <1>5, <1>6

LEMMA WroteInit ==
  ASSUME Format!Init
  PROVE  WroteInv
<1>1. vfp = 1 /\ vpc = "text" /\ vstr = <<>>
  BY DEF Format!Init
<1>2. Letter(vfmt, vfp, vpc) = "NUL"
  BY <1>1 DEF Letter
<1>3. Wrote(Letter(vfmt, vfp, vpc), SubSeq(vstr, vstart + 1, Len(vstr)), vnum, vwidth, vprecision, vflags)
  BY <1>2 DEF Wrote, Format!Integer
<1>4. vstr \in Seq(Chars(vfmt))
  BY <1>1, EmptySeq
<1> QED BY <1>1, <1>3, <1>4, FormatInitInv DEF WroteInv, WroteGood

(* What va_arg makes of an argument is a number.                           *)
LEMMA ArgumentNumber ==
  ASSUME FormatInv, vpc = "convert", Format!At(vfmt, vfp) \in Takers
  PROVE  /\ vargs[vap] \in Int
         /\ \A signed : Format!Argument(signed) \in Int
         /\ Format!As(vargs[vap], IntBits, FALSE) \in Int
<1> DEFINE c == Format!At(vfmt, vfp)
           st == Format!Asked(vfmt)[vfp - 1].stage
<1>1. /\ vfmt \in Formats /\ vargs \in Arguments /\ vfp \in 1 .. Len(vfmt) + 1
      /\ vap = 1 + Format!Asked(vfmt)[vfp - 1].taken /\ st # "text"
  BY DEF FormatInv, FormatGood, Ready
<1>2. c # "NUL" /\ Count(st, c) = 1
  BY <1>1, CountIs DEF Takers
<1>3. vargs[vap] \in Int
  BY <1>1, <1>2, ArgumentThere
<1>4. ASSUME NEW n \in Int, NEW bits, 2^bits \in Nat, 2^bits > 0, NEW signed PROVE Format!As(n, bits, signed) \in Int
  <2> DEFINE L == 2^bits
             H == 2^(bits - 1)
  <2>1. L \in Nat /\ L > 0
    BY <1>4
  <2>2. Format!As(n, bits, signed) = IF signed /\ n % L >= H THEN (n % L) - L ELSE n % L
    BY Zenon DEF Format!As
  <2> HIDE DEF L, H
  <2>3. n % L \in Int /\ (n % L) - L \in Int
    BY <2>1
  <2> QED BY <2>2, <2>3
<1>5. ASSUME NEW signed PROVE Format!Argument(signed) \in Int
  <2>1. /\ Format!As(vargs[vap], LongLongBits, TRUE) \in Int /\ Format!As(vargs[vap], ShortBits, signed) \in Int
        /\ Format!As(vargs[vap], IntBits, FALSE) \in Int /\ Format!As(vargs[vap], IntBits, signed) \in Int
    BY <1>3, <1>4, Limits
  <2> QED BY <2>1 DEF Format!Argument
<1> QED BY <1>3, <1>4, <1>5, Limits

LEMMA WroteTextKeeps ==
  ASSUME WroteInv, FormatInv', Format!Text
  PROVE  WroteInv'
<1> DEFINE c == Format!At(vfmt, vfp)
           st == Format!Asked(vfmt)[vfp - 1].stage
<1>1. /\ vfmt \in Formats /\ vfp \in 1 .. Len(vfmt) + 1 /\ Ready(vpc, st, c) /\ vstr \in Seq(Chars(vfmt)) /\ FormatInv
  BY DEF WroteInv, WroteGood, FormatInv, FormatGood
<1>2. vpc = "text" /\ vfmt' = vfmt /\ vfp' \in 1 .. Len(vfmt) + 1
  BY DEF Format!Text, FormatInv, FormatGood
<1>3. CASE c = "NUL" /\ vpc' = "end" /\ vstr' = vstr
  <2>1. Letter(vfmt, vfp', vpc') = "NUL"
    BY <1>1, <1>2, <1>3, LetterIs
  <2> QED BY <1>1, <1>2, <1>3, <2>1, WroteNothing DEF Format!Integer
<1>4. CASE c \notin {"NUL", "%"} /\ vstr' = Append(vstr, vfmt[vfp]) /\ vpc' = vpc /\ vfp' = vfp + 1
  <2>1. st = "text"
    BY <1>1, <1>2, <1>4 DEF Ready
  <2>2. Letter(vfmt, vfp', vpc') = "NUL"
    BY <1>1, <1>2, <1>4, <2>1, LetterIs
  <2>3. vfmt[vfp] \in Chars(vfmt)
    BY <1>4 DEF Format!At, Format!Range, Chars
  <2>4. vstr' \in Seq(Chars(vfmt))
    BY <1>1, <1>4, <2>3
  <2> QED BY <1>1, <1>2, <1>4, <2>2, <2>4, WroteNothing DEF Format!Integer
<1>5. CASE vpc' = "flags" /\ vstart' = Len(vstr) /\ vstr' = vstr
  <2>1. Letter(vfmt, vfp', vpc') = "NUL"
    BY <1>1, <1>2, <1>5, LetterIs
  <2> QED BY <1>1, <1>2, <1>5, <2>1, WroteNothing DEF Format!Integer
<1> QED BY <1>3, <1>4, <1>5 DEF Format!Text, Format!spec

LEMMA WroteSpecKeeps ==
  ASSUME WroteInv, FormatInv', Format!Flags \/ Format!Width \/ Format!Precision \/ Format!Qualifier
  PROVE  WroteInv'
<1>1. /\ vpc \notin {"text", "end"} /\ vpc' \in {"flags", "width", "precision", "qualifier", "convert"}
      /\ vfmt' = vfmt /\ vstr' = vstr /\ vstart' = vstart
  BY DEF Format!Flags, Format!Width, Format!Precision, Format!Qualifier
<1>2. vstr \in Seq(Chars(vfmt)) /\ vstart = Len(vstr) /\ FormatInv
  BY <1>1 DEF WroteInv, WroteGood
<1>3. vfp' \in 1 .. Len(vfmt) + 1
  BY <1>1 DEF FormatInv, FormatGood
<1>4. Letter(vfmt, vfp', vpc') = "NUL"
  BY <1>1, <1>2, <1>3, LetterIs
<1> QED BY <1>1, <1>2, <1>4, WroteNothing DEF Format!Integer

LEMMA WroteIntegerKeeps ==
  ASSUME WroteInv, FormatInv', Format!ConvertInteger
  PROVE  WroteInv'
<1> DEFINE c == vfmt[vfp]
           type == vflags \union (IF c \in {"d", "i"} THEN {"SIGN"} ELSE IF c = "X" THEN {"LARGE"} ELSE {})
           w == Format!number(vnum', Format!Base(c), vwidth, vprecision, type)
<1>1. /\ vpc = "convert" /\ vpc' = "text" /\ Format!At(vfmt, vfp) \in Format!Integer /\ vflags' = type
      /\ vnum' = Format!Argument("SIGN" \in type) /\ vstr' = vstr \o w
      /\ vfp' = vfp + 1 /\ vfmt' = vfmt /\ vstart' = vstart /\ vwidth' = vwidth /\ vprecision' = vprecision
  BY Zenon DEF Format!ConvertInteger, Format!Put
<1>2. /\ FormatInv /\ vwidth \in Int /\ vprecision \in Int /\ vfp' \in 1 .. Len(vfmt) + 1
  BY <1>1 DEF WroteInv, FormatInv, FormatGood
<1>3. c = Format!At(vfmt, vfp)
  BY <1>1 DEF Format!At, Format!Integer
<1>4. c \in Takers /\ c # "p" /\ c \in Format!Integer \union {"p"}
  BY <1>1, <1>3 DEF Format!Integer, Takers
<1>5. vnum' \in Int
  BY <1>1, <1>2, <1>3, <1>4, ArgumentNumber
<1>6. w = Format!number(vnum', IF c = "p" THEN 16 ELSE Format!Base(c), vwidth, vprecision, type)
  BY <1>4
<1> HIDE DEF w, type
<1>7. Wrote(c, w, vnum', vwidth, vprecision, type) /\ w \in Seq(Chars(vfmt))
  BY <1>2, <1>4, <1>5, <1>6, WroteNumber
<1>8. Letter(vfmt, vfp', "text") \in {c, "NUL"}
  BY <1>1, <1>2, <1>3, LetterIs
<1>9. Wrote(Letter(vfmt, vfp', "text"), w, vnum', vwidth', vprecision', vflags')
  <2>1. Wrote("NUL", w, vnum', vwidth', vprecision', vflags')
    BY DEF Wrote, Format!Integer
  <2> QED BY <1>1, <1>7, <1>8, <2>1
<1> QED BY <1>1, <1>7, <1>9, WroteSomething

LEMMA WrotePointerKeeps ==
  ASSUME WroteInv, FormatInv', Format!ConvertPointer
  PROVE  WroteInv'
<1> DEFINE w == Format!number(vnum', 16, vwidth', vprecision, vflags')
<1>1. /\ vpc = "convert" /\ vpc' = "text" /\ Format!At(vfmt, vfp) = "p"
      /\ vnum' = Format!As(vargs[vap], IntBits, FALSE) /\ vstr' = vstr \o w
      /\ vfp' = vfp + 1 /\ vfmt' = vfmt /\ vstart' = vstart /\ vprecision' = vprecision
  BY Zenon DEF Format!ConvertPointer, Format!Put
<1>2. /\ FormatInv /\ vwidth' \in Int /\ vprecision \in Int /\ vfp' \in 1 .. Len(vfmt) + 1
  BY <1>1 DEF WroteInv, FormatInv, FormatGood
<1>3. vnum' \in Int
  BY <1>1, <1>2, ArgumentNumber DEF Takers
<1>4. w = Format!number(vnum', IF "p" = "p" THEN 16 ELSE Format!Base("p"), vwidth', vprecision, vflags')
  OBVIOUS
<1> HIDE DEF w
<1>5. Wrote("p", w, vnum', vwidth', vprecision, vflags') /\ w \in Seq(Chars(vfmt))
  <2>1. "p" \in Format!Integer \union {"p"}
    OBVIOUS
  <2> QED BY <1>2, <1>3, <1>4, <2>1, WroteNumber
<1>6. Letter(vfmt, vfp', "text") \in {"p", "NUL"}
  BY <1>1, <1>2, LetterIs
<1>7. Wrote(Letter(vfmt, vfp', "text"), w, vnum', vwidth', vprecision', vflags')
  <2>1. Wrote("NUL", w, vnum', vwidth', vprecision', vflags')
    BY DEF Wrote, Format!Integer
  <2> QED BY <1>1, <1>5, <1>6, <2>1
<1> QED BY <1>1, <1>5, <1>7, WroteSomething

LEMMA WroteQuietKeeps ==
  ASSUME WroteInv, FormatInv', Format!ConvertCount \/ Format!Return \/ UNCHANGED printvars
  PROVE  WroteInv'
<1>1. CASE Format!ConvertCount
  <2>1. /\ vpc = "convert" /\ vpc' = "text" /\ Format!At(vfmt, vfp) = "n" /\ vstr' = vstr
        /\ vfp' = vfp + 1 /\ vfmt' = vfmt
    BY <1>1 DEF Format!ConvertCount
  <2>2. vstr \in Seq(Chars(vfmt)) /\ FormatInv
    BY DEF WroteInv, WroteGood
  <2>3. vfp' \in 1 .. Len(vfmt) + 1
    BY <2>1 DEF FormatInv, FormatGood
  <2>4. Letter(vfmt, vfp', vpc') \in {"n", "NUL"}
    BY <2>1, <2>2, <2>3, LetterIs
  <2> QED BY <2>1, <2>2, <2>4, WroteNothing DEF Format!Integer
<1>2. CASE Format!Return \/ UNCHANGED printvars
  <2>1. /\ vfmt' = vfmt /\ vfp' = vfp /\ vpc' = vpc /\ vstr' = vstr /\ vstart' = vstart /\ vnum' = vnum
        /\ vwidth' = vwidth /\ vprecision' = vprecision /\ vflags' = vflags
    BY <1>2 DEF Format!Return, Format!vars, printvars
  <2>2. WroteGood(vfmt, vfp, vpc, vstr, vstart, vnum, vwidth, vprecision, vflags)
    BY DEF WroteInv
  <2>3. WroteGood(vfmt', vfp', vpc', vstr', vstart', vnum', vwidth', vprecision', vflags')
    BY <2>1, <2>2, Zenon
  <2> QED BY <2>3, WrotePrimed
<1> QED BY <1>1, <1>2

LEMMA WroteOtherKeeps ==
  ASSUME WroteInv, FormatInv', Format!ConvertOther
  PROVE  WroteInv'
<1> DEFINE c == Format!At(vfmt, vfp)
           w == IF c \in {"%", "NUL"} THEN <<"%">> ELSE <<"%", c>>
<1>1. /\ vpc = "convert" /\ vpc' = "text" /\ c \notin Format!Integer \union {"p", "c", "s", "n"} /\ vstr' = vstr \o w
      /\ vfp' = (IF c = "NUL" THEN vfp ELSE vfp + 1) /\ vfmt' = vfmt
  BY Zenon DEF Format!ConvertOther, Format!Put
<1>2. vstr \in Seq(Chars(vfmt)) /\ FormatInv
  BY DEF WroteInv, WroteGood
<1>3. vfp' \in 1 .. Len(vfmt) + 1
  BY <1>1 DEF FormatInv, FormatGood
<1>4. w \in Seq(Chars(vfmt))
  <2>1. c # "NUL" => c \in Chars(vfmt)
    BY DEF Format!At, Format!Range, Chars
  <2>2. "%" \in Chars(vfmt)
    BY DEF Chars
  <2> HIDE DEF c
  <2>3. CASE c \in {"%", "NUL"}
    BY <2>2, <2>3, ShortSequences
  <2>4. CASE c \notin {"%", "NUL"}
    BY <2>1, <2>2, <2>4, ShortSequences
  <2> QED BY <2>3, <2>4
<1> HIDE DEF w
<1>5. vstr' \in Seq(Chars(vfmt))
  BY <1>1, <1>2, <1>4, PutBehind
<1>6. Letter(vfmt, vfp', "text") \notin Format!Integer \union {"p", "c", "s"}
  <2>1. CASE c = "NUL"
    BY <1>1, <1>2, <2>1, EndQuiet
  <2>2. CASE c # "NUL"
    <3>1. Letter(vfmt, vfp', "text") \in {c, "NUL"}
      BY <1>1, <1>2, <1>3, <2>2, LetterIs
    <3> QED BY <1>1, <3>1 DEF Format!Integer
  <2> QED BY <2>1, <2>2
<1> QED BY <1>1, <1>5, <1>6, WroteNothing

Strings == {"c", "s", "<", "N", "U", "L", ">"}

(* What %c and %s take from a string is no longer than its precision.      *)
LEMMA StringsTaken ==
  ASSUME NEW c \in {"c", "s"}, NEW n \in Int, NEW prec \in Int, NEW s,
         s = IF c = "c" THEN <<"c">>
             ELSE IF n < 0 THEN <<"<", "N", "U", "L", "L", ">">> ELSE Format!Repeat("s", n)
  PROVE  LET l == IF c = "s" /\ prec \in 0 .. Len(s) THEN prec ELSE Len(s)
             q == SubSeq(s, 1, l)
         IN
         /\ q \in Seq(Strings) /\ Len(q) = l
         /\ c = "s" /\ prec >= 0 => Len(q) <= prec
         /\ c = "c" => Len(q) > 0 /\ q[1] = "c"
<1> DEFINE ls == Len(s)
           l == IF c = "s" /\ prec \in 0 .. ls THEN prec ELSE ls
           q == SubSeq(s, 1, l)
<1>1. s \in Seq(Strings) /\ (c = "c" => ls = 1 /\ s[1] = "c")
  <2>1. CASE c = "c"
    <3>1. s = <<"c">> /\ "c" \in Strings
      BY <2>1 DEF Strings
    <3>2. <<"c">> \in Seq(Strings) /\ Len(<<"c">>) = 1 /\ <<"c">>[1] = "c"
      BY <3>1, ShortSequences
    <3> HIDE DEF ls
    <3> QED BY <3>1, <3>2 DEF ls
  <2>2. CASE c = "s" /\ n < 0
    <3>1. s = <<"<", "N", "U", "L", "L", ">">>
      BY <2>2
    <3>2. <<"<", "N", "U", "L", "L", ">">> \in Seq(Strings)
      BY DEF Strings
    <3> QED BY <2>2, <3>1, <3>2
  <2>3. CASE c = "s" /\ ~(n < 0)
    <3>1. s = Format!Repeat("s", n) /\ {"s"} \subseteq Strings
      BY <2>3 DEF Strings
    <3>2. s \in Seq({"s"})
      BY <3>1, RepeatIs
    <3> QED BY <2>3, <3>1, <3>2, SeqMonotonic
  <2> QED BY <2>1, <2>2, <2>3
<1>2. ls \in Nat /\ \A i \in 1 .. ls : s[i] \in Strings
  BY <1>1, LenProperties, ElementOfSeq
<1> HIDE DEF ls
<1>3. l \in Nat /\ l <= ls
  BY <1>2
<1>4. c = "s" /\ prec >= 0 => l <= prec
  BY <1>2
<1>5. c = "c" => l = 1
  BY <1>1
<1> HIDE DEF l
<1>6. /\ \A i \in 1 .. l : s[i] \in Strings
      /\ l - 1 + 1 = l /\ \A i \in 1 .. l : 1 + i - 1 = i
  BY <1>2, <1>3
<1>7. /\ q \in Seq(Strings) /\ Len(q) = IF 1 <= l THEN l - 1 + 1 ELSE 0
      /\ \A i \in 1 .. l - 1 + 1 : q[i] = s[1 + i - 1]
  BY <1>3, <1>6, SubSeqProperties
<1>8. Len(q) = l
  <2> HIDE DEF q
  <2> QED BY <1>3, <1>6, <1>7
<1>9. c = "c" => Len(q) > 0 /\ q[1] = "c"
  <2> HAVE c = "c"
  <2>1. l = 1 /\ 1 \in 1 .. l /\ s[1] = "c"
    BY <1>1, <1>5
  <2>2. q[1] = s[1]
    BY <1>6, <1>7, <2>1
  <2> QED BY <1>8, <2>1, <2>2
<1> QED BY <1>4, <1>7, <1>8, <1>9 DEF q, l, ls

LEMMA FirstOf == \A m \in Nat : (m > 0 => 1 \in 1 .. m) /\ \A j \in 1 .. m : m > 0
OBVIOUS

LEMMA WroteTextsKeeps ==
  ASSUME WroteInv, FormatInv', Format!ConvertText
  PROVE  WroteInv'
<1> DEFINE c == vfmt[vfp]
           n == vargs[vap]
           s == IF c = "c" THEN <<"c">>
                ELSE IF n < 0 THEN <<"<", "N", "U", "L", "L", ">">> ELSE Format!Repeat("s", n)
           len == IF c = "s" /\ vprecision \in 0 .. Len(s) THEN vprecision ELSE Len(s)
           q == SubSeq(s, 1, len)
           room == IF c = "c" THEN Format!Room(vwidth, 1) ELSE vwidth - len
           w == Format!Padded(q, room)
<1>1. /\ vpc = "convert" /\ vpc' = "text" /\ Format!At(vfmt, vfp) \in {"c", "s"}
      /\ vfp' = vfp + 1 /\ vfmt' = vfmt /\ vstart' = vstart /\ vflags' = vflags
      /\ vwidth' = vwidth /\ vprecision' = vprecision
  BY Zenon DEF Format!ConvertText, Format!spec
<1>2. vstr' = vstr \o w
  BY Zenon DEF Format!ConvertText, Format!Put
<1>3. FormatInv /\ vwidth \in Int /\ vprecision \in Int /\ vfp' \in 1 .. Len(vfmt) + 1
  BY <1>1 DEF WroteInv, FormatInv, FormatGood
<1>4. c = Format!At(vfmt, vfp) /\ c \in {"c", "s"}
  BY <1>1 DEF Format!At
<1>5. n \in Int
  BY <1>1, <1>3, ArgumentNumber DEF Takers
<1> HIDE DEF c, n
<1>6. /\ q \in Seq(Strings)
      /\ c = "s" /\ vprecision >= 0 => Len(q) <= vprecision
      /\ c = "c" => Len(q) > 0 /\ q[1] = "c"
  BY <1>3, <1>4, <1>5, StringsTaken
<1>16. c = "s" => len = Len(q)
  BY <1>3, <1>4, <1>5, StringsTaken
<1> HIDE DEF s, q, len
<1>17. room \in Int /\ room >= vwidth - Len(q)
  <2>1. Len(q) \in Nat
    BY <1>6, LenProperties
  <2>2. Format!Room(vwidth, 1) \in Int /\ Format!Room(vwidth, 1) >= vwidth - 1
    <3>1. 1 \in Int /\ vwidth \in Int
      BY <1>3
    <3> QED BY <3>1, RoomIs, Zenon
  <2>3. c = "c" => Len(q) > 0
    BY <1>6
  <2>4. CASE c = "c"
    BY <1>3, <2>1, <2>2, <2>3, <2>4
  <2>5. CASE c = "s"
    BY <1>3, <1>16, <2>1, <2>5
  <2> QED BY <1>4, <2>4, <2>5
<1> HIDE DEF room
<1>7. PaddedTo(w, q, room, vflags)
  BY Zenon DEF PaddedTo, Format!Padded
<1> HIDE DEF w
<1>8. /\ w \in Seq(Strings \union {" "}) /\ vwidth <= Len(w)
      /\ \E i \in 0 .. Len(w) : \A j \in DOMAIN w : w[j] = " " \/ j - i \in 1 .. Len(q)
      /\ "LEFT" \in vflags /\ Len(q) > 0 => w[1] = q[1]
  <2>1. q \in Seq(Strings) /\ vwidth \in Int
    BY <1>3, <1>6
  <2>2. PaddedShape(w, q, Strings, vwidth, vflags)
    BY <1>7, <1>17, <2>1, TextShaped, Zenon
  <2> QED BY <2>2, Zenon DEF PaddedShape
<1>9. w \in Seq(Chars(vfmt))
  <2>1. Strings \union {" "} \subseteq Chars(vfmt)
    BY DEF Strings, Chars, Letters
  <2> QED BY <1>8, <2>1, SeqMonotonic
<1>10. c = "s" /\ vprecision >= 0 => \E i \in 0 .. Len(w) : \A j \in DOMAIN w : w[j] = " " \/ j - i \in 1 .. vprecision
  <2> HAVE c = "s" /\ vprecision >= 0
  <2> DEFINE lq == Len(q)
  <2>1. lq \in Nat /\ lq <= vprecision
    BY <1>6, LenProperties
  <2>2. PICK i \in 0 .. Len(w) : \A j \in DOMAIN w : w[j] = " " \/ j - i \in 1 .. lq
    BY <1>8
  <2> HIDE DEF lq
  <2>3. \A k \in 1 .. lq : k \in 1 .. vprecision
    BY <1>3, <2>1
  <2> QED BY <2>2, <2>3
<1>11. "LEFT" \in vflags /\ ~(Format!Range(w) \subseteq {" "}) => w[1] # " "
  <2> HAVE "LEFT" \in vflags /\ ~(Format!Range(w) \subseteq {" "})
  <2> DEFINE lq == Len(q)
  <2>1. lq \in Nat
    BY <1>6, LenProperties
  <2>2. PICK i \in 0 .. Len(w) : \A j \in DOMAIN w : w[j] = " " \/ j - i \in 1 .. lq
    BY <1>8
  <2>3. \E j \in DOMAIN w : w[j] # " "
    BY DEF Format!Range
  <2>4. PICK k : k \in 1 .. lq
    BY <2>2, <2>3
  <2>5. lq > 0 => q[1] \in Strings /\ w[1] = q[1]
    <3> HAVE lq > 0
    <3>1. 1 \in 1 .. lq
      BY <2>1, FirstOf
    <3> QED BY <1>6, <1>8, <3>1, ElementOfSeq
  <2> HIDE DEF lq
  <2>6. lq > 0
    BY <2>1, <2>4, FirstOf
  <2>7. " " \notin Strings
    BY DEF Strings
  <2> QED BY <2>5, <2>6, <2>7
<1>12. TextWrote(c, w, vwidth, vprecision, vflags)
  BY <1>4, <1>8, <1>10, <1>11 DEF TextWrote
<1>13. Wrote(c, w, vnum', vwidth, vprecision, vflags)
  BY <1>4, <1>12 DEF Wrote, Format!Integer
<1>14. Letter(vfmt, vfp', "text") \in {c, "NUL"}
  BY <1>1, <1>3, <1>4, LetterIs
<1>15. Wrote(Letter(vfmt, vfp', "text"), w, vnum', vwidth', vprecision', vflags')
  <2>1. Wrote("NUL", w, vnum', vwidth', vprecision', vflags')
    BY DEF Wrote, Format!Integer
  <2> QED BY <1>1, <1>13, <1>14, <2>1
<1> QED BY <1>1, <1>2, <1>9, <1>15, WroteSomething

LEMMA WroteStepKeeps ==
  ASSUME WroteInv, Format!Next \/ UNCHANGED printvars
  PROVE  WroteInv'
<1>1. FormatInv'
  BY FormatStepKeeps DEF WroteInv
<1>2. \/ Format!Text \/ (Format!Flags \/ Format!Width \/ Format!Precision \/ Format!Qualifier) \/ Format!ConvertOther
      \/ Format!ConvertInteger \/ Format!ConvertPointer \/ Format!ConvertText
      \/ (Format!ConvertCount \/ Format!Return \/ UNCHANGED printvars)
  BY Zenon DEF Format!Next
<1> QED BY <1>1, <1>2, WroteTextKeeps, WroteSpecKeeps, WroteOtherKeeps, WroteIntegerKeeps, WrotePointerKeeps,
           WroteTextsKeeps, WroteQuietKeeps, Zenon

(* What is written reads back and has its shape.                           *)
LEMMA WroteReports ==
  ASSUME WroteInv
  PROVE  Format!ReadsBack /\ Format!FieldShape
<1> DEFINE c == Format!Converted
           w == Format!Field
<1>1. c = Letter(vfmt, vfp, vpc) /\ w = SubSeq(vstr, vstart + 1, Len(vstr))
  BY Zenon DEF Format!Converted, Format!Field, Letter
<1>2. Wrote(c, w, vnum, vwidth, vprecision, vflags)
  BY <1>1, Zenon DEF WroteInv, WroteGood
<1>3. Format!NumberAt = NumberStart(w)
  BY Zenon DEF Format!NumberAt, NumberStart
<1>4. Format!ReadsBack
  <2> DEFINE base == IF c = "p" THEN 16 ELSE Format!Base(c)
             prefixed == "SPECIAL" \in vflags /\ base # 10
  <2>1. SUFFICES ASSUME c \in Format!Integer \union {"p"}, ~("SPECIAL" \in vflags /\ "LARGE" \in vflags)
                 PROVE  Format!simple_strtoll(w, Format!NumberAt, IF prefixed THEN 0 ELSE base).value = vnum % 2^LongLongBits
    BY Zenon DEF Format!ReadsBack
  <2>2. NumberWrote(c, w, vnum, vwidth, vprecision, vflags)
    BY <1>2, <2>1, Zenon DEF Wrote
  <2>3. Format!simple_strtoll(w, NumberStart(w), IF prefixed THEN 0 ELSE base).value = Cropped(vnum, 2^LongLongBits)
    BY <2>1, <2>2, Zenon DEF NumberWrote
  <2> HIDE DEF w, prefixed, base
  <2> QED BY <1>3, <2>3, Zenon DEF Cropped
<1>5. c \in Format!Integer \union {"p"} => Shaped(w, vwidth, vprecision, vflags)
  BY <1>2, Zenon DEF Wrote, NumberWrote
<1>6. c \in {"c", "s"} => TextWrote(c, w, vwidth, vprecision, vflags)
  BY <1>2, Zenon DEF Wrote
<1>7. "c" \notin Format!Integer \union {"p"} /\ "s" \notin Format!Integer \union {"p"}
  BY DEF Format!Integer
<1> HIDE DEF c, w
<1>8. c \in Format!Integer \union {"p", "c", "s"} => Len(w) >= vwidth
  <2>1. c \in Format!Integer \union {"p", "c", "s"} => vwidth <= Len(w)
    BY <1>5, <1>6 DEF Shaped, TextWrote
  <2>2. vwidth <= Len(w) => Len(w) >= vwidth
    OBVIOUS
  <2> QED BY <2>1, <2>2
<1>9. c \in Format!Integer \union {"p"} => \E i \in 0 .. Len(w) : \A j \in 1 .. vprecision : Format!isxdigit(Format!At(w, i + j))
  BY <1>5 DEF Shaped
<1>10. c = "s" /\ vprecision >= 0 => \E i \in 0 .. Len(w) : \A j \in DOMAIN w : w[j] = " " \/ j - i \in 1 .. vprecision
  BY <1>6 DEF TextWrote
<1>11. c \in Format!Integer \union {"p"} /\ vwidth >= -1 /\ Len(w) > vwidth => " " \notin Format!Range(Tail(w))
  BY <1>5 DEF Shaped
<1>12. c \in Format!Integer \union {"c", "s"} /\ "LEFT" \in vflags /\ ~(Format!Range(w) \subseteq {" "})
         => w[1] # " " \/ "SPACE" \in vflags
  BY <1>5, <1>6 DEF Shaped, TextWrote
<1>13. Format!FieldShape
  <2>1. /\ c \in Format!Integer \union {"p", "c", "s"} => Len(w) >= vwidth
        /\ c \in Format!Integer \union {"p"} =>
             \E i \in 0 .. Len(w) : \A j \in 1 .. vprecision : Format!isxdigit(Format!At(w, i + j))
        /\ c = "s" /\ vprecision >= 0 =>
             \E i \in 0 .. Len(w) : \A j \in DOMAIN w : w[j] = " " \/ j - i \in 1 .. vprecision
        /\ c \in Format!Integer \union {"p"} /\ vwidth >= -1 /\ Len(w) > vwidth => " " \notin Format!Range(Tail(w))
        /\ c \in Format!Integer \union {"c", "s"} /\ "LEFT" \in vflags /\ ~(Format!Range(w) \subseteq {" "})
             => w[1] # " " \/ "SPACE" \in vflags
    BY <1>8, <1>9, <1>10, <1>11, <1>12, Zenon
  <2> QED BY <2>1, Zenon DEF Format!FieldShape, c, w
<1> QED BY <1>4, <1>13
-----------------------------------------------------------------------------
(* All parts: each keeps its invariant while it runs, and while another    *)
(* part runs its state stays.                                              *)
LibraryInv ==
  /\ part = "user" => UserInv
  /\ part = "image" => ImageInv
  /\ part = "format" => WroteInv
  /\ part = "display" => ShownInv
  /\ part = "entry" => PreparedInv

LEMMA LibraryInitInv ==
  ASSUME Init
  PROVE  LibraryInv
<1>1. part = "user" => User!Init
  BY Zenon DEF Init, Begin
<1>2. part = "image" => Image!Init
  BY Zenon DEF Init, Begin
<1>3. part = "format" => Format!Init
  BY Zenon DEF Init, Begin
<1>4. part = "display" => Display!Init
  BY Zenon DEF Init, Begin
<1>5. part = "entry" => Entry!Init
  BY Zenon DEF Init, Begin
<1> QED BY <1>1, <1>2, <1>3, <1>4, <1>5, UserInitInv, ImageInitInv, WroteInit, ShownInit, PreparedInit
        DEF LibraryInv

LEMMA LibraryStepKeeps ==
  ASSUME LibraryInv, [Next]_vars
  PROVE  LibraryInv'
<1>1. part' = part
  BY Zenon DEF Next, OnUser, UserStep, ImageStep, FormatStep, DisplayStep, EntryStep, vars
<1>2. part = "user" => User!Step \/ User!Remap \/ User!Done \/ UNCHANGED uservars
  BY Zenon DEF Next, OnUser, UserStep, ImageStep, FormatStep, DisplayStep, EntryStep, vars
<1>3. part = "image" => Image!Next \/ UNCHANGED buildvars
  BY Zenon DEF Next, OnUser, UserStep, ImageStep, FormatStep, DisplayStep, EntryStep, vars
<1>4. part = "format" => Format!Next \/ UNCHANGED printvars
  BY Zenon DEF Next, OnUser, UserStep, ImageStep, FormatStep, DisplayStep, EntryStep, vars
<1>5. part = "display" => Display!Next \/ UNCHANGED screenvars
  BY Zenon DEF Next, OnUser, UserStep, ImageStep, FormatStep, DisplayStep, EntryStep, vars
<1>6. part = "entry" => Entry!Next \/ UNCHANGED entryvars
  BY Zenon DEF Next, OnUser, UserStep, ImageStep, FormatStep, DisplayStep, EntryStep, vars
<1> QED BY <1>1, <1>2, <1>3, <1>4, <1>5, <1>6, UserStepKeeps, ImageStepKeeps, WroteStepKeeps, ShownStepKeeps,
           PreparedStepKeeps DEF LibraryInv

LEMMA LibraryInvariant == Spec => []LibraryInv
<1>1. Init => LibraryInv
  BY LibraryInitInv
<1>2. LibraryInv /\ [Next]_vars => LibraryInv'
  BY LibraryStepKeeps
<1> QED BY <1>1, <1>2, PTL DEF Spec

(* What a call reports is what it has done: the bytes a transfer of user   *)
(* memory did not copy, where only the copy that overshoots counts one of  *)
(* them twice; an image that is whole and can be loaded, on a host whose   *)
(* long is wider than int; a number that reads back as the one that was    *)
(* written, in a field of its width and precision, int widths given as     *)
(* arguments included; a screen that shows what puts() printed, and what   *)
(* raw_print() did on the screen it knows, messages being short enough;    *)
(* and the kernel's start on a machine it can run on by the memory check   *)
(* of the build, with the memory and the processor it counts on.           *)
THEOREM LibraryReports == Spec => []Reported
<1>1. LibraryInv => Reported
  BY UserKept, ImageKept, WroteReports, PreparedKept, ShownKept DEF LibraryInv, Reported
<1> QED BY <1>1, LibraryInvariant, PTL

(* A transfer writes its buffer only, and one byte behind it exactly if it *)
(* is the zeroing copy that resumes at its last move; a checked one touches*)
(* the user's part of the memory only.  vsprintf() stays in its format and *)
(* the arguments that one asks for, the screen's functions in the screen   *)
(* and their buffer, and the kernel's start in the memory its tables map,  *)
(* of setup's page changing the position on the screen alone.              *)
THEOREM LibraryInside == Spec => []Inside
<1>1. LibraryInv => Inside
  BY UserKept, FormatKept, ShownKept, PreparedKept DEF LibraryInv, WroteInv, Inside
<1> QED BY <1>1, LibraryInvariant, PTL
=============================================================================
