---------------------------- MODULE GunzipProofs ----------------------------
(***************************************************************************)
(* For every set of images, every choice of table sizes and every arena    *)
(* that holds one block's tables: no bit is lost, no invalid image is      *)
(* started, malloc() never fails.                                          *)
(***************************************************************************)
EXTENDS Gunzip, TLAPS

(* What has been taken and checked of the header.                          *)
HeaderRead ==
  /\ pc = "magic" => inptr = 0
  /\ pc = "flags" => inptr = 3
  /\ pc = "extra" => inptr = 10
  /\ pc = "name" => inptr = 10 + file.extra
  /\ pc = "comment" => inptr = 10 + file.extra + file.name
  /\ pc = "inflate" => inptr = HeaderSize(file)
  /\ pc \in Header => used = 0
  /\ pc \notin {"magic", "halted"} => file.bad \notin {"magic", "method"}
  /\ pc \notin {"magic", "flags", "halted"} => file.bad # "flags"

(* A lookup has at most 9 bits; inflate_fixed() leaves the buffer alone.   *)
Lookup ==
  /\ pc \in {"lit", "dist"} => e <= 9
  /\ pc = "fixed" => k = bk

Empty == Header \union
  {"block", "stored", "nlen", "bytes", "fixed", "dynamic", "border", "undo", "trailer"}

(* The arena is empty between blocks and holds the table of the bit        *)
(* lengths while a dynamic block's code lengths are read.                  *)
ArenaHeld ==
  /\ mark = 0
  /\ pc \in Empty => arena = 0
  /\ pc \in {"lens", "repeat"} => arena \in Tables

IInv ==
  /\ TypeOK
  /\ BitBudget
  /\ HeaderRead
  /\ Lookup
  /\ ArenaHeld
  /\ BootsOnlyIfValid
  /\ NeverOutOfMemory

(* The sizes of an image's parts are numbers.                              *)
LEMMA FileSizes ==
  ASSUME NEW f \in Files
  PROVE  /\ f.extra \in Nat /\ f.name \in Nat /\ f.comment \in Nat /\ f.data \in Nat
         /\ HeaderSize(f) \in Nat /\ HeaderSize(f) >= 10
         /\ FullSize(f) = HeaderSize(f) + f.data + 8
         /\ f.bad \in Fields
<1>1. f \in [extra : Nat, name : Nat, comment : Nat, data : Nat, len : Nat, bad : Fields]
  BY FilesOK
<1>. QED BY <1>1 DEF HeaderSize, FullSize

(* NEEDBITS brings what is missing and less than a byte more.              *)
LEMMA BytesBring ==
  ASSUME NEW x \in 0 .. 15, NEW m \in 0 .. 16
  PROVE  /\ Bytes(x, m) \in Nat
         /\ x >= m => Bytes(x, m) = 0
         /\ x < m => m <= x + 8 * Bytes(x, m) /\ x + 8 * Bytes(x, m) <= m + 7
<1>1. CASE x >= m
  BY <1>1 DEF Bytes
<1>2. CASE x < m
  <2>. DEFINE t == (m - x + 7) \div 8
  <2>1. m - x + 7 \in Nat
    BY <1>2
  <2>2. t \in Nat /\ 8 * t <= m - x + 7 /\ m - x + 7 < 8 * t + 8
    BY <2>1
  <2>3. Bytes(x, m) = t
    BY <1>2 DEF Bytes
  <2>. HIDE DEF t
  <2>. QED BY <1>2, <2>2, <2>3
<1>. QED BY <1>1, <1>2

(* What a function has left after dumping s bits of the m it asked for:    *)
(* less than two bytes, and the account of the bits balances.              *)
LEMMA TakeKeeps ==
  ASSUME NEW x \in 0 .. 15, NEW m \in 0 .. 16, NEW s \in 0 .. m,
         s = m \/ (s >= 1 /\ m <= 9)
  PROVE  /\ Left(x, m, s) \in 0 .. 15
         /\ Bytes(x, m) \in Nat
         /\ Left(x, m, s) + s = x + 8 * Bytes(x, m)
<1>. DEFINE t == Bytes(x, m)
<1>1. /\ t \in Nat
      /\ x >= m => t = 0
      /\ x < m => m <= x + 8 * t /\ x + 8 * t <= m + 7
  BY BytesBring
<1>2. Left(x, m, s) = x + 8 * t - s
  BY DEF Left
<1>. HIDE DEF t
<1>3. (x + 8 * t) - s = x + 8 * t - s
  BY <1>1
<1>4. Left(x, m, s) \in 0 .. 15 /\ Left(x, m, s) + s = x + 8 * t
  BY <1>1, <1>2, <1>3
<1>. QED BY <1>1, <1>4 DEF t

(* The bits up to the byte boundary.                                       *)
LEMMA Aligned ==
  ASSUME NEW x \in 0 .. 15
  PROVE  x % 8 \in 0 .. 7 /\ x - (x % 8) \in 0 .. 15
OBVIOUS

LEMMA Halves ==
  ASSUME NEW x \in 0 .. 15
  PROVE  x % 8 \in 0 .. 7 /\ x \div 8 \in 0 .. 1 /\ x = 8 * (x \div 8) + (x % 8)
OBVIOUS

LEMMA InitIInv == Init => IInv
<1>. SUFFICES ASSUME Init PROVE IInv
  OBVIOUS
<1>1. file \in Files /\ file.bad \in Fields
  BY FileSizes DEF Init
<1>2. Quantities
  BY DEF Init, Quantities
<1>3. pc \in Phases /\ cause \in Causes
  BY DEF Init, Phases, Causes, Header
<1>4. last \in BOOLEAN
  BY DEF Init
<1>5. TypeOK
  BY <1>1, <1>2, <1>3, <1>4, Zenon DEF TypeOK
<1>6. pc = "magic" /\ cause = "none" /\ inptr = 0 /\ used = 0 /\ mark = 0 /\ arena = 0
  BY DEF Init
<1>7. BitBudget /\ BootsOnlyIfValid
  BY <1>6 DEF BitBudget, BootsOnlyIfValid, Decoding
<1>8. HeaderRead /\ Lookup /\ ArenaHeld /\ NeverOutOfMemory
  BY <1>6 DEF HeaderRead, Lookup, ArenaHeld, NeverOutOfMemory, Header
<1>. QED BY <1>5, <1>7, <1>8 DEF IInv

(* What the running decoder's NEEDBITS and DUMPBITS do to the account.     *)
LEMMA DecoderTakes ==
  ASSUME IInv, pc \in Decoding,
         NEW m \in 0 .. 16, NEW s \in 0 .. m, s = m \/ (s >= 1 /\ m <= 9),
         Take(k, m, s)
  PROVE  /\ Left(k, m, s) \in 0 .. 15
         /\ inptr' \in Nat /\ used' \in Nat
         /\ 8 * (inptr' - HeaderSize(file)) = used' + Left(k, m, s)
<1>1. file \in Files /\ Quantities
  BY Zenon DEF IInv, TypeOK
<1>2. 8 * (inptr - HeaderSize(file)) = used + k
  BY Zenon DEF IInv, BitBudget
<1>3. k \in 0 .. 15 /\ inptr \in Nat /\ used \in Nat
  BY <1>1 DEF Quantities
<1>4. HeaderSize(file) \in Nat
  BY <1>1, FileSizes, Zenon
<1>5. inptr' = inptr + Bytes(k, m) /\ used' = used + s
  BY DEF Take, get_byte
<1>6. /\ Left(k, m, s) \in 0 .. 15
      /\ Bytes(k, m) \in Nat
      /\ Left(k, m, s) + s = k + 8 * Bytes(k, m)
  BY <1>3, TakeKeeps
<1>. DEFINE l == Left(k, m, s)
            t == Bytes(k, m)
            h == HeaderSize(file)
<1>7. /\ l \in 0 .. 15 /\ t \in Nat /\ h \in Nat /\ l + s = k + 8 * t
      /\ 8 * (inptr - h) = used + k /\ inptr' = inptr + t
  BY <1>2, <1>4, <1>5, <1>6, Zenon
<1>. HIDE DEF l, t, h
<1>8. l \in 0 .. 15 /\ inptr' \in Nat /\ used' \in Nat /\ 8 * (inptr' - h) = used' + l
  BY <1>3, <1>5, <1>7
<1>. QED BY <1>8, Zenon DEF l, t, h

(* The header is read field by field.                                      *)
LEMMA HeaderStep ==
  ASSUME IInv, Magic \/ BadFlags \/ Flags \/ SkipFields \/ Inflate
  PROVE  IInv'
<1>1. /\ file \in Files /\ Quantities /\ last \in BOOLEAN /\ cause \in Causes
      /\ HeaderRead /\ ArenaHeld /\ NeverOutOfMemory
  BY Zenon DEF IInv, TypeOK
<1>2. /\ file.extra \in Nat /\ file.name \in Nat /\ file.comment \in Nat
      /\ HeaderSize(file) = 10 + file.extra + file.name + file.comment
      /\ HeaderSize(file) \in Nat
  BY <1>1, FileSizes DEF HeaderSize
<1>3. /\ file' = file /\ k' = k /\ used' = used /\ e' = e /\ bl' = bl /\ bd' = bd
      /\ n' = n /\ last' = last /\ arena' = arena /\ mark' = mark
      /\ cause' \in {cause, "header"}
      /\ pc \in Header
      /\ pc' \in Header \union {"block", "halted"}
  BY DEF Magic, BadFlags, Flags, SkipFields, Skip, Inflate, error, Header
<1>4. inptr' \in Nat /\ bk' \in 0 .. 15
  BY <1>1, <1>2 DEF Magic, BadFlags, Flags, SkipFields, Skip, Inflate, get_byte, Quantities
<1>5. HeaderRead' /\ (pc' = "block" => inptr' = HeaderSize(file) /\ bk' = 0 /\ used = 0)
  <2>1. CASE Magic
    <3>1. CASE file.bad \in {"magic", "method"}
      BY <1>3, <2>1, <3>1 DEF Magic, error, HeaderRead, Header
    <3>2. CASE file.bad \notin {"magic", "method"}
      <4>1. pc = "magic" /\ pc' = "flags" /\ inptr' = inptr + 3 /\ inptr = 0 /\ used = 0
        BY <1>1, <2>1, <3>2 DEF Magic, get_byte, HeaderRead, Header
      <4>2. inptr' = 3
        BY <4>1
      <4>. QED BY <1>3, <3>2, <4>1, <4>2 DEF HeaderRead, Header
    <3>. QED BY <3>1, <3>2
  <2>2. CASE BadFlags
    BY <1>3, <2>2 DEF BadFlags, error, HeaderRead, Header
  <2>3. CASE Flags
    BY <1>1, <1>2, <1>3, <2>3 DEF Flags, get_byte, HeaderRead, Header
  <2>4. CASE SkipFields
    BY <1>1, <1>2, <1>3, <2>4 DEF SkipFields, Skip, get_byte, HeaderRead, Header
  <2>5. CASE Inflate
    <3>1. pc = "inflate" /\ pc' = "block" /\ inptr' = inptr /\ bk' = 0
      BY <2>5 DEF Inflate
    <3>. QED BY <1>1, <1>3, <3>1 DEF HeaderRead, Header
  <2>. QED BY <2>1, <2>2, <2>3, <2>4, <2>5
<1>6. file' \in Files /\ last' \in BOOLEAN
  BY <1>1, <1>3, Zenon
<1>7. Quantities'
  <2>1. /\ used \in Nat /\ k \in 0 .. 15 /\ e \in 0 .. 13 /\ bl \in 0 .. 9 /\ bd \in 0 .. 6
        /\ n \in Nat /\ arena \in Nat /\ mark \in Nat
    BY <1>1 DEF Quantities
  <2>2. /\ used' \in Nat /\ k' \in 0 .. 15 /\ e' \in 0 .. 13 /\ bl' \in 0 .. 9 /\ bd' \in 0 .. 6
        /\ n' \in Nat /\ arena' \in Nat /\ mark' \in Nat
    BY <1>3, <2>1
  <2>. QED BY <1>4, <2>2 DEF Quantities
<1>8. pc' \in Phases /\ cause' \in Causes
  BY <1>1, <1>3 DEF Phases, Causes
<1>9. TypeOK'
  BY <1>6, <1>7, <1>8, Zenon DEF TypeOK
<1>10. BitBudget'
  <2>1. pc' \notin Decoding \union {"undo", "trailer"}
    BY <1>3 DEF Header, Decoding
  <2>2. CASE pc' = "block"
    <3>1. 8 * (inptr' - HeaderSize(file')) = used' + bk'
      BY <1>2, <1>3, <1>5, <2>2
    <3>. QED BY <2>1, <2>2, <3>1 DEF BitBudget
  <2>. QED BY <2>1, <2>2 DEF BitBudget
<1>11. Lookup' /\ ArenaHeld' /\ BootsOnlyIfValid' /\ NeverOutOfMemory'
  BY <1>1, <1>3 DEF Lookup, ArenaHeld, Empty, BootsOnlyIfValid, NeverOutOfMemory, Header
<1>. QED BY <1>5, <1>9, <1>10, <1>11, Zenon DEF IInv

(* After the header: what a step of inflate() has to leave as it should be *)
(* for the whole invariant to hold again.                                  *)
Kept ==
  /\ file' = file /\ mark' = mark /\ last' \in BOOLEAN
  /\ Quantities'
  /\ pc' \in Decoding \union {"block", "undo", "halted", "no table"}
  /\ cause' \in Causes \ {"memory"}
  /\ BitBudget' /\ Lookup' /\ ArenaHeld'

LEMMA KeptKeeps ==
  ASSUME IInv, Kept, pc \in Decoding \union {"block"}
  PROVE  IInv'
<1>1. /\ file' = file /\ last' \in BOOLEAN /\ Quantities'
      /\ pc' \in Decoding \union {"block", "undo", "halted", "no table"}
      /\ cause' \in Causes \ {"memory"}
      /\ BitBudget' /\ Lookup' /\ ArenaHeld'
  BY Zenon DEF Kept
<1>2. file \in Files /\ HeaderRead /\ pc \in Phases
  BY Zenon DEF IInv, TypeOK
<1>3. pc' \in Phases /\ cause' \in Causes /\ NeverOutOfMemory' /\ BootsOnlyIfValid'
  BY <1>1 DEF Phases, NeverOutOfMemory, BootsOnlyIfValid, Decoding, Header
<1>4. TypeOK'
  BY <1>1, <1>2, <1>3, Zenon DEF TypeOK
<1>5. HeaderRead'
  <2>1. file.bad \notin {"magic", "method"} /\ file.bad # "flags"
    BY <1>2 DEF HeaderRead, Decoding
  <2>2. pc' \notin Header
    BY <1>1 DEF Header, Decoding
  <2>. QED BY <1>1, <2>1, <2>2 DEF HeaderRead, Header
<1>. QED BY <1>1, <1>3, <1>4, <1>5, Zenon DEF IInv

(* The invariant, opened for a step of a decoder.                          *)
LEMMA Facts ==
  ASSUME IInv
  PROVE  /\ inptr \in Nat /\ used \in Nat /\ bk \in 0 .. 15 /\ k \in 0 .. 15
         /\ e \in 0 .. 13 /\ bl \in 0 .. 9 /\ bd \in 0 .. 6 /\ n \in Nat
         /\ arena \in Nat /\ mark \in Nat
         /\ last \in BOOLEAN /\ cause \in Causes /\ cause # "memory"
         /\ mark = 0 /\ file \in Files /\ HeaderSize(file) \in Nat
<1>1. Quantities /\ last \in BOOLEAN /\ cause \in Causes /\ file \in Files
      /\ ArenaHeld /\ NeverOutOfMemory
  BY Zenon DEF IInv, TypeOK
<1>2. /\ inptr \in Nat /\ used \in Nat /\ bk \in 0 .. 15 /\ k \in 0 .. 15
      /\ e \in 0 .. 13 /\ bl \in 0 .. 9 /\ bd \in 0 .. 6 /\ n \in Nat
      /\ arena \in Nat /\ mark \in Nat
  BY <1>1 DEF Quantities
<1>3. mark = 0 /\ cause # "memory"
  BY <1>1, Zenon DEF ArenaHeld, NeverOutOfMemory
<1>4. HeaderSize(file) \in Nat
  BY <1>1, FileSizes, Zenon
<1>. QED BY <1>1, <1>2, <1>3, <1>4, Zenon

(* A step that asks for m bits, dumps s of them and goes on decoding.      *)
LEMMA TakeStep ==
  ASSUME IInv, pc \in Decoding,
         NEW m \in 0 .. 16, NEW s \in 0 .. m, s = m \/ (s >= 1 /\ m <= 9),
         Take(k, m, s), k' = Left(k, m, s),
         file' = file, bk' = bk, bl' = bl, bd' = bd,
         last' = last, arena' = arena, mark' = mark,
         e' \in 0 .. 13, n' \in Nat,
         pc' \in Decoding \union {"halted"}, cause' \in {cause, "data"},
         pc' \in {"lit", "dist"} => e' <= 9,
         pc' # "fixed",
         pc' \in Empty => pc \in Empty,
         pc' \in {"lens", "repeat"} => pc \in {"lens", "repeat"}
  PROVE  Kept
<1>1. /\ Left(k, m, s) \in 0 .. 15 /\ inptr' \in Nat /\ used' \in Nat
      /\ 8 * (inptr' - HeaderSize(file)) = used' + Left(k, m, s)
  BY DecoderTakes
<1>2. Quantities'
  <2>1. bk \in 0 .. 15 /\ bl \in 0 .. 9 /\ bd \in 0 .. 6 /\ arena \in Nat /\ mark \in Nat
    BY Facts
  <2>. QED BY <1>1, <2>1 DEF Quantities
<1>3. BitBudget'
  BY <1>1 DEF BitBudget, Decoding
<1>4. Lookup'
  BY DEF Lookup
<1>5. ArenaHeld'
  BY Zenon DEF ArenaHeld, IInv
<1>6. last' \in BOOLEAN /\ cause' \in Causes \ {"memory"}
  BY Facts DEF Causes
<1>7. pc' \in Decoding \union {"block", "undo", "halted", "no table"}
  OBVIOUS
<1>. QED BY <1>2, <1>3, <1>4, <1>5, <1>6, <1>7, Zenon DEF Kept

LEMMA NLenStep ==
  ASSUME IInv, NEW same \in BOOLEAN, NLen(same)
  PROVE  Kept
<1>1. /\ pc = "nlen" /\ Take(k, 16, 16) /\ k' = Left(k, 16, 16)
      /\ file' = file /\ bk' = bk /\ e' = e /\ bl' = bl /\ bd' = bd
      /\ n' = n /\ last' = last /\ arena' = arena /\ mark' = mark
      /\ pc' \in {"bytes", "halted"} /\ cause' \in {cause, "data"}
  BY DEF NLen, error
<1>2. e' \in 0 .. 13 /\ n' \in Nat
  BY <1>1, Facts
<1>3. /\ pc \in Decoding /\ pc' \in Decoding \union {"halted"} /\ pc \in Empty
      /\ pc' \notin {"lit", "dist"} /\ pc' \notin {"lens", "repeat"}
  BY <1>1 DEF Decoding, Empty
<1>4. 16 \in 0 .. 16
  OBVIOUS
<1>. QED BY <1>1, <1>2, <1>3, <1>4, TakeStep

LEMMA StoredByteStep ==
  ASSUME IInv, StoredByte
  PROVE  Kept
<1>1. /\ pc = "bytes" /\ n > 0 /\ Take(k, 8, 8) /\ k' = Left(k, 8, 8)
      /\ file' = file /\ bk' = bk /\ e' = e /\ bl' = bl /\ bd' = bd
      /\ n' = n - 1 /\ last' = last /\ arena' = arena /\ mark' = mark
      /\ pc' = pc /\ cause' = cause
  BY DEF StoredByte
<1>2. e' \in 0 .. 13 /\ n' \in Nat
  BY <1>1, Facts
<1>3. pc \in Decoding /\ pc' \notin {"lit", "dist"}
  BY <1>1 DEF Decoding
<1>4. 8 \in 0 .. 16 /\ 8 \in 0 .. 8
  OBVIOUS
<1>. QED BY <1>1, <1>2, <1>3, <1>4, TakeStep

LEMMA CountsStep ==
  ASSUME IInv, NEW nb \in LenCounts, NEW good \in BOOLEAN, Counts(nb, good)
  PROVE  Kept
<1>1. /\ pc = "dynamic" /\ Take(k, 14, 14) /\ k' = Left(k, 14, 14)
      /\ file' = file /\ bk' = bk /\ e' = e /\ bl' = bl /\ bd' = bd
      /\ n' = nb /\ last' = last /\ arena' = arena /\ mark' = mark
      /\ pc' \in {"border", "halted"} /\ cause' \in {cause, "data"}
  BY DEF Counts, error
<1>2. e' \in 0 .. 13 /\ n' \in Nat
  BY <1>1, Facts, BitsOK
<1>3. /\ pc \in Decoding /\ pc' \in Decoding \union {"halted"} /\ pc \in Empty
      /\ pc' \notin {"lit", "dist"} /\ pc' \notin {"lens", "repeat"}
  BY <1>1 DEF Decoding, Empty
<1>4. 14 \in 0 .. 16
  OBVIOUS
<1>. QED BY <1>1, <1>2, <1>3, <1>4, TakeStep

LEMMA BitLengthStep ==
  ASSUME IInv, BitLength
  PROVE  Kept
<1>1. /\ pc = "border" /\ n > 0 /\ Take(k, 3, 3) /\ k' = Left(k, 3, 3)
      /\ file' = file /\ bk' = bk /\ e' = e /\ bl' = bl /\ bd' = bd
      /\ n' = n - 1 /\ last' = last /\ arena' = arena /\ mark' = mark
      /\ pc' = pc /\ cause' = cause
  BY DEF BitLength
<1>2. e' \in 0 .. 13 /\ n' \in Nat
  BY <1>1, Facts
<1>3. pc \in Decoding /\ pc' \notin {"lit", "dist"}
  BY <1>1 DEF Decoding
<1>4. 3 \in 0 .. 16
  OBVIOUS
<1>. QED BY <1>1, <1>2, <1>3, <1>4, TakeStep

LEMMA LengthStep ==
  ASSUME IInv, NEW s \in CodeBits, NEW x \in {0, 2, 3, 7}, Length(s, x)
  PROVE  Kept
<1>1. /\ pc = "lens" /\ s <= bl /\ Take(k, bl, s) /\ k' = Left(k, bl, s)
      /\ file' = file /\ bk' = bk /\ bl' = bl /\ bd' = bd
      /\ n' = n /\ last' = last /\ arena' = arena /\ mark' = mark
      /\ e' \in {e, x}
      /\ pc' \in {"lens", "repeat"} /\ cause' = cause
  BY DEF Length
<1>2. e' \in 0 .. 13 /\ n' \in Nat
  BY <1>1, Facts
<1>3. /\ pc \in Decoding /\ pc' \in Decoding \union {"halted"}
      /\ pc' \notin {"lit", "dist"} /\ pc' \notin Empty /\ pc \in {"lens", "repeat"}
  BY <1>1 DEF Decoding, Empty, Header
<1>4. bl \in 0 .. 16 /\ s \in 0 .. bl /\ s >= 1 /\ bl <= 9
  BY <1>1, Facts, BitsOK
<1>. QED BY <1>1, <1>2, <1>3, <1>4, TakeStep

LEMMA RepeatStep ==
  ASSUME IInv, NEW fits \in BOOLEAN, Repeat(fits)
  PROVE  Kept
<1>1. /\ pc = "repeat" /\ Take(k, e, e) /\ k' = Left(k, e, e)
      /\ file' = file /\ bk' = bk /\ e' = e /\ bl' = bl /\ bd' = bd
      /\ n' = n /\ last' = last /\ arena' = arena /\ mark' = mark
      /\ pc' \in {"lens", "halted"} /\ cause' \in {cause, "data"}
  BY DEF Repeat, error
<1>2. e' \in 0 .. 13 /\ n' \in Nat
  BY <1>1, Facts
<1>3. /\ pc \in Decoding /\ pc' \in Decoding \union {"halted"}
      /\ pc' \notin {"lit", "dist"} /\ pc' \notin Empty /\ pc \in {"lens", "repeat"}
  BY <1>1 DEF Decoding, Empty, Header
<1>4. e \in 0 .. 16 /\ e \in 0 .. e
  BY Facts
<1>. QED BY <1>1, <1>2, <1>3, <1>4, TakeStep

LEMMA DistanceStep ==
  ASSUME IInv, NEW s \in CodeBits, NEW x \in DistExtra, Distance(s, x)
  PROVE  Kept
<1>1. /\ pc = "dist" /\ s <= e /\ Take(k, e, s) /\ k' = Left(k, e, s)
      /\ file' = file /\ bk' = bk /\ bl' = bl /\ bd' = bd
      /\ n' = n /\ last' = last /\ arena' = arena /\ mark' = mark
      /\ e' = x /\ pc' = "distance" /\ cause' = cause
  BY DEF Distance
<1>2. e' \in 0 .. 13 /\ n' \in Nat
  BY <1>1, Facts, BitsOK
<1>3. /\ pc \in Decoding /\ pc' \in Decoding \union {"halted"}
      /\ pc' \notin {"lit", "dist"} /\ pc' \notin {"lens", "repeat"} /\ pc' \notin Empty
  BY <1>1 DEF Decoding, Empty, Header
<1>4. e <= 9
  BY <1>1 DEF IInv, Lookup
<1>5. e \in 0 .. 16 /\ s \in 0 .. e /\ s >= 1
  BY <1>1, <1>4, Facts, BitsOK
<1>. QED BY <1>1, <1>2, <1>3, <1>4, <1>5, TakeStep

LEMMA NextLevelStep ==
  ASSUME IInv, NEW bits \in SubBits, NextLevel(bits)
  PROVE  Kept
<1>1. /\ pc \in {"lit", "dist"} /\ Take(k, e, e) /\ k' = Left(k, e, e)
      /\ file' = file /\ bk' = bk /\ bl' = bl /\ bd' = bd
      /\ n' = n /\ last' = last /\ arena' = arena /\ mark' = mark
      /\ e' = bits /\ pc' = pc /\ cause' = cause
  BY DEF NextLevel
<1>2. e' \in 0 .. 13 /\ n' \in Nat /\ e' <= 9
  BY <1>1, Facts, BitsOK
<1>3. pc \in Decoding
  BY <1>1 DEF Decoding
<1>4. e \in 0 .. 16 /\ e \in 0 .. e
  BY Facts
<1>. QED BY <1>1, <1>2, <1>3, <1>4, TakeStep

LEMMA ExtraStep ==
  ASSUME IInv, Extra
  PROVE  Kept
<1>1. /\ pc \in {"length", "distance"} /\ Take(k, e, e) /\ k' = Left(k, e, e)
      /\ file' = file /\ bk' = bk /\ bl' = bl /\ bd' = bd
      /\ n' = n /\ last' = last /\ arena' = arena /\ mark' = mark
      /\ e' \in {bl, bd} /\ pc' \in {"lit", "dist"} /\ cause' = cause
  BY DEF Extra
<1>2. e' \in 0 .. 13 /\ n' \in Nat /\ e' <= 9
  BY <1>1, Facts
<1>3. /\ pc \in Decoding /\ pc' \in Decoding
      /\ pc' \notin {"lens", "repeat"} /\ pc' \notin Empty
  BY <1>1 DEF Decoding, Empty, Header
<1>4. e \in 0 .. 16 /\ e \in 0 .. e
  BY Facts
<1>. QED BY <1>1, <1>2, <1>3, <1>4, TakeStep

(* The block's flag and type are read from the global buffer.              *)
LEMMA BlockStep ==
  ASSUME IInv, NEW islast \in BOOLEAN,
         NEW type \in {"stored", "fixed", "dynamic", "invalid"}, Block(islast, type)
  PROVE  Kept
<1>. DEFINE t == Bytes(bk, 3)
            l == Left(bk, 3, 3)
            h == HeaderSize(file)
<1>1. /\ pc = "block" /\ inptr' = inptr + t /\ used' = used + 3
      /\ bk' = l /\ k' = bk'
      /\ file' = file /\ e' = e /\ bl' = bl /\ bd' = bd
      /\ n' = n /\ last' = islast /\ arena' = arena /\ mark' = arena
      /\ pc' \in {"stored", "fixed", "dynamic", "halted"} /\ cause' \in {cause, "data"}
  BY DEF Block, Take, get_byte, error
<1>2. 3 \in 0 .. 16 /\ 3 \in 0 .. 3
  OBVIOUS
<1>3. bk \in 0 .. 15
  BY Facts
<1>4. l \in 0 .. 15 /\ t \in Nat /\ l + 3 = bk + 8 * t
  BY <1>2, <1>3, TakeKeeps
<1>5. 8 * (inptr - h) = used + bk /\ arena = 0 /\ mark = 0
  BY <1>1 DEF IInv, BitBudget, ArenaHeld, Empty
<1>6. /\ inptr \in Nat /\ used \in Nat /\ h \in Nat /\ e \in 0 .. 13 /\ bl \in 0 .. 9
      /\ bd \in 0 .. 6 /\ n \in Nat /\ cause \in Causes /\ cause # "memory"
  BY Facts
<1>7. HeaderSize(file') = h
  BY <1>1
<1>. HIDE DEF t, l, h
<1>8. Quantities'
  BY <1>1, <1>4, <1>5, <1>6 DEF Quantities
<1>9. 8 * (inptr' - h) = used' + k'
  BY <1>1, <1>3, <1>4, <1>5, <1>6
<1>10. pc' \in Decoding \union {"halted"} /\ pc' \notin {"block", "undo", "trailer"}
  BY <1>1 DEF Decoding
<1>11. BitBudget'
  BY <1>7, <1>9, <1>10, Zenon DEF BitBudget
<1>12. Lookup' /\ ArenaHeld'
  BY <1>1, <1>5 DEF Lookup, ArenaHeld
<1>13. cause' \in Causes \ {"memory"}
  BY <1>1, <1>6 DEF Causes
<1>14. file' = file /\ mark' = mark /\ last' \in BOOLEAN
  BY <1>1, <1>5
<1>. QED BY <1>8, <1>10, <1>11, <1>12, <1>13, <1>14 DEF Kept

(* The bits up to the byte boundary are dumped first.                      *)
LEMMA StoredStep ==
  ASSUME IInv, NEW len \in StoredLens, Stored(len)
  PROVE  Kept
<1>. DEFINE r == k % 8
            a == k - r
            t == Bytes(a, 16)
            l == Left(a, 16, 16)
            h == HeaderSize(file)
<1>1. /\ pc = "stored" /\ inptr' = inptr + t /\ used' = used + r + 16
      /\ bk' = bk /\ k' = l /\ file' = file /\ e' = e /\ bl' = bl /\ bd' = bd
      /\ n' = len /\ last' = last /\ arena' = arena /\ mark' = mark
      /\ pc' = "nlen" /\ cause' = cause
  BY DEF Stored, get_byte
<1>2. 16 \in 0 .. 16
  OBVIOUS
<1>3. k \in 0 .. 15
  BY Facts
<1>4. r \in 0 .. 7 /\ a \in 0 .. 15
  BY <1>3, Aligned
<1>5. l \in 0 .. 15 /\ t \in Nat /\ l + 16 = a + 8 * t
  <2>. HIDE DEF a
  <2>. QED BY <1>2, <1>4, TakeKeeps
<1>6. 8 * (inptr - h) = used + k /\ arena = 0 /\ mark = 0
  BY <1>1 DEF IInv, BitBudget, ArenaHeld, Empty, Decoding
<1>7. /\ inptr \in Nat /\ used \in Nat /\ h \in Nat /\ bk \in 0 .. 15 /\ e \in 0 .. 13
      /\ bl \in 0 .. 9 /\ bd \in 0 .. 6 /\ len \in Nat /\ last \in BOOLEAN
      /\ cause \in Causes /\ cause # "memory"
  BY Facts, BitsOK
<1>8. HeaderSize(file') = h /\ a + r = k
  BY <1>1, <1>3, <1>4
<1>. HIDE DEF r, a, t, l, h
<1>9. inptr' \in Nat /\ used' \in Nat /\ 8 * (inptr' - h) = used' + k'
  BY <1>1, <1>3, <1>4, <1>5, <1>6, <1>7, <1>8
<1>10. Quantities'
  BY <1>1, <1>5, <1>6, <1>7, <1>9 DEF Quantities
<1>11. BitBudget'
  BY <1>1, <1>8, <1>9 DEF BitBudget, Decoding
<1>12. Lookup' /\ ArenaHeld'
  BY <1>1, <1>6 DEF Lookup, ArenaHeld
<1>. QED BY <1>1, <1>7, <1>10, <1>11, <1>12 DEF Kept, Decoding

(* The end of a block: the buffer is the global one again, the tables go.  *)
LEMMA ReturnStep ==
  ASSUME IInv, file' = file, mark' = mark, last' = last, cause' = cause,
         inptr' \in Nat, used' \in Nat,
         NEW bits \in 0 .. 15, Return(bits),
         8 * (inptr' - HeaderSize(file)) = used' + bits
  PROVE  Kept
<1>1. /\ bk' = bits /\ k' = 0 /\ e' = 0 /\ bl' = 0 /\ bd' = 0 /\ n' = 0
      /\ arena' = mark /\ pc' \in {"undo", "block"}
  BY DEF Return
<1>2. mark = 0 /\ last \in BOOLEAN /\ cause \in Causes /\ cause # "memory"
  BY Facts
<1>3. Quantities'
  BY <1>1, <1>2 DEF Quantities
<1>4. BitBudget'
  BY <1>1 DEF BitBudget, Decoding
<1>5. Lookup' /\ ArenaHeld'
  BY <1>1, <1>2 DEF Lookup, ArenaHeld
<1>. QED BY <1>1, <1>2, <1>3, <1>4, <1>5 DEF Kept

LEMMA StoredEndStep ==
  ASSUME IInv, StoredEnd
  PROVE  Kept
<1>1. /\ pc = "bytes" /\ Return(k) /\ file' = file /\ mark' = mark /\ last' = last
      /\ cause' = cause /\ inptr' = inptr /\ used' = used
  BY DEF StoredEnd
<1>2. 8 * (inptr' - HeaderSize(file)) = used' + k
  BY <1>1 DEF IInv, BitBudget, Decoding
<1>3. inptr' \in Nat /\ used' \in Nat /\ k \in 0 .. 15
  BY <1>1, Facts
<1>. QED BY <1>1, <1>2, <1>3, ReturnStep, Zenon

LEMMA SymbolStep ==
  ASSUME IInv, NEW s \in CodeBits, NEW x \in LenExtra,
         NEW symbol \in {"literal", "end", "length"}, Symbol(s, symbol, x)
  PROVE  Kept
<1>1. /\ pc = "lit" /\ s <= e /\ Take(k, e, s)
      /\ file' = file /\ last' = last /\ mark' = mark /\ cause' = cause
  BY DEF Symbol
<1>2. pc \in Decoding /\ e <= 9
  BY <1>1 DEF IInv, Lookup, Decoding
<1>3. e \in 0 .. 16 /\ s \in 0 .. e /\ s >= 1
  BY <1>1, <1>2, Facts, BitsOK
<1>4. CASE symbol = "end"
  <2>1. Return(Left(k, e, s))
    BY <1>4 DEF Symbol
  <2>2. /\ Left(k, e, s) \in 0 .. 15 /\ inptr' \in Nat /\ used' \in Nat
        /\ 8 * (inptr' - HeaderSize(file)) = used' + Left(k, e, s)
    BY <1>1, <1>2, <1>3, DecoderTakes
  <2>. QED BY <1>1, <2>1, <2>2, ReturnStep
<1>5. CASE symbol # "end"
  <2>1. /\ k' = Left(k, e, s) /\ bk' = bk /\ bl' = bl /\ bd' = bd /\ n' = n /\ arena' = arena
        /\ \/ e' = bl /\ pc' = "lit"
           \/ e' = x /\ pc' = "length"
    BY <1>1, <1>5 DEF Symbol
  <2>2. e' \in 0 .. 13 /\ n' \in Nat /\ e' <= 9
    BY <2>1, Facts, BitsOK
  <2>3. pc' \in Decoding /\ pc' \notin {"lens", "repeat"} /\ pc' \notin Empty
    BY <2>1 DEF Decoding, Empty, Header
  <2>. QED BY <1>1, <1>2, <1>3, <2>1, <2>2, <2>3, TakeStep
<1>. QED BY <1>4, <1>5

(* Two tables fit beside a third, and of course without it.                *)
LEMMA TablesFit ==
  ASSUME NEW x \in Tables, NEW y \in Tables
  PROVE  /\ x \in Nat /\ y \in Nat /\ x + y \in Nat
         /\ ~(0 + x >= ArenaSize) /\ ~(0 + (x + y) >= ArenaSize)
         /\ \A z \in Tables : ~(z + (x + y) >= ArenaSize)
<1>1. x \in Nat /\ y \in Nat /\ ArenaSize \in Nat /\ Tables \subseteq Nat
  BY ArenaOK
<1>2. \A z \in Tables : x + y + z < ArenaSize
  BY ArenaOK
<1>. QED BY <1>1, <1>2

(* A step that takes nothing from the image.                               *)
LEMMA TableStep ==
  ASSUME IInv, pc \in Decoding, file' = file, inptr' = inptr, used' = used,
         last' = last, mark' = mark, n' = n,
         bk' \in 0 .. 15, k' \in 0 .. 15, e' \in 0 .. 13, bl' \in 0 .. 9, bd' \in 0 .. 6,
         arena' \in Nat,
         pc' \in Decoding => 8 * (inptr - HeaderSize(file)) = used + k',
         pc' \in {"lens", "lit", "halted", "no table"}, cause' \in {cause, "data"},
         pc' = "lit" => e' <= 9,
         pc' = "lens" => arena' \in Tables
  PROVE  Kept
<1>1. /\ inptr \in Nat /\ used \in Nat /\ n \in Nat /\ mark = 0 /\ last \in BOOLEAN
      /\ cause \in Causes /\ cause # "memory"
  BY Facts
<1>2. Quantities'
  BY <1>1 DEF Quantities
<1>3. BitBudget'
  BY DEF BitBudget, Decoding
<1>4. Lookup' /\ ArenaHeld'
  BY <1>1 DEF Lookup, ArenaHeld, Empty, Header
<1>5. cause' \in Causes \ {"memory"}
  BY <1>1 DEF Causes
<1>. QED BY <1>1, <1>2, <1>3, <1>4, <1>5 DEF Kept, Decoding

LEMMA FixedStep ==
  ASSUME IInv, NEW x \in Tables, NEW y \in Tables, Fixed(x + y)
  PROVE  Kept
<1>1. pc = "fixed" /\ pc \in Decoding /\ pc \in Empty
  BY DEF Fixed, Decoding, Empty
<1>2. arena = 0 /\ 8 * (inptr - HeaderSize(file)) = used + k /\ BitBudget
  BY <1>1 DEF IInv, ArenaHeld, BitBudget
<1>3. ~OutOfMemory(x + y)
  BY <1>2, TablesFit DEF OutOfMemory
<1>4. /\ bk' = bk /\ e' = 7 /\ bl' = 7 /\ bd' = 5 /\ k' = bk'
      /\ arena' = arena + (x + y) /\ pc' = "lit" /\ cause' = cause
      /\ file' = file /\ inptr' = inptr /\ used' = used /\ n' = n /\ last' = last /\ mark' = mark
  BY <1>3 DEF Fixed, malloc, Codes
<1>5. k = bk /\ bk \in 0 .. 15 /\ arena' \in Nat
  BY <1>1, <1>2, <1>4, Facts, TablesFit DEF Fixed, IInv, Lookup
<1>6. bk' \in 0 .. 15 /\ k' \in 0 .. 15 /\ 8 * (inptr - HeaderSize(file)) = used + k'
  BY <1>2, <1>4, <1>5
<1>. QED BY <1>1, <1>4, <1>5, <1>6, TableStep

LEMMA BitLengthTableStep ==
  ASSUME IInv, NEW x \in Tables, NEW bits \in LitBits, bits <= 7, NEW result \in Results,
         BitLengthTable(x, bits, result)
  PROVE  Kept
<1>1. pc = "border" /\ pc \in Decoding /\ pc \in Empty
  BY DEF BitLengthTable, Decoding, Empty
<1>2. arena = 0 /\ 8 * (inptr - HeaderSize(file)) = used + k
  BY <1>1 DEF IInv, ArenaHeld, BitBudget
<1>3. ~OutOfMemory(x)
  BY <1>2, TablesFit DEF OutOfMemory
<1>4. /\ file' = file /\ inptr' = inptr /\ used' = used /\ n' = n /\ last' = last /\ mark' = mark
      /\ bk' = bk /\ k' = k /\ bd' = bd
      /\ \/ arena' = arena + x /\ bl' = bits /\ e' = bits /\ pc' = "lens" /\ cause' = cause
         \/ arena' = arena /\ bl' = bl /\ e' = e /\ pc' = "halted" /\ cause' = "data"
         \/ arena' = arena /\ bl' = bl /\ e' = e /\ pc' = "no table" /\ cause' = cause
  BY <1>3 DEF BitLengthTable, malloc, error
<1>5. /\ bk' \in 0 .. 15 /\ k' \in 0 .. 15 /\ bd' \in 0 .. 6
      /\ 8 * (inptr - HeaderSize(file)) = used + k'
  BY <1>2, <1>4, Facts
<1>6. /\ e' \in 0 .. 13 /\ bl' \in 0 .. 9
      /\ arena' \in Nat /\ (pc' = "lens" => arena' \in Tables)
  <2>1. bits \in 0 .. 9 /\ bits \in 0 .. 13 /\ arena + x = x /\ x \in Nat
    BY <1>2, BitsOK, TablesFit
  <2>2. e \in 0 .. 13 /\ bl \in 0 .. 9 /\ arena \in Nat
    BY Facts
  <2>. QED BY <1>4, <2>1, <2>2
<1>. QED BY <1>1, <1>4, <1>5, <1>6, TableStep

LEMMA DynamicTablesStep ==
  ASSUME IInv, NEW x \in Tables, NEW y \in Tables, NEW lbits \in LitBits,
         NEW dbits \in DistBits, NEW result \in Results,
         DynamicTables(x + y, lbits, dbits, result)
  PROVE  Kept
<1>1. pc = "lens" /\ pc \in Decoding
  BY DEF DynamicTables, Decoding
<1>2. arena \in Tables /\ 8 * (inptr - HeaderSize(file)) = used + k
  BY <1>1 DEF IInv, ArenaHeld, BitBudget
<1>3. ~OutOfMemory(x + y)
  BY <1>2, TablesFit DEF OutOfMemory
<1>4. /\ file' = file /\ inptr' = inptr /\ used' = used /\ n' = n /\ last' = last /\ mark' = mark
      /\ bk' = k
      /\ \/ /\ arena' = arena + (x + y) /\ bl' = lbits /\ bd' = dbits /\ e' = lbits /\ k' = bk'
            /\ pc' = "lit" /\ cause' = cause
         \/ /\ arena' = arena /\ bl' = bl /\ bd' = bd /\ e' = e /\ k' = k
            /\ pc' = "halted" /\ cause' = "data"
         \/ /\ arena' = arena /\ bl' = bl /\ bd' = bd /\ e' = e /\ k' = k
            /\ pc' = "no table" /\ cause' = cause
  BY <1>3 DEF DynamicTables, malloc, Codes, error
<1>5. k' = k
  BY <1>4
<1>6. /\ bk' \in 0 .. 15 /\ k' \in 0 .. 15
      /\ 8 * (inptr - HeaderSize(file)) = used + k'
  BY <1>2, <1>4, <1>5, Facts
<1>7. /\ e' \in 0 .. 13 /\ bl' \in 0 .. 9 /\ bd' \in 0 .. 6
      /\ (pc' = "lit" => e' <= 9)
  <2>1. lbits \in 0 .. 9 /\ lbits \in 0 .. 13 /\ lbits <= 9 /\ dbits \in 0 .. 6
    BY BitsOK
  <2>2. e \in 0 .. 13 /\ bl \in 0 .. 9 /\ bd \in 0 .. 6
    BY Facts
  <2>. QED BY <1>4, <2>1, <2>2
<1>8. arena' \in Nat
  <2>1. arena \in Nat /\ x + y \in Nat
    BY Facts, TablesFit
  <2>2. arena + (x + y) \in Nat
    BY <2>1
  <2>. QED BY <1>4, <2>1, <2>2
<1>. QED BY <1>1, <1>4, <1>6, <1>7, <1>8, TableStep

(* error() keeps what is left of the invariant.                            *)
LEMMA Halts ==
  ASSUME IInv, pc' = "halted", cause' \in Causes, cause' # "memory",
         file' = file, inptr' \in Nat, used' \in Nat,
         bk' = bk, k' = k, e' = e, bl' = bl, bd' = bd, n' = n,
         last' = last, arena' = arena, mark' = mark
  PROVE  IInv'
<1>1. Quantities' /\ mark' = 0
  BY Facts DEF Quantities
<1>2. file' \in Files /\ last' \in BOOLEAN /\ pc' \in Phases
  BY Facts DEF Phases
<1>3. TypeOK'
  BY <1>1, <1>2, Zenon DEF TypeOK
<1>4. BitBudget' /\ HeaderRead' /\ BootsOnlyIfValid'
  BY DEF BitBudget, HeaderRead, BootsOnlyIfValid, Decoding, Header
<1>5. Lookup' /\ ArenaHeld' /\ NeverOutOfMemory'
  BY <1>1 DEF Lookup, ArenaHeld, NeverOutOfMemory, Empty, Header
<1>. QED BY <1>3, <1>4, <1>5, Zenon DEF IInv

LEMMA UnusedStep ==
  ASSUME IInv, Unused
  PROVE  IInv'
<1>1. e \in 0 .. 16 /\ k \in 0 .. 15
  BY Facts
<1>2. Bytes(k, e) \in Nat
  BY <1>1, BytesBring
<1>3. inptr' \in Nat /\ used' \in Nat
  BY <1>2, Facts DEF Unused, get_byte
<1>4. "data" \in Causes
  BY DEF Causes
<1>. QED BY <1>3, <1>4, Halts DEF Unused, error

LEMMA RanOutStep ==
  ASSUME IInv, RanOut
  PROVE  IInv'
<1>1. k % 8 \in 0 .. 7
  BY Facts, Aligned
<1>2. Meant \in Nat
  BY <1>1, Facts DEF Meant
<1>3. inptr' \in Nat /\ used' \in Nat
  <2>1. inptr \in Nat /\ used \in Nat
    BY Facts
  <2>2. inptr' = inptr /\ used' = used + Meant
    BY DEF RanOut
  <2>. QED BY <1>2, <2>1, <2>2
<1>4. "ran out" \in Causes
  BY DEF Causes
<1>. QED BY <1>3, <1>4, Halts DEF RanOut, error

(* Whole bytes go back, so the trailer is read from where the data ends.   *)
LEMMA UndoStep ==
  ASSUME IInv, Undo
  PROVE  IInv'
<1>. DEFINE h == HeaderSize(file)
            q == bk \div 8
            r == bk % 8
<1>1. /\ pc = "undo" /\ bk' = r /\ inptr' = inptr - q /\ pc' = "trailer"
      /\ file' = file /\ k' = k /\ used' = used /\ e' = e /\ bl' = bl /\ bd' = bd /\ n' = n
      /\ last' = last /\ arena' = arena /\ mark' = mark /\ cause' = cause
  BY DEF Undo
<1>2. r \in 0 .. 7 /\ q \in 0 .. 1 /\ bk = 8 * q + r
  BY Facts, Halves
<1>3. 8 * (inptr - h) = used + bk /\ arena = 0 /\ HeaderRead
  BY <1>1 DEF IInv, BitBudget, ArenaHeld, Empty
<1>4. /\ inptr \in Nat /\ used \in Nat /\ bk \in 0 .. 15 /\ k \in 0 .. 15 /\ e \in 0 .. 13
      /\ bl \in 0 .. 9 /\ bd \in 0 .. 6 /\ n \in Nat /\ mark = 0 /\ last \in BOOLEAN
      /\ cause \in Causes /\ cause # "memory" /\ file \in Files /\ h \in Nat
  BY Facts
<1>5. HeaderSize(file') = h
  BY <1>1
<1>. HIDE DEF h, q, r
<1>6. 8 * (inptr' - h) = used' + bk' /\ bk' < 8 /\ bk' \in 0 .. 15 /\ inptr' \in Nat
  BY <1>1, <1>2, <1>3, <1>4
<1>7. Quantities' /\ file' \in Files /\ last' \in BOOLEAN /\ pc' \in Phases /\ cause' \in Causes
  BY <1>1, <1>3, <1>4, <1>6 DEF Quantities, Phases
<1>8. BitBudget'
  BY <1>1, <1>5, <1>6 DEF BitBudget, Decoding
<1>9. HeaderRead'
  BY <1>1, <1>3 DEF HeaderRead, Header
<1>10. Lookup' /\ ArenaHeld' /\ BootsOnlyIfValid' /\ NeverOutOfMemory'
  BY <1>1, <1>3, <1>4 DEF Lookup, ArenaHeld, BootsOnlyIfValid, NeverOutOfMemory
<1>11. TypeOK'
  BY <1>7, Zenon DEF TypeOK
<1>. QED BY <1>8, <1>9, <1>10, <1>11, Zenon DEF IInv

LEMMA TrailerStep ==
  ASSUME IInv, Trailer
  PROVE  IInv'
<1>. DEFINE h == HeaderSize(file)
<1>1. /\ pc = "trailer" /\ inptr' = inptr + 8
      /\ file' = file /\ bk' = bk /\ k' = k /\ used' = used /\ e' = e /\ bl' = bl /\ bd' = bd
      /\ n' = n /\ last' = last /\ arena' = arena /\ mark' = mark
  BY DEF Trailer, get_byte
<1>2. inptr \in Nat /\ used \in Nat
  BY Facts
<1>3. inptr' \in Nat /\ used' \in Nat
  BY <1>1, <1>2
<1>4. CASE ~Agree
  <2>1. pc' = "halted" /\ cause' = "trailer"
    BY <1>4 DEF Trailer, error
  <2>2. "trailer" \in Causes
    BY DEF Causes
  <2>. QED BY <1>1, <1>3, <2>1, <2>2, Halts
<1>5. CASE Agree
  <2>1. pc' = "booted" /\ cause' = cause
    BY <1>5 DEF Trailer
  <2>2. file \in Files /\ cause \in Causes /\ cause # "memory" /\ last \in BOOLEAN
        /\ h \in Nat /\ bk \in 0 .. 15 /\ mark = 0
    BY Facts
  <2>3. file.data \in Nat /\ FullSize(file) = h + file.data + 8 /\ file.bad \in Fields
    BY <2>2, FileSizes
  <2>4. 8 * (inptr - h) = used + bk /\ bk < 8 /\ HeaderRead
    BY <1>1 DEF IInv, BitBudget
  <2>5. file.bad \notin {"crc", "length"} /\ inptr = h + file.data
    BY <1>5 DEF Agree
  <2>6. file.bad = "none"
    BY <1>1, <2>3, <2>4, <2>5 DEF HeaderRead, Fields
  <2>. HIDE DEF h
  <2>7. 8 * file.data = used + bk
    BY <1>2, <2>2, <2>3, <2>4, <2>5
  <2>8. used > 8 * (file.data - 1) /\ used <= 8 * file.data
    BY <1>2, <2>2, <2>3, <2>4, <2>7
  <2>9. inptr' = FullSize(file)
    BY <1>1, <2>2, <2>3, <2>5
  <2>10. BootsOnlyIfValid'
    BY <1>1, <2>6, <2>8, <2>9 DEF BootsOnlyIfValid
  <2>11. Quantities'
    BY <1>1, <1>3, Facts DEF Quantities
  <2>12. TypeOK'
    <3>1. file' \in Files /\ last' \in BOOLEAN /\ pc' \in Phases /\ cause' \in Causes
      BY <1>1, <2>1, <2>2 DEF Phases
    <3>. QED BY <2>11, <3>1, Zenon DEF TypeOK
  <2>13. BitBudget' /\ Lookup' /\ ArenaHeld' /\ NeverOutOfMemory'
    BY <1>1, <2>1, <2>2 DEF BitBudget, Lookup, ArenaHeld, NeverOutOfMemory, Decoding, Empty, Header
  <2>14. HeaderRead'
    BY <1>1, <2>1, <2>6 DEF HeaderRead, Header
  <2>. QED BY <2>10, <2>12, <2>13, <2>14, Zenon DEF IInv
<1>. QED BY <1>4, <1>5

(* Where each decoding step starts.                                        *)
Decodes ==
  \/ \E islast \in BOOLEAN, type \in {"stored", "fixed", "dynamic", "invalid"} :
       Block(islast, type)
  \/ \E len \in StoredLens : Stored(len)
  \/ \E same \in BOOLEAN : NLen(same)
  \/ StoredByte \/ StoredEnd
  \/ \E x, y \in Tables : Fixed(x + y)
  \/ \E nb \in LenCounts, good \in BOOLEAN : Counts(nb, good)
  \/ BitLength
  \/ \E x \in Tables, bits \in LitBits, result \in Results :
       bits <= 7 /\ BitLengthTable(x, bits, result)
  \/ \E s \in CodeBits, x \in {0, 2, 3, 7} : Length(s, x)
  \/ \E fits \in BOOLEAN : Repeat(fits)
  \/ \E x, y \in Tables, lbits \in LitBits, dbits \in DistBits, result \in Results :
       DynamicTables(x + y, lbits, dbits, result)
  \/ \E s \in CodeBits, x \in LenExtra, symbol \in {"literal", "end", "length"} :
       Symbol(s, symbol, x)
  \/ \E s \in CodeBits, x \in DistExtra : Distance(s, x)
  \/ \E bits \in SubBits : NextLevel(bits)
  \/ Extra

LEMMA DecodesKeeps ==
  ASSUME IInv, Decodes
  PROVE  IInv'
<1>1. Kept
  BY BlockStep, StoredStep, NLenStep, StoredByteStep, StoredEndStep, FixedStep, CountsStep,
     BitLengthStep, BitLengthTableStep, LengthStep, RepeatStep, DynamicTablesStep,
     SymbolStep, DistanceStep, NextLevelStep, ExtraStep, Zenon DEF Decodes
<1>2. pc \in Decoding \union {"block"}
  BY DEF Decodes, Block, Stored, NLen, StoredByte, StoredEnd, Fixed, Counts, BitLength,
     BitLengthTable, Length, Repeat, DynamicTables, Symbol, Distance, NextLevel, Extra, Decoding
<1>. QED BY <1>1, <1>2, KeptKeeps

LEMMA NextIInv == IInv /\ [Next]_vars => IInv'
<1>. SUFFICES ASSUME IInv, [Next]_vars PROVE IInv'
  OBVIOUS
<1>1. CASE Decodes
  BY <1>1, DecodesKeeps
<1>2. CASE Magic \/ BadFlags \/ Flags \/ SkipFields \/ Inflate
  BY <1>2, HeaderStep
<1>3. CASE Unused
  BY <1>3, UnusedStep
<1>4. CASE Undo
  BY <1>4, UndoStep
<1>5. CASE Trailer
  BY <1>5, TrailerStep
<1>6. CASE RanOut
  BY <1>6, RanOutStep
<1>7. CASE UNCHANGED vars
  BY <1>7 DEF vars, IInv, TypeOK, Quantities, BitBudget, HeaderRead, Lookup, ArenaHeld,
     BootsOnlyIfValid, NeverOutOfMemory
<1>8. CASE Stopped
  BY <1>7, <1>8, Zenon DEF Stopped
<1>. QED BY <1>1, <1>2, <1>3, <1>4, <1>5, <1>6, <1>7, <1>8, Zenon DEF Next, Decodes
-----------------------------------------------------------------------------
(* A whole and right image.                                                *)
Whole == file.bad = "none" /\ file.len = FullSize(file)

Within == inptr <= file.len

(* Only Undo changes inptr without having asked for the bytes.             *)
LEMMA AsksFirst ==
  ASSUME IInv, Next
  PROVE  file' = file /\ (Undo \/ inptr' = inptr \/ inptr' <= file.len)
<1>1. CASE Decodes
  <2>. USE DEF get_byte, Have, Take
  <2>1. ASSUME NEW islast \in BOOLEAN,
               NEW type \in {"stored", "fixed", "dynamic", "invalid"}, Block(islast, type)
        PROVE  file' = file /\ inptr' <= file.len
    BY <2>1 DEF Block
  <2>2. ASSUME NEW len \in StoredLens, Stored(len)
        PROVE  file' = file /\ inptr' <= file.len
    BY <2>2 DEF Stored
  <2>3. ASSUME NEW same \in BOOLEAN, NLen(same)
        PROVE  file' = file /\ inptr' <= file.len
    BY <2>3 DEF NLen
  <2>4. ASSUME StoredByte \/ BitLength \/ Extra
        PROVE  file' = file /\ inptr' <= file.len
    BY <2>4 DEF StoredByte, BitLength, Extra
  <2>5. ASSUME StoredEnd
        PROVE  file' = file /\ inptr' = inptr
    BY <2>5 DEF StoredEnd
  <2>6. ASSUME NEW x \in Tables, NEW y \in Tables, Fixed(x + y)
        PROVE  file' = file /\ inptr' = inptr
    BY <2>6 DEF Fixed
  <2>7. ASSUME NEW nb \in LenCounts, NEW good \in BOOLEAN, Counts(nb, good)
        PROVE  file' = file /\ inptr' <= file.len
    BY <2>7 DEF Counts
  <2>8. ASSUME NEW x \in Tables, NEW bits \in LitBits, NEW result \in Results,
               BitLengthTable(x, bits, result)
        PROVE  file' = file /\ inptr' = inptr
    BY <2>8 DEF BitLengthTable
  <2>9. ASSUME NEW s \in CodeBits, NEW x \in {0, 2, 3, 7}, Length(s, x)
        PROVE  file' = file /\ inptr' <= file.len
    BY <2>9 DEF Length
  <2>10. ASSUME NEW fits \in BOOLEAN, Repeat(fits)
         PROVE  file' = file /\ inptr' <= file.len
    BY <2>10 DEF Repeat
  <2>11. ASSUME NEW x \in Tables, NEW y \in Tables, NEW lbits \in LitBits,
                NEW dbits \in DistBits, NEW result \in Results,
                DynamicTables(x + y, lbits, dbits, result)
         PROVE  file' = file /\ inptr' = inptr
    BY <2>11 DEF DynamicTables
  <2>12. ASSUME NEW s \in CodeBits, NEW x \in LenExtra,
                NEW symbol \in {"literal", "end", "length"}, Symbol(s, symbol, x)
         PROVE  file' = file /\ inptr' <= file.len
    BY <2>12 DEF Symbol
  <2>13. ASSUME NEW s \in CodeBits, NEW x \in DistExtra, Distance(s, x)
         PROVE  file' = file /\ inptr' <= file.len
    BY <2>13 DEF Distance
  <2>14. ASSUME NEW bits \in SubBits, NextLevel(bits)
         PROVE  file' = file /\ inptr' <= file.len
    BY <2>14 DEF NextLevel
  <2>. QED BY <1>1, <2>1, <2>2, <2>3, <2>4, <2>5, <2>6, <2>7, <2>8, <2>9, <2>10, <2>11,
              <2>12, <2>13, <2>14, Zenon DEF Decodes
<1>2. CASE Magic \/ BadFlags \/ Flags \/ SkipFields \/ Inflate
  BY <1>2 DEF Magic, BadFlags, Flags, SkipFields, Skip, Inflate, get_byte, Have
<1>3. CASE Unused \/ Undo \/ Trailer
  BY <1>3 DEF Unused, Undo, Trailer, get_byte, Have
<1>4. CASE RanOut \/ Stopped
  BY <1>4 DEF RanOut, Stopped, vars
<1>. QED BY <1>1, <1>2, <1>3, <1>4, Zenon DEF Next, Decodes

(* Running out of a whole image means having used more bits than it has:   *)
(* a request looks ahead by less than the eight bytes of the trailer.      *)
LEMMA RanOutLate ==
  ASSUME IInv, Within, Whole, RanOut
  PROVE  used' > 8 * file.data
<1>. DEFINE h == HeaderSize(file)
            d == file.data
<1>1. /\ file.extra \in Nat /\ file.name \in Nat /\ file.comment \in Nat /\ d \in Nat
      /\ h = 10 + file.extra + file.name + file.comment
      /\ h \in Nat /\ file.len = h + d + 8 /\ file.bad = "none"
  BY Facts, FileSizes DEF Whole, HeaderSize
<1>2. /\ inptr \in Nat /\ used \in Nat /\ bk \in 0 .. 15 /\ k \in 0 .. 15
      /\ e \in 0 .. 13 /\ bl \in 0 .. 9
  BY Facts
<1>3. k % 8 \in 0 .. 7 /\ k - (k % 8) \in 0 .. 15
  BY <1>2, Aligned
<1>4. used' = used + Meant /\ ~(inptr + Asked <= file.len) /\ inptr <= file.len
  BY DEF RanOut, Have, Within
<1>5. BitBudget /\ HeaderRead /\ pc \in Phases
  BY Zenon DEF IInv, TypeOK
<1>. SUFFICES used' > 8 * d
  OBVIOUS
<1>. HIDE DEF h, d
(* The requests of the decoders have this form: x bits in the buffer.      *)
<1>6. ASSUME NEW x \in 0 .. 15, NEW m \in 0 .. 16, NEW z \in 0 .. 7,
             Asked = Bytes(x, m), 8 * (inptr - h) = (used + z) + x
      PROVE  used + z > 8 * d
  <2>. DEFINE t == Bytes(x, m)
  <2>1. /\ t \in Nat /\ (x >= m => t = 0)
        /\ (x < m => m <= x + 8 * t /\ x + 8 * t <= m + 7)
    BY BytesBring
  <2>2. Asked = t
    BY <1>6
  <2>. HIDE DEF t
  <2>3. x < m
    BY <1>2, <1>4, <2>1, <2>2
  <2>4. inptr + t > h + d + 8 /\ x + 8 * t <= 23
    BY <1>1, <1>2, <1>4, <2>1, <2>2, <2>3
  <2>5. 8 * (inptr + t) > 8 * (h + d + 8)
    BY <1>1, <1>2, <2>1, <2>4
  <2>6. 8 * (inptr + t) = (used + z) + x + 8 * t + 8 * h
    BY <1>1, <1>2, <1>6, <2>1
  <2>. QED BY <1>1, <1>2, <1>4, <1>6, <2>1, <2>4, <2>5, <2>6
<1>7. CASE pc \in Header
  <2>1. Asked \in Nat /\ inptr + Asked <= h
    BY <1>1, <1>2, <1>5, <1>7 DEF Header, HeaderRead, Asked, h
  <2>. QED BY <1>1, <1>2, <1>4, <2>1
<1>8. CASE pc = "trailer"
  <2>1. Asked = 8 /\ Meant = 0 /\ 8 * (inptr - h) = used + bk /\ bk < 8
    BY <1>5, <1>8 DEF Asked, Meant, BitBudget, h
  <2>2. inptr - h \in Int /\ inptr - h >= d + 1
    BY <1>1, <1>2, <1>4, <2>1
  <2>3. 8 * (inptr - h) >= 8 * d + 8
    BY <1>1, <2>2
  <2>4. used > 8 * d
    BY <1>1, <1>2, <2>1, <2>3
  <2>. QED BY <1>2, <1>4, <2>1, <2>4
<1>9. CASE pc = "block"
  <2>1. Asked = Bytes(bk, 3) /\ Meant = 3 /\ 8 * (inptr - h) = used + bk
    BY <1>5, <1>9 DEF Asked, Meant, BitBudget, h
  <2>2. 3 \in 0 .. 16 /\ 0 \in 0 .. 7 /\ 8 * (inptr - h) = (used + 0) + bk
    BY <1>2, <2>1
  <2>3. used + 0 > 8 * d
    BY <1>2, <1>6, <2>1, <2>2, Zenon
  <2>. QED BY <1>1, <1>2, <1>4, <2>1, <2>3
<1>10. CASE pc = "stored"
  <2>1. /\ Asked = Bytes(k - (k % 8), 16) /\ Meant = (k % 8) + 16
        /\ 8 * (inptr - h) = used + k
    BY <1>5, <1>10 DEF Asked, Meant, BitBudget, Decoding, h
  <2>. DEFINE r == k % 8
              a == k - r
  <2>2. r \in 0 .. 7 /\ a \in 0 .. 15 /\ a + r = k
    BY <1>2, <1>3
  <2>3. Asked = Bytes(a, 16) /\ Meant = r + 16
    BY <2>1
  <2>. HIDE DEF a, r
  <2>4. 16 \in 0 .. 16 /\ 8 * (inptr - h) = (used + r) + a
    BY <1>2, <2>1, <2>2, <2>3
  <2>5. used + r > 8 * d
    BY <1>6, <2>2, <2>3, <2>4, Zenon
  <2>. QED BY <1>1, <1>2, <1>4, <2>2, <2>3, <2>5
<1>11. CASE pc \in Decoding \ {"stored"}
  <2>1. 8 * (inptr - h) = (used + 0) + k
    BY <1>2, <1>5, <1>11 DEF BitBudget, h
  <2>2. Meant \in Nat
    BY <1>2, <1>11 DEF Meant, Decoding
  <2>3. CASE Asked = 0
    BY <1>2, <1>4, <2>3
  <2>4. CASE Asked # 0
    <3>1. \E m \in 0 .. 16 : Asked = Bytes(k, m)
      <4>1. CASE pc \in {"nlen", "bytes", "dynamic", "border"}
        <5>1. Asked \in {Bytes(k, 16), Bytes(k, 8), Bytes(k, 14), Bytes(k, 3)}
          BY <2>4, <4>1 DEF Asked
        <5>. QED BY <5>1
      <4>2. CASE pc = "lens"
        BY <1>2, <4>2 DEF Asked
      <4>3. CASE pc \in {"repeat", "lit", "length", "dist", "distance"}
        BY <1>2, <4>3 DEF Asked
      <4>4. pc \in {"nlen", "bytes", "dynamic", "border", "lens", "repeat", "lit", "length",
                    "dist", "distance"}
        BY <1>11, <2>4 DEF Asked, Decoding
      <4>. QED BY <4>1, <4>2, <4>3, <4>4
    <3>2. PICK m \in 0 .. 16 : Asked = Bytes(k, m)
      BY <3>1
    <3>3. 0 \in 0 .. 7
      OBVIOUS
    <3>4. used + 0 > 8 * d
      BY <1>2, <1>6, <2>1, <3>2, <3>3, Zenon
    <3>. QED BY <1>1, <1>2, <1>4, <2>2, <3>4
  <2>. QED BY <2>3, <2>4
<1>12. CASE pc \in {"undo", "halted", "booted", "no table"}
  <2>1. Asked = 0
    BY <1>12 DEF Asked
  <2>. QED BY <1>2, <1>4, <2>1
<1>. QED BY <1>5, <1>7, <1>8, <1>9, <1>10, <1>11, <1>12 DEF Phases

(* The ways into "halted".                                                 *)
LEMMA HowHalted ==
  ASSUME IInv, Next, pc' = "halted"
  PROVE  \/ cause' \in {"data", "memory"}
         \/ cause' = "header" /\ file.bad # "none"
         \/ Trailer /\ ~Agree /\ cause' = "trailer"
         \/ RanOut
         \/ UNCHANGED vars
<1>1. CASE Decodes
  <2>. USE DEF error, Return, Full, Codes, malloc
  <2>1. ASSUME NEW islast \in BOOLEAN,
               NEW type \in {"stored", "fixed", "dynamic", "invalid"}, Block(islast, type)
        PROVE  cause' \in {"data", "memory"}
    BY <2>1 DEF Block
  <2>2. ASSUME \E len \in StoredLens : Stored(len) PROVE FALSE
    BY <2>2 DEF Stored
  <2>3. ASSUME NEW same \in BOOLEAN, NLen(same) PROVE cause' \in {"data", "memory"}
    BY <2>3 DEF NLen
  <2>4. ASSUME StoredByte \/ StoredEnd \/ BitLength \/ Extra PROVE FALSE
    BY <2>4 DEF StoredByte, StoredEnd, BitLength, Extra
  <2>5. ASSUME NEW x \in Tables, NEW y \in Tables, Fixed(x + y) PROVE cause' \in {"data", "memory"}
    BY <2>5 DEF Fixed
  <2>6. ASSUME NEW nb \in LenCounts, NEW good \in BOOLEAN, Counts(nb, good)
        PROVE  cause' \in {"data", "memory"}
    BY <2>6 DEF Counts
  <2>7. ASSUME NEW x \in Tables, NEW bits \in LitBits, NEW result \in Results,
               BitLengthTable(x, bits, result)
        PROVE  cause' \in {"data", "memory"}
    BY <2>7 DEF BitLengthTable
  <2>8. ASSUME NEW s \in CodeBits, NEW x \in {0, 2, 3, 7}, Length(s, x) PROVE FALSE
    BY <2>8 DEF Length
  <2>9. ASSUME NEW fits \in BOOLEAN, Repeat(fits) PROVE cause' \in {"data", "memory"}
    BY <2>9 DEF Repeat
  <2>10. ASSUME NEW x \in Tables, NEW y \in Tables, NEW lbits \in LitBits,
                NEW dbits \in DistBits, NEW result \in Results,
                DynamicTables(x + y, lbits, dbits, result)
         PROVE  cause' \in {"data", "memory"}
    BY <2>10 DEF DynamicTables
  <2>11. ASSUME NEW s \in CodeBits, NEW x \in LenExtra,
                NEW symbol \in {"literal", "end", "length"}, Symbol(s, symbol, x)
         PROVE  FALSE
    BY <2>11 DEF Symbol
  <2>12. ASSUME NEW s \in CodeBits, NEW x \in DistExtra, Distance(s, x) PROVE FALSE
    BY <2>12 DEF Distance
  <2>13. ASSUME NEW bits \in SubBits, NextLevel(bits) PROVE FALSE
    BY <2>13 DEF NextLevel
  <2>. QED BY <1>1, <2>1, <2>2, <2>3, <2>4, <2>5, <2>6, <2>7, <2>8, <2>9, <2>10, <2>11,
              <2>12, <2>13, Zenon DEF Decodes
<1>2. CASE Magic \/ BadFlags \/ Flags \/ SkipFields \/ Inflate
  BY <1>2 DEF Magic, BadFlags, Flags, SkipFields, Skip, Inflate, error
<1>3. CASE Unused \/ Undo \/ Trailer
  BY <1>3 DEF Unused, Undo, Trailer, error
<1>4. CASE RanOut \/ Stopped
  BY <1>4 DEF Stopped
<1>. QED BY <1>1, <1>2, <1>3, <1>4, Zenon DEF Next, Decodes

LEMMA NextAccepts ==
  ASSUME IInv, IInv', Within, AcceptsValid, [Next]_vars
  PROVE  Within' /\ AcceptsValid'
<1>1. CASE UNCHANGED vars
  BY <1>1 DEF vars, Within, AcceptsValid
<1>2. CASE Next
  <2>1. file' = file /\ (Undo \/ inptr' = inptr \/ inptr' <= file.len)
    BY <1>2, AsksFirst
  <2>2. /\ file \in Files /\ inptr \in Nat /\ used \in Nat /\ bk \in 0 .. 15
        /\ HeaderSize(file) \in Nat
    BY Facts
  <2>3. Within'
    <3>1. CASE Undo
      <4>1. bk \div 8 \in 0 .. 1 /\ file.len \in Nat
        BY <2>2, Halves, FilesOK
      <4>2. inptr' = inptr - (bk \div 8)
        BY <3>1 DEF Undo
      <4>. QED BY <2>1, <2>2, <4>1, <4>2 DEF Within
    <3>2. CASE ~Undo
      BY <2>1, <3>2 DEF Within
    <3>. QED BY <3>1, <3>2
  <2>4. AcceptsValid'
    <3>. SUFFICES ASSUME Whole, pc' = "halted"
                  PROVE  \/ cause' = "data"
                         \/ cause' = "ran out" /\ used' > 8 * file.data
                         \/ cause' = "trailer" /\ (used' + 7) \div 8 # file.data
      BY <2>1 DEF AcceptsValid, Whole
    <3>1. CASE cause' \in {"data", "memory"}
      BY <3>1 DEF IInv, NeverOutOfMemory
    <3>2. CASE cause' = "header" /\ file.bad # "none"
      BY <3>2 DEF Whole
    <3>3. CASE Trailer /\ ~Agree /\ cause' = "trailer"
      <4>. DEFINE q == inptr - HeaderSize(file)
      <4>1. used' = used /\ 8 * q = used + bk /\ bk < 8
        BY <3>3 DEF Trailer, IInv, BitBudget
      <4>2. q # file.data
        <5>1. file.data \in Nat /\ inptr # HeaderSize(file) + file.data
          BY <2>2, <3>3, FileSizes DEF Agree, Whole
        <5>. QED BY <2>2, <5>1
      <4>3. q \in Int
        BY <2>2
      <4>. HIDE DEF q
      <4>4. (used' + 7) \div 8 = q
        BY <2>2, <4>1, <4>3
      <4>. QED BY <3>3, <4>2, <4>4
    <3>4. CASE RanOut
      BY <3>4, RanOutLate DEF RanOut, error
    <3>5. CASE UNCHANGED vars
      BY <3>5, <2>1 DEF vars, AcceptsValid, Whole
    <3>. QED BY <1>2, <3>1, <3>2, <3>3, <3>4, <3>5, HowHalted
  <2>. QED BY <2>3, <2>4
<1>. QED BY <1>1, <1>2
-----------------------------------------------------------------------------
THEOREM Invariance == Spec => []IInv
<1>. QED BY InitIInv, NextIInv, PTL DEF Spec

(* The buffer never holds two bytes when a function leaves it, so NEEDBITS *)
(* shifts no bit out of its word (lib/inflate.c:225).                      *)
THEOREM ShiftFits == Spec => []TypeOK
<1>1. IInv => TypeOK
  BY Zenon DEF IInv
<1>. QED BY <1>1, Invariance, PTL

(* No bit is lost or used twice between functions, blocks and the trailer. *)
THEOREM BitsAccounted == Spec => []BitBudget
<1>1. IInv => BitBudget
  BY Zenon DEF IInv
<1>. QED BY <1>1, Invariance, PTL

(* A kernel is started only out of an image whose header is good and whose *)
(* trailer was read from its place and found right (misc.c:277).           *)
THEOREM ValidOnly == Spec => []BootsOnlyIfValid
<1>1. IInv => BootsOnlyIfValid
  BY Zenon DEF IInv
<1>. QED BY <1>1, Invariance, PTL

(* An arena for one block's tables is enough for any number of blocks.     *)
THEOREM ArenaSuffices == Spec => []NeverOutOfMemory
<1>1. IInv => NeverOutOfMemory
  BY Zenon DEF IInv
<1>. QED BY <1>1, Invariance, PTL

(* A whole and right image is refused only if its data is wrong or ends    *)
(* elsewhere; looking ahead never is the reason (lib/inflate.c:985-991).   *)
THEOREM GoodAccepted == Spec => []AcceptsValid
<1>1. Init => Within /\ AcceptsValid
  <2>. SUFFICES ASSUME Init PROVE Within /\ AcceptsValid
    OBVIOUS
  <2>1. inptr = 0 /\ pc = "magic" /\ file.len \in Nat
    BY FilesOK DEF Init
  <2>. QED BY <2>1 DEF Within, AcceptsValid
<1>2. IInv /\ IInv' /\ (Within /\ AcceptsValid) /\ [Next]_vars => (Within /\ AcceptsValid)'
  BY NextAccepts
<1>3. Spec => [](Within /\ AcceptsValid)
  BY <1>1, <1>2, Invariance, PTL DEF Spec
<1>4. Within /\ AcceptsValid => AcceptsValid
  OBVIOUS
<1>. QED BY <1>3, <1>4, PTL
=============================================================================
