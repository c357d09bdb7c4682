---------------------------- MODULE InflateTables ---------------------------
(***************************************************************************)
(* The tables of lib/inflate.c: which lengths and distances the codes of a *)
(* copy stand for, and the table of the gzip check sum that makecrc()      *)
(* builds, with its update in flush_window_low() of                        *)
(* boot/compressed/misc.c.  In the check sum a word is the set of its      *)
(* bits, so that exclusive or is the symmetric difference.                 *)
(***************************************************************************)
EXTENDS Integers, Sequences, FiniteSets, SequencesExt

(* The order in which the lengths of the bit length codes are stored.      *)
border == <<16, 17, 18, 0, 8, 7, 9, 6, 10, 5, 11, 4, 12, 3, 13, 2, 14, 1, 15>>

(* The shortest copy of the codes 257, 258, ... and their extra bits, and  *)
(* the same for the distances of the codes 0, 1, ...                       *)
cplens == <<3, 4, 5, 6, 7, 8, 9, 10, 11, 13, 15, 17, 19, 23, 27, 31,
            35, 43, 51, 59, 67, 83, 99, 115, 131, 163, 195, 227, 258, 0, 0>>
cplext == <<0, 0, 0, 0, 0, 0, 0, 0, 1, 1, 1, 1, 2, 2, 2, 2,
            3, 3, 3, 3, 4, 4, 4, 4, 5, 5, 5, 5, 0, 99, 99>>
cpdist == <<1, 2, 3, 4, 5, 7, 9, 13, 17, 25, 33, 49, 65, 97, 129, 193,
            257, 385, 513, 769, 1025, 1537, 2049, 3073, 4097, 6145,
            8193, 12289, 16385, 24577>>
cpdext == <<0, 0, 0, 0, 1, 1, 2, 2, 3, 3, 4, 4, 5, 5, 6, 6,
            7, 7, 8, 8, 9, 9, 10, 10, 11, 11, 12, 12, 13, 13>>

(* What a code stands for: v->n + the extra bits read.                     *)
Copies(n, e) == n .. n + 2^e - 1

xor(a, b) == (a \ b) \union (b \ a)
Shr(a, k) == {b - k : b \in {d \in a : d >= k}}

(* The terms of the polynomial but x^32, and their pattern e.              *)
p == {0, 1, 2, 4, 5, 7, 8, 10, 11, 12, 16, 22, 23, 26}
e == {31 - i : i \in p}

(* Mutant of Turn: the bit is pushed in before the word is shifted.        *)
TurnEarly(i, c, k) ==
  LET in == IF k \in i THEN xor(c, e) ELSE c
  IN IF 0 \in in THEN xor(Shr(in, 1), e) ELSE Shr(in, 1)

(* One turn of the loop over the bits of i, lowest first.                  *)
Turn(i, c, k) ==
  LET out == IF 0 \in c THEN xor(Shr(c, 1), e) ELSE Shr(c, 1)
  IN IF k \in i THEN xor(out, e) ELSE out

(* The loop ends when only the ninth bit of i | 256 is left; entry 0 is    *)
(* set apart.                                                              *)
crc_32_tab(i) ==
  IF i = {} THEN {} ELSE FoldLeft(LAMBDA c, k : Turn(i, c, k), {}, <<0, 1, 2, 3, 4, 5, 6, 7>>)

(* crc = 0xffffffff; CRC_VALUE is crc ^ 0xffffffff                         *)
Start == 0..31
CRC_VALUE(crc) == xor(crc, 0..31)

(* c = crc_32_tab[(c ^ ch) & 0xff] ^ (c >> 8)                              *)
Update(c, ch) == xor(crc_32_tab(xor(c, ch) \intersect (0..7)), Shr(c, 8))
-----------------------------------------------------------------------------
(* Division of polynomials over two elements, sets of exponents, by the    *)
(* polynomial of degree 32.                                                *)
Remainder(dividend, degree) ==
  LET Reduce(r, d) == IF d \in r THEN xor(r, {d - 32 + i : i \in p \union {32}}) ELSE r
  IN FoldLeft(Reduce, dividend, [j \in 1..(degree - 31) |-> degree + 1 - j])

(* The check sum of a message as the gzip format defines it: the message,  *)
(* least significant bit of each byte first, with its first 32 bits        *)
(* inverted and 32 zeros behind it, is divided by the polynomial; the      *)
(* remainder is inverted and its highest term is the lowest bit.           *)
CheckSum(message) ==
  LET bits == 8 * Len(message)
      terms == {31 + bits - 8 * (n - 1) - b : <<n, b>> \in
                  {nb \in (1..Len(message)) \X (0..7) : nb[2] \in message[nb[1]]}}
      inverted == xor(terms, bits .. bits + 31)
  IN {b \in 0..31 : 31 - b \notin Remainder(inverted, bits + 31)}

(* Every length a copy may have and every distance in the window have a    *)
(* code, and one only; but for the longest, which the code before the last *)
(* reaches as well, as note 12 says.  What the fixed codes have too many is*)
(* marked as invalid (inflate.c:96-99, 164-181).                           *)
LengthsCovered(n) ==
  {i \in 1..31 : cplext[i] # 99 /\ n \in Copies(cplens[i], cplext[i])} =
    {CHOOSE i \in 1..29 : cplens[i] <= n /\ (i = 29 \/ n < cplens[i + 1])} \union (IF n = 258 THEN {28} ELSE {})
DistancesCovered(n) == Cardinality({i \in 1..30 : n \in Copies(cpdist[i], cpdext[i])}) = 1
OrderComplete == {border[i] : i \in 1..19} = 0..18 /\ {i \in 1..31 : cplext[i] = 99} = {30, 31}

(* Byte by byte through the table, the check sum is the one of the format  *)
(* (inflate.c:1010-1053, misc.c:197-212).                                  *)
Sums(message) == CRC_VALUE(FoldLeft(Update, Start, message)) = CheckSum(message)

(* All of the above, for a job of its kind.                                *)
Agrees(job) ==
  CASE job.of = "sum" -> Sums(job.arg)
    [] job.of = "length" -> OrderComplete /\ LengthsCovered(job.arg)
    [] job.of = "distance" -> DistancesCovered(job.arg)
=============================================================================
