----------------------------- MODULE Encodings ------------------------------
(***************************************************************************)
(* The small functions on a number that stands for something else: its     *)
(* bits, linux/bitops.h, get_order() of asm/page.h, do_div() of            *)
(* asm/div64.h; several fields in one number, linux/kdev_t.h, asm/ioctl.h, *)
(* linux/quota.h, asm/pgtable.h and asm/desc.h; and the classes of         *)
(* characters, the table of lib/ctype.c and the macros of linux/ctype.h    *)
(* that read it.  Words whose bits matter are sets of bits; fields and     *)
(* characters are numbers, an argument may be a char with a sign.          *)
(***************************************************************************)
EXTENDS Integers, FiniteSets, FiniteSetsExt, Sequences, SequencesExt

CONSTANTS
  PAGE_SHIFT, AddressBits,  (* of an unsigned long                         *)
  MINORBITS,                (* kdev_t has twice as many bits               *)
  _IOC_NRBITS, _IOC_TYPEBITS, _IOC_SIZEBITS, _IOC_DIRBITS,
  SUBCMDSHIFT,
  SWP_TYPEBITS, SWP_OFFSETBITS

(* x >> k of an int: the sign stays.                                       *)
Shift(x, k) == {b \in 0..31 : IF b + k <= 31 THEN b + k \in x ELSE 31 \in x}

(* Mutant of Narrow: a half that is not empty is left as well.             *)
NarrowAlways(xr, k) == <<Shift(xr[1], k), xr[2] + k>>

(* if (!(x & mask of k bits)) { x >>= k; r += k; }                         *)
Narrow(xr, k) ==
  IF xr[1] \intersect (0 .. k - 1) = {} THEN <<Shift(xr[1], k), xr[2] + k>> ELSE xr

generic_ffs(x) == IF x = {} THEN 0 ELSE FoldLeft(Narrow, <<x, 1>>, <<16, 8, 4, 2, 1>>)[2]

(* res & 0x55555555, 0x33333333, ...: every other field of k bits of a     *)
(* word of n bits.                                                         *)
Fields(res, k, n) ==
  MapThenSumSet(LAMBDA j : ((res \div 2^(2 * k * j)) % 2^k) * 2^(2 * k * j), 0 .. (n \div (2 * k)) - 1)

AddPairs(res, k, n) == Fields(res, k, n) + Fields(res \div 2^k, k, n)

generic_hweight(w, n) ==
  FoldLeft(LAMBDA res, k : AddPairs(res, k, n), w, SelectSeq(<<1, 2, 4, 8, 16>>, LAMBDA k : k < n))

(* The loop shifts once more than there are bits left.                     *)
get_order(size) ==
  LET Order[s \in 0 .. 2^AddressBits - 1] == IF s \div 2 = 0 THEN 0 ELSE 1 + Order[s \div 2]
  IN Order[((size - 1) % 2^AddressBits) \div 2^(PAGE_SHIFT - 1)]

(* Mutant of do_div: the upper word is not reduced before the division.    *)
do_divUpper(n, base) ==
  LET high == n \div 2^AddressBits
      both == high * 2^AddressBits + (n % 2^AddressBits)
  IN [quotient |-> (high \div base) * 2^AddressBits + (both \div base), mod |-> both % base, fits |-> both \div base < 2^AddressBits]

(* n of two words is divided in two steps; the quotient of divl has to fit *)
(* in a word.                                                              *)
do_div(n, base) ==
  LET high == n \div 2^AddressBits
      upper == IF high = 0 THEN 0 ELSE high % base
      both == upper * 2^AddressBits + (n % 2^AddressBits)
  IN [quotient |-> (high \div base) * 2^AddressBits + (both \div base), mod |-> both % base, fits |-> both \div base < 2^AddressBits]

(* Fields put together, each at its place, and the place and width of each.*)
Or(fields, layout) == FoldLeft(LAMBDA v, i : v + fields[i] * 2^layout[i].shift, 0, [i \in 1..Len(layout) |-> i])
Field(v, place) == (v \div 2^place.shift) % 2^place.bits

(* MKDEV, MAJOR, MINOR                                                     *)
Device == <<[shift |-> MINORBITS, bits |-> MINORBITS], [shift |-> 0, bits |-> MINORBITS]>>

(* _IOC of dir, type, nr and size, and _IOC_DIR, _IOC_TYPE, ...            *)
Ioctl ==
  LET TYPESHIFT == _IOC_NRBITS
      SIZESHIFT == TYPESHIFT + _IOC_TYPEBITS
  IN <<[shift |-> SIZESHIFT + _IOC_SIZEBITS, bits |-> _IOC_DIRBITS],
       [shift |-> TYPESHIFT, bits |-> _IOC_TYPEBITS],
       [shift |-> 0, bits |-> _IOC_NRBITS],
       [shift |-> SIZESHIFT, bits |-> _IOC_SIZEBITS]>>

(* QCMD of a command and a type, which is masked.                          *)
Quota == <<[shift |-> SUBCMDSHIFT, bits |-> SUBCMDSHIFT], [shift |-> 0, bits |-> SUBCMDSHIFT]>>

(* SWP_ENTRY of a type and an offset.                                      *)
Swap == <<[shift |-> 1, bits |-> SWP_TYPEBITS], [shift |-> 8, bits |-> SWP_OFFSETBITS]>>

__FIRST_TSS_ENTRY == 12
__TSS(n) == 4 * n + __FIRST_TSS_ENTRY
__LDT(n) == 4 * n + __FIRST_TSS_ENTRY + 1

(* The characters of each flag.                                            *)
_ctype ==
  [_U |-> (65..90) \union (192..214) \union (216..222),
   _L |-> (97..122) \union (223..246) \union (248..255),
   _D |-> 48..57,
   _C |-> (0..31) \union {127},
   _P |-> (33..47) \union (58..64) \union (91..96) \union (123..126) \union (161..191) \union {215, 247},
   _S |-> (9..13) \union {32, 160},
   _X |-> (65..70) \union (97..102),
   _SP |-> {32, 160}]

(* Mutant of __ismask: a char is used as an index with its sign.           *)
__ismaskSigned(c, flags) == c >= 0 /\ \E f \in flags : c \in _ctype[f]

(* _ctype[(int)(unsigned char)(c)] & (the flags)                           *)
__ismask(c, flags) == \E f \in flags : c % 256 \in _ctype[f]

isalnum(c) == __ismask(c, {"_U", "_L", "_D"})
isalpha(c) == __ismask(c, {"_U", "_L"})
iscntrl(c) == __ismask(c, {"_C"})
isdigit(c) == __ismask(c, {"_D"})
isgraph(c) == __ismask(c, {"_P", "_U", "_L", "_D"})
islower(c) == __ismask(c, {"_L"})
isprint(c) == __ismask(c, {"_P", "_U", "_L", "_D", "_SP"})
ispunct(c) == __ismask(c, {"_P"})
isspace(c) == __ismask(c, {"_S"})
isupper(c) == __ismask(c, {"_U"})
isxdigit(c) == __ismask(c, {"_D", "_X"})

isascii(c) == c % 256 <= 127
toascii(c) == c % 128

(* The parameter is an unsigned char.                                      *)
tolower(c) == IF isupper(c % 256) THEN ((c % 256) + 32) % 256 ELSE c % 256
toupper(c) == IF islower(c % 256) THEN ((c % 256) - 32) % 256 ELSE c % 256

(* The value of a digit as simple_strtoul() takes it (vsprintf.c:34-35).   *)
Value(c) == IF isdigit(c) THEN c - 48 ELSE toupper(c) - 65 + 10
-----------------------------------------------------------------------------
BitsOf(w, n) == {b \in 0 .. n - 1 : (w \div 2^b) % 2 = 1}

(* The lowest bit, counted from one (bitops.h:11-38), also of the negative *)
(* numbers whose sign the shifts repeat.                                   *)
FindsFirst(x) == generic_ffs(x) = IF x = {} THEN 0 ELSE Min(x) + 1

(* The number of bits, whatever lies above the word (bitops.h:45-67).      *)
Weighs(w) == \A n \in {8, 16} : generic_hweight(w, n) = Cardinality(BitsOf(w, n))
Weighs32(w) == generic_hweight(w, 32) = Cardinality(BitsOf(w, 31))

(* The least order whose pages hold the size; size 0 is all of memory      *)
(* (page.h:99-110).                                                        *)
Orders(size) ==
  LET bytes == IF size = 0 THEN 2^AddressBits ELSE size
  IN get_order(size) = Min({o \in 0..AddressBits : 2^(o + PAGE_SHIFT) >= bytes})

(* The quotient and the rest, without a fault of the instruction for any   *)
(* number of two words (div64.h:4-15).                                     *)
Divides(n, base) == do_div(n, base) = [quotient |-> n \div base, mod |-> n % base, fits |-> TRUE]

(* Fields of their widths come back from the number, and only different    *)
(* fields make different numbers: no field reaches into another.           *)
Decodes(layout, fields) == \A i \in 1..Len(layout) : Field(Or(fields, layout), layout[i]) = fields[i]

(* A swap entry has neither the bit that marks a present page nor the one  *)
(* that marks a page without access (pgtable.h:152-172, 315-319).          *)
SwapIsAbsent(fields) == LET v == Or(fields, Swap) IN v % 2 = 0 /\ (v \div 2^7) % 2 = 0

(* Each CPU has a line of four descriptors of its own, behind the fixed    *)
(* ones (desc.h:24-38).                                                    *)
OwnLine(n, m) ==
  /\ __TSS(n) >= 12 /\ __LDT(n) = __TSS(n) + 1
  /\ __TSS(n) \div 4 = __LDT(n) \div 4
  /\ n # m => __TSS(n) \div 4 # __TSS(m) \div 4

(* Every character but the control characters above 127 is of one kind,    *)
(* also as a char with a sign, and the composed classes are made of these. *)
OneKind(c) ==
  LET kinds == {k \in {"upper", "lower", "digit", "cntrl", "punct", "space"} :
                  CASE k = "upper" -> isupper(c) [] k = "lower" -> islower(c) [] k = "digit" -> isdigit(c)
                    [] k = "cntrl" -> iscntrl(c) [] k = "punct" -> ispunct(c)
                    [] k = "space" -> isspace(c) /\ isprint(c)}
  IN /\ Cardinality(kinds) = (IF c % 256 \in 128..159 THEN 0 ELSE 1)
     /\ isalnum(c) = (isalpha(c) # isdigit(c))
     /\ isgraph(c) = (isalnum(c) # ispunct(c))
     /\ isprint(c) = (isgraph(c) # (c % 256 \in {32, 160}))
     /\ isascii(c) => iscntrl(c) # isprint(c)
     /\ isspace(c) => ~isgraph(c)

(* The two cases of a letter come back from each other and nothing else    *)
(* changes; but 223 and 255, small letters without a capital one, become   *)
(* 191, a sign, and 223, another small letter (ctype.c:42-50).             *)
CasesPair(c) ==
  /\ isupper(c) => islower(tolower(c)) /\ toupper(tolower(c)) = c % 256
  /\ islower(c) /\ c % 256 \notin {223, 255} => isupper(toupper(c)) /\ tolower(toupper(c)) = c % 256
  /\ ~isalpha(c) => tolower(c) = c % 256 /\ toupper(c) = c % 256

(* Sixteen values, the decimal digits' their own, and a letter's the same  *)
(* in both cases; below 128 a digit is where ASCII has it.                 *)
DigitsValued(c) ==
  isxdigit(c) =>
    /\ isascii(c) /\ toascii(c) = c
    /\ Value(c) \in 0..15
    /\ isdigit(c) = (Value(c) < 10)
    /\ Value(tolower(c)) = Value(toupper(c))
    /\ \A d \in 0..127 : isxdigit(d) /\ Value(d) = Value(c) => tolower(d) = tolower(c)

(* What the classes promise of each other (ctype.h:9-50, ctype.c:9-33).    *)
ClassesAgree(c) == OneKind(c) /\ CasesPair(c) /\ DigitsValued(c)

Layouts == [device |-> Device, ioctl |-> Ioctl, quota |-> Quota, swap |-> Swap]

(* All of the above, for a job of its kind.                                *)
Agrees(job) ==
  CASE job.of = "ffs" -> FindsFirst(job.arg)
    [] job.of = "hweight" -> Weighs(job.arg)
    [] job.of = "hweight32" -> Weighs32(job.arg)
    [] job.of = "get_order" -> Orders(job.arg)
    [] job.of = "div" -> Divides(job.arg[1], job.arg[2])
    [] job.of = "char" -> ClassesAgree(job.arg)
    [] job.of = "tss" -> OwnLine(job.arg[1], job.arg[2])
    [] OTHER -> /\ Decodes(Layouts[job.of], job.arg)
                /\ job.of = "swap" => SwapIsAbsent(job.arg)
=============================================================================
