----------------------------- MODULE ByteOrder ------------------------------
(***************************************************************************)
(* include/linux/byteorder and asm/byteorder.h: the conversions between    *)
(* the processor's little endian words and words of a given byte order, in *)
(* their three forms (of a value, through a pointer, in place) and their   *)
(* two implementations (masks and shifts for constants, instructions for   *)
(* the rest).  Words are numbers in base Byte, memory is a sequence of     *)
(* bytes.                                                                  *)
(***************************************************************************)
EXTENDS Integers, Sequences, SequencesExt, Functions

CONSTANT Byte  (* the number of values of a byte                           *)

Digit(x, i) == (x \div Byte^i) % Byte

(* A word in memory, and memory with the word x of n bytes.                *)
Load(mem) == FoldFunction(+, 0, [i \in DOMAIN mem |-> mem[i] * Byte^(i - 1)])
Stored(x, n) == [i \in 1..n |-> Digit(x, i - 1)]

(* (x & mask of byte i) << 8k, to the right if k is negative.              *)
Move(x, i, k) == Digit(x, i) * Byte^(i + k)
Moves(x, shifts) == FoldFunction(+, 0, [i \in DOMAIN shifts |-> Move(x, i - 1, shifts[i])])

(* ___constant_swab16, 32, 64 and ___swab16, 32, 64                        *)
swab16(x) == Moves(x, <<1, -1>>)
swab32(x) == Moves(x, <<3, 1, -1, -3>>)
swab64(x) == Moves(x, <<7, 5, 3, 1, -1, -3, -5, -7>>)

(* xchgb %b0,%h0: the upper half of the register stays.                    *)
xchgb(x) == Moves(x, <<1, -1, 0, 0>>)

(* rorl $16,%0                                                             *)
rorl(x) == Moves(x, <<2, 2, -2, -2>>)

arch_swab16(x) == xchgb(x) % Byte^2
arch_swab32(x) == xchgb(rorl(xchgb(x)))

(* Mutant of fswab64: the halves are not exchanged.                        *)
fswab64InPlace(x) == arch_swab32(x \div Byte^4) * Byte^4 + arch_swab32(x % Byte^4)

(* __fswab64 by __SWAB_64_THRU_32__                                        *)
fswab64(x) ==
  LET h == x \div Byte^4
      l == x % Byte^4
  IN arch_swab32(l) * Byte^4 + arch_swab32(h)

(* The mask version is for constants, the other for variables.             *)
Swab(n, constant, x) ==
  CASE n = 2 -> IF constant THEN swab16(x) ELSE arch_swab16(x)
    [] n = 4 -> IF constant THEN swab32(x) ELSE arch_swab32(x)
    [] n = 8 -> IF constant THEN swab64(x) ELSE fswab64(x)

(* cpu_to_beN, beN_to_cpu                                                  *)
be(n, constant, x) == Swab(n, constant, x)

(* htonl, ntohl; htons, ntohs                                              *)
htonl(constant, x) == be(4, constant, x)
htons(constant, x) == be(2, constant, x)

(* cpu_to_leN, leN_to_cpu                                                  *)
le(n, constant, x) == x

(* cpu_to_beNp, leN_to_cpup: the value of a word in memory.                *)
bep(mem) == Swab(Len(mem), FALSE, Load(mem))
lep(mem) == Load(mem)

(* cpu_to_beNs, leN_to_cpus: the word changes in memory.                   *)
bes(mem) == Stored(bep(mem), Len(mem))
les(mem) == mem
-----------------------------------------------------------------------------
(* The number whose most significant byte comes first.                     *)
BigEndian(mem) == FoldLeft(LAMBDA x, b : x * Byte + b, 0, mem)

(* Whatever form and implementation: big endian memory is read and written *)
(* with its first byte as the most significant one, little endian memory   *)
(* with its last, and there and back is where one was (swab.h, generic.h). *)
Agrees(mem) ==
  LET n == Len(mem)
      x == Load(mem)
  IN /\ bep(mem) = BigEndian(mem) /\ lep(mem) = BigEndian(Reverse(mem))
     /\ bes(mem) = Reverse(mem) /\ les(mem) = mem
     /\ \A constant \in BOOLEAN :
          /\ Stored(be(n, constant, x), n) = Reverse(mem)
          /\ Stored(le(n, constant, x), n) = mem
          /\ be(n, constant, be(n, ~constant, x)) = x
          /\ n = 4 => htonl(constant, x) = BigEndian(mem)
          /\ n = 2 => htons(constant, x) = BigEndian(mem)
=============================================================================
