------------------------------- MODULE Gunzip -------------------------------
(***************************************************************************)
(* The input side of the decompressor: gunzip() and the block decoders of  *)
(* lib/inflate.c with get_byte(), malloc() and error() of                  *)
(* arch/i386/boot/compressed/misc.c.  It follows the compressed image byte *)
(* by byte and the bit buffer bit by bit: what is in the buffer, what has  *)
(* been used, what is given back.  What the bits say is the image's        *)
(* choice; SlidingWindow.tla has the bytes that come out.                  *)
(***************************************************************************)
EXTENDS Integers

CONSTANTS
  Files,      (* the images: see FilesOK                                   *)
  LitBits,    (* lookup bits a literal/length table may get, at most lbits *)
  DistBits,   (* and a distance table, at most dbits                       *)
  SubBits,    (* and a table of the next level                             *)
  CodeBits,   (* bits of the last table looked at that belong to the code  *)
  LenExtra,   (* extra bits a length code may have, from cplext            *)
  DistExtra,  (* extra bits a distance code may have, from cpdext          *)
  LenCounts,  (* how many bit length code lengths a dynamic block gives    *)
  StoredLens, (* how many bytes a stored block has                         *)
  Tables,     (* bytes malloc()ed for one code's tables                    *)
  ArenaSize   (* bytes between `end' and real_mode                         *)

(* extra, name, comment: bytes of the optional header fields, 0 if absent; *)
(* data: bytes of compressed data; len: input_len, less than the sum if    *)
(* the image is truncated; bad: the field whose content is wrong.          *)
Fields == {"none", "magic", "method", "flags", "crc", "length"}
ASSUME FilesOK ==
  Files \subseteq [extra : Nat, name : Nat, comment : Nat, data : Nat,
                   len : Nat, bad : Fields]
ASSUME BitsOK ==
  /\ LitBits \subseteq 1 .. 9 /\ DistBits \subseteq 1 .. 6 /\ SubBits \subseteq 1 .. 9
  /\ CodeBits \subseteq 1 .. 9
  /\ LenExtra \subseteq 0 .. 5 /\ DistExtra \subseteq 0 .. 13
  /\ LenCounts \subseteq 4 .. 19 /\ StoredLens \subseteq Nat
(* The tables of one block fit: one code's for the bit lengths, one's for  *)
(* literals, one's for distances.                                          *)
ASSUME ArenaOK ==
  /\ ArenaSize \in Nat /\ Tables \subseteq Nat
  /\ \A x, y, z \in Tables : x + y + z < ArenaSize

VARIABLES
  file,
  inptr,  (* bytes taken from the image                                    *)
  bk,     (* bits in the global buffer                                     *)
  k,      (* bits in the buffer of the running decoder, its local copy     *)
  used,   (* bits dumped since the compressed data began (history)         *)
  e,      (* extra bits, or lookup bits of the table in use                *)
  bl, bd, (* lookup bits of the first literal and distance tables          *)
  n,      (* entries or bytes the running loop has left                    *)
  last,   (* the last block flag                                           *)
  arena,  (* free_mem_ptr, from `end'                                      *)
  mark,   (* the one gzip_mark() saved                                     *)
  pc,
  cause   (* what error() was called for                                   *)

vars == <<file, inptr, bk, k, used, e, bl, bd, n, last, arena, mark, pc, cause>>

HeaderSize(f) == 10 + f.extra + f.name + f.comment
FullSize(f) == HeaderSize(f) + f.data + 8

Init ==
  /\ file \in Files
  /\ inptr = 0
  /\ bk = 0 /\ k = 0 /\ used = 0
  /\ e = 0 /\ bl = 0 /\ bd = 0 /\ n = 0
  /\ last = FALSE
  /\ arena = 0 /\ mark = 0
  /\ pc = "magic"
  /\ cause = "none"

(* Mutant of error: it returns, and decompress_kernel() goes on.           *)
errorReturns(why) == pc' = "booted" /\ cause' = why

(* error(): a message, and while(1).                                       *)
error(why) == pc' = "halted" /\ cause' = why

(* Mutant of Have: the last byte is taken for missing.                     *)
HaveMore(count) == inptr + count < file.len

(* get_byte(), count times; fill_inbuf() has nothing more to give once the *)
(* image is in inbuf.                                                      *)
Have(count) == inptr + count <= file.len
get_byte(count) == Have(count) /\ inptr' = inptr + count

(* Mutant of Bytes: one byte more when the request ends with a byte.       *)
BytesEager(x, m) == IF x >= m THEN 0 ELSE (m - x + 8) \div 8

(* NEEDBITS(m) with x bits in the buffer takes so many bytes.              *)
Bytes(x, m) == IF x >= m THEN 0 ELSE (m - x + 7) \div 8

(* NEEDBITS(m), DUMPBITS(s): the bits then left are x + 8 * Bytes - s.     *)
Take(x, m, s) ==
  /\ get_byte(Bytes(x, m))
  /\ used' = used + s
Left(x, m, s) == x + 8 * Bytes(x, m) - s
-----------------------------------------------------------------------------
(* gunzip(): magic, method.                                                *)
Magic ==
  /\ pc = "magic"
  /\ get_byte(3)
  /\ IF file.bad \in {"magic", "method"} THEN error("header")
                                         ELSE pc' = "flags" /\ cause' = cause
  /\ UNCHANGED <<file, bk, k, used, e, bl, bd, n, last, arena, mark>>

(* Flags, then time stamp, extra flags and OS.                             *)
BadFlags ==
  /\ pc = "flags" /\ file.bad = "flags"
  /\ get_byte(1)
  /\ error("header")
  /\ UNCHANGED <<file, bk, k, used, e, bl, bd, n, last, arena, mark>>

Flags ==
  /\ pc = "flags" /\ file.bad # "flags"
  /\ get_byte(7)
  /\ pc' = "extra"
  /\ UNCHANGED <<file, bk, k, used, e, bl, bd, n, last, arena, mark, cause>>

(* An optional field, skipped if it is there.                              *)
Skip(field, size, next) ==
  /\ pc = field
  /\ get_byte(size)
  /\ pc' = next
  /\ UNCHANGED <<file, bk, k, used, e, bl, bd, n, last, arena, mark, cause>>

SkipFields ==
  \/ Skip("extra", file.extra, "name")
  \/ Skip("name", file.name, "comment")
  \/ Skip("comment", file.comment, "inflate")

(* inflate(): the bit buffer is emptied.                                   *)
Inflate ==
  /\ pc = "inflate"
  /\ bk' = 0
  /\ pc' = "block"
  /\ UNCHANGED <<file, inptr, k, used, e, bl, bd, n, last, arena, mark, cause>>

(* gzip_mark() and inflate_block(): the last block flag, the type; the     *)
(* rest of the buffer goes back to the global one before the decoder for   *)
(* the type makes its copy.  A type 3 is an error.                         *)
Block(islast, type) ==
  /\ pc = "block"
  /\ Take(bk, 3, 3)
  /\ bk' = Left(bk, 3, 3)
  /\ k' = bk'
  /\ last' = islast
  /\ mark' = arena
  /\ \/ type # "invalid" /\ pc' = type /\ cause' = cause
     \/ type = "invalid" /\ error("data")
  /\ UNCHANGED <<file, e, bl, bd, n, arena>>

(* Mutant of Return: the block's tables are not released.                  *)
ReturnKeeps(bits) ==
  /\ bk' = bits
  /\ k' = 0 /\ e' = 0 /\ bl' = 0 /\ bd' = 0 /\ n' = 0
  /\ arena' = arena
  /\ pc' = IF last THEN "undo" ELSE "block"

(* A decoder returns: its buffer, after DUMPBITS, goes back to the global  *)
(* one, its locals are no more, and gzip_release() frees the tables.       *)
Return(bits) ==
  /\ bk' = bits
  /\ k' = 0 /\ e' = 0 /\ bl' = 0 /\ bd' = 0 /\ n' = 0
  /\ arena' = mark
  /\ pc' = IF last THEN "undo" ELSE "block"
-----------------------------------------------------------------------------
(* inflate_stored(): to the byte boundary, then the length ...             *)
Stored(len) ==
  LET aligned == k - (k % 8)
  IN  /\ pc = "stored"
      /\ get_byte(Bytes(aligned, 16))
      /\ used' = used + (k % 8) + 16
      /\ k' = Left(aligned, 16, 16)
      /\ n' = len
      /\ pc' = "nlen"
      /\ UNCHANGED <<file, bk, e, bl, bd, last, arena, mark, cause>>

(* ... its complement, which is compared before it is dumped ...           *)
NLen(same) ==
  /\ pc = "nlen"
  /\ Take(k, 16, 16)
  /\ k' = Left(k, 16, 16)
  /\ \/ same /\ pc' = "bytes" /\ cause' = cause
     \/ ~same /\ error("data")
  /\ UNCHANGED <<file, bk, e, bl, bd, n, last, arena, mark>>

(* ... and the bytes.                                                      *)
StoredByte ==
  /\ pc = "bytes" /\ n > 0
  /\ Take(k, 8, 8)
  /\ k' = Left(k, 8, 8)
  /\ n' = n - 1
  /\ UNCHANGED <<file, bk, e, bl, bd, last, arena, mark, pc, cause>>

StoredEnd ==
  /\ pc = "bytes" /\ n = 0
  /\ Return(k)
  /\ UNCHANGED <<file, inptr, used, last, mark, cause>>
-----------------------------------------------------------------------------
(* malloc() of the tables; error() if free_mem_end_ptr is reached.         *)
OutOfMemory(size) == arena + size >= ArenaSize
Full == error("memory") /\ arena' = arena
malloc(size) == ~OutOfMemory(size) /\ arena' = arena + size

(* inflate_codes() starts with a copy of the global buffer.                *)
Codes(lbits, dbits) ==
  /\ bl' = lbits /\ bd' = dbits
  /\ e' = lbits
  /\ k' = bk'
  /\ pc' = "lit"

(* inflate_fixed(): 7 and 5 bits; a distance code that is incomplete.      *)
Fixed(size) ==
  /\ pc = "fixed"
  /\ \/ malloc(size) /\ bk' = bk /\ Codes(7, 5) /\ cause' = cause
     \/ OutOfMemory(size) /\ Full /\ UNCHANGED <<bk, k, e, bl, bd>>
  /\ UNCHANGED <<file, inptr, used, n, last, mark>>

(* inflate_dynamic(): three counts of 5, 5 and 4 bits.                     *)
Counts(nb, good) ==
  /\ pc = "dynamic"
  /\ Take(k, 14, 14)
  /\ k' = Left(k, 14, 14)
  /\ n' = nb
  /\ \/ good /\ pc' = "border" /\ cause' = cause
     \/ ~good /\ error("data")
  /\ UNCHANGED <<file, bk, e, bl, bd, last, arena, mark>>

BitLength ==
  /\ pc = "border" /\ n > 0
  /\ Take(k, 3, 3)
  /\ k' = Left(k, 3, 3)
  /\ n' = n - 1
  /\ UNCHANGED <<file, bk, e, bl, bd, last, arena, mark, pc, cause>>

(* huft_build() makes the table of the bit lengths; a set that is not      *)
(* complete ends the decoding.  A set of zeros only is taken for complete, *)
(* and leaves no table: from there on the decoder reads what memory holds. *)
BitLengthTable(size, bits, result) ==
  /\ pc = "border" /\ n = 0
  /\ \/ /\ result = "complete" /\ malloc(size)
        /\ bl' = bits /\ e' = bits /\ pc' = "lens" /\ cause' = cause
     \/ /\ result = "complete" /\ OutOfMemory(size)
        /\ Full /\ UNCHANGED <<bl, e>>
     \/ result = "invalid" /\ error("data") /\ UNCHANGED <<bl, e, arena>>
     \/ result = "zeros" /\ pc' = "no table" /\ UNCHANGED <<bl, e, arena, cause>>
  /\ UNCHANGED <<file, inptr, bk, k, used, bd, n, last, mark>>

(* A code length, or a repeat code with x extra bits; too many are an      *)
(* error.                                                                  *)
Length(s, x) ==
  /\ pc = "lens" /\ s <= bl
  /\ Take(k, bl, s)
  /\ k' = Left(k, bl, s)
  /\ \/ x = 0 /\ UNCHANGED <<e, pc>>
     \/ x > 0 /\ e' = x /\ pc' = "repeat"
  /\ UNCHANGED <<file, bk, bl, bd, n, last, arena, mark, cause>>

Repeat(fits) ==
  /\ pc = "repeat"
  /\ Take(k, e, e)
  /\ k' = Left(k, e, e)
  /\ \/ fits /\ pc' = "lens" /\ cause' = cause
     \/ ~fits /\ error("data")
  /\ UNCHANGED <<file, bk, e, bl, bd, n, last, arena, mark>>

(* Mutant of DynamicTables: the local buffer is not written back.          *)
DynamicTablesStale(size, lbits, dbits, result) ==
  /\ pc = "lens"
  /\ bk' = bk
  /\ \/ /\ result = "complete" /\ malloc(size)
        /\ Codes(lbits, dbits) /\ cause' = cause
     \/ /\ result = "complete" /\ OutOfMemory(size)
        /\ Full /\ UNCHANGED <<bl, bd, e, k>>
     \/ result = "invalid" /\ error("data") /\ UNCHANGED <<bl, bd, e, k, arena>>
     \/ /\ result = "zeros"
        /\ pc' = "no table" /\ UNCHANGED <<bl, bd, e, k, arena, cause>>
  /\ UNCHANGED <<file, inptr, used, n, last, mark>>

(* All lengths are read: the buffer goes back, the two tables are built.   *)
(* An incomplete code ends in error() here, whatever follows it.           *)
DynamicTables(size, lbits, dbits, result) ==
  /\ pc = "lens"
  /\ bk' = k
  /\ \/ /\ result = "complete" /\ malloc(size)
        /\ Codes(lbits, dbits) /\ cause' = cause
     \/ /\ result = "complete" /\ OutOfMemory(size)
        /\ Full /\ UNCHANGED <<bl, bd, e, k>>
     \/ result = "invalid" /\ error("data") /\ UNCHANGED <<bl, bd, e, k, arena>>
     \/ /\ result = "zeros"
        /\ pc' = "no table" /\ UNCHANGED <<bl, bd, e, k, arena, cause>>
  /\ UNCHANGED <<file, inptr, used, n, last, mark>>
-----------------------------------------------------------------------------
(* inflate_codes(): a lookup of e bits finds a code that ends after s of   *)
(* them; what it stands for is `symbol', with x extra bits.                *)
Symbol(s, symbol, x) ==
  /\ pc = "lit" /\ s <= e
  /\ Take(k, e, s)
  /\ \/ symbol = "end" /\ Return(Left(k, e, s))
     \/ /\ symbol # "end"
        /\ k' = Left(k, e, s)
        /\ \/ symbol = "literal" /\ e' = bl /\ pc' = pc
           \/ symbol = "length" /\ e' = x /\ pc' = "length"
        /\ UNCHANGED <<bk, bl, bd, n, arena>>
  /\ UNCHANGED <<file, last, mark, cause>>

Distance(s, x) ==
  /\ pc = "dist" /\ s <= e
  /\ Take(k, e, s)
  /\ k' = Left(k, e, s)
  /\ e' = x
  /\ pc' = "distance"
  /\ UNCHANGED <<file, bk, bl, bd, n, last, arena, mark, cause>>

(* The code is longer: all e bits are dumped, and the next level's table   *)
(* looks at more of them.                                                  *)
NextLevel(bits) ==
  /\ pc \in {"lit", "dist"}
  /\ Take(k, e, e)
  /\ k' = Left(k, e, e)
  /\ e' = bits
  /\ UNCHANGED <<file, bk, bl, bd, n, last, arena, mark, pc, cause>>

(* e == 99: an unused code.  inflate_codes() returns 1.                    *)
Unused ==
  /\ pc \in {"lit", "dist"}
  /\ get_byte(Bytes(k, e))
  /\ error("data")
  /\ UNCHANGED <<file, bk, k, used, e, bl, bd, n, last, arena, mark>>

(* The extra bits, of a length or of the distance after it.                *)
Extra ==
  /\ pc \in {"length", "distance"}
  /\ Take(k, e, e)
  /\ k' = Left(k, e, e)
  /\ \/ pc = "length" /\ pc' = "dist" /\ e' = bd
     \/ pc = "distance" /\ pc' = "lit" /\ e' = bl
  /\ UNCHANGED <<file, bk, bl, bd, n, last, arena, mark, cause>>
-----------------------------------------------------------------------------
(* The end of inflate(): whole bytes still in the buffer are given back.   *)
Undo ==
  /\ pc = "undo"
  /\ bk' = bk % 8
  /\ inptr' = inptr - (bk \div 8)
  /\ pc' = "trailer"
  /\ UNCHANGED <<file, k, used, e, bl, bd, n, last, arena, mark, cause>>

(* The checksum and the length in the file are compared with the data's.   *)
(* They agree if they are right, and read from where they are.             *)
Agree == file.bad \notin {"crc", "length"} /\ inptr = HeaderSize(file) + file.data

(* decompress_kernel() does not look at what gunzip() returns.             *)
Trailer ==
  /\ pc = "trailer"
  /\ get_byte(8)
  /\ \/ Agree /\ pc' = "booted" /\ cause' = cause
     \/ ~Agree /\ error("trailer")
  /\ UNCHANGED <<file, bk, k, used, e, bl, bd, n, last, arena, mark>>
-----------------------------------------------------------------------------
(* How many bytes the next get_byte()s ask for, where the decoder is, and  *)
(* how many bits of the compressed data they are for: at least one bit of  *)
(* a code, all of the others.                                              *)
Asked ==
  CASE pc = "magic" -> 3
    [] pc = "flags" -> IF file.bad = "flags" THEN 1 ELSE 7
    [] pc = "extra" -> file.extra
    [] pc = "name" -> file.name
    [] pc = "comment" -> file.comment
    [] pc = "block" -> Bytes(bk, 3)
    [] pc = "stored" -> Bytes(k - (k % 8), 16)
    [] pc = "nlen" -> Bytes(k, 16)
    [] pc = "bytes" -> IF n > 0 THEN Bytes(k, 8) ELSE 0
    [] pc = "dynamic" -> Bytes(k, 14)
    [] pc = "border" -> IF n > 0 THEN Bytes(k, 3) ELSE 0
    [] pc = "lens" -> Bytes(k, bl)
    [] pc \in {"repeat", "lit", "length", "dist", "distance"} -> Bytes(k, e)
    [] pc = "trailer" -> 8
    [] OTHER -> 0

Meant ==
  CASE pc = "block" -> 3
    [] pc = "stored" -> (k % 8) + 16
    [] pc = "nlen" -> 16
    [] pc = "bytes" -> 8
    [] pc = "dynamic" -> 14
    [] pc = "border" -> 3
    [] pc \in {"lens", "lit", "dist"} -> 1
    [] pc \in {"repeat", "length", "distance"} -> e
    [] OTHER -> 0

(* Mutant of RanOut: get_byte() waits for more input.                      *)
RanOutWaits == ~Have(Asked) /\ UNCHANGED vars

(* fill_inbuf() when the image is used up: "ran out of input data".        *)
RanOut ==
  /\ ~Have(Asked)
  /\ used' = used + Meant
  /\ error("ran out")
  /\ UNCHANGED <<file, inptr, bk, k, e, bl, bd, n, last, arena, mark>>

(* while(1), the jump to the kernel, and whatever follows a lookup in a    *)
(* table that is not there.                                                *)
Stopped == pc \in {"halted", "booted", "no table"} /\ UNCHANGED vars

Results == {"complete", "invalid", "zeros"}

Next ==
  \/ Magic \/ BadFlags \/ Flags \/ SkipFields \/ Inflate
  \/ \E islast \in BOOLEAN, type \in {"stored", "fixed", "dynamic", "invalid"} :
       Block(islast, type)
  \/ \E len \in StoredLens : Stored(len)
  \/ \E same \in BOOLEAN : NLen(same)
  \/ StoredByte \/ StoredEnd
  \/ \E x, y \in Tables : Fixed(x + y)
  \/ \E nb \in LenCounts, good \in BOOLEAN : Counts(nb, good)
  \/ BitLength
  \/ \E x \in Tables, bits \in LitBits, result \in Results :
       bits <= 7 /\ BitLengthTable(x, bits, result)
  \/ \E s \in CodeBits, x \in {0, 2, 3, 7} : Length(s, x)
  \/ \E fits \in BOOLEAN : Repeat(fits)
  \/ \E x, y \in Tables, lbits \in LitBits, dbits \in DistBits, result \in Results :
       DynamicTables(x + y, lbits, dbits, result)
  \/ \E s \in CodeBits, x \in LenExtra, symbol \in {"literal", "end", "length"} :
       Symbol(s, symbol, x)
  \/ \E s \in CodeBits, x \in DistExtra : Distance(s, x)
  \/ \E bits \in SubBits : NextLevel(bits)
  \/ Unused \/ Extra
  \/ Undo \/ Trailer
  \/ RanOut
  \/ Stopped

Spec == Init /\ [][Next]_vars

(* Nothing interrupts the decompressor: it runs with interrupts off.       *)
FairSpec == Spec /\ WF_vars(Next)
-----------------------------------------------------------------------------
Header == {"magic", "flags", "extra", "name", "comment", "inflate"}
Decoding == {"stored", "nlen", "bytes", "fixed", "dynamic", "border", "lens",
             "repeat", "lit", "length", "dist", "distance"}

Phases == Header \union Decoding \union {"block", "undo", "trailer", "halted", "booted", "no table"}
Causes == {"none", "header", "data", "memory", "ran out", "trailer"}

Quantities ==
  /\ inptr \in Nat /\ used \in Nat
  /\ bk \in 0 .. 15 /\ k \in 0 .. 15
  /\ e \in 0 .. 13 /\ bl \in 0 .. 9 /\ bd \in 0 .. 6
  /\ n \in Nat
  /\ arena \in Nat /\ mark \in Nat

(* What a decoder leaves in the buffer never fills two bytes: the shift in *)
(* NEEDBITS stays below 16 and loses no bit of the 32 in b.                *)
TypeOK ==
  /\ file \in Files
  /\ Quantities
  /\ last \in BOOLEAN
  /\ pc \in Phases
  /\ cause \in Causes

(* Every bit of the bytes taken is either used or in the buffer, the one   *)
(* the running function works on: across blocks, locals and globals no bit *)
(* is lost or seen twice (lib/inflate.c:215-226 and each function's        *)
(* "local copies" and "restore").                                          *)
BitBudget ==
  /\ pc \in Decoding => 8 * (inptr - HeaderSize(file)) = used + k
  /\ pc \in {"block", "undo", "trailer"} =>
       8 * (inptr - HeaderSize(file)) = used + bk
  /\ pc = "trailer" => bk < 8

(* A kernel that is started came out of an image with a good header and a  *)
(* trailer that was compared, at its place: misc.c:277 ignores gunzip()'s  *)
(* result and relies on error() to never return.                           *)
BootsOnlyIfValid ==
  pc = "booted" =>
    /\ file.bad = "none"
    /\ used > 8 * (file.data - 1) /\ used <= 8 * file.data
    /\ inptr = FullSize(file)

(* A whole image with a good header and trailer, whose compressed data     *)
(* ends where it should, is not refused: looking ahead never runs out of   *)
(* input (the eight bytes of the trailer follow), and the trailer is found *)
(* (lib/inflate.c:985-991).                                                *)
AcceptsValid ==
  /\ file.bad = "none" /\ file.len = FullSize(file) /\ pc = "halted"
  => \/ cause = "data"
     \/ cause = "ran out" /\ used > 8 * file.data
     \/ cause = "trailer" /\ (used + 7) \div 8 # file.data

(* Blocks do not eat up the arena one after the other.                     *)
NeverOutOfMemory == cause # "memory"

(* Whatever the image holds, decompression ends (unless a table is missing *)
(* and what memory holds decides).                                         *)
Ends == <>(pc \in {"halted", "booted", "no table"})
=============================================================================
