----------------------------- MODULE MCLibrary ------------------------------
(***************************************************************************)
(* The calls of Library on small instances, and the pure functions of the  *)
(* headers, whose "work" is chosen at the start.                           *)
(***************************************************************************)
EXTENDS Library, TLC

VARIABLE work
-----------------------------------------------------------------------------
(* An argument is taken for a width, a precision or a number alike; int has*)
(* 4 bits, short 3, long long 5.                                           *)
FlagStrings == {<<>>, <<"-">>, <<"0">>, <<"#">>, <<"+">>, <<" ">>, <<"-", "0">>, <<"#", "0">>}
Sizes == {w \o p : w \in {<<>>, <<"1">>, <<"5">>}, p \in {<<>>, <<".">>, <<".", "3">>}} \union {<<"*">>, <<"*", ".", "*">>}
Conversions == {<<"%">> \o f \o w \o q \o <<c>> :
  f \in FlagStrings, w \in Sizes, q \in {<<>>, <<"h">>, <<"L">>}, c \in {"d", "u", "x", "X", "o"}}
Others == {<<"%">> \o f \o w \o <<c, "!">> : f \in {<<>>, <<"-">>, <<"0">>}, w \in Sizes, c \in {"s", "c", "p", "n"}}
Broken == {<<"a", "%">>, <<"%", "%">>, <<"%", "-">>, <<"%", "5", ".">>, <<"%", "k">>, <<"%", "l">>,
           <<"%", "5", "d", "d">>, <<"%", ".", "3", "s", "s">>, <<"a", "%", "d", "%">>, <<"%", "d", "%", "l", "x">>, <<"%", "1", "0", "Z", "i">>}
MCFormats == Conversions \union Others \union Broken
MCArguments == {<<k, m, k>> : k \in {-16, -8, -6, 0, 5}, m \in {-8, 3}}

(* Texts longer than a row and than the screen comes to print.             *)
MCTexts == {<<"a", "\n">>, <<"c", "d", "e">>, <<"\n", "\n">>, <<>>}
MCMessages == {<<>>, <<"y">>}

(* Every processor, and a 486 with every other difference.                 *)
Plain == [a20 |-> TRUE, ext |-> 1, old |-> FALSE, new |-> FALSE, kind |-> "486", level |-> 0, signature |-> 0, fpu |-> TRUE]
Processors ==
  [kind : {"386", "486"}, level : {0}, signature : {0}, fpu : BOOLEAN]
    \union [kind : {"cpuid"}, level : 0 .. 2, signature : {0, 27, 98, 255}, fpu : BOOLEAN]
MCMachines ==
  {[Plain EXCEPT !.kind = p.kind, !.level = p.level, !.signature = p.signature, !.fpu = p.fpu] : p \in Processors}
    \union {[Plain EXCEPT !.a20 = a, !.ext = e, !.old = o, !.new = n] :
              a \in BOOLEAN, e \in 0 .. 2, o \in BOOLEAN, n \in BOOLEAN}
-----------------------------------------------------------------------------
Bytes == INSTANCE ByteOrder WITH Byte <- 3
Inflate == INSTANCE InflateTables
Signals == INSTANCE SigInfo WITH SI_PAD_SIZE <- 8
Codes == INSTANCE Encodings WITH
  PAGE_SHIFT <- 3, AddressBits <- 8, MINORBITS <- 3,
  _IOC_NRBITS <- 3, _IOC_TYPEBITS <- 3, _IOC_SIZEBITS <- 4, _IOC_DIRBITS <- 2,
  SUBCMDSHIFT <- 3, SWP_TYPEBITS <- 6, SWP_OFFSETBITS <- 4
Clock == INSTANCE Times

(* 9 bits for a word, a quarter of them for the kernel; pages of 4 bytes, a*)
(* hole of 16.                                                             *)
Kernel == INSTANCE AddressSpace WITH
  Word <- 512, PAGE_SHIFT <- 2, PAGE_OFFSET <- 384, VMALLOC_OFFSET <- 16, PGDIR_SHIFT <- 5, FIXADDR_TOP <- 504
Sets == INSTANCE WordSets WITH BPW <- 2

BytesWork ==
  [1 .. 2 -> 0 .. 2] \union [1 .. 4 -> 0 .. 2]
    \union {m \in [1 .. 8 -> 0 .. 2] : \A n \in 3 .. 8 : m[n] = (m[n - 1] + m[n - 2] + n) % 3}

Job(of, args) == {[of |-> of, arg |-> arg] : arg \in args}

(* One byte of any value, and several of few.                              *)
ByteStrings ==
  {<<b>> : b \in SUBSET (0 .. 7)} \union
    UNION {[1 .. n -> {{}, {0}, {7}, {1, 3, 4}, 0 .. 7}] : n \in {0, 2, 3}}

InflateWork ==
  Job("sum", ByteStrings) \union Job("length", 3..258)
    \union Job("distance", (1..600) \union {2^k + d : k \in 9..14, d \in {0, 1, 2, 255}} \union 24570..24580 \union 32760..32768)

KernelWork ==
  Job("areas", {4 * n + r : n \in 0..20, r \in {0, 3}} \X (0..6))
    \union Job("address", (0..511) \X {0, 31, 32, 72}) \union Job("signature", {0, 1, 300, 383, 384, 500, 508} \X (1..4))

CodesWork ==
  UNION {Job("ffs", {{}} \union {{b} \union m : b \in 0 .. 31, m \in {{}, {31}, {8, 9, 16}, {0, 1}, {13, 30}}}),
         Job("div", {k * 256 + r : k \in {0, 1, 2, 9, 10, 16, 99, 255}, r \in {0, 1, 9, 128, 255}} \X {1, 2, 3, 7, 8, 10, 16, 255}),
         Job("hweight", 0 .. 300), Job("hweight32", {0, 1, 3, 65535, 65536, 1431655765, 2147483647, 1515870810}),
         Job("get_order", 0 .. 255), Job("char", -128 .. 255), Job("tss", (0 .. 4) \X (0 .. 4)),
         Job("device", (0 .. 7) \X (0 .. 7)), Job("quota", (0 .. 3) \X (0 .. 7)),
         Job("ioctl", (0 .. 3) \X {0, 5, 7} \X {0, 2, 7} \X {0, 9, 15}),
         Job("swap", {0, 1, 2, 31, 63} \X {0, 1, 7, 15})}

ClockWork ==
  UNION {Job("timespec", {-1, 0, 1, 59, 21474835, 21474836, 2147483647} \X
                         {0, 1, 9999999, 10000000, 10000001, 500000000, 990000000, 990000001, 999999999}),
         Job("jiffies", (0 .. 250) \union (2147483440 .. 2147483646)),
         Job("date", {<<1969 + y, m, d>> : y \in {1, 2, 3, 4, 30, 31, 32, 67}, m \in {1, 2, 3, 6, 12}, d \in {1, 28, 29, 30, 31}}
                     \intersect {<<y, m, d>> \in (1970 .. 2036) \X (1 .. 12) \X (1 .. 31) : d <= Clock!MonthLength(y, m)}),
         Job("load", {0, 1, 700, 2048, 5000, 100000} \X {0, 2048, 4096, 20480}),
         Job("ticks", (0 .. 201) \union {99999, 2147483647})}

SmallSets(n) == [1 .. n -> {{}, {0}, {1}, {0, 1}}]
SetsWork ==
  UNION {[old : SmallSets(n), a : SmallSets(n), b : SmallSets(n)] : n \in 1 .. 2} \union
  {[old |-> [i \in 1 .. n |-> o], a |-> [i \in 1 .. n |-> a], b |-> [i \in 1 .. n |-> b[1 + (i % 2)]]] :
     n \in 3 .. 9, o \in SUBSET {0, 1}, a \in SUBSET {0, 1}, b \in SmallSets(2)}

Pure == {"bytes", "inflate", "signals", "kernel", "codes", "clock", "sets"}
Work(p) ==
  CASE p = "bytes" -> BytesWork [] p = "inflate" -> InflateWork
    [] p = "signals" -> Signals!AllCodes [] p = "kernel" -> KernelWork [] p = "codes" -> CodesWork
    [] p = "clock" -> ClockWork [] p = "sets" -> SetsWork [] OTHER -> {<<>>}
-----------------------------------------------------------------------------
MCInit ==
  /\ part \in {"user", "image", "format", "display", "entry"} \union Pure
  /\ work \in Work(part)
  /\ Begin

MCSpec == MCInit /\ [][Next /\ UNCHANGED work]_<<vars, work>> /\ Fairness
-----------------------------------------------------------------------------
(* What is computed is what the interface says: byte orders, check sums,   *)
(* tables, classes, encodings, addresses, times and sets (swab.h,          *)
(* inflate.c, ctype.h, siginfo.h, kdev_t.h, page.h, time.h, signal.h).     *)
Agrees ==
  /\ part = "bytes" => Bytes!Agrees(work)
  /\ part = "inflate" => Inflate!Agrees(work)
  /\ part = "signals" => Signals!Agrees(work)
  /\ part = "kernel" => Kernel!Agrees(work)
  /\ part = "codes" => Codes!Agrees(work)
  /\ part = "clock" => Clock!Agrees(work)
  /\ part = "sets" => Sets!Agrees(work.a, work.b, work.old)
=============================================================================
