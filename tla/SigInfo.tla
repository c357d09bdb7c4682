------------------------------ MODULE SigInfo -------------------------------
(***************************************************************************)
(* What tells the receiver of a signal about its sender: the siginfo of    *)
(* include/asm/siginfo.h, its codes and copy_siginfo().  The structure is a*)
(* sequence of words, three before a union and SI_PAD_SIZE in it; a code is*)
(* the set of its bits.                                                    *)
(***************************************************************************)
EXTENDS Integers, FiniteSets, Sequences

CONSTANT SI_PAD_SIZE

Size == 3 + SI_PAD_SIZE

(* The words of the union that each of its members has.                    *)
_sifields ==
  [_kill |-> 0..1, _timer |-> 0..1, _rt |-> 0..2, _sigchld |-> 0..4, _sigfault |-> {0}, _sigpoll |-> 0..1]

(* A small int as bits, with its sign, and T << k.                         *)
Bits(n) == {b \in 0..31 : ((n % 65536) \div 2^(IF b < 16 THEN b ELSE 15)) % 2 = 1}
Shl(T, k) == {b + k : b \in {d \in T : d + k <= 31}}

__SI_MASK == 16..31
__SI_KILL == {}
__SI_TIMER == Shl(Bits(1), 16)
__SI_POLL == Shl(Bits(2), 16)
__SI_FAULT == Shl(Bits(3), 16)
__SI_CHLD == Shl(Bits(4), 16)
__SI_RT == Shl(Bits(5), 16)

(* T is a type as above, moved once already.                               *)
__SI_CODE(T, N) == Shl(T, 16) \union (Bits(N) \intersect 0..15)

SI_USER == Bits(0)
SI_KERNEL == Bits(128)
SI_TIMER == __SI_CODE(__SI_TIMER, -2)
SI_QUEUE == Bits(-1)
Others == {Bits(-3), Bits(-4), Bits(-5)}  (* SI_MESGQ, SI_ASYNCIO, SI_SIGIO   *)

(* (type|1), (type|2), ... of a signal with n codes.                       *)
Numbered(type, n) == {type \union Bits(i) : i \in 1..n}
NSIG ==
  [ILL |-> Numbered(__SI_FAULT, 8), FPE |-> Numbered(__SI_FAULT, 8), SEGV |-> Numbered(__SI_FAULT, 2),
   BUS |-> Numbered(__SI_FAULT, 3), TRAP |-> Numbered(__SI_FAULT, 2),
   CLD |-> Numbered(__SI_CHLD, 6), POLL |-> Numbered(__SI_POLL, 6)]

Negative(code) == 31 \in code
SI_FROMUSER(code) == Negative(code) \/ code = {}
SI_FROMKERNEL(code) == ~SI_FROMUSER(code)

(* Mutant of copy_siginfo: the member of the POSIX signals is taken for    *)
(* the largest.                                                            *)
copy_siginfoShort(to, from, code) ==
  [i \in 0 .. Size - 1 |-> IF Negative(code) \/ i < 3 + Cardinality(_sifields._rt) THEN from[i] ELSE to[i]]

(* All of it, or the first three words and the size of _sigchld.           *)
copy_siginfo(to, from, code) ==
  [i \in 0 .. Size - 1 |-> IF Negative(code) \/ i < 3 + Cardinality(_sifields._sigchld) THEN from[i] ELSE to[i]]
-----------------------------------------------------------------------------
(* The members a code may come with: what the kernel fills by its type, and*)
(* any for those a process may choose.                                     *)
MembersOf(code) ==
  CASE Negative(code) -> DOMAIN _sifields \union {"_pad"}
    [] code = SI_TIMER -> {"_timer"}
    [] code \in NSIG.CLD -> {"_sigchld"}
    [] code \in NSIG.POLL -> {"_sigpoll"}
    [] code \in NSIG.ILL -> {"_sigfault"}
    [] OTHER -> {"_kill", "_rt"}
WordsOf(member) == IF member = "_pad" THEN 0 .. SI_PAD_SIZE - 1 ELSE _sifields[member]

(* Whatever a code comes with arrives, and words that are not copied keep  *)
(* what they held (siginfo.h:219-226).                                     *)
AllArrives(code) ==
  LET from == [i \in 0 .. Size - 1 |-> <<"from", i>>]
      to == [i \in 0 .. Size - 1 |-> <<"to", i>>]
      copy == copy_siginfo(to, from, code)
  IN /\ \A i \in 0..2 : copy[i] = from[i]
     /\ \A m \in MembersOf(code) : \A w \in WordsOf(m) : copy[3 + w] = from[3 + w]
     /\ \A i \in 0 .. Size - 1 : copy[i] \in {from[i], to[i]}

(* A type set in the upper half tells which member is meant, and only a    *)
(* code without one can be a process's own.  The timer's code has lost its *)
(* type: __SI_CODE moves it out of the word (siginfo.h:79-112).            *)
TypeTold(code) ==
  LET type == code \intersect __SI_MASK
  IN /\ code \in NSIG.CLD => type = __SI_CHLD
     /\ code \in NSIG.POLL => type = __SI_POLL
     /\ code \in NSIG.ILL \union NSIG.FPE \union NSIG.SEGV \union NSIG.BUS \union NSIG.TRAP => type = __SI_FAULT
     /\ code = SI_TIMER => type = __SI_KILL
     /\ type \in {__SI_TIMER, __SI_POLL, __SI_FAULT, __SI_CHLD, __SI_RT} => SI_FROMKERNEL(code)
     /\ SI_FROMUSER(code) = (code \in {SI_USER, SI_QUEUE} \union Others)

AllCodes == {SI_USER, SI_KERNEL, SI_TIMER, SI_QUEUE} \union Others \union UNION {NSIG[s] : s \in DOMAIN NSIG}

(* Both, and the general codes differ from each other and from those of    *)
(* the signals.                                                            *)
Agrees(code) ==
  /\ AllArrives(code) /\ TypeTold(code)
  /\ Cardinality({SI_USER, SI_KERNEL, SI_TIMER, SI_QUEUE} \union Others) = 7
  /\ \A s \in DOMAIN NSIG : NSIG[s] \intersect ({SI_USER, SI_KERNEL, SI_TIMER, SI_QUEUE} \union Others) = {}
=============================================================================
