------------------------------ MODULE WordSets ------------------------------
(***************************************************************************)
(* The sets the headers keep as bits of words: signal sets (linux/signal.h)*)
(* of any number of words, file descriptor sets (asm/posix_types.h) and    *)
(* capabilities (linux/capability.h), one word.  A word is the set of its  *)
(* bits; a set of n words is a sequence of them.  A destination that is    *)
(* not written keeps what it had.                                          *)
(***************************************************************************)
EXTENDS Integers, Sequences, SequencesExt, Functions

CONSTANT BPW  (* bits of a word                                            *)

Bits == 0 .. BPW - 1
Ones == Bits

_sig_or(x, y) == x \union y
_sig_and(x, y) == x \intersect y
_sig_nand(x, y) == x \ y
_sig_not(x) == Bits \ x

(* Mutant of Done: the switch takes the words before the loop's last.      *)
DoneShort(n) == {i \in 1..n : i <= 4 * (n \div 4) \/ (n % 4 > 0 /\ i > n - (n % 4) /\ n % 4 # 3)}

(* The words the loop by four and the switch over the rest write: the      *)
(* cases of a binary operation each write all of the rest, those of a unary*)
(* one fall through from the last word to the first.                       *)
Done(n) == {4 * i + j : <<i, j>> \in (0 .. (n \div 4) - 1) \X (1..4)}
           \union {4 * (n \div 4) + j : j \in 1 .. n % 4}

(* _SIG_SET_BINOP, _SIG_SET_OP: the words that are written become "words"; *)
(* r is what the destination was, for a unary operation the operand.       *)
BinOp(r, words) == [i \in DOMAIN r |-> IF i \in Done(Len(r)) THEN words[i] ELSE r[i]]
UnOp(set, words) == [i \in DOMAIN set |-> IF i \in Done(Len(set)) THEN words[i] ELSE set[i]]

sigorsets(r, a, b) == BinOp(r, [i \in DOMAIN r |-> _sig_or(a[i], b[i])])
sigandsets(r, a, b) == BinOp(r, [i \in DOMAIN r |-> _sig_and(a[i], b[i])])
signandsets(r, a, b) == BinOp(r, [i \in DOMAIN r |-> _sig_nand(a[i], b[i])])
signotset(set) == UnOp(set, [i \in DOMAIN set |-> _sig_not(set[i])])

(* memset of all words, or the cases of one and two words.                 *)
Fill(set, word) == [i \in DOMAIN set |-> word]
sigemptyset(set) == Fill(set, {})
sigfillset(set) == Fill(set, Ones)

(* The low word with a mask; the init functions also write the others.     *)
sigaddsetmask(set, mask) == [set EXCEPT ![1] = @ \union mask]
sigdelsetmask(set, mask) == [set EXCEPT ![1] = @ \ mask]
sigtestsetmask(set, mask) == set[1] \intersect mask # {}
siginitset(set, mask) == [Fill(set, {}) EXCEPT ![1] = mask]
siginitsetinv(set, mask) == [Fill(set, Ones) EXCEPT ![1] = Bits \ mask]

(* btsl, btrl, btl address memory: the word of a descriptor and its bit.   *)
WordOf(fd) == 1 + (fd \div BPW)
__FD_SET(fd, set) == [set EXCEPT ![WordOf(fd)] = @ \union {fd % BPW}]
__FD_CLR(fd, set) == [set EXCEPT ![WordOf(fd)] = @ \ {fd % BPW}]
__FD_ISSET(fd, set) == (fd % BPW) \in set[WordOf(fd)]
__FD_ZERO(set) == Fill(set, {})

CAP_TO_MASK(x) == {x}
cap_raise(c, flag) == c \union CAP_TO_MASK(flag)
cap_lower(c, flag) == c \ CAP_TO_MASK(flag)
cap_raised(c, flag) == c \intersect CAP_TO_MASK(flag) # {}
cap_combine(a, b) == a \union b
cap_intersect(a, b) == a \intersect b
cap_drop(a, drop) == a \intersect (Bits \ drop)
cap_invert(c) == Bits \ c
cap_isclear(c) == c = {}
cap_issubset(a, set) == cap_isclear(a \intersect (Bits \ set))
-----------------------------------------------------------------------------
(* The set that a sequence of words stands for.                            *)
SetOf(words) == {BPW * (i - 1) + b : <<i, b>> \in {ib \in (DOMAIN words) \X Bits : ib[2] \in words[ib[1]]}}
All(words) == 0 .. BPW * Len(words) - 1

(* Whatever the number of words, every operation on signal sets is the one *)
(* on sets; nothing of an old destination is left (signal.h:38-178).       *)
SignalsAgree(r, a, b) ==
  /\ SetOf(sigorsets(r, a, b)) = SetOf(a) \union SetOf(b)
  /\ SetOf(sigandsets(r, a, b)) = SetOf(a) \intersect SetOf(b)
  /\ SetOf(signandsets(r, a, b)) = SetOf(a) \ SetOf(b)
  /\ SetOf(signotset(a)) = All(a) \ SetOf(a)
  /\ SetOf(sigemptyset(r)) = {} /\ SetOf(sigfillset(r)) = All(r)
  /\ SetOf(siginitset(r, a[1])) = a[1] /\ SetOf(siginitsetinv(r, a[1])) = All(r) \ a[1]
  /\ SetOf(sigaddsetmask(a, b[1])) = SetOf(a) \union b[1]
  /\ SetOf(sigdelsetmask(a, b[1])) = SetOf(a) \ b[1]
  /\ sigtestsetmask(a, b[1]) <=> SetOf(a) \intersect b[1] # {}

(* A descriptor is a member after __FD_SET and not after __FD_CLR, and no  *)
(* other changes, whatever word it is in (posix_types.h:49-76).            *)
DescriptorsAgree(set) ==
  /\ SetOf(__FD_ZERO(set)) = {}
  /\ \A fd \in All(set) :
       /\ SetOf(__FD_SET(fd, set)) = SetOf(set) \union {fd}
       /\ SetOf(__FD_CLR(fd, set)) = SetOf(set) \ {fd}
       /\ __FD_ISSET(fd, set) <=> fd \in SetOf(set)

(* Capabilities: what was dropped is gone, what was raised is there, and a *)
(* subset is a subset (capability.h:302-341).                              *)
CapabilitiesAgree(a, b) ==
  /\ cap_drop(a, b) = a \ b /\ cap_issubset(cap_drop(a, b), a)
  /\ cap_issubset(a, b) <=> a \subseteq b
  /\ cap_combine(cap_intersect(a, b), cap_drop(a, b)) = a
  /\ cap_invert(cap_invert(a)) = a /\ cap_isclear(cap_intersect(a, cap_invert(a)))
  /\ \A x \in Bits :
       /\ cap_raised(cap_raise(a, x), x) /\ ~cap_raised(cap_lower(a, x), x)
       /\ cap_lower(cap_raise(a, x), x) = cap_lower(a, x)

Agrees(a, b, r) ==
  /\ SignalsAgree(r, a, b)
  /\ DescriptorsAgree(a)
  /\ CapabilitiesAgree(a[1], b[1])
=============================================================================
