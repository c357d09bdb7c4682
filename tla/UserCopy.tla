------------------------------ MODULE UserCopy ------------------------------
(***************************************************************************)
(* include/asm/uaccess.h: transfers between the kernel and user memory     *)
(* that may fault at any byte and go on in fixup code.                     *)
(*                                                                         *)
(* One transfer is followed instruction by instruction.  Other threads of  *)
(* the process map and unmap its pages meanwhile.                          *)
(***************************************************************************)
EXTENDS Integers, Sequences

CONSTANTS
  Word,   (* 2^32 in the code: addresses are below Word                    *)
  Limit,  (* current->addr_limit.seg                                       *)
  Bases,  (* where user buffers begin                                      *)
  Sizes   (* in bytes                                                      *)

Kinds == {"generic", "constant", "single"}

(* __get_user and __put_user take 1, 2 or 4 bytes, and there is no inline  *)
(* code for a checked __get_user or a checked generic copy.                *)
Jobs ==
  {j \in [kind : Kinds, from : BOOLEAN, checked : BOOLEAN, n : Sizes] :
     /\ j.kind = "generic" => ~j.checked
     /\ j.kind = "single" => j.n \in {1, 2, 4} /\ ~(j.from /\ j.checked)}

ParametersOK ==
  /\ Word \in Nat /\ Limit \in 0 .. Word - 1 /\ Bases \subseteq 0 .. Word - 1
  /\ Sizes \subseteq 0 .. Word - 1

EFAULT == 14
Old == -1
Zero == -2
Margin == 4   (* bytes behind the destination that are watched              *)

VARIABLES
  job, base,
  mapped,         (* so many bytes from the user's buffer on do not fault  *)
  pc, k,          (* k: which of the moves after rep movsl                 *)
  ecx, esi, edi,  (* the last two as offsets in their buffers              *)
  dst,            (* where each byte of the destination comes from         *)
  ret,
  touched         (* user offsets accessed (history)                       *)

vars == <<job, base, mapped, pc, k, ecx, esi, edi, dst, ret, touched>>

Rest == job.n % 4
Zeroing == job.from

(* Up to a byte of the buffer, or what is behind it as well.               *)
Extents == 0 .. job.n \union {job.n + Margin}

Init ==
  /\ job \in Jobs /\ base \in Bases
  /\ mapped \in Extents
  /\ pc = "start" /\ k = 1
  /\ ecx = job.n \div 4 /\ esi = 0 /\ edi = 0
  /\ dst = [i \in 0 .. job.n + Margin |-> Old]
  /\ ret = 0
  /\ touched = {}
-----------------------------------------------------------------------------
(* Mutants of RangeOk: the carry is dropped; the last byte is refused.     *)
RangeOkNoCarry(addr, size) == (addr + size) % Word <= Limit
RangeOkStrict(addr, size) == addr + size < Word /\ (addr + size) % Word < Limit

(* addl; sbbl: the carry; cmpl; sbbl: the sum against the limit.           *)
RangeOk(addr, size) == addr + size < Word /\ (addr + size) % Word <= Limit

(* access_ok(), and -EFAULT or the whole size if it fails.                 *)
Check ==
  /\ pc = "start"
  /\ IF job.checked /\ ~RangeOk(base, job.n)
       THEN pc' = "done" /\ ret' = (IF job.kind = "single" THEN -EFAULT ELSE job.n)
       ELSE pc' = (IF job.kind = "single" THEN "mov" ELSE "movsl") /\ ret' = ret
  /\ UNCHANGED <<job, base, mapped, k, ecx, esi, edi, dst, touched>>

(* The next w bytes of the user's buffer.                                  *)
UserBytes(w) == LET o == IF job.from THEN esi ELSE edi IN o .. o + w - 1
Faults(w) == \E o \in UserBytes(w) : o >= mapped

(* movsl, movsw, movsb or mov of w bytes.                                  *)
Move(w) ==
  /\ ~Faults(w)
  /\ dst' = [i \in DOMAIN dst |-> IF i \in edi .. edi + w - 1 THEN esi + (i - edi) ELSE dst[i]]
  /\ esi' = esi + w /\ edi' = edi + w
  /\ touched' = touched \union UserBytes(w)

(* stos of w bytes: the destination is the kernel's.                       *)
Clear(w) ==
  /\ dst' = [i \in DOMAIN dst |-> IF i \in edi .. edi + w - 1 THEN Zero ELSE dst[i]]
  /\ edi' = edi + w

(* Fixup code for w bytes that were not copied.                            *)
Fixup(w) ==
  /\ IF Zeroing THEN Clear(w) ELSE UNCHANGED <<dst, edi>>
  /\ UNCHANGED <<esi, touched>>

(* Mutant of Single: no entry in the exception table.                      *)
SingleRetried ==
  /\ pc = "mov"
  /\ \/ Move(job.n) /\ ret' = 0 /\ pc' = "done"
     \/ Faults(job.n) /\ UNCHANGED <<dst, esi, edi, touched, ret, pc>>
  /\ UNCHANGED <<job, base, mapped, k, ecx>>

Single ==
  /\ pc = "mov"
  /\ pc' = "done"
  /\ \/ Move(job.n) /\ ret' = 0
     \/ Faults(job.n) /\ Fixup(job.n) /\ ret' = -EFAULT
  /\ UNCHANGED <<job, base, mapped, k, ecx>>

(* Mutant of TailMoves: a word is moved for the last byte.                 *)
TailMovesWide(r) == IF r = 0 THEN <<>> ELSE IF r = 3 THEN <<2, 1>> ELSE <<2>>

(* What a constant copy moves after rep movsl.                             *)
TailMoves(r) == IF r = 3 THEN <<2, 1>> ELSE IF r = 0 THEN <<>> ELSE <<r>>

(* Bytes from the k-th of these moves on.                                  *)
TailBytes(m) == IF Rest = 3 /\ m = 2 THEN 1 ELSE Rest

(* Mutants of Residue: the moves after rep movsl forgotten; the double     *)
(* word that was copied last is counted.                                   *)
ResidueOfLongs == 4 * ecx
ResidueOneMore == 4 * (ecx + 1) + Rest

(* lea 0(%3,%0,4); shl $2, addl $r.                                        *)
Residue == 4 * ecx + Rest

(* Mutants of Resume: the last move goes on at itself; the copy that does  *)
(* not zero has the labels of the other.                                   *)
ResumeLast(m) ==
  IF job.kind = "constant" /\ Zeroing /\ Rest = 3 THEN [pc |-> "tail", k |-> 2] ELSE [pc |-> "end", k |-> 3]
ResumeBoth(m) ==
  IF job.kind = "constant" /\ Rest = 3 /\ m < 2 THEN [pc |-> "tail", k |-> 2] ELSE [pc |-> "end", k |-> 3]

(* Where the fixup of move m (0: rep movsl) goes on: behind the last move, *)
(* but label 2 of the zeroing copy with a rest of 3 is the last move.      *)
Resume(m) ==
  IF job.kind = "constant" /\ Zeroing /\ Rest = 3 /\ m < 2
    THEN [pc |-> "tail", k |-> 2]
    ELSE [pc |-> "end", k |-> 3]

(* 0: rep movsl                                                            *)
Movsl ==
  /\ pc = "movsl" /\ ecx > 0
  /\ \/ Move(4) /\ ecx' = ecx - 1 /\ UNCHANGED <<pc, k>>
     \/ Faults(4) /\ Fixup(Residue) /\ ecx' = Residue /\ pc' = Resume(0).pc /\ k' = Resume(0).k
  /\ UNCHANGED <<job, base, mapped, ret>>

MovslEnds ==
  /\ pc = "movsl" /\ ecx = 0
  /\ IF job.kind = "generic" THEN pc' = "movsb" /\ ecx' = Rest ELSE pc' = "tail" /\ ecx' = ecx
  /\ UNCHANGED <<job, base, mapped, k, esi, edi, dst, ret, touched>>

(* 1: rep movsb of the generic copy.                                       *)
Movsb ==
  /\ pc = "movsb" /\ ecx > 0
  /\ \/ Move(1) /\ ecx' = ecx - 1 /\ pc' = pc
     \/ Faults(1) /\ Fixup(ecx) /\ ecx' = ecx /\ pc' = "end"
  /\ UNCHANGED <<job, base, mapped, k, ret>>

(* 1:, 2: movsw and movsb of the constant copy.                            *)
Tail1 ==
  /\ pc = "tail" /\ k <= Len(TailMoves(Rest))
  /\ \/ Move(TailMoves(Rest)[k]) /\ k' = k + 1 /\ UNCHANGED <<pc, ecx>>
     \/ /\ Faults(TailMoves(Rest)[k]) /\ Fixup(TailBytes(k))
        /\ ecx' = ecx + TailBytes(k) /\ pc' = Resume(k).pc /\ k' = Resume(k).k
  /\ UNCHANGED <<job, base, mapped, ret>>

(* The residue in %ecx is the result.                                      *)
Return ==
  /\ \/ pc = "end"
     \/ pc = "movsb" /\ ecx = 0
     \/ pc = "tail" /\ k > Len(TailMoves(Rest))
  /\ pc' = "done" /\ ret' = ecx
  /\ UNCHANGED <<job, base, mapped, k, ecx, esi, edi, dst, touched>>

(* Another thread maps or unmaps a part of the buffer.                     *)
Remap ==
  /\ pc # "done"
  /\ mapped' \in Extents \ {mapped}
  /\ UNCHANGED <<job, base, pc, k, ecx, esi, edi, dst, ret, touched>>

Step == Check \/ Single \/ Movsl \/ MovslEnds \/ Movsb \/ Tail1 \/ Return
Done == pc = "done" /\ UNCHANGED vars
Next == Step \/ Remap \/ Done

Spec == Init /\ [][Next]_vars /\ WF_vars(Step)
-----------------------------------------------------------------------------
(* After a fault before its last move the zeroing constant copy with a     *)
(* rest of 3 goes on at that move.  The byte it is for has been cleared and*)
(* counted: one more is moved, or cleared and counted again.               *)
Overshoots == job.kind = "constant" /\ Zeroing /\ Rest = 3
Twice == IF Overshoots THEN 1 ELSE 0
Overshot == Overshoots /\ ecx >= 3 /\ edi = job.n + 1

TypeOK ==
  /\ job \in Jobs /\ base \in Bases /\ mapped \in Extents
  /\ pc \in {"start", "mov", "movsl", "movsb", "tail", "end", "done"}
  /\ k \in 1 .. 3 /\ ecx \in 0 .. job.n + Twice
  /\ esi \in 0 .. job.n + Margin /\ edi \in 0 .. job.n + Margin
  /\ dst \in [0 .. job.n + Margin -> {Old, Zero} \union 0 .. job.n + Margin]
  /\ ret \in {-EFAULT} \union 0 .. job.n + Twice
  /\ touched \subseteq 0 .. job.n + Margin

(* The result says how much was not copied, everything before it was, and  *)
(* what is missing was zeroed in a kernel buffer and left alone in the     *)
(* user's (uaccess.h:254-302).  A copy that overshot may have counted one  *)
(* byte twice, and no other copy has (uaccess.h:496-505).                  *)
Refused == job.checked /\ ~RangeOk(base, job.n)
Missing == IF ret = -EFAULT THEN job.n ELSE ret
Told(missing) == \A i \in 0 .. job.n - 1 :
  dst[i] = IF i < job.n - missing THEN i ELSE IF Zeroing THEN Zero ELSE Old
Accounted ==
  pc = "done" /\ ~Refused => Told(Missing) \/ (Overshot /\ dst[job.n] = Zero /\ Told(ret - 1))

(* Nothing is written behind the destination, whatever faults when, but one*)
(* byte by a copy that overshot (uaccess.h:496-505).                       *)
Inside == \A i \in DOMAIN dst : i >= job.n => dst[i] = Old \/ (Overshot /\ i = job.n)

(* A checked transfer touches user addresses only, wrap-around included    *)
(* (uaccess.h:39-46).                                                      *)
UserOnly == job.checked => \A o \in touched : base + o < Limit

(* A buffer in the user's part, up to its last byte, is not refused        *)
(* (uaccess.h:39-46).                                                      *)
AcceptsUser == pc = "done" /\ Refused => base + job.n > Limit

(* A transfer ends although its pages come and go.                         *)
Ends == <>(pc = "done")
=============================================================================
