------------------------------- MODULE Setup -------------------------------
(***************************************************************************)
(* arch/i386/boot/setup.S and video.S, from `start' to the jump into the   *)
(* 32 bit code: the signature, the parameters, the move of the system, the *)
(* A20 line, protected mode.                                               *)
(*                                                                         *)
(* Memory is counted in units, mem[u] says where the content of unit u was *)
(* loaded.  The keyboard controller runs beside the CPU: it takes bytes    *)
(* out of its input buffer (ibf) when it likes, and keys fill its output   *)
(* buffer (obf).                                                           *)
(***************************************************************************)
EXTENDS Integers

CONSTANTS
  Chunk,     (* units in 0x100 paragraphs: what do_move copies in one turn;*)
             (* the first destination is segment 0x100                     *)
  SysStart,  (* start_sys_seg                                              *)
  InitStart, (* INITSEG: boot sector, parameters and setup itself          *)
  Polls,     (* how often empty_8042 reads the status before it gives up   *)
  Words,     (* a word of memory has so many values                        *)
  MaxKeys    (* bound: keys pressed                                        *)

(* "... assume start_sys_seg > 0x200, so we will perhaps read one page     *)
(* more than needed": setup.S:291.                                         *)
ASSUME LayoutOK ==
  /\ Chunk \in Nat /\ Chunk > 0
  /\ SysStart \in Nat /\ SysStart >= 2 * Chunk
  /\ InitStart \in Nat /\ InitStart > SysStart
ASSUME CountsOK == Polls \in Nat /\ Polls > 1 /\ Words \in Nat /\ Words > 1 /\ MaxKeys \in Nat

(* sig: setup was read right; mda: a monochrome adapter; disk1: there is a *)
(* second disk; longtable: a feature table of 14 bytes or more; kbc: there *)
(* is a keyboard controller; fast: port 0x92 switches A20.                 *)
Machines == [sig : BOOLEAN, mda : BOOLEAN, disk1 : BOOLEAN,
             longtable : BOOLEAN, kbc : BOOLEAN, fast : BOOLEAN]

VARIABLES
  machine,
  pc,
  intr,    (* interrupts are on                                            *)
  mem,
  es, bx,  (* next destination and source of the move                      *)
  cx,      (* polls left                                                   *)
  return,  (* where empty_8042 returns to                                  *)
  gaveUp,  (* the last call of empty_8042 gave up (history)                *)
  ax,      (* the word a20_wait writes at 0:0x200                          *)
  high,    (* what is in memory 1M above it                                *)
  obf, ibf,
  inp,     (* what is in the controller's input buffer                     *)
  expect,  (* the controller has the command 0xD1                          *)
  a20,     (* the line is on                                               *)
  keys     (* keys pressed                                                 *)

cpu == <<pc, intr, mem, es, bx, cx, return, gaveUp, ax>>
kbd == <<obf, ibf, inp, expect, keys>>
vars == <<machine, cpu, high, kbd, a20>>

Units == 0 .. (SysStart + InitStart)

(* A machine without the controller reads 0xff.                            *)
Init ==
  /\ machine \in Machines
  /\ pc = "start" /\ intr = TRUE
  /\ mem = [u \in Units |-> u]
  /\ es = 0 /\ bx = 0 /\ cx = 0 /\ return = "send_command" /\ gaveUp = FALSE
  /\ ax = 0 /\ high \in 0 .. Words - 1
  /\ IF machine.kbc THEN obf \in BOOLEAN /\ ibf \in BOOLEAN ELSE obf = TRUE /\ ibf = TRUE
  /\ inp = "other" /\ expect = FALSE
  /\ a20 \in BOOLEAN
  /\ keys = 0

(* One step of the CPU that only goes on.                                  *)
Goto(here, next) ==
  /\ pc = here /\ pc' = next
  /\ UNCHANGED <<machine, intr, mem, es, bx, cx, return, gaveUp, ax, high, kbd, a20>>
-----------------------------------------------------------------------------
(* setup_sig1, setup_sig2.                                                 *)
CheckSignature == Goto("start", IF machine.sig THEN "good_sig" ELSE "bad_sig")

(* The system is a zImage.  Memory size, keyboard rate, call video.        *)
Video == Goto("good_sig", "mode_params")

(* video.S: cursor, page and mode.                                         *)
ModeParams == Goto("mode_params", IF machine.mda THEN "mda" ELSE "mopar0")

(* hd0 and hd1 are copied, then hd1 is looked for.                         *)
Disks == Goto("mopar0", IF machine.disk1 THEN "is_disk1" ELSE "no_disk1")

(* The feature table is copied, the mouse noted.                           *)
Features == Goto("is_disk1", IF machine.longtable THEN "long_table" ELSE "sysdesc_ok")

(* A hlt is left at the next interrupt, and what follows it is done.       *)
Hlt == {<<"bad_sig", "good_sig">>, <<"mda", "mopar0">>, <<"no_disk1", "is_disk1">>,
        <<"long_table", "sysdesc_ok">>}
Interrupted == intr /\ \E h \in Hlt : Goto(h[1], h[2])

(* default_switch: no interrupts from here.  do_move0: the first segments. *)
DefaultSwitch ==
  /\ pc = "sysdesc_ok"
  /\ intr' = FALSE
  /\ es' = Chunk /\ bx' = SysStart
  /\ pc' = "do_move"
  /\ UNCHANGED <<machine, mem, cx, return, gaveUp, ax, high, kbd, a20>>

(* Mutants of MoreToMove: a turn is missing; the destination is compared.  *)
MoreToMoveLess(d, b) == b + Chunk < InitStart
MoreToMoveTo(d, b) == d < InitStart

(* cmpw %bp,%bx; jb do_move                                                *)
MoreToMove(d, b) == b < InitStart

(* rep movsw: upwards, and the destination is below the source.            *)
DoMove ==
  /\ pc = "do_move"
  /\ mem' = [u \in Units |-> IF u \in es .. (es + Chunk - 1) THEN mem[bx + (u - es)] ELSE mem[u]]
  /\ es' = es + Chunk /\ bx' = bx + Chunk
  /\ pc' = IF MoreToMove(es', bx') THEN "do_move" ELSE "end_move"
  /\ UNCHANGED <<machine, intr, cx, return, gaveUp, ax, high, kbd, a20>>
-----------------------------------------------------------------------------
(* call empty_8042                                                         *)
Call(next) == pc' = "empty_8042" /\ cx' = Polls /\ return' = next

(* end_move: setup is where it belongs.  The tables are loaded.            *)
EndMove ==
  /\ pc = "end_move"
  /\ Call("send_command")
  /\ UNCHANGED <<machine, intr, mem, es, bx, gaveUp, ax, high, kbd, a20>>

(* Mutant of Ready: only the output buffer is looked at.                   *)
ReadyIfRead == ~obf

Ready == ~obf /\ ~ibf

(* empty_8042_loop: count, read the status.                                *)
Poll ==
  /\ pc = "empty_8042"
  /\ cx' = cx - 1
  /\ \/ cx = 1 /\ pc' = return /\ gaveUp' = TRUE
     \/ cx > 1 /\ Ready /\ pc' = return /\ gaveUp' = FALSE
     \/ cx > 1 /\ ~Ready /\ gaveUp' = gaveUp /\ pc' = IF obf THEN "drain" ELSE pc
  /\ UNCHANGED <<machine, intr, mem, es, bx, return, ax, high, kbd, a20>>

(* inb $0x60                                                               *)
Drain ==
  /\ pc = "drain" /\ pc' = "empty_8042"
  /\ obf' = ~machine.kbc
  /\ UNCHANGED <<machine, intr, mem, es, bx, cx, return, gaveUp, ax, high, ibf, inp, expect, keys, a20>>

(* A byte for the controller; if its buffer is full one of them is lost.     *)
Out(byte) ==
  /\ \/ machine.kbc /\ ibf' = TRUE /\ inp' = byte
     \/ ibf /\ UNCHANGED <<ibf, inp>>
  /\ UNCHANGED <<machine, intr, mem, es, bx, gaveUp, ax, high, obf, expect, keys, a20>>

SendCommand == pc = "send_command" /\ Out("command") /\ Call("send_data")
SendData == pc = "send_data" /\ Out("data") /\ Call("fast_gate")

(* Port 0x92, other bits kept.  a20_wait starts with the word 0xffff.      *)
FastGate ==
  /\ pc = "fast_gate"
  /\ a20' = (a20 \/ machine.fast)
  /\ ax' = Words - 1
  /\ pc' = "a20_wait"
  /\ UNCHANGED <<machine, intr, mem, es, bx, cx, return, gaveUp, high, kbd>>

(* Mutants of NextWord: the same word is tried again; it grows too wide.   *)
NextWordSame(w) == w
NextWordWide(w) == w + 1

(* incw %ax                                                                *)
NextWord(w) == (w + 1) % Words

(* Mutant of Aliased: the loop goes on while the words differ.             *)
AliasedSwapped(w) == IF a20 THEN high # w ELSE FALSE

(* cmpw %gs:(0x210), %ax: what was just written, if the line is off.         *)
Aliased(w) == IF a20 THEN high = w ELSE TRUE

A20Wait ==
  /\ pc = "a20_wait"
  /\ ax' = NextWord(ax)
  /\ pc' = IF Aliased(ax') THEN "a20_wait" ELSE "mask"
  /\ UNCHANGED <<machine, intr, mem, es, bx, cx, return, gaveUp, high, kbd, a20>>

(* Coprocessor reset, all interrupts masked, PE set, the far jump.         *)
FlushInstr == Goto("mask", "code32")
-----------------------------------------------------------------------------
(* The controller takes what is in its input buffer.  Only 0xDF after 0xD1 *)
(* switches the line; a byte it does not expect goes to the keyboard,      *)
(* which may answer.                                                       *)
Controller ==
  /\ machine.kbc /\ ibf
  /\ ibf' = FALSE
  /\ expect' = (inp = "command")
  /\ \/ inp = "command" /\ UNCHANGED <<a20, obf>>
     \/ inp = "data" /\ expect /\ a20' = TRUE /\ obf' = obf
     \/ inp = "other" /\ ~expect /\ a20' = a20 /\ obf' \in {obf, TRUE}
     \/ inp = "data" /\ ~expect /\ a20' = a20 /\ obf' \in {obf, TRUE}
  /\ UNCHANGED <<machine, cpu, high, inp, keys>>

(* A key is pressed or released.                                           *)
Key ==
  /\ machine.kbc /\ ~obf /\ keys < MaxKeys
  /\ obf' = TRUE /\ keys' = keys + 1
  /\ UNCHANGED <<machine, cpu, high, ibf, inp, expect, a20>>

(* The 32 bit code runs: compressed/head.S.                                *)
Started == pc = "code32" /\ UNCHANGED vars

Step ==
  \/ CheckSignature \/ Video \/ ModeParams \/ Disks \/ Features \/ Interrupted
  \/ DefaultSwitch \/ DoMove \/ EndMove
  \/ Poll \/ Drain \/ SendCommand \/ SendData
  \/ FastGate \/ A20Wait \/ FlushInstr

Next == Step \/ Controller \/ Key \/ Started

Spec == Init /\ [][Next]_vars

(* The CPU runs, interrupts come, the controller gets round to its buffer. *)
FairSpec == Spec /\ WF_vars(Step) /\ WF_vars(Controller)
-----------------------------------------------------------------------------
Early == {"start", "bad_sig", "good_sig", "mode_params", "mda", "mopar0", "no_disk1",
          "is_disk1", "long_table", "sysdesc_ok"}
Late == {"end_move", "empty_8042", "drain", "send_command", "send_data", "fast_gate",
         "a20_wait", "mask", "code32"}

TypeOK ==
  /\ machine \in Machines
  /\ pc \in Early \union {"do_move"} \union Late
  /\ intr \in BOOLEAN /\ (intr <=> pc \in Early)
  /\ mem \in [Units -> Units]
  /\ es \in Nat /\ bx \in Nat
  /\ cx \in 0 .. Polls
  /\ return \in {"send_command", "send_data", "fast_gate"}
  /\ ax \in 0 .. Words - 1 /\ high \in 0 .. Words - 1
  /\ gaveUp \in BOOLEAN /\ expect \in BOOLEAN /\ a20 \in BOOLEAN
  /\ obf \in BOOLEAN /\ ibf \in BOOLEAN
  /\ inp \in {"other", "command", "data"}
  /\ keys \in 0 .. MaxKeys

(* The whole system up to INITSEG is where it belongs, no part of it was   *)
(* overwritten before it was moved (setup.S:281-297).                      *)
SystemMoved ==
  pc \in Late => \A u \in SysStart .. (InitStart - 1) : mem[u - (SysStart - Chunk)] = u

(* The move never overwrites INITSEG, the parameters and the code that is  *)
(* running (setup.S:291-296).                                              *)
SetupKept == \A u \in Units : u >= InitStart => mem[u] = u

(* Protected mode is entered with the line on, whatever the controller     *)
(* does and whatever is in memory above 1M (setup.S:349-362).              *)
A20IsOn == pc \in {"mask", "code32"} => a20

(* No byte is written over one the controller has not taken, unless the    *)
(* wait right before it was given up (setup.S:438-440).                    *)
NoByteLost == [][ibf /\ (SendCommand \/ SendData) => gaveUp]_vars

(* The 32 bit code is reached if port 0x92 works, or if the controller     *)
(* never makes empty_8042 give up (setup.S:330-362).                       *)
ReachesKernel == machine.fast \/ [](~gaveUp) => <>(pc = "code32")

(* "Signature words to ensure LILO loaded us right": setup.S:9.            *)
SignatureEnsured == pc = "code32" => machine.sig
=============================================================================
