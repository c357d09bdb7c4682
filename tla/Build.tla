------------------------------- MODULE Build --------------------------------
(***************************************************************************)
(* arch/i386/boot/tools/build.c: the boot sector, setup and the compressed *)
(* system are copied behind each other to stdout, setup filled up to whole *)
(* sectors, and the sizes patched into the boot sector at the end.  Reads  *)
(* of setup may be short, any read and write may fail.                     *)
(***************************************************************************)
EXTENDS Integers, Sequences

CONSTANTS
  Sector, BufSize, Click,  (* 512, 1024 and 16 bytes                       *)
  ByteSize,                (* 256                                          *)
  SETUP_SECTS, DEF_SYSSIZE, BigSysSize, (* 4, 0x7F00 and 0x28000           *)
  SetupSizes, SystemSizes, (* bytes of the files to try                    *)
  Host32                   (* built where ssize_t has 32 bits              *)

Sectors(n) == (n + Sector - 1) \div Sector

(* Setup is less than the 64K of its segment, which a byte counts.         *)
SizesOK ==
  /\ {Sector, BufSize, Click, ByteSize, SETUP_SECTS, DEF_SYSSIZE, BigSysSize} \subseteq Nat \ {0}
  /\ SetupSizes \subseteq Nat /\ SystemSizes \subseteq Nat
  /\ SETUP_SECTS < ByteSize /\ DEF_SYSSIZE < ByteSize * ByteSize
  /\ \A n \in SetupSizes : Sectors(n) < ByteSize

VARIABLES
  args,     (* -b, the root device argument and what the files are like    *)
  out,      (* what of which file is in the image, byte for byte           *)
  header,   (* the patched bytes of the boot sector                        *)
  i, sz, setup_sectors, sys_size,
  failed,   (* a read, write, seek or stat has failed (history)            *)
  pc        (* "exit 0", what die() says, or where main() is               *)

vars == <<args, out, header, i, sz, setup_sectors, sys_size, failed, pc>>

Default == [setup |-> SETUP_SECTS, size |-> DEF_SYSSIZE, root |-> "default"]

Init ==
  /\ args \in [big : BOOLEAN, root : {"none", "FLOPPY", "device", "missing"},
               boot : {Sector - 1, Sector}, flag : BOOLEAN, setup : SetupSizes, system : SystemSizes,
               seekable : BOOLEAN]
  /\ out = <<>> /\ header = Default
  /\ i = 0 /\ sz = 0 /\ setup_sectors = 0 /\ sys_size = 0
  /\ failed = FALSE /\ pc = "root"

die(why) == pc' = why

(* usage(), and the root device; (0, 0) is what the boot sector takes for  *)
(* none.                                                                   *)
Root ==
  /\ pc = "root"
  /\ \/ die("Usage") /\ UNCHANGED failed
     \/ args.root = "missing" /\ die("Couldn't stat root device") /\ failed' = TRUE
     \/ args.root # "missing" /\ pc' = "boot" /\ UNCHANGED failed
  /\ UNCHANGED <<args, out, header, i, sz, setup_sectors, sys_size>>

(* file_open() fails, which comes before anything is read from a file.     *)
OpenFails ==
  /\ pc \in {"boot", "stat"} \/ (pc = "setup" /\ Len(out) = Sector)
  /\ die("Unable to open") /\ failed' = TRUE
  /\ UNCHANGED <<args, out, header, i, sz, setup_sectors, sys_size>>

(* write(1, buf, n) of bytes of one kind: all of them, or fewer.           *)
Written(kind, n, next, why) ==
  \E k \in 0 .. n :
    /\ out' = out \o [j \in 1 .. k |-> kind]
    /\ IF k = n THEN pc' = next /\ UNCHANGED failed ELSE die(why) /\ failed' = TRUE

Boot ==
  /\ pc = "boot"
  /\ IF args.boot # Sector THEN die("Boot block must be exactly 512 bytes") /\ UNCHANGED <<out, header, failed>>
     ELSE IF ~args.flag THEN die("Boot block hasn't got boot flag") /\ UNCHANGED <<out, header, failed>>
     ELSE /\ Written("boot", Sector, "setup", "Write call failed")
          /\ header' = [header EXCEPT !.root = IF args.root = "device" THEN "device" ELSE "none"]
  /\ UNCHANGED <<args, i, sz, setup_sectors, sys_size>>

(* One turn of the loop: c bytes are read, none at the end.                *)
SetupRead == \E c \in 0 .. BufSize :
  LET left == args.setup - (Len(out) - Sector) IN
  /\ pc = "setup" /\ c <= left
  /\ c = 0 => left = 0
  /\ IF c > 0 THEN i' = i + c /\ Written("setup", c, "setup", "Write call failed")
     ELSE pc' = "setup end" /\ UNCHANGED <<i, out, failed>>
  /\ UNCHANGED <<args, header, sz, setup_sectors, sys_size>>

(* c is unsigned: the -1 of a failed read is a length.  With 64 bits that  *)
(* much is not written, or only as far as memory goes; with 32 bits write  *)
(* fails with -1, which compares equal, and the loop goes on.              *)
SetupReadError ==
  /\ pc = "setup" /\ failed' = TRUE
  /\ IF Host32 THEN i > 0 /\ i' = i - 1 /\ UNCHANGED <<out, pc>>
     ELSE /\ die("Write call failed") /\ UNCHANGED i
          /\ \E k \in 0 .. 1 : out' = out \o [j \in 1 .. k |-> "memory"]
  /\ UNCHANGED <<args, header, sz, setup_sectors, sys_size>>

(* Mutant of SetupEnd: no default.                                         *)
SetupEndExact ==
  /\ pc = "setup end" /\ pc' = "pad" /\ setup_sectors' = Sectors(i)
  /\ UNCHANGED <<args, out, header, i, sz, sys_size, failed>>

SetupEnd ==
  /\ pc = "setup end" /\ pc' = "pad"
  /\ setup_sectors' = IF Sectors(i) < SETUP_SECTS THEN SETUP_SECTS ELSE Sectors(i)
  /\ UNCHANGED <<args, out, header, i, sz, sys_size, failed>>

(* Mutants of PadLen: the bytes already there are not taken off; the rest  *)
(* of a buffer.                                                            *)
PadLenWhole == IF setup_sectors * Sector > BufSize THEN BufSize ELSE setup_sectors * Sector
PadLenRest == (setup_sectors * Sector - i) % BufSize

PadLen == LET c == setup_sectors * Sector - i IN IF c > BufSize THEN BufSize ELSE c

Pad ==
  /\ pc = "pad"
  /\ IF i < setup_sectors * Sector
       THEN i' = i + PadLen /\ Written("pad", PadLen, "pad", "Write call failed")
       ELSE pc' = "stat" /\ UNCHANGED <<i, out, failed>>
  /\ UNCHANGED <<args, header, sz, setup_sectors, sys_size>>

Clicks(n) == (n + Click - 1) \div Click

(* Mutant of TooBig: one click more.                                       *)
TooBigLate(n) == n > (IF args.big THEN BigSysSize ELSE DEF_SYSSIZE + 1)

TooBig(n) == n > (IF args.big THEN BigSysSize ELSE DEF_SYSSIZE)

(* Mutant of Stat: the size is patched as soon as it is known.             *)
StatPatched ==
  /\ pc = "stat" /\ pc' = "system" /\ sz' = args.system /\ sys_size' = Clicks(sz')
  /\ header' = [header EXCEPT !.size = sys_size']
  /\ UNCHANGED <<args, out, i, setup_sectors, failed>>

Stat ==
  /\ pc = "stat"
  /\ \/ /\ sz' = args.system /\ sys_size' = Clicks(sz')
        /\ IF TooBig(sys_size') THEN die("System is too big") ELSE pc' = "system"
        /\ UNCHANGED failed
     \/ die("Unable to stat") /\ failed' = TRUE /\ UNCHANGED <<sz, sys_size>>
  /\ UNCHANGED <<args, out, header, i, setup_sectors>>

(* Mutant of SystemCopy: what is read is taken to be what was asked for.   *)
SystemCopyTrusting ==
  /\ pc = "system"
  /\ LET l == IF sz > BufSize THEN BufSize ELSE sz IN
     IF sz = 0 THEN pc' = "seek" /\ UNCHANGED <<out, sz, failed>>
     ELSE \E n \in 0 .. l :
       /\ out' = out \o [j \in 1 .. l |-> IF j <= n THEN "system" ELSE "memory"]
       /\ sz' = sz - l /\ failed' = (failed \/ n # l) /\ UNCHANGED pc
  /\ UNCHANGED <<args, header, i, setup_sectors, sys_size>>

SystemCopy ==
  /\ pc = "system"
  /\ LET l == IF sz > BufSize THEN BufSize ELSE sz IN
     IF sz = 0 THEN pc' = "seek" /\ UNCHANGED <<out, sz, failed>>
     ELSE \/ sz' = sz - l /\ Written("system", l, "system", "Write failed")
          \/ \E why \in {"Error reading", "Unexpected EOF"} :
               die(why) /\ failed' = TRUE /\ UNCHANGED <<out, sz>>
  /\ UNCHANGED <<args, header, i, setup_sectors, sys_size>>

(* The two lseek() and write() pairs; a pipe cannot seek.                  *)
Seek ==
  /\ pc = "seek"
  /\ IF args.seekable THEN pc' = "patch setup" /\ UNCHANGED failed
     ELSE die("Output: seek failed") /\ failed' = TRUE
  /\ UNCHANGED <<args, out, header, i, sz, setup_sectors, sys_size>>

PatchSetup ==
  /\ pc = "patch setup"
  /\ \/ /\ header' = [header EXCEPT !.setup = setup_sectors % ByteSize]
        /\ pc' = "patch size" /\ UNCHANGED failed
     \/ die("Write of setup sector count failed") /\ failed' = TRUE /\ UNCHANGED header
  /\ UNCHANGED <<args, out, i, sz, setup_sectors, sys_size>>

PatchSize ==
  /\ pc = "patch size"
  /\ \/ /\ header' = [header EXCEPT !.size = sys_size % (ByteSize * ByteSize)]
        /\ pc' = "exit 0" /\ UNCHANGED failed
     \/ die("Write of image length failed") /\ failed' = TRUE /\ UNCHANGED header
  /\ UNCHANGED <<args, out, i, sz, setup_sectors, sys_size>>

Running == {"root", "boot", "setup", "setup end", "pad", "stat", "system", "seek", "patch setup", "patch size"}

Exit == pc \notin Running /\ UNCHANGED vars

Next ==
  \/ Root \/ OpenFails \/ Boot \/ SetupRead \/ SetupReadError \/ SetupEnd \/ Pad \/ Stat
  \/ SystemCopy \/ Seek \/ PatchSetup \/ PatchSize \/ Exit

Spec == Init /\ [][Next]_vars /\ WF_vars(Next)
-----------------------------------------------------------------------------
TypeOK ==
  /\ {out[j] : j \in DOMAIN out} \subseteq {"boot", "setup", "pad", "system", "memory"}
  /\ header.setup \in 0 .. ByteSize - 1 /\ header.size \in 0 .. ByteSize * ByteSize - 1
  /\ i \in Nat /\ sz \in Nat /\ sys_size \in Nat
  /\ setup_sectors = 0 \/ setup_sectors >= SETUP_SECTS

Copies(kind, n) == [j \in 1 .. n |-> kind]

(* An image is left with exit status 0 only if everything in it is where   *)
(* the boot sector looks for it: itself, as many whole sectors of setup as *)
(* it will read, and the whole system (build.c:80-153).                    *)
GoodImage == pc = "exit 0" =>
  /\ SubSeq(out, 1, Sector + args.setup) = Copies("boot", Sector) \o Copies("setup", args.setup)
  /\ SubSeq(out, Sector * (header.setup + 1) + 1, Len(out)) = Copies("system", args.system)

(* The sizes are what the loader relies on: it reads at least the default  *)
(* of setup and never more of the system than fits below itself, and a     *)
(* whole system is read (build.c:119-126, bootsect.S:120-150).             *)
Loadable == pc = "exit 0" /\ ~args.big =>
  /\ header.setup >= SETUP_SECTS
  /\ header.size <= DEF_SYSSIZE
  /\ header.size * Click >= args.system

(* No failure goes unnoticed: whatever could not be opened, read or        *)
(* written, the program does not end well.  For setup that is what         *)
(* build.c:97-98 is for.                                                   *)
FailureNoticed == pc = "exit 0" => ~failed

(* The header is not patched unless all of the image is written, so what   *)
(* is patched in a broken image is at most the first of the two sizes.     *)
PatchedLast == header.size # Default.size \/ header.setup # Default.setup =>
  sz = 0 /\ Len(out) = Sector * (setup_sectors + 1) + args.system

(* The program ends, whatever the files are like.                          *)
Ends == <>(pc \notin Running)
=============================================================================
