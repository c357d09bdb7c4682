------------------------------ MODULE BootSect ------------------------------
(***************************************************************************)
(* arch/i386/boot/bootsect.S from load_setup to the jump into setup: the   *)
(* setup sectors are read next to the boot sector at INITSEG, the drive's  *)
(* sectors per track are probed, and the system is read track by track to  *)
(* SYSSEG, in 64K segments.  Memory is counted in sectors from SYSSEG; the *)
(* disk is a BIOS whose int 0x13 may fail, or fail half way.               *)
(***************************************************************************)
EXTENDS Integers, Sequences

CONSTANTS
  disksizes,   (* sectors per track to try, largest first                  *)
  setup_sects, (* setup sectors after the boot sector, in its header       *)
  syssize,     (* size of the system in clicks, in its header              *)
  SegSectors,  (* sectors in a 64K segment, 128                            *)
  LoadSegs,    (* segments between SYSSEG and INITSEG, 8                   *)
  Tracks       (* tracks per side of the disk                              *)

ClicksPerSector == 32
InitOff == LoadSegs * SegSectors
Heads == 2

(* syssize is bounded by tools/build.c, which refuses more than            *)
(* DEF_SYSSIZE; setup_sects by the "assume all on head 0, track 0".        *)
ASSUME DisksizesOK ==
  /\ disksizes \in Seq(1 .. SegSectors)
  /\ Len(disksizes) > 0
  /\ \A i \in 1 .. Len(disksizes) : disksizes[Len(disksizes)] <= disksizes[i]
ASSUME HeaderOK ==
  /\ setup_sects \in Nat
  /\ \A i \in 1 .. Len(disksizes) : setup_sects + 1 < disksizes[i]
  /\ syssize \in Nat
  /\ syssize < ClicksPerSector * InitOff
ASSUME LayoutOK ==
  /\ SegSectors \in Nat \ {0}
  /\ LoadSegs \in Nat \ {0}
  /\ Tracks \in Nat

VARIABLES
  mem,      (* which disk sector each sector of memory holds, or Other     *)
  spt,      (* sectors per track of the disk in the drive                  *)
  setup_ok, (* the read of the setup sectors succeeded (history)           *)
  si,       (* next entry of disksizes                                     *)
  sectors,  (* sectors per track the loader believes in                    *)
  sread, head, track,
  es, bx,   (* where the next sector goes: es counts from SYSSEG           *)
  ax,       (* sectors of the read under way                               *)
  pc

vars == <<mem, spt, setup_ok, si, sectors, sread, head, track, es, bx, ax, pc>>

Other == -1
Slots == 0 .. (InitOff + setup_sects + 1)

(* The disks there are: those the loader knows.                            *)
Geometries == {disksizes[i] : i \in 1 .. Len(disksizes)}

(* The sector of the disk at a position within a track.                    *)
LBA(t, h, s) == (Heads * t + h) * spt + s

(* Memory after cnt sectors of the disk from lba on were read to slot at.  *)
Read(at, lba, cnt) ==
  [i \in Slots |-> IF i \in at .. (at + cnt - 1) THEN lba + (i - at) ELSE mem[i]]

Init ==
  /\ mem = [i \in Slots |-> IF i = InitOff THEN 0 ELSE Other]
  /\ spt \in Geometries
  /\ setup_ok = FALSE
  /\ si = 1
  /\ sectors = 0
  /\ sread = 0 /\ head = 0 /\ track = 0
  /\ es = 0 /\ bx = 0 /\ ax = 0
  /\ pc = "load_setup"

(* int 0x13 reads the setup sectors behind the boot sector ...             *)
LoadSetup ==
  /\ pc = "load_setup"
  /\ mem' = Read(InitOff + 1, 1, setup_sects)
  /\ setup_ok' = TRUE
  /\ pc' = "probe_loop"
  /\ UNCHANGED <<spt, si, sectors, sread, head, track, es, bx, ax>>

(* ... or fails, with some of them read, and the loader halts.             *)
LoadSetupFails(got) ==
  /\ pc = "load_setup"
  /\ got < setup_sects
  /\ mem' = Read(InitOff + 1, 1, got)
  /\ pc' = "hlt"
  /\ UNCHANGED <<spt, setup_ok, si, sectors, sread, head, track, es, bx, ax>>

(* The hlt has interrupts on: the next timer tick lets it go on.           *)
Tick ==
  /\ pc = "hlt"
  /\ pc' = "probe_loop"
  /\ UNCHANGED <<mem, spt, setup_ok, si, sectors, sread, head, track, es, bx, ax>>

(* got_sectors, and read_it up to rp_read.                                 *)
StartReading(size) ==
  /\ sectors' = size
  /\ sread' = setup_sects + 1
  /\ pc' = "rp_read"

(* probe_loop: a size is right if the last sector of such a track can be   *)
(* read, behind the setup sectors; the last size is taken unprobed.        *)
ProbeReads ==
  /\ pc = "probe_loop" /\ si < Len(disksizes)
  /\ disksizes[si] <= spt
  /\ mem' = Read(InitOff + 1 + setup_sects, LBA(0, 0, disksizes[si] - 1), 1)
  /\ StartReading(disksizes[si])
  /\ UNCHANGED <<spt, setup_ok, si, head, track, es, bx, ax>>

(* There is no such sector, or the drive failed to read it.                *)
ProbeFails ==
  /\ pc = "probe_loop" /\ si < Len(disksizes)
  /\ si' = si + 1
  /\ sectors' = disksizes[si]
  /\ UNCHANGED <<mem, spt, setup_ok, sread, head, track, es, bx, ax, pc>>

ProbeLast ==
  /\ pc = "probe_loop" /\ si = Len(disksizes)
  /\ StartReading(disksizes[si])
  /\ UNCHANGED <<mem, spt, setup_ok, si, head, track, es, bx, ax>>

(* ok1_read: the rest of the track, or of the segment if that is less.     *)
Want == sectors - sread

(* Mutant of ReadSize: reads are not cut at the end of the segment.        *)
ReadSizeUncut == Want

ReadSize == IF bx + Want <= SegSectors THEN Want ELSE SegSectors - bx

(* Mutant of More: one more segment is read after the last.                *)
MoreThanEnough ==
  /\ pc = "rp_read"
  /\ (es - SegSectors) * ClicksPerSector <= syssize
  /\ ax' = ReadSize
  /\ pc' = "read_track"
  /\ UNCHANGED <<mem, spt, setup_ok, si, sectors, sread, head, track, es, bx>>

(* rp_read: es - SYSSEG against syssize, the offset in the segment is not  *)
(* looked at.                                                              *)
More ==
  /\ pc = "rp_read"
  /\ es * ClicksPerSector <= syssize
  /\ ax' = ReadSize
  /\ pc' = "read_track"
  /\ UNCHANGED <<mem, spt, setup_ok, si, sectors, sread, head, track, es, bx>>

(* Mutant of Enough: the segment being filled counts as loaded.            *)
EnoughBegun ==
  /\ pc = "rp_read"
  /\ (es + SegSectors) * ClicksPerSector > syssize
  /\ pc' = "setup"
  /\ UNCHANGED <<mem, spt, setup_ok, si, sectors, sread, head, track, es, bx, ax>>

Enough ==
  /\ pc = "rp_read"
  /\ es * ClicksPerSector > syssize
  /\ pc' = "setup"
  /\ UNCHANGED <<mem, spt, setup_ok, si, sectors, sread, head, track, es, bx, ax>>

(* What the drive and its DMA can do in one int 0x13: stay on a track and  *)
(* within a 64K segment.                                                   *)
CanRead ==
  /\ ax > 0
  /\ track < Tracks
  /\ sread + ax <= spt
  /\ bx + ax <= SegSectors

(* Mutants of NextPosition: the head is not toggled but counted; the track *)
(* is stepped after side 0; sread is not reset for the next side.          *)
NextPositionCounts ==
  \/ /\ sread + ax # sectors
     /\ sread' = sread + ax
     /\ UNCHANGED <<head, track>>
  \/ /\ sread + ax = sectors
     /\ sread' = 0
     /\ head' = head + 1
     /\ track' = IF head = 1 THEN track + 1 ELSE track

NextPositionEarly ==
  \/ /\ sread + ax # sectors
     /\ sread' = sread + ax
     /\ UNCHANGED <<head, track>>
  \/ /\ sread + ax = sectors
     /\ sread' = 0
     /\ head' = 1 - head
     /\ track' = IF head = 0 THEN track + 1 ELSE track

NextPositionStays ==
  \/ /\ sread + ax # sectors
     /\ sread' = sread + ax
     /\ UNCHANGED <<head, track>>
  \/ /\ sread + ax = sectors
     /\ sread' = sectors
     /\ head' = 1 - head
     /\ track' = IF head = 1 THEN track + 1 ELSE track

(* ok2_read after read_track: next sector, side and track.                 *)
NextPosition ==
  \/ /\ sread + ax # sectors
     /\ sread' = sread + ax
     /\ UNCHANGED <<head, track>>
  \/ /\ sread + ax = sectors
     /\ sread' = 0
     /\ head' = 1 - head
     /\ track' = IF head = 1 THEN track + 1 ELSE track

(* Mutant of NextAddress: bx wraps and es stays.                           *)
NextAddressWraps ==
  /\ bx' = (bx + ax) % SegSectors
  /\ es' = es

(* bx += ax * 512, and the carry out of 16 bits moves es up 64K.           *)
NextAddress ==
  \/ /\ bx + ax < SegSectors
     /\ bx' = bx + ax
     /\ es' = es
  \/ /\ bx + ax >= SegSectors
     /\ bx' = 0
     /\ es' = es + SegSectors

ReadTrack ==
  /\ pc = "read_track"
  /\ CanRead
  /\ mem' = Read(es + bx, LBA(track, head, sread), ax)
  /\ NextPosition
  /\ NextAddress
  /\ pc' = "rp_read"
  /\ UNCHANGED <<spt, setup_ok, si, sectors, ax>>

(* bad_rt: the error is printed, the controller reset, the read retried;   *)
(* the drive may have transferred part of it.                              *)
BadTrack(got) ==
  /\ pc = "read_track"
  /\ got < ax /\ (got > 0 => CanRead)
  /\ mem' = Read(es + bx, LBA(track, head, sread), got)
  /\ UNCHANGED <<spt, setup_ok, si, sectors, sread, head, track, es, bx, ax, pc>>

(* jmp $SETUPSEG, $0: the loader has done its work.                        *)
InSetup == pc = "setup" /\ UNCHANGED vars

Next ==
  \/ LoadSetup
  \/ \E got \in 0 .. setup_sects : LoadSetupFails(got)
  \/ Tick
  \/ ProbeReads \/ ProbeFails \/ ProbeLast
  \/ More \/ Enough
  \/ ReadTrack
  \/ \E got \in 0 .. SegSectors : BadTrack(got)
  \/ InSetup

Spec == Init /\ [][Next]_vars

(* The CPU runs on, timer interrupts come, and a read that is retried for  *)
(* ever succeeds at last: the loader itself has no other way to give up.   *)
FairSpec ==
  /\ Spec
  /\ WF_vars(LoadSetup \/ Tick \/ ProbeReads \/ ProbeFails \/ ProbeLast)
  /\ WF_vars(More \/ Enough)
  /\ WF_vars(ReadTrack)
-----------------------------------------------------------------------------
TypeOK ==
  /\ mem \in [Slots -> Int]
  /\ spt \in Geometries
  /\ setup_ok \in BOOLEAN
  /\ si \in 1 .. Len(disksizes)
  /\ sectors \in 0 .. SegSectors
  /\ sread \in Nat /\ head \in {0, 1} /\ track \in Nat
  /\ es \in Nat /\ bx \in Nat /\ ax \in Int
  /\ pc \in {"load_setup", "hlt", "probe_loop", "rp_read", "read_track", "setup"}

(* The first sector of the system on the disk.                             *)
FirstLBA == setup_sects + 1

(* The loader never loads over itself: the boot sector stays at INITSEG    *)
(* and the setup sectors behind it while the system is read segment by     *)
(* whole segment below them (bootsect.S:134-145, boot.h DEF_SYSSIZE).      *)
LoaderIntact ==
  /\ mem[InitOff] = 0
  /\ setup_ok => \A i \in 1 .. setup_sects : mem[InitOff + i] = i

(* If the probe found the disk's geometry, the sectors read so far are the *)
(* system's, each in its place, across track, side and segment boundaries  *)
(* and after any number of failed and half-done reads (bootsect.S:147-220).*)
LoadedInOrder ==
  sectors = spt => \A i \in 0 .. (es + bx - 1) : mem[i] = FirstLBA + i

(* Every read the loader issues is one the drive and its DMA can do, so a  *)
(* retry is never hopeless: at least one sector, within a track, within a  *)
(* segment (bootsect.S:147-159).                                           *)
ReadsAreLegal ==
  pc = "read_track" => ax > 0 /\ sread + ax <= spt /\ bx + ax <= SegSectors

(* When setup is entered every click of the system that its header counts  *)
(* has been loaded (bootsect.S:142 compares whole segments only).          *)
SystemLoaded ==
  pc = "setup" /\ sectors = spt =>
    \A i \in 0 .. (InitOff - 1) :
      i * ClicksPerSector < syssize => mem[i] = FirstLBA + i

(* Where the loader is on the disk and in memory agree: the next sector to *)
(* read is the one that belongs at the next address, segments are filled   *)
(* one after the other, and the one being filled ends at or below INITSEG. *)
Position ==
  /\ \E q \in 0 .. LoadSegs : es = q * SegSectors
  /\ pc \in {"load_setup", "hlt", "probe_loop"} =>
       es = 0 /\ bx = 0 /\ head = 0 /\ track = 0
  /\ pc \in {"rp_read", "read_track", "setup"} =>
       /\ sread < sectors /\ sectors <= spt
       /\ bx < SegSectors
       /\ sectors = spt => LBA(track, head, sread) = FirstLBA + es + bx
  /\ pc = "read_track" => ax = ReadSize /\ es * ClicksPerSector <= syssize
  /\ pc = "setup" => es * ClicksPerSector > syssize

(* The conjunction is inductive.                                           *)
IInv == TypeOK /\ LoaderIntact /\ LoadedInOrder /\ Position

(* The loader reaches setup, however the reads before fail, as long as the *)
(* disk holds the segments it reads (bootsect.S:134-220 only loops).       *)
ReachesSetup == <>(pc = "setup")
=============================================================================
