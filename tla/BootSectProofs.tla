--------------------------- MODULE BootSectProofs ---------------------------
(***************************************************************************)
(* For every disk geometry, system size and segment size: the boot sector  *)
(* loads the system in order and never over itself or setup.               *)
(***************************************************************************)
EXTENDS BootSect, TLAPS

Early == {"load_setup", "hlt", "probe_loop"}

(* The facts about the constants in the form the steps use.                *)
LEMMA Consts ==
  /\ SegSectors \in Nat /\ SegSectors > 0
  /\ LoadSegs \in Nat /\ LoadSegs > 0
  /\ InitOff \in Nat
  /\ setup_sects \in Nat /\ syssize \in Nat
  /\ syssize < 32 * InitOff
  /\ Len(disksizes) \in Nat /\ Len(disksizes) > 0
<1>1. LoadSegs * SegSectors \in Nat
  BY LayoutOK
<1>. QED BY <1>1, DisksizesOK, HeaderOK, LayoutOK DEF InitOff, ClicksPerSector

(* Every disk has a track size the loader tries, none smaller than the     *)
(* last one it takes unprobed.                                             *)
LEMMA GeometryBounds ==
  ASSUME NEW s \in Geometries
  PROVE  /\ s \in 1 .. SegSectors /\ s \in Nat
         /\ disksizes[Len(disksizes)] <= s
<1>1. PICK i \in 1 .. Len(disksizes) : s = disksizes[i]
  BY DEF Geometries
<1>. QED BY <1>1, DisksizesOK, Consts

(* A segment that starts at or below syssize ends at or below INITSEG.     *)
LEMMA SegmentFits ==
  ASSUME NEW q \in 0 .. LoadSegs, NEW a \in Nat, a = q * SegSectors, 32 * a <= syssize
  PROVE  /\ q + 1 \in 0 .. LoadSegs
         /\ a + SegSectors = (q + 1) * SegSectors
         /\ a + SegSectors <= InitOff
<1>1. a < InitOff
  BY Consts
<1>2. q # LoadSegs
  BY <1>1, Consts DEF InitOff
<1>3. q + 1 \in 0 .. LoadSegs
  BY <1>2, Consts
<1>4. a + SegSectors = (q + 1) * SegSectors
  BY Consts
<1>5. (LoadSegs - (q + 1)) * SegSectors >= 0
  BY <1>3, Consts
<1>6. LoadSegs * SegSectors - (q + 1) * SegSectors >= 0
  BY <1>3, <1>5, Consts
<1>. QED BY <1>3, <1>4, <1>6, Consts DEF InitOff

(* The sectors a read brings stay below INITSEG and are the next ones.     *)
LEMMA ReadTrackKeeps ==
  ASSUME IInv, pc = "read_track", NEW cnt \in 0 .. SegSectors, cnt <= ax,
         mem' = Read(es + bx, LBA(track, head, sread), cnt)
  PROVE  /\ mem' \in [Slots -> Int]
         /\ mem'[InitOff] = 0
         /\ setup_ok => \A i \in 1 .. setup_sects : mem'[InitOff + i] = i
         /\ sectors = spt => \A i \in 0 .. (es + bx + cnt - 1) : mem'[i] = FirstLBA + i
         /\ ax \in Nat /\ ax > 0 /\ sread + ax <= sectors /\ bx + ax <= SegSectors
         /\ es + SegSectors <= InitOff
<1>. USE Consts
<1>1. /\ es \in Nat /\ bx \in Nat /\ sread \in Nat /\ head \in {0, 1} /\ track \in Nat
      /\ spt \in Nat /\ spt > 0 /\ sectors \in Nat
      /\ bx < SegSectors /\ sread < sectors /\ sectors <= spt
      /\ 32 * es <= syssize /\ ax = ReadSize
      /\ mem \in [Slots -> Int]
  BY GeometryBounds DEF IInv, TypeOK, Position, ClicksPerSector
<1>2. ax \in Nat /\ ax > 0 /\ sread + ax <= sectors /\ bx + ax <= SegSectors
  BY <1>1 DEF ReadSize, Want
<1>3. PICK q \in 0 .. LoadSegs : es = q * SegSectors
  BY DEF IInv, Position
<1>4. es + SegSectors <= InitOff
  BY <1>1, <1>3, SegmentFits
<1>5. es + bx + cnt <= InitOff
  BY <1>1, <1>2, <1>4
<1>. DEFINE lba == LBA(track, head, sread)
<1>6. lba \in Int
  <2>1. Heads * track + head \in Int
    BY <1>1 DEF Heads
  <2>2. (Heads * track + head) * spt \in Int
    BY <2>1, <1>1
  <2>. QED BY <2>2, <1>1 DEF LBA
<1>. HIDE DEF lba
<1>7. mem' = [i \in Slots |-> IF i \in (es + bx) .. (es + bx + cnt - 1)
                              THEN lba + (i - (es + bx)) ELSE mem[i]]
  BY DEF Read, lba
<1>8. mem' \in [Slots -> Int]
  <2>1. ASSUME NEW i \in Slots PROVE lba + (i - (es + bx)) \in Int
    BY <1>1, <1>6 DEF Slots
  <2>. QED BY <1>1, <1>7, <2>1
<1>9. \A i \in 0 .. (setup_sects + 1) : mem'[InitOff + i] = mem[InitOff + i]
  <2>1. ASSUME NEW i \in 0 .. (setup_sects + 1)
        PROVE  /\ InitOff + i \in Slots
               /\ ~(InitOff + i \in (es + bx) .. (es + bx + cnt - 1))
    BY <1>1, <1>5 DEF Slots
  <2>. QED BY <1>7, <2>1
<1>10. mem'[InitOff] = 0 /\ (setup_ok => \A i \in 1 .. setup_sects : mem'[InitOff + i] = i)
  <2>1. mem'[InitOff + 0] = mem[InitOff + 0] /\ InitOff + 0 = InitOff
    BY <1>9
  <2>2. \A i \in 1 .. setup_sects : mem'[InitOff + i] = mem[InitOff + i]
    BY <1>9
  <2>. QED BY <2>1, <2>2 DEF IInv, LoaderIntact
<1>11. ASSUME sectors = spt, NEW i \in 0 .. (es + bx + cnt - 1)
       PROVE  mem'[i] = FirstLBA + i
  <2>1. lba = FirstLBA + es + bx
    BY <1>11 DEF IInv, Position, lba
  <2>2. i \in Slots /\ FirstLBA \in Int
    BY <1>1, <1>5 DEF Slots, FirstLBA
  <2>3. CASE i < es + bx
    <3>1. i \in 0 .. (es + bx - 1) /\ ~(i \in (es + bx) .. (es + bx + cnt - 1))
      BY <1>1, <2>3
    <3>. QED BY <1>7, <1>11, <2>2, <3>1 DEF IInv, LoadedInOrder
  <2>4. CASE ~(i < es + bx)
    <3>1. i \in (es + bx) .. (es + bx + cnt - 1)
      BY <1>1, <2>4
    <3>2. mem'[i] = lba + (i - (es + bx))
      BY <1>7, <2>2, <3>1
    <3>. QED BY <1>1, <2>1, <2>2, <3>2
  <2>. QED BY <2>3, <2>4
<1>. QED BY <1>2, <1>4, <1>8, <1>10, <1>11

(* Where the tracks start: side 1 follows side 0, the next track side 1.    *)
LEMMA TrackStarts ==
  ASSUME NEW sp \in Nat, NEW t \in Nat
  PROVE  /\ (Heads * t + 0) * sp \in Int
         /\ (Heads * t + 1) * sp = ((Heads * t + 0) * sp) + sp
         /\ (Heads * (t + 1) + 0) * sp = ((Heads * t + 1) * sp) + sp
BY DEF Heads

LEMMA InitIInv == Init => IInv
<1> SUFFICES ASSUME Init PROVE IInv
  OBVIOUS
<1>. USE Consts
<1>1. TypeOK
  <2>1. spt \in Geometries
    BY DEF Init
  <2>2. mem \in [Slots -> Int]
    BY DEF Init, Other
  <2>3. 1 \in 1 .. Len(disksizes) /\ 0 \in 0 .. SegSectors
    OBVIOUS
  <2>4. /\ setup_ok = FALSE /\ si = 1 /\ sectors = 0 /\ sread = 0 /\ head = 0
        /\ track = 0 /\ es = 0 /\ bx = 0 /\ ax = 0 /\ pc = "load_setup"
    BY DEF Init
  <2>5. /\ setup_ok \in BOOLEAN /\ si \in 1 .. Len(disksizes)
        /\ sectors \in 0 .. SegSectors
    BY <2>3, <2>4
  <2>6. /\ sread \in Nat /\ head \in {0, 1} /\ track \in Nat
        /\ es \in Nat /\ bx \in Nat /\ ax \in Int
    BY <2>4
  <2>. QED BY <2>1, <2>2, <2>4, <2>5, <2>6 DEF TypeOK
<1>2. LoaderIntact
  BY DEF Init, LoaderIntact, Slots
<1>3. LoadedInOrder
  BY DEF Init, LoadedInOrder
<1>4. Position
  <2>1. 0 \in 0 .. LoadSegs /\ es = 0 * SegSectors
    BY DEF Init
  <2>. QED BY <2>1 DEF Init, Position
<1>. QED BY <1>1, <1>2, <1>3, <1>4 DEF IInv

(* The setup sectors, or some of them, are read behind the boot sector.    *)
LEMMA SetupRead ==
  ASSUME IInv, NEW cnt \in 0 .. setup_sects, mem' = Read(InitOff + 1, 1, cnt)
  PROVE  /\ mem' \in [Slots -> Int]
         /\ mem'[InitOff] = 0
         /\ \A i \in 1 .. cnt : mem'[InitOff + i] = i
         /\ \A i \in 1 .. setup_sects : mem[InitOff + i] = i => mem'[InitOff + i] = i
<1>. USE Consts
<1>1. /\ mem \in [Slots -> Int] /\ mem[InitOff] = 0
      /\ mem' = [i \in Slots |-> IF i \in (InitOff + 1) .. (InitOff + 1 + cnt - 1)
                                 THEN 1 + (i - (InitOff + 1)) ELSE mem[i]]
  BY DEF IInv, TypeOK, LoaderIntact, Read
<1>2. mem' \in [Slots -> Int]
  BY <1>1 DEF Slots
<1>3. mem'[InitOff] = 0
  BY <1>1 DEF Slots
<1>4. ASSUME NEW i \in 1 .. cnt PROVE mem'[InitOff + i] = i
  <2>1. /\ InitOff + i \in Slots
        /\ InitOff + i \in (InitOff + 1) .. (InitOff + 1 + cnt - 1)
        /\ 1 + ((InitOff + i) - (InitOff + 1)) = i
    BY DEF Slots
  <2>. QED BY <1>1, <2>1
<1>5. ASSUME NEW i \in 1 .. setup_sects, mem[InitOff + i] = i
      PROVE  mem'[InitOff + i] = i
  <2>1. InitOff + i \in Slots
    BY DEF Slots
  <2>2. CASE i \in 1 .. cnt
    BY <1>4, <2>2
  <2>3. CASE ~(i \in 1 .. cnt)
    <3>1. ~(InitOff + i \in (InitOff + 1) .. (InitOff + 1 + cnt - 1))
      BY <2>3
    <3>. QED BY <1>1, <1>5, <2>1, <3>1
  <2>. QED BY <2>2, <2>3
<1>. QED BY <1>2, <1>3, <1>4, <1>5

(* Leaving probe_loop: the loader starts below INITSEG with a track size   *)
(* the disk has, right behind the setup sectors.                           *)
LEMMA StartKeeps ==
  ASSUME IInv, pc \in Early, NEW j \in 1 .. Len(disksizes), disksizes[j] <= spt,
         StartReading(disksizes[j]),
         mem' \in [Slots -> Int], mem'[InitOff] = 0,
         setup_ok => \A i \in 1 .. setup_sects : mem'[InitOff + i] = i,
         UNCHANGED <<spt, setup_ok, si, head, track, es, bx, ax>>
  PROVE  IInv'
<1>. USE Consts DEF Early
<1>1. /\ es = 0 /\ bx = 0 /\ head = 0 /\ track = 0 /\ spt \in Nat
      /\ si \in 1 .. Len(disksizes) /\ ax \in Int /\ setup_ok \in BOOLEAN
      /\ spt \in Geometries
  BY GeometryBounds DEF IInv, TypeOK, Position
<1>2. /\ disksizes[j] \in 1 .. SegSectors /\ setup_sects + 1 < disksizes[j]
  BY DisksizesOK, HeaderOK
<1>3. /\ sectors' = disksizes[j] /\ sread' = setup_sects + 1 /\ pc' = "rp_read"
      /\ es' = 0 /\ bx' = 0 /\ head' = 0 /\ track' = 0 /\ spt' = spt
      /\ si' = si /\ ax' = ax /\ setup_ok' = setup_ok
  BY <1>1 DEF StartReading
<1>4. TypeOK'
  BY <1>1, <1>2, <1>3 DEF TypeOK
<1>5. LoaderIntact'
  BY <1>3 DEF LoaderIntact
<1>6. LoadedInOrder'
  BY <1>3 DEF LoadedInOrder
<1>7. Position'
  <2>1. \E q \in 0 .. LoadSegs : es' = q * SegSectors
    <3>1. 0 \in 0 .. LoadSegs /\ 0 = 0 * SegSectors
      OBVIOUS
    <3>. QED BY <1>3, <3>1
  <2>2. LBA(track, head, sread)' = (FirstLBA + es + bx)'
    BY <1>1, <1>3 DEF LBA, FirstLBA, Heads
  <2>. QED BY <1>1, <1>2, <1>3, <2>1, <2>2 DEF Position
<1>. QED BY <1>4, <1>5, <1>6, <1>7 DEF IInv

(* One step of the loader from a state that satisfies the invariant.       *)
LEMMA StepIInv == IInv /\ [Next]_vars => IInv'
<1> SUFFICES ASSUME IInv, [Next]_vars PROVE IInv'
  OBVIOUS
<1>. USE Consts DEF Early
<1>1. /\ TypeOK /\ LoaderIntact /\ LoadedInOrder /\ Position
  BY DEF IInv
<1>2. /\ mem \in [Slots -> Int] /\ mem[InitOff] = 0
      /\ spt \in Nat /\ sectors \in Nat /\ sread \in Nat /\ head \in {0, 1}
      /\ track \in Nat /\ es \in Nat /\ bx \in Nat /\ ax \in Int
      /\ si \in 1 .. Len(disksizes) /\ spt \in Geometries
  BY <1>1, GeometryBounds DEF TypeOK, LoaderIntact
<1>0. /\ es \in Nat /\ bx \in Nat /\ ax \in Int /\ spt \in Nat
      /\ track \in Nat /\ head \in {0, 1} /\ sread \in Nat
  BY <1>2
<1>3. CASE LoadSetup
  <2>1. /\ setup_sects \in 0 .. setup_sects
        /\ mem' = Read(InitOff + 1, 1, setup_sects)
    BY <1>3 DEF LoadSetup
  <2>2. /\ mem' \in [Slots -> Int] /\ mem'[InitOff] = 0
        /\ \A i \in 1 .. setup_sects : mem'[InitOff + i] = i
    BY <2>1, SetupRead
  <2>3. TypeOK' /\ LoaderIntact'
    BY <1>1, <1>3, <2>2 DEF LoadSetup, TypeOK, LoaderIntact
  <2>4. LoadedInOrder' /\ Position'
    BY <1>1, <1>3 DEF LoadSetup, LoadedInOrder, Position
  <2>. QED BY <2>3, <2>4 DEF IInv
<1>4. ASSUME NEW got \in 0 .. setup_sects, LoadSetupFails(got) PROVE IInv'
  <2>1. /\ mem' \in [Slots -> Int] /\ mem'[InitOff] = 0
        /\ \A i \in 1 .. setup_sects : mem[InitOff + i] = i => mem'[InitOff + i] = i
    BY <1>4, SetupRead DEF LoadSetupFails
  <2>2. TypeOK' /\ LoaderIntact'
    BY <1>1, <1>4, <2>1 DEF LoadSetupFails, TypeOK, LoaderIntact
  <2>3. LoadedInOrder' /\ Position'
    BY <1>1, <1>4 DEF LoadSetupFails, LoadedInOrder, Position
  <2>. QED BY <2>2, <2>3 DEF IInv
<1>5. CASE Tick
  BY <1>1, <1>5 DEF Tick, IInv, TypeOK, LoaderIntact, LoadedInOrder, Position
<1>6. CASE ProbeReads
  <2>1. /\ si \in 1 .. Len(disksizes) /\ disksizes[si] <= spt /\ pc \in Early
        /\ StartReading(disksizes[si])
        /\ UNCHANGED <<spt, setup_ok, si, head, track, es, bx, ax>>
        /\ mem' = Read(InitOff + 1 + setup_sects, LBA(0, 0, disksizes[si] - 1), 1)
    BY <1>2, <1>6 DEF ProbeReads
  <2>. DEFINE lba == LBA(0, 0, disksizes[si] - 1)
              at == InitOff + 1 + setup_sects
  <2>2. lba \in Int
    BY <1>2, DisksizesOK DEF LBA, Heads
  <2>. HIDE DEF lba
  <2>3. mem' = [i \in Slots |-> IF i \in at .. (at + 1 - 1)
                                THEN lba + (i - at) ELSE mem[i]]
    BY <2>1 DEF Read, lba
  <2>4. mem' \in [Slots -> Int]
    BY <1>2, <2>2, <2>3 DEF Slots
  <2>5. \A i \in 0 .. setup_sects : mem'[InitOff + i] = mem[InitOff + i]
    <3>1. ASSUME NEW i \in 0 .. setup_sects
          PROVE  InitOff + i \in Slots /\ ~(InitOff + i \in at .. (at + 1 - 1))
      BY DEF Slots
    <3>. QED BY <2>3, <3>1
  <2>6. mem'[InitOff] = 0
    <3>1. 0 \in 0 .. setup_sects /\ InitOff + 0 = InitOff
      OBVIOUS
    <3>2. mem'[InitOff + 0] = mem[InitOff + 0]
      BY <2>5, <3>1, Zenon
    <3>. QED BY <1>2, <3>1, <3>2
  <2>7. setup_ok => \A i \in 1 .. setup_sects : mem'[InitOff + i] = i
    <3>1. \A i \in 1 .. setup_sects : i \in 0 .. setup_sects
      OBVIOUS
    <3>2. \A i \in 1 .. setup_sects : mem'[InitOff + i] = mem[InitOff + i]
      BY <2>5, <3>1, Zenon
    <3>. QED BY <1>1, <3>2 DEF LoaderIntact
  <2>. QED BY <2>1, <2>4, <2>6, <2>7, StartKeeps
<1>7. CASE ProbeFails
  <2>1. TypeOK'
    <3>1. disksizes[si] \in 0 .. SegSectors /\ si + 1 \in 1 .. Len(disksizes)
      BY <1>2, <1>7, DisksizesOK DEF ProbeFails
    <3>. QED BY <1>1, <1>7, <3>1 DEF ProbeFails, TypeOK
  <2>2. LoaderIntact' /\ LoadedInOrder' /\ Position'
    BY <1>1, <1>7 DEF ProbeFails, LoaderIntact, LoadedInOrder, Position
  <2>. QED BY <2>1, <2>2 DEF IInv
<1>8. CASE ProbeLast
  <2>1. disksizes[si] <= spt
    <3>1. si = Len(disksizes)
      BY <1>8 DEF ProbeLast
    <3>. QED BY <1>2, <3>1, GeometryBounds
  <2>. QED BY <1>1, <1>2, <1>8, <2>1, StartKeeps DEF ProbeLast, LoaderIntact
<1>9. CASE More
  <2>1. /\ pc = "rp_read" /\ pc' = "read_track" /\ es * ClicksPerSector <= syssize
        /\ ax' = ReadSize
        /\ UNCHANGED <<mem, spt, setup_ok, si, sectors, sread, head, track, es, bx>>
    BY <1>9 DEF More
  <2>2. ReadSize \in Int
    BY <1>2 DEF ReadSize, Want
  <2>3. TypeOK' /\ LoaderIntact' /\ LoadedInOrder'
    BY <1>1, <2>1, <2>2 DEF TypeOK, LoaderIntact, LoadedInOrder
  <2>4. ReadSize' = ReadSize /\ LBA(track, head, sread)' = LBA(track, head, sread)
    BY <2>1 DEF ReadSize, Want, LBA
  <2>5. Position'
    BY <1>1, <2>1, <2>4 DEF Position
  <2>. QED BY <2>3, <2>5 DEF IInv
<1>10. CASE Enough
  BY <1>1, <1>10
     DEF Enough, IInv, TypeOK, LoaderIntact, LoadedInOrder, Position, LBA
<1>11. CASE ReadTrack
  <2>1. /\ pc = "read_track" /\ pc' = "rp_read"
        /\ mem' = Read(es + bx, LBA(track, head, sread), ax)
        /\ NextPosition /\ NextAddress
        /\ UNCHANGED <<spt, setup_ok, si, sectors, ax>>
    BY <1>11 DEF ReadTrack
  <2>2. /\ bx < SegSectors /\ sread < sectors /\ sectors <= spt
        /\ 32 * es <= syssize /\ ax = ReadSize
    BY <1>1, <2>1 DEF Position, ClicksPerSector
  <2>3. ax \in 0 .. SegSectors /\ ax \in Nat /\ ax > 0
    BY <1>2, <2>2 DEF ReadSize, Want
  <2>4. /\ mem' \in [Slots -> Int]
        /\ mem'[InitOff] = 0
        /\ setup_ok => \A i \in 1 .. setup_sects : mem'[InitOff + i] = i
        /\ sectors = spt => \A i \in 0 .. (es + bx + ax - 1) : mem'[i] = FirstLBA + i
        /\ sread + ax <= sectors /\ bx + ax <= SegSectors
        /\ es + SegSectors <= InitOff
    BY <1>2, <2>1, <2>3, ReadTrackKeeps
  <2>5. PICK q \in 0 .. LoadSegs : es = q * SegSectors
    BY <1>1 DEF Position
  <2>6. q + 1 \in 0 .. LoadSegs /\ es + SegSectors = (q + 1) * SegSectors
    BY <1>2, <2>2, <2>5, SegmentFits
  <2>7. /\ es' \in Nat /\ bx' \in Nat /\ bx' < SegSectors
        /\ es' + bx' = es + bx + ax
        /\ es' = es \/ es' = es + SegSectors
    BY <1>2, <2>2, <2>3, <2>4, <2>1 DEF NextAddress
  <2>8. \E r \in 0 .. LoadSegs : es' = r * SegSectors
    BY <2>5, <2>6, <2>7
  <2>9. /\ sread' \in Nat /\ head' \in {0, 1} /\ track' \in Nat /\ sread' < sectors
    BY <1>2, <2>1, <2>2, <2>3, <2>4 DEF NextPosition
  <2>10. TypeOK' /\ LoaderIntact'
    BY <1>1, <2>1, <2>4, <2>7, <2>9 DEF TypeOK, LoaderIntact
  <2>11. LoadedInOrder'
    <3>1. es' + bx' - 1 = es + bx + ax - 1
      <4>1. es' + (bx' - 1) = (es' + bx') - 1
        BY <2>7
      <4>2. (es' + bx') - 1 = (es + bx + ax) - 1
        BY <2>7
      <4>3. (es + bx + ax) - 1 = es + bx + (ax - 1)
        BY <1>0, <2>3
      <4>. QED BY <4>1, <4>2, <4>3
    <3>2. sectors' = sectors /\ spt' = spt
      BY <2>1
    <3>3. FirstLBA' = FirstLBA
      BY DEF FirstLBA
    <3>4. sectors = spt => \A i \in 0 .. (es' + bx' - 1) : mem'[i] = FirstLBA + i
      BY <2>4, <3>1, Zenon
    <3>. QED BY <3>2, <3>3, <3>4, Zenon DEF LoadedInOrder
  <2>12. ASSUME sectors = spt
         PROVE  LBA(track, head, sread)' = (FirstLBA + es + bx)'
    <3>1. LBA(track, head, sread) = FirstLBA + es + bx
      BY <1>1, <2>1, <2>12 DEF Position
    <3>. DEFINE start(t, h) == (Heads * t + h) * spt
    <3>2. LBA(track', head', sread') = LBA(track, head, sread) + ax
      <4>1. /\ start(track, 0) \in Int
            /\ start(track, 1) = start(track, 0) + spt
            /\ start(track + 1, 0) = start(track, 1) + spt
        BY <1>0, TrackStarts
      <4>2. \A t, h, s : LBA(t, h, s) = start(t, h) + s
        BY DEF LBA
      <4>. HIDE DEF start
      <4>3. start(track, 1) \in Int /\ start(track, head) \in Int
        BY <1>0, <4>1
      <4>4. CASE sread + ax # sectors
        <5>1. sread' = sread + ax /\ head' = head /\ track' = track
          BY <2>1, <4>4 DEF NextPosition
        <5>2. start(track, head) + (sread + ax) = (start(track, head) + sread) + ax
          BY <1>0, <2>3, <4>3
        <5>. QED BY <4>2, <5>1, <5>2
      <4>5. CASE sread + ax = sectors
        <5>1. sread + ax = spt /\ sread' = 0
          BY <2>1, <2>12, <4>5 DEF NextPosition
        <5>2. CASE head = 0
          <6>1. head' = 1 /\ track' = track
            BY <2>1, <4>5, <5>2 DEF NextPosition
          <6>2. start(track, 1) + 0 = (start(track, 0) + sread) + ax
            BY <1>0, <2>3, <4>1, <5>1
          <6>. QED BY <4>2, <5>1, <5>2, <6>1, <6>2
        <5>3. CASE head = 1
          <6>1. head' = 0 /\ track' = track + 1
            BY <2>1, <4>5, <5>3 DEF NextPosition
          <6>2. start(track + 1, 0) + 0 = (start(track, 1) + sread) + ax
            BY <1>0, <2>3, <4>1, <4>3, <5>1
          <6>. QED BY <4>2, <5>1, <5>3, <6>1, <6>2
        <5>. QED BY <1>0, <5>2, <5>3
      <4>. QED BY <4>4, <4>5
    <3>3. LBA(track, head, sread)' = LBA(track', head', sread')
      BY <2>1 DEF LBA
    <3>4. (FirstLBA + es + bx)' = FirstLBA + es + bx + ax
      <4>1. (FirstLBA + es + bx)' = FirstLBA + es' + bx' /\ FirstLBA \in Nat
        BY DEF FirstLBA
      <4>2. FirstLBA + es' + bx' = FirstLBA + (es' + bx')
        BY <2>7, <4>1
      <4>3. FirstLBA + (es' + bx') = FirstLBA + (es + bx + ax)
        BY <2>7
      <4>4. FirstLBA + (es + bx + ax) = FirstLBA + es + bx + ax
        BY <1>0, <2>3, <4>1
      <4>. QED BY <4>1, <4>2, <4>3, <4>4
    <3>. QED BY <3>1, <3>2, <3>3, <3>4
  <2>13. Position'
    BY <2>1, <2>2, <2>7, <2>8, <2>9, <2>12 DEF Position
  <2>. QED BY <2>10, <2>11, <2>13 DEF IInv
<1>12. ASSUME NEW got \in 0 .. SegSectors, BadTrack(got) PROVE IInv'
  <2>1. /\ pc = "read_track" /\ got <= ax
        /\ mem' = Read(es + bx, LBA(track, head, sread), got)
        /\ UNCHANGED <<spt, setup_ok, si, sectors, sread, head, track, es, bx, ax, pc>>
    BY <1>2, <1>12 DEF BadTrack
  <2>2. /\ mem' \in [Slots -> Int]
        /\ mem'[InitOff] = 0
        /\ setup_ok => \A i \in 1 .. setup_sects : mem'[InitOff + i] = i
        /\ sectors = spt => \A i \in 0 .. (es + bx + got - 1) : mem'[i] = FirstLBA + i
    BY <2>1, ReadTrackKeeps
  <2>3. TypeOK' /\ LoaderIntact'
    BY <1>1, <2>1, <2>2 DEF TypeOK, LoaderIntact
  <2>4. LoadedInOrder'
    <3>1. \A i \in 0 .. (es + bx - 1) : i \in 0 .. (es + bx + got - 1)
      BY <1>2
    <3>. QED BY <2>1, <2>2, <3>1 DEF LoadedInOrder, FirstLBA
  <2>5. Position'
    BY <1>1, <2>1 DEF Position, LBA, ReadSize, Want, FirstLBA
  <2>. QED BY <2>3, <2>4, <2>5 DEF IInv
<1>13. CASE UNCHANGED vars
  BY <1>1, <1>13
     DEF vars, IInv, TypeOK, LoaderIntact, LoadedInOrder, Position, LBA, ReadSize, Want
<1>. QED BY <1>3, <1>4, <1>5, <1>6, <1>7, <1>8, <1>9, <1>10, <1>11, <1>12, <1>13
         DEF Next, InSetup

(* The invariant of the loader, for every geometry, image and segment      *)
(* size: disk position and memory position stay in step.                   *)
THEOREM Invariance == Spec => []IInv
<1>1. Init => IInv
  BY InitIInv
<1>2. IInv /\ [Next]_vars => IInv'
  BY StepIInv
<1>. QED BY <1>1, <1>2, PTL DEF Spec

(* Head, track, sector and load address stay within the drive's geometry   *)
(* and the segment, whatever is read and in however many tries.            *)
THEOREM Types == Spec => []TypeOK
<1>1. IInv => TypeOK
  BY DEF IInv
<1>. QED BY <1>1, Invariance, PTL

(* Disk position and memory position stay in step.                         *)
THEOREM InStep == Spec => []Position
<1>1. IInv => Position
  BY DEF IInv
<1>. QED BY <1>1, Invariance, PTL

(* The loader never loads over the boot sector or the setup sectors, which *)
(* is what tools/build.c's limit on the system's size is for.              *)
THEOREM NeverOverwritesItself == Spec => []LoaderIntact
<1>1. IInv => LoaderIntact
  BY DEF IInv
<1>. QED BY <1>1, Invariance, PTL

(* With the right geometry the system's sectors are in memory in order     *)
(* after any number of failed reads.                                       *)
THEOREM InOrder == Spec => []LoadedInOrder
<1>1. IInv => LoadedInOrder
  BY DEF IInv
<1>. QED BY <1>1, Invariance, PTL

(* No read is issued that the drive or the DMA controller has to refuse.   *)
THEOREM LegalReads == Spec => []ReadsAreLegal
<1>1. IInv => ReadsAreLegal
  <2> SUFFICES ASSUME IInv, pc = "read_track"
               PROVE  ax > 0 /\ sread + ax <= spt /\ bx + ax <= SegSectors
    BY DEF ReadsAreLegal
  <2>. USE Consts
  <2>1. /\ sread \in Nat /\ bx \in Nat /\ sectors \in Nat /\ spt \in Nat
        /\ sread < sectors /\ sectors <= spt /\ bx < SegSectors /\ ax = ReadSize
    BY GeometryBounds DEF IInv, TypeOK, Position
  <2>. QED BY <2>1 DEF ReadSize, Want
<1>. QED BY <1>1, Invariance, PTL

(* Setup is entered with the whole system in memory, although rp_read only *)
(* compares the number of whole segments with the system's size.           *)
THEOREM LoadedWhole == Spec => []SystemLoaded
<1>1. IInv => SystemLoaded
  <2> SUFFICES ASSUME IInv, pc = "setup", sectors = spt,
                      NEW i \in 0 .. (InitOff - 1), i * ClicksPerSector < syssize
               PROVE  mem[i] = FirstLBA + i
    BY DEF SystemLoaded
  <2>. USE Consts
  <2>1. es \in Nat /\ bx \in Nat /\ es * 32 > syssize
    BY DEF IInv, TypeOK, Position, ClicksPerSector
  <2>2. i \in 0 .. (es + bx - 1)
    BY <2>1 DEF ClicksPerSector
  <2>. QED BY <2>2 DEF IInv, LoadedInOrder
<1>. QED BY <1>1, Invariance, PTL
=============================================================================
