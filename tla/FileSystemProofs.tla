-------------------------- MODULE FileSystemProofs --------------------------
(***************************************************************************)
(* Theorems about FileSystem for every set of disks and paths, every width *)
(* of an unsigned short and every length of the sector map: the map is the *)
(* set of the sectors marked, and small files are found and read.          *)
(***************************************************************************)
EXTENDS FileSystem, SequenceTheorems, WellFoundedInduction, TLAPS

-----------------------------------------------------------------------------
(* The sector map *)

Maps == [0 .. MapBytes - 1 -> 0 .. 255]
MapSectors == 0 .. 8 * MapBytes - 1

\* The bit of a byte for a power of two.
Bit(a, q) == (a \div q) % 2
Powers == {128, 64, 32, 16, 8, 4, 2, 1}

\* A bit that is clear is set by adding its power of two, and no other changes.
LEMMA AddBit ==
    ASSUME NEW a \in 0 .. 255, NEW p \in Powers, Bit(a, p) = 0, NEW b, b = a + p
    PROVE  /\ b \in 0 .. 255
           /\ \A q \in Powers : Bit(b, q) = IF q = p THEN 1 ELSE Bit(a, q)
PROOF
<1> DEFINE Sets(q) == Bit(b, q) = IF q = p THEN 1 ELSE Bit(a, q)
<1> SUFFICES /\ b \in 0 .. 255
             /\ Sets(128) /\ Sets(64) /\ Sets(32) /\ Sets(16)
             /\ Sets(8) /\ Sets(4) /\ Sets(2) /\ Sets(1)
  BY DEF Powers
<1>1. CASE p = 128
  BY <1>1 DEF Bit
<1>2. CASE p = 64
  BY <1>2 DEF Bit
<1>3. CASE p = 32
  BY <1>3 DEF Bit
<1>4. CASE p = 16
  BY <1>4 DEF Bit
<1>5. CASE p = 8
  BY <1>5 DEF Bit
<1>6. CASE p = 4
  BY <1>6 DEF Bit
<1>7. CASE p = 2
  BY <1>7 DEF Bit
<1>8. CASE p = 1
  BY <1>8 DEF Bit
<1> QED BY <1>1, <1>2, <1>3, <1>4, <1>5, <1>6, <1>7, <1>8 DEF Powers

\* A bit that is set is cleared by taking it away.
LEMMA TakeBit ==
    ASSUME NEW a \in 0 .. 255, NEW p \in Powers, Bit(a, p) = 1, NEW b, b = a - p
    PROVE  /\ b \in 0 .. 255
           /\ \A q \in Powers : Bit(b, q) = IF q = p THEN 0 ELSE Bit(a, q)
PROOF
<1> DEFINE Clears(q) == Bit(b, q) = IF q = p THEN 0 ELSE Bit(a, q)
<1> SUFFICES /\ b \in 0 .. 255
             /\ Clears(128) /\ Clears(64) /\ Clears(32) /\ Clears(16)
             /\ Clears(8) /\ Clears(4) /\ Clears(2) /\ Clears(1)
  BY DEF Powers
<1>1. CASE p = 128
  BY <1>1 DEF Bit
<1>2. CASE p = 64
  BY <1>2 DEF Bit
<1>3. CASE p = 32
  BY <1>3 DEF Bit
<1>4. CASE p = 16
  BY <1>4 DEF Bit
<1>5. CASE p = 8
  BY <1>5 DEF Bit
<1>6. CASE p = 4
  BY <1>6 DEF Bit
<1>7. CASE p = 2
  BY <1>7 DEF Bit
<1>8. CASE p = 1
  BY <1>8 DEF Bit
<1> QED BY <1>1, <1>2, <1>3, <1>4, <1>5, <1>6, <1>7, <1>8 DEF Powers

\* The bits of a byte from the highest down.
LEMMA BitValues ==
    ASSUME NEW s \in Nat, NEW k, k = s % 8
    PROVE  /\ k \in 0 .. 7
           /\ k = 0 => SectorBit(s) = 128
           /\ k = 1 => SectorBit(s) = 64
           /\ k = 2 => SectorBit(s) = 32
           /\ k = 3 => SectorBit(s) = 16
           /\ k = 4 => SectorBit(s) = 8
           /\ k = 5 => SectorBit(s) = 4
           /\ k = 6 => SectorBit(s) = 2
           /\ k = 7 => SectorBit(s) = 1
BY DEF SectorBit

LEMMA BitOfSector ==
    ASSUME NEW s \in MapSectors
    PROVE  /\ s \in Nat /\ s \div 8 \in 0 .. MapBytes - 1
           /\ SectorBit(s) \in Powers
PROOF
<1>1. s \in Nat /\ s \div 8 \in 0 .. MapBytes - 1
  BY DiskAssumption DEF MapSectors
<1>2. SectorBit(s) \in Powers
  <2> DEFINE k == s % 8
  <2>1. /\ k \in 0 .. 7
        /\ k = 0 => SectorBit(s) = 128
        /\ k = 1 => SectorBit(s) = 64
        /\ k = 2 => SectorBit(s) = 32
        /\ k = 3 => SectorBit(s) = 16
        /\ k = 4 => SectorBit(s) = 8
        /\ k = 5 => SectorBit(s) = 4
        /\ k = 6 => SectorBit(s) = 2
        /\ k = 7 => SectorBit(s) = 1
    BY <1>1, BitValues
  <2> HIDE DEF k
  <2> QED BY <2>1 DEF Powers
<1> QED BY <1>1, <1>2

\* Each sector has a bit of its own.
LEMMA BitsApart ==
    ASSUME NEW s \in MapSectors, NEW t \in MapSectors,
           s \div 8 = t \div 8, SectorBit(s) = SectorBit(t)
    PROVE  s = t
PROOF
<1>1. s \in Nat /\ t \in Nat
  BY BitOfSector
<1> DEFINE k == s % 8
           l == t % 8
<1>2. /\ k \in 0 .. 7
      /\ k = 0 => SectorBit(s) = 128
      /\ k = 1 => SectorBit(s) = 64
      /\ k = 2 => SectorBit(s) = 32
      /\ k = 3 => SectorBit(s) = 16
      /\ k = 4 => SectorBit(s) = 8
      /\ k = 5 => SectorBit(s) = 4
      /\ k = 6 => SectorBit(s) = 2
      /\ k = 7 => SectorBit(s) = 1
  BY <1>1, BitValues
<1>3. /\ l \in 0 .. 7
      /\ l = 0 => SectorBit(t) = 128
      /\ l = 1 => SectorBit(t) = 64
      /\ l = 2 => SectorBit(t) = 32
      /\ l = 3 => SectorBit(t) = 16
      /\ l = 4 => SectorBit(t) = 8
      /\ l = 5 => SectorBit(t) = 4
      /\ l = 6 => SectorBit(t) = 2
      /\ l = 7 => SectorBit(t) = 1
  BY <1>1, BitValues
<1>4. k = l
  <2> HIDE DEF k, l
  <2> QED BY <1>2, <1>3
<1> QED BY <1>1, <1>4

\* The byte of a sector is changed in one bit.
LEMMA SetsTheBit ==
    ASSUME NEW groups \in Maps, NEW s \in MapSectors, NEW status \in {0, 1},
           NEW t \in MapSectors
    PROVE  /\ SetSectorStatus(groups, s, status) \in Maps
           /\ GetSectorStatus(SetSectorStatus(groups, s, status), t) =
                  IF t = s THEN status ELSE GetSectorStatus(groups, t)
PROOF
<1> DEFINE a == groups[s \div 8]
           p == SectorBit(s)
           after == SetSectorStatus(groups, s, status)
<1>1. /\ s \div 8 \in 0 .. MapBytes - 1 /\ p \in Powers
      /\ t \div 8 \in 0 .. MapBytes - 1 /\ SectorBit(t) \in Powers
  BY BitOfSector
<1>2. a \in 0 .. 255
  BY <1>1 DEF Maps
<1>3. /\ GetSectorStatus(groups, s) = Bit(a, p)
      /\ GetSectorStatus(groups, t) = Bit(groups[t \div 8], SectorBit(t))
      /\ GetSectorStatus(after, t) = Bit(after[t \div 8], SectorBit(t))
  BY DEF GetSectorStatus, Bit
<1>4. Bit(a, p) \in {0, 1}
  BY <1>1, <1>2 DEF Bit, Powers
<1> DEFINE Changed ==
    /\ after \in Maps
    /\ GetSectorStatus(after, t) = IF t = s THEN status ELSE GetSectorStatus(groups, t)
<1>5. ASSUME Bit(a, p) = status PROVE Changed
  <2>1. after = groups
    BY <1>3, <1>5 DEF SetSectorStatus
  <2> HIDE DEF after, p, a
  <2> QED BY <2>1, <1>3, <1>5
<1>6. ASSUME Bit(a, p) # status PROVE Changed
  <2> DEFINE b == a + IF status = 1 THEN p ELSE - p
  <2>1. after = [groups EXCEPT ![s \div 8] = b]
    BY <1>3, <1>6 DEF SetSectorStatus
  <2>2. b \in 0 .. 255 /\ \A q \in Powers : Bit(b, q) = IF q = p THEN status ELSE Bit(a, q)
    <3>1. CASE status = 1
      <4>1. Bit(a, p) = 0 /\ b = a + p
        BY <1>4, <1>6, <3>1
      <4>2. p \in Powers /\ a \in 0 .. 255
        BY <1>1, <1>2
      <4> HIDE DEF a, b, p
      <4>3. b \in 0 .. 255 /\ \A q \in Powers : Bit(b, q) = IF q = p THEN 1 ELSE Bit(a, q)
        BY <4>1, <4>2, AddBit, SMTT(30)
      <4> QED BY <4>3, <3>1
    <3>2. CASE status = 0
      <4>1. Bit(a, p) = 1 /\ b = a - p
        BY <1>1, <1>2, <1>4, <1>6, <3>2 DEF Powers
      <4>2. p \in Powers /\ a \in 0 .. 255
        BY <1>1, <1>2
      <4> HIDE DEF a, b, p
      <4>3. b \in 0 .. 255 /\ \A q \in Powers : Bit(b, q) = IF q = p THEN 0 ELSE Bit(a, q)
        BY <4>1, <4>2, TakeBit, SMTT(30)
      <4> QED BY <4>3, <3>2
    <3> QED BY <3>1, <3>2
  <2> HIDE DEF b, after
  <2>3. after \in Maps
    BY <2>1, <2>2 DEF Maps
  <2>4. ASSUME t \div 8 = s \div 8 PROVE Changed
    <3>1. after[t \div 8] = b
      BY <2>1, <2>4, <1>1 DEF Maps
    <3>2. t = s <=> SectorBit(t) = p
      BY <2>4, BitsApart
    <3>3. GetSectorStatus(after, t) = Bit(b, SectorBit(t))
      BY <3>1, <1>3
    <3>4. GetSectorStatus(after, t) = IF SectorBit(t) = p THEN status ELSE Bit(a, SectorBit(t))
      BY <3>3, <2>2, <1>1
    <3>5. GetSectorStatus(groups, t) = Bit(a, SectorBit(t))
      BY <1>3, <2>4
    <3> QED BY <2>3, <3>2, <3>4, <3>5
  <2>5. ASSUME t \div 8 # s \div 8 PROVE Changed
    <3>1. after[t \div 8] = groups[t \div 8]
      BY <2>1, <2>5, <1>1 DEF Maps
    <3>2. t # s
      BY <2>5
    <3> QED BY <3>1, <3>2, <2>3, <1>3
  <2> QED BY <2>4, <2>5
<1> HIDE DEF after
<1>7. Changed
  BY <1>5, <1>6
<1> QED BY <1>7 DEF after

\* Marking a sector puts it into the set, and taking its mark takes it out.
LEMMA MarksTheSet ==
    ASSUME NEW groups \in Maps, NEW S, IsSet(groups, S),
           NEW s \in MapSectors, NEW status \in {0, 1}
    PROVE  /\ SetSectorStatus(groups, s, status) \in Maps
           /\ IsSet(SetSectorStatus(groups, s, status),
                    IF status = 1 THEN S \cup {s} ELSE S \ {s})
PROOF
<1> DEFINE after == SetSectorStatus(groups, s, status)
           T == IF status = 1 THEN S \cup {s} ELSE S \ {s}
<1>1. after \in Maps
  BY SetsTheBit
<1>2. ASSUME NEW t \in MapSectors
      PROVE  GetSectorStatus(after, t) = IF t \in T THEN 1 ELSE 0
  <2>1. GetSectorStatus(after, t) = IF t = s THEN status ELSE GetSectorStatus(groups, t)
    BY SetsTheBit
  <2>2. GetSectorStatus(groups, t) = IF t \in S THEN 1 ELSE 0
    BY DEF IsSet, MapSectors
  <2> HIDE DEF after
  <2> QED BY <2>1, <2>2
<1> HIDE DEF after, T
<1>3. IsSet(after, T)
  BY <1>2 DEF IsSet, MapSectors
<1> QED BY <1>1, <1>3 DEF after, T

\* The bits of every map are the set of the sectors it has marked.
LEMMA EveryMapIsASet ==
    ASSUME NEW groups \in Maps
    PROVE  IsSet(groups, MarkedIn(groups))
PROOF
<1>1. ASSUME NEW s \in MapSectors PROVE GetSectorStatus(groups, s) \in {0, 1}
  <2> DEFINE a == groups[s \div 8]
             p == SectorBit(s)
  <2>1. GetSectorStatus(groups, s) = Bit(a, p)
    BY DEF GetSectorStatus, Bit
  <2>2. a \in 0 .. 255 /\ p \in Powers
    BY BitOfSector DEF Maps
  <2> HIDE DEF a, p
  <2>3. Bit(a, p) \in {0, 1}
    BY <2>2 DEF Bit, Powers
  <2> QED BY <2>1, <2>3
<1> QED BY <1>1 DEF IsSet, MarkedIn, MapSectors

-----------------------------------------------------------------------------
(* Sectors and entries *)

LEMMA MinOf ==
    ASSUME NEW S \in SUBSET Nat, S # {}
    PROVE  Min(S) \in S /\ \A k \in S : Min(S) <= k
PROOF
<1> DEFINE Less == {ss \in Nat \X Nat : ss[1] < ss[2]}
<1>1. IsWellFoundedOn(Less, Nat)
  BY NatLessThanWellFounded DEF OpToRel
<1>2. PICK x \in S : \A y \in S : <<y, x>> \notin Less
  BY <1>1, WFMin, Zenon
<1>3. \A y \in S : x <= y
  <2>1. ASSUME NEW y \in S, y < x PROVE FALSE
    <3>1. <<y, x>> \in Nat \X Nat /\ <<y, x>>[1] < <<y, x>>[2]
      BY <2>1
    <3>2. <<y, x>> \in Less
      BY <3>1, Zenon
    <3> QED BY <3>2, <1>2
  <2>2. x \in Nat /\ \A y \in S : y \in Nat
    OBVIOUS
  <2> QED BY <2>1, <2>2
<1> QED BY <1>3 DEF Min

\* A map laid over a sector leaves what else it holds.
LEMMA LaidOver ==
    ASSUME NEW b \in Sectors, SectorMap \in Maps
    PROVE  MapLaidOver(b) \in Sectors /\ MapLaidOver(b).groups = SectorMap
PROOF
<1>1. (IF SectorMap = b.groups THEN b.bytes ELSE MapData) \in Int
  BY DEF Sectors, MapData
<1> QED BY <1>1 DEF Sectors, Maps, MapLaidOver

LEMMA SectorFields ==
    ASSUME NEW b \in Sectors
    PROVE  b.files \in Seq(Descriptors) /\ b.next \in Nat /\ b.groups \in Maps
BY DiskAssumption DEF Sectors, Words, Maps

\* A search finds an entry of the name, the first there is, or there is none.
LEMMA NamedEntry ==
    ASSUME NEW d \in Sectors, NEW name,
           NEW named, named = {i \in DOMAIN d.files : d.files[i].Name = name}
    PROVE  /\ named = {} => FileNamed(d, name) = 0
           /\ named # {} => /\ FileNamed(d, name) = Min(named)
                            /\ FileNamed(d, name) \in named
                            /\ FileNamed(d, name) # 0
                            /\ d.files[FileNamed(d, name)] \in Descriptors
PROOF
<1>1. d.files \in Seq(Descriptors)
  BY SectorFields
<1>2. DOMAIN d.files = 1 .. Len(d.files) /\ Len(d.files) \in Nat
  BY <1>1
<1>3. named = {i \in 1 .. Len(d.files) : d.files[i].Name = name}
  BY <1>2
<1>4. FileNamed(d, name) = IF named # {} THEN Min(named) ELSE 0
  BY <1>3 DEF FileNamed, SelectInSeq
<1>5. ASSUME named # {} PROVE Min(named) \in named
  <2>1. named \in SUBSET Nat
    BY <1>2
  <2> QED BY <2>1, <1>5, MinOf
<1>6. ASSUME NEW i \in named PROVE i # 0 /\ d.files[i] \in Descriptors
  <2>1. i \in 1 .. Len(d.files)
    BY <1>2
  <2> QED BY <2>1, <1>1, ElementOfSeq
<1> QED BY <1>4, <1>5, <1>6

-----------------------------------------------------------------------------
(* What the disk, the buffer and the copies of them hold *)

Loading == {"LoadFSRootDirectory", "LoadSectorMap"}

DiskType ==
    /\ disk \in [0 .. SectorCount - 1 -> Sectors]
    /\ buffer \in Sectors /\ failed \in BOOLEAN
    /\ RootDirectory \in Sectors /\ Dir \in Sectors
    /\ SectorMap \in Maps
    /\ LBA \in Nat

\* A read leaves the sector in the buffer, unless it fails.
LEMMA Reads ==
    ASSUME DiskType, NEW l \in Nat, ReadLBA(l)
    PROVE  /\ disk' = disk /\ buffer' \in Sectors /\ failed' \in BOOLEAN
           /\ failed => failed'
           /\ ~ failed' /\ l < SectorCount => buffer' = disk[l]
PROOF
<1>1. SectorCount \in Nat /\ SectorCount > 0
  BY DiskAssumption
<1>2. CASE l >= SectorCount
  BY <1>1, <1>2 DEF ReadLBA, DiskType
<1>3. CASE ~ (l >= SectorCount)
  <2>1. l \in 0 .. SectorCount - 1 /\ (l + 1) % SectorCount \in 0 .. SectorCount - 1
    BY <1>1, <1>3
  <2>2. disk[l] \in Sectors /\ disk[(l + 1) % SectorCount] \in Sectors
    BY <2>1 DEF DiskType
  <2>3. \/ buffer' = disk[l] /\ failed' = failed
        \/ failed' = TRUE /\ buffer' \in {buffer, disk[(l + 1) % SectorCount]}
    BY <1>3 DEF ReadLBA
  <2>4. disk' = disk
    BY DEF ReadLBA
  <2> QED BY <2>2, <2>3, <2>4 DEF DiskType
<1> QED BY <1>2, <1>3

LEMMA DiskInit == Init => DiskType
PROOF
<1> SUFFICES ASSUME Init PROVE DiskType
  OBVIOUS
<1>1. disk \in [0 .. SectorCount - 1 -> Sectors] /\ 0 \in 0 .. SectorCount - 1
  BY DiskAssumption DEF Init
<1>2. disk[0] \in Sectors
  BY <1>1
<1>3. disk[0].groups \in Maps
  BY <1>2, SectorFields
<1> QED BY <1>1, <1>2, <1>3 DEF Init, DiskType

LEMMA DiskNext == DiskType /\ [Next]_fsVars => DiskType'
PROOF
<1> SUFFICES ASSUME DiskType, [Next]_fsVars PROVE DiskType'
  OBVIOUS
<1> DEFINE Kept(b) == b' = b
<1>1. CASE LoadFSRootDirectory
  <2>1. /\ ReadLBA(FSRootDirectoryLBA) /\ RootDirectory' = buffer'
        /\ Kept(SectorMap) /\ Kept(Dir) /\ Kept(LBA)
    BY <1>1 DEF LoadFSRootDirectory, readVars
  <2>2. FSRootDirectoryLBA \in Nat
    BY DiskAssumption
  <2>3. disk' = disk /\ buffer' \in Sectors /\ failed' \in BOOLEAN
    BY <2>1, <2>2, Reads
  <2> QED BY <2>1, <2>3 DEF DiskType
<1>2. CASE LoadSectorMap
  <2>1. /\ ReadLBA(SectorMapLBA) /\ SectorMap' = buffer'.groups
        /\ Kept(RootDirectory) /\ Kept(Dir) /\ Kept(LBA)
    BY <1>2 DEF LoadSectorMap, readVars
  <2>2. SectorMapLBA \in Nat
    BY DiskAssumption
  <2>3. disk' = disk /\ buffer' \in Sectors /\ failed' \in BOOLEAN
    BY <2>1, <2>2, Reads
  <2>4. buffer'.groups \in Maps
    BY <2>3, SectorFields
  <2> QED BY <2>1, <2>3, <2>4 DEF DiskType
<1>3. CASE Reboot
  <2>1. disk[0] \in Sectors
    BY DiskAssumption DEF DiskType
  <2> QED BY <1>3, <2>1 DEF Reboot, DiskType
<1>4. CASE Mark
  <2>1. PICK s \in MarkedSectors, status \in {0, 1} :
            SectorMap' = SetSectorStatus(SectorMap, s, status)
    BY <1>4 DEF Mark
  <2>2. s \in MapSectors
    BY DiskAssumption DEF MapSectors
  <2>3. SectorMap' \in Maps
    BY <2>1, <2>2, SetsTheBit DEF DiskType
  <2> QED BY <1>4, <2>3 DEF Mark, diskVars, readVars, DiskType
<1>5. CASE WriteSectorMapChanges
  <2>1. PICK read \in BOOLEAN, written \in BOOLEAN :
            /\ buffer' = MapLaidOver(IF read THEN disk[SectorMapLBA] ELSE buffer)
            /\ disk' = IF written THEN [disk EXCEPT ![SectorMapLBA] = buffer'] ELSE disk
            /\ failed' = ~ (read /\ written)
    BY <1>5 DEF WriteSectorMapChanges
  <2>2. SectorMapLBA \in 0 .. SectorCount - 1
    BY DiskAssumption
  <2>3. (IF read THEN disk[SectorMapLBA] ELSE buffer) \in Sectors
    BY <2>2 DEF DiskType
  <2>4. buffer' \in Sectors
    BY <2>1, <2>3, LaidOver DEF DiskType
  <2>5. disk' \in [0 .. SectorCount - 1 -> Sectors]
    BY <2>1, <2>2, <2>4 DEF DiskType
  <2>6. /\ Kept(RootDirectory) /\ Kept(SectorMap) /\ Kept(Dir) /\ Kept(LBA)
    BY <1>5 DEF WriteSectorMapChanges, readVars
  <2>7. failed' \in BOOLEAN
    BY <2>1
  <2> QED BY <2>4, <2>5, <2>6, <2>7 DEF DiskType
<1>6. ASSUME NEW p \in DOMAIN Literals, ReadFile(p) PROVE DiskType'
  BY <1>6 DEF ReadFile, diskVars, DiskType
<1>7. CASE Scan
  BY <1>7 DEF Scan, diskVars, DiskType
<1>8. CASE ReadDirectory
  <2>1. Kept(RootDirectory) /\ Kept(SectorMap) /\ Kept(LBA)
    BY <1>8 DEF ReadDirectory
  <2>2. Dir.next \in Nat
    BY SectorFields DEF DiskType
  <2>3. \/ ReadLBA(Dir.next) /\ (Kept(Dir) \/ Dir' = buffer')
        \/ Kept(disk) /\ Kept(buffer) /\ Kept(failed) /\ Kept(Dir)
    BY <1>8 DEF ReadDirectory, FollowChain, diskVars
  <2>4. CASE ReadLBA(Dir.next) /\ (Kept(Dir) \/ Dir' = buffer')
    <3>1. disk' = disk /\ buffer' \in Sectors /\ failed' \in BOOLEAN
      BY <2>2, <2>4, Reads
    <3> QED BY <2>1, <2>4, <3>1 DEF DiskType
  <2>5. CASE Kept(disk) /\ Kept(buffer) /\ Kept(failed) /\ Kept(Dir)
    BY <2>1, <2>5 DEF DiskType
  <2> QED BY <2>3, <2>4, <2>5
<1>9. CASE Search
  <2> DEFINE i == FileNamed(Dir, Path[DirnameStart])
  <2>1. /\ Kept(RootDirectory) /\ Kept(SectorMap) /\ Kept(Dir)
        /\ Kept(disk) /\ Kept(buffer) /\ Kept(failed)
        /\ IF i = 0 THEN Kept(LBA) ELSE LBA' = Dir.files[i].StartSector
    BY <1>9 DEF Search, diskVars
  <2>2. i # 0 => Dir.files[i] \in Descriptors
    <3>1. Dir \in Sectors
      BY DEF DiskType
    <3> QED BY <3>1, NamedEntry
  <2>3. \A d \in Descriptors : d.StartSector \in Nat
    BY DiskAssumption DEF Descriptors, Words
  <2> QED BY <2>1, <2>2, <2>3 DEF DiskType
<1>10. CASE Copy
  <2>1. Kept(RootDirectory) /\ Kept(SectorMap) /\ Kept(Dir)
    BY <1>10 DEF Copy
  <2>2. \/ ReadLBA(LBA) /\ LBA' = (LBA + 1) % WordLimit
        \/ Kept(disk) /\ Kept(buffer) /\ Kept(failed) /\ Kept(LBA)
    BY <1>10 DEF Copy, diskVars
  <2>3. CASE ReadLBA(LBA) /\ LBA' = (LBA + 1) % WordLimit
    <3>1. disk' = disk /\ buffer' \in Sectors /\ failed' \in BOOLEAN
      BY <2>3, Reads DEF DiskType
    <3>2. (LBA + 1) % WordLimit \in Nat
      BY DiskAssumption DEF DiskType
    <3> QED BY <2>1, <2>3, <3>1, <3>2 DEF DiskType
  <2>4. CASE Kept(disk) /\ Kept(buffer) /\ Kept(failed) /\ Kept(LBA)
    BY <2>1, <2>4 DEF DiskType
  <2> QED BY <2>2, <2>3, <2>4
<1>11. CASE UNCHANGED fsVars
  BY <1>11 DEF fsVars, diskVars, readVars, DiskType
<1> QED BY <1>1, <1>2, <1>3, <1>4, <1>5, <1>6, <1>7, <1>8, <1>9, <1>10, <1>11 DEF Next, ReadStep

-----------------------------------------------------------------------------
(* The sector map is a set *)

\* Inductive invariant: so is the map on the disk, and as long as no read and
\* no write has failed the one in memory, also while a file is read.
MapInv ==
    /\ DiskType
    /\ IsSet(disk[SectorMapLBA].groups, saved)
    /\ pc \in Loading => used = saved
    /\ pc \notin Loading /\ ~ failed => IsSet(SectorMap, used)

LEMMA MapInit == Init => MapInv
PROOF
<1> SUFFICES ASSUME Init PROVE MapInv
  OBVIOUS
<1>1. DiskType
  BY DiskInit
<1>2. disk[SectorMapLBA].groups \in Maps
  <2>1. disk[SectorMapLBA] \in Sectors
    BY <1>1, DiskAssumption DEF DiskType
  <2> QED BY <2>1, SectorFields
<1>3. IsSet(disk[SectorMapLBA].groups, saved)
  BY <1>2, EveryMapIsASet DEF Init
<1>4. used = saved /\ pc \in Loading
  BY DEF Init, Loading
<1> QED BY <1>1, <1>3, <1>4 DEF MapInv

\* A step that leaves the maps and the sets alone.
LEMMA MapKept ==
    ASSUME MapInv, DiskType', pc \notin Loading, pc' \notin Loading,
           disk' = disk, SectorMap' = SectorMap, used' = used, saved' = saved,
           failed => failed'
    PROVE  MapInv'
BY DEF MapInv, DiskType

LEMMA MapNext == MapInv /\ [Next]_fsVars => MapInv'
PROOF
<1> SUFFICES ASSUME MapInv, [Next]_fsVars PROVE MapInv'
  OBVIOUS
<1>0. DiskType /\ DiskType'
  BY DiskNext DEF MapInv
<1>1. CASE LoadFSRootDirectory
  <2>1. FSRootDirectoryLBA \in Nat
    BY DiskAssumption
  <2>2. disk' = disk
    BY <1>0, <1>1, <2>1, Reads DEF LoadFSRootDirectory
  <2> QED BY <1>0, <1>1, <2>2 DEF LoadFSRootDirectory, Goes, MapInv, Loading, mapVars
<1>2. CASE LoadSectorMap
  <2>1. SectorMapLBA \in Nat /\ SectorMapLBA < SectorCount
    BY DiskAssumption
  <2>2. disk' = disk /\ (~ failed' => buffer' = disk[SectorMapLBA])
    BY <1>0, <1>2, <2>1, Reads DEF LoadSectorMap
  <2>3. /\ used = saved /\ used' = used /\ saved' = saved
        /\ SectorMap' = buffer'.groups /\ pc' = "ready"
    BY <1>2 DEF LoadSectorMap, Goes, MapInv, Loading, mapVars
  <2> QED BY <1>0, <2>2, <2>3 DEF MapInv, Loading
<1>3. CASE Reboot
  BY <1>0, <1>3 DEF Reboot, Goes, MapInv, Loading
<1>4. CASE Mark
  <2>1. pc = "ready" /\ ~ failed /\ pc' = pc /\ disk' = disk /\ failed' = failed /\ saved' = saved
    BY <1>4 DEF Mark, Idle, diskVars
  <2>2. PICK s \in MarkedSectors, status \in {0, 1} :
            /\ SectorMap' = SetSectorStatus(SectorMap, s, status)
            /\ used' = IF status = 1 THEN used \cup {s} ELSE used \ {s}
    BY <1>4 DEF Mark
  <2>3. s \in MapSectors /\ SectorMap \in Maps
    BY DiskAssumption, <1>0 DEF MapSectors, DiskType
  <2>4. IsSet(SectorMap, used)
    BY <2>1 DEF MapInv, Loading
  <2>5. IsSet(SetSectorStatus(SectorMap, s, status),
              IF status = 1 THEN used \cup {s} ELSE used \ {s})
    BY <2>3, <2>4, MarksTheSet
  <2>6. IsSet(SectorMap', used')
    BY <2>2, <2>5
  <2>7. IsSet(disk'[SectorMapLBA].groups, saved')
    BY <2>1 DEF MapInv
  <2> QED BY <1>0, <2>1, <2>6, <2>7 DEF MapInv, Loading
<1>5. CASE WriteSectorMapChanges
  <2>1. pc = "ready" /\ ~ failed /\ pc' = pc /\ SectorMap' = SectorMap /\ used' = used
    BY <1>5 DEF WriteSectorMapChanges, Idle
  <2>2. PICK read \in BOOLEAN, written \in BOOLEAN :
            /\ buffer' = MapLaidOver(IF read THEN disk[SectorMapLBA] ELSE buffer)
            /\ disk' = IF written THEN [disk EXCEPT ![SectorMapLBA] = buffer'] ELSE disk
            /\ saved' = IF written THEN used ELSE saved
    BY <1>5 DEF WriteSectorMapChanges
  <2>3. SectorMapLBA \in 0 .. SectorCount - 1
    BY DiskAssumption
  <2>4. (IF read THEN disk[SectorMapLBA] ELSE buffer) \in Sectors /\ SectorMap \in Maps
    BY <1>0, <2>3 DEF DiskType
  <2>5. buffer'.groups = SectorMap
    BY <2>2, <2>4, LaidOver
  <2>6. IsSet(SectorMap, used)
    BY <2>1 DEF MapInv, Loading
  <2>7. IsSet(disk'[SectorMapLBA].groups, saved')
    <3>1. CASE written
      <4>1. disk'[SectorMapLBA] = buffer' /\ saved' = used
        BY <2>2, <2>3, <3>1, <1>0 DEF DiskType
      <4> QED BY <4>1, <2>5, <2>6
    <3>2. CASE ~ written
      BY <2>2, <3>2 DEF MapInv
    <3> QED BY <3>1, <3>2
  <2> QED BY <1>0, <2>1, <2>6, <2>7 DEF MapInv, Loading
<1>6. ASSUME NEW p \in DOMAIN Literals, ReadFile(p) PROVE MapInv'
  <2>1. /\ pc = "ready" /\ pc' \in {"search", "scan"}
        /\ disk' = disk /\ SectorMap' = SectorMap /\ used' = used /\ saved' = saved
        /\ failed' = failed
    BY <1>6 DEF ReadFile, Idle, diskVars, mapVars
  <2> QED BY <1>0, <2>1, MapKept DEF Loading
<1>7. CASE Scan
  <2>1. /\ pc = "scan" /\ pc' \in {"search", "ReadDirectory"}
        /\ disk' = disk /\ SectorMap' = SectorMap /\ used' = used /\ saved' = saved
        /\ failed' = failed
    BY <1>7 DEF Scan, diskVars, mapVars
  <2> QED BY <1>0, <2>1, MapKept DEF Loading
<1>8. CASE ReadDirectory
  <2>1. /\ pc = "ReadDirectory" /\ pc' \in {"ReadDirectory", "stuck", "scan"}
        /\ SectorMap' = SectorMap /\ used' = used /\ saved' = saved
        /\ ReadLBA(Dir.next) \/ (disk' = disk /\ failed' = failed)
    BY <1>8 DEF ReadDirectory, FollowChain, NextName, diskVars, mapVars
  <2>2. Dir.next \in Nat
    BY SectorFields, <1>0 DEF DiskType
  <2>3. disk' = disk /\ (failed => failed')
    BY <1>0, <2>1, <2>2, Reads
  <2> QED BY <1>0, <2>1, <2>3, MapKept DEF Loading
<1>9. CASE Search
  <2>1. /\ pc = "search" /\ pc' \in {"ready", "copy"}
        /\ disk' = disk /\ SectorMap' = SectorMap /\ used' = used /\ saved' = saved
        /\ failed' = failed
    BY <1>9 DEF Search, diskVars, mapVars
  <2> QED BY <1>0, <2>1, MapKept DEF Loading
<1>10. CASE Copy
  <2>1. /\ pc = "copy" /\ pc' \in {"ready", "copy"}
        /\ SectorMap' = SectorMap /\ used' = used /\ saved' = saved
        /\ ReadLBA(LBA) \/ (disk' = disk /\ failed' = failed)
    BY <1>10 DEF Copy, diskVars, mapVars
  <2>2. disk' = disk /\ (failed => failed')
    BY <1>0, <2>1, Reads DEF DiskType
  <2> QED BY <1>0, <2>1, <2>2, MapKept DEF Loading
<1>11. CASE UNCHANGED fsVars
  BY <1>0, <1>11 DEF fsVars, diskVars, mapVars, MapInv
<1> QED BY <1>1, <1>2, <1>3, <1>4, <1>5, <1>6, <1>7, <1>8, <1>9, <1>10, <1>11 DEF Next, ReadStep

\* Whatever sectors the disk's map has marked at first, and whatever sectors are
\* marked and unmarked, written back, lost and loaded again, the bits of the map
\* are the set of the sectors marked (FileSystem.c:64-111).
THEOREM TheMapIsASet == Spec => []SectorMapIsASet
PROOF
<1>1. MapInv => SectorMapIsASet
  BY DEF MapInv, SectorMapIsASet, Loading
<1> QED BY <1>1, MapInit, MapNext, PTL DEF Spec

-----------------------------------------------------------------------------
(* ReadFile *)

Literal == Literals[call.path]
NameAt == Len(Literal) - 1
Name == Literal[NameAt]
Named == {i \in DOMAIN RootDirectory.files : RootDirectory.files[i].Name = Name}
Entry == RootDirectory.files[Min(Named)]

\* The calls the property is about.
Plain ==
    /\ call.whole /\ ~ failed /\ RootDirectory.next = 0
    /\ \A n \in 1 .. Len(Literal) - 2 : Literal[n] = Slash

OneSector ==
    /\ Entry.SectorCount = 1 /\ Entry.StartSector < SectorCount
    /\ Entry.StartSector # SectorMapLBA
DataThere == F.Data = disk[Entry.StartSector].bytes

\* The slashes before e have become NULs and nothing else has changed.
CutTo(e) ==
    /\ Path \in Seq(STRING) /\ Len(Path) = Len(Literal)
    /\ \A k \in 1 .. Len(Literal) : Path[k] = IF k < e THEN Nul ELSE Literal[k]

Scanning ==
    /\ Dir = RootDirectory /\ F = NoFile
    /\ DirnameEnd \in 1 .. NameAt /\ CutTo(DirnameEnd)
    /\ DirnameStart = IF DirnameEnd = 1 THEN NameAt ELSE DirnameEnd

InDirectory ==
    /\ Dir = RootDirectory /\ F = NoFile
    /\ DirnameEnd \in 1 .. NameAt - 1 /\ CutTo(DirnameEnd + 1)

Searching == Dir = RootDirectory /\ F = NoFile /\ Path[DirnameStart] = Name

Copying ==
    /\ Named # {}
    /\ F = [Descriptor |-> Entry, Data |-> F.Data]
    /\ OneSector => \/ LBA = Entry.StartSector
                    \/ LBA = Entry.StartSector + 1 /\ DataThere

Answered ==
    IF Named = {} THEN F = NoFile
    ELSE F.Descriptor = Entry /\ (OneSector => DataThere)

\* Inductive invariant: where a call is in its path and in the directory.
ReadInv ==
    /\ DiskType
    /\ paths = [p \in DOMAIN Literals |-> paths[p]]
    /\ pc \in Loading => ~ call.whole
    /\ call.whole => call.path \in DOMAIN Literals
    /\ Plain => /\ pc = "scan" => Scanning
                /\ pc = "ReadDirectory" => InDirectory
                /\ pc = "search" => Searching
                /\ pc = "copy" => Copying
                /\ pc = "ready" => Answered

LEMMA PathEnds ==
    ASSUME NEW p \in DOMAIN Literals
    PROVE  /\ Literals[p] \in Seq(STRING)
           /\ Len(Literals[p]) \in Nat /\ Len(Literals[p]) >= 2
           /\ DOMAIN Literals[p] = 1 .. Len(Literals[p])
           /\ Literals[p][Len(Literals[p])] = Nul
           /\ Literals[p][Len(Literals[p]) - 1] \notin {Slash, Nul}
PROOF
<1>1. Literals[p] \in Seq(STRING)
  BY PathAssumption
<1>2. Len(Literals[p]) \in Nat /\ Len(Literals[p]) >= 2 /\ DOMAIN Literals[p] = 1 .. Len(Literals[p])
  BY <1>1, PathAssumption
<1>3. Len(Literals[p]) - 1 \in 1 .. Len(Literals[p]) - 1
  BY <1>2
<1> QED BY <1>1, <1>2, <1>3, PathAssumption

\* The name begins behind the slashes.
LEMMA Skips ==
    ASSUME NEW path, NEW n \in Nat, n >= 2, DOMAIN path = 1 .. n,
           \A k \in 1 .. n - 2 : path[k] = Slash, path[n - 1] # Slash
    PROVE  SkipSlashes(path) = n - 1
PROOF
<1> DEFINE First(m) == path[m] # Slash /\ \A k \in 1 .. m - 1 : path[k] = Slash
<1>1. n - 1 \in DOMAIN path /\ First(n - 1)
  OBVIOUS
<1>2. ASSUME NEW m \in DOMAIN path, First(m) PROVE m = n - 1
  BY <1>2
<1> QED BY <1>1, <1>2 DEF SkipSlashes

\* The scan stops at a slash, or behind the name.
LEMMA Ends ==
    ASSUME Plain, call.path \in DOMAIN Literals, NEW e \in 1 .. NameAt, CutTo(e)
    PROVE  /\ EndFrom(Path, e) = IF e < NameAt THEN e ELSE Len(Literal)
           /\ e < NameAt => Path[e] = Slash
           /\ Path[Len(Literal)] = Nul /\ Path[NameAt] = Name
PROOF
<1> DEFINE n == Len(Literal)
<1>1. /\ n \in Nat /\ n >= 2 /\ NameAt = n - 1
      /\ Literal[n] = Nul /\ Name \notin {Slash, Nul}
  BY PathEnds DEF Literal, NameAt, Name
<1>2. /\ Len(Path) = n
      /\ \A k \in 1 .. n : Path[k] = IF k < e THEN Nul ELSE Literal[k]
  BY DEF CutTo
<1>3. Path[n] = Nul /\ Path[NameAt] = Name
  BY <1>1, <1>2 DEF Name
<1>4. ASSUME e < NameAt PROVE Path[e] = Slash /\ EndFrom(Path, e) = e
  <2>1. Literal[e] = Slash
    BY <1>1, <1>4 DEF Plain
  <2>2. Path[e] = Slash
    BY <1>1, <1>2, <2>1
  <2>3. e \in e .. n /\ \A k \in e .. e - 1 : FALSE
    BY <1>1
  <2>4. ASSUME NEW m \in e .. n, \A k \in e .. m - 1 : Path[k] \notin {Slash, Nul}
        PROVE  m = e
    BY <2>2, <2>4, <1>1
  <2> QED BY <1>2, <2>2, <2>3, <2>4 DEF EndFrom
<1>5. ASSUME ~ (e < NameAt) PROVE EndFrom(Path, e) = n
  <2>1. e = NameAt /\ e = n - 1
    BY <1>1, <1>5
  <2>2. n \in e .. n /\ \A k \in e .. n - 1 : k = NameAt
    BY <1>1, <2>1
  <2>3. ASSUME NEW m \in e .. n, Path[m] \in {Slash, Nul} PROVE m = n
    BY <2>1, <2>3, <1>1, <1>3
  <2> QED BY <1>1, <1>2, <1>3, <2>2, <2>3 DEF EndFrom
<1> QED BY <1>3, <1>4, <1>5

LEMMA ReadInit == Init => ReadInv
PROOF
<1> SUFFICES ASSUME Init PROVE ReadInv
  OBVIOUS
<1>1. DOMAIN Literals = 1 .. Len(Literals) /\ Literals = [p \in DOMAIN Literals |-> Literals[p]]
  BY PathAssumption
<1> QED BY <1>1, DiskInit DEF Init, ReadInv, Plain

\* A call that is still of the kind the property is about was so before.
LEMMA PlainBefore ==
    ASSUME Plain', call' = call, RootDirectory' = RootDirectory, failed => failed'
    PROVE  Plain /\ Literal' = Literal /\ Name' = Name /\ Named' = Named /\ Entry' = Entry
           /\ NameAt' = NameAt /\ (OneSector' <=> OneSector)
BY DEF Plain, Literal, Name, Named, Entry, NameAt, OneSector

LEMMA CallBegins ==
    ASSUME ReadInv, DiskType', NEW p \in DOMAIN Literals, ReadFile(p)
    PROVE  ReadInv'
PROOF
<1>1. /\ call' = [path |-> p, whole |-> paths[p] = Literals[p]]
      /\ Dir' = RootDirectory /\ F' = NoFile /\ paths' = paths
      /\ DirnameStart' = SkipSlashes(paths[p]) /\ DirnameEnd' = 1
      /\ pc' \in {"search", "scan"} /\ RootDirectory' = RootDirectory
  BY DEF ReadFile
<1>2. /\ paths' = [q \in DOMAIN Literals |-> paths'[q]]
      /\ pc' \notin Loading /\ call'.path \in DOMAIN Literals
  BY <1>1 DEF ReadInv, Loading
<1>3. ASSUME Plain' PROVE Scanning' /\ Searching'
  <2>1. paths[p] = Literals[p] /\ Literal' = Literals[p] /\ Path' = Literals[p]
    BY <1>1, <1>3 DEF Plain, Literal, Path
  <2>2. /\ Literals[p] \in Seq(STRING) /\ Len(Literals[p]) \in Nat /\ Len(Literals[p]) >= 2
        /\ DOMAIN Literals[p] = 1 .. Len(Literals[p])
        /\ Literals[p][Len(Literals[p]) - 1] # Slash
    BY PathEnds
  <2>3. \A k \in 1 .. Len(Literals[p]) - 2 : Literals[p][k] = Slash
    BY <1>3, <2>1 DEF Plain
  <2>4. SkipSlashes(Literals[p]) = Len(Literals[p]) - 1
    BY <2>2, <2>3, Skips
  <2>5. NameAt' = Len(Literals[p]) - 1 /\ Name' = Literals[p][Len(Literals[p]) - 1]
    BY <2>1 DEF NameAt, Name
  <2>6. DirnameStart' = NameAt' /\ 1 \in 1 .. NameAt' /\ Path'[DirnameStart'] = Name'
    BY <1>1, <2>1, <2>2, <2>4, <2>5
  <2>7. CutTo(1)'
    BY <2>1, <2>2 DEF CutTo
  <2>8. CutTo(DirnameEnd)'
    BY <2>7, <1>1 DEF CutTo
  <2> QED BY <1>1, <2>6, <2>8 DEF Scanning, Searching
<1> QED BY <1>1, <1>2, <1>3 DEF ReadInv

LEMMA ScanStep ==
    ASSUME ReadInv, DiskType', Scan
    PROVE  ReadInv'
PROOF
<1> DEFINE end == EndFrom(Path, DirnameEnd)
<1>1. /\ pc = "scan" /\ DirnameEnd' = end
      /\ IF Path[end] = Nul THEN pc' = "search" /\ paths' = paths
         ELSE /\ paths' = [paths EXCEPT ![call.path][end] = Nul]
              /\ pc' = "ReadDirectory"
      /\ failed' = failed /\ RootDirectory' = RootDirectory /\ call' = call
      /\ Dir' = Dir /\ DirnameStart' = DirnameStart /\ F' = F
  BY DEF Scan, diskVars
<1>2. paths' = [q \in DOMAIN Literals |-> paths'[q]] /\ pc' \notin Loading
  BY <1>1 DEF ReadInv, Loading
<1>3. ASSUME Plain'
      PROVE  (pc' = "search" => Searching') /\ (pc' = "ReadDirectory" => InDirectory')
  <2>1. /\ Plain /\ Literal' = Literal /\ Name' = Name /\ NameAt' = NameAt
        /\ call.path \in DOMAIN Literals
    BY <1>1, <1>3, PlainBefore DEF ReadInv, Plain
  <2>2. Scanning
    BY <1>1, <2>1 DEF ReadInv
  <2>3. /\ end = IF DirnameEnd < NameAt THEN DirnameEnd ELSE Len(Literal)
        /\ DirnameEnd < NameAt => Path[DirnameEnd] = Slash
        /\ Path[Len(Literal)] = Nul /\ Path[NameAt] = Name
    BY <2>1, <2>2, Ends DEF Scanning
  <2>4. Len(Literal) \in Nat /\ Len(Literal) >= 2 /\ NameAt = Len(Literal) - 1
    BY <2>1, PathEnds DEF Literal, NameAt
  <2>5. Slash # Nul
    BY DEF Slash, Nul
  <2> HIDE DEF end
  <2>6. CASE DirnameEnd < NameAt
    <3>1. end = DirnameEnd /\ Path[end] # Nul
      BY <2>3, <2>5, <2>6
    <3>2. pc' = "ReadDirectory" /\ Path' = [Path EXCEPT ![end] = Nul]
      BY <1>1, <2>1, <3>1 DEF ReadInv, Path
    <3>3. DirnameEnd \in 1 .. NameAt - 1 /\ end \in 1 .. Len(Path) /\ CutTo(DirnameEnd)
          /\ Len(Path) = Len(Literal)
      BY <2>2, <2>4, <2>6, <3>1 DEF Scanning, CutTo
    <3>4. Nul \in STRING /\ Path \in Seq(STRING)
      <4>1. Literal \in Seq(STRING) /\ Literal[Len(Literal)] = Nul /\ Len(Literal) \in 1 .. Len(Literal)
        BY <2>1, <2>4, PathEnds DEF Literal
      <4>2. Literal[Len(Literal)] \in STRING
        BY <4>1, ElementOfSeq
      <4> QED BY <4>1, <4>2, <3>3 DEF CutTo
    <3>5. /\ Path' \in Seq(STRING) /\ Len(Path') = Len(Literal)
          /\ \A k \in 1 .. Len(Literal) : Path'[k] = IF k = end THEN Nul ELSE Path[k]
      BY <3>2, <3>3, <3>4, ExceptSeq
    <3>6. \A k \in 1 .. Len(Literal) :
              Path'[k] = IF k < DirnameEnd + 1 THEN Nul ELSE Literal[k]
      BY <3>1, <3>3, <3>5 DEF CutTo
    <3>7. CutTo(DirnameEnd + 1)'
      BY <3>5, <3>6, <3>1, <1>1, <2>1 DEF CutTo
    <3> QED BY <1>1, <2>1, <2>2, <3>1, <3>2, <3>3, <3>7 DEF InDirectory, Scanning
  <2>7. CASE ~ (DirnameEnd < NameAt)
    <3>1. Path[end] = Nul
      BY <2>3, <2>7
    <3>2. pc' = "search" /\ Path' = Path
      BY <1>1, <3>1 DEF Path
    <3>3. DirnameStart = NameAt
      BY <2>2, <2>4, <2>7 DEF Scanning
    <3> QED BY <1>1, <2>1, <2>2, <2>3, <3>2, <3>3 DEF Searching, Scanning
  <2> QED BY <2>6, <2>7
<1>4. call'.whole => call'.path \in DOMAIN Literals
  BY <1>1 DEF ReadInv
<1>5. pc' \in {"search", "ReadDirectory"}
  BY <1>1
<1> QED BY <1>2, <1>3, <1>4, <1>5 DEF ReadInv

LEMMA DirectoryStep ==
    ASSUME ReadInv, DiskType', ReadDirectory
    PROVE  ReadInv'
PROOF
<1>1. /\ pc = "ReadDirectory" /\ paths' = paths /\ call' = call /\ F' = F
      /\ RootDirectory' = RootDirectory
      /\ pc' \in {"ReadDirectory", "stuck", "scan"}
      /\ ReadLBA(Dir.next) \/ UNCHANGED diskVars
  BY DEF ReadDirectory, FollowChain, NextName
<1>2. failed => failed'
  <2>1. Dir.next \in Nat
    BY SectorFields DEF ReadInv, DiskType
  <2> QED BY <1>1, <2>1, Reads DEF ReadInv, diskVars
<1>3. ASSUME Plain', pc' # "stuck" PROVE pc' = "scan" /\ Scanning'
  <2>1. /\ Plain /\ Literal' = Literal /\ Name' = Name /\ NameAt' = NameAt
        /\ call.path \in DOMAIN Literals /\ Path' = Path
    BY <1>1, <1>2, <1>3, PlainBefore DEF ReadInv, Plain, Path
  <2>2. InDirectory
    BY <1>1, <2>1 DEF ReadInv
  <2>3. Dir.next = 0
    BY <2>1, <2>2 DEF Plain, InDirectory
  <2>4. /\ pc' = "scan" /\ DirnameEnd' = DirnameEnd + 1 /\ DirnameStart' = DirnameEnd + 1
        /\ Dir' = Dir
    BY <1>3, <2>3 DEF ReadDirectory, NextName
  <2>5. DirnameEnd + 1 \in 1 .. NameAt /\ DirnameEnd + 1 # 1
    <3>1. NameAt \in Nat
      BY <2>1, PathEnds DEF Literal, NameAt
    <3> QED BY <2>2, <3>1 DEF InDirectory
  <2>6. CutTo(DirnameEnd)'
    BY <2>1, <2>2, <2>4 DEF InDirectory, CutTo
  <2> QED BY <1>1, <2>1, <2>2, <2>4, <2>5, <2>6 DEF InDirectory, Scanning
<1>4. pc' \notin Loading /\ pc' \notin {"search", "copy", "ready"}
  BY <1>1 DEF Loading
<1> QED BY <1>1, <1>3, <1>4 DEF ReadInv

\* The entry of the name is one of the directory's.
LEMMA EntryFound ==
    ASSUME DiskType, Named # {}
    PROVE  /\ FileNamed(RootDirectory, Name) # 0
           /\ RootDirectory.files[FileNamed(RootDirectory, Name)] = Entry
           /\ Entry.StartSector \in Nat /\ Entry.SectorCount \in Nat
PROOF
<1>1. RootDirectory \in Sectors
  BY DEF DiskType
<1>2. /\ FileNamed(RootDirectory, Name) = Min(Named)
      /\ FileNamed(RootDirectory, Name) # 0
      /\ RootDirectory.files[FileNamed(RootDirectory, Name)] \in Descriptors
  BY <1>1, NamedEntry DEF Named
<1>3. \A d \in Descriptors : d.StartSector \in Nat /\ d.SectorCount \in Nat
  BY DiskAssumption DEF Descriptors, Words
<1> QED BY <1>2, <1>3 DEF Entry

\* Without one nothing is found.
LEMMA NothingFound ==
    ASSUME DiskType, Named = {}
    PROVE  FileNamed(RootDirectory, Name) = 0
PROOF
<1>1. RootDirectory \in Sectors
  BY DEF DiskType
<1>2. \A named : named = {i \in DOMAIN RootDirectory.files : RootDirectory.files[i].Name = Name}
                 => (named = {} => FileNamed(RootDirectory, Name) = 0)
  BY <1>1, NamedEntry
<1> QED BY <1>2 DEF Named

LEMMA SearchStep ==
    ASSUME ReadInv, DiskType', Search
    PROVE  ReadInv'
PROOF
<1> DEFINE i == FileNamed(Dir, Path[DirnameStart])
<1>1. /\ pc = "search" /\ paths' = paths /\ call' = call /\ Dir' = Dir
      /\ RootDirectory' = RootDirectory /\ failed' = failed /\ disk' = disk
      /\ IF i = 0 THEN pc' = "ready" /\ F' = F
         ELSE /\ F' = [NoFile EXCEPT !.Descriptor = Dir.files[i]]
              /\ LBA' = Dir.files[i].StartSector
              /\ pc' = "copy"
  BY DEF Search, diskVars
<1>2. ASSUME Plain' PROVE (pc' = "ready" => Answered') /\ (pc' = "copy" => Copying')
  <2>1. /\ Plain /\ Named' = Named /\ Entry' = Entry
    BY <1>1, <1>2, PlainBefore
  <2>2. Dir = RootDirectory /\ F = NoFile /\ Path[DirnameStart] = Name
    BY <1>1, <2>1 DEF ReadInv, Searching
  <2>3. i = FileNamed(RootDirectory, Name)
    BY <2>2
  <2> HIDE DEF i
  <2>4. CASE Named = {}
    <3>1. i = 0
      BY <2>3, <2>4, NothingFound DEF ReadInv
    <3> QED BY <1>1, <2>1, <2>2, <2>4, <3>1 DEF Answered
  <2>5. CASE Named # {}
    <3>1. i # 0 /\ Dir.files[i] = Entry
      BY <2>2, <2>3, <2>5, EntryFound DEF ReadInv
    <3>2. F' = [NoFile EXCEPT !.Descriptor = Entry] /\ LBA' = Entry.StartSector /\ pc' = "copy"
      BY <1>1, <3>1
    <3>3. F' = [Descriptor |-> Entry, Data |-> F'.Data]
      BY <3>2 DEF NoFile
    <3> QED BY <2>1, <2>5, <3>2, <3>3 DEF Copying
  <2> QED BY <2>4, <2>5
<1>3. pc' \in {"ready", "copy"}
  BY <1>1
<1> QED BY <1>1, <1>2, <1>3 DEF ReadInv, Loading

LEMMA CopyStep ==
    ASSUME ReadInv, DiskType', Copy
    PROVE  ReadInv'
PROOF
<1>1. /\ pc = "copy" /\ paths' = paths /\ call' = call /\ RootDirectory' = RootDirectory
      /\ IF LBA < BehindFile
         THEN /\ ReadLBA(LBA) /\ F' = [F EXCEPT !.Data = buffer'.bytes]
              /\ LBA' = (LBA + 1) % WordLimit /\ pc' = pc
         ELSE pc' = "ready" /\ UNCHANGED diskVars /\ F' = F
  BY DEF Copy
<1>2. /\ failed => failed'
      /\ disk' = disk
      /\ LBA < BehindFile /\ ~ failed' /\ LBA < SectorCount => buffer' = disk[LBA]
  BY <1>1, Reads DEF ReadInv, DiskType, diskVars
<1>3. ASSUME Plain' PROVE (pc' = "ready" => Answered') /\ (pc' = "copy" => Copying')
  <2>1. /\ Plain /\ ~ failed' /\ Named' = Named /\ Entry' = Entry /\ (OneSector' <=> OneSector)
    BY <1>1, <1>2, <1>3, PlainBefore DEF Plain
  <2>2. Copying
    BY <1>1, <2>1 DEF ReadInv
  <2>3. Entry.StartSector \in Nat /\ Entry.SectorCount \in Nat
    BY <2>2, EntryFound DEF Copying, ReadInv
  <2>4. F.Descriptor = Entry
    BY <2>2 DEF Copying
  <2>5. BehindFile = Entry.StartSector + Entry.SectorCount
    BY <2>4 DEF BehindFile
  <2>6. CASE LBA < BehindFile
    <3>1. F' = [Descriptor |-> Entry, Data |-> buffer'.bytes]
      BY <1>1, <2>2, <2>6 DEF Copying
    <3>2. F' = [Descriptor |-> Entry, Data |-> F'.Data] /\ F'.Data = buffer'.bytes
      BY <3>1
    <3>3. ASSUME OneSector PROVE LBA' = Entry.StartSector + 1 /\ DataThere'
      <4>1. LBA = Entry.StartSector /\ LBA < SectorCount
        BY <2>2, <2>3, <2>5, <2>6, <3>3, DiskAssumption DEF Copying, OneSector
      <4>2. (LBA + 1) % WordLimit = LBA + 1
        BY <4>1, <2>3, DiskAssumption
      <4> QED BY <1>1, <1>2, <2>1, <2>6, <3>2, <4>1, <4>2 DEF DataThere
    <3> QED BY <1>1, <2>1, <2>2, <2>6, <3>2, <3>3 DEF Copying
  <2>7. CASE ~ (LBA < BehindFile)
    <3>1. pc' = "ready" /\ F' = F
      BY <1>1, <2>7
    <3>2. ASSUME OneSector PROVE DataThere
      BY <2>2, <2>3, <2>5, <2>7, <3>2 DEF Copying, OneSector
    <3>3. DataThere' <=> DataThere
      BY <1>2, <2>1, <3>1 DEF DataThere
    <3> QED BY <2>1, <2>2, <2>4, <3>1, <3>2, <3>3 DEF Copying, Answered
  <2> QED BY <2>6, <2>7
<1>4. pc' \in {"ready", "copy"}
  BY <1>1
<1> QED BY <1>1, <1>3, <1>4 DEF ReadInv, Loading

\* What has been read stays where it is.
LEMMA StaysAnswered ==
    ASSUME ReadInv, DiskType', pc = "ready", pc' = pc, call' = call, paths' = paths, F' = F,
           RootDirectory' = RootDirectory, failed => failed',
           \A l \in 0 .. SectorCount - 1 : l # SectorMapLBA => disk'[l] = disk[l]
    PROVE  ReadInv'
PROOF
<1>1. ASSUME Plain' PROVE Answered'
  <2>1. /\ Plain /\ ~ failed' /\ Named' = Named /\ Entry' = Entry /\ (OneSector' <=> OneSector)
    BY <1>1, PlainBefore DEF Plain
  <2>2. Answered
    BY <2>1 DEF ReadInv
  <2>3. ASSUME Named # {}, OneSector PROVE DataThere'
    <3>1. Entry.StartSector \in 0 .. SectorCount - 1 /\ Entry.StartSector # SectorMapLBA
      BY <2>3, EntryFound, DiskAssumption DEF ReadInv, OneSector
    <3>2. disk'[Entry.StartSector].bytes = disk[Entry.StartSector].bytes
      BY <2>1, <3>1
    <3> QED BY <2>1, <2>2, <2>3, <3>2 DEF Answered, DataThere
  <2> QED BY <2>1, <2>2, <2>3 DEF Answered
<1> QED BY <1>1 DEF ReadInv, Loading

\* Every other sector is what it was.
LEMMA WriteStep ==
    ASSUME ReadInv, DiskType', WriteSectorMapChanges
    PROVE  ReadInv'
PROOF
<1>1. /\ pc = "ready" /\ ~ failed /\ pc' = pc /\ call' = call /\ paths' = paths /\ F' = F
      /\ RootDirectory' = RootDirectory
  BY DEF WriteSectorMapChanges, Idle, readVars
<1>2. \A l \in 0 .. SectorCount - 1 : l # SectorMapLBA => disk'[l] = disk[l]
  <2>1. PICK read \in BOOLEAN, written \in BOOLEAN :
            disk' = IF written THEN [disk EXCEPT ![SectorMapLBA] = buffer'] ELSE disk
    BY DEF WriteSectorMapChanges
  <2> QED BY <2>1, DiskAssumption DEF ReadInv, DiskType
<1> QED BY <1>1, <1>2, StaysAnswered

LEMMA ReadNext == ReadInv /\ [Next]_fsVars => ReadInv'
PROOF
<1> SUFFICES ASSUME ReadInv, [Next]_fsVars PROVE ReadInv'
  OBVIOUS
<1>0. DiskType'
  BY DiskNext DEF ReadInv
<1>1. CASE LoadFSRootDirectory \/ LoadSectorMap
  <2>1. /\ pc \in Loading /\ pc' \in {"LoadSectorMap", "ready"}
        /\ call' = call /\ paths' = paths
    BY <1>1 DEF LoadFSRootDirectory, LoadSectorMap, Goes, readVars, Loading
  <2>2. ~ call'.whole
    BY <2>1 DEF ReadInv
  <2> QED BY <1>0, <2>1, <2>2 DEF ReadInv, Plain
<1>2. CASE Reboot
  <2>1. ~ call'.whole /\ paths' = Literals
    BY <1>2 DEF Reboot
  <2>2. Literals = [p \in DOMAIN Literals |-> Literals[p]]
    BY PathAssumption
  <2> QED BY <1>0, <2>1, <2>2 DEF ReadInv, Plain
<1>3. CASE Mark
  <2>1. /\ pc = "ready" /\ pc' = pc /\ call' = call /\ paths' = paths /\ F' = F
        /\ RootDirectory' = RootDirectory /\ failed' = failed /\ disk' = disk
    BY <1>3 DEF Mark, Idle, diskVars, readVars
  <2> QED BY <1>0, <2>1, StaysAnswered DEF ReadInv
<1>4. CASE WriteSectorMapChanges
  BY <1>0, <1>4, WriteStep
<1>5. CASE \E p \in DOMAIN Literals : ReadFile(p)
  BY <1>0, <1>5, CallBegins
<1>6. CASE ReadStep
  BY <1>0, <1>6, ScanStep, DirectoryStep, SearchStep, CopyStep DEF ReadStep
<1>7. CASE UNCHANGED fsVars
  <2>1. /\ disk' = disk /\ buffer' = buffer /\ failed' = failed
        /\ RootDirectory' = RootDirectory /\ paths' = paths /\ pc' = pc
        /\ call' = call /\ Dir' = Dir /\ DirnameStart' = DirnameStart
        /\ DirnameEnd' = DirnameEnd /\ F' = F /\ LBA' = LBA
    BY <1>7 DEF fsVars, diskVars, readVars
  <2>2. (Plain' <=> Plain) /\ (Scanning' <=> Scanning) /\ (InDirectory' <=> InDirectory)
    BY <2>1 DEF Plain, Scanning, InDirectory, CutTo, Path, Literal, NameAt
  <2>3. (Searching' <=> Searching) /\ (Copying' <=> Copying) /\ (Answered' <=> Answered)
    BY <2>1 DEF Searching, Copying, Answered, Path, Literal, NameAt, Name, Named, Entry,
                OneSector, DataThere
  <2> QED BY <1>0, <2>1, <2>2, <2>3 DEF ReadInv
<1> QED BY <1>1, <1>2, <1>3, <1>4, <1>5, <1>6, <1>7 DEF Next

\* A file of one sector in the root directory is read whole, on every disk, under
\* every legal path and after any calls before (FileSystem.c:143-200).
THEOREM FilesAreRead == Spec => []ReadsTheFile
PROOF
<1>1. ReadInv => ReadsTheFile
  <2> SUFFICES ASSUME ReadInv PROVE ReadsTheFile
    OBVIOUS
  <2>1. ASSUME Plain, pc = "ready"
        PROVE  IF Named = {} THEN F = NoFile
               ELSE /\ F.Descriptor = Entry
                    /\ /\ Entry.SectorCount = 1 /\ Entry.StartSector < SectorCount
                       /\ Entry.StartSector # SectorMapLBA
                       => F.Data = disk[Entry.StartSector].bytes
    BY <2>1 DEF ReadInv, Answered, OneSector, DataThere
  <2> QED BY <2>1 DEF ReadsTheFile, Plain, Named, Entry, Name, NameAt, Literal
<1> QED BY <1>1, ReadInit, ReadNext, PTL DEF Spec
=============================================================================
