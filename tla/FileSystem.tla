----------------------------- MODULE FileSystem -----------------------------
(***************************************************************************)
(* The file system of the previous tree's kernel, Kernel/FileSystem.c:     *)
(* FS_Initialize, ReadFile and the sector map.  A sector is a record of    *)
(* what its 512 bytes are when they are taken for a directory descriptor   *)
(* (files, next), for the sector map (groups) and for data (bytes).  A     *)
(* path is a sequence of names, slashes and the NUL behind it, in memory   *)
(* that ReadFile writes to.  A name is one token: the five bytes that      *)
(* NameCompare compares, whatever lies behind them.  A read of the driver  *)
(* is one step here, with the outcomes BlockDevice has for it.             *)
(***************************************************************************)
EXTENDS Integers, FiniteSets, SequencesExt

CONSTANTS
    Disks,         \* the disks the machine starts with: functions from sectors
    Literals,      \* the paths ReadFile is called with, numbered from 1
    MapBytes,      \* the bytes of the sector map: 360 in the code
    MarkedSectors, \* the sectors whose status is set
    SectorCount,   \* 2880 in the code
    WordLimit,     \* the values of an unsigned short: 65536 in the code
    FSRootDirectoryLBA, SectorMapLBA  \* in the boot sector

Slash == "/"
Nul == "nul"

Words == 0 .. WordLimit - 1
Descriptors ==
    [Name : STRING, Directory : BOOLEAN, StartSector : Words, SectorCount : Words]
Sectors ==
    [files : Seq(Descriptors), next : Words, groups : [0 .. MapBytes - 1 -> 0 .. 255],
     bytes : Int]

ASSUME DiskAssumption ==
    /\ SectorCount \in Nat /\ WordLimit \in Nat /\ SectorCount < WordLimit
    /\ {FSRootDirectoryLBA, SectorMapLBA} \subseteq 1 .. SectorCount - 1
    /\ FSRootDirectoryLBA # SectorMapLBA
    /\ Disks \subseteq [0 .. SectorCount - 1 -> Sectors]
    /\ MapBytes \in Nat /\ MarkedSectors \subseteq 0 .. 8 * MapBytes - 1

\* A path ends with the name of a file and the NUL behind it.
ASSUME PathAssumption ==
    /\ Literals \in Seq(Seq(STRING))
    /\ \A p \in DOMAIN Literals :
        LET path == Literals[p] IN
        /\ Len(path) >= 2 /\ path[Len(path)] = Nul
        /\ \A k \in 1 .. Len(path) - 1 : path[k] # Nul
        /\ path[Len(path) - 1] # Slash

VARIABLES
    disk,
    buffer,         \* the sector at 0x7E00
    failed,         \* a read or a write has failed since the machine was started
    RootDirectory, SectorMap,
    paths,          \* Literals as they are in memory
    pc,
    call,           \* the path of the last ReadFile and whether it was whole
    Dir, DirnameStart, DirnameEnd, F, LBA,
    used, saved     \* history: the sectors marked, and those marked on the disk

mapVars == <<used, saved>>
diskVars == <<disk, buffer, failed>>
readVars == <<call, Dir, DirnameStart, DirnameEnd, F, LBA>>
fsVars == <<diskVars, RootDirectory, SectorMap, paths, pc, readVars, mapVars>>

\* What the caller's structure holds: nothing it can use.
NoFile ==
    [Descriptor |-> [Name |-> Nul, Directory |-> FALSE, StartSector |-> 0, SectorCount |-> 0],
     Data |-> -1]

-----------------------------------------------------------------------------
(* The sector map: a byte for eight sectors, the highest bit for the first. *)

SectorBit(Sector) == <<128, 64, 32, 16, 8, 4, 2, 1>>[(Sector % 8) + 1]

GetSectorStatus(groups, Sector) == (groups[Sector \div 8] \div SectorBit(Sector)) % 2

\* The bits of a map are a set of sectors: this one, and these.
IsSet(groups, S) ==
    \A s \in 0 .. 8 * MapBytes - 1 :
        GetSectorStatus(groups, s) = IF s \in S THEN 1 ELSE 0

MarkedIn(groups) == {s \in 0 .. 8 * MapBytes - 1 : GetSectorStatus(groups, s) = 1}

-----------------------------------------------------------------------------
(* The driver, and FS_Initialize *)

\* A sector the driver does not know is left unread; the kernel cannot tell
\* that, nor a failure, which may leave anything in the buffer.
ReadLBA(l) ==
    /\ UNCHANGED disk
    /\ IF l >= SectorCount THEN UNCHANGED <<buffer, failed>>
       ELSE \/ buffer' = disk[l] /\ UNCHANGED failed
            \/ failed' = TRUE /\ buffer' \in {buffer, disk[(l + 1) % SectorCount]}

Init ==
    /\ disk \in Disks /\ buffer = disk[0] /\ failed = FALSE
    /\ RootDirectory = disk[0] /\ SectorMap = disk[0].groups
    /\ paths = Literals /\ pc = "LoadFSRootDirectory"
    /\ call = [path |-> 1, whole |-> FALSE]
    /\ Dir = disk[0] /\ DirnameStart = 1 /\ DirnameEnd = 1
    /\ F = NoFile /\ LBA = 0
    /\ saved = MarkedIn(disk[SectorMapLBA].groups) /\ used = saved

Goes(from, to) == pc = from /\ pc' = to

\* Bound of the model: after a failure nothing is called until a restart.
Idle == pc = "ready" /\ ~ failed

LoadFSRootDirectory ==
    /\ Goes("LoadFSRootDirectory", "LoadSectorMap")
    /\ ReadLBA(FSRootDirectoryLBA)
    /\ RootDirectory' = buffer'
    /\ UNCHANGED <<SectorMap, paths, readVars, mapVars>>

LoadSectorMap ==
    /\ Goes("LoadSectorMap", "ready")
    /\ ReadLBA(SectorMapLBA)
    /\ SectorMap' = buffer'.groups
    /\ UNCHANGED <<RootDirectory, paths, readVars, mapVars>>

\* The machine is started again: memory is loaded anew, the disk is as it was.
Reboot ==
    /\ Goes("ready", "LoadFSRootDirectory")
    /\ buffer' = disk[0] /\ failed' = FALSE
    /\ paths' = Literals /\ used' = saved
    /\ call' = [path |-> 1, whole |-> FALSE] /\ F' = NoFile
    /\ UNCHANGED <<disk, RootDirectory, SectorMap, Dir, DirnameStart, DirnameEnd, LBA, saved>>

-----------------------------------------------------------------------------
(* Marking sectors, which nothing calls yet *)

\* Mutant of SetSectorStatus: the bit is toggled whatever it was.
SetSectorStatusToggles(groups, Sector, Status) ==
    [groups EXCEPT ![Sector \div 8] =
        @ + IF GetSectorStatus(groups, Sector) = 1 THEN - SectorBit(Sector)
            ELSE SectorBit(Sector)]

\* A bit that differs is toggled.
SetSectorStatus(groups, Sector, Status) ==
    IF GetSectorStatus(groups, Sector) = Status THEN groups
    ELSE [groups EXCEPT ![Sector \div 8] =
              @ + IF Status = 1 THEN SectorBit(Sector) ELSE - SectorBit(Sector)]

Mark ==
    /\ Idle
    /\ \E s \in MarkedSectors, status \in {0, 1} :
        /\ SectorMap' = SetSectorStatus(SectorMap, s, status)
        /\ used' = IF status = 1 THEN used \cup {s} ELSE used \ {s}
    /\ UNCHANGED <<diskVars, RootDirectory, paths, pc, readVars, saved>>

\* The map replaces the first bytes of a sector, which as data is another one
\* then, unless they are the same. (No directory lies there.)
MapData == -2
MapLaidOver(sector) ==
    [files |-> sector.files, next |-> sector.next, groups |-> SectorMap,
     bytes |-> IF SectorMap = sector.groups THEN sector.bytes ELSE MapData]

\* The map's sector is read, its first bytes are replaced, and it is written.
WriteSectorMapChanges ==
    /\ Idle
    /\ \E read, written \in BOOLEAN :
        /\ buffer' = MapLaidOver(IF read THEN disk[SectorMapLBA] ELSE buffer)
        /\ disk' = IF written THEN [disk EXCEPT ![SectorMapLBA] = buffer'] ELSE disk
        /\ saved' = IF written THEN used ELSE saved
        /\ failed' = ~ (read /\ written)
    /\ UNCHANGED <<RootDirectory, SectorMap, paths, pc, readVars, used>>

-----------------------------------------------------------------------------
(* ReadFile *)

Path == paths[call.path]

\* The first slash or NUL from n on, and the first token that is no slash.
EndFrom(path, n) == CHOOSE m \in n .. Len(path) :
    path[m] \in {Slash, Nul} /\ \A k \in n .. m - 1 : path[k] \notin {Slash, Nul}
SkipSlashes(path) == CHOOSE m \in DOMAIN path :
    path[m] # Slash /\ \A k \in 1 .. m - 1 : path[k] = Slash

\* The first directory of a name in a descriptor, 0 if there is none.
FolderNamed(d, name) ==
    LET Named(f) == f.Directory /\ f.Name = name IN SelectInSeq(d.files, Named)

\* Mutant of FileNamed: the last one.
FileNamedLast(d, name) ==
    LET Named(f) == f.Name = name IN SelectLastInSeq(d.files, Named)

\* The first entry of a name, of whatever kind.
FileNamed(d, name) ==
    LET Named(f) == f.Name = name IN SelectInSeq(d.files, Named)

\* InDir has no value yet: what is on the stack may be taken for one.
ReadFile(p) ==
    /\ Idle
    /\ call' = [path |-> p, whole |-> paths[p] = Literals[p]]
    /\ Dir' = RootDirectory /\ F' = NoFile
    /\ DirnameStart' = SkipSlashes(paths[p]) /\ DirnameEnd' = 1
    /\ \E InDir \in BOOLEAN : pc' = IF InDir THEN "search" ELSE "scan"
    /\ UNCHANGED <<diskVars, RootDirectory, SectorMap, paths, LBA, mapVars>>

\* The path is cut up where it is: its slashes become NULs.
Scan ==
    /\ pc = "scan"
    /\ LET end == EndFrom(Path, DirnameEnd) IN
       /\ DirnameEnd' = end
       /\ IF Path[end] = Nul THEN pc' = "search" /\ UNCHANGED paths
          ELSE /\ paths' = [paths EXCEPT ![call.path][end] = Nul]
               /\ pc' = "ReadDirectory"
    /\ UNCHANGED <<diskVars, RootDirectory, SectorMap, call, Dir, DirnameStart, F, LBA, mapVars>>

\* ReadFile goes on behind the name.
NextName == pc' = "scan" /\ DirnameEnd' = DirnameEnd + 1 /\ DirnameStart' = DirnameEnd + 1

\* Mutant of FollowChain: the chain is followed from the root directory.
FollowChainAgain == ReadLBA(RootDirectory.next) /\ Dir' = buffer'

FollowChain == ReadLBA(Dir.next) /\ Dir' = buffer'

\* A directory of that name: the sector behind the descriptor is read, and its
\* first byte copied for ever.  No such directory: the same is asked of the next
\* descriptor, and Dir is the last one when there is none left.
ReadDirectory ==
    /\ pc = "ReadDirectory"
    /\ IF FolderNamed(Dir, Path[DirnameStart]) # 0
       THEN ReadLBA(Dir.next) /\ pc' = "stuck" /\ UNCHANGED <<Dir, DirnameStart, DirnameEnd>>
       ELSE IF Dir.next # 0
       THEN FollowChain /\ UNCHANGED <<pc, DirnameStart, DirnameEnd>>
       ELSE NextName /\ UNCHANGED <<diskVars, Dir>>
    /\ UNCHANGED <<RootDirectory, SectorMap, paths, call, F, LBA, mapVars>>

Search ==
    /\ pc = "search"
    /\ LET i == FileNamed(Dir, Path[DirnameStart]) IN
       IF i = 0 THEN pc' = "ready" /\ UNCHANGED <<F, LBA>>
       ELSE /\ F' = [NoFile EXCEPT !.Descriptor = Dir.files[i]]
            /\ LBA' = Dir.files[i].StartSector
            /\ pc' = "copy"
    /\ UNCHANGED <<diskVars, RootDirectory, SectorMap, paths, call, Dir, DirnameStart,
                   DirnameEnd, mapVars>>

BehindFile == F.Descriptor.StartSector + F.Descriptor.SectorCount

\* Every sector goes to the first 512 bytes of the file's memory.
Copy ==
    /\ pc = "copy"
    /\ IF LBA < BehindFile
       THEN /\ ReadLBA(LBA)
            /\ F' = [F EXCEPT !.Data = buffer'.bytes]
            /\ LBA' = (LBA + 1) % WordLimit
            /\ UNCHANGED pc
       ELSE pc' = "ready" /\ UNCHANGED <<diskVars, F, LBA>>
    /\ UNCHANGED <<RootDirectory, SectorMap, paths, call, Dir, DirnameStart, DirnameEnd,
                   mapVars>>

ReadStep == Scan \/ ReadDirectory \/ Search \/ Copy

Next ==
    \/ LoadFSRootDirectory \/ LoadSectorMap \/ Reboot
    \/ Mark \/ WriteSectorMapChanges
    \/ \E p \in DOMAIN Literals : ReadFile(p)
    \/ ReadStep

\* The kernel goes on, without a failure it may have to wait for: every read of
\* the driver returns.
Spec ==
    /\ Init /\ [][Next]_fsVars
    /\ WF_fsVars((LoadFSRootDirectory \/ LoadSectorMap \/ ReadStep) /\ failed' = failed)

-----------------------------------------------------------------------------

\* A file of one sector in the root directory is read whole: the descriptor is
\* that of the first entry of its name and the data its sector, if the map does
\* not lie there, whatever InDir held, whatever was read before, and only what is not there is not found
\* (FileSystem.c:143-200).  For a path passed before, a root directory of several
\* descriptors or a file of several sectors the code does something else.
ReadsTheFile ==
    LET literal == Literals[call.path]
        name == literal[Len(literal) - 1]
        entries == RootDirectory.files
        named == {i \in DOMAIN entries : entries[i].Name = name}
    IN  (/\ pc = "ready" /\ call.whole /\ ~ failed /\ RootDirectory.next = 0
         /\ \A n \in 1 .. Len(literal) - 2 : literal[n] = Slash)
        => IF named = {} THEN F = NoFile
           ELSE LET f == entries[Min(named)] IN
                /\ F.Descriptor = f
                /\ /\ f.SectorCount = 1 /\ f.StartSector < SectorCount
                      /\ f.StartSector # SectorMapLBA
                   => F.Data = disk[f.StartSector].bytes

\* The descriptor ReadDirectory has behind another one, and the first of them
\* that its calls of itself come to: one with a directory of the name, or the
\* last of its chain.  A chain may also go round in a circle, or leave the disk
\* and with it come to the same descriptor again.
Behind(d, held) == IF d.next < SectorCount THEN disk[d.next] ELSE held

ChainEnds ==
    LET chain[n \in 0 .. SectorCount + 1] ==
            CASE n = 0 -> Dir
              [] n = 1 -> Behind(Dir, buffer)
              [] OTHER -> Behind(chain[n - 1], chain[n - 1])
    IN  \E n \in DOMAIN chain :
            chain[n].next = 0 \/ FolderNamed(chain[n], Path[DirnameStart]) # 0

\* Where ReadFile does not come back from: a directory of the name asked for
\* (FileSystem.c:122), a chain of descriptors that has no end (130-138), and a
\* file whose end does not fit in an unsigned short (187).
Endless ==
    \/ pc = "stuck"
    \/ pc = "ReadDirectory" /\ ~ ChainEnds
    \/ pc = "copy" /\ BehindFile >= WordLimit

\* In every other case, and unless a read has failed, ReadFile returns: a chain
\* that ends and the path are gone through once (FileSystem.c:113-171).
Returns == pc # "ready" ~> (pc = "ready" \/ Endless \/ failed)

\* The bits are the set of the sectors marked: marking one changes no other, and
\* what is written back is what a restarted machine loads (FileSystem.c:64-111).
SectorMapIsASet == pc = "ready" /\ ~ failed => IsSet(SectorMap, used)
=============================================================================
