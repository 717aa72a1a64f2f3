---------------------------- MODULE MCFileSystem ----------------------------
(***************************************************************************)
(* FileSystem on disks of six sectors with an unsigned short of three      *)
(* bits: the image the repository builds; a root directory with two        *)
(* entries of a name, files outside the disk and beyond the range of an    *)
(* unsigned short; a directory in a chain of three descriptors; a file     *)
(* that only the end of such a chain has; chains that go round in a        *)
(* circle, and that leave the disk from the root or from behind it.  Their *)
(* maps have the first byte, both, none or single sectors marked.          *)
(***************************************************************************)
EXTENDS FileSystem

File(name, start, count) ==
    [Name |-> name, Directory |-> FALSE, StartSector |-> start, SectorCount |-> count]
Folder(name) == [File(name, 0, 0) EXCEPT !.Directory = TRUE]

Data(n) == [files |-> <<>>, next |-> 0, groups |-> [g \in {0, 1} |-> 85], bytes |-> n]
Descriptor(n, files, next) == [Data(n) EXCEPT !.files = files, !.next = next]

\* The map's bytes are numbered from 0.
Disk(map, root, third, fourth) ==
    [l \in 0 .. 5 |->
        CASE l = 1 -> root
          [] l = 2 -> [Data(2) EXCEPT !.groups = [g \in {0, 1} |-> map[g + 1]]]
          [] l = 3 -> third
          [] l = 4 -> fourth
          [] OTHER -> Data(l)]

Image == Disk(<<255, 0>>, Descriptor(1, <<File("SYSTM", 0, 1)>>, 0), Data(3), Data(4))
Strange ==
    Disk(<<255, 255>>,
         Descriptor(1, <<File("SYSTM", 5, 1), File("FILE1", 6, 1),
                         File("SYSTM", 3, 1), File("LARGE", 7, 1)>>, 0), Data(3), Data(4))
Chain ==
    Disk(<<129, 1>>, Descriptor(1, <<File("FILE1", 5, 1)>>, 3), Descriptor(3, <<>>, 4),
         Descriptor(4, <<File("SYSTM", 0, 2), Folder("FILE1")>>, 0))
Folders ==
    Disk(<<255, 0>>, Descriptor(1, <<Folder("SYSTM"), Folder("DIRS1")>>, 0), Data(3), Data(4))
Circle ==
    Disk(<<255, 0>>, Descriptor(1, <<File("LARGE", 5, 1)>>, 3), Descriptor(3, <<>>, 4),
         Descriptor(4, <<Folder("DIRS1")>>, 3))
RootOff == Disk(<<0, 0>>, Descriptor(1, <<File("LARGE", 5, 1)>>, 7), Data(3), Data(4))
BehindOff ==
    Disk(<<0, 128>>, Descriptor(1, <<File("LARGE", 5, 1)>>, 3), Descriptor(3, <<>>, 6), Data(4))

MCDisks == {Image, Strange, Chain, Folders, Circle, RootOff, BehindOff}

MCLiterals ==
    <<<<Slash, "SYSTM", Nul>>, <<"LARGE", Nul>>, <<Slash, "DIRS1", Slash, "FILE1", Nul>>>>
=============================================================================
