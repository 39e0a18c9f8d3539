-------------------------------- MODULE Fat --------------------------------
(***************************************************************************)
(* The FAT file system (disk/fat.rs).  Besides its data a disk d has bpb,  *)
(* the fields of the sectors that can be taken for a boot sector, by LBA,  *)
(* and root, the slots of the areas that hold a directory, by LBA.  Names  *)
(* are those the code trims and converts to upper case; a full name is a   *)
(* name with its extension.  The file allocation table and the clusters    *)
(* are the bytes of the data.  The code's 512 is SectorSize.               *)
(***************************************************************************)
EXTENDS Disk, SequencesExt

\* No entry of sixteen bits lies across two sectors.
ASSUME FatAssumption == SectorSize % 2 = 0

Ceil(n, size) == (n + size - 1) \div size

-----------------------------------------------------------------------------
\* detect: the first sector that could be a boot sector.

ScanLimit == 2048
ClusterSizes == {1, 2, 4, 8, 16, 32, 64, 128}

Reasonable(b) ==
  /\ b.bps \in {SectorSize, 2 * SectorSize, 4 * SectorSize}
  /\ b.spc \in ClusterSizes
  /\ b.fats \in 1 .. 2 /\ b.entries # 0 /\ b.spf # 0

Multiplier(b) == b.bps \div SectorSize
RootStart(b) == b.reserved + b.fats * b.spf
RootLba(b, lba) == lba + RootStart(b) * Multiplier(b)

\* Byte 0 and byte 11 of a sector: the name's first and the attributes.
LooksLikeDirectory(d, lba) ==
  /\ InRange(d, lba, 1)
  /\ \/ d.data[lba * SectorSize + 12] <= 63
     \/ d.data[lba * SectorSize + 1] \in {0, 229}

Detects(d, lba) ==
  /\ InRange(d, lba, 1) /\ lba \in DOMAIN d.bpb
  /\ Reasonable(d.bpb[lba])
  /\ LooksLikeDirectory(d, RootLba(d.bpb[lba], lba))

\* Mutant: the size of the directory is rounded down.
RootSectorsDown(b) == (32 * b.entries) \div b.bps

RootSectors(b) == Ceil(32 * b.entries, b.bps)

\* The file system of boot sector lba, in physical sectors.
FsAt(d, lba) ==
  LET b == d.bpb[lba]
      total == IF b.small # 0 THEN b.small ELSE b.large
      used == RootStart(b) + RootSectors(b)
      clusters == (IF total > used THEN total - used ELSE 0) \div b.spc
  IN [fat |-> lba + b.reserved * Multiplier(b),
      root |-> RootLba(b, lba),
      data |-> RootLba(b, lba) + RootSectors(b) * Multiplier(b),
      entries |-> b.entries,
      spc |-> b.spc * Multiplier(b),
      fat12 |-> clusters < 4085]

-----------------------------------------------------------------------------
\* list_root_dir: slot i, if the directory goes on to it, and whether it names
\* a file.  An area without slots is empty.

DirectorySectors(fs) == Ceil(32 * fs.entries, SectorSize)
RootReadable(d, fs) == InRange(d, fs.root, DirectorySectors(fs))

Slots(d, fs) == IF fs.root \in DOMAIN d.root THEN d.root[fs.root] ELSE <<>>
HasSlot(d, fs, i) ==
  /\ i <= fs.entries /\ i <= Len(Slots(d, fs))
  /\ Slots(d, fs)[i].mark # "end"
IsFile(slot) == slot.mark # "deleted" /\ ~slot.label /\ slot.name # ""

FullName(e) == <<e.name, e.ext>>

-----------------------------------------------------------------------------
\* read_file: one cluster, and the next.

InChain(fs, cluster) ==
  cluster >= 2 /\ cluster < (IF fs.fat12 THEN 4080 ELSE 65520)
ClusterLba(fs, cluster) == fs.data + (cluster - 2) * fs.spc
ClusterReadable(d, fs, cluster) ==
  InRange(d, ClusterLba(fs, cluster), fs.spc)
ReadCluster(d, fs, cluster) ==
  ReadSectors(d, ClusterLba(fs, cluster), fs.spc)

\* An entry of twelve bits may lie across two sectors, so that two are read.
FatOffset(fs, cluster) ==
  IF fs.fat12 THEN (3 * cluster) \div 2 ELSE 2 * cluster
FatSector(fs, cluster) == fs.fat + FatOffset(fs, cluster) \div SectorSize
FatSectors(fs) == IF fs.fat12 THEN 2 ELSE 1
FatReadable(d, fs, cluster) ==
  InRange(d, FatSector(fs, cluster), FatSectors(fs))

\* Mutant: odd and even entries are taken for each other.
NextClusterSwapped(d, fs, cluster) ==
  LET sectors == ReadSectors(d, FatSector(fs, cluster), FatSectors(fs))
      at == FatOffset(fs, cluster) % SectorSize
      value == sectors[at + 1] + 256 * sectors[at + 2]
  IN IF ~fs.fat12 THEN value
     ELSE IF cluster % 2 = 1 THEN value % 4096 ELSE value \div 16

NextCluster(d, fs, cluster) ==
  LET sectors == ReadSectors(d, FatSector(fs, cluster), FatSectors(fs))
      at == FatOffset(fs, cluster) % SectorSize
      value == sectors[at + 1] + 256 * sectors[at + 2]
  IN IF ~fs.fat12 THEN value
     ELSE IF cluster % 2 = 0 THEN value % 4096 ELSE value \div 16

-----------------------------------------------------------------------------
\* find_entrypoint: the first of the BAT files of the best rank; without one,
\* the largest EXE file, and the last of several.

NoRank == 5
Rank(e) ==
  CASE FullName(e) = <<"GAME", "BAT">> -> 1
    [] FullName(e) = <<"START", "BAT">> -> 2
    [] FullName(e) = <<"AUTOEXEC", "BAT">> -> 3
    [] OTHER -> IF e.ext = "BAT" THEN 4 ELSE NoRank

Executables(entries) == {i \in DOMAIN entries : entries[i].ext = "EXE"}
HasEntrypoint(entries) ==
  \/ \E i \in DOMAIN entries : Rank(entries[i]) < NoRank
  \/ Executables(entries) # {}

FindEntrypoint(entries) ==
  LET best == Min({NoRank} \cup {Rank(entries[i]) : i \in DOMAIN entries})
      largest == Max({entries[i].size : i \in Executables(entries)})
  IN IF best < NoRank
     THEN entries[SelectInSeq(entries, LAMBDA e : Rank(e) = best)]
     ELSE entries[SelectLastInSeq(entries,
                    LAMBDA e : e.ext = "EXE" /\ e.size = largest)]

=============================================================================
