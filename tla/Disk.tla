-------------------------------- MODULE Disk --------------------------------
(***************************************************************************)
(* A disk image (disk/mod.rs): geometry and sector reads.  A disk is a     *)
(* record of its geometry, its raw data after the header, and the root     *)
(* directory, a function from file names to the contents fat.rs reads.     *)
(***************************************************************************)
EXTENDS Integers, Sequences

CONSTANTS
  SectorSize      \* bytes in a sector: SECTOR_SIZE, 512 in the program

ASSUME SectorSizeAssumption == SectorSize \in Nat \ {0}

\* Disk::load.  raw is the file, h what its first bytes say: the magic, and the
\* fields next to it, which a T98 header has in words and an HDI header in
\* double words.  What is kept of heads and sectors is a byte.
Geometry(offset, cyls, heads, spt) ==
  [offset |-> offset, cyls |-> cyls % 65536, heads |-> heads % 256,
   spt |-> spt % 256]

DetectGeometry(raw, h) ==
  LET Field(end, there, missing) == IF Len(raw) < end THEN missing ELSE there
  IN CASE h.magic = "T98HDDIMAGE.R0" -> Geometry(272, h.cyls, h.heads, h.spt)
       [] h.magic = "HDI" ->
            Geometry(Field(14, h.offset, 4096), Field(30, h.cyls, 615),
                     Field(26, h.heads, 8), Field(22, h.spt, 17))
       [] OTHER -> Geometry(0, 615, 8, 17)

\* The T98 fields are read without looking whether the file has them.
HeaderPanics(raw, h) == h.magic = "T98HDDIMAGE.R0" /\ Len(raw) < 24

\* CHS to LBA; sectors are counted from one, and sector 0 reads as the first.
ChsToLba(disk, cylinder, head, sector) ==
  cylinder * disk.heads * disk.spt + head * disk.spt
    + (IF sector = 0 THEN 0 ELSE sector - 1)

InRange(disk, lba, count) == (lba + count) * SectorSize <= Len(disk.data)

ReadSectors(disk, lba, count) ==
  SubSeq(disk.data, lba * SectorSize + 1, (lba + count) * SectorSize)

=============================================================================
