-------------------------- MODULE StartupProperties --------------------------
(***************************************************************************)
(* What must be true of Runtime::new: against the file allocation table    *)
(* and the MZ format as they are defined, and against module Boot, which   *)
(* is what the rest of the project takes a program's start to be.          *)
(***************************************************************************)
EXTENDS Startup

\* Disk d has file system f.  The entry of a cluster in the table: two entries
\* of twelve bits share three bytes, the even one has the low half of the
\* middle byte.
TableByte(d, f, i) == d.data[f.fat * SectorSize + i + 1]
Link(d, f, c) ==
  LET i == 3 * (c \div 2)
  IN IF ~f.fat12 THEN TableByte(d, f, 2 * c) + 256 * TableByte(d, f, 2 * c + 1)
     ELSE IF c % 2 = 0
     THEN TableByte(d, f, i) + 256 * (TableByte(d, f, i + 1) % 16)
     ELSE TableByte(d, f, i + 1) \div 16 + 16 * TableByte(d, f, i + 2)

ClusterBytes(f) == f.spc * SectorSize
HasCluster(d, f, c) == InChain(f, c) /\ ClusterReadable(d, f, c)
Needed(f, e) == Max({1, Ceil(e.size, ClusterBytes(f))})

\* The chain of file e, no longer than its size asks for, and its bytes.
Chain(d, f, e) ==
  LET c[k \in 0 .. Needed(f, e) - 1] ==
        IF k = 0 THEN e.cluster
        ELSE IF HasCluster(d, f, c[k - 1]) THEN Link(d, f, c[k - 1]) ELSE 0
  IN c
Present(d, f, e) ==
  LET chain == Chain(d, f, e)
  IN Cardinality({k \in DOMAIN chain : \A j \in 0 .. k : HasCluster(d, f, chain[j])})
Contents(d, f, e) ==
  LET chain == Chain(d, f, e)
      place(i) == ClusterLba(f, chain[i \div ClusterBytes(f)]) * SectorSize
                    + (i % ClusterBytes(f))
  IN [i \in 1 .. Min({e.size, Present(d, f, e) * ClusterBytes(f)}) |->
        d.data[place(i - 1) + 1]]

\* read_file returns the bytes along the file's chain, as many as its directory
\* entry says, or fewer when the chain or the image ends before, however the
\* chain runs and wherever its entries lie in the table.
FileMatchesItsChain ==
  pc \in {"batch", "execute"} /\ ~image.exe => data = Contents(disk, fs, entry)

-----------------------------------------------------------------------------
\* The regions of a file system lie one after the other, and the directory that
\* list_root_dir reads ends before the first cluster.
RegionsApart ==
  fs # NoFs => /\ fs.fat < fs.root
               /\ fs.root + DirectorySectors(fs) <= fs.data

\* Runtime::new returns, or crashes, on every image: a chain that loops, a
\* table without an end and a relocation count of any size included.
StartupEnds == <>Ended

\* How far Runtime::new is from its end: the parts that follow, and in a part
\* the sectors, slots, bytes, lines or relocations that are left.
PartsLeft ==
  [open |-> 9, scan |-> 8, boot |-> 7, list |-> 6, batch |-> 4, read |-> 3,
   execute |-> 2, relocate |-> 1, done |-> 0, failed |-> 0, panicked |-> 0]
Stage == IF pc = "read" /\ purpose = "batch" THEN 5 ELSE PartsLeft[pc]
Left ==
  CASE pc = "scan" -> ScanLimit - lba
    [] pc = "list" -> fs.entries + 1 - next
    [] pc = "read" -> entry.size - Len(data)
    [] pc = "batch" -> Len(data) + 1 - next
    [] pc = "relocate" -> WordAt(data, 6) - reloc
    [] OTHER -> 0

\* No step goes in a circle: each one starts on a later part or has less left
\* of its own.  A chain that loops is followed for no longer than the size of
\* the file's directory entry, a directory, a BAT file and a relocation table
\* are gone through once.
StartupAdvances ==
  [][\/ Stage' < Stage
     \/ Stage' = Stage /\ Left' \in 0 .. Left - 1]_vars

-----------------------------------------------------------------------------
\* The lines of the BAT file that name a program of the directory.
Lines == Contents(disk, fs, FindEntrypoint(entries))
Names(i) ==
  LET w == Commands[Lines[i]]
  IN IF w \in Builtins \cup {BlankLine} THEN {} ELSE Named(w)
Programs == {i \in DOMAIN Lines : Names(i) # {}}

\* Every such line has its place in the queue, in the order of the lines and
\* whatever the lines between them say, and is there the first entry of the
\* directory that it can mean; nothing else is in the queue.
QueueFollowsTheBatch ==
  purpose = "program" /\ queue # <<>> /\ entry = queue[1] =>
    IF FindEntrypoint(entries).ext = "BAT"
    THEN /\ Len(queue) = Cardinality(Programs)
         /\ \A i \in Programs :
              LET k == Cardinality({j \in Programs : j <= i})
              IN \E n \in Names(i) : /\ queue[k] = entries[n]
                                     /\ \A first \in Names(i) : n <= first
    ELSE Len(queue) = 1 /\ queue[1].ext = "EXE"

-----------------------------------------------------------------------------
\* The offset in the load module of relocation i, and the module with all of
\* them applied: adding 1000h to a word is adding 10h to its high byte.
RelocOffset(i) ==
  LET e == RelocEntry(data, i)
  IN 16 * WordAt(data, e + 2) + WordAt(data, e)
Relocs == {i \in 0 .. WordAt(data, 6) - 1 : HasReloc(data, i)}
RelocsInside ==
  /\ Len(LoadModule(data)) <= MemSize
  /\ \A i \in Relocs : RelocOffset(i) + 1 < Len(LoadModule(data))
Relocated ==
  [k \in DOMAIN LoadModule(data) |->
     (LoadModule(data)[k]
        + 16 * Cardinality({i \in Relocs : RelocOffset(i) + 2 = k})) % 256]

KindOf ==
  IF ~IsMz(data) THEN "COM"
  ELSE IF ShortHeader(data) THEN "ShortMZ"
  ELSE IF NoModule(data) THEN "TruncatedMZ" ELSE "MZ"

\* What has been read, as the rest of the project has it.
Program ==
  LET Field(i) == IF KindOf = "MZ" THEN WordAt(data, i) ELSE 0
  IN [kind |-> KindOf, data |-> data,
      code |-> IF KindOf = "MZ" THEN Relocated ELSE data,
      cs |-> Field(22), ip |-> Field(20), ss |-> Field(14), sp |-> Field(16)]
BootRecord ==
  LET name == FullName(entry)
      files == [n \in {name} |-> Program]
      plain == [present |-> disk.present, cyls |-> disk.cyls,
                heads |-> disk.heads, spt |-> disk.spt, data |-> disk.data,
                files |-> files]
  IN [kind |-> IF image.exe THEN "exe" ELSE IF fs = NoFs THEN "boot" ELSE "fat",
      disk |-> plain, queue |-> <<name>>, limit |-> 0, program |-> Program]

\* Runtime::new implements Boot: it ends with the machine Booted has for the
\* program read, and fails or crashes on the programs Loader says it does.  A
\* relocation outside the load module changes memory the abstract loader does
\* not, and in a module that is longer than memory it can change another word.
StartsAsBoot ==
  /\ pc = "done" /\ (KindOf = "MZ" => RelocsInside) =>
       machine = Booted(BootRecord)
  /\ pc = "done" /\ BootRecord.kind # "boot" => Loads(Program)
  /\ pc = "panicked" /\ data # <<>> => LoadPanics(Program)

-----------------------------------------------------------------------------
\* What INT 13h/08 tells a program of the disk, as the program unpacks it, and
\* the places on the disk that a program takes to be there.
Reported(d) ==
  LET r == Int13Params(Blank0, d).regs
  IN [cylinder |-> Get8(r, CH) + 256 * (Get8(r, CL) \div 64),
      head |-> Get8(r, DH), sector |-> Get8(r, CL) % 64]
Places(last) == (0 .. last.cylinder) \X (0 .. last.head) \X (1 .. last.sector)

\* The sector INT 13h/02 reads at a cylinder, a head and a sector.
SectorRead(x) == ChsToLba(disk, x[1], x[2], x[3])
ReadApart(places) ==
  /\ \A x \in places : SectorRead(x) < disk.cyls * disk.heads * disk.spt
  /\ \A x, y \in places : x # y => SectorRead(x) # SectorRead(y)

\* The corners of the disk, for TLC.
Corners(last) ==
  (({0, 1, last.cylinder - 1, last.cylinder} \X {0, last.head - 1, last.head}
      \X {1, 2, last.sector}) \cap Places(last))

\* A program that asks INT 13h/08 how large the disk is and reads within that
\* gets sectors of the disk, and different ones, on every disk with a head and
\* from one to 63 sectors in a track.
ReportedSectorsExist ==
  pc = "scan" /\ lba = 0 /\ disk.cyls > 0 /\ disk.heads > 0
    /\ disk.spt \in 1 .. 63 =>
    LET last == Reported(disk)
    IN last.sector = disk.spt /\ ReadApart(Corners(last))

=============================================================================
