------------------------------- MODULE Startup -------------------------------
(***************************************************************************)
(* Runtime::new: from the image file to the machine the first call of step *)
(* finds.  It looks for a file system sector by sector, picks the entry    *)
(* point, reads a file cluster by cluster, makes the queue of a BAT file,  *)
(* and loads the first program, relocation by relocation.                  *)
(*                                                                         *)
(* An image is a record: exe, whether the file is a host program; raw, its *)
(* bytes; header, bpb and root, what Disk and Fat say of them.  pc is      *)
(*   open, scan, list     before the file, a sector, a slot of the root    *)
(*   read                 before the next cluster of a file                *)
(*   batch                before the next line of the BAT file             *)
(*   execute, relocate    with the program read; with its image loaded     *)
(*   boot                 without a file system                            *)
(*   done                 the machine is ready                             *)
(*   failed, panicked     Runtime::new returned an error, or crashed       *)
(***************************************************************************)
EXTENDS Boot, Fat, Mz

CONSTANTS
  Images,      \* the files the program is started with, in families
  Commands     \* what a line of a BAT file says, by the byte that stands for it

\* A command is a file's full name, with no extension when it has no dot, once
\* it is trimmed, in upper case and without its @; Blank is an empty line.
BlankLine == <<"", "">>

\* What a boot sector, a slot of a directory and an image file can be: their
\* fields are unsigned numbers.
IsBpb(b) == {b.bps, b.spc, b.reserved, b.fats, b.entries, b.spf, b.small,
             b.large} \subseteq Nat
IsSlot(e) == e.cluster \in Nat /\ e.size \in Nat
IsImageFile(i) ==
  /\ i.exe \in BOOLEAN /\ i.raw \in Seq(Byte)
  /\ {i.header.offset, i.header.cyls, i.header.heads, i.header.spt} \subseteq Nat
  /\ DOMAIN i.bpb \subseteq Nat /\ \A n \in DOMAIN i.bpb : IsBpb(i.bpb[n])
  /\ \A n \in DOMAIN i.root :
       /\ i.root[n] = [k \in 1 .. Len(i.root[n]) |-> i.root[n][k]]
       /\ Len(i.root[n]) \in Nat
       /\ \A k \in 1 .. Len(i.root[n]) : IsSlot(i.root[n][k])

ASSUME ImagesAssumption ==
  \A family \in Images : \A i \in family : IsImageFile(i)

VARIABLES
  image,       \* the file
  disk,        \* the disk loaded from it
  pc,
  lba,         \* the sector detect is at
  fs,          \* the file system it found
  next,        \* the slot of the directory, or the line, that comes next
  entries,     \* the files of the root directory
  queue,       \* final_batch_queue: entries of the directory
  entry,       \* the file being read
  purpose,     \* what it is read for: a batch or a program
  cluster,     \* the next cluster of it
  data,        \* what has been read
  reloc,       \* the next relocation of it
  machine      \* the processor, its memory and the rest

found == <<lba, fs, next, entries>>
reading == <<entry, purpose, cluster, data>>
vars == <<image, disk, pc, found, queue, reading, reloc, machine>>

NoFs == [fat |-> 0, root |-> 0, data |-> 0, entries |-> 0, spc |-> 0,
         fat12 |-> FALSE]
NoEntry == [mark |-> "end", label |-> FALSE, name |-> "", ext |-> "",
            cluster |-> 0, size |-> 0]

\* The disk an image file holds, and the machine without one.
LoadDisk(i) ==
  LET g == DetectGeometry(i.raw, i.header)
  IN [present |-> TRUE, cyls |-> g.cyls, heads |-> g.heads, spt |-> g.spt,
      data |-> SubSeq(i.raw, g.offset + 1, Len(i.raw)),
      bpb |-> i.bpb, root |-> i.root]
NoDisk == [present |-> FALSE, cyls |-> 0, heads |-> 0, spt |-> 0,
           data |-> <<>>, bpb |-> [n \in {} |-> 0], root |-> [n \in {} |-> 0]]

Init ==
  /\ \E family \in Images : image \in family
  /\ disk = NoDisk /\ pc = "open"
  /\ lba = 0 /\ fs = NoFs /\ next = 1 /\ entries = <<>> /\ queue = <<>>
  /\ entry = NoEntry /\ purpose = "program" /\ cluster = 0 /\ data = <<>>
  /\ reloc = 0 /\ machine = Blank0

-----------------------------------------------------------------------------
OpenExe ==
  /\ pc = "open" /\ image.exe
  /\ data' = image.raw /\ pc' = "execute"
  /\ UNCHANGED <<image, disk, found, queue, entry, purpose, cluster, reloc,
                 machine>>

OpenDisk ==
  /\ pc = "open" /\ ~image.exe
  /\ image.raw # <<>> /\ ~HeaderPanics(image.raw, image.header)
  /\ disk' = LoadDisk(image) /\ pc' = "scan"
  /\ UNCHANGED <<image, found, queue, reading, reloc, machine>>

OpenFails ==
  /\ pc = "open" /\ ~image.exe
  /\ \/ image.raw = <<>> /\ pc' = "failed"
     \/ HeaderPanics(image.raw, image.header) /\ pc' = "panicked"
  /\ UNCHANGED <<image, disk, found, queue, reading, reloc, machine>>

-----------------------------------------------------------------------------
\* Mutant: a sector that is no boot sector is looked at again.
ScanInPlace ==
  /\ pc = "scan" /\ lba < ScanLimit
  /\ IF Detects(disk, lba)
     THEN fs' = FsAt(disk, lba) /\ pc' = "list" ELSE UNCHANGED <<fs, pc>>
  /\ UNCHANGED <<image, disk, lba, next, entries, queue, reading, reloc,
                 machine>>

Scan ==
  /\ pc = "scan" /\ lba < ScanLimit
  /\ IF Detects(disk, lba)
     THEN fs' = FsAt(disk, lba) /\ pc' = "list" /\ lba' = lba
     ELSE lba' = lba + 1 /\ UNCHANGED <<fs, pc>>
  /\ UNCHANGED <<image, disk, next, entries, queue, reading, reloc, machine>>

NotDetected ==
  /\ pc = "scan" /\ lba = ScanLimit
  /\ pc' = "boot"
  /\ UNCHANGED <<image, disk, found, queue, reading, reloc, machine>>

BootSector ==
  /\ pc = "boot"
  /\ IF InRange(disk, 0, 1)
     THEN /\ machine' = With8(LoadBootSector(machine, ReadSectors(disk, 0, 1)),
                              DL, 128)
          /\ pc' = "done"
     ELSE pc' = "failed" /\ UNCHANGED machine
  /\ UNCHANGED <<image, disk, found, queue, reading, reloc>>

-----------------------------------------------------------------------------
\* Before the first cluster of file e.
StartReading(e, why) ==
  /\ entry' = e /\ purpose' = why /\ cluster' = e.cluster /\ data' = <<>>
  /\ pc' = "read"

\* The files of the directory, slot by slot, and the one to start with.
ListNext ==
  /\ pc = "list" /\ RootReadable(disk, fs) /\ HasSlot(disk, fs, next)
  /\ LET slot == Slots(disk, fs)[next]
     IN entries' = IF IsFile(slot) THEN Append(entries, slot) ELSE entries
  /\ next' = next + 1
  /\ UNCHANGED <<image, disk, pc, lba, fs, queue, reading, reloc, machine>>

ListOver ==
  /\ pc = "list" /\ RootReadable(disk, fs) /\ ~HasSlot(disk, fs, next)
  /\ HasEntrypoint(entries)
  /\ LET e == FindEntrypoint(entries)
     IN IF e.ext = "BAT" THEN StartReading(e, "batch") /\ UNCHANGED queue
                         ELSE StartReading(e, "program") /\ queue' = <<e>>
  /\ next' = 1
  /\ UNCHANGED <<image, disk, lba, fs, entries, reloc, machine>>

ListFails ==
  /\ pc = "list"
  /\ \/ ~RootReadable(disk, fs)
     \/ ~HasSlot(disk, fs, next) /\ ~HasEntrypoint(entries)
  /\ pc' = "failed"
  /\ UNCHANGED <<image, disk, found, queue, reading, reloc, machine>>

\* A file ends at its size, at the end of its chain, or where the image ends.
AfterRead == IF purpose = "batch" THEN "batch" ELSE "execute"

Cut(bytes) == SubSeq(bytes, 1, Min({Len(bytes), entry.size}))

\* Mutant: the size of the file is looked at when all of it has been read.
ReadWhole ==
  /\ pc = "read"
  /\ InChain(fs, cluster) /\ ClusterReadable(disk, fs, cluster)
  /\ data' = data \o ReadCluster(disk, fs, cluster)
  /\ IF FatReadable(disk, fs, cluster)
     THEN cluster' = NextCluster(disk, fs, cluster) /\ UNCHANGED pc
     ELSE pc' = "failed" /\ UNCHANGED cluster
  /\ UNCHANGED <<image, disk, found, queue, entry, purpose, reloc, machine>>

ReadNext ==
  /\ pc = "read"
  /\ InChain(fs, cluster) /\ ClusterReadable(disk, fs, cluster)
  /\ LET more == data \o ReadCluster(disk, fs, cluster)
     IN IF Len(more) >= entry.size
        THEN data' = Cut(more) /\ pc' = AfterRead /\ UNCHANGED cluster
        ELSE /\ data' = more
             /\ IF FatReadable(disk, fs, cluster)
                THEN cluster' = NextCluster(disk, fs, cluster) /\ UNCHANGED pc
                ELSE pc' = "failed" /\ UNCHANGED cluster
  /\ UNCHANGED <<image, disk, found, queue, entry, purpose, reloc, machine>>

ReadOver ==
  /\ pc = "read"
  /\ ~InChain(fs, cluster) \/ ~ClusterReadable(disk, fs, cluster)
  /\ pc' = AfterRead
  /\ UNCHANGED <<image, disk, found, queue, reading, reloc, machine>>

-----------------------------------------------------------------------------
\* The queue of a BAT file: what each line names, if the directory has it.  A
\* name without a dot is that of a COM or an EXE file, whichever comes first.
Builtins == {<<n, "">> : n \in {"ECHO", "REM", "SET", "CLS", "PAUSE", "IF",
                                "GOTO"}}
Targets(word) ==
  IF word[2] = "" THEN {<<word[1], "COM">>, <<word[1], "EXE">>} ELSE {word}
Named(word) == {i \in DOMAIN entries : FullName(entries[i]) \in Targets(word)}

Runs(word) ==
  word # BlankLine /\ word \notin Builtins /\ Named(word) # {}

\* Mutant: the batch stops at the first command it cannot run.
QueueUpTo ==
  /\ pc = "batch" /\ next <= Len(data)
  /\ LET word == Commands[data[next]]
     IN IF Runs(word)
        THEN /\ queue' = Append(queue, entries[Min(Named(word))])
             /\ next' = next + 1
        ELSE next' = Len(data) + 1 /\ UNCHANGED queue
  /\ UNCHANGED <<image, disk, pc, lba, fs, entries, reading, reloc, machine>>

QueueNext ==
  /\ pc = "batch" /\ next <= Len(data)
  /\ LET word == Commands[data[next]]
     IN queue' = IF Runs(word)
                 THEN Append(queue, entries[Min(Named(word))]) ELSE queue
  /\ next' = next + 1
  /\ UNCHANGED <<image, disk, pc, lba, fs, entries, reading, reloc, machine>>

QueueOver ==
  /\ pc = "batch" /\ next > Len(data)
  /\ IF queue # <<>> THEN StartReading(queue[1], "program")
                     ELSE pc' = "failed" /\ UNCHANGED reading
  /\ UNCHANGED <<image, disk, found, queue, reloc, machine>>

-----------------------------------------------------------------------------
\* A program from a disk leaves the drive number in DL.
Ready(s) == IF image.exe THEN s ELSE With8(s, DL, 128)

ExecuteCom ==
  /\ pc = "execute" /\ ~image.exe /\ ~IsMz(data)
  /\ machine' = Ready(LoadCom(machine, [code |-> data]))
  /\ pc' = "done"
  /\ UNCHANGED <<image, disk, found, queue, reading, reloc>>

ExecuteMz ==
  /\ pc = "execute" /\ IsMz(data) /\ ~ShortHeader(data) /\ ~NoModule(data)
  /\ machine' = LoadImage(machine, data)
  /\ pc' = "relocate" /\ reloc' = 0
  /\ UNCHANGED <<image, disk, found, queue, reading>>

ExecuteFails ==
  /\ pc = "execute"
  /\ \/ image.exe /\ ~IsMz(data) /\ pc' = "failed"
     \/ IsMz(data) /\ ShortHeader(data) /\ pc' = "failed"
     \/ IsMz(data) /\ ~ShortHeader(data) /\ NoModule(data) /\ pc' = "panicked"
  /\ UNCHANGED <<image, disk, found, queue, reading, reloc, machine>>

RelocateNext ==
  /\ pc = "relocate" /\ HasReloc(data, reloc)
  /\ machine' = Relocate(machine, data, reloc)
  /\ reloc' = reloc + 1
  /\ UNCHANGED <<image, disk, pc, found, queue, reading>>

Enter ==
  /\ pc = "relocate" /\ ~HasReloc(data, reloc)
  /\ machine' = Ready([machine EXCEPT !.regs = EntryRegs(@, data)])
  /\ pc' = "done"
  /\ UNCHANGED <<image, disk, found, queue, reading, reloc>>

Ended == pc \in {"done", "failed", "panicked"}
Over == Ended /\ UNCHANGED vars

Open == OpenExe \/ OpenDisk \/ OpenFails
Find == Scan \/ NotDetected \/ BootSector
List == ListNext \/ ListOver \/ ListFails
ReadStep == ReadNext \/ ReadOver \/ QueueNext \/ QueueOver
Load == ExecuteCom \/ ExecuteMz \/ ExecuteFails \/ RelocateNext \/ Enter
Next == Open \/ Find \/ List \/ ReadStep \/ Load \/ Over

Spec == Init /\ [][Next]_vars /\ WF_vars(Next)

=============================================================================
