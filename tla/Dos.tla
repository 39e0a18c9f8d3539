-------------------------------- MODULE Dos --------------------------------
(***************************************************************************)
(* The DOS file table (dos/mod.rs) and the files it opens.  A file served  *)
(* from the disk image gets handle VBase + the number of open files; a     *)
(* host file gets the next handle of a counter that starts at RBase.       *)
(* Nothing ever closes a handle: INT 21h has no function 3Eh.              *)
(***************************************************************************)
EXTENDS Memory, FiniteSets

CONSTANTS
  HostFiles       \* the host directory: a function from paths to contents

ASSUME HostFilesAssumption == \A p \in DOMAIN HostFiles : HostFiles[p] \in Seq(Byte)

RBase == 5
VBase == 100

\* A handle is the data it was opened on and a cursor into it.
Handle == [data : Seq(Byte), pos : Nat]
DosNew == [files |-> [h \in {} |-> 0], next |-> RBase]

IsDos(d) == /\ d = [files |-> d.files, next |-> d.next]
            /\ DOMAIN d.files \subseteq Word
            /\ d.files \in [DOMAIN d.files -> Handle]
            /\ d.next \in Word

\* HashMap::insert: an entry with the same handle is replaced.
Insert(d, h, data) ==
  [d EXCEPT !.files = [x \in DOMAIN @ \cup {h} |->
     IF x = h THEN [data |-> data, pos |-> 0] ELSE @[x]]]

\* Mutant: every file of the disk image gets the same handle.
VirtualHandleFixed(d) == VBase

VirtualHandle(d) == Wrap16(VBase + Cardinality(DOMAIN d.files))
OpenVirtual(d, data) == Insert(d, VirtualHandle(d), data)

OpenReal(d, path) ==
  [Insert(d, d.next, HostFiles[path]) EXCEPT !.next = Wrap16(@ + 1)]

\* The bytes a read of count returns, and the cursor after it.
Chunk(f, count) ==
  SubSeq(f.data, f.pos + 1,
         IF f.pos + count < Len(f.data) THEN f.pos + count ELSE Len(f.data))

MoveTo(d, h, pos) ==
  [d EXCEPT !.files = [d.files EXCEPT ![h].pos = pos]]

ReadFile(d, h, count) == MoveTo(d, h, d.files[h].pos
                                      + Len(Chunk(d.files[h], count)))

\* The offset is CX:DX read as an unsigned number, whatever the origin.
SeekPos(d, h, offset, whence) ==
  CASE whence = 0 -> offset
    [] whence = 1 -> d.files[h].pos + offset
    [] whence = 2 -> Len(d.files[h].data) + offset

=============================================================================
