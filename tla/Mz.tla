--------------------------------- MODULE Mz ---------------------------------
(***************************************************************************)
(* Loading an MZ program from the bytes of its file (cpu/mz.rs): the       *)
(* arithmetic of the header, and the relocations one by one.               *)
(***************************************************************************)
EXTENDS Loader

\* The word at a byte offset of the file.
WordAt(data, i) == data[i + 1] + 256 * data[i + 2]

IsMz(data) == Len(data) >= 2 /\ data[1] = 77 /\ data[2] = 90
ShortHeader(data) == Len(data) < 28

HeaderSize(data) == 16 * WordAt(data, 8)

\* A last page of more than 512 bytes underflows to a file of none.
FileSize(data) ==
  LET last == WordAt(data, 2)
      pages == 512 * WordAt(data, 4)
  IN IF last = 0 THEN pages
     ELSE IF last > 512 \/ pages = 0 THEN 0 ELSE pages - (512 - last)

\* The slice of the file that is loaded, and whether there is one.
NoModule(data) ==
  HeaderSize(data) > FileSize(data) \/ FileSize(data) > Len(data)
LoadModule(data) == SubSeq(data, HeaderSize(data) + 1, FileSize(data))

LoadImage(s, data) ==
  [s EXCEPT !.mem = LoadBytes(@, Phys(LoadSeg, 0), LoadModule(data))]

\* Relocation i, while the table goes on.
RelocEntry(data, i) == WordAt(data, 24) + 4 * i
HasReloc(data, i) ==
  i < WordAt(data, 6) /\ RelocEntry(data, i) + 4 <= Len(data)

\* Mutant: the segment of the entry is taken without the load segment.
RelocAddrUnbased(data, i) ==
  LET e == RelocEntry(data, i)
  IN Phys(WordAt(data, e + 2), WordAt(data, e))

RelocAddr(data, i) ==
  LET e == RelocEntry(data, i)
  IN Phys(Wrap16(LoadSeg + WordAt(data, e + 2)), WordAt(data, e))

Relocate(s, data, i) ==
  LET a == RelocAddr(data, i)
  IN [s EXCEPT !.mem = WriteU16(@, a, Wrap16(ReadU16(@, a) + LoadSeg))]

EntryRegs(r, data) ==
  LET r1 == SetIp(SetSeg(r, CS, Wrap16(LoadSeg + WordAt(data, 22))),
                  WordAt(data, 20))
      r2 == Set16(SetSeg(r1, SS, Wrap16(LoadSeg + WordAt(data, 14))), SP,
                  WordAt(data, 16))
  IN SetSeg(SetSeg(r2, DS, LoadSeg), ES, LoadSeg)

=============================================================================
