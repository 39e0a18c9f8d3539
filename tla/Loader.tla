------------------------------- MODULE Loader -------------------------------
(***************************************************************************)
(* Putting a program into memory (runtime/loader.rs, cpu/mz.rs).           *)
(*                                                                         *)
(* A file of the disk image is a record: data is what reading it returns,  *)
(* kind what the loader makes of it, code the bytes that end up in memory  *)
(* (for an MZ program: the load module with its relocations applied), and  *)
(* cs, ip, ss, sp the start values of the MZ header.                       *)
(*   "COM"          no MZ signature: loaded as it is                       *)
(*   "MZ"           a well-formed MZ program                               *)
(*   "ShortMZ"      an MZ signature in under 28 bytes: load_mz fails       *)
(*   "TruncatedMZ"  the header promises more bytes than the file has: the  *)
(*                  slice in load_mz panics                                *)
(*   "Unreadable"   read_file fails: a sector of the allocation table is   *)
(*                  missing, which no image that detect accepts can have   *)
(*                  where the cluster before it could be read              *)
(***************************************************************************)
EXTENDS Cpu

ImageKinds == {"COM", "MZ", "ShortMZ", "TruncatedMZ", "Unreadable"}
IsImage(f) == /\ f = [kind |-> f.kind, data |-> f.data, code |-> f.code,
                      cs |-> f.cs, ip |-> f.ip, ss |-> f.ss, sp |-> f.sp]
              /\ f.kind \in ImageKinds
              /\ f.data \in Seq(Byte) /\ f.code \in Seq(Byte)
              /\ f.cs \in Word /\ f.ip \in Word
              /\ f.ss \in Word /\ f.sp \in Word

Readable(f) == f.kind # "Unreadable"
Loads(f) == f.kind \in {"COM", "MZ"}
LoadPanics(f) == f.kind = "TruncatedMZ"

LoadSeg == 4096
ComOff == 256

LoadCom(s, f) ==
  LET r == SetIp(SetSeg(s.regs, CS, LoadSeg), ComOff)
  IN [s EXCEPT !.mem = LoadBytes(@, Phys(LoadSeg, ComOff), f.code),
               !.regs = SetSeg(SetSeg(r, DS, LoadSeg), ES, LoadSeg)]

LoadMz(s, f) ==
  LET r1 == SetIp(SetSeg(s.regs, CS, Wrap16(LoadSeg + f.cs)), f.ip)
      r2 == Set16(SetSeg(r1, SS, Wrap16(LoadSeg + f.ss)), SP, f.sp)
  IN [s EXCEPT !.mem = LoadBytes(@, Phys(LoadSeg, 0), f.code),
               !.regs = SetSeg(SetSeg(r2, DS, LoadSeg), ES, LoadSeg)]

ExecuteBinary(s, f) == IF f.kind = "MZ" THEN LoadMz(s, f) ELSE LoadCom(s, f)

\* Without a FAT file system the first sector is the program.
BootSeg == 0
BootOff == 31744
LoadBootSector(s, sector) ==
  LET r == SetIp(SetSeg(s.regs, CS, BootSeg), BootOff)
  IN [s EXCEPT !.mem = LoadBytes(@, Phys(BootSeg, BootOff), sector),
               !.regs = Set16(SetSeg(r, SS, 0), SP, 31742)]

=============================================================================
