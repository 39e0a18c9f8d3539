-------------------------------- MODULE Boot --------------------------------
(***************************************************************************)
(* The machine the runtime starts with (runtime/mod.rs, Runtime::new),     *)
(* once the disk's files are known: what module Startup does step by step. *)
(***************************************************************************)
EXTENDS Bios

Blank0 == [regs |-> RegsNew, mem |-> EmptyMem, dos |-> DosNew,
           halted |-> FALSE]

\* Runtime::new; every start from a disk leaves the drive number in DL.
Booted(b) ==
  CASE b.kind = "exe" -> LoadMz(Blank0, b.program)
    [] b.kind = "fat" ->
         With8(ExecuteBinary(Blank0, b.disk.files[b.queue[1]]), DL, 128)
    [] b.kind = "boot" ->
         With8(LoadBootSector(Blank0, ReadSectors(b.disk, 0, 1)), DL, 128)

=============================================================================
