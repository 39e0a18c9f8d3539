-------------------------------- MODULE Cpu --------------------------------
(***************************************************************************)
(* The register file (cpu/regs.rs) and the stack accessors                 *)
(* (cpu/interp/stack.rs).                                                  *)
(*                                                                         *)
(* The eight 32-bit general registers are kept as sixteen words, because   *)
(* generated code addresses them in words: word 2*i is the low half of     *)
(* register i, which is what every 16-bit accessor reads, and word 2*i + 1 *)
(* its high half.  ip is EIP modulo one megabyte: the program only ever    *)
(* uses it in a physical address, or reduced to sixteen bits.              *)
(***************************************************************************)
EXTENDS Memory

AX == 0
CX == 1
DX == 2
BX == 3
SP == 4
BP == 5
SI == 6
DI == 7

AL == 0
CL == 1
DL == 2
AH == 4
CH == 5
DH == 6
BH == 7

ES == 0
CS == 1
SS == 2
DS == 3
FS == 4
GS == 5

\* The flag bits that instructions and handlers name.
CarryFlag == 1
ParityFlag == 4
AuxFlag == 16
ZeroFlag == 64
SignFlag == 128
TrapFlag == 256
IntFlag == 512
DirFlag == 1024
OverflowFlag == 2048

Reg == 0 .. 7
SegReg == 0 .. 5
Regs == [w : [0 .. 15 -> Word], seg : [SegReg -> Word],
         ip : Addr, flags : Word]

\* Regs::new: everything zero but SP and the always-one flag bit.
RegsNew == [w |-> [i \in 0 .. 15 |-> IF i = 2 * SP THEN 65534 ELSE 0],
            seg |-> [i \in SegReg |-> 0],
            ip |-> 0,
            flags |-> 2]

Get16(r, i) == r.w[2 * i]
Set16(r, i, v) == [r EXCEPT !.w = [@ EXCEPT ![2 * i] = v]]

\* The high word of a register, the whole register from its two words, and
\* the bits of it that count in an address.
GetHigh16(r, i) == r.w[2 * i + 1]
Set32(r, i, lo, hi) ==
  [r EXCEPT !.w = [@ EXCEPT ![2 * i] = lo, ![2 * i + 1] = hi]]
GetAddr(r, i) == Get16(r, i) + WordSize * (GetHigh16(r, i) % 16)

Get8(r, i) == IF i < 4 THEN Lo(Get16(r, i)) ELSE Hi(Get16(r, i - 4))
Set8(r, i, v) ==
  IF i < 4 THEN Set16(r, i, 256 * Hi(Get16(r, i)) + v)
           ELSE Set16(r, i - 4, 256 * v + Lo(Get16(r, i - 4)))

GetSeg(r, i) == r.seg[i]
SetSeg(r, i, v) == [r EXCEPT !.seg = [@ EXCEPT ![i] = v]]

SetIp(r, v) == [r EXCEPT !.ip = v]

\* f is the value of one flag bit.
Flag(r, f) == (r.flags \div f) % 2 = 1
SetFlag(r, f, on) ==
  [r EXCEPT !.flags = @ - f * ((@ \div f) % 2) + (IF on THEN f ELSE 0)]

-----------------------------------------------------------------------------
\* The machine a handler works on: processor, memory, DOS file table, halted.

Push16(s, v) ==
  LET sp == Wrap16(Get16(s.regs, SP) - 2)
  IN [s EXCEPT !.regs = Set16(@, SP, sp),
               !.mem = WriteU16(@, Phys(GetSeg(s.regs, SS), sp), v)]

\* What pop16 returns, and the machine it leaves behind.
Top16(s) == ReadU16(s.mem, Phys(GetSeg(s.regs, SS), Get16(s.regs, SP)))
Drop16(s) == [s EXCEPT !.regs = Set16(@, SP, Wrap16(Get16(@, SP) + 2))]

\* The interrupt frame: FLAGS, CS and IP, in that order.
PushFrame(s) ==
  Push16(Push16(Push16(s, s.regs.flags), GetSeg(s.regs, CS)),
         Wrap16(s.regs.ip))

\* Mutant: CS and FLAGS are taken from the frame in the wrong order.
PopFrameSwapped(s) ==
  LET s1 == Drop16(s)
      s2 == Drop16(s1)
      s3 == Drop16(s2)
  IN [s3 EXCEPT !.regs = [SetSeg(SetIp(@, Top16(s)), CS, Top16(s2))
                            EXCEPT !.flags = Top16(s1)]]

\* IRET, and the return from an interrupt that was served natively.
PopFrame(s) ==
  LET s1 == Drop16(s)
      s2 == Drop16(s1)
      s3 == Drop16(s2)
  IN [s3 EXCEPT !.regs = [SetSeg(SetIp(@, Top16(s)), CS, Top16(s1))
                            EXCEPT !.flags = Top16(s2)]]

=============================================================================
