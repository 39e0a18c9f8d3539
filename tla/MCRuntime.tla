----------------------------- MODULE MCRuntime -----------------------------
(***************************************************************************)
(* Programs and disks for TLC.  A program is written in the bytes of the   *)
(* instructions it is made of, and loaded and executed as the runtime does *)
(* it: the operand bytes of an instruction the interpreter does not know   *)
(* are opcodes in their turn.                                              *)
(***************************************************************************)
EXTENDS RuntimeClaims, TLC

W(v) == <<v % 256, v \div 256>>

\* Instructions the translator takes.  Generated code of a MOV lands in the
\* word of the register file its register number names: MOV CX writes the
\* high half of EAX, MOV DX CX, MOV SP DX and MOV SI BX.
MovAx(v) == <<184>> \o W(v)
MovToCx(v) == <<186>> \o W(v)
MovToDx(v) == <<188>> \o W(v)
MovToBx(v) == <<190>> \o W(v)
AddAx(v) == <<5>> \o W(v)
Store(off, v) == <<198, 6>> \o W(off) \o <<v>>
StoreBx(v) == <<198, 7, v>>
OutPort(p) == <<230, p>>
IntN(n) == <<205, n>>
Hlt == <<244>>
Spin == <<235, 254>>

\* A LOCK prefix sends an instruction past the translator.
Lock(bytes) == <<240>> \o bytes

Nop == <<144>>
Stc == <<249>>
Cld == <<252>>
CallNext == <<232, 0, 0>>
Ret == <<195>>
RetN == <<194, 2, 0>>
Iret == <<207>>
PushAx == <<255, 240>>
MovSsAx == <<142, 208>>
MovDsAx == <<142, 216>>
MovAxDs == <<140, 216>>
FarJump(seg, off) == <<234>> \o W(off) \o W(seg)
FarCall(seg, off) == <<154>> \o W(off) \o W(seg)
Jc(rel) == <<114, rel>>
LoopBack == <<226, 253>>
InPort0 == <<228, 0>>
OutWord == <<231, 168>>
Undefined == <<15, 11>>
CallFarReg == <<255, 216>>
CallFarSib == <<103, 255, 220, 36>>
DivZero == <<246, 243>>
\* IDIV of 8000h by the byte 255 that follows it.
IdivOver == MovAx(32768) \o <<192, 0>> \o <<246, 62>> \o W(265) \o <<255>>
IncHere == <<102, 255, 6, 8, 1>>
Group1Add == <<131, 192, 255>>
NearJump == <<15, 131>> \o W(32768)

ProgA == <<65>>
ProgB == <<66>>
ProgC == <<67>>
ProgD == <<68>>
ProgE == <<69>>
HostOnly == <<72>>

File(kind, code) ==
  [kind |-> kind, data |-> code, code |-> code,
   cs |-> 0, ip |-> 0, ss |-> 0, sp |-> 0]
Com(code) == File("COM", code)

\* An MZ program with a stack of its own, whose pushes wrap around.
Mz(code, stackTop) ==
  [File("MZ", code) EXCEPT !.ss = 16, !.sp = stackTop]

MCSectorSize == 8
SectorData == MovAx(513) \o Lock(IntN(19)) \o Lock(Hlt) \o <<1, 2, 3, 4, 5, 6, 7, 8>>
MCHostFiles == (HostOnly :> <<7, 8, 9>>)

DiskOf(files) ==
  [present |-> TRUE, cyls |-> 3, heads |-> 1, spt |-> 2,
   data |-> SectorData, files |-> files]
NoDisk ==
  [present |-> FALSE, cyls |-> 0, heads |-> 0, spt |-> 0, data |-> <<>>,
   files |-> [n \in {} |-> 0]]

\* The other files of every disk.
Others == (ProgB :> Com(Stc \o Spin))
          @@ (ProgC :> Mz(Lock(IntN(32)), 2))
          @@ (ProgD :> File("TruncatedMZ", <<77, 90>>))
          @@ (ProgE :> File("ShortMZ", <<77, 90>>))

FatBoot(file, q) ==
  [kind |-> "fat", disk |-> DiskOf((ProgA :> file) @@ Others), queue |-> q,
   limit |-> 0]
ExeBoot(file) ==
  [kind |-> "exe", disk |-> NoDisk, queue |-> <<>>, limit |-> 0,
   program |-> file]
SectorBoot ==
  [kind |-> "boot", disk |-> DiskOf([n \in {} |-> 0]), queue |-> <<>>,
   limit |-> 0]

Single(code) == FatBoot(Com(code), <<ProgA>>)

-----------------------------------------------------------------------------
\* Control: two instructions of every kind, and an ending.
Bodies == {Nop, Stc, MovAx(256), AddAx(65535), OutPort(168), OutPort(170),
           Store(260, 244), StoreBx(1), MovSsAx, MovDsAx, CallNext, PushAx,
           Jc(1), InPort0, OutWord, IntN(8), IncHere, Group1Add}
Endings == {Hlt, Lock(Hlt), Lock(IntN(32)), Lock(IntN(8)), Spin, Ret, Undefined,
            CallFarReg, CallFarSib, DivZero, NearJump}
ControlBoots ==
  {Single(b \o c \o e) : b \in Bodies, c \in Bodies, e \in Endings}
    \cup {SectorBoot, ExeBoot(Mz(Lock(IntN(8)) \o Spin, 3))}

-----------------------------------------------------------------------------
\* Services: every interrupt the runtime serves, with the values of AH it
\* tells apart, and DOS requests with a path at DS:DX.
Requests == {256 * h + l : h \in {0, 1, 2, 3, 8, 9, 10, 15, 21, 25, 26, 37, 44,
                                  48, 51, 52, 53, 63, 66, 68, 71, 72, 75, 76},
                          l \in {0, 1}}
Request(ax, n) == MovAx(ax) \o Lock(IntN(n)) \o Spin
ServiceCode == {<<251>> \o Request(ax, n) : ax \in Requests, n \in Native}

\* The string follows the code, eleven bytes after the entry point.
WithPath(ax, send, path) ==
  MovToDx(267) \o MovAx(ax) \o send \o Lock(Hlt) \o path \o <<0>>
PathCode ==
  {WithPath(ax, Lock(IntN(33)), p) :
     ax \in {15616, 19200, 19201, 2304},
     p \in {<<66>>, <<98>>, ProgC, ProgD, ProgE, HostOnly, <<90>>, <<36>>}}

\* Open by INT without the prefix: the translator's INT returns to the start of
\* its own block, so every call of step opens the file again.
ReopenCode == {MovToDx(266) \o MovAx(15616) \o IntN(33) \o Spin \o p \o <<0>> :
                 p \in {ProgB, HostOnly}}

\* Open one file, then another, then read or seek on handle h; of the three
\* names H is a host file, B and C are files of the disk.
FileCode ==
  {MovToDx(280 + 2 * p[1]) \o MovAx(15616) \o Lock(IntN(33))
     \o MovToDx(280 + 2 * p[2]) \o MovToBx(h) \o MovToCx(2) \o MovAx(ax)
     \o Lock(IntN(33)) \o <<72, 0, 66, 0, 67, 0>> :
       p \in {<<0, 0>>, <<0, 1>>, <<1, 2>>}, h \in {5, 100},
       ax \in {15616, 16128, 16896, 16897, 16898, 16899}}

\* A file read over the interrupt frame of the read itself.
FrameRead ==
  MovToDx(29) \o MovAx(15616) \o Lock(IntN(33)) \o MovToDx(506) \o MovToBx(5)
    \o MovToCx(9) \o MovAx(16128) \o Lock(IntN(33)) \o Lock(Hlt) \o <<0, 0, 0>>
FrameBoot == ExeBoot([Mz(FrameRead \o <<72, 0>>, 512) EXCEPT !.ss = 0])

ServiceBoots ==
  {Single(c) : c \in ServiceCode \cup PathCode \cup ReopenCode \cup FileCode}
    \cup {ExeBoot(Mz(Request(ax, 33), sp)) : ax \in {0, 9472}, sp \in 0 .. 7}
    \cup {SectorBoot, FrameBoot}

-----------------------------------------------------------------------------
\* Batches of one to three programs, each of which ends in its own way.
ProgramBatches ==
  {FatBoot(f, q) :
     f \in {Com(e) : e \in {Hlt, Lock(Hlt), Lock(IntN(32)), Nop \o Lock(Hlt),
                            CallFarReg, IdivOver}}
             \cup {Mz(Lock(Hlt), 4)},
     q \in {<<ProgA>>, <<ProgA, ProgA>>, <<ProgA, ProgB>>, <<ProgA, ProgC>>,
            <<ProgA, ProgA, ProgA>>, <<ProgA, ProgD>>, <<ProgA, ProgE>>}}

\* Programs that store nothing and are loaded once, and that reach their code
\* through several segments: 0FF0:0200 is 1000:0100 again, 1010:0100 is not.
Hops == {FarJump(4080, 512), FarJump(4112, 256), FarCall(4112, 256), CallNext,
         MovAx(3), OutPort(168), Nop, IntN(8), Ret, RetN}
Hopping ==
  {Single(b \o c \o e) : b \in Hops, c \in Hops, e \in {Hlt, Spin, Lock(IntN(8))}}

BatchBoots ==
  {[b EXCEPT !.limit = n] : b \in ProgramBatches, n \in {0, 2}} \cup Hopping

-----------------------------------------------------------------------------
\* Two programs one after the other.
PairBoots == {FatBoot(Com(Hlt), <<ProgA, ProgB>>)}

\* One program for each claim.
MovBoots == {Single(<<185, 1, 0>> \o Spin)}
IntBoots == {Single(Lock(Nop) \o IntN(17) \o Hlt)}
KeyBoots == {Single(MovAx(256) \o Lock(IntN(22)) \o Spin)}
ExecBoots == {Single(WithPath(19200, Lock(IntN(33)), ProgB))}

=============================================================================
