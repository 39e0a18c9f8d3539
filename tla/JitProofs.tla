----------------------------- MODULE JitProofs -----------------------------
(***************************************************************************)
(* What a turn of the translator produces, and what generated code and the *)
(* video controller keep.                                                  *)
(***************************************************************************)
EXTENDS Jit, CpuProofs

\* A register operand names one of the eight registers, only ADD AX adds, a
\* store stores a byte and SyncIp holds a sixteen-bit offset.
GoodOperand(ir) == /\ ir.op = "MovRegImm" => ir.a \in Reg
                   /\ ir.op = "AddRegImm" => ir.a = AX
                   /\ ir.op = "SyncIp" => ir.a \in Word
                   /\ ir.op = "MovMemImm8" => ir.b \in Byte

LEMMA CodeTyped ==
  ASSUME NEW m, IsMem(m), NEW a \in Addr, NEW i \in Nat
  PROVE  CodeByte(m, a, i) \in Byte /\ CodeWord(m, a, i) \in Word
<1>1. (a + i) % MemSize \in Addr
  BY ModAddr, AddrInt
<1>. QED  BY <1>1, ReadU8IsByte, ReadU16IsWord DEF CodeByte, CodeWord

LEMMA SignExtendInt == ASSUME NEW b \in Byte PROVE SignExtend(b) \in Int
  BY ByteRange DEF SignExtend

LEMMA ByteWord == Byte \subseteq Word
  BY ByteRange, WordRange

LEMMA IrTyped ==
  ASSUME NEW op \in IrOps, NEW a \in Addr, NEW b \in Word
  PROVE  Ir(op, a, b) \in IrOp /\ Ir(op, a, b).op = op /\ Ir(op, a, b).a = a
  BY DEF Ir, IrOp

\* The turn of a straight-line instruction.
StraightTurn(t) ==
  /\ t.size \in 1 .. 5 /\ t.ops \in Seq(IrOp) /\ Len(t.ops) = 2
  /\ t.ops[1].op # "Exit" /\ GoodOperand(t.ops[1])
  /\ t.ops[2].op = "SyncIp" /\ GoodOperand(t.ops[2])

\* A turn that ends the block: nothing, or at most two operations and an Exit.
LastTurn(t) ==
  /\ t.size = 0 /\ t.ops \in Seq(IrOp) /\ Len(t.ops) \in 0 .. 3
  /\ \A i \in 1 .. Len(t.ops) : /\ GoodOperand(t.ops[i])
                                /\ t.ops[i].op = "Exit" <=> i = Len(t.ops)

LEMMA StraightTyped ==
  ASSUME NEW ir \in IrOp, ir.op # "Exit", GoodOperand(ir), NEW ip \in Addr,
         NEW size \in 1 .. 5
  PROVE  StraightTurn(Straight(ir, ip, size))
<1>1. Wrap16(ip + size) \in Addr /\ Wrap16(ip + size) \in Word
  BY MoveIp
<1>2. 0 \in Word
  BY WordRange
<1>3. Ir("SyncIp", Wrap16(ip + size), 0) \in IrOp
      /\ Ir("SyncIp", Wrap16(ip + size), 0).op = "SyncIp"
      /\ GoodOperand(Ir("SyncIp", Wrap16(ip + size), 0))
  BY <1>1, <1>2, IrTyped DEF IrOps, GoodOperand
<1>. QED  BY <1>3 DEF Straight, StraightTurn, Turn

\* Every turn either goes on with a straight-line instruction or ends the
\* block, and its operations are well typed.
LEMMA TurnShape ==
  ASSUME NEW m, IsMem(m), NEW r \in Regs, NEW ip \in Addr
  PROVE  StraightTurn(Translate(m, r, ip)) \/ LastTurn(Translate(m, r, ip))
<1>. DEFINE a == Phys(GetSeg(r, CS), ip)
            opcode == CodeByte(m, a, 0)
            t == Translate(m, r, ip)
<1>1. a \in Addr
  BY SegPhys DEF CS, SegReg
<1>2. \A i \in Nat : CodeByte(m, a, i) \in Byte /\ CodeWord(m, a, i) \in Word
  BY <1>1, CodeTyped
<1>3. \A x \in Byte : x \in Word /\ x \in Addr /\ x \in Nat
  BY ByteWord, WordAddr, ByteRange
<1>4. 0 \in Word /\ 0 \in Addr /\ 1 \in Addr
  BY WordRange, AddrRange, MemSizeNat
<1>. HIDE DEF a
<1>5. CASE opcode \in 184 .. 191
  <2>1. t = Straight(Ir("MovRegImm", opcode % 8, CodeWord(m, a, 1)), ip, 3)
    BY <1>5 DEF Translate, a
  <2>2. opcode % 8 \in Reg
    BY <1>5 DEF Reg
  <2>3. opcode % 8 \in Addr
    BY <2>2, AddrRange, MemSizeNat DEF Reg
  <2>4. Ir("MovRegImm", opcode % 8, CodeWord(m, a, 1)) \in IrOp
    BY <2>3, <1>2, IrTyped DEF IrOps
  <2>. QED  BY <2>1, <2>2, <2>4, StraightTyped DEF GoodOperand, Ir
<1>6. CASE opcode = 198
  <2>1. t = StoreTurn(m, r, a, ip)
    BY <1>6 DEF Translate, a
  <2>2. Phys(GetSeg(r, DS), CodeWord(m, a, 2)) \in Addr
    BY <1>2, WordAddr, SegPhys DEF DS, SegReg
  <2>. DEFINE ir == Ir("MovMemImm8", Phys(GetSeg(r, DS), CodeWord(m, a, 2)),
                       CodeByte(m, a, 4))
  <2>3. ir \in IrOp
    BY <2>2, <1>2, <1>3, IrTyped DEF IrOps
  <2>4. StraightTurn(Straight(ir, ip, 5))
    <3>1. ir.op # "Exit" /\ GoodOperand(ir)
      BY <1>2 DEF GoodOperand, Ir
    <3>. HIDE DEF ir
    <3>. QED  BY <2>3, <3>1, StraightTyped
  <2>5. LastTurn(Turn(<<>>, 0))
    BY DEF LastTurn, Turn
  <2>. HIDE DEF ir
  <2>6. t = Straight(ir, ip, 5) \/ t = Turn(<<>>, 0)
    BY <2>1 DEF StoreTurn, ir
  <2>. QED  BY <2>4, <2>5, <2>6
<1>7. CASE opcode = 5
  <2>1. t = Straight(Ir("AddRegImm", AX, CodeWord(m, a, 1)), ip, 3)
    BY <1>7 DEF Translate, a
  <2>2. Ir("AddRegImm", AX, CodeWord(m, a, 1)) \in IrOp
    BY <1>2, <1>4, IrTyped DEF IrOps, AX
  <2>. QED  BY <2>1, <2>2, StraightTyped DEF GoodOperand, Ir
<1>8. CASE opcode = 230
  <2>1. t = Straight(Ir("OutImm8", CodeByte(m, a, 1), 0), ip, 2)
    BY <1>8 DEF Translate, a
  <2>2. Ir("OutImm8", CodeByte(m, a, 1), 0) \in IrOp
    BY <1>2, <1>3, <1>4, IrTyped DEF IrOps
  <2>. QED  BY <2>1, <2>2, StraightTyped DEF GoodOperand, Ir
<1>9. CASE opcode = 235
  <2>. DEFINE b == CodeByte(m, a, 1)
              o1 == Ir("JmpRelative", b, 0)
              o2 == Ir("SyncIp", Wrap16(ip + 2 + SignExtend(b)), 0)
              o3 == Ir("Exit", ExitContinue, 0)
  <2>1. t = Turn(<<o1, o2, o3>>, 0)
    BY <1>9 DEF Translate, a
  <2>2. b \in Byte /\ SignExtend(b) \in Int
    BY <1>2, SignExtendInt
  <2>3. /\ Wrap16(ip + 2 + SignExtend(b)) \in Addr
        /\ Wrap16(ip + 2 + SignExtend(b)) \in Word
    <3>1. 2 + SignExtend(b) \in Int /\ ip \in Int
      BY <2>2, AddrInt
    <3>2. ip + 2 + SignExtend(b) = ip + (2 + SignExtend(b))
      BY <2>2, <3>1
    <3>. HIDE DEF b
    <3>. QED  BY <3>1, <3>2, MoveIp
  <2>4. o1 \in IrOp /\ o2 \in IrOp /\ o3 \in IrOp
    BY <2>2, <2>3, <1>3, <1>4, IrTyped DEF IrOps, ExitContinue
  <2>5. /\ o1.op = "JmpRelative" /\ o2.op = "SyncIp" /\ o3.op = "Exit"
        /\ GoodOperand(o1) /\ GoodOperand(o2) /\ GoodOperand(o3)
    BY <2>3 DEF Ir, GoodOperand
  <2>. HIDE DEF o1, o2, o3
  <2>. QED  BY <2>1, <2>4, <2>5 DEF LastTurn, Turn
<1>10. CASE opcode = 205
  <2>. DEFINE o1 == Ir("SyncIp", Wrap16(ip + 2), 0)
              o2 == Ir("Exit", ExitInt + CodeByte(m, a, 1), 0)
  <2>1. t = Turn(<<o1, o2>>, 0)
    BY <1>10 DEF Translate, a
  <2>2. Wrap16(ip + 2) \in Addr /\ Wrap16(ip + 2) \in Word
    BY MoveIp
  <2>3. ExitInt + CodeByte(m, a, 1) \in Addr
    BY <1>2, ByteRange, AddrRange, MemSizeNat DEF ExitInt
  <2>4. o1 \in IrOp /\ o2 \in IrOp
    BY <2>2, <2>3, <1>4, IrTyped DEF IrOps
  <2>5. /\ o1.op = "SyncIp" /\ o2.op = "Exit"
        /\ GoodOperand(o1) /\ GoodOperand(o2)
    BY <2>2 DEF Ir, GoodOperand
  <2>. HIDE DEF o1, o2
  <2>. QED  BY <2>1, <2>4, <2>5 DEF LastTurn, Turn
<1>11. CASE opcode \notin (184 .. 191) \cup {198, 5, 230, 235, 205}
  <2>1. PICK code \in {ExitHalt, ExitContinue} :
          t = Turn(<<Ir("Exit", code, 0)>>, 0)
    BY SMTT(60), <1>11 DEF Translate, a
  <2>2. /\ Ir("Exit", code, 0) \in IrOp /\ Ir("Exit", code, 0).op = "Exit"
        /\ GoodOperand(Ir("Exit", code, 0))
    BY SMTT(60), <1>4, IrTyped DEF IrOps, ExitHalt, ExitContinue, GoodOperand
  <2>. QED  BY <2>1, <2>2 DEF LastTurn, Turn
<1>. QED  BY <1>5, <1>6, <1>7, <1>8, <1>9, <1>10, <1>11

-----------------------------------------------------------------------------
\* The video controller.

LEMMA OctetRange == \A x : x \in Octet <=> x \in Int /\ 0 <= x /\ x <= 255
  BY DEF Octet

LEMMA VideoNewTyped == IsVideo(VideoNew)
<1>1. 255 \in Octet /\ 85 \in Octet /\ 170 \in Octet /\ 0 \in Octet
  BY OctetRange
<1>2. DefaultPalette \in [Nibble -> [1 .. 3 -> Octet]]
  BY <1>1 DEF DefaultPalette
<1>3. 0 \in Nibble
  BY DEF Nibble
<1>. QED  BY <1>2, <1>3 DEF IsVideo, VideoNew

LEMMA CellsTyped ==
  ASSUME NEW addr \in Addr
  PROVE  VramCells(addr) \subseteq Cells
<1>. DEFINE Window(base, plane) ==
              IF base <= addr /\ addr <= base + 32767 /\ addr - base < PlaneSize
              THEN {<<plane, addr - base>>} ELSE {}
<1>1. addr \in Int
  BY AddrInt
<1>2. PlaneSize \in Int
  BY DEF PlaneSize
<1>3. ASSUME NEW base \in Nat, NEW plane \in 0 .. 3
      PROVE  Window(base, plane) \subseteq Cells
  BY <1>1, <1>2 DEF Cells
<1>4. VramCells(addr) = Window(688128, 0) \cup Window(720896, 1)
                          \cup Window(753664, 2) \cup Window(917504, 3)
  BY DEF VramCells
<1>5. /\ 688128 \in Nat /\ 720896 \in Nat /\ 753664 \in Nat /\ 917504 \in Nat
      /\ 0 \in 0 .. 3 /\ 1 \in 0 .. 3 /\ 2 \in 0 .. 3 /\ 3 \in 0 .. 3
  BY SMT
<1>. HIDE DEF Window
<1>. QED  BY <1>3, <1>4, <1>5

LEMMA WriteCellTyped ==
  ASSUME NEW v, IsVideo(v), NEW c \in Cells, NEW val \in Byte
  PROVE  IsVideo(WriteCell(v, c, val))
<1>1. val \in Octet
  BY ByteRange, OctetRange
<1>. QED  BY <1>1 DEF IsVideo, WriteCell

LEMMA SetColourTyped ==
  ASSUME NEW v, IsVideo(v), NEW c \in 1 .. 3, NEW val \in Byte
  PROVE  IsVideo(SetColour(v, c, val))
<1>1. 17 * (val % 16) \in Octet
  BY ByteRange, OctetRange
<1>. DEFINE entry == [v.palette[v.index] EXCEPT ![c] = 17 * (val % 16)]
<1>2. entry \in [1 .. 3 -> Octet]
  BY <1>1 DEF IsVideo
<1>3. SetColour(v, c, val)
        = [v EXCEPT !.palette = [v.palette EXCEPT ![v.index] = entry]]
  BY SMTT(60) DEF SetColour
<1>. HIDE DEF entry
<1>4. [v.palette EXCEPT ![v.index] = entry] \in [Nibble -> [1 .. 3 -> Octet]]
  BY <1>2 DEF IsVideo
<1>. QED  BY SMTT(60), <1>3, <1>4 DEF IsVideo

LEMMA WritePortTyped ==
  ASSUME NEW v, IsVideo(v), NEW port \in Int, NEW val \in Byte
  PROVE  IsVideo(WritePort(v, port, val))
<1>1. val % 16 \in Nibble
  BY ByteRange DEF Nibble
<1>2. IsVideo([v EXCEPT !.index = val % 16])
  BY <1>1 DEF IsVideo
<1>3. \A c \in 1 .. 3 : IsVideo(SetColour(v, c, val))
  BY SetColourTyped
<1>. QED  BY <1>2, <1>3 DEF WritePort, Red, Green, Blue

-----------------------------------------------------------------------------
\* Generated code.

LEMMA RunRegsTyped ==
  ASSUME NEW r \in Regs, NEW ir \in IrOp, GoodOperand(ir)
  PROVE  RunRegs(r, ir) \in Regs
<1>1. ASSUME NEW i \in 0 .. 15, NEW x \in Word  PROVE SetWord(r, i, x) \in Regs
  BY DEF SetWord, Regs
<1>2. CASE ir.op = "MovRegImm"
  BY <1>1, <1>2 DEF RunRegs, GoodOperand, IrOp, Reg
<1>3. CASE ir.op = "AddRegImm"
  <2>1. r.w[0] \in Word /\ ir.b \in Word
    BY DEF Regs, IrOp
  <2>2. Wrap16(r.w[0] + ir.b) \in Word
    <3>1. r.w[0] + ir.b \in Int
      BY <2>1, WordRange
    <3>. QED  BY <3>1, WrapInWord
  <2>. QED  BY <1>1, <1>3, <2>2 DEF RunRegs, GoodOperand, AX
<1>4. CASE ir.op = "SyncIp"
  BY <1>1, <1>4 DEF RunRegs, SyncIpWord, GoodOperand
<1>. QED  BY <1>2, <1>3, <1>4 DEF RunRegs

\* What generated code leaves of the register file: SP, BP and DI, and
\* everything that is not a general register.
LEMMA RunRegsKeeps ==
  ASSUME NEW r \in Regs, NEW ir \in IrOp, GoodOperand(ir)
  PROVE  /\ \A i \in {SP, 5, 7} : Get16(RunRegs(r, ir), i) = Get16(r, i)
         /\ RunRegs(r, ir).seg = r.seg
         /\ RunRegs(r, ir).ip = r.ip
         /\ RunRegs(r, ir).flags = r.flags
<1>1. ASSUME NEW i \in (0 .. 7) \cup {12}, NEW x
      PROVE  /\ \A j \in {SP, 5, 7} : Get16(SetWord(r, i, x), j) = Get16(r, j)
             /\ SetWord(r, i, x).seg = r.seg
             /\ SetWord(r, i, x).ip = r.ip
             /\ SetWord(r, i, x).flags = r.flags
  BY DEF SetWord, Get16, SP, Regs
<1>2. CASE ir.op = "MovRegImm"
  BY <1>1, <1>2 DEF RunRegs, GoodOperand, Reg
<1>3. CASE ir.op = "AddRegImm"
  BY <1>1, <1>3 DEF RunRegs, GoodOperand, AX
<1>4. CASE ir.op = "SyncIp"
  BY <1>1, <1>4 DEF RunRegs, SyncIpWord
<1>. QED  BY <1>2, <1>3, <1>4 DEF RunRegs

LEMMA RunMemTyped ==
  ASSUME NEW m, IsMem(m), NEW ir \in IrOp, GoodOperand(ir)
  PROVE  IsMem(RunMem(m, ir))
  BY WriteU8IsMem DEF RunMem, IrOp, GoodOperand

LEMMA RunVideoTyped ==
  ASSUME NEW v, IsVideo(v), NEW r \in Regs, NEW ir \in IrOp, GoodOperand(ir)
  PROVE  IsVideo(RunVideo(v, r, ir))
<1>1. CASE ir.op = "MovMemImm8" /\ VramCells(ir.a) # {}
  <2>1. (CHOOSE c \in VramCells(ir.a) : TRUE) \in Cells
    BY <1>1, CellsTyped DEF IrOp
  <2>. QED  BY <1>1, <2>1, WriteCellTyped DEF RunVideo, GoodOperand
<1>2. CASE ir.op = "OutImm8"
  <2>1. Get8(r, AL) \in Byte
    BY Get8Byte DEF AL, Reg
  <2>2. ir.a \in Int
    BY AddrRange DEF IrOp
  <2>. QED  BY <1>2, <2>1, <2>2, WritePortTyped DEF RunVideo
<1>. QED  BY <1>1, <1>2 DEF RunVideo

=============================================================================
