-------------------------------- MODULE Jit --------------------------------
(***************************************************************************)
(* The translator and the code it generates (cpu/jit.rs).                  *)
(*                                                                         *)
(* An intermediate operation has two operands, a and b.  Generated code is *)
(* modelled by what it does on the ABI it is written for (first argument   *)
(* in rcx, second in rdx) and on the layout rustc gives Regs: gp first, so *)
(* that the byte offset 2*i of a register operand is word i of gp, and the *)
(* byte offset 24 of SyncIp is word 12, the low half of ESI.               *)
(***************************************************************************)
EXTENDS Cpu, Video

Continue == [kind |-> "Continue", num |-> 0]
Halt == [kind |-> "Halt", num |-> 0]
Interrupt(n) == [kind |-> "Interrupt", num |-> n]
Unimplemented(op) == [kind |-> "Unimplemented", num |-> op]
StepResult == [kind : {"Continue", "Halt", "Interrupt", "Unimplemented"},
               num : Byte]

IrOps == {"MovRegImm", "AddRegImm", "MovMemImm8", "OutImm8", "JmpRelative",
          "SyncIp", "Exit"}
Ir(op, a, b) == [op |-> op, a |-> a, b |-> b]
IrOp == [op : IrOps, a : Addr, b : Word]

ExitContinue == 0
ExitHalt == 1
ExitInt == 100

-----------------------------------------------------------------------------
\* translate_block: what one turn of its loop adds to the block.
\* size is 0 when the turn ends the block.

CodeByte(m, a, i) == ReadU8(m, (a + i) % MemSize)
CodeWord(m, a, i) == ReadU16(m, (a + i) % MemSize)

Turn(ops, size) == [ops |-> ops, size |-> size]

\* An instruction of the straight-line kind, then the address after it.
Straight(ir, ip, size) ==
  Turn(<<ir, Ir("SyncIp", Wrap16(ip + size), 0)>>, size)

\* Mutant: an operand form the translator does not know exits, and goes on.
StoreTurnGoesOn(m, r, a, ip) ==
  LET modrm == CodeByte(m, a, 1)
  IN IF modrm \div 64 = 0 /\ modrm % 8 = 6
     THEN Straight(Ir("MovMemImm8", Phys(GetSeg(r, DS), CodeWord(m, a, 2)),
                      CodeByte(m, a, 4)), ip, 5)
     ELSE Turn(<<Ir("Exit", ExitContinue, 0)>>, 2)

\* MOV m8, imm8 with a 16-bit displacement; any other C6 ends the block.
StoreTurn(m, r, a, ip) ==
  LET modrm == CodeByte(m, a, 1)
  IN IF modrm \div 64 = 0 /\ modrm % 8 = 6
     THEN Straight(Ir("MovMemImm8", Phys(GetSeg(r, DS), CodeWord(m, a, 2)),
                      CodeByte(m, a, 4)), ip, 5)
     ELSE Turn(<<>>, 0)

SignExtend(b) == IF b < 128 THEN b ELSE b - 256

Translate(m, r, ip) ==
  LET a == Phys(GetSeg(r, CS), ip)
      opcode == CodeByte(m, a, 0)
      exit(code) == Ir("Exit", code, 0)
  IN CASE opcode \in 184 .. 191 ->
            Straight(Ir("MovRegImm", opcode % 8, CodeWord(m, a, 1)), ip, 3)
       [] opcode = 198 -> StoreTurn(m, r, a, ip)
       [] opcode = 5 -> Straight(Ir("AddRegImm", AX, CodeWord(m, a, 1)), ip, 3)
       [] opcode = 230 -> Straight(Ir("OutImm8", CodeByte(m, a, 1), 0), ip, 2)
       [] opcode = 235 ->
            Turn(<<Ir("JmpRelative", CodeByte(m, a, 1), 0),
                   Ir("SyncIp", Wrap16(ip + 2 + SignExtend(CodeByte(m, a, 1))),
                      0),
                   exit(ExitContinue)>>, 0)
       [] opcode = 205 ->
            Turn(<<Ir("SyncIp", Wrap16(ip + 2), 0),
                   exit(ExitInt + CodeByte(m, a, 1))>>, 0)
       [] opcode = 244 -> Turn(<<exit(ExitHalt)>>, 0)
       [] OTHER -> Turn(<<exit(ExitContinue)>>, 0)

-----------------------------------------------------------------------------
\* compile_block: what the code generated for one operation does.

SetWord(r, i, v) == [r EXCEPT !.w = [@ EXCEPT ![i] = v]]
SyncIpWord == 12

\* Mutant: the sum of an addition keeps its carry.
RunRegsNoWrap(r, ir) ==
  CASE ir.op = "MovRegImm" -> SetWord(r, ir.a, ir.b)
    [] ir.op = "AddRegImm" -> SetWord(r, ir.a, r.w[ir.a] + ir.b)
    [] ir.op = "SyncIp" -> SetWord(r, SyncIpWord, ir.a)
    [] OTHER -> r

RunRegs(r, ir) ==
  CASE ir.op = "MovRegImm" -> SetWord(r, ir.a, ir.b)
    [] ir.op = "AddRegImm" -> SetWord(r, ir.a, Wrap16(r.w[ir.a] + ir.b))
    [] ir.op = "SyncIp" -> SetWord(r, SyncIpWord, ir.a)
    [] OTHER -> r

\* Bus::mem_write_u8 takes a store to VRAM away from memory.
RunMem(m, ir) ==
  IF ir.op = "MovMemImm8" /\ VramCells(ir.a) = {}
  THEN WriteU8(m, ir.a, ir.b) ELSE m

RunVideo(v, r, ir) ==
  CASE ir.op = "MovMemImm8" /\ VramCells(ir.a) # {} ->
         WriteCell(v, CHOOSE c \in VramCells(ir.a) : TRUE, ir.b)
    [] ir.op = "OutImm8" -> WritePort(v, ir.a, Get8(r, AL))
    [] OTHER -> v

\* run_block: the result the code an Exit loads into rax stands for.
ResultOf(code) ==
  IF code = ExitHalt THEN Halt
  ELSE IF code >= ExitInt THEN Interrupt((code - ExitInt) % 256)
  ELSE Continue

=============================================================================
