--------------------------------- MODULE Alu ---------------------------------
(***************************************************************************)
(* Arithmetic: flags, the immediate group 80-83 and the unary group F6/F7  *)
(* (cpu/interp/alu.rs, with the flag helpers of interp/mod.rs and          *)
(* cpu/regs.rs).  A word is also the set of the positions of its one bits. *)
(* n is the number of values of an operand: 256 or WordSize.               *)
(***************************************************************************)
EXTENDS Operands, FiniteSets

BitValue == <<1, 2, 4, 8, 16, 32, 64, 128, 256, 512, 1024, 2048, 4096, 8192,
              16384, 32768>>
Position == 0 .. 15
Bits(v) == {i \in Position : (v \div BitValue[i + 1]) % 2 = 1}
FromBits(B) ==
  LET value(i, v) == IF i \in B THEN v ELSE 0
  IN value(0, 1) + value(1, 2) + value(2, 4) + value(3, 8) + value(4, 16)
       + value(5, 32) + value(6, 64) + value(7, 128) + value(8, 256)
       + value(9, 512) + value(10, 1024) + value(11, 2048) + value(12, 4096)
       + value(13, 8192) + value(14, 16384) + value(15, 32768)

And(a, b) == FromBits(Bits(a) \cap Bits(b))
Or(a, b) == FromBits(Bits(a) \cup Bits(b))
Xor(a, b) == FromBits((Bits(a) \ Bits(b)) \cup (Bits(b) \ Bits(a)))

-----------------------------------------------------------------------------
\* Flags.

Negative(v, n) == 2 * v >= n
EvenParity(v) == Cardinality(Bits(v) \cap (0 .. 7)) % 2 = 0

ResultFlags(r, v, n) ==
  SetFlag(SetFlag(SetFlag(r, ZeroFlag, v = 0), SignFlag, Negative(v, n)),
          ParityFlag, EvenParity(v))

CarryOverflow(r, carry, overflow) ==
  SetFlag(SetFlag(r, CarryFlag, carry), OverflowFlag, overflow)

\* v is a + b, or a - b.
AddFlags(r, a, b, v, n) ==
  SetFlag(CarryOverflow(ResultFlags(r, v, n), a + b >= n,
                        /\ Negative(a, n) = Negative(b, n)
                        /\ Negative(a, n) # Negative(v, n)),
          AuxFlag, (a % 16) + (b % 16) > 15)

\* Mutant: no difference of signs is asked for.
SubFlagsLoose(r, a, b, v, n) ==
  SetFlag(CarryOverflow(ResultFlags(r, v, n), a < b,
                        Negative(a, n) # Negative(v, n)),
          AuxFlag, a % 16 < b % 16)

SubFlags(r, a, b, v, n) ==
  SetFlag(CarryOverflow(ResultFlags(r, v, n), a < b,
                        /\ Negative(a, n) # Negative(b, n)
                        /\ Negative(a, n) # Negative(v, n)),
          AuxFlag, a % 16 < b % 16)

LogicFlags(r, v, n) == CarryOverflow(ResultFlags(r, v, n), FALSE, FALSE)

-----------------------------------------------------------------------------
\* Group 1.  The callers drop the result, so that only the flags are left of
\* ADD, OR, ADC, SBB, AND, SUB, XOR and CMP.

Group1Flags(r, operation, a, b, n) ==
  LET carry == IF Flag(r, CarryFlag) THEN 1 ELSE 0
      bc == (b + carry) % n
  IN CASE operation = 0 -> AddFlags(r, a, b, (a + b) % n, n)
       [] operation = 1 -> LogicFlags(r, Or(a, b), n)
       [] operation = 2 -> AddFlags(r, a, bc, (a + b + carry) % n, n)
       [] operation = 3 -> SubFlags(r, a, bc, (a - b - carry) % n, n)
       [] operation = 4 -> LogicFlags(r, And(a, b), n)
       [] operation = 6 -> LogicFlags(r, Xor(a, b), n)
       [] OTHER -> SubFlags(r, a, b, (a - b) % n, n)

Group1Opcodes == 128 .. 131
ByteOpcode(opcode) == opcode \in {128, 130, 246}

\* The immediate comes before the displacement of the operand.
Group1(opcode, s, p) ==
  LET b == Imm8(s)
      i == Skip(s)
      t == IF opcode = 129 THEN Skip16(i) ELSE Skip(i)
      imm == CASE opcode = 129 -> Imm16(i)
               [] opcode = 131 -> Wrap16(SignExtend(Imm8(i)))
               [] OTHER -> Imm8(i)
      after == AfterOperand(t, p, b)
  IN WithReg(after,
       IF ByteOpcode(opcode)
       THEN Group1Flags(after.regs, ModRmReg(b), Read8(t, p, b), imm, 256)
       ELSE Group1Flags(after.regs, ModRmReg(b), Read16(t, p, b), imm, WordSize))

-----------------------------------------------------------------------------
\* Multiplication and division.  A product or dividend of 32 bits is a pair
\* of words, low word first.

\* Mutant: the high word misses what the low one carries.
Mul32NoCarry(a, b) ==
  LET high == Hi(a) * b
  IN <<Wrap16(256 * Lo(high) + Lo(a) * b), Wrap16(Hi(high))>>

Mul32(a, b) ==
  LET high == Hi(a) * b
      low == 256 * Lo(high) + Lo(a) * b
  IN <<Wrap16(low), Wrap16(Hi(high) + low \div WordSize)>>

\* Quotient and remainder of high * 65536 + low by d, sixteen bits of each:
\* the long division of the program's one instruction, byte by byte.
DivU(high, low, d) ==
  LET r0 == 256 * (high % d) + Hi(low)
      r1 == 256 * (r0 % d) + Lo(low)
  IN <<Wrap16(256 * (r0 \div d) + r1 \div d), Wrap16(r1 % d)>>

\* Division that rounds towards zero, and its remainder.
Abs(x) == IF x < 0 THEN -x ELSE x
Quot(a, d) ==
  LET up == IF a < 0 THEN (a + Abs(d) - 1) \div Abs(d) ELSE a \div Abs(d)
  IN IF d < 0 THEN -up ELSE up

\* Mutant: the remainder is never negative.
RemFloored(a, d) == a % Abs(d)

Rem(a, d) == a - Quot(a, d) * d

\* IDIV takes DX:AX with AX sign-extended over DX.
SignedDxAx(r) ==
  IF Get16(r, AX) < 32768 THEN Signed16(Get16(r, DX)) * WordSize + Get16(r, AX)
                          ELSE Signed16(Get16(r, AX))

\* The quotient that has no sixteen, or thirty-two, bits panics.
DivisionPanics(opcode, s, p) ==
  LET b == Imm8(s)
      t == Skip(s)
  IN ModRmReg(b) = 7 /\
     \/ opcode = 246 /\ Get16(s.regs, AX) = 32768 /\ Read8(t, p, b) = 255
     \/ /\ opcode = 247 /\ Read16(t, p, b) = 65535
        /\ Get16(s.regs, DX) = 32768 /\ Get16(s.regs, AX) = 0

SetWide(r, lo, hi) == Set16(Set16(r, AX, lo), DX, hi)

MulRegs(r, v) ==
  LET x == Get8(r, AL) * v
  IN CarryOverflow(Set16(r, AX, x), x > 255, x > 255)
ImulRegs(r, v) ==
  LET x == SignExtend(Get8(r, AL)) * SignExtend(v)
      over == x \notin -128 .. 127
  IN CarryOverflow(Set16(r, AX, Wrap16(x)), over, over)
DivRegs(r, v) ==
  Set8(Set8(r, AL, Lo(Get16(r, AX) \div v)), AH, Lo(Get16(r, AX) % v))
IdivRegs(r, v) ==
  LET a == Signed16(Get16(r, AX))
  IN Set8(Set8(r, AL, Lo(Quot(a, SignExtend(v)))), AH, Lo(Rem(a, SignExtend(v))))

MulRegs16(r, v) ==
  LET x == Mul32(Get16(r, AX), v)
  IN CarryOverflow(SetWide(r, x[1], x[2]), x[2] # 0, x[2] # 0)
\* What sixteen signed bits do not hold.
Beyond16(x) == x > 32767 \/ x < -32768
ImulRegs16(r, v) ==
  LET x == Signed16(Get16(r, AX)) * Signed16(v)
      over == Beyond16(x)
  IN CarryOverflow(SetWide(r, Wrap16(x), Wrap16(x \div WordSize)), over, over)
DivRegs16(r, v) ==
  LET x == DivU(Get16(r, DX), Get16(r, AX), v) IN SetWide(r, x[1], x[2])
IdivRegs16(r, v) ==
  SetWide(r, Wrap16(Quot(SignedDxAx(r), Signed16(v))),
             Wrap16(Rem(SignedDxAx(r), Signed16(v))))

-----------------------------------------------------------------------------
\* Group 3.  Field 2, which is NOT on the processor, negates, and field 3 is
\* NOT.

Group3Opcodes == {246, 247}

Group3Byte(s, p, b) ==
  LET v == Read8(s, p, b)
      after == AfterOperand(s, p, b)
      negated == (-v) % 256
  IN CASE ModRmReg(b) = 2 ->
            Write8(WithReg(after, SubFlags(after.regs, 0, v, negated, 256)),
                   p, b, negated)
       [] ModRmReg(b) = 3 -> Write8(after, p, b, 255 - v)
       [] ModRmReg(b) = 4 -> WithReg(after, MulRegs(after.regs, v))
       [] ModRmReg(b) = 5 -> WithReg(after, ImulRegs(after.regs, v))
       [] ModRmReg(b) = 6 -> WithReg(after, DivRegs(after.regs, v))
       [] ModRmReg(b) = 7 -> WithReg(after, IdivRegs(after.regs, v))

Group3Word(s, p, b) ==
  LET v == Read16(s, p, b)
      after == AfterOperand(s, p, b)
      negated == Wrap16(-v)
  IN CASE ModRmReg(b) = 2 ->
            Write16(WithReg(after, SubFlags(after.regs, 0, v, negated, WordSize)),
                    p, b, negated)
       [] ModRmReg(b) = 3 -> Write16(after, p, b, WordSize - 1 - v)
       [] ModRmReg(b) = 4 -> WithReg(after, MulRegs16(after.regs, v))
       [] ModRmReg(b) = 5 -> WithReg(after, ImulRegs16(after.regs, v))
       [] ModRmReg(b) = 6 -> WithReg(after, DivRegs16(after.regs, v))
       [] ModRmReg(b) = 7 -> WithReg(after, IdivRegs16(after.regs, v))

\* TEST, whose immediate too comes before the displacement.
TestByte(s, p, b) ==
  LET after == AfterOperand(Skip(s), p, b)
  IN WithReg(after, LogicFlags(after.regs, And(Read8(Skip(s), p, b), Imm8(s)), 256))
TestWord(s, p, b) ==
  LET after == AfterOperand(Skip16(s), p, b)
  IN WithReg(after, LogicFlags(after.regs,
                               And(Read16(Skip16(s), p, b), Imm16(s)), WordSize))

DividesByZero(opcode, s, p, b) ==
  /\ ModRmReg(b) \in {6, 7}
  /\ (IF ByteOpcode(opcode) THEN Read8(s, p, b) ELSE Read16(s, p, b)) = 0

Group3(opcode, s, p) ==
  LET b == Imm8(s)
      t == Skip(s)
  IN CASE ModRmReg(b) < 2 ->
            Outcome(IF ByteOpcode(opcode) THEN TestByte(t, p, b)
                                          ELSE TestWord(t, p, b), Continue)
       [] DividesByZero(opcode, t, p, b) ->
            Outcome(AfterOperand(t, p, b), Interrupt(0))
       [] OTHER ->
            Outcome(IF ByteOpcode(opcode) THEN Group3Byte(t, p, b)
                                          ELSE Group3Word(t, p, b), Continue)

=============================================================================
