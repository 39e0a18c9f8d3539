------------------------------ MODULE Extended ------------------------------
(***************************************************************************)
(* The instructions behind the escape byte 0Fh (cpu/interp/extended.rs).   *)
(* e is the second opcode byte, s the machine past it, and b the ModRM     *)
(* byte of the instructions that have one.                                 *)
(***************************************************************************)
EXTENDS Alu

\* Condition code n of Jcc and SETcc: eight tests and their negations.
Condition(r, n) ==
  LET cf == Flag(r, CarryFlag)
      zf == Flag(r, ZeroFlag)
      sf == Flag(r, SignFlag)
      of == Flag(r, OverflowFlag)
      test == CASE n \div 2 = 0 -> of
                [] n \div 2 = 1 -> cf
                [] n \div 2 = 2 -> zf
                [] n \div 2 = 3 -> cf \/ zf
                [] n \div 2 = 4 -> sf
                [] n \div 2 = 5 -> Flag(r, ParityFlag)
                [] n \div 2 = 6 -> sf # of
                [] n \div 2 = 7 -> zf \/ (sf # of)
  IN IF n % 2 = 0 THEN test ELSE ~test

\* SLDT and STR store zero at an address they have decoded once before; the
\* other system instructions do nothing with theirs.
SystemGroup(s, p, b) ==
  CASE ModRmReg(b) < 2 -> Write16(AfterOperand(s, p, b), p, b, 0)
    [] ModRmReg(b) < 6 -> AfterOperand(s, p, b)
    [] OTHER -> s

\* LAR and LSL: access denied.
Denied(s, p, b) ==
  LET t == AfterOperand(s, p, b)
  IN WithReg(t, SetFlag(Set16(t.regs, ModRmReg(b), 0), ZeroFlag, FALSE))

Zeroed(s, B) ==
  WithReg(s, [s.regs EXCEPT !.w =
    [i \in 0 .. 15 |-> IF \E j \in B : i = 2 * j THEN 0 ELSE @[i]]])

\* The near Jcc, unlike the short one, does not wrap its target in sixteen bits.
NearJcc(e, s, p) ==
  LET rel == IF p.operand32 THEN Imm32(s) ELSE Signed16(Imm16(s))
      t == IF p.operand32 THEN Skip16(Skip16(s)) ELSE Skip16(s)
  IN IF Condition(t.regs, e % 16)
     THEN WithReg(t, SetIp(t.regs, (t.regs.ip + rel) % MemSize)) ELSE t

SetCc(e, s, p, b) ==
  Write8(s, p, b, IF Condition(s.regs, e % 16) THEN 1 ELSE 0)

PopSeg(s, i) == [Drop16(s) EXCEPT !.regs = SetSeg(@, i, Top16(s))]

-----------------------------------------------------------------------------
\* IMUL with two operands.

Imul16(s, p, b) ==
  LET t == AfterOperand(s, p, b)
      x == Signed16(Get16(t.regs, ModRmReg(b))) * Signed16(Read16(s, p, b))
      over == Beyond16(x)
  IN WithReg(t, CarryOverflow(Set16(t.regs, ModRmReg(b), Wrap16(x)), over, over))

\* The magnitude of a signed double word, as the pair of its words.
Magnitude(lo, hi) ==
  IF hi < 32768 THEN <<lo, hi>>
  ELSE <<Wrap16(-lo), Wrap16(-hi - (IF lo = 0 THEN 0 ELSE 1))>>

\* Whether the product of two signed double words leaves that range.
Overflows32(x, y) ==
  LET a == Magnitude(x[1], x[2])
      c == Magnitude(y[1], y[2])
      low == Mul32(a[1], c[1])
      cross == IF a[2] = 0 THEN Mul32(a[1], c[2]) ELSE Mul32(a[2], c[1])
      high == low[2] + cross[1]
      same == (x[2] < 32768) = (y[2] < 32768)
  IN \/ a[2] # 0 /\ c[2] # 0
     \/ cross[2] # 0 \/ high > 32768
     \/ high = 32768 /\ (same \/ low[1] # 0)

Imul32(s, p, b) ==
  LET t == AfterOperand(s, p, b)
      x == <<Read16(s, p, b), ReadHigh16(s, p, b)>>
      y == <<Get16(t.regs, ModRmReg(b)), GetHigh16(t.regs, ModRmReg(b))>>
      low == Mul32(x[1], y[1])
      high == Wrap16(low[2] + Mul32(x[1], y[2])[1] + Mul32(x[2], y[1])[1])
      over == Overflows32(x, y)
  IN WithReg(t, CarryOverflow(Set32(t.regs, ModRmReg(b), low[1], high),
                              over, over))

-----------------------------------------------------------------------------
\* Bits.

Test == 4
BitValueAfter(kind, v, bit) ==
  CASE kind = 5 -> FromBits(Bits(v) \cup {bit})
    [] kind = 6 -> FromBits(Bits(v) \ {bit})
    [] kind = 7 -> FromBits((Bits(v) \ {bit}) \cup ({bit} \ Bits(v)))
    [] OTHER -> v

\* BT, BTS, BTR and BTC on bit number bit of v, read before s.
BitOp(s, p, b, kind, v, bit) ==
  LET t == WithReg(s, SetFlag(s.regs, CarryFlag, bit \in Bits(v)))
  IN IF kind > Test THEN Write16(t, p, b, BitValueAfter(kind, v, bit)) ELSE t

BitOpReg(e, s, p, b) ==
  BitOp(AfterOperand(s, p, b), p, b, ModRmReg(e), Read16(s, p, b),
        Get16(s.regs, ModRmReg(b)) % 16)

BitOpImm(s, p, b) ==
  LET t == AfterOperand(s, p, b)
  IN BitOp(Skip(t), p, b, ModRmReg(b), Read16(s, p, b), Imm8(t) % 16)

\* A double shift moves count bits of source into value.  Both sides are the
\* sixteen bits of a pair of words: the pair is source below value for a left
\* shift, and value below source for a right shift.
Pair(low, high) == Bits(low) \cup {i + 16 : i \in Bits(high)}
ShiftedLeft(v, source, count) ==
  FromBits({i \in Position : i + 16 - count \in Pair(source, v)})
ShiftedRight(v, source, count) ==
  FromBits({i \in Position : i + count \in Pair(v, source)})

\* Mutant: the last bit shifted out is counted from the wrong end.
LeftCarryOff(v, count) == (15 - count) % 16 \in Bits(v)

\* The last bit shifted out, of a word; the shift amount wraps at sixteen.
LeftCarry(v, count) == (16 - count) % 16 \in Bits(v)
RightCarry(v, count) == (count - 1) % 16 \in Bits(v)

LeftShifts == {164, 165}
ShiftByImm(e) == e \in {164, 172}

DoubleShift(e, s, p, b) ==
  LET t == IF ShiftByImm(e) THEN Skip(s) ELSE s
      count == (IF ShiftByImm(e) THEN Imm8(s) ELSE Get8(s.regs, CL)) % 32
      v == Read16(t, p, b)
      source == Get16(s.regs, ModRmReg(b))
      after == AfterOperand(t, p, b)
      shifted == IF e \in LeftShifts THEN ShiftedLeft(v, source, count)
                                     ELSE ShiftedRight(v, source, count)
      carry == IF e \in LeftShifts THEN LeftCarry(v, count)
                                   ELSE RightCarry(v, count)
      r == ResultFlags(SetFlag(after.regs, CarryFlag, carry), shifted, WordSize)
  IN IF count = 0 THEN after ELSE Write16(WithReg(after, r), p, b, shifted)

\* BSF and BSR: the position of the lowest or the highest one bit.
Lowest(B) == CHOOSE i \in B : \A j \in B : i <= j
Highest(B) == CHOOSE i \in B : \A j \in B : i >= j
BitScan(e, s, p, b) ==
  LET t == AfterOperand(s, p, b)
      B == Bits(Read16(s, p, b))
      found == IF e = 188 THEN Lowest(B) ELSE Highest(B)
  IN IF B = {} THEN WithReg(t, SetFlag(t.regs, ZeroFlag, TRUE))
     ELSE WithReg(t, SetFlag(Set16(t.regs, ModRmReg(b), found), ZeroFlag, FALSE))

-----------------------------------------------------------------------------
\* MOVZX, MOVSX and XADD.

\* Mutant: MOVSX of a word forgets its sign.
SigningByte(e) == e = 190

Signing(e) == e \in {190, 191}
Extend(e, s, p, b) ==
  LET t == AfterOperand(s, p, b)
      v == IF e % 2 = 0 THEN Read8(s, p, b) ELSE Read16(s, p, b)
      sign == Signing(e) /\ Negative(v, IF e % 2 = 0 THEN 256 ELSE WordSize)
      lo == IF sign /\ e % 2 = 0 THEN Wrap16(SignExtend(v)) ELSE v
      hi == IF sign THEN WordSize - 1 ELSE 0
  IN WithReg(t, IF p.operand32 THEN Set32(t.regs, ModRmReg(b), lo, hi)
                               ELSE Set16(t.regs, ModRmReg(b), lo))

\* The register is written before the address of the operand is decoded again.
Xadd8(s, p, b) ==
  LET t == AfterOperand(s, p, b)
      v == Read8(s, p, b)
      source == Get8(s.regs, ModRmReg(b))
      sum == (v + source) % 256
      r == AddFlags(t.regs, v, source, sum, 256)
  IN Write8(WithReg(t, Set8(r, ModRmReg(b), v)), p, b, sum)
Xadd16(s, p, b) ==
  LET t == AfterOperand(s, p, b)
      v == Read16(s, p, b)
      source == Get16(s.regs, ModRmReg(b))
      sum == Wrap16(v + source)
      r == AddFlags(t.regs, v, source, sum, WordSize)
  IN Write16(WithReg(t, Set16(r, ModRmReg(b), v)), p, b, sum)

-----------------------------------------------------------------------------
\* The instructions with a ModRM byte; b is that byte and t the machine past it.

WithModRm == {0, 1, 2, 3, 32, 33, 34, 35} \cup (144 .. 159)
               \cup {163, 164, 165, 171, 172, 173, 175, 179}
               \cup (182 .. 183) \cup (186 .. 193)

Escaped(e, t, p, b) ==
  CASE e = 0 -> SystemGroup(t, p, b)
    [] e = 1 -> AfterOperand(t, p, b)
    [] e \in {2, 3} -> Denied(t, p, b)
    [] e \in 144 .. 159 -> SetCc(e, t, p, b)
    [] e \in {163, 171, 179, 187} -> BitOpReg(e, t, p, b)
    [] e \in {164, 165, 172, 173} -> DoubleShift(e, t, p, b)
    [] e = 175 -> IF p.operand32 THEN Imul32(t, p, b) ELSE Imul16(t, p, b)
    [] e \in {182, 183, 190, 191} -> Extend(e, t, p, b)
    [] e = 186 -> BitOpImm(t, p, b)
    [] e \in {188, 189} -> BitScan(e, t, p, b)
    [] e = 192 -> Xadd8(t, p, b)
    [] e = 193 -> Xadd16(t, p, b)
    [] OTHER -> t

\* The others.  What is not known is skipped, and execution continues.
EscapedPlain(e, s, p) ==
  CASE e \in 49 .. 51 -> Zeroed(s, {AX, DX})
    [] e \in 128 .. 143 -> NearJcc(e, s, p)
    [] e = 160 -> Push16(s, GetSeg(s.regs, FS))
    [] e = 161 -> PopSeg(s, FS)
    [] e = 162 -> Zeroed(s, {AX, BX, CX, DX})
    [] e = 168 -> Push16(s, GetSeg(s.regs, GS))
    [] e = 169 -> PopSeg(s, GS)
    [] OTHER -> s

Ud2 == 11

Escape(s, p) ==
  LET e == Imm8(s)
      t == Skip(s)
  IN CASE e = Ud2 -> Outcome(t, Interrupt(6))
       [] e \in WithModRm ->
            Outcome(Escaped(e, Skip(t), p, Imm8(t)), Continue)
       [] OTHER -> Outcome(EscapedPlain(e, t, p), Continue)

=============================================================================
