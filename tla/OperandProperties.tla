-------------------------- MODULE OperandProperties --------------------------
(***************************************************************************)
(* What must be true of one instruction, against the arithmetic of signed  *)
(* and unsigned numbers.  The instruction and its operands are read off    *)
(* the code bytes, as its author wrote them there.                         *)
(***************************************************************************)
EXTENDS ExecuteOne

Done == stage = "done"

\* The instruction: an opcode, or an escape and a second one.
Escaping == opcode = 15
Second == Imm8(before)

\* Its ModRM byte, the machine at what follows that, and the operands.
AtModRm == IF Escaping THEN Skip(before) ELSE before
ModRm == Imm8(AtModRm)
Rest == Skip(AtModRm)
Field == ModRmReg(ModRm)
Source == Get16(before.regs, Field)
Destination == Get16(machine.regs, Field)

\* The operand is read from behind the immediate of group 1, and behind the
\* count of a double shift, which the code fetches before any displacement.
AtOperand == CASE opcode = 129 -> Skip16(Rest)
               [] opcode \in {128, 130, 131} -> Skip(Rest)
               [] Escaping /\ ShiftByImm(Second) -> Skip(Rest)
               [] OTHER -> Rest
Operand8 == Read8(AtOperand, prefix, ModRm)
Operand16 == Read16(AtOperand, prefix, ModRm)

\* An operand whose address has no bytes of its own, and does not use the
\* register that XADD changes on the way.
InPlace ==
  \/ RegOperand(ModRm)
  \/ /\ ModRmMode(ModRm) = 0
     /\ ModRmRm(ModRm) \notin (IF prefix.address32 THEN {4, 5} ELSE {6})
     /\ Escaping => Second \notin {192, 193}

\* Its place, and what that holds once the instruction is done.
Place == EaAddr(Rest, prefix, ModRm)
After8 == IF RegOperand(ModRm) THEN Get8(machine.regs, ModRmRm(ModRm))
                               ELSE ReadU8(machine.mem, Place)
After16 == IF RegOperand(ModRm) THEN Get16(machine.regs, ModRmRm(ModRm))
                                ELSE ReadU16(machine.mem, Place)

Executing(escape, opcodes) ==
  /\ Done /\ Escaping = escape
  /\ (IF escape THEN Second ELSE opcode) \in opcodes

Signed(v, n) == IF Negative(v, n) THEN v - n ELSE v
Fits(x, n) == x >= -(n \div 2) /\ x < n \div 2
Power(i) == BitValue[i + 1]
Carry == Flag(machine.regs, CarryFlag)

-----------------------------------------------------------------------------
\* Group 1: width, operand and immediate.
N == IF opcode \in {128, 130} THEN 256 ELSE WordSize
Left == IF N = 256 THEN Operand8 ELSE Operand16
Right == CASE opcode = 129 -> Imm16(Rest)
           [] opcode = 131 -> Wrap16(SignExtend(Imm8(Rest)))
           [] OTHER -> Imm8(Rest)
CarryIn == IF Field \in {2, 3} /\ Flag(before.regs, CarryFlag) THEN 1 ELSE 0

\* The code of ADC and SBB adds the carry to the immediate first, in the width
\* of the immediate: it must not take that over the top, for the unsigned
\* numbers, nor from the largest positive number to the sign, for the signed.
CarryKept == CarryIn = 0 \/ Right # N - 1
SignKept == CarryIn = 0 \/ Right # N \div 2 - 1

Difference == Left - Right - CarryIn
Sum == Left + Right + CarryIn
SignedDifference == Signed(Left, N) - Signed(Right, N) - CarryIn
SignedSum == Signed(Left, N) + Signed(Right, N) + CarryIn

\* A conditional jump after CMP, SUB or SBB decides as the numbers do: below
\* and not above by the unsigned ones, less and not greater by the signed
\* ones; after ADD and ADC carry and overflow tell whether the sum fits.
ConditionsAgree ==
  Executing(FALSE, Group1Opcodes) =>
    LET holds(i) == Condition(machine.regs, i)
    IN /\ Field \in {3, 5, 7} =>
            /\ holds(4) = (Difference % N = 0)
            /\ CarryKept => /\ holds(2) = (Difference < 0)
                            /\ holds(6) = (Difference <= 0)
            /\ SignKept => /\ holds(12) = (SignedDifference < 0)
                           /\ holds(14) = (SignedDifference <= 0)
       /\ Field \in {0, 2} =>
            /\ CarryKept => holds(2) = (Sum >= N)
            /\ SignKept => holds(0) = ~Fits(SignedSum, N)

-----------------------------------------------------------------------------
\* a = q * d + r, rounded towards zero.
Divides(a, d, q, r) ==
  /\ a = q * d + r /\ Abs(r) < Abs(d)
  /\ r = 0 \/ (r < 0) = (a < 0)

\* DIV and IDIV return the quotient and the remainder whenever the quotient
\* has room; a zero divisor is interrupt 0.  IDIV of a double word is that of
\* DX:AX only when AX does not overwrite DX with its sign; the double words
\* of DIV are those below 2^31, which TLC can count.
DivisionExact ==
  Executing(FALSE, Group3Opcodes) /\ Field \in {6, 7} =>
    LET old == before.regs
        new == machine.regs
        bytes == opcode = 246
        n == IF bytes THEN 256 ELSE WordSize
        v == IF bytes THEN Operand8 ELSE Operand16
        d == IF Field = 6 THEN v ELSE Signed(v, n)
        wide == Signed16(Get16(old, DX)) * WordSize + Get16(old, AX)
        a == IF bytes
             THEN (IF Field = 6 THEN Get16(old, AX) ELSE Signed16(Get16(old, AX)))
             ELSE wide
        asOne == \/ bytes
                 \/ Field = 6 /\ Get16(old, DX) < 32768
                 \/ Field = 7 /\ Get16(old, AX) < 32768
                 \/ Field = 7 /\ Get16(old, DX) = WordSize - 1
        room == Abs(a) \div Abs(d) < (IF Field = 6 THEN n ELSE n \div 2)
        q == IF bytes THEN Get8(new, AL) ELSE Get16(new, AX)
        r == IF bytes THEN Get8(new, AH) ELSE Get16(new, DX)
    IN IF d = 0 THEN result = Interrupt(0)
       ELSE asOne /\ room =>
              IF Field = 6 THEN Divides(a, d, q, r)
                           ELSE Divides(a, d, Signed(q, n), Signed(r, n))

-----------------------------------------------------------------------------
\* A signed double word in a register.
DoubleOf(lo, hi) == Signed16(hi) * WordSize + lo
MaxDouble == 2147483647

\* |x| * |y| has room in a signed double word of the product's sign.
RoomFor(x, y) ==
  \/ x = 0 \/ y = 0
  \/ IF (x < 0) = (y < 0) THEN Abs(y) <= MaxDouble \div Abs(x)
     ELSE Abs(y) - 1 <= (MaxDouble - (Abs(x) - 1)) \div Abs(x)

\* The product of two signed words.
SignedTimes(a, b) == Signed16(a) * Signed16(b)

\* MUL and IMUL of AL, and of AX, by the operand.
ByteProductsExact ==
  LET unsigned == Get8(before.regs, AL) * Operand8
      signed == SignExtend(Get8(before.regs, AL)) * SignExtend(Operand8)
      product == Get16(machine.regs, AX)
  IN Executing(FALSE, {246}) =>
       /\ Field = 4 => product = unsigned /\ Carry = (unsigned >= 256)
       /\ Field = 5 => Signed16(product) = signed /\ Carry = ~Fits(signed, 256)

WordProductsExact ==
  LET ax == Get16(before.regs, AX)
      unsigned == Signed16(ax) * Operand16
      top == unsigned \div WordSize + (IF ax >= 32768 THEN Operand16 ELSE 0)
      signed == SignedTimes(ax, Operand16)
      low == Get16(machine.regs, AX)
      high == Get16(machine.regs, DX)
  IN Executing(FALSE, {247}) =>
       /\ Field = 4 => low = unsigned % WordSize /\ high = top /\ Carry = (top # 0)
       /\ Field = 5 => DoubleOf(low, high) = signed /\ Carry = ~Fits(signed, WordSize)

\* IMUL of a register, or of two double words, by the operand.
TwoOperandProductsExact ==
  LET x == DoubleOf(Source, GetHigh16(before.regs, Field))
      y == DoubleOf(Operand16, ReadHigh16(Rest, prefix, ModRm))
      high == GetHigh16(machine.regs, Field)
  IN Executing(TRUE, {175}) =>
       IF prefix.operand32
       THEN Carry = ~RoomFor(x, y) /\ (~Carry => DoubleOf(Destination, high) = x * y)
       ELSE Carry = (Signed16(Destination) # SignedTimes(Source, Operand16))

\* Multiplications return the product, and carry and overflow say exactly
\* when it is longer than its factors.
ProductsExact == ByteProductsExact /\ WordProductsExact /\ TwoOperandProductsExact

-----------------------------------------------------------------------------
\* SHLD and SHRD by 1 to 15 move the source's bits in behind the operand's,
\* the last bit that falls out is the carry, and a count of zero changes
\* nothing but IP.
Count == (IF ShiftByImm(Second) THEN Imm8(Rest) ELSE Get8(before.regs, CL)) % 32
DoubleShiftsExact ==
  Executing(TRUE, {164, 165, 172, 173}) /\ Count < 16 =>
    LET up == Power(Count)
        down == Power(16 - Count)
    IN IF Count = 0
       THEN machine = [before EXCEPT !.regs = SetIp(@, machine.regs.ip)]
       ELSE IF Second \in LeftShifts
       THEN /\ InPlace => After16 = Wrap16(Operand16 * up) + Source \div down
            /\ Carry = ((Operand16 \div down) % 2 = 1)
       ELSE /\ InPlace => After16 = Operand16 \div up + Wrap16(Source * down)
            /\ Carry = ((Operand16 \div Power(Count - 1)) % 2 = 1)

\* A bit test reports the bit and changes that one alone; a scan finds the
\* lowest or the highest one bit, or says that there is none.
BitIndex ==
  (IF Second = 186 THEN Imm8(AfterOperand(Rest, prefix, ModRm)) ELSE Source) % 16
BitKind == ModRmReg(IF Second = 186 THEN ModRm ELSE Second)
BitsExact ==
  LET v == Operand16
      old == (v \div Power(BitIndex)) % 2
      new == CASE BitKind = 5 -> 1 [] BitKind = 6 -> 0 [] BitKind = 7 -> 1 - old
               [] OTHER -> old
      zero == Flag(machine.regs, ZeroFlag)
  IN /\ Executing(TRUE, {163, 171, 179, 186, 187}) =>
          /\ Carry = (old = 1)
          /\ InPlace => After16 = v + (new - old) * Power(BitIndex)
     /\ Executing(TRUE, {188, 189}) =>
          /\ zero = (v = 0)
          /\ v = 0 => Destination = Source
          /\ v # 0 /\ Second = 188 =>
               v % Power(Destination) = 0 /\ (v \div Power(Destination)) % 2 = 1
          /\ v # 0 /\ Second = 189 => v \div Power(Destination) = 1

\* MOVZX and MOVSX keep the value of their operand, in either width.
ExtendKeepsValue ==
  Executing(TRUE, {182, 183, 190, 191}) =>
    LET n == IF Second % 2 = 0 THEN 256 ELSE WordSize
        v == IF Second % 2 = 0 THEN Operand8 ELSE Operand16
        high == GetHigh16(machine.regs, Field)
        signed == Second \in {190, 191}
    IN IF prefix.operand32
       THEN IF signed THEN DoubleOf(Destination, high) = Signed(v, n)
                      ELSE Destination = v /\ high = 0
       ELSE /\ high = GetHigh16(before.regs, Field)
            /\ IF signed THEN Signed16(Destination) = Signed(v, n)
                         ELSE Destination = v

-----------------------------------------------------------------------------
Immediate ==
  CASE Escaping -> IF Second \in {164, 172, 186} THEN 1 ELSE 0
    [] opcode = 129 -> 2
    [] opcode \in {128, 130, 131} -> 1
    [] opcode = 246 /\ Field < 2 -> 1
    [] opcode = 247 /\ Field < 2 -> 2
    [] OTHER -> 0
NextInstruction == Wrap16(Rest.regs.ip + Immediate)

\* An operand in place is read and written there, where the prefixes put it;
\* nothing else in memory changes, and the next instruction is the one that
\* follows.
OperandInPlace ==
  /\ \/ Executing(FALSE, Group1Opcodes \cup Group3Opcodes)
     \/ Executing(FALSE, {255}) /\ Field < 2
     \/ Executing(TRUE, WithModRm \ {32, 33, 34, 35})
  /\ InPlace
  => /\ machine.regs.ip = NextInstruction
     /\ \A a \in DOMAIN machine.mem :
          ReadU8(machine.mem, a) # ReadU8(before.mem, a) =>
            ~RegOperand(ModRm) /\ a \in {Place, (Place + 1) % MemSize}

-----------------------------------------------------------------------------
\* Claims of the code's comments that it does not keep.

\* cpu/interp/flow.rs:160 "INC r/m16": the operand in memory is one more.
IncrementsItsOperand ==
  Executing(FALSE, {255}) /\ Field = 0 => After16 = Wrap16(Operand16 + 1)

\* cpu/interp/alu.rs:157 "Group 1: ADD/OR/ADC/SBB/AND/SUB/XOR/CMP r/m, imm":
\* ADD leaves the sum in its operand.
AddStoresItsSum ==
  Executing(FALSE, {129}) /\ Field = 0 => After16 = Wrap16(Left + Right)

=============================================================================
