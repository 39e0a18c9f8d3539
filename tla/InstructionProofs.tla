-------------------------- MODULE InstructionProofs --------------------------
(***************************************************************************)
(* One instruction, on every machine and with every operand, does what the *)
(* properties of OperandProperties say: the proofs of what TLC checks at   *)
(* the edges of the numbers.                                               *)
(***************************************************************************)
EXTENDS OperandProperties, OperandProofs

-----------------------------------------------------------------------------
\* The machine, and once the instruction is done, what it was made of.

Executed ==
  /\ opcode \notin Prefixes
  /\ ~Panicking(opcode, before, prefix)
  /\ machine = Execute(opcode, before, prefix).machine
  /\ result = Execute(opcode, before, prefix).result

InstructionInv ==
  /\ IsMachine(before) /\ IsMachine(machine)
  /\ prefix \in PrefixState /\ opcode \in Byte
  /\ stage = "decode" => machine = before
  /\ Done => Executed

LEMMA InstructionInit == Init => InstructionInv
<1>. SUFFICES ASSUME Init  PROVE InstructionInv
  OBVIOUS
<1>1. IsMachine(machine) /\ before = machine
  BY StartsAssumption DEF Init
<1>2. prefix \in PrefixState
  BY PrefixTyped DEF Init
<1>3. opcode \in Byte
  BY ByteRange DEF Init
<1>. QED  BY <1>1, <1>2, <1>3 DEF Init, InstructionInv, Done

LEMMA InstructionNext == InstructionInv /\ [Next]_vars => InstructionInv'
<1>. SUFFICES ASSUME InstructionInv, [Next]_vars  PROVE InstructionInv'
  OBVIOUS
<1>1. CASE Fetch
  <2>1. IsMachine(machine') /\ before' = machine' /\ opcode' \in Byte
    BY <1>1, SkipTyped, FetchTyped DEF Fetch, InstructionInv
  <2>2. prefix' \in PrefixState
    BY <1>1, PrefixTyped DEF Fetch, InstructionInv
  <2>. QED  BY <1>1, <2>1, <2>2 DEF Fetch, InstructionInv, Done
<1>2. CASE Dispatch
  <2>1. before = machine
    BY <1>2 DEF Dispatch, Dispatched, InstructionInv
  <2>2. Good(Execute(opcode, before, prefix))
    BY ExecuteTyped DEF InstructionInv
  <2>3. Executed' /\ UNCHANGED <<before, prefix, opcode>>
    BY <1>2, <2>1 DEF Dispatch, Dispatched, Executed
  <2>. QED
    BY <1>2, <2>2, <2>3 DEF Dispatch, InstructionInv, Done, Good, Executed
<1>3. CASE Crash
  BY <1>3 DEF Crash, InstructionInv, Done
<1>4. CASE Over \/ UNCHANGED vars
  <2>1. UNCHANGED vars
    BY <1>4 DEF Over
  <2>. QED  BY <2>1 DEF vars, InstructionInv, Done, Executed
<1>. QED  BY <1>1, <1>2, <1>3, <1>4 DEF Next

LEMMA InstructionAlways == Spec => []InstructionInv
  BY InstructionInit, InstructionNext, PTL DEF Spec

-----------------------------------------------------------------------------
\* Fetching and decoding move IP and nothing else.

OnlyIp(s, t) ==
  /\ t.regs.w = s.regs.w /\ t.regs.seg = s.regs.seg
  /\ t.regs.flags = s.regs.flags /\ t.mem = s.mem
  /\ t.dos = s.dos /\ t.halted = s.halted

LEMMA SkipKeeps ==
  ASSUME NEW s, IsMachine(s)
  PROVE  /\ OnlyIp(s, Skip(s)) /\ OnlyIp(s, Skip16(s))
         /\ Skip(s).regs.ip = Wrap16(s.regs.ip + 1)
         /\ \A r : OnlyIp(r, s) => OnlyIp(r, Skip(s)) /\ OnlyIp(r, Skip16(s))
<1>1. ASSUME NEW t, IsMachine(t)
      PROVE  /\ OnlyIp(t, Skip(t)) /\ Skip(t).regs.ip = Wrap16(t.regs.ip + 1)
             /\ Skip(t).regs = NextIp(t)
  <2>1. NextIp(t) \in Regs
    BY <1>1, IpAddr
  <2>2. /\ Skip(t).regs = NextIp(t) /\ Skip(t).mem = t.mem
        /\ Skip(t).dos = t.dos /\ Skip(t).halted = t.halted
    BY <1>1, <2>1, WithRegs DEF Skip
  <2>3. \A r \in Regs : \A i :
          /\ SetIp(r, i).w = r.w /\ SetIp(r, i).seg = r.seg
          /\ SetIp(r, i).flags = r.flags /\ SetIp(r, i).ip = i
    BY DEF SetIp, Regs
  <2>. QED  BY <1>1, <2>2, <2>3, Parts DEF OnlyIp, NextIp
<1>2. IsMachine(Skip(s))
  BY SkipTyped
<1>. QED  BY <1>1, <1>2 DEF Skip16, OnlyIp

LEMMA OperandKeeps ==
  ASSUME NEW s, IsMachine(s), NEW p \in PrefixState, NEW b \in Byte
  PROVE  OnlyIp(s, AfterOperand(s, p, b)) /\ OnlyIp(s, AfterEa(s, p, b))
<1>1. OnlyIp(s, s)
  BY DEF OnlyIp
<1>2. OnlyIp(s, DecodeEa16(s, b).next)
  <2>1. DecodeEa16(s, b).next \in {s, Skip(s), Skip16(s)}
    BY DEF DecodeEa16, Ea
  <2>. QED  BY <1>1, <2>1, SkipKeeps
<1>3. OnlyIp(s, DecodeEa32(s, b).next)
  <2>. DEFINE t == AfterSib(s, b)
  <2>1. IsMachine(t) /\ OnlyIp(s, t)
    BY <1>1, SkipKeeps, SkipTyped DEF AfterSib
  <2>. HIDE DEF t
  <2>2. IsMachine(Skip16(t)) /\ OnlyIp(s, Skip(t)) /\ OnlyIp(s, Skip16(t))
    BY <2>1, SkipTyped, SkipKeeps
  <2>3. OnlyIp(s, Skip16(Skip16(t)))
    BY <2>2, SkipKeeps
  <2>4. DecodeEa32(s, b).next \in {t, Skip(t), Skip16(Skip16(t))}
    BY DEF DecodeEa32, Ea, t
  <2>. QED  BY <2>1, <2>2, <2>3, <2>4
<1>. QED  BY <1>1, <1>2, <1>3 DEF AfterOperand, AfterEa, DecodeEa

-----------------------------------------------------------------------------
\* The instructions behind the escape byte.

LEMMA EscapedDone ==
  ASSUME InstructionInv, Done, Escaping, Second \in WithModRm
  PROVE  /\ machine = Escaped(Second, Rest, prefix, ModRm)
         /\ IsMachine(Rest) /\ ModRm \in Byte /\ Second \in Byte
         /\ Field \in Reg /\ OnlyIp(before, Rest)
<1>1. IsMachine(before) /\ machine = Execute(15, before, prefix).machine
  BY DEF InstructionInv, Executed, Escaping
<1>2. Execute(15, before, prefix) = Escape(before, prefix)
  BY DEF Execute, Misc, Group1Opcodes, Group3Opcodes, FlowOpcodes, IdleOpcodes,
         FlagOpcodes, FpuOpcodes
<1>3. AtModRm = Skip(before)
  BY DEF AtModRm, Escaping
<1>4. Second # Ud2
  BY DEF WithModRm, Ud2
<1>5. Escape(before, prefix)
        = Outcome(Escaped(Second, Rest, prefix, ModRm), Continue)
  BY <1>3, <1>4, Zenon DEF Escape, Second, Rest, ModRm
<1>6. IsMachine(AtModRm) /\ IsMachine(Rest) /\ OnlyIp(before, Rest)
  BY <1>1, <1>3, SkipTyped, SkipKeeps DEF Rest
<1>7. ModRm \in Byte /\ Second \in Byte
  BY <1>1, <1>6, FetchTyped DEF ModRm, Second
<1>. QED  BY <1>1, <1>2, <1>5, <1>6, <1>7, FieldsTyped DEF Outcome, Field

\* A register set, and a whole register.
LEMMA WideGets ==
  ASSUME NEW r \in Regs, NEW i \in Reg, NEW lo \in Word, NEW hi \in Word
  PROVE  /\ Get16(Set16(r, i, lo), i) = lo
         /\ GetHigh16(Set16(r, i, lo), i) = GetHigh16(r, i)
         /\ Get16(Set32(r, i, lo, hi), i) = lo
         /\ GetHigh16(Set32(r, i, lo, hi), i) = hi
<1>1. 2 * i \in 0 .. 15 /\ 2 * i + 1 \in 0 .. 15 /\ 2 * i # 2 * i + 1
  BY DEF Reg
<1>. QED  BY <1>1 DEF Get16, GetHigh16, Set16, Set32, Regs

\* A small number wrapped, and the number a word or a byte is with its sign.
LEMMA WrapSmall ==
  ASSUME NEW n \in Nat \ {0}, NEW x \in Int, -n <= x, x < 2 * n
  PROVE  x % n = IF x < 0 THEN x + n ELSE IF x < n THEN x ELSE x - n
<1>1. \A k \in {-1, 0, 1} : \A r \in 0 .. n - 1 : (n * k + r) % n = r
  BY ModShift
<1>2. CASE x < 0
  <2>1. x + n \in 0 .. n - 1 /\ x = n * (-1) + (x + n)
    BY <1>2
  <2>. QED  BY <1>1, <1>2, <2>1
<1>3. CASE x >= 0 /\ x < n
  BY <1>3, SmallMod
<1>4. CASE x >= n
  <2>1. x - n \in 0 .. n - 1 /\ x = n * 1 + (x - n)
    BY <1>4
  <2>. QED  BY <1>1, <1>4, <2>1
<1>. QED  BY <1>2, <1>3, <1>4

LEMMA Half == WordSize = 2 * 32768
  BY SMT DEF WordSize

LEMMA HalfWord == \E h \in Nat \ {0} : WordSize = 2 * h
<1>. DEFINE h == WordSize \div 2
<1>1. h \in Nat \ {0} /\ WordSize = 2 * h
  BY SMT DEF WordSize
<1>. QED  BY <1>1, Zenon

LEMMA SignedWord ==
  ASSUME NEW v \in Word
  PROVE  /\ Signed(v, WordSize) = Signed16(v)
         /\ Signed16(v) \in Int /\ -32768 <= Signed16(v) /\ Signed16(v) < 32768
         /\ Negative(v, WordSize) <=> Signed16(v) < 0
         /\ Signed16(v) = v \/ Signed16(v) = v - WordSize
<1>1. v \in Int /\ 0 <= v /\ v <= 65535
  BY WordRange
<1>. QED  BY <1>1, Half DEF Signed, Signed16, Negative

LEMMA WrapSigned ==
  ASSUME NEW x \in Int, -32768 <= x, x < 32768
  PROVE  Wrap16(x) \in Word /\ Signed16(Wrap16(x)) = x
<1>1. PICK n \in Nat \ {0} : n = WordSize
  BY WordSizeNat
<1>2. -n <= x /\ x < 2 * n
  BY <1>1, Half
<1>3. x % n = IF x < 0 THEN x + n ELSE IF x < n THEN x ELSE x - n
  BY ONLY n \in Nat \ {0}, x \in Int, <1>2, WrapSmall
<1>4. Wrap16(x) = IF x < 0 THEN x + WordSize ELSE x
  BY <1>1, <1>3, Half DEF Wrap16
<1>. QED  BY <1>4, Half, WrapInWord DEF Signed16

LEMMA SignedByte ==
  ASSUME NEW v \in Byte
  PROVE  /\ Signed(v, 256) = SignExtend(v)
         /\ SignExtend(v) \in Int /\ -128 <= SignExtend(v) /\ SignExtend(v) < 128
         /\ Negative(v, 256) <=> SignExtend(v) < 0
         /\ SignExtend(v) = v \/ SignExtend(v) = v - 256
  BY ByteRange DEF Signed, SignExtend, Negative

\* A byte that MOVSX extends.
LEMMA ExtendedByte ==
  ASSUME NEW v \in Byte
  PROVE  /\ Negative(v, 256) => /\ Wrap16(SignExtend(v)) \in Word
                               /\ Signed16(Wrap16(SignExtend(v))) = Signed(v, 256)
                               /\ Signed(v, 256) < 0
         /\ ~Negative(v, 256) => Signed16(v) = Signed(v, 256) /\ 0 <= Signed(v, 256)
<1>1. v \in Int /\ 0 <= v /\ v < 256
  BY ByteRange
<1>2. ~Negative(v, 256) => Signed16(v) = Signed(v, 256) /\ 0 <= Signed(v, 256)
  BY <1>1, Z3 DEF Signed16, Signed, Negative
<1>3. SignExtend(v) \in Int /\ -32768 <= SignExtend(v) /\ SignExtend(v) < 32768
  BY <1>1, Z3 DEF SignExtend
<1>4. Wrap16(SignExtend(v)) \in Word
      /\ Signed16(Wrap16(SignExtend(v))) = SignExtend(v)
  BY <1>3, WrapSigned
<1>. QED  BY <1>2, <1>4, SignedByte

\* MOVZX and MOVSX, by the value of the operand.
LEMMA ExtendExact ==
  ASSUME NEW s, IsMachine(s), NEW p \in PrefixState, NEW b \in Byte,
         NEW e \in {182, 183, 190, 191}, NEW n, NEW v, NEW t,
         n = IF e % 2 = 0 THEN 256 ELSE WordSize,
         v = IF e % 2 = 0 THEN Read8(s, p, b) ELSE Read16(s, p, b),
         t = Extend(e, s, p, b)
  PROVE  LET low == Get16(t.regs, ModRmReg(b))
             high == GetHigh16(t.regs, ModRmReg(b))
         IN IF p.operand32
            THEN IF e \in {190, 191} THEN DoubleOf(low, high) = Signed(v, n)
                                     ELSE low = v /\ high = 0
            ELSE /\ high = GetHigh16(s.regs, ModRmReg(b))
                 /\ IF e \in {190, 191} THEN Signed16(low) = Signed(v, n)
                                        ELSE low = v
<1>. DEFINE i == ModRmReg(b)
            q == AfterOperand(s, p, b)
            sign == Signing(e) /\ Negative(v, n)
            lo == IF sign /\ e % 2 = 0 THEN Wrap16(SignExtend(v)) ELSE v
            hi == IF sign THEN WordSize - 1 ELSE 0
<1>1. IsMachine(q) /\ q.regs \in Regs /\ i \in Reg /\ OnlyIp(s, q)
  BY EaTyped, FieldsTyped, OperandKeeps, Parts
<1>2. v \in Word /\ (e % 2 = 0 => v \in Byte)
  BY ReadsTyped, ByteWord
<1>3. t = WithReg(q, IF p.operand32 THEN Set32(q.regs, i, lo, hi)
                                    ELSE Set16(q.regs, i, lo))
  BY Zenon DEF Extend
<1>. HIDE DEF i, q
<1>4. hi \in Word /\ 0 \in Word /\ Signed16(0) = 0
  BY WordRange, Half DEF Signed16
<1>5. ASSUME NEW x \in Word
      PROVE  /\ DoubleOf(x, 0) = x /\ DoubleOf(x, WordSize - 1) = x - WordSize
             /\ Signed16(x) = IF Signed16(x) < 0 THEN x - WordSize ELSE x
  BY WordRange, Half DEF Signed16, DoubleOf
<1>6. lo \in Word
      /\ (Signing(e) => /\ Signed16(lo) = Signed(v, n)
                        /\ sign <=> Signed16(lo) < 0)
  <2>1. CASE e % 2 = 0
    <3>1. n = 256 /\ v \in Byte
      BY <1>2, <2>1
    <3>2. CASE Negative(v, 256)
      <4>1. Signing(e) => sign /\ lo = Wrap16(SignExtend(v))
        BY <2>1, <3>1, <3>2
      <4>2. ~Signing(e) => lo = v
        OBVIOUS
      <4>. HIDE DEF sign, lo
      <4>. QED  BY <1>2, <3>1, <3>2, <4>1, <4>2, ExtendedByte
    <3>3. CASE ~Negative(v, 256)
      <4>1. ~sign /\ lo = v
        BY <3>1, <3>3
      <4>. HIDE DEF sign, lo
      <4>2. Signed16(v) = Signed(v, 256) /\ ~(Signed(v, 256) < 0)
        <5>1. Signed(v, 256) \in Int
          BY <3>1, SignedByte
        <5>. QED  BY <3>1, <3>3, <5>1, ExtendedByte
      <4>. QED  BY <1>2, <3>1, <4>1, <4>2
    <3>. QED  BY <3>2, <3>3
  <2>2. CASE e % 2 # 0
    <3>1. n = WordSize /\ lo = v /\ (sign <=> Signing(e) /\ Negative(v, WordSize))
      BY <2>2
    <3>. HIDE DEF sign, lo
    <3>. QED  BY <1>2, <3>1, SignedWord
  <2>. QED  BY <2>1, <2>2
<1>7. Signing(e) => DoubleOf(lo, hi) = Signed(v, n)
  BY <1>5, <1>6
<1>8. ~Signing(e) => lo = v /\ hi = 0
  OBVIOUS
<1>9. \A r \in Regs : WithReg(q, r).regs = r
  BY <1>1, WithRegTyped
<1>. HIDE DEF lo, hi
<1>10. CASE p.operand32
  <2>1. t.regs = Set32(q.regs, i, lo, hi)
    BY <1>1, <1>3, <1>4, <1>6, <1>9, <1>10, Set32Regs
  <2>2. Get16(t.regs, i) = lo /\ GetHigh16(t.regs, i) = hi
    BY <1>1, <1>4, <1>6, <2>1, WideGets
  <2>. QED  BY <1>7, <1>8, <1>10, <2>2 DEF i, Signing
<1>11. CASE ~p.operand32
  <2>1. t.regs = Set16(q.regs, i, lo)
    BY <1>1, <1>3, <1>6, <1>9, <1>11, Set16Regs
  <2>2. Get16(t.regs, i) = lo /\ GetHigh16(t.regs, i) = GetHigh16(q.regs, i)
    BY <1>1, <1>4, <1>6, <2>1, WideGets
  <2>3. GetHigh16(q.regs, i) = GetHigh16(s.regs, i)
    BY <1>1 DEF OnlyIp, GetHigh16
  <2>. QED  BY <1>6, <1>8, <1>11, <2>2, <2>3 DEF i, Signing
<1>. QED  BY <1>10, <1>11

\* The value of an operand does not change under MOVZX and MOVSX
\* (cpu/interp/extended.rs).
THEOREM ExtendTheorem == Spec => []ExtendKeepsValue
<1>1. InstructionInv => ExtendKeepsValue
  <2>. SUFFICES ASSUME InstructionInv, Executing(TRUE, {182, 183, 190, 191})
                PROVE  ExtendKeepsValue
    BY DEF ExtendKeepsValue
  <2>1. Done /\ Escaping /\ Second \in {182, 183, 190, 191}
    BY DEF Executing
  <2>2. Second \in WithModRm
    BY <2>1 DEF WithModRm
  <2>3. /\ machine = Escaped(Second, Rest, prefix, ModRm)
        /\ IsMachine(Rest) /\ ModRm \in Byte /\ OnlyIp(before, Rest)
    BY <2>1, <2>2, EscapedDone
  <2>4. machine = Extend(Second, Rest, prefix, ModRm)
    BY <2>1, <2>3 DEF Escaped
  <2>5. prefix \in PrefixState
    BY DEF InstructionInv
  <2>6. GetHigh16(Rest.regs, Field) = GetHigh16(before.regs, Field)
    BY <2>3 DEF OnlyIp, GetHigh16
  <2>7. AtOperand = Rest
    BY <2>1 DEF AtOperand, Escaping, ShiftByImm
  <2>. DEFINE n == IF Second % 2 = 0 THEN 256 ELSE WordSize
              v == IF Second % 2 = 0 THEN Operand8 ELSE Operand16
  <2>. QED  BY <2>1, <2>3, <2>4, <2>5, <2>6, <2>7, ExtendExact
       DEF ExtendKeepsValue, Field, Destination, Operand8, Operand16
<1>. QED  BY <1>1, InstructionAlways, PTL

-----------------------------------------------------------------------------
\* An operand without address bytes is read and written in one place.

\* The register file r with other general registers and flags, or flags alone.
SameIp(r, q) == q = [w |-> q.w, seg |-> r.seg, ip |-> r.ip, flags |-> q.flags]
OnlyFlags(r, q) == q \in Regs /\ SameIp(r, q) /\ q.w = r.w

LEMMA SameIpSets ==
  ASSUME NEW r, NEW q, SameIp(r, q)
  PROVE  /\ \A f, on : SameIp(r, SetFlag(q, f, on)) /\ SetFlag(q, f, on).w = q.w
         /\ \A c, o : SameIp(r, CarryOverflow(q, c, o))
         /\ \A i, v : SameIp(r, Set16(q, i, v)) /\ SameIp(r, Set8(q, i, v))
         /\ \A i, v, h : SameIp(r, Set32(q, i, v, h))
<1>1. ASSUME NEW u, SameIp(r, u), NEW x
      PROVE  /\ SameIp(r, [u EXCEPT !.flags = x]) /\ SameIp(r, [u EXCEPT !.w = x])
             /\ [u EXCEPT !.flags = x].w = u.w
  BY <1>1 DEF SameIp
<1>2. ASSUME NEW u, SameIp(r, u), NEW f, NEW on
      PROVE  SameIp(r, SetFlag(u, f, on)) /\ SetFlag(u, f, on).w = u.w
  BY <1>1, <1>2 DEF SetFlag
<1>3. \A i, v : SameIp(r, Set16(q, i, v))
  BY <1>1, Zenon DEF Set16
<1>4. \A i, v : SameIp(r, Set8(q, i, v))
  BY <1>3 DEF Set8
<1>5. \A i, v, h : SameIp(r, Set32(q, i, v, h))
  BY <1>1, Zenon DEF Set32
<1>6. \A c, o : SameIp(r, CarryOverflow(q, c, o))
  BY <1>2, Zenon DEF CarryOverflow
<1>. QED  BY <1>2, <1>3, <1>4, <1>5, <1>6

LEMMA SameIpStart == ASSUME NEW r \in Regs PROVE OnlyFlags(r, r)
  BY DEF OnlyFlags, SameIp, Regs

LEMMA SetFlagOnly ==
  ASSUME NEW r \in Regs, NEW q, OnlyFlags(r, q), NEW f \in Flags, NEW on
  PROVE  OnlyFlags(r, SetFlag(q, f, on))
  BY SameIpSets, SetFlagRegs DEF OnlyFlags

LEMMA FlagsOnly ==
  ASSUME NEW r \in Regs, NEW v, NEW n
  PROVE  /\ OnlyFlags(r, ResultFlags(r, v, n))
         /\ OnlyFlags(r, LogicFlags(r, v, n))
         /\ \A c, o : OnlyFlags(r, CarryOverflow(r, c, o))
         /\ \A a, b : /\ OnlyFlags(r, AddFlags(r, a, b, v, n))
                      /\ OnlyFlags(r, SubFlags(r, a, b, v, n))
<1>1. /\ CarryFlag \in Flags /\ ParityFlag \in Flags /\ AuxFlag \in Flags
      /\ ZeroFlag \in Flags /\ SignFlag \in Flags /\ OverflowFlag \in Flags
  BY DEF Flags
<1>. DEFINE Only(q) == OnlyFlags(r, q)
<1>2. Only(r)
  BY SameIpStart
<1>3. \A q : Only(q) => \A f \in Flags : \A on : Only(SetFlag(q, f, on))
  BY SetFlagOnly
<1>. HIDE DEF Only
<1>4. ASSUME NEW q, Only(q), NEW c, NEW o  PROVE Only(CarryOverflow(q, c, o))
  <2>1. Only(SetFlag(q, CarryFlag, c))
    BY <1>1, <1>3, <1>4
  <2>. QED  BY <1>1, <1>3, <2>1 DEF CarryOverflow
<1>5. Only(ResultFlags(r, v, n))
  <2>1. Only(SetFlag(r, ZeroFlag, v = 0))
    BY <1>1, <1>2, <1>3
  <2>2. Only(SetFlag(SetFlag(r, ZeroFlag, v = 0), SignFlag, Negative(v, n)))
    BY <1>1, <1>3, <2>1
  <2>. QED  BY <1>1, <1>3, <2>2 DEF ResultFlags
<1>6. Only(LogicFlags(r, v, n))
  BY <1>4, <1>5 DEF LogicFlags
<1>7. ASSUME NEW a, NEW b
      PROVE  Only(AddFlags(r, a, b, v, n)) /\ Only(SubFlags(r, a, b, v, n))
  <2>1. ASSUME NEW c, NEW o, NEW x
        PROVE  Only(SetFlag(CarryOverflow(ResultFlags(r, v, n), c, o), AuxFlag, x))
    BY <1>1, <1>3, <1>4, <1>5
  <2>. QED  BY Zenon, <2>1 DEF AddFlags, SubFlags
<1>. QED  BY <1>2, <1>4, <1>5, <1>6, <1>7 DEF Only

LEMMA Group1FlagsOnly ==
  ASSUME NEW r \in Regs, NEW k, NEW a, NEW b, NEW n
  PROVE  OnlyFlags(r, Group1Flags(r, k, a, b, n))
<1>1. ASSUME NEW c, NEW v
      PROVE  /\ OnlyFlags(r, AddFlags(r, a, c, v, n))
             /\ OnlyFlags(r, SubFlags(r, a, c, v, n))
             /\ OnlyFlags(r, LogicFlags(r, v, n))
  BY FlagsOnly
<1>. QED  BY Zenon, <1>1 DEF Group1Flags

\* No displacement: the address is the same from wherever it is decoded.
Plain(p, b) ==
  \/ RegOperand(b)
  \/ ModRmMode(b) = 0 /\ ModRmRm(b) \notin (IF p.address32 THEN {4, 5} ELSE {6})

SameBase(s, t) == t.regs.w = s.regs.w /\ t.regs.seg = s.regs.seg

LEMMA PlainAddress ==
  ASSUME NEW s, NEW t, SameBase(s, t), NEW p, NEW b \in Byte, Plain(p, b)
  PROVE  /\ AfterOperand(t, p, b) = t
         /\ ~RegOperand(b) => /\ AfterEa(t, p, b) = t
                              /\ EaAddr(t, p, b) = EaAddr(s, p, b)
<1>. SUFFICES ASSUME ~RegOperand(b)
              PROVE  AfterEa(t, p, b) = t /\ EaAddr(t, p, b) = EaAddr(s, p, b)
  BY DEF AfterOperand
<1>1. /\ ModRmMode(b) = 0
      /\ ModRmRm(b) \notin (IF p.address32 THEN {4, 5} ELSE {6})
  BY DEF Plain
<1>2. CASE p.address32
  <2>. DEFINE sib == 8 * NoIndex + ModRmRm(b)
  <2>1. ~HasSib(b) /\ ModRmRm(b) \in Int /\ 0 <= ModRmRm(b) /\ ModRmRm(b) < 8
    BY <1>1, <1>2, FieldsTyped DEF HasSib, Reg
  <2>2. ModRmRm(sib) = ModRmRm(b) /\ ModRmReg(sib) = NoIndex
    <3>1. \A m \in 0 .. 7 : (32 + m) % 8 = m /\ ((32 + m) \div 8) % 8 = 4
      BY SMT
    <3>2. 8 * NoIndex + ModRmRm(b) = 32 + ModRmRm(b)
      BY <2>1 DEF NoIndex
    <3>3. ModRmRm(b) \in 0 .. 7
      BY <2>1
    <3>4. (8 * NoIndex + ModRmRm(b)) % 8 = ModRmRm(b)
          /\ ((8 * NoIndex + ModRmRm(b)) \div 8) % 8 = NoIndex
      BY <3>1, <3>2, <3>3 DEF NoIndex
    <3>. QED  BY <3>4 DEF ModRmRm, ModRmReg
  <2>3. \A u : Sib(u, b) = sib /\ AfterSib(u, b) = u
    BY <2>1 DEF Sib, AfterSib
  <2>. HIDE DEF sib
  <2>4. ~NoBase(b, sib)
    BY <1>1, <1>2, <2>2 DEF NoBase
  <2>5. \A u : DecodeEa32(u, b) =
          Ea(IF StackBased32(b, sib) THEN SS ELSE DS,
             (GetAddr(u.regs, ModRmRm(sib)) + 0) % MemSize, u)
    <3>. SUFFICES ASSUME NEW u
                  PROVE  DecodeEa32(u, b) =
                           Ea(IF StackBased32(b, sib) THEN SS ELSE DS,
                              (GetAddr(u.regs, ModRmRm(sib)) + 0) % MemSize, u)
      OBVIOUS
    <3>1. Sib(u, b) = sib /\ AfterSib(u, b) = u /\ Indexed(u.regs, sib) = 0
      BY <2>2, <2>3 DEF Indexed
    <3>2. ModRmMode(b) # 1 /\ ModRmMode(b) # 2
      BY <1>1
    <3>. QED  BY <2>4, <3>1, <3>2, Zenon DEF DecodeEa32
  <2>6. GetAddr(t.regs, ModRmRm(sib)) = GetAddr(s.regs, ModRmRm(sib))
    BY DEF GetAddr, Get16, GetHigh16, SameBase
  <2>. QED
    BY <1>2, <2>5, <2>6
    DEF AfterEa, EaAddr, EaSeg, DecodeEa, Ea, GetSeg, SameBase
<1>3. CASE ~p.address32
  <2>1. ~Direct(b)
    BY <1>1, <1>3 DEF Direct
  <2>2. \A u : DecodeEa16(u, b) =
          Ea(IF StackBased16(b) THEN SS ELSE DS, Wrap16(Base16(u.regs, b)), u)
    BY <1>1, <2>1 DEF DecodeEa16
  <2>3. Base16(t.regs, b) = Base16(s.regs, b)
    BY Zenon DEF Base16, Get16, SameBase
  <2>. QED
    BY <1>3, <2>2, <2>3
    DEF AfterEa, EaAddr, EaSeg, DecodeEa, Ea, GetSeg, SameBase
<1>. QED  BY <1>2, <1>3

\* Fetching on wraps IP in sixteen bits.
LEMMA WrapAdd ==
  ASSUME NEW x \in Int, NEW k \in Int
  PROVE  Wrap16(Wrap16(x) + k) = Wrap16(x + k)
<1>1. WordSize \in Nat \ {0}
  BY WordSizeNat
<1>. QED  BY <1>1, ModAdd, Zenon DEF Wrap16

LEMMA SkipIp ==
  ASSUME NEW s, IsMachine(s)
  PROVE  /\ Skip(s).regs.ip = Wrap16(s.regs.ip + 1)
         /\ Skip16(s).regs.ip = Wrap16(s.regs.ip + 2)
         /\ Wrap16(Skip(s).regs.ip + 0) = Skip(s).regs.ip
<1>1. s.regs.ip \in Int /\ IsMachine(Skip(s))
  BY IpAddr, AddrRange, SkipTyped
<1>2. Skip(s).regs.ip = Wrap16(s.regs.ip + 1)
  BY SkipKeeps
<1>3. Skip16(s).regs.ip = Wrap16(Skip(s).regs.ip + 1)
  BY <1>1, SkipKeeps DEF Skip16
<1>4. PICK x \in Int, y \in Int : x = s.regs.ip + 1 /\ y = s.regs.ip + 2
  BY <1>1
<1>5. PICK z \in Int : z = 0
  OBVIOUS
<1>6. x + 1 = y /\ x + z = x
  BY <1>1, <1>4, <1>5
<1>7. Wrap16(Wrap16(x) + 1) = Wrap16(x + 1) /\ Wrap16(Wrap16(x) + z) = Wrap16(x + z)
  BY WrapAdd
<1>. QED  BY <1>2, <1>3, <1>4, <1>5, <1>6, <1>7, Zenon

\* The operand's bytes in memory; t is s but for them, and at ip.
Where(s, p, b) == IF RegOperand(b) THEN {}
                  ELSE {EaAddr(s, p, b), (EaAddr(s, p, b) + 1) % MemSize}
Lands(s, t, p, b, ip) ==
  /\ t.regs.ip = ip
  /\ \A a : a \notin Where(s, p, b) => ReadU8(t.mem, a) = ReadU8(s.mem, a)

\* Registers set on a machine on the way, and the operand written there.
LEMMA RegLands ==
  ASSUME NEW s, NEW p, NEW b, NEW t, IsMachine(t), t.mem = s.mem,
         NEW r, SameIp(t.regs, r)
  PROVE  Lands(s, WithReg(t, r), p, b, t.regs.ip)
<1>1. r.ip = t.regs.ip
  BY DEF SameIp
<1>2. WithReg(t, r).regs = r /\ WithReg(t, r).mem = t.mem
  BY DEF WithReg, IsMachine
<1>. QED  BY <1>1, <1>2 DEF Lands

LEMMA WriteLands ==
  ASSUME NEW s, NEW p, NEW b \in Byte, Plain(p, b),
         NEW t, IsMachine(t), SameBase(s, t), t.mem = s.mem
  PROVE  /\ \A v \in Byte : Lands(s, Write8(t, p, b, v), p, b, t.regs.ip)
         /\ \A v \in Word : Lands(s, Write16(t, p, b, v), p, b, t.regs.ip)
<1>1. CASE RegOperand(b)
  <2>1. SameIp(t.regs, t.regs)
    BY Parts, SameIpStart DEF OnlyFlags
  <2>2. ASSUME NEW v \in Byte
        PROVE  Lands(s, Write8(t, p, b, v), p, b, t.regs.ip)
    <3>1. SameIp(t.regs, Set8(t.regs, ModRmRm(b), v))
      BY <2>1, SameIpSets
    <3>. QED  BY <1>1, <3>1, RegLands DEF Write8
  <2>3. ASSUME NEW v \in Word
        PROVE  Lands(s, Write16(t, p, b, v), p, b, t.regs.ip)
    <3>1. SameIp(t.regs, Set16(t.regs, ModRmRm(b), v))
      BY <2>1, SameIpSets
    <3>. QED  BY <1>1, <3>1, RegLands DEF Write16
  <2>. QED  BY <2>2, <2>3
<1>2. CASE ~RegOperand(b)
  <2>. DEFINE a == EaAddr(s, p, b)
  <2>1. AfterEa(t, p, b) = t /\ EaAddr(t, p, b) = a
    BY <1>2, PlainAddress
  <2>2. Where(s, p, b) = {a, (a + 1) % MemSize}
    BY <1>2 DEF Where
  <2>. HIDE DEF a
  <2>3. \A v : /\ Write8(t, p, b, v) = [t EXCEPT !.mem = WriteU8(t.mem, a, v)]
               /\ Write16(t, p, b, v) = [t EXCEPT !.mem = WriteU16(t.mem, a, v)]
    BY <1>2, <2>1 DEF Write8, Write16
  <2>4. \A m : /\ [t EXCEPT !.mem = m].regs = t.regs
               /\ [t EXCEPT !.mem = m].mem = m
    BY DEF IsMachine
  <2>5. \A m, v, x : x \notin {a, (a + 1) % MemSize} =>
          /\ ReadU8(WriteU8(m, a, v), x) = ReadU8(m, x)
          /\ ReadU8(WriteU16(m, a, v), x) = ReadU8(m, x)
    BY WriteReadU8 DEF WriteU16
  <2>6. ASSUME NEW m, \A x : x \notin {a, (a + 1) % MemSize} =>
                         ReadU8(m, x) = ReadU8(t.mem, x)
        PROVE  Lands(s, [t EXCEPT !.mem = m], p, b, t.regs.ip)
    BY <2>2, <2>4, <2>6, Zenon DEF Lands
  <2>7. \A v : /\ Lands(s, [t EXCEPT !.mem = WriteU8(t.mem, a, v)], p, b, t.regs.ip)
               /\ Lands(s, [t EXCEPT !.mem = WriteU16(t.mem, a, v)], p, b, t.regs.ip)
    BY <2>5, <2>6, ZenonT(90)
  <2>. QED  BY <2>3, <2>7, Zenon
<1>. QED  BY <1>1, <1>2

\* So does a write after flags were set.
LEMMA FlaggedLands ==
  ASSUME NEW s, NEW p, NEW b \in Byte, Plain(p, b),
         NEW t, IsMachine(t), SameBase(s, t), t.mem = s.mem,
         NEW r, OnlyFlags(t.regs, r)
  PROVE  /\ Lands(s, WithReg(t, r), p, b, t.regs.ip)
         /\ \A v \in Byte : Lands(s, Write8(WithReg(t, r), p, b, v), p, b, t.regs.ip)
         /\ \A v \in Word : Lands(s, Write16(WithReg(t, r), p, b, v), p, b, t.regs.ip)
<1>1. /\ r \in Regs /\ SameIp(t.regs, r) /\ r.w = t.regs.w
      /\ r.seg = t.regs.seg /\ r.ip = t.regs.ip
  BY DEF OnlyFlags, SameIp
<1>. DEFINE u == WithReg(t, r)
<1>2. IsMachine(u) /\ u.regs = r /\ u.mem = s.mem
  BY <1>1, WithRegTyped
<1>. HIDE DEF u
<1>3. SameBase(s, u) /\ u.regs.ip = t.regs.ip
  BY <1>1, <1>2 DEF SameBase
<1>4. Lands(s, WithReg(t, r), p, b, t.regs.ip)
  BY <1>1, RegLands
<1>5. /\ \A v \in Byte : Lands(s, Write8(u, p, b, v), p, b, u.regs.ip)
      /\ \A v \in Word : Lands(s, Write16(u, p, b, v), p, b, u.regs.ip)
  BY <1>2, <1>3, WriteLands
<1>. QED  BY <1>3, <1>4, <1>5 DEF u

\* Where an instruction may stand when it decodes its operand.
LEMMA Standing ==
  ASSUME NEW s, IsMachine(s), NEW p, NEW b \in Byte, Plain(p, b),
         NEW t \in {s, Skip(s), Skip16(s)}
  PROVE  /\ IsMachine(t) /\ SameBase(s, t) /\ t.mem = s.mem
         /\ AfterOperand(t, p, b) = t /\ t.regs \in Regs
         /\ Lands(s, t, p, b, t.regs.ip)
<1>1. IsMachine(t) /\ OnlyIp(s, t)
  BY SMTT(60), SkipTyped, SkipKeeps DEF OnlyIp
<1>2. SameBase(s, t) /\ t.mem = s.mem
  BY <1>1 DEF OnlyIp, SameBase
<1>. QED  BY <1>1, <1>2, PlainAddress, Parts DEF Lands

LEMMA Group1Lands ==
  ASSUME NEW s, IsMachine(s), NEW p \in PrefixState, NEW op \in Group1Opcodes,
         Plain(p, Imm8(s))
  PROVE  Lands(Skip(s), Group1(op, s, p), p, Imm8(s),
               Wrap16(Skip(s).regs.ip + IF op = 129 THEN 2 ELSE 1))
<1>. DEFINE b == Imm8(s)
            u == Skip(s)
            t == IF op = 129 THEN Skip16(u) ELSE Skip(u)
            imm == CASE op = 129 -> Imm16(u)
                     [] op = 131 -> Wrap16(SignExtend(Imm8(u)))
                     [] OTHER -> Imm8(u)
<1>1. IsMachine(u) /\ b \in Byte
  BY SkipTyped, FetchTyped
<1>2. t.regs.ip = Wrap16(u.regs.ip + IF op = 129 THEN 2 ELSE 1)
  BY <1>1, SkipIp
<1>3. Group1(op, s, p) =
        WithReg(AfterOperand(t, p, b),
          IF ByteOpcode(op)
          THEN Group1Flags(AfterOperand(t, p, b).regs, ModRmReg(b),
                           Read8(t, p, b), imm, 256)
          ELSE Group1Flags(AfterOperand(t, p, b).regs, ModRmReg(b),
                           Read16(t, p, b), imm, WordSize))
  BY Zenon DEF Group1
<1>4. t \in {u, Skip(u), Skip16(u)} /\ Plain(p, b)
  OBVIOUS
<1>. HIDE DEF b, u, t, imm
<1>5. /\ IsMachine(t) /\ SameBase(u, t) /\ t.mem = u.mem
      /\ AfterOperand(t, p, b) = t /\ t.regs \in Regs
  BY <1>1, <1>4, Standing
<1>6. \A k, x, y, n : Lands(u, WithReg(t, Group1Flags(t.regs, k, x, y, n)), p, b,
                            t.regs.ip)
  <2>. TAKE k, x, y, n
  <2>1. OnlyFlags(t.regs, Group1Flags(t.regs, k, x, y, n))
    BY <1>5, Group1FlagsOnly
  <2>. QED  BY <1>1, <1>4, <1>5, <2>1, FlaggedLands
<1>7. Lands(u, Group1(op, s, p), p, b, t.regs.ip)
  <2>1. CASE ByteOpcode(op)
    BY ZenonT(90), <1>3, <1>5, <1>6, <2>1
  <2>2. CASE ~ByteOpcode(op)
    BY Zenon, <1>3, <1>5, <1>6, <2>2
  <2>. QED  BY <2>1, <2>2
<1>8. Lands(u, Group1(op, s, p), p, b, Wrap16(u.regs.ip + IF op = 129 THEN 2 ELSE 1))
  BY <1>2, <1>7, Zenon
<1>. QED  BY <1>8 DEF b, u

LEMMA ProductsLand ==
  ASSUME NEW r \in Regs, NEW v
  PROVE  /\ SameIp(r, MulRegs(r, v)) /\ SameIp(r, ImulRegs(r, v))
         /\ SameIp(r, DivRegs(r, v)) /\ SameIp(r, IdivRegs(r, v))
         /\ SameIp(r, MulRegs16(r, v)) /\ SameIp(r, ImulRegs16(r, v))
         /\ SameIp(r, DivRegs16(r, v)) /\ SameIp(r, IdivRegs16(r, v))
<1>1. SameIp(r, r)
  BY SameIpStart DEF OnlyFlags
<1>2. \A q : SameIp(r, q) =>
        /\ \A c, o : SameIp(r, CarryOverflow(q, c, o))
        /\ \A i, x : SameIp(r, Set16(q, i, x)) /\ SameIp(r, Set8(q, i, x))
  BY SameIpSets
<1>3. \A x, c, o : SameIp(r, CarryOverflow(Set16(r, AX, x), c, o))
  BY <1>1, <1>2, Zenon
<1>4. \A x, y : SameIp(r, Set8(Set8(r, AL, x), AH, y))
  BY <1>1, <1>2, Zenon
<1>5. \A x, y : SameIp(r, SetWide(r, x, y))
  BY <1>1, <1>2, Zenon DEF SetWide
<1>6. \A x, y, c, o : SameIp(r, CarryOverflow(SetWide(r, x, y), c, o))
  BY <1>2, <1>5, Zenon
<1>7. SameIp(r, MulRegs(r, v)) /\ SameIp(r, ImulRegs(r, v))
  BY <1>3, ZenonT(90) DEF MulRegs, ImulRegs
<1>8. SameIp(r, DivRegs(r, v)) /\ SameIp(r, IdivRegs(r, v))
  BY <1>4, Zenon DEF DivRegs, IdivRegs
<1>9. SameIp(r, MulRegs16(r, v))
  <2>. DEFINE x == Mul32(Get16(r, AX), v)
  <2>1. SameIp(r, CarryOverflow(SetWide(r, x[1], x[2]), x[2] # 0, x[2] # 0))
    BY <1>6
  <2>. QED  BY ONLY <2>1, Zenon DEF MulRegs16
<1>10. SameIp(r, ImulRegs16(r, v))
  <2>. DEFINE x == Signed16(Get16(r, AX)) * Signed16(v)
              over == Beyond16(x)
  <2>1. ImulRegs16(r, v) =
          CarryOverflow(SetWide(r, Wrap16(x), Wrap16(x \div WordSize)), over, over)
    BY DEF ImulRegs16
  <2>. HIDE DEF x, over
  <2>. QED  BY <1>6, <2>1, Zenon
<1>11. SameIp(r, DivRegs16(r, v)) /\ SameIp(r, IdivRegs16(r, v))
  BY <1>5, Zenon DEF DivRegs16, IdivRegs16
<1>. QED  BY <1>7, <1>8, <1>9, <1>10, <1>11

LEMMA Group3Lands ==
  ASSUME NEW s, IsMachine(s), NEW p \in PrefixState, NEW op \in Group3Opcodes,
         Plain(p, Imm8(s))
  PROVE  Lands(Skip(s), Group3(op, s, p).machine, p, Imm8(s),
               Wrap16(Skip(s).regs.ip + IF ModRmReg(Imm8(s)) >= 2 THEN 0
                                        ELSE IF op = 247 THEN 2 ELSE 1))
<1>. DEFINE b == Imm8(s)
            u == Skip(s)
<1>1. IsMachine(u) /\ b \in Byte /\ Plain(p, b) /\ ModRmReg(b) \in 0 .. 7
  BY SkipTyped, FetchTyped, FieldsTyped DEF Reg
<1>2. /\ Skip(u).regs.ip = Wrap16(u.regs.ip + 1)
      /\ Skip16(u).regs.ip = Wrap16(u.regs.ip + 2)
      /\ Wrap16(u.regs.ip + 0) = u.regs.ip
  BY <1>1, SkipIp
<1>3. Group3(op, s, p) =
        CASE ModRmReg(b) < 2 ->
               Outcome(IF ByteOpcode(op) THEN TestByte(u, p, b)
                                         ELSE TestWord(u, p, b), Continue)
          [] DividesByZero(op, u, p, b) ->
               Outcome(AfterOperand(u, p, b), Interrupt(0))
          [] OTHER ->
               Outcome(IF ByteOpcode(op) THEN Group3Byte(u, p, b)
                                         ELSE Group3Word(u, p, b), Continue)
  BY DEF Group3
<1>4. ByteOpcode(op) <=> op # 247
  BY DEF ByteOpcode, Group3Opcodes
<1>. HIDE DEF b, u
<1>5. ASSUME NEW t \in {u, Skip(u), Skip16(u)}
      PROVE  /\ IsMachine(t) /\ SameBase(u, t) /\ t.mem = u.mem
             /\ AfterOperand(t, p, b) = t /\ t.regs \in Regs
             /\ Lands(u, t, p, b, t.regs.ip)
  BY <1>1, Standing
<1>6. ASSUME NEW t \in {Skip(u), Skip16(u)}, NEW x, NEW n
      PROVE  Lands(u, WithReg(AfterOperand(t, p, b),
                        LogicFlags(AfterOperand(t, p, b).regs, x, n)),
                   p, b, t.regs.ip)
  <2>1. OnlyFlags(t.regs, LogicFlags(t.regs, x, n))
    BY <1>5, FlagsOnly
  <2>. QED  BY <1>1, <1>5, <2>1, FlaggedLands
<1>7. CASE ModRmReg(b) < 2
  <2>1. /\ Lands(u, TestByte(u, p, b), p, b, Skip(u).regs.ip)
        /\ Lands(u, TestWord(u, p, b), p, b, Skip16(u).regs.ip)
    BY <1>6, Zenon DEF TestByte, TestWord
  <2>2. Group3(op, s, p).machine = IF op = 247 THEN TestWord(u, p, b)
                                              ELSE TestByte(u, p, b)
    <3>1. Group3(op, s, p) = Outcome(IF ByteOpcode(op) THEN TestByte(u, p, b)
                                     ELSE TestWord(u, p, b), Continue)
      <4>1. ~DividesByZero(op, u, p, b)
        BY <1>1, <1>7 DEF DividesByZero
      <4>. QED  BY <1>3, <1>7, <4>1
    <3>2. Group3(op, s, p).machine = IF ByteOpcode(op) THEN TestByte(u, p, b)
                                                       ELSE TestWord(u, p, b)
      BY <3>1 DEF Outcome
    <3>. QED  BY <1>4, <3>2, Zenon
  <2>3. ~(ModRmReg(b) >= 2)
    BY <1>1, <1>7
  <2>4. Lands(u, Group3(op, s, p).machine, p, b,
              Wrap16(u.regs.ip + IF ModRmReg(b) >= 2 THEN 0
                                 ELSE IF op = 247 THEN 2 ELSE 1))
    BY <1>2, <2>1, <2>2, <2>3, Zenon
  <2>. QED  BY ONLY <2>4, Zenon DEF b, u
<1>8. Lands(u, AfterOperand(u, p, b), p, b, u.regs.ip)
  BY <1>5
<1>9. ASSUME ModRmReg(b) \in 2 .. 7  PROVE Lands(u, Group3Byte(u, p, b), p, b, u.regs.ip)
  <2>. DEFINE v == Read8(u, p, b)
  <2>1. v \in Byte
    BY <1>1, ReadsTyped
  <2>. HIDE DEF v
  <2>2. (-v) % 256 \in Byte /\ 255 - v \in Byte
    BY <2>1, NegationsTyped
  <2>3. OnlyFlags(u.regs, SubFlags(u.regs, 0, v, (-v) % 256, 256))
    BY ZenonT(90), <1>5, FlagsOnly
  <2>4. /\ Lands(u, Write8(WithReg(u, SubFlags(u.regs, 0, v, (-v) % 256, 256)),
                           p, b, (-v) % 256), p, b, u.regs.ip)
        /\ Lands(u, Write8(u, p, b, 255 - v), p, b, u.regs.ip)
    BY <1>1, <1>5, <2>2, <2>3, FlaggedLands, WriteLands
  <2>5. /\ Lands(u, WithReg(u, MulRegs(u.regs, v)), p, b, u.regs.ip)
        /\ Lands(u, WithReg(u, ImulRegs(u.regs, v)), p, b, u.regs.ip)
        /\ Lands(u, WithReg(u, DivRegs(u.regs, v)), p, b, u.regs.ip)
        /\ Lands(u, WithReg(u, IdivRegs(u.regs, v)), p, b, u.regs.ip)
    BY <1>1, <1>5, ProductsLand, RegLands
  <2>. QED  BY <1>5, <1>9, <2>4, <2>5 DEF Group3Byte, v
<1>10. ASSUME ModRmReg(b) \in 2 .. 7
       PROVE  Lands(u, Group3Word(u, p, b), p, b, u.regs.ip)
  <2>. DEFINE v == Read16(u, p, b)
  <2>1. v \in Word
    BY <1>1, ReadsTyped
  <2>. HIDE DEF v
  <2>2. Wrap16(-v) \in Word /\ WordSize - 1 - v \in Word
    BY <2>1, NegationsTyped
  <2>3. OnlyFlags(u.regs, SubFlags(u.regs, 0, v, Wrap16(-v), WordSize))
    BY <1>5, FlagsOnly
  <2>4. /\ Lands(u, Write16(WithReg(u, SubFlags(u.regs, 0, v, Wrap16(-v), WordSize)),
                            p, b, Wrap16(-v)), p, b, u.regs.ip)
        /\ Lands(u, Write16(u, p, b, WordSize - 1 - v), p, b, u.regs.ip)
    BY <1>1, <1>5, <2>2, <2>3, FlaggedLands, WriteLands
  <2>5. /\ Lands(u, WithReg(u, MulRegs16(u.regs, v)), p, b, u.regs.ip)
        /\ Lands(u, WithReg(u, ImulRegs16(u.regs, v)), p, b, u.regs.ip)
        /\ Lands(u, WithReg(u, DivRegs16(u.regs, v)), p, b, u.regs.ip)
        /\ Lands(u, WithReg(u, IdivRegs16(u.regs, v)), p, b, u.regs.ip)
    BY <1>1, <1>5, ProductsLand, RegLands
  <2>. QED  BY <1>5, <1>10, <2>4, <2>5 DEF Group3Word, v
<1>11. CASE ModRmReg(b) >= 2
  <2>1. Group3(op, s, p).machine \in
          {AfterOperand(u, p, b), Group3Byte(u, p, b), Group3Word(u, p, b)}
    BY <1>1, <1>3, <1>11 DEF Outcome
  <2>2. ModRmReg(b) \in 2 .. 7
    BY <1>1, <1>11
  <2>3. Lands(u, Group3(op, s, p).machine, p, b,
              Wrap16(u.regs.ip + IF ModRmReg(b) >= 2 THEN 0
                                 ELSE IF op = 247 THEN 2 ELSE 1))
    BY <1>2, <1>8, <1>9, <1>10, <1>11, <2>1, <2>2
  <2>. QED  BY ONLY <2>3, Zenon DEF b, u
<1>. QED  BY <1>1, <1>7, <1>11

LEMMA OnlyFlagsTrans ==
  ASSUME NEW r, NEW q, NEW u, OnlyFlags(r, q), OnlyFlags(q, u)
  PROVE  OnlyFlags(r, u)
  BY DEF OnlyFlags, SameIp

LEMMA IncDecLands ==
  ASSUME NEW s, IsMachine(s), NEW p \in PrefixState, NEW b \in Byte, Plain(p, b)
  PROVE  Lands(s, IncDec(s, p, b), p, b, s.regs.ip)
<1>. DEFINE v == Read16(s, p, b)
            w == Wrap16(IF ModRmReg(b) = 0 THEN v + 1 ELSE v - 1)
            r == Stepped(s.regs, ModRmReg(b), v, w)
<1>1. s.regs \in Regs /\ v \in Int /\ AfterOperand(s, p, b) = s /\ SameBase(s, s)
  BY Standing, ReadsTyped, WordRange DEF SameBase
<1>2. w \in Word
  BY <1>1, WrapInWord
<1>3. IncDec(s, p, b) = Write16(WithReg(s, r), p, b, w)
  BY <1>1 DEF IncDec
<1>. HIDE DEF v, w
<1>4. OnlyFlags(s.regs, r)
  <2>1. \A q : OnlyFlags(s.regs, q) =>
          OnlyFlags(s.regs, SetFlag(q, CarryFlag, Flag(s.regs, CarryFlag)))
    BY <1>1, FlagNames, SetFlagOnly
  <2>2. /\ OnlyFlags(s.regs, AddFlags(s.regs, v, 1, w, WordSize))
        /\ OnlyFlags(s.regs, SubFlags(s.regs, v, 1, w, WordSize))
    BY <1>1, FlagsOnly
  <2>. QED  BY Zenon, <2>1, <2>2 DEF Stepped
<1>. HIDE DEF r
<1>. QED  BY <1>1, <1>2, <1>3, <1>4, FlaggedLands

LEMMA SystemLands ==
  ASSUME NEW s, IsMachine(s), NEW p \in PrefixState, NEW b \in Byte, Plain(p, b)
  PROVE  /\ Lands(s, s, p, b, s.regs.ip)
         /\ Lands(s, AfterOperand(s, p, b), p, b, s.regs.ip)
         /\ Lands(s, SystemGroup(s, p, b), p, b, s.regs.ip)
         /\ Lands(s, Denied(s, p, b), p, b, s.regs.ip)
<1>1. s.regs \in Regs /\ AfterOperand(s, p, b) = s /\ SameBase(s, s)
  BY Standing DEF SameBase
<1>2. Lands(s, s, p, b, s.regs.ip)
  BY DEF Lands
<1>3. Lands(s, Write16(s, p, b, 0), p, b, s.regs.ip)
  BY <1>1, ZeroIsWord, WriteLands
<1>4. Lands(s, SystemGroup(s, p, b), p, b, s.regs.ip)
  BY <1>1, <1>2, <1>3 DEF SystemGroup
<1>5. SameIp(s.regs, SetFlag(Set16(s.regs, ModRmReg(b), 0), ZeroFlag, FALSE))
  BY <1>1, SameIpStart, SameIpSets DEF OnlyFlags
<1>6. Lands(s, Denied(s, p, b), p, b, s.regs.ip)
  BY <1>1, <1>5, RegLands DEF Denied
<1>. QED  BY <1>1, <1>2, <1>4, <1>6

LEMMA SetCcLands ==
  ASSUME NEW s, IsMachine(s), NEW p \in PrefixState, NEW b \in Byte, Plain(p, b),
         NEW e
  PROVE  Lands(s, SetCc(e, s, p, b), p, b, s.regs.ip)
<1>1. /\ Lands(s, Write8(s, p, b, 0), p, b, s.regs.ip)
      /\ Lands(s, Write8(s, p, b, 1), p, b, s.regs.ip)
  BY ZeroIsWord, WriteLands DEF SameBase
<1>. QED  BY <1>1, Zenon DEF SetCc

LEMMA BitOpLands ==
  ASSUME NEW s, IsMachine(s), NEW p \in PrefixState, NEW b \in Byte, Plain(p, b),
         NEW t \in {s, Skip(s)}, NEW kind, NEW v \in Word, NEW bit
  PROVE  Lands(s, BitOp(t, p, b, kind, v, bit), p, b, t.regs.ip)
<1>. DEFINE on == bit \in Bits(v)
            r == SetFlag(t.regs, CarryFlag, on)
            new == BitValueAfter(kind, v, bit)
<1>1. IsMachine(t) /\ SameBase(s, t) /\ t.mem = s.mem /\ t.regs \in Regs
  BY Standing
<1>2. new \in Word
  BY FromBitsWord DEF BitValueAfter
<1>3. BitOp(t, p, b, kind, v, bit) =
        IF kind > Test THEN Write16(WithReg(t, r), p, b, new) ELSE WithReg(t, r)
  BY DEF BitOp
<1>. HIDE DEF on, new
<1>4. OnlyFlags(t.regs, r)
  BY <1>1, SameIpStart, SetFlagOnly, FlagNames
<1>. HIDE DEF r
<1>. QED  BY <1>1, <1>2, <1>3, <1>4, FlaggedLands

LEMMA BitOpsLand ==
  ASSUME NEW s, IsMachine(s), NEW p \in PrefixState, NEW b \in Byte, Plain(p, b),
         NEW e
  PROVE  /\ Lands(s, BitOpReg(e, s, p, b), p, b, s.regs.ip)
         /\ Lands(s, BitOpImm(s, p, b), p, b, Skip(s).regs.ip)
<1>1. AfterOperand(s, p, b) = s /\ Read16(s, p, b) \in Word
  BY Standing, ReadsTyped
<1>. QED  BY <1>1, BitOpLands DEF BitOpReg, BitOpImm

LEMMA DoubleShiftLands ==
  ASSUME NEW s, IsMachine(s), NEW p \in PrefixState, NEW b \in Byte, Plain(p, b),
         NEW e
  PROVE  Lands(s, DoubleShift(e, s, p, b), p, b,
               IF ShiftByImm(e) THEN Skip(s).regs.ip ELSE s.regs.ip)
<1>. DEFINE t == IF ShiftByImm(e) THEN Skip(s) ELSE s
            count == (IF ShiftByImm(e) THEN Imm8(s) ELSE Get8(s.regs, CL)) % 32
            v == Read16(t, p, b)
            source == Get16(s.regs, ModRmReg(b))
            shifted == IF e \in LeftShifts THEN ShiftedLeft(v, source, count)
                                           ELSE ShiftedRight(v, source, count)
            carry == IF e \in LeftShifts THEN LeftCarry(v, count)
                                         ELSE RightCarry(v, count)
            q == SetFlag(t.regs, CarryFlag, carry)
            r == ResultFlags(q, shifted, WordSize)
<1>1. t \in {s, Skip(s)}
  OBVIOUS
<1>2. shifted \in Word
  BY FromBitsWord DEF ShiftedLeft, ShiftedRight
<1>3. DoubleShift(e, s, p, b) =
        IF count = 0 THEN AfterOperand(t, p, b)
        ELSE Write16(WithReg(AfterOperand(t, p, b),
               ResultFlags(SetFlag(AfterOperand(t, p, b).regs, CarryFlag, carry),
                           shifted, WordSize)), p, b, shifted)
  BY Zenon DEF DoubleShift
<1>4. t.regs.ip = IF ShiftByImm(e) THEN Skip(s).regs.ip ELSE s.regs.ip
  OBVIOUS
<1>. HIDE DEF t, count, v, source, shifted, carry
<1>5. /\ IsMachine(t) /\ SameBase(s, t) /\ t.mem = s.mem /\ t.regs \in Regs
      /\ AfterOperand(t, p, b) = t /\ Lands(s, t, p, b, t.regs.ip)
  BY <1>1, Standing
<1>6. OnlyFlags(t.regs, r)
  <2>1. OnlyFlags(t.regs, q)
    BY <1>5, SameIpStart, SetFlagOnly, FlagNames
  <2>2. OnlyFlags(q, r)
    BY <2>1, FlagsOnly DEF OnlyFlags
  <2>. QED  BY <2>1, <2>2, OnlyFlagsTrans
<1>7. DoubleShift(e, s, p, b) =
        IF count = 0 THEN t ELSE Write16(WithReg(t, r), p, b, shifted)
  BY <1>3, <1>5
<1>. HIDE DEF r
<1>8. Lands(s, Write16(WithReg(t, r), p, b, shifted), p, b, t.regs.ip)
  BY <1>2, <1>5, <1>6, FlaggedLands
<1>. QED  BY <1>4, <1>5, <1>7, <1>8, Zenon

LEMMA RegistersLand ==
  ASSUME NEW s, IsMachine(s), NEW p \in PrefixState, NEW b \in Byte, Plain(p, b),
         NEW e
  PROVE  /\ Lands(s, Imul16(s, p, b), p, b, s.regs.ip)
         /\ Lands(s, Imul32(s, p, b), p, b, s.regs.ip)
         /\ Lands(s, Extend(e, s, p, b), p, b, s.regs.ip)
         /\ Lands(s, BitScan(e, s, p, b), p, b, s.regs.ip)
<1>. DEFINE i == ModRmReg(b)
<1>1. s.regs \in Regs /\ AfterOperand(s, p, b) = s
  BY Standing
<1>2. SameIp(s.regs, s.regs)
  BY <1>1, SameIpStart DEF OnlyFlags
<1>3. ASSUME NEW x, NEW h, NEW c, NEW o, NEW f
      PROVE  /\ SameIp(s.regs, CarryOverflow(Set16(s.regs, i, x), c, o))
             /\ SameIp(s.regs, CarryOverflow(Set32(s.regs, i, x, h), c, o))
             /\ SameIp(s.regs, Set16(s.regs, i, x))
             /\ SameIp(s.regs, Set32(s.regs, i, x, h))
             /\ SameIp(s.regs, SetFlag(Set16(s.regs, i, x), f, c))
             /\ SameIp(s.regs, SetFlag(s.regs, f, c))
  <2>1. SameIp(s.regs, Set16(s.regs, i, x)) /\ SameIp(s.regs, Set32(s.regs, i, x, h))
    BY <1>2, SameIpSets
  <2>. QED  BY <1>2, <2>1, SameIpSets
<1>. HIDE DEF i
<1>4. ASSUME NEW x, NEW h, NEW c, NEW o, NEW f
      PROVE  /\ Lands(s, WithReg(s, CarryOverflow(Set16(s.regs, i, x), c, o)),
                      p, b, s.regs.ip)
             /\ Lands(s, WithReg(s, CarryOverflow(Set32(s.regs, i, x, h), c, o)),
                      p, b, s.regs.ip)
             /\ Lands(s, WithReg(s, Set16(s.regs, i, x)), p, b, s.regs.ip)
             /\ Lands(s, WithReg(s, Set32(s.regs, i, x, h)), p, b, s.regs.ip)
             /\ Lands(s, WithReg(s, SetFlag(Set16(s.regs, i, x), f, c)),
                      p, b, s.regs.ip)
             /\ Lands(s, WithReg(s, SetFlag(s.regs, f, c)), p, b, s.regs.ip)
  BY <1>3, RegLands
<1>5. Lands(s, Imul16(s, p, b), p, b, s.regs.ip)
  <2>. DEFINE x == Signed16(Get16(s.regs, i)) * Signed16(Read16(s, p, b))
              over == Beyond16(x)
  <2>1. Imul16(s, p, b) =
          WithReg(s, CarryOverflow(Set16(s.regs, i, Wrap16(x)), over, over))
    BY <1>1 DEF Imul16, i
  <2>. HIDE DEF x, over
  <2>. QED  BY <1>4, <2>1, Zenon
<1>6. Lands(s, Imul32(s, p, b), p, b, s.regs.ip)
  <2>1. PICK x, h, o : Imul32(s, p, b) =
          WithReg(AfterOperand(s, p, b),
                  CarryOverflow(Set32(AfterOperand(s, p, b).regs, i, x, h), o, o))
    BY Zenon DEF Imul32, i
  <2>. QED  BY <1>1, <1>4, <2>1
<1>7. Lands(s, Extend(e, s, p, b), p, b, s.regs.ip)
  <2>1. PICK x, h : Extend(e, s, p, b) =
          WithReg(AfterOperand(s, p, b),
                  IF p.operand32 THEN Set32(AfterOperand(s, p, b).regs, i, x, h)
                                 ELSE Set16(AfterOperand(s, p, b).regs, i, x))
    BY Zenon DEF Extend, i
  <2>. QED  BY <1>1, <1>4, <2>1
<1>8. Lands(s, BitScan(e, s, p, b), p, b, s.regs.ip)
  <2>1. PICK x : BitScan(e, s, p, b) =
          LET t == AfterOperand(s, p, b)
          IN IF Bits(Read16(s, p, b)) = {}
             THEN WithReg(t, SetFlag(t.regs, ZeroFlag, TRUE))
             ELSE WithReg(t, SetFlag(Set16(t.regs, i, x), ZeroFlag, FALSE))
    BY Zenon DEF BitScan, i
  <2>. QED  BY <1>1, <1>4, <2>1
<1>. QED  BY <1>5, <1>6, <1>7, <1>8

\* XADD of a register.
LEMMA XaddLands ==
  ASSUME NEW s, IsMachine(s), NEW p \in PrefixState, NEW b \in Byte, RegOperand(b)
  PROVE  /\ Lands(s, Xadd8(s, p, b), p, b, s.regs.ip)
         /\ Lands(s, Xadd16(s, p, b), p, b, s.regs.ip)
<1>. DEFINE i == ModRmReg(b)
<1>1. s.regs \in Regs /\ AfterOperand(s, p, b) = s /\ i \in Reg
  BY Parts, FieldsTyped DEF AfterOperand
<1>. HIDE DEF i
<1>2. ASSUME NEW q \in Regs, SameIp(s.regs, q), NEW v
      PROVE  /\ Lands(s, Write8(WithReg(s, q), p, b, v), p, b, s.regs.ip)
             /\ Lands(s, Write16(WithReg(s, q), p, b, v), p, b, s.regs.ip)
  <2>. DEFINE u == WithReg(s, q)
  <2>1. IsMachine(u) /\ u.regs = q /\ u.mem = s.mem
    BY <1>2, WithRegTyped
  <2>2. u.regs.ip = s.regs.ip
    BY <1>2, <2>1 DEF SameIp
  <2>. HIDE DEF u
  <2>3. /\ SameIp(u.regs, Set8(u.regs, ModRmRm(b), v))
        /\ SameIp(u.regs, Set16(u.regs, ModRmRm(b), v))
    BY <1>2, <2>1, SameIpStart, SameIpSets DEF OnlyFlags
  <2>4. /\ Lands(s, Write8(u, p, b, v), p, b, u.regs.ip)
        /\ Lands(s, Write16(u, p, b, v), p, b, u.regs.ip)
    BY <2>1, <2>3, RegLands DEF Write8, Write16
  <2>. QED  BY <2>2, <2>4 DEF u
<1>3. ASSUME NEW x, NEW y, NEW w, NEW n
      PROVE  OnlyFlags(s.regs, AddFlags(s.regs, x, y, w, n))
  BY <1>1, FlagsOnly
<1>4. Lands(s, Xadd8(s, p, b), p, b, s.regs.ip)
  <2>. DEFINE v == Read8(s, p, b)
              sum == (v + Get8(s.regs, i)) % 256
              r == AddFlags(s.regs, v, Get8(s.regs, i), sum, 256)
  <2>1. Xadd8(s, p, b) = Write8(WithReg(s, Set8(r, i, v)), p, b, sum)
    BY <1>1 DEF Xadd8, i
  <2>2. v \in Byte
    BY ReadsTyped
  <2>. HIDE DEF v, sum
  <2>3. OnlyFlags(s.regs, r)
    BY <1>3
  <2>. HIDE DEF r
  <2>4. Set8(r, i, v) \in Regs /\ SameIp(s.regs, Set8(r, i, v))
    BY <1>1, <2>2, <2>3, Set8Regs, SameIpSets DEF OnlyFlags
  <2>. QED  BY <1>2, <2>1, <2>4
<1>5. Lands(s, Xadd16(s, p, b), p, b, s.regs.ip)
  <2>. DEFINE v == Read16(s, p, b)
              sum == Wrap16(v + Get16(s.regs, i))
              r == AddFlags(s.regs, v, Get16(s.regs, i), sum, WordSize)
  <2>1. Xadd16(s, p, b) = Write16(WithReg(s, Set16(r, i, v)), p, b, sum)
    BY <1>1 DEF Xadd16, i
  <2>2. v \in Word
    BY ReadsTyped
  <2>. HIDE DEF v, sum
  <2>3. OnlyFlags(s.regs, r)
    BY <1>3
  <2>. HIDE DEF r
  <2>4. Set16(r, i, v) \in Regs /\ SameIp(s.regs, Set16(r, i, v))
    BY <1>1, <2>2, <2>3, Set16Regs, SameIpSets DEF OnlyFlags
  <2>. QED  BY <1>2, <2>1, <2>4
<1>. QED  BY <1>4, <1>5

LEMMA EscapedOnceLands ==
  ASSUME NEW s, IsMachine(s), NEW p \in PrefixState, NEW b \in Byte, Plain(p, b),
         NEW e \in WithModRm \ {32, 33, 34, 35},
         e \in {192, 193} => RegOperand(b)
  PROVE  Lands(s, Escaped(e, s, p, b), p, b,
               IF e \in {164, 172, 186} THEN Skip(s).regs.ip ELSE s.regs.ip)
<1>. DEFINE ip == IF e \in {164, 172, 186} THEN Skip(s).regs.ip ELSE s.regs.ip
<1>. SUFFICES Lands(s, Escaped(e, s, p, b), p, b, ip)
  OBVIOUS
<1>1. \/ e \in {0, 1, 2, 3} \/ e \in 144 .. 159 \/ e \in {163, 171, 179, 187, 186}
      \/ e \in {164, 165, 172, 173} \/ e \in {175, 182, 183, 190, 191, 188, 189}
      \/ e \in {192, 193}
  BY DEF WithModRm
<1>2. CASE e \in {0, 1, 2, 3}
  <2>1. Escaped(e, s, p, b) \in
          {SystemGroup(s, p, b), AfterOperand(s, p, b), Denied(s, p, b)}
    BY <1>2 DEF Escaped
  <2>2. ip = s.regs.ip
    BY <1>2
  <2>. QED  BY <2>1, <2>2, SystemLands
<1>3. CASE e \in 144 .. 159
  <2>1. Escaped(e, s, p, b) = SetCc(e, s, p, b) /\ ip = s.regs.ip
    BY <1>3 DEF Escaped
  <2>. QED  BY <2>1, SetCcLands
<1>4. CASE e \in {163, 171, 179, 187, 186}
  <2>1. /\ Escaped(e, s, p, b) = IF e = 186 THEN BitOpImm(s, p, b)
                                            ELSE BitOpReg(e, s, p, b)
        /\ ip = IF e = 186 THEN Skip(s).regs.ip ELSE s.regs.ip
    BY <1>4 DEF Escaped
  <2>. QED  BY <2>1, BitOpsLand
<1>5. CASE e \in {164, 165, 172, 173}
  <2>1. Escaped(e, s, p, b) = DoubleShift(e, s, p, b)
    BY <1>5 DEF Escaped
  <2>2. ip = IF ShiftByImm(e) THEN Skip(s).regs.ip ELSE s.regs.ip
    BY <1>5 DEF ShiftByImm
  <2>. QED  BY <2>1, <2>2, DoubleShiftLands
<1>6. CASE e \in {175, 182, 183, 190, 191, 188, 189}
  <2>1. Escaped(e, s, p, b) \in
          {Imul16(s, p, b), Imul32(s, p, b), Extend(e, s, p, b),
           BitScan(e, s, p, b)}
    BY <1>6 DEF Escaped
  <2>2. ip = s.regs.ip
    BY <1>6
  <2>. QED  BY <2>1, <2>2, RegistersLand
<1>7. CASE e \in {192, 193}
  <2>1. Escaped(e, s, p, b) \in {Xadd8(s, p, b), Xadd16(s, p, b)}
    BY <1>7 DEF Escaped
  <2>2. ip = s.regs.ip
    BY <1>7
  <2>. QED  BY <1>7, <2>1, <2>2, XaddLands
<1>. QED  BY <1>1, <1>2, <1>3, <1>4, <1>5, <1>6, <1>7

LEMMA EscapedLands ==
  ASSUME InstructionInv, Done, Escaping,
         Second \in WithModRm \ {32, 33, 34, 35}, InPlace
  PROVE  Lands(Rest, machine, prefix, ModRm, NextInstruction)
<1>1. /\ machine = Escaped(Second, Rest, prefix, ModRm)
      /\ IsMachine(Rest) /\ ModRm \in Byte
  BY EscapedDone
<1>2. prefix \in PrefixState /\ Plain(prefix, ModRm)
  BY DEF InstructionInv, InPlace, Plain
<1>3. Second \in {192, 193} => RegOperand(ModRm)
  BY DEF InPlace
<1>4. NextInstruction = IF Second \in {164, 172, 186} THEN Skip(Rest).regs.ip
                                                    ELSE Rest.regs.ip
  <2>1. IsMachine(AtModRm)
    BY SkipTyped DEF AtModRm, InstructionInv
  <2>2. /\ Skip(Rest).regs.ip = Wrap16(Rest.regs.ip + 1)
        /\ Wrap16(Rest.regs.ip + 0) = Rest.regs.ip
    BY <1>1, <2>1, SkipIp DEF Rest
  <2>3. Immediate = IF Second \in {164, 172, 186} THEN 1 ELSE 0
    BY DEF Immediate, Escaping
  <2>. QED  BY <2>2, <2>3, Zenon DEF NextInstruction
<1>. QED  BY <1>1, <1>2, <1>3, <1>4, EscapedOnceLands

LEMMA GroupsLand ==
  ASSUME InstructionInv, Done, ~Escaping, InPlace,
         \/ opcode \in Group1Opcodes \cup Group3Opcodes
         \/ opcode = 255 /\ Field < 2
  PROVE  Lands(Rest, machine, prefix, ModRm, NextInstruction)
<1>1. /\ IsMachine(before) /\ prefix \in PrefixState /\ ModRm = Imm8(before)
      /\ Rest = Skip(before) /\ machine = Execute(opcode, before, prefix).machine
  BY DEF InstructionInv, Executed, ModRm, Rest, AtModRm
<1>2. /\ IsMachine(Rest) /\ ModRm \in Byte /\ Plain(prefix, ModRm)
      /\ Field \in 0 .. 7
  BY <1>1, SkipTyped, FetchTyped, FieldsTyped DEF InPlace, Plain, Field, Reg
<1>3. Wrap16(Rest.regs.ip + 0) = Rest.regs.ip
  BY <1>1, SkipIp
<1>4. CASE opcode \in Group1Opcodes
  <2>1. machine = Group1(opcode, before, prefix)
    BY <1>1, <1>4 DEF Execute, Outcome, Group1Opcodes, Group3Opcodes, FlowOpcodes
  <2>2. Immediate = IF opcode = 129 THEN 2 ELSE 1
    BY <1>4 DEF Immediate, Group1Opcodes
  <2>. QED
    BY <1>1, <1>2, <1>4, <2>1, <2>2, Group1Lands DEF NextInstruction
<1>5. CASE opcode \in Group3Opcodes
  <2>1. machine = Group3(opcode, before, prefix).machine
    BY <1>1, <1>5 DEF Execute, Group1Opcodes, Group3Opcodes, FlowOpcodes
  <2>2. Immediate = IF ModRmReg(Imm8(before)) >= 2 THEN 0
                    ELSE IF opcode = 247 THEN 2 ELSE 1
    BY <1>1, <1>2, <1>5 DEF Immediate, Group3Opcodes, Field
  <2>. QED
    BY <1>1, <1>2, <1>5, <2>1, <2>2, Group3Lands DEF NextInstruction
<1>6. CASE opcode = 255 /\ Field < 2
  <2>1. machine = GroupFF(before, prefix).machine
    BY <1>1, <1>6 DEF Execute, Group1Opcodes, Group3Opcodes, FlowOpcodes
  <2>2. GroupFF(before, prefix).machine = IncDec(Rest, prefix, ModRm)
    BY <1>1, <1>2, <1>6 DEF GroupFF, Outcome, Field
  <2>3. Immediate = 0
    BY <1>6 DEF Immediate
  <2>4. NextInstruction = Rest.regs.ip
    BY <1>3, <2>3, Zenon DEF NextInstruction
  <2>. QED  BY <1>1, <1>2, <2>1, <2>2, <2>4, IncDecLands
<1>. QED  BY <1>4, <1>5, <1>6

\* An operand without address bytes is read and written in the one place its
\* prefixes and its ModRM byte give, nothing else in memory changes, and IP
\* ends after the instruction's own bytes, whatever the machine it runs on
\* (cpu/interp/modrm.rs, with alu.rs, flow.rs and extended.rs).
THEOREM OperandTheorem == Spec => []OperandInPlace
<1>1. InstructionInv => OperandInPlace
  <2>. SUFFICES ASSUME InstructionInv, InPlace,
                       \/ Executing(FALSE, Group1Opcodes \cup Group3Opcodes)
                       \/ Executing(FALSE, {255}) /\ Field < 2
                       \/ Executing(TRUE, WithModRm \ {32, 33, 34, 35})
                PROVE  /\ machine.regs.ip = NextInstruction
                       /\ \A a \in DOMAIN machine.mem :
                            ReadU8(machine.mem, a) # ReadU8(before.mem, a) =>
                              ~RegOperand(ModRm)
                                /\ a \in {Place, (Place + 1) % MemSize}
    BY DEF OperandInPlace
  <2>1. Lands(Rest, machine, prefix, ModRm, NextInstruction)
    <3>1. CASE Executing(FALSE, Group1Opcodes \cup Group3Opcodes)
      BY <3>1, GroupsLand DEF Executing
    <3>2. CASE Executing(FALSE, {255}) /\ Field < 2
      BY <3>2, GroupsLand DEF Executing
    <3>3. CASE Executing(TRUE, WithModRm \ {32, 33, 34, 35})
      BY <3>3, EscapedLands DEF Executing
    <3>. QED  BY <3>1, <3>2, <3>3
  <2>2. Rest.mem = before.mem
    <3>1. IsMachine(before)
      BY DEF InstructionInv
    <3>2. IsMachine(AtModRm) /\ AtModRm.mem = before.mem
      BY <3>1, SkipTyped, SkipKeeps DEF AtModRm, OnlyIp
    <3>. QED  BY <3>2, SkipKeeps DEF Rest, OnlyIp
  <2>. QED  BY <2>1, <2>2, Zenon DEF Lands, Where, Place
<1>. QED  BY <1>1, InstructionAlways, PTL

-----------------------------------------------------------------------------
\* The flags of a sum and of a difference, and the conditions on them.

LEMMA SixFlags ==
  ASSUME NEW r \in Regs, NEW z, NEW s, NEW p, NEW c, NEW o, NEW x,
         NEW q, q = SetFlag(CarryOverflow(SetFlag(SetFlag(SetFlag(r,
                      ZeroFlag, z), SignFlag, s), ParityFlag, p), c, o), AuxFlag, x)
  PROVE  /\ Flag(q, ZeroFlag) <=> z
         /\ Flag(q, SignFlag) <=> s
         /\ Flag(q, CarryFlag) <=> c
         /\ Flag(q, OverflowFlag) <=> o
<1>. DEFINE r1 == SetFlag(r, ZeroFlag, z)
            r2 == SetFlag(r1, SignFlag, s)
            r3 == SetFlag(r2, ParityFlag, p)
            r4 == SetFlag(r3, CarryFlag, c)
            r5 == SetFlag(r4, OverflowFlag, o)
<1>1. /\ CarryFlag \in Flags /\ ParityFlag \in Flags /\ AuxFlag \in Flags
      /\ ZeroFlag \in Flags /\ SignFlag \in Flags /\ OverflowFlag \in Flags
  BY DEF Flags
<1>2. /\ ZeroFlag \notin {SignFlag, ParityFlag, CarryFlag, OverflowFlag, AuxFlag}
      /\ SignFlag \notin {ParityFlag, CarryFlag, OverflowFlag, AuxFlag}
      /\ CarryFlag \notin {OverflowFlag, AuxFlag} /\ OverflowFlag # AuxFlag
  BY DEF CarryFlag, ParityFlag, AuxFlag, ZeroFlag, SignFlag, OverflowFlag
<1>3. r1 \in Regs /\ (Flag(r1, ZeroFlag) <=> z)
  BY <1>1, SetFlagRegs, FlagSet
<1>. HIDE DEF r1
<1>4. /\ r2 \in Regs /\ (Flag(r2, SignFlag) <=> s)
      /\ Flag(r2, ZeroFlag) <=> Flag(r1, ZeroFlag)
  BY <1>1, <1>2, <1>3, SetFlagRegs, FlagSet
<1>. HIDE DEF r2
<1>5. /\ r3 \in Regs /\ (Flag(r3, SignFlag) <=> Flag(r2, SignFlag))
      /\ Flag(r3, ZeroFlag) <=> Flag(r2, ZeroFlag)
  BY <1>1, <1>2, <1>4, SetFlagRegs, FlagSet
<1>. HIDE DEF r3
<1>6. /\ r4 \in Regs /\ (Flag(r4, SignFlag) <=> Flag(r3, SignFlag))
      /\ Flag(r4, ZeroFlag) <=> Flag(r3, ZeroFlag)
      /\ Flag(r4, CarryFlag) <=> c
  BY <1>1, <1>2, <1>5, SetFlagRegs, FlagSet
<1>. HIDE DEF r4
<1>7. /\ r5 \in Regs /\ (Flag(r5, SignFlag) <=> Flag(r4, SignFlag))
      /\ Flag(r5, ZeroFlag) <=> Flag(r4, ZeroFlag)
      /\ Flag(r5, CarryFlag) <=> Flag(r4, CarryFlag)
      /\ Flag(r5, OverflowFlag) <=> o
  BY <1>1, <1>2, <1>6, SetFlagRegs, FlagSet
<1>8. q = SetFlag(r5, AuxFlag, x)
  BY DEF CarryOverflow, r4, r3, r2, r1
<1>. HIDE DEF r5
<1>9. /\ Flag(q, SignFlag) <=> Flag(r5, SignFlag)
      /\ Flag(q, ZeroFlag) <=> Flag(r5, ZeroFlag)
      /\ Flag(q, CarryFlag) <=> Flag(r5, CarryFlag)
      /\ Flag(q, OverflowFlag) <=> Flag(r5, OverflowFlag)
  BY <1>1, <1>2, <1>7, <1>8, FlagSet
<1>. QED  BY <1>3, <1>4, <1>5, <1>6, <1>7, <1>9

LEMMA FlagsRead ==
  ASSUME NEW r \in Regs, NEW a, NEW b, NEW v, NEW n
  PROVE  /\ Flag(SubFlags(r, a, b, v, n), ZeroFlag) <=> v = 0
         /\ Flag(SubFlags(r, a, b, v, n), SignFlag) <=> Negative(v, n)
         /\ Flag(SubFlags(r, a, b, v, n), CarryFlag) <=> a < b
         /\ Flag(SubFlags(r, a, b, v, n), OverflowFlag) <=>
              /\ ~(Negative(a, n) <=> Negative(b, n))
              /\ ~(Negative(a, n) <=> Negative(v, n))
         /\ Flag(AddFlags(r, a, b, v, n), CarryFlag) <=> a + b >= n
         /\ Flag(AddFlags(r, a, b, v, n), OverflowFlag) <=>
              /\ (Negative(a, n) <=> Negative(b, n))
              /\ ~(Negative(a, n) <=> Negative(v, n))
<1>. DEFINE over == /\ Negative(a, n) # Negative(b, n)
                    /\ Negative(a, n) # Negative(v, n)
            over2 == /\ Negative(a, n) = Negative(b, n)
                     /\ Negative(a, n) # Negative(v, n)
<1>1. \E p, x : SubFlags(r, a, b, v, n) =
        SetFlag(CarryOverflow(SetFlag(SetFlag(SetFlag(r,
          ZeroFlag, v = 0), SignFlag, Negative(v, n)), ParityFlag, p), a < b, over),
          AuxFlag, x)
  BY Zenon DEF SubFlags, ResultFlags
<1>2. \E p, x : AddFlags(r, a, b, v, n) =
        SetFlag(CarryOverflow(SetFlag(SetFlag(SetFlag(r,
          ZeroFlag, v = 0), SignFlag, Negative(v, n)), ParityFlag, p), a + b >= n,
          over2), AuxFlag, x)
  BY Zenon DEF AddFlags, ResultFlags
<1>3. /\ over <=> /\ ~(Negative(a, n) <=> Negative(b, n))
                  /\ ~(Negative(a, n) <=> Negative(v, n))
      /\ over2 <=> /\ Negative(a, n) <=> Negative(b, n)
                   /\ ~(Negative(a, n) <=> Negative(v, n))
  BY DEF Negative
<1>. DEFINE zero == v = 0
            sign == Negative(v, n)
            less == a < b
            more == a + b >= n
<1>. HIDE DEF over, over2, zero, sign, less, more
<1>4. ASSUME NEW q, NEW c, NEW o, NEW p, NEW x,
             q = SetFlag(CarryOverflow(SetFlag(SetFlag(SetFlag(r,
               ZeroFlag, zero), SignFlag, sign), ParityFlag, p), c, o), AuxFlag, x)
      PROVE  /\ Flag(q, ZeroFlag) <=> zero
             /\ Flag(q, SignFlag) <=> sign
             /\ Flag(q, CarryFlag) <=> c
             /\ Flag(q, OverflowFlag) <=> o
  BY <1>4, SixFlags
<1>5. /\ \E p, x : SubFlags(r, a, b, v, n) =
           SetFlag(CarryOverflow(SetFlag(SetFlag(SetFlag(r,
             ZeroFlag, zero), SignFlag, sign), ParityFlag, p), less, over), AuxFlag, x)
      /\ \E p, x : AddFlags(r, a, b, v, n) =
           SetFlag(CarryOverflow(SetFlag(SetFlag(SetFlag(r,
             ZeroFlag, zero), SignFlag, sign), ParityFlag, p), more, over2), AuxFlag, x)
  BY <1>1, <1>2, Zenon DEF zero, sign, less, more
<1>6. /\ Flag(SubFlags(r, a, b, v, n), ZeroFlag) <=> zero
      /\ Flag(SubFlags(r, a, b, v, n), SignFlag) <=> sign
      /\ Flag(SubFlags(r, a, b, v, n), CarryFlag) <=> less
      /\ Flag(SubFlags(r, a, b, v, n), OverflowFlag) <=> over
  <2>1. PICK p, x : SubFlags(r, a, b, v, n) =
           SetFlag(CarryOverflow(SetFlag(SetFlag(SetFlag(r,
             ZeroFlag, zero), SignFlag, sign), ParityFlag, p), less, over), AuxFlag, x)
    BY <1>5
  <2>. QED  BY <1>4, <2>1
<1>7. /\ Flag(AddFlags(r, a, b, v, n), CarryFlag) <=> more
      /\ Flag(AddFlags(r, a, b, v, n), OverflowFlag) <=> over2
  <2>1. PICK p, x : AddFlags(r, a, b, v, n) =
           SetFlag(CarryOverflow(SetFlag(SetFlag(SetFlag(r,
             ZeroFlag, zero), SignFlag, sign), ParityFlag, p), more, over2), AuxFlag, x)
    BY <1>5
  <2>. QED  BY <1>4, <2>1
<1>. QED  BY <1>3, <1>6, <1>7, Zenon DEF zero, sign, less, more

LEMMA ConditionsRead ==
  ASSUME NEW r
  PROVE  /\ Condition(r, 0) <=> Flag(r, OverflowFlag)
         /\ Condition(r, 2) <=> Flag(r, CarryFlag)
         /\ Condition(r, 4) <=> Flag(r, ZeroFlag)
         /\ Condition(r, 6) <=> Flag(r, CarryFlag) \/ Flag(r, ZeroFlag)
         /\ Condition(r, 12) <=> ~(Flag(r, SignFlag) <=> Flag(r, OverflowFlag))
         /\ Condition(r, 14) <=> \/ Flag(r, ZeroFlag)
                                 \/ ~(Flag(r, SignFlag) <=> Flag(r, OverflowFlag))
         /\ \A i \in {0, 2, 4, 6, 12, 14} : Condition(r, i) \in BOOLEAN
<1>1. /\ Flag(r, OverflowFlag) \in BOOLEAN /\ Flag(r, CarryFlag) \in BOOLEAN
      /\ Flag(r, ZeroFlag) \in BOOLEAN /\ Flag(r, SignFlag) \in BOOLEAN
  BY DEF Flag
<1>2. /\ 0 \div 2 = 0 /\ 2 \div 2 = 1 /\ 4 \div 2 = 2 /\ 6 \div 2 = 3
      /\ 12 \div 2 = 6 /\ 14 \div 2 = 7
      /\ \A i \in {0, 2, 4, 6, 12, 14} : i % 2 = 0
  BY SMT
<1>. QED  BY <1>1, <1>2 DEF Condition

\* The difference and the sum of two numbers of n values, with the carry c
\* folded into the second of them.
Borrowed(h, n, a, b, c, bc, x, v) ==
  /\ n = 2 * h /\ a \in 0 .. n - 1 /\ b \in 0 .. n - 1 /\ c \in {0, 1}
  /\ bc = (b + c) % n /\ x = a - b - c /\ v = x % n
Carried(h, n, a, b, c, bc, x, v) ==
  /\ n = 2 * h /\ a \in 0 .. n - 1 /\ b \in 0 .. n - 1 /\ c \in {0, 1}
  /\ bc = (b + c) % n /\ x = a + b + c /\ v = x % n

LEMMA Differences ==
  ASSUME NEW h \in Nat \ {0}, NEW n, NEW a, NEW b, NEW c, NEW bc, NEW x, NEW v,
         Borrowed(h, n, a, b, c, bc, x, v)
  PROVE  /\ c = 0 \/ b # n - 1 =>
              /\ v = 0 <=> x = 0
              /\ a < bc <=> x < 0
         /\ ~(c = 0 \/ b # n - 1) => ~(a < bc) /\ x < 0
         /\ LET y == Signed(a, n) - Signed(b, n) - c
                over == /\ ~(Negative(a, n) <=> Negative(bc, n))
                        /\ ~(Negative(a, n) <=> Negative(v, n))
            IN /\ c = 0 \/ b # h - 1 =>
                    /\ ~(Negative(v, n) <=> over) <=> y < 0
                    /\ v = 0 \/ ~(Negative(v, n) <=> over) <=> y <= 0
               /\ ~(c = 0 \/ b # h - 1) => (Negative(v, n) <=> over) /\ y < 0
<1>. USE DEF Borrowed
<1>1. n \in Nat \ {0}
  OBVIOUS
<1>2. bc = IF b + c < n THEN b + c ELSE 0
  <2>1. PICK z \in Int : z = b + c /\ -n <= z /\ z < 2 * n /\ ~(z < 0)
    OBVIOUS
  <2>2. z % n = IF z < 0 THEN z + n ELSE IF z < n THEN z ELSE z - n
    BY <1>1, <2>1, WrapSmall, Zenon
  <2>. QED  BY <2>1, <2>2
<1>3. v = IF x < 0 THEN x + n ELSE x
  <2>1. x \in Int /\ -n <= x /\ x < n /\ x < 2 * n
    OBVIOUS
  <2>2. x % n = IF x < 0 THEN x + n ELSE IF x < n THEN x ELSE x - n
    BY <1>1, <2>1, WrapSmall, Zenon
  <2>. QED  BY <2>1, <2>2
<1>4. \A u \in Int : /\ Negative(u, n) <=> u >= h
                     /\ Signed(u, n) = IF u >= h THEN u - n ELSE u
  BY DEF Negative, Signed
<1>. QED  BY <1>2, <1>3, <1>4

LEMMA Sums ==
  ASSUME NEW h \in Nat \ {0}, NEW n, NEW a, NEW b, NEW c, NEW bc, NEW x, NEW v,
         Carried(h, n, a, b, c, bc, x, v)
  PROVE  /\ c = 0 \/ b # n - 1 => (a + bc >= n <=> x >= n)
         /\ ~(c = 0 \/ b # n - 1) => ~(a + bc >= n) /\ x >= n
         /\ LET y == Signed(a, n) + Signed(b, n) + c
                over == /\ Negative(a, n) <=> Negative(bc, n)
                        /\ ~(Negative(a, n) <=> Negative(v, n))
            IN /\ c = 0 \/ b # h - 1 => (over <=> ~Fits(y, n))
               /\ ~(c = 0 \/ b # h - 1) => (over <=> Fits(y, n))
<1>. USE DEF Carried
<1>1. n \in Nat \ {0}
  OBVIOUS
<1>2. bc = IF b + c < n THEN b + c ELSE 0
  <2>1. PICK z \in Int : z = b + c /\ -n <= z /\ z < 2 * n /\ ~(z < 0)
    OBVIOUS
  <2>2. z % n = IF z < 0 THEN z + n ELSE IF z < n THEN z ELSE z - n
    BY <1>1, <2>1, WrapSmall, Zenon
  <2>. QED  BY <2>1, <2>2
<1>3. v = IF x < n THEN x ELSE x - n
  <2>1. x \in Int /\ 0 <= x /\ -n <= x /\ x < 2 * n
    OBVIOUS
  <2>2. x % n = IF x < 0 THEN x + n ELSE IF x < n THEN x ELSE x - n
    BY <1>1, <2>1, WrapSmall, Zenon
  <2>. QED  BY <2>1, <2>2
<1>4. \A u \in Int : /\ Negative(u, n) <=> u >= h
                     /\ Signed(u, n) = IF u >= h THEN u - n ELSE u
                     /\ Fits(u, n) <=> u >= -h /\ u < h
  <2>1. n \div 2 = h
    BY SMT
  <2>. QED  BY <2>1 DEF Negative, Signed, Fits
<1>. QED  BY <1>2, <1>3, <1>4

\* What group 1 leaves of k: the bodies of ConditionsAgree and of
\* FoldedCarryMisjudges.
Agrees(q, k, a, b, c, n) ==
  LET carryKept == c = 0 \/ b # n - 1
      signKept == c = 0 \/ b # n \div 2 - 1
  IN /\ k \in {3, 5, 7} =>
          /\ Condition(q, 4) = ((a - b - c) % n = 0)
          /\ carryKept => /\ Condition(q, 2) = (a - b - c < 0)
                          /\ Condition(q, 6) = (a - b - c <= 0)
          /\ signKept =>
               /\ Condition(q, 12) = (Signed(a, n) - Signed(b, n) - c < 0)
               /\ Condition(q, 14) = (Signed(a, n) - Signed(b, n) - c <= 0)
          /\ ~carryKept => Condition(q, 2) # (a - b - c < 0)
          /\ ~signKept =>
               Condition(q, 12) # (Signed(a, n) - Signed(b, n) - c < 0)
     /\ k \in {0, 2} =>
          /\ carryKept => Condition(q, 2) = (a + b + c >= n)
          /\ signKept =>
               Condition(q, 0) = ~Fits(Signed(a, n) + Signed(b, n) + c, n)
          /\ ~carryKept => Condition(q, 2) # (a + b + c >= n)
          /\ ~signKept =>
               Condition(q, 0) # ~Fits(Signed(a, n) + Signed(b, n) + c, n)

LEMMA SubAgrees ==
  ASSUME NEW r \in Regs, NEW h \in Nat \ {0}, NEW n, n = 2 * h,
         NEW a \in 0 .. n - 1, NEW b \in 0 .. n - 1, NEW c \in {0, 1},
         NEW k \in {3, 5, 7}
  PROVE  Agrees(SubFlags(r, a, (b + c) % n, (a - b - c) % n, n), k, a, b, c, n)
<1>1. PICK x \in Int : x = a - b - c
  OBVIOUS
<1>2. PICK bc : bc = (b + c) % n
  OBVIOUS
<1>3. PICK v : v = x % n
  OBVIOUS
<1>4. PICK q : q = SubFlags(r, a, bc, v, n)
  OBVIOUS
<1>5. n \div 2 = h
  BY SMT
<1>. DEFINE over == /\ ~(Negative(a, n) <=> Negative(bc, n))
                    /\ ~(Negative(a, n) <=> Negative(v, n))
            y == Signed(a, n) - Signed(b, n) - c
<1>6. /\ Flag(q, ZeroFlag) <=> v = 0
      /\ Flag(q, SignFlag) <=> Negative(v, n)
      /\ Flag(q, CarryFlag) <=> a < bc
      /\ Flag(q, OverflowFlag) <=> over
  BY <1>4, FlagsRead
<1>. DEFINE kept == c = 0 \/ b # n - 1
            signed == c = 0 \/ b # n \div 2 - 1
<1>7. /\ kept => (v = 0 <=> x = 0) /\ (a < bc <=> x < 0)
      /\ ~kept => ~(a < bc) /\ x < 0
      /\ signed => /\ ~(Negative(v, n) <=> over) <=> y < 0
                   /\ v = 0 \/ ~(Negative(v, n) <=> over) <=> y <= 0
      /\ ~signed => (Negative(v, n) <=> over) /\ y < 0
  <2>1. Borrowed(h, n, a, b, c, bc, x, v)
    BY <1>1, <1>2, <1>3 DEF Borrowed
  <2>2. signed <=> (c = 0 \/ b # h - 1)
    BY <1>5
  <2>. HIDE DEF signed
  <2>. QED  BY <2>1, <2>2, Differences
<1>. HIDE DEF over, y, kept, signed
<1>8. /\ Condition(q, 2) <=> Flag(q, CarryFlag)
      /\ Condition(q, 4) <=> Flag(q, ZeroFlag)
      /\ Condition(q, 6) <=> Flag(q, CarryFlag) \/ Flag(q, ZeroFlag)
      /\ Condition(q, 12) <=> ~(Flag(q, SignFlag) <=> Flag(q, OverflowFlag))
      /\ Condition(q, 14) <=> \/ Flag(q, ZeroFlag)
                              \/ ~(Flag(q, SignFlag) <=> Flag(q, OverflowFlag))
      /\ Condition(q, 2) \in BOOLEAN /\ Condition(q, 4) \in BOOLEAN
      /\ Condition(q, 6) \in BOOLEAN /\ Condition(q, 12) \in BOOLEAN
      /\ Condition(q, 14) \in BOOLEAN
  BY ConditionsRead
<1>9. Condition(q, 4) = (v = 0)
  BY <1>6, <1>8
<1>10. /\ kept => Condition(q, 2) = (x < 0) /\ Condition(q, 6) = (x <= 0)
       /\ ~kept => Condition(q, 2) # (x < 0)
  BY <1>1, <1>6, <1>7, <1>8
<1>11. /\ signed => Condition(q, 12) = (y < 0) /\ Condition(q, 14) = (y <= 0)
       /\ ~signed => Condition(q, 12) # (y < 0)
  <2>1. /\ Condition(q, 12) <=> ~(Negative(v, n) <=> over)
        /\ Condition(q, 14) <=> v = 0 \/ ~(Negative(v, n) <=> over)
    BY <1>6, <1>8
  <2>2. /\ signed => (Condition(q, 12) <=> y < 0) /\ (Condition(q, 14) <=> y <= 0)
        /\ ~signed => ~Condition(q, 12) /\ y < 0
    BY <1>7, <2>1
  <2>. QED  BY <1>8, <2>2
<1>12. Condition(q, 4) = (x % n = 0)
  BY <1>3, <1>9
<1>13. k \notin {0, 2}
  OBVIOUS
<1>. QED
  <2>1. /\ Condition(q, 4) = ((a - b - c) % n = 0)
        /\ kept => /\ Condition(q, 2) = (a - b - c < 0)
                   /\ Condition(q, 6) = (a - b - c <= 0)
        /\ ~kept => Condition(q, 2) # (a - b - c < 0)
    BY ONLY <1>1, <1>10, <1>12, Zenon
  <2>2. Agrees(q, k, a, b, c, n)
    BY ONLY <2>1, <1>11, <1>13, Zenon DEF Agrees, y, kept, signed
  <2>3. q = SubFlags(r, a, (b + c) % n, (a - b - c) % n, n)
    BY ONLY <1>1, <1>2, <1>3, <1>4, Zenon
  <2>. QED  BY ONLY <2>2, <2>3, Zenon

LEMMA AddAgrees ==
  ASSUME NEW r \in Regs, NEW h \in Nat \ {0}, NEW n, n = 2 * h,
         NEW a \in 0 .. n - 1, NEW b \in 0 .. n - 1, NEW c \in {0, 1},
         NEW k \in {0, 2}
  PROVE  Agrees(AddFlags(r, a, (b + c) % n, (a + b + c) % n, n), k, a, b, c, n)
<1>1. PICK x \in Int : x = a + b + c
  OBVIOUS
<1>2. PICK bc : bc = (b + c) % n
  OBVIOUS
<1>3. PICK v : v = x % n
  OBVIOUS
<1>4. PICK q : q = AddFlags(r, a, bc, v, n)
  OBVIOUS
<1>5. n \div 2 = h
  BY SMT
<1>. DEFINE over == /\ Negative(a, n) <=> Negative(bc, n)
                    /\ ~(Negative(a, n) <=> Negative(v, n))
            y == Signed(a, n) + Signed(b, n) + c
<1>6. /\ Flag(q, CarryFlag) <=> a + bc >= n
      /\ Flag(q, OverflowFlag) <=> over
  BY <1>4, FlagsRead
<1>. DEFINE kept == c = 0 \/ b # n - 1
            signed == c = 0 \/ b # n \div 2 - 1
<1>7. /\ kept => (a + bc >= n <=> x >= n)
      /\ ~kept => ~(a + bc >= n) /\ x >= n
      /\ signed => (over <=> ~Fits(y, n))
      /\ ~signed => (over <=> Fits(y, n))
  <2>1. Carried(h, n, a, b, c, bc, x, v)
    BY <1>1, <1>2, <1>3 DEF Carried
  <2>2. signed <=> (c = 0 \/ b # h - 1)
    BY <1>5
  <2>. HIDE DEF signed
  <2>. QED  BY <2>1, <2>2, Sums
<1>. HIDE DEF over, y, kept, signed
<1>8. /\ Condition(q, 0) <=> Flag(q, OverflowFlag)
      /\ Condition(q, 2) <=> Flag(q, CarryFlag)
      /\ Condition(q, 0) \in BOOLEAN /\ Condition(q, 2) \in BOOLEAN
  BY ConditionsRead
<1>9. /\ kept => Condition(q, 2) = (x >= n)
      /\ ~kept => Condition(q, 2) # (x >= n)
  BY <1>6, <1>7, <1>8
<1>10. /\ signed => Condition(q, 0) = ~Fits(y, n)
       /\ ~signed => Condition(q, 0) # ~Fits(y, n)
  <2>1. Fits(y, n) \in BOOLEAN
    BY DEF Fits
  <2>. QED  BY <1>6, <1>7, <1>8, <2>1
<1>11. k \notin {3, 5, 7}
  OBVIOUS
<1>. QED
  <2>1. /\ kept => Condition(q, 2) = (a + b + c >= n)
        /\ ~kept => Condition(q, 2) # (a + b + c >= n)
    BY ONLY <1>1, <1>9, Zenon
  <2>2. Agrees(q, k, a, b, c, n)
    BY ONLY <2>1, <1>10, <1>11, Zenon DEF Agrees, y, kept, signed
  <2>3. q = AddFlags(r, a, (b + c) % n, (a + b + c) % n, n)
    BY ONLY <1>1, <1>2, <1>3, <1>4, Zenon
  <2>. QED  BY ONLY <2>2, <2>3, Zenon

LEMMA Group1Agrees ==
  ASSUME NEW r \in Regs, NEW h \in Nat \ {0}, NEW n, n = 2 * h,
         NEW a \in 0 .. n - 1, NEW b \in 0 .. n - 1, NEW k \in Reg, NEW c,
         c = IF k \in {2, 3} /\ Flag(r, CarryFlag) THEN 1 ELSE 0
  PROVE  Agrees(Group1Flags(r, k, a, b, n), k, a, b, c, n)
<1>. DEFINE carry == IF Flag(r, CarryFlag) THEN 1 ELSE 0
<1>1. c \in {0, 1} /\ (k \in {2, 3} => carry = c) /\ (k \notin {2, 3} => c = 0)
  OBVIOUS
<1>2. k \in {0, 1, 2, 3, 4, 5, 6, 7}
  BY DEF Reg
<1>3. /\ k = 0 => Group1Flags(r, k, a, b, n) = AddFlags(r, a, b, (a + b) % n, n)
      /\ k = 2 => Group1Flags(r, k, a, b, n) =
                    AddFlags(r, a, (b + carry) % n, (a + b + carry) % n, n)
      /\ k = 3 => Group1Flags(r, k, a, b, n) =
                    SubFlags(r, a, (b + carry) % n, (a - b - carry) % n, n)
      /\ k \in {5, 7} =>
           Group1Flags(r, k, a, b, n) = SubFlags(r, a, b, (a - b) % n, n)
  BY DEF Group1Flags
<1>. HIDE DEF carry
<1>4. c = 0 => (b + c) % n = b /\ a + b + c = a + b /\ a - b - c = a - b
  <2>1. n \in Nat \ {0} /\ b % n = b
    BY SmallMod
  <2>. QED  BY <2>1
<1>5. k \in {0, 2} => Group1Flags(r, k, a, b, n) =
                        AddFlags(r, a, (b + c) % n, (a + b + c) % n, n)
  <2>1. CASE k = 0
    <3>1. c = 0
      BY <1>1, <2>1
    <3>. QED  BY <1>3, <1>4, <2>1, <3>1, Zenon
  <2>2. CASE k = 2
    <3>1. carry = c
      BY <1>1, <2>2
    <3>. QED  BY <1>3, <2>2, <3>1, Zenon
  <2>. QED  BY <2>1, <2>2
<1>6. k \in {3, 5, 7} => Group1Flags(r, k, a, b, n) =
                           SubFlags(r, a, (b + c) % n, (a - b - c) % n, n)
  <2>1. CASE k = 3
    <3>1. carry = c
      BY <1>1, <2>1
    <3>. QED  BY <1>3, <2>1, <3>1, Zenon
  <2>2. CASE k \in {5, 7}
    <3>1. c = 0
      BY <1>1, <2>2
    <3>. QED  BY <1>3, <1>4, <2>2, <3>1, Zenon
  <2>. QED  BY <2>1, <2>2
<1>7. CASE k \in {0, 2}
  <2>1. Agrees(AddFlags(r, a, (b + c) % n, (a + b + c) % n, n), k, a, b, c, n)
    BY ZenonT(90), <1>1, <1>7, AddAgrees
  <2>. QED  BY <1>5, <1>7, <2>1, Zenon
<1>8. CASE k \in {3, 5, 7}
  <2>1. Agrees(SubFlags(r, a, (b + c) % n, (a - b - c) % n, n), k, a, b, c, n)
    BY ZenonT(90), <1>1, <1>8, SubAgrees
  <2>. QED  BY <1>6, <1>8, <2>1, Zenon
<1>9. CASE k \in {1, 4, 6}
  <2>1. k \notin {0, 2} /\ k \notin {3, 5, 7}
    BY <1>9
  <2>. QED  BY <2>1, Zenon DEF Agrees
<1>. QED  BY <1>2, <1>7, <1>8, <1>9

\* Group 1 as it was executed.
LEMMA Group1Done ==
  ASSUME InstructionInv, Executing(FALSE, Group1Opcodes)
  PROVE  /\ \E r \in Regs : /\ r.flags = before.regs.flags
                            /\ machine.regs = Group1Flags(r, Field, Left, Right, N)
         /\ \E h \in Nat \ {0} : N = 2 * h
         /\ Left \in 0 .. N - 1 /\ Right \in 0 .. N - 1 /\ Field \in Reg
<1>1. /\ IsMachine(before) /\ prefix \in PrefixState /\ ModRm = Imm8(before)
      /\ Rest = Skip(before) /\ machine = Execute(opcode, before, prefix).machine
      /\ opcode \in Group1Opcodes
  BY DEF InstructionInv, Executed, ModRm, Rest, AtModRm, Executing
<1>2. machine = Group1(opcode, before, prefix)
  BY <1>1 DEF Execute, Outcome, Group1Opcodes, Group3Opcodes, FlowOpcodes
<1>3. opcode \in {128, 129, 130, 131} /\ ~Escaping
  BY <1>1 DEF Group1Opcodes, Escaping
<1>. DEFINE t == IF opcode = 129 THEN Skip16(Rest) ELSE Skip(Rest)
            after == AfterOperand(t, prefix, ModRm)
            imm == CASE opcode = 129 -> Imm16(Rest)
                     [] opcode = 131 -> Wrap16(SignExtend(Imm8(Rest)))
                     [] OTHER -> Imm8(Rest)
<1>4. AtOperand = t /\ imm = Right
  BY <1>3 DEF AtOperand, Right
<1>5. /\ IsMachine(t) /\ IsMachine(Rest) /\ ModRm \in Byte
      /\ t.regs.flags = before.regs.flags
  <2>1. IsMachine(Rest) /\ ModRm \in Byte /\ OnlyIp(before, Rest)
    BY <1>1, SkipTyped, FetchTyped, SkipKeeps
  <2>2. t.regs.flags = Rest.regs.flags /\ IsMachine(t)
    BY <2>1, SkipTyped, SkipKeeps DEF OnlyIp
  <2>. QED  BY <2>1, <2>2 DEF OnlyIp
<1>6. machine =
        WithReg(after,
          IF ByteOpcode(opcode)
          THEN Group1Flags(after.regs, Field, Operand8, Right, 256)
          ELSE Group1Flags(after.regs, Field, Operand16, Right, WordSize))
  <2>1. machine =
          WithReg(after,
            IF ByteOpcode(opcode)
            THEN Group1Flags(after.regs, Field, Read8(t, prefix, ModRm), imm, 256)
            ELSE Group1Flags(after.regs, Field, Read16(t, prefix, ModRm), imm,
                             WordSize))
    BY <1>1, <1>2, ZenonT(90) DEF Group1, Field
  <2>. HIDE DEF t, imm, after
  <2>. QED  BY <1>4, <2>1, Zenon DEF Operand8, Operand16
<1>7. IsMachine(after) /\ after.regs.flags = before.regs.flags
  <2>. HIDE DEF t
  <2>1. IsMachine(after) /\ OnlyIp(t, after)
    BY <1>1, <1>5, EaTyped, OperandKeeps
  <2>. QED  BY <1>5, <2>1 DEF OnlyIp
<1>8. Field \in Reg /\ Operand8 \in Byte /\ Operand16 \in Word
  <2>. HIDE DEF t
  <2>. QED  BY <1>1, <1>4, <1>5, FieldsTyped, ReadsTyped DEF Field, Operand8, Operand16
<1>9. Imm8(Rest) \in Byte /\ Imm16(Rest) \in Word
      /\ Wrap16(SignExtend(Imm8(Rest))) \in Word
  BY <1>5, ImmediatesInt, WrapInWord
<1>. HIDE DEF t, after, imm
<1>10. CASE opcode \in {128, 130}
  <2>1. ByteOpcode(opcode) /\ N = 256 /\ Right = Imm8(Rest)
    BY <1>10 DEF ByteOpcode, N, Right
  <2>2. Left = Operand8
    BY <2>1 DEF Left
  <2>3. machine = WithReg(after, Group1Flags(after.regs, Field, Left, Right, N))
    BY <1>6, <2>1, <2>2, Zenon
  <2>4. machine.regs = Group1Flags(after.regs, Field, Left, Right, N)
    BY <1>7, <2>3, Parts, Group1FlagsTyped, WithRegTyped
  <2>5. N = 2 * 128 /\ 128 \in Nat \ {0} /\ Left \in 0 .. N - 1 /\ Right \in 0 .. N - 1
    BY SMTT(60), <1>8, <1>9, <2>1, <2>2, ByteRange
  <2>. QED  BY <1>7, <1>8, <2>4, <2>5, Parts
<1>11. CASE opcode \in {129, 131}
  <2>1. ~ByteOpcode(opcode) /\ N = WordSize
    BY <1>11 DEF ByteOpcode, N
  <2>2. Left = Operand16
    BY <2>1 DEF Left, WordSize
  <2>3. machine = WithReg(after, Group1Flags(after.regs, Field, Left, Right, N))
    BY <1>6, <2>1, <2>2, Zenon
  <2>4. machine.regs = Group1Flags(after.regs, Field, Left, Right, N)
    BY <1>7, <2>3, Parts, Group1FlagsTyped, WithRegTyped
  <2>5. Right \in Word
    BY <1>9, <1>11 DEF Right
  <2>6. Left \in 0 .. N - 1 /\ Right \in 0 .. N - 1
    BY <1>8, <2>1, <2>2, <2>5 DEF Word
  <2>7. \E h \in Nat \ {0} : N = 2 * h
    BY ONLY <2>1, HalfWord, Zenon
  <2>8. after.regs \in Regs
    BY <1>7, Parts
  <2>. QED  BY ONLY <1>7, <1>8, <2>4, <2>6, <2>7, <2>8
<1>. QED  BY <1>3, <1>10, <1>11

\* Where the carry does take the immediate over the top, or to the sign, the
\* code folds it in all the same, and judges wrongly every time: after SBB a
\* borrow and a smaller number are missed, after ADC the carry out, and the
\* overflow is the reverse of what it should be.
FoldedCarryMisjudges ==
  Executing(FALSE, Group1Opcodes) =>
    LET holds(i) == Condition(machine.regs, i)
    IN /\ Field = 3 => /\ ~CarryKept => holds(2) # (Difference < 0)
                       /\ ~SignKept => holds(12) # (SignedDifference < 0)
       /\ Field = 2 => /\ ~CarryKept => holds(2) # (Sum >= N)
                       /\ ~SignKept => holds(0) # ~Fits(SignedSum, N)

\* For every operand, immediate and incoming carry the flags that CMP, SUB,
\* SBB, ADD and ADC leave judge the unsigned numbers rightly exactly when the
\* carry does not take the immediate over the top, and the signed ones exactly
\* when it does not take it to the sign; zero is always right.  The exceptions
\* are those of an ADC or SBB with the carry set and FFh or 7Fh, FFFFh or 7FFFh
\* (cpu/interp/alu.rs with the conditions of cpu/interp/extended.rs).
THEOREM ConditionsTheorem == Spec => [](ConditionsAgree /\ FoldedCarryMisjudges)
<1>1. InstructionInv => ConditionsAgree /\ FoldedCarryMisjudges
  <2>. SUFFICES ASSUME InstructionInv, Executing(FALSE, Group1Opcodes)
                PROVE  Agrees(machine.regs, Field, Left, Right, CarryIn, N)
    <3>1. ASSUME Executing(FALSE, Group1Opcodes),
                 Agrees(machine.regs, Field, Left, Right, CarryIn, N)
          PROVE  ConditionsAgree
      BY <3>1, Zenon DEF ConditionsAgree, Agrees, CarryKept, SignKept, Difference,
         Sum, SignedDifference, SignedSum
    <3>2. ASSUME Executing(FALSE, Group1Opcodes),
                 Agrees(machine.regs, Field, Left, Right, CarryIn, N)
          PROVE  FoldedCarryMisjudges
      <4>1. 3 \in {3, 5, 7} /\ 2 \in {0, 2}
        OBVIOUS
      <4>. QED
        BY <3>2, <4>1, Zenon DEF FoldedCarryMisjudges, Agrees, CarryKept,
           SignKept, Difference, Sum, SignedDifference, SignedSum
    <3>3. ~Executing(FALSE, Group1Opcodes) => ConditionsAgree /\ FoldedCarryMisjudges
      BY DEF ConditionsAgree, FoldedCarryMisjudges
    <3>. QED  BY <3>1, <3>2, <3>3
  <2>1. /\ Left \in 0 .. N - 1 /\ Right \in 0 .. N - 1 /\ Field \in Reg
    BY Group1Done
  <2>2. PICK r \in Regs : /\ r.flags = before.regs.flags
                          /\ machine.regs = Group1Flags(r, Field, Left, Right, N)
    BY Group1Done
  <2>3. PICK h \in Nat \ {0} : N = 2 * h
    BY Group1Done
  <2>4. CarryIn = IF Field \in {2, 3} /\ Flag(r, CarryFlag) THEN 1 ELSE 0
    BY <2>2 DEF CarryIn, Flag
  <2>5. Agrees(Group1Flags(r, Field, Left, Right, N), Field, Left, Right, CarryIn, N)
    BY <2>1, <2>3, <2>4, Group1Agrees, Zenon
  <2>. QED  BY <2>2, <2>5, Zenon
<1>. QED  BY <1>1, InstructionAlways, PTL

-----------------------------------------------------------------------------
\* A word and its bits.

\* The number that is left above bit i, and bit i.
Above(v, i) == v \div BitValue[i + 1]
Bit(v, i) == Above(v, i) % 2

LEMMA Powers ==
  /\ BitValue[1] = 1
  /\ \A i \in Position : BitValue[i + 1] \in Nat \ {0}
  /\ \A i \in 0 .. 14 : BitValue[i + 2] = 2 * BitValue[i + 1]
  /\ WordSize = 2 * BitValue[16]
<1>1. BitValue[1] = 1 /\ WordSize = 2 * BitValue[16]
  BY DEF BitValue, WordSize
<1>2. ASSUME NEW i \in 0 .. 14  PROVE BitValue[i + 2] = 2 * BitValue[i + 1]
  BY DEF BitValue
<1>3. ASSUME NEW i \in 0 .. 15  PROVE BitValue[i + 1] \in Nat \ {0}
  BY DEF BitValue
<1>. QED  BY <1>1, <1>2, <1>3 DEF Position

\* The number above a bit is twice the one above the next, and the bit.
LEMMA Binary ==
  ASSUME NEW v \in Word
  PROVE  /\ Above(v, 0) = v
         /\ \A i \in Position : Above(v, i) \in Nat /\ Bit(v, i) \in {0, 1}
         /\ \A i \in 0 .. 14 : Above(v, i) = 2 * Above(v, i + 1) + Bit(v, i)
         /\ Above(v, 15) = Bit(v, 15)
<1>1. v \in Nat /\ v < WordSize
  BY WordRange, WordSizeNat
<1>2. ASSUME NEW f \in Nat \ {0}
      PROVE  /\ v \div f \in Nat /\ (v \div f) % 2 \in {0, 1}
             /\ v \div f = 2 * (v \div (2 * f)) + ((v \div f) % 2)
             /\ v < 2 * f => v \div (2 * f) = 0
  <2>1. PICK h \in Nat, c \in {0, 1}, r \in 0 .. f - 1 :
          v = WithBit(f, h, c, r) /\ (v \div f) % 2 = c /\ v \div f = 2 * h + c
    BY <1>1, BitSplit
  <2>2. PICK g \in Nat \ {0} : g = 2 * f
    OBVIOUS
  <2>3. PICK m \in Nat \ {0} : m = 1
    OBVIOUS
  <2>4. v \div g = h \div m
    <3>1. Doubled(f, g, m)
      <4>1. g = (2 * f) * 1
        BY <2>2
      <4>. QED  BY <2>3, <4>1, Zenon DEF Doubled
    <3>2. WithBit(f, h, c, r) \div g = h \div m
      BY <3>1, BitHigher
    <3>. QED  BY <2>1, <3>2, Zenon
  <2>5. h \div m = h
    BY <2>3
  <2>6. v < g => v \div g = 0
    BY <1>1, <2>2, SMT
  <2>7. v \div f = 2 * (v \div g) + ((v \div f) % 2)
    BY <2>1, <2>4, <2>5, Zenon
  <2>8. v \div f \in Nat
    BY <2>1
  <2>. QED  BY <2>1, <2>2, <2>6, <2>7, <2>8, Zenon
<1>3. v \div 1 = v
  BY <1>1
<1>4. ASSUME NEW i \in 0 .. 14
      PROVE  Above(v, i) = 2 * Above(v, i + 1) + Bit(v, i)
  <2>1. BitValue[i + 1] \in Nat \ {0} /\ BitValue[i + 2] = 2 * BitValue[i + 1]
    BY Powers DEF Position
  <2>2. i + 1 + 1 = i + 2
    OBVIOUS
  <2>. QED  BY <1>2, <2>1, <2>2, Zenon DEF Above, Bit
<1>5. \A i \in Position : Above(v, i) \in Nat /\ Bit(v, i) \in {0, 1}
  BY <1>2, Powers, Zenon DEF Above, Bit
<1>6. Above(v, 0) = v
  BY <1>3, Powers DEF Above
<1>7. Above(v, 15) = Bit(v, 15)
  <2>1. PICK f \in Nat \ {0} : f = BitValue[15 + 1] /\ WordSize = 2 * f
    BY Powers DEF Position
  <2>2. v \div (2 * f) = 0
    BY <1>1, <1>2, <2>1
  <2>3. v \div f = (v \div f) % 2
    BY <1>2, <2>2
  <2>. QED  BY <2>1, <2>3, Zenon DEF Above, Bit
<1>. QED  BY <1>4, <1>5, <1>6, <1>7

\* The value of a position in a set of them.
Value(B, i) == IF i \in B THEN BitValue[i + 1] ELSE 0

LEMMA PowerValues ==
  /\ 0 .. 15 = Position
  /\ BitValue[0 + 1] = 1 /\ BitValue[1 + 1] = 2 /\ BitValue[2 + 1] = 4
  /\ BitValue[3 + 1] = 8 /\ BitValue[4 + 1] = 16 /\ BitValue[5 + 1] = 32
  /\ BitValue[6 + 1] = 64 /\ BitValue[7 + 1] = 128 /\ BitValue[8 + 1] = 256
  /\ BitValue[9 + 1] = 512 /\ BitValue[10 + 1] = 1024
  /\ BitValue[11 + 1] = 2048 /\ BitValue[12 + 1] = 4096
  /\ BitValue[13 + 1] = 8192 /\ BitValue[14 + 1] = 16384
  /\ BitValue[15 + 1] = 32768
  BY DEF BitValue, Position

LEMMA FromBitsSum ==
  ASSUME NEW B
  PROVE  FromBits(B) =
           Value(B, 0) + Value(B, 1) + Value(B, 2) + Value(B, 3) + Value(B, 4)
             + Value(B, 5) + Value(B, 6) + Value(B, 7) + Value(B, 8)
             + Value(B, 9) + Value(B, 10) + Value(B, 11) + Value(B, 12)
             + Value(B, 13) + Value(B, 14) + Value(B, 15)
<1>. DEFINE value(i, v) == IF i \in B THEN v ELSE 0
<1>1. FromBits(B) =
        value(0, 1) + value(1, 2) + value(2, 4) + value(3, 8) + value(4, 16)
          + value(5, 32) + value(6, 64) + value(7, 128) + value(8, 256)
          + value(9, 512) + value(10, 1024) + value(11, 2048)
          + value(12, 4096) + value(13, 8192) + value(14, 16384)
          + value(15, 32768)
  BY DEF FromBits
<1>2. /\ value(0, 1) = Value(B, 0) /\ value(1, 2) = Value(B, 1)
      /\ value(2, 4) = Value(B, 2) /\ value(3, 8) = Value(B, 3)
      /\ value(4, 16) = Value(B, 4) /\ value(5, 32) = Value(B, 5)
      /\ value(6, 64) = Value(B, 6) /\ value(7, 128) = Value(B, 7)
      /\ value(8, 256) = Value(B, 8) /\ value(9, 512) = Value(B, 9)
      /\ value(10, 1024) = Value(B, 10) /\ value(11, 2048) = Value(B, 11)
      /\ value(12, 4096) = Value(B, 12) /\ value(13, 8192) = Value(B, 13)
      /\ value(14, 16384) = Value(B, 14) /\ value(15, 32768) = Value(B, 15)
  BY DEF Value, BitValue
<1>. HIDE DEF value
<1>. QED  BY <1>1, <1>2

LEMMA BitsOf ==
  ASSUME NEW v \in Word
  PROVE  FromBits(Bits(v)) = v
<1>. DEFINE B == Bits(v)
<1>1. \A i \in Position : i \in B <=> Bit(v, i) = 1
  BY DEF Bits, Bit, Above
<1>2. \A i \in Position : Bit(v, i) \in {0, 1}
  BY Binary
<1>3. \A i \in Position : Value(B, i) = IF Bit(v, i) = 1 THEN BitValue[i + 1] ELSE 0
  BY <1>1 DEF Value
<1>. HIDE DEF B
<1>4. ASSUME NEW i \in Position, NEW f \in Nat, f = BitValue[i + 1]
      PROVE  Value(B, i) = f * Bit(v, i)
  BY <1>2, <1>3, <1>4
<1>5. /\ v = 2 * Above(v, 1) + Bit(v, 0)
      /\ Above(v, 1) = 2 * Above(v, 2) + Bit(v, 1)
      /\ Above(v, 2) = 2 * Above(v, 3) + Bit(v, 2)
      /\ Above(v, 3) = 2 * Above(v, 4) + Bit(v, 3)
      /\ Above(v, 4) = 2 * Above(v, 5) + Bit(v, 4)
      /\ Above(v, 5) = 2 * Above(v, 6) + Bit(v, 5)
      /\ Above(v, 6) = 2 * Above(v, 7) + Bit(v, 6)
      /\ Above(v, 7) = 2 * Above(v, 8) + Bit(v, 7)
      /\ Above(v, 8) = 2 * Above(v, 9) + Bit(v, 8)
      /\ Above(v, 9) = 2 * Above(v, 10) + Bit(v, 9)
      /\ Above(v, 10) = 2 * Above(v, 11) + Bit(v, 10)
      /\ Above(v, 11) = 2 * Above(v, 12) + Bit(v, 11)
      /\ Above(v, 12) = 2 * Above(v, 13) + Bit(v, 12)
      /\ Above(v, 13) = 2 * Above(v, 14) + Bit(v, 13)
      /\ Above(v, 14) = 2 * Bit(v, 15) + Bit(v, 14)
  BY Binary
<1>6. /\ Value(B, 0) = 1 * Bit(v, 0) /\ Value(B, 1) = 2 * Bit(v, 1)
      /\ Value(B, 2) = 4 * Bit(v, 2) /\ Value(B, 3) = 8 * Bit(v, 3)
  BY <1>4, PowerValues
<1>7. /\ Value(B, 4) = 16 * Bit(v, 4) /\ Value(B, 5) = 32 * Bit(v, 5)
      /\ Value(B, 6) = 64 * Bit(v, 6) /\ Value(B, 7) = 128 * Bit(v, 7)
  BY <1>4, PowerValues
<1>8. /\ Value(B, 8) = 256 * Bit(v, 8) /\ Value(B, 9) = 512 * Bit(v, 9)
      /\ Value(B, 10) = 1024 * Bit(v, 10) /\ Value(B, 11) = 2048 * Bit(v, 11)
  BY <1>4, PowerValues
<1>9. /\ Value(B, 12) = 4096 * Bit(v, 12) /\ Value(B, 13) = 8192 * Bit(v, 13)
      /\ Value(B, 14) = 16384 * Bit(v, 14) /\ Value(B, 15) = 32768 * Bit(v, 15)
  BY <1>4, PowerValues
<1>10. \A i \in Position : Above(v, i) \in Int /\ Bit(v, i) \in Int
  BY <1>2, Binary
<1>11. v = Value(B, 0) + Value(B, 1) + Value(B, 2) + Value(B, 3) + Value(B, 4)
            + Value(B, 5) + Value(B, 6) + Value(B, 7) + Value(B, 8)
            + Value(B, 9) + Value(B, 10) + Value(B, 11) + Value(B, 12)
            + Value(B, 13) + Value(B, 14) + Value(B, 15)
  <2>1. /\ Above(v, 4) \in Int /\ Above(v, 8) \in Int /\ Above(v, 12) \in Int
        /\ \A i \in 0 .. 15 : Bit(v, i) \in Int
    BY <1>10, PowerValues
  <2>2. v = Value(B, 0) + Value(B, 1) + Value(B, 2) + Value(B, 3) + 16 * Above(v, 4)
    BY ONLY <1>5, <1>6, <2>1
  <2>3. 16 * Above(v, 4) = Value(B, 4) + Value(B, 5) + Value(B, 6) + Value(B, 7)
                             + 256 * Above(v, 8)
    BY ONLY <1>5, <1>7, <2>1
  <2>4. 256 * Above(v, 8) = Value(B, 8) + Value(B, 9) + Value(B, 10) + Value(B, 11)
                              + 4096 * Above(v, 12)
    BY ONLY <1>5, <1>8, <2>1
  <2>5. 4096 * Above(v, 12) = Value(B, 12) + Value(B, 13) + Value(B, 14) + Value(B, 15)
    BY ONLY <1>5, <1>9, <2>1
  <2>6. \A i \in 0 .. 15 : Value(B, i) \in Int
    BY <1>3, PowerValues, Powers
  <2>. QED  BY ONLY <2>1, <2>2, <2>3, <2>4, <2>5, <2>6
<1>. QED  BY <1>11, FromBitsSum DEF B

LEMMA BitInSet ==
  ASSUME NEW v, NEW i \in Position
  PROVE  i \in Bits(v) <=> Bit(v, i) = 1
  BY DEF Bits, Bit, Above

\* Changing one bit changes the number by its value.
LEMMA BitChanged ==
  ASSUME NEW v \in Word, NEW i \in Position, NEW B, NEW d \in {0, 1},
         d = 1 <=> i \in B,
         \A j \in Position \ {i} : j \in B <=> j \in Bits(v)
  PROVE  FromBits(B) = v + (d - Bit(v, i)) * BitValue[i + 1]
<1>. DEFINE C == Bits(v)
            p == BitValue[i + 1]
            change == (d - Bit(v, i)) * p
<1>1. Bit(v, i) \in {0, 1} /\ p \in Int
  BY Binary, Powers
<1>2. \A j \in Position : Value(B, j) \in Int /\ Value(C, j) \in Int
  BY Powers DEF Value
<1>3. \A j \in Position : j # i => Value(B, j) = Value(C, j)
  BY DEF Value
<1>4. Value(B, i) = Value(C, i) + change /\ change \in Int
  <2>1. Value(B, i) = IF d = 1 THEN p ELSE 0
    BY DEF Value
  <2>2. Value(C, i) = IF Bit(v, i) = 1 THEN p ELSE 0
    BY BitInSet DEF Value
  <2>. HIDE DEF C, p
  <2>. QED  BY <1>1, <2>1, <2>2
<1>5. PICK e \in Int : e = change
  BY <1>4
<1>. HIDE DEF C, change
<1>6. \A j \in 0 .. 15 : /\ Value(B, j) = Value(C, j) + (IF j = i THEN e ELSE 0)
                         /\ Value(C, j) \in Int
  BY <1>2, <1>3, <1>4, <1>5, PowerValues
<1>7. i \in 0 .. 15
  BY PowerValues
<1>8. FromBits(B) = FromBits(C) + e
  BY ONLY <1>5, <1>6, <1>7, FromBitsSum
<1>9. FromBits(C) = v
  BY BitsOf DEF C
<1>. QED  BY <1>5, <1>8, <1>9 DEF change, p

\* No one bit below, or above, a position.
LEMMA LowBits ==
  ASSUME NEW v \in Word, NEW k \in Position,
         \A j \in Position : j < k => Bit(v, j) = 0
  PROVE  v % BitValue[k + 1] = 0
<1>. DEFINE Claim(i) == (\A j \in Position : j < i => Bit(v, j) = 0) =>
                          v = BitValue[i + 1] * Above(v, i)
<1>1. Claim(0)
  <2>1. v \in Int
    BY WordRange
  <2>. QED  BY <2>1, Binary, Powers
<1>2. ASSUME NEW i \in 0 .. 14, Claim(i)  PROVE Claim(i + 1)
  <2>. SUFFICES ASSUME \A j \in Position : j < i + 1 => Bit(v, j) = 0
                PROVE  v = BitValue[i + 2] * Above(v, i + 1)
    OBVIOUS
  <2>1. i \in Position /\ i + 1 \in Position /\ i < i + 1
    BY DEF Position
  <2>2. Bit(v, i) = 0 /\ \A j \in Position : j < i => Bit(v, j) = 0
    BY <2>1 DEF Position
  <2>3. v = BitValue[i + 1] * Above(v, i)
    BY <1>2, <2>2
  <2>4. PICK f \in Nat, a \in Nat : f = BitValue[i + 1] /\ a = Above(v, i + 1)
    BY <2>1, Binary, Powers
  <2>5. Above(v, i) = 2 * a + Bit(v, i) /\ BitValue[i + 2] = 2 * f
    BY <2>4, Binary, Powers
  <2>6. Above(v, i) = 2 * a
    BY <2>2, <2>4, <2>5
  <2>7. f * (2 * a) = (2 * f) * a
    BY Z3
  <2>. QED  BY <2>3, <2>4, <2>5, <2>6, <2>7, Zenon
<1>. HIDE DEF Claim
<1>3. Claim(1) /\ Claim(2) /\ Claim(3) /\ Claim(4)
  BY <1>1, <1>2
<1>4. Claim(5) /\ Claim(6) /\ Claim(7) /\ Claim(8)
  BY <1>2, <1>3
<1>5. Claim(9) /\ Claim(10) /\ Claim(11) /\ Claim(12)
  BY <1>2, <1>4
<1>6. Claim(13) /\ Claim(14) /\ Claim(15)
  BY <1>2, <1>5
<1>7. Claim(k)
  BY <1>1, <1>3, <1>4, <1>5, <1>6 DEF Position
<1>8. PICK f \in Nat \ {0}, a \in Nat : f = BitValue[k + 1] /\ a = Above(v, k)
  BY Binary, Powers
<1>9. v = f * a
  BY <1>7, <1>8 DEF Claim
<1>10. (f * a + 0) % f = 0
  BY ModShift
<1>11. f * a \in Int
  OBVIOUS
<1>. QED  BY <1>8, <1>9, <1>10, <1>11

LEMMA HighBits ==
  ASSUME NEW v \in Word, NEW k \in Position,
         \A j \in Position : j > k => Bit(v, j) = 0
  PROVE  Above(v, k) = Bit(v, k)
<1>1. CASE k = 15
  BY <1>1, Binary
<1>2. CASE k # 15
  <2>. DEFINE Claim(i) == k < i => Above(v, i) = 0
  <2>1. Claim(15)
    BY Binary DEF Position
  <2>2. \A j \in Int : 2 <= j /\ j <= 15 /\ Claim(j) => Claim(j - 1)
    <3>. SUFFICES ASSUME NEW j \in Int, 2 <= j, j <= 15, Claim(j), k < j - 1
                  PROVE  Above(v, j - 1) = 0
      OBVIOUS
    <3>1. PICK i \in 0 .. 14 : i = j - 1 /\ j = i + 1
      OBVIOUS
    <3>2. k < j /\ k < i /\ i \in Position
      BY <3>1 DEF Position
    <3>3. Bit(v, i) = 0 /\ Above(v, i + 1) = 0
      BY <3>1, <3>2
    <3>4. Above(v, i) = 0
      BY <3>3, Binary
    <3>. QED  BY <3>1, <3>4
  <2>. HIDE DEF Claim
  <2>3. Claim(14) /\ Claim(13) /\ Claim(12)
    BY <2>1, <2>2
  <2>4. Claim(11) /\ Claim(10) /\ Claim(9)
    BY <2>2, <2>3
  <2>5. Claim(8) /\ Claim(7) /\ Claim(6)
    BY <2>2, <2>4
  <2>6. Claim(5) /\ Claim(4) /\ Claim(3) /\ Claim(2) /\ Claim(1)
    BY <2>2, <2>5
  <2>7. k \in 0 .. 14 /\ k + 1 \in 1 .. 15 /\ k < k + 1
    BY <1>2 DEF Position
  <2>8. Claim(k + 1)
    BY <2>1, <2>3, <2>4, <2>5, <2>6, <2>7
  <2>9. Above(v, k + 1) = 0
    BY <2>7, <2>8 DEF Claim
  <2>10. Above(v, k) = 2 * Above(v, k + 1) + Bit(v, k) /\ Bit(v, k) \in {0, 1}
    BY <2>7, Binary
  <2>. QED  BY <2>9, <2>10
<1>. QED  BY <1>1, <1>2

\* A number that is not zero has a one bit.
LEMMA NoBits ==
  ASSUME NEW v \in Word
  PROVE  Bits(v) = {} <=> v = 0
<1>1. ASSUME Bits(v) = {}  PROVE v = 0
  <2>1. \A j \in 0 .. 15 : Value(Bits(v), j) = 0
    BY <1>1 DEF Value
  <2>2. FromBits(Bits(v)) = 0
    BY ONLY <2>1, FromBitsSum
  <2>. QED  BY <2>2, BitsOf
<1>2. ASSUME v = 0  PROVE Bits(v) = {}
  <2>1. \A f \in Nat \ {0} : (0 \div f) % 2 # 1
    BY SMT
  <2>. QED  BY <1>2, <2>1, Powers DEF Bits
<1>. QED  BY <1>1, <1>2

\* What the scans find.
LEMMA Scanned ==
  ASSUME NEW v \in Word, v # 0
  PROVE  /\ Lowest(Bits(v)) \in Position /\ Highest(Bits(v)) \in Position
         /\ v % BitValue[Lowest(Bits(v)) + 1] = 0
         /\ Above(v, Lowest(Bits(v))) % 2 = 1
         /\ Above(v, Highest(Bits(v))) = 1
<1>. DEFINE B == Bits(v)
<1>1. B \in SUBSET Position /\ B # {}
  BY BitsPositions, NoBits
<1>2. \A j \in Position : j \in B <=> Bit(v, j) = 1
  BY BitInSet
<1>3. \A j \in Position : Bit(v, j) \in {0, 1}
  BY Binary
<1>. HIDE DEF B
<1>4. PICK i : i = Lowest(B) /\ i \in B /\ \A j \in B : i <= j
  BY <1>1, ScanTyped
<1>5. PICK k : k = Highest(B) /\ k \in B /\ \A j \in B : j <= k
  BY <1>1, ScanTyped
<1>6. i \in Position /\ k \in Position /\ Bit(v, i) = 1 /\ Bit(v, k) = 1
  BY <1>1, <1>2, <1>4, <1>5
<1>7. /\ \A j \in Position : j < i => Bit(v, j) = 0
      /\ \A j \in Position : j > k => Bit(v, j) = 0
  BY <1>2, <1>3, <1>4, <1>5, <1>6 DEF Position
<1>8. v % BitValue[i + 1] = 0 /\ Above(v, k) = 1
  BY <1>6, <1>7, LowBits, HighBits
<1>. QED  BY <1>4, <1>5, <1>6, <1>8, Zenon DEF B, Bit

-----------------------------------------------------------------------------
\* The bit tests and the scans.

\* What a write leaves in its operand, and in the flags.
LEMMA Written ==
  ASSUME NEW u, IsMachine(u), NEW p \in PrefixState, NEW b \in Byte,
         NEW x \in Word, NEW m, m = Write16(u, p, b, x)
  PROVE  /\ m.regs.flags = u.regs.flags
         /\ RegOperand(b) => Get16(m.regs, ModRmRm(b)) = x
         /\ ~RegOperand(b) => ReadU16(m.mem, EaAddr(u, p, b)) = x
<1>1. ModRmRm(b) \in Reg /\ u.regs \in Regs
  BY FieldsTyped, Parts
<1>2. CASE RegOperand(b)
  <2>1. Set16(u.regs, ModRmRm(b), x) \in Regs
    BY <1>1, Set16Regs
  <2>2. m.regs = Set16(u.regs, ModRmRm(b), x)
    BY <1>2, <2>1, WithRegTyped DEF Write16
  <2>3. Get16(m.regs, ModRmRm(b)) = x
    BY <1>1, <2>2, WideGets, ZeroIsWord
  <2>4. m.regs.flags = u.regs.flags
    BY <1>1, <2>2 DEF Set16, Regs
  <2>. QED  BY <1>2, <2>3, <2>4
<1>3. CASE ~RegOperand(b)
  <2>. DEFINE t == AfterEa(u, p, b)
              a == EaAddr(u, p, b)
  <2>1. IsMachine(t) /\ OnlyIp(u, t) /\ a \in Addr
    BY EaTyped, OperandKeeps
  <2>2. m = [t EXCEPT !.mem = WriteU16(t.mem, a, x)]
    BY <1>3 DEF Write16
  <2>. HIDE DEF t, a
  <2>3. m.regs = t.regs /\ m.mem = WriteU16(t.mem, a, x)
    BY <2>1, <2>2 DEF IsMachine
  <2>4. ReadU16(m.mem, a) = x
    BY <2>1, <2>3, WriteReadU16
  <2>5. m.regs.flags = u.regs.flags
    BY <2>1, <2>3 DEF OnlyIp
  <2>. QED  BY <1>3, <2>4, <2>5 DEF a
<1>. QED  BY <1>2, <1>3

\* The operand once m is there, where s is the machine it was decoded on.
OperandIn(m, s, p, b) == IF RegOperand(b) THEN Get16(m.regs, ModRmRm(b))
                                          ELSE ReadU16(m.mem, EaAddr(s, p, b))

\* Flags are set and the operand is written, on a machine further on.
LEMMA FlaggedWrite ==
  ASSUME NEW s, IsMachine(s), NEW t, IsMachine(t), OnlyIp(s, t),
         NEW p \in PrefixState, NEW b \in Byte, NEW x \in Word,
         NEW r, OnlyFlags(t.regs, r), NEW m, m = Write16(WithReg(t, r), p, b, x)
  PROVE  /\ m.regs.flags = r.flags
         /\ Plain(p, b) => OperandIn(m, s, p, b) = x
<1>. DEFINE u == WithReg(t, r)
<1>1. r \in Regs /\ r.w = t.regs.w /\ r.seg = t.regs.seg
  BY DEF OnlyFlags, SameIp
<1>2. IsMachine(u) /\ u.regs = r /\ u.mem = t.mem
  BY <1>1, WithRegTyped
<1>. HIDE DEF u
<1>3. SameBase(s, u)
  BY <1>1, <1>2 DEF SameBase, OnlyIp
<1>4. m = Write16(u, p, b, x)
  BY DEF u
<1>5. /\ m.regs.flags = r.flags
      /\ RegOperand(b) => Get16(m.regs, ModRmRm(b)) = x
      /\ ~RegOperand(b) => ReadU16(m.mem, EaAddr(u, p, b)) = x
  BY <1>2, <1>4, Written
<1>6. Plain(p, b) /\ ~RegOperand(b) => EaAddr(u, p, b) = EaAddr(s, p, b)
  BY <1>3, PlainAddress
<1>. QED  BY <1>5, <1>6 DEF OperandIn

LEMMA BitOpValue ==
  ASSUME NEW v \in Word, NEW kind \in Reg, NEW i \in Position, NEW old, NEW new,
         old = Bit(v, i),
         new = CASE kind = 5 -> 1 [] kind = 6 -> 0 [] kind = 7 -> 1 - old
                 [] OTHER -> old
  PROVE  /\ BitValueAfter(kind, v, i) \in Word
         /\ BitValueAfter(kind, v, i) = v + (new - old) * BitValue[i + 1]
         /\ kind <= Test => v + (new - old) * BitValue[i + 1] = v
<1>1. old \in {0, 1} /\ (i \in Bits(v) <=> old = 1)
  BY Binary, BitInSet
<1>2. kind \in {0, 1, 2, 3, 4, 5, 6, 7}
  BY DEF Reg
<1>3. /\ kind = 5 => ~(kind <= Test)
      /\ kind = 6 => ~(kind <= Test)
      /\ kind = 7 => ~(kind <= Test)
  BY DEF Test
<1>4. CASE kind = 5
  <2>1. new = 1 /\ BitValueAfter(kind, v, i) = FromBits(Bits(v) \cup {i})
    BY <1>4 DEF BitValueAfter
  <2>2. FromBits(Bits(v) \cup {i}) = v + (1 - Bit(v, i)) * BitValue[i + 1]
    BY BitChanged
  <2>. QED  BY <1>4, <2>1, <2>2, FromBitsWord, <1>3, Zenon
<1>5. CASE kind = 6
  <2>1. new = 0 /\ BitValueAfter(kind, v, i) = FromBits(Bits(v) \ {i})
    BY <1>5 DEF BitValueAfter
  <2>2. FromBits(Bits(v) \ {i}) = v + (0 - Bit(v, i)) * BitValue[i + 1]
    BY BitChanged
  <2>. QED  BY <1>5, <2>1, <2>2, FromBitsWord, <1>3, Zenon
<1>6. CASE kind = 7
  <2>. DEFINE B == (Bits(v) \ {i}) \cup ({i} \ Bits(v))
  <2>1. new = 1 - old /\ BitValueAfter(kind, v, i) = FromBits(B)
    BY <1>6 DEF BitValueAfter
  <2>2. new \in {0, 1} /\ (new = 1 <=> i \in B)
    BY <1>1, <2>1
  <2>3. FromBits(B) = v + (new - Bit(v, i)) * BitValue[i + 1]
    BY <2>2, BitChanged
  <2>. QED  BY <1>6, <2>1, <2>3, FromBitsWord, <1>3, Zenon
<1>7. CASE kind \notin {5, 6, 7}
  <2>1. new = old /\ BitValueAfter(kind, v, i) = v
    BY <1>7 DEF BitValueAfter
  <2>2. \A f \in Int : (old - old) * f = 0
    BY <1>1
  <2>3. v + (old - old) * BitValue[i + 1] = v
    BY <2>2, Powers, WordRange
  <2>. QED  BY <2>1, <2>3, Zenon
<1>. QED  BY <1>4, <1>5, <1>6, <1>7

LEMMA BitOpExact ==
  ASSUME NEW s, IsMachine(s), NEW t, IsMachine(t), OnlyIp(s, t),
         NEW p \in PrefixState, NEW b \in Byte, NEW kind \in Reg,
         NEW i \in Position, NEW v, v = Read16(s, p, b),
         NEW m, m = BitOp(t, p, b, kind, v, i), NEW old, NEW new, old = Bit(v, i),
         new = CASE kind = 5 -> 1 [] kind = 6 -> 0 [] kind = 7 -> 1 - old
                 [] OTHER -> old
  PROVE  /\ Flag(m.regs, CarryFlag) = (old = 1)
         /\ Plain(p, b) =>
              OperandIn(m, s, p, b) = v + (new - old) * BitValue[i + 1]
<1>. DEFINE on == i \in Bits(v)
            r == SetFlag(t.regs, CarryFlag, on)
            x == BitValueAfter(kind, v, i)
            y == v + (new - old) * BitValue[i + 1]
<1>1. v \in Word /\ (on <=> old = 1)
  BY ReadsTyped, BitInSet
<1>2. x \in Word /\ x = y /\ (kind <= Test => y = v)
  BY <1>1, BitOpValue
<1>3. m = IF kind > Test THEN Write16(WithReg(t, r), p, b, x) ELSE WithReg(t, r)
  BY DEF BitOp
<1>. HIDE DEF on, x, y
<1>4. OnlyFlags(t.regs, r) /\ t.regs \in Regs /\ (Flag(r, CarryFlag) <=> on)
  BY Parts, SameIpStart, SetFlagOnly, FlagNames, FlagSet
<1>. HIDE DEF r
<1>5. r \in Regs /\ r.w = t.regs.w
  BY <1>4 DEF OnlyFlags
<1>6. CASE kind > Test
  <2>1. m.regs.flags = r.flags /\ (Plain(p, b) => OperandIn(m, s, p, b) = x)
    BY <1>2, <1>3, <1>4, <1>6, FlaggedWrite
  <2>. QED  BY <1>1, <1>2, <1>4, <2>1 DEF Flag, y
<1>7. CASE ~(kind > Test)
  <2>1. m.regs = r /\ m.mem = t.mem
    BY <1>3, <1>5, <1>7, WithRegTyped
  <2>2. OperandIn(m, s, p, b) = v
    BY <1>5, <2>1 DEF OperandIn, OnlyIp, Read16, Get16
  <2>3. kind <= Test
    BY <1>7 DEF Test, Reg
  <2>. QED  BY <1>1, <1>2, <1>4, <2>1, <2>2, <2>3 DEF Flag, y
<1>. QED  BY <1>6, <1>7

LEMMA BitScanExact ==
  ASSUME NEW s, IsMachine(s), NEW p \in PrefixState, NEW b \in Byte, NEW e,
         NEW v, v = Read16(s, p, b), NEW m, m = BitScan(e, s, p, b),
         NEW d, d = Get16(m.regs, ModRmReg(b))
  PROVE  /\ Flag(m.regs, ZeroFlag) = (v = 0)
         /\ v = 0 => d = Get16(s.regs, ModRmReg(b))
         /\ v # 0 /\ e = 188 => v % Power(d) = 0 /\ (v \div Power(d)) % 2 = 1
         /\ v # 0 /\ e # 188 => v \div Power(d) = 1
<1>. DEFINE t == AfterOperand(s, p, b)
            B == Bits(v)
            found == IF e = 188 THEN Lowest(B) ELSE Highest(B)
            i == ModRmReg(b)
<1>1. v \in Word /\ i \in Reg /\ (B = {} <=> v = 0)
  BY ReadsTyped, FieldsTyped, NoBits
<1>2. IsMachine(t) /\ t.regs \in Regs /\ OnlyIp(s, t)
  BY EaTyped, Parts, OperandKeeps
<1>3. m = IF B = {} THEN WithReg(t, SetFlag(t.regs, ZeroFlag, TRUE))
          ELSE WithReg(t, SetFlag(Set16(t.regs, i, found), ZeroFlag, FALSE))
  BY Zenon DEF BitScan
<1>. HIDE DEF t, B, found, i
<1>4. \A r \in Regs : \A on :
        /\ SetFlag(r, ZeroFlag, on) \in Regs /\ SetFlag(r, ZeroFlag, on).w = r.w
        /\ Flag(SetFlag(r, ZeroFlag, on), ZeroFlag) <=> on
  <2>. TAKE r \in Regs
  <2>. TAKE on
  <2>1. OnlyFlags(r, SetFlag(r, ZeroFlag, on))
    BY SameIpStart, SetFlagOnly, FlagNames
  <2>. QED  BY <2>1, FlagNames, FlagSet DEF OnlyFlags
<1>5. \A r : Flag(r, ZeroFlag) \in BOOLEAN
  BY DEF Flag
<1>6. CASE v = 0
  <2>. DEFINE r == SetFlag(t.regs, ZeroFlag, TRUE)
  <2>1. m = WithReg(t, r)
    BY <1>1, <1>3, <1>6
  <2>2. r \in Regs /\ r.w = t.regs.w /\ Flag(r, ZeroFlag)
    BY <1>2, <1>4
  <2>. HIDE DEF r
  <2>3. m.regs = r
    BY <1>2, <2>1, <2>2, WithRegTyped
  <2>. QED  BY <1>2, <1>5, <1>6, <2>2, <2>3 DEF OnlyIp, Get16, i
<1>7. CASE v # 0
  <2>. DEFINE u == Set16(t.regs, i, found)
              r == SetFlag(u, ZeroFlag, FALSE)
  <2>1. m = WithReg(t, r)
    BY <1>1, <1>3, <1>7
  <2>2. /\ found \in Position
        /\ e = 188 => v % Power(found) = 0 /\ (v \div Power(found)) % 2 = 1
        /\ e # 188 => v \div Power(found) = 1
    BY <1>1, <1>7, Scanned DEF found, B, Power, Above
  <2>3. found \in Word
    BY <2>2, WordRange DEF Position
  <2>4. u \in Regs /\ Get16(u, i) = found
    BY <1>1, <1>2, <2>3, Set16Regs, WideGets, ZeroIsWord
  <2>. HIDE DEF u
  <2>5. r \in Regs /\ r.w = u.w /\ ~Flag(r, ZeroFlag)
    BY <1>4, <2>4
  <2>. HIDE DEF r
  <2>6. m.regs = r
    BY <1>2, <2>1, <2>5, WithRegTyped
  <2>7. d = found /\ Flag(m.regs, ZeroFlag) = FALSE
    BY <1>5, <2>4, <2>5, <2>6 DEF Get16, i
  <2>. QED  BY <1>7, <2>2, <2>7
<1>. QED  BY <1>6, <1>7

\* BT, BTS, BTR and BTC report one bit and change that one alone; BSF and BSR
\* find the lowest and the highest one bit (cpu/interp/extended.rs).
THEOREM BitsTheorem == Spec => []BitsExact
<1>1. InstructionInv => BitsExact
  <2>. SUFFICES ASSUME InstructionInv, Done, Escaping,
                       Second \in {163, 171, 179, 186, 187} \cup {188, 189}
                PROVE  BitsExact
    BY ZenonT(90) DEF BitsExact, Executing
  <2>1. Second \in WithModRm /\ prefix \in PrefixState
    BY DEF WithModRm, InstructionInv
  <2>2. /\ machine = Escaped(Second, Rest, prefix, ModRm)
        /\ IsMachine(Rest) /\ ModRm \in Byte /\ Second \in Byte
        /\ Field \in Reg /\ OnlyIp(before, Rest)
    BY <2>1, EscapedDone
  <2>3. AtOperand = Rest
    BY DEF AtOperand, Escaping, ShiftByImm
  <2>4. Operand16 = Read16(Rest, prefix, ModRm) /\ Operand16 \in Word
    BY <2>1, <2>2, <2>3, ReadsTyped DEF Operand16
  <2>5. Source = Get16(Rest.regs, Field) /\ Source \in Word
    <3>1. Rest.regs \in Regs
      BY <2>2, Parts
    <3>. QED  BY <2>2, <3>1, Get16Word DEF Source, OnlyIp, Get16
  <2>6. CASE Second \in {163, 171, 179, 186, 187}
    <3>. DEFINE v == Operand16
                old == (v \div Power(BitIndex)) % 2
                new == CASE BitKind = 5 -> 1 [] BitKind = 6 -> 0
                         [] BitKind = 7 -> 1 - old [] OTHER -> old
                after == AfterOperand(Rest, prefix, ModRm)
                t == IF Second = 186 THEN Skip(after) ELSE after
    <3>1. BitKind \in Reg
      BY <2>2, FieldsTyped DEF BitKind
    <3>2. IsMachine(after) /\ OnlyIp(Rest, after)
      BY <2>1, <2>2, EaTyped, OperandKeeps
    <3>3. IsMachine(t) /\ OnlyIp(Rest, t)
      BY <3>2, SkipTyped, SkipKeeps
    <3>4. BitIndex \in Position
      <4>1. Imm8(after) \in Nat /\ Source \in Nat
        BY <2>5, <3>2, FetchTyped, ByteRange, WordRange
      <4>2. \A x \in Nat : x % 16 \in Position
        BY SMT DEF Position
      <4>. QED  BY <4>1, <4>2 DEF BitIndex
    <3>5. machine = BitOp(t, prefix, ModRm, BitKind, v, BitIndex)
      <4>1. CASE Second = 186
        <5>1. machine = BitOpImm(Rest, prefix, ModRm)
          BY <2>2, <4>1 DEF Escaped
        <5>. QED  BY <2>4, <4>1, <5>1 DEF BitOpImm, BitIndex, BitKind
      <4>2. CASE Second # 186
        <5>1. machine = BitOpReg(Second, Rest, prefix, ModRm)
          BY <2>2, <2>6, <4>2 DEF Escaped
        <5>. QED
          BY <2>4, <2>5, <4>2, <5>1 DEF BitOpReg, BitIndex, BitKind, Field
      <4>. QED  BY <4>1, <4>2
    <3>6. old = Bit(v, BitIndex)
      BY DEF Bit, Above, Power
    <3>. HIDE DEF t, after
    <3>7. /\ Flag(machine.regs, CarryFlag) = (old = 1)
          /\ Plain(prefix, ModRm) =>
               OperandIn(machine, Rest, prefix, ModRm)
                 = v + (new - old) * BitValue[BitIndex + 1]
      <4>1. PICK i, k : i = BitIndex /\ k = BitKind
        OBVIOUS
      <4>2. PICK x, y : x = old /\ y = new
        OBVIOUS
      <4>3. y = CASE k = 5 -> 1 [] k = 6 -> 0 [] k = 7 -> 1 - x [] OTHER -> x
        BY <4>1, <4>2
      <4>4. x = Bit(v, i) /\ machine = BitOp(t, prefix, ModRm, k, v, i)
        BY <3>5, <3>6, <4>1, <4>2
      <4>. HIDE DEF v, old, new
      <4>5. v = Read16(Rest, prefix, ModRm)
        BY <2>4 DEF v
      <4>6. /\ Flag(machine.regs, CarryFlag) = (x = 1)
            /\ Plain(prefix, ModRm) =>
                 OperandIn(machine, Rest, prefix, ModRm)
                   = v + (y - x) * BitValue[i + 1]
        BY <2>1, <2>2, <3>1, <3>3, <3>4, <4>1, <4>3, <4>4, <4>5, BitOpExact
      <4>. QED  BY <4>1, <4>2, <4>6, Zenon
    <3>8. After16 = OperandIn(machine, Rest, prefix, ModRm)
      BY DEF After16, OperandIn, Place
    <3>9. InPlace => Plain(prefix, ModRm)
      BY DEF InPlace, Plain
    <3>10. Second \notin {188, 189}
      BY <2>6
    <3>. QED
      BY <3>7, <3>8, <3>9, <3>10, Zenon DEF BitsExact, Executing, Carry, Power
  <2>7. CASE Second \in {188, 189}
    <3>1. machine = BitScan(Second, Rest, prefix, ModRm)
      BY <2>2, <2>7 DEF Escaped
    <3>2. /\ Flag(machine.regs, ZeroFlag) = (Operand16 = 0)
          /\ Operand16 = 0 => Destination = Source
          /\ Operand16 # 0 /\ Second = 188 =>
               /\ Operand16 % Power(Destination) = 0
               /\ (Operand16 \div Power(Destination)) % 2 = 1
          /\ Operand16 # 0 /\ Second # 188 =>
               Operand16 \div Power(Destination) = 1
      <4>1. PICK v : v = Operand16
        OBVIOUS
      <4>2. PICK d : d = Destination
        OBVIOUS
      <4>3. v = Read16(Rest, prefix, ModRm) /\ d = Get16(machine.regs, ModRmReg(ModRm))
        BY <2>4, <4>1, <4>2 DEF Destination, Field
      <4>4. /\ Flag(machine.regs, ZeroFlag) = (v = 0)
            /\ v = 0 => d = Get16(Rest.regs, ModRmReg(ModRm))
            /\ v # 0 /\ Second = 188 =>
                 v % Power(d) = 0 /\ (v \div Power(d)) % 2 = 1
            /\ v # 0 /\ Second # 188 => v \div Power(d) = 1
        BY <2>1, <2>2, <3>1, <4>3, BitScanExact
      <4>. QED  BY <2>5, <4>1, <4>2, <4>4, ZenonT(90) DEF Field
    <3>3. Second \notin {163, 171, 179, 186, 187} /\ (Second = 189 => Second # 188)
      BY <2>7
    <3>. QED  BY <3>2, <3>3, ZenonT(90) DEF BitsExact, Executing
  <2>. QED  BY <2>6, <2>7
<1>. QED  BY <1>1, InstructionAlways, PTL

-----------------------------------------------------------------------------
\* Double shifts: a word out of the middle of two.

LEMMA PowersOf ==
  /\ Power(0) = 1 /\ WordSize = 2 * Power(15)
  /\ \A i \in Position : Power(i) \in Nat \ {0}
  /\ \A i \in 0 .. 14 : Power(i + 1) = 2 * Power(i)
<1>1. \A i \in 0 .. 14 : i + 1 + 1 = i + 2
  OBVIOUS
<1>2. 0 + 1 = 1 /\ 15 + 1 = 16
  OBVIOUS
<1>3. \A i \in 0 .. 14 : Power(i + 1) = 2 * Power(i)
  BY <1>1, Powers, Zenon DEF Power
<1>. QED  BY <1>2, <1>3, Powers, Zenon DEF Power

LEMMA PowerSum ==
  ASSUME NEW a \in Position, NEW b \in Position, a + b \in Position
  PROVE  Power(a + b) = Power(a) * Power(b)
<1>. DEFINE Claim(i) == a + i \in Position => Power(a + i) = Power(a) * Power(i)
<1>1. a \in Int /\ \A i : i \in Position <=> i \in Int /\ 0 <= i /\ i <= 15
  BY DEF Position
<1>2. Claim(0)
  <2>1. a + 0 = a /\ \A x \in Nat : x * 1 = x
    BY <1>1
  <2>. QED  BY <2>1, PowersOf
<1>3. \A i \in Int : 0 <= i /\ i < 15 /\ Claim(i) => Claim(i + 1)
  <2>. SUFFICES ASSUME NEW i \in Int, 0 <= i, i < 15, Claim(i),
                       a + (i + 1) \in Position
                PROVE  Power(a + (i + 1)) = Power(a) * Power(i + 1)
    OBVIOUS
  <2>1. a + i \in 0 .. 14 /\ i \in 0 .. 14 /\ a + i \in Position /\ i \in Position
        /\ a + (i + 1) = (a + i) + 1
    BY <1>1
  <2>2. PICK f \in Nat, g \in Nat : f = Power(a) /\ g = Power(i)
    BY <2>1, PowersOf
  <2>3. Power((a + i) + 1) = 2 * Power(a + i) /\ Power(i + 1) = 2 * Power(i)
    BY <2>1, PowersOf
  <2>4. Power(a + i) = f * g
    BY <2>1, <2>2
  <2>5. 2 * (f * g) = f * (2 * g)
    BY Z3
  <2>. QED  BY <2>1, <2>2, <2>3, <2>4, <2>5, Zenon
<1>. HIDE DEF Claim
<1>4. Claim(1) /\ Claim(2) /\ Claim(3)
  BY <1>2, <1>3
<1>5. Claim(4) /\ Claim(5) /\ Claim(6)
  BY <1>3, <1>4
<1>6. Claim(7) /\ Claim(8) /\ Claim(9)
  BY <1>3, <1>5
<1>7. Claim(10) /\ Claim(11) /\ Claim(12)
  BY <1>3, <1>6
<1>8. Claim(13) /\ Claim(14) /\ Claim(15)
  BY <1>3, <1>7
<1>9. Claim(b)
  BY <1>2, <1>4, <1>5, <1>6, <1>7, <1>8 DEF Position
<1>. QED  BY <1>9 DEF Claim

LEMMA DivDiv ==
  ASSUME NEW n \in Nat \ {0}, NEW m \in Nat \ {0}, NEW x \in Nat
  PROVE  (x \div n) \div m = x \div (n * m)
<1>1. PICK q \in Nat, r \in 0 .. n - 1 : x = n * q + r /\ q = x \div n
  BY Quotient
<1>2. PICK k \in Nat, j \in 0 .. m - 1 : q = m * k + j /\ k = q \div m
  BY Quotient
<1>3. PICK w \in Nat : w = n * j + r /\ w < n * m
  BY DigitsBelow
<1>4. PICK g \in Nat \ {0} : g = n * m
  BY <1>3, Products
<1>5. n * (m * k + j) = (n * m) * k + n * j
  BY Z3
<1>6. x = g * k + w
  <2>1. PICK a \in Nat, y \in Nat : a = g * k /\ y = n * j
    BY Products
  <2>. QED  BY <1>1, <1>2, <1>3, <1>4, <1>5, <2>1
<1>7. (g * k + w) \div g = k
  BY <1>3, <1>4, DivShift
<1>. QED  BY <1>1, <1>2, <1>4, <1>6, <1>7, Zenon

\* The digits of base Power(n) below and above.
LEMMA LowerBit ==
  ASSUME NEW n \in Position, NEW i \in Position, i < n, NEW m \in Nat, NEW a \in Nat
  PROVE  ((Power(n) * m + a) \div Power(i)) % 2 = (a \div Power(i)) % 2
<1>1. PICK j \in 0 .. 14 : n = i + (j + 1) /\ j \in Position /\ j + 1 \in Position
  <2>1. n - i - 1 \in 0 .. 14 /\ n = i + ((n - i - 1) + 1)
        /\ n - i - 1 \in Position /\ (n - i - 1) + 1 \in Position
    BY DEF Position
  <2>. QED  BY <2>1
<1>2. PICK f \in Nat \ {0}, g \in Nat : f = Power(i) /\ g = Power(j)
  BY <1>1, PowersOf
<1>3. Power(n) = f * (2 * g)
  <2>1. Power(i + (j + 1)) = Power(i) * Power(j + 1) /\ Power(j + 1) = 2 * Power(j)
    BY <1>1, PowersOf, PowerSum
  <2>. QED  BY <1>1, <1>2, <2>1, Zenon
<1>4. PICK y \in Nat : y = g * m
  BY Products
<1>5. (f * (2 * g)) * m = f * (2 * (g * m))
  BY Z3
<1>6. PICK s \in Nat, u \in 0 .. f - 1 : a = f * s + u /\ s = a \div f
  BY Quotient
<1>7. f * (2 * y + s) = f * (2 * y) + f * s
  BY Z3
<1>8. Power(n) * m + a = f * (2 * y + s) + u
  <2>1. PICK b \in Nat, c \in Nat : b = f * (2 * y) /\ c = f * s
    <3>1. 2 * y \in Nat
      OBVIOUS
    <3>. QED  BY <3>1, Products
  <2>2. Power(n) * m = b
    BY <1>3, <1>4, <1>5, <2>1, Zenon
  <2>. QED  BY <1>6, <1>7, <2>1, <2>2
<1>9. (f * (2 * y + s) + u) \div f = 2 * y + s
  <2>1. 2 * y + s \in Int
    OBVIOUS
  <2>. QED  BY <2>1, DivShift
<1>10. (2 * y + s) % 2 = s % 2
  BY SMT
<1>. QED  BY <1>2, <1>6, <1>8, <1>9, <1>10, Zenon

LEMMA UpperBit ==
  ASSUME NEW n \in Position, NEW j \in Position, n + j \in Position,
         NEW m \in Nat, NEW a \in 0 .. Power(n) - 1
  PROVE  (Power(n) * m + a) \div Power(n + j) = m \div Power(j)
<1>1. PICK f \in Nat \ {0}, g \in Nat \ {0} : f = Power(n) /\ g = Power(j)
  BY PowersOf
<1>2. Power(n + j) = f * g
  BY <1>1, PowerSum
<1>3. PICK x \in Nat : x = f * m + a
  <2>1. f * m \in Nat /\ a \in Nat
    BY Products, <1>1
  <2>. QED  BY <2>1
<1>4. x \div f = m
  BY <1>1, <1>3, DivShift
<1>5. (x \div f) \div g = x \div (f * g)
  BY DivDiv
<1>. QED  BY <1>1, <1>2, <1>3, <1>4, <1>5, Zenon

\* Sixteen bits from bit k on of the pair of words, hi above lo.
LEMMA Extracted ==
  ASSUME NEW lo \in Word, NEW hi \in Word, NEW k \in 1 .. 15
  PROVE  /\ FromBits({i \in Position : i + k \in Pair(lo, hi)})
              = lo \div Power(k) + Wrap16(hi * Power(16 - k))
         /\ FromBits({i \in Position : i + k \in Pair(lo, hi)}) \in Word
<1>. DEFINE S == {i \in Position : i + k \in Pair(lo, hi)}
<1>1. PICK n \in 1 .. 15 : n = 16 - k /\ k = 16 - n
  OBVIOUS
<1>2. k \in Position /\ n \in Position /\ lo \in Nat /\ hi \in Nat
  BY WordRange DEF Position
<1>3. PICK f \in Nat \ {0}, g \in Nat \ {0} : f = Power(k) /\ g = Power(n)
  BY <1>2, PowersOf
<1>4. f * g = WordSize /\ g * f = WordSize
  <2>1. PICK j \in 0 .. 14 : n = j + 1 /\ k + j = 15
    BY <1>1
  <2>2. j \in Position /\ k + j \in Position
    BY <2>1 DEF Position
  <2>3. PICK h \in Nat : h = Power(j)
    BY <2>2, PowersOf
  <2>4. Power(15) = f * h
    BY <1>2, <1>3, <2>1, <2>2, <2>3, PowerSum
  <2>5. g = 2 * h
    BY <1>3, <2>1, <2>3, PowersOf
  <2>6. f * (2 * h) = 2 * (f * h) /\ f * g = g * f
    BY Z3
  <2>. QED  BY <2>4, <2>5, <2>6, PowersOf, Zenon
<1>5. PICK a \in Nat : a = lo \div f /\ a < g
  <2>1. PICK q \in Nat, r \in 0 .. f - 1 : lo = f * q + r /\ q = lo \div f
    BY <1>2, Quotient
  <2>2. lo < WordSize
    BY WordRange, WordSizeNat
  <2>3. ~(g <= q)
    <3>. SUFFICES ASSUME g <= q  PROVE FALSE
      OBVIOUS
    <3>1. f * g <= f * q
      BY Monotone
    <3>2. PICK x \in Nat : x = f * q
      BY Products
    <3>. QED  BY <1>2, <1>4, <2>1, <2>2, <3>1, <3>2, WordSizeNat
  <2>. QED  BY <2>1, <2>3
<1>6. PICK m \in 0 .. f - 1, h \in Nat : hi = f * h + m
  BY ZenonT(90), <1>2, Quotient
<1>7. Wrap16(hi * g) = g * m
  <2>1. (f * h + m) * g = (g * f) * h + g * m
    BY Z3
  <2>2. PICK x \in Nat : x = g * m
    BY Products
  <2>3. g * m + 0 \in Nat /\ g * m + 0 < g * f
    BY DigitsBelow
  <2>4. x \in 0 .. WordSize - 1
    BY <1>4, <2>2, <2>3, WordSizeNat
  <2>5. (WordSize * h + x) % WordSize = x
    BY <2>4, WordSizeNat, ModShift
  <2>. QED  BY <1>4, <1>6, <2>1, <2>2, <2>5, Zenon DEF Wrap16
<1>8. PICK x \in Nat : x = g * m + a /\ x < WordSize
  <2>1. g * m + a \in Nat /\ g * m + a < g * f
    BY <1>5, DigitsBelow
  <2>. QED  BY <1>4, <2>1
<1>9. x \in Word
  BY <1>8, WordSizeNat DEF Word
<1>10. ASSUME NEW i \in Position, i < n
       PROVE  Bit(x, i) = Bit(lo, i + k) /\ i + k \in Position
  <2>1. i + k \in Position /\ k + i = i + k
    BY <1>1, <1>10 DEF Position
  <2>2. ((g * m + a) \div Power(i)) % 2 = (a \div Power(i)) % 2
    <3>1. m \in Nat
      OBVIOUS
    <3>. QED  BY <1>2, <1>3, <1>5, <1>10, <3>1, LowerBit
  <2>3. (lo \div f) \div Power(i) = lo \div (f * Power(i))
    BY <1>2, PowersOf, DivDiv
  <2>4. Power(k + i) = f * Power(i)
    BY <1>2, <1>3, <2>1, PowerSum
  <2>. QED
    BY <1>5, <1>8, <2>1, <2>2, <2>3, <2>4, Zenon DEF Bit, Above, Power
<1>11. ASSUME NEW i \in Position, i >= n
       PROVE  Bit(x, i) = Bit(hi, i - n) /\ i - n \in Position
  <2>1. PICK j \in Position : j = i - n /\ i = n + j /\ j < k
    <3>1. i - n \in Position /\ i = n + (i - n) /\ i - n < k
      BY <1>1, <1>11 DEF Position
    <3>. QED  BY <3>1
  <2>2. (g * m + a) \div Power(n + j) = m \div Power(j)
    <3>1. m \in Nat /\ a \in 0 .. Power(n) - 1
      BY <1>3, <1>5
    <3>. QED  BY <1>2, <1>3, <2>1, <3>1, UpperBit
  <2>3. ((f * h + m) \div Power(j)) % 2 = (m \div Power(j)) % 2
    <3>1. m \in Nat
      OBVIOUS
    <3>. QED  BY <1>2, <1>3, <2>1, <3>1, LowerBit
  <2>. QED
    BY <1>6, <1>8, <2>1, <2>2, <2>3, Zenon DEF Bit, Above, Power
<1>12. ASSUME NEW i \in Position  PROVE i \in Bits(x) <=> i \in S
  <2>1. i \in Bits(x) <=> Bit(x, i) = 1
    BY BitInSet
  <2>2. i \in S <=> \/ i + k \in Bits(lo)
                    \/ \E j \in Bits(hi) : i + k = j + 16
    BY DEF Pair
  <2>3. \A j \in Bits(lo) \cup Bits(hi) : j \in Int /\ 0 <= j /\ j <= 15
    BY DEF Bits, Position
  <2>4. CASE i < n
    <3>1. ~\E j \in Bits(hi) : i + k = j + 16
      BY <1>1, <2>3, <2>4 DEF Position
    <3>. QED  BY <1>10, <2>1, <2>2, <2>4, <3>1, BitInSet
  <2>5. CASE i >= n
    <3>1. i + k \notin Bits(lo)
      BY <1>1, <2>3, <2>5 DEF Position
    <3>2. (\E j \in Bits(hi) : i + k = j + 16) <=> i - n \in Bits(hi)
      BY <1>1, <2>3, <2>5 DEF Position
    <3>. QED  BY <1>11, <2>1, <2>2, <2>5, <3>1, <3>2, BitInSet
  <2>6. i < n \/ i >= n
    BY <1>1 DEF Position
  <2>. QED  BY <2>4, <2>5, <2>6
<1>13. Bits(x) = S
  BY <1>12, BitsPositions
<1>14. FromBits(S) = x
  BY <1>9, <1>13, BitsOf
<1>15. x = lo \div f + Wrap16(hi * g)
  BY <1>5, <1>7, <1>8
<1>. QED  BY <1>1, <1>3, <1>9, <1>14, <1>15, Zenon

LEMMA ResultKeepsCarry ==
  ASSUME NEW r \in Regs, NEW v, NEW n
  PROVE  Flag(ResultFlags(r, v, n), CarryFlag) <=> Flag(r, CarryFlag)
<1>. DEFINE r1 == SetFlag(r, ZeroFlag, v = 0)
            r2 == SetFlag(r1, SignFlag, Negative(v, n))
            r3 == SetFlag(r2, ParityFlag, EvenParity(v))
<1>1. /\ CarryFlag \in Flags /\ ParityFlag \in Flags
      /\ ZeroFlag \in Flags /\ SignFlag \in Flags
      /\ CarryFlag \notin {ZeroFlag, SignFlag, ParityFlag}
  BY DEF Flags, CarryFlag, ZeroFlag, SignFlag, ParityFlag
<1>2. ResultFlags(r, v, n) = r3
  BY DEF ResultFlags
<1>3. r1 \in Regs /\ (Flag(r1, CarryFlag) <=> Flag(r, CarryFlag))
  BY <1>1, SetFlagRegs, FlagSet
<1>. HIDE DEF r1
<1>4. r2 \in Regs /\ (Flag(r2, CarryFlag) <=> Flag(r1, CarryFlag))
  BY <1>1, <1>3, SetFlagRegs, FlagSet
<1>. HIDE DEF r2
<1>5. Flag(r3, CarryFlag) <=> Flag(r2, CarryFlag)
  BY <1>1, <1>4, FlagSet
<1>. QED  BY <1>2, <1>3, <1>4, <1>5

\* What a double shift by c leaves in its operand, and the last bit it moves
\* out of it.
LEMMA ShiftValues ==
  ASSUME NEW v \in Word, NEW source \in Word, NEW c \in 1 .. 15
  PROVE  /\ ShiftedLeft(v, source, c) \in Word
         /\ ShiftedLeft(v, source, c)
              = Wrap16(v * Power(c)) + source \div Power(16 - c)
         /\ ShiftedRight(v, source, c) \in Word
         /\ ShiftedRight(v, source, c)
              = v \div Power(c) + Wrap16(source * Power(16 - c))
         /\ LeftCarry(v, c) <=> (v \div Power(16 - c)) % 2 = 1
         /\ RightCarry(v, c) <=> (v \div Power(c - 1)) % 2 = 1
<1>1. PICK k \in 1 .. 15 : k = 16 - c /\ c = 16 - k
  OBVIOUS
<1>2. ShiftedLeft(v, source, c) = FromBits({i \in Position : i + k \in Pair(source, v)})
  <2>1. \A i \in Position : i + 16 - c = i + k
    BY <1>1 DEF Position
  <2>2. {i \in Position : i + 16 - c \in Pair(source, v)}
          = {i \in Position : i + k \in Pair(source, v)}
    BY <2>1
  <2>. QED  BY <2>2, Zenon DEF ShiftedLeft
<1>3. /\ ShiftedLeft(v, source, c) = source \div Power(k) + Wrap16(v * Power(16 - k))
      /\ ShiftedLeft(v, source, c) \in Word
  BY ZenonT(90), <1>2, Extracted
<1>4. /\ ShiftedRight(v, source, c) = v \div Power(c) + Wrap16(source * Power(16 - c))
      /\ ShiftedRight(v, source, c) \in Word
  BY Extracted DEF ShiftedRight
<1>5. source \div Power(k) + Wrap16(v * Power(c)) = Wrap16(v * Power(c)) + source \div Power(k)
  <2>1. PICK f \in Nat \ {0}, g \in Nat \ {0} : f = Power(k) /\ g = Power(c)
    <3>1. k \in Position /\ c \in Position
      BY DEF Position
    <3>. QED  BY <3>1, PowersOf
  <2>2. source \in Nat /\ v \in Nat
    BY WordRange
  <2>3. source \div f \in Int /\ Wrap16(v * g) \in Int
    <3>1. v * g \in Int
      BY <2>2
    <3>. QED  BY <2>2, <3>1, DivMod, WrapInWord, WordRange
  <2>. QED  BY <2>1, <2>3
<1>6. LeftCarry(v, c) <=> (v \div Power(k)) % 2 = 1
  <2>1. (16 - c) % 16 = k /\ k \in Position
    BY <1>1 DEF Position
  <2>. QED  BY <2>1, Zenon DEF LeftCarry, Bits, Power
<1>7. RightCarry(v, c) <=> (v \div Power(c - 1)) % 2 = 1
  <2>1. (c - 1) % 16 = c - 1 /\ c - 1 \in Position
    BY DEF Position
  <2>. QED  BY <2>1, Zenon DEF RightCarry, Bits, Power
<1>. QED  BY <1>1, <1>3, <1>4, <1>5, <1>6, <1>7, Zenon

LEMMA DoubleShiftExact ==
  ASSUME NEW s, IsMachine(s), NEW p \in PrefixState, NEW b \in Byte, NEW e,
         NEW m, m = DoubleShift(e, s, p, b), NEW t, NEW c, NEW v,
         t = IF ShiftByImm(e) THEN Skip(s) ELSE s,
         c = (IF ShiftByImm(e) THEN Imm8(s) ELSE Get8(s.regs, CL)) % 32,
         v = Read16(t, p, b)
  PROVE  /\ c \in Nat
         /\ c = 0 => IsMachine(m) /\ OnlyIp(s, m)
         /\ c \in 1 .. 15 =>
              /\ Plain(p, b) =>
                   OperandIn(m, s, p, b) =
                     IF e \in LeftShifts
                     THEN ShiftedLeft(v, Get16(s.regs, ModRmReg(b)), c)
                     ELSE ShiftedRight(v, Get16(s.regs, ModRmReg(b)), c)
              /\ Flag(m.regs, CarryFlag) <=>
                   IF e \in LeftShifts THEN LeftCarry(v, c) ELSE RightCarry(v, c)
<1>. DEFINE source == Get16(s.regs, ModRmReg(b))
            after == AfterOperand(t, p, b)
            shifted == IF e \in LeftShifts THEN ShiftedLeft(v, source, c)
                                           ELSE ShiftedRight(v, source, c)
            carry == IF e \in LeftShifts THEN LeftCarry(v, c) ELSE RightCarry(v, c)
            q == SetFlag(after.regs, CarryFlag, carry)
            r == ResultFlags(q, shifted, WordSize)
<1>1. m = IF c = 0 THEN after ELSE Write16(WithReg(after, r), p, b, shifted)
  BY ZenonT(90) DEF DoubleShift
<1>2. IsMachine(t) /\ OnlyIp(s, t)
  BY SkipTyped, SkipKeeps DEF OnlyIp
<1>3. IsMachine(after) /\ OnlyIp(t, after)
  BY <1>2, EaTyped, OperandKeeps
<1>4. OnlyIp(s, after)
  BY <1>2, <1>3 DEF OnlyIp
<1>5. c \in Nat
  <2>1. Imm8(s) \in Nat /\ Get8(s.regs, CL) \in Nat
    <3>1. s.regs \in Regs /\ CL \in Reg
      BY Parts DEF CL, Reg
    <3>. QED  BY <3>1, FetchTyped, Get8Byte, ByteRange
  <2>2. \A x \in Nat : x % 32 \in Nat
    BY SMT
  <2>. QED  BY <2>1, <2>2
<1>6. v \in Word /\ source \in Word
  BY <1>2, ReadsTyped, FieldsTyped, Parts, Get16Word
<1>. HIDE DEF after, source
<1>7. ASSUME c \in 1 .. 15
      PROVE  /\ Plain(p, b) => OperandIn(m, s, p, b) = shifted
             /\ Flag(m.regs, CarryFlag) <=> carry
  <2>1. shifted \in Word
    BY <1>6, <1>7, ShiftValues
  <2>2. m = Write16(WithReg(after, r), p, b, shifted)
    BY <1>1, <1>7
  <2>. HIDE DEF shifted, carry
  <2>3. q \in Regs /\ OnlyFlags(after.regs, q) /\ (Flag(q, CarryFlag) <=> carry)
    BY <1>3, Parts, SameIpStart, SetFlagOnly, SetFlagRegs, FlagNames, FlagSet
  <2>. HIDE DEF q
  <2>4. OnlyFlags(after.regs, r) /\ (Flag(r, CarryFlag) <=> carry)
    <3>1. OnlyFlags(q, r)
      BY <2>3, FlagsOnly
    <3>. QED  BY <2>3, <3>1, OnlyFlagsTrans, ResultKeepsCarry
  <2>. HIDE DEF r
  <2>5. m.regs.flags = r.flags /\ (Plain(p, b) => OperandIn(m, s, p, b) = shifted)
    BY <1>3, <1>4, <2>1, <2>2, <2>4, FlaggedWrite
  <2>. QED  BY <2>4, <2>5 DEF Flag
<1>. QED  BY <1>1, <1>3, <1>4, <1>5, <1>7 DEF shifted, carry, source

\* A machine that differs from another in IP alone.
LEMMA IpAlone ==
  ASSUME NEW s, IsMachine(s), NEW t, IsMachine(t), OnlyIp(s, t)
  PROVE  t = [s EXCEPT !.regs = SetIp(s.regs, t.regs.ip)]
<1>1. t.regs = SetIp(s.regs, t.regs.ip)
  <2>1. s.regs \in Regs /\ t.regs \in Regs
    BY Parts
  <2>2. \A r \in Regs : r = [w |-> r.w, seg |-> r.seg, ip |-> r.ip, flags |-> r.flags]
    BY DEF Regs
  <2>. QED  BY <2>1, <2>2 DEF OnlyIp, SetIp
<1>2. t = [s EXCEPT !.regs = t.regs]
  BY DEF IsMachine, OnlyIp
<1>. QED  BY <1>1, <1>2, Zenon

\* SHLD and SHRD by 1 to 15 move the bits of the register in behind those of
\* the operand, the last one out is the carry, and a count of zero changes
\* nothing but IP (cpu/interp/extended.rs).
THEOREM DoubleShiftTheorem == Spec => []DoubleShiftsExact
<1>1. InstructionInv => DoubleShiftsExact
  <2>. SUFFICES ASSUME InstructionInv, Done, Escaping,
                       Second \in {164, 165, 172, 173}, Count < 16
                PROVE  DoubleShiftsExact
    BY DEF DoubleShiftsExact, Executing
  <2>1. Second \in WithModRm /\ prefix \in PrefixState
        /\ IsMachine(before) /\ IsMachine(machine)
    BY DEF WithModRm, InstructionInv
  <2>2. /\ machine = Escaped(Second, Rest, prefix, ModRm)
        /\ IsMachine(Rest) /\ ModRm \in Byte /\ Second \in Byte
        /\ Field \in Reg /\ OnlyIp(before, Rest)
    BY <2>1, EscapedDone
  <2>3. machine = DoubleShift(Second, Rest, prefix, ModRm)
    BY <2>2 DEF Escaped
  <2>. DEFINE t == IF ShiftByImm(Second) THEN Skip(Rest) ELSE Rest
  <2>4. AtOperand = t
    BY DEF AtOperand, Escaping
  <2>5. Source = Get16(Rest.regs, Field) /\ Get8(before.regs, CL) = Get8(Rest.regs, CL)
    BY <2>2 DEF Source, OnlyIp, Get16, Get8
  <2>6. PICK c : c = Count
    OBVIOUS
  <2>7. PICK v : v = Operand16
    OBVIOUS
  <2>8. v = Read16(t, prefix, ModRm)
    BY <2>4, <2>7 DEF Operand16
  <2>9. c = (IF ShiftByImm(Second) THEN Imm8(Rest) ELSE Get8(Rest.regs, CL)) % 32
    BY <2>5, <2>6, Zenon DEF Count
  <2>10. PICK u : u = t
    OBVIOUS
  <2>11. u = IF ShiftByImm(Second) THEN Skip(Rest) ELSE Rest
    BY <2>10
  <2>12. IsMachine(u)
    BY <2>2, <2>11, SkipTyped
  <2>. HIDE DEF t
  <2>13. v = Read16(u, prefix, ModRm)
    BY <2>8, <2>10
  <2>14. /\ c \in Nat
         /\ c = 0 => IsMachine(machine) /\ OnlyIp(Rest, machine)
         /\ c \in 1 .. 15 =>
              /\ Plain(prefix, ModRm) =>
                   OperandIn(machine, Rest, prefix, ModRm) =
                     IF Second \in LeftShifts
                     THEN ShiftedLeft(v, Get16(Rest.regs, ModRmReg(ModRm)), c)
                     ELSE ShiftedRight(v, Get16(Rest.regs, ModRmReg(ModRm)), c)
              /\ Flag(machine.regs, CarryFlag) <=>
                   IF Second \in LeftShifts THEN LeftCarry(v, c) ELSE RightCarry(v, c)
    BY <2>1, <2>2, <2>3, <2>9, <2>11, <2>13, DoubleShiftExact
  <2>15. v \in Word /\ Source \in Word
    <3>1. Rest.regs \in Regs
      BY <2>2, Parts
    <3>. QED  BY <2>1, <2>2, <2>5, <2>12, <2>13, <3>1, ReadsTyped, Get16Word
  <2>16. CASE c = 0
    <3>1. OnlyIp(before, machine)
      BY <2>2, <2>14, <2>16 DEF OnlyIp
    <3>2. machine = [before EXCEPT !.regs = SetIp(before.regs, machine.regs.ip)]
      BY <2>1, <3>1, IpAlone
    <3>3. Count = 0
      BY <2>6, <2>16
    <3>. QED  BY <3>2, <3>3, Zenon DEF DoubleShiftsExact
  <2>17. CASE c # 0
    <3>1. c \in 1 .. 15
      BY <2>6, <2>14, <2>17
    <3>2. /\ After16 = OperandIn(machine, Rest, prefix, ModRm)
          /\ InPlace => Plain(prefix, ModRm)
      BY DEF After16, OperandIn, Place, InPlace, Plain
    <3>3. /\ InPlace => After16 = IF Second \in LeftShifts
                                  THEN ShiftedLeft(v, Source, c)
                                  ELSE ShiftedRight(v, Source, c)
          /\ Flag(machine.regs, CarryFlag) <=>
               IF Second \in LeftShifts THEN LeftCarry(v, c) ELSE RightCarry(v, c)
      BY <2>5, <2>14, <3>1, <3>2 DEF Field
    <3>4. /\ ShiftedLeft(v, Source, c)
               = Wrap16(v * Power(c)) + Source \div Power(16 - c)
          /\ ShiftedRight(v, Source, c)
               = v \div Power(c) + Wrap16(Source * Power(16 - c))
          /\ LeftCarry(v, c) <=> (v \div Power(16 - c)) % 2 = 1
          /\ RightCarry(v, c) <=> (v \div Power(c - 1)) % 2 = 1
      <4>1. ShiftedLeft(v, Source, c) = Wrap16(v * Power(c)) + Source \div Power(16 - c)
        BY ONLY <2>15, <3>1, ShiftValues
      <4>2. ShiftedRight(v, Source, c) = v \div Power(c) + Wrap16(Source * Power(16 - c))
        BY ONLY <2>15, <3>1, ShiftValues
      <4>3. LeftCarry(v, c) <=> (v \div Power(16 - c)) % 2 = 1
        BY ONLY ZenonT(90), <2>15, <3>1, ShiftValues
      <4>4. RightCarry(v, c) <=> (v \div Power(c - 1)) % 2 = 1
        BY ONLY ZenonT(90), <2>15, <3>1, ShiftValues
      <4>. QED  BY <4>1, <4>2, <4>3, <4>4
    <3>5. Flag(machine.regs, CarryFlag) \in BOOLEAN
      BY DEF Flag
    <3>6. CASE Second \in LeftShifts
      <4>1. InPlace => After16 = Wrap16(v * Power(c)) + Source \div Power(16 - c)
        BY <3>3, <3>4, <3>6
      <4>2. Carry = ((v \div Power(16 - c)) % 2 = 1)
        BY <3>3, <3>4, <3>5, <3>6 DEF Carry
      <4>. QED
        BY <2>6, <2>7, <2>17, <3>6, <4>1, <4>2, Zenon DEF DoubleShiftsExact
    <3>7. CASE Second \notin LeftShifts
      <4>1. InPlace => After16 = v \div Power(c) + Wrap16(Source * Power(16 - c))
        BY <3>3, <3>4, <3>7
      <4>2. Carry = ((v \div Power(c - 1)) % 2 = 1)
        BY <3>3, <3>4, <3>5, <3>7 DEF Carry
      <4>. QED
        BY <2>6, <2>7, <2>17, <3>7, <4>1, <4>2, Zenon DEF DoubleShiftsExact
    <3>. QED  BY <3>6, <3>7
  <2>. QED  BY <2>16, <2>17
<1>. QED  BY <1>1, InstructionAlways, PTL

-----------------------------------------------------------------------------
\* Division, rounded towards zero.

\* A quotient and a remainder are known by what they make together.
LEMMA Quotients ==
  ASSUME NEW n \in Nat \ {0}, NEW q \in Int, NEW r \in 0 .. n - 1, NEW x \in Int,
         x = n * q + r
  PROVE  x \div n = q /\ x % n = r
  BY DivShift, ModShift

\* The two signs of the dividend and of the divisor.
LEMMA QuotExact ==
  ASSUME NEW a \in Int, NEW d \in Int, d # 0
  PROVE  /\ Divides(a, d, Quot(a, d), Rem(a, d))
         /\ Abs(Quot(a, d)) = Abs(a) \div Abs(d)
         /\ Quot(a, d) \in Int /\ Rem(a, d) \in Int
<1>1. PICK n \in Nat \ {0} : n = Abs(d)
  BY DEF Abs
<1>2. PICK u \in Nat : u = Abs(a)
  BY DEF Abs
<1>3. PICK q \in Nat, m \in 0 .. n - 1 : u = n * q + m /\ u \div n = q
  BY Quotient
<1>4. n * q \in Int
  BY <1>3
<1>5. d = n \/ d = -n
  BY <1>1 DEF Abs
<1>6. CASE a >= 0
  <2>1. u = a
    BY <1>2, <1>6 DEF Abs
  <2>2. Quot(a, d) = IF d < 0 THEN -q ELSE q
    BY <1>1, <1>3, <1>6, <2>1 DEF Quot
  <2>3. Quot(a, d) * d = n * q
    BY <1>3, <1>5, <2>2
  <2>4. Rem(a, d) = m
    BY <1>3, <1>4, <2>1, <2>3 DEF Rem
  <2>5. Abs(m) < Abs(d) /\ ~(m < 0)
    BY <1>1 DEF Abs
  <2>. QED
    BY <1>1, <1>2, <1>3, <1>4, <1>6, <2>1, <2>2, <2>3, <2>4, <2>5 DEF Divides, Abs
<1>7. CASE a < 0
  <2>1. u = -a
    BY <1>2, <1>7 DEF Abs
  <2>2. a + n - 1 = n * (-q) + (n - 1 - m)
    BY <1>3, <1>4, <2>1
  <2>3. (a + n - 1) \div n = -q
    <3>1. n - 1 - m \in 0 .. n - 1 /\ -q \in Int /\ a + n - 1 \in Int
      OBVIOUS
    <3>. QED  BY <2>2, <3>1, Quotients
  <2>4. Quot(a, d) = IF d < 0 THEN q ELSE -q
    BY <1>1, <1>7, <2>3 DEF Quot
  <2>5. Quot(a, d) * d = -(n * q)
    BY <1>3, <1>5, <2>4
  <2>6. Rem(a, d) = -m
    BY <1>3, <1>4, <2>1, <2>5 DEF Rem
  <2>7. Abs(-m) < Abs(d) /\ (-m = 0 \/ -m < 0)
    BY <1>1 DEF Abs
  <2>. QED
    BY <1>1, <1>2, <1>3, <1>4, <1>7, <2>1, <2>4, <2>5, <2>6, <2>7 DEF Divides, Abs
<1>. QED  BY <1>6, <1>7

LongSteps(c, d, high, hi, lo, r0, r1, x) ==
  /\ r0 = c * (high % d) + hi /\ r1 = c * (r0 % d) + lo
  /\ x = c * c * high + c * hi + lo

\* A long division by bytes: two digits of the quotient, one at a time, when
\* the high word leaves none.
LEMMA LongDivision ==
  ASSUME NEW c \in Nat \ {0}, NEW d \in Nat \ {0}, NEW high \in Nat,
         NEW hi \in 0 .. c - 1, NEW lo \in 0 .. c - 1,
         NEW r0, NEW r1, NEW x, LongSteps(c, d, high, hi, lo, r0, r1, x)
  PROVE  /\ r0 \in Nat /\ r1 \in Nat /\ x \in Nat
         /\ x \div d = c * c * (high \div d) + (c * (r0 \div d) + r1 \div d)
         /\ x % d = r1 % d
<1>. USE DEF LongSteps
<1>1. PICK q \in Nat, h \in 0 .. d - 1 :
        high = d * q + h /\ high % d = h /\ high \div d = q
  BY Quotient
<1>2. r0 \in Nat
  BY <1>1
<1>3. PICK q0 \in Nat, h0 \in 0 .. d - 1 :
        r0 = d * q0 + h0 /\ r0 % d = h0 /\ r0 \div d = q0
  BY <1>2, Quotient
<1>4. r1 \in Nat
  BY <1>3
<1>5. PICK q1 \in Nat, h1 \in 0 .. d - 1 :
        r1 = d * q1 + h1 /\ r1 % d = h1 /\ r1 \div d = q1
  BY <1>4, Quotient
<1>6. x \in Nat
  OBVIOUS
<1>7. PICK Q \in Nat : Q = c * c * q + (c * q0 + q1)
  OBVIOUS
<1>8. x = d * Q + h1
  <2>1. c * h + hi = d * q0 + h0 /\ c * h0 + lo = d * q1 + h1
    BY <1>1, <1>3, <1>5
  <2>2. x = c * c * (d * q + h) + c * hi + lo
    BY <1>1
  <2>3. c * c * (d * q + h) + c * hi + lo = d * (c * c * q) + c * (c * h + hi) + lo
    BY Z3
  <2>4. d * (c * c * q) + c * (d * q0 + h0) + lo
          = d * (c * c * q) + d * (c * q0) + (c * h0 + lo)
    BY Z3
  <2>5. d * (c * c * q) + d * (c * q0) + (d * q1 + h1) = d * Q + h1
    BY <1>7, Z3
  <2>. QED  BY <2>1, <2>2, <2>3, <2>4, <2>5
<1>9. x \div d = Q /\ x % d = h1
  BY <1>6, <1>7, <1>8, Quotients
<1>. QED  BY <1>1, <1>2, <1>3, <1>4, <1>5, <1>6, <1>7, <1>9

LEMMA NatDivides ==
  ASSUME NEW a \in Nat, NEW d \in Nat \ {0}
  PROVE  Divides(a, d, a \div d, a % d) /\ Abs(a) = a /\ Abs(d) = d
<1>1. PICK q \in Nat, m \in 0 .. d - 1 : a = d * q + m /\ a % d = m /\ a \div d = q
  BY Quotient
<1>2. d * q = q * d
  BY Products
<1>. QED  BY <1>1, <1>2 DEF Divides, Abs

\* DIV of DX:AX, when the quotient has room.
LEMMA DivUExact ==
  ASSUME NEW high \in Word, NEW low \in Word, NEW d \in Word, d # 0,
         NEW x, x = high * WordSize + low, x \div d < WordSize
  PROVE  DivU(high, low, d) = <<x \div d, x % d>> /\ x \in Nat
<1>1. PICK c \in Nat \ {0} : c = 256 /\ WordSize = c * c
  BY SMT DEF WordSize
<1>2. PICK hi \in 0 .. c - 1, lo \in 0 .. c - 1 :
        hi = Hi(low) /\ lo = Lo(low) /\ low = lo + c * hi
  <2>1. /\ Lo(low) \in Byte /\ Hi(low) \in Byte
        /\ Lo(low) + 256 * Hi(low) = low
    BY Halves
  <2>2. Lo(low) \in 0 .. c - 1 /\ Hi(low) \in 0 .. c - 1
    BY <1>1, <2>1, ByteRange
  <2>3. low = Lo(low) + c * Hi(low)
    BY <1>1, <2>1
  <2>. QED  BY ONLY <2>2, <2>3
<1>3. high \in Nat /\ low \in Nat /\ d \in Nat \ {0}
  BY WordInt
<1>. DEFINE r0 == c * (high % d) + hi
            r1 == c * (r0 % d) + lo
<1>4. DivU(high, low, d)
        = <<Wrap16(c * (r0 \div d) + r1 \div d), Wrap16(r1 % d)>>
  BY <1>1, <1>2 DEF DivU
<1>5. PICK s0, s1 : s0 = r0 /\ s1 = r1
  OBVIOUS
<1>6. s0 = c * (high % d) + hi /\ s1 = c * (s0 % d) + lo
  BY <1>5
<1>7. DivU(high, low, d)
        = <<Wrap16(c * (s0 \div d) + s1 \div d), Wrap16(s1 % d)>>
  BY <1>4, <1>5
<1>. HIDE DEF r0, r1
<1>8. x = c * c * high + c * hi + lo
  <2>1. x = high * (c * c) + (lo + c * hi)
    BY <1>1, <1>2
  <2>2. high * (c * c) = c * c * high
    BY <1>3, Z3
  <2>. QED  BY <1>3, <2>1, <2>2
<1>9. /\ s0 \in Nat /\ s1 \in Nat /\ x \in Nat
      /\ x \div d = c * c * (high \div d) + (c * (s0 \div d) + s1 \div d)
      /\ x % d = s1 % d
  <2>1. LongSteps(c, d, high, hi, lo, s0, s1, x)
    BY ONLY <1>6, <1>8 DEF LongSteps
  <2>. QED
    BY ONLY <1>3, <2>1, c \in Nat \ {0}, hi \in 0 .. c - 1, lo \in 0 .. c - 1,
            LongDivision
<1>10. PICK q \in Nat, q0 \in Nat, q1 \in Nat :
         q = high \div d /\ q0 = s0 \div d /\ q1 = s1 \div d
  BY <1>3, <1>9, Quotient
<1>11. PICK T \in Nat : T = c * q0 + q1
  OBVIOUS
<1>12. x \div d = c * c * q + T /\ DivU(high, low, d) = <<Wrap16(T), Wrap16(x % d)>>
  BY <1>7, <1>9, <1>10, <1>11
<1>13. q = 0
  <2>1. c * c \in Nat /\ (1 <= q => c * c * 1 <= c * c * q)
    BY Monotone
  <2>2. c * c * q + T < c * c
    BY <1>1, <1>12
  <2>3. c * c * q \in Nat
    BY Products
  <2>. QED  BY <2>1, <2>2, <2>3
<1>14. x \div d = T
  BY <1>12, <1>13
<1>15. T \in Word
  <2>1. T < WordSize
    BY <1>14
  <2>. QED  BY <2>1, WordSizeNat DEF Word
<1>16. x % d \in Word
  <2>1. x \in Int
    BY <1>9
  <2>2. x % d \in 0 .. d - 1
    BY ONLY <1>3, <2>1, ModBound
  <2>. QED  BY <1>3, <2>2, WordRange
<1>. QED  BY <1>9, <1>12, <1>14, <1>15, <1>16, WrapWord

\* The accumulators, once they are set.
LEMMA HalvesRead ==
  ASSUME NEW r \in Regs, NEW x \in Byte, NEW y \in Byte
  PROVE  /\ Get8(Set8(Set8(r, AL, x), AH, y), AL) = x
         /\ Get8(Set8(Set8(r, AL, x), AH, y), AH) = y
<1>1. AL # AH
  BY DEF AL, AH
<1>2. Set8(r, AL, x) \in Regs /\ Get8(Set8(r, AL, x), AL) = x
  BY AxDx, Set8Regs, Set8Get8
<1>. QED  BY <1>1, <1>2, AxDx, Set8Get8

LEMMA WideRead ==
  ASSUME NEW r \in Regs, NEW lo \in Word, NEW hi \in Word
  PROVE  /\ SetWide(r, lo, hi) \in Regs
         /\ Get16(SetWide(r, lo, hi), AX) = lo
         /\ Get16(SetWide(r, lo, hi), DX) = hi
<1>1. AX # DX
  BY DEF AX, DX
<1>2. Set16(r, AX, lo) \in Regs /\ Get16(Set16(r, AX, lo), AX) = lo
  BY AxDx, Set16Regs
<1>. QED  BY <1>1, <1>2, AxDx, Set16Regs DEF SetWide

\* A byte that holds a signed number.
LEMMA LowSigned ==
  ASSUME NEW x \in Int, -128 <= x, x < 128
  PROVE  Lo(x) \in Byte /\ Signed(Lo(x), 256) = x
<1>1. x % 256 = IF x < 0 THEN x + 256 ELSE x
  BY Z3
<1>. QED  BY <1>1, ByteRange DEF Lo, Signed, Negative

LEMMA ByteDivision ==
  ASSUME NEW r \in Regs, NEW v \in Byte, v # 0, NEW a, a = Get16(r, AX),
         a \div v < 256
  PROVE  Divides(a, v, Get8(DivRegs(r, v), AL), Get8(DivRegs(r, v), AH))
<1>1. a \in Nat /\ v \in Nat \ {0} /\ v <= 255
  <2>1. a \in Word
    BY AxDx, Get16Word
  <2>. QED  BY <2>1, WordInt, ByteRange
<1>2. PICK q \in Nat, m \in 0 .. v - 1 : q = a \div v /\ m = a % v
  BY <1>1, Quotient
<1>3. q \in Byte /\ m \in Byte /\ q \in 0 .. 256 - 1 /\ m \in 0 .. 256 - 1
  BY <1>1, <1>2, ByteRange
<1>4. Lo(q) = q /\ Lo(m) = m
  BY <1>3, SmallMod DEF Lo
<1>5. DivRegs(r, v) = Set8(Set8(r, AL, q), AH, m)
  BY <1>2, <1>4, Zenon DEF DivRegs
<1>6. Divides(a, v, q, m)
  BY <1>1, <1>2, NatDivides
<1>. QED  BY <1>3, <1>5, <1>6, HalvesRead

LEMMA ByteSignedDivision ==
  ASSUME NEW r \in Regs, NEW v \in Byte, v # 0,
         NEW a, a = Signed16(Get16(r, AX)), NEW d, d = SignExtend(v),
         Abs(a) \div Abs(d) < 128
  PROVE  Divides(a, d, Signed(Get8(IdivRegs(r, v), AL), 256),
                       Signed(Get8(IdivRegs(r, v), AH), 256))
<1>1. a \in Int /\ d \in Int /\ d # 0 /\ -128 <= d /\ d < 128
  <2>1. Get16(r, AX) \in Word
    BY AxDx, Get16Word
  <2>. QED  BY <2>1, SignedInt, SignedByte, SignExtendNonZero
<1>2. PICK q \in Int, m \in Int :
        /\ q = Quot(a, d) /\ m = Rem(a, d)
        /\ Divides(a, d, q, m) /\ Abs(q) = Abs(a) \div Abs(d)
  BY ZenonT(90), <1>1, QuotExact
<1>3. -128 <= q /\ q < 128
  BY <1>2 DEF Abs
<1>4. -128 <= m /\ m < 128
  BY <1>1, <1>2 DEF Divides, Abs
<1>5. IdivRegs(r, v) = Set8(Set8(r, AL, Lo(q)), AH, Lo(m))
  BY <1>2, Zenon DEF IdivRegs
<1>6. /\ Lo(q) \in Byte /\ Signed(Lo(q), 256) = q
      /\ Lo(m) \in Byte /\ Signed(Lo(m), 256) = m
  BY <1>3, <1>4, LowSigned
<1>. QED  BY <1>2, <1>5, <1>6, HalvesRead

LEMMA WordDivision ==
  ASSUME NEW r \in Regs, NEW v \in Word, v # 0,
         NEW a, a = Get16(r, DX) * WordSize + Get16(r, AX), a \div v < WordSize
  PROVE  /\ Divides(a, v, Get16(DivRegs16(r, v), AX), Get16(DivRegs16(r, v), DX))
         /\ a \in Nat
<1>1. Get16(r, AX) \in Word /\ Get16(r, DX) \in Word /\ v \in Nat \ {0}
  BY AxDx, Get16Word, WordInt
<1>2. PICK x : x = DivU(Get16(r, DX), Get16(r, AX), v)
  OBVIOUS
<1>3. x = <<a \div v, a % v>> /\ a \in Nat
  <2>1. PICK high \in Word, low \in Word : high = Get16(r, DX) /\ low = Get16(r, AX)
    BY <1>1
  <2>2. a = high * WordSize + low /\ x = DivU(high, low, v)
    BY <1>2, <2>1
  <2>. QED  BY ONLY <2>2, v \in Word, v # 0, a \div v < WordSize,
                    high \in Word, low \in Word, DivUExact
<1>4. x[1] \in Word /\ x[2] \in Word
  BY <1>1, <1>2, DivUWords
<1>5. DivRegs16(r, v) = SetWide(r, x[1], x[2])
  BY <1>2, Zenon DEF DivRegs16
<1>6. x[1] = a \div v /\ x[2] = a % v
  BY <1>3
<1>. QED  BY <1>1, <1>3, <1>4, <1>5, <1>6, WideRead, NatDivides

LEMMA WordSignedDivision ==
  ASSUME NEW r \in Regs, NEW v \in Word, v # 0,
         NEW a \in Int, a = SignedDxAx(r), NEW d, d = Signed16(v),
         Abs(a) \div Abs(d) < 32768
  PROVE  Divides(a, d, Signed(Get16(IdivRegs16(r, v), AX), WordSize),
                       Signed(Get16(IdivRegs16(r, v), DX), WordSize))
<1>1. d \in Int /\ d # 0 /\ -32768 <= d /\ d < 32768
  <2>1. Signed16(v) # 0
    BY WordRange, WordSizeNat DEF Signed16
  <2>. QED  BY <2>1, SignedWord
<1>2. PICK q \in Int, m \in Int :
        /\ q = Quot(a, d) /\ m = Rem(a, d)
        /\ Divides(a, d, q, m) /\ Abs(q) = Abs(a) \div Abs(d)
  <2>1. a \in Int /\ d \in Int /\ d # 0
    BY <1>1
  <2>. QED  BY ONLY <2>1, QuotExact
<1>3. -32768 <= q /\ q < 32768
  BY <1>2 DEF Abs
<1>4. -32768 <= m /\ m < 32768
  BY <1>1, <1>2 DEF Divides, Abs
<1>5. IdivRegs16(r, v) = SetWide(r, Wrap16(q), Wrap16(m))
  <2>1. q = Quot(SignedDxAx(r), Signed16(v)) /\ m = Rem(SignedDxAx(r), Signed16(v))
    BY ONLY <1>2, a = SignedDxAx(r), d = Signed16(v), Zenon
  <2>. QED  BY ONLY <2>1, Zenon DEF IdivRegs16
<1>6. /\ Wrap16(q) \in Word /\ Signed16(Wrap16(q)) = q
      /\ Wrap16(m) \in Word /\ Signed16(Wrap16(m)) = m
  BY <1>3, <1>4, WrapSigned
<1>7. /\ Signed(Wrap16(q), WordSize) = q
      /\ Signed(Wrap16(m), WordSize) = m
  BY <1>6, SignedWord
<1>. QED  BY <1>2, <1>5, <1>6, <1>7, WideRead

\* What DivisionExact asks of an opcode, a field and the value of its operand.
DivisionGood(old, new, op, field, v, res) ==
  LET bytes == op = 246
      n == IF bytes THEN 256 ELSE WordSize
      d == IF field = 6 THEN v ELSE Signed(v, n)
      wide == Signed16(Get16(old, DX)) * WordSize + Get16(old, AX)
      a == IF bytes
           THEN (IF field = 6 THEN Get16(old, AX) ELSE Signed16(Get16(old, AX)))
           ELSE wide
      asOne == \/ bytes
               \/ field = 6 /\ Get16(old, DX) < 32768
               \/ field = 7 /\ Get16(old, AX) < 32768
               \/ field = 7 /\ Get16(old, DX) = WordSize - 1
      room == Abs(a) \div Abs(d) < (IF field = 6 THEN n ELSE n \div 2)
      q == IF bytes THEN Get8(new, AL) ELSE Get16(new, AX)
      r == IF bytes THEN Get8(new, AH) ELSE Get16(new, DX)
  IN IF d = 0 THEN res = Interrupt(0)
     ELSE asOne /\ room =>
            IF field = 6 THEN Divides(a, d, q, r)
                         ELSE Divides(a, d, Signed(q, n), Signed(r, n))

LEMMA ByteDivisionGood ==
  ASSUME NEW old \in Regs, NEW r \in Regs, r.w = old.w, NEW v \in Byte,
         NEW new, v # 0 => new = DivRegs(r, v),
         NEW res, v = 0 => res = Interrupt(0)
  PROVE  DivisionGood(old, new, 246, 6, v, res)
<1>1. PICK a : a = Get16(old, AX)
  OBVIOUS
<1>2. a = Get16(r, AX) /\ a \in Nat
  BY <1>1, AxDx, Get16Word, WordInt DEF Get16
<1>3. DivisionGood(old, new, 246, 6, v, res) <=>
        IF v = 0 THEN res = Interrupt(0)
        ELSE Abs(a) \div Abs(v) < 256 => Divides(a, v, Get8(new, AL), Get8(new, AH))
  BY ONLY <1>1 DEF DivisionGood
<1>4. ASSUME v # 0, Abs(a) \div Abs(v) < 256
      PROVE  Divides(a, v, Get8(new, AL), Get8(new, AH))
  <2>1. v \in Nat \ {0}
    BY <1>4, ByteRange
  <2>2. a \div v < 256
    BY <1>2, <1>4, <2>1, NatDivides
  <2>. QED  BY <1>2, <1>4, <2>2, ByteDivision
<1>. QED  BY <1>3, <1>4

LEMMA ByteSignedDivisionGood ==
  ASSUME NEW old \in Regs, NEW r \in Regs, r.w = old.w, NEW v \in Byte,
         NEW new, v # 0 => new = IdivRegs(r, v),
         NEW res, v = 0 => res = Interrupt(0)
  PROVE  DivisionGood(old, new, 246, 7, v, res)
<1>1. PICK a : a = Signed16(Get16(old, AX))
  OBVIOUS
<1>2. a = Signed16(Get16(r, AX))
  BY <1>1 DEF Get16
<1>3. PICK d : d = Signed(v, 256)
  OBVIOUS
<1>4. DivisionGood(old, new, 246, 7, v, res) <=>
        IF d = 0 THEN res = Interrupt(0)
        ELSE Abs(a) \div Abs(d) < 256 \div 2 =>
               Divides(a, d, Signed(Get8(new, AL), 256), Signed(Get8(new, AH), 256))
  BY ONLY <1>1, <1>3 DEF DivisionGood
<1>5. d = SignExtend(v) /\ (d = 0 <=> v = 0)
  BY <1>3, SignedByte, ByteRange DEF SignExtend
<1>6. 256 \div 2 = 128
  OBVIOUS
<1>7. ASSUME v # 0, Abs(a) \div Abs(d) < 128
      PROVE  Divides(a, d, Signed(Get8(new, AL), 256), Signed(Get8(new, AH), 256))
  BY <1>2, <1>5, <1>7, ByteSignedDivision
<1>. QED  BY <1>4, <1>5, <1>6, <1>7

\* A double word below 2^31 that is divided as one.
LEMMA WordDivisionGood ==
  ASSUME NEW old \in Regs, NEW r \in Regs, r.w = old.w, NEW v \in Word,
         NEW new, v # 0 => new = DivRegs16(r, v),
         NEW res, v = 0 => res = Interrupt(0)
  PROVE  DivisionGood(old, new, 247, 6, v, res)
<1>1. PICK high \in Word, low \in Word : high = Get16(old, DX) /\ low = Get16(old, AX)
  BY AxDx, Get16Word
<1>2. high = Get16(r, DX) /\ low = Get16(r, AX)
  BY <1>1 DEF Get16
<1>3. PICK a : a = Signed16(high) * WordSize + low
  OBVIOUS
<1>4. DivisionGood(old, new, 247, 6, v, res) <=>
        IF v = 0 THEN res = Interrupt(0)
        ELSE high < 32768 /\ Abs(a) \div Abs(v) < WordSize =>
               Divides(a, v, Get16(new, AX), Get16(new, DX))
  BY ONLY <1>1, <1>3 DEF DivisionGood
<1>5. ASSUME v # 0, high < 32768, Abs(a) \div Abs(v) < WordSize
      PROVE  Divides(a, v, Get16(new, AX), Get16(new, DX))
  <2>1. a = high * WordSize + low
    BY <1>3, <1>5 DEF Signed16
  <2>2. high \in Nat /\ low \in Nat /\ WordSize \in Nat /\ v \in Nat \ {0}
    BY <1>5, WordInt, WordSizeNat
  <2>3. a \in Nat
    BY <2>1, <2>2, Products
  <2>4. a \div v < WordSize
    <3>1. Abs(a) = a /\ Abs(v) = v
      BY ONLY <2>2, <2>3, NatDivides
    <3>. QED  BY ONLY <1>5, <3>1
  <2>5. a = Get16(r, DX) * WordSize + Get16(r, AX)
    BY ONLY <1>2, <2>1, Zenon
  <2>6. Divides(a, v, Get16(DivRegs16(r, v), AX), Get16(DivRegs16(r, v), DX))
    BY ONLY r \in Regs, v \in Word, <1>5, <2>4, <2>5, WordDivision
  <2>. QED  BY <1>5, <2>6
<1>. QED  BY ONLY <1>4, <1>5, v = 0 => res = Interrupt(0)

LEMMA WordSignedDivisionGood ==
  ASSUME NEW old \in Regs, NEW r \in Regs, r.w = old.w, NEW v \in Word,
         NEW new, v # 0 => new = IdivRegs16(r, v),
         NEW res, v = 0 => res = Interrupt(0)
  PROVE  DivisionGood(old, new, 247, 7, v, res)
<1>1. PICK high \in Word, low \in Word : high = Get16(old, DX) /\ low = Get16(old, AX)
  BY AxDx, Get16Word
<1>2. high = Get16(r, DX) /\ low = Get16(r, AX)
  BY <1>1 DEF Get16
<1>3. PICK a : a = Signed16(high) * WordSize + low
  OBVIOUS
<1>4. PICK d : d = Signed(v, WordSize)
  OBVIOUS
<1>5. DivisionGood(old, new, 247, 7, v, res) <=>
        IF d = 0 THEN res = Interrupt(0)
        ELSE /\ low < 32768 \/ high = WordSize - 1
             /\ Abs(a) \div Abs(d) < WordSize \div 2
             => Divides(a, d, Signed(Get16(new, AX), WordSize),
                              Signed(Get16(new, DX), WordSize))
  BY ONLY <1>1, <1>3, <1>4 DEF DivisionGood
<1>6. d = Signed16(v) /\ (d = 0 <=> v = 0)
  <2>1. Signed16(v) = 0 <=> v = 0
    BY WordRange, WordSizeNat DEF Signed16
  <2>. QED  BY <1>4, <2>1, SignedWord
<1>7. WordSize \div 2 = 32768
  BY SMT DEF WordSize
<1>8. ASSUME low < 32768 \/ high = WordSize - 1
      PROVE  a = SignedDxAx(r) /\ a \in Int
  <2>1. /\ Signed16(high) \in Int /\ Signed16(low) \in Int
        /\ low \in Int /\ high \in Int /\ WordSize \in Int
    BY SignedInt, WordInt, WordSizeNat
  <2>2. SignedDxAx(r) = IF low < 32768 THEN Signed16(high) * WordSize + low
                                       ELSE Signed16(low)
    BY ONLY <1>2 DEF SignedDxAx
  <2>3. CASE low < 32768
    BY <1>3, <2>1, <2>2, <2>3
  <2>4. CASE ~(low < 32768)
    <3>1. Signed16(low) = low - WordSize
      BY <2>4 DEF Signed16
    <3>2. Signed16(high) = -1
      <4>1. high = WordSize - 1
        BY <1>8, <2>4
      <4>. QED  BY <4>1, Half DEF Signed16
    <3>. QED  BY <1>3, <2>1, <2>2, <2>4, <3>1, <3>2
  <2>. QED  BY <2>3, <2>4
<1>9. ASSUME v # 0, low < 32768 \/ high = WordSize - 1,
             Abs(a) \div Abs(d) < 32768
      PROVE  Divides(a, d, Signed(Get16(new, AX), WordSize),
                           Signed(Get16(new, DX), WordSize))
  <2>1. a = SignedDxAx(r) /\ a \in Int
    BY <1>8, <1>9
  <2>2. Divides(a, d, Signed(Get16(IdivRegs16(r, v), AX), WordSize),
                      Signed(Get16(IdivRegs16(r, v), DX), WordSize))
    BY ONLY r \in Regs, v \in Word, <1>6, <1>9, <2>1, WordSignedDivision
  <2>. QED  BY <1>9, <2>2
<1>. QED  BY ONLY <1>5, <1>6, <1>7, <1>9, v = 0 => res = Interrupt(0)

\* The instructions of group 3 that have no immediate, by their registers.
Behind == AfterOperand(Rest, prefix, ModRm).regs

LEMMA Group3Done ==
  ASSUME InstructionInv, Executing(FALSE, Group3Opcodes), Field \in 4 .. 7
  PROVE  /\ before.regs \in Regs /\ Behind \in Regs /\ Behind.w = before.regs.w
         /\ Operand8 \in Byte /\ Operand16 \in Word
         /\ \/ /\ opcode = 246
               /\ Field \in {6, 7} /\ Operand8 = 0 => result = Interrupt(0)
               /\ Field = 4 => machine.regs = MulRegs(Behind, Operand8)
               /\ Field = 5 => machine.regs = ImulRegs(Behind, Operand8)
               /\ Operand8 # 0 =>
                    /\ Field = 6 => machine.regs = DivRegs(Behind, Operand8)
                    /\ Field = 7 => machine.regs = IdivRegs(Behind, Operand8)
            \/ /\ opcode = 247
               /\ Field \in {6, 7} /\ Operand16 = 0 => result = Interrupt(0)
               /\ Field = 4 => machine.regs = MulRegs16(Behind, Operand16)
               /\ Field = 5 => machine.regs = ImulRegs16(Behind, Operand16)
               /\ Operand16 # 0 =>
                    /\ Field = 6 => machine.regs = DivRegs16(Behind, Operand16)
                    /\ Field = 7 => machine.regs = IdivRegs16(Behind, Operand16)
<1>1. /\ IsMachine(before) /\ prefix \in PrefixState /\ ModRm = Imm8(before)
      /\ Rest = Skip(before) /\ opcode \in {246, 247} /\ ~Escaping
      /\ machine = Execute(opcode, before, prefix).machine
      /\ result = Execute(opcode, before, prefix).result
  BY DEF InstructionInv, Executed, ModRm, Rest, AtModRm, Executing, Group3Opcodes
<1>2. /\ machine = Group3(opcode, before, prefix).machine
      /\ result = Group3(opcode, before, prefix).result
  BY <1>1 DEF Execute, Group1Opcodes, Group3Opcodes, FlowOpcodes
<1>3. AtOperand = Rest
  BY <1>1 DEF AtOperand
<1>4. IsMachine(Rest) /\ ModRm \in Byte /\ OnlyIp(before, Rest)
  BY <1>1, SkipTyped, FetchTyped, SkipKeeps
<1>. DEFINE after == AfterOperand(Rest, prefix, ModRm)
<1>5. IsMachine(after) /\ OnlyIp(Rest, after)
  BY <1>1, <1>4, EaTyped, OperandKeeps
<1>6. before.regs \in Regs /\ Behind \in Regs /\ Behind.w = before.regs.w
  BY <1>1, <1>4, <1>5, Parts DEF Behind, OnlyIp
<1>7. /\ Operand8 = Read8(Rest, prefix, ModRm) /\ Operand8 \in Byte
      /\ Operand16 = Read16(Rest, prefix, ModRm) /\ Operand16 \in Word
  BY <1>1, <1>3, <1>4, ReadsTyped DEF Operand8, Operand16
<1>8. Group3(opcode, before, prefix) =
        CASE Field < 2 ->
               Outcome(IF ByteOpcode(opcode) THEN TestByte(Rest, prefix, ModRm)
                       ELSE TestWord(Rest, prefix, ModRm), Continue)
          [] DividesByZero(opcode, Rest, prefix, ModRm) ->
               Outcome(after, Interrupt(0))
          [] OTHER ->
               Outcome(IF ByteOpcode(opcode) THEN Group3Byte(Rest, prefix, ModRm)
                       ELSE Group3Word(Rest, prefix, ModRm), Continue)
  BY <1>1 DEF Group3, Field
<1>9. \A x \in Regs : WithReg(after, x).regs = x
  BY <1>5, WithRegTyped
<1>. HIDE DEF after
<1>10. DividesByZero(opcode, Rest, prefix, ModRm) <=>
         Field \in {6, 7} /\ (IF opcode = 246 THEN Operand8 ELSE Operand16) = 0
  BY <1>1, <1>7 DEF DividesByZero, ByteOpcode, Field
<1>11. DividesByZero(opcode, Rest, prefix, ModRm) => result = Interrupt(0)
  BY <1>2, <1>8 DEF Outcome
<1>12. ~DividesByZero(opcode, Rest, prefix, ModRm) =>
         machine = IF opcode = 246 THEN Group3Byte(Rest, prefix, ModRm)
                                   ELSE Group3Word(Rest, prefix, ModRm)
  BY <1>1, <1>2, <1>8 DEF Outcome, ByteOpcode
<1>13. /\ Field = 4 => Group3Byte(Rest, prefix, ModRm)
                         = WithReg(after, MulRegs(Behind, Operand8))
       /\ Field = 5 => Group3Byte(Rest, prefix, ModRm)
                         = WithReg(after, ImulRegs(Behind, Operand8))
       /\ Field = 6 => Group3Byte(Rest, prefix, ModRm)
                         = WithReg(after, DivRegs(Behind, Operand8))
       /\ Field = 7 => Group3Byte(Rest, prefix, ModRm)
                         = WithReg(after, IdivRegs(Behind, Operand8))
  BY <1>7 DEF Group3Byte, Field, Behind, after
<1>14. /\ Field = 4 => Group3Word(Rest, prefix, ModRm)
                         = WithReg(after, MulRegs16(Behind, Operand16))
       /\ Field = 5 => Group3Word(Rest, prefix, ModRm)
                         = WithReg(after, ImulRegs16(Behind, Operand16))
       /\ Field = 6 => Group3Word(Rest, prefix, ModRm)
                         = WithReg(after, DivRegs16(Behind, Operand16))
       /\ Field = 7 => Group3Word(Rest, prefix, ModRm)
                         = WithReg(after, IdivRegs16(Behind, Operand16))
  BY <1>7 DEF Group3Word, Field, Behind, after
<1>15. CASE opcode = 246
  <2>1. /\ MulRegs(Behind, Operand8) \in Regs /\ ImulRegs(Behind, Operand8) \in Regs
        /\ Operand8 # 0 => /\ DivRegs(Behind, Operand8) \in Regs
                           /\ IdivRegs(Behind, Operand8) \in Regs
    BY <1>6, <1>7, ByteProducts, ByteQuotients
  <2>2. Field \in {4, 5} \/ Operand8 # 0 => machine = Group3Byte(Rest, prefix, ModRm)
    BY <1>10, <1>12, <1>15
  <2>3. /\ Field = 4 => machine.regs = MulRegs(Behind, Operand8)
        /\ Field = 5 => machine.regs = ImulRegs(Behind, Operand8)
        /\ Operand8 # 0 =>
             /\ Field = 6 => machine.regs = DivRegs(Behind, Operand8)
             /\ Field = 7 => machine.regs = IdivRegs(Behind, Operand8)
    BY <1>9, <1>13, <2>1, <2>2
  <2>. QED  BY <1>6, <1>7, <1>10, <1>11, <1>15, <2>3
<1>16. CASE opcode = 247
  <2>1. /\ MulRegs16(Behind, Operand16) \in Regs
        /\ ImulRegs16(Behind, Operand16) \in Regs
        /\ Operand16 # 0 => /\ DivRegs16(Behind, Operand16) \in Regs
                            /\ IdivRegs16(Behind, Operand16) \in Regs
    BY <1>6, <1>7, WordProducts, WordQuotients
  <2>2. Field \in {4, 5} \/ Operand16 # 0 => machine = Group3Word(Rest, prefix, ModRm)
    BY <1>10, <1>12, <1>16
  <2>3. /\ Field = 4 => machine.regs = MulRegs16(Behind, Operand16)
        /\ Field = 5 => machine.regs = ImulRegs16(Behind, Operand16)
        /\ Operand16 # 0 =>
             /\ Field = 6 => machine.regs = DivRegs16(Behind, Operand16)
             /\ Field = 7 => machine.regs = IdivRegs16(Behind, Operand16)
    BY <1>9, <1>14, <2>1, <2>2
  <2>. QED  BY <1>6, <1>7, <1>10, <1>11, <1>16, <2>3
<1>. QED  BY <1>1, <1>15, <1>16

\* DIV of every unsigned double word, those from 2^31 included.
WideDivisionExact ==
  Executing(FALSE, {247}) /\ Field = 6 /\ Operand16 # 0 =>
    LET a == Get16(before.regs, DX) * WordSize + Get16(before.regs, AX)
    IN a \div Operand16 < WordSize =>
         Divides(a, Operand16, Get16(machine.regs, AX), Get16(machine.regs, DX))

\* IDIV by d with AX above 7FFFh divides AX alone, whatever DX holds; so what it
\* returns is never the quotient and the remainder of another DX:AX.
DividesAxAlone(old, new, d) ==
  LET a == Signed16(Get16(old, AX))
      wide == Signed16(Get16(old, DX)) * WordSize + Get16(old, AX)
      q == Signed16(Get16(new, AX))
      r == Signed16(Get16(new, DX))
      room(x) == Abs(x) \div Abs(d) < 32768
  IN a < 0 /\ d # 0 =>
       /\ room(a) => Divides(a, d, q, r)
       /\ room(wide) /\ wide # a => ~Divides(wide, d, q, r)
NegativeAxDividedAlone ==
  Executing(FALSE, {247}) /\ Field = 7 =>
    DividesAxAlone(before.regs, machine.regs, Signed16(Operand16))

LEMMA AxAlone ==
  ASSUME NEW old \in Regs, NEW r \in Regs, r.w = old.w, NEW v \in Word,
         NEW new, v # 0 => new = IdivRegs16(r, v)
  PROVE  DividesAxAlone(old, new, Signed16(v))
<1>1. PICK high \in Word, low \in Word : high = Get16(old, DX) /\ low = Get16(old, AX)
  BY AxDx, Get16Word
<1>2. high = Get16(r, DX) /\ low = Get16(r, AX)
  BY <1>1 DEF Get16
<1>3. PICK a \in Int, d \in Int : a = Signed16(low) /\ d = Signed16(v)
  BY SignedInt
<1>4. PICK wide \in Int : wide = Signed16(high) * WordSize + low
  <2>1. Signed16(high) \in Int /\ low \in Int /\ WordSize \in Int
    BY SignedInt, WordInt, WordSizeNat
  <2>. QED  BY <2>1
<1>5. PICK q, m : q = Signed16(Get16(new, AX)) /\ m = Signed16(Get16(new, DX))
  OBVIOUS
<1>6. DividesAxAlone(old, new, Signed16(v)) <=>
        (a < 0 /\ d # 0 =>
           /\ Abs(a) \div Abs(d) < 32768 => Divides(a, d, q, m)
           /\ Abs(wide) \div Abs(d) < 32768 /\ wide # a => ~Divides(wide, d, q, m))
  BY ONLY <1>1, <1>3, <1>4, <1>5 DEF DividesAxAlone
<1>. SUFFICES ASSUME a < 0, d # 0
              PROVE  /\ Abs(a) \div Abs(d) < 32768 => Divides(a, d, q, m)
                     /\ Abs(wide) \div Abs(d) < 32768 /\ wide # a =>
                          ~Divides(wide, d, q, m)
  BY <1>6
<1>7. ~(low < 32768) /\ a = low - WordSize /\ -32768 <= a
  BY <1>3, WordRange, SignedWord DEF Signed16
<1>8. v # 0
  BY <1>3, WordRange DEF Signed16
<1>9. ASSUME Abs(a) \div Abs(d) < 32768  PROVE Divides(a, d, q, m)
  <2>1. a = SignedDxAx(r)
    BY ONLY <1>2, <1>3, <1>7 DEF SignedDxAx
  <2>2. Divides(a, d, Signed(Get16(new, AX), WordSize),
                      Signed(Get16(new, DX), WordSize))
    BY ONLY r \in Regs, v \in Word, v # 0 => new = IdivRegs16(r, v), <1>3, <1>8,
            <1>9, <2>1, a \in Int, WordSignedDivision
  <2>3. new = IdivRegs16(r, v)
    BY <1>8
  <2>4. Get16(new, AX) \in Word /\ Get16(new, DX) \in Word
    BY <1>8, <2>3, WordQuotients, AxDx, Get16Word
  <2>. QED  BY <1>5, <2>2, <2>4, SignedWord
<1>10. ASSUME Abs(wide) \div Abs(d) < 32768, wide # a  PROVE ~Divides(wide, d, q, m)
  <2>1. PICK k \in Int : k = Signed16(high) + 1 /\ -32767 <= k /\ k <= 32768
    BY SignedWord
  <2>2. wide = a + k * WordSize
    <3>1. PICK n \in Int, j \in Int : n = WordSize /\ j = Signed16(high)
      BY SignedInt, WordSizeNat
    <3>2. low \in Int /\ wide = j * n + low /\ a = low - n /\ k = j + 1
      BY <1>4, <1>7, <2>1, <3>1, WordInt
    <3>3. (j + 1) * n = j * n + n
      BY <3>1, Z3
    <3>4. j * n \in Int
      BY <3>1
    <3>. QED  BY <3>1, <3>2, <3>3, <3>4
  <2>3. k # 0
    <3>1. 0 * WordSize = 0
      BY WordSizeNat
    <3>. QED  BY <1>10, <2>2, <3>1
  <2>4. Abs(wide) >= 32768
    BY <1>7, <2>1, <2>2, <2>3 DEF Abs, WordSize
  <2>5. PICK n \in Nat \ {0} : n = Abs(d)
    BY DEF Abs
  <2>6. PICK u \in Nat, w \in Nat : u = Abs(a) /\ w = Abs(wide) /\ u <= 32768
    BY <1>7 DEF Abs
  <2>7. n # 1
    <3>1. w \div 1 = w
      BY SMT
    <3>. QED  BY <1>10, <2>4, <2>5, <2>6, <3>1
  <2>8. u \div n < 32768
    <3>1. PICK s \in Nat, t \in 0 .. n - 1 : u = n * s + t /\ u \div n = s
      BY Quotient
    <3>2. 2 * s <= n * s
      BY <2>5, <2>7, Z3
    <3>3. n * s \in Int
      BY Products
    <3>. QED  BY <2>6, <3>1, <3>2, <3>3
  <2>9. Divides(a, d, q, m)
    BY <1>9, <2>5, <2>6, <2>8
  <2>10. PICK e : e = q * d + m
    OBVIOUS
  <2>11. \A x : Divides(x, d, q, m) => x = e
    BY ONLY <2>10 DEF Divides
  <2>12. a = e
    BY <2>9, <2>11
  <2>. QED  BY ONLY <1>10, <2>11, <2>12
<1>. QED  BY <1>9, <1>10

\* DIV and IDIV return the quotient and the remainder of every dividend and
\* divisor whose quotient has room, and raise interrupt 0 for a divisor of
\* zero, with one exception: IDIV of a double word with AX above 7FFFh, which
\* is always that of AX alone (cpu/interp/alu.rs).
THEOREM DivisionTheorem ==
  Spec => [](DivisionExact /\ WideDivisionExact /\ NegativeAxDividedAlone)
<1>1. InstructionInv => DivisionExact
  <2>. SUFFICES ASSUME InstructionInv, Executing(FALSE, Group3Opcodes), Field \in {6, 7}
                PROVE  DivisionGood(before.regs, machine.regs, opcode, Field,
                         IF opcode = 246 THEN Operand8 ELSE Operand16, result)
    BY DEF DivisionExact, DivisionGood
  <2>. DEFINE r == machine.regs
  <2>1. before.regs \in Regs /\ Behind \in Regs /\ Behind.w = before.regs.w
        /\ Operand8 \in Byte /\ Operand16 \in Word
    BY Group3Done
  <2>2. CASE opcode = 246
    <3>1. /\ Operand8 = 0 => result = Interrupt(0)
          /\ Operand8 # 0 => /\ Field = 6 => r = DivRegs(Behind, Operand8)
                             /\ Field = 7 => r = IdivRegs(Behind, Operand8)
      BY <2>2, Group3Done
    <3>. HIDE DEF r
    <3>2. CASE Field = 6
      BY <2>1, <2>2, <3>1, <3>2, ByteDivisionGood DEF r
    <3>3. CASE Field = 7
      BY <2>1, <2>2, <3>1, <3>3, ByteSignedDivisionGood DEF r
    <3>. QED  BY <3>2, <3>3
  <2>3. CASE opcode = 247
    <3>1. /\ Operand16 = 0 => result = Interrupt(0)
          /\ Operand16 # 0 => /\ Field = 6 => r = DivRegs16(Behind, Operand16)
                              /\ Field = 7 => r = IdivRegs16(Behind, Operand16)
      BY <2>3, Group3Done
    <3>. HIDE DEF r
    <3>2. CASE Field = 6
      BY <2>1, <2>3, <3>1, <3>2, WordDivisionGood DEF r
    <3>3. CASE Field = 7
      BY <2>1, <2>3, <3>1, <3>3, WordSignedDivisionGood DEF r
    <3>. QED  BY <3>2, <3>3
  <2>. QED  BY <2>2, <2>3, Group3Done
<1>2. InstructionInv => WideDivisionExact
  <2>. SUFFICES ASSUME InstructionInv, Executing(FALSE, {247}), Field = 6,
                       Operand16 # 0,
                       NEW a, a = Get16(before.regs, DX) * WordSize
                                    + Get16(before.regs, AX),
                       a \div Operand16 < WordSize
                PROVE  Divides(a, Operand16, Get16(machine.regs, AX),
                               Get16(machine.regs, DX))
    BY DEF WideDivisionExact
  <2>1. Executing(FALSE, Group3Opcodes) /\ opcode = 247
    BY DEF Executing, Group3Opcodes
  <2>2. /\ Behind \in Regs /\ Behind.w = before.regs.w /\ Operand16 \in Word
        /\ machine.regs = DivRegs16(Behind, Operand16)
    BY <2>1, Group3Done
  <2>3. a = Get16(Behind, DX) * WordSize + Get16(Behind, AX)
    BY <2>2 DEF Get16
  <2>. QED  BY <2>2, <2>3, WordDivision
<1>3. InstructionInv => NegativeAxDividedAlone
  <2>. SUFFICES ASSUME InstructionInv, Executing(FALSE, {247}), Field = 7
                PROVE  DividesAxAlone(before.regs, machine.regs, Signed16(Operand16))
    BY DEF NegativeAxDividedAlone
  <2>1. Executing(FALSE, Group3Opcodes) /\ opcode = 247
    BY DEF Executing, Group3Opcodes
  <2>2. /\ before.regs \in Regs /\ Behind \in Regs /\ Behind.w = before.regs.w
        /\ Operand16 \in Word
        /\ Operand16 # 0 => machine.regs = IdivRegs16(Behind, Operand16)
    BY <2>1, Group3Done
  <2>. QED  BY <2>2, AxAlone
<1>. QED  BY <1>1, <1>2, <1>3, InstructionAlways, PTL

-----------------------------------------------------------------------------
\* Multiplication: a product and its flags.

\* The product of two numbers below n has two digits.
LEMMA ProductBelow ==
  ASSUME NEW n \in Nat \ {0}, NEW a \in 0 .. n - 1, NEW b \in 0 .. n - 1
  PROVE  a * b \in Nat /\ (a * b) \div n \in 0 .. n - 1
<1>1. PICK x \in Nat : x = a * b
  BY Products
<1>2. PICK q \in Nat, m \in 0 .. n - 1 : x = n * q + m /\ q = x \div n
  BY <1>1, Quotient
<1>3. PICK y \in Nat : y = n * b
  BY Products
<1>4. x <= y
  <2>1. b * a <= b * n
    BY Monotone
  <2>2. b * a = a * b /\ b * n = n * b
    BY Products
  <2>. QED  BY <1>1, <1>3, <2>1, <2>2
<1>5. q <= b
  <2>1. SUFFICES ASSUME b + 1 <= q  PROVE FALSE
    OBVIOUS
  <2>2. n * (b + 1) <= n * q
    BY <2>1, Monotone
  <2>3. n * (b + 1) = y + n
    <3>1. (b + 1) * n = b * n + 1 * n /\ n * (b + 1) = (b + 1) * n /\ n * b = b * n
      BY Products
    <3>. QED  BY <1>3, <3>1
  <2>4. PICK z \in Nat : z = n * q
    BY Products
  <2>. QED  BY <1>2, <1>4, <2>2, <2>3, <2>4
<1>. QED  BY <1>1, <1>2, <1>5

\* Multiplying by bytes makes the whole product.
LEMMA Mul32Exact ==
  ASSUME NEW a \in Word, NEW b \in Word
  PROVE  /\ Mul32(a, b)[1] = (a * b) % WordSize
         /\ Mul32(a, b)[2] = (a * b) \div WordSize
         /\ a * b \in Nat
         /\ Mul32(a, b)[1] \in Word /\ Mul32(a, b)[2] \in Word
<1>1. PICK c \in Nat \ {0} : c = 256 /\ WordSize = c * c
  BY SMT DEF WordSize
<1>2. PICK n \in Nat \ {0} : n = WordSize /\ n = c * c
  BY <1>1, WordSizeNat
<1>3. PICK hi \in Nat, lo \in Nat : hi = Hi(a) /\ lo = Lo(a) /\ a = lo + c * hi
  <2>1. Lo(a) \in Byte /\ Hi(a) \in Byte /\ Lo(a) + 256 * Hi(a) = a
    BY Halves
  <2>2. Lo(a) \in Nat /\ Hi(a) \in Nat
    BY <2>1, ByteRange
  <2>. QED  BY <1>1, <2>1, <2>2
<1>4. b \in Nat /\ a \in 0 .. n - 1 /\ b \in 0 .. n - 1
  BY <1>2, WordInt DEF Word
<1>5. PICK high \in Nat : high = hi * b
  BY <1>4, Products
<1>6. PICK t \in Nat, u \in 0 .. c - 1 :
        high = c * t + u /\ t = high \div c /\ u = high % c
  BY Quotient
<1>7. t = Hi(high) /\ u = Lo(high)
  BY <1>1, <1>6 DEF Hi, Lo
<1>8. PICK e \in Nat : e = lo * b
  BY <1>4, Products
<1>9. PICK low \in Nat : low = c * u + e
  BY Products
<1>10. PICK q \in Nat, m \in 0 .. n - 1 :
         low = n * q + m /\ q = low \div n /\ m = low % n
  BY Quotient
<1>11. Mul32(a, b) = <<m, Wrap16(t + q)>>
  <2>1. Hi(a) * b = high /\ Lo(a) * b = e
    BY <1>3, <1>5, <1>8
  <2>2. 256 * Lo(high) + e = low
    BY <1>1, <1>7, <1>9
  <2>3. Mul32(a, b) = <<Wrap16(256 * Lo(high) + e),
                        Wrap16(Hi(high) + (256 * Lo(high) + e) \div WordSize)>>
    BY ONLY <2>1, ZenonT(90) DEF Mul32
  <2>4. Mul32(a, b) = <<Wrap16(low), Wrap16(t + low \div n)>>
    BY ONLY <2>2, <2>3, <1>2, <1>7, ZenonT(90)
  <2>5. Wrap16(low) = m
    BY <1>2, <1>10 DEF Wrap16
  <2>. QED  BY <1>10, <2>4, <2>5
<1>12. a * b = n * (t + q) + m
  <2>1. a * b = (lo + c * hi) * b
    BY <1>3
  <2>2. (lo + c * hi) * b = lo * b + c * (hi * b)
    BY <1>4, Z3
  <2>3. c * (c * t + u) = (c * c) * t + c * u
    BY Z3
  <2>4. n * (t + q) = n * t + n * q
    BY Z3
  <2>5. PICK f \in Int, g \in Int, i \in Int : f = n * t /\ g = c * u /\ i = n * q
    BY Products
  <2>6. a * b = e + c * high
    BY <1>5, <1>8, <2>1, <2>2
  <2>7. c * high = f + g
    BY ONLY <1>2, <1>6, <2>3, <2>5
  <2>. QED  BY <1>9, <1>10, <2>4, <2>5, <2>6, <2>7
<1>13. PICK x \in Nat : x = a * b
  BY <1>4, Products
<1>14. x \div n = t + q /\ x % n = m
  <2>1. t + q \in Int /\ x \in Int /\ x = n * (t + q) + m
    BY <1>12, <1>13
  <2>. QED  BY <2>1, Quotients
<1>15. t + q \in 0 .. n - 1
  BY <1>4, <1>13, <1>14, ProductBelow
<1>16. m \in Word /\ t + q \in Word
  BY <1>2, <1>15 DEF Word
<1>. QED  BY <1>2, <1>11, <1>13, <1>14, <1>16, WrapWord

\* The carry of a product, whose registers the flags leave alone.
LEMMA CarrySet ==
  ASSUME NEW r \in Regs, NEW c, NEW o
  PROVE  /\ Flag(CarryOverflow(r, c, o), CarryFlag) <=> c
         /\ CarryOverflow(r, c, o).w = r.w
<1>. DEFINE r1 == SetFlag(r, CarryFlag, c)
<1>1. CarryFlag \in Flags /\ OverflowFlag \in Flags /\ CarryFlag # OverflowFlag
  BY DEF Flags, CarryFlag, OverflowFlag
<1>2. r1 \in Regs /\ (Flag(r1, CarryFlag) <=> c)
  BY <1>1, SetFlagRegs, FlagSet
<1>3. CarryOverflow(r, c, o) = SetFlag(r1, OverflowFlag, o)
  BY DEF CarryOverflow
<1>4. CarryOverflow(r, c, o).w = r.w
  BY FlagsOnly DEF OnlyFlags
<1>. HIDE DEF r1
<1>5. Flag(SetFlag(r1, OverflowFlag, o), CarryFlag) <=> Flag(r1, CarryFlag)
  BY <1>1, <1>2, FlagSet
<1>. QED  BY <1>2, <1>3, <1>4, <1>5

LEMMA ByteProduct ==
  ASSUME NEW r \in Regs, NEW v \in Byte, NEW x, x = Get8(r, AL) * v
  PROVE  /\ Get16(MulRegs(r, v), AX) = x
         /\ Flag(MulRegs(r, v), CarryFlag) <=> x >= 256
<1>1. x \in Word
  BY AxDx, Get8Byte, ProductWord
<1>2. PICK q \in Regs : q = Set16(r, AX, x) /\ Get16(q, AX) = x
  BY <1>1, AxDx, Set16Regs
<1>. DEFINE c == x > 255
<1>3. MulRegs(r, v) = CarryOverflow(q, c, c)
  BY <1>2, Zenon DEF MulRegs
<1>4. c <=> x >= 256
  BY <1>1, WordInt
<1>. HIDE DEF c
<1>5. (Flag(CarryOverflow(q, c, c), CarryFlag) <=> c) /\ CarryOverflow(q, c, c).w = q.w
  BY <1>2, CarrySet
<1>. QED  BY <1>2, <1>3, <1>4, <1>5 DEF Get16

\* The product of two signed numbers of h values on each side.
LEMMA SignedProduct ==
  ASSUME NEW h \in Nat \ {0}, NEW a \in -h .. h - 1, NEW b \in -h .. h - 1
  PROVE  a * b \in Int /\ -(h * h) <= a * b /\ a * b <= h * h
<1>1. \A i, j \in Nat : i <= h /\ j <= h => i * j \in Nat /\ i * j <= h * h
  <2>1. ASSUME NEW i \in Nat, NEW j \in Nat, i <= h, j <= h
        PROVE  i * j \in Nat /\ i * j <= h * h
    <3>1. i * j <= i * h /\ h * i <= h * h /\ i * h = h * i
      BY <2>1, Monotone, Products
    <3>2. i * j \in Nat /\ i * h \in Nat /\ h * h \in Nat
      BY Products
    <3>. QED  BY <3>1, <3>2
  <2>. QED  BY <2>1
<1>2. PICK i \in Nat, j \in Nat :
        /\ i <= h /\ j <= h /\ (a = i \/ a = -i) /\ (b = j \/ b = -j)
  <2>1. \A x \in -h .. h - 1 : \E i \in Nat : i <= h /\ (x = i \/ x = -i)
    <3>1. ASSUME NEW x \in -h .. h - 1
          PROVE  \E i \in Nat : i <= h /\ (x = i \/ x = -i)
      <4>1. CASE x >= 0
        BY <4>1
      <4>2. CASE x < 0
        <5>1. -x \in Nat /\ -x <= h /\ x = -(-x)
          BY <4>2
        <5>. QED  BY <5>1
      <4>. QED  BY <4>1, <4>2
    <3>. QED  BY <3>1
  <2>. QED  BY <2>1
<1>3. PICK p \in Nat : p = i * j /\ p <= h * h
  BY <1>1, <1>2
<1>4. a * b = p \/ a * b = -p
  BY SMTT(60), <1>2, <1>3
<1>5. h * h \in Nat
  BY SMTT(60), Products
<1>. QED  BY <1>3, <1>4, <1>5

LEMMA ByteSignedProduct ==
  ASSUME NEW r \in Regs, NEW v \in Byte,
         NEW x, x = SignExtend(Get8(r, AL)) * SignExtend(v)
  PROVE  /\ Signed16(Get16(ImulRegs(r, v), AX)) = x
         /\ Flag(ImulRegs(r, v), CarryFlag) <=> ~Fits(x, 256)
<1>1. x \in Int /\ -32768 <= x /\ x < 32768
  <2>1. PICK h \in Nat \ {0} : h = 128
    OBVIOUS
  <2>2. SignExtend(Get8(r, AL)) \in -h .. h - 1 /\ SignExtend(v) \in -h .. h - 1
    BY <2>1, AxDx, Get8Byte, SignedByte
  <2>3. x \in Int /\ -(h * h) <= x /\ x <= h * h
    BY ONLY <2>2, x = SignExtend(Get8(r, AL)) * SignExtend(v), SignedProduct
  <2>. QED  BY <2>1, <2>3
<1>2. Wrap16(x) \in Word /\ Signed16(Wrap16(x)) = x
  BY <1>1, WrapSigned
<1>3. PICK q \in Regs : q = Set16(r, AX, Wrap16(x)) /\ Get16(q, AX) = Wrap16(x)
  BY <1>2, AxDx, Set16Regs
<1>4. ImulRegs(r, v) = CarryOverflow(q, x \notin -128 .. 127, x \notin -128 .. 127)
  BY <1>3, Zenon DEF ImulRegs
<1>5. x \notin -128 .. 127 <=> ~Fits(x, 256)
  BY <1>1 DEF Fits
<1>. QED  BY ZenonT(90), <1>2, <1>3, <1>4, <1>5, CarrySet DEF Get16

LEMMA WordProduct ==
  ASSUME NEW r \in Regs, NEW v \in Word, NEW a, a = Get16(r, AX),
         NEW u, u = Signed16(a) * v,
         NEW top, top = u \div WordSize + (IF a >= 32768 THEN v ELSE 0)
  PROVE  /\ Get16(MulRegs16(r, v), AX) = u % WordSize
         /\ Get16(MulRegs16(r, v), DX) = top
         /\ Flag(MulRegs16(r, v), CarryFlag) <=> top # 0
<1>1. PICK n \in Nat \ {0} : n = WordSize
  BY WordSizeNat
<1>2. a \in Word /\ a \in Nat /\ v \in Nat
  <2>1. Get16(r, AX) \in Word
    BY AxDx, Get16Word
  <2>. QED  BY ONLY <2>1, a = Get16(r, AX), v \in Word, WordInt
<1>3. PICK p \in Nat : p = a * v
  BY ONLY <1>2, Products
<1>4. PICK x : x = Mul32(a, v)
  OBVIOUS
<1>5. x[1] = p % n /\ x[2] = p \div n /\ x[1] \in Word /\ x[2] \in Word
  BY <1>1, <1>2, <1>3, <1>4, Mul32Exact
<1>6. PICK q \in Nat, m \in 0 .. n - 1 :
        p = n * q + m /\ q = p \div n /\ m = p % n
  BY ONLY n \in Nat \ {0}, p \in Nat, Quotient
<1>7. u % n = m /\ top = q
  <2>1. CASE a < 32768
    <3>1. u = p
      BY <1>3, <2>1 DEF Signed16
    <3>2. top = u \div n
      BY <1>1, <1>2, <1>6, <2>1, <3>1
    <3>. QED  BY <1>6, <3>1, <3>2
  <2>2. CASE ~(a < 32768)
    <3>1. u = (a - n) * v
      BY <1>1, <2>2 DEF Signed16
    <3>2. u = n * (q - v) + m
      <4>1. (a - n) * v = a * v - n * v
        BY <1>2, Z3
      <4>2. n * (q - v) = n * q - n * v
        BY <1>2, Z3
      <4>3. PICK y \in Nat, z \in Nat : y = n * v /\ z = n * q
        BY <1>2, Products
      <4>. QED  BY <1>3, <1>6, <3>1, <4>1, <4>2, <4>3
    <3>3. q - v \in Int /\ u \in Int
      <4>1. n * (q - v) \in Int
        BY <1>2, Z3
      <4>. QED  BY <1>2, <3>2, <4>1
    <3>4. u \div n = q - v /\ u % n = m
      BY SMTT(60), <3>2, <3>3, Quotients
    <3>5. top = u \div n + v
      BY <1>1, <1>2, <2>2
    <3>. QED  BY <1>2, <3>4, <3>5
  <2>. QED  BY <2>1, <2>2
<1>8. PICK w \in Regs :
        w = SetWide(r, x[1], x[2]) /\ Get16(w, AX) = x[1] /\ Get16(w, DX) = x[2]
  BY <1>5, WideRead
<1>. DEFINE c == x[2] # 0
<1>9. MulRegs16(r, v) = CarryOverflow(w, c, c)
  <2>1. x = Mul32(Get16(r, AX), v)
    BY <1>4
  <2>2. MulRegs16(r, v)
          = CarryOverflow(SetWide(r, x[1], x[2]), x[2] # 0, x[2] # 0)
    BY ONLY <2>1, Zenon DEF MulRegs16
  <2>. QED  BY ONLY <1>8, <2>2, Zenon
<1>10. c <=> top # 0
  BY <1>5, <1>6, <1>7
<1>. HIDE DEF c
<1>11. (Flag(CarryOverflow(w, c, c), CarryFlag) <=> c) /\ CarryOverflow(w, c, c).w = w.w
  BY <1>8, CarrySet
<1>12. /\ Get16(MulRegs16(r, v), AX) = x[1] /\ Get16(MulRegs16(r, v), DX) = x[2]
       /\ Flag(MulRegs16(r, v), CarryFlag) <=> c
  BY ONLY <1>8, <1>9, <1>11 DEF Get16
<1>. QED  BY ONLY <1>1, <1>5, <1>6, <1>7, <1>10, <1>12

\* The numbers that a signed word holds.
LEMMA SmallFits ==
  /\ \A x \in Int : ~Beyond16(x) <=> Fits(x, WordSize)
  /\ \A h \in Nat \ {0} : WordSize = 2 * h =>
       \A x : Fits(x, WordSize) <=> x >= -h /\ x < h
  /\ \A v \in Word : Signed16(v) \in Int /\ Fits(Signed16(v), WordSize)
  /\ \A x \in Int : Fits(x, WordSize) =>
                       Wrap16(x) \in Word /\ Signed16(Wrap16(x)) = x
<1>1. WordSize \div 2 = 32768
  BY SMT DEF WordSize
<1>2. \A x : Fits(x, WordSize) <=> x >= -32768 /\ x < 32768
  BY ONLY <1>1 DEF Fits
<1>3. \A x \in Int : ~Beyond16(x) <=> Fits(x, WordSize)
  BY ONLY <1>2 DEF Beyond16
<1>4. ASSUME NEW h \in Nat \ {0}, WordSize = 2 * h
      PROVE  \A x : Fits(x, WordSize) <=> x >= -h /\ x < h
  <2>1. h = 32768
    BY <1>4, Half
  <2>. QED  BY ONLY <1>2, <2>1
<1>5. \A v \in Word : Signed16(v) \in Int /\ Fits(Signed16(v), WordSize)
  BY <1>2, SignedWord
<1>6. \A x \in Int : Fits(x, WordSize) =>
                       Wrap16(x) \in Word /\ Signed16(Wrap16(x)) = x
  BY ONLY <1>2, WrapSigned
<1>. QED  BY ONLY <1>3, <1>4, <1>5, <1>6

\* A product with a digit of h to either side of zero, divided by 2 * h.
LEMMA SignedQuotient ==
  ASSUME NEW h \in Nat \ {0}, NEW n \in Nat \ {0}, n = 2 * h,
         NEW x \in Int, -(h * h) <= x, x <= h * h
  PROVE  \E q \in Int, m \in 0 .. n - 1 :
           /\ q = x \div n /\ m = x % n /\ x = q * n + m
           /\ -h <= q /\ q < h
<1>1. PICK q \in Int : q = x \div n /\ x % n = x - n * q
  BY DivMod
<1>2. PICK m \in 0 .. n - 1 : m = x % n
  BY ModBound
<1>3. x = n * q + m
  BY <1>1, <1>2
<1>4. PICK s \in Nat : s = h * h /\ s > 0
  <2>1. h * h \in Nat /\ h * 1 <= h * h
    BY Products, Monotone
  <2>. QED  BY <2>1
<1>5. n * h = s + s
  BY <1>4, Z3
<1>6. ASSUME h <= q  PROVE FALSE
  <2>1. q \in Nat /\ n * h <= n * q
    BY <1>6, Monotone
  <2>2. PICK z \in Nat : z = n * q
    BY <2>1, Products
  <2>. QED  BY <1>3, <1>4, <1>5, <2>1, <2>2
<1>7. ASSUME q < -h  PROVE FALSE
  <2>1. PICK k \in Nat : k = -q /\ h + 1 <= k
    BY <1>7
  <2>2. n * (h + 1) <= n * k
    BY SMTT(60), <2>1, Monotone
  <2>3. n * (h + 1) = n * h + n
    BY Z3
  <2>4. PICK z \in Nat : z = n * k
    BY Products
  <2>5. n * q = -z
    BY <2>1, <2>4, Z3
  <2>. QED  BY <1>3, <1>4, <1>5, <2>2, <2>3, <2>4, <2>5
<1>8. n * q = q * n
  BY Products
<1>. QED  BY <1>1, <1>2, <1>3, <1>6, <1>7, <1>8

LEMMA SignedWords ==
  ASSUME NEW a \in Word, NEW b \in Word, NEW x, x = Signed16(a) * Signed16(b)
  PROVE  /\ x \in Int /\ Wrap16(x) \in Word /\ Wrap16(x \div WordSize) \in Word
         /\ DoubleOf(Wrap16(x), Wrap16(x \div WordSize)) = x
         /\ ~Beyond16(x) <=> Fits(x, WordSize)
         /\ Signed16(Wrap16(x)) = x <=> Fits(x, WordSize)
<1>1. PICK h \in Nat \ {0} : WordSize = 2 * h
  BY HalfWord
<1>2. PICK i \in -h .. h - 1, j \in -h .. h - 1 : i = Signed16(a) /\ j = Signed16(b)
  <2>1. /\ Signed16(a) \in Int /\ Signed16(a) >= -h /\ Signed16(a) < h
        /\ Signed16(b) \in Int /\ Signed16(b) >= -h /\ Signed16(b) < h
    BY <1>1, SmallFits
  <2>. QED  BY <2>1
<1>3. x = i * j
  BY <1>2
<1>4. x \in Int /\ -(h * h) <= x /\ x <= h * h
  BY <1>3, SignedProduct
<1>5. PICK n \in Nat \ {0} : n = WordSize /\ n = 2 * h
  BY <1>1
<1>6. PICK q \in Int, m \in 0 .. n - 1 :
        /\ q = x \div n /\ m = x % n /\ x = q * n + m
        /\ -h <= q /\ q < h
  BY ONLY <1>4, <1>5, h \in Nat \ {0}, n \in Nat \ {0}, SignedQuotient
<1>7. Wrap16(x) = m /\ Wrap16(x) \in Word
  BY <1>4, <1>5, <1>6, WrapInWord DEF Wrap16
<1>8. Wrap16(q) \in Word /\ Signed16(Wrap16(q)) = q
  <2>1. Fits(q, WordSize)
    BY <1>1, <1>6, SmallFits
  <2>. QED  BY <2>1, SmallFits
<1>9. DoubleOf(Wrap16(x), Wrap16(q)) = q * n + m
  BY <1>5, <1>7, <1>8 DEF DoubleOf
<1>10. ~Beyond16(x) <=> Fits(x, WordSize)
  BY <1>4, SmallFits
<1>11. Signed16(Wrap16(x)) = x <=> Fits(x, WordSize)
  BY <1>4, <1>7, SmallFits
<1>12. q = x \div WordSize
  BY <1>5, <1>6
<1>. QED  BY ONLY <1>4, <1>6, <1>7, <1>8, <1>9, <1>10, <1>11, <1>12

LEMMA WordSignedProduct ==
  ASSUME NEW r \in Regs, NEW v \in Word,
         NEW new, new = ImulRegs16(r, v), NEW x, x = SignedTimes(Get16(r, AX), v)
  PROVE  /\ DoubleOf(Get16(new, AX), Get16(new, DX)) = x
         /\ Flag(new, CarryFlag) <=> ~Fits(x, WordSize)
<1>. DEFINE y == Signed16(Get16(r, AX)) * Signed16(v)
            c == Beyond16(y)
<1>1. /\ Wrap16(y) \in Word /\ Wrap16(y \div WordSize) \in Word
      /\ DoubleOf(Wrap16(y), Wrap16(y \div WordSize)) = y
      /\ ~Beyond16(y) <=> Fits(y, WordSize)
  <2>1. Get16(r, AX) \in Word
    BY AxDx, Get16Word
  <2>. QED  BY ONLY <2>1, v \in Word, SignedWords
<1>2. ImulRegs16(r, v)
        = CarryOverflow(SetWide(r, Wrap16(y), Wrap16(y \div WordSize)), c, c)
  BY ONLY SMT DEF ImulRegs16
<1>. HIDE DEF y
<1>3. PICK w \in Regs :
        /\ w = SetWide(r, Wrap16(y), Wrap16(y \div WordSize))
        /\ Get16(w, AX) = Wrap16(y) /\ Get16(w, DX) = Wrap16(y \div WordSize)
  BY <1>1, WideRead
<1>4. c <=> ~Fits(y, WordSize)
  BY <1>1, Zenon
<1>. HIDE DEF c
<1>5. new = CarryOverflow(w, c, c)
  BY ONLY <1>2, <1>3, new = ImulRegs16(r, v), Zenon
<1>6. (Flag(CarryOverflow(w, c, c), CarryFlag) <=> c) /\ CarryOverflow(w, c, c).w = w.w
  BY <1>3, CarrySet
<1>7. x = y
  BY DEF y, SignedTimes
<1>. QED  BY ONLY <1>1, <1>3, <1>4, <1>5, <1>6, <1>7 DEF Get16

\* IMUL with two operands, of a word.
LEMMA Imul16Exact ==
  ASSUME NEW s, IsMachine(s), NEW p \in PrefixState, NEW b \in Byte,
         NEW new, new = Imul16(s, p, b).regs,
         NEW x, x = SignedTimes(Get16(s.regs, ModRmReg(b)), Read16(s, p, b))
  PROVE  Flag(new, CarryFlag) <=> Signed16(Get16(new, ModRmReg(b))) # x
<1>. DEFINE t == AfterOperand(s, p, b)
            i == ModRmReg(b)
            y == Signed16(Get16(t.regs, i)) * Signed16(Read16(s, p, b))
            c == Beyond16(y)
<1>1. IsMachine(t) /\ OnlyIp(s, t) /\ i \in Reg
  BY EaTyped, OperandKeeps, FieldsTyped
<1>2. Imul16(s, p, b) = WithReg(t, CarryOverflow(Set16(t.regs, i, Wrap16(y)), c, c))
  BY ONLY SMT DEF Imul16
<1>3. y = x
  BY <1>1 DEF OnlyIp, Get16, SignedTimes
<1>4. Wrap16(y) \in Word /\ (Signed16(Wrap16(y)) = y <=> ~Beyond16(y))
  <2>1. Get16(t.regs, i) \in Word /\ Read16(s, p, b) \in Word
    BY <1>1, Parts, Get16Word, ReadsTyped
  <2>. HIDE DEF t, i
  <2>. QED  BY ONLY <2>1, SignedWords
<1>. HIDE DEF t, i, y
<1>5. PICK w \in Regs : w = Set16(t.regs, i, Wrap16(y)) /\ Get16(w, i) = Wrap16(y)
  BY <1>1, <1>4, Parts, Set16Regs
<1>6. c <=> Signed16(Wrap16(y)) # y
  BY <1>4, Zenon
<1>. HIDE DEF c
<1>7. (Flag(CarryOverflow(w, c, c), CarryFlag) <=> c) /\ CarryOverflow(w, c, c).w = w.w
  BY <1>5, CarrySet
<1>8. CarryOverflow(w, c, c) \in Regs
  BY <1>5, FlagsTyped
<1>9. new = CarryOverflow(w, c, c)
  <2>1. Imul16(s, p, b) = WithReg(t, CarryOverflow(w, c, c))
    BY ONLY <1>2, <1>5, Zenon
  <2>. QED  BY <1>1, <1>8, <2>1, WithRegTyped
<1>10. Flag(new, CarryFlag) <=> Signed16(Get16(new, i)) # x
  BY ONLY <1>3, <1>5, <1>6, <1>7, <1>9 DEF Get16
<1>. QED  BY <1>10 DEF i

-----------------------------------------------------------------------------
\* The product of two double words.

LEMMA DivAtLeast ==
  ASSUME NEW a \in Nat \ {0}, NEW m \in Int, NEW k \in Int
  PROVE  k <= m \div a <=> a * k <= m
<1>1. PICK q \in Int : q = m \div a /\ m % a = m - a * q
  BY DivMod
<1>2. PICK r \in 0 .. a - 1 : r = m % a
  BY ModBound
<1>3. PICK e \in Int : e = a * q
  BY Products
<1>4. m = e + r
  BY <1>1, <1>2, <1>3
<1>5. PICK f \in Int : f = a * k
  BY Products
<1>6. ASSUME k <= q  PROVE f <= e
  <2>1. PICK d \in Nat : q = k + d
    <3>1. q - k \in Nat /\ q = k + (q - k)
      BY <1>6
    <3>. QED  BY <3>1
  <2>2. a * (k + d) = a * k + a * d /\ a * d \in Nat
    BY Products, Z3
  <2>. QED  BY <1>3, <1>5, <2>1, <2>2
<1>7. ASSUME q < k  PROVE e + a <= f
  <2>1. PICK d \in Nat : k = q + 1 + d
    <3>1. k - q - 1 \in Nat /\ k = q + 1 + (k - q - 1)
      BY <1>7
    <3>. QED  BY <3>1
  <2>2. a * (q + 1 + d) = a * q + a + a * d
    BY Z3
  <2>3. a * d \in Nat
    BY Products
  <2>. QED  BY <1>3, <1>5, <2>1, <2>2, <2>3
<1>. QED  BY <1>1, <1>4, <1>5, <1>6, <1>7

\* The signed double words reach from -n to n - 1.
Doubles32 == MaxDouble + 1

LEMMA DoubleLimit ==
  /\ Doubles32 \in Nat \ {0} /\ MaxDouble = Doubles32 - 1
  /\ \A h \in Nat \ {0} : WordSize = 2 * h => Doubles32 = WordSize * h
<1>1. Doubles32 = WordSize * 32768
  BY SMT DEF Doubles32, MaxDouble, WordSize
<1>2. MaxDouble \in Nat
  BY SMT DEF MaxDouble
<1>3. ASSUME NEW h \in Nat \ {0}, WordSize = 2 * h
      PROVE  Doubles32 = WordSize * h
  <2>1. h = 32768
    BY <1>3, Half
  <2>. QED  BY ONLY <1>1, <2>1
<1>4. Doubles32 \in Nat \ {0} /\ MaxDouble = Doubles32 - 1
  BY ONLY <1>2 DEF Doubles32
<1>. QED  BY ONLY <1>3, <1>4

\* RoomFor means what it says.
LEMMA RoomExact ==
  ASSUME NEW x \in Int, NEW y \in Int
  PROVE  /\ x * y \in Int
         /\ RoomFor(x, y) <=> -Doubles32 <= x * y /\ x * y < Doubles32
<1>1. PICK n \in Nat \ {0} : n = Doubles32 /\ MaxDouble = n - 1
  BY DoubleLimit
<1>2. PICK a \in Nat, b \in Nat : a = Abs(x) /\ b = Abs(y)
  <2>1. Abs(x) \in Nat /\ Abs(y) \in Nat
    BY DEF Abs
  <2>. QED  BY <2>1
<1>3. PICK p \in Nat : p = a * b
  BY Products
<1>4. x * y = IF (x < 0) = (y < 0) THEN p ELSE -p
  <2>1. (x = a \/ x = -a) /\ (y = b \/ y = -b) /\ (x < 0 => x = -a) /\ (y < 0 => y = -b)
        /\ (~(x < 0) => x = a) /\ (~(y < 0) => y = b)
    BY <1>2 DEF Abs
  <2>2. (-a) * b = -p /\ a * (-b) = -p /\ (-a) * (-b) = p
    BY <1>3, Z3
  <2>. QED  BY <1>3, <2>1, <2>2
<1>5. CASE x = 0 \/ y = 0
  <2>1. x * y = 0
    BY <1>5
  <2>. QED  BY <1>1, <1>5, <2>1 DEF RoomFor
<1>6. CASE x # 0 /\ y # 0
  <2>1. a \in Nat \ {0}
    BY <1>2, <1>6 DEF Abs
  <2>2. RoomFor(x, y) <=> IF (x < 0) = (y < 0) THEN b <= (n - 1) \div a
                          ELSE b - 1 <= (n - 1 - (a - 1)) \div a
    BY ONLY <1>1, <1>2, <1>6 DEF RoomFor
  <2>3. b <= (n - 1) \div a <=> a * b <= n - 1
    BY <2>1, DivAtLeast
  <2>4. b - 1 <= (n - 1 - (a - 1)) \div a <=> a * (b - 1) <= n - 1 - (a - 1)
    <3>1. b - 1 \in Int /\ n - 1 - (a - 1) \in Int
      OBVIOUS
    <3>. QED  BY ONLY <2>1, <3>1, DivAtLeast
  <2>5. a * (b - 1) = p - a
    BY <1>3, Z3
  <2>. QED  BY <1>1, <1>3, <1>4, <2>2, <2>3, <2>4, <2>5
<1>. QED  BY <1>4, <1>5, <1>6

\* The two words of a magnitude.
LEMMA MagnitudeExact ==
  ASSUME NEW lo \in Word, NEW hi \in Word
  PROVE  \E u \in Word, v \in Word :
           /\ Magnitude(lo, hi) = <<u, v>>
           /\ Abs(DoubleOf(lo, hi)) = WordSize * v + u
           /\ DoubleOf(lo, hi) \in Int
           /\ hi < 32768 <=> ~(DoubleOf(lo, hi) < 0)
<1>1. PICK h \in Nat \ {0} : h = 32768 /\ WordSize = 2 * h
  BY Half
<1>2. PICK n \in Nat \ {0} : n = WordSize /\ n = 2 * h
  BY <1>1
<1>3. \A x : x \in Word <=> x \in 0 .. n - 1
  BY <1>2 DEF Word
<1>4. lo \in 0 .. n - 1 /\ hi \in 0 .. n - 1
  BY <1>3
<1>5. PICK x : x = DoubleOf(lo, hi)
  OBVIOUS
<1>6. CASE hi < h
  <2>1. Magnitude(lo, hi) = <<lo, hi>>
    BY ONLY <1>1, <1>6 DEF Magnitude
  <2>2. x = hi * n + lo
    BY ONLY <1>1, <1>2, <1>5, <1>6 DEF DoubleOf, Signed16
  <2>3. n * hi \in Nat /\ hi * n = n * hi
    BY <1>4, Products
  <2>4. x \in Nat /\ x = n * hi + lo
    BY <1>4, <2>2, <2>3
  <2>5. Abs(x) = n * hi + lo
    BY <2>4 DEF Abs
  <2>. QED  BY ONLY <1>1, <1>2, <1>5, <1>6, <2>1, <2>4, <2>5, lo \in Word, hi \in Word
<1>7. CASE ~(hi < h)
  <2>1. Magnitude(lo, hi)
          = <<Wrap16(-lo), Wrap16(-hi - (IF lo = 0 THEN 0 ELSE 1))>>
    BY ONLY <1>1, <1>7 DEF Magnitude
  <2>2. x = (hi - n) * n + lo
    BY ONLY <1>1, <1>2, <1>5, <1>7 DEF DoubleOf, Signed16
  <2>3. PICK k \in Nat : k = n - hi /\ 1 <= k /\ k <= n
    BY <1>4
  <2>4. PICK e \in Nat : e = n * k
    BY Products
  <2>5. (hi - n) * n = -e
    <3>1. (hi - n) * n = -(n * (n - hi))
      BY <1>4, Z3
    <3>. QED  BY <2>3, <2>4, <3>1
  <2>6. n <= e
    <3>1. n * 1 <= n * k
      BY <2>3, Monotone
    <3>. QED  BY <2>4, <3>1
  <2>7. x \in Int /\ x < 0 /\ Abs(x) = e - lo
    BY <1>4, <2>2, <2>5, <2>6 DEF Abs
  <2>8. k <= h
    BY <1>2, <1>4, <1>7, <2>3
  <2>9. \A y \in Int : -n <= y /\ y < 0 => Wrap16(y) = y + n
    <3>1. ASSUME NEW y \in Int, -n <= y, y < 0  PROVE y % n = y + n
      <4>1. y < 2 * n
        BY <3>1
      <4>2. y % n = IF y < 0 THEN y + n ELSE IF y < n THEN y ELSE y - n
        BY ONLY n \in Nat \ {0}, y \in Int, <3>1, <4>1, WrapSmall
      <4>. QED  BY <3>1, <4>2
    <3>. QED  BY ONLY <1>2, <3>1, Zenon DEF Wrap16
  <2>10. CASE lo = 0
    <3>1. Wrap16(-lo) = 0
      BY ONLY <1>2, <2>10, SmallMod DEF Wrap16
    <3>2. -hi - (IF lo = 0 THEN 0 ELSE 1) = k - n
      BY ONLY <1>4, <2>3, <2>10
    <3>3. Wrap16(k - n) = k
      <4>1. k - n \in Int /\ -n <= k - n /\ k - n < 0
        BY <1>2, <2>3, <2>8
      <4>2. Wrap16(k - n) = k - n + n
        BY ONLY <4>1, <2>9
      <4>. QED  BY ONLY <4>2, k \in Nat, n \in Nat \ {0}
    <3>4. k \in Word /\ 0 \in Word
      BY <1>2, <1>3, <2>3, <2>8
    <3>5. Magnitude(lo, hi) = <<0, k>>
      BY ONLY <2>1, <3>1, <3>2, <3>3
    <3>6. Abs(x) = n * k + 0
      BY ONLY <2>4, <2>7, <2>10, e \in Nat
    <3>7. /\ DoubleOf(lo, hi) \in Int /\ Abs(DoubleOf(lo, hi)) = WordSize * k + 0
          /\ hi < 32768 <=> ~(DoubleOf(lo, hi) < 0)
      BY ONLY <1>1, <1>2, <1>5, <1>7, <2>7, <3>6
    <3>. QED  BY ONLY <3>4, <3>5, <3>7
  <2>11. CASE lo # 0
    <3>1. PICK u \in 1 .. n - 1 : u = n - lo
      BY <1>4, <2>11
    <3>2. Wrap16(-lo) = u
      <4>1. -lo \in Int /\ -n <= -lo /\ -lo < 0
        BY <1>4, <2>11
      <4>2. Wrap16(-lo) = -lo + n
        BY ONLY <4>1, <2>9
      <4>. QED  BY ONLY <1>4, <3>1, <4>2, n \in Nat \ {0}
    <3>3. PICK j \in 0 .. n - 1 : j = k - 1
      BY <1>2, <2>3, <2>8
    <3>4. -hi - (IF lo = 0 THEN 0 ELSE 1) = j - n
      BY ONLY <1>4, <2>3, <2>11, <3>3
    <3>5. Wrap16(j - n) = j
      <4>1. j - n \in Int /\ -n <= j - n /\ j - n < 0
        OBVIOUS
      <4>2. Wrap16(j - n) = j - n + n
        BY ONLY <4>1, <2>9
      <4>. QED  BY ONLY <4>2, j \in 0 .. n - 1, n \in Nat \ {0}
    <3>6. j \in Word /\ u \in Word
      BY <1>3
    <3>7. Magnitude(lo, hi) = <<u, j>>
      BY ONLY <2>1, <3>2, <3>4, <3>5
    <3>8. n * j = e - n
      <4>1. n * (k - 1) = n * k - n
        BY Z3
      <4>. QED  BY <2>4, <3>3, <4>1
    <3>9. Abs(x) = n * j + u
      BY ONLY <1>4, <2>7, <3>1, <3>8, e \in Nat, n \in Nat \ {0}
    <3>10. Abs(x) = WordSize * j + u
      BY ONLY <1>2, <3>9, Zenon
    <3>11. hi < 32768 <=> ~(x < 0)
      BY ONLY <1>1, <1>7, <2>7
    <3>. QED  BY ONLY <1>5, <2>7, <3>6, <3>7, <3>10, <3>11
  <2>. QED  BY <2>10, <2>11
<1>. QED  BY <1>6, <1>7

\* One side of h, for a number of two digits.
LEMMA HighDigit ==
  ASSUME NEW n \in Nat \ {0}, NEW h \in Int, NEW k \in Int, NEW l \in 0 .. n - 1
  PROVE  /\ n * k + l >= n * h <=> k >= h
         /\ n * k + l > n * h <=> k > h \/ (k = h /\ l # 0)
<1>1. PICK a \in Int, b \in Int : a = n * k /\ b = n * h
  BY Products
<1>2. ASSUME h < k  PROVE b + n <= a
  <2>1. PICK d \in Nat : k = h + 1 + d
    <3>1. k - h - 1 \in Nat /\ k = h + 1 + (k - h - 1)
      BY <1>2
    <3>. QED  BY <3>1
  <2>2. n * (h + 1 + d) = n * h + n + n * d /\ n * d \in Nat
    BY Products, Z3
  <2>. QED  BY <1>1, <2>1, <2>2
<1>3. ASSUME k < h  PROVE a + n <= b
  <2>1. PICK d \in Nat : h = k + 1 + d
    <3>1. h - k - 1 \in Nat /\ h = k + 1 + (h - k - 1)
      BY <1>3
    <3>. QED  BY <3>1
  <2>2. n * (k + 1 + d) = n * k + n + n * d /\ n * d \in Nat
    BY Products, Z3
  <2>. QED  BY <1>1, <2>1, <2>2
<1>4. k = h => a = b
  BY <1>1
<1>. QED  BY <1>1, <1>2, <1>3, <1>4

\* What is left of the product of two magnitudes above and below the limit.
TwoDigits(n, u, v) == n * v + u

LimitedBy(n, h, a1, a2, c1, c2) ==
  LET low == Mul32(a1, c1)
      cross == IF a2 = 0 THEN Mul32(a1, c2) ELSE Mul32(a2, c1)
      high == low[2] + cross[1]
      p == TwoDigits(n, a1, a2) * TwoDigits(n, c1, c2)
  IN  /\ p \in Nat
      /\ p >= n * h <=> (a2 # 0 /\ c2 # 0) \/ cross[2] # 0 \/ high >= h
      /\ p > n * h <=> \/ a2 # 0 /\ c2 # 0
                       \/ cross[2] # 0 \/ high > h \/ (high = h /\ low[1] # 0)

LEMMA OverflowWords ==
  ASSUME NEW n \in Nat \ {0}, NEW h \in Nat \ {0}, n = 2 * h, n = WordSize,
         NEW a1 \in Word, NEW a2 \in Word, NEW c1 \in Word, NEW c2 \in Word
  PROVE  LimitedBy(n, h, a1, a2, c1, c2)
<1>0. PICK low, cross, high, p :
        /\ low = Mul32(a1, c1)
        /\ cross = IF a2 = 0 THEN Mul32(a1, c2) ELSE Mul32(a2, c1)
        /\ high = low[2] + cross[1]
        /\ p = (n * a2 + a1) * (n * c2 + c1)
  OBVIOUS
<1>1. /\ a1 \in Nat /\ a2 \in Nat /\ c1 \in Nat /\ c2 \in Nat
  BY WordInt
<1>2. PICK l1 \in 0 .. n - 1, l2 \in 0 .. n - 1 :
        l1 = low[1] /\ l2 = low[2] /\ a1 * c1 = n * l2 + l1
  <2>1. PICK x \in Nat : x = a1 * c1
    BY <1>1, Products
  <2>2. /\ low[1] = x % n /\ low[2] = x \div n
        /\ low[1] \in Word /\ low[2] \in Word
    BY <1>0, <2>1, Mul32Exact
  <2>3. x = n * (x \div n) + (x % n)
    BY ONLY n \in Nat \ {0}, x \in Nat, Quotient
  <2>4. low[1] \in 0 .. n - 1 /\ low[2] \in 0 .. n - 1
    BY <2>2 DEF Word
  <2>. QED  BY ONLY <2>1, <2>2, <2>3, <2>4
<1>3. PICK s \in Nat : s = n * h /\ h <= s /\ s < n * n /\ s + s = n * n
  <2>1. h * n = h * (2 * h) /\ n * n = h * (2 * h) + h * (2 * h)
    BY Z3
  <2>2. PICK z \in Nat : z = n * h
    BY Products
  <2>3. h * n = n * h
    BY Products
  <2>4. n * n = z + z
    BY <2>1, <2>2, <2>3
  <2>5. h * 1 <= h * n
    BY Monotone
  <2>. QED  BY <2>2, <2>3, <2>4, <2>5
<1>4. PICK P \in Nat, Q \in Nat, X \in Nat, Y \in Nat :
        P = a2 * c2 /\ Q = a2 * c1 + a1 * c2 /\ X = (n * n) * P /\ Y = n * Q
  <2>1. a2 * c2 \in Nat /\ a2 * c1 \in Nat /\ a1 * c2 \in Nat /\ n * n \in Nat
    BY <1>1, Products
  <2>2. a2 * c1 + a1 * c2 \in Nat
    BY <2>1
  <2>. QED  BY <2>1, <2>2, Products
<1>5. p = X + Y + (n * l2 + l1)
  <2>1. (n * a2 + a1) * (n * c2 + c1)
          = (n * n) * (a2 * c2) + n * (a2 * c1 + a1 * c2) + a1 * c1
    BY <1>1, Z3
  <2>. QED  BY <1>0, <1>2, <1>4, <2>1
<1>6. PICK L \in Nat : L = n * l2
  BY Products
<1>7. p \in Nat /\ p = X + Y + L + l1
  BY <1>5, <1>6
<1>. DEFINE Limits == /\ p \in Nat
                      /\ p >= n * h <=> (a2 # 0 /\ c2 # 0) \/ cross[2] # 0 \/ high >= h
                      /\ p > n * h <=> \/ a2 # 0 /\ c2 # 0
                                       \/ cross[2] # 0 \/ high > h
                                       \/ high = h /\ low[1] # 0
<1>8. ASSUME a2 # 0 /\ c2 # 0  PROVE Limits
  <2>1. P >= 1
    <3>1. a2 * 1 <= a2 * c2
      BY <1>1, <1>8, Monotone
    <3>. QED  BY <1>1, <1>4, <1>8, <3>1
  <2>2. X >= n * n
    <3>1. n * n \in Nat /\ (n * n) * 1 <= (n * n) * P
      BY <2>1, Monotone, Products
    <3>. QED  BY <1>4, <3>1
  <2>3. p >= n * n
    BY <1>3, <1>6, <1>7, <2>2
  <2>. QED  BY ONLY <1>3, <1>7, <1>8, <2>3, s \in Nat
<1>9. ASSUME ~(a2 # 0 /\ c2 # 0)  PROVE Limits
  <2>1. P = 0 /\ X = 0
    BY <1>1, <1>4, <1>9
  <2>2. PICK z1 \in 0 .. n - 1, z2 \in 0 .. n - 1 :
          z1 = cross[1] /\ z2 = cross[2] /\ Q = n * z2 + z1
    <3>1. \A u, v \in Word : u * v = Q /\ cross = Mul32(u, v) =>
            /\ cross[1] \in 0 .. n - 1 /\ cross[2] \in 0 .. n - 1
            /\ Q = n * cross[2] + cross[1]
      <4>1. ASSUME NEW u \in Word, NEW v \in Word, u * v = Q, cross = Mul32(u, v)
            PROVE  /\ cross[1] \in 0 .. n - 1 /\ cross[2] \in 0 .. n - 1
                   /\ Q = n * cross[2] + cross[1]
        <5>1. /\ cross[1] = Q % n /\ cross[2] = Q \div n
              /\ cross[1] \in Word /\ cross[2] \in Word
          BY <4>1, Mul32Exact
        <5>2. Q = n * (Q \div n) + (Q % n)
          BY ONLY n \in Nat \ {0}, Q \in Nat, Quotient
        <5>3. cross[1] \in 0 .. n - 1 /\ cross[2] \in 0 .. n - 1
          BY <5>1 DEF Word
        <5>. QED  BY ONLY <5>1, <5>2, <5>3
      <4>. QED  BY <4>1
    <3>2. CASE a2 = 0
      <4>1. a1 * c2 = Q /\ cross = Mul32(a1, c2)
        <5>1. a2 * c1 = 0 /\ a1 * c2 \in Nat
          BY <1>1, <3>2, Products
        <5>. QED  BY <1>0, <1>4, <3>2, <5>1
      <4>. QED  BY <3>1, <4>1
    <3>3. CASE a2 # 0
      <4>1. a2 * c1 = Q /\ cross = Mul32(a2, c1)
        <5>1. a1 * c2 = 0 /\ a2 * c1 \in Nat
          BY <1>1, <1>9, <3>3, Products
        <5>. QED  BY <1>0, <1>4, <3>3, <5>1
      <4>. QED  BY <3>1, <4>1
    <3>. QED  BY <3>2, <3>3
  <2>3. CASE z2 # 0
    <3>1. n * 1 <= n * z2
      BY <2>3, Monotone
    <3>2. n <= Q
      <4>1. PICK w \in Nat : w = n * z2
        BY Products
      <4>. QED  BY <2>2, <3>1, <4>1
    <3>3. n * n <= n * Q
      BY <3>2, Monotone
    <3>4. p >= n * n
      <4>1. n * n \in Nat /\ n * n <= Y
        BY <1>4, <3>3, Products
      <4>. QED  BY ONLY <1>7, <4>1, X \in Nat, Y \in Nat, L \in Nat, l1 \in 0 .. n - 1,
                        n \in Nat \ {0}
    <3>. QED  BY ONLY <1>3, <1>7, <2>2, <2>3, <3>4, s \in Nat
  <2>4. CASE z2 = 0
    <3>1. Q = z1
      <4>1. n * z2 = 0
        BY <2>4
      <4>. QED  BY <2>2, <4>1
    <3>2. PICK k \in Nat : k = l2 + z1 /\ k = high
      BY <1>0, <1>2, <2>2
    <3>3. p = n * k + l1
      <4>1. n * (l2 + z1) = n * l2 + n * z1
        BY Z3
      <4>2. PICK e \in Nat : e = n * z1
        BY Products
      <4>3. Y = e
        BY ONLY <1>4, <3>1, <4>2
      <4>4. n * k = L + e
        BY ONLY <1>6, <3>2, <4>1, <4>2
      <4>. QED  BY ONLY <1>7, <2>1, <4>3, <4>4, L \in Nat, e \in Nat, l1 \in 0 .. n - 1
    <3>4. /\ n * k + l1 >= n * h <=> k >= h
          /\ n * k + l1 > n * h <=> k > h \/ (k = h /\ l1 # 0)
      BY HighDigit
    <3>. QED  BY ONLY <1>2, <1>7, <1>9, <2>2, <2>4, <3>2, <3>3, <3>4
  <2>. QED  BY <2>3, <2>4
<1>10. Limits
  BY ONLY <1>8, <1>9, Zenon
<1>. QED  BY ONLY <1>0, <1>10, Zenon DEF LimitedBy, TwoDigits

LEMMA OverflowsExact ==
  ASSUME NEW x1 \in Word, NEW x2 \in Word, NEW y1 \in Word, NEW y2 \in Word,
         NEW x, x = DoubleOf(x1, x2), NEW y, y = DoubleOf(y1, y2)
  PROVE  /\ x \in Int /\ y \in Int
         /\ Overflows32(<<x1, x2>>, <<y1, y2>>) <=>
              ~(-Doubles32 <= x * y /\ x * y < Doubles32)
<1>1. PICK h \in Nat \ {0} : h = 32768 /\ WordSize = 2 * h
  BY Half
<1>2. PICK n \in Nat \ {0} : n = WordSize /\ n = 2 * h
  BY <1>1
<1>3. PICK a1 \in Word, a2 \in Word :
        /\ Magnitude(x1, x2) = <<a1, a2>> /\ Abs(x) = n * a2 + a1
        /\ x \in Int /\ (x2 < h <=> ~(x < 0))
  BY ONLY <1>1, <1>2, x1 \in Word, x2 \in Word, x = DoubleOf(x1, x2), MagnitudeExact
<1>4. PICK c1 \in Word, c2 \in Word :
        /\ Magnitude(y1, y2) = <<c1, c2>> /\ Abs(y) = n * c2 + c1
        /\ y \in Int /\ (y2 < h <=> ~(y < 0))
  BY ONLY <1>1, <1>2, y1 \in Word, y2 \in Word, y = DoubleOf(y1, y2), MagnitudeExact
<1>5. PICK low : low = Mul32(a1, c1)
  OBVIOUS
<1>6. PICK cross : cross = IF a2 = 0 THEN Mul32(a1, c2) ELSE Mul32(a2, c1)
  OBVIOUS
<1>7. PICK high : high = low[2] + cross[1]
  OBVIOUS
<1>8. PICK p : p = TwoDigits(n, a1, a2) * TwoDigits(n, c1, c2)
  OBVIOUS
<1>9. /\ p \in Nat
      /\ p >= n * h <=> (a2 # 0 /\ c2 # 0) \/ cross[2] # 0 \/ high >= h
      /\ p > n * h <=> \/ a2 # 0 /\ c2 # 0
                       \/ cross[2] # 0 \/ high > h \/ (high = h /\ low[1] # 0)
  <2>1. LimitedBy(n, h, a1, a2, c1, c2)
    BY ONLY <1>2, OverflowWords, h \in Nat \ {0}, n \in Nat \ {0},
            a1 \in Word, a2 \in Word, c1 \in Word, c2 \in Word
  <2>. QED  BY ONLY <1>5, <1>6, <1>7, <1>8, <2>1, Zenon DEF LimitedBy
<1>10. Overflows32(<<x1, x2>>, <<y1, y2>>) <=>
         \/ a2 # 0 /\ c2 # 0
         \/ cross[2] # 0 \/ high > h
         \/ high = h /\ ((x2 < h) = (y2 < h) \/ low[1] # 0)
  BY ONLY <1>1, <1>3, <1>4, <1>5, <1>6, <1>7 DEF Overflows32
<1>11. high \in Int
  <2>1. /\ low[2] \in Word
        /\ Mul32(a1, c2)[1] \in Word /\ Mul32(a2, c1)[1] \in Word
    BY <1>5, Mul32Exact
  <2>2. cross[1] \in Word
    BY <1>6, <2>1
  <2>. QED  BY <1>7, <2>1, <2>2, WordInt
<1>12. x * y = IF (x < 0) = (y < 0) THEN p ELSE -p
  <2>1. PICK a \in Nat, b \in Nat : a = Abs(x) /\ b = Abs(y)
    <3>1. Abs(x) \in Nat /\ Abs(y) \in Nat
      BY <1>3, <1>4 DEF Abs
    <3>. QED  BY <3>1
  <2>2. p = a * b
    BY ONLY <1>3, <1>4, <1>8, <2>1 DEF TwoDigits
  <2>3. (x = a \/ x = -a) /\ (y = b \/ y = -b) /\ (x < 0 => x = -a) /\ (y < 0 => y = -b)
        /\ (~(x < 0) => x = a) /\ (~(y < 0) => y = b)
    BY <1>3, <1>4, <2>1 DEF Abs
  <2>4. (-a) * b = -p /\ a * (-b) = -p /\ (-a) * (-b) = p
    BY <2>2, Z3
  <2>. QED  BY <2>2, <2>3, <2>4
<1>13. PICK d \in Nat : d = n * h /\ d = Doubles32
  <2>1. Doubles32 = WordSize * h
    BY <1>1, DoubleLimit
  <2>2. n * h \in Nat
    BY Products
  <2>. QED  BY <1>2, <2>1, <2>2
<1>14. x2 < h <=> ~(x < 0)
  BY <1>3
<1>15. y2 < h <=> ~(y < 0)
  BY <1>4
<1>16. d \in Nat /\ d # 0
  BY <1>13, DoubleLimit
<1>17. CASE (x < 0) = (y < 0)
  <2>1. x * y = p /\ (x2 < h) = (y2 < h)
    BY <1>12, <1>14, <1>15, <1>17
  <2>2. ~(-d <= p /\ p < d) <=> p >= d
    BY <1>9, <1>16
  <2>. QED  BY <1>3, <1>4, <1>9, <1>10, <1>11, <1>13, <2>1, <2>2
<1>18. CASE (x < 0) # (y < 0)
  <2>1. x * y = -p /\ (x2 < h) # (y2 < h)
    BY <1>12, <1>14, <1>15, <1>18
  <2>2. ~(-d <= -p /\ -p < d) <=> p > d
    BY <1>9, <1>16
  <2>. QED  BY <1>3, <1>4, <1>9, <1>10, <1>11, <1>13, <2>1, <2>2
<1>. QED  BY <1>17, <1>18

LEMMA IntProducts == \A a, b \in Int : a * b \in Int /\ a * b = b * a
  BY Z3

LEMMA SignedDigit ==
  ASSUME NEW n \in Nat \ {0}, n = WordSize, NEW v \in Word
  PROVE  \E s \in Int, e \in Int : s = Signed16(v) /\ v = s + n * e
<1>1. Signed16(v) \in Int /\ (Signed16(v) = v \/ Signed16(v) = v - n)
  BY SignedWord
<1>2. n * 0 = 0 /\ n * 1 = n
  OBVIOUS
<1>3. CASE Signed16(v) = v
  <2>1. v = Signed16(v) + n * 0
    BY ONLY <1>1, <1>2, <1>3
  <2>. QED  BY ONLY <1>1, <2>1, 0 \in Int
<1>4. CASE Signed16(v) = v - n
  <2>1. v = Signed16(v) + n * 1
    BY ONLY <1>2, <1>4, v \in Word, n \in Nat \ {0}, WordInt
  <2>. QED  BY ONLY <1>1, <2>1, 1 \in Int
<1>. QED  BY ONLY <1>1, <1>3, <1>4

LEMMA Mul32Digits ==
  ASSUME NEW n \in Nat \ {0}, n = WordSize, NEW a \in Word, NEW b \in Word
  PROVE  \E m \in 0 .. n - 1, q \in Int :
           m = Mul32(a, b)[1] /\ q = Mul32(a, b)[2] /\ a * b = n * q + m
<1>1. PICK x \in Nat : x = a * b
  BY Mul32Exact
<1>2. /\ Mul32(a, b)[1] = x % n /\ Mul32(a, b)[2] = x \div n
  BY <1>1, Mul32Exact
<1>3. x \div n \in Int /\ x % n \in 0 .. n - 1 /\ x = n * (x \div n) + (x % n)
  BY ONLY n \in Nat \ {0}, x \in Nat, Quotient
<1>. QED  BY ONLY <1>1, <1>2, <1>3, Zenon

\* The words of a product of double words that the range has room for.
HighWordOf(x1, x2, y1, y2) ==
  Wrap16(Mul32(x1, y1)[2] + Mul32(x1, y2)[1] + Mul32(x2, y1)[1])

LEMMA ProductWords ==
  ASSUME NEW x1 \in Word, NEW x2 \in Word, NEW y1 \in Word, NEW y2 \in Word,
         NEW x, x = DoubleOf(x1, x2) * DoubleOf(y1, y2),
         -Doubles32 <= x, x < Doubles32
  PROVE  DoubleOf(Mul32(x1, y1)[1], HighWordOf(x1, x2, y1, y2)) = x
<1>1. PICK h \in Nat \ {0} : WordSize = 2 * h
  BY HalfWord
<1>2. PICK n \in Nat \ {0} : n = WordSize /\ n = 2 * h
  BY <1>1
<1>3. x1 \in Nat /\ x2 \in Nat /\ y1 \in Nat /\ y2 \in Nat
  BY WordInt
<1>4. PICK sx \in Int, ex \in Int : sx = Signed16(x2) /\ x2 = sx + n * ex
  BY ONLY <1>2, <1>3, x2 \in Word, n \in Nat \ {0}, SignedDigit
<1>5. PICK sy \in Int, ey \in Int : sy = Signed16(y2) /\ y2 = sy + n * ey
  BY ONLY <1>2, <1>3, y2 \in Word, n \in Nat \ {0}, SignedDigit
<1>6. PICK l1 \in 0 .. n - 1, l2 \in Int :
        l1 = Mul32(x1, y1)[1] /\ l2 = Mul32(x1, y1)[2] /\ x1 * y1 = n * l2 + l1
  BY ONLY <1>2, x1 \in Word, y1 \in Word, n \in Nat \ {0}, Mul32Digits
<1>7. PICK m1 \in 0 .. n - 1, a \in Int :
        m1 = Mul32(x1, y2)[1] /\ a = Mul32(x1, y2)[2] /\ x1 * y2 = n * a + m1
  BY ONLY <1>2, x1 \in Word, y2 \in Word, n \in Nat \ {0}, Mul32Digits
<1>8. PICK m2 \in 0 .. n - 1, b \in Int :
        m2 = Mul32(x2, y1)[1] /\ b = Mul32(x2, y1)[2] /\ x2 * y1 = n * b + m2
  BY ONLY <1>2, x2 \in Word, y1 \in Word, n \in Nat \ {0}, Mul32Digits
<1>9. PICK s \in Int, k \in Int :
        s = l2 + m1 + m2 /\ k = a + b - x1 * ey - ex * y1 + sx * sy
  <2>1. x1 * ey \in Int /\ ex * y1 \in Int /\ sx * sy \in Int
    BY <1>3, IntProducts
  <2>. QED  BY <2>1
<1>10. PICK g \in Int : g = s + n * k
  BY IntProducts
<1>11. x = n * g + l1
  <2>1. x = (sx * n + x1) * (sy * n + y1)
    BY ONLY <1>2, <1>4, <1>5, x = DoubleOf(x1, x2) * DoubleOf(y1, y2) DEF DoubleOf
  <2>2. (sx * n + x1) * (sy * n + y1)
          = n * (n * (sx * sy)) + n * (sx * y1 + x1 * sy) + x1 * y1
    BY <1>3, Z3
  <2>3. x1 * sy = n * a + m1 - n * (x1 * ey)
    <3>1. x1 * (sy + n * ey) = x1 * sy + n * (x1 * ey)
      BY <1>3, Z3
    <3>2. PICK u \in Int, v \in Int, w \in Int :
            u = x1 * sy /\ v = n * (x1 * ey) /\ w = n * a
      BY <1>3, IntProducts
    <3>. QED  BY ONLY <1>5, <1>7, <3>1, <3>2, m1 \in 0 .. n - 1
  <2>4. sx * y1 = n * b + m2 - n * (ex * y1)
    <3>1. (sx + n * ex) * y1 = sx * y1 + n * (ex * y1)
      BY <1>3, Z3
    <3>2. PICK u \in Int, v \in Int, w \in Int :
            u = sx * y1 /\ v = n * (ex * y1) /\ w = n * b
      BY <1>3, IntProducts
    <3>. QED  BY ONLY <1>4, <1>8, <3>1, <3>2, m2 \in 0 .. n - 1
  <2>5. PICK c1 \in Int, c2 \in Int, c3 \in Int :
          c1 = x1 * ey /\ c2 = ex * y1 /\ c3 = sx * sy
    BY <1>3, IntProducts
  <2>6. n * (n * c3) + n * ((n * b + m2 - n * c2) + (n * a + m1 - n * c1)) + (n * l2 + l1)
          = n * (l2 + m1 + m2 + n * (a + b - c1 - c2 + c3)) + l1
    BY ONLY n \in Nat \ {0}, c1 \in Int, c2 \in Int, c3 \in Int, a \in Int, b \in Int,
            m1 \in 0 .. n - 1, m2 \in 0 .. n - 1, l1 \in 0 .. n - 1, l2 \in Int, Z3
  <2>7. x = n * (n * c3) + n * ((n * b + m2 - n * c2) + (n * a + m1 - n * c1))
              + (n * l2 + l1)
    BY ONLY <1>6, <2>1, <2>2, <2>3, <2>4, <2>5
  <2>8. n * g + l1 = n * (l2 + m1 + m2 + n * (a + b - c1 - c2 + c3)) + l1
    BY ONLY <1>9, <1>10, <2>5
  <2>. QED  BY ONLY <2>6, <2>7, <2>8
<1>12. -h <= g /\ g < h
  <2>1. Doubles32 = n * h /\ n * h \in Nat
    BY <1>1, <1>2, DoubleLimit, IntProducts
  <2>2. -h \in Int /\ n * (-h) = -(n * h)
    BY Z3
  <2>3. /\ n * g + l1 >= n * h <=> g >= h
        /\ n * g + l1 >= n * (-h) <=> g >= -h
    BY ONLY HighDigit, <2>2, n \in Nat \ {0}, h \in Nat \ {0}, g \in Int, l1 \in 0 .. n - 1
  <2>4. x \in Int
    BY <1>11, IntProducts
  <2>. QED  BY <1>11, <2>1, <2>2, <2>3, <2>4
<1>13. Wrap16(g) = Wrap16(s)
  <2>1. (s + n * k) % n = s % n
    <3>1. -k \in Int /\ s - n * (-k) = s + n * k
      BY Z3
    <3>. QED  BY ONLY ZenonT(90), n \in Nat \ {0}, s \in Int, <3>1, ModLess
  <2>. QED  BY ONLY <1>2, <1>10, <2>1, Zenon DEF Wrap16
<1>14. Signed16(Wrap16(g)) = g
  <2>1. Fits(g, WordSize)
    BY <1>1, <1>12, SmallFits
  <2>. QED  BY <2>1, SmallFits
<1>15. HighWordOf(x1, x2, y1, y2) = Wrap16(s)
  BY ONLY <1>6, <1>7, <1>8, <1>9 DEF HighWordOf
<1>16. DoubleOf(l1, Wrap16(s)) = g * n + l1
  BY ONLY <1>2, <1>13, <1>14 DEF DoubleOf
<1>17. g * n = n * g
  BY IntProducts
<1>. QED  BY ONLY <1>6, <1>11, <1>15, <1>16, <1>17

\* IMUL with two operands, of a double word.
LEMMA Imul32Exact ==
  ASSUME NEW s, IsMachine(s), NEW p \in PrefixState, NEW b \in Byte,
         NEW i, i = ModRmReg(b),
         NEW new, new = Imul32(s, p, b).regs,
         NEW x, x = DoubleOf(Get16(s.regs, i), GetHigh16(s.regs, i)),
         NEW y, y = DoubleOf(Read16(s, p, b), ReadHigh16(s, p, b))
  PROVE  /\ Flag(new, CarryFlag) <=> ~RoomFor(x, y)
         /\ ~Flag(new, CarryFlag) => DoubleOf(Get16(new, i), GetHigh16(new, i)) = x * y
<1>. DEFINE t == AfterOperand(s, p, b)
            xl == Read16(s, p, b)
            xh == ReadHigh16(s, p, b)
            yl == Get16(t.regs, ModRmReg(b))
            yh == GetHigh16(t.regs, ModRmReg(b))
            low == Mul32(xl, yl)[1]
            high == HighWordOf(xl, xh, yl, yh)
            over == Overflows32(<<xl, xh>>, <<yl, yh>>)
<1>1. IsMachine(t) /\ OnlyIp(s, t) /\ i \in Reg
  BY EaTyped, OperandKeeps, FieldsTyped
<1>2. xl \in Word /\ xh \in Word /\ yl \in Word /\ yh \in Word
  BY <1>1, Parts, ReadsTyped, Get16Word, HighWord
<1>3. x = DoubleOf(yl, yh) /\ y = DoubleOf(xl, xh)
  BY <1>1 DEF OnlyIp, Get16, GetHigh16
<1>4. Imul32(s, p, b) = WithReg(t, CarryOverflow(Set32(t.regs, i, low, high), over, over))
  BY Zenon DEF Imul32, HighWordOf
<1>5. Get16(t.regs, i) = yl /\ GetHigh16(t.regs, i) = yh
  OBVIOUS
<1>. HIDE DEF t, xl, xh, yl, yh
<1>6. low \in Word /\ high \in Word
  <2>1. low \in Word
    BY <1>2, Mul32Exact
  <2>2. /\ Mul32(xl, yl)[2] \in Word /\ Mul32(xl, yh)[1] \in Word
        /\ Mul32(xh, yl)[1] \in Word
    BY <1>2, Mul32Exact
  <2>3. Mul32(xl, yl)[2] + Mul32(xl, yh)[1] + Mul32(xh, yl)[1] \in Int
    <3>1. \A u, v, w \in Word : u + v + w \in Int
      BY WordInt
    <3>. QED  BY ONLY <2>2, <3>1, Zenon
  <2>. QED  BY ONLY <2>1, <2>3, WrapInWord DEF HighWordOf
<1>7. /\ x \in Int /\ y \in Int
      /\ over <=> ~(-Doubles32 <= y * x /\ y * x < Doubles32)
  BY ONLY <1>2, <1>3, OverflowsExact
<1>8. x * y \in Int /\ y * x = x * y
  BY ONLY <1>7, IntProducts
<1>9. over <=> ~RoomFor(x, y)
  BY ONLY <1>7, <1>8, RoomExact
<1>10. ~over => DoubleOf(low, high) = x * y
  <2>1. ASSUME ~over  PROVE DoubleOf(low, high) = x * y
    <3>1. -Doubles32 <= y * x /\ y * x < Doubles32
      BY ONLY <1>7, <2>1
    <3>. QED  BY ONLY <1>2, <1>3, <1>8, <3>1, ProductWords
  <2>. HIDE DEF low, high, over
  <2>. QED  BY ONLY <2>1, Zenon
<1>. HIDE DEF low, high, over
<1>11. PICK w \in Regs : /\ w = Set32(t.regs, i, low, high)
                         /\ Get16(w, i) = low /\ GetHigh16(w, i) = high
  BY <1>1, <1>6, Parts, SetsTyped, WideGets
<1>12. /\ Flag(CarryOverflow(w, over, over), CarryFlag) <=> over
       /\ CarryOverflow(w, over, over).w = w.w
  BY <1>11, CarrySet
<1>13. CarryOverflow(w, over, over) \in Regs
  BY <1>11, FlagsTyped
<1>14. new = CarryOverflow(w, over, over)
  <2>1. Imul32(s, p, b) = WithReg(t, CarryOverflow(w, over, over))
    BY ONLY <1>4, <1>11, Zenon
  <2>. QED  BY <1>1, <1>13, <2>1, WithRegTyped
<1>. QED  BY ONLY <1>9, <1>10, <1>11, <1>12, <1>14 DEF Get16, GetHigh16

\* The products return every digit of the product of every two numbers, and
\* their carry flag says whether the part that the operand's width cannot hold
\* is other than the sign: MUL and IMUL by one operand, and IMUL of two words
\* or of two double words, which the model computes from words alone
\* (cpu/interp/alu.rs, cpu/interp/extended.rs).
THEOREM ProductsTheorem == Spec => []ProductsExact
<1>1. InstructionInv => ProductsExact
  <2>1. ASSUME InstructionInv, Executing(FALSE, {246}), Field = 4
        PROVE  /\ Get16(machine.regs, AX) = Get8(before.regs, AL) * Operand8
               /\ Carry <=> Get8(before.regs, AL) * Operand8 >= 256
    <3>1. /\ Behind \in Regs /\ Behind.w = before.regs.w /\ Operand8 \in Byte
          /\ machine.regs = MulRegs(Behind, Operand8)
      <4>1. /\ Executing(FALSE, Group3Opcodes) /\ Field \in 4 .. 7
            /\ opcode = 246 /\ opcode # 247
        BY <2>1 DEF Executing, Group3Opcodes
      <4>. QED  BY ONLY InstructionInv, Field = 4, <4>1, Group3Done
    <3>2. Get8(Behind, AL) = Get8(before.regs, AL)
      BY <3>1 DEF Get8, Get16
    <3>. QED  BY <3>1, <3>2, ByteProduct DEF Carry
  <2>2. ASSUME InstructionInv, Executing(FALSE, {246}), Field = 5,
               NEW x, x = SignExtend(Get8(before.regs, AL)) * SignExtend(Operand8)
        PROVE  /\ Signed16(Get16(machine.regs, AX)) = x
               /\ Carry <=> ~Fits(x, 256)
    <3>1. /\ Behind \in Regs /\ Behind.w = before.regs.w /\ Operand8 \in Byte
          /\ machine.regs = ImulRegs(Behind, Operand8)
      <4>1. /\ Executing(FALSE, Group3Opcodes) /\ Field \in 4 .. 7
            /\ opcode = 246 /\ opcode # 247
        BY <2>2 DEF Executing, Group3Opcodes
      <4>. QED  BY ONLY InstructionInv, Field = 5, <4>1, Group3Done
    <3>2. Get8(Behind, AL) = Get8(before.regs, AL)
      BY <3>1 DEF Get8, Get16
    <3>. QED  BY <2>2, <3>1, <3>2, ByteSignedProduct DEF Carry
  <2>3. ASSUME InstructionInv, Executing(FALSE, {247}), Field = 4,
               NEW a, a = Get16(before.regs, AX), NEW u, u = Signed16(a) * Operand16,
               NEW top, top = u \div WordSize + (IF a >= 32768 THEN Operand16 ELSE 0)
        PROVE  /\ Get16(machine.regs, AX) = u % WordSize
               /\ Get16(machine.regs, DX) = top
               /\ Carry <=> top # 0
    <3>1. /\ Behind \in Regs /\ Behind.w = before.regs.w /\ Operand16 \in Word
          /\ machine.regs = MulRegs16(Behind, Operand16)
      <4>1. /\ Executing(FALSE, Group3Opcodes) /\ Field \in 4 .. 7
            /\ opcode = 247 /\ opcode # 246
        BY <2>3 DEF Executing, Group3Opcodes
      <4>. QED  BY ONLY InstructionInv, Field = 4, <4>1, Group3Done
    <3>2. a = Get16(Behind, AX)
      BY <2>3, <3>1 DEF Get16
    <3>. QED  BY <2>3, <3>1, <3>2, WordProduct DEF Carry
  <2>4. ASSUME InstructionInv, Executing(FALSE, {247}), Field = 5,
               NEW x, x = SignedTimes(Get16(before.regs, AX), Operand16)
        PROVE  /\ DoubleOf(Get16(machine.regs, AX), Get16(machine.regs, DX)) = x
               /\ Carry <=> ~Fits(x, WordSize)
    <3>1. /\ Behind \in Regs /\ Behind.w = before.regs.w /\ Operand16 \in Word
          /\ machine.regs = ImulRegs16(Behind, Operand16)
      <4>1. /\ Executing(FALSE, Group3Opcodes) /\ Field \in 4 .. 7
            /\ opcode = 247 /\ opcode # 246
        BY <2>4 DEF Executing, Group3Opcodes
      <4>. QED  BY ONLY InstructionInv, Field = 5, <4>1, Group3Done
    <3>2. x = SignedTimes(Get16(Behind, AX), Operand16)
      BY <2>4, <3>1 DEF Get16
    <3>. QED  BY <3>1, <3>2, WordSignedProduct DEF Carry
  <2>5. ASSUME InstructionInv, Executing(TRUE, {175})
        PROVE  /\ IsMachine(Rest) /\ ModRm \in Byte /\ prefix \in PrefixState
               /\ OnlyIp(before, Rest) /\ Field = ModRmReg(ModRm)
               /\ Operand16 = Read16(Rest, prefix, ModRm)
               /\ Source = Get16(Rest.regs, Field)
               /\ GetHigh16(before.regs, Field) = GetHigh16(Rest.regs, Field)
               /\ machine = IF prefix.operand32 THEN Imul32(Rest, prefix, ModRm)
                                                ELSE Imul16(Rest, prefix, ModRm)
    <3>1. Second = 175 /\ Escaping /\ Done
      BY <2>5 DEF Executing
    <3>2. /\ machine = Escaped(Second, Rest, prefix, ModRm)
          /\ IsMachine(Rest) /\ ModRm \in Byte /\ OnlyIp(before, Rest)
      BY <2>5, <3>1, EscapedDone DEF WithModRm
    <3>3. AtOperand = Rest
      BY ONLY <3>1 DEF AtOperand, Escaping, ShiftByImm
    <3>4. machine = IF prefix.operand32 THEN Imul32(Rest, prefix, ModRm)
                                        ELSE Imul16(Rest, prefix, ModRm)
      BY <3>1, <3>2 DEF Escaped
    <3>5. prefix \in PrefixState
      BY <2>5 DEF InstructionInv
    <3>6. /\ Source = Get16(Rest.regs, Field)
          /\ GetHigh16(before.regs, Field) = GetHigh16(Rest.regs, Field)
      BY <3>2 DEF OnlyIp, Get16, GetHigh16, Source
    <3>. QED  BY <3>2, <3>3, <3>4, <3>5, <3>6, Zenon DEF Operand16, Field
  <2>6. ASSUME InstructionInv, Executing(TRUE, {175}), ~prefix.operand32
        PROVE  Carry <=> Signed16(Destination) # SignedTimes(Source, Operand16)
    BY <2>5, <2>6, Imul16Exact DEF Carry, Destination
  <2>7. ASSUME InstructionInv, Executing(TRUE, {175}), prefix.operand32,
               NEW x, x = DoubleOf(Source, GetHigh16(before.regs, Field)),
               NEW y, y = DoubleOf(Operand16, ReadHigh16(Rest, prefix, ModRm))
        PROVE  /\ Carry <=> ~RoomFor(x, y)
               /\ ~Carry => DoubleOf(Destination, GetHigh16(machine.regs, Field)) = x * y
    BY <2>5, <2>7, Imul32Exact DEF Carry, Destination
  <2>8. Carry \in BOOLEAN
    BY DEF Carry, Flag
  <2>. SUFFICES ASSUME InstructionInv  PROVE ProductsExact
    OBVIOUS
  <2>9. Executing(FALSE, {246}) /\ Field = 4 =>
          /\ Get16(machine.regs, AX) = Get8(before.regs, AL) * Operand8
          /\ Carry = (Get8(before.regs, AL) * Operand8 >= 256)
    BY <2>1, <2>8
  <2>10. Executing(FALSE, {246}) /\ Field = 5 =>
           /\ Signed16(Get16(machine.regs, AX))
                = SignExtend(Get8(before.regs, AL)) * SignExtend(Operand8)
           /\ Carry = ~Fits(SignExtend(Get8(before.regs, AL)) * SignExtend(Operand8), 256)
    BY <2>2, <2>8
  <2>11. Executing(FALSE, {247}) /\ Field = 4 =>
           LET a == Get16(before.regs, AX)
               u == Signed16(a) * Operand16
               top == u \div WordSize + (IF a >= 32768 THEN Operand16 ELSE 0)
           IN  /\ Get16(machine.regs, AX) = u % WordSize
               /\ Get16(machine.regs, DX) = top /\ Carry = (top # 0)
    BY <2>3, <2>8
  <2>12. Executing(FALSE, {247}) /\ Field = 5 =>
           LET x == SignedTimes(Get16(before.regs, AX), Operand16)
           IN  /\ DoubleOf(Get16(machine.regs, AX), Get16(machine.regs, DX)) = x
               /\ Carry = ~Fits(x, WordSize)
    BY <2>4, <2>8
  <2>13. ByteProductsExact /\ WordProductsExact
    <3>1. ByteProductsExact
      BY ONLY <2>9, <2>10 DEF ByteProductsExact
    <3>2. WordProductsExact
      <4>1. CASE Field = 4
        BY ONLY <2>11, <4>1 DEF WordProductsExact
      <4>2. CASE Field = 5
        <5>1. Field # 4
          BY ONLY <4>2
        <5>. QED  BY ONLY <2>12, <4>2, <5>1, SMTT(20) DEF WordProductsExact
      <4>3. CASE Field # 4 /\ Field # 5
        BY ONLY <4>3 DEF WordProductsExact
      <4>. QED  BY ONLY <4>1, <4>2, <4>3
    <3>. QED  BY <3>1, <3>2
  <2>14. CASE prefix.operand32
    <3>1. Executing(TRUE, {175}) =>
            LET x == DoubleOf(Source, GetHigh16(before.regs, Field))
                y == DoubleOf(Operand16, ReadHigh16(Rest, prefix, ModRm))
            IN  /\ Carry = ~RoomFor(x, y)
                /\ ~Carry => DoubleOf(Destination, GetHigh16(machine.regs, Field)) = x * y
      BY <2>7, <2>8, <2>14
    <3>2. TwoOperandProductsExact
      BY ONLY <2>14, <3>1 DEF TwoOperandProductsExact
    <3>. QED  BY <2>13, <3>2 DEF ProductsExact
  <2>15. CASE ~prefix.operand32
    <3>1. Executing(TRUE, {175}) =>
            Carry = (Signed16(Destination) # SignedTimes(Source, Operand16))
      BY <2>6, <2>8, <2>15
    <3>2. TwoOperandProductsExact
      BY ONLY <2>15, <3>1 DEF TwoOperandProductsExact
    <3>. QED  BY <2>13, <3>2 DEF ProductsExact
  <2>. QED  BY <2>14, <2>15
<1>. QED  BY <1>1, InstructionAlways, PTL

=============================================================================
