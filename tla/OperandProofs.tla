--------------------------- MODULE OperandProofs ---------------------------
(***************************************************************************)
(* The machine stays well typed under the operations instructions are made *)
(* of - the stack, fetching, operands of every form, arithmetic, and the   *)
(* instructions behind the escape byte - and so under every instruction.   *)
(***************************************************************************)
EXTENDS Bios, Interp, JitProofs

LEMMA Parts ==
  ASSUME NEW s, IsMachine(s)
  PROVE  s.regs \in Regs /\ IsMem(s.mem) /\ IsDos(s.dos) /\ s.halted \in BOOLEAN
  BY DEF IsMachine

LEMMA WithRegs ==
  ASSUME NEW s, IsMachine(s), NEW r \in Regs
  PROVE  /\ IsMachine([s EXCEPT !.regs = r])
         /\ [s EXCEPT !.regs = r].regs = r
         /\ [s EXCEPT !.regs = r].mem = s.mem
         /\ [s EXCEPT !.regs = r].dos = s.dos
         /\ [s EXCEPT !.regs = r].halted = s.halted
  BY DEF IsMachine

LEMMA WithMem ==
  ASSUME NEW s, IsMachine(s), NEW m, IsMem(m)
  PROVE  /\ IsMachine([s EXCEPT !.mem = m])
         /\ [s EXCEPT !.mem = m].mem = m
         /\ [s EXCEPT !.mem = m].regs = s.regs
         /\ [s EXCEPT !.mem = m].dos = s.dos
         /\ [s EXCEPT !.mem = m].halted = s.halted
  BY DEF IsMachine

LEMMA WithDos ==
  ASSUME NEW s, IsMachine(s), NEW d, IsDos(d)
  PROVE  IsMachine([s EXCEPT !.dos = d]) /\ [s EXCEPT !.dos = d].regs = s.regs
         /\ [s EXCEPT !.dos = d].mem = s.mem
  BY DEF IsMachine

LEMMA WithHalted ==
  ASSUME NEW s, IsMachine(s), NEW h \in BOOLEAN
  PROVE  IsMachine([s EXCEPT !.halted = h])
  BY DEF IsMachine

-----------------------------------------------------------------------------
\* The stack.

LEMMA StackAddr ==
  ASSUME NEW r \in Regs, NEW sp \in Word
  PROVE  Phys(GetSeg(r, SS), sp) \in Addr
  BY SegPhys, WordAddr DEF SS, SegReg

LEMMA SpWord ==
  ASSUME NEW r \in Regs, NEW k \in Int
  PROVE  Get16(r, SP) \in Word /\ Wrap16(Get16(r, SP) + k) \in Word
<1>1. Get16(r, SP) \in Word
  BY Get16Word DEF SP, Reg
<1>2. Get16(r, SP) + k \in Int
  BY <1>1, WordRange
<1>. QED  BY <1>1, <1>2, WrapInWord

LEMMA Push16Typed ==
  ASSUME NEW s, IsMachine(s), NEW v \in Word
  PROVE  IsMachine(Push16(s, v))
<1>. DEFINE sp == Wrap16(Get16(s.regs, SP) - 2)
            r == Set16(s.regs, SP, sp)
            m == WriteU16(s.mem, Phys(GetSeg(s.regs, SS), sp), v)
<1>1. s.regs \in Regs /\ IsMem(s.mem)
  BY Parts
<1>2. sp \in Word
  <2>1. Get16(s.regs, SP) \in Int /\ Get16(s.regs, SP) \in Word
    BY <1>1, SpWord, WordRange
  <2>2. Get16(s.regs, SP) - 2 \in Int
    BY <2>1
  <2>. QED  BY <2>2, WrapInWord
<1>3. Phys(GetSeg(s.regs, SS), sp) \in Addr
  BY <1>1, <1>2, StackAddr
<1>4. r \in Regs
  BY <1>1, <1>2, Set16Regs DEF SP, Reg
<1>5. IsMem(m)
  BY <1>1, <1>3, WriteU16IsMem
<1>6. Push16(s, v) = [s EXCEPT !.regs = r, !.mem = m]
  BY DEF Push16
<1>. HIDE DEF r, m
<1>. QED  BY <1>4, <1>5, <1>6 DEF IsMachine

LEMMA Top16Word ==
  ASSUME NEW s, IsMachine(s)
  PROVE  Top16(s) \in Word
<1>1. s.regs \in Regs /\ IsMem(s.mem)
  BY Parts
<1>2. Get16(s.regs, SP) \in Word
  BY <1>1, SpWord
<1>3. Phys(GetSeg(s.regs, SS), Get16(s.regs, SP)) \in Addr
  BY <1>1, <1>2, StackAddr
<1>. QED  BY <1>1, <1>3, ReadU16IsWord DEF Top16

LEMMA AddSpTyped ==
  ASSUME NEW s, IsMachine(s), NEW n \in Int
  PROVE  IsMachine(AddSp(s, n))
<1>1. s.regs \in Regs
  BY Parts
<1>2. Wrap16(Get16(s.regs, SP) + n) \in Word
  BY <1>1, SpWord
<1>3. Set16(s.regs, SP, Wrap16(Get16(s.regs, SP) + n)) \in Regs
  BY <1>1, <1>2, Set16Regs DEF SP, Reg
<1>. QED  BY <1>3, WithRegs DEF AddSp

LEMMA Drop16Typed ==
  ASSUME NEW s, IsMachine(s)
  PROVE  IsMachine(Drop16(s))
<1>1. Drop16(s) = AddSp(s, 2)
  BY DEF Drop16, AddSp
<1>. QED  BY <1>1, AddSpTyped

LEMMA PushFrameTyped ==
  ASSUME NEW s, IsMachine(s)
  PROVE  IsMachine(PushFrame(s))
<1>1. s.regs \in Regs
  BY Parts
<1>2. s.regs.flags \in Word /\ GetSeg(s.regs, CS) \in Word
  BY <1>1, GetSegWord DEF Regs, CS, SegReg
<1>3. Wrap16(s.regs.ip) \in Word
  <2>1. s.regs.ip \in Int
    BY <1>1, AddrRange DEF Regs
  <2>. QED  BY <2>1, WrapInWord
<1>. QED  BY <1>2, <1>3, Push16Typed DEF PushFrame

LEMMA PopFrameTyped ==
  ASSUME NEW s, IsMachine(s)
  PROVE  IsMachine(PopFrame(s))
<1>. DEFINE s1 == Drop16(s)
            s2 == Drop16(s1)
            s3 == Drop16(s2)
            r == [SetSeg(SetIp(s3.regs, Top16(s)), CS, Top16(s1))
                    EXCEPT !.flags = Top16(s2)]
<1>1. IsMachine(s1) /\ IsMachine(s2) /\ IsMachine(s3)
  BY Drop16Typed
<1>2. Top16(s) \in Word /\ Top16(s1) \in Word /\ Top16(s2) \in Word
  BY <1>1, Top16Word
<1>3. s3.regs \in Regs
  BY <1>1, Parts
<1>. HIDE DEF s1, s2, s3
<1>4. SetIp(s3.regs, Top16(s)) \in Regs
  BY <1>2, <1>3, WordAddr, SetIpRegs
<1>5. SetSeg(SetIp(s3.regs, Top16(s)), CS, Top16(s1)) \in Regs
  BY <1>2, <1>4, SetSegRegs DEF CS, SegReg
<1>6. r \in Regs
  BY <1>2, <1>5, FlagsRegs
<1>7. PopFrame(s) = [s3 EXCEPT !.regs = r]
  BY DEF PopFrame, s1, s2, s3
<1>. HIDE DEF r
<1>. QED  BY <1>1, <1>6, <1>7, WithRegs

-----------------------------------------------------------------------------
\* Fetching, jumps and operands.

LEMMA GotoTyped ==
  ASSUME NEW s, IsMachine(s), NEW ip \in Addr
  PROVE  IsMachine(Goto(s, ip)) /\ Goto(s, ip).mem = s.mem
<1>1. SetIp(s.regs, ip) \in Regs
  BY Parts, SetIpRegs
<1>. QED  BY <1>1, WithRegs DEF Goto

LEMMA GotoFarTyped ==
  ASSUME NEW s, IsMachine(s), NEW seg \in Word, NEW off \in Word
  PROVE  IsMachine(GotoFar(s, seg, off))
<1>1. SetIp(s.regs, off) \in Regs
  BY Parts, SetIpRegs, WordAddr
<1>2. SetSeg(SetIp(s.regs, off), CS, seg) \in Regs
  BY <1>1, SetSegRegs DEF CS, SegReg
<1>. QED  BY <1>2, WithRegs DEF GotoFar

LEMMA IpAddr ==
  ASSUME NEW s, IsMachine(s)
  PROVE  s.regs.ip \in Addr /\ NextIp(s) \in Regs /\ NextIp(s).ip \in Addr
<1>1. s.regs \in Regs /\ s.regs.ip \in Addr
  BY Parts DEF Regs
<1>2. Wrap16(s.regs.ip + 1) \in Addr
  BY <1>1, MoveIp
<1>. QED  BY <1>1, <1>2, SetIpRegs DEF NextIp, SetIp, Regs

LEMMA SkipTyped ==
  ASSUME NEW s, IsMachine(s)
  PROVE  IsMachine(Skip(s)) /\ IsMachine(Skip16(s))
<1>1. ASSUME NEW t, IsMachine(t)  PROVE IsMachine(Skip(t))
  BY <1>1, IpAddr, WithRegs DEF Skip
<1>. QED  BY <1>1 DEF Skip16

LEMMA FetchTyped ==
  ASSUME NEW s, IsMachine(s)
  PROVE  Imm8(s) \in Byte /\ Imm16(s) \in Word
<1>1. ASSUME NEW t, IsMachine(t)  PROVE Imm8(t) \in Byte
  <2>1. Phys(GetSeg(t.regs, CS), t.regs.ip) \in Addr
    BY <1>1, Parts, IpAddr, SegPhys DEF CS, SegReg
  <2>. QED  BY <1>1, <2>1, Parts, ReadU8IsByte DEF Imm8
<1>. QED  BY <1>1, SkipTyped, Words DEF Imm16

LEMMA FieldsTyped ==
  ASSUME NEW b \in Byte
  PROVE  /\ ModRmReg(b) \in Reg /\ ModRmRm(b) \in Reg
         /\ SegField(b) \in SegReg
<1>1. ModRmReg(b) \in Reg /\ ModRmRm(b) \in Reg
  BY ByteRange DEF ModRmReg, ModRmRm, Reg
<1>. QED  BY <1>1 DEF SegField, SegReg, DS, Reg

LEMMA TargetsTyped ==
  ASSUME NEW s, IsMachine(s)
  PROVE  ShortTarget(s) \in Addr /\ NearTarget(s) \in Addr
<1>1. Imm8(s) \in Byte /\ Imm16(s) \in Word
  BY FetchTyped
<1>2. SignExtend(Imm8(s)) \in Int /\ Imm16(s) \in Int
  BY <1>1, SignExtendInt, WordRange
<1>3. NextIp(s).ip \in Addr /\ Skip16(s).regs.ip \in Addr
  BY IpAddr, SkipTyped
<1>. QED  BY <1>2, <1>3, MoveIp DEF ShortTarget, NearTarget

LEMMA JumpIfTyped ==
  ASSUME NEW s, IsMachine(s), NEW taken \in BOOLEAN
  PROVE  IsMachine(JumpIf(s, taken))
<1>1. (IF taken THEN ShortTarget(s) ELSE NextIp(s).ip) \in Addr
  BY TargetsTyped, IpAddr
<1>. QED  BY <1>1, GotoTyped DEF JumpIf

LEMMA Set16Typed ==
  ASSUME NEW s, IsMachine(s), NEW i \in Reg, NEW v \in Word
  PROVE  IsMachine([s EXCEPT !.regs = Set16(@, i, v)])
<1>1. Set16(s.regs, i, v) \in Regs
  BY Parts, Set16Regs
<1>. QED  BY <1>1, WithRegs

LEMMA Set8Typed ==
  ASSUME NEW s, IsMachine(s), NEW i \in Reg, NEW v \in Byte
  PROVE  IsMachine([s EXCEPT !.regs = Set8(@, i, v)])
<1>1. Set8(s.regs, i, v) \in Regs
  BY Parts, Set8Regs
<1>. QED  BY <1>1, WithRegs

LEMMA SetSegTyped ==
  ASSUME NEW s, IsMachine(s), NEW i \in SegReg, NEW v \in Word
  PROVE  IsMachine([s EXCEPT !.regs = SetSeg(@, i, v)])
<1>1. SetSeg(s.regs, i, v) \in Regs
  BY Parts, SetSegRegs
<1>. QED  BY <1>1, WithRegs

LEMMA SetFlagTyped ==
  ASSUME NEW s, IsMachine(s), NEW on, NEW f \in Flags
  PROVE  IsMachine([s EXCEPT !.regs = SetFlag(@, f, on)])
<1>1. SetFlag(s.regs, f, on) \in Regs
  BY Parts, SetFlagRegs
<1>. QED  BY <1>1, WithRegs

-----------------------------------------------------------------------------
\* Operands.

LEMMA WithRegTyped ==
  ASSUME NEW s, IsMachine(s), NEW r \in Regs
  PROVE  /\ IsMachine(WithReg(s, r)) /\ WithReg(s, r).regs = r
         /\ WithReg(s, r).mem = s.mem
  BY WithRegs DEF WithReg

LEMMA ImmediatesInt ==
  ASSUME NEW s, IsMachine(s)
  PROVE  /\ Imm8(s) \in Byte /\ Imm16(s) \in Word /\ SignExtend(Imm8(s)) \in Int
         /\ Imm8(s) \in Int /\ Imm16(s) \in Int /\ Imm32(s) \in Int
<1>1. Imm8(s) \in Byte /\ Imm16(s) \in Word /\ Imm16(Skip16(s)) \in Word
  BY FetchTyped, SkipTyped
<1>2. Imm16(s) \in Int /\ Imm16(Skip16(s)) \in Int
  BY <1>1, WordRange
<1>3. Imm16(Skip16(s)) % 16 \in Int
  BY <1>2, SMT
<1>4. Imm32(s) \in Int
  BY <1>2, <1>3, WordSizeNat DEF Imm32
<1>. QED  BY <1>1, <1>2, <1>4, SignExtendInt, ByteRange

\* A decoded address: a segment register, an address, and the machine after it.
IsEa(ea) == ea.seg \in SegReg /\ ea.off \in Addr /\ IsMachine(ea.next)

LEMMA EaTypedBy ==
  ASSUME NEW seg \in {SS, DS}, NEW off \in Int, NEW t, IsMachine(t)
  PROVE  IsEa(Ea(seg, Wrap16(off), t)) /\ IsEa(Ea(seg, off % MemSize, t))
<1>1. seg \in SegReg
  BY DEF SS, DS, SegReg
<1>2. Wrap16(off) \in Addr /\ off % MemSize \in Addr
  BY WrapInWord, WordAddr, ModAddr
<1>. QED  BY <1>1, <1>2 DEF IsEa, Ea

LEMMA Ea16Typed ==
  ASSUME NEW s, IsMachine(s), NEW b \in Byte
  PROVE  IsEa(DecodeEa16(s, b))
<1>. DEFINE seg == IF StackBased16(b) THEN SS ELSE DS
            base == Base16(s.regs, b)
<1>1. seg \in {SS, DS}
  OBVIOUS
<1>2. base \in Int
  <2>1. \A i \in Reg : Get16(s.regs, i) \in Int
    BY Parts, Get16Word, WordRange
  <2>2. ModRmRm(b) \in 0 .. 7
    BY FieldsTyped DEF Reg
  <2>3. BX \in Reg /\ BP \in Reg /\ SI \in Reg /\ DI \in Reg
    BY DEF BX, BP, SI, DI, Reg
  <2>. QED  BY <2>1, <2>2, <2>3 DEF Base16
<1>. HIDE DEF seg, base
<1>3. base + SignExtend(Imm8(s)) \in Int /\ base + Imm16(s) \in Int
  BY <1>2, ImmediatesInt
<1>4. /\ IsEa(Ea(seg, Wrap16(base + SignExtend(Imm8(s))), Skip(s)))
      /\ IsEa(Ea(seg, Wrap16(base + Imm16(s)), Skip16(s)))
      /\ IsEa(Ea(seg, Wrap16(base), s))
  BY <1>1, <1>2, <1>3, EaTypedBy, SkipTyped
<1>5. IsEa(Ea(seg, Imm16(s), Skip16(s)))
  <2>1. Wrap16(Imm16(s)) = Imm16(s) /\ Imm16(s) \in Int
    BY ImmediatesInt, WrapWord
  <2>2. IsMachine(Skip16(s))
    BY SkipTyped
  <2>3. IsEa(Ea(seg, Wrap16(Imm16(s)), Skip16(s)))
    BY <1>1, <2>1, <2>2, EaTypedBy
  <2>. QED  BY <2>1, <2>3
<1>6. DecodeEa16(s, b) \in
        {Ea(seg, Imm16(s), Skip16(s)),
         Ea(seg, Wrap16(base + SignExtend(Imm8(s))), Skip(s)),
         Ea(seg, Wrap16(base + Imm16(s)), Skip16(s)),
         Ea(seg, Wrap16(base), s)}
  BY DEF DecodeEa16, seg, base
<1>. QED  BY <1>4, <1>5, <1>6

LEMMA SibTyped ==
  ASSUME NEW s, IsMachine(s), NEW b \in Byte
  PROVE  /\ ModRmRm(Sib(s, b)) \in Reg
         /\ Indexed(s.regs, Sib(s, b)) \in Int
         /\ IsMachine(AfterSib(s, b))
<1>1. Sib(s, b) \in Byte
  <2>1. ModRmRm(b) \in 0 .. 7 /\ Imm8(s) \in Byte
    BY FieldsTyped, FetchTyped DEF Reg
  <2>. QED  BY <2>1, ByteRange DEF Sib, NoIndex
<1>. DEFINE sib == Sib(s, b)
<1>2. ModRmRm(sib) \in Reg /\ ModRmReg(sib) \in Reg
  BY <1>1, FieldsTyped
<1>3. Scale(sib) \in Int
  <2>1. ModRmMode(sib) + 1 \in 1 .. 4
    <3>1. sib \in Int /\ 0 <= sib /\ sib <= 255
      BY <1>1, ByteRange
    <3>. HIDE DEF sib
    <3>. QED  BY <3>1, SMT DEF ModRmMode
  <2>. HIDE DEF sib
  <2>. QED  BY <2>1 DEF Scale
<1>4. GetAddr(s.regs, ModRmReg(sib)) \in Int
  BY <1>2, Parts, GetAddrInt
<1>5. Indexed(s.regs, sib) \in Int
  BY <1>3, <1>4 DEF Indexed
<1>. QED  BY <1>2, <1>5, SkipTyped DEF AfterSib

LEMMA Ea32Typed ==
  ASSUME NEW s, IsMachine(s), NEW b \in Byte
  PROVE  IsEa(DecodeEa32(s, b))
<1>. DEFINE sib == Sib(s, b)
            t == AfterSib(s, b)
            seg == IF StackBased32(b, sib) THEN SS ELSE DS
            index == Indexed(s.regs, sib)
            base == GetAddr(s.regs, ModRmRm(sib)) + index
            wide == Skip16(Skip16(t))
<1>1. seg \in {SS, DS}
  OBVIOUS
<1>2. index \in Int /\ base \in Int
  BY SibTyped, Parts, GetAddrInt
<1>3. IsMachine(t) /\ IsMachine(Skip(t)) /\ IsMachine(wide)
  BY SibTyped, SkipTyped
<1>4. SignExtend(Imm8(t)) \in Int /\ Imm32(t) \in Int
  BY <1>3, ImmediatesInt
<1>. HIDE DEF sib, t, seg, index, base, wide
<1>5. Imm32(t) + index \in Int /\ base + SignExtend(Imm8(t)) \in Int
      /\ base + Imm32(t) \in Int
  BY <1>2, <1>4
<1>6. /\ IsEa(Ea(seg, (Imm32(t) + index) % MemSize, wide))
      /\ IsEa(Ea(seg, (base + SignExtend(Imm8(t))) % MemSize, Skip(t)))
      /\ IsEa(Ea(seg, (base + Imm32(t)) % MemSize, wide))
      /\ IsEa(Ea(seg, base % MemSize, t))
  BY <1>1, <1>2, <1>3, <1>5, EaTypedBy
<1>7. DecodeEa32(s, b) \in
        {Ea(seg, (Imm32(t) + index) % MemSize, wide),
         Ea(seg, (base + SignExtend(Imm8(t))) % MemSize, Skip(t)),
         Ea(seg, (base + Imm32(t)) % MemSize, wide),
         Ea(seg, base % MemSize, t)}
  BY DEF DecodeEa32, sib, t, seg, index, base, wide
<1>. QED  BY <1>6, <1>7

LEMMA EaTyped ==
  ASSUME NEW s, IsMachine(s), NEW p \in PrefixState, NEW b \in Byte
  PROVE  EaAddr(s, p, b) \in Addr /\ IsMachine(AfterEa(s, p, b))
         /\ IsMachine(AfterOperand(s, p, b))
<1>1. IsEa(DecodeEa(s, p, b))
  BY Ea16Typed, Ea32Typed DEF DecodeEa
<1>2. EaSeg(s, p, b) \in SegReg
  <2>1. p.seg \in 0 .. 6
    BY DEF PrefixState
  <2>. QED  BY <1>1, <2>1 DEF EaSeg, IsEa, NoOverride, SegReg
<1>3. EaAddr(s, p, b) \in Addr
  BY <1>1, <1>2, Parts, SegPhys DEF EaAddr, IsEa
<1>4. IsMachine(AfterEa(s, p, b))
  BY <1>1 DEF AfterEa, IsEa
<1>. QED  BY <1>3, <1>4 DEF AfterOperand

LEMMA ReadsTyped ==
  ASSUME NEW s, IsMachine(s), NEW p \in PrefixState, NEW b \in Byte
  PROVE  /\ Read8(s, p, b) \in Byte /\ Read16(s, p, b) \in Word
         /\ ReadHigh16(s, p, b) \in Word
<1>1. s.regs \in Regs /\ IsMem(s.mem) /\ ModRmRm(b) \in Reg
  BY Parts, FieldsTyped
<1>2. EaAddr(s, p, b) \in Addr /\ (EaAddr(s, p, b) + 2) % MemSize \in Addr
  <2>1. EaAddr(s, p, b) \in Addr
    BY EaTyped
  <2>2. EaAddr(s, p, b) + 2 \in Int
    BY <2>1, AddrRange
  <2>. QED  BY <2>1, <2>2, ModAddr
<1>. QED
  BY <1>1, <1>2, Get8Byte, Get16Word, HighWord, ReadU8IsByte, ReadU16IsWord
  DEF Read8, Read16, ReadHigh16

LEMMA WritesTyped ==
  ASSUME NEW s, IsMachine(s), NEW p \in PrefixState, NEW b \in Byte
  PROVE  /\ \A v \in Byte : IsMachine(Write8(s, p, b, v))
         /\ \A v \in Word : IsMachine(Write16(s, p, b, v))
<1>1. s.regs \in Regs /\ ModRmRm(b) \in Reg
  BY Parts, FieldsTyped
<1>2. EaAddr(s, p, b) \in Addr
  BY EaTyped
<1>. DEFINE t == AfterEa(s, p, b)
<1>3. IsMachine(t) /\ IsMem(t.mem)
  BY EaTyped, Parts
<1>4. ASSUME NEW v \in Byte  PROVE IsMachine(Write8(s, p, b, v))
  <2>1. WithReg(s, Set8(s.regs, ModRmRm(b), v)).regs \in Regs
        /\ IsMachine(WithReg(s, Set8(s.regs, ModRmRm(b), v)))
    BY <1>1, Set8Regs, WithRegTyped
  <2>2. IsMem(WriteU8(t.mem, EaAddr(s, p, b), v))
    BY <1>2, <1>3, WriteU8IsMem
  <2>3. IsMachine([t EXCEPT !.mem = WriteU8(t.mem, EaAddr(s, p, b), v)])
    BY <1>3, <2>2, WithMem
  <2>. QED  BY <2>1, <2>3 DEF Write8
<1>5. ASSUME NEW v \in Word  PROVE IsMachine(Write16(s, p, b, v))
  <2>1. IsMachine(WithReg(s, Set16(s.regs, ModRmRm(b), v)))
    BY <1>1, Set16Regs, WithRegTyped
  <2>2. IsMem(WriteU16(t.mem, EaAddr(s, p, b), v))
    BY <1>2, <1>3, WriteU16IsMem
  <2>3. IsMachine([t EXCEPT !.mem = WriteU16(t.mem, EaAddr(s, p, b), v)])
    BY <1>3, <2>2, WithMem
  <2>. QED  BY <2>1, <2>3 DEF Write16
<1>. QED  BY <1>4, <1>5

-----------------------------------------------------------------------------
\* Flags and bits.

\* Each of these sets flags, whatever the values are.
LEMMA FlagsTyped ==
  ASSUME NEW r \in Regs, NEW v, NEW n
  PROVE  /\ ResultFlags(r, v, n) \in Regs
         /\ LogicFlags(r, v, n) \in Regs
         /\ \A c, o : CarryOverflow(r, c, o) \in Regs
         /\ \A a, b : /\ AddFlags(r, a, b, v, n) \in Regs
                      /\ SubFlags(r, a, b, v, n) \in Regs
<1>1. /\ CarryFlag \in Flags /\ ParityFlag \in Flags /\ AuxFlag \in Flags
      /\ ZeroFlag \in Flags /\ SignFlag \in Flags /\ OverflowFlag \in Flags
  BY DEF Flags
<1>2. ASSUME NEW q \in Regs, NEW c, NEW o  PROVE CarryOverflow(q, c, o) \in Regs
  <2>1. SetFlag(q, CarryFlag, c) \in Regs
    BY <1>1, SetFlagRegs
  <2>. QED  BY <1>1, <2>1, SetFlagRegs DEF CarryOverflow
<1>3. ResultFlags(r, v, n) \in Regs
  <2>1. SetFlag(r, ZeroFlag, v = 0) \in Regs
    BY <1>1, SetFlagRegs
  <2>2. SetFlag(SetFlag(r, ZeroFlag, v = 0), SignFlag, Negative(v, n)) \in Regs
    BY <1>1, <2>1, SetFlagRegs
  <2>. QED  BY <1>1, <2>2, SetFlagRegs DEF ResultFlags
<1>4. LogicFlags(r, v, n) \in Regs
  BY <1>2, <1>3 DEF LogicFlags
<1>5. ASSUME NEW a, NEW b
      PROVE  AddFlags(r, a, b, v, n) \in Regs /\ SubFlags(r, a, b, v, n) \in Regs
  <2>1. ASSUME NEW c, NEW o, NEW x
        PROVE  SetFlag(CarryOverflow(ResultFlags(r, v, n), c, o), AuxFlag, x)
                 \in Regs
    BY <1>1, <1>2, <1>3, SetFlagRegs
  <2>. QED  BY Zenon, <2>1 DEF AddFlags, SubFlags
<1>. QED  BY <1>2, <1>3, <1>4, <1>5

\* A set of positions is a word.
LEMMA FromBitsWord == \A B : FromBits(B) \in Word
<1>1. SUFFICES ASSUME NEW B  PROVE FromBits(B) \in Word
  OBVIOUS
<1>. DEFINE value(i, v) == IF i \in B THEN v ELSE 0
            Fits(x, v) == x \in Int /\ 0 <= x /\ x <= v
<1>2. ASSUME NEW i, NEW v \in Nat  PROVE Fits(value(i, v), v)
  OBVIOUS
<1>3. /\ Fits(value(0, 1), 1) /\ Fits(value(1, 2), 2)
      /\ Fits(value(2, 4), 4) /\ Fits(value(3, 8), 8)
      /\ Fits(value(4, 16), 16) /\ Fits(value(5, 32), 32)
      /\ Fits(value(6, 64), 64) /\ Fits(value(7, 128), 128)
      /\ Fits(value(8, 256), 256) /\ Fits(value(9, 512), 512)
      /\ Fits(value(10, 1024), 1024) /\ Fits(value(11, 2048), 2048)
      /\ Fits(value(12, 4096), 4096) /\ Fits(value(13, 8192), 8192)
      /\ Fits(value(14, 16384), 16384) /\ Fits(value(15, 32768), 32768)
  BY <1>2
<1>4. FromBits(B) =
        value(0, 1) + value(1, 2) + value(2, 4) + value(3, 8) + value(4, 16)
          + value(5, 32) + value(6, 64) + value(7, 128) + value(8, 256)
          + value(9, 512) + value(10, 1024) + value(11, 2048)
          + value(12, 4096) + value(13, 8192) + value(14, 16384)
          + value(15, 32768)
  BY DEF FromBits
<1>. HIDE DEF value
<1>. QED  BY <1>3, <1>4, WordRange

LEMMA BitsPositions == \A v : Bits(v) \subseteq Position
  BY DEF Bits

\* A set of positions that is not empty has a lowest and a highest one.
LEMMA ScanTyped ==
  ASSUME NEW B \in SUBSET Position, B # {}
  PROVE  /\ Lowest(B) \in Word /\ Highest(B) \in Word
         /\ Lowest(B) \in B /\ Highest(B) \in B
         /\ \A j \in B : Lowest(B) <= j /\ j <= Highest(B)
<1>. DEFINE NoneBelow(k) == \A j \in B : k <= j
            NoneAbove(k) == \A j \in B : j <= k
<1>1. \A j \in B : j \in Int /\ 0 <= j /\ j <= 15
  BY DEF Position
<1>2. \E i \in B : NoneBelow(i)
  <2>1. SUFFICES ASSUME \A i \in B : ~NoneBelow(i)  PROVE FALSE
    OBVIOUS
  <2>2. NoneBelow(0) /\ ~NoneBelow(16)
    BY <1>1
  <2>3. \A k \in Int : NoneBelow(k) => NoneBelow(k + 1)
    BY <1>1, <2>1
  <2>. HIDE DEF NoneBelow
  <2>4. NoneBelow(1) /\ NoneBelow(2) /\ NoneBelow(3) /\ NoneBelow(4)
    BY <2>2, <2>3
  <2>5. NoneBelow(5) /\ NoneBelow(6) /\ NoneBelow(7) /\ NoneBelow(8)
    BY <2>3, <2>4
  <2>6. NoneBelow(9) /\ NoneBelow(10) /\ NoneBelow(11) /\ NoneBelow(12)
    BY <2>3, <2>5
  <2>7. NoneBelow(13) /\ NoneBelow(14) /\ NoneBelow(15) /\ NoneBelow(16)
    BY <2>3, <2>6
  <2>. QED  BY <2>2, <2>7
<1>3. \E i \in B : NoneAbove(i)
  <2>1. SUFFICES ASSUME \A i \in B : ~NoneAbove(i)  PROVE FALSE
    OBVIOUS
  <2>2. NoneAbove(15) /\ ~NoneAbove(-1)
    BY <1>1
  <2>3. \A k \in Int : NoneAbove(k) => NoneAbove(k - 1)
    BY <1>1, <2>1
  <2>. HIDE DEF NoneAbove
  <2>4. NoneAbove(14) /\ NoneAbove(13) /\ NoneAbove(12) /\ NoneAbove(11)
    BY <2>2, <2>3
  <2>5. NoneAbove(10) /\ NoneAbove(9) /\ NoneAbove(8) /\ NoneAbove(7)
    BY <2>3, <2>4
  <2>6. NoneAbove(6) /\ NoneAbove(5) /\ NoneAbove(4) /\ NoneAbove(3)
    BY <2>3, <2>5
  <2>7. NoneAbove(2) /\ NoneAbove(1) /\ NoneAbove(0) /\ NoneAbove(-1)
    BY <2>3, <2>6
  <2>. QED  BY <2>2, <2>7
<1>4. /\ Lowest(B) \in B /\ Highest(B) \in B
      /\ \A j \in B : Lowest(B) <= j
  BY <1>2, <1>3, Zenon DEF Lowest, Highest
<1>5. \A j \in B : Highest(B) >= j
  <2>1. \E i \in B : \A j \in B : i >= j
    BY <1>1, <1>3
  <2>. QED  BY <2>1, Zenon DEF Highest
<1>6. \A j \in B : j <= Highest(B)
  BY <1>1, <1>4, <1>5
<1>. QED  BY <1>1, <1>4, <1>6, WordRange

-----------------------------------------------------------------------------
\* Arithmetic.

LEMMA SignedInt == ASSUME NEW v \in Word PROVE Signed16(v) \in Int
  BY WordRange, WordSizeNat DEF Signed16

LEMMA LowByte == ASSUME NEW x \in Int PROVE Lo(x) \in Byte
<1>1. x % 256 \in Int /\ 0 <= x % 256 /\ x % 256 <= 255
  BY Z3
<1>. QED  BY <1>1, ByteRange DEF Lo

\* A quotient and a remainder are numbers, when there are any.
LEMMA DivInt ==
  ASSUME NEW x \in Int, NEW d \in Int, d > 0
  PROVE  x \div d \in Int /\ x % d \in Int
  BY DivMod, SMT

LEMMA QuotInt ==
  ASSUME NEW a \in Int, NEW d \in Int, d # 0
  PROVE  Quot(a, d) \in Int /\ Rem(a, d) \in Int
<1>1. Abs(d) \in Int /\ Abs(d) > 0
  BY DEF Abs
<1>2. (a + Abs(d) - 1) \div Abs(d) \in Int /\ a \div Abs(d) \in Int
  BY <1>1, DivInt
<1>3. Quot(a, d) \in Int
  BY <1>2 DEF Quot
<1>4. Quot(a, d) * d \in Int
  BY <1>3
<1>. QED  BY <1>3, <1>4 DEF Rem

LEMMA Mul32Words ==
  ASSUME NEW a \in Word, NEW b \in Word
  PROVE  Mul32(a, b)[1] \in Word /\ Mul32(a, b)[2] \in Word
<1>. DEFINE high == Hi(a) * b
            low == 256 * Lo(high) + Lo(a) * b
<1>1. Hi(a) \in Int /\ Lo(a) \in Int /\ b \in Int
  BY Halves, WordRange, ByteRange
<1>2. high \in Int /\ Lo(a) * b \in Int
  BY <1>1
<1>. HIDE DEF high
<1>3. Lo(high) \in Int /\ Hi(high) \in Int
  BY <1>2, LowByte, ByteRange, DivInt DEF Hi
<1>4. low \in Int
  BY <1>2, <1>3
<1>. HIDE DEF low
<1>5. low \div WordSize \in Int
  BY <1>4, DivInt, WordSizeNat
<1>6. Wrap16(low) \in Word /\ Wrap16(Hi(high) + low \div WordSize) \in Word
  BY <1>3, <1>4, <1>5, WrapInWord
<1>. QED  BY <1>6 DEF Mul32, high, low

LEMMA DivUWords ==
  ASSUME NEW high \in Word, NEW low \in Word, NEW d \in Word, d # 0
  PROVE  DivU(high, low, d)[1] \in Word /\ DivU(high, low, d)[2] \in Word
<1>. DEFINE r0 == 256 * (high % d) + Hi(low)
            r1 == 256 * (r0 % d) + Lo(low)
<1>1. high \in Int /\ d \in Int /\ d > 0 /\ Hi(low) \in Int /\ Lo(low) \in Int
  BY WordRange, Halves, ByteRange
<1>2. high % d \in Int
  BY <1>1, DivInt
<1>3. r0 \in Int
  BY <1>1, <1>2
<1>. HIDE DEF r0
<1>4. r0 % d \in Int /\ r0 \div d \in Int
  BY <1>1, <1>3, DivInt
<1>5. r1 \in Int
  BY <1>1, <1>4
<1>. HIDE DEF r1
<1>6. r1 % d \in Int /\ 256 * (r0 \div d) + r1 \div d \in Int
  BY <1>1, <1>4, <1>5, DivInt
<1>7. Wrap16(256 * (r0 \div d) + r1 \div d) \in Word /\ Wrap16(r1 % d) \in Word
  BY <1>6, WrapInWord
<1>. QED  BY <1>7 DEF DivU, r0, r1

-----------------------------------------------------------------------------
\* Groups 1 and 3.

LEMMA Group1FlagsTyped ==
  ASSUME NEW r \in Regs, NEW k, NEW a, NEW b, NEW n
  PROVE  Group1Flags(r, k, a, b, n) \in Regs
<1>1. ASSUME NEW c, NEW v
      PROVE  /\ AddFlags(r, a, c, v, n) \in Regs
             /\ SubFlags(r, a, c, v, n) \in Regs
             /\ LogicFlags(r, v, n) \in Regs
  BY FlagsTyped
<1>. QED  BY Zenon, <1>1 DEF Group1Flags

LEMMA Group1Typed ==
  ASSUME NEW s, IsMachine(s), NEW p \in PrefixState, NEW op
  PROVE  IsMachine(Group1(op, s, p))
<1>. DEFINE b == Imm8(s)
            t == IF op = 129 THEN Skip16(Skip(s)) ELSE Skip(Skip(s))
            after == AfterOperand(t, p, b)
<1>1. IsMachine(t) /\ b \in Byte
  BY SkipTyped, FetchTyped
<1>2. IsMachine(after)
  BY <1>1, EaTyped
<1>. HIDE DEF b, t, after
<1>3. ASSUME NEW k, NEW a, NEW c, NEW n
      PROVE  IsMachine(WithReg(after, Group1Flags(after.regs, k, a, c, n)))
  BY <1>2, Parts, Group1FlagsTyped, WithRegTyped
<1>. DEFINE imm == CASE op = 129 -> Imm16(Skip(s))
                     [] op = 131 -> Wrap16(SignExtend(Imm8(Skip(s))))
                     [] OTHER -> Imm8(Skip(s))
<1>4. Group1(op, s, p) =
        WithReg(after,
          IF ByteOpcode(op)
          THEN Group1Flags(after.regs, ModRmReg(b), Read8(t, p, b), imm, 256)
          ELSE Group1Flags(after.regs, ModRmReg(b), Read16(t, p, b), imm,
                           WordSize))
  BY Zenon DEF Group1, b, t, after
<1>. HIDE DEF imm
<1>5. CASE ByteOpcode(op)
  BY ZenonT(90), <1>3, <1>4, <1>5
<1>6. CASE ~ByteOpcode(op)
  BY Zenon, <1>3, <1>4, <1>6
<1>. QED  BY <1>5, <1>6

\* A product of two bytes is a word.
LEMMA ProductWord ==
  ASSUME NEW a \in Byte, NEW b \in Byte
  PROVE  a * b \in Word
<1>1. a \in Int /\ b \in Int /\ 0 <= a /\ a <= 255 /\ 0 <= b /\ b <= 255
  BY ByteRange
<1>2. 0 <= a * b /\ a * b <= 255 * b
  BY <1>1
<1>. QED  BY <1>1, <1>2, WordRange

LEMMA AxDx == AX \in Reg /\ DX \in Reg /\ AL \in Reg /\ AH \in Reg
  BY DEF AX, DX, AL, AH, Reg

LEMMA WideTyped ==
  ASSUME NEW r \in Regs, NEW lo \in Word, NEW hi \in Word
  PROVE  /\ SetWide(r, lo, hi) \in Regs
         /\ \A c, o : CarryOverflow(SetWide(r, lo, hi), c, o) \in Regs
  BY Set16Regs, AxDx, FlagsTyped DEF SetWide

LEMMA DividedTyped ==
  ASSUME NEW r \in Regs, NEW q \in Int, NEW m \in Int
  PROVE  Set8(Set8(r, AL, Lo(q)), AH, Lo(m)) \in Regs
<1>1. Set8(r, AL, Lo(q)) \in Regs
  BY AxDx, LowByte, Set8Regs
<1>. QED  BY <1>1, AxDx, LowByte, Set8Regs

LEMMA ByteProducts ==
  ASSUME NEW r \in Regs, NEW v \in Byte
  PROVE  MulRegs(r, v) \in Regs /\ ImulRegs(r, v) \in Regs
<1>1. Get8(r, AL) \in Byte
  BY AxDx, Get8Byte
<1>2. Get8(r, AL) * v \in Word
  BY <1>1, ProductWord
<1>3. SignExtend(Get8(r, AL)) * SignExtend(v) \in Int
  BY <1>1, SignExtendInt
<1>4. ASSUME NEW x \in Word, NEW c, NEW o
      PROVE  CarryOverflow(Set16(r, AX, x), c, o) \in Regs
  BY AxDx, Set16Regs, FlagsTyped
<1>5. MulRegs(r, v) \in Regs
  BY <1>2, <1>4, ZenonT(90) DEF MulRegs
<1>6. Wrap16(SignExtend(Get8(r, AL)) * SignExtend(v)) \in Word
  BY <1>3, WrapInWord
<1>7. ImulRegs(r, v) \in Regs
  BY <1>4, <1>6, Zenon DEF ImulRegs
<1>. QED  BY <1>5, <1>7

LEMMA SignExtendNonZero ==
  ASSUME NEW v \in Byte, v # 0
  PROVE  SignExtend(v) \in Int /\ SignExtend(v) # 0
  BY ByteRange DEF SignExtend

LEMMA ByteQuotients ==
  ASSUME NEW r \in Regs, NEW v \in Byte, v # 0
  PROVE  DivRegs(r, v) \in Regs /\ IdivRegs(r, v) \in Regs
<1>1. Get16(r, AX) \in Word /\ Get16(r, AX) \in Int /\ v \in Int /\ v > 0
  BY AxDx, Get16Word, WordRange, ByteRange
<1>2. Get16(r, AX) \div v \in Int /\ Get16(r, AX) % v \in Int
  BY <1>1, DivInt
<1>3. DivRegs(r, v) \in Regs
  BY <1>2, DividedTyped DEF DivRegs
<1>4. Signed16(Get16(r, AX)) \in Int
  BY <1>1, SignedInt
<1>5. /\ Quot(Signed16(Get16(r, AX)), SignExtend(v)) \in Int
      /\ Rem(Signed16(Get16(r, AX)), SignExtend(v)) \in Int
  BY <1>4, SignExtendNonZero, QuotInt
<1>6. IdivRegs(r, v) \in Regs
  BY <1>5, DividedTyped DEF IdivRegs
<1>. QED  BY <1>3, <1>6

LEMMA WordProducts ==
  ASSUME NEW r \in Regs, NEW v \in Word
  PROVE  MulRegs16(r, v) \in Regs /\ ImulRegs16(r, v) \in Regs
<1>1. Get16(r, AX) \in Word
  BY AxDx, Get16Word
<1>2. /\ Mul32(Get16(r, AX), v)[1] \in Word
      /\ Mul32(Get16(r, AX), v)[2] \in Word
  BY <1>1, Mul32Words
<1>3. MulRegs16(r, v) \in Regs
  BY <1>2, WideTyped, Zenon DEF MulRegs16
<1>. DEFINE x == Signed16(Get16(r, AX)) * Signed16(v)
<1>4. x \in Int
  BY <1>1, SignedInt
<1>. HIDE DEF x
<1>5. x \div WordSize \in Int
  BY <1>4, DivInt, WordSizeNat
<1>6. Wrap16(x) \in Word /\ Wrap16(x \div WordSize) \in Word
  BY <1>4, <1>5, WrapInWord
<1>7. ASSUME NEW c, NEW o
      PROVE  CarryOverflow(SetWide(r, Wrap16(x), Wrap16(x \div WordSize)), c, o)
               \in Regs
  BY <1>6, WideTyped
<1>. DEFINE over == Beyond16(x)
<1>8. ImulRegs16(r, v) =
        CarryOverflow(SetWide(r, Wrap16(x), Wrap16(x \div WordSize)), over, over)
  BY DEF ImulRegs16, x
<1>. HIDE DEF over
<1>9. CarryOverflow(SetWide(r, Wrap16(x), Wrap16(x \div WordSize)), over, over)
        \in Regs
  BY <1>7
<1>. QED  BY <1>3, <1>8, <1>9

LEMMA WordQuotients ==
  ASSUME NEW r \in Regs, NEW v \in Word, v # 0
  PROVE  DivRegs16(r, v) \in Regs /\ IdivRegs16(r, v) \in Regs
<1>1. Get16(r, AX) \in Word /\ Get16(r, DX) \in Word
  BY AxDx, Get16Word
<1>2. DivRegs16(r, v) \in Regs
  BY <1>1, DivUWords, WideTyped DEF DivRegs16
<1>3. SignedDxAx(r) \in Int
  <2>1. Signed16(Get16(r, DX)) \in Int /\ Signed16(Get16(r, AX)) \in Int
        /\ Get16(r, AX) \in Int
    BY <1>1, SignedInt, WordRange
  <2>. QED  BY <2>1, WordSizeNat DEF SignedDxAx
<1>4. Signed16(v) \in Int /\ Signed16(v) # 0
  BY WordRange, WordSizeNat DEF Signed16
<1>5. /\ Wrap16(Quot(SignedDxAx(r), Signed16(v))) \in Word
      /\ Wrap16(Rem(SignedDxAx(r), Signed16(v))) \in Word
  BY <1>3, <1>4, QuotInt, WrapInWord
<1>6. IdivRegs16(r, v) \in Regs
  BY <1>5, WideTyped DEF IdivRegs16
<1>. QED  BY <1>2, <1>6

\* Negations of an operand have its width.
LEMMA NegationsTyped ==
  /\ \A v \in Byte : (-v) % 256 \in Byte /\ 255 - v \in Byte
  /\ \A v \in Word : Wrap16(-v) \in Word /\ WordSize - 1 - v \in Word
<1>1. ASSUME NEW v \in Byte  PROVE (-v) % 256 \in Byte /\ 255 - v \in Byte
  <2>1. v \in Int /\ 0 <= v /\ v <= 255
    BY ByteRange
  <2>2. Lo(-v) \in Byte
    BY <2>1, LowByte
  <2>. QED  BY <2>1, <2>2, ByteRange DEF Lo
<1>2. ASSUME NEW v \in Word  PROVE Wrap16(-v) \in Word /\ WordSize - 1 - v \in Word
  <2>1. v \in Int /\ 0 <= v /\ v <= 65535
    BY WordRange
  <2>2. Wrap16(-v) \in Word
    BY <2>1, WrapInWord
  <2>3. WordSize - 1 - v \in Word
    BY <2>1, WordRange DEF WordSize
  <2>. QED  BY <2>2, <2>3
<1>. QED  BY <1>1, <1>2

LEMMA Group3ByteTyped ==
  ASSUME NEW s, IsMachine(s), NEW p \in PrefixState, NEW b \in Byte,
         ModRmReg(b) \in 2 .. 7,
         ModRmReg(b) \in {6, 7} => Read8(s, p, b) # 0
  PROVE  IsMachine(Group3Byte(s, p, b))
<1>. DEFINE v == Read8(s, p, b)
            after == AfterOperand(s, p, b)
            negated == (-v) % 256
            flagged == WithReg(after, SubFlags(after.regs, 0, v, negated, 256))
<1>1. v \in Byte /\ IsMachine(after) /\ after.regs \in Regs
  BY ReadsTyped, EaTyped, Parts
<1>. HIDE DEF v, after
<1>2. negated \in Byte /\ 255 - v \in Byte
  BY <1>1, NegationsTyped
<1>. HIDE DEF negated
<1>3. IsMachine(flagged)
  BY ZenonT(90), <1>1, FlagsTyped, WithRegTyped
<1>. HIDE DEF flagged
<1>4. IsMachine(Write8(flagged, p, b, negated))
      /\ IsMachine(Write8(after, p, b, 255 - v))
  BY <1>1, <1>2, <1>3, WritesTyped
<1>5. IsMachine(WithReg(after, MulRegs(after.regs, v)))
      /\ IsMachine(WithReg(after, ImulRegs(after.regs, v)))
  BY <1>1, ByteProducts, WithRegTyped
<1>6. ModRmReg(b) \in {6, 7} =>
        /\ IsMachine(WithReg(after, DivRegs(after.regs, v)))
        /\ IsMachine(WithReg(after, IdivRegs(after.regs, v)))
  <2>1. ModRmReg(b) \in {6, 7} => v # 0
    BY DEF v
  <2>. QED  BY <1>1, <2>1, ByteQuotients, WithRegTyped
<1>. QED
  BY <1>4, <1>5, <1>6 DEF Group3Byte, v, after, negated, flagged

LEMMA Group3WordTyped ==
  ASSUME NEW s, IsMachine(s), NEW p \in PrefixState, NEW b \in Byte,
         ModRmReg(b) \in 2 .. 7,
         ModRmReg(b) \in {6, 7} => Read16(s, p, b) # 0
  PROVE  IsMachine(Group3Word(s, p, b))
<1>. DEFINE v == Read16(s, p, b)
            after == AfterOperand(s, p, b)
            negated == Wrap16(-v)
            flagged == WithReg(after,
                         SubFlags(after.regs, 0, v, negated, WordSize))
<1>1. v \in Word /\ IsMachine(after) /\ after.regs \in Regs
  BY ReadsTyped, EaTyped, Parts
<1>. HIDE DEF v, after
<1>2. negated \in Word /\ WordSize - 1 - v \in Word
  BY <1>1, NegationsTyped
<1>. HIDE DEF negated
<1>3. IsMachine(flagged)
  BY <1>1, FlagsTyped, WithRegTyped
<1>. HIDE DEF flagged
<1>4. IsMachine(Write16(flagged, p, b, negated))
      /\ IsMachine(Write16(after, p, b, WordSize - 1 - v))
  BY <1>1, <1>2, <1>3, WritesTyped
<1>5. IsMachine(WithReg(after, MulRegs16(after.regs, v)))
      /\ IsMachine(WithReg(after, ImulRegs16(after.regs, v)))
  BY <1>1, WordProducts, WithRegTyped
<1>6. ModRmReg(b) \in {6, 7} =>
        /\ IsMachine(WithReg(after, DivRegs16(after.regs, v)))
        /\ IsMachine(WithReg(after, IdivRegs16(after.regs, v)))
  <2>1. ModRmReg(b) \in {6, 7} => v # 0
    BY DEF v
  <2>. QED  BY <1>1, <2>1, WordQuotients, WithRegTyped
<1>. QED
  BY <1>4, <1>5, <1>6 DEF Group3Word, v, after, negated, flagged

LEMMA TestsTyped ==
  ASSUME NEW s, IsMachine(s), NEW p \in PrefixState, NEW b \in Byte
  PROVE  IsMachine(TestByte(s, p, b)) /\ IsMachine(TestWord(s, p, b))
<1>1. ASSUME NEW t, IsMachine(t), NEW v, NEW n
      PROVE  IsMachine(WithReg(AfterOperand(t, p, b),
                         LogicFlags(AfterOperand(t, p, b).regs, v, n)))
  <2>1. IsMachine(AfterOperand(t, p, b))
    BY <1>1, EaTyped
  <2>2. LogicFlags(AfterOperand(t, p, b).regs, v, n) \in Regs
    BY <2>1, Parts, FlagsTyped
  <2>. QED  BY <2>1, <2>2, WithRegTyped
<1>2. IsMachine(Skip(s)) /\ IsMachine(Skip16(s))
  BY SkipTyped
<1>. QED  BY ZenonT(90), <1>1, <1>2 DEF TestByte, TestWord

\* What an instruction returns: a well-typed machine and result.
Good(o) == IsMachine(o.machine) /\ o.result \in StepResult

LEMMA GoodOutcome ==
  ASSUME NEW s, IsMachine(s), NEW r \in StepResult
  PROVE  Good(Outcome(s, r))
  BY DEF Good, Outcome

LEMMA ResultsTyped ==
  /\ Continue \in StepResult /\ Halt \in StepResult
  /\ \A n \in Byte : Interrupt(n) \in StepResult
  /\ \A n \in Byte : Unimplemented(n) \in StepResult
  BY ByteRange DEF Continue, Halt, Interrupt, Unimplemented, StepResult

LEMMA Group3Typed ==
  ASSUME NEW s, IsMachine(s), NEW p \in PrefixState, NEW op
  PROVE  Good(Group3(op, s, p))
<1>. DEFINE b == Imm8(s)
            t == Skip(s)
<1>1. b \in Byte /\ IsMachine(t) /\ ModRmReg(b) \in 0 .. 7
  BY SkipTyped, FetchTyped, FieldsTyped DEF Reg
<1>. HIDE DEF b, t
<1>2. CASE ModRmReg(b) < 2
  <2>1. Group3(op, s, p) \in {Outcome(TestByte(t, p, b), Continue),
                              Outcome(TestWord(t, p, b), Continue)}
    BY <1>1, <1>2 DEF Group3, DividesByZero, b, t
  <2>. QED  BY <2>1, <1>1, TestsTyped, GoodOutcome, ResultsTyped
<1>3. CASE ModRmReg(b) >= 2 /\ DividesByZero(op, t, p, b)
  <2>1. Group3(op, s, p) = Outcome(AfterOperand(t, p, b), Interrupt(0))
    BY <1>1, <1>3 DEF Group3, b, t
  <2>2. 0 \in Byte
    BY ByteRange
  <2>. QED  BY <2>1, <2>2, <1>1, EaTyped, GoodOutcome, ResultsTyped
<1>4. CASE ModRmReg(b) >= 2 /\ ~DividesByZero(op, t, p, b)
  <2>1. ModRmReg(b) \in 2 .. 7
    BY <1>1, <1>4
  <2>2. CASE ByteOpcode(op)
    <3>1. Group3(op, s, p) = Outcome(Group3Byte(t, p, b), Continue)
      BY <1>1, <1>4, <2>2 DEF Group3, b, t
    <3>2. ModRmReg(b) \in {6, 7} => Read8(t, p, b) # 0
      BY <1>4, <2>2 DEF DividesByZero
    <3>3. IsMachine(Group3Byte(t, p, b))
      BY <1>1, <2>1, <3>2, Group3ByteTyped
    <3>. QED  BY <3>1, <3>3, GoodOutcome, ResultsTyped
  <2>3. CASE ~ByteOpcode(op)
    <3>1. Group3(op, s, p) = Outcome(Group3Word(t, p, b), Continue)
      BY <1>1, <1>4, <2>3 DEF Group3, b, t
    <3>2. ModRmReg(b) \in {6, 7} => Read16(t, p, b) # 0
      BY <1>4, <2>3 DEF DividesByZero
    <3>3. IsMachine(Group3Word(t, p, b))
      BY <1>1, <2>1, <3>2, Group3WordTyped
    <3>. QED  BY <3>1, <3>3, GoodOutcome, ResultsTyped
  <2>. QED  BY <2>2, <2>3
<1>. QED  BY <1>1, <1>2, <1>3, <1>4

-----------------------------------------------------------------------------
\* The instructions behind the escape byte.

\* A flag, a register or a double register set on a machine.
LEMMA SetsTyped ==
  ASSUME NEW t, IsMachine(t)
  PROVE  /\ \A f \in Flags : \A on : IsMachine(WithReg(t, SetFlag(t.regs, f, on)))
         /\ \A i \in Reg : \A v \in Word :
              /\ Set16(t.regs, i, v) \in Regs
              /\ IsMachine(WithReg(t, Set16(t.regs, i, v)))
              /\ \A hi \in Word : Set32(t.regs, i, v, hi) \in Regs
<1>1. t.regs \in Regs
  BY Parts
<1>2. ASSUME NEW f \in Flags, NEW on
      PROVE  IsMachine(WithReg(t, SetFlag(t.regs, f, on)))
  BY <1>1, SetFlagRegs, WithRegTyped
<1>3. ASSUME NEW i \in Reg, NEW v \in Word
      PROVE  /\ Set16(t.regs, i, v) \in Regs
             /\ IsMachine(WithReg(t, Set16(t.regs, i, v)))
  BY <1>1, Set16Regs, WithRegTyped
<1>4. ASSUME NEW i \in Reg, NEW v \in Word, NEW hi \in Word
      PROVE  Set32(t.regs, i, v, hi) \in Regs
  BY <1>1, Set32Regs
<1>. QED  BY <1>2, <1>3, <1>4

LEMMA FlagNames == CarryFlag \in Flags /\ ZeroFlag \in Flags
  BY DEF Flags

LEMMA ZeroIsWord == 0 \in Word /\ 0 \in Byte /\ 1 \in Byte
  BY WordRange, ByteRange

LEMMA SystemGroupTyped ==
  ASSUME NEW s, IsMachine(s), NEW p \in PrefixState, NEW b \in Byte
  PROVE  IsMachine(SystemGroup(s, p, b))
<1>1. IsMachine(AfterOperand(s, p, b))
  BY EaTyped
<1>2. IsMachine(Write16(AfterOperand(s, p, b), p, b, 0))
  BY <1>1, ZeroIsWord, WritesTyped
<1>3. ModRmReg(b) \in 0 .. 7
  BY FieldsTyped DEF Reg
<1>. QED  BY <1>1, <1>2, <1>3 DEF SystemGroup

LEMMA DeniedTyped ==
  ASSUME NEW s, IsMachine(s), NEW p \in PrefixState, NEW b \in Byte
  PROVE  IsMachine(Denied(s, p, b))
<1>. DEFINE t == AfterOperand(s, p, b)
<1>1. IsMachine(t) /\ ModRmReg(b) \in Reg
  BY EaTyped, FieldsTyped
<1>2. Set16(t.regs, ModRmReg(b), 0) \in Regs
  BY <1>1, ZeroIsWord, SetsTyped
<1>3. SetFlag(Set16(t.regs, ModRmReg(b), 0), ZeroFlag, FALSE) \in Regs
  BY <1>2, FlagNames, SetFlagRegs
<1>. QED  BY <1>1, <1>3, WithRegTyped DEF Denied

LEMMA ZeroedTyped ==
  ASSUME NEW s, IsMachine(s), NEW B
  PROVE  IsMachine(Zeroed(s, B))
<1>. DEFINE w == [i \in 0 .. 15 |-> IF \E j \in B : i = 2 * j THEN 0
                                                             ELSE s.regs.w[i]]
            r == [s.regs EXCEPT !.w = w]
<1>1. s.regs \in Regs
  BY Parts
<1>2. w \in [0 .. 15 -> Word]
  BY <1>1, ZeroIsWord DEF Regs
<1>. HIDE DEF w
<1>3. r \in Regs
  BY <1>1, <1>2 DEF Regs
<1>. HIDE DEF r
<1>. QED  BY <1>3, WithRegTyped DEF Zeroed, r, w

LEMMA NearJccTyped ==
  ASSUME NEW s, IsMachine(s), NEW p \in PrefixState, NEW e
  PROVE  IsMachine(NearJcc(e, s, p))
<1>. DEFINE rel == IF p.operand32 THEN Imm32(s) ELSE Signed16(Imm16(s))
            t == IF p.operand32 THEN Skip16(Skip16(s)) ELSE Skip16(s)
<1>1. IsMachine(t)
  BY SkipTyped
<1>2. rel \in Int
  BY ImmediatesInt, SignedInt
<1>. HIDE DEF rel, t
<1>3. t.regs \in Regs /\ t.regs.ip \in Int
  BY <1>1, Parts, AddrRange DEF Regs
<1>4. (t.regs.ip + rel) % MemSize \in Addr
  BY <1>2, <1>3, ModAddr
<1>5. IsMachine(WithReg(t, SetIp(t.regs, (t.regs.ip + rel) % MemSize)))
  BY <1>1, <1>3, <1>4, SetIpRegs, WithRegTyped
<1>. QED  BY <1>1, <1>5 DEF NearJcc, rel, t

LEMMA SetCcTyped ==
  ASSUME NEW s, IsMachine(s), NEW p \in PrefixState, NEW b \in Byte, NEW e
  PROVE  IsMachine(SetCc(e, s, p, b))
<1>1. IsMachine(Write8(s, p, b, 0)) /\ IsMachine(Write8(s, p, b, 1))
  BY ZeroIsWord, WritesTyped
<1>. QED  BY <1>1 DEF SetCc

LEMMA PopSegTyped ==
  ASSUME NEW s, IsMachine(s), NEW i \in SegReg
  PROVE  IsMachine(PopSeg(s, i))
<1>1. IsMachine(Drop16(s)) /\ Top16(s) \in Word
  BY Drop16Typed, Top16Word
<1>. QED  BY <1>1, SetSegTyped DEF PopSeg

LEMMA Imul16Typed ==
  ASSUME NEW s, IsMachine(s), NEW p \in PrefixState, NEW b \in Byte
  PROVE  IsMachine(Imul16(s, p, b))
<1>. DEFINE t == AfterOperand(s, p, b)
            x == Signed16(Get16(t.regs, ModRmReg(b))) * Signed16(Read16(s, p, b))
            over == Beyond16(x)
<1>1. IsMachine(t) /\ ModRmReg(b) \in Reg
  BY EaTyped, FieldsTyped
<1>2. x \in Int
  BY <1>1, Parts, Get16Word, ReadsTyped, SignedInt
<1>. HIDE DEF t, x
<1>3. Set16(t.regs, ModRmReg(b), Wrap16(x)) \in Regs
  BY <1>1, <1>2, WrapInWord, SetsTyped
<1>4. Imul16(s, p, b) =
        WithReg(t, CarryOverflow(Set16(t.regs, ModRmReg(b), Wrap16(x)), over, over))
  BY DEF Imul16, t, x
<1>. HIDE DEF over
<1>5. CarryOverflow(Set16(t.regs, ModRmReg(b), Wrap16(x)), over, over) \in Regs
  BY <1>3, FlagsTyped
<1>. QED  BY <1>1, <1>4, <1>5, WithRegTyped

LEMMA Imul32Typed ==
  ASSUME NEW s, IsMachine(s), NEW p \in PrefixState, NEW b \in Byte
  PROVE  IsMachine(Imul32(s, p, b))
<1>. DEFINE t == AfterOperand(s, p, b)
            xl == Read16(s, p, b)
            xh == ReadHigh16(s, p, b)
            yl == Get16(t.regs, ModRmReg(b))
            yh == GetHigh16(t.regs, ModRmReg(b))
            low == Mul32(xl, yl)
            high == Wrap16(low[2] + Mul32(xl, yh)[1] + Mul32(xh, yl)[1])
            over == Overflows32(<<xl, xh>>, <<yl, yh>>)
            r == Set32(t.regs, ModRmReg(b), low[1], high)
<1>1. IsMachine(t) /\ ModRmReg(b) \in Reg
  BY EaTyped, FieldsTyped
<1>2. xl \in Word /\ xh \in Word /\ yl \in Word /\ yh \in Word
  BY <1>1, Parts, ReadsTyped, Get16Word, HighWord
<1>. HIDE DEF t, xl, xh, yl, yh
<1>3. /\ low[1] \in Word /\ low[2] \in Int /\ Mul32(xl, yh)[1] \in Int
      /\ Mul32(xh, yl)[1] \in Int
  BY <1>2, Mul32Words, WordRange
<1>4. high \in Word
  BY <1>3, WrapInWord
<1>5. Imul32(s, p, b) = WithReg(t, CarryOverflow(r, over, over))
  BY Zenon DEF Imul32, t, xl, xh, yl, yh
<1>. HIDE DEF low, high, over
<1>6. r \in Regs
  BY <1>1, <1>3, <1>4, SetsTyped
<1>7. CarryOverflow(r, over, over) \in Regs
  BY <1>6, FlagsTyped
<1>. QED  BY <1>1, <1>5, <1>7, WithRegTyped

LEMMA BitOpTyped ==
  ASSUME NEW s, IsMachine(s), NEW p \in PrefixState, NEW b \in Byte,
         NEW kind, NEW v \in Word, NEW bit
  PROVE  IsMachine(BitOp(s, p, b, kind, v, bit))
<1>. DEFINE on == bit \in Bits(v)
            t == WithReg(s, SetFlag(s.regs, CarryFlag, on))
<1>1. IsMachine(t)
  <2>. HIDE DEF on
  <2>. QED  BY FlagNames, SetsTyped
<1>2. BitValueAfter(kind, v, bit) \in Word
  BY FromBitsWord DEF BitValueAfter
<1>3. BitOp(s, p, b, kind, v, bit) =
        IF kind > Test THEN Write16(t, p, b, BitValueAfter(kind, v, bit)) ELSE t
  BY DEF BitOp
<1>. HIDE DEF t
<1>4. IsMachine(Write16(t, p, b, BitValueAfter(kind, v, bit)))
  BY <1>1, <1>2, WritesTyped
<1>. QED  BY <1>1, <1>3, <1>4

LEMMA BitOpsTyped ==
  ASSUME NEW s, IsMachine(s), NEW p \in PrefixState, NEW b \in Byte, NEW e
  PROVE  IsMachine(BitOpReg(e, s, p, b)) /\ IsMachine(BitOpImm(s, p, b))
<1>1. IsMachine(AfterOperand(s, p, b))
  BY EaTyped
<1>2. IsMachine(Skip(AfterOperand(s, p, b))) /\ Read16(s, p, b) \in Word
  BY <1>1, SkipTyped, ReadsTyped
<1>. QED  BY <1>1, <1>2, BitOpTyped DEF BitOpReg, BitOpImm

LEMMA DoubleShiftTyped ==
  ASSUME NEW s, IsMachine(s), NEW p \in PrefixState, NEW b \in Byte, NEW e
  PROVE  IsMachine(DoubleShift(e, s, p, b))
<1>. DEFINE t == IF ShiftByImm(e) THEN Skip(s) ELSE s
            count == (IF ShiftByImm(e) THEN Imm8(s) ELSE Get8(s.regs, CL)) % 32
            v == Read16(t, p, b)
            source == Get16(s.regs, ModRmReg(b))
            after == AfterOperand(t, p, b)
            shifted == IF e \in LeftShifts THEN ShiftedLeft(v, source, count)
                                           ELSE ShiftedRight(v, source, count)
            carry == IF e \in LeftShifts THEN LeftCarry(v, count)
                                         ELSE RightCarry(v, count)
            r == ResultFlags(SetFlag(after.regs, CarryFlag, carry), shifted,
                             WordSize)
<1>1. IsMachine(t) /\ IsMachine(after)
  BY SkipTyped, EaTyped
<1>2. shifted \in Word
  BY FromBitsWord DEF ShiftedLeft, ShiftedRight
<1>3. DoubleShift(e, s, p, b) =
        IF count = 0 THEN after ELSE Write16(WithReg(after, r), p, b, shifted)
  BY Zenon DEF DoubleShift
<1>. HIDE DEF t, count, v, source, after, shifted, carry
<1>4. SetFlag(after.regs, CarryFlag, carry) \in Regs
  BY <1>1, Parts, FlagNames, SetFlagRegs
<1>5. r \in Regs
  BY <1>4, FlagsTyped
<1>. HIDE DEF r
<1>6. IsMachine(Write16(WithReg(after, r), p, b, shifted))
  BY <1>1, <1>2, <1>5, WithRegTyped, WritesTyped
<1>. QED  BY <1>1, <1>3, <1>6

LEMMA BitScanTyped ==
  ASSUME NEW s, IsMachine(s), NEW p \in PrefixState, NEW b \in Byte, NEW e
  PROVE  IsMachine(BitScan(e, s, p, b))
<1>. DEFINE t == AfterOperand(s, p, b)
            B == Bits(Read16(s, p, b))
            first == IF e = 188 THEN Lowest(B) ELSE Highest(B)
<1>1. IsMachine(t) /\ ModRmReg(b) \in Reg
  BY EaTyped, FieldsTyped
<1>2. B # {} => first \in Word
  BY BitsPositions, ScanTyped
<1>. HIDE DEF t, B, first
<1>3. IsMachine(WithReg(t, SetFlag(t.regs, ZeroFlag, TRUE)))
  BY <1>1, FlagNames, SetsTyped
<1>4. ASSUME B # {}
      PROVE  IsMachine(WithReg(t, SetFlag(Set16(t.regs, ModRmReg(b), first),
                                          ZeroFlag, FALSE)))
  <2>1. Set16(t.regs, ModRmReg(b), first) \in Regs
    BY <1>1, <1>2, <1>4, SetsTyped
  <2>2. SetFlag(Set16(t.regs, ModRmReg(b), first), ZeroFlag, FALSE) \in Regs
    BY <2>1, FlagNames, SetFlagRegs
  <2>. QED  BY <1>1, <2>2, WithRegTyped
<1>. QED  BY <1>3, <1>4 DEF BitScan, t, B, first

LEMMA ExtendTyped ==
  ASSUME NEW s, IsMachine(s), NEW p \in PrefixState, NEW b \in Byte, NEW e
  PROVE  IsMachine(Extend(e, s, p, b))
<1>. DEFINE t == AfterOperand(s, p, b)
            v == IF e % 2 = 0 THEN Read8(s, p, b) ELSE Read16(s, p, b)
            sign == Signing(e)
                      /\ Negative(v, IF e % 2 = 0 THEN 256 ELSE WordSize)
            lo == IF sign /\ e % 2 = 0 THEN Wrap16(SignExtend(v)) ELSE v
            hi == IF sign THEN WordSize - 1 ELSE 0
<1>1. IsMachine(t) /\ ModRmReg(b) \in Reg
  BY EaTyped, FieldsTyped
<1>2. v \in Word /\ (e % 2 = 0 => v \in Byte)
  BY ReadsTyped, ByteWord
<1>3. Extend(e, s, p, b) =
        WithReg(t, IF p.operand32 THEN Set32(t.regs, ModRmReg(b), lo, hi)
                                  ELSE Set16(t.regs, ModRmReg(b), lo))
  BY Zenon DEF Extend
<1>. HIDE DEF t, v, sign
<1>4. lo \in Word
  BY <1>2, SignExtendInt, WrapInWord
<1>5. hi \in Word
  BY WordRange DEF WordSize
<1>. HIDE DEF lo, hi
<1>6. Set32(t.regs, ModRmReg(b), lo, hi) \in Regs
      /\ Set16(t.regs, ModRmReg(b), lo) \in Regs
  BY <1>1, <1>4, <1>5, SetsTyped
<1>. QED  BY <1>1, <1>3, <1>6, WithRegTyped

LEMMA XaddTyped ==
  ASSUME NEW s, IsMachine(s), NEW p \in PrefixState, NEW b \in Byte
  PROVE  IsMachine(Xadd8(s, p, b)) /\ IsMachine(Xadd16(s, p, b))
<1>. DEFINE t == AfterOperand(s, p, b)
            i == ModRmReg(b)
<1>1. IsMachine(t) /\ t.regs \in Regs /\ s.regs \in Regs /\ i \in Reg
  BY EaTyped, Parts, FieldsTyped
<1>. HIDE DEF t, i
<1>2. IsMachine(Xadd8(s, p, b))
  <2>. DEFINE v == Read8(s, p, b)
              source == Get8(s.regs, i)
              sum == (v + source) % 256
              r == AddFlags(t.regs, v, source, sum, 256)
  <2>1. v \in Byte /\ source \in Byte
    BY <1>1, ReadsTyped, Get8Byte
  <2>2. Lo(v + source) \in Byte
    BY <2>1, ByteRange, LowByte
  <2>3. sum \in Byte
    BY <2>2 DEF Lo
  <2>4. Xadd8(s, p, b) = Write8(WithReg(t, Set8(r, i, v)), p, b, sum)
    BY DEF Xadd8, t, i
  <2>. HIDE DEF v, source, sum
  <2>5. r \in Regs
    BY ZenonT(90), <1>1, FlagsTyped
  <2>. HIDE DEF r
  <2>6. IsMachine(WithReg(t, Set8(r, i, v)))
    BY <1>1, <2>1, <2>5, Set8Regs, WithRegTyped
  <2>. QED  BY <2>3, <2>4, <2>6, WritesTyped
<1>3. IsMachine(Xadd16(s, p, b))
  <2>. DEFINE v == Read16(s, p, b)
              source == Get16(s.regs, i)
              sum == Wrap16(v + source)
              r == AddFlags(t.regs, v, source, sum, WordSize)
  <2>1. v \in Word /\ source \in Word
    BY <1>1, ReadsTyped, Get16Word
  <2>2. sum \in Word
    BY <2>1, WordRange, WrapInWord
  <2>4. Xadd16(s, p, b) = Write16(WithReg(t, Set16(r, i, v)), p, b, sum)
    BY DEF Xadd16, t, i
  <2>. HIDE DEF v, source, sum
  <2>5. r \in Regs
    BY <1>1, FlagsTyped
  <2>. HIDE DEF r
  <2>6. IsMachine(WithReg(t, Set16(r, i, v)))
    BY <1>1, <2>1, <2>5, Set16Regs, WithRegTyped
  <2>. QED  BY <2>2, <2>4, <2>6, WritesTyped
<1>. QED  BY <1>2, <1>3

LEMMA EscapedTyped ==
  ASSUME NEW s, IsMachine(s), NEW p \in PrefixState, NEW b \in Byte,
         NEW e \in Byte
  PROVE  IsMachine(Escaped(e, s, p, b)) /\ IsMachine(EscapedPlain(e, s, p))
<1>1. e \in Int
  BY ByteRange
<1>2. IsMachine(Escaped(e, s, p, b))
  <2>1. IsMachine(AfterOperand(s, p, b))
    BY EaTyped
  <2>2. Escaped(e, s, p, b) \in
          {SystemGroup(s, p, b), AfterOperand(s, p, b), Denied(s, p, b),
           SetCc(e, s, p, b), BitOpReg(e, s, p, b), DoubleShift(e, s, p, b),
           Imul32(s, p, b), Imul16(s, p, b), Extend(e, s, p, b),
           BitOpImm(s, p, b), BitScan(e, s, p, b), Xadd8(s, p, b),
           Xadd16(s, p, b), s}
    BY <1>1 DEF Escaped
  <2>. QED
    BY <2>1, <2>2, SystemGroupTyped, DeniedTyped, SetCcTyped, BitOpsTyped,
       DoubleShiftTyped, Imul32Typed, Imul16Typed, ExtendTyped, BitScanTyped,
       XaddTyped
<1>3. IsMachine(EscapedPlain(e, s, p))
  <2>1. FS \in SegReg /\ GS \in SegReg
    BY DEF FS, GS, SegReg
  <2>2. GetSeg(s.regs, FS) \in Word /\ GetSeg(s.regs, GS) \in Word
    BY <2>1, Parts, GetSegWord
  <2>3. EscapedPlain(e, s, p) \in
          {Zeroed(s, {AX, DX}), NearJcc(e, s, p), Push16(s, GetSeg(s.regs, FS)),
           PopSeg(s, FS), Zeroed(s, {AX, BX, CX, DX}),
           Push16(s, GetSeg(s.regs, GS)), PopSeg(s, GS), s}
    BY <1>1 DEF EscapedPlain
  <2>. QED
    BY <2>1, <2>2, <2>3, ZeroedTyped, NearJccTyped, Push16Typed, PopSegTyped
<1>. QED  BY <1>2, <1>3

LEMMA EscapeTyped ==
  ASSUME NEW s, IsMachine(s), NEW p \in PrefixState
  PROVE  Good(Escape(s, p))
<1>. DEFINE e == Imm8(s)
            t == Skip(s)
<1>1. e \in Byte /\ IsMachine(t) /\ IsMachine(Skip(t)) /\ Imm8(t) \in Byte
  BY SkipTyped, FetchTyped
<1>. HIDE DEF e, t
<1>2. IsMachine(Escaped(e, Skip(t), p, Imm8(t)))
      /\ IsMachine(EscapedPlain(e, t, p))
  BY <1>1, EscapedTyped
<1>3. 6 \in Byte
  BY ByteRange
<1>4. Escape(s, p) \in
        {Outcome(t, Interrupt(6)),
         Outcome(Escaped(e, Skip(t), p, Imm8(t)), Continue),
         Outcome(EscapedPlain(e, t, p), Continue)}
  BY DEF Escape, e, t
<1>. QED  BY <1>1, <1>2, <1>3, <1>4, GoodOutcome, ResultsTyped

-----------------------------------------------------------------------------
\* The instructions.

LEMMA LoopTyped ==
  ASSUME NEW s, IsMachine(s), NEW op \in 224 .. 227
  PROVE  IsMachine(Loop(op, s))
<1>. DEFINE cx == Wrap16(Get16(s.regs, CX) - 1)
            t == [s EXCEPT !.regs = Set16(@, CX, cx)]
<1>1. Get16(s.regs, CX) \in Int
  BY Parts, Get16Word, WordRange DEF CX, Reg
<1>2. cx \in Word
  <2>1. Get16(s.regs, CX) - 1 \in Int
    BY <1>1
  <2>. QED  BY <2>1, WrapInWord
<1>. HIDE DEF cx
<1>3. IsMachine(t)
  BY <1>2, Set16Typed DEF CX, Reg
<1>. HIDE DEF t
<1>4. Loop(op, s) \in {JumpIf(t, TRUE), JumpIf(t, FALSE),
                      JumpIf(s, TRUE), JumpIf(s, FALSE)}
  BY DEF Loop, JumpIf, t, cx
<1>. QED  BY <1>3, <1>4, JumpIfTyped

LEMMA FarTyped ==
  ASSUME NEW s, IsMachine(s)
  PROVE  /\ FarOff(s) \in Word /\ FarSeg(s) \in Word
         /\ IsMachine(AfterFar(s))
  BY SkipTyped, FetchTyped DEF FarOff, FarSeg, AfterFar

\* A return address is the sixteen bits of ip.
LEMMA IpWord ==
  ASSUME NEW s, IsMachine(s)
  PROVE  Skip(s).regs.ip \in Word /\ Skip16(s).regs.ip \in Word
<1>1. ASSUME NEW t, IsMachine(t)  PROVE Skip(t).regs.ip \in Word
  <2>1. t.regs.ip \in Addr
    BY <1>1, IpAddr
  <2>2. Wrap16(t.regs.ip + 1) \in Word
    BY <2>1, MoveIp
  <2>3. t.regs \in Regs /\ Skip(t).regs = NextIp(t)
    BY <1>1, Parts, IpAddr, WithRegs DEF Skip
  <2>. QED  BY <2>2, <2>3 DEF NextIp, SetIp, Regs
<1>. QED  BY <1>1, SkipTyped DEF Skip16

LEMMA CallsTyped ==
  ASSUME NEW s, IsMachine(s)
  PROVE  IsMachine(CallNear(s)) /\ IsMachine(CallFar(s))
<1>1. IsMachine(Push16(Skip16(s), Skip16(s).regs.ip))
  BY SkipTyped, IpWord, Push16Typed
<1>2. IsMachine(CallNear(s))
  BY <1>1, TargetsTyped, GotoTyped DEF CallNear
<1>. DEFINE t == AfterFar(s)
<1>3. IsMachine(t) /\ t.regs.ip \in Word
  BY FarTyped, SkipTyped, IpWord DEF AfterFar
<1>4. GetSeg(t.regs, CS) \in Word
  BY <1>3, Parts, GetSegWord DEF CS, SegReg
<1>. HIDE DEF t
<1>5. IsMachine(Push16(Push16(t, GetSeg(t.regs, CS)), t.regs.ip))
  BY <1>3, <1>4, Push16Typed
<1>6. IsMachine(CallFar(s))
  BY <1>5, FarTyped, GotoFarTyped DEF CallFar, t
<1>. QED  BY <1>2, <1>6

LEMMA ReturnsTyped ==
  ASSUME NEW s, IsMachine(s), NEW n \in Int
  PROVE  IsMachine(RetNear(s, n)) /\ IsMachine(RetFar(s, n))
<1>. DEFINE t == Drop16(s)
<1>1. IsMachine(t) /\ Top16(s) \in Word /\ Top16(s) \in Addr
  BY Drop16Typed, Top16Word, WordAddr
<1>2. IsMachine(Goto(t, Top16(s)))
  BY <1>1, GotoTyped
<1>3. IsMachine(RetNear(s, n))
  BY <1>2, AddSpTyped DEF RetNear
<1>. HIDE DEF t
<1>4. IsMachine(GotoFar(Drop16(t), Top16(t), Top16(s)))
  BY <1>1, Drop16Typed, Top16Word, GotoFarTyped
<1>5. IsMachine(RetFar(s, n))
  BY <1>4, AddSpTyped DEF RetFar, t
<1>. QED  BY <1>3, <1>5

LEMMA FlowTyped ==
  ASSUME NEW s, IsMachine(s), NEW op \in Int, op \in FlowOpcodes
  PROVE  IsMachine(Flow(op, s))
<1>1. Imm16(s) \in Int /\ Imm16(Skip16(s)) \in Int /\ IsMachine(Skip16(s))
  BY FetchTyped, SkipTyped, WordRange
<1>3. IsMachine(JumpIf(s, TRUE)) /\ IsMachine(Goto(s, NearTarget(s)))
  BY JumpIfTyped, TargetsTyped, GotoTyped
<1>4. IsMachine(JmpFar(s))
  BY FarTyped, GotoFarTyped DEF JmpFar
<1>5. IsMachine(RetNear(s, 0)) /\ IsMachine(RetFar(s, 0))
  BY ReturnsTyped
<1>6. IsMachine(RetNear(Skip16(s), Imm16(s)))
      /\ IsMachine(RetFar(Skip16(s), Imm16(s)))
  BY <1>1, ReturnsTyped
<1>7. CASE op \in 112 .. 127
  <2>1. Flow(op, s) = Jcc(op, s)
    BY <1>7 DEF Flow, JumpIf
  <2>2. Jcc(op, s) = JumpIf(s, TRUE) \/ Jcc(op, s) = JumpIf(s, FALSE)
    BY DEF Jcc, JumpIf
  <2>. QED  BY <2>1, <2>2, JumpIfTyped
<1>8. CASE op \in 224 .. 227
  <2>1. Flow(op, s) = Loop(op, s)
    BY <1>8 DEF Flow, JumpIf
  <2>. QED  BY <1>8, <2>1, LoopTyped
<1>9. CASE op \in {154, 194, 195, 202, 203, 207, 232, 233, 234, 235}
  <2>1. Flow(op, s) \in
          {JumpIf(s, TRUE), Goto(s, NearTarget(s)), JmpFar(s), CallNear(s),
           CallFar(s), RetNear(Skip16(s), Imm16(s)), RetNear(s, 0),
           RetFar(Skip16(s), Imm16(s)), RetFar(s, 0), PopFrame(s)}
    BY <1>9 DEF Flow, JumpIf
  <2>. QED  BY <2>1, <1>3, <1>4, <1>5, <1>6, CallsTyped, PopFrameTyped
<1>. QED  BY <1>7, <1>8, <1>9 DEF FlowOpcodes

LEMMA IncDecTyped ==
  ASSUME NEW s, IsMachine(s), NEW p \in PrefixState, NEW b \in Byte
  PROVE  IsMachine(IncDec(s, p, b))
<1>. DEFINE v == Read16(s, p, b)
            w == Wrap16(IF ModRmReg(b) = 0 THEN v + 1 ELSE v - 1)
            t == AfterOperand(s, p, b)
            r == Stepped(t.regs, ModRmReg(b), v, w)
<1>1. IsMachine(t) /\ t.regs \in Regs /\ v \in Int
  BY EaTyped, Parts, ReadsTyped, WordRange
<1>2. w \in Word
  BY <1>1, WrapInWord
<1>. HIDE DEF t, v, w
<1>3. r \in Regs
  <2>1. \/ r = SetFlag(AddFlags(t.regs, v, 1, w, WordSize), CarryFlag,
                       Flag(t.regs, CarryFlag))
        \/ r = SetFlag(SubFlags(t.regs, v, 1, w, WordSize), CarryFlag,
                       Flag(t.regs, CarryFlag))
    BY Zenon DEF Stepped
  <2>2. ASSUME NEW q \in Regs
        PROVE  SetFlag(q, CarryFlag, Flag(t.regs, CarryFlag)) \in Regs
    BY FlagNames, SetFlagRegs
  <2>3. /\ AddFlags(t.regs, v, 1, w, WordSize) \in Regs
        /\ SubFlags(t.regs, v, 1, w, WordSize) \in Regs
    BY <1>1, FlagsTyped
  <2>. QED  BY Zenon, <2>1, <2>2, <2>3
<1>. HIDE DEF r
<1>4. IsMachine(Write16(WithReg(t, r), p, b, w))
  BY <1>1, <1>2, <1>3, WithRegTyped, WritesTyped
<1>. QED  BY <1>4 DEF IncDec, t, v, w, r

\* The far pointer in memory, and the code to come back to.
LEMMA PointersTyped ==
  ASSUME NEW s, IsMachine(s), NEW p \in PrefixState, NEW b \in Byte
  PROVE  PointerOff(s, p, b) \in Word /\ PointerSeg(s, p, b) \in Word
<1>1. EaAddr(s, p, b) \in Addr
  BY EaTyped
<1>2. EaAddr(s, p, b) + 2 \in Int
  BY <1>1, AddrRange
<1>3. (EaAddr(s, p, b) + 2) % MemSize \in Addr
  BY <1>2, ModAddr
<1>. QED  BY <1>1, <1>3, Parts, ReadU16IsWord DEF PointerOff, PointerSeg

LEMMA IpWrapped == ASSUME NEW s, IsMachine(s) PROVE Wrap16(s.regs.ip) \in Word
<1>1. s.regs.ip \in Int
  BY IpAddr, AddrRange
<1>. QED  BY <1>1, WrapInWord

LEMMA GroupTyped ==
  ASSUME NEW s, IsMachine(s), NEW p \in PrefixState
  PROVE  Good(GroupFF(s, p))
<1>. DEFINE b == Imm8(s)
            t == Skip(s)
            v == Read16(t, p, b)
            after == AfterOperand(t, p, b)
            far == AfterEa(t, p, b)
            seg == PointerSeg(t, p, b)
            off == PointerOff(t, p, b)
            called == Push16(Push16(far, GetSeg(far.regs, CS)),
                             Wrap16(far.regs.ip))
<1>1. b \in Byte /\ IsMachine(t) /\ ModRmReg(b) \in 0 .. 7
  BY FetchTyped, SkipTyped, FieldsTyped DEF Reg
<1>2. IsMachine(after) /\ IsMachine(far)
  BY <1>1, EaTyped
<1>3. v \in Word /\ v \in Addr /\ seg \in Word /\ off \in Word
  BY <1>1, ReadsTyped, PointersTyped, WordAddr
<1>4. 255 \in Byte
  BY ByteRange
<1>. HIDE DEF b, t, v, after, far, seg, off
<1>5. Wrap16(after.regs.ip) \in Word /\ Wrap16(far.regs.ip) \in Word
      /\ GetSeg(far.regs, CS) \in Word
  BY <1>2, IpWrapped, Parts, GetSegWord DEF CS, SegReg
<1>6. IsMachine(called)
  BY <1>2, <1>5, Push16Typed
<1>. HIDE DEF called
<1>7. /\ Good(Outcome(IncDec(t, p, b), Continue))
      /\ Good(Outcome(Goto(Push16(after, Wrap16(after.regs.ip)), v), Continue))
      /\ Good(Outcome(GotoFar(called, seg, off), Continue))
      /\ Good(Outcome(Goto(after, v), Continue))
      /\ Good(Outcome(GotoFar(far, seg, off), Continue))
      /\ Good(Outcome(Push16(after, v), Continue))
      /\ Good(Outcome(t, Unimplemented(255)))
  BY ZenonT(90), <1>1, <1>2, <1>3, <1>4, <1>5, <1>6, IncDecTyped, Push16Typed, GotoTyped,
     GotoFarTyped, GoodOutcome, ResultsTyped
<1>8. GroupFF(s, p) \in
        {Outcome(IncDec(t, p, b), Continue),
         Outcome(Goto(Push16(after, Wrap16(after.regs.ip)), v), Continue),
         Outcome(GotoFar(called, seg, off), Continue),
         Outcome(Goto(after, v), Continue),
         Outcome(GotoFar(far, seg, off), Continue),
         Outcome(Push16(after, v), Continue), Outcome(t, Unimplemented(255))}
  BY <1>1 DEF GroupFF, b, t, v, after, far, seg, off, called
<1>. QED  BY <1>7, <1>8

LEMMA FlagOpTyped ==
  ASSUME NEW s, IsMachine(s), NEW op \in FlagOpcodes
  PROVE  IsMachine(FlagOp(op, s))
<1>1. FlagOf(op) \in Flags
  <2>1. op \in {245, 248, 249, 250, 251, 252, 253}
    BY DEF FlagOpcodes
  <2>. QED  BY <2>1 DEF FlagOf, Flags
<1>2. ASSUME NEW on  PROVE IsMachine([s EXCEPT !.regs = SetFlag(@, FlagOf(op), on)])
  BY <1>1, SetFlagTyped
<1>. QED  BY <1>2, ZenonT(90) DEF FlagOp

LEMMA SegMovesTyped ==
  ASSUME NEW s, IsMachine(s), NEW p \in PrefixState
  PROVE  IsMachine(StoreSeg(s, p)) /\ IsMachine(LoadSegReg(s, p))
<1>. DEFINE b == Imm8(s)
            t == AfterOperand(Skip(s), p, b)
            v == Read16(Skip(s), p, b)
<1>1. b \in Byte /\ IsMachine(Skip(s))
  BY FetchTyped, SkipTyped
<1>2. SegField(b) \in SegReg /\ IsMachine(t) /\ t.regs \in Regs /\ v \in Word
  BY <1>1, FieldsTyped, EaTyped, ReadsTyped, Parts
<1>3. GetSeg(s.regs, SegField(b)) \in Word
  BY <1>2, Parts, GetSegWord
<1>. HIDE DEF b, t, v
<1>4. IsMachine(Write16(Skip(s), p, b, GetSeg(s.regs, SegField(b))))
  BY <1>1, <1>3, WritesTyped
<1>5. IsMachine(WithReg(t, SetSeg(t.regs, SegField(b), v)))
  BY <1>2, SetSegRegs, WithRegTyped
<1>. QED  BY <1>4, <1>5 DEF StoreSeg, LoadSegReg, b, t, v

LEMMA SalcTyped == ASSUME NEW s, IsMachine(s) PROVE IsMachine(Salc(s))
<1>1. 0 \in Byte /\ 255 \in Byte /\ AL \in Reg
  BY ByteRange DEF AL, Reg
<1>2. (IF Flag(s.regs, CarryFlag) THEN 255 ELSE 0) \in Byte
  BY <1>1
<1>. QED  BY <1>1, <1>2, Set8Typed DEF Salc

LEMMA MiscTyped ==
  ASSUME NEW s, IsMachine(s), NEW p \in PrefixState, NEW op \in Byte
  PROVE  Good(Misc(op, s, p))
<1>1. IsMachine(Skip(s)) /\ Imm8(s) \in Byte
  BY SkipTyped, FetchTyped
<1>2. IsMachine(AfterOperand(Skip(s), p, Imm8(s)))
  BY <1>1, EaTyped
<1>3. /\ Good(Outcome(s, Continue)) /\ Good(Outcome(Salc(s), Continue))
      /\ Good(Outcome(Skip(s), Continue))
      /\ Good(Outcome(AfterOperand(Skip(s), p, Imm8(s)), Continue))
      /\ Good(Outcome(StoreSeg(s, p), Continue))
      /\ Good(Outcome(LoadSegReg(s, p), Continue))
  BY <1>1, <1>2, SalcTyped, SegMovesTyped, GoodOutcome, ResultsTyped
<1>4. 4 \in Byte
  BY ByteRange
<1>5. /\ Good(Outcome(Skip(s), Interrupt(Imm8(s))))
      /\ Good(Outcome(s, Interrupt(4)))
      /\ Good(Outcome(s, Unimplemented(op)))
  BY <1>1, <1>4, GoodOutcome, ResultsTyped
<1>6. Good(Outcome([s EXCEPT !.halted = TRUE], Halt))
  BY WithHalted, GoodOutcome, ResultsTyped
<1>7. CASE op \in FlagOpcodes
  <2>1. Misc(op, s, p) = Outcome(FlagOp(op, s), Continue)
    BY <1>7 DEF Misc, FlagOpcodes, IdleOpcodes, FpuOpcodes
  <2>. QED  BY <1>7, <2>1, FlagOpTyped, GoodOutcome, ResultsTyped
<1>8. CASE op \notin FlagOpcodes
  <2>1. Misc(op, s, p) \in
          {Outcome(s, Continue), Outcome(Salc(s), Continue),
           Outcome(Skip(s), Continue),
           Outcome(AfterOperand(Skip(s), p, Imm8(s)), Continue),
           Outcome(StoreSeg(s, p), Continue),
           Outcome(LoadSegReg(s, p), Continue),
           Outcome(Skip(s), Interrupt(Imm8(s))), Outcome(s, Interrupt(4)),
           Escape(s, p), Outcome([s EXCEPT !.halted = TRUE], Halt),
           Outcome(s, Unimplemented(op))}
    BY <1>8 DEF Misc
  <2>. QED  BY <2>1, <1>3, <1>5, <1>6, EscapeTyped
<1>. QED  BY <1>7, <1>8

\* One instruction, whatever the prefixes before it.
LEMMA ExecuteTyped ==
  ASSUME NEW s, IsMachine(s), NEW p \in PrefixState, NEW op \in Byte
  PROVE  Good(Execute(op, s, p))
<1>1. CASE op \in FlowOpcodes
  <2>1. IsMachine(Flow(op, s))
    BY <1>1, ByteRange, FlowTyped
  <2>2. Execute(op, s, p) = Outcome(Flow(op, s), Continue)
    BY <1>1 DEF Execute, FlowOpcodes, Group1Opcodes, Group3Opcodes
  <2>. QED  BY <2>1, <2>2, GoodOutcome, ResultsTyped
<1>2. CASE op \notin FlowOpcodes
  <2>1. Good(Outcome(Group1(op, s, p), Continue))
    BY Group1Typed, GoodOutcome, ResultsTyped
  <2>2. Execute(op, s, p) \in
          {Outcome(Group1(op, s, p), Continue), Group3(op, s, p),
           GroupFF(s, p), Misc(op, s, p)}
    BY <1>2 DEF Execute
  <2>. QED  BY <2>1, <2>2, Group3Typed, GroupTyped, MiscTyped
<1>. QED  BY <1>1, <1>2

LEMMA PrefixTyped ==
  /\ NoPrefix \in PrefixState
  /\ \A p \in PrefixState, b \in Byte : Prefixed(p, b) \in PrefixState
<1>1. NoPrefix \in PrefixState
  BY DEF NoPrefix, PrefixState, NoOverride
<1>2. ASSUME NEW p \in PrefixState, NEW k \in 0 .. 6
      PROVE  [p EXCEPT !.seg = k] \in PrefixState
  BY DEF PrefixState
<1>3. ASSUME NEW p \in PrefixState
      PROVE  /\ [p EXCEPT !.operand32 = ~@] \in PrefixState
             /\ [p EXCEPT !.address32 = ~@] \in PrefixState
  BY Zenon DEF PrefixState
<1>4. /\ ES \in 0 .. 6 /\ CS \in 0 .. 6 /\ SS \in 0 .. 6
      /\ DS \in 0 .. 6 /\ FS \in 0 .. 6 /\ GS \in 0 .. 6
  BY DEF ES, CS, SS, DS, FS, GS
<1>5. ASSUME NEW p \in PrefixState, NEW b \in Byte
      PROVE  Prefixed(p, b) \in PrefixState
  <2>1. CASE b \in {38, 46, 54, 62, 100, 101}
    <3>1. \/ Prefixed(p, b) = [p EXCEPT !.seg = ES]
          \/ Prefixed(p, b) = [p EXCEPT !.seg = CS]
          \/ Prefixed(p, b) = [p EXCEPT !.seg = SS]
          \/ Prefixed(p, b) = [p EXCEPT !.seg = DS]
          \/ Prefixed(p, b) = [p EXCEPT !.seg = FS]
          \/ Prefixed(p, b) = [p EXCEPT !.seg = GS]
      BY <2>1, SMT DEF Prefixed
    <3>. QED  BY <1>2, <1>4, <3>1, Zenon
  <2>2. CASE b \in {102, 103}
    BY <1>3, <2>2 DEF Prefixed
  <2>3. CASE b \notin {38, 46, 54, 62, 100, 101, 102, 103}
    BY <2>3, Zenon DEF Prefixed
  <2>. QED  BY <2>1, <2>2, <2>3
<1>. QED  BY <1>1, <1>5

LEMMA PortTyped ==
  ASSUME NEW s, IsMachine(s), NEW op \in Byte
  PROVE  Port(op, s) \in Int /\ IsMachine(AfterPort(op, s))
<1>1. Imm8(s) \in Int
  BY FetchTyped, ByteRange
<1>2. Get16(s.regs, DX) \in Int
  BY Parts, Get16Word, WordRange DEF DX, Reg
<1>. QED  BY <1>1, <1>2, SkipTyped DEF Port, AfterPort

LEMMA InTyped ==
  ASSUME NEW s, IsMachine(s), NEW op \in Byte,
         NEW lo \in Byte, NEW hi \in Byte
  PROVE  IsMachine(In(op, s, lo, hi))
<1>. DEFINE t == AfterPort(op, s)
<1>1. IsMachine(t) /\ t.regs \in Regs
  BY PortTyped, Parts
<1>2. Set16(t.regs, AX, lo + 256 * hi) \in Regs
  BY <1>1, Words, Set16Regs DEF AX, Reg
<1>3. Set8(t.regs, AL, lo) \in Regs
  BY <1>1, Set8Regs DEF AL, Reg
<1>4. In(op, s, lo, hi) = [t EXCEPT !.regs = Set16(t.regs, AX, lo + 256 * hi)]
      \/ In(op, s, lo, hi) = [t EXCEPT !.regs = Set8(t.regs, AL, lo)]
  BY DEF In
<1>. HIDE DEF t
<1>. QED  BY <1>1, <1>2, <1>3, <1>4, WithRegs

LEMMA OutTyped ==
  ASSUME NEW s, IsMachine(s), NEW op \in Byte, NEW v, IsVideo(v)
  PROVE  IsVideo(Out(op, s, v))
<1>1. Port(op, s) \in Int
  BY PortTyped
<1>2. Wrap16(Port(op, s) + 1) \in Int
  BY <1>1, WrapInWord, WordRange
<1>3. Get8(s.regs, AL) \in Byte /\ Get8(s.regs, AH) \in Byte
  BY Parts, Get8Byte DEF AL, AH, Reg
<1>4. IsVideo(WritePort(v, Port(op, s), Get8(s.regs, AL)))
  BY <1>1, <1>3, WritePortTyped
<1>5. IsVideo(WritePort(WritePort(v, Port(op, s), Get8(s.regs, AL)),
                        Wrap16(Port(op, s) + 1), Get8(s.regs, AH)))
  BY <1>2, <1>3, <1>4, WritePortTyped
<1>. QED  BY <1>4, <1>5 DEF Out

=============================================================================
