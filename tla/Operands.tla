------------------------------ MODULE Operands ------------------------------
(***************************************************************************)
(* Fetching, prefixes and the operands of an instruction                   *)
(* (cpu/interp/mod.rs and modrm.rs).                                       *)
(*                                                                         *)
(* s is the machine with IP where the code stands in the instruction, p    *)
(* the prefix state and b the ModRM byte.  An operand in memory has no     *)
(* state of its own: every access to it decodes its address again, and     *)
(* fetches a displacement at IP each time.                                 *)
(***************************************************************************)
EXTENDS Jit

Outcome(s, result) == [machine |-> s, result |-> result]
WithReg(s, r) == [s EXCEPT !.regs = r]

NextIp(s) == SetIp(s.regs, Wrap16(s.regs.ip + 1))
Skip(s) == [s EXCEPT !.regs = NextIp(s)]

\* The byte, word and double word at CS:IP, and the machine once a word is
\* fetched.  Only the address bits of a double word are kept, see Cpu.
Imm8(s) == ReadU8(s.mem, Phys(GetSeg(s.regs, CS), s.regs.ip))
Imm16(s) == Imm8(s) + 256 * Imm8(Skip(s))
Skip16(s) == Skip(Skip(s))
Imm32(s) == Imm16(s) + WordSize * (Imm16(Skip16(s)) % 16)

\* A word as a signed number, next to SignExtend for a byte.
Signed16(v) == IF v < 32768 THEN v ELSE v - WordSize

-----------------------------------------------------------------------------
\* Prefixes.

Prefixes == {38, 46, 54, 62, 100, 101, 102, 103, 240}

NoOverride == 6
PrefixState == [operand32 : BOOLEAN, address32 : BOOLEAN, seg : 0 .. 6]
NoPrefix == [operand32 |-> FALSE, address32 |-> FALSE, seg |-> NoOverride]

\* The size prefixes toggle, the last segment prefix counts, LOCK does nothing.
Prefixed(p, byte) ==
  CASE byte = 38 -> [p EXCEPT !.seg = ES]
    [] byte = 46 -> [p EXCEPT !.seg = CS]
    [] byte = 54 -> [p EXCEPT !.seg = SS]
    [] byte = 62 -> [p EXCEPT !.seg = DS]
    [] byte = 100 -> [p EXCEPT !.seg = FS]
    [] byte = 101 -> [p EXCEPT !.seg = GS]
    [] byte = 102 -> [p EXCEPT !.operand32 = ~@]
    [] byte = 103 -> [p EXCEPT !.address32 = ~@]
    [] OTHER -> p

-----------------------------------------------------------------------------
\* The fields of a ModRM byte, which a SIB byte has too: scale, index, base.

ModRmMode(b) == b \div 64
ModRmReg(b) == (b \div 8) % 8
ModRmRm(b) == b % 8
RegOperand(b) == ModRmMode(b) = 3

\* The segment field: 6 and 7 name no register and act on DS.
SegField(b) == IF ModRmReg(b) > 5 THEN DS ELSE ModRmReg(b)

\* An address: its default segment, its offset, and IP after its bytes.
Ea(seg, off, next) == [seg |-> seg, off |-> off, next |-> next]

-----------------------------------------------------------------------------
\* Sixteen-bit addresses.

Direct(b) == ModRmMode(b) = 0 /\ ModRmRm(b) = 6

Base16(r, b) ==
  CASE ModRmRm(b) = 0 -> Get16(r, BX) + Get16(r, SI)
    [] ModRmRm(b) = 1 -> Get16(r, BX) + Get16(r, DI)
    [] ModRmRm(b) = 2 -> Get16(r, BP) + Get16(r, SI)
    [] ModRmRm(b) = 3 -> Get16(r, BP) + Get16(r, DI)
    [] ModRmRm(b) = 4 -> Get16(r, SI)
    [] ModRmRm(b) = 5 -> Get16(r, DI)
    [] ModRmRm(b) = 6 -> Get16(r, BP)
    [] ModRmRm(b) = 7 -> Get16(r, BX)

StackBased16(b) == ModRmRm(b) \in {2, 3, 6} /\ ~Direct(b)

DecodeEa16(s, b) ==
  LET seg == IF StackBased16(b) THEN SS ELSE DS
      base == Base16(s.regs, b)
  IN CASE Direct(b) -> Ea(seg, Imm16(s), Skip16(s))
       [] ModRmMode(b) = 1 -> Ea(seg, Wrap16(base + SignExtend(Imm8(s))), Skip(s))
       [] ModRmMode(b) = 2 -> Ea(seg, Wrap16(base + Imm16(s)), Skip16(s))
       [] OTHER -> Ea(seg, Wrap16(base), s)

-----------------------------------------------------------------------------
\* Thirty-two-bit addresses.  Without a SIB byte its place is taken by one
\* that names the base and no index.

HasSib(b) == ModRmRm(b) = 4
NoIndex == 4
Sib(s, b) == IF HasSib(b) THEN Imm8(s) ELSE 8 * NoIndex + ModRmRm(b)
AfterSib(s, b) == IF HasSib(b) THEN Skip(s) ELSE s

NoBase(b, sib) == ModRmMode(b) = 0 /\ ModRmRm(sib) = 5
StackBased32(b, sib) == ModRmRm(sib) \in {4, 5} /\ ~NoBase(b, sib)

Scale(sib) == <<1, 2, 4, 8>>[ModRmMode(sib) + 1]
Indexed(r, sib) ==
  IF ModRmReg(sib) = NoIndex THEN 0 ELSE GetAddr(r, ModRmReg(sib)) * Scale(sib)

DecodeEa32(s, b) ==
  LET sib == Sib(s, b)
      t == AfterSib(s, b)
      seg == IF StackBased32(b, sib) THEN SS ELSE DS
      index == Indexed(s.regs, sib)
      base == GetAddr(s.regs, ModRmRm(sib)) + index
  IN CASE NoBase(b, sib) ->
            Ea(seg, (Imm32(t) + index) % MemSize, Skip16(Skip16(t)))
       [] ModRmMode(b) = 1 ->
            Ea(seg, (base + SignExtend(Imm8(t))) % MemSize, Skip(t))
       [] ModRmMode(b) = 2 ->
            Ea(seg, (base + Imm32(t)) % MemSize, Skip16(Skip16(t)))
       [] OTHER -> Ea(seg, base % MemSize, t)

-----------------------------------------------------------------------------
\* Operands in memory or in a register.

DecodeEa(s, p, b) == IF p.address32 THEN DecodeEa32(s, b) ELSE DecodeEa16(s, b)

EaSeg(s, p, b) ==
  IF p.seg = NoOverride THEN DecodeEa(s, p, b).seg ELSE p.seg
EaAddr(s, p, b) == Phys(GetSeg(s.regs, EaSeg(s, p, b)), DecodeEa(s, p, b).off)
AfterEa(s, p, b) == DecodeEa(s, p, b).next

\* IP after an access to the operand.
AfterOperand(s, p, b) == IF RegOperand(b) THEN s ELSE AfterEa(s, p, b)

Read8(s, p, b) ==
  IF RegOperand(b) THEN Get8(s.regs, ModRmRm(b))
                   ELSE ReadU8(s.mem, EaAddr(s, p, b))
Read16(s, p, b) ==
  IF RegOperand(b) THEN Get16(s.regs, ModRmRm(b))
                   ELSE ReadU16(s.mem, EaAddr(s, p, b))

\* The high word of a double word operand; Read16 is its low word.
ReadHigh16(s, p, b) ==
  IF RegOperand(b) THEN GetHigh16(s.regs, ModRmRm(b))
                   ELSE ReadU16(s.mem, (EaAddr(s, p, b) + 2) % MemSize)

Write8(s, p, b, v) ==
  IF RegOperand(b) THEN WithReg(s, Set8(s.regs, ModRmRm(b), v))
  ELSE [AfterEa(s, p, b) EXCEPT !.mem = WriteU8(@, EaAddr(s, p, b), v)]

\* Mutant: the address of the write is decoded without the prefixes.
Write16Unprefixed(s, p, b, v) ==
  IF RegOperand(b) THEN WithReg(s, Set16(s.regs, ModRmRm(b), v))
  ELSE [AfterEa(s, p, b) EXCEPT !.mem =
          WriteU16(@, EaAddr(s, [p EXCEPT !.seg = NoOverride], b), v)]

Write16(s, p, b, v) ==
  IF RegOperand(b) THEN WithReg(s, Set16(s.regs, ModRmRm(b), v))
  ELSE [AfterEa(s, p, b) EXCEPT !.mem = WriteU16(@, EaAddr(s, p, b), v)]

=============================================================================
