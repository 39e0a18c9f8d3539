------------------------------- MODULE Interp -------------------------------
(***************************************************************************)
(* The interpreter's dispatch, control flow and the rest                   *)
(* (cpu/interp/mod.rs, flow.rs and misc.rs): the effect on the machine s   *)
(* of one instruction whose prefixes p and opcode byte have been fetched,  *)
(* and the result it returns.                                              *)
(***************************************************************************)
EXTENDS Extended

Goto(s, ip) == [s EXCEPT !.regs = SetIp(@, ip)]
GotoFar(s, seg, off) == [s EXCEPT !.regs = SetSeg(SetIp(@, off), CS, seg)]
AddSp(s, n) == [s EXCEPT !.regs = Set16(@, SP, Wrap16(Get16(@, SP) + n))]

-----------------------------------------------------------------------------
\* Jumps and loops.

ShortTarget(s) == Wrap16(NextIp(s).ip + SignExtend(Imm8(s)))
NearTarget(s) == Wrap16(Skip16(s).regs.ip + Imm16(s))

JumpIf(s, taken) == Goto(s, IF taken THEN ShortTarget(s) ELSE NextIp(s).ip)

Jcc(opcode, s) == JumpIf(s, Condition(s.regs, opcode % 16))

\* LOOPNE, LOOPE and LOOP count CX down; JCXZ only looks at it.
Loop(opcode, s) ==
  LET cx == Wrap16(Get16(s.regs, CX) - 1)
      t == [s EXCEPT !.regs = Set16(@, CX, cx)]
      zf == Flag(s.regs, ZeroFlag)
  IN CASE opcode = 224 -> JumpIf(t, cx # 0 /\ ~zf)
       [] opcode = 225 -> JumpIf(t, cx # 0 /\ zf)
       [] opcode = 226 -> JumpIf(t, cx # 0)
       [] opcode = 227 -> JumpIf(s, Get16(s.regs, CX) = 0)

\* Far pointer operands: offset, then segment.
FarOff(s) == Imm16(s)
FarSeg(s) == Imm16(Skip16(s))
AfterFar(s) == Skip16(Skip16(s))

JmpFar(s) == GotoFar(s, FarSeg(s), FarOff(s))
CallNear(s) ==
  Goto(Push16(Skip16(s), Skip16(s).regs.ip), NearTarget(s))
CallFar(s) ==
  LET t == AfterFar(s)
  IN GotoFar(Push16(Push16(t, GetSeg(t.regs, CS)), t.regs.ip),
             FarSeg(s), FarOff(s))

RetNear(s, n) == AddSp(Goto(Drop16(s), Top16(s)), n)
RetFar(s, n) ==
  LET t == Drop16(s) IN AddSp(GotoFar(Drop16(t), Top16(t), Top16(s)), n)

\* Group FF.  INC and DEC keep the carry.
Stepped(r, field, v, w) ==
  SetFlag(IF field = 0 THEN AddFlags(r, v, 1, w, WordSize)
                       ELSE SubFlags(r, v, 1, w, WordSize),
          CarryFlag, Flag(r, CarryFlag))

IncDec(s, p, b) ==
  LET v == Read16(s, p, b)
      w == Wrap16(IF ModRmReg(b) = 0 THEN v + 1 ELSE v - 1)
      t == AfterOperand(s, p, b)
  IN Write16(WithReg(t, Stepped(t.regs, ModRmReg(b), v, w)), p, b, w)

\* The far pointer in memory: offset, then segment.
PointerOff(s, p, b) == ReadU16(s.mem, EaAddr(s, p, b))
PointerSeg(s, p, b) == ReadU16(s.mem, (EaAddr(s, p, b) + 2) % MemSize)

GroupFF(s, p) ==
  LET b == Imm8(s)
      t == Skip(s)
      field == ModRmReg(b)
      after == AfterOperand(t, p, b)
      far == AfterEa(t, p, b)
      called == Push16(Push16(far, GetSeg(far.regs, CS)), Wrap16(far.regs.ip))
      v == Read16(t, p, b)
  IN CASE field < 2 -> Outcome(IncDec(t, p, b), Continue)
       [] field = 2 ->
            Outcome(Goto(Push16(after, Wrap16(after.regs.ip)), v), Continue)
       [] field = 3 ->
            Outcome(GotoFar(called, PointerSeg(t, p, b), PointerOff(t, p, b)),
                    Continue)
       [] field = 4 -> Outcome(Goto(after, v), Continue)
       [] field = 5 ->
            Outcome(GotoFar(far, PointerSeg(t, p, b), PointerOff(t, p, b)),
                    Continue)
       [] field = 6 -> Outcome(Push16(after, v), Continue)
       [] field = 7 -> Outcome(t, Unimplemented(255))

\* The far forms decode an address whatever the mode, and decode_ea_16 has
\* none for a register.
DecodePanics(opcode, s, p) ==
  /\ opcode = 255 /\ ~p.address32
  /\ RegOperand(Imm8(s)) /\ ModRmReg(Imm8(s)) \in {3, 5}

Panicking(opcode, s, p) ==
  DecodePanics(opcode, s, p) \/ DivisionPanics(opcode, s, p)

Flow(opcode, s) ==
  CASE opcode \in 112 .. 127 -> Jcc(opcode, s)
    [] opcode \in 224 .. 227 -> Loop(opcode, s)
    [] opcode = 235 -> JumpIf(s, TRUE)
    [] opcode = 233 -> Goto(s, NearTarget(s))
    [] opcode = 234 -> JmpFar(s)
    [] opcode = 232 -> CallNear(s)
    [] opcode = 154 -> CallFar(s)
    [] opcode = 194 -> RetNear(Skip16(s), Imm16(s))
    [] opcode = 195 -> RetNear(s, 0)
    [] opcode = 202 -> RetFar(Skip16(s), Imm16(s))
    [] opcode = 203 -> RetFar(s, 0)
    [] opcode = 207 -> PopFrame(s)
FlowOpcodes == (112 .. 127) \cup (224 .. 227)
                 \cup {154, 194, 195, 202, 203, 207, 232, 233, 234, 235}

-----------------------------------------------------------------------------
\* Flags, segment moves and the rest.

FlagOpcodes == 248 .. 253 \cup {245}
FlagOf(opcode) == CASE opcode \in {245, 248, 249} -> CarryFlag
                    [] opcode \in {250, 251} -> IntFlag
                    [] opcode \in {252, 253} -> DirFlag
FlagOp(opcode, s) ==
  LET on == IF opcode = 245 THEN ~Flag(s.regs, CarryFlag)
                            ELSE opcode \in {249, 251, 253}
  IN [s EXCEPT !.regs = SetFlag(@, FlagOf(opcode), on)]

StoreSeg(s, p) ==
  Write16(Skip(s), p, Imm8(s), GetSeg(s.regs, SegField(Imm8(s))))
LoadSegReg(s, p) ==
  LET t == AfterOperand(Skip(s), p, Imm8(s))
  IN WithReg(t, SetSeg(t.regs, SegField(Imm8(s)), Read16(Skip(s), p, Imm8(s))))

Salc(s) ==
  [s EXCEPT !.regs = Set8(@, AL, IF Flag(@, CarryFlag) THEN 255 ELSE 0)]

\* NOP and the decimal adjustments, none of which does anything.
IdleOpcodes == {39, 47, 55, 63, 144}

\* Floating point is skipped, with the address of its operand.
FpuOpcodes == 216 .. 223

Misc(opcode, s, p) ==
  CASE opcode \in IdleOpcodes -> Outcome(s, Continue)
    [] opcode \in FlagOpcodes -> Outcome(FlagOp(opcode, s), Continue)
    [] opcode = 214 -> Outcome(Salc(s), Continue)
    [] opcode \in {212, 213} -> Outcome(Skip(s), Continue)
    [] opcode \in FpuOpcodes ->
         Outcome(AfterOperand(Skip(s), p, Imm8(s)), Continue)
    [] opcode = 140 -> Outcome(StoreSeg(s, p), Continue)
    [] opcode = 142 -> Outcome(LoadSegReg(s, p), Continue)
    [] opcode = 205 -> Outcome(Skip(s), Interrupt(Imm8(s)))
    [] opcode = 206 -> Outcome(s, Interrupt(4))
    [] opcode = 15 -> Escape(s, p)
    [] opcode = 244 -> Outcome([s EXCEPT !.halted = TRUE], Halt)
    [] OTHER -> Outcome(s, Unimplemented(opcode))

Execute(opcode, s, p) ==
  CASE opcode \in Group1Opcodes -> Outcome(Group1(opcode, s, p), Continue)
    [] opcode \in Group3Opcodes -> Group3(opcode, s, p)
    [] opcode \in FlowOpcodes -> Outcome(Flow(opcode, s), Continue)
    [] opcode = 255 -> GroupFF(s, p)
    [] OTHER -> Misc(opcode, s, p)

-----------------------------------------------------------------------------
\* Port instructions, which reach the video controller.

InOpcodes == {228, 229, 236, 237}
OutOpcodes == {230, 231, 238, 239}
ImmediatePort(opcode) == opcode \in {228, 229, 230, 231}
WordPort(opcode) == opcode \in {229, 231, 237, 239}

Port(opcode, s) == IF ImmediatePort(opcode) THEN Imm8(s) ELSE Get16(s.regs, DX)
AfterPort(opcode, s) == IF ImmediatePort(opcode) THEN Skip(s) ELSE s

\* Port 0 is the vertical blank, which follows the host's clock.
PortValues(port) == IF port = 0 THEN {0, 32}
                    ELSE IF port \in {96, 100} THEN {0} ELSE {255}

In(opcode, s, lo, hi) ==
  [AfterPort(opcode, s) EXCEPT !.regs =
     IF WordPort(opcode) THEN Set16(@, AX, lo + 256 * hi) ELSE Set8(@, AL, lo)]

\* A word is written low byte first, to two consecutive ports.
Out(opcode, s, video) ==
  LET port == Port(opcode, s)
      low == WritePort(video, port, Get8(s.regs, AL))
  IN IF WordPort(opcode)
     THEN WritePort(low, Wrap16(port + 1), Get8(s.regs, AH)) ELSE low

=============================================================================
