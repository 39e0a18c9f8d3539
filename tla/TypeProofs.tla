----------------------------- MODULE TypeProofs -----------------------------
(***************************************************************************)
(* The runtime is type correct, for every program, disk and host           *)
(* directory: no register, byte, address or handle outgrows its width.     *)
(***************************************************************************)
EXTENDS HandlerProofs, RuntimeProperties

\* TypeOK is not inductive by itself: the translation loop needs a turn to
\* spare, generated code a block to run, and both the operands to be good.
GoodCode(code) == \A i \in 1 .. Len(code) : GoodOperand(code[i])
TypeInv ==
  /\ TypeOK
  /\ RunsCachedBlock
  /\ pc = "translate" => turns < BlockLimit
  /\ GoodCode(ops)
  /\ \A a \in DOMAIN cache : GoodCode(cache[a])

LEMMA ConstantsTyped ==
  /\ \A b \in Boots : IsBoot(b)
  /\ BlockLimit \in Nat \ {0}
  /\ MaxCalls \in Nat
  /\ UndefinedInts \subseteq Byte
  BY RuntimeAssumption

LEMMA BootedTyped ==
  ASSUME NEW b, IsBoot(b)
  PROVE  IsMachine(Booted(b))
<1>1. IsMachine(Blank0)
  <2>1. IsMem(EmptyMem)
    BY DEF IsMem, EmptyMem
  <2>. QED  BY <2>1, RegsNewTyped, DosNewTyped DEF IsMachine, Blank0
<1>2. 128 \in Byte
  BY ByteRange
<1>3. CASE b.kind = "exe"
  BY <1>1, <1>3, LoadMzTyped DEF Booted, IsBoot
<1>4. CASE b.kind = "fat"
  <2>. DEFINE f == b.disk.files[b.queue[1]]
  <2>1. b.queue \in Seq(DOMAIN b.disk.files) /\ b.queue # <<>>
    BY <1>4 DEF IsBoot
  <2>2. b.queue[1] \in DOMAIN b.disk.files
    BY <2>1
  <2>3. IsImage(f)
    BY <2>2 DEF IsBoot, IsDisk
  <2>. HIDE DEF f
  <2>4. IsMachine(ExecuteBinary(Blank0, f))
    BY <1>1, <2>3, ExecuteBinaryTyped
  <2>5. IsMachine(With8(ExecuteBinary(Blank0, f), DL, 128))
    BY <1>2, <2>4, With8Typed, RegNames
  <2>. QED  BY <1>4, <2>5 DEF Booted, f
<1>5. CASE b.kind = "boot"
  <2>. DEFINE sector == ReadSectors(b.disk, 0, 1)
  <2>1. sector \in Seq(Byte)
    BY <1>5, ReadSectorsTyped DEF IsBoot
  <2>. HIDE DEF sector
  <2>2. IsMachine(LoadBootSector(Blank0, sector))
    BY <1>1, <2>1, LoadBootSectorTyped
  <2>3. IsMachine(With8(LoadBootSector(Blank0, sector), DL, 128))
    BY <1>2, <2>2, With8Typed, RegNames
  <2>. QED  BY <1>5, <2>3 DEF Booted, sector
<1>. QED  BY <1>3, <1>4, <1>5 DEF IsBoot

LEMMA TypeInit == Init => TypeInv
<1>. SUFFICES ASSUME Init  PROVE TypeInv
  OBVIOUS
<1>1. PICK b \in Boots : /\ machine = Booted(b) /\ disk = b.disk
                        /\ queue = b.queue /\ limit = b.limit
  BY DEF Init
<1>2. IsBoot(b)
  BY ConstantsTyped
<1>3. IsMachine(machine)
  BY <1>1, <1>2, BootedTyped
<1>4. IsDisk(disk) /\ queue \in Seq(DOMAIN disk.files) /\ limit \in Nat
  BY <1>1, <1>2 DEF IsBoot
<1>5. 0 \in Addr /\ 0 \in Byte
  BY AddrRange, MemSizeNat, ByteRange
<1>6. IsVideo(video)
  BY VideoNewTyped DEF Init
<1>7. TypeOK
  BY <1>3, <1>4, <1>5, <1>6, PrefixTyped, ConstantsTyped, ResultsTyped
  DEF Init, TypeOK, Phases
<1>. QED  BY <1>7, ConstantsTyped DEF Init, TypeInv, RunsCachedBlock, GoodCode

-----------------------------------------------------------------------------
\* One lemma for each part of a call.

LEMMA StartKeeps ==
  ASSUME TypeInv, StepHalted \/ StepLimited \/ RunCached \/ StartBlock
  PROVE  TypeInv'
<1>. USE DEF TypeInv, TypeOK
<1>1. calls' \in 0 .. MaxCalls
  BY ConstantsTyped DEF StepHalted, StepLimited, RunCached, StartBlock, Call
<1>2. machine.regs.ip \in Addr /\ CodeAddr \in Addr
  BY IpAddr, SegPhys, Parts, RegNames DEF CodeAddr
<1>3. CASE StepHalted
  BY <1>1, <1>3, ResultsTyped
  DEF StepHalted, program, boot, fetched, translation, RunsCachedBlock
<1>4. CASE StepLimited
  <2>1. IsMachine([machine EXCEPT !.halted = TRUE])
    BY WithHalted
  <2>. QED
    BY <1>1, <1>4, <2>1, ResultsTyped
    DEF StepLimited, boot, fetched, translation, RunsCachedBlock
<1>5. CASE RunCached
  <2>1. cache[CodeAddr] \in Seq(IrOp)
    BY <1>5 DEF RunCached
  <2>2. Len(cache[CodeAddr]) \in Nat
    BY <2>1
  <2>. QED
    BY <1>1, <1>2, <1>5, <2>2 DEF RunCached, program, boot, fetched, RunsCachedBlock, Phases
<1>6. CASE StartBlock
  BY <1>1, <1>2, <1>6, ConstantsTyped
  DEF StartBlock, StartAt, program, boot, fetched, RunsCachedBlock, Phases, GoodCode
<1>. QED  BY <1>3, <1>4, <1>5, <1>6

\* A turn's operations are typed and their operands good, whatever its kind.
LEMMA TurnTyped ==
  ASSUME NEW m, IsMem(m), NEW r \in Regs, NEW ip \in Addr
  PROVE  LET t == Translate(m, r, ip)
         IN t.ops \in Seq(IrOp) /\ GoodCode(t.ops) /\ t.size \in 0 .. 5
<1>. DEFINE t == Translate(m, r, ip)
<1>1. StraightTurn(t) \/ LastTurn(t)
  BY TurnShape
<1>. HIDE DEF t
<1>2. CASE StraightTurn(t)
  <2>1. \A i \in 1 .. Len(t.ops) : i = 1 \/ i = 2
    BY <1>2 DEF StraightTurn
  <2>. QED  BY <1>2, <2>1 DEF StraightTurn, GoodCode, t
<1>3. CASE LastTurn(t)
  BY <1>3 DEF LastTurn, GoodCode, t
<1>. QED  BY <1>1, <1>2, <1>3

LEMMA GoodConcat ==
  ASSUME NEW p \in Seq(IrOp), NEW q \in Seq(IrOp), GoodCode(p), GoodCode(q)
  PROVE  p \o q \in Seq(IrOp) /\ GoodCode(p \o q)
<1>1. ASSUME NEW i \in 1 .. Len(p \o q)  PROVE GoodOperand((p \o q)[i])
  <2>1. CASE i <= Len(p)
    BY <2>1 DEF GoodCode
  <2>2. CASE i > Len(p)
    <3>1. (p \o q)[i] = q[i - Len(p)] /\ i - Len(p) \in 1 .. Len(q)
      BY <2>2
    <3>. QED  BY <3>1 DEF GoodCode
  <2>. QED  BY <2>1, <2>2
<1>. QED  BY <1>1 DEF GoodCode

LEMMA TranslateKeeps ==
  ASSUME TypeInv, TranslateTurn \/ CompileBlock \/ EmptyBlock
  PROVE  TypeInv'
<1>. USE DEF TypeInv, TypeOK
<1>1. CASE TranslateTurn
  <2>. DEFINE t == Translate(machine.mem, machine.regs, cur)
  <2>1. t.ops \in Seq(IrOp) /\ GoodCode(t.ops) /\ t.size \in 0 .. 5
    BY Parts, TurnTyped
  <2>2. /\ pc = "translate" /\ ops' = ops \o t.ops
        /\ cur' = (cur + t.size) % MemSize /\ turns' = turns + 1
        /\ pc' = IF t.size = 0 \/ turns' = BlockLimit THEN "compile"
                                                      ELSE "translate"
        /\ UNCHANGED <<program, boot, cache, key, at, fetched, result, calls>>
    BY <1>1 DEF TranslateTurn
  <2>. HIDE DEF t
  <2>3. ops' \in Seq(IrOp) /\ GoodCode(ops')
    BY <2>1, <2>2, GoodConcat
  <2>4. cur' \in Addr
    <3>1. cur \in Int /\ t.size \in Int
      <4>1. cur \in Addr
        BY Zenon
      <4>. QED  BY ONLY <2>1, <4>1, AddrInt
    <3>2. cur + t.size \in Int
      BY ONLY <3>1
    <3>. QED  BY <2>2, <3>2, ModAddr
  <2>5. turns' \in 0 .. BlockLimit /\ (pc' = "translate" => turns' < BlockLimit)
    BY <2>2, ConstantsTyped
  <2>6. pc' \in {"compile", "translate"}
    BY <2>2
  <2>. QED
    BY <2>2, <2>3, <2>4, <2>5, <2>6
    DEF program, boot, fetched, RunsCachedBlock, Phases
<1>2. CASE CompileBlock
  <2>1. /\ DOMAIN cache' = DOMAIN cache \cup {key} /\ cache'[key] = ops
        /\ \A a \in DOMAIN cache : a # key => cache'[a] = cache[a]
    BY <1>2 DEF CompileBlock
  <2>2. cache' \in [DOMAIN cache' -> Seq(IrOp)]
    BY <1>2 DEF CompileBlock
  <2>3. Len(ops) \in Nat
    OBVIOUS
  <2>. QED
    BY <1>2, <2>1, <2>2, <2>3
    DEF CompileBlock, program, boot, fetched, translation, RunsCachedBlock, Phases
<1>3. CASE EmptyBlock
  BY <1>3 DEF EmptyBlock, program, boot, fetched, translation, RunsCachedBlock, Phases
<1>. QED  BY <1>1, <1>2, <1>3

\* The operation generated code is at, and that its operand is good.
LEMMA BlockTyped ==
  ASSUME TypeInv, pc = "run", at <= Len(Block)
  PROVE  Block[at] \in IrOp /\ GoodOperand(Block[at])
<1>1. key \in DOMAIN cache /\ Block \in Seq(IrOp) /\ at \in Nat \ {0}
  BY DEF TypeInv, TypeOK, RunsCachedBlock, Block
<1>2. at \in 1 .. Len(Block)
  BY <1>1
<1>. QED  BY <1>1, <1>2 DEF TypeInv, GoodCode, Block

LEMMA ResultOfTyped ==
  ASSUME NEW code \in Addr
  PROVE  ResultOf(code) \in StepResult
<1>1. code \in Int
  BY AddrInt
<1>2. (code - ExitInt) % 256 \in Byte
  BY <1>1, ByteRange DEF ExitInt
<1>. QED  BY <1>2, ResultsTyped DEF ResultOf

LEMMA RunKeeps ==
  ASSUME TypeInv, RunOp \/ RunExit \/ RunOffEnd
  PROVE  TypeInv'
<1>. USE DEF TypeInv, TypeOK
<1>1. CASE RunOp
  <2>1. at <= Len(Block) /\ pc = "run" /\ key \in DOMAIN cache
    BY <1>1 DEF RunOp, RunsCachedBlock
  <2>2. Block[at] \in IrOp /\ GoodOperand(Block[at])
    BY <2>1, BlockTyped
  <2>3. /\ RunRegs(machine.regs, Block[at]) \in Regs
        /\ IsMem(RunMem(machine.mem, Block[at]))
    BY <2>2, Parts, RunRegsTyped, RunMemTyped
  <2>4. IsMachine(machine')
    <3>. DEFINE r == RunRegs(machine.regs, Block[at])
                m == RunMem(machine.mem, Block[at])
    <3>1. IsMachine([machine EXCEPT !.regs = r])
      BY <2>3, WithRegs
    <3>. HIDE DEF r, m
    <3>2. IsMachine([[machine EXCEPT !.regs = r] EXCEPT !.mem = m])
      BY <2>3, <3>1, WithMem DEF m
    <3>3. machine' = [[machine EXCEPT !.regs = r] EXCEPT !.mem = m]
      BY <1>1 DEF RunOp, r, m, IsMachine
    <3>. QED  BY <3>2, <3>3
  <2>5. IsVideo(video')
    BY <1>1, <2>2, Parts, RunVideoTyped DEF RunOp
  <2>6. at' \in Nat \ {0} /\ at' <= Len(cache[key]) + 1
    <3>1. at' = at + 1 /\ Len(cache[key]) \in Nat /\ at <= Len(cache[key])
      BY <1>1, <2>1 DEF RunOp, Block
    <3>. QED  BY SMTT(60), <3>1
  <2>. QED
    BY <1>1, <2>4, <2>5, <2>6 DEF RunOp, boot, fetched, translation, RunsCachedBlock
<1>2. CASE RunExit
  <2>1. Block[at] \in IrOp
    BY <1>2, BlockTyped DEF RunExit, AtExit
  <2>2. result' \in StepResult
    BY <1>2, <2>1, ResultOfTyped DEF RunExit, IrOp
  <2>. QED
    BY <1>2, <2>2
    DEF RunExit, AfterBlock, program, boot, fetched, translation, RunsCachedBlock, Phases
<1>3. CASE RunOffEnd
  <2>1. result' \in StepResult
    BY <1>3, ConstantsTyped, ResultsTyped DEF RunOffEnd, Leftover
  <2>. QED
    BY <1>3, <2>1
    DEF RunOffEnd, AfterBlock, program, boot, fetched, translation, RunsCachedBlock,
        Phases
<1>. QED  BY <1>1, <1>2, <1>3

LEMMA InterpretKeeps ==
  ASSUME TypeInv,
         \/ FetchOpcode \/ Interpret \/ InterpretIn \/ InterpretOut
         \/ InstructionPanic
  PROVE  TypeInv'
<1>. USE DEF TypeInv, TypeOK
<1>1. CASE FetchOpcode
  <2>1. IsMachine(machine') /\ opcode' \in Byte
    BY <1>1, FetchTyped, SkipTyped DEF FetchOpcode
  <2>2. prefix' \in PrefixState
    BY <1>1, PrefixTyped DEF FetchOpcode
  <2>. QED
    BY <1>1, <2>1, <2>2
    DEF FetchOpcode, boot, fetched, translation, RunsCachedBlock, Phases
<1>2. ASSUME NEW o, Executed(o), Good(o), IsVideo(video')  PROVE TypeInv'
  <2>1. executed' \in Nat
    BY <1>2 DEF Executed
  <2>. QED
    BY <1>2, <2>1
    DEF Executed, Good, boot, fetched, translation, RunsCachedBlock, Phases
<1>3. CASE Interpret
  <2>1. Good(Execute(opcode, machine, prefix))
    BY <1>3, ExecuteTyped DEF Interpret
  <2>. QED  BY <1>2, <1>3, <2>1 DEF Interpret
<1>4. CASE InterpretIn
  <2>1. \A port : PortValues(port) \subseteq Byte
    BY SMTT(60), ByteRange DEF PortValues
  <2>2. PICK lo \in Byte, hi \in Byte :
          Executed(Outcome(In(opcode, machine, lo, hi), Continue))
    BY <1>4, <2>1 DEF InterpretIn
  <2>3. IsMachine(In(opcode, machine, lo, hi))
    BY InTyped
  <2>4. Good(Outcome(In(opcode, machine, lo, hi), Continue))
    BY <2>3, GoodOutcome, ResultsTyped
  <2>. QED  BY <1>2, <1>4, <2>2, <2>4 DEF InterpretIn
<1>5. CASE InterpretOut
  <2>1. IsVideo(video')
    BY <1>5, OutTyped DEF InterpretOut
  <2>2. IsMachine(AfterPort(opcode, machine))
    BY PortTyped
  <2>3. Good(Outcome(AfterPort(opcode, machine), Continue))
    BY <2>2, GoodOutcome, ResultsTyped
  <2>. QED  BY <1>2, <1>5, <2>1, <2>3 DEF InterpretOut
<1>6. CASE InstructionPanic
  BY <1>6
  DEF InstructionPanic, program, boot, fetched, translation, RunsCachedBlock,
      Phases, Ended
<1>. QED  BY <1>1, <1>3, <1>4, <1>5, <1>6

LEMMA FramedTyped ==
  ASSUME IsMachine(machine)
  PROVE  IsMachine(Framed)
<1>. DEFINE s == PushFrame(machine)
            r == SetFlag(s.regs, IntFlag, FALSE)
<1>1. IsMachine(s)
  BY PushFrameTyped
<1>. HIDE DEF s
<1>. IntFlag \in Flags /\ TrapFlag \in Flags
  BY DEF Flags
<1>2. r \in Regs
  BY <1>1, Parts, SetFlagRegs
<1>. HIDE DEF r
<1>3. SetFlag(r, TrapFlag, FALSE) \in Regs
  BY <1>2, SetFlagRegs
<1>4. IsMachine([s EXCEPT !.regs = SetFlag(r, TrapFlag, FALSE)])
  BY <1>1, <1>3, WithRegs
<1>. QED  BY <1>4 DEF Framed, s, r

LEMMA NextFileTyped ==
  ASSUME TypeInv, HasNext
  PROVE  IsImage(NextFile)
<1>1. batch + 2 \in 1 .. Len(queue)
  BY DEF TypeInv, TypeOK, HasNext
<1>2. queue[batch + 2] \in DOMAIN disk.files
  BY <1>1 DEF TypeInv, TypeOK
<1>. QED  BY <1>2 DEF TypeInv, TypeOK, IsDisk, NextFile

LEMMA HandleKeeps ==
  ASSUME TypeInv,
         \/ HandleContinue \/ HandleHaltNext \/ HandleHaltFails
         \/ HandleHaltLast \/ HandleNative \/ HandleVector \/ HandlerFails
  PROVE  TypeInv'
<1>. USE DEF TypeInv, TypeOK
<1>1. CASE HandleContinue \/ HandlerFails
  BY <1>1
  DEF HandleContinue, HandlerFails, program, boot, fetched, translation,
      RunsCachedBlock, Phases, Ended
<1>2. CASE HandleHaltNext
  <2>. DEFINE s == [[machine EXCEPT !.halted = FALSE] EXCEPT !.regs = RegsNew]
  <2>1. IsMachine(s)
    <3>1. IsMachine([machine EXCEPT !.halted = FALSE])
      BY WithHalted
    <3>. QED  BY <3>1, WithRegs, RegsNewTyped
  <2>2. s = [machine EXCEPT !.halted = FALSE, !.regs = RegsNew]
    BY DEF IsMachine
  <2>. HIDE DEF s
  <2>3. IsMachine(ExecuteBinary(s, NextFile))
    BY <1>2, <2>1, NextFileTyped, ExecuteBinaryTyped DEF HandleHaltNext
  <2>4. IsMachine(machine') /\ batch' \in Nat
    BY <1>2, <2>2, <2>3 DEF HandleHaltNext
  <2>. QED
    BY <1>2, <2>4, ResultsTyped
    DEF HandleHaltNext, boot, fetched, translation, RunsCachedBlock, Phases
<1>3. CASE HandleHaltFails \/ HandleHaltLast
  BY <1>3
  DEF HandleHaltFails, HandleHaltLast, boot, fetched, translation, RunsCachedBlock,
      Phases, Ended
<1>4. CASE HandleNative
  <2>1. IsMachine(Framed)
    BY FramedTyped
  <2>2. IsMachine(Serve(result.num, Framed, disk))
    BY <1>4, <2>1, ServeTyped DEF HandleNative, Serving
  <2>3. IsMachine(machine')
    BY <1>4, <2>2, PopFrameTyped DEF HandleNative
  <2>. QED
    BY <1>4, <2>3, ResultsTyped
    DEF HandleNative, boot, fetched, translation, RunsCachedBlock, Phases
<1>5. CASE HandleVector
  <2>1. IsMachine(Framed) /\ result.num \in Byte
    BY FramedTyped DEF StepResult
  <2>2. /\ IvtSeg(Framed.mem, result.num) \in Word
        /\ IvtOff(Framed.mem, result.num) \in Word
    BY <2>1, Parts, VectorTyped
  <2>3. IsMachine(machine')
    BY <1>5, <2>1, <2>2, GotoFarTyped DEF HandleVector
  <2>. QED
    BY <1>5, <2>3, ResultsTyped
    DEF HandleVector, boot, fetched, translation, RunsCachedBlock, Phases
<1>. QED  BY <1>1, <1>2, <1>3, <1>4, <1>5

LEMMA TypeNext == TypeInv /\ [Next]_vars => TypeInv'
<1>. SUFFICES ASSUME TypeInv, [Next]_vars  PROVE TypeInv'
  OBVIOUS
<1>1. CASE UNCHANGED vars
  BY <1>1
  DEF vars, program, boot, fetched, translation, TypeInv, TypeOK, RunsCachedBlock
<1>2. CASE Close
  BY <1>2
  DEF Close, program, boot, fetched, translation, TypeInv, TypeOK, RunsCachedBlock,
      Phases, Ended
<1>. QED
  BY <1>1, <1>2, StartKeeps, TranslateKeeps, RunKeeps, InterpretKeeps,
     HandleKeeps
  DEF Next, Execution, Over

-----------------------------------------------------------------------------
\* Registers, bytes, addresses and handles keep their width in every reachable
\* state, whatever the program does.
THEOREM TypeTheorem == Spec => []TypeOK
<1>1. TypeInv => TypeOK
  BY DEF TypeInv
<1>. QED  BY TypeInit, TypeNext, <1>1, PTL DEF Spec

\* Generated code always has the block it runs, and does not leave it.
THEOREM BlockTheorem == Spec => []RunsCachedBlock
<1>1. TypeInv => RunsCachedBlock
  BY DEF TypeInv
<1>. QED  BY TypeInit, TypeNext, <1>1, PTL DEF Spec

=============================================================================
