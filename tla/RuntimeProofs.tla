--------------------------- MODULE RuntimeProofs ---------------------------
(***************************************************************************)
(* What TLAPS proves of the runtime, for every program, disk and limit.    *)
(***************************************************************************)
EXTENDS TypeProofs, WellFoundedInduction

-----------------------------------------------------------------------------
\* Blocks: straight-line code of bounded length, run at the address it was
\* made for and never made twice.

\* The operations of k straight-line turns: two for each, the second of which
\* holds the address after it.
Open(code, k) ==
  /\ code \in Seq(IrOp) /\ Len(code) = 2 * k
  /\ \A i \in 1 .. Len(code) : code[i].op # "Exit"
  /\ code # <<>> => code[Len(code)].op = "SyncIp"

\* BlocksWellFormed is not inductive: it rests on what the translation loop
\* has produced so far.
BlockInv ==
  /\ TypeInv
  /\ BlocksWellFormed
  /\ pc = "translate" => Open(ops, turns)
  /\ pc = "compile" => ops = <<>> \/ WellFormed(ops)

LEMMA Concat ==
  ASSUME NEW p \in Seq(IrOp), NEW q \in Seq(IrOp)
  PROVE  /\ p \o q \in Seq(IrOp)
         /\ Len(p) \in Nat /\ Len(q) \in Nat
         /\ Len(p \o q) = Len(p) + Len(q)
         /\ \A i \in 1 .. Len(p) : (p \o q)[i] = p[i]
         /\ \A i \in 1 .. Len(q) : (p \o q)[Len(p) + i] = q[i]
  OBVIOUS

LEMMA OpenConcat ==
  ASSUME NEW k \in Nat, NEW code, Open(code, k), NEW t, StraightTurn(t)
  PROVE  Open(code \o t.ops, k + 1)
<1>. DEFINE new == t.ops
            both == code \o new
<1>1. /\ code \in Seq(IrOp) /\ Len(code) = 2 * k
      /\ \A i \in 1 .. Len(code) : code[i].op # "Exit"
  BY DEF Open
<1>2. /\ new \in Seq(IrOp) /\ Len(new) = 2
      /\ new[1].op # "Exit" /\ new[2].op = "SyncIp"
  BY DEF StraightTurn
<1>. HIDE DEF new
<1>3. /\ both \in Seq(IrOp) /\ Len(both) = Len(code) + 2
      /\ \A i \in 1 .. Len(code) : both[i] = code[i]
      /\ both[Len(code) + 1] = new[1] /\ both[Len(code) + 2] = new[2]
  <2>1. 1 \in 1 .. Len(new) /\ 2 \in 1 .. Len(new)
    BY <1>2
  <2>2. \A i \in 1 .. Len(new) : both[Len(code) + i] = new[i]
    BY <1>1, <1>2, Concat
  <2>3. both[Len(code) + 1] = new[1] /\ both[Len(code) + 2] = new[2]
    BY <2>1, <2>2
  <2>. QED  BY ZenonT(90), <1>1, <1>2, <2>3, Concat
<1>. HIDE DEF both
<1>4. ASSUME NEW i \in 1 .. Len(both)  PROVE both[i].op # "Exit"
  <2>1. i \in 1 .. Len(code) \/ i = Len(code) + 1 \/ i = Len(code) + 2
    BY <1>1, <1>3
  <2>. QED  BY <1>1, <1>2, <1>3, <2>1
<1>5. Len(both) = 2 * (k + 1) /\ both[Len(both)].op = "SyncIp"
  BY <1>1, <1>2, <1>3
<1>. QED  BY <1>3, <1>4, <1>5 DEF Open, both, new

LEMMA CloseConcat ==
  ASSUME NEW k \in Nat, k < BlockLimit,
         NEW code, Open(code, k), NEW t, LastTurn(t)
  PROVE  code \o t.ops = <<>> \/ WellFormed(code \o t.ops)
<1>. DEFINE new == t.ops
            both == code \o new
<1>1. /\ code \in Seq(IrOp) /\ Len(code) = 2 * k
      /\ \A i \in 1 .. Len(code) : code[i].op # "Exit"
      /\ code # <<>> => code[Len(code)].op = "SyncIp"
  BY DEF Open
<1>2. /\ new \in Seq(IrOp) /\ Len(new) \in 0 .. 3
      /\ \A i \in 1 .. Len(new) : new[i].op = "Exit" <=> i = Len(new)
  BY DEF LastTurn
<1>. HIDE DEF new
<1>3. /\ both \in Seq(IrOp) /\ Len(both) = Len(code) + Len(new)
      /\ \A i \in 1 .. Len(code) : both[i] = code[i]
      /\ \A i \in 1 .. Len(new) : both[Len(code) + i] = new[i]
  BY <1>1, <1>2, Concat
<1>. HIDE DEF both
<1>4. Len(both) <= 2 * BlockLimit + 1
  <2>1. BlockLimit \in Nat
    BY ConstantsTyped
  <2>2. Len(both) <= 2 * k + 3
    <3>1. Len(new) \in Int /\ Len(new) <= 3
      BY <1>2
    <3>2. Len(both) = 2 * k + Len(new)
      BY <1>1, <1>3
    <3>. QED  BY <3>1, <3>2
  <2>3. Len(both) \in Nat
    BY <1>3
  <2>4. \A x \in Nat : x <= 2 * k + 3 => x <= 2 * BlockLimit + 1
    BY <2>1
  <2>. QED  BY <2>2, <2>3, <2>4
<1>5. CASE Len(new) = 0
  <2>1. CASE Len(code) = 0
    BY <1>3, <1>5, <2>1 DEF both, new
  <2>2. CASE Len(code) > 0
    <3>1. Len(both) = Len(code) /\ code # <<>>
      BY <1>1, <1>3, <1>5, <2>2
    <3>2. both[Len(both)].op = "SyncIp"
      BY <1>1, <1>3, <2>2, <3>1
    <3>3. \A i \in 1 .. Len(both) - 1 : both[i].op # "Exit"
      BY <1>1, <1>3, <3>1
    <3>4. Len(both) \in 1 .. 2 * BlockLimit + 1
      BY <1>1, <1>4, <2>2, <3>1, ConstantsTyped
    <3>. QED  BY <3>2, <3>3, <3>4 DEF WellFormed, both, new
  <2>. QED  BY <1>1, <2>1, <2>2
<1>6. CASE Len(new) > 0
  <2>1. both[Len(both)].op = "Exit"
    <3>1. Len(new) \in 1 .. Len(new)
      BY <1>2, <1>6
    <3>. QED  BY <1>2, <1>3, <3>1
  <2>2. ASSUME NEW i \in 1 .. Len(both) - 1  PROVE both[i].op # "Exit"
    <3>1. CASE i <= Len(code)
      BY <1>1, <1>3, <3>1
    <3>2. CASE i > Len(code)
      <4>1. PICK j \in 1 .. Len(new) - 1 : i = Len(code) + j
        <5>1. i - Len(code) \in 1 .. Len(new) - 1 /\ i = Len(code) + (i - Len(code))
          BY <1>1, <1>2, <1>3, <3>2
        <5>. QED  BY <5>1
      <4>2. j \in 1 .. Len(new) /\ j # Len(new)
        BY <1>2
      <4>. QED  BY <1>2, <1>3, <4>1, <4>2
    <3>. QED  BY <1>1, <3>1, <3>2
  <2>3. Len(both) \in 1 .. 2 * BlockLimit + 1
    BY <1>1, <1>2, <1>3, <1>4, <1>6, ConstantsTyped
  <2>. QED  BY <2>1, <2>2, <2>3 DEF WellFormed, both, new
<1>. QED  BY <1>2, <1>5, <1>6

LEMMA BlockInit == Init => BlockInv
  BY TypeInit DEF Init, BlockInv, BlocksWellFormed

LEMMA BlockNext == BlockInv /\ [Next]_vars => BlockInv'
<1>. SUFFICES ASSUME BlockInv, [Next]_vars  PROVE BlockInv'
  OBVIOUS
<1>1. TypeInv /\ TypeInv'
  BY TypeNext DEF BlockInv
<1>2. CASE UNCHANGED vars
  BY <1>1, <1>2 DEF vars, translation, BlockInv, BlocksWellFormed, WellFormed
<1>3. CASE StartBlock
  BY <1>1, <1>3
  DEF StartBlock, StartAt, BlockInv, BlocksWellFormed, Open, WellFormed
<1>4. CASE TranslateTurn
  <2>. DEFINE t == Translate(machine.mem, machine.regs, cur)
  <2>1. /\ pc = "translate" /\ ops' = ops \o t.ops /\ turns' = turns + 1
        /\ pc' = IF t.size = 0 \/ turns' = BlockLimit THEN "compile"
                                                      ELSE "translate"
        /\ cache' = cache
    BY <1>4 DEF TranslateTurn
  <2>2. StraightTurn(t) \/ LastTurn(t)
    BY <1>1, Parts, TurnShape DEF TypeInv, TypeOK
  <2>3. Open(ops, turns) /\ turns \in Nat /\ turns < BlockLimit
        /\ BlockLimit \in Nat \ {0}
    BY <1>1, <2>1, ConstantsTyped DEF BlockInv, TypeInv, TypeOK
  <2>. HIDE DEF t
  <2>4. CASE StraightTurn(t)
    <3>1. Open(ops', turns')
      BY <2>1, <2>3, <2>4, OpenConcat
    <3>2. turns' = BlockLimit => WellFormed(ops')
      <4>1. turns' = BlockLimit => Len(ops') = 2 * BlockLimit /\ ops' # <<>>
        BY <2>3, <3>1 DEF Open
      <4>. QED  BY <2>3, <3>1, <4>1 DEF Open, WellFormed
    <3>3. t.size # 0
      BY <2>4 DEF StraightTurn
    <3>. QED  BY <1>1, <2>1, <3>1, <3>2, <3>3 DEF BlockInv, BlocksWellFormed
  <2>5. CASE LastTurn(t)
    <3>1. ops' = <<>> \/ WellFormed(ops')
      BY <2>1, <2>3, <2>5, CloseConcat
    <3>2. pc' = "compile"
      BY <2>1, <2>5 DEF LastTurn
    <3>. QED  BY <1>1, <2>1, <3>1, <3>2 DEF BlockInv, BlocksWellFormed
  <2>. QED  BY <2>2, <2>4, <2>5
<1>5. CASE CompileBlock
  BY <1>1, <1>5
  DEF CompileBlock, translation, BlockInv, BlocksWellFormed
<1>6. ASSUME cache' = cache, pc' \notin {"translate", "compile"}
      PROVE  BlockInv'
  BY <1>1, <1>6 DEF BlockInv, BlocksWellFormed
<1>7. CASE StepHalted \/ StepLimited \/ RunCached \/ EmptyBlock
  BY <1>6, <1>7 DEF StepHalted, StepLimited, RunCached, EmptyBlock, Call
<1>8. CASE RunOp \/ RunExit \/ RunOffEnd
  BY <1>6, <1>8 DEF RunOp, RunExit, RunOffEnd, AfterBlock
<1>9. CASE FetchOpcode \/ Interpret \/ InterpretIn \/ InterpretOut
           \/ InstructionPanic
  BY <1>6, <1>9
  DEF FetchOpcode, Interpret, InterpretIn, InterpretOut, Executed,
      InstructionPanic
<1>10. CASE HandleContinue \/ HandleHaltNext \/ HandleHaltFails
            \/ HandleHaltLast \/ HandleNative \/ HandleVector \/ HandlerFails
  BY <1>6, <1>10
  DEF HandleContinue, HandleHaltNext, HandleHaltFails, HandleHaltLast,
      HandleNative, HandleVector, HandlerFails
<1>11. CASE Close
  BY <1>6, <1>11 DEF Close
<1>. QED
  BY <1>2, <1>3, <1>4, <1>5, <1>7, <1>8, <1>9, <1>10, <1>11
  DEF Next, Execution, Over

\* Every block in the cache is straight-line code with at most one Exit, at
\* its end, and one without it ends with an address; its length is bounded.
THEOREM BlockShapeTheorem == Spec => []BlocksWellFormed
<1>1. BlockInv => BlocksWellFormed
  BY DEF BlockInv
<1>. QED  BY BlockInit, BlockNext, <1>1, PTL DEF Spec

-----------------------------------------------------------------------------
LEMMA AtIpNext ==
  TypeInv /\ RunsBlockAtIp /\ [Next]_vars => RunsBlockAtIp'
<1>. SUFFICES ASSUME TypeInv, RunsBlockAtIp, [Next]_vars
              PROVE  RunsBlockAtIp'
  OBVIOUS
<1>. USE DEF RunsBlockAtIp
<1>1. ASSUME pc' \notin {"translate", "compile", "run", "fetch"}
      PROVE  RunsBlockAtIp'
  BY <1>1
<1>2. CASE UNCHANGED vars
  BY <1>2 DEF vars, program, translation, CodeAddr
<1>3. CASE RunCached \/ StartBlock
  BY <1>3 DEF RunCached, StartBlock, StartAt, program, CodeAddr
<1>4. CASE TranslateTurn \/ CompileBlock \/ EmptyBlock \/ RunExit \/ RunOffEnd
  BY <1>4
  DEF TranslateTurn, CompileBlock, EmptyBlock, RunExit, RunOffEnd, program,
      translation, CodeAddr
<1>5. CASE RunOp
  <2>1. Block[at] \in IrOp /\ GoodOperand(Block[at])
    BY <1>5, BlockTyped DEF RunOp
  <2>2. machine.regs \in Regs
    BY Parts DEF TypeInv, TypeOK
  <2>3. /\ RunRegs(machine.regs, Block[at]).seg = machine.regs.seg
        /\ RunRegs(machine.regs, Block[at]).ip = machine.regs.ip
    BY <2>1, <2>2, RunRegsKeeps
  <2>4. machine'.regs = RunRegs(machine.regs, Block[at])
    BY <1>5 DEF RunOp, TypeInv, TypeOK, IsMachine
  <2>. QED
    BY <1>5, <2>3, <2>4 DEF RunOp, translation, CodeAddr, GetSeg
<1>6. CASE StepHalted \/ StepLimited \/ FetchOpcode \/ Interpret
           \/ InterpretIn \/ InterpretOut \/ InstructionPanic \/ Close
  BY <1>1, <1>6
  DEF StepHalted, StepLimited, Call, FetchOpcode, Interpret, InterpretIn,
      InterpretOut, Executed, InstructionPanic, Close
<1>7. CASE HandleContinue \/ HandleHaltNext \/ HandleHaltFails
           \/ HandleHaltLast \/ HandleNative \/ HandleVector \/ HandlerFails
  BY <1>1, <1>7
  DEF HandleContinue, HandleHaltNext, HandleHaltFails, HandleHaltLast,
      HandleNative, HandleVector, HandlerFails
<1>. QED
  BY <1>2, <1>3, <1>4, <1>5, <1>6, <1>7 DEF Next, Execution, Over

\* From the lookup to the fetch of an opcode a call stays at one CS:IP: the
\* block that runs is the one for the address execution stands at.
THEOREM AtIpTheorem == Spec => []RunsBlockAtIp
<1>1. Init => RunsBlockAtIp
  BY DEF Init, RunsBlockAtIp
<1>. QED  BY TypeInit, TypeNext, AtIpNext, <1>1, PTL DEF Spec

-----------------------------------------------------------------------------
\* While a block is being made there is none for its address.
FreshKey == pc \in {"translate", "compile"} => key \notin DOMAIN cache

LEMMA FreshNext == FreshKey /\ [Next]_vars => FreshKey'
<1>. SUFFICES ASSUME FreshKey, [Next]_vars  PROVE FreshKey'
  OBVIOUS
<1>. USE DEF FreshKey
<1>1. ASSUME pc' \notin {"translate", "compile"}  PROVE FreshKey'
  BY <1>1
<1>2. CASE UNCHANGED vars
  BY <1>2 DEF vars, translation
<1>3. CASE StartBlock
  BY <1>3 DEF StartBlock, StartAt
<1>4. CASE TranslateTurn
  BY <1>4 DEF TranslateTurn
<1>5. CASE StepHalted \/ StepLimited \/ RunCached \/ CompileBlock \/ EmptyBlock
           \/ RunOp \/ RunExit \/ RunOffEnd
  BY <1>5
  DEF StepHalted, StepLimited, RunCached, Call, CompileBlock, EmptyBlock,
      RunOp, RunExit, RunOffEnd, AfterBlock
<1>6. CASE FetchOpcode \/ Interpret \/ InterpretIn \/ InterpretOut
           \/ InstructionPanic \/ Close
  BY <1>1, <1>6
  DEF FetchOpcode, Interpret, InterpretIn, InterpretOut, Executed,
      InstructionPanic, Close
<1>7. CASE HandleContinue \/ HandleHaltNext \/ HandleHaltFails
           \/ HandleHaltLast \/ HandleNative \/ HandleVector \/ HandlerFails
  BY <1>1, <1>7
  DEF HandleContinue, HandleHaltNext, HandleHaltFails, HandleHaltLast,
      HandleNative, HandleVector, HandlerFails
<1>. QED
  BY <1>2, <1>3, <1>4, <1>5, <1>6, <1>7 DEF Next, Execution, Over

\* A block, once compiled, is never replaced or dropped.
THEOREM KeptTheorem == Spec => BlocksKept
<1>. DEFINE Kept == \A a \in DOMAIN cache :
                      a \in DOMAIN cache' /\ cache'[a] = cache[a]
<1>1. Init => FreshKey
  BY DEF Init, FreshKey
<1>2. FreshKey /\ [Next]_vars => [Kept]_vars
  <2>. SUFFICES ASSUME FreshKey, [Next]_vars  PROVE Kept
    OBVIOUS
  <2>1. ASSUME cache' = cache  PROVE Kept
    BY <2>1
  <2>2. CASE CompileBlock
    <3>1. key \notin DOMAIN cache
      BY <2>2 DEF CompileBlock, FreshKey
    <3>. QED  BY <2>2, <3>1 DEF CompileBlock
  <2>. HIDE DEF Kept
  <2>3. CASE UNCHANGED vars
    BY <2>1, <2>3 DEF vars
  <2>4. CASE StepHalted \/ StepLimited \/ RunCached \/ StartBlock
             \/ TranslateTurn \/ EmptyBlock \/ RunOp \/ RunExit \/ RunOffEnd
    BY <2>1, <2>4
    DEF StepHalted, StepLimited, RunCached, StartBlock, StartAt, TranslateTurn,
        EmptyBlock, RunOp, RunExit, RunOffEnd
  <2>5. CASE FetchOpcode \/ Interpret \/ InterpretIn \/ InterpretOut
             \/ InstructionPanic \/ Close
    BY <2>1, <2>5
    DEF FetchOpcode, Interpret, InterpretIn, InterpretOut, Executed,
        InstructionPanic, Close
  <2>6. CASE HandleContinue \/ HandleHaltNext \/ HandleHaltFails
             \/ HandleHaltLast \/ HandleNative \/ HandleVector \/ HandlerFails
    BY <2>1, <2>6
    DEF HandleContinue, HandleHaltNext, HandleHaltFails, HandleHaltLast,
        HandleNative, HandleVector, HandlerFails
  <2>. QED
    BY <2>2, <2>3, <2>4, <2>5, <2>6 DEF Next, Execution, Over
<1>. QED  BY <1>1, FreshNext, <1>2, PTL DEF Spec, BlocksKept

-----------------------------------------------------------------------------
\* A call that has passed the test of the limit has an instruction to spare
\* until it has counted one.
Spare == pc \in {"translate", "compile", "run", "fetch", "decode"}
CountInv ==
  /\ executed \in Nat /\ limit \in Nat
  /\ limit > 0 =>
       /\ executed <= limit
       /\ Spare => executed < limit

LEMMA CountInit == Init => CountInv
  BY RuntimeAssumption DEF Init, IsBoot, CountInv, Spare

LEMMA CountNext == CountInv /\ [Next]_vars => CountInv'
<1>. SUFFICES ASSUME CountInv, [Next]_vars  PROVE CountInv'
  OBVIOUS
<1>. USE DEF CountInv, Spare, boot
<1>1. CASE UNCHANGED vars
  BY <1>1 DEF vars, program
<1>2. CASE StepHalted \/ StepLimited
  BY <1>2 DEF StepHalted, StepLimited, Call, program
<1>3. CASE RunCached \/ StartBlock
  BY <1>3 DEF RunCached, StartBlock, StartAt, Limited, program
<1>4. CASE TranslateTurn \/ CompileBlock \/ EmptyBlock
  BY <1>4 DEF TranslateTurn, CompileBlock, EmptyBlock, program
<1>5. CASE RunOp \/ RunExit \/ RunOffEnd
  BY <1>5 DEF RunOp, RunExit, RunOffEnd, AfterBlock, program
<1>6. CASE FetchOpcode \/ InstructionPanic
  BY <1>6 DEF FetchOpcode, InstructionPanic, program
<1>7. CASE Interpret \/ InterpretIn \/ InterpretOut
  <2>1. /\ pc = "decode" /\ executed' = executed + 1 /\ pc' = "handle"
        /\ limit' = limit
    BY <1>7 DEF Interpret, InterpretIn, InterpretOut, Decoding, Executed
  <2>. QED  BY <2>1
<1>8. CASE HandleContinue \/ HandleHaltNext \/ HandleHaltFails
           \/ HandleHaltLast \/ HandleNative \/ HandleVector \/ HandlerFails
  BY <1>8 DEF HandleContinue, HandleHaltNext, HandleHaltFails, HandleHaltLast,
     HandleNative, HandleVector, HandlerFails, program
<1>9. CASE Close \/ Over
  BY <1>9 DEF Close, FrameDone, Over, vars, program
<1>. QED
  BY <1>1, <1>2, <1>3, <1>4, <1>5, <1>6, <1>7, <1>8, <1>9
  DEF Next, Execution

\* With an instruction limit the interpreter never executes one more, whatever
\* the program and however the calls of step fall.
THEOREM LimitTheorem == Spec => []LimitRespected
<1>1. CountInv => LimitRespected
  BY DEF CountInv, LimitRespected
<1>. QED  BY CountInit, CountNext, <1>1, PTL DEF Spec

-----------------------------------------------------------------------------
\* One call of step interprets at most one instruction and moves at most one
\* place in the batch, whatever the program.
LEMMA StepPaces ==
  ASSUME TypeInv, [Next]_vars
  PROVE  /\ calls' # calls => calls' = calls + 1 /\ ~MayMoveOn
         /\ calls' = calls => (MayInterpret' => MayInterpret) /\ (MayMoveOn' => MayMoveOn)
         /\ executed' # executed => /\ executed' = executed + 1 /\ calls' = calls
                                    /\ MayInterpret /\ ~MayInterpret'
         /\ batch' # batch => /\ batch' = batch + 1 /\ calls' = calls
                              /\ MayMoveOn /\ ~MayMoveOn'
<1>0. executed \in Nat /\ batch \in Nat /\ calls \in Nat
  BY DEF TypeInv, TypeOK
<1>. USE <1>0 DEF MayInterpret, MayMoveOn
<1>1. CASE UNCHANGED vars
  BY <1>1 DEF vars, program
<1>2. CASE StepHalted \/ StepLimited
  BY <1>2 DEF StepHalted, StepLimited, Call, program
<1>3. CASE RunCached \/ StartBlock
  BY <1>3 DEF RunCached, StartBlock, StartAt, Call, program
<1>4. CASE TranslateTurn \/ CompileBlock \/ EmptyBlock
  BY <1>4 DEF TranslateTurn, CompileBlock, EmptyBlock, program
<1>5. CASE RunOp \/ RunExit \/ RunOffEnd
  BY <1>5 DEF RunOp, RunExit, RunOffEnd, AfterBlock, program
<1>6. CASE FetchOpcode \/ InstructionPanic
  BY <1>6 DEF FetchOpcode, InstructionPanic, Decoding, program
<1>7. CASE Interpret \/ InterpretIn \/ InterpretOut
  <2>1. /\ pc = "decode" /\ executed' = executed + 1 /\ pc' = "handle"
        /\ batch' = batch /\ calls' = calls
    BY <1>7 DEF Interpret, InterpretIn, InterpretOut, Decoding, Executed
  <2>. QED  BY <2>1
<1>8. CASE HandleContinue \/ HandleHaltNext \/ HandleHaltFails
           \/ HandleHaltLast \/ HandleNative \/ HandleVector \/ HandlerFails
  BY <1>8 DEF HandleContinue, HandleHaltNext, HandleHaltFails, HandleHaltLast,
     HandleNative, HandleVector, HandlerFails, Serving, Handling, program
<1>9. CASE Close \/ Over
  BY <1>9 DEF Close, FrameDone, Over, vars, program
<1>. QED
  BY <1>1, <1>2, <1>3, <1>4, <1>5, <1>6, <1>7, <1>8, <1>9
  DEF Next, Execution

\* Of any two instructions that are interpreted, and any two moves in the
\* batch, the second is in a later call of step than the first.
THEOREM PaceTheorem == Spec => StepPace
<1>1. TypeInv /\ [Next]_vars =>
        [/\ calls' # calls => calls' = calls + 1 /\ ~MayMoveOn
         /\ calls' = calls => (MayInterpret' => MayInterpret) /\ (MayMoveOn' => MayMoveOn)
         /\ executed' # executed => /\ executed' = executed + 1 /\ calls' = calls
                                    /\ MayInterpret /\ ~MayInterpret'
         /\ batch' # batch => /\ batch' = batch + 1 /\ calls' = calls
                              /\ MayMoveOn /\ ~MayMoveOn']_vars
  BY StepPaces, Zenon
<1>. QED  BY <1>1, TypeInit, TypeNext, PTL DEF Spec, StepPace

-----------------------------------------------------------------------------
\* Once a call has left the machine halted, no later call of step gets as far
\* as looking for code, or changes anything but its own result.
THEOREM HaltTheorem == Spec => HaltIsFinal
<1>1. ASSUME [Next]_vars, pc = "idle", machine.halted
      PROVE  /\ pc' \in {"idle", "closed"}
             /\ UNCHANGED <<machine, video, batch, executed, cache>>
  <2>. USE <1>1
  <2>1. CASE UNCHANGED vars
    BY <2>1 DEF vars, program
  <2>2. CASE StepHalted \/ Close
    BY <2>2 DEF StepHalted, Close, FrameDone, program
  <2>3. ASSUME StepLimited \/ RunCached \/ StartBlock  PROVE FALSE
    BY <2>3 DEF StepLimited, RunCached, StartBlock
  <2>4. ASSUME TranslateTurn \/ CompileBlock \/ EmptyBlock \/ RunOp
               \/ RunExit \/ RunOffEnd \/ FetchOpcode  PROVE FALSE
    BY <2>4 DEF TranslateTurn, CompileBlock, EmptyBlock, RunOp, RunExit,
       RunOffEnd, FetchOpcode
  <2>5. ASSUME Interpret \/ InterpretIn \/ InterpretOut \/ InstructionPanic  PROVE FALSE
    BY <2>5 DEF Interpret, InterpretIn, InterpretOut, InstructionPanic,
       Decoding
  <2>6. ASSUME HandleContinue \/ HandleHaltNext \/ HandleHaltFails
               \/ HandleHaltLast \/ HandleNative \/ HandleVector
               \/ HandlerFails  PROVE FALSE
    BY <2>6 DEF HandleContinue, HandleHaltNext, HandleHaltFails,
       HandleHaltLast, HandleNative, HandleVector, HandlerFails, Serving,
       Handling
  <2>7. CASE Over
    BY <2>7 DEF Over, Ended
  <2>. QED
    BY <2>1, <2>2, <2>3, <2>4, <2>5, <2>6, <2>7 DEF Next, Execution
<1>. QED  BY <1>1, PTL DEF Spec, HaltIsFinal

-----------------------------------------------------------------------------
\* The runtime implements the launcher.

\* A loader leaves the machine as halted, or not, as it was.
LEMMA LoadKeepsHalted ==
  ASSUME NEW s, NEW f  PROVE ExecuteBinary(s, f).halted = s.halted
  BY DEF ExecuteBinary, LoadMz, LoadCom

\* No program starts halted.
LEMMA BootedRuns ==
  \A b : b.kind \in {"exe", "fat", "boot"} => Booted(b).halted = FALSE
<1>. SUFFICES ASSUME NEW b, b.kind \in {"exe", "fat", "boot"}
              PROVE  Booted(b).halted = FALSE
  OBVIOUS
<1>1. Blank0.halted = FALSE
  BY DEF Blank0
<1>2. ASSUME NEW s, NEW sector, NEW v
      PROVE  With8(LoadBootSector(s, sector), DL, v).halted = s.halted
  BY DEF With8, LoadBootSector
<1>3. ASSUME NEW s, NEW v  PROVE With8(s, DL, v).halted = s.halted
  BY DEF With8
<1>4. ASSUME NEW s, NEW f  PROVE LoadMz(s, f).halted = s.halted
  BY DEF LoadMz
<1>5. CASE b.kind = "exe"
  BY <1>1, <1>4, <1>5 DEF Booted
<1>6. CASE b.kind = "fat"
  BY <1>1, <1>3, <1>6, LoadKeepsHalted DEF Booted
<1>7. CASE b.kind = "boot"
  BY <1>1, <1>2, <1>7 DEF Booted
<1>. QED  BY <1>5, <1>6, <1>7

LEMMA LaunchInit == Init => L!Init
<1>. SUFFICES ASSUME Init  PROVE L!Init
  OBVIOUS
<1>1. PICK b \in Boots : machine = Booted(b) /\ queue = b.queue
  BY DEF Init
<1>2. b.kind \in {"exe", "fat", "boot"}
  BY ConstantsTyped DEF IsBoot
<1>3. ~machine.halted
  <2>1. Booted(b).halted = FALSE
    BY <1>2, BootedRuns
  <2>. QED  BY <1>1, <2>1
<1>4. batch = 0 /\ pc = "idle" /\ pc \notin Ended
  BY DEF Init, Ended
<1>5. Len(queue) \in Nat
  BY TypeInit DEF TypeInv, TypeOK
<1>. QED
  BY <1>3, <1>4, <1>5 DEF L!Init, ProgramNumber, ProgramState

\* What each action does to the place in the batch and to the state.
LEMMA LaunchSteps ==
  ASSUME TypeInv, [Next]_vars
  PROVE  /\ queue' = queue
         /\ \/ batch' = batch /\ ProgramState' = ProgramState
            \/ batch' = batch /\ ProgramState = "running" /\ ProgramState' = "stopped"
            \/ batch' = batch /\ ProgramState # "dead" /\ ProgramState' = "dead"
            \/ /\ ProgramState = "running" /\ batch' = batch + 1
               /\ \/ HasNext /\ ProgramState' \in {"running", "dead"}
                  \/ ~HasNext /\ ProgramState' \in {"running", "stopped"}
<1>. USE DEF ProgramState, boot, program
<1>0. /\ \A x \in {"idle", "translate", "compile", "run", "fetch", "decode",
                   "handle"} : x \notin Ended
      /\ \A x \in {"closed", "failed", "crashed", "hung"} : x \in Ended
  BY DEF Ended
<1>1. CASE UNCHANGED vars
  BY <1>1 DEF vars
<1>2. CASE StepHalted
  BY <1>0, <1>2 DEF StepHalted, Call
<1>3. CASE StepLimited
  BY <1>0, <1>3 DEF StepLimited, Call
<1>4. CASE RunCached \/ StartBlock
  BY <1>0, <1>4 DEF RunCached, StartBlock, StartAt, Call
<1>5. CASE TranslateTurn \/ CompileBlock \/ EmptyBlock
  BY <1>0, <1>5 DEF TranslateTurn, CompileBlock, EmptyBlock
<1>6. CASE RunOp \/ RunExit \/ RunOffEnd
  BY <1>0, <1>6 DEF RunOp, RunExit, RunOffEnd, AfterBlock
<1>7. CASE FetchOpcode \/ InstructionPanic
  BY <1>0, <1>7 DEF FetchOpcode, InstructionPanic, Decoding
<1>8. CASE Interpret \/ InterpretIn \/ InterpretOut
  <2>1. /\ pc = "decode" /\ pc' = "handle" /\ batch' = batch /\ queue' = queue
    BY <1>8 DEF Interpret, InterpretIn, InterpretOut, Decoding, Executed
  <2>. QED  BY <1>0, <2>1
<1>9. CASE HandleContinue \/ HandleNative \/ HandleVector \/ HandlerFails
  <2>1. /\ pc = "handle" /\ batch' = batch /\ queue' = queue
        /\ pc' \in {"idle", "crashed", "hung"}
    BY <1>9 DEF HandleContinue, HandleNative, HandleVector, HandlerFails,
       Serving, Handling
  <2>. QED  BY <1>0, <2>1
<1>10. CASE HandleHaltNext
  <2>1. /\ pc = "handle" /\ batch' = batch + 1 /\ queue' = queue
        /\ pc' = "idle" /\ HasNext
    BY <1>10 DEF HandleHaltNext, Handling
  <2>2. machine'.halted = FALSE
    <3>1. [machine EXCEPT !.halted = FALSE, !.regs = RegsNew].halted = FALSE
      BY DEF TypeInv, TypeOK, IsMachine
    <3>. QED  BY <1>10, <3>1, LoadKeepsHalted DEF HandleHaltNext
  <2>. QED  BY <1>0, <2>1, <2>2
<1>11. CASE HandleHaltFails
  <2>1. /\ pc = "handle" /\ batch' = batch + 1 /\ queue' = queue
        /\ pc' \in {"failed", "crashed"} /\ HasNext
    BY <1>11 DEF HandleHaltFails, Handling
  <2>. QED  BY <1>0, <2>1
<1>12. CASE HandleHaltLast
  <2>1. /\ pc = "handle" /\ batch' = batch + 1 /\ queue' = queue
        /\ pc' = "idle" /\ ~HasNext
    BY <1>12 DEF HandleHaltLast, Handling
  <2>. QED  BY <1>0, <2>1
<1>13. CASE Close
  BY <1>0, <1>13 DEF Close, FrameDone
<1>14. CASE Over
  BY <1>14 DEF Over, vars
<1>. QED
  BY <1>1, <1>2, <1>3, <1>4, <1>5, <1>6, <1>7, <1>8, <1>9, <1>10, <1>11,
     <1>12, <1>13, <1>14
  DEF Next, Execution

LEMMA LaunchNext == TypeInv /\ [Next]_vars => [L!Next]_L!vars
<1>. SUFFICES ASSUME TypeInv, [Next]_vars
              PROVE  [L!Next]_L!vars
  OBVIOUS
<1>1. queue' = queue /\ batch' \in {batch, batch + 1}
  BY LaunchSteps
<1>2. batch \in Nat /\ Len(queue) \in Nat
  BY DEF TypeInv, TypeOK
<1>3. batch' = batch => ProgramNumber' = ProgramNumber
  BY <1>1 DEF ProgramNumber
<1>4. batch' = batch + 1 /\ HasNext =>
        ProgramNumber < Len(queue) /\ ProgramNumber' = ProgramNumber + 1
  BY <1>1, <1>2 DEF ProgramNumber, HasNext
<1>5. batch' = batch + 1 /\ ~HasNext => ProgramNumber' = ProgramNumber
  BY <1>1, <1>2 DEF ProgramNumber, HasNext
<1>6. CASE batch' = batch /\ ProgramState' = ProgramState
  BY <1>1, <1>3, <1>6 DEF L!vars
<1>7. CASE batch' = batch /\ ProgramState = "running" /\ ProgramState' = "stopped"
  BY <1>1, <1>3, <1>7 DEF L!Next, L!Stop
<1>8. CASE batch' = batch /\ ProgramState # "dead" /\ ProgramState' = "dead"
  BY <1>1, <1>3, <1>8 DEF L!Next, L!Die
<1>9. CASE /\ ProgramState = "running" /\ batch' = batch + 1 /\ HasNext
           /\ ProgramState' \in {"running", "dead"}
  BY <1>1, <1>4, <1>9 DEF L!Next, L!Advance, L!Die
<1>10. CASE /\ ProgramState = "running" /\ batch' = batch + 1 /\ ~HasNext
            /\ ProgramState' \in {"running", "stopped"}
  BY <1>1, <1>5, <1>10 DEF L!Next, L!vars, L!Stop
<1>. QED  BY <1>6, <1>7, <1>8, <1>9, <1>10, LaunchSteps

\* The programs of a batch run one at a time, in order, none skipped and none
\* after a halt that stays or a load that fails, for a queue of any length.
THEOREM LauncherTheorem == Spec => LauncherSpec
<1>. QED
  BY TypeInit, TypeNext, LaunchInit, LaunchNext, PTL DEF Spec, LauncherSpec, L!Spec

-----------------------------------------------------------------------------
\* What is on the stack, and where, when a handler runs.
LEMMA FramedParts ==
  ASSUME IsMachine(machine), NEW a, NEW b, NEW c,
         a = Wrap16(Get16(machine.regs, SP) - 2), b = Wrap16(a - 2),
         c = Wrap16(b - 2)
  PROVE  LET At(x) == Phys(GetSeg(machine.regs, SS), x)
         IN /\ Shaped(Framed) /\ Get16(Framed.regs, SP) = c
            /\ GetSeg(Framed.regs, SS) = GetSeg(machine.regs, SS)
            /\ ReadU16(Framed.mem, At(c)) = Wrap16(machine.regs.ip)
            /\ ReadU16(Framed.mem, At(b)) = GetSeg(machine.regs, CS)
            /\ ReadU16(Framed.mem, At(a)) = machine.regs.flags
<1>. DEFINE At(x) == Phys(GetSeg(machine.regs, SS), x)
            s1 == Push16(machine, machine.regs.flags)
            s2 == Push16(s1, GetSeg(machine.regs, CS))
            s3 == Push16(s2, Wrap16(machine.regs.ip))
            r == SetFlag(SetFlag(s3.regs, IntFlag, FALSE), TrapFlag, FALSE)
<1>1. Shaped(machine)
  BY MachineShaped DEF SameStack
<1>2. /\ Shaped(s1) /\ Get16(s1.regs, SP) = a
      /\ GetSeg(s1.regs, SS) = GetSeg(machine.regs, SS)
      /\ s1.mem = WriteU16(machine.mem, At(a), machine.regs.flags)
  BY <1>1, Push16Parts
<1>. HIDE DEF s1
<1>3. /\ Shaped(s2) /\ Get16(s2.regs, SP) = b
      /\ GetSeg(s2.regs, SS) = GetSeg(machine.regs, SS)
      /\ s2.mem = WriteU16(s1.mem, At(b), GetSeg(machine.regs, CS))
  BY <1>2, Push16Parts
<1>. HIDE DEF s2
<1>4. /\ Shaped(s3) /\ Get16(s3.regs, SP) = c
      /\ GetSeg(s3.regs, SS) = GetSeg(machine.regs, SS)
      /\ s3.mem = WriteU16(s2.mem, At(c), Wrap16(machine.regs.ip))
  BY <1>3, Push16Parts
<1>. HIDE DEF s3
<1>5. Framed = [s3 EXCEPT !.regs = r]
  BY DEF Framed, PushFrame, s1, s2, s3
<1>6. \A f : LET u == [s3 EXCEPT !.regs = [s3.regs EXCEPT !.flags = f]]
             IN /\ Shaped(u) /\ Get16(u.regs, SP) = Get16(s3.regs, SP)
                /\ GetSeg(u.regs, SS) = GetSeg(s3.regs, SS) /\ u.mem = s3.mem
  BY <1>4 DEF Shaped, Get16, GetSeg
<1>7. \E f : r = [s3.regs EXCEPT !.flags = f]
  <2>1. \A x, y : [[s3.regs EXCEPT !.flags = x] EXCEPT !.flags = y]
                    = [s3.regs EXCEPT !.flags = y]
    BY <1>4 DEF Shaped
  <2>2. \A q, i : \E x : SetFlag(q, i, FALSE) = [q EXCEPT !.flags = x]
    BY Zenon DEF SetFlag
  <2>3. PICK x : SetFlag(s3.regs, IntFlag, FALSE) = [s3.regs EXCEPT !.flags = x]
    BY <2>2, Zenon
  <2>4. PICK y : r = [SetFlag(s3.regs, IntFlag, FALSE) EXCEPT !.flags = y]
    BY <2>2, Zenon
  <2>. HIDE DEF r
  <2>. QED  BY <2>1, <2>3, <2>4, Zenon
<1>. HIDE DEF r
<1>8. /\ Shaped(Framed) /\ Get16(Framed.regs, SP) = c
      /\ GetSeg(Framed.regs, SS) = GetSeg(machine.regs, SS)
      /\ Framed.mem = s3.mem
  BY SMTT(60), <1>4, <1>5, <1>6, <1>7
<1>9. /\ GetSeg(machine.regs, SS) \in Word /\ GetSeg(machine.regs, CS) \in Word
      /\ Get16(machine.regs, SP) \in Word /\ machine.regs.flags \in Word
  <2>1. machine.regs \in Regs /\ SP \in Reg
    BY Parts DEF SP, Reg
  <2>2. machine.regs.flags \in Word
    BY <2>1 DEF Regs
  <2>. QED  BY <2>1, <2>2, Arguments, RegNames
<1>10. Wrap16(machine.regs.ip) \in Word
  BY IpWrapped
<1>11. /\ ReadU16(s3.mem, At(c)) = Wrap16(machine.regs.ip)
       /\ ReadU16(s3.mem, At(b)) = GetSeg(machine.regs, CS)
       /\ ReadU16(s3.mem, At(a)) = machine.regs.flags
  BY <1>2, <1>3, <1>4, <1>9, <1>10, FrameWords
<1>. QED  BY <1>8, <1>11

\* A word whose two bytes are as they were is as it was.
LEMMA FrameWordIntact ==
  ASSUME IsMachine(machine), FrameIntact, NEW w \in {0, 2, 4}
  PROVE  LET x == Phys(GetSeg(Framed.regs, SS),
                       Wrap16(Get16(Framed.regs, SP) + w))
         IN ReadU16(machine'.mem, x) = ReadU16(Framed.mem, x)
<1>. DEFINE x == Phys(GetSeg(Framed.regs, SS), Wrap16(Get16(Framed.regs, SP) + w))
<1>1. x \in Addr
  <2>1. IsMachine(Framed)
    BY FramedTyped
  <2>2. GetSeg(Framed.regs, SS) \in Word /\ Get16(Framed.regs, SP) \in Word
    BY <2>1, Arguments, RegNames DEF SP, Reg
  <2>. DEFINE sp == Get16(Framed.regs, SP)
              off == Wrap16(sp + w)
              seg == GetSeg(Framed.regs, SS)
  <2>. HIDE DEF sp
  <2>3. sp + w \in Int
    BY <2>2, WordRange DEF sp
  <2>4. off \in Word
    BY <2>3, WrapInWord
  <2>. HIDE DEF off, seg
  <2>5. off \in Int /\ seg \in Int
    BY <2>2, <2>4, WordRange DEF seg
  <2>6. Phys(seg, off) \in Addr
    BY <2>5, PhysInAddr
  <2>. QED  BY <2>6, Zenon DEF seg, off, sp
<1>2. \A i \in {0, 1} : (x + i) % MemSize \in FrameBytes(Framed)
  <2>. TAKE i \in {0, 1}
  <2>1. \E k \in {0, 2, 4}, j \in {0, 1} :
          (x + i) % MemSize
            = (Phys(GetSeg(Framed.regs, SS),
                    Wrap16(Get16(Framed.regs, SP) + k)) + j) % MemSize
    <3>. WITNESS w \in {0, 2, 4}, i \in {0, 1}
    <3>. QED  OBVIOUS
  <2>. HIDE DEF x
  <2>. QED  BY <2>1 DEF FrameBytes
<1>. HIDE DEF x
<1>3. (x + 0) % MemSize = x
  <2>1. x + 0 = x /\ MemSize \in Nat \ {0} /\ x \in 0 .. MemSize - 1
    BY <1>1, AddrRange, MemSizeNat
  <2>. QED  BY <2>1, SmallMod
<1>4. /\ ReadU8(machine'.mem, x) = ReadU8(Framed.mem, x)
      /\ ReadU8(machine'.mem, (x + 1) % MemSize)
           = ReadU8(Framed.mem, (x + 1) % MemSize)
  <2>1. x \in FrameBytes(Framed) /\ (x + 1) % MemSize \in FrameBytes(Framed)
    BY <1>2, <1>3
  <2>. QED  BY <2>1, Zenon DEF FrameIntact
<1>. QED  BY <1>4, Zenon DEF ReadU16, x

\* A handler returns to the interrupted program as if it had not run.
LEMMA NativeReturns ==
  ASSUME IsMachine(machine), Serving, HandleNative, FrameIntact,
         ~IsExec(result.num, Framed)
  PROVE  /\ machine'.regs.ip = Wrap16(machine.regs.ip)
         /\ GetSeg(machine'.regs, CS) = GetSeg(machine.regs, CS)
         /\ GetSeg(machine'.regs, SS) = GetSeg(machine.regs, SS)
         /\ Get16(machine'.regs, SP) = Get16(machine.regs, SP)
         /\ machine'.regs.flags = machine.regs.flags
<1>. DEFINE sp == Get16(machine.regs, SP)
            a == Wrap16(sp - 2)
            b == Wrap16(a - 2)
            c == Wrap16(b - 2)
            t == Serve(result.num, Framed, disk)
            At(x) == Phys(GetSeg(machine.regs, SS), x)
<1>1. sp \in Word
  BY Arguments DEF SP, Reg
<1>. HIDE DEF sp
<1>2. /\ c \in Word /\ Wrap16(c + 2) = b /\ Wrap16(b + 2) = a
      /\ Wrap16(a + 2) = sp /\ Wrap16(c + 4) = a
  BY <1>1, FrameOffsets
<1>3. /\ Get16(Framed.regs, SP) = c
      /\ GetSeg(Framed.regs, SS) = GetSeg(machine.regs, SS)
      /\ ReadU16(Framed.mem, At(c)) = Wrap16(machine.regs.ip)
      /\ ReadU16(Framed.mem, At(b)) = GetSeg(machine.regs, CS)
      /\ ReadU16(Framed.mem, At(a)) = machine.regs.flags
  BY FramedParts DEF sp
<1>4. SameStack(Framed, t)
  BY FramedTyped, ServeKeepsStack DEF Serving
<1>5. Shaped(t) /\ Get16(t.regs, SP) = c
      /\ GetSeg(t.regs, SS) = GetSeg(machine.regs, SS)
  BY <1>3, <1>4 DEF SameStack
<1>6. machine' = PopFrame(t)
  BY DEF HandleNative
<1>. HIDE DEF t, a, b, c
<1>7. /\ machine'.regs.ip = ReadU16(t.mem, At(c))
      /\ GetSeg(machine'.regs, CS) = ReadU16(t.mem, At(b))
      /\ machine'.regs.flags = ReadU16(t.mem, At(a))
      /\ Get16(machine'.regs, SP) = sp
      /\ GetSeg(machine'.regs, SS) = GetSeg(machine.regs, SS)
      /\ machine'.mem = t.mem
  BY <1>2, <1>5, <1>6, PopFrameParts
<1>8. /\ ReadU16(t.mem, At(c)) = ReadU16(Framed.mem, At(c))
      /\ ReadU16(t.mem, At(b)) = ReadU16(Framed.mem, At(b))
      /\ ReadU16(t.mem, At(a)) = ReadU16(Framed.mem, At(a))
  <2>1. Wrap16(c + 0) = c
    BY <1>2, WrapWord, WordInt
  <2>2. \A w \in {0, 2, 4} :
          ReadU16(t.mem, At(Wrap16(c + w))) = ReadU16(Framed.mem, At(Wrap16(c + w)))
    BY <1>3, <1>7, FrameWordIntact
  <2>. QED  BY <1>2, <2>1, <2>2
<1>. QED  BY <1>3, <1>7, <1>8 DEF sp

\* A natively served interrupt returns to the interrupted CS:IP, SS and SP with
\* every flag as it was that handlers do not answer in, at every stack pointer,
\* unless its handler loads a program or overwrites the frame.
THEOREM NativeTheorem == Spec => NativeTransparent
<1>1. ASSUME TypeInv, [Next]_vars, Serving, pc' = "idle",
             ~IsExec(result.num, Framed), FrameIntact
      PROVE  /\ machine'.regs.ip = Wrap16(machine.regs.ip)
             /\ GetSeg(machine'.regs, CS) = GetSeg(machine.regs, CS)
             /\ GetSeg(machine'.regs, SS) = GetSeg(machine.regs, SS)
             /\ Get16(machine'.regs, SP) = Get16(machine.regs, SP)
             /\ \A f \in KeptFlags : Flag(machine'.regs, f) = Flag(machine.regs, f)
  <2>1. IsMachine(machine)
    BY <1>1 DEF TypeInv, TypeOK
  <2>2. pc = "handle" /\ result.kind = "Interrupt" /\ result.num \in Native
    BY <1>1 DEF Serving, Handling
  <2>3. Next => HandleNative
    <3>. SUFFICES ASSUME Next  PROVE HandleNative
      OBVIOUS
    <3>1. ASSUME StepHalted \/ StepLimited \/ RunCached \/ StartBlock \/ Close
                 \/ TranslateTurn \/ CompileBlock \/ EmptyBlock \/ RunOp
                 \/ RunExit \/ RunOffEnd \/ FetchOpcode  PROVE FALSE
      BY <2>2, <3>1 DEF StepHalted, StepLimited, RunCached, StartBlock, Call, Close,
         FrameDone, TranslateTurn, CompileBlock, EmptyBlock, RunOp, RunExit,
         RunOffEnd, FetchOpcode
    <3>2. ASSUME Interpret \/ InterpretIn \/ InterpretOut \/ InstructionPanic
          PROVE  FALSE
      BY <2>2, <3>2 DEF Interpret, InterpretIn, InterpretOut,
         InstructionPanic, Decoding
    <3>3. ASSUME HandleContinue \/ HandleHaltNext \/ HandleHaltFails
                 \/ HandleHaltLast \/ HandleVector \/ HandlerFails \/ Over
          PROVE  FALSE
      BY <1>1, <2>2, <3>3 DEF HandleContinue, HandleHaltNext,
         HandleHaltFails, HandleHaltLast, HandleVector, HandlerFails,
         Handling, Over, Ended
    <3>. QED  BY <3>1, <3>2, <3>3 DEF Next, Execution
  <2>4. /\ machine'.regs.ip = Wrap16(machine.regs.ip)
        /\ GetSeg(machine'.regs, CS) = GetSeg(machine.regs, CS)
        /\ GetSeg(machine'.regs, SS) = GetSeg(machine.regs, SS)
        /\ Get16(machine'.regs, SP) = Get16(machine.regs, SP)
        /\ machine'.regs.flags = machine.regs.flags
    <3>1. pc' # pc
      BY <1>1, <2>2
    <3>2. Next
      BY <1>1, <3>1 DEF vars
    <3>. QED  BY <1>1, <2>1, <2>3, <3>2, NativeReturns
  <2>5. \A f \in KeptFlags : Flag(machine'.regs, f) = Flag(machine.regs, f)
    BY <2>4 DEF Flag
  <2>. QED  BY <2>4, <2>5, Zenon
<1>2. TypeInv /\ [Next]_vars =>
        [Serving /\ pc' = "idle" /\ ~IsExec(result.num, Framed) /\ FrameIntact =>
           /\ machine'.regs.ip = Wrap16(machine.regs.ip)
           /\ GetSeg(machine'.regs, CS) = GetSeg(machine.regs, CS)
           /\ GetSeg(machine'.regs, SS) = GetSeg(machine.regs, SS)
           /\ Get16(machine'.regs, SP) = Get16(machine.regs, SP)
           /\ \A f \in KeptFlags : Flag(machine'.regs, f) = Flag(machine.regs, f)]_vars
  BY <1>1, Zenon
<1>. QED  BY <1>2, TypeInit, TypeNext, PTL DEF Spec, NativeTransparent

-----------------------------------------------------------------------------
\* What no instruction does: touch the table of open files.  t is a machine
\* with the table d, however many steps of an instruction made it.
Keeps(d, t) ==
  /\ t = [regs |-> t.regs, mem |-> t.mem, dos |-> t.dos, halted |-> t.halted]
  /\ t.dos = d

\* Registers, memory and halted are apart from the files.
LEMMA FieldsKeep ==
  ASSUME NEW d, NEW t, Keeps(d, t)
  PROVE  /\ \A r : Keeps(d, [t EXCEPT !.regs = r])
         /\ \A m : Keeps(d, [t EXCEPT !.mem = m])
         /\ \A r, m : Keeps(d, [t EXCEPT !.regs = r, !.mem = m])
         /\ \A r, m : Keeps(d, [t EXCEPT !.mem = m, !.regs = r])
         /\ \A h : Keeps(d, [t EXCEPT !.halted = h])
         /\ \A h, r : Keeps(d, [t EXCEPT !.halted = h, !.regs = r])
<1>1. /\ \A r : Keeps(d, [t EXCEPT !.regs = r])
      /\ \A m : Keeps(d, [t EXCEPT !.mem = m])
      /\ \A h : Keeps(d, [t EXCEPT !.halted = h])
  BY DEF Keeps
<1>2. \A u : Keeps(d, u) => /\ \A r : Keeps(d, [u EXCEPT !.regs = r])
                            /\ \A m : Keeps(d, [u EXCEPT !.mem = m])
  BY DEF Keeps
<1>3. /\ \A r, m : [t EXCEPT !.regs = r, !.mem = m]
                     = [[t EXCEPT !.regs = r] EXCEPT !.mem = m]
      /\ \A r, m : [t EXCEPT !.mem = m, !.regs = r]
                     = [[t EXCEPT !.mem = m] EXCEPT !.regs = r]
      /\ \A h, r : [t EXCEPT !.halted = h, !.regs = r]
                     = [[t EXCEPT !.halted = h] EXCEPT !.regs = r]
  OBVIOUS
<1>4. /\ \A r, m : Keeps(d, [t EXCEPT !.regs = r, !.mem = m])
      /\ \A r, m : Keeps(d, [t EXCEPT !.mem = m, !.regs = r])
      /\ \A h, r : Keeps(d, [t EXCEPT !.halted = h, !.regs = r])
  BY <1>1, <1>2, <1>3, Zenon
<1>. QED  BY <1>1, <1>4, Zenon

\* What instructions are made of.
LEMMA PiecesKeep ==
  ASSUME NEW d, NEW t, Keeps(d, t)
  PROVE  /\ \A r : Keeps(d, WithReg(t, r))
         /\ Keeps(d, Skip(t)) /\ Keeps(d, Skip16(t)) /\ Keeps(d, Drop16(t))
         /\ \A v : Keeps(d, Push16(t, v)) /\ Keeps(d, AddSp(t, v))
         /\ \A v : Keeps(d, Goto(t, v))
         /\ \A v, w : Keeps(d, GotoFar(t, v, w))
<1>1. \A u : Keeps(d, u) => Keeps(d, Skip(u))
  BY FieldsKeep, Zenon DEF Skip
<1>2. Keeps(d, Skip(t)) /\ Keeps(d, Skip16(t))
  BY <1>1, Zenon DEF Skip16
<1>3. (\A r : Keeps(d, WithReg(t, r))) /\ Keeps(d, Drop16(t))
  BY FieldsKeep, Zenon DEF WithReg, Drop16
<1>4. \A v : Keeps(d, Push16(t, v)) /\ Keeps(d, AddSp(t, v))
  BY FieldsKeep, Zenon DEF Push16, AddSp
<1>5. (\A v : Keeps(d, Goto(t, v))) /\ (\A v, w : Keeps(d, GotoFar(t, v, w)))
  BY FieldsKeep, Zenon DEF Goto, GotoFar
<1>. QED  BY <1>2, <1>3, <1>4, <1>5, Zenon

LEMMA FrameKeeps ==
  ASSUME NEW d, NEW t, Keeps(d, t)
  PROVE  Keeps(d, PushFrame(t)) /\ Keeps(d, PopFrame(t))
<1>1. \A u, v : Keeps(d, u) => Keeps(d, Push16(u, v)) /\ Keeps(d, Drop16(u))
  BY PiecesKeep, Zenon
<1>2. \A u, r : Keeps(d, u) => Keeps(d, [u EXCEPT !.regs = r])
  BY FieldsKeep, Zenon
<1>. QED  BY <1>1, <1>2, Zenon DEF PushFrame, PopFrame

-----------------------------------------------------------------------------
\* Operands.

LEMMA EaKeeps ==
  ASSUME NEW d, NEW t, Keeps(d, t), NEW p, NEW b
  PROVE  Keeps(d, AfterEa(t, p, b)) /\ Keeps(d, AfterOperand(t, p, b))
<1>1. \A s, o, n : Ea(s, o, n).next = n
  BY DEF Ea
<1>2. Keeps(d, DecodeEa16(t, b).next)
  <2>. DEFINE seg == IF StackBased16(b) THEN SS ELSE DS
              base == Base16(t.regs, b)
  <2>1. DecodeEa16(t, b) \in
          {Ea(seg, Imm16(t), Skip16(t)),
           Ea(seg, Wrap16(base + SignExtend(Imm8(t))), Skip(t)),
           Ea(seg, Wrap16(base + Imm16(t)), Skip16(t)),
           Ea(seg, Wrap16(base), t)}
    BY DEF DecodeEa16
  <2>. HIDE DEF seg, base
  <2>. QED  BY <2>1, <1>1, PiecesKeep
<1>3. Keeps(d, DecodeEa32(t, b).next)
  <2>. DEFINE sib == Sib(t, b)
              u == AfterSib(t, b)
              seg == IF StackBased32(b, sib) THEN SS ELSE DS
              index == Indexed(t.regs, sib)
              base == GetAddr(t.regs, ModRmRm(sib)) + index
  <2>1. Keeps(d, u)
    BY PiecesKeep DEF AfterSib
  <2>2. DecodeEa32(t, b) \in
          {Ea(seg, (Imm32(u) + index) % MemSize, Skip16(Skip16(u))),
           Ea(seg, (base + SignExtend(Imm8(u))) % MemSize, Skip(u)),
           Ea(seg, (base + Imm32(u)) % MemSize, Skip16(Skip16(u))),
           Ea(seg, base % MemSize, u)}
    BY DEF DecodeEa32
  <2>3. Keeps(d, Skip(u)) /\ Keeps(d, Skip16(Skip16(u)))
    BY <2>1, PiecesKeep
  <2>. HIDE DEF seg, base, u, index, sib
  <2>. QED  BY <2>1, <2>2, <2>3, <1>1
<1>4. Keeps(d, AfterEa(t, p, b))
  BY <1>2, <1>3 DEF AfterEa, DecodeEa
<1>. QED  BY <1>4 DEF AfterOperand

LEMMA OperandsKeep ==
  ASSUME NEW d, NEW t, Keeps(d, t), NEW p, NEW b
  PROVE  /\ Keeps(d, AfterOperand(t, p, b)) /\ Keeps(d, AfterEa(t, p, b))
         /\ \A v : Keeps(d, Write8(t, p, b, v)) /\ Keeps(d, Write16(t, p, b, v))
<1>1. \A u, m : Keeps(d, u) => Keeps(d, [u EXCEPT !.mem = m])
  BY FieldsKeep, Zenon
<1>2. \A r : Keeps(d, WithReg(t, r))
  BY PiecesKeep, Zenon
<1>3. \A m : Keeps(d, [AfterEa(t, p, b) EXCEPT !.mem = m])
  BY <1>1, EaKeeps, Zenon
<1>. QED  BY <1>2, <1>3, EaKeeps, Zenon DEF Write8, Write16


-----------------------------------------------------------------------------
\* Instruction by instruction.

\* What an instruction is put together from, for every machine on the way.
KeepSteps(d, p) ==
  /\ \A t : Keeps(d, t) => /\ \A r : Keeps(d, WithReg(t, r))
                           /\ \A r : Keeps(d, [t EXCEPT !.regs = r])
                           /\ \A m : Keeps(d, [t EXCEPT !.mem = m])
                           /\ \A v : Keeps(d, Push16(t, v)) /\ Keeps(d, AddSp(t, v))
                           /\ \A v : Keeps(d, Goto(t, v))
                           /\ \A v, w : Keeps(d, GotoFar(t, v, w))
  /\ \A t : Keeps(d, t) => /\ Keeps(d, Skip(t)) /\ Keeps(d, Skip16(t))
                           /\ Keeps(d, Drop16(t)) /\ Keeps(d, PopFrame(t))
  /\ \A t : Keeps(d, t) =>
       \A b : /\ Keeps(d, AfterOperand(t, p, b)) /\ Keeps(d, AfterEa(t, p, b))
              /\ \A v : Keeps(d, Write8(t, p, b, v)) /\ Keeps(d, Write16(t, p, b, v))
  /\ \A t, r : Keeps(d, t) => Keeps(d, Outcome(t, r).machine)

LEMMA KeepStepsHold == ASSUME NEW d, NEW p PROVE KeepSteps(d, p)
<1>1. \A t : Keeps(d, t) =>
        /\ \A r : Keeps(d, WithReg(t, r))
        /\ \A r : Keeps(d, [t EXCEPT !.regs = r])
        /\ \A m : Keeps(d, [t EXCEPT !.mem = m])
        /\ \A v : Keeps(d, Push16(t, v)) /\ Keeps(d, AddSp(t, v))
        /\ \A v : Keeps(d, Goto(t, v))
        /\ \A v, w : Keeps(d, GotoFar(t, v, w))
  BY PiecesKeep, FieldsKeep, Zenon
<1>2. \A t : Keeps(d, t) => /\ Keeps(d, Skip(t)) /\ Keeps(d, Skip16(t))
                            /\ Keeps(d, Drop16(t)) /\ Keeps(d, PopFrame(t))
  BY PiecesKeep, FrameKeeps, Zenon
<1>3. \A t : Keeps(d, t) =>
        \A b : /\ Keeps(d, AfterOperand(t, p, b)) /\ Keeps(d, AfterEa(t, p, b))
               /\ \A v : Keeps(d, Write8(t, p, b, v)) /\ Keeps(d, Write16(t, p, b, v))
  BY OperandsKeep, Zenon
<1>4. \A t, r : Outcome(t, r).machine = t
  BY DEF Outcome
<1>. QED  BY <1>1, <1>2, <1>3, <1>4, Zenon DEF KeepSteps

LEMMA Group1Keeps ==
  ASSUME NEW d, NEW s, Keeps(d, s), NEW p, NEW op
  PROVE  Keeps(d, Group1(op, s, p))
<1>. USE KeepStepsHold DEF KeepSteps
<1>. DEFINE b == Imm8(s)
            t == IF op = 129 THEN Skip16(Skip(s)) ELSE Skip(Skip(s))
            after == AfterOperand(t, p, b)
            imm == CASE op = 129 -> Imm16(Skip(s))
                     [] op = 131 -> Wrap16(SignExtend(Imm8(Skip(s))))
                     [] OTHER -> Imm8(Skip(s))
            r == IF ByteOpcode(op)
                 THEN Group1Flags(after.regs, ModRmReg(b), Read8(t, p, b), imm, 256)
                 ELSE Group1Flags(after.regs, ModRmReg(b), Read16(t, p, b), imm,
                                  WordSize)
<1>1. Keeps(d, t)
  <2>. HIDE DEF imm, r
  <2>. QED  BY Zenon
<1>. HIDE DEF imm, r, t
<1>2. Keeps(d, WithReg(after, r))
  BY <1>1, Zenon
<1>3. Group1(op, s, p) = WithReg(after, r)
  BY Zenon DEF Group1, r, imm, t
<1>. QED  BY <1>2, <1>3

LEMMA Group3Keeps ==
  ASSUME NEW d, NEW s, Keeps(d, s), NEW p, NEW op, Imm8(s) \in Byte
  PROVE  Keeps(d, Group3(op, s, p).machine)
<1>. USE KeepStepsHold DEF KeepSteps
<1>1. \A t, b : Keeps(d, t) => Keeps(d, TestByte(t, p, b)) /\ Keeps(d, TestWord(t, p, b))
  BY ZenonT(90) DEF TestByte, TestWord
<1>2. \A t, r, b, v : Keeps(d, t) =>
        /\ Keeps(d, WithReg(AfterOperand(t, p, b), r))
        /\ Keeps(d, Write8(WithReg(AfterOperand(t, p, b), r), p, b, v))
        /\ Keeps(d, Write16(WithReg(AfterOperand(t, p, b), r), p, b, v))
        /\ Keeps(d, Write8(AfterOperand(t, p, b), p, b, v))
        /\ Keeps(d, Write16(AfterOperand(t, p, b), p, b, v))
  BY Zenon
<1>. HIDE KeepStepsHold DEF KeepSteps
<1>3. ASSUME NEW t, NEW b, Keeps(d, t), ModRmReg(b) \in 2 .. 7
      PROVE  Keeps(d, Group3Byte(t, p, b)) /\ Keeps(d, Group3Word(t, p, b))
  <2>. DEFINE after == AfterOperand(t, p, b)
              v == Read8(t, p, b)
              w == Read16(t, p, b)
              negated == SubFlags(after.regs, 0, v, (-v) % 256, 256)
              negated16 == SubFlags(after.regs, 0, w, Wrap16(-w), WordSize)
  <2>1. Group3Byte(t, p, b) \in
          {Write8(WithReg(after, negated), p, b, (-v) % 256),
           Write8(after, p, b, 255 - v), WithReg(after, MulRegs(after.regs, v)),
           WithReg(after, ImulRegs(after.regs, v)),
           WithReg(after, DivRegs(after.regs, v)),
           WithReg(after, IdivRegs(after.regs, v))}
    BY <1>3 DEF Group3Byte
  <2>2. Group3Word(t, p, b) \in
          {Write16(WithReg(after, negated16), p, b, Wrap16(-w)),
           Write16(after, p, b, WordSize - 1 - w),
           WithReg(after, MulRegs16(after.regs, w)),
           WithReg(after, ImulRegs16(after.regs, w)),
           WithReg(after, DivRegs16(after.regs, w)),
           WithReg(after, IdivRegs16(after.regs, w))}
    BY <1>3 DEF Group3Word
  <2>3. /\ \A r, x : Keeps(d, Write8(WithReg(after, r), p, b, x))
        /\ \A r, x : Keeps(d, Write16(WithReg(after, r), p, b, x))
        /\ \A x : Keeps(d, Write8(after, p, b, x)) /\ Keeps(d, Write16(after, p, b, x))
        /\ \A r : Keeps(d, WithReg(after, r))
    BY <1>2, <1>3, Zenon
  <2>. HIDE DEF after, v, w, negated, negated16
  <2>. QED  BY <2>1, <2>2, <2>3
<1>. DEFINE b == Imm8(s)
            t == Skip(s)
            test == IF ByteOpcode(op) THEN TestByte(t, p, b) ELSE TestWord(t, p, b)
            other == IF ByteOpcode(op) THEN Group3Byte(t, p, b)
                                       ELSE Group3Word(t, p, b)
<1>4. Keeps(d, t) /\ Keeps(d, AfterOperand(t, p, b))
  BY KeepStepsHold, Zenon DEF KeepSteps
<1>5. ModRmReg(b) \in 0 .. 7
  BY FieldsTyped DEF Reg
<1>. HIDE DEF b, t
<1>6. Keeps(d, test)
  BY <1>1, <1>4, Zenon
<1>7. ModRmReg(b) \in 2 .. 7 => Keeps(d, other)
  BY <1>3, <1>4
<1>. HIDE DEF test, other
<1>8. \/ Group3(op, s, p) = Outcome(test, Continue)
      \/ Group3(op, s, p) = Outcome(AfterOperand(t, p, b), Interrupt(0))
      \/ ModRmReg(b) \in 2 .. 7 /\ Group3(op, s, p) = Outcome(other, Continue)
  BY <1>5 DEF Group3, b, t, test, other
<1>. QED  BY <1>4, <1>6, <1>7, <1>8, KeepStepsHold, Zenon DEF KeepSteps

LEMMA FlowKeeps ==
  ASSUME NEW d, NEW s, Keeps(d, s), NEW op \in FlowOpcodes
  PROVE  Keeps(d, Flow(op, s))
<1>. USE KeepStepsHold DEF KeepSteps
<1>1. \A t, taken : Keeps(d, t) => Keeps(d, JumpIf(t, taken))
  BY Zenon DEF JumpIf
<1>2. Keeps(d, Jcc(op, s))
  BY <1>1, Zenon DEF Jcc
<1>3. op \in 224 .. 227 => Keeps(d, Loop(op, s))
  <2>. DEFINE cx == Wrap16(Get16(s.regs, CX) - 1)
              t == [s EXCEPT !.regs = Set16(s.regs, CX, cx)]
  <2>. HIDE DEF cx
  <2>1. Keeps(d, t)
    BY Zenon
  <2>. HIDE DEF t
  <2>2. (\A taken : Keeps(d, JumpIf(t, taken))) /\ \A taken : Keeps(d, JumpIf(s, taken))
    BY <1>1, <2>1, Zenon
  <2>. HIDE KeepStepsHold DEF KeepSteps
  <2>3. op \in 224 .. 227 =>
          \E taken : Loop(op, s) \in {JumpIf(t, taken), JumpIf(s, taken)}
    BY DEF Loop, t, cx
  <2>. QED  BY <2>2, <2>3
<1>4. Keeps(d, Goto(s, NearTarget(s))) /\ Keeps(d, JmpFar(s)) /\ Keeps(d, PopFrame(s))
  BY Zenon DEF JmpFar
<1>5. Keeps(d, CallNear(s)) /\ Keeps(d, CallFar(s))
  BY Zenon DEF CallNear, CallFar, AfterFar
<1>6. \A t, n : Keeps(d, t) => Keeps(d, RetNear(t, n)) /\ Keeps(d, RetFar(t, n))
  BY Zenon DEF RetNear, RetFar
<1>7. /\ Keeps(d, RetNear(s, 0)) /\ Keeps(d, RetFar(s, 0))
      /\ Keeps(d, RetNear(Skip16(s), Imm16(s)))
      /\ Keeps(d, RetFar(Skip16(s), Imm16(s)))
  BY <1>6, Zenon
<1>. HIDE KeepStepsHold DEF KeepSteps
<1>8. CASE op \in 112 .. 127
  <2>1. Flow(op, s) = Jcc(op, s)
    BY <1>8 DEF Flow, JumpIf
  <2>. QED  BY <1>2, <2>1
<1>9. CASE op \in 224 .. 227
  <2>1. Flow(op, s) = Loop(op, s)
    BY <1>9 DEF Flow, JumpIf
  <2>. QED  BY <1>3, <1>9, <2>1
<1>10. CASE op \in {154, 194, 195, 202, 203, 207, 232, 233, 234, 235}
  <2>1. Flow(op, s) \in
          {JumpIf(s, TRUE), Goto(s, NearTarget(s)), JmpFar(s), CallNear(s),
           CallFar(s), RetNear(Skip16(s), Imm16(s)), RetNear(s, 0),
           RetFar(Skip16(s), Imm16(s)), RetFar(s, 0), PopFrame(s)}
    BY <1>10 DEF Flow, JumpIf
  <2>. QED  BY <2>1, <1>1, <1>4, <1>5, <1>7
<1>. QED  BY <1>8, <1>9, <1>10 DEF FlowOpcodes

LEMMA GroupFFKeeps ==
  ASSUME NEW d, NEW s, Keeps(d, s), NEW p, Imm8(s) \in Byte
  PROVE  Keeps(d, GroupFF(s, p).machine)
<1>. USE KeepStepsHold DEF KeepSteps
<1>. DEFINE b == Imm8(s)
            t == Skip(s)
            v == Read16(t, p, b)
            after == AfterOperand(t, p, b)
            far == AfterEa(t, p, b)
            seg == PointerSeg(t, p, b)
            off == PointerOff(t, p, b)
            called == Push16(Push16(far, GetSeg(far.regs, CS)),
                             Wrap16(far.regs.ip))
<1>1. Keeps(d, t) /\ Keeps(d, after) /\ Keeps(d, far)
  BY Zenon
<1>2. ModRmReg(b) \in 0 .. 7
  BY FieldsTyped DEF Reg
<1>. HIDE DEF b, t, v, after, far, seg, off
<1>3. Keeps(d, called)
  BY <1>1, Zenon
<1>. HIDE DEF called
<1>4. /\ Keeps(d, Goto(Push16(after, Wrap16(after.regs.ip)), v))
      /\ Keeps(d, GotoFar(called, seg, off)) /\ Keeps(d, Goto(after, v))
      /\ Keeps(d, GotoFar(far, seg, off)) /\ Keeps(d, Push16(after, v))
  BY <1>1, <1>3, Zenon
<1>5. Keeps(d, IncDec(t, p, b))
  BY <1>1, Zenon DEF IncDec
<1>6. GroupFF(s, p) \in
        {Outcome(IncDec(t, p, b), Continue),
         Outcome(Goto(Push16(after, Wrap16(after.regs.ip)), v), Continue),
         Outcome(GotoFar(called, seg, off), Continue),
         Outcome(Goto(after, v), Continue),
         Outcome(GotoFar(far, seg, off), Continue),
         Outcome(Push16(after, v), Continue), Outcome(t, Unimplemented(255))}
  <2>. HIDE KeepStepsHold DEF KeepSteps
  <2>. QED  BY <1>2 DEF GroupFF, b, t, v, after, far, seg, off, called
<1>7. \E u, r : Keeps(d, u) /\ GroupFF(s, p) = Outcome(u, r)
  <2>. HIDE KeepStepsHold DEF KeepSteps
  <2>. QED  BY <1>1, <1>4, <1>5, <1>6
<1>. QED  BY <1>7, Zenon


LEMMA SystemKeeps ==
  ASSUME NEW d, NEW s, Keeps(d, s), NEW p, NEW b, NEW e
  PROVE  /\ Keeps(d, SystemGroup(s, p, b)) /\ Keeps(d, Denied(s, p, b))
         /\ \A B : Keeps(d, Zeroed(s, B))
         /\ Keeps(d, NearJcc(e, s, p)) /\ Keeps(d, SetCc(e, s, p, b))
         /\ \A i : Keeps(d, PopSeg(s, i))
<1>. USE KeepStepsHold DEF KeepSteps
<1>1. /\ Keeps(d, Write16(AfterOperand(s, p, b), p, b, 0))
      /\ Keeps(d, AfterOperand(s, p, b))
  BY Zenon
<1>2. Keeps(d, Denied(s, p, b))
  BY Zenon DEF Denied
<1>3. \A B : Keeps(d, Zeroed(s, B))
  BY Zenon DEF Zeroed
<1>4. Keeps(d, NearJcc(e, s, p))
  <2>. DEFINE t == IF p.operand32 THEN Skip16(Skip16(s)) ELSE Skip16(s)
              rel == IF p.operand32 THEN Imm32(s) ELSE Signed16(Imm16(s))
  <2>1. Keeps(d, t)
    <3>. HIDE DEF rel
    <3>. QED  BY Zenon
  <2>. HIDE DEF t, rel
  <2>2. Keeps(d, WithReg(t, SetIp(t.regs, (t.regs.ip + rel) % MemSize)))
    BY <2>1, Zenon
  <2>. QED  BY <2>1, <2>2, Zenon DEF NearJcc, t, rel
<1>5. Keeps(d, SetCc(e, s, p, b))
  BY Zenon DEF SetCc
<1>6. \A i : Keeps(d, PopSeg(s, i))
  BY Zenon DEF PopSeg
<1>. HIDE KeepStepsHold DEF KeepSteps
<1>7. Keeps(d, SystemGroup(s, p, b))
  BY <1>1 DEF SystemGroup
<1>. QED  BY <1>2, <1>3, <1>4, <1>5, <1>6, <1>7, Zenon

LEMMA ProductsKeep ==
  ASSUME NEW d, NEW s, Keeps(d, s), NEW p, NEW b
  PROVE  Keeps(d, Imul16(s, p, b)) /\ Keeps(d, Imul32(s, p, b))
<1>1. \A r : Keeps(d, WithReg(AfterOperand(s, p, b), r))
  BY KeepStepsHold, Zenon DEF KeepSteps
<1>2. \E r : Imul16(s, p, b) = WithReg(AfterOperand(s, p, b), r)
  <2>. DEFINE t == AfterOperand(s, p, b)
              x == Signed16(Get16(t.regs, ModRmReg(b))) * Signed16(Read16(s, p, b))
              over == Beyond16(x)
              r == CarryOverflow(Set16(t.regs, ModRmReg(b), Wrap16(x)), over, over)
  <2>1. Imul16(s, p, b) = WithReg(t, r)
    BY SMT DEF Imul16
  <2>. HIDE DEF t, r
  <2>2. \E q : Imul16(s, p, b) = WithReg(t, q)
    BY <2>1, Zenon
  <2>. QED  BY <2>2 DEF t
<1>3. \E r : Imul32(s, p, b) = WithReg(AfterOperand(s, p, b), r)
  BY Zenon DEF Imul32
<1>. QED  BY <1>1, <1>2, <1>3, Zenon

LEMMA BitsKeep ==
  ASSUME NEW d, NEW s, Keeps(d, s), NEW p, NEW b, NEW e
  PROVE  /\ Keeps(d, BitOpReg(e, s, p, b)) /\ Keeps(d, BitOpImm(s, p, b))
         /\ Keeps(d, DoubleShift(e, s, p, b)) /\ Keeps(d, BitScan(e, s, p, b))
<1>. USE KeepStepsHold DEF KeepSteps
<1>1. \A t, kind, v, bit : Keeps(d, t) => Keeps(d, BitOp(t, p, b, kind, v, bit))
  BY Zenon DEF BitOp
<1>2. Keeps(d, BitOpReg(e, s, p, b)) /\ Keeps(d, BitOpImm(s, p, b))
  BY <1>1, Zenon DEF BitOpReg, BitOpImm
<1>3. Keeps(d, BitScan(e, s, p, b))
  BY Zenon DEF BitScan
<1>4. Keeps(d, DoubleShift(e, s, p, b))
  <2>. DEFINE t == IF ShiftByImm(e) THEN Skip(s) ELSE s
              after == AfterOperand(t, p, b)
  <2>1. Keeps(d, t)
    BY Zenon
  <2>. HIDE DEF t
  <2>2. Keeps(d, after)
    BY <2>1, Zenon
  <2>3. \A r, v : Keeps(d, Write16(WithReg(after, r), p, b, v))
    BY <2>2, Zenon
  <2>. HIDE KeepStepsHold DEF KeepSteps
  <2>4. \E r, v : DoubleShift(e, s, p, b) \in {after, Write16(WithReg(after, r), p, b, v)}
    BY DEF DoubleShift, t
  <2>. QED  BY <2>2, <2>3, <2>4
<1>. QED  BY <1>2, <1>3, <1>4, Zenon

LEMMA MovesKeep ==
  ASSUME NEW d, NEW s, Keeps(d, s), NEW p, NEW b, NEW e
  PROVE  /\ Keeps(d, Extend(e, s, p, b))
         /\ Keeps(d, Xadd8(s, p, b)) /\ Keeps(d, Xadd16(s, p, b))
<1>. DEFINE t == AfterOperand(s, p, b)
<1>1. /\ \A r : Keeps(d, WithReg(t, r))
      /\ \A r, v : Keeps(d, Write8(WithReg(t, r), p, b, v))
      /\ \A r, v : Keeps(d, Write16(WithReg(t, r), p, b, v))
  BY KeepStepsHold, Zenon DEF KeepSteps
<1>2. \E r : Extend(e, s, p, b) = WithReg(t, r)
  BY Zenon DEF Extend
<1>. QED  BY <1>1, <1>2, ZenonT(90) DEF Xadd8, Xadd16

LEMMA EscapeKeeps ==
  ASSUME NEW d, NEW s, Keeps(d, s), NEW p
  PROVE  Keeps(d, Escape(s, p).machine)
<1>1. \A t : Keeps(d, t) => Keeps(d, Skip(t)) /\ \A v : Keeps(d, Push16(t, v))
  BY KeepStepsHold, Zenon DEF KeepSteps
<1>2. \A t, b : Keeps(d, t) => Keeps(d, AfterOperand(t, p, b))
  BY KeepStepsHold, Zenon DEF KeepSteps
<1>3. ASSUME NEW e, NEW t, NEW b, Keeps(d, t)  PROVE Keeps(d, Escaped(e, t, p, b))
  <2>1. Escaped(e, t, p, b) \in
          {SystemGroup(t, p, b), AfterOperand(t, p, b), Denied(t, p, b),
           SetCc(e, t, p, b), BitOpReg(e, t, p, b), DoubleShift(e, t, p, b),
           Imul32(t, p, b), Imul16(t, p, b), Extend(e, t, p, b),
           BitOpImm(t, p, b), BitScan(e, t, p, b), Xadd8(t, p, b),
           Xadd16(t, p, b), t}
    BY DEF Escaped
  <2>. QED
    BY <1>2, <1>3, <2>1, SystemKeeps, ProductsKeep, BitsKeep, MovesKeep
<1>4. ASSUME NEW e, NEW t, Keeps(d, t)  PROVE Keeps(d, EscapedPlain(e, t, p))
  <2>1. EscapedPlain(e, t, p) \in
          {Zeroed(t, {AX, DX}), NearJcc(e, t, p), Push16(t, GetSeg(t.regs, FS)),
           PopSeg(t, FS), Zeroed(t, {AX, BX, CX, DX}),
           Push16(t, GetSeg(t.regs, GS)), PopSeg(t, GS), t}
    BY DEF EscapedPlain
  <2>. QED  BY <1>1, <1>4, <2>1, SystemKeeps
<1>. DEFINE e == Imm8(s)
            t == Skip(s)
<1>5. Escape(s, p) \in {Outcome(t, Interrupt(6)),
                        Outcome(Escaped(e, Skip(t), p, Imm8(t)), Continue),
                        Outcome(EscapedPlain(e, t, p), Continue)}
  BY DEF Escape
<1>6. Keeps(d, t) /\ Keeps(d, Skip(t))
  BY <1>1, Zenon
<1>. HIDE DEF e, t
<1>7. \A u, r : Keeps(d, u) => Keeps(d, Outcome(u, r).machine)
  BY KeepStepsHold, Zenon DEF KeepSteps
<1>8. Keeps(d, Escaped(e, Skip(t), p, Imm8(t))) /\ Keeps(d, EscapedPlain(e, t, p))
  BY <1>3, <1>4, <1>6
<1>. QED  BY <1>5, <1>6, <1>7, <1>8

LEMMA MiscKeeps ==
  ASSUME NEW d, NEW s, Keeps(d, s), NEW p, NEW op
  PROVE  Keeps(d, Misc(op, s, p).machine)
<1>. USE KeepStepsHold DEF KeepSteps
<1>1. Keeps(d, Skip(s)) /\ Keeps(d, AfterOperand(Skip(s), p, Imm8(s)))
  BY Zenon
<1>2. Keeps(d, FlagOp(op, s)) /\ Keeps(d, Salc(s))
  <2>1. \A r : Keeps(d, [s EXCEPT !.regs = r])
    BY Zenon
  <2>2. /\ \E r : FlagOp(op, s) = [s EXCEPT !.regs = r]
        /\ \E r : Salc(s) = [s EXCEPT !.regs = r]
    BY ONLY Zenon DEF FlagOp, Salc
  <2>. QED  BY ONLY <2>1, <2>2, Zenon
<1>3. Keeps(d, StoreSeg(s, p)) /\ Keeps(d, LoadSegReg(s, p))
  BY Zenon DEF StoreSeg, LoadSegReg
<1>4. Keeps(d, [s EXCEPT !.halted = TRUE])
  BY FieldsKeep, Zenon
<1>5. \A u, r : Keeps(d, u) => Keeps(d, Outcome(u, r).machine)
  BY Zenon
<1>. HIDE KeepStepsHold DEF KeepSteps
<1>6. Misc(op, s, p) \in
        {Outcome(s, Continue), Outcome(FlagOp(op, s), Continue),
         Outcome(Salc(s), Continue), Outcome(Skip(s), Continue),
         Outcome(AfterOperand(Skip(s), p, Imm8(s)), Continue),
         Outcome(StoreSeg(s, p), Continue), Outcome(LoadSegReg(s, p), Continue),
         Outcome(Skip(s), Interrupt(Imm8(s))), Outcome(s, Interrupt(4)),
         Escape(s, p), Outcome([s EXCEPT !.halted = TRUE], Halt),
         Outcome(s, Unimplemented(op))}
  BY DEF Misc
<1>. QED  BY <1>1, <1>2, <1>3, <1>4, <1>5, <1>6, EscapeKeeps

\* No instruction opens, reads or moves a file: those are INT 21h's.
LEMMA ExecuteKeeps ==
  ASSUME NEW s, IsMachine(s), NEW p, NEW op
  PROVE  Execute(op, s, p).machine.dos = s.dos
<1>. DEFINE d == s.dos
<1>1. Keeps(d, s) /\ Imm8(s) \in Byte
  BY FetchTyped DEF Keeps, IsMachine
<1>2. \A u, r : Keeps(d, u) => Keeps(d, Outcome(u, r).machine)
  BY KeepStepsHold, Zenon DEF KeepSteps
<1>3. op \in FlowOpcodes => Keeps(d, Flow(op, s))
  BY <1>1, FlowKeeps
<1>4. \/ op \in FlowOpcodes /\ Execute(op, s, p) = Outcome(Flow(op, s), Continue)
      \/ Execute(op, s, p) \in {Outcome(Group1(op, s, p), Continue),
                                Group3(op, s, p), GroupFF(s, p), Misc(op, s, p)}
  BY DEF Execute
<1>5. Keeps(d, Execute(op, s, p).machine)
  BY <1>1, <1>2, <1>3, <1>4, Group1Keeps, Group3Keeps, GroupFFKeeps, MiscKeeps
<1>. QED  BY <1>5 DEF Keeps

LEMMA InKeeps ==
  ASSUME NEW s, IsMachine(s), NEW op, NEW lo, NEW hi
  PROVE  /\ In(op, s, lo, hi).dos = s.dos /\ AfterPort(op, s).dos = s.dos
<1>. DEFINE d == s.dos
<1>1. Keeps(d, s)
  BY DEF Keeps, IsMachine
<1>2. Keeps(d, AfterPort(op, s))
  BY <1>1, PiecesKeep, Zenon DEF AfterPort
<1>3. Keeps(d, In(op, s, lo, hi))
  <2>1. PICK r : In(op, s, lo, hi) = [AfterPort(op, s) EXCEPT !.regs = r]
    BY Zenon DEF In
  <2>2. Keeps(d, [AfterPort(op, s) EXCEPT !.regs = r])
    BY ONLY <1>2, FieldsKeep, ZenonT(60)
  <2>. QED  BY ONLY <2>1, <2>2, Zenon
<1>. QED  BY <1>2, <1>3 DEF Keeps


-----------------------------------------------------------------------------
\* What a handler may do to the table of open files.

\* One request: an open of either kind, or a move of the cursor of handle h.
FileRequest(d, e, h) ==
  \/ e = d
  \/ \E data : e = OpenVirtual(d, data)
  \/ \E path : e = OpenReal(d, path)
  \/ h \in DOMAIN d.files /\ \E pos : e = MoveTo(d, h, pos)

\* Handlers set registers and memory, and halt.
LEMMA WithKeeps ==
  ASSUME NEW d, NEW t, Keeps(d, t)
  PROVE  /\ \A r, v : Keeps(d, With8(t, r, v)) /\ Keeps(d, With16(t, r, v))
         /\ Keeps(d, Fails(t)) /\ Keeps(d, Succeeds(t)) /\ Keeps(d, NoKey(t))
<1>1. \A r : Keeps(d, [t EXCEPT !.regs = r])
  BY FieldsKeep, Zenon
<1>2. \A r, v : Keeps(d, With8(t, r, v)) /\ Keeps(d, With16(t, r, v))
  BY <1>1, Zenon DEF With8, With16
<1>3. Keeps(d, Fails(t)) /\ Keeps(d, Succeeds(t)) /\ Keeps(d, NoKey(t))
  BY <1>1, Zenon DEF Fails, Succeeds, NoKey
<1>. QED  BY <1>2, <1>3, Zenon

HandlerSteps(d) ==
  /\ \A t : Keeps(d, t) => \A r, v : Keeps(d, With8(t, r, v)) /\ Keeps(d, With16(t, r, v))
  /\ \A t : Keeps(d, t) => Keeps(d, Fails(t)) /\ Keeps(d, Succeeds(t)) /\ Keeps(d, NoKey(t))
  /\ \A t : Keeps(d, t) => /\ \A r : Keeps(d, [t EXCEPT !.regs = r])
                           /\ \A m : Keeps(d, [t EXCEPT !.mem = m])
                           /\ \A h : Keeps(d, [t EXCEPT !.halted = h])

LEMMA HandlerStepsHold == ASSUME NEW d PROVE HandlerSteps(d)
  BY WithKeeps, FieldsKeep, Zenon DEF HandlerSteps

LEMMA SystemFiles ==
  ASSUME NEW d, NEW s, Keeps(d, s)
  PROVE  /\ Keeps(d, Int10(s)) /\ Keeps(d, Int11(s)) /\ Keeps(d, Int12(s))
         /\ Keeps(d, Int15(s)) /\ Keeps(d, Int16(s)) /\ Keeps(d, Int18(s))
         /\ Keeps(d, Int1a(s)) /\ Keeps(d, Int1f(s))
<1>1. /\ \A r, v : Keeps(d, With8(s, r, v)) /\ Keeps(d, With16(s, r, v))
      /\ Keeps(d, Fails(s)) /\ Keeps(d, NoKey(s))
  BY HandlerStepsHold, Zenon DEF HandlerSteps
<1>2. Keeps(d, Int10(s)) /\ Keeps(d, Int11(s)) /\ Keeps(d, Int12(s))
        /\ Keeps(d, Int15(s))
  BY <1>1 DEF Int10, Int11, Int12, Int15
<1>3. Keeps(d, Int16(s)) /\ Keeps(d, Int18(s)) /\ Keeps(d, Int1f(s))
  BY <1>1 DEF Int16, Int18, Int1f
<1>4. Keeps(d, With8(With16(With16(s, CX, 0), DX, 0), AL, 0))
  BY HandlerStepsHold, Zenon DEF HandlerSteps
<1>5. Keeps(d, Int1a(s))
  BY <1>1, <1>4, Zenon DEF Int1a
<1>. QED  BY <1>2, <1>3, <1>5

LEMMA Int13Files ==
  ASSUME NEW d, NEW s, Keeps(d, s), NEW disk0
  PROVE  Keeps(d, Int13(s, disk0))
<1>. USE HandlerStepsHold DEF HandlerSteps
<1>1. \A r, v, w : /\ Keeps(d, Fails(With8(s, r, v)))
                   /\ Keeps(d, Succeeds(With8(s, r, v)))
  BY Zenon
<1>2. Keeps(d, Int13Read(s, disk0))
  <2>1. \A m, r, v : Keeps(d, Succeeds(With8([s EXCEPT !.mem = m], r, v)))
    BY Zenon
  <2>. QED  BY <1>1, <2>1, ZenonT(90) DEF Int13Read
<1>3. Keeps(d, Int13Params(s, disk0))
  <2>1. \A x, y, z : Keeps(d, Succeeds(With8(With8(With8(With8(With8(s,
                       CH, x), CL, y), DH, z), DL, 1), AH, 0)))
    BY Zenon
  <2>. DEFINE cyls == IF disk0.cyls > 2 THEN disk0.cyls - 2 ELSE 0
              heads == IF disk0.heads > 0 THEN disk0.heads - 1 ELSE 0
              low == cyls % 256
              high == (disk0.spt % 64) + 64 * ((cyls \div 256) % 4)
              reported == Succeeds(With8(With8(With8(With8(With8(s,
                            CH, low), CL, high), DH, heads), DL, 1), AH, 0))
  <2>2. Int13Params(s, disk0) = IF disk0.present THEN reported ELSE Fails(s)
    BY Zenon DEF Int13Params
  <2>. HIDE DEF low, high, heads
  <2>3. Keeps(d, reported) /\ Keeps(d, Fails(s))
    BY <2>1, Zenon
  <2>. HIDE DEF reported
  <2>. QED  BY <2>2, <2>3, Zenon
<1>. HIDE HandlerStepsHold DEF HandlerSteps
<1>. QED  BY <1>1, <1>2, <1>3 DEF Int13

\* The three requests that touch the table.
LEMMA OpenFiles ==
  ASSUME NEW s, Keeps(s.dos, s), NEW disk0
  PROVE  \E e : Keeps(e, OpenFile(s, disk0)) /\ FileRequest(s.dos, e, Get16(s.regs, BX))
<1>. DEFINE data == disk0.files[TheName(OnDisk(s, disk0))].data
            path == TheName(OnHost(s))
            virtual == OpenVirtual(s.dos, data)
            real == OpenReal(s.dos, path)
<1>1. FileRequest(s.dos, virtual, Get16(s.regs, BX))
      /\ FileRequest(s.dos, real, Get16(s.regs, BX))
      /\ FileRequest(s.dos, s.dos, Get16(s.regs, BX))
  BY Zenon DEF FileRequest
<1>2. \A e : Keeps(e, [s EXCEPT !.dos = e])
  BY DEF Keeps
<1>3. \A e, v : Keeps(e, Succeeds(With16([s EXCEPT !.dos = e], AX, v)))
  BY <1>2, HandlerStepsHold, Zenon DEF HandlerSteps
<1>4. Keeps(s.dos, Fails(With16(s, AX, 2)))
  BY HandlerStepsHold, Zenon DEF HandlerSteps
<1>5. OpenFile(s, disk0) =
        IF OnDisk(s, disk0) # {}
        THEN Succeeds(With16([s EXCEPT !.dos = virtual], AX, VirtualHandle(s.dos)))
        ELSE IF OnHost(s) # {}
        THEN Succeeds(With16([s EXCEPT !.dos = real], AX, s.dos.next))
        ELSE Fails(With16(s, AX, 2))
  BY Zenon DEF OpenFile
<1>. HIDE DEF virtual, real
<1>. QED  BY <1>1, <1>3, <1>4, <1>5, Zenon

LEMMA CursorFiles ==
  ASSUME NEW s, Keeps(s.dos, s)
  PROVE  /\ \E e : Keeps(e, Read(s)) /\ FileRequest(s.dos, e, Get16(s.regs, BX))
         /\ \E e : Keeps(e, Seek(s)) /\ FileRequest(s.dos, e, Get16(s.regs, BX))
<1>. DEFINE h == Get16(s.regs, BX)
<1>1. /\ \A pos : h \in DOMAIN s.dos.files =>
           FileRequest(s.dos, MoveTo(s.dos, h, pos), h)
      /\ FileRequest(s.dos, s.dos, h)
  BY Zenon DEF FileRequest
<1>. HIDE DEF h
<1>2. /\ \A e : Keeps(e, [s EXCEPT !.dos = e])
      /\ \A e, m : Keeps(e, [[s EXCEPT !.mem = m] EXCEPT !.dos = e])
  <2>1. \A t, e : Keeps(s.dos, t) => Keeps(e, [t EXCEPT !.dos = e])
    BY DEF Keeps
  <2>. QED  BY <2>1, FieldsKeep, Zenon
<1>9. \A e, m : [s EXCEPT !.mem = m, !.dos = e]
                  = [[s EXCEPT !.mem = m] EXCEPT !.dos = e]
  OBVIOUS
<1>3. /\ \A e, v, w : Keeps(e, Succeeds(With16(With16([s EXCEPT !.dos = e],
                              AX, v), DX, w)))
      /\ \A e, m, v : Keeps(e, Succeeds(With16(
                         [s EXCEPT !.mem = m, !.dos = e], AX, v)))
  BY <1>2, <1>9, HandlerStepsHold, Zenon DEF HandlerSteps
<1>4. Keeps(s.dos, Fails(s))
  BY HandlerStepsHold, Zenon DEF HandlerSteps
<1>5. \/ Read(s) = Fails(s)
      \/ h \in DOMAIN s.dos.files /\ \E pos, m, v : Read(s) =
           Succeeds(With16([s EXCEPT !.mem = m, !.dos = MoveTo(s.dos, h, pos)], AX, v))
  BY Zenon DEF Read, ReadFile, h
<1>6. \/ Seek(s) = Fails(s)
      \/ h \in DOMAIN s.dos.files /\ \E pos, v, w : Seek(s) =
           Succeeds(With16(With16([s EXCEPT !.dos = MoveTo(s.dos, h, pos)], AX, v), DX, w))
  BY Zenon DEF Seek, h
<1>7. \E e : Keeps(e, Read(s)) /\ FileRequest(s.dos, e, h)
  BY <1>1, <1>3, <1>4, <1>5, Zenon
<1>8. \E e : Keeps(e, Seek(s)) /\ FileRequest(s.dos, e, h)
  BY <1>1, <1>3, <1>4, <1>6, Zenon
<1>. QED  BY <1>7, <1>8, Zenon DEF h

\* The loader puts a program into memory and leaves the files alone.
LEMMA LoaderKeeps ==
  ASSUME NEW d, NEW s, Keeps(d, s), NEW f
  PROVE  /\ Keeps(d, ExecuteBinary(s, f)) /\ Keeps(d, LoadMz(s, f))
         /\ \A sector : Keeps(d, LoadBootSector(s, sector))
<1>1. \A m, r : Keeps(d, [s EXCEPT !.mem = m, !.regs = r])
  BY FieldsKeep, Zenon
<1>2. Keeps(d, LoadCom(s, f))
  BY <1>1, Zenon DEF LoadCom
<1>3. Keeps(d, LoadMz(s, f))
  BY <1>1, Zenon DEF LoadMz
<1>4. ASSUME NEW sector  PROVE Keeps(d, LoadBootSector(s, sector))
  <2>. DEFINE r == SetIp(SetSeg(s.regs, CS, BootSeg), BootOff)
              q == Set16(SetSeg(r, SS, 0), SP, 31742)
  <2>. HIDE DEF r
  <2>1. LoadBootSector(s, sector) =
          [s EXCEPT !.mem = LoadBytes(s.mem, Phys(BootSeg, BootOff), sector),
                    !.regs = q]
    BY DEF LoadBootSector, r
  <2>. HIDE DEF q
  <2>2. Keeps(d, [s EXCEPT !.mem = LoadBytes(s.mem, Phys(BootSeg, BootOff), sector),
                           !.regs = q])
    BY <1>1, Zenon
  <2>. QED  BY <2>1, <2>2
<1>. QED  BY <1>2, <1>3, <1>4, Zenon DEF ExecuteBinary

LEMMA Int21Files ==
  ASSUME NEW s, Keeps(s.dos, s), NEW disk0
  PROVE  \E e : Keeps(e, Int21(s, disk0)) /\ FileRequest(s.dos, e, Get16(s.regs, BX))
<1>. DEFINE d == s.dos
            Served(t) == \E e : Keeps(e, t) /\ FileRequest(d, e, Get16(s.regs, BX))
<1>. USE HandlerStepsHold DEF HandlerSteps
<1>1. /\ \A r, v : Keeps(d, With8(s, r, v)) /\ Keeps(d, With16(s, r, v))
      /\ \A r, v : Keeps(d, Succeeds(With8(s, r, v))) /\ Keeps(d, Succeeds(With16(s, r, v)))
      /\ Keeps(d, Fails(s)) /\ Keeps(d, Succeeds(s))
      /\ Keeps(d, [s EXCEPT !.halted = TRUE])
  BY Zenon
<1>2. /\ Keeps(d, With16(With16(s, CX, 4608), DX, 0))
      /\ Keeps(d, With16(With8(With16(s, AX, 5), BH, 255), CX, 0))
      /\ Keeps(d, With16([s EXCEPT !.regs = SetSeg(s.regs, ES, 0)], BX, 0))
  <2>1. /\ \A v, w : Keeps(d, With16(With16(s, CX, v), DX, w))
        /\ \A u, v, w : Keeps(d, With16(With8(With16(s, AX, u), BH, v), CX, w))
        /\ \A r, v : Keeps(d, With16([s EXCEPT !.regs = r], BX, v))
    BY Zenon
  <2>. HIDE HandlerStepsHold DEF HandlerSteps
  <2>. QED  BY <2>1, SMT
<1>3. Keeps(d, GetVector(s)) /\ Keeps(d, SetVector(s)) /\ Keeps(d, CurrentDir(s))
  BY Zenon DEF GetVector, SetVector, CurrentDir
<1>4. Keeps(d, Exec(s, disk0))
  <2>1. Keeps(d, [s EXCEPT !.regs = RegsNew])
    BY Zenon
  <2>2. \A f : Keeps(d, Succeeds(ExecuteBinary([s EXCEPT !.regs = RegsNew], f)))
    BY <2>1, LoaderKeeps, Zenon
  <2>3. Keeps(d, Fails(With16(s, AX, 2)))
        /\ Keeps(d, Fails(With16([s EXCEPT !.regs = RegsNew], AX, 2)))
    BY <2>1, Zenon
  <2>. QED  BY <1>1, <2>2, <2>3, Zenon DEF Exec
<1>5. \A t : Keeps(d, t) => Served(t)
  BY Zenon DEF FileRequest
<1>6. Served(OpenFile(s, disk0)) /\ Served(Read(s)) /\ Served(Seek(s))
  BY OpenFiles, CursorFiles, Zenon
<1>. HIDE HandlerStepsHold DEF HandlerSteps, Served
<1>7. /\ Served(s) /\ Served(With8(s, AL, 2)) /\ Served(SetVector(s))
      /\ Served(With16(With16(s, CX, 4608), DX, 0))
      /\ Served(With16(With8(With16(s, AX, 5), BH, 255), CX, 0))
      /\ Served(Succeeds(With8(s, DL, 0)))
      /\ Served(With16([s EXCEPT !.regs = SetSeg(s.regs, ES, 0)], BX, 0))
      /\ Served(GetVector(s)) /\ Served(CurrentDir(s))
      /\ Served(Succeeds(With16(s, AX, 32768)))
      /\ Served(Succeeds(s)) /\ Served(Fails(s)) /\ Served(Exec(s, disk0))
      /\ Served([s EXCEPT !.halted = TRUE])
  BY <1>1, <1>2, <1>3, <1>4, <1>5
<1>8. Served(Int21(s, disk0))
  BY <1>6, <1>7 DEF Int21
<1>. QED  BY <1>8 DEF Served

LEMMA ServeFiles ==
  ASSUME NEW s, Keeps(s.dos, s), NEW disk0, NEW num \in Native
  PROVE  \E e : /\ Keeps(e, Serve(num, s, disk0))
                /\ FileRequest(s.dos, e, Get16(s.regs, BX))
<1>1. \A t : Keeps(s.dos, t) => \E e : Keeps(e, t) /\ FileRequest(s.dos, e, Get16(s.regs, BX))
  BY Zenon DEF FileRequest
<1>2. CASE num = 33
  <2>1. Serve(num, s, disk0) = Int21(s, disk0)
    BY <1>2 DEF Serve
  <2>. QED  BY <2>1, Int21Files
<1>3. CASE num # 33
  <2>1. Serve(num, s, disk0) \in
          {Int10(s), Int11(s), Int12(s), Int13(s, disk0), Int15(s), Int16(s),
           Int18(s), [s EXCEPT !.halted = TRUE], Int1a(s), Int1f(s)}
    BY <1>3 DEF Serve, Native
  <2>2. Keeps(s.dos, [s EXCEPT !.halted = TRUE])
    BY FieldsKeep, Zenon
  <2>3. Keeps(s.dos, Serve(num, s, disk0))
    BY <2>1, <2>2, SystemFiles, Int13Files
  <2>. QED  BY <1>1, <2>3, Zenon
<1>. QED  BY <1>2, <1>3


-----------------------------------------------------------------------------
\* Handles.  The two kinds have ranges of their own as long as fewer than
\* VBase - RBase files are open: those of the host are below next, which has
\* gone up once for each of them, those of the disk image from VBase on, each
\* at the number of files that were open before it.

FewFiles(d) == Cardinality(DOMAIN d.files) < VBase - RBase
HandlesInRange(d) ==
  LET n == Cardinality(DOMAIN d.files)
  IN FewFiles(d) => /\ d.next \in RBase .. RBase + n
                    /\ \A h \in DOMAIN d.files :
                         h \in RBase .. d.next - 1 \/ h \in VBase .. VBase + n - 1

LEMMA FilesFinite == ASSUME NEW d, IsDos(d) PROVE IsFiniteSet(DOMAIN d.files)
<1>1. IsFiniteSet(0 .. WordSize - 1)
  <2>1. 0 \in Int /\ WordSize - 1 \in Int
    BY DEF WordSize
  <2>. QED  BY <2>1, FS_Interval
<1>. QED  BY <1>1, FS_Subset DEF IsDos, Word

\* An open adds its handle, on its data, to those there are.
LEMMA InsertFiles ==
  ASSUME NEW d, IsDos(d), NEW h, NEW data
  PROVE  /\ DOMAIN Insert(d, h, data).files = DOMAIN d.files \cup {h}
         /\ \A x \in DOMAIN d.files : x # h => Insert(d, h, data).files[x] = d.files[x]
         /\ Insert(d, h, data).next = d.next
         /\ Insert(d, h, data) = [files |-> Insert(d, h, data).files, next |-> d.next]
<1>. DEFINE f == [x \in DOMAIN d.files \cup {h} |->
                    IF x = h THEN [data |-> data, pos |-> 0] ELSE d.files[x]]
<1>1. Insert(d, h, data) = [d EXCEPT !.files = f]
  BY DEF Insert
<1>2. DOMAIN f = DOMAIN d.files \cup {h} /\ \A x \in DOMAIN d.files : x # h => f[x] = d.files[x]
  OBVIOUS
<1>. HIDE DEF f
<1>. QED  BY <1>1, <1>2 DEF IsDos

LEMMA FirstFiles == HandlesInRange(DosNew)
<1>1. DOMAIN DosNew.files = {} /\ DosNew.next = RBase
  BY DEF DosNew
<1>2. Cardinality(DOMAIN DosNew.files) = 0
  BY <1>1, FS_EmptySet
<1>. QED  BY <1>1, <1>2 DEF HandlesInRange, RBase

\* The handle an open takes is free while few files are open.
LEMMA FreeHandles ==
  ASSUME NEW d, IsDos(d), HandlesInRange(d), FewFiles(d)
  PROVE  /\ VirtualHandle(d) = VBase + Cardinality(DOMAIN d.files)
         /\ VirtualHandle(d) \notin DOMAIN d.files
         /\ d.next \notin DOMAIN d.files
         /\ Wrap16(d.next + 1) = d.next + 1
<1>. DEFINE n == Cardinality(DOMAIN d.files)
<1>1. n \in Nat /\ n < VBase - RBase
  BY FilesFinite, FS_CardinalityType DEF FewFiles
<1>2. VBase + n \in Word /\ d.next + 1 \in Word
  <2>1. WordSize \in Int /\ WordSize > 300
    BY DEF WordSize
  <2>2. d.next \in RBase .. RBase + n
    BY DEF HandlesInRange
  <2>3. \A i \in Int : 0 <= i /\ i < WordSize => i \in Word
    BY <2>1 DEF Word
  <2>. HIDE DEF n
  <2>4. /\ VBase + n \in Int /\ 0 <= VBase + n /\ VBase + n < 300
        /\ d.next + 1 \in Int /\ 0 <= d.next + 1 /\ d.next + 1 < 300
    BY <1>1, <2>2 DEF VBase, RBase
  <2>. QED  BY <2>1, <2>3, <2>4
<1>3. VirtualHandle(d) = VBase + n /\ Wrap16(d.next + 1) = d.next + 1
  BY <1>2, WrapWord DEF VirtualHandle
<1>4. VBase + n \notin DOMAIN d.files /\ d.next \notin DOMAIN d.files
  BY <1>1 DEF HandlesInRange, VBase, RBase
<1>. QED  BY <1>3, <1>4

\* What a request leaves of the open files, and of the ranges.
LEMMA RequestKeeps ==
  ASSUME NEW d, IsDos(d), HandlesInRange(d), NEW e, NEW h0, FileRequest(d, e, h0)
  PROVE  /\ HandlesInRange(e)
         /\ FewFiles(d) => \A h \in DOMAIN d.files :
              /\ h \in DOMAIN e.files
              /\ e.files[h].data = d.files[h].data
              /\ e.files[h].pos # d.files[h].pos => h = h0
<1>. DEFINE n == Cardinality(DOMAIN d.files)
            Kept(x) == \A h \in DOMAIN d.files :
                         /\ h \in DOMAIN x.files
                         /\ x.files[h].data = d.files[h].data
                         /\ x.files[h].pos # d.files[h].pos => h = h0
<1>1. n \in Nat /\ IsFiniteSet(DOMAIN d.files)
  BY FilesFinite, FS_CardinalityType
<1>2. ASSUME NEW h, NEW x, DOMAIN x.files = DOMAIN d.files \cup {h}
      PROVE  /\ h \notin DOMAIN d.files => Cardinality(DOMAIN x.files) = n + 1
             /\ Cardinality(DOMAIN x.files) >= n
             /\ Cardinality(DOMAIN x.files) \in Nat
  <2>1. Cardinality(DOMAIN d.files \cup {h}) =
          IF h \in DOMAIN d.files THEN n ELSE n + 1
    BY <1>1, FS_AddElement, Zenon
  <2>. QED  BY <1>1, <1>2, <2>1
<1>3. ASSUME NEW h, NEW data, h \notin DOMAIN d.files
      PROVE  Kept(Insert(d, h, data))
  BY <1>3, InsertFiles
<1>4. CASE e = d
  BY <1>4
<1>5. ASSUME NEW data, e = OpenVirtual(d, data)
      PROVE  HandlesInRange(e) /\ (FewFiles(d) => Kept(e))
  <2>. DEFINE v == VirtualHandle(d)
  <2>1. /\ e = Insert(d, v, data) /\ DOMAIN e.files = DOMAIN d.files \cup {v}
        /\ e.next = d.next
    BY <1>5, InsertFiles DEF OpenVirtual
  <2>. HIDE DEF v
  <2>2. FewFiles(e) => FewFiles(d)
    <3>1. Cardinality(DOMAIN e.files) >= n /\ Cardinality(DOMAIN e.files) \in Nat
      BY <1>2, <2>1
    <3>. QED  BY <1>1, <3>1 DEF FewFiles, VBase, RBase
  <2>3. FewFiles(d) => v = VBase + n /\ v \notin DOMAIN d.files
    BY FreeHandles DEF v
  <2>4. FewFiles(d) => Cardinality(DOMAIN e.files) = n + 1
    BY <1>2, <2>1, <2>3
  <2>5. ASSUME FewFiles(e)  PROVE HandlesInRange(e)
    <3>1. FewFiles(d) /\ v = VBase + n /\ Cardinality(DOMAIN e.files) = n + 1
      BY <2>2, <2>3, <2>4, <2>5
    <3>2. e.next \in RBase .. RBase + n + 1
      BY <1>1, <2>1, <3>1 DEF HandlesInRange, RBase
    <3>3. \A h \in DOMAIN e.files :
            h \in RBase .. e.next - 1 \/ h \in VBase .. VBase + n
      BY <1>1, <2>1, <3>1 DEF HandlesInRange, RBase, VBase
    <3>. QED  BY <1>1, <3>1, <3>2, <3>3 DEF HandlesInRange, RBase, VBase
  <2>6. FewFiles(d) => Kept(e)
    BY <1>3, <2>1, <2>3
  <2>. QED  BY <2>5, <2>6 DEF HandlesInRange
<1>6. ASSUME NEW path, e = OpenReal(d, path)
      PROVE  HandlesInRange(e) /\ (FewFiles(d) => Kept(e))
  <2>. DEFINE i == Insert(d, d.next, HostFiles[path])
  <2>1. /\ DOMAIN i.files = DOMAIN d.files \cup {d.next} /\ i.next = d.next
        /\ i = [files |-> i.files, next |-> i.next]
    BY InsertFiles
  <2>2. e = [i EXCEPT !.next = Wrap16(i.next + 1)]
    BY <1>6 DEF OpenReal
  <2>. HIDE DEF i
  <2>3. e.files = i.files /\ e.next = Wrap16(d.next + 1)
    BY <2>1, <2>2
  <2>4. FewFiles(e) => FewFiles(d)
    <3>1. Cardinality(DOMAIN e.files) >= n /\ Cardinality(DOMAIN e.files) \in Nat
      BY <1>2, <2>1, <2>3
    <3>. QED  BY <1>1, <3>1 DEF FewFiles, VBase, RBase
  <2>5. FewFiles(d) => d.next \notin DOMAIN d.files /\ e.next = d.next + 1
    BY <2>3, FreeHandles
  <2>6. FewFiles(d) => Cardinality(DOMAIN e.files) = n + 1
    BY <1>2, <2>1, <2>3, <2>5
  <2>7. ASSUME FewFiles(e)  PROVE HandlesInRange(e)
    <3>1. /\ FewFiles(d) /\ e.next = d.next + 1
          /\ Cardinality(DOMAIN e.files) = n + 1
      BY <2>4, <2>5, <2>6, <2>7
    <3>2. d.next \in RBase .. RBase + n
      BY <3>1 DEF HandlesInRange
    <3>3. e.next \in RBase .. RBase + n + 1
      BY <1>1, <3>1, <3>2 DEF RBase
    <3>4. \A h \in DOMAIN e.files :
            h \in RBase .. e.next - 1 \/ h \in VBase .. VBase + n
      BY <1>1, <2>1, <2>3, <3>1, <3>2 DEF HandlesInRange, RBase, VBase
    <3>. QED  BY <1>1, <3>1, <3>3, <3>4 DEF HandlesInRange, RBase, VBase
  <2>8. FewFiles(d) => Kept(e)
    <3>1. FewFiles(d) => Kept(i)
      BY <1>3, <2>5 DEF i
    <3>. QED  BY <2>3, <3>1
  <2>. QED  BY <2>7, <2>8 DEF HandlesInRange
<1>7. ASSUME NEW pos, h0 \in DOMAIN d.files, e = MoveTo(d, h0, pos)
      PROVE  HandlesInRange(e) /\ (FewFiles(d) => Kept(e))
  <2>1. /\ d = [files |-> d.files, next |-> d.next]
        /\ \A h \in DOMAIN d.files : d.files[h] \in Handle
    BY DEF IsDos
  <2>2. e.files = [d.files EXCEPT ![h0].pos = pos] /\ e.next = d.next
    BY <1>7, <2>1 DEF MoveTo
  <2>3. DOMAIN e.files = DOMAIN d.files
    BY <2>2
  <2>4. ASSUME NEW h \in DOMAIN d.files
        PROVE  /\ e.files[h].data = d.files[h].data
               /\ e.files[h].pos # d.files[h].pos => h = h0
    <3>1. d.files[h].data = [d.files[h] EXCEPT !.pos = pos].data
      BY <2>1 DEF Handle
    <3>. QED  BY <2>2, <3>1
  <2>. QED  BY <2>2, <2>3, <2>4 DEF HandlesInRange, FewFiles
<1>. QED  BY <1>4, <1>5, <1>6, <1>7 DEF FileRequest


-----------------------------------------------------------------------------
\* The steps of the runtime, as far as files go: an interrupt that is served
\* makes one request, for the handle in BX, and everything else makes none.

LEMMA FramedFiles ==
  ASSUME IsMachine(machine)
  PROVE  /\ Keeps(machine.dos, Framed)
         /\ Get16(Framed.regs, BX) = Get16(machine.regs, BX)
<1>1. Keeps(machine.dos, machine)
  BY DEF Keeps, IsMachine
<1>2. Keeps(machine.dos, PushFrame(machine))
  BY <1>1, FrameKeeps
<1>3. Keeps(machine.dos, Framed)
  BY <1>2, FieldsKeep, Zenon DEF Framed
<1>4. ASSUME NEW t, SameStack(t, t), NEW v
      PROVE  /\ SameStack(Push16(t, v), Push16(t, v))
             /\ Get16(Push16(t, v).regs, BX) = Get16(t.regs, BX)
  <2>. DEFINE sp == Wrap16(Get16(t.regs, SP) - 2)
              m == WriteU16(t.mem, Phys(GetSeg(t.regs, SS), sp), v)
              q == Set16(t.regs, SP, sp)
  <2>1. Push16(t, v) = [t EXCEPT !.regs = q, !.mem = m]
    BY DEF Push16
  <2>2. SameStack(Push16(t, v), Push16(t, v))
    BY <1>4, Push16Parts DEF SameStack
  <2>. HIDE DEF sp, m
  <2>3. 2 * BX # 2 * SP
    BY DEF BX, SP
  <2>4. Shaped(t)
    BY <1>4 DEF SameStack
  <2>5. q.w = [t.regs.w EXCEPT ![2 * SP] = sp]
    BY <2>4 DEF Shaped, Set16
  <2>. HIDE DEF q
  <2>6. [t EXCEPT !.regs = q, !.mem = m].regs = q
    BY <2>4 DEF Shaped
  <2>7. 2 * BX \in DOMAIN t.regs.w
    BY <2>4 DEF Shaped, BX
  <2>8. q.w[2 * BX] = t.regs.w[2 * BX]
    BY <2>3, <2>5, <2>7
  <2>. QED  BY <2>1, <2>2, <2>6, <2>8, Zenon DEF Get16
<1>5. /\ SameStack(PushFrame(machine), PushFrame(machine))
      /\ Get16(PushFrame(machine).regs, BX) = Get16(machine.regs, BX)
  <2>1. SameStack(machine, machine)
    BY MachineShaped
  <2>. QED  BY <1>4, <2>1, ZenonT(90) DEF PushFrame
<1>6. Get16(Framed.regs, BX) = Get16(PushFrame(machine).regs, BX)
  <2>. DEFINE t == PushFrame(machine)
              r == SetFlag(SetFlag(t.regs, IntFlag, FALSE), TrapFlag, FALSE)
  <2>1. Framed = [t EXCEPT !.regs = r]
    BY DEF Framed
  <2>2. Shaped(t)
    BY <1>5 DEF SameStack
  <2>. HIDE DEF t
  <2>3. r.w = t.regs.w
    <3>1. \A x, y : [[t.regs EXCEPT !.flags = x] EXCEPT !.flags = y].w = t.regs.w
      BY <2>2 DEF Shaped
    <3>2. \A q, i : \E x : SetFlag(q, i, FALSE) = [q EXCEPT !.flags = x]
      BY Zenon DEF SetFlag
    <3>3. PICK x : SetFlag(t.regs, IntFlag, FALSE) = [t.regs EXCEPT !.flags = x]
      BY <3>2, Zenon
    <3>4. PICK y : r = [SetFlag(t.regs, IntFlag, FALSE) EXCEPT !.flags = y]
      BY <3>2, Zenon
    <3>. HIDE DEF r
    <3>. QED  BY <3>1, <3>3, <3>4
  <2>. HIDE DEF r
  <2>4. Framed.regs = r
    BY <2>1, <2>2 DEF Shaped
  <2>. QED  BY <2>3, <2>4, Zenon DEF Get16, t
<1>. QED  BY <1>3, <1>5, <1>6

LEMMA RequestNext ==
  ASSUME TypeInv, [Next]_vars
  PROVE  FileRequest(machine.dos, machine'.dos, Get16(machine.regs, BX))
<1>. DEFINE d == machine.dos
            Request == FileRequest(d, machine'.dos, Get16(machine.regs, BX))
<1>1. IsMachine(machine) /\ Keeps(d, machine)
  BY DEF TypeInv, TypeOK, IsMachine, Keeps
<1>2. \A t : Keeps(d, t) /\ machine' = t => Request
  BY Zenon DEF FileRequest, Keeps
<1>3. CASE machine' = machine
  BY <1>1, <1>2, <1>3, Zenon
<1>4. CASE StepLimited \/ RunOp \/ FetchOpcode
  <2>1. /\ \A h : Keeps(d, [machine EXCEPT !.halted = h])
        /\ \A r, m : Keeps(d, [machine EXCEPT !.regs = r, !.mem = m])
        /\ Keeps(d, Skip(machine))
    BY <1>1, FieldsKeep, PiecesKeep, ZenonT(90)
  <2>2. \/ \E h : machine' = [machine EXCEPT !.halted = h]
        \/ \E r, m : machine' = [machine EXCEPT !.regs = r, !.mem = m]
        \/ machine' = Skip(machine)
        \/ machine' = machine
    BY <1>4 DEF StepLimited, RunOp, FetchOpcode
  <2>3. Keeps(d, machine')
    <3>1. CASE \E h : machine' = [machine EXCEPT !.halted = h]
      BY <2>1, <3>1
    <3>2. CASE \E r, m : machine' = [machine EXCEPT !.regs = r, !.mem = m]
      <4>. PICK r, m : machine' = [machine EXCEPT !.regs = r, !.mem = m]
        BY <3>2
      <4>. QED  BY <2>1
    <3>3. CASE machine' = Skip(machine) \/ machine' = machine
      BY <1>1, <2>1, <3>3
    <3>. QED  BY ZenonT(90), <2>2, <3>1, <3>2, <3>3
  <2>. QED  BY <1>2, <2>3, ZenonT(90)
<1>5. CASE Interpret \/ InterpretIn \/ InterpretOut
  <2>1. \A t, r : Outcome(t, r).machine = t
    BY DEF Outcome
  <2>2. \/ machine' = Execute(opcode, machine, prefix).machine
        \/ \E lo, hi : machine' = In(opcode, machine, lo, hi)
        \/ machine' = AfterPort(opcode, machine)
    BY <1>5, <2>1 DEF Interpret, InterpretIn, InterpretOut, Executed
  <2>3. machine'.dos = d
    BY <1>1, <2>2, ExecuteKeeps, InKeeps
  <2>. QED  BY <2>3 DEF FileRequest
<1>6. CASE HandleHaltNext
  <2>. DEFINE s == [machine EXCEPT !.halted = FALSE, !.regs = RegsNew]
  <2>1. Keeps(d, s)
    BY <1>1, FieldsKeep, Zenon
  <2>2. machine' = ExecuteBinary(s, NextFile)
    BY <1>6 DEF HandleHaltNext
  <2>. HIDE DEF s
  <2>. QED  BY <1>2, <2>1, <2>2, LoaderKeeps, Zenon
<1>7. CASE HandleNative
  <2>1. Framed.dos = d /\ Keeps(Framed.dos, Framed)
    BY <1>1, FramedFiles DEF Keeps
  <2>2. result.num \in Native /\ machine' = PopFrame(Serve(result.num, Framed, disk))
    BY <1>7 DEF HandleNative, Serving
  <2>3. PICK e : /\ Keeps(e, Serve(result.num, Framed, disk))
                 /\ FileRequest(d, e, Get16(Framed.regs, BX))
    BY <2>1, <2>2, ServeFiles
  <2>4. machine'.dos = e
    BY <2>2, <2>3, FrameKeeps DEF Keeps
  <2>. QED  BY <1>1, <2>3, <2>4, FramedFiles
<1>8. CASE HandleVector
  <2>1. Keeps(d, machine')
    BY <1>1, <1>8, FramedFiles, PiecesKeep, Zenon DEF HandleVector
  <2>. QED  BY <1>2, <2>1, Zenon
<1>9. CASE UNCHANGED vars
  BY <1>3, <1>9 DEF vars, program
<1>10. CASE \/ StepHalted \/ RunCached \/ StartBlock \/ TranslateTurn
            \/ CompileBlock \/ EmptyBlock \/ RunExit \/ RunOffEnd
            \/ InstructionPanic \/ HandleContinue \/ HandleHaltFails
            \/ HandleHaltLast \/ HandlerFails \/ Close \/ Over
  BY <1>3, <1>10
  DEF StepHalted, RunCached, StartBlock, StartAt, TranslateTurn, CompileBlock,
      EmptyBlock, RunExit, RunOffEnd, InstructionPanic, HandleContinue,
      HandleHaltFails, HandleHaltLast, HandlerFails, Close, Over, vars, program
<1>. QED
  BY <1>4, <1>5, <1>6, <1>7, <1>8, <1>9, <1>10 DEF Next, Execution

HandleInv == TypeInv /\ HandlesInRange(machine.dos)

LEMMA HandleInit == Init => HandleInv
<1>. SUFFICES ASSUME Init  PROVE HandlesInRange(machine.dos)
  BY TypeInit DEF HandleInv
<1>1. Keeps(DosNew, Blank0)
  BY DEF Keeps, Blank0
<1>2. \A b : IsBoot(b) => Keeps(DosNew, Booted(b))
  <2>1. \A f : Keeps(DosNew, ExecuteBinary(Blank0, f)) /\ Keeps(DosNew, LoadMz(Blank0, f))
    BY <1>1, LoaderKeeps, Zenon
  <2>2. \A sector : Keeps(DosNew, LoadBootSector(Blank0, sector))
    BY <1>1, LoaderKeeps, Zenon
  <2>3. \A t, v : Keeps(DosNew, t) => Keeps(DosNew, With8(t, DL, v))
    BY WithKeeps, Zenon
  <2>. QED  BY <2>1, <2>2, <2>3 DEF Booted, IsBoot
<1>3. PICK b \in Boots : machine = Booted(b)
  BY DEF Init
<1>4. machine.dos = DosNew
  BY <1>2, <1>3, ConstantsTyped DEF Keeps
<1>. QED  BY <1>4, FirstFiles

LEMMA HandleNext == HandleInv /\ [Next]_vars => HandleInv'
<1>. SUFFICES ASSUME HandleInv, [Next]_vars  PROVE HandleInv'
  OBVIOUS
<1>1. IsDos(machine.dos) /\ TypeInv'
  BY TypeNext DEF HandleInv, TypeInv, TypeOK, IsMachine
<1>2. FileRequest(machine.dos, machine'.dos, Get16(machine.regs, BX))
  BY RequestNext DEF HandleInv
<1>3. HandlesInRange(machine'.dos)
  BY <1>1, <1>2, RequestKeeps DEF HandleInv
<1>. QED  BY <1>1, <1>3 DEF HandleInv

\* An open handle keeps its data, and its cursor unless a request names it,
\* for every disk and host directory, while fewer than 95 files are open
\* (dos/mod.rs, runtime/interrupts/dos.rs).
THEOREM HandlesTheorem == Spec => OpenHandlesKept
<1>1. HandleInv /\ [Next]_vars =>
        [FewOpen => \A h \in DOMAIN machine.dos.files :
           /\ h \in DOMAIN machine'.dos.files
           /\ machine'.dos.files[h].data = machine.dos.files[h].data
           /\ machine'.dos.files[h].pos # machine.dos.files[h].pos =>
                h = Get16(machine.regs, BX)]_vars
  <2>. SUFFICES ASSUME HandleInv, [Next]_vars, FewOpen
                PROVE  \A h \in DOMAIN machine.dos.files :
                         /\ h \in DOMAIN machine'.dos.files
                         /\ machine'.dos.files[h].data = machine.dos.files[h].data
                         /\ machine'.dos.files[h].pos # machine.dos.files[h].pos =>
                              h = Get16(machine.regs, BX)
    BY Zenon
  <2>1. IsDos(machine.dos) /\ HandlesInRange(machine.dos) /\ FewFiles(machine.dos)
    BY DEF HandleInv, TypeInv, TypeOK, IsMachine, FewOpen, FewFiles
  <2>2. FileRequest(machine.dos, machine'.dos, Get16(machine.regs, BX))
    BY RequestNext DEF HandleInv
  <2>. QED  BY <2>1, <2>2, RequestKeeps
<1>. QED  BY <1>1, HandleInit, HandleNext, PTL DEF Spec, OpenHandlesKept

-----------------------------------------------------------------------------
\* The code a block was made of.

\* The programs that leave their code alone until the batch goes on: at the
\* address of a block the bytes that the longest instruction translated has
\* stay what they are, and DS does where the instruction is a store.
SourceStays(a) ==
  /\ \A i \in 0 .. 4 : CodeByte(machine'.mem, a, i) = CodeByte(machine.mem, a, i)
  /\ CodeByte(machine.mem, a, 0) = 198 =>
       GetSeg(machine'.regs, DS) = GetSeg(machine.regs, DS)
CodeStays == batch' = 0 \/ Len(queue) = 1 => \A a \in DOMAIN cache : SourceStays(a)

\* What is in code begins as t does, up to the addresses in SyncIp.
Begins(code, t) ==
  \A i \in 1 .. Len(t) : /\ i <= Len(code)
                         /\ code[i].op = t[i].op
                         /\ code[i].op # "SyncIp" => code[i] = t[i]

LEMMA BeginsTransitive ==
  ASSUME NEW s \in Seq(IrOp), NEW t \in Seq(IrOp), NEW u \in Seq(IrOp),
         Begins(s, t), Begins(t, u)
  PROVE  Begins(s, u)
<1>1. Len(s) \in Nat /\ Len(t) \in Nat /\ Len(u) \in Nat
  OBVIOUS
<1>. SUFFICES ASSUME NEW i \in 1 .. Len(u)
              PROVE  /\ i <= Len(s) /\ s[i].op = u[i].op
                     /\ s[i].op # "SyncIp" => s[i] = u[i]
  BY DEF Begins
<1>2. /\ i <= Len(t) /\ t[i].op = u[i].op
      /\ t[i].op # "SyncIp" => t[i] = u[i]
  BY DEF Begins
<1>3. i \in 1 .. Len(t)
  BY <1>1, <1>2
<1>4. /\ i <= Len(s) /\ s[i].op = t[i].op
      /\ s[i].op # "SyncIp" => s[i] = t[i]
  BY <1>3 DEF Begins
<1>. QED  BY <1>2, <1>4

LEMMA BeginsOn ==
  ASSUME NEW s \in Seq(IrOp), NEW t \in Seq(IrOp), NEW u \in Seq(IrOp),
         Begins(s, u)
  PROVE  Begins(s \o t, u)
<1>1. Len(s) \in Nat /\ Len(t) \in Nat /\ Len(u) \in Nat
  OBVIOUS
<1>2. Len(s \o t) = Len(s) + Len(t) /\ \A i \in 1 .. Len(s) : (s \o t)[i] = s[i]
  OBVIOUS
<1>. SUFFICES ASSUME NEW i \in 1 .. Len(u)
              PROVE  /\ i <= Len(s \o t) /\ (s \o t)[i].op = u[i].op
                     /\ (s \o t)[i].op # "SyncIp" => (s \o t)[i] = u[i]
  BY DEF Begins
<1>3. /\ i <= Len(s) /\ s[i].op = u[i].op
      /\ s[i].op # "SyncIp" => s[i] = u[i]
  BY DEF Begins
<1>4. (s \o t)[i] = s[i]
  BY <1>1, <1>2, <1>3
<1>. QED  BY <1>1, <1>2, <1>3, <1>4

\* The shapes of a turn: the same but for the address in its SyncIp.
LEMMA BeginsShapes ==
  /\ \A x : Begins(<<x>>, <<x>>) /\ Begins(<<>>, <<>>)
  /\ \A x, u, v : Begins(<<x, Ir("SyncIp", u, 0)>>, <<x, Ir("SyncIp", v, 0)>>)
  /\ \A x, u, v : Begins(<<Ir("SyncIp", u, 0), x>>, <<Ir("SyncIp", v, 0), x>>)
  /\ \A x, y, u, v : Begins(<<x, Ir("SyncIp", u, 0), y>>,
                            <<x, Ir("SyncIp", v, 0), y>>)
<1>1. \A u : Ir("SyncIp", u, 0).op = "SyncIp"
  BY DEF Ir
<1>2. /\ \A x : Begins(<<x>>, <<x>>) /\ Begins(<<>>, <<>>)
  BY DEF Begins
<1>3. \A x, y, z : (y.op = "SyncIp" /\ z.op = "SyncIp") =>
                     Begins(<<x, y>>, <<x, z>>) /\ Begins(<<y, x>>, <<z, x>>)
  BY DEF Begins
<1>4. \A x, y, z, w : (y.op = "SyncIp" /\ z.op = "SyncIp") =>
                        Begins(<<x, y, w>>, <<x, z, w>>)
  BY DEF Begins
<1>5. /\ \A x, u, v : Begins(<<x, Ir("SyncIp", u, 0)>>, <<x, Ir("SyncIp", v, 0)>>)
      /\ \A x, u, v : Begins(<<Ir("SyncIp", u, 0), x>>, <<Ir("SyncIp", v, 0), x>>)
  <2>. SUFFICES ASSUME NEW x, NEW u, NEW v
                PROVE  LET y == Ir("SyncIp", u, 0)
                           z == Ir("SyncIp", v, 0)
                       IN Begins(<<x, y>>, <<x, z>>) /\ Begins(<<y, x>>, <<z, x>>)
    BY Zenon
  <2>1. PICK y, z : /\ y = Ir("SyncIp", u, 0) /\ z = Ir("SyncIp", v, 0)
                    /\ y.op = "SyncIp" /\ z.op = "SyncIp"
    BY <1>1, Zenon
  <2>2. Begins(<<x, y>>, <<x, z>>) /\ Begins(<<y, x>>, <<z, x>>)
    BY <1>3, <2>1, Zenon
  <2>. QED  BY <2>1, <2>2, Zenon
<1>6. \A x, y, u, v : Begins(<<x, Ir("SyncIp", u, 0), y>>,
                             <<x, Ir("SyncIp", v, 0), y>>)
  BY <1>1, <1>4
<1>. QED  BY <1>2, <1>5, <1>6

\* The translator reads at most five bytes of an instruction, and DS for a
\* store: with the same ones at one address it makes the same operations, but
\* for the IP in SyncIp, whatever segment the address was reached through.
LEMMA TurnSource ==
  ASSUME NEW a \in Addr, NEW m, NEW r, NEW ip, NEW n, NEW q, NEW jp,
         Phys(GetSeg(r, CS), ip) = a, Phys(GetSeg(q, CS), jp) = a,
         \A i \in 0 .. 4 : CodeByte(m, a, i) = CodeByte(n, a, i),
         CodeByte(m, a, 0) = 198 => GetSeg(r, DS) = GetSeg(q, DS)
  PROVE  Begins(Translate(m, r, ip).ops, Translate(n, q, jp).ops)
<1>1. \A i \in 0 .. 3 : CodeWord(m, a, i) = CodeWord(n, a, i)
  <2>. TAKE i \in 0 .. 3
  <2>1. a + i \in Int /\ i + 1 \in 0 .. 4 /\ i \in 0 .. 4
    BY AddrInt
  <2>2. (((a + i) % MemSize) + 1) % MemSize = (a + (i + 1)) % MemSize
    <3>1. (a + i) + 1 = a + (i + 1)
      BY AddrInt
    <3>. QED  BY <2>1, <3>1, MemNext
  <2>3. \A x : CodeWord(x, a, i) = CodeByte(x, a, i) + 256 * CodeByte(x, a, i + 1)
    BY <2>2, Zenon DEF CodeWord, CodeByte, ReadU16
  <2>. QED  BY <2>1, <2>3
<1>2. /\ CodeByte(m, a, 0) = CodeByte(n, a, 0)
      /\ CodeByte(m, a, 1) = CodeByte(n, a, 1)
      /\ CodeByte(m, a, 4) = CodeByte(n, a, 4)
      /\ CodeWord(m, a, 1) = CodeWord(n, a, 1)
      /\ CodeWord(m, a, 2) = CodeWord(n, a, 2)
  BY <1>1
<1>. DEFINE opcode0 == CodeByte(m, a, 0)
            s == Translate(m, r, ip).ops
            t == Translate(n, q, jp).ops
<1>3. \A x, i, z : Straight(x, i, z).ops = <<x, Ir("SyncIp", Wrap16(i + z), 0)>>
                      /\ Turn(x, z).ops = x
  BY DEF Straight, Turn
<1>4. \A x, i, j, z : Begins(Straight(x, i, z).ops, Straight(x, j, z).ops)
  <2>. TAKE x, i, j, z
  <2>1. PICK u, v : /\ Straight(x, i, z).ops = <<x, Ir("SyncIp", u, 0)>>
                    /\ Straight(x, j, z).ops = <<x, Ir("SyncIp", v, 0)>>
    BY <1>3
  <2>. QED  BY <2>1, BeginsShapes
<1>5. CASE opcode0 \in 184 .. 191
  <2>1. /\ s = Straight(Ir("MovRegImm", opcode0 % 8, CodeWord(m, a, 1)), ip, 3).ops
        /\ t = Straight(Ir("MovRegImm", opcode0 % 8, CodeWord(m, a, 1)), jp, 3).ops
    BY <1>2, <1>5 DEF Translate
  <2>. QED  BY <1>4, <2>1
<1>6. CASE opcode0 = 198
  <2>1. s = StoreTurn(m, r, a, ip).ops /\ t = StoreTurn(n, q, a, jp).ops
    BY <1>2, <1>6 DEF Translate
  <2>. DEFINE form == CodeByte(m, a, 1) \div 64 = 0 /\ CodeByte(m, a, 1) % 8 = 6
              store == Ir("MovMemImm8", Phys(GetSeg(r, DS), CodeWord(m, a, 2)),
                          CodeByte(m, a, 4))
  <2>2. /\ form => s = Straight(store, ip, 5).ops /\ t = Straight(store, jp, 5).ops
        /\ ~form => s = <<>> /\ t = <<>>
    BY <1>2, <1>3, <1>6, <2>1 DEF StoreTurn
  <2>. HIDE DEF form, store
  <2>. QED  BY <1>4, <2>2, BeginsShapes
<1>7. CASE opcode0 = 5
  <2>1. /\ s = Straight(Ir("AddRegImm", AX, CodeWord(m, a, 1)), ip, 3).ops
        /\ t = Straight(Ir("AddRegImm", AX, CodeWord(m, a, 1)), jp, 3).ops
    BY <1>2, <1>7 DEF Translate
  <2>. QED  BY <1>4, <2>1
<1>8. CASE opcode0 = 230
  <2>1. /\ s = Straight(Ir("OutImm8", CodeByte(m, a, 1), 0), ip, 2).ops
        /\ t = Straight(Ir("OutImm8", CodeByte(m, a, 1), 0), jp, 2).ops
    BY <1>2, <1>8 DEF Translate
  <2>. QED  BY <1>4, <2>1
<1>9. CASE opcode0 = 235
  <2>1. \E x, y, u, v : /\ s = <<x, Ir("SyncIp", u, 0), y>>
                        /\ t = <<x, Ir("SyncIp", v, 0), y>>
    <3>. DEFINE x == Ir("JmpRelative", CodeByte(m, a, 1), 0)
                y == Ir("Exit", ExitContinue, 0)
                b == SignExtend(CodeByte(m, a, 1))
    <3>1. /\ s = <<x, Ir("SyncIp", Wrap16(ip + 2 + b), 0), y>>
          /\ t = <<x, Ir("SyncIp", Wrap16(jp + 2 + b), 0), y>>
      BY <1>2, <1>3, <1>9 DEF Translate
    <3>. HIDE DEF x, y, b
    <3>. QED  BY <3>1
  <2>. QED  BY <2>1, BeginsShapes
<1>10. CASE opcode0 = 205
  <2>1. \E x, u, v : s = <<Ir("SyncIp", u, 0), x>> /\ t = <<Ir("SyncIp", v, 0), x>>
    <3>. DEFINE x == Ir("Exit", ExitInt + CodeByte(m, a, 1), 0)
    <3>1. /\ s = <<Ir("SyncIp", Wrap16(ip + 2), 0), x>>
          /\ t = <<Ir("SyncIp", Wrap16(jp + 2), 0), x>>
      BY <1>2, <1>3, <1>10 DEF Translate
    <3>. HIDE DEF x
    <3>. QED  BY <3>1
  <2>. QED  BY <2>1, BeginsShapes
<1>11. CASE opcode0 \notin (184 .. 191) \cup {198, 5, 230, 235, 205}
  <2>1. \E x : s = <<x>> /\ t = <<x>>
    <3>1. CASE opcode0 = 244
      BY <1>2, <1>3, <1>11, <3>1 DEF Translate
    <3>2. CASE opcode0 # 244
      BY <1>2, <1>3, <1>11, <3>2 DEF Translate
    <3>. QED  BY <3>1, <3>2
  <2>. QED  BY <2>1, BeginsShapes
<1>. QED  BY <1>5, <1>6, <1>7, <1>8, <1>9, <1>10, <1>11

\* RunsCurrentCode is about a block at the moment it runs.  The invariant is
\* about every block there is, and about the one being made once its first
\* turn is done: each begins as what the translator would make of the bytes at
\* its address, seen from a segment chosen for it.
FirstAt(t, a) == Translate(t.mem, SetSeg(t.regs, CS, a \div 16), a % 16).ops

CodeInv ==
  /\ TypeInv /\ RunsBlockAtIp
  /\ batch = 0 \/ Len(queue) = 1 =>
       \A a \in DOMAIN cache : Begins(cache[a], FirstAt(machine, a))
  /\ pc = "translate" /\ turns = 0 => ops = <<>> /\ cur = machine.regs.ip
  /\ pc = "compile" \/ (pc = "translate" /\ turns # 0) =>
       Begins(ops, FirstAt(machine, key))

LEMMA FirstPlace ==
  ASSUME NEW t, IsMachine(t), NEW a \in Addr
  PROVE  LET r == SetSeg(t.regs, CS, a \div 16)
         IN /\ r \in Regs /\ a % 16 \in Addr
            /\ Phys(GetSeg(r, CS), a % 16) = a
            /\ GetSeg(r, DS) = GetSeg(t.regs, DS)
<1>1. t.regs \in Regs /\ CS \in SegReg /\ DS \in SegReg \ {CS}
  BY DEF IsMachine, CS, DS, SegReg
<1>2. a \in Nat /\ a < MemSize
  BY AddrRange
<1>3. a \div 16 \in Word
  <2>1. a < 1048576
    BY <1>2 DEF MemSize
  <2>2. a \div 16 \in Int /\ 0 <= a \div 16 /\ a \div 16 <= 65535
    BY <1>2, <2>1
  <2>. QED  BY <2>2, WordRange
<1>4. a % 16 \in Addr
  BY <1>2, AddrRange, MemSizeNat
<1>5. Phys(a \div 16, a % 16) = a
  <2>1. PICK q, l : q = a \div 16 /\ l = a % 16 /\ q * 16 + l = a
    BY <1>2
  <2>2. PICK n \in Nat \ {0} : n = MemSize
    BY MemSizeNat
  <2>3. a % n = a
    BY <1>2, <2>2, SmallMod
  <2>. QED  BY <2>1, <2>2, <2>3, Zenon DEF Phys
<1>. QED  BY <1>1, <1>3, <1>4, <1>5, SetSegRegs

LEMMA TurnOps ==
  ASSUME NEW t, IsMachine(t), NEW r \in Regs, NEW ip \in Addr
  PROVE  Translate(t.mem, r, ip).ops \in Seq(IrOp)
<1>1. IsMem(t.mem)
  BY DEF IsMachine
<1>. QED  BY <1>1, TurnShape DEF StraightTurn, LastTurn

LEMMA FirstTyped ==
  ASSUME NEW t, IsMachine(t), NEW a \in Addr
  PROVE  FirstAt(t, a) \in Seq(IrOp)
  BY FirstPlace, TurnOps DEF FirstAt

\* From any CS:IP that names it, an address is translated alike.
LEMMA FirstSame ==
  ASSUME NEW t, IsMachine(t), NEW ip \in Addr, NEW a,
         a = Phys(GetSeg(t.regs, CS), ip)
  PROVE  /\ a \in Addr
         /\ Translate(t.mem, t.regs, ip).ops \in Seq(IrOp)
         /\ Begins(Translate(t.mem, t.regs, ip).ops, FirstAt(t, a))
         /\ Begins(FirstAt(t, a), Translate(t.mem, t.regs, ip).ops)
<1>1. t.regs \in Regs /\ CS \in SegReg
  BY DEF IsMachine, CS, SegReg
<1>2. a \in Addr
  BY <1>1, SegPhys
<1>. DEFINE r == SetSeg(t.regs, CS, a \div 16)
<1>3. Phys(GetSeg(r, CS), a % 16) = a /\ GetSeg(r, DS) = GetSeg(t.regs, DS)
  BY <1>2, FirstPlace
<1>4. FirstAt(t, a) = Translate(t.mem, r, a % 16).ops
  BY DEF FirstAt
<1>. HIDE DEF r
<1>5. /\ Begins(Translate(t.mem, t.regs, ip).ops, Translate(t.mem, r, a % 16).ops)
      /\ Begins(Translate(t.mem, r, a % 16).ops, Translate(t.mem, t.regs, ip).ops)
  BY <1>2, <1>3, TurnSource
<1>. QED  BY <1>1, <1>2, <1>4, <1>5, TurnOps

\* While its source stays, an address is translated as before.
LEMMA FirstStays ==
  ASSUME IsMachine(machine), IsMachine(machine'), NEW a \in Addr, SourceStays(a)
  PROVE  Begins(FirstAt(machine, a), FirstAt(machine', a))
<1>. DEFINE r == SetSeg(machine.regs, CS, a \div 16)
            q == SetSeg(machine'.regs, CS, a \div 16)
<1>1. /\ Phys(GetSeg(r, CS), a % 16) = a /\ GetSeg(r, DS) = GetSeg(machine.regs, DS)
      /\ Phys(GetSeg(q, CS), a % 16) = a /\ GetSeg(q, DS) = GetSeg(machine'.regs, DS)
  BY FirstPlace
<1>2. /\ FirstAt(machine, a) = Translate(machine.mem, r, a % 16).ops
      /\ FirstAt(machine', a) = Translate(machine'.mem, q, a % 16).ops
  BY DEF FirstAt
<1>. HIDE DEF r, q
<1>3. /\ \A i \in 0 .. 4 : CodeByte(machine.mem, a, i) = CodeByte(machine'.mem, a, i)
      /\ CodeByte(machine.mem, a, 0) = 198 => GetSeg(r, DS) = GetSeg(q, DS)
  BY <1>1 DEF SourceStays
<1>. QED  BY <1>1, <1>2, <1>3, TurnSource

LEMMA BatchGoesOn ==
  ASSUME TypeInv, [Next]_vars
  PROVE  queue' = queue /\ batch' \in {batch, batch + 1}
<1>1. CASE UNCHANGED vars
  BY <1>1 DEF vars, program, boot
<1>2. CASE StepHalted \/ StepLimited \/ RunCached \/ StartBlock
           \/ TranslateTurn \/ CompileBlock \/ EmptyBlock \/ RunOp \/ RunExit
           \/ RunOffEnd \/ FetchOpcode \/ InstructionPanic \/ Close \/ Over
  BY <1>2
  DEF StepHalted, StepLimited, RunCached, StartBlock, StartAt, TranslateTurn,
      CompileBlock, EmptyBlock, RunOp, RunExit, RunOffEnd, FetchOpcode,
      InstructionPanic, Close, Over, vars, program, boot
<1>3. CASE Interpret \/ InterpretIn \/ InterpretOut
  BY <1>3 DEF Interpret, InterpretIn, InterpretOut, Executed, boot
<1>4. CASE HandleContinue \/ HandleHaltNext \/ HandleHaltFails
           \/ HandleHaltLast \/ HandleNative \/ HandleVector \/ HandlerFails
  BY <1>4 DEF HandleContinue, HandleHaltNext, HandleHaltFails, HandleHaltLast,
     HandleNative, HandleVector, HandlerFails, program, boot
<1>. QED
  BY <1>1, <1>2, <1>3, <1>4 DEF Next, Execution

\* Where the cache and the translation are: the steps that make a block leave
\* the machine alone, and every other step leaves the cache alone and does not
\* translate.
LEMMA CacheSteps ==
  ASSUME [Next]_vars
  PROVE  \/ UNCHANGED vars
         \/ StartBlock \/ TranslateTurn \/ CompileBlock
         \/ cache' = cache /\ pc' \notin {"translate", "compile"}
<1>1. CASE StepHalted \/ StepLimited \/ RunCached \/ EmptyBlock
           \/ RunOp \/ RunExit \/ RunOffEnd
  BY <1>1
  DEF StepHalted, StepLimited, RunCached, Call, EmptyBlock, RunOp, RunExit,
      RunOffEnd, AfterBlock
<1>2. CASE FetchOpcode \/ Interpret \/ InterpretIn \/ InterpretOut
           \/ InstructionPanic \/ Close
  BY <1>2
  DEF FetchOpcode, Interpret, InterpretIn, InterpretOut, Executed,
      InstructionPanic, Close
<1>3. CASE HandleContinue \/ HandleHaltNext \/ HandleHaltFails
           \/ HandleHaltLast \/ HandleNative \/ HandleVector \/ HandlerFails
  BY <1>3
  DEF HandleContinue, HandleHaltNext, HandleHaltFails, HandleHaltLast,
      HandleNative, HandleVector, HandlerFails
<1>. QED
  BY <1>1, <1>2, <1>3 DEF Next, Execution, Over

LEMMA CodeNext == CodeInv /\ [Next]_vars /\ [CodeStays]_vars => CodeInv'
<1>. SUFFICES ASSUME CodeInv, [Next]_vars, [CodeStays]_vars  PROVE CodeInv'
  OBVIOUS
<1>1. TypeInv /\ TypeInv' /\ RunsBlockAtIp'
  BY TypeNext, AtIpNext DEF CodeInv
<1>2. /\ IsMachine(machine) /\ IsMachine(machine')
      /\ DOMAIN cache \subseteq Addr /\ cache \in [DOMAIN cache -> Seq(IrOp)]
      /\ key \in Addr /\ ops \in Seq(IrOp) /\ turns \in Nat /\ cur \in Addr
      /\ machine.regs.ip \in Addr
  <2>1. \A t : IsMachine(t) => t.regs.ip \in Addr
    BY DEF IsMachine, Regs
  <2>2. IsMachine(machine) /\ IsMachine(machine')
    BY <1>1 DEF TypeInv, TypeOK
  <2>3. turns \in Nat
    BY <1>1, ConstantsTyped DEF TypeInv, TypeOK
  <2>. QED  BY <1>1, <2>1, <2>2, <2>3 DEF TypeInv, TypeOK
<1>3. batch' = 0 \/ Len(queue') = 1 => batch = 0 \/ Len(queue) = 1
  <2>1. queue' = queue /\ batch' \in {batch, batch + 1} /\ batch \in Nat
    BY <1>1, BatchGoesOn DEF TypeInv, TypeOK
  <2>. QED  BY <2>1
<1>. DEFINE Cached(c, t) == \A a \in DOMAIN c : Begins(c[a], FirstAt(t, a))
            Made == /\ pc' = "translate" /\ turns' = 0 =>
                         ops' = <<>> /\ cur' = machine'.regs.ip
                    /\ pc' = "compile" \/ (pc' = "translate" /\ turns' # 0) =>
                         Begins(ops', FirstAt(machine', key'))
<1>4. ASSUME batch' = 0 \/ Len(queue') = 1 => Cached(cache', machine'), Made
      PROVE  CodeInv'
  BY <1>1, <1>4 DEF CodeInv
<1>5. CASE UNCHANGED vars
  <2>1. /\ UNCHANGED <<machine, batch, queue, cache, pc, turns, ops, cur, key>>
    BY <1>5 DEF vars, program, boot, translation
  <2>. QED  BY <1>4, <2>1 DEF CodeInv
<1>6. CASE StartBlock
  <2>1. /\ machine' = machine /\ cache' = cache /\ pc' = "translate"
        /\ turns' = 0 /\ ops' = <<>> /\ cur' = machine.regs.ip
    BY <1>6 DEF StartBlock, StartAt, program
  <2>. QED  BY <1>3, <1>4, <2>1 DEF CodeInv
<1>7. CASE TranslateTurn
  <2>. DEFINE t == Translate(machine.mem, machine.regs, cur)
  <2>1. /\ machine' = machine /\ cache' = cache /\ pc = "translate" /\ key' = key
        /\ turns' = turns + 1 /\ ops' = ops \o t.ops
    BY <1>7 DEF TranslateTurn, program
  <2>2. t.ops \in Seq(IrOp)
    BY <1>2, TurnOps DEF IsMachine
  <2>3. key = CodeAddr
    BY <2>1 DEF CodeInv, RunsBlockAtIp
  <2>. HIDE DEF t
  <2>4. Begins(ops', FirstAt(machine, key))
    <3>1. CASE turns = 0
      <4>1. ops = <<>> /\ cur = machine.regs.ip
        BY <2>1, <3>1 DEF CodeInv
      <4>2. ops' = t.ops
        BY <2>1, <2>2, <4>1
      <4>3. Begins(t.ops, FirstAt(machine, key))
        BY <1>2, <2>3, <4>1, FirstSame DEF t, CodeAddr
      <4>. QED  BY <4>2, <4>3
    <3>2. CASE turns # 0
      <4>1. Begins(ops, FirstAt(machine, key))
        BY <2>1, <3>2 DEF CodeInv
      <4>. QED  BY <1>2, <2>1, <2>2, <4>1, FirstTyped, BeginsOn
    <3>. QED  BY <3>1, <3>2
  <2>5. turns' # 0
    BY <1>2, <2>1
  <2>. QED  BY <1>3, <1>4, <2>1, <2>4, <2>5 DEF CodeInv
<1>8. CASE CompileBlock
  <2>1. /\ machine' = machine /\ pc = "compile" /\ pc' = "run"
        /\ cache' = [a \in DOMAIN cache \cup {key} |->
                       IF a = key THEN ops ELSE cache[a]]
    BY <1>8 DEF CompileBlock, program
  <2>2. Begins(ops, FirstAt(machine, key))
    BY <2>1 DEF CodeInv
  <2>. QED  BY <1>3, <1>4, <2>1, <2>2 DEF CodeInv
<1>9. CASE ~(UNCHANGED vars) /\ cache' = cache /\ pc' \notin {"translate", "compile"}
  <2>1. CodeStays
    BY <1>9
  <2>2. ASSUME batch' = 0 \/ Len(queue') = 1, NEW a \in DOMAIN cache
        PROVE  Begins(cache[a], FirstAt(machine', a))
    <3>1. batch' = 0 \/ Len(queue) = 1
      BY <1>1, <2>2, BatchGoesOn
    <3>2. SourceStays(a) /\ a \in Addr /\ cache[a] \in Seq(IrOp)
      BY <1>2, <2>1, <3>1 DEF CodeStays
    <3>3. Begins(cache[a], FirstAt(machine, a))
      BY <1>3, <2>2 DEF CodeInv
    <3>4. Begins(FirstAt(machine, a), FirstAt(machine', a))
      BY <1>2, <3>2, FirstStays
    <3>. QED  BY <1>2, <3>2, <3>3, <3>4, FirstTyped, BeginsTransitive
  <2>. QED  BY <1>4, <1>9, <2>2
<1>. QED  BY <1>5, <1>6, <1>7, <1>8, <1>9, CacheSteps

\* A block runs what is at CS:IP, until the batch goes on to its second
\* program, for every program that leaves the code of its blocks alone, and DS
\* where a block begins with a store: nothing else makes the cache of
\* cpu/jit.rs stale, not the segment a block is reached through, nor its being
\* made in several turns.
THEOREM CodeTheorem == Spec /\ [][CodeStays]_vars => []RunsLoadedCode
<1>1. Init => CodeInv
  <2>. SUFFICES ASSUME Init  PROVE CodeInv
    OBVIOUS
  <2>1. TypeInv
    BY TypeInit
  <2>2. pc = "idle" /\ DOMAIN cache = {}
    BY DEF Init
  <2>. QED  BY <2>1, <2>2 DEF CodeInv, RunsBlockAtIp
<1>2. CodeInv => RunsLoadedCode
  <2>. SUFFICES ASSUME CodeInv, batch = 0 \/ Len(queue) = 1, pc = "run"
                PROVE  Begins(Block, Translate(machine.mem, machine.regs,
                                               machine.regs.ip).ops)
    BY DEF RunsLoadedCode, RunsCurrentCode, Begins
  <2>1. /\ IsMachine(machine) /\ machine.regs.ip \in Addr /\ key = CodeAddr
        /\ key \in DOMAIN cache /\ cache[key] \in Seq(IrOp) /\ Block = cache[key]
    BY DEF CodeInv, TypeInv, TypeOK, IsMachine, Regs, RunsBlockAtIp,
       RunsCachedBlock, Block
  <2>2. Begins(cache[key], FirstAt(machine, key))
    BY <2>1 DEF CodeInv
  <2>3. /\ key \in Addr
        /\ Translate(machine.mem, machine.regs, machine.regs.ip).ops \in Seq(IrOp)
        /\ Begins(FirstAt(machine, key),
                  Translate(machine.mem, machine.regs, machine.regs.ip).ops)
    BY <2>1, FirstSame DEF CodeAddr
  <2>. QED  BY <2>1, <2>2, <2>3, FirstTyped, BeginsTransitive
<1>. QED  BY <1>1, CodeNext, <1>2, PTL DEF Spec

-----------------------------------------------------------------------------
\* A call of step comes to an end.  Translation, generated code and the handling
\* of the result do so by what each action does; the prefix loop of execute_one
\* goes through the code segment as far as the first byte that is no prefix.

LEMMA RunExists ==
  ASSUME ~OnlyPrefixes
  PROVE  PrefixesAhead \in Word /\ IsRun(PrefixesAhead)
<1>. DEFINE T == {n \in Word : Ahead(n) \notin Prefixes}
            R == {ss \in Nat \X Nat : ss[1] < ss[2]}
<1>1. T \subseteq Nat /\ T # {}
  BY WordInt DEF OnlyPrefixes
<1>2. PICK x \in T : \A y \in T : <<y, x>> \notin R
  <2>1. IsWellFoundedOn(R, Nat)
    BY NatLessThanWellFounded DEF OpToRel
  <2>. HIDE DEF R, T
  <2>. QED  BY <1>1, <2>1, WFMin
<1>3. ASSUME NEW m \in 0 .. x - 1  PROVE Ahead(m) \in Prefixes
  <2>1. x \in Nat /\ m \in Nat /\ m < x /\ m \in Word
    BY <1>1, WordRange
  <2>2. <<m, x>> \in R
    BY <2>1
  <2>. QED  BY <1>2, <2>1, <2>2
<1>4. x \in Word /\ IsRun(x)
  BY <1>3 DEF IsRun
<1>. QED  BY <1>4 DEF PrefixesAhead

\* A prefix fetched is one byte less to go.
LEMMA FewerPrefixes ==
  ASSUME TypeInv, FetchOpcode, pc = "decode", machine.regs.ip \in Word,
         ~OnlyPrefixes
  PROVE  Stage' = Stage /\ Left' \in 0 .. Left - 1
<1>1. /\ opcode \in Prefixes /\ opcode' = Imm8(machine)
      /\ machine' = Skip(machine) /\ pc' = "decode"
  BY DEF FetchOpcode
<1>2. PICK p \in Word : p = PrefixesAhead /\ IsRun(p)
  BY RunExists
<1>3. p \in Nat /\ Left = p + 1
  BY <1>1, <1>2, WordInt DEF Left
<1>4. opcode' = Ahead(0)
  <2>1. PICK ip \in Word : ip = machine.regs.ip
    OBVIOUS
  <2>2. Wrap16(machine.regs.ip + 0) = machine.regs.ip
    <3>1. ip \in Nat /\ ip + 0 = ip
      BY WordInt
    <3>. QED  BY <2>1, <3>1, WrapWord
  <2>. QED  BY <1>1, <2>2 DEF Imm8, Ahead
<1>5. ASSUME NEW n \in Nat  PROVE Ahead(n)' = Ahead(n + 1)
  <2>. DEFINE ip == machine.regs.ip
  <2>1. IsMachine(machine) /\ ip \in Int
    BY WordInt DEF TypeInv, TypeOK
  <2>2. /\ machine'.mem = machine.mem /\ machine'.regs = NextIp(machine)
        /\ NextIp(machine).ip = Wrap16(ip + 1)
        /\ GetSeg(NextIp(machine), CS) = GetSeg(machine.regs, CS)
    BY <1>1, <2>1 DEF Skip, NextIp, SetIp, GetSeg, IsMachine, Regs
  <2>3. Wrap16(Wrap16(ip + 1) + n) = Wrap16(ip + (n + 1))
    <3>1. (ip + 1) + n = ip + (n + 1)
      BY <2>1
    <3>2. (((ip + 1) % WordSize) + n) % WordSize = ((ip + 1) + n) % WordSize
      <4>1. ip + 1 \in Int /\ n \in Int /\ WordSize \in Nat \ {0}
        BY <2>1, WordSizeNat
      <4>. QED  BY <4>1, ModAdd
    <3>. QED  BY <3>1, <3>2 DEF Wrap16
  <2>. QED  BY <2>2, <2>3 DEF Ahead
<1>6. CASE opcode' \notin Prefixes
  <2>1. Left' = 0
    BY <1>1, <1>6 DEF Left
  <2>. QED  BY <1>1, <1>3, <2>1 DEF Stage
<1>7. CASE opcode' \in Prefixes
  <2>1. p # 0
    BY <1>2, <1>4, <1>7 DEF IsRun
  <2>2. PICK q \in Nat : p = q + 1
    <3>1. p - 1 \in Nat /\ p = (p - 1) + 1
      BY <1>3, <2>1
    <3>. QED  BY <3>1
  <2>3. q \in Word
    BY <2>2, WordRange
  <2>4. IsRun(q)'
    <3>1. (Ahead(q) \notin Prefixes)'
      BY <1>2, <1>5, <2>2 DEF IsRun
    <3>2. ASSUME NEW m \in 0 .. q - 1  PROVE (Ahead(m) \in Prefixes)'
      <4>1. m \in Nat /\ m + 1 \in 0 .. p - 1
        BY <2>2
      <4>. QED  BY <1>2, <1>5, <4>1 DEF IsRun
    <3>. QED  BY <3>1, <3>2 DEF IsRun
  <2>5. ASSUME NEW n \in Word, IsRun(n)'  PROVE n = q
    <3>1. n \in Nat
      BY WordInt
    <3>2. ~(q < n)
      <4>1. q < n => q \in 0 .. n - 1
        BY <2>2, <3>1
      <4>. QED  BY <2>4, <2>5, <4>1 DEF IsRun
    <3>3. ~(n < q)
      <4>1. n < q => n \in 0 .. q - 1
        BY <2>2, <3>1
      <4>. QED  BY <2>4, <2>5, <4>1 DEF IsRun
    <3>. QED  BY <2>2, <3>1, <3>2, <3>3
  <2>6. PrefixesAhead' = q
    BY <2>3, <2>4, <2>5 DEF PrefixesAhead
  <2>7. Left' = q + 1
    BY <1>1, <1>7, <2>6 DEF Left
  <2>. QED  BY <1>1, <1>3, <2>2, <2>7 DEF Stage
<1>. QED  BY <1>6, <1>7

\* An opcode is fetched at a byte of the segment, and IP is left in it.
FetchedIp == pc = "decode" => machine.regs.ip \in Word

LEMMA FetchKeepsIp ==
  ASSUME TypeInv, FetchedIp, [Next]_vars
  PROVE  FetchedIp'
<1>1. CASE UNCHANGED vars
  BY <1>1 DEF FetchedIp, vars, program
<1>2. CASE FetchOpcode
  <2>1. machine' = Skip(machine) /\ IsMachine(machine)
    BY <1>2 DEF FetchOpcode, TypeInv, TypeOK
  <2>2. machine.regs.ip \in Addr /\ machine'.regs = NextIp(machine)
    BY <2>1, IpAddr, WithRegs DEF Skip
  <2>3. NextIp(machine).ip = Wrap16(machine.regs.ip + 1)
    BY <2>1, Parts DEF NextIp, SetIp, Regs
  <2>. QED  BY <2>2, <2>3, MoveIp DEF FetchedIp
<1>3. CASE Next /\ ~FetchOpcode
  <2>1. pc' # "decode" \/ UNCHANGED vars
    BY <1>3
    DEF Next, Execution, Call, StepHalted, StepLimited, RunCached, StartBlock,
        StartAt, TranslateTurn, CompileBlock, EmptyBlock, RunOp, RunExit, RunOffEnd,
        AfterBlock, Interpret, InterpretIn, InterpretOut, InstructionPanic,
        Executed, HandleContinue, HandleHaltNext, HandleHaltFails,
        HandleHaltLast, HandleNative, HandleVector, HandlerFails, Close, Over
  <2>. QED  BY <1>1, <2>1 DEF FetchedIp
<1>. QED  BY <1>1, <1>2, <1>3

LEMMA StepsAdvance ==
  ASSUME TypeInv, FetchedIp, Next, ~Over
  PROVE  \/ Stage' < Stage
         \/ Stage' = Stage /\ Left' \in 0 .. Left - 1
         \/ pc = "idle" /\ calls' = calls + 1
         \/ pc = "decode" /\ opcode \in Prefixes /\ OnlyPrefixes
<1>1. CASE StepHalted \/ StepLimited \/ RunCached \/ StartBlock
  <2>1. pc = "idle" /\ calls' = calls + 1
    BY <1>1 DEF StepHalted, StepLimited, RunCached, StartBlock, Call
  <2>. QED  BY <2>1
<1>2. CASE TranslateTurn
  <2>1. pc = "translate" /\ turns' = turns + 1
    BY <1>2 DEF TranslateTurn
  <2>2. CASE pc' = "compile"
    <3>1. Stage' < Stage
      BY <2>1, <2>2 DEF Stage, PartsLeft
    <3>. QED  BY <3>1
  <2>3. CASE pc' # "compile"
    <3>1. pc' = "translate" /\ turns' # BlockLimit
      BY <1>2, <2>3 DEF TranslateTurn
    <3>2. turns \in Nat /\ BlockLimit \in Nat /\ turns < BlockLimit
      BY <2>1, ConstantsTyped DEF TypeInv, TypeOK
    <3>3. Left = BlockLimit - turns /\ Left' = BlockLimit - turns'
      BY <2>1, <3>1 DEF Left
    <3>4. Left' \in 0 .. Left - 1
      BY <2>1, <3>2, <3>3
    <3>. QED  BY <2>1, <3>1, <3>4 DEF Stage
  <2>. QED  BY <2>2, <2>3
<1>3. CASE RunOp
  <2>1. /\ pc = "run" /\ pc' = "run" /\ at' = at + 1 /\ at <= Len(Block)
        /\ Block' = Block
    BY <1>3 DEF RunOp, Block, translation
  <2>2. at \in Nat /\ Len(Block) \in Nat
    <3>1. Block \in Seq(IrOp) /\ at \in Nat
      BY <2>1 DEF TypeInv, TypeOK, RunsCachedBlock, Block
    <3>. QED  BY <3>1, LenProperties
  <2>3. Left = Len(Block) + 1 - at /\ Left' = Len(Block) + 1 - at'
    BY <2>1 DEF Left
  <2>4. Left' \in 0 .. Left - 1
    BY <2>1, <2>2, <2>3
  <2>. QED  BY <2>1, <2>4 DEF Stage
<1>4. CASE FetchOpcode
  <2>1. CASE pc = "fetch"
    <3>1. pc' = "decode"
      BY <1>4 DEF FetchOpcode
    <3>2. Stage' < Stage
      BY <2>1, <3>1 DEF Stage, PartsLeft
    <3>. QED  BY <3>2
  <2>2. CASE pc # "fetch"
    <3>1. pc = "decode" /\ opcode \in Prefixes
      BY <1>4, <2>2 DEF FetchOpcode
    <3>. QED  BY <1>4, <3>1, FewerPrefixes DEF FetchedIp
  <2>. QED  BY <2>1, <2>2
<1>5. CASE CompileBlock \/ EmptyBlock
  <2>1. pc = "compile" /\ pc' \in {"run", "fetch"}
    BY <1>5 DEF CompileBlock, EmptyBlock
  <2>2. Stage' < Stage
    BY <2>1 DEF Stage, PartsLeft
  <2>. QED  BY <2>2
<1>6. CASE RunExit \/ RunOffEnd
  <2>1. pc = "run" /\ pc' \in {"fetch", "handle"}
    BY <1>6 DEF RunExit, RunOffEnd, AfterBlock
  <2>2. Stage' < Stage
    BY <2>1 DEF Stage, PartsLeft
  <2>. QED  BY <2>2
<1>7. CASE Interpret \/ InterpretIn \/ InterpretOut \/ InstructionPanic
  <2>1. pc = "decode" /\ pc' \in {"handle", "crashed"}
    BY <1>7 DEF Interpret, InterpretIn, InterpretOut, InstructionPanic, Decoding,
                Executed
  <2>2. Stage' < Stage
    BY <2>1 DEF Stage, PartsLeft
  <2>. QED  BY <2>2
<1>8. CASE \/ HandleContinue \/ HandleHaltNext \/ HandleHaltFails
           \/ HandleHaltLast \/ HandleNative \/ HandleVector \/ HandlerFails
  <2>1. pc = "handle" /\ pc' \in {"idle"} \cup Ended
    BY <1>8 DEF HandleContinue, HandleHaltNext, HandleHaltFails, HandleHaltLast,
                HandleNative, HandleVector, HandlerFails, Serving, Handling, Ended
  <2>2. Stage' < Stage
    BY <2>1 DEF Stage, PartsLeft, Ended
  <2>. QED  BY <2>2
<1>9. CASE Close
  <2>1. pc = "idle" /\ pc' = "closed"
    BY <1>9 DEF Close, FrameDone
  <2>2. Stage' < Stage
    BY <2>1 DEF Stage, PartsLeft
  <2>. QED  BY <2>2
<1>. QED
  BY <1>1, <1>2, <1>3, <1>4, <1>5, <1>6, <1>7, <1>8, <1>9 DEF Next, Execution

\* Every step of a call of step comes nearer to its end, whatever the program:
\* translate_block, compiled code, execute_one and handle_step_result return,
\* unless the code segment holds nothing but prefixes.
THEOREM AdvanceTheorem == Spec => CallAdvances
<1>1. Init => FetchedIp
  BY DEF Init, FetchedIp
<1>2. ASSUME TypeInv, FetchedIp, [Next]_vars
      PROVE  [\/ Stage' < Stage
              \/ Stage' = Stage /\ Left' \in 0 .. Left - 1
              \/ pc = "idle" /\ calls' = calls + 1
              \/ pc = "decode" /\ opcode \in Prefixes /\ OnlyPrefixes]_vars
  BY <1>2, StepsAdvance DEF Over
<1>. QED
  BY <1>1, <1>2, TypeInit, TypeNext, FetchKeepsIp, PTL DEF Spec, CallAdvances

=============================================================================
