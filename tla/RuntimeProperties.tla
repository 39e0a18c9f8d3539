------------------------- MODULE RuntimeProperties -------------------------
(***************************************************************************)
(* What must be true of the runtime.                                       *)
(***************************************************************************)
EXTENDS Runtime

Phases == {"idle", "translate", "compile", "run", "fetch", "decode",
           "handle"} \cup Ended

\* Every variable holds a value its Rust type can hold: registers and bytes
\* keep their width, addresses stay below one megabyte, handles are words.
TypeOK ==
  /\ IsMachine(machine) /\ IsVideo(video)
  /\ batch \in Nat /\ executed \in Nat
  /\ IsDisk(disk) /\ queue \in Seq(DOMAIN disk.files)
  /\ DOMAIN cache \subseteq Addr /\ cache \in [DOMAIN cache -> Seq(IrOp)]
  /\ pc \in Phases
  /\ key \in Addr /\ cur \in Addr /\ turns \in 0 .. BlockLimit
  /\ ops \in Seq(IrOp) /\ at \in Nat \ {0}
  /\ opcode \in Byte /\ prefix \in PrefixState /\ limit \in Nat
  /\ result \in StepResult /\ calls \in 0 .. MaxCalls

\* A translated block is straight-line code: an Exit can only be its last
\* operation, and one without an Exit - whose result is whatever rax holds -
\* ends with the address of the instruction it stopped before.  Its length is
\* bounded by the turns of the translation loop.
WellFormed(block) ==
  /\ Len(block) \in 1 .. 2 * BlockLimit + 1
  /\ \A i \in 1 .. Len(block) - 1 : block[i].op # "Exit"
  /\ block[Len(block)].op \in {"Exit", "SyncIp"}
BlocksWellFormed == \A a \in DOMAIN cache : WellFormed(cache[a])

\* The code address cannot move under a call: while generated code runs, the
\* block that runs is the one cached for CS:IP, and at stays within it or one
\* past its end (run_block borrows the block for the whole call).
RunsBlockAtIp ==
  pc \in {"translate", "compile", "run", "fetch"} => key = CodeAddr
RunsCachedBlock ==
  pc = "run" => key \in DOMAIN cache /\ at <= Len(cache[key]) + 1

\* A block, once compiled, is never replaced or dropped: the code run_block
\* jumps to stays the code that was compiled for that address.
BlocksKept ==
  [][\A a \in DOMAIN cache : a \in DOMAIN cache' /\ cache'[a] = cache[a]]_vars

\* A call that may still interpret, and one that may still move the batch on.
MayInterpret == pc \in {"translate", "compile", "run", "fetch", "decode"}
MayMoveOn == MayInterpret \/ pc = "handle"

\* One call of step interprets at most one instruction and moves at most one
\* place in the batch: a step that counts one can be followed by another only
\* in a later call, since until then nothing gives the chance back.
StepPace ==
  [][/\ calls' # calls => calls' = calls + 1 /\ ~MayMoveOn
     /\ calls' = calls => (MayInterpret' => MayInterpret) /\ (MayMoveOn' => MayMoveOn)
     /\ executed' # executed => /\ executed' = executed + 1 /\ calls' = calls
                                /\ MayInterpret /\ ~MayInterpret'
     /\ batch' # batch => /\ batch' = batch + 1 /\ calls' = calls
                          /\ MayMoveOn /\ ~MayMoveOn']_vars

\* The six bytes of the interrupt frame, which lies at SS:SP of machine s.
FrameBytes(s) ==
  {(Phys(GetSeg(s.regs, SS), Wrap16(Get16(s.regs, SP) + w)) + b) % MemSize :
     w \in {0, 2, 4}, b \in {0, 1}}
FrameIntact ==
  \A a \in FrameBytes(Framed) : ReadU8(machine'.mem, a) = ReadU8(Framed.mem, a)

\* A natively served interrupt is transparent: unless the handler loads a
\* program or overwrites the frame, it returns to the interrupted CS:IP, SS and
\* SP, at every SP that pushes can wrap around, with interrupts, single-stepping
\* and every flag as before but for the two that handlers answer in, carry (an
\* error) and zero (no key): those are the matter of KeyPollSetsZero.
KeptFlags == {ParityFlag, AuxFlag, SignFlag, TrapFlag, IntFlag, DirFlag,
              OverflowFlag}
NativeTransparent ==
  [][Serving /\ pc' = "idle" /\ ~IsExec(result.num, Framed) /\ FrameIntact =>
       /\ machine'.regs.ip = Wrap16(machine.regs.ip)
       /\ GetSeg(machine'.regs, CS) = GetSeg(machine.regs, CS)
       /\ GetSeg(machine'.regs, SS) = GetSeg(machine.regs, SS)
       /\ Get16(machine'.regs, SP) = Get16(machine.regs, SP)
       /\ \A f \in KeptFlags : Flag(machine'.regs, f) = Flag(machine.regs, f)]_vars

\* Once a call has left the machine halted (a terminated program, an
\* interpreted HLT, the instruction limit), no later call of step gets as far
\* as looking for code, or changes the machine, the screen, the place in the
\* batch, the count of instructions or the cache.
HaltIsFinal ==
  [][pc = "idle" /\ machine.halted =>
       /\ pc' \in {"idle", "closed"}
       /\ UNCHANGED <<machine, video, batch, executed, cache>>]_vars

\* An open handle stays open, on the same data, and only a request that names
\* it in BX moves its cursor: an open never takes a handle that is in use.
\* VBase - RBase open files, 95, are the limit of the program's two ranges of
\* handles: with so many of the host the next one meets those of the disk.
FewOpen == Cardinality(DOMAIN machine.dos.files) < VBase - RBase
OpenHandlesKept ==
  [][FewOpen => \A h \in DOMAIN machine.dos.files :
       /\ h \in DOMAIN machine'.dos.files
       /\ machine'.dos.files[h].data = machine.dos.files[h].data
       /\ machine'.dos.files[h].pos # machine.dos.files[h].pos =>
            h = Get16(machine.regs, BX)]_vars

\* The block that runs is what the translator would make of the bytes that are
\* at CS:IP now, as far as its first instruction goes.  A block is shared by
\* all the CS:IP that name its first byte, so SyncIp may hold another's IP.
RunsCurrentCode ==
  pc = "run" /\ at = 1 =>
    LET t == Translate(machine.mem, machine.regs, machine.regs.ip).ops
    IN \A i \in 1 .. Len(t) : /\ i <= Len(Block)
                              /\ Block[i].op = t[i].op
                              /\ Block[i].op # "SyncIp" => Block[i] = t[i]

\* Until the batch goes on to its next program, memory that is not stored to
\* keeps the code its blocks were made of.
RunsLoadedCode == batch = 0 \/ Len(queue) = 1 => RunsCurrentCode

\* With an instruction limit the interpreter never executes one more.
LimitRespected == limit > 0 => executed <= limit

\* The window is not left alone for ever: a frame that has begun ends, or the
\* program has, since translation, generated code, the prefix loop and the
\* handling of the result all come to an end in every call, and the loop makes
\* the next one.  A service that scans for ever (pc = "hung") is in its frame.
InFrame == pc \notin Ended \ {"hung"} /\ ~FrameDone
FrameEnds == InFrame ~> ~InFrame

\* The byte n places after CS:IP, and how many prefixes stand there.
Ahead(n) ==
  ReadU8(machine.mem, Phys(GetSeg(machine.regs, CS),
                           Wrap16(machine.regs.ip + n)))
IsRun(n) == Ahead(n) \notin Prefixes /\ \A m \in 0 .. n - 1 : Ahead(m) \in Prefixes
PrefixesAhead == CHOOSE n \in Word : IsRun(n)
OnlyPrefixes == \A n \in Word : Ahead(n) \in Prefixes

\* How far a call of step is from its end: the parts that follow, and in a part
\* the turns, operations or prefixes that are left.
PartsLeft ==
  [translate |-> 7, compile |-> 6, run |-> 5, fetch |-> 4, decode |-> 3,
   handle |-> 2, idle |-> 1, closed |-> 0, failed |-> 0, crashed |-> 0, hung |-> 0]
Stage == PartsLeft[pc]
Left ==
  CASE pc = "translate" -> BlockLimit - turns
    [] pc = "run" -> Len(Block) + 1 - at
    [] pc = "decode" /\ opcode \in Prefixes -> PrefixesAhead + 1
    [] OTHER -> 0

\* No call of step goes in a circle: each step starts on a later part or has less
\* left of its own, or is the first of the next call.  Only a segment of nothing
\* but prefixes keeps execute_one in its loop; a service that never returns is
\* the step to pc = "hung".
CallAdvances ==
  [][\/ Stage' < Stage
     \/ Stage' = Stage /\ Left' \in 0 .. Left - 1
     \/ pc = "idle" /\ calls' = calls + 1
     \/ pc = "decode" /\ opcode \in Prefixes /\ OnlyPrefixes]_vars

\* The batch, as the user sees it.  A HLT after the last program still counts
\* current_batch_index up, so its place in the batch is cut off at the end.
ProgramNumber == IF batch < Len(queue) THEN batch + 1 ELSE Len(queue)
ProgramState == IF pc \in Ended THEN "dead"
                ELSE IF machine.halted /\ pc = "idle" THEN "stopped"
                ELSE "running"
L == INSTANCE Launcher WITH length <- Len(queue), program <- ProgramNumber,
                            state <- ProgramState

\* The runtime implements the launcher: programs run in the order of the batch,
\* none twice and none skipped, and none after a halt that stays or a failed
\* load, whatever translator, interpreter and handlers do in between.
LauncherSpec == L!Spec

=============================================================================
