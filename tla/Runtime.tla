------------------------------ MODULE Runtime ------------------------------
(***************************************************************************)
(* The runtime (runtime/mod.rs): one call of step after another, each one  *)
(* a run of generated code, perhaps an interpreted instruction, and the    *)
(* handling of the result.                                                 *)
(*                                                                         *)
(* pc is where the call in progress stands:                                *)
(*   idle       between calls; the event loop may call step or close       *)
(*   translate  in translate_block, before its next turn                   *)
(*   compile    translate_block has returned                               *)
(*   run        in generated code, before operation number at              *)
(*   fetch      entering execute_one                                       *)
(*   decode     in execute_one with an opcode byte fetched                 *)
(*   handle     in handle_step_result                                      *)
(*   closed, failed, crashed, hung: the program has ended, or never will   *)
(***************************************************************************)
EXTENDS Boot, Interp

CONSTANTS
  Boots,            \* the ways the program is started: see IsBoot
  BlockLimit,       \* turns of the translation loop: 50 in the program
  FrameCalls,       \* calls of step in a frame: 10 000 in the program
  UndefinedInts,    \* interrupt numbers an undefined rax may stand for
  MaxCalls          \* bound: the calls of step before the window is closed

VARIABLES
  machine,    \* processor, memory, DOS file table, halted
  video,      \* the video controller
  disk,       \* the disk image, never written
  queue,      \* batch_queue: names of files of the disk
  limit,      \* max_instructions; 0 is no limit
  batch,      \* current_batch_index, counted from zero
  executed,   \* instructions_executed
  cache,      \* the translated blocks, by physical address
  pc,
  key,        \* phys_ip of the call in progress
  cur,        \* curr_ip in translate_block
  turns,      \* turns of its loop so far
  ops,        \* the operations it has produced
  at,         \* the operation generated code is at
  opcode,     \* the opcode byte execute_one has fetched
  prefix,     \* the prefixes before it
  result,     \* the result being handled; at idle, what step returned
  calls       \* calls of step so far

program == <<machine, video, batch, executed>>
boot == <<disk, queue, limit>>
translation == <<key, cur, turns, ops>>
fetched == <<opcode, prefix>>
vars == <<program, boot, cache, translation, pc, at, fetched, result, calls>>

\* "exe": a host program and no disk; "fat": the queue found on the disk;
\* "boot": a disk without a FAT file system.
IsBoot(b) ==
  /\ b.kind \in {"exe", "fat", "boot"}
  /\ IsDisk(b.disk)
  /\ b.queue \in Seq(DOMAIN b.disk.files) /\ b.limit \in Nat
  /\ b.kind = "exe" => IsImage(b.program) /\ b.program.kind = "MZ"
  /\ b.kind = "fat" => b.queue # <<>> /\ Loads(b.disk.files[b.queue[1]])
  /\ b.kind = "boot" => InRange(b.disk, 0, 1)

ASSUME RuntimeAssumption ==
  /\ \A b \in Boots : IsBoot(b)
  /\ BlockLimit \in Nat \ {0}
  /\ FrameCalls \in Nat \ {0}
  /\ UndefinedInts \subseteq Byte
  /\ MaxCalls \in Nat /\ MaxCalls % FrameCalls = 0

-----------------------------------------------------------------------------
Init ==
  /\ \E b \in Boots : /\ machine = Booted(b)
                      /\ disk = b.disk
                      /\ queue = b.queue /\ limit = b.limit
  /\ video = VideoNew
  /\ batch = 0 /\ executed = 0
  /\ cache = [a \in {} |-> <<>>]
  /\ pc = "idle"
  /\ key = 0 /\ cur = 0 /\ turns = 0 /\ ops = <<>>
  /\ at = 1 /\ opcode = 0 /\ prefix = NoPrefix /\ result = Continue /\ calls = 0

-----------------------------------------------------------------------------
\* step: what it does before any instruction.

\* Mutant: the limit is tested one instruction late.
LimitedLate == limit > 0 /\ executed > limit

Limited == limit > 0 /\ executed >= limit

\* Mutant: blocks are looked up by offset, whatever the segment.
CodeAddrByOffset == machine.regs.ip

CodeAddr == Phys(GetSeg(machine.regs, CS), machine.regs.ip)

Call == /\ pc = "idle" /\ calls < MaxCalls
        /\ calls' = calls + 1

\* Mutant: a halted machine has its halt handled once more.
StepHaltedHandled ==
  /\ Call /\ machine.halted
  /\ result' = Halt /\ pc' = "handle"
  /\ UNCHANGED <<program, boot, cache, translation, at, fetched>>

StepHalted ==
  /\ Call /\ machine.halted
  /\ result' = Halt
  /\ UNCHANGED <<program, boot, cache, translation, pc, at, fetched>>

StepLimited ==
  /\ Call /\ ~machine.halted /\ Limited
  /\ machine' = [machine EXCEPT !.halted = TRUE]
  /\ result' = Halt
  /\ UNCHANGED <<video, batch, executed, boot, cache, translation, pc, at,
                 fetched>>

\* JitRuntime::execute finds a block, or starts on one.
RunCached ==
  /\ Call /\ ~machine.halted /\ ~Limited
  /\ CodeAddr \in DOMAIN cache
  /\ key' = CodeAddr /\ at' = 1 /\ pc' = "run"
  /\ UNCHANGED <<program, boot, cache, cur, turns, ops, fetched, result>>

\* What starting on a block sets up.
StartAt(address) ==
  /\ key' = address /\ cur' = machine.regs.ip
  /\ turns' = 0 /\ ops' = <<>> /\ pc' = "translate"
  /\ UNCHANGED <<program, boot, cache, at, fetched, result>>

\* Mutants: a block is filed under its offset; a block is translated although
\* there is one.
StartBlockByOffset ==
  /\ Call /\ ~machine.halted /\ ~Limited /\ CodeAddr \notin DOMAIN cache
  /\ StartAt(machine.regs.ip)
StartBlockAgain ==
  Call /\ ~machine.halted /\ ~Limited /\ StartAt(CodeAddr)

StartBlock ==
  /\ Call /\ ~machine.halted /\ ~Limited
  /\ CodeAddr \notin DOMAIN cache
  /\ StartAt(CodeAddr)

-----------------------------------------------------------------------------
\* The translator.

TranslateTurn ==
  LET t == Translate(machine.mem, machine.regs, cur)
  IN /\ pc = "translate"
     /\ ops' = ops \o t.ops
     /\ cur' = (cur + t.size) % MemSize
     /\ turns' = turns + 1
     /\ pc' = IF t.size = 0 \/ turns' = BlockLimit THEN "compile"
                                                   ELSE "translate"
     /\ UNCHANGED <<program, boot, cache, key, at, fetched, result, calls>>

\* Mutant: the block is compiled and forgotten.
CompileUnkept ==
  /\ pc = "compile" /\ ops # <<>>
  /\ at' = 1 /\ pc' = "run"
  /\ UNCHANGED <<program, boot, cache, translation, fetched, result, calls>>

\* A block is kept for ever: nothing removes or refreshes it.
CompileBlock ==
  /\ pc = "compile" /\ ops # <<>>
  /\ cache' = [a \in DOMAIN cache \cup {key} |->
                 IF a = key THEN ops ELSE cache[a]]
  /\ at' = 1 /\ pc' = "run"
  /\ UNCHANGED <<program, boot, translation, fetched, result, calls>>

EmptyBlock ==
  /\ pc = "compile" /\ ops = <<>>
  /\ pc' = "fetch"
  /\ UNCHANGED <<program, boot, cache, translation, at, fetched, result, calls>>

-----------------------------------------------------------------------------
\* Generated code.

Block == cache[key]
AtExit == at <= Len(Block) /\ Block[at].op = "Exit"

\* Only a result of Continue goes on to the interpreter.
AfterBlock(r) == IF r = Continue THEN "fetch" ELSE "handle"

RunOp ==
  /\ pc = "run" /\ at <= Len(Block) /\ ~AtExit
  /\ machine' = [machine EXCEPT !.regs = RunRegs(@, Block[at]),
                                !.mem = RunMem(@, Block[at])]
  /\ video' = RunVideo(video, machine.regs, Block[at])
  /\ at' = at + 1
  /\ UNCHANGED <<batch, executed, boot, cache, translation, pc, fetched,
                 result, calls>>

RunExit ==
  /\ pc = "run" /\ AtExit
  /\ result' = ResultOf(Block[at].a)
  /\ pc' = AfterBlock(result')
  /\ UNCHANGED <<program, boot, cache, translation, at, fetched, calls>>

\* Code that runs off its end returns whatever rax holds.
Leftover == {Continue, Halt} \cup {Interrupt(n) : n \in UndefinedInts}

RunOffEnd ==
  /\ pc = "run" /\ at > Len(Block)
  /\ result' \in Leftover
  /\ pc' = AfterBlock(result')
  /\ UNCHANGED <<program, boot, cache, translation, at, fetched, calls>>

-----------------------------------------------------------------------------
\* The interpreter.

\* Mutant: the opcode byte is read and IP stays on it.
FetchInPlace ==
  /\ \/ pc = "fetch"
     \/ pc = "decode" /\ opcode \in Prefixes
  /\ opcode' = Imm8(machine)
  /\ prefix' = IF pc = "fetch" THEN NoPrefix ELSE Prefixed(prefix, opcode)
  /\ pc' = "decode"
  /\ UNCHANGED <<program, boot, cache, translation, at, result, calls>>

FetchOpcode ==
  /\ \/ pc = "fetch"
     \/ pc = "decode" /\ opcode \in Prefixes
  /\ opcode' = Imm8(machine)
  /\ prefix' = IF pc = "fetch" THEN NoPrefix ELSE Prefixed(prefix, opcode)
  /\ machine' = Skip(machine)
  /\ pc' = "decode"
  /\ UNCHANGED <<video, batch, executed, boot, cache, translation, at, result,
                 calls>>

Decoding == pc = "decode" /\ opcode \notin Prefixes

\* Mutant: interpretation goes on until an instruction has another result.
ExecutedOn(o) ==
  /\ machine' = o.machine /\ result' = o.result
  /\ executed' = executed + 1
  /\ pc' = IF o.result = Continue THEN "fetch" ELSE "handle"
  /\ UNCHANGED <<batch, boot, cache, translation, at, fetched, calls>>

\* execute_one has dispatched the instruction and counts it.
Executed(o) ==
  /\ machine' = o.machine /\ result' = o.result
  /\ executed' = executed + 1
  /\ pc' = "handle"
  /\ UNCHANGED <<batch, boot, cache, translation, at, fetched, calls>>

Interpret ==
  /\ Decoding /\ opcode \notin InOpcodes \cup OutOpcodes
  /\ ~Panicking(opcode, machine, prefix)
  /\ Executed(Execute(opcode, machine, prefix))
  /\ UNCHANGED video

InterpretIn ==
  /\ Decoding /\ opcode \in InOpcodes
  /\ \E lo \in PortValues(Port(opcode, machine)),
        hi \in PortValues(Wrap16(Port(opcode, machine) + 1)) :
       Executed(Outcome(In(opcode, machine, lo, hi), Continue))
  /\ UNCHANGED video

InterpretOut ==
  /\ Decoding /\ opcode \in OutOpcodes
  /\ video' = Out(opcode, machine, video)
  /\ Executed(Outcome(AfterPort(opcode, machine), Continue))

\* No address to decode, or a quotient that has no room.
InstructionPanic ==
  /\ Decoding /\ Panicking(opcode, machine, prefix)
  /\ pc' = "crashed"
  /\ UNCHANGED <<program, boot, cache, translation, at, fetched, result, calls>>

-----------------------------------------------------------------------------
\* handle_step_result.

Handling(kinds) == pc = "handle" /\ result.kind \in kinds

HandleContinue ==
  /\ Handling({"Continue", "Unimplemented"})
  /\ pc' = "idle"
  /\ UNCHANGED <<program, boot, cache, translation, at, fetched, result, calls>>

\* The halted program is replaced by the next one of the batch, if any.
HasNext == batch + 1 < Len(queue)
NextFile == disk.files[queue[batch + 2]]

\* Mutant: the index is counted up twice for one program.
HandleHaltSkips ==
  /\ Handling({"Halt"}) /\ HasNext /\ Loads(NextFile)
  /\ batch' = batch + 2
  /\ machine' = ExecuteBinary([machine EXCEPT !.halted = FALSE,
                                              !.regs = RegsNew], NextFile)
  /\ result' = Continue
  /\ pc' = "idle"
  /\ UNCHANGED <<video, executed, boot, cache, translation, at, fetched, calls>>

HandleHaltNext ==
  /\ Handling({"Halt"}) /\ HasNext /\ Loads(NextFile)
  /\ batch' = batch + 1
  /\ machine' = ExecuteBinary([machine EXCEPT !.halted = FALSE,
                                              !.regs = RegsNew], NextFile)
  /\ result' = Continue
  /\ pc' = "idle"
  /\ UNCHANGED <<video, executed, boot, cache, translation, at, fetched, calls>>

HandleHaltFails ==
  /\ Handling({"Halt"}) /\ HasNext /\ ~Loads(NextFile)
  /\ batch' = batch + 1
  /\ pc' = IF LoadPanics(NextFile) THEN "crashed" ELSE "failed"
  /\ UNCHANGED <<machine, video, executed, boot, cache, translation, at,
                 fetched, result, calls>>

HandleHaltLast ==
  /\ Handling({"Halt"}) /\ ~HasNext
  /\ batch' = batch + 1
  /\ pc' = "idle"
  /\ UNCHANGED <<machine, video, executed, boot, cache, translation, at,
                 fetched, result, calls>>

\* The frame is on the stack, and interrupts and single-stepping are off.
Framed ==
  [PushFrame(machine) EXCEPT
     !.regs = SetFlag(SetFlag(@, IntFlag, FALSE), TrapFlag, FALSE)]

Serving == Handling({"Interrupt"}) /\ result.num \in Native
Stuck == Hangs(result.num, Framed)
Fatal == Panics(result.num, Framed, disk)

HandleNative ==
  /\ Serving /\ ~Stuck /\ ~Fatal
  /\ machine' = PopFrame(Serve(result.num, Framed, disk))
  /\ result' = Continue
  /\ pc' = "idle"
  /\ UNCHANGED <<video, batch, executed, boot, cache, translation, at, fetched,
                 calls>>

HandleVector ==
  /\ Handling({"Interrupt"}) /\ result.num \notin Native
  /\ machine' = GotoFar(Framed, IvtSeg(Framed.mem, result.num),
                                IvtOff(Framed.mem, result.num))
  /\ result' = Continue
  /\ pc' = "idle"
  /\ UNCHANGED <<video, batch, executed, boot, cache, translation, at, fetched,
                 calls>>

HandlerFails ==
  /\ Serving /\ (Stuck \/ Fatal)
  /\ pc' = IF Stuck THEN "hung" ELSE "crashed"
  /\ UNCHANGED <<program, boot, cache, translation, at, fetched, result, calls>>

-----------------------------------------------------------------------------
\* The event loop calls step a fixed number of times before it looks at its
\* window again; a window that is closed ends the program.
FrameDone == pc = "idle" /\ calls % FrameCalls = 0

Close ==
  /\ FrameDone
  /\ pc' = "closed"
  /\ UNCHANGED <<program, boot, cache, translation, at, fetched, result, calls>>

Ended == {"closed", "failed", "crashed", "hung"}
Over == pc \in Ended /\ UNCHANGED vars

Execution ==
  \/ StepHalted \/ StepLimited \/ RunCached \/ StartBlock
  \/ TranslateTurn \/ CompileBlock \/ EmptyBlock
  \/ RunOp \/ RunExit \/ RunOffEnd
  \/ FetchOpcode \/ Interpret \/ InterpretIn \/ InterpretOut
  \/ InstructionPanic
  \/ HandleContinue \/ HandleHaltNext \/ HandleHaltFails \/ HandleHaltLast
  \/ HandleNative \/ HandleVector \/ HandlerFails

Next == Execution \/ Close \/ Over

\* The event loop polls: it keeps calling step, and a call keeps running.
Spec == Init /\ [][Next]_vars /\ WF_vars(Execution)

=============================================================================
