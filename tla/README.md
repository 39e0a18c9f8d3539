# kita98: TLA+ models of the emulator

kita98 is an emulator of a PC‑98‑like real-mode x86 machine. A program comes
from a DOS executable of the host, from the files of a FAT disk image, or from
a disk's boot sector. The runtime executes it with a small translator ("JIT")
in front of an interpreter, and serves BIOS and DOS interrupts itself. This
directory holds TLA+ modules translated from the Rust source, the
configurations TLC checks them with, and theorems TLAPS checks. Paths below are
relative to the repository's `src/`.

## 1. The system

| component | source | state | operations |
|---|---|---|---|
| memory | `memory/mod.rs` | 1 MB of bytes | byte and word access, bulk loads, interrupt vectors |
| registers, stack | `cpu/regs.rs`, `cpu/interp/stack.rs` | eight 32-bit registers, six segments, IP, flags | 8-, 16- and 32-bit access, flags, push, pop |
| translator | `cpu/jit.rs` | cache of compiled blocks by physical address | look up, translate, compile, run |
| interpreter | `cpu/interp/*.rs` | registers, `halted`, count of instructions | prefixes, operands, ALU groups, flow, 0Fh escapes |
| runtime | `runtime/mod.rs` | the above, the batch queue and the place in it | `new`, `step`, `handle_step_result` |
| interrupt services | `runtime/interrupts/*.rs` | none of their own | one handler per interrupt |
| DOS files | `dos/mod.rs` | open handles and their cursors | open, read, seek |
| disk, FAT | `disk/*.rs` | the image (read only) | headers, geometry, sectors, detection, directory, file chains |
| loaders | `runtime/loader.rs`, `cpu/mz.rs` | none | COM and MZ programs into memory and registers |
| video, bus | `video/mod.rs`, `bus/mod.rs` | four bit planes, palette | VRAM stores, palette ports, vertical blank |
| main loop | `main.rs` | window | frames of 10 000 calls of `step`, redraw, close |
| devices, audio | `devices`, `audio` | a timer that is never ticked, stubs | none that is called |

**How they interact.** Everything runs on one thread. `Runtime::new` opens the
image, looks for a file system, reads the entry point and loads it. Then the
event loop calls `Runtime::step`. A halted machine returns at once. Otherwise
the translator looks for a block at the physical address of CS:IP, or
translates one, and runs it; the generated code shares `Bus` and `Regs` with the
rest through raw pointers. Only when the block returns `Continue` does the
interpreter execute one instruction. The result, whichever side it comes from,
goes to `handle_step_result`: a halt starts the next program of the batch, an
interrupt pushes a frame and is either served natively (and the frame popped) or
sent through the vector table.

**What is hard here.** There are no threads and nothing is persisted. The
hazards are of other kinds, each listed with its line under `hazards` in
`PROJECT.json`: two engines that execute the same bytes from different views of
the same state; a cache that outlives what it was made from; blocks without a
result of their own; a frame pushed before a handler that may replace the stack,
the flags or the program; halts that are recorded in two ways (`halted`, or a
returned result); one program of several that cannot be loaded; an operand that
is decoded twice; file chains that loop or leave the disk; arithmetic at the
edges of signed and unsigned widths; handles whose ranges can meet; loops inside
one call that the event loop waits for.

**What correctness means**, by component: memory and registers keep their width
and wrap as words; a block is straight-line code of bounded length and is never
replaced while it may run; the block that runs belongs to CS:IP, and to the
bytes there as long as nothing else was loaded; an instruction computes what
arithmetic says, in one place; a native interrupt is invisible to the
interrupted program except for its results; an open handle stays open on its
data; a file is the bytes along its chain; the queue is the lines of the batch
file; a halt is final until a program is loaded; programs of a batch run in
order, each once, and nothing runs after a failed load; the limit on
instructions holds; `Runtime::new` and every frame of the event loop end.

## 2. The modules

    Memory - Cpu - Jit (+ Video) - Operands - Alu - Extended - Interp -+- ExecuteOne - OperandProperties - MCOperands
       |      |                                                        |
       |      +- Loader -+- Bios (+ Dos, Disk) - Boot -+---------------+- Runtime - RuntimeProperties - RuntimeClaims - MCRuntime
       |                 |                             |                                  |
       +- Dos            +- Mz ----------+             |                           Launcher (INSTANCE)
         Disk - Fat ------------------+  |             |
                                      +--+- Startup ---+- StartupProperties - MCStartup

A line reads: the module on the right extends the one on its left. The proof
modules are a chain beside it: `CpuProofs` - `JitProofs` - `OperandProofs` -
`HandlerProofs` - `TypeProofs` - `RuntimeProofs`, with `InstructionProofs` on
`OperandProofs` and `StartupProofs` on `CpuProofs`. Everything down to `Interp`, `Boot`, `Fat` and `Mz` is a library of operators on records;
`Runtime`, `Startup` and `ExecuteOne` have the variables.

| module | what it models |
|---|---|
| `Memory` | memory as a sparse function over what `Runtime::new` leaves there: zero, an IRET stub, and 256 vectors to it |
| `Cpu` | `Regs` as its sixteen 16-bit words (word 2r is register r, word 2r+1 the upper half of the 32-bit register), segments, IP, flags; push, pop, the interrupt frame |
| `Video` | planes and palette; `VramCells` is the range test of `update_vram` |
| `Dos`, `Disk` | file table; image headers, geometry, CHS to LBA, sector reads |
| `Fat` | detection of a file system, directory, FAT12 and FAT16 links, the ranking of entry points |
| `Loader` | what becomes of a program: COM, MZ, MZ too short, MZ that panics, unreadable |
| `Mz` | the MZ header's arithmetic, the load module and its relocations, one at a time |
| `Bios` | one operator per handler; `Hangs` and `Panics` are the ways a handler never returns |
| `Boot` | the machine that `Runtime::new` leaves, as one step |
| `Jit` | `Translate` is one turn of `translate_block`; `RunRegs`, `RunMem` and `RunVideo` are one operation of generated code |
| `Operands` | prefixes, immediates, ModRM and SIB in both address sizes; each read and each write of an operand decodes its address, and fetches its displacement, anew |
| `Alu` | flags, groups 80h-83h and F6h/F7h, zero divisors, the divisions that panic |
| `Extended` | the 0Fh escapes: bits, scans, double shifts, IMUL, MOVZX, MOVSX, SETcc, XADD, near jumps, system stubs |
| `Interp` | `Execute`: one instruction after its prefixes and opcode, and `Panicking`: the ones that take the program down |
| `Runtime` | the state machine of `step` and the event loop: one action per branch of `step`, `execute`, `translate_block`, `run_block`, `execute_one`, `handle_step_result` |
| `Startup` | the state machine of `Runtime::new`: one action per sector scanned, directory slot listed, cluster read, line queued, relocation applied |
| `ExecuteOne` | one call of `execute_one` on any machine, for the operand properties |
| `RuntimeProperties`, `StartupProperties`, `OperandProperties` | what must hold of each |
| `RuntimeClaims` | what comments say of the runtime and the code does not do |
| `Launcher` | the abstract specification of a batch |
| `MCRuntime`, `MCStartup`, `MCOperands` | programs, images and machines for TLC |
| `CpuProofs`, `JitProofs`, `OperandProofs`, `HandlerProofs` | lemmas about the operators, layer by layer: arithmetic, memory and registers; translation and generated code; operands, arithmetic groups, escapes and whole instructions; file table, loaders and handlers |
| `TypeProofs`, `RuntimeProofs` | theorems of `Runtime`'s `Spec` |
| `StartupProofs` | theorems of `Startup`'s `Spec` |
| `InstructionProofs` | theorems of `ExecuteOne`'s `Spec` |

**How state and actions correspond to the code.** In `Runtime`, `machine` is the
record of `Interpreter.regs`, memory, `DosRuntime` and `halted`; `cache` is
`JitRuntime.cache`; `queue` and `batch` are `batch_queue` and
`current_batch_index`; `executed` is `instructions_executed`. `pc` is the place
in the call of `step` in progress, and `key`, `cur`, `turns`, `ops`, `at`,
`opcode`, `prefix`, `result` are its local variables. A call is cut into steps
where something else could be observed between them: before each turn of the
translator, each operation of generated code, each opcode byte (so that a run of
prefixes is a loop), and the handling of the result. `calls` counts the calls of
`step`; every `FrameCalls` of them the event loop looks at its window.

In `Startup`, `image` is the file, `disk` what `DiskImage::load` makes of it,
`lba` the sector the detection is at, `fs`, `entries`, `queue` the locals of
`Runtime::new`, and `entry`, `cluster`, `data` those of `read_file`. `Startup`
is the detailed start, `Boot` the abstract one that `Runtime` uses;
`StartsAsBoot` checks that they leave the same machine, and fail on the same
programs.

**What is kept as data and what is abstracted.** Instruction bytes, sector
bytes, tables of clusters and MZ files are kept as bytes, because what the
properties are about is in them. Names are strings instead of eleven padded
bytes, and a line of a BAT file is one byte that stands for a command
(`Commands`): trimming, upper-casing and splitting of text are left out. The
fields of a boot sector, a directory slot and an image header are given with the
image, as numbers, instead of being cut out of it. What is printed, logged or
traced is left out. The instruction pointer, a `u32` in the code, is kept modulo
the megabyte that every use of it is reduced by, so that it can leave the 64 KB
of the segment as it does in the code after a near jump. A store by the
interpreter goes to memory alone and a store by generated code also to the
planes, as in the code.

Two differences of data are left. `to_uppercase` of a path is modelled for ASCII
letters. And a disk has of its image what follows the header, so that a read of
no sectors (INT 13h/02 with AL = 0) at the first sector of an image that ends
inside its header succeeds, where the code finds its start past the end.

**Environment.** The host directory (`HostFiles`) is external. The vertical
blank follows the host's clock and is chosen anew at each read. The window may
be closed at any end of a frame.

**Undefined behaviour and builds.** Three things that the source leaves to the
build are fixed by assumptions, and one is a choice:

* Generated code takes its arguments in RCX and RDX, so the build is for the
  Windows x64 convention, and the functions it calls follow that convention and
  leave its stack alone (it reserves no home area).
* `Regs` has no `repr(C)`; its register array is taken to be at offset 0, as
  the generated code assumes.
* Integer overflow wraps, as in a release build; where a debug build would
  panic, `hazards` says so. Divisions without a quotient panic in both.
* Generated code that runs off its end without an `Exit` returns what is in
  RAX. `RunOffEnd` chooses: Continue, Halt, or any interrupt of
  `UndefinedInts`.

## 3. What is checked

All runs check deadlock: the ends of a run (`Over`) are explicit steps.

| run | instance | properties |
|---|---|---|
| `control` | all pairs of twenty kinds of instruction with the endings a program can have; a boot sector; a host program with a wrapping stack; 731 538 states | `TypeOK`, `BlocksWellFormed`, `RunsBlockAtIp`, `RunsCachedBlock`, `StepPace`, `BlocksKept`, `CallAdvances` |
| `services` | every natively served interrupt with every AH it tells apart; paths that are on the disk, on the host, unreadable, broken or unterminated; open/open/read/seek sequences; all stack pointers from 0 to 7; a read over its own frame; 95 751 states | `NativeTransparent`, `OpenHandlesKept` |
| `batch` | one to three programs that end by each kind of halt, panic or spin, followed by good and bad files, with no limit and with a limit of two; programs reached through several segments; 33 960 states | `LimitRespected`, `RunsLoadedCode`, `LauncherSpec`, `FrameEnds`, `HaltIsFinal` |
| `operands` | one instruction of every group with a ModRM byte, its operand in a register and in memory, under every prefix, with the values at the edges of signed and unsigned bytes and words; INC and DEC at every kind of address, with every length of displacement; 32 769 states | `ConditionsAgree`, `DivisionExact`, `ProductsExact`, `DoubleShiftsExact`, `BitsExact`, `ExtendKeepsValue`, `OperandInPlace` |
| `startup` | images with straight, looping, short and outlying chains in both widths of table; directories with every rank of entry point; BAT files; MZ headers and relocation tables; image headers; sectors that only look like boot sectors; 31 317 states | `FileMatchesItsChain`, `RegionsApart`, `QueueFollowsTheBatch`, `StartsAsBoot`, `ReportedSectorsExist`, `StartupEnds`, `StartupAdvances` |

What they show of the running machine:

* **`BlocksWellFormed`**: an `Exit` is the last operation or absent, and a block
  without one ends in `SyncIp`. Two paths make such a block (fifty turns, and a
  form of C6 that is not translated), both in the run.
* **`RunsBlockAtIp`, `RunsCachedBlock`, `BlocksKept`**: `run_block` borrows a
  block for the whole call, in code that changes registers and memory at will.
* **`RunsLoadedCode`**: what a block was made of is what is at CS:IP when it
  runs, as long as the batch has not gone on to its second program. Beyond this
  boundary it is false (`claim_loaded`), and so the boundary is what the
  translator's cache relies on. The programs of the run store nothing over
  their code, which is the condition of `CodeTheorem`.
* **`NativeTransparent`**: after a handler, IP, CS, SS, SP and all flags but
  carry and zero are as before, whatever the stack pointer. Carry and zero are
  the flags handlers answer in; that the popped frame takes their answer away is
  a finding (`claim_key`) and no part of this property. It excludes EXEC, which is
  meant to change the registers, and frames the handler itself wrote over; the
  run has both.
* **`HaltIsFinal`**: after a termination the runtime is inert. This is also why
  a program that ends by INT 20h or 4Ch in the middle of a batch ends the batch.
* **`OpenHandlesKept`**: no open takes a handle in use, and only a request with
  the handle in BX moves its cursor, as long as fewer than 95 files are open.
  The limit is the program's own: host files have the handles from 5 up, files
  of the disk those from 100 up, nothing closes a handle, and with 95 host files
  open the next of them gets the first handle of the disk's.
* **`LauncherSpec`**: with the processor forgotten, the runtime runs the
  programs in order, skips none, and runs nothing after a halt that stays, a
  failed load or a panic. After the last HLT the code counts its index past the
  end of the queue, and the mapping cuts it off there.
* **`StepPace`**: one call of `step` interprets at most one instruction and moves
  at most one place in the batch: each uses up the call's chance (`MayInterpret`,
  `MayMoveOn`), and only the next call gives it back.
* **`FrameEnds`**: a frame of the event loop that has begun comes to its end, or
  the program does. It is the property that a turn of the translator, generated
  code, the loop over prefixes and the handling of results all come to an end in
  each call. A service that scans for ever (`pc = "hung"`, the string without
  its terminator of `dos.rs:39`) counts as inside its frame, and no program of
  `batch` calls it that way; `services` has such programs and not this property.
* **`CallAdvances`**: the reason for it, step by step: each step of a call starts
  on a later part (translation, compilation, generated code, fetch, decoding,
  handling), or has fewer turns, operations or prefixes left in its own, or
  begins the next call. The exception is named: in a code segment of nothing but
  prefixes the loop of `execute_one` (`interp/mod.rs:113`) never ends. A service
  is one step here, and the one that scans for ever has its own ending.

Of one instruction, against the arithmetic of numbers instead of bits:

* **`ConditionsAgree`**: after CMP, SUB and SBB the conditions of Jcc order the
  numbers, signed and unsigned; after ADD and ADC carry and overflow say whether
  the sum fits. ADC and SBB add the carry to the immediate first, in the
  immediate's width. Excepted by name is a carry that takes the immediate over
  the top, for the unsigned conditions (`CarryKept`), or from the largest positive
  number to the sign, for the signed ones (`SignKept`). The code is wrong at each
  of these: `ConditionsTheorem` proves that as well (`FoldedCarryMisjudges`).
* **`DivisionExact`, `ProductsExact` (for bytes, for words and for two
  operands), `DoubleShiftsExact`, `BitsExact`, `ExtendKeepsValue`**: results and carry are those of the mathematical
  operation. `DivisionExact` has of the double words of DIV those below 2^31, which TLC
  can count, and leaves out those of IDIV whose DX the code overwrites with the
  sign of AX. `DivisionTheorem` adds the double words from 2^31 on
  (`WideDivisionExact`), and what the code does with the others: it divides AX
  alone, which is never the quotient of another DX:AX
  (`NegativeAxDividedAlone`). `DoubleShiftsExact` leaves out the counts from 16
  on.
* **`OperandInPlace`**: an operand whose address has no displacement is read and
  written in one place, nothing else in memory changes, and the next instruction
  is the one that follows. With a displacement this is false (`claim_inc`).

Of the start:

* **`FileMatchesItsChain`**: `read_file` returns the bytes along the chain, cut
  at the size of the entry or where chain or image end, computed in the property
  from the table as it is defined, with its entries of twelve bits.
* **`RegionsApart`**: table, directory and clusters do not overlap.
* **`QueueFollowsTheBatch`**: the queue has the programs of the batch file, in
  order, with the lines that name none left out; or the one program found.
* **`StartsAsBoot`**: the machine at the end is the one `Boot` has for the
  program read, so that the runs and theorems of `Runtime` are about what
  `Runtime::new` leaves. Relocations outside the load module, which the abstract
  loader does not have, are excepted and are in the run.
* **`ReportedSectorsExist`**: a program that asks INT 13h/08 for the size of the
  disk and reads within it gets sectors of the disk, and different ones.
* **`StartupEnds`**: `Runtime::new` returns or panics, on looping chains too.
* **`StartupAdvances`**: the reason for it: each step starts on a later part of
  `Runtime::new`, or has fewer sectors, slots, bytes, lines or relocations left.

**Bounds.** `BlockLimit` is the fifty turns of the translator, taken as 3 or 8
so that blocks of two instructions reach it, and as 50 in `claim_exec`.
`FrameCalls` is 3 for the 10 000 calls of a frame: more of them repeat what the
third does. `MaxCalls` (12, 15 or 21) bounds the calls of `step` before the
window is closed; no run needs more for its programs to reach their endings or
to repeat. `SectorSize` is 8 or 16 bytes instead of 512, so that a sector fits a
small image, and an entry of twelve bits still lies across two sectors. Programs
are two to six instructions long: each property relates at most two adjacent
instructions and a load. The limit is 0 (none) or 2. Operand values are those at
which a sign, a carry or an overflow changes. `UndefinedInts` is {8, 33}: one
interrupt that goes through the vectors and one that is served.

**Fairness.** In `Runtime`, `WF_vars(Execution)`: the event loop polls
(`ControlFlow::Poll`) and calls `step` again as long as it runs, and a call,
being a function on one thread, goes on until it returns. Closing the window
carries no fairness. In `Startup`, `WF_vars(Next)`: `Runtime::new` is sequential
code.

Each property of a passing run has a mutant: an operator beside the definition
it replaces, with the comment "Mutant:", that TLC finds to break it.

### Findings

Each is a run that checks one statement of the source's own comments or
messages, and fails.

| run | property | source | what happens |
|---|---|---|---|
| `claim_mov` | `MovLoadsItsRegister` | `cpu/jit.rs:161` | generated MOV and ADD index 32-bit registers by 2: MOV CX writes the upper half of EAX, MOV SP writes DX |
| `claim_ip` | `IpIsSynced` | `cpu/jit.rs:190` | `SyncIp` writes the low word of ESI; IP stays at the block's start, so its first instruction runs twice and an INT returns to the start |
| `claim_key` | `KeyPollSetsZero` | `runtime/interrupts/system.rs:31` | the zero flag of the key poll is overwritten by the popped flags |
| `claim_exec` | `ExecTransfers` | `runtime/mod.rs:173` | after EXEC the return address is popped from the new program's stack |
| `claim_loaded` | `RunsCurrentCode` | `cpu/jit.rs:55` | the second program of a batch runs the first one's blocks |
| `claim_inc` | `IncrementsItsOperand` | `cpu/interp/flow.rs:166` | INC WORD [SI+2] decodes its operand twice and writes where the next instruction's bytes say |
| `claim_add` | `AddStoresItsSum` | `cpu/interp/alu.rs:167` | ADD, like the rest of group 1, sets flags and drops its result |

Not a run, because one look settles it: the option `--interp-only` ("Disable JIT
and use interpreter only", `main.rs:26`) is parsed and never read; `step` always
calls the translator first.

## 4. What is proved

Every safety property and every action property of the passing runs is a
theorem too. The runs show it on small instances; the theorems hold for every
value of the constants that the assumptions allow, which TLC evaluates in each
run:

* `RuntimeAssumption`: every well-typed disk, program and batch (`IsBoot`),
  every `BlockLimit` and `FrameCalls` above zero, every limit, every set of
  undefined results; and any host directory of files of bytes
  (`HostFilesAssumption`);
* `SectorSizeAssumption`, `FatAssumption`: sectors of any even size;
* `ImagesAssumption`: every image file (`IsImageFile`: its bytes, and typed
  fields where the text of a header or slot is left out), and any table of
  commands;
* `StartsAssumption`: an instruction on any well-typed machine.

| theorem | module | establishes |
|---|---|---|
| `TypeTheorem` | `TypeProofs` | `[]TypeOK` |
| `BlockTheorem` | `TypeProofs` | `[]RunsCachedBlock` |
| `BlockShapeTheorem` | `RuntimeProofs` | `[]BlocksWellFormed` |
| `AtIpTheorem` | `RuntimeProofs` | `[]RunsBlockAtIp` |
| `KeptTheorem` | `RuntimeProofs` | `BlocksKept` |
| `LimitTheorem`, `PaceTheorem`, `HaltTheorem` | `RuntimeProofs` | `[]LimitRespected`, `StepPace`, `HaltIsFinal` |
| `LauncherTheorem` | `RuntimeProofs` | `LauncherSpec`: the runtime implements the launcher |
| `AdvanceTheorem` | `RuntimeProofs` | `CallAdvances`: a call of `step` ends, but in a segment of prefixes |
| `NativeTheorem` | `RuntimeProofs` | `NativeTransparent` |
| `HandlesTheorem` | `RuntimeProofs` | `OpenHandlesKept` |
| `CodeTheorem` | `RuntimeProofs` | `[]RunsLoadedCode`, of the programs that leave their code alone (`CodeStays`) |
| `ServeTyped` | `HandlerProofs` | every handler preserves the machine's type |
| `RegionsTheorem` | `StartupProofs` | `[]RegionsApart` |
| `FileTheorem` | `StartupProofs` | `[]FileMatchesItsChain` |
| `QueueTheorem` | `StartupProofs` | `[]QueueFollowsTheBatch` |
| `AdvanceTheorem` | `StartupProofs` | `StartupAdvances`: no image makes `Runtime::new` go in a circle |
| `StartsTheorem` | `StartupProofs` | `[]StartsAsBoot`: `Startup` implements `Boot` |
| `SectorsTheorem` | `StartupProofs` | `[]ReportedSectorsExist`, for all places on the disk and not only its corners |
| `ConditionsTheorem` | `InstructionProofs` | `[](ConditionsAgree /\ FoldedCarryMisjudges)`: the conditions judge the numbers rightly where the carry is kept; elsewhere carry, less and overflow are always wrong |
| `DivisionTheorem` | `InstructionProofs` | `[](DivisionExact /\ WideDivisionExact /\ NegativeAxDividedAlone)`: DIV is exact for all dividends; IDIV of words is for those it reads whole, and divides AX alone otherwise |
| `ProductsTheorem` | `InstructionProofs` | `[]ProductsExact` |
| `DoubleShiftTheorem` | `InstructionProofs` | `[]DoubleShiftsExact` |
| `BitsTheorem` | `InstructionProofs` | `[]BitsExact` |
| `ExtendTheorem` | `InstructionProofs` | `[]ExtendKeepsValue` |
| `OperandTheorem` | `InstructionProofs` | `[]OperandInPlace` |

### The argument: the running machine

**Types.** The lemmas go up the modules. `CpuProofs` shows that memory and
register operators stay in their types (wrapping, byte and word arithmetic);
`JitProofs` that a turn of the translator produces typed operations and
generated code keeps registers, memory and video typed; `OperandProofs` that
reading and writing operands, every ALU group, every escape and so every
interpreted instruction does; `HandlerProofs` lifts this to the machine record,
the file table and the loaders, and goes through every handler. `TypeProofs`
then has one step per action.

`TypeOK` is not inductive alone. `TypeInv` adds three facts: in the phase
`translate` fewer than `BlockLimit` turns have been taken (or `turns` could pass
its bound); generated code runs from a cached block with `at` inside it
(or `cache[key]` would have no value); and the register numbers and ports of all
operations, in the cache and in the block being made, are in the ranges the
translator makes (`GoodCode`), because the type of an operation alone allows a
register number outside the register file.

**Blocks.** `BlocksWellFormed` needs to know the block while it grows.
`BlockInv` adds to `TypeInv` that at `translate` the operations so far contain no
`Exit`, end in `SyncIp` and number at most two per turn (`Open`), and that at
`compile` they are empty or well-formed. `BlocksKept` needs that a block is
compiled only for an address without one (`FreshKey`): the look-up and the
insertion are several steps apart. `RunsBlockAtIp` needs that generated code
leaves CS and IP alone.

**The bytes a block was made of.** Without a condition on the program
`RunsLoadedCode` is false: a program may store over code that has a block, and
the block stays. `CodeTheorem` says that this is all. `CodeStays` asks of a step,
until the batch goes on to its second program, that at the address of each block
the five bytes of the longest translated instruction stay, and DS where that
instruction is a store; the programs of `batch` are of this kind. The invariant
(`CodeInv`) speaks of every block in the cache, and of the block being made after
its first turn: each begins with what the translator would make now of the bytes
at its address. Its heart is `TurnSource`: from the same five bytes, and the same
DS for a store, the translator makes the same operations through whatever
segment and offset the address was reached, but for the IP in `SyncIp`.

**Counting.** `LimitRespected` needs that an instruction is only on its way when
the count is below the limit (`CountInv`). `StepPace` is about one step and
needs the types alone: `StepPaces` goes through the actions.

**The end of a call.** `AdvanceTheorem` goes through the actions (`StepsAdvance`):
a turn of the translator has fewer left by `TypeInv`, an operation too, and the
other actions start on a later part. For prefixes the measure is the distance to
the first byte of the segment that is none (`PrefixesAhead`), which exists
because every set of numbers has a least one (`RunExists`). Fetching one brings
it nearer by one (`FewerPrefixes`), since memory and CS stay and IP goes on by
one; at the segment's end this needs that IP is a word once an opcode has been
fetched (`FetchedIp`), as a near Jcc can leave it above.

**The launcher.** `LauncherTheorem` maps each step to one of the launcher's or
to a stutter, by action: `LaunchInit` for the start, `LaunchNext` for the steps.
It needs of `TypeInv` only that `batch` and the queue are typed, and two facts of
the machine: that a program that is loaded is not halted (`BootedRuns`), and that
loading one does not halt the machine (`LoadKeepsHalted`), or a batch could go
on from a stopped program.

**Interrupts.** `NativeTheorem` needs that the six bytes of an interrupt frame
are distinct at every SS:SP (`StackApart`: two words of the stack two or four
bytes apart do not meet, however the offset wraps in its segment and the address
in the megabyte), so that each word read back is the one pushed (`FrameWords`),
and that every handler that loads no program leaves SS and SP alone
(`ServeKeepsStack`, handler by handler).

**Handles.** `HandlesTheorem` needs an invariant of the file table,
`HandlesInRange`: while fewer than 95 files are open the counter is at most as
many above 5, and the n handles in use are below the counter or among the first n
from 100 up; so neither the counter nor 100 + n is in use. That no step gets around it is
shown once: a step of the runtime, be it an instruction, generated code, a load
or an interrupt, makes at most one request of the table (`FileRequest`: an
opening of either kind, or a move of the handle in BX), because everything else
keeps the table (`Keeps`, along every instruction and handler).

### The argument: the start

`TypeInv` of `StartupProofs` ties the locals of `Runtime::new` to the image: the
disk is the one `load` makes of the file, and the file system is the one found at
the sector of the scan.

* `RegionsTheorem` follows from it by arithmetic on the boot sector's fields.
* `FileInv` says of a file being read that there is a number of clusters along
  its chain (`Along`) such that the bytes so far are those of these clusters, and
  the cluster to come is the next of the chain; `LinkIsNext` shows that the
  code's way to get at twelve bits across two sectors is the table's definition.
* `LoadInv` says that while relocations are applied memory is that of a module
  with the first ones added (`Partial`), with a lemma that adding the load
  segment to a word is adding 10h to its high byte (`AddLoadSeg`), and of each
  ending which loader it comes from.
* `QueueInv` says of the queue in the making that it has the programs of the
  lines before `next`, each in its place (`Queued`), which needs `FileInv` for
  the batch file that was read.
* `AdvanceTheorem` needs `TypeInv` for the numbers that are left: a cluster of a
  file system that is found has at least a byte (`FewerBytes`), so that the
  reading of a chain that loops comes to the size of the file.
* `SectorsTheorem` is about one state: the packing of cylinder and sector into CX
  and the map from places to sectors are injective.

Chain and cluster count are defined by recursion and cardinality. What is proved
of them by induction goes through sets of numbers: `LeastNumber` (from the
library's well-foundedness of the naturals) and `Induction` over a set that
holds zero and the successor of each member.

### The argument: one instruction

`InstructionInv` says that a machine that is done is `Execute` of the machine
when the opcode was fetched, under the prefixes fetched so far. Each theorem is
then one of arithmetic: the value of an operand behind its immediate, the
registers and flags that the operator leaves, and the number these stand for.
The lemmas about flags (`FlagSet` and those around it in `CpuProofs`) say which
bit of the flags word each change leaves. The product of two double words is
computed in the model from products of words, as TLC's numbers have 32 bits, and
so is its carry; `ProductsTheorem` shows that both are those of the product of
the two numbers, which is what `overflowing_mul` promises the code.

### Only model-checked

`FrameEnds` and `StartupEnds` are liveness properties, which are out of the
prover's reach: what they say holds for the programs and images of their runs.
The two theorems on `CallAdvances` and `StartupAdvances` are as near as proofs
come to them, for all programs and images: that a measure over pairs of numbers
cannot go down for ever, and that a fair system takes the steps, is left to the
reader.
Of `RunsLoadedCode` the theorem has a condition that the run's programs meet.

## 5. What is not modelled

* Most of `interp/stack.rs`, `interp/string.rs`, `interp/transfer.rs`, the
  shifts and 32-bit groups of `interp/alu.rs`: nothing calls them. The dispatch
  of `execute_one` starts at the ALU groups, and what it has no case for falls
  through to flow, misc and the 0Fh escapes.
* The conversion of text: names to eleven bytes, trimming and splitting of the
  lines of a BAT file, and the cutting of fields out of boot sectors, directory
  slots and headers. The fields and names are given with the image.
* The place of a file's sectors, once the machine runs: EXEC, OPEN and the
  batch take a file for what reading it returns, the kind of program it is and
  the bytes that end up in memory (`Loader`). `Startup` has the reading.
* `dirty`, tracing, logging and printing: no behaviour depends on them. `close`
  of the file table, `run` of the runtime and the timer's tick have no caller.
* Window, pixels, rendering, audio, devices: host output, or stubs.
  `bus/video.rs` is not part of the build.

## 6. Plan

Done: the running machine (`Runtime` with every instruction the dispatch
reaches), the start (`Startup`), one instruction (`ExecuteOne`), the launcher and
its refinement, and a theorem for every property that is not a liveness
property. What is left, in this order:

1. What the handlers return, as the theorems about instructions have it:
   INT 21h/3Fh moves the bytes at the cursor and no others, and 42h sets it, for
   every file and count.
2. Text: names as eleven bytes, and the splitting of the lines of a BAT file.
