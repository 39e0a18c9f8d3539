--------------------------- MODULE RuntimeClaims ---------------------------
(***************************************************************************)
(* What comments of the program say of it and the program does not do.     *)
(* Each of these is violated: see the findings in the README.              *)
(***************************************************************************)
EXTENDS RuntimeProperties

Running(kind) == pc = "run" /\ at <= Len(Block) /\ Block[at].op = kind

\* cpu/jit.rs:80 "MOV reg, imm16": generated code leaves the immediate in the
\* register the instruction names.
MovLoadsItsRegister ==
  [][Running("MovRegImm") =>
       Get16(machine'.regs, Block[at].a) = Block[at].b]_vars

\* cpu/regs.rs:72 "Instruction pointer (EIP)": SyncIp brings ip up to date, so
\* that the frame of an INT met by the translator returns to what follows it.
IpIsSynced ==
  [][Running("SyncIp") => machine'.regs.ip = Block[at].a]_vars

\* runtime/interrupts/system.rs:30 "set ZF if no key": polling the keyboard,
\* which never has a key, returns with the zero flag set.
KeyPollSetsZero ==
  [][Serving /\ pc' = "idle" /\ result.num = 22 /\ Get8(machine.regs, AH) = 1
       => Flag(machine'.regs, ZeroFlag)]_vars

\* runtime/interrupts/dos.rs:215 "Load and execute": when INT 21h/4Bh has
\* loaded a program, execution goes on at its entry point.
ExecTransfers ==
  [][Serving /\ pc' = "idle" /\ IsExec(result.num, Framed) =>
       \A n \in OnDisk(Framed, disk) : Loads(disk.files[n]) =>
         LET r == ExecuteBinary(Framed, disk.files[n]).regs
         IN /\ machine'.regs.ip = r.ip
            /\ GetSeg(machine'.regs, CS) = GetSeg(r, CS)]_vars

=============================================================================
