----------------------------- MODULE ExecuteOne -----------------------------
(***************************************************************************)
(* One call of execute_one (cpu/interp/mod.rs) on any machine: prefixes,   *)
(* opcode and operands of one instruction, whatever runs before and after. *)
(* The runtime takes the same steps between its others.                    *)
(***************************************************************************)
EXTENDS Bios, Interp

CONSTANT Starts   \* the machines the instruction is executed on, in families

ASSUME StartsAssumption == \A family \in Starts : \A s \in family : IsMachine(s)

VARIABLES
  before,   \* the machine when the opcode was fetched
  machine,  \* the machine now
  prefix,   \* the prefixes fetched so far
  opcode,
  result,
  stage     \* fetch, decode, done or crashed

vars == <<before, machine, prefix, opcode, result, stage>>

Init == /\ \E family \in Starts : machine \in family
        /\ ~machine.halted
        /\ before = machine
        /\ prefix = NoPrefix /\ opcode = 0 /\ result = Continue
        /\ stage = "fetch"

Fetch == /\ \/ stage = "fetch"
            \/ stage = "decode" /\ opcode \in Prefixes
         /\ opcode' = Imm8(machine)
         /\ machine' = Skip(machine)
         /\ before' = machine'
         /\ prefix' = IF stage = "fetch" THEN NoPrefix
                                         ELSE Prefixed(prefix, opcode)
         /\ stage' = "decode"
         /\ UNCHANGED result

Dispatched == stage = "decode" /\ opcode \notin Prefixes

Dispatch ==
  /\ Dispatched /\ ~Panicking(opcode, machine, prefix)
  /\ \E o \in {Execute(opcode, machine, prefix)} :
        machine' = o.machine /\ result' = o.result
  /\ stage' = "done"
  /\ UNCHANGED <<before, prefix, opcode>>

Crash == /\ Dispatched /\ Panicking(opcode, machine, prefix)
         /\ stage' = "crashed"
         /\ UNCHANGED <<before, machine, prefix, opcode, result>>

Over == stage \in {"done", "crashed"} /\ UNCHANGED vars

Next == Fetch \/ Dispatch \/ Crash \/ Over

Spec == Init /\ [][Next]_vars

=============================================================================
