------------------------------ MODULE Launcher ------------------------------
(***************************************************************************)
(* What the runtime promises its user, with the processor left out: the    *)
(* programs of the batch run one at a time, in order, none skipped, none   *)
(* run again; a machine that has stopped stays stopped, and one that has   *)
(* died neither runs nor loads anything.                                   *)
(***************************************************************************)
EXTENDS Integers

VARIABLES length, program, state

vars == <<length, program, state>>

Init == /\ length \in Nat
        /\ program = IF length = 0 THEN 0 ELSE 1
        /\ state = "running"

Advance == /\ state = "running" /\ program < length
           /\ program' = program + 1
           /\ UNCHANGED <<length, state>>

Stop == /\ state = "running"
        /\ state' = "stopped"
        /\ UNCHANGED <<length, program>>

\* A program that cannot be loaded brings everything down on its turn.
Die == /\ state # "dead"
       /\ state' = "dead"
       /\ \/ UNCHANGED program
          \/ state = "running" /\ program < length /\ program' = program + 1
       /\ UNCHANGED length

Next == Advance \/ Stop \/ Die

Spec == Init /\ [][Next]_vars

=============================================================================
