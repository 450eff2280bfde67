-------------------------- MODULE InstructionStack --------------------------
(***************************************************************************)
(* What the register stack promises: a stack of instructions, bounded by   *)
(* Depth, on which a transaction places a batch of at most NewMax and from *)
(* which an internal transaction takes the top.                            *)
(***************************************************************************)
EXTENDS Integers, Sequences

CONSTANTS Instr, Depth, NewMax
VARIABLE stack

Batches == UNION {[1..n -> Instr] : n \in 1..NewMax}

Init == stack = << >>

\* An internal transaction finishes the instruction on top (pop_front).
Pop == stack # << >> /\ stack' = Tail(stack)

\* A transaction leaves instructions on top (push_instructions).
Push == \E batch \in Batches :
            /\ Len(batch) + Len(stack) <= Depth
            /\ stack' = batch \o stack

Next == Pop \/ Push
Spec == Init /\ [][Next]_stack
=============================================================================
