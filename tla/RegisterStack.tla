--------------------------- MODULE RegisterStack ---------------------------
(***************************************************************************)
(* The instruction register stack of a transaction batch                   *)
(* (types/register/register_stack.rs): a fixed array of registers, the top *)
(* of the stack in register 0, and a count.  A transaction hands the       *)
(* instructions it creates to the stack in an array of NewMax slots, some  *)
(* of them empty, and the circuit places the ones in the first `max' slots *)
(* on top without holes.                                                   *)
(*                                                                         *)
(* The operators take and return values, so that OrderEngine uses them on  *)
(* its own state; the state machine at the end of the module is the stack  *)
(* alone, pushed to and popped from in every legal way.                    *)
(***************************************************************************)
EXTENDS Integers, FiniteSets

CONSTANTS
    Instr,     \* the instructions a register can hold
    Empty,     \* BaseRegisterInfoTarget::empty
    Depth,     \* REGISTER_STACK_SIZE
    NewMax,    \* NEW_INSTRUCTIONS_MAX_SIZE = PENDING_BASE_REGISTER_SIZE
    Widths     \* the MAX_NEW_INSTR arguments push_instructions is called with

ASSUME EmptyAssumption == Empty \notin Instr
ASSUME SizeAssumption ==
    /\ NewMax \in Nat \ {0}
    /\ Depth \in Nat
    /\ NewMax < Depth
    /\ Widths \subseteq 1..NewMax

Slots == 0..Depth-1
NewSlots == 0..NewMax-1
Register == Instr \union {Empty}

EmptyStack == [i \in Slots |-> Empty]
NoneNew == [j \in NewSlots |-> Empty]

-----------------------------------------------------------------------------
(* The operations of RegisterStackTarget. *)

\* A bug: the last register keeps its value when the stack is shifted left.
PopFrontKeepsLast(r) ==
    [i \in Slots |-> IF i < Depth - 1 THEN r[i + 1] ELSE r[i]]

\* pop_front: shift left, the last register becomes empty.
PopFront(r) ==
    [i \in Slots |-> IF i < Depth - 1 THEN r[i + 1] ELSE Empty]

\* The slots of the first `max' that hold an instruction.
Held(new, max) == {i \in NewSlots : i < max /\ new[i] # Empty}

\* How many instructions precede slot i: placed_count when the loop reaches i.
Rank(new, max, i) == Cardinality({k \in Held(new, max) : k < i})

\* placed_count at the end of the loop.
Placed(new, max) == Cardinality(Held(new, max))

\* A bug: the new instructions are copied where they are, holes included.
CompactKeepsHoles(new, max) ==
    [j \in NewSlots |-> IF j < max THEN new[j] ELSE Empty]

\* "Stack new elements to the left without holes".
Compact(new, max) ==
    [j \in NewSlots |->
        IF j < Placed(new, max)
        THEN new[CHOOSE i \in Held(new, max) : Rank(new, max, i) = j]
        ELSE Empty]

\* A bug: the shift ignores that an empty base register saves one place.
ShiftRightByAll(r, n, max) ==
    [i \in Slots |-> IF n \in 1..max-1 /\ i > n THEN r[i - n - 1] ELSE r[i]]

\* "Shift existing stack to right by new_instructions_count. If base register is
\* empty, ignore one shift."  The loop tries the amounts 1..max-1 and no other.
ShiftRight(r, n, max) ==
    LET amount == IF r[0] = Empty THEN n - 1 ELSE n
    IN  [i \in Slots |->
            IF amount \in 1..max-1 /\ i >= amount THEN r[i - amount] ELSE r[i]]

\* push_instructions when `n', the count the caller kept, is not zero.
PushInstructions(r, new, n, max) ==
    LET shifted == ShiftRight(r, n, max)
        top     == Compact(new, max)
    IN  [i \in Slots |-> IF i < n THEN top[i] ELSE shifted[i]]

\* A bug: nobody looks whether the stack has room.
PushAllowedAnyDepth(c, new, n, max) == n # 0 => n = Placed(new, max)

\* The two assertions of push_instructions: the caller's count is the number of
\* instructions placed, and the stack has room.
PushAllowed(c, new, n, max) ==
    n # 0 => n = Placed(new, max) /\ c + n <= Depth

\* What callers must ensure, and no assertion says: the shift loop has no case
\* for `max' places, so a full batch may only be pushed on an empty base.  OrderEngine
\* checks that its callers do (StackHasNoHoles).
PushContract(r, n, max) == n < max \/ r[0] = Empty

-----------------------------------------------------------------------------
(* The stack alone. *)

VARIABLES regs, count
vars == <<regs, count>>

TypeOK ==
    /\ regs \in [Slots -> Register]
    /\ count \in 0..Depth

Init == regs = EmptyStack /\ count = 0

\* pop_front with is_enabled set asserts that the count is not zero.
Pop ==
    /\ count # 0
    /\ regs' = PopFront(regs)
    /\ count' = count - 1

PushBatch(new, max) ==
    LET n == Placed(new, max)
    IN  /\ n # 0
        /\ PushAllowed(count, new, n, max)
        /\ regs' = PushInstructions(regs, new, n, max)
        /\ count' = count + n

Push == \E max \in Widths, new \in [NewSlots -> Register] :
            /\ PushContract(regs, Placed(new, max), max)
            /\ PushBatch(new, max)

Next == Pop \/ Push
Spec == Init /\ [][Next]_vars

-----------------------------------------------------------------------------
(* Properties. *)

\* The registers below the count hold instructions and the others are empty:
\* nothing was lost, and no hole hides an instruction from the transaction that
\* looks at register 0 (every handler reads register_stack[0] only).
NoHoles == \A i \in Slots : regs[i] # Empty <=> i < count

\* The stack as a sequence, the top first.
Contents == [k \in 1..count |-> regs[k - 1]]

\* Every push and pop is the operation of a plain stack on that sequence:
\* "Shift existing stack to right by new_instructions_count" keeps what was there,
\* in order, and the batch lands on top of it in the order of its slots.
Plain == INSTANCE InstructionStack WITH stack <- Contents
IsAStack == Plain!Spec
=============================================================================
