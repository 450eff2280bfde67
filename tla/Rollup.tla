------------------------------- MODULE Rollup -------------------------------
(***************************************************************************)
(* What the proofs promise, without proofs: a state that goes from block   *)
(* to block, each a new set of prices or none and then transactions, one   *)
(* after the other, each from the state the one before it left.  Prices    *)
(* change only where no instruction waits.                                 *)
(***************************************************************************)
EXTENDS Integers, Sequences

CONSTANTS
    Root,    \* the states
    Pending, \* those in which an instruction waits to be executed
    Genesis

VARIABLES
    root,    \* the state after the last block
    block,   \* the transitions of the block, when the last step was one
    priority \* the priority operations of all blocks, in order

Kind == {"prices", "tx"}
Transition == [kind : Kind, old : Root, new : Root, priority : BOOLEAN]

Init == root = Genesis /\ block = << >> /\ priority = << >>

\* The transitions form one run from r to s.
Runs(r, b, s) ==
    /\ b[1].old = r
    /\ b[Len(b)].new = s
    /\ \A i \in 1..Len(b) - 1 : b[i].new = b[i + 1].old

Prioritized(b) == {i \in 1..Len(b) : b[i].priority}

\* A block executes no more than one operation the L1 contract has queued.
Executes(b, before, after) ==
    \/ Prioritized(b) = {} /\ after = before
    \/ \E i \in 1..Len(b) :
          Prioritized(b) = {i} /\ after = Append(before, <<b[i].old, b[i].new>>)

Apply ==
    /\ block' \in Seq(Transition)
    /\ IF block' = << >> THEN root' = root ELSE Runs(root, block', root')
    /\ \A i \in 1..Len(block') :
          block'[i].kind = "prices" => i = 1 /\ block'[i].old \notin Pending
    /\ Executes(block', priority, priority')

Spec == Init /\ [][Apply]_<<root, block, priority>>
=============================================================================
