------------------------------ MODULE Batches ------------------------------
(***************************************************************************)
(* How the proofs of blocks become the proof of a batch.  The recursive    *)
(* circuit adds one block after another to a segment                       *)
(* (recursion/cyclic_circuit.rs); segments are proved in parallel, each    *)
(* from an empty batch, and the wrapper circuit merges them in order       *)
(* (recursion/batch.rs, recursion/wrapper_circuit.rs).                     *)
(*                                                                         *)
(* A state stands for the state root and the delta root; the hash over the *)
(* operations of a batch is the sequence of what was hashed.               *)
(***************************************************************************)
EXTENDS Integers, Sequences

CONSTANT MaxSegments \* NUM_CHAINS_PER_BATCH

ASSUME BatchesAssumption == MaxSegments \in Nat \ {0}

\* The batch of the first recursion.  A segment starts from the on-chain operations of
\* the segments before it, which its proof takes on trust.
EmptyBatch(segment, nowhere) ==
    [end |-> 0, size |-> 0, start |-> 0, last |-> 0, old |-> nowhere, new |-> nowhere,
     segment |-> segment, onChain |-> segment, count |-> 0,
     oldPrefix |-> << >>, prefix |-> << >>]

\* perform_sanity_checks: nothing is asked of the first block of a segment.
Follows(b, block) ==
    b.size # 0 =>
        /\ block.number = b.end + 1
        /\ b.last <= block.created
        /\ b.new = block.old
        /\ b.prefix = block.oldPrefix

\* calculated_new_batch
Aggregate(b, block) ==
    [b EXCEPT !.end = block.number, !.size = @ + 1, !.last = block.created,
              !.start = IF b.size = 0 THEN block.created ELSE @,
              !.old = IF b.size = 0 THEN block.old ELSE @,
              !.new = block.new,
              !.onChain = @ \o block.onChain,
              !.count = @ + block.count,
              !.oldPrefix = IF b.size = 0 THEN block.oldPrefix ELSE @,
              !.prefix = block.prefix]

\* What the wrapper and conditionally_merge_consecutive ask of two segments.
Mergeable(a, b) ==
    /\ a.onChain = b.segment
    /\ b.end - b.size = a.end
    /\ a.last <= b.start
    /\ a.new = b.old
    /\ a.prefix = b.oldPrefix

\* conditionally_merge_consecutive
Merge(a, b) ==
    [a EXCEPT !.end = b.end, !.size = @ + b.size, !.last = b.last, !.new = b.new,
              !.onChain = b.onChain, !.count = @ + b.count, !.prefix = b.prefix]

\* The batch of the first i segments.
Merged(segments, i) ==
    LET upTo[k \in 1..Len(segments)] ==
            IF k = 1 THEN segments[1] ELSE Merge(upTo[k - 1], segments[k])
    IN  upTo[i]

\* handle_segment_proofs: the first segment starts from no operations, and every other
\* one where the ones before it, merged, end.
WrapperAccepts(segments) ==
    /\ Len(segments) \in 1..MaxSegments
    /\ segments[1].segment = << >>
    /\ \A i \in 2..Len(segments) : Mergeable(Merged(segments, i - 1), segments[i])
=============================================================================
