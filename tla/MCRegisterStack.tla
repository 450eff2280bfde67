-------------------------- MODULE MCRegisterStack --------------------------
(* A stack of five registers, batches of up to four, pushed with the widths *)
(* a transaction uses scaled to that size (3 and 8 of 9 in the code).       *)
EXTENDS RegisterStack, SequencesExt

\* Compact is SelectSeq of the non-empty slots, for every array and width:
\* "Stack new elements to the left without holes" loses and reorders nothing.
ASSUME CompactIsSelect ==
    \A new \in [NewSlots -> Register], max \in Widths :
        LET IsHeld(x) == x # Empty
            kept == SelectSeq([k \in 1..max |-> new[k - 1]], IsHeld)
        IN  [j \in 1..Placed(new, max) |-> Compact(new, max)[j - 1]] = kept
=============================================================================
