------------------------------ MODULE MCBlocks ------------------------------
(* Two states without an instruction and one with; a heavy transaction between the first *)
(* two is a priority operation one way and a withdrawal the other.                       *)
EXTENDS Blocks

EffectOf == [x \in (Root \X Root) |->
    CASE x = <<"a", "b">> -> {"priority"}
      [] x = <<"b", "a">> -> {"on_chain", "transfer"}
      [] x = <<"b", "b">> -> {"change_pub_key"}
      [] OTHER -> {}]

\* The first block has room for every way two chains fit together, the others for one
\* transaction.
Rooms == [n \in 1..MaxBlocks |->
    IF n = 1 THEN [p \in Path |-> 2]
    ELSE [p \in Path |-> IF p = "heavy" THEN 1 ELSE 0]]
Indices == [n \in 1..MaxBlocks |-> IF n = 1 THEN 2 ELSE 0]

(* Segments merged by the wrapper against one segment that takes all the blocks. *)
Some == [number : 1..3, created : {1, 2}, old : {"a", "b"}, new : {"a", "b"},
         onChain : {<< >>, <<"x">>}, count : {0}, oldPrefix : {<< >>}, prefix : {<< >>}]
Few == {w \in [number : 1..3, created : {1}, old : {"a"}, new : {"a", "b"}, onChain : {<<"x">>},
                count : {1}, oldPrefix : {<< >>, <<1>>}, prefix : {<<1>>, <<1, 1>>}] :
           Len(w.prefix) > Len(w.oldPrefix)}
Lists == (Some \X Some) \union (Few \X Few \X Few)

After(list, from, to, segment) ==
    LET upTo[i \in (from - 1)..to] ==
            IF i < from THEN EmptyBatch(segment, "a") ELSE Aggregate(upTo[i - 1], list[i])
    IN  upTo

Chained(list, from, to, segment) ==
    \A i \in from..to : Follows(After(list, from, to, segment)[i - 1], list[i])

ASSUME SegmentsMerge ==
    \A list \in Lists : \A cut \in 1..Len(list) - 1, segment \in {<< >>, <<"x">>} :
        LET n == Len(list)
            whole == After(list, 1, n, << >>)[n]
            front == After(list, 1, cut, << >>)[cut]
            back == After(list, cut + 1, n, segment)[n]
            apart == Chained(list, 1, cut, << >>) /\ Chained(list, cut + 1, n, segment)
        IN  /\ (apart /\ WrapperAccepts(<<front, back>>)) <=>
                   (Chained(list, 1, n, << >>) /\ segment = front.onChain)
            /\ segment = front.onChain => Merged(<<front, back>>, 2) = whole
=============================================================================
