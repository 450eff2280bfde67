------------------------------ MODULE TxChains ------------------------------
(***************************************************************************)
(* The two chains of transaction proofs of a block.  The transactions of a *)
(* block are numbered; the heavy circuit proves any of them, the light one *)
(* those on orders, and each kind is chained by itself, so that the two    *)
(* chains are proved in parallel.  Where a chain has not got the next      *)
(* transaction it jumps: it claims the states the gap starts and ends in,  *)
(* and commits to the states its own runs start and end in (its coverage). *)
(* A block is accepted only if the claims of each chain are the coverage   *)
(* of the other.                                                           *)
(*                                                                         *)
(* A state stands for a state root together with the delta root, which     *)
(* goes through the same steps.  A hash chain is the sequence of what was  *)
(* hashed.  A chain step takes one transaction (block_tx_constraints.rs    *)
(* loops over the transactions of a proof in the same way).                *)
(***************************************************************************)
EXTENDS Integers, Sequences, FiniteSets

CONSTANTS
    Root,      \* the states
    Effects,   \* what a heavy transaction from one state to another leaves behind
    MaxOnChain \* on_chain_operations_limit

Path == {"heavy", "light"}
Message == {"change_pub_key", "transfer", "approve_integrator"}

ASSUME TxChainsAssumption ==
    /\ Effects \in [Root \X Root -> SUBSET (Message \union {"priority", "on_chain"})]
    /\ MaxOnChain \in Nat

VARIABLE chain \* per path, the last proof of its chain

-----------------------------------------------------------------------------
(* JumpState *)

\* JumpState::initial, in the field -1 is the index before the first.
JumpInitial(r) ==
    [last |-> -1, prevNew |-> r, runPrev |-> -1, runOld |-> r,
     coverage |-> << >>, claims |-> << >>, count |-> 0]

\* The run that ends with the last transaction of the chain.
CoverageRecord(j) ==
    [from |-> j.runPrev, to |-> j.last + 1, old |-> j.runOld, new |-> j.prevNew]

\* The gap from the last transaction of the chain to the one with index i.
ClaimRecord(j, i, r) == [from |-> j.last, to |-> i, old |-> j.prevNew, new |-> r]

\* A bug: a transaction need not start where the last one of its chain ended.
JumpForgetsState(j, i, old) == i > j.last

\* A transaction that has a type may not repeat an index or go back, and one that
\* follows on the last of its chain starts where that one ended.
JumpAllowed(j, i, old) == i > j.last /\ (i = j.last + 1 => old = j.prevNew)

\* define_jump_step, for a transaction that is not padding.
JumpStep(j, i, old, new) ==
    LET jumped == i # j.last + 1
    IN  [last     |-> i,
         prevNew  |-> new,
         runPrev  |-> IF jumped THEN i - 1 ELSE j.runPrev,
         runOld   |-> IF jumped THEN old ELSE j.runOld,
         coverage |-> IF jumped /\ j.last # j.runPrev
                      THEN Append(j.coverage, CoverageRecord(j)) ELSE j.coverage,
         claims   |-> IF jumped THEN Append(j.claims, ClaimRecord(j, i, old)) ELSE j.claims,
         count    |-> j.count + 1]

-----------------------------------------------------------------------------
(* The steps of a chain. *)

\* cyclic_base_witness: step zero starts in a state the block circuit compares later.
\* `slots' is not in the proof: it remembers the transactions the chain proves.
NewChain(r) ==
    [jump |-> JumpInitial(r), initial |-> r, new |-> r, steps |-> 0,
     priority |-> << >>, onChain |-> << >>, messages |-> {}, slots |-> {}]

\* define_light refuses what has effects outside the state.
EffectsOf(p, old, new) == IF p = "heavy" THEN Effects[<<old, new>>] ELSE {}

\* At most one priority operation and one message of a kind in a chain.
StepAllowed(c, i, old, new, effects) ==
    /\ JumpAllowed(c.jump, i, old)
    /\ "priority" \in effects => c.priority = << >>
    /\ "on_chain" \in effects => Len(c.onChain) # MaxOnChain
    /\ effects \intersect c.messages = {}

Emit(log, op, flag) == IF flag THEN Append(log, op) ELSE log

\* A transaction with index i takes the state from `old' to `new'.
AddTx(p, i, old, new) ==
    LET c == chain[p]
        effects == EffectsOf(p, old, new)
    IN  /\ StepAllowed(c, i, old, new, effects)
        /\ chain' = [chain EXCEPT ![p] =
               [c EXCEPT !.jump = JumpStep(c.jump, i, old, new),
                         !.new = new,
                         !.steps = c.steps + 1,
                         !.priority = Emit(c.priority, <<old, new>>, "priority" \in effects),
                         !.onChain = Emit(c.onChain, <<old, new>>, "on_chain" \in effects),
                         !.messages = c.messages \union (effects \intersect Message),
                         !.slots = c.slots \union {[index |-> i, old |-> old, new |-> new]}]]

\* An empty transaction fills a place of the proof: it repeats the index of the last one
\* and changes nothing, in whatever state it is proved.
AddPadding(p, r) ==
    LET c == chain[p]
    IN  chain' = [chain EXCEPT ![p] = [c EXCEPT !.new = r, !.steps = c.steps + 1]]

-----------------------------------------------------------------------------
(* The block circuit puts the chains together. *)

\* finalize_jump: the last run and, for the chain that does not end the block, the claim
\* on what follows it.
FinalCoverage(j) ==
    IF j.last # j.runPrev THEN Append(j.coverage, CoverageRecord(j)) ELSE j.coverage

FinalClaims(j, total, new) ==
    IF j.last + 1 # total THEN Append(j.claims, ClaimRecord(j, total, new)) ELSE j.claims

TotalTxs == chain["heavy"].jump.count + chain["light"].jump.count
AtEnd(p) == chain[p].jump.last + 1 = TotalTxs

\* The chain whose last transaction is the last of the block gives the state of the block.
Ending == chain[IF AtEnd("heavy") THEN "heavy" ELSE "light"]

\* A bug: the state of the block is that of the last proof, padding or not.
EndsAnywhere(c) == TRUE

\* "trailing padding txs cannot substitute an arbitrary valid state as the block's final
\* state"
EndsInLastTx(c) == c.new = c.jump.prevNew

\* define_jump_checks
JumpChecks ==
    LET heavy == chain["heavy"].jump
        light == chain["light"].jump
    IN  /\ AtEnd("heavy") \/ AtEnd("light")
        /\ EndsInLastTx(Ending)
        /\ FinalCoverage(heavy) = FinalClaims(light, TotalTxs, Ending.new)
        /\ FinalCoverage(light) = FinalClaims(heavy, TotalTxs, Ending.new)

-----------------------------------------------------------------------------
(* What the checks are for. *)

AllSlots == UNION {chain[p].slots : p \in Path}
SlotsAt(i) == {x \in Path \X AllSlots : x[2] \in chain[x[1]].slots /\ x[2].index = i}

Starts(s, r) == IF s.index = 0 THEN s.old = r ELSE \E t \in AllSlots :
                    t.index = s.index - 1 /\ t.new = s.old
Ends(r, new) == IF AllSlots = {} THEN new = r ELSE \E s \in AllSlots :
                    s.index = TotalTxs - 1 /\ s.new = new

\* The transactions of both chains are one run from r to `new': every index is proved
\* once, by one chain, and every transaction starts where the one before it ended.
OneRun(r, new) ==
    /\ \A i \in 0..TotalTxs - 1 : \E x \in SlotsAt(i) : SlotsAt(i) = {x}
    /\ \A s \in AllSlots : s.index \in 0..TotalTxs - 1 /\ Starts(s, r)
    /\ Ends(r, new)
=============================================================================
