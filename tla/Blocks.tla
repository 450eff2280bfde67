------------------------------- MODULE Blocks -------------------------------
(***************************************************************************)
(* Blocks: before its transactions a block may apply the funding of an     *)
(* hour, take prices from the oracle and take a sample of the premium      *)
(* (block_pre_execution_constraints.rs); its transactions are proved in    *)
(* two chains (TxChains); the block circuit puts the proofs together       *)
(* (block_constraints.rs) and the recursive circuit adds the block to the  *)
(* batch (Batches).                                                        *)
(*                                                                         *)
(* A proof is made by whoever runs the prover: all inputs a circuit leaves *)
(* open are chosen freely here.  The states a chain may start in are an    *)
(* exception: both start in the same one, since nothing else can be put    *)
(* together.                                                               *)
(***************************************************************************)
EXTENDS TxChains, Batches

CONSTANTS
    Pending,   \* the states with an instruction on the register stack
    Genesis,   \* the state on L1 when the batch starts
    Minute, Hour,
    Room,      \* bound: the transactions of a chain, by path, in the blocks of a number
    MaxIndex,  \* bound: the indices of transactions, in the blocks of a number
    Paddings,  \* bound: the empty transactions of a chain
    MaxBlocks, \* bound: the blocks of the batch
    MaxTime    \* bound: the time of a block

ASSUME BlocksAssumption ==
    /\ Pending \subseteq Root
    /\ Genesis \in Root
    /\ Minute \in Nat \ {0} /\ Hour \in Nat \ {0} /\ Hour % Minute = 0
    /\ Room \in [1..MaxBlocks -> [Path -> Nat]]
    /\ MaxIndex \in [1..MaxBlocks -> Nat]
    /\ Paddings \in Nat /\ MaxBlocks \in Nat /\ MaxTime \in Nat

VARIABLES
    batch,   \* the batch so far
    clock,   \* state_metadata: part of the state no transaction changes
    block    \* the transitions of the block, when the last step accepted one

blockVars == <<chain, batch, clock, block>>

-----------------------------------------------------------------------------
(* Pre-execution *)

\* round_unix_timestamp_to_next_hour, round_unix_timestamp_to_previous_minute
NextHour(t) == t + (Hour - (t % Hour))
ThisMinute(t) == t - (t % Minute)

FundingDue(t) == t >= NextHour(clock.funding)
PremiumDue(t) == t >= ThisMinute(clock.premium) + 2 * Minute

\* A bug: a minute may give two samples.
PremiumAnyTime(t) == TRUE

\* "Check if new premium is not in the same minute interval"
PremiumAllowed(t) == ThisMinute(clock.premium) + Minute <= t

\* A block at time t that starts in state `old': funding is applied when it is due and
\* not otherwise, a premium is taken at the latest when a minute has been missed.
PreExecution(t, old, funding, prices, premium) ==
    /\ funding <=> FundingDue(t)
    /\ PremiumDue(t) => premium
    /\ premium => PremiumAllowed(t)
    /\ funding \/ prices \/ premium => old \notin Pending

\* define_block_pre_execution, for a market that stays active: `samples' counts what
\* aggregate_premium_sum adds up.  Funding comes first and starts the sum again.
Clock(t, funding, prices, premium) ==
    [funding |-> IF funding THEN t ELSE clock.funding,
     oracle  |-> IF prices THEN t ELSE clock.oracle,
     premium |-> IF premium THEN t ELSE clock.premium,
     samples |-> (IF funding THEN 0 ELSE clock.samples) + (IF premium THEN 1 ELSE 0)]

-----------------------------------------------------------------------------
(* The block circuit. *)

\* "Constrain light path to not carry l1 messages, priority operations, or on-chain
\* operations."
LightCarriesNothing ==
    /\ chain["light"].priority = << >>
    /\ chain["light"].onChain = << >>
    /\ chain["light"].messages = {}

\* "A block can have only one l1 signature"
OneSignature == \A m, n \in chain["heavy"].messages : m = n

\* What the block circuit asks of the two chains alone: each has proved a transaction or
\* padding, both start in one state, and they cover each other's gaps.
ChainsFit ==
    /\ \A p \in Path : chain[p].steps > 0
    /\ chain["heavy"].initial = chain["light"].initial
    /\ JumpChecks
    /\ LightCarriesNothing
    /\ OneSignature

Witness(number, t, old) ==
    LET heavy == chain["heavy"]
    IN  [number |-> number, created |-> t, old |-> old, new |-> Ending.new,
         onChain |-> heavy.onChain, count |-> Len(heavy.priority),
         oldPrefix |-> batch.prefix, prefix |-> batch.prefix \o heavy.priority]

\* The state and the priority operations a batch starts from are for the L1 contract to
\* check (external), the others for the circuits.
Anchored(w) == batch.size = 0 => w.old = Genesis /\ w.oldPrefix = << >>

\* What the block does, in order: the transaction with each index, after the change of
\* prices if there is one.
TxAt(i) == CHOOSE x \in SlotsAt(i) : TRUE

TxTransition(p, s) ==
    [kind |-> "tx", old |-> s.old, new |-> s.new,
     priority |-> "priority" \in EffectsOf(p, s.old, s.new)]

TxTransitions == [i \in 1..TotalTxs |-> TxTransition(TxAt(i - 1)[1], TxAt(i - 1)[2])]

PricesTransition(old, r) == [kind |-> "prices", old |-> old, new |-> r, priority |-> FALSE]

Transitions(old, r, changed) ==
    IF changed THEN <<PricesTransition(old, r)>> \o TxTransitions ELSE TxTransitions

\* Pre-execution takes the state from `old' to the one the chains start in.
AcceptBlock(t, old, funding, prices, premium) ==
    LET changed == funding \/ prices \/ premium
        r == chain["heavy"].initial
        w == Witness(batch.end + 1, t, old)
    IN  /\ PreExecution(t, old, funding, prices, premium)
        /\ IF changed THEN r \notin Pending ELSE r = old
        /\ Anchored(w) /\ Follows(batch, w)
        /\ batch' = Aggregate(batch, w)
        /\ clock' = Clock(t, funding, prices, premium)
        /\ block' = Transitions(old, r, changed)

-----------------------------------------------------------------------------
(* The state machine. *)

Init ==
    /\ \E r \in Root : chain = [p \in Path |-> NewChain(r)]
    /\ batch = EmptyBatch(<< >>, Genesis)
    /\ clock = [funding |-> 0, oracle |-> 0, premium |-> 0, samples |-> 0]
    /\ block = << >>

Number == batch.end + 1
Txs(p) == Cardinality(chain[p].slots)

ProveTx(p) ==
    /\ Number \in 1..MaxBlocks /\ Txs(p) < Room[Number][p]
    /\ \E i \in 0..MaxIndex[Number], old, new \in Root : AddTx(p, i, old, new)
    /\ block' = << >>
    /\ UNCHANGED <<batch, clock>>

ProvePadding(p) ==
    /\ Number \in 1..MaxBlocks /\ chain[p].steps - Txs(p) < Paddings
    /\ \E r \in Root : AddPadding(p, r)
    /\ block' = << >>
    /\ UNCHANGED <<batch, clock>>

Accept ==
    /\ Number \in 1..MaxBlocks
    /\ ChainsFit
    /\ \E t \in 0..MaxTime, old \in Root, funding, prices, premium \in BOOLEAN :
          AcceptBlock(t, old, funding, prices, premium)
    /\ \E r \in Root : chain' = [p \in Path |-> NewChain(r)]

Next == (\E p \in Path : ProveTx(p) \/ ProvePadding(p)) \/ Accept

Spec == Init /\ [][Next]_blockVars

-----------------------------------------------------------------------------
(* What must hold. *)

\* Blocks that the circuits accept, light and heavy proofs put together, padding
\* anywhere, are the transactions of one history: none twice, none left out, none out of
\* order, and prices change only where no instruction waits.
History == INSTANCE Rollup WITH
    root <- IF batch.size = 0 THEN Genesis ELSE batch.new,
    priority <- batch.prefix
Implements == History!Spec

\* However late or often blocks come, the sum of premiums that funding divides by the
\* minutes of an hour has no more samples than that: a sample counts for the minute it
\* is taken in, and funding is applied before the first one of an hour.
SamplesFit == clock.samples <= Hour \div Minute
=============================================================================
