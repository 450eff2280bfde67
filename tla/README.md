# Lighter prover: a verification project

`lighter-prover` is the set of plonky2 circuits that prove the state transitions of the
Lighter exchange: an order book exchange for perpetuals, spot and binary options whose
sequencer must show, transaction by transaction, that it did what the rules say. What the
circuits accept *is* the exchange's behaviour. This project models what they decide about

* **orders**: the transactions that place, change, trigger, match and cancel them, the counts
  and positions they keep, and the stack of instructions through which one transaction makes
  the next ones happen;
* **balances**: deposits, withdrawals, transfers, margin settings, spot fills and fees, the
  markets on outcomes that set balances aside, and the pools whose shares are claims on them;
* **blocks**: how proofs of transactions, made apart and in any order, become blocks and
  batches that are one history.

TLC checks these on small instances. For every value of their constants TLAPS proves the stack,
the ledger of counts and positions, the order engine that is made of both, the balances with the
markets on outcomes, and the blocks.

All paths below are relative to `src/`; `C/` is `src/circuit/src/`.

## 1. The system

A **block** is a list of transactions, proved in chunks and folded together
(`C/block*.rs`, `C/recursion/`). Each **transaction** is one run of `TxTarget::define`
(`C/tx_constraints.rs:695-1082`): check the type (`C/types/tx_type.rs`), `verify`, `apply`,
push up to 3 new instructions, run the matching engine if asked, push up to 8 more. Nothing
runs concurrently inside a proof. The difficulty is elsewhere:

* a transaction can only touch a handful of leaves, so whatever takes more (cancelling many
  orders, one order meeting many makers, a parent with children) is spread over a *sequence*
  of transactions, with an **instruction on the register stack** in between. Other things
  happen meanwhile: fills, triggers, expiry, a block boundary;
* no transaction can enumerate the orders of an account or of a market. Every decision about
  "all orders" trusts a **count** in some leaf that every other transaction must have kept;
* the same fact lives in several trees (account order, order book leaf, locked balance,
  position), written by different statements under different flags;
* while an instruction is pending, *no* user transaction is accepted. An instruction that can
  never be finished stops the exchange.

The sequencer is free to choose which transaction comes next and which witness it brings (the
maker it claims is best, the order it cancels for a cancel-all, the size of a TWAP slice). The
circuits must be right whatever it chooses; the models leave those choices open.

### Inventory

| component | state it keeps | operations | interacts with | hard behaviour | what makes it correct | status |
|---|---|---|---|---|---|---|
| Instruction register stack (`C/types/register/`) | 9 registers, a count | `pop_front`, `push_instructions::<3/8>` | every transaction | compaction of a batch with holes; shift by one less on an empty base; capacity | it is a stack; no hole; nothing lost | modelled, proved |
| Order counts, margin modes, market slots (`C/types/account_position.rs`, `market.rs`, counts in `matching_engine.rs:3012-3160`) | three leaves with counts; position; margin mode; open interest; slot status | increment, decrement, trigger, `init_if_empty`, release, leverage, configuration, close, exit, deleverage | all order transactions | the count depends on the *present* margin mode; slot reuse; settlement | counts are exact; a slot is released exactly when empty | modelled for orders and positions, proved |
| Matching engine (`C/matching_engine.rs`) | none; works on register 0, one maker, the book | one step per transaction | stack, ledger, book, locks | about twenty outcomes with priorities between them, over two orders | book uncrossed and in step with the orders; slippage; reduce-only | modelled for perps and spot, proved |
| Order transactions (`C/transactions/l1_*order*`, `l2_*order*`) | account orders tree, nonces, dead man's switch | create, group, modify, cancel, cancel all | stack, matching | grouped orders, modification after partial fills | nothing is lost, doubled or forgotten | modelled for perps and spot, proved but for the groups' links |
| Internal transactions (`C/transactions/internal_*`) | as above | cancel, cancel all, create (trigger, slice, child), claim, liquidate, deleverage, exit, transfer, pending unlock | finish instructions | they race with fills, expiry and each other | everything pending can be finished | modelled, except spot liquidation; invariants proved |
| Dispatch (`C/types/tx_type.rs`, `tx_constraints.rs`) | API key nonces, expiry | which transaction may run | all | DMS-blocked types, skipped nonces | no replay; nothing while the stack is busy | partly (stack and DMS guards, account types, published deltas) |
| Block chain (`C/block*.rs`, `C/recursion/`) | block number, time, roots, priority operations | fold, aggregate, wrap | all | light and heavy chains side by side | the accepted blocks are one history | modelled but for signatures and the blob; refinement proved |
| Pre-execution (`C/block_pre_execution*.rs`) | funding, oracle prices | once per block | markets | blocks come late or in bursts; only on an empty stack | funding once an hour, a premium sample once a minute | when it happens, not the rates; proved |
| Light transactions (`C/light_tx_constraints.rs`) | same as full | a cheaper circuit for few types | matching | a second implementation of the same rules | it agrees with the full circuit | its place in a block |
| Risk (`C/liquidation.rs`, `types/risk_info.rs`) | margin, health | verdicts | matching, liquidation | verdicts mid-trade | no trade worsens an unhealthy account | a choice in the engine; balances without positions in Funds |
| Funds, assets, transfers (`C/types/account_asset.rs`, `margined_asset.rs`, `transactions/l*_deposit/withdraw/transfer*`, `l2_update_*`) | spot and margin balances, strategies, supply totals, locks | deposit, withdraw, transfer, settings, spot fill, fee payment | locks, risk, public data | two sides of an asset, two trading modes, caps, fees paid later | conservation; published deltas add up; fees can be paid | modelled, except the registration of assets; proved |
| Accounts, keys, configuration | keys, modes, integrators | change key, sub-accounts, config | dispatch | mode change with open orders | nothing is stranded | modes, margin settings, share lists and unlocks; not keys |
| Public and staking pools (`C/transactions/l*_shares*`, `*_pool*`, `*stake*`) | shares, principal, unlocks | create, configure, mint, burn, stake, unstake, unlock | funds | rounding, sorted lists of fixed size, a stake limit over two pools | nobody pays for another's exit; unlocks are paid | modelled |
| System configuration (`l1_set_system_config.rs`) | system pools, periods | one priority request | pools | changed under holders | | modelled |
| Binary options (`l2_create_market.rs`, `l2_update_market*.rs`, `l2_settle_outcome.rs`, `internal_settle_binary_options_position.rs`, `apply_trade.rs:1091-1390`) | a market leaf per slot, a position per account | assign the slot, create, freeze, trade, settle, pay out, release | funds, matching | what is set aside is in no leaf; slots are used again | payouts are what was set aside; nothing is left for the next market | modelled but for the order book and the trading window; proved |
| Data availability (`C/delta/`, `C/blob/`) | evaluations over a field | | | | | out of TLC's reach |
| Trees, hashes, bigints, curves, signatures (`C/merkle_helpers.rs`, `bigint/`, `ecdsa/`, `eddsa/` ...) | | | | | | out of TLC's reach; a leaf is a variable here |
| Desert exit (`desertexit/`) | published account data | prove a value | | stale data | | not modelled |
| Wrapping, benches, vendored plonky2 and p3 | | | | | | not modelled |

`PROJECT.json` lists the same components with their files, and under `hazards` each place
where the code is hard to test, with the properties that would catch it going wrong.

## 2. Modules

```
RegisterStack ──refines──> InstructionStack        OrderLedger
      ^   ^                                          ^     ^
      |   └──────────── INSTANCE ─── ExchangeState ──┘     |
RegisterStackProofs                    ^            OrderLedgerProofs
      ^                             Matching               ^
      |                                ^                   |
      |                        OrderTransactions           |
      |                                ^                   |
      |                      InternalTransactions          |
      |                                ^                   |
      |       MCOrderEngine ──>   OrderEngine              |
      |        (instances)             ^                   |
      └─────────── INSTANCE ── OrderEngineProofs ──────────┘
                                       ^
                                 MatchingProofs

                    ┌── BinaryOptions <──┐
                    v                    |
Balances <── FundTransactions <── Funds <── Options <── MCFunds
                                               ^
                                        BalancesProofs   <── FundsProofs
PoolShares <── PoolTransactions <── Pools  <── MCPools

TxChains, Batches <── Blocks  <── MCBlocks            Blocks ──refines──> Rollup
                        ^
                  BlocksProofs
```

**RegisterStack** (`register_stack.rs`). `regs`, `count`. The loops of the circuit are
functions: `Compact` is the compaction loop (rank of a slot among the taken ones), `ShiftRight`
the shift loop, which tries the amounts 1 to max-1 *and no other*, `PushInstructions` their
union. The alone-standing machine pushes every array of slots with every width under
`PushContract`. That contract is not asserted by the circuit: a full batch on a non-empty base
register would be neither shifted nor refused. That its callers never do so is an invariant of
the engine (`StackHasNoHoles` in the Instructions run, proved as `RegistersHaveNoHoles`).
**InstructionStack** is the abstract specification: a bounded sequence with push-a-batch and
pop. `RegisterStack` refines it with `stack <- Contents`.

**OrderLedger** (counts, positions, slots). The operators take and return a record of leaves
(`market`, `account`, `position`), so the engine runs them inside its transactions; the machine
at the end runs the ledger alone under every transaction that moves it:
`CreateMarket, UpdateMarketConfig, ExpireMarket, UpdateLeverage, StoreOrder, RemoveOrder,
TriggerChild, Trade, Deleverage, ExitPosition`. An order is only its owner, market,
reduce-only flag and trigger status: all a count depends on. Who may trade with whom and at
what price is left open, so it has *more* behaviours than the code there.

**ExchangeState**: the variables of the engine (ledger, account `orders`, `book` leaves,
nonces `ask`/`bid`, `locked` balances, `cancelTime`, `now`, `regs`/`count`, `matching`), the
instructions, and the operations transactions share. One proof is one or two steps here: the
transaction's own `apply`, and, if it raises `matching_engine_flag` (`matching`), the matching
step, with nothing in between.

**Matching**: `execute_matching`. Each outcome of the code's flag cascade is an action
(`InsertWaiting`, `DropInvalidTaker`, `DropUnmatched`, `Rest`, `DropWithoutTrade`,
`ReduceBoth`, `DropSlipped`, `Reject`, `Trade`), with the priorities as guards; a step record
`s` plays the part of the circuit's witness and `Settle` writes it back, with the new
instructions in the slots the code uses (children of the maker at 7, of the taker at 5,
position-tied cancellations at 3 and 2, fees at 1 and 0).

**OrderTransactions**: `CreateOrder, L1CreateOrder, CreateGroupedOrders, ModifyOrder,
CancelOrder, CancelAllOrders, L1CancelAllOrders, CancelMarketOrders, ScheduleCancelAll`.

**InternalTransactions**: those that finish the instruction in register 0 (`CancelSingle,
CancelOneOf, TriggerTheChild, ClaimOrder, TransferFee`) and those the rollup starts
(`CancelDeadOrder, CancelAllByDms, CancelAllInLiquidation, DropHopeless, TriggerOrder,
SliceTwap, LiquidatePosition, DeleveragePosition, ExitPosition`), market expiry and time.

**OrderEngine** composes them (`Next == Users \/ Rollup \/ Finish \/ ExecuteMatching \/ Tick`)
and states the properties. **MCOrderEngine** holds the instances.

**Balances** (`account.rs:664-977`, `liquidation.rs:260-415`, `tx_constraints.rs:1627-1708`).
`funds` is the record of everything a balance leaf holds: `spot`, `margin`, the `supplied`
totals, USDC `allocated` to isolated positions, the `strategies` of an insurance fund, the
`unlocks`. `Delta` is `apply_asset_delta`: an inflow goes into margin as far as the caps allow,
an outflow comes from spot first. `published` adds up the balance deltas of the public data,
`custody` is what L1 holds.
**FundTransactions** has an action for each transaction that moves a balance, in the order of
the code's deltas (for a spot fill: of each asset who sells comes before who buys, then the
treasury, which collects the fees). **Funds** runs them all: `Deposits, Withdrawals, Modes, Settings, Orders, Transfers,
Fills, Payments`. `transfers` holds the `TRANSFER_ASSET` instructions; while there are any, only
`InternalTransfer` runs.

**BinaryOptions** is one slot for markets on outcomes: `slot` (the market leaf, with the operator
and the fee collector that `UpdateMarketSlot` chooses among the users), `options` (the
`binary_options_position` of each account), `nextMarket`. Actions: `UpdateMarketSlot,
CreateMarket, UpdateMarket, SettleOutcome, RestOrder, CancelOrder, Trade, SettlePosition`.
`PositionChange` splits a trade into the shares it closes and those it opens and moves the entry
quote; `PositionOf` is the view of a leaf that another market left, `Kept` the removal of a
position without data, `Release` the reset of a drained slot. Its orders are counts: which one a
fill meets is Matching's question. **Options** puts it beside Funds, on the same balances, and
states what must hold of all of them.

**PoolShares** is the share list of an account (`account.rs:408-558`): `Pass` is the one loop
over the slots that changes, inserts or drops a share and shifts its neighbours.
**PoolTransactions** has `L2CreatePublicPool, L2UpdatePublicPool, L2CreateStakingPool,
L1SetSystemConfig, L2MintShares, L2BurnShares, L1BurnShares, L2StakeAssets, L2UnstakeAssets,
InternalPendingUnlock`. **Pools** adds gains and losses, gifts and time.

**TxChains** (`block_tx*.rs`, `light_tx_constraints.rs`, `block_constraints.rs:513-633`). The
heavy and the light chain of a block, each a `JumpState`: what its transactions cover, what it
claims of the gaps between them. Hash chains are sequences. `AddTx` and `AddPadding` are one
transaction slot of a chain proof; any state may be offered for padding, any index for a
transaction. **Batches** (`recursion/`): a block added to a segment, segments merged.
**Blocks** composes them with pre-execution: `ProveTx, ProvePadding, Accept`.
**Rollup** is the abstract specification: a root, and per step a list of transitions that
run from it.

**Proof modules.** `RegisterStackProofs`, `OrderLedgerProofs`, `MatchingProofs`, `BalancesProofs`,
`FundsProofs` and `BlocksProofs` hold the theorems of section 4. **Sums** has what they need
of sums over finite sets, **BalancesProofs** also what the operators of Balances do to the
balances, **OrderEngineProofs** the invariant of the order engine and the transactions that keep it;
`MatchingProofs` adds the matching engine. The engine's proofs take the lemmas on the ledger and on
the stack by `INSTANCE`, of the leaves and registers of the engine.

Definitions named "A bug" next to an operator are the plausible mistakes each property is
tested against: with the operator replaced by its bug, the run must fail.

### What the model decides differently, and what it leaves out

* **Risk, fees and limits are choices.** `Reject` may throw out maker, taker or both wherever
  the code would consult `is_valid_perps_trade` / `is_valid_non_perps_trade`; a liquidation
  order may end (`healed`) after any trade; an account may be liquidated whenever it has a
  position. The model has all behaviours of the code here and more.
* **Prices are 1 and 2, sizes at most 2.** Notional limits, tick sizes, quote overflows and
  rounding are not modelled. A price the sequencer brings (zero price of a liquidation, price
  of a TWAP slice) is any in `RollupPrice`.
* **The book is the set of its non-empty leaves.** The path sums of `get_quote` are read as
  what they prove: nothing of the other side is better than the given price and nonce.
* **Failed transactions** (`success` false) change nothing modelled and are left out.
* **Instruction data** are kept as the handler reads them; an inserted order carries its fields
  and the slippage accumulator (`slack`, `generic_field_0`).
* **Fees**: in the engine `TRANSFER_ASSET` always succeeds; whether it does is the question of
  `PaymentsPossible` in Funds.
* **One spare nonce** (`Spare`): a transaction that starts on an empty stack leaves one nonce,
  because `InternalCreateOrder` wants a market that is not full even for a child that takes
  none. The code has 2^48.
* **Groups hang on ordinary parents** and conditional orders of size 0 are reduce-only in the
  instances; a group on a reduce-only parent is left to a later version.
* **Positions in Funds** are only the USDC set aside for isolated ones. So `Healthy` is the value
  of the balances, and an account's available balance is bounded by it and by its locks. The
  fills of spot markets move balances; what orders lock changes freely (`LockBalance`).
* **Binary options**: the book, its nonces and locks are left out (an order is a count), as are the
  trading window, which only forbids orders, order size limits and the fee rates: a `Deal` has the
  fees in it. All markets of an instance have one cap, one tick and one open-interest limit.
* **Who collects fees.** A fill that is not a perps fill pays `market_fee_collector_account_index`
  (`matching_engine.rs:883-888`): on spot markets the treasury (`l1_create_market.rs:419`), on a
  slot for binary options whom its operator's last update names, a master or sub-account
  (`l2_update_market_slot.rs:128-136`). So it is in `SpotTrade` and `Trade`. The fee account of a
  transfer is any account that exists (`FeeAccount`, a fund in one of the two openings). A
  collector with orders on the markets (`Traders`) may spend a fee in the fill that brings it;
  `PaymentsPossible` says in its statement that it is about the others, and the CollectorTrades run
  shows what happens to this one. The treasury can set no margin (`Reserved`,
  `tx_type.rs:468-530`). Integrators are accounts that exist (`l2_approve_integrator.rs` does not
  look).
* **A frozen staking pool** may send LIT by `l2_transfer.rs:340-349`, but a staking pool sends no
  L2 transaction (`tx_type.rs:499-505`), so `SenderAllowed` does not have that case.
* **Who meets whom in a spot fill** (`MayTrade`): users, and funds that are not frozen. In the code
  the maker's account is not looked at; but a frozen pool makes no orders (`tx_type.rs:591-597`)
  and has none when it is frozen (`l2_update_public_pool.rs:189-204`).
* **What a pool trades** is a choice of a gain or a loss of one unit (`Gain`). A pool's value may
  be negative: shares are priced with its absolute value, as `liquidation.rs:459` does.
* **A state of Blocks** stands for state root and delta root together. A chain step is one
  transaction (a proof has 5 heavy or 15 light ones, in a loop with the same checks). Transactions
  from one state to another have the `Effects` of an instance. Both chains start in one state,
  since no others can be put together. What a batch starts from is for the L1 contract to compare
  (`Anchored`, external).
* The trees are not modelled: a witness agrees with the leaf under its root.

### Not modelled

* **Margin requirements and spot liquidation** (`liquidation.rs`, `risk_info.rs`): sums of
  products of prices, sizes and rates over all positions. TLC would need more values than an
  instance can have for a verdict to be interesting; the engine is checked for all verdicts.
* **Keys, signatures, nonces, sub-accounts, integrator approvals, client order indexes,
  registration of assets**: guards on one leaf each.
* **The light circuit's matching** writes some branches of `execute_matching` a second time.
* **Funding rates, premium values, price checks**: arithmetic without a state of its own.
* **Signature digest** (folded over light and heavy chains and compared with a batch of Schnorr
  verifications), **validium root, public market details, deltas and the blob**: hashes and
  polynomial evaluations of data the models do not hold.
* **Trees, hashes, big integers, curves**, the **desert exit** decoder, **Groth16 wrapping**, and
  the vendored **plonky2** and **p3**, which are most of the repository's lines: a proof system's
  arithmetic, with nothing a state machine of this size could say about it.

## 3. Runs

With two workers each run ends within three minutes. The engine and the ledger stop
legitimately (nonces, block time or public indexes run out), so their runs do not look for
deadlock; `NeverStuck` and `StackDrains` say what a deadlock check could not: that the stack,
once something is on it, can be emptied. `RegisterStack` is checked for deadlock.

| run | instance | properties | distinct states |
|---|---|---|---|
| RegisterStack | depth 5, batches of 4, widths 1, 3, 4, three instructions | `TypeOK NoHoles IsAStack` | 364 |
| OrderLedger | a user, a pool, the insurance fund; a perps and a spot slot; two orders; two public indexes | `TypeOK CountsMatch ReleasedWhenDrained IsolatedOnlyRespected OpenPositionsAreLive OpenInterestMatches ModeFixedWhileOpen` | 258,570 |
| Trading | four accounts; four markets, one open at a time | `TypeOK CountsMatch InOnePlace BookMatchesOrders BookNotCrossed LockedMatches WithinSlippage ReleasedSlotIsQuiet NeverStuck FillsAreKept ReduceOnlyReduces` | 112,225 |
| Instructions | two accounts; a market with three kinds of groups, or three markets on which everything is cancelled; fairness | `StackHasNoHoles SiblingsExclude NoOrphans TiedOrdersPointInward CancelsAllItCovers StackDrains` | 182,770 |
| Funds | two users with orders, one an integrator; the treasury, which collects fees of spot fills; a fund, or a user to whom a slot pays its fees; USDC and one other asset, or USDC and a slot for binary options | `TypeOK PublishedMatches BooksBalance BalancesInPlace PaymentsPossible OptionsInOrder LocksAreCovered` | 221,371 |
| Pools | a holder, two operators; a public pool, or the liquidity pool with the staking pool; fairness | `SharesMatch ShareValueKept StakeBacksLLP UnlocksPaid` | 85,468 |
| Blocks | three blocks; three states, one with an instruction | `Implements SamplesFit` | 822,920 |
| SpotTwap | one account, one spot market | `NoLockMeansNoOrders`, **violated** | |
| CrossCancelSpot | one account, a perps and a spot market | `CrossCancelSparesOthers`, **violated** | |
| LastingGroup | one account, one group | `RestingOrdersExpire`, **violated** | |
| CollectorTrades | Funds, with a treasury that has orders | `CollectorMayTrade`, **violated** | |
| SelfTransferFee | Funds, with fees on transfers within an account | `PublishedMatches`, **violated** | |

What they show:

* **RegisterStack**: whatever array of slots a transaction hands over, and whatever the width,
  the registers are the plain stack with the batch on top, in order. Five registers and batches
  of four keep the shape of the code's 9, 8 and 3: a width smaller than, and one equal to, the
  slot array; a stack that is fuller than one batch. `CompactIsSelect`, evaluated as an
  assumption of the instance, compares the compaction with `SelectSeq`. The engine runs use the
  real sizes.
* **OrderLedger**: two orders suffice for a count to be wrong by one in either direction, two
  public indexes for a slot to be reused by a second market over leaves the first one left.
* **Trading** opens one of four markets, so that its state space is the sum, not the product, of
  four questions. *pm*: makers and takers of every kind, self trades and master trades with each
  mode, integrator fees, post-only, market orders with slippage, reduce-only, liquidations,
  modifications, expiry in the second block; the insurance fund with a position that is
  deleveraged under its resting orders. *qm*: stop orders, stop limits and TWAPs that wait
  for a price or a time, modified and cancelled. *rm*: a market with orders, a group and
  positions that closes at any point. *sm*: a spot market with locked balances and an insurance
  fund, which locks nothing.
* **Instructions** starts from one of two exchanges, so that its state space is a sum as well.
  With groups: OCO, OTO and OTOCO against opposite orders large and small; the eight nonces allow
  a group of three, fills in two parts and a trigger of each child. With positions on a cross and
  an isolated market and a spot market beside them: the three counts a cancellation is sized
  with, against the orders it takes, with deleveraging and the dead man's switch in between, of a
  trader with margin modes and of one that uses all assets as margin. Under `FairSpec`, so that
  `StackDrains` is checked too.
* **Funds**: a user whose account a deposit makes (unified), one in simple mode that is also the
  integrator, the treasury, and a fund whose margin is divided among strategies. Amounts of one unit of L1, with
  USDC two extended units, let deltas be odd; an asset cap of 1 for a user and 2 in all makes an
  inflow split in two. Fills with and without fees, with integrator parts in one or both assets.
  From any order of these: what L1 holds is what accounts have (`FundsConserved`), the counted
  supply and the strategies are the sums they stand for, each account's published deltas are its
  balance, a unified account has no USDC on the spot side and margin exists only where it is used,
  and an integrator's part can be paid when its turn comes, whatever the treasury did with the fees
  of fills before (it sends and withdraws like a user).
  The instance starts from two states. With a slot that has an operator, two users with
  collateral, one in simple mode, change their modes (`Beside`) and bet against each other in two
  markets, one after the other, at a cap of 3, two shares at 1 with a rebate or one at 2 with an
  integrator's part: positions open, close, flip and end at every price and by
  refund. The slot's fees go to the treasury until its operator names a user without orders, who
  changes his mode too. `DealsAssumption` is what the code asserts of fees (`matching_engine.rs:1113`): without it
  the collector could owe integrators more than it collects. `FundsConserved` then counts what is set aside (`Escrow`), which no leaf of the code
  holds: the cap of each pair of shares while the market is open, what the remaining positions
  will be paid after it. `OptionsInOrder` says that positions and orders are of the market on
  the slot, that counts and open interest are theirs, and that what was paid for a position never
  exceeds what it can pay and is gone with its last share.
* **Pools**: list slots, unlock slots, and both are 2, so that they fill. `{"q"}` and `{"f","s"}`
  are not open at once: what they share is checked with the pair that does interact (the stake in
  `s` limits the principal in `f`). Values from -1 to 2 and totals up to 3 make quotients that do
  not divide. `PassIsRight` (an assumption) compares the list pass with the set of shares it
  stands for, on all sorted lists of two slots and all changes.
* **Blocks**: the first block has room for two transactions in each chain and indexes up to 2:
  gaps on either side, three runs, wrong indexes and states, padding anywhere; the others one
  heavy transaction, for what goes on between blocks. Minutes of 2 and hours of 4 give block
  times at, before and after every boundary. `SegmentsMerge` (an assumption) compares segments
  the wrapper merges with one segment that takes all blocks, over all lists of two and some of
  three.

Bounds: `MaxNonce` (4 to 8) how many orders a market ever sees; `MaxTime` = 2, since an order
is either good in a block or not; `MaxPosition` = 2, so that positions open, grow, shrink, close
and flip; `MaxSize`, `MaxPublic` in the ledger; `Request`, `Group`, `Change`, `Schedules`,
`Opening`, `Types` what an instance is asked. `Opening` starts from positions earlier trades
have left, in balance, to reach reduce-only cases without spending nonces.

**Fairness.** In the engine `FairSpec` has `WF_vars(Finish \/ ExecuteMatching)` and nothing else: the rollup
keeps proving what is pending. The code justifies exactly that: as long as register 0 holds an
instruction no L1 or L2 transaction passes (`tx_type.rs:388-412`), so a sequencer that produces
anything at all produces the transaction that finishes it. Users are not assumed to do
anything, nor is time to pass. In Pools it has `WF(Tick)` (blocks go on) and
`WF(InternalPendingUnlock(a))` for each user: a payout is a transaction of the rollup alone,
possible in every block once its time has come, and the staker has no other way to his assets; a
rollup that never includes it is one the staker leaves by the desert exit.

### Findings

1. **SpotTwap** (`C/transactions/l2_modify_order.rs:691`): the order type is read from the order
   leaf after it has been emptied, so every order looks like a limit order, and a TWAP of a spot
   market, which never locked anything, unlocks its remaining size when it is modified to no
   more than it has traded. If another order of the account is resting, that lock is released,
   which `l2_update_account_config.rs:152` ("No locked USDC balance, means no open spot orders")
   relies on never happening.
2. **CrossCancelSpot** (`C/transactions/internal_cancel_order.rs:271`): a cancellation of cross
   orders is sized without spot orders but may be spent on one, because the position at the nil
   index has margin mode 0 = CROSS. A cross order of the account then survives.
3. **LastingGroup** (`C/transactions/l2_create_grouped_orders.rs:528`): the flag of the leg loop
   is shadowed by `flag and is_base_amount_zero`, so none of the later checks of a leg is made
   on a leg that has a size; a GTT parent without expiry is accepted and rests.

4. **SelfTransferFee** (`C/tx_constraints.rs:1693`): in a transfer within one account the
   sender's deltas are not published, since the receiver's, on the same leaf, stand for both; but
   the fee in USDC is the sender's alone. When the asset moved is another, the fee is never
   published, against `desertexit/README.md:61` ("USDC aggregates spot + isolated margin + position
   collateral"). In the other instances of Funds such transfers are free (`SelfFees`).

5. **CollectorTrades** (`C/matching_engine.rs:1162`): "Fee account is maker or taker case is already
   handled in [`apply_spot_trade`] and [`apply_binary_options_trade`]", which fold the whole fee
   into that side's own delta (`apply_trade.rs:1342`), where the balance check of the fill
   counts it. The part of an integrator is taken out only later, by a `TRANSFER_ASSET` instruction
   (1977-2029) that names the same account. A collector that pays for what it buys with the fee
   of the same fill cannot carry it out, and nothing else runs before it (`tx_type.rs:389-396`).
   The treasury may place orders (`tx_type.rs:468-486`), and so may a user whom a slot pays. In
   the run it has nothing else, and fees are as high as prices; with lower ones it is enough that
   its last USDC goes into the fill.

The model follows the code in all five (`ModifyUnlocks`, `Cancels`, `LegWellFormed`, `Publish`, `Own`), so
the other runs are checked with these behaviours in. One more disagreement is only noted: the comment
above `l2_create_grouped_orders.rs:173` wants both orders of an OCO group reduce-only, the code
asks for equal flags.

## 4. Theorems

| module | theorem | statement |
|---|---|---|
| RegisterStackProofs | `StackHasNoHoles` | `Spec => [](TypeOK /\ NoHoles)` |
| | `CompactHasNoHoles` | a compacted batch fills exactly its first `Placed` slots |
| | `ImplementsStack` | `Spec => IsAStack`: the array refines the bounded stack |
| OrderLedgerProofs | `CountsAreExact` | `Spec => []CountsMatch` |
| | `LedgerTypeCorrect` | `Spec => []TypeOK` |
| | `OpenInterestIsExact` | `Spec => []OpenInterestMatches` |
| | `SlotsAreReleasedWhenDrained` | `Spec => []ReleasedWhenDrained` |
| | `OpenPositionsStayLive` | `Spec => []OpenPositionsAreLive` |
| | `IsolatedOnlyIsRespected` | `Spec => []IsolatedOnlyRespected` |
| | `MarginModeIsFixed` | `Spec => ModeFixedWhileOpen` |
| MatchingProofs | `EngineInvariant` | `Spec => []EInv`, the invariant described below |
| | `RegistersHaveNoHoles` | `Spec => []StackHasNoHoles` |
| | `OrdersAreInOnePlace` | `Spec => []InOnePlace` |
| | `ExchangeCountsAreExact` | `Spec => []CountsMatch` |
| | `ExchangeTypeCorrect` | `Spec => []TypeOK` |
| | `LeavesAreOrders` | `Spec => []BookMatchesOrders` |
| | `BooksNeverCross` | `Spec => []BookNotCrossed` |
| | `SlippageIsBounded` | `Spec => []WithinSlippage` |
| | `ReleasedSlotsAreQuiet` | `Spec => []ReleasedSlotIsQuiet` |
| | `ReduceOnlyOrdersReduce` | `Spec => ReduceOnlyReduces` |
| | `FillsNeverShrink` | `Spec => FillsAreKept` |
| | `LocksAreExact` | `TwapsStay => (Spec => []LockedMatches)` |
| | `CountedCancelsStayExact` | `Spec => []CountedCancelsAreExact`: what is cancelled by account, by market or as tied to a position |
| | `CancelAllsAreExact` | `SpotIsMargin => (Spec => []CancelsAllItCovers)` |
| BalancesProofs | `SlotsAreDrained` | `Spec => []OptionsInOrder` |
| FundsProofs | `BalancesStayInPlace` | `Spec => [](BalancesInPlace /\ SuppliedMatches /\ StrategiesMatch)` |
| | `PaymentsStayPossible` | `Spec => []PaymentsPossible` |
| | `BooksStayBalanced` | `Spec => []BooksBalance` |
| | `FundsTypeCorrect` | `Spec => []TypeOK` |
| | `PublicDataAddsUp` | `SelfFees \subseteq {0} => (Spec => []PublishedMatches)` |
| | `LocksAreKept` | `SelfFees \subseteq {0} => (Spec => LocksAreCovered)` |
| BlocksProofs | `BlocksAreOneHistory` | `Spec => Implements`: accepted blocks refine the sequential rollup |
| | `SamplesNeverExceedAnHour` | `Spec => []SamplesFit` |
| | `ChainsCompose` | two chains the block circuit accepts are one run of transactions |

All that the runs RegisterStack, OrderLedger, Funds and Blocks check is proved, all of Trading but
`NeverStuck`, and `StackHasNoHoles` and `CancelsAllItCovers` of Instructions. The theorems hold for every depth, batch size, width set and instruction set; for
every finite set of accounts, markets, assets, strategies and order indexes, every set of requests,
groups, changes, schedules and opening positions, of pools, insurance funds, trades and deals, at all
prices, sizes, caps and ticks; for every set of states, effects, operation limit, minute and hour.
The bounds of the instances (`MaxPosition`, `MaxCustody`, `MaxLock` ...) are
constants too: a guard that keeps a run finite does so at any value.

They rest on the named assumptions of the modules, which TLC evaluates on every run. Most give
constants their types or say that an empty leaf is not a real one (`EmptyAssumption`,
`SizeAssumption`, `LedgerAssumption`, `NoOrderAssumption`, `TxChainsAssumption`,
`BatchesAssumption`, `BlocksAssumption`, `BalancesAssumption`, `FundTransactionsAssumption`,
`FundsAssumption`, `BinaryOptionsAssumption`, `OptionsAssumption`, `EngineAssumption`,
`TypeAssumption`, `OpeningAssumption`). Four say something of the system:

* `GroupAssumption`: the orders of a group are of one account in one market, as the one set of
  `account_index` and `market_index` in `l2_create_grouped_orders.rs` makes them.

* `GenesisAssumption`: the exchange starts from books that balance, without debts, with balances
  where they belong; the treasury is a master account, the fee account of transfers and the
  integrators exist.
* `TradesAssumption`: in a spot fill fees are not negative and less than what they are taken
  from, and an integrator's part is a part of the fee. The code asserts the first
  (`apply_trade.rs:73-76`, integrators' parts included); that no one is charged all he receives is
  the operator's choice of fees.
* `DealsAssumption`: in a trade on an outcome the fees pay for rebates and parts. The code
  asserts that the sum of the fees is not negative (`matching_engine.rs:1113-1115`), without the
  integrators' parts, which the charged side pays on top.

`PublicDataAddsUp` and `LocksAreKept` have one hypothesis more: transfers within an account are
free. With a fee the first is false, the SelfTransferFee finding; and the fee of such a transfer
is not checked against locks, since sender and receiver are one.
`LocksAreExact` has the hypothesis `TwapsStay`: a spot market with TWAPs is not one whose orders are
modified. Without it the theorem is false, the SpotTwap finding; the Trading instance meets it.
`CancelAllsAreExact` has `SpotIsMargin`: who has orders on spot markets uses spot assets as margin, or
is an insurance fund. Without it the cancellation of cross orders counts too few (the CrossCancelSpot
finding); `CountedCancelsStayExact` is about the other cancellations and has no hypothesis.

*Register stack.* `TypeOK /\ NoHoles` is inductive as it stands, given `PushContract`. The work
is in the compaction: `RankStep` and `RankExists` show that the ranks of the held slots take
each value below `Placed` exactly once (`LeastNatural` replaces induction), `PushResult` says
what is in each register after a push, and the refinement compares the two sequences element by
element.

*Ledger.* `CountsMatch` is not inductive: a count can be taken below zero from a state with
impossible leaves, and the non-cross count changes its meaning with the margin mode. The
invariant is

    IInv == RawType /\ CountsMatch /\ OrdersAreLive /\ NoSpotPosition

`RawType` types the leaves with integers; `CountsMatch` then makes the counts naturals (this is
how `TypeOK` is obtained, rather than the other way round). `OrdersAreLive` says that the
position leaf behind an order of a perps market belongs to the market the slot hosts now, so `init_if_empty` never resets a leaf whose counts are in use.
`NoSpotPosition` says that the position leaves of spot slots are never written. One lemma per
operator says which counts it moves (`IncrementEffect, DecrementEffect, ReleaseEffect,
MoveEffect`), `CardinalityStep` and `CountsChange` what happens to the counted sets, and one
lemma per group of actions that they move together.

*Positions.* `PInv` says of each slot that one without a market has no public index, no orders and
no open interest (`SlotIsSound`), that its open interest is the sum of the holdings and, while it
trades, longs are shorts (`BooksMatch`), that open positions are of its market (`IsLive`) and
isolated where they must be (`ObeysMode`). It is inductive relative to `IInv`, which is where the
other half comes from: a market whose order count is 0 has no position that counts an order
(`NoOrderNoCount`), so that the reset by `init_if_empty` and the release of a slot lose nothing.
`SlotKept` does the slots an action does not touch, and one lemma per group of actions the one
it does. `MarginModeIsFixed` needs the invariant before and after a step only to know that the
leaf it compares is the same position.

*Order engine.* None of its invariants is inductive alone, since each decision trusts a leaf that
another transaction wrote. `EInv`, written over the values of the variables so that it can be
stated of a transaction's intermediate states, is

    EInv == World(ledger, orders, book, ask, bid)           the leaves
            /\ Piled(ledger, orders, ask, bid, regs, count) the stack on top of them
            /\ matching => regs[0] is an order being inserted
            /\ now \in 1..MaxTime

1. *World.* `NoncesFit`, `OrdersFit`: asks have nonces from below, bids from above, and an order's
   attributes go together (`OrderFits`: what waits has no nonce and no children, what waits for a
   price has not traded). `RestingApart`: a nonce is one order's. That keeps leaves apart
   (`BookFits`, which is `BookMatchesOrders`), and with the maker being the best of its side it
   keeps a resting taker from crossing (`NotCrossed`). `LedgerFits`: the leaves count the orders
   (the `Counted` of the ledger's own proof), and positions and open interest belong to the market
   the slot hosts.
2. *Piled.* `StackFits`: no hole, and an order with children is at the bottom. This is what
   gives `PushInstructions` its room: a transaction that leaves more than 3 instructions is the
   last of an otherwise empty stack. `PlacesApart`, `TakersApart`: an order on the stack is
   nowhere else, and one taker at most is pending. `MarketsOpen`: an order is pending only for an
   active market, so that what it rests in is not released under it.
3. *Transactions.* One lemma for each says that it keeps both halves; the common parts are lemmas on
   what is stored, removed, counted and pushed (`Put`, `Settle`). A matching step is done branch by
   branch: taker and maker change at most two orders, two leaves and two positions, whose records
   `Settle` writes back.
4. *Reduce-only.* Only trades of the engine move positions against orders. `ReduceOnlyOrdersReduce`
   needs that the size of a trade is bounded by the positions of both sides at the time of the
   trade, that the two sides face each other, and `SparesMasters`: an order for all of a
   master's accounts is never of self-trade mode *reduce*, or a trade within one account would
   skip the test.
5. *Fills and locks.* What an order has traded is compared with a rigid function `F` of the indexes.
   `HInv(F)` says that no order, kept or pending, has traded less than `F` gives it, and that
   indexes not given out have `F` at most 0, so that new orders start above it. It is inductive for
   every `F`; a step forgets nothing since `F` can be what was traded before the step
   (`NowIsAFloor`, `FloorHolds`). The same invariant carries the locks: `LocksFit` is
   `LockedMatches` as a sum over order indexes of which each step changes one summand at a time,
   and `SpotFits`, `RestsFit` say that in spot markets only TWAPs wait and only limit orders rest,
   which is why the engine may lock and unlock without asking for an order's type.
6. *Cancellations.* `CInv` says of every instruction on the stack that cancels all orders of a scope,
   not of the top one alone, that it has as many to go as there are (`Exact`), and that what is
   above it can change none of its orders (`ClearAbove`): fees to pay, or cancellations of
   another account. That it was right when it was made is `LedgerFits`; that the orders it counts
   are the account's orders is a cardinality, which each step changes by one.

*Sums.* The totals of the models are folds of the community modules, whose order is that of `CHOOSE`.
`TotalsExist` and `TotalsUnique` show that a total of any subset exists and is unique; induction is
made by taking a smallest set that would be wrong (`SmallestSubset`), since the library's
induction theorems take an operator. What the other proofs use is `SumTakeOut` (one element may
be taken out), `SumSame`, `SumUpdate`, `SumUpdateTwo` (one or two summands change), `SumOfTwo`
and `SumOfMultiples`.

*Binary options.* `OptionsInv` has the counters of the slot as sums over the positions, each of
which is of the hosted market or has no data (`Hosted`), with its entry quote within the cap of
its shares. A trade changes two positions: `Exchanged` collects what `PositionChange` does to
both, in each combination of opening, closing and flipping.

*Funds*, in layers, each with the one before as hypothesis.

1. *Where balances are.* Every transaction is a chain of a few steps, each of which moves one asset
   of one account, on either side (`Moved`), or credits or debits it (`Credited`): the lemmas of
   `BalancesProofs` say this of `Delta` and the other operators, and that such a step keeps
   `Sound`: `BalancesInPlace`, the totals and the strategies. `TransferSteps`, `FillSteps` and
   `OutcomeSteps` name the intermediate balances of the longer ones.
2. *Debts.* `PaymentsPossible` is not inductive: whether a collector can pay depends on what it
   owes besides. `Debts` says that no account without orders on the markets owes USDC (`Solvent`),
   that locks are amounts, and that one collector owes all that is pending (`Owed`) and, if
   it has no orders, has it on the sides the transfer may take it from (`Covered`). A fill
   establishes it, each payment leaves the rest of it. The collector may be in either mode and
   have used the asset as margin with a cap that splits the fee over both sides.
   Conservation does not need it: a collector with orders may owe USDC after a payment.
3. *Conservation.* `Conserved` relates what L1 holds to `InAccounts` and to `SetAside`, which is
   the escrow of the open positions. For a trade on an outcome the prover needs the two cases
   of each side, what it closes and what it opens, to see that the difference of the escrow is
   what both pay in; for a payout, that settlement changes the meaning of the sum from caps to
   dues with the same total, because longs are shorts.
4. *Public data.* Each step publishes a whole number of the asset's units (`WholeUnits`), so that
   what the deltas are divided by loses nothing, and publishes it for the account it moves.
5. *Locks.* `LocksHeld` says of a step and each account that it gets something in return or that
   whatever leaves it still covers the lock; who pays an integrator out of a fee it got is left
   out (`Payer`), in the property as in the lemma. `OnlyUsersLock` is its invariant: a fund has no
   lock. What the code makes available is at most what is free (`AvailableBacks`).

`ExchangeInv` is the conjunction of these invariants: the machine of Options, with all the
transactions of Funds and those on its slot.

*Blocks.* No chain can be trusted alone: a light chain may claim any states for its gaps. The
invariant `IInv` says of each chain what its `JumpState` records of the transactions in it
(`slots`, a ghost): no index is taken twice or lies above `last` (`SlotsOK`), `prevNew` is where
the last of them ended (`EndOK`), a coverage record is a run of transactions without a gap and
each transaction is in one of them or in the open run that `runPrev` and `runOld` describe
(`CoverageOK`, `OpenRunOK`), a claim is a gap between two runs and each index is a transaction's or
in a gap (`ClaimsOK`), and the operation the chain carries belongs to one of its transactions
(`PriorityOK`).
`FinalCoverageIsAll` and `FinalClaimsAreGaps` close both; with the claims of one chain equal to
the coverage of the other, `ChainsFitTogether` shows that every index below the total is in
exactly one of them and that each transaction starts where the one before it ended. `TxsRun` turns
that into the sequence of `Rollup`, `AcceptApplies` adds the pre-execution and the batch. Two
SHA or Poseidon hashes being equal only for equal inputs is what sequences for hash chains
assume.

*Premium samples.* `ClockInv` bounds the samples taken since the last funding round by the
minutes from its hour to the last sample, and says that the last sample is before the next hour:
a block at or after it must apply funding first. `Floor`, `Multiples` and `HourOfMinutes` are the
facts about rounding to a minute and an hour that need `Hour % Minute = 0`.

Left to TLC:

* `NeverStuck`, which is about `ENABLED`, and liveness under fairness (`StackDrains`, `UnlocksPaid`):
  beyond the prover.
* The links of grouped orders (`SiblingsExclude`, `NoOrphans`, `TiedOrdersPointInward`): their
  invariant would follow sibling and children indexes through both orders of a trade and the
  instructions they leave, over several transactions.
* The pools (`SharesMatch`, `ShareValueKept`, `StakeBacksLLP`): the pass over the share list is a
  fold over slots whose result would have to be proved by induction over data. `PassIsRight`
  evaluates it on all lists of two slots.

## 5. Plan

1. *Done*: the stack, the ledger, matching, order and internal transactions; balances and the
   transactions on them; binary options; pools; blocks and batches; proofs for the stack, the
   ledger, the order engine, the balances with binary options, and the blocks.
2. **Links of grouped orders**: an invariant that says of each child and sibling on which side of
   its link it is, to prove `SiblingsExclude`, `NoOrphans` and `TiedOrdersPointInward`.
3. **Proofs over the pools**: `SharesMatch` (a sum over accounts, with Sums) on a list pass that is
   stated slot by slot.
4. **Binary options in the engine**: their book as one more market type of `Matching`, so that the
   counts of `BinaryOptions` are those of its orders.
5. **Light transactions**: the light circuit's matching as a refinement of `Matching`.
6. **Keys**: nonces with skips, key changes and the integrators' approvals, as an addition to
   `FundTransactions`.
