-------------------------- MODULE FundTransactions --------------------------
(***************************************************************************)
(* The transactions that move balances: deposits and withdrawals, transfers *)
(* between accounts and between the two sides of one, the switches of what  *)
(* an account uses as margin, the fills of spot markets with their fees, and *)
(* the instructions that pay integrators their part of a fee.               *)
(***************************************************************************)
EXTENDS Balances

CONSTANTS
    Integrators,  \* accounts approved as integrators: they exist
    SpotStrategy, \* INSURANCE_FUND_SPOT_STRATEGY_INDEX
    IsolatedIn,   \* users that hold an isolated position
    MaxLock       \* a bound on what resting orders lock, all together

ASSUME FundTransactionsAssumption ==
    /\ SpotStrategy \in Strategy
    /\ Integrators \subseteq Account /\ IsolatedIn \subseteq Account
    /\ MaxLock \in Nat

\* Only instructions run while the stack is not empty.
Start == NoInstruction

-----------------------------------------------------------------------------
(* L1 *)

\* L1DepositTxTarget: the sequencer may accept a part and the rest goes back to L1; the
\* first deposit of an L1 address creates its account.
L1Deposit(a, x, accepted, side) ==
    LET d == accepted * Mult[x]
    IN  /\ Start
        /\ account[a].kind \in {"none", "master"}
        /\ accepted > 0 => /\ side = Perps => UsedAsMargin(a, x)
                           /\ Splittable(a, x, side)
        /\ funds' = IF accepted = 0 THEN funds ELSE Delta(funds, a, x, side, d, Default)
        /\ Valid(funds', a, x)
        /\ account' = IF Exists(a) THEN account
                      ELSE [account EXCEPT ![a].kind = "master", ![a].mode = Unified,
                                           ![a].master = a]
        /\ custody' = [custody EXCEPT ![x] = @ + accepted]
        /\ Publish({a}, {x}, TRUE)
        /\ UNCHANGED <<useMargin, locked, transfers>>

\* apply of L1Withdraw and L2Withdraw
Withdraw(a, x, n, side) ==
    /\ funds' = Delta(funds, a, x, side, -(n * Mult[x]), Default)
    /\ Splittable(a, x, side)
    /\ Valid(funds', a, x)
    /\ custody' = [custody EXCEPT ![x] = @ - n]
    /\ Publish({a}, {x}, TRUE)
    /\ UNCHANGED <<account, useMargin, locked, transfers>>

\* L1WithdrawTxTarget: one that its account cannot make changes nothing.
L1Withdraw(a, x, n, side) ==
    /\ Start
    /\ IsUser(a)
    /\ n * Mult[x] <= Available(a, x, side, FALSE)
    /\ side = Perps => UsedAsMargin(a, x)
    /\ Withdraw(a, x, n, side)

-----------------------------------------------------------------------------
(* L2 *)

\* L2WithdrawTxTarget; is_valid_sub_account_tx and its siblings keep the pools out.
L2Withdraw(a, x, n, side) ==
    /\ Start
    /\ IsUser(a)
    /\ n * Mult[x] <= Available(a, x, side, FALSE)
    /\ side = Perps => UsedAsMargin(a, x)
    /\ Withdraw(a, x, n, side)

\* A transfer of d from a to b with its fee: the sender's part, the fee, the fee
\* account's part, the receiver's part.  A transfer within an account is not split.
Transfer(a, b, x, d, fee, from, to, s) ==
    LET sent   == IF a = b /\ x # USDC THEN Raw(funds, a, x, from, -d)
                  ELSE Delta(funds, a, x, from, -(d + IF x = USDC THEN fee ELSE 0), s)
        paid   == IF x = USDC THEN sent ELSE Delta(sent, a, USDC, from, -fee, s)
        earned == Collateral(paid, FeeAccount, fee, s)
    IN  /\ a = b => /\ x # USDC => RawAllowed(funds, a, x, from, -d)
                    /\ RawAllowed(earned, a, x, to, d)
        /\ a # b => Splittable(a, x, from) /\ Splittable(b, x, to)
        /\ Valid(sent, a, x)
        /\ Valid(paid, a, USDC)
        /\ funds' = IF a = b THEN Raw(earned, a, x, to, d) ELSE Delta(earned, b, x, to, d, s)
        /\ Valid(funds', b, x)

\* The pools that may receive and send transfers, and in what.  L2TransferTxTarget would
\* let a frozen staking pool send LIT too, but a staking pool sends no L2 transaction.
ReceiverAllowed(b, x, to) ==
    /\ IsPool(b) => ~account[b].frozen /\ to = Perps /\ x = USDC
    /\ IsStaking(b) => ~account[b].frozen /\ to = Spot /\ x = LIT

SenderAllowed(a, x, from) ==
    \/ IsUser(a)
    \/ IsPool(a) /\ account[a].frozen /\ account[a].total = 0 /\ from = Perps /\ x = USDC

\* L2TransferTxTarget
L2Transfer(a, b, x, n, fee, from, to, s) ==
    LET d      == n * Mult[x]
        extFee == fee * Mult[USDC]
        mine   == IF a = b /\ from = Spot THEN funds.spot[a][x]
                  ELSE Available(a, x, from, a = b)
    IN  /\ Start
        /\ SenderAllowed(a, x, from)
        /\ Exists(b)
        /\ from = Perps => UsedAsMargin(a, x)
        /\ to = Perps => UsedAsMargin(b, x)
        /\ a = b => from # to /\ ~(account[a].mode = Unified /\ x = USDC)
        /\ account[a].master = Treasury => account[b].master = Treasury
        /\ ReceiverAllowed(b, x, to)
        /\ d + (IF x = USDC THEN extFee ELSE 0) <= mine
        /\ x # USDC => extFee <= Available(a, USDC, from, FALSE)
        /\ Transfer(a, b, x, d, extFee, from, to, s)
        /\ Publish({a, b, FeeAccount}, {x, USDC}, a # b)
        /\ UNCHANGED <<account, useMargin, locked, transfers, custody>>

\* A bug: the margin moves to the new strategy and stays in the old one.
StrategyTransferKeeps(a, s, t, n) ==
    /\ Start
    /\ IsFund(a) /\ ~account[a].frozen
    /\ s # t
    /\ n * Mult[USDC] <= Positive(funds.strategies[a][s])
    /\ funds' = [funds EXCEPT !.strategies[a][t] = @ + n * Mult[USDC]]
    /\ UNCHANGED <<account, useMargin, locked, transfers, custody, published>>

\* L2StrategyTransferTxTarget
L2StrategyTransfer(a, s, t, n) ==
    /\ Start
    /\ IsFund(a) /\ ~account[a].frozen
    /\ s # t
    /\ n * Mult[USDC] <= Positive(funds.strategies[a][s])
    /\ funds' = [funds EXCEPT !.strategies[a][s] = @ - n * Mult[USDC],
                              !.strategies[a][t] = @ + n * Mult[USDC]]
    /\ UNCHANGED <<account, useMargin, locked, transfers, custody, published>>

\* L2UpdateMarginTxTarget: collateral moves between the cross margin of an account and
\* the isolated margin of its position.
L2UpdateMargin(a, n, adding) ==
    LET d == n * Mult[USDC]
    IN  /\ Start
        /\ a \in IsolatedIn /\ IsUser(a) /\ a \notin Reserved
        /\ d <= IF adding THEN Available(a, USDC, Perps, FALSE) ELSE funds.allocated[a]
        /\ LET moved == Collateral(funds, a, IF adding THEN -d ELSE d, Default)
           IN  funds' = [moved EXCEPT !.allocated[a] = @ + IF adding THEN d ELSE -d]
        /\ Publish({a}, {USDC}, TRUE)
        /\ UNCHANGED <<account, useMargin, locked, transfers, custody>>

\* What apply_asset_delta does with the whole balance of x when a starts or stops to use
\* x as margin: what its caps leave room for goes to margin, or all of it to spot.
Reassign(F, a, x, enable) ==
    LET all == IF enable THEN F.spot[a][x] ELSE F.margin[a][x]
        out == Raw(F, a, x, IF enable THEN Spot ELSE Perps, -all)
        m   == IF enable THEN InflowPart(out, a, x, all) ELSE 0
    IN  Put(out, a, x, IF enable THEN Perps ELSE Spot, m, all, Default)

\* L2UpdateAccountAssetConfigTxTarget
L2UpdateAccountAssetConfig(a, x, enable) ==
    /\ Start
    /\ x # USDC
    /\ IsUser(a) /\ a \notin Reserved
    /\ account[a].mode = Unified
    /\ useMargin[a][x] # enable
    /\ x \in MarginAsset
    /\ enable \/ funds.margin[a][x] <= Available(a, x, Perps, TRUE)
    /\ useMargin' = [useMargin EXCEPT ![a][x] = enable]
    /\ funds' = Reassign(funds, a, x, enable)
    /\ Valid(funds', a, x)
    /\ Publish({a}, {x}, TRUE)
    /\ UNCHANGED <<account, locked, transfers, custody>>

\* A bug: the spot balance of USDC stays on the spot side of an account made unified.
AccountConfigKeepsSpot(a, mode) ==
    /\ Start
    /\ IsUser(a) /\ a \notin Reserved
    /\ account[a].mode # mode
    /\ mode = Simple => /\ locked[a][USDC] = 0
                        /\ Healthy(funds, a)
                        /\ funds.margin[a][USDC] >= 0
                        /\ \A x \in Asset \ {USDC} : ~useMargin[a][x]
    /\ account' = [account EXCEPT ![a].mode = mode]
    /\ UNCHANGED <<funds, useMargin, locked, transfers, custody, published>>

\* L2UpdateAccountConfigTxTarget
L2UpdateAccountConfig(a, mode) ==
    /\ Start
    /\ IsUser(a) /\ a \notin Reserved
    /\ account[a].mode # mode
    /\ mode = Simple => /\ locked[a][USDC] = 0
                        /\ Healthy(funds, a)
                        /\ funds.margin[a][USDC] >= 0
                        /\ \A x \in Asset \ {USDC} : ~useMargin[a][x]
    /\ account' = [account EXCEPT ![a].mode = mode]
    /\ funds' = IF mode = Simple THEN funds
                ELSE [funds EXCEPT !.margin[a][USDC] = @ + funds.spot[a][USDC],
                                   !.spot[a][USDC] = 0]
    /\ Publish({a}, {USDC}, TRUE)
    /\ UNCHANGED <<useMargin, locked, transfers, custody>>

\* Spot orders of a are placed, filled or cancelled: what they lock changes.  Nothing
\* compares it with the balance when an order is placed.
LockBalance(a, x, n) ==
    /\ Start
    /\ IsUser(a)
    /\ n # locked[a][x]
    /\ locked' = [locked EXCEPT ![a][x] = n]
    /\ LET all == [b \in Account |-> SumFunctionOnSet(locked'[b], Asset)]
       IN  SumFunctionOnSet(all, Account) <= MaxLock
    /\ UNCHANGED <<account, funds, useMargin, transfers, custody, published>>

-----------------------------------------------------------------------------
(* Spot markets *)

\* What a fill pays its fee collector f: a side of the fill that is f keeps the fee as
\* part of its own balance, and is paid nothing else.
Own(f, a, fee) == IF a = f THEN fee ELSE 0
Collected(f, a, b, fee) == IF f \in {a, b} THEN 0 ELSE fee

\* The balances after a fill of the trade t: of each asset who sells comes before who buys,
\* which may use the room under the cap this leaves; then the fee collector, which on
\* every spot market is the treasury.
SoldBase(t, a) ==
    Delta(funds, a, t.base, Spot, Own(Treasury, a, t.feeBase) - t.sold, SpotStrategy)
BoughtBase(t, a, b) ==
    Delta(SoldBase(t, a), b, t.base, Spot,
          t.sold - t.feeBase + Own(Treasury, b, t.feeBase), SpotStrategy)
PaidQuote(t, a, b) ==
    Delta(BoughtBase(t, a, b), b, t.quote, Spot,
          Own(Treasury, b, t.feeQuote) - t.paid, SpotStrategy)
ReceivedQuote(t, a, b) ==
    Delta(PaidQuote(t, a, b), a, t.quote, Spot,
          t.paid - t.feeQuote + Own(Treasury, a, t.feeQuote), SpotStrategy)
CollectedBase(t, a, b) ==
    Delta(ReceivedQuote(t, a, b), Treasury, t.base, Spot,
          Collected(Treasury, a, b, t.feeBase), Default)
CollectedFees(t, a, b) ==
    Delta(CollectedBase(t, a, b), Treasury, t.quote, Spot,
          Collected(Treasury, a, b, t.feeQuote), Default)

\* A bug: the integrator's part moves between the margin sides.
FeeTransferPerps(f, x, part, c) ==
    IF part \div Mult[x] = 0 \/ c = f THEN << >>
    ELSE <<[asset |-> x, units |-> part \div Mult[x], from |-> f, to |-> c, side |-> Perps]>>

\* The instruction to pay integrator c his part of a fee that f collects, rounded down to
\* units of L1: the buyer's of the base and the seller's of the quote.  A part without a
\* unit is not paid, nor one that f would pay itself.
FeeTransfer(f, x, part, c) ==
    IF part \div Mult[x] = 0 \/ c = f THEN << >>
    ELSE <<[asset |-> x, units |-> part \div Mult[x], from |-> f, to |-> c, side |-> Spot]>>

\* is_valid_non_perps_trade, beyond the balances: a unified account pays USDC out of
\* collateral it has, and stays healthy (or, with positions, no less healthy than it was);
\* a fund pays out of the strategy it trades with.
SettlesInUSDC(F, a) == (Mode(a) = Unified /\ ~IsFund(a)) => F.margin[a][USDC] >= 0
AllowedAfterFill(F, a, s) ==
    IF IsFund(a) THEN F.strategies[a][s] >= 0 ELSE Mode(a) = Unified => Healthy(F, a)

\* Who may have orders on a spot market: users, and funds that are not frozen (a pool is
\* frozen without orders, and a frozen one makes none) in assets with a margin mode.
MayTrade(a, t) ==
    \/ IsUser(a)
    \/ IsFund(a) /\ ~account[a].frozen /\ {t.base, t.quote} \subseteq MarginAsset

\* One fill of a spot market: a sells t.sold of t.base to b for t.paid of t.quote.  A fill
\* that leaves a side without balance or unhealthy cancels its order instead.
SpotTrade(a, b, t, c, takerSells) ==
    LET sellers == FeeTransfer(Treasury, t.quote, t.partQuote, c)
        buyers  == FeeTransfer(Treasury, t.base, t.partBase, c)
    IN  /\ Start
        /\ a # b
        /\ MayTrade(a, t) /\ MayTrade(b, t)
        /\ Valid(SoldBase(t, a), a, t.base)
        /\ Valid(BoughtBase(t, a, b), b, t.base)
        /\ Valid(PaidQuote(t, a, b), b, t.quote)
        /\ Valid(ReceivedQuote(t, a, b), a, t.quote)
        /\ funds' = CollectedFees(t, a, b)
        /\ t.base = USDC => SettlesInUSDC(funds', a)
        /\ t.quote = USDC => SettlesInUSDC(funds', b)
        /\ \A z \in {a, b} : AllowedAfterFill(funds', z, SpotStrategy)
        /\ transfers' = IF takerSells THEN sellers \o buyers ELSE buyers \o sellers
        /\ Publish({a, b, Treasury}, {t.base, t.quote}, TRUE)
        /\ UNCHANGED <<account, useMargin, locked, custody>>

\* InternalTransferTxTarget: what the fee collector pays and what the integrator receives.
FeePaid(i, s) ==
    Delta(funds, i.from, i.asset, i.side, -(i.units * Mult[i.asset]), s)
FeeReceived(i, s) ==
    Delta(FeePaid(i, s), i.to, i.asset, i.side, i.units * Mult[i.asset], s)

\* Whether the transfer of an instruction can be made.
TransferPossible(i, s) ==
    /\ Exists(i.from) /\ Exists(i.to)
    /\ i.to # i.from
    /\ Splittable(i.from, i.asset, i.side) /\ Splittable(i.to, i.asset, i.side)
    /\ Valid(FeeReceived(i, s), i.from, i.asset)
    /\ Valid(FeeReceived(i, s), i.to, i.asset)

InternalTransfer(s) ==
    /\ ~NoInstruction
    /\ LET i == Head(transfers)
       IN  /\ TransferPossible(i, s)
           /\ funds' = FeeReceived(i, s)
           /\ Publish({i.from, i.to}, {i.asset}, TRUE)
    /\ transfers' = Tail(transfers)
    /\ UNCHANGED <<account, useMargin, locked, custody>>
=============================================================================
