------------------------------ MODULE Balances ------------------------------
(***************************************************************************)
(* The balances of the exchange: what every account holds of every asset on *)
(* its spot side and on its margin side, the supply caps of the assets used *)
(* as margin, the strategies of the insurance fund, and the balances the    *)
(* public data of the blocks adds up to.                                    *)
(*                                                                         *)
(* Balances are integers in the extended unit of the circuit: Mult[x]       *)
(* extended units make one unit of asset x on L1.                           *)
(***************************************************************************)
EXTENDS Integers, Sequences, FiniteSets, Functions

CONSTANTS
    Account,    \* account indexes
    Asset,      \* assets that are registered
    USDC,       \* the universal asset: every account may use it as margin
    LIT,        \* the staking asset
    MarginAsset, \* assets whose margin mode is enabled, on L1: the staking asset is not
    Strategy,   \* strategies of an insurance fund
    Default,    \* DEFAULT_STRATEGY_INDEX
    FeeAccount, \* the account a transfer names for its fee: nothing is asked of it
    Treasury,   \* TREASURY_ACCOUNT_INDEX, which is NIL_MASTER_ACCOUNT_INDEX too
    Reserved,   \* the treasury and the insurance fund operator
    Mult,       \* extension multiplier of every asset
    GlobalCap,  \* global_supply_cap of every asset, extended
    UserCap     \* user_supply_cap of every asset, extended

ASSUME BalancesAssumption ==
    /\ IsFiniteSet(Account) /\ IsFiniteSet(Asset) /\ IsFiniteSet(Strategy)
    /\ USDC \in Asset /\ LIT # USDC
    /\ USDC \in MarginAsset /\ LIT \notin MarginAsset
    /\ Default \in Strategy
    /\ {FeeAccount, Treasury} \subseteq Account
    /\ Reserved \subseteq Account
    /\ Mult \in [Asset -> Nat \ {0}]
    /\ GlobalCap \in [Asset -> Nat]
    /\ UserCap \in [Asset -> Nat]

VARIABLES
    account,    \* type, trading mode, master and pool data of every account
    funds,      \* balances, supplied totals and strategies
    useMargin,  \* non-universal assets an account uses as margin
    locked,     \* balances its resting spot orders lock
    transfers,  \* the TRANSFER_ASSET instructions on the stack, the top first
    published,  \* sum of the balance deltas in the public data
    custody     \* what L1 holds for the exchange, in units of L1

fundVars == <<account, funds, useMargin, locked, transfers, published, custody>>

Simple == "simple"
Unified == "unified"
Spot == "spot"
Perps == "perps"
Products == {Spot, Perps}

\* The account types; an account index that is not in use is "none".
Kinds == {"none", "master", "sub", "pool", "fund", "staking"}

\* AccountTarget::empty: a simple account of type zero without an address.
NoAccount == [kind |-> "none", mode |-> Simple, master |-> Treasury,
              frozen |-> FALSE, total |-> 0, own |-> 0, fee |-> 0, rate |-> 0]

Lesser(i, j) == IF i < j THEN i ELSE j
Positive(i) == IF i > 0 THEN i ELSE 0

\* The trading mode; the deposit that creates an account makes it unified.
Exists(a) == account[a].kind # "none"
Mode(a) == IF Exists(a) THEN account[a].mode ELSE Unified

IsFund(a) == account[a].kind = "fund"
IsPool(a) == account[a].kind \in {"pool", "fund"}
IsStaking(a) == account[a].kind = "staking"
IsUser(a) == account[a].kind \in {"master", "sub"}
UsedAsMargin(a, x) == x = USDC \/ useMargin[a][x]

-----------------------------------------------------------------------------
(* How a delta of asset x is split between the two sides of account a. *)

\* get_remaining_supply_cap
RemainingCap(F, a, x) ==
    IF F.margin[a][x] < 0 THEN 0
    ELSE Lesser(Positive(GlobalCap[x] - F.supplied[x]),
                Positive(UserCap[x] - F.margin[a][x]))

\* get_uta_margin_and_balance_inflow_deltas: what enters goes to margin up to the caps.
InflowPart(F, a, x, d) == IF x = USDC THEN d ELSE Lesser(d, RemainingCap(F, a, x))

\* get_uta_margin_and_balance_outflow_deltas: what leaves is taken from spot first.
OutflowPart(F, a, x, d) == -Positive(-d - F.spot[a][x])

\* The part of delta d on product `side' that goes to the margin balance.
MarginPart(F, a, x, side, d) ==
    CASE IsFund(a) /\ side = Spot -> d
      [] ~(IsFund(a) /\ side = Spot) /\ Mode(a) = Simple ->
            IF side = Perps THEN d ELSE 0
      [] ~(IsFund(a) /\ side = Spot) /\ Mode(a) = Unified /\ ~UsedAsMargin(a, x) -> 0
      [] OTHER -> IF d > 0 THEN InflowPart(F, a, x, d) ELSE OutflowPart(F, a, x, d)

\* The balances after d went to a: m of it to margin, the rest to spot.  A fund's
\* strategy follows its USDC margin; what users supply of an asset counts to its cap.
Put(F, a, x, side, m, d, s) ==
    [F EXCEPT !.margin[a][x] = @ + m,
              !.spot[a][x] = @ + (d - m),
              !.strategies[a][s] = @ + (IF IsFund(a) /\ x = USDC THEN m ELSE 0),
              !.supplied[x] = @ + (IF x = USDC \/ (IsFund(a) /\ side = Spot) THEN 0 ELSE m)]

\* apply_asset_delta
Delta(F, a, x, side, d, s) == Put(F, a, x, side, MarginPart(F, a, x, side, d), d, s)

\* The assertions of apply_asset_delta; an invalid balance only fails a caller that
\* allows overflow.
Splittable(a, x, side) ==
    side = Perps => /\ Mode(a) = Simple => x = USDC
                    /\ Mode(a) = Unified => UsedAsMargin(a, x)

\* A bug: only what is used as margin is looked at.
ValidForgetsSpot(F, a, x) == x # USDC => F.margin[a][x] >= 0

\* No balance in debt, but for the USDC margin, which the risk checks look at.
Valid(F, a, x) ==
    /\ F.spot[a][x] >= 0
    /\ x # USDC => F.margin[a][x] >= 0
    /\ F.supplied[x] >= 0

\* apply_collateral_delta: USDC of the perps side, whatever the mode of the account.
Collateral(F, a, d, s) ==
    [F EXCEPT !.margin[a][USDC] = @ + d,
              !.strategies[a][s] = @ + (IF IsFund(a) THEN d ELSE 0)]

\* apply_asset_delta_raw: one side only, which must have room for all of it.
Raw(F, a, x, side, d) ==
    IF side = Spot THEN [F EXCEPT !.spot[a][x] = @ + d]
    ELSE [F EXCEPT !.margin[a][x] = @ + d,
                   !.supplied[x] = @ + (IF x = USDC THEN 0 ELSE d)]

RawAllowed(F, a, x, side, d) ==
    /\ side = Spot => F.spot[a][x] + d >= 0
    /\ (side = Perps /\ x # USDC) => /\ d > 0 => d <= RemainingCap(F, a, x)
                                     /\ F.supplied[x] + d >= 0

-----------------------------------------------------------------------------
(* What an account may take out. *)

\* The total value of an account without positions, every price and loan-to-value one.
Value(F, a) == SumFunctionOnSet(F.margin[a], Asset)

\* Both sides of an asset.
Holds(F, a, x) == F.spot[a][x] + F.margin[a][x]

Healthy(F, a) == Value(F, a) >= 0

\* get_available_margin_balance, for an account without positions
AvailableMargin(a, x) ==
    Positive(Lesser(Value(funds, a), funds.margin[a][x]))

\* AccountAssetTarget::get_available_balance
AvailableSpot(a, x) == Positive(funds.spot[a][x] - locked[a][x])

\* A bug: the locked balance is only looked for on the spot side.
AvailableForgetsLock(a, x, side, skipOrders) ==
    IF Mode(a) = Simple \/ ~UsedAsMargin(a, x)
    THEN IF Mode(a) = Simple /\ side = Perps THEN AvailableMargin(a, x)
         ELSE AvailableSpot(a, x)
    ELSE AvailableMargin(a, x) + (IF side = Spot THEN funds.spot[a][x] ELSE 0)

\* get_available_asset_balance
Available(a, x, side, skipOrders) ==
    LET margin == AvailableMargin(a, x)
        onSpot == IF side = Spot THEN funds.spot[a][x] ELSE 0
        offSide == IF side = Perps THEN funds.spot[a][x] ELSE 0
    IN  IF Mode(a) = Simple
        THEN IF side = Spot THEN AvailableSpot(a, x) ELSE margin
        ELSE IF ~UsedAsMargin(a, x) THEN AvailableSpot(a, x)
        ELSE IF skipOrders THEN margin + onSpot
        ELSE Positive(margin + onSpot - Positive(locked[a][x] - offSide))

-----------------------------------------------------------------------------
(* The public data. *)

\* get_total_unlock_amount
Unlocking(F, a) ==
    LET waiting == F.unlocks[a]
    IN  SumFunctionOnSet([i \in DOMAIN waiting |-> waiting[i].amount], DOMAIN waiting)

\* What accounts have of an asset, on whatever side.
Total(balance, x, who) == SumFunctionOnSet([a \in who |-> balance[a][x]], who)
InAccounts(F, x) ==
    LET unlocking == [a \in Account |-> Unlocking(F, a)]
    IN  Total(F.spot, x, Account) + Total(F.margin, x, Account)
        + (IF x = LIT THEN SumFunctionOnSet(unlocking, Account) ELSE 0)
        + (IF x = USDC THEN SumFunctionOnSet(F.allocated, Account) ELSE 0)

\* The balance of an account the public data speaks of, in units of L1: its spot side
\* with the unlocks of the staking asset, its margin and its isolated margin, each
\* rounded down.
Worth(F, a, x) ==
    (F.spot[a][x] + IF x = LIT THEN Unlocking(F, a) ELSE 0) \div Mult[x]
        + F.margin[a][x] \div Mult[x]
        + IF x = USDC THEN F.allocated[a] \div Mult[x] ELSE 0

\* A bug: isolated margin is left out of the balance of USDC.
PublishForgetsIsolated(who, assets, different) ==
    LET worth(F, a, x) == F.spot[a][x] \div Mult[x] + F.margin[a][x] \div Mult[x]
    IN  published' = [a \in Account |-> [x \in Asset |->
            published[a][x] + IF different /\ a \in who /\ x \in assets
                              THEN worth(funds', a, x) - worth(funds, a, x)
                              ELSE 0]]

\* apply_aggregated_balance_deltas and apply_account_deltas, for the accounts and the
\* assets a transaction loads: nothing is published of a transaction of an account
\* with itself.
Publish(who, assets, different) ==
    published' = [a \in Account |-> [x \in Asset |->
        published[a][x] + IF different /\ a \in who /\ x \in assets
                          THEN Worth(funds', a, x) - Worth(funds, a, x)
                          ELSE 0]]

NoInstruction == transfers = << >>
=============================================================================
