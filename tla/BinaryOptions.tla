--------------------------- MODULE BinaryOptions ---------------------------
(***************************************************************************)
(* A market slot for binary options: its operator opens a market on it, YES *)
(* and NO shares are traded against the settlement cap they pay together,   *)
(* the operator says what the outcome is, and every position is paid before *)
(* the slot takes the next market.  A share is paid for in USDC when it is  *)
(* taken: who sells YES sets the cap of the shares aside and keeps the NO.  *)
(*                                                                         *)
(* Orders are counted here and ordered in Matching: which one a fill meets  *)
(* is left open, and so is whether the trading window is open.              *)
(***************************************************************************)
EXTENDS FundTransactions

CONSTANTS
    Cap,        \* settlement_cap: what a YES and a NO share pay together, in quote ticks
    Tick,       \* quote_extension_multiplier: a quote tick in extended USDC
    Limit,      \* open_interest_limit, in quote ticks
    MaxMarket,  \* a bound on the markets that are created
    MaxResting  \* a bound on the orders an account has resting

ASSUME BinaryOptionsAssumption ==
    /\ {Cap, Tick, MaxMarket} \subseteq Nat \ {0}
    /\ {Limit, MaxResting} \subseteq Nat

VARIABLES
    slot,       \* the market leaf of the slot
    options,    \* binary_options_position of every account on the slot
    nextMarket  \* next_public_market_index

optionVars == <<slot, options, nextMarket>>

NilMarket == 0
Active == "active"
InSettlement == "in settlement"
Expired == "expired"
Nobody == "nobody"

\* MarketTarget::empty, but for the operator and the fee collector of the slot
NoMarket(operator, collector) ==
    [market |-> NilMarket, status |-> Expired, operator |-> operator,
     collector |-> collector, discrete |-> FALSE, default |-> 0, price |-> 0,
     frozen |-> FALSE, openInterest |-> 0, orders |-> 0]

EmptyPosition(m) == [market |-> m, size |-> 0, entry |-> 0, orders |-> 0]

HasNoData(p) == p.size = 0 /\ p.entry = 0 /\ p.orders = 0

\* get_binary_options_position: what was left from another market is not seen.
PositionOf(a) ==
    IF options[a].market = slot.market THEN options[a] ELSE EmptyPosition(slot.market)

\* apply_account_market_delta: a position without data is removed.
Kept(p) == IF HasNoData(p) THEN EmptyPosition(NilMarket) ELSE p

\* A bug: positions that are still to be paid are not waited for.
ReleaseWithPositions(S) ==
    IF S.status = InSettlement /\ S.orders = 0 THEN NoMarket(S.operator, S.collector) ELSE S

\* release_closed_market_slot_if_drained
Release(S) ==
    IF S.status = InSettlement /\ S.orders = 0 /\ S.openInterest = 0
    THEN NoMarket(S.operator, S.collector)
    ELSE S

-----------------------------------------------------------------------------
(* The operator of the slot. *)

\* L2UpdateMarketSlot: whatever the slot holds, it may be given another operator and
\* another account that collects the fees of its fills.
UpdateMarketSlot(operator, collector) ==
    /\ Start
    /\ IsUser(operator) /\ IsUser(collector)
    /\ slot' = [slot EXCEPT !.operator = operator, !.collector = collector]
    /\ UNCHANGED <<options, nextMarket, fundVars>>

\* L2CreateMarketTxTarget: on a slot that is drained.
CreateMarket(discrete, default, frozen) ==
    /\ Start
    /\ slot.operator # Nobody
    /\ slot.status = Expired /\ slot.orders = 0 /\ slot.openInterest = 0
    /\ nextMarket <= MaxMarket
    /\ slot' = [NoMarket(slot.operator, slot.collector) EXCEPT
                    !.market = nextMarket, !.status = Active, !.discrete = discrete,
                    !.default = default, !.frozen = frozen]
    /\ nextMarket' = nextMarket + 1
    /\ UNCHANGED <<options, fundVars>>

\* L2UpdateMarket: the book is frozen or not.
UpdateMarket(frozen) ==
    /\ Start
    /\ slot.status = Active
    /\ slot' = [slot EXCEPT !.frozen = frozen]
    /\ UNCHANGED <<options, nextMarket, fundVars>>

\* L2SettleOutcome: a price, all or nothing where the market is discrete, or a refund.
SettleOutcome(price, refund) ==
    /\ Start
    /\ slot.status = Active
    /\ ~refund /\ slot.discrete => price \in {0, Cap}
    /\ refund => price = 0
    /\ slot' = Release([slot EXCEPT !.status = InSettlement,
                                    !.price = IF refund THEN slot.default ELSE price])
    /\ UNCHANGED <<options, nextMarket, fundVars>>

-----------------------------------------------------------------------------
(* Orders *)

\* A limit order of a comes to rest: increment_order_count_in_place.
RestOrder(a) ==
    /\ Start
    /\ IsUser(a)
    /\ slot.status = Active /\ ~slot.frozen
    /\ PositionOf(a).orders < MaxResting
    /\ options' = [options EXCEPT ![a] = [PositionOf(a) EXCEPT !.orders = @ + 1]]
    /\ slot' = [slot EXCEPT !.orders = @ + 1]
    /\ UNCHANGED <<nextMarket, fundVars>>

\* One is cancelled, by its owner or, once the market closes, by the rollup.
CancelOrder(a) ==
    /\ Start
    /\ PositionOf(a).orders > 0
    /\ options' = [options EXCEPT ![a] = Kept([PositionOf(a) EXCEPT !.orders = @ - 1])]
    /\ slot' = Release([slot EXCEPT !.orders = @ - 1])
    /\ UNCHANGED <<nextMarket, fundVars>>

-----------------------------------------------------------------------------
(* Trades and payouts *)

Magnitude(i) == IF i < 0 THEN -i ELSE i

\* calculate_binary_options_position_change: what a trade closes and opens, and what was
\* paid for the position, which goes with the closed part of it.
PositionChange(p, isAsk, base, quote) ==
    LET delta  == IF isAsk THEN -base ELSE base
        close  == IF p.size * delta < 0 THEN Lesser(Magnitude(p.size), base) ELSE 0
        open   == base - close
        closed == IF close = 0 THEN 0 ELSE (p.entry * close) \div Magnitude(p.size)
        cost   == (quote * open) \div base
    IN  [close |-> close, open |-> open,
         position |-> [p EXCEPT
             !.size = @ + delta,
             !.entry = @ - closed + IF isAsk THEN Cap * open - cost ELSE cost]]

\* The position of the maker loses the order that is filled.
Unrested(p, filled) == IF filled THEN [p EXCEPT !.orders = @ - 1] ELSE p

\* One fill: a buys deal.base YES shares from b at deal.price, one of them with a resting
\* order.  apply_binary_options_trade: the buyer gets back the cap of the NO shares he
\* closes, the seller sets it aside for those he opens; the collector of the slot is paid
\* the fees.
Trade(a, b, deal, c, takerSells, filled) ==
    LET f        == slot.collector
        quote    == deal.base * deal.price
        bought   == PositionChange(PositionOf(a), FALSE, deal.base, quote)
        sold     == PositionChange(PositionOf(b), TRUE, deal.base, quote)
        interest == slot.openInterest + bought.open + sold.open - bought.close - sold.close
        buyFee   == IF takerSells THEN deal.makerFee ELSE deal.takerFee
        sellFee  == IF takerSells THEN deal.takerFee ELSE deal.makerFee
        fees     == buyFee + sellFee
        paid     == Delta(funds, a, USDC, Spot,
                          Tick * (Cap * bought.close - quote) - buyFee + Own(f, a, fees),
                          Default)
        settled  == Delta(paid, b, USDC, Spot,
                          Tick * (quote - Cap * sold.open) - sellFee + Own(f, b, fees),
                          Default)
        taker    == FeeTransfer(f, USDC, deal.takerPart, c)
        maker    == FeeTransfer(f, USDC, deal.makerPart, c)
    IN  /\ Start
        /\ a # b /\ IsUser(a) /\ IsUser(b)
        /\ slot.status = Active /\ ~slot.frozen
        /\ PositionOf(IF takerSells THEN a ELSE b).orders > 0
        /\ deal.price < Cap
        /\ interest > slot.openInterest => interest * Cap <= Limit
        /\ Valid(settled, a, USDC) /\ Valid(settled, b, USDC)
        /\ funds' = Delta(settled, f, USDC, Spot, Collected(f, a, b, fees), Default)
        /\ \A z \in {a, b} : SettlesInUSDC(funds', z) /\ AllowedAfterFill(funds', z, Default)
        /\ transfers' = taker \o maker
        /\ options' = [options EXCEPT
               ![a] = Kept(Unrested(bought.position, filled /\ takerSells)),
               ![b] = Kept(Unrested(sold.position, filled /\ ~takerSells))]
        /\ slot' = [slot EXCEPT !.openInterest = interest,
                                !.orders = @ - IF filled THEN 1 ELSE 0]
        /\ Publish({a, b, f}, {USDC}, TRUE)
        /\ UNCHANGED <<nextMarket, account, useMargin, locked, custody>>

\* What a position is paid at a settlement price.
Payout(p, price) == Magnitude(p.size) * (IF p.size < 0 THEN Cap - price ELSE price)

\* InternalSettleBinaryOptionsPosition: once no order of its account is left.
SettlePosition(a) ==
    LET p == PositionOf(a)
    IN  /\ Start
        /\ Exists(a)
        /\ slot.status = InSettlement
        /\ p.orders = 0
        /\ Magnitude(p.size) <= slot.openInterest
        /\ funds' = Delta(funds, a, USDC, Spot, Tick * Payout(p, slot.price), Default)
        /\ options' = [options EXCEPT ![a] =
                           IF p.size # 0 THEN EmptyPosition(NilMarket) ELSE Kept(p)]
        /\ slot' = Release([slot EXCEPT !.openInterest = @ - Magnitude(p.size)])
        /\ Publish({a}, {USDC}, TRUE)
        /\ UNCHANGED <<nextMarket, account, useMargin, locked, transfers, custody>>
=============================================================================
