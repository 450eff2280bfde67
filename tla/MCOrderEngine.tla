--------------------------- MODULE MCOrderEngine ---------------------------
(* The instances: markets pm, qm and rm are perps, sm is spot; prices are 1 and 2; an   *)
(* order with an expiry is good until the second block.                                *)
EXTENDS OrderEngine

Limit(owner, isAsk, price, base) ==
    [owner |-> owner, market |-> "pm", isAsk |-> isAsk, price |-> price, base |-> base,
     type |-> "limit", tif |-> Gtt, reduceOnly |-> FALSE, expiry |-> 2,
     mode |-> "expire_maker", scope |-> "account", fee |-> FALSE]
Buy(owner, price, base) == Limit(owner, FALSE, price, base)
Sell(owner, price, base) == Limit(owner, TRUE, price, base)
Immediate(r) == [r EXCEPT !.tif = Ioc, !.expiry = NilExpiry]
AtMarket(r) == [Immediate(r) EXCEPT !.type = "market"]
ReduceOnly(r) == [r EXCEPT !.reduceOnly = TRUE]
Stop(r) == [r EXCEPT !.type = "conditional", !.tif = Ioc]
StopLimit(r) == [r EXCEPT !.type = "conditional_limit"]
Twap(r) == [r EXCEPT !.type = "twap"]
On(m, r) == [r EXCEPT !.market = m]

To(base, price) == [market |-> "pm", base |-> base, price |-> price,
                    mode |-> "expire_maker", scope |-> "account", fee |-> FALSE]

\* Every account is its own master, except that a and b have the same.
Masters == [x \in Account |-> IF x = "b" THEN "a" ELSE x]
OwnMasters == [x \in Account |-> x]

Oco == [kind |-> "oco", legs |-> <<ReduceOnly(Stop(Sell("a", 1, 1))),
                                   ReduceOnly(StopLimit(Sell("a", 2, 1)))>>]
Oto == [kind |-> "oto", legs |-> <<Buy("a", 1, 1), ReduceOnly(Stop(Sell("a", 1, 0)))>>]
Otoco == [kind |-> "otoco", legs |-> <<Buy("a", 1, 2), ReduceOnly(Stop(Sell("a", 1, 0))),
                                       ReduceOnly(StopLimit(Sell("a", 2, 0)))>>]

Everywhere(types) == [m \in Market |-> types]

Position(open, longs, shorts, isolated) ==
    [open |-> open, ask |-> FirstAsk,
     size |-> [x \in Account |->
                  IF x \in longs THEN 1 ELSE IF x \in shorts THEN -1 ELSE 0],
     isolated |-> isolated]
Flat == {Position(Market, {}, {}, {})}
FlatOrLong(open) == {Position(open, {}, {}, {}), Position(open, {"a"}, {"b"}, {})}

-----------------------------------------------------------------------------
(* Trading: one of four markets is open, each asked for other transactions. *)

\* pm: makers and takers of every kind.
MatchingOrders ==
    {Buy("a", 1, 1), [Buy("b", 2, 1) EXCEPT !.mode = "expire_both", !.scope = "master"],
     Sell("c", 1, 1), [Sell("a", 2, 2) EXCEPT !.fee = TRUE],
     [Buy("c", 2, 1) EXCEPT !.tif = PostOnly],
     ReduceOnly(Sell("a", 1, 2)), ReduceOnly(Sell("f", 2, 1)),
     [Immediate(Buy("a", 2, 2)) EXCEPT !.mode = "reduce"],
     [AtMarket(Buy("c", 1, 2)) EXCEPT !.fee = TRUE]}

\* qm: orders that wait for a price or a time.
WaitingOrders ==
    {Stop(ReduceOnly(Sell("a", 1, 0))), StopLimit(Sell("a", 2, 1)),
     Twap(Buy("a", 1, 2)), Twap(ReduceOnly(Buy("b", 2, 1))),
     Sell("b", 1, 1), Buy("b", 1, 2)}

\* rm: a market that closes under orders, groups and positions.
ClosingOrders == {Buy("a", 1, 1), Sell("b", 1, 1), ReduceOnly(StopLimit(Sell("a", 1, 1)))}

\* sm: a spot market; f is an insurance fund, which locks nothing.
SpotOrders ==
    {Buy("a", 1, 2), Buy("a", 2, 1), Sell("b", 1, 1), Sell("b", 2, 2),
     Sell("f", 2, 1), Immediate(Buy("f", 2, 1)),
     [Immediate(Sell("a", 1, 2)) EXCEPT !.mode = "reduce"]}

TradingOrders ==
    MatchingOrders
    \union {On("qm", r) : r \in WaitingOrders}
    \union {On("rm", r) : r \in ClosingOrders}
    \union {On("sm", r) : r \in SpotOrders}
TradingChanges ==
    {To(1, 1), To(2, 1)}
    \union {On("qm", c) : c \in {To(0, 1), To(1, 1)}}
    \union {On("sm", c) : c \in {To(1, 1), To(2, 1), To(2, 2)}}
TradingGroups == {[Oto EXCEPT !.legs[1].market = "rm", !.legs[2].market = "rm"]}
TradingOpening ==
    {Position({"pm"}, {}, {}, {}), Position({"pm"}, {"f"}, {"b"}, {}),
     Position({"sm"}, {}, {}, {})}
    \union FlatOrLong({"qm"}) \union FlatOrLong({"rm"})
TradingTypes ==
    [pm |-> {"L2CreateOrder", "L1CreateOrder", "L2ModifyOrder", "InternalLiquidatePosition",
             "InternalDeleverage"},
     qm |-> {"L2CreateOrder", "L2ModifyOrder", "L2CancelOrder", "InternalCreateOrder"},
     rm |-> {"L2CreateOrder", "L2CreateGroupedOrders", "L2CancelOrder", "L1UpdateMarket",
             "InternalCancelOrder", "InternalCreateOrder", "InternalExitPosition"},
     sm |-> {"L2CreateOrder", "L2ModifyOrder", "L2CancelOrder", "L2CancelAllOrders"}]

-----------------------------------------------------------------------------
(* Groups. *)

Groups == {Oco, Oto, Otoco}
GroupOrders == {Sell("b", 1, 1), Buy("b", 2, 2), Immediate(Sell("a", 1, 2))}
GroupChanges == {To(1, 1)}
GroupOpening == FlatOrLong({"pm"})
GroupTypes ==
    {"L2CreateOrder", "L2CreateGroupedOrders", "L2ModifyOrder", "L2CancelOrder",
     "InternalCancelOrder", "InternalCreateOrder"}

-----------------------------------------------------------------------------
(* Cancelling everything: on rm and qm a is a trader with a cross and an isolated       *)
(* market, and b uses what it has in sm as margin.  Few nonces are left.                *)

CancelOrders ==
    {On("qm", Buy("a", 1, 1)), On("rm", Stop(ReduceOnly(Sell("a", 1, 1)))),
     On("sm", Buy("b", 1, 1)), On("rm", Buy("b", 1, 1))}
CancelOpening ==
    {[Position({"qm", "rm", "sm"}, {"a"}, {"b"}, {<<"a", "qm">>}) EXCEPT !.ask = MaxNonce - 3]}
CancelTypes ==
    {"L2CreateOrder", "L2CancelAllOrders", "L1CancelAllOrders", "InternalCancelAllOrders",
     "InternalDeleverage"}

\* One run asks pm for groups, or else the other markets to cancel everything.
InstructionOrders == GroupOrders \union CancelOrders
InstructionOpening == GroupOpening \union CancelOpening
InstructionTypes == [m \in Market |-> IF m = "pm" THEN GroupTypes ELSE CancelTypes]

-----------------------------------------------------------------------------
(* The instances that contradict a comment of the code. *)

SpotTwapOrders == {On("sm", Twap(Buy("a", 1, 2))), On("sm", Buy("a", 1, 1))}
SpotTwapChanges == {On("sm", To(1, 1))}
SpotTwapTypes == Everywhere({"L2CreateOrder", "L2ModifyOrder", "InternalCreateOrder"})
CrossCancelOrders == {Buy("a", 1, 1), On("sm", Buy("a", 1, 1))}
CrossCancelTypes == Everywhere({"L2CreateOrder", "InternalCancelAllOrders"})
LastingGroups == {[Oto EXCEPT !.legs[1].expiry = NilExpiry]}
LastingTypes == Everywhere({"L2CreateGroupedOrders"})
=============================================================================
