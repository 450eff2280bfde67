---------------------------- MODULE OrderLedger ----------------------------
(***************************************************************************)
(* The order counts the exchange keeps in three leaves of its state (market, *)
(* account and account position) and the positions and market slots they   *)
(* guard.  No transaction can enumerate the orders of an account or of a   *)
(* market: cancel-all, margin-mode changes, position exits and the reuse of *)
(* a market slot all trust a count.                                        *)
(*                                                                         *)
(* The operators take and return a ledger record, so that OrderEngine runs *)
(* them inside its transactions; the state machine at the end of the module *)
(* is the ledger alone, under every transaction that moves it.             *)
(***************************************************************************)
EXTENDS Integers, FiniteSets, Functions

CONSTANTS
    Account,    \* account indexes
    Market,     \* market slots
    Perps,      \* the slots at perps indexes; the others are spot slots
    Pool,       \* public pools
    Insurance,  \* insurance fund accounts
    OrderId,    \* order indexes
    NoOrder,    \* AccountOrderTarget::empty
    MaxPublic,  \* MAX_PUBLIC_MARKET_INDEX
    MaxSize     \* a bound on positions (POSITION_SIZE_BITS)

ASSUME LedgerAssumption ==
    /\ IsFiniteSet(Account)
    /\ IsFiniteSet(OrderId)
    /\ Perps \subseteq Market
    /\ Pool \subseteq Account
    /\ Insurance \subseteq Account
    /\ MaxPublic \in Nat
    /\ MaxSize \in Nat

Cross == "cross"
Isolated == "isolated"
Modes == {Cross, Isolated}

Expired == "expired"
Active == "active"
InSettlement == "in_settlement"
Statuses == {Expired, Active, InSettlement}

\* TRIGGER_STATUS_NA, _MARK_PRICE, _TWAP and _PARENT_ORDER.
TriggerStatuses == {"na", "mark_price", "twap", "parent_order"}

NilPublic == 0          \* NIL_PUBLIC_MARKET_INDEX

Orders == [owner : Account, market : Market, reduceOnly : BOOLEAN,
           trigger : TriggerStatuses]

ASSUME NoOrderAssumption == NoOrder \notin Orders

Abs(x) == IF x < 0 THEN -x ELSE x

-----------------------------------------------------------------------------
(* The leaves. *)

\* MarketTarget::settled / empty: an expired slot hosts no market.
EmptyMarket == [status |-> Expired, public |-> NilPublic, orders |-> 0,
                openInterest |-> 0, isolatedOnly |-> FALSE, default |-> Cross]

\* AccountPositionTarget::empty
EmptyPosition == [public |-> NilPublic, size |-> 0, orders |-> 0, tied |-> 0,
                  mode |-> Cross]

EmptyLedger ==
    [market   |-> [m \in Market |-> EmptyMarket],
     account  |-> [a \in Account |-> [orders |-> 0, nonCross |-> 0]],
     position |-> [am \in Account \X Market |-> EmptyPosition]]

\* init_if_empty: a position left from an earlier market on the slot, or never
\* used, starts afresh with the market's default margin mode; pools and the
\* insurance fund are forced cross.
InitIfEmpty(L, a, m) ==
    IF L.position[<<a, m>>].public = L.market[m].public
    THEN L.position[<<a, m>>]
    ELSE [EmptyPosition EXCEPT
             !.public = L.market[m].public,
             !.mode = IF a \in Pool \union Insurance THEN Cross
                      ELSE L.market[m].default]

\* A reduce-only order counts as tied to the position unless it waits for its parent.
IsTied(o) == o.reduceOnly /\ o.trigger # "parent_order"

One(b) == IF b THEN 1 ELSE 0

\* A bug: the account's non-cross count only knows isolated positions.
IncrementForgetsSpot(L, o) ==
    LET p == InitIfEmpty(L, o.owner, o.market)
    IN  [L EXCEPT
            !.market[o.market].orders = @ + 1,
            !.account[o.owner].orders = @ + 1,
            !.account[o.owner].nonCross =
                @ + One(o.market \in Perps /\ p.mode = Isolated),
            !.position[<<o.owner, o.market>>] =
                IF o.market \in Perps
                THEN [p EXCEPT !.orders = @ + 1, !.tied = @ + One(IsTied(o))]
                ELSE @]

\* A bug: a position left from the slot's earlier market is not started afresh.
IncrementKeepsStale(L, o) ==
    LET p == L.position[<<o.owner, o.market>>]
    IN  [L EXCEPT
            !.market[o.market].orders = @ + 1,
            !.account[o.owner].orders = @ + 1,
            !.account[o.owner].nonCross =
                @ + One(o.market \notin Perps \/ p.mode = Isolated),
            !.position[<<o.owner, o.market>>] =
                IF o.market \in Perps
                THEN [p EXCEPT !.orders = @ + 1, !.tied = @ + One(IsTied(o))]
                ELSE @]

\* increment_order_count_in_place
Increment(L, o) ==
    LET p == InitIfEmpty(L, o.owner, o.market)
    IN  [L EXCEPT
            !.market[o.market].orders = @ + 1,
            !.account[o.owner].orders = @ + 1,
            !.account[o.owner].nonCross =
                @ + One(o.market \notin Perps \/ p.mode = Isolated),
            !.position[<<o.owner, o.market>>] =
                IF o.market \in Perps
                THEN [p EXCEPT !.orders = @ + 1, !.tied = @ + One(IsTied(o))]
                ELSE @]

\* decrement_order_count_in_place
Decrement(L, o) ==
    LET p == L.position[<<o.owner, o.market>>]
    IN  [L EXCEPT
            !.market[o.market].orders = @ - 1,
            !.account[o.owner].orders = @ - 1,
            !.account[o.owner].nonCross =
                @ - One(o.market \notin Perps \/ p.mode = Isolated),
            !.position[<<o.owner, o.market>>] =
                IF o.market \in Perps
                THEN [p EXCEPT !.orders = @ - 1, !.tied = @ - One(IsTied(o))]
                ELSE @]

\* modify_order_count, when a parent's fill turns a child into a trigger order.
CountTriggered(L, o) ==
    [L EXCEPT !.position[<<o.owner, o.market>>].tied = @ + One(o.reduceOnly)]

\* A bug: an in-settlement market is released while positions are still open.
ReleaseWithPositions(L, m) ==
    IF L.market[m].status = InSettlement /\ L.market[m].orders = 0
    THEN [L EXCEPT !.market[m] = EmptyMarket]
    ELSE L

\* release_closed_market_slot_if_drained
Release(L, m) ==
    IF /\ L.market[m].status = InSettlement
       /\ L.market[m].orders = 0
       /\ L.market[m].openInterest = 0
    THEN [L EXCEPT !.market[m] = EmptyMarket]
    ELSE L

\* A bug: the market only changes its status, even if nothing is left in it.
CloseOnly(L, m) == [L EXCEPT !.market[m].status = InSettlement]

\* L1UpdateMarket with the expired status: the market goes into settlement.
Close(L, m) == Release([L EXCEPT !.market[m].status = InSettlement], m)

\* A bug: the open interest moves with the traded size, not with the positions.
MoveBySize(L, a, m, delta) ==
    LET p == InitIfEmpty(L, a, m)
    IN  [L EXCEPT !.position[<<a, m>>] = [p EXCEPT !.size = @ + delta],
                  !.market[m].openInterest = @ + Abs(delta)]

\* One side of apply_trade on a perps market (calculate_position_change): the open
\* interest moves with the absolute value of the position.
Move(L, a, m, delta) ==
    LET p == InitIfEmpty(L, a, m)
    IN  [L EXCEPT !.position[<<a, m>>] = [p EXCEPT !.size = @ + delta],
                  !.market[m].openInterest = @ + Abs(p.size + delta) - Abs(p.size)]

\* is_order_or_position_open
IsOpen(p) == p.orders # 0 \/ p.size # 0

-----------------------------------------------------------------------------
(* The ledger alone. *)

VARIABLES
    ledger,      \* the market, account and position leaves
    orders,      \* the account orders tree: every order, on the book or waiting
    nextPublic   \* next_public_market_index
vars == <<ledger, orders, nextPublic>>

Markets == [status : Statuses, public : 0..MaxPublic, orders : Nat,
            openInterest : Int, isolatedOnly : BOOLEAN, default : Modes]
Positions == [public : 0..MaxPublic, size : Int, orders : Nat, tied : Nat, mode : Modes]
Ledgers == [market   : [Market -> Markets],
            account  : [Account -> [orders : Nat, nonCross : Nat]],
            position : [Account \X Market -> Positions]]

\* Counts, positions and slots stay in range: in the circuit's field a count taken
\* below zero is not negative but enormous.
TypeOK ==
    /\ ledger \in Ledgers
    /\ orders \in [OrderId -> Orders \union {NoOrder}]
    /\ nextPublic \in 1..MaxPublic + 1

Init ==
    /\ ledger = EmptyLedger
    /\ orders = [i \in OrderId |-> NoOrder]
    /\ nextPublic = 1

\* L1CreateMarket on a perps or spot slot: a new public index, flags cleared.
CreateMarket(m) ==
    /\ ledger.market[m].status = Expired
    /\ ledger.market[m].orders = 0
    /\ ledger.market[m].openInterest = 0
    /\ nextPublic <= MaxPublic
    /\ ledger' = [ledger EXCEPT !.market[m] =
                     [EmptyMarket EXCEPT !.status = Active, !.public = nextPublic]]
    /\ nextPublic' = nextPublic + 1
    /\ UNCHANGED orders

\* A bug: the flag is raised on a market that has orders or positions.
ConfigAllowedAnytime(mk, isolatedOnly, default) ==
    /\ mk.status = Active
    /\ isolatedOnly => default = Isolated

\* L2UpdateMarketConfig: a market becomes isolated-only only without orders and
\* positions, and then defaults to isolated.
ConfigAllowed(mk, isolatedOnly, default) ==
    /\ mk.status = Active
    /\ isolatedOnly /\ ~mk.isolatedOnly => mk.openInterest = 0 /\ mk.orders = 0
    /\ isolatedOnly => default = Isolated

UpdateMarketConfig(m, isolatedOnly, default) ==
    /\ m \in Perps
    /\ ConfigAllowed(ledger.market[m], isolatedOnly, default)
    /\ ledger' = [ledger EXCEPT !.market[m].isolatedOnly = isolatedOnly,
                                !.market[m].default = default]
    /\ UNCHANGED <<orders, nextPublic>>

\* L1UpdateMarket with the expired status.
ExpireMarket(m) ==
    /\ ledger.market[m].status = Active
    /\ ledger' = Close(ledger, m)
    /\ UNCHANGED <<orders, nextPublic>>

\* A bug: only an open position stops a change of margin mode.
LeverageAllowedWithOrders(L, a, m, mode) ==
    LET p == L.position[<<a, m>>]
    IN  /\ L.market[m].status = Active
        /\ mode # p.mode => ~(p.size # 0 /\ p.public = L.market[m].public)
        /\ a \in Pool \union Insurance => mode = Cross
        /\ a \notin Insurance /\ L.market[m].isolatedOnly => mode = Isolated

\* The checks of L2UpdateLeverage on the margin mode.
LeverageAllowed(L, a, m, mode) ==
    LET p == L.position[<<a, m>>]
    IN  /\ L.market[m].status = Active
        /\ mode # p.mode => ~(IsOpen(p) /\ p.public = L.market[m].public)
        /\ a \in Pool \union Insurance => mode = Cross
        /\ a \notin Insurance /\ L.market[m].isolatedOnly => mode = Isolated

UpdateLeverage(a, m, mode) ==
    /\ m \in Perps
    /\ LeverageAllowed(ledger, a, m, mode)
    /\ ledger' = [ledger EXCEPT !.position[<<a, m>>] =
                     [InitIfEmpty(ledger, a, m) EXCEPT !.mode = mode]]
    /\ UNCHANGED <<orders, nextPublic>>

\* The margin checks of L2CreateOrder and L2CreateGroupedOrders.
MayOrder(L, a, m) ==
    /\ L.market[m].status = Active
    /\ m \in Perps /\ a \notin Insurance /\ L.market[m].isolatedOnly =>
         a \notin Pool /\ InitIfEmpty(L, a, m).mode = Isolated

\* Orders a handler can store: a child order is reduce-only; a spot order is not,
\* and waits for nothing but a TWAP's schedule.
Storable(o) ==
    /\ o.trigger = "parent_order" => o.reduceOnly
    /\ o.market \notin Perps => ~o.reduceOnly /\ o.trigger \in {"na", "twap"}

\* An order is stored, on the book or waiting for its trigger.
StoreOrder(i, o) ==
    /\ orders[i] = NoOrder
    /\ Storable(o)
    /\ MayOrder(ledger, o.owner, o.market)
    /\ orders' = [orders EXCEPT ![i] = o]
    /\ ledger' = Increment(ledger, o)
    /\ UNCHANGED nextPublic

\* A cancelled or closed order leaves the ledger; the last one of a market in
\* settlement frees the slot.
RemoveOrder(i) ==
    /\ orders[i] # NoOrder
    /\ orders' = [orders EXCEPT ![i] = NoOrder]
    /\ ledger' = Release(Decrement(ledger, orders[i]), orders[i].market)
    /\ UNCHANGED nextPublic

\* InternalCreateOrder on a TRIGGER_CHILD_ORDER instruction.
TriggerChild(i) ==
    /\ orders[i] # NoOrder
    /\ orders[i].trigger = "parent_order"
    /\ orders[i].market \in Perps
    /\ ledger.market[orders[i].market].status = Active
    /\ orders' = [orders EXCEPT ![i].trigger = "mark_price"]
    /\ ledger' = CountTriggered(ledger, orders[i])
    /\ UNCHANGED nextPublic

\* A taker buys (delta > 0) or sells against the resting order i, with a new order or
\* with one it already has (a triggered order, a slice of a TWAP, a modified order).
Trade(taker, i, delta) ==
    /\ orders[i] # NoOrder
    /\ orders[i].trigger = "na"
    /\ LET m == orders[i].market
           maker == orders[i].owner
           after == Move(Move(ledger, taker, m, delta), maker, m, -delta)
       IN  /\ m \in Perps
           /\ maker # taker
           /\ delta # 0
           /\ ledger.market[m].status = Active
           /\ MayOrder(ledger, taker, m) \/ ledger.position[<<taker, m>>].orders # 0
           /\ \A a \in {taker, maker} : Abs(after.position[<<a, m>>].size) <= MaxSize
           /\ ledger' = after
    /\ UNCHANGED <<orders, nextPublic>>

\* InternalDeleverage: part of the position of a bankrupt account, which has no order
\* left in that margin mode, is taken over by the insurance fund or by an account
\* with an opposite position.
Deleverage(bankrupt, deleverager, m, size) ==
    LET p == ledger.position[<<bankrupt, m>>]
        q == ledger.position[<<deleverager, m>>]
        delta == IF p.size > 0 THEN -size ELSE size
        orderCount == IF p.mode = Isolated
                      THEN p.orders
                      ELSE ledger.account[bankrupt].orders - ledger.account[bankrupt].nonCross
        after == Move(Move(ledger, bankrupt, m, delta), deleverager, m, -delta)
    IN  /\ m \in Perps
        /\ bankrupt # deleverager
        /\ ledger.market[m].status = Active
        /\ size <= Abs(p.size)
        /\ orderCount = 0 \/ bankrupt \in Insurance
        /\ deleverager \notin Insurance => size <= Abs(q.size) /\ q.size * p.size < 0
        /\ Abs(after.position[<<deleverager, m>>].size) <= MaxSize
        /\ ledger' = after
        /\ UNCHANGED <<orders, nextPublic>>

\* InternalExitPosition: a position of a market in settlement is closed.
ExitPosition(a, m) ==
    /\ m \in Perps
    /\ ledger.market[m].status = InSettlement
    /\ ledger.position[<<a, m>>].orders = 0
    /\ ledger' = [Release([ledger EXCEPT !.market[m].openInterest =
                                @ - Abs(ledger.position[<<a, m>>].size)], m)
                    EXCEPT !.position[<<a, m>>] = EmptyPosition]
    /\ UNCHANGED <<orders, nextPublic>>

Next ==
    \/ \E m \in Market : CreateMarket(m) \/ ExpireMarket(m)
    \/ \E m \in Market, b \in BOOLEAN, d \in Modes : UpdateMarketConfig(m, b, d)
    \/ \E a \in Account, m \in Market, mode \in Modes : UpdateLeverage(a, m, mode)
    \/ \E i \in OrderId, o \in Orders : StoreOrder(i, o)
    \/ \E i \in OrderId : RemoveOrder(i) \/ TriggerChild(i)
    \/ \E a \in Account, i \in OrderId, d \in -2 * MaxSize .. 2 * MaxSize : Trade(a, i, d)
    \/ \E a, b \in Account, m \in Market, n \in 1..MaxSize : Deleverage(a, b, m, n)
    \/ \E a \in Account, m \in Market : ExitPosition(a, m)

Spec == Init /\ [][Next]_vars

-----------------------------------------------------------------------------
(* Properties. *)

OfMarket(m) == {i \in OrderId : orders[i] # NoOrder /\ orders[i].market = m}
OfAccount(a) == {i \in OrderId : orders[i] # NoOrder /\ orders[i].owner = a}
OfPosition(a, m) == {i \in OfMarket(m) : orders[i].owner = a}
TiedTo(a, m) == {i \in OfPosition(a, m) : IsTied(orders[i])}
NonCrossOf(a) ==
    {i \in OfAccount(a) :
        \/ orders[i].market \notin Perps
        \/ ledger.position[<<a, orders[i].market>>].mode = Isolated}

\* Every count is the number of orders it stands for.  The size of a cancel-all
\* instruction is such a count: one too many and the instruction never finishes,
\* one too few and it leaves orders behind.  The non-cross count depends on the
\* margin mode the position has now, not the one it had when the order was stored.
CountsMatch ==
    /\ \A m \in Market : ledger.market[m].orders = Cardinality(OfMarket(m))
    /\ \A a \in Account :
          /\ ledger.account[a].orders = Cardinality(OfAccount(a))
          /\ ledger.account[a].nonCross = Cardinality(NonCrossOf(a))
    /\ \A a \in Account, m \in Perps :
          /\ ledger.position[<<a, m>>].orders = Cardinality(OfPosition(a, m))
          /\ ledger.position[<<a, m>>].tied = Cardinality(TiedTo(a, m))

\* A slot is released exactly when it is drained.  One that hosts no market has no order and
\* no open position left from one, so that the next market created on it starts clean
\* (release_closed_market_slot_if_drained: "so its slot can be reused"); a market in
\* settlement has an order or a position left ("the slot is released once every order is
\* cancelled and every position exited", l1_update_market.rs), whichever of the two comes
\* last, or neither was there when the market was closed.
ReleasedWhenDrained ==
    \A m \in Market :
        /\ ledger.market[m].status = Expired =>
               /\ OfMarket(m) = {}
               /\ \A a \in Account : ledger.position[<<a, m>>].size = 0
        /\ ledger.market[m].status = InSettlement =>
               ledger.market[m].orders # 0 \/ ledger.market[m].openInterest # 0

\* A market's open interest is the total of its positions and its longs equal its
\* shorts until it settles: it is what release_closed_market_slot_if_drained looks at
\* to know that nobody holds a position.
OpenInterestMatches ==
    \A m \in Perps :
        LET size == [a \in Account |-> ledger.position[<<a, m>>].size]
            held == [a \in Account |-> Abs(size[a])]
        IN  /\ ledger.market[m].openInterest = SumFunctionOnSet(held, Account)
            /\ ledger.market[m].status = Active => SumFunctionOnSet(size, Account) = 0

\* Whoever is not the insurance fund holds orders and positions of an isolated-only
\* market in isolated margin only, whatever the order of configuration, margin-mode
\* and order transactions ("Pools can't trade on isolated-only markets",
\* "explicitly-cross position conflicts", l2_create_order.rs).
IsolatedOnlyRespected ==
    \A a \in Account \ Insurance, m \in Perps :
        LET p == ledger.position[<<a, m>>]
        IN  ledger.market[m].isolatedOnly /\ IsOpen(p) => p.mode = Isolated

\* A position of an earlier market on a slot never counts in the next one.
OpenPositionsAreLive ==
    \A a \in Account, m \in Perps :
        LET p == ledger.position[<<a, m>>]
        IN  IsOpen(p) => p.public = ledger.market[m].public /\ p.public # NilPublic

\* "We only allow to update margin mode if there is no active position or order in
\* the market" (l2_update_leverage.rs), and no other transaction changes it either.
ModeFixedWhileOpen ==
    [][\A a \in Account, m \in Perps :
          IsOpen(ledger.position[<<a, m>>]) /\ IsOpen(ledger'.position[<<a, m>>]) =>
              ledger'.position[<<a, m>>].mode = ledger.position[<<a, m>>].mode]_vars
=============================================================================
