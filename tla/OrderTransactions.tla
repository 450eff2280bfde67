------------------------- MODULE OrderTransactions -------------------------
(***************************************************************************)
(* The transactions with which users place, change and cancel orders.  Each *)
(* starts on an empty register stack (tx_type.rs), changes the leaves and   *)
(* leaves instructions; the ones that ask for it are followed by a step of  *)
(* the matching engine in the same proof.  A transaction whose `success'    *)
(* flag is false changes nothing modelled here and is left out.  Creating,  *)
(* grouping and modifying are refused once the sender's dead man's switch   *)
(* has gone off (is_dms_blocked_tx).                                        *)
(***************************************************************************)
EXTENDS Matching

CONSTANTS
    Request,  \* the orders users ask for; base 0 is "the size of the position"
    Change,   \* the modifications they ask for: market, base, price and attributes
    Unified   \* accounts that use all assets as margin (is_unified_mode)

Conditional == {"conditional", "conditional_limit"}
Nil == << >>        \* NIL_ORDER_INDEX
NilNonce == 0       \* NIL_ORDER_NONCE_INDEX of an order that waits

\* The order a request becomes.
OrderOf(r, nonce, size, trigger) ==
    [owner |-> r.owner, market |-> r.market, isAsk |-> r.isAsk, price |-> r.price,
     type |-> r.type, tif |-> r.tif, reduceOnly |-> r.reduceOnly, expiry |-> r.expiry,
     mode |-> r.mode, scope |-> r.scope, fee |-> r.fee,
     nonce |-> nonce, initial |-> size, rem |-> size, trigger |-> trigger,
     children |-> << >>, sibling |-> Nil]

\* calculate_position_tied_order_base_amount; the caps on a single order are data.
PositionSize(r) == Ledger!Abs(Size(r.owner, r.market))

\* The checks of L2CreateOrder on type, time in force and expiry.
WellFormed(r) ==
    /\ r.type = "limit" => (r.tif = Ioc <=> r.expiry = NilExpiry)
    /\ r.type = "market" => r.tif = Ioc /\ r.expiry = NilExpiry
    /\ r.type \in Conditional => r.market \in Perps /\ r.expiry # NilExpiry
    /\ r.type = "conditional" => r.tif = Ioc
    /\ r.type = "twap" => r.tif = Gtt /\ r.expiry # NilExpiry
    /\ r.market \notin Perps => ~r.reduceOnly /\ r.base # 0

NotExpired(r) == r.expiry = NilExpiry \/ r.expiry > now

\* The attributes of an order: who charges an integrator's fee leaves self trades to the
\* default, and a master's other accounts are never reduced.
AttributesFit(r) ==
    /\ r.fee => r.mode = "expire_maker" /\ r.scope = "account"
    /\ ~(r.scope = "master" /\ r.mode = "reduce")

TriggerOf(type) == CASE type = "twap" -> "twap"
                     [] type \in Conditional -> "mark_price"
                     [] OTHER -> "na"

\* An order joins the account orders without passing the matching engine.
StoreWaiting(i, o) ==
    /\ orders' = [orders EXCEPT ![i] = o]
    /\ ledger' = Ledger!Increment(ledger, o)
    /\ UNCHANGED <<book, locked>>

\* Instructions on top of what the stack holds.
Push(new) == Put(regs, count, new, 3)

-----------------------------------------------------------------------------
(* Placing orders. *)

\* L2CreateOrder: a TWAP or conditional order waits in the account orders tree, any
\* other goes through register 0 to the matching engine.
CreateOrder(r) ==
    LET size    == IF r.base = 0 /\ r.type \notin Conditional THEN PositionSize(r) ELSE r.base
        n       == NextNonce(r.market, r.isAsk)
        trigger == TriggerOf(r.type)
        waits   == trigger # "na"
        o       == OrderOf(r, IF waits THEN NilNonce ELSE n, size, trigger)
    IN  /\ Idle
        /\ ~DmsTriggered(r.owner)
        /\ WellFormed(r)
        /\ AttributesFit(r)
        /\ Ledger!MayOrder(ledger, r.owner, r.market)
        /\ HasNonce(r.market)
        /\ size # 0 \/ r.type \in Conditional
        /\ ~InvalidReduceOnly(o)
        /\ NotExpired(r)
        /\ TakeNonces(r.market, r.isAsk, 1)
        /\ IF waits
           THEN StoreWaiting(<<r.market, n>>, o) /\ Push(Nothing)
           ELSE /\ Push(Slot(0, Insert(<<r.market, n>>, o)))
                /\ UNCHANGED <<orders, ledger, book, locked>>
        /\ matching' = ~waits
        /\ UNCHANGED <<cancelTime, now>>

\* L1CreateOrder, a priority request: a limit or market order that closes a position.
\* Its price may be anything and the order is an ioc one without attributes.
L1CreateOrder(r) ==
    LET size == IF r.base = 0 THEN PositionSize(r) ELSE r.base
        n    == NextNonce(r.market, r.isAsk)
        o    == OrderOf([r EXCEPT !.tif = Ioc, !.expiry = NilExpiry, !.reduceOnly = TRUE,
                                  !.mode = "expire_maker", !.scope = "account", !.fee = FALSE],
                        n, size, "na")
    IN  /\ Idle
        /\ r.type \in {"limit", "market"}
        /\ r.market \in Perps
        /\ ledger.market[r.market].status = Ledger!Active
        /\ size # 0
        /\ HasNonce(r.market)
        /\ ~Misdirected(Size(r.owner, r.market), r.isAsk)
        /\ TakeNonces(r.market, r.isAsk, 1)
        /\ Push(Slot(0, Insert(<<r.market, n>>, o)))
        /\ matching' = TRUE
        /\ UNCHANGED <<orders, ledger, book, locked, cancelTime, now>>

\* The legs of a group: one owner, market and set of attributes.
SameSide(l, k) == l.isAsk = k.isAsk
SiblingsWellFormed(l, k) == l.isAsk = k.isAsk /\ l.expiry = k.expiry

\* verify_oco
OneCancelsOther(l, k) ==
    /\ {l.type, k.type} \subseteq Conditional
    /\ SiblingsWellFormed(l, k)
    /\ l.base = k.base
    /\ l.reduceOnly = k.reduceOnly

\* verify_oto and verify_otoco, for each child: its size is the parent's fill.
ChildOf(parent, child) ==
    /\ parent.type \in {"limit", "market"}
    /\ child.type \in Conditional
    /\ child.base = 0 /\ child.reduceOnly
    /\ parent.isAsk # child.isAsk
    /\ parent.expiry = NilExpiry \/ parent.expiry = child.expiry

Grouped(g) ==
    CASE g.kind = "oco"   -> Len(g.legs) = 2 /\ OneCancelsOther(g.legs[1], g.legs[2])
      [] g.kind = "oto"   -> Len(g.legs) = 2 /\ ChildOf(g.legs[1], g.legs[2])
      [] g.kind = "otoco" -> /\ Len(g.legs) = 3
                             /\ ChildOf(g.legs[1], g.legs[2]) /\ ChildOf(g.legs[1], g.legs[3])
                             /\ SiblingsWellFormed(g.legs[2], g.legs[3])

\* The checks made on every leg.  All but the first are made on a leg of base 0 only:
\* is_base_amount_zero is folded into the flag they share.
LegWellFormed(g, k) ==
    LET l == g.legs[k]
    IN  /\ k = 1 /\ l.type = "market" => l.tif = Ioc /\ l.expiry = NilExpiry
        /\ l.base = 0 =>
             /\ l.reduceOnly
             /\ l.price # 0
             /\ k = 1 /\ l.type = "limit" => (l.tif = Ioc <=> l.expiry = NilExpiry)
             /\ l.type = "conditional" => l.tif = Ioc
             /\ l.type \in Conditional => l.expiry # NilExpiry

\* L2CreateGroupedOrders: the legs take their nonces in order and are put on the stack
\* with the first leg at the bottom, so that a parent meets the book last.
CreateGroupedOrders(g) ==
    LET legs     == g.legs
        m        == legs[1].market
        before(k) == Cardinality({j \in 1..k-1 : SameSide(legs[j], legs[k])})
        nonce(k) == IF legs[k].isAsk THEN ask[m] + before(k) ELSE bid[m] - before(k)
        index(k) == <<m, nonce(k)>>
        asks     == Cardinality({k \in DOMAIN legs : legs[k].isAsk})
        size(k)  == IF k = 1 /\ g.kind # "oco" /\ legs[1].base = 0
                    THEN PositionSize(legs[1]) ELSE legs[k].base
        parent   == [OrderOf(legs[1], nonce(1), size(1), "na") EXCEPT
                        !.children = [j \in 1..Len(legs) - 1 |-> index(j + 1)]]
        waits(k, trigger, sibling) ==
            [OrderOf(legs[k], NilNonce, size(k), trigger) EXCEPT !.sibling = sibling]
        order(k) == CASE g.kind = "oco" -> waits(k, "mark_price", index(3 - k))
                      [] g.kind # "oco" /\ k = 1 -> parent
                      [] g.kind = "oto" /\ k = 2 -> waits(k, "parent_order", Nil)
                      [] g.kind = "otoco" /\ k > 1 -> waits(k, "parent_order", index(5 - k))
    IN  /\ Idle
        /\ ~DmsTriggered(legs[1].owner)
        /\ m \in Perps
        /\ Grouped(g)
        /\ \A k \in DOMAIN legs :
              LegWellFormed(g, k) /\ AttributesFit(legs[k]) /\ NotExpired(legs[k])
        /\ Ledger!MayOrder(ledger, legs[1].owner, m)
        /\ Len(legs) <= bid[m] - ask[m]
        /\ ~InvalidReduceOnly(order(1))
        /\ ask' = [ask EXCEPT ![m] = @ + asks]
        /\ bid' = [bid EXCEPT ![m] = @ - (Len(legs) - asks)]
        /\ Push([j \in {3 - k : k \in DOMAIN legs} |-> Insert(index(3 - j), order(3 - j))])
        /\ matching' = TRUE
        /\ UNCHANGED <<orders, ledger, book, locked, cancelTime, now>>

-----------------------------------------------------------------------------
(* Changing and cancelling orders. *)

\* L2ModifyOrder unlocks what the order has left.  It reads the order type from the order
\* it has just emptied, where it is 0 = LIMIT_ORDER: every order counts as a limit order.
ModifyUnlocks(balances, o) == Unlock(balances, [o EXCEPT !.type = "limit"], o.rem)

\* The order leaves its leaf and the counts, to be filled or to be inserted anew.
TakeOut(i) ==
    LET o == orders[i]
    IN  /\ orders' = [orders EXCEPT ![i] = NoOrder]
        /\ book' = book \ At(book, o)
        /\ ledger' = Ledger!Decrement(ledger, o)
        /\ locked' = ModifyUnlocks(locked, o)
        /\ Covered(locked')

\* A bug: the modified order starts over, its earlier fills forgotten.
LeftStartsOver(o, size) == size

\* What a modified order has left of its new size.
Left(o, size) == size - (o.initial - o.rem)

\* L2ModifyOrder.  An order with no more to trade than was matched is filled; one on the
\* book is inserted anew behind the others, and meets the book at once only if nothing
\* crosses it (else it waits for InternalClaimOrder); one that waits is changed in place.
ModifyOrder(i, c) ==
    LET o       == orders[i]
        matched == o.initial - o.rem
        filled  == c.base # 0 /\ c.base <= matched
        n       == NextNonce(o.market, o.isAsk)
        new     == [o EXCEPT !.price = c.price, !.mode = c.mode, !.scope = c.scope,
                             !.fee = c.fee,
                             !.initial = IF c.base = 0 THEN @ ELSE c.base,
                             !.rem = IF c.base = 0 THEN @ ELSE Left(o, c.base)]
        again   == [new EXCEPT !.nonce = n]
    IN  /\ Idle
        /\ Exists(i)
        /\ o.market = c.market
        /\ ~DmsTriggered(o.owner)
        /\ ledger.market[o.market].status = Ledger!Active
        /\ HasNonce(o.market)
        /\ ~Expired(o)
        /\ AttributesFit(c)
        /\ IF o.trigger \in {"na", "twap"} THEN c.base # 0 ELSE c.base = 0 <=> o.initial = 0
        /\ \/ /\ filled
              /\ TakeOut(i)
              /\ Push(TriggerChildren(o, matched, 1))
              /\ matching' = FALSE
              /\ UNCHANGED <<ask, bid>>
           \/ /\ ~filled /\ o.trigger = "na"
              /\ TakeOut(i)
              /\ TakeNonces(o.market, o.isAsk, 1)
              /\ Push(Slot(0, Insert(i, again)))
              /\ matching' = (\/ InvalidReduceOnly(again)
                              \/ NothingBetter(o.market, o.isAsk, c.price, n))
           \/ /\ ~filled /\ o.trigger # "na"
              /\ orders' = [orders EXCEPT ![i] = new]
              /\ Push(Nothing)
              /\ matching' = FALSE
              /\ UNCHANGED <<ask, bid, book, ledger, locked>>
        /\ UNCHANGED <<cancelTime, now>>

\* What every cancellation does to the order's leaves.
Remove(i) ==
    LET o == orders[i]
    IN  /\ orders' = [orders EXCEPT ![i] = NoOrder]
        /\ book' = book \ At(book, o)
        /\ ledger' = Ledger!Release(Ledger!Decrement(ledger, o), o.market)
        /\ locked' = Unlock(locked, o, o.rem)
        /\ Covered(locked')

\* L2CancelOrder, on closed markets too.
CancelOrder(i) ==
    /\ Idle
    /\ Exists(i)
    /\ Remove(i)
    /\ Push(CancelChildren(orders[i], 1))
    /\ matching' = FALSE
    /\ UNCHANGED <<ask, bid, cancelTime, now>>

\* An instruction to cancel `size' orders, none if there are none.
CancelMany(instruction) == IF instruction.size = 0 THEN Nothing ELSE Slot(0, instruction)

\* apply_immediate_cancel_all and its variants
CancelAllOf(a) ==
    CancelMany([kind |-> "cancel_all", owner |-> a, size |-> ledger.account[a].orders])
CancelMarketOf(a, m) ==
    CancelMany([kind |-> "cancel_market", owner |-> a, market |-> m,
                size |-> ledger.position[<<a, m>>].orders])
CancelIsolatedOf(a, m) ==
    CancelMany([kind |-> "cancel_isolated", owner |-> a, market |-> m,
                size |-> ledger.position[<<a, m>>].orders])

\* A bug: the orders in isolated margin are counted too.
CancelCrossOfTotal(a) ==
    CancelMany([kind |-> IF a \in Unified THEN "cancel_all" ELSE "cancel_cross", owner |-> a,
                size |-> ledger.account[a].orders])

\* apply_cross_cancel_all: an account whose spot assets are margin too cancels everything.
CancelCrossOf(a) ==
    IF a \in Unified THEN CancelAllOf(a)
    ELSE CancelMany([kind |-> "cancel_cross", owner |-> a,
                     size |-> ledger.account[a].orders - ledger.account[a].nonCross])

\* The transaction leaves the instructions and touches no order itself.
Leave(new) ==
    /\ Push(new)
    /\ matching' = FALSE
    /\ UNCHANGED <<ledger, orders, book, ask, bid, locked, now>>

\* L2CancelAllOrders with IMMEDIATE_CANCEL_ALL: clears the dead man's switch as well.
CancelAllOrders(a) ==
    /\ Idle
    /\ Leave(CancelAllOf(a))
    /\ cancelTime' = [cancelTime EXCEPT ![a] = 0]

\* L1CancelAllOrders, the priority request: the same.
L1CancelAllOrders(a) == CancelAllOrders(a)

\* With a market attribute: the orders of one perps market.
CancelMarketOrders(a, m) ==
    /\ Idle
    /\ m \in Perps
    /\ ledger.market[m].public # Ledger!NilPublic
    /\ Leave(CancelMarketOf(a, m))
    /\ UNCHANGED cancelTime

\* With SCHEDULED_CANCEL_ALL, and with ABORT_SCHEDULED_CANCEL_ALL when time is 0.
ScheduleCancelAll(a, time) ==
    /\ Idle
    /\ Leave(Nothing)
    /\ cancelTime' = [cancelTime EXCEPT ![a] = time]
=============================================================================
