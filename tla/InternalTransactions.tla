------------------------ MODULE InternalTransactions ------------------------
(***************************************************************************)
(* The transactions the rollup makes itself: those that finish the         *)
(* instruction on top of the register stack, and those that start when a    *)
(* price, a time or the health of an account asks for it.                  *)
(***************************************************************************)
EXTENDS OrderTransactions

\* The instruction on top is done.
Pop(new) == Put(Popped, count - 1, new, 3)

\* A step of a cancel-all instruction: one order less to go, the last one pops it.
CountDown ==
    IF regs[0].size = 1 THEN Pop(Nothing)
    ELSE Put([regs EXCEPT ![0].size = @ - 1], count, Nothing, 3)

Untouched == UNCHANGED <<ask, bid, cancelTime, now>>

-----------------------------------------------------------------------------
(* InternalCancelOrder. *)

\* An expired order, or any order of a market in settlement.
CancelDeadOrder(i) ==
    /\ Idle
    /\ Exists(i)
    /\ \/ Expired(orders[i])
       \/ ledger.market[orders[i].market].status = Ledger!InSettlement
    /\ ledger.market[orders[i].market].status # Ledger!Expired
    /\ Remove(i)
    /\ Push(CancelChildren(orders[i], 1))
    /\ matching' = FALSE
    /\ Untouched

\* CANCEL_SINGLE_ACCOUNT_ORDER: the order may be gone already; it has no children.
CancelSingle ==
    /\ Finishing({"cancel_single"})
    /\ LET i == regs[0].index
       IN  IF Exists(i)
           THEN orders[i].owner = regs[0].owner /\ orders[i].children = << >> /\ Remove(i)
           ELSE UNCHANGED <<orders, book, ledger, locked>>
    /\ Pop(Nothing)
    /\ matching' = FALSE
    /\ Untouched

\* Which orders of the account a cancel-all instruction takes.  The position of a spot
\* market is the empty one at the nil index, whose margin mode is cross.
Cancels(instruction, o) ==
    CASE instruction.kind = "cancel_all" -> TRUE
      [] instruction.kind = "cancel_market" -> o.market = instruction.market
      [] instruction.kind = "cancel_position_tied" ->
            o.market = instruction.market /\ Ledger!IsTied(o)
      [] instruction.kind = "cancel_isolated" ->
            /\ o.market = instruction.market
            /\ ledger.position[<<o.owner, o.market>>].mode = Ledger!Isolated
      [] instruction.kind = "cancel_cross" ->
            ledger.position[<<o.owner, o.market>>].mode = Ledger!Cross

\* One of the orders a cancel-all instruction stands for; the sequencer picks which.
\* Children are orders of the account too and are left to the same instruction.
CancelOneOf(i) ==
    /\ Finishing(CancelAllKinds)
    /\ Exists(i)
    /\ orders[i].owner = regs[0].owner
    /\ Cancels(regs[0], orders[i])
    /\ Remove(i)
    /\ CountDown
    /\ matching' = FALSE
    /\ Untouched

\* InternalCancelAllOrders: the dead man's switch of an account, or its liquidation.
CancelAllByDms(a) ==
    /\ Idle
    /\ DmsTriggered(a)
    /\ Leave(CancelAllOf(a))
    /\ cancelTime' = [cancelTime EXCEPT ![a] = 0]

CancelAllInLiquidation(a, m) ==
    /\ Idle
    /\ m \in Perps
    /\ ~DmsTriggered(a)
    /\ a \notin Insurance
    /\ Leave(IF ledger.position[<<a, m>>].mode = Ledger!Isolated
             THEN CancelIsolatedOf(a, m) ELSE CancelCrossOf(a))
    /\ UNCHANGED cancelTime

-----------------------------------------------------------------------------
(* InternalCreateOrder. *)

\* The market must be open and have a nonce left, whatever the instruction.
Open(m) == ledger.market[m].status = Ledger!Active /\ HasNonce(m)

\* A waiting order is dropped instead of triggered.
Hopeless(o) ==
    \/ Expired(o)
    \/ DmsTriggered(o.owner)
    \/ o.reduceOnly /\ Misdirected(Size(o.owner, o.market), o.isAsk)

\* A bug: the order is still there when it comes back from the stack.
ForgetKeeps(i) == orders' = orders /\ ledger' = Ledger!Decrement(ledger, orders[i])

\* A bug: the order is counted twice when it comes back.
ForgetUncounted(i) == orders' = [orders EXCEPT ![i] = NoOrder] /\ ledger' = ledger

\* It leaves the counts; neither its children nor its sibling are told.
Forget(i) ==
    /\ orders' = [orders EXCEPT ![i] = NoOrder]
    /\ ledger' = Ledger!Decrement(ledger, orders[i])

DropHopeless(i) ==
    /\ Idle
    /\ Exists(i)
    /\ orders[i].trigger \in {"mark_price", "twap"}
    /\ Open(orders[i].market)
    /\ Hopeless(orders[i])
    /\ Forget(i)
    /\ Push(Nothing)
    /\ matching' = FALSE
    /\ UNCHANGED <<book, locked>> /\ Untouched

\* A bug: the sibling of a triggered order stays.
FiredKeepsSibling(i, o) == Slot(1, Insert(i, o))

\* What a fired order leaves: itself for the matching engine, under the order that
\* cancels its sibling.
Fired(i, o) ==
    Over(Slot(1, Insert(i, o)),
         IF o.sibling = Nil THEN Nothing ELSE Slot(0, CancelOne(o, o.sibling)))

\* The mark price reached the trigger of a stop loss or take profit.
TriggerOrder(i) ==
    LET o    == orders[i]
        size == IF o.rem = 0 THEN PositionSize(o) ELSE o.rem
        n    == NextNonce(o.market, o.isAsk)
    IN  /\ Idle
        /\ Exists(i)
        /\ o.trigger = "mark_price"
        /\ o.market \in Perps
        /\ Open(o.market)
        /\ ~Hopeless(o)
        /\ Forget(i)
        /\ TakeNonces(o.market, o.isAsk, 1)
        /\ Push(Fired(i, [o EXCEPT !.trigger = "na", !.nonce = n,
                                   !.initial = size, !.rem = size]))
        /\ matching' = FALSE
        /\ UNCHANGED <<book, locked, cancelTime, now>>

\* The size of a slice: the check lets 1 pass whatever is left, since something always is.
SliceOf(o, size) == size <= o.rem \/ size \in {0, 1}

\* The next slice of a TWAP, at market within the slippage of a price no worse than the
\* TWAP's; the TWAP is gone with its last slice.
SliceTwap(i, size, price) ==
    LET o   == orders[i]
        n   == NextNonce(o.market, o.isAsk)
        now0 == [o EXCEPT !.type = "twap_sub", !.price = price, !.tif = Ioc, !.expiry = NilExpiry,
                          !.trigger = "na", !.nonce = n, !.initial = size, !.rem = size,
                          !.children = << >>, !.sibling = Nil]
    IN  /\ Idle
        /\ Exists(i)
        /\ o.trigger = "twap"
        /\ Open(o.market)
        /\ ~Hopeless(o)
        /\ IF o.isAsk THEN o.price <= price ELSE price <= o.price
        /\ SliceOf(o, size)
        /\ IF o.rem = size THEN Forget(i)
           ELSE orders' = [orders EXCEPT ![i].rem = @ - size] /\ UNCHANGED ledger
        /\ TakeNonces(o.market, o.isAsk, 1)
        /\ Push(Slot(0, Insert(<<o.market, n>>, now0)))
        /\ matching' = FALSE
        /\ UNCHANGED <<book, locked, cancelTime, now>>

\* A bug: a triggered child is not counted as tied to the position.
TriggeredUncounted(o) == ledger

\* modify_order_count_in_cache_for_trigger_status
Triggered(o) == Ledger!CountTriggered(ledger, o)

\* TRIGGER_CHILD_ORDER: the child gets the size of its parent's fill and waits for the
\* mark price, unless it is gone or hopeless.
TriggerTheChild ==
    /\ Finishing({"trigger_child"})
    /\ LET i == regs[0].index
           o == orders[i]
           size == regs[0].size
       IN  /\ regs[0].market \in Perps
           /\ Open(regs[0].market)
           /\ \/ ~Exists(i) /\ UNCHANGED <<orders, ledger>>
              \/ /\ Exists(i)
                 /\ o.trigger = "parent_order"
                 /\ o.owner = regs[0].owner
                 /\ IF Hopeless(o) THEN Forget(i)
                    ELSE /\ orders' = [orders EXCEPT ![i] = [o EXCEPT
                                !.trigger = "mark_price", !.initial = size, !.rem = size]]
                         /\ ledger' = Triggered(o)
    /\ Pop(Nothing)
    /\ matching' = FALSE
    /\ UNCHANGED <<book, locked>> /\ Untouched

-----------------------------------------------------------------------------
(* The other internal transactions. *)

\* InternalClaimOrder: the order on top meets the book once more.
ClaimOrder ==
    /\ Finishing({"insert_order"})
    /\ matching' = TRUE
    /\ UNCHANGED <<ledger, orders, book, ask, bid, locked, cancelTime, now, regs, count>>

\* InternalTransfer: an integrator's fee is paid; balances are not modelled.
TransferFee ==
    /\ Finishing({"transfer_asset"})
    /\ Pop(Nothing)
    /\ matching' = FALSE
    /\ UNCHANGED <<ledger, orders, book, locked>> /\ Untouched

\* InternalLiquidatePosition: part of the position is closed at its zero price.  Whether
\* the account is in partial liquidation is a choice.
LiquidatePosition(a, m, size, price) ==
    LET isAsk == Size(a, m) > 0
        n     == NextNonce(m, isAsk)
        o     == [owner |-> a, market |-> m, isAsk |-> isAsk, price |-> price,
                  type |-> "liquidation", tif |-> Ioc, reduceOnly |-> TRUE,
                  expiry |-> NilExpiry, mode |-> "expire_maker", scope |-> "account",
                  fee |-> FALSE, nonce |-> n, initial |-> size, rem |-> size,
                  trigger |-> "na", children |-> << >>, sibling |-> Nil]
    IN  /\ Idle
        /\ m \in Perps
        /\ Open(m)
        /\ a \notin Insurance
        /\ size # 0 /\ size <= Ledger!Abs(Size(a, m))
        /\ TakeNonces(m, isAsk, 1)
        /\ Push(Slot(0, Insert(<<m, n>>, o)))
        /\ matching' = TRUE
        /\ UNCHANGED <<ledger, orders, book, locked, cancelTime, now>>

\* A bug: the tied orders are left alone.
FlippedKeepsTied(a, m, p, size) == Nothing

\* A position p that gets another sign cancels what is tied to it.
Flipped(a, m, p, size) ==
    IF p.tied # 0 /\ Sign(p.size) # Sign(size) THEN Slot(0, CancelTied(a, m, p.tied))
    ELSE Nothing

\* InternalDeleverage: part of a bankrupt position moves to another account; a position
\* that changes sign cancels what is tied to it.
DeleveragePosition(bankrupt, deleverager, m, size) ==
    LET p     == ledger.position[<<bankrupt, m>>]
        q     == ledger.position[<<deleverager, m>>]
        delta == IF p.size > 0 THEN -size ELSE size
        count0 == IF p.mode = Ledger!Isolated
                  THEN p.orders
                  ELSE ledger.account[bankrupt].orders - ledger.account[bankrupt].nonCross
        moved == Ledger!Move(Ledger!Move(ledger, bankrupt, m, delta), deleverager, m, -delta)
    IN  /\ Idle
        /\ m \in Perps
        /\ bankrupt # deleverager
        /\ ledger.market[m].status = Ledger!Active
        /\ size # 0 /\ size <= Ledger!Abs(p.size)
        /\ count0 = 0 \/ bankrupt \in Insurance
        /\ deleverager \notin Insurance => size <= Ledger!Abs(q.size) /\ q.size * p.size < 0
        /\ Ledger!Abs(moved.position[<<deleverager, m>>].size) <= MaxPosition
        /\ ledger' = moved
        /\ Push(Flipped(deleverager, m, q, moved.position[<<deleverager, m>>].size))
        /\ matching' = FALSE
        /\ UNCHANGED <<orders, book, locked>> /\ Untouched

\* InternalExitPosition: a position of a market in settlement is closed.
ExitPosition(a, m) ==
    LET after == [ledger EXCEPT !.market[m].openInterest =
                      @ - Ledger!Abs(ledger.position[<<a, m>>].size)]
    IN  /\ Idle
        /\ m \in Perps
        /\ ledger.market[m].status = Ledger!InSettlement
        /\ ledger.position[<<a, m>>].orders = 0
        /\ ledger' = [Ledger!Release(after, m) EXCEPT
                         !.position[<<a, m>>] = Ledger!EmptyPosition]
        /\ Push(Nothing)
        /\ matching' = FALSE
        /\ UNCHANGED <<orders, book, locked>> /\ Untouched

\* A bug: the market closes while an instruction on it is pending.
ExpireMarketAnytime(m) ==
    /\ ~matching
    /\ ledger.market[m].status = Ledger!Active
    /\ ledger' = Ledger!Close(ledger, m)
    /\ UNCHANGED <<orders, book, ask, bid, locked, cancelTime, now, regs, count, matching>>

\* L1UpdateMarket with the expired status, and the passing of time between blocks.
ExpireMarket(m) ==
    /\ Idle
    /\ ledger.market[m].status = Ledger!Active
    /\ ledger' = Ledger!Close(ledger, m)
    /\ UNCHANGED <<orders, book, ask, bid, locked, cancelTime, now, regs, count, matching>>

Tick ==
    /\ ~matching
    /\ now < MaxTime
    /\ now' = now + 1
    /\ UNCHANGED <<ledger, orders, book, ask, bid, locked, cancelTime, regs, count, matching>>
=============================================================================
