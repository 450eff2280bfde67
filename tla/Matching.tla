------------------------------ MODULE Matching ------------------------------
(***************************************************************************)
(* execute_matching (matching_engine.rs): one step of the insert-order      *)
(* instruction in register 0 against the best order of the other side of   *)
(* the book.  A step ends with the taker on the book, cancelled, filled, or *)
(* still on top of the stack for the next internal claim transaction.      *)
(*                                                                         *)
(* Prices, fees and health are data: the checks of is_valid_perps_trade and *)
(* is_valid_non_perps_trade are a choice of whom they reject.               *)
(***************************************************************************)
EXTENDS ExchangeState

Taker == regs[0].order
Index0 == regs[0].index

\* The state a step works on; new holds the instructions to push, by slot.
Start == [ledger |-> ledger, orders |-> orders, book |-> book, locked |-> locked,
          taker |-> Taker, slack |-> regs[0].slack, new |-> Nothing]

-----------------------------------------------------------------------------
(* What the end of execute_matching does to the orders. *)

\* A bug: a parent that was never filled forgets its children.
ChildrenForgotten(o, top) ==
    IF o.initial = o.rem THEN Nothing ELSE TriggerChildren(o, o.initial - o.rem, top)

\* Children wait for a fill: they are triggered with the filled size, or cancelled
\* with a parent that was never filled.
ChildrenOf(o, top) ==
    IF o.initial = o.rem THEN CancelChildren(o, top)
    ELSE TriggerChildren(o, o.initial - o.rem, top)

\* The maker order is cancelled, or removed because it is filled.
DropMaker(s, i) ==
    LET o == s.orders[i]
    IN  [s EXCEPT !.ledger = Ledger!Decrement(@, o),
                  !.orders[i] = NoOrder,
                  !.book = @ \ At(@, o),
                  !.locked = Unlock(@, o, o.rem),
                  !.new = Over(ChildrenOf(o, 7), @)]

DropTaker(s) == [s EXCEPT !.new = Over(ChildrenOf(s.taker, 5), @)]

\* The taker order becomes an account order, on the book unless it waits for a trigger.
InsertTaker(s) ==
    LET t == s.taker
    IN  [s EXCEPT !.ledger = Ledger!Increment(@, t),
                  !.orders[Index0] = t,
                  !.book = IF t.trigger = "na" THEN Resting(@, t) ELSE @,
                  !.locked = IF t.trigger = "na" THEN Lock(@, t, t.rem) ELSE @]

\* A bug: nothing is cancelled.
CancelNoneTied(s, accounts) == s

\* A bug: the instruction has the size of all the orders of the position.
CancelTiedBySize(s, accounts) ==
    LET m       == Taker.market
        held(a) == s.ledger.position[<<a, m>>].orders
        slot(a) == IF a = Taker.owner THEN 3 ELSE 2
        needed  == {a \in accounts : held(a) # 0}
    IN  [s EXCEPT !.new = Over(@, [j \in {slot(a) : a \in needed} |->
            LET a == CHOOSE b \in needed : slot(b) = j IN CancelTied(a, m, held(a))])]

\* A position that changes sign cancels every order tied to it.
CancelTiedOf(s, accounts) ==
    LET m       == Taker.market
        tied(a) == s.ledger.position[<<a, m>>].tied
        slot(a) == IF a = Taker.owner THEN 3 ELSE 2
        needed  == {a \in accounts : tied(a) # 0}
    IN  [s EXCEPT !.new = Over(@, [j \in {slot(a) : a \in needed} |->
            LET a == CHOOSE b \in needed : slot(b) = j IN CancelTied(a, m, tied(a))])]

\* The instructions are pushed; a taker that is done leaves register 0.
Settle(s, done) ==
    /\ ledger' = s.ledger
    /\ orders' = s.orders
    /\ book' = s.book
    /\ Covered(s.locked)
    /\ locked' = s.locked
    /\ IF done THEN Put(Popped, count - 1, s.new, NewMax)
       ELSE Put([regs EXCEPT ![0].order = s.taker, ![0].slack = s.slack], count, s.new, NewMax)
    /\ matching' = FALSE
    /\ UNCHANGED <<ask, bid, cancelTime, now>>

-----------------------------------------------------------------------------
(* Cases that need no maker. *)

\* "If pending trigger status is not NA, insert taker order"
InsertWaiting ==
    /\ matching
    /\ Taker.trigger # "na"
    /\ Settle(InsertTaker(Start), TRUE)

\* "Handle the taker order invalid reduce only case"
DropInvalidTaker ==
    /\ matching
    /\ Taker.trigger = "na"
    /\ InvalidReduceOnly(Taker)
    /\ Settle(DropTaker(Start), TRUE)

CanMatch == matching /\ Taker.trigger = "na" /\ ~InvalidReduceOnly(Taker)

OppositeOf(m, isAsk) == {l \in book : l.market = m /\ l.isAsk # isAsk}

\* A bug: orders at the same price do not meet.
NothingBetterByPrice(m, isAsk, price, nonce) ==
    \A l \in OppositeOf(m, isAsk) : IF isAsk THEN l.price <= price ELSE price <= l.price

\* get_quote: the book holds nothing of the other side on the better side of a price
\* and nonce.
NothingBetter(m, isAsk, price, nonce) ==
    \A l \in OppositeOf(m, isAsk) :
        IF isAsk THEN ~Before(price, nonce, l.price, l.nonce)
        ELSE ~Before(l.price, l.nonce, price, nonce)

\* The empty leaf of the taker itself comes before every order of the other side.
NothingCrosses == NothingBetter(Taker.market, Taker.isAsk, Taker.price, Taker.nonce)

\* An ioc order with nothing to match is cancelled.
DropUnmatched ==
    /\ CanMatch
    /\ Taker.tif = Ioc
    /\ NothingCrosses
    /\ Settle(DropTaker(Start), TRUE)

\* "Non crossing non ioc limit - put order to orderbook"
Rest ==
    /\ CanMatch
    /\ Taker.tif # Ioc
    /\ NothingCrosses
    /\ Taker.type \in LimitTypes
    /\ Settle(InsertTaker(Start), TRUE)

-----------------------------------------------------------------------------
(* The best maker. *)

Crosses(price) == IF Taker.isAsk THEN Taker.price <= price ELSE Taker.price >= price

\* Order i is the best order of the other side.  An order at market may meet one that
\* does not cross its price, as far as its slippage allows.
Facing(i) ==
    /\ CanMatch
    /\ Exists(i)
    /\ At(OppositeOf(Taker.market, Taker.isAsk), orders[i]) # {}
    /\ NothingBetter(Taker.market, Taker.isAsk, orders[i].price, orders[i].nonce)
    /\ Taker.type \in LimitTypes => Crosses(orders[i].price)

\* An integrator's fee turns a self-trade into a reduction of both orders.
SelfTrade(o) == o.owner = Taker.owner /\ (Taker.fee \/ Taker.scope = "account")
SelfMode == IF Taker.fee THEN "reduce" ELSE Taker.mode
MasterTrade(o) ==
    ~Taker.fee /\ Taker.scope = "master" /\ Master[o.owner] = Master[Taker.owner]

Expires(mode) == CASE mode = "expire_maker" -> {"maker"}
                   [] mode = "expire_taker" -> {"taker"}
                   [] mode = "expire_both"  -> {"maker", "taker"}
                   [] OTHER                 -> {}

\* Who is cancelled before any size is looked at, in the order of the code.
Dropped(o) ==
    CASE Expired(o) -> {"maker"}
      [] ~Expired(o) /\ SelfTrade(o) ->
            IF SelfMode = "reduce" /\ Taker.tif = PostOnly THEN {"taker"} ELSE Expires(SelfMode)
      [] ~Expired(o) /\ ~SelfTrade(o) ->
            IF DmsTriggered(o.owner) THEN {"maker"}
            ELSE IF MasterTrade(o) THEN Expires(Taker.mode)
            ELSE IF Taker.tif = PostOnly THEN {"taker"}
            ELSE IF InvalidReduceOnly(o) THEN {"maker"}
            ELSE {}

\* The orders of `who' are dropped, the maker's first.
Drop(s, i, who) ==
    LET afterMaker == IF "maker" \in who THEN DropMaker(s, i) ELSE s
    IN  IF "taker" \in who THEN DropTaker(afterMaker) ELSE afterMaker

DropWithoutTrade(i) ==
    /\ Facing(i)
    /\ Dropped(orders[i]) # {}
    /\ Settle(Drop(Start, i, Dropped(orders[i])), "taker" \in Dropped(orders[i]))

\* A bug: the maker's leaf keeps its size.
ShrinkKeepsLeaf(s, i, size) ==
    LET o == [s.orders[i] EXCEPT !.rem = @ - size]
    IN  [s EXCEPT !.orders[i] = o,
                  !.locked = Unlock(@, o, size),
                  !.taker.rem = @ - size]

\* A bug: what the maker has locked stays locked.
ShrinkKeepsLock(s, i, size) ==
    LET o == [s.orders[i] EXCEPT !.rem = @ - size]
    IN  [s EXCEPT !.orders[i] = o,
                  !.book = Resting(@, o),
                  !.taker.rem = @ - size]

\* Both orders shrink by size; the maker's leaf follows and so does its lock.
Shrink(s, i, size) ==
    LET o == [s.orders[i] EXCEPT !.rem = @ - size]
    IN  [s EXCEPT !.orders[i] = o,
                  !.book = Resting(@, o),
                  !.locked = Unlock(@, o, size),
                  !.taker.rem = @ - size]

Least(S) == CHOOSE x \in S : \A y \in S : x <= y

\* apply_self_trade_reduce
ReduceBoth(i) ==
    LET s   == Shrink(Start, i, Least({orders[i].rem, Taker.rem}))
        who == {w \in {"maker", "taker"} :
                    IF w = "maker" THEN s.orders[i].rem = 0 ELSE s.taker.rem = 0}
    IN  /\ Facing(i)
        /\ Dropped(orders[i]) = {}
        /\ SelfTrade(orders[i])
        /\ Settle(Drop(s, i, who), "taker" \in who)

\* Another account's order, fit to trade.
MayTrade(i) ==
    /\ Facing(i)
    /\ Dropped(orders[i]) = {}
    /\ orders[i].owner # Taker.owner

\* A bug: the size of the position is not looked at.
WantedIgnoresPosition(o) == Least({o.rem, Taker.rem})

\* A bug: the taker's size is not looked at.
WantedByMaker(o) == o.rem

\* A reduce-only order trades no more than its owner's position.
Wanted(o) ==
    Least({o.rem, Taker.rem} \union
          {Ledger!Abs(Size(x.owner, x.market)) : x \in {y \in {o, Taker} : y.reduceOnly}})

\* How much worse the maker's price is for a taker at market.
Adverse(o) == IF Taker.isAsk THEN Taker.price - o.price ELSE o.price - Taker.price
Slips(o) == Taker.type \in MarketTypes /\ Adverse(o) > 0

\* A bug: the slippage is not limited.
AllowedUnbounded(o) == Wanted(o)

\* What the gains of earlier trades pay for.
Allowed(o) == IF Slips(o) THEN regs[0].slack \div Adverse(o) ELSE Wanted(o)
Base(o) == Least({Wanted(o), Allowed(o)})

\* Nothing can be traded within the slippage.
DropSlipped(i) ==
    /\ MayTrade(i)
    /\ Taker.type \in MarketTypes
    /\ Base(orders[i]) = 0
    /\ Settle(DropTaker(Start), TRUE)

\* Whom is_valid_perps_trade or is_valid_non_perps_trade may find at fault.
AtFault == SUBSET {"maker", "taker"}

\* The trade would leave the taker or the maker in bad health, without balance or beyond
\* a limit: whoever is at fault is cancelled and nothing is traded.
Reject(i, who) ==
    /\ MayTrade(i)
    /\ Base(orders[i]) # 0 \/ Taker.type \notin MarketTypes
    /\ who # {}
    /\ Settle(Drop(Start, i, who), "taker" \in who)

Sign(x) == IF x > 0 THEN 1 ELSE IF x < 0 THEN -1 ELSE 0

\* Who is done after a trade.
TradeDrops(s, i, slipped, healed) ==
    LET o == s.orders[i]
        t == s.taker
        gone(x) == x.reduceOnly /\ Misdirected(s.ledger.position[<<x.owner, x.market>>].size, x.isAsk)
    IN  {w \in {"maker", "taker"} :
            \/ w = "maker" /\ (o.rem = 0 \/ gone(o))
            \/ w = "taker" /\ (t.rem = 0 \/ gone(t) \/ slipped \/ healed)}

\* The trade itself.  healed: a liquidation order whose account is healthy again.
\* fees: the partner fees to transfer, the taker's in slot 1 and the maker's in slot 0.
Trade(i, healed, fees) ==
    LET o     == orders[i]
        m     == Taker.market
        base  == Base(o)
        sides == {o.owner, Taker.owner}
        delta == IF Taker.isAsk THEN -base ELSE base
        moved == IF m \in Perps
                 THEN Ledger!Move(Ledger!Move(ledger, Taker.owner, m, delta), o.owner, m, -delta)
                 ELSE ledger
        s     == [Shrink(Start, i, base) EXCEPT
                     !.ledger = moved,
                     !.slack = IF Taker.type \in MarketTypes THEN @ - base * Adverse(o) ELSE @]
        who   == TradeDrops(s, i, Slips(o) /\ Base(o) = Allowed(o) /\ Allowed(o) # Wanted(o),
                            healed)
        flipped == {a \in sides : Sign(Size(a, m)) # Sign(moved.position[<<a, m>>].size)}
        dropped == Drop(s, i, who)
        final == CancelTiedOf(dropped, flipped)
    IN  /\ MayTrade(i)
        /\ base # 0 \/ Taker.type \notin MarketTypes
        /\ \A a \in sides : Ledger!Abs(moved.position[<<a, m>>].size) <= MaxPosition
        /\ healed => Taker.type = "liquidation"
        /\ 1 \in fees => Taker.fee /\ base # 0
        /\ 0 \in fees => o.fee /\ base # 0
        /\ Settle([final EXCEPT !.new = Over(@, [j \in fees |-> Transfer])], "taker" \in who)

ExecuteMatching ==
    \/ InsertWaiting \/ DropInvalidTaker \/ DropUnmatched \/ Rest
    \/ \E i \in {j \in Index : Facing(j)} :
          \/ DropWithoutTrade(i) \/ ReduceBoth(i) \/ DropSlipped(i)
          \/ \E who \in AtFault : Reject(i, who)
          \/ \E healed \in BOOLEAN, fees \in SUBSET {0, 1} : Trade(i, healed, fees)
=============================================================================
