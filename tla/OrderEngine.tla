---------------------------- MODULE OrderEngine ----------------------------
(***************************************************************************)
(* The orders of the exchange under every transaction that moves them: what *)
(* users ask for, what the rollup starts by itself, and the internal        *)
(* transactions that finish the instructions either of them leaves on the   *)
(* register stack.  Between two of those the sequencer may make nothing     *)
(* else, but time passes.                                                   *)
(***************************************************************************)
EXTENDS InternalTransactions, Functions

CONSTANTS
    Types,     \* the transactions an instance sends, by the market that asks for them
    Group,     \* the groups of orders users ask for
    Opening,   \* the open markets and the positions an instance may start from
    Schedules, \* the times of a dead man's switch
    RollupPrice  \* the prices it liquidates positions and trades slices at

ASSUME EngineAssumption ==
    /\ Perps \subseteq Market
    /\ Insurance \subseteq Account
    /\ Unified \subseteq Account
    /\ {MaxNonce, MaxTime, MaxPosition} \subseteq Nat
    /\ MaxNonce > FirstAsk
    /\ MaxTime > 0

-----------------------------------------------------------------------------
(* What the transactions carry, and what the leaves and the registers hold.            *)

TimesInForce == {Ioc, Gtt, PostOnly}
SelfTradeModes == {"expire_maker", "expire_taker", "expire_both", "reduce"}
Scopes == {"account", "master"}

RequestSet ==
    [owner : Account, market : Market, isAsk : BOOLEAN, price : Nat, base : Nat,
     type : {"limit", "market", "twap"} \union Conditional, tif : TimesInForce,
     reduceOnly : BOOLEAN, expiry : Nat, mode : SelfTradeModes, scope : Scopes, fee : BOOLEAN]
ChangeSet == [market : Market, base : Nat, price : Nat, mode : SelfTradeModes, scope : Scopes,
              fee : BOOLEAN]

\* AccountOrderTarget; the index of an order is where it is kept.
OrderSet ==
    [owner : Account, market : Market, isAsk : BOOLEAN, price : Nat,
     type : LimitTypes \union MarketTypes \union {"twap"}, tif : TimesInForce,
     reduceOnly : BOOLEAN, expiry : Nat, mode : SelfTradeModes, scope : Scopes, fee : BOOLEAN,
     nonce : 0..MaxNonce, initial : Nat, rem : Nat, trigger : Ledger!TriggerStatuses,
     children : Seq(Index), sibling : Index \union {Nil}]

\* BaseRegisterInfoTarget, by instruction.
InstructionSet ==
    [kind : {"insert_order"}, index : Index, order : OrderSet, slack : Int]
    \union [kind : {"cancel_single"}, owner : Account, market : Market, index : Index]
    \union [kind : {"trigger_child"}, owner : Account, market : Market, index : Index, size : Int]
    \union [kind : {"cancel_all", "cancel_cross"}, owner : Account, size : Int]
    \union [kind : {"cancel_position_tied", "cancel_isolated", "cancel_market"}, owner : Account,
            market : Market, size : Int]
    \union [kind : {"transfer_asset"}]

ASSUME TypeAssumption ==
    /\ IsFiniteSet(Account) /\ IsFiniteSet(Market)
    /\ Request \subseteq RequestSet
    /\ Change \subseteq ChangeSet
    /\ RollupPrice \subseteq Nat
    /\ NoOrder \notin OrderSet \union Ledger!Orders
    /\ Execute \notin InstructionSet

\* The legs of a group are orders of one account in one market.
ASSUME GroupAssumption ==
    \A g \in Group :
        /\ g.kind \in {"oco", "oto", "otoco"}
        /\ g.legs \in Seq(RequestSet)
        /\ \A k \in DOMAIN g.legs :
              g.legs[k].owner = g.legs[1].owner /\ g.legs[k].market = g.legs[1].market

ASSUME OpeningAssumption ==
    \A start \in Opening :
        /\ start.size \in [Account -> Int]
        /\ start.ask \in FirstAsk .. MaxNonce

-----------------------------------------------------------------------------
(* Initial states. *)

\* An account has the same position in every open perps market.
Hosts(start, m) == m \in Perps /\ m \in start.open
Size0(start, a, m) == IF Hosts(start, m) THEN start.size[a] ELSE 0

\* Markets that are open or were never created, with the positions that earlier trades
\* left and the ask nonces that earlier orders took.
InitialLedger(start) ==
    [market |-> [m \in Market |->
         IF m \notin start.open THEN Ledger!EmptyMarket
         ELSE [Ledger!EmptyMarket EXCEPT
                  !.status = Ledger!Active,
                  !.public = 1,
                  !.openInterest =
                      SumFunctionOnSet([a \in Account |-> Ledger!Abs(Size0(start, a, m))], Account)]],
     account |-> Ledger!EmptyLedger.account,
     position |-> [am \in Account \X Market |->
         IF Hosts(start, am[2])
         THEN [Ledger!EmptyPosition EXCEPT
                  !.public = 1,
                  !.size = Size0(start, am[1], am[2]),
                  !.mode = IF am \in start.isolated THEN Ledger!Isolated ELSE Ledger!Cross]
         ELSE Ledger!EmptyPosition]]

Init ==
    /\ \E start \in Opening :
          /\ ledger = InitialLedger(start)
          /\ ask = [m \in Market |-> start.ask]
    /\ orders = [i \in Index |-> NoOrder]
    /\ book = {}
    /\ bid = [m \in Market |-> MaxNonce]
    /\ locked = [key \in Account \X {"base", "quote"} |-> 0]
    /\ cancelTime = [a \in Account |-> 0]
    /\ now = 1
    /\ regs = Stack!EmptyStack
    /\ count = 0
    /\ matching = FALSE

-----------------------------------------------------------------------------
(* Transactions. *)

\* A bound of the model: a transaction that starts on an empty stack takes no more than
\* what leaves one nonce to the market, so that the ones that finish it find a market
\* that is not full.
Spare(m, n) == bid[m] - ask[m] > n

\* A market that is open, or still in settlement, asks for transactions of a type; those
\* of an account are asked for by any of them.
Sent(type, m) == type \in Types[m] /\ ledger.market[m].status # Ledger!Expired
SentByAny(type) == \E m \in Market : Sent(type, m)

Users ==
    \/ \E r \in Request :
          /\ Spare(r.market, 1)
          /\ \/ Sent("L2CreateOrder", r.market) /\ CreateOrder(r)
             \/ Sent("L1CreateOrder", r.market) /\ L1CreateOrder(r)
    \/ \E g \in Group :
          /\ Sent("L2CreateGroupedOrders", g.legs[1].market)
          /\ Spare(g.legs[1].market, Len(g.legs))
          /\ CreateGroupedOrders(g)
    \/ \E i \in Index :
          \/ /\ Sent("L2ModifyOrder", i[1])
             /\ Spare(i[1], 1)
             /\ \E c \in Change : ModifyOrder(i, c)
          \/ Sent("L2CancelOrder", i[1]) /\ CancelOrder(i)
    \/ \E a \in Account :
          \/ /\ SentByAny("L2CancelAllOrders")
             /\ CancelAllOrders(a) \/ \E time \in Schedules : ScheduleCancelAll(a, time)
          \/ \E m \in Market : Sent("L2CancelAllOrders", m) /\ CancelMarketOrders(a, m)
          \/ SentByAny("L1CancelAllOrders") /\ L1CancelAllOrders(a)
    \/ \E m \in Market : Sent("L1UpdateMarket", m) /\ ExpireMarket(m)

Rollup ==
    \/ \E i \in Index :
          \/ Sent("InternalCancelOrder", i[1]) /\ CancelDeadOrder(i)
          \/ /\ Sent("InternalCreateOrder", i[1])
             /\ Spare(i[1], 1)
             /\ \/ DropHopeless(i)
                \/ TriggerOrder(i)
                \/ \E size \in 0..MaxPosition, price \in RollupPrice : SliceTwap(i, size, price)
    \/ \E a \in Account :
          \/ SentByAny("InternalCancelAllOrders") /\ CancelAllByDms(a)
          \/ \E m \in Market :
                \/ Sent("InternalCancelAllOrders", m) /\ CancelAllInLiquidation(a, m)
                \/ /\ Sent("InternalLiquidatePosition", m)
                   /\ Spare(m, 1)
                   /\ \E size \in 1..MaxPosition, price \in RollupPrice :
                         LiquidatePosition(a, m, size, price)
                \/ /\ Sent("InternalDeleverage", m)
                   /\ \E b \in Account, size \in 1..MaxPosition : DeleveragePosition(a, b, m, size)
                \/ Sent("InternalExitPosition", m) /\ ExitPosition(a, m)

Finish ==
    \/ CancelSingle
    \/ \E i \in Index : CancelOneOf(i)
    \/ TriggerTheChild
    \/ ClaimOrder
    \/ TransferFee

Next == Users \/ Rollup \/ Finish \/ ExecuteMatching \/ Tick

Spec == Init /\ [][Next]_vars

\* The rollup keeps proving: what a transaction left unfinished is taken up, and the
\* matching engine runs in the proof of the transaction that asked for it.
FairSpec == Spec /\ WF_vars(Finish \/ ExecuteMatching)

-----------------------------------------------------------------------------
(* What the properties speak of. *)

Pending == {regs[j] : j \in 0..count - 1}

\* An order waits on the stack, between its transaction and the book.
Inserts == {x \in Pending : x # Execute /\ x.kind = "insert_order"}
LiveOrders == {i \in Index : Exists(i)} \union {x.index : x \in Inserts}
Live(i) == i \in LiveOrders
OrderAt(i) == IF Exists(i) THEN orders[i] ELSE (CHOOSE x \in Inserts : x.index = i).order
Filled(i) == OrderAt(i).initial - OrderAt(i).rem

RestingOrders == {i \in Index : Exists(i) /\ orders[i].trigger = "na"}

TypeOK ==
    /\ ledger \in Ledger!Ledgers
    /\ \A i \in Index : Exists(i) =>
          /\ orders[i].market = i[1]
          /\ 0 <= orders[i].rem /\ orders[i].rem <= orders[i].initial
          /\ orders[i].nonce \in 0..MaxNonce
    /\ \A m \in Market : FirstAsk <= ask[m] /\ ask[m] <= bid[m] /\ bid[m] <= MaxNonce
    /\ count \in 0..Depth
    /\ now \in 1..MaxTime

\* Every count of the ledger is the number of orders it stands for, whatever the
\* transactions that stored, changed, triggered, matched and cancelled them.
CountsMatch == Ledger!CountsMatch

\* The book and the account orders are two trees written by different code: each order
\* that is not waiting has its leaf, with its price, nonce, side and remaining size, no
\* other order has that leaf, and no leaf outlives its order.
BookMatchesOrders ==
    LET filled == {i \in RestingOrders : orders[i].rem = 0}
        place(i) == <<orders[i].market, orders[i].price, orders[i].nonce>>
    IN  /\ book = {Leaf(orders[i]) : i \in RestingOrders \ filled}
        /\ IsInjective([i \in RestingOrders \ filled |-> place(i)])

\* No bid meets an ask on the book, whatever rests, is modified, or is left over when a
\* maker is cancelled under a taker.
BookNotCrossed ==
    \A k, l \in book : k.market = l.market /\ k.isAsk /\ ~l.isAsk => k.price > l.price

\* An order is on the stack or among the account orders, never in both, and never twice on
\* the stack: a modified or triggered order leaves before it comes back.
InOnePlace ==
    /\ \A x \in Inserts : ~Exists(x.index)
    /\ \A j, k \in 0..count - 1 :
          regs[j] \in Inserts /\ regs[k] \in Inserts /\ regs[j].index = regs[k].index => j = k

\* The registers below the count are the ones in use: no transaction pushes a full batch on
\* an instruction it would lose (the contract RegisterStack leaves to its callers).
StackHasNoHoles == \A j \in 0..Depth - 1 : regs[j] # Execute <=> j < count

Covers(x) == {i \in Index : Exists(i) /\ orders[i].owner = x.owner /\ Cancels(x, orders[i])}

\* The instruction on top that cancels many orders has as many to go as there are: not one
\* fewer, which leaves orders behind, nor one more, which can never be finished.
CancelsAllItCovers ==
    Finishing(CancelAllKinds) => regs[0].size = Cardinality(Covers(regs[0]))

\* What is not a cross order "includes isolated orders and spot orders"
\* (total_non_cross_order_count, account.rs): the cancellation of an account's cross orders,
\* which has as many to go as the others, takes none of those.
CrossCancelSparesOthers ==
    Finishing({"cancel_cross"}) =>
        \A i \in Covers(regs[0]) :
            /\ i[1] \in Perps
            /\ ledger.position[<<orders[i].owner, i[1]>>].mode = Ledger!Cross

\* Whatever a transaction leaves on the stack, there is a transaction that takes it up:
\* until the stack is empty no user's transaction can be made.
NeverStuck == ~Idle => ENABLED (Finish \/ ExecuteMatching)

\* And the stack gets empty.
StackDrains == []<>Idle

CancelIsPending(i) == \E x \in Pending : x # Execute /\ x.kind = "cancel_single" /\ x.index = i
Fires(i) == OrderAt(i).trigger = "na" /\ OrderAt(i).sibling # Nil

\* One order cancels the other: once one of two siblings meets the book the other is gone,
\* or its cancellation is on the stack ahead of the order itself.
SiblingsExclude ==
    \A i \in LiveOrders : Fires(i) =>
        LET s == OrderAt(i).sibling
        IN  ~Live(s) \/ CancelIsPending(s)

Waits(i) == OrderAt(i).trigger = "parent_order"
ToBeTold(i) ==
    \E x \in Pending : x # Execute /\ x.kind \in {"cancel_single", "trigger_child"} /\ x.index = i
ToBeTaken(i) ==
    \E x \in Pending :
        x # Execute /\ x.kind \in CancelAllKinds /\ Exists(i)
        /\ orders[i].owner = x.owner /\ Cancels(x, orders[i])

\* A child never waits for a parent that is gone, unless its own end is on the stack.
NoOrphans ==
    \A i \in LiveOrders : Waits(i) =>
        \/ \E j \in LiveOrders : i \in Range(OrderAt(j).children)
        \/ ToBeTold(i) \/ ToBeTaken(i)

\* Between transactions every reduce-only order that does not wait for a parent has a
\* position to reduce: what a flipped position leaves behind is cancelled in time.
TiedOrdersPointInward ==
    Idle => \A i \in Index :
        Exists(i) /\ orders[i].owner \notin Insurance /\ Ledger!IsTied(orders[i]) =>
            ~InvalidReduceOnly(orders[i])

\* "No locked USDC balance, means no open spot orders" (l2_update_account_config.rs), that
\* is, none that buys with it: the check lets an account change its trading mode.
NoLockMeansNoOrders ==
    \A a \in Account : locked[<<a, "quote">>] = 0 =>
        \A i \in RestingOrders :
            ~(orders[i].owner = a /\ Locks(orders[i]) /\ Asset(orders[i]) = "quote")

\* "If TimeInForce is GTT or PostOnly, then OrderExpiry must not be nil"
\* (l2_create_grouped_orders.rs).
RestingOrdersExpire ==
    \A i \in RestingOrders :
        orders[i].type = "limit" => orders[i].expiry # NilExpiry

\* What an order has locked: one that rests, of the asset its owner would give for it.
LockedBy(o, a, s) ==
    IF /\ o # NoOrder /\ o.trigger = "na" /\ Locks(o)
       /\ o.owner = a /\ Asset(o) = s
    THEN Amount(o, o.rem) ELSE 0

\* What an account has locked is what its resting limit orders of spot markets can still
\* take: each cancel, fill and modification unlocks what its order has left.
LockedMatches ==
    \A a \in Account, s \in {"base", "quote"} :
        locked[<<a, s>>] =
            SumFunctionOnSet([i \in Index |-> LockedBy(orders[i], a, s)], Index)

\* A modification, a trigger or a requeue never forgets what an order has traded.
FillsAreKept ==
    [][\A i \in LiveOrders : i \in LiveOrders' => Filled(i)' >= Filled(i)]_vars

\* An order at market pays no more than its size at its own price: what it loses to a
\* worse price it has gained from better ones before, over all the steps it takes.
WithinSlippage == \A x \in Inserts : x.slack >= 0

\* A slot without a market has nothing left of the one it hosted: no order, position or
\* leaf, and no instruction that would meet the next market on the slot.
ReleasedSlotIsQuiet ==
    \A m \in Market : ledger.market[m].status = Ledger!Expired =>
        /\ \A i \in LiveOrders : i[1] # m
        /\ \A a \in Account : Size(a, m) = 0
        /\ \A l \in book : l.market # m

\* Neither side of a trade uses a reduce-only order to open, enlarge or flip a position.
Shrinks(before, after) == IF before >= 0 THEN after \in 0..before ELSE -after \in 0..-before
ReduceOnlyReduces ==
    [][matching => \A i \in LiveOrders :
          /\ OrderAt(i).reduceOnly /\ i[1] \in Perps
          /\ i = Index0 \/ orders'[i] # orders[i]
          =>
             LET o == OrderAt(i)
             IN  Shrinks(Size(o.owner, o.market), ledger'.position[<<o.owner, o.market>>].size)]_vars
=============================================================================
