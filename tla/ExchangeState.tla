--------------------------- MODULE ExchangeState ---------------------------
(***************************************************************************)
(* The part of the exchange's state a matching transaction works on: the   *)
(* account orders, the order book leaves, the counts and positions of the  *)
(* ledger, the locked balances, the order nonces of a market and the       *)
(* instruction registers, with the operations the transactions share.      *)
(*                                                                         *)
(* A transaction is one proof: its own changes, then the matching engine   *)
(* if it asked for it.  Here these are two steps, the second one while     *)
(* `matching' is set; nothing else happens in between.                     *)
(***************************************************************************)
EXTENDS Integers, FiniteSets, Sequences, FiniteSetsExt

CONSTANTS
    Account, Market, Perps, Insurance,   \* as in OrderLedger
    Master,      \* the master account of every account
    NoOrder,     \* AccountOrderTarget::empty
    Execute,     \* BaseRegisterInfoTarget::empty: nothing to finish
    MaxNonce,    \* FIRST_BID_NONCE, scaled
    MaxTime,     \* a bound on block timestamps
    MaxPosition  \* a bound on positions (POSITION_SIZE_BITS)

Depth == 9       \* REGISTER_STACK_SIZE
NewMax == 8      \* NEW_INSTRUCTIONS_MAX_SIZE
FirstAsk == 1    \* FIRST_ASK_NONCE

\* get_order_index: the market and the nonce an order was created with.
Index == Market \X (FirstAsk .. MaxNonce)

VARIABLES
    ledger,      \* the counts, positions and markets of OrderLedger
    orders,      \* the account orders tree
    book,        \* the leaves of the order book trees that hold something
    ask, bid,    \* a market's ask_nonce and bid_nonce
    locked,      \* locked_balance of an account in the base and quote asset of spot markets
    cancelTime,  \* cancel_all_time of an account, the dead man's switch
    now,         \* the block timestamp
    regs, count, \* the register stack
    matching     \* matching_engine_flag
vars == <<ledger, orders, book, ask, bid, locked, cancelTime, now, regs, count, matching>>

Ledger == INSTANCE OrderLedger WITH
             OrderId <- Index, Pool <- {}, MaxPublic <- 1, MaxSize <- MaxPosition,
             nextPublic <- 2

Stack == INSTANCE RegisterStack WITH
             Instr <- {}, Empty <- Execute, Widths <- {3, NewMax}

Ioc == "ioc"
Gtt == "gtt"
PostOnly == "post_only"

\* limit_flag and market_flag of execute_matching.  "conditional" is a stop loss or take
\* profit at market, "conditional_limit" one with a limit price.
LimitTypes == {"limit", "liquidation", "conditional_limit"}
MarketTypes == {"market", "conditional", "twap_sub"}

NilExpiry == 0

-----------------------------------------------------------------------------
(* Instructions. *)

Insert(i, o) == [kind |-> "insert_order", index |-> i, order |-> o, slack |-> 0]
CancelOne(o, i) == [kind |-> "cancel_single", owner |-> o.owner, market |-> o.market, index |-> i]
TriggerChild(o, i, size) ==
    [kind |-> "trigger_child", owner |-> o.owner, market |-> o.market, index |-> i,
     size |-> size]
CancelTied(a, m, size) ==
    [kind |-> "cancel_position_tied", owner |-> a, market |-> m, size |-> size]
Transfer == [kind |-> "transfer_asset"]

CancelAllKinds == {"cancel_all", "cancel_position_tied", "cancel_cross", "cancel_isolated",
                   "cancel_market"}

\* cancel_child_orders and trigger_child_orders: the first child goes to the highest slot.
CancelChildren(o, top) ==
    [j \in {top - k + 1 : k \in 1..Len(o.children)} |-> CancelOne(o, o.children[top - j + 1])]
TriggerChildren(o, size, top) ==
    [j \in {top - k + 1 : k \in 1..Len(o.children)} |->
        TriggerChild(o, o.children[top - j + 1], size)]

\* Instructions by slot: x in slot j; those of f, and of g in the slots f leaves free.
Slot(j, x) == [k \in {j} |-> x]
Over(f, g) == [j \in DOMAIN f \union DOMAIN g |-> IF j \in DOMAIN f THEN f[j] ELSE g[j]]

\* put_to_instruction_stack_unsafe for every slot of `new', then push_instruction_stack
\* with `max' on top of the registers r of which c are taken.
Put(r, c, new, max) ==
    LET all == Over(new, Stack!NoneNew)
        n   == Cardinality(DOMAIN new)
    IN  /\ Stack!PushAllowed(c, all, n, max)
        /\ regs' = IF n = 0 THEN r ELSE Stack!PushInstructions(r, all, n, max)
        /\ count' = c + n

Nothing == << >>

\* A transaction of a user or of the rollup starts when no instruction is left to finish.
Idle == ~matching /\ regs[0] = Execute

\* An internal transaction that finishes the instruction on top.
Finishing(kinds) == ~matching /\ regs[0] # Execute /\ regs[0].kind \in kinds

Popped == Stack!PopFront(regs)

-----------------------------------------------------------------------------
(* Orders and the book. *)

Exists(i) == orders[i] # NoOrder
Size(a, m) == ledger.position[<<a, m>>].size
Expired(o) == o.expiry <= now

\* should_dms_be_triggered
DmsTriggered(a) == cancelTime[a] # 0 /\ cancelTime[a] <= now

\* is_not_valid_reduce_only_direction for a position of the given size
Misdirected(size, isAsk) == ~(IF isAsk THEN size > 0 ELSE size < 0)
InvalidReduceOnly(o) ==
    o.market \in Perps /\ o.reduceOnly /\ Misdirected(Size(o.owner, o.market), o.isAsk)

Leaf(o) == [market |-> o.market, price |-> o.price, nonce |-> o.nonce, isAsk |-> o.isAsk,
            size |-> o.rem]

\* The leaves at the price and nonce of o: one at most, and none when it is empty.
At(leaves, o) ==
    {l \in leaves : l.market = o.market /\ l.price = o.price /\ l.nonce = o.nonce}

\* A leaf of size zero is an empty leaf.
Resting(leaves, o) == (leaves \ At(leaves, o)) \union IF o.rem = 0 THEN {} ELSE {Leaf(o)}

\* The book is a tree ordered by price, then nonce.
Before(p, n, q, k) == p < q \/ (p = q /\ n < k)

\* get_next_order_nonce and the nonce update of every transaction that creates an order
NextNonce(m, isAsk) == IF isAsk THEN ask[m] ELSE bid[m]
HasNonce(m) == ask[m] # bid[m]
TakeNonces(m, isAsk, n) ==
    /\ ask' = IF isAsk THEN [ask EXCEPT ![m] = @ + n] ELSE ask
    /\ bid' = IF isAsk THEN bid ELSE [bid EXCEPT ![m] = @ - n]

-----------------------------------------------------------------------------
(* Locked balances. *)

\* get_locked_amount_and_ask_asset_index
Amount(o, size) == IF o.isAsk THEN size ELSE size * o.price
Asset(o) == IF o.isAsk THEN "base" ELSE "quote"

\* Only limit orders of spot markets lock, and the insurance fund never does.
Locks(o) == o.market \notin Perps /\ o.type = "limit" /\ o.owner \notin Insurance

Lock(balances, o, size) ==
    IF Locks(o) THEN [balances EXCEPT ![<<o.owner, Asset(o)>>] = @ + Amount(o, size)]
    ELSE balances
Unlock(balances, o, size) ==
    IF Locks(o) THEN [balances EXCEPT ![<<o.owner, Asset(o)>>] = @ - Amount(o, size)]
    ELSE balances

\* decrement_locked_balance_for_order asserts that the balance covers the amount.
Covered(balances) == \A key \in DOMAIN balances : balances[key] >= 0
=============================================================================
