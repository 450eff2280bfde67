------------------------- MODULE OrderEngineProofs -------------------------
(***************************************************************************)
(* The invariant of the exchange, for every set of accounts, markets,      *)
(* requests and groups, and that each transaction keeps it: orders stay in *)
(* one place, are counted, have their leaves and never cross, whatever     *)
(* users and the rollup send and however the instructions they leave are   *)
(* finished.  The matching engine is in MatchingProofs.                    *)
(***************************************************************************)
EXTENDS OrderEngine, Sums

\* What is known of the ledger's operators and of the register stack.
Count == INSTANCE OrderLedgerProofs WITH
             OrderId <- Index, Pool <- {}, MaxPublic <- 1, MaxSize <- MaxPosition,
             nextPublic <- 2
Shift == INSTANCE RegisterStackProofs WITH
             Instr <- {}, Empty <- Execute, Widths <- {3, NewMax}

-----------------------------------------------------------------------------
(* The invariant, of any values of the variables: L is the ledger, O the account orders, *)
(* b the book, A and B the ask and bid nonces, r the registers and c their count.       *)

\* Asks take their nonces from below and bids from above, and they do not meet.
NoncesFit(A, B) ==
    /\ A \in [Market -> Int] /\ B \in [Market -> Int]
    /\ \A m \in Market : FirstAsk <= A[m] /\ A[m] <= B[m] /\ B[m] <= MaxNonce

\* An index that was given to an order, and a nonce of the order's side.
GivenOut(A, B, i) == i \in Index /\ (i[2] < A[i[1]] \/ i[2] > B[i[1]])
OnSide(A, B, o) ==
    IF o.isAsk THEN o.nonce \in FirstAsk .. A[o.market] - 1
    ELSE o.nonce \in B[o.market] + 1 .. MaxNonce

\* A master's other accounts are never reduced.
SparesMasters(o) == ~(o.scope = "master" /\ o.mode = "reduce")

\* An order at index i, among the account orders or on the stack.  One that waits has no
\* nonce and no children; one that waits for a price has not traded, and a TWAP is not done.
OrderFits(A, B, i, o) ==
    /\ GivenOut(A, B, i)
    /\ o \in OrderSet /\ o.market = i[1]
    /\ o.rem <= o.initial
    /\ Len(o.children) <= 2
    /\ \A k \in 1..Len(o.children) : o.children[k][1] = o.market
    /\ IF o.trigger = "na" THEN OnSide(A, B, o) ELSE o.nonce = NilNonce /\ o.children = << >>
    /\ o.trigger \in {"mark_price", "parent_order"} => o.initial = o.rem
    /\ o.trigger = "twap" => o.rem > 0
    /\ SparesMasters(o)

OrdersFit(A, B, O) ==
    /\ O = [i \in Index |-> O[i]]
    /\ \A i \in Index : O[i] # NoOrder => OrderFits(A, B, i, O[i])

\* An instruction; what one that inserts an order has lost to worse prices it had gained.
InstructionFits(A, B, x) ==
    /\ x \in InstructionSet
    /\ x.kind = "insert_order" => OrderFits(A, B, x.index, x.order) /\ x.slack >= 0
    /\ x.kind = "trigger_child" => x.market = x.index[1] /\ x.size >= 0

\* The stack has no holes, and an order with children is at its bottom.
StackFits(A, B, r, c) ==
    /\ Shift!NoHolesIn(r, c)
    /\ \A j \in 0..c - 1 : InstructionFits(A, B, r[j])
    /\ \A j \in 0..c - 1 :
          r[j].kind = "insert_order" /\ r[j].order.children # << >> => j = c - 1

\* An order is on the stack or among the account orders, in one place.
PlacesApart(O, r, c) ==
    /\ \A j \in 0..c - 1 : r[j].kind = "insert_order" => O[r[j].index] = NoOrder
    /\ \A j, k \in 0..c - 1 :
          /\ r[j].kind = "insert_order" /\ r[k].kind = "insert_order"
          /\ r[j].index = r[k].index
          => j = k

\* Orders that do not wait have nonces of their own; one of them at most is on the stack.
IsResting(O, i) == O[i] # NoOrder /\ O[i].trigger = "na"
IsTaker(x) == x.kind = "insert_order" /\ x.order.trigger = "na"
RestingApart(O) ==
    \A i, k \in Index :
        /\ IsResting(O, i) /\ IsResting(O, k)
        /\ O[i].market = O[k].market /\ O[i].nonce = O[k].nonce
        => i = k
TakerApart(O, o) ==
    \A i \in Index : IsResting(O, i) /\ O[i].market = o.market => O[i].nonce # o.nonce
TakersApart(O, r, c) ==
    /\ \A j \in 0..c - 1 : IsTaker(r[j]) => TakerApart(O, r[j].order)
    /\ \A j, k \in 0..c - 1 : IsTaker(r[j]) /\ IsTaker(r[k]) => j = k

\* The leaves of the book are those of the orders that do not wait and are not filled.
BookFits(O, b) == b = {Leaf(O[i]) : i \in {k \in Index : IsResting(O, k) /\ O[k].rem # 0}}
NotCrossed(b) ==
    \A k, l \in b : k.market = l.market /\ k.isAsk /\ ~l.isAsk => k.price > l.price

\* A market that is not released hosts the market its open positions are of.
PositionsFit(L) ==
    /\ \A m \in Market : L.market[m].status # Ledger!Expired => L.market[m].public = 1
    /\ \A a \in Account, m \in Market :
          L.position[<<a, m>>].size # 0 => L.position[<<a, m>>].public = 1

\* The open interest of a market is what the accounts hold, and a slot without a market
\* has no orders and no open interest.
MarketFits(L, m) ==
    /\ L.market[m].openInterest = Count!Held(L, m)
    /\ L.market[m].status = Ledger!Expired =>
          L.market[m].orders = 0 /\ L.market[m].openInterest = 0
MarketsFit(L) == \A m \in Market : MarketFits(L, m)

\* The ledger counts the orders, open positions are of the market their slot hosts, and
\* nothing is left on a slot that hosts none.
LedgerFits(L, O) == Count!Counted(L, O) /\ PositionsFit(L) /\ MarketsFit(L)

\* An order waits on the stack for a market that is open.
MarketsOpen(L, r, c) ==
    \A j \in 0..c - 1 :
        r[j].kind = "insert_order" => L.market[r[j].order.market].status = Ledger!Active

\* The leaves of a state, and its stack on top of them.
World(L, O, b, A, B) ==
    /\ NoncesFit(A, B)
    /\ OrdersFit(A, B, O)
    /\ RestingApart(O)
    /\ BookFits(O, b)
    /\ NotCrossed(b)
    /\ LedgerFits(L, O)
Piled(L, O, A, B, r, c) ==
    /\ StackFits(A, B, r, c)
    /\ PlacesApart(O, r, c)
    /\ TakersApart(O, r, c)
    /\ MarketsOpen(L, r, c)

EInv ==
    /\ World(ledger, orders, book, ask, bid)
    /\ Piled(ledger, orders, ask, bid, regs, count)
    /\ matching => regs[0] # Execute /\ regs[0].kind = "insert_order"
    /\ now \in 1..MaxTime

-----------------------------------------------------------------------------
(* The instances. *)

\* What the constants are.
LEMMA Constants ==
    /\ Perps \subseteq Market /\ Insurance \subseteq Account
    /\ MaxNonce \in Nat /\ MaxTime \in Nat /\ MaxPosition \in Nat /\ MaxNonce > FirstAsk
    /\ FirstAsk = 1 /\ Depth = 9 /\ NewMax = 8
BY EngineAssumption DEF FirstAsk, Depth, NewMax

\* The assumptions of OrderLedger and of RegisterStack hold of what they are given here.
LEMMA InstancesAreSound ==
    /\ IsFiniteSet(Account) /\ IsFiniteSet(Index)
    /\ Count!IsFiniteSet(Account) /\ Count!IsFiniteSet(Index)
    /\ Perps \subseteq Market /\ {} \subseteq Account /\ Insurance \subseteq Account
    /\ 1 \in Nat /\ MaxPosition \in Nat
    /\ NoOrder \notin Ledger!Orders /\ NoOrder \notin Count!Orders
    /\ Execute \notin {}
    /\ NewMax \in Nat \ {0} /\ Depth \in Nat /\ NewMax < Depth /\ {3, NewMax} \subseteq 1..NewMax
<1>1. IsFiniteSet(FirstAsk .. MaxNonce)
  BY Constants, FS_Interval
<1>2. IsFiniteSet(Index)
  BY <1>1, TypeAssumption, FS_Product DEF Index
<1>3. Count!Orders = Ledger!Orders
  BY DEF Count!Orders, Ledger!Orders, Count!TriggerStatuses, Ledger!TriggerStatuses
<1>4. \A S : Count!IsFiniteSet(S) = IsFiniteSet(S)
  BY DEF Count!IsFiniteSet, IsFiniteSet
<1> QED BY <1>2, <1>3, <1>4, Constants, EngineAssumption, TypeAssumption

\* Cardinality is the same everywhere.
LEMMA SameCardinality ==
    ASSUME NEW S
    PROVE  Ledger!Cardinality(S) = Count!Cardinality(S) /\ Cardinality(S) = Count!Cardinality(S)
BY DEF Ledger!Cardinality, Count!Cardinality, Cardinality

\* The ledger's operators are those its theorems are about.
LEMMA SameIncrement == ASSUME NEW L, NEW o PROVE Ledger!Increment(L, o) = Count!Increment(L, o)
BY DEF Ledger!Increment, Count!Increment, Ledger!InitIfEmpty, Count!InitIfEmpty,
       Ledger!EmptyPosition, Count!EmptyPosition, Ledger!One, Count!One, Ledger!IsTied,
       Count!IsTied, Ledger!Isolated, Count!Isolated, Ledger!Cross, Count!Cross,
       Ledger!NilPublic, Count!NilPublic

LEMMA SameDecrement == ASSUME NEW L, NEW o PROVE Ledger!Decrement(L, o) = Count!Decrement(L, o)
BY DEF Ledger!Decrement, Count!Decrement, Ledger!One, Count!One, Ledger!IsTied,
       Count!IsTied, Ledger!Isolated, Count!Isolated

LEMMA SameRelease ==
    ASSUME NEW L, NEW m
    PROVE  Ledger!Release(L, m) = Count!Release(L, m) /\ Ledger!Close(L, m) = Count!Close(L, m)
<1>1. Ledger!EmptyMarket = Count!EmptyMarket
  BY DEF Ledger!EmptyMarket, Count!EmptyMarket, Ledger!Expired, Count!Expired,
         Ledger!NilPublic, Count!NilPublic, Ledger!Cross, Count!Cross
<1>2. Ledger!InSettlement = Count!InSettlement
  BY DEF Ledger!InSettlement, Count!InSettlement
<1>3. ASSUME NEW M PROVE Ledger!Release(M, m) = Count!Release(M, m)
  BY <1>1, <1>2 DEF Ledger!Release, Count!Release
<1> DEFINE M == [L EXCEPT !.market[m].status = Ledger!InSettlement]
<1>4. Ledger!Close(L, m) = Ledger!Release(M, m) /\ Count!Close(L, m) = Count!Release(M, m)
  BY <1>2 DEF Ledger!Close, Count!Close
<1> QED BY <1>3, <1>4

LEMMA SameMove ==
    ASSUME NEW L, NEW a, NEW m, NEW d
    PROVE  Ledger!Move(L, a, m, d) = Count!Move(L, a, m, d)
<1>1. Ledger!EmptyPosition = Count!EmptyPosition
  BY DEF Ledger!EmptyPosition, Count!EmptyPosition, Ledger!Cross, Count!Cross,
         Ledger!NilPublic, Count!NilPublic
<1>2. Ledger!InitIfEmpty(L, a, m) = Count!InitIfEmpty(L, a, m)
  BY <1>1, Zenon DEF Ledger!InitIfEmpty, Count!InitIfEmpty, Ledger!Cross, Count!Cross
<1>3. \A x : Ledger!Abs(x) = Count!Abs(x)
  BY DEF Ledger!Abs, Count!Abs
<1> QED BY <1>2, <1>3, Zenon DEF Ledger!Move, Count!Move

LEMMA SameTriggered ==
    ASSUME NEW L, NEW o
    PROVE  Ledger!CountTriggered(L, o) = Count!CountTriggered(L, o)
BY DEF Ledger!CountTriggered, Count!CountTriggered, Ledger!One, Count!One

LEMMA SameTied == ASSUME NEW o PROVE Ledger!IsTied(o) = Count!IsTied(o)
BY DEF Ledger!IsTied, Count!IsTied

LEMMA SameEmpty == Ledger!EmptyPosition = Count!EmptyPosition /\ \A x : Ledger!Abs(x) = Count!Abs(x)
BY DEF Ledger!EmptyPosition, Count!EmptyPosition, Ledger!NilPublic, Count!NilPublic,
       Ledger!Cross, Count!Cross, Ledger!Abs, Count!Abs

-----------------------------------------------------------------------------
(* What the transactions do to the ledger.                                              *)

SizeIn(L, a, m) == L.position[<<a, m>>].size

\* The market of an order keeps its status and its public index, and nobody's position
\* changes.
SameMarkets(L, M) ==
    \A m \in Market : /\ M.market[m].status = L.market[m].status
                      /\ M.market[m].public = L.market[m].public
SameSizes(L, M) ==
    /\ SameMarkets(L, M)
    /\ \A a \in Account, m \in Market : SizeIn(M, a, m) = SizeIn(L, a, m)

LEMMA StillSpares ==
    ASSUME NEW o, SparesMasters(o), NEW u, u.mode = o.mode, u.scope = o.scope
    PROVE  SparesMasters(u)
BY DEF SparesMasters

\* The ledger looks at the owner, the market and the flags of an order.
LEMMA OrderIsCounted == ASSUME NEW o \in OrderSet PROVE Count!IsOrder(o) /\ o # NoOrder
BY TypeAssumption DEF OrderSet, Count!IsOrder

\* Counted ledgers have leaves of the raw types.
LEMMA LedgerShape ==
    ASSUME NEW L, NEW O, Count!Counted(L, O)
    PROVE  /\ L = [market |-> L.market, account |-> L.account, position |-> L.position]
           /\ L.market \in [Market -> Count!RawMarkets]
           /\ L.position \in [Account \X Market -> Count!RawPositions]
BY DEF Count!Counted, Count!RawLedgers

\* The market of an order is one that is not released.
LEMMA Occupied ==
    ASSUME NEW L, NEW O, NEW i \in Index, LedgerFits(L, O), O[i] # NoOrder, O[i] \in OrderSet
    PROVE  L.market[O[i].market].status # Ledger!Expired
<1> DEFINE m == O[i].market
<1>1. m \in Market /\ i \in Count!OfMarketIn(O, m)
  BY DEF OrderSet, Count!OfMarketIn
<1>2. Count!OfMarketIn(O, m) \in SUBSET Index
  BY DEF Count!OfMarketIn
<1>3. Count!Cardinality(Count!OfMarketIn(O, m)) # 0
  BY <1>1, <1>2, InstancesAreSound, Count!EmptyCount
<1>4. L.market[m].orders # 0
  BY <1>1, <1>3 DEF LedgerFits, Count!Counted, Count!CountsIn
<1> QED BY <1>1, <1>4 DEF LedgerFits, MarketsFit, MarketFits

\* A slot whose positions keep their sizes and whose open interest stays is in order, if
\* no order is counted where no market is.
LEMMA MarketKept ==
    ASSUME NEW L, NEW M, NEW O, NEW P, NEW m \in Market, LedgerFits(L, O), Count!Counted(M, P),
           \A a \in Account : SizeIn(M, a, m) = SizeIn(L, a, m),
           M.market[m].openInterest = L.market[m].openInterest,
           M.market[m].status = Ledger!Expired =>
               M.market[m].orders = 0 /\ M.market[m].openInterest = 0
    PROVE  MarketFits(M, m)
<1>1. L \in Count!RawLedgers /\ M \in Count!RawLedgers
  BY DEF LedgerFits, Count!Counted
<1>2. Count!Held(M, m) = Count!Held(L, m)
  BY <1>1, InstancesAreSound, Count!SameSizes DEF SizeIn
<1> QED BY <1>2 DEF LedgerFits, MarketsFit, MarketFits

\* The same of all slots.
LEMMA MarketsKept ==
    ASSUME NEW L, NEW M, NEW O, NEW P, LedgerFits(L, O), Count!Counted(M, P), SameSizes(L, M),
           \A m \in Market :
              /\ M.market[m].openInterest = L.market[m].openInterest
              /\ M.market[m].status = Ledger!Expired =>
                    M.market[m].orders = L.market[m].orders
    PROVE  MarketsFit(M)
<1> SUFFICES ASSUME NEW m \in Market PROVE MarketFits(M, m)
  BY DEF MarketsFit
<1>1. \A a \in Account : SizeIn(M, a, m) = SizeIn(L, a, m)
  BY DEF SameSizes
<1>2. M.market[m].status = Ledger!Expired =>
          M.market[m].orders = 0 /\ M.market[m].openInterest = 0
  BY DEF SameSizes, SameMarkets, LedgerFits, MarketsFit, MarketFits
<1> QED BY <1>1, <1>2, MarketKept

\* An order that joins the account orders is counted.
LEMMA StoreFits ==
    ASSUME NEW L, NEW O, NEW i \in Index, NEW o \in OrderSet, LedgerFits(L, O),
           O[i] = NoOrder, L.market[o.market].status # Ledger!Expired
    PROVE  /\ LedgerFits(Ledger!Increment(L, o), [O EXCEPT ![i] = o])
           /\ SameSizes(L, Ledger!Increment(L, o))
<1> DEFINE M == Ledger!Increment(L, o)
           am == <<o.owner, o.market>>
<1>1. Count!Counted(M, [O EXCEPT ![i] = o])
  BY OrderIsCounted, SameIncrement, InstancesAreSound, Count!StoreKeeps DEF LedgerFits
<1>2. o.owner \in Account /\ o.market \in Market /\ am \in Account \X Market
  BY DEF OrderSet
<1>3. /\ L = [market |-> L.market, account |-> L.account, position |-> L.position]
      /\ L.market \in [Market -> Count!RawMarkets]
      /\ L.position \in [Account \X Market -> Count!RawPositions]
  BY LedgerShape DEF LedgerFits
<1>4. /\ M.market = [L.market EXCEPT ![o.market].orders = @ + 1]
      /\ \E q : /\ M.position = [L.position EXCEPT ![am] = q]
                /\ q.size = L.position[am].size
                /\ q.size # 0 => q.public = 1
  <2> DEFINE p == Ledger!InitIfEmpty(L, o.owner, o.market)
             q == IF o.market \in Perps
                  THEN [p EXCEPT !.orders = @ + 1, !.tied = @ + Ledger!One(Ledger!IsTied(o))]
                  ELSE L.position[am]
  <2>1. /\ L.position[am] \in Count!RawPositions
        /\ L.position[am].size # 0 => L.position[am].public = 1
        /\ L.market[o.market].public = 1
    BY <1>2, <1>3 DEF LedgerFits, PositionsFit
  <2>2. p \in Count!RawPositions /\ p.size = L.position[am].size
    <3>1. CASE L.position[am].public = L.market[o.market].public
      BY <2>1, <3>1 DEF Ledger!InitIfEmpty
    <3>2. CASE L.position[am].public # L.market[o.market].public
      <4>1. p.size = 0 /\ p = Count!InitIfEmpty(L, o.owner, o.market)
        BY <3>2 DEF Ledger!InitIfEmpty, Ledger!EmptyPosition, Count!InitIfEmpty,
                    Count!EmptyPosition, Ledger!Cross, Count!Cross, Ledger!NilPublic,
                    Count!NilPublic
      <4>2. L \in Count!RawLedgers
        BY DEF LedgerFits, Count!Counted
      <4> QED BY <1>2, <2>1, <3>2, <4>1, <4>2, InstancesAreSound, Count!InitType
    <3> QED BY <3>1, <3>2
  <2>3. p.public = 1 \/ p = L.position[am]
    BY <2>1 DEF Ledger!InitIfEmpty, Ledger!EmptyPosition
  <2> HIDE DEF p
  <2>4. q.size = L.position[am].size /\ (q.size # 0 => q.public = 1)
    BY <2>1, <2>2, <2>3 DEF Count!RawPositions
  <2>5. /\ M.market = [L.market EXCEPT ![o.market].orders = @ + 1]
        /\ M.position = [L.position EXCEPT ![am] = q]
    BY <1>3 DEF Ledger!Increment, p
  <2> QED BY <2>4, <2>5
<1>5. PICK q : /\ M.position = [L.position EXCEPT ![am] = q]
               /\ q.size = L.position[am].size
               /\ q.size # 0 => q.public = 1
  BY <1>4
<1>6. M.market = [L.market EXCEPT ![o.market].orders = @ + 1]
  BY <1>4
<1> HIDE DEF M
<1>7. SameSizes(L, M)
  <2>1. \A m \in Market : /\ M.market[m].status = L.market[m].status
                          /\ M.market[m].public = L.market[m].public
    BY <1>2, <1>3, <1>6 DEF Count!RawMarkets
  <2>2. ASSUME NEW a \in Account, NEW m \in Market
        PROVE  M.position[<<a, m>>].size = L.position[<<a, m>>].size
    <3>1. CASE <<a, m>> = am
      BY <1>2, <1>3, <1>5, <3>1
    <3>2. CASE <<a, m>> # am
      BY <1>3, <1>5, <3>2
    <3> QED BY <3>1, <3>2
  <2> QED BY <2>1, <2>2 DEF SameSizes, SameMarkets, SizeIn
<1>8. PositionsFit(M)
  <2>1. ASSUME NEW a \in Account, NEW m \in Market
        PROVE  M.position[<<a, m>>].size # 0 => M.position[<<a, m>>].public = 1
    <3>1. CASE <<a, m>> = am
      BY <1>2, <1>3, <1>5, <3>1
    <3>2. CASE <<a, m>> # am
      BY <1>3, <1>5, <3>2 DEF LedgerFits, PositionsFit
    <3> QED BY <3>1, <3>2
  <2>2. \A m \in Market : M.market[m].status # Ledger!Expired => M.market[m].public = 1
    BY <1>7 DEF SameSizes, SameMarkets, LedgerFits, PositionsFit
  <2> QED BY <2>1, <2>2 DEF PositionsFit
<1>9. MarketsFit(M)
  <2>1. \A m \in Market : /\ M.market[m].openInterest = L.market[m].openInterest
                          /\ M.market[m].status = Ledger!Expired =>
                                M.market[m].orders = L.market[m].orders
    BY <1>2, <1>3, <1>6 DEF Count!RawMarkets
  <2> QED BY <1>1, <1>7, <2>1, MarketsKept DEF M
<1> QED BY <1>1, <1>7, <1>8, <1>9 DEF LedgerFits, M

\* A position that keeps its size and its public index keeps the ledger in order.
LEMMA PositionKept ==
    ASSUME NEW L, NEW O, NEW M, NEW am \in Account \X Market, NEW q,
           LedgerFits(L, O),
           M.position = [L.position EXCEPT ![am] = q],
           q.size = L.position[am].size, q.size # 0 => q.public = L.position[am].public,
           SameMarkets(L, M)
    PROVE  SameSizes(L, M) /\ PositionsFit(M)
<1>1. L.position \in [Account \X Market -> Count!RawPositions]
  BY LedgerShape DEF LedgerFits
<1>2. ASSUME NEW a \in Account, NEW m \in Market
      PROVE  /\ M.position[<<a, m>>].size = L.position[<<a, m>>].size
             /\ M.position[<<a, m>>].size # 0 => M.position[<<a, m>>].public = 1
  <2>1. CASE <<a, m>> = am
    BY <1>1, <2>1 DEF LedgerFits, PositionsFit
  <2>2. CASE <<a, m>> # am
    BY <1>1, <2>2 DEF LedgerFits, PositionsFit
  <2> QED BY <2>1, <2>2
<1>3. SameSizes(L, M)
  BY <1>2 DEF SameSizes, SizeIn
<1>4. PositionsFit(M)
  BY <1>2 DEF LedgerFits, PositionsFit, SameMarkets
<1> QED BY <1>3, <1>4

\* An order that leaves the account orders is no longer counted.
LEMMA DropFits ==
    ASSUME NEW L, NEW O, NEW i \in Index, LedgerFits(L, O), O[i] # NoOrder, O[i] \in OrderSet
    PROVE  /\ LedgerFits(Ledger!Decrement(L, O[i]), [O EXCEPT ![i] = NoOrder])
           /\ SameSizes(L, Ledger!Decrement(L, O[i]))
<1> DEFINE o == O[i]
           M == Ledger!Decrement(L, o)
           am == <<o.owner, o.market>>
           p == L.position[am]
           t == Ledger!One(Ledger!IsTied(o))
           q == IF o.market \in Perps THEN [p EXCEPT !.orders = @ - 1, !.tied = @ - t] ELSE p
<1>1. Count!Counted(M, [O EXCEPT ![i] = NoOrder])
  BY SameDecrement, InstancesAreSound, Count!DropKeeps DEF LedgerFits
<1>2. o.owner \in Account /\ o.market \in Market /\ am \in Account \X Market
  BY DEF OrderSet
<1>3. /\ L = [market |-> L.market, account |-> L.account, position |-> L.position]
      /\ L.market \in [Market -> Count!RawMarkets]
      /\ L.position \in [Account \X Market -> Count!RawPositions]
  BY LedgerShape DEF LedgerFits
<1>4. /\ M.market = [L.market EXCEPT ![o.market].orders = @ - 1]
      /\ M.position = [L.position EXCEPT ![am] = q]
  BY <1>3 DEF Ledger!Decrement
<1>5. p \in Count!RawPositions
  BY <1>2, <1>3
<1> HIDE DEF t
<1>6. q.size = p.size /\ q.public = p.public
  BY <1>5 DEF Count!RawPositions
<1> HIDE DEF M, q
<1>7. SameMarkets(L, M)
  BY <1>2, <1>3, <1>4 DEF Count!RawMarkets, SameMarkets
<1> HIDE DEF am
<1>8. SameSizes(L, M) /\ PositionsFit(M)
  BY <1>2, <1>4, <1>6, <1>7, PositionKept
<1>9. L.market[o.market].status # Ledger!Expired
  BY Occupied
<1>10. MarketsFit(M)
  <2>1. \A m \in Market : /\ M.market[m].openInterest = L.market[m].openInterest
                          /\ M.market[m].status = Ledger!Expired =>
                                M.market[m].orders = L.market[m].orders
    BY <1>2, <1>3, <1>4, <1>9 DEF Count!RawMarkets
  <2> QED BY <1>1, <1>8, <2>1, MarketsKept DEF M
<1> QED BY <1>1, <1>8, <1>10 DEF LedgerFits, M

\* A slot that is drained is released, and no position changes.
LEMMA ReleaseFits ==
    ASSUME NEW L, NEW O, NEW m \in Market, LedgerFits(L, O)
    PROVE  /\ LedgerFits(Ledger!Release(L, m), O)
           /\ Ledger!Release(L, m).position = L.position
           /\ \A n \in Market :
                 \/ Ledger!Release(L, m).market[n] = L.market[n]
                 \/ /\ L.market[n].status = Ledger!InSettlement /\ L.market[n].orders = 0
                    /\ L.market[n].openInterest = 0
                    /\ Ledger!Release(L, m).market[n].status = Ledger!Expired
<1> DEFINE M == Ledger!Release(L, m)
<1>1. Count!Counted(M, O)
  BY SameRelease, InstancesAreSound, Count!ReleaseKeeps DEF LedgerFits
<1>2. /\ L = [market |-> L.market, account |-> L.account, position |-> L.position]
      /\ L.market \in [Market -> Count!RawMarkets]
  BY LedgerShape DEF LedgerFits
<1>3. /\ M.position = L.position
      /\ \A n \in Market :
            \/ M.market[n] = L.market[n]
            \/ /\ L.market[n].status = Ledger!InSettlement /\ L.market[n].orders = 0
               /\ L.market[n].openInterest = 0
               /\ M.market[n].status = Ledger!Expired
  BY <1>2 DEF Ledger!Release, Ledger!EmptyMarket
<1>4. PositionsFit(M)
  BY <1>3 DEF LedgerFits, PositionsFit
<1>5. MarketsFit(M)
  <2> SUFFICES ASSUME NEW n \in Market PROVE MarketFits(M, n)
    BY DEF MarketsFit
  <2>1. \A a \in Account : SizeIn(M, a, n) = SizeIn(L, a, n)
    BY <1>3 DEF SizeIn
  <2>2. /\ M.market[n].openInterest = L.market[n].openInterest
        /\ M.market[n].status = Ledger!Expired =>
              M.market[n].orders = 0 /\ M.market[n].openInterest = 0
    <3>1. \/ M.market[n] = L.market[n]
          \/ L.market[n].openInterest = 0 /\ M.market[n] = Ledger!EmptyMarket
      BY <1>2 DEF Ledger!Release
    <3> QED BY <3>1 DEF LedgerFits, MarketsFit, MarketFits, Ledger!EmptyMarket
  <2> HIDE DEF M
  <2> QED BY <1>1, <2>1, <2>2, MarketKept DEF M
<1> QED BY <1>1, <1>3, <1>4, <1>5 DEF LedgerFits

\* An order that changes without changing what is counted of it stays counted.
LEMMA ChangeFits ==
    ASSUME NEW L, NEW O, NEW i \in Index, NEW o \in OrderSet, LedgerFits(L, O),
           O[i] # NoOrder, o.owner = O[i].owner, o.market = O[i].market,
           Ledger!IsTied(o) = Ledger!IsTied(O[i])
    PROVE  LedgerFits(L, [O EXCEPT ![i] = o])
<1>1. Count!IsTied(o) = Count!IsTied(O[i])
  BY SameTied
<1> QED BY <1>1, OrderIsCounted, InstancesAreSound, Count!ChangeKeeps DEF LedgerFits

\* A triggered child is counted as tied to its position.
LEMMA TriggerFits ==
    ASSUME NEW L, NEW O, NEW i \in Index, NEW u \in OrderSet, LedgerFits(L, O),
           O[i] # NoOrder, O[i] \in OrderSet,
           O[i].trigger = "parent_order", O[i].market \in Perps,
           u.owner = O[i].owner, u.market = O[i].market, u.reduceOnly = O[i].reduceOnly,
           u.trigger # "parent_order"
    PROVE  /\ LedgerFits(Ledger!CountTriggered(L, O[i]), [O EXCEPT ![i] = u])
           /\ SameSizes(L, Ledger!CountTriggered(L, O[i]))
<1> DEFINE o == O[i]
           M == Ledger!CountTriggered(L, o)
           am == <<o.owner, o.market>>
           p == L.position[am]
           t == Ledger!One(o.reduceOnly)
           q == [p EXCEPT !.tied = @ + t]
<1>1. Count!Counted(M, [O EXCEPT ![i] = u])
  BY SameTriggered, OrderIsCounted, InstancesAreSound, Count!TriggerKeeps DEF LedgerFits
<1>2. o.owner \in Account /\ o.market \in Market /\ am \in Account \X Market
  BY DEF OrderSet
<1>3. /\ L = [market |-> L.market, account |-> L.account, position |-> L.position]
      /\ L.position \in [Account \X Market -> Count!RawPositions]
  BY LedgerShape DEF LedgerFits
<1>4. SameMarkets(L, M) /\ M.position = [L.position EXCEPT ![am] = q]
  BY <1>3 DEF Ledger!CountTriggered, SameMarkets
<1>5. p \in Count!RawPositions
  BY <1>2, <1>3
<1> HIDE DEF t
<1>6. q.size = p.size /\ q.public = p.public
  BY <1>5 DEF Count!RawPositions
<1> HIDE DEF M, q
<1>8. SameSizes(L, M) /\ PositionsFit(M)
  BY <1>2, <1>4, <1>6, PositionKept
<1>9. M.market = L.market
  BY <1>3 DEF M, Ledger!CountTriggered
<1>10. MarketsFit(M)
  BY <1>1, <1>8, <1>9, MarketsKept DEF M
<1> QED BY <1>1, <1>8, <1>10 DEF LedgerFits, M

\* init_if_empty keeps the size of a position on a market that is not released.
LEMMA InitKeepsSize ==
    ASSUME NEW L, NEW O, NEW a \in Account, NEW m \in Market, LedgerFits(L, O),
           L.market[m].status # Ledger!Expired
    PROVE  /\ Ledger!InitIfEmpty(L, a, m) \in Count!RawPositions
           /\ Ledger!InitIfEmpty(L, a, m).size = SizeIn(L, a, m)
           /\ Ledger!InitIfEmpty(L, a, m).public = 1
<1> DEFINE p == Ledger!InitIfEmpty(L, a, m)
<1>1. L.market[m].public = 1
  BY DEF LedgerFits, PositionsFit
<1>2. p = Count!InitIfEmpty(L, a, m)
  BY DEF Ledger!InitIfEmpty, Ledger!EmptyPosition, Count!InitIfEmpty,
         Count!EmptyPosition, Ledger!Cross, Count!Cross, Ledger!NilPublic, Count!NilPublic
<1>3. L \in Count!RawLedgers
  BY DEF LedgerFits, Count!Counted
<1>4. p \in Count!RawPositions /\ p.public = 1
  BY <1>1, <1>2, <1>3, InstancesAreSound, Count!InitType
<1>5. p.size = SizeIn(L, a, m)
  <2>1. CASE L.position[<<a, m>>].public = L.market[m].public
    BY <2>1 DEF Ledger!InitIfEmpty, SizeIn
  <2>2. CASE L.position[<<a, m>>].public # L.market[m].public
    <3>1. p.size = 0
      BY <2>2 DEF Ledger!InitIfEmpty, Ledger!EmptyPosition
    <3>2. SizeIn(L, a, m) = 0
      BY <1>1, <2>2 DEF LedgerFits, PositionsFit, SizeIn
    <3> QED BY <3>1, <3>2
  <2> QED BY <2>1, <2>2
<1> QED BY <1>4, <1>5

\* A trade moves the position of an account on an open market and nothing that is counted.
LEMMA MoveFits ==
    ASSUME NEW L, NEW O, NEW a \in Account, NEW m \in Perps, NEW d \in Int,
           LedgerFits(L, O), L.market[m].status # Ledger!Expired
    PROVE  LET M == Ledger!Move(L, a, m, d)
           IN  /\ LedgerFits(M, O)
               /\ SameMarkets(L, M)
               /\ SizeIn(L, a, m) \in Int
               /\ \A b \in Account, n \in Market :
                     SizeIn(M, b, n) = IF <<b, n>> = <<a, m>> THEN SizeIn(L, a, m) + d
                                       ELSE SizeIn(L, b, n)
<1> DEFINE M == Ledger!Move(L, a, m, d)
           p == Ledger!InitIfEmpty(L, a, m)
           q == [p EXCEPT !.size = @ + d]
           am == <<a, m>>
<1>1. Count!Counted(M, O)
  BY SameMove, InstancesAreSound, Count!MoveKeeps DEF LedgerFits
<1>2. m \in Market /\ am \in Account \X Market
  BY Constants
<1>3. /\ L = [market |-> L.market, account |-> L.account, position |-> L.position]
      /\ L.market \in [Market -> Count!RawMarkets]
      /\ L.position \in [Account \X Market -> Count!RawPositions]
  BY LedgerShape DEF LedgerFits
<1>4. p \in Count!RawPositions /\ p.size = SizeIn(L, a, m) /\ p.public = 1
  BY <1>2, InitKeepsSize
<1>5. SameMarkets(L, M) /\ M.position = [L.position EXCEPT ![am] = q]
  BY <1>2, <1>3 DEF Ledger!Move, SameMarkets, Count!RawMarkets
<1>6. q.size = SizeIn(L, a, m) + d /\ q.public = 1 /\ SizeIn(L, a, m) \in Int
  BY <1>4 DEF Count!RawPositions
<1> HIDE DEF M, q
<1>7. ASSUME NEW b \in Account, NEW n \in Market
      PROVE  /\ SizeIn(M, b, n) = IF <<b, n>> = am THEN SizeIn(L, a, m) + d ELSE SizeIn(L, b, n)
             /\ M.position[<<b, n>>].size # 0 => M.position[<<b, n>>].public = 1
  <2>1. CASE <<b, n>> = am
    <3>1. M.position[<<b, n>>] = q
      BY <1>2, <1>3, <1>5, <2>1
    <3> QED BY <1>6, <2>1, <3>1 DEF SizeIn
  <2>2. CASE <<b, n>> # am
    <3>1. M.position[<<b, n>>] = L.position[<<b, n>>]
      BY <1>3, <1>5, <2>2
    <3> QED BY <2>2, <3>1 DEF SizeIn, LedgerFits, PositionsFit
  <2> QED BY <2>1, <2>2
<1>8. PositionsFit(M)
  BY <1>5, <1>7 DEF LedgerFits, PositionsFit, SameMarkets
<1>9. MarketsFit(M)
  <2> SUFFICES ASSUME NEW n \in Market PROVE MarketFits(M, n)
    BY DEF MarketsFit
  <2>1. CASE n = m
    <3>1. L \in Count!RawLedgers /\ M \in Count!RawLedgers
      BY <1>1 DEF M, LedgerFits, Count!Counted
    <3>2. \A b \in Account \ {a} : M.position[<<b, m>>].size = L.position[<<b, m>>].size
      BY <1>2, <1>7 DEF SizeIn
    <3>3. Count!Held(M, m) = Count!Held(L, m) + Count!Abs(SizeIn(M, a, m))
                                              - Count!Abs(SizeIn(L, a, m))
      BY <1>2, <3>1, <3>2, InstancesAreSound, Count!OneSizeChanges DEF SizeIn
    <3>4. SizeIn(M, a, m) = SizeIn(L, a, m) + d
      BY <1>2, <1>7
    <3>5. M.market[m].openInterest =
              L.market[m].openInterest + Ledger!Abs(SizeIn(L, a, m) + d)
                                       - Ledger!Abs(SizeIn(L, a, m))
      BY <1>2, <1>3, <1>4 DEF M, Ledger!Move, Count!RawMarkets
    <3>6. M.market[m].status # Ledger!Expired
      BY <1>2, <1>5 DEF SameMarkets
    <3> QED BY <1>2, <2>1, <3>3, <3>4, <3>5, <3>6, SameEmpty DEF LedgerFits, MarketsFit, MarketFits
  <2>2. CASE n # m
    <3>1. \A b \in Account : SizeIn(M, b, n) = SizeIn(L, b, n)
      BY <1>7, <2>2
    <3>2. M.market[n] = L.market[n]
      BY <1>3, <2>2 DEF M, Ledger!Move
    <3>3. M.market[n].status = Ledger!Expired =>
              M.market[n].orders = 0 /\ M.market[n].openInterest = 0
      BY <3>2 DEF LedgerFits, MarketsFit, MarketFits
    <3> QED BY <1>1, <3>1, <3>2, <3>3, MarketKept DEF M
  <2> QED BY <2>1, <2>2
<1> QED BY <1>1, <1>5, <1>6, <1>7, <1>8, <1>9 DEF LedgerFits, M

\* A market that closes, and may be released at once.
LEMMA CloseFits ==
    ASSUME NEW L, NEW O, NEW m \in Market, LedgerFits(L, O),
           L.market[m].status = Ledger!Active
    PROVE  LedgerFits(Ledger!Close(L, m), O)
<1> DEFINE M == Ledger!Close(L, m)
           K == [L EXCEPT !.market[m].status = Ledger!InSettlement]
<1>1. Count!Counted(M, O)
  BY SameRelease, InstancesAreSound, Count!CloseKeeps DEF LedgerFits
<1>2. /\ L = [market |-> L.market, account |-> L.account, position |-> L.position]
      /\ L.market \in [Market -> Count!RawMarkets]
  BY LedgerShape DEF LedgerFits
<1>3. L.market[m].public = 1
  BY DEF LedgerFits, PositionsFit, Ledger!Active, Ledger!Expired
<1>4. /\ K = [market |-> K.market, account |-> K.account, position |-> K.position]
      /\ K.position = L.position /\ K.market[m].public = 1 /\ DOMAIN K.market = Market
      /\ \A n \in Market : n # m => K.market[n] = L.market[n]
  BY <1>2, <1>3 DEF Count!RawMarkets
<1>5. M = Ledger!Release(K, m)
  BY DEF Ledger!Close
<1>6. M = K \/ M = [K EXCEPT !.market[m] = Ledger!EmptyMarket]
  BY <1>5 DEF Ledger!Release
<1> HIDE DEF M, K
<1>7. /\ M.position = L.position
      /\ M.market[m].status = Ledger!Expired \/ M.market[m].public = 1
      /\ \A n \in Market : n # m => M.market[n] = L.market[n]
  BY <1>2, <1>4, <1>6 DEF Ledger!EmptyMarket
<1>8. PositionsFit(M)
  BY <1>7 DEF LedgerFits, PositionsFit
<1>9. MarketsFit(M)
  <2> SUFFICES ASSUME NEW n \in Market PROVE MarketFits(M, n)
    BY DEF MarketsFit
  <2>1. \A a \in Account : SizeIn(M, a, n) = SizeIn(L, a, n)
    BY <1>7 DEF SizeIn
  <2>2. /\ M.market[n].openInterest = L.market[n].openInterest
        /\ M.market[n].status = Ledger!Expired =>
              M.market[n].orders = 0 /\ M.market[n].openInterest = 0
    <3>1. CASE n # m
      BY <1>7, <3>1 DEF LedgerFits, MarketsFit, MarketFits
    <3>2. CASE n = m
      <4>1. /\ K.market[m].status = Ledger!InSettlement
            /\ K.market[m].openInterest = L.market[m].openInterest
        BY <1>2 DEF K, Count!RawMarkets
      <4>2. \/ M.market[m] = K.market[m]
            \/ K.market[m].openInterest = 0 /\ M.market[m] = Ledger!EmptyMarket
        BY <1>4, <1>5 DEF Ledger!Release
      <4> QED BY <3>2, <4>1, <4>2 DEF Ledger!EmptyMarket, Ledger!InSettlement, Ledger!Expired
    <3> QED BY <3>1, <3>2
  <2> QED BY <1>1, <2>1, <2>2, MarketKept DEF M
<1> QED BY <1>1, <1>8, <1>9 DEF LedgerFits, M

\* A position that is exited.
LEMMA ExitFits ==
    ASSUME NEW L, NEW O, NEW a \in Account, NEW m \in Perps, LedgerFits(L, O),
           L.position[<<a, m>>].orders = 0
    PROVE  LET K == [L EXCEPT !.market[m].openInterest =
                         @ - Ledger!Abs(L.position[<<a, m>>].size)]
           IN  LedgerFits([Ledger!Release(K, m) EXCEPT
                              !.position[<<a, m>>] = Ledger!EmptyPosition], O)
<1> DEFINE K == [L EXCEPT !.market[m].openInterest =
                     @ - Ledger!Abs(L.position[<<a, m>>].size)]
           N == Ledger!Release(K, m)
           M == [N EXCEPT !.position[<<a, m>>] = Ledger!EmptyPosition]
           am == <<a, m>>
<1>0. m \in Market /\ am \in Account \X Market
  BY Constants
<1>1. Count!Counted(M, O)
  <2>1. K = [L EXCEPT !.market[m].openInterest = @ - Count!Abs(L.position[<<a, m>>].size)]
    BY SameEmpty
  <2>2. M = [Count!Release(K, m) EXCEPT !.position[<<a, m>>] = Count!EmptyPosition]
    BY SameEmpty, SameRelease
  <2> HIDE DEF K, M
  <2> QED BY <2>1, <2>2, InstancesAreSound, Count!ExitKeeps DEF LedgerFits
<1>2. /\ L = [market |-> L.market, account |-> L.account, position |-> L.position]
      /\ L.market \in [Market -> Count!RawMarkets]
      /\ L.position \in [Account \X Market -> Count!RawPositions]
  BY LedgerShape DEF LedgerFits
<1>3. /\ K = [market |-> K.market, account |-> K.account, position |-> K.position]
      /\ K.position = L.position /\ SameMarkets(L, K) /\ DOMAIN K.market = Market
  <2> DEFINE w == [L.market[m] EXCEPT !.openInterest =
                       @ - Ledger!Abs(L.position[<<a, m>>].size)]
  <2>1. w.status = L.market[m].status /\ w.public = L.market[m].public
    BY <1>0, <1>2 DEF Count!RawMarkets
  <2>2. K = [L EXCEPT !.market[m] = w]
    OBVIOUS
  <2> HIDE DEF w, K
  <2> QED BY <1>0, <1>2, <2>1, <2>2 DEF SameMarkets
<1>4. N = K \/ N = [K EXCEPT !.market[m] = Ledger!EmptyMarket]
  BY DEF Ledger!Release
<1> HIDE DEF K, N
<1>5. /\ M.position = [L.position EXCEPT ![am] = Ledger!EmptyPosition]
      /\ \A n \in Market : \/ M.market[n].status = Ledger!Expired
                           \/ M.market[n] = K.market[n]
  BY <1>0, <1>3, <1>4 DEF Ledger!EmptyMarket
<1>6. Ledger!EmptyPosition.size = 0
  BY DEF Ledger!EmptyPosition
<1> HIDE DEF M
<1>7. ASSUME NEW b \in Account, NEW n \in Market
      PROVE  M.position[<<b, n>>].size # 0 => M.position[<<b, n>>].public = 1
  <2>1. CASE <<b, n>> = am
    BY <1>0, <1>2, <1>5, <1>6, <2>1
  <2>2. CASE <<b, n>> # am
    BY <1>2, <1>5, <2>2 DEF LedgerFits, PositionsFit
  <2> QED BY <2>1, <2>2
<1>8. PositionsFit(M)
  BY <1>3, <1>5, <1>7 DEF LedgerFits, PositionsFit, SameMarkets
<1>9. MarketsFit(M)
  <2>0. Count!Counted(M, O)
    BY <1>1 DEF M, N, K
  <2>1. L \in Count!RawLedgers /\ M \in Count!RawLedgers
    BY <2>0 DEF LedgerFits, Count!Counted
  <2>2. /\ \A n \in Market : n # m => M.market[n] = L.market[n]
        /\ \/ M.market[m] = K.market[m]
           \/ K.market[m].openInterest = 0 /\ M.market[m] = Ledger!EmptyMarket
    <3>1. \A n \in Market : n # m => K.market[n] = L.market[n]
      BY <1>2 DEF K
    <3>2. \/ N.market = K.market
          \/ /\ K.market[m].openInterest = 0
             /\ N.market = [K.market EXCEPT ![m] = Ledger!EmptyMarket]
      BY <1>3 DEF N, Ledger!Release
    <3>3. M.market = N.market
      BY <1>3, <1>4 DEF M
    <3> QED BY <1>0, <1>3, <3>1, <3>2, <3>3
  <2>3. \A b \in Account, n \in Market :
            <<b, n>> # am => SizeIn(M, b, n) = SizeIn(L, b, n)
    BY <1>2, <1>5 DEF SizeIn
  <2>4. SizeIn(M, a, m) = 0
    BY <1>0, <1>2, <1>5, <1>6 DEF SizeIn
  <2>5. MarketFits(L, m)
    BY <1>0 DEF LedgerFits, MarketsFit
  <2> SUFFICES ASSUME NEW n \in Market PROVE MarketFits(M, n)
    BY DEF MarketsFit
  <2>6. CASE n # m
    <3>1. \A b \in Account : SizeIn(M, b, n) = SizeIn(L, b, n)
      BY <2>3, <2>6
    <3>2. M.market[n] = L.market[n] /\ MarketFits(L, n)
      BY <2>2, <2>6 DEF LedgerFits, MarketsFit
    <3> QED BY <2>0, <3>1, <3>2, MarketKept DEF MarketFits
  <2>7. CASE n = m
    <3>1. Count!Held(M, m) = Count!Held(L, m) + Count!Abs(SizeIn(M, a, m))
                                              - Count!Abs(SizeIn(L, a, m))
      <4>1. \A b \in Account \ {a} : M.position[<<b, m>>].size = L.position[<<b, m>>].size
        BY <1>0, <2>3 DEF SizeIn
      <4> QED BY <1>0, <2>1, <4>1, InstancesAreSound, Count!OneSizeChanges DEF SizeIn
    <3>2. /\ K.market[m].openInterest = L.market[m].openInterest - Ledger!Abs(SizeIn(L, a, m))
          /\ K.market[m].status = L.market[m].status
          /\ K.market[m].orders = L.market[m].orders
      BY <1>0, <1>2 DEF K, Count!RawMarkets, SizeIn
    <3>3. Count!Abs(SizeIn(M, a, m)) = 0
      BY <2>4 DEF Count!Abs
    <3>4. /\ L.market[m].openInterest \in Int /\ Count!Held(L, m) \in Int
          /\ SizeIn(L, a, m) \in Int /\ Ledger!Abs(SizeIn(L, a, m)) = Count!Abs(SizeIn(L, a, m))
      BY <1>0, <1>2, <2>5, SameEmpty DEF Count!RawMarkets, Count!RawPositions, SizeIn, MarketFits
    <3>5. Count!Abs(SizeIn(L, a, m)) \in Int
      BY <3>4 DEF Count!Abs
    <3>6. K.market[m].openInterest = Count!Held(M, m)
      BY <2>5, <3>1, <3>2, <3>3, <3>4, <3>5 DEF MarketFits
    <3>7. CASE M.market[m] = Ledger!EmptyMarket /\ K.market[m].openInterest = 0
      BY <2>7, <3>6, <3>7 DEF MarketFits, Ledger!EmptyMarket
    <3>8. CASE M.market[m] = K.market[m] /\ L.market[m].status # Ledger!Expired
      BY <2>7, <3>2, <3>6, <3>8 DEF MarketFits
    <3>9. CASE M.market[m] = K.market[m] /\ L.market[m].status = Ledger!Expired
      <4>1. Count!Held(L, m) = 0
        BY <2>5, <3>9 DEF MarketFits
      <4>2. SizeIn(L, a, m) = 0
        BY <1>0, <2>1, <4>1, InstancesAreSound, Count!NothingHeld DEF SizeIn
      <4>3. K.market[m].openInterest = 0 /\ K.market[m].orders = 0
        BY <2>5, <3>2, <3>9, <4>2 DEF MarketFits, Ledger!Abs
      <4> QED BY <2>7, <3>6, <3>9, <4>3 DEF MarketFits
    <3> QED BY <2>2, <3>7, <3>8, <3>9
  <2> QED BY <2>6, <2>7
<1> QED BY <1>1, <1>8, <1>9 DEF LedgerFits, M, N, K

-----------------------------------------------------------------------------
(* What the transactions do to the leaves of the book.                                  *)

\* What is known of an account order.
LEMMA OrderKnown ==
    ASSUME NEW A, NEW B, NEW O, NoncesFit(A, B), OrdersFit(A, B, O),
           NEW i \in Index, O[i] # NoOrder
    PROVE  /\ OrderFits(A, B, i, O[i]) /\ O[i] \in OrderSet
           /\ O[i].market = i[1] /\ O[i].market \in Market
           /\ O[i].rem \in Nat /\ O[i].initial \in Nat
           /\ O[i].isAsk \in BOOLEAN /\ O[i].nonce \in Int
           /\ IF O[i].trigger = "na" THEN O[i].nonce >= 1 ELSE O[i].nonce = 0
<1>1. OrderFits(A, B, i, O[i]) /\ O[i] \in OrderSet /\ O[i].market = i[1]
  BY DEF OrdersFit, OrderFits
<1>2. /\ O[i].market \in Market /\ O[i].rem \in Nat /\ O[i].initial \in Nat
      /\ O[i].isAsk \in BOOLEAN /\ O[i].nonce \in 0..MaxNonce
  BY <1>1 DEF OrderSet
<1>3. A[O[i].market] \in Int /\ B[O[i].market] \in Int /\ B[O[i].market] >= 1
  BY <1>2, Constants DEF NoncesFit
<1>4. IF O[i].trigger = "na" THEN O[i].nonce >= 1 ELSE O[i].nonce = 0
  BY <1>1, <1>2, <1>3, Constants DEF OrderFits, OnSide, NilNonce
<1> QED BY <1>1, <1>2, <1>4, Constants

\* The leaves of the other orders.
LeavesBut(O, i) ==
    {Leaf(O[k]) : k \in {j \in Index : IsResting(O, j) /\ O[j].rem # 0 /\ j # i}}

\* Without the leaf of an order the book has those of the others.
LEMMA BookWithout ==
    ASSUME NEW A, NEW B, NEW O, NEW b, NoncesFit(A, B), OrdersFit(A, B, O),
           RestingApart(O), BookFits(O, b), NEW i \in Index, O[i] # NoOrder
    PROVE  /\ b \ At(b, O[i]) =
                  LeavesBut(O, i)
           /\ O[i].trigger # "na" => b \ At(b, O[i]) = b
<1> USE DEF LeavesBut
<1> DEFINE S == {j \in Index : IsResting(O, j) /\ O[j].rem # 0}
           T == {j \in Index : IsResting(O, j) /\ O[j].rem # 0 /\ j # i}
           o == O[i]
<1>1. b = {Leaf(O[k]) : k \in S}
  BY DEF BookFits
<1>2. ASSUME NEW k \in S
      PROVE  Leaf(O[k]) \in At(b, o) <=> k = i
  <2>1. k \in Index /\ O[k] # NoOrder /\ O[k].trigger = "na" /\ Leaf(O[k]) \in b
    BY <1>1 DEF IsResting
  <2>2. O[k].nonce >= 1 /\ O[k].nonce \in Int
    BY <2>1, OrderKnown
  <2>3. CASE k = i
    BY <2>1, <2>3 DEF At, Leaf
  <2>4. CASE k # i
    <3>1. ASSUME O[k].market = o.market, O[k].nonce = o.nonce PROVE FALSE
      <4>1. o.trigger = "na"
        BY <2>2, <3>1, OrderKnown
      <4> QED BY <2>1, <2>4, <3>1, <4>1 DEF RestingApart, IsResting
    <3> QED BY <2>4, <3>1 DEF At, Leaf
  <2> QED BY <2>3, <2>4
<1>3. b \ At(b, o) = {Leaf(O[k]) : k \in T}
  BY <1>1, <1>2
<1>4. o.trigger # "na" => T = S
  BY DEF IsResting
<1> QED BY <1>1, <1>3, <1>4

\* The leaf of an order that is changed, or joins them.
LEMMA BookWith ==
    ASSUME NEW O, NEW e, NEW i \in Index, NEW o,
           O = [j \in Index |-> O[j]], o # NoOrder,
           e = LeavesBut(O, i),
           NEW f, f = IF o.trigger = "na" /\ o.rem # 0 THEN e \union {Leaf(o)} ELSE e
    PROVE  BookFits([O EXCEPT ![i] = o], f)
<1> DEFINE P == [O EXCEPT ![i] = o]
           S == {j \in Index : IsResting(P, j) /\ P[j].rem # 0}
           T == {j \in Index : IsResting(O, j) /\ O[j].rem # 0 /\ j # i}
<1>1. P[i] = o /\ \A j \in Index : j # i => P[j] = O[j]
  OBVIOUS
<1> HIDE DEF P
<1>2. S = IF o.trigger = "na" /\ o.rem # 0 THEN T \union {i} ELSE T
  BY <1>1 DEF IsResting
<1>3. \A k \in T : Leaf(P[k]) = Leaf(O[k])
  BY <1>1
<1>4. Leaf(P[i]) = Leaf(o)
  BY <1>1
<1> DEFINE LP == {Leaf(P[k]) : k \in S}
<1>5. LP = f
  <2>0. e = {Leaf(O[k]) : k \in T}
    BY DEF LeavesBut
  <2> HIDE DEF S, T
  <2>1. CASE o.trigger = "na" /\ o.rem # 0
    BY <1>2, <1>3, <1>4, <2>0, <2>1
  <2>2. CASE ~(o.trigger = "na" /\ o.rem # 0)
    BY <1>2, <1>3, <2>0, <2>2
  <2> QED BY <2>1, <2>2
<1> QED BY <1>5 DEF BookFits, P

\* An order that leaves takes its leaf with it.
LEMMA BookDropped ==
    ASSUME NEW O, NEW e, NEW i \in Index, O = [j \in Index |-> O[j]],
           e = LeavesBut(O, i)
    PROVE  BookFits([O EXCEPT ![i] = NoOrder], e)
<1> DEFINE P == [O EXCEPT ![i] = NoOrder]
           S == {j \in Index : IsResting(P, j) /\ P[j].rem # 0}
           T == {j \in Index : IsResting(O, j) /\ O[j].rem # 0 /\ j # i}
<1>1. P[i] = NoOrder /\ \A j \in Index : j # i => P[j] = O[j]
  OBVIOUS
<1> HIDE DEF P
<1>2. S = T
  BY <1>1 DEF IsResting
<1>3. \A k \in T : Leaf(P[k]) = Leaf(O[k])
  BY <1>1
<1> QED BY <1>2, <1>3 DEF BookFits, P, LeavesBut

\* The leaf of an order that rests.
LEMMA LeafShown ==
    ASSUME NEW o
    PROVE  /\ Leaf(o).market = o.market /\ Leaf(o).price = o.price /\ Leaf(o).nonce = o.nonce
           /\ Leaf(o).isAsk = o.isAsk
BY DEF Leaf

\* Every leaf is that of an order.
LEMMA LeafHasOrder ==
    ASSUME NEW O, NEW b, BookFits(O, b), NEW l \in b
    PROVE  \E k \in Index : IsResting(O, k) /\ O[k].rem # 0 /\ l = Leaf(O[k])
BY DEF BookFits

\* An order that is removed: its leaf goes with it, one that waits has none.
LEMMA WorldDrop ==
    ASSUME NEW L, NEW O, NEW b, NEW A, NEW B, World(L, O, b, A, B), NEW i \in Index,
           O[i] # NoOrder
    PROVE  /\ World(Ledger!Decrement(L, O[i]), [O EXCEPT ![i] = NoOrder], b \ At(b, O[i]), A, B)
           /\ SameSizes(L, Ledger!Decrement(L, O[i]))
           /\ O[i].trigger # "na" => b \ At(b, O[i]) = b
<1> DEFINE P == [O EXCEPT ![i] = NoOrder]
           e == b \ At(b, O[i])
<1>1. /\ NoncesFit(A, B) /\ OrdersFit(A, B, O) /\ RestingApart(O) /\ BookFits(O, b)
      /\ NotCrossed(b) /\ LedgerFits(L, O) /\ O = [j \in Index |-> O[j]]
  BY DEF World, OrdersFit
<1>2. /\ e = LeavesBut(O, i)
      /\ O[i].trigger # "na" => e = b
  BY <1>1, BookWithout
<1>3. BookFits(P, e)
  BY <1>1, <1>2, BookDropped
<1>4. NotCrossed(e)
  BY <1>1 DEF NotCrossed
<1>5. LedgerFits(Ledger!Decrement(L, O[i]), P) /\ SameSizes(L, Ledger!Decrement(L, O[i]))
  BY <1>1, OrderKnown, DropFits
<1>6. P[i] = NoOrder /\ P = [j \in Index |-> P[j]] /\ \A j \in Index : j # i => P[j] = O[j]
  BY <1>1
<1> HIDE DEF P, e
<1>7. OrdersFit(A, B, P)
  BY <1>1, <1>6 DEF OrdersFit
<1>8. RestingApart(P)
  <2>1. \A k \in Index : IsResting(P, k) => k # i /\ IsResting(O, k) /\ P[k] = O[k]
    BY <1>6 DEF IsResting
  <2> QED BY <1>1, <2>1 DEF RestingApart
<1>9. World(Ledger!Decrement(L, O[i]), P, e, A, B)
  BY <1>1, <1>3, <1>4, <1>5, <1>7, <1>8 DEF World
<1> QED BY <1>2, <1>5, <1>9 DEF P, e

\* No leaf of the other side is at the price of an order or better.
Fits(b, o) ==
    \A l \in b : l.market = o.market /\ l.isAsk # o.isAsk =>
        IF o.isAsk THEN l.price < o.price ELSE o.price < l.price

\* An order that is stored: one that rests is on the book unless it is filled.
LEMMA WorldStore ==
    ASSUME NEW L, NEW O, NEW b, NEW A, NEW B, World(L, O, b, A, B), NEW i \in Index,
           NEW o, OrderFits(A, B, i, o), O[i] = NoOrder,
           L.market[o.market].status # Ledger!Expired,
           o.trigger = "na" => TakerApart(O, o) /\ (o.rem # 0 => Fits(b, o))
    PROVE  /\ World(Ledger!Increment(L, o), [O EXCEPT ![i] = o],
                    IF o.trigger = "na" THEN Resting(b, o) ELSE b, A, B)
           /\ SameSizes(L, Ledger!Increment(L, o))
<1> DEFINE P == [O EXCEPT ![i] = o]
           e == IF o.trigger = "na" THEN Resting(b, o) ELSE b
<1>1. /\ NoncesFit(A, B) /\ OrdersFit(A, B, O) /\ RestingApart(O) /\ BookFits(O, b)
      /\ NotCrossed(b) /\ LedgerFits(L, O) /\ O = [j \in Index |-> O[j]]
  BY DEF World, OrdersFit
<1>2. o \in OrderSet /\ o # NoOrder /\ o.isAsk \in BOOLEAN
  BY OrderIsCounted DEF OrderFits, OrderSet
<1>3. LedgerFits(Ledger!Increment(L, o), P) /\ SameSizes(L, Ledger!Increment(L, o))
  BY <1>1, <1>2, StoreFits
<1>4. b = LeavesBut(O, i)
  BY <1>1 DEF BookFits, IsResting, LeavesBut
<1>5. o.trigger = "na" => At(b, o) = {}
  <2> SUFFICES ASSUME o.trigger = "na", NEW l \in At(b, o) PROVE FALSE
    OBVIOUS
  <2>1. l \in b /\ l.market = o.market /\ l.nonce = o.nonce
    BY DEF At
  <2>2. PICK k \in Index : IsResting(O, k) /\ l = Leaf(O[k])
    BY <1>1, <2>1, LeafHasOrder
  <2> QED BY <2>1, <2>2, LeafShown DEF TakerApart
<1>6. e = IF o.trigger = "na" /\ o.rem # 0 THEN b \union {Leaf(o)} ELSE b
  BY <1>5 DEF Resting
<1>7. BookFits(P, e)
  BY <1>1, <1>2, <1>4, <1>6, BookWith
<1>8. NotCrossed(e)
  <2>1. CASE o.trigger = "na" /\ o.rem # 0
    <3>1. Fits(b, o) /\ e = b \union {Leaf(o)}
      BY <1>6, <2>1
    <3> SUFFICES ASSUME NEW k \in e, NEW l \in e,
                        k.market = l.market, k.isAsk, ~l.isAsk
                 PROVE  k.price > l.price
      BY DEF NotCrossed
    <3>2. CASE k \in b /\ l \in b
      BY <1>1, <3>2 DEF NotCrossed
    <3>3. CASE k = Leaf(o) /\ l \in b
      BY <1>2, <3>1, <3>3, LeafShown DEF Fits
    <3>4. CASE k \in b /\ l = Leaf(o)
      BY <1>2, <3>1, <3>4, LeafShown DEF Fits
    <3>5. CASE k = Leaf(o) /\ l = Leaf(o)
      BY <3>5
    <3> QED BY <3>1, <3>2, <3>3, <3>4, <3>5
  <2>2. CASE ~(o.trigger = "na" /\ o.rem # 0)
    BY <1>1, <1>6, <2>2
  <2> QED BY <2>1, <2>2
<1>9. P[i] = o /\ P = [j \in Index |-> P[j]] /\ \A j \in Index : j # i => P[j] = O[j]
  BY <1>1
<1> HIDE DEF P, e
<1>10. OrdersFit(A, B, P)
  BY <1>1, <1>9 DEF OrdersFit
<1>11. RestingApart(P)
  <2> SUFFICES ASSUME NEW j \in Index, NEW k \in Index, IsResting(P, j), IsResting(P, k),
                      P[j].market = P[k].market, P[j].nonce = P[k].nonce
               PROVE  j = k
    BY DEF RestingApart
  <2>1. CASE j # i /\ k # i
    BY <1>1, <1>9, <2>1 DEF RestingApart, IsResting
  <2>2. CASE j = i /\ k # i
    BY <1>9, <2>2 DEF TakerApart, IsResting
  <2>3. CASE j # i /\ k = i
    BY <1>9, <2>3 DEF TakerApart, IsResting
  <2> QED BY <2>1, <2>2, <2>3
<1>12. World(Ledger!Increment(L, o), P, e, A, B)
  BY <1>1, <1>3, <1>7, <1>8, <1>10, <1>11 DEF World
<1> QED BY <1>3, <1>12 DEF P, e

\* An order on the book that is partly filled keeps its place there.
LEMMA WorldShrink ==
    ASSUME NEW L, NEW O, NEW b, NEW A, NEW B, World(L, O, b, A, B), NEW i \in Index,
           IsResting(O, i), NEW x \in Nat, x <= O[i].rem
    PROVE  LET o == [O[i] EXCEPT !.rem = x]
           IN  World(L, [O EXCEPT ![i] = o], Resting(b, o), A, B) /\ OrderFits(A, B, i, o)
<1> DEFINE o == [O[i] EXCEPT !.rem = x]
           P == [O EXCEPT ![i] = o]
           e == Resting(b, o)
           f == b \ At(b, O[i])
<1>1. /\ NoncesFit(A, B) /\ OrdersFit(A, B, O) /\ RestingApart(O) /\ BookFits(O, b)
      /\ NotCrossed(b) /\ LedgerFits(L, O) /\ O = [j \in Index |-> O[j]]
  BY DEF World, OrdersFit
<1>2. /\ OrderFits(A, B, i, O[i]) /\ O[i] \in OrderSet /\ O[i].trigger = "na" /\ O[i] # NoOrder
      /\ O[i].rem \in Nat /\ O[i].initial \in Nat /\ O[i].rem <= O[i].initial
  BY <1>1, OrderKnown DEF IsResting, OrderFits
<1>3. /\ o \in OrderSet /\ o.market = O[i].market /\ o.isAsk = O[i].isAsk
      /\ o.nonce = O[i].nonce /\ o.price = O[i].price /\ o.trigger = "na" /\ o.rem = x
      /\ o.initial = O[i].initial /\ o.children = O[i].children /\ o.owner = O[i].owner
      /\ o.reduceOnly = O[i].reduceOnly /\ o.mode = O[i].mode /\ o.scope = O[i].scope
  BY <1>2 DEF OrderSet
<1> HIDE DEF o
<1>4. OrderFits(A, B, i, o)
  <2>1. OnSide(A, B, o)
    BY <1>2, <1>3 DEF OrderFits, OnSide
  <2>2. SparesMasters(o)
    BY <1>2, <1>3, StillSpares DEF OrderFits
  <2> QED BY <1>2, <1>3, <2>1, <2>2 DEF OrderFits
<1>5. o # NoOrder
  BY <1>3, OrderIsCounted
<1>6. LedgerFits(L, P)
  BY <1>1, <1>2, <1>3, ChangeFits DEF Ledger!IsTied
<1>7. f = LeavesBut(O, i)
  BY <1>1, <1>2, BookWithout
<1>8. e = IF o.trigger = "na" /\ o.rem # 0 THEN f \union {Leaf(o)} ELSE f
  BY <1>3 DEF Resting, At
<1>9. BookFits(P, e)
  BY <1>1, <1>5, <1>7, <1>8, BookWith
<1>10. NotCrossed(e)
  <2>1. CASE x # 0
    <3>1. O[i].rem # 0 /\ Leaf(O[i]) \in b
      BY <1>1, <1>2, <2>1 DEF BookFits, IsResting
    <3>2. /\ Leaf(o).market = Leaf(O[i]).market /\ Leaf(o).price = Leaf(O[i]).price
          /\ Leaf(o).isAsk = Leaf(O[i]).isAsk
      BY <1>3, LeafShown
    <3>3. \A l \in e : \E k \in b : k.market = l.market /\ k.price = l.price /\ k.isAsk = l.isAsk
      BY <1>8, <3>1, <3>2
    <3> QED BY <1>1, <3>3 DEF NotCrossed
  <2>2. CASE x = 0
    BY <1>1, <1>3, <1>8, <2>2 DEF NotCrossed
  <2> QED BY <2>1, <2>2
<1>11. P[i] = o /\ P = [j \in Index |-> P[j]] /\ \A j \in Index : j # i => P[j] = O[j]
  BY <1>1
<1> HIDE DEF P, e, f
<1>12. OrdersFit(A, B, P)
  BY <1>1, <1>4, <1>11 DEF OrdersFit
<1>13. RestingApart(P)
  <2>1. \A k \in Index : /\ IsResting(P, k) <=> IsResting(O, k)
                         /\ IsResting(O, k) => /\ P[k].market = O[k].market
                                               /\ P[k].nonce = O[k].nonce
    BY <1>2, <1>3, <1>5, <1>11 DEF IsResting
  <2> QED BY <1>1, <2>1 DEF RestingApart
<1>14. World(L, P, e, A, B)
  BY <1>1, <1>6, <1>9, <1>10, <1>12, <1>13 DEF World
<1> QED BY <1>4, <1>14 DEF P, e, o

\* An order that waits is changed where it is, and waits on.
LEMMA WorldWait ==
    ASSUME NEW L, NEW O, NEW b, NEW A, NEW B, World(L, O, b, A, B), NEW i \in Index,
           O[i] # NoOrder, O[i].trigger # "na", NEW o, OrderFits(A, B, i, o),
           o.trigger # "na", NEW M, LedgerFits(M, [O EXCEPT ![i] = o])
    PROVE  World(M, [O EXCEPT ![i] = o], b, A, B)
<1> DEFINE P == [O EXCEPT ![i] = o]
<1>1. /\ NoncesFit(A, B) /\ OrdersFit(A, B, O) /\ RestingApart(O) /\ BookFits(O, b)
      /\ NotCrossed(b) /\ O = [j \in Index |-> O[j]]
  BY DEF World, OrdersFit
<1>2. o # NoOrder
  BY OrderIsCounted DEF OrderFits
<1>3. b \ At(b, O[i]) = b /\ b \ At(b, O[i]) = LeavesBut(O, i)
  BY <1>1, BookWithout
<1>4. b = LeavesBut(O, i)
  BY <1>3
<1>5. BookFits(P, b)
  BY <1>1, <1>2, <1>4, BookWith
<1>6. P[i] = o /\ P = [j \in Index |-> P[j]] /\ \A j \in Index : j # i => P[j] = O[j]
  BY <1>1
<1> HIDE DEF P
<1>7. OrdersFit(A, B, P)
  BY <1>1, <1>6 DEF OrdersFit
<1>8. RestingApart(P)
  <2>1. \A k \in Index : IsResting(P, k) => k # i /\ IsResting(O, k) /\ P[k] = O[k]
    BY <1>6 DEF IsResting
  <2> QED BY <1>1, <2>1 DEF RestingApart
<1> QED BY <1>1, <1>5, <1>7, <1>8 DEF World, P

\* A market that is drained is released under the same leaves.
LEMMA WorldRelease ==
    ASSUME NEW L, NEW O, NEW b, NEW A, NEW B, World(L, O, b, A, B), NEW m \in Market
    PROVE  World(Ledger!Release(L, m), O, b, A, B)
BY ReleaseFits DEF World

\* As more nonces are given out, what fitted fits.
Later(A, B, C, D) ==
    NoncesFit(C, D) /\ \A m \in Market : A[m] <= C[m] /\ D[m] <= B[m]

LEMMA FitsLater ==
    ASSUME NEW A, NEW B, NEW C, NEW D, NoncesFit(A, B), Later(A, B, C, D),
           NEW i, NEW o, OrderFits(A, B, i, o)
    PROVE  OrderFits(C, D, i, o)
<1>1. /\ i \in Index /\ i[1] \in Market /\ i[2] \in Int /\ o \in OrderSet /\ o.market = i[1]
      /\ o.nonce \in Int /\ GivenOut(A, B, i)
  BY Constants DEF OrderFits, GivenOut, Index, OrderSet
<1>2. /\ A[i[1]] \in Int /\ B[i[1]] \in Int /\ C[i[1]] \in Int /\ D[i[1]] \in Int
      /\ A[i[1]] <= C[i[1]] /\ D[i[1]] <= B[i[1]]
  BY <1>1 DEF NoncesFit, Later
<1>3. GivenOut(C, D, i)
  BY <1>1, <1>2 DEF GivenOut
<1>4. OnSide(A, B, o) => OnSide(C, D, o)
  BY <1>1, <1>2, Constants DEF OnSide
<1> QED BY <1>3, <1>4 DEF OrderFits

LEMMA WorldLater ==
    ASSUME NEW L, NEW O, NEW b, NEW A, NEW B, World(L, O, b, A, B), NEW C, NEW D,
           Later(A, B, C, D)
    PROVE  World(L, O, b, C, D)
<1>1. NoncesFit(A, B) /\ OrdersFit(A, B, O) /\ NoncesFit(C, D)
  BY DEF World, Later
<1>2. OrdersFit(C, D, O)
  BY <1>1, FitsLater DEF OrdersFit
<1> QED BY <1>1, <1>2 DEF World

-----------------------------------------------------------------------------
(* What the transactions do to the stack.                                               *)

\* The circuit's stack is the one its theorems are about.
LEMMA SameStack ==
    ASSUME NEW r, NEW new, NEW n, NEW max, NEW c
    PROVE  /\ Stack!PushInstructions(r, new, n, max) = Shift!PushInstructions(r, new, n, max)
           /\ Stack!PushAllowed(c, new, n, max) = Shift!PushAllowed(c, new, n, max)
           /\ Stack!PopFront(r) = Shift!PopFront(r)
           /\ Stack!NoneNew = [j \in 0..7 |-> Execute]
           /\ Shift!Slots = 0..8 /\ Shift!NewSlots = 0..7
BY DEF Stack!PushInstructions, Shift!PushInstructions, Stack!PushAllowed, Shift!PushAllowed,
       Stack!PopFront, Shift!PopFront, Stack!NoneNew, Stack!ShiftRight, Shift!ShiftRight,
       Stack!Compact, Shift!Compact, Stack!Placed, Shift!Placed, Stack!Rank, Shift!Rank,
       Stack!Held, Shift!Held, Stack!Slots, Shift!Slots, Stack!NewSlots, Shift!NewSlots,
       Stack!Cardinality, Shift!Cardinality, Depth, NewMax

\* A stack without holes has a count and instructions below it.
LEMMA StackShape ==
    ASSUME NEW r, NEW c, Shift!NoHolesIn(r, c)
    PROVE  /\ c \in 0..9 /\ r = [i \in 0..8 |-> r[i]]
           /\ \A i \in 0..8 : r[i] # Execute <=> i < c
           /\ r[0] = Execute <=> c = 0
BY DEF Shift!NoHolesIn, Shift!Slots, Depth

\* Orders that stay as they are to the stack: none appears, and none that does not rest
\* yet takes a place or a nonce.
Thinner(O, P) ==
    \A i \in Index :
        /\ O[i] = NoOrder => P[i] = NoOrder
        /\ IsResting(P, i) => /\ IsResting(O, i) /\ P[i].market = O[i].market
                              /\ P[i].nonce = O[i].nonce

\* Markets that are open stay open.
StayOpen(L, M) ==
    \A m \in Market : L.market[m].status = Ledger!Active => M.market[m].status = Ledger!Active

LEMMA PiledThinner ==
    ASSUME NEW L, NEW O, NEW A, NEW B, NEW r, NEW c, Piled(L, O, A, B, r, c),
           NEW P, Thinner(O, P), NEW M, StayOpen(L, M)
    PROVE  Piled(M, P, A, B, r, c)
<1>1. \A j \in 0..c - 1 : r[j].kind = "insert_order" =>
          r[j].index \in Index /\ r[j].order.market \in Market
  BY DEF Piled, StackFits, InstructionFits, OrderFits, GivenOut, OrderSet
<1>2. PlacesApart(P, r, c)
  BY <1>1 DEF Piled, PlacesApart, Thinner
<1>3. TakersApart(P, r, c)
  <2>1. \A o : TakerApart(O, o) => TakerApart(P, o)
    BY DEF TakerApart, Thinner
  <2> QED BY <2>1 DEF Piled, TakersApart
<1>4. MarketsOpen(M, r, c)
  BY <1>1 DEF Piled, MarketsOpen, StayOpen
<1> QED BY <1>2, <1>3, <1>4 DEF Piled

LEMMA PiledLater ==
    ASSUME NEW L, NEW O, NEW A, NEW B, NEW r, NEW c, Piled(L, O, A, B, r, c),
           NoncesFit(A, B), NEW C, NEW D, Later(A, B, C, D)
    PROVE  Piled(L, O, C, D, r, c)
<1>1. \A x : InstructionFits(A, B, x) => InstructionFits(C, D, x)
  BY FitsLater DEF InstructionFits
<1> QED BY <1>1 DEF Piled, StackFits

\* Nothing is on an empty stack.
LEMMA PiledEmpty ==
    ASSUME NEW L, NEW O, NEW A, NEW B, NEW r, Shift!NoHolesIn(r, 0)
    PROVE  Piled(L, O, A, B, r, 0)
<1>1. 0..0 - 1 = {}
  OBVIOUS
<1> QED BY <1>1 DEF Piled, StackFits, PlacesApart, TakersApart, MarketsOpen

\* The rest of the stack without its top.
LEMMA PiledPop ==
    ASSUME NEW L, NEW O, NEW A, NEW B, NEW r, NEW c, Piled(L, O, A, B, r, c), c # 0
    PROVE  /\ Piled(L, O, A, B, Stack!PopFront(r), c - 1)
           /\ \A j \in 0..c - 2 : Stack!PopFront(r)[j] = r[j + 1]
<1> DEFINE q == Stack!PopFront(r)
<1>1. Shift!NoHolesIn(r, c) /\ q = Shift!PopFront(r) /\ c \in 0..9
  BY SameStack, StackShape DEF Piled, StackFits
<1>2. Shift!NoHolesIn(q, c - 1) /\ \A j \in 0..c - 2 : q[j] = r[j + 1]
  BY <1>1, InstancesAreSound, Shift!PopKeeps
<1> HIDE DEF q
<1>3. \A j \in 0..c - 1 - 1 : j + 1 \in 0..c - 1 /\ q[j] = r[j + 1]
  BY <1>1, <1>2
<1>4. StackFits(A, B, q, c - 1)
  <2>1. \A j \in 0..c - 1 - 1 : InstructionFits(A, B, q[j])
    BY <1>3 DEF Piled, StackFits
  <2>2. ASSUME NEW j \in 0..c - 1 - 1, q[j].kind = "insert_order", q[j].order.children # << >>
        PROVE  j = c - 1 - 1
    <3>1. j + 1 = c - 1
      BY <1>3, <2>2 DEF Piled, StackFits
    <3> QED BY <1>1, <3>1
  <2> QED BY <1>2, <2>1, <2>2 DEF StackFits
<1>5. PlacesApart(O, q, c - 1)
  <2>1. ASSUME NEW j \in 0..c - 1 - 1, NEW k \in 0..c - 1 - 1,
               q[j].kind = "insert_order", q[k].kind = "insert_order", q[j].index = q[k].index
        PROVE  j = k
    <3>1. j + 1 = k + 1
      BY <1>3, <2>1 DEF Piled, PlacesApart
    <3> QED BY <3>1
  <2> QED BY <1>3, <2>1 DEF Piled, PlacesApart
<1>6. TakersApart(O, q, c - 1)
  <2>1. ASSUME NEW j \in 0..c - 1 - 1, NEW k \in 0..c - 1 - 1, IsTaker(q[j]), IsTaker(q[k])
        PROVE  j = k
    <3>1. j + 1 = k + 1
      BY <1>3, <2>1 DEF Piled, TakersApart
    <3> QED BY <3>1
  <2> QED BY <1>3, <2>1 DEF Piled, TakersApart
<1>7. MarketsOpen(L, q, c - 1)
  BY <1>3 DEF Piled, MarketsOpen
<1> QED BY <1>2, <1>4, <1>5, <1>6, <1>7 DEF Piled, q

\* Instructions a transaction leaves, by slot: those that insert an order only on an empty
\* stack, each an order that is nowhere else, and one that has children in the last slot.
NewFits(L, O, A, B, new, c) ==
    /\ DOMAIN new \subseteq 0..7
    /\ \A j \in DOMAIN new :
          /\ InstructionFits(A, B, new[j])
          /\ new[j].kind = "insert_order" =>
                /\ c = 0 /\ O[new[j].index] = NoOrder
                /\ L.market[new[j].order.market].status = Ledger!Active
                /\ new[j].order.trigger = "na" => TakerApart(O, new[j].order)
                /\ new[j].order.children # << >> => \A k \in DOMAIN new : k <= j
    /\ \A j, k \in DOMAIN new :
          /\ new[j].kind = "insert_order" /\ new[k].kind = "insert_order"
          /\ \/ new[j].index = new[k].index
             \/ IsTaker(new[j]) /\ IsTaker(new[k])
          => j = k

\* Room for the shift: a full batch goes on an empty base only.
FitsWidth(r, new, max) ==
    /\ max \in {3, NewMax} /\ DOMAIN new \subseteq 0..max - 1
    /\ Cardinality(DOMAIN new) < max \/ r[0] = Execute

PutAt(r, c, new, n, place) ==
    /\ n \in 0..8 /\ Shift!NoHolesIn(regs', c + n) /\ count' = c + n
    /\ \A j \in 0..n - 1 : place[j] \in DOMAIN new /\ regs'[j] = new[place[j]]
    /\ \A j, k \in 0..n - 1 : j < k => place[j] < place[k]
    /\ \A j \in n..c + n - 1 : regs'[j] = r[j - n]
    /\ n = 0 => regs' = r
    /\ DOMAIN new # {} => n # 0

\* What is put on a stack takes the registers above what was there, slot by slot.
LEMMA PutPlaces ==
    ASSUME NEW r, NEW c, Shift!NoHolesIn(r, c), NEW new, NEW max, FitsWidth(r, new, max),
           \A j \in DOMAIN new : new[j] # Execute,
           Put(r, c, new, max)
    PROVE  \E n, place : PutAt(r, c, new, n, place)
<1> DEFINE all == Over(new, Stack!NoneNew)
           n == Cardinality(DOMAIN new)
           place == [j \in 0..n - 1 |-> Shift!SlotOf(all, max, j)]
<1>1. /\ Stack!PushAllowed(c, all, n, max)
      /\ regs' = IF n = 0 THEN r ELSE Stack!PushInstructions(r, all, n, max)
      /\ count' = c + n
  BY DEF Put
<1>2. max \in {3, NewMax} /\ DOMAIN new \subseteq 0..max - 1 /\ NewMax = 8
  BY Constants DEF FitsWidth
<1>3. \A j \in 0..7 : all[j] = IF j \in DOMAIN new THEN new[j] ELSE Execute
  <2> DEFINE none == Stack!NoneNew
  <2>1. none = [j \in 0..7 |-> Execute]
    BY SameStack
  <2> HIDE DEF none
  <2>2. all = Over(new, none)
    BY DEF none
  <2> QED BY <2>1, <2>2 DEF Over
<1>4. Shift!Held(all, max) = DOMAIN new
  <2> HIDE DEF all, n, place
  <2>1. Shift!NewSlots = 0..7
    BY SameStack
  <2>2. \A j \in 0..7 : j < max /\ all[j] # Execute <=> j \in DOMAIN new
    BY <1>2, <1>3
  <2>3. Shift!Held(all, max) = {j \in 0..7 : j < max /\ all[j] # Execute}
    BY <2>1 DEF Shift!Held
  <2> QED BY <1>2, <2>2, <2>3
<1>5. IsFiniteSet(DOMAIN new) /\ n \in 0..8
  <2>1. /\ Shift!IsFiniteSet(DOMAIN new)
        /\ Shift!Placed(all, max) \in 0..NewMax
    BY <1>4, InstancesAreSound, Shift!HeldFinite
  <2>2. Shift!IsFiniteSet(DOMAIN new) = IsFiniteSet(DOMAIN new)
    BY DEF Shift!IsFiniteSet, IsFiniteSet
  <2>3. Shift!Placed(all, max) = n
    BY <1>4 DEF Shift!Placed, Shift!Cardinality, Cardinality
  <2> QED BY <1>2, <2>1, <2>2, <2>3
<1>6. DOMAIN new # {} => n # 0
  BY <1>5, FS_EmptySet
<1>7. c \in 0..9 /\ r[0] = Execute <=> c = 0
  BY StackShape
<1>8. CASE n = 0
  <2>1. Shift!NoHolesIn(regs', c + n) /\ regs' = r
    BY <1>1, <1>8, <1>7, StackShape
  <2>2. 0..n - 1 = {} /\ \A j \in n..c + n - 1 : j - n = j
    BY <1>8, <1>7, StackShape
  <2> HIDE DEF place
  <2> QED BY <1>1, <1>5, <1>6, <1>8, <2>1, <2>2 DEF PutAt
<1>9. CASE n # 0
  <2>1. n = Shift!Placed(all, max)
    BY <1>4 DEF Shift!Placed, Shift!Cardinality, Cardinality
  <2>2. Shift!PushContract(r, n, max)
    BY DEF FitsWidth, Shift!PushContract
  <2>3. Shift!PushAllowed(c, all, n, max) /\ regs' = Shift!PushInstructions(r, all, n, max)
    BY <1>1, <1>9, SameStack
  <2> HIDE DEF all, n
  <2>4. /\ Shift!NoHolesIn(regs', c + n)
        /\ \A j \in 0..n - 1 : /\ Shift!SlotOf(all, max, j) \in Shift!Held(all, max)
                               /\ regs'[j] = all[Shift!SlotOf(all, max, j)]
        /\ \A j, k \in 0..n - 1 : j < k => Shift!SlotOf(all, max, j) < Shift!SlotOf(all, max, k)
        /\ \A j \in n..c + n - 1 : regs'[j] = r[j - n]
    BY <1>2, <1>9, <2>1, <2>2, <2>3, InstancesAreSound, Shift!PushKeeps
  <2>5. ASSUME NEW j \in 0..n - 1
        PROVE  place[j] \in DOMAIN new /\ regs'[j] = new[place[j]]
    <3>1. place[j] = Shift!SlotOf(all, max, j)
      OBVIOUS
    <3>2. place[j] \in DOMAIN new /\ place[j] \in 0..7
      BY <1>2, <1>4, <2>4, <3>1
    <3> QED BY <1>3, <2>4, <3>1, <3>2
  <2>6. \A j, k \in 0..n - 1 : j < k => place[j] < place[k]
    BY <2>4
  <2> HIDE DEF place
  <2> QED BY <1>1, <1>5, <1>6, <1>9, <2>4, <2>5, <2>6 DEF PutAt
<1> QED BY <1>8, <1>9

\* The instructions a transaction puts on a stack that fits.
LEMMA PiledPut ==
    ASSUME NEW L, NEW O, NEW A, NEW B, NEW r, NEW c, Piled(L, O, A, B, r, c),
           NEW new, NewFits(L, O, A, B, new, c), NEW max, FitsWidth(r, new, max),
           Put(r, c, new, max)
    PROVE  /\ Piled(L, O, A, B, regs', count')
           /\ DOMAIN new # {} => \E j \in DOMAIN new : regs'[0] = new[j]
           /\ count' \in 0..9
<1>0. Shift!NoHolesIn(r, c) /\ c \in 0..9
  BY StackShape DEF Piled, StackFits
<1>1. \A j \in DOMAIN new : new[j] # Execute
  BY TypeAssumption DEF NewFits, InstructionFits
<1> PICK n, place : PutAt(r, c, new, n, place)
  BY <1>0, <1>1, PutPlaces
<1>2. /\ n \in 0..8 /\ Shift!NoHolesIn(regs', c + n) /\ count' = c + n
      /\ \A j \in 0..n - 1 : place[j] \in DOMAIN new /\ regs'[j] = new[place[j]]
      /\ \A j, k \in 0..n - 1 : j < k => place[j] < place[k]
      /\ \A j \in n..c + n - 1 : regs'[j] = r[j - n]
      /\ n = 0 => regs' = r
      /\ DOMAIN new # {} => n # 0
  BY DEF PutAt
<1> DEFINE q == regs'
           d == c + n
<1>3. Shift!NoHolesIn(q, d) /\ d \in 0..9 /\ q = regs' /\ count' = d
  BY <1>2, StackShape
<1>4. /\ \A j \in 0..n - 1 : place[j] \in DOMAIN new /\ q[j] = new[place[j]]
      /\ \A j, k \in 0..n - 1 : place[j] = place[k] => j = k
      /\ \A j \in n..d - 1 : j - n \in 0..c - 1 /\ q[j] = r[j - n]
  <2>1. ASSUME NEW j \in 0..n - 1, NEW k \in 0..n - 1, place[j] = place[k] PROVE j = k
    <3>1. place[j] \in 0..7 /\ place[k] \in 0..7
      BY <1>2 DEF NewFits
    <3> QED BY <1>2, <2>1, <3>1
  <2> QED BY <1>0, <1>2, <2>1
<1>5. \A j \in 0..d - 1 : j \in 0..n - 1 \/ j \in n..d - 1
  BY <1>0, <1>2
<1>6. \A j \in 0..n - 1 : q[j].kind = "insert_order" => c = 0
  BY <1>4 DEF NewFits
<1>7. n \in Nat /\ c \in Nat
  BY <1>0, <1>2
<1>8. \A j, k \in 0..d - 1 :
          /\ q[j].kind = "insert_order" /\ q[k].kind = "insert_order"
          => \/ j \in 0..n - 1 /\ k \in 0..n - 1
             \/ j \in n..d - 1 /\ k \in n..d - 1
  <2>1. ASSUME NEW j \in 0..n - 1, NEW k \in n..d - 1, q[j].kind = "insert_order" PROVE FALSE
    <3>1. c = 0
      BY <1>6, <2>1
    <3> QED BY <1>7, <3>1
  <2> HIDE DEF q, d
  <2> QED BY <1>5, <2>1
<1> HIDE DEF q, d
<1>9. StackFits(A, B, q, d)
  <2>1. ASSUME NEW j \in 0..d - 1 PROVE InstructionFits(A, B, q[j])
    <3>1. CASE j \in 0..n - 1
      BY <1>4, <3>1 DEF NewFits
    <3>2. CASE j \in n..d - 1
      BY <1>4, <3>2 DEF Piled, StackFits
    <3> QED BY <1>5, <3>1, <3>2
  <2>2. ASSUME NEW j \in 0..d - 1, q[j].kind = "insert_order", q[j].order.children # << >>
        PROVE  j = d - 1
    <3>1. CASE j \in 0..n - 1
      <4>1. c = 0 /\ \A k \in DOMAIN new : k <= place[j]
        BY <1>4, <2>2, <3>1 DEF NewFits
      <4>2. n - 1 \in 0..n - 1 /\ place[n - 1] \in 0..7 /\ place[j] \in 0..7
            /\ place[n - 1] \in DOMAIN new
        BY <1>2, <1>7, <3>1 DEF NewFits
      <4>3. ~(j < n - 1)
        BY <1>2, <3>1, <4>1, <4>2
      <4> QED BY <1>7, <3>1, <4>1, <4>3 DEF d
    <3>2. CASE j \in n..d - 1
      <4>1. j - n = c - 1
        BY <1>4, <2>2, <3>2 DEF Piled, StackFits
      <4> QED BY <1>7, <3>2, <4>1 DEF d
    <3> QED BY <1>5, <3>1, <3>2
  <2> QED BY <1>3, <2>1, <2>2 DEF StackFits
<1>10. PlacesApart(O, q, d)
  <2>1. ASSUME NEW j \in 0..d - 1, q[j].kind = "insert_order" PROVE O[q[j].index] = NoOrder
    <3>1. CASE j \in 0..n - 1
      BY <1>4, <2>1, <3>1 DEF NewFits
    <3>2. CASE j \in n..d - 1
      BY <1>4, <2>1, <3>2 DEF Piled, PlacesApart
    <3> QED BY <1>5, <3>1, <3>2
  <2>2. ASSUME NEW j \in 0..d - 1, NEW k \in 0..d - 1, q[j].kind = "insert_order",
               q[k].kind = "insert_order", q[j].index = q[k].index
        PROVE  j = k
    <3>1. CASE j \in 0..n - 1 /\ k \in 0..n - 1
      <4>1. place[j] = place[k]
        BY <1>4, <2>2, <3>1 DEF NewFits
      <4> QED BY <1>4, <3>1, <4>1
    <3>2. CASE j \in n..d - 1 /\ k \in n..d - 1
      <4>1. j - n = k - n
        BY <1>4, <2>2, <3>2 DEF Piled, PlacesApart
      <4> QED BY <1>7, <3>2, <4>1
    <3> QED BY <1>8, <2>2, <3>1, <3>2
  <2> QED BY <2>1, <2>2 DEF PlacesApart
<1>11. TakersApart(O, q, d)
  <2>1. ASSUME NEW j \in 0..d - 1, IsTaker(q[j]) PROVE TakerApart(O, q[j].order)
    <3>1. CASE j \in 0..n - 1
      BY <1>4, <2>1, <3>1 DEF NewFits, IsTaker
    <3>2. CASE j \in n..d - 1
      BY <1>4, <2>1, <3>2 DEF Piled, TakersApart
    <3> QED BY <1>5, <3>1, <3>2
  <2>2. ASSUME NEW j \in 0..d - 1, NEW k \in 0..d - 1, IsTaker(q[j]), IsTaker(q[k])
        PROVE  j = k
    <3>0. q[j].kind = "insert_order" /\ q[k].kind = "insert_order"
      BY <2>2 DEF IsTaker
    <3>1. CASE j \in 0..n - 1 /\ k \in 0..n - 1
      <4>1. place[j] = place[k]
        BY <1>4, <2>2, <3>0, <3>1 DEF NewFits
      <4> QED BY <1>4, <3>1, <4>1
    <3>2. CASE j \in n..d - 1 /\ k \in n..d - 1
      <4>1. j - n = k - n
        BY <1>4, <2>2, <3>2 DEF Piled, TakersApart
      <4> QED BY <1>7, <3>2, <4>1
    <3> QED BY <1>8, <3>0, <3>1, <3>2
  <2> QED BY <2>1, <2>2 DEF TakersApart
<1>12. MarketsOpen(L, q, d)
  <2>1. ASSUME NEW j \in 0..d - 1, q[j].kind = "insert_order"
        PROVE  L.market[q[j].order.market].status = Ledger!Active
    <3>1. CASE j \in 0..n - 1
      BY <1>4, <2>1, <3>1 DEF NewFits
    <3>2. CASE j \in n..d - 1
      BY <1>4, <2>1, <3>2 DEF Piled, MarketsOpen
    <3> QED BY <1>5, <3>1, <3>2
  <2> QED BY <2>1 DEF MarketsOpen
<1>13. Piled(L, O, A, B, q, d)
  BY <1>9, <1>10, <1>11, <1>12 DEF Piled
<1>14. DOMAIN new # {} => \E j \in DOMAIN new : q[0] = new[j]
  <2>1. n # 0 => 0 \in 0..n - 1
    BY <1>7
  <2> QED BY <1>2, <1>4, <2>1
<1> QED BY <1>3, <1>13, <1>14

\* The instruction on top changes in what the rest of the stack does not look at.
LEMMA PiledTop ==
    ASSUME NEW L, NEW O, NEW A, NEW B, NEW r, NEW c, Piled(L, O, A, B, r, c), c # 0,
           NEW x, InstructionFits(A, B, x), x.kind = r[0].kind,
           x.kind = "insert_order" =>
               /\ x.index = r[0].index /\ x.order.market = r[0].order.market
               /\ x.order.trigger = r[0].order.trigger /\ x.order.nonce = r[0].order.nonce
               /\ x.order.children = r[0].order.children
    PROVE  Piled(L, O, A, B, [r EXCEPT ![0] = x], c)
<1> DEFINE q == [r EXCEPT ![0] = x]
<1>1. Shift!NoHolesIn(r, c) /\ c \in 1..9 /\ r = [j \in 0..8 |-> r[j]]
  BY StackShape DEF Piled, StackFits
<1>2. x # Execute
  BY TypeAssumption DEF InstructionFits
<1>3. q[0] = x /\ 0 \in 0..c - 1 /\ \A j \in 0..c - 1 : j # 0 => q[j] = r[j]
  BY <1>1
<1>4. Shift!NoHolesIn(q, c)
  BY <1>1, <1>2, SameStack DEF Shift!NoHolesIn
<1> HIDE DEF q
<1>5. \A j \in 0..c - 1 :
          /\ q[j].kind = r[j].kind
          /\ q[j].kind = "insert_order" =>
               /\ q[j].index = r[j].index /\ q[j].order.market = r[j].order.market
               /\ q[j].order.trigger = r[j].order.trigger
               /\ q[j].order.nonce = r[j].order.nonce
               /\ q[j].order.children = r[j].order.children
          /\ InstructionFits(A, B, q[j])
  BY <1>3 DEF Piled, StackFits
<1>6. StackFits(A, B, q, c)
  BY <1>4, <1>5 DEF Piled, StackFits
<1>7. PlacesApart(O, q, c)
  BY <1>5 DEF Piled, PlacesApart
<1>8. TakersApart(O, q, c)
  <2>1. \A j \in 0..c - 1 : IsTaker(q[j]) => IsTaker(r[j]) /\ TakerApart(O, q[j].order)
    BY <1>5 DEF Piled, TakersApart, TakerApart, IsTaker
  <2> QED BY <2>1 DEF Piled, TakersApart
<1>9. MarketsOpen(L, q, c)
  BY <1>5 DEF Piled, MarketsOpen
<1> QED BY <1>6, <1>7, <1>8, <1>9 DEF Piled, q

\* The order on top becomes an account order.
LEMMA PiledInsert ==
    ASSUME NEW L, NEW O, NEW A, NEW B, NEW r, NEW c, Piled(L, O, A, B, r, c), c # 0,
           O = [i \in Index |-> O[i]],
           r[0].kind = "insert_order", NEW o, o.trigger = r[0].order.trigger,
           o.market = r[0].order.market, o.nonce = r[0].order.nonce,
           NEW M, StayOpen(L, M)
    PROVE  Piled(M, [O EXCEPT ![r[0].index] = o], A, B, Stack!PopFront(r), c - 1)
<1> DEFINE q == Stack!PopFront(r)
           P == [O EXCEPT ![r[0].index] = o]
<1>1. c \in 1..9
  BY StackShape DEF Piled, StackFits
<1>a. /\ Piled(L, O, A, B, q, c - 1)
      /\ \A j \in 0..c - 2 : q[j] = r[j + 1]
  BY PiledPop
<1> HIDE DEF q, P
<1>2. /\ Piled(L, O, A, B, q, c - 1)
      /\ \A j \in 0..c - 1 - 1 : q[j] = r[j + 1] /\ j + 1 \in 0..c - 1 /\ j + 1 # 0
  BY <1>1, <1>a
<1>3. 0 \in 0..c - 1 /\ r[0].index \in Index
  BY <1>1 DEF Piled, StackFits, InstructionFits, OrderFits, GivenOut
<1>4. P[r[0].index] = o /\ \A i \in Index : i # r[0].index => P[i] = O[i]
  BY <1>3 DEF P
<1>5. \A j \in 0..c - 1 - 1 : q[j].kind = "insert_order" => /\ q[j].index # r[0].index
                                                           /\ q[j].index \in Index
                                                           /\ q[j].order.market \in Market
  <2> SUFFICES ASSUME NEW j \in 0..c - 1 - 1, q[j].kind = "insert_order"
               PROVE  /\ q[j].index # r[0].index /\ q[j].index \in Index
                      /\ q[j].order.market \in Market
    OBVIOUS
  <2>1. q[j].index \in Index /\ q[j].order.market \in Market
    BY <1>2 DEF Piled, StackFits, InstructionFits, OrderFits, GivenOut, OrderSet
  <2>2. q[j].index # r[0].index
    BY <1>2, <1>3 DEF Piled, PlacesApart
  <2> QED BY <2>1, <2>2
<1>6. PlacesApart(P, q, c - 1)
  BY <1>2, <1>4, <1>5 DEF Piled, PlacesApart
<1>7. TakersApart(P, q, c - 1)
  <2>1. ASSUME NEW j \in 0..c - 1 - 1, IsTaker(q[j]) PROVE TakerApart(P, q[j].order)
    <3>1. ~IsTaker(r[0])
      BY <1>2, <1>3, <2>1 DEF Piled, TakersApart
    <3>2. o.trigger # "na"
      BY <3>1 DEF IsTaker
    <3>3. TakerApart(O, q[j].order)
      BY <1>2, <2>1 DEF Piled, TakersApart
    <3> QED BY <1>4, <3>2, <3>3 DEF TakerApart, IsResting
  <2> QED BY <1>2, <2>1 DEF Piled, TakersApart
<1>8. MarketsOpen(M, q, c - 1)
  BY <1>2, <1>5 DEF Piled, MarketsOpen, StayOpen
<1> QED BY <1>2, <1>6, <1>7, <1>8 DEF Piled, P, q

-----------------------------------------------------------------------------
(* How a transaction ends.                                                              *)

\* No instructions.
LEMMA NothingFits ==
    ASSUME NEW L, NEW O, NEW A, NEW B, NEW c, NEW r
    PROVE  NewFits(L, O, A, B, Nothing, c) /\ FitsWidth(r, Nothing, 3) /\ DOMAIN Nothing = {}
<1>1. DOMAIN Nothing = {}
  BY DEF Nothing
<1>2. Cardinality(DOMAIN Nothing) = 0
  BY <1>1, FS_EmptySet
<1> QED BY <1>1, <1>2, Constants DEF NewFits, FitsWidth

\* What is idle has an empty stack.
LEMMA IdleIsEmpty ==
    ASSUME EInv, Idle
    PROVE  count = 0 /\ Shift!NoHolesIn(regs, 0)
BY StackShape DEF EInv, Piled, StackFits, Idle

\* A transaction that starts on an empty stack leaves instructions on it.
LEMMA Started ==
    ASSUME EInv, Idle, World(ledger', orders', book', ask', bid'),
           NEW new, NewFits(ledger', orders', ask', bid', new, 0), DOMAIN new \subseteq 0..2,
           Push(new), now' = now,
           matching' => /\ DOMAIN new # {}
                        /\ \A j \in DOMAIN new : new[j].kind = "insert_order"
    PROVE  EInv'
<1>1. count = 0 /\ Shift!NoHolesIn(regs, 0) /\ regs[0] = Execute
  BY IdleIsEmpty DEF Idle
<1>2. Piled(ledger', orders', ask', bid', regs, 0)
  BY <1>1, PiledEmpty
<1>3. FitsWidth(regs, new, 3)
  BY <1>1 DEF FitsWidth
<1>4. Put(regs, 0, new, 3)
  BY <1>1 DEF Push
<1>5. /\ Piled(ledger', orders', ask', bid', regs', count')
      /\ DOMAIN new # {} => \E j \in DOMAIN new : regs'[0] = new[j]
  BY <1>2, <1>3, <1>4, PiledPut
<1>6. matching' => regs'[0] # Execute /\ regs'[0].kind = "insert_order"
  BY <1>5, TypeAssumption DEF NewFits, InstructionFits
<1>7. now' \in 1..MaxTime
  BY DEF EInv
<1> QED BY <1>5, <1>6, <1>7 DEF EInv

\* An internal transaction finishes the instruction on top.
LEMMA Finished ==
    ASSUME EInv, regs[0] # Execute, World(ledger', orders', book', ask, bid),
           Thinner(orders, orders'), StayOpen(ledger, ledger'), Pop(Nothing),
           matching' = FALSE, ask' = ask, bid' = bid, now' = now
    PROVE  EInv'
<1>1. Piled(ledger, orders, ask, bid, regs, count) /\ count # 0
  BY StackShape DEF EInv, Piled, StackFits
<1>2. Piled(ledger', orders', ask, bid, regs, count)
  BY <1>1, PiledThinner
<1>3. Piled(ledger', orders', ask, bid, Popped, count - 1)
  BY <1>1, <1>2, PiledPop DEF Popped
<1>4. Piled(ledger', orders', ask, bid, regs', count')
  BY <1>3, NothingFits, PiledPut DEF Pop
<1> QED BY <1>4 DEF EInv

\* One order less is left to cancel.
LEMMA CountedDown ==
    ASSUME EInv, regs[0] # Execute, regs[0].kind \in CancelAllKinds,
           World(ledger', orders', book', ask, bid),
           Thinner(orders, orders'), StayOpen(ledger, ledger'), CountDown,
           matching' = FALSE, ask' = ask, bid' = bid, now' = now
    PROVE  EInv'
<1> DEFINE x == [regs[0] EXCEPT !.size = @ - 1]
<1>1. CASE regs[0].size = 1
  BY <1>1, Finished DEF CountDown
<1>2. CASE regs[0].size # 1
  <2>1. Piled(ledger, orders, ask, bid, regs, count) /\ count # 0
    BY StackShape DEF EInv, Piled, StackFits
  <2>2. Piled(ledger', orders', ask, bid, regs, count)
    BY <2>1, PiledThinner
  <2>3. regs[0] \in InstructionSet
    <3>1. 0 \in 0..count - 1
      BY <2>1, StackShape DEF Piled, StackFits
    <3> QED BY <2>1, <3>1 DEF Piled, StackFits, InstructionFits
  <2>4. x \in InstructionSet /\ x.kind = regs[0].kind /\ x.kind # "insert_order"
        /\ x.kind # "trigger_child"
    BY <2>3 DEF InstructionSet, CancelAllKinds
  <2>5. [regs EXCEPT ![0].size = @ - 1] = [regs EXCEPT ![0] = x]
    OBVIOUS
  <2> HIDE DEF x
  <2>6. InstructionFits(ask, bid, x)
    BY <2>4 DEF InstructionFits
  <2>7. Piled(ledger', orders', ask, bid, [regs EXCEPT ![0] = x], count)
    BY <2>1, <2>2, <2>4, <2>6, PiledTop
  <2>8. Put([regs EXCEPT ![0] = x], count, Nothing, 3)
    BY <1>2, <2>5 DEF CountDown
  <2>9. Piled(ledger', orders', ask, bid, regs', count')
    BY <2>7, <2>8, NothingFits, PiledPut
  <2> QED BY <2>9 DEF EInv
<1> QED BY <1>1, <1>2

\* One instruction that inserts no order.
LEMMA SlotFits ==
    ASSUME NEW L, NEW O, NEW A, NEW B, NEW c, NEW x, InstructionFits(A, B, x),
           x.kind # "insert_order"
    PROVE  NewFits(L, O, A, B, Slot(0, x), c) /\ DOMAIN Slot(0, x) = {0}
<1>1. DOMAIN Slot(0, x) = {0} /\ Slot(0, x)[0] = x
  BY DEF Slot
<1> QED BY <1>1 DEF NewFits

\* One instruction that inserts an order.
LEMMA InsertFits ==
    ASSUME NEW L, NEW O, NEW A, NEW B, NEW i, NEW o, OrderFits(A, B, i, o), O[i] = NoOrder,
           L.market[o.market].status = Ledger!Active, o.trigger = "na" => TakerApart(O, o)
    PROVE  /\ NewFits(L, O, A, B, Slot(0, Insert(i, o)), 0)
           /\ DOMAIN Slot(0, Insert(i, o)) = {0}
           /\ Slot(0, Insert(i, o))[0].kind = "insert_order"
<1> DEFINE x == Insert(i, o)
<1>1. x.kind = "insert_order" /\ x.index = i /\ x.order = o /\ x.slack = 0
  BY DEF Insert
<1>2. InstructionFits(A, B, x)
  <2>1. i \in Index /\ o \in OrderSet
    BY DEF OrderFits, GivenOut
  <2>2. x \in InstructionSet
    BY <2>1 DEF InstructionSet, Insert
  <2> QED BY <1>1, <2>2 DEF InstructionFits
<1> HIDE DEF x
<1>3. DOMAIN Slot(0, x) = {0} /\ Slot(0, x)[0] = x
  BY DEF Slot
<1>4. NewFits(L, O, A, B, Slot(0, x), 0)
  BY <1>1, <1>2, <1>3 DEF NewFits
<1> QED BY <1>1, <1>3, <1>4 DEF x

\* Where an order stands that takes the next nonce of its market: at an index and a nonce
\* no other order has.
LEMMA NonceTaken ==
    ASSUME NEW L, World(L, orders, book, ask, bid), NEW m \in Market, HasNonce(m),
           NEW isAsk \in BOOLEAN, TakeNonces(m, isAsk, 1)
    PROVE  LET n == NextNonce(m, isAsk)
           IN  /\ Later(ask, bid, ask', bid')
               /\ n \in 1..MaxNonce /\ GivenOut(ask', bid', <<m, n>>)
               /\ orders[<<m, n>>] = NoOrder
               /\ \A o : o.market = m /\ o.isAsk = isAsk /\ o.nonce = n =>
                     OnSide(ask', bid', o) /\ TakerApart(orders, o)
<1> DEFINE n == NextNonce(m, isAsk)
<1>1. /\ ask \in [Market -> Int] /\ bid \in [Market -> Int]
      /\ \A k \in Market : 1 <= ask[k] /\ ask[k] <= bid[k] /\ bid[k] <= MaxNonce
      /\ OrdersFit(ask, bid, orders) /\ NoncesFit(ask, bid)
  BY Constants DEF World, NoncesFit
<1>2. ask[m] < bid[m] /\ MaxNonce \in Nat
  BY <1>1, Constants DEF HasNonce
<1>3. /\ ask' = IF isAsk THEN [ask EXCEPT ![m] = @ + 1] ELSE ask
      /\ bid' = IF isAsk THEN bid ELSE [bid EXCEPT ![m] = @ - 1]
      /\ n = IF isAsk THEN ask[m] ELSE bid[m]
  BY DEF TakeNonces, NextNonce
<1>4. n \in 1..MaxNonce
  BY <1>1, <1>2, <1>3
<1>5. /\ ask' \in [Market -> Int] /\ bid' \in [Market -> Int]
      /\ ask'[m] = IF isAsk THEN ask[m] + 1 ELSE ask[m]
      /\ bid'[m] = IF isAsk THEN bid[m] ELSE bid[m] - 1
      /\ \A k \in Market : k # m => ask'[k] = ask[k] /\ bid'[k] = bid[k]
  BY <1>1, <1>3
<1>6. Later(ask, bid, ask', bid')
  <2>1. ASSUME NEW k \in Market
        PROVE  /\ FirstAsk <= ask'[k] /\ ask'[k] <= bid'[k] /\ bid'[k] <= MaxNonce
               /\ ask[k] <= ask'[k] /\ bid'[k] <= bid[k]
    <3>1. CASE k = m
      BY <1>1, <1>2, <1>5, <3>1, Constants
    <3>2. CASE k # m
      BY <1>1, <1>5, <3>2, Constants
    <3> QED BY <3>1, <3>2
  <2> QED BY <1>5, <2>1 DEF Later, NoncesFit
<1>7. <<m, n>> \in Index
  BY <1>4, Constants DEF Index
<1> HIDE DEF n
<1>8. GivenOut(ask', bid', <<m, n>>)
  BY <1>1, <1>3, <1>5, <1>7 DEF GivenOut
<1>9. orders[<<m, n>>] = NoOrder
  <2> SUFFICES ASSUME orders[<<m, n>>] # NoOrder PROVE FALSE
    OBVIOUS
  <2>1. GivenOut(ask, bid, <<m, n>>)
    BY <1>1, <1>7 DEF OrdersFit, OrderFits
  <2> QED BY <1>1, <1>2, <1>3, <2>1 DEF GivenOut
<1>10. ASSUME NEW o, o.market = m, o.isAsk = isAsk, o.nonce = n
       PROVE  OnSide(ask', bid', o) /\ TakerApart(orders, o)
  <2>1. OnSide(ask', bid', o)
    BY <1>1, <1>3, <1>4, <1>5, <1>10, Constants DEF OnSide
  <2>2. ASSUME NEW k \in Index, IsResting(orders, k), orders[k].market = m
        PROVE  orders[k].nonce # n
    <3>1. OnSide(ask, bid, orders[k]) /\ orders[k].nonce \in Int
      BY <1>1, <2>2, OrderKnown DEF OrderFits, IsResting
    <3> QED BY <1>1, <1>2, <1>3, <2>2, <3>1, Constants DEF OnSide
  <2> QED BY <1>10, <2>1, <2>2 DEF TakerApart
<1> QED BY <1>4, <1>6, <1>8, <1>9, <1>10 DEF n

\* What a request becomes is an order.
LEMMA RequestFits ==
    ASSUME NEW r \in RequestSet, NEW nonce \in 0..MaxNonce, NEW size \in Nat,
           NEW trigger \in Ledger!TriggerStatuses
    PROVE  LET o == OrderOf(r, nonce, size, trigger)
           IN  /\ o \in OrderSet
               /\ o.owner = r.owner /\ o.market = r.market /\ o.isAsk = r.isAsk
               /\ o.nonce = nonce /\ o.initial = size /\ o.rem = size
               /\ o.trigger = trigger /\ o.children = << >> /\ o.sibling = Nil
               /\ o.reduceOnly = r.reduceOnly /\ o.mode = r.mode /\ o.scope = r.scope
BY DEF RequestSet, OrderSet, OrderOf, Conditional, LimitTypes, MarketTypes, Nil

\* The size of a position is a natural number.
LEMMA PositionSizeType ==
    ASSUME EInv, NEW a \in Account, NEW m \in Market
    PROVE  /\ Size(a, m) \in Int
           /\ Ledger!Abs(Size(a, m)) \in Nat
           /\ ledger.position[<<a, m>>] \in Count!RawPositions
           /\ ledger.account[a].orders \in Int /\ ledger.account[a].nonCross \in Int
<1>1. /\ ledger.position \in [Account \X Market -> Count!RawPositions]
      /\ ledger.account \in [Account -> [orders : Int, nonCross : Int]]
  BY DEF EInv, World, LedgerFits, Count!Counted, Count!RawLedgers
<1>2. ledger.position[<<a, m>>] \in Count!RawPositions
  BY <1>1
<1>3. Size(a, m) \in Int
  BY <1>2 DEF Size, Count!RawPositions
<1> QED BY <1>1, <1>2, <1>3 DEF Ledger!Abs

-----------------------------------------------------------------------------
(* Each transaction keeps the invariant: those that place orders.                       *)

LEMMA CreateOrderKeeps == ASSUME EInv, NEW r \in Request, CreateOrder(r) PROVE EInv'
<1> DEFINE m == r.market
           size == IF r.base = 0 /\ r.type \notin Conditional THEN PositionSize(r) ELSE r.base
           n == NextNonce(m, r.isAsk)
           trigger == TriggerOf(r.type)
           waits == trigger # "na"
           o == OrderOf(r, IF waits THEN NilNonce ELSE n, size, trigger)
           i == <<m, n>>
<1>1. /\ Idle /\ Ledger!MayOrder(ledger, r.owner, m) /\ HasNonce(m) /\ AttributesFit(r)
      /\ size # 0 \/ r.type \in Conditional
      /\ TakeNonces(m, r.isAsk, 1)
      /\ IF waits THEN StoreWaiting(i, o) /\ Push(Nothing)
         ELSE /\ Push(Slot(0, Insert(i, o)))
              /\ UNCHANGED <<orders, ledger, book, locked>>
      /\ matching' = ~waits /\ now' = now
  BY DEF CreateOrder
<1>2. /\ r \in RequestSet /\ m \in Market /\ r.owner \in Account /\ r.isAsk \in BOOLEAN
      /\ r.base \in Nat
  BY TypeAssumption DEF RequestSet
<1>3. size \in Nat
  BY <1>2, PositionSizeType DEF PositionSize
<1>4. World(ledger, orders, book, ask, bid) /\ NoncesFit(ask, bid)
  BY DEF EInv, World
<1>5. /\ Later(ask, bid, ask', bid') /\ n \in 1..MaxNonce /\ GivenOut(ask', bid', i)
      /\ orders[i] = NoOrder
      /\ \A u : u.market = m /\ u.isAsk = r.isAsk /\ u.nonce = n =>
            OnSide(ask', bid', u) /\ TakerApart(orders, u)
  BY <1>1, <1>2, <1>4, NonceTaken
<1>6. /\ trigger \in {"na", "twap", "mark_price"}
      /\ trigger = "twap" => r.type \notin Conditional
  BY DEF TriggerOf, Conditional
<1>7. ledger.market[m].status = Ledger!Active /\ Ledger!Active # Ledger!Expired
  BY <1>1 DEF Ledger!MayOrder, Ledger!Active, Ledger!Expired
<1>8. World(ledger, orders, book, ask', bid')
  BY <1>4, <1>5, WorldLater
<1> HIDE DEF size, n, trigger
<1>9. /\ o \in OrderSet
      /\ o.market = m /\ o.isAsk = r.isAsk /\ o.nonce = IF waits THEN NilNonce ELSE n
      /\ o.initial = size /\ o.rem = size /\ o.trigger = trigger /\ o.children = << >>
      /\ o.mode = r.mode /\ o.scope = r.scope
  <2>1. (IF waits THEN NilNonce ELSE n) \in 0..MaxNonce
    BY <1>5, Constants DEF NilNonce
  <2>2. trigger \in Ledger!TriggerStatuses
    BY <1>6 DEF Ledger!TriggerStatuses
  <2> HIDE DEF waits
  <2> QED BY <1>2, <1>3, <2>1, <2>2, RequestFits
<1> HIDE DEF o
<1>10. OrderFits(ask', bid', i, o)
  <2>1. Len(o.children) = 0
    BY <1>9
  <2>2. trigger = "twap" => o.rem > 0
    BY <1>1, <1>3, <1>6, <1>9
  <2>3. SparesMasters(o)
    BY <1>1, <1>9 DEF AttributesFit, SparesMasters
  <2> QED BY <1>3, <1>5, <1>9, <2>1, <2>2, <2>3 DEF OrderFits
<1>11. CASE waits
  <2>1. /\ orders' = [orders EXCEPT ![i] = o] /\ ledger' = Ledger!Increment(ledger, o)
        /\ book' = book /\ Push(Nothing) /\ matching' = FALSE
    BY <1>1, <1>11 DEF StoreWaiting
  <2>2. World(ledger', orders', book', ask', bid')
    BY <1>5, <1>7, <1>8, <1>9, <1>10, <1>11, <2>1, WorldStore DEF GivenOut
  <2>3. /\ NewFits(ledger', orders', ask', bid', Nothing, 0)
        /\ DOMAIN Nothing \subseteq 0..2
    BY NothingFits
  <2> QED BY <1>1, <2>1, <2>2, <2>3, Started
<1>12. CASE ~waits
  <2> DEFINE new == Slot(0, Insert(i, o))
  <2>1. /\ Push(new) /\ ledger' = ledger /\ orders' = orders /\ book' = book
    BY <1>1, <1>12
  <2>2. TakerApart(orders, o)
    BY <1>5, <1>9, <1>12
  <2>3. /\ NewFits(ledger', orders', ask', bid', new, 0) /\ DOMAIN new = {0}
        /\ new[0].kind = "insert_order"
    BY <1>5, <1>7, <1>9, <1>10, <2>1, <2>2, InsertFits
  <2> HIDE DEF new
  <2>4. DOMAIN new \subseteq 0..2 /\ DOMAIN new # {}
        /\ \A j \in DOMAIN new : new[j].kind = "insert_order"
    BY <2>3
  <2> QED BY <1>1, <1>8, <2>1, <2>3, <2>4, Started
<1> QED BY <1>11, <1>12

LEMMA L1CreateOrderKeeps == ASSUME EInv, NEW r \in Request, L1CreateOrder(r) PROVE EInv'
<1> DEFINE m == r.market
           size == IF r.base = 0 THEN PositionSize(r) ELSE r.base
           n == NextNonce(m, r.isAsk)
           q == [r EXCEPT !.tif = Ioc, !.expiry = NilExpiry, !.reduceOnly = TRUE,
                          !.mode = "expire_maker", !.scope = "account", !.fee = FALSE]
           o == OrderOf(q, n, size, "na")
           i == <<m, n>>
           new == Slot(0, Insert(i, o))
<1>1. /\ Idle /\ ledger.market[m].status = Ledger!Active /\ HasNonce(m)
      /\ TakeNonces(m, r.isAsk, 1)
      /\ Push(new)
      /\ UNCHANGED <<orders, ledger, book, locked>>
      /\ matching' = TRUE /\ now' = now
  BY DEF L1CreateOrder
<1>2. /\ r \in RequestSet /\ m \in Market /\ r.owner \in Account /\ r.isAsk \in BOOLEAN
      /\ r.base \in Nat
  BY TypeAssumption DEF RequestSet
<1>3. size \in Nat
  BY <1>2, PositionSizeType DEF PositionSize
<1>4. World(ledger, orders, book, ask, bid)
  BY DEF EInv
<1>5. /\ Later(ask, bid, ask', bid') /\ n \in 1..MaxNonce /\ GivenOut(ask', bid', i)
      /\ orders[i] = NoOrder
      /\ \A u : u.market = m /\ u.isAsk = r.isAsk /\ u.nonce = n =>
            OnSide(ask', bid', u) /\ TakerApart(orders, u)
  BY <1>1, <1>2, <1>4, NonceTaken
<1>6. q \in RequestSet /\ q.market = m /\ q.isAsk = r.isAsk /\ q.scope = "account"
  BY <1>2 DEF RequestSet, Ioc, Gtt, PostOnly, TimesInForce, NilExpiry, SelfTradeModes, Scopes
<1> HIDE DEF size, n, q
<1>7. /\ o \in OrderSet
      /\ o.market = m /\ o.isAsk = r.isAsk /\ o.nonce = n /\ o.scope = "account"
      /\ o.initial = size /\ o.rem = size /\ o.trigger = "na" /\ o.children = << >>
  <2>1. n \in 0..MaxNonce /\ "na" \in Ledger!TriggerStatuses
    BY <1>5, Constants DEF Ledger!TriggerStatuses
  <2>2. /\ o \in OrderSet
        /\ o.market = q.market /\ o.isAsk = q.isAsk /\ o.nonce = n /\ o.scope = q.scope
        /\ o.initial = size /\ o.rem = size /\ o.trigger = "na" /\ o.children = << >>
    <3> HIDE DEF m, i, new
    <3> QED BY <1>3, <1>6, <2>1, RequestFits
  <2> HIDE DEF o
  <2> QED BY <1>6, <2>2
<1> HIDE DEF o
<1>8. OrderFits(ask', bid', i, o) /\ TakerApart(orders, o)
  <2>1. Len(o.children) = 0 /\ SparesMasters(o)
    BY <1>7 DEF SparesMasters
  <2> QED BY <1>3, <1>5, <1>7, <2>1 DEF OrderFits
<1>9. World(ledger', orders', book', ask', bid')
  BY <1>1, <1>4, <1>5, WorldLater
<1>10. /\ NewFits(ledger', orders', ask', bid', new, 0) /\ DOMAIN new = {0}
       /\ new[0].kind = "insert_order"
  <2>1. /\ orders' = orders /\ orders[i] = NoOrder
        /\ ledger'.market[o.market].status = Ledger!Active
    BY <1>1, <1>5, <1>7
  <2> HIDE DEF i, m
  <2> QED BY <1>7, <1>8, <2>1, InsertFits
<1> HIDE DEF new
<1>11. DOMAIN new \subseteq 0..2 /\ DOMAIN new # {}
       /\ \A j \in DOMAIN new : new[j].kind = "insert_order"
  BY <1>10
<1> QED BY <1>1, <1>9, <1>10, <1>11, Started

LEMMA LiquidatePositionKeeps ==
    ASSUME EInv, NEW a \in Account, NEW m \in Market, NEW size \in 1..MaxPosition,
           NEW price \in RollupPrice, LiquidatePosition(a, m, size, price)
    PROVE  EInv'
<1> DEFINE isAsk == Size(a, m) > 0
           n == NextNonce(m, isAsk)
           o == [owner |-> a, market |-> m, isAsk |-> isAsk, price |-> price,
                 type |-> "liquidation", tif |-> Ioc, reduceOnly |-> TRUE,
                 expiry |-> NilExpiry, mode |-> "expire_maker", scope |-> "account",
                 fee |-> FALSE, nonce |-> n, initial |-> size, rem |-> size,
                 trigger |-> "na", children |-> << >>, sibling |-> Nil]
           i == <<m, n>>
           new == Slot(0, Insert(i, o))
<1>1. /\ Idle /\ ledger.market[m].status = Ledger!Active /\ HasNonce(m)
      /\ TakeNonces(m, isAsk, 1)
      /\ Push(new)
      /\ UNCHANGED <<orders, ledger, book, locked>>
      /\ matching' = TRUE /\ now' = now
  BY DEF LiquidatePosition, Open
<1>2. isAsk \in BOOLEAN /\ price \in Nat /\ size \in Nat
  BY TypeAssumption, Constants
<1>4. World(ledger, orders, book, ask, bid)
  BY DEF EInv
<1> HIDE DEF isAsk
<1>5. /\ Later(ask, bid, ask', bid') /\ n \in 1..MaxNonce /\ GivenOut(ask', bid', i)
      /\ orders[i] = NoOrder
      /\ \A u : u.market = m /\ u.isAsk = isAsk /\ u.nonce = n =>
            OnSide(ask', bid', u) /\ TakerApart(orders, u)
  BY <1>1, <1>2, <1>4, NonceTaken
<1> HIDE DEF n
<1>7. /\ o.market = m /\ o.isAsk = isAsk /\ o.nonce = n /\ o.scope = "account"
      /\ o.initial = size /\ o.rem = size /\ o.trigger = "na" /\ o.children = << >>
  OBVIOUS
<1>8. o \in OrderSet
  <2>1. n \in 0..MaxNonce
    BY <1>5, Constants
  <2> QED BY <1>2, <2>1 DEF OrderSet, LimitTypes, TimesInForce, Ioc, NilExpiry, SelfTradeModes,
             Scopes, Ledger!TriggerStatuses, Nil
<1> HIDE DEF o
<1>9. OrderFits(ask', bid', i, o) /\ TakerApart(orders, o)
  <2>1. Len(o.children) = 0 /\ SparesMasters(o)
    BY <1>7 DEF SparesMasters
  <2> QED BY <1>2, <1>5, <1>7, <1>8, <2>1 DEF OrderFits
<1>10. World(ledger', orders', book', ask', bid')
  BY <1>1, <1>4, <1>5, WorldLater
<1>11. /\ NewFits(ledger', orders', ask', bid', new, 0) /\ DOMAIN new = {0}
       /\ new[0].kind = "insert_order"
  BY <1>1, <1>5, <1>7, <1>9, InsertFits
<1> HIDE DEF new
<1>12. DOMAIN new \subseteq 0..2 /\ DOMAIN new # {}
       /\ \A j \in DOMAIN new : new[j].kind = "insert_order"
  BY <1>11
<1> QED BY <1>1, <1>10, <1>11, <1>12, Started

-----------------------------------------------------------------------------
(* Those that cancel.                                                                   *)

\* The children of an order are told in the two slots below top.
LEMMA ChildrenFit ==
    ASSUME NEW A, NEW B, NEW i, NEW o, OrderFits(A, B, i, o), NEW top \in Nat, NEW size \in Nat,
           NEW new, new \in {CancelChildren(o, top), TriggerChildren(o, size, top)}
    PROVE  /\ DOMAIN new \subseteq {top - 1, top}
           /\ top - 1 \in DOMAIN new => o.children # << >>
           /\ \A j \in DOMAIN new : InstructionFits(A, B, new[j]) /\ new[j].kind # "insert_order"
<1>1. /\ o.children \in Seq(Index) /\ Len(o.children) \in 0..2
      /\ \A k \in 1..Len(o.children) : o.children[k][1] = o.market
      /\ o.owner \in Account /\ o.market \in Market
  <2>1. o.children \in Seq(Index) /\ o.owner \in Account /\ o.market \in Market
    BY DEF OrderFits, OrderSet
  <2>2. Len(o.children) \in Nat
    BY <2>1
  <2>3. /\ Len(o.children) <= 2
        /\ \A k \in 1..Len(o.children) : o.children[k][1] = o.market
    BY DEF OrderFits
  <2> DEFINE n == Len(o.children)
  <2>4. n \in Nat /\ n <= 2
    BY <2>2, <2>3
  <2> HIDE DEF n
  <2>5. n \in 0..2
    BY <2>4
  <2> QED BY <2>1, <2>3, <2>5 DEF n
<1>2. DOMAIN new = {top - k + 1 : k \in 1..Len(o.children)}
  BY DEF CancelChildren, TriggerChildren
<1>3. DOMAIN new \subseteq {top - 1, top} /\ DOMAIN new \subseteq Int
  BY <1>1, <1>2
<1>4. top - 1 \in DOMAIN new => o.children # << >>
  <2> SUFFICES ASSUME o.children = << >> PROVE DOMAIN new = {}
    OBVIOUS
  <2>1. Len(o.children) = 0
    OBVIOUS
  <2> QED BY <1>2, <2>1
<1>5. ASSUME NEW j \in DOMAIN new
      PROVE  InstructionFits(A, B, new[j]) /\ new[j].kind # "insert_order"
  <2>1. top - j + 1 \in 1..Len(o.children)
    BY <1>1, <1>2, <1>3
  <2> DEFINE x == o.children[top - j + 1]
  <2>2. x \in Index /\ x[1] = o.market
    BY <1>1, <2>1
  <2>3. CASE new = CancelChildren(o, top)
    <3>1. new[j] = CancelOne(o, x)
      BY <1>2, <2>3 DEF CancelChildren
    <3> HIDE DEF x
    <3>2. CancelOne(o, x) \in InstructionSet /\ CancelOne(o, x).kind = "cancel_single"
      BY <1>1, <2>2 DEF CancelOne, InstructionSet
    <3> QED BY <3>1, <3>2 DEF InstructionFits
  <2>4. CASE new = TriggerChildren(o, size, top)
    <3>1. new[j] = TriggerChild(o, x, size)
      BY <1>2, <2>4 DEF TriggerChildren
    <3> HIDE DEF x
    <3>2. /\ TriggerChild(o, x, size) \in InstructionSet
          /\ TriggerChild(o, x, size).kind = "trigger_child"
          /\ TriggerChild(o, x, size).market = o.market
          /\ TriggerChild(o, x, size).index = x
          /\ TriggerChild(o, x, size).size = size
      BY <1>1, <2>2 DEF TriggerChild, InstructionSet
    <3> QED BY <2>2, <3>1, <3>2 DEF InstructionFits
  <2> QED BY <2>3, <2>4
<1> QED BY <1>3, <1>4, <1>5

\* Children told on an empty stack.
LEMMA ChildrenPushed ==
    ASSUME NEW L, NEW O, NEW A, NEW B, NEW i, NEW o, OrderFits(A, B, i, o), NEW size \in Nat,
           NEW new, new \in {CancelChildren(o, 1), TriggerChildren(o, size, 1)}
    PROVE  NewFits(L, O, A, B, new, 0) /\ DOMAIN new \subseteq 0..2
<1>1. /\ DOMAIN new \subseteq {1 - 1, 1}
      /\ \A j \in DOMAIN new : InstructionFits(A, B, new[j]) /\ new[j].kind # "insert_order"
  BY ChildrenFit
<1> QED BY <1>1 DEF NewFits

\* A cancellation takes the order, its leaf and its counts; a drained slot is released.
LEMMA RemoveKeeps ==
    ASSUME World(ledger, orders, book, ask, bid), NEW i \in Index, Exists(i), Remove(i)
    PROVE  /\ World(ledger', orders', book', ask, bid)
           /\ Thinner(orders, orders') /\ StayOpen(ledger, ledger')
<1> DEFINE o == orders[i]
           M == Ledger!Decrement(ledger, o)
<1>1. /\ orders' = [orders EXCEPT ![i] = NoOrder] /\ book' = book \ At(book, o)
      /\ ledger' = Ledger!Release(M, o.market)
  BY DEF Remove
<1>2. /\ orders = [j \in Index |-> orders[j]] /\ orders[i] # NoOrder
      /\ NoncesFit(ask, bid) /\ OrdersFit(ask, bid, orders)
  BY DEF World, OrdersFit, Exists
<1>3. o.market \in Market
  BY <1>2, OrderKnown
<1>4. World(M, orders', book', ask, bid) /\ SameSizes(ledger, M)
  BY <1>1, <1>2, WorldDrop
<1> HIDE DEF M
<1>5. World(ledger', orders', book', ask, bid)
  BY <1>1, <1>3, <1>4, WorldRelease
<1>6. Thinner(orders, orders')
  BY <1>1, <1>2 DEF Thinner, IsResting
<1>7. StayOpen(ledger, ledger')
  BY <1>1, <1>3, <1>4, ReleaseFits
     DEF World, StayOpen, SameSizes, SameMarkets, Ledger!Active, Ledger!InSettlement
<1> QED BY <1>5, <1>6, <1>7

LEMMA CancelOrderKeeps == ASSUME EInv, NEW i \in Index, CancelOrder(i) PROVE EInv'
<1> DEFINE new == CancelChildren(orders[i], 1)
<1>1. /\ Idle /\ Exists(i) /\ Remove(i) /\ Push(new)
      /\ matching' = FALSE /\ ask' = ask /\ bid' = bid /\ now' = now
  BY DEF CancelOrder
<1>2. World(ledger, orders, book, ask, bid)
  BY DEF EInv
<1>3. OrderFits(ask', bid', i, orders[i])
  BY <1>1, <1>2 DEF World, OrdersFit, Exists
<1>4. NewFits(ledger', orders', ask', bid', new, 0) /\ DOMAIN new \subseteq 0..2
  <2>1. 0 \in Nat
    OBVIOUS
  <2> QED BY <1>3, <2>1, ChildrenPushed
<1>5. World(ledger', orders', book', ask', bid')
  BY <1>1, <1>2, RemoveKeeps
<1> HIDE DEF new
<1> QED BY <1>1, <1>4, <1>5, Started

LEMMA CancelDeadOrderKeeps == ASSUME EInv, NEW i \in Index, CancelDeadOrder(i) PROVE EInv'
<1> DEFINE new == CancelChildren(orders[i], 1)
<1>1. /\ Idle /\ Exists(i) /\ Remove(i) /\ Push(new)
      /\ matching' = FALSE /\ ask' = ask /\ bid' = bid /\ now' = now
  BY DEF CancelDeadOrder, Untouched
<1>2. World(ledger, orders, book, ask, bid)
  BY DEF EInv
<1>3. OrderFits(ask', bid', i, orders[i])
  BY <1>1, <1>2 DEF World, OrdersFit, Exists
<1>4. NewFits(ledger', orders', ask', bid', new, 0) /\ DOMAIN new \subseteq 0..2
  <2>1. 0 \in Nat
    OBVIOUS
  <2> QED BY <1>3, <2>1, ChildrenPushed
<1>5. World(ledger', orders', book', ask', bid')
  BY <1>1, <1>2, RemoveKeeps
<1> HIDE DEF new
<1> QED BY <1>1, <1>4, <1>5, Started

\* Nothing but the stack changes.
LEMMA SameWorld ==
    ASSUME NEW L, NEW O
    PROVE  Thinner(O, O) /\ StayOpen(L, L)
BY DEF Thinner, StayOpen, IsResting

LEMMA CancelSingleKeeps == ASSUME EInv, CancelSingle PROVE EInv'
<1> DEFINE i == regs[0].index
<1>1. /\ regs[0] # Execute /\ regs[0].kind = "cancel_single" /\ Pop(Nothing)
      /\ \/ Exists(i) /\ Remove(i)
         \/ UNCHANGED <<orders, book, ledger, locked>>
      /\ matching' = FALSE /\ ask' = ask /\ bid' = bid /\ now' = now
  BY DEF CancelSingle, Finishing, Untouched
<1>2. World(ledger, orders, book, ask, bid)
  BY DEF EInv
<1>3. i \in Index
  <2>1. 0 \in 0..count - 1
    BY <1>1, StackShape DEF EInv, Piled, StackFits
  <2>2. regs[0] \in InstructionSet
    BY <2>1 DEF EInv, Piled, StackFits, InstructionFits
  <2> QED BY <1>1, <2>2 DEF InstructionSet
<1> HIDE DEF i
<1>4. /\ World(ledger', orders', book', ask, bid)
      /\ Thinner(orders, orders') /\ StayOpen(ledger, ledger')
  BY <1>1, <1>2, <1>3, RemoveKeeps, SameWorld
<1> QED BY <1>1, <1>4, Finished

LEMMA CancelOneOfKeeps == ASSUME EInv, NEW i \in Index, CancelOneOf(i) PROVE EInv'
<1>1. /\ regs[0] # Execute /\ regs[0].kind \in CancelAllKinds /\ Exists(i) /\ Remove(i)
      /\ CountDown /\ matching' = FALSE /\ ask' = ask /\ bid' = bid /\ now' = now
  BY DEF CancelOneOf, Finishing, Untouched
<1>2. /\ World(ledger', orders', book', ask, bid)
      /\ Thinner(orders, orders') /\ StayOpen(ledger, ledger')
  BY <1>1, RemoveKeeps DEF EInv
<1> QED BY <1>1, <1>2, CountedDown

\* An instruction that cancels many orders.
LEMMA ManyFits ==
    ASSUME NEW L, NEW O, NEW A, NEW B, NEW x, x \in InstructionSet, x.kind \in CancelAllKinds
    PROVE  NewFits(L, O, A, B, CancelMany(x), 0) /\ DOMAIN CancelMany(x) \subseteq 0..2
<1>1. InstructionFits(A, B, x) /\ x.kind # "insert_order"
  BY DEF InstructionFits, CancelAllKinds
<1>2. /\ NewFits(L, O, A, B, Slot(0, x), 0) /\ DOMAIN Slot(0, x) = {0}
      /\ NewFits(L, O, A, B, Nothing, 0) /\ DOMAIN Nothing = {}
  BY <1>1, SlotFits, NothingFits
<1> QED BY <1>2 DEF CancelMany

\* A transaction that only leaves instructions.
LEMMA LeaveKeeps ==
    ASSUME EInv, Idle, NEW new, NewFits(ledger, orders, ask, bid, new, 0),
           DOMAIN new \subseteq 0..2, Leave(new)
    PROVE  EInv'
<1>1. /\ Push(new) /\ matching' = FALSE
      /\ ledger' = ledger /\ orders' = orders /\ book' = book /\ ask' = ask /\ bid' = bid
      /\ now' = now
  BY DEF Leave
<1>2. World(ledger', orders', book', ask', bid') /\ NewFits(ledger', orders', ask', bid', new, 0)
  BY <1>1 DEF EInv
<1> QED BY <1>1, <1>2, Started

LEMMA CancelAllFits ==
    ASSUME EInv, NEW a \in Account
    PROVE  /\ NewFits(ledger, orders, ask, bid, CancelAllOf(a), 0)
           /\ DOMAIN CancelAllOf(a) \subseteq 0..2
<1> DEFINE x == [kind |-> "cancel_all", owner |-> a, size |-> ledger.account[a].orders]
<1>1. ledger.account \in [Account -> [orders : Int, nonCross : Int]]
  BY DEF EInv, World, LedgerFits, Count!Counted, Count!RawLedgers
<1>2. x \in InstructionSet /\ x.kind \in CancelAllKinds
  BY <1>1 DEF InstructionSet, CancelAllKinds
<1> QED BY <1>2, ManyFits DEF CancelAllOf

LEMMA CancelInMarketFits ==
    ASSUME EInv, NEW a \in Account, NEW m \in Market, NEW kind \in {"cancel_market",
           "cancel_isolated", "cancel_position_tied"}, NEW size \in Int,
           NEW x, x = [kind |-> kind, owner |-> a, market |-> m, size |-> size]
    PROVE  /\ NewFits(ledger, orders, ask, bid, CancelMany(x), 0)
           /\ DOMAIN CancelMany(x) \subseteq 0..2
           /\ x \in InstructionSet
<1>1. x \in InstructionSet /\ x.kind \in CancelAllKinds
  BY DEF InstructionSet, CancelAllKinds
<1> QED BY <1>1, ManyFits

LEMMA CancelCrossFits ==
    ASSUME EInv, NEW a \in Account
    PROVE  /\ NewFits(ledger, orders, ask, bid, CancelCrossOf(a), 0)
           /\ DOMAIN CancelCrossOf(a) \subseteq 0..2
<1> DEFINE x == [kind |-> "cancel_cross", owner |-> a,
                 size |-> ledger.account[a].orders - ledger.account[a].nonCross]
<1>1. ledger.account \in [Account -> [orders : Int, nonCross : Int]]
  BY DEF EInv, World, LedgerFits, Count!Counted, Count!RawLedgers
<1>2. x \in InstructionSet /\ x.kind \in CancelAllKinds
  BY <1>1 DEF InstructionSet, CancelAllKinds
<1>3. /\ NewFits(ledger, orders, ask, bid, CancelMany(x), 0)
      /\ DOMAIN CancelMany(x) \subseteq 0..2
  BY <1>2, ManyFits
<1> QED BY <1>3, CancelAllFits DEF CancelCrossOf

LEMMA CancelAllOrdersKeeps == ASSUME EInv, NEW a \in Account, CancelAllOrders(a) PROVE EInv'
BY CancelAllFits, LeaveKeeps DEF CancelAllOrders

LEMMA ScheduleKeeps ==
    ASSUME EInv, NEW a \in Account, NEW time, ScheduleCancelAll(a, time) PROVE EInv'
BY NothingFits, LeaveKeeps DEF ScheduleCancelAll

LEMMA CancelMarketOrdersKeeps ==
    ASSUME EInv, NEW a \in Account, NEW m \in Market, CancelMarketOrders(a, m) PROVE EInv'
<1>1. ledger.position[<<a, m>>].orders \in Int
  BY PositionSizeType DEF Count!RawPositions
<1>2. /\ NewFits(ledger, orders, ask, bid, CancelMarketOf(a, m), 0)
      /\ DOMAIN CancelMarketOf(a, m) \subseteq 0..2
  BY <1>1, CancelInMarketFits DEF CancelMarketOf
<1> QED BY <1>2, LeaveKeeps DEF CancelMarketOrders

LEMMA CancelAllByDmsKeeps == ASSUME EInv, NEW a \in Account, CancelAllByDms(a) PROVE EInv'
BY CancelAllFits, LeaveKeeps DEF CancelAllByDms

LEMMA CancelAllInLiquidationKeeps ==
    ASSUME EInv, NEW a \in Account, NEW m \in Market, CancelAllInLiquidation(a, m) PROVE EInv'
<1>1. ledger.position[<<a, m>>].orders \in Int
  BY PositionSizeType DEF Count!RawPositions
<1>2. /\ NewFits(ledger, orders, ask, bid, CancelIsolatedOf(a, m), 0)
      /\ DOMAIN CancelIsolatedOf(a, m) \subseteq 0..2
  BY <1>1, CancelInMarketFits DEF CancelIsolatedOf
<1> QED BY <1>2, CancelCrossFits, LeaveKeeps DEF CancelAllInLiquidation

-----------------------------------------------------------------------------
(* Those that trigger what waits, move positions and close markets.                     *)

\* An order that waits leaves no leaf behind.
LEMMA ForgetWorld ==
    ASSUME World(ledger, orders, book, ask, bid), NEW i \in Index, Exists(i),
           orders[i].trigger # "na", Forget(i), book' = book
    PROVE  /\ World(ledger', orders', book', ask, bid)
           /\ Thinner(orders, orders') /\ StayOpen(ledger, ledger')
           /\ ledger'.market[orders[i].market].status = ledger.market[orders[i].market].status
<1> DEFINE M == Ledger!Decrement(ledger, orders[i])
<1>1. orders' = [orders EXCEPT ![i] = NoOrder] /\ ledger' = M
  BY DEF Forget
<1>2. orders = [j \in Index |-> orders[j]] /\ orders[i] # NoOrder /\ orders[i].market \in Market
  BY OrderKnown DEF World, OrdersFit, Exists
<1>3. World(M, orders', book', ask, bid) /\ SameSizes(ledger, M)
  <2> DEFINE P == [orders EXCEPT ![i] = NoOrder]
             e == book \ At(book, orders[i])
  <2>1. World(M, P, e, ask, bid) /\ SameSizes(ledger, M) /\ e = book
    BY <1>2, WorldDrop
  <2> HIDE DEF M, e
  <2> QED BY <1>1, <2>1
<1> HIDE DEF M
<1>4. Thinner(orders, orders')
  BY <1>1, <1>2 DEF Thinner, IsResting
<1>5. StayOpen(ledger, M)
  BY <1>3 DEF StayOpen, SameSizes, SameMarkets
<1> QED BY <1>1, <1>2, <1>3, <1>4, <1>5 DEF SameSizes, SameMarkets

LEMMA DropHopelessKeeps == ASSUME EInv, NEW i \in Index, DropHopeless(i) PROVE EInv'
<1>1. /\ Idle /\ Exists(i) /\ orders[i].trigger # "na" /\ Forget(i) /\ Push(Nothing)
      /\ matching' = FALSE /\ book' = book /\ ask' = ask /\ bid' = bid /\ now' = now
  BY DEF DropHopeless, Untouched
<1>2. World(ledger', orders', book', ask', bid')
  BY <1>1, ForgetWorld DEF EInv
<1>3. NewFits(ledger', orders', ask', bid', Nothing, 0) /\ DOMAIN Nothing \subseteq 0..2
  BY NothingFits
<1> QED BY <1>1, <1>2, <1>3, Started

\* A fired order, under the order that cancels its sibling.
LEMMA FiredFits ==
    ASSUME NEW L, NEW O, NEW A, NEW B, NEW i, NEW o, OrderFits(A, B, i, o), O[i] = NoOrder,
           L.market[o.market].status = Ledger!Active, o.trigger = "na", TakerApart(O, o),
           o.children = << >>
    PROVE  NewFits(L, O, A, B, Fired(i, o), 0) /\ DOMAIN Fired(i, o) \subseteq 0..2
<1> DEFINE x == Insert(i, o)
           y == CancelOne(o, o.sibling)
           new == Fired(i, o)
<1>1. x.kind = "insert_order" /\ x.index = i /\ x.order = o /\ x.slack = 0
  BY DEF Insert
<1>2. i \in Index /\ o \in OrderSet
  BY DEF OrderFits, GivenOut
<1>3. InstructionFits(A, B, x)
  <2>1. x \in InstructionSet
    BY <1>2 DEF InstructionSet, Insert
  <2> QED BY <1>1, <2>1 DEF InstructionFits
<1>4. o.sibling # Nil => InstructionFits(A, B, y) /\ y.kind = "cancel_single"
  <2> SUFFICES ASSUME o.sibling # Nil PROVE InstructionFits(A, B, y) /\ y.kind = "cancel_single"
    OBVIOUS
  <2>1. o.owner \in Account /\ o.market \in Market /\ o.sibling \in Index
    BY <1>2 DEF OrderSet
  <2>2. y \in InstructionSet /\ y.kind = "cancel_single"
    BY <2>1 DEF CancelOne, InstructionSet
  <2> QED BY <2>2 DEF InstructionFits
<1> HIDE DEF x, y
<1>5. /\ DOMAIN new \subseteq {0, 1}
      /\ 1 \in DOMAIN new => new[1] = x
      /\ 0 \in DOMAIN new => new[0] = y /\ o.sibling # Nil
  <2>1. /\ DOMAIN Slot(1, x) = {1} /\ Slot(1, x)[1] = x
        /\ DOMAIN Slot(0, y) = {0} /\ Slot(0, y)[0] = y /\ DOMAIN Nothing = {}
    BY NothingFits DEF Slot
  <2>2. new = Over(Slot(1, x), IF o.sibling = Nil THEN Nothing ELSE Slot(0, y))
    BY DEF Fired, x, y
  <2> QED BY <2>1, <2>2 DEF Over
<1> HIDE DEF new
<1>6. ASSUME NEW j \in DOMAIN new
      PROVE  /\ InstructionFits(A, B, new[j])
             /\ new[j].kind = "insert_order" => j = 1 /\ new[j] = x
  BY <1>3, <1>4, <1>5
<1>7. DOMAIN new \subseteq 0..2 /\ DOMAIN new \subseteq 0..7
  BY <1>5
<1> QED BY <1>1, <1>6, <1>7 DEF NewFits, new

LEMMA TriggerOrderKeeps == ASSUME EInv, NEW i \in Index, TriggerOrder(i) PROVE EInv'
<1> DEFINE o == orders[i]
           m == o.market
           size == IF o.rem = 0 THEN PositionSize(o) ELSE o.rem
           n == NextNonce(m, o.isAsk)
           u == [o EXCEPT !.trigger = "na", !.nonce = n, !.initial = size, !.rem = size]
           new == Fired(i, u)
<1>1. /\ Idle /\ Exists(i) /\ o.trigger = "mark_price"
      /\ ledger.market[m].status = Ledger!Active /\ HasNonce(m)
      /\ Forget(i) /\ TakeNonces(m, o.isAsk, 1) /\ Push(new)
      /\ matching' = FALSE /\ book' = book /\ now' = now
  BY DEF TriggerOrder, Open
<1>2. World(ledger, orders, book, ask, bid) /\ NoncesFit(ask, bid) /\ OrdersFit(ask, bid, orders)
  BY DEF EInv, World
<1>3. /\ OrderFits(ask, bid, i, o) /\ o \in OrderSet /\ m \in Market /\ o.isAsk \in BOOLEAN
      /\ o.owner \in Account /\ o.children = << >> /\ o.rem \in Nat
  BY <1>1, <1>2, OrderKnown DEF Exists, OrderFits, OrderSet
<1>4. size \in Nat
  BY <1>3, PositionSizeType DEF PositionSize
<1>5. /\ Later(ask, bid, ask', bid') /\ n \in 1..MaxNonce
      /\ \A v : v.market = m /\ v.isAsk = o.isAsk /\ v.nonce = n =>
            OnSide(ask', bid', v) /\ TakerApart(orders, v)
  BY <1>1, <1>2, <1>3, NonceTaken
<1> HIDE DEF size, n
<1>6. /\ u \in OrderSet /\ u.market = m /\ u.isAsk = o.isAsk /\ u.nonce = n /\ u.rem = size
      /\ u.initial = size /\ u.trigger = "na" /\ u.children = << >>
      /\ u.mode = o.mode /\ u.scope = o.scope
  <2>1. n \in 0..MaxNonce /\ "na" \in Ledger!TriggerStatuses
    BY <1>5, Constants DEF Ledger!TriggerStatuses
  <2> QED BY <1>3, <1>4, <2>1 DEF OrderSet
<1> HIDE DEF u
<1>7. /\ World(ledger', orders', book', ask, bid) /\ Thinner(orders, orders')
      /\ ledger'.market[m].status = Ledger!Active /\ orders'[i] = NoOrder
  <2>1. orders' = [orders EXCEPT ![i] = NoOrder] /\ orders = [j \in Index |-> orders[j]]
    BY <1>1, <1>2 DEF Forget, OrdersFit
  <2> QED BY <1>1, <1>2, <2>1, ForgetWorld
<1>8. World(ledger', orders', book', ask', bid')
  BY <1>5, <1>7, WorldLater
<1>9. TakerApart(orders', u)
  BY <1>5, <1>6, <1>7 DEF TakerApart, Thinner
<1>10. OrderFits(ask', bid', i, u)
  <2>1. OrderFits(ask', bid', i, o)
    BY <1>2, <1>3, <1>5, FitsLater
  <2>2. OnSide(ask', bid', u)
    BY <1>5, <1>6
  <2>3. Len(u.children) = 0
    BY <1>6
  <2>4. SparesMasters(u)
    BY <1>3, <1>6, StillSpares DEF OrderFits
  <2> QED BY <1>4, <1>6, <2>1, <2>2, <2>3, <2>4 DEF OrderFits
<1>11. NewFits(ledger', orders', ask', bid', new, 0) /\ DOMAIN new \subseteq 0..2
  BY <1>6, <1>7, <1>9, <1>10, FiredFits
<1> HIDE DEF new
<1> QED BY <1>1, <1>8, <1>11, Started

LEMMA SliceTwapKeeps ==
    ASSUME EInv, NEW i \in Index, NEW size \in 0..MaxPosition, NEW price \in RollupPrice,
           SliceTwap(i, size, price)
    PROVE  EInv'
<1> DEFINE o == orders[i]
           m == o.market
           n == NextNonce(m, o.isAsk)
           k == <<m, n>>
           u == [o EXCEPT !.type = "twap_sub", !.price = price, !.tif = Ioc, !.expiry = NilExpiry,
                          !.trigger = "na", !.nonce = n, !.initial = size, !.rem = size,
                          !.children = << >>, !.sibling = Nil]
           new == Slot(0, Insert(k, u))
<1>1. /\ Idle /\ Exists(i) /\ o.trigger = "twap"
      /\ ledger.market[m].status = Ledger!Active /\ HasNonce(m)
      /\ SliceOf(o, size)
      /\ IF o.rem = size THEN Forget(i)
         ELSE orders' = [orders EXCEPT ![i].rem = @ - size] /\ UNCHANGED ledger
      /\ TakeNonces(m, o.isAsk, 1) /\ Push(new)
      /\ matching' = FALSE /\ book' = book /\ now' = now
  BY DEF SliceTwap, Open
<1>2. World(ledger, orders, book, ask, bid) /\ NoncesFit(ask, bid) /\ OrdersFit(ask, bid, orders)
      /\ orders = [j \in Index |-> orders[j]]
  BY DEF EInv, World, OrdersFit
<1>3. /\ OrderFits(ask, bid, i, o) /\ o \in OrderSet /\ m \in Market /\ o.isAsk \in BOOLEAN
      /\ o.owner \in Account /\ o.children = << >> /\ o.rem \in Nat /\ o.rem > 0 /\ o # NoOrder
      /\ o.initial \in Nat /\ o.rem <= o.initial
  BY <1>1, <1>2, OrderKnown DEF Exists, OrderFits, OrderSet
<1>4. size \in Nat /\ size <= o.rem /\ price \in Nat
  BY <1>1, <1>3, Constants, TypeAssumption DEF SliceOf
<1>5. /\ Later(ask, bid, ask', bid') /\ n \in 1..MaxNonce
      /\ GivenOut(ask', bid', k) /\ orders[k] = NoOrder
      /\ \A v : v.market = m /\ v.isAsk = o.isAsk /\ v.nonce = n =>
            OnSide(ask', bid', v) /\ TakerApart(orders, v)
  BY <1>1, <1>2, <1>3, NonceTaken
<1> HIDE DEF n
<1>6. /\ u \in OrderSet /\ u.market = m /\ u.isAsk = o.isAsk /\ u.nonce = n /\ u.rem = size
      /\ u.initial = size /\ u.trigger = "na" /\ u.children = << >>
      /\ u.mode = o.mode /\ u.scope = o.scope
  <2>1. n \in 0..MaxNonce /\ "na" \in Ledger!TriggerStatuses
    BY <1>5, Constants DEF Ledger!TriggerStatuses
  <2> QED BY <1>3, <1>4, <2>1
          DEF OrderSet, MarketTypes, TimesInForce, Ioc, NilExpiry, Nil
<1> HIDE DEF u
<1>7. /\ World(ledger', orders', book', ask, bid) /\ Thinner(orders, orders')
      /\ ledger'.market[m].status = Ledger!Active /\ orders'[k] = NoOrder
  <2>1. CASE o.rem = size
    <3>1. orders' = [orders EXCEPT ![i] = NoOrder]
      BY <1>1, <2>1 DEF Forget
    <3> QED BY <1>1, <1>2, <1>5, <2>1, <3>1, ForgetWorld DEF GivenOut
  <2>2. CASE o.rem # size
    <3> DEFINE w == [o EXCEPT !.rem = @ - size]
    <3>1. orders' = [orders EXCEPT ![i] = w] /\ ledger' = ledger
      BY <1>1, <2>2
    <3>2. /\ w \in OrderSet /\ w.owner = o.owner /\ w.market = o.market /\ w.trigger = "twap"
          /\ w.reduceOnly = o.reduceOnly /\ w.rem = o.rem - size /\ w.initial = o.initial
          /\ w.nonce = o.nonce /\ w.children = o.children
          /\ w.mode = o.mode /\ w.scope = o.scope
      <4> DEFINE x == o.rem - size
      <4>1. x \in Nat /\ w = [o EXCEPT !.rem = x]
        BY <1>3, <1>4
      <4>2. x = o.rem - size
        OBVIOUS
      <4> HIDE DEF x, w
      <4> QED BY <1>1, <1>3, <4>1, <4>2 DEF OrderSet
    <3> HIDE DEF w
    <3>3. OrderFits(ask, bid, i, w)
      <4>1. SparesMasters(w)
        BY <1>3, <3>2, StillSpares DEF OrderFits
      <4> QED BY <1>1, <1>3, <1>4, <2>2, <3>2, <4>1 DEF OrderFits
    <3>4. LedgerFits(ledger, [orders EXCEPT ![i] = w])
      BY <1>1, <1>2, <1>3, <3>2, ChangeFits DEF World, Ledger!IsTied
    <3>5. World(ledger', orders', book', ask, bid)
      BY <1>1, <1>2, <1>3, <3>1, <3>2, <3>3, <3>4, WorldWait
    <3>6. Thinner(orders, orders')
      BY <1>2, <1>3, <3>1, <3>2 DEF Thinner, IsResting
    <3>7. orders'[k] = NoOrder
      BY <1>2, <1>3, <1>5, <3>1 DEF GivenOut
    <3> QED BY <1>1, <3>1, <3>5, <3>6, <3>7
  <2> QED BY <2>1, <2>2
<1>8. World(ledger', orders', book', ask', bid')
  BY <1>5, <1>7, WorldLater
<1>9. TakerApart(orders', u)
  BY <1>5, <1>6, <1>7 DEF TakerApart, Thinner
<1>10. OrderFits(ask', bid', k, u)
  <2>1. OnSide(ask', bid', u)
    BY <1>5, <1>6
  <2>2. Len(u.children) = 0
    BY <1>6
  <2>3. SparesMasters(u)
    BY <1>3, <1>6, StillSpares DEF OrderFits
  <2> QED BY <1>4, <1>5, <1>6, <2>1, <2>2, <2>3 DEF OrderFits
<1>11. NewFits(ledger', orders', ask', bid', new, 0) /\ DOMAIN new \subseteq 0..2
  <2>1. NewFits(ledger', orders', ask', bid', new, 0) /\ DOMAIN new = {0}
    BY <1>6, <1>7, <1>9, <1>10, InsertFits
  <2> HIDE DEF new
  <2> QED BY <2>1
<1> HIDE DEF new
<1> QED BY <1>1, <1>8, <1>11, Started

LEMMA TriggerTheChildKeeps == ASSUME EInv, TriggerTheChild PROVE EInv'
<1> DEFINE i == regs[0].index
           o == orders[i]
           size == regs[0].size
           u == [o EXCEPT !.trigger = "mark_price", !.initial = size, !.rem = size]
<1>1. /\ regs[0] # Execute /\ regs[0].kind = "trigger_child" /\ regs[0].market \in Perps
      /\ ledger.market[regs[0].market].status = Ledger!Active
      /\ \/ UNCHANGED <<orders, ledger>>
         \/ /\ Exists(i) /\ o.trigger = "parent_order"
            /\ \/ Forget(i)
               \/ /\ orders' = [orders EXCEPT ![i] = u]
                  /\ ledger' = Ledger!CountTriggered(ledger, o)
      /\ Pop(Nothing) /\ matching' = FALSE /\ book' = book
      /\ ask' = ask /\ bid' = bid /\ now' = now
  BY DEF TriggerTheChild, Finishing, Open, Untouched, Triggered
<1>2. World(ledger, orders, book, ask, bid) /\ NoncesFit(ask, bid) /\ OrdersFit(ask, bid, orders)
      /\ orders = [j \in Index |-> orders[j]]
  BY DEF EInv, World, OrdersFit
<1>3. i \in Index /\ size \in Nat /\ i[1] \in Perps
  <2>1. 0 \in 0..count - 1
    BY <1>1, StackShape DEF EInv, Piled, StackFits
  <2>2. /\ regs[0] \in InstructionSet
        /\ regs[0].market = regs[0].index[1] /\ regs[0].size >= 0
    BY <1>1, <2>1 DEF EInv, Piled, StackFits, InstructionFits
  <2>3. regs[0].size \in Int /\ regs[0].index \in Index
    BY <1>1, <2>2 DEF InstructionSet
  <2> QED BY <1>1, <2>2, <2>3
<1> HIDE DEF i, size
<1>4. CASE UNCHANGED <<orders, ledger>>
  BY <1>1, <1>2, <1>4, SameWorld, Finished
<1>5. CASE Exists(i) /\ o.trigger = "parent_order" /\ Forget(i)
  <2>1. World(ledger', orders', book', ask, bid) /\ Thinner(orders, orders')
        /\ StayOpen(ledger, ledger')
    BY <1>1, <1>2, <1>3, <1>5, ForgetWorld
  <2> QED BY <1>1, <2>1, Finished
<1>6. CASE /\ Exists(i) /\ o.trigger = "parent_order"
           /\ orders' = [orders EXCEPT ![i] = u]
           /\ ledger' = Ledger!CountTriggered(ledger, o)
  <2>1. /\ OrderFits(ask, bid, i, o) /\ o \in OrderSet /\ o.market = i[1] /\ o # NoOrder
    BY <1>2, <1>3, <1>6, OrderKnown DEF Exists
  <2>2. /\ u \in OrderSet /\ u.owner = o.owner /\ u.market = o.market
        /\ u.reduceOnly = o.reduceOnly /\ u.trigger = "mark_price"
        /\ u.nonce = o.nonce /\ u.children = o.children /\ u.rem = size /\ u.initial = size
        /\ u.mode = o.mode /\ u.scope = o.scope
    BY <1>3, <2>1 DEF OrderSet, Ledger!TriggerStatuses
  <2> DEFINE M == Ledger!CountTriggered(ledger, o)
  <2> HIDE DEF u
  <2>3. LedgerFits(M, [orders EXCEPT ![i] = u]) /\ SameSizes(ledger, M)
    BY <1>2, <1>3, <1>6, <2>1, <2>2, TriggerFits DEF World
  <2> HIDE DEF M
  <2>4. OrderFits(ask, bid, i, u)
    <3>1. SparesMasters(u)
      BY <2>1, <2>2, StillSpares DEF OrderFits
    <3> QED BY <1>3, <1>6, <2>1, <2>2, <3>1 DEF OrderFits
  <2>5. World(M, [orders EXCEPT ![i] = u], book, ask, bid)
    BY <1>2, <1>3, <1>6, <2>1, <2>2, <2>3, <2>4, WorldWait
  <2>6. Thinner(orders, orders')
    BY <1>2, <1>6, <2>1, <2>2 DEF Thinner, IsResting
  <2>7. StayOpen(ledger, M)
    BY <2>3 DEF StayOpen, SameSizes, SameMarkets
  <2>8. ledger' = M
    BY <1>6 DEF M
  <2> QED BY <1>1, <1>6, <2>5, <2>6, <2>7, <2>8, Finished
<1> QED BY <1>1, <1>4, <1>5, <1>6

LEMMA TransferFeeKeeps == ASSUME EInv, TransferFee PROVE EInv'
<1>1. /\ regs[0] # Execute /\ Pop(Nothing) /\ matching' = FALSE
      /\ ledger' = ledger /\ orders' = orders /\ book' = book
      /\ ask' = ask /\ bid' = bid /\ now' = now
  BY DEF TransferFee, Finishing, Untouched
<1> QED BY <1>1, SameWorld, Finished DEF EInv

LEMMA ClaimOrderKeeps == ASSUME EInv, ClaimOrder PROVE EInv'
<1>1. /\ regs[0] # Execute /\ regs[0].kind = "insert_order" /\ regs' = regs /\ count' = count
      /\ ledger' = ledger /\ orders' = orders /\ book' = book
      /\ ask' = ask /\ bid' = bid /\ now' = now
  BY DEF ClaimOrder, Finishing
<1> QED BY <1>1 DEF EInv

LEMMA TickKeeps == ASSUME EInv, Tick PROVE EInv'
<1>1. /\ regs' = regs /\ count' = count /\ matching' = FALSE
      /\ ledger' = ledger /\ orders' = orders /\ book' = book
      /\ ask' = ask /\ bid' = bid /\ now' = now + 1 /\ now < MaxTime
  BY DEF Tick, EInv
<1>2. now' \in 1..MaxTime
  BY <1>1, Constants DEF EInv
<1> QED BY <1>1, <1>2 DEF EInv

LEMMA ExpireMarketKeeps == ASSUME EInv, NEW m \in Market, ExpireMarket(m) PROVE EInv'
<1>1. /\ Idle /\ ledger.market[m].status = Ledger!Active
      /\ ledger' = Ledger!Close(ledger, m) /\ orders' = orders /\ book' = book
      /\ ask' = ask /\ bid' = bid /\ now' = now /\ regs' = regs /\ count' = count
      /\ matching' = FALSE
  BY DEF ExpireMarket, Idle
<1>2. World(ledger', orders', book', ask', bid')
  BY <1>1, CloseFits DEF EInv, World
<1>3. Piled(ledger', orders', ask', bid', regs', count')
  <2>1. count = 0 /\ Shift!NoHolesIn(regs, 0)
    BY <1>1, IdleIsEmpty
  <2> QED BY <1>1, <2>1, PiledEmpty
<1> QED BY <1>1, <1>2, <1>3 DEF EInv

LEMMA ExitPositionKeeps ==
    ASSUME EInv, NEW a \in Account, NEW m \in Market, ExitPosition(a, m) PROVE EInv'
<1> DEFINE K == [ledger EXCEPT !.market[m].openInterest =
                     @ - Ledger!Abs(ledger.position[<<a, m>>].size)]
<1>1. /\ Idle /\ m \in Perps /\ ledger.position[<<a, m>>].orders = 0
      /\ ledger' = [Ledger!Release(K, m) EXCEPT !.position[<<a, m>>] = Ledger!EmptyPosition]
      /\ Push(Nothing) /\ matching' = FALSE /\ orders' = orders /\ book' = book
      /\ ask' = ask /\ bid' = bid /\ now' = now
  BY DEF ExitPosition, Untouched
<1>2. LedgerFits(ledger', orders)
  BY <1>1, ExitFits DEF EInv, World
<1>3. World(ledger', orders', book', ask', bid')
  BY <1>1, <1>2 DEF EInv, World
<1>4. NewFits(ledger', orders', ask', bid', Nothing, 0) /\ DOMAIN Nothing \subseteq 0..2
  BY NothingFits
<1> QED BY <1>1, <1>3, <1>4, Started

LEMMA DeleveragePositionKeeps ==
    ASSUME EInv, NEW a \in Account, NEW b \in Account, NEW m \in Market,
           NEW size \in 1..MaxPosition, DeleveragePosition(a, b, m, size)
    PROVE  EInv'
<1> DEFINE p == ledger.position[<<a, m>>]
           q == ledger.position[<<b, m>>]
           d == IF p.size > 0 THEN -size ELSE size
           K == Ledger!Move(ledger, a, m, d)
           M == Ledger!Move(K, b, m, -d)
           new == Flipped(b, m, q, M.position[<<b, m>>].size)
<1>1. /\ Idle /\ m \in Perps /\ ledger.market[m].status = Ledger!Active
      /\ ledger' = M /\ Push(new)
      /\ matching' = FALSE /\ orders' = orders /\ book' = book
      /\ ask' = ask /\ bid' = bid /\ now' = now
  BY DEF DeleveragePosition, Untouched
<1>2. d \in Int /\ -d \in Int
  BY Constants
<1>3. World(ledger, orders, book, ask, bid) /\ LedgerFits(ledger, orders)
  BY DEF EInv, World
<1> HIDE DEF d
<1>4. LedgerFits(K, orders) /\ SameMarkets(ledger, K)
  BY <1>1, <1>2, <1>3, MoveFits DEF Ledger!Active, Ledger!Expired
<1> HIDE DEF K
<1>5. LedgerFits(M, orders)
  <2>1. K.market[m].status # Ledger!Expired
    BY <1>1, <1>4 DEF SameMarkets, Ledger!Active, Ledger!Expired
  <2> QED BY <1>1, <1>2, <1>4, <2>1, MoveFits
<1> HIDE DEF M
<1>6. World(ledger', orders', book', ask', bid')
  BY <1>1, <1>3, <1>5 DEF World
<1>7. NewFits(ledger', orders', ask', bid', new, 0) /\ DOMAIN new \subseteq 0..2
  <2> DEFINE x == CancelTied(b, m, q.tied)
  <2>1. q.tied \in Int
    BY PositionSizeType DEF Count!RawPositions
  <2>2. x \in InstructionSet /\ x.kind = "cancel_position_tied"
    BY <2>1 DEF CancelTied, InstructionSet
  <2>3. InstructionFits(ask', bid', x) /\ x.kind # "insert_order"
    BY <2>2 DEF InstructionFits
  <2>4. new \in {Nothing, Slot(0, x)}
    BY DEF Flipped
  <2> HIDE DEF x, new
  <2>5. /\ NewFits(ledger', orders', ask', bid', Slot(0, x), 0) /\ DOMAIN Slot(0, x) = {0}
        /\ NewFits(ledger', orders', ask', bid', Nothing, 0) /\ DOMAIN Nothing = {}
    BY <2>3, SlotFits, NothingFits
  <2> QED BY <2>4, <2>5
<1> HIDE DEF new
<1> QED BY <1>1, <1>6, <1>7, Started

\* A modified order leaves its leaves.
LEMMA TakeOutWorld ==
    ASSUME World(ledger, orders, book, ask, bid), NEW i \in Index, Exists(i), TakeOut(i)
    PROVE  /\ World(ledger', orders', book', ask, bid)
           /\ Thinner(orders, orders') /\ orders'[i] = NoOrder
           /\ SameMarkets(ledger, ledger')
<1> DEFINE M == Ledger!Decrement(ledger, orders[i])
<1>1. /\ orders' = [orders EXCEPT ![i] = NoOrder] /\ ledger' = M
      /\ book' = book \ At(book, orders[i])
  BY DEF TakeOut
<1>2. orders = [j \in Index |-> orders[j]] /\ orders[i] # NoOrder
  BY DEF World, OrdersFit, Exists
<1>3. World(M, orders', book', ask, bid) /\ SameSizes(ledger, M)
  BY <1>1, <1>2, WorldDrop
<1> HIDE DEF M
<1>4. Thinner(orders, orders') /\ orders'[i] = NoOrder
  BY <1>1, <1>2 DEF Thinner, IsResting
<1> QED BY <1>1, <1>3, <1>4 DEF SameSizes

LEMMA ModifyOrderKeeps ==
    ASSUME EInv, NEW i \in Index, NEW c \in Change, ModifyOrder(i, c) PROVE EInv'
<1> DEFINE o == orders[i]
           m == o.market
           matched == o.initial - o.rem
           filled == c.base # 0 /\ c.base <= matched
           n == NextNonce(m, o.isAsk)
           initial == IF c.base = 0 THEN o.initial ELSE c.base
           left == IF c.base = 0 THEN o.rem ELSE c.base - matched
           u == [o EXCEPT !.price = c.price, !.mode = c.mode, !.scope = c.scope, !.fee = c.fee,
                          !.initial = initial, !.rem = left]
           again == [u EXCEPT !.nonce = n]
<1>1. /\ Idle /\ Exists(i) /\ ledger.market[m].status = Ledger!Active /\ HasNonce(m)
      /\ AttributesFit(c)
      /\ o.trigger \in {"na", "twap"} => c.base # 0
      /\ \/ /\ filled /\ TakeOut(i) /\ Push(TriggerChildren(o, matched, 1))
            /\ matching' = FALSE /\ UNCHANGED <<ask, bid>>
         \/ /\ ~filled /\ o.trigger = "na" /\ TakeOut(i) /\ TakeNonces(m, o.isAsk, 1)
            /\ Push(Slot(0, Insert(i, again)))
         \/ /\ ~filled /\ o.trigger # "na" /\ orders' = [orders EXCEPT ![i] = u]
            /\ Push(Nothing) /\ matching' = FALSE
            /\ UNCHANGED <<ask, bid, book, ledger, locked>>
      /\ now' = now
  BY DEF ModifyOrder, Left
<1>2. World(ledger, orders, book, ask, bid) /\ NoncesFit(ask, bid) /\ OrdersFit(ask, bid, orders)
      /\ orders = [j \in Index |-> orders[j]]
  BY DEF EInv, World, OrdersFit
<1>3. /\ OrderFits(ask, bid, i, o) /\ o \in OrderSet /\ m = i[1] /\ m \in Market
      /\ o.isAsk \in BOOLEAN /\ o.rem \in Nat /\ o.initial \in Nat /\ o.rem <= o.initial
      /\ o # NoOrder
  BY <1>1, <1>2, OrderKnown DEF Exists, OrderFits
<1>4. /\ matched \in Nat
      /\ o.initial = o.rem => matched = 0
      /\ c.base \in Nat /\ c \in ChangeSet
  BY <1>3, TypeAssumption DEF ChangeSet
<1>5. CASE filled /\ TakeOut(i) /\ Push(TriggerChildren(o, matched, 1)) /\ matching' = FALSE
           /\ UNCHANGED <<ask, bid>>
  <2> DEFINE new == TriggerChildren(o, matched, 1)
  <2>1. World(ledger', orders', book', ask', bid')
    BY <1>1, <1>2, <1>5, TakeOutWorld
  <2> HIDE DEF matched
  <2>2. NewFits(ledger', orders', ask', bid', new, 0) /\ DOMAIN new \subseteq 0..2
    BY <1>3, <1>4, <1>5, ChildrenPushed
  <2> HIDE DEF new
  <2> QED BY <1>1, <1>5, <2>1, <2>2, Started DEF new
<1>6. ASSUME ~filled
      PROVE  /\ left \in Nat /\ initial \in Nat /\ left <= initial
             /\ o.initial = o.rem => initial = left
             /\ c.base # 0 => left > 0
  BY <1>3, <1>4, <1>6
<1> HIDE DEF left, initial
<1>7. ASSUME ~filled
      PROVE  /\ u \in OrderSet /\ u.owner = o.owner /\ u.market = m /\ u.isAsk = o.isAsk
             /\ u.reduceOnly = o.reduceOnly /\ u.trigger = o.trigger /\ u.nonce = o.nonce
             /\ u.children = o.children /\ u.initial = initial /\ u.rem = left
             /\ u.mode = c.mode /\ u.scope = c.scope
  <2>1. c.price \in Nat /\ c.mode \in SelfTradeModes /\ c.scope \in Scopes /\ c.fee \in BOOLEAN
    BY <1>4 DEF ChangeSet
  <2> QED BY <1>3, <1>6, <1>7, <2>1 DEF OrderSet
<1>10. ASSUME ~filled PROVE SparesMasters(u)
  BY <1>1, <1>7, <1>10 DEF AttributesFit, SparesMasters
<1> HIDE DEF u, filled
<1>8. CASE ~filled /\ o.trigger # "na" /\ orders' = [orders EXCEPT ![i] = u] /\ Push(Nothing)
           /\ matching' = FALSE /\ UNCHANGED <<ask, bid, book, ledger, locked>>
  <2>1. OrderFits(ask, bid, i, u)
    BY <1>1, <1>3, <1>6, <1>7, <1>8, <1>10 DEF OrderFits
  <2>2. LedgerFits(ledger, [orders EXCEPT ![i] = u])
    BY <1>2, <1>3, <1>7, <1>8, ChangeFits DEF World, Ledger!IsTied
  <2>3. World(ledger', orders', book', ask', bid')
    BY <1>2, <1>3, <1>7, <1>8, <2>1, <2>2, WorldWait
  <2>4. NewFits(ledger', orders', ask', bid', Nothing, 0) /\ DOMAIN Nothing \subseteq 0..2
    BY NothingFits
  <2> QED BY <1>1, <1>8, <2>3, <2>4, Started
<1>9. CASE ~filled /\ o.trigger = "na" /\ TakeOut(i) /\ TakeNonces(m, o.isAsk, 1)
           /\ Push(Slot(0, Insert(i, again)))
  <2> DEFINE new == Slot(0, Insert(i, again))
  <2>1. /\ World(ledger', orders', book', ask, bid) /\ Thinner(orders, orders')
        /\ ledger'.market[m].status = Ledger!Active /\ orders'[i] = NoOrder
    BY <1>1, <1>2, <1>3, <1>9, TakeOutWorld DEF SameMarkets
  <2>2. /\ Later(ask, bid, ask', bid') /\ n \in 1..MaxNonce
        /\ \A v : v.market = m /\ v.isAsk = o.isAsk /\ v.nonce = n =>
              OnSide(ask', bid', v) /\ TakerApart(orders, v)
    BY <1>1, <1>2, <1>3, <1>9, NonceTaken
  <2> HIDE DEF n
  <2>3. /\ again \in OrderSet /\ again.market = m /\ again.isAsk = o.isAsk
        /\ again.trigger = "na" /\ again.nonce = n /\ again.children = o.children
        /\ again.initial = initial /\ again.rem = left
        /\ again.mode = u.mode /\ again.scope = u.scope
    <3>1. n \in 0..MaxNonce
      BY <2>2, Constants
    <3>2. again = [u EXCEPT !.nonce = n]
      OBVIOUS
    <3>3. /\ u \in OrderSet /\ u.market = m /\ u.isAsk = o.isAsk /\ u.trigger = "na"
          /\ u.children = o.children /\ u.initial = initial /\ u.rem = left
      BY <1>7, <1>9
    <3> HIDE DEF again, initial, left, o, m
    <3>4. again \in OrderSet
      BY <3>1, <3>2, <3>3 DEF OrderSet
    <3>5. /\ again.market = m /\ again.isAsk = o.isAsk /\ again.trigger = "na"
          /\ again.nonce = n /\ again.children = o.children
          /\ again.initial = initial /\ again.rem = left
          /\ again.mode = u.mode /\ again.scope = u.scope
      BY <3>2, <3>3 DEF OrderSet
    <3> QED BY <3>4, <3>5
  <2> HIDE DEF again
  <2>4. TakerApart(orders', again)
    BY <2>1, <2>2, <2>3 DEF TakerApart, Thinner
  <2>5. OrderFits(ask', bid', i, again)
    <3>1. OrderFits(ask', bid', i, o) /\ OnSide(ask', bid', again)
      BY <1>2, <1>3, <2>2, <2>3, FitsLater
    <3>2. SparesMasters(again)
      BY <1>9, <1>10, <2>3, StillSpares
    <3> QED BY <1>3, <1>6, <1>9, <2>3, <3>1, <3>2 DEF OrderFits
  <2>6. World(ledger', orders', book', ask', bid')
    BY <2>1, <2>2, WorldLater
  <2>7. /\ NewFits(ledger', orders', ask', bid', new, 0) /\ DOMAIN new = {0}
        /\ new[0].kind = "insert_order"
    BY <2>1, <2>3, <2>4, <2>5, InsertFits
  <2> HIDE DEF new
  <2>8. DOMAIN new \subseteq 0..2 /\ DOMAIN new # {}
        /\ \A j \in DOMAIN new : new[j].kind = "insert_order"
    BY <2>7
  <2> QED BY <1>1, <1>9, <2>6, <2>7, <2>8, Started DEF new
<1> QED BY <1>1, <1>5, <1>8, <1>9 DEF filled

-----------------------------------------------------------------------------
(* Groups of orders.                                                                    *)

LEMMA SmallSets ==
    /\ Cardinality({}) = 0
    /\ \A x : Cardinality({x}) = 1
    /\ \A x, y : x # y => Cardinality({x, y}) = 2
<1>1. Cardinality({}) = 0 /\ \A x : IsFiniteSet({x}) /\ Cardinality({x}) = 1
  BY FS_EmptySet, FS_Singleton
<1>2. ASSUME NEW x, NEW y, x # y PROVE Cardinality({x, y}) = 2
  <2>1. {x, y} = {x} \union {y} /\ y \notin {x}
    BY <1>2
  <2> DEFINE S == {x}
             T == {x, y}
  <2>2. IsFiniteSet(S) /\ Cardinality(S) = 1 /\ y \notin S /\ S \union {y} = T
    BY <1>1, <2>1
  <2> HIDE DEF S, T
  <2>3. Cardinality(S \union {y}) = Cardinality(S) + 1
    BY <2>2, FS_AddElement
  <2>4. Cardinality(T) = 2
    BY <2>2, <2>3
  <2> QED BY <2>4 DEF T
<1> QED BY <1>1, <1>2

\* The sides of the legs: those of an oco are on one side, the children of a parent on the
\* other side.
LEMMA LegsKnown ==
    ASSUME NEW g \in Group, Grouped(g)
    PROVE  /\ Len(g.legs) \in {2, 3} /\ DOMAIN g.legs = 1..Len(g.legs)
           /\ \A k \in 1..Len(g.legs) : /\ g.legs[k] \in RequestSet
                                        /\ g.legs[k].market = g.legs[1].market
           /\ \/ /\ g.kind = "oco" /\ Len(g.legs) = 2
                 /\ g.legs[1].isAsk = g.legs[2].isAsk
              \/ /\ g.kind = "oto" /\ Len(g.legs) = 2
                 /\ g.legs[1].isAsk # g.legs[2].isAsk
              \/ /\ g.kind = "otoco" /\ Len(g.legs) = 3
                 /\ g.legs[1].isAsk # g.legs[2].isAsk /\ g.legs[2].isAsk = g.legs[3].isAsk
<1>1. /\ g.kind \in {"oco", "oto", "otoco"} /\ g.legs \in Seq(RequestSet)
      /\ \A k \in DOMAIN g.legs : g.legs[k].market = g.legs[1].market
  BY GroupAssumption
<1>2. DOMAIN g.legs = 1..Len(g.legs) /\ \A k \in 1..Len(g.legs) : g.legs[k] \in RequestSet
  BY <1>1
<1>3. CASE g.kind = "oco"
  BY <1>1, <1>2, <1>3 DEF Grouped, OneCancelsOther, SiblingsWellFormed
<1>4. CASE g.kind = "oto"
  <2>1. Len(g.legs) = 2 /\ ChildOf(g.legs[1], g.legs[2])
    BY <1>4 DEF Grouped
  <2> QED BY <1>1, <1>2, <1>4, <2>1 DEF ChildOf
<1>5. CASE g.kind = "otoco"
  <2>1. /\ Len(g.legs) = 3 /\ ChildOf(g.legs[1], g.legs[2])
        /\ SiblingsWellFormed(g.legs[2], g.legs[3])
    BY <1>5 DEF Grouped
  <2> QED BY <1>1, <1>2, <1>5, <2>1 DEF ChildOf, SiblingsWellFormed
<1> QED BY <1>1, <1>3, <1>4, <1>5

\* How many legs are asks, and how many legs before one are on its side.
AsksOf(legs) == Cardinality({k \in DOMAIN legs : legs[k].isAsk})
LegsBefore(legs, k) == Cardinality({j \in 1..k-1 : SameSide(legs[j], legs[k])})

\* What they are by the sides of n legs.
LegsSided(legs, n) ==
    /\ n \in {2, 3} /\ LegsBefore(legs, 1) = 0
    /\ \/ /\ n = 2 /\ legs[1].isAsk /\ legs[2].isAsk
          /\ LegsBefore(legs, 2) = 1 /\ AsksOf(legs) = 2
       \/ /\ n = 2 /\ ~legs[1].isAsk /\ ~legs[2].isAsk
          /\ LegsBefore(legs, 2) = 1 /\ AsksOf(legs) = 0
       \/ /\ legs[1].isAsk /\ ~legs[2].isAsk /\ LegsBefore(legs, 2) = 0
          /\ AsksOf(legs) = 1
          /\ n = 3 => ~legs[3].isAsk /\ LegsBefore(legs, 3) = 1
       \/ /\ ~legs[1].isAsk /\ legs[2].isAsk /\ LegsBefore(legs, 2) = 0
          /\ AsksOf(legs) = n - 1
          /\ n = 3 => legs[3].isAsk /\ LegsBefore(legs, 3) = 1

LEMMA LegsCounted ==
    ASSUME NEW g \in Group, Grouped(g), NEW legs, legs = g.legs, NEW n, n = Len(legs)
    PROVE  LegsSided(legs, n)
<1> DEFINE S == {k \in DOMAIN legs : legs[k].isAsk}
           same(k) == {j \in 1..k-1 : SameSide(legs[j], legs[k])}
<1>1. /\ n \in {2, 3} /\ DOMAIN legs = 1..n
      /\ \A k \in 1..n : legs[k].isAsk \in BOOLEAN
      /\ \/ n = 2 /\ legs[1].isAsk = legs[2].isAsk
         \/ n = 2 /\ legs[1].isAsk # legs[2].isAsk
         \/ n = 3 /\ legs[1].isAsk # legs[2].isAsk /\ legs[2].isAsk = legs[3].isAsk
  BY LegsKnown DEF RequestSet
<1>2. /\ 1 \in 1..n /\ 2 \in 1..n
      /\ \A k \in 1..n : k = 1 \/ k = 2 \/ (n = 3 /\ k = 3)
  BY <1>1
<1>0. AsksOf(legs) = Cardinality(S)
  BY DEF AsksOf
<1>3. \A k : LegsBefore(legs, k) = Cardinality(same(k))
  BY DEF LegsBefore
<1>4. LegsBefore(legs, 1) = 0
  BY SmallSets DEF LegsBefore
<1>5. CASE n = 2 /\ legs[1].isAsk = legs[2].isAsk
  <2>1. same(2) = {1}
    BY <1>5 DEF SameSide
  <2>2. LegsBefore(legs, 2) = 1
    <3> HIDE DEF same
    <3> QED BY <1>3, <2>1, SmallSets
  <2>3. CASE legs[1].isAsk
    <3>1. S = {1, 2}
      <4>1. DOMAIN legs = {1, 2} /\ legs[1].isAsk /\ legs[2].isAsk
        BY <1>1, <1>5, <2>3
      <4> QED BY <4>1
    <3>2. AsksOf(legs) = 2
      <4>1. Cardinality({1, 2}) = 2
        <5>1. 1 # 2
          OBVIOUS
        <5> QED BY <5>1, SmallSets
      <4> HIDE DEF S
      <4> QED BY <1>0, <3>1, <4>1
    <3> QED BY <1>1, <1>4, <1>5, <2>2, <2>3, <3>2 DEF LegsSided
  <2>4. CASE ~legs[1].isAsk
    <3>1. S = {}
      BY <1>1, <1>2, <1>5, <2>4
    <3>2. AsksOf(legs) = 0
      BY <1>0, <3>1, SmallSets
    <3> QED BY <1>1, <1>4, <1>5, <2>2, <2>4, <3>2 DEF LegsSided
  <2> QED BY <2>3, <2>4
<1>6. CASE legs[1].isAsk # legs[2].isAsk /\ (n = 3 => legs[2].isAsk = legs[3].isAsk)
  <2>1. same(2) = {}
    BY <1>6 DEF SameSide
  <2>2. LegsBefore(legs, 2) = 0
    BY <1>3, <2>1, SmallSets
  <2>3. n = 3 => LegsBefore(legs, 3) = 1
    <3> SUFFICES ASSUME n = 3 PROVE LegsBefore(legs, 3) = 1
      OBVIOUS
    <3>1. same(3) = {2}
      BY <1>6 DEF SameSide
    <3> HIDE DEF same
    <3> QED BY <1>3, <3>1, SmallSets
  <2>4. legs[1].isAsk \in BOOLEAN /\ legs[2].isAsk \in BOOLEAN
    BY <1>1, <1>2
  <2>5. CASE legs[1].isAsk /\ ~legs[2].isAsk
    <3>1. S = {1}
      BY <1>1, <1>2, <1>6, <2>5
    <3>2. AsksOf(legs) = 1
      BY <1>0, <3>1, SmallSets
    <3>3. n = 3 => ~legs[3].isAsk
      BY <1>6, <2>5
    <3> QED BY <1>1, <1>4, <2>2, <2>3, <2>5, <3>2, <3>3 DEF LegsSided
  <2>6. CASE ~legs[1].isAsk /\ legs[2].isAsk
    <3>1. n = 3 => legs[3].isAsk
      BY <1>6, <2>6
    <3>2. AsksOf(legs) = n - 1
      <4>1. CASE n = 2
        <5>1. S = {2}
          BY <1>1, <1>2, <1>6, <2>6, <4>1
        <5> HIDE DEF S
        <5>2. AsksOf(legs) = 1
          BY <1>0, <5>1, SmallSets
        <5> QED BY <4>1, <5>2
      <4>2. CASE n = 3
        <5>1. S = {2, 3}
          BY <1>1, <2>6, <3>1, <4>2
        <5> HIDE DEF S
        <5>2. Cardinality({2, 3}) = 2
          <6>1. 2 # 3
            OBVIOUS
          <6> QED BY <6>1, SmallSets
        <5>3. AsksOf(legs) = 2
          BY <1>0, <5>1, <5>2
        <5> QED BY <4>2, <5>3
      <4> QED BY <1>1, <4>1, <4>2
    <3> QED BY <1>1, <1>4, <2>2, <2>3, <2>6, <3>1, <3>2 DEF LegsSided
  <2> QED BY <1>6, <2>4, <2>5, <2>6
<1> QED BY <1>1, <1>5, <1>6

\* The nonces the legs take: each on its side, all different, none given out before.
LegNonce(legs, lo, hi, k) ==
    IF legs[k].isAsk THEN lo + LegsBefore(legs, k) ELSE hi - LegsBefore(legs, k)

LegsFit(legs, n, lo, hi) ==
    /\ AsksOf(legs) \in 0..n
    /\ \A k \in 1..n :
          IF legs[k].isAsk THEN LegNonce(legs, lo, hi, k) \in lo .. lo + AsksOf(legs) - 1
          ELSE LegNonce(legs, lo, hi, k) \in hi - (n - AsksOf(legs)) + 1 .. hi
    /\ \A j, k \in 1..n : LegNonce(legs, lo, hi, j) = LegNonce(legs, lo, hi, k) => j = k

LEMMA LegNonces ==
    ASSUME NEW g \in Group, Grouped(g), NEW legs, legs = g.legs, NEW n, n = Len(legs),
           NEW lo \in Int, NEW hi \in Int, n <= hi - lo
    PROVE  LegsFit(legs, n, lo, hi)
<1> DEFINE N(k) == LegNonce(legs, lo, hi, k)
           asks == AsksOf(legs)
<1>1. /\ n \in {2, 3} /\ LegsBefore(legs, 1) = 0
      /\ \/ /\ n = 2 /\ legs[1].isAsk /\ legs[2].isAsk
            /\ LegsBefore(legs, 2) = 1 /\ asks = 2
         \/ /\ n = 2 /\ ~legs[1].isAsk /\ ~legs[2].isAsk
            /\ LegsBefore(legs, 2) = 1 /\ asks = 0
         \/ /\ legs[1].isAsk /\ ~legs[2].isAsk /\ LegsBefore(legs, 2) = 0
            /\ asks = 1
            /\ n = 3 => ~legs[3].isAsk /\ LegsBefore(legs, 3) = 1
         \/ /\ ~legs[1].isAsk /\ legs[2].isAsk /\ LegsBefore(legs, 2) = 0
            /\ asks = n - 1
            /\ n = 3 => legs[3].isAsk /\ LegsBefore(legs, 3) = 1
  <2>1. LegsSided(legs, n)
    BY LegsCounted
  <2> QED BY <2>1 DEF LegsSided
<1>2. n <= hi - lo
  OBVIOUS
<1> HIDE DEF asks
<1>3. \A k : N(k) = IF legs[k].isAsk THEN lo + LegsBefore(legs, k) ELSE hi - LegsBefore(legs, k)
  BY DEF LegNonce
<1> HIDE DEF N
<1>4. CASE n = 2 /\ legs[1].isAsk /\ legs[2].isAsk /\ LegsBefore(legs, 2) = 1 /\ asks = 2
  <2>1. N(1) = lo /\ N(2) = lo + 1 /\ \A k \in 1..2 : k = 1 \/ k = 2
    BY <1>1, <1>3, <1>4
  <2> QED BY <1>2, <1>4, <2>1 DEF LegsFit, N, asks

<1>5. CASE n = 2 /\ ~legs[1].isAsk /\ ~legs[2].isAsk /\ LegsBefore(legs, 2) = 1 /\ asks = 0
  <2>1. N(1) = hi /\ N(2) = hi - 1 /\ \A k \in 1..2 : k = 1 \/ k = 2
    BY <1>1, <1>3, <1>5
  <2> QED BY <1>2, <1>5, <2>1 DEF LegsFit, N, asks
<1>6. CASE /\ legs[1].isAsk /\ ~legs[2].isAsk /\ LegsBefore(legs, 2) = 0
           /\ asks = 1
           /\ n = 3 => ~legs[3].isAsk /\ LegsBefore(legs, 3) = 1
  <2>1. N(1) = lo /\ N(2) = hi
    BY <1>1, <1>3, <1>6
  <2>2. CASE n = 2
    <3>1. \A k \in 1..2 : k = 1 \/ k = 2
      OBVIOUS
    <3> QED BY <1>2, <1>6, <2>1, <2>2, <3>1 DEF LegsFit, N, asks
  <2>3. CASE n = 3
    <3>1. N(3) = hi - 1 /\ \A k \in 1..3 : k = 1 \/ k = 2 \/ k = 3
      BY <1>3, <1>6, <2>3
    <3> QED BY <1>2, <1>6, <2>1, <2>3, <3>1 DEF LegsFit, N, asks
  <2> QED BY <1>1, <2>2, <2>3
<1>7. CASE /\ ~legs[1].isAsk /\ legs[2].isAsk /\ LegsBefore(legs, 2) = 0
           /\ asks = n - 1
           /\ n = 3 => legs[3].isAsk /\ LegsBefore(legs, 3) = 1
  <2>1. N(1) = hi /\ N(2) = lo
    BY <1>1, <1>3, <1>7
  <2>2. CASE n = 2
    <3>1. asks = 1 /\ \A k \in 1..2 : k = 1 \/ k = 2
      BY <1>7, <2>2
    <3> QED BY <1>2, <1>7, <2>1, <2>2, <3>1 DEF LegsFit, N, asks
  <2>3. CASE n = 3
    <3>1. asks = 2 /\ N(3) = lo + 1 /\ \A k \in 1..3 : k = 1 \/ k = 2 \/ k = 3
      BY <1>3, <1>7, <2>3
    <3> QED BY <1>2, <1>7, <2>1, <2>3, <3>1 DEF LegsFit, N, asks
  <2> QED BY <1>1, <2>2, <2>3
<1> QED BY <1>1, <1>4, <1>5, <1>6, <1>7

\* A leg of a group: only the first one meets the book, and only it has children.
LegReady(L, O, A, B, k, i, o) ==
    /\ OrderFits(A, B, i, o) /\ O[i] = NoOrder
    /\ L.market[o.market].status = Ledger!Active
    /\ o.trigger = "na" => k = 1
    /\ o.trigger = "na" => TakerApart(O, o)
    /\ o.children # << >> => k = 1
LegsReady(L, O, A, B, n, idx, ord) == \A k \in 1..n : LegReady(L, O, A, B, k, idx[k], ord[k])
Distinct(n, idx) == \A j, k \in 1..n : idx[j] = idx[k] => j = k
LegsPushed(n, idx, ord) == [j \in {3 - k : k \in 1..n} |-> Insert(idx[3 - j], ord[3 - j])]

\* The legs on an empty stack: the first below the others.
LEMMA GroupFits ==
    ASSUME NEW L, NEW O, NEW A, NEW B, NEW n, NEW idx, NEW ord, NEW new, n \in {2, 3},
           LegsReady(L, O, A, B, n, idx, ord), Distinct(n, idx), new = LegsPushed(n, idx, ord)
    PROVE  /\ NewFits(L, O, A, B, new, 0)
           /\ DOMAIN new \subseteq 0..2 /\ DOMAIN new # {}
           /\ \A j \in DOMAIN new : new[j].kind = "insert_order"
<1>1. /\ DOMAIN new = {3 - k : k \in 1..n}
      /\ \A j \in DOMAIN new : new[j] = Insert(idx[3 - j], ord[3 - j])
  BY DEF LegsPushed
<1>2. \A j \in DOMAIN new : j \in 0..2 /\ 3 - j \in 1..n /\ j \in Int
  BY <1>1
<1>3. 2 \in DOMAIN new
  <2>1. 1 \in 1..n /\ 3 - 1 = 2
    OBVIOUS
  <2> QED BY <1>1, <2>1
<1>4. ASSUME NEW j \in DOMAIN new, NEW k, k = 3 - j
      PROVE  /\ new[j].kind = "insert_order" /\ new[j].index = idx[k]
             /\ new[j].order = ord[k] /\ InstructionFits(A, B, new[j])
             /\ LegReady(L, O, A, B, k, idx[k], ord[k])
  <2> DEFINE i == idx[k]
             o == ord[k]
             x == Insert(i, o)
  <2>1. LegReady(L, O, A, B, k, i, o) /\ new[j] = x
    BY <1>1, <1>2, <1>4 DEF LegsReady
  <2> HIDE DEF i, o
  <2>2. OrderFits(A, B, i, o) /\ i \in Index /\ o \in OrderSet
    BY <2>1 DEF LegReady, OrderFits, GivenOut
  <2>3. x.kind = "insert_order" /\ x.index = i /\ x.order = o /\ x.slack = 0
        /\ x \in InstructionSet
    BY <2>2 DEF Insert, InstructionSet
  <2> HIDE DEF x
  <2>4. InstructionFits(A, B, x)
    BY <2>2, <2>3 DEF InstructionFits
  <2> QED BY <2>1, <2>3, <2>4 DEF i, o
<1>5. ASSUME NEW j \in DOMAIN new
      PROVE  /\ O[new[j].index] = NoOrder
             /\ L.market[new[j].order.market].status = Ledger!Active
             /\ new[j].order.trigger = "na" => j = 2
             /\ new[j].order.trigger = "na" => TakerApart(O, new[j].order)
             /\ new[j].order.children # << >> => j = 2
  <2> DEFINE k == 3 - j
  <2>1. k = 1 => j = 2
    BY <1>2
  <2>2. /\ new[j].index = idx[k] /\ new[j].order = ord[k]
        /\ LegReady(L, O, A, B, k, idx[k], ord[k])
    BY <1>4
  <2> HIDE DEF k
  <2> QED BY <2>1, <2>2 DEF LegReady
<1>6. \A k \in DOMAIN new : k <= 2
  BY <1>2
<1>7. ASSUME NEW j \in DOMAIN new, NEW k \in DOMAIN new, new[j].index = new[k].index
      PROVE  j = k
  <2> DEFINE u == 3 - j
             v == 3 - k
  <2>1. new[j].index = idx[u] /\ new[k].index = idx[v] /\ u \in 1..n /\ v \in 1..n
    BY <1>2, <1>4
  <2>2. u = v => j = k
    BY <1>2
  <2> HIDE DEF u, v
  <2> QED BY <1>7, <2>1, <2>2 DEF Distinct
<1>8. DOMAIN new \subseteq 0..7 /\ DOMAIN new \subseteq 0..2
  BY <1>2
<1>9. ASSUME NEW j \in DOMAIN new, new[j].order.children # << >>, NEW k \in DOMAIN new
      PROVE  k <= j
  BY <1>5, <1>6, <1>9
<1>10. \A j \in DOMAIN new : InstructionFits(A, B, new[j]) /\ new[j].kind = "insert_order"
  BY <1>4
<1>11. \A j, k \in DOMAIN new : IsTaker(new[j]) /\ IsTaker(new[k]) => j = k
  BY <1>5 DEF IsTaker
<1>12. NewFits(L, O, A, B, new, 0)
  BY <1>5, <1>7, <1>8, <1>9, <1>10, <1>11 DEF NewFits
<1> QED BY <1>3, <1>8, <1>10, <1>12

LEMMA CreateGroupedOrdersKeeps ==
    ASSUME EInv, NEW g \in Group, CreateGroupedOrders(g) PROVE EInv'
<1> DEFINE legs == g.legs
           n == Len(legs)
           m == legs[1].market
           lo == ask[m]
           hi == bid[m]
           N(k) == LegNonce(legs, lo, hi, k)
           index(k) == <<m, N(k)>>
           asks == AsksOf(legs)
           size(k) == IF k = 1 /\ g.kind # "oco" /\ legs[1].base = 0
                      THEN PositionSize(legs[1]) ELSE legs[k].base
           parent == [OrderOf(legs[1], N(1), size(1), "na") EXCEPT
                         !.children = [j \in 1..Len(legs) - 1 |-> index(j + 1)]]
           waits(k, trigger, sibling) ==
               [OrderOf(legs[k], NilNonce, size(k), trigger) EXCEPT !.sibling = sibling]
           order(k) == CASE g.kind = "oco" -> waits(k, "mark_price", index(3 - k))
                         [] g.kind # "oco" /\ k = 1 -> parent
                         [] g.kind = "oto" /\ k = 2 -> waits(k, "parent_order", Nil)
                         [] g.kind = "otoco" /\ k > 1 -> waits(k, "parent_order", index(5 - k))
           new == [j \in {3 - k : k \in DOMAIN legs} |-> Insert(index(3 - j), order(3 - j))]
<1>1. /\ Idle /\ m \in Perps /\ Grouped(g)
      /\ Ledger!MayOrder(ledger, legs[1].owner, m)
      /\ \A k \in DOMAIN legs : AttributesFit(legs[k])
      /\ n <= hi - lo
      /\ ask' = [ask EXCEPT ![m] = @ + asks]
      /\ bid' = [bid EXCEPT ![m] = @ - (n - asks)]
      /\ Push(new)
      /\ matching' = TRUE /\ ledger' = ledger /\ orders' = orders /\ book' = book /\ now' = now
  BY DEF CreateGroupedOrders, LegNonce, LegsBefore, AsksOf
<1>2. /\ n \in {2, 3} /\ DOMAIN legs = 1..n /\ m \in Market
      /\ \A k \in 1..n : legs[k] \in RequestSet /\ legs[k].market = m
      /\ \/ g.kind = "oco" /\ n = 2
         \/ g.kind = "oto" /\ n = 2
         \/ g.kind = "otoco" /\ n = 3
  BY <1>1, LegsKnown, Constants
<1>3. /\ World(ledger, orders, book, ask, bid) /\ NoncesFit(ask, bid)
      /\ OrdersFit(ask, bid, orders) /\ ask \in [Market -> Int] /\ bid \in [Market -> Int]
      /\ \A k \in Market : 1 <= ask[k] /\ ask[k] <= bid[k] /\ bid[k] <= MaxNonce
  BY Constants DEF EInv, World, NoncesFit
<1>4. lo \in Int /\ hi \in Int /\ 1 <= lo /\ lo <= hi /\ hi <= MaxNonce /\ MaxNonce \in Nat
  BY <1>2, <1>3, Constants
<1>5. ledger.market[m].status = Ledger!Active
  BY <1>1 DEF Ledger!MayOrder
<1>6. LegsFit(legs, n, lo, hi)
  BY <1>1, <1>4, LegNonces
<1>b. /\ n <= hi - lo
      /\ ask' = [ask EXCEPT ![m] = @ + asks]
      /\ bid' = [bid EXCEPT ![m] = @ - (n - asks)]
  BY <1>1
<1>c. n \in Nat
  BY <1>2
<1> HIDE DEF n, asks
<1>7. /\ asks \in 0..n
      /\ \A k \in 1..n : IF legs[k].isAsk THEN N(k) \in lo .. lo + asks - 1
                         ELSE N(k) \in hi - (n - asks) + 1 .. hi
      /\ \A j, k \in 1..n : N(j) = N(k) => j = k
  BY <1>6 DEF LegsFit, asks
<1> HIDE DEF N
<1>8. \A k \in 1..n : N(k) \in lo..hi /\ N(k) \in 1..MaxNonce /\ legs[k].isAsk \in BOOLEAN
  <2> SUFFICES ASSUME NEW k \in 1..n
               PROVE  N(k) \in lo..hi /\ N(k) \in 1..MaxNonce /\ legs[k].isAsk \in BOOLEAN
    OBVIOUS
  <2>1. legs[k].isAsk \in BOOLEAN
    BY <1>2 DEF RequestSet
  <2>2. \/ N(k) \in lo .. lo + asks - 1
        \/ N(k) \in hi - (n - asks) + 1 .. hi
    BY <1>7
  <2> DEFINE x == N(k)
  <2>3. \/ x \in lo .. lo + asks - 1
        \/ x \in hi - (n - asks) + 1 .. hi
    BY <2>2
  <2> HIDE DEF x, lo, hi
  <2>4. x \in lo..hi /\ x \in 1..MaxNonce
    BY <1>4, <1>7, <1>b, <1>c, <2>3
  <2> QED BY <2>1, <2>4 DEF x
<1>9. /\ ask' \in [Market -> Int] /\ bid' \in [Market -> Int]
      /\ ask'[m] = lo + asks /\ bid'[m] = hi - (n - asks)
      /\ \A k \in Market : k # m => ask'[k] = ask[k] /\ bid'[k] = bid[k]
  BY <1>2, <1>3, <1>7, <1>b
<1>10. Later(ask, bid, ask', bid')
  <2>1. ASSUME NEW k \in Market
        PROVE  /\ FirstAsk <= ask'[k] /\ ask'[k] <= bid'[k] /\ bid'[k] <= MaxNonce
               /\ ask[k] <= ask'[k] /\ bid'[k] <= bid[k]
    <3>1. CASE k = m
      <4>1. ask[k] = lo /\ bid[k] = hi /\ ask'[k] = lo + asks /\ bid'[k] = hi - (n - asks)
        BY <1>9, <3>1
      <4> HIDE DEF lo, hi
      <4> QED BY <1>4, <1>7, <1>b, <1>c, <4>1, Constants
    <3>2. CASE k # m
      BY <1>3, <1>9, <3>2, Constants
    <3> QED BY <3>1, <3>2
  <2> QED BY <1>9, <2>1 DEF Later, NoncesFit
<1>11. ASSUME NEW k \in 1..n
       PROVE  /\ index(k) \in Index /\ index(k)[1] = m
              /\ GivenOut(ask', bid', index(k)) /\ orders[index(k)] = NoOrder
  <2>1. index(k) \in Index /\ index(k)[1] = m /\ index(k)[2] = N(k)
    BY <1>2, <1>8, Constants DEF Index
  <2>2. N(k) < ask'[m] \/ N(k) > bid'[m]
    <3> DEFINE x == N(k)
               a == ask'[m]
               z == bid'[m]
    <3>1. /\ x \in lo .. lo + asks - 1 \/ x \in hi - (n - asks) + 1 .. hi
          /\ a = lo + asks /\ z = hi - (n - asks)
      BY <1>7, <1>9
    <3> HIDE DEF x, a, z, lo, hi
    <3>2. x < a \/ x > z
      BY <1>4, <1>7, <1>c, <3>1
    <3> QED BY <3>2 DEF x, a, z
  <2>3. orders[index(k)] = NoOrder
    <3> SUFFICES ASSUME orders[index(k)] # NoOrder PROVE FALSE
      OBVIOUS
    <3>1. N(k) < lo \/ N(k) > hi
      BY <1>3, <2>1 DEF OrdersFit, OrderFits, GivenOut
    <3> QED BY <1>4, <1>8, <3>1
  <2> QED BY <2>1, <2>2, <2>3 DEF GivenOut
<1>12. \A k \in 1..n : size(k) \in Nat
  <2>1. PositionSize(legs[1]) \in Nat
    <3>1. legs[1] \in RequestSet
      BY <1>2
    <3>2. legs[1].owner \in Account
      BY <3>1 DEF RequestSet
    <3> QED BY <1>2, <3>2, PositionSizeType DEF PositionSize
  <2>2. \A k \in 1..n : legs[k].base \in Nat
    BY <1>2 DEF RequestSet
  <2> QED BY <2>1, <2>2
<1> HIDE DEF size, index
<1> DEFINE Known(k) ==
               /\ order(k) \in OrderSet /\ order(k).market = m
               /\ order(k).isAsk = legs[k].isAsk
               /\ order(k).rem = size(k) /\ order(k).initial = size(k)
               /\ SparesMasters(order(k))
               /\ \/ /\ k = 1 /\ order(k).trigger = "na" /\ order(k).nonce = N(1)
                     /\ order(k).children = [j \in 1..n - 1 |-> index(j + 1)]
                  \/ /\ order(k).trigger \in {"mark_price", "parent_order"}
                     /\ order(k).nonce = NilNonce /\ order(k).children = << >>
<1>d. \A k \in 1..n : AttributesFit(legs[k])
  BY <1>1, <1>2
<1>13. ASSUME NEW k \in 1..n, NEW trigger \in {"mark_price", "parent_order"},
              NEW sibling \in Index \union {Nil}, order(k) = waits(k, trigger, sibling)
       PROVE  Known(k)
  <2> DEFINE u == OrderOf(legs[k], NilNonce, size(k), trigger)
             v == [u EXCEPT !.sibling = sibling]
  <2>1. NilNonce \in 0..MaxNonce /\ trigger \in Ledger!TriggerStatuses
    BY <1>4 DEF NilNonce, Ledger!TriggerStatuses
  <2>2. /\ u \in OrderSet /\ u.market = m /\ u.isAsk = legs[k].isAsk /\ u.nonce = NilNonce
        /\ u.initial = size(k) /\ u.rem = size(k) /\ u.trigger = trigger /\ u.children = << >>
        /\ u.mode = legs[k].mode /\ u.scope = legs[k].scope
    BY SMTT(30), <1>2, <1>12, <2>1, RequestFits
  <2>3. order(k) = v
    BY <1>13
  <2> HIDE DEF u, order
  <2>4. /\ v \in OrderSet /\ v.market = m /\ v.isAsk = legs[k].isAsk /\ v.nonce = NilNonce
        /\ v.initial = size(k) /\ v.rem = size(k) /\ v.trigger = trigger /\ v.children = << >>
        /\ v.mode = legs[k].mode /\ v.scope = legs[k].scope
    BY <2>2 DEF OrderSet
  <2> HIDE DEF v
  <2>5. SparesMasters(v)
    BY <1>d, <2>4 DEF AttributesFit, SparesMasters
  <2> QED BY <2>3, <2>4, <2>5
<1>14. g.kind # "oco" => Known(1)
  <2> DEFINE u == OrderOf(legs[1], N(1), size(1), "na")
             c == [j \in 1..n - 1 |-> index(j + 1)]
             v == [u EXCEPT !.children = c]
  <2>0. 1 \in 1..n
    BY <1>2
  <2>1. N(1) \in 0..MaxNonce /\ "na" \in Ledger!TriggerStatuses
    BY <1>4, <1>8, <2>0 DEF Ledger!TriggerStatuses
  <2>2. /\ u \in OrderSet /\ u.market = m /\ u.isAsk = legs[1].isAsk /\ u.nonce = N(1)
        /\ u.initial = size(1) /\ u.rem = size(1) /\ u.trigger = "na"
        /\ u.mode = legs[1].mode /\ u.scope = legs[1].scope
    BY <1>2, <1>12, <2>0, <2>1, RequestFits
  <2>3. g.kind # "oco" => order(1) = v
    BY DEF n
  <2>4. c \in Seq(Index)
    <3>1. \A j \in 1..n - 1 : j + 1 \in 1..n
      BY <1>2
    <3>2. \A j \in 1..n - 1 : index(j + 1) \in Index
      BY <1>11, <3>1
    <3>3. n - 1 \in Nat
      BY <1>2
    <3> QED BY <3>2, <3>3
  <2> HIDE DEF u, c, order
  <2>5. /\ v \in OrderSet /\ v.market = m /\ v.isAsk = legs[1].isAsk /\ v.nonce = N(1)
        /\ v.initial = size(1) /\ v.rem = size(1) /\ v.trigger = "na" /\ v.children = c
        /\ v.mode = legs[1].mode /\ v.scope = legs[1].scope
    BY <2>2, <2>4 DEF OrderSet
  <2> HIDE DEF v
  <2>6. SparesMasters(v)
    BY <1>d, <2>0, <2>5 DEF AttributesFit, SparesMasters
  <2> QED BY <2>3, <2>5, <2>6 DEF c
<1>15. ASSUME NEW k \in 1..n PROVE Known(k)
  <2>1. CASE g.kind = "oco"
    <3>1. 3 - k \in 1..n
      BY <1>2, <2>1
    <3>2. index(3 - k) \in Index \union {Nil}
      BY <1>11, <3>1
    <3>3. order(k) = waits(k, "mark_price", index(3 - k))
      BY <2>1
    <3> HIDE DEF order, waits, Known
    <3> QED BY <3>2, <3>3, <1>13
  <2>2. CASE g.kind # "oco" /\ k = 1
    BY <1>14, <2>2
  <2>3. CASE g.kind = "oto" /\ k # 1
    <3>1. k = 2
      BY <1>2, <2>3
    <3>2. order(k) = waits(k, "parent_order", Nil)
      BY <2>3, <3>1
    <3> HIDE DEF order, waits, Known
    <3> QED BY <3>2, <1>13
  <2>4. CASE g.kind = "otoco" /\ k # 1
    <3>1. 5 - k \in 1..n /\ k > 1
      BY <1>2, <2>4
    <3>2. index(5 - k) \in Index \union {Nil}
      BY <1>11, <3>1
    <3>3. order(k) = waits(k, "parent_order", index(5 - k))
      BY <2>4, <3>1
    <3> HIDE DEF order, waits, Known
    <3> QED BY <3>2, <3>3, <1>13
  <2> QED BY <1>2, <2>1, <2>2, <2>3, <2>4
<1> DEFINE idx == [k \in 1..n |-> index(k)]
           ord == [k \in 1..n |-> order(k)]
<1>16. new = [j \in {3 - k : k \in 1..n} |-> Insert(idx[3 - j], ord[3 - j])]
  <2>1. \A j \in {3 - k : k \in 1..n} : 3 - j \in 1..n
    BY <1>2
  <2>2. \A j \in {3 - k : k \in 1..n} : idx[3 - j] = index(3 - j) /\ ord[3 - j] = order(3 - j)
    BY <2>1
  <2> HIDE DEF order, idx, ord
  <2>3. DOMAIN legs = 1..n
    BY <1>2
  <2> HIDE DEF legs
  <2> QED BY <2>2, <2>3 DEF new
<1>17. \A k \in 1..n : idx[k] = index(k) /\ ord[k] = order(k)
  OBVIOUS
<1> HIDE DEF order
<1>18. ASSUME NEW k \in 1..n PROVE LegReady(ledger, orders, ask', bid', k, idx[k], ord[k])
  <2> DEFINE u == order(k)
  <2>1. Known(k) /\ idx[k] = index(k) /\ ord[k] = u
    BY <1>15, <1>17
  <2>2. /\ GivenOut(ask', bid', index(k)) /\ orders[index(k)] = NoOrder
        /\ index(k)[1] = m /\ size(k) \in Nat
    BY <1>11, <1>12
  <2> HIDE DEF idx, ord
  <2>3. CASE k = 1 /\ u.trigger = "na"
    <3>1. u.nonce = N(1) /\ u.children = [j \in 1..n - 1 |-> index(j + 1)]
      BY <2>1, <2>3
    <3>2. OnSide(ask', bid', u)
      BY SMTT(30), <1>4, <1>7, <1>8, <1>9, <2>1, <2>3, <3>1, Constants DEF OnSide
    <3>3. TakerApart(orders, u)
      <4> SUFFICES ASSUME NEW i \in Index, IsResting(orders, i), orders[i].market = m
                   PROVE  orders[i].nonce # N(1)
        BY <2>1, <3>1 DEF TakerApart
      <4>1. OnSide(ask, bid, orders[i])
        BY <1>3 DEF OrdersFit, OrderFits, IsResting
      <4>2. orders[i].nonce < lo \/ orders[i].nonce > hi
        BY <1>4, <4>1 DEF OnSide
      <4> QED BY <1>4, <1>8, <2>3, <4>2
    <3>4. Len(u.children) <= 2 /\ \A j \in 1..Len(u.children) : u.children[j][1] = m
      <4>1. n - 1 \in Nat /\ \A j \in 1..n - 1 : j + 1 \in 1..n
        BY <1>2
      <4>2. Len(u.children) = n - 1
        BY <3>1, <4>1
      <4>3. \A j \in 1..n - 1 : u.children[j] = index(j + 1)
        BY <3>1
      <4> QED BY <1>2, <1>11, <4>1, <4>2, <4>3
    <3> HIDE DEF u
    <3> QED BY <1>5, <2>1, <2>2, <2>3, <3>2, <3>3, <3>4 DEF OrderFits, LegReady, u
  <2>4. CASE u.trigger \in {"mark_price", "parent_order"}
    <3>1. u.nonce = NilNonce /\ u.children = << >> /\ Len(u.children) = 0
      BY <2>1, <2>4
    <3> HIDE DEF u
    <3> QED BY <1>5, <2>1, <2>2, <2>4, <3>1 DEF OrderFits, LegReady, u
  <2> QED BY <2>1, <2>3, <2>4
<1>19. Distinct(n, idx)
  BY <1>7, <1>17 DEF index, Distinct
<1>a. new = LegsPushed(n, idx, ord)
  BY <1>16 DEF LegsPushed
<1> HIDE DEF new, idx, ord
<1>20. /\ NewFits(ledger, orders, ask', bid', new, 0)
       /\ DOMAIN new \subseteq 0..2 /\ DOMAIN new # {}
       /\ \A j \in DOMAIN new : new[j].kind = "insert_order"
  <2>1. LegsReady(ledger, orders, ask', bid', n, idx, ord)
    BY <1>18 DEF LegsReady
  <2> QED BY <1>2, <1>a, <1>19, <2>1, GroupFits
<1>21. World(ledger', orders', book', ask', bid') /\ NewFits(ledger', orders', ask', bid', new, 0)
  BY <1>1, <1>3, <1>10, <1>20, WorldLater
<1> QED BY <1>1, <1>20, <1>21, Started

=============================================================================
