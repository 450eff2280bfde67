------------------------- MODULE OrderLedgerProofs -------------------------
(***************************************************************************)
(* For every set of accounts, markets and orders: each count of the ledger *)
(* is the number of orders it stands for; and what that makes of positions *)
(* and slots: open interest is what is held, a slot is given to the next   *)
(* market exactly when it is empty, and margin modes stay as they are.     *)
(***************************************************************************)
EXTENDS OrderLedger, Sums

\* The types of the leaves, before it is known that no count is negative.
RawMarkets == [status : Statuses, public : 0..MaxPublic, orders : Int,
               openInterest : Int, isolatedOnly : BOOLEAN, default : Modes]
RawPositions == [public : 0..MaxPublic, size : Int, orders : Int, tied : Int, mode : Modes]
RawLedgers == [market   : [Market -> RawMarkets],
               account  : [Account -> [orders : Int, nonCross : Int]],
               position : [Account \X Market -> RawPositions]]

RawType ==
    /\ ledger \in RawLedgers
    /\ orders \in [OrderId -> Orders \union {NoOrder}]
    /\ nextPublic \in 1..MaxPublic + 1

\* An order of a perps market belongs to a position of the market its slot hosts.
OrdersAreLive ==
    \A i \in OrderId :
        orders[i] # NoOrder /\ orders[i].market \in Perps =>
            ledger.position[<<orders[i].owner, orders[i].market>>].public
                = ledger.market[orders[i].market].public

\* Spot slots have no position.
NoSpotPosition ==
    \A a \in Account, m \in Market \ Perps : ledger.position[<<a, m>>] = EmptyPosition

IInv == RawType /\ CountsMatch /\ OrdersAreLive /\ NoSpotPosition

-----------------------------------------------------------------------------
(* The same of any ledger L and any orders O, so that it can be followed through the    *)
(* operations a transaction is made of.                                                *)

\* What the ledger looks at in an order.
IsOrder(o) == o.owner \in Account /\ o.market \in Market /\ o.reduceOnly \in BOOLEAN
IsOrders(O) ==
    /\ O = [i \in OrderId |-> O[i]]
    /\ \A i \in OrderId : O[i] # NoOrder => IsOrder(O[i])

OfMarketIn(O, m) == {i \in OrderId : O[i] # NoOrder /\ O[i].market = m}
OfAccountIn(O, a) == {i \in OrderId : O[i] # NoOrder /\ O[i].owner = a}
OfPositionIn(O, a, m) == {i \in OfMarketIn(O, m) : O[i].owner = a}
TiedToIn(O, a, m) == {i \in OfPositionIn(O, a, m) : IsTied(O[i])}
NonCrossIn(L, O, a) ==
    {i \in OfAccountIn(O, a) :
        O[i].market \notin Perps \/ L.position[<<a, O[i].market>>].mode = Isolated}

CountsIn(L, O) ==
    /\ \A m \in Market : L.market[m].orders = Cardinality(OfMarketIn(O, m))
    /\ \A a \in Account :
          /\ L.account[a].orders = Cardinality(OfAccountIn(O, a))
          /\ L.account[a].nonCross = Cardinality(NonCrossIn(L, O, a))
    /\ \A a \in Account, m \in Perps :
          /\ L.position[<<a, m>>].orders = Cardinality(OfPositionIn(O, a, m))
          /\ L.position[<<a, m>>].tied = Cardinality(TiedToIn(O, a, m))
LiveIn(L, O) ==
    \A i \in OrderId :
        O[i] # NoOrder /\ O[i].market \in Perps =>
            L.position[<<O[i].owner, O[i].market>>].public = L.market[O[i].market].public
NoSpotIn(L) == \A a \in Account, m \in Market \ Perps : L.position[<<a, m>>] = EmptyPosition

Counted(L, O) ==
    /\ L \in RawLedgers
    /\ IsOrders(O)
    /\ CountsIn(L, O)
    /\ LiveIn(L, O)
    /\ NoSpotIn(L)

-----------------------------------------------------------------------------
\* Adding one element to a finite set, or none, adds one to its cardinality, or none.
LEMMA CardinalityStep ==
    ASSUME NEW S \in SUBSET OrderId, NEW i \in OrderId, i \notin S, NEW b \in BOOLEAN,
           NEW T, T = IF b THEN S \union {i} ELSE S
    PROVE  Cardinality(S) \in Nat /\ Cardinality(T) = Cardinality(S) + (IF b THEN 1 ELSE 0)
<1>1. IsFiniteSet(S)
  BY LedgerAssumption, FS_Subset
<1>2. Cardinality(S) \in Nat
  BY <1>1, FS_CardinalityType
<1>3. Cardinality(S \union {i}) = Cardinality(S) + 1
  BY <1>1, FS_AddElement
<1> QED BY <1>2, <1>3 DEF One

\* The keys of the position leaves.
LEMMA PairType == ASSUME NEW a \in Account, NEW m \in Market
                  PROVE  <<a, m>> \in Account \X Market
OBVIOUS

\* New counts keep a position a position.
LEMMA CountsChange ==
    ASSUME NEW p \in RawPositions, NEW x \in Int, NEW y \in Int
    PROVE  [p EXCEPT !.orders = x, !.tied = y] \in RawPositions
BY DEF RawPositions

\* init_if_empty returns a position of the market the slot hosts.
LEMMA InitType ==
    ASSUME NEW L \in RawLedgers, NEW a \in Account, NEW m \in Market
    PROVE  /\ InitIfEmpty(L, a, m) \in RawPositions
           /\ InitIfEmpty(L, a, m).public = L.market[m].public
<1>1. L.position[<<a, m>>] \in RawPositions
  BY PairType DEF RawLedgers
<1>2. L.market[m].public \in 0..MaxPublic /\ L.market[m].default \in Modes
  BY DEF RawLedgers, RawMarkets
<1>3. EmptyPosition \in RawPositions
  BY LedgerAssumption DEF EmptyPosition, RawPositions, NilPublic, Modes
<1> DEFINE mode == IF a \in Pool \union Insurance THEN Cross ELSE L.market[m].default
<1>4. mode \in Modes
  BY <1>2 DEF Modes
<1>5. [EmptyPosition EXCEPT !.public = L.market[m].public, !.mode = mode] \in RawPositions
  BY <1>2, <1>3, <1>4 DEF RawPositions
<1>6. [EmptyPosition EXCEPT !.public = L.market[m].public, !.mode = mode].public = L.market[m].public
  BY <1>3 DEF RawPositions
<1> HIDE DEF mode
<1> QED BY <1>1, <1>5, <1>6 DEF InitIfEmpty, mode

\* What increment_order_count_in_place does to each leaf.
LEMMA IncrementEffect ==
    ASSUME NEW L \in RawLedgers, NEW o, IsOrder(o),
           NEW p, p = InitIfEmpty(L, o.owner, o.market),
           NEW M, M = Increment(L, o)
    PROVE  /\ M \in RawLedgers
           /\ \A m \in Market :
                 /\ M.market[m].orders = L.market[m].orders + (IF o.market = m THEN 1 ELSE 0)
                 /\ M.market[m].public = L.market[m].public
           /\ \A a \in Account :
                 /\ M.account[a].orders = L.account[a].orders + (IF o.owner = a THEN 1 ELSE 0)
                 /\ M.account[a].nonCross = L.account[a].nonCross
                       + (IF o.owner = a /\ (o.market \notin Perps \/ p.mode = Isolated) THEN 1 ELSE 0)
           /\ \A a \in Account, m \in Market :
                    IF o.owner = a /\ o.market = m /\ m \in Perps
                    THEN /\ M.position[<<a, m>>].orders = p.orders + 1
                         /\ M.position[<<a, m>>].tied = p.tied + (IF IsTied(o) THEN 1 ELSE 0)
                         /\ M.position[<<a, m>>].mode = p.mode
                         /\ M.position[<<a, m>>].public = p.public
                    ELSE M.position[<<a, m>>] = L.position[<<a, m>>]
<1> DEFINE am == <<o.owner, o.market>>
<1>1. o.owner \in Account /\ o.market \in Market /\ am \in Account \X Market
  BY DEF IsOrder
<1>2. p \in RawPositions
  BY <1>1, InitType
<1> DEFINE q0 == [p EXCEPT !.orders = @ + 1, !.tied = @ + (IF IsTied(o) THEN 1 ELSE 0)]
           q == IF o.market \in Perps
                THEN q0
                ELSE L.position[am]
           k == (IF o.market \notin Perps \/ p.mode = Isolated THEN 1 ELSE 0)
<1>3. k \in Int /\ (IF IsTied(o) THEN 1 ELSE 0) \in Int
  BY DEF One
<1>4. L.position[am] \in RawPositions
  BY <1>1 DEF RawLedgers
<1>5. q \in RawPositions
  <2> DEFINE t == (IF IsTied(o) THEN 1 ELSE 0)
  <2> HIDE DEF t
  <2>1. t \in Int
    BY <1>3 DEF t
  <2>2. [p EXCEPT !.orders = @ + 1, !.tied = @ + t] \in RawPositions
    <3>1. p.orders \in Int /\ p.tied \in Int
      BY <1>2 DEF RawPositions
    <3>2. p.orders + 1 \in Int /\ p.tied + t \in Int
      BY <3>1, <2>1
    <3> QED BY <1>2, <3>2, CountsChange
  <2>3. q0 \in RawPositions
    BY <2>2 DEF t
  <2> QED BY <2>3, <1>4
<1>6. /\ M.market = [L.market EXCEPT ![o.market].orders = @ + 1]
      /\ M.account = [L.account EXCEPT ![o.owner].orders = @ + 1, ![o.owner].nonCross = @ + k]
      /\ M.position = [L.position EXCEPT ![am] = q]
      /\ M = [market |-> M.market, account |-> M.account, position |-> M.position]
  BY DEF Increment, RawLedgers, One
<1> HIDE DEF q, k
<1>7. M.market \in [Market -> RawMarkets]
  <2> DEFINE s == L.market[o.market]
             s1 == [s EXCEPT !.orders = @ + 1]
  <2>1. L.market \in [Market -> RawMarkets] /\ s \in RawMarkets
    BY <1>1 DEF RawLedgers
  <2>2. s1 \in RawMarkets
    BY <2>1 DEF RawMarkets
  <2> HIDE DEF s1
  <2>3. M.market = [L.market EXCEPT ![o.market] = s1]
    BY <1>6 DEF s1
  <2> QED BY <2>1, <2>2, <2>3
<1>8. M.account \in [Account -> [orders : Int, nonCross : Int]]
  BY <1>1, <1>3, <1>6 DEF RawLedgers
<1>9. M.position \in [Account \X Market -> RawPositions]
  BY <1>1, <1>5, <1>6 DEF RawLedgers
<1>10. M \in RawLedgers
  BY <1>6, <1>7, <1>8, <1>9 DEF RawLedgers
<1>11. \A m \in Market :
         /\ M.market[m].orders = L.market[m].orders + (IF o.market = m THEN 1 ELSE 0)
         /\ M.market[m].public = L.market[m].public
  BY <1>1, <1>6 DEF RawLedgers, RawMarkets, One
<1>12. \A a \in Account :
         /\ M.account[a].orders = L.account[a].orders + (IF o.owner = a THEN 1 ELSE 0)
         /\ M.account[a].nonCross = L.account[a].nonCross + IF o.owner = a THEN k ELSE 0
  BY <1>1, <1>3, <1>6 DEF RawLedgers, One
<1>13. \A a \in Account :
         (IF o.owner = a THEN k ELSE 0) =
         (IF o.owner = a /\ (o.market \notin Perps \/ p.mode = Isolated) THEN 1 ELSE 0)
  BY DEF k
<1>14. \A a \in Account, m \in Market :
         M.position[<<a, m>>] = IF o.owner = a /\ o.market = m THEN q ELSE L.position[<<a, m>>]
  BY <1>1, <1>6, PairType DEF RawLedgers
<1>15. /\ q0.orders = p.orders + 1 /\ q0.tied = p.tied + (IF IsTied(o) THEN 1 ELSE 0)
       /\ q0.mode = p.mode /\ q0.public = p.public
  BY <1>2 DEF RawPositions
<1> HIDE DEF q0
<1>16. \A a \in Account, m \in Market :
         M.position[<<a, m>>] =
            IF o.owner = a /\ o.market = m /\ m \in Perps THEN q0 ELSE L.position[<<a, m>>]
  BY <1>14 DEF q
<1> QED BY <1>10, <1>11, <1>12, <1>13, <1>15, <1>16

\* What decrement_order_count_in_place does to each leaf.
LEMMA DecrementEffect ==
    ASSUME NEW L \in RawLedgers, NEW o, IsOrder(o),
           NEW p, p = L.position[<<o.owner, o.market>>],
           NEW M, M = Decrement(L, o)
    PROVE  /\ M \in RawLedgers
           /\ \A m \in Market :
                 /\ M.market[m].orders = L.market[m].orders - (IF o.market = m THEN 1 ELSE 0)
                 /\ M.market[m].public = L.market[m].public
           /\ \A a \in Account :
                 /\ M.account[a].orders = L.account[a].orders - (IF o.owner = a THEN 1 ELSE 0)
                 /\ M.account[a].nonCross = L.account[a].nonCross
                       - (IF o.owner = a /\ (o.market \notin Perps \/ p.mode = Isolated) THEN 1 ELSE 0)
           /\ \A a \in Account, m \in Market :
                    IF o.owner = a /\ o.market = m /\ m \in Perps
                    THEN /\ M.position[<<a, m>>].orders = p.orders - 1
                         /\ M.position[<<a, m>>].tied = p.tied - (IF IsTied(o) THEN 1 ELSE 0)
                         /\ M.position[<<a, m>>].mode = p.mode
                         /\ M.position[<<a, m>>].public = p.public
                    ELSE M.position[<<a, m>>] = L.position[<<a, m>>]
<1> DEFINE am == <<o.owner, o.market>>
<1>1. o.owner \in Account /\ o.market \in Market /\ am \in Account \X Market
  BY DEF IsOrder
<1>2. p \in RawPositions
  BY <1>1 DEF RawLedgers
<1> DEFINE q0 == [p EXCEPT !.orders = @ - 1, !.tied = @ - (IF IsTied(o) THEN 1 ELSE 0)]
           q == IF o.market \in Perps THEN q0 ELSE L.position[am]
           k == (IF o.market \notin Perps \/ p.mode = Isolated THEN 1 ELSE 0)
<1>3. k \in Int /\ (IF IsTied(o) THEN 1 ELSE 0) \in Int
  BY DEF One
<1>5. q \in RawPositions
  <2> DEFINE t == (IF IsTied(o) THEN 1 ELSE 0)
  <2> HIDE DEF t
  <2>1. t \in Int
    BY <1>3 DEF t
  <2>2. [p EXCEPT !.orders = @ - 1, !.tied = @ - t] \in RawPositions
    <3>1. p.orders \in Int /\ p.tied \in Int
      BY <1>2 DEF RawPositions
    <3>2. p.orders - 1 \in Int /\ p.tied - t \in Int
      BY <3>1, <2>1
    <3> QED BY <1>2, <3>2, CountsChange
  <2>3. q0 \in RawPositions
    BY <2>2 DEF t
  <2> QED BY <2>3, <1>2
<1>6. /\ M.market = [L.market EXCEPT ![o.market].orders = @ - 1]
      /\ M.account = [L.account EXCEPT ![o.owner].orders = @ - 1, ![o.owner].nonCross = @ - k]
      /\ M.position = [L.position EXCEPT ![am] = q]
      /\ M = [market |-> M.market, account |-> M.account, position |-> M.position]
  BY DEF Decrement, RawLedgers, One
<1> HIDE DEF q, k
<1>7. M.market \in [Market -> RawMarkets]
  <2> DEFINE s == L.market[o.market]
             s1 == [s EXCEPT !.orders = @ - 1]
  <2>1. L.market \in [Market -> RawMarkets] /\ s \in RawMarkets
    BY <1>1 DEF RawLedgers
  <2>2. s1 \in RawMarkets
    BY <2>1 DEF RawMarkets
  <2> HIDE DEF s1
  <2>3. M.market = [L.market EXCEPT ![o.market] = s1]
    BY <1>6 DEF s1
  <2> QED BY <2>1, <2>2, <2>3
<1>8. M.account \in [Account -> [orders : Int, nonCross : Int]]
  BY <1>1, <1>3, <1>6 DEF RawLedgers
<1>9. M.position \in [Account \X Market -> RawPositions]
  BY <1>1, <1>5, <1>6 DEF RawLedgers
<1>10. M \in RawLedgers
  BY <1>6, <1>7, <1>8, <1>9 DEF RawLedgers
<1>11. \A m \in Market :
         /\ M.market[m].orders = L.market[m].orders - (IF o.market = m THEN 1 ELSE 0)
         /\ M.market[m].public = L.market[m].public
  BY <1>1, <1>6 DEF RawLedgers, RawMarkets, One
<1>12. \A a \in Account :
         /\ M.account[a].orders = L.account[a].orders - (IF o.owner = a THEN 1 ELSE 0)
         /\ M.account[a].nonCross = L.account[a].nonCross - IF o.owner = a THEN k ELSE 0
  BY <1>1, <1>3, <1>6 DEF RawLedgers, One
<1>13. \A a \in Account :
         (IF o.owner = a THEN k ELSE 0) =
         (IF o.owner = a /\ (o.market \notin Perps \/ p.mode = Isolated) THEN 1 ELSE 0)
  BY DEF k
<1>14. \A a \in Account, m \in Market :
         M.position[<<a, m>>] = IF o.owner = a /\ o.market = m THEN q ELSE L.position[<<a, m>>]
  BY <1>1, <1>6, PairType DEF RawLedgers
<1>15. /\ q0.orders = p.orders - 1 /\ q0.tied = p.tied - (IF IsTied(o) THEN 1 ELSE 0)
       /\ q0.mode = p.mode /\ q0.public = p.public
  BY <1>2 DEF RawPositions
<1> HIDE DEF q0
<1>16. \A a \in Account, m \in Market :
         M.position[<<a, m>>] =
            IF o.owner = a /\ o.market = m /\ m \in Perps THEN q0 ELSE L.position[<<a, m>>]
  BY <1>14 DEF q
<1> QED BY <1>10, <1>11, <1>12, <1>13, <1>15, <1>16

\* Releasing a slot changes nothing but its market leaf, and no count.
LEMMA ReleaseEffect ==
    ASSUME NEW L \in RawLedgers, NEW m \in Market, NEW M, M = Release(L, m)
    PROVE  /\ M \in RawLedgers
           /\ M.account = L.account /\ M.position = L.position
           /\ \A n \in Market : M.market[n].orders = L.market[n].orders
           /\ \A n \in Market :
                 \/ M.market[n].public = L.market[n].public
                 \/ L.market[n].orders = 0
<1>1. EmptyMarket \in RawMarkets
  BY LedgerAssumption DEF EmptyMarket, RawMarkets, NilPublic, Modes, Statuses
<1>2. CASE M = L
  BY <1>2
<1>3. CASE L.market[m].orders = 0 /\ M = [L EXCEPT !.market[m] = EmptyMarket]
  <2>1. /\ M.market = [L.market EXCEPT ![m] = EmptyMarket]
        /\ M.account = L.account /\ M.position = L.position
        /\ M = [market |-> M.market, account |-> M.account, position |-> M.position]
    BY <1>3 DEF RawLedgers
  <2>2. M.market \in [Market -> RawMarkets]
    BY <1>1, <2>1 DEF RawLedgers
  <2>3. M \in RawLedgers
    BY <2>1, <2>2 DEF RawLedgers
  <2>4. EmptyMarket.orders = 0
    BY DEF EmptyMarket
  <2>5. \A n \in Market :
           /\ M.market[n].orders = L.market[n].orders
           /\ M.market[n].public = L.market[n].public \/ L.market[n].orders = 0
    BY <1>3, <2>1, <2>4 DEF RawLedgers
  <2> QED BY <2>1, <2>3, <2>5
<1> QED BY <1>2, <1>3 DEF Release

\* What one side of a trade does to a ledger L, leaving M: no count moves, and the
\* position is one of the market the slot hosts.
Moved(L, M, a, m) ==
    /\ M \in RawLedgers
    /\ M.account = L.account
    /\ \A n \in Market : /\ M.market[n].orders = L.market[n].orders
                         /\ M.market[n].public = L.market[n].public
                         /\ M.market[n].default = L.market[n].default
    /\ \A b \in Account, n \in Market :
          IF a = b /\ m = n
          THEN /\ M.position[<<b, n>>].orders = InitIfEmpty(L, a, m).orders
               /\ M.position[<<b, n>>].tied = InitIfEmpty(L, a, m).tied
               /\ M.position[<<b, n>>].mode = InitIfEmpty(L, a, m).mode
               /\ M.position[<<b, n>>].public = L.market[m].public
          ELSE M.position[<<b, n>>] = L.position[<<b, n>>]

\* Move changes one position and no count.
LEMMA MoveEffect ==
    ASSUME NEW L \in RawLedgers, NEW a \in Account, NEW m \in Market,
           NEW delta \in Int, NEW M, M = Move(L, a, m, delta)
    PROVE  Moved(L, M, a, m)
<1> DEFINE p == InitIfEmpty(L, a, m)
           q == [p EXCEPT !.size = @ + delta]
           oi == L.market[m].openInterest + Abs(p.size + delta) - Abs(p.size)
<1>1. p \in RawPositions /\ p.public = L.market[m].public
  BY InitType
<1>2. M.market = [L.market EXCEPT ![m].openInterest = oi]
  BY DEF Move, RawLedgers
<1>3. M.position = [L.position EXCEPT ![<<a, m>>] = q]
  BY DEF Move, RawLedgers
<1>4. /\ M.account = L.account
      /\ M = [market |-> M.market, account |-> M.account, position |-> M.position]
  BY DEF Move, RawLedgers
<1> HIDE DEF p
<1>5. q \in RawPositions /\ q.orders = p.orders /\ q.tied = p.tied
      /\ q.mode = p.mode /\ q.public = p.public
  BY <1>1 DEF RawPositions
<1>6. oi \in Int
  <2>1. p.size \in Int /\ L.market[m].openInterest \in Int
    BY <1>1 DEF RawPositions, RawLedgers, RawMarkets
  <2> QED BY <2>1 DEF Abs
<1> HIDE DEF q, oi
<1>7. M.market \in [Market -> RawMarkets]
  BY <1>2, <1>6 DEF RawLedgers, RawMarkets
<1>8. M.position \in [Account \X Market -> RawPositions]
  BY <1>3, <1>5, PairType DEF RawLedgers
<1>9. M \in RawLedgers
  BY <1>4, <1>7, <1>8 DEF RawLedgers
<1>10. \A n \in Market : /\ M.market[n].orders = L.market[n].orders
                         /\ M.market[n].public = L.market[n].public
                         /\ M.market[n].default = L.market[n].default
  BY <1>2 DEF RawLedgers, RawMarkets
<1>11. \A b \in Account, n \in Market :
          M.position[<<b, n>>] = IF a = b /\ m = n THEN q ELSE L.position[<<b, n>>]
  BY <1>3, PairType DEF RawLedgers
<1> QED BY <1>1, <1>4, <1>5, <1>9, <1>10, <1>11 DEF p, Moved

-----------------------------------------------------------------------------
\* A set of orders is empty exactly when its cardinality is zero.
LEMMA EmptyCount ==
    ASSUME NEW S \in SUBSET OrderId
    PROVE  Cardinality(S) \in Nat /\ (Cardinality(S) = 0 <=> S = {})
<1>1. IsFiniteSet(S)
  BY LedgerAssumption, FS_Subset
<1> QED BY <1>1, FS_CardinalityType, FS_EmptySet

\* Starting a position afresh forgets no order: it happens only without orders.
LEMMA InitKeeps ==
    ASSUME NEW L, NEW O, Counted(L, O), NEW a \in Account, NEW m \in Perps
    PROVE  LET p == InitIfEmpty(L, a, m)
           IN  /\ p.orders = L.position[<<a, m>>].orders
               /\ p.tied = L.position[<<a, m>>].tied
               /\ OfPositionIn(O, a, m) # {} => p = L.position[<<a, m>>]
<1>1. CASE L.position[<<a, m>>].public = L.market[m].public
  BY <1>1 DEF InitIfEmpty
<1>2. CASE L.position[<<a, m>>].public # L.market[m].public
  <2>0. m \in Market
    BY LedgerAssumption
  <2>1. OfPositionIn(O, a, m) = {}
    BY <1>2 DEF Counted, LiveIn, OfPositionIn, OfMarketIn
  <2>2. TiedToIn(O, a, m) = {}
    BY <2>1 DEF TiedToIn
  <2>3. Cardinality(OfPositionIn(O, a, m)) = 0 /\ Cardinality(TiedToIn(O, a, m)) = 0
    BY <2>1, <2>2, FS_EmptySet
  <2>4. L.position[<<a, m>>].orders = 0 /\ L.position[<<a, m>>].tied = 0
    BY <2>3 DEF Counted, CountsIn
  <2>5. InitIfEmpty(L, a, m).orders = 0 /\ InitIfEmpty(L, a, m).tied = 0
    BY <1>2 DEF InitIfEmpty, EmptyPosition
  <2> QED BY <2>1, <2>4, <2>5
<1> QED BY <1>1, <1>2

\* A step that stores and removes no order keeps the counts if it keeps them in the
\* leaves, and touches no margin mode and no public index an order depends on.
LEMMA Frame ==
    ASSUME NEW L, NEW O, NEW M, Counted(L, O), M \in RawLedgers,
           M.account = L.account,
           \A m \in Market :
              /\ M.market[m].orders = L.market[m].orders
              /\ OfMarketIn(O, m) # {} => M.market[m].public = L.market[m].public,
           \A a \in Account, m \in Perps :
              /\ M.position[<<a, m>>].orders = L.position[<<a, m>>].orders
              /\ M.position[<<a, m>>].tied = L.position[<<a, m>>].tied
              /\ OfPositionIn(O, a, m) # {} =>
                    /\ M.position[<<a, m>>].mode = L.position[<<a, m>>].mode
                    /\ M.position[<<a, m>>].public = L.position[<<a, m>>].public,
           \A a \in Account, m \in Market \ Perps : M.position[<<a, m>>] = L.position[<<a, m>>]
    PROVE  Counted(M, O)
<1>5. ASSUME NEW i \in OrderId, O[i] # NoOrder, O[i].market \in Perps
      PROVE  /\ O[i].owner \in Account
             /\ i \in OfPositionIn(O, O[i].owner, O[i].market)
             /\ i \in OfMarketIn(O, O[i].market)
  <2>1. O[i].owner \in Account
    BY <1>5 DEF Counted, IsOrders, IsOrder
  <2> QED BY <1>5, <2>1 DEF OfPositionIn, OfMarketIn
<1>6. ASSUME NEW a \in Account PROVE NonCrossIn(M, O, a) = NonCrossIn(L, O, a)
  <2>1. ASSUME NEW i \in OfAccountIn(O, a), O[i].market \in Perps
        PROVE  M.position[<<a, O[i].market>>].mode
                 = L.position[<<a, O[i].market>>].mode
    <3>1. i \in OrderId /\ O[i] # NoOrder /\ O[i].owner = a
      BY DEF OfAccountIn
    <3>2. OfPositionIn(O, a, O[i].market) # {}
      BY <1>5, <2>1, <3>1
    <3> QED BY <2>1, <3>2
  <2> QED BY <2>1 DEF NonCrossIn, OfAccountIn
<1>7. CountsIn(M, O)
  BY <1>6, LedgerAssumption DEF Counted, CountsIn
<1>8. LiveIn(M, O)
  <2> SUFFICES ASSUME NEW i \in OrderId, O[i] # NoOrder, O[i].market \in Perps
               PROVE  M.position[<<O[i].owner, O[i].market>>].public
                         = M.market[O[i].market].public
    BY DEF LiveIn
  <2>1. /\ O[i].owner \in Account
        /\ i \in OfPositionIn(O, O[i].owner, O[i].market)
        /\ i \in OfMarketIn(O, O[i].market)
    BY <1>5
  <2>2. L.position[<<O[i].owner, O[i].market>>].public
            = L.market[O[i].market].public
    BY DEF Counted, LiveIn
  <2>3. M.market[O[i].market].public = L.market[O[i].market].public
    BY <2>1, LedgerAssumption
  <2>4. M.position[<<O[i].owner, O[i].market>>].public
            = L.position[<<O[i].owner, O[i].market>>].public
    BY <2>1
  <2> QED BY <2>2, <2>3, <2>4
<1>9. NoSpotIn(M)
  BY DEF Counted, NoSpotIn
<1> QED BY <1>7, <1>8, <1>9 DEF Counted

\* The same with the hypotheses as one.
Retains(L, M, O) ==
    /\ M \in RawLedgers
    /\ M.account = L.account
    /\ \A m \in Market :
          /\ M.market[m].orders = L.market[m].orders
          /\ OfMarketIn(O, m) # {} => M.market[m].public = L.market[m].public
    /\ \A a \in Account, m \in Perps :
          /\ M.position[<<a, m>>].orders = L.position[<<a, m>>].orders
          /\ M.position[<<a, m>>].tied = L.position[<<a, m>>].tied
          /\ OfPositionIn(O, a, m) # {} =>
                /\ M.position[<<a, m>>].mode = L.position[<<a, m>>].mode
                /\ M.position[<<a, m>>].public = L.position[<<a, m>>].public
    /\ \A a \in Account, m \in Market \ Perps : M.position[<<a, m>>] = L.position[<<a, m>>]

LEMMA FrameRetains ==
    ASSUME NEW L, NEW O, NEW M, Counted(L, O), Retains(L, M, O)
    PROVE  Counted(M, O)
BY Frame DEF Retains

-----------------------------------------------------------------------------
(* Every operation of the ledger keeps the counts, whatever transaction makes it. *)

\* Storing an order adds it to the sets, and one to each count it belongs to.
LEMMA StoreKeeps ==
    ASSUME NEW L, NEW O, NEW M, NEW P, NEW i \in OrderId, NEW o,
           Counted(L, O), IsOrder(o), o # NoOrder, O[i] = NoOrder,
           M = Increment(L, o), P = [O EXCEPT ![i] = o]
    PROVE  Counted(M, P)
<1> DEFINE p == InitIfEmpty(L, o.owner, o.market)
<1>1. o.owner \in Account /\ o.market \in Market /\ o # NoOrder /\ IsTied(o) \in BOOLEAN
  BY DEF IsOrder, IsTied
<1>2. /\ IsOrders(O)
      /\ O[i] = NoOrder
      /\ L \in RawLedgers
      /\ M = Increment(L, o)
  BY DEF Counted
<1>0. p = InitIfEmpty(L, o.owner, o.market)
  OBVIOUS
<1> HIDE DEF p
<1>3. /\ M \in RawLedgers
      /\ \A m \in Market :
            /\ M.market[m].orders = L.market[m].orders + (IF o.market = m THEN 1 ELSE 0)
            /\ M.market[m].public = L.market[m].public
      /\ \A a \in Account :
            /\ M.account[a].orders = L.account[a].orders + (IF o.owner = a THEN 1 ELSE 0)
            /\ M.account[a].nonCross = L.account[a].nonCross
                  + (IF o.owner = a /\ (o.market \notin Perps \/ p.mode = Isolated) THEN 1 ELSE 0)
      /\ \A a \in Account, m \in Market :
               IF o.owner = a /\ o.market = m /\ m \in Perps
               THEN /\ M.position[<<a, m>>].orders = p.orders + 1
                    /\ M.position[<<a, m>>].tied = p.tied + (IF IsTied(o) THEN 1 ELSE 0)
                    /\ M.position[<<a, m>>].mode = p.mode
                    /\ M.position[<<a, m>>].public = p.public
               ELSE M.position[<<a, m>>] = L.position[<<a, m>>]
  BY <1>0, <1>2, IncrementEffect
<1>4. p \in RawPositions /\ p.public = L.market[o.market].public
  BY <1>0, <1>1, <1>2, InitType
<1>5. o.market \in Perps =>
         /\ p.orders = L.position[<<o.owner, o.market>>].orders
         /\ p.tied = L.position[<<o.owner, o.market>>].tied
         /\ OfPositionIn(O, o.owner, o.market) # {} => p = L.position[<<o.owner, o.market>>]
  BY <1>0, <1>1, InitKeeps
<1>6. \A j \in OrderId : P[j] = IF j = i THEN o ELSE O[j]
  BY <1>2 DEF IsOrders
<1>7. ASSUME NEW a \in Account, NEW m \in Perps
      PROVE  /\ M.position[<<a, m>>].orders
                   = L.position[<<a, m>>].orders + (IF o.owner = a /\ o.market = m THEN 1 ELSE 0)
             /\ M.position[<<a, m>>].tied
                   = L.position[<<a, m>>].tied
                        + (IF o.owner = a /\ o.market = m /\ IsTied(o) THEN 1 ELSE 0)
             /\ OfPositionIn(O, a, m) # {} =>
                   /\ M.position[<<a, m>>].mode = L.position[<<a, m>>].mode
                   /\ M.position[<<a, m>>].public = L.position[<<a, m>>].public
             /\ o.owner = a /\ o.market = m =>
                   /\ M.position[<<a, m>>].mode = p.mode
                   /\ M.position[<<a, m>>].public = p.public
  <2>0. m \in Market
    BY LedgerAssumption
  <2>1. CASE o.owner = a /\ o.market = m
    <3>1. /\ M.position[<<a, m>>].orders = p.orders + 1
          /\ M.position[<<a, m>>].tied = p.tied + (IF IsTied(o) THEN 1 ELSE 0)
          /\ M.position[<<a, m>>].mode = p.mode
          /\ M.position[<<a, m>>].public = p.public
      BY <1>3, <2>0, <2>1
    <3>3. (IF o.owner = a /\ o.market = m THEN 1 ELSE 0) = 1
          /\ (IF o.owner = a /\ o.market = m /\ IsTied(o) THEN 1 ELSE 0) = (IF IsTied(o) THEN 1 ELSE 0)
      BY <2>1 DEF One
    <3> QED BY <1>5, <2>1, <3>1, <3>3
  <2>2. CASE ~ (o.owner = a /\ o.market = m)
    <3>1. M.position[<<a, m>>] = L.position[<<a, m>>]
      BY <1>3, <2>0, <2>2
    <3>2. (IF o.owner = a /\ o.market = m THEN 1 ELSE 0) = 0
          /\ (IF o.owner = a /\ o.market = m /\ IsTied(o) THEN 1 ELSE 0) = 0
      BY <2>2 DEF One
    <3>3. L.position[<<a, m>>].orders \in Int /\ L.position[<<a, m>>].tied \in Int
      BY <1>2, <2>0, PairType DEF RawLedgers, RawPositions
    <3> QED BY <2>2, <3>1, <3>2, <3>3
  <2> QED BY <2>1, <2>2
<1>8. ASSUME NEW m \in Market
      PROVE  M.market[m].orders = Cardinality(OfMarketIn(P, m))
  <2>1. i \notin OfMarketIn(O, m)
    BY <1>2 DEF OfMarketIn
  <2>2. OfMarketIn(P, m) = IF o.market = m THEN OfMarketIn(O, m) \union {i} ELSE OfMarketIn(O, m)
    <3>1. \A j \in OrderId : j \in OfMarketIn(P, m) <=>
                                j \in OfMarketIn(O, m) \/ (o.market = m /\ j = i)
      BY <1>1, <1>6, <2>1 DEF OfMarketIn
    <3>2. OfMarketIn(P, m) \in SUBSET OrderId /\ OfMarketIn(O, m) \in SUBSET OrderId
      BY DEF OfMarketIn
    <3> QED BY <3>1, <3>2
  <2>3. OfMarketIn(O, m) \in SUBSET OrderId
    BY DEF OfMarketIn
  <2>4. Cardinality(OfMarketIn(P, m)) = Cardinality(OfMarketIn(O, m)) + (IF o.market = m THEN 1 ELSE 0)
    BY <2>1, <2>2, <2>3, CardinalityStep
  <2> QED BY <1>3, <2>4 DEF Counted, CountsIn
<1>9. ASSUME NEW a \in Account
      PROVE  M.account[a].orders = Cardinality(OfAccountIn(P, a))
  <2>1. i \notin OfAccountIn(O, a)
    BY <1>2 DEF OfAccountIn
  <2>2. OfAccountIn(P, a) = IF o.owner = a THEN OfAccountIn(O, a) \union {i} ELSE OfAccountIn(O, a)
    <3>1. \A j \in OrderId : j \in OfAccountIn(P, a) <=>
                                j \in OfAccountIn(O, a) \/ (o.owner = a /\ j = i)
      BY <1>1, <1>6, <2>1 DEF OfAccountIn
    <3>2. OfAccountIn(P, a) \in SUBSET OrderId /\ OfAccountIn(O, a) \in SUBSET OrderId
      BY DEF OfAccountIn
    <3> QED BY <3>1, <3>2
  <2>3. OfAccountIn(O, a) \in SUBSET OrderId
    BY DEF OfAccountIn
  <2>4. Cardinality(OfAccountIn(P, a)) = Cardinality(OfAccountIn(O, a)) + (IF o.owner = a THEN 1 ELSE 0)
    BY <2>1, <2>2, <2>3, CardinalityStep
  <2> QED BY <1>3, <2>4 DEF Counted, CountsIn
<1>10. ASSUME NEW a \in Account
       PROVE  M.account[a].nonCross = Cardinality(NonCrossIn(M, P, a))
  <2> DEFINE b == o.owner = a /\ (o.market \notin Perps \/ p.mode = Isolated)
  <2>1. i \notin NonCrossIn(L, O, a) /\ NonCrossIn(L, O, a) \in SUBSET OrderId
    BY <1>2 DEF NonCrossIn, OfAccountIn
  <2>2. ASSUME NEW j \in OrderId, j # i, O[j] # NoOrder, O[j].owner = a,
               O[j].market \in Perps
        PROVE  M.position[<<a, O[j].market>>].mode
                  = L.position[<<a, O[j].market>>].mode
    <3>1. j \in OfPositionIn(O, a, O[j].market)
      BY <2>2 DEF OfPositionIn, OfMarketIn
    <3> QED BY <1>7, <2>2, <3>1
  <2>3. o.owner = a /\ o.market \in Perps =>
           M.position[<<a, o.market>>].mode = p.mode
    BY <1>7
  <2>4. ASSUME NEW j \in OrderId PROVE j \in NonCrossIn(M, P, a) <=> (j \in NonCrossIn(L, O, a) \/ (b /\ j = i))
    <3>1. CASE j = i
      BY <1>1, <1>6, <2>1, <2>3, <3>1 DEF NonCrossIn, OfAccountIn
    <3>2. CASE j # i
      BY <1>6, <2>2, <3>2 DEF NonCrossIn, OfAccountIn
    <3> QED BY <3>1, <3>2
  <2>5. NonCrossIn(M, P, a) \in SUBSET OrderId
    BY DEF NonCrossIn, OfAccountIn
  <2>6. NonCrossIn(M, P, a) = IF b THEN NonCrossIn(L, O, a) \union {i} ELSE NonCrossIn(L, O, a)
    BY <2>1, <2>4, <2>5
  <2>7. Cardinality(NonCrossIn(M, P, a)) = Cardinality(NonCrossIn(L, O, a)) + (IF b THEN 1 ELSE 0)
    BY <2>1, <2>6, CardinalityStep, b \in BOOLEAN
  <2> QED BY <1>3, <2>7 DEF Counted, CountsIn
<1>11. ASSUME NEW a \in Account, NEW m \in Perps
       PROVE  /\ M.position[<<a, m>>].orders = Cardinality(OfPositionIn(P, a, m))
              /\ M.position[<<a, m>>].tied = Cardinality(TiedToIn(P, a, m))
  <2> DEFINE b == o.owner = a /\ o.market = m
  <2>1. /\ i \notin OfPositionIn(O, a, m) /\ OfPositionIn(O, a, m) \in SUBSET OrderId
        /\ i \notin TiedToIn(O, a, m) /\ TiedToIn(O, a, m) \in SUBSET OrderId
    BY <1>2 DEF TiedToIn, OfPositionIn, OfMarketIn
  <2>2. OfPositionIn(P, a, m) = IF b THEN OfPositionIn(O, a, m) \union {i} ELSE OfPositionIn(O, a, m)
    BY <1>1, <1>6, <2>1 DEF OfPositionIn, OfMarketIn
  <2>3. TiedToIn(P, a, m) = IF b /\ IsTied(o) THEN TiedToIn(O, a, m) \union {i} ELSE TiedToIn(O, a, m)
    BY <1>1, <1>6, <2>1 DEF TiedToIn, OfPositionIn, OfMarketIn
  <2>4. Cardinality(OfPositionIn(P, a, m)) = Cardinality(OfPositionIn(O, a, m)) + (IF b THEN 1 ELSE 0)
    BY <2>1, <2>2, CardinalityStep
  <2>5. Cardinality(TiedToIn(P, a, m)) = Cardinality(TiedToIn(O, a, m)) + (IF b /\ IsTied(o) THEN 1 ELSE 0)
    <3> DEFINE c == b /\ IsTied(o)
    <3>1. c \in BOOLEAN /\ TiedToIn(P, a, m) = IF c THEN TiedToIn(O, a, m) \union {i} ELSE TiedToIn(O, a, m)
      BY <1>1, <2>3
    <3> HIDE DEF c
    <3>2. Cardinality(TiedToIn(P, a, m)) = Cardinality(TiedToIn(O, a, m)) + (IF c THEN 1 ELSE 0)
      BY <2>1, <3>1, CardinalityStep
    <3> QED BY <3>2 DEF c
  <2>6. (IF b /\ IsTied(o) THEN 1 ELSE 0) = (IF o.owner = a /\ o.market = m /\ IsTied(o) THEN 1 ELSE 0)
    BY DEF One
  <2> QED BY <1>7, <2>4, <2>5, <2>6 DEF Counted, CountsIn
<1>12. CountsIn(M, P)
  BY <1>8, <1>9, <1>10, <1>11 DEF CountsIn
<1>13. LiveIn(M, P)
  <2> SUFFICES ASSUME NEW j \in OrderId, P[j] # NoOrder, P[j].market \in Perps
               PROVE  M.position[<<P[j].owner, P[j].market>>].public
                         = M.market[P[j].market].public
    BY DEF LiveIn
  <2>1. CASE j = i
    BY <1>1, <1>3, <1>4, <1>6, <1>7, <2>1
  <2>2. CASE j # i
    <3>1. P[j] = O[j] /\ IsOrder(O[j])
      BY <1>2, <1>6, <2>2 DEF IsOrders
    <3>2. j \in OfPositionIn(O, O[j].owner, O[j].market) /\ O[j].owner \in Account
      BY <3>1 DEF OfPositionIn, OfMarketIn, IsOrder
    <3>3. M.market[O[j].market].public = L.market[O[j].market].public
      BY <1>3, <3>1, LedgerAssumption
    <3>4. M.position[<<O[j].owner, O[j].market>>].public
             = L.position[<<O[j].owner, O[j].market>>].public
      BY <1>7, <3>1, <3>2
    <3> QED BY <3>1, <3>3, <3>4 DEF Counted, LiveIn
  <2> QED BY <2>1, <2>2
<1>14. NoSpotIn(M)
  <2> SUFFICES ASSUME NEW a \in Account, NEW m \in Market \ Perps
               PROVE  M.position[<<a, m>>] = EmptyPosition
    BY DEF NoSpotIn
  <2>1. M.position[<<a, m>>] = L.position[<<a, m>>]
    BY <1>3
  <2> QED BY <2>1 DEF Counted, NoSpotIn
<1>15. IsOrders(P)
  BY <1>2, <1>6 DEF IsOrders
<1> QED BY <1>3, <1>12, <1>13, <1>14, <1>15 DEF Counted

\* Removing an order takes it out of the sets, and one from each count it belonged to.
LEMMA DropKeeps ==
    ASSUME NEW L, NEW O, NEW M, NEW P, NEW i \in OrderId, NEW o,
           Counted(L, O), o = O[i], o # NoOrder,
           M = Decrement(L, o), P = [O EXCEPT ![i] = NoOrder]
    PROVE  Counted(M, P)
<1> DEFINE p == L.position[<<o.owner, o.market>>]
<1>0. p = L.position[<<o.owner, o.market>>]
  OBVIOUS
<1>1. /\ IsOrders(O) /\ IsOrder(o) /\ L \in RawLedgers
      /\ o # NoOrder
  BY DEF Counted, IsOrders
<1>2. o.owner \in Account /\ o.market \in Market /\ IsTied(o) \in BOOLEAN
  BY <1>1 DEF IsOrder, IsTied
<1>3. /\ \A j \in OrderId : P[j] = IF j = i THEN NoOrder ELSE O[j]
      /\ o = O[i]
  BY <1>1 DEF IsOrders
<1> HIDE DEF p
<1>4. /\ M \in RawLedgers
      /\ \A m \in Market :
            /\ M.market[m].orders = L.market[m].orders - (IF o.market = m THEN 1 ELSE 0)
            /\ M.market[m].public = L.market[m].public
      /\ \A a \in Account :
            /\ M.account[a].orders = L.account[a].orders - (IF o.owner = a THEN 1 ELSE 0)
            /\ M.account[a].nonCross = L.account[a].nonCross
                  - (IF o.owner = a /\ (o.market \notin Perps \/ p.mode = Isolated) THEN 1 ELSE 0)
      /\ \A a \in Account, m \in Market :
               IF o.owner = a /\ o.market = m /\ m \in Perps
               THEN /\ M.position[<<a, m>>].orders = p.orders - 1
                    /\ M.position[<<a, m>>].tied = p.tied - (IF IsTied(o) THEN 1 ELSE 0)
                    /\ M.position[<<a, m>>].mode = p.mode
                    /\ M.position[<<a, m>>].public = p.public
               ELSE M.position[<<a, m>>] = L.position[<<a, m>>]
  BY <1>0, <1>1, DecrementEffect
<1>7. ASSUME NEW a \in Account, NEW m \in Perps
      PROVE  /\ M.position[<<a, m>>].orders = L.position[<<a, m>>].orders
                   - (IF o.owner = a /\ o.market = m THEN 1 ELSE 0)
             /\ M.position[<<a, m>>].tied = L.position[<<a, m>>].tied
                   - (IF o.owner = a /\ o.market = m /\ IsTied(o) THEN 1 ELSE 0)
             /\ M.position[<<a, m>>].mode = L.position[<<a, m>>].mode
             /\ M.position[<<a, m>>].public = L.position[<<a, m>>].public
  <2>0. m \in Market
    BY LedgerAssumption
  <2>1. CASE o.owner = a /\ o.market = m
    BY <1>0, <1>4, <2>0, <2>1
  <2>2. CASE ~ (o.owner = a /\ o.market = m)
    <3>1. M.position[<<a, m>>] = L.position[<<a, m>>]
      BY <1>4, <2>0, <2>2
    <3>2. L.position[<<a, m>>].orders \in Int /\ L.position[<<a, m>>].tied \in Int
      BY <1>1, <2>0, PairType DEF RawLedgers, RawPositions
    <3> QED BY <2>2, <3>1, <3>2
  <2> QED BY <2>1, <2>2
<1>8. ASSUME NEW m \in Market
      PROVE  M.market[m].orders = Cardinality(OfMarketIn(P, m))
  <2> DEFINE S == OfMarketIn(P, m)
  <2>1. i \notin S /\ S \in SUBSET OrderId
    BY <1>3 DEF OfMarketIn
  <2>2. OfMarketIn(O, m) = IF o.market = m THEN S \union {i} ELSE S
    <3>1. \A j \in OrderId : j \in OfMarketIn(O, m) <=> j \in S \/ (o.market = m /\ j = i)
      BY <1>1, <1>3 DEF OfMarketIn
    <3>2. OfMarketIn(O, m) \in SUBSET OrderId
      BY DEF OfMarketIn
    <3> QED BY <2>1, <3>1, <3>2
  <2> HIDE DEF S
  <2>4. Cardinality(S) \in Nat
        /\ Cardinality(OfMarketIn(O, m)) = Cardinality(S) + (IF o.market = m THEN 1 ELSE 0)
    BY <2>1, <2>2, CardinalityStep
  <2>5. L.market[m].orders = Cardinality(OfMarketIn(O, m))
    BY DEF Counted, CountsIn
  <2>6. M.market[m].orders = Cardinality(S)
    BY <1>4, <2>4, <2>5
  <2> QED BY <2>6 DEF S
<1>9. ASSUME NEW a \in Account
      PROVE  M.account[a].orders = Cardinality(OfAccountIn(P, a))
  <2> DEFINE S == OfAccountIn(P, a)
  <2>1. i \notin S /\ S \in SUBSET OrderId
    BY <1>3 DEF OfAccountIn
  <2>2. OfAccountIn(O, a) = IF o.owner = a THEN S \union {i} ELSE S
    <3>1. \A j \in OrderId : j \in OfAccountIn(O, a) <=> j \in S \/ (o.owner = a /\ j = i)
      BY <1>1, <1>3 DEF OfAccountIn
    <3>2. OfAccountIn(O, a) \in SUBSET OrderId
      BY DEF OfAccountIn
    <3> QED BY <2>1, <3>1, <3>2
  <2> HIDE DEF S
  <2>4. Cardinality(S) \in Nat
        /\ Cardinality(OfAccountIn(O, a)) = Cardinality(S) + (IF o.owner = a THEN 1 ELSE 0)
    BY <2>1, <2>2, CardinalityStep
  <2>5. L.account[a].orders = Cardinality(OfAccountIn(O, a))
    BY DEF Counted, CountsIn
  <2>6. M.account[a].orders = Cardinality(S)
    BY <1>4, <2>4, <2>5
  <2> QED BY <2>6 DEF S
<1>10. ASSUME NEW a \in Account
       PROVE  M.account[a].nonCross = Cardinality(NonCrossIn(M, P, a))
  <2> DEFINE S == NonCrossIn(M, P, a)
             b == o.owner = a /\ (o.market \notin Perps \/ p.mode = Isolated)
  <2>1. i \notin S /\ S \in SUBSET OrderId
    BY <1>3 DEF NonCrossIn, OfAccountIn
  <2>2. ASSUME NEW j \in OrderId
        PROVE  j \in NonCrossIn(L, O, a) <=> j \in S \/ (b /\ j = i)
    <3>1. CASE j = i
      BY <1>0, <1>1, <1>3, <2>1, <3>1 DEF NonCrossIn, OfAccountIn
    <3>2. CASE j # i
      BY <1>3, <1>7, <3>2 DEF NonCrossIn, OfAccountIn
    <3> QED BY <3>1, <3>2
  <2>3. NonCrossIn(L, O, a) \in SUBSET OrderId
    BY DEF NonCrossIn, OfAccountIn
  <2>4. NonCrossIn(L, O, a) = IF b THEN S \union {i} ELSE S
    BY <2>1, <2>2, <2>3
  <2> HIDE DEF S
  <2>5. Cardinality(S) \in Nat
        /\ Cardinality(NonCrossIn(L, O, a)) = Cardinality(S) + (IF b THEN 1 ELSE 0)
    BY <2>1, <2>4, CardinalityStep, b \in BOOLEAN
  <2>6. L.account[a].nonCross = Cardinality(NonCrossIn(L, O, a))
    BY DEF Counted, CountsIn
  <2>7. M.account[a].nonCross = Cardinality(S)
    BY <1>4, <2>5, <2>6
  <2> QED BY <2>7 DEF S
<1>11. ASSUME NEW a \in Account, NEW m \in Perps
       PROVE  /\ M.position[<<a, m>>].orders = Cardinality(OfPositionIn(P, a, m))
              /\ M.position[<<a, m>>].tied = Cardinality(TiedToIn(P, a, m))
  <2> DEFINE S == OfPositionIn(P, a, m)
             T == TiedToIn(P, a, m)
             b == o.owner = a /\ o.market = m
             c == o.owner = a /\ o.market = m /\ IsTied(o)
  <2>1. i \notin S /\ S \in SUBSET OrderId /\ i \notin T /\ T \in SUBSET OrderId
    BY <1>3 DEF TiedToIn, OfPositionIn, OfMarketIn
  <2>2. OfPositionIn(O, a, m) = IF b THEN S \union {i} ELSE S
    <3>1. \A j \in OrderId : j \in OfPositionIn(O, a, m) <=> j \in S \/ (b /\ j = i)
      BY <1>1, <1>3 DEF OfPositionIn, OfMarketIn
    <3>2. OfPositionIn(O, a, m) \in SUBSET OrderId
      BY DEF OfPositionIn, OfMarketIn
    <3> QED BY <2>1, <3>1, <3>2
  <2>3. TiedToIn(O, a, m) = IF c THEN T \union {i} ELSE T
    <3>1. \A j \in OrderId : j \in TiedToIn(O, a, m) <=> j \in T \/ (c /\ j = i)
      BY <1>1, <1>3 DEF TiedToIn, OfPositionIn, OfMarketIn
    <3>2. TiedToIn(O, a, m) \in SUBSET OrderId
      BY DEF TiedToIn, OfPositionIn, OfMarketIn
    <3> QED BY <2>1, <3>1, <3>2
  <2>0. b \in BOOLEAN /\ c \in BOOLEAN
    BY <1>2
  <2> HIDE DEF S, T, b, c
  <2>4. Cardinality(S) \in Nat
        /\ Cardinality(OfPositionIn(O, a, m)) = Cardinality(S) + (IF b THEN 1 ELSE 0)
    BY <2>0, <2>1, <2>2, CardinalityStep
  <2>5. Cardinality(T) \in Nat
        /\ Cardinality(TiedToIn(O, a, m)) = Cardinality(T) + (IF c THEN 1 ELSE 0)
    BY <2>0, <2>1, <2>3, CardinalityStep
  <2>6. /\ L.position[<<a, m>>].orders = Cardinality(OfPositionIn(O, a, m))
        /\ L.position[<<a, m>>].tied = Cardinality(TiedToIn(O, a, m))
    BY DEF Counted, CountsIn
  <2>7. M.position[<<a, m>>].orders = Cardinality(S)
    BY <1>7, <2>4, <2>6 DEF b
  <2>8. M.position[<<a, m>>].tied = Cardinality(T)
    BY <1>7, <2>5, <2>6 DEF c
  <2> QED BY <2>7, <2>8 DEF S, T
<1>12. CountsIn(M, P)
  BY <1>8, <1>9, <1>10, <1>11 DEF CountsIn
<1>13. LiveIn(M, P)
  <2> SUFFICES ASSUME NEW j \in OrderId, P[j] # NoOrder, P[j].market \in Perps
               PROVE  M.position[<<P[j].owner, P[j].market>>].public
                         = M.market[P[j].market].public
    BY DEF LiveIn
  <2>1. P[j] = O[j] /\ IsOrder(O[j]) /\ O[j].owner \in Account
    BY <1>1, <1>3 DEF IsOrder, IsOrders
  <2>2. O[j].market \in Market
    BY <2>1, LedgerAssumption
  <2>3. M.market[O[j].market].public = L.market[O[j].market].public
    BY <1>4, <2>2
  <2>4. M.position[<<O[j].owner, O[j].market>>].public
           = L.position[<<O[j].owner, O[j].market>>].public
    BY <1>7, <2>1
  <2> QED BY <2>1, <2>3, <2>4 DEF Counted, LiveIn
<1>14. NoSpotIn(M)
  <2> SUFFICES ASSUME NEW a \in Account, NEW m \in Market \ Perps
               PROVE  M.position[<<a, m>>] = EmptyPosition
    BY DEF NoSpotIn
  <2>1. M.position[<<a, m>>] = L.position[<<a, m>>]
    BY <1>4
  <2> QED BY <2>1 DEF Counted, NoSpotIn
<1>15. IsOrders(P)
  BY <1>1, <1>3 DEF IsOrders
<1> QED BY <1>4, <1>12, <1>13, <1>14, <1>15 DEF Counted

\* Releasing a slot is seen by no order: it happens only when the market has none.
LEMMA ReleaseKeeps ==
    ASSUME NEW L, NEW O, NEW M, NEW m \in Market, Counted(L, O), M = Release(L, m)
    PROVE  Counted(M, O)
<1>1. L \in RawLedgers
  BY DEF Counted
<1>2. /\ M \in RawLedgers
      /\ M.account = L.account /\ M.position = L.position
      /\ \A n \in Market : M.market[n].orders = L.market[n].orders
      /\ \A n \in Market :
            \/ M.market[n].public = L.market[n].public
            \/ L.market[n].orders = 0
  BY <1>1, ReleaseEffect
<1>3. ASSUME NEW n \in Market, OfMarketIn(O, n) # {}
      PROVE  M.market[n].public = L.market[n].public
  <2>1. L.market[n].orders = Cardinality(OfMarketIn(O, n)) /\ OfMarketIn(O, n) \in SUBSET OrderId
    BY DEF Counted, CountsIn, OfMarketIn
  <2>2. L.market[n].orders # 0
    BY <1>3, <2>1, EmptyCount
  <2> QED BY <1>2, <2>2
<1> QED BY <1>2, <1>3, Frame

\* An order that keeps its owner, its market and whether it is tied keeps its counts.
LEMMA ChangeKeeps ==
    ASSUME NEW L, NEW O, NEW P, NEW i \in OrderId, NEW o,
           Counted(L, O), O[i] # NoOrder, IsOrder(o), o # NoOrder,
           o.owner = O[i].owner, o.market = O[i].market, IsTied(o) = IsTied(O[i]),
           P = [O EXCEPT ![i] = o]
    PROVE  Counted(L, P)
<1>1. \A j \in OrderId :
         /\ P[j] = IF j = i THEN o ELSE O[j]
         /\ P[j] # NoOrder <=> O[j] # NoOrder
         /\ P[j].owner = O[j].owner /\ P[j].market = O[j].market
         /\ IsTied(P[j]) = IsTied(O[j])
  BY DEF Counted, IsOrders
<1>2. IsOrders(P)
  BY <1>1 DEF Counted, IsOrders
<1>3. \A m \in Market : OfMarketIn(P, m) = OfMarketIn(O, m)
  BY <1>1 DEF OfMarketIn
<1>4. \A a \in Account : OfAccountIn(P, a) = OfAccountIn(O, a)
  BY <1>1 DEF OfAccountIn
<1>5. \A a \in Account, m \in Market : OfPositionIn(P, a, m) = OfPositionIn(O, a, m)
  BY <1>1 DEF OfPositionIn, OfMarketIn
<1>6. \A a \in Account, m \in Market : TiedToIn(P, a, m) = TiedToIn(O, a, m)
  BY <1>1 DEF TiedToIn, OfPositionIn, OfMarketIn
<1>7. \A a \in Account : NonCrossIn(L, P, a) = NonCrossIn(L, O, a)
  BY <1>1 DEF NonCrossIn, OfAccountIn
<1>8. CountsIn(L, P)
  BY <1>3, <1>4, <1>5, <1>6, <1>7, LedgerAssumption DEF Counted, CountsIn
<1>9. LiveIn(L, P)
  BY <1>1 DEF Counted, LiveIn
<1> QED BY <1>2, <1>8, <1>9 DEF Counted

\* A triggered child becomes tied to the position: it and the tied count move together.
LEMMA TriggerKeeps ==
    ASSUME NEW L, NEW O, NEW M, NEW P, NEW i \in OrderId, NEW o, NEW u,
           Counted(L, O), o = O[i], o # NoOrder,
           o.trigger = "parent_order", o.market \in Perps,
           IsOrder(u), u # NoOrder, u.owner = o.owner, u.market = o.market,
           u.reduceOnly = o.reduceOnly, u.trigger # "parent_order",
           M = CountTriggered(L, o), P = [O EXCEPT ![i] = u]
    PROVE  Counted(M, P)
<1> DEFINE am == <<o.owner, o.market>>
           k == IF o.reduceOnly THEN 1 ELSE 0
           q == [L.position[am] EXCEPT !.tied = @ + k]
<1>1. /\ IsOrders(O) /\ IsOrder(o) /\ L \in RawLedgers
      /\ o # NoOrder /\ o.trigger = "parent_order" /\ o.market \in Perps
      /\ M = CountTriggered(L, o)
  BY DEF Counted, IsOrders
<1>2. o.owner \in Account /\ o.market \in Market /\ o.reduceOnly \in BOOLEAN
      /\ am \in Account \X Market
  BY <1>1 DEF IsOrder
<1>3. \A j \in OrderId :
         /\ P[j] = IF j = i THEN u ELSE O[j]
         /\ j # i => P[j] = O[j]
  BY <1>1 DEF IsOrders
<1>4. /\ IsOrder(P[i]) /\ P[i] # NoOrder
      /\ P[i].owner = o.owner /\ P[i].market = o.market
      /\ P[i].reduceOnly = o.reduceOnly /\ P[i].trigger # "parent_order"
  BY <1>3
<1>5. /\ M.market = L.market /\ M.account = L.account
      /\ M.position = [L.position EXCEPT ![am] = q]
      /\ M = [market |-> M.market, account |-> M.account,
                    position |-> M.position]
  BY <1>1 DEF CountTriggered, RawLedgers, One
<1>6. L.position[am] \in RawPositions
  BY <1>1, <1>2 DEF RawLedgers
<1>7. /\ q \in RawPositions /\ q.orders = L.position[am].orders
      /\ q.tied = L.position[am].tied + k
      /\ q.mode = L.position[am].mode /\ q.public = L.position[am].public
  BY <1>6 DEF RawPositions
<1>8. k = (IF o.reduceOnly THEN 1 ELSE 0) /\ am = <<o.owner, o.market>> /\ o = O[i]
  OBVIOUS
<1> HIDE DEF q, k
<1>9. M \in RawLedgers
  <2>1. M.position \in [Account \X Market -> RawPositions]
    BY ZenonT(40), <1>1, <1>5, <1>7 DEF RawLedgers
  <2> QED BY <1>1, <1>5, <2>1 DEF RawLedgers
<1>10. ASSUME NEW a \in Account, NEW m \in Market
       PROVE  /\ M.position[<<a, m>>].orders = L.position[<<a, m>>].orders
              /\ M.position[<<a, m>>].mode = L.position[<<a, m>>].mode
              /\ M.position[<<a, m>>].public = L.position[<<a, m>>].public
              /\ M.position[<<a, m>>].tied = L.position[<<a, m>>].tied
                    + (IF o.owner = a /\ o.market = m /\ o.reduceOnly THEN 1 ELSE 0)
              /\ ~ (o.owner = a /\ o.market = m) =>
                    M.position[<<a, m>>] = L.position[<<a, m>>]
  <2>1. CASE o.owner = a /\ o.market = m
    <3>1. M.position[<<a, m>>] = q
      BY <1>1, <1>2, <1>5, <2>1 DEF RawLedgers
    <3>2. am = <<a, m>>
      BY <2>1
    <3> QED BY <1>7, <1>8, <2>1, <3>1, <3>2
  <2>2. CASE ~ (o.owner = a /\ o.market = m)
    <3>1. M.position[<<a, m>>] = L.position[<<a, m>>]
      BY <1>1, <1>2, <1>5, <2>2, PairType DEF RawLedgers
    <3>2. L.position[<<a, m>>].tied \in Int
      BY <1>1, PairType DEF RawLedgers, RawPositions
    <3> QED BY <2>2, <3>1, <3>2
  <2> QED BY <2>1, <2>2
<1>11. /\ \A m \in Market : OfMarketIn(P, m) = OfMarketIn(O, m)
       /\ \A a \in Account : OfAccountIn(P, a) = OfAccountIn(O, a)
       /\ \A a \in Account, m \in Market : OfPositionIn(P, a, m) = OfPositionIn(O, a, m)
  <2>1. \A j \in OrderId :
           /\ P[j] # NoOrder <=> O[j] # NoOrder
           /\ P[j].owner = O[j].owner /\ P[j].market = O[j].market
    BY <1>1, <1>3, <1>4, <1>8
  <2> QED BY <2>1 DEF OfMarketIn, OfAccountIn, OfPositionIn
<1>12. ASSUME NEW a \in Account PROVE NonCrossIn(M, P, a) = NonCrossIn(L, O, a)
  <2>1. \A j \in OrderId : P[j].market = O[j].market
    BY <1>3, <1>4, <1>8
  <2>2. ASSUME NEW j \in OfAccountIn(O, a), O[j].market \in Perps
        PROVE  M.position[<<a, O[j].market>>].mode
                  = L.position[<<a, O[j].market>>].mode
    BY <1>10, <2>2, LedgerAssumption
  <2>3. OfAccountIn(O, a) \in SUBSET OrderId /\ OfAccountIn(P, a) = OfAccountIn(O, a)
    BY <1>11 DEF OfAccountIn
  <2>4. \A j \in OfAccountIn(O, a) :
           /\ P[j].market = O[j].market
           /\ O[j].market \in Perps => M.position[<<a, O[j].market>>].mode
                                        = L.position[<<a, O[j].market>>].mode
    BY <2>1, <2>2, <2>3
  <2> QED BY <2>3, <2>4 DEF NonCrossIn
<1>13. ASSUME NEW a \in Account, NEW m \in Perps
       PROVE  M.position[<<a, m>>].tied = Cardinality(TiedToIn(P, a, m))
  <2> DEFINE b == o.owner = a /\ o.market = m /\ o.reduceOnly
  <2>0. m \in Market /\ b \in BOOLEAN
    BY <1>2, LedgerAssumption
  <2>1. i \notin TiedToIn(O, a, m) /\ TiedToIn(O, a, m) \in SUBSET OrderId
        /\ TiedToIn(P, a, m) \in SUBSET OrderId
    BY <1>1, <1>8 DEF TiedToIn, OfPositionIn, OfMarketIn, IsTied
  <2>2. ASSUME NEW j \in OrderId
        PROVE  j \in TiedToIn(P, a, m) <=> j \in TiedToIn(O, a, m) \/ (b /\ j = i)
    <3>1. CASE j = i
      BY <1>4, <2>1, <3>1 DEF TiedToIn, OfPositionIn, OfMarketIn, IsTied
    <3>2. CASE j # i
      BY <1>3, <3>2 DEF TiedToIn, OfPositionIn, OfMarketIn, IsTied
    <3> QED BY <3>1, <3>2
  <2>3. TiedToIn(P, a, m) = IF b THEN TiedToIn(O, a, m) \union {i} ELSE TiedToIn(O, a, m)
    BY <2>1, <2>2
  <2> HIDE DEF b
  <2>4. Cardinality(TiedToIn(P, a, m)) = Cardinality(TiedToIn(O, a, m)) + (IF b THEN 1 ELSE 0)
    BY <2>0, <2>1, <2>3, CardinalityStep
  <2> QED BY <1>10, <2>0, <2>4 DEF Counted, CountsIn, b
<1>14. CountsIn(M, P)
  <2>1. \A m \in Market : M.market[m].orders = Cardinality(OfMarketIn(P, m))
    BY <1>5, <1>11 DEF Counted, CountsIn
  <2>2. \A a \in Account : /\ M.account[a].orders = Cardinality(OfAccountIn(P, a))
                           /\ M.account[a].nonCross = Cardinality(NonCrossIn(M, P, a))
    BY ZenonT(40), <1>5, <1>11, <1>12 DEF Counted, CountsIn
  <2>3. \A a \in Account, m \in Perps :
           M.position[<<a, m>>].orders = Cardinality(OfPositionIn(P, a, m))
    <3> SUFFICES ASSUME NEW a \in Account, NEW m \in Perps
                 PROVE  M.position[<<a, m>>].orders = Cardinality(OfPositionIn(P, a, m))
      OBVIOUS
    <3>1. m \in Market
      BY LedgerAssumption
    <3>2. L.position[<<a, m>>].orders = Cardinality(OfPositionIn(O, a, m))
      BY DEF Counted, CountsIn
    <3> QED BY <1>10, <1>11, <3>1, <3>2
  <2> QED BY <1>13, <2>1, <2>2, <2>3 DEF CountsIn
<1>15. LiveIn(M, P)
  <2> SUFFICES ASSUME NEW j \in OrderId, P[j] # NoOrder, P[j].market \in Perps
               PROVE  M.position[<<P[j].owner, P[j].market>>].public
                         = M.market[P[j].market].public
    BY DEF LiveIn
  <2>1. /\ O[j] # NoOrder
        /\ P[j].owner = O[j].owner /\ P[j].market = O[j].market
    BY <1>1, <1>3, <1>4, <1>8
  <2>2. O[j].owner \in Account /\ O[j].market \in Market
    BY <1>1, <2>1 DEF IsOrders, IsOrder
  <2> QED BY <1>5, <1>10, <2>1, <2>2 DEF Counted, LiveIn
<1>16. NoSpotIn(M)
  <2> SUFFICES ASSUME NEW a \in Account, NEW m \in Market \ Perps
               PROVE  M.position[<<a, m>>] = EmptyPosition
    BY DEF NoSpotIn
  <2>1. o.market # m
    BY <1>1
  <2>2. M.position[<<a, m>>] = L.position[<<a, m>>]
    BY <1>10, <2>1
  <2> QED BY <2>2 DEF Counted, NoSpotIn
<1>17. IsOrders(P)
  BY <1>1, <1>3, <1>4 DEF IsOrders
<1> QED BY <1>9, <1>14, <1>15, <1>16, <1>17 DEF Counted

\* One side of a trade moves no count.
LEMMA MoveKeeps ==
    ASSUME NEW L, NEW O, NEW M, NEW a \in Account, NEW m \in Perps, NEW delta \in Int,
           Counted(L, O), M = Move(L, a, m, delta)
    PROVE  Counted(M, O)
<1>0. m \in Market /\ L \in RawLedgers
  BY LedgerAssumption DEF Counted
<1>1. Moved(L, M, a, m)
  BY <1>0, MoveEffect
<1>2. LET p == InitIfEmpty(L, a, m)
      IN  /\ p.orders = L.position[<<a, m>>].orders
          /\ p.tied = L.position[<<a, m>>].tied
          /\ OfPositionIn(O, a, m) # {} => p = L.position[<<a, m>>]
          /\ p.public = L.market[m].public
  BY <1>0, InitKeeps, InitType
<1>3. ASSUME NEW x \in Account, NEW n \in Perps
      PROVE  /\ M.position[<<x, n>>].orders = L.position[<<x, n>>].orders
             /\ M.position[<<x, n>>].tied = L.position[<<x, n>>].tied
             /\ OfPositionIn(O, x, n) # {} =>
                   /\ M.position[<<x, n>>].mode = L.position[<<x, n>>].mode
                   /\ M.position[<<x, n>>].public = L.position[<<x, n>>].public
  <2>0. n \in Market
    BY LedgerAssumption
  <2>1. CASE n = m /\ x = a
    BY <1>0, <1>1, <1>2, <2>0, <2>1 DEF Moved
  <2>2. CASE ~ (n = m /\ x = a)
    BY <1>1, <2>0, <2>2 DEF Moved
  <2> QED BY <2>1, <2>2
<1>4. \A x \in Account, n \in Market \ Perps : M.position[<<x, n>>] = L.position[<<x, n>>]
  BY <1>1 DEF Moved
<1>5. /\ M \in RawLedgers /\ M.account = L.account
      /\ \A n \in Market : /\ M.market[n].orders = L.market[n].orders
                           /\ M.market[n].public = L.market[n].public
  BY <1>1 DEF Moved
<1> QED BY <1>3, <1>4, <1>5, Frame

\* A step that changes market leaves only, and no count, keeps the counts when the
\* public index of a market with orders stays.
LEMMA MarketKeeps ==
    ASSUME NEW L, NEW O, NEW M, Counted(L, O), NEW m \in Market, NEW w \in RawMarkets,
           w.orders = L.market[m].orders,
           w.public = L.market[m].public \/ w.orders = 0,
           M = [L EXCEPT !.market[m] = w]
    PROVE  Counted(M, O)
<1>1. /\ M.market = [L.market EXCEPT ![m] = w]
      /\ M.account = L.account /\ M.position = L.position
      /\ M = [market |-> M.market, account |-> M.account,
                    position |-> M.position]
      /\ L \in RawLedgers
  BY DEF Counted, RawLedgers
<1>2. M.market \in [Market -> RawMarkets]
  BY <1>1 DEF RawLedgers
<1>3. M \in RawLedgers
  BY <1>1, <1>2 DEF RawLedgers
<1>4. ASSUME NEW n \in Market
      PROVE  /\ M.market[n].orders = L.market[n].orders
             /\ OfMarketIn(O, n) # {} => M.market[n].public = L.market[n].public
  <2>1. CASE n = m
    <3>1. M.market[n] = w
      BY <1>1, <2>1 DEF RawLedgers
    <3>2. L.market[n].orders = Cardinality(OfMarketIn(O, n))
      BY DEF Counted, CountsIn
    <3>3. OfMarketIn(O, n) # {} => L.market[n].orders # 0
      BY <3>2, EmptyCount DEF OfMarketIn
    <3> QED BY <2>1, <3>1, <3>3
  <2>2. CASE n # m
    BY <1>1, <2>2 DEF RawLedgers
  <2> QED BY <2>1, <2>2
<1> QED BY <1>1, <1>3, <1>4, Frame

\* L1UpdateMarket with the expired status.
LEMMA CloseKeeps ==
    ASSUME NEW L, NEW O, NEW M, NEW m \in Market, Counted(L, O), M = Close(L, m)
    PROVE  Counted(M, O)
<1> DEFINE w == [L.market[m] EXCEPT !.status = InSettlement]
           K == [L EXCEPT !.market[m] = w]
<1>1. L \in RawLedgers
  BY DEF Counted
<1>2. M = Release(K, m)
  BY <1>1 DEF Close, RawLedgers
<1>3. /\ w \in RawMarkets /\ w.orders = L.market[m].orders
      /\ w.public = L.market[m].public
  BY <1>1 DEF RawLedgers, RawMarkets, Statuses
<1>4. Counted(K, O)
  <2> HIDE DEF w
  <2> QED BY <1>3, MarketKeeps
<1> HIDE DEF K
<1> QED BY <1>2, <1>4, ReleaseKeeps

\* The margin mode of a position changes only while it has no order.
LEMMA ModeKeeps ==
    ASSUME NEW L, NEW O, NEW M, Counted(L, O), NEW a \in Account, NEW m \in Market, NEW mode \in Modes,
           m \in Perps, LeverageAllowed(L, a, m, mode),
           M = [L EXCEPT !.position[<<a, m>>] = [InitIfEmpty(L, a, m) EXCEPT !.mode = mode]]
    PROVE  Counted(M, O)
<1> DEFINE p == InitIfEmpty(L, a, m)
           q == [p EXCEPT !.mode = mode]
<1>0. p = InitIfEmpty(L, a, m)
  OBVIOUS
<1>1. /\ m \in Perps /\ L \in RawLedgers
      /\ LeverageAllowed(L, a, m, mode)
      /\ M = [L EXCEPT !.position[<<a, m>>] = q]
  BY DEF Counted
<1>2. /\ p \in RawPositions /\ p.public = L.market[m].public
      /\ p.orders = L.position[<<a, m>>].orders
      /\ p.tied = L.position[<<a, m>>].tied
      /\ OfPositionIn(O, a, m) # {} => p = L.position[<<a, m>>]
  BY <1>0, <1>1, InitKeeps, InitType
<1> HIDE DEF p
<1>3. /\ q \in RawPositions /\ q.orders = p.orders /\ q.tied = p.tied
      /\ q.public = p.public /\ q.mode = mode
  BY <1>2 DEF RawPositions
<1> HIDE DEF q
<1>4. /\ M.market = L.market /\ M.account = L.account
      /\ M.position = [L.position EXCEPT ![<<a, m>>] = q]
      /\ M = [market |-> M.market, account |-> M.account,
                    position |-> M.position]
  BY <1>1 DEF RawLedgers
<1>5. M \in RawLedgers
  <2>1. M.position \in [Account \X Market -> RawPositions]
    BY <1>1, <1>3, <1>4, PairType DEF RawLedgers
  <2> QED BY <1>1, <1>4, <2>1 DEF RawLedgers
<1>6. OfPositionIn(O, a, m) # {} => mode = L.position[<<a, m>>].mode
  <2> SUFFICES ASSUME OfPositionIn(O, a, m) # {}
               PROVE  mode = L.position[<<a, m>>].mode
    OBVIOUS
  <2>1. OfPositionIn(O, a, m) \in SUBSET OrderId
    BY DEF OfPositionIn, OfMarketIn
  <2>2. L.position[<<a, m>>].orders # 0
    BY <1>1, <2>1, EmptyCount DEF Counted, CountsIn
  <2>3. L.position[<<a, m>>].public = L.market[m].public
    BY <1>2
  <2> QED BY <1>1, <2>2, <2>3 DEF LeverageAllowed, IsOpen
<1>7. \A b \in Account, n \in Market :
         M.position[<<b, n>>] = IF a = b /\ m = n THEN q ELSE L.position[<<b, n>>]
  BY <1>1, <1>4, PairType DEF RawLedgers
<1>8. ASSUME NEW b \in Account, NEW n \in Perps
      PROVE  /\ M.position[<<b, n>>].orders = L.position[<<b, n>>].orders
             /\ M.position[<<b, n>>].tied = L.position[<<b, n>>].tied
             /\ OfPositionIn(O, b, n) # {} =>
                   /\ M.position[<<b, n>>].mode = L.position[<<b, n>>].mode
                   /\ M.position[<<b, n>>].public = L.position[<<b, n>>].public
  BY <1>2, <1>3, <1>6, <1>7, LedgerAssumption
<1>9. \A x \in Account, n \in Market \ Perps : M.position[<<x, n>>] = L.position[<<x, n>>]
  BY <1>1, <1>7
<1> QED BY <1>1, <1>4, <1>5, <1>8, <1>9, Frame

\* A position without orders is emptied, and no order is forgotten.
LEMMA EmptyKeeps ==
    ASSUME NEW L, NEW O, NEW M, Counted(L, O), NEW a \in Account, NEW m \in Perps,
           L.position[<<a, m>>].orders = 0,
           M = [L EXCEPT !.position[<<a, m>>] = EmptyPosition]
    PROVE  Counted(M, O)
<1>0. L \in RawLedgers /\ m \in Market
  BY LedgerAssumption DEF Counted
<1>1. /\ M.market = L.market /\ M.account = L.account
      /\ M.position = [L.position EXCEPT ![<<a, m>>] = EmptyPosition]
      /\ M = [market |-> M.market, account |-> M.account, position |-> M.position]
  BY <1>0 DEF RawLedgers
<1>2. EmptyPosition \in RawPositions
  BY LedgerAssumption DEF EmptyPosition, RawPositions, NilPublic, Modes
<1>3. M \in RawLedgers
  <2>1. M.position \in [Account \X Market -> RawPositions]
    BY <1>0, <1>1, <1>2, PairType DEF RawLedgers
  <2> QED BY <1>0, <1>1, <2>1 DEF RawLedgers
<1>4. \A b \in Account, n \in Market :
          M.position[<<b, n>>] = IF a = b /\ m = n THEN EmptyPosition ELSE L.position[<<b, n>>]
  BY <1>0, <1>1, PairType DEF RawLedgers
<1>5. OfPositionIn(O, a, m) = {} /\ L.position[<<a, m>>].tied = 0
  <2>1. OfPositionIn(O, a, m) \in SUBSET OrderId
    BY DEF OfPositionIn, OfMarketIn
  <2>2. OfPositionIn(O, a, m) = {}
    BY <1>0, <2>1, EmptyCount DEF Counted, CountsIn
  <2>3. TiedToIn(O, a, m) = {}
    BY <2>2 DEF TiedToIn
  <2>4. Cardinality(TiedToIn(O, a, m)) = 0
    BY <2>3, FS_EmptySet
  <2> QED BY <1>0, <2>2, <2>4 DEF Counted, CountsIn
<1>6. ASSUME NEW b \in Account, NEW n \in Perps
      PROVE  /\ M.position[<<b, n>>].orders = L.position[<<b, n>>].orders
             /\ M.position[<<b, n>>].tied = L.position[<<b, n>>].tied
             /\ OfPositionIn(O, b, n) # {} =>
                   /\ M.position[<<b, n>>].mode = L.position[<<b, n>>].mode
                   /\ M.position[<<b, n>>].public = L.position[<<b, n>>].public
  <2>1. EmptyPosition.orders = 0 /\ EmptyPosition.tied = 0
    BY DEF EmptyPosition
  <2> QED BY <1>0, <1>4, <1>5, <2>1, LedgerAssumption
<1>7. \A x \in Account, n \in Market \ Perps : M.position[<<x, n>>] = L.position[<<x, n>>]
  BY <1>0, <1>4
<1>8. M.account = L.account
  BY <1>1
<1>9. ASSUME NEW n \in Market
      PROVE  /\ M.market[n].orders = L.market[n].orders
             /\ OfMarketIn(O, n) # {} => M.market[n].public = L.market[n].public
  BY <1>1
<1>10. Retains(L, M, O)
  BY <1>3, <1>6, <1>7, <1>8, <1>9 DEF Retains
<1> QED BY <1>10, FrameRetains

\* A position is exited only without orders, so emptying it forgets none.
LEMMA ExitKeeps ==
    ASSUME NEW L, NEW O, NEW K, NEW M, Counted(L, O), NEW a \in Account, NEW m \in Perps,
           L.position[<<a, m>>].orders = 0,
           K = [L EXCEPT !.market[m].openInterest = @ - Abs(L.position[<<a, m>>].size)],
           M = [Release(K, m) EXCEPT !.position[<<a, m>>] = EmptyPosition]
    PROVE  Counted(M, O)
<1> DEFINE w == [L.market[m] EXCEPT !.openInterest = @ - Abs(L.position[<<a, m>>].size)]
<1>0. L \in RawLedgers /\ m \in Market
  BY LedgerAssumption DEF Counted
<1>1. /\ w \in RawMarkets /\ w.orders = L.market[m].orders
      /\ w.public = L.market[m].public
  <2>1. L.market[m] \in RawMarkets /\ L.position[<<a, m>>].size \in Int
    BY <1>0, PairType DEF RawLedgers, RawPositions
  <2>2. L.market[m].openInterest - Abs(L.position[<<a, m>>].size) \in Int
    BY <2>1 DEF RawMarkets, Abs
  <2> QED BY <2>1, <2>2 DEF RawMarkets
<1>2. K = [L EXCEPT !.market[m] = w]
  BY <1>0 DEF RawLedgers
<1> HIDE DEF w
<1>3. Counted(K, O) /\ K.position = L.position /\ K \in RawLedgers
  <2>1. Counted(K, O)
    BY <1>0, <1>1, <1>2, MarketKeeps
  <2> QED BY <1>0, <1>2, <2>1 DEF RawLedgers, Counted
<1> DEFINE N == Release(K, m)
<1>4. N = Release(K, m) /\ M = [N EXCEPT !.position[<<a, m>>] = EmptyPosition]
  OBVIOUS
<1> HIDE DEF N
<1>5. Counted(N, O)
  BY <1>0, <1>3, <1>4, ReleaseKeeps
<1>6. N.position = K.position
  BY <1>0, <1>3, <1>4 DEF Release, RawLedgers
<1>7. N.position[<<a, m>>].orders = 0
  BY <1>3, <1>6
<1>8. \A x : x = [N EXCEPT !.position[<<a, m>>] = EmptyPosition] => Counted(x, O)
  BY <1>5, <1>7, EmptyKeeps
<1> QED BY <1>4, <1>8

-----------------------------------------------------------------------------
(* The ledger alone. *)

\* The invariant says that the orders are counted.
LEMMA InvariantCounts ==
    /\ IInv => Counted(ledger, orders)
    /\ RawType' /\ Counted(ledger', orders') => IInv'
<1>1. /\ \A m : OfMarket(m) = OfMarketIn(orders, m)
      /\ \A a : OfAccount(a) = OfAccountIn(orders, a)
      /\ \A a, m : OfPosition(a, m) = OfPositionIn(orders, a, m)
      /\ \A a, m : TiedTo(a, m) = TiedToIn(orders, a, m)
      /\ \A a : NonCrossOf(a) = NonCrossIn(ledger, orders, a)
  BY DEF OfMarket, OfMarketIn, OfAccount, OfAccountIn, OfPosition, OfPositionIn,
         TiedTo, TiedToIn, NonCrossOf, NonCrossIn
<1>2. /\ \A m : OfMarket(m)' = OfMarketIn(orders', m)
      /\ \A a : OfAccount(a)' = OfAccountIn(orders', a)
      /\ \A a, m : OfPosition(a, m)' = OfPositionIn(orders', a, m)
      /\ \A a, m : TiedTo(a, m)' = TiedToIn(orders', a, m)
      /\ \A a : NonCrossOf(a)' = NonCrossIn(ledger', orders', a)
  BY DEF OfMarket, OfMarketIn, OfAccount, OfAccountIn, OfPosition, OfPositionIn,
         TiedTo, TiedToIn, NonCrossOf, NonCrossIn
<1>3. ASSUME IInv PROVE Counted(ledger, orders)
  <2>1. IsOrders(orders)
    BY <1>3 DEF IInv, RawType, IsOrders, IsOrder, Orders
  <2>2. CountsIn(ledger, orders)
    BY <1>1, <1>3 DEF IInv, CountsMatch, CountsIn
  <2> QED BY <1>3, <2>1, <2>2 DEF IInv, RawType, OrdersAreLive, LiveIn, NoSpotPosition, NoSpotIn,
                                  Counted
<1>4. ASSUME RawType', Counted(ledger', orders') PROVE IInv'
  <2>1. CountsMatch'
    BY <1>2, <1>4 DEF CountsMatch, CountsIn, Counted
  <2> QED BY <1>4, <2>1 DEF IInv, OrdersAreLive, LiveIn, NoSpotPosition, NoSpotIn, Counted
<1> QED BY <1>3, <1>4

\* Storing an order.
LEMMA StoreStep ==
    ASSUME IInv, NEW i \in OrderId, NEW o \in Orders, StoreOrder(i, o)
    PROVE  IInv'
<1>1. /\ orders \in [OrderId -> Orders \union {NoOrder}]
      /\ orders[i] = NoOrder /\ orders' = [orders EXCEPT ![i] = o]
      /\ ledger' = Increment(ledger, o) /\ nextPublic' = nextPublic
  BY DEF StoreOrder, IInv, RawType
<1>2. IsOrder(o) /\ o # NoOrder
  BY NoOrderAssumption DEF Orders, IsOrder
<1>3. Counted(ledger', orders')
  BY <1>1, <1>2, InvariantCounts, StoreKeeps
<1>4. RawType'
  BY <1>1, <1>3 DEF IInv, RawType, Counted
<1> QED BY <1>3, <1>4, InvariantCounts

\* Removing one, and releasing the market's slot if it was the last.
LEMMA RemoveStep ==
    ASSUME IInv, NEW i \in OrderId, RemoveOrder(i)
    PROVE  IInv'
<1>1. /\ orders \in [OrderId -> Orders \union {NoOrder}]
      /\ orders[i] # NoOrder /\ orders' = [orders EXCEPT ![i] = NoOrder]
      /\ ledger' = Release(Decrement(ledger, orders[i]), orders[i].market)
      /\ nextPublic' = nextPublic
  BY DEF RemoveOrder, IInv, RawType
<1>2. Counted(Decrement(ledger, orders[i]), orders')
  BY <1>1, InvariantCounts, DropKeeps
<1>3. orders[i].market \in Market
  BY <1>1 DEF Orders
<1>4. Counted(ledger', orders')
  BY <1>1, <1>2, <1>3, ReleaseKeeps
<1>5. RawType'
  BY <1>1, <1>4 DEF IInv, RawType, Counted
<1> QED BY <1>4, <1>5, InvariantCounts

\* Triggering a child.
LEMMA TriggerStep ==
    ASSUME IInv, NEW i \in OrderId, TriggerChild(i)
    PROVE  IInv'
<1> DEFINE o == orders[i]
           u == [o EXCEPT !.trigger = "mark_price"]
<1>1. /\ orders \in [OrderId -> Orders \union {NoOrder}]
      /\ o \in Orders /\ o # NoOrder
      /\ o.trigger = "parent_order" /\ o.market \in Perps
      /\ ledger' = CountTriggered(ledger, o) /\ nextPublic' = nextPublic
      /\ orders' = [orders EXCEPT ![i] = u]
  BY DEF TriggerChild, IInv, RawType
<1>2. /\ u \in Orders /\ u # NoOrder /\ u.owner = o.owner /\ u.market = o.market
      /\ u.reduceOnly = o.reduceOnly /\ u.trigger # "parent_order"
  BY <1>1, NoOrderAssumption DEF Orders, TriggerStatuses
<1>3. IsOrder(u) /\ o = orders[i]
  BY <1>2 DEF Orders, IsOrder
<1> HIDE DEF o, u
<1>4. Counted(ledger', orders')
  BY <1>1, <1>2, <1>3, InvariantCounts, TriggerKeeps
<1>5. RawType'
  BY <1>1, <1>2, <1>4 DEF IInv, RawType, Counted
<1> QED BY <1>4, <1>5, InvariantCounts

\* A step that stores and removes no order.
LEMMA LeavesStep ==
    ASSUME IInv, Counted(ledger', orders), orders' = orders, nextPublic' \in 1..MaxPublic + 1
    PROVE  IInv'
<1>1. RawType'
  BY DEF IInv, RawType, Counted
<1> QED BY <1>1, InvariantCounts

\* Both sides of a trade, the second on the ledger the first leaves.
LEMMA TradeStep ==
    ASSUME IInv, NEW a \in Account, NEW b \in Account, NEW m \in Perps,
           NEW d \in Int, NEW e \in Int,
           ledger' = Move(Move(ledger, a, m, d), b, m, e),
           orders' = orders, nextPublic' = nextPublic
    PROVE  IInv'
<1>1. Counted(Move(ledger, a, m, d), orders)
  BY InvariantCounts, MoveKeeps
<1>2. Counted(ledger', orders)
  BY <1>1, MoveKeeps
<1> QED BY <1>2, LeavesStep DEF IInv, RawType

\* The empty ledger counts no orders.
LEMMA InitInvariant == Init => IInv
<1> SUFFICES ASSUME Init PROVE IInv
  OBVIOUS
<1>1. /\ ledger = EmptyLedger /\ orders = [i \in OrderId |-> NoOrder] /\ nextPublic = 1
  BY DEF Init
<1>2. /\ EmptyMarket \in RawMarkets /\ EmptyPosition \in RawPositions
      /\ EmptyMarket.orders = 0 /\ EmptyPosition.orders = 0 /\ EmptyPosition.tied = 0
  BY LedgerAssumption
     DEF EmptyMarket, EmptyPosition, RawMarkets, RawPositions, NilPublic, Modes, Statuses
<1>3. ledger \in RawLedgers
  BY <1>1, <1>2 DEF EmptyLedger, RawLedgers
<1>4. RawType
  BY <1>1, <1>3, LedgerAssumption DEF RawType
<1>5. \A i \in OrderId : orders[i] = NoOrder
  BY <1>1
<1>6. /\ \A m \in Market : OfMarket(m) = {}
      /\ \A a \in Account : OfAccount(a) = {} /\ NonCrossOf(a) = {}
      /\ \A a \in Account, m \in Market : OfPosition(a, m) = {} /\ TiedTo(a, m) = {}
  BY <1>5 DEF OfMarket, OfAccount, NonCrossOf, OfPosition, TiedTo
<1>7. /\ \A m \in Market : ledger.market[m].orders = 0
      /\ \A a \in Account : ledger.account[a].orders = 0 /\ ledger.account[a].nonCross = 0
      /\ \A a \in Account, m \in Market : ledger.position[<<a, m>>] = EmptyPosition
  BY <1>1, <1>2, PairType DEF EmptyLedger
<1>8. CountsMatch
  BY <1>2, <1>6, <1>7, FS_EmptySet, LedgerAssumption DEF CountsMatch
<1>9. OrdersAreLive /\ NoSpotPosition
  BY <1>5, <1>7 DEF OrdersAreLive, NoSpotPosition
<1> QED BY <1>4, <1>8, <1>9 DEF IInv

\* Every transaction keeps the counts, by the lemma of its group.
LEMMA NextInvariant == IInv /\ [Next]_vars => IInv'
<1> SUFFICES ASSUME IInv, [Next]_vars PROVE IInv'
  OBVIOUS
<1>1. ASSUME NEW m \in Market, CreateMarket(m) PROVE IInv'
  <2> DEFINE w == [EmptyMarket EXCEPT !.status = Active, !.public = nextPublic]
  <2>1. /\ ledger.market[m].orders = 0
        /\ nextPublic <= MaxPublic /\ nextPublic \in 1..MaxPublic + 1
        /\ ledger' = [ledger EXCEPT !.market[m] = w]
        /\ nextPublic' = nextPublic + 1 /\ orders' = orders
    BY <1>1 DEF CreateMarket, IInv, RawType
  <2>2. w \in RawMarkets /\ w.orders = 0
    <3>1. EmptyMarket \in RawMarkets /\ EmptyMarket.orders = 0
      BY LedgerAssumption DEF EmptyMarket, RawMarkets, Modes, Statuses, NilPublic
    <3>2. nextPublic \in 0..MaxPublic
      BY <2>1, LedgerAssumption
    <3>3. Active \in Statuses
      BY DEF Statuses
    <3> QED BY <3>1, <3>2, <3>3 DEF RawMarkets
  <2>3. nextPublic' \in 1..MaxPublic + 1
    BY <2>1, LedgerAssumption
  <2> HIDE DEF w
  <2>4. Counted(ledger', orders)
    BY <2>1, <2>2, InvariantCounts, MarketKeeps
  <2> QED BY <2>1, <2>3, <2>4, LeavesStep
<1>2. ASSUME NEW m \in Market, ExpireMarket(m) PROVE IInv'
  <2>1. ledger' = Close(ledger, m) /\ orders' = orders /\ nextPublic' = nextPublic
    BY <1>2 DEF ExpireMarket
  <2>2. Counted(ledger', orders)
    BY <2>1, InvariantCounts, CloseKeeps
  <2> QED BY <2>1, <2>2, LeavesStep DEF IInv, RawType
<1>3. ASSUME NEW m \in Market, NEW b \in BOOLEAN, NEW d \in Modes,
             UpdateMarketConfig(m, b, d)
      PROVE  IInv'
  <2> DEFINE w == [ledger.market[m] EXCEPT !.isolatedOnly = b, !.default = d]
  <2>1. /\ ledger' = [ledger EXCEPT !.market[m] = w]
        /\ nextPublic' \in 1..MaxPublic + 1 /\ orders' = orders
        /\ ledger \in RawLedgers
    BY <1>3 DEF UpdateMarketConfig, IInv, RawType, RawLedgers
  <2>2. /\ w \in RawMarkets /\ w.orders = ledger.market[m].orders
        /\ w.public = ledger.market[m].public
    BY <2>1 DEF RawLedgers, RawMarkets
  <2> HIDE DEF w
  <2>3. Counted(ledger', orders)
    BY <2>1, <2>2, InvariantCounts, MarketKeeps
  <2> QED BY <2>1, <2>3, LeavesStep
<1>4. ASSUME NEW a \in Account, NEW m \in Market, NEW mode \in Modes,
             UpdateLeverage(a, m, mode)
      PROVE  IInv'
  <2>1. /\ m \in Perps /\ LeverageAllowed(ledger, a, m, mode)
        /\ ledger' = [ledger EXCEPT !.position[<<a, m>>] =
                         [InitIfEmpty(ledger, a, m) EXCEPT !.mode = mode]]
        /\ orders' = orders /\ nextPublic' = nextPublic
    BY <1>4 DEF UpdateLeverage
  <2>2. Counted(ledger', orders)
    BY <2>1, InvariantCounts, ModeKeeps
  <2> QED BY <2>1, <2>2, LeavesStep DEF IInv, RawType
<1>5. ASSUME NEW i \in OrderId, NEW o \in Orders, StoreOrder(i, o) PROVE IInv'
  BY <1>5, StoreStep
<1>6. ASSUME NEW i \in OrderId, RemoveOrder(i) PROVE IInv'
  BY <1>6, RemoveStep
<1>7. ASSUME NEW i \in OrderId, TriggerChild(i) PROVE IInv'
  BY <1>7, TriggerStep
<1>8. ASSUME NEW a \in Account, NEW i \in OrderId, NEW d \in Int, Trade(a, i, d)
      PROVE  IInv'
  <2>1. orders[i].owner \in Account /\ orders[i].market \in Perps
    BY <1>8 DEF Trade, IInv, RawType, Orders
  <2>2. /\ orders[i].owner # a /\ -d \in Int
        /\ ledger' = Move(Move(ledger, a, orders[i].market, d),
                          orders[i].owner, orders[i].market, -d)
        /\ orders' = orders /\ nextPublic' = nextPublic
    BY <1>8 DEF Trade
  <2> QED BY <2>1, <2>2, TradeStep
<1>9. ASSUME NEW a \in Account, NEW b \in Account, NEW m \in Market, NEW n \in Int,
             Deleverage(a, b, m, n)
      PROVE  IInv'
  <2> DEFINE d == IF ledger.position[<<a, m>>].size > 0 THEN -n ELSE n
  <2>1. /\ m \in Perps /\ a # b /\ d \in Int /\ -d \in Int
        /\ ledger' = Move(Move(ledger, a, m, d), b, m, -d)
        /\ orders' = orders /\ nextPublic' = nextPublic
    BY <1>9 DEF Deleverage
  <2> HIDE DEF d
  <2> QED BY <2>1, TradeStep
<1>10. ASSUME NEW a \in Account, NEW m \in Market, ExitPosition(a, m) PROVE IInv'
  <2> DEFINE K == [ledger EXCEPT !.market[m].openInterest =
                                    @ - Abs(ledger.position[<<a, m>>].size)]
  <2>1. /\ m \in Perps /\ ledger.position[<<a, m>>].orders = 0
        /\ ledger' = [Release(K, m) EXCEPT !.position[<<a, m>>] = EmptyPosition]
        /\ orders' = orders /\ nextPublic' = nextPublic
    BY <1>10 DEF ExitPosition
  <2>2. Counted(ledger', orders)
    BY <2>1, InvariantCounts, ExitKeeps
  <2> QED BY <2>1, <2>2, LeavesStep DEF IInv, RawType
<1>11. CASE UNCHANGED vars
  <2>1. ledger' = ledger /\ orders' = orders /\ nextPublic' = nextPublic
    BY <1>11 DEF vars
  <2> QED BY <2>1, InvariantCounts, LeavesStep DEF IInv, RawType
<1>12. 1..MaxSize \subseteq Int /\ -2 * MaxSize .. 2 * MaxSize \subseteq Int
  BY LedgerAssumption
<1> QED BY <1>1, <1>2, <1>3, <1>4, <1>5, <1>6, <1>7, <1>8, <1>9, <1>10, <1>11, <1>12 DEF Next

\* The counts of the market, account and position leaves are exact, for any number of
\* accounts, markets and orders: increment_order_count_in_place and
\* decrement_order_count_in_place agree with the orders tree after every transaction.
THEOREM CountsAreExact == Spec => []CountsMatch
<1>1. IInv => CountsMatch
  BY DEF IInv
<1> QED BY <1>1, InitInvariant, NextInvariant, PTL DEF Spec

\* Counts that are exact are not negative.
LEMMA CountedLedger == ASSUME NEW L, NEW O, Counted(L, O) PROVE L \in Ledgers
<1>0. /\ L \in RawLedgers /\ CountsIn(L, O) /\ NoSpotIn(L)
      /\ L = [market |-> L.market, account |-> L.account, position |-> L.position]
  BY DEF Counted, RawLedgers
<1>1. ASSUME NEW m \in Market PROVE L.market[m] \in Markets
  <2>1. L.market[m].orders \in Nat
    BY <1>0, EmptyCount DEF CountsIn, OfMarketIn
  <2> QED BY <1>0, <2>1 DEF RawLedgers, RawMarkets, Markets
<1>2. ASSUME NEW a \in Account PROVE L.account[a] \in [orders : Nat, nonCross : Nat]
  <2>1. OfAccountIn(O, a) \in SUBSET OrderId /\ NonCrossIn(L, O, a) \in SUBSET OrderId
    BY DEF OfAccountIn, NonCrossIn
  <2>2. L.account[a].orders \in Nat /\ L.account[a].nonCross \in Nat
    BY <1>0, <2>1, EmptyCount DEF CountsIn
  <2> QED BY <1>0, <2>2 DEF RawLedgers
<1>3. ASSUME NEW a \in Account, NEW m \in Market PROVE L.position[<<a, m>>] \in Positions
  <2>0. L.position[<<a, m>>] \in RawPositions
    BY <1>0, PairType DEF RawLedgers
  <2>1. CASE m \in Perps
    <3>1. OfPositionIn(O, a, m) \in SUBSET OrderId /\ TiedToIn(O, a, m) \in SUBSET OrderId
      BY DEF OfPositionIn, TiedToIn, OfMarketIn
    <3>2. L.position[<<a, m>>].orders \in Nat /\ L.position[<<a, m>>].tied \in Nat
      BY <1>0, <2>1, <3>1, EmptyCount DEF CountsIn
    <3> QED BY <2>0, <3>2 DEF RawPositions, Positions
  <2>2. CASE m \notin Perps
    <3>1. L.position[<<a, m>>] = EmptyPosition
      BY <1>0, <2>2 DEF NoSpotIn
    <3> QED BY <3>1, LedgerAssumption DEF EmptyPosition, Positions, NilPublic, Modes
  <2> QED BY <2>1, <2>2
<1>4. /\ L.market \in [Market -> Markets]
      /\ L.account \in [Account -> [orders : Nat, nonCross : Nat]]
  BY <1>0, <1>1, <1>2 DEF RawLedgers
<1>5. L.position \in [Account \X Market -> Positions]
  <2>1. L.position \in [Account \X Market -> RawPositions]
    BY <1>0 DEF RawLedgers
  <2>2. \A am \in Account \X Market : L.position[am] \in Positions
    BY <1>3
  <2> QED BY <2>1, <2>2
<1> QED BY <1>0, <1>4, <1>5 DEF Ledgers

\* No count is ever taken below zero.
THEOREM LedgerTypeCorrect == Spec => []TypeOK
<1>1. IInv => TypeOK
  BY InvariantCounts, CountedLedger DEF TypeOK, IInv, RawType
<1> QED BY <1>1, InitInvariant, NextInvariant, PTL DEF Spec

-----------------------------------------------------------------------------
(* What the exchange may trust about positions.  The open interest of a market is what *)
(* its accounts hold, a slot is reused only once nobody holds anything on it, and       *)
(* margin modes stay what the market and the account agreed on.                        *)

\* The sizes of the positions on a slot, and what the accounts hold in absolute terms.
Sizes(L, m) == [a \in Account |-> L.position[<<a, m>>].size]
Holdings(L, m) == [a \in Account |-> Abs(Sizes(L, m)[a])]
Held(L, m) == SumFunctionOnSet(Holdings(L, m), Account)
Net(L, m) == SumFunctionOnSet(Sizes(L, m), Account)

\* A slot that hosts no market is drained and has no public index; one in settlement
\* is not drained.
SlotIsSound(L, m) ==
    LET k == L.market[m]
    IN  /\ k.status = Expired <=> k.public = NilPublic
        /\ k.status = Expired => k.orders = 0 /\ k.openInterest = 0
        /\ k.status = InSettlement => k.orders # 0 \/ k.openInterest # 0

\* The open interest is what is held, and longs equal shorts while the market trades.
BooksMatch(L, m) ==
    /\ L.market[m].openInterest = Held(L, m)
    /\ L.market[m].status = Active => Net(L, m) = 0

\* An open position is one of the market the slot hosts.
IsLive(L, a, m) ==
    IsOpen(L.position[<<a, m>>]) =>
        /\ L.position[<<a, m>>].public = L.market[m].public
        /\ L.market[m].public # NilPublic

\* An open position on an isolated-only market is isolated.
ObeysMode(L, a, m) ==
    a \notin Insurance /\ L.market[m].isolatedOnly /\ IsOpen(L.position[<<a, m>>]) =>
        L.position[<<a, m>>].mode = Isolated

SlotInv(L, m) ==
    /\ SlotIsSound(L, m)
    /\ BooksMatch(L, m)
    /\ \A a \in Account : IsLive(L, a, m) /\ ObeysMode(L, a, m)

PInv == \A m \in Market : SlotInv(ledger, m)

-----------------------------------------------------------------------------
\* The sets that are counted.
LEMMA CountedSets ==
    ASSUME NEW a \in Account, NEW m \in Market
    PROVE  OfMarket(m) \in SUBSET OrderId /\ OfPosition(a, m) \in SUBSET OrderId
BY DEF OfMarket, OfPosition

-----------------------------------------------------------------------------
(* Sums of positions. *)

\* Sizes are integers, holdings naturals, and so are their sums.
LEMMA SumsType ==
    ASSUME NEW L \in RawLedgers, NEW m \in Market
    PROVE  /\ \A a \in Account : /\ L.position[<<a, m>>].size \in Int
                                 /\ Sizes(L, m)[a] = L.position[<<a, m>>].size
                                 /\ Holdings(L, m)[a] = Abs(L.position[<<a, m>>].size)
                                 /\ Holdings(L, m)[a] \in Nat
           /\ Held(L, m) \in Nat
           /\ Net(L, m) \in Int
<1>1. ASSUME NEW a \in Account
      PROVE  /\ L.position[<<a, m>>].size \in Int
             /\ Sizes(L, m)[a] = L.position[<<a, m>>].size
             /\ Holdings(L, m)[a] = Abs(L.position[<<a, m>>].size)
             /\ Holdings(L, m)[a] \in Nat
  <2>1. L.position[<<a, m>>].size \in Int
    BY PairType DEF RawLedgers, RawPositions
  <2>2. /\ Sizes(L, m)[a] = L.position[<<a, m>>].size
        /\ Holdings(L, m)[a] = Abs(L.position[<<a, m>>].size)
    BY DEF Sizes, Holdings
  <2> QED BY <2>1, <2>2 DEF Abs
<1>2. \A a \in Account : Holdings(L, m)[a] \in Nat
  BY <1>1
<1>3. Held(L, m) \in Nat
  BY <1>2, SumNat, LedgerAssumption DEF Held
<1>4. Net(L, m) \in Int
  BY <1>1, SumInt, LedgerAssumption DEF Net
<1> QED BY <1>1, <1>2, <1>3, <1>4

\* Where nothing is held, every position is of size zero.
LEMMA NothingHeld ==
    ASSUME NEW L \in RawLedgers, NEW m \in Market, Held(L, m) = 0
    PROVE  /\ \A a \in Account : L.position[<<a, m>>].size = 0
           /\ Net(L, m) = 0
<1>1. \A a \in Account : Holdings(L, m)[a] = 0
  BY SumsType, SumNatZero, LedgerAssumption DEF Held
<1>2. \A a \in Account : L.position[<<a, m>>].size = 0
  BY <1>1, SumsType DEF Abs
<1>3. \A a \in Account : Sizes(L, m)[a] = 0
  BY <1>2, SumsType
<1> QED BY <1>2, <1>3, SumZeros, LedgerAssumption DEF Net

\* One position of another size changes the sums by the difference.
LEMMA OneSizeChanges ==
    ASSUME NEW L \in RawLedgers, NEW M \in RawLedgers, NEW a \in Account, NEW m \in Market,
           \A b \in Account \ {a} : M.position[<<b, m>>].size = L.position[<<b, m>>].size
    PROVE  /\ Held(M, m) = Held(L, m) + Abs(M.position[<<a, m>>].size)
                                      - Abs(L.position[<<a, m>>].size)
           /\ Net(M, m) = Net(L, m) + M.position[<<a, m>>].size
                                    - L.position[<<a, m>>].size
<1>1. \A b \in Account \ {a} :
         /\ Sizes(M, m)[b] = Sizes(L, m)[b]
         /\ Holdings(M, m)[b] = Holdings(L, m)[b]
  BY DEF Sizes, Holdings
<1>2. /\ \A b \in Account : Sizes(M, m)[b] \in Int /\ Holdings(M, m)[b] \in Nat
      /\ \A b \in Account : Sizes(L, m)[b] \in Int /\ Holdings(L, m)[b] \in Nat
  <2>1. \A b \in Account : Sizes(M, m)[b] \in Int /\ Holdings(M, m)[b] \in Nat
    BY SumsType
  <2>2. \A b \in Account : Sizes(L, m)[b] \in Int /\ Holdings(L, m)[b] \in Nat
    BY SumsType
  <2> QED BY <2>1, <2>2
<1>3. Held(M, m) = Held(L, m) + Holdings(M, m)[a] - Holdings(L, m)[a]
  BY <1>1, <1>2, SumUpdate, LedgerAssumption DEF Held
<1>4. Net(M, m) = Net(L, m) + Sizes(M, m)[a] - Sizes(L, m)[a]
  BY <1>1, <1>2, SumUpdate, LedgerAssumption DEF Net
<1>5. /\ Sizes(M, m)[a] = M.position[<<a, m>>].size /\ Sizes(L, m)[a] = L.position[<<a, m>>].size
      /\ Holdings(M, m)[a] = Abs(M.position[<<a, m>>].size)
      /\ Holdings(L, m)[a] = Abs(L.position[<<a, m>>].size)
  BY DEF Sizes, Holdings
<1> QED BY <1>3, <1>4, <1>5

\* Positions of the same size add up to the same.
LEMMA SameSizes ==
    ASSUME NEW L \in RawLedgers, NEW M \in RawLedgers, NEW m \in Market,
           \A a \in Account : M.position[<<a, m>>].size = L.position[<<a, m>>].size
    PROVE  Held(M, m) = Held(L, m) /\ Net(M, m) = Net(L, m)
<1>1. Sizes(M, m) = Sizes(L, m)
  BY DEF Sizes
<1> QED BY <1>1 DEF Held, Net, Holdings

-----------------------------------------------------------------------------
(* What the invariant says of one slot. *)

\* Where no order is counted, no position counts one.
Uncounted == \A m \in Market : ledger.market[m].orders = 0 =>
                \A a \in Account : ledger.position[<<a, m>>].orders = 0

\* The counts of a market and of its positions are counts of the same orders.
LEMMA NoOrderNoCount == IInv => Uncounted
<1> SUFFICES ASSUME IInv, NEW m \in Market, ledger.market[m].orders = 0, NEW a \in Account
             PROVE  ledger.position[<<a, m>>].orders = 0
  BY DEF Uncounted
<1>1. CASE m \in Perps
  <2>1. OfMarket(m) = {}
    BY EmptyCount, CountedSets DEF IInv, CountsMatch
  <2>2. OfPosition(a, m) = {}
    BY <2>1 DEF OfPosition
  <2> QED BY <1>1, <2>2, FS_EmptySet DEF IInv, CountsMatch
<1>2. CASE m \notin Perps
  BY <1>2 DEF IInv, NoSpotPosition, EmptyPosition
<1> QED BY <1>1, <1>2

\* A slot nobody has an order or a holding on keeps the invariant whatever else its
\* market leaf says, as long as that leaf itself is sound.
LEMMA NobodyIn ==
    ASSUME IInv', NEW m \in Market,
           ledger'.market[m].orders = 0, ledger'.market[m].openInterest = 0,
           Held(ledger', m) = 0, SlotIsSound(ledger', m)
    PROVE  SlotInv(ledger', m)
<1>0. ledger' \in RawLedgers
  BY DEF IInv, RawType
<1>1. Uncounted'
  BY NoOrderNoCount, PTL
<1>2. \A a \in Account : ledger'.position[<<a, m>>].orders = 0
  BY <1>1 DEF Uncounted
<1>3. Net(ledger', m) = 0 /\ \A a \in Account : ledger'.position[<<a, m>>].size = 0
  BY <1>0, NothingHeld
<1>4. \A a \in Account : ~ IsOpen(ledger'.position[<<a, m>>])
  BY <1>2, <1>3 DEF IsOpen
<1> QED BY <1>3, <1>4 DEF SlotInv, BooksMatch, IsLive, ObeysMode

\* A slot that keeps its market leaf, but for flags and counts the invariant does not
\* know, and its positions keeps the invariant.
LEMMA SlotKept ==
    ASSUME NEW L \in RawLedgers, NEW M \in RawLedgers, NEW m \in Market, SlotInv(L, m),
           M.market[m] = L.market[m],
           \A a \in Account : M.position[<<a, m>>] = L.position[<<a, m>>]
    PROVE  SlotInv(M, m)
<1>1. Held(M, m) = Held(L, m) /\ Net(M, m) = Net(L, m)
  BY SameSizes
<1> QED BY <1>1 DEF SlotInv, SlotIsSound, BooksMatch, IsLive, ObeysMode

\* A position that init_if_empty starts afresh had no size and no orders; one that is
\* open is used as it is.
LEMMA FreshIsClosed ==
    ASSUME NEW L \in RawLedgers, NEW a \in Account, NEW m \in Market, IsLive(L, a, m)
    PROVE  LET p == InitIfEmpty(L, a, m)
           IN  /\ p \in RawPositions
               /\ p.size = L.position[<<a, m>>].size
               /\ p.public = L.market[m].public
               /\ IsOpen(L.position[<<a, m>>]) => p = L.position[<<a, m>>]
<1>1. InitIfEmpty(L, a, m) \in RawPositions /\ InitIfEmpty(L, a, m).public = L.market[m].public
  BY InitType
<1>2. CASE L.position[<<a, m>>].public = L.market[m].public
  BY <1>1, <1>2 DEF InitIfEmpty
<1>3. CASE L.position[<<a, m>>].public # L.market[m].public
  <2>1. L.position[<<a, m>>].size = 0 /\ ~ IsOpen(L.position[<<a, m>>])
    BY <1>3 DEF IsLive, IsOpen
  <2>2. InitIfEmpty(L, a, m).size = 0
    BY <1>3 DEF InitIfEmpty, EmptyPosition
  <2> QED BY <1>1, <2>1, <2>2
<1> QED BY <1>2, <1>3

\* Another position leaf of the same size keeps a slot's invariant if it is live and in
\* the right margin mode itself.
LEMMA OnePositionChanges ==
    ASSUME NEW L \in RawLedgers, NEW M \in RawLedgers, NEW m \in Market, SlotInv(L, m),
           NEW a \in Account,
           M.market[m].openInterest = L.market[m].openInterest,
           M.market[m].status = L.market[m].status,
           M.market[m].public = L.market[m].public,
           M.market[m].isolatedOnly = L.market[m].isolatedOnly,
           \A b \in Account \ {a} : M.position[<<b, m>>] = L.position[<<b, m>>],
           M.position[<<a, m>>].size = L.position[<<a, m>>].size,
           IsLive(M, a, m), ObeysMode(M, a, m), SlotIsSound(M, m)
    PROVE  SlotInv(M, m)
<1>1. \A b \in Account : M.position[<<b, m>>].size = L.position[<<b, m>>].size
  OBVIOUS
<1>2. BooksMatch(M, m)
  BY <1>1, SameSizes DEF SlotInv, BooksMatch
<1>3. ASSUME NEW b \in Account PROVE IsLive(M, b, m) /\ ObeysMode(M, b, m)
  BY DEF SlotInv, IsLive, ObeysMode
<1> QED BY <1>2, <1>3 DEF SlotInv

-----------------------------------------------------------------------------
(* The transactions. *)

\* A stored order opens the position it counts on, on an active market and in the
\* margin mode the market asks for.
LEMMA StorePositions ==
    ASSUME IInv, PInv, IInv', NEW i \in OrderId, NEW o \in Orders, StoreOrder(i, o)
    PROVE  PInv'
<1> DEFINE p == InitIfEmpty(ledger, o.owner, o.market)
           am == <<o.owner, o.market>>
           q == [p EXCEPT !.orders = @ + 1, !.tied = @ + One(IsTied(o))]
<1>1. /\ ledger \in RawLedgers /\ ledger' \in RawLedgers
      /\ o.owner \in Account /\ o.market \in Market /\ am \in Account \X Market
      /\ ledger' = Increment(ledger, o) /\ MayOrder(ledger, o.owner, o.market)
      /\ SlotInv(ledger, o.market)
  BY DEF IInv, RawType, StoreOrder, Orders, PInv
<1>2. /\ p \in RawPositions
      /\ p.size = ledger.position[am].size
      /\ p.public = ledger.market[o.market].public
  BY <1>1, FreshIsClosed DEF SlotInv
<1>3. /\ ledger'.market = [ledger.market EXCEPT ![o.market].orders = @ + 1]
      /\ ledger'.position = [ledger.position EXCEPT ![am] = IF o.market \in Perps THEN q ELSE @]
  BY <1>1 DEF Increment, RawLedgers
<1>4. q.size = p.size /\ q.public = p.public /\ q.mode = p.mode
  BY <1>2 DEF RawPositions
<1> HIDE DEF p, q
<1>5. ASSUME NEW m \in Market, m # o.market PROVE SlotInv(ledger', m)
  <2>1. ledger'.market[m] = ledger.market[m]
    BY <1>1, <1>3, <1>5 DEF RawLedgers
  <2>2. \A a \in Account : ledger'.position[<<a, m>>] = ledger.position[<<a, m>>]
    BY <1>1, <1>3, <1>5, PairType DEF RawLedgers
  <2> QED BY <1>1, <2>1, <2>2, SlotKept DEF PInv
<1>6. SlotInv(ledger', o.market)
  <2> DEFINE m == o.market
             k == ledger.market[m]
  <2>1. /\ k.status = Active /\ k.public # NilPublic
        /\ k.orders \in Int
    BY <1>1 DEF MayOrder, SlotInv, SlotIsSound, Active, Expired, RawLedgers, RawMarkets
  <2>2. ledger'.market[m] = [k EXCEPT !.orders = @ + 1]
    BY <1>1, <1>3 DEF RawLedgers
  <2>3. /\ ledger'.market[m].openInterest = k.openInterest
        /\ ledger'.market[m].status = k.status
        /\ ledger'.market[m].public = k.public
        /\ ledger'.market[m].isolatedOnly = k.isolatedOnly
    BY <1>1, <2>2 DEF RawLedgers, RawMarkets
  <2>4. SlotIsSound(ledger', m)
    BY <2>1, <2>3 DEF SlotIsSound, Active, Expired, InSettlement
  <2>5. \A b \in Account \ {o.owner} : ledger'.position[<<b, m>>] = ledger.position[<<b, m>>]
    BY <1>1, <1>3, PairType DEF RawLedgers
  <2>6. ledger'.position[am] = IF m \in Perps THEN q ELSE ledger.position[am]
    BY <1>1, <1>3 DEF RawLedgers
  <2>7. /\ ledger'.position[am].size = ledger.position[am].size
        /\ IsLive(ledger', o.owner, m) /\ ObeysMode(ledger', o.owner, m)
    <3>1. CASE m \in Perps
      <4>1. ledger'.position[am] = q
        BY <2>6, <3>1
      <4>2. o.owner \notin Insurance /\ k.isolatedOnly => p.mode = Isolated
        BY <1>1, <3>1 DEF MayOrder, p
      <4> QED BY <1>2, <1>4, <2>1, <2>3, <4>1, <4>2 DEF IsLive, ObeysMode
    <3>2. CASE m \notin Perps
      <4>1. ledger'.position[am] = ledger.position[am]
        BY <2>6, <3>2
      <4>2. IsLive(ledger, o.owner, m) /\ ObeysMode(ledger, o.owner, m)
        BY <1>1 DEF SlotInv
      <4> QED BY <2>3, <4>1, <4>2 DEF IsLive, ObeysMode
    <3> QED BY <3>1, <3>2
  <2> QED BY <1>1, <2>3, <2>4, <2>5, <2>7, OnePositionChanges
<1> QED BY <1>5, <1>6 DEF PInv

\* A removed order leaves its position live, or the slot with nobody in it.
LEMMA RemovePositions ==
    ASSUME IInv, PInv, IInv', NEW i \in OrderId, RemoveOrder(i)
    PROVE  PInv'
<1> DEFINE o == orders[i]
           m == o.market
           am == <<o.owner, m>>
           M == Decrement(ledger, o)
           p == ledger.position[am]
           q == [p EXCEPT !.orders = @ - 1, !.tied = @ - One(IsTied(o))]
           k == ledger.market[m]
<1>1. /\ ledger \in RawLedgers /\ ledger' \in RawLedgers
      /\ o \in Orders /\ o # NoOrder
      /\ o.owner \in Account /\ m \in Market /\ am \in Account \X Market
      /\ ledger' = Release(M, m)
      /\ SlotInv(ledger, m)
  BY DEF IInv, RawType, RemoveOrder, Orders, PInv
<1>2. M \in RawLedgers
  BY <1>1, DecrementEffect DEF IsOrder, Orders
<1>3. /\ M.market = [ledger.market EXCEPT ![m].orders = @ - 1]
      /\ M.position = [ledger.position EXCEPT ![am] = IF m \in Perps THEN q ELSE @]
  BY ZenonT(40), <1>1 DEF Decrement, RawLedgers
<1>4. /\ p \in RawPositions
      /\ q.size = p.size /\ q.public = p.public /\ q.mode = p.mode
  BY <1>1 DEF RawLedgers, RawPositions
<1>5. /\ M.market[m].openInterest = k.openInterest
      /\ M.market[m].status = k.status
      /\ M.market[m].public = k.public
      /\ M.market[m].isolatedOnly = k.isolatedOnly
  BY <1>1, <1>3 DEF RawLedgers, RawMarkets
<1>6. /\ \A b \in Account \ {o.owner} : M.position[<<b, m>>] = ledger.position[<<b, m>>]
      /\ M.position[am] = IF m \in Perps THEN q ELSE p
  BY <1>1, <1>3, PairType DEF RawLedgers
<1>7. \A n \in Market \ {m} :
         /\ M.market[n] = ledger.market[n]
         /\ \A a \in Account : M.position[<<a, n>>] = ledger.position[<<a, n>>]
  BY <1>1, <1>3, PairType DEF RawLedgers
<1>8. k.orders # 0 /\ (m \in Perps => p.orders # 0)
  <2>1. i \in OfMarket(m) /\ i \in OfPosition(o.owner, m)
    BY <1>1 DEF OfMarket, OfPosition
  <2>2. Cardinality(OfMarket(m)) # 0 /\ Cardinality(OfPosition(o.owner, m)) # 0
    BY <1>1, <2>1, EmptyCount, CountedSets
  <2> QED BY <1>1, <2>2 DEF IInv, CountsMatch
<1>9. M.position[am].size = p.size
  BY <1>4, <1>6
<1>10. /\ \A n \in Market : n # m => ledger'.market[n] = M.market[n]
       /\ ledger'.position = M.position
       /\ \/ ledger' = M /\ (k.status = InSettlement =>
                                M.market[m].orders # 0 \/ M.market[m].openInterest # 0)
          \/ /\ M.market[m].openInterest = 0
             /\ ledger'.market[m] = EmptyMarket
  <2> HIDE DEF M, o
  <2> QED BY <1>1, <1>2, <1>5 DEF Release, RawLedgers
<1> HIDE DEF o, M, q
<1>11. ASSUME NEW n \in Market, n # m PROVE SlotInv(ledger', n)
  BY <1>1, <1>7, <1>10, <1>11, SlotKept DEF PInv
<1>12. SlotInv(ledger', m)
  <2>1. CASE ledger' = M /\ (k.status = InSettlement =>
                                M.market[m].orders # 0 \/ M.market[m].openInterest # 0)
    <3>1. SlotIsSound(M, m)
      BY <1>1, <1>5, <1>8, <2>1 DEF SlotInv, SlotIsSound
    <3>2. IsLive(M, o.owner, m) /\ ObeysMode(M, o.owner, m)
      <4>1. IsLive(ledger, o.owner, m) /\ ObeysMode(ledger, o.owner, m)
        BY <1>1 DEF SlotInv
      <4>2. CASE m \in Perps
        <5>1. M.position[am] = q /\ IsOpen(p)
          BY <1>6, <1>8, <4>2 DEF IsOpen
        <5> QED BY <1>4, <1>5, <4>1, <5>1 DEF IsLive, ObeysMode
      <4>3. CASE m \notin Perps
        BY <1>5, <1>6, <4>1, <4>3 DEF IsLive, ObeysMode
      <4> QED BY <4>2, <4>3
    <3>3. SlotInv(M, m)
      BY <1>1, <1>2, <1>5, <1>6, <1>9, <3>1, <3>2, OnePositionChanges
    <3> QED BY <2>1, <3>3
  <2>2. CASE /\ M.market[m].openInterest = 0
             /\ ledger'.market[m] = EmptyMarket
    <3>1. Held(ledger', m) = Held(ledger, m)
      BY <1>1, <1>6, <1>9, <1>10, SameSizes
    <3>2. Held(ledger', m) = 0
      BY <1>1, <1>5, <2>2, <3>1 DEF SlotInv, BooksMatch
    <3>3. SlotIsSound(ledger', m)
      BY <2>2 DEF SlotIsSound, EmptyMarket, Expired, InSettlement
    <3> QED BY <1>1, <2>2, <3>2, <3>3, NobodyIn DEF EmptyMarket
  <2> QED BY <1>10, <2>1, <2>2
<1> QED BY <1>11, <1>12 DEF PInv

\* A triggered child only counts as tied to its position.
LEMMA TriggerPositions ==
    ASSUME IInv, PInv, IInv', NEW i \in OrderId, TriggerChild(i)
    PROVE  PInv'
<1> DEFINE o == orders[i]
           m == o.market
           am == <<o.owner, m>>
           q == [ledger.position[am] EXCEPT !.tied = @ + One(o.reduceOnly)]
<1>1. /\ ledger \in RawLedgers /\ ledger' \in RawLedgers
      /\ o.owner \in Account /\ m \in Market /\ am \in Account \X Market
      /\ ledger' = CountTriggered(ledger, o)
      /\ SlotInv(ledger, m)
  BY DEF IInv, RawType, TriggerChild, Orders, PInv
<1>2. /\ ledger'.market = ledger.market
      /\ ledger'.position = [ledger.position EXCEPT ![am] = q]
  BY <1>1 DEF CountTriggered, RawLedgers
<1>3. /\ q.size = ledger.position[am].size /\ q.public = ledger.position[am].public
      /\ q.mode = ledger.position[am].mode /\ q.orders = ledger.position[am].orders
  BY <1>1 DEF RawLedgers, RawPositions
<1> HIDE DEF q, o
<1>4. ASSUME NEW n \in Market, n # m PROVE SlotInv(ledger', n)
  <2>1. \A a \in Account : ledger'.position[<<a, n>>] = ledger.position[<<a, n>>]
    BY <1>1, <1>2, <1>4, PairType DEF RawLedgers
  <2>2. ledger'.market[n] = ledger.market[n] /\ SlotInv(ledger, n)
    BY <1>2 DEF PInv
  <2> QED BY <1>1, <2>1, <2>2, SlotKept
<1>5. SlotInv(ledger', m)
  <2>1. /\ \A b \in Account \ {o.owner} : ledger'.position[<<b, m>>] = ledger.position[<<b, m>>]
        /\ ledger'.position[am] = q
    BY <1>1, <1>2, PairType DEF RawLedgers
  <2>2. IsLive(ledger', o.owner, m) /\ ObeysMode(ledger', o.owner, m) /\ SlotIsSound(ledger', m)
    BY <1>1, <1>2, <1>3, <2>1 DEF SlotInv, IsLive, ObeysMode, SlotIsSound, IsOpen
  <2> QED BY ZenonT(40), <1>1, <1>2, <1>3, <2>1, <2>2, OnePositionChanges
<1> QED BY <1>4, <1>5 DEF PInv

\* A new margin mode is one the market allows, on a position that was not open.
LEMMA LeveragePositions ==
    ASSUME IInv, PInv, IInv', NEW a \in Account, NEW m \in Market, NEW mode \in Modes,
           UpdateLeverage(a, m, mode)
    PROVE  PInv'
<1> DEFINE am == <<a, m>>
           p == InitIfEmpty(ledger, a, m)
           q == [p EXCEPT !.mode = mode]
<1>1. /\ ledger \in RawLedgers /\ ledger' \in RawLedgers
      /\ am \in Account \X Market
      /\ LeverageAllowed(ledger, a, m, mode)
      /\ ledger' = [ledger EXCEPT !.position[am] = q]
      /\ SlotInv(ledger, m)
  BY DEF IInv, RawType, UpdateLeverage, PInv
<1>2. /\ p \in RawPositions
      /\ p.size = ledger.position[am].size
      /\ p.public = ledger.market[m].public
  BY <1>1, FreshIsClosed DEF SlotInv
<1> HIDE DEF p
<1>3. q.size = p.size /\ q.public = p.public /\ q.mode = mode
  BY <1>2 DEF RawPositions
<1> HIDE DEF q
<1>4. /\ ledger'.market = ledger.market
      /\ ledger'.position = [ledger.position EXCEPT ![am] = q]
  BY <1>1 DEF RawLedgers
<1>5. ASSUME NEW n \in Market, n # m PROVE SlotInv(ledger', n)
  <2>1. \A b \in Account : ledger'.position[<<b, n>>] = ledger.position[<<b, n>>]
    BY <1>1, <1>4, <1>5, PairType DEF RawLedgers
  <2>2. ledger'.market[n] = ledger.market[n] /\ SlotInv(ledger, n)
    BY <1>4 DEF PInv
  <2> QED BY <1>1, <2>1, <2>2, SlotKept
<1>6. SlotInv(ledger', m)
  <2>1. /\ \A b \in Account \ {a} : ledger'.position[<<b, m>>] = ledger.position[<<b, m>>]
        /\ ledger'.position[am] = q
    BY <1>1, <1>4, PairType DEF RawLedgers
  <2>2. SlotIsSound(ledger', m) /\ ledger.market[m].public # NilPublic
    BY <1>1, <1>4 DEF SlotInv, SlotIsSound, LeverageAllowed, Active, Expired
  <2>3. a \notin Insurance /\ ledger.market[m].isolatedOnly => mode = Isolated
    BY <1>1 DEF LeverageAllowed
  <2>4. IsLive(ledger', a, m) /\ ObeysMode(ledger', a, m)
    BY <1>2, <1>3, <1>4, <2>1, <2>2, <2>3 DEF IsLive, ObeysMode
  <2> QED BY <1>1, <1>2, <1>3, <1>4, <2>1, <2>2, <2>4, OnePositionChanges
<1> QED BY <1>5, <1>6 DEF PInv

\* Another leaf for one market: the slot is as it was but for flags nobody depends on,
\* or nobody is in it.
LEMMA MarketPositions ==
    ASSUME IInv, PInv, IInv', NEW m \in Market, NEW w \in RawMarkets,
           ledger' = [ledger EXCEPT !.market[m] = w],
           w.openInterest = ledger.market[m].openInterest,
           SlotIsSound(ledger', m),
           \/ w.orders = 0 /\ w.openInterest = 0
           \/ /\ w.status = Active => ledger.market[m].status = Active
              /\ w.public = ledger.market[m].public
              /\ w.isolatedOnly => ledger.market[m].isolatedOnly
    PROVE  PInv'
<1>1. /\ ledger \in RawLedgers /\ ledger' \in RawLedgers
      /\ SlotInv(ledger, m)
  BY DEF IInv, RawType, PInv
<1>2. /\ ledger'.market = [ledger.market EXCEPT ![m] = w]
      /\ ledger'.position = ledger.position
  BY <1>1 DEF RawLedgers
<1>3. /\ ledger'.market[m] = w
      /\ \A n \in Market \ {m} : ledger'.market[n] = ledger.market[n]
  BY <1>1, <1>2 DEF RawLedgers
<1>4. ASSUME NEW n \in Market, n # m PROVE SlotInv(ledger', n)
  BY ZenonT(40), <1>1, <1>2, <1>3, <1>4, SlotKept DEF PInv
<1>5. Held(ledger', m) = Held(ledger, m) /\ Net(ledger', m) = Net(ledger, m)
  BY <1>1, <1>2, SameSizes
<1>6. SlotInv(ledger', m)
  <2>1. CASE w.orders = 0 /\ w.openInterest = 0
    <3>1. Held(ledger', m) = 0
      BY <1>1, <1>5, <2>1 DEF SlotInv, BooksMatch
    <3> QED BY <1>3, <2>1, <3>1, NobodyIn
  <2>2. CASE /\ w.status = Active => ledger.market[m].status = Active
             /\ w.public = ledger.market[m].public
             /\ w.isolatedOnly => ledger.market[m].isolatedOnly
    BY <1>1, <1>2, <1>3, <1>5, <2>2 DEF SlotInv, BooksMatch, IsLive, ObeysMode
  <2> QED BY <2>1, <2>2
<1> QED BY <1>4, <1>6 DEF PInv

\* What one side of a trade does to the sums and to the position it moves.
LEMMA MovePositions ==
    ASSUME NEW L \in RawLedgers, NEW a \in Account, NEW m \in Market, NEW delta \in Int,
           IsLive(L, a, m), L.market[m].public # NilPublic,
           a \notin Insurance /\ L.market[m].isolatedOnly =>
               InitIfEmpty(L, a, m).mode = Isolated,
           NEW M, M = Move(L, a, m, delta)
    PROVE  /\ M \in RawLedgers
           /\ \A n \in Market \ {m} : M.market[n] = L.market[n]
           /\ \A b \in Account, n \in Market :
                 b # a \/ n # m => M.position[<<b, n>>] = L.position[<<b, n>>]
           /\ M.market[m].status = L.market[m].status
           /\ M.market[m].public = L.market[m].public
           /\ M.market[m].isolatedOnly = L.market[m].isolatedOnly
           /\ M.market[m].openInterest - L.market[m].openInterest = Held(M, m) - Held(L, m)
           /\ Net(M, m) = Net(L, m) + delta
           /\ IsLive(M, a, m) /\ ObeysMode(M, a, m)
<1> DEFINE am == <<a, m>>
           p == InitIfEmpty(L, a, m)
           q == [p EXCEPT !.size = @ + delta]
           oi == L.market[m].openInterest + Abs(p.size + delta) - Abs(p.size)
<1>1. /\ p \in RawPositions
      /\ p.size = L.position[am].size
      /\ p.public = L.market[m].public
  BY FreshIsClosed
<1>2. /\ M.market = [L.market EXCEPT ![m].openInterest = oi]
      /\ M.position = [L.position EXCEPT ![am] = q]
      /\ M \in RawLedgers
  <2>1. M \in RawLedgers
    BY MoveEffect DEF Moved
  <2> QED BY <2>1 DEF Move, RawLedgers
<1>3. a \notin Insurance /\ L.market[m].isolatedOnly => p.mode = Isolated
  OBVIOUS
<1> HIDE DEF p
<1>4. q.size = p.size + delta /\ q.public = p.public /\ q.mode = p.mode
  BY <1>1 DEF RawPositions
<1>5. am \in Account \X Market
  OBVIOUS
<1>6. /\ L.market[m].openInterest \in Int /\ p.size \in Int
      /\ Abs(p.size) \in Int /\ Abs(p.size + delta) \in Int
  <2>1. L.market[m].openInterest \in Int /\ p.size \in Int
    BY <1>1 DEF RawLedgers, RawMarkets, RawPositions
  <2> QED BY <2>1 DEF Abs
<1> HIDE DEF q
<1>7. /\ M.position[am] = q
      /\ \A b \in Account, n \in Market :
            b # a \/ n # m => M.position[<<b, n>>] = L.position[<<b, n>>]
  BY <1>2, <1>5, PairType DEF RawLedgers
<1>8. /\ \A n \in Market \ {m} : M.market[n] = L.market[n]
      /\ M.market[m].status = L.market[m].status
      /\ M.market[m].public = L.market[m].public
      /\ M.market[m].isolatedOnly = L.market[m].isolatedOnly
      /\ M.market[m].openInterest = oi
  <2> HIDE DEF oi
  <2> QED BY <1>2 DEF RawLedgers, RawMarkets
<1>9. /\ Held(M, m) = Held(L, m) + Abs(p.size + delta) - Abs(p.size)
      /\ Net(M, m) = Net(L, m) + (p.size + delta) - p.size
  <2>1. \A b \in Account \ {a} : M.position[<<b, m>>].size = L.position[<<b, m>>].size
    BY <1>7
  <2>2. M.position[<<a, m>>].size = p.size + delta /\ L.position[<<a, m>>].size = p.size
    BY <1>1, <1>4, <1>7
  <2>3. /\ Held(M, m) = Held(L, m) + Abs(M.position[<<a, m>>].size)
                                      - Abs(L.position[<<a, m>>].size)
        /\ Net(M, m) = Net(L, m) + M.position[<<a, m>>].size
                                    - L.position[<<a, m>>].size
    <3>1. L \in RawLedgers /\ M \in RawLedgers
      BY <1>2
    <3> QED BY <2>1, <3>1, OneSizeChanges
  <2> QED BY <2>2, <2>3
<1>10. Held(L, m) \in Int /\ Net(L, m) \in Int
  BY SumsType
<1>11. /\ M.market[m].openInterest - L.market[m].openInterest = Held(M, m) - Held(L, m)
       /\ Net(M, m) = Net(L, m) + delta
  BY <1>6, <1>8, <1>9, <1>10
<1>12. IsLive(M, a, m) /\ ObeysMode(M, a, m)
  BY <1>1, <1>3, <1>4, <1>7, <1>8 DEF IsLive, ObeysMode
<1> QED BY <1>2, <1>7, <1>8, <1>11, <1>12

\* Both sides of a trade on an active market: the open interest follows the holdings,
\* and what one side gains the other loses.
LEMMA TradePositions ==
    ASSUME IInv, PInv, IInv', NEW a \in Account, NEW b \in Account, a # b,
           NEW m \in Market, NEW d \in Int,
           ledger' = Move(Move(ledger, a, m, d), b, m, -d),
           ledger.market[m].status = Active,
           \A x \in {a, b} : x \notin Insurance /\ ledger.market[m].isolatedOnly =>
                                InitIfEmpty(ledger, x, m).mode = Isolated
    PROVE  PInv'
<1> DEFINE M == Move(ledger, a, m, d)
<1>0. M = Move(ledger, a, m, d) /\ ledger' = Move(M, b, m, -d) /\ -d \in Int
  OBVIOUS
<1> HIDE DEF M
<1>1. ledger \in RawLedgers /\ ledger' \in RawLedgers /\ SlotInv(ledger, m)
  BY DEF IInv, RawType, PInv
<1>2. ledger.market[m].public # NilPublic /\ \A x \in Account : IsLive(ledger, x, m)
  BY <1>1 DEF SlotInv, SlotIsSound, Active, Expired
<1>3. /\ M \in RawLedgers
      /\ \A n \in Market \ {m} : M.market[n] = ledger.market[n]
      /\ \A x \in Account, n \in Market :
            x # a \/ n # m => M.position[<<x, n>>] = ledger.position[<<x, n>>]
      /\ M.market[m].status = ledger.market[m].status
      /\ M.market[m].public = ledger.market[m].public
      /\ M.market[m].isolatedOnly = ledger.market[m].isolatedOnly
      /\ M.market[m].openInterest - ledger.market[m].openInterest
            = Held(M, m) - Held(ledger, m)
      /\ Net(M, m) = Net(ledger, m) + d
      /\ IsLive(M, a, m) /\ ObeysMode(M, a, m)
  BY <1>0, <1>1, <1>2, MovePositions
<1>4. IsLive(M, b, m)
  BY <1>2, <1>3 DEF IsLive
<1>5. InitIfEmpty(M, b, m) = InitIfEmpty(ledger, b, m)
  <2>1. M.position[<<b, m>>] = ledger.position[<<b, m>>]
    BY <1>3
  <2>2. M.market[m].default = ledger.market[m].default
    BY <1>0, <1>1, MoveEffect DEF Moved
  <2> QED BY <1>3, <2>1, <2>2 DEF InitIfEmpty
<1>6. /\ \A n \in Market \ {m} : ledger'.market[n] = M.market[n]
      /\ \A x \in Account, n \in Market :
            x # b \/ n # m => ledger'.position[<<x, n>>] = M.position[<<x, n>>]
      /\ ledger'.market[m].status = M.market[m].status
      /\ ledger'.market[m].public = M.market[m].public
      /\ ledger'.market[m].isolatedOnly = M.market[m].isolatedOnly
      /\ ledger'.market[m].openInterest - M.market[m].openInterest
            = Held(ledger', m) - Held(M, m)
      /\ Net(ledger', m) = Net(M, m) + (-d)
      /\ IsLive(ledger', b, m) /\ ObeysMode(ledger', b, m)
  BY <1>0, <1>1, <1>2, <1>3, <1>4, <1>5, MovePositions
<1>7. ASSUME NEW n \in Market, n # m PROVE SlotInv(ledger', n)
  <2>1. \A x \in Account : ledger'.position[<<x, n>>] = ledger.position[<<x, n>>]
    BY <1>3, <1>6, <1>7
  <2>2. ledger'.market[n] = ledger.market[n] /\ SlotInv(ledger, n)
    BY <1>3, <1>6, <1>7 DEF PInv
  <2> QED BY <1>1, <2>1, <2>2, SlotKept
<1>8. SlotInv(ledger', m)
  <2>1. SlotIsSound(ledger', m)
    BY <1>2, <1>3, <1>6 DEF SlotIsSound, Active, Expired, InSettlement
  <2>2. BooksMatch(ledger', m)
    <3>1. /\ Held(ledger', m) \in Int /\ Held(M, m) \in Int /\ Held(ledger, m) \in Int
          /\ Net(ledger, m) \in Int
      BY <1>1, <1>3, SumsType
    <3>2. /\ ledger.market[m].openInterest \in Int /\ M.market[m].openInterest \in Int
          /\ ledger'.market[m].openInterest \in Int
      BY <1>1, <1>3 DEF RawLedgers, RawMarkets
    <3>3. ledger.market[m].openInterest = Held(ledger, m) /\ Net(ledger, m) = 0
      BY <1>1 DEF SlotInv, BooksMatch
    <3>4. ledger'.market[m].openInterest = Held(ledger', m) /\ Net(ledger', m) = 0
      BY <1>3, <1>6, <3>1, <3>2, <3>3
    <3> QED BY <3>4 DEF BooksMatch
  <2>3. ASSUME NEW x \in Account PROVE IsLive(ledger', x, m) /\ ObeysMode(ledger', x, m)
    <3>1. CASE x = b
      BY <1>6, <3>1
    <3>2. CASE x = a
      <4>1. ledger'.position[<<a, m>>] = M.position[<<a, m>>]
        BY <1>6
      <4> QED BY <1>3, <1>6, <3>2, <4>1 DEF IsLive, ObeysMode
    <3>3. CASE x # a /\ x # b
      <4>1. ledger'.position[<<x, m>>] = ledger.position[<<x, m>>]
        BY <1>3, <1>6, <3>3
      <4>2. IsLive(ledger, x, m) /\ ObeysMode(ledger, x, m)
        BY <1>1 DEF SlotInv
      <4> QED BY <1>3, <1>6, <4>1, <4>2 DEF IsLive, ObeysMode
    <3> QED BY <3>1, <3>2, <3>3
  <2> QED BY <2>1, <2>2, <2>3 DEF SlotInv
<1> QED BY <1>7, <1>8 DEF PInv

\* An exited position leaves the open interest and the holdings together.
LEMMA ExitPositions ==
    ASSUME IInv, PInv, IInv', NEW a \in Account, NEW m \in Market, ExitPosition(a, m)
    PROVE  PInv'
<1> DEFINE am == <<a, m>>
           k == ledger.market[m]
           size == ledger.position[am].size
           oi == k.openInterest - Abs(size)
           K == [ledger EXCEPT !.market[m].openInterest = oi]
           M == Release(K, m)
<1>0. ledger \in RawLedgers /\ ledger' \in RawLedgers /\ ledger.market[m] \in RawMarkets
  BY DEF IInv, RawType, RawLedgers
<1>1. /\ ledger \in RawLedgers /\ ledger' \in RawLedgers
      /\ am \in Account \X Market
      /\ k.status = InSettlement
      /\ ledger' = [M EXCEPT !.position[am] = EmptyPosition]
      /\ SlotInv(ledger, m)
  BY DEF IInv, RawType, ExitPosition, PInv
<1>2. size \in Int /\ Abs(size) \in Int /\ k.openInterest \in Int /\ oi \in Int
  <2>1. size \in Int /\ k.openInterest \in Int
    BY <1>1 DEF RawLedgers, RawPositions, RawMarkets
  <2> QED BY <2>1 DEF Abs
<1> HIDE DEF size, oi
<1>3. /\ K.market = [ledger.market EXCEPT ![m].openInterest = oi]
      /\ K.position = ledger.position /\ K.account = ledger.account
      /\ K \in RawLedgers
  <2> HIDE DEF M, k
  <2>0. ledger = [market |-> ledger.market, account |-> ledger.account,
                  position |-> ledger.position]
    BY <1>0 DEF RawLedgers
  <2>1. /\ K.market = [ledger.market EXCEPT ![m].openInterest = oi]
        /\ K.position = ledger.position /\ K.account = ledger.account
        /\ K = [market |-> K.market, account |-> K.account, position |-> K.position]
    BY <2>0
  <2>2. [k EXCEPT !.openInterest = oi] \in RawMarkets
    BY <1>0, <1>2 DEF RawMarkets, k
  <2>3. K.market \in [Market -> RawMarkets]
    BY <1>1, <2>1, <2>2 DEF RawLedgers, k
  <2> QED BY <1>1, <2>1, <2>3 DEF RawLedgers
<1>4. /\ K.market[m].openInterest = oi
      /\ K.market[m].status = k.status /\ K.market[m].public = k.public
      /\ K.market[m].isolatedOnly = k.isolatedOnly
      /\ \A n \in Market \ {m} : K.market[n] = ledger.market[n]
  BY <1>1, <1>2, <1>3 DEF RawLedgers, RawMarkets
<1>5. /\ M = Release(K, m) /\ M.position = K.position
      /\ M \in RawLedgers
  BY ZenonT(40), <1>3, ReleaseEffect
<1> HIDE DEF K, k
<1>6. /\ \A n \in Market : n # m => M.market[n] = K.market[n]
      /\ \/ M.market[m] = K.market[m]
            /\ (K.market[m].status = InSettlement =>
                   K.market[m].orders # 0 \/ K.market[m].openInterest # 0)
         \/ K.market[m].openInterest = 0 /\ M.market[m] = EmptyMarket
  <2> HIDE DEF M
  <2> QED BY <1>3, <1>5 DEF Release, RawLedgers
<1> HIDE DEF M
<1>7. /\ ledger'.market = M.market
      /\ ledger'.position = [ledger.position EXCEPT ![am] = EmptyPosition]
  BY <1>1, <1>3, <1>5 DEF RawLedgers
<1>8. ASSUME NEW n \in Market, n # m PROVE SlotInv(ledger', n)
  <2>1. \A x \in Account : ledger'.position[<<x, n>>] = ledger.position[<<x, n>>]
    BY <1>1, <1>7, <1>8, PairType DEF RawLedgers
  <2>2. ledger'.market[n] = ledger.market[n] /\ SlotInv(ledger, n)
    BY <1>4, <1>6, <1>7, <1>8 DEF PInv
  <2> QED BY ZenonT(40), <1>1, <2>1, <2>2, SlotKept
<1>9. SlotInv(ledger', m)
  <2>1. /\ ledger'.position[am] = EmptyPosition
        /\ \A b \in Account \ {a} : ledger'.position[<<b, m>>] = ledger.position[<<b, m>>]
    BY <1>1, <1>7, PairType DEF RawLedgers
  <2>2. EmptyPosition.size = 0 /\ ~ IsOpen(EmptyPosition) /\ Abs(0) = 0
    BY DEF EmptyPosition, IsOpen, Abs
  <2>3. Held(ledger', m) = Held(ledger, m) + 0 - Abs(size)
    <3>1. \A b \in Account \ {a} :
             ledger'.position[<<b, m>>].size = ledger.position[<<b, m>>].size
      BY <2>1
    <3>2. ledger'.position[<<a, m>>].size = 0 /\ ledger.position[<<a, m>>].size = size
      BY <2>1, <2>2 DEF size
    <3>3. Held(ledger', m) = Held(ledger, m) + Abs(ledger'.position[<<a, m>>].size)
                                             - Abs(ledger.position[<<a, m>>].size)
      BY <1>0, <3>1, OneSizeChanges
    <3> QED BY <2>2, <3>2, <3>3
  <2>4. K.market[m].openInterest = Held(ledger', m)
    <3>1. k.openInterest = Held(ledger, m)
      BY <1>1 DEF SlotInv, BooksMatch, k
    <3>2. Held(ledger, m) \in Int
      BY <1>1, SumsType
    <3> QED BY <1>2, <1>4, <2>3, <3>1, <3>2 DEF oi
  <2>5. CASE /\ M.market[m] = K.market[m]
             /\ K.market[m].status = InSettlement =>
                   K.market[m].orders # 0 \/ K.market[m].openInterest # 0
    <3>1. SlotIsSound(ledger', m)
      BY <1>1, <1>4, <1>7, <2>5 DEF SlotInv, SlotIsSound, k, InSettlement, Expired
    <3>2. BooksMatch(ledger', m)
      BY <1>1, <1>4, <1>7, <2>4, <2>5 DEF BooksMatch, InSettlement, Active
    <3>3. ASSUME NEW b \in Account PROVE IsLive(ledger', b, m) /\ ObeysMode(ledger', b, m)
      <4>1. CASE b = a
        BY <2>1, <2>2, <4>1 DEF IsLive, ObeysMode
      <4>2. CASE b # a
        <5>1. ledger'.position[<<b, m>>] = ledger.position[<<b, m>>]
          BY <2>1, <4>2
        <5>2. IsLive(ledger, b, m) /\ ObeysMode(ledger, b, m)
          BY <1>1 DEF SlotInv
        <5> QED BY <1>4, <1>7, <2>5, <5>1, <5>2 DEF IsLive, ObeysMode, k
      <4> QED BY <4>1, <4>2
    <3> QED BY <3>1, <3>2, <3>3 DEF SlotInv
  <2>6. CASE K.market[m].openInterest = 0 /\ M.market[m] = EmptyMarket
    <3>1. SlotIsSound(ledger', m)
      BY <1>7, <2>6 DEF SlotIsSound, EmptyMarket, Expired, InSettlement
    <3>2. ledger'.market[m].orders = 0 /\ ledger'.market[m].openInterest = 0
      BY <1>7, <2>6 DEF EmptyMarket
    <3>3. Held(ledger', m) = 0
      BY <2>4, <2>6
    <3> QED BY <3>1, <3>2, <3>3, NobodyIn
  <2> QED BY <1>6, <2>5, <2>6
<1> QED BY <1>8, <1>9 DEF PInv

-----------------------------------------------------------------------------
(* The invariant. *)

\* Nobody holds anything in the empty ledger.
LEMMA InitPositions == Init => PInv
<1> SUFFICES ASSUME Init, NEW m \in Market PROVE SlotInv(ledger, m)
  BY DEF PInv
<1>1. /\ ledger.market[m] = EmptyMarket
      /\ \A a \in Account : ledger.position[<<a, m>>] = EmptyPosition
  BY PairType DEF Init, EmptyLedger
<1>2. ledger \in RawLedgers
  BY InitInvariant DEF IInv, RawType
<1>3. EmptyPosition.size = 0 /\ ~ IsOpen(EmptyPosition) /\ Abs(0) = 0
  BY DEF EmptyPosition, IsOpen, Abs
<1>4. \A a \in Account : Sizes(ledger, m)[a] = 0 /\ Holdings(ledger, m)[a] = 0
  BY <1>1, <1>3 DEF Sizes, Holdings
<1>5. Held(ledger, m) = 0 /\ Net(ledger, m) = 0
  BY <1>4, SumZeros, LedgerAssumption DEF Held, Net
<1> QED BY <1>1, <1>3, <1>5
        DEF SlotInv, SlotIsSound, BooksMatch, IsLive, ObeysMode, EmptyMarket,
            Expired, Active, InSettlement

\* L2UpdateMarketConfig writes two fields of one market and nothing else.
LEMMA ConfigStep ==
    ASSUME IInv, NEW m \in Market, NEW b \in BOOLEAN, NEW d \in Modes,
           UpdateMarketConfig(m, b, d)
    PROVE  \E w \in RawMarkets :
              /\ ledger' = [ledger EXCEPT !.market[m] = w]
              /\ w.orders = ledger.market[m].orders
              /\ w.public = ledger.market[m].public
              /\ w.openInterest = ledger.market[m].openInterest
              /\ w.status = ledger.market[m].status
              /\ w.isolatedOnly = b
<1> DEFINE w == [ledger.market[m] EXCEPT !.isolatedOnly = b, !.default = d]
<1>1. ledger' = [ledger EXCEPT !.market[m] = w]
  BY DEF UpdateMarketConfig, IInv, RawType, RawLedgers
<1>2. /\ w \in RawMarkets /\ w.orders = ledger.market[m].orders
      /\ w.public = ledger.market[m].public
      /\ w.openInterest = ledger.market[m].openInterest
      /\ w.status = ledger.market[m].status
      /\ w.isolatedOnly = b
  BY DEF IInv, RawType, RawLedgers, RawMarkets
<1> HIDE DEF w
<1> QED BY <1>1, <1>2

\* Creating, closing and configuring a market.
LEMMA MarketActions ==
    ASSUME IInv, PInv, IInv', NEW m \in Market,
           \/ CreateMarket(m) \/ ExpireMarket(m)
           \/ \E b \in BOOLEAN, d \in Modes : UpdateMarketConfig(m, b, d)
    PROVE  PInv'
<1>0. /\ ledger \in RawLedgers /\ ledger.market[m] \in RawMarkets
      /\ ledger = [market |-> ledger.market, account |-> ledger.account,
                   position |-> ledger.position]
      /\ SlotIsSound(ledger, m)
      /\ EmptyMarket \in RawMarkets
  BY LedgerAssumption DEF IInv, RawType, RawLedgers, PInv, SlotInv,
     EmptyMarket, RawMarkets, NilPublic, Modes, Statuses
<1>1. CASE CreateMarket(m)
  <2> DEFINE w == [EmptyMarket EXCEPT !.status = Active, !.public = nextPublic]
  <2>1. /\ ledger.market[m].openInterest = 0
        /\ nextPublic \in 1..MaxPublic
        /\ ledger' = [ledger EXCEPT !.market[m] = w]
    BY <1>1, LedgerAssumption DEF CreateMarket, IInv, RawType
  <2>2. w \in RawMarkets /\ w.orders = 0 /\ w.openInterest = 0
        /\ w.status = Active /\ w.public = nextPublic
    <3>1. nextPublic \in 0..MaxPublic /\ Active \in Statuses
      BY <2>1, LedgerAssumption DEF Statuses
    <3> QED BY <1>0, <3>1 DEF EmptyMarket, RawMarkets
  <2> HIDE DEF w
  <2>3. ledger'.market[m] = w
    BY <1>0, <2>1 DEF RawLedgers
  <2>4. SlotIsSound(ledger', m)
    BY <2>1, <2>2, <2>3 DEF SlotIsSound, NilPublic, Active, Expired, InSettlement
  <2> QED BY <2>1, <2>2, <2>4, MarketPositions
<1>2. CASE ExpireMarket(m)
  <2> DEFINE w == [ledger.market[m] EXCEPT !.status = InSettlement]
             K == [ledger EXCEPT !.market[m] = w]
  <2>1. ledger' = Release(K, m) /\ ledger.market[m].status = Active
    BY <1>0, <1>2 DEF ExpireMarket, Close
  <2>2. /\ w \in RawMarkets /\ w.orders = ledger.market[m].orders
        /\ w.public = ledger.market[m].public
        /\ w.openInterest = ledger.market[m].openInterest
        /\ w.isolatedOnly = ledger.market[m].isolatedOnly
        /\ w.status = InSettlement
    BY <1>0 DEF RawMarkets, Statuses
  <2> HIDE DEF w
  <2>3. K.market[m] = w /\ [K EXCEPT !.market[m] = EmptyMarket]
                              = [ledger EXCEPT !.market[m] = EmptyMarket]
    BY <1>0 DEF RawLedgers
  <2>4. CASE ledger' = K /\ (w.orders # 0 \/ w.openInterest # 0)
    <3>1. SlotIsSound(ledger', m)
      BY <1>0, <2>1, <2>2, <2>3, <2>4 DEF SlotIsSound, Active, Expired, InSettlement
    <3>2. w.status # Active
      BY <2>2 DEF Active, InSettlement
    <3> QED BY <2>2, <2>4, <3>1, <3>2, MarketPositions
  <2>5. CASE w.openInterest = 0 /\ ledger' = [ledger EXCEPT !.market[m] = EmptyMarket]
    <3>1. ledger'.market[m] = EmptyMarket
      BY <1>0, <2>5 DEF RawLedgers
    <3>2. EmptyMarket.orders = 0 /\ EmptyMarket.openInterest = 0
      BY DEF EmptyMarket
    <3>3. SlotIsSound(ledger', m)
      BY <3>1 DEF SlotIsSound, EmptyMarket, Expired, InSettlement
    <3> QED BY <1>0, <2>2, <2>5, <3>2, <3>3, MarketPositions
  <2>6. \/ ledger' = K /\ (w.orders # 0 \/ w.openInterest # 0)
        \/ w.openInterest = 0 /\ ledger' = [ledger EXCEPT !.market[m] = EmptyMarket]
    <3> HIDE DEF K
    <3> QED BY <2>1, <2>2, <2>3 DEF Release
  <2> QED BY <2>4, <2>5, <2>6
<1>3. ASSUME NEW b \in BOOLEAN, NEW d \in Modes, UpdateMarketConfig(m, b, d)
      PROVE  PInv'
  <2>1. ConfigAllowed(ledger.market[m], b, d)
    BY <1>3 DEF UpdateMarketConfig
  <2>2. PICK w \in RawMarkets :
           /\ ledger' = [ledger EXCEPT !.market[m] = w]
           /\ w.orders = ledger.market[m].orders
           /\ w.public = ledger.market[m].public
           /\ w.openInterest = ledger.market[m].openInterest
           /\ w.status = ledger.market[m].status
           /\ w.isolatedOnly = b
    BY <1>3, ConfigStep, Zenon
  <2>3. ledger'.market[m] = w
    BY <1>0, <2>2 DEF RawLedgers
  <2>4. SlotIsSound(ledger', m)
    BY <1>0, <2>2, <2>3 DEF SlotIsSound
  <2>5. \/ w.orders = 0 /\ w.openInterest = 0
        \/ w.isolatedOnly => ledger.market[m].isolatedOnly
    BY <2>1, <2>2 DEF ConfigAllowed
  <2> QED BY <2>1, <2>2, <2>4, <2>5, MarketPositions
<1> QED BY <1>1, <1>2, <1>3

\* A taker trades in the margin mode its order, or the orders it already has, were
\* stored in; the maker in the one of its resting order.
LEMMA TradeModes ==
    ASSUME IInv, PInv, NEW a \in Account, NEW i \in OrderId, NEW d \in Int, Trade(a, i, d)
    PROVE  \A x \in {a, orders[i].owner} :
              x \notin Insurance /\ ledger.market[orders[i].market].isolatedOnly =>
                  InitIfEmpty(ledger, x, orders[i].market).mode = Isolated
<1> DEFINE m == orders[i].market
           b == orders[i].owner
<1>1. /\ ledger \in RawLedgers
      /\ orders[i] \in Orders /\ orders[i] # NoOrder /\ b \in Account /\ m \in Market
      /\ m \in Perps /\ ledger.market[m].status = Active
      /\ MayOrder(ledger, a, m) \/ ledger.position[<<a, m>>].orders # 0
  BY DEF IInv, RawType, Trade, Orders
<1>2. SlotInv(ledger, m)
  BY <1>1 DEF PInv
<1>3. ASSUME NEW x \in Account, ledger.position[<<x, m>>].orders # 0,
             x \notin Insurance, ledger.market[m].isolatedOnly
      PROVE  InitIfEmpty(ledger, x, m).mode = Isolated
  <2>1. IsLive(ledger, x, m) /\ ObeysMode(ledger, x, m) /\ IsOpen(ledger.position[<<x, m>>])
    BY <1>2, <1>3 DEF SlotInv, IsOpen
  <2>2. InitIfEmpty(ledger, x, m) = ledger.position[<<x, m>>]
    BY <1>1, <2>1, FreshIsClosed
  <2> QED BY <1>3, <2>1, <2>2 DEF ObeysMode
<1>4. ledger.position[<<b, m>>].orders # 0
  <2>1. i \in OfPosition(b, m)
    BY <1>1 DEF OfPosition, OfMarket
  <2> QED BY <1>1, <2>1, EmptyCount, CountedSets DEF IInv, CountsMatch
<1>5. a \notin Insurance /\ ledger.market[m].isolatedOnly /\ MayOrder(ledger, a, m) =>
         InitIfEmpty(ledger, a, m).mode = Isolated
  BY <1>1 DEF MayOrder
<1> QED BY <1>1, <1>3, <1>4, <1>5

\* Both accounts of a deleveraging, but for the insurance fund, have an open position.
LEMMA DeleverageModes ==
    ASSUME IInv, PInv, NEW a \in Account, NEW b \in Account, NEW m \in Market,
           NEW n \in 1..MaxSize, Deleverage(a, b, m, n)
    PROVE  \A x \in {a, b} :
              x \notin Insurance /\ ledger.market[m].isolatedOnly =>
                  InitIfEmpty(ledger, x, m).mode = Isolated
<1>1. /\ ledger \in RawLedgers /\ SlotInv(ledger, m)
      /\ ledger.position[<<a, m>>].size \in Int
      /\ ledger.position[<<b, m>>].size \in Int
      /\ n \in Int /\ n >= 1
  BY PairType, LedgerAssumption DEF IInv, RawType, PInv, RawLedgers, RawPositions
<1>2. ledger.position[<<a, m>>].size # 0
  BY <1>1 DEF Deleverage, Abs
<1>3. b \notin Insurance => ledger.position[<<b, m>>].size # 0
  BY <1>1, <1>2 DEF Deleverage, Abs
<1>4. ASSUME NEW x \in Account, ledger.position[<<x, m>>].size # 0,
             x \notin Insurance, ledger.market[m].isolatedOnly
      PROVE  InitIfEmpty(ledger, x, m).mode = Isolated
  <2>1. IsLive(ledger, x, m) /\ ObeysMode(ledger, x, m) /\ IsOpen(ledger.position[<<x, m>>])
    BY <1>1, <1>4 DEF SlotInv, IsOpen
  <2>2. InitIfEmpty(ledger, x, m) = ledger.position[<<x, m>>]
    BY <1>1, <2>1, FreshIsClosed
  <2> QED BY <1>4, <2>1, <2>2 DEF ObeysMode
<1> QED BY <1>2, <1>3, <1>4

\* Every transaction keeps every slot's invariant.
LEMMA NextPositions == IInv /\ PInv /\ IInv' /\ [Next]_vars => PInv'
<1> SUFFICES ASSUME IInv, PInv, IInv', [Next]_vars PROVE PInv'
  OBVIOUS
<1>1. ASSUME NEW m \in Market, CreateMarket(m) \/ ExpireMarket(m) PROVE PInv'
  BY <1>1, MarketActions
<1>2. ASSUME NEW m \in Market, NEW b \in BOOLEAN, NEW d \in Modes,
             UpdateMarketConfig(m, b, d)
      PROVE  PInv'
  BY <1>2, MarketActions
<1>3. ASSUME NEW a \in Account, NEW m \in Market, NEW mode \in Modes,
             UpdateLeverage(a, m, mode)
      PROVE  PInv'
  BY <1>3, LeveragePositions
<1>4. ASSUME NEW i \in OrderId, NEW o \in Orders, StoreOrder(i, o) PROVE PInv'
  BY <1>4, StorePositions
<1>5. ASSUME NEW i \in OrderId, RemoveOrder(i) PROVE PInv'
  BY <1>5, RemovePositions
<1>6. ASSUME NEW i \in OrderId, TriggerChild(i) PROVE PInv'
  BY <1>6, TriggerPositions
<1>7. ASSUME NEW a \in Account, NEW i \in OrderId, NEW d \in Int, Trade(a, i, d)
      PROVE  PInv'
  <2>1. orders[i].owner \in Account /\ orders[i].market \in Market
    BY <1>7 DEF Trade, IInv, RawType, Orders
  <2>2. /\ orders[i].owner # a
        /\ ledger' = Move(Move(ledger, a, orders[i].market, d),
                          orders[i].owner, orders[i].market, -d)
        /\ ledger.market[orders[i].market].status = Active
    BY <1>7 DEF Trade
  <2>3. \A x \in {a, orders[i].owner} :
           x \notin Insurance /\ ledger.market[orders[i].market].isolatedOnly =>
               InitIfEmpty(ledger, x, orders[i].market).mode = Isolated
    BY <1>7, TradeModes
  <2> QED BY <2>1, <2>2, <2>3, TradePositions
<1>8. ASSUME NEW a \in Account, NEW b \in Account, NEW m \in Market, NEW n \in 1..MaxSize,
             Deleverage(a, b, m, n)
      PROVE  PInv'
  <2> DEFINE d == IF ledger.position[<<a, m>>].size > 0 THEN -n ELSE n
  <2>1. /\ a # b /\ d \in Int
        /\ ledger' = Move(Move(ledger, a, m, d), b, m, -d)
        /\ ledger.market[m].status = Active
    BY <1>8, LedgerAssumption DEF Deleverage
  <2> HIDE DEF d
  <2>2. \A x \in {a, b} : x \notin Insurance /\ ledger.market[m].isolatedOnly =>
                             InitIfEmpty(ledger, x, m).mode = Isolated
    BY <1>8, DeleverageModes
  <2> QED BY <2>1, <2>2, TradePositions
<1>9. ASSUME NEW a \in Account, NEW m \in Market, ExitPosition(a, m) PROVE PInv'
  BY <1>9, ExitPositions
<1>10. CASE UNCHANGED vars
  <2>1. ledger' = ledger
    BY <1>10 DEF vars
  <2> QED BY <2>1 DEF PInv
<1>11. -2 * MaxSize .. 2 * MaxSize \subseteq Int
  BY LedgerAssumption
<1> QED BY <1>1, <1>2, <1>3, <1>4, <1>5, <1>6, <1>7, <1>8, <1>9, <1>10, <1>11 DEF Next

\* The counts and the slots of every reachable ledger are as the invariant says.
LEMMA PositionsInvariant == Spec => [](IInv /\ PInv)
<1>1. Init => IInv /\ PInv
  BY InitInvariant, InitPositions
<1>2. IInv /\ PInv /\ [Next]_vars => (IInv /\ PInv)'
  BY NextInvariant, NextPositions
<1> QED BY <1>1, <1>2, PTL DEF Spec

-----------------------------------------------------------------------------
(* The theorems. *)

\* The open interest of a perps market is what its accounts hold, and its longs equal
\* its shorts until it settles: release_closed_market_slot_if_drained and
\* L2UpdateMarketConfig may trust it, whatever trades, deleveragings and exits led here.
THEOREM OpenInterestIsExact == Spec => []OpenInterestMatches
<1>1. IInv /\ PInv => OpenInterestMatches
  <2> SUFFICES ASSUME IInv, PInv, NEW m \in Perps
               PROVE  /\ ledger.market[m].openInterest = Held(ledger, m)
                      /\ ledger.market[m].status = Active => Net(ledger, m) = 0
    BY Zenon DEF OpenInterestMatches, Held, Net, Holdings, Sizes
  <2>1. SlotInv(ledger, m)
    BY LedgerAssumption DEF PInv
  <2> QED BY <2>1 DEF SlotInv, BooksMatch
<1> QED BY <1>1, PositionsInvariant, PTL

\* A slot is released exactly when no order and no position is left on it, so that the
\* next market created there starts clean and a closed one is not kept forever.
THEOREM SlotsAreReleasedWhenDrained == Spec => []ReleasedWhenDrained
<1>1. IInv /\ PInv => ReleasedWhenDrained
  <2> SUFFICES ASSUME IInv, PInv, NEW m \in Market
               PROVE  /\ ledger.market[m].status = Expired =>
                             /\ OfMarket(m) = {}
                             /\ \A a \in Account : ledger.position[<<a, m>>].size = 0
                      /\ ledger.market[m].status = InSettlement =>
                             \/ ledger.market[m].orders # 0
                             \/ ledger.market[m].openInterest # 0
    BY DEF ReleasedWhenDrained
  <2>1. SlotIsSound(ledger, m) /\ BooksMatch(ledger, m) /\ ledger \in RawLedgers
    BY DEF PInv, SlotInv, IInv, RawType
  <2>2. ASSUME ledger.market[m].status = Expired
        PROVE  /\ OfMarket(m) = {}
               /\ \A a \in Account : ledger.position[<<a, m>>].size = 0
    <3>1. ledger.market[m].orders = 0 /\ Held(ledger, m) = 0
      BY <2>1, <2>2 DEF SlotIsSound, BooksMatch
    <3>2. OfMarket(m) \in SUBSET OrderId
      BY DEF OfMarket
    <3>3. OfMarket(m) = {}
      BY <3>1, <3>2, EmptyCount DEF IInv, CountsMatch
    <3>4. \A a \in Account : ledger.position[<<a, m>>].size = 0
      BY <2>1, <3>1, NothingHeld
    <3> QED BY <3>3, <3>4
  <2> QED BY <2>1, <2>2 DEF SlotIsSound
<1> QED BY <1>1, PositionsInvariant, PTL

\* A position of an earlier market on a slot never counts in the next one: one with
\* orders or size is always of the market its slot hosts.
THEOREM OpenPositionsStayLive == Spec => []OpenPositionsAreLive
<1>1. PInv => OpenPositionsAreLive
  BY LedgerAssumption DEF PInv, SlotInv, IsLive, OpenPositionsAreLive
<1> QED BY <1>1, PositionsInvariant, PTL

\* Isolated-only markets hold isolated positions only, the insurance fund's apart,
\* whatever the order of configuration, margin-mode and order transactions.
THEOREM IsolatedOnlyIsRespected == Spec => []IsolatedOnlyRespected
<1>1. PInv => IsolatedOnlyRespected
  BY LedgerAssumption DEF PInv, SlotInv, ObeysMode, IsolatedOnlyRespected
<1> QED BY <1>1, PositionsInvariant, PTL

\* What ModeFixedWhileOpen says of one step and one position.
ModeStays(a, m) ==
    IsOpen(ledger.position[<<a, m>>]) /\ IsOpen(ledger'.position[<<a, m>>]) =>
        ledger'.position[<<a, m>>].mode = ledger.position[<<a, m>>].mode

\* No transaction changes the margin mode of a position that stays open.
LEMMA ModeStep ==
    ASSUME IInv, PInv, [Next]_vars, NEW b \in Account, NEW n \in Perps
    PROVE  ModeStays(b, n)
<1>0. /\ ledger \in RawLedgers /\ n \in Market
      /\ ledger = [market |-> ledger.market, account |-> ledger.account,
                   position |-> ledger.position]
      /\ \A m \in Market, a \in Account : IsLive(ledger, a, m)
      /\ b \in Account
  BY LedgerAssumption DEF IInv, RawType, RawLedgers, PInv, SlotInv
<1>1. ASSUME ledger'.position = ledger.position PROVE ModeStays(b, n)
  BY <1>1 DEF ModeStays
<1>2. ASSUME NEW m \in Market, CreateMarket(m) \/ (\E x \in BOOLEAN, d \in Modes : UpdateMarketConfig(m, x, d))
      PROVE  ModeStays(b, n)
  <2>1. ledger'.position = ledger.position
    BY <1>0, <1>2 DEF CreateMarket, UpdateMarketConfig
  <2> QED BY <1>1, <2>1
<1>3. ASSUME NEW m \in Market, ExpireMarket(m) PROVE ModeStays(b, n)
  <2> DEFINE K == [ledger EXCEPT !.market[m].status = InSettlement]
  <2>1. ledger' = K \/ ledger' = [K EXCEPT !.market[m] = EmptyMarket]
    <3>1. ledger' = Release(K, m)
      BY <1>3 DEF ExpireMarket, Close
    <3> HIDE DEF K
    <3> QED BY <3>1 DEF Release
  <2>2. ledger'.position = ledger.position
    BY <1>0, <2>1
  <2> QED BY <1>1, <2>2
<1>4. ASSUME NEW a \in Account, NEW m \in Market, NEW mode \in Modes,
             UpdateLeverage(a, m, mode)
      PROVE  ModeStays(b, n)
  <2> DEFINE q == [InitIfEmpty(ledger, a, m) EXCEPT !.mode = mode]
  <2>1. ledger' = [ledger EXCEPT !.position[<<a, m>>] = q] /\ LeverageAllowed(ledger, a, m, mode)
    BY <1>4 DEF UpdateLeverage
  <2>2. q.mode = mode
    BY <1>0, InitType DEF RawPositions
  <2> HIDE DEF q
  <2>3. ledger'.position = [ledger.position EXCEPT ![<<a, m>>] = q]
    BY <1>0, <2>1
  <2>4. CASE a = b /\ m = n
    <3>1. ledger'.position[<<b, n>>] = q
      BY <1>0, <2>3, <2>4, PairType DEF RawLedgers
    <3>2. IsOpen(ledger.position[<<b, n>>]) => mode = ledger.position[<<b, n>>].mode
      BY <1>0, <2>1, <2>4 DEF LeverageAllowed, IsLive
    <3> QED BY <2>2, <3>1, <3>2 DEF ModeStays
  <2>5. CASE ~ (a = b /\ m = n)
    <3>1. ledger'.position[<<b, n>>] = ledger.position[<<b, n>>]
      BY <1>0, <2>3, <2>5, PairType DEF RawLedgers
    <3> QED BY <3>1 DEF ModeStays
  <2> QED BY <2>4, <2>5
<1>5. ASSUME NEW i \in OrderId, NEW o \in Orders, StoreOrder(i, o) PROVE ModeStays(b, n)
  <2>1. ledger' = Increment(ledger, o) /\ o.owner \in Account /\ o.market \in Market
    BY <1>5 DEF StoreOrder, Orders
  <2>2. IF o.owner = b /\ o.market = n
        THEN ledger'.position[<<b, n>>].mode = InitIfEmpty(ledger, b, n).mode
        ELSE ledger'.position[<<b, n>>] = ledger.position[<<b, n>>]
    BY <1>0, <2>1, IncrementEffect DEF IsOrder, Orders
  <2>3. IsOpen(ledger.position[<<b, n>>]) => InitIfEmpty(ledger, b, n) = ledger.position[<<b, n>>]
    BY <1>0, FreshIsClosed
  <2> QED BY <2>2, <2>3 DEF ModeStays
<1>6. ASSUME NEW i \in OrderId, RemoveOrder(i) PROVE ModeStays(b, n)
  <2> DEFINE o == orders[i]
             M == Decrement(ledger, o)
  <2>1. o \in Orders /\ o.market \in Market /\ ledger' = Release(M, o.market)
    BY <1>6 DEF RemoveOrder, IInv, RawType, Orders
  <2>2. /\ M \in RawLedgers
        /\ IF o.owner = b /\ o.market = n
           THEN M.position[<<b, n>>].mode = ledger.position[<<o.owner, o.market>>].mode
           ELSE M.position[<<b, n>>] = ledger.position[<<b, n>>]
    BY <1>0, <2>1, DecrementEffect DEF IsOrder, Orders
  <2> HIDE DEF M, o
  <2>3. ledger'.position = M.position
    BY <2>1, <2>2, ReleaseEffect
  <2> QED BY <2>2, <2>3 DEF ModeStays
<1>7. ASSUME NEW i \in OrderId, TriggerChild(i) PROVE ModeStays(b, n)
  <2> DEFINE o == orders[i]
             am == <<o.owner, o.market>>
             q == [ledger.position[am] EXCEPT !.tied = @ + One(o.reduceOnly)]
  <2>1. am \in Account \X Market /\ ledger' = CountTriggered(ledger, o)
    BY <1>7 DEF TriggerChild, IInv, RawType, Orders
  <2>2. ledger'.position = [ledger.position EXCEPT ![am] = q]
    BY <1>0, <2>1 DEF CountTriggered
  <2>3. q.mode = ledger.position[am].mode
    BY <1>0, <2>1 DEF RawLedgers, RawPositions
  <2> HIDE DEF q
  <2>4. <<b, n>> = am => ledger'.position[<<b, n>>].mode = ledger.position[<<b, n>>].mode
    BY <1>0, <2>1, <2>2, <2>3, PairType DEF RawLedgers
  <2>5. <<b, n>> # am => ledger'.position[<<b, n>>] = ledger.position[<<b, n>>]
    BY <1>0, <2>1, <2>2, PairType DEF RawLedgers
  <2>6. ledger'.position[<<b, n>>].mode = ledger.position[<<b, n>>].mode
    BY <2>4, <2>5
  <2> QED BY <2>6 DEF ModeStays
<1>8. ASSUME NEW x \in Account, NEW y \in Account, x # y, NEW m \in Market, NEW d \in Int,
             ledger' = Move(Move(ledger, x, m, d), y, m, -d)
      PROVE  ModeStays(b, n)
  <2> DEFINE M == Move(ledger, x, m, d)
  <2>1. Moved(ledger, M, x, m)
    BY <1>0, MoveEffect
  <2> HIDE DEF M
  <2>2. M \in RawLedgers /\ ledger' = Move(M, y, m, -d) /\ -d \in Int
    BY <1>8, <2>1 DEF M, Moved
  <2>3. Moved(M, ledger', y, m)
    BY <2>2, MoveEffect
  <2>4. InitIfEmpty(M, y, m) = InitIfEmpty(ledger, y, m)
    BY <1>8, <2>1 DEF Moved, InitIfEmpty
  <2>5. /\ x = b /\ m = n => ledger'.position[<<b, n>>].mode = InitIfEmpty(ledger, b, n).mode
        /\ y = b /\ m = n => ledger'.position[<<b, n>>].mode = InitIfEmpty(ledger, b, n).mode
        /\ ~ ((x = b \/ y = b) /\ m = n) => ledger'.position[<<b, n>>] = ledger.position[<<b, n>>]
    BY <1>0, <1>8, <2>1, <2>3, <2>4 DEF Moved
  <2>6. IsOpen(ledger.position[<<b, n>>]) => InitIfEmpty(ledger, b, n) = ledger.position[<<b, n>>]
    BY <1>0, FreshIsClosed
  <2> QED BY <2>5, <2>6 DEF ModeStays
<1>9. ASSUME NEW a \in Account, NEW i \in OrderId, NEW d \in Int, Trade(a, i, d)
      PROVE  ModeStays(b, n)
  <2>1. orders[i].owner \in Account /\ orders[i].market \in Market
    BY <1>9 DEF Trade, IInv, RawType, Orders
  <2>2. /\ orders[i].owner # a
        /\ ledger' = Move(Move(ledger, a, orders[i].market, d),
                          orders[i].owner, orders[i].market, -d)
    BY <1>9 DEF Trade
  <2> QED BY <1>8, <2>1, <2>2
<1>10. ASSUME NEW x \in Account, NEW y \in Account, NEW m \in Market, NEW k \in 1..MaxSize,
              Deleverage(x, y, m, k)
       PROVE  ModeStays(b, n)
  <2> DEFINE d == IF ledger.position[<<x, m>>].size > 0 THEN -k ELSE k
  <2>1. /\ x # y /\ d \in Int
        /\ ledger' = Move(Move(ledger, x, m, d), y, m, -d)
    BY <1>10, LedgerAssumption DEF Deleverage
  <2> HIDE DEF d
  <2> QED BY <1>8, <2>1
<1>11. ASSUME NEW a \in Account, NEW m \in Market, ExitPosition(a, m) PROVE ModeStays(b, n)
  <2> DEFINE K == [ledger EXCEPT !.market[m].openInterest =
                       @ - Abs(ledger.position[<<a, m>>].size)]
             M == Release(K, m)
  <2>1. ledger' = [M EXCEPT !.position[<<a, m>>] = EmptyPosition]
    BY <1>11 DEF ExitPosition
  <2>2. M = K \/ M = [K EXCEPT !.market[m] = EmptyMarket]
    <3> HIDE DEF K
    <3> QED BY DEF Release
  <2> HIDE DEF M
  <2>3. /\ ledger'.position = [ledger.position EXCEPT ![<<a, m>>] = EmptyPosition]
    BY <1>0, <2>1, <2>2
  <2>4. \/ ledger'.position[<<b, n>>] = ledger.position[<<b, n>>]
        \/ ledger'.position[<<b, n>>] = EmptyPosition
    BY <1>0, <2>3, PairType DEF RawLedgers
  <2> QED BY <2>4 DEF ModeStays, IsOpen, EmptyPosition
<1>12. CASE UNCHANGED vars
  BY <1>1, <1>12 DEF vars
<1>13. -2 * MaxSize .. 2 * MaxSize \subseteq Int
  BY LedgerAssumption
<1> QED BY <1>2, <1>3, <1>4, <1>5, <1>6, <1>7, <1>9, <1>10, <1>11, <1>12, <1>13 DEF Next

\* The margin mode of a position changes only while it has neither size nor orders:
\* the check of L2UpdateLeverage is enough, no other transaction gets around it.
THEOREM MarginModeIsFixed == Spec => ModeFixedWhileOpen
<1>1. IInv /\ PInv /\ [Next]_vars =>
         [\A a \in Account, m \in Perps : ModeStays(a, m)]_vars
  BY ModeStep
<1>2. Spec => [][\A a \in Account, m \in Perps : ModeStays(a, m)]_vars
  BY <1>1, PositionsInvariant, PTL DEF Spec
<1> QED BY <1>2 DEF ModeFixedWhileOpen, ModeStays
=============================================================================
