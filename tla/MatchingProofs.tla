--------------------------- MODULE MatchingProofs ---------------------------
(***************************************************************************)
(* A step of the matching engine keeps the invariant of OrderEngineProofs   *)
(* as every transaction does, and so the exchange has it always; what that  *)
(* says of the orders, the counts, the book and the stack.                  *)
(***************************************************************************)
EXTENDS OrderEngineProofs

-----------------------------------------------------------------------------
(* A step of the matching engine: it works on a state of its own, record s, with the     *)
(* instructions it leaves by slot.                                                      *)

\* Instructions for the registers: none inserts an order, and the slot of the taker's
\* second child is used for it only.
Told(new) ==
    /\ DOMAIN new \subseteq 0..7
    /\ \A j \in DOMAIN new : InstructionFits(ask, bid, new[j]) /\ new[j].kind # "insert_order"
    /\ 4 \in DOMAIN new => Taker.children # << >>

Shrunk(t) == t.rem \in Nat /\ t.rem <= Taker.rem /\ t = [Taker EXCEPT !.rem = t.rem]

Sound(s) ==
    /\ s = [ledger |-> s.ledger, orders |-> s.orders, book |-> s.book, locked |-> s.locked,
            taker |-> s.taker, slack |-> s.slack, new |-> s.new]
    /\ World(s.ledger, s.orders, s.book, ask, bid)
    /\ Thinner(orders, s.orders)
    /\ StayOpen(ledger, s.ledger)
    /\ Shrunk(s.taker)
    /\ s.slack \in Int /\ s.slack >= 0
    /\ Told(s.new)

LEMMA ThinnerStill ==
    ASSUME NEW O, NEW P, NEW Q, Thinner(O, P), Thinner(P, Q)
    PROVE  Thinner(O, Q)
BY DEF Thinner

LEMMA StillOpen ==
    ASSUME NEW L, NEW M, NEW N, StayOpen(L, M), SameMarkets(M, N)
    PROVE  StayOpen(L, N)
BY DEF StayOpen, SameMarkets

\* The taker is on top of the stack and nowhere else.
LEMMA TakerKnown ==
    ASSUME EInv, matching
    PROVE  /\ World(ledger, orders, book, ask, bid) /\ Piled(ledger, orders, ask, bid, regs, count)
           /\ count \in 1..9 /\ regs = [j \in 0..8 |-> regs[j]] /\ regs[0] # Execute
           /\ regs[0] \in InstructionSet /\ regs[0].kind = "insert_order"
           /\ InstructionFits(ask, bid, regs[0])
           /\ OrderFits(ask, bid, Index0, Taker) /\ Index0 \in Index /\ Taker \in OrderSet
           /\ regs[0].slack \in Int /\ regs[0].slack >= 0
           /\ orders[Index0] = NoOrder
           /\ Taker.trigger = "na" => TakerApart(orders, Taker)
           /\ ledger.market[Taker.market].status = Ledger!Active
           /\ Taker.children # << >> => count = 1
<1>1. /\ World(ledger, orders, book, ask, bid) /\ Piled(ledger, orders, ask, bid, regs, count)
      /\ regs[0] # Execute /\ regs[0].kind = "insert_order"
  BY DEF EInv
<1>2. count \in 1..9 /\ regs = [j \in 0..8 |-> regs[j]]
  BY <1>1, StackShape DEF Piled, StackFits
<1>3. 0 \in 0..count - 1
  BY <1>2
<1>4. InstructionFits(ask, bid, regs[0])
  BY <1>1, <1>3 DEF Piled, StackFits
<1>5. regs[0] \in InstructionSet /\ OrderFits(ask, bid, Index0, Taker) /\ regs[0].slack >= 0
  BY <1>1, <1>4 DEF InstructionFits, Index0, Taker
<1>6. Index0 \in Index /\ Taker \in OrderSet /\ regs[0].slack \in Int
  BY <1>1, <1>5 DEF OrderFits, GivenOut, InstructionSet
<1>7. orders[Index0] = NoOrder
  BY <1>1, <1>3 DEF Piled, PlacesApart, Index0
<1>8. Taker.trigger = "na" => TakerApart(orders, Taker)
  BY <1>1, <1>3 DEF Piled, TakersApart, IsTaker, Taker
<1>9. ledger.market[Taker.market].status = Ledger!Active
  BY <1>1, <1>3 DEF Piled, MarketsOpen, Taker
<1>10. Taker.children # << >> => count = 1
  <2> SUFFICES ASSUME Taker.children # << >> PROVE count = 1
    OBVIOUS
  <2>1. 0 = count - 1
    BY <1>1, <1>3 DEF Piled, StackFits, Taker
  <2> QED BY <1>2, <2>1
<1> QED BY <1>1, <1>2, <1>4, <1>5, <1>6, <1>7, <1>8, <1>9, <1>10

LEMMA StartSound == ASSUME EInv, matching PROVE Sound(Start) /\ DOMAIN Start.new = {}
<1>1. DOMAIN Nothing = {}
  BY DEF Nothing
<1>2. Told(Nothing)
  BY <1>1 DEF Told
<1>3. Taker = [Taker EXCEPT !.rem = Taker.rem] /\ Taker.rem \in Nat
  BY TakerKnown DEF OrderSet
<1>4. Shrunk(Taker)
  BY <1>3 DEF Shrunk
<1>5. Thinner(orders, orders) /\ StayOpen(ledger, ledger)
  BY SameWorld
<1> DEFINE t == Taker
<1> HIDE DEF t
<1>6. Start = [ledger |-> ledger, orders |-> orders, book |-> book, locked |-> locked,
               taker |-> t, slack |-> regs[0].slack, new |-> Nothing]
  BY DEF Start, t
<1>7. /\ Start.ledger = ledger /\ Start.orders = orders /\ Start.book = book
      /\ Start.taker = t /\ Start.slack = regs[0].slack /\ Start.new = Nothing
      /\ Start = [ledger |-> Start.ledger, orders |-> Start.orders, book |-> Start.book,
                  locked |-> Start.locked, taker |-> Start.taker, slack |-> Start.slack,
                  new |-> Start.new]
  BY <1>6
<1> QED BY <1>1, <1>2, <1>4, <1>5, <1>7, TakerKnown DEF Sound, t

\* Instructions added to those of a step, whichever come first.
LEMMA ToldMore ==
    ASSUME NEW new, NEW more, NEW both, Told(new), both \in {Over(more, new), Over(new, more)},
           DOMAIN more \subseteq 0..7,
           \A j \in DOMAIN more : InstructionFits(ask, bid, more[j])
                                  /\ more[j].kind # "insert_order",
           4 \in DOMAIN more => Taker.children # << >>
    PROVE  Told(both) /\ DOMAIN both = DOMAIN new \union DOMAIN more
<1>1. /\ DOMAIN both = DOMAIN new \union DOMAIN more
      /\ \A j \in DOMAIN both : \/ j \in DOMAIN new /\ both[j] = new[j]
                                \/ j \in DOMAIN more /\ both[j] = more[j]
  BY DEF Over
<1> QED BY <1>1 DEF Told

\* Children of an order, told with what it has filled or cancelled with it.
LEMMA ChildrenTold ==
    ASSUME NEW i, NEW o, OrderFits(ask, bid, i, o), NEW top \in Nat, NEW more,
           more = ChildrenOf(o, top)
    PROVE  /\ DOMAIN more \subseteq {top - 1, top}
           /\ top - 1 \in DOMAIN more => o.children # << >>
           /\ \A j \in DOMAIN more : InstructionFits(ask, bid, more[j])
                                     /\ more[j].kind # "insert_order"
<1>1. o.initial - o.rem \in Nat
  BY DEF OrderFits, OrderSet
<1> DEFINE size == o.initial - o.rem
<1>2. more \in {CancelChildren(o, top), TriggerChildren(o, size, top)}
  BY DEF ChildrenOf
<1> HIDE DEF size
<1>3. size \in Nat
  BY <1>1 DEF size
<1> QED BY <1>2, <1>3, ChildrenFit

\* The order on top of the stack shrinks and fits where it was.
LEMMA SmallerFits ==
    ASSUME EInv, matching, NEW t, Shrunk(t)
    PROVE  /\ t \in OrderSet /\ t.market = Taker.market /\ t.trigger = Taker.trigger
           /\ t.nonce = Taker.nonce /\ t.children = Taker.children /\ t.owner = Taker.owner
           /\ t.isAsk = Taker.isAsk /\ t.initial = Taker.initial
           /\ t.mode = Taker.mode /\ t.scope = Taker.scope
           /\ Taker.trigger = "na" => OrderFits(ask, bid, Index0, t)
<1>1. /\ Taker \in OrderSet /\ OrderFits(ask, bid, Index0, Taker)
      /\ t = [Taker EXCEPT !.rem = t.rem] /\ t.rem \in Nat /\ t.rem <= Taker.rem
  BY TakerKnown DEF Shrunk
<1>2. /\ t \in OrderSet /\ t.market = Taker.market /\ t.trigger = Taker.trigger
      /\ t.nonce = Taker.nonce /\ t.children = Taker.children /\ t.owner = Taker.owner
      /\ t.isAsk = Taker.isAsk /\ t.initial = Taker.initial
      /\ t.mode = Taker.mode /\ t.scope = Taker.scope
  BY <1>1 DEF OrderSet
<1>3. ASSUME Taker.trigger = "na" PROVE OrderFits(ask, bid, Index0, t)
  <2>1. OnSide(ask, bid, t)
    <3>1. OnSide(ask, bid, Taker) /\ Taker.isAsk \in BOOLEAN
      BY <1>1, <1>3 DEF OrderFits, OrderSet
    <3>2. CASE Taker.isAsk
      BY <1>2, <3>1, <3>2 DEF OnSide
    <3>3. CASE ~Taker.isAsk
      BY <1>2, <3>1, <3>3 DEF OnSide
    <3> QED BY <3>1, <3>2, <3>3
  <2>2. t.rem <= t.initial /\ SparesMasters(t)
    BY <1>1, <1>2, StillSpares DEF OrderFits, OrderSet
  <2> QED BY <1>1, <1>2, <1>3, <2>1, <2>2 DEF OrderFits
<1> QED BY <1>2, <1>3

\* A taker is dropped: its children are told.
LEMMA DropTakerSound ==
    ASSUME EInv, matching, Taker.trigger = "na", NEW s, Sound(s)
    PROVE  /\ Sound(DropTaker(s)) /\ DropTaker(s).orders = s.orders
           /\ DropTaker(s).ledger = s.ledger
<1> DEFINE more == ChildrenOf(s.taker, 5)
           both == Over(more, s.new)
           z == DropTaker(s)
<1>1. z = [s EXCEPT !.new = both]
  BY DEF DropTaker
<1>2. OrderFits(ask, bid, Index0, s.taker) /\ s.taker.children = Taker.children
  BY SmallerFits DEF Sound
<1>3. /\ DOMAIN more \subseteq {5 - 1, 5}
      /\ 5 - 1 \in DOMAIN more => Taker.children # << >>
      /\ \A j \in DOMAIN more : InstructionFits(ask, bid, more[j])
                                /\ more[j].kind # "insert_order"
  <2>1. 5 \in Nat
    OBVIOUS
  <2> HIDE DEF more
  <2>2. more = ChildrenOf(s.taker, 5)
    BY DEF more
  <2> QED BY <1>2, <2>1, <2>2, ChildrenTold
<1> HIDE DEF more
<1>4. Told(both)
  <2>1. DOMAIN more \subseteq 0..7 /\ (4 \in DOMAIN more => Taker.children # << >>)
    BY <1>3
  <2> QED BY <1>3, <2>1, ToldMore DEF Sound
<1> HIDE DEF both, z
<1>5. /\ z.ledger = s.ledger /\ z.orders = s.orders /\ z.book = s.book
      /\ z.taker = s.taker /\ z.slack = s.slack /\ z.new = both
      /\ z = [ledger |-> z.ledger, orders |-> z.orders, book |-> z.book, locked |-> z.locked,
              taker |-> z.taker, slack |-> z.slack, new |-> z.new]
  BY <1>1 DEF Sound
<1> QED BY <1>4, <1>5 DEF Sound, z

\* A maker is dropped: it leaves with its leaf, and its children are told.
LEMMA DropMakerSound ==
    ASSUME NEW s, Sound(s), NEW i \in Index, s.orders[i] # NoOrder
    PROVE  /\ Sound(DropMaker(s, i))
           /\ DOMAIN DropMaker(s, i).new \subseteq DOMAIN s.new \union {6, 7}
           /\ SameSizes(s.ledger, DropMaker(s, i).ledger)
           /\ \A j \in Index \ {i} : DropMaker(s, i).orders[j] = s.orders[j]
<1> DEFINE o == s.orders[i]
           more == ChildrenOf(o, 7)
           both == Over(more, s.new)
           z == DropMaker(s, i)
           L == Ledger!Decrement(s.ledger, o)
           O == [s.orders EXCEPT ![i] = NoOrder]
           b == s.book \ At(s.book, o)
           k == Unlock(s.locked, o, o.rem)
<1>1. z = [s EXCEPT !.ledger = L, !.orders = O, !.book = b, !.locked = k, !.new = both]
  BY DEF DropMaker
<1>2. World(L, O, b, ask, bid) /\ SameSizes(s.ledger, L)
  BY WorldDrop DEF Sound
<1>3. OrderFits(ask, bid, i, o)
  BY DEF Sound, World, OrdersFit
<1>4. /\ DOMAIN more \subseteq {7 - 1, 7}
      /\ \A j \in DOMAIN more : InstructionFits(ask, bid, more[j])
                                /\ more[j].kind # "insert_order"
  <2>1. 7 \in Nat
    OBVIOUS
  <2> HIDE DEF more, o
  <2>2. more = ChildrenOf(o, 7)
    BY DEF more
  <2> QED BY <1>3, <2>1, <2>2, ChildrenTold
<1>5. Thinner(orders, O) /\ \A j \in Index \ {i} : O[j] = s.orders[j]
  <2>1. s.orders = [j \in Index |-> s.orders[j]]
    BY DEF Sound, World, OrdersFit
  <2>2. Thinner(s.orders, O)
    BY <2>1 DEF Thinner, IsResting
  <2>3. \A j \in Index \ {i} : O[j] = s.orders[j]
    BY <2>1
  <2> QED BY <2>2, <2>3, ThinnerStill DEF Sound
<1>6. StayOpen(ledger, L)
  BY <1>2, StillOpen DEF Sound, SameSizes
<1> HIDE DEF more, L, O, b, k
<1>7. Told(both) /\ DOMAIN both = DOMAIN s.new \union DOMAIN more
  <2>1. DOMAIN more \subseteq 0..7 /\ 4 \notin DOMAIN more
    BY <1>4
  <2> QED BY <1>4, <2>1, ToldMore DEF Sound
<1> HIDE DEF both, z
<1>8. /\ z.ledger = L /\ z.orders = O /\ z.book = b
      /\ z.taker = s.taker /\ z.slack = s.slack /\ z.new = both
      /\ z = [ledger |-> z.ledger, orders |-> z.orders, book |-> z.book, locked |-> z.locked,
              taker |-> z.taker, slack |-> z.slack, new |-> z.new]
  BY <1>1 DEF Sound
<1>9. Sound(z)
  BY <1>2, <1>5, <1>6, <1>7, <1>8 DEF Sound
<1>10. DOMAIN z.new \subseteq DOMAIN s.new \union {6, 7}
  BY <1>4, <1>7, <1>8
<1>11. \A j \in Index \ {i} : z.orders[j] = s.orders[j]
  BY <1>5, <1>8
<1> QED BY <1>2, <1>8, <1>9, <1>10, <1>11 DEF z

\* The orders of one side or of both are dropped.
LEMMA DropSound ==
    ASSUME EInv, matching, Taker.trigger = "na", NEW s, Sound(s),
           NEW i \in Index, s.orders[i] # NoOrder, NEW who
    PROVE  /\ Sound(Drop(s, i, who))
           /\ "taker" \notin who /\ DOMAIN s.new = {} => 4 \notin DOMAIN Drop(s, i, who).new
           /\ SameSizes(s.ledger, Drop(s, i, who).ledger)
           /\ \A k \in Index \ {i} : Drop(s, i, who).orders[k] = s.orders[k]
<1> DEFINE z == IF "maker" \in who THEN DropMaker(s, i) ELSE s
<1>1. /\ Sound(z) /\ SameSizes(s.ledger, z.ledger)
      /\ DOMAIN z.new \subseteq DOMAIN s.new \union {6, 7}
      /\ \A k \in Index \ {i} : z.orders[k] = s.orders[k]
  <2>1. CASE "maker" \in who
    BY <2>1, DropMakerSound
  <2>2. CASE "maker" \notin who
    BY <2>2 DEF SameSizes, SameMarkets
  <2> QED BY <2>1, <2>2
<1> HIDE DEF z
<1>2. Drop(s, i, who) = IF "taker" \in who THEN DropTaker(z) ELSE z
  BY DEF Drop, z
<1>3. CASE "taker" \in who
  BY <1>1, <1>2, <1>3, DropTakerSound
<1>4. CASE "taker" \notin who
  BY <1>1, <1>2, <1>4
<1> QED BY <1>3, <1>4

\* Without the slot of the taker's second child a batch is not full.
LEMMA BatchHasRoom ==
    ASSUME NEW S, S \subseteq 0..7, 4 \notin S
    PROVE  Cardinality(S) < 8
<1> DEFINE lo == 0
           hi == 7
           T == lo..hi
<1>1. lo \in Int /\ hi \in Int /\ lo <= hi /\ hi - lo + 1 = 8
  OBVIOUS
<1>2. 4 \in T /\ S \subseteq T \ {4}
  OBVIOUS
<1> HIDE DEF lo, hi
<1>3. IsFiniteSet(T) /\ Cardinality(T) = 8
  BY <1>1, FS_Interval
<1> HIDE DEF T
<1>4. IsFiniteSet(T \ {4}) /\ Cardinality(T \ {4}) = 8 - 1
  BY <1>2, <1>3, FS_RemoveElement
<1>5. Cardinality(S) <= Cardinality(T \ {4}) /\ Cardinality(S) \in Nat
  BY <1>2, <1>4, FS_Subset, FS_CardinalityType
<1> QED BY <1>4, <1>5

\* What a step leaves is pushed; nothing in it inserts an order.
LEMMA ToldFits ==
    ASSUME NEW L, NEW O, NEW c, NEW new, Told(new)
    PROVE  NewFits(L, O, ask, bid, new, c)
BY DEF Told, NewFits, IsTaker

\* There is room for it on the stack without the taker.
LEMMA RoomWhenDone ==
    ASSUME EInv, matching, NEW s, Sound(s)
    PROVE  /\ Piled(s.ledger, s.orders, ask, bid, Popped, count - 1)
           /\ FitsWidth(Popped, s.new, NewMax)
<1>2. Piled(s.ledger, s.orders, ask, bid, regs, count) /\ count \in 1..9
  BY TakerKnown, PiledThinner DEF Sound
<1>3. Piled(s.ledger, s.orders, ask, bid, Popped, count - 1)
  BY <1>2, PiledPop DEF Popped
<1>4. FitsWidth(Popped, s.new, NewMax)
  <2>1. DOMAIN s.new \subseteq 0..7 /\ NewMax = 8 /\ NewMax - 1 = 7
    BY Constants DEF Sound, Told
  <2>2. CASE 4 \in DOMAIN s.new
    <3>1. count - 1 = 0
      BY <2>2, TakerKnown DEF Sound, Told
    <3>2. Popped[0] = Execute
      BY <1>3, <3>1, StackShape DEF Piled, StackFits
    <3> QED BY <2>1, <3>2 DEF FitsWidth
  <2>3. CASE 4 \notin DOMAIN s.new
    <3>1. Cardinality(DOMAIN s.new) < 8
      BY <2>1, <2>3, BatchHasRoom
    <3> QED BY <2>1, <3>1 DEF FitsWidth
  <2> QED BY <2>2, <2>3
<1> QED BY <1>3, <1>4

\* The taker is done: it leaves the stack.
LEMMA SettleDone ==
    ASSUME EInv, matching, NEW s, Sound(s), Settle(s, TRUE)
    PROVE  EInv'
<1>1. /\ ledger' = s.ledger /\ orders' = s.orders /\ book' = s.book
      /\ Put(Popped, count - 1, s.new, NewMax)
      /\ matching' = FALSE /\ ask' = ask /\ bid' = bid /\ now' = now
  BY DEF Settle
<1>2. /\ Piled(s.ledger, s.orders, ask, bid, Popped, count - 1)
      /\ FitsWidth(Popped, s.new, NewMax)
  BY RoomWhenDone
<1>3. NewFits(s.ledger, s.orders, ask, bid, s.new, count - 1)
  BY ToldFits DEF Sound
<1>4. Piled(ledger', orders', ask, bid, regs', count')
  BY <1>1, <1>2, <1>3, PiledPut
<1>5. World(ledger', orders', book', ask', bid')
  BY <1>1 DEF Sound
<1>6. now' \in 1..MaxTime
  BY <1>1 DEF EInv
<1> QED BY <1>1, <1>4, <1>5, <1>6 DEF EInv

\* And above a taker that goes on, unless its second child is told.
TakerLeft(s) == [regs EXCEPT ![0].order = s.taker, ![0].slack = s.slack]

LEMMA RoomWhenOn ==
    ASSUME EInv, matching, Taker.trigger = "na", NEW s, Sound(s), 4 \notin DOMAIN s.new
    PROVE  /\ Piled(s.ledger, s.orders, ask, bid, TakerLeft(s), count)
           /\ FitsWidth(TakerLeft(s), s.new, NewMax)
<1> DEFINE x == [regs[0] EXCEPT !.order = s.taker, !.slack = s.slack]
           r == [regs EXCEPT ![0] = x]
<1>2. /\ Piled(ledger, orders, ask, bid, regs, count) /\ count \in 1..9 /\ count # 0
      /\ regs = [j \in 0..8 |-> regs[j]]
      /\ regs[0] \in InstructionSet /\ regs[0].kind = "insert_order"
  BY TakerKnown
<1>3. TakerLeft(s) = r
  BY <1>2 DEF TakerLeft
<1>4. /\ s.taker \in OrderSet /\ s.taker.market = Taker.market
      /\ s.taker.trigger = Taker.trigger /\ s.taker.nonce = Taker.nonce
      /\ s.taker.children = Taker.children /\ OrderFits(ask, bid, Index0, s.taker)
      /\ s.slack \in Int /\ s.slack >= 0
  BY SmallerFits DEF Sound
<1>5. /\ x \in InstructionSet /\ x.kind = "insert_order" /\ x.index = Index0
      /\ x.order = s.taker /\ x.slack = s.slack
  BY <1>2, <1>4 DEF InstructionSet, Index0
<1> HIDE DEF x
<1>6. InstructionFits(ask, bid, x)
  BY <1>4, <1>5 DEF InstructionFits
<1>7. Piled(ledger, orders, ask, bid, r, count)
  BY <1>2, <1>4, <1>5, <1>6, PiledTop DEF Taker, Index0
<1> HIDE DEF r
<1>8. Piled(s.ledger, s.orders, ask, bid, r, count)
  BY <1>7, PiledThinner DEF Sound
<1>9. FitsWidth(r, s.new, NewMax)
  <2>1. DOMAIN s.new \subseteq 0..7 /\ NewMax = 8 /\ NewMax - 1 = 7
    BY Constants DEF Sound, Told
  <2>2. Cardinality(DOMAIN s.new) < 8
    BY <2>1, BatchHasRoom
  <2> QED BY <2>1, <2>2 DEF FitsWidth
<1> QED BY <1>3, <1>8, <1>9

\* The taker goes on: it stays on top of the stack with what it has left.
LEMMA SettleOn ==
    ASSUME EInv, matching, Taker.trigger = "na", NEW s, Sound(s), 4 \notin DOMAIN s.new,
           Settle(s, FALSE)
    PROVE  EInv'
<1>1. /\ ledger' = s.ledger /\ orders' = s.orders /\ book' = s.book
      /\ Put(TakerLeft(s), count, s.new, NewMax)
      /\ matching' = FALSE /\ ask' = ask /\ bid' = bid /\ now' = now
  BY DEF Settle, TakerLeft
<1>2. /\ Piled(s.ledger, s.orders, ask, bid, TakerLeft(s), count)
      /\ FitsWidth(TakerLeft(s), s.new, NewMax)
  BY RoomWhenOn
<1>3. NewFits(s.ledger, s.orders, ask, bid, s.new, count)
  BY ToldFits DEF Sound
<1>4. Piled(ledger', orders', ask, bid, regs', count')
  BY <1>1, <1>2, <1>3, PiledPut
<1>5. World(ledger', orders', book', ask', bid')
  BY <1>1 DEF Sound
<1>6. now' \in 1..MaxTime
  BY <1>1 DEF EInv
<1> QED BY <1>1, <1>4, <1>5, <1>6 DEF EInv

\* A step that drops the taker is done with it.
LEMMA SettleDropped ==
    ASSUME EInv, matching, Taker.trigger = "na", NEW s, Sound(s), NEW who,
           "taker" \notin who => 4 \notin DOMAIN s.new,
           Settle(s, "taker" \in who)
    PROVE  EInv'
<1>1. CASE "taker" \in who
  <2>1. Settle(s, TRUE)
    BY <1>1 DEF Settle
  <2> QED BY <2>1, SettleDone
<1>2. CASE "taker" \notin who
  <2>1. Settle(s, FALSE)
    BY <1>2 DEF Settle
  <2> QED BY <1>2, <2>1, SettleOn
<1> QED BY <1>1, <1>2

\* The taker becomes an account order.
LEMMA InsertTakerKeeps ==
    ASSUME EInv, matching, Settle(InsertTaker(Start), TRUE),
           Taker.trigger = "na" => Fits(book, Taker)
    PROVE  EInv'
<1> DEFINE t == Taker
           s == InsertTaker(Start)
           L == Ledger!Increment(ledger, t)
           O == [orders EXCEPT ![Index0] = t]
           b == IF t.trigger = "na" THEN Resting(book, t) ELSE book
           k == IF t.trigger = "na" THEN Lock(locked, t, t.rem) ELSE locked
<1>1. /\ World(ledger, orders, book, ask, bid) /\ Piled(ledger, orders, ask, bid, regs, count)
      /\ count \in 1..9 /\ count # 0 /\ regs[0].kind = "insert_order" /\ regs[0].order = t
      /\ regs[0].index = Index0 /\ OrderFits(ask, bid, Index0, t) /\ Index0 \in Index
      /\ t \in OrderSet /\ orders[Index0] = NoOrder
      /\ t.trigger = "na" => TakerApart(orders, t)
      /\ ledger.market[t.market].status = Ledger!Active
  BY TakerKnown DEF Taker, Index0
<1>2. ledger.market[t.market].status # Ledger!Expired
  BY <1>1 DEF Ledger!Active, Ledger!Expired
<1>3. World(L, O, b, ask, bid) /\ SameSizes(ledger, L)
  BY <1>1, <1>2, WorldStore
<1>4. StayOpen(ledger, L)
  BY <1>3, SameWorld, StillOpen DEF SameSizes
<1>5. /\ s.ledger = L /\ s.orders = O /\ s.book = b /\ s.new = Nothing
  <2>1. Start = [ledger |-> ledger, orders |-> orders, book |-> book, locked |-> locked,
                 taker |-> t, slack |-> regs[0].slack, new |-> Nothing]
    BY DEF Start
  <2>2. s = [Start EXCEPT !.ledger = L, !.orders = O, !.book = b, !.locked = k]
    <3>1. /\ Start.ledger = ledger /\ Start.orders = orders /\ Start.book = book
          /\ Start.locked = locked /\ Start.taker = t
      BY <2>1
    <3> QED BY <3>1 DEF InsertTaker
  <2> HIDE DEF L, O, b, k, s, t
  <2> QED BY <2>1, <2>2
<1>6. /\ ledger' = L /\ orders' = O /\ book' = b
      /\ Put(Popped, count - 1, Nothing, NewMax)
      /\ matching' = FALSE /\ ask' = ask /\ bid' = bid /\ now' = now
  BY <1>5 DEF Settle
<1>7. Piled(L, O, ask, bid, Popped, count - 1)
  <2>1. orders = [i \in Index |-> orders[i]]
    BY <1>1 DEF World, OrdersFit
  <2> HIDE DEF t, L
  <2> QED BY <1>1, <1>4, <2>1, PiledInsert DEF Popped
<1>8. NewFits(L, O, ask, bid, Nothing, count - 1) /\ FitsWidth(Popped, Nothing, NewMax)
  <2>1. DOMAIN Nothing = {} /\ Cardinality(DOMAIN Nothing) = 0 /\ NewMax = 8
    BY NothingFits, SmallSets, Constants
  <2> QED BY <2>1, NothingFits DEF FitsWidth
<1> HIDE DEF L, O, b
<1>9. Piled(ledger', orders', ask, bid, regs', count')
  BY <1>6, <1>7, <1>8, PiledPut
<1>10. now' \in 1..MaxTime
  BY <1>6 DEF EInv
<1> QED BY <1>3, <1>6, <1>9, <1>10 DEF EInv

LEMMA InsertWaitingKeeps == ASSUME EInv, InsertWaiting PROVE EInv'
BY InsertTakerKeeps DEF InsertWaiting

LEMMA DropInvalidTakerKeeps == ASSUME EInv, DropInvalidTaker PROVE EInv'
<1>1. matching /\ Taker.trigger = "na" /\ Settle(DropTaker(Start), TRUE)
  BY DEF DropInvalidTaker
<1>2. Sound(DropTaker(Start))
  BY <1>1, StartSound, DropTakerSound
<1> QED BY <1>1, <1>2, SettleDone

LEMMA DropUnmatchedKeeps == ASSUME EInv, DropUnmatched PROVE EInv'
<1>1. matching /\ Taker.trigger = "na" /\ Settle(DropTaker(Start), TRUE)
  BY DEF DropUnmatched, CanMatch
<1>2. Sound(DropTaker(Start))
  BY <1>1, StartSound, DropTakerSound
<1> QED BY <1>1, <1>2, SettleDone

\* What is known of a leaf.
LEMMA LeafKnown ==
    ASSUME World(ledger, orders, book, ask, bid), NEW l \in book
    PROVE  \E k \in Index :
              /\ IsResting(orders, k) /\ l = Leaf(orders[k]) /\ orders[k] # NoOrder
              /\ orders[k] \in OrderSet /\ OnSide(ask, bid, orders[k])
              /\ l.market = orders[k].market /\ l.price = orders[k].price
              /\ l.nonce = orders[k].nonce /\ l.isAsk = orders[k].isAsk
<1>1. PICK k \in Index : IsResting(orders, k) /\ l = Leaf(orders[k])
  BY LeafHasOrder DEF World
<1>2. orders[k] \in OrderSet /\ OnSide(ask, bid, orders[k]) /\ orders[k] # NoOrder
  BY <1>1 DEF World, OrdersFit, OrderFits, IsResting
<1> QED BY <1>1, <1>2, LeafShown

\* Nothing on the book is better than the taker, and nothing is at its price: the nonces of
\* asks are below those of bids.
LEMMA RestKeeps == ASSUME EInv, Rest PROVE EInv'
<1> DEFINE t == Taker
<1>1. matching /\ t.trigger = "na" /\ NothingCrosses /\ Settle(InsertTaker(Start), TRUE)
  BY DEF Rest, CanMatch
<1>2. /\ World(ledger, orders, book, ask, bid) /\ OrderFits(ask, bid, Index0, t)
      /\ t \in OrderSet /\ OnSide(ask, bid, t)
  BY <1>1, TakerKnown DEF OrderFits
<1>3. /\ t.market \in Market /\ t.isAsk \in BOOLEAN /\ t.price \in Nat /\ t.nonce \in Nat
      /\ ask[t.market] \in Int /\ bid[t.market] \in Int /\ ask[t.market] <= bid[t.market]
  BY <1>2 DEF OrderSet, World, NoncesFit
<1>4. NothingBetter(t.market, t.isAsk, t.price, t.nonce)
  BY <1>1 DEF NothingCrosses
<1> HIDE DEF t
<1>5. ASSUME NEW l \in book, l.market = t.market, l.isAsk # t.isAsk
      PROVE  IF t.isAsk THEN l.price < t.price ELSE t.price < l.price
  <2>1. PICK k \in Index :
            /\ IsResting(orders, k) /\ l = Leaf(orders[k]) /\ orders[k] # NoOrder
            /\ orders[k] \in OrderSet /\ OnSide(ask, bid, orders[k])
            /\ l.market = orders[k].market /\ l.price = orders[k].price
            /\ l.nonce = orders[k].nonce /\ l.isAsk = orders[k].isAsk
    BY <1>2, LeafKnown
  <2>2. l.price \in Nat /\ l.nonce \in Nat /\ l.isAsk \in BOOLEAN
    BY <2>1 DEF OrderSet
  <2>3. l \in OppositeOf(t.market, t.isAsk)
    BY <1>5 DEF OppositeOf
  <2>4. CASE t.isAsk
    <3>1. ~l.isAsk
      BY <1>5, <2>2, <2>4
    <3>2. ~Before(t.price, t.nonce, l.price, l.nonce)
      BY <1>4, <2>3, <2>4 DEF NothingBetter
    <3>3. t.nonce < ask[t.market] /\ l.nonce > bid[t.market]
      BY <1>2, <1>3, <1>5, <2>1, <2>2, <2>4, <3>1, Constants DEF OnSide
    <3> QED BY <1>3, <2>2, <2>4, <3>2, <3>3 DEF Before
  <2>5. CASE ~t.isAsk
    <3>1. l.isAsk
      BY <1>3, <1>5, <2>2, <2>5
    <3>2. ~Before(l.price, l.nonce, t.price, t.nonce)
      BY <1>4, <2>3, <2>5 DEF NothingBetter
    <3>3. l.nonce < ask[t.market] /\ t.nonce > bid[t.market]
      BY <1>2, <1>3, <1>5, <2>1, <2>2, <2>5, <3>1, Constants DEF OnSide
    <3> QED BY <1>3, <2>2, <2>5, <3>2, <3>3 DEF Before
  <2> QED BY <1>3, <2>4, <2>5
<1>6. Fits(book, t)
  BY <1>5 DEF Fits
<1> QED BY <1>1, <1>6, InsertTakerKeeps DEF t

\* The best order of the other side rests, in the taker's market.
LEMMA FacingFits ==
    ASSUME EInv, NEW i \in Index, Facing(i)
    PROVE  /\ matching /\ Taker.trigger = "na"
           /\ IsResting(orders, i) /\ orders[i] # NoOrder /\ orders[i] \in OrderSet
           /\ orders[i].market = Taker.market /\ orders[i].rem \in Nat
           /\ OrderFits(ask, bid, i, orders[i])
           /\ Taker \in OrderSet /\ Taker.rem \in Nat
           /\ orders[i].isAsk # Taker.isAsk
<1> DEFINE o == orders[i]
<1>1. /\ matching /\ Taker.trigger = "na" /\ o # NoOrder
      /\ At(OppositeOf(Taker.market, Taker.isAsk), o) # {}
  BY DEF Facing, CanMatch, Exists
<1>2. /\ World(ledger, orders, book, ask, bid) /\ NoncesFit(ask, bid)
      /\ OrdersFit(ask, bid, orders) /\ RestingApart(orders)
      /\ Taker \in OrderSet /\ Taker.rem \in Nat
  BY <1>1, TakerKnown DEF World, OrderSet
<1>3. /\ OrderFits(ask, bid, i, o) /\ o \in OrderSet /\ o.nonce \in Int /\ o.rem \in Nat
      /\ IF o.trigger = "na" THEN o.nonce >= 1 ELSE o.nonce = 0
  BY <1>1, <1>2, OrderKnown
<1>4. PICK l \in book : /\ l.market = Taker.market /\ l.market = o.market
                        /\ l.nonce = o.nonce /\ l.isAsk # Taker.isAsk
  BY <1>1 DEF At, OppositeOf
<1>5. PICK k \in Index : /\ IsResting(orders, k) /\ orders[k] # NoOrder
                         /\ l.nonce = orders[k].nonce /\ l.market = orders[k].market
                         /\ l.isAsk = orders[k].isAsk
  BY <1>2, LeafKnown
<1>6. orders[k].nonce >= 1 /\ orders[k].nonce \in Int
  BY <1>2, <1>5, OrderKnown DEF IsResting
<1>7. o.trigger = "na"
  BY <1>3, <1>4, <1>5, <1>6
<1>8. IsResting(orders, i)
  BY <1>1, <1>7 DEF IsResting
<1>9. k = i
  BY <1>2, <1>4, <1>5, <1>8 DEF RestingApart
<1> QED BY <1>1, <1>2, <1>3, <1>4, <1>5, <1>8, <1>9

LEMMA StartOf ==
    /\ Start.ledger = ledger /\ Start.orders = orders /\ Start.book = book
    /\ Start.taker = Taker /\ Start.slack = regs[0].slack /\ Start.new = Nothing
    /\ Start.locked = locked
<1> DEFINE t == Taker
<1>1. Start = [ledger |-> ledger, orders |-> orders, book |-> book, locked |-> locked,
               taker |-> t, slack |-> regs[0].slack, new |-> Nothing]
  BY DEF Start
<1> HIDE DEF t
<1> QED BY <1>1 DEF t

\* Whoever is dropped before any size is looked at.
LEMMA DroppedKeeps ==
    ASSUME EInv, NEW i \in Index, Facing(i), NEW who,
           Settle(Drop(Start, i, who), "taker" \in who)
    PROVE  EInv'
<1>1. matching /\ Taker.trigger = "na" /\ Start.orders[i] # NoOrder
  BY FacingFits, StartOf
<1>2. /\ Sound(Drop(Start, i, who))
      /\ "taker" \notin who => 4 \notin DOMAIN Drop(Start, i, who).new
  BY <1>1, StartSound, DropSound
<1> QED BY <1>1, <1>2, SettleDropped

LEMMA DropWithoutTradeKeeps ==
    ASSUME EInv, NEW i \in Index, DropWithoutTrade(i) PROVE EInv'
BY DroppedKeeps DEF DropWithoutTrade

LEMMA RejectKeeps ==
    ASSUME EInv, NEW i \in Index, NEW who, Reject(i, who) PROVE EInv'
BY DroppedKeeps DEF Reject, MayTrade

LEMMA DropSlippedKeeps == ASSUME EInv, NEW i \in Index, DropSlipped(i) PROVE EInv'
<1>1. matching /\ Taker.trigger = "na" /\ Settle(DropTaker(Start), TRUE)
  BY FacingFits DEF DropSlipped, MayTrade
<1>2. Sound(DropTaker(Start))
  BY <1>1, StartSound, DropTakerSound
<1> QED BY <1>1, <1>2, SettleDone

\* Both orders shrink.
LEMMA ShrinkSound ==
    ASSUME EInv, NEW i \in Index, Facing(i), NEW size \in Nat, size <= orders[i].rem,
           size <= Taker.rem
    PROVE  LET s == Shrink(Start, i, size)
           IN  /\ Sound(s) /\ s.new = Nothing /\ DOMAIN s.new = {} /\ s.ledger = ledger
               /\ s.slack = regs[0].slack
               /\ s.orders = [orders EXCEPT ![i] = [orders[i] EXCEPT !.rem = @ - size]]
               /\ s.orders[i] # NoOrder
<1> DEFINE s == Shrink(Start, i, size)
           x == orders[i].rem - size
           o == [orders[i] EXCEPT !.rem = x]
           O == [orders EXCEPT ![i] = o]
           b == Resting(book, o)
           k == Unlock(locked, o, size)
           t == [Taker EXCEPT !.rem = @ - size]
<1>1. /\ matching /\ IsResting(orders, i) /\ orders[i] \in OrderSet /\ orders[i].rem \in Nat
      /\ Taker \in OrderSet /\ Taker.rem \in Nat
  BY FacingFits
<1>2. /\ World(ledger, orders, book, ask, bid)
      /\ Sound(Start) /\ orders = [j \in Index |-> orders[j]]
  BY <1>1, TakerKnown, StartSound DEF World, OrdersFit
<1>3. x \in Nat /\ x <= orders[i].rem
  BY <1>1
<1>4. World(ledger, O, b, ask, bid) /\ OrderFits(ask, bid, i, o)
  <2> HIDE DEF x
  <2> QED BY <1>1, <1>2, <1>3, WorldShrink
<1>5. Shrunk(t)
  <2>1. t.rem = Taker.rem - size
    BY <1>1 DEF OrderSet
  <2>2. t = [Taker EXCEPT !.rem = t.rem]
    BY <2>1
  <2> HIDE DEF t
  <2> QED BY <1>1, <2>1, <2>2 DEF Shrunk
<1>6. /\ o.market = orders[i].market /\ o.nonce = orders[i].nonce
      /\ o.trigger = orders[i].trigger
  BY <1>1 DEF OrderSet
<1>7. o # NoOrder
  BY <1>4, OrderIsCounted DEF OrderFits
<1>8. s = [Start EXCEPT !.orders = O, !.book = b, !.locked = k, !.taker = t]
  <2>1. o = [Start.orders[i] EXCEPT !.rem = @ - size]
    BY StartOf
  <2> QED BY <1>2, <2>1, StartOf DEF Shrink, Sound
<1> HIDE DEF o
<1>9. Thinner(orders, O)
  BY <1>1, <1>2, <1>6, <1>7 DEF Thinner, IsResting
<1> HIDE DEF b, k, t
<1>10. O[i] = o
  BY <1>2
<1>11. O = [orders EXCEPT ![i] = [orders[i] EXCEPT !.rem = @ - size]]
  BY DEF o
<1> HIDE DEF O, s
<1>12. /\ s.ledger = ledger /\ s.orders = O /\ s.book = b /\ s.taker = t
       /\ s.slack = regs[0].slack /\ s.new = Nothing
       /\ s = [ledger |-> s.ledger, orders |-> s.orders, book |-> s.book, locked |-> s.locked,
               taker |-> s.taker, slack |-> s.slack, new |-> s.new]
  BY <1>2, <1>8, StartOf DEF Sound
<1>13. Sound(s)
  BY <1>2, <1>4, <1>5, <1>9, <1>12, StartOf DEF Sound
<1>14. DOMAIN Nothing = {}
  BY DEF Nothing
<1> QED BY <1>7, <1>10, <1>11, <1>12, <1>13, <1>14 DEF s

\* The least of at most four numbers.
LEMMA LeastOfFour ==
    ASSUME NEW a \in Nat, NEW b \in Nat, NEW c \in Nat, NEW d \in Nat,
           NEW S, S \subseteq {a, b, c, d}, a \in S
    PROVE  Least(S) \in S /\ Least(S) \in Nat /\ \A y \in S : Least(S) <= y
<1>1. \E x \in S : x \in Nat /\ x <= a /\ (b \in S => x <= b)
  <2>1. CASE b \in S /\ b < a
    BY <2>1
  <2>2. CASE ~(b \in S /\ b < a)
    BY <2>2
  <2> QED BY <2>1, <2>2
<1>2. PICK x \in S : x \in Nat /\ x <= a /\ (b \in S => x <= b)
  BY <1>1
<1>3. \E y \in S : y \in Nat /\ y <= x /\ (c \in S => y <= c)
  <2>1. CASE c \in S /\ c < x
    BY <1>2, <2>1
  <2>2. CASE ~(c \in S /\ c < x)
    BY <1>2, <2>2
  <2> QED BY <2>1, <2>2
<1>4. PICK y \in S : y \in Nat /\ y <= x /\ (c \in S => y <= c)
  BY <1>3
<1>5. \E z \in S : z \in Nat /\ z <= y /\ (d \in S => z <= d)
  <2>1. CASE d \in S /\ d < y
    BY <1>4, <2>1
  <2>2. CASE ~(d \in S /\ d < y)
    BY <1>4, <2>2
  <2> QED BY <2>1, <2>2
<1>6. PICK z \in S : z \in Nat /\ z <= y /\ (d \in S => z <= d)
  BY <1>5
<1>7. \A w \in S : z <= w
  <2> SUFFICES ASSUME NEW w \in S PROVE z <= w
    OBVIOUS
  <2>1. w = a \/ w = b \/ w = c \/ w = d
    OBVIOUS
  <2> QED BY <1>2, <1>4, <1>6, <2>1
<1>8. S \subseteq Nat
  OBVIOUS
<1>9. Least(S) \in S /\ \A w \in S : Least(S) <= w
  BY <1>7 DEF Least
<1> QED BY <1>8, <1>9

LEMMA LeastOfTwo ==
    ASSUME NEW a \in Nat, NEW b \in Nat
    PROVE  Least({a, b}) \in {a, b} /\ Least({a, b}) <= a /\ Least({a, b}) <= b
<1>1. {a, b} \subseteq {a, b, a, a} /\ a \in {a, b}
  OBVIOUS
<1> QED BY <1>1, LeastOfFour

LEMMA ReduceBothKeeps == ASSUME EInv, NEW i \in Index, ReduceBoth(i) PROVE EInv'
<1> DEFINE size == Least({orders[i].rem, Taker.rem})
           s == Shrink(Start, i, size)
           who == {w \in {"maker", "taker"} :
                       IF w = "maker" THEN s.orders[i].rem = 0 ELSE s.taker.rem = 0}
<1>1. Facing(i) /\ Settle(Drop(s, i, who), "taker" \in who)
  BY DEF ReduceBoth
<1>2. matching /\ Taker.trigger = "na" /\ orders[i].rem \in Nat /\ Taker.rem \in Nat
  BY <1>1, FacingFits
<1>3. size \in Nat /\ size <= orders[i].rem /\ size <= Taker.rem
  BY <1>2, LeastOfTwo
<1> HIDE DEF size
<1>4. Sound(s) /\ DOMAIN s.new = {} /\ s.orders[i] # NoOrder
  BY <1>1, <1>3, ShrinkSound
<1> HIDE DEF s, who
<1>5. /\ Sound(Drop(s, i, who))
      /\ "taker" \notin who => 4 \notin DOMAIN Drop(s, i, who).new
  BY <1>2, <1>4, DropSound
<1> QED BY <1>1, <1>2, <1>5, SettleDropped

\* Cancellations of what is tied to positions that changed sign.
LEMMA TiedSound ==
    ASSUME EInv, matching, NEW s, Sound(s), NEW accounts, accounts \subseteq Account
    PROVE  /\ Sound(CancelTiedOf(s, accounts))
           /\ DOMAIN CancelTiedOf(s, accounts).new \subseteq DOMAIN s.new \union {2, 3}
           /\ CancelTiedOf(s, accounts).ledger = s.ledger
           /\ CancelTiedOf(s, accounts).orders = s.orders
<1> DEFINE m == Taker.market
           tied(a) == s.ledger.position[<<a, m>>].tied
           slot(a) == IF a = Taker.owner THEN 3 ELSE 2
           needed == {a \in accounts : tied(a) # 0}
           more == [j \in {slot(a) : a \in needed} |->
                       LET a == CHOOSE b \in needed : slot(b) = j IN CancelTied(a, m, tied(a))]
           both == Over(s.new, more)
           z == CancelTiedOf(s, accounts)
<1>1. z = [s EXCEPT !.new = both]
  BY DEF CancelTiedOf
<1>2. m \in Market /\ needed \subseteq Account
  BY TakerKnown DEF OrderSet
<1>3. DOMAIN more \subseteq {2, 3}
  OBVIOUS
<1>4. ASSUME NEW a \in Account PROVE tied(a) \in Int
  <2>1. s.ledger.position[<<a, m>>] \in Count!RawPositions
    BY <1>2, LedgerShape DEF Sound, World, LedgerFits
  <2> QED BY <2>1 DEF Count!RawPositions
<1>5. ASSUME NEW j \in DOMAIN more
      PROVE  InstructionFits(ask, bid, more[j]) /\ more[j].kind # "insert_order"
  <2> DEFINE a == CHOOSE b \in needed : slot(b) = j
  <2>1. \E b \in needed : slot(b) = j
    OBVIOUS
  <2>2. a \in needed
    BY <2>1
  <2>3. more[j] = CancelTied(a, m, tied(a))
    OBVIOUS
  <2>4. a \in Account
    BY <1>2, <2>2
  <2> HIDE DEF a, more, m, needed
  <2>5. tied(a) \in Int
    BY <1>4, <2>4
  <2> HIDE DEF tied
  <2> DEFINE x == CancelTied(a, m, tied(a))
  <2>6. x \in InstructionSet /\ x.kind = "cancel_position_tied"
    BY <1>2, <2>4, <2>5 DEF CancelTied, InstructionSet
  <2> QED BY <2>3, <2>6 DEF InstructionFits
<1> HIDE DEF more
<1>6. Told(both) /\ DOMAIN both = DOMAIN s.new \union DOMAIN more
  <2>1. DOMAIN more \subseteq 0..7 /\ 4 \notin DOMAIN more
    BY <1>3
  <2> QED BY <1>5, <2>1, ToldMore DEF Sound
<1> HIDE DEF both, z
<1>7. /\ z.ledger = s.ledger /\ z.orders = s.orders /\ z.book = s.book
      /\ z.taker = s.taker /\ z.slack = s.slack /\ z.new = both
      /\ z = [ledger |-> z.ledger, orders |-> z.orders, book |-> z.book, locked |-> z.locked,
              taker |-> z.taker, slack |-> z.slack, new |-> z.new]
  BY <1>1 DEF Sound
<1> QED BY <1>3, <1>6, <1>7 DEF Sound, z

\* The fees to transfer.
Paid(s, fees) == [s EXCEPT !.new = Over(@, [j \in fees |-> Transfer])]

LEMMA FeesSound ==
    ASSUME EInv, matching, NEW s, Sound(s), NEW fees, fees \subseteq {0, 1}
    PROVE  /\ Sound(Paid(s, fees))
           /\ DOMAIN Paid(s, fees).new \subseteq DOMAIN s.new \union {0, 1}
           /\ Paid(s, fees).ledger = s.ledger /\ Paid(s, fees).orders = s.orders
<1> DEFINE more == [j \in fees |-> Transfer]
           both == Over(s.new, more)
           z == Paid(s, fees)
<1>1. z = [s EXCEPT !.new = both]
  BY DEF Sound, Paid
<1>2. Transfer \in InstructionSet /\ Transfer.kind = "transfer_asset"
  BY DEF Transfer, InstructionSet
<1>3. DOMAIN more \subseteq {0, 1} /\ \A j \in DOMAIN more : more[j] = Transfer
  OBVIOUS
<1> HIDE DEF more
<1>4. Told(both) /\ DOMAIN both = DOMAIN s.new \union DOMAIN more
  <2>1. DOMAIN more \subseteq 0..7 /\ 4 \notin DOMAIN more
    BY <1>3
  <2>2. \A j \in DOMAIN more : InstructionFits(ask, bid, more[j])
                               /\ more[j].kind # "insert_order"
    BY <1>2, <1>3 DEF InstructionFits
  <2> QED BY <2>1, <2>2, ToldMore DEF Sound
<1> HIDE DEF both, z
<1>5. /\ z.ledger = s.ledger /\ z.orders = s.orders /\ z.book = s.book
      /\ z.taker = s.taker /\ z.slack = s.slack /\ z.new = both
      /\ z = [ledger |-> z.ledger, orders |-> z.orders, book |-> z.book, locked |-> z.locked,
              taker |-> z.taker, slack |-> z.slack, new |-> z.new]
  BY <1>1 DEF Sound
<1> QED BY <1>3, <1>4, <1>5 DEF Sound, z

\* What is bought with gains is not worth more than they are.
LEMMA QuotientFits ==
    ASSUME NEW x \in Nat, NEW a \in Nat, a > 0, NEW b \in Nat, b <= x \div a
    PROVE  b * a <= x
<1> DEFINE q == x \div a
<1>1. q \in Nat /\ q * a <= x
  OBVIOUS
<1>2. b \in Nat /\ b <= q
  OBVIOUS
<1> HIDE DEF q
<1>3. (q - b) * a >= 0
  <2> DEFINE d == q - b
  <2>1. d \in Nat
    BY <1>1, <1>2
  <2> HIDE DEF d
  <2>2. d * a >= 0
    BY <2>1
  <2> QED BY <2>2 DEF d
<1>4. q * a = (q - b) * a + b * a
  BY <1>1, <1>2
<1>5. q * a \in Int /\ b * a \in Int /\ (q - b) * a \in Int
  BY <1>1, <1>2
<1> QED BY <1>1, <1>3, <1>4, <1>5

\* What is traded: no more than either order has left, and for a taker at market no more
\* than its slack pays for.
LEMMA BaseFits ==
    ASSUME EInv, NEW i \in Index, MayTrade(i)
    PROVE  LET o == orders[i]
               base == Base(o)
           IN  /\ base \in Nat /\ base <= o.rem /\ base <= Taker.rem
               /\ Wanted(o) \in Nat /\ base <= Wanted(o)
               /\ Adverse(o) \in Int
               /\ Taker.type \in MarketTypes => regs[0].slack - base * Adverse(o) >= 0
               /\ o.reduceOnly => base <= Ledger!Abs(Size(o.owner, o.market))
               /\ Taker.reduceOnly => base <= Ledger!Abs(Size(Taker.owner, Taker.market))
<1> DEFINE o == orders[i]
           base == Base(o)
           w == Wanted(o)
           c == Ledger!Abs(Size(o.owner, o.market))
           d == Ledger!Abs(Size(Taker.owner, Taker.market))
           S == {o.rem, Taker.rem} \union
                {Ledger!Abs(Size(x.owner, x.market)) : x \in {y \in {o, Taker} : y.reduceOnly}}
           k == regs[0].slack
           v == Adverse(o)
<1>1. /\ Facing(i) /\ matching /\ o \in OrderSet /\ Taker \in OrderSet
      /\ o.rem \in Nat /\ Taker.rem \in Nat /\ k \in Int /\ k >= 0
  BY FacingFits, TakerKnown DEF MayTrade
<1>2. c \in Nat /\ d \in Nat /\ o.price \in Nat /\ Taker.price \in Nat
  <2>1. /\ o.owner \in Account /\ o.market \in Market /\ Taker.owner \in Account
        /\ Taker.market \in Market /\ o.price \in Nat /\ Taker.price \in Nat
    BY <1>1 DEF OrderSet
  <2> QED BY <2>1, PositionSizeType
<1>3. /\ w = Least(S)
      /\ base = Least({w, Allowed(o)})
      /\ Allowed(o) = IF Slips(o) THEN k \div v ELSE w
      /\ Slips(o) <=> Taker.type \in MarketTypes /\ v > 0
  BY DEF Wanted, Base, Allowed, Slips
<1>4. v \in Int
  BY <1>1, <1>2 DEF Adverse
<1>5. /\ S \subseteq {o.rem, Taker.rem, c, d} /\ o.rem \in S /\ Taker.rem \in S
      /\ (o.reduceOnly => c \in S) /\ (Taker.reduceOnly => d \in S)
  <2> DEFINE R == {y \in {o, Taker} : y.reduceOnly}
  <2>1. /\ R \subseteq {o, Taker}
        /\ (o.reduceOnly => o \in R) /\ (Taker.reduceOnly => Taker \in R)
    OBVIOUS
  <2> HIDE DEF R
  <2>2. S = {o.rem, Taker.rem} \union {Ledger!Abs(Size(x.owner, x.market)) : x \in R}
    BY DEF R
  <2> QED BY <2>1, <2>2
<1> HIDE DEF S, c, d, w, base, v, k
<1>6. /\ w \in Nat /\ w <= o.rem /\ w <= Taker.rem
      /\ (o.reduceOnly => w <= c) /\ (Taker.reduceOnly => w <= d)
  <2> DEFINE e == o.rem
             f == Taker.rem
             x == o.reduceOnly
             y == Taker.reduceOnly
  <2>1. /\ e \in Nat /\ f \in Nat /\ S \subseteq {e, f, c, d} /\ e \in S /\ f \in S
        /\ (x => c \in S) /\ (y => d \in S)
    BY <1>1, <1>5
  <2> HIDE DEF e, f, o, x, y
  <2>2. Least(S) \in Nat /\ \A z \in S : Least(S) <= z
    BY <1>2, <2>1, LeastOfFour
  <2> QED BY <1>3, <2>1, <2>2 DEF e, f, x, y
<1>7. Allowed(o) \in Nat
  <2>1. CASE Slips(o)
    BY <1>1, <1>3, <1>4, <2>1
  <2>2. CASE ~Slips(o)
    BY <1>3, <1>6, <2>2
  <2> QED BY <2>1, <2>2
<1>8. base \in Nat /\ base <= w /\ base <= Allowed(o)
  BY <1>3, <1>6, <1>7, LeastOfTwo
<1>9. base \in Nat /\ base <= o.rem /\ base <= Taker.rem
  BY <1>1, <1>6, <1>8
<1>10. ASSUME Taker.type \in MarketTypes PROVE k - base * v >= 0
  <2>1. CASE v > 0
    <3>1. base <= k \div v /\ k \in Nat /\ v \in Nat
      BY <1>1, <1>3, <1>4, <1>8, <1>10, <2>1
    <3>2. base * v <= k
      BY <1>8, <2>1, <3>1, QuotientFits
    <3>3. base * v \in Int
      BY <1>4, <1>8
    <3> QED BY <1>1, <3>2, <3>3
  <2>2. CASE v <= 0
    <3> DEFINE u == 0 - v
    <3>1. u \in Nat /\ v = 0 - u
      BY <1>4, <2>2
    <3> HIDE DEF u
    <3>2. base * u >= 0 /\ base * u \in Int
      BY <1>8, <3>1
    <3>3. base * v = 0 - base * u
      BY <1>8, <3>1
    <3> QED BY <1>1, <3>2, <3>3
  <2> QED BY <1>4, <2>1, <2>2
<1>11. (o.reduceOnly => base <= c) /\ (Taker.reduceOnly => base <= d)
  BY <1>2, <1>6, <1>8
<1> QED BY <1>4, <1>6, <1>8, <1>9, <1>10, <1>11 DEF base, w, v, k, c, d

\* The two positions a trade of perps moves.
Moved(i) ==
    LET o     == orders[i]
        m     == Taker.market
        base  == Base(o)
        delta == IF Taker.isAsk THEN -base ELSE base
    IN  IF m \in Perps
        THEN Ledger!Move(Ledger!Move(ledger, Taker.owner, m, delta), o.owner, m, -delta)
        ELSE ledger

LEMMA MovedFits ==
    ASSUME EInv, NEW i \in Index, MayTrade(i), NEW O, LedgerFits(ledger, O)
    PROVE  /\ LedgerFits(Moved(i), O)
           /\ SameMarkets(ledger, Moved(i))
           /\ Taker.market \in Perps => LET base  == Base(orders[i])
                  delta == IF Taker.isAsk THEN -base ELSE base
                  m == Taker.market
              IN  /\ SizeIn(Moved(i), Taker.owner, m) = SizeIn(ledger, Taker.owner, m) + delta
                  /\ SizeIn(Moved(i), orders[i].owner, m)
                         = SizeIn(ledger, orders[i].owner, m) - delta
<1> DEFINE o == orders[i]
           m == Taker.market
           base == Base(o)
           delta == IF Taker.isAsk THEN -base ELSE base
           L1 == Ledger!Move(ledger, Taker.owner, m, delta)
           L2 == Ledger!Move(L1, o.owner, m, -delta)
<1>1. /\ Facing(i) /\ matching /\ o \in OrderSet /\ Taker \in OrderSet /\ base \in Nat
      /\ ledger.market[m].status = Ledger!Active /\ o.owner # Taker.owner
  BY FacingFits, TakerKnown, BaseFits DEF MayTrade
<1>2. /\ o.owner \in Account /\ m \in Market /\ Taker.owner \in Account
      /\ ledger.market[m].status # Ledger!Expired
  BY <1>1 DEF OrderSet, Ledger!Active, Ledger!Expired
<1> HIDE DEF base
<1>3. delta \in Int /\ -delta \in Int
  BY <1>1
<1>4. Moved(i) = IF m \in Perps THEN L2 ELSE ledger
  BY DEF Moved, base
<1>5. CASE m \notin Perps
  BY <1>4, <1>5 DEF SameMarkets
<1>6. CASE m \in Perps
  <2> HIDE DEF delta, m, o
  <2>1. /\ LedgerFits(L1, O) /\ SameMarkets(ledger, L1)
        /\ SizeIn(ledger, Taker.owner, m) \in Int
        /\ \A b \in Account, n \in Market :
              SizeIn(L1, b, n) = IF <<b, n>> = <<Taker.owner, m>>
                                 THEN SizeIn(ledger, Taker.owner, m) + delta
                                 ELSE SizeIn(ledger, b, n)
    BY <1>2, <1>3, <1>6, MoveFits
  <2> HIDE DEF L1
  <2>2. L1.market[m].status # Ledger!Expired
    BY <1>2, <2>1 DEF SameMarkets
  <2>3. /\ LedgerFits(L2, O) /\ SameMarkets(L1, L2)
        /\ SizeIn(L1, o.owner, m) \in Int
        /\ \A b \in Account, n \in Market :
              SizeIn(L2, b, n) = IF <<b, n>> = <<o.owner, m>>
                                 THEN SizeIn(L1, o.owner, m) + -delta
                                 ELSE SizeIn(L1, b, n)
    BY SMTT(30), <1>2, <1>3, <1>6, <2>1, <2>2, MoveFits
  <2> HIDE DEF L2
  <2>4. <<o.owner, m>> # <<Taker.owner, m>>
    BY <1>1 DEF o
  <2>5. /\ SizeIn(L1, o.owner, m) = SizeIn(ledger, o.owner, m)
        /\ SizeIn(L1, Taker.owner, m) = SizeIn(ledger, Taker.owner, m) + delta
    BY <1>2, <2>1, <2>4
  <2>6. /\ SizeIn(L2, o.owner, m) = SizeIn(ledger, o.owner, m) - delta
        /\ SizeIn(L2, Taker.owner, m) = SizeIn(ledger, Taker.owner, m) + delta
    BY <1>2, <1>3, <2>3, <2>4, <2>5
  <2>7. SameMarkets(ledger, L2)
    BY <2>1, <2>3 DEF SameMarkets
  <2> QED BY <1>4, <1>6, <2>3, <2>6, <2>7 DEF delta, m, o, base
<1> QED BY <1>5, <1>6

\* Both orders shrink and the positions move.
LEMMA TradeSound ==
    ASSUME EInv, NEW i \in Index, MayTrade(i), NEW s,
           s = [Shrink(Start, i, Base(orders[i])) EXCEPT
                   !.ledger = Moved(i),
                   !.slack = IF Taker.type \in MarketTypes
                             THEN @ - Base(orders[i]) * Adverse(orders[i]) ELSE @]
    PROVE  /\ Sound(s) /\ DOMAIN s.new = {} /\ s.ledger = Moved(i)
           /\ s.orders = [orders EXCEPT ![i] = [orders[i] EXCEPT !.rem = @ - Base(orders[i])]]
           /\ s.orders[i] # NoOrder
<1> DEFINE base == Base(orders[i])
           q == Shrink(Start, i, base)
           v == Adverse(orders[i])
           k == IF Taker.type \in MarketTypes THEN regs[0].slack - base * v ELSE regs[0].slack
           L == Moved(i)
<1>1. /\ Facing(i) /\ matching /\ base \in Nat /\ base <= orders[i].rem /\ base <= Taker.rem
      /\ v \in Int
      /\ Taker.type \in MarketTypes => regs[0].slack - base * v >= 0
  BY BaseFits, FacingFits DEF MayTrade
<1>2. regs[0].slack \in Int /\ regs[0].slack >= 0
  BY <1>1, TakerKnown
<1> HIDE DEF base, v
<1>3. k \in Int /\ k >= 0
  <2>1. base * v \in Int
    BY <1>1
  <2> QED BY <1>1, <1>2, <2>1
<1>4. /\ Sound(q) /\ q.new = Nothing /\ DOMAIN q.new = {} /\ q.ledger = ledger
      /\ q.slack = regs[0].slack
      /\ q.orders = [orders EXCEPT ![i] = [orders[i] EXCEPT !.rem = @ - base]]
      /\ q.orders[i] # NoOrder
  BY <1>1, ShrinkSound
<1> HIDE DEF q
<1>5. s = [q EXCEPT !.ledger = L, !.slack = k]
  <2>1. s = [q EXCEPT !.ledger = L,
                      !.slack = IF Taker.type \in MarketTypes THEN @ - base * v ELSE @]
    BY DEF q, base, v
  <2> HIDE DEF L
  <2> QED BY <1>4, <2>1 DEF Sound
<1>6. LedgerFits(L, q.orders) /\ SameMarkets(ledger, L)
  <2>1. LedgerFits(ledger, q.orders)
    BY <1>4 DEF Sound, World
  <2> QED BY <2>1, MovedFits
<1> HIDE DEF k, L
<1>7. /\ s.ledger = L /\ s.orders = q.orders /\ s.book = q.book
      /\ s.taker = q.taker /\ s.slack = k /\ s.new = q.new
      /\ s = [ledger |-> s.ledger, orders |-> s.orders, book |-> s.book, locked |-> s.locked,
              taker |-> s.taker, slack |-> s.slack, new |-> s.new]
  BY <1>4, <1>5 DEF Sound
<1>8. World(s.ledger, s.orders, s.book, ask, bid)
  BY <1>4, <1>6, <1>7 DEF Sound, World
<1>9. StayOpen(ledger, s.ledger)
  BY <1>6, <1>7, SameWorld, StillOpen
<1>10. Sound(s)
  BY <1>3, <1>4, <1>7, <1>8, <1>9 DEF Sound
<1> QED BY <1>4, <1>7, <1>10 DEF L, base

LEMMA TradeKeeps ==
    ASSUME EInv, NEW i \in Index, NEW healed \in BOOLEAN, NEW fees \in SUBSET {0, 1},
           Trade(i, healed, fees)
    PROVE  EInv'
<1> DEFINE o == orders[i]
           m == Taker.market
           sides == {o.owner, Taker.owner}
           moved == Moved(i)
           s == [Shrink(Start, i, Base(o)) EXCEPT
                    !.ledger = Moved(i),
                    !.slack = IF Taker.type \in MarketTypes
                              THEN @ - Base(o) * Adverse(o) ELSE @]
           who == TradeDrops(s, i, Slips(o) /\ Base(o) = Allowed(o) /\ Allowed(o) # Wanted(o),
                             healed)
           flipped == {a \in sides : Sign(Size(a, m)) # Sign(moved.position[<<a, m>>].size)}
           dropped == Drop(s, i, who)
           final == CancelTiedOf(dropped, flipped)
           z == Paid(final, fees)
<1>1. MayTrade(i) /\ Settle(z, "taker" \in who)
  BY DEF Trade, Moved, Paid
<1>2. /\ Facing(i) /\ matching /\ Taker.trigger = "na"
      /\ sides \subseteq Account
  <2>1. Facing(i) /\ o \in OrderSet /\ Taker \in OrderSet
    BY <1>1, FacingFits DEF MayTrade
  <2> QED BY <2>1, FacingFits DEF OrderSet
<1>3. flipped \subseteq Account
  BY <1>2
<1>4. Sound(s) /\ DOMAIN s.new = {} /\ s.orders[i] # NoOrder
  BY <1>1, TradeSound
<1> HIDE DEF s, who, flipped
<1>5. Sound(dropped) /\ ("taker" \notin who => 4 \notin DOMAIN dropped.new)
  BY <1>2, <1>4, DropSound
<1> HIDE DEF dropped
<1>6. Sound(final) /\ DOMAIN final.new \subseteq DOMAIN dropped.new \union {2, 3}
  BY <1>2, <1>3, <1>5, TiedSound
<1> HIDE DEF final
<1>7. Sound(z) /\ DOMAIN z.new \subseteq DOMAIN final.new \union {0, 1}
  BY <1>2, <1>6, FeesSound
<1> HIDE DEF z
<1>8. "taker" \notin who => 4 \notin DOMAIN z.new
  BY <1>5, <1>6, <1>7
<1> QED BY <1>1, <1>2, <1>7, <1>8, SettleDropped

LEMMA ExecuteMatchingKeeps == ASSUME EInv, ExecuteMatching PROVE EInv'
<1>1. CASE InsertWaiting
  BY <1>1, InsertWaitingKeeps
<1>2. CASE DropInvalidTaker
  BY <1>2, DropInvalidTakerKeeps
<1>3. CASE DropUnmatched
  BY <1>3, DropUnmatchedKeeps
<1>4. CASE Rest
  BY <1>4, RestKeeps
<1>5. ASSUME NEW i \in Index, DropWithoutTrade(i) PROVE EInv'
  BY <1>5, DropWithoutTradeKeeps
<1>6. ASSUME NEW i \in Index, ReduceBoth(i) PROVE EInv'
  BY <1>6, ReduceBothKeeps
<1>7. ASSUME NEW i \in Index, DropSlipped(i) PROVE EInv'
  BY <1>7, DropSlippedKeeps
<1>8. ASSUME NEW i \in Index, NEW who, Reject(i, who) PROVE EInv'
  BY <1>8, RejectKeeps
<1>9. ASSUME NEW i \in Index, NEW healed \in BOOLEAN, NEW fees \in SUBSET {0, 1},
             Trade(i, healed, fees)
      PROVE  EInv'
  BY <1>9, TradeKeeps
<1> QED BY <1>1, <1>2, <1>3, <1>4, <1>5, <1>6, <1>7, <1>8, <1>9 DEF ExecuteMatching

-----------------------------------------------------------------------------
(* The specification.                                                                   *)

\* Transactions of users.
LEMMA UsersKeep == ASSUME EInv, Users PROVE EInv'
<1>1. ASSUME NEW r \in Request, CreateOrder(r) \/ L1CreateOrder(r) PROVE EInv'
  BY <1>1, CreateOrderKeeps, L1CreateOrderKeeps
<1>2. ASSUME NEW g \in Group, CreateGroupedOrders(g) PROVE EInv'
  BY <1>2, CreateGroupedOrdersKeeps
<1>3. ASSUME NEW i \in Index, NEW c \in Change, ModifyOrder(i, c) PROVE EInv'
  BY <1>3, ModifyOrderKeeps
<1>4. ASSUME NEW i \in Index, CancelOrder(i) PROVE EInv'
  BY <1>4, CancelOrderKeeps
<1>5. ASSUME NEW a \in Account, CancelAllOrders(a) \/ L1CancelAllOrders(a) PROVE EInv'
  BY <1>5, CancelAllOrdersKeeps DEF L1CancelAllOrders
<1>6. ASSUME NEW a \in Account, NEW time \in Schedules, ScheduleCancelAll(a, time) PROVE EInv'
  BY <1>6, ScheduleKeeps
<1>7. ASSUME NEW a \in Account, NEW m \in Market, CancelMarketOrders(a, m) PROVE EInv'
  BY <1>7, CancelMarketOrdersKeeps
<1>8. ASSUME NEW m \in Market, ExpireMarket(m) PROVE EInv'
  BY <1>8, ExpireMarketKeeps
<1> QED BY <1>1, <1>2, <1>3, <1>4, <1>5, <1>6, <1>7, <1>8 DEF Users

\* Transactions of the rollup.
LEMMA RollupKeeps == ASSUME EInv, Rollup PROVE EInv'
<1>1. ASSUME NEW i \in Index, CancelDeadOrder(i) \/ DropHopeless(i) \/ TriggerOrder(i)
      PROVE  EInv'
  BY <1>1, CancelDeadOrderKeeps, DropHopelessKeeps, TriggerOrderKeeps
<1>2. ASSUME NEW i \in Index, NEW size \in 0..MaxPosition, NEW price \in RollupPrice,
             SliceTwap(i, size, price)
      PROVE  EInv'
  BY <1>2, SliceTwapKeeps
<1>3. ASSUME NEW a \in Account, CancelAllByDms(a) PROVE EInv'
  BY <1>3, CancelAllByDmsKeeps
<1>4. ASSUME NEW a \in Account, NEW m \in Market, CancelAllInLiquidation(a, m) PROVE EInv'
  BY <1>4, CancelAllInLiquidationKeeps
<1>5. ASSUME NEW a \in Account, NEW m \in Market, NEW size \in 1..MaxPosition,
             NEW price \in RollupPrice, LiquidatePosition(a, m, size, price)
      PROVE  EInv'
  BY <1>5, LiquidatePositionKeeps
<1>6. ASSUME NEW a \in Account, NEW m \in Market, NEW b \in Account, NEW size \in 1..MaxPosition,
             DeleveragePosition(a, b, m, size)
      PROVE  EInv'
  BY <1>6, DeleveragePositionKeeps
<1>7. ASSUME NEW a \in Account, NEW m \in Market, ExitPosition(a, m) PROVE EInv'
  BY <1>7, ExitPositionKeeps
<1> QED BY <1>1, <1>2, <1>3, <1>4, <1>5, <1>6, <1>7 DEF Rollup

\* Internal transactions.
LEMMA FinishKeeps == ASSUME EInv, Finish PROVE EInv'
BY CancelSingleKeeps, CancelOneOfKeeps, TriggerTheChildKeeps, ClaimOrderKeeps, TransferFeeKeeps
   DEF Finish

\* Sums are the same everywhere.
LEMMA SameSum ==
    ASSUME NEW f, NEW S
    PROVE  SumFunctionOnSet(f, S) = Count!SumFunctionOnSet(f, S)
BY DEF SumFunctionOnSet, Count!SumFunctionOnSet, FoldFunctionOnSet, Count!FoldFunctionOnSet,
       MapThenFoldSet, Count!MapThenFoldSet

\* The initial ledger counts no orders and hosts one market in every open slot.
LEMMA OpeningFits ==
    ASSUME NEW start \in Opening, NEW O, O = [i \in Index |-> NoOrder]
    PROVE  LedgerFits(InitialLedger(start), O)
<1> DEFINE L == InitialLedger(start)
           sizes(m) == [a \in Account |-> Ledger!Abs(Size0(start, a, m))]
           total(m) == SumFunctionOnSet(sizes(m), Account)
           open(m) == [Ledger!EmptyMarket EXCEPT !.status = Ledger!Active, !.public = 1,
                                                 !.openInterest = total(m)]
           held(am) == [Ledger!EmptyPosition EXCEPT
                           !.public = 1, !.size = Size0(start, am[1], am[2]),
                           !.mode = IF am \in start.isolated THEN Ledger!Isolated
                                    ELSE Ledger!Cross]
<1>1. /\ L.market = [m \in Market |-> IF m \notin start.open THEN Ledger!EmptyMarket ELSE open(m)]
      /\ L.account = [a \in Account |-> [orders |-> 0, nonCross |-> 0]]
      /\ L.position = [am \in Account \X Market |->
                          IF Hosts(start, am[2]) THEN held(am) ELSE Ledger!EmptyPosition]
      /\ L = [market |-> L.market, account |-> L.account, position |-> L.position]
  BY DEF InitialLedger, Ledger!EmptyLedger
<1>2. ASSUME NEW a \in Account, NEW m \in Market PROVE Size0(start, a, m) \in Int
  BY OpeningAssumption DEF Size0
<1>3. ASSUME NEW m \in Market PROVE total(m) \in Int
  <2>1. \A a \in Account : Ledger!Abs(Size0(start, a, m)) \in Int
    BY <1>2 DEF Ledger!Abs
  <2>2. sizes(m) \in [Account -> Int]
    BY <2>1
  <2> HIDE DEF sizes
  <2> QED BY <2>2, TypeAssumption, SumInt
<1> HIDE DEF total
<1>4. /\ Ledger!EmptyMarket \in Count!RawMarkets
      /\ Ledger!EmptyMarket.orders = 0 /\ Ledger!EmptyMarket.status = Ledger!Expired
  BY DEF Ledger!EmptyMarket, Count!RawMarkets, Count!Modes, Count!Statuses, Ledger!NilPublic,
         Ledger!Cross, Count!Cross, Ledger!Expired, Count!Expired
<1>5. ASSUME NEW m \in Market
      PROVE  /\ open(m) \in Count!RawMarkets /\ open(m).orders = 0 /\ open(m).public = 1
             /\ open(m).status = Ledger!Active /\ open(m).openInterest = total(m)
  <2> DEFINE e == Ledger!EmptyMarket
             n == total(m)
             y == Ledger!Active
             o == [e EXCEPT !.status = y, !.public = 1, !.openInterest = n]
  <2>1. y \in Count!Statuses
    BY DEF Ledger!Active, Count!Statuses, Count!Active
  <2>2. /\ n \in Int /\ n = total(m) /\ y = Ledger!Active
        /\ o = open(m) /\ e \in Count!RawMarkets /\ e.orders = 0 /\ 1 \in 0..1
    BY <1>3, <1>4
  <2> HIDE DEF e, n, y
  <2>3. o \in Count!RawMarkets /\ o.orders = 0 /\ o.public = 1 /\ o.status = y /\ o.openInterest = n
    BY <2>1, <2>2 DEF Count!RawMarkets
  <2> QED BY <2>2, <2>3
<1>6. /\ Ledger!EmptyPosition \in Count!RawPositions
      /\ Ledger!EmptyPosition.orders = 0 /\ Ledger!EmptyPosition.tied = 0
      /\ Ledger!EmptyPosition.size = 0
  BY DEF Ledger!EmptyPosition, Count!RawPositions, Count!Modes, Ledger!NilPublic,
         Ledger!Cross, Count!Cross
<1>7. ASSUME NEW am \in Account \X Market
      PROVE  /\ held(am) \in Count!RawPositions
             /\ held(am).orders = 0 /\ held(am).tied = 0 /\ held(am).public = 1
  <2>1. am[1] \in Account /\ am[2] \in Market
    OBVIOUS
  <2>2. Size0(start, am[1], am[2]) \in Int
    BY <1>2, <2>1
  <2>3. Ledger!Isolated \in Count!Modes /\ Ledger!Cross \in Count!Modes
    BY DEF Count!Modes, Ledger!Isolated, Count!Isolated, Ledger!Cross, Count!Cross
  <2> DEFINE e == Ledger!EmptyPosition
             n == Size0(start, am[1], am[2])
             y == IF am \in start.isolated THEN Ledger!Isolated ELSE Ledger!Cross
             o == [e EXCEPT !.public = 1, !.size = n, !.mode = y]
  <2>4. /\ n \in Int /\ o = held(am) /\ e \in Count!RawPositions
        /\ e.orders = 0 /\ e.tied = 0 /\ 1 \in 0..1 /\ y \in Count!Modes
    BY <1>6, <2>2, <2>3
  <2> HIDE DEF e, n, y
  <2>5. o \in Count!RawPositions /\ o.orders = 0 /\ o.tied = 0 /\ o.public = 1
    BY <2>4 DEF Count!RawPositions
  <2> QED BY <2>4, <2>5
<1> HIDE DEF open, held, L
<1>8. /\ \A m \in Market : L.market[m] \in Count!RawMarkets /\ L.market[m].orders = 0
      /\ \A am \in Account \X Market :
            /\ L.position[am] \in Count!RawPositions
            /\ L.position[am].orders = 0 /\ L.position[am].tied = 0
            /\ L.position[am].size # 0 => L.position[am].public = 1
      /\ \A a \in Account : L.account[a].orders = 0 /\ L.account[a].nonCross = 0
  BY <1>1, <1>4, <1>5, <1>6, <1>7
<1>9. L \in Count!RawLedgers
  <2>1. L.market \in [Market -> Count!RawMarkets] /\ L.position \in [Account \X Market -> Count!RawPositions]
        /\ L.account \in [Account -> [orders : Int, nonCross : Int]]
    BY <1>1, <1>8
  <2> QED BY <1>1, <2>1 DEF Count!RawLedgers
<1>10. \A i \in Index : O[i] = NoOrder
  OBVIOUS
<1>11. Count!IsOrders(O) /\ Count!LiveIn(L, O)
  BY <1>10 DEF Count!IsOrders, Count!LiveIn
<1>12. Count!CountsIn(L, O)
  <2>1. /\ \A m : Count!OfMarketIn(O, m) = {}
        /\ \A a : Count!OfAccountIn(O, a) = {} /\ Count!NonCrossIn(L, O, a) = {}
        /\ \A a, m : Count!OfPositionIn(O, a, m) = {} /\ Count!TiedToIn(O, a, m) = {}
    BY <1>10 DEF Count!OfMarketIn, Count!OfAccountIn, Count!NonCrossIn, Count!OfPositionIn,
                 Count!TiedToIn
  <2>2. Count!Cardinality({}) = 0
    BY SmallSets, SameCardinality
  <2>3. \A a \in Account, m \in Perps : <<a, m>> \in Account \X Market
    BY Constants
  <2> QED BY <1>8, <2>1, <2>2, <2>3, Constants DEF Count!CountsIn
<1>13. Count!NoSpotIn(L)
  <2>1. ASSUME NEW a \in Account, NEW m \in Market \ Perps
        PROVE  L.position[<<a, m>>] = Count!EmptyPosition
    <3>1. <<a, m>> \in Account \X Market /\ ~Hosts(start, <<a, m>>[2])
      BY DEF Hosts
    <3> QED BY <1>1, <3>1, SameEmpty
  <2> QED BY <2>1 DEF Count!NoSpotIn
<1>14. PositionsFit(L)
  <2>1. ASSUME NEW m \in Market, L.market[m].status # Ledger!Expired
        PROVE  L.market[m].public = 1
    BY <1>1, <1>4, <1>5, <2>1
  <2> QED BY <1>8, <2>1 DEF PositionsFit
<1>15. MarketsFit(L)
  <2> SUFFICES ASSUME NEW m \in Market PROVE MarketFits(L, m)
    BY DEF MarketsFit
  <2>1. \A a \in Account : L.position[<<a, m>>].size = Size0(start, a, m)
    <3>1. \A a \in Account : held(<<a, m>>).size = Size0(start, a, m)
      BY <1>6 DEF held, Count!RawPositions
    <3> QED BY <1>1, <1>6, <3>1 DEF Size0
  <2>2. Count!Holdings(L, m) = sizes(m)
    BY <2>1, SameEmpty DEF Count!Holdings, Count!Sizes, sizes
  <2>3. Count!Held(L, m) = total(m)
    BY <2>2, SameSum DEF total, Count!Held
  <2>4. CASE m \in start.open
    <3>1. L.market[m].status = Ledger!Active /\ L.market[m].openInterest = total(m)
      BY <1>1, <1>5, <2>4
    <3> QED BY <2>3, <3>1 DEF MarketFits, Ledger!Active, Ledger!Expired
  <2>5. CASE m \notin start.open
    <3>1. L.market[m] = Ledger!EmptyMarket
      BY <1>1, <2>5
    <3>2. L.market[m].openInterest = 0 /\ L.market[m].orders = 0
      BY <3>1 DEF Ledger!EmptyMarket
    <3>3. \A a \in Account : sizes(m)[a] = 0
      BY <2>5 DEF sizes, Size0, Hosts, Ledger!Abs
    <3>4. total(m) = 0
      BY <3>3, TypeAssumption, SumZeros DEF total
    <3> QED BY <2>3, <3>2, <3>4 DEF MarketFits
  <2> QED BY <2>4, <2>5
<1> QED BY <1>9, <1>11, <1>12, <1>13, <1>14, <1>15 DEF LedgerFits, Count!Counted, L

LEMMA InitFits == Init => EInv
<1> SUFFICES ASSUME Init PROVE EInv
  OBVIOUS
<1>1. PICK start \in Opening :
          ledger = InitialLedger(start) /\ ask = [m \in Market |-> start.ask]
  BY DEF Init
<1>2. /\ orders = [i \in Index |-> NoOrder] /\ book = {}
      /\ bid = [m \in Market |-> MaxNonce]
      /\ now = 1 /\ regs = Stack!EmptyStack /\ count = 0 /\ matching = FALSE
  BY DEF Init
<1>3. LedgerFits(ledger, orders)
  BY <1>1, <1>2, OpeningFits
<1>4. NoncesFit(ask, bid)
  <2>1. start.ask \in FirstAsk .. MaxNonce
    BY OpeningAssumption
  <2> QED BY <1>1, <1>2, <2>1, Constants DEF NoncesFit
<1>5. \A i \in Index : orders[i] = NoOrder
  BY <1>2
<1>6. OrdersFit(ask, bid, orders) /\ RestingApart(orders)
  BY <1>2, <1>5 DEF OrdersFit, RestingApart, IsResting
<1>7. BookFits(orders, book) /\ NotCrossed(book)
  BY <1>2, <1>5 DEF BookFits, NotCrossed, IsResting
<1>8. Shift!NoHolesIn(regs, 0)
  BY <1>2 DEF Shift!NoHolesIn, Stack!EmptyStack, Stack!Slots, Shift!Slots, Depth
<1>9. Piled(ledger, orders, ask, bid, regs, count)
  BY <1>2, <1>8, PiledEmpty
<1>10. now \in 1..MaxTime
  BY <1>2, EngineAssumption
<1> QED BY <1>2, <1>3, <1>4, <1>6, <1>7, <1>9, <1>10 DEF EInv, World

LEMMA NextFits == EInv /\ [Next]_vars => EInv'
<1> SUFFICES ASSUME EInv, [Next]_vars PROVE EInv'
  OBVIOUS
<1>1. CASE UNCHANGED vars
  BY <1>1 DEF vars, EInv
<1> QED BY <1>1, UsersKeep, RollupKeeps, FinishKeeps, ExecuteMatchingKeeps, TickKeeps DEF Next

THEOREM EngineInvariant == Spec => []EInv
BY InitFits, NextFits, PTL DEF Spec

\* The registers below the count are the ones in use, for any accounts, markets and
\* requests: every transaction keeps the contract of push_instruction_stack.
THEOREM RegistersHaveNoHoles == Spec => []StackHasNoHoles
<1>1. EInv => StackHasNoHoles
  <2> SUFFICES ASSUME EInv PROVE StackHasNoHoles
    OBVIOUS
  <2>1. Shift!NoHolesIn(regs, count)
    BY DEF EInv, Piled, StackFits
  <2>2. \A j \in 0..8 : regs[j] # Execute <=> j < count
    BY <2>1, StackShape
  <2> QED BY <2>2 DEF StackHasNoHoles, Depth
<1> QED BY <1>1, EngineInvariant, PTL

\* What is below the count is an instruction.
LEMMA InsertsAre ==
    ASSUME EInv
    PROVE  Inserts = {regs[j] : j \in {k \in 0..count - 1 : regs[k].kind = "insert_order"}}
<1>1. \A j \in 0..count - 1 : regs[j] # Execute
  BY TypeAssumption DEF EInv, Piled, StackFits, InstructionFits
<1> QED BY <1>1 DEF Inserts, Pending

\* No order is in two places, among the account orders and on the stack, whatever is
\* modified, triggered, sliced and matched: a second copy could trade and cancel twice.
THEOREM OrdersAreInOnePlace == Spec => []InOnePlace
<1>1. EInv => InOnePlace
  <2> SUFFICES ASSUME EInv PROVE InOnePlace
    OBVIOUS
  <2>1. PlacesApart(orders, regs, count)
    BY DEF EInv, Piled
  <2>2. ASSUME NEW x \in Inserts PROVE ~Exists(x.index)
    BY <2>1, <2>2, InsertsAre DEF PlacesApart, Exists
  <2>3. ASSUME NEW j \in 0..count - 1, NEW k \in 0..count - 1,
               regs[j] \in Inserts, regs[k] \in Inserts, regs[j].index = regs[k].index
        PROVE  j = k
    <3>1. regs[j].kind = "insert_order" /\ regs[k].kind = "insert_order"
      BY <2>3 DEF Inserts
    <3> QED BY <2>1, <2>3, <3>1 DEF PlacesApart
  <2> QED BY <2>2, <2>3 DEF InOnePlace
<1> QED BY <1>1, EngineInvariant, PTL

\* The counts of the market, account and position leaves are those of the orders, under
\* every transaction of the exchange and every branch of the matching engine.
THEOREM ExchangeCountsAreExact == Spec => []CountsMatch
<1>1. EInv => CountsMatch
  <2> SUFFICES ASSUME EInv PROVE Ledger!CountsMatch
    BY DEF CountsMatch
  <2>1. Count!CountsIn(ledger, orders)
    BY DEF EInv, World, LedgerFits, Count!Counted
  <2>2. /\ \A m : Ledger!OfMarket(m) = Count!OfMarketIn(orders, m)
        /\ \A a : Ledger!OfAccount(a) = Count!OfAccountIn(orders, a)
        /\ \A a, m : Ledger!OfPosition(a, m) = Count!OfPositionIn(orders, a, m)
        /\ \A a, m : Ledger!TiedTo(a, m) = Count!TiedToIn(orders, a, m)
    BY DEF Ledger!OfMarket, Count!OfMarketIn, Ledger!OfAccount, Count!OfAccountIn,
           Ledger!OfPosition, Count!OfPositionIn, Ledger!TiedTo, Count!TiedToIn,
           Ledger!IsTied, Count!IsTied
  <2>3. \A a : Ledger!NonCrossOf(a) = Count!NonCrossIn(ledger, orders, a)
    BY <2>2 DEF Ledger!NonCrossOf, Count!NonCrossIn, Ledger!Isolated, Count!Isolated
  <2> QED BY <2>1, <2>2, <2>3, SameCardinality DEF Ledger!CountsMatch, Count!CountsIn
<1> QED BY <1>1, EngineInvariant, PTL

\* No count is taken below zero, nothing remains of an order that was more than the order,
\* and the asks' nonces never meet the bids'.
THEOREM ExchangeTypeCorrect == Spec => []TypeOK
<1>1. EInv => TypeOK
  <2> SUFFICES ASSUME EInv PROVE TypeOK
    OBVIOUS
  <2>1. ledger \in Ledger!Ledgers
    <3>1. ledger \in Count!Ledgers
      BY InstancesAreSound, Count!CountedLedger DEF EInv, World, LedgerFits
    <3>2. Count!Ledgers = Ledger!Ledgers
      BY DEF Count!Ledgers, Ledger!Ledgers, Count!Markets, Ledger!Markets, Count!Positions,
             Ledger!Positions, Count!Statuses, Ledger!Statuses, Count!Modes, Ledger!Modes,
             Count!Expired, Ledger!Expired, Count!Active, Ledger!Active, Count!InSettlement,
             Ledger!InSettlement, Count!Cross, Ledger!Cross, Count!Isolated, Ledger!Isolated
    <3> QED BY <3>1, <3>2
  <2>2. ASSUME NEW i \in Index, Exists(i)
        PROVE  /\ orders[i].market = i[1]
               /\ 0 <= orders[i].rem /\ orders[i].rem <= orders[i].initial
               /\ orders[i].nonce \in 0..MaxNonce
    <3>1. OrderFits(ask, bid, i, orders[i])
      BY <2>2 DEF Exists, EInv, World, OrdersFit
    <3> QED BY <3>1 DEF OrderFits, OrderSet
  <2>3. \A m \in Market : FirstAsk <= ask[m] /\ ask[m] <= bid[m] /\ bid[m] <= MaxNonce
    BY DEF EInv, World, NoncesFit
  <2>4. count \in 0..Depth
    BY StackShape DEF EInv, Piled, StackFits, Depth
  <2>5. now \in 1..MaxTime
    BY DEF EInv
  <2> QED BY <2>1, <2>2, <2>3, <2>4, <2>5 DEF TypeOK
<1> QED BY <1>1, EngineInvariant, PTL

\* The two trees agree, whatever rests, trades, is modified and cancelled: an order that
\* does not wait has its leaf, of its remaining size, and no leaf is left by an order that
\* is gone; the leaves are not shared, for a nonce of a side is given out once.
THEOREM LeavesAreOrders == Spec => []BookMatchesOrders
<1>1. EInv => BookMatchesOrders
  <2> SUFFICES ASSUME EInv PROVE BookMatchesOrders
    OBVIOUS
  <2> DEFINE filled == {i \in RestingOrders : orders[i].rem = 0}
             open == RestingOrders \ filled
             place(i) == <<orders[i].market, orders[i].price, orders[i].nonce>>
             f == [i \in open |-> place(i)]
  <2>1. BookFits(orders, book) /\ RestingApart(orders)
    BY DEF EInv, World
  <2>2. open = {k \in Index : IsResting(orders, k) /\ orders[k].rem # 0}
    BY DEF RestingOrders, Exists, IsResting
  <2>3. book = {Leaf(orders[i]) : i \in open}
    <3> HIDE DEF open
    <3> QED BY <2>1, <2>2 DEF BookFits
  <2>4. ASSUME NEW i \in open, NEW k \in open, f[i] = f[k] PROVE i = k
    <3>1. orders[i].market = orders[k].market /\ orders[i].nonce = orders[k].nonce
      BY <2>4
    <3>2. i \in Index /\ k \in Index /\ IsResting(orders, i) /\ IsResting(orders, k)
      BY <2>2
    <3> QED BY <2>1, <3>1, <3>2 DEF RestingApart
  <2>5. IsInjective(f)
    <3>1. DOMAIN f = open
      OBVIOUS
    <3> HIDE DEF f, open
    <3> QED BY <2>4, <3>1 DEF IsInjective
  <2> QED BY <2>3, <2>5 DEF BookMatchesOrders
<1> QED BY <1>1, EngineInvariant, PTL

\* No bid of the book meets an ask: what rests has nothing better facing it, and a
\* maker that is dropped leaves nothing behind that would cross.
THEOREM BooksNeverCross == Spec => []BookNotCrossed
<1>1. EInv => BookNotCrossed
  BY DEF EInv, World, NotCrossed, BookNotCrossed
<1> QED BY <1>1, EngineInvariant, PTL

\* An order at market never pays more than its size at its own price, in however many
\* steps it is matched.
THEOREM SlippageIsBounded == Spec => []WithinSlippage
<1>1. EInv => WithinSlippage
  <2> SUFFICES ASSUME EInv, NEW x \in Inserts PROVE x.slack >= 0
    BY DEF WithinSlippage
  <2>1. PICK j \in 0..count - 1 : x = regs[j] /\ x.kind = "insert_order"
    BY InsertsAre
  <2> QED BY <2>1 DEF EInv, Piled, StackFits, InstructionFits
<1> QED BY <1>1, EngineInvariant, PTL

\* A slot without a market is quiet: no order is left on it or waits on the stack for it,
\* nobody has a position on it, and it has no leaf in the book, however the market that
\* closed was drained.  The next one to be created on it meets nothing.
THEOREM ReleasedSlotsAreQuiet == Spec => []ReleasedSlotIsQuiet
<1>1. EInv => ReleasedSlotIsQuiet
  <2> SUFFICES ASSUME EInv, NEW m \in Market, ledger.market[m].status = Ledger!Expired
               PROVE  /\ \A i \in LiveOrders : i[1] # m
                      /\ \A a \in Account : Size(a, m) = 0
                      /\ \A l \in book : l.market # m
    BY DEF ReleasedSlotIsQuiet
  <2>1. ASSUME NEW i \in Index, Exists(i) PROVE i[1] # m /\ orders[i].market = i[1]
    <3>1. OrderFits(ask, bid, i, orders[i])
      BY <2>1 DEF Exists, EInv, World, OrdersFit
    <3>2. orders[i] \in OrderSet /\ orders[i].market = i[1]
      BY <3>1 DEF OrderFits
    <3> QED BY <2>1, <3>2, Occupied DEF Exists, EInv, World
  <2>2. ASSUME NEW x \in Inserts PROVE x.index[1] # m
    <3>1. PICK j \in 0..count - 1 : x = regs[j] /\ x.kind = "insert_order"
      BY InsertsAre
    <3>2. x.order.market = x.index[1]
      BY <3>1 DEF EInv, Piled, StackFits, InstructionFits, OrderFits
    <3>3. ledger.market[x.order.market].status = Ledger!Active
      BY <3>1 DEF EInv, Piled, MarketsOpen
    <3> QED BY <3>2, <3>3 DEF Ledger!Active, Ledger!Expired
  <2>3. ASSUME NEW a \in Account PROVE Size(a, m) = 0
    <3>1. ledger \in Count!RawLedgers /\ Count!Held(ledger, m) = 0
      BY DEF EInv, World, LedgerFits, MarketsFit, MarketFits, Count!Counted
    <3> QED BY <3>1, InstancesAreSound, Count!NothingHeld DEF Size
  <2>4. ASSUME NEW l \in book PROVE l.market # m
    <3>1. PICK i \in Index : IsResting(orders, i) /\ l = Leaf(orders[i])
      BY DEF EInv, World, BookFits
    <3>2. l.market = orders[i].market
      BY <3>1 DEF Leaf
    <3> QED BY <2>1, <3>1, <3>2 DEF IsResting, Exists
  <2> QED BY <2>1, <2>2, <2>3, <2>4 DEF LiveOrders
<1> QED BY <1>1, EngineInvariant, PTL

-----------------------------------------------------------------------------
(* What a step of the matching engine does to positions.                                *)

\* Storing the taker moves no position.
LEMMA InsertTakerMovesNothing ==
    ASSUME EInv, matching, Settle(InsertTaker(Start), TRUE)
    PROVE  SameSizes(ledger, ledger')
<1> DEFINE t == Taker
           L == Ledger!Increment(ledger, t)
<1>1. /\ LedgerFits(ledger, orders) /\ Index0 \in Index /\ t \in OrderSet
      /\ orders[Index0] = NoOrder /\ ledger.market[t.market].status = Ledger!Active
  BY TakerKnown DEF World
<1>2. ledger.market[t.market].status # Ledger!Expired
  BY <1>1 DEF Ledger!Active, Ledger!Expired
<1>3. SameSizes(ledger, L)
  BY <1>1, <1>2, StoreFits
<1>4. InsertTaker(Start).ledger = L
  <2>1. Start = [ledger |-> ledger, orders |-> orders, book |-> book, locked |-> locked,
                 taker |-> t, slack |-> regs[0].slack, new |-> Nothing]
    BY DEF Start
  <2> HIDE DEF t
  <2>2. Start.ledger = ledger /\ Start.taker = t
    BY <2>1
  <2> DEFINE b == IF t.trigger = "na" THEN Resting(Start.book, t) ELSE Start.book
             k == IF t.trigger = "na" THEN Lock(Start.locked, t, t.rem) ELSE Start.locked
  <2>3. InsertTaker(Start) = [Start EXCEPT !.ledger = L, !.orders[Index0] = t, !.book = b,
                                           !.locked = k]
    BY <2>2 DEF InsertTaker
  <2> HIDE DEF L, b, k
  <2> QED BY <2>1, <2>3
<1> HIDE DEF L
<1>5. ledger' = L
  BY <1>4 DEF Settle
<1> QED BY <1>3, <1>5

\* Dropping the taker alone moves none either.
LEMMA DropTakerMovesNothing ==
    ASSUME EInv, matching, Taker.trigger = "na", Settle(DropTaker(Start), TRUE)
    PROVE  SameSizes(ledger, ledger')
<1>1. ledger' = ledger
  BY StartSound, StartOf, DropTakerSound DEF Settle
<1> QED BY <1>1 DEF SameSizes, SameMarkets

LEMMA DropMovesNothing ==
    ASSUME EInv, matching, Taker.trigger = "na", NEW s, Sound(s), s.ledger = ledger,
           NEW i \in Index, s.orders[i] # NoOrder, NEW who, NEW done,
           Settle(Drop(s, i, who), done)
    PROVE  SameSizes(ledger, ledger')
<1>1. SameSizes(s.ledger, Drop(s, i, who).ledger)
  BY DropSound
<1>2. ledger' = Drop(s, i, who).ledger
  BY DEF Settle
<1> QED BY <1>1, <1>2

\* Positions move by trades only: nobody's is touched by an order that rests, is cancelled
\* or is reduced against another of its own account.
LEMMA OnlyTradesMove ==
    ASSUME EInv, ExecuteMatching
    PROVE  \/ SameSizes(ledger, ledger')
           \/ \E i \in Index, healed \in BOOLEAN, fees \in SUBSET {0, 1} :
                 Trade(i, healed, fees)
<1>1. CASE InsertWaiting \/ Rest
  BY <1>1, InsertTakerMovesNothing DEF InsertWaiting, Rest, CanMatch
<1>2. CASE DropInvalidTaker \/ DropUnmatched
  BY <1>2, DropTakerMovesNothing DEF DropInvalidTaker, DropUnmatched, CanMatch
<1>3. ASSUME NEW i \in Index, Facing(i)
      PROVE  /\ matching /\ Taker.trigger = "na" /\ Sound(Start) /\ Start.ledger = ledger
             /\ Start.orders[i] # NoOrder
  BY <1>3, FacingFits, StartSound, StartOf
<1>4. ASSUME NEW i \in Index, DropWithoutTrade(i) PROVE SameSizes(ledger, ledger')
  <2>1. Facing(i)
    BY <1>4 DEF DropWithoutTrade
  <2>2. PICK who : Settle(Drop(Start, i, who), "taker" \in who)
    BY <1>4 DEF DropWithoutTrade
  <2> QED BY <1>3, <2>1, <2>2, DropMovesNothing
<1>5. ASSUME NEW i \in Index, ReduceBoth(i) PROVE SameSizes(ledger, ledger')
  <2> DEFINE size == Least({orders[i].rem, Taker.rem})
             s == Shrink(Start, i, size)
             who == {w \in {"maker", "taker"} :
                         IF w = "maker" THEN s.orders[i].rem = 0 ELSE s.taker.rem = 0}
  <2>1. Facing(i) /\ Settle(Drop(s, i, who), "taker" \in who)
    BY <1>5 DEF ReduceBoth
  <2>2. orders[i].rem \in Nat /\ Taker.rem \in Nat
    BY <2>1, FacingFits
  <2>3. size \in Nat /\ size <= orders[i].rem /\ size <= Taker.rem
    BY <2>2, LeastOfTwo
  <2> HIDE DEF size
  <2>4. Sound(s) /\ s.ledger = ledger /\ s.orders[i] # NoOrder
    BY <2>1, <2>3, ShrinkSound
  <2> HIDE DEF s, who
  <2> QED BY <1>3, <2>1, <2>4, DropMovesNothing
<1>6. ASSUME NEW i \in Index, DropSlipped(i) PROVE SameSizes(ledger, ledger')
  BY <1>3, <1>6, DropTakerMovesNothing DEF DropSlipped, MayTrade
<1>7. ASSUME NEW i \in Index, NEW who, Reject(i, who) PROVE SameSizes(ledger, ledger')
  <2>1. Facing(i) /\ Settle(Drop(Start, i, who), "taker" \in who)
    BY <1>7 DEF Reject, MayTrade
  <2> QED BY <1>3, <2>1, DropMovesNothing
<1> QED BY <1>1, <1>2, <1>4, <1>5, <1>6, <1>7 DEF ExecuteMatching

\* A trade moves the positions of its two owners, and only the maker among the account
\* orders changes.
LEMMA TradeMoves ==
    ASSUME EInv, NEW i \in Index, NEW healed \in BOOLEAN, NEW fees \in SUBSET {0, 1},
           Trade(i, healed, fees)
    PROVE  /\ MayTrade(i)
           /\ SameSizes(Moved(i), ledger')
           /\ \A k \in Index \ {i} : orders'[k] = orders[k]
<1> DEFINE o == orders[i]
           m == Taker.market
           sides == {o.owner, Taker.owner}
           moved == Moved(i)
           s == [Shrink(Start, i, Base(o)) EXCEPT
                    !.ledger = Moved(i),
                    !.slack = IF Taker.type \in MarketTypes
                              THEN @ - Base(o) * Adverse(o) ELSE @]
           who == TradeDrops(s, i, Slips(o) /\ Base(o) = Allowed(o) /\ Allowed(o) # Wanted(o),
                             healed)
           flipped == {a \in sides : Sign(Size(a, m)) # Sign(moved.position[<<a, m>>].size)}
           dropped == Drop(s, i, who)
           final == CancelTiedOf(dropped, flipped)
           z == Paid(final, fees)
<1>1. MayTrade(i) /\ Settle(z, "taker" \in who)
  BY DEF Trade, Moved, Paid
<1>2. /\ Facing(i) /\ matching /\ Taker.trigger = "na"
      /\ sides \subseteq Account
  <2>1. Facing(i) /\ o \in OrderSet /\ Taker \in OrderSet
    BY <1>1, FacingFits DEF MayTrade
  <2> QED BY <2>1, FacingFits DEF OrderSet
<1>3. flipped \subseteq Account
  BY <1>2
<1>4. /\ Sound(s) /\ s.ledger = Moved(i) /\ s.orders[i] # NoOrder
      /\ s.orders = [orders EXCEPT ![i] = [orders[i] EXCEPT !.rem = @ - Base(orders[i])]]
  BY <1>1, TradeSound
<1>5. \A k \in Index \ {i} : s.orders[k] = orders[k]
  <2>1. orders = [j \in Index |-> orders[j]]
    BY DEF EInv, World, OrdersFit
  <2> DEFINE w == [orders[i] EXCEPT !.rem = @ - Base(orders[i])]
  <2>2. s.orders = [orders EXCEPT ![i] = w]
    BY <1>4
  <2> HIDE DEF w, s
  <2> QED BY <2>1, <2>2
<1> HIDE DEF s, who, flipped
<1>6. /\ Sound(dropped) /\ SameSizes(Moved(i), dropped.ledger)
      /\ \A k \in Index \ {i} : dropped.orders[k] = orders[k]
  <2>1. /\ Sound(dropped) /\ SameSizes(s.ledger, dropped.ledger)
        /\ \A k \in Index \ {i} : dropped.orders[k] = s.orders[k]
    <3>1. Sound(s) /\ s.orders[i] # NoOrder
      BY <1>4
    <3> QED BY <1>2, <3>1, DropSound
  <2> HIDE DEF dropped
  <2>2. s.ledger = Moved(i)
    BY <1>4
  <2> QED BY <1>5, <2>1, <2>2
<1> HIDE DEF dropped
<1>7. final.ledger = dropped.ledger /\ final.orders = dropped.orders /\ Sound(final)
  BY <1>2, <1>3, <1>6, TiedSound
<1> HIDE DEF final
<1>8. z.ledger = final.ledger /\ z.orders = final.orders
  <2> DEFINE new == Over(final.new, [j \in fees |-> Transfer])
  <2>1. z = [final EXCEPT !.new = new]
    BY DEF Paid
  <2> HIDE DEF new, z
  <2> QED BY <1>7, <2>1 DEF Sound
<1> HIDE DEF z
<1>9. ledger' = z.ledger /\ orders' = z.orders
  BY <1>1 DEF Settle
<1> QED BY <1>1, <1>6, <1>7, <1>8, <1>9

\* A size that moves towards zero by no more than what it is.
LEMMA MovesTowardsZero ==
    ASSUME NEW x \in Int, NEW b \in Nat, b <= Ledger!Abs(x), NEW isAsk \in BOOLEAN,
           ~Misdirected(x, isAsk)
    PROVE  Shrinks(x, IF isAsk THEN x + -b ELSE x + b)
<1>1. CASE isAsk
  BY <1>1 DEF Misdirected, Shrinks, Ledger!Abs
<1>2. CASE ~isAsk
  BY <1>2 DEF Misdirected, Shrinks, Ledger!Abs
<1> QED BY <1>1, <1>2

\* Who may trade: a maker whose reduce-only order has a position to reduce, and a taker who
\* has one.  The maker of a taker's own master is dropped before, in every mode.
LEMMA TradersReduce ==
    ASSUME EInv, NEW i \in Index, MayTrade(i)
    PROVE  ~InvalidReduceOnly(orders[i]) /\ ~InvalidReduceOnly(Taker)
<1> DEFINE o == orders[i]
<1>1. Facing(i) /\ Dropped(o) = {} /\ o.owner # Taker.owner
  BY DEF MayTrade
<1>2. ~InvalidReduceOnly(Taker)
  BY <1>1 DEF Facing, CanMatch
<1>3. SparesMasters(Taker) /\ Taker.mode \in SelfTradeModes
  BY <1>1, FacingFits, TakerKnown DEF OrderFits, OrderSet
<1>4. ~SelfTrade(o)
  BY <1>1 DEF SelfTrade
<1>5. ~Expired(o)
  BY <1>1, <1>4 DEF Dropped
<1>6. ~MasterTrade(o) \/ Expires(Taker.mode) # {}
  BY <1>3 DEF SparesMasters, MasterTrade, Expires, SelfTradeModes
<1>7. (IF DmsTriggered(o.owner) THEN {"maker"}
       ELSE IF MasterTrade(o) THEN Expires(Taker.mode)
       ELSE IF Taker.tif = PostOnly THEN {"taker"}
       ELSE IF InvalidReduceOnly(o) THEN {"maker"}
       ELSE {}) = {}
  BY <1>1, <1>4, <1>5 DEF Dropped
<1>8. ~InvalidReduceOnly(o)
  BY <1>6, <1>7
<1> QED BY <1>2, <1>8

LEMMA TradeReduces ==
    ASSUME EInv, NEW i \in Index, MayTrade(i), Taker.market \in Perps
    PROVE  /\ Taker.reduceOnly =>
                 Shrinks(Size(Taker.owner, Taker.market),
                         SizeIn(Moved(i), Taker.owner, Taker.market))
           /\ orders[i].reduceOnly =>
                 Shrinks(Size(orders[i].owner, Taker.market),
                         SizeIn(Moved(i), orders[i].owner, Taker.market))
<1> DEFINE o == orders[i]
           m == Taker.market
           base == Base(o)
           delta == IF Taker.isAsk THEN -base ELSE base
           x == Size(Taker.owner, m)
           y == Size(o.owner, m)
<1>1. /\ Facing(i) /\ matching /\ o \in OrderSet /\ Taker \in OrderSet
      /\ o.market = m /\ o.isAsk # Taker.isAsk
  BY FacingFits DEF MayTrade
<1>2. /\ base \in Nat
      /\ o.reduceOnly => base <= Ledger!Abs(y)
      /\ Taker.reduceOnly => base <= Ledger!Abs(x)
  BY <1>1, BaseFits
<1>3. LedgerFits(ledger, orders)
  BY DEF EInv, World
<1>4. /\ SizeIn(Moved(i), Taker.owner, m) = SizeIn(ledger, Taker.owner, m) + delta
      /\ SizeIn(Moved(i), o.owner, m) = SizeIn(ledger, o.owner, m) - delta
  BY <1>3, MovedFits
<1>5. /\ o.isAsk \in BOOLEAN /\ Taker.isAsk \in BOOLEAN /\ o.owner \in Account
      /\ Taker.owner \in Account /\ m \in Market
  BY <1>1 DEF OrderSet
<1>6. x \in Int /\ y \in Int
  BY <1>5, PositionSizeType
<1>7. /\ SizeIn(ledger, Taker.owner, m) = x /\ SizeIn(ledger, o.owner, m) = y
  BY DEF SizeIn, Size
<1>8. /\ Taker.reduceOnly => ~Misdirected(x, Taker.isAsk)
      /\ o.reduceOnly => ~Misdirected(y, o.isAsk)
  BY <1>1, TradersReduce DEF InvalidReduceOnly
<1> HIDE DEF base, x, y
<1>9. ASSUME Taker.reduceOnly PROVE Shrinks(x, SizeIn(Moved(i), Taker.owner, m))
  <2>1. Shrinks(x, IF Taker.isAsk THEN x + -base ELSE x + base)
    BY <1>2, <1>5, <1>6, <1>8, <1>9, MovesTowardsZero
  <2>2. SizeIn(Moved(i), Taker.owner, m) = IF Taker.isAsk THEN x + -base ELSE x + base
    BY <1>4, <1>7
  <2> QED BY <2>1, <2>2
<1>10. ASSUME o.reduceOnly PROVE Shrinks(y, SizeIn(Moved(i), o.owner, m))
  <2>1. Shrinks(y, IF o.isAsk THEN y + -base ELSE y + base)
    BY <1>2, <1>5, <1>6, <1>8, <1>10, MovesTowardsZero
  <2>2. SizeIn(Moved(i), o.owner, m) = IF o.isAsk THEN y + -base ELSE y + base
    <3> DEFINE e == SizeIn(Moved(i), o.owner, m)
               f == Taker.isAsk
               g == o.isAsk
    <3>1. e = y - delta
      BY <1>4, <1>7
    <3>2. f \in BOOLEAN /\ g \in BOOLEAN /\ f # g /\ delta = IF f THEN -base ELSE base
      BY <1>1, <1>5
    <3> HIDE DEF e, f, g, delta
    <3>3. CASE f
      <4>1. ~g /\ delta = -base
        BY <3>2, <3>3
      <4> QED BY <1>2, <1>6, <3>1, <4>1 DEF e, g
    <3>4. CASE ~f
      <4>1. g /\ delta = base
        BY <3>2, <3>4
      <4> QED BY <1>2, <1>6, <3>1, <4>1 DEF e, g
    <3> QED BY <3>2, <3>3, <3>4
  <2> QED BY <2>1, <2>2
<1> QED BY <1>9, <1>10 DEF x, y

\* What is live is an order of the market of its index; the taker is at its own.
LEMMA LiveFits ==
    ASSUME EInv, NEW i \in LiveOrders
    PROVE  i \in Index /\ OrderAt(i) \in OrderSet /\ OrderAt(i).market = i[1]
<1>1. CASE Exists(i) /\ i \in Index
  <2>1. OrderFits(ask, bid, i, orders[i])
    BY <1>1 DEF Exists, EInv, World, OrdersFit
  <2> QED BY <1>1, <2>1 DEF OrderFits, OrderAt
<1>2. CASE ~(Exists(i) /\ i \in Index)
  <2>1. PICK x \in Inserts : x.index = i
    BY <1>2 DEF LiveOrders
  <2> DEFINE y == CHOOSE w \in Inserts : w.index = i
  <2>2. y \in Inserts /\ y.index = i
    BY <2>1
  <2> HIDE DEF y
  <2>3. PICK j \in 0..count - 1 : y = regs[j] /\ y.kind = "insert_order"
    BY <2>2, InsertsAre
  <2>4. OrderFits(ask, bid, i, y.order)
    BY <2>2, <2>3 DEF EInv, Piled, StackFits, InstructionFits
  <2>5. i \in Index /\ y.order \in OrderSet /\ y.order.market = i[1]
    BY <2>4 DEF OrderFits, GivenOut
  <2>6. OrderAt(i) = y.order
    BY <1>2, <2>5 DEF OrderAt, y
  <2> QED BY <2>5, <2>6
<1> QED BY <1>1, <1>2

LEMMA TakerIsLive ==
    ASSUME EInv, matching
    PROVE  OrderAt(Index0) = Taker
<1>1. /\ count \in 1..9 /\ regs[0].kind = "insert_order" /\ orders[Index0] = NoOrder
      /\ PlacesApart(orders, regs, count)
  BY TakerKnown DEF Piled
<1>2. 0 \in 0..count - 1
  BY <1>1
<1>3. regs[0] \in Inserts
  BY <1>1, <1>2, InsertsAre
<1> DEFINE x == CHOOSE w \in Inserts : w.index = Index0
<1>4. x \in Inserts /\ x.index = Index0
  BY <1>3 DEF Index0
<1>5. OrderAt(Index0) = x.order
  BY <1>1 DEF OrderAt, Exists
<1> HIDE DEF x
<1>6. PICK j \in 0..count - 1 : x = regs[j] /\ x.kind = "insert_order"
  BY <1>4, InsertsAre
<1>7. j = 0
  BY <1>1, <1>2, <1>4, <1>6 DEF PlacesApart, Index0
<1> QED BY <1>5, <1>6, <1>7 DEF Taker

\* Only the matching engine runs while it is asked for.
LEMMA MatchingRunsAlone == ASSUME matching, Next PROVE ExecuteMatching
<1>1. ~Users
  BY DEF Users, Idle, CreateOrder, L1CreateOrder, CreateGroupedOrders, ModifyOrder, CancelOrder,
         CancelAllOrders, L1CancelAllOrders, ScheduleCancelAll, CancelMarketOrders, ExpireMarket
<1>2. ~Rollup
  BY DEF Rollup, Idle, CancelDeadOrder, DropHopeless, TriggerOrder, SliceTwap, CancelAllByDms,
         CancelAllInLiquidation, LiquidatePosition, DeleveragePosition, ExitPosition
<1>3. ~Finish
  BY DEF Finish, Finishing, CancelSingle, CancelOneOf, TriggerTheChild, ClaimOrder, TransferFee
<1>4. ~Tick
  BY DEF Tick
<1> QED BY <1>1, <1>2, <1>3, <1>4 DEF Next

\* A reduce-only order never opens a position, enlarges one or turns one over, whichever
\* side of a trade it is on and whatever happened to its owner's position since the order
\* was checked: not while it rested, waited for its trigger or lay on the stack.
THEOREM ReduceOnlyOrdersReduce == Spec => ReduceOnlyReduces
<1> DEFINE Keeps(i) ==
        LET o == OrderAt(i)
        IN  Shrinks(Size(o.owner, o.market), ledger'.position[<<o.owner, o.market>>].size)
<1>1. ASSUME EInv, Next, matching, NEW i \in LiveOrders,
             OrderAt(i).reduceOnly, i[1] \in Perps, i = Index0 \/ orders'[i] # orders[i]
      PROVE  Keeps(i)
  <2> DEFINE o == OrderAt(i)
             x == Size(o.owner, o.market)
  <2>1. i \in Index /\ o \in OrderSet /\ o.market = i[1]
    BY <1>1, LiveFits
  <2>2. o.owner \in Account /\ o.market \in Market /\ o.market \in Perps
    BY <1>1, <2>1 DEF OrderSet
  <2>3. x \in Int
    BY <1>1, <2>2, PositionSizeType
  <2>4. ExecuteMatching
    BY <1>1, MatchingRunsAlone
  <2>5. Size(o.owner, o.market) = SizeIn(ledger, o.owner, o.market)
        /\ ledger'.position[<<o.owner, o.market>>].size = SizeIn(ledger', o.owner, o.market)
    BY DEF Size, SizeIn
  <2>6. CASE SameSizes(ledger, ledger')
    <3> HIDE DEF o
    <3>1. SizeIn(ledger', o.owner, o.market) = x
      BY <2>2, <2>5, <2>6 DEF SameSizes
    <3>2. Shrinks(x, x)
      BY <2>3 DEF Shrinks
    <3> QED BY <2>5, <3>1, <3>2 DEF o
  <2>7. ASSUME NEW k \in Index, NEW healed \in BOOLEAN, NEW fees \in SUBSET {0, 1},
               Trade(k, healed, fees)
        PROVE  Keeps(i)
    <3>1. /\ MayTrade(k) /\ SameSizes(Moved(k), ledger')
          /\ \A j \in Index \ {k} : orders'[j] = orders[j]
      BY <1>1, <2>7, TradeMoves
    <3>2. /\ orders[k].market = Taker.market /\ orders[k] # NoOrder
      BY <1>1, <3>1, FacingFits DEF MayTrade
    <3>3. SizeIn(ledger', o.owner, o.market) = SizeIn(Moved(k), o.owner, o.market)
      BY <2>2, <3>1 DEF SameSizes
    <3>4. CASE i = Index0
      <4>1. o = Taker
        BY <1>1, <3>4, TakerIsLive
      <4>2. Taker.market \in Perps /\ Taker.reduceOnly
        BY <1>1, <2>2, <4>1
      <4>3. Shrinks(Size(o.owner, o.market), SizeIn(Moved(k), o.owner, o.market))
        BY <1>1, <3>1, <4>1, <4>2, TradeReduces
      <4> QED BY <2>5, <3>3, <4>3
    <3>5. CASE i # Index0
      <4>1. i = k
        BY <1>1, <2>1, <3>1, <3>5
      <4>2. o = orders[k]
        BY <3>2, <4>1 DEF OrderAt, Exists
      <4>3. Taker.market \in Perps /\ orders[k].reduceOnly /\ o.market = Taker.market
        BY <1>1, <2>2, <3>2, <4>2
      <4>4. Shrinks(Size(o.owner, o.market), SizeIn(Moved(k), o.owner, o.market))
        BY <1>1, <3>1, <4>2, <4>3, TradeReduces
      <4> QED BY <2>5, <3>3, <4>4
    <3> QED BY <3>4, <3>5
  <2> QED BY <1>1, <2>4, <2>6, <2>7, OnlyTradesMove
<1>2. ASSUME EInv, [Next]_vars
      PROVE  [matching => \A i \in LiveOrders :
                  /\ OrderAt(i).reduceOnly /\ i[1] \in Perps
                  /\ i = Index0 \/ orders'[i] # orders[i]
                  => Keeps(i)]_vars
  BY <1>1, <1>2
<1> QED BY <1>2, EngineInvariant, PTL DEF Spec, ReduceOnlyReduces

-----------------------------------------------------------------------------
(* What an order has traded, and what it has locked.                                    *)

\* A spot market where orders may be modified has no TWAPs: the modification of one unlocks
\* what the TWAP never locked (the SpotTwap run).
TwapsStay ==
    \A r \in Request :
        r.type = "twap" /\ r.market \notin Perps => "L2ModifyOrder" \notin Types[r.market]

Fill(o) == o.initial - o.rem

\* An account that trades on a spot market uses its spot assets as margin, or is an
\* insurance fund: what is left out is the CrossCancelSpot run.
SpotIsMargin == \A r \in Request : r.market \notin Perps => r.owner \in Unified \union Insurance

\* Orders of a spot market: only TWAPs wait, and only limit orders rest.
SpotFits(o) ==
    o.market \notin Perps =>
        /\ o.trigger \in {"na", "twap"}
        /\ o.trigger = "na" => o.type \in {"limit", "market", "twap_sub"}
        /\ o.trigger = "twap" =>
              o.type = "twap" /\ (TwapsStay => "L2ModifyOrder" \notin Types[o.market])
        /\ SpotIsMargin => o.owner \in Unified \union Insurance
RestsFit(o) == o.market \notin Perps /\ o.trigger = "na" => o.type = "limit"

\* F is what each order had traded at some time: no order has traded less since, and one
\* that comes later starts from zero.
Kept(F, i, o) == Fill(o) >= F[i] /\ SpotFits(o)
FloorFits(F, A, B) ==
    /\ F \in [Index -> Int]
    /\ \A i \in Index : ~GivenOut(A, B, i) => F[i] <= 0
OrdersKept(F, O) == \A i \in Index : O[i] # NoOrder => Kept(F, i, O[i]) /\ RestsFit(O[i])
InsertKept(F, x) ==
    x # Execute /\ x.kind = "insert_order" => Kept(F, x.index, x.order)
RegistersKept(F, r) == \A j \in 0..8 : InsertKept(F, r[j])
NewKept(F, new) == \A j \in DOMAIN new : InsertKept(F, new[j])

\* What the resting orders have locked, together.
LocksSum(O, a, s) == SumFunctionOnSet([i \in Index |-> LockedBy(O[i], a, s)], Index)
Balances == [Account \X {"base", "quote"} -> Int]
LocksFit(K, O) ==
    /\ K \in Balances
    /\ \A a \in Account, s \in {"base", "quote"} : K[<<a, s>>] = LocksSum(O, a, s)

HInv(F) ==
    /\ FloorFits(F, ask, bid)
    /\ OrdersKept(F, orders)
    /\ RegistersKept(F, regs)
    /\ TwapsStay => LocksFit(locked, orders)

\* Before anything was traded.
Unfilled == [i \in Index |-> 0]

-----------------------------------------------------------------------------
(* The stack, as far as it holds orders.                                                *)

\* What is in a register after a push was in one before, or was pushed.
LEMMA PutSources ==
    ASSUME NEW r, NEW c, NEW new, NEW max, max \in {3, NewMax}, Put(r, c, new, max), NEW j \in 0..8
    PROVE  \/ \E k \in 0..8 : regs'[j] = r[k]
           \/ \E k \in DOMAIN new : regs'[j] = new[k]
<1> DEFINE all == Over(new, Stack!NoneNew)
           n == Cardinality(DOMAIN new)
<1>1. /\ Stack!PushAllowed(c, all, n, max)
      /\ regs' = IF n = 0 THEN r ELSE Stack!PushInstructions(r, all, n, max)
  BY DEF Put
<1>2. CASE n = 0
  BY <1>1, <1>2
<1>3. CASE n # 0
  <2> HIDE DEF n
  <2>1. n = Shift!Placed(all, max) /\ regs' = Shift!PushInstructions(r, all, n, max)
    BY <1>1, <1>3, SameStack DEF Shift!PushAllowed
  <2>2. /\ n \in 0..8 /\ Shift!Slots = 0..8
    BY <2>1, InstancesAreSound, Constants, Shift!HeldFinite, SameStack
  <2>3. CASE j < n
    <3> DEFINE k == Shift!SlotOf(all, max, j)
    <3>1. j \in 0..Shift!Placed(all, max) - 1
      BY <2>1, <2>2, <2>3
    <3>2. /\ k \in Shift!Held(all, max) /\ Shift!Compact(all, max)[j] = all[k]
      BY <3>1, InstancesAreSound, Shift!CompactPlaces
    <3>3. regs'[j] = all[k]
      BY <2>1, <2>2, <2>3, <3>2 DEF Shift!PushInstructions
    <3>4. k \in 0..7 /\ all[k] # Execute
      BY <3>2, SameStack DEF Shift!Held
    <3> HIDE DEF k
    <3>5. k \in DOMAIN new /\ all[k] = new[k]
      <4> DEFINE none == Stack!NoneNew
      <4>1. none = [i \in 0..7 |-> Execute]
        BY SameStack
      <4> HIDE DEF none
      <4>2. all = Over(new, none)
        BY DEF none
      <4> QED BY <3>4, <4>1, <4>2 DEF Over
    <3> QED BY <3>3, <3>5
  <2>4. CASE ~(j < n)
    <3> HIDE DEF all
    <3>1. regs'[j] = Shift!ShiftRight(r, n, max)[j]
      BY <2>1, <2>2, <2>4 DEF Shift!PushInstructions
    <3>2. \E k \in 0..8 : Shift!ShiftRight(r, n, max)[j] = r[k]
      <4>1. max \in Nat
        BY Constants
      <4> QED BY <2>2, <4>1 DEF Shift!ShiftRight
    <3> QED BY <3>1, <3>2
  <2> QED BY <2>2, <2>3, <2>4
<1> QED BY <1>2, <1>3

LEMMA PutKept ==
    ASSUME NEW F, NEW r, NEW c, NEW new, NEW max, max \in {3, NewMax}, Put(r, c, new, max),
           RegistersKept(F, r), NewKept(F, new)
    PROVE  RegistersKept(F, regs')
<1> SUFFICES ASSUME NEW j \in 0..8 PROVE InsertKept(F, regs'[j])
  BY DEF RegistersKept
<1>1. \/ \E k \in 0..8 : regs'[j] = r[k]
      \/ \E k \in DOMAIN new : regs'[j] = new[k]
  BY PutSources
<1> QED BY <1>1 DEF RegistersKept, NewKept

LEMMA PopKept ==
    ASSUME NEW F, RegistersKept(F, regs)
    PROVE  RegistersKept(F, Popped)
<1>1. Popped = [j \in 0..8 |-> IF j < 8 THEN regs[j + 1] ELSE Execute]
  BY DEF Popped, Stack!PopFront, Stack!Slots, Depth
<1>2. ASSUME NEW j \in 0..8 PROVE InsertKept(F, Popped[j])
  <2>1. CASE j < 8
    <3>1. Popped[j] = regs[j + 1] /\ j + 1 \in 0..8
      BY <1>1, <2>1
    <3> QED BY <3>1 DEF RegistersKept
  <2>2. CASE ~(j < 8)
    BY <1>1, <2>2 DEF InsertKept
  <2> QED BY <2>1, <2>2
<1> QED BY <1>2 DEF RegistersKept

\* Instructions that insert nothing.
NoInserts(new) == \A j \in DOMAIN new : new[j].kind # "insert_order"

LEMMA NoInsertsKept ==
    ASSUME NEW F, NEW new, NoInserts(new)
    PROVE  NewKept(F, new)
BY DEF NoInserts, NewKept, InsertKept

LEMMA NothingKept == ASSUME NEW F PROVE NewKept(F, Nothing)
BY DEF NewKept, Nothing

LEMMA InsertOneKept ==
    ASSUME NEW F, NEW j, NEW i, NEW o, Kept(F, i, o)
    PROVE  NewKept(F, Slot(j, Insert(i, o)))
<1>1. DOMAIN Slot(j, Insert(i, o)) = {j} /\ Slot(j, Insert(i, o))[j] = Insert(i, o)
  BY DEF Slot
<1>2. Insert(i, o).index = i /\ Insert(i, o).order = o
  BY DEF Insert
<1> QED BY <1>1, <1>2 DEF NewKept, InsertKept

LEMMA ChildrenInsertNothing ==
    ASSUME NEW o, NEW size, NEW top
    PROVE  NoInserts(CancelChildren(o, top)) /\ NoInserts(TriggerChildren(o, size, top))
BY DEF NoInserts, CancelChildren, TriggerChildren, CancelOne, TriggerChild

LEMMA SlotInsertsNothing ==
    ASSUME NEW j, NEW x, x.kind # "insert_order"
    PROVE  NoInserts(Slot(j, x))
<1>1. DOMAIN Slot(j, x) = {j} /\ Slot(j, x)[j] = x
  BY DEF Slot
<1> QED BY <1>1 DEF NoInserts

\* A transaction that starts or finishes without inserting an order.
LEMMA PushedKept ==
    ASSUME NEW F, RegistersKept(F, regs), NEW new, NewKept(F, new), Push(new) \/ Pop(new)
    PROVE  RegistersKept(F, regs')
BY PopKept, PutKept DEF Push, Pop

-----------------------------------------------------------------------------
(* Locked balances.                                                                     *)

\* What an order has locked is an integer, and none is what no order has.
LEMMA LockType ==
    ASSUME NEW o, o # NoOrder => o \in OrderSet, NEW a, NEW s
    PROVE  LockedBy(o, a, s) \in Int
<1>1. CASE o # NoOrder
  <2>1. o.rem \in Nat /\ o.price \in Nat
    BY <1>1 DEF OrderSet
  <2>2. Amount(o, o.rem) \in Int
    BY <2>1 DEF Amount
  <2> QED BY <2>2 DEF LockedBy
<1> QED BY <1>1 DEF LockedBy

Stored(O) ==
    O = [i \in Index |-> O[i]] /\ \A i \in Index : O[i] # NoOrder => O[i] \in OrderSet

\* When one order changes, the sums change as what it locks does.
LEMMA LocksChange ==
    ASSUME NEW O, Stored(O), NEW i \in Index, NEW o, o # NoOrder => o \in OrderSet,
           NEW a, NEW s
    PROVE  LocksSum([O EXCEPT ![i] = o], a, s) =
               LocksSum(O, a, s) + LockedBy(o, a, s) - LockedBy(O[i], a, s)
<1> DEFINE P == [O EXCEPT ![i] = o]
           f == [j \in Index |-> LockedBy(O[j], a, s)]
           g == [j \in Index |-> LockedBy(P[j], a, s)]
<1>1. /\ P[i] = o /\ \A j \in Index \ {i} : P[j] = O[j]
  BY DEF Stored
<1> HIDE DEF P
<1>2. \A j \in Index : LockedBy(O[j], a, s) \in Int /\ LockedBy(P[j], a, s) \in Int
  <2> TAKE j \in Index
  <2>1. /\ O[j] # NoOrder => O[j] \in OrderSet
        /\ P[j] # NoOrder => P[j] \in OrderSet
    BY <1>1 DEF Stored
  <2> QED BY <2>1, LockType
<1>3. /\ \A j \in Index : f[j] \in Int /\ g[j] \in Int
      /\ \A j \in Index \ {i} : g[j] = f[j]
      /\ f[i] = LockedBy(O[i], a, s) /\ g[i] = LockedBy(o, a, s)
  BY <1>1, <1>2
<1>4. LocksSum(O, a, s) = SumFunctionOnSet(f, Index)
      /\ LocksSum(P, a, s) = SumFunctionOnSet(g, Index)
  BY DEF LocksSum
<1> HIDE DEF f, g
<1>5. SumFunctionOnSet(g, Index) = SumFunctionOnSet(f, Index) + g[i] - f[i]
  BY <1>3, InstancesAreSound, SumUpdate
<1> QED BY <1>3, <1>4, <1>5 DEF P

\* What a size of an order is of an asset of an account.
PartOf(o, size, a, s) ==
    IF Locks(o) /\ o.owner = a /\ Asset(o) = s THEN Amount(o, size) ELSE 0

\* What a balance is after the lock of an order's size is given back.
LEMMA UnlockMoves ==
    ASSUME NEW K, K \in Balances,
           NEW o \in OrderSet, NEW size \in Int
    PROVE  /\ Unlock(K, o, size) \in Balances
           /\ Lock(K, o, size) \in Balances
           /\ \A a \in Account, s \in {"base", "quote"} :
                 /\ Unlock(K, o, size)[<<a, s>>] = K[<<a, s>>] - PartOf(o, size, a, s)
                 /\ Lock(K, o, size)[<<a, s>>] = K[<<a, s>>] + PartOf(o, size, a, s)
<1>1. /\ o.owner \in Account /\ o.price \in Nat /\ Asset(o) \in {"base", "quote"}
      /\ <<o.owner, Asset(o)>> \in Account \X {"base", "quote"}
  BY DEF OrderSet, Asset
<1>2. Amount(o, size) \in Int
  BY <1>1 DEF Amount
<1> DEFINE key == <<o.owner, Asset(o)>>
           x == Amount(o, size)
<1>3. /\ Unlock(K, o, size) = IF Locks(o) THEN [K EXCEPT ![key] = @ - x] ELSE K
      /\ Lock(K, o, size) = IF Locks(o) THEN [K EXCEPT ![key] = @ + x] ELSE K
  BY DEF Unlock, Lock
<1>4. \A a, s : <<a, s>> = key <=> o.owner = a /\ Asset(o) = s
  OBVIOUS
<1>5. key \in Account \X {"base", "quote"} /\ x \in Int
  BY <1>1, <1>2
<1> HIDE DEF key, x
<1>6. /\ [K EXCEPT ![key] = @ - x] \in Balances
      /\ [K EXCEPT ![key] = @ + x] \in Balances
      /\ \A k \in Account \X {"base", "quote"} :
            /\ [K EXCEPT ![key] = @ - x][k] = IF k = key THEN K[k] - x ELSE K[k]
            /\ [K EXCEPT ![key] = @ + x][k] = IF k = key THEN K[k] + x ELSE K[k]
  BY <1>5 DEF Balances
<1>7. \A a \in Account, s \in {"base", "quote"} :
          /\ <<a, s>> \in Account \X {"base", "quote"} /\ K[<<a, s>>] \in Int
          /\ K[<<a, s>>] - 0 = K[<<a, s>>] /\ K[<<a, s>>] + 0 = K[<<a, s>>]
  BY DEF Balances
<1>8. ASSUME NEW a \in Account, NEW s \in {"base", "quote"}
      PROVE  /\ Unlock(K, o, size)[<<a, s>>] =
                    K[<<a, s>>] - (IF Locks(o) /\ o.owner = a /\ Asset(o) = s THEN x ELSE 0)
             /\ Lock(K, o, size)[<<a, s>>] =
                    K[<<a, s>>] + (IF Locks(o) /\ o.owner = a /\ Asset(o) = s THEN x ELSE 0)
  <2>1. CASE ~Locks(o)
    BY <1>3, <1>7, <2>1
  <2>2. CASE Locks(o) /\ <<a, s>> = key
    BY <1>3, <1>4, <1>6, <1>7, <2>2
  <2>3. CASE Locks(o) /\ <<a, s>> # key
    <3>1. ~(o.owner = a /\ Asset(o) = s)
      BY <1>4, <2>3
    <3>2. /\ Unlock(K, o, size)[<<a, s>>] = K[<<a, s>>]
          /\ Lock(K, o, size)[<<a, s>>] = K[<<a, s>>]
      BY <1>3, <1>6, <1>7, <2>3
    <3> QED BY <1>7, <3>1, <3>2
  <2> QED BY <2>1, <2>2, <2>3
<1>9. /\ Unlock(K, o, size) \in Balances
      /\ Lock(K, o, size) \in Balances
  BY <1>3, <1>6
<1> QED BY <1>8, <1>9 DEF x, PartOf

\* The locks fit after a change of one order that locks as much more or less as the balance.
LEMMA LocksMoved ==
    ASSUME NEW K, NEW O, LocksFit(K, O), Stored(O), NEW i \in Index,
           NEW o, o # NoOrder => o \in OrderSet,
           NEW J, J \in Balances,
           \A a \in Account, s \in {"base", "quote"} :
               J[<<a, s>>] = K[<<a, s>>] + LockedBy(o, a, s) - LockedBy(O[i], a, s)
    PROVE  LocksFit(J, [O EXCEPT ![i] = o])
<1>1. ASSUME NEW a \in Account, NEW s \in {"base", "quote"}
      PROVE  J[<<a, s>>] = LocksSum([O EXCEPT ![i] = o], a, s)
  <2>1. LocksSum([O EXCEPT ![i] = o], a, s) =
            LocksSum(O, a, s) + LockedBy(o, a, s) - LockedBy(O[i], a, s)
    BY LocksChange
  <2>2. K[<<a, s>>] = LocksSum(O, a, s)
    BY DEF LocksFit
  <2> QED BY <2>1, <2>2
<1> QED BY <1>1 DEF LocksFit

\* An order that does not rest has locked nothing.
LEMMA WaitingLocksNothing ==
    ASSUME NEW o, o = NoOrder \/ o.trigger # "na" \/ ~Locks(o), NEW a, NEW s
    PROVE  LockedBy(o, a, s) = 0
BY DEF LockedBy

LEMMA LocksSame ==
    ASSUME NEW K, NEW O, LocksFit(K, O), Stored(O), NEW i \in Index,
           O[i] = NoOrder \/ O[i].trigger # "na" \/ ~Locks(O[i]),
           NEW o, o # NoOrder => o \in OrderSet, o = NoOrder \/ o.trigger # "na" \/ ~Locks(o)
    PROVE  LocksFit(K, [O EXCEPT ![i] = o])
<1>1. \A a \in Account, s \in {"base", "quote"} :
          K[<<a, s>>] = K[<<a, s>>] + LockedBy(o, a, s) - LockedBy(O[i], a, s)
  <2> TAKE a \in Account, s \in {"base", "quote"}
  <2>1. LockedBy(o, a, s) = 0 /\ LockedBy(O[i], a, s) = 0
    BY WaitingLocksNothing
  <2>2. K[<<a, s>>] \in Int
    BY DEF LocksFit, Balances
  <2> QED BY <2>1, <2>2
<1>2. K \in Balances
  BY DEF LocksFit
<1> QED BY <1>1, <1>2, LocksMoved

\* An order of a spot market that waits is a TWAP, which locks nothing.
LEMMA WaitingNeverLocks ==
    ASSUME NEW o, SpotFits(o), o.trigger # "na"
    PROVE  ~Locks(o)
BY DEF SpotFits, Locks

LEMMA LocksDrop ==
    ASSUME NEW K, NEW O, LocksFit(K, O), Stored(O), NEW i \in Index, O[i] # NoOrder,
           SpotFits(O[i])
    PROVE  LocksFit(Unlock(K, O[i], O[i].rem), [O EXCEPT ![i] = NoOrder])
<1>0. PICK o \in OrderSet : o = O[i]
  BY DEF Stored
<1> DEFINE J == Unlock(K, o, o.rem)
<1>1. o.rem \in Int /\ K \in Balances
  BY DEF OrderSet, LocksFit
<1>2. /\ J \in Balances
      /\ \A a \in Account, s \in {"base", "quote"} :
            J[<<a, s>>] = K[<<a, s>>] - PartOf(o, o.rem, a, s)
  <2>1. PICK size \in Int : size = o.rem
    BY <1>1
  <2>2. /\ Unlock(K, o, size) \in Balances
        /\ \A a \in Account, s \in {"base", "quote"} :
              Unlock(K, o, size)[<<a, s>>] = K[<<a, s>>] - PartOf(o, size, a, s)
    BY <1>1, UnlockMoves
  <2> QED BY <2>1, <2>2
<1>3. o.trigger # "na" => ~Locks(o)
  BY <1>0, WaitingNeverLocks
<1> HIDE DEF J
<1>4. \A a \in Account, s \in {"base", "quote"} :
          J[<<a, s>>] = K[<<a, s>>] + LockedBy(NoOrder, a, s) - LockedBy(o, a, s)
  <2> TAKE a \in Account, s \in {"base", "quote"}
  <2>1. LockedBy(NoOrder, a, s) = 0
    BY WaitingLocksNothing
  <2>2. LockedBy(o, a, s) = PartOf(o, o.rem, a, s)
    BY <1>0, <1>3 DEF LockedBy, PartOf
  <2>3. K[<<a, s>>] \in Int /\ LockedBy(o, a, s) \in Int
    BY <1>1, LockType DEF Balances
  <2>4. J[<<a, s>>] = K[<<a, s>>] - LockedBy(o, a, s)
    BY <1>2, <2>2
  <2> QED BY <2>1, <2>3, <2>4
<1>5. LocksFit(J, [O EXCEPT ![i] = NoOrder])
  BY <1>0, <1>2, <1>4, LocksMoved
<1> QED BY <1>0, <1>5 DEF J

LEMMA LocksStore ==
    ASSUME NEW K, NEW O, LocksFit(K, O), Stored(O), NEW i \in Index, O[i] = NoOrder,
           NEW o \in OrderSet, o # NoOrder, o.trigger = "na"
    PROVE  LocksFit(Lock(K, o, o.rem), [O EXCEPT ![i] = o])
<1> DEFINE J == Lock(K, o, o.rem)
<1>1. o.rem \in Int /\ K \in Balances
  BY DEF OrderSet, LocksFit
<1>2. /\ J \in Balances
      /\ \A a \in Account, s \in {"base", "quote"} :
            J[<<a, s>>] = K[<<a, s>>] + PartOf(o, o.rem, a, s)
  <2>1. PICK size \in Int : size = o.rem
    BY <1>1
  <2>2. /\ Lock(K, o, size) \in Balances
        /\ \A a \in Account, s \in {"base", "quote"} :
              Lock(K, o, size)[<<a, s>>] = K[<<a, s>>] + PartOf(o, size, a, s)
    BY <1>1, UnlockMoves
  <2> QED BY <2>1, <2>2
<1> HIDE DEF J
<1>4. \A a \in Account, s \in {"base", "quote"} :
          J[<<a, s>>] = K[<<a, s>>] + LockedBy(o, a, s) - LockedBy(O[i], a, s)
  <2> TAKE a \in Account, s \in {"base", "quote"}
  <2>1. LockedBy(O[i], a, s) = 0
    BY WaitingLocksNothing
  <2>2. LockedBy(o, a, s) = PartOf(o, o.rem, a, s)
    BY DEF LockedBy, PartOf
  <2>3. K[<<a, s>>] \in Int /\ LockedBy(o, a, s) \in Int
    BY <1>1, LockType DEF Balances
  <2>4. J[<<a, s>>] = K[<<a, s>>] + LockedBy(o, a, s)
    BY <1>2, <2>2
  <2> QED BY <2>1, <2>3, <2>4
<1>5. LocksFit(J, [O EXCEPT ![i] = o])
  BY <1>2, <1>4, LocksMoved
<1> QED BY <1>5 DEF J

\* A fill unlocks what the order no longer takes.
LEMMA AmountSplits ==
    ASSUME NEW o \in OrderSet, NEW size \in Nat, size <= o.rem,
           NEW w, w = [o EXCEPT !.rem = @ - size]
    PROVE  Amount(w, w.rem) = Amount(o, o.rem) - Amount(w, size)
<1>1. o.rem \in Nat /\ o.price \in Nat
  BY DEF OrderSet
<1>2. w.rem = o.rem - size /\ w.price = o.price /\ w.isAsk = o.isAsk
  BY DEF OrderSet
<1>3. \A x, y, z \in Int : (x - y) * z = x * z - y * z
  OBVIOUS
<1>4. (o.rem - size) * o.price = o.rem * o.price - size * o.price
  BY <1>1, <1>3
<1> QED BY <1>2, <1>4 DEF Amount

LEMMA LocksPart ==
    ASSUME NEW K, NEW O, LocksFit(K, O), Stored(O), NEW i \in Index, O[i] # NoOrder,
           O[i].trigger = "na", NEW size \in Int,
           NEW w \in OrderSet, w # NoOrder, w.trigger = "na", w.owner = O[i].owner,
           Locks(w) <=> Locks(O[i]), Asset(w) = Asset(O[i]),
           Amount(w, w.rem) = Amount(O[i], O[i].rem) - Amount(w, size)
    PROVE  LocksFit(Unlock(K, w, size), [O EXCEPT ![i] = w])
<1> DEFINE o == O[i]
           J == Unlock(K, w, size)
<1>1. o \in OrderSet /\ o.rem \in Nat /\ K \in Balances
  BY DEF Stored, OrderSet, LocksFit
<1>2. /\ J \in Balances
      /\ \A a \in Account, s \in {"base", "quote"} :
            J[<<a, s>>] = K[<<a, s>>] - PartOf(w, size, a, s)
  BY <1>1, UnlockMoves
<1>3. Amount(o, o.rem) \in Int /\ Amount(w, size) \in Int
  <2>1. o.price \in Nat /\ w.price \in Nat
    BY <1>1 DEF OrderSet
  <2> QED BY <1>1, <2>1 DEF Amount
<1> HIDE DEF J
<1>4. \A a \in Account, s \in {"base", "quote"} :
          J[<<a, s>>] = K[<<a, s>>] + LockedBy(w, a, s) - LockedBy(o, a, s)
  <2> TAKE a \in Account, s \in {"base", "quote"}
  <2>1. K[<<a, s>>] \in Int
    BY <1>1 DEF Balances
  <2>2. CASE Locks(w) /\ w.owner = a /\ Asset(w) = s
    <3>1. J[<<a, s>>] = K[<<a, s>>] - Amount(w, size)
      BY <1>2, <2>2 DEF PartOf
    <3>2. LockedBy(w, a, s) = Amount(w, w.rem) /\ LockedBy(o, a, s) = Amount(o, o.rem)
      BY <2>2 DEF LockedBy
    <3> QED BY <1>3, <2>1, <3>1, <3>2
  <2>3. CASE ~(Locks(w) /\ w.owner = a /\ Asset(w) = s)
    <3>1. J[<<a, s>>] = K[<<a, s>>] - 0
      BY <1>2, <2>3 DEF PartOf
    <3>2. LockedBy(w, a, s) = 0 /\ LockedBy(o, a, s) = 0
      BY <2>3 DEF LockedBy
    <3> QED BY <2>1, <3>1, <3>2
  <2> QED BY <2>2, <2>3
<1>5. LocksFit(J, [O EXCEPT ![i] = w])
  BY <1>2, <1>4, LocksMoved
<1> QED BY <1>5 DEF J

LEMMA LocksShrink ==
    ASSUME NEW K, NEW O, LocksFit(K, O), Stored(O), NEW i \in Index, O[i] # NoOrder,
           O[i].trigger = "na", NEW size \in Nat, size <= O[i].rem
    PROVE  LET w == [O[i] EXCEPT !.rem = @ - size]
           IN  LocksFit(Unlock(K, w, size), [O EXCEPT ![i] = w])
<1> DEFINE o == O[i]
           w == [o EXCEPT !.rem = @ - size]
<1>1. o \in OrderSet /\ o.rem \in Nat
  BY DEF Stored, OrderSet
<1>2. /\ w \in OrderSet /\ w.trigger = o.trigger /\ w.owner = o.owner /\ w.market = o.market
      /\ w.type = o.type /\ w.isAsk = o.isAsk
  <2> DEFINE x == o.rem - size
  <2>1. x \in Nat /\ w = [o EXCEPT !.rem = x]
    BY <1>1
  <2> HIDE DEF x, w
  <2>2. w \in OrderSet
    BY <1>1, <2>1 DEF OrderSet
  <2>3. w.trigger = o.trigger /\ w.owner = o.owner /\ w.market = o.market /\ w.type = o.type
        /\ w.isAsk = o.isAsk
    BY <1>1, <2>1 DEF OrderSet
  <2> QED BY <2>2, <2>3
<1>3. Amount(w, w.rem) = Amount(o, o.rem) - Amount(w, size)
  BY <1>1, AmountSplits
<1> HIDE DEF w
<1>4. /\ w.trigger = "na" /\ w # NoOrder
      /\ Locks(w) <=> Locks(o) 
      /\ Asset(w) = Asset(o)
  BY <1>2, TypeAssumption DEF Locks, Asset
<1>5. LocksFit(Unlock(K, w, size), [O EXCEPT ![i] = w])
  BY <1>2, <1>3, <1>4, LocksPart
<1> QED BY <1>5 DEF w

-----------------------------------------------------------------------------
(* What the transactions do to what orders have traded and locked.                      *)

LEMMA OrdersStored == ASSUME EInv PROVE Stored(orders)
<1>1. orders = [i \in Index |-> orders[i]] /\ NoncesFit(ask, bid) /\ OrdersFit(ask, bid, orders)
  BY DEF EInv, World, OrdersFit
<1> QED BY <1>1, OrderKnown DEF Stored

\* An order that is stored is one.
LEMMA StoredIsOrder ==
    ASSUME NEW O, O = [j \in Index |-> O[j]], NEW i \in Index, NEW o,
           Stored([O EXCEPT ![i] = o])
    PROVE  o # NoOrder => o \in OrderSet
BY DEF Stored

\* Who waits and who goes changes no lock; who comes has traded nothing less than it had.
LEMMA StoreKept ==
    ASSUME NEW F, NEW O, OrdersKept(F, O), O = [j \in Index |-> O[j]], NEW i \in Index,
           NEW o, o # NoOrder => Kept(F, i, o) /\ RestsFit(o)
    PROVE  OrdersKept(F, [O EXCEPT ![i] = o])
BY DEF OrdersKept

LEMMA DropKept ==
    ASSUME NEW F, NEW O, OrdersKept(F, O), O = [j \in Index |-> O[j]], NEW i \in Index
    PROVE  OrdersKept(F, [O EXCEPT ![i] = NoOrder])
BY StoreKept

\* More orders are given out.
LEMMA FloorLater ==
    ASSUME NEW F, NEW A, NEW B, FloorFits(F, A, B), NoncesFit(A, B), NEW C, NEW D,
           Later(A, B, C, D)
    PROVE  FloorFits(F, C, D)
<1> SUFFICES ASSUME NEW i \in Index, ~GivenOut(C, D, i) PROVE ~GivenOut(A, B, i)
  BY DEF FloorFits
<1>1. i[1] \in Market /\ i[2] \in Int
  BY Constants DEF Index
<1>2. /\ A[i[1]] \in Int /\ B[i[1]] \in Int /\ C[i[1]] \in Int /\ D[i[1]] \in Int
      /\ A[i[1]] <= C[i[1]] /\ D[i[1]] <= B[i[1]]
  BY <1>1 DEF NoncesFit, Later
<1> QED BY <1>1, <1>2 DEF GivenOut

LEMMA FloorSame ==
    ASSUME EInv, ask' = ask, bid' = bid
    PROVE  Later(ask, bid, ask', bid')
<1>1. NoncesFit(ask, bid)
  BY DEF EInv, World
<1> QED BY <1>1 DEF Later, NoncesFit

\* An order with a nonce that was not given out has traded nothing.
LEMMA FreshKept ==
    ASSUME NEW F, FloorFits(F, ask, bid), NEW i \in Index, ~GivenOut(ask, bid, i),
           NEW o, o.rem \in Int, o.initial = o.rem, SpotFits(o)
    PROVE  Kept(F, i, o)
<1>1. F[i] \in Int /\ F[i] <= 0
  BY DEF FloorFits
<1>2. Fill(o) = 0
  BY DEF Fill
<1> QED BY <1>1, <1>2 DEF Kept

LEMMA NonceIsFresh ==
    ASSUME EInv, NEW m \in Market, HasNonce(m), NEW isAsk \in BOOLEAN
    PROVE  <<m, NextNonce(m, isAsk)>> \in Index /\ ~GivenOut(ask, bid, <<m, NextNonce(m, isAsk)>>)
<1> DEFINE n == NextNonce(m, isAsk)
           i == <<m, n>>
<1>1. /\ ask[m] \in Int /\ bid[m] \in Int /\ 1 <= ask[m] /\ ask[m] <= bid[m] /\ bid[m] <= MaxNonce
      /\ ask[m] # bid[m]
  BY Constants DEF EInv, World, NoncesFit, HasNonce
<1>2. n \in {ask[m], bid[m]}
  BY DEF NextNonce
<1>3. n \in 1..MaxNonce /\ ~(n < ask[m]) /\ ~(n > bid[m])
  <2>1. CASE n = ask[m]
    BY <1>1, <2>1, Constants
  <2>2. CASE n = bid[m]
    BY <1>1, <2>2, Constants
  <2> QED BY <1>2, <2>1, <2>2
<1> HIDE DEF n
<1>4. i \in Index /\ i[1] = m /\ i[2] = n
  BY <1>3, Constants DEF Index
<1> HIDE DEF i
<1>5. ~GivenOut(ask, bid, i)
  BY <1>3, <1>4 DEF GivenOut
<1> QED BY <1>4, <1>5 DEF i, n

\* A transaction that touches no order.
LEMMA QuietHeld ==
    ASSUME NEW F, EInv, HInv(F), orders' = orders, locked' = locked,
           Later(ask, bid, ask', bid'), RegistersKept(F, regs')
    PROVE  HInv(F)'
<1>1. FloorFits(F, ask', bid')
  BY FloorLater DEF HInv, EInv, World
<1>2. OrdersKept(F, orders') /\ (TwapsStay => LocksFit(locked', orders'))
  BY DEF HInv
<1> QED BY <1>1, <1>2 DEF HInv

\* One that puts an order that waits in the place of none, or of one that waits.
LEMMA WaitingHeld ==
    ASSUME NEW F, EInv, EInv', HInv(F), NEW i \in Index,
           orders[i] = NoOrder \/ orders[i].trigger # "na",
           NEW o, o = NoOrder \/ (o.trigger # "na" /\ Kept(F, i, o)),
           orders' = [orders EXCEPT ![i] = o], locked' = locked,
           Later(ask, bid, ask', bid'), RegistersKept(F, regs')
    PROVE  HInv(F)'
<1>1. FloorFits(F, ask', bid')
  BY FloorLater DEF HInv, EInv, World
<1>2. orders = [j \in Index |-> orders[j]] /\ Stored(orders) /\ Stored(orders')
  <2>1. Stored(orders) /\ Stored(orders)'
    BY OrdersStored, PTL
  <2>2. Stored(orders')
    BY <2>1 DEF Stored
  <2> QED BY <2>1, <2>2 DEF Stored
<1>3. o # NoOrder => o \in OrderSet
  BY <1>2, StoredIsOrder
<1>4. OrdersKept(F, orders')
  <2>1. o # NoOrder => Kept(F, i, o) /\ RestsFit(o)
    BY DEF RestsFit
  <2> QED BY <1>2, <2>1, StoreKept DEF HInv
<1>5. ASSUME TwapsStay PROVE LocksFit(locked', orders')
  <2>1. LocksFit(locked, orders)
    BY <1>5 DEF HInv
  <2>2. LocksFit(locked, [orders EXCEPT ![i] = o])
    BY <1>2, <1>3, <2>1, LocksSame
  <2> QED BY <2>2
<1> QED BY <1>1, <1>4, <1>5 DEF HInv

\* One that removes an order, with what it has locked.
LEMMA RemovedHeld ==
    ASSUME NEW F, EInv, HInv(F), NEW i \in Index, Exists(i),
           orders' = [orders EXCEPT ![i] = NoOrder],
           TwapsStay => locked' = Unlock(locked, orders[i], orders[i].rem),
           Later(ask, bid, ask', bid'), RegistersKept(F, regs')
    PROVE  HInv(F)'
<1>1. FloorFits(F, ask', bid')
  BY FloorLater DEF HInv, EInv, World
<1>2. Stored(orders) /\ orders = [j \in Index |-> orders[j]]
  BY OrdersStored DEF Stored
<1>3. OrdersKept(F, orders')
  BY <1>2, DropKept DEF HInv
<1>4. ASSUME TwapsStay PROVE LocksFit(locked', orders')
  <2>1. LocksFit(locked, orders)
    BY <1>4 DEF HInv
  <2>2. SpotFits(orders[i]) /\ orders[i] # NoOrder
    BY DEF HInv, OrdersKept, Kept, Exists
  <2>3. LocksFit(Unlock(locked, orders[i], orders[i].rem), [orders EXCEPT ![i] = NoOrder])
    BY <1>2, <2>1, <2>2, LocksDrop
  <2> QED BY <1>4, <2>3
<1> QED BY <1>1, <1>3, <1>4 DEF HInv

\* One that brings a new order to the matching engine.
LEMMA FreshHeld ==
    ASSUME NEW F, EInv, HInv(F), NEW i \in Index, ~GivenOut(ask, bid, i),
           NEW o, o.rem \in Int, o.initial = o.rem, SpotFits(o),
           Push(Slot(0, Insert(i, o))), orders' = orders, locked' = locked,
           Later(ask, bid, ask', bid')
    PROVE  HInv(F)'
<1>1. Kept(F, i, o)
  BY FreshKept DEF HInv
<1>2. NewKept(F, Slot(0, Insert(i, o)))
  BY <1>1, InsertOneKept
<1>3. RegistersKept(F, regs')
  <2> DEFINE new == Slot(0, Insert(i, o))
  <2>1. RegistersKept(F, regs) /\ NewKept(F, new) /\ Push(new)
    BY <1>2 DEF HInv
  <2> HIDE DEF new
  <2> QED BY <2>1, PushedKept
<1> QED BY <1>3, QuietHeld

\* An order in its owner's words.
LEMMA OrderSpoken ==
    ASSUME NEW r, NEW nonce, NEW size, NEW trigger
    PROVE  LET o == OrderOf(r, nonce, size, trigger)
           IN  /\ o.market = r.market /\ o.owner = r.owner /\ o.type = r.type
               /\ o.trigger = trigger /\ o.initial = size /\ o.rem = size
BY DEF OrderOf

LEMMA RequestSpotFits ==
    ASSUME NEW r \in Request, WellFormed(r), NEW o, o.market = r.market, o.owner = r.owner,
           o.type = r.type, o.trigger = TriggerOf(r.type)
    PROVE  SpotFits(o)
<1>1. r.type \in {"limit", "market", "twap"} \union Conditional
  BY TypeAssumption DEF RequestSet
<1>2. o.market \notin Perps => r.type \notin Conditional
  BY DEF WellFormed
<1>3. r.type \notin Conditional =>
          /\ r.type \in {"limit", "market", "twap"}
          /\ TriggerOf(r.type) = IF r.type = "twap" THEN "twap" ELSE "na"
  BY <1>1 DEF TriggerOf
<1>4. TwapsStay /\ r.type = "twap" /\ o.market \notin Perps =>
          "L2ModifyOrder" \notin Types[o.market]
  BY DEF TwapsStay
<1>5. SpotIsMargin /\ o.market \notin Perps => o.owner \in Unified \union Insurance
  BY DEF SpotIsMargin
<1> HIDE DEF TwapsStay
<1> QED BY <1>2, <1>3, <1>4, <1>5 DEF SpotFits

LEMMA CreateOrderHeld ==
    ASSUME NEW F, EInv, EInv', HInv(F), NEW r \in Request, CreateOrder(r)
    PROVE  HInv(F)'
<1> DEFINE m == r.market
           size == IF r.base = 0 /\ r.type \notin Conditional THEN PositionSize(r) ELSE r.base
           n == NextNonce(m, r.isAsk)
           trigger == TriggerOf(r.type)
           waits == trigger # "na"
           o == OrderOf(r, IF waits THEN NilNonce ELSE n, size, trigger)
           i == <<m, n>>
<1>1. /\ HasNonce(m) /\ WellFormed(r)
      /\ TakeNonces(m, r.isAsk, 1)
      /\ IF waits THEN StoreWaiting(i, o) /\ Push(Nothing)
         ELSE /\ Push(Slot(0, Insert(i, o)))
              /\ UNCHANGED <<orders, ledger, book, locked>>
  BY DEF CreateOrder
<1>2. /\ r \in RequestSet /\ m \in Market /\ r.owner \in Account /\ r.isAsk \in BOOLEAN
      /\ r.base \in Nat
  BY TypeAssumption DEF RequestSet
<1>3. size \in Nat
  BY <1>2, PositionSizeType DEF PositionSize
<1>4. Later(ask, bid, ask', bid') /\ orders[i] = NoOrder
  <2>1. World(ledger, orders, book, ask, bid)
    BY DEF EInv
  <2> QED BY <1>1, <1>2, <2>1, NonceTaken
<1>5. i \in Index /\ ~GivenOut(ask, bid, i)
  BY <1>1, <1>2, NonceIsFresh
<1>6. /\ o.market = m /\ o.owner = r.owner /\ o.type = r.type /\ o.trigger = trigger
      /\ o.initial = size /\ o.rem = size
  BY OrderSpoken
<1> HIDE DEF size, o, i
<1>7. SpotFits(o)
  BY <1>1, <1>6, RequestSpotFits
<1> HIDE DEF trigger
<1>8. CASE waits
  <2>1. Kept(F, i, o)
    BY <1>3, <1>5, <1>6, <1>7, FreshKept DEF HInv
  <2>2. orders' = [orders EXCEPT ![i] = o] /\ locked' = locked /\ Push(Nothing)
    BY <1>1, <1>8 DEF StoreWaiting
  <2>3. RegistersKept(F, regs')
    BY <2>2, PushedKept, NothingKept DEF HInv
  <2> QED BY <1>4, <1>5, <1>6, <1>8, <2>1, <2>2, <2>3, WaitingHeld
<1>9. CASE ~waits
  BY <1>1, <1>3, <1>4, <1>5, <1>6, <1>7, <1>9, FreshHeld
<1> QED BY <1>8, <1>9

LEMMA L1CreateOrderHeld ==
    ASSUME NEW F, EInv, HInv(F), NEW r \in Request, L1CreateOrder(r)
    PROVE  HInv(F)'
<1> DEFINE m == r.market
           size == IF r.base = 0 THEN PositionSize(r) ELSE r.base
           n == NextNonce(m, r.isAsk)
           q == [r EXCEPT !.tif = Ioc, !.expiry = NilExpiry, !.reduceOnly = TRUE,
                          !.mode = "expire_maker", !.scope = "account", !.fee = FALSE]
           o == OrderOf(q, n, size, "na")
           i == <<m, n>>
<1>1. /\ HasNonce(m) /\ TakeNonces(m, r.isAsk, 1) /\ m \in Perps
      /\ Push(Slot(0, Insert(i, o)))
      /\ UNCHANGED <<orders, ledger, book, locked>>
  BY DEF L1CreateOrder
<1>2. /\ r \in RequestSet /\ m \in Market /\ r.owner \in Account /\ r.isAsk \in BOOLEAN
      /\ r.base \in Nat
  BY TypeAssumption DEF RequestSet
<1>3. size \in Nat
  BY <1>2, PositionSizeType DEF PositionSize
<1>4. Later(ask, bid, ask', bid')
  <2>1. World(ledger, orders, book, ask, bid)
    BY DEF EInv
  <2> QED BY <1>1, <1>2, <2>1, NonceTaken
<1>5. i \in Index /\ ~GivenOut(ask, bid, i)
  BY <1>1, <1>2, NonceIsFresh
<1>6. q.market = m
  BY <1>2 DEF RequestSet
<1> HIDE DEF q
<1>7. o.market = m /\ o.initial = size /\ o.rem = size
  BY <1>6, OrderSpoken
<1> HIDE DEF size, o, i
<1>8. SpotFits(o)
  BY <1>1, <1>7 DEF SpotFits
<1> QED BY <1>1, <1>3, <1>4, <1>5, <1>7, <1>8, FreshHeld

LEMMA LiquidatePositionHeld ==
    ASSUME NEW F, EInv, HInv(F), NEW a \in Account, NEW m \in Market,
           NEW size \in 1..MaxPosition, NEW price \in RollupPrice,
           LiquidatePosition(a, m, size, price)
    PROVE  HInv(F)'
<1> DEFINE isAsk == Size(a, m) > 0
           n == NextNonce(m, isAsk)
           o == [owner |-> a, market |-> m, isAsk |-> isAsk, price |-> price,
                 type |-> "liquidation", tif |-> Ioc, reduceOnly |-> TRUE,
                 expiry |-> NilExpiry, mode |-> "expire_maker", scope |-> "account",
                 fee |-> FALSE, nonce |-> n, initial |-> size, rem |-> size,
                 trigger |-> "na", children |-> << >>, sibling |-> Nil]
           i == <<m, n>>
<1>1. /\ HasNonce(m) /\ TakeNonces(m, isAsk, 1) /\ m \in Perps
      /\ Push(Slot(0, Insert(i, o)))
      /\ UNCHANGED <<orders, ledger, book, locked>>
  BY DEF LiquidatePosition, Open
<1>2. isAsk \in BOOLEAN
  OBVIOUS
<1> HIDE DEF isAsk
<1>4. Later(ask, bid, ask', bid')
  <2>1. World(ledger, orders, book, ask, bid)
    BY DEF EInv
  <2> QED BY <1>1, <1>2, <2>1, NonceTaken
<1>5. i \in Index /\ ~GivenOut(ask, bid, i)
  BY <1>1, <1>2, NonceIsFresh
<1>7. o.market = m /\ o.initial = size /\ o.rem = size
  OBVIOUS
<1> HIDE DEF o, i
<1>8. SpotFits(o)
  BY <1>1, <1>7 DEF SpotFits
<1>9. o.rem \in Int
  BY <1>7, Constants
<1> QED BY <1>1, <1>4, <1>5, <1>7, <1>8, <1>9, FreshHeld

\* What is on top of the stack has an order's index if it is about one.
LEMMA TopKnown ==
    ASSUME EInv, regs[0] # Execute
    PROVE  regs[0] \in InstructionSet /\ regs = [j \in 0..8 |-> regs[j]]
           /\ InstructionFits(ask, bid, regs[0])
<1>1. 0 \in 0..count - 1 /\ regs = [j \in 0..8 |-> regs[j]]
  BY StackShape DEF EInv, Piled, StackFits
<1> QED BY <1>1 DEF EInv, Piled, StackFits, InstructionFits

LEMMA CancelOrderHeld ==
    ASSUME NEW F, EInv, HInv(F), NEW i \in Index, CancelOrder(i) \/ CancelDeadOrder(i)
    PROVE  HInv(F)'
<1> DEFINE new == CancelChildren(orders[i], 1)
<1>1. /\ Exists(i) /\ Remove(i) /\ Push(new) /\ ask' = ask /\ bid' = bid
  BY DEF CancelOrder, CancelDeadOrder, Untouched
<1>2. NewKept(F, new)
  BY ChildrenInsertNothing, NoInsertsKept
<1> HIDE DEF new
<1>3. RegistersKept(F, regs')
  BY <1>1, <1>2, PushedKept DEF HInv
<1> QED BY <1>1, <1>3, FloorSame, RemovedHeld DEF Remove

LEMMA CancelSingleHeld == ASSUME NEW F, EInv, HInv(F), CancelSingle PROVE HInv(F)'
<1> DEFINE i == regs[0].index
<1>1. /\ regs[0] # Execute /\ regs[0].kind = "cancel_single" /\ Pop(Nothing)
      /\ \/ Exists(i) /\ Remove(i)
         \/ UNCHANGED <<orders, book, ledger, locked>>
      /\ ask' = ask /\ bid' = bid
  BY DEF CancelSingle, Finishing, Untouched
<1>2. i \in Index
  BY <1>1, TopKnown DEF InstructionSet
<1> HIDE DEF i
<1>3. RegistersKept(F, regs')
  BY <1>1, PushedKept, NothingKept DEF HInv
<1>4. Later(ask, bid, ask', bid')
  BY <1>1, FloorSame
<1>5. CASE Exists(i) /\ Remove(i)
  BY <1>2, <1>3, <1>4, <1>5, RemovedHeld DEF Remove
<1>6. CASE UNCHANGED <<orders, book, ledger, locked>>
  BY <1>3, <1>4, <1>6, QuietHeld
<1> QED BY <1>1, <1>5, <1>6

LEMMA CancelOneOfHeld ==
    ASSUME NEW F, EInv, HInv(F), NEW i \in Index, CancelOneOf(i)
    PROVE  HInv(F)'
<1> DEFINE x == [regs[0] EXCEPT !.size = @ - 1]
           r == [regs EXCEPT ![0] = x]
<1>1. /\ regs[0] # Execute /\ regs[0].kind \in CancelAllKinds /\ Exists(i) /\ Remove(i)
      /\ CountDown /\ ask' = ask /\ bid' = bid
  BY DEF CancelOneOf, Finishing, Untouched
<1>2. Later(ask, bid, ask', bid')
  BY <1>1, FloorSame
<1>3. RegistersKept(F, regs) /\ NewKept(F, Nothing)
  BY NothingKept DEF HInv
<1>4. RegistersKept(F, regs')
  <2>1. CASE regs[0].size = 1
    BY <1>1, <1>3, <2>1, PushedKept DEF CountDown
  <2>2. CASE regs[0].size # 1
    <3>1. x.kind # "insert_order"
      BY <1>1, TopKnown DEF InstructionSet, CancelAllKinds
    <3>2. Put(r, count, Nothing, 3)
      BY <1>1, <2>2 DEF CountDown
    <3> HIDE DEF x
    <3>3. r[0] = x /\ \A j \in 0..8 : j # 0 => r[j] = regs[j]
      BY <1>1, TopKnown
    <3> HIDE DEF r
    <3>4. RegistersKept(F, r)
      BY <1>3, <3>1, <3>3 DEF RegistersKept, InsertKept
    <3> QED BY <1>3, <3>2, <3>4, PutKept
  <2> QED BY <2>1, <2>2
<1> QED BY <1>1, <1>2, <1>4, RemovedHeld DEF Remove

LEMMA LeaveHeld ==
    ASSUME NEW F, EInv, HInv(F), NEW new, NoInserts(new), Leave(new)
    PROVE  HInv(F)'
<1>1. /\ Push(new) /\ orders' = orders /\ locked' = locked /\ ask' = ask /\ bid' = bid
  BY DEF Leave
<1>2. RegistersKept(F, regs')
  BY <1>1, NoInsertsKept, PushedKept DEF HInv
<1> QED BY <1>1, <1>2, FloorSame, QuietHeld

LEMMA ManyInsertNothing ==
    ASSUME NEW x, x.kind \in CancelAllKinds
    PROVE  NoInserts(CancelMany(x))
<1>1. NoInserts(Nothing)
  BY DEF Nothing, NoInserts
<1>2. NoInserts(Slot(0, x))
  BY SlotInsertsNothing DEF CancelAllKinds
<1> QED BY <1>1, <1>2 DEF CancelMany

LEMMA LeavesHeld ==
    ASSUME NEW F, EInv, HInv(F), NEW a, NEW m,
           \/ CancelAllOrders(a) \/ L1CancelAllOrders(a) \/ CancelAllByDms(a)
           \/ \E time \in Schedules : ScheduleCancelAll(a, time)
           \/ CancelMarketOrders(a, m) \/ CancelAllInLiquidation(a, m)
    PROVE  HInv(F)'
<1>1. /\ NoInserts(CancelAllOf(a)) /\ NoInserts(CancelMarketOf(a, m))
      /\ NoInserts(CancelIsolatedOf(a, m)) /\ NoInserts(Nothing)
  <2>1. NoInserts(CancelAllOf(a))
    BY ManyInsertNothing DEF CancelAllOf, CancelAllKinds
  <2>2. NoInserts(CancelMarketOf(a, m))
    BY ManyInsertNothing DEF CancelMarketOf, CancelAllKinds
  <2>3. NoInserts(CancelIsolatedOf(a, m))
    BY ManyInsertNothing DEF CancelIsolatedOf, CancelAllKinds
  <2>4. NoInserts(Nothing)
    BY DEF Nothing, NoInserts
  <2> QED BY <2>1, <2>2, <2>3, <2>4
<1>2. NoInserts(CancelCrossOf(a))
  <2> DEFINE x == [kind |-> "cancel_cross", owner |-> a,
                   size |-> ledger.account[a].orders - ledger.account[a].nonCross]
  <2>1. x.kind \in CancelAllKinds
    BY DEF CancelAllKinds
  <2>2. CancelCrossOf(a) \in {CancelAllOf(a), CancelMany(x)}
    BY DEF CancelCrossOf
  <2> HIDE DEF x
  <2> QED BY <1>1, <2>1, <2>2, ManyInsertNothing
<1>3. \E new : NoInserts(new) /\ Leave(new)
  BY <1>1, <1>2 DEF CancelAllOrders, L1CancelAllOrders, CancelAllByDms, ScheduleCancelAll,
                    CancelMarketOrders, CancelAllInLiquidation
<1> QED BY <1>3, LeaveHeld

\* Transactions that leave the orders and the stack alone.
LEMMA StillHeld ==
    ASSUME NEW F, EInv, HInv(F), NEW m,
           ClaimOrder \/ Tick \/ ExpireMarket(m) \/ UNCHANGED vars
    PROVE  HInv(F)'
<1>1. orders' = orders /\ locked' = locked /\ ask' = ask /\ bid' = bid /\ regs' = regs
  BY DEF ClaimOrder, Tick, ExpireMarket, vars
<1>2. RegistersKept(F, regs')
  BY <1>1 DEF HInv
<1> QED BY <1>1, <1>2, FloorSame, QuietHeld

LEMMA TransferFeeHeld == ASSUME NEW F, EInv, HInv(F), TransferFee PROVE HInv(F)'
<1>1. Pop(Nothing) /\ orders' = orders /\ locked' = locked /\ ask' = ask /\ bid' = bid
  BY DEF TransferFee, Untouched
<1>2. RegistersKept(F, regs')
  BY <1>1, PushedKept, NothingKept DEF HInv
<1> QED BY <1>1, <1>2, FloorSame, QuietHeld

LEMMA ExitPositionHeld ==
    ASSUME NEW F, EInv, HInv(F), NEW a, NEW m, ExitPosition(a, m)
    PROVE  HInv(F)'
<1>1. Push(Nothing) /\ orders' = orders /\ locked' = locked /\ ask' = ask /\ bid' = bid
  BY DEF ExitPosition, Untouched
<1>2. RegistersKept(F, regs')
  BY <1>1, PushedKept, NothingKept DEF HInv
<1> QED BY <1>1, <1>2, FloorSame, QuietHeld

LEMMA DeleverageHeld ==
    ASSUME NEW F, EInv, HInv(F), NEW a, NEW b, NEW m, NEW size, DeleveragePosition(a, b, m, size)
    PROVE  HInv(F)'
<1>1. PICK q, z : /\ Push(Flipped(b, m, q, z)) /\ orders' = orders /\ locked' = locked
                  /\ ask' = ask /\ bid' = bid
  BY DEF DeleveragePosition, Untouched
<1> DEFINE new == Flipped(b, m, q, z)
           x == CancelTied(b, m, q.tied)
<1>2. new \in {Nothing, Slot(0, x)} /\ x.kind # "insert_order"
  BY DEF Flipped, CancelTied
<1>3. NoInserts(Nothing)
  BY DEF Nothing, NoInserts
<1> HIDE DEF new, x
<1>4. NoInserts(new)
  BY <1>2, <1>3, SlotInsertsNothing
<1>5. RegistersKept(F, regs')
  BY <1>1, <1>4, NoInsertsKept, PushedKept DEF HInv, new
<1> QED BY <1>1, <1>5, FloorSame, QuietHeld

\* What is known of an order that is kept.
LEMMA KeptKnown ==
    ASSUME NEW F, EInv, HInv(F), NEW i \in Index, Exists(i)
    PROVE  /\ Kept(F, i, orders[i]) /\ RestsFit(orders[i]) /\ SpotFits(orders[i])
           /\ F[i] \in Int /\ Fill(orders[i]) >= F[i]
           /\ OrderFits(ask, bid, i, orders[i]) /\ orders[i] \in OrderSet
           /\ orders[i].market = i[1] /\ orders[i].market \in Market
           /\ orders[i].rem \in Nat /\ orders[i].initial \in Nat
           /\ orders[i].isAsk \in BOOLEAN
           /\ World(ledger, orders, book, ask, bid)
<1>1. Kept(F, i, orders[i]) /\ RestsFit(orders[i])
  BY DEF HInv, OrdersKept, Exists
<1>2. F[i] \in Int
  BY DEF HInv, FloorFits
<1>3. World(ledger, orders, book, ask, bid) /\ NoncesFit(ask, bid) /\ OrdersFit(ask, bid, orders)
  BY DEF EInv, World
<1>4. orders[i] # NoOrder
  BY DEF Exists
<1> QED BY <1>1, <1>2, <1>3, <1>4, OrderKnown DEF Kept

LEMMA SpotStays ==
    ASSUME NEW o, SpotFits(o), NEW u, u.market = o.market, u.owner = o.owner,
           u.trigger = o.trigger, u.type = o.type
    PROVE  SpotFits(u)
BY DEF SpotFits

LEMMA DropHopelessHeld ==
    ASSUME NEW F, EInv, EInv', HInv(F), NEW i \in Index, DropHopeless(i)
    PROVE  HInv(F)'
<1>1. /\ orders[i].trigger # "na" /\ orders' = [orders EXCEPT ![i] = NoOrder]
      /\ Push(Nothing) /\ locked' = locked /\ ask' = ask /\ bid' = bid
  BY DEF DropHopeless, Forget, Untouched
<1>2. RegistersKept(F, regs')
  BY <1>1, PushedKept, NothingKept DEF HInv
<1> QED BY <1>1, <1>2, FloorSame, WaitingHeld

LEMMA TriggerOrderHeld ==
    ASSUME NEW F, EInv, EInv', HInv(F), NEW i \in Index, TriggerOrder(i)
    PROVE  HInv(F)'
<1> DEFINE o == orders[i]
           m == o.market
           size == IF o.rem = 0 THEN PositionSize(o) ELSE o.rem
           n == NextNonce(m, o.isAsk)
           u == [o EXCEPT !.trigger = "na", !.nonce = n, !.initial = size, !.rem = size]
           new == Fired(i, u)
<1>1. /\ Exists(i) /\ o.trigger = "mark_price" /\ HasNonce(m) /\ m \in Perps
      /\ orders' = [orders EXCEPT ![i] = NoOrder] /\ TakeNonces(m, o.isAsk, 1) /\ Push(new)
      /\ locked' = locked
  BY DEF TriggerOrder, Open, Forget
<1>2. /\ OrderFits(ask, bid, i, o) /\ o \in OrderSet /\ m \in Market /\ o.isAsk \in BOOLEAN
      /\ o.owner \in Account /\ o.rem \in Nat
      /\ F[i] \in Int /\ o.initial - o.rem >= F[i]
      /\ World(ledger, orders, book, ask, bid)
  BY <1>1, KeptKnown DEF Fill, OrderSet
<1>3. Later(ask, bid, ask', bid')
  BY <1>1, <1>2, NonceTaken
<1>4. size \in Nat
  BY <1>2, PositionSizeType DEF PositionSize
<1>5. F[i] <= 0
  <2>1. o.initial = o.rem
    BY <1>1, <1>2 DEF OrderFits
  <2> QED BY <1>2, <2>1
<1> HIDE DEF size, n
<1>6. u.market = m /\ u.initial = size /\ u.rem = size
  BY <1>2 DEF OrderSet
<1> HIDE DEF u
<1>7. Kept(F, i, u)
  <2>1. SpotFits(u)
    BY <1>1, <1>6 DEF SpotFits
  <2>2. Fill(u) = 0
    BY <1>4, <1>6 DEF Fill
  <2> QED BY <1>2, <1>5, <2>1, <2>2 DEF Kept
<1>8. NewKept(F, new)
  <2> DEFINE below == IF u.sibling = Nil THEN Nothing ELSE Slot(0, CancelOne(u, u.sibling))
             f == Slot(1, Insert(i, u))
  <2>1. NewKept(F, f)
    BY <1>7, InsertOneKept
  <2>2. NoInserts(below)
    <3>1. NoInserts(Nothing)
      BY DEF NoInserts, Nothing
    <3>2. NoInserts(Slot(0, CancelOne(u, u.sibling)))
      BY SlotInsertsNothing DEF CancelOne
    <3> QED BY <3>1, <3>2
  <2>3. new = Over(f, below)
    BY DEF Fired
  <2> HIDE DEF f, below, new
  <2>4. NewKept(F, below)
    BY <2>2, NoInsertsKept
  <2> QED BY <2>1, <2>3, <2>4 DEF NewKept, Over
<1> HIDE DEF new
<1>9. RegistersKept(F, regs')
  BY <1>1, <1>8, PushedKept DEF HInv
<1>10. o.trigger # "na"
  BY <1>1
<1> QED BY <1>1, <1>3, <1>9, <1>10, WaitingHeld

LEMMA SliceTwapHeld ==
    ASSUME NEW F, EInv, EInv', HInv(F), NEW i \in Index, NEW size \in 0..MaxPosition,
           NEW price, SliceTwap(i, size, price)
    PROVE  HInv(F)'
<1> DEFINE o == orders[i]
           m == o.market
           n == NextNonce(m, o.isAsk)
           k == <<m, n>>
           u == [o EXCEPT !.type = "twap_sub", !.price = price, !.tif = Ioc, !.expiry = NilExpiry,
                          !.trigger = "na", !.nonce = n, !.initial = size, !.rem = size,
                          !.children = << >>, !.sibling = Nil]
           w == [o EXCEPT !.rem = @ - size]
           new == Slot(0, Insert(k, u))
<1>1. /\ Exists(i) /\ o.trigger = "twap" /\ HasNonce(m) /\ SliceOf(o, size)
      /\ \/ orders' = [orders EXCEPT ![i] = NoOrder]
         \/ orders' = [orders EXCEPT ![i] = w]
      /\ TakeNonces(m, o.isAsk, 1) /\ Push(new) /\ locked' = locked
  BY DEF SliceTwap, Open, Forget
<1>2. /\ OrderFits(ask, bid, i, o) /\ o \in OrderSet /\ m \in Market /\ o.isAsk \in BOOLEAN
      /\ o.rem \in Nat /\ o.initial \in Nat /\ size \in Nat
      /\ F[i] \in Int /\ o.initial - o.rem >= F[i] /\ SpotFits(o)
      /\ World(ledger, orders, book, ask, bid)
  BY <1>1, KeptKnown, Constants DEF Fill
<1>3. Later(ask, bid, ask', bid')
  BY <1>1, <1>2, NonceTaken
<1>4. k \in Index /\ ~GivenOut(ask, bid, k)
  BY <1>1, <1>2, NonceIsFresh
<1> HIDE DEF n, k
<1>5. u.market = m /\ u.owner = o.owner /\ u.initial = size /\ u.rem = size
      /\ u.type = "twap_sub" /\ u.trigger = "na"
  BY <1>2 DEF OrderSet
<1>6. /\ w.market = m /\ w.owner = o.owner /\ w.initial = o.initial
      /\ w.rem = o.rem - size /\ w.type = o.type /\ w.trigger = "twap"
  BY <1>1, <1>2 DEF OrderSet
<1> HIDE DEF u, w
<1>7. Kept(F, k, u)
  <2>1. SpotFits(u)
    BY <1>2, <1>5 DEF SpotFits
  <2>2. u.rem \in Int /\ u.initial = u.rem
    BY <1>2, <1>5
  <2> QED BY <1>4, <2>1, <2>2, FreshKept DEF HInv
<1>8. NewKept(F, new)
  BY <1>7, InsertOneKept
<1> HIDE DEF new
<1>9. RegistersKept(F, regs')
  BY <1>1, <1>8, PushedKept DEF HInv
<1>10. Kept(F, i, w)
  <2>1. SpotFits(w)
    BY <1>1, <1>2, <1>6, SpotStays
  <2>2. Fill(w) >= F[i]
    BY <1>2, <1>6 DEF Fill
  <2> QED BY <2>1, <2>2 DEF Kept
<1>11. o.trigger # "na" /\ w.trigger # "na"
  BY <1>1, <1>6
<1> QED BY <1>1, <1>3, <1>9, <1>10, <1>11, WaitingHeld

LEMMA TriggerTheChildHeld ==
    ASSUME NEW F, EInv, EInv', HInv(F), TriggerTheChild
    PROVE  HInv(F)'
<1> DEFINE i == regs[0].index
           o == orders[i]
           size == regs[0].size
           u == [o EXCEPT !.trigger = "mark_price", !.initial = size, !.rem = size]
<1>1. /\ regs[0] # Execute /\ regs[0].kind = "trigger_child" /\ regs[0].market \in Perps
      /\ \/ UNCHANGED <<orders, ledger>>
         \/ /\ Exists(i) /\ o.trigger = "parent_order"
            /\ \/ orders' = [orders EXCEPT ![i] = NoOrder]
               \/ orders' = [orders EXCEPT ![i] = u]
      /\ Pop(Nothing) /\ locked' = locked /\ ask' = ask /\ bid' = bid
  BY DEF TriggerTheChild, Finishing, Open, Untouched, Triggered, Forget
<1>2. i \in Index /\ size \in Int /\ i[1] \in Perps
  <2>1. regs[0] \in InstructionSet /\ regs[0].market = regs[0].index[1]
    BY <1>1, TopKnown DEF InstructionFits
  <2> QED BY <1>1, <2>1 DEF InstructionSet
<1>3. RegistersKept(F, regs')
  BY <1>1, PushedKept, NothingKept DEF HInv
<1>4. Later(ask, bid, ask', bid')
  BY <1>1, FloorSame
<1> HIDE DEF i, size
<1>5. CASE UNCHANGED <<orders, ledger>>
  BY <1>1, <1>3, <1>4, <1>5, QuietHeld
<1>6. CASE /\ Exists(i) /\ o.trigger = "parent_order"
           /\ \/ orders' = [orders EXCEPT ![i] = NoOrder]
              \/ orders' = [orders EXCEPT ![i] = u]
  <2>1. /\ OrderFits(ask, bid, i, o) /\ o \in OrderSet /\ o.market = i[1] /\ o.rem \in Nat
        /\ F[i] \in Int /\ o.initial - o.rem >= F[i]
    BY <1>2, <1>6, KeptKnown DEF Fill
  <2>2. F[i] <= 0
    <3>1. o.initial = o.rem
      BY <1>6, <2>1 DEF OrderFits
    <3> QED BY <2>1, <3>1
  <2>3. u.market = i[1] /\ u.trigger = "mark_price" /\ u.initial = size /\ u.rem = size
    BY <2>1 DEF OrderSet
  <2> HIDE DEF u
  <2>4. Kept(F, i, u)
    <3>1. SpotFits(u)
      BY <1>2, <2>3 DEF SpotFits
    <3>2. Fill(u) = 0
      BY <1>2, <2>3 DEF Fill
    <3> QED BY <2>1, <2>2, <3>1, <3>2 DEF Kept
  <2>5. o.trigger # "na" /\ u.trigger # "na"
    BY <1>6, <2>3
  <2> QED BY <1>1, <1>2, <1>3, <1>4, <1>6, <2>4, <2>5, WaitingHeld
<1> QED BY <1>1, <1>5, <1>6

\* What the modification of an order unlocks is what the order has locked, unless it is of
\* a spot market's TWAP.
LEMMA ModifyUnlocksFits ==
    ASSUME NEW F, EInv, HInv(F), NEW i \in Index, Exists(i), TwapsStay,
           "L2ModifyOrder" \in Types[i[1]]
    PROVE  ModifyUnlocks(locked, orders[i]) = Unlock(locked, orders[i], orders[i].rem)
<1> DEFINE o == orders[i]
           w == [o EXCEPT !.type = "limit"]
<1>1. /\ o \in OrderSet /\ o.market = i[1] /\ RestsFit(o) /\ SpotFits(o)
  BY KeptKnown
<1>2. w.market = o.market /\ ModifyUnlocks(locked, o) = Unlock(locked, w, o.rem)
  BY <1>1 DEF OrderSet, ModifyUnlocks
<1>3. CASE o.market \in Perps
  <2> HIDE DEF w
  <2>1. ~Locks(o) /\ ~Locks(w)
    BY <1>2, <1>3 DEF Locks
  <2> QED BY <1>2, <2>1 DEF Unlock
<1>4. CASE o.market \notin Perps
  <2>1. o.trigger = "na"
    BY <1>1, <1>4 DEF SpotFits
  <2>2. o.type = "limit"
    BY <1>1, <1>4, <2>1 DEF RestsFit
  <2>3. w = o
    BY <1>1, <2>2 DEF OrderSet
  <2> HIDE DEF w
  <2> QED BY <1>2, <2>3
<1> QED BY <1>3, <1>4

LEMMA ModifyOrderHeld ==
    ASSUME NEW F, EInv, EInv', HInv(F), NEW i \in Index, NEW c \in Change, ModifyOrder(i, c),
           "L2ModifyOrder" \in Types[i[1]]
    PROVE  HInv(F)'
<1> DEFINE o == orders[i]
           m == o.market
           matched == o.initial - o.rem
           filled == c.base # 0 /\ c.base <= matched
           n == NextNonce(m, o.isAsk)
           initial == IF c.base = 0 THEN o.initial ELSE c.base
           left == IF c.base = 0 THEN o.rem ELSE c.base - matched
           u == [o EXCEPT !.price = c.price, !.mode = c.mode, !.scope = c.scope, !.fee = c.fee,
                          !.initial = initial, !.rem = left]
           again == [u EXCEPT !.nonce = n]
<1>1. /\ Exists(i) /\ HasNonce(m)
      /\ \/ /\ TakeOut(i) /\ Push(TriggerChildren(o, matched, 1)) /\ UNCHANGED <<ask, bid>>
         \/ /\ o.trigger = "na" /\ TakeOut(i) /\ TakeNonces(m, o.isAsk, 1)
            /\ Push(Slot(0, Insert(i, again)))
         \/ /\ o.trigger # "na" /\ orders' = [orders EXCEPT ![i] = u]
            /\ Push(Nothing) /\ UNCHANGED <<ask, bid, book, ledger, locked>>
  BY DEF ModifyOrder, Left
<1>2. /\ o \in OrderSet /\ m \in Market /\ o.isAsk \in BOOLEAN
      /\ o.rem \in Nat /\ o.initial \in Nat
      /\ F[i] \in Int /\ o.initial - o.rem >= F[i] /\ SpotFits(o)
      /\ World(ledger, orders, book, ask, bid)
  BY <1>1, KeptKnown DEF Fill
<1>3. c.base \in Nat
  BY TypeAssumption DEF ChangeSet
<1>4. initial \in Int /\ left \in Int /\ initial - left = o.initial - o.rem
  BY <1>2, <1>3
<1>5. TakeOut(i) =>
          /\ orders' = [orders EXCEPT ![i] = NoOrder]
          /\ TwapsStay => locked' = Unlock(locked, o, o.rem)
  BY <1>1, ModifyUnlocksFits DEF TakeOut
<1> HIDE DEF initial, left, n
<1>6. /\ u.market = m /\ u.owner = o.owner /\ u.trigger = o.trigger /\ u.type = o.type
      /\ u.initial = initial /\ u.rem = left
      /\ again.market = m /\ again.owner = o.owner
      /\ again.trigger = o.trigger /\ again.type = o.type
      /\ again.initial = initial /\ again.rem = left
  BY <1>2 DEF OrderSet
<1> HIDE DEF u, again
<1>7. Kept(F, i, u) /\ Kept(F, i, again)
  <2>1. SpotFits(u) /\ SpotFits(again)
    BY <1>2, <1>6, SpotStays
  <2>2. Fill(u) >= F[i] /\ Fill(again) >= F[i]
    BY <1>2, <1>4, <1>6 DEF Fill
  <2> QED BY <2>1, <2>2 DEF Kept
<1>8. CASE TakeOut(i) /\ Push(TriggerChildren(o, matched, 1)) /\ UNCHANGED <<ask, bid>>
  <2> DEFINE new == TriggerChildren(o, matched, 1)
  <2>1. NewKept(F, new)
    BY ChildrenInsertNothing, NoInsertsKept
  <2>2. Push(new)
    BY <1>8
  <2> HIDE DEF new
  <2>3. RegistersKept(F, regs')
    BY <2>1, <2>2, PushedKept DEF HInv
  <2>4. Later(ask, bid, ask', bid')
    BY <1>8, FloorSame
  <2> QED BY <1>1, <1>5, <1>8, <2>3, <2>4, RemovedHeld
<1>9. CASE TakeOut(i) /\ TakeNonces(m, o.isAsk, 1) /\ Push(Slot(0, Insert(i, again)))
  <2> DEFINE new == Slot(0, Insert(i, again))
  <2>1. NewKept(F, new)
    BY <1>7, InsertOneKept
  <2>2. Push(new)
    BY <1>9
  <2> HIDE DEF new
  <2>3. RegistersKept(F, regs')
    BY <2>1, <2>2, PushedKept DEF HInv
  <2>4. Later(ask, bid, ask', bid')
    BY <1>1, <1>2, <1>9, NonceTaken
  <2> QED BY <1>1, <1>5, <1>9, <2>3, <2>4, RemovedHeld
<1>10. CASE /\ o.trigger # "na" /\ orders' = [orders EXCEPT ![i] = u]
            /\ Push(Nothing) /\ UNCHANGED <<ask, bid, book, ledger, locked>>
  <2>1. RegistersKept(F, regs')
    BY <1>10, PushedKept, NothingKept DEF HInv
  <2>2. u.trigger # "na" /\ orders[i].trigger # "na"
    BY <1>6, <1>10
  <2>3. Later(ask, bid, ask', bid')
    BY <1>10, FloorSame
  <2> QED BY <1>7, <1>10, <2>1, <2>2, <2>3, WaitingHeld
<1> QED BY <1>1, <1>8, <1>9, <1>10

LEMMA LegSpoken ==
    ASSUME NEW r, NEW nonce, NEW size, NEW trigger, NEW x
    PROVE  LET u == [OrderOf(r, nonce, size, trigger) EXCEPT !.sibling = x]
           IN  u.market = r.market /\ u.initial = size /\ u.rem = size
BY DEF OrderOf

LEMMA ParentSpoken ==
    ASSUME NEW r, NEW nonce, NEW size, NEW trigger, NEW x
    PROVE  LET u == [OrderOf(r, nonce, size, trigger) EXCEPT !.children = x]
           IN  u.market = r.market /\ u.initial = size /\ u.rem = size
BY DEF OrderOf

\* The legs of a group take nonces that were not given out, and only perps markets have
\* groups.
LEMMA CreateGroupedOrdersHeld ==
    ASSUME NEW F, EInv, HInv(F), NEW g \in Group, CreateGroupedOrders(g)
    PROVE  HInv(F)'
<1> DEFINE legs == g.legs
           n == Len(legs)
           m == legs[1].market
           lo == ask[m]
           hi == bid[m]
           N(k) == LegNonce(legs, lo, hi, k)
           index(k) == <<m, N(k)>>
           asks == AsksOf(legs)
           size(k) == IF k = 1 /\ g.kind # "oco" /\ legs[1].base = 0
                      THEN PositionSize(legs[1]) ELSE legs[k].base
           others == [j \in 1..Len(legs) - 1 |-> index(j + 1)]
           parent == [OrderOf(legs[1], N(1), size(1), "na") EXCEPT !.children = others]
           waits(k, trigger, sibling) ==
               [OrderOf(legs[k], NilNonce, size(k), trigger) EXCEPT !.sibling = sibling]
           order(k) == CASE g.kind = "oco" -> waits(k, "mark_price", index(3 - k))
                         [] g.kind # "oco" /\ k = 1 -> parent
                         [] g.kind = "oto" /\ k = 2 -> waits(k, "parent_order", Nil)
                         [] g.kind = "otoco" /\ k > 1 -> waits(k, "parent_order", index(5 - k))
           new == [j \in {3 - k : k \in DOMAIN legs} |-> Insert(index(3 - j), order(3 - j))]
<1>1. /\ m \in Perps /\ Grouped(g)
      /\ Ledger!MayOrder(ledger, legs[1].owner, m)
      /\ n <= hi - lo
      /\ ask' = [ask EXCEPT ![m] = @ + asks]
      /\ bid' = [bid EXCEPT ![m] = @ - (n - asks)]
      /\ Push(new)
      /\ locked' = locked /\ orders' = orders
  BY DEF CreateGroupedOrders, LegNonce, LegsBefore, AsksOf
<1>2. /\ n \in {2, 3} /\ DOMAIN legs = 1..n /\ m \in Market
      /\ \A k \in 1..n : legs[k] \in RequestSet /\ legs[k].market = m
      /\ \/ g.kind = "oco" /\ n = 2
         \/ g.kind = "oto" /\ n = 2
         \/ g.kind = "otoco" /\ n = 3
  BY <1>1, LegsKnown, Constants
<1>3. /\ NoncesFit(ask, bid) /\ ask \in [Market -> Int] /\ bid \in [Market -> Int]
      /\ \A k \in Market : 1 <= ask[k] /\ ask[k] <= bid[k] /\ bid[k] <= MaxNonce
  BY Constants DEF EInv, World, NoncesFit
<1>4. lo \in Int /\ hi \in Int /\ 1 <= lo /\ lo <= hi /\ hi <= MaxNonce /\ MaxNonce \in Nat
  BY <1>2, <1>3, Constants
<1>6. LegsFit(legs, n, lo, hi)
  BY <1>1, <1>4, LegNonces
<1>b. /\ n <= hi - lo
      /\ ask' = [ask EXCEPT ![m] = @ + asks]
      /\ bid' = [bid EXCEPT ![m] = @ - (n - asks)]
  BY <1>1
<1>c. n \in Nat
  BY <1>2
<1> HIDE DEF n, asks
<1>7. /\ asks \in 0..n
      /\ \A k \in 1..n : IF legs[k].isAsk THEN N(k) \in lo .. lo + asks - 1
                         ELSE N(k) \in hi - (n - asks) + 1 .. hi
  BY <1>6 DEF LegsFit, asks
<1> HIDE DEF N
<1>8. \A k \in 1..n : N(k) \in lo..hi /\ N(k) \in 1..MaxNonce
  <2> SUFFICES ASSUME NEW k \in 1..n PROVE N(k) \in lo..hi /\ N(k) \in 1..MaxNonce
    OBVIOUS
  <2> DEFINE x == N(k)
  <2>1. \/ x \in lo .. lo + asks - 1
        \/ x \in hi - (n - asks) + 1 .. hi
    BY <1>7
  <2> HIDE DEF x, lo, hi
  <2>2. x \in lo..hi /\ x \in 1..MaxNonce
    BY <1>4, <1>7, <1>b, <1>c, <2>1
  <2> QED BY <2>2 DEF x
<1>9. /\ ask' \in [Market -> Int] /\ bid' \in [Market -> Int]
      /\ ask'[m] = lo + asks /\ bid'[m] = hi - (n - asks)
      /\ \A k \in Market : k # m => ask'[k] = ask[k] /\ bid'[k] = bid[k]
  BY <1>2, <1>3, <1>7, <1>b
<1>10. Later(ask, bid, ask', bid')
  <2>1. ASSUME NEW k \in Market
        PROVE  /\ FirstAsk <= ask'[k] /\ ask'[k] <= bid'[k] /\ bid'[k] <= MaxNonce
               /\ ask[k] <= ask'[k] /\ bid'[k] <= bid[k]
    <3>1. CASE k = m
      <4>1. ask[k] = lo /\ bid[k] = hi /\ ask'[k] = lo + asks /\ bid'[k] = hi - (n - asks)
        BY <1>9, <3>1
      <4>2. FirstAsk <= lo
        BY <1>2, <1>3 DEF NoncesFit
      <4> HIDE DEF lo, hi
      <4> QED BY <1>4, <1>7, <1>b, <1>c, <4>1, <4>2, Constants
    <3>2. CASE k # m
      BY <1>3, <1>9, <3>2, Constants
    <3> QED BY <3>1, <3>2
  <2> QED BY <1>9, <2>1 DEF Later, NoncesFit
<1>11. ASSUME NEW k \in 1..n PROVE index(k) \in Index /\ ~GivenOut(ask, bid, index(k))
  <2>1. index(k) \in Index /\ index(k)[1] = m /\ index(k)[2] = N(k)
    BY <1>2, <1>8, Constants DEF Index
  <2>2. ~(N(k) < lo) /\ ~(N(k) > hi)
    BY <1>4, <1>8
  <2> QED BY <2>1, <2>2 DEF GivenOut
<1>12. \A k \in 1..n : size(k) \in Nat
  <2>1. PositionSize(legs[1]) \in Nat
    <3>1. legs[1] \in RequestSet
      BY <1>2
    <3>2. legs[1].owner \in Account
      BY <3>1 DEF RequestSet
    <3> QED BY <1>2, <3>2, PositionSizeType DEF PositionSize
  <2>2. \A k \in 1..n : legs[k].base \in Nat
    BY <1>2 DEF RequestSet
  <2> QED BY <2>1, <2>2
<1> HIDE DEF size, index, others
<1> DEFINE Fresh(k) == order(k).market = m /\ order(k).initial = size(k) /\ order(k).rem = size(k)
<1>13. ASSUME NEW k \in 1..n, NEW trigger, NEW sibling, order(k) = waits(k, trigger, sibling)
       PROVE  Fresh(k)
  <2>1. legs[k].market = m
    BY <1>2
  <2> HIDE DEF order, m, legs
  <2> QED BY <1>13, <2>1, LegSpoken
<1>14. ASSUME order(1) = parent PROVE Fresh(1)
  <2> DEFINE x == N(1)
             y == size(1)
             u == legs[1]
             na == "na"
             w == OrderOf(u, x, y, na)
             p == order(1)
  <2>1. p = [w EXCEPT !.children = others]
    BY <1>14
  <2> HIDE DEF order, x, y, u, na, p
  <2>2. p.market = u.market /\ p.initial = y /\ p.rem = y
    BY <2>1, ParentSpoken
  <2> QED BY <2>2 DEF u, y, p
<1>15. ASSUME NEW k \in 1..n PROVE Fresh(k)
  <2>1. CASE g.kind = "oco"
    <3>1. order(k) = waits(k, "mark_price", index(3 - k))
      BY <2>1
    <3> HIDE DEF order, waits, Fresh
    <3> QED BY <3>1, <1>13
  <2>2. CASE g.kind # "oco" /\ k = 1
    <3>1. order(1) = parent
      BY <2>2
    <3> HIDE DEF order, parent, Fresh
    <3> QED BY <1>14, <2>2, <3>1
  <2>3. CASE g.kind = "oto" /\ k # 1
    <3>1. k = 2
      BY <1>2, <2>3
    <3>2. order(k) = waits(k, "parent_order", Nil)
      BY <2>3, <3>1
    <3> HIDE DEF order, waits, Fresh
    <3> QED BY <3>2, <1>13
  <2>4. CASE g.kind = "otoco" /\ k # 1
    <3>1. k > 1
      BY <1>2, <2>4
    <3>2. order(k) = waits(k, "parent_order", index(5 - k))
      BY <2>4, <3>1
    <3> HIDE DEF order, waits, Fresh
    <3> QED BY <3>2, <1>13
  <2> QED BY <1>2, <2>1, <2>2, <2>3, <2>4
<1> HIDE DEF order
<1>16. \A k \in 1..n : Kept(F, index(k), order(k))
  <2> SUFFICES ASSUME NEW k \in 1..n PROVE Kept(F, index(k), order(k))
    OBVIOUS
  <2>1. Fresh(k) /\ size(k) \in Nat /\ index(k) \in Index /\ ~GivenOut(ask, bid, index(k))
    BY <1>11, <1>12, <1>15
  <2>2. SpotFits(order(k))
    BY <1>1, <2>1 DEF SpotFits
  <2> HIDE DEF m
  <2> QED BY <2>1, <2>2, FreshKept DEF HInv
<1>17. NewKept(F, new)
  <2>1. ASSUME NEW j \in DOMAIN new PROVE InsertKept(F, new[j])
    <3>1. 3 - j \in 1..n
      BY <1>2
    <3> DEFINE x == index(3 - j)
               o == order(3 - j)
    <3>2. Kept(F, x, o) /\ new[j] = Insert(x, o)
      BY <1>16, <3>1
    <3> HIDE DEF x, o, new
    <3>3. Insert(x, o).index = x /\ Insert(x, o).order = o
      BY DEF Insert
    <3> QED BY <3>2, <3>3 DEF InsertKept
  <2> HIDE DEF new
  <2> QED BY <2>1 DEF NewKept
<1>18. RegistersKept(F, regs')
  <2>1. RegistersKept(F, regs) /\ Push(new)
    BY <1>1 DEF HInv, index, order, others
  <2> HIDE DEF new
  <2> QED BY <1>17, <2>1, PushedKept
<1> QED BY <1>1, <1>10, <1>18, QuietHeld

\* A step of the matching engine: the orders and the locks of the state it works on.
HeldIn(F, s) == OrdersKept(F, s.orders) /\ (TwapsStay => LocksFit(s.locked, s.orders))

LEMMA StartHeld ==
    ASSUME NEW F, HInv(F)
    PROVE  HeldIn(F, Start)
BY StartOf DEF HInv, HeldIn

LEMMA TakerHeld ==
    ASSUME NEW F, EInv, HInv(F), matching, NEW t, Shrunk(t)
    PROVE  Kept(F, Index0, Taker) /\ Kept(F, Index0, t)
<1>1. regs[0] # Execute /\ regs[0].kind = "insert_order" /\ Taker \in OrderSet /\ Index0 \in Index
  BY TakerKnown
<1>2. Kept(F, Index0, Taker)
  <2>1. 0 \in 0..8
    OBVIOUS
  <2>2. InsertKept(F, regs[0])
    BY <2>1 DEF HInv, RegistersKept
  <2> QED BY <1>1, <2>2 DEF InsertKept, Index0, Taker
<1>3. /\ t.rem \in Nat /\ t.rem <= Taker.rem /\ t.initial = Taker.initial
      /\ t.market = Taker.market /\ t.owner = Taker.owner
      /\ t.trigger = Taker.trigger /\ t.type = Taker.type
  BY <1>1 DEF Shrunk, OrderSet
<1>4. SpotFits(t)
  BY <1>2, <1>3 DEF Kept, SpotFits
<1>5. Taker.rem \in Nat /\ Taker.initial \in Nat /\ F[Index0] \in Int
  BY <1>1 DEF OrderSet, HInv, FloorFits
<1>6. Fill(t) >= F[Index0]
  BY <1>2, <1>3, <1>5 DEF Kept, Fill
<1> QED BY <1>2, <1>4, <1>6 DEF Kept

\* What a step leaves is pushed, on the taker or on what was below it.
LEMMA SettleHeld ==
    ASSUME NEW F, EInv, HInv(F), matching, NEW s, Sound(s), HeldIn(F, s),
           Settle(s, TRUE) \/ Settle(s, FALSE)
    PROVE  HInv(F)'
<1> DEFINE x == [regs[0] EXCEPT !.order = s.taker, !.slack = s.slack]
           r == [regs EXCEPT ![0] = x]
<1>1. /\ orders' = s.orders /\ locked' = s.locked /\ ask' = ask /\ bid' = bid
      /\ \/ Put(Popped, count - 1, s.new, NewMax)
         \/ Put([regs EXCEPT ![0].order = s.taker, ![0].slack = s.slack], count, s.new, NewMax)
  BY DEF Settle
<1>2. /\ regs = [j \in 0..8 |-> regs[j]]
      /\ regs[0] \in InstructionSet /\ regs[0].kind = "insert_order"
  BY TakerKnown
<1>3. [regs EXCEPT ![0].order = s.taker, ![0].slack = s.slack] = r
  BY <1>2
<1>4. x.index = Index0 /\ x.order = s.taker
  BY <1>2 DEF InstructionSet, Index0
<1>5. Kept(F, Index0, s.taker)
  BY TakerHeld DEF Sound
<1> HIDE DEF x
<1>6. RegistersKept(F, r)
  <2>1. InsertKept(F, x)
    BY <1>4, <1>5 DEF InsertKept
  <2>2. ASSUME NEW j \in 0..8 PROVE InsertKept(F, r[j])
    <3>1. r[j] = x \/ r[j] = regs[j]
      BY <1>2
    <3> HIDE DEF r
    <3> QED BY <2>1, <3>1 DEF HInv, RegistersKept
  <2> QED BY <2>2 DEF RegistersKept
<1> HIDE DEF r
<1>7. NewKept(F, s.new)
  BY NoInsertsKept DEF Sound, Told, NoInserts
<1>8. RegistersKept(F, Popped)
  BY PopKept DEF HInv
<1>9. RegistersKept(F, regs')
  BY <1>1, <1>3, <1>6, <1>7, <1>8, PutKept
<1> QED BY <1>1, <1>9 DEF HInv, HeldIn

LEMMA SettleDroppedHeld ==
    ASSUME NEW F, EInv, HInv(F), matching, NEW s, Sound(s), HeldIn(F, s), NEW who,
           Settle(s, "taker" \in who)
    PROVE  HInv(F)'
<1>1. CASE "taker" \in who
  <2>1. Settle(s, TRUE)
    BY <1>1 DEF Settle
  <2> QED BY <2>1, SettleHeld
<1>2. CASE "taker" \notin who
  <2>1. Settle(s, FALSE)
    BY <1>2 DEF Settle
  <2> QED BY <2>1, SettleHeld
<1> QED BY <1>1, <1>2

\* Who is dropped.
LEMMA DropTakerHeldIn ==
    ASSUME NEW F, NEW s, Sound(s), HeldIn(F, s)
    PROVE  HeldIn(F, DropTaker(s))
<1> DEFINE both == Over(ChildrenOf(s.taker, 5), s.new)
           z == DropTaker(s)
<1>1. z = [s EXCEPT !.new = both]
  BY DEF DropTaker
<1> HIDE DEF both, z
<1>2. z.orders = s.orders /\ z.locked = s.locked
  BY <1>1 DEF Sound
<1> QED BY <1>2 DEF HeldIn, z

LEMMA SoundStored ==
    ASSUME NEW s, Sound(s)
    PROVE  Stored(s.orders) /\ s.orders = [j \in Index |-> s.orders[j]]
<1>1. /\ s.orders = [i \in Index |-> s.orders[i]] /\ NoncesFit(ask, bid)
      /\ OrdersFit(ask, bid, s.orders)
  BY DEF Sound, World, OrdersFit
<1> QED BY <1>1, OrderKnown DEF Stored

LEMMA DropMakerHeldIn ==
    ASSUME NEW F, NEW s, Sound(s), HeldIn(F, s), NEW i \in Index, s.orders[i] # NoOrder
    PROVE  HeldIn(F, DropMaker(s, i))
<1> DEFINE o == s.orders[i]
           both == Over(ChildrenOf(o, 7), s.new)
           z == DropMaker(s, i)
           L == Ledger!Decrement(s.ledger, o)
           O == [s.orders EXCEPT ![i] = NoOrder]
           b == s.book \ At(s.book, o)
           k == Unlock(s.locked, o, o.rem)
<1>1. z = [s EXCEPT !.ledger = L, !.orders = O, !.book = b, !.locked = k, !.new = both]
  BY DEF DropMaker
<1>2. Stored(s.orders) /\ s.orders = [j \in Index |-> s.orders[j]]
  BY SoundStored
<1>3. OrdersKept(F, O)
  BY <1>2, DropKept DEF HeldIn
<1>4. ASSUME TwapsStay PROVE LocksFit(k, O)
  <2>1. LocksFit(s.locked, s.orders)
    BY <1>4 DEF HeldIn
  <2>2. SpotFits(s.orders[i])
    BY DEF HeldIn, OrdersKept, Kept
  <2> QED BY <1>2, <2>1, <2>2, LocksDrop
<1> HIDE DEF L, O, b, k, both, z
<1>5. z.orders = O /\ z.locked = k
  BY <1>1 DEF Sound
<1> QED BY <1>3, <1>4, <1>5 DEF HeldIn, z

LEMMA DropHeldIn ==
    ASSUME NEW F, NEW s, Sound(s), HeldIn(F, s), NEW i \in Index, s.orders[i] # NoOrder, NEW who
    PROVE  HeldIn(F, Drop(s, i, who))
<1> DEFINE z == IF "maker" \in who THEN DropMaker(s, i) ELSE s
<1>1. Sound(z) /\ HeldIn(F, z)
  <2>1. CASE "maker" \in who
    BY <2>1, DropMakerSound, DropMakerHeldIn
  <2>2. CASE "maker" \notin who
    BY <2>2
  <2> QED BY <2>1, <2>2
<1> HIDE DEF z
<1>2. Drop(s, i, who) = IF "taker" \in who THEN DropTaker(z) ELSE z
  BY DEF Drop, z
<1>3. CASE "taker" \in who
  BY <1>1, <1>2, <1>3, DropTakerHeldIn
<1>4. CASE "taker" \notin who
  BY <1>1, <1>2, <1>4
<1> QED BY <1>3, <1>4

\* The maker has traded more, and locks less by as much.
LEMMA ShrinkHeldIn ==
    ASSUME NEW F, EInv, HInv(F), NEW i \in Index, Facing(i), NEW size \in Nat,
           size <= orders[i].rem, size <= Taker.rem
    PROVE  HeldIn(F, Shrink(Start, i, size))
<1> DEFINE s == Shrink(Start, i, size)
           u == orders[i]
           o == [u EXCEPT !.rem = @ - size]
           O == [orders EXCEPT ![i] = o]
           b == Resting(book, o)
           k == Unlock(locked, o, size)
           t == [Taker EXCEPT !.rem = @ - size]
<1>1. /\ matching /\ IsResting(orders, i) /\ u \in OrderSet /\ u.rem \in Nat
      /\ u # NoOrder /\ u.trigger = "na"
  BY FacingFits DEF IsResting
<1>2. Stored(orders) /\ orders = [j \in Index |-> orders[j]] /\ Sound(Start)
  BY <1>1, OrdersStored, StartSound DEF Stored
<1>3. s = [Start EXCEPT !.orders = O, !.book = b, !.locked = k, !.taker = t]
  <2>1. o = [Start.orders[i] EXCEPT !.rem = @ - size]
    BY StartOf
  <2> QED BY <1>2, <2>1, StartOf DEF Shrink, Sound
<1>4. Kept(F, i, u) /\ RestsFit(u)
  BY <1>1 DEF HInv, OrdersKept
<1>5. Kept(F, i, o) /\ RestsFit(o)
  <2>1. /\ o.market = u.market /\ o.owner = u.owner /\ o.trigger = u.trigger
        /\ o.type = u.type
        /\ o.initial = u.initial /\ o.rem = u.rem - size /\ u.initial \in Nat
    BY <1>1 DEF OrderSet
  <2>2. F[i] \in Int
    BY DEF HInv, FloorFits
  <2> HIDE DEF o, u
  <2>3. SpotFits(o) /\ RestsFit(o)
    BY <1>4, <2>1 DEF Kept, SpotFits, RestsFit
  <2>4. Fill(o) >= F[i]
    BY <1>1, <1>4, <2>1, <2>2 DEF Kept, Fill
  <2> QED BY <2>3, <2>4 DEF Kept
<1>6. OrdersKept(F, O)
  <2> HIDE DEF o
  <2> QED BY <1>2, <1>5, StoreKept DEF HInv
<1>7. ASSUME TwapsStay PROVE LocksFit(k, O)
  <2>1. LocksFit(locked, orders)
    BY <1>7 DEF HInv
  <2> QED BY <1>1, <1>2, <2>1, LocksShrink
<1> HIDE DEF o, O, b, k, t, s
<1>8. s.orders = O /\ s.locked = k
  BY <1>2, <1>3 DEF Sound
<1> QED BY <1>6, <1>7, <1>8 DEF HeldIn, s

\* The taker becomes an account order and locks what it has left.
LEMMA InsertTakerHeld ==
    ASSUME NEW F, EInv, HInv(F), matching, Settle(InsertTaker(Start), TRUE),
           Taker.trigger # "na" \/ Taker.type \in LimitTypes
    PROVE  HInv(F)'
<1> DEFINE t == Taker
           s == InsertTaker(Start)
           L == Ledger!Increment(ledger, t)
           O == [orders EXCEPT ![Index0] = t]
           b == IF t.trigger = "na" THEN Resting(book, t) ELSE book
           k == IF t.trigger = "na" THEN Lock(locked, t, t.rem) ELSE locked
<1>1. /\ t \in OrderSet /\ Index0 \in Index /\ orders[Index0] = NoOrder
      /\ Stored(orders) /\ orders = [j \in Index |-> orders[j]]
  BY TakerKnown, OrdersStored DEF Stored
<1>2. t # NoOrder
  BY <1>1, TypeAssumption
<1>3. /\ s.orders = O /\ s.locked = k /\ s.new = Nothing
  <2>1. Start = [ledger |-> ledger, orders |-> orders, book |-> book, locked |-> locked,
                 taker |-> t, slack |-> regs[0].slack, new |-> Nothing]
    BY DEF Start
  <2>2. s = [Start EXCEPT !.ledger = L, !.orders = O, !.book = b, !.locked = k]
    <3>1. /\ Start.ledger = ledger /\ Start.orders = orders /\ Start.book = book
          /\ Start.locked = locked /\ Start.taker = t
      BY <2>1
    <3> QED BY <3>1 DEF InsertTaker
  <2> HIDE DEF L, O, b, k, s, t
  <2> QED BY <2>1, <2>2
<1>4. /\ orders' = O /\ locked' = k /\ ask' = ask /\ bid' = bid
      /\ Put(Popped, count - 1, Nothing, NewMax)
  BY <1>3 DEF Settle
<1>5. Kept(F, Index0, t)
  <2>1. t = [t EXCEPT !.rem = t.rem] /\ t.rem \in Nat
    BY <1>1 DEF OrderSet
  <2>2. Shrunk(t)
    BY <2>1 DEF Shrunk
  <2> QED BY <2>2, TakerHeld
<1>6. RestsFit(t)
  <2>1. t.trigger = "na" => t.type \in LimitTypes
    OBVIOUS
  <2> HIDE DEF t
  <2> QED BY <1>5, <2>1 DEF Kept, SpotFits, RestsFit, LimitTypes
<1> HIDE DEF t
<1>7. OrdersKept(F, O)
  BY <1>1, <1>5, <1>6, StoreKept DEF HInv
<1>8. ASSUME TwapsStay PROVE LocksFit(k, O)
  <2>1. LocksFit(locked, orders)
    BY <1>8 DEF HInv
  <2>2. CASE t.trigger = "na"
    <3>1. LocksFit(Lock(locked, t, t.rem), O)
      BY <1>1, <1>2, <2>1, <2>2, LocksStore
    <3> QED BY <2>2, <3>1
  <2>3. CASE t.trigger # "na"
    <3>1. LocksFit(locked, O)
      BY <1>1, <2>1, <2>3, LocksSame
    <3> QED BY <2>3, <3>1
  <2> QED BY <2>2, <2>3
<1>9. RegistersKept(F, regs')
  <2>1. RegistersKept(F, Popped)
    BY PopKept DEF HInv
  <2> QED BY <1>4, <2>1, NothingKept, PutKept
<1>10. FloorFits(F, ask', bid')
  BY <1>4 DEF HInv
<1> HIDE DEF O, k
<1> QED BY <1>4, <1>7, <1>8, <1>9, <1>10 DEF HInv

\* What follows a trade changes no order and no lock.
LEMMA TradeHeldIn ==
    ASSUME NEW F, EInv, HInv(F), NEW i \in Index, MayTrade(i), NEW s,
           s = [Shrink(Start, i, Base(orders[i])) EXCEPT
                   !.ledger = Moved(i),
                   !.slack = IF Taker.type \in MarketTypes
                             THEN @ - Base(orders[i]) * Adverse(orders[i]) ELSE @]
    PROVE  HeldIn(F, s)
<1> DEFINE base == Base(orders[i])
           q == Shrink(Start, i, base)
           L == Moved(i)
           k == IF Taker.type \in MarketTypes THEN q.slack - base * Adverse(orders[i]) ELSE q.slack
<1>1. Facing(i) /\ base \in Nat /\ base <= orders[i].rem /\ base <= Taker.rem
  BY BaseFits DEF MayTrade
<1>2. Sound(q) /\ HeldIn(F, q)
  <2> HIDE DEF base
  <2> QED BY <1>1, ShrinkSound, ShrinkHeldIn
<1> HIDE DEF q
<1>3. s = [q EXCEPT !.ledger = L, !.slack = k]
  <2> DEFINE v == base * Adverse(orders[i])
  <2>1. s = [q EXCEPT !.ledger = L,
                      !.slack = IF Taker.type \in MarketTypes THEN @ - v ELSE @]
    BY DEF q
  <2>2. k = IF Taker.type \in MarketTypes THEN q.slack - v ELSE q.slack
    OBVIOUS
  <2> HIDE DEF L, v, k
  <2> QED BY <1>2, <2>1, <2>2 DEF Sound
<1> HIDE DEF L, k
<1>4. s.orders = q.orders /\ s.locked = q.locked
  BY <1>2, <1>3 DEF Sound
<1> QED BY <1>2, <1>4 DEF HeldIn

LEMMA TiedHeldIn ==
    ASSUME NEW F, NEW s, Sound(s), HeldIn(F, s), NEW accounts
    PROVE  HeldIn(F, CancelTiedOf(s, accounts))
<1> DEFINE m == Taker.market
           tied(a) == s.ledger.position[<<a, m>>].tied
           slot(a) == IF a = Taker.owner THEN 3 ELSE 2
           needed == {a \in accounts : tied(a) # 0}
           more == [j \in {slot(a) : a \in needed} |->
                       LET a == CHOOSE b \in needed : slot(b) = j IN CancelTied(a, m, tied(a))]
           both == Over(s.new, more)
           z == CancelTiedOf(s, accounts)
<1>1. z = [s EXCEPT !.new = both]
  BY DEF CancelTiedOf
<1> HIDE DEF both, z
<1>2. z.orders = s.orders /\ z.locked = s.locked
  BY <1>1 DEF Sound
<1> QED BY <1>2 DEF HeldIn, z

LEMMA PaidHeldIn ==
    ASSUME NEW F, NEW s, Sound(s), HeldIn(F, s), NEW fees
    PROVE  HeldIn(F, Paid(s, fees))
<1> DEFINE both == Over(s.new, [j \in fees |-> Transfer])
           z == Paid(s, fees)
<1>1. z = [s EXCEPT !.new = both]
  BY DEF Sound, Paid
<1> HIDE DEF both, z
<1>2. z.orders = s.orders /\ z.locked = s.locked
  BY <1>1 DEF Sound
<1> QED BY <1>2 DEF HeldIn, z

\* The branches of the matching engine.
LEMMA TakerDroppedHeld ==
    ASSUME NEW F, EInv, HInv(F), matching, Taker.trigger = "na", Settle(DropTaker(Start), TRUE)
    PROVE  HInv(F)'
<1>1. Sound(Start) /\ HeldIn(F, Start)
  BY StartSound, StartHeld
<1>2. Sound(DropTaker(Start)) /\ HeldIn(F, DropTaker(Start))
  BY <1>1, DropTakerSound, DropTakerHeldIn
<1> QED BY <1>2, SettleHeld

LEMMA DroppedHeld ==
    ASSUME NEW F, EInv, HInv(F), NEW i \in Index, Facing(i), NEW who,
           Settle(Drop(Start, i, who), "taker" \in who)
    PROVE  HInv(F)'
<1>1. matching /\ Taker.trigger = "na" /\ Start.orders[i] # NoOrder
  BY FacingFits, StartOf
<1>2. Sound(Start) /\ HeldIn(F, Start)
  BY <1>1, StartSound, StartHeld
<1>3. Sound(Drop(Start, i, who)) /\ HeldIn(F, Drop(Start, i, who))
  BY <1>1, <1>2, DropSound, DropHeldIn
<1> QED BY <1>1, <1>3, SettleDroppedHeld

LEMMA ReduceBothHeld ==
    ASSUME NEW F, EInv, HInv(F), NEW i \in Index, ReduceBoth(i)
    PROVE  HInv(F)'
<1> DEFINE size == Least({orders[i].rem, Taker.rem})
           s == Shrink(Start, i, size)
           who == {w \in {"maker", "taker"} :
                       IF w = "maker" THEN s.orders[i].rem = 0 ELSE s.taker.rem = 0}
<1>1. Facing(i) /\ Settle(Drop(s, i, who), "taker" \in who)
  BY DEF ReduceBoth
<1>2. matching /\ Taker.trigger = "na" /\ orders[i].rem \in Nat /\ Taker.rem \in Nat
  BY <1>1, FacingFits
<1>3. size \in Nat /\ size <= orders[i].rem /\ size <= Taker.rem
  BY <1>2, LeastOfTwo
<1> HIDE DEF size
<1>4. Sound(s) /\ s.orders[i] # NoOrder /\ HeldIn(F, s)
  BY <1>1, <1>3, ShrinkSound, ShrinkHeldIn
<1> HIDE DEF s, who
<1>5. Sound(Drop(s, i, who)) /\ HeldIn(F, Drop(s, i, who))
  BY <1>2, <1>4, DropSound, DropHeldIn
<1> QED BY <1>1, <1>2, <1>5, SettleDroppedHeld

LEMMA TradeHeld ==
    ASSUME NEW F, EInv, HInv(F), NEW i \in Index, NEW healed \in BOOLEAN,
           NEW fees \in SUBSET {0, 1}, Trade(i, healed, fees)
    PROVE  HInv(F)'
<1> DEFINE o == orders[i]
           m == Taker.market
           sides == {o.owner, Taker.owner}
           moved == Moved(i)
           s == [Shrink(Start, i, Base(o)) EXCEPT
                    !.ledger = Moved(i),
                    !.slack = IF Taker.type \in MarketTypes
                              THEN @ - Base(o) * Adverse(o) ELSE @]
           who == TradeDrops(s, i, Slips(o) /\ Base(o) = Allowed(o) /\ Allowed(o) # Wanted(o),
                             healed)
           flipped == {a \in sides : Sign(Size(a, m)) # Sign(moved.position[<<a, m>>].size)}
           dropped == Drop(s, i, who)
           final == CancelTiedOf(dropped, flipped)
           z == Paid(final, fees)
<1>1. MayTrade(i) /\ Settle(z, "taker" \in who)
  BY DEF Trade, Moved, Paid
<1>2. /\ Facing(i) /\ matching /\ Taker.trigger = "na"
      /\ sides \subseteq Account
  <2>1. Facing(i) /\ o \in OrderSet /\ Taker \in OrderSet
    BY <1>1, FacingFits DEF MayTrade
  <2> QED BY <2>1, FacingFits DEF OrderSet
<1>3. flipped \subseteq Account
  BY <1>2
<1>4. Sound(s) /\ s.orders[i] # NoOrder /\ HeldIn(F, s)
  BY <1>1, TradeSound, TradeHeldIn
<1> HIDE DEF s, who, flipped
<1>5. Sound(dropped) /\ HeldIn(F, dropped)
  BY <1>2, <1>4, DropSound, DropHeldIn
<1> HIDE DEF dropped
<1>6. Sound(final) /\ HeldIn(F, final)
  BY <1>2, <1>3, <1>5, TiedSound, TiedHeldIn
<1> HIDE DEF final
<1>7. Sound(z) /\ HeldIn(F, z)
  BY <1>2, <1>6, FeesSound, PaidHeldIn
<1> HIDE DEF z
<1> QED BY <1>1, <1>2, <1>7, SettleDroppedHeld

LEMMA ExecuteMatchingHeld ==
    ASSUME NEW F, EInv, HInv(F), ExecuteMatching
    PROVE  HInv(F)'
<1>1. CASE InsertWaiting \/ Rest
  BY <1>1, InsertTakerHeld DEF InsertWaiting, Rest, CanMatch
<1>2. CASE DropInvalidTaker \/ DropUnmatched
  BY <1>2, TakerDroppedHeld DEF DropInvalidTaker, DropUnmatched, CanMatch
<1>3. ASSUME NEW i \in Index, DropWithoutTrade(i) PROVE HInv(F)'
  BY <1>3, DroppedHeld DEF DropWithoutTrade
<1>4. ASSUME NEW i \in Index, ReduceBoth(i) PROVE HInv(F)'
  BY <1>4, ReduceBothHeld
<1>5. ASSUME NEW i \in Index, DropSlipped(i) PROVE HInv(F)'
  <2>1. Facing(i) /\ Settle(DropTaker(Start), TRUE)
    BY <1>5 DEF DropSlipped, MayTrade
  <2>2. matching /\ Taker.trigger = "na"
    BY <2>1, FacingFits
  <2> QED BY <2>1, <2>2, TakerDroppedHeld
<1>6. ASSUME NEW i \in Index, NEW who, Reject(i, who) PROVE HInv(F)'
  BY <1>6, DroppedHeld DEF Reject, MayTrade
<1>7. ASSUME NEW i \in Index, NEW healed \in BOOLEAN, NEW fees \in SUBSET {0, 1},
             Trade(i, healed, fees)
      PROVE  HInv(F)'
  BY <1>7, TradeHeld
<1> QED BY <1>1, <1>2, <1>3, <1>4, <1>5, <1>6, <1>7 DEF ExecuteMatching

LEMMA UsersHeld == ASSUME NEW F, EInv, EInv', HInv(F), Users PROVE HInv(F)'
<1>1. ASSUME NEW r \in Request, CreateOrder(r) \/ L1CreateOrder(r) PROVE HInv(F)'
  BY <1>1, CreateOrderHeld, L1CreateOrderHeld
<1>2. ASSUME NEW g \in Group, CreateGroupedOrders(g) PROVE HInv(F)'
  BY <1>2, CreateGroupedOrdersHeld
<1>3. ASSUME NEW i \in Index, Sent("L2ModifyOrder", i[1]), NEW c \in Change, ModifyOrder(i, c)
      PROVE  HInv(F)'
  BY <1>3, ModifyOrderHeld DEF Sent
<1>4. ASSUME NEW i \in Index, CancelOrder(i) PROVE HInv(F)'
  BY <1>4, CancelOrderHeld
<1>5. ASSUME NEW a \in Account,
             \/ CancelAllOrders(a) \/ L1CancelAllOrders(a)
             \/ \E time \in Schedules : ScheduleCancelAll(a, time)
      PROVE  HInv(F)'
  BY <1>5, LeavesHeld
<1>6. ASSUME NEW a \in Account, NEW m \in Market, CancelMarketOrders(a, m) PROVE HInv(F)'
  BY <1>6, LeavesHeld
<1>7. ASSUME NEW m \in Market, ExpireMarket(m) PROVE HInv(F)'
  BY <1>7, StillHeld
<1> QED BY <1>1, <1>2, <1>3, <1>4, <1>5, <1>6, <1>7 DEF Users

LEMMA RollupHeld == ASSUME NEW F, EInv, EInv', HInv(F), Rollup PROVE HInv(F)'
<1>1. ASSUME NEW i \in Index, CancelDeadOrder(i) \/ DropHopeless(i) \/ TriggerOrder(i)
      PROVE  HInv(F)'
  BY <1>1, CancelOrderHeld, DropHopelessHeld, TriggerOrderHeld
<1>2. ASSUME NEW i \in Index, NEW size \in 0..MaxPosition, NEW price \in RollupPrice,
             SliceTwap(i, size, price)
      PROVE  HInv(F)'
  BY <1>2, SliceTwapHeld
<1>3. ASSUME NEW a \in Account, CancelAllByDms(a) PROVE HInv(F)'
  BY <1>3, LeavesHeld
<1>4. ASSUME NEW a \in Account, NEW m \in Market, CancelAllInLiquidation(a, m) PROVE HInv(F)'
  BY <1>4, LeavesHeld
<1>5. ASSUME NEW a \in Account, NEW m \in Market, NEW size \in 1..MaxPosition,
             NEW price \in RollupPrice, LiquidatePosition(a, m, size, price)
      PROVE  HInv(F)'
  BY <1>5, LiquidatePositionHeld
<1>6. ASSUME NEW a \in Account, NEW m \in Market, NEW b \in Account, NEW size \in 1..MaxPosition,
             DeleveragePosition(a, b, m, size)
      PROVE  HInv(F)'
  BY <1>6, DeleverageHeld
<1>7. ASSUME NEW a \in Account, NEW m \in Market, ExitPosition(a, m) PROVE HInv(F)'
  BY <1>7, ExitPositionHeld
<1> QED BY <1>1, <1>2, <1>3, <1>4, <1>5, <1>6, <1>7 DEF Rollup

LEMMA NextHeld == ASSUME NEW F, EInv, EInv', HInv(F), [Next]_vars PROVE HInv(F)'
<1>1. CASE Users
  BY <1>1, UsersHeld
<1>2. CASE Rollup
  BY <1>2, RollupHeld
<1>3. CASE Finish
  <2>1. ASSUME NEW i \in Index, CancelOneOf(i) PROVE HInv(F)'
    BY <2>1, CancelOneOfHeld
  <2> QED BY <1>3, <2>1, CancelSingleHeld, TriggerTheChildHeld, StillHeld, TransferFeeHeld
          DEF Finish
<1>4. CASE ExecuteMatching
  BY <1>4, ExecuteMatchingHeld
<1>5. CASE Tick \/ UNCHANGED vars
  BY <1>5, StillHeld
<1> QED BY <1>1, <1>2, <1>3, <1>4, <1>5 DEF Next

LEMMA InitHeld == Init => HInv(Unfilled)
<1> SUFFICES ASSUME Init PROVE HInv(Unfilled)
  OBVIOUS
<1>1. /\ orders = [i \in Index |-> NoOrder]
      /\ locked = [key \in Account \X {"base", "quote"} |-> 0]
      /\ regs = Stack!EmptyStack
  BY DEF Init
<1>2. FloorFits(Unfilled, ask, bid)
  BY DEF FloorFits, Unfilled
<1>3. OrdersKept(Unfilled, orders)
  BY <1>1 DEF OrdersKept
<1>4. RegistersKept(Unfilled, regs)
  BY <1>1 DEF RegistersKept, InsertKept, Stack!EmptyStack, Stack!Slots, Depth
<1>5. LocksFit(locked, orders)
  <2>1. locked \in Balances
    BY <1>1 DEF Balances
  <2>2. ASSUME NEW a \in Account, NEW s \in {"base", "quote"}
        PROVE  locked[<<a, s>>] = LocksSum(orders, a, s)
    <3> DEFINE f == [i \in Index |-> LockedBy(orders[i], a, s)]
    <3>1. \A i \in Index : f[i] = 0
      BY <1>1, WaitingLocksNothing
    <3>2. LocksSum(orders, a, s) = SumFunctionOnSet(f, Index)
      BY DEF LocksSum
    <3> HIDE DEF f
    <3>3. LocksSum(orders, a, s) = 0
      BY <3>1, <3>2, InstancesAreSound, SumZeros
    <3> QED BY <1>1, <3>3
  <2> QED BY <2>1, <2>2 DEF LocksFit
<1> QED BY <1>2, <1>3, <1>4, <1>5 DEF HInv

LEMMA HeldAlways == Spec => []HInv(Unfilled)
<1>1. EInv /\ EInv' /\ HInv(Unfilled) /\ [Next]_vars => HInv(Unfilled)'
  BY NextHeld
<1> QED BY <1>1, InitHeld, EngineInvariant, PTL DEF Spec

\* An account has locked exactly what its resting limit orders of spot markets can still
\* take, through every fill, cancellation, expiry, self-trade and modification; unless a
\* spot market has TWAPs that are modified (the SpotTwap run).
THEOREM LocksAreExact == TwapsStay => (Spec => []LockedMatches)
<1>1. ASSUME TwapsStay PROVE HInv(Unfilled) => LockedMatches
  BY <1>1 DEF HInv, LocksFit, LocksSum, LockedMatches
<1> SUFFICES ASSUME TwapsStay PROVE Spec => []LockedMatches
  OBVIOUS
<1>2. HInv(Unfilled) => LockedMatches
  BY <1>1
<1> QED BY <1>2, HeldAlways, PTL

\* What each live order has traded so far is a floor for what it has traded later.
LEMMA LiveOnStack ==
    ASSUME EInv, NEW j \in 0..8, regs[j] # Execute, regs[j].kind = "insert_order"
    PROVE  /\ regs[j].index \in LiveOrders /\ OrderAt(regs[j].index) = regs[j].order
<1> DEFINE i == regs[j].index
<1>1. j \in 0..count - 1 /\ PlacesApart(orders, regs, count)
  <2>1. Shift!NoHolesIn(regs, count)
    BY DEF EInv, Piled, StackFits
  <2> QED BY <2>1, StackShape DEF EInv, Piled
<1>2. regs[j] \in Inserts /\ i \in LiveOrders
  BY <1>1, InsertsAre DEF LiveOrders
<1>3. orders[i] = NoOrder
  BY <1>1 DEF PlacesApart
<1> DEFINE x == CHOOSE w \in Inserts : w.index = i
<1>4. x \in Inserts /\ x.index = i
  BY <1>2
<1>5. OrderAt(i) = x.order
  BY <1>3 DEF OrderAt, Exists
<1> HIDE DEF x
<1>6. PICK k \in 0..count - 1 : x = regs[k] /\ x.kind = "insert_order"
  BY <1>4, InsertsAre
<1>7. k = j
  BY <1>1, <1>4, <1>6 DEF PlacesApart
<1> QED BY <1>2, <1>5, <1>6, <1>7

LEMMA NowIsAFloor ==
    ASSUME EInv, HInv(Unfilled), NEW F,
           F = [i \in Index |-> IF i \in LiveOrders THEN Filled(i) ELSE 0]
    PROVE  HInv(F)
<1>1. ASSUME NEW i \in LiveOrders
      PROVE  /\ i \in Index /\ GivenOut(ask, bid, i)
             /\ Filled(i) = Fill(OrderAt(i)) /\ Filled(i) \in Int
             /\ F[i] = Fill(OrderAt(i))
  <2>1. i \in Index /\ OrderAt(i) \in OrderSet
    BY LiveFits
  <2>2. Filled(i) = Fill(OrderAt(i)) /\ Filled(i) \in Int
    BY <2>1 DEF Filled, Fill, OrderSet
  <2>3. GivenOut(ask, bid, i)
    <3>1. CASE Exists(i)
      BY <2>1, <3>1 DEF Exists, EInv, World, OrdersFit, OrderFits
    <3>2. CASE ~Exists(i)
      <4>1. PICK x \in Inserts : x.index = i
        BY <3>2 DEF LiveOrders
      <4>2. PICK j \in 0..count - 1 : x = regs[j] /\ x.kind = "insert_order"
        BY InsertsAre
      <4> QED BY <4>1, <4>2 DEF EInv, Piled, StackFits, InstructionFits, OrderFits
    <3> QED BY <3>1, <3>2
  <2> QED BY <2>1, <2>2, <2>3
<1>2. FloorFits(F, ask, bid)
  <2>1. \A i \in Index : F[i] \in Int /\ (~GivenOut(ask, bid, i) => F[i] <= 0)
    BY <1>1
  <2> QED BY <2>1 DEF FloorFits
<1>3. OrdersKept(F, orders)
  <2> SUFFICES ASSUME NEW i \in Index, orders[i] # NoOrder
               PROVE  Kept(F, i, orders[i]) /\ RestsFit(orders[i])
    BY DEF OrdersKept
  <2>1. i \in LiveOrders /\ OrderAt(i) = orders[i]
    BY DEF LiveOrders, Exists, OrderAt
  <2>2. F[i] = Fill(orders[i]) /\ F[i] \in Int
    BY <1>1, <2>1
  <2>3. SpotFits(orders[i]) /\ RestsFit(orders[i])
    BY DEF HInv, OrdersKept, Kept
  <2> QED BY <2>2, <2>3 DEF Kept
<1>4. RegistersKept(F, regs)
  <2> SUFFICES ASSUME NEW j \in 0..8, regs[j] # Execute, regs[j].kind = "insert_order"
               PROVE  Kept(F, regs[j].index, regs[j].order)
    BY DEF RegistersKept, InsertKept
  <2>1. regs[j].index \in LiveOrders /\ OrderAt(regs[j].index) = regs[j].order
    BY LiveOnStack
  <2>2. F[regs[j].index] = Fill(regs[j].order) /\ F[regs[j].index] \in Int
    BY <1>1, <2>1
  <2>3. SpotFits(regs[j].order)
    BY DEF HInv, RegistersKept, InsertKept, Kept
  <2> QED BY <2>2, <2>3 DEF Kept
<1> QED BY <1>2, <1>3, <1>4 DEF HInv

LEMMA FloorHolds ==
    \A F : EInv /\ HInv(F) => \A i \in LiveOrders : Filled(i) >= F[i]
<1> SUFFICES ASSUME NEW F, EInv, HInv(F), NEW i \in LiveOrders PROVE Filled(i) >= F[i]
  OBVIOUS
<1>1. Filled(i) = Fill(OrderAt(i))
  BY DEF Filled, Fill
<1>2. CASE Exists(i) /\ i \in Index
  <2>1. OrderAt(i) = orders[i] /\ orders[i] # NoOrder
    BY <1>2 DEF OrderAt, Exists
  <2> QED BY <1>1, <1>2, <2>1 DEF HInv, OrdersKept, Kept
<1>3. CASE ~(Exists(i) /\ i \in Index)
  <2>1. PICK x \in Inserts : x.index = i
    BY <1>3 DEF LiveOrders
  <2>2. PICK j \in 0..count - 1 : x = regs[j] /\ x.kind = "insert_order"
    BY InsertsAre
  <2>3. j \in 0..8 /\ regs[j] # Execute
    <3>1. count \in 0..9
      BY StackShape DEF EInv, Piled, StackFits
    <3> QED BY <2>1, <2>2, <3>1 DEF Inserts
  <2>4. OrderAt(i) = regs[j].order
    BY <2>1, <2>2, <2>3, LiveOnStack
  <2> QED BY <1>1, <2>1, <2>2, <2>3, <2>4 DEF HInv, RegistersKept, InsertKept, Kept
<1> QED BY <1>2, <1>3

\* No modification, trigger, slice or requeue forgets what an order has traded, and nobody
\* else's nonce brings the order back with less.
THEOREM FillsNeverShrink == Spec => FillsAreKept
<1> DEFINE Grows == \A i \in LiveOrders : i \in LiveOrders' => Filled(i)' >= Filled(i)
<1>1. (\A F : EInv /\ HInv(F) => \A i \in LiveOrders : Filled(i) >= F[i])'
  BY FloorHolds, PTL
<1>2. ASSUME EInv, EInv', HInv(Unfilled), [Next]_vars PROVE Grows
  <2> SUFFICES ASSUME NEW i \in LiveOrders, i \in LiveOrders' PROVE Filled(i)' >= Filled(i)
    OBVIOUS
  <2>1. PICK F : F = [j \in Index |-> IF j \in LiveOrders THEN Filled(j) ELSE 0]
    OBVIOUS
  <2>2. HInv(F)
    BY <1>2, <2>1, NowIsAFloor
  <2>3. HInv(F)'
    BY <1>2, <2>2, NextHeld
  <2>4. i \in Index
    BY <1>2, LiveFits
  <2>5. F[i] = Filled(i)
    BY <2>1, <2>4
  <2> QED BY <1>1, <1>2, <2>3, <2>5
<1>3. EInv /\ EInv' /\ HInv(Unfilled) /\ [Next]_vars => [Grows]_vars
  BY <1>2
<1> QED BY <1>3, HeldAlways, EngineInvariant, PTL DEF Spec, FillsAreKept

-----------------------------------------------------------------------------
(* Instructions that cancel many orders.                                                *)

\* The orders an instruction takes, of any ledger L and any orders O.
TakesIn(L, x, o) ==
    \/ x.kind = "cancel_all"
    \/ x.kind = "cancel_market" /\ o.market = x.market
    \/ x.kind = "cancel_position_tied" /\ o.market = x.market /\ Ledger!IsTied(o)
    \/ /\ x.kind = "cancel_isolated" /\ o.market = x.market
       /\ L.position[<<o.owner, o.market>>].mode = Ledger!Isolated
    \/ x.kind = "cancel_cross" /\ L.position[<<o.owner, o.market>>].mode = Ledger!Cross
TakenIn(L, O, x) ==
    {i \in Index : O[i] # NoOrder /\ O[i].owner = x.owner /\ TakesIn(L, x, O[i])}

\* It has as many to go as there are.
IsExact(x) == x.kind \in CancelAllKinds /\ (x.kind = "cancel_cross" => SpotIsMargin)
Exact(L, O, x) == IsExact(x) => x.size = Cardinality(TakenIn(L, O, x))

\* What is finished before it takes none of its orders, and leaves none.
ClearAbove(r, j) ==
    \A k \in 0..j - 1 :
        \/ r[k].kind = "transfer_asset"
        \/ r[k].kind \in CancelAllKinds /\ r[k].owner # r[j].owner
CancelsFit(L, O, r, c) ==
    \A j \in 0..c - 1 : r[j].kind \in CancelAllKinds => Exact(L, O, r[j]) /\ ClearAbove(r, j)

CInv == CancelsFit(ledger, orders, regs, count)

LEMMA CoversAre ==
    ASSUME NEW x, x.kind \in CancelAllKinds
    PROVE  Covers(x) = TakenIn(ledger, orders, x)
<1>1. ASSUME NEW o PROVE Cancels(x, o) <=> TakesIn(ledger, x, o)
  <2>1. CASE x.kind = "cancel_all"
    BY <2>1 DEF Cancels, TakesIn
  <2>2. CASE x.kind = "cancel_market"
    BY <2>2 DEF Cancels, TakesIn
  <2>3. CASE x.kind = "cancel_position_tied"
    BY <2>3 DEF Cancels, TakesIn
  <2>4. CASE x.kind = "cancel_isolated"
    BY <2>4 DEF Cancels, TakesIn
  <2>5. CASE x.kind = "cancel_cross"
    BY <2>5 DEF Cancels, TakesIn
  <2> QED BY <2>1, <2>2, <2>3, <2>4, <2>5 DEF CancelAllKinds
<1>2. \A i \in Index : Cancels(x, orders[i]) <=> TakesIn(ledger, x, orders[i])
  BY <1>1
<1> QED BY <1>2 DEF Covers, TakenIn, Exists

-----------------------------------------------------------------------------
(* A stack without such instructions.                                                   *)

CancelsNone(r) == \A j \in 0..8 : r[j] # Execute => r[j].kind \notin CancelAllKinds
LeavesNone(new) == \A j \in DOMAIN new : new[j].kind \notin CancelAllKinds

LEMMA NonePut ==
    ASSUME NEW r, NEW c, NEW new, NEW max, max \in {3, NewMax}, Put(r, c, new, max),
           CancelsNone(r), LeavesNone(new)
    PROVE  CancelsNone(regs')
<1> SUFFICES ASSUME NEW j \in 0..8, regs'[j] # Execute PROVE regs'[j].kind \notin CancelAllKinds
  BY DEF CancelsNone
<1>1. \/ \E k \in 0..8 : regs'[j] = r[k]
      \/ \E k \in DOMAIN new : regs'[j] = new[k]
  BY PutSources
<1> QED BY <1>1 DEF CancelsNone, LeavesNone

LEMMA NonePopped == ASSUME CancelsNone(regs) PROVE CancelsNone(Popped)
<1>1. Popped = [j \in 0..8 |-> IF j < 8 THEN regs[j + 1] ELSE Execute]
  BY DEF Popped, Stack!PopFront, Stack!Slots, Depth
<1>2. ASSUME NEW j \in 0..8, Popped[j] # Execute PROVE Popped[j].kind \notin CancelAllKinds
  <2>1. Popped[j] = regs[j + 1] /\ j + 1 \in 0..8
    BY <1>1, <1>2
  <2> QED BY <1>2, <2>1 DEF CancelsNone
<1> QED BY <1>2 DEF CancelsNone

LEMMA NonePushed ==
    ASSUME CancelsNone(regs), NEW new, LeavesNone(new), Push(new) \/ Pop(new)
    PROVE  CancelsNone(regs')
BY NonePopped, NonePut DEF Push, Pop

LEMMA NoneFits ==
    ASSUME EInv', CancelsNone(regs')
    PROVE  CInv'
<1> DEFINE r == regs'
           c == count'
<1>1. Shift!NoHolesIn(r, c) /\ CancelsNone(r)
  BY DEF EInv, Piled, StackFits
<1> HIDE DEF r, c
<1>2. c \in 0..9 /\ \A j \in 0..8 : r[j] # Execute <=> j < c
  BY <1>1, StackShape
<1>3. ASSUME NEW j \in 0..c - 1 PROVE r[j].kind \notin CancelAllKinds
  <2>1. j \in 0..8 /\ r[j] # Execute
    BY <1>2
  <2> QED BY <1>1, <2>1 DEF CancelsNone
<1>4. CancelsFit(ledger', orders', r, c)
  BY <1>3 DEF CancelsFit
<1> QED BY <1>4 DEF CInv, r, c

\* An empty stack has none, and none is under an instruction of another kind.
LEMMA NoneIdle == ASSUME EInv, Idle PROVE CancelsNone(regs)
<1>1. count = 0 /\ Shift!NoHolesIn(regs, 0)
  BY IdleIsEmpty
<1>2. \A j \in 0..8 : regs[j] # Execute <=> j < 0
  BY <1>1, StackShape
<1> QED BY <1>2 DEF CancelsNone

LEMMA NoneUnder ==
    ASSUME EInv, CInv, regs[0] # Execute, regs[0].kind \notin CancelAllKinds,
           regs[0].kind # "transfer_asset"
    PROVE  CancelsNone(regs)
<1>1. count \in 0..9 /\ \A j \in 0..8 : regs[j] # Execute <=> j < count
  BY StackShape DEF EInv, Piled, StackFits
<1>2. ASSUME NEW j \in 0..8, regs[j] # Execute, regs[j].kind \in CancelAllKinds PROVE FALSE
  <2>1. j \in 0..count - 1 /\ j # 0 /\ j > 0
    BY <1>1, <1>2
  <2>2. 0 \in 0..j - 1
    BY <2>1
  <2>3. ClearAbove(regs, j)
    BY <1>2, <2>1 DEF CInv, CancelsFit
  <2> QED BY <2>2, <2>3 DEF ClearAbove
<1> QED BY <1>2 DEF CancelsNone

-----------------------------------------------------------------------------
(* How many there are: the counts of the ledger say it.                                 *)

\* What is counted, and the same cardinalities.
LEMMA AccountCounts ==
    ASSUME NEW L, NEW O, Count!Counted(L, O), NEW a \in Account
    PROVE  /\ L.account[a].orders = Cardinality(Count!OfAccountIn(O, a))
           /\ L.account[a].nonCross = Cardinality(Count!NonCrossIn(L, O, a))
<1>1. Count!CountsIn(L, O)
  BY DEF Count!Counted
<1> QED BY <1>1, SameCardinality DEF Count!CountsIn

LEMMA PositionCounts ==
    ASSUME NEW L, NEW O, Count!Counted(L, O), NEW a \in Account, NEW m \in Perps
    PROVE  /\ L.position[<<a, m>>].orders = Cardinality(Count!OfPositionIn(O, a, m))
           /\ L.position[<<a, m>>].tied = Cardinality(Count!TiedToIn(O, a, m))
<1>1. Count!CountsIn(L, O)
  BY DEF Count!Counted
<1> QED BY <1>1, SameCardinality DEF Count!CountsIn

\* All orders of an account, those of a market, in any or in isolated margin, and those
\* tied to a position.
LEMMA AllExact ==
    ASSUME NEW L, NEW O, Count!Counted(L, O), NEW a \in Account
    PROVE  Exact(L, O, [kind |-> "cancel_all", owner |-> a, size |-> L.account[a].orders])
<1> DEFINE x == [kind |-> "cancel_all", owner |-> a, size |-> L.account[a].orders]
<1>1. TakenIn(L, O, x) = Count!OfAccountIn(O, a)
  BY DEF TakenIn, TakesIn, Count!OfAccountIn
<1> QED BY <1>1, AccountCounts DEF Exact

LEMMA MarketExact ==
    ASSUME NEW L, NEW O, Count!Counted(L, O), NEW a \in Account, NEW m \in Perps
    PROVE  Exact(L, O, [kind |-> "cancel_market", owner |-> a, market |-> m,
                        size |-> L.position[<<a, m>>].orders])
<1> DEFINE x == [kind |-> "cancel_market", owner |-> a, market |-> m,
                 size |-> L.position[<<a, m>>].orders]
<1>1. TakenIn(L, O, x) = Count!OfPositionIn(O, a, m)
  BY DEF TakenIn, TakesIn, Count!OfPositionIn, Count!OfMarketIn
<1> QED BY <1>1, PositionCounts DEF Exact

LEMMA IsolatedExact ==
    ASSUME NEW L, NEW O, Count!Counted(L, O), NEW a \in Account, NEW m \in Perps,
           L.position[<<a, m>>].mode = Ledger!Isolated
    PROVE  Exact(L, O, [kind |-> "cancel_isolated", owner |-> a, market |-> m,
                        size |-> L.position[<<a, m>>].orders])
<1> DEFINE x == [kind |-> "cancel_isolated", owner |-> a, market |-> m,
                 size |-> L.position[<<a, m>>].orders]
<1>1. TakenIn(L, O, x) = Count!OfPositionIn(O, a, m)
  BY DEF TakenIn, TakesIn, Count!OfPositionIn, Count!OfMarketIn
<1> QED BY <1>1, PositionCounts DEF Exact

LEMMA TiedExact ==
    ASSUME NEW L, NEW O, Count!Counted(L, O), NEW a \in Account, NEW m \in Market,
           L.position[<<a, m>>].tied # 0
    PROVE  Exact(L, O, CancelTied(a, m, L.position[<<a, m>>].tied))
<1> DEFINE x == CancelTied(a, m, L.position[<<a, m>>].tied)
<1>1. /\ x.kind = "cancel_position_tied" /\ x.owner = a /\ x.market = m
      /\ x.size = L.position[<<a, m>>].tied
  BY DEF CancelTied
<1> HIDE DEF x
<1>2. TakenIn(L, O, x) = Count!TiedToIn(O, a, m)
  BY <1>1, SameTied DEF TakenIn, TakesIn, Count!TiedToIn, Count!OfPositionIn, Count!OfMarketIn
<1>3. m \in Perps
  <2> SUFFICES ASSUME m \notin Perps PROVE FALSE
    OBVIOUS
  <2>1. L.position[<<a, m>>] = Count!EmptyPosition
    BY DEF Count!Counted, Count!NoSpotIn
  <2> QED BY <2>1 DEF Count!EmptyPosition
<1> QED BY <1>1, <1>2, <1>3, PositionCounts DEF Exact, x

\* The cross orders of an account that has no orders on spot markets.
LEMMA CrossExact ==
    ASSUME NEW L, NEW O, Count!Counted(L, O), NEW a \in Account,
           SpotIsMargin => \A i \in Index : O[i] # NoOrder /\ O[i].owner = a => O[i].market \in Perps
    PROVE  Exact(L, O, [kind |-> "cancel_cross", owner |-> a,
                        size |-> L.account[a].orders - L.account[a].nonCross])
<1> DEFINE x == [kind |-> "cancel_cross", owner |-> a,
                 size |-> L.account[a].orders - L.account[a].nonCross]
           S == Count!OfAccountIn(O, a)
           T == Count!NonCrossIn(L, O, a)
<1>1. /\ x.kind = "cancel_cross" /\ x.owner = a
      /\ x.size = Cardinality(S) - Cardinality(T)
  BY AccountCounts
<1> HIDE DEF x
<1>2. T \subseteq S /\ S \subseteq Index
  BY DEF Count!OfAccountIn, Count!NonCrossIn
<1>3. IsFiniteSet(S) /\ IsFiniteSet(T)
  BY <1>2, InstancesAreSound, FS_Subset
<1>4. ASSUME SpotIsMargin PROVE TakenIn(L, O, x) = S \ T
  <2>1. ASSUME NEW i \in S PROVE TakesIn(L, x, O[i]) <=> i \notin T
    <3>1. O[i].market \in Perps /\ O[i].owner = a /\ i \in Index /\ a \in Account
      BY <1>2, <1>4, <2>1 DEF Count!OfAccountIn
    <3>2. L.position[<<a, O[i].market>>].mode \in {Ledger!Cross, Ledger!Isolated}
      <4>1. L.position \in [Account \X Market -> Count!RawPositions]
        BY DEF Count!Counted, Count!RawLedgers
      <4>2. <<a, O[i].market>> \in Account \X Market
        BY <3>1, Constants
      <4>3. L.position[<<a, O[i].market>>] \in Count!RawPositions
        BY <4>1, <4>2
      <4> QED BY <4>3 DEF Count!RawPositions, Count!Modes, Count!Cross, Count!Isolated,
                          Ledger!Cross, Ledger!Isolated
    <3>3. i \in T <=> L.position[<<a, O[i].market>>].mode = Ledger!Isolated
      BY <3>1 DEF Count!NonCrossIn, Count!Isolated, Ledger!Isolated
    <3>4. TakesIn(L, x, O[i]) <=> L.position[<<a, O[i].market>>].mode = Ledger!Cross
      BY <1>1, <3>1 DEF TakesIn
    <3> QED BY <3>2, <3>3, <3>4 DEF Ledger!Cross, Ledger!Isolated
  <2>2. TakenIn(L, O, x) = {i \in S : TakesIn(L, x, O[i])}
    BY <1>1 DEF TakenIn, Count!OfAccountIn
  <2> QED BY <2>1, <2>2
<1>5. Cardinality(S \ T) = Cardinality(S) - Cardinality(T)
  <2> HIDE DEF S, T
  <2>1. S \cap T = T
    BY <1>2
  <2>2. Cardinality(S \ T) = Cardinality(S) - Cardinality(S \cap T)
    BY <1>3, FS_Difference
  <2> QED BY <2>1, <2>2
<1> QED BY <1>1, <1>4, <1>5 DEF Exact, IsExact, x

-----------------------------------------------------------------------------
(* The transactions that start: one such instruction is left, on an empty stack.        *)

LEMMA OneFits ==
    ASSUME EInv, EInv', Idle, NEW x, x # Execute, x.kind \in CancelAllKinds,
           Exact(ledger', orders', x), Push(Slot(0, x))
    PROVE  CInv'
<1> DEFINE new == Slot(0, x)
           q == regs'
           c == count'
<1>1. /\ count = 0 /\ Shift!NoHolesIn(regs, 0) /\ Put(regs, 0, new, 3) /\ regs[0] = Execute
  BY IdleIsEmpty DEF Push, Idle
<1>2. DOMAIN new = {0} /\ new[0] = x
  BY DEF Slot
<1> HIDE DEF new
<1>3. \A j \in DOMAIN new : new[j] # Execute
  BY <1>2
<1>4. FitsWidth(regs, new, 3)
  BY <1>1, <1>2 DEF FitsWidth
<1> PICK n, place : PutAt(regs, 0, new, n, place)
  BY <1>1, <1>3, <1>4, PutPlaces
<1>5. /\ n \in 0..8 /\ c = n
      /\ \A j \in 0..n - 1 : place[j] = 0 /\ q[j] = x
      /\ \A j, k \in 0..n - 1 : j < k => place[j] < place[k]
  BY <1>2 DEF PutAt
<1> HIDE DEF q, c
<1>6. \A j \in 0..c - 1 : j = 0
  <2> SUFFICES ASSUME NEW j \in 0..c - 1, j # 0 PROVE FALSE
    OBVIOUS
  <2>1. 0 \in 0..n - 1 /\ j \in 0..n - 1 /\ 0 < j
    BY <1>5
  <2>2. place[0] < place[j] /\ place[0] = 0 /\ place[j] = 0
    BY <1>5, <2>1
  <2> QED BY <2>2
<1>7. ASSUME NEW j \in 0..c - 1 PROVE Exact(ledger', orders', q[j]) /\ ClearAbove(q, j)
  <2>1. q[j] = x
    BY <1>5
  <2>2. 0..j - 1 = {}
    BY <1>6
  <2> QED BY <2>1, <2>2 DEF ClearAbove
<1>8. CancelsFit(ledger', orders', q, c)
  BY <1>7 DEF CancelsFit
<1> QED BY <1>8 DEF CInv, q, c

LEMMA NothingLeavesNone == LeavesNone(Nothing)
BY DEF LeavesNone, Nothing

\* An instruction, or none when there is nothing to cancel.
LEMMA ManyFit ==
    ASSUME EInv, EInv', Idle, NEW x, x # Execute, x.kind \in CancelAllKinds,
           Exact(ledger', orders', x), Push(CancelMany(x))
    PROVE  CInv'
<1>1. CASE CancelMany(x) = Nothing
  BY <1>1, NoneIdle, NothingLeavesNone, NonePushed, NoneFits
<1>2. CASE CancelMany(x) = Slot(0, x)
  BY <1>2, OneFits
<1> QED BY <1>1, <1>2 DEF CancelMany

\* What starts on an empty stack and leaves instructions of other kinds.
LEMMA StartedCancels ==
    ASSUME EInv, EInv', Idle, NEW new, LeavesNone(new), Push(new)
    PROVE  CInv'
BY NoneIdle, NonePushed, NoneFits

\* Execute is no instruction.
LEMMA NotExecute == \A x \in InstructionSet : x # Execute
BY TypeAssumption

LEMMA LedgerCounts ==
    ASSUME EInv
    PROVE  /\ Count!Counted(ledger, orders)
           /\ \A a \in Account : ledger.account[a].orders \in Int /\ ledger.account[a].nonCross \in Int
           /\ \A a \in Account, m \in Market :
                 ledger.position[<<a, m>>].orders \in Int /\ ledger.position[<<a, m>>].tied \in Int
<1>1. Count!Counted(ledger, orders)
  BY DEF EInv, World, LedgerFits
<1>2. /\ ledger.account \in [Account -> [orders : Int, nonCross : Int]]
      /\ ledger.position \in [Account \X Market -> Count!RawPositions]
  BY <1>1 DEF Count!Counted, Count!RawLedgers
<1>3. ASSUME NEW a \in Account, NEW m \in Market
      PROVE  ledger.position[<<a, m>>].orders \in Int /\ ledger.position[<<a, m>>].tied \in Int
  <2>1. ledger.position[<<a, m>>] \in Count!RawPositions
    BY <1>2
  <2> QED BY <2>1 DEF Count!RawPositions
<1> QED BY <1>1, <1>2, <1>3

LEMMA CancelAllLeft ==
    ASSUME EInv, EInv', Idle, NEW a \in Account, Leave(CancelAllOf(a))
    PROVE  CInv'
<1> DEFINE x == [kind |-> "cancel_all", owner |-> a, size |-> ledger.account[a].orders]
<1>1. Exact(ledger, orders, x)
  BY LedgerCounts, AllExact
<1>2. x \in InstructionSet /\ x.kind \in CancelAllKinds
  BY LedgerCounts DEF InstructionSet, CancelAllKinds
<1>3. ledger' = ledger /\ orders' = orders /\ Push(CancelMany(x))
  BY DEF Leave, CancelAllOf
<1> HIDE DEF x
<1> QED BY <1>1, <1>2, <1>3, NotExecute, ManyFit

LEMMA CancelMarketLeft ==
    ASSUME EInv, EInv', NEW a \in Account, NEW m \in Market, CancelMarketOrders(a, m)
    PROVE  CInv'
<1> DEFINE x == [kind |-> "cancel_market", owner |-> a, market |-> m,
                 size |-> ledger.position[<<a, m>>].orders]
<1>1. Idle /\ m \in Perps /\ Leave(CancelMarketOf(a, m))
  BY DEF CancelMarketOrders
<1>2. Exact(ledger, orders, x)
  BY <1>1, LedgerCounts, MarketExact
<1>3. x \in InstructionSet /\ x.kind \in CancelAllKinds
  BY LedgerCounts DEF InstructionSet, CancelAllKinds
<1>4. ledger' = ledger /\ orders' = orders /\ Push(CancelMany(x))
  BY <1>1 DEF Leave, CancelMarketOf
<1> HIDE DEF x
<1> QED BY <1>1, <1>2, <1>3, <1>4, NotExecute, ManyFit

LEMMA CancelIsolatedLeft ==
    ASSUME EInv, EInv', Idle, NEW a \in Account, NEW m \in Market, m \in Perps,
           ledger.position[<<a, m>>].mode = Ledger!Isolated, Leave(CancelIsolatedOf(a, m))
    PROVE  CInv'
<1> DEFINE x == [kind |-> "cancel_isolated", owner |-> a, market |-> m,
                 size |-> ledger.position[<<a, m>>].orders]
<1>1. Exact(ledger, orders, x)
  BY LedgerCounts, IsolatedExact
<1>2. x \in InstructionSet /\ x.kind \in CancelAllKinds
  BY LedgerCounts DEF InstructionSet, CancelAllKinds
<1>3. ledger' = ledger /\ orders' = orders /\ Push(CancelMany(x))
  BY DEF Leave, CancelIsolatedOf
<1> HIDE DEF x
<1> QED BY <1>1, <1>2, <1>3, NotExecute, ManyFit

\* Whose orders are on spot markets.
SpotOwned(O) ==
    SpotIsMargin => \A i \in Index : O[i] # NoOrder /\ O[i].market \notin Perps =>
                        O[i].owner \in Unified \union Insurance

LEMMA CancelCrossLeft ==
    ASSUME EInv, EInv', Idle, SpotOwned(orders), NEW a \in Account, a \notin Insurance,
           Leave(CancelCrossOf(a))
    PROVE  CInv'
<1>1. CASE a \in Unified
  BY <1>1, CancelAllLeft DEF CancelCrossOf
<1>2. CASE a \notin Unified
  <2> DEFINE x == [kind |-> "cancel_cross", owner |-> a,
                   size |-> ledger.account[a].orders - ledger.account[a].nonCross]
  <2>1. Exact(ledger, orders, x)
    <3>1. SpotIsMargin => \A i \in Index :
              orders[i] # NoOrder /\ orders[i].owner = a => orders[i].market \in Perps
      BY <1>2 DEF SpotOwned
    <3> QED BY <3>1, LedgerCounts, CrossExact
  <2>2. x \in InstructionSet /\ x.kind \in CancelAllKinds
    BY LedgerCounts DEF InstructionSet, CancelAllKinds
  <2>3. ledger' = ledger /\ orders' = orders /\ Push(CancelMany(x))
    BY <1>2 DEF Leave, CancelCrossOf
  <2> HIDE DEF x
  <2> QED BY <2>1, <2>2, <2>3, NotExecute, ManyFit
<1> QED BY <1>1, <1>2

LEMMA AccountsLeave ==
    ASSUME EInv, EInv', NEW a \in Account,
           \/ CancelAllOrders(a) \/ L1CancelAllOrders(a) \/ CancelAllByDms(a)
           \/ \E time \in Schedules : ScheduleCancelAll(a, time)
    PROVE  CInv'
<1>1. CASE CancelAllOrders(a) \/ L1CancelAllOrders(a) \/ CancelAllByDms(a)
  <2>1. Idle /\ Leave(CancelAllOf(a))
    BY <1>1 DEF CancelAllOrders, L1CancelAllOrders, CancelAllByDms
  <2> QED BY <2>1, CancelAllLeft
<1>2. CASE \E time \in Schedules : ScheduleCancelAll(a, time)
  <2>1. Idle /\ Push(Nothing)
    BY <1>2 DEF ScheduleCancelAll, Leave
  <2> QED BY <2>1, NothingLeavesNone, StartedCancels
<1> QED BY <1>1, <1>2

LEMMA LeavesCancel ==
    ASSUME EInv, EInv', SpotOwned(orders), NEW a \in Account, NEW m \in Market,
           CancelMarketOrders(a, m) \/ CancelAllInLiquidation(a, m)
    PROVE  CInv'
<1>1. CASE CancelMarketOrders(a, m)
  BY <1>1, CancelMarketLeft
<1>2. CASE CancelAllInLiquidation(a, m)
  <2>1. /\ Idle /\ m \in Perps /\ a \notin Insurance
        /\ IF ledger.position[<<a, m>>].mode = Ledger!Isolated
           THEN Leave(CancelIsolatedOf(a, m)) ELSE Leave(CancelCrossOf(a))
    BY <1>2 DEF CancelAllInLiquidation
  <2> QED BY <2>1, CancelIsolatedLeft, CancelCrossLeft
<1> QED BY <1>1, <1>2

\* A deleveraged position that changes sign; the count of what is tied to it stays.
LEMMA DeleverageCancels ==
    ASSUME EInv, EInv', NEW a \in Account, NEW b \in Account, NEW m \in Market,
           NEW size \in 1..MaxPosition, DeleveragePosition(a, b, m, size)
    PROVE  CInv'
<1> DEFINE q == ledger.position[<<b, m>>]
           x == CancelTied(b, m, q.tied)
<1>1. Idle /\ \E z : Push(Flipped(b, m, q, z))
  BY DEF DeleveragePosition
<1>2. PICK z : Push(Flipped(b, m, q, z))
  BY <1>1
<1>3. CASE Flipped(b, m, q, z) = Nothing
  BY <1>1, <1>2, <1>3, NothingLeavesNone, StartedCancels
<1>4. CASE Flipped(b, m, q, z) # Nothing
  <2>1. Flipped(b, m, q, z) = Slot(0, x) /\ q.tied # 0
    BY <1>4 DEF Flipped
  <2>2. m \in Perps /\ orders' = orders
    BY DEF DeleveragePosition
  <2>3. Count!Counted(ledger', orders) /\ Count!Counted(ledger, orders)
    BY <2>2 DEF EInv, World, LedgerFits
  <2>4. ledger'.position[<<b, m>>].tied = q.tied
    BY <2>2, <2>3, PositionCounts
  <2>5. Exact(ledger', orders', x)
    BY <2>1, <2>2, <2>3, <2>4, TiedExact
  <2>6. x \in InstructionSet /\ x.kind \in CancelAllKinds
    BY LedgerCounts DEF InstructionSet, CancelAllKinds, CancelTied
  <2> HIDE DEF x
  <2> QED BY <1>1, <1>2, <2>1, <2>5, <2>6, NotExecute, OneFits
<1> QED BY <1>3, <1>4

-----------------------------------------------------------------------------
(* The transactions that finish: an order is taken, or a fee is paid.                   *)

\* The stack without its top.
LEMMA PoppedRegisters ==
    ASSUME EInv, regs[0] # Execute, Pop(Nothing)
    PROVE  /\ count \in 1..9 /\ count' = count - 1
           /\ \A j \in 0..count' - 1 : regs'[j] = regs[j + 1]
<1>1. DOMAIN Nothing = {} /\ Cardinality(DOMAIN Nothing) = 0
  BY NothingFits, SmallSets
<1>2. regs' = Popped /\ count' = count - 1 + 0
  BY <1>1 DEF Pop, Put
<1>3. count \in 1..9
  BY StackShape DEF EInv, Piled, StackFits
<1>4. Popped = [j \in 0..8 |-> IF j < 8 THEN regs[j + 1] ELSE Execute]
  BY DEF Popped, Stack!PopFront, Stack!Slots, Depth
<1>5. count' = count - 1
  BY <1>2, <1>3
<1>6. \A j \in 0..count - 1 - 1 : Popped[j] = regs[j + 1]
  BY <1>3, <1>4
<1> QED BY <1>2, <1>3, <1>5, <1>6

\* What is clear above an instruction stays clear.
LEMMA ClearPopped ==
    ASSUME NEW j \in Nat, ClearAbove(regs, j + 1), NEW r, \A k \in 0..j : r[k] = regs[k + 1]
    PROVE  ClearAbove(r, j)
<1> SUFFICES ASSUME NEW k \in 0..j - 1
             PROVE  \/ r[k].kind = "transfer_asset"
                    \/ r[k].kind \in CancelAllKinds /\ r[k].owner # r[j].owner
  BY DEF ClearAbove
<1>1. k + 1 \in 0..(j + 1) - 1 /\ k \in 0..j /\ j \in 0..j
  OBVIOUS
<1>2. r[k] = regs[k + 1] /\ r[j] = regs[j + 1]
  BY <1>1
<1> QED BY <1>1, <1>2 DEF ClearAbove

LEMMA TransferFeeCancels == ASSUME EInv, EInv', CInv, TransferFee PROVE CInv'
<1> DEFINE r == regs'
           c == count'
<1>1. regs[0] # Execute /\ Pop(Nothing) /\ ledger' = ledger /\ orders' = orders
  BY DEF TransferFee, Finishing
<1>2. count \in 1..9 /\ c = count - 1 /\ \A j \in 0..c - 1 : r[j] = regs[j + 1]
  BY <1>1, PoppedRegisters
<1> HIDE DEF r, c
<1>3. ASSUME NEW j \in 0..c - 1, r[j].kind \in CancelAllKinds
      PROVE  Exact(ledger', orders', r[j]) /\ ClearAbove(r, j)
  <2>1. r[j] = regs[j + 1] /\ j + 1 \in 0..count - 1 /\ j \in Nat
        /\ \A k \in 0..j : r[k] = regs[k + 1]
    BY <1>2
  <2>2. Exact(ledger, orders, regs[j + 1]) /\ ClearAbove(regs, j + 1)
    BY <1>3, <2>1 DEF CInv, CancelsFit
  <2> QED BY <1>1, <2>1, <2>2, ClearPopped
<1>4. CancelsFit(ledger', orders', r, c)
  BY <1>3 DEF CancelsFit
<1> QED BY <1>4 DEF CInv, r, c

\* No margin mode changes when an order is removed.
LEMMA RemoveModes ==
    ASSUME EInv, NEW i \in Index, Exists(i), Remove(i)
    PROVE  \A a \in Account, m \in Market :
               ledger'.position[<<a, m>>].mode = ledger.position[<<a, m>>].mode
<1> DEFINE o == orders[i]
           M == Ledger!Decrement(ledger, o)
<1>1. /\ Count!Counted(ledger, orders) /\ ledger \in Count!RawLedgers
      /\ orders[i] # NoOrder
  BY LedgerCounts DEF Exists, Count!Counted
<1>2. Count!IsOrder(o)
  BY <1>1 DEF Count!Counted, Count!IsOrders
<1>3. M = Count!Decrement(ledger, o) /\ ledger' = Count!Release(M, o.market)
  BY SameDecrement, SameRelease DEF Remove
<1> HIDE DEF o
<1>4. /\ M \in Count!RawLedgers
      /\ \A a \in Account, m \in Market :
             M.position[<<a, m>>].mode = ledger.position[<<a, m>>].mode
  <2> DEFINE p == ledger.position[<<o.owner, o.market>>]
             N == Count!Decrement(ledger, o)
  <2>1. /\ N \in Count!RawLedgers
        /\ \A a \in Account, m \in Market :
               IF o.owner = a /\ o.market = m /\ m \in Perps
               THEN N.position[<<a, m>>].mode = p.mode
               ELSE N.position[<<a, m>>] = ledger.position[<<a, m>>]
    <3> HIDE DEF p, N
    <3>1. p = ledger.position[<<o.owner, o.market>>] /\ N = Count!Decrement(ledger, o)
      BY DEF p, N
    <3> QED BY <1>1, <1>2, <3>1, InstancesAreSound, Count!DecrementEffect
  <2> HIDE DEF N
  <2>2. M = N
    BY <1>3 DEF N
  <2> HIDE DEF M
  <2> QED BY <2>1, <2>2
<1> HIDE DEF M
<1>5. ledger'.position = M.position
  BY <1>2, <1>3, <1>4, InstancesAreSound, Count!ReleaseEffect DEF Count!IsOrder
<1> QED BY <1>4, <1>5

\* An order that leaves is not taken any more; the others are as before.
Without(L, M, O, P, i) ==
    /\ P[i] = NoOrder /\ \A k \in Index : k # i => P[k] = O[k]
    /\ \A k \in Index : O[k] # NoOrder => O[k].owner \in Account /\ O[k].market \in Market
    /\ \A a \in Account, m \in Market : M.position[<<a, m>>].mode = L.position[<<a, m>>].mode

LEMMA TakenWithout ==
    ASSUME NEW L, NEW M, NEW O, NEW P, NEW i \in Index, Without(L, M, O, P, i), NEW x
    PROVE  TakenIn(M, P, x) = TakenIn(L, O, x) \ {i}
<1>2. ASSUME NEW k \in Index, O[k] # NoOrder
      PROVE  TakesIn(M, x, O[k]) <=> TakesIn(L, x, O[k])
  <2>1. M.position[<<O[k].owner, O[k].market>>].mode = L.position[<<O[k].owner, O[k].market>>].mode
    BY <1>2 DEF Without
  <2> QED BY <2>1 DEF TakesIn
<1>3. TakenIn(M, P, x) = TakenIn(L, O, x) \ {i}
  <2>1. \A k \in Index : k \in TakenIn(M, P, x) <=> k \in TakenIn(L, O, x) /\ k # i
    BY <1>2 DEF TakenIn, Without
  <2>2. TakenIn(M, P, x) \subseteq Index /\ TakenIn(L, O, x) \subseteq Index
    BY DEF TakenIn
  <2> QED BY <2>1, <2>2
<1> QED BY <1>3

LEMMA CancelOneOfCancels == ASSUME EInv, EInv', CInv, NEW i \in Index, CancelOneOf(i) PROVE CInv'
<1> DEFINE top == regs[0]
           x == [top EXCEPT !.size = @ - 1]
           r == regs'
           c == count'
<1>1. /\ top # Execute /\ top.kind \in CancelAllKinds /\ Exists(i) /\ Remove(i)
      /\ orders[i].owner = top.owner /\ Cancels(top, orders[i]) /\ CountDown
      /\ orders' = [orders EXCEPT ![i] = NoOrder]
  BY DEF CancelOneOf, Finishing, Remove
<1>2. /\ top \in InstructionSet /\ regs = [j \in 0..8 |-> regs[j]]
      /\ count \in 1..9
  BY <1>1, TopKnown, StackShape DEF EInv, Piled, StackFits
<1>3. /\ orders = [k \in Index |-> orders[k]]
      /\ \A k \in Index : orders[k] # NoOrder =>
             orders[k].owner \in Account /\ orders[k].market \in Market
  BY LedgerCounts DEF Count!Counted, Count!IsOrders, Count!IsOrder
<1>4. \A y : TakenIn(ledger', orders', y) = TakenIn(ledger, orders, y) \ {i}
  <2>1. \A a \in Account, m \in Market :
            ledger'.position[<<a, m>>].mode = ledger.position[<<a, m>>].mode
    BY <1>1, RemoveModes
  <2> DEFINE M == ledger'
             P == orders'
  <2>2. Without(ledger, M, orders, P, i)
    BY <1>1, <1>3, <2>1 DEF Without
  <2> HIDE DEF M, P
  <2>3. \A y : TakenIn(M, P, y) = TakenIn(ledger, orders, y) \ {i}
    BY <2>2, TakenWithout
  <2> QED BY <2>3 DEF M, P
<1>5. ASSUME NEW j \in 1..count - 1, regs[j].kind \in CancelAllKinds
      PROVE  Exact(ledger', orders', regs[j]) /\ ClearAbove(regs, j) /\ top.owner # regs[j].owner
  <2>1. Exact(ledger, orders, regs[j]) /\ ClearAbove(regs, j)
    BY <1>5 DEF CInv, CancelsFit
  <2>2. 0 \in 0..j - 1
    OBVIOUS
  <2>3. top.owner # regs[j].owner
    BY <1>1, <2>1, <2>2 DEF ClearAbove, CancelAllKinds
  <2>4. i \notin TakenIn(ledger, orders, regs[j])
    BY <1>1, <2>3 DEF TakenIn
  <2>5. TakenIn(ledger', orders', regs[j]) = TakenIn(ledger, orders, regs[j])
    BY <1>4, <2>4
  <2> QED BY <2>1, <2>3, <2>5 DEF Exact
<1>6. CASE top.size = 1
  <2>1. c = count - 1 /\ \A j \in 0..c - 1 : r[j] = regs[j + 1]
    BY <1>1, <1>6, PoppedRegisters DEF CountDown
  <2> HIDE DEF top, r, c
  <2>2. ASSUME NEW j \in 0..c - 1, r[j].kind \in CancelAllKinds
        PROVE  Exact(ledger', orders', r[j]) /\ ClearAbove(r, j)
    <3>1. count \in 1..9
      BY <1>2
    <3>2. r[j] = regs[j + 1] /\ j + 1 \in 1..count - 1 /\ j \in Nat
          /\ \A k \in 0..j : r[k] = regs[k + 1]
      BY <2>1, <3>1
    <3> QED BY <1>5, <2>2, <3>2, ClearPopped
  <2>3. CancelsFit(ledger', orders', r, c)
    BY <2>2 DEF CancelsFit
  <2> QED BY <2>3 DEF CInv, r, c
<1>7. CASE top.size # 1
  <2>1. /\ x.kind = top.kind /\ x.owner = top.owner /\ x.size = top.size - 1 /\ top.size \in Int
        /\ x.kind \in {"cancel_market", "cancel_position_tied", "cancel_isolated"} =>
               x.market = top.market
    BY <1>1, <1>2 DEF InstructionSet, CancelAllKinds
  <2>2. c = count /\ r = [regs EXCEPT ![0] = x]
    <3>1. DOMAIN Nothing = {} /\ Cardinality(DOMAIN Nothing) = 0
      BY NothingFits, SmallSets
    <3>2. Put([regs EXCEPT ![0].size = @ - 1], count, Nothing, 3)
      BY <1>1, <1>7 DEF CountDown
    <3>3. r = [regs EXCEPT ![0].size = @ - 1] /\ c = count + 0
      BY <3>1, <3>2 DEF Put
    <3> QED BY <1>2, <3>3
  <2> HIDE DEF x, r, c
  <2>3. r[0] = x /\ \A j \in 1..count - 1 : r[j] = regs[j]
    BY <1>2, <2>2
  <2>4. Exact(ledger', orders', x)
    <3> DEFINE S == TakenIn(ledger, orders, top)
    <3>1. TakenIn(ledger', orders', x) = TakenIn(ledger', orders', top)
      BY <2>1 DEF TakenIn, TakesIn
    <3>2. TakenIn(ledger', orders', top) = S \ {i}
      BY <1>4
    <3>3. i \in S /\ IsFiniteSet(S)
      <4>1. i \in Covers(top)
        BY <1>1 DEF Covers
      <4>2. S \subseteq Index
        BY DEF TakenIn
      <4> QED BY <1>1, <4>1, <4>2, CoversAre, InstancesAreSound, FS_Subset
    <3>4. Exact(ledger, orders, top)
      <4>1. 0 \in 0..count - 1
        BY <1>2
      <4> QED BY <1>1, <4>1 DEF CInv, CancelsFit
    <3> HIDE DEF S
    <3>5. Cardinality(S \ {i}) = Cardinality(S) - 1
      BY <3>3, FS_RemoveElement
    <3> QED BY <2>1, <3>1, <3>2, <3>4, <3>5 DEF Exact, IsExact, S
  <2>5. ASSUME NEW j \in 0..c - 1, r[j].kind \in CancelAllKinds
        PROVE  Exact(ledger', orders', r[j]) /\ ClearAbove(r, j)
    <3>1. CASE j = 0
      <4>1. 0..j - 1 = {}
        BY <3>1
      <4> QED BY <2>3, <2>4, <3>1, <4>1 DEF ClearAbove
    <3>2. CASE j # 0
      <4>1. j \in 1..count - 1 /\ r[j] = regs[j]
        BY <1>2, <2>2, <2>3, <3>2
      <4>2. /\ Exact(ledger', orders', regs[j]) /\ ClearAbove(regs, j)
            /\ top.owner # regs[j].owner
        BY <1>5, <2>5, <4>1
      <4>3. ASSUME NEW k \in 0..j - 1
            PROVE  \/ r[k].kind = "transfer_asset"
                   \/ r[k].kind \in CancelAllKinds /\ r[k].owner # r[j].owner
        <5>1. CASE k = 0
          BY <1>1, <2>1, <2>3, <4>1, <4>2, <5>1
        <5>2. CASE k # 0
          <6>1. k \in 1..count - 1 /\ r[k] = regs[k]
            BY <1>2, <2>3, <4>1, <5>2
          <6> QED BY <4>1, <4>2, <6>1 DEF ClearAbove
        <5> QED BY <5>1, <5>2
      <4> QED BY <4>1, <4>2, <4>3 DEF ClearAbove
    <3> QED BY <3>1, <3>2
  <2>6. CancelsFit(ledger', orders', r, c)
    BY <2>5 DEF CancelsFit
  <2> QED BY <2>6 DEF CInv, r, c
<1> QED BY <1>6, <1>7

-----------------------------------------------------------------------------
(* A step of the matching engine: what it leaves for the positions that changed sign is  *)
(* above all that was there, and under the fees.                                         *)

\* Each of what is put has as many to go as there are, once the ones above are finished.
NewCancels(L, O, new) ==
    \A j \in DOMAIN new : new[j].kind \in CancelAllKinds =>
        /\ Exact(L, O, new[j])
        /\ \A k \in DOMAIN new : k < j =>
               \/ new[k].kind = "transfer_asset"
               \/ new[k].kind \in CancelAllKinds /\ new[k].owner # new[j].owner

LEMMA PutCancels ==
    ASSUME EInv', NEW r, NEW c, Shift!NoHolesIn(r, c), CancelsNone(r),
           NEW new, NewCancels(ledger', orders', new), \A j \in DOMAIN new : new[j] # Execute,
           NEW max, FitsWidth(r, new, max), Put(r, c, new, max)
    PROVE  CInv'
<1> DEFINE q == regs'
           d == count'
<1> PICK n, place : PutAt(r, c, new, n, place)
  BY PutPlaces
<1>1. /\ n \in 0..8 /\ d = c + n
      /\ \A j \in 0..n - 1 : place[j] \in DOMAIN new /\ q[j] = new[place[j]]
      /\ \A j, k \in 0..n - 1 : j < k => place[j] < place[k]
      /\ \A j \in n..c + n - 1 : q[j] = r[j - n]
  BY DEF PutAt
<1>2. c \in 0..9 /\ \A j \in 0..8 : r[j] # Execute <=> j < c
  BY StackShape
<1> HIDE DEF q, d
<1>3. ASSUME NEW j \in 0..d - 1, q[j].kind \in CancelAllKinds
      PROVE  Exact(ledger', orders', q[j]) /\ ClearAbove(q, j)
  <2>1. j < n
    <3> SUFFICES ASSUME ~(j < n) PROVE FALSE
      OBVIOUS
    <3>1. j \in n..c + n - 1 /\ j - n \in 0..8 /\ j - n < c
      BY <1>1, <1>2
    <3>2. q[j] = r[j - n] /\ r[j - n] # Execute
      BY <1>1, <1>2, <3>1
    <3> QED BY <1>3, <3>1, <3>2 DEF CancelsNone
  <2>2. j \in 0..n - 1 /\ place[j] \in DOMAIN new /\ q[j] = new[place[j]]
    BY <1>1, <2>1
  <2>3. /\ Exact(ledger', orders', q[j])
        /\ \A k \in DOMAIN new : k < place[j] =>
               \/ new[k].kind = "transfer_asset"
               \/ new[k].kind \in CancelAllKinds /\ new[k].owner # q[j].owner
    BY <1>3, <2>2 DEF NewCancels
  <2>4. ASSUME NEW k \in 0..j - 1
        PROVE  \/ q[k].kind = "transfer_asset"
               \/ q[k].kind \in CancelAllKinds /\ q[k].owner # q[j].owner
    <3>1. k \in 0..n - 1 /\ k < j
      BY <1>1, <2>1
    <3>2. place[k] \in DOMAIN new /\ q[k] = new[place[k]] /\ place[k] < place[j]
      BY <1>1, <2>2, <3>1
    <3> QED BY <2>3, <3>2
  <2> QED BY <2>3, <2>4 DEF ClearAbove
<1>4. CancelsFit(ledger', orders', q, d)
  BY <1>3 DEF CancelsFit
<1> QED BY <1>4 DEF CInv, q, d

\* The stack of a taker, with or without it, has no such instructions.
LEMMA NoneUnderTaker ==
    ASSUME EInv, CInv, matching, NEW s
    PROVE  CancelsNone(regs) /\ CancelsNone(Popped) /\ CancelsNone(TakerLeft(s))
<1>1. /\ regs = [j \in 0..8 |-> regs[j]] /\ regs[0] # Execute
      /\ regs[0] \in InstructionSet /\ regs[0].kind = "insert_order"
  BY TakerKnown
<1>2. CancelsNone(regs)
  BY <1>1, NoneUnder DEF CancelAllKinds
<1>3. ASSUME NEW j \in 0..8, TakerLeft(s)[j] # Execute
      PROVE  TakerLeft(s)[j].kind \notin CancelAllKinds
  <2>1. CASE j = 0
    <3> DEFINE x == [regs[0] EXCEPT !.order = s.taker, !.slack = s.slack]
    <3>1. x.kind = "insert_order"
      BY <1>1 DEF InstructionSet
    <3>2. TakerLeft(s)[0] = x
      BY <1>1 DEF TakerLeft
    <3> QED BY <2>1, <3>1, <3>2 DEF CancelAllKinds
  <2>2. CASE j # 0
    <3>1. TakerLeft(s)[j] = regs[j]
      BY <1>1, <2>2 DEF TakerLeft
    <3> QED BY <1>2, <1>3, <3>1 DEF CancelsNone
  <2> QED BY <2>1, <2>2
<1> QED BY <1>2, <1>3, NonePopped DEF CancelsNone

LEMMA SettleCancels ==
    ASSUME EInv, EInv', CInv, matching, Taker.trigger = "na", NEW s, Sound(s),
           NewCancels(s.ledger, s.orders, s.new), NEW who,
           "taker" \notin who => 4 \notin DOMAIN s.new, Settle(s, "taker" \in who)
    PROVE  CInv'
<1>1. ledger' = s.ledger /\ orders' = s.orders
  BY DEF Settle
<1>2. \A j \in DOMAIN s.new : s.new[j] # Execute
  BY TypeAssumption DEF Sound, Told, InstructionFits
<1>3. NewCancels(ledger', orders', s.new)
  BY <1>1
<1>4. CASE "taker" \in who
  <2>1. Put(Popped, count - 1, s.new, NewMax)
    BY <1>4 DEF Settle
  <2>2. FitsWidth(Popped, s.new, NewMax) /\ Shift!NoHolesIn(Popped, count - 1)
    BY RoomWhenDone DEF Piled, StackFits
  <2>3. CancelsNone(Popped)
    BY NoneUnderTaker
  <2> QED BY <1>2, <1>3, <2>1, <2>2, <2>3, PutCancels
<1>5. CASE "taker" \notin who
  <2>1. Put(TakerLeft(s), count, s.new, NewMax)
    BY <1>5 DEF Settle, TakerLeft
  <2>2. FitsWidth(TakerLeft(s), s.new, NewMax) /\ Shift!NoHolesIn(TakerLeft(s), count)
    BY <1>5, RoomWhenOn DEF Piled, StackFits
  <2>3. CancelsNone(TakerLeft(s))
    BY NoneUnderTaker
  <2> QED BY <1>2, <1>3, <2>1, <2>2, <2>3, PutCancels
<1> QED BY <1>4, <1>5

\* Most steps leave instructions of other kinds.
LEMMA SettleNone ==
    ASSUME EInv, EInv', CInv, matching, NEW s, LeavesNone(s.new), NEW done, Settle(s, done)
    PROVE  CInv'
<1>1. \/ Put(Popped, count - 1, s.new, NewMax)
      \/ Put(TakerLeft(s), count, s.new, NewMax)
  BY DEF Settle, TakerLeft
<1>2. CancelsNone(Popped) /\ CancelsNone(TakerLeft(s))
  BY NoneUnderTaker
<1>3. CancelsNone(regs')
  BY <1>1, <1>2, NonePut
<1> QED BY <1>3, NoneFits

\* Children are told in the slots above 3, by instructions for one order.
ToChildren(new) == DOMAIN new \subseteq 4..7 /\ LeavesNone(new)

LEMMA ChildrenLeaveNone ==
    ASSUME NEW o, NEW size, NEW top
    PROVE  LeavesNone(CancelChildren(o, top)) /\ LeavesNone(TriggerChildren(o, size, top))
BY DEF LeavesNone, CancelChildren, TriggerChildren, CancelOne, TriggerChild, CancelAllKinds

LEMMA ToMoreChildren ==
    ASSUME NEW new, ToChildren(new), NEW more, ToChildren(more)
    PROVE  ToChildren(Over(more, new))
BY DEF ToChildren, LeavesNone, Over

LEMMA DropTells ==
    ASSUME EInv, matching, Taker.trigger = "na", NEW s, Sound(s), DOMAIN s.new = {},
           NEW i \in Index, s.orders[i] # NoOrder, NEW who
    PROVE  ToChildren(Drop(s, i, who).new)
<1>1. ToChildren(s.new)
  BY DEF ToChildren, LeavesNone
<1> DEFINE z == IF "maker" \in who THEN DropMaker(s, i) ELSE s
<1>2. Sound(z) /\ ToChildren(z.new)
  <2>1. CASE "maker" \in who
    <3> DEFINE o == s.orders[i]
               more == ChildrenOf(o, 7)
    <3>1. OrderFits(ask, bid, i, o)
      BY DEF Sound, World, OrdersFit
    <3>2. DOMAIN more \subseteq {7 - 1, 7} /\ LeavesNone(more)
      <4>1. 7 \in Nat
        OBVIOUS
      <4>2. LeavesNone(more)
        BY ChildrenLeaveNone DEF ChildrenOf
      <4> HIDE DEF more, o
      <4>3. more = ChildrenOf(o, 7)
        BY DEF more
      <4> QED BY <3>1, <4>1, <4>2, <4>3, ChildrenTold
    <3> HIDE DEF more
    <3>3. ToChildren(more)
      BY <3>2 DEF ToChildren
    <3>4. DropMaker(s, i).new = Over(more, s.new)
      BY DEF DropMaker, more, Sound
    <3> QED BY <1>1, <2>1, <3>3, <3>4, ToMoreChildren, DropMakerSound
  <2>2. CASE "maker" \notin who
    BY <1>1, <2>2
  <2> QED BY <2>1, <2>2
<1> HIDE DEF z
<1>3. Drop(s, i, who) = IF "taker" \in who THEN DropTaker(z) ELSE z
  BY DEF Drop, z
<1>4. ToChildren(DropTaker(z).new)
  <2> DEFINE more == ChildrenOf(z.taker, 5)
  <2>1. OrderFits(ask, bid, Index0, z.taker)
    BY <1>2, SmallerFits DEF Sound
  <2>2. DOMAIN more \subseteq {5 - 1, 5} /\ LeavesNone(more)
    <3>1. 5 \in Nat
      OBVIOUS
    <3>2. LeavesNone(more)
      BY ChildrenLeaveNone DEF ChildrenOf
    <3> HIDE DEF more
    <3>3. more = ChildrenOf(z.taker, 5)
      BY DEF more
    <3> QED BY <2>1, <3>1, <3>2, <3>3, ChildrenTold
  <2> HIDE DEF more
  <2>3. ToChildren(more)
    BY <2>2 DEF ToChildren
  <2>4. DropTaker(z).new = Over(more, z.new)
    BY <1>2 DEF DropTaker, more, Sound
  <2> QED BY <1>2, <2>3, <2>4, ToMoreChildren
<1> QED BY <1>2, <1>3, <1>4

\* What is tied to the positions of both sides of a trade: the maker's is cancelled first.
LEMMA TiedAfter ==
    ASSUME EInv, matching, NEW s, Sound(s), ToChildren(s.new), NEW accounts,
           NEW b \in Account, b # Taker.owner, accounts \subseteq {b, Taker.owner}
    PROVE  LET new == CancelTiedOf(s, accounts).new
               m == Taker.market
               L == s.ledger
           IN  /\ DOMAIN new \subseteq 2..7
               /\ \A j \in DOMAIN new :
                     /\ j > 3 => new[j].kind \notin CancelAllKinds
                     /\ j <= 3 =>
                           \E a \in {b, Taker.owner} :
                               /\ j = IF a = Taker.owner THEN 3 ELSE 2
                               /\ L.position[<<a, m>>].tied # 0
                               /\ new[j] = CancelTied(a, m, L.position[<<a, m>>].tied)
<1> DEFINE m == Taker.market
           tied(a) == s.ledger.position[<<a, m>>].tied
           slot(a) == IF a = Taker.owner THEN 3 ELSE 2
           needed == {a \in accounts : tied(a) # 0}
           more == [j \in {slot(a) : a \in needed} |->
                       LET a == CHOOSE c \in needed : slot(c) = j IN CancelTied(a, m, tied(a))]
           both == Over(s.new, more)
<1>1. CancelTiedOf(s, accounts).new = both
  BY DEF CancelTiedOf, Sound
<1>2. DOMAIN more \subseteq {2, 3}
  OBVIOUS
<1>3. ASSUME NEW j \in DOMAIN more
      PROVE  \E a \in {b, Taker.owner} :
                 j = slot(a) /\ tied(a) # 0 /\ more[j] = CancelTied(a, m, tied(a))
  <2> DEFINE a == CHOOSE c \in needed : slot(c) = j
  <2>1. \E c \in needed : slot(c) = j
    OBVIOUS
  <2>2. a \in needed /\ slot(a) = j
    BY <2>1
  <2>3. more[j] = CancelTied(a, m, tied(a))
    OBVIOUS
  <2>4. a \in {b, Taker.owner} /\ tied(a) # 0
    BY <2>2
  <2> HIDE DEF a, more, needed
  <2> QED BY <2>2, <2>3, <2>4
<1> HIDE DEF more
<1>4. /\ DOMAIN both = DOMAIN s.new \union DOMAIN more
      /\ \A j \in DOMAIN both :
             both[j] = IF j \in DOMAIN s.new THEN s.new[j] ELSE more[j]
  BY DEF Over
<1> HIDE DEF both
<1>5. DOMAIN both \subseteq 2..7
  BY <1>2, <1>4 DEF ToChildren
<1>6. ASSUME NEW j \in DOMAIN both, j > 3 PROVE both[j].kind \notin CancelAllKinds
  BY <1>2, <1>4, <1>6 DEF ToChildren, LeavesNone
<1>7. ASSUME NEW j \in DOMAIN both, j <= 3
      PROVE  \E a \in {b, Taker.owner} :
                 j = slot(a) /\ tied(a) # 0 /\ both[j] = CancelTied(a, m, tied(a))
  <2>1. j \notin DOMAIN s.new
    BY <1>7 DEF ToChildren
  <2>2. j \in DOMAIN more /\ both[j] = more[j]
    BY <1>4, <2>1
  <2> QED BY <1>3, <2>2
<1> QED BY <1>1, <1>5, <1>6, <1>7

LEMMA TradeCancels ==
    ASSUME EInv, EInv', CInv, NEW i \in Index, NEW healed \in BOOLEAN, NEW fees \in SUBSET {0, 1},
           Trade(i, healed, fees)
    PROVE  CInv'
<1> DEFINE o == orders[i]
           b == orders[i].owner
           m == Taker.market
           sides == {b, Taker.owner}
           moved == Moved(i)
           s == [Shrink(Start, i, Base(o)) EXCEPT
                    !.ledger = Moved(i),
                    !.slack = IF Taker.type \in MarketTypes
                              THEN @ - Base(o) * Adverse(o) ELSE @]
           who == TradeDrops(s, i, Slips(o) /\ Base(o) = Allowed(o) /\ Allowed(o) # Wanted(o),
                             healed)
           flipped == {a \in sides : Sign(Size(a, m)) # Sign(moved.position[<<a, m>>].size)}
           dropped == Drop(s, i, who)
           final == CancelTiedOf(dropped, flipped)
           z == Paid(final, fees)
<1>1. MayTrade(i) /\ Settle(z, "taker" \in who)
  BY DEF Trade, Moved, Paid
<1>2. /\ Facing(i) /\ matching /\ Taker.trigger = "na" /\ b # Taker.owner
      /\ b \in Account /\ Taker.owner \in Account /\ m \in Market
  <2>1. Facing(i) /\ o \in OrderSet /\ Taker \in OrderSet /\ b # Taker.owner
    BY <1>1, FacingFits DEF MayTrade
  <2> QED BY <2>1, FacingFits DEF OrderSet
<1>3. flipped \subseteq {b, Taker.owner} /\ flipped \subseteq Account
  BY <1>2
<1>4. Sound(s) /\ DOMAIN s.new = {} /\ s.orders[i] # NoOrder
  BY <1>1, TradeSound
<1> HIDE DEF s, who, flipped
<1>5. /\ Sound(dropped) /\ ("taker" \notin who => 4 \notin DOMAIN dropped.new)
      /\ ToChildren(dropped.new)
  BY <1>2, <1>4, DropSound, DropTells
<1> HIDE DEF dropped, b
<1>6. /\ Sound(final) /\ DOMAIN final.new \subseteq DOMAIN dropped.new \union {2, 3}
      /\ final.ledger = dropped.ledger
  BY <1>2, <1>3, <1>5, TiedSound
<1>7. /\ DOMAIN final.new \subseteq 2..7
      /\ \A j \in DOMAIN final.new :
             /\ j > 3 => final.new[j].kind \notin CancelAllKinds
             /\ j <= 3 =>
                   \E a \in {b, Taker.owner} :
                       /\ j = IF a = Taker.owner THEN 3 ELSE 2
                       /\ final.ledger.position[<<a, m>>].tied # 0
                       /\ final.new[j] = CancelTied(a, m, final.ledger.position[<<a, m>>].tied)
  BY <1>2, <1>3, <1>5, <1>6, TiedAfter
<1> HIDE DEF final, m
<1>8. /\ Sound(z) /\ DOMAIN z.new \subseteq DOMAIN final.new \union {0, 1}
      /\ z.ledger = final.ledger
  BY <1>2, <1>6, FeesSound
<1>9. \A j \in DOMAIN z.new :
          IF j \in DOMAIN final.new THEN z.new[j] = final.new[j]
          ELSE j \in {0, 1} /\ z.new[j].kind = "transfer_asset"
  <2> DEFINE more == [j \in fees |-> Transfer]
  <2>1. z.new = Over(final.new, more)
    BY <1>6 DEF Paid, Sound
  <2>2. DOMAIN more \subseteq {0, 1} /\ \A j \in DOMAIN more : more[j].kind = "transfer_asset"
    BY DEF Transfer
  <2> HIDE DEF more, z
  <2> QED BY <2>1, <2>2 DEF Over
<1> HIDE DEF z
<1>10. "taker" \notin who => 4 \notin DOMAIN z.new
  BY <1>5, <1>6, <1>8
<1>11. ledger' = z.ledger /\ orders' = z.orders /\ Count!Counted(z.ledger, z.orders)
  <2>1. ledger' = z.ledger /\ orders' = z.orders
    BY <1>1 DEF Settle
  <2> QED BY <1>8, <2>1 DEF Sound, World, LedgerFits
<1>12. NewCancels(z.ledger, z.orders, z.new)
  <2> SUFFICES ASSUME NEW j \in DOMAIN z.new, z.new[j].kind \in CancelAllKinds
               PROVE  /\ Exact(z.ledger, z.orders, z.new[j])
                      /\ \A k \in DOMAIN z.new : k < j =>
                             \/ z.new[k].kind = "transfer_asset"
                             \/ /\ z.new[k].kind \in CancelAllKinds
                                /\ z.new[k].owner # z.new[j].owner
    BY DEF NewCancels
  <2>1. j \in DOMAIN final.new /\ z.new[j] = final.new[j] /\ j \in 2..7
    BY <1>7, <1>9 DEF CancelAllKinds
  <2>2. j <= 3
    BY <1>7, <2>1
  <2>3. PICK a \in {b, Taker.owner} :
            /\ j = IF a = Taker.owner THEN 3 ELSE 2
            /\ z.ledger.position[<<a, m>>].tied # 0
            /\ z.new[j] = CancelTied(a, m, z.ledger.position[<<a, m>>].tied)
    BY <1>7, <1>8, <2>1, <2>2
  <2>4. a \in Account
    BY <1>2
  <2>5. Exact(z.ledger, z.orders, z.new[j])
    BY <1>2, <1>11, <2>3, <2>4, TiedExact
  <2>6. ASSUME NEW k \in DOMAIN z.new, k < j
        PROVE  \/ z.new[k].kind = "transfer_asset"
               \/ z.new[k].kind \in CancelAllKinds /\ z.new[k].owner # z.new[j].owner
    <3>1. CASE k \notin DOMAIN final.new
      BY <1>9, <3>1
    <3>2. CASE k \in DOMAIN final.new
      <4>1. k \in 2..7 /\ z.new[k] = final.new[k]
        BY <1>7, <1>9, <3>2
      <4>2. k = 2 /\ j = 3 /\ k <= 3
        BY <2>1, <2>2, <2>6, <4>1
      <4>3. PICK c \in {b, Taker.owner} :
                /\ k = IF c = Taker.owner THEN 3 ELSE 2
                /\ z.new[k] = CancelTied(c, m, final.ledger.position[<<c, m>>].tied)
        BY <1>7, <3>2, <4>1, <4>2
      <4>4. c # Taker.owner /\ a = Taker.owner
        BY <2>3, <4>2, <4>3
      <4> QED BY <2>3, <4>3, <4>4 DEF CancelTied, CancelAllKinds
    <3> QED BY <3>1, <3>2
  <2> QED BY <2>5, <2>6
<1> QED BY <1>1, <1>2, <1>8, <1>10, <1>12, SettleCancels

LEMMA ExecuteMatchingCancels ==
    ASSUME EInv, EInv', CInv, ExecuteMatching
    PROVE  CInv'
<1>1. CASE InsertWaiting \/ Rest
  <2>1. matching /\ Settle(InsertTaker(Start), TRUE)
    BY <1>1 DEF InsertWaiting, Rest, CanMatch
  <2>2. LeavesNone(InsertTaker(Start).new)
    <3>1. InsertTaker(Start).new = Nothing
      BY DEF InsertTaker, Start
    <3> QED BY <3>1, NothingLeavesNone
  <2> QED BY <2>1, <2>2, SettleNone
<1>2. ASSUME matching, Taker.trigger = "na", Settle(DropTaker(Start), TRUE) PROVE CInv'
  <2>1. LeavesNone(DropTaker(Start).new)
    <3>1. DropTaker(Start).new = Over(ChildrenOf(Taker, 5), Nothing)
      BY DEF DropTaker, Start
    <3>2. LeavesNone(ChildrenOf(Taker, 5))
      BY ChildrenLeaveNone DEF ChildrenOf
    <3> QED BY <3>1, <3>2, NothingLeavesNone DEF LeavesNone, Over
  <2> QED BY <1>2, <2>1, SettleNone
<1>3. CASE DropInvalidTaker \/ DropUnmatched
  BY <1>2, <1>3 DEF DropInvalidTaker, DropUnmatched, CanMatch
<1>4. ASSUME NEW i \in Index, DropSlipped(i) PROVE CInv'
  BY <1>2, <1>4, FacingFits DEF DropSlipped, MayTrade
<1>5. ASSUME NEW i \in Index, Facing(i), NEW who, Settle(Drop(Start, i, who), "taker" \in who)
      PROVE  CInv'
  <2>1. matching /\ Taker.trigger = "na" /\ Start.orders[i] # NoOrder
    BY <1>5, FacingFits, StartOf
  <2>2. ToChildren(Drop(Start, i, who).new)
    BY <2>1, StartSound, DropTells
  <2> QED BY <1>5, <2>1, <2>2, SettleNone DEF ToChildren
<1>6. ASSUME NEW i \in Index, DropWithoutTrade(i) PROVE CInv'
  BY <1>5, <1>6 DEF DropWithoutTrade
<1>7. ASSUME NEW i \in Index, NEW who, Reject(i, who) PROVE CInv'
  BY <1>5, <1>7 DEF Reject, MayTrade
<1>8. ASSUME NEW i \in Index, ReduceBoth(i) PROVE CInv'
  <2> DEFINE size == Least({orders[i].rem, Taker.rem})
             s == Shrink(Start, i, size)
             who == {w \in {"maker", "taker"} :
                         IF w = "maker" THEN s.orders[i].rem = 0 ELSE s.taker.rem = 0}
  <2>1. Facing(i) /\ Settle(Drop(s, i, who), "taker" \in who)
    BY <1>8 DEF ReduceBoth
  <2>2. matching /\ Taker.trigger = "na" /\ orders[i].rem \in Nat /\ Taker.rem \in Nat
    BY <2>1, FacingFits
  <2>3. size \in Nat /\ size <= orders[i].rem /\ size <= Taker.rem
    BY <2>2, LeastOfTwo
  <2> HIDE DEF size
  <2>4. Sound(s) /\ DOMAIN s.new = {} /\ s.orders[i] # NoOrder
    BY <2>1, <2>3, ShrinkSound
  <2> HIDE DEF s, who
  <2>5. ToChildren(Drop(s, i, who).new)
    BY <2>2, <2>4, DropTells
  <2> QED BY <2>1, <2>2, <2>5, SettleNone DEF ToChildren
<1>9. ASSUME NEW i \in Index, NEW healed \in BOOLEAN, NEW fees \in SUBSET {0, 1},
             Trade(i, healed, fees)
      PROVE  CInv'
  BY <1>9, TradeCancels
<1> QED BY <1>1, <1>3, <1>4, <1>6, <1>7, <1>8, <1>9 DEF ExecuteMatching

-----------------------------------------------------------------------------
(* The transactions that leave other instructions, or none.                             *)

LEMMA SlotLeavesNone ==
    ASSUME NEW j, NEW x, x.kind \notin CancelAllKinds
    PROVE  LeavesNone(Slot(j, x))
BY DEF LeavesNone, Slot

LEMMA InsertLeavesNone ==
    ASSUME NEW j, NEW i, NEW o
    PROVE  LeavesNone(Slot(j, Insert(i, o)))
BY DEF LeavesNone, Slot, Insert, CancelAllKinds

LEMMA UsersStart ==
    ASSUME EInv, EInv',
           \/ \E r \in Request : CreateOrder(r) \/ L1CreateOrder(r)
           \/ \E g \in Group : CreateGroupedOrders(g)
           \/ \E i \in Index, c \in Change : ModifyOrder(i, c)
           \/ \E i \in Index : CancelOrder(i)
    PROVE  CInv'
<1>1. ASSUME NEW r \in Request, CreateOrder(r) PROVE CInv'
  <2>1. Idle /\ \E new : LeavesNone(new) /\ Push(new)
    BY <1>1, NothingLeavesNone, InsertLeavesNone DEF CreateOrder
  <2> QED BY <2>1, StartedCancels
<1>2. ASSUME NEW r \in Request, L1CreateOrder(r) PROVE CInv'
  <2>1. Idle /\ \E new : LeavesNone(new) /\ Push(new)
    BY <1>2, InsertLeavesNone DEF L1CreateOrder
  <2> QED BY <2>1, StartedCancels
<1>3. ASSUME NEW g \in Group, CreateGroupedOrders(g) PROVE CInv'
  <2>1. Idle /\ \E new : LeavesNone(new) /\ Push(new)
    BY <1>3 DEF CreateGroupedOrders, LeavesNone, Insert, CancelAllKinds
  <2> QED BY <2>1, StartedCancels
<1>4. ASSUME NEW i \in Index, NEW c \in Change, ModifyOrder(i, c) PROVE CInv'
  <2>1. Idle /\ \E new : LeavesNone(new) /\ Push(new)
    BY <1>4, NothingLeavesNone, InsertLeavesNone, ChildrenLeaveNone DEF ModifyOrder
  <2> QED BY <2>1, StartedCancels
<1>5. ASSUME NEW i \in Index, CancelOrder(i) PROVE CInv'
  <2>1. Idle /\ \E new : LeavesNone(new) /\ Push(new)
    BY <1>5, ChildrenLeaveNone DEF CancelOrder
  <2> QED BY <2>1, StartedCancels
<1> QED BY <1>1, <1>2, <1>3, <1>4, <1>5

LEMMA FiredLeavesNone ==
    ASSUME NEW i, NEW o
    PROVE  LeavesNone(Fired(i, o))
<1>1. LeavesNone(Slot(1, Insert(i, o)))
  BY InsertLeavesNone
<1>2. LeavesNone(IF o.sibling = Nil THEN Nothing ELSE Slot(0, CancelOne(o, o.sibling)))
  BY NothingLeavesNone DEF LeavesNone, Slot, CancelOne, CancelAllKinds
<1> QED BY <1>1, <1>2 DEF Fired, LeavesNone, Over

LEMMA RollupStarts ==
    ASSUME EInv, EInv',
           \/ \E i \in Index : CancelDeadOrder(i) \/ DropHopeless(i) \/ TriggerOrder(i)
           \/ \E i \in Index, size \in 0..MaxPosition, price \in RollupPrice :
                 SliceTwap(i, size, price)
           \/ \E a \in Account, m \in Market, size \in 1..MaxPosition, price \in RollupPrice :
                 LiquidatePosition(a, m, size, price)
           \/ \E a \in Account, m \in Market : ExitPosition(a, m)
    PROVE  CInv'
<1>1. ASSUME NEW i \in Index, CancelDeadOrder(i) PROVE CInv'
  <2>1. Idle /\ \E new : LeavesNone(new) /\ Push(new)
    BY <1>1, ChildrenLeaveNone DEF CancelDeadOrder
  <2> QED BY <2>1, StartedCancels
<1>2. ASSUME NEW i \in Index, DropHopeless(i) PROVE CInv'
  <2>1. Idle /\ \E new : LeavesNone(new) /\ Push(new)
    BY <1>2, NothingLeavesNone DEF DropHopeless
  <2> QED BY <2>1, StartedCancels
<1>3. ASSUME NEW i \in Index, TriggerOrder(i) PROVE CInv'
  <2>1. Idle /\ \E new : LeavesNone(new) /\ Push(new)
    BY <1>3, FiredLeavesNone DEF TriggerOrder
  <2> QED BY <2>1, StartedCancels
<1>4. ASSUME NEW i \in Index, NEW size \in 0..MaxPosition, NEW price \in RollupPrice,
             SliceTwap(i, size, price)
      PROVE  CInv'
  <2>1. Idle /\ \E new : LeavesNone(new) /\ Push(new)
    BY <1>4, InsertLeavesNone DEF SliceTwap
  <2> QED BY <2>1, StartedCancels
<1>5. ASSUME NEW a \in Account, NEW m \in Market, NEW size \in 1..MaxPosition,
             NEW price \in RollupPrice, LiquidatePosition(a, m, size, price)
      PROVE  CInv'
  <2>1. Idle /\ \E new : LeavesNone(new) /\ Push(new)
    BY <1>5, InsertLeavesNone DEF LiquidatePosition
  <2> QED BY <2>1, StartedCancels
<1>6. ASSUME NEW a \in Account, NEW m \in Market, ExitPosition(a, m) PROVE CInv'
  <2>1. Idle /\ \E new : LeavesNone(new) /\ Push(new)
    BY <1>6, NothingLeavesNone DEF ExitPosition
  <2> QED BY <2>1, StartedCancels
<1> QED BY <1>1, <1>2, <1>3, <1>4, <1>5, <1>6

\* An instruction for one order has no such instruction under it.
LEMMA OneFinished ==
    ASSUME EInv, EInv', CInv, CancelSingle \/ TriggerTheChild
    PROVE  CInv'
<1>1. Finishing({"cancel_single", "trigger_child"}) /\ Pop(Nothing)
  BY DEF CancelSingle, TriggerTheChild, Finishing
<1>2. CancelsNone(regs)
  BY <1>1, NoneUnder DEF Finishing, CancelAllKinds
<1>3. CancelsNone(regs')
  BY <1>1, <1>2, NothingLeavesNone, NonePushed
<1> QED BY <1>3, NoneFits

\* What leaves the stack and the orders as they are; a market closes on an empty stack.
LEMMA StackStays ==
    ASSUME EInv, EInv', CInv,
           \/ Tick \/ ClaimOrder \/ UNCHANGED vars
           \/ \E m \in Market : ExpireMarket(m)
    PROVE  CInv'
<1>1. CASE Tick \/ ClaimOrder \/ UNCHANGED vars
  <2>1. ledger' = ledger /\ orders' = orders /\ regs' = regs /\ count' = count
    BY <1>1 DEF Tick, ClaimOrder, vars
  <2> QED BY <2>1 DEF CInv
<1>2. ASSUME NEW m \in Market, ExpireMarket(m) PROVE CInv'
  <2>1. Idle /\ regs' = regs
    BY <1>2 DEF ExpireMarket
  <2>2. CancelsNone(regs')
    BY <2>1, NoneIdle
  <2> QED BY <2>2, NoneFits
<1> QED BY <1>1, <1>2

LEMMA NextCancels ==
    ASSUME EInv, EInv', SpotOwned(orders), CInv, [Next]_vars
    PROVE  CInv'
<1>1. CASE Users
  <2>1. ASSUME NEW a \in Account,
               \/ CancelAllOrders(a) \/ L1CancelAllOrders(a)
               \/ \E time \in Schedules : ScheduleCancelAll(a, time)
        PROVE  CInv'
    BY <2>1, AccountsLeave
  <2>2. ASSUME NEW a \in Account, NEW m \in Market, CancelMarketOrders(a, m) PROVE CInv'
    BY <2>2, LeavesCancel
  <2> QED BY <1>1, <2>1, <2>2, UsersStart, StackStays DEF Users
<1>2. CASE Rollup
  <2>1. ASSUME NEW a \in Account, CancelAllByDms(a) PROVE CInv'
    BY <2>1, AccountsLeave
  <2>2. ASSUME NEW a \in Account, NEW m \in Market, CancelAllInLiquidation(a, m) PROVE CInv'
    BY <2>2, LeavesCancel
  <2>3. ASSUME NEW a \in Account, NEW m \in Market, NEW b \in Account, NEW size \in 1..MaxPosition,
               DeleveragePosition(a, b, m, size)
        PROVE  CInv'
    BY <2>3, DeleverageCancels
  <2> QED BY <1>2, <2>1, <2>2, <2>3, RollupStarts DEF Rollup
<1>3. CASE Finish
  <2>1. ASSUME NEW i \in Index, CancelOneOf(i) PROVE CInv'
    BY <2>1, CancelOneOfCancels
  <2> QED BY <1>3, <2>1, OneFinished, StackStays, TransferFeeCancels DEF Finish
<1>4. CASE ExecuteMatching
  BY <1>4, ExecuteMatchingCancels
<1>5. CASE Tick \/ UNCHANGED vars
  BY <1>5, StackStays
<1> QED BY <1>1, <1>2, <1>3, <1>4, <1>5 DEF Next

-----------------------------------------------------------------------------
(* The specification.                                                                   *)

LEMMA OrdersOwned == HInv(Unfilled) => SpotOwned(orders)
<1> SUFFICES ASSUME HInv(Unfilled), SpotIsMargin, NEW i \in Index, orders[i] # NoOrder,
                    orders[i].market \notin Perps
             PROVE  orders[i].owner \in Unified \union Insurance
  BY DEF SpotOwned
<1>1. SpotFits(orders[i])
  BY DEF HInv, OrdersKept, Kept
<1> QED BY <1>1 DEF SpotFits

LEMMA InitCancels == Init => CInv
<1> SUFFICES ASSUME Init PROVE CInv
  OBVIOUS
<1>1. 0..count - 1 = {}
  BY DEF Init
<1> QED BY <1>1 DEF CInv, CancelsFit

LEMMA CancelsAlways == Spec => []CInv
<1>1. EInv /\ EInv' /\ HInv(Unfilled) /\ CInv /\ [Next]_vars => CInv'
  BY OrdersOwned, NextCancels
<1> QED BY <1>1, InitCancels, EngineInvariant, HeldAlways, PTL DEF Spec

LEMMA TopIsExact ==
    ASSUME EInv, CInv, Finishing(CancelAllKinds), regs[0].kind = "cancel_cross" => SpotIsMargin
    PROVE  regs[0].size = Cardinality(Covers(regs[0]))
<1>1. regs[0] # Execute /\ regs[0].kind \in CancelAllKinds
  BY DEF Finishing
<1>2. 0 \in 0..count - 1
  <2>1. count \in 1..9
    BY <1>1, StackShape DEF EInv, Piled, StackFits
  <2> QED BY <2>1
<1>3. Exact(ledger, orders, regs[0])
  BY <1>1, <1>2 DEF CInv, CancelsFit
<1> QED BY <1>1, <1>3, CoversAre DEF Exact, IsExact

\* Whatever transaction left it, and whatever was matched, cancelled or paid before it came
\* to the top, an instruction that cancels all orders of an account, those of a market or
\* those tied to a position has exactly as many to go as the account orders hold: the
\* counts it was made from (account_order.rs, apply_immediate_cancel_all,
\* cancel_position_tied_account_orders) are not stale when it is finished.
CountedCancelsAreExact ==
    Finishing(CancelAllKinds \ {"cancel_cross"}) => regs[0].size = Cardinality(Covers(regs[0]))

\* Whatever joined, was filled, fired or left while such an instruction waited, its count stays
\* right (CInv holds of all instructions on the stack, not of the one on top alone).
THEOREM CountedCancelsStayExact == Spec => []CountedCancelsAreExact
<1>1. EInv /\ CInv => CountedCancelsAreExact
  BY TopIsExact DEF CountedCancelsAreExact, Finishing
<1> QED BY <1>1, EngineInvariant, CancelsAlways, PTL

\* And so has the one that cancels the cross orders of an account in liquidation, when those
\* who trade on spot markets use their spot assets as margin; otherwise it has too few
\* (apply_cross_cancel_all; the CrossCancelSpot run).
THEOREM CancelAllsAreExact == SpotIsMargin => (Spec => []CancelsAllItCovers)
<1>1. ASSUME SpotIsMargin PROVE EInv /\ CInv => CancelsAllItCovers
  BY <1>1, TopIsExact DEF CancelsAllItCovers
<1> SUFFICES ASSUME SpotIsMargin PROVE Spec => []CancelsAllItCovers
  OBVIOUS
<1>2. EInv /\ CInv => CancelsAllItCovers
  BY <1>1
<1> QED BY <1>2, EngineInvariant, CancelsAlways, PTL
=============================================================================
