--------------------------- MODULE BalancesProofs ---------------------------
(***************************************************************************)
(* What the operators of Balances and FundTransactions do to the balances:  *)
(* every one of them moves the two sides of one asset of one account, and   *)
(* keeps the supplied totals, the strategies and the caps in order while it *)
(* does.  The proofs about the transactions are put together from these.    *)
(* Then the counters of a slot for binary options: it is given to the next  *)
(* market only when no account has an order or a share of the last one, and *)
(* what was paid for a position never exceeds what its shares can pay.  The *)
(* balances play no part in these.                                          *)
(***************************************************************************)
EXTENDS Options, Sums

\* Balances before they are known not to be negative.
Tables == [Account -> [Asset -> Int]]
RawFunds == [spot       : Tables,
             margin     : Tables,
             supplied   : [Asset -> Int],
             allocated  : [Account -> Int],
             strategies : [Account -> [Strategy -> Int]],
             unlocks    : [Account -> Seq([amount : Nat, at : Nat])]]

\* The accounts as far as the split of a balance depends on them.
FundAccounts == {a \in Account : IsFund(a)}
ModeOf == [a \in Account |-> Mode(a)]

\* The balances of x in account a are the same.
Same(F, G, a, x) == G.spot[a][x] = F.spot[a][x] /\ G.margin[a][x] = F.margin[a][x]

\* From F to G, r of asset x comes to the spot side of a and m to its margin side; what
\* users supply of x follows the margin, and so does strategy s of a fund.
Moved(F, G, K, a, x, m, r, s) ==
    /\ G \in RawFunds
    /\ G.spot[a][x] = F.spot[a][x] + r
    /\ G.margin[a][x] = F.margin[a][x] + m
    /\ \A b \in Account, y \in Asset : b # a \/ y # x => Same(F, G, b, y)
    /\ \A y \in Asset \ {USDC} :
          G.supplied[y] = F.supplied[y] + (IF y = x /\ a \notin K THEN m ELSE 0)
    /\ G.supplied[USDC] = F.supplied[USDC]
    /\ \A t \in Strategy :
          G.strategies[a][t] = F.strategies[a][t]
                                  + (IF t = s /\ a \in K /\ x = USDC THEN m ELSE 0)
    /\ \A b \in Account : b # a => G.strategies[b] = F.strategies[b]
    /\ G.allocated = F.allocated
    /\ G.unlocks = F.unlocks

-----------------------------------------------------------------------------
(* One movement. *)

\* Adding to one cell of a table leaves the others as they are.
LEMMA AddTo ==
    ASSUME NEW I, NEW J, NEW T \in [I -> [J -> Int]], NEW i \in I, NEW j \in J, NEW d \in Int,
           NEW U, U = [T EXCEPT ![i][j] = @ + d]
    PROVE  /\ U \in [I -> [J -> Int]]
           /\ U[i][j] = T[i][j] + d
           /\ \A k \in J : k # j => U[i][k] = T[i][k]
           /\ \A b \in I : b # i => U[b] = T[b]
<1>1. T[i] \in [J -> Int]
  OBVIOUS
<1> DEFINE row == [T[i] EXCEPT ![j] = @ + d]
<1>2. U = [T EXCEPT ![i] = row]
  OBVIOUS
<1>3. /\ row \in [J -> Int] /\ row[j] = T[i][j] + d
      /\ \A k \in J : k # j => row[k] = T[i][k]
  BY <1>1
<1> HIDE DEF row
<1> QED BY <1>2, <1>3

\* Nor does adding to one entry of a list.
LEMMA AddToOne ==
    ASSUME NEW J, NEW T \in [J -> Int], NEW j \in J, NEW d \in Int,
           NEW U, U = [T EXCEPT ![j] = @ + d]
    PROVE  /\ U \in [J -> Int]
           /\ U[j] = T[j] + d
           /\ \A k \in J : k # j => U[k] = T[k]
OBVIOUS

\* The four leaves a movement writes.
LEMMA Shifted ==
    ASSUME NEW F \in RawFunds, NEW K, NEW a \in Account, NEW x \in Asset, NEW s \in Strategy,
           NEW m \in Int, NEW r \in Int, NEW u \in Int, NEW e \in Int, NEW G,
           NEW S, S = [F.spot EXCEPT ![a][x] = @ + r],
           NEW M, M = [F.margin EXCEPT ![a][x] = @ + m],
           NEW U, U = [F.supplied EXCEPT ![x] = @ + u],
           NEW T, T = [F.strategies EXCEPT ![a][s] = @ + e],
           G = [spot |-> S, margin |-> M, supplied |-> U, allocated |-> F.allocated,
                strategies |-> T, unlocks |-> F.unlocks],
           u = IF x # USDC /\ a \notin K THEN m ELSE 0,
           e = IF x = USDC /\ a \in K THEN m ELSE 0
    PROVE  Moved(F, G, K, a, x, m, r, s)
<1>1. /\ F.spot \in [Account -> [Asset -> Int]] /\ F.margin \in [Account -> [Asset -> Int]]
      /\ F.supplied \in [Asset -> Int] /\ F.allocated \in [Account -> Int]
      /\ F.strategies \in [Account -> [Strategy -> Int]]
      /\ F.unlocks \in [Account -> Seq([amount : Nat, at : Nat])]
  BY DEF RawFunds, Tables
<1>2. /\ G.spot = [F.spot EXCEPT ![a][x] = @ + r]
      /\ G.margin = [F.margin EXCEPT ![a][x] = @ + m]
      /\ G.supplied = [F.supplied EXCEPT ![x] = @ + u]
      /\ G.strategies = [F.strategies EXCEPT ![a][s] = @ + e]
      /\ G.allocated = F.allocated /\ G.unlocks = F.unlocks
  OBVIOUS
<1>3. /\ G.spot \in Tables /\ G.spot[a][x] = F.spot[a][x] + r
      /\ \A k \in Asset : k # x => G.spot[a][k] = F.spot[a][k]
      /\ \A b \in Account : b # a => G.spot[b] = F.spot[b]
  BY <1>1, <1>2, AddTo DEF Tables
<1>4. /\ G.margin \in Tables /\ G.margin[a][x] = F.margin[a][x] + m
      /\ \A k \in Asset : k # x => G.margin[a][k] = F.margin[a][k]
      /\ \A b \in Account : b # a => G.margin[b] = F.margin[b]
  BY <1>1, <1>2, AddTo DEF Tables
<1>5. /\ G.supplied \in [Asset -> Int] /\ G.supplied[x] = F.supplied[x] + u
      /\ \A k \in Asset : k # x => G.supplied[k] = F.supplied[k]
  BY <1>1, <1>2, AddToOne
<1>6. /\ G.strategies \in [Account -> [Strategy -> Int]]
      /\ G.strategies[a][s] = F.strategies[a][s] + e
      /\ \A k \in Strategy : k # s => G.strategies[a][k] = F.strategies[a][k]
      /\ \A b \in Account : b # a => G.strategies[b] = F.strategies[b]
  BY <1>1, <1>2, AddTo
<1>7. G \in RawFunds
  BY <1>1, <1>2, <1>3, <1>4, <1>5, <1>6 DEF RawFunds
<1>8. \A b \in Account, y \in Asset : b # a \/ y # x => Same(F, G, b, y)
  BY <1>3, <1>4 DEF Same
<1>9. USDC \in Asset
  BY BalancesAssumption
<1>10. /\ \A y \in Asset \ {USDC} :
             G.supplied[y] = F.supplied[y] + (IF y = x /\ a \notin K THEN m ELSE 0)
       /\ G.supplied[USDC] = F.supplied[USDC]
  BY SMTT(30), <1>1, <1>5, <1>9
<1>11. \A t \in Strategy :
          G.strategies[a][t] = F.strategies[a][t]
                                  + (IF t = s /\ a \in K /\ x = USDC THEN m ELSE 0)
  BY <1>1, <1>6
<1> QED BY <1>2, <1>3, <1>4, <1>6, <1>7, <1>8, <1>10, <1>11 DEF Moved

\* Adding nothing changes nothing.
LEMMA AddZero ==
    ASSUME NEW I, NEW J, NEW i \in I, NEW j \in J
    PROVE  \A T \in [I -> [J -> Int]] : [T EXCEPT ![i][j] = @ + 0] = T
OBVIOUS

\* No table of the balances changes by it.
LEMMA AddNothing ==
    ASSUME NEW F \in RawFunds, NEW a \in Account, NEW x \in Asset, NEW s \in Strategy
    PROVE  /\ F.spot = [F.spot EXCEPT ![a][x] = @ + 0]
           /\ F.margin = [F.margin EXCEPT ![a][x] = @ + 0]
           /\ F.supplied = [F.supplied EXCEPT ![x] = @ + 0]
           /\ F.strategies = [F.strategies EXCEPT ![a][s] = @ + 0]
<1>0. /\ F.spot \in [Account -> [Asset -> Int]] /\ F.margin \in [Account -> [Asset -> Int]]
      /\ F.strategies \in [Account -> [Strategy -> Int]] /\ F.supplied \in [Asset -> Int]
  BY DEF RawFunds, Tables
<1>1. \A T \in [Account -> [Asset -> Int]] : [T EXCEPT ![a][x] = @ + 0] = T
  BY AddZero
<1>2. \A T \in [Account -> [Strategy -> Int]] : [T EXCEPT ![a][s] = @ + 0] = T
  BY AddZero
<1>3. F.supplied = [F.supplied EXCEPT ![x] = @ + 0]
  BY <1>0
<1> QED BY <1>0, <1>1, <1>2, <1>3, Zenon

\* Put moves what it is told to; a fund takes no other asset than USDC on its perps side.
LEMMA PutMoves ==
    ASSUME NEW F \in RawFunds, NEW a \in Account, NEW x \in Asset, NEW side \in Products,
           NEW m \in Int, NEW d \in Int, NEW s \in Strategy,
           IsFund(a) => side = Spot \/ x = USDC
    PROVE  Moved(F, Put(F, a, x, side, m, d, s), FundAccounts, a, x, m, d - m, s)
<1> SUFFICES ASSUME NEW G, G = Put(F, a, x, side, m, d, s)
             PROVE  Moved(F, G, FundAccounts, a, x, m, d - m, s)
  OBVIOUS
<1> DEFINE u == IF x = USDC \/ (IsFund(a) /\ side = Spot) THEN 0 ELSE m
           e == IF IsFund(a) /\ x = USDC THEN m ELSE 0
           S == [F.spot EXCEPT ![a][x] = @ + (d - m)]
           M == [F.margin EXCEPT ![a][x] = @ + m]
           U == [F.supplied EXCEPT ![x] = @ + u]
           T == [F.strategies EXCEPT ![a][s] = @ + e]
<1>1. /\ u = (IF x # USDC /\ a \notin FundAccounts THEN m ELSE 0) /\ u \in Int
      /\ e = (IF x = USDC /\ a \in FundAccounts THEN m ELSE 0) /\ e \in Int
  BY DEF FundAccounts
<1>2. G = [F EXCEPT !.margin = M, !.spot = S, !.strategies = T, !.supplied = U]
  BY DEF Put
<1> HIDE DEF S, M, U, T, u, e
<1>3. G = [spot |-> S, margin |-> M, supplied |-> U, allocated |-> F.allocated,
           strategies |-> T, unlocks |-> F.unlocks]
  BY <1>2 DEF RawFunds
<1>4. d - m \in Int
  OBVIOUS
<1> QED BY SMTT(30), <1>1, <1>3, <1>4, Shifted DEF S, M, U, T

\* apply_collateral_delta moves USDC margin.
LEMMA CollateralMoves ==
    ASSUME NEW F \in RawFunds, NEW a \in Account, NEW d \in Int, NEW s \in Strategy
    PROVE  Moved(F, Collateral(F, a, d, s), FundAccounts, a, USDC, d, 0, s)
<1> SUFFICES ASSUME NEW G, G = Collateral(F, a, d, s)
             PROVE  Moved(F, G, FundAccounts, a, USDC, d, 0, s)
  OBVIOUS
<1> DEFINE e == IF IsFund(a) THEN d ELSE 0
           M == [F.margin EXCEPT ![a][USDC] = @ + d]
           T == [F.strategies EXCEPT ![a][s] = @ + e]
<1>1. e = (IF USDC = USDC /\ a \in FundAccounts THEN d ELSE 0) /\ e \in Int /\ USDC \in Asset
  BY BalancesAssumption DEF FundAccounts
<1>2. G = [F EXCEPT !.margin = M, !.strategies = T]
  BY DEF Collateral
<1> HIDE DEF M, T, e
<1>3. G = [spot |-> F.spot, margin |-> M, supplied |-> F.supplied,
           allocated |-> F.allocated, strategies |-> T, unlocks |-> F.unlocks]
  BY <1>2 DEF RawFunds
<1>4. \A x \in Asset : /\ F.spot = [F.spot EXCEPT ![a][x] = @ + 0]
                       /\ F.supplied = [F.supplied EXCEPT ![x] = @ + 0]
  <2> SUFFICES ASSUME NEW x \in Asset
               PROVE  /\ F.spot = [F.spot EXCEPT ![a][x] = @ + 0]
                      /\ F.supplied = [F.supplied EXCEPT ![x] = @ + 0]
    OBVIOUS
  <2>1. /\ F.spot = [F.spot EXCEPT ![a][x] = @ + 0]
        /\ F.margin = [F.margin EXCEPT ![a][x] = @ + 0]
        /\ F.supplied = [F.supplied EXCEPT ![x] = @ + 0]
        /\ F.strategies = [F.strategies EXCEPT ![a][s] = @ + 0]
    BY AddNothing
  <2> QED BY <2>1
<1>5. F.spot = [F.spot EXCEPT ![a][USDC] = @ + 0]
      /\ F.supplied = [F.supplied EXCEPT ![USDC] = @ + 0]
  <2> HIDE DEF e
  <2> QED BY <1>1, <1>4
<1> QED BY <1>1, <1>3, <1>5, Shifted DEF M, T

\* apply_asset_delta_raw moves one side of an account that is no fund.
LEMMA RawMoves ==
    ASSUME NEW F \in RawFunds, NEW a \in Account, NEW x \in Asset, NEW side \in Products,
           NEW d \in Int, NEW s \in Strategy, ~IsFund(a)
    PROVE  Moved(F, Raw(F, a, x, side, d), FundAccounts, a, x,
                 IF side = Spot THEN 0 ELSE d, IF side = Spot THEN d ELSE 0, s)
<1>1. a \notin FundAccounts /\ side \in {Spot, Perps} /\ Spot # Perps
  BY DEF FundAccounts, Products, Spot, Perps
<1>0. /\ F.spot = [F.spot EXCEPT ![a][x] = @ + 0]
      /\ F.margin = [F.margin EXCEPT ![a][x] = @ + 0]
      /\ F.supplied = [F.supplied EXCEPT ![x] = @ + 0]
      /\ F.strategies = [F.strategies EXCEPT ![a][s] = @ + 0]
  BY AddNothing
<1> SUFFICES ASSUME NEW G, G = Raw(F, a, x, side, d)
             PROVE  Moved(F, G, FundAccounts, a, x,
                          IF side = Spot THEN 0 ELSE d, IF side = Spot THEN d ELSE 0, s)
  OBVIOUS
<1>2. CASE side = Spot
  <2> DEFINE S == [F.spot EXCEPT ![a][x] = @ + d]
  <2>1. G = [F EXCEPT !.spot = S]
    BY <1>2 DEF Raw
  <2> HIDE DEF S
  <2>2. G = [spot |-> S, margin |-> F.margin, supplied |-> F.supplied,
             allocated |-> F.allocated, strategies |-> F.strategies, unlocks |-> F.unlocks]
    BY <2>1 DEF RawFunds
  <2>3. Moved(F, G, FundAccounts, a, x, 0, d, s)
    BY <1>0, <1>1, <2>2, Shifted DEF S
  <2> QED BY <1>2, <2>3
<1>3. CASE side = Perps
  <2> DEFINE u == IF x = USDC THEN 0 ELSE d
             M == [F.margin EXCEPT ![a][x] = @ + d]
             U == [F.supplied EXCEPT ![x] = @ + u]
  <2>0. side # Spot
    BY <1>1, <1>3
  <2>1. G = [F EXCEPT !.margin = M, !.supplied = U]
    BY <2>0 DEF Raw
  <2> HIDE DEF M, U
  <2>2. G = [spot |-> F.spot, margin |-> M, supplied |-> U, allocated |-> F.allocated,
             strategies |-> F.strategies, unlocks |-> F.unlocks]
    BY <2>1 DEF RawFunds
  <2>3. u \in Int /\ u = (IF x # USDC /\ a \notin FundAccounts THEN d ELSE 0)
    BY <1>1
  <2> HIDE DEF u
  <2>4. Moved(F, G, FundAccounts, a, x, d, 0, s)
    BY <1>0, <1>1, <2>2, <2>3, Shifted DEF M, U
  <2> QED BY <2>0, <2>4
<1> QED BY <1>1, <1>2, <1>3

-----------------------------------------------------------------------------
(* Sums. *)

\* The supplied totals are those of the margin of the accounts that are no funds; the
\* strategies of a fund add up to its USDC margin.
SumsHold(F, K) ==
    /\ \A y \in Asset \ {USDC} : F.supplied[y] = Total(F.margin, y, Account \ K)
    /\ \A b \in K : SumFunctionOnSet(F.strategies[b], Strategy) = F.margin[b][USDC]

\* A table with one cell changed has a total that changed as much, if the cell counts.
LEMMA TotalMoved ==
    ASSUME NEW T \in Tables, NEW U \in Tables, NEW who, who \subseteq Account,
           NEW a \in Account, NEW x \in Asset, NEW d \in Int, U[a][x] = T[a][x] + d,
           \A b \in Account, y \in Asset : b # a \/ y # x => U[b][y] = T[b][y],
           NEW y \in Asset
    PROVE  /\ Total(T, y, who) \in Int
           /\ Total(U, y, who) = Total(T, y, who) + (IF y = x /\ a \in who THEN d ELSE 0)
<1> DEFINE f == [b \in who |-> T[b][y]]
           g == [b \in who |-> U[b][y]]
<1>1. Total(T, y, who) = SumFunctionOnSet(f, who) /\ Total(U, y, who) = SumFunctionOnSet(g, who)
  BY DEF Total
<1>2. IsFiniteSet(who)
  BY BalancesAssumption, FS_Subset
<1>3. \A b \in who : f[b] \in Int /\ g[b] \in Int /\ f[b] = T[b][y] /\ g[b] = U[b][y]
  BY DEF Tables
<1>4. SumFunctionOnSet(f, who) \in Int
  <2> HIDE DEF f, g
  <2> QED BY <1>2, <1>3, SumInt
<1>5. CASE y = x /\ a \in who
  <2>1. \A b \in who \ {a} : g[b] = f[b]
    BY <1>3
  <2>2. g[a] = f[a] + d /\ f[a] \in Int /\ g[a] \in Int
    BY <1>3, <1>5
  <2> HIDE DEF f, g
  <2>3. SumFunctionOnSet(g, who) = SumFunctionOnSet(f, who) + g[a] - f[a]
    BY <1>2, <1>3, <1>5, <2>1, SumUpdate
  <2> QED BY <1>1, <1>4, <1>5, <2>2, <2>3
<1>6. CASE ~(y = x /\ a \in who)
  <2>1. \A b \in who : f[b] = g[b]
    BY <1>3, <1>6
  <2> HIDE DEF f, g
  <2>2. SumFunctionOnSet(f, who) = SumFunctionOnSet(g, who)
    BY <1>2, <2>1, SumSame
  <2> QED BY <1>1, <1>4, <1>6, <2>2
<1> QED BY <1>5, <1>6

\* A movement keeps the sums.
LEMMA SumsKept ==
    ASSUME NEW F \in RawFunds, NEW G, NEW K, K \subseteq Account,
           NEW a \in Account, NEW x \in Asset, NEW m \in Int, NEW r \in Int, NEW s \in Strategy,
           Moved(F, G, K, a, x, m, r, s), SumsHold(F, K)
    PROVE  SumsHold(G, K)
<1>1. /\ F.margin \in Tables /\ G.margin \in Tables
      /\ G.margin[a][x] = F.margin[a][x] + m
      /\ \A b \in Account, y \in Asset : b # a \/ y # x => G.margin[b][y] = F.margin[b][y]
  BY DEF Moved, RawFunds, Same
<1>2. ASSUME NEW y \in Asset \ {USDC}
      PROVE  G.supplied[y] = Total(G.margin, y, Account \ K)
  <2>1. F.supplied[y] = Total(F.margin, y, Account \ K)
    BY DEF SumsHold
  <2>2. Total(G.margin, y, Account \ K)
           = Total(F.margin, y, Account \ K) + (IF y = x /\ a \in Account \ K THEN m ELSE 0)
    BY <1>1, TotalMoved
  <2>3. G.supplied[y] = F.supplied[y] + (IF y = x /\ a \notin K THEN m ELSE 0)
    BY DEF Moved
  <2> QED BY <2>1, <2>2, <2>3
<1>3. ASSUME NEW b \in K
      PROVE  SumFunctionOnSet(G.strategies[b], Strategy) = G.margin[b][USDC]
  <2>1. SumFunctionOnSet(F.strategies[b], Strategy) = F.margin[b][USDC]
    BY DEF SumsHold
  <2>2. USDC \in Asset /\ IsFiniteSet(Strategy) /\ b \in Account
    BY BalancesAssumption
  <2>3. /\ F.strategies[b] \in [Strategy -> Int] /\ G.strategies[b] \in [Strategy -> Int]
        /\ F.margin[b][USDC] \in Int
    BY <2>2 DEF Moved, RawFunds, Tables
  <2>4. CASE b # a
    BY <1>1, <2>1, <2>2, <2>4 DEF Moved
  <2>5. CASE b = a /\ x = USDC
    <3>1. /\ \A t \in Strategy \ {s} : G.strategies[b][t] = F.strategies[b][t]
          /\ G.strategies[b][s] = F.strategies[b][s] + m
      BY <2>3, <2>5 DEF Moved
    <3>2. \A t \in Strategy : F.strategies[b][t] \in Int /\ G.strategies[b][t] \in Int
      BY <2>3
    <3>3. SumFunctionOnSet(G.strategies[b], Strategy)
             = SumFunctionOnSet(F.strategies[b], Strategy) + G.strategies[b][s] - F.strategies[b][s]
      BY <2>2, <3>1, <3>2, SumUpdate
    <3>4. F.strategies[b][s] \in Int
      BY <3>2
    <3> QED BY <1>1, <2>1, <2>3, <2>5, <3>1, <3>3, <3>4
  <2>6. CASE b = a /\ x # USDC
    <3>1. \A t \in Strategy : G.strategies[b][t] = F.strategies[b][t]
      BY <2>3, <2>6 DEF Moved
    <3>2. SumFunctionOnSet(F.strategies[b], Strategy) = SumFunctionOnSet(G.strategies[b], Strategy)
      BY <2>2, <3>1, SumSame
    <3> QED BY <1>1, <2>1, <2>2, <2>6, <3>2
  <2> QED BY <2>4, <2>5, <2>6
<1> QED BY <1>2, <1>3 DEF SumsHold

\* What a sequence holds is what it is a sequence of.
LEMMA ElementIn ==
    ASSUME NEW S, NEW q \in Seq(S), NEW i \in 1..Len(q)
    PROVE  q[i] \in S
OBVIOUS

\* What an account waits for is no debt.
LEMMA UnlockingNat ==
    ASSUME NEW F \in RawFunds, NEW a \in Account
    PROVE  Unlocking(F, a) \in Nat
<1> DEFINE waiting == F.unlocks[a]
           amounts == [i \in DOMAIN waiting |-> waiting[i].amount]
<1>1. waiting \in Seq([amount : Nat, at : Nat])
  BY DEF RawFunds
<1>2. DOMAIN waiting = 1..Len(waiting) /\ Len(waiting) \in Nat
  BY <1>1
<1>3. IsFiniteSet(DOMAIN waiting)
  BY <1>2, FS_Interval
<1>4. \A i \in DOMAIN waiting : amounts[i] \in Nat
  <2>1. ASSUME NEW i \in 1..Len(waiting) PROVE waiting[i].amount \in Nat
    <3>1. waiting[i] \in [amount : Nat, at : Nat]
      BY <1>1, ElementIn
    <3> QED BY <3>1
  <2> QED BY <1>2, <2>1
<1> HIDE DEF amounts
<1>5. SumFunctionOnSet(amounts, DOMAIN waiting) \in Nat
  BY <1>3, <1>4, SumNat
<1> QED BY <1>5 DEF Unlocking, amounts

\* What accounts have of an asset changes by what a movement brings.
LEMMA InAccountsMoved ==
    ASSUME NEW F, NEW G, NEW K, NEW a, NEW x, NEW s, NEW y, NEW m \in Int, NEW r \in Int,
           Moved(F, G, K, a, x, m, r, s), F \in RawFunds, a \in Account, x \in Asset,
           s \in Strategy, y \in Asset
    PROVE  InAccounts(G, y) = InAccounts(F, y) + (IF y = x THEN r + m ELSE 0)
<1>0. /\ F.margin \in Tables /\ G.margin \in Tables /\ G.margin[a][x] = F.margin[a][x] + m
      /\ \A b \in Account, z \in Asset : b # a \/ z # x => G.margin[b][z] = F.margin[b][z]
  BY DEF Moved, RawFunds, Same
<1>1. /\ F.spot \in Tables /\ G.spot \in Tables /\ G.spot[a][x] = F.spot[a][x] + r
      /\ \A b \in Account, z \in Asset : b # a \/ z # x => G.spot[b][z] = F.spot[b][z]
  BY DEF Moved, RawFunds, Same
<1>2. /\ Total(F.margin, y, Account) \in Int
      /\ Total(G.margin, y, Account)
            = Total(F.margin, y, Account) + (IF y = x /\ a \in Account THEN m ELSE 0)
  <2> DEFINE T == F.margin
             U == G.margin
  <2>1. /\ T \in Tables /\ U \in Tables /\ U[a][x] = T[a][x] + m
        /\ \A b \in Account, z \in Asset : b # a \/ z # x => U[b][z] = T[b][z]
    BY <1>0
  <2> HIDE DEF T, U
  <2>2. /\ Total(T, y, Account) \in Int
        /\ Total(U, y, Account)
              = Total(T, y, Account) + (IF y = x /\ a \in Account THEN m ELSE 0)
    BY <2>1, TotalMoved
  <2> QED BY <2>2 DEF T, U
<1>3. /\ Total(F.spot, y, Account) \in Int
      /\ Total(G.spot, y, Account)
            = Total(F.spot, y, Account) + (IF y = x /\ a \in Account THEN r ELSE 0)
  <2> DEFINE T == F.spot
             U == G.spot
  <2>1. /\ T \in Tables /\ U \in Tables /\ U[a][x] = T[a][x] + r
        /\ \A b \in Account, z \in Asset : b # a \/ z # x => U[b][z] = T[b][z]
    BY <1>1
  <2> HIDE DEF T, U
  <2>2. /\ Total(T, y, Account) \in Int
        /\ Total(U, y, Account)
              = Total(T, y, Account) + (IF y = x /\ a \in Account THEN r ELSE 0)
    BY <2>1, TotalMoved
  <2> QED BY <2>2 DEF T, U
<1> DEFINE unlocking(H) == [b \in Account |-> Unlocking(H, b)]
           rest(H) == (IF y = LIT THEN SumFunctionOnSet(unlocking(H), Account) ELSE 0)
           kept(H) == IF y = USDC THEN SumFunctionOnSet(H.allocated, Account) ELSE 0
<1>4. rest(G) = rest(F) /\ kept(G) = kept(F)
  BY DEF Moved, Unlocking
<1>5. rest(F) \in Int /\ kept(F) \in Int
  <2>1. IsFiniteSet(Account)
    BY BalancesAssumption
  <2>2. \A b \in Account : F.allocated[b] \in Int
    BY DEF RawFunds
  <2>3. SumFunctionOnSet(F.allocated, Account) \in Int
    BY <2>1, <2>2, SumInt
  <2>4. \A b \in Account : unlocking(F)[b] \in Int
    BY UnlockingNat
  <2> DEFINE u == unlocking(F)
  <2>5. SumFunctionOnSet(u, Account) \in Int
    <3> HIDE DEF u
    <3> QED BY <2>1, <2>4, SumInt DEF u
  <2> QED BY <2>3, <2>5
<1>6. \A H : InAccounts(H, y) = Total(H.spot, y, Account) + Total(H.margin, y, Account)
                                    + rest(H) + kept(H)
  BY DEF InAccounts
<1> HIDE DEF rest, kept
<1>7. /\ InAccounts(F, y) = Total(F.spot, y, Account) + Total(F.margin, y, Account)
                               + rest(F) + kept(F)
      /\ InAccounts(G, y) = Total(G.spot, y, Account) + Total(G.margin, y, Account)
                               + rest(F) + kept(F)
  BY <1>4, <1>6
<1> QED BY <1>2, <1>3, <1>5, <1>7

-----------------------------------------------------------------------------
(* Balances in their places. *)

\* No balance of x in account a is a debt, but for USDC margin.  A unified account has its
\* USDC on the margin side; an account that is no fund has margin of another asset only
\* while it uses it, and no more than its cap.
Cell(F, K, mode, used, a, x) ==
    /\ F.spot[a][x] >= 0
    /\ (mode[a] = Unified /\ x = USDC) => F.spot[a][x] = 0
    /\ x # USDC => /\ F.margin[a][x] >= 0
                   /\ a \notin K => /\ F.margin[a][x] <= UserCap[x]
                                    /\ ~used[a][x] => F.margin[a][x] = 0

Sound(F, K, mode, used) ==
    /\ F \in RawFunds
    /\ SumsHold(F, K)
    /\ \A a \in Account, x \in Asset : Cell(F, K, mode, used, a, x)
    /\ \A x \in Asset \ {USDC} : F.supplied[x] <= GlobalCap[x]
    /\ F.supplied[USDC] >= 0

\* The accounts are what the split looks at.
AccountsTyped ==
    /\ \A a \in Account : Mode(a) \in {Simple, Unified}
    /\ useMargin \in [Account -> [Asset -> BOOLEAN]]

\* What is supplied of an asset is not negative.
LEMMA SuppliedNat ==
    ASSUME NEW F, NEW K, K \subseteq Account, NEW mode, NEW used, Sound(F, K, mode, used),
           NEW x \in Asset
    PROVE  F.supplied[x] \in Nat
<1>1. CASE x = USDC
  BY <1>1 DEF Sound, RawFunds
<1>2. CASE x # USDC
  <2> DEFINE f == [b \in Account \ K |-> F.margin[b][x]]
  <2>1. F.supplied[x] = SumFunctionOnSet(f, Account \ K)
    BY <1>2 DEF Sound, SumsHold, Total
  <2>2. \A b \in Account \ K : f[b] \in Nat
    BY <1>2 DEF Sound, Cell, RawFunds, Tables
  <2>3. IsFiniteSet(Account \ K)
    BY BalancesAssumption, FS_Subset
  <2> HIDE DEF f
  <2> QED BY <2>1, <2>2, <2>3, SumNat
<1> QED BY <1>1, <1>2

\* A movement leaves everything in order if it leaves its own cell and cap in order; which
\* accounts are unified and use what as margin may change with it.
LEMMA SoundMovedTo ==
    ASSUME NEW F, NEW G, NEW K, K \subseteq Account, NEW mode, NEW used,
           Sound(F, K, mode, used),
           NEW a \in Account, NEW x \in Asset, NEW m \in Int, NEW r \in Int, NEW s \in Strategy,
           Moved(F, G, K, a, x, m, r, s),
           NEW mode2, NEW used2,
           \A b \in Account, y \in Asset : b # a \/ y # x => Cell(F, K, mode2, used2, b, y),
           Cell(G, K, mode2, used2, a, x),
           (x # USDC /\ a \notin K) => F.supplied[x] + m <= GlobalCap[x]
    PROVE  Sound(G, K, mode2, used2)
<1>1. G \in RawFunds /\ F \in RawFunds
  BY DEF Moved, Sound
<1>2. SumsHold(G, K)
  BY <1>1, SumsKept DEF Sound
<1>3. ASSUME NEW b \in Account, NEW y \in Asset PROVE Cell(G, K, mode2, used2, b, y)
  <2>1. CASE b = a /\ y = x
    BY <2>1
  <2>2. CASE b # a \/ y # x
    BY <2>2 DEF Moved, Same, Cell
  <2> QED BY <2>1, <2>2
<1>4. ASSUME NEW y \in Asset \ {USDC} PROVE G.supplied[y] <= GlobalCap[y]
  <2>1. F.supplied[y] \in Int /\ F.supplied[y] <= GlobalCap[y]
    BY <1>1 DEF Sound, RawFunds
  <2>2. G.supplied[y] = F.supplied[y] + (IF y = x /\ a \notin K THEN m ELSE 0)
    BY DEF Moved
  <2> QED BY <2>1, <2>2
<1>5. G.supplied[USDC] >= 0
  BY DEF Moved, Sound
<1> QED BY <1>1, <1>2, <1>3, <1>4, <1>5 DEF Sound

\* In particular when they do not change.
LEMMA SoundMoved ==
    ASSUME NEW F, NEW G, NEW K, K \subseteq Account, NEW mode, NEW used,
           Sound(F, K, mode, used),
           NEW a \in Account, NEW x \in Asset, NEW m \in Int, NEW r \in Int, NEW s \in Strategy,
           Moved(F, G, K, a, x, m, r, s), Cell(G, K, mode, used, a, x),
           (x # USDC /\ a \notin K) => F.supplied[x] + m <= GlobalCap[x]
    PROVE  Sound(G, K, mode, used)
<1>1. \A b \in Account, y \in Asset : b # a \/ y # x => Cell(F, K, mode, used, b, y)
  BY DEF Sound
<1> QED BY <1>1, SoundMovedTo

\* Two movements of the same balance are one.
LEMMA MovedTwice ==
    ASSUME NEW F \in RawFunds, NEW G, NEW H, NEW K, NEW a \in Account, NEW x \in Asset,
           NEW s \in Strategy, NEW m \in Int, NEW r \in Int, NEW m2 \in Int, NEW r2 \in Int,
           Moved(F, G, K, a, x, m, r, s), Moved(G, H, K, a, x, m2, r2, s)
    PROVE  Moved(F, H, K, a, x, m + m2, r + r2, s)
<1>1. /\ F.spot[a][x] \in Int /\ F.margin[a][x] \in Int
      /\ \A y \in Asset : F.supplied[y] \in Int
      /\ \A t \in Strategy : F.strategies[a][t] \in Int
  BY DEF RawFunds, Tables
<1>2. H.spot[a][x] = F.spot[a][x] + (r + r2) /\ H.margin[a][x] = F.margin[a][x] + (m + m2)
  BY <1>1 DEF Moved
<1>3. \A b \in Account, y \in Asset : b # a \/ y # x => Same(F, H, b, y)
  BY DEF Moved, Same
<1>4. \A y \in Asset \ {USDC} :
          H.supplied[y] = F.supplied[y] + (IF y = x /\ a \notin K THEN m + m2 ELSE 0)
  BY <1>1 DEF Moved
<1>5. \A t \in Strategy :
          H.strategies[a][t] = F.strategies[a][t]
                                  + (IF t = s /\ a \in K /\ x = USDC THEN m + m2 ELSE 0)
  BY <1>1 DEF Moved
<1>6. /\ H \in RawFunds /\ H.supplied[USDC] = F.supplied[USDC]
      /\ \A b \in Account : b # a => H.strategies[b] = F.strategies[b]
      /\ H.allocated = F.allocated /\ H.unlocks = F.unlocks
  BY DEF Moved
<1> QED BY <1>2, <1>3, <1>4, <1>5, <1>6 DEF Moved

\* Nothing moves a balance by zero.
LEMMA MovedNothing ==
    ASSUME NEW F \in RawFunds, NEW K, NEW a \in Account, NEW x \in Asset, NEW s \in Strategy
    PROVE  Moved(F, F, K, a, x, 0, 0, s)
<1>1. /\ F.spot[a][x] \in Int /\ F.margin[a][x] \in Int
      /\ \A y \in Asset : F.supplied[y] \in Int
      /\ \A t \in Strategy : F.strategies[a][t] \in Int
  BY DEF RawFunds, Tables
<1> QED BY <1>1 DEF Moved, Same

\* The split of a delta.
LEMMA MarginPartIs ==
    ASSUME NEW F, NEW a \in Account, NEW x \in Asset, NEW side \in Products, NEW d \in Int,
           Mode(a) \in {Simple, Unified}, NEW m, m = MarginPart(F, a, x, side, d)
    PROVE  /\ IsFund(a) /\ side = Spot => m = d
           /\ ~(IsFund(a) /\ side = Spot) =>
                 /\ Mode(a) = Simple => m = IF side = Perps THEN d ELSE 0
                 /\ Mode(a) = Unified /\ ~UsedAsMargin(a, x) => m = 0
                 /\ Mode(a) = Unified /\ UsedAsMargin(a, x) =>
                       m = IF d > 0 THEN InflowPart(F, a, x, d) ELSE OutflowPart(F, a, x, d)
<1>1. Simple # Unified
  BY DEF Simple, Unified
<1> QED BY <1>1 DEF MarginPart

\* It moves no more than there is, in one direction; USDC goes to one side, and another
\* asset enters margin as far as the caps leave room.
LEMMA MarginPartBounds ==
    ASSUME NEW F, Sound(F, FundAccounts, ModeOf, useMargin), AccountsTyped,
           NEW a \in Account, NEW x \in Asset, NEW side \in Products, NEW d \in Int,
           Splittable(a, x, side), IsFund(a) => side = Spot \/ x = USDC,
           NEW m, m = MarginPart(F, a, x, side, d)
    PROVE  /\ m \in Int
           /\ d >= 0 => 0 <= m /\ m <= d
           /\ d <= 0 => d <= m /\ m <= 0
           /\ x = USDC => m = IF Mode(a) = Simple /\ side = Spot /\ ~IsFund(a) THEN 0 ELSE d
           /\ IsFund(a) /\ side = Spot => m = d
           /\ (x # USDC /\ ~IsFund(a)) =>
                 /\ ~useMargin[a][x] => m = 0
                 /\ m > 0 => /\ F.margin[a][x] + m <= UserCap[x]
                             /\ F.supplied[x] + m <= GlobalCap[x]
<1>1. /\ Simple # Unified /\ Spot # Perps /\ side \in {Spot, Perps}
      /\ Mode(a) \in {Simple, Unified}
  BY DEF Simple, Unified, Spot, Perps, Products, AccountsTyped
<1>2. /\ F.spot[a][x] \in Int /\ F.margin[a][x] \in Int /\ F.supplied[x] \in Int
      /\ F.spot[a][x] >= 0
      /\ GlobalCap[x] \in Int /\ UserCap[x] \in Int
      /\ useMargin[a][x] \in BOOLEAN
  BY BalancesAssumption DEF Sound, RawFunds, Tables, Cell, AccountsTyped
<1>3. (Mode(a) = Unified /\ x = USDC) => F.spot[a][x] = 0
  BY DEF Sound, Cell, ModeOf
<1>4. /\ IsFund(a) /\ side = Spot => m = d
      /\ ~(IsFund(a) /\ side = Spot) =>
            /\ Mode(a) = Simple => m = IF side = Perps THEN d ELSE 0
            /\ Mode(a) = Unified /\ ~UsedAsMargin(a, x) => m = 0
            /\ Mode(a) = Unified /\ UsedAsMargin(a, x) =>
                  m = IF d > 0 THEN InflowPart(F, a, x, d) ELSE OutflowPart(F, a, x, d)
  BY <1>1, MarginPartIs
<1>5. side = Perps => /\ Mode(a) = Simple => x = USDC
                      /\ Mode(a) = Unified => UsedAsMargin(a, x)
  BY DEF Splittable
<1>6. UsedAsMargin(a, x) <=> x = USDC \/ useMargin[a][x]
  BY DEF UsedAsMargin
<1>7. (x # USDC /\ ~IsFund(a)) => F.margin[a][x] >= 0
  BY DEF Sound, Cell
<1>8. CASE IsFund(a) /\ side = Spot
  BY <1>4, <1>8
<1>9. CASE ~(IsFund(a) /\ side = Spot) /\ Mode(a) = Simple
  BY <1>1, <1>2, <1>4, <1>5, <1>9
<1>10. CASE ~(IsFund(a) /\ side = Spot) /\ Mode(a) = Unified /\ ~UsedAsMargin(a, x)
  BY <1>1, <1>2, <1>4, <1>5, <1>6, <1>10
<1>11. CASE ~(IsFund(a) /\ side = Spot) /\ Mode(a) = Unified /\ UsedAsMargin(a, x) /\ d > 0
  <2>1. m = InflowPart(F, a, x, d)
    BY <1>4, <1>11
  <2>2. CASE x = USDC
    BY <1>1, <1>2, <1>11, <2>1, <2>2 DEF InflowPart
  <2>3. CASE x # USDC
    <3> DEFINE g == GlobalCap[x] - F.supplied[x]
               u == UserCap[x] - F.margin[a][x]
    <3>1. m = Lesser(d, RemainingCap(F, a, x))
      BY <2>1, <2>3 DEF InflowPart
    <3>2. /\ RemainingCap(F, a, x) \in Int /\ RemainingCap(F, a, x) >= 0
          /\ RemainingCap(F, a, x) > 0 => RemainingCap(F, a, x) <= g /\ RemainingCap(F, a, x) <= u
      BY <1>2 DEF RemainingCap, Lesser, Positive
    <3>3. m \in Int /\ 0 <= m /\ m <= d /\ m <= RemainingCap(F, a, x)
      BY <1>11, <3>1, <3>2 DEF Lesser
    <3>4. m > 0 => m <= g /\ m <= u
      BY <1>2, <3>2, <3>3
    <3> QED BY <1>1, <1>2, <1>6, <1>11, <2>3, <3>3, <3>4
  <2> QED BY <2>2, <2>3
<1>12. CASE ~(IsFund(a) /\ side = Spot) /\ Mode(a) = Unified /\ UsedAsMargin(a, x) /\ ~(d > 0)
  <2>1. m = -Positive(-d - F.spot[a][x])
    BY <1>4, <1>12 DEF OutflowPart
  <2>2. m \in Int /\ d <= m /\ m <= 0 /\ (F.spot[a][x] = 0 => m = d)
    BY <1>2, <1>12, <2>1 DEF Positive
  <2> QED BY <1>1, <1>2, <1>3, <1>6, <1>12, <2>2
<1> QED BY <1>1, <1>8, <1>9, <1>10, <1>11, <1>12

\* apply_asset_delta moves what it splits.
LEMMA DeltaMoves ==
    ASSUME NEW F, Sound(F, FundAccounts, ModeOf, useMargin), AccountsTyped,
           NEW a \in Account, NEW x \in Asset, NEW side \in Products, NEW d \in Int,
           NEW s \in Strategy,
           Splittable(a, x, side), IsFund(a) => side = Spot \/ x = USDC,
           NEW m, m = MarginPart(F, a, x, side, d)
    PROVE  m \in Int /\ Moved(F, Delta(F, a, x, side, d, s), FundAccounts, a, x, m, d - m, s)
<1>1. m \in Int
  BY MarginPartBounds
<1>2. F \in RawFunds
  BY DEF Sound
<1> QED BY <1>1, <1>2, PutMoves DEF Delta

\* It does so whatever the balances are.
LEMMA MarginPartInt ==
    ASSUME NEW F \in RawFunds, AccountsTyped,
           NEW a \in Account, NEW x \in Asset, NEW side \in Products, NEW d \in Int,
           NEW m, m = MarginPart(F, a, x, side, d)
    PROVE  m \in Int
<1>1. Mode(a) \in {Simple, Unified}
  BY DEF AccountsTyped
<1>2. /\ F.spot[a][x] \in Int /\ F.margin[a][x] \in Int /\ F.supplied[x] \in Int
      /\ GlobalCap[x] \in Int /\ UserCap[x] \in Int
  BY BalancesAssumption DEF RawFunds, Tables
<1>3. RemainingCap(F, a, x) \in Int
  BY <1>2 DEF RemainingCap, Lesser, Positive
<1>4. InflowPart(F, a, x, d) \in Int /\ OutflowPart(F, a, x, d) \in Int
  BY <1>2, <1>3 DEF InflowPart, OutflowPart, Lesser, Positive
<1> QED BY <1>1, <1>4, MarginPartIs

\* apply_asset_delta leaves the other accounts and assets as they are.
LEMMA DeltaElsewhere ==
    ASSUME NEW F \in RawFunds, AccountsTyped,
           NEW a \in Account, NEW x \in Asset, NEW side \in Products, NEW d \in Int,
           NEW s \in Strategy, IsFund(a) => side = Spot \/ x = USDC,
           NEW G, G = Delta(F, a, x, side, d, s)
    PROVE  G \in RawFunds /\ \A b \in Account, y \in Asset : b # a \/ y # x => Same(F, G, b, y)
<1> DEFINE m == MarginPart(F, a, x, side, d)
<1>1. m \in Int
  BY MarginPartInt
<1>2. G = Put(F, a, x, side, m, d, s)
  BY DEF Delta
<1> HIDE DEF m
<1>3. Moved(F, G, FundAccounts, a, x, m, d - m, s)
  BY <1>1, <1>2, PutMoves
<1> QED BY <1>3 DEF Moved

\* It leaves everything in order, if it adds or its result is valid.
LEMMA DeltaSound ==
    ASSUME NEW F, Sound(F, FundAccounts, ModeOf, useMargin), AccountsTyped,
           NEW a \in Account, NEW x \in Asset, NEW side \in Products, NEW d \in Int,
           NEW s \in Strategy,
           Splittable(a, x, side), IsFund(a) => side = Spot \/ x = USDC,
           NEW G, G = Delta(F, a, x, side, d, s),
           d >= 0 \/ (G.spot[a][x] >= 0 /\ (x # USDC => G.margin[a][x] >= 0))
    PROVE  Sound(G, FundAccounts, ModeOf, useMargin)
<1> DEFINE m == MarginPart(F, a, x, side, d)
<1>1. m \in Int /\ Moved(F, G, FundAccounts, a, x, m, d - m, s)
  BY DeltaMoves
<1>2. /\ d >= 0 => 0 <= m /\ m <= d
      /\ d <= 0 => d <= m /\ m <= 0
      /\ x = USDC => m = IF Mode(a) = Simple /\ side = Spot /\ ~IsFund(a) THEN 0 ELSE d
      /\ (x # USDC /\ ~IsFund(a)) =>
            /\ ~useMargin[a][x] => m = 0
            /\ m > 0 => /\ F.margin[a][x] + m <= UserCap[x]
                        /\ F.supplied[x] + m <= GlobalCap[x]
  BY MarginPartBounds
<1> HIDE DEF m
<1>3. Simple # Unified
  BY DEF Simple, Unified
<1>4. /\ F.spot[a][x] \in Int /\ F.margin[a][x] \in Int /\ F.supplied[x] \in Int
      /\ GlobalCap[x] \in Int /\ UserCap[x] \in Int
  BY BalancesAssumption DEF Sound, RawFunds, Tables
<1>5. G.spot[a][x] = F.spot[a][x] + (d - m) /\ G.margin[a][x] = F.margin[a][x] + m
  BY <1>1 DEF Moved
<1>6. Cell(F, FundAccounts, ModeOf, useMargin, a, x) /\ (x # USDC => F.supplied[x] <= GlobalCap[x])
  BY DEF Sound
<1>7. ModeOf[a] = Mode(a) /\ (a \in FundAccounts <=> IsFund(a)) /\ FundAccounts \subseteq Account
  BY DEF ModeOf, FundAccounts
<1>8. Cell(G, FundAccounts, ModeOf, useMargin, a, x)
  <2>1. G.spot[a][x] >= 0 /\ (x # USDC => G.margin[a][x] >= 0)
    BY <1>1, <1>2, <1>4, <1>5, <1>6 DEF Cell
  <2>2. (Mode(a) = Unified /\ x = USDC) => G.spot[a][x] = 0
    BY <1>1, <1>2, <1>3, <1>4, <1>5, <1>6, <1>7 DEF Cell
  <2>3. (x # USDC /\ ~IsFund(a)) => /\ G.margin[a][x] <= UserCap[x]
                                    /\ ~useMargin[a][x] => G.margin[a][x] = 0
    BY <1>1, <1>2, <1>4, <1>5, <1>6, <1>7 DEF Cell
  <2> QED BY <1>7, <2>1, <2>2, <2>3 DEF Cell
<1>9. (x # USDC /\ a \notin FundAccounts) => F.supplied[x] + m <= GlobalCap[x]
  BY <1>1, <1>2, <1>4, <1>6, <1>7
<1>10. d - m \in Int
  BY <1>1
<1> QED BY <1>1, <1>7, <1>8, <1>9, <1>10, SoundMoved

-----------------------------------------------------------------------------
(* What else moves balances. *)

\* USDC enters or leaves the margin of an account: nothing else is looked at.
LEMMA CollateralSound ==
    ASSUME NEW F, Sound(F, FundAccounts, ModeOf, useMargin),
           NEW a \in Account, NEW d \in Int, NEW s \in Strategy, NEW G, G = Collateral(F, a, d, s)
    PROVE  /\ Moved(F, G, FundAccounts, a, USDC, d, 0, s)
           /\ Sound(G, FundAccounts, ModeOf, useMargin)
<1>1. F \in RawFunds /\ FundAccounts \subseteq Account /\ USDC \in Asset
  BY BalancesAssumption DEF Sound, FundAccounts
<1>2. Moved(F, G, FundAccounts, a, USDC, d, 0, s)
  BY <1>1, CollateralMoves
<1>3. G.spot[a][USDC] = F.spot[a][USDC] + 0 /\ F.spot[a][USDC] \in Int
  BY <1>1, <1>2 DEF Moved, RawFunds, Tables
<1>4. Cell(G, FundAccounts, ModeOf, useMargin, a, USDC)
  BY <1>1, <1>3 DEF Sound, Cell
<1> QED BY <1>1, <1>2, <1>4, SoundMoved

\* The total of a table is an integer.
LEMMA TotalInt ==
    ASSUME NEW T \in Tables, NEW y \in Asset
    PROVE  Total(T, y, Account) \in Int
<1> DEFINE f == [b \in Account |-> T[b][y]]
<1>1. \A b \in Account : f[b] \in Int
  BY DEF Tables
<1>2. IsFiniteSet(Account)
  BY BalancesAssumption
<1> HIDE DEF f
<1>3. SumFunctionOnSet(f, Account) \in Int
  BY <1>1, <1>2, SumInt
<1> QED BY <1>3 DEF Total, f

\* What stays when isolated margin or strategies change.
LEMMA AllocatedParts ==
    ASSUME NEW F \in RawFunds, NEW A \in [Account -> Int], NEW G, G = [F EXCEPT !.allocated = A]
    PROVE  /\ G \in RawFunds
           /\ G.spot = F.spot /\ G.margin = F.margin /\ G.supplied = F.supplied
           /\ G.allocated = A /\ G.strategies = F.strategies /\ G.unlocks = F.unlocks
BY DEF RawFunds

\* The same of strategies.
LEMMA StrategiesParts ==
    ASSUME NEW F \in RawFunds, NEW T \in [Account -> [Strategy -> Int]],
           NEW G, G = [F EXCEPT !.strategies = T]
    PROVE  /\ G \in RawFunds
           /\ G.spot = F.spot /\ G.margin = F.margin /\ G.supplied = F.supplied
           /\ G.allocated = F.allocated /\ G.strategies = T /\ G.unlocks = F.unlocks
BY DEF RawFunds

\* The sides of the accounts and the supplied totals are all that is looked at, with the
\* sums of the strategies.
LEMMA SoundSame ==
    ASSUME NEW F, NEW K, NEW mode, NEW used, Sound(F, K, mode, used),
           NEW G \in RawFunds, G.spot = F.spot, G.margin = F.margin, G.supplied = F.supplied,
           \A b \in K : SumFunctionOnSet(G.strategies[b], Strategy) = F.margin[b][USDC]
    PROVE  Sound(G, K, mode, used)
<1>1. SumsHold(G, K)
  BY DEF Sound, SumsHold
<1>2. ASSUME NEW a \in Account, NEW x \in Asset PROVE Cell(G, K, mode, used, a, x)
  BY DEF Sound, Cell
<1> QED BY <1>1, <1>2 DEF Sound

\* Isolated margin of a position is set aside or released.
LEMMA AllocatedSound ==
    ASSUME NEW F \in RawFunds, NEW K, NEW mode, NEW used, Sound(F, K, mode, used),
           NEW a \in Account, NEW e \in Int, NEW A \in [Account -> Int],
           A[a] = F.allocated[a] + e, \A b \in Account : b # a => A[b] = F.allocated[b],
           NEW G \in RawFunds,
           G.spot = F.spot, G.margin = F.margin, G.supplied = F.supplied,
           G.allocated = A, G.strategies = F.strategies, G.unlocks = F.unlocks
    PROVE  /\ Sound(G, K, mode, used)
           /\ \A y \in Asset : InAccounts(G, y) = InAccounts(F, y) + (IF y = USDC THEN e ELSE 0)
<1>1. F.allocated \in [Account -> Int] /\ F.spot \in Tables /\ F.margin \in Tables
  BY DEF RawFunds
<1>8. Sound(G, K, mode, used)
  <2>1. \A b \in K : SumFunctionOnSet(G.strategies[b], Strategy) = F.margin[b][USDC]
    BY DEF Sound, SumsHold
  <2> QED BY <2>1, SoundSame
<1>9. ASSUME NEW y \in Asset
      PROVE  InAccounts(G, y) = InAccounts(F, y) + (IF y = USDC THEN e ELSE 0)
  <2> DEFINE sum(H) == SumFunctionOnSet(H, Account)
             unlocking(H) == [b \in Account |-> Unlocking(H, b)]
             sides == Total(F.spot, y, Account) + Total(F.margin, y, Account)
                      + (IF y = LIT THEN SumFunctionOnSet(unlocking(F), Account) ELSE 0)
  <2>1. InAccounts(F, y) = sides + (IF y = USDC THEN sum(F.allocated) ELSE 0)
    BY DEF InAccounts
  <2>2. unlocking(G) = unlocking(F)
    BY DEF Unlocking
  <2>3. InAccounts(G, y) = sides + (IF y = USDC THEN sum(A) ELSE 0)
    BY <2>2 DEF InAccounts
  <2>4. IsFiniteSet(Account)
    BY BalancesAssumption
  <2>5. \A b \in Account : F.allocated[b] \in Int /\ A[b] \in Int
    BY <1>1
  <2>6. \A b \in Account \ {a} : A[b] = F.allocated[b]
    OBVIOUS
  <2>7. sum(A) = sum(F.allocated) + A[a] - F.allocated[a]
    BY <2>4, <2>5, <2>6, SumUpdate
  <2>8. sum(F.allocated) \in Int
    BY <2>4, <2>5, SumInt
  <2>9. sides \in Int
    <3>1. Total(F.spot, y, Account) \in Int /\ Total(F.margin, y, Account) \in Int
      BY <1>1, TotalInt
    <3>2. \A b \in Account : unlocking(F)[b] \in Int
      BY UnlockingNat
    <3> DEFINE u == unlocking(F)
    <3>3. SumFunctionOnSet(u, Account) \in Int
      <4> HIDE DEF u
      <4> QED BY <2>4, <3>2, SumInt DEF u
    <3> QED BY <3>1, <3>3
  <2> HIDE DEF sides, sum
  <2> QED BY <2>1, <2>3, <2>5, <2>7, <2>8, <2>9
<1> QED BY <1>8, <1>9

-----------------------------------------------------------------------------
(* One delta. *)

\* From F to G, d of asset x comes to account a on product `side', m of it to margin, and
\* everything is in order after it.
Credited(F, G, a, x, side, d, m, s) ==
    /\ m \in Int
    /\ Moved(F, G, FundAccounts, a, x, m, d - m, s)
    /\ Sound(G, FundAccounts, ModeOf, useMargin)
    /\ d >= 0 => 0 <= m /\ m <= d
    /\ d <= 0 => d <= m /\ m <= 0
    /\ x = USDC => m = IF Mode(a) = Simple /\ side = Spot /\ ~IsFund(a) THEN 0 ELSE d
    /\ IsFund(a) /\ side = Spot => m = d
    /\ Mode(a) = Simple /\ ~(IsFund(a) /\ side = Spot) => m = IF side = Perps THEN d ELSE 0

\* apply_asset_delta does that, if it adds or its result is valid.
LEMMA DeltaCredits ==
    ASSUME NEW F, Sound(F, FundAccounts, ModeOf, useMargin), AccountsTyped,
           NEW a \in Account, NEW x \in Asset, NEW side \in Products, NEW d \in Int,
           NEW s \in Strategy,
           Splittable(a, x, side), IsFund(a) => side = Spot \/ x = USDC,
           NEW G, G = Delta(F, a, x, side, d, s),
           d >= 0 \/ (G.spot[a][x] >= 0 /\ (x # USDC => G.margin[a][x] >= 0))
    PROVE  \E m \in Int : Credited(F, G, a, x, side, d, m, s)
<1> DEFINE m == MarginPart(F, a, x, side, d)
<1>1. m \in Int /\ Moved(F, G, FundAccounts, a, x, m, d - m, s)
  BY DeltaMoves
<1>2. Sound(G, FundAccounts, ModeOf, useMargin)
  BY DeltaSound
<1>3. /\ d >= 0 => 0 <= m /\ m <= d
      /\ d <= 0 => d <= m /\ m <= 0
      /\ x = USDC => m = IF Mode(a) = Simple /\ side = Spot /\ ~IsFund(a) THEN 0 ELSE d
      /\ IsFund(a) /\ side = Spot => m = d
  BY MarginPartBounds
<1>4. Mode(a) = Simple /\ ~(IsFund(a) /\ side = Spot) => m = IF side = Perps THEN d ELSE 0
  <2>1. Mode(a) \in {Simple, Unified}
    BY DEF AccountsTyped
  <2> QED BY <2>1, MarginPartIs
<1> HIDE DEF m
<1>5. Credited(F, G, a, x, side, d, m, s)
  BY <1>1, <1>2, <1>3, <1>4 DEF Credited
<1> QED BY <1>1, <1>5

\* What is added or taken on the spot side can always be split.
LEMMA SpotSplittable ==
    ASSUME NEW a, NEW x
    PROVE  Splittable(a, x, Spot) /\ Spot \in Products
BY DEF Splittable, Spot, Perps, Products

\* USDC can always be split.
LEMMA UsdcSplittable ==
    ASSUME NEW a, NEW side
    PROVE  Splittable(a, USDC, side)
BY DEF Splittable, UsedAsMargin

\* apply_asset_delta_raw, where it is allowed, leaves everything in order too.
LEMMA RawCredits ==
    ASSUME NEW F, Sound(F, FundAccounts, ModeOf, useMargin), AccountsTyped,
           NEW a \in Account, NEW x \in Asset, NEW side \in Products, NEW d \in Int,
           NEW s \in Strategy, ~IsFund(a),
           x = USDC => Mode(a) = Simple,
           side = Perps => UsedAsMargin(a, x),
           RawAllowed(F, a, x, side, d),
           NEW G, G = Raw(F, a, x, side, d),
           d >= 0 \/ (x # USDC => G.margin[a][x] >= 0)
    PROVE  \E m \in Int : /\ m = IF side = Spot THEN 0 ELSE d
                          /\ Credited(F, G, a, x, side, d, m, s)
<1> DEFINE m == IF side = Spot THEN 0 ELSE d
           r == IF side = Spot THEN d ELSE 0
<1>1. m \in Int /\ r \in Int /\ Spot # Perps /\ side \in {Spot, Perps} /\ Simple # Unified
  BY DEF Products, Spot, Perps, Simple, Unified
<1>2. F \in RawFunds
  BY DEF Sound
<1>3. Moved(F, G, FundAccounts, a, x, m, r, s)
  BY <1>2, RawMoves
<1>4. r = d - m
  BY <1>1
<1>5. m = (IF side = Perps THEN d ELSE 0) /\ m = IF side = Spot THEN 0 ELSE d
  BY <1>1
<1>6. /\ F.spot[a][x] \in Int /\ F.margin[a][x] \in Int /\ F.supplied[x] \in Int
      /\ F.spot[a][x] >= 0
      /\ GlobalCap[x] \in Int /\ UserCap[x] \in Int
      /\ useMargin[a][x] \in BOOLEAN
  BY <1>2, BalancesAssumption DEF Sound, RawFunds, Tables, Cell, AccountsTyped
<1>7. G.spot[a][x] = F.spot[a][x] + r /\ G.margin[a][x] = F.margin[a][x] + m
  BY <1>3 DEF Moved
<1>8. Cell(F, FundAccounts, ModeOf, useMargin, a, x) /\ (x # USDC => F.supplied[x] <= GlobalCap[x])
  BY DEF Sound
<1>9. ModeOf[a] = Mode(a) /\ a \notin FundAccounts /\ FundAccounts \subseteq Account
  BY DEF ModeOf, FundAccounts
<1>10. /\ side = Spot => F.spot[a][x] + d >= 0
       /\ (side = Perps /\ x # USDC /\ d > 0) => d <= RemainingCap(F, a, x)
  BY DEF RawAllowed
<1>11. (x # USDC /\ m > 0) => /\ F.margin[a][x] + m <= UserCap[x]
                              /\ F.supplied[x] + m <= GlobalCap[x]
  <2> SUFFICES ASSUME x # USDC, m > 0
               PROVE  F.margin[a][x] + m <= UserCap[x] /\ F.supplied[x] + m <= GlobalCap[x]
    OBVIOUS
  <2> DEFINE g == GlobalCap[x] - F.supplied[x]
             u == UserCap[x] - F.margin[a][x]
  <2>1. m <= RemainingCap(F, a, x) /\ m = d
    BY <1>1, <1>5, <1>10
  <2>2. /\ RemainingCap(F, a, x) \in Int
        /\ RemainingCap(F, a, x) > 0 => RemainingCap(F, a, x) <= g /\ RemainingCap(F, a, x) <= u
    BY <1>6 DEF RemainingCap, Lesser, Positive
  <2>3. g \in Int /\ u \in Int
    BY <1>6
  <2> HIDE DEF g, u, m
  <2>4. m <= g /\ m <= u
    BY <1>1, <2>1, <2>2, <2>3
  <2> QED BY <1>1, <1>6, <2>4 DEF g, u
<1> HIDE DEF m, r
<1>12. G.spot[a][x] >= 0
  BY <1>1, <1>4, <1>5, <1>6, <1>7, <1>10
<1>13. x # USDC => G.margin[a][x] >= 0
  BY <1>1, <1>5, <1>6, <1>7, <1>8 DEF Cell
<1>14. (x # USDC /\ ~useMargin[a][x]) => G.margin[a][x] = 0
  <2> SUFFICES ASSUME x # USDC, ~useMargin[a][x] PROVE G.margin[a][x] = 0
    OBVIOUS
  <2>1. side # Perps
    BY DEF UsedAsMargin
  <2> QED BY <1>1, <1>5, <1>6, <1>7, <1>8, <1>9, <2>1 DEF Cell
<1>15. x # USDC => G.margin[a][x] <= UserCap[x]
  BY <1>1, <1>6, <1>7, <1>8, <1>9, <1>11 DEF Cell
<1>16. Cell(G, FundAccounts, ModeOf, useMargin, a, x)
  BY <1>1, <1>9, <1>12, <1>13, <1>14, <1>15 DEF Cell
<1>17. (x # USDC /\ a \notin FundAccounts) => F.supplied[x] + m <= GlobalCap[x]
  BY <1>1, <1>6, <1>8, <1>11
<1>18. Sound(G, FundAccounts, ModeOf, useMargin)
  BY <1>1, <1>3, <1>9, <1>16, <1>17, SoundMoved
<1>19. Credited(F, G, a, x, side, d, m, s)
  BY <1>1, <1>3, <1>4, <1>5, <1>18 DEF Credited
<1> QED BY <1>1, <1>5, <1>19

\* Nothing comes to an account.
LEMMA NothingCredited ==
    ASSUME NEW F, Sound(F, FundAccounts, ModeOf, useMargin),
           NEW a \in Account, NEW x \in Asset, NEW side, NEW s \in Strategy
    PROVE  Credited(F, F, a, x, side, 0, 0, s)
<1>1. F \in RawFunds
  BY DEF Sound
<1>2. Moved(F, F, FundAccounts, a, x, 0, 0, s)
  BY <1>1, MovedNothing
<1> QED BY <1>2 DEF Credited

-----------------------------------------------------------------------------
(* The slot of the binary options markets. *)

Statuses == {Active, InSettlement, Expired}
Owners == Operators \union {start.operator : start \in Genesis}
Positions == [market : Nat, size : Int, entry : Nat, orders : Nat]
FeeCollectors == Payees \union {Treasury}
Slots == [market : Nat, status : Statuses, operator : Owners, collector : FeeCollectors,
          discrete : BOOLEAN, default : 0..Cap, price : 0..Cap, frozen : BOOLEAN, openInterest : Nat, orders : Nat]

\* What the slot S says of the positions O: a slot that is not expired hosts a market, what
\* an account has on it is of that market, and the counters are the sums of what they count.
OrdersOf(O) == [a \in Account |-> O[a].orders]
SharesOf(O) == [a \in Account |-> Magnitude(O[a].size)]
NetOf(O) == [a \in Account |-> O[a].size]

Hosted(p, S) ==
    /\ IF HasNoData(p) THEN p.market = NilMarket
       ELSE p.market = S.market /\ S.market # NilMarket
    /\ p.entry \in 0..(Cap * Magnitude(p.size))

SlotInv(S, O) ==
    /\ S \in Slots /\ O \in [Account -> Positions]
    /\ S.status # Expired => S.market # NilMarket
    /\ \A a \in Account : Hosted(O[a], S)
    /\ S.orders = SumFunctionOnSet(OrdersOf(O), Account)
    /\ S.openInterest = SumFunctionOnSet(SharesOf(O), Account)
    /\ S.status # InSettlement => SumFunctionOnSet(NetOf(O), Account) = 0

OptionsInv == SlotInv(slot, options) /\ nextMarket \in Nat \ {0}

\* NO shares of a position.
Short(size) == IF size < 0 THEN -size ELSE 0

-----------------------------------------------------------------------------
(* One position. *)

\* What is kept of an entry, when some of its shares are closed and the rest of the division
\* stays, is still within what the shares that are left can pay.
LEMMA ClosedEntry ==
    ASSUME NEW C \in Nat, NEW e \in Nat, NEW z \in Nat, z > 0, NEW c \in Nat, c <= z, e <= C * z
    PROVE  /\ (e * c) \div z \in Nat
           /\ (e * c) \div z <= e
           /\ e - (e * c) \div z <= C * (z - c)
<1> DEFINE q == (e * c) \div z
           k == e * c
<1>1. k \in Nat
  OBVIOUS
<1> HIDE DEF k
<1>2. k \div z \in Nat /\ z * (k \div z) <= k /\ k < z * (k \div z) + z
  BY <1>1
<1>3. q \in Nat /\ z * q <= k /\ k < z * q + z
  BY <1>2 DEF k
<1> HIDE DEF q
<1>4. k <= z * e
  <2>1. e * c <= e * z
    OBVIOUS
  <2> QED BY <2>1 DEF k
<1>5. q <= e
  <2> SUFFICES ASSUME q >= e + 1 PROVE FALSE
    BY <1>3
  <2>1. z * q >= z * (e + 1)
    BY <1>3
  <2>2. z * (e + 1) = z * e + z
    OBVIOUS
  <2> QED BY <1>1, <1>3, <1>4, <2>1, <2>2
<1>6. e - q <= C * (z - c)
  <2> DEFINE w == z - c
             u == C * w
  <2>1. w \in Nat /\ u \in Nat /\ c = z - w
    OBVIOUS
  <2> SUFFICES ASSUME e - q >= u + 1 PROVE FALSE
    BY <1>3, <2>1
  <2> HIDE DEF u, w
  <2>2. q + 1 <= e - u
    BY <1>3, <2>1
  <2>3. z * (q + 1) <= z * (e - u)
    BY <1>3, <2>1, <2>2
  <2>4. z * (q + 1) = z * q + z /\ z * (e - u) = z * e - z * u
    BY <1>3, <2>1
  <2>5. k < z * e - z * u
    BY <1>1, <1>3, <2>1, <2>3, <2>4
  <2>6. k = e * z - e * w
    <3>1. e * (z - w) = e * z - e * w
      BY <2>1
    <3> QED BY <2>1, <3>1 DEF k
  <2>7. z * u < e * w
    <3>1. z * e = e * z
      OBVIOUS
    <3>2. z * u \in Int /\ e * w \in Int /\ e * z \in Int
      BY <2>1
    <3> QED BY <2>5, <2>6, <3>1, <3>2
  <2>8. e * w <= (C * z) * w
    BY <2>1
  <2>9. (C * z) * w = z * u
    BY <2>1 DEF u
  <2> QED BY <2>1, <2>7, <2>8, <2>9
<1> QED BY <1>3, <1>5, <1>6 DEF q

\* The cost of the opened part of a fill is its price for each of the shares.
LEMMA OpenedCost ==
    ASSUME NEW base \in Nat, base > 0, NEW price \in Nat, NEW open \in Nat
    PROVE  ((base * price) * open) \div base = price * open
<1> DEFINE k == price * open
<1>1. (base * price) * open = base * k /\ k \in Nat
  OBVIOUS
<1> HIDE DEF k
<1>2. (base * k) \div base = k
  BY <1>1
<1> QED BY <1>1, <1>2 DEF k

-----------------------------------------------------------------------------
(* The slot and its positions. *)

\* The sums range over finitely many accounts.
LEMMA SlotTyped ==
    ASSUME NEW S, NEW O, SlotInv(S, O)
    PROVE  /\ IsFiniteSet(Account)
           /\ \A a \in Account :
                 /\ OrdersOf(O)[a] = O[a].orders /\ OrdersOf(O)[a] \in Nat
                 /\ SharesOf(O)[a] = Magnitude(O[a].size) /\ SharesOf(O)[a] \in Nat
                 /\ NetOf(O)[a] = O[a].size /\ NetOf(O)[a] \in Int
                 /\ O[a] \in Positions /\ Hosted(O[a], S)
BY BalancesAssumption DEF SlotInv, Positions, OrdersOf, SharesOf, NetOf, Magnitude

\* A slot that waits for nothing any more has no position on it.
LEMMA Drained ==
    ASSUME NEW S, NEW O, SlotInv(S, O), S.orders = 0, S.openInterest = 0
    PROVE  \A a \in Account : O[a] = EmptyPosition(NilMarket)
<1>1. \A a \in Account : OrdersOf(O)[a] = 0
  <2>1. SumFunctionOnSet(OrdersOf(O), Account) = 0
    BY DEF SlotInv
  <2> QED BY <2>1, SlotTyped, SumNatZero
<1>2. \A a \in Account : SharesOf(O)[a] = 0
  <2>1. SumFunctionOnSet(SharesOf(O), Account) = 0
    BY DEF SlotInv
  <2> QED BY <2>1, SlotTyped, SumNatZero
<1> SUFFICES ASSUME NEW a \in Account PROVE O[a] = EmptyPosition(NilMarket)
  OBVIOUS
<1>3. O[a] \in Positions /\ Hosted(O[a], S) /\ O[a].orders = 0 /\ Magnitude(O[a].size) = 0
  BY <1>1, <1>2, SlotTyped
<1>4. O[a].size = 0
  BY <1>3 DEF Positions, Magnitude
<1>5. O[a].entry = 0
  <2>1. Cap * 0 = 0 /\ Cap \in Nat
    BY BinaryOptionsAssumption
  <2> QED BY <1>3, <2>1 DEF Hosted, Positions
<1> QED BY <1>3, <1>4, <1>5 DEF Hosted, HasNoData, Positions, EmptyPosition

\* A slot without orders and shares may be given any market, or none.
LEMMA NextMarket ==
    ASSUME NEW S, NEW O, SlotInv(S, O), S.orders = 0, S.openInterest = 0,
           NEW T \in Slots, T.orders = 0, T.openInterest = 0,
           T.status # Expired => T.market # NilMarket
    PROVE  SlotInv(T, O)
<1>1. \A a \in Account : O[a] = EmptyPosition(NilMarket)
  BY Drained
<1>2. \A a \in Account : Hosted(O[a], T)
  <2>1. Magnitude(0) = 0 /\ 0 \in 0..(Cap * 0)
    BY BinaryOptionsAssumption DEF Magnitude
  <2> QED BY <1>1, <2>1 DEF Hosted, HasNoData, EmptyPosition
<1>3. SumFunctionOnSet(NetOf(O), Account) = 0
  <2>1. \A a \in Account : NetOf(O)[a] = 0
    BY <1>1 DEF NetOf, EmptyPosition
  <2> QED BY <2>1, SumZeros, SlotTyped
<1> QED BY <1>2, <1>3 DEF SlotInv

\* The slot of a drained market is free.
LEMMA ReleasedSlot ==
    ASSUME NEW S, NEW O, SlotInv(S, O)
    PROVE  SlotInv(Release(S), O)
<1>1. CASE S.status = InSettlement /\ S.orders = 0 /\ S.openInterest = 0
  <2> DEFINE T == NoMarket(S.operator, S.collector)
  <2>1. T \in Slots
    BY BinaryOptionsAssumption DEF SlotInv, Slots, NoMarket, NilMarket, Statuses
  <2>2. T.orders = 0 /\ T.openInterest = 0 /\ T.status = Expired
    BY DEF NoMarket
  <2> HIDE DEF T
  <2>3. SlotInv(T, O)
    BY <1>1, <2>1, <2>2, NextMarket
  <2> QED BY <1>1, <2>3 DEF Release, T
<1>2. CASE ~(S.status = InSettlement /\ S.orders = 0 /\ S.openInterest = 0)
  BY <1>2 DEF Release
<1> QED BY <1>1, <1>2

\* T is the slot S with other counters.
Recounted(S, T, orders, shares) ==
    /\ T \in Slots /\ T.status = S.status /\ T.market = S.market
    /\ T.orders = S.orders + orders
    /\ T.openInterest = S.openInterest + shares

\* The counters follow the position of one account.
LEMMA OnePosition ==
    ASSUME NEW S, NEW O, SlotInv(S, O), NEW a \in Account, NEW q \in Positions, Hosted(q, S),
           NEW T, Recounted(S, T, q.orders - O[a].orders,
                            Magnitude(q.size) - Magnitude(O[a].size)),
           S.status # InSettlement => q.size = O[a].size
    PROVE  SlotInv(T, [O EXCEPT ![a] = q])
<1> DEFINE N == [O EXCEPT ![a] = q]
<1>1. /\ N \in [Account -> Positions] /\ N[a] = q
      /\ \A b \in Account \ {a} : N[b] = O[b]
  BY DEF SlotInv
<1> HIDE DEF N
<1>2. \A b \in Account : Hosted(N[b], T)
  <2>1. \A b \in Account : Hosted(N[b], S)
    BY <1>1, SlotTyped
  <2> QED BY <2>1 DEF Hosted, Recounted
<1>3. \A b \in Account :
         /\ OrdersOf(N)[b] = N[b].orders /\ OrdersOf(N)[b] \in Int
         /\ SharesOf(N)[b] = Magnitude(N[b].size) /\ SharesOf(N)[b] \in Int
         /\ NetOf(N)[b] = N[b].size /\ NetOf(N)[b] \in Int
  BY <1>1 DEF Positions, OrdersOf, SharesOf, NetOf, Magnitude
<1>4. \A b \in Account \ {a} : /\ OrdersOf(N)[b] = OrdersOf(O)[b]
                               /\ SharesOf(N)[b] = SharesOf(O)[b]
                               /\ NetOf(N)[b] = NetOf(O)[b]
  BY <1>1 DEF OrdersOf, SharesOf, NetOf
<1>5. \A b \in Account : /\ OrdersOf(O)[b] \in Int /\ SharesOf(O)[b] \in Int
                         /\ NetOf(O)[b] \in Int
  BY SlotTyped
<1>6. T.orders = SumFunctionOnSet(OrdersOf(N), Account)
  <2>1. SumFunctionOnSet(OrdersOf(N), Account) =
            SumFunctionOnSet(OrdersOf(O), Account) + OrdersOf(N)[a] - OrdersOf(O)[a]
    BY <1>3, <1>4, <1>5, SlotTyped, SumUpdate
  <2>2. SumFunctionOnSet(OrdersOf(O), Account) = S.orders /\ S.orders \in Int
    BY DEF SlotInv, Slots
  <2> QED BY <1>1, <1>3, <1>5, <2>1, <2>2, SlotTyped DEF Recounted
<1>7. T.openInterest = SumFunctionOnSet(SharesOf(N), Account)
  <2>1. SumFunctionOnSet(SharesOf(N), Account) =
            SumFunctionOnSet(SharesOf(O), Account) + SharesOf(N)[a] - SharesOf(O)[a]
    BY <1>3, <1>4, <1>5, SlotTyped, SumUpdate
  <2>2. SumFunctionOnSet(SharesOf(O), Account) = S.openInterest /\ S.openInterest \in Int
    BY DEF SlotInv, Slots
  <2> QED BY <1>1, <1>3, <1>5, <2>1, <2>2, SlotTyped DEF Recounted
<1>8. T.status # InSettlement => SumFunctionOnSet(NetOf(N), Account) = 0
  <2> SUFFICES ASSUME T.status # InSettlement
               PROVE  SumFunctionOnSet(NetOf(N), Account) = 0
    OBVIOUS
  <2>1. SumFunctionOnSet(NetOf(O), Account) = 0 /\ q.size = O[a].size
    BY DEF Recounted, SlotInv
  <2>2. \A b \in Account : NetOf(O)[b] = NetOf(N)[b]
    BY <1>1, <1>3, <1>4, <2>1, SlotTyped
  <2> QED BY <2>1, <2>2, SlotTyped, SumSame
<1>9. SlotInv(T, N)
  BY <1>1, <1>2, <1>6, <1>7, <1>8 DEF SlotInv, Recounted
<1> QED BY <1>9 DEF N

\* The counters follow the positions of the two sides of a fill, which change by as many
\* shares the one way as the other.
LEMMA TwoPositions ==
    ASSUME NEW S, NEW O, SlotInv(S, O), NEW a \in Account, NEW b \in Account, a # b,
           NEW p \in Positions, NEW q \in Positions, Hosted(p, S), Hosted(q, S), NEW T,
           Recounted(S, T, (p.orders - O[a].orders) + (q.orders - O[b].orders),
                     (Magnitude(p.size) - Magnitude(O[a].size))
                         + (Magnitude(q.size) - Magnitude(O[b].size))),
           S.status # InSettlement => (p.size - O[a].size) + (q.size - O[b].size) = 0
    PROVE  SlotInv(T, [O EXCEPT ![a] = p, ![b] = q])
<1> DEFINE N == [O EXCEPT ![a] = p, ![b] = q]
<1>1. /\ N \in [Account -> Positions] /\ N[a] = p /\ N[b] = q
      /\ \A c \in Account \ {a, b} : N[c] = O[c]
  BY DEF SlotInv
<1> HIDE DEF N
<1>2. \A c \in Account : Hosted(N[c], T)
  <2>1. \A c \in Account : Hosted(N[c], S)
    BY <1>1, SlotTyped
  <2> QED BY <2>1 DEF Hosted, Recounted
<1>3. \A c \in Account :
         /\ OrdersOf(N)[c] = N[c].orders /\ OrdersOf(N)[c] \in Int
         /\ SharesOf(N)[c] = Magnitude(N[c].size) /\ SharesOf(N)[c] \in Int
         /\ NetOf(N)[c] = N[c].size /\ NetOf(N)[c] \in Int
  BY <1>1 DEF Positions, OrdersOf, SharesOf, NetOf, Magnitude
<1>4. \A c \in Account \ {a, b} : /\ OrdersOf(N)[c] = OrdersOf(O)[c]
                                  /\ SharesOf(N)[c] = SharesOf(O)[c]
                                  /\ NetOf(N)[c] = NetOf(O)[c]
  BY <1>1 DEF OrdersOf, SharesOf, NetOf
<1>5. \A c \in Account : /\ OrdersOf(O)[c] \in Int /\ SharesOf(O)[c] \in Int
                         /\ NetOf(O)[c] \in Int
  BY SlotTyped
<1>6. T.orders = SumFunctionOnSet(OrdersOf(N), Account)
  <2>1. SumFunctionOnSet(OrdersOf(N), Account) =
            SumFunctionOnSet(OrdersOf(O), Account)
                + (OrdersOf(N)[a] - OrdersOf(O)[a]) + (OrdersOf(N)[b] - OrdersOf(O)[b])
    BY <1>3, <1>4, <1>5, SlotTyped, SumUpdateTwo
  <2>2. SumFunctionOnSet(OrdersOf(O), Account) = S.orders /\ S.orders \in Int
    BY DEF SlotInv, Slots
  <2> QED BY <1>1, <1>3, <1>5, <2>1, <2>2, SlotTyped DEF Recounted
<1>7. T.openInterest = SumFunctionOnSet(SharesOf(N), Account)
  <2>1. SumFunctionOnSet(SharesOf(N), Account) =
            SumFunctionOnSet(SharesOf(O), Account)
                + (SharesOf(N)[a] - SharesOf(O)[a]) + (SharesOf(N)[b] - SharesOf(O)[b])
    BY <1>3, <1>4, <1>5, SlotTyped, SumUpdateTwo
  <2>2. SumFunctionOnSet(SharesOf(O), Account) = S.openInterest /\ S.openInterest \in Int
    BY DEF SlotInv, Slots
  <2> QED BY <1>1, <1>3, <1>5, <2>1, <2>2, SlotTyped DEF Recounted
<1>8. T.status # InSettlement => SumFunctionOnSet(NetOf(N), Account) = 0
  <2> SUFFICES ASSUME T.status # InSettlement
               PROVE  SumFunctionOnSet(NetOf(N), Account) = 0
    OBVIOUS
  <2>1. /\ SumFunctionOnSet(NetOf(O), Account) = 0
        /\ (p.size - O[a].size) + (q.size - O[b].size) = 0
    BY DEF Recounted, SlotInv
  <2>2. SumFunctionOnSet(NetOf(N), Account) =
            SumFunctionOnSet(NetOf(O), Account)
                + (NetOf(N)[a] - NetOf(O)[a]) + (NetOf(N)[b] - NetOf(O)[b])
    BY <1>3, <1>4, <1>5, SlotTyped, SumUpdateTwo
  <2> QED BY <1>1, <1>3, <2>1, <2>2, SlotTyped
<1>9. SlotInv(T, N)
  BY <1>1, <1>2, <1>6, <1>7, <1>8 DEF SlotInv, Recounted
<1> QED BY <1>9 DEF N

-----------------------------------------------------------------------------
(* The transactions of the slot. *)

\* The position a transaction sees is the one that is kept, but for the market of nothing.
LEMMA PositionSeen ==
    ASSUME SlotInv(slot, options), NEW a \in Account
    PROVE  /\ PositionOf(a) \in Positions /\ PositionOf(a).market = slot.market
           /\ PositionOf(a).size = options[a].size
           /\ PositionOf(a).entry = options[a].entry
           /\ PositionOf(a).orders = options[a].orders
           /\ PositionOf(a).entry \in 0..(Cap * Magnitude(PositionOf(a).size))
<1>1. options[a] \in Positions /\ Hosted(options[a], slot) /\ slot.market \in Nat
  BY DEF SlotInv, Slots
<1>2. CASE options[a].market = slot.market
  BY <1>1, <1>2 DEF PositionOf, Hosted
<1>3. CASE options[a].market # slot.market
  <2>1. HasNoData(options[a])
    BY <1>1, <1>3 DEF Hosted
  <2>2. Magnitude(0) = 0 /\ 0 \in 0..(Cap * 0)
    BY BinaryOptionsAssumption DEF Magnitude
  <2> QED BY <1>1, <1>3, <2>1, <2>2 DEF PositionOf, EmptyPosition, HasNoData, Positions
<1> QED BY <1>2, <1>3

\* What is kept of a position has its shares and orders.
LEMMA KeptPosition ==
    ASSUME SlotInv(slot, options), slot.market # NilMarket,
           NEW p \in Positions, p.market = slot.market,
           p.entry \in 0..(Cap * Magnitude(p.size))
    PROVE  /\ Kept(p) \in Positions /\ Hosted(Kept(p), slot)
           /\ Kept(p).size = p.size /\ Kept(p).orders = p.orders
<1>1. CASE HasNoData(p)
  <2>1. Magnitude(0) = 0 /\ 0 \in 0..(Cap * 0)
    BY BinaryOptionsAssumption DEF Magnitude
  <2> QED BY <1>1, <2>1 DEF Kept, HasNoData, EmptyPosition, Positions, Hosted, NilMarket
<1>2. CASE ~HasNoData(p)
  BY <1>2 DEF Kept, Hosted
<1> QED BY <1>1, <1>2

\* An order that comes to rest and one that is cancelled are counted with the account and
\* with the slot.
LEMMA OrderSteps ==
    ASSUME SlotInv(slot, options), NEW a \in Account, RestOrder(a) \/ CancelOrder(a)
    PROVE  SlotInv(slot', options')
<1>1. /\ PositionOf(a) \in Positions /\ PositionOf(a).market = slot.market
      /\ PositionOf(a).size = options[a].size /\ PositionOf(a).orders = options[a].orders
      /\ PositionOf(a).entry \in 0..(Cap * Magnitude(PositionOf(a).size))
      /\ Magnitude(PositionOf(a).size) - Magnitude(options[a].size) = 0
  BY PositionSeen DEF Magnitude, Positions
<1>2. slot \in Slots /\ (slot.status # Expired => slot.market # NilMarket)
  BY DEF SlotInv
<1>3. CASE RestOrder(a)
  <2> DEFINE q == [PositionOf(a) EXCEPT !.orders = @ + 1]
             T == [slot EXCEPT !.orders = @ + 1]
  <2>1. /\ q \in Positions /\ q.size = options[a].size /\ q.orders = options[a].orders + 1
        /\ q.market = slot.market /\ q.entry \in 0..(Cap * Magnitude(q.size))
    BY <1>1 DEF Positions
  <2>2. Hosted(q, slot)
    <3>1. slot.market # NilMarket
      BY <1>2, <1>3 DEF RestOrder, Active, Expired
    <3>2. ~HasNoData(q)
      BY <1>1, <2>1 DEF HasNoData, Positions
    <3> QED BY <2>1, <3>1, <3>2 DEF Hosted
  <2>3. T \in Slots /\ T.status = slot.status /\ T.market = slot.market
        /\ T.orders = slot.orders + 1 /\ T.openInterest = slot.openInterest + 0
    BY <1>2 DEF Slots
  <2> HIDE DEF q, T
  <2>4. options[a].orders \in Nat
    BY SlotTyped DEF Positions
  <2>5. Recounted(slot, T, q.orders - options[a].orders,
                  Magnitude(q.size) - Magnitude(options[a].size))
    <3>1. q.orders - options[a].orders = 1
      BY <2>1, <2>4
    <3>2. Magnitude(q.size) - Magnitude(options[a].size) = 0
      BY <1>1, <2>1
    <3> QED BY <2>3, <3>1, <3>2 DEF Recounted
  <2>6. SlotInv(T, [options EXCEPT ![a] = q])
    BY <2>1, <2>2, <2>5, OnePosition
  <2> QED BY <1>3, <2>6 DEF RestOrder, q, T
<1>4. CASE CancelOrder(a)
  <2> DEFINE p == [PositionOf(a) EXCEPT !.orders = @ - 1]
             q == Kept(p)
             T == [slot EXCEPT !.orders = @ - 1]
  <2>1. PositionOf(a).orders > 0
    BY <1>4 DEF CancelOrder
  <2>2. /\ p \in Positions /\ p.size = options[a].size /\ p.orders = options[a].orders - 1
        /\ p.market = slot.market /\ p.entry \in 0..(Cap * Magnitude(p.size))
    BY <1>1, <2>1 DEF Positions
  <2>3. options[a].orders \in Nat /\ options[a].orders > 0
    BY <1>1, <2>1, SlotTyped DEF Positions
  <2>4. slot.market # NilMarket
    BY <2>3, SlotTyped DEF Hosted, HasNoData
  <2> HIDE DEF p
  <2>5. q \in Positions /\ Hosted(q, slot) /\ q.size = p.size /\ q.orders = p.orders
    BY <2>2, <2>4, KeptPosition
  <2>6. slot.orders > 0
    <3>1. /\ OrdersOf(options)[a] = options[a].orders
          /\ slot.orders = SumFunctionOnSet(OrdersOf(options), Account)
          /\ \A b \in Account : OrdersOf(options)[b] \in Nat
          /\ IsFiniteSet(Account)
      BY SlotTyped DEF SlotInv
    <3>2. OrdersOf(options)[a] <= slot.orders
      BY <3>1, SumNat
    <3> QED BY <1>2, <2>3, <3>1, <3>2 DEF Slots
  <2>7. T \in Slots /\ T.status = slot.status /\ T.market = slot.market
        /\ T.orders = slot.orders + (-1) /\ T.openInterest = slot.openInterest + 0
    BY <1>2, <2>6 DEF Slots
  <2> HIDE DEF q, T
  <2>8. Recounted(slot, T, q.orders - options[a].orders,
                  Magnitude(q.size) - Magnitude(options[a].size))
    <3>1. q.orders - options[a].orders = -1
      BY <2>2, <2>3, <2>5
    <3>2. Magnitude(q.size) - Magnitude(options[a].size) = 0
      BY <1>1, <2>2, <2>5
    <3> QED BY <2>7, <3>1, <3>2 DEF Recounted
  <2>9. SlotInv(T, [options EXCEPT ![a] = q])
    BY <2>2, <2>5, <2>8, OnePosition
  <2>10. SlotInv(Release(T), [options EXCEPT ![a] = q])
    BY <2>9, ReleasedSlot
  <2> QED BY <1>4, <2>10 DEF CancelOrder, p, q, T
<1> QED BY <1>3, <1>4

\* The operator of the slot gives it away, opens a market on it when it is drained,
\* freezes it and closes it.
LEMMA OperatorSteps ==
    ASSUME SlotInv(slot, options), nextMarket \in Nat \ {0}, Operate
    PROVE  SlotInv(slot', options') /\ nextMarket' \in Nat \ {0}
<1>1. slot \in Slots /\ (slot.status # Expired => slot.market # NilMarket)
  BY DEF SlotInv
<1>2. ASSUME NEW a \in Operators, NEW f \in Payees, UpdateMarketSlot(a, f)
      PROVE  SlotInv(slot', options') /\ nextMarket' \in Nat \ {0}
  <2> DEFINE T == [slot EXCEPT !.operator = a, !.collector = f]
  <2>1. T \in Slots /\ T.status = slot.status /\ T.market = slot.market
        /\ T.orders = slot.orders /\ T.openInterest = slot.openInterest
    BY <1>1 DEF Slots, Owners, FeeCollectors
  <2> HIDE DEF T
  <2>2. \A b \in Account : Hosted(options[b], T)
    BY <2>1, SlotTyped DEF Hosted
  <2>3. SlotInv(T, options)
    BY <2>1, <2>2 DEF SlotInv
  <2> QED BY <1>2, <2>3 DEF UpdateMarketSlot, T
<1>3. ASSUME NEW discrete \in BOOLEAN, NEW default \in Defaults, NEW frozen \in BOOLEAN,
             CreateMarket(discrete, default, frozen)
      PROVE  SlotInv(slot', options') /\ nextMarket' \in Nat \ {0}
  <2> DEFINE T == [NoMarket(slot.operator, slot.collector) EXCEPT
                       !.market = nextMarket, !.status = Active, !.discrete = discrete,
                       !.default = default, !.frozen = frozen]
  <2>0. /\ default \in 0..Cap /\ slot.operator \in Owners
        /\ slot.collector \in FeeCollectors /\ Cap \in Nat /\ Active \in Statuses
    BY <1>1, OptionsAssumption, BinaryOptionsAssumption DEF Slots, Statuses
  <2>1. T \in Slots /\ T.orders = 0 /\ T.openInterest = 0 /\ T.market # NilMarket
    <3> DEFINE N == NoMarket(slot.operator, slot.collector)
    <3>1. N \in Slots /\ N.orders = 0 /\ N.openInterest = 0
      BY <2>0 DEF NoMarket, Slots, NilMarket, Statuses
    <3>2. T = [N EXCEPT !.market = nextMarket, !.status = Active, !.discrete = discrete,
                        !.default = default, !.frozen = frozen]
      OBVIOUS
    <3> HIDE DEF N, T
    <3> QED BY <2>0, <3>1, <3>2 DEF Slots, NilMarket
  <2> HIDE DEF T
  <2>2. slot.orders = 0 /\ slot.openInterest = 0
    BY <1>3 DEF CreateMarket
  <2>3. SlotInv(T, options)
    BY <2>1, <2>2, NextMarket
  <2> QED BY <1>3, <2>3 DEF CreateMarket, T
<1>4. ASSUME NEW frozen \in BOOLEAN, UpdateMarket(frozen)
      PROVE  SlotInv(slot', options') /\ nextMarket' \in Nat \ {0}
  <2> DEFINE T == [slot EXCEPT !.frozen = frozen]
  <2>1. T \in Slots /\ T.status = slot.status /\ T.market = slot.market
        /\ T.orders = slot.orders /\ T.openInterest = slot.openInterest
    BY <1>1 DEF Slots
  <2> HIDE DEF T
  <2>2. \A b \in Account : Hosted(options[b], T)
    BY <2>1, SlotTyped DEF Hosted
  <2>3. SlotInv(T, options)
    BY <2>1, <2>2 DEF SlotInv
  <2> QED BY <1>4, <2>3 DEF UpdateMarket, T
<1>5. ASSUME NEW price \in 0..Cap, NEW refund \in BOOLEAN, SettleOutcome(price, refund)
      PROVE  SlotInv(slot', options') /\ nextMarket' \in Nat \ {0}
  <2> DEFINE T == [slot EXCEPT !.status = InSettlement,
                               !.price = IF refund THEN slot.default ELSE price]
  <2>1. T \in Slots /\ T.status = InSettlement /\ T.market = slot.market
        /\ T.orders = slot.orders /\ T.openInterest = slot.openInterest
    BY <1>1 DEF Slots, Statuses
  <2>2. slot.market # NilMarket
    BY <1>1, <1>5 DEF SettleOutcome, Active, Expired
  <2> HIDE DEF T
  <2>3. \A b \in Account : Hosted(options[b], T)
    BY <2>1, SlotTyped DEF Hosted
  <2>4. SlotInv(T, options)
    BY <2>1, <2>2, <2>3 DEF SlotInv
  <2>5. SlotInv(Release(T), options)
    BY <2>4, ReleasedSlot
  <2> QED BY <1>5, <2>5 DEF SettleOutcome, T
<1> QED BY <1>2, <1>3, <1>4, <1>5 DEF Operate

-----------------------------------------------------------------------------
(* Trades and payouts. *)

\* What a trade closes of a position and what it opens.
LEMMA Closing ==
    ASSUME NEW size \in Int, NEW base \in Nat, base > 0, NEW isAsk \in BOOLEAN,
           NEW close, NEW open, NEW delta, delta = (IF isAsk THEN -base ELSE base),
           close = (IF size * delta < 0 THEN Lesser(Magnitude(size), base) ELSE 0),
           open = base - close
    PROVE  /\ close \in Nat /\ open \in Nat /\ close + open = base /\ delta \in Int
           /\ close <= Magnitude(size) /\ Magnitude(size) \in Nat
           /\ Magnitude(size + delta) = (Magnitude(size) - close) + open
           /\ Short(size + delta) = Short(size) + (IF isAsk THEN open ELSE -close)
           /\ close > 0 => Magnitude(size) > 0
<1>1. CASE isAsk
  <2>1. delta = -base /\ (size * delta < 0 <=> size > 0)
    <3>1. size > 0 => size * base > 0
      OBVIOUS
    <3>2. size <= 0 => size * base <= 0
      OBVIOUS
    <3>3. size * (-base) = -(size * base) /\ size * base \in Int
      OBVIOUS
    <3> QED BY <1>1, <3>1, <3>2, <3>3
  <2> QED BY <1>1, <2>1 DEF Lesser, Magnitude, Short
<1>2. CASE ~isAsk
  <2>1. delta = base /\ (size * delta < 0 <=> size < 0)
    <3>1. size < 0 => size * base < 0
      OBVIOUS
    <3>2. size >= 0 => size * base >= 0
      OBVIOUS
    <3> QED BY <1>2, <3>1, <3>2
  <2> QED BY <1>2, <2>1 DEF Lesser, Magnitude, Short
<1> QED BY <1>1, <1>2

\* A side of a fill: its shares, and an entry that they can pay.
Changed(p, isAsk, base, r) ==
    /\ r.close \in Nat /\ r.open \in Nat /\ r.close + r.open = base
    /\ r.position \in Positions
    /\ r.position.market = p.market /\ r.position.orders = p.orders
    /\ r.position.size = p.size + (IF isAsk THEN -base ELSE base)
    /\ Magnitude(r.position.size) = (Magnitude(p.size) - r.close) + r.open
    /\ Short(r.position.size) = Short(p.size) + (IF isAsk THEN r.open ELSE -r.close)
    /\ r.position.entry \in 0..(Cap * Magnitude(r.position.size))

\* PositionChange does that: the entry that goes with the closed shares and the cost of the
\* opened ones leave no rest without shares.
LEMMA SideOfTrade ==
    ASSUME NEW p \in Positions, p.entry \in 0..(Cap * Magnitude(p.size)),
           NEW base \in Nat, base > 0, NEW price \in 1..(Cap - 1), NEW isAsk \in BOOLEAN
    PROVE  Changed(p, isAsk, base, PositionChange(p, isAsk, base, base * price))
<1> DEFINE delta  == IF isAsk THEN -base ELSE base
           close  == IF p.size * delta < 0 THEN Lesser(Magnitude(p.size), base) ELSE 0
           open   == base - close
           closed == IF close = 0 THEN 0 ELSE (p.entry * close) \div Magnitude(p.size)
           cost   == ((base * price) * open) \div base
           more   == IF isAsk THEN Cap * open - cost ELSE cost
           entry  == p.entry - closed + more
           q      == [p EXCEPT !.size = @ + delta, !.entry = @ - closed + more]
<1>0. p.size \in Int /\ p.entry \in Nat /\ p.orders \in Nat /\ p.market \in Nat
      /\ Cap \in Nat /\ price \in Nat /\ price < Cap
  BY BinaryOptionsAssumption DEF Positions
<1>1. /\ close \in Nat /\ open \in Nat /\ close + open = base /\ delta \in Int
      /\ close <= Magnitude(p.size) /\ Magnitude(p.size) \in Nat
      /\ Magnitude(p.size + delta) = (Magnitude(p.size) - close) + open
      /\ Short(p.size + delta) = Short(p.size) + (IF isAsk THEN open ELSE -close)
      /\ (close > 0 => Magnitude(p.size) > 0)
  <2> HIDE DEF delta
  <2>1. delta = IF isAsk THEN -base ELSE base
    BY DEF delta
  <2> HIDE DEF close, open
  <2>2. close = IF p.size * delta < 0 THEN Lesser(Magnitude(p.size), base) ELSE 0
    BY DEF close
  <2>3. open = base - close
    BY DEF open
  <2> QED BY <1>0, <2>1, <2>2, <2>3, Closing
<1>2. PositionChange(p, isAsk, base, base * price) =
          [close |-> close, open |-> open, position |-> q]
  BY DEF PositionChange
<1> HIDE DEF close, open
<1>3. /\ closed \in Nat /\ closed <= p.entry
      /\ p.entry - closed <= Cap * (Magnitude(p.size) - close)
  <2>1. CASE close = 0
    <3>1. closed = 0 /\ Magnitude(p.size) - close = Magnitude(p.size)
      BY <1>1, <2>1
    <3> QED BY <1>0, <3>1
  <2>2. CASE close # 0
    <3>1. closed = (p.entry * close) \div Magnitude(p.size) /\ Magnitude(p.size) > 0
      BY <1>1, <2>2
    <3> DEFINE z == Magnitude(p.size)
    <3>2. z \in Nat /\ z > 0 /\ close <= z /\ p.entry <= Cap * z
      BY <1>0, <1>1, <3>1
    <3> HIDE DEF z
    <3>3. /\ (p.entry * close) \div z \in Nat /\ (p.entry * close) \div z <= p.entry
          /\ p.entry - (p.entry * close) \div z <= Cap * (z - close)
      BY <1>0, <1>1, <3>2, ClosedEntry
    <3> QED BY <3>1, <3>3 DEF z
  <2> QED BY <2>1, <2>2
<1>4. more \in Nat /\ more <= Cap * open
  <2>1. cost = price * open
    BY <1>0, <1>1, OpenedCost
  <2>2. price * open \in Nat /\ Cap * open \in Nat /\ price * open <= Cap * open
    BY <1>0, <1>1
  <2> QED BY <2>1, <2>2
<1> HIDE DEF closed, more
<1>5. entry \in Nat /\ entry <= Cap * Magnitude(p.size + delta)
  <2> DEFINE u == Magnitude(p.size) - close
  <2>1. u \in Nat /\ Magnitude(p.size + delta) = u + open
    BY <1>1
  <2> HIDE DEF u
  <2>2. Cap * (u + open) = Cap * u + Cap * open /\ Cap * u \in Nat /\ Cap * open \in Nat
    BY <1>0, <1>1, <2>1
  <2>3. p.entry - closed <= Cap * u
    BY <1>3 DEF u
  <2> QED BY <1>0, <1>3, <1>4, <2>1, <2>2, <2>3
<1>6. /\ q \in Positions /\ q.size = p.size + delta /\ q.entry = entry
      /\ q.market = p.market /\ q.orders = p.orders
  <2>1. q = [p EXCEPT !.size = p.size + delta, !.entry = entry]
    OBVIOUS
  <2>2. p.size + delta \in Int
    BY <1>0, <1>1
  <2> DEFINE moved == p.size + delta
  <2>3. q = [p EXCEPT !.size = moved, !.entry = entry] /\ moved \in Int /\ entry \in Nat
    BY <1>5, <2>1, <2>2
  <2> HIDE DEF q, entry, moved
  <2>4. /\ q \in Positions /\ q.size = moved /\ q.entry = entry
        /\ q.market = p.market /\ q.orders = p.orders
    BY <2>3 DEF Positions
  <2> QED BY <2>4 DEF moved
<1> HIDE DEF q, entry
<1> DEFINE r == [close |-> close, open |-> open, position |-> q]
<1>7. r.close = close /\ r.open = open /\ r.position = q
  OBVIOUS
<1> HIDE DEF r
<1>8. q.entry \in 0..(Cap * Magnitude(q.size))
  <2>1. Cap * Magnitude(q.size) \in Int
    BY <1>0, <1>6 DEF Positions, Magnitude
  <2> QED BY <1>5, <1>6, <2>1
<1>9. Changed(p, isAsk, base, r)
  BY <1>1, <1>6, <1>7, <1>8 DEF Changed
<1> QED BY <1>2, <1>9 DEF r

\* An order the fill takes off one side of a trade.
LEMMA FilledSide ==
    ASSUME SlotInv(slot, options), slot.market # NilMarket,
           NEW p \in Positions, p.market = slot.market,
           p.entry \in 0..(Cap * Magnitude(p.size)),
           NEW filled \in BOOLEAN, filled => p.orders > 0,
           NEW q, q = Kept(Unrested(p, filled))
    PROVE  /\ q \in Positions /\ Hosted(q, slot) /\ q.size = p.size
           /\ q.orders = p.orders - (IF filled THEN 1 ELSE 0)
<1> DEFINE u == Unrested(p, filled)
<1>1. /\ u \in Positions /\ u.market = slot.market /\ u.size = p.size /\ u.entry = p.entry
      /\ u.orders = p.orders - (IF filled THEN 1 ELSE 0)
  BY DEF Unrested, Positions
<1> HIDE DEF u
<1>2. u.entry \in 0..(Cap * Magnitude(u.size))
  BY <1>1
<1>3. Kept(u) \in Positions /\ Hosted(Kept(u), slot)
      /\ Kept(u).size = u.size /\ Kept(u).orders = u.orders
  BY <1>1, <1>2, KeptPosition
<1> QED BY <1>1, <1>3 DEF u

\* The shares a trade closes and opens for its sides.
Bought(a, deal) == PositionChange(PositionOf(a), FALSE, deal.base, deal.base * deal.price)
Sold(b, deal) == PositionChange(PositionOf(b), TRUE, deal.base, deal.base * deal.price)

\* What a trade does to the positions of the two sides: q is the buyer's and r the seller's.
Exchanged(a, b, deal, q, r) ==
    /\ q \in Positions /\ r \in Positions
    /\ options' = [options EXCEPT ![a] = q, ![b] = r]
    /\ Bought(a, deal).close \in Nat /\ Sold(b, deal).open \in Nat
    /\ q.size = options[a].size + deal.base /\ r.size = options[b].size - deal.base
    /\ Short(q.size) = Short(options[a].size) - Bought(a, deal).close
    /\ Short(r.size) = Short(options[b].size) + Sold(b, deal).open

\* Both sides of a trade have what it opened and closed for them, and the slot counts it.
LEMMA TradeSteps ==
    ASSUME SlotInv(slot, options), NEW a \in Account, NEW b \in Account, NEW deal \in Deals,
           NEW c, NEW takerSells \in BOOLEAN, NEW filled \in BOOLEAN,
           Trade(a, b, deal, c, takerSells, filled)
    PROVE  /\ SlotInv(slot', options') /\ slot'.status = slot.status
           /\ \E q, r : Exchanged(a, b, deal, q, r)
<1> DEFINE bought == Bought(a, deal)
           sold == Sold(b, deal)
           p == bought.position
           o == sold.position
           q == Kept(Unrested(p, filled /\ takerSells))
           r == Kept(Unrested(o, filled /\ ~takerSells))
           interest == slot.openInterest + bought.open + sold.open - bought.close - sold.close
           T == [slot EXCEPT !.openInterest = interest, !.orders = @ - IF filled THEN 1 ELSE 0]
<1>0. deal.base \in Nat /\ deal.base > 0 /\ deal.price \in 1..(Cap - 1)
  BY DealsAssumption
<1>1. /\ a # b /\ slot.status = Active
      /\ PositionOf(IF takerSells THEN a ELSE b).orders > 0
      /\ options' = [options EXCEPT ![a] = q, ![b] = r]
      /\ slot' = T
  BY DEF Trade, Bought, Sold
<1>2. slot \in Slots /\ slot.market # NilMarket
  BY <1>1 DEF SlotInv, Active, Expired
<1>3. /\ PositionOf(a) \in Positions /\ PositionOf(a).market = slot.market
      /\ PositionOf(a).size = options[a].size /\ PositionOf(a).orders = options[a].orders
      /\ PositionOf(a).entry \in 0..(Cap * Magnitude(PositionOf(a).size))
  BY PositionSeen
<1>4. /\ PositionOf(b) \in Positions /\ PositionOf(b).market = slot.market
      /\ PositionOf(b).size = options[b].size /\ PositionOf(b).orders = options[b].orders
      /\ PositionOf(b).entry \in 0..(Cap * Magnitude(PositionOf(b).size))
  BY PositionSeen
<1>5. Changed(PositionOf(a), FALSE, deal.base, bought)
  BY <1>0, <1>3, SideOfTrade DEF Bought
<1>6. Changed(PositionOf(b), TRUE, deal.base, sold)
  BY <1>0, <1>4, SideOfTrade DEF Sold
<1> HIDE DEF bought, sold
<1>7. /\ bought.close \in Nat /\ bought.open \in Nat
      /\ p \in Positions /\ p.market = slot.market /\ p.orders = options[a].orders
      /\ p.size = options[a].size + deal.base
      /\ Magnitude(p.size) = (Magnitude(options[a].size) - bought.close) + bought.open
      /\ Short(p.size) = Short(options[a].size) - bought.close
      /\ p.entry \in 0..(Cap * Magnitude(p.size))
  <2>1. Short(options[a].size) \in Int
    BY <1>3 DEF Positions, Short
  <2> QED BY <1>3, <1>5, <2>1 DEF Changed
<1>8. /\ sold.close \in Nat /\ sold.open \in Nat
      /\ o \in Positions /\ o.market = slot.market /\ o.orders = options[b].orders
      /\ o.size = options[b].size - deal.base
      /\ Magnitude(o.size) = (Magnitude(options[b].size) - sold.close) + sold.open
      /\ Short(o.size) = Short(options[b].size) + sold.open
      /\ o.entry \in 0..(Cap * Magnitude(o.size))
  <2>1. options[b].size + (-deal.base) = options[b].size - deal.base
    BY <1>0, <1>4 DEF Positions
  <2> QED BY <1>4, <1>6, <2>1 DEF Changed
<1> HIDE DEF p, o
<1>9. /\ q \in Positions /\ Hosted(q, slot) /\ q.size = p.size
      /\ q.orders = p.orders - (IF filled /\ takerSells THEN 1 ELSE 0)
  <2>1. filled /\ takerSells => p.orders > 0
    BY <1>1, <1>3, <1>7
  <2>2. (filled /\ takerSells) \in BOOLEAN
    OBVIOUS
  <2> DEFINE w == filled /\ takerSells
  <2>3. w \in BOOLEAN /\ (w => p.orders > 0) /\ q = Kept(Unrested(p, w))
    BY <2>1
  <2> HIDE DEF w, q
  <2>4. /\ q \in Positions /\ Hosted(q, slot) /\ q.size = p.size
        /\ q.orders = p.orders - (IF w THEN 1 ELSE 0)
    BY <1>2, <1>7, <2>3, FilledSide
  <2> QED BY <2>4 DEF w
<1>10. /\ r \in Positions /\ Hosted(r, slot) /\ r.size = o.size
       /\ r.orders = o.orders - (IF filled /\ ~takerSells THEN 1 ELSE 0)
  <2>1. filled /\ ~takerSells => o.orders > 0
    BY <1>1, <1>4, <1>8
  <2> DEFINE w == filled /\ ~takerSells
  <2>3. w \in BOOLEAN /\ (w => o.orders > 0) /\ r = Kept(Unrested(o, w))
    BY <2>1
  <2> HIDE DEF w, r
  <2>4. /\ r \in Positions /\ Hosted(r, slot) /\ r.size = o.size
        /\ r.orders = o.orders - (IF w THEN 1 ELSE 0)
    BY <1>2, <1>8, <2>3, FilledSide
  <2> QED BY <2>4 DEF w
<1> HIDE DEF q, r
<1> DEFINE more == (Magnitude(q.size) - Magnitude(options[a].size))
                       + (Magnitude(r.size) - Magnitude(options[b].size))
           fewer == (q.orders - options[a].orders) + (r.orders - options[b].orders)
<1>11. /\ Magnitude(options[a].size) \in Nat /\ Magnitude(options[b].size) \in Nat
       /\ options[a].orders \in Nat /\ options[b].orders \in Nat
       /\ options[a].size \in Int /\ options[b].size \in Int
       /\ slot.orders \in Nat /\ slot.openInterest \in Nat
  BY <1>2, <1>3, <1>4 DEF Positions, Magnitude, Slots
<1>12. interest = slot.openInterest + more /\ more \in Int
  BY <1>7, <1>8, <1>9, <1>10, <1>11
<1>13. /\ slot.orders - (IF filled THEN 1 ELSE 0) = slot.orders + fewer
       /\ fewer \in Int
  BY <1>7, <1>8, <1>9, <1>10, <1>11
<1>14. slot.openInterest + more >= 0
  <2>1. /\ IsFiniteSet(Account)
        /\ \A x \in Account : SharesOf(options)[x] \in Nat
        /\ slot.openInterest = SumFunctionOnSet(SharesOf(options), Account)
        /\ SharesOf(options)[a] = Magnitude(options[a].size)
        /\ SharesOf(options)[b] = Magnitude(options[b].size)
    BY SlotTyped DEF SlotInv
  <2> DEFINE f == SharesOf(options)
             g == [x \in Account |-> IF x \in {a, b} THEN 0 ELSE f[x]]
  <2>2. \A x \in Account : f[x] \in Int /\ g[x] \in Nat /\ g[x] \in Int
    BY <2>1
  <2>3. g[a] = 0 /\ g[b] = 0 /\ \A x \in Account \ {a, b} : g[x] = f[x]
    OBVIOUS
  <2> HIDE DEF f, g
  <2>4. SumFunctionOnSet(g, Account) =
            SumFunctionOnSet(f, Account) + (g[a] - f[a]) + (g[b] - f[b])
    BY <1>1, <2>1, <2>2, <2>3, SumUpdateTwo
  <2>5. SumFunctionOnSet(g, Account) \in Nat
    BY <2>1, <2>2, SumNat
  <2>6. f[a] = Magnitude(options[a].size) /\ f[b] = Magnitude(options[b].size)
        /\ SumFunctionOnSet(f, Account) = slot.openInterest
    BY <2>1 DEF f
  <2>7. slot.openInterest >= Magnitude(options[a].size) + Magnitude(options[b].size)
    BY <1>11, <2>3, <2>4, <2>5, <2>6
  <2>8. Magnitude(q.size) \in Nat /\ Magnitude(r.size) \in Nat
    BY <1>9, <1>10 DEF Positions, Magnitude
  <2> QED BY <1>11, <2>7, <2>8
<1>15. slot.orders + fewer >= 0
  <2>1. /\ IsFiniteSet(Account)
        /\ \A x \in Account : OrdersOf(options)[x] \in Nat
        /\ slot.orders = SumFunctionOnSet(OrdersOf(options), Account)
        /\ OrdersOf(options)[a] = options[a].orders /\ OrdersOf(options)[b] = options[b].orders
    BY SlotTyped DEF SlotInv
  <2>2. options[a].orders <= slot.orders /\ options[b].orders <= slot.orders
    BY <2>1, SumNat
  <2>3. options[IF takerSells THEN a ELSE b].orders > 0
    BY <1>1, <1>3, <1>4
  <2> QED BY <1>11, <1>13, <2>2, <2>3
<1> HIDE DEF more, fewer, interest
<1>16. /\ T \in Slots /\ T.status = slot.status /\ T.market = slot.market
       /\ T.orders = slot.orders + fewer /\ T.openInterest = slot.openInterest + more
  <2>1. interest \in Nat
    BY <1>11, <1>12, <1>14
  <2> DEFINE left == slot.orders - (IF filled THEN 1 ELSE 0)
  <2>2. left \in Nat
    BY <1>11, <1>13, <1>15
  <2>3. T = [slot EXCEPT !.openInterest = interest, !.orders = left]
    OBVIOUS
  <2>4. left = slot.orders + fewer
    BY <1>13
  <2> HIDE DEF left, T
  <2> QED BY <1>2, <1>12, <2>1, <2>2, <2>3, <2>4 DEF Slots
<1> HIDE DEF T
<1>17. Recounted(slot, T, fewer, more)
  BY <1>16 DEF Recounted
<1>18. (q.size - options[a].size) + (r.size - options[b].size) = 0
  BY <1>0, <1>7, <1>8, <1>9, <1>10, <1>11
<1>19. SlotInv(T, [options EXCEPT ![a] = q, ![b] = r])
  BY <1>1, <1>9, <1>10, <1>17, <1>18, TwoPositions DEF more, fewer
<1>20. Exchanged(a, b, deal, q, r)
  BY <1>1, <1>7, <1>8, <1>9, <1>10 DEF Exchanged, bought, sold
<1> QED BY <1>1, <1>16, <1>19, <1>20

\* A position that is paid leaves the market, and the slot when it was the last.
LEMMA SettleSteps ==
    ASSUME SlotInv(slot, options), NEW a \in Account, SettlePosition(a)
    PROVE  /\ SlotInv(slot', options')
           /\ \E T, q : /\ SlotInv(T, options') /\ slot' = Release(T) /\ T.price = slot.price
                        /\ T.status = InSettlement /\ q \in Positions /\ q.size = 0
                        /\ options' = [options EXCEPT ![a] = q]
           /\ PositionOf(a).size = options[a].size
<1> DEFINE p == PositionOf(a)
           q == IF p.size # 0 THEN EmptyPosition(NilMarket) ELSE Kept(p)
           T == [slot EXCEPT !.openInterest = @ - Magnitude(p.size)]
<1>1. /\ slot.status = InSettlement /\ p.orders = 0
      /\ Magnitude(p.size) <= slot.openInterest
      /\ options' = [options EXCEPT ![a] = q] /\ slot' = Release(T)
  BY DEF SettlePosition
<1>2. slot \in Slots /\ slot.market # NilMarket
  BY <1>1 DEF SlotInv, InSettlement, Expired
<1>3. /\ p \in Positions /\ p.market = slot.market
      /\ p.size = options[a].size /\ p.orders = options[a].orders
      /\ p.entry \in 0..(Cap * Magnitude(p.size))
  BY PositionSeen
<1> HIDE DEF p
<1>4. /\ q \in Positions /\ Hosted(q, slot) /\ q.size = 0 /\ q.orders = 0
  <2>1. CASE p.size = 0
    <3>1. q = Kept(p)
      BY <2>1
    <3>2. Kept(p) \in Positions /\ Hosted(Kept(p), slot)
          /\ Kept(p).size = p.size /\ Kept(p).orders = p.orders
      BY <1>2, <1>3, KeptPosition
    <3> QED BY <1>1, <2>1, <3>1, <3>2
  <2>2. CASE p.size # 0
    <3>1. Magnitude(0) = 0 /\ 0 \in 0..(Cap * 0)
      BY BinaryOptionsAssumption DEF Magnitude
    <3> QED BY <2>2, <3>1 DEF EmptyPosition, Positions, NilMarket, Hosted, HasNoData
  <2> QED BY <2>1, <2>2
<1> HIDE DEF q
<1>5. /\ Magnitude(p.size) \in Nat /\ Magnitude(options[a].size) = Magnitude(p.size)
      /\ Magnitude(q.size) = 0
  BY <1>3, <1>4 DEF Positions, Magnitude
<1>6. /\ T \in Slots /\ T.status = slot.status /\ T.market = slot.market
      /\ T.price = slot.price /\ T.orders = slot.orders + 0
      /\ T.openInterest = slot.openInterest + (-Magnitude(p.size))
  BY <1>1, <1>2, <1>5 DEF Slots
<1> HIDE DEF T
<1>7. Recounted(slot, T, q.orders - options[a].orders,
                Magnitude(q.size) - Magnitude(options[a].size))
  <2>1. /\ q.orders - options[a].orders = 0
        /\ Magnitude(q.size) - Magnitude(options[a].size) = -Magnitude(p.size)
    BY <1>1, <1>3, <1>4, <1>5
  <2> QED BY <1>6, <2>1 DEF Recounted
<1>8. SlotInv(T, [options EXCEPT ![a] = q])
  BY <1>1, <1>4, <1>7, OnePosition
<1>9. SlotInv(Release(T), [options EXCEPT ![a] = q])
  BY <1>8, ReleasedSlot
<1>10. PositionOf(a).size = options[a].size
  BY <1>3 DEF p
<1> QED BY <1>1, <1>4, <1>6, <1>8, <1>9, <1>10

-----------------------------------------------------------------------------
(* The invariant. *)

\* A market slot starts without a market.
LEMMA OptionsInit == Init => OptionsInv
<1> SUFFICES ASSUME NEW start \in Genesis, slot = NoMarket(start.operator, Treasury),
                    options = [a \in Account |-> EmptyPosition(NilMarket)], nextMarket = 1
             PROVE  OptionsInv
  BY DEF Init
<1>1. slot \in Slots
  BY BinaryOptionsAssumption DEF Slots, NoMarket, NilMarket, Statuses, Owners, FeeCollectors
<1>2. options \in [Account -> Positions]
  BY DEF EmptyPosition, Positions, NilMarket
<1>3. Magnitude(0) = 0 /\ 0 \in 0..(Cap * 0)
  BY BinaryOptionsAssumption DEF Magnitude
<1>4. \A a \in Account : Hosted(options[a], slot)
  BY <1>3 DEF Hosted, HasNoData, EmptyPosition
<1>5. /\ SumFunctionOnSet(OrdersOf(options), Account) = 0
      /\ SumFunctionOnSet(SharesOf(options), Account) = 0
      /\ SumFunctionOnSet(NetOf(options), Account) = 0
  <2>1. \A a \in Account : /\ OrdersOf(options)[a] = 0 /\ SharesOf(options)[a] = 0
                           /\ NetOf(options)[a] = 0
    BY <1>3 DEF OrdersOf, SharesOf, NetOf, EmptyPosition
  <2> QED BY <2>1, SumZeros, BalancesAssumption
<1>6. slot.status = Expired /\ slot.orders = 0 /\ slot.openInterest = 0
  BY DEF NoMarket
<1> QED BY <1>1, <1>2, <1>4, <1>5, <1>6 DEF OptionsInv, SlotInv

\* Every transaction keeps the counters of the slot and the positions on it.
LEMMA OptionsNext == OptionsInv /\ [Next]_<<fundVars, optionVars>> => OptionsInv'
<1> SUFFICES ASSUME OptionsInv, [Next]_<<fundVars, optionVars>> PROVE OptionsInv'
  OBVIOUS
<1>0. SlotInv(slot, options) /\ nextMarket \in Nat \ {0}
  BY DEF OptionsInv
<1> SUFFICES SlotInv(slot', options') /\ nextMarket' \in Nat \ {0}
  BY DEF OptionsInv, SlotInv, OrdersOf, SharesOf, NetOf, Hosted, HasNoData, Slots, Positions,
         Magnitude
<1>1. CASE UNCHANGED optionVars
  BY <1>0, <1>1 DEF optionVars
<1>2. CASE Operate
  BY <1>0, <1>2, OperatorSteps
<1>3. CASE Bets
  <2>1. ASSUME NEW a \in Traders, RestOrder(a) \/ CancelOrder(a)
        PROVE  SlotInv(slot', options') /\ nextMarket' \in Nat \ {0}
    BY <1>0, <2>1, FundsAssumption, OrderSteps DEF RestOrder, CancelOrder
  <2>2. ASSUME NEW a \in Account, SettlePosition(a)
        PROVE  SlotInv(slot', options') /\ nextMarket' \in Nat \ {0}
    BY <1>0, <2>2, SettleSteps DEF SettlePosition
  <2>3. ASSUME NEW a \in Traders, NEW b \in Traders, NEW deal \in Deals, NEW c \in Integrators,
               NEW takerSells \in BOOLEAN, NEW filled \in BOOLEAN,
               Trade(a, b, deal, c, takerSells, filled)
        PROVE  SlotInv(slot', options') /\ nextMarket' \in Nat \ {0}
    <3>1. a \in Account /\ b \in Account
      BY FundsAssumption
    <3>2. SlotInv(slot', options')
      BY <1>0, <2>3, <3>1, TradeSteps
    <3> QED BY <1>0, <2>3, <3>2 DEF Trade
  <2> QED BY <1>3, <2>1, <2>2, <2>3 DEF Bets
<1> QED BY <1>1, <1>2, <1>3 DEF Next, FundSteps, fundVars, optionVars

\* The slot is given to the next market only when no account has an order or a share of the
\* last, the counters it waits for are exact, and no entry exceeds what its shares can pay.
THEOREM SlotsAreDrained == Spec => []OptionsInOrder
<1>1. OptionsInv => OptionsInOrder
  BY DEF OptionsInv, SlotInv, OptionsInOrder, PositionsOfTheMarket, SlotMatches,
         EntriesBounded, Hosted, OrdersOf, SharesOf, NetOf, SumOver
<1> QED BY <1>1, OptionsInit, OptionsNext, PTL DEF Spec
=============================================================================
