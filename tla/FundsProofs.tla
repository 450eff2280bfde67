----------------------------- MODULE FundsProofs -----------------------------
(***************************************************************************)
(* Proofs about Options, layer by layer.  First the balances are in their   *)
(* places and add up to the totals and to the strategies that follow them;  *)
(* then nobody is in debt and what a fee collector owes integrators it has; *)
(* then the books balance with what L1 holds; and last what each block      *)
(* publishes and what the resting orders lock.                              *)
(***************************************************************************)
EXTENDS BalancesProofs

-----------------------------------------------------------------------------
(* The balances in their places. *)

\* Who may collect the fees of a market.
UserAccounts == {a \in Account : IsUser(a)}

\* The accounts; assets other than USDC are used as margin in unified mode only.  The
\* treasury and the collector of the slot are users.
AccountsOK ==
    /\ DOMAIN account = Account
    /\ \A a \in Account :
          /\ {"kind", "mode", "master"} \subseteq DOMAIN account[a]
          /\ account[a].kind \in Kinds
          /\ account[a].mode \in {Simple, Unified}
    /\ useMargin \in [Account -> [Asset -> BOOLEAN]]
    /\ \A a \in Account, x \in Asset \ {USDC} : useMargin[a][x] => account[a].mode = Unified
    /\ \A a \in Integrators \union {FeeAccount} : Exists(a)
    /\ {Treasury, slot.collector} \subseteq UserAccounts

\* What a fee collector is told to pay, and to whom.
Instructions == {i \in [asset : Asset, units : Nat, from : UserAccounts, to : Integrators,
                        side : {Spot}] : i.to # i.from}

Placed == Sound(funds, FundAccounts, ModeOf, useMargin)

Books == AccountsOK /\ transfers \in Seq(Instructions) /\ Placed

\* The constants.
LEMMA Constants ==
    /\ IsFiniteSet(Account) /\ USDC \in Asset /\ Default \in Strategy /\ SpotStrategy \in Strategy
    /\ FeeAccount \in Account /\ Treasury \in Account /\ Integrators \subseteq Account
    /\ LIT # USDC
    /\ \A x \in Asset : Mult[x] \in Nat \ {0}
    /\ Units \subseteq Nat \ {0} /\ Fees \subseteq Nat
    /\ Traders \subseteq Account
    /\ FundAccounts \subseteq Account
BY BalancesAssumption, FundTransactionsAssumption, FundsAssumption DEF FundAccounts

\* A number of units of an asset.
LEMMA UnitsExtended ==
    ASSUME NEW n \in Int, NEW x \in Asset
    PROVE  /\ n * Mult[x] \in Int
           /\ n >= 0 => n * Mult[x] >= 0
           /\ n > 0 => n * Mult[x] > 0
           /\ -(n * Mult[x]) \in Int
<1>1. Mult[x] \in Nat /\ Mult[x] > 0
  BY Constants
<1> QED BY <1>1

\* The accounts that take part in transactions.
LEMMA BooksTyped ==
    ASSUME Books
    PROVE  /\ AccountsTyped
           /\ Sound(funds, FundAccounts, ModeOf, useMargin) /\ funds \in RawFunds
           /\ \A a \in Account : Mode(a) \in {Simple, Unified}
<1>1. \A a \in Account : Mode(a) \in {Simple, Unified}
  BY DEF Books, AccountsOK, Mode
<1> QED BY <1>1 DEF Books, AccountsOK, AccountsTyped, Placed, Sound

-----------------------------------------------------------------------------
(* What the transactions do to the balances. *)

\* A deposit creates an account at most, as the unified account it was taken for.
LEMMA DepositEffect ==
    ASSUME Books, NEW a \in Account, NEW x \in Asset, NEW n \in Nat, NEW side \in Products,
           L1Deposit(a, x, n, side)
    PROVE  /\ \E m \in Int : Credited(funds, funds', a, x, side, n * Mult[x], m, Default)
           /\ ~IsFund(a)
<1>1. ~IsFund(a)
  BY DEF L1Deposit, IsFund
<1>2. n * Mult[x] \in Int /\ n * Mult[x] >= 0
  BY UnitsExtended
<1>3. CASE n = 0
  <2>1. funds' = funds /\ n * Mult[x] = 0
    BY <1>3, Constants DEF L1Deposit
  <2>2. Moved(funds, funds', FundAccounts, a, x, 0, 0, Default)
    BY <2>1, BooksTyped, MovedNothing, Constants
  <2>3. Credited(funds, funds', a, x, side, n * Mult[x], 0, Default)
    BY <1>1, <2>1, <2>2, BooksTyped DEF Credited
  <2> QED BY <1>1, <2>3
<1>4. CASE n # 0
  <2>1. funds' = Delta(funds, a, x, side, n * Mult[x], Default) /\ Splittable(a, x, side)
    BY <1>4 DEF L1Deposit
  <2>2. \E m \in Int : Credited(funds, funds', a, x, side, n * Mult[x], m, Default)
    BY <1>1, <1>2, <2>1, BooksTyped, DeltaCredits, Constants
  <2> QED BY <1>1, <2>2
<1> QED BY <1>3, <1>4

\* A withdrawal takes it from the sides of a user.
LEMMA WithdrawEffect ==
    ASSUME Books, NEW a \in Account, NEW x \in Asset, NEW n \in Units, NEW side \in Products,
           IsUser(a), Withdraw(a, x, n, side)
    PROVE  \E m \in Int : Credited(funds, funds', a, x, side, -(n * Mult[x]), m, Default)
<1>1. ~IsFund(a)
  BY DEF IsUser, IsFund
<1>2. -(n * Mult[x]) \in Int
  BY UnitsExtended, Constants
<1>3. /\ funds' = Delta(funds, a, x, side, -(n * Mult[x]), Default)
      /\ Splittable(a, x, side)
      /\ funds'.spot[a][x] >= 0 /\ (x # USDC => funds'.margin[a][x] >= 0)
  BY DEF Withdraw, Valid
<1> QED BY <1>1, <1>2, <1>3, BooksTyped, DeltaCredits, Constants

\* The four steps of a transfer: the sender's part, his fee in another asset than USDC, the
\* fee account's, the receiver's part.  Within an account each is on the side it names.
TransferSteps(a, b, x, d, f, from, to, s, sent, paid, earned, m, k, l) ==
    /\ m \in Int /\ k \in Int /\ l \in Int
    /\ Credited(funds, sent, a, x, from, -(d + IF x = USDC THEN f ELSE 0), m, s)
    /\ Credited(sent, paid, a, USDC, from, IF x = USDC THEN 0 ELSE -f, k, s)
    /\ Moved(paid, earned, FundAccounts, FeeAccount, USDC, f, 0, s)
    /\ Sound(earned, FundAccounts, ModeOf, useMargin)
    /\ Credited(earned, funds', b, x, to, d, l, s)
    /\ a = b => /\ m = IF from = Spot THEN 0 ELSE -(d + IF x = USDC THEN f ELSE 0)
                /\ l = IF to = Spot THEN 0 ELSE d

\* Who sends within his account is a user, and has USDC there only in simple mode.
LEMMA WithinAccount ==
    ASSUME Books, NEW a \in Account, NEW x \in Asset, NEW n, NEW fee,
           NEW from \in Products, NEW to \in Products, NEW s,
           L2Transfer(a, a, x, n, fee, from, to, s)
    PROVE  IsUser(a) /\ ~IsFund(a) /\ (x = USDC => Mode(a) = Simple)
<1>1. IsUser(a)
  <2>1. SenderAllowed(a, x, from) /\ ReceiverAllowed(a, x, to)
    BY DEF L2Transfer
  <2> QED BY <2>1 DEF SenderAllowed, ReceiverAllowed
<1>2. ~(account[a].mode = Unified /\ x = USDC)
  BY DEF L2Transfer
<1>3. Mode(a) = account[a].mode /\ Mode(a) \in {Simple, Unified}
  BY <1>1, BooksTyped DEF Mode, Exists, IsUser
<1> QED BY <1>1, <1>2, <1>3 DEF IsUser, IsFund

\* A transfer takes these steps.
LEMMA TransferEffect ==
    ASSUME Books, NEW a \in Account, NEW b \in Account, NEW x \in Asset, NEW n \in Units,
           NEW fee \in Fees, NEW from \in Products, NEW to \in Products, NEW s \in Strategy,
           L2Transfer(a, b, x, n, fee, from, to, s)
    PROVE  \E sent, paid, earned, m, k, l :
               TransferSteps(a, b, x, n * Mult[x], fee * Mult[USDC], from, to, s,
                             sent, paid, earned, m, k, l)
<1> DEFINE d == n * Mult[x]
           f == fee * Mult[USDC]
           d1 == -(d + IF x = USDC THEN f ELSE 0)
           d2 == IF x = USDC THEN 0 ELSE -f
           sent == IF a = b /\ x # USDC THEN Raw(funds, a, x, from, -d)
                   ELSE Delta(funds, a, x, from, -(d + IF x = USDC THEN f ELSE 0), s)
           paid == IF x = USDC THEN sent ELSE Delta(sent, a, USDC, from, -f, s)
           earned == Collateral(paid, FeeAccount, f, s)
<1>1. /\ USDC \in Asset /\ FeeAccount \in Account
      /\ d \in Int /\ d >= 0 /\ f \in Int /\ f >= 0
  BY Constants, UnitsExtended
<1>2. /\ a = b => /\ x # USDC => RawAllowed(funds, a, x, from, -d)
                  /\ RawAllowed(earned, a, x, to, d)
      /\ a # b => Splittable(a, x, from) /\ Splittable(b, x, to)
      /\ Valid(sent, a, x)
      /\ Valid(paid, a, USDC)
      /\ funds' = IF a = b THEN Raw(earned, a, x, to, d) ELSE Delta(earned, b, x, to, d, s)
      /\ Valid(funds', b, x)
  BY DEF L2Transfer, Transfer
<1>3. /\ SenderAllowed(a, x, from) /\ ReceiverAllowed(b, x, to)
      /\ from = Perps => UsedAsMargin(a, x)
      /\ to = Perps => UsedAsMargin(b, x)
      /\ a = b => from # to
  BY DEF L2Transfer
<1>4. /\ IsFund(a) => x = USDC
      /\ IsFund(b) => x = USDC
  BY <1>3 DEF SenderAllowed, ReceiverAllowed, IsUser, IsFund, IsPool
<1>5. a = b => ~IsFund(a) /\ (x = USDC => Mode(a) = Simple)
  BY WithinAccount
<1>6. d1 \in Int /\ -d \in Int /\ d2 \in Int /\ -f \in Int
  BY <1>1
<1>7. AccountsTyped /\ Sound(funds, FundAccounts, ModeOf, useMargin)
  BY BooksTyped
<1>8. \E m \in Int : /\ Credited(funds, sent, a, x, from, d1, m, s)
                     /\ a = b => m = IF from = Spot THEN 0 ELSE d1
  <2>1. sent.spot[a][x] >= 0 /\ (x # USDC => sent.margin[a][x] >= 0)
    BY <1>2 DEF Valid
  <2>2. CASE a = b /\ x # USDC
    <3>1. sent = Raw(funds, a, x, from, -d) /\ d1 = -d
      BY <1>1, <2>2
    <3> HIDE DEF sent, d, d1
    <3> QED BY <1>2, <1>3, <1>5, <1>6, <1>7, <2>1, <2>2, <3>1, RawCredits
  <2>3. CASE ~(a = b /\ x # USDC)
    <3>1. sent = Delta(funds, a, x, from, d1, s)
      BY <2>3
    <3>2. Splittable(a, x, from)
      BY <1>2, <2>3, UsdcSplittable
    <3> HIDE DEF sent, d1
    <3>3. PICK m \in Int : Credited(funds, sent, a, x, from, d1, m, s)
      BY <1>4, <1>6, <1>7, <2>1, <3>1, <3>2, DeltaCredits
    <3>4. a = b => m = IF from = Spot THEN 0 ELSE d1
      BY <1>5, <2>3, <3>3 DEF Credited
    <3> QED BY <3>3, <3>4
  <2> QED BY <2>2, <2>3
<1> HIDE DEF sent
<1>9. PICK m \in Int : /\ Credited(funds, sent, a, x, from, d1, m, s)
                       /\ a = b => m = IF from = Spot THEN 0 ELSE d1
  BY <1>8
<1>10. Sound(sent, FundAccounts, ModeOf, useMargin)
  BY <1>9 DEF Credited
<1>11. \E k \in Int : Credited(sent, paid, a, USDC, from, d2, k, s)
  <2>1. CASE x = USDC
    <3>1. paid = sent /\ d2 = 0
      BY <2>1
    <3>2. Credited(sent, sent, a, USDC, from, 0, 0, s)
      BY <1>1, <1>10, NothingCredited
    <3> QED BY <3>1, <3>2
  <2>2. CASE x # USDC
    <3>1. paid = Delta(sent, a, USDC, from, d2, s)
      BY <2>2
    <3>2. paid.spot[a][USDC] >= 0
      BY <1>2 DEF Valid
    <3> HIDE DEF paid, d2
    <3> QED BY <1>1, <1>6, <1>7, <1>10, <3>1, <3>2, UsdcSplittable, DeltaCredits
  <2> QED BY <2>1, <2>2
<1> HIDE DEF paid
<1>12. PICK k \in Int : Credited(sent, paid, a, USDC, from, d2, k, s)
  BY <1>11
<1>13. Sound(paid, FundAccounts, ModeOf, useMargin)
  BY <1>12 DEF Credited
<1>14. /\ Moved(paid, earned, FundAccounts, FeeAccount, USDC, f, 0, s)
       /\ Sound(earned, FundAccounts, ModeOf, useMargin)
  BY <1>1, <1>13, CollateralSound
<1> HIDE DEF earned
<1>15. \E l \in Int : /\ Credited(earned, funds', b, x, to, d, l, s)
                      /\ a = b => l = IF to = Spot THEN 0 ELSE d
  <2>1. CASE a = b
    <3>1. funds' = Raw(earned, b, x, to, d) /\ RawAllowed(earned, b, x, to, d)
      BY <1>2, <2>1
    <3> HIDE DEF d
    <3> QED BY <1>1, <1>3, <1>5, <1>7, <1>14, <2>1, <3>1, RawCredits
  <2>2. CASE a # b
    <3>1. funds' = Delta(earned, b, x, to, d, s) /\ Splittable(b, x, to)
      BY <1>2, <2>2
    <3> HIDE DEF d
    <3> QED BY <1>1, <1>4, <1>7, <1>14, <2>2, <3>1, DeltaCredits
  <2> QED BY <2>1, <2>2
<1>16. PICK l \in Int : /\ Credited(earned, funds', b, x, to, d, l, s)
                        /\ a = b => l = IF to = Spot THEN 0 ELSE d
  BY <1>15
<1>17. TransferSteps(a, b, x, d, f, from, to, s, sent, paid, earned, m, k, l)
  BY <1>9, <1>12, <1>14, <1>16 DEF TransferSteps
<1> QED BY <1>17

\* Collateral moves between the cross and the isolated margin of a user.
MarginSteps(a, d, moved) ==
    /\ Moved(funds, moved, FundAccounts, a, USDC, -d, 0, Default)
    /\ Sound(moved, FundAccounts, ModeOf, useMargin)
    /\ Sound(funds', FundAccounts, ModeOf, useMargin)
    /\ funds'.spot = moved.spot /\ funds'.margin = moved.margin
    /\ funds'.strategies = moved.strategies /\ funds'.unlocks = moved.unlocks
    /\ funds'.allocated[a] = moved.allocated[a] + d
    /\ \A b \in Account : b # a => funds'.allocated[b] = moved.allocated[b]
    /\ \A y \in Asset : InAccounts(funds', y)
                           = InAccounts(moved, y) + (IF y = USDC THEN d ELSE 0)

\* The transaction that sets isolated margin does that.
LEMMA UpdateMarginEffect ==
    ASSUME Books, NEW a \in Account, NEW n \in Units, NEW adding \in BOOLEAN,
           L2UpdateMargin(a, n, adding)
    PROVE  \E moved : MarginSteps(a, IF adding THEN n * Mult[USDC] ELSE -(n * Mult[USDC]), moved)
<1> DEFINE e == IF adding THEN n * Mult[USDC] ELSE -(n * Mult[USDC])
           moved == Collateral(funds, a, IF adding THEN -(n * Mult[USDC]) ELSE n * Mult[USDC],
                               Default)
<1>1. e \in Int /\ -e \in Int /\ USDC \in Asset /\ Default \in Strategy
  BY Constants, UnitsExtended
<1>2. moved = Collateral(funds, a, -e, Default)
  <2>1. (IF adding THEN -(n * Mult[USDC]) ELSE n * Mult[USDC]) = -e
    BY Constants, UnitsExtended
  <2> QED BY <2>1
<1> HIDE DEF moved
<1>3. /\ Moved(funds, moved, FundAccounts, a, USDC, -e, 0, Default)
      /\ Sound(moved, FundAccounts, ModeOf, useMargin) /\ moved \in RawFunds
  <2> HIDE DEF e
  <2> QED BY <1>1, <1>2, BooksTyped, CollateralSound DEF Sound
<1> DEFINE A == [moved.allocated EXCEPT ![a] = @ + e]
<1>4. A \in [Account -> Int] /\ A[a] = moved.allocated[a] + e
      /\ \A b \in Account : b # a => A[b] = moved.allocated[b]
  BY <1>1, <1>3 DEF RawFunds
<1>5. funds' = [moved EXCEPT !.allocated = A]
  BY DEF L2UpdateMargin, moved
<1> HIDE DEF A, e
<1>6. /\ funds' \in RawFunds
      /\ funds'.spot = moved.spot /\ funds'.margin = moved.margin
      /\ funds'.supplied = moved.supplied
      /\ funds'.allocated = A /\ funds'.strategies = moved.strategies
      /\ funds'.unlocks = moved.unlocks
  BY <1>3, <1>4, <1>5, AllocatedParts
<1>7. /\ Sound(funds', FundAccounts, ModeOf, useMargin)
      /\ \A y \in Asset : InAccounts(funds', y)
                             = InAccounts(moved, y) + (IF y = USDC THEN e ELSE 0)
  BY <1>1, <1>3, <1>4, <1>6, AllocatedSound
<1>8. MarginSteps(a, e, moved)
  BY <1>3, <1>4, <1>6, <1>7 DEF MarginSteps
<1> QED BY <1>8 DEF e

\* USDC moves between two strategies of a fund, and nothing else.
StrategySteps(a, s, t, d) ==
    /\ Sound(funds', FundAccounts, ModeOf, useMargin)
    /\ funds'.spot = funds.spot /\ funds'.margin = funds.margin
    /\ funds'.allocated = funds.allocated /\ funds'.unlocks = funds.unlocks
    /\ funds'.strategies[a][s] = funds.strategies[a][s] - d
    /\ funds'.strategies[a][t] = funds.strategies[a][t] + d
    /\ \A i \in Strategy \ {s, t} : funds'.strategies[a][i] = funds.strategies[a][i]
    /\ \A b \in Account : b # a => funds'.strategies[b] = funds.strategies[b]

\* The transfer between strategies does that.
LEMMA StrategyTransferEffect ==
    ASSUME Books, NEW a \in Account, NEW s \in Strategy, NEW t \in Strategy, NEW n \in Units,
           L2StrategyTransfer(a, s, t, n)
    PROVE  StrategySteps(a, s, t, n * Mult[USDC])
<1> DEFINE d == n * Mult[USDC]
           T == [funds.strategies EXCEPT ![a][s] = @ + (-d)]
           U == [T EXCEPT ![a][t] = @ + d]
<1>1. d \in Int /\ -d \in Int /\ FundAccounts \subseteq Account
  BY Constants, UnitsExtended
<1>2. funds \in RawFunds /\ Sound(funds, FundAccounts, ModeOf, useMargin)
  BY BooksTyped
<1>3. funds.strategies \in [Account -> [Strategy -> Int]]
  BY <1>2 DEF RawFunds
<1>4. s # t /\ funds' = [funds EXCEPT !.strategies[a][s] = @ - d, !.strategies[a][t] = @ + d]
  BY DEF L2StrategyTransfer
<1> HIDE DEF d
<1>5. /\ T \in [Account -> [Strategy -> Int]] /\ T[a][s] = funds.strategies[a][s] + (-d)
      /\ \A k \in Strategy : k # s => T[a][k] = funds.strategies[a][k]
      /\ \A b \in Account : b # a => T[b] = funds.strategies[b]
  BY <1>1, <1>3, AddTo
<1>6. /\ U \in [Account -> [Strategy -> Int]] /\ U[a][t] = T[a][t] + d
      /\ \A k \in Strategy : k # t => U[a][k] = T[a][k]
      /\ \A b \in Account : b # a => U[b] = T[b]
  <2> HIDE DEF T
  <2> QED BY <1>1, <1>5, AddTo
<1>7. funds' = [funds EXCEPT !.strategies = U]
  <2>1. funds.strategies[a][s] - d = funds.strategies[a][s] + (-d)
    BY <1>1, <1>3
  <2>2. funds' = [[funds EXCEPT !.strategies[a][s] = @ - d] EXCEPT !.strategies[a][t] = @ + d]
    BY <1>4
  <2> QED BY <1>2, <2>1, <2>2 DEF RawFunds
<1> HIDE DEF T, U
<1>8. /\ funds' \in RawFunds
      /\ funds'.spot = funds.spot /\ funds'.margin = funds.margin
      /\ funds'.supplied = funds.supplied
      /\ funds'.allocated = funds.allocated /\ funds'.strategies = U
      /\ funds'.unlocks = funds.unlocks
  BY <1>2, <1>6, <1>7, StrategiesParts
<1>9. /\ U[a][s] = funds.strategies[a][s] - d /\ U[a][t] = funds.strategies[a][t] + d
      /\ \A i \in Strategy \ {s, t} : U[a][i] = funds.strategies[a][i]
      /\ \A b \in Account : b # a => U[b] = funds.strategies[b]
  BY <1>1, <1>3, <1>4, <1>5, <1>6
<1>10. ASSUME NEW b \in FundAccounts
       PROVE  SumFunctionOnSet(funds'.strategies[b], Strategy) = funds.margin[b][USDC]
  <2>1. /\ SumFunctionOnSet(funds.strategies[b], Strategy) = funds.margin[b][USDC]
        /\ b \in Account
    BY <1>1, <1>2 DEF Sound, SumsHold
  <2>2. CASE b # a
    BY <1>8, <1>9, <2>1, <2>2
  <2>3. CASE b = a
    <3> DEFINE f == funds.strategies[a]
               g == U[a]
    <3>1. IsFiniteSet(Strategy)
      BY Constants, BalancesAssumption
    <3>2. \A i \in Strategy : f[i] \in Int /\ g[i] \in Int
      BY <1>3, <1>6
    <3>3. g[s] = f[s] - d /\ g[t] = f[t] + d /\ \A i \in Strategy \ {s, t} : g[i] = f[i]
      BY <1>9
    <3>4. s # t
      BY <1>4
    <3> HIDE DEF f, g
    <3>5. SumFunctionOnSet(g, Strategy)
             = SumFunctionOnSet(f, Strategy) + (g[s] - f[s]) + (g[t] - f[t])
      BY <3>1, <3>2, <3>3, <3>4, SumUpdateTwo
    <3>6. SumFunctionOnSet(f, Strategy) \in Int
      BY <3>1, <3>2, SumInt
    <3>7. SumFunctionOnSet(g, Strategy) = SumFunctionOnSet(f, Strategy)
      BY <1>1, <3>2, <3>3, <3>5, <3>6
    <3> QED BY <1>8, <2>1, <2>3, <3>7 DEF f, g
  <2> QED BY <2>2, <2>3
<1>11. Sound(funds', FundAccounts, ModeOf, useMargin)
  BY <1>2, <1>8, <1>10, SoundSame
<1> QED BY <1>8, <1>9, <1>11 DEF StrategySteps, d

\* What an account has of an asset moves to one of its sides, as far as there is room.
LEMMA ReassignEffect ==
    ASSUME Books, NEW a \in Account, NEW x \in Asset, NEW enable \in BOOLEAN,
           L2UpdateAccountAssetConfig(a, x, enable)
    PROVE  /\ \E m \in Int : Moved(funds, funds', FundAccounts, a, x, m, -m, Default)
           /\ Sound(funds', FundAccounts, ModeOf, useMargin')
<1> DEFINE all == IF enable THEN funds.spot[a][x] ELSE funds.margin[a][x]
           out == Raw(funds, a, x, IF enable THEN Spot ELSE Perps, -all)
           m   == IF enable THEN InflowPart(out, a, x, all) ELSE 0
           m1  == IF enable THEN 0 ELSE -all
           r1  == IF enable THEN -all ELSE 0
<1>1. /\ funds' = Put(out, a, x, IF enable THEN Perps ELSE Spot, m, all, Default)
      /\ x # USDC /\ ~IsFund(a) /\ a \notin FundAccounts
      /\ useMargin' = [useMargin EXCEPT ![a][x] = enable]
      /\ useMargin[a][x] # enable
      /\ funds'.spot[a][x] >= 0 /\ funds'.margin[a][x] >= 0
  BY DEF L2UpdateAccountAssetConfig, Reassign, Valid, IsUser, IsFund, FundAccounts
<1>2. funds \in RawFunds /\ Sound(funds, FundAccounts, ModeOf, useMargin) /\ AccountsTyped
  BY BooksTyped
<1>3. /\ funds.spot[a][x] \in Int /\ funds.margin[a][x] \in Int /\ funds.supplied[x] \in Int
      /\ funds.spot[a][x] >= 0 /\ funds.margin[a][x] >= 0 /\ funds.supplied[x] <= GlobalCap[x]
      /\ GlobalCap[x] \in Int /\ UserCap[x] \in Int
      /\ ~useMargin[a][x] => funds.margin[a][x] = 0
      /\ funds.margin[a][x] <= UserCap[x]
  <2>1. Cell(funds, FundAccounts, ModeOf, useMargin, a, x)
    BY <1>2 DEF Sound
  <2>2. funds.spot[a][x] \in Int /\ funds.margin[a][x] \in Int /\ funds.supplied[x] \in Int
    BY <1>2 DEF RawFunds, Tables
  <2>3. funds.supplied[x] <= GlobalCap[x]
    BY <1>1, <1>2 DEF Sound
  <2>4. GlobalCap[x] \in Int /\ UserCap[x] \in Int
    BY BalancesAssumption
  <2>5. /\ funds.spot[a][x] >= 0 /\ funds.margin[a][x] >= 0
        /\ ~useMargin[a][x] => funds.margin[a][x] = 0
        /\ funds.margin[a][x] <= UserCap[x]
    BY <1>1, <2>1 DEF Cell
  <2> QED BY <2>2, <2>3, <2>4, <2>5
<1>4. all \in Int /\ all >= 0 /\ -all \in Int /\ m1 \in Int /\ r1 \in Int
  BY <1>3
<1>5. /\ Spot # Perps /\ Spot \in Products /\ Perps \in Products /\ Default \in Strategy
      /\ FundAccounts \subseteq Account
  BY Constants DEF Spot, Perps, Products
<1>6. Moved(funds, out, FundAccounts, a, x, m1, r1, Default)
  <2> DEFINE side == IF enable THEN Spot ELSE Perps
  <2>1. side \in Products /\ (side = Spot <=> enable)
    BY <1>5
  <2>2. out = Raw(funds, a, x, side, -all)
    OBVIOUS
  <2>3. m1 = (IF side = Spot THEN 0 ELSE -all) /\ r1 = IF side = Spot THEN -all ELSE 0
    BY <2>1
  <2> HIDE DEF side, out, all, m1, r1
  <2> QED BY <1>1, <1>2, <1>4, <1>5, <2>1, <2>2, <2>3, RawMoves
<1> HIDE DEF out
<1>7. /\ out.supplied[x] = funds.supplied[x] + m1
      /\ out.margin[a][x] = funds.margin[a][x] + m1
      /\ out \in RawFunds
  BY <1>1, <1>6 DEF Moved
<1>8. /\ m \in Int /\ 0 <= m /\ m <= all
      /\ ~enable => m = 0
      /\ m > 0 => /\ funds.supplied[x] + m <= GlobalCap[x]
                  /\ funds.margin[a][x] + m <= UserCap[x]
  <2>1. CASE ~enable
    BY <1>3, <2>1
  <2>2. CASE enable
    <3>1. out.supplied[x] = funds.supplied[x] /\ out.margin[a][x] = funds.margin[a][x]
      BY <1>3, <1>7, <2>2
    <3>2. m = Lesser(all, RemainingCap(out, a, x))
      BY <1>1, <2>2 DEF InflowPart
    <3> DEFINE g == GlobalCap[x] - funds.supplied[x]
               u == UserCap[x] - funds.margin[a][x]
    <3>3. /\ RemainingCap(out, a, x) \in Int /\ RemainingCap(out, a, x) >= 0
          /\ RemainingCap(out, a, x) > 0 =>
                RemainingCap(out, a, x) <= g /\ RemainingCap(out, a, x) <= u
      BY <1>3, <3>1 DEF RemainingCap, Lesser, Positive
    <3>4. m \in Int /\ 0 <= m /\ m <= all /\ m <= RemainingCap(out, a, x)
      BY <1>4, <3>2, <3>3 DEF Lesser
    <3>5. g \in Int /\ u \in Int
      BY <1>3
    <3> HIDE DEF g, u, m
    <3>6. m > 0 => m <= g /\ m <= u
      BY <3>3, <3>4, <3>5
    <3> QED BY <1>3, <2>2, <3>4, <3>6 DEF g, u
  <2> QED BY <2>1, <2>2
<1>9. Moved(out, funds', FundAccounts, a, x, m, all - m, Default)
  <2> DEFINE side == IF enable THEN Perps ELSE Spot
  <2>1. side \in Products
    BY <1>5
  <2>2. funds' = Put(out, a, x, side, m, all, Default)
    BY <1>1
  <2> HIDE DEF side, all, m
  <2> QED BY <1>1, <1>4, <1>5, <1>7, <1>8, <2>1, <2>2, PutMoves
<1>10. Moved(funds, funds', FundAccounts, a, x, m1 + m, r1 + (all - m), Default)
  <2>1. all - m \in Int
    BY <1>4, <1>8
  <2> HIDE DEF all, m, m1, r1
  <2> QED BY <1>2, <1>4, <1>5, <1>6, <1>8, <1>9, <2>1, MovedTwice
<1> DEFINE w == m1 + m
<1>11. w \in Int /\ r1 + (all - m) = -w
  <2> HIDE DEF m, all
  <2> QED BY <1>4, <1>8
<1>12. Moved(funds, funds', FundAccounts, a, x, w, -w, Default)
  BY <1>10, <1>11
<1>13. funds'.margin[a][x] = funds.margin[a][x] + w
  BY <1>12 DEF Moved
<1>14. funds.supplied[x] + w <= GlobalCap[x] /\ funds'.margin[a][x] <= UserCap[x]
  <2>1. CASE m > 0
    <3>1. enable
      BY <1>8, <2>1
    <3>2. w = m
      BY <1>8, <3>1
    <3> HIDE DEF w, m
    <3> QED BY <1>3, <1>8, <1>13, <2>1, <3>2
  <2>2. CASE m = 0
    <3>1. w <= 0 /\ w \in Int
      <4> HIDE DEF m, all
      <4> QED BY <1>4, <2>2
    <3> HIDE DEF w, m
    <3> QED BY <1>3, <1>13, <3>1
  <2> HIDE DEF m
  <2> QED BY <1>8, <2>1, <2>2
<1>15. ~enable => funds'.margin[a][x] = 0
  <2> SUFFICES ASSUME ~enable PROVE funds'.margin[a][x] = 0
    OBVIOUS
  <2>1. w = -funds.margin[a][x]
    BY <1>3, <1>8
  <2> HIDE DEF w
  <2> QED BY <1>3, <1>13, <2>1
<1>16. useMargin' \in [Account -> [Asset -> BOOLEAN]] /\ useMargin'[a][x] = enable
       /\ \A c \in Account, y \in Asset : c # a \/ y # x => useMargin'[c][y] = useMargin[c][y]
  BY <1>1, <1>2 DEF AccountsTyped
<1>17. Cell(funds', FundAccounts, ModeOf, useMargin', a, x)
  BY <1>1, <1>14, <1>15, <1>16 DEF Cell
<1>18. \A c \in Account, y \in Asset : c # a \/ y # x =>
           Cell(funds, FundAccounts, ModeOf, useMargin', c, y)
  BY <1>2, <1>16 DEF Sound, Cell
<1>19. w \in Int /\ -w \in Int
  BY <1>11
<1> HIDE DEF w, m, m1, r1, all
<1>20. Sound(funds', FundAccounts, ModeOf, useMargin')
  BY <1>2, <1>5, <1>12, <1>14, <1>17, <1>18, <1>19, SoundMovedTo
<1> QED BY <1>12, <1>19, <1>20

\* An account that is made unified has its USDC on the margin side.
LEMMA AccountConfigEffect ==
    ASSUME Books, NEW a \in Account, NEW mode \in {Simple, Unified},
           L2UpdateAccountConfig(a, mode)
    PROVE  /\ \E m \in Int : Moved(funds, funds', FundAccounts, a, USDC, m, -m, Default) /\ m >= 0
           /\ ModeOf' = [ModeOf EXCEPT ![a] = mode] /\ FundAccounts' = FundAccounts
           /\ Sound(funds', FundAccounts, ModeOf', useMargin)
<1>1. funds \in RawFunds /\ Sound(funds, FundAccounts, ModeOf, useMargin)
  BY BooksTyped
<1>2. USDC \in Asset /\ Default \in Strategy /\ FundAccounts \subseteq Account
  BY Constants
<1>3. Simple # Unified
  BY DEF Simple, Unified
<1>4. a \notin FundAccounts
  BY DEF L2UpdateAccountConfig, IsUser, IsFund, FundAccounts
<1>5. /\ ModeOf' = [ModeOf EXCEPT ![a] = mode] /\ FundAccounts' = FundAccounts
  <2>1. /\ account' = [account EXCEPT ![a].mode = mode]
        /\ account[a].kind # "none" /\ DOMAIN account = Account
        /\ \A c \in Account : {"kind", "mode", "master"} \subseteq DOMAIN account[c]
    BY DEF L2UpdateAccountConfig, IsUser, Books, AccountsOK
  <2>2. /\ \A c \in Account : account'[c].kind = account[c].kind
        /\ \A c \in Account : c # a => account'[c].mode = account[c].mode
        /\ account'[a].mode = mode
    BY <2>1
  <2> QED BY <2>1, <2>2 DEF ModeOf, Mode, Exists, FundAccounts, IsFund
<1>6. funds.spot[a][USDC] \in Int /\ funds.spot[a][USDC] >= 0 /\ funds.margin[a][USDC] \in Int
  BY <1>1, <1>2 DEF Sound, Cell, RawFunds, Tables
<1>7. CASE mode = Simple
  <2>1. funds' = funds
    BY <1>7 DEF L2UpdateAccountConfig
  <2>2. Moved(funds, funds', FundAccounts, a, USDC, 0, -0, Default)
    BY <1>1, <1>2, <2>1, MovedNothing
  <2>3. \A c \in Account, y \in Asset : Cell(funds, FundAccounts, ModeOf', useMargin, c, y)
    <3>1. \A c \in Account : ModeOf'[c] = Unified => ModeOf[c] = Unified
      <4>1. ModeOf \in [Account -> {ModeOf[c] : c \in Account}]
        BY DEF ModeOf
      <4> QED BY <1>3, <1>5, <1>7, <4>1
    <3>2. ASSUME NEW c \in Account, NEW y \in Asset
          PROVE  Cell(funds, FundAccounts, ModeOf', useMargin, c, y)
      <4>1. Cell(funds, FundAccounts, ModeOf, useMargin, c, y)
        BY <1>1 DEF Sound
      <4> QED BY <3>1, <4>1 DEF Cell
    <3> QED BY <3>2
  <2>4. Sound(funds', FundAccounts, ModeOf', useMargin)
    BY <1>1, <2>1, <2>3 DEF Sound
  <2> QED BY <1>5, <2>2, <2>4
<1>8. CASE mode = Unified
  <2> DEFINE all == funds.spot[a][USDC]
             S == [funds.spot EXCEPT ![a][USDC] = @ + (-all)]
             M == [funds.margin EXCEPT ![a][USDC] = @ + all]
  <2>1. funds' = [funds EXCEPT !.margin[a][USDC] = @ + funds.spot[a][USDC],
                               !.spot[a][USDC] = 0]
    BY <1>3, <1>8 DEF L2UpdateAccountConfig
  <2>2. all + (-all) = 0
    BY <1>6
  <2>3. [funds.spot EXCEPT ![a][USDC] = 0] = S
    BY <2>2
  <2>4. funds' = [funds EXCEPT !.margin = M, !.spot = [funds.spot EXCEPT ![a][USDC] = 0]]
    BY <2>1
  <2>5. funds' = [funds EXCEPT !.margin = M, !.spot = S]
    BY <2>3, <2>4
  <2> HIDE DEF S, M
  <2>6. funds' = [spot |-> S, margin |-> M, supplied |-> funds.supplied,
                  allocated |-> funds.allocated, strategies |-> funds.strategies,
                  unlocks |-> funds.unlocks]
    BY <1>1, <2>5 DEF RawFunds
  <2>7. all \in Int /\ -all \in Int /\ all >= 0
    BY <1>6
  <2>8. /\ funds.spot = [funds.spot EXCEPT ![a][USDC] = @ + 0]
        /\ funds.margin = [funds.margin EXCEPT ![a][USDC] = @ + 0]
        /\ funds.supplied = [funds.supplied EXCEPT ![USDC] = @ + 0]
        /\ funds.strategies = [funds.strategies EXCEPT ![a][Default] = @ + 0]
    BY SMTT(30), <1>1, <1>2, AddNothing
  <2> HIDE DEF all
  <2>9. Moved(funds, funds', FundAccounts, a, USDC, all, -all, Default)
    BY <1>1, <1>2, <1>4, <2>6, <2>7, <2>8, Shifted DEF S, M
  <2>10. funds'.spot[a][USDC] = 0
    BY <1>6, <2>9 DEF Moved, all
  <2>11. Cell(funds', FundAccounts, ModeOf', useMargin, a, USDC)
    BY <2>10 DEF Cell
  <2>12. ASSUME NEW c \in Account, NEW y \in Asset, c # a \/ y # USDC
         PROVE  Cell(funds, FundAccounts, ModeOf', useMargin, c, y)
    <3>1. Cell(funds, FundAccounts, ModeOf, useMargin, c, y)
      BY <1>1 DEF Sound
    <3>2. c # a => ModeOf'[c] = ModeOf[c]
      BY <1>5 DEF ModeOf
    <3> QED BY <2>12, <3>1, <3>2 DEF Cell
  <2>13. Sound(funds', FundAccounts, ModeOf', useMargin)
    BY <1>1, <1>2, <2>7, <2>9, <2>11, <2>12, SoundMovedTo
  <2> QED BY <1>5, <2>7, <2>9, <2>13
<1> QED BY <1>7, <1>8

\* A payment of spot balance: of an account that has it, or to an account.
LEMMA SpotCredits ==
    ASSUME AccountsTyped, NEW F, Sound(F, FundAccounts, ModeOf, useMargin),
           NEW a \in Account, NEW x \in Asset, NEW d \in Int, NEW s \in Strategy,
           NEW G, G = Delta(F, a, x, Spot, d, s),
           d >= 0 \/ (G.spot[a][x] >= 0 /\ (x # USDC => G.margin[a][x] >= 0))
    PROVE  \E m \in Int : Credited(F, G, a, x, Spot, d, m, s)
BY SpotSplittable, DeltaCredits

\* What a fill takes from the seller a and the buyer b and what it brings them, with the
\* fees on what the treasury trades itself.
Sells(t, a) == Own(Treasury, a, t.feeBase) - t.sold
GetsBase(t, b) == t.sold - t.feeBase + Own(Treasury, b, t.feeBase)
Pays(t, b) == Own(Treasury, b, t.feeQuote) - t.paid
GetsQuote(t, a) == t.paid - t.feeQuote + Own(Treasury, a, t.feeQuote)

\* The six steps of a fill: the base, the quote, the fees.
FillSteps(a, b, t, sold, bought, paid, received, based, m) ==
    /\ Credited(funds, sold, a, t.base, Spot, Sells(t, a), m[1], SpotStrategy)
    /\ Credited(sold, bought, b, t.base, Spot, GetsBase(t, b), m[2], SpotStrategy)
    /\ Credited(bought, paid, b, t.quote, Spot, Pays(t, b), m[3], SpotStrategy)
    /\ Credited(paid, received, a, t.quote, Spot, GetsQuote(t, a), m[4], SpotStrategy)
    /\ Credited(received, based, Treasury, t.base, Spot,
                Collected(Treasury, a, b, t.feeBase), m[5], Default)
    /\ Credited(based, funds', Treasury, t.quote, Spot,
                Collected(Treasury, a, b, t.feeQuote), m[6], Default)

\* The terms of a fill.
LEMMA TradeTyped ==
    ASSUME NEW t \in Trades
    PROVE  /\ t.base \in Asset /\ t.quote \in Asset /\ t.base # t.quote
           /\ t.sold \in Nat /\ t.paid \in Nat
           /\ t.feeBase \in Nat /\ t.feeBase < t.sold /\ t.feeQuote \in Nat /\ t.feeQuote < t.paid
           /\ t.partBase \in Nat /\ t.partBase <= t.feeBase
           /\ t.partQuote \in Nat /\ t.partQuote <= t.feeQuote
<1>1. /\ {t.base, t.quote} \subseteq Asset /\ t.base # t.quote
      /\ {t.sold, t.paid} \subseteq Nat
      /\ t.feeBase \in 0..(t.sold - 1) /\ t.feeQuote \in 0..(t.paid - 1)
      /\ t.partBase \in 0..t.feeBase /\ t.partQuote \in 0..t.feeQuote
  BY TradesAssumption
<1>2. t.sold \in Nat /\ t.paid \in Nat
  BY <1>1
<1>3. t.feeBase \in Nat /\ t.feeBase < t.sold
  BY <1>1, <1>2
<1>4. t.feeQuote \in Nat /\ t.feeQuote < t.paid
  BY <1>1, <1>2
<1> QED BY <1>1, <1>2, <1>3, <1>4

\* A fee is on the side of one of its payers, or it is paid to the collector.
LEMMA FeeShares ==
    ASSUME NEW f, NEW a, NEW b, a # b, NEW fee \in Nat
    PROVE  /\ Own(f, a, fee) \in Nat /\ Own(f, a, fee) <= fee
           /\ Own(f, b, fee) \in Nat /\ Own(f, b, fee) <= fee
           /\ Collected(f, a, b, fee) \in Nat
           /\ Own(f, a, fee) + Own(f, b, fee) + Collected(f, a, b, fee) = fee
<1>1. CASE a = f
  BY <1>1 DEF Own, Collected
<1>2. CASE b = f
  BY <1>2 DEF Own, Collected
<1>3. CASE a # f /\ b # f
  BY <1>3 DEF Own, Collected
<1> QED BY <1>1, <1>2, <1>3

\* A fill takes something from both sides and brings something to both, and what one side
\* gives the other and the treasury get.
LEMMA FillAmounts ==
    ASSUME NEW t \in Trades, NEW a, NEW b, a # b
    PROVE  /\ Sells(t, a) \in Int /\ Sells(t, a) < 0 /\ GetsBase(t, b) \in Int /\ GetsBase(t, b) > 0
           /\ Pays(t, b) \in Int /\ Pays(t, b) < 0 /\ GetsQuote(t, a) \in Int /\ GetsQuote(t, a) > 0
           /\ Collected(Treasury, a, b, t.feeBase) \in Nat
           /\ Collected(Treasury, a, b, t.feeQuote) \in Nat
           /\ Sells(t, a) + GetsBase(t, b) + Collected(Treasury, a, b, t.feeBase) = 0
           /\ Pays(t, b) + GetsQuote(t, a) + Collected(Treasury, a, b, t.feeQuote) = 0
<1>1. /\ t.sold \in Nat /\ t.paid \in Nat
      /\ t.feeBase \in Nat /\ t.feeBase < t.sold /\ t.feeQuote \in Nat /\ t.feeQuote < t.paid
  BY TradeTyped
<1>2. /\ Own(Treasury, a, t.feeBase) \in Nat /\ Own(Treasury, a, t.feeBase) <= t.feeBase
      /\ Own(Treasury, b, t.feeBase) \in Nat
      /\ Collected(Treasury, a, b, t.feeBase) \in Nat
      /\ Own(Treasury, a, t.feeBase) + Own(Treasury, b, t.feeBase)
            + Collected(Treasury, a, b, t.feeBase) = t.feeBase
  BY <1>1, FeeShares
<1>3. /\ Own(Treasury, b, t.feeQuote) \in Nat /\ Own(Treasury, b, t.feeQuote) <= t.feeQuote
      /\ Own(Treasury, a, t.feeQuote) \in Nat
      /\ Collected(Treasury, a, b, t.feeQuote) \in Nat
      /\ Own(Treasury, a, t.feeQuote) + Own(Treasury, b, t.feeQuote)
            + Collected(Treasury, a, b, t.feeQuote) = t.feeQuote
  BY <1>1, FeeShares
<1> QED BY <1>1, <1>2, <1>3 DEF Sells, GetsBase, Pays, GetsQuote

\* A fill takes these steps.
LEMMA SpotTradeEffect ==
    ASSUME Books, NEW a \in Traders, NEW b \in Traders, NEW t \in Trades, NEW c \in Integrators,
           NEW takerSells \in BOOLEAN, SpotTrade(a, b, t, c, takerSells)
    PROVE  \E sold, bought, paid, received, based, m :
               FillSteps(a, b, t, sold, bought, paid, received, based, m)
<1> DEFINE sold == SoldBase(t, a)
           bought == BoughtBase(t, a, b)
           paid == PaidQuote(t, a, b)
           received == ReceivedQuote(t, a, b)
           based == CollectedBase(t, a, b)
           feeBase == Collected(Treasury, a, b, t.feeBase)
           feeQuote == Collected(Treasury, a, b, t.feeQuote)
<1>1. /\ a \in Account /\ b \in Account /\ Treasury \in Account /\ a # b
      /\ SpotStrategy \in Strategy /\ Default \in Strategy
  BY Constants DEF SpotTrade
<1>2. t.base \in Asset /\ t.quote \in Asset
  BY TradeTyped
<1>3. AccountsTyped /\ Sound(funds, FundAccounts, ModeOf, useMargin)
  BY BooksTyped
<1>4. /\ sold.spot[a][t.base] >= 0 /\ (t.base # USDC => sold.margin[a][t.base] >= 0)
      /\ paid.spot[b][t.quote] >= 0 /\ (t.quote # USDC => paid.margin[b][t.quote] >= 0)
      /\ funds' = CollectedFees(t, a, b)
  BY DEF SpotTrade, Valid
<1>5. /\ sold = Delta(funds, a, t.base, Spot, Sells(t, a), SpotStrategy)
      /\ bought = Delta(sold, b, t.base, Spot, GetsBase(t, b), SpotStrategy)
      /\ paid = Delta(bought, b, t.quote, Spot, Pays(t, b), SpotStrategy)
      /\ received = Delta(paid, a, t.quote, Spot, GetsQuote(t, a), SpotStrategy)
      /\ based = Delta(received, Treasury, t.base, Spot, feeBase, Default)
      /\ funds' = Delta(based, Treasury, t.quote, Spot, feeQuote, Default)
  BY <1>4 DEF SoldBase, BoughtBase, PaidQuote, ReceivedQuote, CollectedBase, CollectedFees,
              Sells, GetsBase, Pays, GetsQuote
<1>6. /\ Sells(t, a) \in Int /\ GetsBase(t, b) \in Int /\ GetsBase(t, b) >= 0
      /\ Pays(t, b) \in Int /\ GetsQuote(t, a) \in Int /\ GetsQuote(t, a) >= 0
      /\ feeBase \in Int /\ feeBase >= 0 /\ feeQuote \in Int /\ feeQuote >= 0
  <2>1. /\ Sells(t, a) \in Int /\ GetsBase(t, b) \in Int /\ GetsBase(t, b) > 0
        /\ Pays(t, b) \in Int /\ GetsQuote(t, a) \in Int /\ GetsQuote(t, a) > 0
        /\ feeBase \in Nat /\ feeQuote \in Nat
    BY <1>1, FillAmounts, ZenonT(20)
  <2> HIDE DEF feeBase, feeQuote
  <2> QED BY <2>1
<1> HIDE DEF sold, bought, paid, received, based, feeBase, feeQuote
<1>9. PICK m1 \in Int : Credited(funds, sold, a, t.base, Spot, Sells(t, a), m1, SpotStrategy)
  BY <1>1, <1>2, <1>3, <1>4, <1>5, <1>6, SpotCredits
<1>10. Sound(sold, FundAccounts, ModeOf, useMargin)
  BY <1>9 DEF Credited
<1>11. PICK m2 \in Int :
           Credited(sold, bought, b, t.base, Spot, GetsBase(t, b), m2, SpotStrategy)
  BY <1>1, <1>2, <1>3, <1>5, <1>6, <1>10, SpotCredits
<1>12. Sound(bought, FundAccounts, ModeOf, useMargin)
  BY <1>11 DEF Credited
<1>13. PICK m3 \in Int : Credited(bought, paid, b, t.quote, Spot, Pays(t, b), m3, SpotStrategy)
  BY <1>1, <1>2, <1>3, <1>4, <1>5, <1>6, <1>12, SpotCredits
<1>14. Sound(paid, FundAccounts, ModeOf, useMargin)
  BY <1>13 DEF Credited
<1>15. PICK m4 \in Int :
           Credited(paid, received, a, t.quote, Spot, GetsQuote(t, a), m4, SpotStrategy)
  BY <1>1, <1>2, <1>3, <1>5, <1>6, <1>14, SpotCredits
<1>16. Sound(received, FundAccounts, ModeOf, useMargin)
  BY <1>15 DEF Credited
<1>17. PICK m5 \in Int : Credited(received, based, Treasury, t.base, Spot, feeBase, m5, Default)
  BY <1>1, <1>2, <1>3, <1>5, <1>6, <1>16, SpotCredits
<1>18. Sound(based, FundAccounts, ModeOf, useMargin)
  BY <1>17 DEF Credited
<1>19. PICK m6 \in Int : Credited(based, funds', Treasury, t.quote, Spot, feeQuote, m6, Default)
  BY <1>1, <1>2, <1>3, <1>5, <1>6, <1>18, SpotCredits
<1> DEFINE m == <<m1, m2, m3, m4, m5, m6>>
<1>20. m[1] = m1 /\ m[2] = m2 /\ m[3] = m3 /\ m[4] = m4 /\ m[5] = m5 /\ m[6] = m6
  OBVIOUS
<1> HIDE DEF m
<1>21. FillSteps(a, b, t, sold, bought, paid, received, based, m)
  BY <1>9, <1>11, <1>13, <1>15, <1>17, <1>19, <1>20 DEF FillSteps, feeBase, feeQuote
<1> QED BY <1>21

\* The two steps of an instruction.
LEMMA InternalTransferEffect ==
    ASSUME Books, NEW s \in Strategy, InternalTransfer(s), NEW i, i = Head(transfers)
    PROVE  /\ i \in Instructions /\ i.side = Spot /\ i.from \in Account /\ i.to \in Account
           /\ i.to # i.from /\ i.asset \in Asset /\ i.units \in Nat
           /\ \E paid, m, k :
                 /\ Credited(funds, paid, i.from, i.asset, Spot,
                             -(i.units * Mult[i.asset]), m, s)
                 /\ Credited(paid, funds', i.to, i.asset, Spot, i.units * Mult[i.asset], k, s)
<1> DEFINE paid == FeePaid(i, s)
<1>1. /\ transfers # << >> /\ TransferPossible(i, s) /\ funds' = FeeReceived(i, s)
  BY DEF InternalTransfer, NoInstruction
<1>2. i \in Instructions
  BY <1>1 DEF Books
<1>3. /\ i.side = Spot /\ i.from \in Account /\ i.to \in Account /\ i.to # i.from
      /\ i.asset \in Asset /\ i.units \in Nat
  BY <1>2, Constants DEF Instructions, UserAccounts
<1>4. AccountsTyped /\ Sound(funds, FundAccounts, ModeOf, useMargin)
  BY BooksTyped
<1>5. /\ -(i.units * Mult[i.asset]) \in Int /\ i.units * Mult[i.asset] \in Int
      /\ i.units * Mult[i.asset] >= 0
  BY <1>3, UnitsExtended
<1> DEFINE d == i.units * Mult[i.asset]
<1>6. /\ paid = Delta(funds, i.from, i.asset, Spot, -d, s)
      /\ funds' = Delta(paid, i.to, i.asset, Spot, d, s)
  BY <1>1, <1>3 DEF FeePaid, FeeReceived
<1>7. /\ funds'.spot[i.from][i.asset] >= 0
      /\ i.asset # USDC => funds'.margin[i.from][i.asset] >= 0
  BY <1>1 DEF TransferPossible, Valid
<1>8. /\ funds'.spot[i.from][i.asset] = paid.spot[i.from][i.asset]
      /\ funds'.margin[i.from][i.asset] = paid.margin[i.from][i.asset]
  <2>1. paid \in RawFunds
    <3>1. -d \in Int
      BY <1>5
    <3> HIDE DEF paid, d
    <3> QED BY <1>3, <1>4, <1>6, <3>1, SpotSplittable, DeltaMoves DEF Moved
  <2>2. d \in Int
    BY <1>5
  <2> HIDE DEF paid, d
  <2>3. Same(paid, funds', i.from, i.asset)
    BY <1>3, <1>4, <1>6, <2>1, <2>2, SpotSplittable, DeltaElsewhere
  <2> QED BY <2>3 DEF Same
<1> HIDE DEF paid, d
<1>9. PICK m \in Int : Credited(funds, paid, i.from, i.asset, Spot, -d, m, s)
  BY <1>3, <1>4, <1>5, <1>6, <1>7, <1>8, SpotCredits DEF d
<1>10. Sound(paid, FundAccounts, ModeOf, useMargin)
  BY <1>9 DEF Credited
<1>11. PICK k \in Int : Credited(paid, funds', i.to, i.asset, Spot, d, k, s)
  BY <1>3, <1>4, <1>5, <1>6, <1>10, SpotCredits DEF d
<1> QED BY <1>2, <1>3, <1>9, <1>11 DEF d

\* What is paid for shares, to the seller or from him, and the fees, on what the collector
\* of the slot trades itself.
BuyFee(deal, takerSells) == IF takerSells THEN deal.makerFee ELSE deal.takerFee
SellFee(deal, takerSells) == IF takerSells THEN deal.takerFee ELSE deal.makerFee
FeesOf(deal) == deal.takerFee + deal.makerFee
BuyerGets(a, deal, takerSells) ==
    Tick * (Cap * Bought(a, deal).close - deal.base * deal.price) - BuyFee(deal, takerSells)
        + Own(slot.collector, a, FeesOf(deal))
SellerGets(b, deal, takerSells) ==
    Tick * (deal.base * deal.price - Cap * Sold(b, deal).open) - SellFee(deal, takerSells)
        + Own(slot.collector, b, FeesOf(deal))
FeesGot(a, b, deal) == Collected(slot.collector, a, b, FeesOf(deal))

\* The three steps of a fill of a market on an outcome: the buyer, the seller, the fees.
OutcomeSteps(a, b, deal, takerSells, paid, settled, m, k, l) ==
    /\ BuyerGets(a, deal, takerSells) \in Int /\ SellerGets(b, deal, takerSells) \in Int
    /\ FeesGot(a, b, deal) \in Nat
    /\ Credited(funds, paid, a, USDC, Spot, BuyerGets(a, deal, takerSells), m, Default)
    /\ Credited(paid, settled, b, USDC, Spot, SellerGets(b, deal, takerSells), k, Default)
    /\ Credited(settled, funds', slot.collector, USDC, Spot, FeesGot(a, b, deal), l, Default)

\* The terms of a deal: the fees cover the integrators' parts, and so are not negative.
LEMMA DealTyped ==
    ASSUME NEW deal \in Deals, NEW takerSells \in BOOLEAN
    PROVE  /\ deal.price \in Nat /\ deal.price >= 1 /\ deal.price < Cap
           /\ deal.base \in Nat /\ deal.base > 0 /\ Cap \in Nat /\ Tick \in Nat /\ Tick > 0
           /\ deal.takerPart \in Nat /\ deal.makerPart \in Nat
           /\ deal.takerFee \in Int /\ deal.makerFee \in Int
           /\ deal.takerPart <= deal.takerFee
           /\ FeesOf(deal) >= deal.takerPart + deal.makerPart
           /\ FeesOf(deal) \in Nat
           /\ BuyFee(deal, takerSells) \in Int /\ SellFee(deal, takerSells) \in Int
           /\ BuyFee(deal, takerSells) + SellFee(deal, takerSells) = FeesOf(deal)
<1>1. /\ deal.price \in 1..(Cap - 1) /\ deal.base \in Nat \ {0}
      /\ {deal.takerFee, deal.makerFee} \subseteq Int
      /\ {deal.takerPart, deal.makerPart} \subseteq Nat
      /\ deal.takerPart <= deal.takerFee
      /\ deal.takerFee + deal.makerFee >= deal.takerPart + deal.makerPart
  BY DealsAssumption
<1>2. /\ deal.takerPart \in Nat /\ deal.makerPart \in Nat
      /\ deal.takerFee \in Int /\ deal.makerFee \in Int
      /\ Cap \in Nat /\ Tick \in Nat /\ Tick > 0
  BY <1>1, BinaryOptionsAssumption
<1>3. deal.takerFee + deal.makerFee \in Nat
  BY <1>1, <1>2
<1>4. /\ BuyFee(deal, takerSells) \in Int /\ SellFee(deal, takerSells) \in Int
      /\ BuyFee(deal, takerSells) + SellFee(deal, takerSells) = deal.takerFee + deal.makerFee
  BY <1>2 DEF BuyFee, SellFee
<1>5. deal.price \in Nat /\ deal.price >= 1 /\ deal.price < Cap /\ deal.base \in Nat /\ deal.base > 0
  BY <1>1, <1>2
<1> QED BY <1>1, <1>2, <1>3, <1>4, <1>5 DEF FeesOf

\* A fill of a market on an outcome moves the USDC of its sides and of the fee collector.
LEMMA TradeEffect ==
    ASSUME Books, SlotInv(slot, options), NEW a \in Traders, NEW b \in Traders,
           NEW deal \in Deals, NEW c \in Integrators,
           NEW takerSells \in BOOLEAN, NEW filled \in BOOLEAN,
           Trade(a, b, deal, c, takerSells, filled)
    PROVE  \E paid, settled, m, k, l :
               OutcomeSteps(a, b, deal, takerSells, paid, settled, m, k, l)
<1> DEFINE f == slot.collector
           fees == FeesOf(deal)
           got == FeesGot(a, b, deal)
           d == BuyerGets(a, deal, takerSells)
           e == SellerGets(b, deal, takerSells)
           paid == Delta(funds, a, USDC, Spot, d, Default)
           settled == Delta(paid, b, USDC, Spot, e, Default)
<1>1. /\ a \in Account /\ b \in Account /\ f \in Account /\ USDC \in Asset
      /\ Default \in Strategy /\ a # b
  BY Constants DEF Trade, Books, AccountsOK, UserAccounts
<1>2. AccountsTyped /\ Sound(funds, FundAccounts, ModeOf, useMargin) /\ funds \in RawFunds
  BY BooksTyped
<1>3. /\ fees \in Nat /\ Tick \in Nat /\ Cap \in Nat /\ deal.base \in Nat /\ deal.price \in Nat
      /\ BuyFee(deal, takerSells) \in Int /\ SellFee(deal, takerSells) \in Int
      /\ BuyFee(deal, takerSells) + SellFee(deal, takerSells) = fees
  BY DealTyped
<1>4. Bought(a, deal).close \in Nat /\ Sold(b, deal).open \in Nat
  <2>1. PICK q, r : Exchanged(a, b, deal, q, r)
    BY <1>1, TradeSteps
  <2> QED BY <2>1 DEF Exchanged
<1>5. Own(f, a, fees) \in Nat /\ Own(f, b, fees) \in Nat /\ got \in Nat
  <2> HIDE DEF fees
  <2> QED BY <1>1, <1>3, FeeShares DEF FeesGot, fees
<1>6. d \in Int /\ e \in Int
  <2>1. /\ Cap * Bought(a, deal).close - deal.base * deal.price \in Int
        /\ deal.base * deal.price - Cap * Sold(b, deal).open \in Int
    BY <1>3, <1>4
  <2> QED BY <1>3, <1>5, <2>1 DEF BuyerGets, SellerGets
<1>7. /\ settled.spot[a][USDC] >= 0 /\ settled.spot[b][USDC] >= 0
      /\ funds' = Delta(settled, f, USDC, Spot, got, Default)
  <2> DEFINE quote == deal.base * deal.price
             bought == PositionChange(PositionOf(a), FALSE, deal.base, quote)
             sold == PositionChange(PositionOf(b), TRUE, deal.base, quote)
             buyFee == IF takerSells THEN deal.makerFee ELSE deal.takerFee
             sellFee == IF takerSells THEN deal.takerFee ELSE deal.makerFee
             sum == buyFee + sellFee
             first == Delta(funds, a, USDC, Spot,
                            Tick * (Cap * bought.close - quote) - buyFee + Own(f, a, sum), Default)
             second == Delta(first, b, USDC, Spot,
                             Tick * (quote - Cap * sold.open) - sellFee + Own(f, b, sum), Default)
  <2>1. /\ Valid(second, a, USDC) /\ Valid(second, b, USDC)
        /\ funds' = Delta(second, f, USDC, Spot, Collected(f, a, b, sum), Default)
    BY DEF Trade
  <2>2. sum = fees
    BY <1>3 DEF BuyFee, SellFee
  <2>3. /\ Tick * (Cap * bought.close - quote) - buyFee + Own(f, a, sum) = d
        /\ Tick * (quote - Cap * sold.open) - sellFee + Own(f, b, sum) = e
        /\ Collected(f, a, b, sum) = got
    <3>1. /\ d = Tick * (Cap * bought.close - quote) - buyFee + Own(f, a, fees)
          /\ e = Tick * (quote - Cap * sold.open) - sellFee + Own(f, b, fees)
          /\ got = Collected(f, a, b, fees)
      BY DEF BuyerGets, SellerGets, FeesGot, Bought, Sold, BuyFee, SellFee
    <3> HIDE DEF d, e, got, fees, buyFee, sellFee, sum, bought, sold, quote
    <3> QED BY <2>2, <3>1
  <2>4. second = settled
    BY <2>3
  <2> QED BY <2>1, <2>3, <2>4 DEF Valid
<1> HIDE DEF d, e, paid, settled, fees, got, f
<1>8. settled.spot[a][USDC] = paid.spot[a][USDC]
  <2>1. paid \in RawFunds
    BY <1>1, <1>2, <1>6, SpotSplittable, DeltaElsewhere DEF paid
  <2>2. Same(paid, settled, a, USDC)
    BY <1>1, <1>2, <1>6, <2>1, SpotSplittable, DeltaElsewhere DEF settled
  <2> QED BY <2>2 DEF Same
<1>9. PICK m \in Int : Credited(funds, paid, a, USDC, Spot, d, m, Default)
  BY <1>1, <1>2, <1>6, <1>7, <1>8, SpotCredits DEF paid
<1>10. Sound(paid, FundAccounts, ModeOf, useMargin)
  BY <1>9 DEF Credited
<1>11. PICK k \in Int : Credited(paid, settled, b, USDC, Spot, e, k, Default)
  BY <1>1, <1>2, <1>6, <1>7, <1>10, SpotCredits DEF settled
<1>12. Sound(settled, FundAccounts, ModeOf, useMargin)
  BY <1>11 DEF Credited
<1>13. PICK l \in Int : Credited(settled, funds', f, USDC, Spot, got, l, Default)
  BY <1>1, <1>2, <1>5, <1>7, <1>12, SpotCredits
<1> QED BY <1>5, <1>6, <1>9, <1>11, <1>13 DEF OutcomeSteps, d, e, got, f

\* A payout comes to the spot side of an account.
LEMMA PayoutEffect ==
    ASSUME Books, SlotInv(slot, options), NEW a \in Account, SettlePosition(a)
    PROVE  /\ Payout(options[a], slot.price) \in Nat
           /\ Tick * Payout(options[a], slot.price) \in Nat
           /\ \E m \in Int : Credited(funds, funds', a, USDC, Spot,
                                      Tick * Payout(options[a], slot.price), m, Default)
<1> DEFINE z == Payout(options[a], slot.price)
<1>1. PositionOf(a).size = options[a].size
  BY SettleSteps
<1>2. z = Payout(PositionOf(a), slot.price)
  BY <1>1 DEF Payout
<1>3. slot.price \in 0..Cap /\ options[a].size \in Int /\ Cap \in Nat /\ Tick \in Nat
  BY SlotTyped, BinaryOptionsAssumption DEF SlotInv, Slots, Positions
<1>4. z \in Nat
  <2>1. Magnitude(options[a].size) \in Nat
    BY <1>3 DEF Magnitude
  <2>2. \A i, j \in Nat : i * j \in Nat
    OBVIOUS
  <2>3. (IF options[a].size < 0 THEN Cap - slot.price ELSE slot.price) \in Nat
    BY <1>3
  <2> QED BY <2>1, <2>2, <2>3 DEF Payout
<1>5. Tick * z \in Nat
  <2> HIDE DEF z
  <2> QED BY <1>3, <1>4
<1>6. funds' = Delta(funds, a, USDC, Spot, Tick * z, Default)
  BY <1>2 DEF SettlePosition
<1>7. AccountsTyped /\ Sound(funds, FundAccounts, ModeOf, useMargin)
      /\ USDC \in Asset /\ Default \in Strategy
  BY BooksTyped, Constants
<1> DEFINE d == Tick * z
<1>8. d \in Int /\ d >= 0 /\ funds' = Delta(funds, a, USDC, Spot, d, Default)
  BY <1>5, <1>6
<1> HIDE DEF z, d
<1>9. \E m \in Int : Credited(funds, funds', a, USDC, Spot, d, m, Default)
  BY <1>7, <1>8, SpotCredits
<1> QED BY <1>4, <1>5, <1>9 DEF z, d

-----------------------------------------------------------------------------
(* The books are kept. *)

\* What a transaction that leaves the accounts and the instructions as they are has to show.
LEMMA BooksKept ==
    ASSUME Books, UNCHANGED <<account, useMargin>>, slot'.collector \in UserAccounts,
           transfers' \in Seq(Instructions), Sound(funds', FundAccounts, ModeOf, useMargin)
    PROVE  Books'
<1>1. FundAccounts' = FundAccounts
  BY DEF FundAccounts, IsFund
<1>2. ModeOf' = ModeOf
  BY DEF ModeOf, Mode, Exists
<1>3. AccountsOK' /\ UserAccounts' = UserAccounts
  BY DEF Books, AccountsOK, Exists, UserAccounts, IsUser
<1>4. Placed'
  BY <1>1, <1>2 DEF Placed
<1>5. Instructions' = Instructions
  BY <1>3 DEF Instructions
<1> QED BY <1>3, <1>4, <1>5 DEF Books

\* The instances start with their books in order.
LEMMA BooksInit == Init => Books
<1> SUFFICES ASSUME NEW start \in Genesis, FundsInit(start), slot.collector = Treasury
             PROVE  Books
  BY DEF Init, NoMarket
<1>1. /\ account = start.account /\ funds = start.funds /\ useMargin = start.useMargin
      /\ transfers = << >>
  BY DEF FundsInit
<1>2. /\ OpeningTyped(start) /\ OpeningBalances(start)
      /\ start.account[Treasury].kind = "master"
      /\ \A a \in Integrators \union {FeeAccount} : start.account[a].kind # "none"
  BY GenesisAssumption
<1>3. /\ funds \in [spot       : [Account -> [Asset -> Nat]],
                    margin     : [Account -> [Asset -> Nat]],
                    supplied   : [Asset -> Nat],
                    allocated  : [Account -> Nat],
                    strategies : [Account -> [Strategy -> Nat]],
                    unlocks    : [Account -> Seq([amount : Nat, at : Nat])]]
      /\ DOMAIN account = Account
      /\ \A a \in Account :
            /\ {"kind", "mode", "master"} \subseteq DOMAIN account[a]
            /\ account[a].kind \in Kinds /\ account[a].mode \in {Simple, Unified}
      /\ useMargin \in [Account -> [Asset -> BOOLEAN]]
  BY <1>1, <1>2 DEF OpeningTyped
<1>4. /\ SuppliedBy(funds, Account \ FundAccounts) /\ Divided(funds, FundAccounts)
      /\ \A a \in Account : Mode(a) = Unified => funds.spot[a][USDC] = 0
      /\ \A a \in Account, x \in Asset \ {USDC} :
            /\ useMargin[a][x] => account[a].mode = Unified
            /\ ~useMargin[a][x] /\ a \notin FundAccounts => funds.margin[a][x] = 0
  BY <1>1, <1>2 DEF OpeningBalances, FundAccounts, IsFund, Mode, Exists
<1>5. AccountsOK
  <2>1. {Treasury, slot.collector} \subseteq UserAccounts
    BY <1>1, <1>2, Constants DEF UserAccounts, IsUser
  <2> QED BY <1>1, <1>2, <1>3, <1>4, <2>1 DEF AccountsOK, Exists
<1>6. funds \in RawFunds
  <2>1. /\ funds.spot \in Tables /\ funds.margin \in Tables /\ funds.supplied \in [Asset -> Int]
        /\ funds.allocated \in [Account -> Int]
        /\ funds.strategies \in [Account -> [Strategy -> Int]]
    BY <1>3 DEF Tables
  <2> QED BY <1>3, <2>1 DEF RawFunds
<1>7. \A a \in Account, x \in Asset :
         /\ funds.spot[a][x] \in Nat /\ funds.margin[a][x] \in Nat /\ funds.supplied[x] \in Nat
  BY <1>3
<1>8. SumsHold(funds, FundAccounts)
  BY <1>4 DEF SumsHold, SuppliedBy, Divided
<1>9. ASSUME NEW a \in Account, NEW x \in Asset
      PROVE  Cell(funds, FundAccounts, ModeOf, useMargin, a, x)
  BY <1>4, <1>7 DEF Cell, ModeOf, SuppliedBy
<1>10. Placed
  BY <1>4, <1>6, <1>7, <1>8, <1>9, Constants DEF Placed, Sound, SuppliedBy
<1> QED BY <1>1, <1>5, <1>10 DEF Books

\* The instruction a fill leaves for the integrator's part of a fee that f collects: none,
\* or one that pays no more than the part.
LEMMA FeeTransferTyped ==
    ASSUME NEW f \in UserAccounts, NEW x \in Asset, NEW part \in Nat, NEW c \in Integrators
    PROVE  /\ FeeTransfer(f, x, part, c) \in Seq(Instructions)
           /\ \/ FeeTransfer(f, x, part, c) = << >>
              \/ \E i \in Instructions :
                    /\ FeeTransfer(f, x, part, c) = <<i>>
                    /\ i.from = f /\ i.asset = x /\ i.units * Mult[x] <= part
<1> DEFINE M == Mult[x]
           n == part \div M
<1>1. M \in Nat /\ M > 0
  BY Constants
<1> HIDE DEF M
<1>2. n \in Nat /\ n * M <= part
  BY <1>1
<1> HIDE DEF n
<1>3. CASE n = 0 \/ c = f
  BY <1>3 DEF FeeTransfer, n, M
<1>4. CASE ~(n = 0 \/ c = f)
  <2> DEFINE i == [asset |-> x, units |-> n, from |-> f, to |-> c, side |-> Spot]
  <2>1. i \in Instructions /\ i.from = f /\ i.asset = x /\ i.units = n
    BY <1>2, <1>4 DEF Instructions
  <2>2. FeeTransfer(f, x, part, c) = <<i>>
    BY <1>4 DEF FeeTransfer, n, M
  <2> HIDE DEF i
  <2>3. i.units * Mult[x] <= part
    BY <1>2, <2>1 DEF M
  <2> QED BY <2>1, <2>2, <2>3
<1> QED BY <1>3, <1>4

\* Every fund transaction keeps the books.
LEMMA FundsKeepBooks == Books /\ FundSteps => Books'
<1> SUFFICES ASSUME Books, FundSteps PROVE Books'
  OBVIOUS
<1>0. /\ transfers \in Seq(Instructions) /\ USDC \in Asset /\ Default \in Strategy
      /\ slot' = slot /\ slot'.collector \in UserAccounts /\ Treasury \in UserAccounts
  BY Constants DEF Books, AccountsOK, FundSteps, optionVars
<1>1. ASSUME NEW a \in Account, NEW x \in Asset, NEW n \in Nat, NEW side \in Products,
             L1Deposit(a, x, n, side)
      PROVE  Books'
  <2>1. Sound(funds', FundAccounts, ModeOf, useMargin) /\ ~IsFund(a)
    BY <1>1, DepositEffect DEF Credited
  <2>2. UNCHANGED <<useMargin, transfers>> /\ transfers = << >>
    BY <1>1 DEF L1Deposit, Start, NoInstruction
  <2>3. CASE Exists(a)
    <3>1. UNCHANGED account
      BY <1>1, <2>3 DEF L1Deposit
    <3> QED BY <1>0, <2>1, <2>2, <3>1, BooksKept
  <2>4. CASE ~Exists(a)
    <3>1. /\ account' = [account EXCEPT ![a].kind = "master", ![a].mode = Unified,
                                        ![a].master = a]
          /\ account[a].kind = "none"
      BY <1>1, <2>4 DEF L1Deposit, Exists
    <3>2. /\ DOMAIN account = Account
          /\ {"kind", "mode", "master"} \subseteq DOMAIN account[a]
      BY DEF Books, AccountsOK
    <3>3. /\ DOMAIN account' = Account
          /\ account'[a].kind = "master" /\ account'[a].mode = Unified
          /\ DOMAIN account'[a] = DOMAIN account[a]
          /\ \A b \in Account \ {a} : account'[b] = account[b]
      BY <3>1, <3>2
    <3>4. FundAccounts' = FundAccounts
      BY <3>1, <3>3 DEF FundAccounts, IsFund
    <3>5. ModeOf' = ModeOf
      BY <3>1, <3>3 DEF ModeOf, Mode, Exists
    <3>6. AccountsOK'
      <4>1. \A b \in Account :
               /\ {"kind", "mode", "master"} \subseteq DOMAIN account'[b]
               /\ account'[b].kind \in Kinds /\ account'[b].mode \in {Simple, Unified}
        <5>1. "master" \in Kinds
          BY DEF Kinds
        <5> QED BY <3>2, <3>3, <5>1 DEF Books, AccountsOK
      <4>2. \A b \in Account, y \in Asset \ {USDC} :
               useMargin'[b][y] => account'[b].mode = Unified
        BY <2>2, <3>3 DEF Books, AccountsOK
      <4>3. \A b \in Integrators \union {FeeAccount} : account'[b].kind # "none"
        BY <3>1, <3>3, Constants DEF Books, AccountsOK, Exists
      <4>4. UserAccounts \subseteq UserAccounts'
        BY <3>3 DEF UserAccounts, IsUser
      <4>5. {Treasury, slot'.collector} \subseteq UserAccounts'
        BY <1>0, <4>4
      <4> QED BY <2>2, <3>3, <4>1, <4>2, <4>3, <4>5 DEF Books, AccountsOK, Exists
    <3>7. Placed'
      BY <2>1, <2>2, <3>4, <3>5 DEF Placed
    <3>8. transfers' \in Seq(Instructions')
      BY <2>2
    <3> QED BY <3>6, <3>7, <3>8 DEF Books
  <2> QED BY <2>3, <2>4
<1>2. ASSUME NEW a \in Account, NEW x \in Asset, NEW n \in Units, NEW side \in Products,
             L1Withdraw(a, x, n, side) \/ L2Withdraw(a, x, n, side)
      PROVE  Books'
  <2>1. IsUser(a) /\ Withdraw(a, x, n, side)
    BY <1>2 DEF L1Withdraw, L2Withdraw
  <2>2. Sound(funds', FundAccounts, ModeOf, useMargin)
    BY <2>1, WithdrawEffect DEF Credited
  <2>3. UNCHANGED <<account, useMargin, transfers>>
    BY <2>1 DEF Withdraw
  <2> QED BY <1>0, <2>2, <2>3, BooksKept
<1>3. ASSUME NEW a \in Account, NEW mode \in {Simple, Unified}, L2UpdateAccountConfig(a, mode)
      PROVE  Books'
  <2>1. /\ ModeOf' = [ModeOf EXCEPT ![a] = mode] /\ FundAccounts' = FundAccounts
        /\ Sound(funds', FundAccounts, ModeOf', useMargin)
    BY <1>3, AccountConfigEffect
  <2>2. /\ UNCHANGED <<useMargin, transfers>> /\ account' = [account EXCEPT ![a].mode = mode]
        /\ mode = Simple => \A x \in Asset \ {USDC} : ~useMargin[a][x]
    BY <1>3 DEF L2UpdateAccountConfig
  <2>3. DOMAIN account = Account /\ {"kind", "mode", "master"} \subseteq DOMAIN account[a]
    BY DEF Books, AccountsOK
  <2>4. /\ DOMAIN account' = Account /\ account'[a].kind = account[a].kind
        /\ account'[a].mode = mode /\ DOMAIN account'[a] = DOMAIN account[a]
        /\ \A b \in Account \ {a} : account'[b] = account[b]
    BY <2>2, <2>3
  <2>5. UserAccounts' = UserAccounts /\ Instructions' = Instructions
    <3>1. UserAccounts' = UserAccounts
      BY <2>4 DEF UserAccounts, IsUser
    <3> QED BY <3>1 DEF Instructions
  <2>6. AccountsOK'
    BY <1>0, <2>2, <2>3, <2>4, <2>5 DEF Books, AccountsOK, Exists, Simple, Unified
  <2>7. Placed'
    BY <2>1, <2>2 DEF Placed
  <2> QED BY <1>0, <2>2, <2>5, <2>6, <2>7 DEF Books
<1>4. ASSUME NEW a \in Account, NEW x \in Asset, NEW enable \in BOOLEAN,
             L2UpdateAccountAssetConfig(a, x, enable)
      PROVE  Books'
  <2>1. Sound(funds', FundAccounts, ModeOf, useMargin')
    BY <1>4, ReassignEffect
  <2>2. /\ UNCHANGED <<account, transfers>> /\ useMargin' = [useMargin EXCEPT ![a][x] = enable]
        /\ account[a].mode = Unified
    BY <1>4 DEF L2UpdateAccountAssetConfig
  <2>3. FundAccounts' = FundAccounts /\ ModeOf' = ModeOf
    BY <2>2 DEF FundAccounts, IsFund, ModeOf, Mode, Exists
  <2>4. /\ useMargin' \in [Account -> [Asset -> BOOLEAN]]
        /\ \A b \in Account, y \in Asset : b # a => useMargin'[b][y] = useMargin[b][y]
    BY <2>2 DEF Books, AccountsOK
  <2>5. UserAccounts' = UserAccounts /\ Instructions' = Instructions
    <3>1. UserAccounts' = UserAccounts
      BY <2>2 DEF UserAccounts, IsUser
    <3> QED BY <3>1 DEF Instructions
  <2>6. AccountsOK'
    BY <1>0, <2>2, <2>4, <2>5 DEF Books, AccountsOK, Exists
  <2>7. Placed'
    BY <2>1, <2>3 DEF Placed
  <2> QED BY <1>0, <2>2, <2>5, <2>6, <2>7 DEF Books
<1>5. ASSUME NEW a \in Account, NEW n \in Units, NEW adding \in BOOLEAN,
             L2UpdateMargin(a, n, adding)
      PROVE  Books'
  <2>1. Sound(funds', FundAccounts, ModeOf, useMargin)
    BY <1>5, UpdateMarginEffect DEF MarginSteps
  <2>2. UNCHANGED <<account, useMargin, transfers>>
    BY <1>5 DEF L2UpdateMargin
  <2> QED BY <1>0, <2>1, <2>2, BooksKept
<1>6. ASSUME NEW a \in Account, NEW s \in Strategy, NEW t \in Strategy, NEW n \in Units,
             L2StrategyTransfer(a, s, t, n)
      PROVE  Books'
  <2>1. Sound(funds', FundAccounts, ModeOf, useMargin)
    BY <1>6, StrategyTransferEffect DEF StrategySteps
  <2>2. UNCHANGED <<account, useMargin, transfers>>
    BY <1>6 DEF L2StrategyTransfer
  <2> QED BY <1>0, <2>1, <2>2, BooksKept
<1>7. ASSUME NEW a \in Account, NEW x \in Asset, NEW n, LockBalance(a, x, n)
      PROVE  Books'
  <2>1. UNCHANGED <<account, useMargin, transfers, funds>>
    BY <1>7 DEF LockBalance
  <2>2. Sound(funds', FundAccounts, ModeOf, useMargin)
    BY <2>1 DEF Books, Placed
  <2> QED BY <1>0, <2>1, <2>2, BooksKept
<1>8. ASSUME NEW a \in Account, NEW b \in Account, NEW x \in Asset, NEW n \in Units,
             NEW fee \in Fees, NEW from \in Products, NEW to \in Products, NEW s \in Strategy,
             L2Transfer(a, b, x, n, fee, from, to, s)
      PROVE  Books'
  <2>1. Sound(funds', FundAccounts, ModeOf, useMargin)
    BY <1>8, TransferEffect DEF TransferSteps, Credited
  <2>2. UNCHANGED <<account, useMargin, transfers>>
    BY <1>8 DEF L2Transfer
  <2> QED BY <1>0, <2>1, <2>2, BooksKept
<1>9. ASSUME NEW a \in Traders, NEW b \in Traders, NEW t \in Trades, NEW c \in Integrators,
             NEW takerSells \in BOOLEAN, SpotTrade(a, b, t, c, takerSells)
      PROVE  Books'
  <2>1. Sound(funds', FundAccounts, ModeOf, useMargin)
    BY <1>9, SpotTradeEffect DEF FillSteps, Credited
  <2>2. /\ UNCHANGED <<account, useMargin>>
        /\ transfers' = IF takerSells
                        THEN FeeTransfer(Treasury, t.quote, t.partQuote, c)
                                 \o FeeTransfer(Treasury, t.base, t.partBase, c)
                        ELSE FeeTransfer(Treasury, t.base, t.partBase, c)
                                 \o FeeTransfer(Treasury, t.quote, t.partQuote, c)
    BY <1>9 DEF SpotTrade
  <2>3. /\ FeeTransfer(Treasury, t.quote, t.partQuote, c) \in Seq(Instructions)
        /\ FeeTransfer(Treasury, t.base, t.partBase, c) \in Seq(Instructions)
    BY <1>0, TradeTyped, FeeTransferTyped
  <2>4. transfers' \in Seq(Instructions)
    BY <2>2, <2>3
  <2> QED BY <1>0, <2>1, <2>2, <2>4, BooksKept
<1>10. ASSUME NEW s \in Strategy, InternalTransfer(s) PROVE Books'
  <2>1. Sound(funds', FundAccounts, ModeOf, useMargin)
    BY <1>10, InternalTransferEffect DEF Credited
  <2>2. /\ UNCHANGED <<account, useMargin>> /\ transfers # << >> /\ transfers' = Tail(transfers)
    BY <1>10 DEF InternalTransfer, NoInstruction
  <2>3. transfers' \in Seq(Instructions)
    BY <1>0, <2>2
  <2> QED BY <1>0, <2>1, <2>2, <2>3, BooksKept
<1>11. \A n \in {0} \union Units : n \in Nat
  BY Constants
<1>12. CASE Deposits
  BY <1>1, <1>11, <1>12 DEF Deposits
<1>13. CASE Withdrawals
  BY <1>2, <1>13 DEF Withdrawals
<1>14. CASE Modes
  BY <1>3, <1>14 DEF Modes
<1>15. CASE Settings
  BY <1>4, <1>5, <1>6, <1>15 DEF Settings
<1>16. CASE Orders
  BY <1>7, <1>16, Constants DEF Orders
<1>17. CASE Transfers
  BY <1>0, <1>8, <1>17 DEF Transfers
<1>18. CASE Fills
  BY <1>9, <1>18 DEF Fills
<1>19. CASE Payments
  BY <1>10, <1>19 DEF Payments
<1> QED BY <1>12, <1>13, <1>14, <1>15, <1>16, <1>17, <1>18, <1>19 DEF FundSteps

\* The slot keeps its collector, or is given another user: so it stays a user.
LEMMA CollectorKept ==
    ASSUME SlotInv(slot, options), Books, [Next]_<<fundVars, optionVars>>
    PROVE  slot'.collector \in UserAccounts
<1>1. slot \in Slots /\ slot.collector \in UserAccounts
  BY DEF SlotInv, Books, AccountsOK
<1>2. \A S : Release(S).collector = S.collector
  BY DEF Release, NoMarket
<1>3. ASSUME UNCHANGED slot \/ Operate PROVE slot'.collector \in UserAccounts
  <2>1. ASSUME NEW a \in Operators, NEW f \in Payees, UpdateMarketSlot(a, f)
        PROVE  slot'.collector \in UserAccounts
    BY <1>1, <2>1, OptionsAssumption DEF UpdateMarketSlot, Slots, UserAccounts
  <2>2. ASSUME NEW discrete, NEW default, NEW frozen, CreateMarket(discrete, default, frozen)
        PROVE  slot'.collector \in UserAccounts
    BY <1>1, <2>2 DEF CreateMarket, NoMarket
  <2>3. ASSUME NEW frozen, UpdateMarket(frozen) PROVE slot'.collector \in UserAccounts
    BY <1>1, <2>3 DEF UpdateMarket, Slots
  <2>4. ASSUME NEW price, NEW refund, SettleOutcome(price, refund)
        PROVE  slot'.collector \in UserAccounts
    <3> DEFINE T == [slot EXCEPT !.status = InSettlement,
                                 !.price = IF refund THEN slot.default ELSE price]
    <3>1. T.collector = slot.collector
      BY <1>1 DEF Slots
    <3>2. slot' = Release(T)
      BY <2>4 DEF SettleOutcome
    <3> HIDE DEF T
    <3> QED BY <1>1, <1>2, <3>1, <3>2
  <2> QED BY <1>1, <1>3, <2>1, <2>2, <2>3, <2>4 DEF Operate
<1>4. ASSUME Bets PROVE slot'.collector \in UserAccounts
  <2>1. ASSUME NEW a \in Account, RestOrder(a) PROVE slot'.collector \in UserAccounts
    BY <1>1, <2>1 DEF RestOrder, Slots
  <2>2. ASSUME NEW a \in Account, CancelOrder(a) PROVE slot'.collector \in UserAccounts
    <3> DEFINE T == [slot EXCEPT !.orders = @ - 1]
    <3>1. T.collector = slot.collector
      BY <1>1 DEF Slots
    <3>2. slot' = Release(T)
      BY <2>2 DEF CancelOrder
    <3> HIDE DEF T
    <3> QED BY <1>1, <1>2, <3>1, <3>2
  <2>3. ASSUME NEW a \in Account, SettlePosition(a) PROVE slot'.collector \in UserAccounts
    <3> DEFINE T == [slot EXCEPT !.openInterest = @ - Magnitude(PositionOf(a).size)]
    <3>1. T.collector = slot.collector
      BY <1>1 DEF Slots
    <3>2. slot' = Release(T)
      BY <2>3 DEF SettlePosition
    <3> HIDE DEF T
    <3> QED BY <1>1, <1>2, <3>1, <3>2
  <2>4. ASSUME NEW a, NEW b, NEW deal, NEW c, NEW takerSells, NEW filled,
               Trade(a, b, deal, c, takerSells, filled)
        PROVE  slot'.collector \in UserAccounts
    <3>1. \A i, n : [slot EXCEPT !.openInterest = i, !.orders = n].collector = slot.collector
      BY <1>1 DEF Slots
    <3> QED BY <1>1, <2>4, <3>1 DEF Trade
  <2> QED BY <1>4, <2>1, <2>2, <2>3, <2>4, Constants DEF Bets
<1> QED BY <1>3, <1>4 DEF Next, FundSteps, fundVars, optionVars

\* What is traded and paid on the slot keeps them too.
LEMMA BooksNext ==
    ASSUME SlotInv(slot, options), Books, [Next]_<<fundVars, optionVars>>
    PROVE  Books'
<1>0. slot'.collector \in UserAccounts
  BY CollectorKept
<1>1. CASE FundSteps
  BY <1>1, FundsKeepBooks
<1>2. CASE UNCHANGED fundVars
  <2>1. /\ UNCHANGED <<account, useMargin>> /\ transfers' \in Seq(Instructions)
        /\ Sound(funds', FundAccounts, ModeOf, useMargin)
    BY <1>2 DEF fundVars, Books, Placed
  <2> QED BY <1>0, <2>1, BooksKept
<1>3. ASSUME NEW a \in Account, SettlePosition(a) PROVE Books'
  <2>1. Sound(funds', FundAccounts, ModeOf, useMargin)
    BY <1>3, PayoutEffect DEF Credited
  <2>2. UNCHANGED <<account, useMargin, transfers>>
    BY <1>3 DEF SettlePosition
  <2>3. transfers \in Seq(Instructions)
    BY DEF Books
  <2> QED BY <1>0, <2>1, <2>2, <2>3, BooksKept
<1>4. ASSUME NEW a \in Traders, NEW b \in Traders, NEW deal \in Deals, NEW c \in Integrators,
             NEW takerSells \in BOOLEAN, NEW filled \in BOOLEAN,
             Trade(a, b, deal, c, takerSells, filled)
      PROVE  Books'
  <2>1. Sound(funds', FundAccounts, ModeOf, useMargin)
    BY <1>4, TradeEffect DEF OutcomeSteps, Credited
  <2>2. /\ UNCHANGED <<account, useMargin>>
        /\ transfers' = FeeTransfer(slot.collector, USDC, deal.takerPart, c)
                            \o FeeTransfer(slot.collector, USDC, deal.makerPart, c)
    BY <1>4 DEF Trade
  <2>3. /\ FeeTransfer(slot.collector, USDC, deal.takerPart, c) \in Seq(Instructions)
        /\ FeeTransfer(slot.collector, USDC, deal.makerPart, c) \in Seq(Instructions)
    BY Constants, DealTyped, FeeTransferTyped DEF Books, AccountsOK
  <2>4. transfers' \in Seq(Instructions)
    BY <2>2, <2>3
  <2> QED BY <1>0, <2>1, <2>2, <2>4, BooksKept
<1>5. CASE Operate
  BY <1>2, <1>5 DEF Operate, UpdateMarketSlot, CreateMarket, UpdateMarket, SettleOutcome
<1>6. CASE Bets
  BY <1>2, <1>3, <1>4, <1>6 DEF Bets, RestOrder, CancelOrder
<1> QED BY <1>1, <1>2, <1>5, <1>6 DEF Next, fundVars

\* The balances are where the mode and the margin settings of their accounts say, and the
\* supplied totals and the strategies of the funds add up to them.
THEOREM BalancesStayInPlace == Spec => [](BalancesInPlace /\ SuppliedMatches /\ StrategiesMatch)
<1>1. Books => BalancesInPlace /\ SuppliedMatches /\ StrategiesMatch
  <2> SUFFICES ASSUME Books PROVE BalancesInPlace /\ SuppliedMatches /\ StrategiesMatch
    OBVIOUS
  <2>1. /\ Sound(funds, FundAccounts, ModeOf, useMargin)
        /\ funds \in RawFunds
    BY BooksTyped
  <2>2. {a \in Account : IsFund(a)} = FundAccounts
        /\ {a \in Account : ~IsFund(a)} = Account \ FundAccounts
    BY DEF FundAccounts
  <2>3. \A a \in Account : account[a].mode = Unified => ModeOf[a] = Unified
    BY DEF ModeOf, Mode
  <2>4. BalancesInPlace
    <3>1. \A a \in Account, x \in Asset : Cell(funds, FundAccounts, ModeOf, useMargin, a, x)
      BY <2>1 DEF Sound
    <3>2. \A a \in Account : NoSpotUSDC(a)
      BY <2>3, <3>1, Constants DEF NoSpotUSDC, Cell
    <3>3. \A a \in Account : MarginWhereUsed(a)
      BY <3>1 DEF MarginWhereUsed, Cell, FundAccounts, Books, AccountsOK
    <3> QED BY <3>2, <3>3 DEF BalancesInPlace
  <2>5. SuppliedMatches
    BY <2>1, <2>2 DEF SuppliedMatches, SuppliedBy, Sound, SumsHold, Cell
  <2>6. StrategiesMatch
    BY <2>1, <2>2 DEF StrategiesMatch, Divided, Sound, SumsHold
  <2> QED BY <2>4, <2>5, <2>6
<1>2. Init => OptionsInv /\ Books
  BY OptionsInit, BooksInit
<1>3. OptionsInv /\ Books /\ [Next]_<<fundVars, optionVars>> => OptionsInv' /\ Books'
  BY OptionsNext, BooksNext DEF OptionsInv
<1> QED BY <1>1, <1>2, <1>3, PTL DEF Spec

-----------------------------------------------------------------------------
(* Who has no orders is not in debt. *)

\* An account without orders on the markets owes no USDC.
Solvent(F) == \A a \in Account \ Traders : F.margin[a][USDC] >= 0

\* Who pays USDC has it, or trades: then everybody is as solvent as before.
LEMMA SolventMoved ==
    ASSUME NEW F \in RawFunds, NEW G, Solvent(F),
           NEW a \in Account, NEW x \in Asset, NEW m \in Int, NEW r, NEW s \in Strategy,
           Moved(F, G, FundAccounts, a, x, m, r, s),
           (x = USDC /\ m < 0 /\ a \notin Traders) => G.margin[a][USDC] >= 0
    PROVE  Solvent(G)
<1>1. USDC \in Asset /\ \A b \in Account, y \in Asset : F.margin[b][y] \in Int
  <2>1. USDC \in Asset
    BY Constants
  <2>2. F.margin \in Tables
    BY DEF RawFunds
  <2> QED BY <2>1, <2>2 DEF Tables
<1>2. ASSUME NEW b \in Account \ Traders PROVE G.margin[b][USDC] >= 0
  <2>1. CASE b = a /\ x = USDC
    <3>1. G.margin[a][USDC] = F.margin[a][USDC] + m
      BY <2>1 DEF Moved
    <3>2. F.margin[a][USDC] \in Int /\ F.margin[a][USDC] >= 0 /\ a \notin Traders
      BY <1>1, <2>1 DEF Solvent
    <3> QED BY <2>1, <3>1, <3>2
  <2>2. CASE ~(b = a /\ x = USDC)
    <3>1. G.margin[b][USDC] = F.margin[b][USDC]
      BY <1>1, <2>2 DEF Moved, Same
    <3> QED BY <3>1 DEF Solvent
  <2> QED BY <2>1, <2>2
<1> QED BY <1>2 DEF Solvent

\* The same of a part of a transaction.
LEMMA SolventCredited ==
    ASSUME NEW F \in RawFunds, NEW G, Solvent(F),
           NEW a \in Account, NEW x \in Asset, NEW side, NEW d \in Int, NEW m, NEW s \in Strategy,
           Credited(F, G, a, x, side, d, m, s),
           (x = USDC /\ m < 0 /\ a \notin Traders) => G.margin[a][USDC] >= 0
    PROVE  Solvent(G) /\ G \in RawFunds
<1>1. m \in Int /\ Moved(F, G, FundAccounts, a, x, m, d - m, s)
  BY DEF Credited
<1>2. G \in RawFunds
  BY <1>1 DEF Moved
<1> DEFINE r == d - m
<1>3. Moved(F, G, FundAccounts, a, x, m, r, s)
  BY <1>1
<1> HIDE DEF r
<1> QED BY <1>1, <1>2, <1>3, SolventMoved

\* What an account receives leaves no debt.
LEMMA SolventPaid ==
    ASSUME NEW F \in RawFunds, NEW G, Solvent(F),
           NEW a \in Account, NEW x \in Asset, NEW side, NEW d \in Int, NEW m, NEW s \in Strategy,
           Credited(F, G, a, x, side, d, m, s), d >= 0 \/ a \in Traders
    PROVE  Solvent(G) /\ G \in RawFunds
<1>1. d >= 0 => ~(m < 0)
  BY DEF Credited
<1> QED BY <1>1, SolventCredited

\* Locks are amounts.
LocksTyped == locked \in [Account -> [Asset -> 0..MaxLock]]

\* An account may take USDC only of a spot side that has it or of margin that has it.
LEMMA AvailableUSDC ==
    ASSUME Books, LocksTyped, NEW a \in Account, NEW side \in Products, NEW skip \in BOOLEAN,
           NEW v \in Int, v > 0, v <= Available(a, USDC, side, skip)
    PROVE  \/ Mode(a) = Simple /\ side = Spot
           \/ v <= funds.margin[a][USDC]
<1>1. /\ funds \in RawFunds /\ USDC \in Asset /\ IsFiniteSet(Asset)
      /\ Sound(funds, FundAccounts, ModeOf, useMargin)
      /\ Mode(a) \in {Simple, Unified}
  BY BooksTyped, Constants, BalancesAssumption
<1> DEFINE val == Value(funds, a)
           mar == funds.margin[a][USDC]
           spt == funds.spot[a][USDC]
           loc == locked[a][USDC]
<1>2. val \in Int /\ mar \in Int /\ spt \in Int
  <2>1. \A y \in Asset : funds.margin[a][y] \in Int
    BY <1>1 DEF RawFunds, Tables
  <2>2. val \in Int
    <3> DEFINE f == funds.margin[a]
    <3>1. \A y \in Asset : f[y] \in Int
      BY <2>1
    <3> HIDE DEF f
    <3>2. SumFunctionOnSet(f, Asset) \in Int
      BY <1>1, <3>1, SumInt
    <3> QED BY <3>2 DEF Value, f
  <2> QED BY <1>1, <2>1, <2>2 DEF RawFunds, Tables
<1>3. loc \in Int
  BY <1>1, FundTransactionsAssumption DEF LocksTyped
<1>4. AvailableMargin(a, USDC) \in Nat
      /\ (AvailableMargin(a, USDC) > 0 => AvailableMargin(a, USDC) <= mar)
  <2>1. AvailableMargin(a, USDC) = Positive(Lesser(val, mar))
    BY DEF AvailableMargin
  <2> HIDE DEF val, mar
  <2> QED BY <1>2, <2>1 DEF Positive, Lesser
<1> DEFINE am == AvailableMargin(a, USDC)
<1>5. CASE Mode(a) = Simple /\ side = Perps
  <2>1. Available(a, USDC, side, skip) = am
    BY <1>5 DEF Available, Spot, Perps
  <2> HIDE DEF am
  <2>2. v <= am
    BY <2>1
  <2> QED BY <1>2, <1>4, <2>2 DEF am
<1>6. CASE Mode(a) = Unified
  <2>1. spt = 0
    BY <1>1, <1>6 DEF Sound, Cell, ModeOf
  <2>2. Mode(a) # Simple /\ UsedAsMargin(a, USDC) /\ Spot # Perps
    BY <1>6 DEF Simple, Unified, UsedAsMargin, Spot, Perps
  <2> DEFINE onSpot == IF side = Spot THEN spt ELSE 0
             offSide == IF side = Perps THEN spt ELSE 0
  <2>3. onSpot = 0 /\ offSide = 0
    BY <2>1
  <2>4. Available(a, USDC, side, skip) =
            IF skip THEN am + onSpot ELSE Positive(am + onSpot - Positive(loc - offSide))
    BY <2>2 DEF Available
  <2> HIDE DEF am, onSpot, offSide, loc
  <2>5. am \in Nat
    BY <1>4 DEF am
  <2>6. v <= am
    BY <1>3, <2>3, <2>4, <2>5 DEF Positive
  <2> QED BY <1>2, <1>4, <2>6 DEF am
<1> QED BY <1>1, <1>5, <1>6 DEF Products

\* A payment out of what is available leaves no debt.
LEMMA SolventPayment ==
    ASSUME Books, LocksTyped, NEW F \in RawFunds, NEW G, Solvent(F),
           NEW a \in Account, NEW side \in Products, NEW skip \in BOOLEAN,
           ~IsFund(a) \/ side = Perps,
           F.margin[a][USDC] = funds.margin[a][USDC],
           NEW v \in Int, v >= 0, v <= Available(a, USDC, side, skip),
           NEW m, NEW s \in Strategy, Credited(F, G, a, USDC, side, -v, m, s)
    PROVE  Solvent(G) /\ G \in RawFunds
<1>1. USDC \in Asset /\ -v \in Int
  BY Constants
<1>2. m < 0 => G.margin[a][USDC] >= 0
  <2> SUFFICES ASSUME m < 0 PROVE G.margin[a][USDC] >= 0
    OBVIOUS
  <2>1. /\ m \in Int /\ G.margin[a][USDC] = F.margin[a][USDC] + m
        /\ m = IF Mode(a) = Simple /\ side = Spot /\ ~IsFund(a) THEN 0 ELSE -v
    BY DEF Credited, Moved
  <2>2. m = -v /\ v > 0 /\ ~(Mode(a) = Simple /\ side = Spot)
    BY <2>1 DEF Spot, Perps
  <2>3. v <= funds.margin[a][USDC]
    BY <2>2, AvailableUSDC
  <2>4. F.margin[a][USDC] \in Int
    BY <1>1 DEF RawFunds, Tables
  <2> QED BY <2>1, <2>2, <2>3, <2>4
<1> DEFINE d == -v
<1>3. d \in Int /\ Credited(F, G, a, USDC, side, d, m, s)
  BY <1>1
<1> HIDE DEF d
<1> QED BY <1>1, <1>2, <1>3, SolventCredited

\* What transactions of one account and transfers leave.
LEMMA WithdrawSolvent ==
    ASSUME Books, LocksTyped, Solvent(funds),
           NEW a \in Account, NEW x \in Asset, NEW n \in Units, NEW side \in Products,
           L1Withdraw(a, x, n, side) \/ L2Withdraw(a, x, n, side)
    PROVE  Solvent(funds')
<1> DEFINE v == n * Mult[x]
           d == -v
<1>1. v \in Int /\ v >= 0 /\ d \in Int /\ funds \in RawFunds /\ Default \in Strategy
  BY UnitsExtended, Constants, BooksTyped
<1>2. /\ IsUser(a) /\ Withdraw(a, x, n, side) /\ v <= Available(a, x, side, FALSE)
      /\ ~IsFund(a)
  BY DEF L1Withdraw, L2Withdraw, IsUser, IsFund
<1>3. PICK m \in Int : Credited(funds, funds', a, x, side, d, m, Default)
  BY <1>2, WithdrawEffect
<1>4. CASE x = USDC
  BY <1>1, <1>2, <1>3, <1>4, SolventPayment
<1>5. CASE x # USDC
  <2> HIDE DEF d
  <2> QED BY <1>1, <1>3, <1>5, SolventCredited
<1> QED BY <1>4, <1>5

\* A transfer, with its fee.
LEMMA TransferSolvent ==
    ASSUME Books, LocksTyped, Solvent(funds),
           NEW a \in Account, NEW b \in Account, NEW x \in Asset, NEW n \in Units,
           NEW fee \in Fees, NEW from \in Products, NEW to \in Products, NEW s \in Strategy,
           L2Transfer(a, b, x, n, fee, from, to, s)
    PROVE  Solvent(funds')
<1> DEFINE d == n * Mult[x]
           f == fee * Mult[USDC]
           v == d + (IF x = USDC THEN f ELSE 0)
           w == IF x = USDC THEN 0 ELSE -f
<1>1. /\ d \in Int /\ d >= 0 /\ f \in Int /\ f >= 0 /\ v \in Int /\ v >= 0 /\ -v \in Int
      /\ w \in Int /\ funds \in RawFunds /\ USDC \in Asset /\ FeeAccount \in Account
  BY UnitsExtended, Constants, BooksTyped
<1>2. PICK sent, paid, earned, m, k, l :
          TransferSteps(a, b, x, d, f, from, to, s, sent, paid, earned, m, k, l)
  BY TransferEffect
<1>3. /\ Credited(funds, sent, a, x, from, -v, m, s)
      /\ Credited(sent, paid, a, USDC, from, w, k, s)
      /\ Moved(paid, earned, FundAccounts, FeeAccount, USDC, f, 0, s)
      /\ Credited(earned, funds', b, x, to, d, l, s)
  BY <1>2 DEF TransferSteps
<1>4. ~IsFund(a) \/ from = Perps
  <2>1. SenderAllowed(a, x, from)
    BY DEF L2Transfer
  <2> QED BY <2>1 DEF SenderAllowed, IsUser, IsFund
<1>5. /\ v <= IF a = b /\ from = Spot THEN funds.spot[a][x] ELSE Available(a, x, from, a = b)
      /\ x # USDC => f <= Available(a, USDC, from, FALSE)
  BY DEF L2Transfer
<1>6. (a = b) \in BOOLEAN
  OBVIOUS
<1> HIDE DEF d, f, v, w
<1>7. Solvent(sent) /\ sent \in RawFunds
  <2>1. CASE x # USDC
    BY <1>1, <1>3, <2>1, SolventCredited
  <2>2. CASE x = USDC /\ a = b /\ from = Spot
    <3>1. Mode(a) = Simple /\ ~IsFund(a)
      BY <2>2, WithinAccount
    <3>2. m = 0
      BY <1>3, <2>2, <3>1 DEF Credited
    <3> QED BY <1>1, <1>3, <3>2, SolventCredited
  <2>3. CASE x = USDC /\ ~(a = b /\ from = Spot)
    <3> DEFINE skip == a = b
    <3>1. skip \in BOOLEAN /\ v <= Available(a, USDC, from, skip)
      BY <1>5, <2>3
    <3> HIDE DEF skip
    <3> QED BY <1>1, <1>3, <1>4, <2>3, <3>1, SolventPayment
  <2> QED BY <2>1, <2>2, <2>3
<1>8. Solvent(paid) /\ paid \in RawFunds
  <2>1. CASE x = USDC
    <3>1. w >= 0 /\ k >= 0
      BY <1>1, <1>3, <2>1 DEF w, Credited
    <3>2. ~(k < 0)
      BY <1>3, <3>1 DEF Credited
    <3> QED BY <1>1, <1>3, <1>7, <3>2, SolventCredited
  <2>2. CASE x # USDC
    <3>1. w = -f /\ f <= Available(a, USDC, from, FALSE)
      BY <1>5, <2>2 DEF w
    <3>2. sent.margin[a][USDC] = funds.margin[a][USDC]
      BY <1>1, <1>3, <2>2 DEF Credited, Moved, Same
    <3> QED BY <1>1, <1>3, <1>4, <1>7, <3>1, <3>2, SolventPayment
  <2> QED BY <2>1, <2>2
<1>9. Solvent(earned) /\ earned \in RawFunds
  <2>1. ~(f < 0) /\ earned \in RawFunds
    BY <1>1, <1>3 DEF Moved
  <2> QED BY <1>1, <1>3, <1>8, <2>1, SolventMoved
<1>10. ~(l < 0)
  BY <1>1, <1>3 DEF Credited
<1> QED BY <1>1, <1>3, <1>9, <1>10, SolventCredited

\* Isolated margin.
LEMMA MarginSolvent ==
    ASSUME Books, LocksTyped, Solvent(funds), NEW a \in Account, NEW n \in Units,
           NEW adding \in BOOLEAN, L2UpdateMargin(a, n, adding)
    PROVE  Solvent(funds')
<1> DEFINE d == n * Mult[USDC]
           e == IF adding THEN d ELSE -d
           g == -e
<1>1. /\ d \in Int /\ d > 0 /\ e \in Int /\ g \in Int /\ funds \in RawFunds /\ USDC \in Asset
      /\ Default \in Strategy
  BY UnitsExtended, Constants, BooksTyped
<1>2. adding => d <= Available(a, USDC, Perps, FALSE)
  BY DEF L2UpdateMargin
<1>3. PICK moved : MarginSteps(a, e, moved)
  BY UpdateMarginEffect
<1>4. /\ Moved(funds, moved, FundAccounts, a, USDC, g, 0, Default)
      /\ funds'.margin = moved.margin
  BY <1>3 DEF MarginSteps
<1>5. funds.margin[a][USDC] \in Int
  BY <1>1 DEF RawFunds, Tables
<1>6. adding => d <= funds.margin[a][USDC]
  <2>1. Perps # Spot /\ Perps \in Products
    BY DEF Perps, Spot, Products
  <2> HIDE DEF d
  <2> QED BY <1>1, <1>2, <2>1, AvailableUSDC
<1> HIDE DEF d
<1>8. (adding => e = d /\ g = -d) /\ (~adding => e = -d /\ g = d)
  BY <1>1
<1> HIDE DEF e, g
<1>9. moved.margin[a][USDC] = funds.margin[a][USDC] + g
  BY <1>4 DEF Moved
<1>10. g < 0 => moved.margin[a][USDC] >= 0
  BY <1>1, <1>5, <1>6, <1>8, <1>9
<1>11. Solvent(moved)
  BY <1>1, <1>4, <1>10, SolventMoved
<1> QED BY <1>4, <1>11 DEF Solvent

-----------------------------------------------------------------------------
(* What integrators are owed is there. *)

\* What a user can pay of an asset, and what the instructions T pay of it: a fill leaves two
\* at most.
Liquid(F, mode, f, x) ==
    IF mode[f] = Simple THEN F.spot[f][x] ELSE F.spot[f][x] + F.margin[f][x]

Amount(i, x) == IF i.asset = x THEN i.units * Mult[x] ELSE 0

Owed(T, x) ==
    (IF Len(T) >= 1 THEN Amount(T[1], x) ELSE 0) + (IF Len(T) >= 2 THEN Amount(T[2], x) ELSE 0)

\* One collector pays all instructions of a fill, and has what they pay unless it trades.
PaidBy(T, f) == (Len(T) >= 1 => T[1].from = f) /\ (Len(T) >= 2 => T[2].from = f)

Covered(F, mode, T) ==
    /\ Len(T) <= 2
    /\ \E f \in UserAccounts :
          /\ PaidBy(T, f)
          /\ f \notin Traders => \A x \in Asset : Owed(T, x) <= Liquid(F, mode, f, x)

\* A user is no fund, and its mode is one of the two.
LEMMA UserTyped ==
    ASSUME Books, NEW f \in UserAccounts
    PROVE  /\ f \in Account /\ IsUser(f) /\ ~IsFund(f) /\ f \notin FundAccounts
           /\ ModeOf[f] = Mode(f) /\ Mode(f) \in {Simple, Unified}
BY BooksTyped DEF UserAccounts, IsUser, IsFund, FundAccounts, ModeOf

\* What an account without orders can pay is not negative.
LEMMA LiquidNat ==
    ASSUME NEW F, NEW K, NEW mode, NEW used, Sound(F, K, mode, used), Solvent(F),
           NEW f \in Account, f \notin Traders, NEW x \in Asset
    PROVE  Liquid(F, mode, f, x) \in Nat
<1>1. F.spot[f][x] \in Int /\ F.margin[f][x] \in Int
  BY DEF Sound, RawFunds, Tables
<1>2. F.spot[f][x] >= 0 /\ F.margin[f][x] >= 0
  BY <1>1 DEF Sound, Cell, Solvent
<1> QED BY <1>1, <1>2 DEF Liquid

\* Nothing is owed without instructions.
LEMMA NothingOwed ==
    ASSUME NEW F, NEW K, NEW used, Sound(F, K, ModeOf, used), Solvent(F), Books
    PROVE  Covered(F, ModeOf, << >>)
<1>1. \A x \in Asset : Owed(<< >>, x) = 0 /\ Len(<< >>) = 0
  BY DEF Owed
<1>2. Treasury \in UserAccounts /\ Treasury \in Account
  BY Constants DEF Books, AccountsOK
<1>3. ASSUME Treasury \notin Traders, NEW x \in Asset PROVE 0 <= Liquid(F, ModeOf, Treasury, x)
  <2>1. Liquid(F, ModeOf, Treasury, x) \in Nat
    BY <1>2, <1>3, LiquidNat
  <2> QED BY <2>1
<1> QED BY <1>1, <1>2, <1>3 DEF Covered, PaidBy

\* Who else is paid leaves what a user has; what it is paid itself, it can pay.
LEMMA LiquidCredited ==
    ASSUME NEW F \in RawFunds, NEW G, NEW a \in Account, NEW x \in Asset, NEW d \in Int, NEW m,
           NEW s, Credited(F, G, a, x, Spot, d, m, s), Books, NEW f \in UserAccounts,
           NEW y \in Asset
    PROVE  /\ Liquid(F, ModeOf, f, y) \in Int
           /\ Liquid(G, ModeOf, f, y) =
                  Liquid(F, ModeOf, f, y) + (IF a = f /\ y = x THEN d ELSE 0)
<1>1. /\ m \in Int /\ f \in Account /\ F.spot[f][y] \in Int /\ F.margin[f][y] \in Int
  BY UserTyped DEF Credited, RawFunds, Tables
<1>2. Liquid(F, ModeOf, f, y) \in Int
  BY <1>1 DEF Liquid
<1>3. CASE ~(a = f /\ y = x)
  <2>1. Same(F, G, f, y)
    BY <1>1, <1>3 DEF Credited, Moved
  <2>2. Liquid(G, ModeOf, f, y) = Liquid(F, ModeOf, f, y)
    BY <2>1 DEF Same, Liquid
  <2> QED BY <1>2, <1>3, <2>2
<1>4. CASE a = f /\ y = x
  <2>1. /\ G.spot[f][y] = F.spot[f][y] + (d - m)
        /\ G.margin[f][y] = F.margin[f][y] + m
    BY <1>4 DEF Credited, Moved
  <2>2. ModeOf[f] = Mode(f) /\ ~IsFund(f)
    BY UserTyped
  <2>3. Mode(f) = Simple => m = 0
    BY <1>4, <2>2 DEF Credited, Spot, Perps
  <2>4. CASE Mode(f) = Simple
    BY <1>1, <1>2, <1>4, <2>1, <2>2, <2>3, <2>4 DEF Liquid
  <2>5. CASE Mode(f) # Simple
    BY <1>1, <1>2, <1>4, <2>1, <2>2, <2>5 DEF Liquid
  <2> QED BY <2>4, <2>5
<1> QED BY <1>3, <1>4

\* Two instructions one after the other.
LEMMA Joined ==
    ASSUME NEW i, NEW j
    PROVE  Len(<<i>> \o <<j>>) = 2 /\ (<<i>> \o <<j>>)[1] = i /\ (<<i>> \o <<j>>)[2] = j
OBVIOUS

\* The instructions a fill leaves are covered by the fees it pays, whichever comes first.
LEMMA OwedOfFill ==
    ASSUME NEW f \in UserAccounts, NEW x \in Asset, NEW y \in Asset, NEW p \in Nat, NEW q \in Nat,
           NEW c \in Integrators,
           NEW T, T = FeeTransfer(f, x, p, c) \o FeeTransfer(f, y, q, c), NEW z \in Asset
    PROVE  /\ Len(T) <= 2 /\ PaidBy(T, f) /\ T \in Seq(Instructions)
           /\ Owed(T, z) <= (IF z = x THEN p ELSE 0) + (IF z = y THEN q ELSE 0)
<1> DEFINE u == FeeTransfer(f, x, p, c)
           v == FeeTransfer(f, y, q, c)
<1>1. u = << >> \/ \E i \in Instructions :
                      u = <<i>> /\ i.from = f /\ i.asset = x /\ i.units * Mult[x] <= p
  BY FeeTransferTyped
<1>2. v = << >> \/ \E i \in Instructions :
                      v = <<i>> /\ i.from = f /\ i.asset = y /\ i.units * Mult[y] <= q
  BY FeeTransferTyped
<1>3. T = u \o v /\ T \in Seq(Instructions)
  <2>1. u \in Seq(Instructions) /\ v \in Seq(Instructions)
    BY FeeTransferTyped
  <2> QED BY <2>1
<1> HIDE DEF u, v
<1>4. \A i \in Instructions : Amount(i, z) \in Nat
  <2> SUFFICES ASSUME NEW i \in Instructions PROVE Amount(i, z) \in Nat
    OBVIOUS
  <2>1. i.units \in Nat /\ Mult[z] \in Nat
    BY Constants DEF Instructions
  <2>2. i.units * Mult[z] \in Nat
    BY <2>1
  <2> QED BY <2>2 DEF Amount
<1>5. ASSUME NEW i \in Instructions, i.asset = x, i.units * Mult[x] <= p
      PROVE  Amount(i, z) <= (IF z = x THEN p ELSE 0)
  BY <1>5 DEF Amount
<1>6. ASSUME NEW i \in Instructions, i.asset = y, i.units * Mult[y] <= q
      PROVE  Amount(i, z) <= (IF z = y THEN q ELSE 0)
  BY <1>6 DEF Amount
<1>7. CASE u = << >> /\ v = << >>
  <2>1. Len(T) = 0
    BY <1>3, <1>7
  <2> QED BY <1>3, <2>1 DEF Owed, PaidBy
<1>8. CASE u = << >> /\ v # << >>
  <2>1. PICK i \in Instructions :
            v = <<i>> /\ i.from = f /\ i.asset = y /\ i.units * Mult[y] <= q
    BY <1>2, <1>8
  <2>2. T = <<i>>
    BY <1>3, <1>8, <2>1
  <2>3. Len(T) = 1 /\ T[1] = i
    BY <2>2
  <2>4. Owed(T, z) = Amount(i, z) + 0
    BY <2>3 DEF Owed
  <2>5. Amount(i, z) \in Nat /\ Amount(i, z) <= (IF z = y THEN q ELSE 0)
    BY <1>4, <1>6, <2>1
  <2> QED BY <1>3, <2>1, <2>3, <2>4, <2>5 DEF PaidBy
<1>9. CASE u # << >> /\ v = << >>
  <2>1. PICK i \in Instructions :
            u = <<i>> /\ i.from = f /\ i.asset = x /\ i.units * Mult[x] <= p
    BY <1>1, <1>9
  <2>2. T = <<i>>
    BY <1>3, <1>9, <2>1
  <2>3. Len(T) = 1 /\ T[1] = i
    BY <2>2
  <2>4. Owed(T, z) = Amount(i, z) + 0
    BY <2>3 DEF Owed
  <2>5. Amount(i, z) \in Nat /\ Amount(i, z) <= (IF z = x THEN p ELSE 0)
    BY <1>4, <1>5, <2>1
  <2> QED BY <1>3, <2>1, <2>3, <2>4, <2>5 DEF PaidBy
<1>10. CASE u # << >> /\ v # << >>
  <2>1. PICK i \in Instructions :
            u = <<i>> /\ i.from = f /\ i.asset = x /\ i.units * Mult[x] <= p
    BY <1>1, <1>10
  <2>2. PICK j \in Instructions :
            v = <<j>> /\ j.from = f /\ j.asset = y /\ j.units * Mult[y] <= q
    BY <1>2, <1>10
  <2>3. T = <<i>> \o <<j>>
    BY <1>3, <2>1, <2>2
  <2>4. Len(T) = 2 /\ T[1] = i /\ T[2] = j
    BY <2>3, Joined
  <2>5. Owed(T, z) = Amount(i, z) + Amount(j, z)
    BY <2>4 DEF Owed
  <2>6. Amount(i, z) \in Nat /\ Amount(i, z) <= (IF z = x THEN p ELSE 0)
    BY <1>4, <1>5, <2>1
  <2>7. Amount(j, z) \in Nat /\ Amount(j, z) <= (IF z = y THEN q ELSE 0)
    BY <1>4, <1>6, <2>2
  <2> QED BY <1>3, <2>1, <2>2, <2>4, <2>5, <2>6, <2>7 DEF PaidBy
<1> QED BY <1>7, <1>8, <1>9, <1>10

\* What is owed is a number of extended units.
LEMMA OwedTyped ==
    ASSUME NEW T \in Seq(Instructions), NEW z \in Asset
    PROVE  /\ \A i \in Instructions : Amount(i, z) \in Nat
           /\ Owed(T, z) \in Nat
<1>1. \A i \in Instructions : Amount(i, z) \in Nat
  <2>1. \A i \in Instructions : i.units \in Nat
    BY DEF Instructions
  <2>2. Mult[z] \in Nat
    BY Constants
  <2> QED BY <2>1, <2>2 DEF Amount
<1>2. /\ Len(T) >= 1 => T[1] \in Instructions
      /\ Len(T) >= 2 => T[2] \in Instructions
  OBVIOUS
<1> QED BY <1>1, <1>2 DEF Owed

\* A fill of a spot market brings nobody without orders into debt, and the fees it pays cover
\* what the treasury owes.
LEMMA SpotTradeSolvent ==
    ASSUME Books, Solvent(funds), NEW a \in Traders, NEW b \in Traders,
           NEW t \in Trades, NEW c \in Integrators, NEW takerSells \in BOOLEAN,
           SpotTrade(a, b, t, c, takerSells)
    PROVE  Solvent(funds') /\ Covered(funds', ModeOf, transfers')
<1> DEFINE feeBase == Collected(Treasury, a, b, t.feeBase)
           feeQuote == Collected(Treasury, a, b, t.feeQuote)
<1>1. /\ a \in Account /\ b \in Account /\ Treasury \in UserAccounts /\ Treasury \in Account
      /\ SpotStrategy \in Strategy /\ Default \in Strategy /\ funds \in RawFunds
  BY Constants, BooksTyped DEF Books, AccountsOK
<1>2. /\ t.base \in Asset /\ t.quote \in Asset /\ t.base # t.quote
      /\ t.feeBase \in Nat /\ t.feeQuote \in Nat
      /\ t.partBase \in Nat /\ t.partBase <= t.feeBase
      /\ t.partQuote \in Nat /\ t.partQuote <= t.feeQuote
  BY TradeTyped
<1>3. PICK sold, bought, paid, received, based, m :
          FillSteps(a, b, t, sold, bought, paid, received, based, m)
  BY SpotTradeEffect
<1>4. /\ Credited(funds, sold, a, t.base, Spot, Sells(t, a), m[1], SpotStrategy)
      /\ Credited(sold, bought, b, t.base, Spot, GetsBase(t, b), m[2], SpotStrategy)
      /\ Credited(bought, paid, b, t.quote, Spot, Pays(t, b), m[3], SpotStrategy)
      /\ Credited(paid, received, a, t.quote, Spot, GetsQuote(t, a), m[4], SpotStrategy)
      /\ Credited(received, based, Treasury, t.base, Spot, feeBase, m[5], Default)
      /\ Credited(based, funds', Treasury, t.quote, Spot, feeQuote, m[6], Default)
  BY <1>3 DEF FillSteps
<1>5. /\ Sells(t, a) \in Int /\ GetsBase(t, b) \in Int /\ Pays(t, b) \in Int
      /\ GetsQuote(t, a) \in Int
      /\ feeBase \in Int /\ feeBase >= 0 /\ feeQuote \in Int /\ feeQuote >= 0
  <2>1. /\ Sells(t, a) \in Int /\ GetsBase(t, b) \in Int /\ Pays(t, b) \in Int
        /\ GetsQuote(t, a) \in Int /\ feeBase \in Nat /\ feeQuote \in Nat
    BY FillAmounts, ZenonT(20) DEF SpotTrade
  <2> HIDE DEF feeBase, feeQuote
  <2> QED BY <2>1
<1>6. Treasury \notin Traders => feeBase = t.feeBase /\ feeQuote = t.feeQuote
  BY DEF Collected
<1> HIDE DEF feeBase, feeQuote
<1>7. Solvent(received) /\ received \in RawFunds
  <2>1. Solvent(sold) /\ sold \in RawFunds
    BY <1>1, <1>2, <1>4, <1>5, SolventPaid
  <2>2. Solvent(bought) /\ bought \in RawFunds
    BY <1>1, <1>2, <1>4, <1>5, <2>1, SolventPaid
  <2>3. Solvent(paid) /\ paid \in RawFunds
    BY <1>1, <1>2, <1>4, <1>5, <2>2, SolventPaid
  <2> QED BY <1>1, <1>2, <1>4, <1>5, <2>3, SolventPaid
<1>8. Solvent(based) /\ based \in RawFunds
  BY <1>1, <1>2, <1>4, <1>5, <1>7, SolventPaid
<1>9. Solvent(funds') /\ funds' \in RawFunds
  BY <1>1, <1>2, <1>4, <1>5, <1>8, SolventPaid
<1>10. /\ Len(transfers') <= 2 /\ PaidBy(transfers', Treasury)
       /\ transfers' \in Seq(Instructions)
       /\ \A z \in Asset : Owed(transfers', z) <= (IF z = t.base THEN t.partBase ELSE 0)
                                                      + (IF z = t.quote THEN t.partQuote ELSE 0)
  <2> DEFINE sellers == FeeTransfer(Treasury, t.quote, t.partQuote, c)
             buyers == FeeTransfer(Treasury, t.base, t.partBase, c)
  <2>0. transfers' = IF takerSells THEN sellers \o buyers ELSE buyers \o sellers
    BY DEF SpotTrade
  <2>1. CASE takerSells
    <3>1. transfers' = sellers \o buyers
      BY <2>0, <2>1
    <3>2. /\ Len(transfers') <= 2 /\ PaidBy(transfers', Treasury)
          /\ transfers' \in Seq(Instructions)
          /\ \A z \in Asset :
                Owed(transfers', z) <= (IF z = t.quote THEN t.partQuote ELSE 0)
                                           + (IF z = t.base THEN t.partBase ELSE 0)
      BY <1>1, <1>2, <3>1, OwedOfFill
    <3>3. \A z : (IF z = t.quote THEN t.partQuote ELSE 0) + (IF z = t.base THEN t.partBase ELSE 0)
               = (IF z = t.base THEN t.partBase ELSE 0) + (IF z = t.quote THEN t.partQuote ELSE 0)
      BY <1>2
    <3> QED BY <3>2, <3>3
  <2>2. CASE ~takerSells
    <3>1. transfers' = buyers \o sellers
      BY <2>0, <2>2
    <3> QED BY <1>1, <1>2, <3>1, OwedOfFill
  <2> QED BY <2>1, <2>2
<1> DEFINE L(F, z) == Liquid(F, ModeOf, Treasury, z)
<1>11. ASSUME Treasury \notin Traders, NEW z \in Asset
       PROVE  Owed(transfers', z) <= L(funds', z)
  <2>1. L(received, z) \in Nat
    <3>1. Sound(received, FundAccounts, ModeOf, useMargin)
      BY <1>4 DEF Credited
    <3> QED BY <1>1, <1>7, <1>11, <3>1, LiquidNat
  <2>2. L(based, z) = L(received, z) + (IF z = t.base THEN t.feeBase ELSE 0)
    <3>1. L(based, z) = L(received, z)
                            + (IF Treasury = Treasury /\ z = t.base THEN feeBase ELSE 0)
      BY <1>1, <1>2, <1>4, <1>5, <1>7, LiquidCredited
    <3> QED BY <1>6, <1>11, <3>1
  <2>3. L(funds', z) = L(based, z) + (IF z = t.quote THEN t.feeQuote ELSE 0)
    <3>1. L(funds', z) = L(based, z)
                             + (IF Treasury = Treasury /\ z = t.quote THEN feeQuote ELSE 0)
      BY <1>1, <1>2, <1>4, <1>5, <1>8, LiquidCredited
    <3> QED BY <1>6, <1>11, <3>1
  <2>4. Owed(transfers', z) <= (IF z = t.base THEN t.partBase ELSE 0)
                                   + (IF z = t.quote THEN t.partQuote ELSE 0)
    BY <1>10
  <2>5. Owed(transfers', z) \in Nat
    BY <1>10, OwedTyped
  <2> HIDE DEF L
  <2> QED BY <1>2, <2>1, <2>2, <2>3, <2>4, <2>5
<1> QED BY <1>1, <1>9, <1>10, <1>11 DEF Covered

\* Nor does a fill of a market on an outcome, and its fees cover what the collector of the
\* slot owes.
LEMMA OutcomeTradeSolvent ==
    ASSUME Books, Solvent(funds), SlotInv(slot, options),
           NEW a \in Traders, NEW b \in Traders, NEW deal \in Deals, NEW c \in Integrators,
           NEW takerSells \in BOOLEAN, NEW filled \in BOOLEAN,
           Trade(a, b, deal, c, takerSells, filled)
    PROVE  Solvent(funds') /\ Covered(funds', ModeOf, transfers')
<1> DEFINE f == slot.collector
           fees == FeesOf(deal)
           got == FeesGot(a, b, deal)
           d == BuyerGets(a, deal, takerSells)
           e == SellerGets(b, deal, takerSells)
<1>1. /\ a \in Account /\ b \in Account /\ f \in UserAccounts /\ f \in Account /\ USDC \in Asset
      /\ Default \in Strategy /\ funds \in RawFunds
  BY Constants, BooksTyped DEF Books, AccountsOK, UserAccounts
<1>2. /\ fees \in Nat /\ fees >= deal.takerPart + deal.makerPart
      /\ deal.takerPart \in Nat /\ deal.makerPart \in Nat
  BY DealTyped
<1>3. PICK paid, settled, m, k, l :
          OutcomeSteps(a, b, deal, takerSells, paid, settled, m, k, l)
  BY TradeEffect
<1>4. /\ d \in Int /\ e \in Int /\ got \in Nat
      /\ Credited(funds, paid, a, USDC, Spot, d, m, Default)
      /\ Credited(paid, settled, b, USDC, Spot, e, k, Default)
      /\ Credited(settled, funds', f, USDC, Spot, got, l, Default)
  BY <1>3 DEF OutcomeSteps
<1>5. transfers' = FeeTransfer(f, USDC, deal.takerPart, c) \o FeeTransfer(f, USDC, deal.makerPart, c)
  BY DEF Trade
<1>6. f \notin Traders => got = fees
  BY DEF FeesGot, Collected
<1> HIDE DEF d, e, fees, got, f
<1>7. got \in Int /\ got >= 0
  BY <1>4
<1>8. Solvent(paid) /\ paid \in RawFunds
  BY <1>1, <1>4, SolventPaid
<1>9. Solvent(settled) /\ settled \in RawFunds
  BY <1>1, <1>4, <1>8, SolventPaid
<1>10. Solvent(funds')
  BY <1>1, <1>4, <1>7, <1>9, SolventPaid
<1> DEFINE L(F, z) == Liquid(F, ModeOf, f, z)
<1>11. /\ Len(transfers') <= 2 /\ PaidBy(transfers', f) /\ transfers' \in Seq(Instructions)
       /\ \A z \in Asset : Owed(transfers', z) <= (IF z = USDC THEN deal.takerPart ELSE 0)
                                                      + (IF z = USDC THEN deal.makerPart ELSE 0)
  BY <1>1, <1>2, <1>5, OwedOfFill
<1>12. ASSUME f \notin Traders, NEW z \in Asset PROVE Owed(transfers', z) <= L(funds', z)
  <2>1. L(settled, z) \in Nat
    <3>1. Sound(settled, FundAccounts, ModeOf, useMargin)
      BY <1>4 DEF Credited
    <3> QED BY <1>1, <1>9, <1>12, <3>1, LiquidNat
  <2>2. L(funds', z) = L(settled, z) + (IF z = USDC THEN fees ELSE 0)
    <3>1. L(funds', z) = L(settled, z) + (IF f = f /\ z = USDC THEN got ELSE 0)
      BY <1>1, <1>4, <1>7, <1>9, LiquidCredited
    <3> QED BY <1>6, <1>12, <3>1
  <2>3. Owed(transfers', z) <= (IF z = USDC THEN deal.takerPart ELSE 0)
                                   + (IF z = USDC THEN deal.makerPart ELSE 0)
    BY <1>11
  <2>4. Owed(transfers', z) \in Nat
    BY <1>11, OwedTyped
  <2> HIDE DEF L
  <2> QED BY <1>2, <2>1, <2>2, <2>3, <2>4
<1> QED BY <1>1, <1>10, <1>11, <1>12 DEF Covered

\* Of what is owed the first instruction is paid.
LEMMA TailOwed ==
    ASSUME Books, Covered(funds, ModeOf, transfers), transfers # << >>,
           NEW i, i = Head(transfers)
    PROVE  /\ PaidBy(transfers, i.from) /\ PaidBy(Tail(transfers), i.from)
           /\ Len(Tail(transfers)) <= 2
           /\ Tail(transfers) \in Seq(Instructions)
           /\ \A z \in Asset : Amount(i, z) \in Nat /\ Amount(i, z) <= Owed(transfers, z)
           /\ \A z \in Asset : Owed(Tail(transfers), z) = Owed(transfers, z) - Amount(i, z)
<1> DEFINE T == Tail(transfers)
<1>1. transfers \in Seq(Instructions) /\ i \in Instructions
  BY DEF Books
<1>2. Len(transfers) <= 2 /\ Len(transfers) >= 1 /\ transfers[1] = i
  BY <1>1 DEF Covered
<1>3. /\ Len(T) = Len(transfers) - 1 /\ T \in Seq(Instructions)
      /\ Len(transfers) = 2 => T[1] = transfers[2]
  BY <1>1, <1>2
<1> HIDE DEF T
<1>4. /\ Len(transfers) = 1 \/ Len(transfers) = 2
      /\ Len(transfers) = 2 => transfers[2] \in Instructions
  <2>1. Len(transfers) \in Nat
    BY <1>1
  <2>2. Len(transfers) = 2 => transfers[2] \in Instructions
    BY SMTT(30), <1>1
  <2> DEFINE n == Len(transfers)
  <2>3. n \in Nat /\ n <= 2 /\ n >= 1
    BY <1>2, <2>1
  <2> HIDE DEF n
  <2>4. n = 1 \/ n = 2
    BY <2>3
  <2> QED BY <2>2, <2>4 DEF n
<1>5. PaidBy(transfers, i.from) /\ PaidBy(T, i.from)
  BY <1>2, <1>3, <1>4 DEF Covered, PaidBy
<1>6. ASSUME NEW z \in Asset
      PROVE  /\ Amount(i, z) \in Nat /\ Amount(i, z) <= Owed(transfers, z)
             /\ Owed(T, z) = Owed(transfers, z) - Amount(i, z)
  <2>1. Amount(i, z) \in Nat /\ (Len(transfers) = 2 => Amount(transfers[2], z) \in Nat)
    BY <1>1, <1>4, OwedTyped
  <2>2. CASE Len(transfers) = 1
    <3>1. Owed(T, z) = 0 /\ Owed(transfers, z) = Amount(i, z) + 0
      BY <1>2, <1>3, <2>2 DEF Owed
    <3> QED BY <2>1, <3>1
  <2>3. CASE Len(transfers) = 2
    <3>1. Len(T) = 1 /\ T[1] = transfers[2]
      BY <1>3, <2>3
    <3>2. Owed(T, z) = Amount(transfers[2], z) + 0
      BY <3>1 DEF Owed
    <3>3. Owed(transfers, z) = Amount(i, z) + Amount(transfers[2], z)
      BY <1>2, <2>3 DEF Owed
    <3> QED BY <2>1, <2>3, <3>2, <3>3
  <2> QED BY <1>4, <2>2, <2>3
<1>7. Len(T) <= 2
  BY <1>3, <1>4
<1> QED BY <1>3, <1>5, <1>6, <1>7 DEF T

\* An account without orders can pay the first instruction, whatever its mode and that of the
\* integrator, and what is left covers the others.
LEMMA PaymentSolvent ==
    ASSUME Books, Solvent(funds), Covered(funds, ModeOf, transfers),
           transfers # << >>, NEW s \in Strategy, NEW i, i = Head(transfers),
           i.from \notin Traders
    PROVE  /\ TransferPossible(i, s)
           /\ Solvent(FeeReceived(i, s))
           /\ Covered(FeeReceived(i, s), ModeOf, Tail(transfers))
<1> DEFINE x == i.asset
           f == i.from
           d == i.units * Mult[i.asset]
           e == -d
           paid == FeePaid(i, s)
           G == FeeReceived(i, s)
           spt == funds.spot[f][x]
           mar == funds.margin[f][x]
           p == MarginPart(funds, f, x, Spot, e)
           T == Tail(transfers)
<1>1. /\ USDC \in Asset /\ funds \in RawFunds /\ AccountsTyped
      /\ Sound(funds, FundAccounts, ModeOf, useMargin)
  BY Constants, BooksTyped
<1>2. transfers \in Seq(Instructions) /\ i \in Instructions
  BY DEF Books
<1>3. /\ i.side = Spot /\ i.to \in Account /\ i.to # f /\ i.to \in Integrators
      /\ x \in Asset /\ i.units \in Nat /\ f \in UserAccounts
  BY <1>2, Constants DEF Instructions
<1>u. /\ f \in Account /\ IsUser(f) /\ ~IsFund(f) /\ f \notin FundAccounts
      /\ ModeOf[f] = Mode(f) /\ Mode(f) \in {Simple, Unified}
  BY <1>3, UserTyped
<1>4. d \in Int /\ d >= 0 /\ e \in Int
  <2> DEFINE n == i.units
             y == i.asset
  <2>1. n \in Int /\ n >= 0 /\ y \in Asset
    BY <1>3
  <2> HIDE DEF n, y
  <2>2. n * Mult[y] \in Int /\ n * Mult[y] >= 0 /\ -(n * Mult[y]) \in Int
    BY <2>1, UnitsExtended
  <2> QED BY <2>2 DEF n, y
<1>5. /\ paid = Delta(funds, f, x, Spot, e, s)
      /\ G = Delta(paid, i.to, x, Spot, d, s)
  BY <1>3 DEF FeePaid, FeeReceived
<1>t. /\ PaidBy(transfers, f) /\ PaidBy(T, f) /\ Len(T) <= 2 /\ T \in Seq(Instructions)
      /\ \A z \in Asset : Amount(i, z) \in Nat /\ Amount(i, z) <= Owed(transfers, z)
      /\ \A z \in Asset : Owed(T, z) = Owed(transfers, z) - Amount(i, z)
  BY TailOwed
<1>o. \A z \in Asset : Owed(transfers, z) <= Liquid(funds, ModeOf, f, z)
  <2>1. Len(transfers) >= 1
    BY <1>2
  <2> QED BY <1>t, <2>1 DEF Covered, PaidBy
<1>6. d <= Liquid(funds, ModeOf, f, x)
  <2>1. Amount(i, x) = d
    BY DEF Amount
  <2>2. Amount(i, x) <= Owed(transfers, x) /\ Owed(transfers, x) <= Liquid(funds, ModeOf, f, x)
    BY <1>3, <1>t, <1>o
  <2>3. Liquid(funds, ModeOf, f, x) \in Nat
    BY <1>1, <1>3, <1>u, LiquidNat
  <2>4. Owed(transfers, x) \in Nat
    BY <1>2, <1>3, OwedTyped
  <2> HIDE DEF d, x, f
  <2> QED BY <1>4, <2>1, <2>2, <2>3, <2>4
<1>7. /\ spt \in Int /\ mar \in Int /\ spt >= 0 /\ mar >= 0
      /\ (x # USDC /\ ~useMargin[f][x]) => mar = 0
  <2>1. Cell(funds, FundAccounts, ModeOf, useMargin, f, x)
    BY <1>1, <1>3, <1>u DEF Sound
  <2>4. spt \in Int /\ mar \in Int
    BY <1>1, <1>3, <1>u DEF RawFunds, Tables
  <2>5. x = USDC => mar >= 0
    BY <1>1, <1>u DEF Solvent
  <2> QED BY <1>u, <2>1, <2>4, <2>5 DEF Cell
<1> HIDE DEF spt, mar
<1>8. Liquid(funds, ModeOf, f, x) = IF Mode(f) = Simple THEN spt ELSE spt + mar
  BY <1>u DEF Liquid, spt, mar
<1>9. p \in Int /\ Moved(funds, paid, FundAccounts, f, x, p, e - p, s)
  <2> HIDE DEF paid, e, x, f
  <2> QED BY <1>1, <1>3, <1>u, <1>4, <1>5, SpotSplittable, DeltaMoves
<1>10. /\ Mode(f) = Simple => p = 0
       /\ Mode(f) = Unified /\ ~UsedAsMargin(f, x) => p = 0
       /\ Mode(f) = Unified /\ UsedAsMargin(f, x) =>
             p = IF e > 0 THEN InflowPart(funds, f, x, e) ELSE OutflowPart(funds, f, x, e)
  <2>1. Spot \in Products /\ Spot # Perps
    BY DEF Spot, Perps, Products
  <2> HIDE DEF e, x, f
  <2> QED BY <1>1, <1>3, <1>u, <1>4, <2>1, MarginPartIs
<1>11. OutflowPart(funds, f, x, e) = -Positive(d - spt)
  <2>1. OutflowPart(funds, f, x, e) = -Positive(-e - spt)
    BY DEF OutflowPart, spt
  <2>2. -e = d
    BY <1>4
  <2> QED BY <2>1, <2>2
<1> HIDE DEF p, d
<1>12. e = -d /\ ~(e > 0)
  BY <1>4
<1> HIDE DEF e
<1>13. mar + p >= 0 /\ spt + (e - p) >= 0
  <2>2. CASE Mode(f) = Simple
    BY <1>4, <1>6, <1>7, <1>8, <1>10, <1>12, <2>2
  <2>3. CASE Mode(f) = Unified
    <3>1. Mode(f) # Simple
      BY <2>3 DEF Simple, Unified
    <3>2. d <= spt + mar
      BY <1>6, <1>8, <2>3, <3>1
    <3>3. CASE ~UsedAsMargin(f, x)
      <4>1. p = 0
        BY <1>10, <2>3, <3>3
      <4>2. mar = 0
        BY <1>7, <2>3, <3>3 DEF UsedAsMargin
      <4> QED BY <1>4, <1>7, <1>12, <3>2, <4>1, <4>2
    <3>4. CASE UsedAsMargin(f, x)
      <4>1. p = -Positive(d - spt)
        BY <1>10, <1>11, <1>12, <2>3, <3>4
      <4> QED BY <1>4, <1>7, <1>12, <3>2, <4>1 DEF Positive
    <3> QED BY <3>3, <3>4
  <2> QED BY <1>u, <2>2, <2>3
<1>14. paid.spot[f][x] >= 0 /\ paid.margin[f][x] >= 0
  BY <1>9, <1>13 DEF Moved, spt, mar
<1>15. PICK q \in Int : Credited(funds, paid, f, x, Spot, e, q, s)
  <2> HIDE DEF paid, x, f
  <2> QED BY <1>1, <1>3, <1>u, <1>4, <1>5, <1>14, SpotCredits
<1>16. Sound(paid, FundAccounts, ModeOf, useMargin) /\ paid \in RawFunds
  BY <1>15 DEF Credited, Moved
<1>17. PICK r \in Int : Credited(paid, G, i.to, x, Spot, d, r, s)
  <2> HIDE DEF paid, x, G
  <2> QED BY <1>1, <1>3, <1>4, <1>5, <1>16, SpotCredits
<1>18. Sound(G, FundAccounts, ModeOf, useMargin)
  BY <1>17 DEF Credited
<1>19. TransferPossible(i, s)
  <2>1. Exists(f) /\ Exists(i.to)
    <3>1. Exists(i.to)
      BY <1>3 DEF Books, AccountsOK
    <3>2. Exists(f)
      BY <1>u DEF IsUser, Exists
    <3> QED BY <3>1, <3>2
  <2>2. Splittable(f, x, Spot) /\ Splittable(i.to, x, Spot)
    BY SpotSplittable
  <2>3. ASSUME NEW z \in Account PROVE Valid(G, z, x)
    <3>1. Cell(G, FundAccounts, ModeOf, useMargin, z, x)
      BY <1>3, <1>18 DEF Sound
    <3>2. G.supplied[x] >= 0
      <4>1. FundAccounts \subseteq Account /\ x \in Asset
        BY <1>3, Constants
      <4> HIDE DEF G, x
      <4>2. G.supplied[x] \in Nat
        BY <1>18, <4>1, SuppliedNat
      <4> QED BY <4>2
    <3> QED BY <3>1, <3>2 DEF Cell, Valid
  <2> QED BY <1>3, <1>u, <2>1, <2>2, <2>3 DEF TransferPossible
<1>20. Solvent(paid)
  <2> HIDE DEF paid, x, f
  <2>2. (x = USDC /\ q < 0) => paid.margin[f][USDC] >= 0
    BY <1>14
  <2> QED BY <1>1, <1>3, <1>u, <1>4, <1>15, <2>2, SolventCredited
<1>21. Solvent(G)
  <2> HIDE DEF paid, x, G
  <2> QED BY <1>3, <1>4, <1>16, <1>17, <1>20, SolventPaid
<1>23. ASSUME NEW z \in Asset PROVE Owed(T, z) <= Liquid(G, ModeOf, f, z)
  <2> DEFINE L(F) == Liquid(F, ModeOf, f, z)
  <2>1. L(funds) \in Int /\ L(paid) = L(funds) + (IF z = x THEN e ELSE 0)
    <3> HIDE DEF paid, x, f
    <3>1. /\ L(funds) \in Int
          /\ L(paid) = L(funds) + (IF f = f /\ z = x THEN e ELSE 0)
      BY <1>1, <1>3, <1>u, <1>4, <1>15, LiquidCredited
    <3> QED BY <3>1
  <2>2. L(G) = L(paid)
    <3> HIDE DEF paid, x, G, f
    <3>1. /\ L(paid) \in Int
          /\ L(G) = L(paid) + (IF i.to = f /\ z = x THEN d ELSE 0)
      BY <1>3, <1>4, <1>16, <1>17, LiquidCredited
    <3> QED BY <1>3, <3>1
  <2>3. Amount(i, z) = IF z = x THEN d ELSE 0
    BY DEF Amount, d
  <2>4. Owed(transfers, z) <= L(funds) /\ Owed(transfers, z) \in Nat
    BY <1>2, <1>o, OwedTyped
  <2>5. Owed(T, z) = Owed(transfers, z) - Amount(i, z)
    BY <1>t
  <2>6. Owed(T, z) <= L(G)
    <3> HIDE DEF paid, G, T, x, L, f
    <3> QED BY <1>4, <1>12, <2>1, <2>2, <2>3, <2>4, <2>5
  <2> QED BY <2>6
<1>24. Covered(G, ModeOf, T)
  BY <1>3, <1>t, <1>23 DEF Covered
<1> QED BY <1>19, <1>21, <1>24

\* One that trades pays what it can, and nobody else is in debt for it.
LEMMA TraderPays ==
    ASSUME Books, Solvent(funds), Covered(funds, ModeOf, transfers),
           NEW s \in Strategy, InternalTransfer(s), NEW i, i = Head(transfers),
           i.from \in Traders
    PROVE  Solvent(funds') /\ Covered(funds', ModeOf, transfers')
<1> DEFINE d == i.units * Mult[i.asset]
           e == -d
<1>1. /\ i \in Instructions /\ i.side = Spot /\ i.from \in Account /\ i.to \in Account
      /\ i.to # i.from /\ i.asset \in Asset /\ i.units \in Nat
      /\ \E paid, m, k : /\ Credited(funds, paid, i.from, i.asset, Spot, e, m, s)
                         /\ Credited(paid, funds', i.to, i.asset, Spot, d, k, s)
  BY InternalTransferEffect
<1>2. PICK paid, m, k : /\ Credited(funds, paid, i.from, i.asset, Spot, e, m, s)
                        /\ Credited(paid, funds', i.to, i.asset, Spot, d, k, s)
  BY <1>1
<1>3. d \in Int /\ d >= 0 /\ e \in Int
  <2> DEFINE n == i.units
             y == i.asset
  <2>1. n \in Int /\ n >= 0 /\ y \in Asset
    BY <1>1
  <2> HIDE DEF n, y
  <2>2. n * Mult[y] \in Int /\ n * Mult[y] >= 0 /\ -(n * Mult[y]) \in Int
    BY <2>1, UnitsExtended
  <2> QED BY <2>2 DEF n, y
<1>4. funds \in RawFunds
  BY BooksTyped
<1> HIDE DEF d, e
<1>5. Solvent(paid) /\ paid \in RawFunds
  BY <1>1, <1>2, <1>3, <1>4, SolventPaid
<1>6. Solvent(funds')
  BY <1>1, <1>2, <1>3, <1>5, SolventPaid
<1>7. transfers # << >> /\ transfers' = Tail(transfers)
  BY DEF InternalTransfer, NoInstruction
<1>8. PaidBy(transfers', i.from) /\ Len(transfers') <= 2
  BY <1>7, TailOwed
<1>9. i.from \in UserAccounts
  BY <1>1 DEF Instructions
<1> QED BY <1>6, <1>8, <1>9 DEF Covered

\* Nobody without orders is in debt, and who owes integrators has what it owes.
Debts ==
    /\ Solvent(funds)
    /\ LocksTyped
    /\ Covered(funds, ModeOf, transfers)

\* The accounts stay what they are.
LEMMA CoveredSame ==
    ASSUME UNCHANGED account, Covered(funds', ModeOf, transfers')
    PROVE  Covered(funds, ModeOf, transfers)'
<1>1. UserAccounts' = UserAccounts
  BY DEF UserAccounts, IsUser
<1>2. ModeOf' = ModeOf
  BY DEF ModeOf, Mode, Exists
<1> QED BY <1>1, <1>2 DEF Covered, Liquid

\* Without instructions there is nothing else to show.
LEMMA DebtsKept ==
    ASSUME Books', Solvent(funds'), LocksTyped', transfers' = << >>
    PROVE  Debts'
<1> DEFINE F == funds'
           K == FundAccounts'
           mode == ModeOf'
           used == useMargin'
<1>1. Sound(F, K, mode, used) /\ Solvent(F)
  BY DEF Books, Placed
<1>2. Treasury \in UserAccounts' /\ Treasury \in Account
  BY Constants DEF Books, AccountsOK
<1>3. ASSUME Treasury \notin Traders, NEW x \in Asset PROVE Liquid(F, mode, Treasury, x) >= 0
  <2> HIDE DEF F, K, mode, used
  <2>1. Liquid(F, mode, Treasury, x) \in Nat
    BY <1>1, <1>2, <1>3, LiquidNat
  <2> QED BY <2>1
<1>4. ASSUME Treasury \notin Traders, NEW x \in Asset
      PROVE  Owed(transfers', x) <= Liquid(F, mode, Treasury, x)
  <2>1. Owed(transfers', x) = 0
    BY DEF Owed
  <2> HIDE DEF F, mode
  <2> QED BY <1>3, <1>4, <2>1
<1>5. Len(transfers') <= 2 /\ PaidBy(transfers', Treasury)
  BY DEF PaidBy
<1>6. \E f \in UserAccounts' :
          /\ PaidBy(transfers', f)
          /\ f \notin Traders => \A x \in Asset : Owed(transfers', x) <= Liquid(F, mode, f, x)
  BY <1>2, <1>4, <1>5
<1>7. Covered(funds, ModeOf, transfers)'
  BY <1>5, <1>6 DEF Covered
<1> QED BY <1>7 DEF Debts

\* The instances start without debts.
LEMMA DebtsInit == Init /\ Books => Debts
<1> SUFFICES ASSUME NEW start \in Genesis, FundsInit(start), Books PROVE Debts
  BY DEF Init
<1>1. /\ funds = start.funds /\ locked = NoFunds /\ transfers = << >>
  BY DEF FundsInit
<1>2. funds \in [spot       : [Account -> [Asset -> Nat]],
                 margin     : [Account -> [Asset -> Nat]],
                 supplied   : [Asset -> Nat],
                 allocated  : [Account -> Nat],
                 strategies : [Account -> [Strategy -> Nat]],
                 unlocks    : [Account -> Seq([amount : Nat, at : Nat])]]
  BY <1>1, GenesisAssumption DEF OpeningTyped
<1>3. Solvent(funds)
  <2>1. USDC \in Asset
    BY Constants
  <2> QED BY <1>2, <2>1 DEF Solvent
<1>4. LocksTyped
  <2>1. MaxLock \in Nat
    BY FundTransactionsAssumption
  <2> QED BY <1>1, <2>1 DEF LocksTyped, NoFunds
<1>5. Covered(funds, ModeOf, << >>)
  BY <1>3, NothingOwed DEF Books, Placed
<1> QED BY <1>1, <1>3, <1>4, <1>5 DEF Debts

\* The fund transactions leave no debts.
LEMMA FundsLeaveNoDebts == Books /\ Books' /\ Debts /\ FundSteps => Debts'
<1> SUFFICES ASSUME Books, Books', Debts, FundSteps PROVE Debts'
  OBVIOUS
<1>0. /\ USDC \in Asset /\ Default \in Strategy
      /\ Solvent(funds) /\ LocksTyped /\ funds \in RawFunds
      /\ Covered(funds, ModeOf, transfers)
  BY Constants, BooksTyped DEF Debts
<1>c. ASSUME UNCHANGED locked PROVE LocksTyped'
  BY <1>0, <1>c DEF LocksTyped
<1>d. ASSUME UNCHANGED <<locked, transfers>>, NoInstruction, Solvent(funds')
      PROVE  Debts'
  BY <1>c, <1>d, DebtsKept DEF NoInstruction
<1>1. ASSUME NEW a \in Account, NEW x \in Asset, NEW n \in Nat, NEW side \in Products,
             L1Deposit(a, x, n, side)
      PROVE  Debts'
  <2>1. PICK m \in Int : Credited(funds, funds', a, x, side, n * Mult[x], m, Default)
    BY <1>1, DepositEffect
  <2>2. n * Mult[x] \in Int /\ n * Mult[x] >= 0
    BY UnitsExtended
  <2>3. Solvent(funds')
    <3> DEFINE d == n * Mult[x]
    <3>1. d \in Int /\ d >= 0 /\ Credited(funds, funds', a, x, side, d, m, Default)
      BY <2>1, <2>2
    <3> HIDE DEF d
    <3> QED BY <1>0, <3>1, SolventPaid
  <2>4. UNCHANGED <<locked, transfers>> /\ NoInstruction
    BY <1>1 DEF L1Deposit, Start
  <2> QED BY <1>d, <2>3, <2>4
<1>2. ASSUME NEW a \in Account, NEW x \in Asset, NEW n \in Units, NEW side \in Products,
             L1Withdraw(a, x, n, side) \/ L2Withdraw(a, x, n, side)
      PROVE  Debts'
  <2>1. Solvent(funds')
    BY <1>0, <1>2, WithdrawSolvent
  <2>2. UNCHANGED <<account, locked, transfers>> /\ NoInstruction
    BY <1>2 DEF L1Withdraw, L2Withdraw, Withdraw, Start
  <2> QED BY <1>d, <2>1, <2>2
<1>3. ASSUME NEW a \in Account, NEW mode \in {Simple, Unified}, L2UpdateAccountConfig(a, mode)
      PROVE  Debts'
  <2>1. UNCHANGED <<locked, transfers>> /\ transfers = << >>
    BY <1>3 DEF L2UpdateAccountConfig, Start, NoInstruction
  <2>2. /\ account' = [account EXCEPT ![a].mode = mode] /\ IsUser(a)
        /\ funds' = IF mode = Simple THEN funds
                    ELSE [funds EXCEPT !.margin[a][USDC] = @ + funds.spot[a][USDC],
                                       !.spot[a][USDC] = 0]
    BY <1>3 DEF L2UpdateAccountConfig
  <2>3. Solvent(funds')
    <3>1. CASE mode = Simple
      BY <1>0, <2>2, <3>1
    <3>2. CASE mode # Simple
      <4>1. funds' = [funds EXCEPT !.margin[a][USDC] = @ + funds.spot[a][USDC],
                                   !.spot[a][USDC] = 0]
        BY <2>2, <3>2
      <4>2. funds.margin \in [Account -> [Asset -> Int]] /\ funds.spot[a][USDC] \in Int
        BY <1>0 DEF RawFunds, Tables
      <4>3. funds.spot[a][USDC] >= 0
        BY <1>0 DEF Books, Placed, Sound, Cell
      <4>4. /\ funds'.margin[a][USDC] = funds.margin[a][USDC] + funds.spot[a][USDC]
            /\ \A b \in Account : b # a => funds'.margin[b][USDC] = funds.margin[b][USDC]
        BY <1>0, <4>1, <4>2 DEF RawFunds
      <4>5. \A b \in Account : funds.margin[b][USDC] \in Int
        BY <1>0, <4>2
      <4>6. \A b \in Account \ Traders : funds'.margin[b][USDC] >= 0
        BY <1>0, <4>2, <4>3, <4>4, <4>5 DEF Solvent
      <4> QED BY <4>6 DEF Solvent
    <3> QED BY <3>1, <3>2
  <2> QED BY <1>c, <2>1, <2>3, DebtsKept
<1>4. ASSUME NEW a \in Account, NEW x \in Asset, NEW enable \in BOOLEAN,
             L2UpdateAccountAssetConfig(a, x, enable)
      PROVE  Debts'
  <2>1. PICK m \in Int : Moved(funds, funds', FundAccounts, a, x, m, -m, Default)
    BY <1>4, ReassignEffect
  <2>2. UNCHANGED <<account, locked, transfers>> /\ NoInstruction /\ x # USDC
    BY <1>4 DEF L2UpdateAccountAssetConfig, Start
  <2>3. Solvent(funds')
    <3> DEFINE r == -m
    <3>1. Moved(funds, funds', FundAccounts, a, x, m, r, Default)
      BY <2>1
    <3> HIDE DEF r
    <3> QED BY <1>0, <2>2, <3>1, SolventMoved
  <2> QED BY <1>d, <2>2, <2>3
<1>5. ASSUME NEW a \in Account, NEW n \in Units, NEW adding \in BOOLEAN,
             L2UpdateMargin(a, n, adding)
      PROVE  Debts'
  <2>1. Solvent(funds')
    BY <1>0, <1>5, MarginSolvent
  <2>2. UNCHANGED <<account, locked, transfers>> /\ NoInstruction
    BY <1>5 DEF L2UpdateMargin, Start
  <2> QED BY <1>d, <2>1, <2>2
<1>6. ASSUME NEW a \in Account, NEW s \in Strategy, NEW t \in Strategy, NEW n \in Units,
             L2StrategyTransfer(a, s, t, n)
      PROVE  Debts'
  <2>1. Solvent(funds')
    <3>1. funds'.margin = funds.margin
      BY <1>0, <1>6 DEF L2StrategyTransfer, RawFunds
    <3> QED BY <1>0, <3>1 DEF Solvent
  <2>2. UNCHANGED <<account, locked, transfers>> /\ NoInstruction
    BY <1>6 DEF L2StrategyTransfer, Start
  <2> QED BY <1>d, <2>1, <2>2
<1>7. ASSUME NEW a \in Account, NEW x \in Asset, NEW n \in 0..MaxLock, LockBalance(a, x, n)
      PROVE  Debts'
  <2>1. /\ UNCHANGED <<account, transfers, funds>> /\ transfers = << >>
        /\ locked' = [locked EXCEPT ![a][x] = n]
    BY <1>7 DEF LockBalance, Start, NoInstruction
  <2>2. LocksTyped'
    BY <1>0, <2>1 DEF LocksTyped
  <2> QED BY <1>0, <2>1, <2>2, DebtsKept
<1>8. ASSUME NEW a \in Account, NEW b \in Account, NEW x \in Asset, NEW n \in Units,
             NEW fee \in Fees, NEW from \in Products, NEW to \in Products, NEW s \in Strategy,
             L2Transfer(a, b, x, n, fee, from, to, s)
      PROVE  Debts'
  <2>1. Solvent(funds')
    BY <1>0, <1>8, TransferSolvent
  <2>2. UNCHANGED <<account, locked, transfers>> /\ NoInstruction
    BY <1>8 DEF L2Transfer, Start
  <2> QED BY <1>d, <2>1, <2>2
<1>9. ASSUME NEW a \in Traders, NEW b \in Traders, NEW t \in Trades, NEW c \in Integrators,
             NEW takerSells \in BOOLEAN, SpotTrade(a, b, t, c, takerSells)
      PROVE  Debts'
  <2>1. Solvent(funds') /\ Covered(funds', ModeOf, transfers')
    BY <1>0, <1>9, SpotTradeSolvent
  <2>2. UNCHANGED <<account, locked>>
    BY <1>9 DEF SpotTrade
  <2>3. Covered(funds, ModeOf, transfers)'
    BY <2>1, <2>2, CoveredSame
  <2> QED BY <1>c, <2>1, <2>2, <2>3 DEF Debts
<1>10. ASSUME NEW s \in Strategy, InternalTransfer(s) PROVE Debts'
  <2> DEFINE i == Head(transfers)
  <2>1. /\ funds' = FeeReceived(i, s) /\ transfers # << >>
        /\ transfers' = Tail(transfers) /\ UNCHANGED <<account, locked>>
    BY <1>10 DEF InternalTransfer, NoInstruction
  <2>2. Solvent(funds') /\ Covered(funds', ModeOf, transfers')
    <3>1. CASE i.from \in Traders
      <4> HIDE DEF i
      <4>1. i = Head(transfers)
        BY DEF i
      <4> QED BY <1>0, <1>10, <3>1, <4>1, TraderPays
    <3>2. CASE i.from \notin Traders
      <4>1. i = Head(transfers)
        OBVIOUS
      <4> HIDE DEF i
      <4>2. Solvent(FeeReceived(i, s)) /\ Covered(FeeReceived(i, s), ModeOf, Tail(transfers))
        BY <1>0, <2>1, <3>2, <4>1, PaymentSolvent
      <4> QED BY <2>1, <4>2
    <3> QED BY <3>1, <3>2
  <2>3. Covered(funds, ModeOf, transfers)'
    BY <2>1, <2>2, CoveredSame
  <2> QED BY <1>c, <2>1, <2>2, <2>3 DEF Debts
<1>11. \A n \in {0} \union Units : n \in Nat
  BY Constants
<1>12. CASE Deposits
  BY <1>1, <1>11, <1>12 DEF Deposits
<1>13. CASE Withdrawals
  BY <1>2, <1>13 DEF Withdrawals
<1>14. CASE Modes
  BY <1>3, <1>14 DEF Modes
<1>15. CASE Settings
  BY <1>4, <1>5, <1>6, <1>15 DEF Settings
<1>16. CASE Orders
  BY <1>7, <1>16, Constants DEF Orders
<1>17. CASE Transfers
  BY <1>0, <1>8, <1>17 DEF Transfers
<1>18. CASE Fills
  BY <1>9, <1>18 DEF Fills
<1>19. CASE Payments
  BY <1>10, <1>19 DEF Payments
<1> QED BY <1>12, <1>13, <1>14, <1>15, <1>16, <1>17, <1>18, <1>19 DEF FundSteps

\* Nor does what happens on the slot.
LEMMA DebtsNext ==
    ASSUME SlotInv(slot, options), Books, Books', Debts, [Next]_<<fundVars, optionVars>>
    PROVE  Debts'
<1>0. /\ USDC \in Asset /\ Default \in Strategy
      /\ Solvent(funds) /\ LocksTyped /\ funds \in RawFunds
  BY Constants, BooksTyped DEF Debts
<1>c. ASSUME UNCHANGED locked PROVE LocksTyped'
  BY <1>0, <1>c DEF LocksTyped
<1>1. CASE FundSteps
  BY <1>1, FundsLeaveNoDebts
<1>2. CASE UNCHANGED fundVars
  <2>1. UNCHANGED <<account, locked, transfers, funds>>
    BY <1>2 DEF fundVars
  <2>2. Covered(funds', ModeOf, transfers')
    BY <2>1 DEF Debts
  <2>3. Covered(funds, ModeOf, transfers)'
    BY <2>1, <2>2, CoveredSame
  <2> QED BY <1>0, <1>c, <2>1, <2>3 DEF Debts
<1>3. ASSUME NEW a \in Account, SettlePosition(a) PROVE Debts'
  <2>1. UNCHANGED <<account, locked, transfers>> /\ transfers = << >>
    BY <1>3 DEF SettlePosition, Start, NoInstruction
  <2> DEFINE d == Tick * Payout(options[a], slot.price)
  <2>2. /\ d \in Int /\ d >= 0
        /\ \E m \in Int : Credited(funds, funds', a, USDC, Spot, d, m, Default)
    BY <1>3, PayoutEffect
  <2> HIDE DEF d
  <2>3. PICK m \in Int : Credited(funds, funds', a, USDC, Spot, d, m, Default)
    BY <2>2
  <2>4. Solvent(funds')
    BY <1>0, <2>2, <2>3, SolventPaid
  <2> QED BY <1>c, <2>1, <2>4, DebtsKept
<1>4. ASSUME NEW a \in Traders, NEW b \in Traders, NEW deal \in Deals, NEW c \in Integrators,
             NEW takerSells \in BOOLEAN, NEW filled \in BOOLEAN,
             Trade(a, b, deal, c, takerSells, filled)
      PROVE  Debts'
  <2>1. Solvent(funds') /\ Covered(funds', ModeOf, transfers')
    BY <1>0, <1>4, OutcomeTradeSolvent
  <2>2. UNCHANGED <<account, locked>>
    BY <1>4 DEF Trade
  <2>3. Covered(funds, ModeOf, transfers)'
    BY <2>1, <2>2, CoveredSame
  <2> QED BY <1>c, <2>1, <2>2, <2>3 DEF Debts
<1>5. CASE Operate
  BY <1>2, <1>5 DEF Operate, UpdateMarketSlot, CreateMarket, UpdateMarket, SettleOutcome
<1>6. CASE Bets
  BY <1>2, <1>3, <1>4, <1>6 DEF Bets, RestOrder, CancelOrder
<1> QED BY <1>1, <1>2, <1>5, <1>6 DEF Next, fundVars

\* Whatever the collector of a fee and the integrator did with their modes, their margin
\* settings and their balances before the fill, the instruction on top of the stack can be
\* carried out: where the collector has no orders of its own, the stack never holds one that
\* keeps everything else from running.
THEOREM PaymentsStayPossible == Spec => []PaymentsPossible
<1>1. Init => OptionsInv /\ Books /\ Debts
  BY OptionsInit, BooksInit, DebtsInit
<1>2. OptionsInv /\ Books /\ Debts /\ [Next]_<<fundVars, optionVars>> => (OptionsInv /\ Books /\ Debts)'
  <2> SUFFICES ASSUME OptionsInv, Books, Debts, [Next]_<<fundVars, optionVars>>
               PROVE  OptionsInv' /\ Books' /\ Debts'
    OBVIOUS
  <2>1. OptionsInv'
    BY OptionsNext
  <2>2. SlotInv(slot, options)
    BY DEF OptionsInv
  <2>3. Books'
    BY <2>2, BooksNext
  <2> QED BY <2>1, <2>2, <2>3, DebtsNext
<1>3. OptionsInv /\ Books /\ Debts => PaymentsPossible
  <2> SUFFICES ASSUME Books, Debts, transfers # << >>, Head(transfers).from \notin Traders,
                      NEW s \in Strategy
               PROVE  TransferPossible(Head(transfers), s)
    BY DEF PaymentsPossible, CanBePaid, NoInstruction
  <2> QED BY PaymentSolvent DEF Debts
<1> QED BY <1>1, <1>2, <1>3, PTL DEF Spec

-----------------------------------------------------------------------------
(* What is set aside for shares. *)

\* The cap of the NO shares of each account; what its shares are paid at a price.
CapsOf(O) == [a \in Account |-> IF O[a].size < 0 THEN Cap * Magnitude(O[a].size) ELSE 0]
DuesOf(O, price) == [a \in Account |-> Payout(O[a], price)]

\* In quote ticks, what the slot S has of the positions O.
SetAside(S, O) ==
    SumFunctionOnSet(IF S.status = InSettlement THEN DuesOf(O, S.price) ELSE CapsOf(O), Account)

\* What Escrow says, in extended USDC.
LEMMA EscrowIs == Escrow = Tick * SetAside(slot, options)
BY DEF Escrow, SumOver, SetAside, CapsOf, DuesOf

\* Nothing of it is negative.
LEMMA SharesTyped ==
    ASSUME NEW S, NEW O, SlotInv(S, O)
    PROVE  /\ \A a \in Account :
                 /\ O[a].size \in Int
                 /\ CapsOf(O)[a] = Cap * Short(O[a].size) /\ CapsOf(O)[a] \in Nat
                 /\ DuesOf(O, S.price)[a] = Payout(O[a], S.price)
                 /\ DuesOf(O, S.price)[a] \in Nat
                 /\ DuesOf(O, S.price)[a] = CapsOf(O)[a] + S.price * O[a].size
           /\ SetAside(S, O) \in Nat
<1>1. Cap \in Nat /\ IsFiniteSet(Account) /\ S.price \in 0..Cap
  BY BinaryOptionsAssumption, BalancesAssumption DEF SlotInv, Slots
<1>2. ASSUME NEW a \in Account
      PROVE  /\ O[a].size \in Int
             /\ CapsOf(O)[a] = Cap * Short(O[a].size) /\ CapsOf(O)[a] \in Nat
             /\ DuesOf(O, S.price)[a] = Payout(O[a], S.price)
             /\ DuesOf(O, S.price)[a] \in Nat
             /\ DuesOf(O, S.price)[a] = CapsOf(O)[a] + S.price * O[a].size
  <2> DEFINE z == O[a].size
             p == S.price
  <2>1. z \in Int /\ p \in Nat /\ p <= Cap
    BY <1>1, SlotTyped DEF Positions
  <2>2. /\ CapsOf(O)[a] = IF z < 0 THEN Cap * Magnitude(z) ELSE 0
        /\ DuesOf(O, S.price)[a] = Payout(O[a], S.price)
        /\ Payout(O[a], S.price) = Magnitude(z) * (IF z < 0 THEN Cap - p ELSE p)
    BY DEF CapsOf, DuesOf, Payout
  <2> HIDE DEF z, p
  <2>3. CASE z < 0
    <3> DEFINE n == -z
    <3>1. n \in Nat /\ Magnitude(z) = n /\ Short(z) = n /\ z = -n
      BY <2>1, <2>3 DEF Magnitude, Short
    <3> HIDE DEF n
    <3>2. n * (Cap - p) = Cap * n + p * (-n)
      BY <1>1, <2>1, <3>1
    <3>3. n * (Cap - p) \in Nat /\ Cap * n \in Nat
      <4>1. Cap - p \in Nat
        BY <1>1, <2>1
      <4> QED BY <1>1, <3>1, <4>1
    <3>4. /\ CapsOf(O)[a] = Cap * n /\ DuesOf(O, S.price)[a] = n * (Cap - p)
          /\ Short(z) = n /\ z = -n
      BY <2>2, <2>3, <3>1
    <3> QED BY <2>1, <2>2, <3>2, <3>3, <3>4 DEF z, p
  <2>4. CASE ~(z < 0)
    <3>1. z \in Nat /\ Magnitude(z) = z /\ Short(z) = 0
      BY <2>1, <2>4 DEF Magnitude, Short
    <3>2. z * p \in Nat /\ p * z = z * p /\ Cap * 0 = 0
      BY <1>1, <2>1, <3>1
    <3>3. CapsOf(O)[a] = 0 /\ DuesOf(O, S.price)[a] = z * p /\ Short(z) = 0
      BY <2>2, <2>4, <3>1
    <3> QED BY <2>1, <2>2, <3>2, <3>3 DEF z, p
  <2> QED BY <2>3, <2>4
<1>3. SetAside(S, O) \in Nat
  <2>1. CASE S.status = InSettlement
    <3> DEFINE f == DuesOf(O, S.price)
    <3>1. \A a \in Account : f[a] \in Nat
      BY <1>2
    <3> HIDE DEF f
    <3>2. SumFunctionOnSet(f, Account) \in Nat
      BY <1>1, <3>1, SumNat
    <3> QED BY <2>1, <3>2 DEF SetAside, f
  <2>2. CASE S.status # InSettlement
    <3>1. SumFunctionOnSet(CapsOf(O), Account) \in Nat
      BY <1>1, <1>2, SumNat
    <3> QED BY <2>2, <3>1 DEF SetAside
  <2> QED BY <2>1, <2>2
<1> QED BY <1>2, <1>3

\* Nothing is set aside on a slot that waits for nothing.
LEMMA NothingSetAside ==
    ASSUME NEW S, NEW O, SlotInv(S, O), \A a \in Account : O[a].size = 0
    PROVE  SetAside(S, O) = 0
<1>1. Cap \in Nat /\ IsFiniteSet(Account) /\ S.price \in Int
  BY BinaryOptionsAssumption, BalancesAssumption DEF SlotInv, Slots
<1>2. \A a \in Account : CapsOf(O)[a] = 0
  BY DEF CapsOf
<1>3. \A a \in Account : DuesOf(O, S.price)[a] = 0
  BY <1>1 DEF DuesOf, Payout, Magnitude
<1>4. SumFunctionOnSet(CapsOf(O), Account) = 0
  BY <1>1, <1>2, SumZeros
<1>5. SumFunctionOnSet(DuesOf(O, S.price), Account) = 0
  BY <1>1, <1>3, SumZeros
<1> QED BY <1>4, <1>5 DEF SetAside

\* What changes no shares sets nothing aside, as long as the slot stays as it is or turns
\* out to wait for nothing.
LEMMA AsideKept ==
    ASSUME NEW S, NEW O, SlotInv(S, O), NEW T, NEW N, SlotInv(T, N),
           \A a \in Account : N[a].size = O[a].size,
           \/ T.status = S.status /\ T.price = S.price
           \/ T.orders = 0 /\ T.openInterest = 0
           \/ S.orders = 0 /\ S.openInterest = 0
    PROVE  SetAside(T, N) = SetAside(S, O)
<1>1. CASE T.status = S.status /\ T.price = S.price
  <2>1. CapsOf(N) = CapsOf(O)
    BY DEF CapsOf
  <2>2. DuesOf(N, T.price) = DuesOf(O, S.price)
    BY <1>1 DEF DuesOf, Payout
  <2> QED BY <1>1, <2>1, <2>2 DEF SetAside
<1>2. CASE (T.orders = 0 /\ T.openInterest = 0) \/ (S.orders = 0 /\ S.openInterest = 0)
  <2>1. (\A a \in Account : N[a] = EmptyPosition(NilMarket))
            \/ (\A a \in Account : O[a] = EmptyPosition(NilMarket))
    BY <1>2, Drained
  <2>2. EmptyPosition(NilMarket).size = 0
    BY DEF EmptyPosition
  <2>3. \A a \in Account : N[a].size = 0 /\ O[a].size = 0
    BY <2>1, <2>2
  <2>4. SetAside(T, N) = 0
    BY <2>3, NothingSetAside
  <2>5. SetAside(S, O) = 0
    BY <2>3, NothingSetAside
  <2> QED BY <2>4, <2>5
<1> QED BY <1>1, <1>2

\* At whatever price the market settles, the payouts are what was set aside: there are as
\* many YES shares as NO shares.
LEMMA AsideSettled ==
    ASSUME NEW S, NEW O, SlotInv(S, O), S.status # InSettlement,
           NEW T, SlotInv(T, O), T.status = InSettlement
    PROVE  SetAside(T, O) = SetAside(S, O)
<1> DEFINE f == CapsOf(O)
           g == [a \in Account |-> T.price * NetOf(O)[a]]
           h == DuesOf(O, T.price)
<1>1. IsFiniteSet(Account) /\ T.price \in Int
  BY BalancesAssumption DEF SlotInv, Slots
<1>2. \A a \in Account : NetOf(O)[a] \in Int /\ NetOf(O)[a] = O[a].size
  BY SlotTyped
<1>3. \A a \in Account : f[a] \in Int /\ h[a] = f[a] + T.price * O[a].size
  BY SharesTyped
<1>4. \A a \in Account : g[a] \in Int /\ g[a] = T.price * NetOf(O)[a]
  BY <1>1, <1>2
<1>5. SumFunctionOnSet(g, Account) = 0
  <2>1. SumFunctionOnSet(NetOf(O), Account) = 0
    BY DEF SlotInv
  <2> HIDE DEF g
  <2>2. SumFunctionOnSet(g, Account) = T.price * SumFunctionOnSet(NetOf(O), Account)
    BY <1>1, <1>2, <1>4, SumOfMultiples
  <2> QED BY <1>1, <2>1, <2>2
<1>6. \A a \in Account : f[a] \in Int /\ g[a] \in Int /\ h[a] = f[a] + g[a]
  BY <1>2, <1>3, <1>4
<1> HIDE DEF f, g, h
<1>7. SumFunctionOnSet(h, Account) = SumFunctionOnSet(f, Account) + SumFunctionOnSet(g, Account)
  BY <1>1, <1>6, SumOfTwo
<1>8. SumFunctionOnSet(f, Account) \in Int
  BY <1>1, <1>6, SumInt
<1>9. SumFunctionOnSet(h, Account) = SumFunctionOnSet(f, Account)
  BY <1>5, <1>7, <1>8
<1> QED BY <1>9 DEF SetAside, f, h

\* A fill sets aside the cap of the NO shares the seller opens, and gives back that of those
\* the buyer closes.
LEMMA AsideTraded ==
    ASSUME SlotInv(slot, options), NEW a \in Account, NEW b \in Account, NEW deal \in Deals,
           NEW c, NEW takerSells \in BOOLEAN, NEW filled \in BOOLEAN,
           Trade(a, b, deal, c, takerSells, filled)
    PROVE  /\ SlotInv(slot', options')
           /\ Bought(a, deal).close \in Nat /\ Sold(b, deal).open \in Nat
           /\ SetAside(slot', options') = SetAside(slot, options)
                                             + Cap * (Sold(b, deal).open - Bought(a, deal).close)
<1>1. /\ SlotInv(slot', options') /\ slot'.status = slot.status
      /\ \E q, r : Exchanged(a, b, deal, q, r)
  BY TradeSteps
<1>2. slot.status # InSettlement /\ a # b
  BY DEF Trade, Active, InSettlement
<1>3. PICK q, r : Exchanged(a, b, deal, q, r)
  BY <1>1
<1> DEFINE f == CapsOf(options)
           g == CapsOf(options')
           x == Bought(a, deal).close
           y == Sold(b, deal).open
<1>4. x \in Nat /\ y \in Nat /\ Cap \in Nat /\ IsFiniteSet(Account)
  BY <1>3, BinaryOptionsAssumption, BalancesAssumption DEF Exchanged
<1>5. options \in [Account -> Positions]
  BY DEF SlotInv
<1>6. /\ options'[a] = q /\ options'[b] = r
      /\ \A d \in Account \ {a, b} : options'[d] = options[d]
  BY <1>2, <1>3, <1>5 DEF Exchanged
<1>7. /\ Short(options'[a].size) = Short(options[a].size) - x
      /\ Short(options'[b].size) = Short(options[b].size) + y
  BY <1>3, <1>6 DEF Exchanged
<1>8. \A d \in Account : /\ f[d] = Cap * Short(options[d].size) /\ f[d] \in Nat
                         /\ options[d].size \in Int
  BY SharesTyped
<1>9. \A d \in Account : g[d] = Cap * Short(options'[d].size) /\ g[d] \in Nat
  <2> DEFINE S == slot'
             O == options'
  <2>1. SlotInv(S, O)
    BY <1>1
  <2> HIDE DEF S, O
  <2>2. \A d \in Account : CapsOf(O)[d] = Cap * Short(O[d].size) /\ CapsOf(O)[d] \in Nat
    BY <2>1, SharesTyped
  <2> QED BY <2>2 DEF O
<1>10. \A d \in Account \ {a, b} : g[d] = f[d]
  BY <1>6, <1>8, <1>9
<1> HIDE DEF f, g, x, y
<1>11. Short(options[a].size) \in Int /\ Short(options[b].size) \in Int
  BY <1>8 DEF Short
<1>12. g[a] - f[a] = -(Cap * x) /\ g[b] - f[b] = Cap * y
  <2> DEFINE i == Short(options[a].size)
             j == Short(options[b].size)
  <2>1. f[a] = Cap * i /\ g[a] = Cap * (i - x) /\ f[b] = Cap * j /\ g[b] = Cap * (j + y)
    BY <1>7, <1>8, <1>9
  <2>2. i \in Int /\ j \in Int
    BY <1>11
  <2> HIDE DEF i, j
  <2> QED BY <1>4, <2>1, <2>2
<1>13. SumFunctionOnSet(g, Account)
          = SumFunctionOnSet(f, Account) + (g[a] - f[a]) + (g[b] - f[b])
  <2>1. \A d \in Account : f[d] \in Int /\ g[d] \in Int
    BY <1>8, <1>9
  <2> QED BY <1>2, <1>4, <1>10, <2>1, SumUpdateTwo
<1>14. SumFunctionOnSet(f, Account) \in Int
  BY <1>4, <1>8, SumInt
<1>15. SumFunctionOnSet(g, Account) = SumFunctionOnSet(f, Account) + Cap * (y - x)
  <2>1. Cap * (y - x) = Cap * y - Cap * x /\ Cap * y \in Int /\ Cap * x \in Int
    BY <1>4
  <2> QED BY <1>12, <1>13, <1>14, <2>1
<1>16. /\ SetAside(slot', options') = SumFunctionOnSet(g, Account)
       /\ SetAside(slot, options) = SumFunctionOnSet(f, Account)
  BY <1>1, <1>2 DEF SetAside, f, g
<1> QED BY <1>1, <1>4, <1>15, <1>16 DEF x, y

\* A payout is taken from what is set aside.
LEMMA AsidePaid ==
    ASSUME SlotInv(slot, options), NEW a \in Account, SettlePosition(a)
    PROVE  /\ SlotInv(slot', options')
           /\ SetAside(slot', options')
                 = SetAside(slot, options) - Payout(options[a], slot.price)
<1>1. /\ SlotInv(slot', options')
      /\ \E T, q : /\ SlotInv(T, options') /\ slot' = Release(T) /\ T.price = slot.price
                   /\ T.status = InSettlement /\ q \in Positions /\ q.size = 0
                   /\ options' = [options EXCEPT ![a] = q]
  BY SettleSteps
<1>2. PICK T, q : /\ SlotInv(T, options') /\ slot' = Release(T) /\ T.price = slot.price
                  /\ T.status = InSettlement /\ q \in Positions /\ q.size = 0
                  /\ options' = [options EXCEPT ![a] = q]
  BY <1>1
<1>3. slot.status = InSettlement
  BY DEF SettlePosition
<1>4. SetAside(slot', options') = SetAside(T, options')
  <2>1. CASE slot' = T
    BY <2>1
  <2>2. CASE slot' # T
    <3>1. T.orders = 0 /\ T.openInterest = 0
      BY <1>2, <2>2 DEF Release
    <3> DEFINE O == options'
               S == slot'
    <3>2. SlotInv(T, O) /\ SlotInv(S, O)
      BY <1>1, <1>2
    <3> HIDE DEF O, S
    <3>3. SetAside(S, O) = SetAside(T, O)
      BY <3>1, <3>2, AsideKept
    <3> QED BY <3>3 DEF O, S
  <2> QED BY <2>1, <2>2
<1> DEFINE f == DuesOf(options, slot.price)
           g == DuesOf(options', T.price)
<1>5. /\ options'[a] = q /\ \A d \in Account \ {a} : options'[d] = options[d]
      /\ IsFiniteSet(Account)
  BY <1>2, BalancesAssumption DEF SlotInv
<1>6. \A d \in Account : f[d] \in Nat /\ f[d] = Payout(options[d], slot.price)
  BY SharesTyped
<1>7. \A d \in Account : g[d] \in Nat
  <2> DEFINE O == options'
  <2>1. SlotInv(T, O)
    BY <1>2
  <2> HIDE DEF O
  <2>2. \A d \in Account : DuesOf(O, T.price)[d] \in Nat
    BY <2>1, SharesTyped
  <2> QED BY <2>2 DEF O
<1>8. g[a] = 0
  <2>1. g[a] = Payout(q, slot.price)
    BY <1>2, <1>5 DEF DuesOf
  <2>2. slot.price \in Int /\ Cap \in Int
    BY BinaryOptionsAssumption DEF SlotInv, Slots
  <2> QED BY <1>2, <2>1, <2>2 DEF Payout, Magnitude
<1>9. \A d \in Account \ {a} : g[d] = f[d]
  BY <1>2, <1>5 DEF DuesOf
<1> HIDE DEF f, g
<1>10. SumFunctionOnSet(g, Account) = SumFunctionOnSet(f, Account) + g[a] - f[a]
  <2>1. \A d \in Account : f[d] \in Int /\ g[d] \in Int
    BY <1>6, <1>7
  <2> QED BY <1>5, <1>9, <2>1, SumUpdate
<1>11. SumFunctionOnSet(f, Account) \in Int
  BY <1>5, <1>6, SumInt
<1>12. SumFunctionOnSet(g, Account)
          = SumFunctionOnSet(f, Account) - Payout(options[a], slot.price)
  BY <1>6, <1>8, <1>10, <1>11
<1>13. /\ SetAside(T, options') = SumFunctionOnSet(g, Account)
       /\ SetAside(slot, options) = SumFunctionOnSet(f, Account)
  BY <1>2, <1>3 DEF SetAside, f, g
<1> QED BY <1>1, <1>4, <1>12, <1>13

\* Orders that come to rest and are cancelled, and what the operator of the slot does, set
\* nothing aside and give nothing back.
LEMMA AsideSame ==
    ASSUME SlotInv(slot, options), nextMarket \in Nat \ {0},
           Operate \/ \E a \in Account : RestOrder(a) \/ CancelOrder(a)
    PROVE  SetAside(slot', options') = SetAside(slot, options)
<1> DEFINE S == slot'
           O == options'
<1>1. SlotInv(S, O)
  BY OrderSteps, OperatorSteps
<1>2. options \in [Account -> Positions] /\ slot \in Slots
  BY DEF SlotInv
<1>3. ASSUME NEW a \in Account, RestOrder(a) \/ CancelOrder(a)
      PROVE  SetAside(S, O) = SetAside(slot, options)
  <2>1. PositionOf(a) \in Positions /\ PositionOf(a).size = options[a].size
    BY PositionSeen
  <2>2. \A b \in Account : O[b].size = options[b].size
    <3> DEFINE p == PositionOf(a)
    <3>1. p \in Positions /\ p.size = options[a].size
      BY <2>1
    <3> HIDE DEF p
    <3> DEFINE u == [p EXCEPT !.orders = @ + 1]
               v == [p EXCEPT !.orders = @ - 1]
    <3>2. u.size = p.size /\ v.size = p.size
      BY <3>1 DEF Positions
    <3>3. \/ O = [options EXCEPT ![a] = u]
          \/ O = [options EXCEPT ![a] = Kept(v)]
      BY <1>3 DEF RestOrder, CancelOrder, p
    <3> HIDE DEF u, v, O
    <3>4. Kept(v).size = v.size
      BY DEF Kept, HasNoData, EmptyPosition
    <3> QED BY <1>2, <3>1, <3>2, <3>3, <3>4
  <2>3. \/ S.status = slot.status /\ S.price = slot.price
        \/ S.orders = 0 /\ S.openInterest = 0
    <3> DEFINE T == [slot EXCEPT !.orders = @ + 1]
               U == [slot EXCEPT !.orders = @ - 1]
    <3>1. /\ T.status = slot.status /\ T.price = slot.price
          /\ U.status = slot.status /\ U.price = slot.price
      BY <1>2 DEF Slots
    <3>2. S = T \/ S = Release(U)
      BY <1>3 DEF RestOrder, CancelOrder
    <3> HIDE DEF T, U, S
    <3> QED BY <3>1, <3>2 DEF Release, NoMarket
  <2> HIDE DEF S, O
  <2> QED BY <1>1, <2>2, <2>3, AsideKept
<1>4. CASE Operate
  <2>1. O = options
    BY <1>4 DEF Operate, UpdateMarketSlot, CreateMarket, UpdateMarket, SettleOutcome
  <2>2. \A b \in Account : O[b].size = options[b].size
    BY <2>1
  <2>3. ASSUME NEW a, NEW f, UpdateMarketSlot(a, f)
        PROVE  SetAside(S, O) = SetAside(slot, options)
    <3>1. S.status = slot.status /\ S.price = slot.price
      BY <1>2, <2>3 DEF UpdateMarketSlot, Slots
    <3> HIDE DEF S, O
    <3> QED BY <1>1, <2>2, <3>1, AsideKept
  <2>4. ASSUME NEW discrete, NEW default, NEW frozen, CreateMarket(discrete, default, frozen)
        PROVE  SetAside(S, O) = SetAside(slot, options)
    <3>1. slot.orders = 0 /\ slot.openInterest = 0
      BY <2>4 DEF CreateMarket
    <3> HIDE DEF S, O
    <3> QED BY <1>1, <2>2, <3>1, AsideKept
  <2>5. ASSUME NEW frozen, UpdateMarket(frozen) PROVE SetAside(S, O) = SetAside(slot, options)
    <3>1. S.status = slot.status /\ S.price = slot.price
      BY <1>2, <2>5 DEF UpdateMarket, Slots
    <3> HIDE DEF S, O
    <3> QED BY <1>1, <2>2, <3>1, AsideKept
  <2>6. ASSUME NEW price, NEW refund, SettleOutcome(price, refund)
        PROVE  SetAside(S, O) = SetAside(slot, options)
    <3> DEFINE q == IF refund THEN slot.default ELSE price
               T == [slot EXCEPT !.status = InSettlement, !.price = q]
    <3>1. slot.status # InSettlement /\ S = Release(T)
      BY <2>6 DEF SettleOutcome, Active, InSettlement
    <3>2. T.status = InSettlement
      BY <1>2 DEF Slots
    <3> HIDE DEF T
    <3>3. S = T \/ (S.orders = 0 /\ S.openInterest = 0)
      BY <3>1 DEF Release, NoMarket
    <3>4. CASE S = T
      <4>1. S.status = InSettlement /\ SlotInv(S, options)
        BY <1>1, <2>1, <3>2, <3>4
      <4> HIDE DEF S
      <4>2. SetAside(S, options) = SetAside(slot, options)
        BY <3>1, <4>1, AsideSettled
      <4> QED BY <2>1, <4>2
    <3>5. CASE S.orders = 0 /\ S.openInterest = 0
      <4> HIDE DEF S, O
      <4> QED BY <1>1, <2>2, <3>5, AsideKept
    <3> QED BY <3>3, <3>4, <3>5
  <2> QED BY <1>4, <2>3, <2>4, <2>5, <2>6 DEF Operate
<1> QED BY <1>3, <1>4

-----------------------------------------------------------------------------
(* The books balance. *)

Conserved ==
    /\ custody \in [Asset -> Int]
    /\ \A x \in Asset :
          custody[x] * Mult[x]
              = InAccounts(funds, x) + IF x = USDC THEN Tick * SetAside(slot, options) ELSE 0

\* What accounts have adds up; none of it is negative when nobody is in debt.
LEMMA InAccountsTyped ==
    ASSUME NEW F \in RawFunds, NEW x \in Asset
    PROVE  /\ InAccounts(F, x) \in Int
           /\ x # USDC /\ (\A a \in Account : F.spot[a][x] >= 0 /\ F.margin[a][x] >= 0)
                 => InAccounts(F, x) >= 0
<1> DEFINE spots == [a \in Account |-> F.spot[a][x]]
           margins == [a \in Account |-> F.margin[a][x]]
           unlocking == [a \in Account |-> Unlocking(F, a)]
           isolated == F.allocated
<1>1. IsFiniteSet(Account)
  BY Constants
<1>2. \A a \in Account : /\ spots[a] \in Int /\ spots[a] = F.spot[a][x]
                         /\ margins[a] \in Int /\ margins[a] = F.margin[a][x]
                         /\ isolated[a] \in Int /\ isolated[a] = F.allocated[a]
  BY DEF RawFunds, Tables
<1>3. \A a \in Account : unlocking[a] \in Nat
  BY UnlockingNat
<1>4. InAccounts(F, x) =
          SumFunctionOnSet(spots, Account) + SumFunctionOnSet(margins, Account)
              + (IF x = LIT THEN SumFunctionOnSet(unlocking, Account) ELSE 0)
              + (IF x = USDC THEN SumFunctionOnSet(isolated, Account) ELSE 0)
  BY DEF InAccounts, Total
<1> HIDE DEF spots, margins, unlocking, isolated
<1>5. /\ SumFunctionOnSet(spots, Account) \in Int /\ SumFunctionOnSet(margins, Account) \in Int
      /\ SumFunctionOnSet(isolated, Account) \in Int
  BY <1>1, <1>2, SumInt
<1>6. SumFunctionOnSet(unlocking, Account) \in Nat
  BY <1>1, <1>3, SumNat
<1>7. ASSUME x # USDC, \A a \in Account : F.spot[a][x] >= 0 /\ F.margin[a][x] >= 0
      PROVE  InAccounts(F, x) >= 0
  <2>1. \A a \in Account : spots[a] \in Nat /\ margins[a] \in Nat
    BY <1>2, <1>7
  <2>2. SumFunctionOnSet(spots, Account) \in Nat /\ SumFunctionOnSet(margins, Account) \in Nat
    BY <1>1, <2>1, SumNat
  <2> QED BY <1>4, <1>6, <1>7, <2>2
<1> QED BY <1>4, <1>5, <1>6, <1>7

\* From F to G accounts get d of x and nothing else.
Brings(F, G, x, d) ==
    \A y \in Asset : InAccounts(G, y) = InAccounts(F, y) + (IF y = x THEN d ELSE 0)

\* A part of a transaction brings what it says.
LEMMA CreditedHeld ==
    ASSUME NEW F, NEW G, NEW a, NEW x, NEW side, NEW m, NEW s, NEW d \in Int,
           Credited(F, G, a, x, side, d, m, s), F \in RawFunds, a \in Account, x \in Asset,
           s \in Strategy
    PROVE  G \in RawFunds /\ Brings(F, G, x, d)
<1> DEFINE r == d - m
<1>1. m \in Int /\ r \in Int /\ Moved(F, G, FundAccounts, a, x, m, r, s) /\ r + m = d
  BY DEF Credited
<1> HIDE DEF r
<1>2. ASSUME NEW y \in Asset
      PROVE  InAccounts(G, y) = InAccounts(F, y) + (IF y = x THEN r + m ELSE 0)
  BY <1>1, InAccountsMoved
<1>3. G \in RawFunds
  BY <1>1 DEF Moved
<1> QED BY <1>1, <1>2, <1>3 DEF Brings

\* What neither L1 nor the slot has part in.
LEMMA ConservedWithin ==
    ASSUME Conserved, custody' = custody, UNCHANGED optionVars,
           \A y \in Asset : InAccounts(funds', y) = InAccounts(funds, y)
    PROVE  Conserved'
BY DEF Conserved, optionVars

\* What comes from L1 or goes there is in the accounts or is not any more.
LEMMA ConservedAcross ==
    ASSUME NEW x, NEW n \in Int, SlotInv(slot, options), Books, Conserved, x \in Asset,
           custody' = [custody EXCEPT ![x] = @ + n], UNCHANGED optionVars,
           Brings(funds, funds', x, n * Mult[x])
    PROVE  Conserved'
<1>1. custody \in [Asset -> Int] /\ funds \in RawFunds
  BY BooksTyped DEF Conserved
<1>2. /\ custody' \in [Asset -> Int] /\ custody'[x] = custody[x] + n
      /\ \A y \in Asset : y # x => custody'[y] = custody[y]
  BY <1>1
<1> DEFINE aside(y) == IF y = USDC THEN Tick * SetAside(slot, options) ELSE 0
<1>3. ASSUME NEW y \in Asset
      PROVE  custody'[y] * Mult[y] = InAccounts(funds', y) + aside(y)
  <2>1. custody[y] * Mult[y] = InAccounts(funds, y) + aside(y)
    BY DEF Conserved
  <2>2. /\ Mult[y] \in Int /\ custody[y] \in Int /\ InAccounts(funds, y) \in Int
    BY <1>1, Constants, InAccountsTyped
  <2>3. CASE y = x
    <3>1. custody'[y] * Mult[y] = (custody[y] + n) * Mult[y]
      BY <1>2, <2>3
    <3>2. (custody[y] + n) * Mult[y] = custody[y] * Mult[y] + n * Mult[y]
      BY <2>2
    <3>3. InAccounts(funds', y) = InAccounts(funds, y) + n * Mult[y]
      BY <2>3 DEF Brings
    <3>4. custody[y] * Mult[y] \in Int /\ n * Mult[y] \in Int
      BY <2>2
    <3>5. aside(y) \in Int
      <4>1. SetAside(slot, options) \in Nat /\ Tick \in Nat
        BY SharesTyped, BinaryOptionsAssumption
      <4> QED BY <4>1
    <3> HIDE DEF aside
    <3> QED BY <2>1, <2>2, <3>1, <3>2, <3>3, <3>4, <3>5
  <2>4. CASE y # x
    <3>1. custody'[y] = custody[y] /\ InAccounts(funds', y) = InAccounts(funds, y) + 0
      BY <1>2, <2>4 DEF Brings
    <3> QED BY <2>1, <2>2, <3>1
  <2> QED BY <2>3, <2>4
<1> QED BY <1>2, <1>3 DEF Conserved, optionVars

\* The parts of a transfer add up to nothing.
LEMMA TransferHeld ==
    ASSUME Books, NEW a \in Account, NEW b \in Account, NEW x \in Asset, NEW n \in Units,
           NEW fee \in Fees, NEW from \in Products, NEW to \in Products, NEW s \in Strategy,
           L2Transfer(a, b, x, n, fee, from, to, s), NEW y \in Asset
    PROVE  InAccounts(funds', y) = InAccounts(funds, y)
<1> DEFINE d == n * Mult[x]
           f == fee * Mult[USDC]
           v == -(d + IF x = USDC THEN f ELSE 0)
           w == IF x = USDC THEN 0 ELSE -f
<1>1. d \in Int /\ f \in Int /\ v \in Int /\ w \in Int
  <2>1. d \in Int /\ f \in Int
    BY Constants, UnitsExtended
  <2> HIDE DEF d, f
  <2> QED BY <2>1
<1>2. PICK sent, paid, earned, m, k, l :
          TransferSteps(a, b, x, d, f, from, to, s, sent, paid, earned, m, k, l)
  BY TransferEffect
<1> HIDE DEF d, f
<1>3. /\ Credited(funds, sent, a, x, from, v, m, s)
      /\ Credited(sent, paid, a, USDC, from, w, k, s)
      /\ Moved(paid, earned, FundAccounts, FeeAccount, USDC, f, 0, s)
      /\ Credited(earned, funds', b, x, to, d, l, s)
  BY <1>2 DEF TransferSteps
<1>4. v = (IF x = USDC THEN -d - f ELSE -d) /\ w = IF x = USDC THEN 0 ELSE -f
  BY <1>1
<1> HIDE DEF v, w
<1>5. funds \in RawFunds /\ USDC \in Asset /\ FeeAccount \in Account
  BY BooksTyped, Constants
<1>6. /\ sent \in RawFunds
      /\ Brings(funds, sent, x, v)
  BY <1>1, <1>3, <1>5, CreditedHeld
<1>7. /\ paid \in RawFunds
      /\ Brings(sent, paid, USDC, w)
  BY <1>1, <1>3, <1>5, <1>6, CreditedHeld
<1>8. /\ earned \in RawFunds
      /\ InAccounts(earned, y) = InAccounts(paid, y) + (IF y = USDC THEN f ELSE 0)
  <2>1. InAccounts(earned, y) = InAccounts(paid, y) + (IF y = USDC THEN 0 + f ELSE 0)
    BY <1>1, <1>3, <1>5, <1>7, InAccountsMoved
  <2> QED BY <1>1, <1>3, <2>1 DEF Moved
<1>9. Brings(earned, funds', x, d)
  BY <1>1, <1>3, <1>5, <1>8, CreditedHeld
<1>10. InAccounts(funds, y) \in Int
  BY <1>5, InAccountsTyped
<1>11. /\ InAccounts(sent, y) = InAccounts(funds, y) + (IF y = x THEN v ELSE 0)
       /\ InAccounts(paid, y) = InAccounts(sent, y) + (IF y = USDC THEN w ELSE 0)
       /\ InAccounts(funds', y) = InAccounts(earned, y) + (IF y = x THEN d ELSE 0)
  BY <1>6, <1>7, <1>9 DEF Brings
<1> QED BY <1>1, <1>4, <1>8, <1>10, <1>11

\* So do those of a fill of a spot market.
LEMMA SpotTradeHeld ==
    ASSUME Books, NEW a \in Traders, NEW b \in Traders, NEW t \in Trades, NEW c \in Integrators,
           NEW takerSells \in BOOLEAN, SpotTrade(a, b, t, c, takerSells), NEW y \in Asset
    PROVE  InAccounts(funds', y) = InAccounts(funds, y)
<1> DEFINE base == t.base
           quote == t.quote
           d1 == Sells(t, a)
           d2 == GetsBase(t, b)
           d3 == Pays(t, b)
           d4 == GetsQuote(t, a)
           d5 == Collected(Treasury, a, b, t.feeBase)
           d6 == Collected(Treasury, a, b, t.feeQuote)
<1>1. /\ base \in Asset /\ quote \in Asset /\ base # quote
  BY TradeTyped
<1>2. /\ d1 \in Int /\ d2 \in Int /\ d3 \in Int /\ d4 \in Int /\ d5 \in Int /\ d6 \in Int
      /\ d1 + d2 + d5 = 0 /\ d3 + d4 + d6 = 0
  <2>1. /\ d1 \in Int /\ d2 \in Int /\ d3 \in Int /\ d4 \in Int /\ d5 \in Nat /\ d6 \in Nat
        /\ d1 + d2 + d5 = 0 /\ d3 + d4 + d6 = 0
    BY FillAmounts, ZenonT(20) DEF SpotTrade
  <2> HIDE DEF d1, d2, d3, d4, d5, d6
  <2> QED BY <2>1
<1>3. /\ a \in Account /\ b \in Account /\ Treasury \in Account /\ SpotStrategy \in Strategy
      /\ Default \in Strategy /\ funds \in RawFunds
  BY Constants, BooksTyped
<1>4. PICK sold, bought, paid, received, based, m :
          FillSteps(a, b, t, sold, bought, paid, received, based, m)
  BY SpotTradeEffect
<1>5. /\ Credited(funds, sold, a, base, Spot, d1, m[1], SpotStrategy)
      /\ Credited(sold, bought, b, base, Spot, d2, m[2], SpotStrategy)
      /\ Credited(bought, paid, b, quote, Spot, d3, m[3], SpotStrategy)
      /\ Credited(paid, received, a, quote, Spot, d4, m[4], SpotStrategy)
      /\ Credited(received, based, Treasury, base, Spot, d5, m[5], Default)
      /\ Credited(based, funds', Treasury, quote, Spot, d6, m[6], Default)
  BY <1>4 DEF FillSteps
<1> HIDE DEF base, quote, d1, d2, d3, d4, d5, d6
<1>6. /\ sold \in RawFunds
      /\ Brings(funds, sold, base, d1)
  BY <1>1, <1>2, <1>3, <1>5, CreditedHeld
<1>7. /\ bought \in RawFunds
      /\ Brings(sold, bought, base, d2)
  BY <1>1, <1>2, <1>3, <1>5, <1>6, CreditedHeld
<1>8. /\ paid \in RawFunds
      /\ Brings(bought, paid, quote, d3)
  BY <1>1, <1>2, <1>3, <1>5, <1>7, CreditedHeld
<1>9. /\ received \in RawFunds
      /\ Brings(paid, received, quote, d4)
  BY <1>1, <1>2, <1>3, <1>5, <1>8, CreditedHeld
<1>10. /\ based \in RawFunds
       /\ Brings(received, based, base, d5)
  BY <1>1, <1>2, <1>3, <1>5, <1>9, CreditedHeld
<1>11. Brings(based, funds', quote, d6)
  BY <1>1, <1>2, <1>3, <1>5, <1>10, CreditedHeld
<1>12. InAccounts(funds, y) \in Int
  BY <1>3, InAccountsTyped
<1>13. /\ InAccounts(sold, y) = InAccounts(funds, y) + (IF y = base THEN d1 ELSE 0)
       /\ InAccounts(bought, y) = InAccounts(sold, y) + (IF y = base THEN d2 ELSE 0)
       /\ InAccounts(paid, y) = InAccounts(bought, y) + (IF y = quote THEN d3 ELSE 0)
       /\ InAccounts(received, y) = InAccounts(paid, y) + (IF y = quote THEN d4 ELSE 0)
       /\ InAccounts(based, y) = InAccounts(received, y) + (IF y = base THEN d5 ELSE 0)
       /\ InAccounts(funds', y) = InAccounts(based, y) + (IF y = quote THEN d6 ELSE 0)
  BY <1>6, <1>7, <1>8, <1>9, <1>10, <1>11 DEF Brings
<1> QED BY <1>1, <1>2, <1>12, <1>13

\* What a fill of a market on an outcome takes from its sides is what it sets aside.
LEMMA OutcomeTradeHeld ==
    ASSUME Books, SlotInv(slot, options),
           NEW a \in Traders, NEW b \in Traders, NEW deal \in Deals, NEW c \in Integrators,
           NEW takerSells \in BOOLEAN, NEW filled \in BOOLEAN,
           Trade(a, b, deal, c, takerSells, filled), NEW y \in Asset
    PROVE  InAccounts(funds', y)
               + (IF y = USDC THEN Tick * SetAside(slot', options') ELSE 0)
           = InAccounts(funds, y) + (IF y = USDC THEN Tick * SetAside(slot, options) ELSE 0)
<1> DEFINE p == BuyerGets(a, deal, takerSells)
           q == SellerGets(b, deal, takerSells)
           fees == FeesOf(deal)
           got == FeesGot(a, b, deal)
           f == slot.collector
           close == Bought(a, deal).close
           open == Sold(b, deal).open
           quote == deal.base * deal.price
<1>1. /\ a \in Account /\ b \in Account /\ f \in Account /\ USDC \in Asset /\ a # b
      /\ funds \in RawFunds /\ Default \in Strategy
      /\ Cap \in Nat /\ Tick \in Nat
  BY Constants, BooksTyped, BinaryOptionsAssumption DEF Books, AccountsOK, UserAccounts, Trade
<1>2. /\ SlotInv(slot', options') /\ close \in Nat /\ open \in Nat
      /\ SetAside(slot', options') = SetAside(slot, options) + Cap * (open - close)
      /\ SetAside(slot, options) \in Nat
  <2>1. SetAside(slot, options) \in Nat
    BY SharesTyped
  <2> QED BY <1>1, <2>1, AsideTraded
<1>3. PICK paid, settled, m, k, l : OutcomeSteps(a, b, deal, takerSells, paid, settled, m, k, l)
  BY TradeEffect
<1>4. /\ p \in Int /\ q \in Int /\ got \in Nat
      /\ Credited(funds, paid, a, USDC, Spot, p, m, Default)
      /\ Credited(paid, settled, b, USDC, Spot, q, k, Default)
      /\ Credited(settled, funds', f, USDC, Spot, got, l, Default)
  BY <1>3 DEF OutcomeSteps
<1>5. /\ deal.takerFee \in Int /\ deal.makerFee \in Int /\ fees \in Nat /\ quote \in Int
      /\ fees = deal.takerFee + deal.makerFee
  <2>1. {deal.takerFee, deal.makerFee} \subseteq Int /\ deal.base \in Int /\ deal.price \in Int
    BY DealsAssumption
  <2>2. fees \in Nat
    BY DealTyped
  <2> QED BY <2>1, <2>2 DEF FeesOf
<1>s. /\ Own(f, a, fees) \in Nat /\ Own(f, b, fees) \in Nat
      /\ Own(f, a, fees) + Own(f, b, fees) + got = fees
  <2> HIDE DEF fees, f
  <2>1. /\ Own(f, a, fees) \in Nat /\ Own(f, b, fees) \in Nat
        /\ Own(f, a, fees) + Own(f, b, fees) + Collected(f, a, b, fees) = fees
    BY <1>1, <1>5, FeeShares
  <2>2. got = Collected(f, a, b, fees)
    BY DEF FeesGot, f, fees
  <2> QED BY <2>1, <2>2
<1>6. p + q + got = -(Tick * (Cap * (open - close)))
  <2> DEFINE pay == Tick * (Cap * close - quote)
             get == Tick * (quote - Cap * open)
             mine == Own(f, a, fees)
             yours == Own(f, b, fees)
             buying == BuyFee(deal, takerSells)
             selling == SellFee(deal, takerSells)
  <2>1. /\ p = pay - buying + mine
        /\ q = get - selling + yours
    BY DEF BuyerGets, SellerGets
  <2>2. buying \in Int /\ selling \in Int /\ buying + selling = fees
    BY <1>5 DEF BuyFee, SellFee
  <2>0. mine \in Nat /\ yours \in Nat /\ mine + yours + got = fees
    BY <1>s
  <2> HIDE DEF close, open, quote, p, q, fees, got, f, mine, yours
  <2>3. pay + get = -(Tick * (Cap * (open - close)))
    <3> DEFINE i == Cap * close
               j == Cap * open
    <3>1. i \in Int /\ j \in Int /\ Cap * (open - close) = j - i
      BY <1>1, <1>2
    <3> HIDE DEF i, j
    <3>2. Tick * (i - quote) + Tick * (quote - j) = -(Tick * (j - i))
      BY <1>1, <1>5, <3>1
    <3> QED BY <3>1, <3>2 DEF i, j
  <2>4. pay \in Int /\ get \in Int
    <3>1. Cap * close - quote \in Int /\ quote - Cap * open \in Int
      BY <1>1, <1>2, <1>5
    <3> QED BY <1>1, <3>1
  <2> HIDE DEF pay, get, buying, selling
  <2>5. fees \in Int /\ got \in Int
    BY <1>4, <1>5
  <2>6. p + q + got = pay + get
    BY <2>0, <2>1, <2>2, <2>4, <2>5
  <2> QED BY <2>3, <2>6
<1> HIDE DEF p, q, fees, got, f, close, open, quote
<1>7. /\ paid \in RawFunds
      /\ Brings(funds, paid, USDC, p)
  BY <1>1, <1>4, CreditedHeld
<1>8. /\ settled \in RawFunds
      /\ Brings(paid, settled, USDC, q)
  BY <1>1, <1>4, <1>7, CreditedHeld
<1>g. got \in Int
  BY <1>4
<1>9. Brings(settled, funds', USDC, got)
  BY <1>1, <1>4, <1>g, <1>8, CreditedHeld
<1>10. InAccounts(funds, y) \in Int
  BY <1>1, InAccountsTyped
<1>11. InAccounts(funds', y) = InAccounts(funds, y) + (IF y = USDC THEN p + q + got ELSE 0)
  BY <1>4, <1>g, <1>7, <1>8, <1>9, <1>10 DEF Brings
<1>12. /\ Tick * SetAside(slot', options')
             = Tick * SetAside(slot, options) + Tick * (Cap * (open - close))
       /\ Tick * (Cap * (open - close)) \in Int /\ Tick * SetAside(slot, options) \in Int
  <2> DEFINE u == Cap * (open - close)
             i == SetAside(slot, options)
  <2>1. u \in Int /\ i \in Int /\ SetAside(slot', options') = i + u
    BY <1>1, <1>2
  <2> HIDE DEF u, i
  <2>2. Tick * (i + u) = Tick * i + Tick * u /\ Tick * u \in Int /\ Tick * i \in Int
    BY <1>1, <2>1
  <2> QED BY <2>1, <2>2 DEF u, i
<1> QED BY <1>6, <1>10, <1>11, <1>12

\* A fund transaction makes and loses nothing.
LEMMA FundsConserve ==
    ASSUME SlotInv(slot, options), Books, Conserved, FundSteps
    PROVE  Conserved'
<1>0. USDC \in Asset /\ Default \in Strategy /\ FeeAccount \in Account /\ funds \in RawFunds
  BY Constants, BooksTyped
<1>u. UNCHANGED optionVars
  BY DEF FundSteps
<1>1. ASSUME NEW a \in Account, NEW x \in Asset, NEW n \in Nat, NEW side \in Products,
             L1Deposit(a, x, n, side)
      PROVE  Conserved'
  <2> DEFINE d == n * Mult[x]
  <2>1. PICK m \in Int : Credited(funds, funds', a, x, side, d, m, Default)
    BY <1>1, DepositEffect
  <2>2. d \in Int
    BY UnitsExtended
  <2>3. Brings(funds, funds', x, d)
    <3> HIDE DEF d
    <3> QED BY <1>0, <2>1, <2>2, CreditedHeld
  <2>4. custody' = [custody EXCEPT ![x] = @ + n]
    BY <1>1 DEF L1Deposit
  <2>5. d = n * Mult[x] /\ n \in Int
    OBVIOUS
  <2> HIDE DEF d
  <2> QED BY <1>u, <2>3, <2>4, <2>5, ConservedAcross
<1>2. ASSUME NEW a \in Account, NEW x \in Asset, NEW n \in Units, NEW side \in Products,
             L1Withdraw(a, x, n, side) \/ L2Withdraw(a, x, n, side)
      PROVE  Conserved'
  <2> DEFINE d == -(n * Mult[x])
             k == -n
  <2>1. IsUser(a) /\ Withdraw(a, x, n, side)
    BY <1>2 DEF L1Withdraw, L2Withdraw
  <2>2. PICK m \in Int : Credited(funds, funds', a, x, side, d, m, Default)
    BY <2>1, WithdrawEffect
  <2>3. d \in Int /\ n \in Int /\ k \in Int
    BY UnitsExtended, Constants
  <2>4. d = k * Mult[x]
    <3>1. Mult[x] \in Int
      BY Constants
    <3> QED BY <2>3, <3>1
  <2>5. Brings(funds, funds', x, d)
    <3> HIDE DEF d
    <3> QED BY <1>0, <2>2, <2>3, CreditedHeld
  <2>6. custody' = [custody EXCEPT ![x] = @ + k]
    <3>1. custody' = [custody EXCEPT ![x] = @ - n]
      BY <2>1 DEF Withdraw
    <3>2. custody[x] - n = custody[x] + k
      BY <2>3 DEF Conserved
    <3> QED BY <3>1, <3>2
  <2> HIDE DEF d, k
  <2> QED BY <1>0, <1>u, <2>3, <2>4, <2>5, <2>6, ConservedAcross
<1>3. ASSUME NEW a \in Account, NEW mode \in {Simple, Unified}, L2UpdateAccountConfig(a, mode)
      PROVE  Conserved'
  <2>1. PICK m \in Int : Moved(funds, funds', FundAccounts, a, USDC, m, -m, Default)
    BY <1>3, AccountConfigEffect
  <2> DEFINE r == -m
  <2>2. r \in Int /\ r + m = 0 /\ Moved(funds, funds', FundAccounts, a, USDC, m, r, Default)
    BY <2>1
  <2> HIDE DEF r
  <2>3. \A y \in Asset : InAccounts(funds', y) = InAccounts(funds, y)
    <3>1. \A y \in Asset : InAccounts(funds', y)
                              = InAccounts(funds, y) + (IF y = USDC THEN r + m ELSE 0)
      BY <1>0, <2>1, <2>2, InAccountsMoved
    <3>2. \A y \in Asset : InAccounts(funds, y) \in Int
      BY <1>0, InAccountsTyped
    <3> QED BY <2>2, <3>1, <3>2
  <2>4. custody' = custody
    BY <1>3 DEF L2UpdateAccountConfig
  <2> QED BY <1>0, <1>u, <2>3, <2>4, ConservedWithin
<1>4. ASSUME NEW a \in Account, NEW x \in Asset, NEW enable \in BOOLEAN,
             L2UpdateAccountAssetConfig(a, x, enable)
      PROVE  Conserved'
  <2>1. PICK m \in Int : Moved(funds, funds', FundAccounts, a, x, m, -m, Default)
    BY <1>4, ReassignEffect
  <2> DEFINE r == -m
  <2>2. r \in Int /\ r + m = 0 /\ Moved(funds, funds', FundAccounts, a, x, m, r, Default)
    BY <2>1
  <2> HIDE DEF r
  <2>3. \A y \in Asset : InAccounts(funds', y) = InAccounts(funds, y)
    <3>1. \A y \in Asset : InAccounts(funds', y)
                              = InAccounts(funds, y) + (IF y = x THEN r + m ELSE 0)
      BY <1>0, <2>1, <2>2, InAccountsMoved
    <3>2. \A y \in Asset : InAccounts(funds, y) \in Int
      BY <1>0, InAccountsTyped
    <3> QED BY <2>2, <3>1, <3>2
  <2>4. custody' = custody
    BY <1>4 DEF L2UpdateAccountAssetConfig
  <2> QED BY <1>0, <1>u, <2>3, <2>4, ConservedWithin
<1>5. ASSUME NEW a \in Account, NEW n \in Units, NEW adding \in BOOLEAN,
             L2UpdateMargin(a, n, adding)
      PROVE  Conserved'
  <2> DEFINE d == IF adding THEN n * Mult[USDC] ELSE -(n * Mult[USDC])
             e == -d
  <2>1. d \in Int /\ e \in Int /\ e = -d
    BY UnitsExtended, Constants
  <2>2. PICK moved : MarginSteps(a, d, moved)
    BY <1>5, UpdateMarginEffect
  <2> HIDE DEF d
  <2>3. /\ Moved(funds, moved, FundAccounts, a, USDC, e, 0, Default)
        /\ \A y \in Asset : InAccounts(funds', y)
                               = InAccounts(moved, y) + (IF y = USDC THEN d ELSE 0)
    BY <2>2 DEF MarginSteps
  <2> HIDE DEF e
  <2>4. \A y \in Asset : InAccounts(moved, y)
                            = InAccounts(funds, y) + (IF y = USDC THEN 0 + e ELSE 0)
    BY <1>0, <2>1, <2>3, InAccountsMoved
  <2>5. \A y \in Asset : InAccounts(funds, y) \in Int
    BY <1>0, InAccountsTyped
  <2>6. \A y \in Asset : InAccounts(funds', y) = InAccounts(funds, y)
    BY <2>1, <2>3, <2>4, <2>5
  <2>7. custody' = custody
    BY <1>5 DEF L2UpdateMargin
  <2> QED BY <1>0, <1>u, <2>6, <2>7, ConservedWithin
<1>6. ASSUME NEW a \in Account, NEW s \in Strategy, NEW t \in Strategy, NEW n \in Units,
             L2StrategyTransfer(a, s, t, n)
      PROVE  Conserved'
  <2>1. /\ funds'.spot = funds.spot /\ funds'.margin = funds.margin
        /\ funds'.allocated = funds.allocated /\ funds'.unlocks = funds.unlocks
    BY <1>6, StrategyTransferEffect DEF StrategySteps
  <2>2. \A y \in Asset : InAccounts(funds', y) = InAccounts(funds, y)
    BY <2>1 DEF InAccounts, Unlocking
  <2>3. custody' = custody
    BY <1>6 DEF L2StrategyTransfer
  <2> QED BY <1>0, <1>u, <2>2, <2>3, ConservedWithin
<1>7. ASSUME NEW a \in Account, NEW x \in Asset, NEW n, LockBalance(a, x, n)
      PROVE  Conserved'
  <2>1. funds' = funds /\ custody' = custody
    BY <1>7 DEF LockBalance
  <2> QED BY <1>0, <1>u, <2>1, ConservedWithin
<1>8. ASSUME NEW a \in Account, NEW b \in Account, NEW x \in Asset, NEW n \in Units,
             NEW fee \in Fees, NEW from \in Products, NEW to \in Products, NEW s \in Strategy,
             L2Transfer(a, b, x, n, fee, from, to, s)
      PROVE  Conserved'
  <2>1. \A y \in Asset : InAccounts(funds', y) = InAccounts(funds, y)
    BY <1>8, TransferHeld
  <2>2. custody' = custody
    BY <1>8 DEF L2Transfer
  <2> QED BY <1>0, <1>u, <2>1, <2>2, ConservedWithin
<1>9. ASSUME NEW a \in Traders, NEW b \in Traders, NEW t \in Trades, NEW c \in Integrators,
             NEW takerSells \in BOOLEAN, SpotTrade(a, b, t, c, takerSells)
      PROVE  Conserved'
  <2>1. \A y \in Asset : InAccounts(funds', y) = InAccounts(funds, y)
    BY <1>9, SpotTradeHeld
  <2>2. custody' = custody
    BY <1>9 DEF SpotTrade
  <2> QED BY <1>0, <1>u, <2>1, <2>2, ConservedWithin
<1>10. ASSUME NEW s \in Strategy, InternalTransfer(s) PROVE Conserved'
  <2> DEFINE i == Head(transfers)
             x == i.asset
             d == i.units * Mult[i.asset]
             e == -d
  <2>1. /\ i.from \in Account /\ i.to \in Account /\ x \in Asset /\ i.units \in Nat
        /\ \E paid, m, k : /\ Credited(funds, paid, i.from, x, Spot, e, m, s)
                           /\ Credited(paid, funds', i.to, x, Spot, d, k, s)
    BY <1>10, InternalTransferEffect
  <2>2. PICK paid, m, k : /\ Credited(funds, paid, i.from, x, Spot, e, m, s)
                          /\ Credited(paid, funds', i.to, x, Spot, d, k, s)
    BY <2>1
  <2>3. d \in Int /\ e \in Int /\ e = -d
    <3>1. Mult[i.asset] \in Int
      BY <2>1, Constants
    <3> QED BY <2>1, <3>1
  <2> HIDE DEF i, x, d, e
  <2>4. /\ paid \in RawFunds
        /\ Brings(funds, paid, x, e)
    BY <1>0, <2>1, <2>2, <2>3, CreditedHeld
  <2>5. Brings(paid, funds', x, d)
    BY <2>1, <2>2, <2>3, <2>4, CreditedHeld
  <2>6. \A y \in Asset : InAccounts(funds, y) \in Int
    BY <1>0, InAccountsTyped
  <2>7. \A y \in Asset : InAccounts(funds', y) = InAccounts(funds, y)
    BY <2>3, <2>4, <2>5, <2>6 DEF Brings
  <2>8. custody' = custody
    BY <1>10 DEF InternalTransfer
  <2> QED BY <1>0, <1>u, <2>7, <2>8, ConservedWithin
<1>11. \A n \in {0} \union Units : n \in Nat
  BY Constants
<1>12. CASE Deposits
  BY <1>1, <1>11, <1>12 DEF Deposits
<1>13. CASE Withdrawals
  BY <1>2, <1>13 DEF Withdrawals
<1>14. CASE Modes
  BY <1>3, <1>14 DEF Modes
<1>15. CASE Settings
  BY <1>4, <1>5, <1>6, <1>15 DEF Settings
<1>16. CASE Orders
  BY <1>7, <1>16, Constants DEF Orders
<1>17. CASE Transfers
  BY <1>0, <1>8, <1>17 DEF Transfers
<1>18. CASE Fills
  BY <1>9, <1>18 DEF Fills
<1>19. CASE Payments
  BY <1>10, <1>19 DEF Payments
<1> QED BY <1>12, <1>13, <1>14, <1>15, <1>16, <1>17, <1>18, <1>19 DEF FundSteps

\* What is traded and paid on the slot neither: what leaves an account is set aside, and
\* what is paid was.
LEMMA ConservedNext ==
    ASSUME OptionsInv, Books, Conserved, [Next]_<<fundVars, optionVars>>
    PROVE  Conserved'
<1>0. /\ USDC \in Asset /\ Default \in Strategy /\ funds \in RawFunds
      /\ SlotInv(slot, options) /\ nextMarket \in Nat \ {0}
  BY Constants, BooksTyped DEF OptionsInv
<1>1. CASE FundSteps
  BY <1>0, <1>1, FundsConserve
<1>2. ASSUME UNCHANGED fundVars, SetAside(slot', options') = SetAside(slot, options)
      PROVE  Conserved'
  BY <1>2 DEF fundVars, Conserved
<1>3. ASSUME custody' = custody,
             \A y \in Asset :
                 InAccounts(funds', y) + (IF y = USDC THEN Tick * SetAside(slot', options') ELSE 0)
                     = InAccounts(funds, y)
                         + (IF y = USDC THEN Tick * SetAside(slot, options) ELSE 0)
      PROVE  Conserved'
  BY <1>3 DEF Conserved
<1>4. CASE UNCHANGED <<fundVars, optionVars>>
  BY <1>2, <1>4 DEF optionVars
<1>5. ASSUME NEW a \in Account, SettlePosition(a) PROVE Conserved'
  <2> DEFINE z == Payout(options[a], slot.price)
             d == Tick * z
             S == SetAside(slot, options)
             T == SetAside(slot', options')
  <2>1. z \in Nat /\ d \in Nat /\ \E m \in Int : Credited(funds, funds', a, USDC, Spot, d, m, Default)
    BY <1>0, <1>5, PayoutEffect
  <2>2. T = S - z /\ S \in Int /\ Tick \in Int
    BY <1>0, <1>5, AsidePaid, SharesTyped, BinaryOptionsAssumption
  <2>3. Tick * T = Tick * S - d /\ Tick * S \in Int
    <3> HIDE DEF S, T, z
    <3> QED BY <2>1, <2>2 DEF d
  <2> HIDE DEF d, z
  <2>4. PICK m \in Int : Credited(funds, funds', a, USDC, Spot, d, m, Default)
    BY <2>1
  <2>5. d \in Int
    BY <2>1
  <2>6. Brings(funds, funds', USDC, d)
    BY <1>0, <2>4, <2>5, CreditedHeld
  <2>7. \A y \in Asset : InAccounts(funds, y) \in Int
    BY <1>0, InAccountsTyped
  <2>8. custody' = custody
    BY <1>5 DEF SettlePosition
  <2>9. ASSUME NEW y \in Asset
        PROVE  InAccounts(funds', y) + (IF y = USDC THEN Tick * T ELSE 0)
                   = InAccounts(funds, y) + (IF y = USDC THEN Tick * S ELSE 0)
    <3> HIDE DEF S, T
    <3>1. InAccounts(funds, y) \in Int
      BY <2>7
    <3> QED BY <2>3, <2>5, <2>6, <3>1 DEF Brings
  <2> QED BY <1>3, <2>8, <2>9
<1>6. ASSUME NEW a \in Traders, NEW b \in Traders, NEW deal \in Deals, NEW c \in Integrators,
             NEW takerSells \in BOOLEAN, NEW filled \in BOOLEAN,
             Trade(a, b, deal, c, takerSells, filled)
      PROVE  Conserved'
  <2>1. custody' = custody
    BY <1>6 DEF Trade
  <2>2. \A y \in Asset :
            InAccounts(funds', y) + (IF y = USDC THEN Tick * SetAside(slot', options') ELSE 0)
                = InAccounts(funds, y)
                    + (IF y = USDC THEN Tick * SetAside(slot, options) ELSE 0)
    BY <1>0, <1>6, OutcomeTradeHeld
  <2> QED BY <1>3, <2>1, <2>2
<1>7. CASE Operate
  <2>1. UNCHANGED fundVars
    BY <1>7 DEF Operate, UpdateMarketSlot, CreateMarket, UpdateMarket, SettleOutcome
  <2> QED BY <1>0, <1>2, <1>7, <2>1, AsideSame
<1>8. ASSUME NEW a \in Account, RestOrder(a) \/ CancelOrder(a) PROVE Conserved'
  <2>1. UNCHANGED fundVars
    BY <1>8 DEF RestOrder, CancelOrder
  <2> QED BY <1>0, <1>2, <1>8, <2>1, AsideSame
<1>9. CASE Bets
  BY <1>5, <1>6, <1>8, <1>9, Constants DEF Bets
<1> QED BY <1>1, <1>4, <1>7, <1>9 DEF Next

\* The instances start with books that balance.
LEMMA ConservedInit == Init /\ OptionsInv => Conserved
<1> SUFFICES ASSUME NEW start \in Genesis, FundsInit(start), OptionsInv,
                    options = [a \in Account |-> EmptyPosition(NilMarket)]
             PROVE  Conserved
  BY DEF Init
<1>1. funds = start.funds /\ custody = start.custody
  BY DEF FundsInit
<1>2. /\ custody \in [Asset -> Nat]
      /\ \A x \in Asset : custody[x] * Mult[x] = InAccounts(funds, x)
  BY <1>1, GenesisAssumption DEF OpeningTyped, OpeningBalances
<1>3. SetAside(slot, options) = 0
  <2>1. \A a \in Account : options[a].size = 0
    BY DEF EmptyPosition
  <2> QED BY <2>1, NothingSetAside DEF OptionsInv
<1>4. Tick * 0 = 0
  BY BinaryOptionsAssumption
<1>5. \A x \in Asset : custody[x] * Mult[x] \in Int /\ InAccounts(funds, x) + 0 = InAccounts(funds, x)
  BY <1>2, Constants
<1> QED BY <1>2, <1>3, <1>4, <1>5 DEF Conserved

\* The balances and the market on outcomes as they are in every state.
ExchangeInv == OptionsInv /\ Books /\ Debts /\ Conserved

\* All of it is kept together.
LEMMA ExchangeHolds == Spec => []ExchangeInv
<1>1. Init => ExchangeInv
  BY OptionsInit, BooksInit, DebtsInit, ConservedInit DEF ExchangeInv
<1>2. ExchangeInv /\ [Next]_<<fundVars, optionVars>> => ExchangeInv'
  <2> SUFFICES ASSUME OptionsInv, Books, Debts, Conserved, [Next]_<<fundVars, optionVars>>
               PROVE  OptionsInv' /\ Books' /\ Debts' /\ Conserved'
    BY DEF ExchangeInv
  <2>1. OptionsInv'
    BY OptionsNext
  <2>2. SlotInv(slot, options)
    BY DEF OptionsInv
  <2>3. Books'
    BY <2>2, BooksNext
  <2>4. Debts'
    BY <2>2, <2>3, DebtsNext
  <2>5. Conserved'
    BY ConservedNext
  <2> QED BY <2>1, <2>3, <2>4, <2>5
<1> QED BY <1>1, <1>2, PTL DEF Spec

\* No transaction makes or loses a balance, to the last unit: what L1 holds for the exchange
\* is what accounts have on either side and in isolated positions, what waits to be unlocked
\* and what is set aside for open shares; and what counts against the caps and what the
\* strategies divide is what is there.
THEOREM BooksStayBalanced == Spec => []BooksBalance
<1>1. ExchangeInv => FundsConserved
  BY EscrowIs DEF ExchangeInv, Conserved, FundsConserved
<1>2. Spec => []FundsConserved
  BY <1>1, ExchangeHolds, PTL
<1> QED BY <1>2, BalancesStayInPlace, PTL DEF BooksBalance

\* No spot balance, supplied total or amount that orders lock is negative, and of no asset
\* but USDC, in which accounts with orders may be in debt, is L1 asked for more than it holds.
THEOREM FundsTypeCorrect == Spec => []TypeOK
<1>1. ExchangeInv => TypeOK
  <2> SUFFICES ASSUME OptionsInv, Books, Debts, Conserved PROVE TypeOK
    BY DEF ExchangeInv
  <2>1. Placed /\ funds \in RawFunds /\ FundAccounts \subseteq Account /\ USDC \in Asset
    BY BooksTyped, Constants DEF Books
  <2>2. /\ \A a \in Account : account[a].kind \in Kinds /\ account[a].mode \in {Simple, Unified}
        /\ useMargin \in [Account -> [Asset -> BOOLEAN]]
    BY DEF Books, AccountsOK
  <2>3. /\ funds.margin \in [Account -> [Asset -> Int]] /\ funds.allocated \in [Account -> Int]
        /\ funds.spot \in [Account -> [Asset -> Int]] /\ funds.supplied \in [Asset -> Int]
    BY <2>1 DEF RawFunds, Tables
  <2>4. \A a \in Account, x \in Asset :
           Cell(funds, FundAccounts, ModeOf, useMargin, a, x)
    BY <2>1 DEF Placed, Sound
  <2>5. funds.spot \in [Account -> [Asset -> Nat]]
    <3>1. \A a \in Account, x \in Asset : funds.spot[a][x] \in Int /\ funds.spot[a][x] >= 0
      BY <2>3, <2>4 DEF Cell
    <3>2. \A a \in Account, x \in Asset : funds.spot[a][x] \in Nat
      BY <3>1
    <3> QED BY <2>3, <3>2
  <2>6. funds.supplied \in [Asset -> Nat]
    <3>1. \A x \in Asset : funds.supplied[x] \in Nat
      BY <2>1, SuppliedNat DEF Placed
    <3> QED BY <2>3, <3>1
  <2>7. locked \in [Account -> [Asset -> 0..MaxLock]]
    BY DEF Debts, LocksTyped
  <2>8. custody \in [Asset -> Int] /\ \A x \in Asset \ {USDC} : custody[x] >= 0
    <3>1. ASSUME NEW x \in Asset \ {USDC} PROVE custody[x] >= 0
      <4>1. InAccounts(funds, x) \in Int /\ InAccounts(funds, x) >= 0
        <5>1. \A a \in Account : funds.spot[a][x] >= 0 /\ funds.margin[a][x] >= 0
          BY <2>4 DEF Cell
        <5> QED BY <2>1, <5>1, InAccountsTyped
      <4>3. custody[x] * Mult[x] >= 0
        <5>1. custody[x] * Mult[x] = InAccounts(funds, x) + 0
          BY DEF Conserved
        <5> QED BY <4>1, <5>1
      <4>4. custody[x] \in Int /\ Mult[x] \in Nat /\ Mult[x] > 0
        BY Constants DEF Conserved
      <4> QED BY <4>3, <4>4
    <3> QED BY <3>1 DEF Conserved
  <2> QED BY <2>2, <2>3, <2>5, <2>6, <2>7, <2>8 DEF TypeOK
<1> QED BY <1>1, ExchangeHolds, PTL

-----------------------------------------------------------------------------
(* What is published. *)

\* Whole units move through a division.
LEMMA WholeUnits ==
    ASSUME NEW M \in Nat, M > 0, NEW i \in Int, NEW n \in Int
    PROVE  (i + n * M) \div M = (i \div M) + n
<1> DEFINE q == i \div M
           r == i % M
           k == q + n
<1>1. q \in Int /\ r \in Int /\ 0 <= r /\ r < M /\ i = M * q + r
  OBVIOUS
<1> HIDE DEF q, r
<1>2. i + n * M = M * (q + n) + r
  BY <1>1
<1>3. (M * k + r) \div M = k
  <2>1. k \in Int
    BY <1>1
  <2> HIDE DEF k
  <2> QED BY <1>1, <2>1
<1> QED BY <1>2, <1>3 DEF q

\* What the public data says of an account is a number, and of the sides of the account,
\* its unlocks and its isolated margin alone.
LEMMA WorthTyped ==
    ASSUME NEW F \in RawFunds, NEW a \in Account, NEW x \in Asset
    PROVE  Worth(F, a, x) \in Int
<1> DEFINE M == Mult[x]
           i == F.spot[a][x] + IF x = LIT THEN Unlocking(F, a) ELSE 0
           j == F.margin[a][x]
           k == F.allocated[a]
<1>1. M \in Nat /\ M > 0 /\ i \in Int /\ j \in Int /\ k \in Int
  <2>1. Unlocking(F, a) \in Nat
    BY UnlockingNat
  <2>2. F.spot[a][x] \in Int /\ F.margin[a][x] \in Int /\ F.allocated[a] \in Int
    BY DEF RawFunds, Tables
  <2>3. Mult[x] \in Nat \ {0}
    BY Constants
  <2> QED BY <2>1, <2>2, <2>3
<1>2. Worth(F, a, x) = i \div M + j \div M + IF x = USDC THEN k \div M ELSE 0
  BY DEF Worth
<1> HIDE DEF M, i, j, k
<1>3. i \div M \in Int /\ j \div M \in Int /\ k \div M \in Int
  BY <1>1
<1> QED BY <1>2, <1>3

\* It is the same when those are.
LEMMA WorthSame ==
    ASSUME NEW F, NEW G, NEW a \in Account, NEW x \in Asset, Same(F, G, a, x),
           x = USDC => G.allocated[a] = F.allocated[a],
           x = LIT => G.unlocks[a] = F.unlocks[a]
    PROVE  Worth(G, a, x) = Worth(F, a, x)
<1>1. x = LIT => Unlocking(G, a) = Unlocking(F, a)
  BY DEF Unlocking
<1> QED BY <1>1 DEF Worth, Same

\* From F to G the public data has nothing new to say but of these accounts and assets.
Touches(F, G, who, assets) ==
    \A b \in Account, y \in Asset :
        ~(b \in who /\ y \in assets) => Worth(G, b, y) = Worth(F, b, y)

\* A movement changes what is said of one account and one asset.
LEMMA WorthMoved ==
    ASSUME NEW F, NEW G, NEW K, NEW a, NEW x, NEW m, NEW r, NEW s,
           Moved(F, G, K, a, x, m, r, s)
    PROVE  Touches(F, G, {a}, {x})
<1>1. ASSUME NEW b \in Account, NEW y \in Asset, b # a \/ y # x
      PROVE  Worth(G, b, y) = Worth(F, b, y)
  <2>1. Same(F, G, b, y) /\ G.allocated = F.allocated /\ G.unlocks = F.unlocks
    BY <1>1 DEF Moved
  <2> QED BY <2>1, WorthSame
<1> QED BY <1>1 DEF Touches

\* So does a part of a transaction.
LEMMA WorthCredited ==
    ASSUME NEW F, NEW G, NEW a, NEW x, NEW side, NEW d, NEW m, NEW s,
           Credited(F, G, a, x, side, d, m, s)
    PROVE  Touches(F, G, {a}, {x})
<1> DEFINE r == d - m
<1>1. Moved(F, G, FundAccounts, a, x, m, r, s)
  BY DEF Credited
<1> HIDE DEF r
<1> QED BY <1>1, WorthMoved

\* Who publishes what it loads tells all there is when nothing else changes.
LEMMA Told ==
    ASSUME NEW who, NEW assets, Publish(who, assets, TRUE),
           Touches(funds, funds', who, assets), Books, Books', PublishedMatches
    PROVE  PublishedMatches'
<1>1. funds \in RawFunds /\ funds' \in RawFunds
  BY BooksTyped DEF Books, Placed, Sound
<1>2. ASSUME NEW a \in Account, NEW x \in Asset PROVE published'[a][x] = Worth(funds', a, x)
  <2>1. published'[a][x] = published[a][x]
            + IF a \in who /\ x \in assets THEN Worth(funds', a, x) - Worth(funds, a, x) ELSE 0
    BY DEF Publish
  <2>2. published[a][x] = Worth(funds, a, x)
    BY DEF PublishedMatches
  <2>3. Worth(funds, a, x) \in Int
    BY <1>1, WorthTyped
  <2>4. Worth(funds', a, x) \in Int
    BY <1>1, WorthTyped
  <2>5. ~(a \in who /\ x \in assets) => Worth(funds', a, x) = Worth(funds, a, x)
    BY DEF Touches
  <2> QED BY <2>1, <2>2, <2>3, <2>4, <2>5
<1> QED BY <1>2 DEF PublishedMatches

\* Who publishes nothing changes nothing that is published.
LEMMA NothingToTell ==
    ASSUME PublishedMatches,
           \A a \in Account, x \in Asset : published'[a][x] = published[a][x],
           \A a \in Account, x \in Asset : Worth(funds', a, x) = Worth(funds, a, x)
    PROVE  PublishedMatches'
BY DEF PublishedMatches

\* What brings nothing to either side changes nothing.
LEMMA NothingMoved ==
    ASSUME NEW F \in RawFunds, NEW G, NEW K, NEW a \in Account, NEW x \in Asset, NEW s,
           Moved(F, G, K, a, x, 0, 0, s)
    PROVE  /\ G \in RawFunds /\ G.allocated = F.allocated /\ G.unlocks = F.unlocks
           /\ \A b \in Account, y \in Asset : Same(F, G, b, y)
<1>1. F.spot[a][x] \in Int /\ F.margin[a][x] \in Int
  BY DEF RawFunds, Tables
<1>2. Same(F, G, a, x)
  BY <1>1 DEF Moved, Same
<1> QED BY <1>2 DEF Moved

\* A transfer within an account that takes no fee moves whole units from one side to the
\* other: the public data, which adds the sides up, need not tell it.
LEMMA SelfTransferUntold ==
    ASSUME Books, NEW a \in Account, NEW x \in Asset, NEW n \in Units, NEW fee, fee = 0,
           fee \in Fees,
           NEW from \in Products, NEW to \in Products, NEW s \in Strategy,
           L2Transfer(a, a, x, n, fee, from, to, s)
    PROVE  \A b \in Account, y \in Asset : Worth(funds', b, y) = Worth(funds, b, y)
<1> DEFINE d == n * Mult[x]
           f == fee * Mult[USDC]
           v == -(d + IF x = USDC THEN f ELSE 0)
           w == IF x = USDC THEN 0 ELSE -f
<1>1. d \in Int /\ f = 0 /\ Mult[x] \in Nat /\ Mult[x] > 0 /\ n \in Int
  BY Constants, UnitsExtended
<1>2. v \in Int /\ v = -d /\ w = 0
  BY <1>1
<1>3. PICK sent, paid, earned, m, k, l :
          TransferSteps(a, a, x, d, f, from, to, s, sent, paid, earned, m, k, l)
  BY TransferEffect
<1> HIDE DEF f
<1>4. /\ m \in Int /\ k \in Int /\ l \in Int
      /\ Credited(funds, sent, a, x, from, v, m, s)
      /\ Credited(sent, paid, a, USDC, from, w, k, s)
      /\ Moved(paid, earned, FundAccounts, FeeAccount, USDC, f, 0, s)
      /\ Credited(earned, funds', a, x, to, d, l, s)
      /\ m = (IF from = Spot THEN 0 ELSE v) /\ l = IF to = Spot THEN 0 ELSE d
  BY <1>3 DEF TransferSteps
<1>5. funds \in RawFunds /\ USDC \in Asset /\ FeeAccount \in Account
  BY BooksTyped, Constants
<1>6. from # to /\ from \in {Spot, Perps} /\ to \in {Spot, Perps} /\ Spot # Perps
  BY DEF L2Transfer, Products, Spot, Perps
<1> HIDE DEF d, v, w
<1>7. /\ sent \in RawFunds /\ sent.allocated = funds.allocated /\ sent.unlocks = funds.unlocks
      /\ sent.spot[a][x] = funds.spot[a][x] + (v - m)
      /\ sent.margin[a][x] = funds.margin[a][x] + m
      /\ \A b \in Account, y \in Asset : b # a \/ y # x => Same(funds, sent, b, y)
  BY <1>4 DEF Credited, Moved
<1>8. /\ paid \in RawFunds /\ paid.allocated = sent.allocated /\ paid.unlocks = sent.unlocks
      /\ \A b \in Account, y \in Asset : Same(sent, paid, b, y)
  <2>1. k = 0 /\ w - k = 0
    <3>1. (w >= 0 => 0 <= k /\ k <= w) /\ k \in Int
      BY <1>4 DEF Credited
    <3> QED BY <1>2, <3>1
  <2>2. Moved(sent, paid, FundAccounts, a, USDC, 0, 0, s)
    <3>1. Moved(sent, paid, FundAccounts, a, USDC, k, w - k, s)
      BY <1>4 DEF Credited
    <3> QED BY <2>1, <3>1
  <2> QED BY <1>5, <1>7, <2>2, NothingMoved
<1>9. /\ earned \in RawFunds /\ earned.allocated = paid.allocated
      /\ earned.unlocks = paid.unlocks
      /\ \A b \in Account, y \in Asset : Same(paid, earned, b, y)
  <2>1. Moved(paid, earned, FundAccounts, FeeAccount, USDC, 0, 0, s)
    BY <1>1, <1>4
  <2> QED BY <1>5, <1>8, <2>1, NothingMoved
<1>10. /\ funds' \in RawFunds /\ funds'.allocated = earned.allocated
       /\ funds'.unlocks = earned.unlocks
       /\ funds'.spot[a][x] = earned.spot[a][x] + (d - l)
       /\ funds'.margin[a][x] = earned.margin[a][x] + l
       /\ \A b \in Account, y \in Asset : b # a \/ y # x => Same(earned, funds', b, y)
  BY <1>4 DEF Credited, Moved
<1>11. funds'.allocated = funds.allocated /\ funds'.unlocks = funds.unlocks
  BY <1>7, <1>8, <1>9, <1>10
<1>12. ASSUME NEW b \in Account, NEW y \in Asset, b # a \/ y # x
       PROVE  Worth(funds', b, y) = Worth(funds, b, y)
  <2>1. Same(funds, funds', b, y)
    BY <1>7, <1>8, <1>9, <1>10, <1>12 DEF Same
  <2> QED BY <1>11, <2>1, WorthSame
<1> DEFINE spt == funds.spot[a][x]
           mar == funds.margin[a][x]
           e == IF from = Spot THEN -n ELSE n
<1>13. spt \in Int /\ mar \in Int /\ e \in Int
  BY <1>1, <1>5 DEF RawFunds, Tables
<1>14. /\ funds'.spot[a][x] = spt + e * Mult[x]
       /\ funds'.margin[a][x] = mar + (-e) * Mult[x]
  <2>1. /\ funds'.spot[a][x] = (spt + (v - m)) + (d - l)
        /\ funds'.margin[a][x] = (mar + m) + l
    BY <1>7, <1>8, <1>9, <1>10 DEF Same
  <2> HIDE DEF spt, mar
  <2>2. CASE from = Spot
    <3>1. m = 0 /\ l = d /\ e = -n /\ -e = n
      BY <1>1, <1>4, <1>6, <2>2
    <3>2. (-n) * Mult[x] = -d
      BY <1>1 DEF d
    <3> HIDE DEF e
    <3>3. funds'.spot[a][x] = spt + (-d) /\ funds'.margin[a][x] = mar + d
      BY <1>1, <1>2, <1>13, <2>1, <3>1
    <3>4. d = n * Mult[x]
      BY DEF d
    <3> QED BY <3>1, <3>2, <3>3, <3>4
  <2>3. CASE from = Perps
    <3>1. m = v /\ l = 0 /\ e = n /\ -e = -n
      BY <1>1, <1>4, <1>6, <2>3
    <3>2. (-n) * Mult[x] = -d
      BY <1>1 DEF d
    <3> HIDE DEF e
    <3>3. funds'.spot[a][x] = spt + d /\ funds'.margin[a][x] = mar + (-d)
      BY <1>1, <1>2, <1>13, <2>1, <3>1
    <3>4. d = n * Mult[x]
      BY DEF d
    <3> QED BY <3>1, <3>2, <3>3, <3>4
  <2> QED BY <1>6, <2>2, <2>3
<1>15. Worth(funds', a, x) = Worth(funds, a, x)
  <2> DEFINE M == Mult[x]
             u == IF x = LIT THEN Unlocking(funds, a) ELSE 0
             z == IF x = USDC THEN funds.allocated[a] \div M ELSE 0
             i == spt + u
  <2>1. u \in Int
    BY <1>5, UnlockingNat
  <2>2. Unlocking(funds', a) = Unlocking(funds, a)
    BY <1>11 DEF Unlocking
  <2>3. z \in Int
    <3>1. funds.allocated[a] \in Int
      BY <1>5 DEF RawFunds
    <3> DEFINE g == funds.allocated[a]
    <3> HIDE DEF g
    <3>2. g \in Int => g \div M \in Int
      BY <1>1
    <3> QED BY <3>1, <3>2 DEF g
  <2>4. /\ Worth(funds, a, x) = (i \div M) + (mar \div M) + z
        /\ Worth(funds', a, x)
              = ((spt + e * M) + u) \div M + ((mar + (-e) * M) \div M) + z
    BY <1>11, <1>14, <2>2 DEF Worth
  <2> HIDE DEF spt, mar, e, z, u
  <2>5. (spt + e * M) + u = i + e * M /\ i \in Int
    <3> DEFINE g == e * M
    <3>1. g \in Int
      BY <1>1, <1>13
    <3> HIDE DEF g
    <3>2. (spt + g) + u = (spt + u) + g /\ spt + u \in Int
      BY <1>13, <2>1, <3>1
    <3> QED BY <3>2 DEF g
  <2> HIDE DEF i, M
  <2>6. M \in Nat /\ M > 0
    BY <1>1 DEF M
  <2>7. (i + e * M) \div M = (i \div M) + e
    BY <1>13, <2>5, <2>6, WholeUnits
  <2>8. (mar + (-e) * M) \div M = (mar \div M) + (-e)
    <3> DEFINE g == -e
    <3>1. g \in Int
      BY <1>13
    <3> HIDE DEF g
    <3>2. (mar + g * M) \div M = (mar \div M) + g
      BY <1>13, <2>6, <3>1, WholeUnits
    <3> QED BY <3>2 DEF g
  <2>9. i \div M \in Int /\ mar \div M \in Int
    BY <1>13, <2>5, <2>6
  <2> QED BY <1>13, <2>3, <2>4, <2>5, <2>7, <2>8, <2>9
<1> QED BY <1>12, <1>15

\* The fund transactions tell what they change.
LEMMA FundsTell ==
    ASSUME SelfFees \subseteq {0}, Books, Books', PublishedMatches, FundSteps
    PROVE  PublishedMatches'
<1>0. USDC \in Asset /\ Default \in Strategy /\ FeeAccount \in Account /\ funds \in RawFunds
  BY Constants, BooksTyped
<1>1. ASSUME NEW a \in Account, NEW x \in Asset, NEW n \in Nat, NEW side \in Products,
             L1Deposit(a, x, n, side)
      PROVE  PublishedMatches'
  <2>1. PICK m \in Int : Credited(funds, funds', a, x, side, n * Mult[x], m, Default)
    BY <1>1, DepositEffect
  <2>2. Touches(funds, funds', {a}, {x})
    BY <2>1, WorthCredited
  <2>3. Publish({a}, {x}, TRUE)
    BY <1>1 DEF L1Deposit
  <2> QED BY <2>2, <2>3, Told
<1>2. ASSUME NEW a \in Account, NEW x \in Asset, NEW n \in Units, NEW side \in Products,
             L1Withdraw(a, x, n, side) \/ L2Withdraw(a, x, n, side)
      PROVE  PublishedMatches'
  <2>1. IsUser(a) /\ Withdraw(a, x, n, side)
    BY <1>2 DEF L1Withdraw, L2Withdraw
  <2>2. PICK m \in Int : Credited(funds, funds', a, x, side, -(n * Mult[x]), m, Default)
    BY <2>1, WithdrawEffect
  <2>3. Touches(funds, funds', {a}, {x})
    BY <2>2, WorthCredited
  <2>4. Publish({a}, {x}, TRUE)
    BY <2>1 DEF Withdraw
  <2> QED BY <2>3, <2>4, Told
<1>3. ASSUME NEW a \in Account, NEW mode \in {Simple, Unified}, L2UpdateAccountConfig(a, mode)
      PROVE  PublishedMatches'
  <2>1. PICK m \in Int : Moved(funds, funds', FundAccounts, a, USDC, m, -m, Default)
    BY <1>3, AccountConfigEffect
  <2>2. Touches(funds, funds', {a}, {USDC})
    BY <2>1, WorthMoved
  <2>3. Publish({a}, {USDC}, TRUE)
    BY <1>3 DEF L2UpdateAccountConfig
  <2> QED BY <2>2, <2>3, Told
<1>4. ASSUME NEW a \in Account, NEW x \in Asset, NEW enable \in BOOLEAN,
             L2UpdateAccountAssetConfig(a, x, enable)
      PROVE  PublishedMatches'
  <2>1. PICK m \in Int : Moved(funds, funds', FundAccounts, a, x, m, -m, Default)
    BY <1>4, ReassignEffect
  <2>2. Touches(funds, funds', {a}, {x})
    BY <2>1, WorthMoved
  <2>3. Publish({a}, {x}, TRUE)
    BY <1>4 DEF L2UpdateAccountAssetConfig
  <2> QED BY <2>2, <2>3, Told
<1>5. ASSUME NEW a \in Account, NEW n \in Units, NEW adding \in BOOLEAN,
             L2UpdateMargin(a, n, adding)
      PROVE  PublishedMatches'
  <2> DEFINE d == IF adding THEN n * Mult[USDC] ELSE -(n * Mult[USDC])
  <2>1. PICK moved : MarginSteps(a, d, moved)
    BY <1>5, UpdateMarginEffect
  <2>2. /\ Moved(funds, moved, FundAccounts, a, USDC, -d, 0, Default)
        /\ funds'.spot = moved.spot /\ funds'.margin = moved.margin
        /\ funds'.unlocks = moved.unlocks
        /\ \A b \in Account : b # a => funds'.allocated[b] = moved.allocated[b]
    BY <2>1 DEF MarginSteps
  <2>3. ASSUME NEW b \in Account, NEW y \in Asset, ~(b \in {a} /\ y \in {USDC})
        PROVE  Worth(funds', b, y) = Worth(funds, b, y)
    <3>1. Worth(moved, b, y) = Worth(funds, b, y)
      <4>1. Touches(funds, moved, {a}, {USDC})
        BY <2>2, WorthMoved
      <4> QED BY <2>3, <4>1 DEF Touches
    <3>2. Same(moved, funds', b, y) /\ (y = USDC => funds'.allocated[b] = moved.allocated[b])
      BY <2>2, <2>3 DEF Same
    <3>3. Worth(funds', b, y) = Worth(moved, b, y)
      BY <2>2, <3>2, WorthSame
    <3> QED BY <3>1, <3>3
  <2>4. Publish({a}, {USDC}, TRUE)
    BY <1>5 DEF L2UpdateMargin
  <2>5. Touches(funds, funds', {a}, {USDC})
    BY <2>3 DEF Touches
  <2> QED BY <2>4, <2>5, Told
<1>6. ASSUME NEW a \in Account, NEW s \in Strategy, NEW t \in Strategy, NEW n \in Units,
             L2StrategyTransfer(a, s, t, n)
      PROVE  PublishedMatches'
  <2>1. /\ funds'.spot = funds.spot /\ funds'.margin = funds.margin
        /\ funds'.allocated = funds.allocated /\ funds'.unlocks = funds.unlocks
    BY <1>6, StrategyTransferEffect DEF StrategySteps
  <2>2. \A b \in Account, y \in Asset : Worth(funds', b, y) = Worth(funds, b, y)
    BY <2>1, WorthSame DEF Same
  <2>3. published' = published
    BY <1>6 DEF L2StrategyTransfer
  <2> QED BY <2>2, <2>3, NothingToTell
<1>7. ASSUME NEW a \in Account, NEW x \in Asset, NEW n, LockBalance(a, x, n)
      PROVE  PublishedMatches'
  BY <1>7 DEF LockBalance, PublishedMatches
<1>8. ASSUME NEW a \in Account, NEW b \in Account, NEW x \in Asset, NEW n \in Units,
             NEW fee \in Fees, NEW from \in Products, NEW to \in Products, NEW s \in Strategy,
             a = b => fee \in SelfFees,
             L2Transfer(a, b, x, n, fee, from, to, s)
      PROVE  PublishedMatches'
  <2>1. Publish({a, b, FeeAccount}, {x, USDC}, a # b)
    BY <1>8 DEF L2Transfer
  <2>2. CASE a = b
    <3>1. fee = 0
      BY <1>8, <2>2
    <3>2. \A c \in Account, y \in Asset : Worth(funds', c, y) = Worth(funds, c, y)
      BY <1>8, <2>2, <3>1, SelfTransferUntold
    <3>3. \A c \in Account, y \in Asset : published'[c][y] = published[c][y] + 0
      BY <2>1, <2>2 DEF Publish
    <3>4. \A c \in Account, y \in Asset : published[c][y] \in Int
      BY <1>0, WorthTyped DEF PublishedMatches
    <3> QED BY <3>2, <3>3, <3>4, NothingToTell
  <2>3. CASE a # b
    <3> DEFINE d == n * Mult[x]
               f == fee * Mult[USDC]
    <3>1. PICK sent, paid, earned, m, k, l :
              TransferSteps(a, b, x, d, f, from, to, s, sent, paid, earned, m, k, l)
      BY <1>8, TransferEffect
    <3> HIDE DEF d, f
    <3> DEFINE v == -(d + IF x = USDC THEN f ELSE 0)
               w == IF x = USDC THEN 0 ELSE -f
    <3>2. /\ Credited(funds, sent, a, x, from, v, m, s)
          /\ Credited(sent, paid, a, USDC, from, w, k, s)
          /\ Moved(paid, earned, FundAccounts, FeeAccount, USDC, f, 0, s)
          /\ Credited(earned, funds', b, x, to, d, l, s)
      BY <3>1 DEF TransferSteps
    <3> HIDE DEF v, w
    <3>3. /\ Touches(funds, sent, {a}, {x}) /\ Touches(sent, paid, {a}, {USDC})
          /\ Touches(paid, earned, {FeeAccount}, {USDC}) /\ Touches(earned, funds', {b}, {x})
      BY <3>2, WorthCredited, WorthMoved
    <3>4. Touches(funds, funds', {a, b, FeeAccount}, {x, USDC})
      BY <3>3 DEF Touches
    <3>5. Publish({a, b, FeeAccount}, {x, USDC}, TRUE)
      BY <2>1, <2>3 DEF Publish
    <3> QED BY <3>4, <3>5, Told
  <2> QED BY <2>2, <2>3
<1>9. ASSUME NEW a \in Traders, NEW b \in Traders, NEW t \in Trades, NEW c \in Integrators,
             NEW takerSells \in BOOLEAN, SpotTrade(a, b, t, c, takerSells)
      PROVE  PublishedMatches'
  <2>1. Publish({a, b, Treasury}, {t.base, t.quote}, TRUE)
    BY <1>9 DEF SpotTrade
  <2>2. PICK sold, bought, paid, received, based, m :
            FillSteps(a, b, t, sold, bought, paid, received, based, m)
    BY <1>9, SpotTradeEffect
  <2> DEFINE feeBase == Collected(Treasury, a, b, t.feeBase)
             feeQuote == Collected(Treasury, a, b, t.feeQuote)
  <2>3. /\ Credited(funds, sold, a, t.base, Spot, Sells(t, a), m[1], SpotStrategy)
        /\ Credited(sold, bought, b, t.base, Spot, GetsBase(t, b), m[2], SpotStrategy)
        /\ Credited(bought, paid, b, t.quote, Spot, Pays(t, b), m[3], SpotStrategy)
        /\ Credited(paid, received, a, t.quote, Spot, GetsQuote(t, a), m[4], SpotStrategy)
        /\ Credited(received, based, Treasury, t.base, Spot, feeBase, m[5], Default)
        /\ Credited(based, funds', Treasury, t.quote, Spot, feeQuote, m[6], Default)
    BY <2>2 DEF FillSteps
  <2> HIDE DEF feeBase, feeQuote
  <2>4. /\ Touches(funds, sold, {a}, {t.base}) /\ Touches(sold, bought, {b}, {t.base})
        /\ Touches(bought, paid, {b}, {t.quote}) /\ Touches(paid, received, {a}, {t.quote})
        /\ Touches(received, based, {Treasury}, {t.base})
        /\ Touches(based, funds', {Treasury}, {t.quote})
    BY <2>3, WorthCredited
  <2>5. Touches(funds, funds', {a, b, Treasury}, {t.base, t.quote})
    BY <2>4 DEF Touches
  <2> QED BY <2>1, <2>5, Told
<1>10. ASSUME NEW s \in Strategy, InternalTransfer(s) PROVE PublishedMatches'
  <2> DEFINE i == Head(transfers)
             d == i.units * Mult[i.asset]
             e == -(i.units * Mult[i.asset])
  <2>1. /\ Publish({i.from, i.to}, {i.asset}, TRUE)
        /\ \E paid, m, k : /\ Credited(funds, paid, i.from, i.asset, Spot, e, m, s)
                           /\ Credited(paid, funds', i.to, i.asset, Spot, d, k, s)
    BY <1>10, InternalTransferEffect DEF InternalTransfer
  <2>2. PICK paid, m, k : /\ Credited(funds, paid, i.from, i.asset, Spot, e, m, s)
                          /\ Credited(paid, funds', i.to, i.asset, Spot, d, k, s)
    BY <2>1
  <2> HIDE DEF i, d, e
  <2>3. Touches(funds, paid, {i.from}, {i.asset}) /\ Touches(paid, funds', {i.to}, {i.asset})
    BY <2>2, WorthCredited
  <2>4. Touches(funds, funds', {i.from, i.to}, {i.asset})
    BY <2>3 DEF Touches
  <2> QED BY <2>1, <2>4, Told
<1>11. \A n \in {0} \union Units : n \in Nat
  BY Constants
<1>12. CASE Deposits
  BY <1>1, <1>11, <1>12 DEF Deposits
<1>13. CASE Withdrawals
  BY <1>2, <1>13 DEF Withdrawals
<1>14. CASE Modes
  BY <1>3, <1>14 DEF Modes
<1>15. CASE Settings
  BY <1>4, <1>5, <1>6, <1>15 DEF Settings
<1>16. CASE Orders
  BY <1>7, <1>16, Constants DEF Orders
<1>17. CASE Transfers
  BY <1>0, <1>8, <1>17 DEF Transfers
<1>18. CASE Fills
  BY <1>9, <1>18 DEF Fills
<1>19. CASE Payments
  BY <1>10, <1>19 DEF Payments
<1> QED BY <1>12, <1>13, <1>14, <1>15, <1>16, <1>17, <1>18, <1>19 DEF FundSteps

\* So do the fills and the payouts of a market on an outcome.
LEMMA ExchangeTells ==
    ASSUME SelfFees \subseteq {0}, OptionsInv, Books, Books', PublishedMatches,
           [Next]_<<fundVars, optionVars>>
    PROVE  PublishedMatches'
<1>1. CASE FundSteps
  BY <1>1, FundsTell
<1>2. CASE UNCHANGED fundVars
  BY <1>2 DEF fundVars, PublishedMatches
<1>3. ASSUME NEW a \in Account, SettlePosition(a) PROVE PublishedMatches'
  <2> DEFINE d == Tick * Payout(options[a], slot.price)
  <2>1. PICK m \in Int : Credited(funds, funds', a, USDC, Spot, d, m, Default)
    BY <1>3, PayoutEffect DEF OptionsInv
  <2> HIDE DEF d
  <2>2. Touches(funds, funds', {a}, {USDC})
    BY <2>1, WorthCredited
  <2>3. Publish({a}, {USDC}, TRUE)
    BY <1>3 DEF SettlePosition
  <2> QED BY <2>2, <2>3, Told
<1>4. ASSUME NEW a \in Traders, NEW b \in Traders, NEW deal \in Deals, NEW c \in Integrators,
             NEW takerSells \in BOOLEAN, NEW filled \in BOOLEAN,
             Trade(a, b, deal, c, takerSells, filled)
      PROVE  PublishedMatches'
  <2>1. PICK paid, settled, m, k, l :
            OutcomeSteps(a, b, deal, takerSells, paid, settled, m, k, l)
    BY <1>4, TradeEffect DEF OptionsInv
  <2>2. /\ Credited(funds, paid, a, USDC, Spot, BuyerGets(a, deal, takerSells), m, Default)
        /\ Credited(paid, settled, b, USDC, Spot, SellerGets(b, deal, takerSells), k, Default)
        /\ Credited(settled, funds', slot.collector, USDC, Spot, FeesGot(a, b, deal), l, Default)
    BY <2>1 DEF OutcomeSteps
  <2>3. /\ Touches(funds, paid, {a}, {USDC}) /\ Touches(paid, settled, {b}, {USDC})
        /\ Touches(settled, funds', {slot.collector}, {USDC})
    BY <2>2, WorthCredited
  <2>4. Touches(funds, funds', {a, b, slot.collector}, {USDC})
    BY <2>3 DEF Touches
  <2>5. Publish({a, b, slot.collector}, {USDC}, TRUE)
    BY <1>4 DEF Trade
  <2> QED BY <2>4, <2>5, Told
<1>5. CASE Operate
  BY <1>2, <1>5 DEF Operate, UpdateMarketSlot, CreateMarket, UpdateMarket, SettleOutcome
<1>6. ASSUME NEW a, RestOrder(a) \/ CancelOrder(a) PROVE UNCHANGED fundVars
  BY <1>6 DEF RestOrder, CancelOrder
<1>7. CASE Bets
  BY <1>2, <1>3, <1>4, <1>6, <1>7, Constants DEF Bets
<1> QED BY <1>1, <1>2, <1>5, <1>7 DEF Next, fundVars

\* As long as a transfer within an account takes no fee, what the blocks publish adds up to
\* the balances, in every unit of L1: the desert exit pays what there is.  One that takes a
\* fee is not told, as the run SelfTransferFee shows.
THEOREM PublicDataAddsUp == SelfFees \subseteq {0} => (Spec => []PublishedMatches)
<1> SUFFICES ASSUME SelfFees \subseteq {0} PROVE Spec => []PublishedMatches
  OBVIOUS
<1>1. Init => PublishedMatches
  BY DEF Init, FundsInit, PublishedMatches
<1>2. ExchangeInv /\ ExchangeInv' /\ PublishedMatches /\ [Next]_<<fundVars, optionVars>>
         => PublishedMatches'
  BY ExchangeTells DEF ExchangeInv
<1>3. Spec => []ExchangeInv
  BY ExchangeHolds
<1> QED BY <1>1, <1>2, <1>3, PTL DEF Spec

-----------------------------------------------------------------------------
(* What resting orders lock. *)

\* Only users have orders that lock something.
OnlyUsersLock ==
    \A a \in Account : IsUser(a) \/ \A x \in Asset : locked[a][x] = 0

\* What a step that leaves the lock of x in account a uncovered gives in return.
LockHeld(a, x) ==
    \/ Holds(funds', a, x) >= Holds(funds, a, x)
    \/ Backs(funds', a, x) >= Backs(funds, a, x)
    \/ Backs(funds', a, x) >= locked[a][x]
Returned(a) ==
    \/ options'[a].size # options[a].size
    \/ \E x \in Asset : Holds(funds', a, x) > Holds(funds, a, x)
LocksHeld ==
    \A a \in Account : a \in Payer \/ Returned(a) \/ \A x \in Asset : LockHeld(a, x)

\* What an account has is a number.
LEMMA HoldsTyped ==
    ASSUME NEW F \in RawFunds, NEW a \in Account, NEW x \in Asset
    PROVE  Holds(F, a, x) \in Int /\ Backs(F, a, x) \in Int
<1>1. F.spot[a][x] \in Int /\ F.margin[a][x] \in Int
  BY DEF RawFunds, Tables
<1> QED BY <1>1 DEF Holds, Backs

\* From F to G account a gets n of x, and no other balance changes; what is behind its
\* locks grows by n.
HoldsMore(F, G, a, x, n) ==
    /\ Holds(G, a, x) = Holds(F, a, x) + n
    /\ \A b \in Account, y \in Asset : b # a \/ y # x =>
          Holds(G, b, y) = Holds(F, b, y) /\ Backs(G, b, y) = Backs(F, b, y)
BacksMore(F, G, a, x, n) == Backs(G, a, x) = Backs(F, a, x) + n

\* Of v that comes to a side of an account, what is behind the locks: in simple mode the
\* margin side is behind none.
Backing(a, side, v) == IF Mode(a) = Simple /\ side = Perps THEN 0 ELSE v

\* A movement changes what one account has of one asset.
LEMMA HoldsMoved ==
    ASSUME NEW F, NEW G, NEW K, NEW a, NEW x, NEW s, NEW m \in Int, NEW r \in Int,
           Moved(F, G, K, a, x, m, r, s), F \in RawFunds, a \in Account, x \in Asset
    PROVE  /\ G \in RawFunds
           /\ HoldsMore(F, G, a, x, r + m)
           /\ Mode(a) = Unified => BacksMore(F, G, a, x, r + m)
           /\ Mode(a) # Unified => BacksMore(F, G, a, x, r)
<1>1. F.spot[a][x] \in Int /\ F.margin[a][x] \in Int
  BY DEF RawFunds, Tables
<1>2. G.spot[a][x] = F.spot[a][x] + r /\ G.margin[a][x] = F.margin[a][x] + m
  BY DEF Moved
<1>3. \A b \in Account, y \in Asset : b # a \/ y # x =>
          Holds(G, b, y) = Holds(F, b, y) /\ Backs(G, b, y) = Backs(F, b, y)
  BY DEF Moved, Same, Holds, Backs
<1>4. G \in RawFunds
  BY DEF Moved
<1>5. Holds(G, a, x) = Holds(F, a, x) + (r + m)
  BY <1>1, <1>2 DEF Holds
<1>6. /\ Mode(a) = Unified => Backs(G, a, x) = Backs(F, a, x) + (r + m)
      /\ Mode(a) # Unified => Backs(G, a, x) = Backs(F, a, x) + r
  BY <1>1, <1>2 DEF Backs
<1> QED BY <1>3, <1>4, <1>5, <1>6 DEF HoldsMore, BacksMore

\* A part of a transaction brings what it says, on a side that is behind the locks or not.
LEMMA HoldsCredited ==
    ASSUME NEW F, NEW G, NEW a, NEW x, NEW side, NEW m, NEW s, NEW d \in Int,
           Credited(F, G, a, x, side, d, m, s), AccountsTyped, F \in RawFunds,
           a \in Account, x \in Asset, side \in Products
    PROVE  /\ G \in RawFunds
           /\ HoldsMore(F, G, a, x, d)
           /\ ~IsFund(a) \/ Mode(a) = Unified => BacksMore(F, G, a, x, Backing(a, side, d))
<1> DEFINE r == d - m
<1>1. m \in Int /\ r \in Int /\ Moved(F, G, FundAccounts, a, x, m, r, s)
  BY DEF Credited
<1>2. /\ r + m = d
      /\ Mode(a) \in {Simple, Unified} /\ Simple # Unified
      /\ Mode(a) = Simple /\ ~IsFund(a) => m = IF side = Perps THEN d ELSE 0
  BY <1>1 DEF Credited, AccountsTyped, Simple, Unified
<1>3. ~IsFund(a) /\ Mode(a) = Simple => r = Backing(a, side, d)
  BY <1>1, <1>2 DEF Backing
<1>4. Mode(a) = Unified => d = Backing(a, side, d)
  BY <1>2 DEF Backing
<1> HIDE DEF r
<1>5. /\ G \in RawFunds
      /\ HoldsMore(F, G, a, x, r + m)
      /\ Mode(a) = Unified => BacksMore(F, G, a, x, r + m)
      /\ Mode(a) # Unified => BacksMore(F, G, a, x, r)
  BY <1>1, HoldsMoved
<1> QED BY <1>1, <1>2, <1>3, <1>4, <1>5

\* What a payment may take where the locks of orders count.
Free(a, x, side) == Available(a, x, side, FALSE)

\* What is available for a payment leaves what the locks take of the sides behind them.
LEMMA AvailableBacks ==
    ASSUME NEW a, NEW x, NEW side, NEW v \in Int, v > 0, v <= Free(a, x, side),
           Books, LocksTyped, a \in Account, x \in Asset, side \in Products
    PROVE  \/ Mode(a) = Simple /\ side = Perps
           \/ v + locked[a][x] <= Backs(funds, a, x)
<1> DEFINE val == Value(funds, a)
           mar == funds.margin[a][x]
           spt == funds.spot[a][x]
           loc == locked[a][x]
           am == AvailableMargin(a, x)
<1>1. /\ funds \in RawFunds /\ IsFiniteSet(Asset) /\ Sound(funds, FundAccounts, ModeOf, useMargin)
      /\ Mode(a) \in {Simple, Unified} /\ Simple # Unified /\ Spot # Perps /\ side \in {Spot, Perps}
  BY BooksTyped, BalancesAssumption DEF Simple, Unified, Spot, Perps, Products
<1>2. val \in Int /\ mar \in Int /\ spt \in Int
  <2>1. \A y \in Asset : funds.margin[a][y] \in Int
    BY <1>1 DEF RawFunds, Tables
  <2> DEFINE f == funds.margin[a]
  <2>2. \A y \in Asset : f[y] \in Int
    BY <2>1
  <2> HIDE DEF f
  <2>3. SumFunctionOnSet(f, Asset) \in Int
    BY <1>1, <2>2, SumInt
  <2>4. val \in Int
    BY <2>3 DEF Value, f
  <2> QED BY <1>1, <2>1, <2>4 DEF RawFunds, Tables
<1>3. loc \in Int /\ loc >= 0
  BY FundTransactionsAssumption DEF LocksTyped
<1>4. /\ x # USDC => mar >= 0
      /\ spt >= 0
      /\ Mode(a) = Unified /\ x = USDC => spt = 0
  <2>1. Cell(funds, FundAccounts, ModeOf, useMargin, a, x)
    BY <1>1 DEF Sound
  <2>2. ModeOf[a] = Mode(a)
    BY DEF ModeOf
  <2> QED BY <2>1, <2>2 DEF Cell
<1>5. am \in Int /\ am >= 0 /\ (am > 0 => am <= mar)
  <2>1. am = Positive(Lesser(val, mar))
    BY DEF AvailableMargin
  <2> HIDE DEF val, mar, am
  <2> QED BY <1>2, <2>1 DEF Positive, Lesser
<1>6. Backs(funds, a, x) = spt + IF Mode(a) = Unified THEN mar ELSE 0
  BY DEF Backs
<1>7. CASE Mode(a) = Simple /\ side = Spot
  <2>1. v <= Positive(spt - loc)
    BY <1>7 DEF Free, Available, AvailableSpot
  <2> HIDE DEF spt, loc
  <2>2. v <= spt - loc
    BY <1>2, <1>3, <2>1 DEF Positive
  <2> QED BY <1>1, <1>2, <1>3, <1>6, <1>7, <2>2 DEF loc
<1>8. CASE Mode(a) = Unified /\ ~UsedAsMargin(a, x)
  <2>1. v <= Positive(spt - loc)
    BY <1>1, <1>8 DEF Free, Available, AvailableSpot
  <2> HIDE DEF spt, loc, mar
  <2>2. v <= spt - loc
    BY <1>2, <1>3, <2>1 DEF Positive
  <2>3. mar >= 0
    BY <1>4, <1>8 DEF UsedAsMargin
  <2> QED BY <1>1, <1>2, <1>3, <1>6, <1>8, <2>2, <2>3 DEF loc
<1>9. CASE Mode(a) = Unified /\ UsedAsMargin(a, x)
  <2> DEFINE onSpot == IF side = Spot THEN spt ELSE 0
             offSide == IF side = Perps THEN spt ELSE 0
  <2>1. v <= Positive(am + onSpot - Positive(loc - offSide))
    BY <1>1, <1>9 DEF Free, Available
  <2>2. /\ onSpot \in Int /\ offSide \in Int /\ onSpot + offSide = spt
        /\ onSpot >= 0 /\ offSide >= 0 /\ (x = USDC => onSpot = 0)
    BY <1>1, <1>2, <1>4, <1>9
  <2> HIDE DEF onSpot, offSide, am, loc, spt, mar
  <2>3. Positive(loc - offSide) \in Int /\ Positive(loc - offSide) >= loc - offSide
    BY <1>3, <2>2 DEF Positive
  <2>4. v <= am + onSpot - Positive(loc - offSide)
    BY <1>5, <2>1, <2>2, <2>3 DEF Positive
  <2>5. am <= mar
    <3>1. CASE x = USDC
      <4>1. Positive(loc - offSide) >= 0
        BY <1>3, <2>2 DEF Positive
      <4> QED BY <1>2, <1>5, <2>2, <2>3, <2>4, <3>1, <4>1
    <3>2. CASE x # USDC
      BY <1>2, <1>4, <1>5, <3>2
    <3> QED BY <3>1, <3>2
  <2>6. v + loc <= spt + mar
    BY <1>2, <1>3, <1>5, <2>2, <2>3, <2>4, <2>5
  <2> QED BY <1>6, <1>9, <2>6 DEF loc
<1> QED BY <1>1, <1>7, <1>8, <1>9

\* A payment of what is available leaves the lock covered.
LEMMA PaymentHeld ==
    ASSUME NEW a, NEW x, NEW side, NEW v \in Int, v >= 0,
           v <= Free(a, x, side) \/ v = 0,
           Backs(funds', a, x) >= Backs(funds, a, x) - Backing(a, side, v),
           Books, LocksTyped, funds' \in RawFunds,
           a \in Account, x \in Asset, side \in Products
    PROVE  LockHeld(a, x)
<1>1. /\ Backs(funds, a, x) \in Int /\ Backs(funds', a, x) \in Int /\ locked[a][x] \in Int
  BY BooksTyped, HoldsTyped, FundTransactionsAssumption DEF LocksTyped
<1>2. CASE v = 0
  BY <1>1, <1>2 DEF LockHeld, Backing
<1>3. CASE v > 0
  <2>1. \/ Mode(a) = Simple /\ side = Perps
        \/ v + locked[a][x] <= Backs(funds, a, x)
    BY <1>3, AvailableBacks
  <2> QED BY <1>1, <2>1 DEF LockHeld, Backing
<1> QED BY <1>2, <1>3

\* Where no debt backs it, nothing is missing from a lock of nothing.
LEMMA NothingLocked ==
    ASSUME Books, Books', UNCHANGED account, NEW a \in Account, NEW x \in Asset,
           locked[a][x] = 0, Mode(a) # Unified \/ x # USDC
    PROVE  LockHeld(a, x)
<1>1. funds'.spot[a][x] \in Int /\ funds'.margin[a][x] \in Int
  BY DEF Books, Placed, Sound, RawFunds, Tables
<1>2. funds'.spot[a][x] >= 0 /\ (x # USDC => funds'.margin[a][x] >= 0)
  BY DEF Books, Placed, Sound, Cell
<1>3. Backs(funds', a, x) >= 0
  BY <1>1, <1>2 DEF Backs
<1> QED BY <1>3 DEF LockHeld

\* A transaction of one account with L1 or with itself: x comes to it, or leaves it out of
\* what is available, and nothing else changes.
LEMMA OneSideHeld ==
    ASSUME NEW a, NEW x, NEW side, NEW m, NEW s, NEW d \in Int,
           Credited(funds, funds', a, x, side, d, m, s),
           d >= 0 \/ (~IsFund(a) /\ -d <= Free(a, x, side)),
           Books, Books', LocksTyped, a \in Account, x \in Asset, side \in Products
    PROVE  LocksHeld
<1>1. AccountsTyped /\ funds \in RawFunds
  BY BooksTyped
<1>2. /\ funds' \in RawFunds
      /\ HoldsMore(funds, funds', a, x, d)
      /\ ~IsFund(a) => BacksMore(funds, funds', a, x, Backing(a, side, d))
  BY <1>1, HoldsCredited
<1>3. ASSUME NEW b \in Account, NEW y \in Asset PROVE LockHeld(b, y)
  <2>1. CASE b # a \/ y # x
    <3>1. Holds(funds', b, y) = Holds(funds, b, y) /\ Holds(funds, b, y) \in Int
      BY <1>1, <1>2, <2>1, HoldsTyped DEF HoldsMore
    <3> QED BY <3>1 DEF LockHeld
  <2>2. CASE b = a /\ y = x /\ d >= 0
    <3>1. Holds(funds, a, x) \in Int
      BY <1>1, HoldsTyped
    <3> QED BY <1>2, <2>2, <3>1 DEF LockHeld, HoldsMore
  <2>3. CASE b = a /\ y = x /\ d < 0
    <3> DEFINE v == -d
    <3>1. v \in Int /\ v >= 0 /\ v <= Free(a, x, side) /\ ~IsFund(a) /\ d = -v
      BY <2>3
    <3>2. Backs(funds, a, x) \in Int
      BY <1>1, HoldsTyped
    <3> HIDE DEF v
    <3>3. Backs(funds', a, x) >= Backs(funds, a, x) - Backing(a, side, v)
      BY <1>2, <3>1, <3>2 DEF BacksMore, Backing
    <3>4. LockHeld(a, x)
      BY <1>2, <3>1, <3>3, PaymentHeld
    <3> QED BY <2>3, <3>4
  <2> QED BY <2>1, <2>2, <2>3
<1> QED BY <1>3 DEF LocksHeld

\* What moves between the two sides of an account leaves nothing.
LEMMA WithinHeld ==
    ASSUME Books, \A a \in Account, x \in Asset : Holds(funds', a, x) = Holds(funds, a, x)
    PROVE  LocksHeld
<1>1. \A a \in Account, x \in Asset : Holds(funds, a, x) \in Int
  BY BooksTyped, HoldsTyped
<1> QED BY <1>1 DEF LocksHeld, LockHeld

\* Collateral set aside for an isolated position is taken from what is available.
LEMMA UpdateMarginHeld ==
    ASSUME Books, Books', LocksTyped,
           NEW a \in Account, NEW n \in Units, NEW adding \in BOOLEAN,
           L2UpdateMargin(a, n, adding)
    PROVE  LocksHeld
<1> DEFINE v == n * Mult[USDC]
           e == IF adding THEN v ELSE -v
           g == -e
<1>1. /\ v \in Int /\ v >= 0 /\ e \in Int /\ g \in Int /\ USDC \in Asset /\ Default \in Strategy
      /\ funds \in RawFunds /\ AccountsTyped
  BY UnitsExtended, Constants, BooksTyped
<1>2. PICK moved : MarginSteps(a, e, moved)
  BY UpdateMarginEffect
<1>3. /\ Moved(funds, moved, FundAccounts, a, USDC, g, 0, Default)
      /\ funds'.spot = moved.spot /\ funds'.margin = moved.margin
  BY <1>2 DEF MarginSteps
<1>4. adding => v <= Free(a, USDC, Perps)
  BY DEF L2UpdateMargin, Free
<1>5. g = IF adding THEN -v ELSE v
  BY <1>1
<1> HIDE DEF v, e, g
<1>6. /\ moved \in RawFunds
      /\ Holds(moved, a, USDC) = Holds(funds, a, USDC) + (0 + g)
      /\ Backs(moved, a, USDC) = Backs(funds, a, USDC) + (0 + IF Mode(a) = Unified THEN g ELSE 0)
      /\ \A b \in Account, y \in Asset : b # a \/ y # USDC =>
            Holds(moved, b, y) = Holds(funds, b, y) /\ Backs(moved, b, y) = Backs(funds, b, y)
  <2>1. /\ moved \in RawFunds
        /\ HoldsMore(funds, moved, a, USDC, 0 + g)
        /\ Mode(a) = Unified => BacksMore(funds, moved, a, USDC, 0 + g)
        /\ Mode(a) # Unified => BacksMore(funds, moved, a, USDC, 0)
    BY <1>1, <1>3, HoldsMoved
  <2> QED BY <2>1 DEF HoldsMore, BacksMore
<1>7. \A b \in Account, y \in Asset :
          Holds(funds', b, y) = Holds(moved, b, y) /\ Backs(funds', b, y) = Backs(moved, b, y)
  BY <1>3 DEF Holds, Backs
<1>8. funds' \in RawFunds
  BY DEF Books, Placed, Sound
<1>9. ASSUME NEW b \in Account, NEW y \in Asset PROVE LockHeld(b, y)
  <2>1. CASE b # a \/ y # USDC
    <3>1. Holds(funds', b, y) = Holds(funds, b, y) /\ Holds(funds, b, y) \in Int
      BY <1>1, <1>6, <1>7, <2>1, HoldsTyped
    <3> QED BY <3>1 DEF LockHeld
  <2>2. CASE b = a /\ y = USDC /\ ~adding
    <3>1. Holds(funds, a, USDC) \in Int /\ Holds(funds', a, USDC) = Holds(funds, a, USDC) + v
      BY <1>1, <1>5, <1>6, <1>7, <2>2, HoldsTyped
    <3> QED BY <1>1, <2>2, <3>1 DEF LockHeld
  <2>3. CASE b = a /\ y = USDC /\ adding
    <3>1. Backs(funds, a, USDC) \in Int /\ Perps \in Products /\ Mode(a) \in {Simple, Unified}
          /\ Simple # Unified
      BY <1>1, HoldsTyped DEF Products, AccountsTyped, Simple, Unified
    <3>2. Backs(funds', a, USDC) >= Backs(funds, a, USDC) - Backing(a, Perps, v)
      BY <1>1, <1>5, <1>6, <1>7, <2>3, <3>1 DEF Backing
    <3>3. LockHeld(a, USDC)
      BY <1>1, <1>4, <1>8, <2>3, <3>1, <3>2, PaymentHeld
    <3> QED BY <2>3, <3>3
  <2> QED BY <2>1, <2>2, <2>3
<1> QED BY <1>9 DEF LocksHeld

\* Whoever pays in a fill gets more of another asset than nothing, and the treasury gets
\* the fees.
LEMMA SpotTradeReturns ==
    ASSUME Books, NEW a \in Traders, NEW b \in Traders, NEW t \in Trades,
           NEW c \in Integrators, NEW takerSells \in BOOLEAN,
           SpotTrade(a, b, t, c, takerSells)
    PROVE  LocksHeld
<1> DEFINE out == Sells(t, a)
           in == GetsBase(t, b)
           pays == Pays(t, b)
           gets == GetsQuote(t, a)
           feeB == Collected(Treasury, a, b, t.feeBase)
           feeQ == Collected(Treasury, a, b, t.feeQuote)
<1>1. /\ a \in Account /\ b \in Account /\ Treasury \in Account /\ a # b
      /\ SpotStrategy \in Strategy /\ Spot \in Products
      /\ AccountsTyped /\ funds \in RawFunds
  BY Constants, BooksTyped DEF SpotTrade, Products
<1>2. t.base \in Asset /\ t.quote \in Asset /\ t.base # t.quote
  BY TradeTyped
<1>3. /\ out \in Int /\ in \in Int /\ pays \in Int /\ gets \in Int
      /\ in > 0 /\ gets > 0 /\ feeB \in Nat /\ feeQ \in Nat
  BY <1>1, FillAmounts, ZenonT(20)
<1>4. PICK sold, bought, paid, received, based, m :
          FillSteps(a, b, t, sold, bought, paid, received, based, m)
  BY SpotTradeEffect
<1>5. /\ Credited(funds, sold, a, t.base, Spot, out, m[1], SpotStrategy)
      /\ Credited(sold, bought, b, t.base, Spot, in, m[2], SpotStrategy)
      /\ Credited(bought, paid, b, t.quote, Spot, pays, m[3], SpotStrategy)
      /\ Credited(paid, received, a, t.quote, Spot, gets, m[4], SpotStrategy)
      /\ Credited(received, based, Treasury, t.base, Spot, feeB, m[5], Default)
      /\ Credited(based, funds', Treasury, t.quote, Spot, feeQ, m[6], Default)
  BY <1>4 DEF FillSteps
<1> HIDE DEF out, in, pays, gets, feeB, feeQ
<1>6. sold \in RawFunds /\ HoldsMore(funds, sold, a, t.base, out)
  BY <1>1, <1>2, <1>3, <1>5, HoldsCredited
<1>7. bought \in RawFunds /\ HoldsMore(sold, bought, b, t.base, in)
  BY <1>1, <1>2, <1>3, <1>5, <1>6, HoldsCredited
<1>8. paid \in RawFunds /\ HoldsMore(bought, paid, b, t.quote, pays)
  BY <1>1, <1>2, <1>3, <1>5, <1>7, HoldsCredited
<1>9. received \in RawFunds /\ HoldsMore(paid, received, a, t.quote, gets)
  BY <1>1, <1>2, <1>3, <1>5, <1>8, HoldsCredited
<1>10. based \in RawFunds /\ HoldsMore(received, based, Treasury, t.base, feeB)
  BY <1>1, <1>2, <1>3, <1>5, <1>9, HoldsCredited
<1>11. HoldsMore(based, funds', Treasury, t.quote, feeQ)
  BY <1>1, <1>2, <1>3, <1>5, <1>10, HoldsCredited
<1>12. \A z \in Account, y \in Asset :
           /\ Holds(funds, z, y) \in Int /\ Holds(received, z, y) \in Int
           /\ Holds(based, z, y) \in Int
  BY <1>1, <1>9, <1>10, HoldsTyped
<1>13. \A z \in Account, y \in Asset : Holds(funds', z, y) >= Holds(received, z, y)
  <2> TAKE z \in Account, y \in Asset
  <2>1. Holds(based, z, y) >= Holds(received, z, y)
    BY <1>3, <1>10, <1>12 DEF HoldsMore
  <2>2. Holds(funds', z, y) >= Holds(based, z, y)
    BY <1>3, <1>11, <1>12 DEF HoldsMore
  <2>3. Holds(funds', z, y) \in Int
    BY <1>3, <1>11, <1>12 DEF HoldsMore
  <2> QED BY <1>12, <2>1, <2>2, <2>3
<1>14. \A z \in Account, y \in Asset : Holds(funds', z, y) \in Int
  BY <1>3, <1>11, <1>12 DEF HoldsMore
<1>15. Returned(a)
  <2>1. Holds(received, a, t.quote) = Holds(funds, a, t.quote) + gets
    BY <1>1, <1>2, <1>6, <1>7, <1>8, <1>9 DEF HoldsMore
  <2>2. Holds(funds', a, t.quote) > Holds(funds, a, t.quote)
    BY <1>1, <1>2, <1>3, <1>12, <1>13, <1>14, <2>1
  <2> QED BY <1>2, <2>2 DEF Returned
<1>16. Returned(b)
  <2>1. Holds(received, b, t.base) = Holds(funds, b, t.base) + in
    BY <1>1, <1>2, <1>6, <1>7, <1>8, <1>9 DEF HoldsMore
  <2>2. Holds(funds', b, t.base) > Holds(funds, b, t.base)
    BY <1>1, <1>2, <1>3, <1>12, <1>13, <1>14, <2>1
  <2> QED BY <1>2, <2>2 DEF Returned
<1>17. ASSUME NEW z \in Account \ {a, b}, NEW y \in Asset PROVE LockHeld(z, y)
  <2>1. Holds(received, z, y) = Holds(funds, z, y)
    BY <1>6, <1>7, <1>8, <1>9 DEF HoldsMore
  <2>2. Holds(funds', z, y) >= Holds(funds, z, y)
    BY <1>13, <2>1
  <2> QED BY <2>2 DEF LockHeld
<1> QED BY <1>15, <1>16, <1>17 DEF LocksHeld

\* A transfer takes the amount and its fee out of what is available; one within an account
\* leaves what it has.
LEMMA TransferLeavesLocks ==
    ASSUME SelfFees \subseteq {0}, Books, Books', LocksTyped, OnlyUsersLock,
           NEW a \in Account, NEW b \in Account, NEW x \in Asset, NEW n \in Units,
           NEW fee \in Fees, NEW from \in Products, NEW to \in Products, NEW s \in Strategy,
           a = b => fee \in SelfFees, L2Transfer(a, b, x, n, fee, from, to, s)
    PROVE  LocksHeld
<1> DEFINE d == n * Mult[x]
           f == fee * Mult[USDC]
           v == d + (IF x = USDC THEN f ELSE 0)
           mv == -v
           w == IF x = USDC THEN 0 ELSE -f
<1>1. /\ d \in Int /\ d >= 0 /\ f \in Int /\ f >= 0 /\ v \in Int /\ v >= 0 /\ mv \in Int
      /\ w \in Int /\ funds \in RawFunds /\ AccountsTyped
      /\ USDC \in Asset /\ FeeAccount \in Account
  <2>1. d \in Int /\ d >= 0 /\ f \in Int /\ f >= 0
    BY UnitsExtended, Constants
  <2> HIDE DEF d, f
  <2> QED BY <2>1, Constants, BooksTyped
<1>2. PICK sent, paid, earned, m, k, l :
          TransferSteps(a, b, x, d, f, from, to, s, sent, paid, earned, m, k, l)
  BY TransferEffect
<1>3. /\ Credited(funds, sent, a, x, from, mv, m, s)
      /\ Credited(sent, paid, a, USDC, from, w, k, s)
      /\ Moved(paid, earned, FundAccounts, FeeAccount, USDC, f, 0, s)
      /\ Credited(earned, funds', b, x, to, d, l, s)
  BY <1>2 DEF TransferSteps
<1>4. a # b => v <= Free(a, x, from)
  <2> SUFFICES ASSUME a # b PROVE v <= Free(a, x, from)
    OBVIOUS
  <2>1. (a = b) = FALSE
    OBVIOUS
  <2>2. v <= IF a = b /\ from = Spot THEN funds.spot[a][x] ELSE Available(a, x, from, a = b)
    BY DEF L2Transfer
  <2> HIDE DEF v
  <2> QED BY <2>1, <2>2 DEF Free
<1>5. x # USDC => f <= Free(a, USDC, from)
  BY DEF L2Transfer, Free
<1>6. a = b => f = 0
  <2>1. a = b => fee = 0
    OBVIOUS
  <2>2. Mult[USDC] \in Nat
    BY <1>1, Constants
  <2> QED BY <2>1, <2>2
<1>7. /\ mv = -v /\ v = d + (IF x = USDC THEN f ELSE 0) /\ w = IF x = USDC THEN 0 ELSE -f
  OBVIOUS
<1> HIDE DEF d, f, v, w, mv
<1>8. /\ sent \in RawFunds
      /\ Holds(sent, a, x) = Holds(funds, a, x) + mv
      /\ ~IsFund(a) \/ Mode(a) = Unified =>
            Backs(sent, a, x) = Backs(funds, a, x) + Backing(a, from, mv)
      /\ \A z \in Account, y \in Asset : z # a \/ y # x =>
            Holds(sent, z, y) = Holds(funds, z, y) /\ Backs(sent, z, y) = Backs(funds, z, y)
  <2>1. /\ sent \in RawFunds /\ HoldsMore(funds, sent, a, x, mv)
        /\ ~IsFund(a) \/ Mode(a) = Unified =>
              BacksMore(funds, sent, a, x, Backing(a, from, mv))
    BY <1>1, <1>3, HoldsCredited
  <2> QED BY <2>1 DEF HoldsMore, BacksMore
<1>9. /\ paid \in RawFunds
      /\ Holds(paid, a, USDC) = Holds(sent, a, USDC) + w
      /\ ~IsFund(a) \/ Mode(a) = Unified =>
            Backs(paid, a, USDC) = Backs(sent, a, USDC) + Backing(a, from, w)
      /\ \A z \in Account, y \in Asset : z # a \/ y # USDC =>
            Holds(paid, z, y) = Holds(sent, z, y) /\ Backs(paid, z, y) = Backs(sent, z, y)
  <2>1. /\ paid \in RawFunds /\ HoldsMore(sent, paid, a, USDC, w)
        /\ ~IsFund(a) \/ Mode(a) = Unified =>
              BacksMore(sent, paid, a, USDC, Backing(a, from, w))
    BY <1>1, <1>3, <1>8, HoldsCredited
  <2> QED BY <2>1 DEF HoldsMore, BacksMore
<1>10. /\ earned \in RawFunds
       /\ Holds(earned, FeeAccount, USDC) = Holds(paid, FeeAccount, USDC) + (0 + f)
       /\ \/ Backs(earned, FeeAccount, USDC) = Backs(paid, FeeAccount, USDC) + (0 + f)
          \/ Backs(earned, FeeAccount, USDC) = Backs(paid, FeeAccount, USDC) + 0
       /\ \A z \in Account, y \in Asset : z # FeeAccount \/ y # USDC =>
            Holds(earned, z, y) = Holds(paid, z, y) /\ Backs(earned, z, y) = Backs(paid, z, y)
  <2>1. /\ earned \in RawFunds /\ HoldsMore(paid, earned, FeeAccount, USDC, 0 + f)
        /\ \/ BacksMore(paid, earned, FeeAccount, USDC, 0 + f)
           \/ BacksMore(paid, earned, FeeAccount, USDC, 0)
    BY <1>1, <1>3, <1>9, HoldsMoved
  <2> QED BY <2>1 DEF HoldsMore, BacksMore
<1>11. /\ funds' \in RawFunds
       /\ Holds(funds', b, x) = Holds(earned, b, x) + d
       /\ \A z \in Account, y \in Asset : z # b \/ y # x =>
            Holds(funds', z, y) = Holds(earned, z, y) /\ Backs(funds', z, y) = Backs(earned, z, y)
  <2>1. funds' \in RawFunds /\ HoldsMore(earned, funds', b, x, d)
    BY <1>1, <1>3, <1>10, HoldsCredited
  <2> QED BY <2>1 DEF HoldsMore
<1>12. \A z \in Account, y \in Asset : /\ Holds(funds, z, y) \in Int /\ Holds(sent, z, y) \in Int
                                       /\ Holds(paid, z, y) \in Int /\ Holds(earned, z, y) \in Int
                                       /\ Backs(funds, z, y) \in Int /\ Backs(sent, z, y) \in Int
                                       /\ Backs(paid, z, y) \in Int /\ Backs(funds', z, y) \in Int
  BY <1>1, <1>8, <1>9, <1>10, <1>11, HoldsTyped
<1>13. UNCHANGED account
  BY DEF L2Transfer
<1>14. ASSUME NEW z \in Account, NEW y \in Asset, z # a PROVE LockHeld(z, y)
  <2>1. Holds(paid, z, y) = Holds(funds, z, y)
    BY <1>8, <1>9, <1>14
  <2>2. Holds(earned, z, y) >= Holds(paid, z, y)
    BY <1>1, <1>10, <1>12
  <2>3. Holds(funds', z, y) >= Holds(earned, z, y)
    BY <1>1, <1>11, <1>12
  <2>4. Holds(funds', z, y) \in Int
    BY <1>11, HoldsTyped
  <2> QED BY <1>12, <2>1, <2>2, <2>3, <2>4 DEF LockHeld
<1>15. ASSUME NEW y \in Asset PROVE LockHeld(a, y)
  <2>1. CASE a # b /\ IsFund(a) /\ Mode(a) # Unified
    <3>1. locked[a][y] = 0
      BY <2>1 DEF OnlyUsersLock, IsUser, IsFund
    <3> QED BY <1>13, <2>1, <3>1, NothingLocked
  <2>2. CASE a # b /\ (~IsFund(a) \/ Mode(a) = Unified)
    <3>1. ~IsFund(a) \/ Mode(a) = Unified
      BY <2>2
    <3>2. Backs(funds', a, y) >= Backs(paid, a, y) /\ Holds(funds', a, y) >= Holds(paid, a, y)
      <4>1. Backs(funds', a, y) = Backs(earned, a, y) /\ Holds(funds', a, y) = Holds(earned, a, y)
        BY <1>11, <2>2
      <4>2. Backs(earned, a, y) >= Backs(paid, a, y) /\ Holds(earned, a, y) >= Holds(paid, a, y)
        BY <1>1, <1>10, <1>12
      <4> QED BY <4>1, <4>2
    <3>3. CASE y = x
      <4>1. Backs(paid, a, x) = Backs(sent, a, x)
        <5>1. CASE x = USDC
          BY <1>7, <1>9, <1>12, <3>1, <5>1 DEF Backing
        <5>2. CASE x # USDC
          BY <1>9, <5>2
        <5> QED BY <5>1, <5>2
      <4>2. Backs(funds', a, x) >= Backs(funds, a, x) - Backing(a, from, v)
        BY <1>1, <1>7, <1>8, <1>12, <3>1, <3>2, <3>3, <4>1 DEF Backing
      <4>3. LockHeld(a, x)
        BY <1>1, <1>4, <1>11, <2>2, <4>2, PaymentHeld
      <4> QED BY <3>3, <4>3
    <3>4. CASE y # x /\ y = USDC
      <4>1. Backs(funds', a, USDC) >= Backs(funds, a, USDC) - Backing(a, from, f)
        BY <1>1, <1>7, <1>8, <1>9, <1>12, <3>1, <3>2, <3>4 DEF Backing
      <4>2. LockHeld(a, USDC)
        BY <1>1, <1>5, <1>11, <3>4, <4>1, PaymentHeld
      <4> QED BY <3>4, <4>2
    <3>5. CASE y # x /\ y # USDC
      <4>1. Holds(funds', a, y) >= Holds(funds, a, y)
        BY <1>8, <1>9, <3>2, <3>5
      <4> QED BY <4>1 DEF LockHeld
    <3> QED BY <3>3, <3>4, <3>5
  <2>3. CASE a = b
    <3>1. f = 0 /\ mv = -d /\ w = 0
      <4>1. f = 0
        BY <1>6, <2>3
      <4>2. w = 0 \/ f + w = 0
        BY <1>1, <1>7
      <4>3. w = 0
        BY <1>1, <4>1, <4>2
      <4>4. v = d
        BY <1>1, <1>7, <4>1
      <4> QED BY <1>7, <4>1, <4>3, <4>4
    <3>2. Holds(paid, a, y) = Holds(sent, a, y)
      BY <1>9, <1>12, <3>1
    <3>3. Holds(earned, a, y) = Holds(paid, a, y)
      BY <1>10, <1>12, <3>1
    <3>4. Holds(funds', a, y) = Holds(funds, a, y)
      <4>1. CASE y = x
        BY <1>1, <1>8, <1>11, <1>12, <2>3, <3>1, <3>2, <3>3, <4>1
      <4>2. CASE y # x
        BY <1>8, <1>11, <3>2, <3>3, <4>2
      <4> QED BY <4>1, <4>2
    <3> QED BY <1>12, <3>4 DEF LockHeld
  <2> QED BY <2>1, <2>2, <2>3
<1> QED BY <1>14, <1>15 DEF LocksHeld

\* An instruction takes from its payer alone.
LEMMA PaymentLeavesLocks ==
    ASSUME Books, NEW s \in Strategy, InternalTransfer(s)
    PROVE  LocksHeld
<1> DEFINE i == Head(transfers)
           f == i.from
           x == i.asset
           c == i.to
           d == i.units * Mult[i.asset]
           e == -(i.units * Mult[i.asset])
<1>1. /\ f \in Account /\ c \in Account /\ x \in Asset /\ d \in Int /\ d >= 0 /\ e \in Int
      /\ \E paid, m, k : /\ Credited(funds, paid, f, x, Spot, e, m, s)
                         /\ Credited(paid, funds', c, x, Spot, d, k, s)
  <2>1. /\ f \in Account /\ c \in Account /\ x \in Asset /\ i.units \in Nat
        /\ \E paid, m, k : /\ Credited(funds, paid, f, x, Spot, e, m, s)
                           /\ Credited(paid, funds', c, x, Spot, d, k, s)
    BY InternalTransferEffect
  <2> HIDE DEF i
  <2> QED BY <2>1, UnitsExtended
<1>2. Payer = {f}
  BY DEF Payer, InternalTransfer
<1> HIDE DEF i, f, x, c, d, e
<1>3. PICK paid, m, k : /\ Credited(funds, paid, f, x, Spot, e, m, s)
                        /\ Credited(paid, funds', c, x, Spot, d, k, s)
  BY <1>1
<1>4. funds \in RawFunds /\ AccountsTyped /\ Spot \in Products
  BY BooksTyped DEF Products
<1>5. paid \in RawFunds /\ HoldsMore(funds, paid, f, x, e)
  BY <1>1, <1>3, <1>4, HoldsCredited
<1>6. funds' \in RawFunds /\ HoldsMore(paid, funds', c, x, d)
  BY <1>1, <1>3, <1>4, <1>5, HoldsCredited
<1>7. ASSUME NEW z \in Account, NEW y \in Asset, z # f PROVE LockHeld(z, y)
  <2>1. Holds(funds, z, y) \in Int /\ Holds(paid, z, y) = Holds(funds, z, y)
    BY <1>4, <1>5, <1>7, HoldsTyped DEF HoldsMore
  <2>2. Holds(funds', z, y) >= Holds(funds, z, y)
    BY <1>1, <1>6, <2>1 DEF HoldsMore
  <2> QED BY <2>2 DEF LockHeld
<1> QED BY <1>2, <1>7 DEF LocksHeld

\* Both sides of a fill of a market on an outcome have other shares after it.
LEMMA OutcomeTradeReturns ==
    ASSUME OptionsInv, Books,
           NEW a \in Traders, NEW b \in Traders, NEW deal \in Deals, NEW c \in Integrators,
           NEW takerSells \in BOOLEAN, NEW filled \in BOOLEAN,
           Trade(a, b, deal, c, takerSells, filled)
    PROVE  LocksHeld
<1> DEFINE d == BuyerGets(a, deal, takerSells)
           e == SellerGets(b, deal, takerSells)
           g == FeesGot(a, b, deal)
           f == slot.collector
<1>1. /\ a \in Account /\ b \in Account /\ a # b
      /\ Spot \in Products /\ USDC \in Asset /\ AccountsTyped /\ funds \in RawFunds
  BY Constants, BooksTyped DEF Trade, Products
<1>2. deal.base \in Nat /\ deal.base > 0
  BY DealTyped
<1>3. PICK q, r : Exchanged(a, b, deal, q, r)
  BY <1>1, TradeSteps DEF OptionsInv
<1>4. Returned(a) /\ Returned(b)
  <2>1. options \in [Account -> Positions]
    BY SlotTyped DEF OptionsInv, SlotInv
  <2>2. options'[a] = q /\ options'[b] = r
    BY <1>1, <1>3, <2>1 DEF Exchanged
  <2>3. options[a].size \in Int /\ options[b].size \in Int
    BY <1>1, <2>1 DEF Positions
  <2>4. q.size # options[a].size /\ r.size # options[b].size
    BY <1>2, <1>3, <2>3 DEF Exchanged
  <2> QED BY <2>2, <2>4 DEF Returned
<1>5. PICK paid, settled, m, k, l : OutcomeSteps(a, b, deal, takerSells, paid, settled, m, k, l)
  BY TradeEffect DEF OptionsInv
<1>6. /\ d \in Int /\ e \in Int /\ g \in Nat /\ f \in Account
      /\ Credited(funds, paid, a, USDC, Spot, d, m, Default)
      /\ Credited(paid, settled, b, USDC, Spot, e, k, Default)
      /\ Credited(settled, funds', f, USDC, Spot, g, l, Default)
  <2>1. slot.collector \in Account
    BY DEF Books, AccountsOK, UserAccounts
  <2> QED BY <1>5, <2>1 DEF OutcomeSteps
<1> HIDE DEF d, e, g, f
<1>7. paid \in RawFunds /\ HoldsMore(funds, paid, a, USDC, d)
  BY <1>1, <1>6, HoldsCredited
<1>8. settled \in RawFunds /\ HoldsMore(paid, settled, b, USDC, e)
  BY <1>1, <1>6, <1>7, HoldsCredited
<1>9. HoldsMore(settled, funds', f, USDC, g)
  BY <1>1, <1>6, <1>8, HoldsCredited
<1>10. ASSUME NEW z \in Account \ {a, b}, NEW y \in Asset PROVE LockHeld(z, y)
  <2>1. Holds(settled, z, y) = Holds(funds, z, y) /\ Holds(funds, z, y) \in Int
    BY <1>1, <1>7, <1>8, HoldsTyped DEF HoldsMore
  <2>2. Holds(funds', z, y) >= Holds(funds, z, y)
    BY <1>6, <1>9, <2>1 DEF HoldsMore
  <2> QED BY <2>2 DEF LockHeld
<1> QED BY <1>4, <1>10 DEF LocksHeld

\* No transaction takes what orders lock.
LEMMA LocksStayCovered ==
    ASSUME SelfFees \subseteq {0}, ExchangeInv, ExchangeInv', OnlyUsersLock,
           [Next]_<<fundVars, optionVars>>
    PROVE  LocksHeld
<1>0. /\ OptionsInv /\ Books /\ Books' /\ LocksTyped
      /\ USDC \in Asset /\ Default \in Strategy /\ Spot \in Products
      /\ funds \in RawFunds
  BY Constants, BooksTyped DEF ExchangeInv, Debts, Products
<1>1. ASSUME funds' = funds PROVE LocksHeld
  BY <1>0, <1>1, WithinHeld
<1>2. ASSUME NEW a \in Account, NEW x \in Asset, NEW n \in Nat, NEW side \in Products,
             L1Deposit(a, x, n, side)
      PROVE  LocksHeld
  <2> DEFINE d == n * Mult[x]
  <2>1. d \in Int /\ d >= 0
    BY UnitsExtended
  <2>2. PICK m \in Int : Credited(funds, funds', a, x, side, d, m, Default)
    BY <1>0, <1>2, DepositEffect
  <2> HIDE DEF d
  <2> QED BY <1>0, <2>1, <2>2, OneSideHeld
<1>3. ASSUME NEW a \in Account, NEW x \in Asset, NEW n \in Units, NEW side \in Products,
             L1Withdraw(a, x, n, side) \/ L2Withdraw(a, x, n, side)
      PROVE  LocksHeld
  <2> DEFINE d == -(n * Mult[x])
  <2>1. IsUser(a) /\ Withdraw(a, x, n, side) /\ n * Mult[x] <= Free(a, x, side)
    BY <1>3 DEF L1Withdraw, L2Withdraw, Withdraw, Free
  <2>2. PICK m \in Int : Credited(funds, funds', a, x, side, d, m, Default)
    BY <1>0, <2>1, WithdrawEffect
  <2>3. ~IsFund(a)
    BY <2>1 DEF IsUser, IsFund
  <2>4. d \in Int /\ -d = n * Mult[x]
    <3>1. n * Mult[x] \in Int
      BY UnitsExtended, Constants
    <3> QED BY <3>1
  <2>5. -d <= Free(a, x, side)
    BY <2>1, <2>4
  <2> HIDE DEF d
  <2> QED BY <1>0, <2>2, <2>3, <2>4, <2>5, OneSideHeld
<1>4. ASSUME NEW a \in Account, NEW x \in Asset, NEW m \in Int,
             Moved(funds, funds', FundAccounts, a, x, m, -m, Default)
      PROVE  LocksHeld
  <2> DEFINE r == -m
  <2>1. r \in Int /\ r + m = 0 /\ Moved(funds, funds', FundAccounts, a, x, m, r, Default)
    BY <1>4
  <2> HIDE DEF r
  <2>2. HoldsMore(funds, funds', a, x, r + m) /\ Holds(funds, a, x) \in Int
    BY <1>0, <2>1, HoldsMoved, HoldsTyped
  <2>3. \A b \in Account, y \in Asset : Holds(funds', b, y) = Holds(funds, b, y)
    BY <2>1, <2>2 DEF HoldsMore
  <2> QED BY <1>0, <2>3, WithinHeld
<1>5. ASSUME NEW a \in Account, NEW s \in Strategy, NEW t \in Strategy, NEW n \in Units,
             L2StrategyTransfer(a, s, t, n)
      PROVE  LocksHeld
  <2>1. funds'.spot = funds.spot /\ funds'.margin = funds.margin
    BY <1>0, <1>5, StrategyTransferEffect DEF StrategySteps
  <2>2. \A b \in Account, y \in Asset : Holds(funds', b, y) = Holds(funds, b, y)
    BY <2>1 DEF Holds
  <2> QED BY <1>0, <2>2, WithinHeld
<1>6. CASE FundSteps
  <2>1. \A n \in {0} \union Units : n \in Nat
    BY Constants
  <2>2. CASE Deposits
    BY <1>2, <2>1, <2>2 DEF Deposits
  <2>3. CASE Withdrawals
    BY <1>3, <2>3 DEF Withdrawals
  <2>4. CASE Modes
    BY <1>0, <1>4, <2>4, AccountConfigEffect DEF Modes
  <2>5. CASE Settings
    <3>1. ASSUME NEW a \in Account, NEW x \in Asset, NEW enable \in BOOLEAN,
                 L2UpdateAccountAssetConfig(a, x, enable)
          PROVE  LocksHeld
      BY <1>0, <1>4, <3>1, ReassignEffect
    <3>2. ASSUME NEW a \in Account, NEW n \in Units, NEW adding \in BOOLEAN,
                 L2UpdateMargin(a, n, adding)
          PROVE  LocksHeld
      BY <1>0, <3>2, UpdateMarginHeld
    <3> QED BY <1>5, <2>5, <3>1, <3>2 DEF Settings
  <2>6. CASE Orders
    BY <1>1, <2>6 DEF Orders, LockBalance
  <2>7. CASE Transfers
    <3>1. ASSUME NEW a \in Account, NEW b \in Account, NEW x \in Asset, NEW n \in Units,
                 NEW fee \in Fees, NEW from \in Products, NEW to \in Products,
                 NEW s \in Strategy, a = b => fee \in SelfFees,
                 L2Transfer(a, b, x, n, fee, from, to, s)
          PROVE  LocksHeld
      BY <1>0, <3>1, TransferLeavesLocks
    <3> QED BY <1>0, <2>7, <3>1 DEF Transfers
  <2>8. CASE Fills
    BY <1>0, <2>8, SpotTradeReturns DEF Fills
  <2>9. CASE Payments
    BY <1>0, <2>9, PaymentLeavesLocks DEF Payments
  <2> QED BY <1>6, <2>2, <2>3, <2>4, <2>5, <2>6, <2>7, <2>8, <2>9 DEF FundSteps
<1>7. ASSUME NEW a \in Account, SettlePosition(a) PROVE LocksHeld
  <2> DEFINE d == Tick * Payout(options[a], slot.price)
  <2>1. /\ d \in Int /\ d >= 0
        /\ \E m \in Int : Credited(funds, funds', a, USDC, Spot, d, m, Default)
    BY <1>0, <1>7, PayoutEffect DEF OptionsInv
  <2> HIDE DEF d
  <2>2. PICK m \in Int : Credited(funds, funds', a, USDC, Spot, d, m, Default)
    BY <2>1
  <2> QED BY <1>0, <2>1, <2>2, OneSideHeld
<1>8. CASE Operate
  BY <1>1, <1>8 DEF Operate, UpdateMarketSlot, CreateMarket, UpdateMarket, SettleOutcome, fundVars
<1>9. CASE Bets
  <2>1. ASSUME NEW a \in Traders, NEW b \in Traders, NEW deal \in Deals, NEW c \in Integrators,
               NEW takerSells \in BOOLEAN, NEW filled \in BOOLEAN,
               Trade(a, b, deal, c, takerSells, filled)
        PROVE  LocksHeld
    BY <1>0, <2>1, OutcomeTradeReturns
  <2>2. ASSUME NEW a, RestOrder(a) \/ CancelOrder(a) PROVE funds' = funds
    BY <2>2 DEF RestOrder, CancelOrder, fundVars
  <2> QED BY <1>1, <1>7, <1>9, <2>1, <2>2, Constants DEF Bets
<1> QED BY <1>1, <1>6, <1>8, <1>9 DEF Next, fundVars

\* Who has orders that lock something stays a user, and others get none.
LEMMA LocksStayWithUsers ==
    ASSUME Books, OnlyUsersLock, [Next]_<<fundVars, optionVars>>
    PROVE  OnlyUsersLock'
<1>1. ASSUME UNCHANGED <<account, locked>> PROVE OnlyUsersLock'
  BY <1>1 DEF OnlyUsersLock, IsUser
<1>2. ASSUME NEW a \in Account, NEW x, NEW n, NEW side, L1Deposit(a, x, n, side)
      PROVE  OnlyUsersLock'
  <2>1. CASE Exists(a)
    BY <1>1, <1>2, <2>1 DEF L1Deposit
  <2>2. CASE ~Exists(a)
    <3>1. /\ account' = [account EXCEPT ![a].kind = "master", ![a].mode = Unified,
                                        ![a].master = a]
          /\ locked' = locked
      BY <1>2, <2>2 DEF L1Deposit
    <3>2. DOMAIN account = Account
      BY DEF Books, AccountsOK
    <3>3. ASSUME NEW b \in Account PROVE account'[b].kind = account[b].kind \/ b = a
      BY <3>1, <3>2
    <3>4. account'[a].kind = "master"
      <4>1. "kind" \in DOMAIN account[a]
        BY DEF Books, AccountsOK
      <4> QED BY <3>1, <3>2, <4>1
    <3> QED BY <3>1, <3>3, <3>4 DEF OnlyUsersLock, IsUser
  <2> QED BY <2>1, <2>2
<1>3. ASSUME NEW a \in Account, NEW mode, L2UpdateAccountConfig(a, mode) PROVE OnlyUsersLock'
  <2>1. account' = [account EXCEPT ![a].mode = mode] /\ locked' = locked
    BY <1>3 DEF L2UpdateAccountConfig
  <2>2. \A b \in Account : account'[b].kind = account[b].kind
    BY <2>1 DEF Books, AccountsOK
  <2> QED BY <2>1, <2>2 DEF OnlyUsersLock, IsUser
<1>4. ASSUME NEW a \in Account, NEW x \in Asset, NEW n, LockBalance(a, x, n) PROVE OnlyUsersLock'
  <2>1. IsUser(a) /\ account' = account /\ locked' = [locked EXCEPT ![a][x] = n]
    BY <1>4 DEF LockBalance
  <2>2. \A b \in Account : b # a => locked'[b] = locked[b]
    BY <2>1
  <2> QED BY <2>1, <2>2 DEF OnlyUsersLock, IsUser
<1>5. CASE FundSteps
  <2>1. CASE Deposits
    BY <1>2, <2>1 DEF Deposits
  <2>2. CASE Withdrawals
    <3>1. ASSUME NEW a, NEW x, NEW n, NEW side,
                 L1Withdraw(a, x, n, side) \/ L2Withdraw(a, x, n, side)
          PROVE  UNCHANGED <<account, locked>>
      <4>1. Withdraw(a, x, n, side)
        BY <3>1 DEF L1Withdraw, L2Withdraw
      <4> QED BY <4>1 DEF Withdraw
    <3> QED BY <1>1, <2>2, <3>1 DEF Withdrawals
  <2>3. CASE Modes
    BY <1>3, <2>3 DEF Modes
  <2>4. CASE Settings
    <3>1. ASSUME NEW a, NEW x, NEW enable, L2UpdateAccountAssetConfig(a, x, enable)
          PROVE  UNCHANGED <<account, locked>>
      BY <3>1 DEF L2UpdateAccountAssetConfig
    <3>2. ASSUME NEW a, NEW n, NEW adding, L2UpdateMargin(a, n, adding)
          PROVE  UNCHANGED <<account, locked>>
      BY <3>2 DEF L2UpdateMargin
    <3>3. ASSUME NEW a, NEW s, NEW t, NEW n, L2StrategyTransfer(a, s, t, n)
          PROVE  UNCHANGED <<account, locked>>
      BY <3>3 DEF L2StrategyTransfer
    <3> QED BY <1>1, <2>4, <3>1, <3>2, <3>3 DEF Settings
  <2>5. CASE Orders
    BY <1>4, <2>5, Constants DEF Orders
  <2>6. CASE Transfers
    BY <1>1, <2>6 DEF Transfers, L2Transfer
  <2>7. CASE Fills
    BY <1>1, <2>7 DEF Fills, SpotTrade
  <2>8. CASE Payments
    BY <1>1, <2>8 DEF Payments, InternalTransfer
  <2> QED BY <1>5, <2>1, <2>2, <2>3, <2>4, <2>5, <2>6, <2>7, <2>8 DEF FundSteps
<1>6. CASE Operate
  BY <1>1, <1>6 DEF Operate, UpdateMarketSlot, CreateMarket, UpdateMarket, SettleOutcome, fundVars
<1>7. CASE Bets
  <2>1. ASSUME NEW a, RestOrder(a) \/ CancelOrder(a) PROVE UNCHANGED <<account, locked>>
    BY <2>1 DEF RestOrder, CancelOrder, fundVars
  <2>2. ASSUME NEW a, SettlePosition(a) PROVE UNCHANGED <<account, locked>>
    BY <2>2 DEF SettlePosition
  <2>3. ASSUME NEW a, NEW b, NEW deal, NEW c, NEW takerSells, NEW filled,
               Trade(a, b, deal, c, takerSells, filled)
        PROVE  UNCHANGED <<account, locked>>
    BY <2>3 DEF Trade
  <2> QED BY <1>1, <1>7, <2>1, <2>2, <2>3 DEF Bets
<1> QED BY <1>1, <1>5, <1>6, <1>7 DEF Next, fundVars

\* At the start nothing is locked.
LEMMA NothingLockedFirst == Init => OnlyUsersLock
<1> SUFFICES ASSUME NEW start \in Genesis, FundsInit(start) PROVE OnlyUsersLock
  BY DEF Init
<1>1. \A a \in Account, x \in Asset : locked[a][x] = 0
  BY DEF FundsInit, NoFunds
<1> QED BY <1>1 DEF OnlyUsersLock

\* As long as a transfer within an account takes no fee, whatever an account pays without a
\* return is covered by what its orders leave free, on whatever side the balance is: no
\* route of withdrawals, transfers, fees and margin for positions goes around a lock.
THEOREM LocksAreKept == SelfFees \subseteq {0} => (Spec => LocksAreCovered)
<1> SUFFICES ASSUME SelfFees \subseteq {0} PROVE Spec => LocksAreCovered
  OBVIOUS
<1> DEFINE Covers ==
      \A a \in Account :
          LET lost(x)  == Holds(funds', a, x) < Holds(funds, a, x)
              spent(x) == Backs(funds', a, x) < Backs(funds, a, x)
              noReturn == /\ a \notin Payer
                          /\ options'[a].size = options[a].size
                          /\ \A x \in Asset : Holds(funds', a, x) <= Holds(funds, a, x)
          IN  noReturn => \A x \in Asset :
                  lost(x) /\ spent(x) => Backs(funds', a, x) >= locked[a][x]
<1>1. ExchangeInv /\ ExchangeInv' /\ OnlyUsersLock /\ [Next]_<<fundVars, optionVars>> => Covers
  <2> SUFFICES ASSUME ExchangeInv, ExchangeInv', OnlyUsersLock, [Next]_<<fundVars, optionVars>>
               PROVE  Covers
    OBVIOUS
  <2>1. LocksHeld
    BY LocksStayCovered
  <2>2. /\ funds \in RawFunds /\ funds' \in RawFunds
    BY DEF ExchangeInv, Books, Placed, Sound
  <2>3. \A a \in Account, x \in Asset :
            /\ Holds(funds, a, x) \in Int /\ Holds(funds', a, x) \in Int
            /\ Backs(funds, a, x) \in Int /\ Backs(funds', a, x) \in Int
    BY <2>2, HoldsTyped
  <2> QED BY <2>1, <2>3 DEF LocksHeld, LockHeld, Returned
<1>2. ExchangeInv /\ OnlyUsersLock /\ [Next]_<<fundVars, optionVars>> => OnlyUsersLock'
  BY LocksStayWithUsers DEF ExchangeInv
<1>3. Init => OnlyUsersLock
  BY NothingLockedFirst
<1>4. Spec => []ExchangeInv
  BY ExchangeHolds
<1> HIDE DEF Covers
<1>5. Spec => [][Covers]_<<fundVars, optionVars>>
  BY <1>1, <1>2, <1>3, <1>4, PTL DEF Spec
<1> QED BY <1>5 DEF LocksAreCovered, Covers
=============================================================================
