------------------------------- MODULE Funds -------------------------------
(***************************************************************************)
(* The transactions that move balances, but for the share transactions of   *)
(* the pools (Pools), as the instances send them, and what must hold of the  *)
(* balances.  Options puts them beside the markets on outcomes.              *)
(***************************************************************************)
EXTENDS FundTransactions

CONSTANTS
    Genesis,    \* the accounts, balances and margin settings an instance may start from
    Units,      \* amounts of deposits, withdrawals and transfers, in units of L1
    Fees,       \* fees of transfers, in units of USDC
    SelfFees,   \* those of them that a transfer within an account pays
    Trades,     \* fills of spot markets
    Traders,    \* accounts with orders on the markets
    MaxCustody  \* a bound on what is deposited of an asset

ASSUME FundsAssumption ==
    /\ Units \subseteq Nat \ {0}
    /\ Traders \subseteq Account
    /\ SelfFees \subseteq Fees /\ Fees \subseteq Nat
    /\ MaxCustody \in Nat

NoFunds == [a \in Account |-> [x \in Asset |-> 0]]

\* The supplied totals are those of the users' margin, within the caps.
SuppliedBy(F, users) ==
    \A x \in Asset \ {USDC} :
        /\ F.supplied[x] = Total(F.margin, x, users)
        /\ F.supplied[x] <= GlobalCap[x]
        /\ \A a \in users : F.margin[a][x] <= UserCap[x]

\* The strategies of each fund add up to its USDC margin.
Divided(F, pools) ==
    \A a \in pools : SumFunctionOnSet(F.strategies[a], Strategy) = F.margin[a][USDC]

\* Instances start from books that balance, without debts, with the treasury, the fee
\* account of transfers and the integrators in place.
OpeningTyped(start) ==
    /\ DOMAIN start.account = Account
    /\ \A a \in Account :
          /\ {"kind", "mode", "master"} \subseteq DOMAIN start.account[a]
          /\ start.account[a].kind \in Kinds
          /\ start.account[a].mode \in {Simple, Unified}
    /\ start.funds \in [spot       : [Account -> [Asset -> Nat]],
                        margin     : [Account -> [Asset -> Nat]],
                        supplied   : [Asset -> Nat],
                        allocated  : [Account -> Nat],
                        strategies : [Account -> [Strategy -> Nat]],
                        unlocks    : [Account -> Seq([amount : Nat, at : Nat])]]
    /\ start.useMargin \in [Account -> [Asset -> BOOLEAN]]
    /\ start.custody \in [Asset -> Nat]

OpeningBalances(start) ==
    LET pools == {a \in Account : start.account[a].kind = "fund"}
        unified == {a \in Account : start.account[a].kind = "none"
                                    \/ start.account[a].mode = Unified}
    IN  /\ SuppliedBy(start.funds, Account \ pools)
        /\ Divided(start.funds, pools)
        /\ \A x \in Asset : start.custody[x] * Mult[x] = InAccounts(start.funds, x)
        /\ \A a \in unified : start.funds.spot[a][USDC] = 0
        /\ \A a \in Account, x \in Asset \ {USDC} :
              /\ start.useMargin[a][x] => start.account[a].mode = Unified
              /\ ~start.useMargin[a][x] /\ a \notin pools => start.funds.margin[a][x] = 0

ASSUME GenesisAssumption ==
    \A start \in Genesis :
        /\ OpeningTyped(start)
        /\ OpeningBalances(start)
        /\ start.account[Treasury].kind = "master"
        /\ \A a \in Integrators \union {FeeAccount} : start.account[a].kind # "none"

\* A fill takes a fee of what each side receives, not all of it; the integrator's part is
\* a part of the fee.
ASSUME TradesAssumption ==
    \A t \in Trades :
        /\ {t.base, t.quote} \subseteq Asset /\ t.base # t.quote
        /\ {t.sold, t.paid} \subseteq Nat
        /\ t.feeBase \in 0..(t.sold - 1) /\ t.feeQuote \in 0..(t.paid - 1)
        /\ t.partBase \in 0..t.feeBase /\ t.partQuote \in 0..t.feeQuote

FundsInit(start) ==
    /\ account = start.account
    /\ funds = start.funds
    /\ useMargin = start.useMargin
    /\ locked = NoFunds
    /\ transfers = << >>
    /\ published = [a \in Account |-> [x \in Asset |-> Worth(start.funds, a, x)]]
    /\ custody = start.custody

\* The transactions of users and of L1 on one account.
Deposits == \E a \in Account, x \in Asset, n \in {0} \union Units, side \in Products :
    custody[x] + n <= MaxCustody /\ L1Deposit(a, x, n, side)
Withdrawals == \E a \in Account, x \in Asset, n \in Units, side \in Products :
    L1Withdraw(a, x, n, side) \/ L2Withdraw(a, x, n, side)
Modes == \E a \in Account, mode \in {Simple, Unified} : L2UpdateAccountConfig(a, mode)
Settings == \E a \in Account :
    \/ \E x \in Asset, enable \in BOOLEAN : L2UpdateAccountAssetConfig(a, x, enable)
    \/ \E n \in Units, adding \in BOOLEAN : L2UpdateMargin(a, n, adding)
    \/ \E s \in Strategy, t \in Strategy, n \in Units : L2StrategyTransfer(a, s, t, n)
Orders == \E a \in Traders, x \in Asset, n \in 0..MaxLock : LockBalance(a, x, n)

\* The transactions between accounts and the instructions they leave.
Transfers == \E a \in Account, b \in Account, x \in Asset, from \in Products,
                to \in Products, n \in Units, fee \in Fees :
    \E s \in IF IsFund(b) THEN Strategy ELSE {Default} :
        (a = b => fee \in SelfFees) /\ L2Transfer(a, b, x, n, fee, from, to, s)
Fills == \E a \in Traders, b \in Traders, t \in Trades, c \in Integrators,
            takerSells \in BOOLEAN :
    a # b /\ SpotTrade(a, b, t, c, takerSells)
Payments == \E s \in Strategy : InternalTransfer(s)

-----------------------------------------------------------------------------
(* What must hold. *)

TypeOK ==
    /\ \A a \in Account : account[a].kind \in Kinds /\ account[a].mode \in {Simple, Unified}
    /\ funds.spot \in [Account -> [Asset -> Nat]]
    /\ funds.margin \in [Account -> [Asset -> Int]]
    /\ funds.supplied \in [Asset -> Nat]
    /\ funds.allocated \in [Account -> Int]
    /\ useMargin \in [Account -> [Asset -> BOOLEAN]]
    /\ locked \in [Account -> [Asset -> 0..MaxLock]]
    /\ custody \in [Asset -> Int]
    /\ \A x \in Asset \ {USDC} : custody[x] >= 0

\* The balance deltas in the public data of the blocks add up to the balances of every
\* account: who leaves through the desert exit is paid by that sum, and no transaction may
\* move a balance without telling it.
PublishedMatches ==
    \A a \in Account, x \in Asset : published[a][x] = Worth(funds, a, x)

\* What accounts use as margin of an asset is what counts against its global cap; neither
\* the cap of the asset nor that of an account is passed by any route into margin.
SuppliedMatches == SuppliedBy(funds, {a \in Account : ~IsFund(a)})

\* The strategies of an insurance fund divide its USDC margin among them.
StrategiesMatch == Divided(funds, {a \in Account : IsFund(a)})

\* "USDC spot balance is always zero for unified accounts": apply_collateral_delta and the
\* public data rely on it.
NoSpotUSDC(a) == account[a].mode = Unified => funds.spot[a][USDC] = 0

\* An account has margin of an asset only while it uses the asset as margin, and it uses
\* one only in unified mode: a balance elsewhere could neither be spent nor be seen by the
\* risk checks.  A fund keeps what it trades on its margin side.
MarginWhereUsed(a) ==
    \A x \in Asset \ {USDC} :
        /\ useMargin[a][x] => account[a].mode = Unified
        /\ (~useMargin[a][x] /\ ~IsFund(a)) => funds.margin[a][x] = 0
        /\ funds.margin[a][x] >= 0

BalancesInPlace == \A a \in Account : NoSpotUSDC(a) /\ MarginWhereUsed(a)

CanBePaid(i) == \A s \in Strategy : TransferPossible(i, s)

\* An integrator's part of a fee can be paid when its instruction comes up, out of the
\* treasury or the account a slot pays its fees to, whatever the mode and the margin
\* settings of the payer and of the integrator, and whatever the payer did with the fees
\* of earlier fills: one that could not be paid would stay on the stack, and nothing else
\* may run before it.  The payer is one without orders of its own on the markets.
PaymentsPossible ==
    ~NoInstruction /\ Head(transfers).from \notin Traders => CanBePaid(Head(transfers))

\* "Fee account is maker or taker case is already handled": of a payer that trades too.
CollectorMayTrade ==
    ~NoInstruction => CanBePaid(Head(transfers))

\* What backs the locks of an account: its spot side and what it uses as margin.
Backs(F, a, x) == F.spot[a][x] + IF Mode(a) = Unified THEN F.margin[a][x] ELSE 0
=============================================================================
