------------------------------ MODULE Options ------------------------------
(***************************************************************************)
(* The balances of the exchange under the transactions of Funds and the     *)
(* markets on outcomes of BinaryOptions, and what must hold of both.        *)
(***************************************************************************)
EXTENDS Funds, BinaryOptions

CONSTANTS
    Operators, \* accounts a slot may be given to
    Payees,    \* accounts a slot may pay its fees to
    Defaults,  \* default prices of markets, which a refund pays
    Deals,     \* fills of a market on an outcome: shares, price, fees, integrators' parts
    Beside     \* the fund transactions an instance sends while the slot has an operator

ASSUME OptionsAssumption == Operators \union Payees \subseteq Account /\ Defaults \subseteq 0..Cap

\* What execute_matching asserts of fees: without the integrators' parts, which come on top,
\* the taker pays at least what the maker is given back.
ASSUME DealsAssumption == \A deal \in Deals :
    /\ deal.price \in 1..(Cap - 1) /\ deal.base \in Nat \ {0}
    /\ {deal.takerFee, deal.makerFee} \subseteq Int /\ {deal.takerPart, deal.makerPart} \subseteq Nat
    /\ deal.takerPart <= deal.takerFee
    /\ deal.takerFee + deal.makerFee >= deal.takerPart + deal.makerPart

Init ==
    \E start \in Genesis :
        /\ FundsInit(start)
        /\ slot = NoMarket(start.operator, Treasury)
        /\ options = [a \in Account |-> EmptyPosition(NilMarket)]
        /\ nextMarket = 1

\* A slot without an operator hosts no market: the instances send everything else then.
Sent(kind) == slot.operator = Nobody \/ kind \in Beside

FundSteps ==
    /\ \/ Sent("deposits") /\ Deposits
       \/ Sent("withdrawals") /\ Withdrawals
       \/ Sent("modes") /\ Modes
       \/ Sent("settings") /\ Settings
       \/ Sent("orders") /\ Orders
       \/ Sent("transfers") /\ Transfers
       \/ Sent("fills") /\ Fills
       \/ Payments
    /\ UNCHANGED optionVars

Operate ==
    \/ \E a \in Operators, f \in Payees : slot.operator # Nobody /\ UpdateMarketSlot(a, f)
    \/ \E discrete \in BOOLEAN, default \in Defaults, frozen \in BOOLEAN :
          CreateMarket(discrete, default, frozen)
    \/ \E frozen \in BOOLEAN : UpdateMarket(frozen)
    \/ \E price \in 0..Cap, refund \in BOOLEAN : SettleOutcome(price, refund)

Bets ==
    \/ \E a \in Traders : RestOrder(a) \/ CancelOrder(a)
    \/ \E a \in Account : SettlePosition(a)
    \/ \E a \in Traders, b \in Traders, deal \in Deals, c \in Integrators,
          takerSells \in BOOLEAN, filled \in BOOLEAN : Trade(a, b, deal, c, takerSells, filled)

Next == FundSteps \/ Operate \/ Bets

Spec == Init /\ [][Next]_<<fundVars, optionVars>>

-----------------------------------------------------------------------------
(* What must hold. *)

SumOver(f) == SumFunctionOnSet(f, Account)

\* What is set aside for the shares that are open: the cap of every pair of shares, and
\* once the outcome is known what each of the positions that are left will be paid.
Escrow ==
    LET cap  == [a \in Account |->
                    IF options[a].size < 0 THEN Cap * Magnitude(options[a].size) ELSE 0]
        paid == [a \in Account |-> Payout(options[a], slot.price)]
    IN  Tick * (IF slot.status = InSettlement THEN SumOver(paid) ELSE SumOver(cap))

\* No balance is made or lost: what L1 holds is what accounts have, on whatever side, and
\* what is set aside for shares.  Trades that open, close and flip positions against each
\* other, and the payouts at any price, take out what was put in, to the last unit.
FundsConserved ==
    \A x \in Asset :
        custody[x] * Mult[x] = InAccounts(funds, x) + IF x = USDC THEN Escrow ELSE 0

BooksBalance == SuppliedMatches /\ StrategiesMatch /\ FundsConserved

\* A position or an order left behind would come to life in no later market: what an
\* account has on the slot is of the market the slot hosts ("a reused slot never carries
\* positions of a previous market", l2_create_market.rs).
PositionsOfTheMarket ==
    \A a \in Account :
        IF HasNoData(options[a]) THEN options[a].market = NilMarket
        ELSE options[a].market = slot.market /\ slot.market # NilMarket

\* The orders and shares a slot waits for are those its accounts have, and for every YES
\* share there is a NO share until the first is paid.
SlotMatches ==
    LET orders == [a \in Account |-> options[a].orders]
        shares == [a \in Account |-> Magnitude(options[a].size)]
        net    == [a \in Account |-> options[a].size]
    IN  /\ slot.orders = SumOver(orders)
        /\ slot.openInterest = SumOver(shares)
        /\ slot.status # InSettlement => SumOver(net) = 0

\* What was paid for a position is nothing without shares, and never more than they can
\* pay: a rest would keep the position of an account from being removed.
EntriesBounded ==
    \A a \in Account :
        options[a].entry \in 0..(Cap * Magnitude(options[a].size))

OptionsInOrder == PositionsOfTheMarket /\ SlotMatches /\ EntriesBounded

\* Who the instruction on the top of the stack has pay an integrator.
Payer == IF NoInstruction THEN {} ELSE {Head(transfers).from}

\* The balance an account's resting orders lock of an asset stays in the account when it
\* withdraws, sends some of the asset to another or sets margin aside for a position: all
\* that leaves without a return is taken from what is not locked, on whatever side it is.
\* Shares are a return, as the other asset of a spot fill is: a fill looks at balances
\* only.  So is the fee of a fill, of which its collector pays an integrator a part.
LocksAreCovered ==
    [][\A a \in Account :
          LET lost(x)  == Holds(funds', a, x) < Holds(funds, a, x)
              spent(x) == Backs(funds', a, x) < Backs(funds, a, x)
              noReturn == /\ a \notin Payer
                          /\ options'[a].size = options[a].size
                          /\ \A x \in Asset : Holds(funds', a, x) <= Holds(funds, a, x)
          IN  noReturn => \A x \in Asset :
                  lost(x) /\ spent(x) => Backs(funds', a, x) >= locked[a][x]]_<<fundVars, optionVars>>
=============================================================================
