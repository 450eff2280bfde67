------------------------------ MODULE MCFunds ------------------------------
(* Two users with orders, an integrator among them, the treasury, and an account that   *)
(* transfers name for their fee; one unit of USDC is two extended units.  The instances *)
(* start from either of two states: a user with an asset and that account a fund, for   *)
(* the transactions of Funds, and users with collateral and a slot with an operator,    *)
(* which may pay its fees to that account, for the markets of BinaryOptions.            *)
EXTENDS Options, FiniteSetsExt

Extension == [x \in Asset |-> IF x = USDC THEN 2 ELSE 1]
Caps(n) == [x \in Asset |-> IF x = USDC THEN 0 ELSE n]
Cap2 == Caps(2)
Cap1 == Caps(1)

User(a, mode) == [NoAccount EXCEPT !.kind = "master", !.mode = mode, !.master = a]
Fund == [NoAccount EXCEPT !.kind = "fund", !.mode = Unified, !.master = "o",
                          !.total = 1, !.own = 1]

\* spot and margin: sets of <<account, asset, balance>>
Held(balances) == [a \in Account |-> [x \in Asset |->
    MapThenSumSet(LAMBDA h : IF h[1] = a /\ h[2] = x THEN h[3] ELSE 0, balances)]]

Opening(first, third, spot, margin, usdc, eth, operator) ==
    [account   |-> [a \in Account |-> CASE a = "a" -> first
                                        [] a = "b" -> User("b", Simple)
                                        [] a = "c" -> third
                                        [] OTHER   -> User(Treasury, Simple)],
     funds     |-> [spot       |-> Held(spot),
                    margin     |-> Held(margin),
                    supplied   |-> [x \in Asset |-> 0],
                    allocated  |-> [a \in Account |-> 0],
                    strategies |-> [a \in Account |-> [s \in Strategy |-> 0]],
                    unlocks    |-> [a \in Account |-> << >>]],
     useMargin |-> [a \in Account |-> [x \in Asset |-> FALSE]],
     custody   |-> [x \in Asset |-> IF x = USDC THEN usdc ELSE eth],
     operator  |-> operator]

Openings ==
    {Opening(NoAccount, Fund, {<<"b", "eth", 1>>}, {}, 0, 1, Nobody),
     Opening(User("a", Unified), User("c", Unified),
             {<<"b", USDC, 3>>}, {<<"a", USDC, 3>>}, 3, 0, "a")}

Fill(sold, paid, feeBase, feeQuote, partBase, partQuote) ==
    [base |-> "eth", quote |-> USDC, sold |-> sold, paid |-> paid, feeBase |-> feeBase,
     feeQuote |-> feeQuote, partBase |-> partBase, partQuote |-> partQuote]

SpotFills == {Fill(1, 2, 0, 0, 0, 0), Fill(2, 3, 1, 2, 1, 2), Fill(1, 3, 0, 2, 0, 1)}

Deal(base, price, takerFee, makerFee, takerPart, makerPart) ==
    [base |-> base, price |-> price, takerFee |-> takerFee, makerFee |-> makerFee,
     takerPart |-> takerPart, makerPart |-> makerPart]

\* Two shares at one third with a rebate; one at two thirds with the integrator's part.
BinaryDeals == {Deal(2, 1, 1, -1, 0, 0), Deal(1, 2, 2, 0, 2, 0)}
=============================================================================
