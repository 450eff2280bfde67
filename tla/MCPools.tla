------------------------------ MODULE MCPools ------------------------------
(* A holder h that may open a pool of his own, the operator o of the insurance fund, the *)
(* treasury t with its staking pool, and three accounts that may become pools.           *)
EXTENDS Pools

Below == -1
Ones == [x \in Asset |-> 1]
Zeros == [x \in Asset |-> 0]
Positions == [p \in Pool |-> CASE p = "f" -> 1 [] p = "q" -> 2 [] p = "s" -> 3]

Founders == [p \in Pool |-> CASE p = "f" -> "o" [] p = "q" -> "h" [] p = "s" -> "t"]

FeesOf == [p \in Pool |-> IF p = "q" THEN {1} ELSE {0}]
Amounts == [p \in Pool |-> IF p = "q" THEN {1, 2} ELSE {1}]
RatesOf == [p \in Pool |-> IF p = "s" THEN {1} ELSE {0}]
Totals == [p \in Pool |-> IF p = "f" THEN 2 ELSE 3]

Gift == {[from |-> "t", to |-> "s", asset |-> "lit"],
         [from |-> "q", to |-> "h", asset |-> "usdc"],
         [from |-> "f", to |-> "o", asset |-> "usdc"]}

Accounts == [a \in Account |->
    IF a \in Pool THEN NoAccount
    ELSE [NoAccount EXCEPT !.kind = "master", !.master = a,
                           !.mode = IF a = "h" THEN Unified ELSE Simple]]

Nothing == [a \in Account |-> Zeros]

Opening ==
    [account |-> Accounts,
     funds   |-> [spot       |-> [Nothing EXCEPT !["t"]["lit"] = 1, !["h"]["lit"] = 2],
                  margin     |-> [Nothing EXCEPT !["h"]["usdc"] = 2, !["o"]["usdc"] = 2,
                                                 !["t"]["usdc"] = 1],
                  supplied   |-> Zeros,
                  allocated  |-> [a \in Account |-> 0],
                  strategies |-> [a \in Account |-> [s \in Strategy |-> 0]],
                  unlocks    |-> [a \in Account |-> << >>]],
     custody |-> [x \in Asset |-> IF x = "lit" THEN 3 ELSE 5]]

(* The pass over the slots of a share list against what it stands for: a set of shares, *)
(* one for a pool, that takes the changed share if it is not used up.                    *)
Lists == {list \in [1..Slots -> {EmptyShare} \union
                        [pool : Pool, amount : 1..2, principal : {1}, since : {1}]] :
             InOrder(list)}
Deltas == [amount : {-2, -1, 1}, principal : {-1, 0, 1}, since : {0, 1}]

Shared(list, p, d) ==
    {share \in {list[i] : i \in 1..Slots} : share.amount # 0 /\ share.pool # p}
        \union {share \in {Plus(ShareIn(list, p), d)} : share.amount # 0}

ASSUME PassIsRight ==
    \A list \in Lists, p \in Pool, d \in Deltas :
        ShareIn(list, p).amount + d.amount >= 0 =>
            LET after == Shared(list, p, d)
            IN  /\ SharePutAllowed(list, p, d) <=> Cardinality(after) <= Slots
                /\ SharePutAllowed(list, p, d) =>
                      /\ InOrder(PutShare(list, p, d))
                      /\ {PutShare(list, p, d)[i] : i \in 1..Slots} \ {EmptyShare} = after
=============================================================================
