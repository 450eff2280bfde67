-------------------------------- MODULE Pools --------------------------------
(***************************************************************************)
(* Pools whose value changes under their holders: shares are minted, burned, *)
(* staked and unstaked while the pools gain, lose, are given funds, frozen   *)
(* and closed, and while the system's choice of pools and periods changes.   *)
(***************************************************************************)
EXTENDS PoolTransactions

CONSTANTS
    Genesis,    \* accounts and balances to start from
    Founder,    \* who may open a pool under each index
    Users,      \* accounts that hold and operate
    Traded,     \* pools whose value changes by itself
    Market,     \* the account the pools trade with
    Gifts,      \* who may send one unit of what to whom
    ShareUnits, \* shares one transaction moves, for every pool
    PoolFees,   \* operator fees of every pool
    Rates,      \* minimum operator share rates of every pool
    Cooldowns,  \* cooldown periods of the liquidity pool
    Lockups,    \* lockup periods of the staking pool
    Together,   \* groups of pools that are open at once
    MaxTotal,   \* bounds on the shares of every pool
    MinValue, MaxValue, \* bounds on what gains and losses make of a pool
    MaxTime     \* a bound on the time

Init ==
    /\ account = Genesis.account
    /\ funds = Genesis.funds
    /\ useMargin = [a \in Account |-> [x \in Asset |-> FALSE]]
    /\ locked = [a \in Account |-> [x \in Asset |-> 0]]
    /\ transfers = << >>
    /\ published = [a \in Account |-> [x \in Asset |-> Worth(Genesis.funds, a, x)]]
    /\ custody = Genesis.custody
    /\ shares = [a \in Account |-> NoShares]
    /\ config = NoConfig
    /\ now = 0

Creations == \E p \in Pool :
    /\ \E group \in Together : {q \in Pool : Exists(q)} \union {p} \subseteq group
    /\ \E n \in ShareUnits[p], rate \in Rates[p] :
        \/ Founder[p] = Treasury /\ L2CreateStakingPool(p, n, rate)
        \/ \E fee \in PoolFees[p] : L2CreatePublicPool(Founder[p], p, n, fee, rate)

Updates == \E p \in Pool, freeze \in BOOLEAN :
    \E fee \in PoolFees[p], rate \in Rates[p] :
        L2UpdatePublicPool(account[p].master, p, freeze, fee, rate)

Configurations == \E p \in Pool, q \in Pool, cooldown \in Cooldowns, lockup \in Lockups :
    L1SetSystemConfig(p, q, cooldown, lockup)

Shares == \E a \in Users, p \in Pool : \E n \in ShareUnits[p] :
    \/ account[p].total + n <= MaxTotal[p] /\ (L2MintShares(a, p, n) \/ L2StakeAssets(a, p, n))
    \/ L2BurnShares(a, p, n)
    \/ L1BurnShares(a, p, n)
    \/ now + config.lockup <= MaxTime /\ L2UnstakeAssets(a, p, n)

Unlocks == \E a \in Users : InternalPendingUnlock(a)

\* A pool and the accounts it trades with gain from each other: what the fills, the
\* funding and the prices of their positions come to.
Gain(p, n) ==
    /\ IsPool(p) /\ ~account[p].frozen
    /\ funds' = Collateral(Collateral(funds, p, n, Default), Market, -n, Default)
    /\ Publish({p, Market}, {USDC}, TRUE)
    /\ UNCHANGED <<account, useMargin, locked, transfers, custody, shares, config, now>>

Gains == \E p \in Traded, n \in {-1, 1} :
    /\ Value(funds, p) + n \in MinValue..MaxValue /\ Value(funds, Market) - n >= MinValue
    /\ Gain(p, n)

\* Gifts to pools, and what the operator takes out of a closed one.
Moves == \E m \in Gifts :
    LET side == IF m.asset = USDC THEN Perps ELSE Spot
    IN  /\ L2Transfer(m.from, m.to, m.asset, 1, 0, side, side, Default)
        /\ UNCHANGED <<shares, config, now>>

Tick ==
    /\ now < MaxTime
    /\ now' = now + 1
    /\ UNCHANGED <<account, funds, useMargin, locked, transfers, published, custody, shares, config>>

Next ==
    \/ Creations \/ Updates \/ Configurations \/ Shares \/ Unlocks \/ Gains \/ Moves \/ Tick

Spec == Init /\ [][Next]_poolVars

\* Blocks go on, and a block takes the unlocks whose time has come.
FairSpec ==
    Spec /\ WF_poolVars(Tick) /\ \A a \in Users : WF_poolVars(InternalPendingUnlock(a))

-----------------------------------------------------------------------------
(* What must hold. *)

InShares(p) == IsPool(p) \/ IsStaking(p)
Backing(F, p) == IF IsStaking(p) THEN F.spot[p][LIT] ELSE Value(F, p)
Unit(p) == IF IsStaking(p) THEN Mult[LIT] ELSE Mult[USDC]

\* The shares of a pool are those of its operator and those in the lists of the others:
\* the fee of a burn only changes hands, and no list loses, doubles or misplaces a share.
SharesMatch ==
    /\ \A a \in Account : InOrder(shares[a])
    /\ \A p \in Pool :
          account[p].total =
              account[p].own + SumFunctionOnSet([a \in Account |-> Share(a, p).amount], Account)
    /\ \A p \in Pool : account[p].own >= 0

\* Who stays in a pool loses nothing to those who come and go: minting and burning leave
\* a share worth what it was, but for the rounding of a price to units of L1, and burning
\* not even that.
ShareValueKept ==
    [][\A p \in Pool :
          (InShares(p) /\ account[p].total > 0 /\ account'[p].total # account[p].total) =>
              Backing(funds', p) * account[p].total
                  >= Backing(funds, p) * account'[p].total
                     - IF account'[p].total > account[p].total
                       THEN Unit(p) * account[p].total ELSE 0]_poolVars

\* Nobody gets into the liquidity pool, or out of the staking pool, beyond what his stake
\* allows for his principal: the two limits, one looked at before the shares change and
\* one after, are the same.
OwnLimit(a) ==
    /\ config.llp # NoPool /\ config.staking # NoPool
    /\ ~IsOperator(a, config.llp) /\ ~IsOperator(a, config.staking)

Exposed(a) ==
    \/ ShareIn(shares'[a], config.llp).principal > Share(a, config.llp).principal
    \/ ShareIn(shares'[a], config.staking).amount < Share(a, config.staking).amount

StakeBacksLLP ==
    [][\A a \in Users :
          (config' = config /\ OwnLimit(a) /\ Exposed(a)) =>
              Backed(ShareIn(shares'[a], config.llp).principal,
                     StakeValue(account'[config.staking].total,
                                funds'.spot[config.staking][LIT],
                                ShareIn(shares'[a], config.staking).amount))]_poolVars

\* What waits for its lockup is paid: no unlock behind another, of an account in whatever
\* mode, stays in the account for good.
Waits(a, t) == \E i \in DOMAIN funds.unlocks[a] : funds.unlocks[a][i].at = t
UnlocksPaid == \A a \in Users, t \in 0..MaxTime : Waits(a, t) ~> ~Waits(a, t)
=============================================================================
