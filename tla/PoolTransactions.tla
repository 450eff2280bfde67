-------------------------- MODULE PoolTransactions --------------------------
(***************************************************************************)
(* Public pools, insurance funds and the staking pool: who owns which shares *)
(* of a pool, what they are worth, and the unlocks of what was staked.       *)
(***************************************************************************)
EXTENDS FundTransactions, PoolShares

CONSTANTS
    FundOperator,  \* INSURANCE_FUND_OPERATOR_ACCOUNT_INDEX
    InitialValue,  \* INITIAL_POOL_SHARE_VALUE
    ShareTick,     \* SHARE_TICK, of min_operator_share_rate
    FeeTick,       \* FEE_TICK, of operator_fee
    Multiplier,    \* LIT_TO_MINT_SHARES_MULTIPLIER
    Rate,          \* USDC_TO_LIT_CONVERSION_RATE
    MaxUnlocks     \* MAX_PENDING_UNLOCKS

ASSUME PoolsAssumption ==
    /\ Pool \subseteq Account /\ NoPool \notin Account
    /\ {InitialValue, ShareTick, FeeTick, Multiplier, Rate, MaxUnlocks} \subseteq Nat \ {0}

VARIABLES
    shares,  \* the share list of every account
    config,  \* the system pools and their periods
    now      \* the time of the block

poolVars == <<account, funds, useMargin, locked, transfers, published, custody,
              shares, config, now>>

NoConfig == [llp |-> NoPool, staking |-> NoPool, cooldown |-> 0, lockup |-> 0]

\* div_biguint: a quotient of zero when the divisor is zero.
Over(n, d) == IF d = 0 THEN 0 ELSE n \div d
Size(n) == IF n < 0 THEN -n ELSE n

IsOperator(a, p) == account[p].master = a
Share(a, p) == ShareIn(shares[a], p)

\* What a owns of p: the operator's shares are kept in the pool.
Owned(a, p) == IF IsOperator(a, p) THEN account[p].own ELSE Share(a, p).amount

\* A bug: the value is rounded up.
PoolValueUp(p, n) ==
    IF account[p].total = 0 THEN n * InitialValue
    ELSE -Over(-n * Size(Value(funds, p)), account[p].total * Mult[USDC])

\* get_shares_usdc_value_for_public_pool
PoolValue(p, n) ==
    IF account[p].total = 0 THEN n * InitialValue
    ELSE Over(n * Size(Value(funds, p)), account[p].total * Mult[USDC])

\* get_shares_asset_value_for_staking_pool
StakeValue(total, balance, n) ==
    IF total = 0 THEN n * InitialValue ELSE Over(n * balance, total * Mult[LIT])

\* Whether the operator's part of a pool is at least its min_operator_share_rate.
OperatorInvested(total, own, rate) == total * rate <= own * ShareTick

\* What principal in the liquidity pool so much of the staking asset allows.
Backed(principal, staked) == principal * Rate <= Multiplier * staked

\* Changes of a share by the transactions of another account than the operator.
ShareDelta(a, p, d) ==
    /\ SharePutAllowed(shares[a], p, d)
    /\ shares' = [shares EXCEPT ![a] = PutShare(@, p, d)]

\* What goes out of the list with n of the shares: the principal paid for them.
Leaving(a, p, n) ==
    [amount |-> -n, principal |-> -Over(Share(a, p).principal * n, Owned(a, p)), since |-> 0]

-----------------------------------------------------------------------------
(* Pools are made and changed by their operators. *)

NewPool(kind, m, n, fee, rate) ==
    [kind |-> kind, mode |-> IF kind = "fund" THEN Unified ELSE Simple, master |-> m,
     frozen |-> FALSE, total |-> n, own |-> n, fee |-> fee, rate |-> rate]

\* L2CreatePublicPoolTxTarget
L2CreatePublicPool(m, p, n, fee, rate) ==
    LET d    == n * InitialValue * Mult[USDC]
        kind == IF m = FundOperator THEN "fund" ELSE "pool"
    IN  /\ Start
        /\ account[m].kind = "master" /\ m # Treasury
        /\ ~Exists(p)
        /\ kind = "fund" => fee = 0 /\ rate = 0
        /\ d <= Available(m, USDC, Perps, FALSE)
        /\ account' = [account EXCEPT ![p] = NewPool(kind, m, n, fee, rate)]
        /\ funds' = LET paid == Collateral(funds, m, -d, Default)
                    IN  [paid EXCEPT !.margin[p][USDC] = @ + d,
                                     !.strategies[p][Default] =
                                         @ + IF kind = "fund" THEN d ELSE 0]
        /\ Publish({m, p}, {USDC}, TRUE)
        /\ UNCHANGED <<useMargin, locked, transfers, custody, shares, config, now>>

\* L2UpdatePublicPoolTxTarget: a fund that is frozen is no longer the liquidity pool.
L2UpdatePublicPool(m, p, freeze, fee, rate) ==
    /\ Start
    /\ IsPool(p) /\ IsOperator(m, p)
    /\ ~account[p].frozen
    /\ fee <= account[p].fee
    /\ IsFund(p) => fee = 0 /\ rate = 0
    /\ freeze => Healthy(funds, p) /\ \A x \in Asset : locked[p][x] = 0
    /\ OperatorInvested(account[p].total, account[p].own, rate)
    /\ account' = [account EXCEPT ![p].frozen = freeze, ![p].fee = fee, ![p].rate = rate]
    /\ config' = IF freeze /\ IsFund(p) /\ config.llp = p
                 THEN [config EXCEPT !.llp = NoPool] ELSE config
    /\ UNCHANGED <<funds, useMargin, locked, transfers, published, custody, shares, now>>

\* L2CreateStakingPoolTxTarget: only the treasury has staking pools.
L2CreateStakingPool(p, n, rate) ==
    LET d == n * InitialValue * Mult[LIT]
    IN  /\ Start
        /\ account[Treasury].kind = "master"
        /\ ~Exists(p)
        /\ d <= Available(Treasury, LIT, Spot, FALSE)
        /\ funds.spot[Treasury][LIT] >= d
        /\ account' = [account EXCEPT ![p] = NewPool("staking", Treasury, n, 0, rate)]
        /\ funds' = [funds EXCEPT !.spot[Treasury][LIT] = @ - d, !.spot[p][LIT] = d]
        /\ Publish({Treasury, p}, {LIT}, TRUE)
        /\ UNCHANGED <<useMargin, locked, transfers, custody, shares, config, now>>

\* L1SetSystemConfigTxTarget: one with a pool that does not fit changes nothing.
L1SetSystemConfig(llp, staking, cooldown, lockup) ==
    /\ Start
    /\ IsFund(llp) /\ ~account[llp].frozen
    /\ IsStaking(staking) /\ ~account[staking].frozen
    /\ config' = [llp |-> llp, staking |-> staking, cooldown |-> cooldown, lockup |-> lockup]
    /\ UNCHANGED <<account, funds, useMargin, locked, transfers, published, custody, shares, now>>

-----------------------------------------------------------------------------
(* Shares of public pools and insurance funds. *)

\* The stake a minter of the liquidity pool needs; its operators need none.
StakedFor(a, p) ==
    StakeValue(account[p].total, funds.spot[p][LIT], Share(a, p).amount)

\* L2MintSharesTxTarget
L2MintShares(a, p, n) ==
    LET cost    == PoolValue(p, n)
        d       == cost * Mult[USDC]
        staking == config.staking
    IN  /\ Start
        /\ IsUser(a) /\ a # Treasury
        /\ IsPool(p) /\ ~account[p].frozen
        /\ d <= Available(a, USDC, Perps, FALSE)
        /\ ~IsOperator(a, p) =>
              OperatorInvested(account[p].total + n, account[p].own, account[p].rate)
        /\ (~IsOperator(a, p) /\ p = config.llp /\ staking # NoPool
            /\ ~IsOperator(a, staking)) =>
              Backed(Share(a, p).principal + cost, StakedFor(a, staking))
        /\ funds' = Collateral(Collateral(funds, p, d, Default), a, -d, Default)
        /\ account' = [account EXCEPT ![p].total = @ + n,
                                      ![p].own = @ + IF IsOperator(a, p) THEN n ELSE 0]
        /\ IF IsOperator(a, p) THEN UNCHANGED shares
           ELSE ShareDelta(a, p, [amount |-> n, principal |-> cost,
                                  since |-> now - Share(a, p).since])
        /\ Publish({a, p}, {USDC}, TRUE)
        /\ UNCHANGED <<useMargin, locked, transfers, custody, config, now>>

\* get_available_shares_to_burn_for_public_pool: what the default strategy has free.
SharesFree(p) ==
    LET free == Positive(Lesser(Value(funds, p), IF IsFund(p)
                                                 THEN funds.strategies[p][Default]
                                                 ELSE funds.margin[p][USDC]))
    IN  Over(free * account[p].total, Size(Value(funds, p)))

\* The shares of n that go to the operator: its fee on the profit.
FeeShares(a, p, n) ==
    LET profit == PoolValue(p, n) + Leaving(a, p, n).principal
    IN  IF IsOperator(a, p) \/ profit <= 0 THEN 0
        ELSE Over(profit * account[p].fee * account[p].total * Mult[USDC],
                  FeeTick * Value(funds, p))

\* A bug: the operator's fee counts as burned.
PoolAfterBurnAll(a, p, n, fee) ==
    [account EXCEPT ![p].total = @ - n,
                    ![p].own = @ + IF IsOperator(a, p) THEN -n ELSE fee]

\* The fee changes hands, the rest is burned.
PoolAfterBurn(a, p, n, fee) ==
    [account EXCEPT ![p].total = @ - (n - fee),
                    ![p].own = @ + IF IsOperator(a, p) THEN -n ELSE fee]

\* What L1BurnShares and L2BurnShares check and do.
Burn(a, p, n) ==
    LET fee == FeeShares(a, p, n)
        d   == PoolValue(p, n - fee) * Mult[USDC]
    IN  /\ IsPool(p) /\ Healthy(funds, p)
        /\ (~IsOperator(a, p) /\ p = config.llp) => now >= Share(a, p).since + config.cooldown
        /\ n <= Owned(a, p) /\ n <= SharesFree(p)
        /\ (IsOperator(a, p) /\ ~account[p].frozen) =>
              OperatorInvested(account[p].total - n, account[p].own - n, account[p].rate)
        /\ funds' = Collateral(Collateral(funds, a, d, Default), p, -d, Default)
        /\ account' = PoolAfterBurn(a, p, n, fee)
        /\ IF IsOperator(a, p) THEN UNCHANGED shares ELSE ShareDelta(a, p, Leaving(a, p, n))
        /\ Publish({a, p}, {USDC}, TRUE)
        /\ UNCHANGED <<useMargin, locked, transfers, custody, config, now>>

\* L2BurnSharesTxTarget
L2BurnShares(a, p, n) == Start /\ IsUser(a) /\ a # Treasury /\ Burn(a, p, n)

\* L1BurnSharesTxTarget: one that cannot be made changes nothing; the treasury may too.
L1BurnShares(a, p, n) ==
    /\ Start
    /\ Exists(a) /\ ~IsStaking(a)
    /\ account[p].total # 0 /\ Value(funds, p) > 0
    /\ Burn(a, p, n)

-----------------------------------------------------------------------------
(* Shares of the staking pools. *)

\* L2StakeAssetsTxTarget
L2StakeAssets(a, p, n) ==
    LET cost == StakeValue(account[p].total, funds.spot[p][LIT], n)
        d    == cost * Mult[LIT]
    IN  /\ Start
        /\ IsUser(a) /\ a # FundOperator
        /\ IsStaking(p) /\ ~account[p].frozen
        /\ d <= Available(a, LIT, Spot, FALSE) /\ d <= funds.spot[a][LIT]
        /\ ~IsOperator(a, p) =>
              OperatorInvested(account[p].total + n, account[p].own, account[p].rate)
        /\ funds' = [funds EXCEPT !.spot[a][LIT] = @ - d, !.spot[p][LIT] = @ + d]
        /\ account' = [account EXCEPT ![p].total = @ + n,
                                      ![p].own = @ + IF IsOperator(a, p) THEN n ELSE 0]
        /\ IF IsOperator(a, p) THEN UNCHANGED shares
           ELSE ShareDelta(a, p, [amount |-> n, principal |-> cost, since |-> 0])
        /\ Publish({a, p}, {LIT}, TRUE)
        /\ UNCHANGED <<useMargin, locked, transfers, custody, config, now>>

\* get_available_shares_to_burn_for_staking_pool
StakeFree(p) == Over(AvailableSpot(p, LIT) * account[p].total, funds.spot[p][LIT])

\* add_pending_unlock: the first slot without an amount takes it.
AddUnlock(unlocks, amount, at) ==
    IF amount = 0 THEN unlocks ELSE Append(unlocks, [amount |-> amount, at |-> at])

\* A bug: the stake is looked at before the shares go.
StillBackedStale(a, p, n, d) ==
    Backed(Share(a, config.llp).principal,
           StakeValue(account[p].total, funds.spot[p][LIT], Share(a, p).amount))

\* What the unstaker of n shares must still have staked for its principal.
StillBacked(a, p, n, d) ==
    Backed(Share(a, config.llp).principal,
           StakeValue(account[p].total - n, funds.spot[p][LIT] - d, Share(a, p).amount - n))


\* L2UnstakeAssetsTxTarget: users of the system's staking pool wait for the lockup.
L2UnstakeAssets(a, p, n) ==
    LET d      == StakeValue(account[p].total, funds.spot[p][LIT], n) * Mult[LIT]
        system == ~IsOperator(a, p) /\ p = config.staking
        waits  == system /\ config.lockup # 0
    IN  /\ Start
        /\ IsUser(a) /\ a # FundOperator
        /\ IsStaking(p)
        /\ n <= Owned(a, p) /\ n <= StakeFree(p)
        /\ (IsOperator(a, p) /\ ~account[p].frozen) =>
              OperatorInvested(account[p].total - n, account[p].own - n, account[p].rate)
        /\ (system /\ config.llp # NoPool /\ ~IsOperator(a, config.llp)) =>
              StillBacked(a, p, n, d)
        /\ waits => Len(funds.unlocks[a]) < MaxUnlocks
        /\ funds' = [funds EXCEPT
              !.spot[p][LIT] = @ - d,
              !.spot[a][LIT] = @ + IF waits THEN 0 ELSE d,
              !.unlocks[a] = IF waits THEN AddUnlock(@, d, now + config.lockup) ELSE @]
        /\ account' = [account EXCEPT ![p].total = @ - n,
                                      ![p].own = @ - IF IsOperator(a, p) THEN n ELSE 0]
        /\ IF IsOperator(a, p) THEN UNCHANGED shares ELSE ShareDelta(a, p, Leaving(a, p, n))
        /\ Publish({a, p}, {LIT}, TRUE)
        /\ UNCHANGED <<useMargin, locked, transfers, custody, config, now>>

\* A bug: the unlock goes to the margin side.
PendingUnlockPerps(a) ==
    /\ Start
    /\ funds.unlocks[a] # << >>
    /\ Head(funds.unlocks[a]).at <= now
    /\ Splittable(a, LIT, Perps)
    /\ funds' = Delta([funds EXCEPT !.unlocks[a] = Tail(@)], a, LIT, Perps,
                      Head(funds.unlocks[a]).amount, Default)
    /\ Publish({a}, {LIT}, TRUE)
    /\ UNCHANGED <<account, useMargin, locked, transfers, custody, shares, config, now>>

\* InternalPendingUnlockTxTarget: the oldest unlock of a, when its time has come.
InternalPendingUnlock(a) ==
    /\ Start
    /\ funds.unlocks[a] # << >>
    /\ Head(funds.unlocks[a]).at <= now
    /\ Head(funds.unlocks[a]).amount # 0
    /\ Splittable(a, LIT, Spot)
    /\ funds' = Delta([funds EXCEPT !.unlocks[a] = Tail(@)], a, LIT, Spot,
                      Head(funds.unlocks[a]).amount, Default)
    /\ Valid(funds', a, LIT)
    /\ Publish({a}, {LIT}, TRUE)
    /\ UNCHANGED <<account, useMargin, locked, transfers, custody, shares, config, now>>
=============================================================================
