----------------------------- MODULE PoolShares -----------------------------
(***************************************************************************)
(* The list of pool shares in an account: slots sorted by the index of the  *)
(* pool, the empty ones last.  One pass over the slots updates the share of *)
(* a pool, inserts a new one between two others or drops one that is used up. *)
(***************************************************************************)
EXTENDS Integers, Sequences, SequencesExt

CONSTANTS
    Pool,    \* accounts that may be pools
    Index,   \* their account indexes
    Slots    \* SHARES_LIST_SIZE

ASSUME PoolSharesAssumption ==
    /\ Index \in [Pool -> Nat \ {0}]
    /\ \A p, q \in Pool : Index[p] = Index[q] => p = q
    /\ Slots \in Nat \ {0}

NoPool == "none"
EmptyShare == [pool |-> NoPool, amount |-> 0, principal |-> 0, since |-> 0]
NoShares == [i \in 1..Slots |-> EmptyShare]

IndexOf(p) == IF p = NoPool THEN 0 ELSE Index[p]

\* get_public_pool_share
ShareIn(list, p) ==
    IF \E i \in 1..Slots : list[i].pool = p
    THEN list[CHOOSE i \in 1..Slots : list[i].pool = p]
    ELSE [EmptyShare EXCEPT !.pool = p]

Plus(share, d) ==
    [share EXCEPT !.amount = @ + d.amount, !.principal = @ + d.principal, !.since = @ + d.since]

\* One slot of the pass: `prev' once a share was inserted further left, `next' once the
\* slot of a used-up share was closed.
PassSlot(old, p, d, pass, i) ==
    LET here    == pass.list[i]
        insert  == ~pass.applied /\ (here.amount = 0 \/ IndexOf(here.pool) > IndexOf(p))
        shifted == IF pass.prev THEN old[i - 1]
                   ELSE IF insert THEN [pool |-> p, amount |-> d.amount,
                                        principal |-> d.principal, since |-> d.since]
                   ELSE here
        update  == ~pass.applied /\ ~insert /\ shifted.pool = p
        kept    == IF update THEN Plus(shifted, d) ELSE shifted
        next    == IF update THEN kept.amount = 0 ELSE pass.next
    IN  [list    |-> [pass.list EXCEPT ![i] =
                         IF ~next THEN kept ELSE IF i < Slots THEN old[i + 1] ELSE EmptyShare],
         applied |-> pass.applied \/ insert \/ update,
         prev    |-> pass.prev \/ insert,
         next    |-> next]

Pass(list, p, d) ==
    FoldLeft(LAMBDA pass, i : PassSlot(list, p, d, pass, i),
             [list |-> list, applied |-> FALSE, prev |-> FALSE, next |-> FALSE],
             [i \in 1..Slots |-> i])

\* apply_pool_share_delta and its two assertions
PutShare(list, p, d) == IF d.amount = 0 THEN list ELSE Pass(list, p, d).list

SharePutAllowed(list, p, d) ==
    d.amount = 0 \/ /\ Pass(list, p, d).applied
                    /\ ~(list[Slots].amount # 0 /\ Pass(list, p, d).prev)

\* What the list stands for: at most one share of a pool, in the order of the pools.
InOrder(list) ==
    \A i, j \in 1..Slots : i < j =>
        \/ list[j] = EmptyShare
        \/ list[i].amount > 0 /\ IndexOf(list[i].pool) < IndexOf(list[j].pool)
=============================================================================
