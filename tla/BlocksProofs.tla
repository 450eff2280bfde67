---------------------------- MODULE BlocksProofs ----------------------------
(***************************************************************************)
(* Blocks put together from a heavy and a light chain are one history, for *)
(* any states, any number of transactions and any padding.                 *)
(***************************************************************************)
EXTENDS Blocks, TLAPS

Record == [from : Int, to : Int, old : Root, new : Root]
Slot == [index : Nat, old : Root, new : Root]
Jump == [last : Int, prevNew : Root, runPrev : Int, runOld : Root,
         coverage : Seq(Record), claims : Seq(Record), count : Nat]

In(x, s) == \E k \in 1..Len(s) : s[k] = x
Has(S, i) == \E s \in S : s.index = i
HasNew(S, i, r) == \E s \in S : s.index = i /\ s.new = r

\* A run: transactions with all indices between two, up to a state.
Run(S, x) ==
    /\ x.from >= -1 /\ x.from + 1 < x.to
    /\ \A i \in Int : x.from < i /\ i < x.to => Has(S, i)
    /\ HasNew(S, x.to - 1, x.new)

\* A gap: no transaction between two of the chain, the first of which may be the start.
Gap(S, last, x) ==
    /\ x.from >= -1 /\ x.from < x.to /\ x.to <= last
    /\ \A i \in Int : x.from < i /\ i < x.to => ~Has(S, i)

-----------------------------------------------------------------------------
(* What a jump state says of the transactions S of a chain that started in r: the runs   *)
(* and the gaps it has recorded, and the run that is open, are all there is.             *)
SlotsOK(j, r, S) ==
    /\ S \subseteq Slot
    /\ \A s, t \in S : s.index = t.index => s = t
    /\ \A s \in S : s.index <= j.last
    /\ \A s \in S : s.index = 0 => s.old = r

EndOK(j, r, S) ==
    /\ -1 <= j.runPrev /\ j.runPrev <= j.last
    /\ IF j.last = -1 THEN j.prevNew = r ELSE HasNew(S, j.last, j.prevNew)
    /\ j.last = j.runPrev => j.last = -1

OpenRunOK(j, S) == j.runPrev < j.last => Run(S, CoverageRecord(j))

CoverageOK(j, S) ==
    /\ \A x \in Record : In(x, j.coverage) => Run(S, x)
    /\ \A s \in S : \/ j.runPrev < s.index
                    \/ \E x \in Record : In(x, j.coverage) /\ x.from < s.index /\ s.index < x.to

ClaimsOK(j, S) ==
    /\ \A x \in Record : In(x, j.claims) => Gap(S, j.last, x)
    /\ \A i \in 0..j.last : \/ Has(S, i)
                            \/ \E x \in Record : In(x, j.claims) /\ x.from < i /\ i < x.to
    /\ \A s \in S : s.index > 0 =>
          \/ HasNew(S, s.index - 1, s.old)
          \/ \E x \in Record : In(x, j.claims) /\ x.to = s.index /\ x.new = s.old

JumpOK(j, r, S) ==
    /\ j \in Jump /\ r \in Root
    /\ SlotsOK(j, r, S)
    /\ EndOK(j, r, S)
    /\ OpenRunOK(j, S)
    /\ CoverageOK(j, S)
    /\ ClaimsOK(j, S)

-----------------------------------------------------------------------------
\* What is in a sequence that grows by one.
LEMMA AppendIn ==
    ASSUME NEW T, NEW s \in Seq(T), NEW e \in T, NEW x
    PROVE  In(x, Append(s, e)) <=> In(x, s) \/ x = e
<1>1. Len(Append(s, e)) = Len(s) + 1 /\ Len(s) \in Nat
  OBVIOUS
<1>2. \A k \in 1..Len(s) : Append(s, e)[k] = s[k]
  OBVIOUS
<1>3. Append(s, e)[Len(s) + 1] = e
  OBVIOUS
<1> QED BY <1>1, <1>2, <1>3 DEF In

\* A chain that has proved nothing.
LEMMA JumpStarts ==
    ASSUME NEW r \in Root
    PROVE  JumpOK(JumpInitial(r), r, {})
<1>1. << >> \in Seq(Record) /\ Len(<< >>) = 0
  OBVIOUS
<1>2. \A x : ~In(x, << >>)
  BY <1>1 DEF In
<1> QED
  BY <1>1, <1>2 DEF JumpOK, JumpInitial, SlotsOK, EndOK, OpenRunOK, CoverageOK, ClaimsOK, Jump

\* A transaction keeps the records of the chain right.
LEMMA JumpSteps ==
    ASSUME NEW j, NEW r, NEW S, JumpOK(j, r, S),
           NEW i \in Nat, NEW old \in Root, NEW new \in Root, JumpAllowed(j, i, old)
    PROVE  JumpOK(JumpStep(j, i, old, new), r, S \union {[index |-> i, old |-> old, new |-> new]})
<1> DEFINE s == [index |-> i, old |-> old, new |-> new]
           T == S \union {s}
           k == JumpStep(j, i, old, new)
           jumped == i # j.last + 1
           run == CoverageRecord(j)
           gap == ClaimRecord(j, i, old)
<1>1. s \in Slot /\ s.index = i /\ s.old = old /\ s.new = new
  BY DEF Slot
<1>2. j \in Jump /\ r \in Root /\ j.last \in Int /\ j.runPrev \in Int /\ j.last < i
  BY DEF JumpOK, Jump, JumpAllowed
<1>3. run \in Record /\ gap \in Record
  BY <1>2 DEF CoverageRecord, ClaimRecord, Record, Jump
<1>4. /\ gap.from = j.last /\ gap.to = i /\ gap.new = old
      /\ run.from = j.runPrev /\ run.to = j.last + 1 /\ run.new = j.prevNew
  BY DEF CoverageRecord, ClaimRecord
<1>5. /\ k.last = i /\ k.prevNew = new
      /\ k.runPrev = IF jumped THEN i - 1 ELSE j.runPrev
      /\ k.coverage = IF jumped /\ j.last # j.runPrev THEN Append(j.coverage, run) ELSE j.coverage
      /\ k.claims = IF jumped THEN Append(j.claims, gap) ELSE j.claims
  BY DEF JumpStep
<1>6. k \in Jump
  <2>1. Append(j.coverage, run) \in Seq(Record) /\ Append(j.claims, gap) \in Seq(Record)
    BY <1>2, <1>3 DEF Jump
  <2> QED BY <1>2, <2>1 DEF JumpStep, Jump
<1>7. \A x : In(x, k.coverage) <=> In(x, j.coverage) \/ (jumped /\ j.last # j.runPrev /\ x = run)
  BY <1>2, <1>3, <1>5, AppendIn DEF Jump
<1>8. \A x : In(x, k.claims) <=> In(x, j.claims) \/ (jumped /\ x = gap)
  BY <1>2, <1>3, <1>5, AppendIn DEF Jump
<1>9. /\ SlotsOK(j, r, S) /\ EndOK(j, r, S) /\ OpenRunOK(j, S)
      /\ CoverageOK(j, S) /\ ClaimsOK(j, S)
  BY DEF JumpOK
<1>10. /\ \A n : Has(S, n) => Has(T, n)
       /\ \A n, q : HasNew(S, n, q) => HasNew(T, n, q)
       /\ Has(T, i) /\ HasNew(T, i, new)
       /\ \A n : Has(T, n) => Has(S, n) \/ n = i
  BY <1>1 DEF Has, HasNew
<1>11. \A n \in Int : Has(S, n) => n <= j.last /\ n >= 0
  BY <1>9 DEF Has, SlotsOK, Slot
<1>12. \A x \in Record : Run(S, x) => Run(T, x)
  BY <1>10 DEF Run
<1> HIDE DEF k, s
<1>13. SlotsOK(k, r, T)
  <2>1. T \subseteq Slot
    BY <1>1, <1>9 DEF SlotsOK
  <2>2. \A t \in S : t.index <= j.last /\ t.index \in Nat
    BY <1>9 DEF SlotsOK, Slot
  <2>3. \A t, u \in T : t.index = u.index => t = u
    BY <1>1, <1>2, <1>9, <2>2 DEF SlotsOK
  <2>4. \A t \in T : t.index <= k.last
    BY <1>1, <1>2, <1>5, <2>2
  <2>5. i = 0 => old = r
    BY <1>2, <1>9 DEF EndOK, JumpAllowed
  <2>6. \A t \in T : t.index = 0 => t.old = r
    BY <1>1, <1>9, <2>5 DEF SlotsOK
  <2> QED BY <2>1, <2>3, <2>4, <2>6 DEF SlotsOK
<1>14. EndOK(k, r, T)
  BY <1>2, <1>5, <1>9, <1>10 DEF EndOK
<1>15. OpenRunOK(k, T)
  <2> DEFINE y == CoverageRecord(k)
  <2>1. y.from = k.runPrev /\ y.to = i + 1 /\ y.new = new
    BY <1>5 DEF CoverageRecord
  <2>2. k.runPrev \in Int /\ -1 <= k.runPrev /\ k.runPrev < i
    BY <1>2, <1>5, <1>9 DEF EndOK
  <2>3. ASSUME NEW n \in Int, k.runPrev < n, n < i + 1
        PROVE  Has(T, n)
    <3>1. CASE n = i
      BY <3>1, <1>10
    <3>2. CASE n # i
      <4>1. ~jumped /\ j.runPrev < n /\ n < j.last + 1
        BY <3>2, <2>3, <1>2, <1>5
      <4>2. Run(S, run)
        BY <4>1, <1>2, <1>9 DEF OpenRunOK
      <4> QED BY <4>1, <4>2, <1>4, <1>10 DEF Run
    <3> QED BY <3>1, <3>2
  <2>4. HasNew(T, y.to - 1, y.new)
    BY <2>1, <1>10
  <2>5. Run(T, y)
    <3> HIDE DEF y, T
    <3> QED BY <2>1, <2>2, <2>3, <2>4 DEF Run
  <2> QED BY <2>5 DEF OpenRunOK
<1>16. CoverageOK(k, T)
  <2>1. ASSUME NEW x \in Record, In(x, k.coverage)
        PROVE  Run(T, x)
    <3>1. CASE In(x, j.coverage)
      BY <3>1, <1>9, <1>12 DEF CoverageOK
    <3>2. CASE jumped /\ j.last # j.runPrev /\ x = run
      <4>1. j.runPrev < j.last
        BY <3>2, <1>2, <1>9 DEF EndOK
      <4> QED BY <4>1, <3>2, <1>3, <1>9, <1>12 DEF OpenRunOK
    <3> QED BY <2>1, <3>1, <3>2, <1>7
  <2>2. ASSUME NEW t \in T
        PROVE  \/ k.runPrev < t.index
               \/ \E x \in Record : In(x, k.coverage) /\ x.from < t.index /\ t.index < x.to
    <3>1. CASE t = s
      BY <3>1, <1>1, <1>2, <1>5, <1>9 DEF EndOK
    <3>2. CASE t \in S
      <4>1. t.index \in Nat /\ t.index <= j.last
        BY <3>2, <1>9 DEF SlotsOK, Slot
      <4>2. CASE j.runPrev < t.index
        <5>1. CASE ~jumped
          BY <5>1, <4>2, <1>5
        <5>2. CASE jumped
          <6>1. In(run, k.coverage)
            BY <5>2, <4>1, <4>2, <1>2, <1>7
          <6> QED BY <6>1, <4>1, <4>2, <1>2, <1>3, <1>4
        <5> QED BY <5>1, <5>2
      <4>3. CASE ~(j.runPrev < t.index)
        <5>1. PICK x \in Record : In(x, j.coverage) /\ x.from < t.index /\ t.index < x.to
          BY <4>3, <3>2, <1>9 DEF CoverageOK
        <5> QED BY <5>1, <1>7
      <4> QED BY <4>2, <4>3
    <3> QED BY <2>2, <3>1, <3>2
  <2> QED BY <2>1, <2>2 DEF CoverageOK
<1> HIDE DEF T
<1>17. ClaimsOK(k, T)
  <2>1. ASSUME NEW x \in Record, In(x, k.claims)
        PROVE  Gap(T, k.last, x)
    <3>1. CASE In(x, j.claims)
      <4>1. Gap(S, j.last, x)
        BY <3>1, <1>9 DEF ClaimsOK
      <4>2. x.from \in Int /\ x.to \in Int
        BY DEF Record
      <4>3. \A n \in Int : x.from < n /\ n < x.to => n # i
        BY <4>1, <4>2, <1>2 DEF Gap
      <4> QED BY <4>1, <4>2, <4>3, <1>2, <1>5, <1>10 DEF Gap
    <3>2. CASE jumped /\ x = gap
      <4>1. gap.from >= -1
        BY <1>2, <1>4, <1>9 DEF EndOK
      <4>2. \A n \in Int : j.last < n /\ n < i => ~Has(T, n)
        BY <1>2, <1>10, <1>11
      <4> QED BY <4>1, <4>2, <3>2, <1>2, <1>4, <1>5 DEF Gap
    <3> QED BY <2>1, <3>1, <3>2, <1>8
  <2>2. ASSUME NEW n \in 0..k.last
        PROVE  \/ Has(T, n)
               \/ \E x \in Record : In(x, k.claims) /\ x.from < n /\ n < x.to
    <3>1. CASE n <= j.last
      <4>1. n \in 0..j.last
        BY <3>1, <1>2, <1>5
      <4> QED BY <4>1, <1>8, <1>9, <1>10 DEF ClaimsOK
    <3>2. CASE n = i
      BY <3>2, <1>10
    <3>3. CASE j.last < n /\ n < i
      <4>1. jumped
        BY <3>3, <1>2
      <4> QED BY <4>1, <3>3, <1>3, <1>4, <1>8
    <3> QED BY <3>1, <3>2, <3>3, <1>2, <1>5
  <2>3. ASSUME NEW t \in T, t.index > 0
        PROVE  \/ HasNew(T, t.index - 1, t.old)
               \/ \E x \in Record : In(x, k.claims) /\ x.to = t.index /\ x.new = t.old
    <3>1. CASE t \in S
      <4>1. CASE HasNew(S, t.index - 1, t.old)
        BY <4>1, <1>10
      <4>2. CASE \E x \in Record : In(x, j.claims) /\ x.to = t.index /\ x.new = t.old
        BY <4>2, <1>8
      <4> QED BY <3>1, <2>3, <4>1, <4>2, <1>9 DEF ClaimsOK
    <3>2. CASE t = s /\ jumped
      BY <3>2, <1>1, <1>3, <1>4, <1>8
    <3>3. CASE t = s /\ ~jumped
      <4>1. i = j.last + 1 /\ old = j.prevNew /\ j.last # -1
        BY <3>3, <2>3, <1>1, <1>2 DEF JumpAllowed
      <4>2. HasNew(S, i - 1, old)
        BY <4>1, <1>2, <1>9 DEF EndOK
      <4> QED BY <4>2, <3>3, <1>1, <1>10
    <3> QED BY <2>3, <3>1, <3>2, <3>3 DEF T
  <2> QED BY <2>1, <2>2, <2>3 DEF ClaimsOK
<1> QED BY <1>2, <1>6, <1>13, <1>14, <1>15, <1>16, <1>17 DEF JumpOK, k, s, T

-----------------------------------------------------------------------------
(* What the chains commit to in the end. *)

\* The coverage a chain commits to has all of its transactions, each in a run.
LEMMA FinalCoverageIsAll ==
    ASSUME NEW j, NEW r, NEW S, JumpOK(j, r, S)
    PROVE  /\ \A x \in Record : In(x, FinalCoverage(j)) => Run(S, x)
           /\ \A s \in S : \E x \in Record :
                 In(x, FinalCoverage(j)) /\ x.from < s.index /\ s.index < x.to
<1> DEFINE run == CoverageRecord(j)
           F == FinalCoverage(j)
<1>1. /\ j \in Jump /\ j.last \in Int /\ j.runPrev \in Int
      /\ SlotsOK(j, r, S) /\ EndOK(j, r, S) /\ OpenRunOK(j, S) /\ CoverageOK(j, S)
  BY DEF JumpOK, Jump
<1>2. run \in Record /\ run.from = j.runPrev /\ run.to = j.last + 1
  BY <1>1 DEF CoverageRecord, Record, Jump
<1>3. \A x : In(x, F) <=> In(x, j.coverage) \/ (j.last # j.runPrev /\ x = run)
  BY <1>1, <1>2, AppendIn DEF FinalCoverage, Jump
<1>4. j.last # j.runPrev => Run(S, run)
  BY <1>1 DEF EndOK, OpenRunOK
<1> HIDE DEF F, run
<1>5. ASSUME NEW s \in S
      PROVE  \E x \in Record : In(x, F) /\ x.from < s.index /\ s.index < x.to
  <2>1. s.index \in Nat /\ s.index <= j.last
    BY <1>1 DEF SlotsOK, Slot
  <2>2. CASE j.runPrev < s.index
    <3>1. j.last # j.runPrev /\ run.from < s.index /\ s.index < run.to
      BY <2>1, <2>2, <1>1, <1>2
    <3> QED BY <3>1, <1>2, <1>3
  <2>3. CASE ~(j.runPrev < s.index)
    <3>1. PICK x \in Record : In(x, j.coverage) /\ x.from < s.index /\ s.index < x.to
      BY <2>3, <1>1 DEF CoverageOK
    <3> QED BY <3>1, <1>3
  <2> QED BY <2>2, <2>3
<1>6. \A x \in Record : In(x, F) => Run(S, x)
  BY <1>1, <1>3, <1>4 DEF CoverageOK
<1> QED BY <1>5, <1>6 DEF F

\* The claims it commits to are gaps, up to the end of the block.
LEMMA FinalClaimsAreGaps ==
    ASSUME NEW j, NEW r, NEW S, JumpOK(j, r, S), NEW total \in Nat, NEW new \in Root
    PROVE  /\ \A x \in Record : In(x, FinalClaims(j, total, new)) =>
                 \A i \in Int : x.from < i /\ i < x.to => ~Has(S, i)
           /\ \A x \in Record : In(x, j.claims) => In(x, FinalClaims(j, total, new))
           /\ j.last + 1 # total => \E x \in Record :
                 In(x, FinalClaims(j, total, new)) /\ x.from = j.last /\ x.to = total
<1> DEFINE gap == ClaimRecord(j, total, new)
           F == FinalClaims(j, total, new)
<1>1. j \in Jump /\ j.last \in Int /\ SlotsOK(j, r, S) /\ ClaimsOK(j, S)
  BY DEF JumpOK, Jump
<1>2. gap \in Record /\ gap.from = j.last /\ gap.to = total
  BY <1>1 DEF ClaimRecord, Record, Jump
<1>3. \A x : In(x, F) <=> In(x, j.claims) \/ (j.last + 1 # total /\ x = gap)
  BY <1>1, <1>2, AppendIn DEF FinalClaims, Jump
<1>4. \A i \in Int : j.last < i => ~Has(S, i)
  BY <1>1 DEF SlotsOK, Has, Slot
<1> HIDE DEF F, gap
<1>5. ASSUME NEW x \in Record, In(x, F), NEW i \in Int, x.from < i, i < x.to
      PROVE  ~Has(S, i)
  <2>1. CASE In(x, j.claims)
    BY <2>1, <1>1, <1>5 DEF ClaimsOK, Gap
  <2>2. CASE x = gap
    BY <2>2, <1>2, <1>4, <1>5
  <2> QED BY <2>1, <2>2, <1>3, <1>5
<1>6. j.last + 1 # total => In(gap, F)
  BY <1>3
<1> QED BY <1>2, <1>3, <1>5, <1>6 DEF F

\* A chain e that ends a block of `total' transactions and another one o, which cover
\* each other's gaps: what one claims the other proves.
Fit(e, o, total) ==
    /\ e.last + 1 = total
    /\ FinalCoverage(e) = FinalClaims(o, total, e.prevNew)
    /\ FinalCoverage(o) = FinalClaims(e, total, e.prevNew)

\* Two chains that cover what the other claims have every index once, and their transactions
\* start where the one before ended.
LEMMA ChainsFitTogether ==
    ASSUME NEW e, NEW o, NEW r, NEW E, NEW O, NEW total \in Nat,
           JumpOK(e, r, E), JumpOK(o, r, O), Fit(e, o, total)
    PROVE  /\ \A s \in E, t \in O : s.index # t.index
           /\ \A i \in 0..total - 1 : Has(E, i) \/ Has(O, i)
           /\ \A s \in E \union O : s.index \in 0..total - 1
           /\ \A s \in E \union O : s.index > 0 => HasNew(E \union O, s.index - 1, s.old)
           /\ IF total = 0 THEN e.prevNew = r ELSE HasNew(E, total - 1, e.prevNew)
<1> DEFINE F(x, y) == In(x, FinalCoverage(y))
<1>1. /\ e \in Jump /\ o \in Jump /\ e.last \in Int /\ o.last \in Int /\ e.prevNew \in Root
      /\ SlotsOK(e, r, E) /\ EndOK(e, r, E) /\ ClaimsOK(e, E)
      /\ SlotsOK(o, r, O) /\ EndOK(o, r, O) /\ ClaimsOK(o, O)
      /\ e.last + 1 = total
  BY DEF JumpOK, Jump, Fit
<1>2. /\ \A x \in Record : F(x, e) => Run(E, x)
      /\ \A s \in E : \E x \in Record : F(x, e) /\ x.from < s.index /\ s.index < x.to
  BY FinalCoverageIsAll
<1>3. /\ \A x \in Record : F(x, o) => Run(O, x)
      /\ \A s \in O : \E x \in Record : F(x, o) /\ x.from < s.index /\ s.index < x.to
  BY FinalCoverageIsAll
<1>4. /\ \A x \in Record : F(x, o) => \A i \in Int : x.from < i /\ i < x.to => ~Has(E, i)
      /\ \A x \in Record : In(x, e.claims) => F(x, o)
  BY <1>1, FinalClaimsAreGaps DEF Fit
<1>5. /\ \A x \in Record : In(x, o.claims) => F(x, e)
      /\ o.last + 1 # total => \E x \in Record : F(x, e) /\ x.from = o.last /\ x.to = total
  BY <1>1, FinalClaimsAreGaps DEF Fit
<1>6. \A x \in Record : x.from \in Int /\ x.to \in Int
  BY DEF Record
<1> HIDE DEF F
<1>7. \A s \in E \union O : s.index \in Nat
  BY <1>1 DEF SlotsOK, Slot
<1>8. ASSUME NEW s \in E, NEW t \in O, s.index = t.index
      PROVE  FALSE
  <2>1. PICK x \in Record : F(x, o) /\ x.from < t.index /\ t.index < x.to
    BY <1>3
  <2>2. ~Has(E, t.index)
    BY <2>1, <1>4, <1>7
  <2> QED BY <2>2, <1>8 DEF Has
<1>9. ASSUME NEW i \in 0..total - 1
      PROVE  Has(E, i) \/ Has(O, i)
  <2>1. i \in 0..e.last
    BY <1>1
  <2>2. CASE \E x \in Record : In(x, e.claims) /\ x.from < i /\ i < x.to
    BY <2>2, <1>3, <1>4 DEF Run
  <2> QED BY <2>1, <2>2, <1>1 DEF ClaimsOK
<1>10. o.last <= total - 1
  <2>1. CASE o.last + 1 # total
    <3>1. PICK x \in Record : F(x, e) /\ x.from = o.last /\ x.to = total
      BY <2>1, <1>5
    <3>2. Run(E, x)
      BY <3>1, <1>2
    <3> QED BY <3>1, <3>2, <1>1 DEF Run
  <2> QED BY <2>1, <1>1
<1>11. \A s \in E \union O : s.index \in 0..total - 1
  BY <1>1, <1>7, <1>10 DEF SlotsOK
<1>12. ASSUME NEW s \in E \union O, s.index > 0
       PROVE  HasNew(E \union O, s.index - 1, s.old)
  <2>1. CASE s \in E
    <3>1. CASE \E x \in Record : In(x, e.claims) /\ x.to = s.index /\ x.new = s.old
      <4>1. PICK x \in Record : In(x, e.claims) /\ x.to = s.index /\ x.new = s.old
        BY <3>1
      <4>2. Run(O, x)
        BY <4>1, <1>3, <1>4
      <4> QED BY <4>1, <4>2 DEF Run, HasNew
    <3>2. CASE HasNew(E, s.index - 1, s.old)
      BY <3>2 DEF HasNew
    <3> QED BY <2>1, <3>1, <3>2, <1>1, <1>12 DEF ClaimsOK
  <2>2. CASE s \in O
    <3>1. CASE \E x \in Record : In(x, o.claims) /\ x.to = s.index /\ x.new = s.old
      <4>1. PICK x \in Record : In(x, o.claims) /\ x.to = s.index /\ x.new = s.old
        BY <3>1
      <4>2. Run(E, x)
        BY <4>1, <1>2, <1>5
      <4> QED BY <4>1, <4>2 DEF Run, HasNew
    <3>2. CASE HasNew(O, s.index - 1, s.old)
      BY <3>2 DEF HasNew
    <3> QED BY <2>2, <3>1, <3>2, <1>1, <1>12 DEF ClaimsOK
  <2> QED BY <2>1, <2>2
<1>13. IF total = 0 THEN e.prevNew = r ELSE HasNew(E, total - 1, e.prevNew)
  BY <1>1 DEF EndOK
<1> QED BY <1>8, <1>9, <1>11, <1>12, <1>13

-----------------------------------------------------------------------------
(* The invariant of the state machine. *)

Op == Root \X Root
Chain == [jump : Jump, initial : Root, new : Root, steps : Nat, priority : Seq(Op),
          onChain : Seq(Op), messages : SUBSET Message, slots : SUBSET Slot]
Batch == [end : Nat, size : Nat, start : Nat, last : Nat, old : Root, new : Root,
          segment : Seq(Op), onChain : Seq(Op), count : Nat,
          oldPrefix : Seq(Op), prefix : Seq(Op)]

HasPriority(p, s) == "priority" \in EffectsOf(p, s.old, s.new)

\* The priority operation of a chain is that of the one transaction that has one.
PriorityOK(p, c) ==
    \/ c.priority = << >> /\ \A s \in c.slots : ~HasPriority(p, s)
    \/ \E s \in c.slots : /\ c.priority = << <<s.old, s.new>> >>
                          /\ HasPriority(p, s)
                          /\ \A t \in c.slots : HasPriority(p, t) => t = s

ChainOK(p, c) ==
    /\ c \in Chain
    /\ JumpOK(c.jump, c.initial, c.slots)
    /\ PriorityOK(p, c)

IInv ==
    /\ chain \in [Path -> Chain]
    /\ \A p \in Path : ChainOK(p, chain[p])
    /\ batch \in Batch

\* A chain without transactions is in order.
LEMMA ChainStarts ==
    ASSUME NEW p \in Path, NEW r \in Root
    PROVE  ChainOK(p, NewChain(r))
<1>1. JumpOK(JumpInitial(r), r, {})
  BY JumpStarts
<1>2. << >> \in Seq(Op)
  OBVIOUS
<1>3. NewChain(r) \in Chain
  <2>1. JumpInitial(r) \in Jump
    BY <1>1 DEF JumpOK
  <2> HIDE DEF JumpInitial
  <2> QED BY <2>1, <1>2 DEF NewChain, Chain
<1> QED BY <1>1, <1>3 DEF NewChain, ChainOK, PriorityOK

\* A transaction keeps it so.
LEMMA TxKeepsChain ==
    ASSUME IInv, NEW p \in Path, NEW i \in Nat, NEW old \in Root, NEW new \in Root,
           AddTx(p, i, old, new)
    PROVE  /\ chain' \in [Path -> Chain]
           /\ \A q \in Path : ChainOK(q, chain'[q])
<1> DEFINE c == chain[p]
           effects == EffectsOf(p, old, new)
           s == [index |-> i, old |-> old, new |-> new]
           d == [c EXCEPT !.jump = JumpStep(c.jump, i, old, new),
                          !.new = new,
                          !.steps = c.steps + 1,
                          !.priority = Emit(c.priority, <<old, new>>, "priority" \in effects),
                          !.onChain = Emit(c.onChain, <<old, new>>, "on_chain" \in effects),
                          !.messages = c.messages \union (effects \intersect Message),
                          !.slots = c.slots \union {s}]
<1>1. /\ chain \in [Path -> Chain] /\ ChainOK(p, c) /\ c \in Chain
      /\ StepAllowed(c, i, old, new, effects)
      /\ chain' = [chain EXCEPT ![p] = d]
  BY DEF IInv, AddTx
<1>2. JumpOK(JumpStep(c.jump, i, old, new), c.initial, c.slots \union {s})
  BY <1>1, JumpSteps DEF ChainOK, StepAllowed
<1>3. /\ d.jump = JumpStep(c.jump, i, old, new) /\ d.initial = c.initial
      /\ d.slots = c.slots \union {s}
      /\ d.priority = Emit(c.priority, <<old, new>>, "priority" \in effects)
  BY <1>1 DEF Chain
<1>4. d \in Chain
  <2>1. JumpStep(c.jump, i, old, new) \in Jump
    BY <1>2 DEF JumpOK
  <2>2. /\ Emit(c.priority, <<old, new>>, "priority" \in effects) \in Seq(Op)
        /\ Emit(c.onChain, <<old, new>>, "on_chain" \in effects) \in Seq(Op)
    <3>1. <<old, new>> \in Op
      BY DEF Op
    <3>2. c.priority \in Seq(Op) /\ c.onChain \in Seq(Op)
      BY <1>1 DEF Chain
    <3> QED BY <3>1, <3>2 DEF Emit
  <2>3. s \in Slot /\ c.slots \union {s} \in SUBSET Slot
    BY <1>1 DEF Slot, Chain
  <2>4. c.messages \union (effects \intersect Message) \in SUBSET Message
    BY <1>1 DEF Chain
  <2>5. c.steps + 1 \in Nat
    BY <1>1 DEF Chain
  <2> HIDE DEF c, s, effects
  <2> QED BY <2>1, <2>2, <2>3, <2>4, <2>5, <1>1 DEF Chain
<1>5. PriorityOK(p, d)
  <2>1. HasPriority(p, s) <=> "priority" \in effects
    BY DEF HasPriority
  <2>2. s.old = old /\ s.new = new /\ s \in d.slots
    BY <1>3
  <2>3. "priority" \in effects => c.priority = << >>
    BY <1>1 DEF StepAllowed
  <2>4. PriorityOK(p, c)
    BY <1>1 DEF ChainOK
  <2> HIDE DEF c, d, s, effects
  <2>5. CASE "priority" \in effects
    <3>1. \A t \in c.slots : ~HasPriority(p, t)
      BY <2>3, <2>4, <2>5 DEF PriorityOK
    <3>2. d.priority = Append(<< >>, <<old, new>>)
      BY <2>3, <2>5, <1>3 DEF Emit
    <3>3. Append(<< >>, <<old, new>>) = << <<old, new>> >>
      OBVIOUS
    <3> QED BY <3>1, <3>2, <3>3, <2>1, <2>2, <2>5, <1>3 DEF PriorityOK
  <2>6. CASE "priority" \notin effects
    <3>1. d.priority = c.priority
      BY <2>6, <1>3 DEF Emit
    <3> QED BY <3>1, <2>1, <2>4, <2>6, <1>3 DEF PriorityOK
  <2> QED BY <2>5, <2>6
<1>6. ChainOK(p, d)
  BY <1>2, <1>3, <1>4, <1>5 DEF ChainOK
<1> HIDE DEF d
<1> QED BY <1>1, <1>4, <1>6 DEF IInv

\* Padding does.
LEMMA PaddingKeepsChain ==
    ASSUME IInv, NEW p \in Path, NEW r \in Root, AddPadding(p, r)
    PROVE  /\ chain' \in [Path -> Chain]
           /\ \A q \in Path : ChainOK(q, chain'[q])
<1> DEFINE c == chain[p]
           d == [c EXCEPT !.new = r, !.steps = c.steps + 1]
<1>1. /\ chain \in [Path -> Chain] /\ ChainOK(p, c) /\ c \in Chain
      /\ chain' = [chain EXCEPT ![p] = d]
  BY DEF IInv, AddPadding
<1>2. /\ d \in Chain /\ d.jump = c.jump /\ d.initial = c.initial
      /\ d.slots = c.slots /\ d.priority = c.priority
  <2>1. c.steps + 1 \in Nat
    BY <1>1 DEF Chain
  <2> HIDE DEF c
  <2> QED BY <2>1, <1>1 DEF Chain
<1> HIDE DEF d
<1>3. ChainOK(p, d)
  BY <1>1, <1>2 DEF ChainOK, PriorityOK
<1> QED BY <1>1, <1>2, <1>3 DEF IInv

\* The chains of the next block start in order.
LEMMA NewChains ==
    ASSUME \E r \in Root : chain' = [p \in Path |-> NewChain(r)]
    PROVE  /\ chain' \in [Path -> Chain]
           /\ \A q \in Path : ChainOK(q, chain'[q])
<1>1. PICK r \in Root : chain' = [p \in Path |-> NewChain(r)]
  OBVIOUS
<1>2. \A p \in Path : ChainOK(p, NewChain(r))
  BY ChainStarts
<1>3. NewChain(r) \in Chain
  BY <1>2 DEF ChainOK, Path
<1> QED BY <1>1, <1>2, <1>3

\* The invariant holds at the start.
LEMMA InvStarts == Init => IInv
<1> SUFFICES ASSUME Init PROVE IInv
  OBVIOUS
<1>1. PICK r \in Root : chain = [p \in Path |-> NewChain(r)]
  BY DEF Init
<1>2. \A p \in Path : ChainOK(p, NewChain(r))
  BY ChainStarts
<1>3. NewChain(r) \in Chain
  BY <1>2 DEF ChainOK, Path
<1>4. chain \in [Path -> Chain] /\ \A q \in Path : ChainOK(q, chain[q])
  BY <1>1, <1>2, <1>3
<1>5. batch \in Batch
  <2>1. << >> \in Seq(Op)
    OBVIOUS
  <2> QED BY <2>1, BlocksAssumption DEF Init, EmptyBatch, Batch
<1> QED BY <1>4, <1>5 DEF IInv

\* What the block circuit takes from the chains has its type.
LEMMA WitnessTyped ==
    ASSUME IInv, NEW t \in 0..MaxTime, NEW old \in Root
    PROVE  LET w == Witness(batch.end + 1, t, old)
           IN  /\ w.number \in Nat /\ w.created \in Nat /\ w.old = old
               /\ w.new = Ending.new /\ w.new \in Root
               /\ w.onChain \in Seq(Op) /\ w.count \in Nat
               /\ w.oldPrefix = batch.prefix /\ w.prefix \in Seq(Op)
               /\ w.prefix = batch.prefix \o chain["heavy"].priority
<1>1. chain["heavy"] \in Chain /\ chain["light"] \in Chain /\ batch \in Batch
  BY DEF IInv, Path
<1>2. Ending \in Chain
  BY <1>1 DEF Ending
<1>3. /\ chain["heavy"].priority \in Seq(Op) /\ chain["heavy"].onChain \in Seq(Op)
      /\ batch.prefix \in Seq(Op) /\ batch.end \in Nat /\ Ending.new \in Root
  BY <1>1, <1>2 DEF Chain, Batch
<1>4. /\ Len(chain["heavy"].priority) \in Nat
      /\ batch.prefix \o chain["heavy"].priority \in Seq(Op)
  BY <1>3
<1>5. t \in Nat /\ batch.end + 1 \in Nat
  BY <1>3, BlocksAssumption
<1> DEFINE w == Witness(batch.end + 1, t, old)
<1>6. /\ w.number = batch.end + 1 /\ w.created = t /\ w.old = old /\ w.new = Ending.new
      /\ w.onChain = chain["heavy"].onChain /\ w.count = Len(chain["heavy"].priority)
      /\ w.oldPrefix = batch.prefix /\ w.prefix = batch.prefix \o chain["heavy"].priority
  BY DEF Witness
<1> HIDE DEF w
<1>7. /\ w.number \in Nat /\ w.created \in Nat /\ w.old = old
      /\ w.new = Ending.new /\ w.new \in Root
      /\ w.onChain \in Seq(Op) /\ w.count \in Nat
      /\ w.oldPrefix = batch.prefix /\ w.prefix \in Seq(Op)
      /\ w.prefix = batch.prefix \o chain["heavy"].priority
  BY <1>3, <1>4, <1>5, <1>6
<1> QED BY <1>7 DEF w

\* A segment that takes a block is one.
LEMMA AggregateTyped ==
    ASSUME IInv, NEW t \in 0..MaxTime, NEW old \in Root,
           batch' = Aggregate(batch, Witness(batch.end + 1, t, old))
    PROVE  /\ batch' \in Batch /\ batch'.size # 0 /\ batch'.new = Ending.new
           /\ batch'.prefix = batch.prefix \o chain["heavy"].priority
<1> DEFINE w == Witness(batch.end + 1, t, old)
<1>1. /\ w.number \in Nat /\ w.created \in Nat /\ w.old = old
      /\ w.new = Ending.new /\ w.new \in Root
      /\ w.onChain \in Seq(Op) /\ w.count \in Nat
      /\ w.oldPrefix = batch.prefix /\ w.prefix \in Seq(Op)
      /\ w.prefix = batch.prefix \o chain["heavy"].priority
  BY WitnessTyped
<1> HIDE DEF w
<1>2. batch \in Batch
  BY DEF IInv
<1>3. /\ batch.onChain \o w.onChain \in Seq(Op)
      /\ batch.size + 1 \in Nat /\ batch.size + 1 # 0 /\ batch.count + w.count \in Nat
  <2>1. batch.onChain \in Seq(Op) /\ batch.size \in Nat /\ batch.count \in Nat
    BY <1>2 DEF Batch
  <2> QED BY SMTT(30), <2>1, <1>1
<1>4. batch' = Aggregate(batch, w)
  BY DEF w
<1> DEFINE start == IF batch.size = 0 THEN w.created ELSE batch.start
           first == IF batch.size = 0 THEN w.old ELSE batch.old
           before == IF batch.size = 0 THEN w.oldPrefix ELSE batch.oldPrefix
<1>5. /\ start \in Nat /\ first \in Root /\ before \in Seq(Op)
      /\ old \in Root /\ batch.prefix \in Seq(Op)
  BY <1>1, <1>2 DEF Batch
<1>6. batch' = [batch EXCEPT !.end = w.number, !.size = batch.size + 1, !.last = w.created,
                             !.start = start, !.old = first, !.new = w.new,
                             !.onChain = batch.onChain \o w.onChain,
                             !.count = batch.count + w.count,
                             !.oldPrefix = before, !.prefix = w.prefix]
  BY <1>4, <1>2 DEF Aggregate, Batch
<1> HIDE DEF start, first, before
<1> DEFINE size == batch.size + 1
           onChain == batch.onChain \o w.onChain
           count == batch.count + w.count
           prefix == w.prefix
           new == w.new
           number == w.number
           created == w.created
<1>7. /\ size \in Nat /\ size # 0 /\ onChain \in Seq(Op) /\ count \in Nat /\ prefix \in Seq(Op)
      /\ new \in Root /\ number \in Nat /\ created \in Nat
  BY <1>1, <1>3
<1>8. batch' = [batch EXCEPT !.end = number, !.size = size, !.last = created, !.start = start,
                             !.old = first, !.new = new, !.onChain = onChain, !.count = count,
                             !.oldPrefix = before, !.prefix = prefix]
  BY <1>6
<1>9. new = Ending.new /\ prefix = batch.prefix \o chain["heavy"].priority
  BY <1>1
<1> HIDE DEF size, onChain, count, prefix, new, number, created
<1>10. batch' \in Batch
  BY ZenonT(40), <1>2, <1>5, <1>7, <1>8 DEF Batch
<1>11. batch'.size = size /\ batch'.new = new /\ batch'.prefix = prefix
  BY <1>2, <1>8 DEF Batch
<1> QED BY <1>7, <1>9, <1>10, <1>11

\* Every step keeps the invariant.
LEMMA InvKept == IInv /\ [Next]_blockVars => IInv'
<1> SUFFICES ASSUME IInv, [Next]_blockVars PROVE IInv'
  OBVIOUS
<1>1. ASSUME NEW p \in Path, ProveTx(p)
      PROVE  IInv'
  <2>1. PICK i \in 0..MaxIndex[Number], old \in Root, new \in Root : AddTx(p, i, old, new)
    BY <1>1 DEF ProveTx
  <2>2. i \in Nat
    BY <2>1, BlocksAssumption
  <2> QED BY <1>1, <2>1, <2>2, TxKeepsChain DEF ProveTx, IInv
<1>2. ASSUME NEW p \in Path, ProvePadding(p)
      PROVE  IInv'
  BY <1>2, PaddingKeepsChain DEF ProvePadding, IInv
<1>3. CASE Accept
  <2>1. PICK t \in 0..MaxTime, old \in Root, funding, prices, premium \in BOOLEAN :
           AcceptBlock(t, old, funding, prices, premium)
    BY <1>3 DEF Accept
  <2>2. batch' \in Batch
    BY <2>1, AggregateTyped DEF AcceptBlock
  <2> QED BY <1>3, <2>2, NewChains DEF Accept, IInv
<1>4. CASE UNCHANGED blockVars
  BY <1>4 DEF blockVars, IInv
<1> QED BY <1>1, <1>2, <1>3, <1>4 DEF Next

-----------------------------------------------------------------------------
(* Chains that fit together. *)

\* Whatever transactions and padding the two chains of a block prove, and wherever they
\* jump: when they start in one state and the jump checks of the block circuit hold
\* (define_jump_checks), their transactions are one run from that state to the state of
\* the block: every index proved once, every transaction from where the last one ended.
THEOREM ChainsCompose ==
    ASSUME IInv, JumpChecks, chain["heavy"].initial = chain["light"].initial
    PROVE  OneRun(chain["heavy"].initial, Ending.new)
<1> DEFINE T == TotalTxs
           r == chain["heavy"].initial
<1>1. PICK p \in Path, q \in Path :
         /\ p # q /\ Ending = chain[p] /\ AtEnd(p)
         /\ FinalCoverage(chain[p].jump) = FinalClaims(chain[q].jump, T, Ending.new)
         /\ FinalCoverage(chain[q].jump) = FinalClaims(chain[p].jump, T, Ending.new)
  <2>1. CASE AtEnd("heavy")
    BY <2>1 DEF JumpChecks, Ending, Path
  <2>2. CASE ~AtEnd("heavy")
    BY <2>2 DEF JumpChecks, Ending, Path
  <2> QED BY <2>1, <2>2
<1> DEFINE e == chain[p].jump
           o == chain[q].jump
           E == chain[p].slots
           O == chain[q].slots
<1>2. Path = {p, q} /\ AllSlots = E \union O
  BY <1>1 DEF Path, AllSlots
<1>3. T \in Nat
  <2>1. chain["heavy"].jump \in Jump /\ chain["light"].jump \in Jump
    BY DEF IInv, Path, Chain
  <2>2. chain["heavy"].jump.count \in Nat /\ chain["light"].jump.count \in Nat
    BY <2>1 DEF Jump
  <2> QED BY <2>2 DEF TotalTxs
<1>4. JumpOK(e, r, E) /\ JumpOK(o, r, O)
  BY DEF IInv, ChainOK, Path
<1>5. Ending.new = e.prevNew
  BY <1>1 DEF JumpChecks, EndsInLastTx
<1>6. Fit(e, o, T)
  BY <1>1, <1>5 DEF Fit, AtEnd
<1> HIDE DEF T, e, o, E, O
<1>7. /\ \A s \in E, t \in O : s.index # t.index
      /\ \A i \in 0..T - 1 : Has(E, i) \/ Has(O, i)
      /\ \A s \in E \union O : s.index \in 0..T - 1
      /\ \A s \in E \union O : s.index > 0 => HasNew(E \union O, s.index - 1, s.old)
      /\ IF T = 0 THEN e.prevNew = r ELSE HasNew(E, T - 1, e.prevNew)
  BY <1>3, <1>4, <1>6, ChainsFitTogether
<1>8. /\ \A s, t \in E : s.index = t.index => s = t
      /\ \A s, t \in O : s.index = t.index => s = t
      /\ \A s \in E \union O : s.index \in Nat /\ (s.index = 0 => s.old = r)
  BY <1>4 DEF JumpOK, SlotsOK, Slot
<1>9. ASSUME NEW i \in 0..T - 1
      PROVE  \E x \in SlotsAt(i) : SlotsAt(i) = {x}
  <2>1. PICK u \in Path, s \in AllSlots : s \in chain[u].slots /\ s.index = i
    BY <1>2, <1>7 DEF Has, E, O
  <2>2. ASSUME NEW x \in SlotsAt(i)
        PROVE  x = <<u, s>>
    <3>1. PICK v \in Path, t \in AllSlots : x = <<v, t>> /\ t \in chain[v].slots /\ t.index = i
      BY DEF SlotsAt
    <3>2. (u = p \/ u = q) /\ (v = p \/ v = q)
      BY <1>2
    <3> QED BY <2>1, <3>1, <3>2, <1>7, <1>8 DEF E, O
  <2>3. <<u, s>> \in SlotsAt(i)
    BY <2>1 DEF SlotsAt
  <2> QED BY <2>2, <2>3
<1>10. ASSUME NEW s \in AllSlots
       PROVE  s.index \in 0..T - 1 /\ Starts(s, r)
  <2>1. s \in E \union O /\ s.index \in 0..T - 1
    BY <1>2, <1>7
  <2>2. CASE s.index = 0
    BY <2>1, <2>2, <1>8 DEF Starts
  <2>3. CASE s.index # 0
    <3>1. s.index > 0
      BY <2>1, <2>3, <1>3
    <3>2. HasNew(E \union O, s.index - 1, s.old)
      BY <2>1, <3>1, <1>7
    <3>3. \E t \in AllSlots : t.index = s.index - 1 /\ t.new = s.old
      BY <3>2, <1>2 DEF HasNew
    <3> QED BY <2>1, <2>3, <3>3 DEF Starts
  <2> QED BY <2>1, <2>2, <2>3
<1>11. Ends(r, Ending.new)
  <2>1. CASE T = 0
    <3>1. AllSlots = {}
      BY <2>1, <1>2, <1>7
    <3> QED BY <2>1, <3>1, <1>5, <1>7 DEF Ends
  <2>2. CASE T # 0
    BY <2>2, <1>2, <1>5, <1>7 DEF Ends, HasNew, T
  <2> QED BY <2>1, <2>2
<1> QED BY <1>9, <1>10, <1>11 DEF OneRun, T

-----------------------------------------------------------------------------
(* Blocks implement the abstract history. *)

Transition == [kind : {"prices", "tx"}, old : Root, new : Root, priority : BOOLEAN]

\* One run has one transaction at every index.
LEMMA OneTxAt ==
    ASSUME IInv, NEW r, NEW new, OneRun(r, new)
    PROVE  /\ TotalTxs \in Nat
           /\ \A i \in 0..TotalTxs - 1 :
                 /\ TxAt(i)[1] \in Path /\ TxAt(i)[2] \in chain[TxAt(i)[1]].slots
                 /\ TxAt(i)[2] \in AllSlots
                 /\ TxAt(i)[2].index = i
                 /\ TxAt(i)[2].old \in Root /\ TxAt(i)[2].new \in Root
           /\ \A p \in Path : \A s \in chain[p].slots :
                 /\ s.index \in 0..TotalTxs - 1
                 /\ TxAt(s.index)[1] = p /\ TxAt(s.index)[2] = s
<1>1. \A p \in Path : chain[p] \in Chain /\ chain[p].slots \subseteq Slot
  BY DEF IInv, Chain
<1>2. TotalTxs \in Nat
  <2>1. chain["heavy"].jump \in Jump /\ chain["light"].jump \in Jump
    BY <1>1 DEF Path, Chain
  <2>2. chain["heavy"].jump.count \in Nat /\ chain["light"].jump.count \in Nat
    BY <2>1 DEF Jump
  <2> QED BY <2>2 DEF TotalTxs
<1>3. ASSUME NEW i \in 0..TotalTxs - 1
      PROVE  SlotsAt(i) = {TxAt(i)}
  BY <1>3 DEF OneRun, TxAt
<1>4. \A i, x : x \in SlotsAt(i) => /\ x[1] \in Path /\ x[2] \in chain[x[1]].slots
                                    /\ x[2] \in AllSlots /\ x[2].index = i
  BY DEF SlotsAt
<1>5. ASSUME NEW i \in 0..TotalTxs - 1
      PROVE  /\ TxAt(i)[1] \in Path /\ TxAt(i)[2] \in chain[TxAt(i)[1]].slots
             /\ TxAt(i)[2] \in AllSlots /\ TxAt(i)[2].index = i
             /\ TxAt(i)[2].old \in Root /\ TxAt(i)[2].new \in Root
  <2>1. TxAt(i) \in SlotsAt(i)
    BY <1>3
  <2>2. /\ TxAt(i)[1] \in Path /\ TxAt(i)[2] \in chain[TxAt(i)[1]].slots
        /\ TxAt(i)[2] \in AllSlots /\ TxAt(i)[2].index = i
    BY <2>1, <1>4
  <2>3. TxAt(i)[2] \in Slot
    BY <2>2, <1>1
  <2> QED BY <2>2, <2>3 DEF Slot
<1>6. ASSUME NEW p \in Path, NEW s \in chain[p].slots
      PROVE  /\ s.index \in 0..TotalTxs - 1
             /\ TxAt(s.index)[1] = p /\ TxAt(s.index)[2] = s
  <2>1. s \in AllSlots
    BY DEF AllSlots
  <2>2. s.index \in 0..TotalTxs - 1
    BY <2>1 DEF OneRun
  <2>3. <<p, s>> \in SlotsAt(s.index)
    BY <2>1 DEF SlotsAt
  <2>4. TxAt(s.index) = <<p, s>>
    BY <2>2, <2>3, <1>3
  <2> QED BY <2>2, <2>4
<1> QED BY <1>2, <1>5, <1>6

\* The transactions of both chains, by their indexes, are a run from the root of the block.
LEMMA TxsRun ==
    ASSUME IInv, NEW r \in Root, NEW new \in Root, OneRun(r, new)
    PROVE  /\ TotalTxs \in Nat
           /\ TxTransitions \in [1..TotalTxs -> Transition]
           /\ \A i \in 1..TotalTxs : TxTransitions[i].kind = "tx"
           /\ TotalTxs = 0 => r = new
           /\ TotalTxs # 0 => TxTransitions[1].old = r /\ TxTransitions[TotalTxs].new = new
           /\ \A i \in 1..TotalTxs - 1 : TxTransitions[i].new = TxTransitions[i + 1].old
<1> DEFINE T == TotalTxs
           s(i) == TxAt(i - 1)[2]
<1>1. /\ T \in Nat
      /\ \A i \in 0..T - 1 :
            /\ TxAt(i)[1] \in Path /\ TxAt(i)[2] \in chain[TxAt(i)[1]].slots
            /\ TxAt(i)[2] \in AllSlots /\ TxAt(i)[2].index = i
            /\ TxAt(i)[2].old \in Root /\ TxAt(i)[2].new \in Root
      /\ \A p \in Path : \A t \in chain[p].slots :
            t.index \in 0..T - 1 /\ TxAt(t.index)[1] = p /\ TxAt(t.index)[2] = t
  BY OneTxAt
<1>2. \A t \in AllSlots : t.index \in 0..T - 1 /\ TxAt(t.index)[2] = t
  BY <1>1 DEF AllSlots
<1>3. ASSUME NEW i \in 1..T
      PROVE  /\ TxTransitions[i] \in Transition /\ TxTransitions[i].kind = "tx"
             /\ TxTransitions[i].old = s(i).old /\ TxTransitions[i].new = s(i).new
             /\ s(i) \in AllSlots /\ s(i).index = i - 1
  <2>1. i - 1 \in 0..T - 1
    BY <1>1
  <2>2. TxTransitions[i] = TxTransition(TxAt(i - 1)[1], s(i))
    BY DEF TxTransitions
  <2>3. /\ s(i).old \in Root /\ s(i).new \in Root /\ s(i) \in AllSlots /\ s(i).index = i - 1
    BY <2>1, <1>1
  <2> QED BY <2>2, <2>3 DEF TxTransition, Transition
<1>4. TxTransitions \in [1..T -> Transition]
  BY <1>3 DEF TxTransitions
<1>5. ASSUME T = 0
      PROVE  r = new
  <2>1. AllSlots = {}
    BY <1>2, <1>5
  <2> QED BY <2>1 DEF OneRun, Ends
<1>6. ASSUME T # 0
      PROVE  TxTransitions[1].old = r /\ TxTransitions[T].new = new
  <2>1. 1 \in 1..T /\ T \in 1..T
    BY <1>1, <1>6
  <2>2. s(1) \in AllSlots /\ s(1).index = 0 /\ TxTransitions[1].old = s(1).old
    BY <2>1, <1>3
  <2>3. Starts(s(1), r)
    BY <2>2 DEF OneRun
  <2>4. PICK t \in AllSlots : t.index = T - 1 /\ t.new = new
    BY <2>2 DEF OneRun, Ends
  <2>5. t = s(T)
    BY <2>4, <1>2
  <2> QED BY <2>1, <2>2, <2>3, <2>4, <2>5, <1>3 DEF Starts
<1>7. ASSUME NEW i \in 1..T - 1
      PROVE  TxTransitions[i].new = TxTransitions[i + 1].old
  <2>1. i \in 1..T /\ i + 1 \in 1..T /\ i # 0 /\ (i + 1) - 1 = i
    BY <1>1
  <2>2. s(i + 1) \in AllSlots /\ s(i + 1).index = i /\ TxTransitions[i + 1].old = s(i + 1).old
    BY <2>1, <1>3
  <2>3. Starts(s(i + 1), r)
    BY <2>2 DEF OneRun
  <2>4. PICK t \in AllSlots : t.index = i - 1 /\ t.new = s(i + 1).old
    BY <2>1, <2>2, <2>3 DEF Starts
  <2>5. t = s(i)
    BY <2>4, <1>2
  <2> QED BY <2>1, <2>2, <2>4, <2>5, <1>3
<1> QED BY <1>1, <1>3, <1>4, <1>5, <1>6, <1>7

\* What the abstract specification sees of a transaction.
LEMMA TxTransitionFields ==
    ASSUME NEW p, NEW s
    PROVE  /\ TxTransition(p, s).old = s.old /\ TxTransition(p, s).new = s.new
           /\ TxTransition(p, s).priority = ("priority" \in EffectsOf(p, s.old, s.new))
<1>1. TxTransition(p, s).old = s.old /\ TxTransition(p, s).new = s.new
  BY DEF TxTransition
<1>2. TxTransition(p, s).priority = ("priority" \in EffectsOf(p, s.old, s.new))
  BY DEF TxTransition
<1> QED BY <1>1, <1>2

\* The priority operations of the heavy chain are those of the transactions.
LEMMA TxsPriority ==
    ASSUME IInv, NEW r, NEW new, OneRun(r, new)
    PROVE  \/ /\ chain["heavy"].priority = << >>
              /\ \A i \in 1..TotalTxs : ~TxTransitions[i].priority
           \/ \E i \in 1..TotalTxs :
                 /\ chain["heavy"].priority = << <<TxTransitions[i].old, TxTransitions[i].new>> >>
                 /\ \A k \in 1..TotalTxs : TxTransitions[k].priority <=> k = i
<1> DEFINE T == TotalTxs
           h == chain["heavy"]
           p(i) == TxAt(i - 1)[1]
           s(i) == TxAt(i - 1)[2]
<1>1. /\ T \in Nat
      /\ \A i \in 0..T - 1 : /\ TxAt(i)[1] \in Path /\ TxAt(i)[2] \in chain[TxAt(i)[1]].slots
                            /\ TxAt(i)[2].index = i
      /\ \A q \in Path : \A t \in chain[q].slots :
            t.index \in 0..T - 1 /\ TxAt(t.index)[1] = q /\ TxAt(t.index)[2] = t
  BY OneTxAt
<1>2. ASSUME NEW i \in 1..T
      PROVE  /\ TxTransitions[i].priority <=> p(i) = "heavy" /\ HasPriority("heavy", s(i))
             /\ TxTransitions[i].old = s(i).old /\ TxTransitions[i].new = s(i).new
             /\ s(i) \in chain[p(i)].slots /\ s(i).index = i - 1
  <2>1. i - 1 \in 0..T - 1
    BY <1>1
  <2>2. TxTransitions[i] = TxTransition(p(i), s(i))
    BY DEF TxTransitions
  <2>3. p(i) \in Path /\ s(i) \in chain[p(i)].slots /\ s(i).index = i - 1
    BY <2>1, <1>1
  <2>4. "priority" \in EffectsOf(p(i), s(i).old, s(i).new)
           <=> p(i) = "heavy" /\ HasPriority("heavy", s(i))
    BY <2>3 DEF EffectsOf, HasPriority, Path
  <2>5. /\ TxTransitions[i].priority = ("priority" \in EffectsOf(p(i), s(i).old, s(i).new))
        /\ TxTransitions[i].old = s(i).old /\ TxTransitions[i].new = s(i).new
    BY <2>2, TxTransitionFields
  <2> HIDE DEF p, s
  <2> QED BY <2>3, <2>4, <2>5
<1>3. PriorityOK("heavy", h)
  BY DEF IInv, ChainOK, Path
<1>4. CASE h.priority = << >> /\ \A t \in h.slots : ~HasPriority("heavy", t)
  <2>1. \A i \in 1..T : ~TxTransitions[i].priority
    BY <1>2, <1>4
  <2> QED BY <2>1, <1>4
<1>5. CASE \E t \in h.slots : /\ h.priority = << <<t.old, t.new>> >>
                              /\ HasPriority("heavy", t)
                              /\ \A u \in h.slots : HasPriority("heavy", u) => u = t
  <2>1. PICK t \in h.slots : /\ h.priority = << <<t.old, t.new>> >>
                             /\ HasPriority("heavy", t)
                             /\ \A u \in h.slots : HasPriority("heavy", u) => u = t
    BY <1>5
  <2> DEFINE i == t.index + 1
  <2>2. t.index \in 0..T - 1 /\ TxAt(t.index)[1] = "heavy" /\ TxAt(t.index)[2] = t
    BY <1>1 DEF Path
  <2>3. i \in 1..T /\ i - 1 = t.index
    BY <2>2, <1>1
  <2>4. p(i) = "heavy" /\ s(i) = t
    BY <2>2, <2>3
  <2>5. /\ h.priority = << <<TxTransitions[i].old, TxTransitions[i].new>> >>
        /\ TxTransitions[i].priority
    BY <2>1, <2>3, <2>4, <1>2
  <2>6. ASSUME NEW k \in 1..T, TxTransitions[k].priority
        PROVE  k = i
    <3>1. s(k) = t
      BY <2>1, <2>6, <1>2
    <3> QED BY <3>1, <2>3, <1>1, <1>2
  <2> QED BY <2>3, <2>5, <2>6
<1> QED BY <1>3, <1>4, <1>5 DEF PriorityOK

\* A block that is accepted is a step of the abstract history.
LEMMA AcceptApplies ==
    ASSUME IInv, Accept
    PROVE  History!Apply
<1>1. PICK t \in 0..MaxTime, old \in Root, funding, prices, premium \in BOOLEAN :
         AcceptBlock(t, old, funding, prices, premium)
  BY DEF Accept
<1> DEFINE r == chain["heavy"].initial
           new == Ending.new
           T == TotalTxs
           txs == TxTransitions
           first == PricesTransition(old, r)
           changed == funding \/ prices \/ premium
           log == chain["heavy"].priority
           before == IF batch.size = 0 THEN Genesis ELSE batch.new
           after == IF batch'.size = 0 THEN Genesis ELSE batch'.new
<1>2. r \in Root /\ new \in Root
  <2>1. chain["heavy"] \in Chain /\ chain["light"] \in Chain
    BY DEF IInv, Path
  <2> QED BY <2>1 DEF Ending, Chain
<1>3. OneRun(r, new)
  BY ChainsCompose DEF Accept, ChainsFit
<1>4. /\ T \in Nat
      /\ txs \in [1..T -> Transition]
      /\ \A i \in 1..T : txs[i].kind = "tx"
      /\ T = 0 => r = new
      /\ T # 0 => txs[1].old = r /\ txs[T].new = new
      /\ \A i \in 1..T - 1 : txs[i].new = txs[i + 1].old
  BY <1>2, <1>3, TxsRun
<1>5. \/ log = << >> /\ \A i \in 1..T : ~txs[i].priority
      \/ \E i \in 1..T : /\ log = << <<txs[i].old, txs[i].new>> >>
                         /\ \A k \in 1..T : txs[k].priority <=> k = i
  BY <1>3, TxsPriority
<1>6. /\ after = new
      /\ batch'.prefix = batch.prefix \o log
      /\ batch.prefix \in Seq(Op)
  BY <1>1, AggregateTyped DEF AcceptBlock, IInv, Batch
<1>7. before = old
  BY <1>1 DEF AcceptBlock, Anchored, Follows, Witness
<1>8. /\ changed => old \notin Pending
      /\ ~changed => r = old
  BY <1>1 DEF AcceptBlock, PreExecution
<1>9. block' = IF changed THEN <<first>> \o txs ELSE txs
  BY <1>1 DEF AcceptBlock, Transitions
<1>10. /\ first \in Transition /\ first.kind = "prices" /\ first.old = old /\ first.new = r
       /\ first.priority = FALSE
  BY <1>2 DEF PricesTransition, Transition
<1> HIDE DEF r, new, T, txs, first, changed, log, before, after
<1>11. txs \in Seq(Transition) /\ Len(txs) = T
  BY <1>4
<1>12. CASE ~changed
  <2>1. block' = txs /\ block' \in Seq(Transition) /\ Len(block') = T
    BY <1>9, <1>11, <1>12
  <2>2. IF block' = << >> THEN after = before ELSE History!Runs(before, block', after)
    <3>1. CASE T = 0
      BY <3>1, <2>1, <1>4, <1>6, <1>7, <1>8, <1>12
    <3>2. CASE T # 0
      <4>1. block' # << >>
        BY <3>2, <2>1
      <4> QED BY <4>1, <3>2, <2>1, <1>4, <1>6, <1>7, <1>8, <1>12 DEF History!Runs
    <3> QED BY <3>1, <3>2
  <2>3. \A i \in 1..Len(block') : block'[i].kind # "prices"
    BY <2>1, <1>4
  <2>4. History!Executes(block', batch.prefix, batch'.prefix)
    <3>1. CASE log = << >> /\ \A i \in 1..T : ~txs[i].priority
      <4>1. batch'.prefix = batch.prefix
        BY <3>1, <1>6
      <4>2. History!Prioritized(block') = {}
        BY <3>1, <2>1 DEF History!Prioritized
      <4> QED BY <4>1, <4>2 DEF History!Executes
    <3>2. CASE \E i \in 1..T : /\ log = << <<txs[i].old, txs[i].new>> >>
                              /\ \A k \in 1..T : txs[k].priority <=> k = i
      <4>1. PICK i \in 1..T : /\ log = << <<txs[i].old, txs[i].new>> >>
                              /\ \A k \in 1..T : txs[k].priority <=> k = i
        BY <3>2
      <4>2. History!Prioritized(block') = {i}
        BY <4>1, <2>1 DEF History!Prioritized
      <4>3. txs[i].old \in Root /\ txs[i].new \in Root
        BY <1>4 DEF Transition
      <4>4. batch'.prefix = Append(batch.prefix, <<block'[i].old, block'[i].new>>)
        BY <4>1, <4>3, <2>1, <1>6 DEF Op
      <4> QED BY <4>2, <4>4, <2>1 DEF History!Executes
    <3> QED BY <3>1, <3>2, <1>5
  <2> QED BY <2>1, <2>2, <2>3, <2>4 DEF History!Apply, History!Transition, History!Kind,
                                        Transition, before, after
<1>13. CASE changed
  <2>1. /\ block' = <<first>> \o txs /\ block' \in Seq(Transition) /\ Len(block') = T + 1
        /\ block'[1] = first /\ \A i \in 1..T : block'[i + 1] = txs[i]
    BY <1>4, <1>9, <1>10, <1>11, <1>13
  <2>2. block' # << >> /\ History!Runs(before, block', after)
    <3>1. block'[1].old = before
      BY <2>1, <1>7, <1>10
    <3>2. block'[Len(block')].new = after
      <4>1. CASE T = 0
        BY <4>1, <2>1, <1>4, <1>6, <1>10
      <4>2. CASE T # 0
        <5>1. T \in 1..T
          BY <4>2, <1>4
        <5> QED BY <5>1, <4>2, <2>1, <1>4, <1>6
      <4> QED BY <4>1, <4>2
    <3>3. ASSUME NEW i \in 1..Len(block') - 1
          PROVE  block'[i].new = block'[i + 1].old
      <4>1. i \in 1..T /\ block'[i + 1] = txs[i]
        BY <2>1, <1>4
      <4>2. CASE i = 1
        BY <4>1, <4>2, <2>1, <1>4, <1>10
      <4>3. CASE i # 1
        <5>1. i - 1 \in 1..T - 1 /\ i - 1 \in 1..T /\ (i - 1) + 1 = i
          BY <4>1, <4>3, <1>4
        <5>2. block'[i] = txs[i - 1]
          BY <5>1, <2>1
        <5> QED BY <5>1, <5>2, <4>1, <1>4
      <4> QED BY <4>2, <4>3
    <3> QED BY <3>1, <3>2, <3>3, <2>1, <1>4 DEF History!Runs
  <2>3. ASSUME NEW i \in 1..Len(block'), i # 1
        PROVE  i - 1 \in 1..T /\ (i - 1) + 1 = i /\ block'[i] = txs[i - 1]
    <3>1. i - 1 \in 1..T /\ (i - 1) + 1 = i
      BY <2>1, <2>3, <1>4
    <3> QED BY <3>1, <2>1
  <2>4. \A i \in 1..Len(block') : block'[i].kind = "prices" => i = 1 /\ block'[i].old \notin Pending
    <3>1. \A i \in 1..Len(block') : i # 1 => block'[i].kind = "tx"
      BY <2>3, <1>4
    <3> QED BY <3>1, <2>1, <1>8, <1>10, <1>13
  <2>5. History!Executes(block', batch.prefix, batch'.prefix)
    <3>1. CASE log = << >> /\ \A i \in 1..T : ~txs[i].priority
      <4>1. batch'.prefix = batch.prefix
        BY <3>1, <1>6
      <4>2. \A i \in 1..Len(block') : ~block'[i].priority
        BY <3>1, <2>1, <2>3, <1>10
      <4>3. History!Prioritized(block') = {}
        BY <4>2 DEF History!Prioritized
      <4> QED BY <4>1, <4>3 DEF History!Executes
    <3>2. CASE \E i \in 1..T : /\ log = << <<txs[i].old, txs[i].new>> >>
                              /\ \A k \in 1..T : txs[k].priority <=> k = i
      <4>1. PICK i \in 1..T : /\ log = << <<txs[i].old, txs[i].new>> >>
                              /\ \A k \in 1..T : txs[k].priority <=> k = i
        BY <3>2
      <4>2. i + 1 \in 1..Len(block') /\ block'[i + 1] = txs[i]
        BY <2>1, <1>4
      <4>3. \A k \in 1..Len(block') : block'[k].priority <=> k = i + 1
        <5>1. ASSUME NEW k \in 1..Len(block')
              PROVE  block'[k].priority <=> k = i + 1
          <6>1. CASE k = 1
            BY <6>1, <2>1, <1>4, <1>10
          <6>2. CASE k # 1
            <7>1. k - 1 \in 1..T /\ block'[k] = txs[k - 1] /\ (k - 1 = i <=> k = i + 1)
              BY <6>2, <2>3, <1>4
            <7> QED BY <7>1, <4>1
          <6> QED BY <6>1, <6>2
        <5> QED BY <5>1
      <4>4. History!Prioritized(block') = {i + 1}
        BY <4>2, <4>3 DEF History!Prioritized
      <4>5. txs[i].old \in Root /\ txs[i].new \in Root
        BY <1>4 DEF Transition
      <4>6. batch'.prefix = Append(batch.prefix, <<block'[i + 1].old, block'[i + 1].new>>)
        BY <4>1, <4>2, <4>5, <1>6 DEF Op
      <4> QED BY <4>2, <4>4, <4>6 DEF History!Executes
    <3> QED BY <3>1, <3>2, <1>5
  <2> QED BY <2>1, <2>2, <2>4, <2>5 DEF History!Apply, History!Transition, History!Kind,
                                        Transition, before, after
<1> QED BY <1>12, <1>13

\* Blocks accepted by the circuits are one history: whatever is proved apart, in whatever
\* order and with whatever padding, the state goes from transition to transition, none
\* lost, repeated or moved, priority operations one per block at the most, and prices
\* change only while no instruction waits (block_constraints.rs, define_jump_checks).
THEOREM BlocksAreOneHistory == Spec => Implements
<1>1. Init => History!Init
  BY DEF Init, History!Init, EmptyBatch
<1>2. IInv /\ [Next]_blockVars => [History!Apply]_<<IF batch.size = 0 THEN Genesis ELSE batch.new,
                                                   block, batch.prefix>>
  <2> SUFFICES ASSUME IInv, [Next]_blockVars
               PROVE  [History!Apply]_<<IF batch.size = 0 THEN Genesis ELSE batch.new,
                                        block, batch.prefix>>
    OBVIOUS
  <2>1. ASSUME NEW p \in Path, ProveTx(p) \/ ProvePadding(p)
        PROVE  History!Apply
    <3>1. block' = << >> /\ batch' = batch
      BY <2>1 DEF ProveTx, ProvePadding
    <3>2. << >> \in Seq(History!Transition) /\ Len(<< >>) = 0
      OBVIOUS
    <3>3. History!Executes(<< >>, batch.prefix, batch.prefix)
      BY <3>2 DEF History!Executes, History!Prioritized
    <3> QED BY <3>1, <3>2, <3>3 DEF History!Apply
  <2>2. CASE Accept
    BY <2>2, AcceptApplies
  <2>3. CASE UNCHANGED blockVars
    BY <2>3 DEF blockVars
  <2> QED BY <2>1, <2>2, <2>3 DEF Next
<1> QED BY <1>1, <1>2, InvStarts, InvKept, PTL DEF Spec, Implements, History!Spec

-----------------------------------------------------------------------------
(* Premium samples. *)

\* Rounding down to a multiple.
LEMMA Floor ==
    ASSUME NEW t \in Nat, NEW m \in Nat \ {0}
    PROVE  t % m \in 0..m - 1 /\ t \div m \in Nat /\ t - (t % m) = m * (t \div m)
  OBVIOUS

\* Multiples are in the order of their factors.
LEMMA Multiples ==
    ASSUME NEW a \in Int, NEW b \in Int, NEW m \in Nat \ {0}
    PROVE  m * a \in Int /\ m * b \in Int /\ (a <= b <=> m * a <= m * b)
<1>1. a < b => m * a < m * b
  OBVIOUS
<1>2. b < a => m * b < m * a
  OBVIOUS
<1>3. a = b => m * a = m * b
  OBVIOUS
<1>4. m * a \in Int /\ m * b \in Int
  OBVIOUS
<1> QED BY <1>1, <1>2, <1>3, <1>4

\* A time that has reached a multiple of m is in a unit no earlier; one that has not is
\* in a unit that ends no later.
LEMMA FloorBound ==
    ASSUME NEW t \in Nat, NEW q \in Int, NEW m \in Nat \ {0}
    PROVE  /\ m * q <= t => m * q <= t - (t % m)
           /\ t < m * q => (t - (t % m)) + m <= m * q
<1> DEFINE k == t \div m
<1>1. t % m \in 0..m - 1 /\ k \in Nat /\ t - (t % m) = m * k
  BY Floor
<1> HIDE DEF k
<1>2. m * (k + 1) = m * k + m
  BY <1>1
<1>3. k \in Int /\ k + 1 \in Int /\ m * k \in Int /\ m * q \in Int
  BY <1>1, Multiples
<1>4. m * q <= t => ~(k + 1 <= q)
  <2>1. k + 1 <= q => m * (k + 1) <= m * q
    BY <1>3, Multiples
  <2>2. t < m * k + m
    BY <1>1, <1>3
  <2> QED BY <2>1, <2>2, <1>2, <1>3
<1>5. q <= k => m * q <= m * k
  BY <1>3, Multiples
<1>6. t < m * q => ~(q <= k)
  BY <1>1, <1>3, <1>5
<1>7. k + 1 <= q => m * (k + 1) <= m * q
  BY <1>3, Multiples
<1> QED BY <1>1, <1>2, <1>3, <1>4, <1>5, <1>6, <1>7

Minutes == Hour \div Minute

\* The samples are of different minutes, the first no earlier than the last funding, the
\* last before the next one is due.
ClockInv ==
    /\ clock \in [funding : Nat, oracle : Nat, premium : Nat, samples : Nat]
    /\ batch.size \in Nat /\ batch.last \in Nat
    /\ clock.funding <= batch.last
    /\ batch.size = 0 => clock.funding = 0
    /\ clock.samples # 0 =>
          /\ Minute * clock.samples <= (ThisMinute(clock.premium) + Minute) - (NextHour(clock.funding) - Hour)
          /\ ThisMinute(clock.premium) + Minute <= NextHour(clock.funding)

\* An hour starts and ends with a minute.
LEMMA HourOfMinutes ==
    ASSUME NEW t \in Nat
    PROVE  /\ Minutes \in Nat /\ Hour = Minute * Minutes
           /\ NextHour(t) \in Nat /\ t < NextHour(t) /\ NextHour(t) - Hour <= t
           /\ \E q \in Int : NextHour(t) = Minute * q
           /\ \E q \in Int : NextHour(t) - Hour = Minute * q
<1>1. Minute \in Nat \ {0} /\ Hour \in Nat \ {0} /\ Hour % Minute = 0
  BY BlocksAssumption
<1>2. Minutes \in Nat /\ Hour = Minute * Minutes
  BY <1>1, Floor DEF Minutes
<1>3. t % Hour \in 0..Hour - 1 /\ t \div Hour \in Nat /\ t - (t % Hour) = Hour * (t \div Hour)
  BY <1>1, Floor
<1> DEFINE h == t \div Hour
<1> HIDE DEF h
<1>4. NextHour(t) - Hour = t - (t % Hour)
  BY <1>1, <1>3 DEF NextHour
<1>5. Hour * h = Minute * (Minutes * h)
  BY <1>1, <1>2, <1>3 DEF h
<1>6. Minutes * h \in Int /\ (Minutes * h) + Minutes \in Int
  BY <1>2, <1>3 DEF h
<1>7. NextHour(t) - Hour = Minute * (Minutes * h)
  BY <1>3, <1>4, <1>5 DEF h
<1>8. NextHour(t) = Minute * ((Minutes * h) + Minutes)
  <2>1. Minute * ((Minutes * h) + Minutes) = Minute * (Minutes * h) + Minute * Minutes
    BY <1>1, <1>2, <1>6
  <2>2. NextHour(t) \in Int
    BY <1>1, <1>3 DEF NextHour
  <2> QED BY <2>1, <2>2, <1>1, <1>2, <1>7
<1>9. NextHour(t) \in Nat /\ t < NextHour(t) /\ NextHour(t) - Hour <= t
  BY <1>1, <1>3 DEF NextHour
<1> QED BY <1>2, <1>6, <1>7, <1>8, <1>9

\* A block keeps the clock right: the time it has is chosen freely, from the last one on.
LEMMA ClockKept ==
    ASSUME IInv, ClockInv, NEW t \in 0..MaxTime, NEW old \in Root,
           NEW funding \in BOOLEAN, NEW prices \in BOOLEAN, NEW premium \in BOOLEAN,
           AcceptBlock(t, old, funding, prices, premium)
    PROVE  ClockInv'
<1> DEFINE F == clock.funding
           P == clock.premium
           n == clock.samples
           G == clock'.funding
           Q == clock'.premium
           m == clock'.samples
           w == Witness(batch.end + 1, t, old)
<1>1. t \in Nat /\ Minute \in Nat \ {0} /\ Hour \in Nat \ {0}
  BY BlocksAssumption
<1>2. F \in Nat /\ P \in Nat /\ n \in Nat /\ F <= batch.last /\ batch.last \in Nat
  BY DEF ClockInv
<1>3. /\ G = IF funding THEN t ELSE F
      /\ Q = IF premium THEN t ELSE P
      /\ m = (IF funding THEN 0 ELSE n) + (IF premium THEN 1 ELSE 0)
      /\ clock' \in [funding : Nat, oracle : Nat, premium : Nat, samples : Nat]
  <2>1. clock' = Clock(t, funding, prices, premium)
    BY DEF AcceptBlock
  <2>2. clock.oracle \in Nat
    BY DEF ClockInv
  <2> QED BY <2>1, <2>2, <1>1, <1>2 DEF Clock
<1>4. /\ batch' = Aggregate(batch, w) /\ w.created = t
      /\ batch.size # 0 => batch.last <= t
      /\ batch.size = 0 => F = 0
  BY DEF AcceptBlock, Follows, Witness, ClockInv
<1>5. batch'.last = t /\ batch'.size \in Nat /\ batch'.size # 0
  <2>1. batch' \in Batch /\ batch'.size # 0
    BY AggregateTyped DEF AcceptBlock
  <2>2. batch \in Batch
    BY DEF IInv
  <2>3. batch'.last = w.created
    BY <2>2, <1>4 DEF Aggregate, Batch
  <2> QED BY <2>1, <2>3, <1>4 DEF Batch
<1>6. F <= t
  BY <1>1, <1>2, <1>4
<1>7. /\ funding <=> t >= NextHour(F)
      /\ premium => ThisMinute(P) + Minute <= t
  BY DEF AcceptBlock, PreExecution, FundingDue, PremiumAllowed
<1>8. /\ ThisMinute(t) \in Nat /\ ThisMinute(P) \in Nat
      /\ \E q \in Int : ThisMinute(P) + Minute = Minute * q
  <2>1. t % Minute \in 0..Minute - 1 /\ P % Minute \in 0..Minute - 1
        /\ P \div Minute \in Nat /\ P - (P % Minute) = Minute * (P \div Minute)
        /\ t \div Minute \in Nat /\ t - (t % Minute) = Minute * (t \div Minute)
    BY <1>1, <1>2, Floor
  <2> DEFINE k == P \div Minute
  <2> HIDE DEF k
  <2>2. ThisMinute(P) + Minute = Minute * (k + 1) /\ k + 1 \in Int
    BY <2>1, <1>1 DEF ThisMinute, k
  <2>3. ThisMinute(t) \in Nat /\ ThisMinute(P) \in Nat
    <3>1. \A a, b \in Nat : a * b \in Nat
      OBVIOUS
    <3> QED BY <3>1, <2>1, <1>1 DEF ThisMinute
  <2> QED BY <2>2, <2>3
<1>9. premium => ThisMinute(P) + Minute <= ThisMinute(t)
  BY <1>1, <1>7, <1>8, FloorBound DEF ThisMinute
<1>10. /\ NextHour(F) \in Nat /\ NextHour(F) - Hour <= F
       /\ NextHour(t) \in Nat /\ NextHour(t) - Hour <= t /\ t < NextHour(t)
  BY <1>1, <1>2, HourOfMinutes
<1>11. /\ NextHour(F) - Hour <= ThisMinute(t)
       /\ NextHour(t) - Hour <= ThisMinute(t)
  <2>1. PICK q \in Int : NextHour(F) - Hour = Minute * q
    BY <1>2, HourOfMinutes
  <2>2. PICK u \in Int : NextHour(t) - Hour = Minute * u
    BY <1>1, HourOfMinutes
  <2>3. Minute * q <= t /\ Minute * u <= t
    BY <2>1, <2>2, <1>1, <1>2, <1>6, <1>10
  <2> QED BY <2>1, <2>2, <2>3, <1>1, FloorBound DEF ThisMinute
<1>12. /\ ~funding => ThisMinute(t) + Minute <= NextHour(F)
       /\ ThisMinute(t) + Minute <= NextHour(t)
  <2>1. PICK q \in Int : NextHour(F) = Minute * q
    BY <1>2, HourOfMinutes
  <2>2. PICK u \in Int : NextHour(t) = Minute * u
    BY <1>1, HourOfMinutes
  <2>3. (~funding => t < Minute * q) /\ t < Minute * u
    BY <2>1, <2>2, <1>1, <1>7, <1>10
  <2> QED BY <2>1, <2>2, <2>3, <1>1, FloorBound DEF ThisMinute
<1>13. n # 0 => /\ Minute * n <= (ThisMinute(P) + Minute) - (NextHour(F) - Hour)
                /\ ThisMinute(P) + Minute <= NextHour(F)
  BY DEF ClockInv
<1>14. Minute * (n + 1) = Minute * n + Minute /\ Minute * n \in Nat /\ Minute * 1 = Minute
       /\ Minute * 0 = 0
  BY <1>1, <1>2
<1> HIDE DEF F, P, n, G, Q, m, w
<1>15. m # 0 => /\ Minute * m <= (ThisMinute(Q) + Minute) - (NextHour(G) - Hour)
                /\ ThisMinute(Q) + Minute <= NextHour(G)
  <2>1. CASE funding /\ premium
    <3>1. m = 1 /\ G = t /\ Q = t
      BY <2>1, <1>3
    <3> QED BY <3>1, <1>1, <1>8, <1>10, <1>11, <1>12, <1>14
  <2>2. CASE funding /\ ~premium
    BY <2>2, <1>3
  <2>3. CASE ~funding /\ premium
    <3>1. m = n + 1 /\ G = F /\ Q = t
      BY <2>3, <1>2, <1>3
    <3>2. CASE n = 0
      BY <3>1, <3>2, <2>3, <1>1, <1>8, <1>10, <1>11, <1>12, <1>14
    <3>3. CASE n # 0
      BY <3>1, <3>3, <2>3, <1>1, <1>8, <1>9, <1>10, <1>12, <1>13, <1>14
    <3> QED BY <3>2, <3>3
  <2>4. CASE ~funding /\ ~premium
    <3>1. m = n /\ G = F /\ Q = P
      BY <2>4, <1>2, <1>3
    <3> QED BY <3>1, <1>13
  <2> QED BY <2>1, <2>2, <2>3, <2>4
<1>16. G <= batch'.last
  BY <1>1, <1>2, <1>3, <1>5, <1>6
<1> QED BY <1>1, <1>3, <1>5, <1>15, <1>16 DEF ClockInv, G, Q, m, ThisMinute, NextHour

\* Funding divides the sum of premium samples by the minutes of an hour: there are never
\* more samples than that, whenever blocks come (block_pre_execution_constraints.rs).
THEOREM SamplesNeverExceedAnHour == Spec => []SamplesFit
<1>1. Init => ClockInv
  BY DEF Init, ClockInv, EmptyBatch
<1>2. IInv /\ ClockInv /\ [Next]_blockVars => ClockInv'
  <2> SUFFICES ASSUME IInv, ClockInv, [Next]_blockVars PROVE ClockInv'
    OBVIOUS
  <2>1. ASSUME NEW p \in Path, ProveTx(p) \/ ProvePadding(p)
        PROVE  ClockInv'
    BY <2>1 DEF ProveTx, ProvePadding, ClockInv, ThisMinute, NextHour
  <2>2. CASE Accept
    BY <2>2, ClockKept DEF Accept
  <2>3. CASE UNCHANGED blockVars
    BY <2>3 DEF blockVars, ClockInv, ThisMinute, NextHour
  <2> QED BY <2>1, <2>2, <2>3 DEF Next
<1>3. ClockInv => SamplesFit
  <2> SUFFICES ASSUME ClockInv PROVE SamplesFit
    OBVIOUS
  <2> DEFINE n == clock.samples
  <2>1. n \in Nat /\ clock.funding \in Nat /\ clock.premium \in Nat
    BY DEF ClockInv
  <2>2. Minutes \in Nat /\ Hour = Minute * Minutes /\ NextHour(clock.funding) \in Nat
    BY <2>1, HourOfMinutes
  <2>3. Minute \in Nat \ {0} /\ Hour \in Nat
    BY BlocksAssumption
  <2>4. CASE n # 0
    <3>1. ThisMinute(clock.premium) \in Int
      <4>1. \A t \in Nat : ThisMinute(t) \in Int
        BY <2>3 DEF ThisMinute
      <4> QED BY <4>1, <2>1
    <3>2. /\ Minute * n <= (ThisMinute(clock.premium) + Minute) - (NextHour(clock.funding) - Hour)
          /\ ThisMinute(clock.premium) + Minute <= NextHour(clock.funding)
      BY <2>4 DEF ClockInv
    <3>3. Minute * n \in Int
      BY <2>1, <2>3
    <3>4. Minute * n <= Minute * Minutes
      BY <3>1, <3>2, <3>3, <2>2, <2>3
    <3> QED BY <3>4, <2>1, <2>2, <2>3, Multiples DEF SamplesFit, Minutes
  <2>5. CASE n = 0
    BY <2>5, <2>2 DEF SamplesFit, Minutes
  <2> QED BY <2>4, <2>5
<1> QED BY <1>1, <1>2, <1>3, InvStarts, InvKept, PTL DEF Spec
=============================================================================
