-------------------------- MODULE QuotaServiceProofs --------------------------
(***************************************************************************)
(* Proofs about QuotaService: for any number of requests, plans, limits    *)
(* and days, every row of user_daily_usage balances with the units it      *)
(* granted, a grant always counts the units granted before it, no unit is  *)
(* given back twice, and the refund after midnight is the only way beyond  *)
(* the limit of a day.                                                     *)
(***************************************************************************)
EXTENDS QuotaService, FiniteSetTheorems, TLAPS

\* The set of requests that still owe a decrement is finite, as there are
\* finitely many request threads.
LEMMA PendingFinite ==
  ASSUME NEW d
  PROVE  IsFiniteSet(Pending(d)) /\ Cardinality(Pending(d)) \in Nat
<1>1. Pending(d) \subseteq Requests
  BY DEF Pending
<1>2. IsFiniteSet(Pending(d))
  BY <1>1, RequestsAssumption, FS_Subset
<1>. QED
  BY <1>2, FS_CardinalityType

\* A step that neither makes nor cancels an increment over the limit leaves
\* the requests that owe a decrement alone.
LEMMA PendingUnchanged ==
  ASSUME NEW d,
         \A r \in Requests : (pc'[r] = "over" /\ row'[r] = d)
                               <=> (pc[r] = "over" /\ row[r] = d)
  PROVE  Pending(d)' = Pending(d)
BY DEF Pending

\* The values of every variable stay in their types: the code never counts on
\* a row that it has not chosen.
THEOREM TypeCorrect == Spec => []TypeOK
<1>1. Init => TypeOK
  BY BoundAssumption DEF Init, TypeOK, Days
<1>2. TypeOK /\ [Next]_vars => TypeOK'
  <2> SUFFICES ASSUME TypeOK, [Next]_vars PROVE TypeOK'
    OBVIOUS
  <2> USE DEF TypeOK, Goto
  <2>1. CASE NextDay
    BY <2>1, BoundAssumption DEF NextDay, Days
  <2>2. ASSUME NEW p \in Plans, ChangePlan(p) PROVE TypeOK'
    BY <2>2 DEF ChangePlan
  <2>3. ASSUME NEW r \in Requests, Begin(r) PROVE TypeOK'
    BY <2>3 DEF Begin
  <2>4. ASSUME NEW r \in Requests, IsUnlimited(r) PROVE TypeOK'
    BY <2>4 DEF IsUnlimited
  <2>5. ASSUME NEW r \in Requests, ConsumeUnlimited(r) PROVE TypeOK'
    BY <2>5 DEF ConsumeUnlimited
  <2>6. ASSUME NEW r \in Requests, ReadDay(r) PROVE TypeOK'
    BY <2>6 DEF ReadDay
  <2>7. ASSUME NEW r \in Requests, Increment(r) PROVE TypeOK'
    BY <2>7 DEF Increment, Over
  <2>8. ASSUME NEW r \in Requests, Compensate(r) PROVE TypeOK'
    BY <2>8 DEF Compensate
  <2>9. ASSUME NEW r \in Requests, Deliver(r) PROVE TypeOK'
    BY <2>9 DEF Deliver
  <2>10. ASSUME NEW r \in Requests, Fail(r) PROVE TypeOK'
    BY <2>10 DEF Fail
  <2>11. ASSUME NEW r \in Requests, Refund(r) PROVE TypeOK'
    BY <2>11 DEF Refund
  <2>12. ASSUME NEW r \in Requests, Crash(r) PROVE TypeOK'
    BY <2>12 DEF Crash
  <2>13. CASE UNCHANGED vars
    BY <2>13 DEF vars
  <2>. QED
    BY <2>1, <2>2, <2>3, <2>4, <2>5, <2>6, <2>7, <2>8, <2>9, <2>10, <2>11,
       <2>12, <2>13 DEF Next, Consume
<1>. QED
  BY <1>1, <1>2, PTL DEF Spec

\* One step keeps the books of every row balanced.
LEMMA LedgerStep ==
  ASSUME TypeOK, LedgerBalances, [Next]_vars
  PROVE  LedgerBalances'
<1> USE DEF TypeOK, Goto
<1>0. ASSUME \A d \in Days : Pending(d)' = Pending(d),
             \A d \in Days : usage'[d] - due'[d] - drift'[d]
                               = usage[d] - due[d] - drift[d],
             usage' \in [Days -> Int], due' \in [Days -> Int],
             drift' \in [Days -> Int]
      PROVE  LedgerBalances'
  <2> SUFFICES ASSUME NEW d \in Days
               PROVE  usage'[d] = due'[d] + Cardinality(Pending(d)') + drift'[d]
    BY DEF LedgerBalances
  <2>1. usage[d] = due[d] + Cardinality(Pending(d)) + drift[d]
    BY DEF LedgerBalances
  <2>. QED
    BY <1>0, <2>1, PendingFinite
<1>1. CASE NextDay
  BY <1>1, <1>0, PendingUnchanged DEF NextDay
<1>2. ASSUME NEW p \in Plans, ChangePlan(p) PROVE LedgerBalances'
  BY <1>2, <1>0, PendingUnchanged DEF ChangePlan
<1>3. ASSUME NEW r \in Requests, Begin(r) PROVE LedgerBalances'
  <2>1. \A d \in Days : Pending(d)' = Pending(d)
    BY <1>3, PendingUnchanged DEF Begin
  <2>. QED
    BY <1>3, <2>1, <1>0 DEF Begin
<1>4. ASSUME NEW r \in Requests, IsUnlimited(r) PROVE LedgerBalances'
  <2>1. \A d \in Days : Pending(d)' = Pending(d)
    BY <1>4, PendingUnchanged DEF IsUnlimited
  <2>. QED
    BY <1>4, <2>1, <1>0 DEF IsUnlimited
<1>5. ASSUME NEW r \in Requests, ConsumeUnlimited(r) PROVE LedgerBalances'
  <2>1. \A d \in Days : Pending(d)' = Pending(d)
    BY <1>5, PendingUnchanged DEF ConsumeUnlimited
  <2>. QED
    BY <1>5, <2>1, <1>0 DEF ConsumeUnlimited
<1>6. ASSUME NEW r \in Requests, ReadDay(r) PROVE LedgerBalances'
  <2>1. \A d \in Days : Pending(d)' = Pending(d)
    BY <1>6, PendingUnchanged DEF ReadDay
  <2>. QED
    BY <1>6, <2>1, <1>0 DEF ReadDay
<1>7. ASSUME NEW r \in Requests, Increment(r) PROVE LedgerBalances'
  <2>1. CASE pc'[r] # "over"
    <3>1. \A d \in Days : Pending(d)' = Pending(d)
      BY <1>7, <2>1, PendingUnchanged DEF Increment, Over
    <3>. QED
      BY <1>7, <2>1, <3>1, <1>0 DEF Increment, Over
  <2>2. CASE pc'[r] = "over"
    <3>1. /\ pc[r] = "dated" /\ pc' = [pc EXCEPT ![r] = "over"]
          /\ UNCHANGED <<row, due, drift>>
          /\ usage' = [usage EXCEPT ![row[r]] = @ + 1]
      BY <1>7, <2>2 DEF Increment, Over
    <3>2. ASSUME NEW d \in Days, d # row[r]
          PROVE  usage'[d] = due'[d] + Cardinality(Pending(d)') + drift'[d]
      <4>1. Pending(d)' = Pending(d)
        BY <3>1, <3>2, PendingUnchanged
      <4>. QED
        BY <3>1, <3>2, <4>1 DEF LedgerBalances
    <3>3. ASSUME NEW d \in Days, d = row[r]
          PROVE  usage'[d] = due'[d] + Cardinality(Pending(d)') + drift'[d]
      <4>1. Pending(d)' = Pending(d) \cup {r} /\ r \notin Pending(d)
        BY <3>1, <3>3 DEF Pending
      <4>2. Cardinality(Pending(d)') = Cardinality(Pending(d)) + 1
        BY <4>1, PendingFinite, FS_AddElement
      <4>3. usage[d] = due[d] + Cardinality(Pending(d)) + drift[d]
        BY DEF LedgerBalances
      <4>. QED
        BY <3>1, <3>3, <4>2, <4>3, PendingFinite
    <3>. QED
      BY <3>2, <3>3 DEF LedgerBalances
  <2>. QED
    BY <2>1, <2>2
<1>8. ASSUME NEW r \in Requests, pc[r] = "over", pc'[r] # "over",
             \A x \in Requests \ {r} : pc'[x] = pc[x], row' = row, due' = due,
             \/ /\ usage' = [usage EXCEPT ![row[r]] = @ - 1]
                /\ drift' = drift
             \/ /\ usage' = usage
                /\ drift' = [drift EXCEPT ![row[r]] = @ + 1]
      PROVE  LedgerBalances'
  <2>1. row[r] \in Days
    BY <1>8
  <2>2. ASSUME NEW d \in Days, d # row[r]
        PROVE  usage'[d] = due'[d] + Cardinality(Pending(d)') + drift'[d]
    <3>1. Pending(d)' = Pending(d)
      BY <1>8, <2>2, PendingUnchanged
    <3>. QED
      BY <1>8, <2>2, <3>1 DEF LedgerBalances
  <2>3. ASSUME NEW d \in Days, d = row[r]
        PROVE  usage'[d] = due'[d] + Cardinality(Pending(d)') + drift'[d]
    <3>1. Pending(d)' = Pending(d) \ {r} /\ r \in Pending(d)
      BY <1>8, <2>3 DEF Pending
    <3>2. Cardinality(Pending(d)') = Cardinality(Pending(d)) - 1
      BY <3>1, PendingFinite, FS_RemoveElement
    <3>3. usage[d] = due[d] + Cardinality(Pending(d)) + drift[d]
      BY DEF LedgerBalances
    <3>. QED
      BY <1>8, <2>1, <2>3, <3>2, <3>3, PendingFinite
  <2>. QED
    BY <2>2, <2>3 DEF LedgerBalances
<1>9. ASSUME NEW r \in Requests, Compensate(r) PROVE LedgerBalances'
  BY <1>9, <1>8 DEF Compensate
<1>10. ASSUME NEW r \in Requests, Deliver(r) \/ Fail(r) PROVE LedgerBalances'
  <2>1. \A d \in Days : Pending(d)' = Pending(d)
    BY <1>10, PendingUnchanged DEF Deliver, Fail
  <2>. QED
    BY <1>10, <2>1, <1>0 DEF Deliver, Fail
<1>11. ASSUME NEW r \in Requests, Refund(r) PROVE LedgerBalances'
  <2>1. \A d \in Days : Pending(d)' = Pending(d)
    BY <1>11, PendingUnchanged DEF Refund
  <2>2. \A d \in Days : usage'[d] - due'[d] - drift'[d]
                          = usage[d] - due[d] - drift[d]
    BY <1>11 DEF Refund
  <2>3. /\ usage' \in [Days -> Int] /\ due' \in [Days -> Int]
        /\ drift' \in [Days -> Int]
    BY <1>11 DEF Refund
  <2>. QED
    BY <2>1, <2>2, <2>3, <1>0
<1>12. ASSUME NEW r \in Requests, Crash(r) PROVE LedgerBalances'
  <2>1. CASE pc[r] = "over"
    BY <1>12, <2>1, <1>8 DEF Crash
  <2>2. CASE pc[r] # "over"
    <3>1. \A d \in Days : Pending(d)' = Pending(d)
      BY <1>12, <2>2, PendingUnchanged DEF Crash
    <3>. QED
      BY <1>12, <2>2, <3>1, <1>0 DEF Crash
  <2>. QED
    BY <2>1, <2>2
<1>13. CASE UNCHANGED vars
  BY <1>13, <1>0, PendingUnchanged DEF vars
<1>. QED
  BY <1>1, <1>2, <1>3, <1>4, <1>5, <1>6, <1>7, <1>9, <1>10, <1>11, <1>12,
     <1>13 DEF Next, Consume

\* Every row's counter is its net granted units, plus the increments still to
\* be undone, plus what crashes and late refunds displaced (LedgerBalances).
THEOREM LedgerInvariant == Spec => []LedgerBalances
<1>1. Init => LedgerBalances
  <2> SUFFICES ASSUME Init, NEW d \in Days
               PROVE  usage[d] = due[d] + Cardinality(Pending(d)) + drift[d]
    BY DEF LedgerBalances
  <2>1. Pending(d) = {}
    BY DEF Pending, Init
  <2>. QED
    BY <2>1, FS_EmptySet DEF Init
<1>2. TypeOK /\ LedgerBalances /\ [Next]_vars => LedgerBalances'
  BY LedgerStep
<1>. QED
  BY <1>1, <1>2, TypeCorrect, PTL DEF Spec

\* A limited grant leaves at most the limit granted on its row, whatever the
\* other requests do meanwhile (GrantsCountEarlierOnes).
THEOREM GrantsAreCounted == Spec => GrantsCountEarlierOnes
<1> DEFINE Counted == \A r \in Requests :
             pc[r] = "dated" /\ pc'[r] = "granted"
               => due'[row[r]] + drift[row[r]] <= GetLimit(r)
<1>1. TypeOK /\ LedgerBalances /\ [Next]_vars => [Counted]_vars
  <2> SUFFICES ASSUME TypeOK, LedgerBalances, Next, NEW r \in Requests,
                      pc[r] = "dated", pc'[r] = "granted"
               PROVE  due'[row[r]] + drift[row[r]] <= GetLimit(r)
    OBVIOUS
  <2>1. Increment(r)
    BY DEF Next, Consume, NextDay, ChangePlan, Begin, IsUnlimited, ReadDay,
           ConsumeUnlimited, Increment, Over, Compensate, Deliver, Fail, Refund,
           Crash, Goto, TypeOK
  <2>2. /\ row[r] \in Days /\ usage[row[r]] \in Int /\ due[row[r]] \in Int
        /\ drift[row[r]] \in Int
    BY DEF TypeOK
  <2>3. /\ GetLimit(r) # Unlimited /\ ~(usage[row[r]] + 1 > GetLimit(r))
        /\ due' = [due EXCEPT ![row[r]] = @ + 1]
    BY <2>1 DEF Increment, Over, Goto, TypeOK
  <2>4. GetLimit(r) \in Nat
    BY <2>3, LimitAssumption DEF GetLimit, TypeOK
  <2>5. usage[row[r]] = due[row[r]] + Cardinality(Pending(row[r])) + drift[row[r]]
    BY <2>2 DEF LedgerBalances
  <2>6. Cardinality(Pending(row[r])) \in Nat
    BY PendingFinite
  <2>7. due'[row[r]] = due[row[r]] + 1
    BY <2>2, <2>3 DEF TypeOK
  <2>. QED
    BY <2>2, <2>3, <2>4, <2>5, <2>6, <2>7
<1>. QED
  BY <1>1, TypeCorrect, LedgerInvariant, PTL DEF Spec, GrantsCountEarlierOnes

\* A request past the first test of consume() has seen a plan of the kind that
\* sent it there.
PlanSeen ==
  \A r \in Requests :
    /\ pc[r] = "unlimited" => \E p \in Plans : Limit[p] = Unlimited
    /\ pc[r] \in {"limited", "dated", "over"} => \E p \in Plans : Limit[p] # Unlimited

LEMMA PlanSeenInvariant == Spec => []PlanSeen
<1>1. Init => PlanSeen
  BY DEF Init, PlanSeen
<1>2. TypeOK /\ PlanSeen /\ [Next]_vars => PlanSeen'
  BY DEF TypeOK, PlanSeen, vars, Next, Consume, NextDay, ChangePlan, Begin,
         IsUnlimited, ReadDay, ConsumeUnlimited, Increment, Over, Compensate,
         Deliver, Fail, Refund, Crash, Goto, GetLimit
<1>. QED
  BY <1>1, <1>2, TypeCorrect, PTL DEF Spec

\* consume() and refund(), with all their interleavings and crashes, implement
\* the atomic allowances of QuotaLedger (ImplementsLedger).
THEOREM LedgerRefinement == Spec => ImplementsLedger
<1> DEFINE settled == [d \in Days |-> usage[d] - Cardinality(Pending(d))]
           holding == [r \in Requests |->
                         IF pc[r] \in {"granted", "failed"} THEN row[r] ELSE NoDay]
<1>1. Init => Ledger!Init
  <2> SUFFICES ASSUME Init PROVE Ledger!Init
    OBVIOUS
  <2>1. \A d \in Days : Pending(d) = {}
    BY DEF Init, Pending
  <2>2. \A d \in Days : usage[d] - Cardinality(Pending(d)) = 0
    BY <2>1, FS_EmptySet DEF Init
  <2>. QED
    BY <2>2 DEF Init, Ledger!Init
<1>2. TypeOK /\ PlanSeen /\ [Next]_vars => [Ledger!Next]_(Ledger!vars)
  <2> SUFFICES ASSUME TypeOK, PlanSeen, [Next]_vars
               PROVE  [Ledger!Next]_(Ledger!vars)
    OBVIOUS
  <2> USE DEF TypeOK, Goto
  \* Stuttering steps.
  <2>1. ASSUME usage' = usage, holding' = holding,
               \A d \in Days : Pending(d)' = Pending(d)
        PROVE  [Ledger!Next]_(Ledger!vars)
    <3>1. settled' = settled
      BY <2>1
    <3>. QED
      BY <2>1, <3>1 DEF Ledger!vars
  <2>2. CASE NextDay
    BY <2>2, <2>1, PendingUnchanged DEF NextDay
  <2>3. ASSUME NEW p \in Plans, ChangePlan(p) PROVE [Ledger!Next]_(Ledger!vars)
    BY <2>3, <2>1, PendingUnchanged DEF ChangePlan
  <2>4. ASSUME NEW r \in Requests,
               Begin(r) \/ IsUnlimited(r) \/ ReadDay(r) \/ Fail(r)
        PROVE  [Ledger!Next]_(Ledger!vars)
    <3>1. \A d \in Days : Pending(d)' = Pending(d)
      BY <2>4, PendingUnchanged DEF Begin, IsUnlimited, ReadDay, Fail
    <3>2. holding' = holding
      BY <2>4 DEF Begin, IsUnlimited, ReadDay, Fail
    <3>. QED
      BY <2>4, <3>1, <3>2, <2>1 DEF Begin, IsUnlimited, ReadDay, Fail
  \* A unit is counted on row d and nothing is owed for it.
  <2>5. ASSUME NEW d \in Days, usage' = [usage EXCEPT ![d] = @ + 1],
               \A e \in Days : Pending(e)' = Pending(e)
        PROVE  settled' = [settled EXCEPT ![d] = @ + 1]
    <3>1. \A e \in Days : usage'[e] = IF e = d THEN usage[e] + 1 ELSE usage[e]
      BY <2>5
    <3>2. \A e \in Days : usage'[e] - Cardinality(Pending(e)')
             = IF e = d THEN (usage[e] - Cardinality(Pending(e))) + 1
               ELSE usage[e] - Cardinality(Pending(e))
      <4> SUFFICES ASSUME NEW e \in Days
                   PROVE  usage'[e] - Cardinality(Pending(e)')
                            = IF e = d THEN (usage[e] - Cardinality(Pending(e))) + 1
                              ELSE usage[e] - Cardinality(Pending(e))
        OBVIOUS
      <4>1. Pending(e)' = Pending(e) /\ Cardinality(Pending(e)) \in Nat
        BY <2>5, PendingFinite
      <4>2. usage[e] \in Int
        OBVIOUS
      <4>. QED
        BY <3>1, <4>1, <4>2
    <3>. QED
      BY <3>2
  <2>6. ASSUME NEW r \in Requests, NEW p \in Plans, NEW d \in Days,
               holding[r] = NoDay, holding' = [holding EXCEPT ![r] = d],
               Limit[p] = Unlimited \/ settled[d] < Limit[p],
               settled' = [settled EXCEPT ![d] = @ + 1]
        PROVE  [Ledger!Next]_(Ledger!vars)
    BY <2>6 DEF Ledger!Next, Ledger!Grant
  <2>7. ASSUME NEW r \in Requests, ConsumeUnlimited(r)
        PROVE  [Ledger!Next]_(Ledger!vars)
    <3>1. PICK p \in Plans : Limit[p] = Unlimited
      BY <2>7 DEF ConsumeUnlimited, PlanSeen
    <3>2. \A e \in Days : Pending(e)' = Pending(e)
      BY <2>7, PendingUnchanged DEF ConsumeUnlimited
    <3>3. holding[r] = NoDay /\ holding' = [holding EXCEPT ![r] = day]
      BY <2>7 DEF ConsumeUnlimited
    <3>4. settled' = [settled EXCEPT ![day] = @ + 1]
      BY <2>7, <3>2, <2>5 DEF ConsumeUnlimited
    <3>. QED
      BY <3>1, <3>3, <3>4, <2>6
  <2>8. ASSUME NEW d \in Days, NEW p \in Plans, Limit[p] # Unlimited,
               settled' = [settled EXCEPT ![d] = @ + 1], holding' = holding
        PROVE  [Ledger!Next]_(Ledger!vars)
    BY <2>8 DEF Ledger!Next, Ledger!Lose
  <2>9. ASSUME NEW r \in Requests, Increment(r)
        PROVE  [Ledger!Next]_(Ledger!vars)
    <3>1. PICK p \in Plans : Limit[p] # Unlimited
      BY <2>9 DEF Increment, Over, PlanSeen
    <3>2. row[r] \in Days /\ pc[r] = "dated" /\ holding[r] = NoDay
          /\ usage' = [usage EXCEPT ![row[r]] = @ + 1] /\ row' = row
      BY <2>9 DEF Increment, Over
    <3>3. CASE pc' = [pc EXCEPT ![r] = "idle"]
      <4>1. \A e \in Days : Pending(e)' = Pending(e)
        BY <3>2, <3>3, PendingUnchanged
      <4>2. holding' = holding
        BY <3>2, <3>3
      <4>. QED
        BY <3>1, <3>2, <4>1, <4>2, <2>5, <2>8
    <3>4. CASE pc' = [pc EXCEPT ![r] = "over"]
      <4>1. holding' = holding
        BY <3>2, <3>4
      <4>2. \A e \in Days : usage'[e] - Cardinality(Pending(e)')
                              = usage[e] - Cardinality(Pending(e))
        <5>1. ASSUME NEW e \in Days, e # row[r]
              PROVE  usage'[e] - Cardinality(Pending(e)') = usage[e] - Cardinality(Pending(e))
          <6>1. Pending(e)' = Pending(e)
            BY <3>2, <3>4, <5>1, PendingUnchanged
          <6>. QED
            BY <3>2, <5>1, <6>1
        <5>2. ASSUME NEW e \in Days, e = row[r]
              PROVE  usage'[e] - Cardinality(Pending(e)') = usage[e] - Cardinality(Pending(e))
          <6>1. Pending(e)' = Pending(e) \cup {r} /\ r \notin Pending(e)
            BY <3>2, <3>4, <5>2 DEF Pending
          <6>2. Cardinality(Pending(e)') = Cardinality(Pending(e)) + 1
            BY <6>1, PendingFinite, FS_AddElement
          <6>. QED
            BY <3>2, <5>2, <6>2, PendingFinite
        <5>. QED
          BY <5>1, <5>2
      <4>3. settled' = settled
        BY <4>2
      <4>. QED
        BY <4>1, <4>3 DEF Ledger!vars
    <3>5. CASE pc' = [pc EXCEPT ![r] = "granted"] /\ GetLimit(r) # Unlimited
               /\ ~(usage[row[r]] + 1 > GetLimit(r))
      <4>1. \A e \in Days : Pending(e)' = Pending(e)
        BY <3>2, <3>5, PendingUnchanged
      <4>2. holding' = [holding EXCEPT ![r] = row[r]]
        BY <3>2, <3>5
      <4>3. PICK q \in Plans : GetLimit(r) = Limit[q]
        BY DEF GetLimit
      <4>4. settled[row[r]] < Limit[q]
        <5>1. Limit[q] \in Nat
          BY <3>5, <4>3, LimitAssumption
        <5>. QED
          BY <3>2, <3>5, <4>3, <5>1, PendingFinite
      <4>5. settled' = [settled EXCEPT ![row[r]] = @ + 1]
        BY <3>2, <4>1, <2>5
      <4>. QED
        BY <3>2, <4>2, <4>4, <4>5, <2>6
    <3>. QED
      BY <2>9, <3>3, <3>4, <3>5 DEF Increment, Over
  \* The decrement that undoes a refused increment, or its loss in a crash.
  <2>10. ASSUME NEW r \in Requests, pc[r] = "over",
                pc' = [pc EXCEPT ![r] = "idle"], row' = row
         PROVE  /\ row[r] \in Days /\ holding' = holding
                /\ \A e \in Days :
                     /\ Cardinality(Pending(e)) \in Nat
                     /\ Cardinality(Pending(e)')
                          = IF e = row[r] THEN Cardinality(Pending(e)) - 1
                            ELSE Cardinality(Pending(e))
    <3>1. row[r] \in Days /\ holding' = holding
      BY <2>10
    <3>2. ASSUME NEW e \in Days, e # row[r]
          PROVE  Cardinality(Pending(e)') = Cardinality(Pending(e))
      <4>1. Pending(e)' = Pending(e)
        BY <2>10, <3>2 DEF Pending
      <4>. QED
        BY <4>1
    <3>3. ASSUME NEW e \in Days, e = row[r]
          PROVE  Cardinality(Pending(e)') = Cardinality(Pending(e)) - 1
      <4>1. Pending(e)' = Pending(e) \ {r} /\ r \in Pending(e)
        BY <2>10, <3>3 DEF Pending
      <4>. QED
        BY <4>1, PendingFinite, FS_RemoveElement
    <3>4. \A e \in Days : Cardinality(Pending(e)) \in Nat
      BY PendingFinite
    <3>. QED
      BY <3>1, <3>2, <3>3, <3>4
  <2>11. ASSUME NEW r \in Requests, Compensate(r)
         PROVE  [Ledger!Next]_(Ledger!vars)
    <3>1. /\ row[r] \in Days /\ holding' = holding
          /\ \A e \in Days :
               /\ Cardinality(Pending(e)) \in Nat
               /\ Cardinality(Pending(e)')
                    = IF e = row[r] THEN Cardinality(Pending(e)) - 1
                      ELSE Cardinality(Pending(e))
      BY <2>11, <2>10 DEF Compensate
    <3>2. \A e \in Days : /\ usage[e] \in Int
                         /\ usage'[e] = IF e = row[r] THEN usage[e] - 1 ELSE usage[e]
      BY <2>11 DEF Compensate
    <3>3. \A e \in Days : usage'[e] - Cardinality(Pending(e)')
                            = usage[e] - Cardinality(Pending(e))
      BY <3>1, <3>2
    <3>4. settled' = settled
      BY <3>3
    <3>. QED
      BY <3>1, <3>4 DEF Ledger!vars
  <2>12. ASSUME NEW r \in Requests, pc[r] \in {"granted", "failed"},
                pc' = [pc EXCEPT ![r] = "idle"], row' = row
         PROVE  /\ holding[r] # NoDay /\ holding' = [holding EXCEPT ![r] = NoDay]
                /\ \A e \in Days : Pending(e)' = Pending(e)
    <3>1. \A e \in Days : Pending(e)' = Pending(e)
      BY <2>12, PendingUnchanged
    <3>2. row[r] # NoDay
      BY <2>12, NoDayAssumption DEF Days
    <3>. QED
      BY <2>12, <3>1, <3>2
  <2>13. ASSUME NEW r \in Requests, Deliver(r) \/ (Crash(r) /\ pc[r] \in {"granted", "failed"})
         PROVE  [Ledger!Next]_(Ledger!vars)
    <3>1. /\ holding[r] # NoDay /\ holding' = [holding EXCEPT ![r] = NoDay]
          /\ usage' = usage /\ \A e \in Days : Pending(e)' = Pending(e)
      BY <2>13, <2>12 DEF Deliver, Crash
    <3>2. settled' = settled
      BY <3>1
    <3>. QED
      BY <3>1, <3>2 DEF Ledger!Next, Ledger!Keep
  <2>14. ASSUME NEW r \in Requests, Refund(r)
         PROVE  [Ledger!Next]_(Ledger!vars)
    <3>1. /\ holding[r] # NoDay /\ holding' = [holding EXCEPT ![r] = NoDay]
          /\ \A e \in Days : Pending(e)' = Pending(e)
      BY <2>14, <2>12 DEF Refund
    <3>2. \A e \in Days : /\ usage[e] \in Int
                         /\ usage'[e] = IF e = day THEN usage[e] - 1 ELSE usage[e]
      BY <2>14 DEF Refund
    <3>3. \A e \in Days : Cardinality(Pending(e)) \in Nat
      BY PendingFinite
    <3>4. \A e \in Days : usage'[e] - Cardinality(Pending(e)')
             = IF e = day THEN (usage[e] - Cardinality(Pending(e))) - 1
               ELSE usage[e] - Cardinality(Pending(e))
      BY <3>1, <3>2, <3>3
    <3>5. settled' = [settled EXCEPT ![day] = @ - 1]
      BY <3>4
    <3>. QED
      BY <3>1, <3>5 DEF Ledger!Next, Ledger!Cancel
  <2>15. ASSUME NEW r \in Requests, Crash(r), pc[r] = "over"
         PROVE  [Ledger!Next]_(Ledger!vars)
    <3>1. PICK p \in Plans : Limit[p] # Unlimited
      BY <2>15 DEF PlanSeen
    <3>2. /\ row[r] \in Days /\ holding' = holding
          /\ \A e \in Days :
               /\ Cardinality(Pending(e)) \in Nat
               /\ Cardinality(Pending(e)')
                    = IF e = row[r] THEN Cardinality(Pending(e)) - 1
                      ELSE Cardinality(Pending(e))
      BY <2>15, <2>10 DEF Crash
    <3>3. \A e \in Days : usage'[e] = usage[e] /\ usage[e] \in Int
      BY <2>15 DEF Crash
    <3>4. \A e \in Days : usage'[e] - Cardinality(Pending(e)')
             = IF e = row[r] THEN (usage[e] - Cardinality(Pending(e))) + 1
               ELSE usage[e] - Cardinality(Pending(e))
      BY <3>2, <3>3
    <3>5. settled' = [settled EXCEPT ![row[r]] = @ + 1]
      BY <3>4
    <3>. QED
      BY <3>1, <3>2, <3>5, <2>8
  <2>16. ASSUME NEW r \in Requests, Crash(r), pc[r] \notin {"over", "granted", "failed"}
         PROVE  [Ledger!Next]_(Ledger!vars)
    <3>1. \A d \in Days : Pending(d)' = Pending(d)
      BY <2>16, PendingUnchanged DEF Crash
    <3>. QED
      BY <2>16, <3>1, <2>1 DEF Crash
  <2>17. CASE UNCHANGED vars
    BY <2>17, <2>1, PendingUnchanged DEF vars
  <2>. QED
    BY <2>2, <2>3, <2>4, <2>7, <2>9, <2>11, <2>13, <2>14, <2>15, <2>16, <2>17
       DEF Next, Consume
<1>. QED
  BY <1>1, <1>2, TypeCorrect, PlanSeenInvariant, PTL
     DEF Spec, ImplementsLedger, Ledger!Spec

-----------------------------------------------------------------------------
(* The bound of a day, but for refunds after midnight *)

\* The requests that were granted a unit of day d and may still give it back.
Held(d) == {r \in Requests : pc[r] \in {"granted", "failed"} /\ row[r] = d}

\* No unit is given back that is not due: at most one per running request.
HeldUnitsAreDue == \A d \in Days : Cardinality(Held(d)) <= due[d]

\* No refund runs on another day than the one its unit was counted on.
RefundIsTimely == \A r \in Requests : Refund(r) => row[r] = day
RefundsAreTimely == [][RefundIsTimely]_vars

\* No allowance is widened, and no counter is negative.
NothingDisplaced == \A d \in Days : drift[d] >= 0
CountersCoverHeldUnits == \A d \in Days : Cardinality(Held(d)) <= usage[d]

LEMMA HeldFinite ==
  ASSUME NEW d
  PROVE  IsFiniteSet(Held(d)) /\ Cardinality(Held(d)) \in Nat
<1>1. Held(d) \subseteq Requests
  BY DEF Held
<1>2. IsFiniteSet(Held(d))
  BY <1>1, RequestsAssumption, FS_Subset
<1>. QED
  BY <1>2, FS_CardinalityType

LEMMA HeldFiniteNext ==
  ASSUME NEW d
  PROVE  IsFiniteSet(Held(d)') /\ Cardinality(Held(d)') \in Nat
<1>1. Held(d)' \subseteq Requests
  BY DEF Held
<1>2. IsFiniteSet(Held(d)')
  BY <1>1, RequestsAssumption, FS_Subset
<1>. QED
  BY <1>2, FS_CardinalityType

\* A step under which fewer units are held and none is given back.
LEMMA FewerHeld ==
  ASSUME TypeOK, HeldUnitsAreDue, due' = due, \A d \in Days : Held(d)' \subseteq Held(d)
  PROVE  HeldUnitsAreDue'
<1> SUFFICES ASSUME NEW d \in Days PROVE Cardinality(Held(d)') <= due'[d]
  BY DEF HeldUnitsAreDue
<1>1. Cardinality(Held(d)') <= Cardinality(Held(d))
  BY HeldFinite, FS_Subset
<1>2. due[d] \in Int /\ Cardinality(Held(d)) <= due[d]
  BY DEF TypeOK, HeldUnitsAreDue
<1>. QED
  BY <1>1, <1>2, HeldFinite, HeldFiniteNext

\* A request that is granted a unit.
LEMMA OneMoreHeld ==
  ASSUME TypeOK, HeldUnitsAreDue, NEW e \in Days, NEW r \in Requests,
         due' = [due EXCEPT ![e] = @ + 1],
         Held(e)' \subseteq Held(e) \cup {r}, \A d \in Days \ {e} : Held(d)' \subseteq Held(d)
  PROVE  HeldUnitsAreDue'
<1> SUFFICES ASSUME NEW d \in Days PROVE Cardinality(Held(d)') <= due'[d]
  BY DEF HeldUnitsAreDue
<1>2. due[d] \in Int /\ Cardinality(Held(d)) <= due[d] /\ Cardinality(Held(d)) \in Nat
  BY HeldFinite DEF TypeOK, HeldUnitsAreDue
<1>3. CASE d = e
  <2>1. Cardinality(Held(d)') <= Cardinality(Held(d) \cup {r})
    BY <1>3, HeldFinite, FS_AddElement, FS_Subset
  <2>2. /\ Cardinality(Held(d) \cup {r}) \in Nat
        /\ \/ Cardinality(Held(d) \cup {r}) = Cardinality(Held(d))
           \/ Cardinality(Held(d) \cup {r}) = Cardinality(Held(d)) + 1
    BY <1>2, HeldFinite, FS_AddElement, FS_CardinalityType
  <2>3. due'[d] = due[d] + 1
    BY <1>3 DEF TypeOK
  <2>. QED
    BY <1>2, <2>1, <2>2, <2>3, HeldFiniteNext
<1>4. CASE d # e
  <2>1. Cardinality(Held(d)') <= Cardinality(Held(d))
    BY <1>4, HeldFinite, FS_Subset
  <2>2. due'[d] = due[d]
    BY <1>4 DEF TypeOK
  <2>. QED
    BY <1>2, <2>1, <2>2, HeldFiniteNext
<1>. QED
  BY <1>3, <1>4

\* A request that gives its unit back.
LEMMA OneLessHeld ==
  ASSUME TypeOK, HeldUnitsAreDue, NEW e \in Days, NEW r \in Held(e),
         due' = [due EXCEPT ![e] = @ - 1],
         Held(e)' = Held(e) \ {r}, \A d \in Days \ {e} : Held(d)' \subseteq Held(d)
  PROVE  HeldUnitsAreDue'
<1> SUFFICES ASSUME NEW d \in Days PROVE Cardinality(Held(d)') <= due'[d]
  BY DEF HeldUnitsAreDue
<1>2. due[d] \in Int /\ Cardinality(Held(d)) <= due[d] /\ Cardinality(Held(d)) \in Nat
  BY HeldFinite DEF TypeOK, HeldUnitsAreDue
<1>3. CASE d = e
  <2>1. Cardinality(Held(d)') = Cardinality(Held(d)) - 1
    BY <1>3, HeldFinite, FS_RemoveElement
  <2>3. due'[d] = due[d] - 1
    BY <1>3 DEF TypeOK
  <2>. QED
    BY <1>2, <2>1, <2>3
<1>4. CASE d # e
  <2>1. Cardinality(Held(d)') <= Cardinality(Held(d))
    BY <1>4, HeldFinite, FS_Subset
  <2>2. due'[d] = due[d]
    BY <1>4 DEF TypeOK
  <2>. QED
    BY <1>2, <2>1, <2>2, HeldFiniteNext
<1>. QED
  BY <1>3, <1>4

LEMMA HeldStep ==
  ASSUME TypeOK, HeldUnitsAreDue, [Next]_vars
  PROVE  HeldUnitsAreDue'
<1> USE DEF TypeOK, Goto
<1>1. CASE NextDay \/ UNCHANGED vars \/ \E p \in Plans : ChangePlan(p)
  BY <1>1, FewerHeld DEF NextDay, vars, ChangePlan, Held
<1>2. ASSUME NEW r \in Requests,
             Begin(r) \/ IsUnlimited(r) \/ ReadDay(r) \/ Compensate(r) \/ Deliver(r) \/ Fail(r) \/ Crash(r)
      PROVE  HeldUnitsAreDue'
  <2>1. due' = due
    BY <1>2 DEF Begin, IsUnlimited, ReadDay, Compensate, Deliver, Fail, Crash
  <2>2. \A d \in Days : Held(d)' \subseteq Held(d)
    BY <1>2 DEF Begin, IsUnlimited, ReadDay, Compensate, Deliver, Fail, Crash, Held
  <2>. QED
    BY <2>1, <2>2, FewerHeld
<1>3. ASSUME NEW r \in Requests, ConsumeUnlimited(r) PROVE HeldUnitsAreDue'
  BY <1>3, OneMoreHeld DEF ConsumeUnlimited, Held
<1>4. ASSUME NEW r \in Requests, Increment(r) PROVE HeldUnitsAreDue'
  <2>1. CASE pc'[r] = "granted"
    <3>1. /\ row[r] \in Days /\ due' = [due EXCEPT ![row[r]] = @ + 1]
          /\ pc' = [pc EXCEPT ![r] = "granted"] /\ row' = row
      BY <1>4, <2>1 DEF Increment, Over
    <3>2. /\ Held(row[r])' \subseteq Held(row[r]) \cup {r}
          /\ \A d \in Days \ {row[r]} : Held(d)' \subseteq Held(d)
      BY <3>1 DEF Held
    <3>. QED
      BY <3>1, <3>2, OneMoreHeld
  <2>2. CASE pc'[r] # "granted"
    <3>1. /\ due' = due /\ row' = row /\ pc'[r] \in {"idle", "over"}
          /\ \A q \in Requests \ {r} : pc'[q] = pc[q]
      BY <1>4, <2>2 DEF Increment, Over
    <3>2. \A d \in Days : Held(d)' \subseteq Held(d)
      BY <3>1 DEF Held
    <3>. QED
      BY <3>1, <3>2, FewerHeld
  <2>. QED
    BY <2>1, <2>2
<1>5. ASSUME NEW r \in Requests, Refund(r) PROVE HeldUnitsAreDue'
  <2>1. /\ row[r] \in Days /\ due' = [due EXCEPT ![row[r]] = @ - 1]
        /\ pc[r] = "failed" /\ pc' = [pc EXCEPT ![r] = "idle"] /\ row' = row
    BY <1>5 DEF Refund
  <2>2. r \in Held(row[r])
    BY <2>1 DEF Held
  <2>3. Held(row[r])' = Held(row[r]) \ {r} /\ \A d \in Days \ {row[r]} : Held(d)' \subseteq Held(d)
    BY <2>1 DEF Held
  <2>. QED
    BY <2>1, <2>2, <2>3, OneLessHeld
<1>. QED
  BY <1>1, <1>2, <1>3, <1>4, <1>5 DEF Next, Consume

\* A day is always charged at least the units its running requests may still
\* give back, whatever crashes and on whatever day refunds run: no unit is ever
\* given back twice (consume() and refund()).
THEOREM NoUnitGivenBackTwice == Spec => []HeldUnitsAreDue
<1>1. Init => HeldUnitsAreDue
  <2> SUFFICES ASSUME Init, NEW d \in Days PROVE Cardinality(Held(d)) <= due[d]
    BY DEF HeldUnitsAreDue
  <2>1. Held(d) = {}
    BY DEF Held, Init
  <2>. QED
    BY <2>1, FS_EmptySet DEF Init
<1>2. TypeOK /\ HeldUnitsAreDue /\ [Next]_vars => HeldUnitsAreDue'
  BY HeldStep
<1>. QED
  BY <1>1, <1>2, TypeCorrect, PTL DEF Spec

LEMMA NothingDisplacedStep ==
  ASSUME TypeOK, NothingDisplaced, [Next]_vars, [RefundIsTimely]_vars
  PROVE  NothingDisplaced'
<1> USE DEF TypeOK, Goto, NothingDisplaced
<1>1. CASE UNCHANGED drift
  BY <1>1
<1>2. ASSUME NEW r \in Requests, Increment(r) PROVE NothingDisplaced'
  BY <1>2 DEF Increment, Over
<1>3. ASSUME NEW r \in Requests, Crash(r) PROVE NothingDisplaced'
  BY <1>3 DEF Crash
<1>4. ASSUME NEW r \in Requests, Refund(r) PROVE drift' = drift
  <2>1. CASE RefundIsTimely
    BY <1>4, <2>1 DEF Refund, RefundIsTimely
  <2>2. CASE UNCHANGED vars
    BY <2>2 DEF vars
  <2>. QED
    BY <2>1, <2>2
<1>. QED
  BY <1>1, <1>2, <1>3, <1>4
     DEF Next, Consume, vars, NextDay, ChangePlan, Begin, IsUnlimited, ReadDay, ConsumeUnlimited,
         Compensate, Deliver, Fail

LEMMA NothingDisplacedInvariant == Spec /\ RefundsAreTimely => []NothingDisplaced
<1>1. Init => NothingDisplaced
  BY DEF Init, NothingDisplaced
<1>2. TypeOK /\ NothingDisplaced /\ [Next]_vars /\ [RefundIsTimely]_vars => NothingDisplaced'
  BY NothingDisplacedStep
<1>. QED
  BY <1>1, <1>2, TypeCorrect, PTL DEF Spec, RefundsAreTimely

\* As long as no refund runs on another day than its unit was counted on, a
\* granted unit is never beyond the limit of its day, whatever crashes, however
\* many requests race and however plans change: the refund after midnight is
\* the only way beyond the limit (the run quota_refund_midnight takes it).
THEOREM TimelyRefundsKeepTheLimit == Spec /\ RefundsAreTimely => GrantsWithinLimit
<1> DEFINE Within == \A r \in Requests :
             pc[r] = "dated" /\ pc'[r] = "granted" => due'[row[r]] <= GetLimit(r)
<1>1. TypeOK /\ LedgerBalances /\ NothingDisplaced /\ [Next]_vars => [Within]_vars
  <2> SUFFICES ASSUME TypeOK, LedgerBalances, NothingDisplaced, Next, NEW r \in Requests,
                      pc[r] = "dated", pc'[r] = "granted"
               PROVE  due'[row[r]] <= GetLimit(r)
    OBVIOUS
  <2>1. Increment(r)
    BY DEF Next, Consume, NextDay, ChangePlan, Begin, IsUnlimited, ReadDay,
           ConsumeUnlimited, Increment, Over, Compensate, Deliver, Fail, Refund,
           Crash, Goto, TypeOK
  <2>2. /\ row[r] \in Days /\ usage[row[r]] \in Int /\ due[row[r]] \in Int
        /\ drift[row[r]] \in Int /\ drift[row[r]] >= 0
    BY DEF TypeOK, NothingDisplaced
  <2>3. /\ GetLimit(r) # Unlimited /\ ~(usage[row[r]] + 1 > GetLimit(r))
        /\ due' = [due EXCEPT ![row[r]] = @ + 1]
    BY <2>1 DEF Increment, Over, Goto, TypeOK
  <2>4. GetLimit(r) \in Nat
    BY <2>3, LimitAssumption DEF GetLimit, TypeOK
  <2>5. usage[row[r]] = due[row[r]] + Cardinality(Pending(row[r])) + drift[row[r]]
    BY <2>2 DEF LedgerBalances
  <2>6. Cardinality(Pending(row[r])) \in Nat
    BY PendingFinite
  <2>7. due'[row[r]] = due[row[r]] + 1
    BY <2>2, <2>3 DEF TypeOK
  <2>. QED
    BY <2>2, <2>3, <2>4, <2>5, <2>6, <2>7
<1>. QED
  BY <1>1, TypeCorrect, LedgerInvariant, NothingDisplacedInvariant, PTL DEF Spec, GrantsWithinLimit

\* Under the same condition a counter never falls below the units its running
\* requests hold, and so is never negative.
THEOREM TimelyRefundsKeepCountersUp == Spec /\ RefundsAreTimely => []CountersCoverHeldUnits
<1>1. TypeOK /\ LedgerBalances /\ HeldUnitsAreDue /\ NothingDisplaced => CountersCoverHeldUnits
  <2> SUFFICES ASSUME TypeOK, LedgerBalances, HeldUnitsAreDue, NothingDisplaced, NEW d \in Days
               PROVE  Cardinality(Held(d)) <= usage[d]
    BY DEF CountersCoverHeldUnits
  <2>1. /\ usage[d] = due[d] + Cardinality(Pending(d)) + drift[d] /\ drift[d] >= 0
        /\ Cardinality(Held(d)) <= due[d] /\ due[d] \in Int /\ drift[d] \in Int
    BY DEF TypeOK, LedgerBalances, HeldUnitsAreDue, NothingDisplaced
  <2>. QED
    BY <2>1, PendingFinite, HeldFinite
<1>. QED
  BY <1>1, TypeCorrect, LedgerInvariant, NoUnitGivenBackTwice, NothingDisplacedInvariant, PTL
===============================================================================
