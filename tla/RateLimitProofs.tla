--------------------------- MODULE RateLimitProofs ---------------------------
(***************************************************************************)
(* Proofs about RateLimit: its type invariant and the refusals on either   *)
(* engine, and, on SQLite, the bound of every window and the refinement of *)
(* SlidingWindow.                                                          *)
(***************************************************************************)
EXTENDS RateLimit, FiniteSetTheorems, TLAPS

\* Rows leave the table only when they are too old to matter.
ForgottenAreOld == \A h \in served \ hits : h.at < now - Retention

\* A request is alone between its count and its commit, and what it counted is
\* what the table still holds.
CountIsCurrent ==
  \A r \in Requests : pc[r] = "counted" =>
    /\ total[r] = Cardinality(Counted(Since(r))) + 1
    /\ \A q \in Requests : pc[q] = "counted" => q = r

Bookkeeping == TypeOK /\ ForgottenAreOld /\ CountIsCurrent

-----------------------------------------------------------------------------
\* A new member of the history, and what TypeOK says of it.
LEMMA AdmittedHit ==
  ASSUME TypeOK, NEW r \in Requests, Admit(r)
  PROVE  /\ served' \subseteq Hits /\ IsFiniteSet(served')
         /\ Cardinality(served') = Cardinality(served) + 1
         /\ \A h \in served' : h.n <= Cardinality(served') /\ h.at <= now
  <1> DEFINE hit == [n |-> Cardinality(served) + 1, at |-> stamp[r]]
  <1>1. Cardinality(served) \in Nat
    BY FS_CardinalityType DEF TypeOK
  <1>2. hit \in Hits /\ hit.n = Cardinality(served) + 1 /\ hit.at = stamp[r]
    BY <1>1 DEF TypeOK, Hits
  <1>3. hit \notin served
    <2>1. SUFFICES ASSUME hit \in served PROVE FALSE
      OBVIOUS
    <2>2. hit.n <= Cardinality(served)
      BY <2>1 DEF TypeOK
    <2> QED BY <1>1, <1>2, <2>2
  <1>4. served' = served \cup {hit}
    BY DEF Admit
  <1> HIDE DEF hit
  <1>5. IsFiniteSet(served') /\ Cardinality(served') = Cardinality(served) + 1
    BY <1>3, <1>4, FS_AddElement DEF TypeOK
  <1>6. \A h \in served' : h.n <= Cardinality(served') /\ h.at <= now
    <2> TAKE h \in served'
    <2>1. CASE h = hit
      BY <2>1, <1>1, <1>2, <1>5 DEF TypeOK
    <2>2. CASE h \in served
      <3>1. h \in Hits /\ h.n <= Cardinality(served) /\ h.at <= now
        BY <2>2 DEF TypeOK
      <3> QED BY <3>1, <1>1, <1>5 DEF Hits
    <2> QED BY <1>4, <2>1, <2>2
  <1> QED BY <1>2, <1>4, <1>5, <1>6 DEF TypeOK

LEMMA Types == TypeOK /\ [Next]_vars => TypeOK'
  <1> SUFFICES ASSUME TypeOK, [Next]_vars PROVE TypeOK'
    OBVIOUS
  <1> USE BoundAssumption, RetentionAssumption
  <1>1. CASE Tick
    <2>1. now' \in Seconds /\ now' = now + 1
      BY <1>1 DEF Tick, TypeOK, Seconds
    <2>2. \A h \in served : h.at <= now'
      BY <2>1 DEF TypeOK, Seconds, Hits
    <2>3. \A r \in Requests : stamp[r] <= now' /\ (pc[r] # "idle" => now' <= stamp[r] + MaxStall)
      BY <1>1, <2>1 DEF Tick, TypeOK, Seconds
    <2> QED BY <1>1, <2>1, <2>2, <2>3 DEF Tick, TypeOK
  <1>2. ASSUME NEW r \in Requests, Arrive(r) PROVE TypeOK'
    BY <1>2 DEF Arrive, TypeOK, Seconds
  <1>3. ASSUME NEW r \in Requests, Count(r) PROVE TypeOK'
    <2>1. IsFiniteSet(Counted(Since(r)))
      BY FS_Subset DEF Counted, TypeOK
    <2>2. total' \in [Requests -> Nat]
      BY <1>3, <2>1, FS_CardinalityType DEF Count, TypeOK
    <2> QED BY <1>3, <2>2 DEF Count, TypeOK
  <1>4. ASSUME NEW r \in Requests, Admit(r) PROVE TypeOK'
    <2> DEFINE hit == [n |-> Cardinality(served) + 1, at |-> stamp[r]]
    <2>1. hits' \subseteq served' /\ \A h \in hits' : h.at \in rows'
      <3>1. hits' = hits \cup {hit} /\ served' = served \cup {hit} /\ hit.at = stamp[r]
        BY <1>4 DEF Admit
      <3> HIDE DEF hit
      <3> QED BY <1>4, <3>1 DEF Admit, TypeOK
    <2>2. rows' \subseteq Seconds
      BY <1>4 DEF Admit, TypeOK
    <2> QED BY <1>4, <2>1, <2>2, AdmittedHit DEF Admit, TypeOK
  <1>5. ASSUME NEW r \in Requests, Refuse(r) PROVE TypeOK'
    BY <1>5 DEF Refuse, TypeOK
  <1>6. ASSUME NEW r \in Requests, Fail(r) PROVE TypeOK'
    BY <1>6 DEF Fail, TypeOK
  <1>7. CASE Cleanup
    BY <1>7 DEF Cleanup, TypeOK
  <1>8. CASE UNCHANGED vars
    BY <1>8 DEF vars, TypeOK
  <1> QED BY <1>1, <1>2, <1>3, <1>4, <1>5, <1>6, <1>7, <1>8 DEF Next

LEMMA InitTypes == Init => TypeOK
  <1> SUFFICES ASSUME Init PROVE TypeOK
    OBVIOUS
  <1>1. IsFiniteSet(served)
    BY FS_EmptySet DEF Init
  <1> QED BY <1>1, BoundAssumption, RetentionAssumption DEF Init, TypeOK, Seconds

\* The state of RateLimit is well typed on either engine: the hits of the table
\* are admitted requests, none is dated later than the clock, and each has its
\* row.
THEOREM TypeCorrect == Spec => []TypeOK
  BY InitTypes, Types, PTL DEF Spec

-----------------------------------------------------------------------------
\* What the database is asked for on SQLite stays true until it is used.
LEMMA KeepsBooks ==
  ASSUME Engine = "sqlite", Bookkeeping, TypeOK', [Next]_vars
  PROVE  Bookkeeping'
  <1> USE RetentionAssumption
  <1>0. TypeOK
    BY DEF Bookkeeping
  <1>1. CASE Tick
    <2>1. now \in Int /\ now' = now + 1 /\ UNCHANGED <<served, hits, pc, stamp, total>>
      BY <1>0, <1>1 DEF Tick, TypeOK, Seconds
    <2>2. ForgottenAreOld'
      <3>1. SUFFICES ASSUME NEW h \in served \ hits PROVE h.at < now + 1 - Retention
        BY <2>1 DEF ForgottenAreOld
      <3>2. h.at \in Int /\ h.at < now - Retention
        BY <1>0, <3>1 DEF Bookkeeping, ForgottenAreOld, TypeOK, Hits, Seconds
      <3> QED BY <2>1, <3>2
    <2>3. CountIsCurrent'
      BY <2>1 DEF Bookkeeping, CountIsCurrent, Counted, Since
    <2> QED BY <2>2, <2>3 DEF Bookkeeping
  <1>2. ASSUME NEW r \in Requests, Arrive(r) PROVE Bookkeeping'
    <2>1. ForgottenAreOld'
      BY <1>2 DEF Arrive, Bookkeeping, ForgottenAreOld
    <2>2. CountIsCurrent'
      BY <1>0, <1>2 DEF Arrive, Bookkeeping, CountIsCurrent, Counted, Since, TypeOK
    <2> QED BY <2>1, <2>2 DEF Bookkeeping
  <1>3. ASSUME NEW r \in Requests, Count(r) PROVE Bookkeeping'
    <2>1. \A q \in Requests : pc[q] # "counted"
      BY <1>3 DEF Count, Excludes
    <2>2. \A q \in Requests : pc'[q] = "counted" => q = r
      BY <1>0, <1>3, <2>1 DEF Count, TypeOK
    <2>3. total'[r] = Cardinality(Counted(Since(r))) + 1
      BY <1>0, <1>3 DEF Count, TypeOK
    <2>4. CountIsCurrent'
      BY <1>3, <2>2, <2>3 DEF Count, CountIsCurrent, Counted, Since
    <2> QED BY <1>3, <2>4 DEF Count, Bookkeeping, ForgottenAreOld
  <1>4. ASSUME NEW r \in Requests, Admit(r) PROVE Bookkeeping'
    <2>1. served' \ hits' \subseteq served \ hits
      BY <1>4 DEF Admit
    <2>2. ForgottenAreOld'
      BY <1>4, <2>1 DEF Admit, Bookkeeping, ForgottenAreOld
    <2>3. \A q \in Requests : pc'[q] # "counted"
      BY <1>0, <1>4 DEF Admit, Bookkeeping, CountIsCurrent, TypeOK
    <2> QED BY <2>2, <2>3 DEF Bookkeeping, CountIsCurrent
  <1>5. ASSUME NEW r \in Requests, Refuse(r) \/ Fail(r) PROVE Bookkeeping'
    <2>1. UNCHANGED <<now, hits, served, stamp, total>>
      BY <1>5 DEF Refuse, Fail
    <2>2. \A q \in Requests : pc'[q] = "counted" => pc[q] = "counted"
      BY <1>0, <1>5 DEF Refuse, Fail, TypeOK
    <2>3. CountIsCurrent'
      BY <2>1, <2>2 DEF Bookkeeping, CountIsCurrent, Counted, Since
    <2> QED BY <2>1, <2>3 DEF Bookkeeping, ForgottenAreOld
  <1>6. CASE Cleanup
    <2>1. \A q \in Requests : pc'[q] # "counted"
      BY <1>6 DEF Cleanup
    <2>2. ForgottenAreOld'
      <3>1. SUFFICES ASSUME NEW h \in served \ hits' PROVE h.at < now - Retention
        BY <1>6 DEF Cleanup, ForgottenAreOld
      <3>2. CASE h \in hits
        <4>1. ~(h.at >= Cutoff)
          BY <1>6, <3>1, <3>2 DEF Cleanup
        <4>2. h.at \in Int /\ now \in Int
          BY <1>0, <3>1 DEF TypeOK, Hits, Seconds
        <4> QED BY <4>1, <4>2 DEF Cutoff
      <3>3. CASE h \notin hits
        BY <3>1, <3>3 DEF Bookkeeping, ForgottenAreOld
      <3> QED BY <3>2, <3>3
    <2> QED BY <2>1, <2>2 DEF Bookkeeping, CountIsCurrent
  <1>7. CASE UNCHANGED vars
    BY <1>7 DEF vars, Bookkeeping, ForgottenAreOld, CountIsCurrent, Counted, Since
  <1> QED BY <1>1, <1>2, <1>3, <1>4, <1>5, <1>6, <1>7 DEF Next

\* The window that an admitted request joins was counted by it: the rows that
\* are gone are older than any window that holds the request.
LEMMA AdmitKeepsWindow ==
  ASSUME Bookkeeping, NEW r \in Requests, Admit(r), NEW t \in Seconds,
         Cardinality(Window(t)) <= Limit
  PROVE  Cardinality(Window(t)') <= Limit
  <1> DEFINE hit == [n |-> Cardinality(served) + 1, at |-> stamp[r]]
  <1> USE RetentionAssumption, LimitAssumption
  <1>0. TypeOK
    BY DEF Bookkeeping
  <1>1. served' = served \cup {hit} /\ hit.at = stamp[r]
    BY DEF Admit
  <1> HIDE DEF hit
  <1>2. stamp[r] \in Int /\ now \in Int /\ t \in Int /\ now <= stamp[r] + MaxStall
    BY <1>0 DEF Admit, TypeOK, Seconds
  <1>3. CASE t - Period < stamp[r] /\ stamp[r] <= t
    <2>1. Window(t) \subseteq Counted(Since(r))
      <3>1. SUFFICES ASSUME NEW h \in served, t - Period < h.at, h.at <= t
                     PROVE  h \in hits /\ h.at >= Since(r)
        BY DEF Window, Counted
      <3>2. h.at \in Int
        BY <1>0 DEF TypeOK, Hits, Seconds
      <3>3. h.at >= Since(r)
        BY <1>2, <1>3, <3>1, <3>2 DEF Since
      <3>4. ~(h.at < now - Retention)
        BY <1>2, <3>2, <3>3 DEF Since
      <3> QED BY <3>1, <3>3, <3>4 DEF Bookkeeping, ForgottenAreOld
    <2>2. IsFiniteSet(Counted(Since(r)))
      BY <1>0, FS_Subset DEF Counted, TypeOK
    <2>3. Window(t)' \subseteq Counted(Since(r)) \cup {hit}
      BY <1>1, <2>1 DEF Window
    <2>4. Cardinality(Counted(Since(r))) \in Nat /\ Cardinality(Counted(Since(r))) + 1 <= Limit
      BY <1>0, <2>2, FS_CardinalityType DEF Admit, Bookkeeping, CountIsCurrent, TypeOK
    <2>5. /\ IsFiniteSet(Counted(Since(r)) \cup {hit})
          /\ Cardinality(Counted(Since(r)) \cup {hit}) <= Cardinality(Counted(Since(r))) + 1
      <3> DEFINE C == Counted(Since(r))
      <3>1. IsFiniteSet(C) /\ Cardinality(C) \in Nat
        BY <2>2, <2>4
      <3> HIDE DEF C
      <3>2. /\ IsFiniteSet(C \cup {hit})
            /\ Cardinality(C \cup {hit}) = Cardinality(C) \/ Cardinality(C \cup {hit}) = Cardinality(C) + 1
        BY <3>1, FS_AddElement
      <3>3. Cardinality(C \cup {hit}) <= Cardinality(C) + 1
        BY <3>1, <3>2
      <3> QED BY <3>2, <3>3 DEF C
    <2>6. Cardinality(Window(t)') <= Cardinality(Counted(Since(r)) \cup {hit})
      BY <2>3, <2>5, FS_Subset
    <2>7. Cardinality(Window(t)') \in Nat /\ Cardinality(Counted(Since(r)) \cup {hit}) \in Nat
      BY <2>3, <2>5, FS_Subset, FS_CardinalityType
    <2> QED BY <2>4, <2>5, <2>6, <2>7
  <1>4. CASE ~(t - Period < stamp[r] /\ stamp[r] <= t)
    <2>1. Window(t)' = Window(t)
      BY <1>1, <1>4 DEF Window
    <2> QED BY <2>1
  <1> QED BY <1>3, <1>4

\* No sliding window holds more than the limit on SQLite, whatever the number of
\* requests, the limit, the period and the stalls the retention leaves room for.
THEOREM WindowsAreBounded ==
  ASSUME Engine = "sqlite"
  PROVE  Spec => []WindowBound
  <1> DEFINE IInv == Bookkeeping /\ WindowBound
  <1>1. Init => IInv
    <2> SUFFICES ASSUME Init PROVE IInv
      OBVIOUS
    <2>1. ForgottenAreOld /\ CountIsCurrent
      BY DEF Init, ForgottenAreOld, CountIsCurrent
    <2>2. \A t \in Seconds : Window(t) = {}
      BY DEF Init, Window
    <2>3. WindowBound
      BY <2>2, FS_EmptySet, LimitAssumption DEF WindowBound
    <2> QED BY <2>1, <2>3, InitTypes DEF Bookkeeping
  <1>2. IInv /\ [Next]_vars => IInv'
    <2> SUFFICES ASSUME IInv, [Next]_vars PROVE IInv'
      OBVIOUS
    <2>1. Bookkeeping'
      BY Types, KeepsBooks DEF Bookkeeping
    <2>2. WindowBound'
      <3>1. CASE \E r \in Requests : Admit(r)
        <4>1. SUFFICES ASSUME NEW t \in Seconds PROVE Cardinality(Window(t)') <= Limit
          BY DEF WindowBound
        <4> QED BY <3>1, AdmitKeepsWindow DEF WindowBound
      <3>2. CASE served' = served
        BY <3>2 DEF WindowBound, Window
      <3> QED BY <3>1, <3>2 DEF Next, vars, Tick, Arrive, Count, Refuse, Fail, Cleanup
    <2> QED BY <2>1, <2>2
  <1>3. IInv => WindowBound
    OBVIOUS
  <1> QED BY <1>1, <1>2, <1>3, PTL DEF Spec

-----------------------------------------------------------------------------
\* What a request has counted was admitted, on either engine, and still is: the
\* history only grows.
Recent(r) == {h \in served : h.at > stamp[r] - Period}
CountIsHonest ==
  \A r \in Requests : pc[r] = "counted" => total[r] <= Cardinality(Recent(r)) + 1

LEMMA StaysHonest ==
  ASSUME TypeOK, TypeOK', CountIsHonest, [Next]_vars
  PROVE  CountIsHonest'
  <1>0. \A r \in Requests : /\ IsFiniteSet(Recent(r)) /\ Cardinality(Recent(r)) \in Nat
                            /\ IsFiniteSet(Recent(r)') /\ Cardinality(Recent(r)') \in Nat
    <2>1. IsFiniteSet(served) /\ IsFiniteSet(served')
      BY DEF TypeOK
    <2> QED BY <2>1, FS_Subset, FS_CardinalityType DEF Recent
  <1>1. served \subseteq served'
    BY DEF Next, vars, Tick, Arrive, Count, Admit, Refuse, Fail, Cleanup
  <1>2. ASSUME NEW r \in Requests, stamp'[r] = stamp[r] PROVE Cardinality(Recent(r)) <= Cardinality(Recent(r)')
    <2>1. Recent(r) \subseteq Recent(r)'
      BY <1>1, <1>2 DEF Recent
    <2> QED BY <1>0, <2>1, FS_Subset
  <1>3. ASSUME NEW r \in Requests, pc[r] = "counted", total'[r] = total[r], stamp'[r] = stamp[r]
        PROVE  total'[r] <= Cardinality(Recent(r)') + 1
    <2>1. total[r] <= Cardinality(Recent(r)) + 1 /\ total[r] \in Nat
      BY <1>3 DEF CountIsHonest, TypeOK
    <2>2. Cardinality(Recent(r)) <= Cardinality(Recent(r)')
      BY <1>2, <1>3
    <2> QED BY <1>0, <1>3, <2>1, <2>2
  <1>4. ASSUME NEW r \in Requests, Count(r) PROVE CountIsHonest'
    <2>1. \A q \in Requests \ {r} : pc'[q] = pc[q] /\ total'[q] = total[q]
      BY <1>4 DEF Count, TypeOK
    <2>2. UNCHANGED <<stamp, served>> /\ total'[r] = Cardinality(Counted(Since(r))) + 1
      BY <1>4 DEF Count, TypeOK
    <2>3. Cardinality(Counted(Since(r))) <= Cardinality(Recent(r)) /\ Cardinality(Counted(Since(r))) \in Nat
      <3>1. Counted(Since(r)) \subseteq Recent(r)
        BY LimitAssumption DEF Counted, Since, Recent, TypeOK, Hits, Seconds
      <3> QED BY <1>0, <3>1, FS_Subset, FS_CardinalityType
    <2>4. Recent(r)' = Recent(r)
      BY <2>2 DEF Recent
    <2>5. total'[r] <= Cardinality(Recent(r)') + 1
      BY <1>0, <2>2, <2>3, <2>4
    <2>6. ASSUME NEW q \in Requests, pc'[q] = "counted" PROVE total'[q] <= Cardinality(Recent(q)') + 1
      BY <1>3, <2>1, <2>2, <2>5, <2>6
    <2> QED BY <2>6 DEF CountIsHonest
  <1>5. ASSUME ~\E r \in Requests : Count(r),
               NEW r \in Requests, pc'[r] = "counted"
        PROVE  pc[r] = "counted" /\ total'[r] = total[r] /\ stamp'[r] = stamp[r]
    BY <1>5 DEF TypeOK, Next, vars, Tick, Arrive, Admit, Refuse, Fail, Cleanup
  <1> QED BY <1>3, <1>4, <1>5 DEF CountIsHonest

\* A request is refused only if Limit requests were admitted since Period seconds
\* before it, on either engine: neither refused requests, nor rolled-back ones,
\* nor the cleanup ever add to what is counted.
THEOREM RefusalsDeserved == Spec => RefusalsAreDeserved
  <1>1. Init => CountIsHonest
    BY DEF Init, CountIsHonest
  <1>2. TypeOK /\ TypeOK' /\ CountIsHonest /\ [Next]_vars => CountIsHonest'
    BY StaysHonest
  <1>3. TypeOK /\ CountIsHonest /\ [Next]_vars =>
          [\A r \in Requests :
             Refuse(r) => Cardinality({h \in served : h.at > stamp[r] - Period}) >= Limit]_vars
    <2> SUFFICES ASSUME TypeOK, CountIsHonest, NEW r \in Requests, Refuse(r)
                 PROVE  Cardinality(Recent(r)) >= Limit
      BY DEF Recent
    <2>1. IsFiniteSet(served) /\ Recent(r) \subseteq served
      BY DEF TypeOK, Recent
    <2>2. Cardinality(Recent(r)) \in Nat
      BY <2>1, FS_Subset, FS_CardinalityType
    <2>3. total[r] > Limit /\ total[r] <= Cardinality(Recent(r)) + 1 /\ total[r] \in Nat
      BY DEF Refuse, CountIsHonest, TypeOK
    <2> QED BY <2>2, <2>3, LimitAssumption
  <1> QED BY <1>1, <1>2, <1>3, TypeCorrect, PTL DEF Spec, RefusalsAreDeserved

-----------------------------------------------------------------------------
\* What a request counted is what a limiter that forgets nothing would count.
LEMMA AdmitsAtOnce ==
  ASSUME Bookkeeping, NEW r \in Requests, Admit(r)
  PROVE  stamp[r] \in (now - MaxStall)..now /\ Sliding!Admit(stamp[r])
  <1> USE RetentionAssumption, LimitAssumption
  <1>0. TypeOK
    BY DEF Bookkeeping
  <1>1. stamp[r] \in Int /\ now \in Int /\ stamp[r] <= now /\ now <= stamp[r] + MaxStall
    BY <1>0 DEF Admit, TypeOK, Seconds
  <1>2. {h \in served : h.at > stamp[r] - Period} = Counted(Since(r))
    <2>1. ASSUME NEW h \in served, h.at > stamp[r] - Period PROVE h \in Counted(Since(r))
      <3>1. h.at \in Int
        BY <1>0 DEF TypeOK, Hits, Seconds
      <3>2. h.at >= Since(r)
        BY <1>1, <2>1, <3>1 DEF Since
      <3>3. ~(h.at < now - Retention)
        BY <1>1, <2>1, <3>1
      <3> QED BY <3>2, <3>3 DEF Counted, Bookkeeping, ForgottenAreOld
    <2>2. ASSUME NEW h \in Counted(Since(r)) PROVE h \in served /\ h.at > stamp[r] - Period
      <3>1. h \in served /\ h.at \in Int /\ h.at >= stamp[r] - Period + 1
        BY <1>0 DEF Counted, Since, TypeOK, Hits, Seconds
      <3> QED BY <1>1, <3>1
    <2> QED BY <2>1, <2>2
  <1>3. Cardinality(Counted(Since(r))) \in Nat
    <2>1. IsFiniteSet(Counted(Since(r)))
      BY <1>0, FS_Subset DEF Counted, TypeOK
    <2> QED BY <2>1, FS_CardinalityType
  <1>4. Cardinality(Counted(Since(r))) < Limit
    BY <1>3 DEF Admit, Bookkeeping, CountIsCurrent
  <1>5. /\ served' = served \cup {[n |-> Cardinality(served) + 1, at |-> stamp[r]]}
        /\ now' = now
    BY DEF Admit
  <1>6. /\ Sliding!Cardinality(Counted(Since(r))) = Cardinality(Counted(Since(r)))
        /\ Sliding!Cardinality(served) = Cardinality(served)
    BY DEF Sliding!Cardinality, Cardinality
  <1>7. Sliding!Cardinality({h \in served : h.at > stamp[r] - Period}) < Limit
    BY <1>2, <1>4, <1>6
  <1>8. served' = served \cup {[n |-> Sliding!Cardinality(served) + 1, at |-> stamp[r]]}
    BY <1>5, <1>6
  <1>9. stamp[r] \in (now - MaxStall)..now
    BY <1>1
  <1> QED BY <1>5, <1>7, <1>8, <1>9 DEF Sliding!Admit

\* On SQLite the limiter implements SlidingWindow, whatever the number of
\* requests, the limit, the period and the stalls the retention leaves room for:
\* neither the rows that cleanup deletes, nor a late request, nor the requests
\* refused and rolled back around it are ever seen in a decision.
THEOREM WindowRefinement ==
  ASSUME Engine = "sqlite"
  PROVE  Spec => ImplementsWindow
  <1>1. Init => Bookkeeping /\ Sliding!Init
    <2> SUFFICES ASSUME Init PROVE Bookkeeping /\ Sliding!Init
      OBVIOUS
    <2>1. ForgottenAreOld /\ CountIsCurrent
      BY DEF Init, ForgottenAreOld, CountIsCurrent
    <2> QED BY <2>1, InitTypes DEF Init, Bookkeeping, Sliding!Init
  <1>2. Bookkeeping /\ [Next]_vars => Bookkeeping'
    BY Types, KeepsBooks DEF Bookkeeping
  <1>3. Bookkeeping /\ [Next]_vars => [Sliding!Next]_<<now, served>>
    <2> SUFFICES ASSUME Bookkeeping, [Next]_vars PROVE [Sliding!Next]_<<now, served>>
      OBVIOUS
    <2>1. CASE Tick
      BY <2>1 DEF Tick, Sliding!Next, Sliding!Tick
    <2>2. ASSUME NEW r \in Requests, Admit(r) PROVE Sliding!Next
      BY <2>2, AdmitsAtOnce DEF Sliding!Next
    <2>3. CASE UNCHANGED <<now, served>>
      BY <2>3
    <2> QED BY <2>1, <2>2, <2>3 DEF Next, vars, Arrive, Count, Refuse, Fail, Cleanup
  <1> QED BY <1>1, <1>2, <1>3, PTL DEF Spec, ImplementsWindow, Sliding!Spec
=============================================================================
