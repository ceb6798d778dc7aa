--------------------------- MODULE GenerationProofs ---------------------------
(***************************************************************************)
(* What a turn of the chatbot promises whatever the chain of models, the   *)
(* keys, the budget and the number of turns that run together: one voice   *)
(* per reply, its author on the shelf, no call paid twice, no other model  *)
(* when the administrator wants none; and that a turn always has a step to *)
(* take and that every step brings it nearer to its end.                   *)
(***************************************************************************)
EXTENDS Generation, FiniteSetTheorems, NaturalsInduction, TLAPS

(* What a rotation has to offer. *)
LEMMA RotationType ==
  ASSUME NEW p \in Providers
  PROVE  /\ Rotation(p) # {}
         /\ Rotation(p) \subseteq Keys \/ Rotation(p) = {NoKey}
BY ChainAssumption DEF Rotation, Usable, Providers

LEMMA Types ==
  ASSUME TypeOK, [Next]_vars
  PROVE  TypeOK'
<1> USE DEF TypeOK, Places, AllKeys, Providers
<1>1. ASSUME NEW r \in Requests, Ask(r) PROVE TypeOK'
  BY <1>1 DEF Ask
<1>2. ASSUME NEW r \in Requests, Select(r) PROVE TypeOK'
  <2>1. PICK p \in Providers :
            /\ model' = [model EXCEPT ![r] = p]
            /\ tried' = [tried EXCEPT ![r] = @ \cup {p}]
            /\ keys' = [keys EXCEPT ![r] = Rotation(p)]
    BY <1>2 DEF Select
  <2>2. Rotation(p) # {} /\ Rotation(p) \subseteq AllKeys
    BY RotationType
  <2> QED
    BY <1>2, <2>1, <2>2 DEF Select
<1>3. ASSUME NEW r \in Requests, Call(r) PROVE TypeOK'
  BY <1>3, BudgetAssumption DEF Call, Affordable
<1>4. ASSUME NEW r \in Requests, CallFake(r) PROVE TypeOK'
  BY <1>4 DEF CallFake
<1>5. ASSUME NEW r \in Requests, BudgetExhausted(r) PROVE TypeOK'
  BY <1>5 DEF BudgetExhausted, Affordable
<1>6. ASSUME NEW r \in Requests, Chunk(r) PROVE TypeOK'
  BY <1>6 DEF Chunk
<1>7. ASSUME NEW r \in Requests, Succeed(r) PROVE TypeOK'
  BY <1>7 DEF Succeed
<1>8. ASSUME NEW r \in Requests, NEW d \in BOOLEAN, Fail(r, d) PROVE TypeOK'
  BY <1>8 DEF Fail, After
<1>9. ASSUME NEW r \in Requests, Leave(r) PROVE TypeOK'
  BY <1>9 DEF Leave
<1>10. ASSUME NEW r \in Requests, Store(r) PROVE TypeOK'
  BY <1>10 DEF Store, FiledUnder
<1>11. CASE Expire
  BY <1>11 DEF Expire, local
<1>12. CASE UNCHANGED vars
  BY <1>12 DEF vars, local
<1>13. CASE Midnight
  BY <1>13, BudgetAssumption DEF Midnight
<1> QED
  BY <1>1, <1>2, <1>3, <1>4, <1>5, <1>6, <1>7, <1>8, <1>9, <1>10, <1>11, <1>12, <1>13 DEF Next, Turn

(* The state is well typed; in particular the budget of network calls is never
   exceeded in a day. *)
THEOREM TypeCorrect == Spec => []TypeOK
<1>1. Init => TypeOK
  <2> SUFFICES ASSUME Init PROVE TypeOK
    OBVIOUS
  <2>1. <<>> \in Seq(Models \X AllKeys) /\ 0 \in 0..Budget /\ 0 \in 0..LastDay
    BY BudgetAssumption
  <2> QED
    BY <2>1 DEF Init, TypeOK, Places
<1> QED
  BY <1>1, Types, PTL DEF Spec

-----------------------------------------------------------------------------
(* Who speaks *)

(* The text of a turn is that of the model it is at; before that model speaks
   there is none; and unless a client has left, call_info names it when the
   reply is stored. *)
Speech(r) ==
  /\ pc[r] \in {"idle", "selecting", "rotating", "done"} => text[r] = {}
  /\ pc[r] = "calling" /\ ~yielded[r] => text[r] = {}
  /\ pc[r] \in {"calling", "storing"} => text[r] \subseteq {model[r]}
  /\ pc[r] = "storing" /\ ~left /\ text[r] # {} => info[r] = model[r]

(* A reply that is kept has one author. *)
Shelved == \A p \in DOMAIN cache : \A a, b \in cache[p] : a = b

Voices == (\A r \in Requests : Speech(r)) /\ Shelved /\ FiledUnderAuthorIfHeard

LEMMA VoicesStep ==
  ASSUME TypeOK, Voices, [Next]_vars
  PROVE  Voices'
<1> USE DEF TypeOK, Places, Voices, Speech, Shelved, FiledUnderAuthorIfHeard, FiledUnderAuthor
<1>1. ASSUME NEW r \in Requests, Ask(r) PROVE Voices'
  BY <1>1 DEF Ask
<1>2. ASSUME NEW r \in Requests, Select(r) PROVE Voices'
  BY <1>2 DEF Select
<1>3. ASSUME NEW r \in Requests, Call(r) PROVE Voices'
  BY <1>3 DEF Call
<1>4. ASSUME NEW r \in Requests, CallFake(r) PROVE Voices'
  BY <1>4 DEF CallFake
<1>5. ASSUME NEW r \in Requests, BudgetExhausted(r) PROVE Voices'
  BY <1>5 DEF BudgetExhausted
<1>6. ASSUME NEW r \in Requests, Chunk(r) PROVE Voices'
  BY <1>6 DEF Chunk
<1>7. ASSUME NEW r \in Requests, Succeed(r) PROVE Voices'
  BY <1>7 DEF Succeed
<1>8. ASSUME NEW r \in Requests, NEW d \in BOOLEAN, Fail(r, d) PROVE Voices'
  BY <1>8 DEF Fail, After, Final
<1>9. ASSUME NEW r \in Requests, Leave(r) PROVE Voices'
  BY <1>9 DEF Leave
<1>10. ASSUME NEW r \in Requests, Store(r) PROVE Voices'
  BY <1>10 DEF Store, FiledUnder
<1>11. CASE Expire
  <2>1. (\A r \in Requests : Speech(r))'
    BY <1>11 DEF Expire, local
  <2>2. \/ cache' = cache
        \/ \E p \in DOMAIN cache : cache' = [cache EXCEPT ![p] = {}]
    BY <1>11 DEF Expire
  <2>3. left' = left
    BY <1>11 DEF Expire
  <2>4. DOMAIN cache' = DOMAIN cache /\ \A p \in DOMAIN cache : cache'[p] \subseteq cache[p]
    BY <2>2
  <2>5. Providers \subseteq DOMAIN cache
    OBVIOUS
  <2>6. Shelved' /\ FiledUnderAuthorIfHeard'
    BY <2>3, <2>4, <2>5
  <2> QED
    BY <2>1, <2>6
<1>12. CASE UNCHANGED vars
  BY <1>12 DEF vars, local
<1>13. CASE Midnight
  BY <1>13 DEF Midnight
<1> QED
  BY <1>1, <1>2, <1>3, <1>4, <1>5, <1>6, <1>7, <1>8, <1>9, <1>10, <1>11, <1>12, <1>13 DEF Next, Turn

LEMMA VoicesInit == Init => Voices
BY DEF Init, Voices, Speech, Shelved, FiledUnderAuthorIfHeard, FiledUnderAuthor

(* A reply is the work of one model. *)
THEOREM RepliesHaveOneVoice == Spec => []OneVoice
<1>1. ASSUME NEW S, \A a, b \in S : a = b PROVE Cardinality(S) <= 1
  <2>1. CASE S = {}
    BY <2>1, FS_EmptySet
  <2>2. CASE S # {}
    <3>1. PICK a \in S : S = {a}
      BY <1>1, <2>2
    <3> QED
      BY <3>1, FS_Singleton
  <2> QED
    BY <2>1, <2>2
<1>2. TypeOK /\ Voices => OneVoice
  <2> SUFFICES ASSUME TypeOK, Voices PROVE OneVoice
    OBVIOUS
  <2>1. ASSUME NEW r \in Requests PROVE \A a, b \in text[r] : a = b
    BY DEF TypeOK, Places, Voices, Speech
  <2>2. ASSUME NEW p \in DOMAIN cache PROVE \A a, b \in cache[p] : a = b
    BY DEF Voices, Shelved
  <2> QED
    BY <1>1, <2>1, <2>2 DEF OneVoice
<1>3. TypeOK /\ Voices /\ [Next]_vars => Voices'
  BY VoicesStep
<1> QED
  BY <1>2, <1>3, VoicesInit, TypeCorrect, PTL DEF Spec

(* As long as clients listen to the end, a reply is kept under its author. *)
THEOREM RepliesFiledUnderAuthor == Spec => []FiledUnderAuthorIfHeard
<1>1. TypeOK /\ Voices /\ [Next]_vars => Voices'
  BY VoicesStep
<1>2. Voices => FiledUnderAuthorIfHeard
  BY DEF Voices
<1> QED
  BY <1>1, <1>2, VoicesInit, TypeCorrect, PTL DEF Spec

-----------------------------------------------------------------------------
(* What is asked *)

(* A turn has called only models it has selected; of the one it is at, only keys
   it no longer has, or the one at the head of the list while it speaks. *)
Calls(r) ==
  /\ keys[r] \subseteq Keys \/ keys[r] = {NoKey}
  /\ \A i \in DOMAIN asked[r] :
       /\ asked[r][i] \in Models \X AllKeys
       /\ asked[r][i][1] \in tried[r]
       /\ pc[r] = "rotating" /\ asked[r][i][1] = model[r] => asked[r][i][2] \notin keys[r]
       /\ pc[r] = "calling" /\ asked[r][i][1] = model[r] /\ asked[r][i][2] \in keys[r]
            => AtKey(r, asked[r][i][2])

Ledger == NothingAskedTwice /\ \A r \in Requests : Calls(r)

(* Where a step leaves the calls of a turn alone, it is enough that the turn is
   still at its model with its keys, or is not about to call. *)
LEMMA CallsKept ==
  ASSUME TypeOK, Ledger, asked' = asked, tried' = tried, keys' = keys, model' = model,
         \A q \in Requests : pc'[q] \in {"rotating", "calling"} => pc'[q] = pc[q]
  PROVE  Ledger'
BY DEF Ledger, Calls, NothingAskedTwice, AtKey

LEMMA LedgerStep ==
  ASSUME TypeOK, Ledger, [Next]_vars
  PROVE  Ledger'
<1>1. ASSUME NEW r \in Requests, Ask(r) PROVE Ledger'
  BY <1>1, CallsKept DEF Ask, TypeOK
<1>2. ASSUME NEW r \in Requests, Select(r) PROVE Ledger'
  <2>1. PICK p \in Providers :
            /\ Selected(p, tried[r])
            /\ model' = [model EXCEPT ![r] = p]
            /\ tried' = [tried EXCEPT ![r] = @ \cup {p}]
            /\ keys' = [keys EXCEPT ![r] = Rotation(p)]
    BY <1>2 DEF Select
  <2>2. Rotation(p) \subseteq Keys \/ Rotation(p) = {NoKey}
    BY RotationType
  <2>3. p \notin tried[r] \/ p \notin Models
    BY <2>1, NamesAssumption DEF Selected, Candidate
  <2>4. asked' = asked /\ pc' = [pc EXCEPT ![r] = "rotating"]
    BY <1>2 DEF Select
  <2>5. Calls(r)'
    BY <2>1, <2>2, <2>3, <2>4 DEF Ledger, Calls, TypeOK
  <2>6. ASSUME NEW q \in Requests \ {r} PROVE Calls(q)'
    <3>1. /\ tried'[q] = tried[q] /\ keys'[q] = keys[q]
          /\ model'[q] = model[q] /\ pc'[q] = pc[q]
      BY <2>1, <2>4 DEF TypeOK
    <3> QED
      BY <2>4, <3>1 DEF Ledger, Calls, AtKey
  <2> QED
    BY <2>4, <2>5, <2>6 DEF Ledger, NothingAskedTwice
<1>3. ASSUME NEW r \in Requests, Call(r) PROVE Ledger'
  <2>1. PICK k \in AllKeys :
            AtKey(r, k) /\ asked' = [asked EXCEPT ![r] = Append(@, <<model[r], k>>)]
    BY <1>3 DEF Call
  <2>2. /\ pc[r] = "rotating" /\ model[r] \in tried[r] /\ model[r] \in Models
        /\ pc' = [pc EXCEPT ![r] = "calling"]
        /\ tried' = tried /\ keys' = keys /\ model' = model
    BY <1>3 DEF Call, TypeOK, Providers
  <2> DEFINE n == Len(asked[r])
  <2>3. /\ n \in Nat
        /\ asked'[r] = Append(asked[r], <<model[r], k>>)
        /\ DOMAIN asked'[r] = 1..(n + 1) /\ DOMAIN asked[r] = 1..n
        /\ asked'[r][n + 1] = <<model[r], k>>
        /\ \A i \in 1..n : asked'[r][i] = asked[r][i]
    BY <2>1, <2>2 DEF TypeOK
  <2>4. \A q \in Requests \ {r} : asked'[q] = asked[q] /\ pc'[q] = pc[q]
    BY <2>1, <2>2 DEF TypeOK
  <2>5. \A i \in 1..n : asked[r][i] # <<model[r], k>>
    BY <2>1, <2>2, <2>3 DEF Ledger, Calls, AtKey
  <2>6. NothingAskedTwice'
    <3>1. \A i, j \in DOMAIN asked'[r] : asked'[r][i] = asked'[r][j] => i = j
      <4> HIDE DEF n
      <4>1. \A i, j \in 1..n : asked[r][i] = asked[r][j] => i = j
        BY <2>3 DEF Ledger, NothingAskedTwice, n
      <4>2. \A i \in 1..(n + 1) : i \in 1..n \/ i = n + 1
        BY <2>3
      <4> QED
        BY <2>3, <2>5, <4>1, <4>2
    <3> QED
      BY <2>4, <3>1 DEF Ledger, NothingAskedTwice
  <2>7. Calls(r)'
    <3>1. pc'[r] = "calling"
      BY <2>2 DEF TypeOK
    <3>2. <<model[r], k>> \in Models \X AllKeys
      BY <2>2
    <3> HIDE DEF n
    <3>3. ASSUME NEW i \in 1..n
          PROVE  /\ asked[r][i] \in Models \X AllKeys
                 /\ asked[r][i][1] \in tried[r]
                 /\ asked[r][i][1] = model[r] => asked[r][i][2] \notin keys[r]
      BY <2>2, <2>3 DEF Ledger, Calls
    <3>4. \A i \in DOMAIN asked'[r] : i \in 1..n \/ i = n + 1
      BY <2>3
    <3>5. AtKey(r, k)'
      BY <2>1, <2>2 DEF AtKey
    <3> QED
      BY <2>2, <2>3, <3>1, <3>2, <3>3, <3>4, <3>5 DEF Ledger, Calls
  <2>8. ASSUME NEW q \in Requests \ {r} PROVE Calls(q)'
    BY <2>2, <2>4 DEF Ledger, Calls, AtKey
  <2> QED
    BY <2>6, <2>7, <2>8 DEF Ledger
<1>4. ASSUME NEW r \in Requests, CallFake(r) PROVE Ledger'
  BY <1>4, NamesAssumption DEF CallFake, TypeOK, Ledger, Calls, NothingAskedTwice, AtKey
<1>5. ASSUME NEW r \in Requests, BudgetExhausted(r) PROVE Ledger'
  BY <1>5, CallsKept DEF BudgetExhausted, TypeOK
<1>6. ASSUME NEW r \in Requests, Chunk(r) PROVE Ledger'
  BY <1>6, CallsKept DEF Chunk
<1>7. ASSUME NEW r \in Requests, Succeed(r) PROVE Ledger'
  BY <1>7, CallsKept DEF Succeed, TypeOK
<1>8. ASSUME NEW r \in Requests, NEW d \in BOOLEAN, Fail(r, d) PROVE Ledger'
  <2>1. PICK k \in AllKeys : AtKey(r, k) /\ keys' = [keys EXCEPT ![r] = @ \ {k}]
    BY <1>8 DEF Fail
  <2>2. /\ pc[r] = "calling" /\ pc' = [pc EXCEPT ![r] = pc'[r]]
        /\ pc'[r] \in {"storing", "rotating", "selecting"}
        /\ tried' = tried /\ model' = model /\ asked' = asked
    BY <1>8 DEF Fail, After, TypeOK
  <2>3. \A l \in AllKeys : AtKey(r, l) => l = k
    <3>1. ASSUME NEW l \in AllKeys, AtKey(r, l) PROVE l = k
      <4>1. keys[r] \subseteq Keys \/ keys[r] = {NoKey}
        BY DEF Ledger, Calls
      <4>2. l \in keys[r] /\ k \in keys[r]
        BY <2>1, <3>1 DEF AtKey
      <4>3. Rank[k] <= Rank[l] /\ Rank[l] <= Rank[k]
        BY <2>1, <3>1, <4>2 DEF AtKey
      <4>4. Rank[k] = Rank[l]
        BY <4>3, RankAssumption
      <4> QED
        BY <4>1, <4>2, <4>4, RankAssumption
    <3> QED
      BY <3>1
  <2>4. keys'[r] = keys[r] \ {k}
    BY <2>1 DEF TypeOK
  <2>5. \A q \in Requests \ {r} : keys'[q] = keys[q] /\ pc'[q] = pc[q]
    BY <2>1, <2>2 DEF TypeOK
  <2>6. Calls(r)'
    <3>1. ASSUME NEW i \in DOMAIN asked[r], asked[r][i][1] = model[r]
          PROVE  asked[r][i][2] \notin keys'[r]
      <4>1. asked[r][i][2] \in AllKeys
        BY DEF Ledger, Calls
      <4>2. asked[r][i][2] \in keys[r] => asked[r][i][2] = k
        BY <2>2, <2>3, <3>1, <4>1 DEF Ledger, Calls
      <4> QED
        BY <2>4, <4>2
    <3>2. keys'[r] \subseteq Keys \/ keys'[r] = {NoKey}
      BY <2>4, <1>8 DEF Ledger, Calls
    <3> QED
      BY <2>2, <3>1, <3>2 DEF Ledger, Calls
  <2>7. ASSUME NEW q \in Requests \ {r} PROVE Calls(q)'
    BY <2>2, <2>5 DEF Ledger, Calls, AtKey
  <2> QED
    BY <2>2, <2>6, <2>7 DEF Ledger, NothingAskedTwice
<1>9. ASSUME NEW r \in Requests, Leave(r) PROVE Ledger'
  BY <1>9, CallsKept DEF Leave, TypeOK
<1>10. ASSUME NEW r \in Requests, Store(r) PROVE Ledger'
  <2>1. asked'[r] = <<>> /\ keys'[r] = {}
    BY <1>10 DEF Store, TypeOK
  <2>2. \A q \in Requests \ {r} :
          /\ asked'[q] = asked[q] /\ keys'[q] = keys[q] /\ tried'[q] = tried[q]
          /\ model'[q] = model[q] /\ pc'[q] = pc[q]
    BY <1>10 DEF Store, TypeOK
  <2>3. Calls(r)'
    BY <2>1 DEF Calls
  <2>4. ASSUME NEW q \in Requests \ {r} PROVE Calls(q)'
    BY <2>2 DEF Ledger, Calls, AtKey
  <2>5. NothingAskedTwice'
    BY <2>1, <2>2 DEF Ledger, NothingAskedTwice
  <2> QED
    BY <2>3, <2>4, <2>5 DEF Ledger
<1>11. CASE Expire
  BY <1>11, CallsKept DEF Expire, local
<1>12. CASE UNCHANGED vars
  BY <1>12, CallsKept DEF vars, local
<1>13. CASE Midnight
  BY <1>13, CallsKept DEF Midnight
<1> QED
  BY <1>1, <1>2, <1>3, <1>4, <1>5, <1>6, <1>7, <1>8, <1>9, <1>10, <1>11, <1>12, <1>13 DEF Next, Turn

(* A turn never calls the same model with the same key twice. *)
THEOREM NoCallTwice == Spec => []NothingAskedTwice
<1>1. Init => Ledger
  BY DEF Init, Ledger, Calls, NothingAskedTwice
<1>2. TypeOK /\ Ledger /\ [Next]_vars => Ledger'
  BY LedgerStep
<1>3. Ledger => NothingAskedTwice
  BY DEF Ledger
<1> QED
  BY <1>1, <1>2, <1>3, TypeCorrect, PTL DEF Spec

(* Without fallback, a turn leaves a model only if it has called none, or if the
   budget turns it away; then there is no budget before midnight. *)
Loyal(r) ==
  ~fallback =>
    /\ pc[r] = "idle" => asked[r] = <<>>
    /\ denied[r] = "never" /\ pc[r] = "selecting" => asked[r] = <<>>
    /\ denied[r] = "never" /\ pc[r] \in {"rotating", "calling"} =>
         \A i \in DOMAIN asked[r] : asked[r][i][1] = model[r]
    /\ denied[r] = "today" => ~Affordable

Loyalty == OneModelWithoutFallback /\ \A r \in Requests : Loyal(r)

LEMMA LoyaltyStep ==
  ASSUME TypeOK, Loyalty, [Next]_vars
  PROVE  Loyalty'
<1> USE BudgetAssumption DEF TypeOK, Places, Loyalty, Loyal, OneModelWithoutFallback
<1>1. ASSUME NEW r \in Requests, Ask(r) PROVE Loyalty'
  BY <1>1 DEF Ask, Affordable
<1>2. ASSUME NEW r \in Requests, Select(r) PROVE Loyalty'
  BY <1>2 DEF Select, Affordable
<1>3. ASSUME NEW r \in Requests, Call(r) PROVE Loyalty'
  BY <1>3 DEF Call, Affordable
<1>4. ASSUME NEW r \in Requests, CallFake(r) PROVE Loyalty'
  BY <1>4 DEF CallFake, Affordable
<1>5. ASSUME NEW r \in Requests, BudgetExhausted(r) PROVE Loyalty'
  BY <1>5 DEF BudgetExhausted, Affordable
<1>6. ASSUME NEW r \in Requests, Chunk(r) PROVE Loyalty'
  BY <1>6 DEF Chunk, Affordable
<1>7. ASSUME NEW r \in Requests, Succeed(r) PROVE Loyalty'
  BY <1>7 DEF Succeed, Affordable
<1>8. ASSUME NEW r \in Requests, NEW d \in BOOLEAN, Fail(r, d) PROVE Loyalty'
  BY <1>8 DEF Fail, After, Final, Affordable
<1>9. ASSUME NEW r \in Requests, Leave(r) PROVE Loyalty'
  BY <1>9 DEF Leave, Affordable
<1>10. ASSUME NEW r \in Requests, Store(r) PROVE Loyalty'
  BY <1>10 DEF Store, Affordable
<1>11. CASE Expire
  BY <1>11 DEF Expire, local, Affordable
<1>12. CASE UNCHANGED vars
  BY <1>12 DEF vars, local, Affordable
<1>13. CASE Midnight
  BY <1>13 DEF Midnight, Affordable
<1> QED
  BY <1>1, <1>2, <1>3, <1>4, <1>5, <1>6, <1>7, <1>8, <1>9, <1>10, <1>11, <1>12, <1>13 DEF Next, Turn

(* Without fallback, a turn calls one model only, whatever other turns leave of the
   budget, unless the budget turned it away before midnight and it goes on after. *)
THEOREM OneModelOnly == Spec => []OneModelWithoutFallback
<1>1. Init => Loyalty
  BY DEF Init, Loyalty, Loyal, OneModelWithoutFallback
<1>2. TypeOK /\ Loyalty /\ [Next]_vars => Loyalty'
  BY LoyaltyStep
<1>3. Loyalty => OneModelWithoutFallback
  BY DEF Loyalty
<1> QED
  BY <1>1, <1>2, <1>3, TypeCorrect, PTL DEF Spec

-----------------------------------------------------------------------------
(* How a turn gets to its end *)

(* The local engine is the last resort: a turn that has selected it never
   selects again. *)
Within == {Chain[i] : i \in DOMAIN Chain} \cup {Fake}
LastResort(r) ==
  /\ tried[r] \subseteq Within
  /\ pc[r] = "idle" => tried[r] = {}
  /\ Fake \in tried[r] =>
       /\ pc[r] # "selecting"
       /\ pc[r] \in {"rotating", "calling"} => model[r] = Fake

(* Within the attempt of one key, a turn only goes forward. *)
Stage(r) ==
  CASE pc[r] = "rotating"                -> 1
    [] pc[r] = "calling" /\ ~yielded[r] -> 2
    [] pc[r] = "calling" /\ yielded[r]  -> 3
    [] pc[r] = "selecting"              -> 4
    [] pc[r] = "storing"                -> 5
    [] OTHER                            -> 6

Turning(r) == <<pc[r], tried[r], model[r], keys[r], yielded[r]>>

(* A step leaves a turn where it is, begins it or ends it; or the turn has one
   more model behind it, or one key less before it, or is further in its
   attempt. *)
Advances(r) ==
  \/ UNCHANGED Turning(r)
  \/ pc[r] = "idle"
  \/ pc'[r] = "done"
  \/ tried[r] # tried'[r] /\ tried[r] \subseteq tried'[r] /\ tried'[r] \subseteq Within
  \/ tried[r] = tried'[r] /\ keys[r] # keys'[r] /\ keys'[r] \subseteq keys[r]
  \/ tried[r] = tried'[r] /\ keys[r] = keys'[r] /\ Stage(r) < Stage(r)'

TurnsAdvance == [][\A r \in Requests : Advances(r)]_vars

(* What a turn that is not over can do next: the guards of its steps. *)
HasAStep(r) ==
  /\ pc[r] = "selecting" => \E p \in Providers : Selected(p, tried[r])
  /\ pc[r] = "rotating" => model[r] = Fake \/ ~Affordable \/ \E k \in AllKeys : AtKey(r, k)
  /\ pc[r] = "calling" => \E k \in AllKeys : AtKey(r, k)

NeverStuck == \A r \in Requests : HasAStep(r)

LEMMA SelectedIsNew ==
  ASSUME NEW p \in Providers, NEW r \in Requests, Selected(p, tried[r])
  PROVE  p \in Within /\ (p \in tried[r] => p = Fake)
BY DEF Selected, Candidate, Within

LEMMA LastResortStep ==
  ASSUME TypeOK, \A r \in Requests : LastResort(r), [Next]_vars
  PROVE  \A r \in Requests : LastResort(r)'
<1> USE NamesAssumption DEF TypeOK, LastResort
<1>1. ASSUME NEW r \in Requests, Ask(r) PROVE \A q \in Requests : LastResort(q)'
  BY <1>1 DEF Ask
<1>2. ASSUME NEW r \in Requests, Select(r) PROVE \A q \in Requests : LastResort(q)'
  BY <1>2, SelectedIsNew DEF Select
<1>3. ASSUME NEW r \in Requests, Call(r) PROVE \A q \in Requests : LastResort(q)'
  BY <1>3 DEF Call
<1>4. ASSUME NEW r \in Requests, CallFake(r) PROVE \A q \in Requests : LastResort(q)'
  BY <1>4 DEF CallFake
<1>5. ASSUME NEW r \in Requests, BudgetExhausted(r) PROVE \A q \in Requests : LastResort(q)'
  BY <1>5 DEF BudgetExhausted
<1>6. ASSUME NEW r \in Requests, Chunk(r) PROVE \A q \in Requests : LastResort(q)'
  BY <1>6 DEF Chunk
<1>7. ASSUME NEW r \in Requests, Succeed(r) PROVE \A q \in Requests : LastResort(q)'
  BY <1>7 DEF Succeed
<1>8. ASSUME NEW r \in Requests, NEW d \in BOOLEAN, Fail(r, d)
      PROVE  \A q \in Requests : LastResort(q)'
  BY <1>8 DEF Fail, Final, After
<1>9. ASSUME NEW r \in Requests, Leave(r) PROVE \A q \in Requests : LastResort(q)'
  BY <1>9 DEF Leave
<1>10. ASSUME NEW r \in Requests, Store(r) PROVE \A q \in Requests : LastResort(q)'
  BY <1>10 DEF Store
<1>11. CASE Expire \/ Midnight \/ UNCHANGED vars
  BY <1>11 DEF Expire, Midnight, vars, local
<1> QED
  BY <1>1, <1>2, <1>3, <1>4, <1>5, <1>6, <1>7, <1>8, <1>9, <1>10, <1>11 DEF Next, Turn

LEMMA AdvanceStep ==
  ASSUME TypeOK, \A r \in Requests : LastResort(r), [Next]_vars
  PROVE  \A r \in Requests : Advances(r)
<1> USE DEF TypeOK, Advances, Turning
<1>1. ASSUME NEW r \in Requests, Ask(r), NEW q \in Requests PROVE Advances(q)
  BY <1>1 DEF Ask
<1>2. ASSUME NEW r \in Requests, Select(r), NEW q \in Requests PROVE Advances(q)
  BY <1>2, SelectedIsNew DEF Select, LastResort
<1>3. ASSUME NEW r \in Requests, Call(r), NEW q \in Requests PROVE Advances(q)
  <2>1. CASE q = r
    <3>1. tried' = tried /\ keys' = keys /\ pc[r] = "rotating" /\ pc'[r] = "calling" /\ ~yielded'[r]
      BY <1>3 DEF Call
    <3>2. Stage(r) = 1 /\ Stage(r)' = 2
      BY <3>1 DEF Stage
    <3> QED
      BY <2>1, <3>1, <3>2
  <2>2. CASE q # r
    BY <1>3, <2>2 DEF Call
  <2> QED
    BY <2>1, <2>2
<1>4. ASSUME NEW r \in Requests, CallFake(r), NEW q \in Requests PROVE Advances(q)
  <2>1. CASE q = r
    <3>1. tried' = tried /\ keys' = keys /\ pc[r] = "rotating" /\ pc'[r] = "calling" /\ ~yielded'[r]
      BY <1>4 DEF CallFake
    <3>2. Stage(r) = 1 /\ Stage(r)' = 2
      BY <3>1 DEF Stage
    <3> QED
      BY <2>1, <3>1, <3>2
  <2>2. CASE q # r
    BY <1>4, <2>2 DEF CallFake
  <2> QED
    BY <2>1, <2>2
<1>5. ASSUME NEW r \in Requests, BudgetExhausted(r), NEW q \in Requests PROVE Advances(q)
  BY <1>5 DEF BudgetExhausted, Stage
<1>6. ASSUME NEW r \in Requests, Chunk(r), NEW q \in Requests PROVE Advances(q)
  <2>1. CASE q = r
    <3>1. tried' = tried /\ keys' = keys /\ pc[r] = "calling" /\ pc'[r] = "calling" /\ ~yielded[r] /\ yielded'[r]
      BY <1>6 DEF Chunk
    <3>2. Stage(r) = 2 /\ Stage(r)' = 3
      BY <3>1 DEF Stage
    <3> QED
      BY <2>1, <3>1, <3>2
  <2>2. CASE q # r
    BY <1>6, <2>2 DEF Chunk
  <2> QED
    BY <2>1, <2>2
<1>7. ASSUME NEW r \in Requests, Succeed(r), NEW q \in Requests PROVE Advances(q)
  BY <1>7 DEF Succeed, Stage
<1>8. ASSUME NEW r \in Requests, NEW d \in BOOLEAN, Fail(r, d), NEW q \in Requests PROVE Advances(q)
  BY <1>8 DEF Fail, AtKey
<1>9. ASSUME NEW r \in Requests, Leave(r), NEW q \in Requests PROVE Advances(q)
  BY <1>9 DEF Leave, Stage
<1>10. ASSUME NEW r \in Requests, Store(r), NEW q \in Requests PROVE Advances(q)
  BY <1>10 DEF Store
<1>11. CASE Expire \/ Midnight \/ UNCHANGED vars
  BY <1>11 DEF Expire, Midnight, vars, local
<1> QED
  BY <1>1, <1>2, <1>3, <1>4, <1>5, <1>6, <1>7, <1>8, <1>9, <1>10, <1>11 DEF Next, Turn

LEMMA LastResortInit == Init => \A r \in Requests : LastResort(r)
BY DEF Init, LastResort

(* Every step of a turn brings it nearer to its end, whatever the other turns,
   the time-outs and the budget do meanwhile: a model already selected is never
   selected again, a key already tried is never tried again, and the models in
   reach are those of the chain and the local engine (the loop of generate). *)
THEOREM TurnsOnlyAdvance == Spec => TurnsAdvance
<1> DEFINE AtEnd == \A r \in Requests : LastResort(r)
           Ahead == \A r \in Requests : Advances(r)
<1>1. TypeOK /\ AtEnd /\ [Next]_vars => AtEnd'
  BY LastResortStep
<1>2. TypeOK /\ AtEnd /\ [Next]_vars => [Ahead]_vars
  BY AdvanceStep
<1>3. Init => AtEnd
  BY LastResortInit
<1> HIDE DEF AtEnd
<1> QED
  BY <1>1, <1>2, <1>3, TypeCorrect, PTL DEF Spec, TurnsAdvance

(* Least elements: of a set of naturals, and of the keys of an attempt. *)
LEMMA LeastNatural ==
  ASSUME NEW T \in SUBSET Nat, T # {}
  PROVE  \E n \in T : \A m \in T : n <= m
<1>1. PICK n \in T : \A m \in T : ~(<<m, n>> \in OpToRel(<, Nat))
  BY NatLessThanWellFounded, WFMin
<1>2. ASSUME NEW m \in T PROVE n <= m
  <2>1. m \in Nat /\ n \in Nat
    OBVIOUS
  <2>2. ~(m < n)
    BY <1>1, <2>1 DEF OpToRel
  <2> QED
    BY <2>1, <2>2
<1> QED
  BY <1>2

LEMMA AKeyIsNext ==
  ASSUME NEW r \in Requests, keys[r] # {}, keys[r] \subseteq AllKeys
  PROVE  \E k \in AllKeys : AtKey(r, k)
<1> DEFINE T == {Rank[k] : k \in keys[r]}
<1>1. T \in SUBSET Nat /\ T # {}
  BY RankAssumption
<1>2. PICK n \in T : \A m \in T : n <= m
  <2> HIDE DEF T
  <2> QED
    BY <1>1, LeastNatural
<1>3. PICK k \in keys[r] : n = Rank[k]
  OBVIOUS
<1> QED
  BY <1>2, <1>3 DEF AtKey

LEMMA AModelIsNext ==
  ASSUME NEW S
  PROVE  \E p \in Providers : Selected(p, S)
<1> DEFINE T == {i \in DOMAIN Chain : Candidate(Chain[i], S)}
<1>1. DOMAIN Chain \subseteq Nat /\ \A i \in DOMAIN Chain : Chain[i] \in Models
  BY ChainAssumption
<1>2. CASE T = {}
  BY <1>2 DEF Selected, Providers
<1>3. CASE T # {}
  <2>1. PICK i \in T : \A j \in T : i <= j
    <3>1. T \in SUBSET Nat
      BY <1>1
    <3> HIDE DEF T
    <3> QED
      BY <1>3, <3>1, LeastNatural
  <2>2. \A j \in 1..(i - 1) : ~Candidate(Chain[j], S)
    <3> SUFFICES ASSUME NEW j \in 1..(i - 1) PROVE ~Candidate(Chain[j], S)
      OBVIOUS
    <3>1. DOMAIN Chain = 1..Len(Chain) /\ Len(Chain) \in Nat
      BY ChainAssumption
    <3>2. j \in DOMAIN Chain /\ ~(i <= j)
      BY <2>1, <3>1
    <3> QED
      BY <2>1, <3>2
  <2> QED
    BY <1>1, <2>1, <2>2 DEF Selected, Providers
<1> QED
  BY <1>2, <1>3

(* A turn that is not over always has a step to take: a model to go to when it
   needs one, were the whole chain down or already tried, and a key to present
   to it, whatever was marked or disabled since the rotation was read. *)
THEOREM TurnsAreNeverStuck == Spec => []NeverStuck
<1>1. TypeOK => NeverStuck
  <2> SUFFICES ASSUME TypeOK, NEW r \in Requests PROVE HasAStep(r)
    BY DEF NeverStuck
  <2>1. pc[r] \in {"rotating", "calling"} => keys[r] # {} /\ keys[r] \subseteq AllKeys
    BY DEF TypeOK
  <2> QED
    BY <2>1, AKeyIsNext, AModelIsNext DEF HasAStep
<1> QED
  BY <1>1, TypeCorrect, PTL
===============================================================================
