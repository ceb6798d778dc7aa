-------------------------- MODULE ConversationProofs --------------------------
(****************************************************************************)
(* The two races that conversation_manager.py settles with a row count: a   *)
(* message is retried, and a reply replaced, by one request at a time,      *)
(* whatever the number of requests, messages and crashes; one reply at most *)
(* to a message, and a charge for what was answered, while requests follow  *)
(* one another; and, however they overlap, that every reply answers a       *)
(* message which is still there, and what may leave a message claimed.      *)
(****************************************************************************)
EXTENDS Conversation, TLAPS

(* The state is well typed in every reachable state. *)
THEOREM TypeCorrect == Spec => []TypeOK
<1>1. Init => TypeOK
  <2> SUFFICES ASSUME Init PROVE TypeOK
    OBVIOUS
  <2>1. /\ kind \in [Requests -> {"send", "retry", "regenerate"}]
        /\ pc \in [Requests -> {"idle", "charged", "claiming", "deleting", "billing",
                               "generating", "replied", "failed"}]
        /\ target \in [Requests -> Nat] /\ victim \in [Requests -> Nat]
    BY DEF Init
  <2>2. charged \in [Requests -> BOOLEAN] /\ stored \in [Requests -> BOOLEAN]
    BY DEF Init
  <2>3. msgs = {} /\ nextId = 1 /\ claims = {}
    BY DEF Init
  <2>4. /\ msgs \subseteq Message /\ \A m \in msgs : m.id < nextId
        /\ \A m, n \in msgs : m.id = n.id => m = n
    BY <2>3
  <2>5. nextId \in Nat \ {0} /\ claims \subseteq Nat
    BY <2>3
  <2>6. gone \in BOOLEAN /\ alone \in BOOLEAN
    BY DEF Init
  <2>. QED
    BY <2>1, <2>2, <2>4, <2>5, <2>6, Zenon DEF TypeOK
<1>2. TypeOK /\ [Next]_vars => TypeOK'
  <2> SUFFICES ASSUME TypeOK, [Next]_vars PROVE TypeOK'
    OBVIOUS
  <2> USE DEF TypeOK, Message, Goto
  <2>0. alone' \in BOOLEAN /\ gone' \in BOOLEAN
    BY DEF Next, vars, Erase
  <2>1. ASSUME NEW r \in Requests, Send(r) PROVE TypeOK'
    BY <2>0, <2>1 DEF Send, Start
  <2>2. ASSUME NEW r \in Requests, Post(r) PROVE TypeOK'
    BY <2>0, <2>2 DEF Post, AddMessage
  <2>3. ASSUME NEW r \in Requests, Retry(r) PROVE TypeOK'
    BY <2>0, <2>3 DEF Retry, Start, FromUser
  <2>4. ASSUME NEW r \in Requests, Claim(r) PROVE TypeOK'
    BY <2>0, <2>4 DEF Claim
  <2>5. ASSUME NEW r \in Requests, ClaimRefused(r) PROVE TypeOK'
    BY <2>0, <2>5 DEF ClaimRefused
  <2>6. ASSUME NEW r \in Requests, Regenerate(r) PROVE TypeOK'
    BY <2>0, <2>6 DEF Regenerate, Start, FromUser
  <2>7. ASSUME NEW r \in Requests, Delete(r) PROVE TypeOK'
    BY <2>0, <2>7 DEF Delete
  <2>8. ASSUME NEW r \in Requests, DeleteRefused(r) PROVE TypeOK'
    BY <2>0, <2>8 DEF DeleteRefused
  <2>9. ASSUME NEW r \in Requests, Bill(r) PROVE TypeOK'
    BY <2>0, <2>9 DEF Bill
  <2>10. ASSUME NEW r \in Requests, Reply(r) PROVE TypeOK'
    BY <2>0, <2>10 DEF Reply, AddMessage
  <2>11. ASSUME NEW r \in Requests, Raise(r) PROVE TypeOK'
    BY <2>0, <2>11 DEF Raise
  <2>12. ASSUME NEW r \in Requests, Finish(r) PROVE TypeOK'
    BY <2>0, <2>12 DEF Finish, Release
  <2>13. ASSUME NEW r \in Requests, Crash(r) PROVE TypeOK'
    BY <2>0, <2>13 DEF Crash
  <2>14. ASSUME NEW r \in Requests, PostRefused(r) PROVE TypeOK'
    BY <2>0, <2>14 DEF PostRefused
  <2>15. CASE Erase
    BY <2>0, <2>15 DEF Erase
  <2>16. CASE UNCHANGED vars
    BY <2>16 DEF vars
  <2> QED
    BY <2>1, <2>2, <2>3, <2>4, <2>5, <2>6, <2>7, <2>8, <2>9, <2>10, <2>11,
       <2>12, <2>13, <2>14, <2>15, <2>16 DEF Next, Step
<1> QED
  BY <1>1, <1>2, PTL DEF Spec

(* Where a request is in its program says which program it runs, and the reply
   it is to replace is an old one: its id will not be given again. *)
Bookkeeping ==
  \A r \in Requests :
    /\ pc[r] = "charged" => kind[r] = "send"
    /\ pc[r] = "claiming" => kind[r] = "retry"
    /\ pc[r] \in {"deleting", "billing"} => kind[r] = "regenerate"
    /\ victim[r] < nextId

LEMMA BookkeepingStep ==
  ASSUME TypeOK, Bookkeeping, [Next]_vars
  PROVE  Bookkeeping'
<1> USE DEF TypeOK, Message, Goto, Bookkeeping
<1>1. ASSUME NEW r \in Requests, Send(r) PROVE Bookkeeping'
  BY <1>1 DEF Send, Start
<1>2. ASSUME NEW r \in Requests, Post(r) PROVE Bookkeeping'
  BY <1>2 DEF Post, AddMessage
<1>3. ASSUME NEW r \in Requests, Retry(r) PROVE Bookkeeping'
  BY <1>3 DEF Retry, Start, FromUser, Last
<1>4. ASSUME NEW r \in Requests, Claim(r) PROVE Bookkeeping'
  BY <1>4 DEF Claim, ClaimFree
<1>5. ASSUME NEW r \in Requests, ClaimRefused(r) PROVE Bookkeeping'
  BY <1>5 DEF ClaimRefused, ClaimFree
<1>6. ASSUME NEW r \in Requests, Regenerate(r) PROVE Bookkeeping'
  BY <1>6 DEF Regenerate, Start, FromUser, Last
<1>7. ASSUME NEW r \in Requests, Delete(r) PROVE Bookkeeping'
  BY <1>7 DEF Delete
<1>8. ASSUME NEW r \in Requests, DeleteRefused(r) PROVE Bookkeeping'
  BY <1>8 DEF DeleteRefused
<1>9. ASSUME NEW r \in Requests, Bill(r) PROVE Bookkeeping'
  BY <1>9 DEF Bill
<1>10. ASSUME NEW r \in Requests, Reply(r) PROVE Bookkeeping'
  BY <1>10 DEF Reply, AddMessage
<1>11. ASSUME NEW r \in Requests, Raise(r) PROVE Bookkeeping'
  BY <1>11 DEF Raise
<1>12. ASSUME NEW r \in Requests, Finish(r) PROVE Bookkeeping'
  BY <1>12 DEF Finish, Release
<1>13. ASSUME NEW r \in Requests, Crash(r) PROVE Bookkeeping'
  BY <1>13 DEF Crash
<1>14. ASSUME NEW r \in Requests, PostRefused(r) PROVE Bookkeeping'
  BY <1>14 DEF PostRefused
<1>15. CASE Erase
  BY <1>15 DEF Erase
<1>16. CASE UNCHANGED vars
  BY <1>16 DEF vars
<1> QED
  BY <1>1, <1>2, <1>3, <1>4, <1>5, <1>6, <1>7, <1>8, <1>9, <1>10,
     <1>11, <1>12, <1>13, <1>14, <1>15, <1>16 DEF Next, Step

LEMMA RetryStep ==
  ASSUME TypeOK, Bookkeeping, RetriesExclude, [Next]_vars
  PROVE  RetriesExclude'
<1> USE DEF TypeOK, Goto, Bookkeeping, RetriesExclude, Working
<1>1. ASSUME NEW r \in Requests, Send(r) PROVE RetriesExclude'
  BY <1>1 DEF Send, Start
<1>2. ASSUME NEW r \in Requests, Post(r) PROVE RetriesExclude'
  BY <1>2 DEF Post, AddMessage
<1>3. ASSUME NEW r \in Requests, Retry(r) PROVE RetriesExclude'
  BY <1>3 DEF Retry, Start, FromUser, Last
<1>4. ASSUME NEW r \in Requests, Claim(r) PROVE RetriesExclude'
  BY <1>4 DEF Claim, ClaimFree
<1>5. ASSUME NEW r \in Requests, ClaimRefused(r) PROVE RetriesExclude'
  BY <1>5 DEF ClaimRefused, ClaimFree
<1>6. ASSUME NEW r \in Requests, Regenerate(r) PROVE RetriesExclude'
  BY <1>6 DEF Regenerate, Start, FromUser, Last
<1>7. ASSUME NEW r \in Requests, Delete(r) PROVE RetriesExclude'
  BY <1>7 DEF Delete
<1>8. ASSUME NEW r \in Requests, DeleteRefused(r) PROVE RetriesExclude'
  BY <1>8 DEF DeleteRefused
<1>9. ASSUME NEW r \in Requests, Bill(r) PROVE RetriesExclude'
  BY <1>9 DEF Bill
<1>10. ASSUME NEW r \in Requests, Reply(r) PROVE RetriesExclude'
  BY <1>10 DEF Reply, AddMessage
<1>11. ASSUME NEW r \in Requests, Raise(r) PROVE RetriesExclude'
  BY <1>11 DEF Raise
<1>12. ASSUME NEW r \in Requests, Finish(r) PROVE RetriesExclude'
  BY <1>12 DEF Finish, Release
<1>13. ASSUME NEW r \in Requests, Crash(r) PROVE RetriesExclude'
  BY <1>13 DEF Crash
<1>14. ASSUME NEW r \in Requests, PostRefused(r) PROVE RetriesExclude'
  BY <1>14 DEF PostRefused
<1>15. CASE Erase
  BY <1>15 DEF Erase
<1>16. CASE UNCHANGED vars
  BY <1>16 DEF vars
<1> QED
  BY <1>1, <1>2, <1>3, <1>4, <1>5, <1>6, <1>7, <1>8, <1>9, <1>10,
     <1>11, <1>12, <1>13, <1>14, <1>15, <1>16 DEF Next, Step

LEMMA RegenerationStep ==
  ASSUME TypeOK, Bookkeeping, RegenerationsExclude, [Next]_vars
  PROVE  RegenerationsExclude'
<1> USE DEF TypeOK, Message, Goto, Bookkeeping, RegenerationsExclude, Replacing, Working
<1>1. ASSUME NEW r \in Requests, Send(r) PROVE RegenerationsExclude'
  BY <1>1 DEF Send, Start
<1>2. ASSUME NEW r \in Requests, Post(r) PROVE RegenerationsExclude'
  BY <1>2 DEF Post, AddMessage
<1>3. ASSUME NEW r \in Requests, Retry(r) PROVE RegenerationsExclude'
  BY <1>3 DEF Retry, Start, FromUser, Last
<1>4. ASSUME NEW r \in Requests, Claim(r) PROVE RegenerationsExclude'
  BY <1>4 DEF Claim, ClaimFree
<1>5. ASSUME NEW r \in Requests, ClaimRefused(r) PROVE RegenerationsExclude'
  BY <1>5 DEF ClaimRefused, ClaimFree
<1>6. ASSUME NEW r \in Requests, Regenerate(r) PROVE RegenerationsExclude'
  BY <1>6 DEF Regenerate, Start, FromUser, Last
<1>7. ASSUME NEW r \in Requests, Delete(r) PROVE RegenerationsExclude'
  BY <1>7 DEF Delete
<1>8. ASSUME NEW r \in Requests, DeleteRefused(r) PROVE RegenerationsExclude'
  BY <1>8 DEF DeleteRefused
<1>9. ASSUME NEW r \in Requests, Bill(r) PROVE RegenerationsExclude'
  BY <1>9 DEF Bill
<1>10. ASSUME NEW r \in Requests, Reply(r) PROVE RegenerationsExclude'
  BY <1>10 DEF Reply, AddMessage
<1>11. ASSUME NEW r \in Requests, Raise(r) PROVE RegenerationsExclude'
  BY <1>11 DEF Raise
<1>12. ASSUME NEW r \in Requests, Finish(r) PROVE RegenerationsExclude'
  BY <1>12 DEF Finish, Release
<1>13. ASSUME NEW r \in Requests, Crash(r) PROVE RegenerationsExclude'
  BY <1>13 DEF Crash
<1>14. ASSUME NEW r \in Requests, PostRefused(r) PROVE RegenerationsExclude'
  BY <1>14 DEF PostRefused
<1>15. CASE Erase
  BY <1>15 DEF Erase
<1>16. CASE UNCHANGED vars
  BY <1>16 DEF vars
<1> QED
  BY <1>1, <1>2, <1>3, <1>4, <1>5, <1>6, <1>7, <1>8, <1>9, <1>10,
     <1>11, <1>12, <1>13, <1>14, <1>15, <1>16 DEF Next, Step

(* Two requests never retry the same message together, and while one does the
   message stays claimed. *)
THEOREM ExclusiveRetries == Spec => []RetriesExclude
<1>1. Init => Bookkeeping /\ RetriesExclude
  BY DEF Init, Bookkeeping, RetriesExclude, Working
<1>2. TypeOK /\ Bookkeeping /\ RetriesExclude /\ [Next]_vars
      => (Bookkeeping /\ RetriesExclude)'
  BY BookkeepingStep, RetryStep
<1> QED
  BY <1>1, <1>2, TypeCorrect, PTL DEF Spec

(* Two requests never replace the same reply: one of them deletes it, and only
   that one pays and generates. *)
THEOREM ExclusiveRegenerations == Spec => []RegenerationsExclude
<1>1. Init => Bookkeeping /\ RegenerationsExclude
  BY DEF Init, Bookkeeping, RegenerationsExclude, Replacing, Working
<1>2. TypeOK /\ Bookkeeping /\ RegenerationsExclude /\ [Next]_vars
      => (Bookkeeping /\ RegenerationsExclude)'
  BY BookkeepingStep, RegenerationStep
<1> QED
  BY <1>1, <1>2, TypeCorrect, PTL DEF Spec

(* The strengthening behind OneReplyPerTurn, while requests follow one another:
   a reply is after the message that it answers, and answers the last one before
   it; the open request is about the last message, which has no reply but the one
   that is about to be deleted. *)
Replies == {m \in msgs : m.role = "assistant"}
Unanswered(id) == \A m \in Replies : m.answers # id
Turns ==
  /\ \A m \in Replies :
       /\ m.answers < m.id
       /\ \E u \in FromUser : u.id = m.answers
       /\ \A u \in FromUser : u.id < m.id => u.id <= m.answers
  /\ \A r, q \in Requests : Open(r) /\ Open(q) => r = q
  /\ \A r \in Requests :
       /\ pc[r] \in {"claiming", "deleting", "billing", "generating"} =>
            \E u \in FromUser : u.id = target[r] /\ Last(u, FromUser)
       /\ pc[r] \in {"claiming", "billing", "generating"} => Unanswered(target[r])
       /\ pc[r] = "deleting" =>
            /\ \A m \in Replies : m.answers = target[r] => m.id = victim[r]
            /\ \A u \in FromUser : u.id # victim[r]
  /\ \A m, n \in Replies : m.answers = n.answers => m = n

LEMMA TurnsStep ==
  ASSUME TypeOK, Turns, [Next]_vars, alone'
  PROVE  Turns'
<1> USE DEF TypeOK, Message, Goto, Turns, Replies, FromUser, Unanswered, Last, Open
<1>0. CASE UNCHANGED vars
  BY <1>0 DEF vars
<1>1. CASE Erase
  <2>1. \A r \in Requests : pc[r] = "idle"
    BY <1>1 DEF Next, vars, Erase
  <2>. QED
    BY <1>1, <2>1 DEF Erase
<1>2. ASSUME NEW r \in Requests, Step(r), alone,
             \A p, q \in Requests : Open(p)' /\ Open(q)' => p = q
      PROVE  Turns'
  <2>1. \A q \in Requests \ {r} : pc[q] = "idle" /\ pc'[q] = "idle"
    <3>1. \A q \in Requests \ {r} : pc'[q] = pc[q]
      BY <1>2 DEF Step, Send, Post, PostRefused, Retry, Claim, ClaimRefused, Regenerate, Delete,
                  DeleteRefused, Bill, Reply, Raise, Finish, Crash, Start
    <3>2. pc[r] # "idle" \/ pc'[r] # "idle"
      BY <1>2 DEF Step, Send, Post, PostRefused, Retry, Claim, ClaimRefused, Regenerate, Delete,
                  DeleteRefused, Bill, Reply, Raise, Finish, Crash, Start
    <3>. QED
      BY <1>2, <3>1, <3>2
  <2>2. CASE Send(r)
    BY <2>1, <2>2 DEF Send, Start
  <2>3. CASE Post(r)
    <3>1. PICK u : u = [id |-> nextId, role |-> "user", answers |-> 0]
      OBVIOUS
    <3>2. msgs' = msgs \cup {u} /\ u.id = nextId /\ u.role = "user" /\ target' = [target EXCEPT ![r] = nextId]
      BY <2>3, <3>1 DEF Post, AddMessage
    <3>3. Replies' = Replies /\ FromUser' = FromUser \cup {u}
      BY <3>2
    <3>4. u \in FromUser' /\ u.id = target'[r] /\ Last(u, FromUser')
      BY <3>2, <3>3
    <3>5. \A m \in Replies : m.answers # nextId
      OBVIOUS
    <3>6. pc'[r] = "generating" /\ UNCHANGED victim
      BY <2>3 DEF Post
    <3>7. \A m \in Replies' :
            /\ m.answers < m.id
            /\ \E v \in FromUser' : v.id = m.answers
            /\ \A v \in FromUser' : v.id < m.id => v.id <= m.answers
      BY <3>2, <3>3
    <3>. QED
      BY <2>1, <3>2, <3>3, <3>4, <3>5, <3>6, <3>7
  <2>4. CASE PostRefused(r)
    BY <2>1, <2>4 DEF PostRefused
  <2>5. CASE Retry(r)
    <3>1. PICK u \in FromUser : Last(u, msgs) /\ target' = [target EXCEPT ![r] = u.id]
      BY <2>5 DEF Retry
    <3>2. pc'[r] = "claiming" /\ UNCHANGED <<msgs, victim>>
      BY <2>5 DEF Retry, Start
    <3>3. Unanswered(u.id)
      BY <3>1
    <3>. QED
      BY <2>1, <3>1, <3>2, <3>3
  <2>6. CASE Claim(r) \/ ClaimRefused(r)
    BY <2>1, <2>6 DEF Claim, ClaimRefused
  <2>7. CASE Regenerate(r)
    <3>1. PICK a \in msgs \ FromUser, u \in FromUser :
            /\ Last(a, msgs) /\ Last(u, FromUser)
            /\ victim' = [victim EXCEPT ![r] = a.id]
            /\ target' = [target EXCEPT ![r] = u.id]
      BY <2>7 DEF Regenerate
    <3>2. pc'[r] = "deleting" /\ UNCHANGED msgs
      BY <2>7 DEF Regenerate, Start
    <3>3. a \in Replies /\ u.id < a.id
      <4>1. a.role = "assistant" /\ u \in msgs /\ u # a
        BY <3>1
      <4>2. u.id <= a.id /\ u.id # a.id /\ u.id \in Nat /\ a.id \in Nat
        BY <3>1, <4>1
      <4>. QED
        BY <4>1, <4>2
    <3>4. a.answers = u.id
      <4>1. PICK v \in FromUser : v.id = a.answers
        BY <3>3
      <4>2. u.id <= a.answers /\ a.answers <= u.id
        BY <3>1, <3>3, <4>1
      <4>. QED
        BY <4>2, <3>3
    <3>5. /\ \A m \in Replies : m.answers = u.id => m.id = a.id
          /\ \A v \in FromUser : v.id # a.id
      BY <3>1, <3>3, <3>4
    <3>. QED
      BY <2>1, <3>1, <3>2, <3>5
  <2>8. CASE Delete(r)
    <3>1. msgs' = {m \in msgs : m.id # victim[r]} /\ pc'[r] = "billing" /\ UNCHANGED <<target, victim>>
      BY <2>8 DEF Delete
    <3>2. PICK u \in FromUser : u.id = target[r] /\ Last(u, FromUser)
      BY <2>8 DEF Delete
    <3>3. /\ \A m \in Replies : m.answers = target[r] => m.id = victim[r]
          /\ \A v \in FromUser : v.id # victim[r]
      BY <2>8 DEF Delete
    <3>4. FromUser' = FromUser /\ Replies' = {m \in Replies : m.id # victim[r]}
      BY <3>1, <3>3
    <3>. QED
      BY <2>1, <3>1, <3>2, <3>3, <3>4
  <2>9. CASE DeleteRefused(r)
    BY <2>1, <2>9 DEF DeleteRefused
  <2>10. CASE Bill(r)
    BY <2>1, <2>10 DEF Bill
  <2>11. CASE Reply(r)
    <3>1. PICK a : a = [id |-> nextId, role |-> "assistant", answers |-> target[r]]
      OBVIOUS
    <3>2. msgs' = msgs \cup {a} /\ a.id = nextId /\ a.role = "assistant" /\ a.answers = target[r]
      BY <2>11, <3>1 DEF Reply, AddMessage
    <3>3. Replies' = Replies \cup {a} /\ FromUser' = FromUser
      BY <3>2
    <3>4. PICK u \in FromUser : u.id = target[r] /\ Last(u, FromUser)
      BY <2>11 DEF Reply
    <3>5. Unanswered(target[r])
      BY <2>11 DEF Reply
    <3>6. pc'[r] = "replied"
      BY <2>11 DEF Reply
    <3>. QED
      BY <2>1, <3>2, <3>3, <3>4, <3>5, <3>6
  <2>12. CASE Raise(r)
    BY <2>1, <2>12 DEF Raise
  <2>13. CASE Finish(r)
    BY <2>1, <2>13 DEF Finish
  <2>14. CASE Crash(r)
    BY <2>1, <2>14 DEF Crash
  <2>. QED
    BY <1>2, <2>2, <2>3, <2>4, <2>5, <2>6, <2>7, <2>8, <2>9, <2>10, <2>11, <2>12, <2>13, <2>14 DEF Step
<1>. QED
  BY <1>0, <1>1, <1>2 DEF Next

(* A message has at most one reply while requests follow one another. *)
THEOREM SingleReplies == Spec => []OneReplyPerTurn
<1>1. Init => (alone => Turns)
  BY DEF Init, Turns, Replies, FromUser, Open
<1>2. TypeOK /\ (alone => Turns) /\ [Next]_vars => (alone => Turns)'
  <2>1. [Next]_vars /\ alone' => alone
    BY DEF Next, vars
  <2>. QED
    BY <2>1, TurnsStep
<1>3. (alone => Turns) => OneReplyPerTurn
  BY DEF Turns, Replies, OneReplyPerTurn
<1>. QED
  BY <1>1, <1>2, <1>3, TypeCorrect, PTL DEF Spec

(* The strengthening behind BilledIffDelivered: while requests follow one another,
   a message that is being answered is charged, and the last message of the
   conversation is its reply if one was stored, and itself otherwise. *)
Accounted ==
  /\ \A r, q \in Requests : Open(r) /\ Open(q) => r = q
  /\ \A r \in Requests : kind[r] = "send" =>
       /\ pc[r] \in {"charged", "generating", "replied", "failed"} => charged[r] = TRUE
       /\ pc[r] \in {"charged", "generating"} => stored[r] = FALSE
       /\ pc[r] \in {"generating", "replied", "failed"} =>
            \E m \in msgs : Last(m, msgs) /\ m.role = (IF stored[r] = TRUE THEN "assistant" ELSE "user")

\* The last message is the one with the newest id.
LEMMA NewestIsLast ==
  ASSUME TypeOK, NEW role \in {"user", "assistant"}, NEW answers \in Nat, AddMessage(role, answers)
  PROVE  \E m \in msgs' : Last(m, msgs') /\ m.role = role
<1> DEFINE m == [id |-> nextId, role |-> role, answers |-> answers]
<1>1. msgs' = msgs \cup {m} /\ m.id = nextId /\ m.role = role
  BY DEF AddMessage
<1>2. \A n \in msgs : n.id < nextId /\ n.id \in Nat /\ nextId \in Nat
  BY DEF TypeOK, Message
<1>. HIDE DEF m
<1>. QED
  BY <1>1, <1>2 DEF Last, TypeOK

LEMMA AccountedStep ==
  ASSUME TypeOK, Bookkeeping, Accounted, [Next]_vars, alone'
  PROVE  Accounted'
<1> USE DEF Goto, Accounted, Open
<1>0. CASE UNCHANGED vars
  BY <1>0 DEF vars, Last
<1>1. CASE Erase
  <2>1. \A r \in Requests : pc[r] = "idle"
    BY <1>1 DEF Next, vars, Erase
  <2>. QED
    BY <1>1, <2>1 DEF Erase
<1>2. ASSUME NEW r \in Requests, Step(r), alone,
             \A p, q \in Requests : Open(p)' /\ Open(q)' => p = q
      PROVE  Accounted'
  <2>0. /\ pc \in [Requests -> {"idle", "charged", "claiming", "deleting", "billing",
                                "generating", "replied", "failed"}]
        /\ kind \in [Requests -> {"send", "retry", "regenerate"}] /\ target \in [Requests -> Nat]
    BY DEF TypeOK
  <2>1. \A q \in Requests \ {r} : pc'[q] = "idle"
    <3>1. \A q \in Requests \ {r} : pc'[q] = pc[q]
      BY <1>2, <2>0 DEF Step, Send, Post, PostRefused, Retry, Claim, ClaimRefused, Regenerate, Delete,
                  DeleteRefused, Bill, Reply, Raise, Finish, Crash, Start
    <3>2. pc[r] # "idle" \/ pc'[r] # "idle"
      BY <1>2, <2>0 DEF Step, Send, Post, PostRefused, Retry, Claim, ClaimRefused, Regenerate, Delete,
                  DeleteRefused, Bill, Reply, Raise, Finish, Crash, Start
    <3>. QED
      BY <1>2, <3>1, <3>2
  <2>a. ASSUME pc'[r] = "idle" \/ kind'[r] # "send" PROVE Accounted'
    BY <1>2, <2>1, <2>a
  <2>2. CASE Send(r)
    <3>1. pc'[r] = "charged" /\ charged'[r] = TRUE /\ stored'[r] = FALSE
      BY <2>2 DEF Send, Start, TypeOK
    <3>. QED
      BY <1>2, <2>1, <3>1
  <2>3. CASE Post(r)
    <3>1. kind[r] = "send" /\ charged[r] = TRUE /\ stored[r] = FALSE
      BY <2>3 DEF Post, Bookkeeping
    <3>2. pc'[r] = "generating" /\ UNCHANGED <<charged, stored>>
      BY <2>0, <2>3 DEF Post
    <3>3. \E m \in msgs' : Last(m, msgs') /\ m.role = "user"
      BY <2>3, NewestIsLast DEF Post
    <3>. QED
      BY <1>2, <2>1, <3>1, <3>2, <3>3
  <2>4. CASE PostRefused(r) \/ ClaimRefused(r) \/ DeleteRefused(r) \/ Finish(r) \/ Crash(r)
    <3>1. pc'[r] = "idle"
      BY <2>0, <2>4 DEF PostRefused, ClaimRefused, DeleteRefused, Finish, Crash
    <3>. QED
      BY <2>a, <3>1
  <2>5. CASE Retry(r) \/ Regenerate(r)
    <3>1. kind'[r] \in {"retry", "regenerate"}
      BY <2>0, <2>5 DEF Retry, Regenerate, Start
    <3>. QED
      BY <2>a, <3>1
  <2>6. CASE Claim(r) \/ Delete(r) \/ Bill(r)
    <3>1. kind[r] \in {"retry", "regenerate"} /\ kind' = kind
      BY <2>0, <2>6 DEF Claim, Delete, Bill, Bookkeeping
    <3>. QED
      BY <2>a, <3>1
  <2>7. CASE Reply(r)
    <3>1. pc'[r] = "replied" /\ stored'[r] = TRUE /\ UNCHANGED <<charged, kind>> /\ pc[r] = "generating"
      BY <2>0, <2>7 DEF Reply, TypeOK
    <3>2. \E m \in msgs' : Last(m, msgs') /\ m.role = "assistant"
      BY <2>0, <2>7, NewestIsLast DEF Reply
    <3>. QED
      BY <1>2, <2>1, <3>1, <3>2
  <2>8. CASE Raise(r)
    <3>1. pc[r] \in {"generating", "replied"} /\ pc'[r] = "failed" /\ UNCHANGED <<msgs, charged, stored, kind>>
      BY <2>0, <2>8 DEF Raise
    <3>2. kind[r] = "send" =>
            /\ charged[r] = TRUE
            /\ \E m \in msgs : Last(m, msgs) /\ m.role = (IF stored[r] = TRUE THEN "assistant" ELSE "user")
      BY <3>1
    <3>3. \A m : Last(m, msgs) <=> Last(m, msgs)'
      BY <3>1 DEF Last
    <3>. QED
      BY <1>2, <2>1, <3>1, <3>2, <3>3
  <2>. QED
    BY <1>2, <2>2, <2>3, <2>4, <2>5, <2>6, <2>7, <2>8 DEF Step
<1>. QED
  BY <1>0, <1>1, <1>2 DEF Next

LEMMA AccountedFinish ==
  ASSUME TypeOK, Accounted, NEW r \in Requests, pc[r] = "failed", kind[r] = "send", Finish(r)
  PROVE  charged'[r] <=> stored[r]
<1>1. charged[r] = TRUE /\ stored[r] \in BOOLEAN /\ charged \in [Requests -> BOOLEAN]
  BY DEF Accounted, TypeOK
<1>2. PICK m \in msgs : Last(m, msgs) /\ m.role = (IF stored[r] = TRUE THEN "assistant" ELSE "user")
  BY DEF Accounted
<1>3. \A n \in msgs : Last(n, msgs) => n = m
  <2>1. \A n \in msgs : n.id \in Nat
    BY DEF TypeOK, Message
  <2>2. ASSUME NEW n \in msgs, Last(n, msgs) PROVE n = m
    <3>1. n.id <= m.id /\ m.id <= n.id
      BY <1>2, <2>2 DEF Last
    <3>2. n.id = m.id
      BY <2>1, <3>1
    <3>. QED
      BY <3>2 DEF TypeOK
  <2>. QED
    BY <2>2
<1>4. CASE stored[r] = TRUE
  <2>1. ~Refundable(r)
    BY <1>2, <1>4 DEF Refundable, EndsWith
  <2>2. charged' = charged
    BY <2>1 DEF Finish
  <2>. QED
    BY <1>1, <1>4, <2>2
<1>5. CASE stored[r] = FALSE
  <2>1. Refundable(r)
    BY <1>2, <1>3, <1>5 DEF Refundable, EndsWith
  <2>2. charged' = [charged EXCEPT ![r] = FALSE]
    BY <2>1 DEF Finish
  <2>3. charged'[r] = FALSE
    BY <1>1, <2>2
  <2>. QED
    BY <1>5, <2>3
<1>. QED
  BY <1>1, <1>4, <1>5

(* A message that is sent and fails is refunded if and only if no part of its
   reply was stored (BilledIffDelivered), while requests follow one another,
   whatever was deleted before, and whoever is killed. *)
THEOREM BilledForReplies == Spec => BilledIffDelivered
<1>1. Init => Bookkeeping /\ (alone => Accounted)
  BY DEF Init, Bookkeeping, Accounted, Open
<1>2. TypeOK /\ Bookkeeping /\ (alone => Accounted) /\ [Next]_vars => (Bookkeeping /\ (alone => Accounted))'
  <2>1. [Next]_vars /\ alone' => alone
    BY DEF Next, vars
  <2>. QED
    BY <2>1, BookkeepingStep, AccountedStep
<1>3. TypeOK /\ (alone => Accounted) /\ [Next]_vars =>
        [\A r \in Requests :
           alone /\ pc[r] = "failed" /\ kind[r] = "send" /\ Finish(r) => (charged'[r] <=> stored[r])]_vars
  BY AccountedFinish
<1>. QED
  BY <1>1, <1>2, <1>3, TypeCorrect, PTL DEF Spec, BilledIffDelivered

-----------------------------------------------------------------------------
(* Questions and answers, however the requests overlap *)

\* Every reply answers a message of the user that was there before it.
RepliesHaveQuestions ==
  \A m \in Replies : m.answers < m.id /\ \E u \in FromUser : u.id = m.answers

\* What the user wrote goes only with the conversation.
QuestionsStay == gone' \/ FromUser \subseteq FromUser'
QuestionsAreKept == [][QuestionsStay]_vars

\* A request works for a message of the user, and what it would delete is not one.
Sourced ==
  /\ RepliesHaveQuestions
  /\ gone => msgs = {}
  /\ \A r \in Requests :
       /\ victim[r] < nextId
       /\ pc[r] \in {"deleting", "billing", "generating", "claiming"} =>
            target[r] < nextId /\ (gone \/ \E u \in FromUser : u.id = target[r])
       /\ \A u \in FromUser : pc[r] = "deleting" => u.id # victim[r]

LEMMA SourcedStep ==
  ASSUME TypeOK, Sourced, [Next]_vars
  PROVE  Sourced' /\ QuestionsStay
<1> USE DEF TypeOK, Goto
<1>a. ASSUME UNCHANGED <<msgs, nextId, gone>>,
             \A r \in Requests :
               /\ victim'[r] < nextId
               /\ pc'[r] \in {"deleting", "billing", "generating", "claiming"} =>
                    target'[r] < nextId /\ (gone \/ \E u \in FromUser : u.id = target'[r])
               /\ \A u \in FromUser : pc'[r] = "deleting" => u.id # victim'[r]
      PROVE  Sourced' /\ QuestionsStay
  BY <1>a DEF Sourced, RepliesHaveQuestions, Replies, FromUser, QuestionsStay
<1>b. ASSUME NEW r \in Requests, UNCHANGED <<msgs, nextId, gone, target, victim>>,
             \A q \in Requests \ {r} : pc'[q] = pc[q],
             \/ pc'[r] \notin {"deleting", "billing", "generating", "claiming"}
             \/ pc'[r] # "deleting" /\ pc[r] \in {"deleting", "billing", "generating", "claiming"}
      PROVE  Sourced' /\ QuestionsStay
  <2>1. \A q \in Requests :
          /\ pc'[q] \in {"deleting", "billing", "generating", "claiming"} =>
               pc[q] \in {"deleting", "billing", "generating", "claiming"}
          /\ pc'[q] = "deleting" => pc[q] = "deleting"
    BY <1>b
  <2>. QED
    BY <1>a, <1>b, <2>1 DEF Sourced
<1>c. ASSUME NEW role \in {"user", "assistant"}, NEW answers \in Nat, AddMessage(role, answers)
      PROVE  /\ nextId' = nextId + 1 /\ ~gone
             /\ \A u \in FromUser : u.id < nextId /\ u.id \in Nat /\ u \in FromUser'
             /\ role = "user" => /\ Replies' = Replies
                                 /\ \A u \in FromUser' : u \in FromUser \/ u.id = nextId
                                 /\ \E u \in FromUser' : u.id = nextId
             /\ role = "assistant" => /\ FromUser' = FromUser
                                      /\ \A m \in Replies' : m \in Replies \/ (m.id = nextId /\ m.answers = answers)
  <2> DEFINE m == [id |-> nextId, role |-> role, answers |-> answers]
  <2>1. m.id = nextId /\ m.role = role /\ m.answers = answers
    OBVIOUS
  <2>2. msgs' = msgs \cup {m} /\ nextId' = nextId + 1 /\ ~gone
    BY <1>c DEF AddMessage
  <2>. HIDE DEF m
  <2>. QED
    BY <2>1, <2>2 DEF FromUser, Replies, Message
<1>1. ASSUME NEW r \in Requests, Send(r), UNCHANGED gone PROVE Sourced' /\ QuestionsStay
  BY <1>1, <1>b DEF Send, Start
<1>2. ASSUME NEW r \in Requests, Post(r), UNCHANGED gone PROVE Sourced' /\ QuestionsStay
  <2>1. /\ AddMessage("user", 0) /\ victim' = victim
        /\ pc' = [pc EXCEPT ![r] = "generating"] /\ target' = [target EXCEPT ![r] = nextId]
    BY <1>2 DEF Post
  <2>2. /\ nextId' = nextId + 1 /\ ~gone /\ Replies' = Replies
        /\ \A u \in FromUser : u.id < nextId /\ u.id \in Nat /\ u \in FromUser'
        /\ \A u \in FromUser' : u \in FromUser \/ u.id = nextId
        /\ \E u \in FromUser' : u.id = nextId
    BY <1>c, <2>1
  <2>3. RepliesHaveQuestions'
    BY <2>2 DEF Sourced, RepliesHaveQuestions
  <2>4. \A q \in Requests \ {r} : pc'[q] = pc[q] /\ target'[q] = target[q]
    BY <2>1
  <2>5. pc'[r] = "generating" /\ target'[r] = nextId
    BY <2>1
  <2>6. ASSUME NEW q \in Requests
        PROVE  /\ victim'[q] < nextId'
               /\ pc'[q] \in {"deleting", "billing", "generating", "claiming"} =>
                    target'[q] < nextId' /\ \E u \in FromUser' : u.id = target'[q]
               /\ \A u \in FromUser' : pc'[q] = "deleting" => u.id # victim'[q]
    BY <2>1, <2>2, <2>4, <2>5 DEF Sourced
  <2>. QED
    BY <1>2, <2>2, <2>3, <2>6 DEF Sourced, QuestionsStay
<1>3. ASSUME NEW r \in Requests, Retry(r), UNCHANGED gone PROVE Sourced' /\ QuestionsStay
  <2>1. PICK u \in FromUser : target' = [target EXCEPT ![r] = u.id]
    BY <1>3 DEF Retry
  <2>2. /\ UNCHANGED <<msgs, nextId, victim>> /\ pc' = [pc EXCEPT ![r] = "claiming"]
        /\ u.id < nextId
    BY <1>3, <2>1 DEF Retry, Start, FromUser
  <2>. QED
    BY <1>3, <1>a, <2>1, <2>2 DEF Sourced
<1>4. ASSUME NEW r \in Requests, Regenerate(r), UNCHANGED gone PROVE Sourced' /\ QuestionsStay
  <2>1. PICK a \in msgs \ FromUser, u \in FromUser :
          victim' = [victim EXCEPT ![r] = a.id] /\ target' = [target EXCEPT ![r] = u.id]
    BY <1>4 DEF Regenerate
  <2>2. /\ UNCHANGED <<msgs, nextId>> /\ pc' = [pc EXCEPT ![r] = "deleting"]
        /\ u.id < nextId /\ a.id < nextId
    BY <1>4, <2>1 DEF Regenerate, Start, FromUser
  <2>3. \A v \in FromUser : v.id # a.id
    BY <2>1 DEF FromUser
  <2>. QED
    BY <1>4, <1>a, <2>1, <2>2, <2>3 DEF Sourced
<1>5. ASSUME NEW r \in Requests, Delete(r), UNCHANGED gone PROVE Sourced' /\ QuestionsStay
  <2>1. /\ msgs' = {m \in msgs : m.id # victim[r]} /\ UNCHANGED <<nextId, target, victim>>
        /\ pc[r] = "deleting" /\ pc' = [pc EXCEPT ![r] = "billing"]
    BY <1>5 DEF Delete
  <2>2. FromUser' = FromUser /\ Replies' \subseteq Replies
    BY <2>1 DEF FromUser, Replies, Sourced
  <2>. QED
    BY <1>5, <2>1, <2>2 DEF Sourced, RepliesHaveQuestions, QuestionsStay
<1>6. ASSUME NEW r \in Requests, Reply(r), UNCHANGED gone PROVE Sourced' /\ QuestionsStay
  <2>1. /\ AddMessage("assistant", target[r]) /\ UNCHANGED <<target, victim>>
        /\ pc[r] = "generating" /\ pc' = [pc EXCEPT ![r] = "replied"] /\ target[r] \in Nat
    BY <1>6 DEF Reply
  <2>2. /\ nextId' = nextId + 1 /\ ~gone /\ FromUser' = FromUser
        /\ \A m \in Replies' : m \in Replies \/ (m.id = nextId /\ m.answers = target[r])
    BY <1>c, <2>1
  <2>3. target[r] < nextId /\ \E u \in FromUser : u.id = target[r]
    BY <2>1, <2>2 DEF Sourced
  <2>4. RepliesHaveQuestions'
    BY <2>2, <2>3 DEF Sourced, RepliesHaveQuestions
  <2>5. ASSUME NEW q \in Requests
        PROVE  /\ victim'[q] < nextId'
               /\ pc'[q] \in {"deleting", "billing", "generating", "claiming"} =>
                    target'[q] < nextId' /\ \E u \in FromUser' : u.id = target'[q]
               /\ \A u \in FromUser' : pc'[q] = "deleting" => u.id # victim'[q]
    BY <2>1, <2>2 DEF Sourced
  <2>. QED
    BY <1>6, <2>2, <2>4, <2>5 DEF Sourced, QuestionsStay
<1>7. ASSUME NEW r \in Requests, UNCHANGED gone,
             PostRefused(r) \/ ClaimRefused(r) \/ DeleteRefused(r) \/ Raise(r) \/ Finish(r) \/ Crash(r)
      PROVE  Sourced' /\ QuestionsStay
  <2>1. /\ UNCHANGED <<msgs, nextId, target, victim>>
        /\ pc' = [pc EXCEPT ![r] = "idle"] \/ pc' = [pc EXCEPT ![r] = "failed"]
    BY <1>7 DEF PostRefused, ClaimRefused, DeleteRefused, Raise, Finish, Crash
  <2>. QED
    BY <1>7, <1>b, <2>1
<1>8. ASSUME NEW r \in Requests, Claim(r), UNCHANGED gone PROVE Sourced' /\ QuestionsStay
  BY <1>8, <1>b DEF Claim
<1>9. ASSUME NEW r \in Requests, Bill(r), UNCHANGED gone PROVE Sourced' /\ QuestionsStay
  BY <1>9, <1>b DEF Bill
<1>10. CASE Erase
  BY <1>10 DEF Erase, Sourced, RepliesHaveQuestions, Replies, FromUser, QuestionsStay
<1>11. CASE UNCHANGED vars
  BY <1>11, <1>a DEF vars, Sourced
<1>. QED
  BY <1>1, <1>2, <1>3, <1>4, <1>5, <1>6, <1>7, <1>8, <1>9, <1>10, <1>11 DEF Next, Step

LEMMA SourcedInit == Init => Sourced
BY DEF Init, Sourced, RepliesHaveQuestions, Replies, FromUser

\* Whatever tabs send, retry, regenerate or delete at once, and wherever they are
\* killed, a reply answers an earlier message of the user, which is still there
\* (stream_reply, retry_last, regenerate_last: a reply is stored after its message).
THEOREM RepliesAreSourced == Spec => []RepliesHaveQuestions
<1>1. Sourced => RepliesHaveQuestions
  BY DEF Sourced
<1>. QED
  BY <1>1, SourcedInit, SourcedStep, TypeCorrect, PTL DEF Spec

\* A regeneration never deletes a message of the user, whatever was posted since it read
\* the conversation: only the deletion of the conversation does (regenerate_last).
THEOREM QuestionsNeverGo == Spec => QuestionsAreKept
<1>1. TypeOK /\ Sourced /\ [Next]_vars => [QuestionsStay]_vars
  BY SourcedStep
<1>. QED
  BY <1>1, SourcedInit, SourcedStep, TypeCorrect, PTL DEF Spec, QuestionsAreKept

-----------------------------------------------------------------------------
(* What keeps a message from being retried *)

\* A retry has its claim on a message, a regeneration has deleted a reply, and is still
\* to answer.
Replacer(r) == kind[r] = "regenerate" /\ pc[r] \in {"billing", "generating"}
AtWork(r, id) == Replacer(r) \/ (Working(r, "retry") /\ target[r] = id)

\* The last message is the user's and claimed, so that no retry is let in, only while
\* a request works on its reply.
ClaimsAreWork ==
  \A u \in FromUser : Last(u, msgs) /\ u.id \in claims => \E r \in Requests : AtWork(r, u.id)

\* A retry goes without its reply and leaves its claim, as a killed worker does; a
\* regeneration goes without having stored a reply, for want of quota or of an answer.
Abandons(r) ==
  \/ Working(r, "retry") /\ pc'[r] = "idle" /\ target[r] \in claims' /\ ~EndsWith("assistant")
  \/ Replacer(r) /\ pc'[r] \in {"idle", "failed"}
NothingIsAbandoned == [][\A r \in Requests : ~Abandons(r)]_vars

\* A claim is followed by a later message or has somebody at work.
Superseded(id) == \E m \in msgs : m.id > id
Covered ==
  /\ \A r \in Requests : Working(r, "retry") => gone \/ \E u \in FromUser : u.id = target[r]
  /\ \A id \in claims : id < nextId /\ (gone \/ Superseded(id) \/ \E r \in Requests : AtWork(r, id))

\* A retry that ends behind an assistant's message has one after its own.
LEMMA EndsLater ==
  ASSUME TypeOK, NEW id, NEW u \in FromUser, u.id = id, EndsWith("assistant")
  PROVE  Superseded(id)
<1>1. PICK m \in msgs : Last(m, msgs) /\ m.role = "assistant"
  BY DEF EndsWith, Last
<1>2. u \in msgs /\ u.role = "user"
  BY DEF FromUser
<1>3. u.id <= m.id /\ u.id # m.id /\ u.id \in Nat /\ m.id \in Nat
  BY <1>1, <1>2 DEF Last, TypeOK, Message
<1>. QED
  BY <1>1, <1>3 DEF Superseded

LEMMA CoveredStep ==
  ASSUME TypeOK, Bookkeeping, Sourced, Covered, [Next]_vars,
         [\A r \in Requests : ~Abandons(r)]_vars
  PROVE  Covered'
<1> USE DEF TypeOK, Goto
<1>a. ASSUME UNCHANGED <<msgs, nextId, gone, claims>>,
             \A r \in Requests : Working(r, "retry")' => Working(r, "retry") /\ target'[r] = target[r],
             \A id \in claims, r \in Requests : AtWork(r, id) => AtWork(r, id)' \/ gone \/ Superseded(id)
      PROVE  Covered'
  BY <1>a DEF Covered, Superseded, FromUser
<1>b. ASSUME NEW r \in Requests, NEW role \in {"user", "assistant"}, NEW answers \in Nat,
             AddMessage(role, answers), UNCHANGED <<gone, claims, kind>>,
             \A q \in Requests \ {r} : pc'[q] = pc[q] /\ target'[q] = target[q],
             Working(r, "retry")' => Working(r, "retry") /\ target'[r] = target[r]
      PROVE  Covered'
  <2> DEFINE m == [id |-> nextId, role |-> role, answers |-> answers]
  <2>1. m \in msgs' /\ msgs \subseteq msgs' /\ m.id = nextId /\ nextId' = nextId + 1
    BY <1>b DEF AddMessage
  <2>. HIDE DEF m
  <2>2. \A id \in claims' : id < nextId' /\ Superseded(id)'
    <3> SUFFICES ASSUME NEW id \in claims PROVE id < nextId' /\ Superseded(id)'
      BY <1>b
    <3>1. id < nextId /\ id \in Nat
      BY DEF Covered
    <3>2. id < nextId' /\ id < m.id
      BY <2>1, <3>1
    <3>. QED
      BY <2>1, <3>2 DEF Superseded
  <2>3. \A q \in Requests : Working(q, "retry")' => Working(q, "retry") /\ target'[q] = target[q]
    BY <1>b DEF Working
  <2>. QED
    BY <1>b, <2>1, <2>2, <2>3 DEF Covered, FromUser
<1>1. ASSUME NEW r \in Requests, Send(r) \/ Retry(r) \/ Regenerate(r), UNCHANGED gone PROVE Covered'
  <2>1. /\ pc[r] = "idle" /\ pc'[r] \in {"charged", "claiming", "deleting"}
        /\ \A q \in Requests \ {r} : pc'[q] = pc[q] /\ target'[q] = target[q] /\ kind'[q] = kind[q]
        /\ UNCHANGED <<msgs, nextId, claims>>
    BY <1>1 DEF Send, Retry, Regenerate, Start
  <2>. QED
    BY <1>1, <1>a, <2>1 DEF AtWork, Replacer, Working
<1>2. ASSUME NEW r \in Requests, Post(r), UNCHANGED gone PROVE Covered'
  <2>1. /\ AddMessage("user", 0) /\ UNCHANGED <<claims, kind>> /\ kind[r] = "send"
        /\ \A q \in Requests \ {r} : pc'[q] = pc[q] /\ target'[q] = target[q]
    BY <1>2 DEF Post, Bookkeeping
  <2>. QED
    BY <1>2, <1>b, <2>1 DEF Working
<1>3. ASSUME NEW r \in Requests, Reply(r), UNCHANGED gone PROVE Covered'
  <2>1. /\ AddMessage("assistant", target[r]) /\ UNCHANGED <<claims, kind, target>>
        /\ \A q \in Requests \ {r} : pc'[q] = pc[q] /\ target'[q] = target[q]
        /\ pc[r] = "generating" /\ target[r] \in Nat
    BY <1>3 DEF Reply
  <2>. QED
    BY <1>3, <1>b, <2>1 DEF Working
<1>4. ASSUME NEW r \in Requests, PostRefused(r) \/ ClaimRefused(r) \/ DeleteRefused(r), UNCHANGED gone
      PROVE  Covered'
  <2>1. /\ pc[r] \in {"charged", "claiming", "deleting"} /\ pc'[r] = "idle"
        /\ \A q \in Requests \ {r} : pc'[q] = pc[q]
        /\ UNCHANGED <<msgs, nextId, claims, kind, target>>
    BY <1>4 DEF PostRefused, ClaimRefused, DeleteRefused
  <2>. QED
    BY <1>4, <1>a, <2>1 DEF AtWork, Replacer, Working
<1>5. ASSUME NEW r \in Requests, Claim(r), UNCHANGED gone PROVE Covered'
  <2>1. /\ pc[r] = "claiming" /\ pc'[r] = "generating" /\ kind[r] = "retry"
        /\ claims' = claims \cup {target[r]}
        /\ \A q \in Requests \ {r} : pc'[q] = pc[q]
        /\ UNCHANGED <<msgs, nextId, kind, target>>
    BY <1>5 DEF Claim, Bookkeeping
  <2>2. target[r] < nextId /\ (gone \/ \E u \in FromUser : u.id = target[r])
    BY <2>1 DEF Sourced
  <2>3. AtWork(r, target[r])'
    BY <2>1 DEF AtWork, Working
  <2>4. \A q \in Requests, id \in claims : AtWork(q, id) => AtWork(q, id)'
    BY <2>1 DEF AtWork, Replacer, Working
  <2>5. \A id \in claims' :
          id < nextId' /\ (gone' \/ Superseded(id)' \/ \E q \in Requests : AtWork(q, id)')
    <3>1. ASSUME NEW id \in claims
          PROVE  id < nextId' /\ (gone' \/ Superseded(id)' \/ \E q \in Requests : AtWork(q, id)')
      BY <1>5, <2>1, <2>4 DEF Covered, Superseded
    <3>2. AtWork(r, target[r])' /\ target[r] < nextId'
      BY <2>1, <2>2, <2>3
    <3>. QED
      BY <2>1, <3>1, <3>2
  <2>6. \A q \in Requests : Working(q, "retry")' => gone' \/ \E u \in FromUser' : u.id = target'[q]
    BY <1>5, <2>1, <2>2 DEF Covered, Working, FromUser
  <2>. QED
    BY <2>5, <2>6 DEF Covered
<1>6. ASSUME NEW r \in Requests, Delete(r), UNCHANGED gone PROVE Covered'
  <2>1. /\ pc[r] = "deleting" /\ pc'[r] = "billing" /\ kind[r] = "regenerate"
        /\ \A q \in Requests \ {r} : pc'[q] = pc[q]
        /\ UNCHANGED <<nextId, kind, target, claims>>
    BY <1>6 DEF Delete, Bookkeeping
  <2>2. \A id : AtWork(r, id)'
    BY <2>1 DEF AtWork, Replacer
  <2>3. FromUser' = FromUser
    BY <1>6, <2>1 DEF Delete, FromUser, Sourced
  <2>. QED
    BY <1>6, <2>1, <2>2, <2>3 DEF Covered, Working
<1>7. ASSUME NEW r \in Requests, Bill(r), UNCHANGED gone PROVE Covered'
  <2>1. /\ pc[r] = "billing" /\ kind[r] = "regenerate" /\ pc'[r] \in {"generating", "idle"}
        /\ \A q \in Requests \ {r} : pc'[q] = pc[q]
        /\ UNCHANGED <<msgs, nextId, kind, target, claims>>
    BY <1>7 DEF Bill, Bookkeeping
  <2>2. pc'[r] = "generating"
    <3>1. pc' # pc
      BY <2>1
    <3>2. Replacer(r)
      BY <2>1 DEF Replacer
    <3>. QED
      BY <2>1, <3>1, <3>2 DEF Abandons, vars
  <2>. QED
    BY <1>7, <1>a, <2>1, <2>2 DEF AtWork, Replacer, Working
<1>8. ASSUME NEW r \in Requests, Raise(r), UNCHANGED gone PROVE Covered'
  <2>1. /\ pc[r] \in {"generating", "replied"} /\ pc'[r] = "failed"
        /\ \A q \in Requests \ {r} : pc'[q] = pc[q]
        /\ UNCHANGED <<msgs, nextId, kind, target, claims>>
    BY <1>8 DEF Raise
  <2>2. ~Replacer(r)
    BY <2>1 DEF Abandons, vars, Replacer
  <2>. QED
    BY <1>8, <1>a, <2>1, <2>2 DEF AtWork, Replacer, Working
<1>9. ASSUME NEW r \in Requests, Finish(r) \/ Crash(r), UNCHANGED gone PROVE Covered'
  <2>1. /\ pc[r] # "idle" /\ pc'[r] = "idle"
        /\ \A q \in Requests \ {r} : pc'[q] = pc[q]
        /\ UNCHANGED <<msgs, nextId, kind, target>>
        /\ claims' \subseteq claims
    BY <1>9 DEF Finish, Crash, Release
  <2>2. ~Abandons(r)
    BY <2>1 DEF vars
  <2>3. ~Replacer(r)
    BY <2>1, <2>2 DEF Abandons
  <2>4. ASSUME NEW id \in claims', ~gone, AtWork(r, id) PROVE Superseded(id)
    <3>1. Working(r, "retry") /\ target[r] = id
      BY <2>3, <2>4 DEF AtWork
    <3>2. EndsWith("assistant")
      BY <2>1, <2>2, <2>4, <3>1 DEF Abandons
    <3>3. PICK u \in FromUser : u.id = id
      BY <2>4, <3>1 DEF Covered
    <3>. QED
      BY <3>2, <3>3, EndsLater
  <2>5. \A q \in Requests \ {r}, id \in claims' : AtWork(q, id) => AtWork(q, id)'
    BY <2>1 DEF AtWork, Replacer, Working
  <2>6. \A id \in claims' : id < nextId' /\ (gone' \/ Superseded(id)' \/ \E q \in Requests : AtWork(q, id)')
    <3> SUFFICES ASSUME NEW id \in claims'
                 PROVE  id < nextId /\ (gone \/ Superseded(id) \/ \E q \in Requests : AtWork(q, id)')
      BY <1>9, <2>1 DEF Superseded
    <3>1. id < nextId /\ (gone \/ Superseded(id) \/ \E q \in Requests : AtWork(q, id))
      BY <2>1 DEF Covered
    <3>. QED
      BY <2>4, <2>5, <3>1
  <2>7. \A q \in Requests : Working(q, "retry")' => gone' \/ \E u \in FromUser' : u.id = target'[q]
    BY <1>9, <2>1 DEF Covered, Working, FromUser
  <2>. QED
    BY <2>6, <2>7 DEF Covered
<1>10. CASE Erase
  BY <1>10 DEF Erase, Covered
<1>11. CASE UNCHANGED vars
  BY <1>11, <1>a DEF vars, AtWork, Replacer, Working
<1>. QED
  BY <1>1, <1>2, <1>3, <1>4, <1>5, <1>6, <1>7, <1>8, <1>9, <1>10, <1>11 DEF Next, Step

\* A message that nobody answers can be retried: when the last message is the user's
\* and claimed, a request is at work on its reply, whatever tabs do at once. Two things
\* only leave a message claimed for good: a retry whose worker is killed, and a
\* regeneration that has deleted a reply and goes without another (retry_last,
\* regenerate_last).
THEOREM ClaimsEndWithTheirWork == Spec /\ NothingIsAbandoned => []ClaimsAreWork
<1>1. Init => Covered
  BY DEF Init, Covered, Working
<1>2. Init => Bookkeeping
  BY DEF Init, Bookkeeping
<1>3. TypeOK /\ Sourced /\ Covered => ClaimsAreWork
  <2> SUFFICES ASSUME TypeOK, Sourced, Covered, NEW u \in FromUser, Last(u, msgs), u.id \in claims
               PROVE  \E r \in Requests : AtWork(r, u.id)
    BY DEF ClaimsAreWork
  <2>1. ~gone
    BY DEF Sourced, FromUser
  <2>2. ~Superseded(u.id)
    BY DEF Superseded, Last, FromUser, TypeOK, Message
  <2>. QED
    BY <2>1, <2>2 DEF Covered
<1>4. TypeOK /\ Bookkeeping /\ [Next]_vars => Bookkeeping'
  BY BookkeepingStep
<1>5. TypeOK /\ Sourced /\ [Next]_vars => Sourced'
  BY SourcedStep
<1>6. TypeOK /\ Bookkeeping /\ Sourced /\ Covered /\ [Next]_vars
        /\ [\A r \in Requests : ~Abandons(r)]_vars => Covered'
  BY CoveredStep
<1>. QED
  BY <1>1, <1>2, <1>3, <1>4, <1>5, <1>6, SourcedInit, TypeCorrect, PTL DEF Spec, NothingIsAbandoned
===============================================================================
