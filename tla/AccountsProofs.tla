---------------------------- MODULE AccountsProofs ----------------------------
(***************************************************************************)
(* Proofs about Accounts, for any number of guests, answers, requests and  *)
(* operations on the consent: who gets in, what becomes of the links, what *)
(* of a guest is kept or forgotten, and, however the operations on the     *)
(* consent overlap or are killed, that what is recorded of it is borne out *)
(* by a parent's answer.                                                   *)
(***************************************************************************)
EXTENDS Accounts, FiniteSetTheorems, SequenceTheorems, TLAPS

-----------------------------------------------------------------------------
(* Types *)

\* A request that works on a guest names one, and what it does after a purge is
\* never a step on a guest; a registration that has given never enters as a guest.
OnGuest == {"greet", "unlink", "delete", "read", "write", "take", "give"}
Sound ==
  {q \in Request : /\ q.at \in OnGuest => q.who \in Guests
                   /\ q.then \in {"closed", "sweep", "account", "open"}
                   /\ q.at \in {"take", "give"} => q.then # "sweep"}

Typed == TypeOK /\ req \in [Requests -> Sound]

GuestsTyped == GuestsOK /\ req \in [Requests -> Sound]

\* Closed requests are sound.
LEMMA ClosedSound == Closed \in Sound
BY DEF Closed, Sound, Request, Places, OnGuest

\* Identify makes a sound request of the parameters its callers give it.
LEMMA IdentifySound ==
  ASSUME GuestsTyped, NEW r \in Requests, NEW request, NEW asNobody, NEW asAccount, NEW asGuest,
         request \in Sound,
         asNobody \in {"closed", "sweep", "account", "open"},
         asAccount \in Places \ OnGuest, asGuest \in Places \ {"take", "give"},
         Identify(r, request, asNobody, asAccount, asGuest)
  PROVE  req' \in [Requests -> Sound]
<1>1. Known \in Guests \cup {Account, Nobody} /\ (Known \in idle => Known \in Guests)
  BY DEF Known, GuestsTyped, GuestsOK
<1>2. Known \notin {Nobody, Account} => Known \in Guests
  BY <1>1
<1> DEFINE found == [request EXCEPT !.who = Known,
                       !.at = IF Known = Nobody THEN asNobody ELSE IF Known = Account THEN asAccount ELSE asGuest]
           expired == [request EXCEPT !.who = Known, !.at = "unlink", !.then = asNobody]
<1>3. found \in Sound
  <2> DEFINE at == IF Known = Nobody THEN asNobody ELSE IF Known = Account THEN asAccount ELSE asGuest
  <2>1. at \in Places \ {"take", "give"} /\ (at \in OnGuest => Known \in Guests)
    BY <1>2 DEF Places, OnGuest
  <2>2. Known \in Owners \cup {Nobody}
    BY <1>1 DEF Owners
  <2>3. found = [request EXCEPT !.who = Known, !.at = at]
    OBVIOUS
  <2>. HIDE DEF at, found
  <2>. QED
    BY <2>1, <2>2, <2>3 DEF Sound, Request
<1>4. Known \in idle => expired \in Sound
  BY <1>1 DEF Sound, Request, Places, OnGuest, Owners
<1>5. req' = [req EXCEPT ![r] = IF Known \in idle THEN expired ELSE found]
  BY DEF Identify
<1>. HIDE DEF found, expired
<1>. QED
  BY <1>3, <1>4, <1>5 DEF GuestsTyped

\* The steps on guests keep the types.
LEMMA GuestsTypes ==
  ASSUME GuestsTyped, mixed' \in BOOLEAN, GuestsNext
  PROVE  GuestsTyped'
<1> USE GuestsAssumption DEF GuestsTyped, GuestsOK, Owners
<1>0. ASSUME NEW r \in Requests, NEW q \in Sound, req' = [req EXCEPT ![r] = q]
      PROVE  req' \in [Requests -> Sound] /\ req' \in [Requests -> Request]
  BY <1>0 DEF Sound
<1>1. ASSUME NEW g \in Guests, Idle(g) PROVE GuestsTyped'
  BY <1>1 DEF Idle
<1>2. CASE Visit
  BY <1>2 DEF Visit, Expel
<1>3. ASSUME NEW r \in Requests, GuestStep(r) PROVE GuestsTyped'
  <2>0. req[r] \in Sound /\ req[r] \in Request
    BY DEF Sound
  <2>1. CASE Enter(r)
    BY <2>1, ClosedSound, IdentifySound DEF Enter, Places, OnGuest, Sound
  <2>2. CASE Sweep(r)
    <3>1. [req[r] EXCEPT !.at = "create"] \in Sound
      BY <2>0 DEF Sound, Request, Places, OnGuest
    <3>. QED
      BY <2>2, <3>1, <1>0 DEF Sweep, Expel
  <2>3. CASE Create(r)
    <3>1. PICK g \in Guests \ born :
             /\ born' = born \cup {g} /\ rows' = rows \cup {g}
             /\ req' = [req EXCEPT ![r].at = "greet", ![r].who = g]
      BY <2>3 DEF Create
    <3>2. [req[r] EXCEPT !.at = "greet", !.who = g] \in Sound
      BY <2>0 DEF Sound, Request, Places, OnGuest
    <3>3. req' = [req EXCEPT ![r] = [req[r] EXCEPT !.at = "greet", !.who = g]]
      BY <3>1, <2>0
    <3>. QED
      BY <2>3, <3>1, <3>2, <3>3, <1>0 DEF Create
  <2>4. CASE Greet(r)
    BY <2>4, <2>0, ClosedSound, <1>0 DEF Greet, Sound, OnGuest
  <2>5. CASE Land(r)
    BY <2>5, ClosedSound, IdentifySound DEF Land, Places, OnGuest, Sound
  <2>6. CASE Unlink(r)
    <3>1. [req[r] EXCEPT !.at = "delete"] \in Sound
      BY <2>0, <2>6 DEF Sound, Request, Places, OnGuest, Unlink
    <3>. QED
      BY <2>6, <3>1, <1>0 DEF Unlink
  <2>7. CASE Delete(r)
    <3> DEFINE next == [req[r] EXCEPT !.at = req[r].then, !.then = "closed", !.who = Nobody]
    <3>1. next \in Sound
      BY <2>0 DEF Sound, Request, Places, OnGuest
    <3>2. req' = [req EXCEPT ![r] = IF req[r].then = "closed" THEN Closed ELSE next]
      BY <2>7 DEF Delete
    <3>3. req' \in [Requests -> Sound] /\ req' \in [Requests -> Request]
      BY <3>1, <3>2, ClosedSound, <1>0
    <3>. QED
      BY <2>7, <3>3 DEF Delete
  <2>8. ASSUME NEW a \in Answers, Post(r, a) PROVE GuestsTyped'
    <3>1. local' \subseteq Answers
      BY <2>8 DEF Post
    <3>2. [Closed EXCEPT !.body = local'] \in Sound
      BY <3>1, ClosedSound DEF Sound, Request
    <3>3. req' \in [Requests -> Sound]
      BY <3>2, <2>8, IdentifySound DEF Post, Places, OnGuest
    <3>. QED
      BY <2>8, <3>1, <3>3 DEF Post, Sound
  <2>9. CASE Read(r)
    <3>1. [req[r] EXCEPT !.at = "write", !.data = files[req[r].who]] \in Sound
      BY <2>0, <2>9 DEF Sound, Request, Places, OnGuest, Read
    <3>2. req' = [req EXCEPT ![r] = [req[r] EXCEPT !.at = "write", !.data = files[req[r].who]]]
      BY <2>9, <2>0 DEF Read
    <3>. QED
      BY <2>9, <3>1, <3>2, <1>0 DEF Read
  <2>10. CASE Write(r)
    <3>1. req[r].data \cup req[r].body \subseteq Answers
      BY <2>0 DEF Request
    <3>. QED
      BY <2>10, <3>1, ClosedSound, <1>0 DEF Write
  <2>11. CASE Take(r)
    <3>1. [req[r] EXCEPT !.at = "give", !.data = files[req[r].who]] \in Sound
      BY <2>0, <2>11 DEF Sound, Request, Places, OnGuest, Take
    <3>2. req' = [req EXCEPT ![r] = [req[r] EXCEPT !.at = "give", !.data = files[req[r].who]]]
      BY <2>11, <2>0 DEF Take
    <3>. QED
      BY <2>11, <3>1, <3>2, <1>0 DEF Take
  <2>12. CASE Give(r)
    <3>1. [req[r] EXCEPT !.at = "unlink"] \in Sound
      BY <2>0, <2>12 DEF Sound, Request, Places, OnGuest, Give
    <3>2. req[r].data \subseteq Answers
      BY <2>0 DEF Request
    <3>. QED
      BY <2>12, <3>1, <3>2, <1>0 DEF Give
  <2>13. CASE Kill(r)
    <3>1. req' \in [Requests -> Sound] /\ req' \in [Requests -> Request]
      BY <2>13, ClosedSound, <1>0 DEF Kill
    <3>2. cut' \in Nat
      BY <2>13 DEF Kill
    <3>. QED
      BY <2>13, <3>1, <3>2 DEF Kill
  <2>. QED
    BY <1>3, <2>1, <2>2, <2>3, <2>4, <2>5, <2>6, <2>7, <2>8, <2>9, <2>10, <2>11, <2>12, <2>13 DEF GuestStep
<1>. QED
  BY <1>1, <1>2, <1>3 DEF GuestsNext

\* The steps on the consent keep the types.
LEMMA ConsentTypes ==
  ASSUME ConsentOK, crossed' \in BOOLEAN, ConsentNext
  PROVE  ConsentOK'
<1> DEFINE Marks == {"pending", "superseded"} \cup Decisions
<1>0. links \in Seq(Marks)
  BY DEF ConsentOK
<1> HIDE DEF Marks
<1> USE <1>0 DEF ConsentOK, Clerk, Off, Decisions, Statuses, Pending
<1>1. PICK c \in Clerks : ConsentStep(c)
  BY DEF ConsentNext
<1>2. CASE Resend(c)
  BY <1>2 DEF Resend
<1>3. CASE Supersede(c)
  <2>1. links \in [1 .. Len(links) -> Marks] /\ Len(links) \in Nat /\ DOMAIN links = 1 .. Len(links)
    BY LenProperties
  <2>2. links' \in [1 .. Len(links) -> Marks]
    BY <1>3, <2>1 DEF Supersede, Marks
  <2>3. links' \in Seq(Marks) /\ DOMAIN links' = DOMAIN links
    BY <2>1, <2>2
  <2>. QED
    BY <1>3, <2>3 DEF Supersede, Marks
<1>4. CASE Issue(c)
  BY <1>4 DEF Issue, NewLink
<1>5. ASSUME NEW n \in DOMAIN links, NEW decision \in Decisions, Follow(c, n, decision) PROVE ConsentOK'
  BY <1>5 DEF Follow
<1>6. CASE Resolve(c)
  <2>1. DOMAIN links = 1 .. Len(links) /\ clerk[c].link \in DOMAIN links
    BY <1>6, LenProperties DEF Resolve
  <2>2. clerk[c].decision \in Marks
    BY DEF Marks
  <2>3. CASE Resolvable(clerk[c].link)
    <3>1. links' = [links EXCEPT ![clerk[c].link] = clerk[c].decision]
      BY <1>6, <2>3 DEF Resolve
    <3>2. links' \in Seq(Marks) /\ DOMAIN links' = DOMAIN links
      BY <3>1, <2>1, <2>2, ExceptSeq
    <3>3. clerk' = [clerk EXCEPT ![c].at = "settle"] /\ UNCHANGED <<status, proofs, broken>>
      BY <1>6, <2>3 DEF Resolve
    <3>4. clerk' \in [Clerks -> Clerk]
      BY <3>3
    <3>5. \A d \in Clerks : clerk'[d].at \in {"resolve", "settle", "prove"} => clerk'[d].link \in DOMAIN links'
      BY <3>2, <3>3, <2>1
    <3>. QED
      BY <3>2, <3>3, <3>4, <3>5 DEF Marks
  <2>4. CASE ~Resolvable(clerk[c].link)
    <3>1. clerk' = [clerk EXCEPT ![c] = Off] /\ UNCHANGED <<links, status, proofs, broken>>
      BY <1>6, <2>4 DEF Resolve
    <3>. QED
      BY <3>1, <1>0 DEF Marks
  <2>. QED
    BY <2>3, <2>4
<1>7. CASE Settle(c)
  BY <1>7 DEF Settle, Verdict
<1>8. CASE Prove(c)
  BY <1>8 DEF Prove
<1>9. CASE Abort(c)
  BY <1>9 DEF Abort
<1>. QED
  BY <1>1, <1>2, <1>3, <1>4, <1>5, <1>6, <1>7, <1>8, <1>9 DEF ConsentStep

\* Registration and log-in keep the types.
LEMMA AccountTypes ==
  ASSUME Typed, mixed' \in BOOLEAN, UNCHANGED crossed \/ crossed' \in BOOLEAN, late' \subseteq Requests,
         NEW r \in Requests,
         \/ \E keep, minor \in BOOLEAN : Register(r, keep, minor)
         \/ Enrol(r) \/ Login(r) \/ Open(r)
  PROVE  Typed'
<1> USE GuestsAssumption DEF Typed, TypeOK, GuestsOK, Owners
<1>0. /\ req[r] \in Sound /\ req[r] \in Request
      /\ crossed' \in BOOLEAN
      /\ \A q \in Sound : req' = [req EXCEPT ![r] = q]
           => req' \in [Requests -> Sound] /\ req' \in [Requests -> Request]
      /\ \A f \in [Requests -> Sound] : f \in [Requests -> Request]
  BY DEF Sound, ConsentOK
<1>1. ASSUME NEW keep \in BOOLEAN, NEW minor \in BOOLEAN, Register(r, keep, minor) PROVE Typed'
  <2>1. [Closed EXCEPT !.keep = keep /\ ~minor, !.minor = minor] \in Sound
    BY ClosedSound DEF Sound, Request
  <2>2. req' \in [Requests -> Sound]
    BY <2>1, <1>1, IdentifySound DEF Register, Places, OnGuest, GuestsTyped
  <2>. QED
    BY <1>0, <1>1, <2>2 DEF Register, ConsentOK, consent
<1>2. CASE Enrol(r)
  <2> DEFINE at == IF req[r].who \notin Guests THEN "open" ELSE IF req[r].keep THEN "take" ELSE "unlink"
             next == [req[r] EXCEPT !.at = at, !.then = "open"]
  <2>1. next \in Sound
    <3>1. at \in Places /\ (at \in OnGuest => req[r].who \in Guests)
      BY DEF Places, OnGuest
    <3>. HIDE DEF at
    <3>2. next.at = at /\ next.then = "open" /\ next.who = req[r].who
      BY <1>0 DEF Request
    <3>3. next \in Request
      BY <1>0, <3>1 DEF Request, Places
    <3>. QED
      BY <3>1, <3>2, <3>3 DEF Sound
  <2>2. req' = [req EXCEPT ![r] = next] \/ req' = [req EXCEPT ![r] = Closed]
    BY <1>2 DEF Enrol
  <2>3. req' \in [Requests -> Sound] /\ req' \in [Requests -> Request]
    BY <2>1, <2>2, <1>0, ClosedSound
  <2>4. status' \in Statuses /\ child' \in BOOLEAN
    BY <1>0, <1>2 DEF Enrol, ConsentOK, Statuses, Pending, Request
  <2>. QED
    BY <1>0, <1>2, <2>3, <2>4 DEF Enrol, ConsentOK
<1>3. CASE Login(r)
  <2>1. [Closed EXCEPT !.at = "open"] \in Sound
    BY ClosedSound DEF Sound, Request, Places, OnGuest
  <2>. QED
    BY <1>0, <1>3, <2>1 DEF Login, ConsentOK, consent
<1>4. CASE Open(r)
  <2>1. req' \in [Requests -> Sound] /\ req' \in [Requests -> Request]
    BY <1>4, <1>0, ClosedSound DEF Open
  <2>2. CASE req[r].minor
    <3>1. links' = Append(links, "pending") /\ UNCHANGED <<cookie, local, owed>>
      BY <1>4, <2>2 DEF Open, NewLink
    <3>2. /\ links' \in Seq({"pending", "superseded"} \cup Decisions)
          /\ DOMAIN links \subseteq DOMAIN links'
      BY <3>1 DEF ConsentOK
    <3>. QED
      BY <1>0, <1>4, <2>1, <3>1, <3>2 DEF Open, ConsentOK
  <2>3. CASE ~req[r].minor
    BY <1>0, <1>4, <2>1, <2>3 DEF Open, ConsentOK
  <2>. QED
    BY <2>2, <2>3
<1>. QED
  BY <1>1, <1>2, <1>3, <1>4

LEMMA TypeStep ==
  ASSUME Typed, [Next]_vars
  PROVE  Typed'
<1>1. CASE UNCHANGED vars
  BY <1>1 DEF vars, guests, consent, Typed, TypeOK, GuestsOK, ConsentOK
<1>2. CASE Next
  <2>1. mixed' \in BOOLEAN /\ crossed' \in BOOLEAN /\ late' \subseteq Requests
    BY <1>2 DEF Next, Histories, OpenRequests, Typed, TypeOK, GuestsOK, ConsentOK
  <2>2. CASE GuestsNext /\ UNCHANGED <<consent, child>>
    <3>1. GuestsTyped'
      BY <2>1, <2>2, GuestsTypes DEF GuestsTyped, Typed, TypeOK
    <3>. QED
      BY <2>1, <2>2, <3>1 DEF consent, Typed, TypeOK, GuestsTyped, ConsentOK
  <2>3. CASE ConsentNext /\ UNCHANGED <<guests, child>>
    <3>1. ConsentOK'
      BY <2>1, <2>3, ConsentTypes DEF Typed, TypeOK
    <3>. QED
      BY <2>1, <2>3, <3>1 DEF guests, Typed, TypeOK, GuestsOK
  <2>4. ASSUME NEW r \in Requests,
               \/ \E keep, minor \in BOOLEAN : Register(r, keep, minor)
               \/ Enrol(r) \/ Login(r) \/ Open(r)
        PROVE  Typed'
    BY <2>1, <2>4, AccountTypes
  <2>5. CASE EndSession
    BY <2>1, <2>5 DEF EndSession, consent, Typed, TypeOK, GuestsOK, ConsentOK
  <2>. QED
    BY <1>2, <2>2, <2>3, <2>4, <2>5 DEF Next
<1>. QED
  BY <1>1, <1>2

LEMMA TypeInit == Init => Typed
<1> SUFFICES ASSUME Init PROVE Typed
  OBVIOUS
<1>1. req \in [Requests -> Sound] /\ req \in [Requests -> Request]
  BY ClosedSound DEF Init, GuestsInit, Sound
<1>2. GuestsOK
  BY <1>1 DEF Init, GuestsInit, GuestsOK, Owners
<1>3. ConsentOK
  <2>1. Off \in Clerk /\ Off.at = "off"
    BY DEF Off, Clerk, Decisions
  <2>2. links \in Seq({"pending", "superseded"} \cup Decisions) /\ proofs \in Seq(Decisions)
    BY DEF Init, ConsentInit
  <2>3. clerk \in [Clerks -> Clerk] /\ \A c \in Clerks : clerk[c].at = "off"
    BY <2>1 DEF Init, ConsentInit
  <2>. QED
    BY <2>2, <2>3 DEF Init, ConsentInit, ConsentOK, Statuses
<1>. QED
  BY <1>1, <1>2, <1>3 DEF Init, Typed, TypeOK

\* Every variable stays in its type, and every request that works on a guest
\* names one.
THEOREM TypeCorrect == Spec => []TypeOK
<1>1. Typed => TypeOK
  BY DEF Typed
<1>. QED
  BY <1>1, TypeInit, TypeStep, PTL DEF Spec

-----------------------------------------------------------------------------
(* Links *)

\* Links are never taken away, and one that is not pending never changes.
LinksKept ==
  \A n \in DOMAIN links : n \in DOMAIN links' /\ (links[n] # "pending" => links'[n] = links[n])

LEMMA LinksStep ==
  ASSUME Typed, [Next]_vars
  PROVE  LinksKept
<1> DEFINE Marks == {"pending", "superseded"} \cup Decisions
<1>0. links \in Seq(Marks) /\ DOMAIN links = 1 .. Len(links)
  BY LenProperties DEF Typed, TypeOK, ConsentOK
<1>. HIDE DEF Marks
<1>1. CASE links' = links
  BY <1>1 DEF LinksKept
<1>2. CASE links' = Append(links, "pending")
  BY <1>0, <1>2 DEF LinksKept
<1>3. ASSUME NEW c \in Clerks, ConsentStep(c) PROVE LinksKept
  <2>1. CASE Supersede(c)
    BY <1>0, <2>1 DEF Supersede, LinksKept
  <2>2. CASE Resolve(c)
    <3>1. CASE Resolvable(clerk[c].link)
      BY <1>0, <2>2, <3>1 DEF Resolve, Resolvable, LinksKept
    <3>2. CASE ~Resolvable(clerk[c].link)
      BY <1>1, <2>2, <3>2 DEF Resolve
    <3>. QED
      BY <3>1, <3>2
  <2>3. CASE Issue(c)
    BY <1>2, <2>3 DEF Issue, NewLink
  <2>4. CASE \/ Resend(c) \/ Settle(c) \/ Prove(c) \/ Abort(c)
             \/ \E n \in DOMAIN links, decision \in Decisions : Follow(c, n, decision)
    BY <1>1, <2>4 DEF Resend, Settle, Prove, Abort, Follow
  <2>. QED
    BY <1>3, <2>1, <2>2, <2>3, <2>4 DEF ConsentStep
<1>4. ASSUME NEW r \in Requests, Open(r) PROVE LinksKept
  BY <1>1, <1>2, <1>4 DEF Open, NewLink
<1>5. ASSUME NEW r \in Requests,
             (\E keep, minor \in BOOLEAN : Register(r, keep, minor)) \/ Enrol(r) \/ Login(r)
      PROVE  LinksKept
  BY <1>1, <1>5 DEF Register, Enrol, Login, consent
<1>6. CASE EndSession \/ UNCHANGED vars
  BY <1>1, <1>6 DEF EndSession, vars, consent
<1>. QED
  BY <1>1, <1>3, <1>4, <1>5, <1>6 DEF Next, ConsentNext, consent

\* A link that was used or superseded never changes again (LinksAreUsedOnce),
\* whatever the operations and the kills.
THEOREM LinksUsedOnce == Spec => LinksAreUsedOnce
<1>1. Typed /\ [Next]_vars =>
        [\A n \in DOMAIN links : links[n] # "pending" => n \in DOMAIN links' /\ links'[n] = links[n]]_vars
  BY LinksStep DEF LinksKept
<1>. QED
  BY <1>1, TypeInit, TypeStep, PTL DEF Spec, LinksAreUsedOnce

-----------------------------------------------------------------------------
(* Who gets in *)

Accepted == \E n \in DOMAIN links : links[n] = "accepted"

\* A request that may come to open a session or to send the first link.
Heading(q) == q.at \in {"open", "take", "give"} \/ q.then = "open"

\* The strengthening that makes AccessNeedsConsent inductive: nobody is on his way
\* in before there is an account; a child's account is active, and somebody on his
\* way into it, only once a parent has accepted.
Guarded ==
  /\ status = "none" => ~child /\ cookie # Account /\ \A r \in Requests : ~Heading(req[r])
  /\ child /\ status = "active" => Accepted
  /\ \A c \in Clerks : clerk[c].at = "settle" /\ clerk[c].decision = "accepted" => Accepted
  /\ child => \A r \in Requests : Heading(req[r]) => req[r].minor \/ Accepted
  /\ child /\ cookie = Account => Accepted

\* What a guest's step may do to the requests on their way in.
LEMMA HeadingStep ==
  ASSUME Typed, GuestsNext
  PROVE  /\ cookie' = Account => cookie = Account
         /\ \A q \in Requests : Heading(req'[q]) => Heading(req[q]) /\ req'[q].minor = req[q].minor
<1> USE DEF Typed, Heading
<1>0. \A q \in Requests : req[q] \in Request /\ req[q] \in Sound
  BY DEF Sound
<1>1. CASE Visit \/ \E g \in Guests : Idle(g)
  BY <1>1 DEF Visit, Idle
<1>2. ASSUME NEW r \in Requests, GuestStep(r)
      PROVE  /\ cookie' = Account => cookie = Account
             /\ \A q \in Requests : Heading(req'[q]) => Heading(req[q]) /\ req'[q].minor = req[q].minor
  <2>1. CASE Enter(r)
    BY <2>1 DEF Enter, Identify, Closed
  <2>2. CASE Sweep(r) \/ Create(r) \/ Unlink(r) \/ Read(r) \/ Take(r) \/ Give(r)
    BY <2>2, <1>0 DEF Sweep, Create, Unlink, Read, Take, Give, Request
  <2>3. CASE Greet(r)
    BY <2>3, <1>0, GuestsAssumption DEF Greet, Closed, Sound, OnGuest
  <2>4. CASE Land(r)
    BY <2>4 DEF Land, Identify, Closed
  <2>5. CASE Delete(r)
    <3> DEFINE next == [req[r] EXCEPT !.at = req[r].then, !.then = "closed", !.who = Nobody]
    <3>1. next.at = req[r].then /\ next.then = "closed" /\ next.minor = req[r].minor
      BY <1>0 DEF Request
    <3>2. Closed.at = "closed" /\ Closed.then = "closed"
      BY DEF Closed
    <3>3. req' = [req EXCEPT ![r] = IF req[r].then = "closed" THEN Closed ELSE next]
      BY <2>5 DEF Delete
    <3>4. cookie' = cookie \/ cookie' = Nobody
      BY <2>5 DEF Delete
    <3>5. req[r].then \in {"closed", "sweep", "account", "open"}
      BY <1>0 DEF Sound
    <3>. HIDE DEF next, Closed
    <3>6. ASSUME NEW q \in Requests, Heading(req'[q])
          PROVE  Heading(req[q]) /\ req'[q].minor = req[q].minor
      BY <3>1, <3>2, <3>3, <3>5, <3>6
    <3>. QED
      BY <3>4, <3>6, GuestsAssumption
  <2>6. ASSUME NEW a \in Answers, Post(r, a)
        PROVE  /\ cookie' = Account => cookie = Account
               /\ \A q \in Requests : Heading(req'[q]) => Heading(req[q]) /\ req'[q].minor = req[q].minor
    BY <2>6 DEF Post, Identify, Closed
  <2>7. CASE Write(r) \/ Kill(r)
    BY <2>7 DEF Write, Kill, Closed
  <2>. QED
    BY <1>2, <2>1, <2>2, <2>3, <2>4, <2>5, <2>6, <2>7 DEF GuestStep
<1>. QED
  BY <1>1, <1>2 DEF GuestsNext

LEMMA GuardedStep ==
  ASSUME Typed, Guarded, [Next]_vars
  PROVE  Guarded'
<1> USE DEF Guarded, Accepted
<1>0. /\ Accepted => Accepted'
      /\ \A q \in Requests : req[q] \in Request /\ req[q] \in Sound
      /\ status \in Statuses
      /\ Closed.at = "closed" /\ Closed.then = "closed"
  BY LinksStep DEF LinksKept, Typed, TypeOK, ConsentOK, Sound, Closed
<1>1. CASE UNCHANGED vars
  BY <1>1 DEF vars, guests, consent
<1>2. CASE GuestsNext /\ UNCHANGED <<consent, child>>
  BY <1>2, HeadingStep, <1>0 DEF consent
<1>3. ASSUME NEW c \in Clerks, ConsentStep(c), UNCHANGED <<guests, child>> PROVE Guarded'
  <2>0. UNCHANGED <<req, cookie, child>> /\ clerk \in [Clerks -> Clerk]
    BY <1>3 DEF guests, Typed, TypeOK, ConsentOK
  <2>1. CASE Resend(c)
    BY <2>0, <2>1, <1>0 DEF Resend
  <2>2. CASE Supersede(c)
    BY <2>0, <2>2, <1>0 DEF Supersede
  <2>3. CASE Issue(c)
    BY <2>0, <2>3, <1>0 DEF Issue, Off
  <2>4. ASSUME NEW n \in DOMAIN links, NEW d \in Decisions, Follow(c, n, d) PROVE Guarded'
    BY <2>0, <2>4, <1>0 DEF Follow
  <2>5. CASE Resolve(c)
    <3>1. CASE Resolvable(clerk[c].link)
      <4>1. /\ clerk' = [clerk EXCEPT ![c].at = "settle"] /\ status' = status
            /\ links' = [links EXCEPT ![clerk[c].link] = clerk[c].decision]
            /\ clerk[c].link \in DOMAIN links
        BY <2>5, <3>1 DEF Resolve, Typed, TypeOK, ConsentOK
      <4>2. clerk[c].decision = "accepted" => Accepted'
        BY <4>1
      <4>3. \A d \in Clerks : clerk'[d].decision = clerk[d].decision /\ (d # c => clerk'[d].at = clerk[d].at)
        BY <4>1, <2>0 DEF Clerk
      <4>4. \A d \in Clerks : clerk'[d].at = "settle" /\ clerk'[d].decision = "accepted" => Accepted'
        BY <4>2, <4>3, <1>0
      <4>. QED
        BY <2>0, <4>1, <4>4, <1>0
    <3>2. CASE ~Resolvable(clerk[c].link)
      BY <2>0, <2>5, <3>2, <1>0 DEF Resolve, Off
    <3>. QED
      BY <3>1, <3>2
  <2>6. CASE Settle(c)
    <3>1. clerk[c].decision \in Decisions
      BY <2>0 DEF Clerk
    <3>2. status' # "none" /\ (status' = "active" => Accepted')
      BY <2>6, <3>1, <1>0 DEF Settle, Verdict, Decisions
    <3>. QED
      BY <2>0, <2>6, <3>2, <1>0 DEF Settle
  <2>7. CASE Prove(c) \/ Abort(c)
    BY <2>0, <2>7, <1>0 DEF Prove, Abort, Off
  <2>. QED
    BY <1>3, <2>1, <2>2, <2>3, <2>4, <2>5, <2>6, <2>7 DEF ConsentStep
<1>4. ASSUME NEW r \in Requests, NEW keep \in BOOLEAN, NEW minor \in BOOLEAN, Register(r, keep, minor)
      PROVE  Guarded'
  <2>1. UNCHANGED <<status, links, clerk, child, cookie>>
    BY <1>4 DEF Register, consent
  <2>2. \A q \in Requests : ~Heading(req'[q])
    BY <1>4, <1>0 DEF Register, Identify, Heading, Closed
  <2>. QED
    BY <2>1, <2>2, <1>0
<1>5. ASSUME NEW r \in Requests, Enrol(r) PROVE Guarded'
  <2>1. UNCHANGED <<links, clerk, cookie>>
    BY <1>5 DEF Enrol
  <2>2. CASE status = "none"
    <3>1. child' = req[r].minor /\ status' = IF req[r].minor THEN Pending ELSE "active"
      BY <1>5, <2>2 DEF Enrol
    <3>2. \A q \in Requests : Heading(req'[q]) => q = r /\ req'[q].minor = req[r].minor
      <4> DEFINE at == IF req[r].who \notin Guests THEN "open" ELSE IF req[r].keep THEN "take" ELSE "unlink"
                 next == [req[r] EXCEPT !.at = at, !.then = "open"]
      <4>1. req' = [req EXCEPT ![r] = next]
        BY <1>5, <2>2 DEF Enrol
      <4>2. next.minor = req[r].minor
        BY <1>0 DEF Request
      <4>. HIDE DEF next
      <4>. QED
        BY <4>1, <4>2, <2>2 DEF Typed
    <3>3. req[r].minor \in BOOLEAN
      BY <1>0 DEF Request
    <3>. QED
      BY <2>1, <2>2, <3>1, <3>2, <3>3, <1>0 DEF Pending
  <2>3. CASE status # "none"
    <3>1. req' = [req EXCEPT ![r] = Closed] /\ UNCHANGED <<status, child>>
      BY <1>5, <2>3 DEF Enrol
    <3>2. \A q \in Requests : Heading(req'[q]) => Heading(req[q]) /\ req'[q] = req[q]
      BY <3>1, <1>0 DEF Heading, Typed
    <3>. QED
      BY <2>1, <2>3, <3>1, <3>2, <1>0
  <2>. QED
    BY <2>2, <2>3
<1>6. ASSUME NEW r \in Requests, Login(r) PROVE Guarded'
  BY <1>6, <1>0 DEF Login, MayEnter, Heading, consent
<1>7. ASSUME NEW r \in Requests, Open(r) PROVE Guarded'
  <2>1. UNCHANGED <<status, clerk, child>> /\ status # "none" /\ Heading(req[r])
    BY <1>7 DEF Open, Heading
  <2>2. \A q \in Requests : Heading(req'[q]) => Heading(req[q]) /\ req'[q].minor = req[q].minor
    BY <1>7, <1>0 DEF Open, Heading
  <2>3. child /\ cookie' = Account => Accepted'
    BY <1>7, <2>1, <1>0 DEF Open
  <2>. QED
    BY <2>1, <2>2, <2>3, <1>0
<1>8. CASE EndSession
  BY <1>8, <1>0, GuestsAssumption DEF EndSession, consent
<1>. QED
  BY <1>1, <1>2, <1>3, <1>4, <1>5, <1>6, <1>7, <1>8 DEF Next, ConsentNext

LEMMA GuardedInit == Init => Guarded
BY GuestsAssumption DEF Init, GuestsInit, ConsentInit, Guarded, Heading, Closed, Off

\* A child has a session only if a parent has accepted (AccessNeedsConsent),
\* whatever interleaves or is killed.
THEOREM ConsentFirst == Spec => []AccessNeedsConsent
<1>1. Guarded => AccessNeedsConsent
  BY DEF Guarded, Accepted, AccessNeedsConsent
<1>. QED
  BY <1>1, TypeInit, GuardedInit, TypeStep, GuardedStep, PTL DEF Spec

-----------------------------------------------------------------------------
(* One at a time *)

LEMMA TwoCount ==
  ASSUME NEW S, IsFiniteSet(S), NEW x \in S, NEW y \in S, x # y
  PROVE  Cardinality(S) > 1
<1>1. IsFiniteSet({x, y}) /\ Cardinality({x, y}) = 2
  <2>1. IsFiniteSet({x}) /\ Cardinality({x}) = 1
    BY FS_Singleton
  <2>2. {x, y} = {x} \cup {y} /\ y \notin {x}
    OBVIOUS
  <2>. QED
    BY <2>1, <2>2, FS_AddElement
<1>2. Cardinality({x, y}) <= Cardinality(S)
  BY FS_Subset
<1>3. Cardinality(S) \in Nat
  BY FS_CardinalityType
<1>. QED
  BY <1>1, <1>2, <1>3

\* What mixed and crossed remember: while they are false, one at a time is open.
OneRequest == \A q, r \in Requests : req[q].at # "closed" /\ req[r].at # "closed" => q = r
OneClerk == \A c, d \in Clerks : clerk[c].at # "off" /\ clerk[d].at # "off" => c = d
Solo == (~mixed => OneRequest) /\ (~crossed => OneClerk)

LEMMA SoloStep ==
  ASSUME Solo, [Next]_vars
  PROVE  Solo' /\ (mixed => mixed') /\ (crossed => crossed')
<1>1. CASE UNCHANGED vars
  BY <1>1 DEF vars, guests, consent, Solo, OneRequest, OneClerk
<1>2. CASE Next
  <2>1. mixed' = (mixed \/ Cardinality(OpenRequests') > 1) /\ crossed' = (crossed \/ Cardinality(BusyClerks') > 1)
    BY <1>2 DEF Next, Histories
  <2>2. IsFiniteSet(OpenRequests') /\ IsFiniteSet(BusyClerks')
    BY FS_Subset, RequestsAssumption, ConsentAssumption DEF OpenRequests, BusyClerks
  <2>3. ASSUME ~mixed', NEW q \in Requests, NEW r \in Requests, req'[q].at # "closed", req'[r].at # "closed"
        PROVE  q = r
    BY <2>1, <2>2, <2>3, TwoCount DEF OpenRequests
  <2>4. ASSUME ~crossed', NEW c \in Clerks, NEW d \in Clerks, clerk'[c].at # "off", clerk'[d].at # "off"
        PROVE  c = d
    BY <2>1, <2>2, <2>4, TwoCount DEF BusyClerks
  <2>. QED
    BY <2>1, <2>3, <2>4 DEF Solo, OneRequest, OneClerk
<1>. QED
  BY <1>1, <1>2

LEMMA SoloInit == Init => Solo
BY DEF Init, GuestsInit, ConsentInit, Closed, Off, Solo, OneRequest, OneClerk

\* The strengthening that makes OneLink inductive: the first link is sent once, and
\* whoever is about to send another one has left none pending.
NonePending == \A n \in DOMAIN links : links[n] # "pending"
Linked ==
  /\ status = "none" => Len(links) = 0
  /\ \A c \in Clerks : clerk[c].at \in {"supersede", "issue"} => Len(links) # 0
  /\ \A r \in Requests : Heading(req[r]) /\ req[r].minor =>
       Len(links) = 0 /\ \A q \in Requests : Heading(req[q]) /\ req[q].minor => q = r
  /\ ~crossed => /\ \A m, n \in DOMAIN links : links[m] = "pending" /\ links[n] = "pending" => m = n
                 /\ \A c \in Clerks : clerk[c].at = "issue" => NonePending

LEMMA LinkedStep ==
  ASSUME Typed, Guarded, Solo, Linked, [Next]_vars
  PROVE  Linked'
<1> USE DEF Linked, NonePending
<1> DEFINE Marks == {"pending", "superseded"} \cup Decisions
<1>0. /\ links \in Seq(Marks) /\ links' \in Seq(Marks)
      /\ DOMAIN links = 1 .. Len(links) /\ DOMAIN links' = 1 .. Len(links')
      /\ Len(links) \in Nat /\ Len(links') \in Nat
      /\ links # <<>> => Len(links) # 0
      /\ Len(links) # 0 => Len(links') # 0
      /\ clerk \in [Clerks -> Clerk] /\ req \in [Requests -> Request]
      /\ Closed.at = "closed" /\ Closed.then = "closed"
      /\ Off.at = "off"
      /\ crossed => crossed'
  <2>1. links \in Seq(Marks) /\ clerk \in [Clerks -> Clerk] /\ req \in [Requests -> Request]
    BY DEF Typed, TypeOK, ConsentOK, GuestsOK
  <2>2. links' \in Seq(Marks)
    BY TypeStep DEF Typed, TypeOK, ConsentOK
  <2>. HIDE DEF Marks
  <2>3. /\ DOMAIN links = 1 .. Len(links) /\ DOMAIN links' = 1 .. Len(links')
        /\ Len(links) \in Nat /\ Len(links') \in Nat
    BY <2>1, <2>2, LenProperties
  <2>4. links # <<>> => Len(links) # 0
    BY <2>1, EmptySeq
  <2>5. Len(links) # 0 => 1 \in DOMAIN links
    BY <2>3
  <2>6. Len(links) # 0 => Len(links') # 0
    BY <2>3, <2>5, LinksStep DEF LinksKept
  <2>. QED
    BY <2>1, <2>2, <2>3, <2>4, <2>6, SoloStep DEF Closed, Off
<1>. HIDE DEF Marks
<1>1. CASE UNCHANGED vars
  BY <1>1 DEF vars, guests, consent
<1>2. CASE GuestsNext /\ UNCHANGED <<consent, child>>
  BY <1>2, HeadingStep, <1>0 DEF consent
<1>3. ASSUME NEW c \in Clerks, ConsentStep(c), UNCHANGED <<guests, child>> PROVE Linked'
  <2>0. UNCHANGED req /\ (~crossed /\ clerk[c].at # "off" => \A d \in Clerks \ {c} : clerk[d].at = "off")
    BY <1>3 DEF guests, Solo, OneClerk
  <2>1. CASE Resend(c)
    BY <2>0, <2>1, <1>0 DEF Resend, Pending
  <2>2. CASE Supersede(c)
    <3>1. \A n \in DOMAIN links' : links'[n] # "pending"
      BY <2>2, <1>0 DEF Supersede
    <3>2. \A d \in Clerks : clerk'[d].at \in {"supersede", "issue"} => clerk[d].at \in {"supersede", "issue"}
      BY <2>2, <1>0 DEF Supersede
    <3>. QED
      BY <2>0, <2>2, <3>1, <3>2, <1>0 DEF Supersede
  <2>3. CASE Issue(c)
    <3>1. links' = Append(links, "pending") /\ clerk' = [clerk EXCEPT ![c] = Off] /\ UNCHANGED <<status, child>>
      BY <1>3, <2>3 DEF Issue, NewLink
    <3>2. ~crossed => NonePending /\ \A d \in Clerks : clerk'[d].at # "issue"
      BY <2>0, <2>3, <3>1, <1>0 DEF Issue
    <3>3. DOMAIN links' = 1 .. (Len(links) + 1) /\ \A n \in DOMAIN links : links'[n] = links[n]
      BY <3>1, <1>0
    <3>4. Len(links) # 0
      BY <2>3 DEF Issue
    <3>5. ~crossed => \A m, n \in DOMAIN links' : links'[m] = "pending" /\ links'[n] = "pending" => m = n
      BY <3>2, <3>3, <1>0
    <3>. QED
      BY <2>0, <2>3, <3>1, <3>2, <3>4, <3>5, <1>0 DEF Issue
  <2>4. ASSUME NEW n \in DOMAIN links, NEW d \in Decisions, Follow(c, n, d) PROVE Linked'
    BY <2>0, <2>4, <1>0 DEF Follow
  <2>5. CASE Resolve(c)
    <3>1. CASE Resolvable(clerk[c].link)
      <4>1. /\ clerk' = [clerk EXCEPT ![c].at = "settle"] /\ status' = status
            /\ links' = [links EXCEPT ![clerk[c].link] = clerk[c].decision]
            /\ clerk[c].decision \in Decisions
        BY <2>5, <3>1, <1>0 DEF Resolve, Clerk
      <4>2. DOMAIN links' = DOMAIN links /\ \A n \in DOMAIN links : links'[n] = "pending" => links[n] = "pending"
        BY <4>1, <1>0 DEF Decisions
      <4>3. \A d \in Clerks : clerk'[d].at \in {"supersede", "issue"} => clerk'[d].at = clerk[d].at
        BY <4>1, <1>0
      <4>. QED
        BY <2>0, <4>1, <4>2, <4>3, <1>0
    <3>2. CASE ~Resolvable(clerk[c].link)
      BY <2>0, <2>5, <3>2, <1>0 DEF Resolve
    <3>. QED
      BY <3>1, <3>2
  <2>6. CASE Settle(c)
    <3>1. status' # "none"
      BY <2>6, <1>0 DEF Settle, Verdict
    <3>. QED
      BY <2>0, <2>6, <3>1, <1>0 DEF Settle
  <2>7. CASE Prove(c) \/ Abort(c)
    BY <2>0, <2>7, <1>0 DEF Prove, Abort
  <2>. QED
    BY <1>3, <2>1, <2>2, <2>3, <2>4, <2>5, <2>6, <2>7 DEF ConsentStep
<1>4. ASSUME NEW r \in Requests, NEW keep \in BOOLEAN, NEW minor \in BOOLEAN, Register(r, keep, minor)
      PROVE  Linked'
  <2>1. UNCHANGED <<status, links, clerk>>
    BY <1>4 DEF Register, consent
  <2>2. \A q \in Requests : ~Heading(req'[q])
    BY <1>4, <1>0 DEF Register, Identify, Heading, Closed, Guarded
  <2>. QED
    BY <2>1, <2>2, <1>0
<1>5. ASSUME NEW r \in Requests, Enrol(r) PROVE Linked'
  <2>1. UNCHANGED <<links, clerk>>
    BY <1>5 DEF Enrol
  <2>2. CASE status = "none"
    <3> DEFINE at == IF req[r].who \notin Guests THEN "open" ELSE IF req[r].keep THEN "take" ELSE "unlink"
               next == [req[r] EXCEPT !.at = at, !.then = "open"]
    <3>1. req' = [req EXCEPT ![r] = next] /\ status' # "none"
      BY <1>5, <2>2 DEF Enrol, Pending
    <3>. HIDE DEF next
    <3>2. \A q \in Requests : Heading(req'[q]) => q = r
      BY <3>1, <2>2, <1>0 DEF Guarded
    <3>. QED
      BY <2>1, <2>2, <3>1, <3>2, <1>0
  <2>3. CASE status # "none"
    <3>1. req' = [req EXCEPT ![r] = Closed] /\ UNCHANGED status
      BY <1>5, <2>3 DEF Enrol
    <3>2. \A q \in Requests : Heading(req'[q]) => Heading(req[q]) /\ req'[q] = req[q]
      BY <3>1, <1>0 DEF Heading
    <3>. QED
      BY <2>1, <2>3, <3>1, <3>2, <1>0
  <2>. QED
    BY <2>2, <2>3
<1>6. ASSUME NEW r \in Requests, Login(r) PROVE Linked'
  <2>1. \A q \in Requests : Heading(req'[q]) /\ req'[q].minor => Heading(req[q]) /\ req[q].minor
    BY <1>6, <1>0 DEF Login, Heading, Closed
  <2>. QED
    BY <1>6, <2>1, <1>0 DEF Login, consent
<1>7. ASSUME NEW r \in Requests, Open(r) PROVE Linked'
  <2>1. UNCHANGED <<status, clerk>> /\ status # "none" /\ Heading(req[r])
    BY <1>7 DEF Open, Heading, Guarded
  <2>2. \A q \in Requests : Heading(req'[q]) => q # r /\ Heading(req[q]) /\ req'[q].minor = req[q].minor
    BY <1>7, <1>0 DEF Open, Heading
  <2>3. CASE req[r].minor
    <3>1. links' = Append(links, "pending") /\ Len(links) = 0
      BY <1>7, <2>1, <2>3 DEF Open, NewLink
    <3>2. DOMAIN links' = {1}
      BY <3>1, <1>0
    <3>3. \A c \in Clerks : clerk'[c].at # "issue"
      BY <2>1, <3>1
    <3>. QED
      BY <2>1, <2>2, <2>3, <3>2, <3>3, <1>0
  <2>4. CASE ~req[r].minor
    BY <1>7, <2>1, <2>2, <2>4, <1>0 DEF Open
  <2>. QED
    BY <2>3, <2>4
<1>8. CASE EndSession
  BY <1>8, <1>0 DEF EndSession, consent
<1>. QED
  BY <1>1, <1>2, <1>3, <1>4, <1>5, <1>6, <1>7, <1>8 DEF Next, ConsentNext

\* One link is valid at a time (OneLink), unless two operations have run together.
THEOREM OneValidLink == Spec => []OneLink
<1>1. Init => Linked
  BY DEF Init, GuestsInit, ConsentInit, Linked, Heading, Closed, Off
<1>2. Linked => OneLink
  BY DEF Linked, OneLink
<1>. QED
  BY <1>1, <1>2, GuardedInit, TypeInit, TypeStep, SoloInit, SoloStep, GuardedStep, LinkedStep, PTL DEF Spec

-----------------------------------------------------------------------------
(* What is kept of a guest, and what is not *)

\* All that is owed has reached the account.
Settled == owed \subseteq files[Account]

Fine(q) ==
  /\ q.at \in {"read", "write"} => q.who \in rows \ idle
  /\ q.at \in {"write", "give"} => q.data = files[q.who]
  /\ q.at \in {"unlink", "delete"} => Settled
  /\ q.at = "delete" => files[q.who] = {}
  /\ q.at = "open" /\ q.keep => Settled
  /\ q.at = "account" /\ (~q.keep \/ q.who \notin Guests) => Settled
  /\ q.at \in {"account", "take", "give"} /\ q.who \in Guests => q.who = cookie \/ Settled
  /\ q.at \in {"take", "give"} => files[Account] = {}

\* The strengthening behind NothingOwedIsLost and FilesHaveOwners: a guest is
\* purged only once nothing is owed to him but what his account has, and his row
\* goes only once his file is gone.
Safe ==
  /\ \A a \in owed : a \in files[Account] \/ (cookie \in Guests /\ a \in files[cookie])
  /\ cookie \notin rows \ idle => Settled
  /\ status = "none" => files[Account] = {}
  /\ \A r \in Requests : Fine(req[r])
  /\ ~swept => \A g \in Guests \ rows : files[g] = {}

\* A step of one request finds and leaves the others closed, as long as one is open
\* at a time: it is the only one to look at.
LEMMA OnlyOne ==
  ASSUME OneRequest, OneRequest', NEW r \in Requests,
         \A s \in Requests \ {r} : req'[s] = req[s],
         req[r].at # "closed" \/ req'[r].at # "closed",
         Fine(req[r])'
  PROVE  \A s \in Requests : Fine(req[s])'
<1>1. \A s \in Requests \ {r} : req'[s].at = "closed"
  BY DEF OneRequest
<1>2. \A s \in Requests : req'[s].at = "closed" => Fine(req[s])'
  BY DEF Fine
<1>. QED
  BY <1>1, <1>2

\* What Identify makes of a request, and what it knows of the cookie.
LEMMA IdentifyMakes ==
  ASSUME Typed, Safe, NEW r \in Requests, NEW request \in Request,
         NEW asNobody, NEW asAccount, NEW asGuest,
         Identify(r, request, asNobody, asAccount, asGuest)
  PROVE  /\ req[r].at = "closed"
         /\ \E q : /\ req' = [req EXCEPT ![r] = q]
                   /\ q.who = Known /\ q.keep = request.keep /\ q.data = request.data
                   /\ Known \in idle => q.at = "unlink"
                   /\ Known \in Guests \ idle => q.at = asGuest
                   /\ Known = Account => q.at = asAccount
                   /\ Known = Nobody => q.at = asNobody
         /\ Known \in Guests \/ Known = Account \/ Known = Nobody
         /\ Known \in Guests => Known = cookie /\ Known \in rows
         /\ Known \notin Guests => Known \notin idle
         /\ Known \notin Guests \/ Known \in idle => Settled
<1> USE GuestsAssumption DEF Typed, TypeOK, GuestsOK, Owners, Safe
<1>1. /\ Known \in Guests \/ Known = Account \/ Known = Nobody
      /\ Known \in Guests => Known = cookie /\ Known \in rows
      /\ Known \notin Guests => cookie \notin rows /\ Known \notin idle
  BY DEF Known
<1>2. Known \notin Guests \/ Known \in idle => Settled
  BY <1>1
<1> DEFINE at == IF Known = Nobody THEN asNobody ELSE IF Known = Account THEN asAccount ELSE asGuest
           found == [request EXCEPT !.who = Known, !.at = at]
           expired == [request EXCEPT !.who = Known, !.at = "unlink", !.then = asNobody]
           q == IF Known \in idle THEN expired ELSE found
<1>3. req' = [req EXCEPT ![r] = q] /\ req[r].at = "closed"
  BY DEF Identify
<1>4. found.who = Known /\ found.keep = request.keep /\ found.data = request.data /\ found.at = at
  BY DEF Request
<1>5. /\ expired.who = Known /\ expired.keep = request.keep /\ expired.data = request.data
      /\ expired.at = "unlink"
  BY DEF Request
<1>6. /\ Known \in Guests \ idle => at = asGuest
      /\ Known = Account => at = asAccount
      /\ Known = Nobody => at = asNobody
  <2>1. Account \notin Guests /\ Nobody \notin Guests /\ Account # Nobody
    OBVIOUS
  <2>. QED
    BY <2>1
<1>. HIDE DEF at, found, expired
<1>7. /\ q.who = Known /\ q.keep = request.keep /\ q.data = request.data
      /\ Known \in idle => q.at = "unlink"
      /\ Known \notin idle => q.at = at
  BY <1>4, <1>5
<1>. HIDE DEF q
<1>. QED
  BY <1>1, <1>2, <1>3, <1>6, <1>7

\* The steps on guests keep Safe.
LEMMA GuestsSafe ==
  ASSUME Typed, Typed', Guarded, OneRequest, OneRequest', Safe, UNCHANGED status, GuestsNext
  PROVE  Safe'
<1> USE GuestsAssumption DEF Owners
<1>0. /\ rows \subseteq Guests /\ idle \subseteq rows
      /\ files \in [Owners -> SUBSET Answers]
      /\ cookie \in Owners \cup {Nobody}
      /\ req \in [Requests -> Sound] /\ req \in [Requests -> Request]
      /\ req' \in [Requests -> Request]
      /\ Closed \in Request /\ Closed.at = "closed" /\ Closed.then = "closed" /\ Closed.keep = FALSE
  BY ClosedSound DEF Typed, TypeOK, GuestsOK, Closed, Sound
<1>1. ASSUME NEW g \in Guests, Idle(g) PROVE Safe'
  <2>1. /\ \A r \in Requests : req'[r].at = "closed"
        /\ idle' = idle \cup {g} /\ owed' = IF cookie = g THEN {} ELSE owed
        /\ UNCHANGED <<rows, files, cookie, swept>>
    BY <1>1 DEF Idle
  <2>2. \A r \in Requests : Fine(req[r])'
    BY <2>1 DEF Fine
  <2>. QED
    BY <2>1, <2>2 DEF Safe, Settled
<1>2. ASSUME Expel, UNCHANGED <<files, cookie, owed>> 
      PROVE  /\ Safe' <=> \A r \in Requests : Fine(req[r])'
             /\ rows' \ idle' = rows \ idle
  <2>1. rows' \ idle' = rows \ idle
    BY <1>2 DEF Expel
  <2>2. ~swept' => \A g \in Guests \ rows' : files[g] = {}
    BY <1>2, <1>0 DEF Expel, Safe
  <2>. QED
    BY <1>2, <2>1, <2>2 DEF Safe, Settled
<1>3. CASE Visit
  BY <1>2, <1>3 DEF Visit, Safe, Fine, Settled
<1>4. ASSUME NEW r \in Requests, GuestStep(r) PROVE Safe'
  <2>0. Fine(req[r]) /\ req[r] \in Sound /\ req[r] \in Request /\ files[Account] \subseteq Answers
    BY <1>0 DEF Safe
  <2>1. CASE Enter(r)
    <3>1. UNCHANGED <<rows, born, idle, files, cookie, local, owed, swept, cut>>
      BY <2>1 DEF Enter
    <3>2. PICK q : /\ req' = [req EXCEPT ![r] = q]
                   /\ q.at \in {"unlink", "sweep", "closed"}
                   /\ q.at = "unlink" => Settled
      BY <1>0, <2>1, IdentifyMakes DEF Enter
    <3>3. Fine(q)
      BY <3>2 DEF Fine
    <3>4. \A s \in Requests : Fine(req'[s])
      BY <3>2, <3>3, <1>0 DEF Safe
    <3>. QED
      BY <3>1, <3>4 DEF Safe, Settled, Fine
  <2>2. CASE Sweep(r)
    <3>1. req'[r].at = "create" /\ req[r].at = "sweep" /\ \A s \in Requests \ {r} : req'[s] = req[s]
      BY <2>2, <1>0 DEF Sweep
    <3>2. Fine(req[r])'
      BY <3>1 DEF Fine
    <3>. QED
      BY <3>1, <3>2, OnlyOne, <2>2, <1>2 DEF Sweep
  <2>3. CASE Create(r)
    <3>1. PICK g \in Guests \ born :
             /\ rows' = rows \cup {g}
             /\ req' = [req EXCEPT ![r].at = "greet", ![r].who = g]
             /\ req[r].at = "create"
             /\ UNCHANGED <<idle, files, cookie, local, owed, swept, cut>>
      BY <2>3 DEF Create
    <3>2. req'[r].at = "greet" /\ \A s \in Requests \ {r} : req'[s] = req[s]
      BY <3>1, <1>0 DEF Request
    <3>3. Fine(req[r])'
      BY <3>2 DEF Fine
    <3>4. \A s \in Requests : Fine(req[s])'
      BY <3>1, <3>2, <3>3, OnlyOne
    <3>. QED
      BY <3>1, <3>4 DEF Safe, Settled
  <2>4. CASE Greet(r)
    <3>1. /\ req'[r].at = "closed" /\ req[r].at # "closed" /\ owed' = {}
          /\ \A s \in Requests \ {r} : req'[s] = req[s]
          /\ UNCHANGED <<rows, files, swept>>
      BY <2>4, <1>0 DEF Greet
    <3>2. Fine(req[r])'
      BY <3>1 DEF Fine
    <3>3. \A s \in Requests : Fine(req[s])'
      BY <3>1, <3>2, OnlyOne
    <3>. QED
      BY <3>1, <3>3 DEF Safe, Settled
  <2>5. CASE Land(r)
    <3>1. owed' = {} /\ UNCHANGED <<rows, born, idle, files, cookie, local, swept, cut>>
      BY <2>5 DEF Land
    <3>2. PICK q : /\ req' = [req EXCEPT ![r] = q]
                   /\ q.at \in {"unlink", "closed"}
      BY <1>0, <2>5, IdentifyMakes DEF Land
    <3>3. \A s \in Requests : Fine(req[s])'
      BY <3>1, <3>2, <1>0 DEF Safe, Fine, Settled
    <3>. QED
      BY <3>1, <3>3 DEF Safe, Settled
  <2>6. CASE Unlink(r)
    <3>1. /\ req[r].at = "unlink" /\ req[r].who \in Guests
          /\ files' = [files EXCEPT ![req[r].who] = {}]
          /\ req' = [req EXCEPT ![r].at = "delete"]
          /\ UNCHANGED <<rows, idle, cookie, owed, swept>>
      BY <2>6, <2>0 DEF Unlink, Sound, OnGuest
    <3>2. /\ req'[r].at = "delete" /\ req'[r].who = req[r].who
          /\ \A s \in Requests \ {r} : req'[s] = req[s]
      BY <3>1, <1>0 DEF Request
    <3>3. /\ files'[req[r].who] = {} /\ files'[Account] = files[Account]
          /\ \A g \in Guests : files[g] = {} => files'[g] = {}
      BY <3>1, <1>0
    <3>4. Settled'
      BY <3>1, <3>3, <2>0 DEF Fine, Settled
    <3>5. Fine(req[r])'
      BY <3>2, <3>3, <3>4 DEF Fine
    <3>6. \A s \in Requests : Fine(req[s])'
      BY <3>1, <3>2, <3>5, OnlyOne
    <3>. QED
      BY <3>1, <3>3, <3>4, <3>6 DEF Safe, Settled
  <2>7. CASE Delete(r)
    <3> DEFINE next == [req[r] EXCEPT !.at = req[r].then, !.then = "closed", !.who = Nobody]
    <3>1. /\ req[r].at = "delete" /\ req[r].who \in Guests
          /\ rows' = rows \ {req[r].who} /\ idle' = idle \ {req[r].who}
          /\ req' = [req EXCEPT ![r] = IF req[r].then = "closed" THEN Closed ELSE next]
          /\ UNCHANGED <<files, owed, swept>>
      BY <2>7, <2>0 DEF Delete, Sound, OnGuest
    <3>2. next.at = req[r].then /\ next.who = Nobody
      BY <2>0 DEF Request
    <3>. HIDE DEF next
    <3>3. /\ req'[r].at \in {"closed", "sweep", "account", "open"}
          /\ req'[r].at # "closed" => req'[r].who = Nobody
          /\ \A s \in Requests \ {r} : req'[s] = req[s]
      BY <3>1, <3>2, <1>0, <2>0 DEF Sound
    <3>4. Settled' /\ files[req[r].who] = {}
      BY <3>1, <2>0 DEF Fine, Settled
    <3>5. Fine(req[r])'
      BY <3>3, <3>4 DEF Fine
    <3>6. \A s \in Requests : Fine(req[s])'
      BY <3>1, <3>3, <3>5, OnlyOne
    <3>. QED
      BY <3>1, <3>4, <3>6 DEF Safe, Settled
  <2>8. ASSUME NEW a \in Answers, Post(r, a) PROVE Safe'
    <3>1. UNCHANGED <<rows, born, idle, files, cookie, owed, swept, cut>> /\ local' \subseteq Answers
      BY <2>8 DEF Post, Typed, TypeOK, GuestsOK
    <3>2. [Closed EXCEPT !.body = local'] \in Request
      BY <3>1, <1>0 DEF Request
    <3>3. PICK q : /\ req' = [req EXCEPT ![r] = q]
                   /\ q.at \in {"unlink", "read", "closed"}
                   /\ q.at = "unlink" => Settled
                   /\ q.at = "read" => q.who \in rows \ idle
      BY <1>0, <2>8, <3>2, IdentifyMakes DEF Post
    <3>4. Fine(q)
      BY <3>3 DEF Fine
    <3>5. \A s \in Requests : Fine(req'[s])
      BY <3>3, <3>4, <1>0 DEF Safe
    <3>. QED
      BY <3>1, <3>5 DEF Safe, Settled, Fine
  <2>9. CASE Read(r)
    <3>1. /\ req[r].at = "read" /\ req[r].who \in Guests
          /\ req' = [req EXCEPT ![r].at = "write", ![r].data = files[req[r].who]]
          /\ UNCHANGED <<rows, idle, files, cookie, owed, swept>>
      BY <2>9, <2>0 DEF Read, Sound, OnGuest
    <3>2. /\ req'[r].at = "write" /\ req'[r].who = req[r].who /\ req'[r].data = files[req[r].who]
          /\ \A s \in Requests \ {r} : req'[s] = req[s]
      BY <3>1, <1>0 DEF Request
    <3>3. Fine(req[r])'
      BY <3>1, <3>2, <2>0 DEF Fine
    <3>4. \A s \in Requests : Fine(req[s])'
      BY <3>1, <3>2, <3>3, OnlyOne
    <3>. QED
      BY <3>1, <3>4 DEF Safe, Settled
  <2>10. CASE Write(r)
    <3>1. /\ req[r].at = "write" /\ req[r].who \in Guests
          /\ files' = [files EXCEPT ![req[r].who] = req[r].data \cup req[r].body]
          /\ owed' = IF cookie = req[r].who THEN owed \cup req[r].body ELSE owed
          /\ req' = [req EXCEPT ![r] = Closed]
          /\ UNCHANGED <<rows, idle, cookie, swept>>
      BY <2>10, <2>0 DEF Write, Sound, OnGuest
    <3>2. req'[r].at = "closed" /\ \A s \in Requests \ {r} : req'[s] = req[s]
      BY <3>1, <1>0
    <3>3. Fine(req[r])'
      BY <3>2 DEF Fine
    <3>4. \A s \in Requests : Fine(req[s])'
      BY <3>1, <3>2, <3>3, OnlyOne
    <3>5. req[r].who \in rows \ idle /\ req[r].data = files[req[r].who]
      BY <3>1, <2>0 DEF Fine
    <3>6. /\ files'[Account] = files[Account]
          /\ files'[req[r].who] = files[req[r].who] \cup req[r].body
          /\ \A g \in Guests \ {req[r].who} : files'[g] = files[g]
      BY <3>1, <3>5, <1>0
    <3>. QED
      BY <3>1, <3>4, <3>5, <3>6 DEF Safe, Settled
  <2>11. CASE Take(r)
    <3>1. /\ req[r].at = "take" /\ req[r].who \in Guests
          /\ req' = [req EXCEPT ![r].at = "give", ![r].data = files[req[r].who]]
          /\ UNCHANGED <<rows, idle, files, cookie, owed, swept>>
      BY <2>11, <2>0 DEF Take, Sound, OnGuest
    <3>2. /\ req'[r].at = "give" /\ req'[r].who = req[r].who /\ req'[r].data = files[req[r].who]
          /\ \A s \in Requests \ {r} : req'[s] = req[s]
      BY <3>1, <1>0 DEF Request
    <3>3. Fine(req[r])'
      BY <3>1, <3>2, <2>0 DEF Fine, Settled
    <3>4. \A s \in Requests : Fine(req[s])'
      BY <3>1, <3>2, <3>3, OnlyOne
    <3>. QED
      BY <3>1, <3>4 DEF Safe, Settled
  <2>12. CASE Give(r)
    <3>1. /\ req[r].at = "give" /\ req[r].who \in Guests
          /\ files' = [files EXCEPT ![Account] = req[r].data]
          /\ req' = [req EXCEPT ![r].at = "unlink"]
          /\ UNCHANGED <<rows, idle, cookie, owed, swept>>
      BY <2>12, <2>0 DEF Give, Sound, OnGuest
    <3>2. req'[r].at = "unlink" /\ \A s \in Requests \ {r} : req'[s] = req[s]
      BY <3>1, <1>0 DEF Request
    <3>3. /\ files'[Account] = files[req[r].who] /\ files[Account] = {}
          /\ \A g \in Guests : files'[g] = files[g]
      BY <3>1, <1>0, <2>0 DEF Fine
    <3>a. req[r].who = cookie \/ owed = {}
      BY <3>1, <3>3, <2>0 DEF Fine, Settled
    <3>4. Settled'
      BY <3>1, <3>3, <3>a DEF Safe, Settled
    <3>5. Fine(req[r])'
      BY <3>2, <3>4 DEF Fine
    <3>6. \A s \in Requests : Fine(req[s])'
      BY <3>1, <3>2, <3>5, OnlyOne
    <3>7. status # "none"
      BY <3>1 DEF Guarded, Heading
    <3>. QED
      BY <3>1, <3>3, <3>4, <3>6, <3>7 DEF Safe, Settled
  <2>13. CASE Kill(r)
    <3>1. /\ req[r].at # "closed" /\ req'[r].at = "closed"
          /\ \A s \in Requests \ {r} : req'[s] = req[s]
          /\ UNCHANGED <<rows, idle, files, cookie, owed, swept>>
      BY <2>13, <1>0 DEF Kill
    <3>2. Fine(req[r])'
      BY <3>1 DEF Fine
    <3>3. \A s \in Requests : Fine(req[s])'
      BY <3>1, <3>2, OnlyOne
    <3>. QED
      BY <3>1, <3>3 DEF Safe, Settled
  <2>. QED
    BY <1>4, <2>1, <2>2, <2>3, <2>4, <2>5, <2>6, <2>7, <2>8, <2>9, <2>10, <2>11, <2>12, <2>13 DEF GuestStep
<1>. QED
  BY <1>1, <1>3, <1>4 DEF GuestsNext

\* Registration and log-in keep Safe.
LEMMA AccountSafe ==
  ASSUME Typed, Typed', OneRequest, OneRequest', Safe, NEW r \in Requests,
         \/ \E keep, minor \in BOOLEAN : Register(r, keep, minor)
         \/ Enrol(r) \/ Login(r) \/ Open(r)
  PROVE  Safe'
<1> USE GuestsAssumption DEF Owners
<1>0. /\ rows \subseteq Guests
      /\ files \in [Owners -> SUBSET Answers]
      /\ cookie \in Owners \cup {Nobody}
      /\ req \in [Requests -> Request]
      /\ Closed \in Request /\ Closed.at = "closed" /\ Closed.keep = FALSE
      /\ Fine(req[r]) /\ req[r] \in Request
  BY ClosedSound DEF Typed, TypeOK, GuestsOK, Closed, Sound, Safe
<1>1. ASSUME NEW keep \in BOOLEAN, NEW minor \in BOOLEAN, Register(r, keep, minor) PROVE Safe'
  <2> DEFINE request == [Closed EXCEPT !.keep = keep /\ ~minor, !.minor = minor]
  <2>1. request \in Request /\ request.keep = (keep /\ ~minor)
    BY <1>0 DEF Request
  <2>2. Identify(r, request, "account", "account", "account")
    BY <1>1 DEF Register
  <2>3. /\ owed' = IF request.keep THEN owed ELSE {}
        /\ UNCHANGED <<rows, idle, files, cookie, swept, status>>
    BY <1>1, <2>1 DEF Register, consent
  <2>. HIDE DEF request
  <2>4. PICK q : /\ req' = [req EXCEPT ![r] = q]
                 /\ q.at \in {"unlink", "account"}
                 /\ q.at = "unlink" => Settled
                 /\ q.keep = request.keep
                 /\ q.who \notin Guests => Settled
                 /\ q.who \in Guests => q.who = cookie
    BY <2>1, <2>2, IdentifyMakes
  <2>5. Settled => Settled'
    BY <2>3 DEF Settled
  <2>6. ~request.keep => Settled'
    BY <2>3 DEF Settled
  <2>7. req'[r] = q /\ \A s \in Requests \ {r} : req'[s] = req[s]
    BY <1>0, <2>4
  <2>8. Fine(req[r])'
    BY <2>3, <2>4, <2>5, <2>6, <2>7 DEF Fine
  <2>9. \A s \in Requests : Fine(req[s])'
    BY <2>4, <2>7, <2>8, OnlyOne
  <2>. QED
    BY <2>3, <2>5, <2>9 DEF Safe, Settled
<1>2. CASE Enrol(r)
  <2> DEFINE at == IF req[r].who \notin Guests THEN "open" ELSE IF req[r].keep THEN "take" ELSE "unlink"
             next == [req[r] EXCEPT !.at = at, !.then = "open"]
  <2>1. /\ req[r].at = "account"
        /\ UNCHANGED <<rows, idle, files, cookie, owed, swept>>
    BY <1>2 DEF Enrol
  <2>2. CASE status = "none"
    <3>1. req' = [req EXCEPT ![r] = next] /\ status' # "none"
      BY <1>2, <2>2 DEF Enrol, Pending
    <3>2. next.at = at /\ next.who = req[r].who /\ next.keep = req[r].keep
      BY <1>0 DEF Request
    <3>. HIDE DEF next
    <3>3. req'[r] = next /\ \A s \in Requests \ {r} : req'[s] = req[s]
      BY <1>0, <3>1
    <3>4. files[Account] = {}
      BY <2>2 DEF Safe
    <3>5. Fine(req[r])'
      BY <1>0, <2>1, <3>2, <3>3, <3>4 DEF Fine, Settled
    <3>6. \A s \in Requests : Fine(req[s])'
      BY <2>1, <3>3, <3>5, OnlyOne
    <3>. QED
      BY <2>1, <3>1, <3>6 DEF Safe, Settled
  <2>3. CASE status # "none"
    <3>1. /\ req'[r].at = "closed" /\ UNCHANGED status
          /\ \A s \in Requests \ {r} : req'[s] = req[s]
      BY <1>0, <1>2, <2>3 DEF Enrol
    <3>2. Fine(req[r])'
      BY <3>1 DEF Fine
    <3>3. \A s \in Requests : Fine(req[s])'
      BY <2>1, <3>1, <3>2, OnlyOne
    <3>. QED
      BY <2>1, <3>1, <3>3 DEF Safe, Settled
  <2>. QED
    BY <2>2, <2>3
<1>3. CASE Login(r)
  <2>1. /\ req' = [req EXCEPT ![r] = [Closed EXCEPT !.at = "open"]]
        /\ UNCHANGED <<rows, idle, files, cookie, owed, swept, status>>
    BY <1>3 DEF Login, consent
  <2>2. /\ req'[r].at = "open" /\ ~req'[r].keep
        /\ \A s \in Requests \ {r} : req'[s] = req[s]
    BY <1>0, <2>1 DEF Closed
  <2>3. Fine(req[r])'
    BY <2>2 DEF Fine
  <2>4. \A s \in Requests : Fine(req[s])'
    BY <2>2, <2>3, OnlyOne
  <2>. QED
    BY <2>1, <2>4 DEF Safe, Settled
<1>4. CASE Open(r)
  <2>1. /\ req[r].at = "open" /\ req'[r].at = "closed"
        /\ \A s \in Requests \ {r} : req'[s] = req[s]
        /\ UNCHANGED <<rows, idle, files, swept, status>>
    BY <1>0, <1>4 DEF Open
  <2>2. Fine(req[r])'
    BY <2>1 DEF Fine
  <2>3. \A s \in Requests : Fine(req[s])'
    BY <2>1, <2>2, OnlyOne
  <2>4. CASE req[r].minor
    BY <1>4, <2>1, <2>3, <2>4 DEF Open, Safe, Settled
  <2>5. CASE ~req[r].minor
    <3>1. cookie' = Account /\ owed' = IF req[r].keep THEN owed ELSE {}
      BY <1>4, <2>5 DEF Open
    <3>2. Settled'
      BY <1>0, <2>1, <3>1 DEF Fine, Settled
    <3>. QED
      BY <2>1, <2>3, <3>1, <3>2 DEF Safe, Settled
  <2>. QED
    BY <2>4, <2>5
<1>. QED
  BY <1>1, <1>2, <1>3, <1>4

\* Safe holds while requests follow one another.
LEMMA SafeStep ==
  ASSUME Typed, Guarded, Solo, ~mixed => Safe, [Next]_vars
  PROVE  ~mixed' => Safe'
<1> SUFFICES ASSUME ~mixed' PROVE Safe'
  OBVIOUS
<1>0. Safe /\ OneRequest /\ OneRequest' /\ Typed'
  BY SoloStep, TypeStep DEF Solo
<1>1. CASE UNCHANGED vars
  BY <1>0, <1>1 DEF vars, guests, consent, Safe, Fine, Settled
<1>2. CASE GuestsNext /\ UNCHANGED <<consent, child>>
  BY <1>0, <1>2, GuestsSafe DEF consent
<1>3. ASSUME NEW c \in Clerks, ConsentStep(c), UNCHANGED <<guests, child>> PROVE Safe'
  <2>1. status' = "none" => status = "none"
    BY <1>3 DEF ConsentStep, Resend, Supersede, Issue, Follow, Resolve, Settle, Verdict, Prove, Abort
  <2>. QED
    BY <1>0, <1>3, <2>1 DEF guests, Safe, Fine, Settled
<1>4. ASSUME NEW r \in Requests,
             \/ \E keep, minor \in BOOLEAN : Register(r, keep, minor)
             \/ Enrol(r) \/ Login(r) \/ Open(r)
      PROVE  Safe'
  BY <1>0, <1>4, AccountSafe
<1>5. CASE EndSession
  <2>1. /\ cookie' = Nobody /\ owed' = {}
        /\ UNCHANGED <<rows, idle, files, req, swept, status>>
    BY <1>5 DEF EndSession, consent
  <2>2. \A s \in Requests : Fine(req[s])'
    BY <1>0, <2>1 DEF Safe, Fine, Settled
  <2>. QED
    BY <1>0, <2>1, <2>2 DEF Safe, Settled
<1>. QED
  BY <1>1, <1>2, <1>3, <1>4, <1>5 DEF Next, ConsentNext

LEMMA SafeInit == Init => Safe
BY GuestsAssumption DEF Init, GuestsInit, ConsentInit, Owners, Closed, Safe, Fine, Settled

LEMMA AlwaysSafe == Spec => [](~mixed => Safe)
<1>. QED
  BY TypeInit, TypeStep, GuardedInit, GuardedStep, SoloInit, SoloStep, SafeInit, SafeStep, PTL DEF Spec

\* Answers owed to the visitor are in his file or in his account's
\* (NothingOwedIsLost), whatever the number of guests and wherever a request is
\* killed, as long as requests follow one another.
THEOREM OwedAnswersAreKept == Spec => []NothingOwedIsLost
<1>1. (~mixed => Safe) => NothingOwedIsLost
  BY DEF Safe, NothingOwedIsLost
<1>. QED
  BY <1>1, AlwaysSafe, PTL

\* Nobody's file outlives him (FilesHaveOwners), as long as requests follow one
\* another and no expired guest with a file is swept.
THEOREM FilesGoFirst == Spec => []FilesHaveOwners
<1>1. (~mixed => Safe) => FilesHaveOwners
  BY DEF Safe, FilesHaveOwners
<1>. QED
  BY <1>1, AlwaysSafe, PTL

-----------------------------------------------------------------------------
(* The decision of the parent *)

Undecided == /\ \A n \in DOMAIN links : links[n] \notin Decisions
             /\ status = Pending /\ proofs = <<>>

\* d is the only answer there is, and no link is left to give another.
Only(d) == Decided(d) /\ \A n \in DOMAIN links : links[n] \in {d, "superseded"}

AtRest == Undecided \/ \E d \in Decisions : Only(d) /\ status = Verdict(d) /\ proofs = <<d>>

\* What an operation has done so far.
Doing(q) ==
  /\ q.at \in {"supersede", "issue", "resolve"} => Undecided
  /\ q.at = "settle" => Only(q.decision) /\ status = Pending /\ proofs = <<>>
  /\ q.at = "prove" => Only(q.decision) /\ status = Verdict(q.decision) /\ proofs = <<>>

\* The strengthening behind StatusIsDecided: a parent who has decided leaves no link
\* to decide again, and his operation is the only one until it has ended.
Whole == child /\ ~crossed /\ broken = 0
Told ==
  /\ status = "none" => proofs = <<>>
  /\ Whole => /\ (\A c \in Clerks : clerk[c].at = "off") => AtRest
              /\ \A c \in Clerks : Doing(clerk[c])

\* The operation that moves is the only one to look at.
LEMMA OnlyClerk ==
  ASSUME OneClerk, OneClerk', NEW c \in Clerks,
         \A d \in Clerks \ {c} : clerk'[d] = clerk[d],
         clerk[c].at # "off" \/ clerk'[c].at # "off",
         clerk'[c].at = "off" => AtRest',
         Doing(clerk[c])'
  PROVE  /\ (\A d \in Clerks : clerk'[d].at = "off") => AtRest'
         /\ \A d \in Clerks : Doing(clerk[d])'
<1>1. \A d \in Clerks \ {c} : clerk'[d].at = "off"
  BY DEF OneClerk
<1>2. \A d \in Clerks : clerk'[d].at = "off" => Doing(clerk[d])'
  BY DEF Doing
<1>. QED
  BY <1>1, <1>2

LEMMA ClerkTold ==
  ASSUME Typed, Typed', OneClerk, OneClerk', Linked, ~crossed, Told, Whole, broken' = 0,
         NEW c \in Clerks, ConsentStep(c)
  PROVE  /\ (\A d \in Clerks : clerk'[d].at = "off") => AtRest'
         /\ \A d \in Clerks : Doing(clerk[d])'
<1> DEFINE Marks == {"pending", "superseded"} \cup Decisions
<1>0. /\ links \in Seq(Marks) /\ links' \in Seq(Marks)
      /\ DOMAIN links = 1 .. Len(links) /\ DOMAIN links' = 1 .. Len(links')
      /\ Len(links) \in Nat
      /\ clerk \in [Clerks -> Clerk] /\ Off.at = "off"
      /\ clerk[c] \in Clerk /\ clerk[c].decision \in Decisions
      /\ Doing(clerk[c])
      /\ "pending" \notin Decisions /\ "superseded" \notin Decisions
  <2>1. links \in Seq(Marks) /\ links' \in Seq(Marks) /\ clerk \in [Clerks -> Clerk]
    BY DEF Typed, TypeOK, ConsentOK
  <2>. HIDE DEF Marks
  <2>. QED
    BY <2>1, LenProperties DEF Off, Clerk, Told, Decisions
<1>1. ASSUME clerk[c].at = "off", clerk'[c].at # "off", \A d \in Clerks \ {c} : clerk'[d] = clerk[d]
      PROVE  AtRest
  <2>1. \A d \in Clerks : clerk[d].at = "off"
    BY <1>1 DEF OneClerk
  <2>. QED
    BY <2>1 DEF Told
<1>2. CASE Resend(c)
  <2>1. /\ clerk[c].at = "off" /\ clerk'[c].at = "supersede" /\ status = Pending
        /\ \A d \in Clerks \ {c} : clerk'[d] = clerk[d]
        /\ UNCHANGED <<status, links, proofs>>
    BY <1>2, <1>0 DEF Resend
  <2>2. Undecided
    BY <2>1, <1>1 DEF AtRest, Verdict, Pending
  <2>3. Doing(clerk[c])'
    BY <2>1, <2>2 DEF Doing, Undecided
  <2>. QED
    BY <2>1, <2>3, OnlyClerk
<1>3. CASE Supersede(c)
  <2>1. /\ clerk[c].at = "supersede" /\ clerk'[c].at = "issue"
        /\ links' = [n \in DOMAIN links |-> IF links[n] = "pending" THEN "superseded" ELSE links[n]]
        /\ \A d \in Clerks \ {c} : clerk'[d] = clerk[d]
        /\ UNCHANGED <<status, proofs>>
    BY <1>3, <1>0 DEF Supersede
  <2>2. Undecided'
    BY <2>1, <1>0 DEF Doing, Undecided
  <2>3. Doing(clerk[c])'
    BY <2>1, <2>2 DEF Doing
  <2>. QED
    BY <2>1, <2>3, OnlyClerk
<1>4. CASE Issue(c)
  <2>1. /\ clerk[c].at = "issue" /\ clerk'[c].at = "off"
        /\ links' = Append(links, "pending")
        /\ \A d \in Clerks \ {c} : clerk'[d] = clerk[d]
        /\ UNCHANGED <<status, proofs>>
    BY <1>4, <1>0 DEF Issue, NewLink
  <2>2. \A n \in DOMAIN links' : (n \in DOMAIN links /\ links'[n] = links[n]) \/ links'[n] = "pending"
    BY <2>1, <1>0
  <2>3. Undecided'
    BY <2>1, <2>2, <1>0 DEF Doing, Undecided
  <2>4. AtRest' /\ Doing(clerk[c])'
    BY <2>1, <2>3 DEF Doing, AtRest
  <2>. QED
    BY <2>1, <2>4, OnlyClerk
<1>5. ASSUME NEW n \in DOMAIN links, NEW decision \in Decisions, Follow(c, n, decision)
      PROVE  /\ (\A d \in Clerks : clerk'[d].at = "off") => AtRest'
             /\ \A d \in Clerks : Doing(clerk[d])'
  <2>1. /\ clerk[c].at = "off" /\ clerk'[c].at = "resolve" /\ links[n] = "pending"
        /\ \A d \in Clerks \ {c} : clerk'[d] = clerk[d]
        /\ UNCHANGED <<status, links, proofs>>
    BY <1>5, <1>0 DEF Follow
  <2>2. Undecided
    BY <2>1, <1>1, <1>0 DEF AtRest, Only
  <2>3. Doing(clerk[c])'
    BY <2>1, <2>2 DEF Doing, Undecided
  <2>. QED
    BY <2>1, <2>3, OnlyClerk
<1>6. CASE Resolve(c)
  <2> DEFINE link == clerk[c].link
  <2>0. clerk[c].at = "resolve" /\ link \in DOMAIN links /\ Undecided
    <3>1. clerk[c].at = "resolve"
      BY <1>6 DEF Resolve
    <3>2. \A d \in Clerks : clerk[d].at \in {"resolve", "settle", "prove"} => clerk[d].link \in DOMAIN links
      BY DEF Typed, TypeOK, ConsentOK
    <3>. QED
      BY <3>1, <3>2, <1>0 DEF Doing
  <2>1. CASE Resolvable(link)
    <3>1. /\ links' = [links EXCEPT ![link] = clerk[c].decision] /\ links[link] = "pending"
          /\ clerk' = [clerk EXCEPT ![c].at = "settle"]
          /\ UNCHANGED <<status, proofs>>
      BY <1>6, <2>1 DEF Resolve, Resolvable
    <3>2. /\ clerk'[c].at = "settle" /\ clerk'[c].decision = clerk[c].decision
          /\ \A d \in Clerks \ {c} : clerk'[d] = clerk[d]
      BY <3>1, <1>0 DEF Clerk
    <3>3. \A n \in DOMAIN links : links[n] \in {"pending", "superseded"}
      <4>1. \A n \in DOMAIN links : links[n] \in Marks
        BY <1>0
      <4>. QED
        BY <4>1, <2>0 DEF Undecided
    <3>4. \A n \in DOMAIN links : n # link => links[n] = "superseded"
      BY <2>0, <3>1, <3>3 DEF Linked
    <3>5. links'[link] = clerk[c].decision /\ \A n \in DOMAIN links' : links'[n] \in {clerk[c].decision, "superseded"}
      BY <2>0, <3>1, <3>4
    <3>6. DOMAIN links' = DOMAIN links
      BY <3>1
    <3>7. Doing(clerk[c])'
      BY <2>0, <3>1, <3>2, <3>5, <3>6 DEF Doing, Only, Decided, Undecided
    <3>. QED
      BY <2>0, <3>2, <3>7, OnlyClerk
  <2>2. CASE ~Resolvable(link)
    <3>1. /\ clerk'[c].at = "off" /\ \A d \in Clerks \ {c} : clerk'[d] = clerk[d]
          /\ UNCHANGED <<status, links, proofs>>
      BY <1>6, <2>2, <1>0 DEF Resolve
    <3>2. AtRest' /\ Doing(clerk[c])'
      BY <2>0, <3>1 DEF AtRest, Undecided, Doing
    <3>. QED
      BY <2>0, <3>1, <3>2, OnlyClerk
  <2>. QED
    BY <2>1, <2>2
<1>7. CASE Settle(c)
  <2>1. /\ clerk[c].at = "settle" /\ clerk'[c].at = "prove" /\ clerk'[c].decision = clerk[c].decision
        /\ status' = Verdict(clerk[c].decision)
        /\ \A d \in Clerks \ {c} : clerk'[d] = clerk[d]
        /\ UNCHANGED <<links, proofs>>
    BY <1>7, <1>0 DEF Settle, Clerk
  <2>2. Doing(clerk[c])'
    BY <2>1, <1>0 DEF Doing, Only, Decided
  <2>. QED
    BY <2>1, <2>2, OnlyClerk
<1>8. CASE Prove(c)
  <2>1. /\ clerk[c].at = "prove" /\ clerk'[c].at = "off"
        /\ proofs' = Append(proofs, clerk[c].decision)
        /\ \A d \in Clerks \ {c} : clerk'[d] = clerk[d]
        /\ UNCHANGED <<links, status>>
    BY <1>8, <1>0 DEF Prove
  <2>2. Only(clerk[c].decision) /\ status = Verdict(clerk[c].decision) /\ proofs = <<>>
    BY <2>1, <1>0 DEF Doing
  <2>3. proofs' = <<clerk[c].decision>>
    BY <2>1, <2>2
  <2>4. AtRest' /\ Doing(clerk[c])'
    BY <2>1, <2>2, <2>3, <1>0 DEF AtRest, Only, Decided, Doing
  <2>. QED
    BY <2>1, <2>4, OnlyClerk
<1>9. CASE Abort(c)
  BY <1>9 DEF Abort, Whole
<1>. QED
  BY <1>2, <1>3, <1>4, <1>5, <1>6, <1>7, <1>8, <1>9 DEF ConsentStep

LEMMA ToldStep ==
  ASSUME Typed, Guarded, Solo, Linked, Told, [Next]_vars
  PROVE  Told'
<1>0. /\ Typed' /\ (crossed => crossed')
      /\ ~crossed' => OneClerk /\ OneClerk'
      /\ broken \in Nat /\ broken' \in Nat
      /\ status = "none" => \A c \in Clerks : clerk[c].at = "off"
  <2>1. Typed' /\ (crossed => crossed') /\ (~crossed' => OneClerk /\ OneClerk')
    BY TypeStep, SoloStep DEF Solo
  <2>2. broken \in Nat /\ broken' \in Nat
    BY <2>1 DEF Typed, TypeOK, ConsentOK
  <2>3. ASSUME status = "none", NEW c \in Clerks PROVE clerk[c].at = "off"
    <3>1. Len(links) = 0 /\ clerk[c].at \notin {"supersede", "issue"}
      BY <2>3 DEF Linked
    <3>2. DOMAIN links = {}
      BY <3>1, LenProperties DEF Typed, TypeOK, ConsentOK
    <3>3. clerk[c] \in Clerk /\ clerk[c].at \notin {"resolve", "settle", "prove"}
      BY <3>2 DEF Typed, TypeOK, ConsentOK
    <3>. QED
      BY <3>1, <3>3 DEF Clerk
  <2>. QED
    BY <2>1, <2>2, <2>3
<1>1. ASSUME UNCHANGED <<status, links, proofs, clerk, broken, child>> PROVE Told'
  <2>1. Whole' => Whole
    BY <1>0, <1>1 DEF Whole
  <2>. QED
    BY <1>1, <2>1 DEF Told, AtRest, Undecided, Only, Decided, Doing
<1>2. ASSUME NEW c \in Clerks, ConsentStep(c), UNCHANGED child PROVE Told'
  <2>1. broken' = 0 => broken = 0
    BY <1>0, <1>2 DEF ConsentStep, Resend, Supersede, Issue, Follow, Resolve, Settle, Prove, Abort
  <2>2. Whole' => Whole /\ broken' = 0 /\ ~crossed /\ OneClerk /\ OneClerk'
    BY <1>0, <1>2, <2>1 DEF Whole
  <2>3. Whole' => /\ (\A d \in Clerks : clerk'[d].at = "off") => AtRest'
                  /\ \A d \in Clerks : Doing(clerk[d])'
    BY <1>0, <1>2, <2>2, ClerkTold
  <2>4. status' = "none" => proofs' = <<>>
    <3>1. status' = "none" => status = "none"
      BY <1>2 DEF ConsentStep, Resend, Supersede, Issue, Follow, Resolve, Settle, Verdict, Prove, Abort
    <3>2. proofs' = proofs \/ clerk[c].at = "prove"
      BY <1>2 DEF ConsentStep, Resend, Supersede, Issue, Follow, Resolve, Settle, Prove, Abort
    <3>. QED
      BY <1>0, <3>1, <3>2 DEF Told
  <2>. QED
    BY <2>3, <2>4 DEF Told
<1>3. ASSUME NEW r \in Requests, Enrol(r) PROVE Told'
  <2>1. UNCHANGED <<links, proofs, clerk, broken>>
    BY <1>3 DEF Enrol
  <2>2. CASE status = "none"
    <3>1. status' = IF req[r].minor THEN Pending ELSE "active"
      BY <1>3, <2>2 DEF Enrol
    <3>2. child' = req[r].minor
      BY <1>3, <2>2 DEF Enrol
    <3>3. DOMAIN links = {}
      BY <2>2, LenProperties DEF Linked, Typed, TypeOK, ConsentOK
    <3>4. proofs = <<>> /\ status' # "none"
      BY <2>2, <3>1 DEF Told, Pending
    <3>5. child' => Undecided'
      BY <2>1, <3>1, <3>2, <3>3, <3>4 DEF Undecided
    <3>6. \A c \in Clerks : Doing(clerk[c])'
      BY <1>0, <2>1, <2>2 DEF Doing
    <3>. QED
      BY <2>1, <3>4, <3>5, <3>6 DEF Told, AtRest, Whole
  <2>3. CASE status # "none"
    BY <1>1, <1>3, <2>1, <2>3 DEF Enrol
  <2>. QED
    BY <2>2, <2>3
<1>4. ASSUME NEW r \in Requests, Open(r) PROVE Told'
  <2>1. UNCHANGED <<status, proofs, clerk, broken, child>> /\ status # "none" /\ Heading(req[r])
    BY <1>4 DEF Open, Heading, Guarded
  <2>2. CASE req[r].minor
    <3>1. links' = Append(links, "pending") /\ Len(links) = 0
      BY <1>4, <2>1, <2>2 DEF Open, NewLink, Linked
    <3>2. DOMAIN links = {} /\ \A n \in DOMAIN links' : links'[n] = "pending"
      BY <3>1, LenProperties DEF Typed, TypeOK, ConsentOK
    <3>3. Undecided => Undecided'
      BY <2>1, <3>2 DEF Undecided, Decisions
    <3>4. \A d : ~Only(d)
      BY <3>2 DEF Only, Decided
    <3>5. Whole' => Whole
      BY <1>0, <2>1 DEF Whole
    <3>6. AtRest => AtRest'
      BY <3>3, <3>4 DEF AtRest
    <3>7. ASSUME NEW c \in Clerks, Doing(clerk[c]) PROVE Doing(clerk[c])'
      BY <2>1, <3>3, <3>4, <3>7 DEF Doing
    <3>. QED
      BY <2>1, <3>5, <3>6, <3>7 DEF Told
  <2>3. CASE ~req[r].minor
    BY <1>1, <1>4, <2>1, <2>3 DEF Open
  <2>. QED
    BY <2>2, <2>3
<1>5. CASE UNCHANGED vars
  BY <1>1, <1>5 DEF vars, consent
<1>6. CASE GuestsNext /\ UNCHANGED <<consent, child>>
  BY <1>1, <1>6 DEF consent
<1>7. ASSUME NEW r \in Requests,
             (\E keep, minor \in BOOLEAN : Register(r, keep, minor)) \/ Login(r)
      PROVE  Told'
  BY <1>1, <1>7 DEF Register, Login, consent
<1>8. CASE EndSession
  BY <1>1, <1>8 DEF EndSession, consent
<1>. QED
  BY <1>2, <1>3, <1>4, <1>5, <1>6, <1>7, <1>8 DEF Next, ConsentNext, guests

(* The account is what the parent decided, and the decision is proved
   (StatusIsDecided), for any number of links and operations, once no operation
   runs, unless two have run together or one was killed. *)
THEOREM DecisionStands == Spec => []StatusIsDecided
<1>1. Init => Told /\ Linked
  BY DEF Init, GuestsInit, ConsentInit, Told, Whole, Linked, Heading, Closed, Off
<1>2. Told => StatusIsDecided
  <2> SUFFICES ASSUME Told, Whole, \A c \in Clerks : clerk[c].at = "off"
               PROVE  /\ Decided("accepted") <=> status = "active"
                      /\ Decided("refused") <=> status = "parental_consent_refused"
                      /\ \A d \in Decisions : Decided(d) <=> proofs = <<d>>
    BY DEF StatusIsDecided, Whole
  <2>1. CASE Undecided
    <3>1. ASSUME NEW d \in Decisions PROVE ~Decided(d) /\ proofs # <<d>>
      BY <2>1 DEF Undecided, Decided
    <3>. QED
      BY <2>1, <3>1 DEF Undecided, Pending, Decisions
  <2>2. ASSUME NEW d \in Decisions, Only(d), status = Verdict(d), proofs = <<d>>
        PROVE  /\ Decided("accepted") <=> status = "active"
               /\ Decided("refused") <=> status = "parental_consent_refused"
               /\ \A e \in Decisions : Decided(e) <=> proofs = <<e>>
    <3>1. ASSUME NEW e \in Decisions PROVE Decided(e) <=> e = d
      BY <2>2, <3>1 DEF Only, Decided, Decisions
    <3>2. ASSUME NEW e \in Decisions PROVE proofs = <<e>> <=> e = d
      BY <2>2
    <3>. QED
      BY <2>2, <3>1, <3>2 DEF Verdict, Decisions
  <2>. QED
    BY <2>1, <2>2 DEF Told, AtRest
<1>. QED
  BY <1>1, <1>2, GuardedInit, TypeInit, TypeStep, SoloInit, SoloStep, GuardedStep, LinkedStep, ToldStep, PTL DEF Spec

-----------------------------------------------------------------------------
(* Whose session an entry replaces *)

\* The cookie, and an entry about to answer, name guests that have been created:
\* none of them can come to life again.
Born ==
  /\ cookie \in Guests => cookie \in born
  /\ \A r \in Requests : req[r].at = "greet" => req[r].who \in born

\* An entry goes on as long as it knows of no session, and purges only the guest
\* whose session it has found; if the session has changed since, that is remembered.
Knows(r) ==
  /\ req[r].at \in {"sweep", "create", "greet"} => Known = Nobody \/ r \in late
  /\ req[r].at \in {"unlink", "delete"} /\ req[r].then = "sweep" =>
       Known \in {Nobody, req[r].who} \/ r \in late

Aware == \A r \in Requests : Knows(r)

\* What Identify makes of an entry; of the others it makes no entry.
LEMMA EntryBegins ==
  ASSUME Typed, NEW r \in Requests, NEW request \in Request, NEW asNobody, NEW asAccount, NEW asGuest,
         Identify(r, request, asNobody, asAccount, asGuest)
  PROVE  /\ \A s \in Requests \ {r} : req'[s] = req[s]
         /\ \/ /\ req'[r].at = "unlink" /\ req'[r].then = asNobody /\ req'[r].who = Known
            \/ Known = Nobody /\ req'[r].at = asNobody /\ req'[r].then = request.then
            \/ req'[r].at \in {asAccount, asGuest} /\ req'[r].then = request.then
BY DEF Identify, Typed, TypeOK, GuestsOK, Request

LEMMA BornStep ==
  ASSUME Typed, Born, [Next]_vars
  PROVE  Born'
<1> USE GuestsAssumption DEF Born
<1>0. /\ \A q \in Requests : req[q] \in Request /\ req[q] \in Sound
      /\ req \in [Requests -> Request] /\ born \subseteq Guests
      /\ Closed.at = "closed"
  BY DEF Typed, TypeOK, GuestsOK, Sound, Closed
<1>1. CASE UNCHANGED vars \/ UNCHANGED guests
  BY <1>1 DEF vars, guests
<1>2. CASE Visit \/ \E g \in Guests : Idle(g)
  BY <1>2 DEF Visit, Idle
<1>3. ASSUME NEW r \in Requests, Create(r) PROVE Born'
  <2>1. PICK g \in Guests \ born :
          /\ born' = born \cup {g} /\ UNCHANGED cookie
          /\ req' = [req EXCEPT ![r].at = "greet", ![r].who = g]
    BY <1>3 DEF Create
  <2>2. req'[r].who = g /\ \A s \in Requests \ {r} : req'[s] = req[s]
    BY <2>1, <1>0 DEF Request
  <2>3. ASSUME NEW s \in Requests, req'[s].at = "greet" PROVE req'[s].who \in born'
    <3>1. CASE s = r
      BY <2>1, <2>2, <3>1
    <3>2. CASE s # r
      <4>1. req'[s] = req[s]
        BY <2>2, <3>2
      <4>2. req[s].at = "greet"
        BY <2>3, <4>1
      <4>3. req[s].who \in born
        BY <4>2
      <4>. QED
        BY <2>1, <4>1, <4>3
    <3>. QED
      BY <3>1, <3>2
  <2>. QED
    BY <2>1, <2>3
<1>4. ASSUME NEW r \in Requests,
             \/ Enter(r) \/ Sweep(r) \/ Greet(r) \/ Land(r) \/ Unlink(r) \/ Delete(r)
             \/ (\E a \in Answers : Post(r, a)) \/ Read(r) \/ Write(r)
             \/ Take(r) \/ Give(r) \/ Kill(r)
             \/ (\E keep, minor \in BOOLEAN : Register(r, keep, minor))
             \/ Enrol(r) \/ Login(r) \/ Open(r)
      PROVE  /\ born' = born
             /\ cookie' \in {cookie, Nobody, Account} \/ (req[r].at = "greet" /\ cookie' = req[r].who)
             /\ req'[r].at # "greet" /\ \A s \in Requests \ {r} : req'[s] = req[s]
  <2>1. CASE Enter(r) \/ Land(r) \/ \E a \in Answers : Post(r, a)
    <3>1. UNCHANGED <<born, cookie>>
      BY <2>1 DEF Enter, Land, Post
    <3>2. \E q \in Request, a, b, c \in {"sweep", "closed", "unlink", "read"} : Identify(r, q, a, b, c)
      <4>1. CASE Enter(r)
        BY <4>1, ClosedSound DEF Enter, Sound
      <4>2. CASE Land(r)
        BY <4>2, ClosedSound DEF Land, Sound
      <4>3. ASSUME NEW a \in Answers, Post(r, a)
            PROVE  \E q \in Request : Identify(r, q, "closed", "closed", "read")
        <5>1. [Closed EXCEPT !.body = local'] \in Request
          BY <4>3, ClosedSound DEF Post, Sound, Request, Typed, TypeOK, GuestsOK
        <5>. QED
          BY <4>3, <5>1 DEF Post
      <4>. QED
        BY <2>1, <4>1, <4>2, <4>3
    <3>3. /\ req'[r].at # "greet"
          /\ \A s \in Requests \ {r} : req'[s] = req[s]
      BY <3>2, EntryBegins
    <3>. QED
      BY <3>1, <3>3
  <2>2. CASE Sweep(r) \/ Greet(r) \/ Unlink(r) \/ Read(r) \/ Write(r) \/ Take(r) \/ Give(r) \/ Kill(r)
    BY <2>2, <1>0 DEF Sweep, Greet, Unlink, Read, Write, Take, Give, Kill, Request
  <2>3. CASE Delete(r)
    <3>1. [req[r] EXCEPT !.at = req[r].then, !.then = "closed", !.who = Nobody].at \in {"closed", "sweep", "account", "open"}
      BY <1>0 DEF Request, Sound
    <3>. QED
      BY <2>3, <3>1, <1>0 DEF Delete
  <2>4. CASE \E keep, minor \in BOOLEAN : Register(r, keep, minor)
    BY <2>4, <1>0 DEF Register, Identify, Closed
  <2>5. CASE Enrol(r)
    <3> DEFINE at == IF req[r].who \notin Guests THEN "open" ELSE IF req[r].keep THEN "take" ELSE "unlink"
               next == [req[r] EXCEPT !.at = at, !.then = "open"]
    <3>1. (req' = [req EXCEPT ![r] = next] \/ req' = [req EXCEPT ![r] = Closed]) /\ UNCHANGED <<born, cookie>>
      BY <2>5 DEF Enrol
    <3>2. next.at # "greet"
      BY <1>0 DEF Request
    <3>. HIDE DEF next
    <3>. QED
      BY <1>0, <3>1, <3>2
  <2>6. CASE Login(r) \/ Open(r)
    BY <2>6, <1>0 DEF Login, Open, Closed
  <2>. QED
    BY <1>4, <2>1, <2>2, <2>3, <2>4, <2>5, <2>6
<1>5. CASE EndSession
  BY <1>5 DEF EndSession
<1>. QED
  BY <1>1, <1>2, <1>3, <1>4, <1>5 DEF Next, GuestsNext, GuestStep

\* While the browser's session stays the same, none comes to life again.
LEMMA NoneRevives ==
  ASSUME Typed, Born, [Next]_vars, UNCHANGED cookie
  PROVE  Known' \in {Known, Nobody}
<1> USE GuestsAssumption DEF Typed, TypeOK, GuestsOK
<1>1. cookie \in rows' => cookie \in rows
  <2>1. ASSUME NEW r \in Requests, Create(r) PROVE cookie \in rows' => cookie \in rows
    BY <2>1 DEF Create, Born
  <2>2. rows' \subseteq rows \/ \E r \in Requests : Create(r)
    <3>1. ASSUME NEW r \in Requests, GuestStep(r) PROVE rows' \subseteq rows \/ Create(r)
      BY <3>1 DEF GuestStep, Enter, Sweep, Expel, Greet, Land, Unlink, Delete, Post, Read, Write, Take, Give, Kill
    <3>2. CASE Visit \/ \E g \in Guests : Idle(g)
      BY <3>2 DEF Visit, Expel, Idle
    <3>3. CASE UNCHANGED vars \/ UNCHANGED guests \/ EndSession
      BY <3>3 DEF vars, guests, EndSession
    <3>4. ASSUME NEW r \in Requests,
                 (\E keep, minor \in BOOLEAN : Register(r, keep, minor)) \/ Enrol(r) \/ Login(r) \/ Open(r)
          PROVE  rows' \subseteq rows
      BY <3>4 DEF Register, Enrol, Login, Open
    <3>. QED
      BY <3>1, <3>2, <3>3, <3>4 DEF Next, GuestsNext
  <2>. QED
    BY <2>1, <2>2
<1>. QED
  BY <1>1 DEF Known

LEMMA AwareStep ==
  ASSUME Typed, Born, Aware, [Next]_vars
  PROVE  Aware'
<1> USE GuestsAssumption
<1>0. /\ \A q \in Requests : req[q] \in Request /\ req[q] \in Sound
      /\ req \in [Requests -> Request]
      /\ Closed \in Request /\ Closed.at = "closed" /\ Closed.then = "closed"
  BY ClosedSound DEF Typed, TypeOK, GuestsOK, Sound, Closed
<1>1. CASE UNCHANGED vars
  BY <1>1 DEF vars, guests, Aware, Knows, Known
<1>2. CASE Next
  <2>1. late' = {r \in OpenRequests' : r \in late \/ cookie' # cookie}
    BY <1>2 DEF Next, Histories
  <2>2. CASE cookie' # cookie
    BY <2>1, <2>2 DEF Aware, Knows, OpenRequests
  <2>3. CASE cookie' = cookie
    <3>1. Known' \in {Known, Nobody}
      BY <2>3, NoneRevives
    <3>2. \A r \in Requests : req'[r].at # "closed" => (r \in late <=> r \in late')
      BY <2>1, <2>3 DEF OpenRequests
    <3>3. ASSUME NEW s \in Requests, req'[s] = req[s] PROVE Knows(s)'
      BY <3>1, <3>2, <3>3 DEF Aware, Knows
    <3>4. CASE Visit \/ (\E g \in Guests : Idle(g)) \/ UNCHANGED guests \/ EndSession
      BY <3>3, <3>4 DEF Visit, Idle, guests, EndSession, Aware
    <3>5. ASSUME NEW r \in Requests,
                 \/ GuestStep(r)
                 \/ (\E keep, minor \in BOOLEAN : Register(r, keep, minor))
                 \/ Enrol(r) \/ Login(r) \/ Open(r)
          PROVE  Knows(r)' /\ \A s \in Requests \ {r} : req'[s] = req[s]
      <4>1. CASE Enter(r)
        <5>1. Identify(r, Closed, "sweep", "closed", "closed")
          BY <4>1 DEF Enter
        <5>. QED
          BY <1>0, <3>1, <5>1, EntryBegins DEF Knows
      <4>2. CASE Sweep(r) \/ Create(r) \/ Unlink(r)
        <5>1. \/ req[r].at = "sweep" /\ req'[r].at = "create"
              \/ req[r].at = "create" /\ req'[r].at = "greet"
              \/ /\ req[r].at = "unlink" /\ req'[r].at = "delete"
                 /\ req'[r].then = req[r].then /\ req'[r].who = req[r].who
          <6>1. CASE Sweep(r)
            BY <6>1, <1>0 DEF Sweep, Request
          <6>2. CASE Create(r)
            BY <6>2, <1>0 DEF Create, Request
          <6>3. CASE Unlink(r)
            BY <6>3, <1>0 DEF Unlink, Request
          <6>. QED
            BY <4>2, <6>1, <6>2, <6>3
        <5>2. \A s \in Requests \ {r} : req'[s] = req[s]
          BY <4>2, <1>0 DEF Sweep, Create, Unlink
        <5>. QED
          BY <3>1, <3>2, <5>1, <5>2 DEF Aware, Knows
      <4>3. CASE Delete(r)
        <5> DEFINE next == [req[r] EXCEPT !.at = req[r].then, !.then = "closed", !.who = Nobody]
        <5>1. /\ req[r].at = "delete" /\ req[r].who \in Guests
              /\ rows' = rows \ {req[r].who}
              /\ req' = [req EXCEPT ![r] = IF req[r].then = "closed" THEN Closed ELSE next]
          BY <4>3, <1>0 DEF Delete, Sound, OnGuest
        <5>2. next.at = req[r].then /\ next.then = "closed"
          BY <1>0 DEF Request
        <5>3. req[r].then \in {"closed", "sweep", "account", "open"}
          BY <1>0 DEF Sound
        <5>. HIDE DEF next
        <5>4. /\ req'[r].at = req[r].then
              /\ \A s \in Requests \ {r} : req'[s] = req[s]
          BY <1>0, <5>1, <5>2
        <5>5. Known = req[r].who => Known' = Nobody
          BY <2>3, <5>1 DEF Known
        <5>6. Knows(r)
          BY DEF Aware
        <5>7. req[r].then = "sweep" => Known' = Nobody \/ r \in late
          BY <3>1, <5>1, <5>5, <5>6 DEF Knows
        <5>. QED
          BY <3>2, <5>3, <5>4, <5>7 DEF Knows
      <4>4. CASE Land(r)
        <5>1. Identify(r, Closed, "closed", "closed", "unlink")
          BY <4>4 DEF Land
        <5>. QED
          BY <1>0, <5>1, EntryBegins DEF Knows
      <4>5. ASSUME NEW a \in Answers, Post(r, a)
            PROVE  Knows(r)' /\ \A s \in Requests \ {r} : req'[s] = req[s]
        <5>1. local' \subseteq Answers /\ Identify(r, [Closed EXCEPT !.body = local'], "closed", "closed", "read")
          BY <4>5 DEF Post, Typed, TypeOK, GuestsOK
        <5>2. [Closed EXCEPT !.body = local'] \in Request /\ [Closed EXCEPT !.body = local'].then = "closed"
          BY <1>0, <5>1 DEF Request
        <5>. QED
          BY <5>1, <5>2, EntryBegins DEF Knows
      <4>6. ASSUME NEW keep \in BOOLEAN, NEW minor \in BOOLEAN, Register(r, keep, minor)
            PROVE  Knows(r)' /\ \A s \in Requests \ {r} : req'[s] = req[s]
        <5> DEFINE request == [Closed EXCEPT !.keep = keep /\ ~minor, !.minor = minor]
        <5>1. request \in Request /\ request.then = "closed"
          BY <1>0 DEF Request
        <5>2. Identify(r, request, "account", "account", "account")
          BY <4>6 DEF Register
        <5>. HIDE DEF request
        <5>. QED
          BY <5>1, <5>2, EntryBegins DEF Knows
      <4>7. CASE Enrol(r)
        <5> DEFINE at == IF req[r].who \notin Guests THEN "open" ELSE IF req[r].keep THEN "take" ELSE "unlink"
                   next == [req[r] EXCEPT !.at = at, !.then = "open"]
        <5>1. req' = [req EXCEPT ![r] = next] \/ req' = [req EXCEPT ![r] = Closed]
          BY <4>7 DEF Enrol
        <5>2. next.at \in {"open", "take", "unlink"} /\ next.then = "open"
          BY <1>0 DEF Request
        <5>. HIDE DEF next
        <5>. QED
          BY <1>0, <5>1, <5>2 DEF Knows
      <4>8. CASE Greet(r) \/ Read(r) \/ Write(r) \/ Take(r) \/ Give(r) \/ Kill(r) \/ Login(r) \/ Open(r)
        <5>1. /\ \/ req'[r].at \in {"closed", "write", "give", "open"}
                 \/ req'[r].at = "unlink" /\ req'[r].then = req[r].then /\ req[r].at = "give"
              /\ \A s \in Requests \ {r} : req'[s] = req[s]
          BY <4>8, <1>0 DEF Greet, Read, Write, Take, Give, Kill, Login, Open, Request
        <5>. QED
          BY <1>0, <5>1 DEF Knows, Sound
      <4>. QED
        BY <3>5, <4>1, <4>2, <4>3, <4>4, <4>5, <4>6, <4>7, <4>8 DEF GuestStep
    <3>. QED
      BY <1>2, <3>3, <3>4, <3>5 DEF Next, GuestsNext, Aware
  <2>. QED
    BY <2>2, <2>3
<1>. QED
  BY <1>1, <1>2

\* An entry replaces a session that is still valid only if another request has
\* opened it since the entry began (SessionsAreReused), whatever the number of
\* requests and however they overlap, end or are killed.
THEOREM EntriesSpareSessions == Spec => []SessionsAreReused
<1>1. Init => Born /\ Aware
  BY GuestsAssumption DEF Init, GuestsInit, Closed, Born, Aware, Knows
<1>2. Aware => SessionsAreReused
  BY DEF Aware, Knows, SessionsAreReused
<1>. QED
  BY <1>1, <1>2, TypeInit, TypeStep, BornStep, AwareStep, PTL DEF Spec

-----------------------------------------------------------------------------
(* Answers and proofs, however the operations overlap *)

Answered(d) == {n \in DOMAIN links : links[n] = d}
Proved(d) == {n \in DOMAIN proofs : proofs[n] = d}
Owing(d) == {c \in Clerks : clerk[c].at \in {"settle", "prove"} /\ clerk[c].decision = d}

\* The answers of a kind that nobody has proved, or is about to prove.
Unproved(d) == Cardinality(Answered(d)) - Cardinality(Proved(d)) - Cardinality(Owing(d))

\* An answer is proved at most once, and exactly once when no operation runs and none
\* was killed.
AnswersAreProvedOnce ==
  /\ \A d \in Decisions : Cardinality(Proved(d)) <= Cardinality(Answered(d))
  /\ broken = 0 /\ (\A c \in Clerks : clerk[c].at = "off") =>
       \A d \in Decisions : Cardinality(Proved(d)) = Cardinality(Answered(d))

\* A child's account is active, or refused, only on the word of a parent.
StatusHasItsAnswer ==
  child => /\ status = "active" => Answered("accepted") # {}
           /\ status = "parental_consent_refused" => Answered("refused") # {}

\* A kill leaves at most one answer without its proof.
Balanced ==
  /\ \A d \in Decisions : Unproved(d) >= 0
  /\ Unproved("accepted") + Unproved("refused") <= broken

\* What a step may do to the balance.
Even == broken' \in {broken, broken + 1} /\ \A d \in Decisions : Unproved(d)' = Unproved(d)
Cut ==
  /\ broken' = broken + 1
  /\ \E e \in Decisions :
       /\ Unproved(e)' = Unproved(e) + 1
       /\ \A d \in Decisions \ {e} : Unproved(d)' = Unproved(d)

LEMMA CountsAreNat ==
  ASSUME Typed
  PROVE  /\ broken \in Nat
         /\ \A d \in Decisions :
              /\ IsFiniteSet(Answered(d)) /\ IsFiniteSet(Proved(d)) /\ IsFiniteSet(Owing(d))
              /\ Cardinality(Answered(d)) \in Nat /\ Cardinality(Proved(d)) \in Nat
              /\ Cardinality(Owing(d)) \in Nat /\ Unproved(d) \in Int
<1>1. /\ IsFiniteSet(1 .. Len(links)) /\ DOMAIN links = 1 .. Len(links)
      /\ IsFiniteSet(1 .. Len(proofs)) /\ DOMAIN proofs = 1 .. Len(proofs)
  BY FS_Interval, LenProperties DEF Typed, TypeOK, ConsentOK
<1>2. ASSUME NEW d \in Decisions
      PROVE  IsFiniteSet(Answered(d)) /\ IsFiniteSet(Proved(d)) /\ IsFiniteSet(Owing(d))
  BY <1>1, FS_Subset, ConsentAssumption DEF Answered, Proved, Owing
<1>3. ASSUME NEW d \in Decisions
      PROVE  /\ Cardinality(Answered(d)) \in Nat /\ Cardinality(Proved(d)) \in Nat
             /\ Cardinality(Owing(d)) \in Nat
  BY <1>2, FS_CardinalityType
<1>. QED
  BY <1>2, <1>3 DEF Unproved, Typed, TypeOK, ConsentOK

\* A new link, or one that is superseded, answers nothing.
LEMMA NoAnswer ==
  ASSUME Typed, NEW d \in Decisions,
         links' = Append(links, "pending") \/ \E c \in Clerks : Supersede(c)
  PROVE  Answered(d)' = Answered(d)
<1>1. DOMAIN links = 1 .. Len(links) /\ Len(links) \in Nat
  BY LenProperties DEF Typed, TypeOK, ConsentOK
<1>2. d # "pending" /\ d # "superseded"
  BY DEF Decisions
<1>3. CASE links' = Append(links, "pending")
  <2>1. /\ DOMAIN links' = 1 .. Len(links) + 1 /\ links'[Len(links) + 1] = "pending"
        /\ \A n \in 1 .. Len(links) : links'[n] = links[n]
    BY <1>1, <1>3, AppendProperties DEF Typed, TypeOK, ConsentOK
  <2>. QED
    BY <1>1, <1>2, <2>1 DEF Answered
<1>4. CASE \E c \in Clerks : Supersede(c)
  BY <1>2, <1>4 DEF Supersede, Answered
<1>. QED
  BY <1>3, <1>4

\* A step on the consent proves an answer that was owed, answers one link and owes its
\* proof, or leaves the balance alone; a kill may lose the proof of one answer.
LEMMA BalanceStep ==
  ASSUME Typed, NEW c \in Clerks, ConsentStep(c), Typed'
  PROVE  Even \/ Cut
<1>0. /\ clerk \in [Clerks -> Clerk] /\ clerk[c].decision \in Decisions /\ broken \in Nat
      /\ links \in Seq({"pending", "superseded"} \cup Decisions) /\ proofs \in Seq(Decisions)
  BY DEF Typed, TypeOK, ConsentOK, Clerk
<1>e. PICK e \in Decisions : e = clerk[c].decision
  BY <1>0
<1>a. ASSUME \A d \in Decisions : Answered(d)' = Answered(d) /\ Proved(d)' = Proved(d) /\ Owing(d)' = Owing(d),
             broken' = broken \/ broken' = broken + 1
      PROVE  Even
  BY <1>a DEF Even, Unproved
<1>b. ASSUME NEW q, clerk' = [clerk EXCEPT ![c] = q], q.at \notin {"settle", "prove"},
             clerk[c].at \notin {"settle", "prove"}, NEW d \in Decisions
      PROVE  Owing(d)' = Owing(d)
  BY <1>0, <1>b DEF Owing
<1>1. CASE Resend(c)
  <2>1. clerk' = [clerk EXCEPT ![c] = [clerk[c] EXCEPT !.at = "supersede"]]
    BY <1>0, <1>1 DEF Resend
  <2>2. clerk[c].at = "off" /\ [clerk[c] EXCEPT !.at = "supersede"].at = "supersede"
    BY <1>0, <1>1 DEF Resend, Clerk
  <2>. QED
    BY <1>1, <1>a, <1>b, <2>1, <2>2 DEF Resend, Answered, Proved
<1>2. CASE Supersede(c)
  <2>1. clerk' = [clerk EXCEPT ![c] = [clerk[c] EXCEPT !.at = "issue"]]
    BY <1>0, <1>2 DEF Supersede
  <2>2. clerk[c].at = "supersede" /\ [clerk[c] EXCEPT !.at = "issue"].at = "issue"
    BY <1>0, <1>2 DEF Supersede, Clerk
  <2>3. \A d \in Decisions : Answered(d)' = Answered(d)
    BY <1>2, NoAnswer
  <2>4. UNCHANGED <<proofs, broken>>
    BY <1>2 DEF Supersede
  <2>. QED
    BY <1>a, <1>b, <2>1, <2>2, <2>3, <2>4 DEF Proved
<1>3. CASE Issue(c)
  <2>1. clerk' = [clerk EXCEPT ![c] = Off] /\ clerk[c].at = "issue" /\ Off.at = "off"
    BY <1>3 DEF Issue, Off
  <2>2. \A d \in Decisions : Answered(d)' = Answered(d)
    BY <1>3, NoAnswer DEF Issue, NewLink
  <2>3. UNCHANGED <<proofs, broken>>
    BY <1>3 DEF Issue
  <2>. QED
    BY <1>a, <1>b, <2>1, <2>2, <2>3 DEF Proved
<1>4. ASSUME NEW n \in DOMAIN links, NEW d \in Decisions, Follow(c, n, d) PROVE Even
  <2>1. /\ clerk' = [clerk EXCEPT ![c] = [at |-> "resolve", link |-> n, decision |-> d]]
        /\ clerk[c].at = "off" /\ UNCHANGED <<links, proofs, broken>>
    BY <1>4 DEF Follow
  <2>2. [at |-> "resolve", link |-> n, decision |-> d].at = "resolve"
    OBVIOUS
  <2>. QED
    BY <1>a, <1>b, <2>1, <2>2 DEF Answered, Proved
<1>5. CASE Resolve(c)
  <2>0. clerk[c].at = "resolve" /\ clerk[c].link \in DOMAIN links /\ UNCHANGED <<proofs, broken>>
    BY <1>5 DEF Resolve, Typed, TypeOK, ConsentOK
  <2>1. CASE ~Resolvable(clerk[c].link)
    <3>1. clerk' = [clerk EXCEPT ![c] = Off] /\ links' = links /\ Off.at = "off"
      BY <1>5, <2>1 DEF Resolve, Off
    <3>. QED
      BY <1>a, <1>b, <2>0, <3>1 DEF Answered, Proved
  <2>2. CASE Resolvable(clerk[c].link)
    <3>0. PICK n \in DOMAIN links : n = clerk[c].link
      BY <2>0
    <3> DEFINE q == [clerk[c] EXCEPT !.at = "settle"]
    <3>1. /\ links' = [links EXCEPT ![n] = e] /\ links[n] = "pending" /\ e # "pending"
          /\ clerk' = [clerk EXCEPT ![c] = q]
      BY <1>0, <1>e, <1>5, <2>2, <3>0 DEF Resolve, Resolvable, Decisions
    <3>2. q.at = "settle" /\ q.decision = e
      BY <1>0, <1>e DEF Clerk
    <3>. HIDE DEF q
    <3>3. Owing(e)' = Owing(e) \cup {c} /\ c \notin Owing(e)
      BY <1>0, <2>0, <3>1, <3>2 DEF Owing
    <3>4. \A d \in Decisions \ {e} : Owing(d)' = Owing(d)
      BY <1>0, <1>e, <2>0, <3>1, <3>2 DEF Owing
    <3>5. Answered(e)' = Answered(e) \cup {n} /\ n \notin Answered(e)
      BY <1>0, <2>0, <3>1 DEF Answered
    <3>6. \A d \in Decisions \ {e} : Answered(d)' = Answered(d)
      <4>1. \A d \in Decisions : d # "pending"
        BY DEF Decisions
      <4>. QED
        BY <1>0, <2>0, <3>1, <4>1 DEF Answered
    <3>7. /\ Cardinality(Owing(e)') = Cardinality(Owing(e)) + 1
          /\ Cardinality(Answered(e)') = Cardinality(Answered(e)) + 1
      BY <3>1, <3>3, <3>5, CountsAreNat, FS_AddElement
    <3>8. \A d \in Decisions : Proved(d)' = Proved(d)
      BY <2>0 DEF Proved
    <3>9. Unproved(e)' = Unproved(e)
      BY <3>1, <3>7, <3>8, CountsAreNat DEF Unproved
    <3>10. \A d \in Decisions \ {e} : Unproved(d)' = Unproved(d)
      BY <3>4, <3>6, <3>8 DEF Unproved
    <3>. QED
      BY <2>0, <3>9, <3>10 DEF Even
  <2>. QED
    BY <2>1, <2>2
<1>6. CASE Settle(c)
  <2> DEFINE q == [clerk[c] EXCEPT !.at = "prove"]
  <2>1. clerk' = [clerk EXCEPT ![c] = q] /\ clerk[c].at = "settle" /\ UNCHANGED <<links, proofs, broken>>
    BY <1>0, <1>6 DEF Settle
  <2>2. q.at = "prove" /\ q.decision = clerk[c].decision
    BY <1>0 DEF Clerk
  <2>. HIDE DEF q
  <2>3. \A d \in Decisions : Owing(d)' = Owing(d)
    BY <1>0, <2>1, <2>2 DEF Owing
  <2>. QED
    BY <1>a, <2>1, <2>3 DEF Answered, Proved
<1>7. CASE Prove(c)
  <2>0. PICK n \in Nat : n = Len(proofs) + 1
    BY <1>0, LenProperties
  <2>1. /\ proofs' = Append(proofs, e) /\ clerk[c].at = "prove"
        /\ clerk' = [clerk EXCEPT ![c] = Off] /\ Off.at = "off" /\ UNCHANGED <<links, broken>>
    BY <1>e, <1>7 DEF Prove, Off
  <2>2. /\ DOMAIN proofs = 1 .. Len(proofs) /\ Len(proofs) \in Nat
        /\ DOMAIN proofs' = 1 .. n /\ proofs'[n] = e
        /\ \A i \in 1 .. Len(proofs) : proofs'[i] = proofs[i]
    BY <1>0, <2>0, <2>1, LenProperties, AppendProperties
  <2>3. Proved(e)' = Proved(e) \cup {n} /\ n \notin Proved(e)
    BY <2>0, <2>2 DEF Proved
  <2>4. \A d \in Decisions \ {e} : Proved(d)' = Proved(d)
    BY <2>0, <2>2 DEF Proved
  <2>5. Owing(e)' = Owing(e) \ {c} /\ c \in Owing(e)
    BY <1>0, <1>e, <2>1 DEF Owing
  <2>6. \A d \in Decisions \ {e} : Owing(d)' = Owing(d)
    BY <1>0, <1>e, <2>1 DEF Owing
  <2>7. \A d \in Decisions : Answered(d)' = Answered(d)
    BY <2>1 DEF Answered
  <2>8. Cardinality(Proved(e)') = Cardinality(Proved(e)) + 1
    BY <2>3, CountsAreNat, FS_AddElement
  <2>9. Cardinality(Owing(e)') = Cardinality(Owing(e)) - 1
    BY <2>5, CountsAreNat, FS_RemoveElement
  <2>10. Unproved(e)' = Unproved(e)
    BY <2>7, <2>8, <2>9, CountsAreNat DEF Unproved
  <2>11. \A d \in Decisions \ {e} : Unproved(d)' = Unproved(d)
    BY <2>4, <2>6, <2>7 DEF Unproved
  <2>. QED
    BY <2>1, <2>10, <2>11 DEF Even
<1>8. CASE Abort(c)
  <2>1. /\ clerk' = [clerk EXCEPT ![c] = Off] /\ Off.at = "off" /\ broken' = broken + 1
        /\ UNCHANGED <<links, proofs>>
    BY <1>8 DEF Abort, Off
  <2>2. \A d \in Decisions : Answered(d)' = Answered(d) /\ Proved(d)' = Proved(d)
    BY <2>1 DEF Answered, Proved
  <2>3. CASE clerk[c].at \notin {"settle", "prove"}
    BY <1>a, <1>b, <2>1, <2>2, <2>3
  <2>4. CASE clerk[c].at \in {"settle", "prove"}
    <3>1. Owing(e)' = Owing(e) \ {c} /\ c \in Owing(e)
      BY <1>0, <1>e, <2>1, <2>4 DEF Owing
    <3>2. \A d \in Decisions \ {e} : Owing(d)' = Owing(d)
      BY <1>0, <1>e, <2>1 DEF Owing
    <3>3. Cardinality(Owing(e)') = Cardinality(Owing(e)) - 1
      BY <2>1, <3>1, CountsAreNat, FS_RemoveElement
    <3>4. Unproved(e)' = Unproved(e) + 1
      BY <2>1, <2>2, <3>3, CountsAreNat DEF Unproved
    <3>5. \A d \in Decisions \ {e} : Unproved(d)' = Unproved(d)
      BY <2>2, <3>2 DEF Unproved
    <3>. QED
      BY <2>1, <3>4, <3>5 DEF Cut
  <2>. QED
    BY <2>3, <2>4
<1>. QED
  BY <1>1, <1>2, <1>3, <1>4, <1>5, <1>6, <1>7, <1>8 DEF ConsentStep

LEMMA BalancedStep ==
  ASSUME Typed, Balanced, [Next]_vars
  PROVE  Balanced'
<1>0. Typed' /\ "accepted" \in Decisions /\ "refused" \in Decisions
  BY TypeStep DEF Decisions
<1>1. ASSUME Even \/ Cut PROVE Balanced'
  <2>1. /\ broken \in Nat /\ Unproved("accepted") \in Int /\ Unproved("refused") \in Int
        /\ Unproved("accepted") >= 0 /\ Unproved("refused") >= 0
        /\ Unproved("accepted") + Unproved("refused") <= broken
    BY <1>0, CountsAreNat DEF Balanced
  <2>2. CASE Even
    <3>1. /\ Unproved("accepted")' = Unproved("accepted") /\ Unproved("refused")' = Unproved("refused")
          /\ broken' \in {broken, broken + 1}
      BY <1>0, <2>2 DEF Even
    <3>. QED
      BY <2>1, <3>1 DEF Balanced, Decisions
  <2>3. CASE Cut
    <3>1. /\ broken' = broken + 1
          /\ \/ Unproved("accepted")' = Unproved("accepted") + 1 /\ Unproved("refused")' = Unproved("refused")
             \/ Unproved("refused")' = Unproved("refused") + 1 /\ Unproved("accepted")' = Unproved("accepted")
      BY <1>0, <2>3 DEF Cut, Decisions
    <3>. QED
      BY <2>1, <3>1 DEF Balanced, Decisions
  <2>. QED
    BY <1>1, <2>2, <2>3
<1>2. ASSUME UNCHANGED <<clerk, proofs, broken>>, links' = links \/ links' = Append(links, "pending")
      PROVE  Balanced'
  <2>1. \A d \in Decisions : Answered(d)' = Answered(d)
    BY <1>2, NoAnswer DEF Answered
  <2>2. \A d \in Decisions : Proved(d)' = Proved(d) /\ Owing(d)' = Owing(d)
    BY <1>2 DEF Proved, Owing
  <2>3. Even
    BY <1>2, <2>1, <2>2 DEF Even, Unproved
  <2>. QED
    BY <1>1, <2>3
<1>3. ASSUME NEW c \in Clerks, ConsentStep(c) PROVE Balanced'
  BY <1>0, <1>1, <1>3, BalanceStep
<1>4. CASE UNCHANGED consent
  BY <1>2, <1>4 DEF consent
<1>5. ASSUME NEW r \in Requests, Enrol(r) \/ Open(r) PROVE Balanced'
  BY <1>2, <1>5 DEF Enrol, Open, NewLink
<1>6. ASSUME NEW r \in Requests, (\E keep, minor \in BOOLEAN : Register(r, keep, minor)) \/ Login(r)
      PROVE  UNCHANGED consent
  BY <1>6 DEF Register, Login
<1>7. CASE EndSession
  BY <1>4, <1>7 DEF EndSession
<1>. QED
  BY <1>3, <1>4, <1>5, <1>6, <1>7 DEF Next, ConsentNext, vars

LEMMA BalancedInit == Init => Balanced
<1> SUFFICES ASSUME Init PROVE Balanced
  OBVIOUS
<1>1. links = <<>> /\ proofs = <<>> /\ broken = 0 /\ \A c \in Clerks : clerk[c].at = "off"
  BY DEF Init, ConsentInit, Off
<1>2. ASSUME NEW d \in Decisions PROVE Unproved(d) = 0
  <2>1. Answered(d) = {} /\ Proved(d) = {} /\ Owing(d) = {}
    BY <1>1 DEF Answered, Proved, Owing
  <2>. QED
    BY <2>1, FS_EmptySet DEF Unproved
<1>. QED
  BY <1>1, <1>2 DEF Balanced, Decisions

\* However the operations on the consent overlap or are killed, no proof is recorded
\* that no link bears out, nor two for one answer; and no answer is left without its
\* proof but by a kill (resolve_consent, add_consent_record).
THEOREM EachAnswerIsProved == Spec => []AnswersAreProvedOnce
<1>1. Typed /\ Balanced => AnswersAreProvedOnce
  <2> SUFFICES ASSUME Typed, Balanced PROVE AnswersAreProvedOnce
    OBVIOUS
  <2>1. \A d \in Decisions : /\ Cardinality(Answered(d)) \in Nat /\ Cardinality(Proved(d)) \in Nat
                             /\ Cardinality(Owing(d)) \in Nat /\ Unproved(d) >= 0
    BY CountsAreNat DEF Balanced
  <2>2. \A d \in Decisions : Cardinality(Proved(d)) <= Cardinality(Answered(d))
    BY <2>1 DEF Unproved
  <2>3. ASSUME broken = 0, \A c \in Clerks : clerk[c].at = "off", NEW d \in Decisions
        PROVE  Cardinality(Proved(d)) = Cardinality(Answered(d))
    <3>1. Owing(d) = {}
      BY <2>3 DEF Owing
    <3>2. Cardinality(Owing(d)) = 0
      BY <3>1, FS_EmptySet
    <3>3. Unproved(d) \in Int /\ Unproved(d) <= 0
      <4>1. /\ Unproved("accepted") \in Int /\ Unproved("accepted") >= 0
            /\ Unproved("refused") \in Int /\ Unproved("refused") >= 0
        BY <2>1, CountsAreNat DEF Decisions
      <4>2. Unproved("accepted") + Unproved("refused") <= 0
        BY <2>3 DEF Balanced
      <4>3. d = "accepted" \/ d = "refused"
        BY DEF Decisions
      <4>. QED
        BY <4>1, <4>2, <4>3
    <3>4. Cardinality(Answered(d)) \in Nat /\ Cardinality(Proved(d)) \in Nat /\ Unproved(d) >= 0
      BY <2>1
    <3>5. Cardinality(Answered(d)) - Cardinality(Proved(d)) - 0 = Unproved(d)
      BY <3>2 DEF Unproved
    <3>. QED
      BY <3>3, <3>4, <3>5
  <2>. QED
    BY <2>2, <2>3 DEF AnswersAreProvedOnce
<1>. QED
  BY <1>1, TypeInit, TypeStep, BalancedInit, BalancedStep, PTL DEF Spec

\* A refusal, recorded or about to be, is that of a link.
Worded ==
  /\ \A c \in Clerks : clerk[c].at = "settle" /\ clerk[c].decision = "refused" => Answered("refused") # {}
  /\ status = "parental_consent_refused" => Answered("refused") # {}

LEMMA WordedStep ==
  ASSUME Typed, Worded, [Next]_vars
  PROVE  Worded'
<1>0. Answered("refused") # {} => Answered("refused")' # {}
  BY LinksStep DEF LinksKept, Answered
<1>1. clerk \in [Clerks -> Clerk] /\ status \in Statuses
  BY DEF Typed, TypeOK, ConsentOK
<1>2. ASSUME UNCHANGED clerk, status' = status \/ status' \in {"active", Pending} PROVE Worded'
  BY <1>0, <1>2 DEF Worded, Pending
<1>3. ASSUME NEW c \in Clerks, ConsentStep(c) PROVE Worded'
  <2>a. ASSUME status' = status, NEW q, clerk' = [clerk EXCEPT ![c] = q],
               q.at = "settle" /\ q.decision = "refused" => Answered("refused")' # {}
        PROVE  Worded'
    BY <1>0, <1>1, <2>a DEF Worded
  <2>1. CASE Resend(c) \/ Supersede(c)
    <3>1. PICK to \in {"supersede", "issue"} : clerk' = [clerk EXCEPT ![c] = [clerk[c] EXCEPT !.at = to]]
      BY <1>1, <2>1 DEF Resend, Supersede
    <3>2. [clerk[c] EXCEPT !.at = to].at = to
      BY <1>1 DEF Clerk
    <3>3. status' = status
      BY <2>1 DEF Resend, Supersede
    <3>. QED
      BY <2>a, <3>1, <3>2, <3>3
  <2>2. CASE Issue(c) \/ Prove(c) \/ Abort(c)
    <3>1. clerk' = [clerk EXCEPT ![c] = Off] /\ Off.at = "off" /\ status' = status
      BY <2>2 DEF Issue, Prove, Abort, Off
    <3>. QED
      BY <2>a, <3>1
  <2>3. ASSUME NEW n \in DOMAIN links, NEW d \in Decisions, Follow(c, n, d) PROVE Worded'
    BY <2>3, <2>a DEF Follow
  <2>4. CASE Resolve(c)
    <3>1. CASE ~Resolvable(clerk[c].link)
      <4>1. clerk' = [clerk EXCEPT ![c] = Off] /\ Off.at = "off" /\ status' = status
        BY <2>4, <3>1 DEF Resolve, Off
      <4>. QED
        BY <2>a, <4>1
    <3>2. CASE Resolvable(clerk[c].link)
      <4> DEFINE q == [clerk[c] EXCEPT !.at = "settle"]
      <4>1. /\ clerk' = [clerk EXCEPT ![c] = q] /\ status' = status
            /\ links' = [links EXCEPT ![clerk[c].link] = clerk[c].decision]
            /\ clerk[c].link \in DOMAIN links
        BY <1>1, <2>4, <3>2 DEF Resolve, Typed, TypeOK, ConsentOK
      <4>2. q.decision = clerk[c].decision
        BY <1>1 DEF Clerk
      <4>. HIDE DEF q
      <4>3. q.decision = "refused" => Answered("refused")' # {}
        BY <4>1, <4>2 DEF Answered
      <4>. QED
        BY <2>a, <4>1, <4>3
    <3>. QED
      BY <3>1, <3>2
  <2>5. CASE Settle(c)
    <3>1. /\ clerk' = [clerk EXCEPT ![c] = [clerk[c] EXCEPT !.at = "prove"]]
          /\ clerk[c].at = "settle" /\ status' = Verdict(clerk[c].decision)
          /\ clerk[c].decision \in Decisions
      BY <1>1, <2>5 DEF Settle, Clerk
    <3>2. [clerk[c] EXCEPT !.at = "prove"].at = "prove"
      BY <1>1 DEF Clerk
    <3>3. status' = "parental_consent_refused" => Answered("refused")' # {}
      BY <1>0, <3>1 DEF Verdict, Decisions, Worded
    <3>. QED
      BY <1>0, <1>1, <3>1, <3>2, <3>3 DEF Worded
  <2>. QED
    BY <1>3, <2>1, <2>2, <2>3, <2>4, <2>5 DEF ConsentStep
<1>4. CASE UNCHANGED consent
  BY <1>2, <1>4 DEF consent
<1>5. ASSUME NEW r \in Requests, Enrol(r) \/ Open(r) PROVE Worded'
  BY <1>2, <1>5 DEF Enrol, Open
<1>6. ASSUME NEW r \in Requests, (\E keep, minor \in BOOLEAN : Register(r, keep, minor)) \/ Login(r)
      PROVE  UNCHANGED consent
  BY <1>6 DEF Register, Login
<1>7. CASE EndSession
  BY <1>4, <1>7 DEF EndSession
<1>. QED
  BY <1>3, <1>4, <1>5, <1>6, <1>7 DEF Next, ConsentNext, vars

\* A child's account is active only once a link was accepted, refused only once one was
\* refused, even when two parents answer together or an operation is killed
\* (resolve_consent, "refus bloque definitivement le compte").
THEOREM StatusIsAnswered == Spec => []StatusHasItsAnswer
<1>1. Init => Worded
  BY DEF Init, ConsentInit, Off, Worded
<1>2. Guarded /\ Worded => StatusHasItsAnswer
  BY DEF Guarded, Accepted, Worded, Answered, StatusHasItsAnswer
<1>. QED
  BY <1>1, <1>2, TypeInit, GuardedInit, TypeStep, GuardedStep, WordedStep, PTL DEF Spec
===============================================================================
