------------------------------- MODULE Accounts -------------------------------
(***************************************************************************)
(* Registration (auth.register) and log-in over Guests and Consent: a guest *)
(* becomes an account, that of a child waits for a parent's consent. The    *)
(* properties say what of the guest is kept or forgotten, and who gets in.  *)
(***************************************************************************)
EXTENDS Guests, Consent

CONSTANT Budget  \* bound on Spent

VARIABLES
  child,  \* did the account declare to be a minor's?
  late    \* history: the requests open since before the browser's session changed

vars == <<guests, mixed, consent, crossed, child, late>>

TypeOK == GuestsOK /\ ConsentOK /\ child \in BOOLEAN /\ late \subseteq Requests

Init == GuestsInit /\ ConsentInit /\ child = FALSE /\ late = {}

\* The form is accepted: the address is free; previous_user is the browser's. A
\* minor's guest is never transferred.
Register(r, keep, minor) ==
  /\ status = "none"
  /\ Identify(r, [Closed EXCEPT !.keep = keep /\ ~minor, !.minor = minor], "account", "account", "account")
  /\ owed' = IF keep /\ ~minor THEN owed ELSE {}
  /\ UNCHANGED <<rows, born, idle, files, cookie, local, swept, cut, consent, child>>

\* create_user; its address is UNIQUE: the loser of a race gets an error. Then the
\* guest is transferred, or purged, before the first link or the session.
Enrol(r) ==
  LET guest == req[r].who \in Guests
      next == [req[r] EXCEPT !.at = IF ~guest THEN "open" ELSE IF req[r].keep THEN "take" ELSE "unlink", !.then = "open"]
  IN /\ req[r].at = "account"
     /\ IF status = "none"
        THEN /\ status' = IF req[r].minor THEN Pending ELSE "active"
             /\ child' = req[r].minor
             /\ req' = [req EXCEPT ![r] = next]
        ELSE req' = [req EXCEPT ![r] = Closed] /\ UNCHANGED <<status, child>>
     /\ UNCHANGED <<rows, born, idle, files, cookie, local, owed, swept, cut, links, proofs, clerk, broken>>

\* Mutant: the status is not looked at.
MayEnterAlways == status # "none"
MayEnter == status = "active"

\* login: the password is right, and the account active.
Login(r) ==
  /\ MayEnter
  /\ req[r].at = "closed"
  /\ cookie # Account
  /\ req' = [req EXCEPT ![r] = [Closed EXCEPT !.at = "open"]]
  /\ UNCHANGED <<rows, born, idle, files, cookie, local, owed, swept, cut, consent, child>>

\* The end of both: the parent's link, and no session, or the session. A log-in
\* leaves the guest and his file behind.
Open(r) ==
  /\ req[r].at = "open"
  /\ IF req[r].minor
     THEN NewLink /\ UNCHANGED <<cookie, local, owed>>
     ELSE /\ UNCHANGED links
          /\ cookie' = Account
          /\ local' = IF cookie = Account THEN local ELSE {}
          /\ owed' = IF req[r].keep THEN owed ELSE {}
  /\ req' = [req EXCEPT ![r] = Closed]
  /\ UNCHANGED <<rows, born, idle, files, swept, cut, status, proofs, clerk, broken, child>>

\* A session ends, a guest's or the account's: logout, or its expires_at, or for a
\* guest the end of the browser, whose cookie is not kept. The page then forgets
\* the local state; the guest's row and file stay behind.
EndSession ==
  /\ cookie # Nobody
  /\ cookie' = Nobody
  /\ local' = {} /\ owed' = {}
  /\ UNCHANGED <<rows, born, idle, files, req, swept, cut, consent, child>>

OpenRequests == {r \in Requests : req[r].at # "closed"}
BusyClerks == {c \in Clerks : clerk[c].at # "off"}

One(happened) == IF happened THEN 1 ELSE 0
Spent == Cardinality(born) + Len(links) + cut + broken + One(mixed) + One(crossed)

Histories ==
  /\ mixed' = (mixed \/ Cardinality(OpenRequests') > 1)
  /\ crossed' = (crossed \/ Cardinality(BusyClerks') > 1)
  /\ late' = {r \in OpenRequests' : r \in late \/ cookie' # cookie}
  /\ Spent' <= Budget

Next ==
  /\ \/ GuestsNext /\ UNCHANGED <<consent, child>>
     \/ ConsentNext /\ UNCHANGED <<guests, child>>
     \/ \E r \in Requests :
          \/ \E keep, minor \in BOOLEAN : Register(r, keep, minor)
          \/ Enrol(r) \/ Login(r) \/ Open(r)
     \/ EndSession
  /\ Histories

Spec == Init /\ [][Next]_vars

-----------------------------------------------------------------------------
(* Properties *)

\* Answers that the server has acknowledged to a guest who has not given them up
\* are in his file or in that of the account he registered, wherever registering
\* is interrupted, as long as his requests follow one another (register,
\* _transfer_guest_data).
NothingOwedIsLost ==
  ~mixed => \A a \in owed : a \in files[Account] \/ (cookie \in Guests /\ a \in files[cookie])

\* Nobody's file outlives him, wherever a purge is interrupted ("il est supprime
\* par _purge_account des la fin de sa session", auth.py), as long as requests
\* follow one another and no expired guest is swept: cleanup_expired_guests
\* deletes rows, and nobody deletes the files of the ids it returns.
FilesHaveOwners ==
  ~mixed /\ ~swept => \A g \in Guests \ rows : files[g] = {}

\* An entry gives a guest's session only to a browser that has none: it replaces a
\* session that is still valid only if another request has opened it meanwhile ("ne
\* generent donc plus d'invite supplementaire (et ne remplacent plus la session
\* d'un compte connecte)", enter_guest), whatever overlaps, ends or is killed.
SessionsAreReused ==
  \A r \in Requests : req[r].at = "greet" /\ Known # Nobody => r \in late

\* A child has a session only if a parent has accepted ("aucune session n'est
\* creee pour ce compte", db.py), whatever interleaves or is killed.
AccessNeedsConsent ==
  child /\ cookie = Account => \E n \in DOMAIN links : links[n] = "accepted"

\* One link is valid at a time ("un seul jeton valide a la fois",
\* supersede_pending_parental_consent_requests), unless two requests for a new
\* one run together.
OneLink ==
  ~crossed => \A m, n \in DOMAIN links : links[m] = "pending" /\ links[n] = "pending" => m = n

\* A link that was used or superseded never changes again ("jamais reutilisable
\* une fois resolu", db.py).
LinksAreUsedOnce ==
  [][\A n \in DOMAIN links : links[n] # "pending" => n \in DOMAIN links' /\ links'[n] = links[n]]_vars

\* The account is what the parent decided, and the decision is proved ("refus
\* bloque definitivement le compte", test_consent_service.py), once no operation
\* runs, unless two have run together or one was killed: then two links may have
\* been answered in opposite ways, or a link used for nothing.
Decided(d) == \E n \in DOMAIN links : links[n] = d
StatusIsDecided ==
  child /\ ~crossed /\ broken = 0 /\ (\A c \in Clerks : clerk[c].at = "off") =>
    /\ Decided("accepted") <=> status = "active"
    /\ Decided("refused") <=> status = "parental_consent_refused"
    /\ \A d \in Decisions : Decided(d) <=> proofs = <<d>>
===============================================================================
