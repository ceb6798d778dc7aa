-------------------------------- MODULE Guests --------------------------------
(***************************************************************************)
(* One browser of a visitor without an account: auth.py and db.py. A guest  *)
(* is a row of users with the files of his answers, deleted when he comes   *)
(* back to the landing page, stays away for two hours, or gets an account,  *)
(* to which he may take his answers. Requests of the browser interleave     *)
(* between any two statements or writes, and may be killed there; other     *)
(* visitors sweep the guests that are expired.                              *)
(***************************************************************************)
EXTENDS Integers, FiniteSets

CONSTANTS
  Guests,   \* ids of guests; an id is never given twice
  Account,  \* the id of the account that the visitor may register
  Nobody,
  Answers,
  Requests  \* requests of the browser

ASSUME RequestsAssumption == IsFiniteSet(Requests)
ASSUME GuestsAssumption == Account \notin Guests /\ Nobody \notin Guests /\ Account # Nobody

VARIABLES
  rows,    \* the guests in users
  born,    \* the guests ever created
  idle,    \* those whom nothing has touched for GUEST_IDLE_TTL_MINUTES
  files,   \* the answers in each one's file; none: no file
  cookie,  \* whose session the browser holds, as long as it lasts; his row may be gone
  local,   \* "lumis:stats": the answers of whom the cookie names
  req,     \* the requests
  owed,    \* history: the answers acknowledged that the visitor has not given up
  swept,   \* history: an expired guest has been swept
  mixed,   \* history: two requests have been open together
  cut      \* history: how many requests were killed after their first step

guests == <<rows, born, idle, files, cookie, local, req, owed, swept, cut>>

Owners == Guests \cup {Account}

Closed == [at |-> "closed", then |-> "closed", who |-> Nobody, body |-> {},
           data |-> {}, keep |-> FALSE, minor |-> FALSE]
Places == {"closed", "read", "write", "sweep", "create", "greet", "unlink", "delete",
           "account", "take", "give", "open"}
Request == [at : Places, then : Places, who : Owners \cup {Nobody}, body : SUBSET Answers,
            data : SUBSET Answers, keep : BOOLEAN, minor : BOOLEAN]

GuestsOK ==
  /\ rows \subseteq born /\ born \subseteq Guests
  /\ idle \subseteq rows
  /\ files \in [Owners -> SUBSET Answers]
  /\ cookie \in Owners \cup {Nobody}
  /\ local \subseteq Answers
  /\ req \in [Requests -> Request]
  /\ owed \subseteq Answers
  /\ swept \in BOOLEAN /\ mixed \in BOOLEAN /\ cut \in Nat

GuestsInit ==
  /\ rows = {} /\ born = {} /\ idle = {}
  /\ files = [u \in Owners |-> {}]
  /\ cookie = Nobody
  /\ local = {}
  /\ req = [r \in Requests |-> Closed]
  /\ owed = {}
  /\ swept = FALSE /\ mixed = FALSE /\ cut = 0

\* Two hours go by without a request of his: none lasts that long.
Idle(g) ==
  /\ g \in rows \ idle
  /\ \A r \in Requests : req[r].at = "closed"
  /\ idle' = idle \cup {g}
  /\ owed' = IF cookie = g THEN {} ELSE owed
  /\ UNCHANGED <<rows, born, files, cookie, local, req, swept, cut>>

\* Whose session it is: a row that is gone has taken its sessions along.
Known == IF cookie \in rows \cup {Account} THEN cookie ELSE Nobody

\* get_current_user: an expired guest is purged before the request goes on, as
\* nobody's. Otherwise it goes on as his, and touches him: he was not idle.
Identify(r, request, asNobody, asAccount, asGuest) ==
  LET found == [request EXCEPT !.who = Known,
                  !.at = IF Known = Nobody THEN asNobody ELSE IF Known = Account THEN asAccount ELSE asGuest]
      expired == [request EXCEPT !.who = Known, !.at = "unlink", !.then = asNobody]
  IN /\ req[r].at = "closed"
     /\ req' = [req EXCEPT ![r] = IF Known \in idle THEN expired ELSE found]

-----------------------------------------------------------------------------
(* enter_guest *)

\* Mutant: a session that is still valid is not used again.
EnterAnyway(r) ==
  /\ Identify(r, Closed, "sweep", "closed", "sweep")
  /\ UNCHANGED <<rows, born, idle, files, cookie, local, owed, swept, cut>>

Enter(r) ==
  /\ Identify(r, Closed, "sweep", "closed", "closed")
  /\ UNCHANGED <<rows, born, idle, files, cookie, local, owed, swept, cut>>

\* cleanup_expired_guests: rows go, and the ids it returns are not used. No guest
\* who is expired comes back to life between its SELECT and its DELETE.
Expel ==
  /\ rows' = rows \ idle
  /\ idle' = {}
  /\ swept' = (swept \/ \E g \in idle : files[g] # {})

Sweep(r) ==
  /\ req[r].at = "sweep"
  /\ Expel
  /\ req' = [req EXCEPT ![r].at = "create"]
  /\ UNCHANGED <<born, files, cookie, local, owed, cut>>

\* Another visitor enters.
Visit ==
  /\ idle # {}
  /\ Expel
  /\ UNCHANGED <<born, files, cookie, local, req, owed, cut>>

\* create_guest_user.
Create(r) ==
  /\ req[r].at = "create"
  /\ \E g \in Guests \ born :
       /\ born' = born \cup {g}
       /\ rows' = rows \cup {g}
       /\ req' = [req EXCEPT ![r].at = "greet", ![r].who = g]
  /\ UNCHANGED <<idle, files, cookie, local, owed, swept, cut>>

\* create_session, touch_guest_activity, and the answer.
Greet(r) ==
  /\ req[r].at = "greet"
  /\ cookie' = req[r].who
  /\ local' = {}
  /\ owed' = {}
  /\ req' = [req EXCEPT ![r] = Closed]
  /\ UNCHANGED <<rows, born, idle, files, swept, cut>>

-----------------------------------------------------------------------------
(* The purge of a guest, and the landing page *)

\* _purge_account: his files first, then his row. Mutant: in the other order.
UnlinkRowFirst(r) ==
  /\ req[r].at = "unlink"
  /\ rows' = rows \ {req[r].who}
  /\ idle' = idle \ {req[r].who}
  /\ req' = [req EXCEPT ![r].at = "delete"]
  /\ UNCHANGED <<born, files, cookie, local, owed, swept, cut>>

Unlink(r) ==
  /\ req[r].at = "unlink"
  /\ files' = [files EXCEPT ![req[r].who] = {}]
  /\ req' = [req EXCEPT ![r].at = "delete"]
  /\ UNCHANGED <<rows, born, idle, cookie, local, owed, swept, cut>>

\* Then his row. If that ends the request, his cookie is deleted, or left to name
\* nobody.
Delete(r) ==
  LET done == req[r].then = "closed"
      next == [req[r] EXCEPT !.at = req[r].then, !.then = "closed", !.who = Nobody]
  IN /\ req[r].at = "delete"
     /\ rows' = rows \ {req[r].who}
     /\ idle' = idle \ {req[r].who}
     /\ req' = [req EXCEPT ![r] = IF done THEN Closed ELSE next]
     /\ cookie' = IF done /\ cookie = req[r].who THEN Nobody ELSE cookie
     /\ local' = IF cookie' = cookie THEN local ELSE {}
     /\ UNCHANGED <<born, files, owed, swept, cut>>

\* _serve_landing: the end of a guest's session.
Land(r) ==
  /\ cookie \in rows
  /\ Identify(r, Closed, "closed", "closed", "unlink")
  /\ owed' = {}
  /\ UNCHANGED <<rows, born, idle, files, cookie, local, swept, cut>>

-----------------------------------------------------------------------------
(* Answers *)

\* recordAnswer, then POST /api/stats with the whole local state.
Post(r, a) ==
  /\ cookie \in Guests
  /\ a \notin local
  /\ local' = local \cup {a}
  /\ Identify(r, [Closed EXCEPT !.body = local'], "closed", "closed", "read")
  /\ UNCHANGED <<rows, born, idle, files, cookie, owed, swept, cut>>

Read(r) ==
  /\ req[r].at = "read"
  /\ req' = [req EXCEPT ![r].at = "write", ![r].data = files[req[r].who]]
  /\ UNCHANGED <<rows, born, idle, files, cookie, local, owed, swept, cut>>

Write(r) ==
  /\ req[r].at = "write"
  /\ files' = [files EXCEPT ![req[r].who] = req[r].data \cup req[r].body]
  /\ owed' = IF cookie = req[r].who THEN owed \cup req[r].body ELSE owed
  /\ req' = [req EXCEPT ![r] = Closed]
  /\ UNCHANGED <<rows, born, idle, cookie, local, swept, cut>>

-----------------------------------------------------------------------------
(* _transfer_guest_data *)

\* Mutant: the file is moved out instead of read.
TakeAway(r) ==
  /\ req[r].at = "take"
  /\ req' = [req EXCEPT ![r].at = "give", ![r].data = files[req[r].who]]
  /\ files' = [files EXCEPT ![req[r].who] = {}]
  /\ UNCHANGED <<rows, born, idle, cookie, local, owed, swept, cut>>

Take(r) ==
  /\ req[r].at = "take"
  /\ req' = [req EXCEPT ![r].at = "give", ![r].data = files[req[r].who]]
  /\ UNCHANGED <<rows, born, idle, files, cookie, local, owed, swept, cut>>

\* Then the purge of the guest, who has nothing left to give.
Give(r) ==
  /\ req[r].at = "give"
  /\ files' = [files EXCEPT ![Account] = req[r].data]
  /\ req' = [req EXCEPT ![r].at = "unlink"]
  /\ UNCHANGED <<rows, born, idle, cookie, local, owed, swept, cut>>

\* The request is killed, or fails.
Kill(r) ==
  /\ req[r].at # "closed"
  /\ req' = [req EXCEPT ![r] = Closed]
  /\ cut' = cut + 1
  /\ UNCHANGED <<rows, born, idle, files, cookie, local, owed, swept>>

GuestStep(r) ==
  \/ Enter(r) \/ Sweep(r) \/ Create(r) \/ Greet(r) \/ Land(r) \/ Unlink(r) \/ Delete(r)
  \/ (\E a \in Answers : Post(r, a)) \/ Read(r) \/ Write(r)
  \/ Take(r) \/ Give(r) \/ Kill(r)

GuestsNext == Visit \/ (\E g \in Guests : Idle(g)) \/ (\E r \in Requests : GuestStep(r))
===============================================================================
