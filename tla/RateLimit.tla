------------------------------ MODULE RateLimit ------------------------------
(***************************************************************************)
(* The sliding window of webapp/rate_limit_service.py (check, cleanup) over *)
(* the table rate_limit_events: one identity, one route. A request reads   *)
(* the clock, later runs one transaction that counts its window, and later *)
(* commits it; a row of the table stands for one second, and its count is  *)
(* the number of hits at that second. A worker that starts cleans old rows *)
(* up. What may happen between the count and the commit is the engine's.   *)
(***************************************************************************)
EXTENDS Integers, FiniteSets

CONSTANTS
  Requests,    \* request threads
  Limit,       \* `requests` of @rate_limit
  Period,      \* `per_seconds`
  Retention,   \* DEFAULT_RETENTION_SECONDS
  MaxStall,    \* longest time between the clock and the commit, in seconds
  LastSecond,  \* bound: the clock stops there
  Engine       \* the database of DATABASE_URL

ASSUME LimitAssumption == Limit \in Nat \ {0} /\ Period \in Nat \ {0}
ASSUME BoundAssumption == LastSecond \in Nat
ASSUME EngineAssumption == Engine \in {"sqlite", "postgresql"}
\* "Toute fenetre plus ancienne que ceci n'a plus d'influence sur AUCUNE
\* decision": with hour-long windows, MaxStall is 1.
ASSUME RetentionAssumption ==
  Retention \in Nat /\ MaxStall \in Nat /\ Period + MaxStall <= Retention + 1

VARIABLES
  now,     \* int(time.time())
  rows,    \* the seconds that have a row
  hits,    \* the admitted requests that the rows count
  served,  \* history: all admitted requests
  pc,      \* per request: idle, its clock is read, its window is counted
  stamp,   \* the clock it read
  total    \* what it counted, itself included

vars == <<now, rows, hits, served, pc, stamp, total>>

Seconds == 0..LastSecond
Hits == [n : Nat, at : Seconds]

TypeOK ==
  /\ now \in Seconds
  /\ rows \subseteq Seconds
  /\ served \subseteq Hits /\ IsFiniteSet(served)
  /\ \A h \in served : h.n <= Cardinality(served) /\ h.at <= now
  /\ hits \subseteq served
  /\ \A h \in hits : h.at \in rows
  /\ pc \in [Requests -> {"idle", "dated", "counted"}]
  /\ stamp \in [Requests -> Seconds]
  /\ total \in [Requests -> Nat]
  /\ \A r \in Requests : stamp[r] <= now /\ (pc[r] # "idle" => now <= stamp[r] + MaxStall)

Init ==
  /\ now = 0
  /\ rows = {}
  /\ hits = {}
  /\ served = {}
  /\ pc = [r \in Requests |-> "idle"]
  /\ stamp = [r \in Requests |-> 0]
  /\ total = [r \in Requests |-> 0]

-----------------------------------------------------------------------------
Tick ==
  /\ now < LastSecond
  /\ \A r \in Requests : pc[r] # "idle" => now < stamp[r] + MaxStall
  /\ now' = now + 1
  /\ UNCHANGED <<rows, hits, served, pc, stamp, total>>

\* check
Arrive(r) ==
  /\ pc[r] = "idle"
  /\ pc' = [pc EXCEPT ![r] = "dated"]
  /\ stamp' = [stamp EXCEPT ![r] = now]
  /\ UNCHANGED <<now, rows, hits, served, total>>

\* The rows a request looks at, and what they count.
SinceTooLate(r) == stamp[r] - Period + 2  \* mutant: a window of Period - 1 seconds
SinceTooFar(r) == stamp[r] - Period       \* mutant: a window of Period + 1 seconds
Since(r) == stamp[r] - Period + 1
Counted(since) == {h \in hits : h.at >= since}

\* Between INSERT and commit SQLite locks out every other writer; PostgreSQL,
\* at the isolation level the pool leaves it, only those of the same row.
LocksNothing(q, r) == FALSE  \* mutant: each statement is a transaction of its own
Excludes(q, r) == pc[q] = "counted" /\ (Engine = "sqlite" \/ stamp[q] = stamp[r])

\* check_and_record_rate_limit, INSERT and SELECT.
Count(r) ==
  /\ pc[r] = "dated"
  /\ \A q \in Requests : ~Excludes(q, r)
  /\ total' = [total EXCEPT ![r] = Cardinality(Counted(Since(r))) + 1]
  /\ pc' = [pc EXCEPT ![r] = "counted"]
  /\ UNCHANGED <<now, rows, hits, served, stamp>>

\* The rest of it: the row of the request's second, incremented, is committed ...
Admit(r) ==
  /\ pc[r] = "counted"
  /\ total[r] <= Limit
  /\ LET hit == [n |-> Cardinality(served) + 1, at |-> stamp[r]]
     IN hits' = hits \cup {hit} /\ served' = served \cup {hit}
  /\ rows' = rows \cup {stamp[r]}
  /\ pc' = [pc EXCEPT ![r] = "idle"]
  /\ UNCHANGED <<now, stamp, total>>

\* Mutant: the row is deleted instead of decremented.
RefuseAndDelete(r) ==
  /\ pc[r] = "counted"
  /\ total[r] > Limit
  /\ rows' = rows \ {stamp[r]}
  /\ pc' = [pc EXCEPT ![r] = "idle"]
  /\ UNCHANGED <<now, hits, served, stamp, total>>

\* ... or decremented again first, which leaves the row behind with what it
\* counted before, 0 if it is new.
Refuse(r) ==
  /\ pc[r] = "counted"
  /\ total[r] > Limit
  /\ rows' = rows \cup {stamp[r]}
  /\ pc' = [pc EXCEPT ![r] = "idle"]
  /\ UNCHANGED <<now, hits, served, stamp, total>>

\* The transaction is rolled back.
Fail(r) ==
  /\ pc[r] # "idle"
  /\ pc' = [pc EXCEPT ![r] = "idle"]
  /\ UNCHANGED <<now, rows, hits, served, stamp, total>>

\* cleanup(), when a worker starts.
CutoffOfPeriod == now - Period + MaxStall  \* mutant: the window is still needed
Cutoff == now - Retention
Cleanup ==
  /\ Engine = "sqlite" => \A q \in Requests : pc[q] # "counted"
  /\ hits' = {h \in hits : h.at >= Cutoff}
  /\ rows' = {s \in rows : s >= Cutoff}
  /\ UNCHANGED <<now, served, pc, stamp, total>>

Next ==
  \/ Tick
  \/ \E r \in Requests : Arrive(r) \/ Count(r) \/ Admit(r) \/ Refuse(r) \/ Fail(r)
  \/ Cleanup

Spec == Init /\ [][Next]_vars

-----------------------------------------------------------------------------
(* Properties *)

\* No window of Period seconds, wherever it starts, ever holds more than Limit
\* admitted requests, although rows are deleted and late requests record
\* themselves in the past ("jamais de requete comptee au-dela de la limite meme
\* sous acces concurrents", check).
Window(t) == {h \in served : t - Period < h.at /\ h.at <= t}
WindowBound == \A t \in Seconds : Cardinality(Window(t)) <= Limit

\* A request is refused only if Limit requests were admitted since Period
\* seconds before it: a refusal costs nothing to the next ones
\* (test_requete_refusee_nest_jamais_comptee).
RefusalsAreDeserved ==
  [][\A r \in Requests :
       Refuse(r) => Cardinality({h \in served : h.at > stamp[r] - Period}) >= Limit]_vars

\* Between its count and its commit a request may be overtaken, its row may be
\* deleted and it may be late: the limiter still decides as one that forgets
\* nothing and admits in one step ("fenetre glissante reelle", "jamais un
\* lire-puis-ecrire separe", module docstring).
Sliding == INSTANCE SlidingWindow
ImplementsWindow == Sliding!Spec
=============================================================================
