------------------------------- MODULE Progress -------------------------------
(***************************************************************************)
(* What a pupil learns, on several devices: each keeps its answers in       *)
(* localStorage (store.js) and posts all of them after each one; the server *)
(* (api_stats of server.py, write_user_course_progress of auth.py) reads a  *)
(* file, merges, and writes it, in requests that run at the same time.      *)
(* Settings, and how many series a plan shows, are left out.                *)
(***************************************************************************)
EXTENDS Storage

CONSTANTS
  Devices,  \* browsers signed in to the account
  Author,   \* the device where an item is recorded
  Requests  \* requests that may be on their way or running at once

ASSUME ProgressAssumption == Author \in [Items -> Devices]

VARIABLES
  local,     \* "lumis:stats" of each device: none of what was recorded earlier
  signed,    \* the devices that are still signed in
  req,       \* the requests
  recorded,  \* history: what has been recorded on some device
  acked,     \* history: what the server has answered {"ok": true} to
  overlap,   \* history: two requests on one file have overlapped
  cut        \* history: a request has ended between its write and its cache

progress == <<local, signed, req, recorded, acked, overlap, cut>>

Idle == [at |-> "idle", dir |-> Stats, body |-> {}, file |-> {}]
Request == [at : {"idle", "sent", "read", "written"}, dir : Dirs,
            body : SUBSET Items, file : SUBSET Items]

ProgressOK ==
  /\ local \in [Devices -> SUBSET Items]
  /\ signed \subseteq Devices
  /\ req \in [Requests -> Request]
  /\ recorded \subseteq Items
  /\ acked \subseteq Items
  /\ overlap \in BOOLEAN
  /\ cut \in BOOLEAN

ProgressInit ==
  /\ local = [d \in Devices |-> {}]
  /\ signed = Devices
  /\ req = [r \in Requests |-> Idle]
  /\ recorded = Earlier
  /\ acked = Earlier
  /\ overlap = FALSE
  /\ cut = FALSE

\* The post is best effort: it may never arrive, and nobody is told.
Post(dir, items) ==
  \/ \E r \in Requests :
       /\ req[r].at = "idle"
       /\ req' = [req EXCEPT ![r] = [Idle EXCEPT !.at = "sent", !.dir = dir, !.body = items]]
  \/ UNCHANGED req

\* An answer joins the local state, all of which is posted; the reading of a
\* notion is posted alone.
Record(i) ==
  LET d == Author[i]
  IN /\ d \in signed
     /\ i \notin recorded
     /\ recorded' = recorded \cup {i}
     /\ IF DirOf[i] = Stats
        THEN /\ local' = [local EXCEPT ![d] = @ \cup {i}]
             /\ Post(Stats, local[d] \cup {i})
        ELSE UNCHANGED local /\ Post(DirOf[i], {i})
     /\ UNCHANGED <<signed, acked, overlap, cut, storage>>

\* hydrateFromServer: the answers of the file that the device lacks, if any.
Hydrate(d) ==
  LET union == local[d] \cup userdata[Stats]
  IN /\ d \in signed
     /\ database.account
     /\ union # local[d]
     /\ local' = [local EXCEPT ![d] = union]
     /\ Post(Stats, union)
     /\ UNCHANGED <<signed, recorded, acked, overlap, cut, storage>>

\* Another account signs in on this browser, which forgets this one; to come back
\* is to be a new device.
Leave(d) ==
  /\ d \in signed
  /\ signed' = signed \ {d}
  /\ local' = [local EXCEPT ![d] = {}]
  /\ UNCHANGED <<req, recorded, acked, overlap, cut, storage>>

\* _merge_stats_payload: the union by key; notions are merged likewise.
\* Mutant: what is posted replaces the file.
MergeReplaces(file, body) == body
Merge(file, body) == file \cup body

Inside(r) == req[r].at \in {"read", "written"}

\* The session is known, and the file, if any, is read.
Read(r) ==
  /\ req[r].at = "sent"
  /\ database.account
  /\ req' = [req EXCEPT ![r].at = "read", ![r].file = userdata[req[r].dir]]
  /\ UNCHANGED <<local, signed, recorded, acked, overlap, cut, storage>>

\* write_user_stats: the merged state replaces the file in one rename.
Write(r) ==
  LET merged == Merge(req[r].file, req[r].body)
  IN /\ req[r].at = "read"
     /\ userdata' = [userdata EXCEPT ![req[r].dir] = merged]
     /\ req' = [req EXCEPT ![r].at = "written", ![r].file = merged]
     /\ overlap' = (overlap \/ \E q \in Requests \ {r} : Inside(q) /\ req[q].dir = req[r].dir)
     /\ UNCHANGED <<local, signed, recorded, acked, cut, database>>

Cached(r) == req[r].file

\* update_stats_cache, then the answer. Without an account there is none.
Reply(r) ==
  /\ req[r].at = "written"
  /\ database.account
  /\ database' = IF req[r].dir = Stats THEN [database EXCEPT !.cache = Cached(r)] ELSE database
  /\ acked' = acked \cup req[r].body
  /\ req' = [req EXCEPT ![r] = Idle]
  /\ UNCHANGED <<local, signed, recorded, overlap, cut, userdata>>

\* The request is lost on its way, refused, killed, or fails.
Drop(r) ==
  /\ req[r].at # "idle"
  /\ req' = [req EXCEPT ![r] = Idle]
  /\ cut' = (cut \/ req[r].at = "written")
  /\ UNCHANGED <<local, signed, recorded, acked, overlap, storage>>

ProgressNext ==
  \/ \E i \in Items : Record(i)
  \/ \E d \in Devices : Hydrate(d) \/ Leave(d)
  \/ \E r \in Requests : Read(r) \/ Write(r) \/ Reply(r) \/ Drop(r)

-----------------------------------------------------------------------------
(* Properties *)

\* An answer that the server has acknowledged stays in the file, whatever other
\* devices post ("jamais un simple remplacement", "un ensemble d'entrees qui ne
\* fait que grossir", _merge_stats_payload).
AnswersAreKept == Kept(Stats, acked) \subseteq userdata[Stats]
=============================================================================
