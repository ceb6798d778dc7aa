--------------------------- MODULE DurabilityProofs ---------------------------
(***************************************************************************)
(* Proofs about Durability, for any number of devices, requests, archives  *)
(* and jobs: answers that follow one another are kept and their file only  *)
(* grows, a device keeps what it recorded, the live database is never an   *)
(* empty file, a day has one automatic backup, what a restoration          *)
(* overwrites or brings back, and what the retention spares.               *)
(***************************************************************************)
EXTENDS Durability, FiniteSetTheorems, TLAPS

-----------------------------------------------------------------------------
(* Archives *)

LEMMA PutIs ==
  ASSUME NEW f, NEW x, NEW v
  PROVE  /\ DOMAIN Put(f, x, v) = DOMAIN f \cup {x}
         /\ \A y \in DOMAIN f \ {x} : Put(f, x, v)[y] = f[y]
         /\ Put(f, x, v)[x] = v
BY DEF Put

LEMMA WithoutIs ==
  ASSUME NEW f, NEW S
  PROVE  /\ DOMAIN Without(f, S) = DOMAIN f \ S
         /\ \A y \in DOMAIN f \ S : Without(f, S)[y] = f[y]
BY DEF Without, Restrict

LEMMA OpenedIs ==
  ASSUME NEW name
  PROVE  /\ DOMAIN Opened(name) = DOMAIN dumps \cup {name}
         /\ \A y \in DOMAIN dumps : Opened(name)[y] = dumps[y]
         /\ name \notin DOMAIN dumps => Opened(name)[name] = Blank
<1>1. CASE name \in DOMAIN dumps
  BY <1>1 DEF Opened
<1>2. CASE name \notin DOMAIN dumps
  <2>1. Opened(name) = Put(dumps, name, Blank)
    BY <1>2 DEF Opened
  <2>. QED
    BY <1>2, <2>1 DEF Put
<1>. QED
  BY <1>1, <1>2

-----------------------------------------------------------------------------
(* Types *)

LEMMA DatabaseTypes ==
  ASSUME database \in Databases
  PROVE  /\ Blank \in Databases
         /\ \A today \in Days : [database EXCEPT !.claims = @ \cup {today}] \in Databases
         /\ \A cache \in SUBSET Items : [database EXCEPT !.cache = cache] \in Databases
BY DEF Blank, Databases

\* The steps of the pupil keep the types of what they touch.
LEMMA ProgressTypes ==
  ASSUME StorageOK, ProgressOK, ProgressNext
  PROVE  StorageOK' /\ ProgressOK'
<1> USE StorageAssumption, ProgressAssumption DEF StorageOK, ProgressOK
<1>0. /\ \A r \in Requests : req[r] \in Request
      /\ Idle \in Request
      /\ userdata \in [Dirs -> SUBSET Items]
  BY DEF Idle, Request, Contents
<1>1. ASSUME NEW dir \in Dirs, NEW items \in SUBSET Items, Post(dir, items)
      PROVE  req' \in [Requests -> Request]
  <2>1. [Idle EXCEPT !.at = "sent", !.dir = dir, !.body = items] \in Request
    BY DEF Idle, Request
  <2>. QED
    BY <1>1, <2>1 DEF Post
<1>2. ASSUME NEW i \in Items, Record(i) PROVE StorageOK' /\ ProgressOK'
  <2>1. /\ UNCHANGED <<signed, acked, overlap, cut, storage>> /\ recorded' = recorded \cup {i}
        /\ Author[i] \in Devices /\ DirOf[i] \in Dirs
    BY <1>2 DEF Record
  <2>2. CASE DirOf[i] = Stats
    <3>1. /\ local' = [local EXCEPT ![Author[i]] = @ \cup {i}]
          /\ Post(Stats, local[Author[i]] \cup {i})
      BY <1>2, <2>2 DEF Record
    <3>. QED
      BY <1>1, <2>1, <3>1 DEF storage
  <2>3. CASE DirOf[i] # Stats
    <3>1. local' = local /\ Post(DirOf[i], {i})
      BY <1>2, <2>3 DEF Record
    <3>. QED
      BY <1>1, <2>1, <3>1 DEF storage
  <2>. QED
    BY <2>2, <2>3
<1>3. ASSUME NEW d \in Devices, Hydrate(d) PROVE StorageOK' /\ ProgressOK'
  <2>1. local[d] \cup userdata[Stats] \in SUBSET Items
    BY <1>0
  <2>2. req' \in [Requests -> Request]
    BY <1>1, <1>3, <2>1 DEF Hydrate
  <2>. QED
    BY <1>3, <2>1, <2>2 DEF Hydrate, storage
<1>4. ASSUME NEW d \in Devices, Leave(d) PROVE StorageOK' /\ ProgressOK'
  BY <1>4 DEF Leave, storage
<1>5. ASSUME NEW r \in Requests, Read(r) PROVE StorageOK' /\ ProgressOK'
  <2>1. [req[r] EXCEPT !.at = "read", !.file = userdata[req[r].dir]] \in Request
    BY <1>0 DEF Request
  <2>2. req' = [req EXCEPT ![r] = [req[r] EXCEPT !.at = "read", !.file = userdata[req[r].dir]]]
    BY <1>0, <1>5 DEF Read
  <2>. QED
    BY <1>5, <2>1, <2>2 DEF Read, storage
<1>6. ASSUME NEW r \in Requests, Write(r) PROVE StorageOK' /\ ProgressOK'
  <2> DEFINE merged == Merge(req[r].file, req[r].body)
  <2>1. merged \in SUBSET Items
    BY <1>0 DEF Merge, Request
  <2>. HIDE DEF merged
  <2>2. [req[r] EXCEPT !.at = "written", !.file = merged] \in Request
    BY <1>0, <2>1 DEF Request
  <2>3. /\ req' = [req EXCEPT ![r] = [req[r] EXCEPT !.at = "written", !.file = merged]]
        /\ userdata' = [userdata EXCEPT ![req[r].dir] = merged]
        /\ overlap' \in BOOLEAN
        /\ UNCHANGED <<local, signed, recorded, acked, cut, database>>
    BY <1>0, <1>6 DEF Write, merged
  <2>. QED
    BY <1>0, <2>1, <2>2, <2>3 DEF Contents
<1>7. ASSUME NEW r \in Requests, Reply(r) PROVE StorageOK' /\ ProgressOK'
  <2>1. database' \in Databases
    BY <1>0, <1>7, DatabaseTypes DEF Reply, Cached, Request
  <2>2. /\ acked' = acked \cup req[r].body /\ req' = [req EXCEPT ![r] = Idle]
        /\ UNCHANGED <<local, signed, recorded, overlap, cut, userdata>>
    BY <1>7 DEF Reply
  <2>. QED
    BY <1>0, <2>1, <2>2 DEF Request
<1>8. ASSUME NEW r \in Requests, Drop(r) PROVE StorageOK' /\ ProgressOK'
  BY <1>0, <1>8 DEF Drop, storage
<1>. QED
  BY <1>2, <1>3, <1>4, <1>5, <1>6, <1>7, <1>8 DEF ProgressNext

\* Archives of known names, of timestamps under n, with contents in T.
Dated(f, T, n) == DOMAIN f \subseteq Names /\ \A x \in DOMAIN f : x.n < n /\ f[x] \in T

\* A job whose archives have timestamps under n.
Fit(q, n) == q \in Job /\ q.name.n < n /\ q.copy.n < n
AllFit(jobs, n) == jobs \in [Jobs -> Job] /\ \A j \in Jobs : jobs[j].name.n < n /\ jobs[j].copy.n < n

Archives ==
  /\ Dated(dumps, Databases, stamp)
  /\ Dated(zips, Contents, stamp)
  /\ AllFit(job, stamp)

\* The types of Backup, as its steps preserve them.
WellTyped ==
  /\ StorageOK
  /\ Archives
  /\ day \in Days /\ stamp \in Nat \ {0} /\ restores \in Nat
  /\ tmp \subseteq Databases /\ upset \in BOOLEAN

LEMMA WellTypedIs ==
  ASSUME WellTyped
  PROVE  StorageOK /\ BackupOK
BY DEF WellTyped, Archives, Dated, AllFit, BackupOK, Stamped

LEMMA NewIs ==
  ASSUME WellTyped, NEW kind \in {"backup", "pre_restore"}
  PROVE  /\ New(kind) \in Names /\ New(kind).n = stamp /\ New(kind).kind = kind
         /\ New(kind) \notin DOMAIN dumps /\ New(kind) \notin DOMAIN zips
BY DEF New, Names, WellTyped, Archives, Dated

LEMMA RestingIs ==
  /\ Resting \in Job /\ NoName \in Names /\ NoName.n = 0
  /\ Resting.name = NoName /\ Resting.copy = NoName /\ Resting.at = "idle" /\ Resting.auto = FALSE
BY StorageAssumption DEF Resting, Job, Places, NoName, Names, Days, Contents

LEMMA DatedLater ==
  ASSUME NEW T, NEW f, NEW n \in Nat, Dated(f, T, n)
  PROVE  Dated(f, T, n + 1)
BY DEF Dated, Names

LEMMA DatedPut ==
  ASSUME NEW T, NEW f, NEW n \in Nat, Dated(f, T, n), NEW name \in Names, name.n < n, NEW v \in T
  PROVE  Dated(Put(f, name, v), T, n)
<1>1. DOMAIN Put(f, name, v) = DOMAIN f \cup {name}
  BY DEF Put
<1>2. \A x \in DOMAIN Put(f, name, v) : Put(f, name, v)[x] \in T
  BY <1>1 DEF Put, Dated
<1>. QED
  BY <1>1, <1>2 DEF Dated

LEMMA DatedWithout ==
  ASSUME NEW T, NEW f, NEW n \in Nat, Dated(f, T, n), NEW S
  PROVE  Dated(Without(f, S), T, n)
BY DEF Dated, Without, Restrict

LEMMA DatedOpened ==
  ASSUME WellTyped, NEW name \in Names, name.n < stamp
  PROVE  Dated(Opened(name), Databases, stamp) /\ Opened(name)[name] \in Databases
<1>1. CASE name \in DOMAIN dumps
  BY <1>1 DEF Opened, WellTyped, Archives, Dated
<1>2. CASE name \notin DOMAIN dumps
  <2>1. Opened(name) = Put(dumps, name, Blank) /\ Blank \in Databases
    BY <1>2, DatabaseTypes DEF Opened, WellTyped, StorageOK
  <2>2. stamp \in Nat /\ Dated(dumps, Databases, stamp)
    BY DEF WellTyped, Archives
  <2>3. Dated(Opened(name), Databases, stamp)
    BY <2>1, <2>2, DatedPut
  <2>4. Opened(name)[name] = Blank
    BY <2>1 DEF Put
  <2>. QED
    BY <2>1, <2>3, <2>4
<1>. QED
  BY <1>1, <1>2

\* A job that changes, and the others.
LEMMA OneJob ==
  ASSUME WellTyped, NEW j \in Jobs, NEW n \in {stamp, stamp + 1}, NEW q, Fit(q, n)
  PROVE  AllFit([job EXCEPT ![j] = q], n)
<1>1. \A k \in Jobs : job[k].name.n \in Nat /\ job[k].copy.n \in Nat
  BY DEF WellTyped, Archives, AllFit, Job, Names
<1>2. AllFit(job, stamp) /\ stamp \in Nat
  BY DEF WellTyped, Archives
<1>. QED
  BY <1>1, <1>2 DEF AllFit, Fit

\* Each step of a job keeps the types.
LEMMA WorkTypes ==
  ASSUME WellTyped, NEW j \in Jobs, Work(j)
  PROVE  WellTyped'
<1> USE StorageAssumption DEF Places
<1>0. /\ job[j] \in Job /\ Fit(job[j], stamp) /\ AllFit(job, stamp) /\ job \in [Jobs -> Job]
      /\ job[j].name \in Names /\ job[j].copy \in Names
      /\ job[j].name.n < stamp /\ job[j].copy.n < stamp /\ job[j].name.n \in Nat /\ job[j].copy.n \in Nat
      /\ job[j].dir \in Dirs /\ job[j].todo \subseteq Dirs /\ job[j].data \in Contents
      /\ stamp \in Nat \ {0} /\ stamp + 1 \in Nat /\ day \in Days /\ restores \in Nat
      /\ tmp \subseteq Databases /\ upset \in BOOLEAN
      /\ job[j].doomed \subseteq Names
      /\ database \in Databases /\ userdata \in Contents
      /\ Dated(dumps, Databases, stamp) /\ Dated(zips, Contents, stamp)
  BY DEF WellTyped, Archives, AllFit, Fit, StorageOK, Job, Names
<1>a. ASSUME StorageOK', UNCHANGED <<day, stamp, dumps, zips, restores, tmp, upset>>,
             NEW q, Fit(q, stamp), job' = [job EXCEPT ![j] = q]
      PROVE  WellTyped'
  <2>1. AllFit(job', stamp')
    BY <1>a, OneJob
  <2>. QED
    BY <1>0, <1>a, <2>1 DEF WellTyped, Archives
<1>b. ASSUME StorageOK', UNCHANGED <<day, restores, tmp, upset>>, stamp' = stamp + 1,
             Dated(dumps', Databases, stamp + 1), Dated(zips', Contents, stamp + 1),
             NEW q, Fit(q, stamp + 1), job' = [job EXCEPT ![j] = q]
      PROVE  WellTyped'
  <2>1. AllFit(job', stamp')
    BY <1>b, OneJob
  <2>. QED
    BY <1>0, <1>b, <2>1 DEF WellTyped, Archives
<1>d. UNCHANGED storage => StorageOK'
  BY DEF storage, WellTyped, StorageOK
<1>e. Fit(Resting, stamp) /\ Fit(Resting, stamp + 1)
  BY <1>0, RestingIs DEF Fit
<1>1. CASE Claim(j)
  <2> DEFINE q == [Resting EXCEPT !.at = "dump", !.auto = TRUE, !.day = day]
  <2>1. q \in Job /\ q.name.n = 0 /\ q.copy.n = 0
    BY <1>0, RestingIs DEF Job
  <2>2. Fit(q, stamp)
    BY <1>0, <2>1 DEF Fit
  <2>3. job' = [job EXCEPT ![j] = q]
    BY <1>1 DEF Claim, Start
  <2>4. database' \in Databases
    BY <1>0, <1>1, DatabaseTypes DEF Claim
  <2>5. /\ StorageOK' /\ UNCHANGED <<day, stamp, dumps, zips, restores, tmp, upset>>
    BY <1>0, <1>1, <2>4 DEF Claim, StorageOK
  <2>. QED
    BY <1>a, <2>2, <2>3, <2>5
<1>2. CASE Create(j)
  <2> DEFINE q == [Resting EXCEPT !.at = "dump"]
  <2>1. q \in Job /\ q.name.n = 0 /\ q.copy.n = 0
    BY <1>0, RestingIs DEF Job
  <2>2. Fit(q, stamp)
    BY <1>0, <2>1 DEF Fit
  <2>3. job' = [job EXCEPT ![j] = q]
    BY <1>2 DEF Create, Start
  <2>4. UNCHANGED <<day, stamp, dumps, zips, restores, tmp, upset, storage>>
    BY <1>2 DEF Create
  <2>. QED
    BY <1>a, <1>d, <2>2, <2>3, <2>4
<1>3. CASE Dump(j)
  <2> DEFINE q == [job[j] EXCEPT !.at = "zip", !.name = New("backup")]
  <2>1. q \in Job /\ q.name.n = stamp /\ q.copy = job[j].copy
    BY <1>0, NewIs DEF Job
  <2>2. Fit(q, stamp + 1)
    BY <1>0, <2>1 DEF Fit
  <2>3. job' = [job EXCEPT ![j] = q]
    BY <1>0, <1>3 DEF Dump
  <2>4. /\ dumps' = Put(dumps, New("backup"), database) /\ stamp' = stamp + 1
        /\ UNCHANGED <<day, zips, restores, tmp, upset, storage>>
    BY <1>3 DEF Dump, NextStamp
  <2>5. New("backup") \in Names /\ New("backup").n < stamp + 1
    BY <1>0, NewIs
  <2>6. Dated(dumps', Databases, stamp + 1)
    BY <1>0, <2>4, <2>5, DatedLater, DatedPut
  <2>7. Dated(zips', Contents, stamp + 1)
    BY <1>0, <2>4, DatedLater
  <2>. QED
    BY <1>b, <1>d, <2>2, <2>3, <2>4, <2>6, <2>7
<1>4. CASE Zip(j)
  <2> DEFINE q == [Resting EXCEPT !.at = "retain"]
  <2>1. q \in Job /\ q.name.n = 0 /\ q.copy.n = 0
    BY <1>0, RestingIs DEF Job
  <2>2. Fit(q, stamp)
    BY <1>0, <2>1 DEF Fit
  <2>3. job' = [job EXCEPT ![j] = q]
    BY <1>4 DEF Zip
  <2>4. /\ zips' = Put(zips, job[j].name, userdata)
        /\ UNCHANGED <<day, stamp, dumps, restores, tmp, upset, storage>>
    BY <1>4 DEF Zip
  <2>5. Dated(zips', Contents, stamp)
    BY <1>0, <2>4, DatedPut
  <2>6. AllFit(job', stamp)
    BY <2>2, <2>3, OneJob
  <2>. QED
    BY <1>0, <1>d, <2>4, <2>5, <2>6 DEF WellTyped, Archives
<1>5. CASE Retain(j)
  <2>1. PICK edge \in Nat, doomed \in SUBSET Names :
          job' = [job EXCEPT ![j] = [Resting EXCEPT !.at = "purge", !.day = day, !.edge = edge, !.doomed = doomed]]
    <3>1. PICK edge \in IF day < Retention THEN {0} ELSE 0 .. stamp - 1 :
            job' = [job EXCEPT ![j] = [Resting EXCEPT !.at = "purge", !.day = day, !.edge = edge,
                      !.doomed = {name \in DOMAIN dumps : name.kind = "backup"
                                    /\ (Expired(name, day, edge) \/ Surplus(name, edge))}]]
      BY <1>5 DEF Retain
    <3>2. edge \in Nat
      BY <1>0, <3>1
    <3>3. {name \in DOMAIN dumps : name.kind = "backup" /\ (Expired(name, day, edge) \/ Surplus(name, edge))} \in SUBSET Names
      BY <1>0 DEF Dated
    <3>. QED
      BY <3>1, <3>2, <3>3
  <2> DEFINE q == [Resting EXCEPT !.at = "purge", !.day = day, !.edge = edge, !.doomed = doomed]
  <2>2. q \in Job /\ q.name.n = 0 /\ q.copy.n = 0
    BY <1>0, RestingIs DEF Job
  <2>3. Fit(q, stamp)
    BY <1>0, <2>2 DEF Fit
  <2>4. UNCHANGED <<day, stamp, dumps, zips, restores, tmp, upset, storage>>
    BY <1>5 DEF Retain
  <2>. QED
    BY <1>a, <1>d, <2>1, <2>3, <2>4
<1>14. CASE Purge(j)
  <2>1. PICK name :
          /\ dumps' = dumps \/ dumps' = Without(dumps, {name})
          /\ zips' = zips \/ zips' = Without(zips, {name})
          /\ job' = [job EXCEPT ![j].doomed = @ \ {name}]
          /\ UNCHANGED <<day, stamp, restores, tmp, storage>>
    BY <1>14 DEF Purge
  <2> DEFINE q == [job[j] EXCEPT !.doomed = @ \ {name}]
  <2>2. q \in Job /\ q.name = job[j].name /\ q.copy = job[j].copy
    BY <1>0 DEF Job
  <2>3. Fit(q, stamp)
    BY <1>0, <2>2 DEF Fit
  <2>4. job' = [job EXCEPT ![j] = q]
    BY <1>0, <2>1
  <2>5. upset' \in BOOLEAN
    BY <1>0, <1>14 DEF Purge, Vanishes
  <2>6. Dated(dumps', Databases, stamp) /\ Dated(zips', Contents, stamp)
    BY <1>0, <2>1, DatedWithout
  <2>7. AllFit(job', stamp)
    BY <2>3, <2>4, OneJob
  <2>. QED
    BY <1>0, <1>d, <2>1, <2>5, <2>6, <2>7 DEF WellTyped, Archives
<1>15. CASE PurgeZip(j)
  <2>1. PICK name : zips' = Without(zips, {name})
    BY <1>15 DEF PurgeZip
  <2>2. UNCHANGED <<day, stamp, dumps, job, restores, tmp, upset, storage>>
    BY <1>15 DEF PurgeZip
  <2>3. Dated(zips', Contents, stamp)
    BY <1>0, <2>1, DatedWithout
  <2>. QED
    BY <1>0, <1>d, <2>2, <2>3 DEF WellTyped, Archives
<1>16. CASE Retained(j)
  <2>1. /\ job' = [job EXCEPT ![j] = Resting]
        /\ UNCHANGED <<day, stamp, dumps, zips, restores, tmp, upset, storage>>
    BY <1>16 DEF Retained
  <2>. QED
    BY <1>a, <1>d, <1>e, <2>1
<1>6. ASSUME NEW name \in DOMAIN dumps, Restore(j, name) PROVE WellTyped'
  <2> DEFINE q == [Resting EXCEPT !.at = "safe", !.name = name]
  <2>1. name \in Names /\ name.n < stamp
    BY <1>0 DEF Dated
  <2>2. q \in Job /\ q.name = name /\ q.copy.n = 0
    BY <1>0, <2>1, RestingIs DEF Job
  <2>3. Fit(q, stamp)
    BY <1>0, <2>1, <2>2 DEF Fit
  <2>4. job' = [job EXCEPT ![j] = q]
    BY <1>6 DEF Restore, Start
  <2>5. restores' \in Nat /\ UNCHANGED <<day, stamp, dumps, zips, tmp, upset, storage>>
    BY <1>0, <1>6 DEF Restore
  <2>6. AllFit(job', stamp)
    BY <2>3, <2>4, OneJob
  <2>. QED
    BY <1>0, <1>d, <2>5, <2>6 DEF WellTyped, Archives
<1>7. CASE SafetyCopy(j)
  <2> DEFINE q == [job[j] EXCEPT !.at = "copy", !.copy = New("pre_restore")]
  <2>1. q \in Job /\ q.copy.n = stamp /\ q.name = job[j].name
    BY <1>0, NewIs DEF Job
  <2>2. Fit(q, stamp + 1)
    BY <1>0, <2>1 DEF Fit
  <2>3. job' = [job EXCEPT ![j] = q]
    BY <1>0, <1>7 DEF SafetyCopy
  <2>4. /\ dumps' = Put(Opened(job[j].name), New("pre_restore"), database) /\ stamp' = stamp + 1
        /\ UNCHANGED <<day, zips, restores, tmp, upset, storage>>
    BY <1>7 DEF SafetyCopy, NextStamp
  <2>5. New("pre_restore") \in Names /\ New("pre_restore").n < stamp + 1
    BY <1>0, NewIs
  <2>6. Dated(Opened(job[j].name), Databases, stamp + 1)
    BY <1>0, DatedOpened, DatedLater
  <2>7. Dated(dumps', Databases, stamp + 1)
    BY <1>0, <2>4, <2>5, <2>6, DatedPut
  <2>8. Dated(zips', Contents, stamp + 1)
    BY <1>0, <2>4, DatedLater
  <2>. QED
    BY <1>b, <1>d, <2>2, <2>3, <2>4, <2>7, <2>8
<1>8. CASE Copy(j)
  <2>1. /\ dumps' = Opened(job[j].name) /\ UNCHANGED <<day, stamp, zips, restores, storage>>
        /\ tmp' = {Opened(job[j].name)[job[j].name]} \/ tmp' = {Blank}
        /\ job' = [job EXCEPT ![j].at = "replace"] \/ job' = [job EXCEPT ![j] = Resting]
    BY <1>8 DEF Copy
  <2>2. Dated(dumps', Databases, stamp) /\ tmp' \subseteq Databases
    BY <1>0, <2>1, DatedOpened, DatabaseTypes
  <2> DEFINE q == [job[j] EXCEPT !.at = "replace"]
  <2>3. q \in Job /\ q.name = job[j].name /\ q.copy = job[j].copy
    BY <1>0 DEF Job
  <2>4. Fit(q, stamp)
    BY <1>0, <2>3 DEF Fit
  <2>5. job' = [job EXCEPT ![j] = q] \/ job' = [job EXCEPT ![j] = Resting]
    BY <1>0, <2>1
  <2>6. AllFit(job', stamp)
    BY <1>e, <2>4, <2>5, OneJob
  <2>7. upset' \in BOOLEAN
    BY <1>0, <1>8 DEF Copy, Meets
  <2>. QED
    BY <1>0, <1>d, <2>1, <2>2, <2>6, <2>7 DEF WellTyped, Archives
<1>13. CASE Replace(j)
  <2>1. /\ database' \in tmp \cup {Blank} /\ tmp' = {}
        /\ UNCHANGED <<day, stamp, dumps, zips, restores, userdata>>
    BY <1>13 DEF Replace
  <2>2. database' \in Databases
    BY <1>0, <2>1, DatabaseTypes
  <2> DEFINE q == [Resting EXCEPT !.at = "extract", !.name = job[j].name]
  <2>3. q \in Job /\ q.name = job[j].name /\ q.copy.n = 0
    BY <1>0, RestingIs DEF Job
  <2>4. Fit(q, stamp)
    BY <1>0, <2>3 DEF Fit
  <2>5. job' = [job EXCEPT ![j] = q] \/ job' = [job EXCEPT ![j] = Resting]
    BY <1>13 DEF Replace
  <2>6. AllFit(job', stamp)
    BY <1>e, <2>4, <2>5, OneJob
  <2>7. upset' \in BOOLEAN
    BY <1>0, <1>13 DEF Replace, Meets
  <2>. QED
    BY <1>0, <2>1, <2>2, <2>6, <2>7 DEF WellTyped, Archives, StorageOK
<1>9. CASE Extract(j)
  <2> DEFINE q == [job[j] EXCEPT !.at = "remove", !.copy = New("pre_restore"),
                     !.data = Twin(j), !.todo = Archived(Twin(j))]
  <2>1. Twin(j) \in Contents /\ Archived(Twin(j)) \subseteq Dirs
    BY <1>0, <1>9 DEF Extract, Twin, Archived, Contents, Dated
  <2>2. q \in Job /\ q.copy.n = stamp /\ q.name = job[j].name
    BY <1>0, <2>1, NewIs DEF Job
  <2>3. Fit(q, stamp + 1)
    BY <1>0, <2>2 DEF Fit
  <2>4. job' = [job EXCEPT ![j] = q] \/ job' = [job EXCEPT ![j] = Resting]
    BY <1>0, <1>9 DEF Extract
  <2>5. /\ zips' = Put(zips, New("pre_restore"), userdata) /\ stamp' = stamp + 1
        /\ UNCHANGED <<day, dumps, restores, tmp, upset, storage>>
    BY <1>9 DEF Extract, NextStamp
  <2>6. New("pre_restore") \in Names /\ New("pre_restore").n < stamp + 1
    BY <1>0, NewIs
  <2>7. Dated(zips', Contents, stamp + 1)
    BY <1>0, <2>5, <2>6, DatedLater, DatedPut
  <2>8. Dated(dumps', Databases, stamp + 1)
    BY <1>0, <2>5, DatedLater
  <2>. QED
    BY <1>b, <1>d, <1>e, <2>3, <2>4, <2>5, <2>7, <2>8
<1>10. CASE Remove(j)
  <2>1. PICK d \in job[j].todo :
          /\ userdata' = [userdata EXCEPT ![d] = {}]
          /\ job' = [job EXCEPT ![j].at = "promote", ![j].dir = d, ![j].todo = @ \ {d}]
          /\ UNCHANGED <<day, stamp, dumps, zips, restores, tmp, upset, database>>
    BY <1>10 DEF Remove
  <2> DEFINE q == [job[j] EXCEPT !.at = "promote", !.dir = d, !.todo = @ \ {d}]
  <2>2. q \in Job /\ q.name = job[j].name /\ q.copy = job[j].copy
    BY <1>0, <2>1 DEF Job
  <2>3. Fit(q, stamp)
    BY <1>0, <2>2 DEF Fit
  <2>4. job' = [job EXCEPT ![j] = q]
    BY <1>0, <2>1
  <2>5. StorageOK'
    BY <1>0, <2>1 DEF StorageOK, Contents
  <2>. QED
    BY <1>a, <2>1, <2>3, <2>4, <2>5
<1>11. CASE Promote(j)
  <2>1. /\ userdata' = [userdata EXCEPT ![job[j].dir] = job[j].data[job[j].dir]]
        /\ UNCHANGED <<day, stamp, dumps, zips, restores, tmp, upset, database>>
    BY <1>11 DEF Promote
  <2> DEFINE q == [job[j] EXCEPT !.at = "remove"]
  <2>2. q \in Job /\ q.name = job[j].name /\ q.copy = job[j].copy
    BY <1>0 DEF Job
  <2>3. Fit(q, stamp)
    BY <1>0, <2>2 DEF Fit
  <2>4. job' = [job EXCEPT ![j] = q] \/ job' = [job EXCEPT ![j] = Resting]
    BY <1>0, <1>11 DEF Promote
  <2>5. StorageOK'
    BY <1>0, <2>1 DEF StorageOK, Contents
  <2>. QED
    BY <1>a, <1>e, <2>1, <2>3, <2>4, <2>5
<1>12. CASE Stop(j)
  <2>1. /\ job' = [job EXCEPT ![j] = Resting]
        /\ UNCHANGED <<day, stamp, dumps, zips, restores, tmp, upset, storage>>
    BY <1>12 DEF Stop
  <2>. QED
    BY <1>a, <1>d, <1>e, <2>1
<1>. QED
  BY <1>1, <1>2, <1>3, <1>4, <1>5, <1>6, <1>7, <1>8, <1>9, <1>10, <1>11, <1>12, <1>13, <1>14, <1>15, <1>16 DEF Work

\* Everything has its type.
Typed == WellTyped /\ ProgressOK /\ calm \in [Jobs -> BOOLEAN]

LEMMA TypesKept ==
  ASSUME Typed, [Next]_vars
  PROVE  Typed'
<1>. USE DEF Typed
<1>0. StorageOK /\ BackupOK
  BY WellTypedIs
<1>1. CASE UNCHANGED vars
  BY <1>1 DEF vars, storage, progress, backup, WellTyped, Archives, StorageOK, ProgressOK
<1>2. ASSUME NEW actors, Watch(actors) PROVE calm' \in [Jobs -> BOOLEAN]
  BY <1>2, Zenon DEF Watch
<1>3. ASSUME UNCHANGED progress PROVE ProgressOK'
  BY <1>3 DEF progress, ProgressOK
<1>4. CASE ProgressNext /\ UNCHANGED backup /\ Watch({})
  <2>1. StorageOK' /\ ProgressOK'
    BY <1>0, <1>4, ProgressTypes
  <2>2. WellTyped'
    BY <1>4, <2>1 DEF backup, WellTyped, Archives
  <2>. QED
    BY <1>2, <1>4, <2>1, <2>2
<1>5. ASSUME NEW j \in Jobs, Work(j), UNCHANGED progress, Watch({j}) PROVE Typed'
  BY <1>2, <1>3, <1>5, WorkTypes
<1>6. ASSUME NEW name \in DOMAIN dumps, Delete(name), UNCHANGED progress, Watch({}) PROVE Typed'
  <2>1. /\ dumps' = Without(dumps, {name})
        /\ zips' = zips \/ zips' = Without(zips, {name})
        /\ UNCHANGED <<day, stamp, job, restores, tmp, storage>>
    BY <1>6 DEF Delete
  <2>2. upset' \in BOOLEAN
    BY <1>6 DEF Delete, Vanishes, WellTyped
  <2>3. Dated(dumps', Databases, stamp) /\ Dated(zips', Contents, stamp)
    BY <2>1, DatedWithout DEF WellTyped, Archives
  <2>4. WellTyped'
    BY <2>1, <2>2, <2>3 DEF WellTyped, Archives, storage, StorageOK
  <2>. QED
    BY <1>2, <1>3, <1>6, <2>4
<1>7. CASE NextDay /\ UNCHANGED progress /\ Watch({})
  <2>1. day' \in Days /\ UNCHANGED <<stamp, dumps, zips, job, restores, tmp, upset, storage>>
    BY <1>7, StorageAssumption DEF NextDay, WellTyped, Days
  <2>2. WellTyped'
    BY <2>1 DEF WellTyped, Archives, storage, StorageOK
  <2>. QED
    BY <1>2, <1>3, <1>7, <2>2
<1>. QED
  BY <1>1, <1>4, <1>5, <1>6, <1>7 DEF Next

LEMMA TypesInit ==
  ASSUME Init
  PROVE  Typed
<1>. USE StorageAssumption
<1>1. StorageOK
  BY DEF Init, StorageInit, StorageOK, Databases, Contents, Kept
<1>2. ProgressOK
  BY DEF Init, ProgressInit, ProgressOK, Idle, Request
<1>3. DOMAIN dumps = {} /\ DOMAIN zips = {}
  BY DEF Init, BackupInit
<1>4. AllFit(job, stamp)
  BY RestingIs DEF Init, BackupInit, AllFit
<1>5. day \in Days /\ stamp \in Nat \ {0} /\ restores \in Nat /\ tmp \subseteq Databases /\ upset \in BOOLEAN
  <2>1. day = 0 /\ stamp = 1 /\ restores = 0 /\ tmp = {} /\ upset = FALSE
    BY DEF Init, BackupInit
  <2>2. upset \in BOOLEAN
    BY <2>1, Zenon
  <2>3. day \in Days
    BY <2>1 DEF Days
  <2>4. stamp \in Nat \ {0} /\ restores \in Nat /\ tmp \subseteq Databases
    BY <2>1
  <2>. QED
    BY <2>2, <2>3, <2>4
<1>6. Dated(dumps, Databases, stamp) /\ Dated(zips, Contents, stamp)
  BY <1>3 DEF Dated
<1>. QED
  BY <1>1, <1>2, <1>4, <1>5, <1>6 DEF Init, Typed, WellTyped, Archives

\* Every variable keeps its type, for any instance.
THEOREM TypeCorrect == Spec => []TypeOK
<1>1. Typed => TypeOK
  BY WellTypedIs DEF Typed, TypeOK
<1>. QED
  BY <1>1, TypesInit, TypesKept, PTL DEF Spec

-----------------------------------------------------------------------------
(* The live database is never an empty file *)

\* A database with the account is all that there is to archive and to restore.
AllPeopled ==
  /\ database.account
  /\ \A name \in DOMAIN dumps : dumps[name].account
  /\ \A j \in Jobs : job[j].at \in {"safe", "copy"} => job[j].name \in DOMAIN dumps
  /\ \A j \in Jobs : job[j].at = "replace" => \A content \in tmp : content.account
Peopled == upset \/ AllPeopled

\* What a job does, for the others.
LEMMA Others ==
  ASSUME WellTyped, NEW j \in Jobs, Work(j)
  PROVE  \A k \in Jobs \ {j} : job'[k] = job[k]
BY DEF Work, Claim, Create, Dump, Zip, Retain, Purge, PurgeZip, Retained, Restore, SafetyCopy, Copy, Replace,
       Extract, Remove, Promote, Stop, Start, WellTyped, Archives, AllFit

LEMMA PeopledWork ==
  ASSUME Typed, AllPeopled, NEW j \in Jobs, Work(j), ~upset'
  PROVE  AllPeopled'
<1>0. /\ job \in [Jobs -> Job] /\ database \in Databases
      /\ \A k \in Jobs \ {j} : job'[k] = job[k]
  BY Others DEF Typed, WellTyped, Archives, AllFit, StorageOK
<1>a. ASSUME database'.account, DOMAIN dumps \subseteq DOMAIN dumps', \A name \in DOMAIN dumps' : dumps'[name].account,
             job'[j].at \in {"safe", "copy"} => job'[j].name \in DOMAIN dumps',
             job'[j].at # "replace", UNCHANGED tmp
      PROVE  AllPeopled'
  BY <1>0, <1>a DEF AllPeopled
<1>b. ASSUME database' = database \/ database'.account, UNCHANGED <<dumps, tmp>>, job'[j].at \notin {"safe", "copy", "replace"}
      PROVE  AllPeopled'
  BY <1>0, <1>a, <1>b DEF AllPeopled
<1>c. ASSUME NEW x, dumps' = Put(dumps, x, database)
      PROVE  DOMAIN dumps \subseteq DOMAIN dumps' /\ \A name \in DOMAIN dumps' : dumps'[name].account
  BY <1>c DEF AllPeopled, Put
<1>1. CASE Claim(j)
  <2>1. job'[j].at = "dump"
    BY <1>0, <1>1 DEF Claim, Start, Resting
  <2>2. database'.account /\ UNCHANGED <<dumps, tmp>>
    BY <1>0, <1>1 DEF Claim, Databases
  <2>. QED
    BY <1>b, <2>1, <2>2
<1>2. CASE Create(j)
  <2>1. job'[j].at = "dump"
    BY <1>0, <1>2 DEF Create, Start, Resting
  <2>. QED
    BY <1>2, <1>b, <2>1 DEF Create, storage
<1>3. CASE Dump(j)
  <2>1. job'[j].at = "zip"
    BY <1>0, <1>3 DEF Dump, Job
  <2>2. dumps' = Put(dumps, New("backup"), database) /\ UNCHANGED <<storage, tmp>>
    BY <1>3 DEF Dump
  <2>. QED
    BY <1>a, <1>c, <2>1, <2>2 DEF AllPeopled, storage
<1>4. CASE Zip(j)
  <2>1. job'[j].at = "retain"
    BY <1>0, <1>4 DEF Zip, Resting
  <2>. QED
    BY <1>4, <1>b, <2>1 DEF Zip, storage
<1>5. CASE Purge(j)
  <2>1. job'[j].at = "purge" /\ UNCHANGED <<storage, tmp>>
    BY <1>0, <1>5 DEF Purge, Job
  <2>2. PICK name : dumps' = dumps \/ dumps' = Without(dumps, {name})
    BY <1>5 DEF Purge
  <2>3. \A x \in DOMAIN dumps' : dumps'[x].account
    BY <2>2 DEF Without, Restrict, AllPeopled
  <2>4. \A k \in Jobs : job[k].at \in {"safe", "copy"} /\ job[k].name \in DOMAIN dumps => job[k].name \in DOMAIN dumps'
    BY <1>5 DEF Purge, Vanishes
  <2>. QED
    BY <1>0, <2>1, <2>3, <2>4 DEF AllPeopled, storage
<1>13. CASE Retain(j) \/ Retained(j) \/ PurgeZip(j)
  <2>1. job'[j].at \in {"purge", "idle"}
    <3>1. Retain(j) => job'[j].at = "purge"
      BY <1>0 DEF Retain, Resting
    <3>2. Retained(j) => job'[j].at = "idle"
      BY <1>0 DEF Retained, Resting
    <3>3. PurgeZip(j) => job'[j].at = "purge"
      BY DEF PurgeZip
    <3>. QED
      BY <1>13, <3>1, <3>2, <3>3
  <2>2. UNCHANGED <<storage, dumps, tmp>>
    BY <1>13 DEF Retain, Retained, PurgeZip
  <2>. QED
    BY <1>b, <2>1, <2>2 DEF storage
<1>6. ASSUME NEW name \in DOMAIN dumps, Restore(j, name) PROVE AllPeopled'
  <2>1. job'[j].name = name /\ job'[j].at = "safe"
    BY <1>0, <1>6 DEF Restore, Start, Resting
  <2>2. UNCHANGED <<dumps, storage, tmp>>
    BY <1>6 DEF Restore
  <2>. QED
    BY <1>a, <2>1, <2>2 DEF AllPeopled, storage
<1>7. CASE SafetyCopy(j)
  <2>1. job[j].name \in DOMAIN dumps
    BY <1>7 DEF SafetyCopy, AllPeopled
  <2>2. dumps' = Put(dumps, New("pre_restore"), database) /\ UNCHANGED <<storage, tmp>>
    BY <1>7, <2>1 DEF SafetyCopy, Opened
  <2>3. job'[j].name = job[j].name /\ job'[j].at = "copy"
    BY <1>0, <1>7 DEF SafetyCopy, Job
  <2>. QED
    BY <1>a, <1>c, <2>1, <2>2, <2>3 DEF AllPeopled, storage
<1>8. CASE Copy(j)
  <2>1. job[j].name \in DOMAIN dumps
    BY <1>8 DEF Copy, AllPeopled
  <2>2. dumps' = dumps /\ UNCHANGED storage
    BY <1>8, <2>1 DEF Copy, Opened
  <2>3. \/ tmp' = {dumps[job[j].name]} /\ job'[j].at = "replace"
        \/ job'[j].at = "idle"
    BY <1>0, <1>8, <2>1 DEF Copy, Opened, Resting, Job
  <2>4. \A k \in Jobs \ {j} : job'[k].at # "replace"
    BY <1>0, <1>8 DEF Copy, Meets
  <2>5. dumps[job[j].name].account
    BY <2>1 DEF AllPeopled
  <2>6. \A k \in Jobs : job'[k].at = "replace" => \A content \in tmp' : content.account
    BY <2>3, <2>4, <2>5
  <2>7. \A k \in Jobs : job'[k].at \in {"safe", "copy"} => job'[k].name \in DOMAIN dumps'
    BY <1>0, <2>2, <2>3 DEF AllPeopled
  <2>. QED
    BY <2>2, <2>6, <2>7 DEF AllPeopled, storage
<1>14. CASE Replace(j)
  <2>1. /\ job[j].at = "replace" /\ tmp' = {} /\ dumps' = dumps
        /\ database' \in tmp \cup {content \in {Blank} : \E k \in Jobs : job[k].at = "copy"}
    BY <1>14 DEF Replace
  <2>2. \A k \in Jobs : job[k].at # "copy"
    BY <1>14, <2>1 DEF Replace, Meets
  <2>3. database'.account
    BY <2>1, <2>2 DEF AllPeopled
  <2>4. job'[j].at \in {"idle", "extract"}
    BY <1>0, <1>14 DEF Replace, Resting
  <2>. QED
    BY <1>0, <2>1, <2>3, <2>4 DEF AllPeopled
<1>9. CASE Extract(j)
  <2>1. job'[j].at \in {"idle", "remove"}
    BY <1>0, <1>9 DEF Extract, Resting, Job
  <2>. QED
    BY <1>9, <1>b, <2>1 DEF Extract, storage
<1>10. CASE Remove(j)
  <2>1. job'[j].at = "promote"
    BY <1>0, <1>10 DEF Remove, Job
  <2>. QED
    BY <1>10, <1>b, <2>1 DEF Remove
<1>11. CASE Promote(j)
  <2>1. job'[j].at \in {"idle", "remove"}
    BY <1>0, <1>11 DEF Promote, Resting, Job
  <2>. QED
    BY <1>11, <1>b, <2>1 DEF Promote
<1>12. CASE Stop(j)
  <2>1. job'[j].at = "idle"
    BY <1>0, <1>12 DEF Stop, Resting
  <2>. QED
    BY <1>12, <1>b, <2>1 DEF Stop, storage
<1>. QED
  BY <1>1, <1>2, <1>3, <1>4, <1>5, <1>6, <1>7, <1>8, <1>9, <1>10, <1>11, <1>12, <1>13, <1>14 DEF Work

LEMMA PeopledKept ==
  ASSUME Typed, Peopled, [Next]_vars
  PROVE  Peopled'
<1>1. CASE UNCHANGED vars
  BY <1>1 DEF vars, storage, backup, Peopled, AllPeopled
<1>2. CASE ProgressNext /\ UNCHANGED backup
  <2>1. database'.account = database.account
    BY <1>2 DEF ProgressNext, Record, Hydrate, Leave, Read, Write, Reply, Drop, storage, Typed, WellTyped, StorageOK, Databases
  <2>. QED
    BY <1>2, <2>1 DEF backup, Peopled, AllPeopled
<1>3. ASSUME NEW j \in Jobs, Work(j) PROVE Peopled'
  <2>1. upset => upset'
    BY <1>3 DEF Work, Claim, Create, Dump, Zip, Retain, Purge, PurgeZip, Retained, Restore, SafetyCopy, Copy, Replace,
                Extract, Remove, Promote, Stop, Vanishes
  <2>. QED
    BY <1>3, <2>1, PeopledWork DEF Peopled
<1>4. ASSUME NEW name \in DOMAIN dumps, Delete(name) PROVE Peopled'
  <2>1. dumps' = Without(dumps, {name}) /\ UNCHANGED <<job, tmp, storage>>
    BY <1>4 DEF Delete
  <2>2. \A x \in DOMAIN dumps' : x \in DOMAIN dumps /\ dumps'[x] = dumps[x]
    BY <2>1 DEF Without, Restrict
  <2>3. upset' \/ \A k \in Jobs : job[k].at \in {"safe", "copy"} /\ job[k].name \in DOMAIN dumps => job[k].name \in DOMAIN dumps'
    BY <1>4 DEF Delete, Vanishes
  <2>4. upset => upset'
    BY <1>4 DEF Delete, Vanishes
  <2>. QED
    BY <2>1, <2>2, <2>3, <2>4 DEF Peopled, AllPeopled, storage
<1>5. CASE NextDay
  BY <1>5 DEF NextDay, storage, Peopled, AllPeopled
<1>. QED
  BY <1>1, <1>2, <1>3, <1>4, <1>5 DEF Next

\* The live database is never an empty file, unless a backup was deleted while it
\* was being restored or two restorations met at the file they both write: whatever the number of jobs, and wherever they are killed.
THEOREM NeverEmpty == Spec => []NeverBlank
<1>1. Init => Peopled
  BY DEF Init, StorageInit, BackupInit, Resting, Peopled, AllPeopled
<1>2. Peopled => NeverBlank
  BY DEF Peopled, AllPeopled, NeverBlank
<1>. QED
  BY <1>1, <1>2, TypesInit, TypesKept, PeopledKept, PTL DEF Spec

-----------------------------------------------------------------------------
(* One automatic backup *)

\* Nobody restores, while nothing has been restored.
Unrestored == restores = 0 => \A j \in Jobs : job[j].at \in {"idle", "dump", "zip", "retain", "purge"}

\* An automatic backup holds the claim of its day.
Claimed ==
  restores = 0 =>
    /\ \A j \in Jobs : job[j].auto => job[j].day \in database.claims
    /\ OneAutomaticBackup

\* As long as nothing is restored, a job claims, or is an automatic one if it was.
LEMMA Unclaiming ==
  ASSUME Typed, Unrestored, NEW j \in Jobs, Work(j), restores' = 0
  PROVE  /\ restores = 0
         /\ job'[j].at \in {"idle", "dump", "zip", "retain", "purge"}
         /\ Claim(j) \/ /\ UNCHANGED storage
                        /\ job'[j].auto => job[j].auto /\ job'[j].day = job[j].day
<1>0. job \in [Jobs -> Job] /\ restores \in Nat
  BY DEF Typed, WellTyped, Archives, AllFit
<1>1. CASE Claim(j)
  BY <1>0, <1>1 DEF Claim, Start, Resting
<1>2. CASE Create(j)
  BY <1>0, <1>2 DEF Create, Start, Resting
<1>3. CASE Dump(j)
  BY <1>0, <1>3 DEF Dump, Job
<1>4. CASE Zip(j)
  BY <1>0, <1>4 DEF Zip, Resting
<1>5. CASE Retain(j)
  BY <1>0, <1>5 DEF Retain, Resting
<1>6. CASE \E name \in DOMAIN dumps : Restore(j, name)
  BY <1>0, <1>6 DEF Restore
<1>7. CASE SafetyCopy(j) \/ Copy(j) \/ Replace(j) \/ Extract(j) \/ Remove(j) \/ Promote(j)
  BY <1>7 DEF SafetyCopy, Copy, Replace, Extract, Remove, Promote, Unrestored
<1>8. CASE Stop(j) \/ Retained(j)
  BY <1>0, <1>8 DEF Stop, Retained, Resting
<1>9. CASE Purge(j)
  BY <1>0, <1>9 DEF Purge, Job
<1>10. CASE PurgeZip(j)
  BY <1>0, <1>10 DEF PurgeZip
<1>. QED
  BY <1>1, <1>2, <1>3, <1>4, <1>5, <1>6, <1>7, <1>8, <1>9, <1>10 DEF Work

LEMMA ClaimedKept ==
  ASSUME Typed, Unrestored, Claimed, [Next]_vars
  PROVE  Unrestored' /\ Claimed'
<1>1. CASE UNCHANGED vars
  BY <1>1 DEF vars, storage, backup, Unrestored, Claimed, OneAutomaticBackup
<1>2. CASE ProgressNext /\ UNCHANGED backup
  <2>1. database'.claims = database.claims
    BY <1>2 DEF ProgressNext, Record, Hydrate, Leave, Read, Write, Reply, Drop, storage, Typed, WellTyped, StorageOK, Databases
  <2>. QED
    BY <1>2, <2>1 DEF backup, Unrestored, Claimed, OneAutomaticBackup
<1>3. ASSUME NEW j \in Jobs, Work(j) PROVE Unrestored' /\ Claimed'
  <2>0. \A k \in Jobs \ {j} : job'[k] = job[k]
    BY <1>3, Others DEF Typed
  <2>1. Unrestored'
    BY <1>3, <2>0, Unclaiming DEF Unrestored
  <2>2. SUFFICES ASSUME restores' = 0
                 PROVE  /\ \A k \in Jobs : job'[k].auto => job'[k].day \in database'.claims
                        /\ OneAutomaticBackup'
    BY <2>1 DEF Claimed
  <2>3. /\ restores = 0
        /\ \A k \in Jobs : job[k].auto => job[k].day \in database.claims
        /\ \A k, l \in Jobs : job[k].auto /\ job[l].auto /\ job[k].day = job[l].day => k = l
    BY <1>3, <2>2, Unclaiming DEF Claimed, OneAutomaticBackup
  <2>4. CASE Claim(j)
    <3>1. /\ job'[j].day = day /\ day \notin database.claims
          /\ database'.claims = database.claims \cup {day}
      BY <2>4 DEF Claim, ClaimFree, Start, Resting, Typed, WellTyped, Archives, AllFit, StorageOK, Databases
    <3>. QED
      BY <2>0, <2>3, <3>1 DEF OneAutomaticBackup
  <2>5. CASE UNCHANGED storage /\ (job'[j].auto => job[j].auto /\ job'[j].day = job[j].day)
    BY <2>0, <2>3, <2>5 DEF storage, OneAutomaticBackup
  <2>. QED
    BY <1>3, <2>2, <2>4, <2>5, Unclaiming
<1>4. ASSUME NEW name \in DOMAIN dumps, Delete(name) PROVE Unrestored' /\ Claimed'
  BY <1>4 DEF Delete, storage, Unrestored, Claimed, OneAutomaticBackup
<1>5. CASE NextDay
  BY <1>5 DEF NextDay, storage, Unrestored, Claimed, OneAutomaticBackup
<1>. QED
  BY <1>1, <1>2, <1>3, <1>4, <1>5 DEF Next

\* As long as nothing is restored, whatever the number of workers and wherever they
\* are killed, two automatic backups of one day never run together.
THEOREM OneAutomatic == Spec => []OneAutomaticBackup
<1>1. Init => Unrestored /\ Claimed
  BY DEF Init, StorageInit, BackupInit, Resting, Unrestored, Claimed, OneAutomaticBackup
<1>2. Typed /\ Unrestored /\ Claimed => OneAutomaticBackup
  BY DEF Claimed, OneAutomaticBackup
<1>. QED
  BY <1>1, <1>2, TypesInit, TypesKept, ClaimedKept, PTL DEF Spec

-----------------------------------------------------------------------------
(* Answers that follow one another *)

\* What is posted belongs to the directory it is posted to.
Sorted ==
  /\ \A d \in Dirs : \A i \in userdata[d] : DirOf[i] = d
  /\ \A d \in Devices : \A i \in local[d] : DirOf[i] = Stats
  /\ \A r \in Requests : req[r].at # "idle" => \A i \in req[r].body : DirOf[i] = req[r].dir

\* While requests follow one another, what one has read or written is the file.
InTurn ==
  /\ \A r \in Requests : req[r].at = "written" => req[r].body \subseteq req[r].file
  /\ \A r \in Requests : Inside(r) => req[r].file = userdata[req[r].dir]
  /\ \A d \in Dirs : Kept(d, acked) \subseteq userdata[d]
  /\ ~cut /\ (\A r \in Requests : ~(req[r].at = "written" /\ req[r].dir = Stats))
       => database.cache = userdata[Stats]
Serial == ~overlap /\ restores = 0 => Sorted /\ InTurn

\* A step of the pupil.
LEMMA SerialProgress ==
  ASSUME Typed, Sorted, InTurn, ProgressNext, ~overlap'
  PROVE  Sorted' /\ InTurn'
<1>. USE StorageAssumption, ProgressAssumption
<1>0. /\ req \in [Requests -> Request] /\ local \in [Devices -> SUBSET Items]
      /\ userdata \in [Dirs -> SUBSET Items] /\ database \in Databases
      /\ \A r \in Requests : req[r].dir \in Dirs
  BY DEF Typed, WellTyped, StorageOK, ProgressOK, Contents, Request
<1>a. ASSUME NEW dir \in Dirs, NEW items, \A i \in items : DirOf[i] = dir, Post(dir, items),
             UNCHANGED <<acked, overlap, cut, storage>>,
             \A d \in Devices : \A i \in local'[d] : DirOf[i] = Stats
      PROVE  Sorted' /\ InTurn'
  <2> DEFINE q == [Idle EXCEPT !.at = "sent", !.dir = dir, !.body = items]
  <2>1. q.at = "sent" /\ q.dir = dir /\ q.body = items
    BY DEF Idle
  <2>2. UNCHANGED req \/ \E r \in Requests : req[r].at = "idle" /\ req' = [req EXCEPT ![r] = q]
    BY <1>a DEF Post
  <2>. HIDE DEF q
  <2>3. CASE UNCHANGED req
    BY <1>a, <2>3 DEF Sorted, InTurn, Inside, storage
  <2>4. ASSUME NEW r \in Requests, req[r].at = "idle", req' = [req EXCEPT ![r] = q]
        PROVE  Sorted' /\ InTurn'
    <3>1. req'[r] = q /\ \A k \in Requests \ {r} : req'[k] = req[k]
      BY <1>0, <2>4
    <3>. QED
      BY <1>0, <1>a, <2>1, <2>4, <3>1 DEF Sorted, InTurn, Inside, storage
  <2>. QED
    BY <2>2, <2>3, <2>4
<1>1. ASSUME NEW i \in Items, Record(i) PROVE Sorted' /\ InTurn'
  <2>1. UNCHANGED <<acked, overlap, cut, storage>> /\ DirOf[i] \in Dirs /\ Author[i] \in Devices
    BY <1>1 DEF Record
  <2>2. CASE DirOf[i] = Stats
    <3>1. local' = [local EXCEPT ![Author[i]] = @ \cup {i}] /\ Post(Stats, local[Author[i]] \cup {i})
      BY <1>1, <2>2 DEF Record
    <3>2. \A d \in Devices : \A x \in local'[d] : DirOf[x] = Stats
      BY <1>0, <2>1, <2>2, <3>1 DEF Sorted
    <3>3. \A x \in local[Author[i]] \cup {i} : DirOf[x] = Stats
      BY <2>1, <2>2 DEF Sorted
    <3>. QED
      BY <1>a, <2>1, <3>1, <3>2, <3>3
  <2>3. CASE DirOf[i] # Stats
    <3>1. local' = local /\ Post(DirOf[i], {i})
      BY <1>1, <2>3 DEF Record
    <3>. QED
      BY <1>a, <2>1, <3>1 DEF Sorted
  <2>. QED
    BY <2>2, <2>3
<1>2. ASSUME NEW d \in Devices, Hydrate(d) PROVE Sorted' /\ InTurn'
  <2>1. \A x \in local[d] \cup userdata[Stats] : DirOf[x] = Stats
    BY DEF Sorted
  <2>2. /\ local' = [local EXCEPT ![d] = local[d] \cup userdata[Stats]]
        /\ Post(Stats, local[d] \cup userdata[Stats])
        /\ UNCHANGED <<acked, overlap, cut, storage>>
    BY <1>2 DEF Hydrate
  <2>3. \A e \in Devices : \A x \in local'[e] : DirOf[x] = Stats
    BY <1>0, <2>1, <2>2 DEF Sorted
  <2>. QED
    BY <1>a, <2>1, <2>2, <2>3
<1>3. ASSUME NEW d \in Devices, Leave(d) PROVE Sorted' /\ InTurn'
  BY <1>0, <1>3 DEF Leave, Sorted, InTurn, Inside, storage
<1>4. ASSUME NEW r \in Requests, Read(r) PROVE Sorted' /\ InTurn'
  <2> DEFINE q == [req[r] EXCEPT !.at = "read", !.file = userdata[req[r].dir]]
  <2>1. q.at = "read" /\ q.dir = req[r].dir /\ q.body = req[r].body /\ q.file = userdata[req[r].dir]
    BY <1>0 DEF Request
  <2>2. req' = [req EXCEPT ![r] = q] /\ req[r].at = "sent" /\ UNCHANGED <<local, acked, cut, storage>>
    BY <1>0, <1>4 DEF Read
  <2>. HIDE DEF q
  <2>3. req'[r] = q /\ \A k \in Requests \ {r} : req'[k] = req[k]
    BY <1>0, <2>2
  <2>. QED
    BY <1>0, <2>1, <2>2, <2>3 DEF Sorted, InTurn, Inside, storage
<1>5. ASSUME NEW r \in Requests, Write(r) PROVE Sorted' /\ InTurn'
  <2> DEFINE merged == req[r].file \cup req[r].body
             q == [req[r] EXCEPT !.at = "written", !.file = merged]
  <2>1. q.at = "written" /\ q.dir = req[r].dir /\ q.body = req[r].body /\ q.file = merged
    BY <1>0 DEF Request
  <2>2. /\ req' = [req EXCEPT ![r] = q] /\ req[r].at = "read"
        /\ userdata' = [userdata EXCEPT ![req[r].dir] = merged]
        /\ UNCHANGED <<local, acked, cut, database>>
    BY <1>0, <1>5 DEF Write, Merge
  <2>3. \A k \in Requests \ {r} : Inside(k) => req[k].dir # req[r].dir
    BY <1>5 DEF Write
  <2>4. req[r].file = userdata[req[r].dir] /\ \A x \in merged : DirOf[x] = req[r].dir
    BY <1>0, <2>2 DEF Sorted, InTurn, Inside
  <2>5. userdata[req[r].dir] \subseteq merged /\ req[r].body \subseteq merged
    BY <2>4
  <2>. HIDE DEF q, merged
  <2>6. req'[r] = q /\ \A k \in Requests \ {r} : req'[k] = req[k]
    BY <1>0, <2>2
  <2>7. userdata'[req[r].dir] = merged /\ \A d \in Dirs \ {req[r].dir} : userdata'[d] = userdata[d]
    BY <1>0, <2>2
  <2>8. Sorted'
    BY <1>0, <2>1, <2>2, <2>4, <2>6, <2>7 DEF Sorted
  <2>9. \A k \in Requests : (req[k].at = "written" => req[k].body \subseteq req[k].file)'
    BY <1>0, <2>1, <2>5, <2>6 DEF InTurn
  <2>10. \A k \in Requests : (Inside(k) => req[k].file = userdata[req[k].dir])'
    BY <1>0, <2>1, <2>3, <2>6, <2>7 DEF InTurn, Inside
  <2>11. \A d \in Dirs : Kept(d, acked') \subseteq userdata'[d]
    BY <2>2, <2>5, <2>7 DEF InTurn
  <2>12. ~cut' /\ (\A k \in Requests : ~(req'[k].at = "written" /\ req'[k].dir = Stats))
           => database'.cache = userdata'[Stats]
    BY <1>0, <2>1, <2>2, <2>6, <2>7 DEF InTurn
  <2>. QED
    BY <2>8, <2>9, <2>10, <2>11, <2>12 DEF InTurn
<1>6. ASSUME NEW r \in Requests, Reply(r) PROVE Sorted' /\ InTurn'
  <2>1. /\ req' = [req EXCEPT ![r] = Idle] /\ req[r].at = "written"
        /\ acked' = acked \cup req[r].body
        /\ UNCHANGED <<local, overlap, cut, userdata>>
    BY <1>6 DEF Reply
  <2>2. req'[r] = Idle /\ Idle.at = "idle" /\ \A k \in Requests \ {r} : req'[k] = req[k]
    BY <1>0, <2>1 DEF Idle
  <2>3. Sorted'
    BY <2>1, <2>2 DEF Sorted
  <2>4. req[r].body \subseteq userdata[req[r].dir] /\ \A i \in req[r].body : DirOf[i] = req[r].dir
    BY <2>1 DEF Sorted, InTurn, Inside
  <2>5. \A d \in Dirs : Kept(d, acked') \subseteq userdata'[d]
    BY <2>1, <2>4 DEF InTurn, Kept
  <2>6. CASE req[r].dir = Stats
    <3>1. database'.cache = userdata[Stats]
      BY <1>0, <1>6, <2>1, <2>6 DEF Reply, Cached, Databases, InTurn, Inside
    <3>. QED
      BY <2>1, <2>2, <2>3, <2>5, <3>1 DEF InTurn, Inside
  <2>7. CASE req[r].dir # Stats
    <3>1. database' = database
      BY <1>6, <2>7 DEF Reply
    <3>. QED
      BY <2>1, <2>2, <2>3, <2>5, <2>7, <3>1 DEF InTurn, Inside
  <2>. QED
    BY <2>6, <2>7
<1>7. ASSUME NEW r \in Requests, Drop(r) PROVE Sorted' /\ InTurn'
  <2>1. /\ req' = [req EXCEPT ![r] = Idle]
        /\ cut' = (cut \/ req[r].at = "written")
        /\ UNCHANGED <<local, acked, storage>>
    BY <1>7 DEF Drop
  <2>2. req'[r] = Idle /\ Idle.at = "idle" /\ \A k \in Requests \ {r} : req'[k] = req[k]
    BY <1>0, <2>1 DEF Idle
  <2>3. ~cut' => ~cut /\ req[r].at # "written"
    BY <2>1
  <2>4. ~cut' /\ (\A k \in Requests : ~(req'[k].at = "written" /\ req'[k].dir = Stats))
          => database'.cache = userdata'[Stats]
    BY <2>1, <2>2, <2>3 DEF InTurn, storage
  <2>. QED
    BY <2>1, <2>2, <2>4 DEF Sorted, InTurn, Inside, storage
<1>. QED
  BY <1>1, <1>2, <1>3, <1>4, <1>5, <1>6, <1>7 DEF ProgressNext

LEMMA SerialKept ==
  ASSUME Typed, Unrestored, Serial, [Next]_vars
  PROVE  Serial'
<1>1. CASE UNCHANGED vars
  BY <1>1 DEF vars, storage, progress, backup, Serial, Sorted, InTurn, Inside
<1>2. CASE ProgressNext /\ UNCHANGED backup
  <2>1. overlap => overlap'
    BY <1>2 DEF ProgressNext, Record, Hydrate, Leave, Read, Write, Reply, Drop
  <2>. QED
    BY <1>2, <2>1, SerialProgress DEF Serial, backup
<1>a. ASSUME UNCHANGED <<progress, userdata>>, database'.cache = database.cache, restores' = 0 => restores = 0
      PROVE  Serial'
  BY <1>a DEF progress, Serial, Sorted, InTurn, Inside
<1>3. ASSUME NEW j \in Jobs, Work(j), UNCHANGED progress PROVE Serial'
  <2>1. SUFFICES ASSUME restores' = 0 PROVE Serial'
    BY DEF Serial
  <2>2. restores = 0 /\ (Claim(j) \/ UNCHANGED storage)
    BY <1>3, <2>1, Unclaiming
  <2>3. userdata' = userdata /\ database'.cache = database.cache
    BY <2>2 DEF Claim, storage, Typed, WellTyped, StorageOK, Databases
  <2>. QED
    BY <1>3, <1>a, <2>2, <2>3
<1>4. ASSUME NEW name \in DOMAIN dumps, Delete(name), UNCHANGED progress PROVE Serial'
  BY <1>4, <1>a DEF Delete, storage
<1>5. CASE NextDay /\ UNCHANGED progress
  BY <1>5, <1>a DEF NextDay, storage
<1>. QED
  BY <1>1, <1>2, <1>3, <1>4, <1>5 DEF Next

\* While requests follow one another and nothing is restored, the answers that were
\* acknowledged are in the file, and the cache counts them: for any number of devices
\* and of requests, whatever their states, their losses and their delays.
THEOREM AnswersKept == Spec => []SerialAnswersAreKept
<1>1. Init => Unrestored /\ Claimed /\ Serial
  <2>1. Init => Unrestored /\ Claimed
    BY DEF Init, StorageInit, BackupInit, Resting, Unrestored, Claimed, OneAutomaticBackup
  <2>2. Init => Sorted /\ InTurn
    BY StorageAssumption DEF Init, StorageInit, ProgressInit, Idle, Kept, Sorted, InTurn, Inside
  <2>. QED
    BY <2>1, <2>2 DEF Serial
<1>2. Typed /\ Unrestored /\ Claimed /\ Serial => SerialAnswersAreKept
  BY DEF Serial, InTurn, Inside, SerialAnswersAreKept
<1>. QED
  BY <1>1, <1>2, TypesInit, TypesKept, ClaimedKept, SerialKept, PTL DEF Spec

-----------------------------------------------------------------------------
(* Restorations *)

\* Where the step of a job leads.
LEMMA Where ==
  ASSUME WellTyped, NEW j \in Jobs
  PROVE  /\ Claim(j) \/ Create(j) => job'[j].at = "dump"
         /\ Retained(j) \/ Stop(j) => job'[j].at = "idle"
         /\ Retain(j) \/ Purge(j) \/ PurgeZip(j) => job'[j].at = "purge"
         /\ \A name \in DOMAIN dumps : Restore(j, name) => job'[j].at = "safe"
         /\ SafetyCopy(j) => job'[j].at = "copy"
         /\ Copy(j) => job'[j].at \in {"idle", "replace"}
         /\ Replace(j) => job'[j].at \in {"idle", "extract"}
         /\ Remove(j) => job'[j].at = "promote"
         /\ Promote(j) => job'[j].at \in {"idle", "remove"}
<1>0. job \in [Jobs -> Job] /\ job[j] \in Job
  BY DEF WellTyped, Archives, AllFit
<1>1. Claim(j) \/ Create(j) => job'[j].at = "dump"
  <2>1. Claim(j) => job'[j].at = "dump"
    BY <1>0 DEF Claim, Start, Resting
  <2>2. Create(j) => job'[j].at = "dump"
    BY <1>0 DEF Create, Start, Resting
  <2>. QED
    BY <2>1, <2>2
<1>2. Retained(j) \/ Stop(j) => job'[j].at = "idle"
  <2>1. Retained(j) \/ Stop(j) => job' = [job EXCEPT ![j] = Resting]
    BY DEF Retained, Stop
  <2>. QED
    BY <1>0, <2>1, RestingIs
<1>8. Retain(j) \/ Purge(j) \/ PurgeZip(j) => job'[j].at = "purge"
  <2>1. Retain(j) => job'[j].at = "purge"
    BY <1>0 DEF Retain, Resting
  <2>2. Purge(j) => job'[j].at = "purge"
    BY <1>0 DEF Purge, Job
  <2>3. PurgeZip(j) => job'[j].at = "purge"
    BY DEF PurgeZip
  <2>. QED
    BY <2>1, <2>2, <2>3
<1>3. \A name \in DOMAIN dumps : Restore(j, name) => job'[j].at = "safe"
  BY <1>0 DEF Restore, Start, Resting
<1>4. SafetyCopy(j) => job'[j].at = "copy"
  BY <1>0 DEF SafetyCopy, Job
<1>5. Copy(j) => job'[j].at \in {"idle", "replace"}
  BY <1>0 DEF Copy, Resting, Job
<1>9. Replace(j) => job'[j].at \in {"idle", "extract"}
  BY <1>0 DEF Replace, Resting
<1>6. Remove(j) => job'[j].at = "promote"
  BY <1>0 DEF Remove, Job
<1>7. Promote(j) => job'[j].at \in {"idle", "remove"}
  BY <1>0 DEF Promote, Resting, Job
<1>. QED
  BY <1>1, <1>2, <1>3, <1>4, <1>5, <1>6, <1>7, <1>8, <1>9

\* The twin that is about to be written has a name of its own.
Distinct ==
  /\ \A j \in Jobs : job[j].at = "zip" => job[j].name.kind = "backup" /\ job[j].name \notin DOMAIN zips
  /\ \A j, k \in Jobs : job[j].at = "zip" /\ job[k].at = "zip" /\ job[j].name = job[k].name => j = k

LEMMA DistinctWork ==
  ASSUME Typed, Distinct, NEW j \in Jobs, Work(j)
  PROVE  Distinct'
<1>0. /\ job \in [Jobs -> Job] /\ WellTyped /\ stamp \in Nat
      /\ \A k \in Jobs \ {j} : job'[k] = job[k]
      /\ \A k \in Jobs : job[k].name.n < stamp /\ job[k].name.n \in Nat
  BY Others DEF Typed, WellTyped, Archives, AllFit, Job, Names
<1>a. ASSUME job'[j].at # "zip", DOMAIN zips' \subseteq DOMAIN zips
      PROVE  Distinct'
  BY <1>0, <1>a DEF Distinct
<1>1. CASE Claim(j) \/ Create(j)
  <2>1. job'[j].at = "dump" /\ UNCHANGED zips
    BY <1>0, <1>1 DEF Claim, Create, Start, Resting
  <2>. QED
    BY <1>a, <2>1
<1>2. CASE Dump(j)
  <2>1. job'[j].name = New("backup") /\ UNCHANGED zips
    BY <1>0, <1>2 DEF Dump, Job
  <2>2. New("backup").n = stamp /\ New("backup").kind = "backup" /\ New("backup") \notin DOMAIN zips
    BY <1>0, NewIs
  <2>. QED
    BY <1>0, <2>1, <2>2 DEF Distinct
<1>3. CASE Zip(j)
  <2>1. job'[j].at = "retain" /\ zips' = Put(zips, job[j].name, userdata) /\ job[j].at = "zip"
    BY <1>0, <1>3 DEF Zip, Resting
  <2>2. DOMAIN zips' = DOMAIN zips \cup {job[j].name}
    BY <2>1 DEF Put
  <2>. QED
    BY <1>0, <2>1, <2>2 DEF Distinct
<1>4. CASE Purge(j) \/ PurgeZip(j)
  <2>1. job'[j].at = "purge"
    BY <1>0, <1>4, Where
  <2>2. \E Z : zips' = zips \/ zips' = Without(zips, Z)
    BY <1>4 DEF Purge, PurgeZip
  <2>3. DOMAIN zips' \subseteq DOMAIN zips
    BY <2>2 DEF Without, Restrict
  <2>. QED
    BY <1>a, <2>1, <2>3
<1>5. CASE \/ \E name \in DOMAIN dumps : Restore(j, name)
           \/ Retain(j) \/ Retained(j) \/ SafetyCopy(j) \/ Copy(j) \/ Replace(j) \/ Stop(j)
  <2>1. job'[j].at # "zip"
    BY <1>0, <1>5, Where
  <2>2. UNCHANGED zips
    BY <1>5 DEF Restore, Retain, Retained, SafetyCopy, Copy, Replace, Stop
  <2>. QED
    BY <1>a, <2>1, <2>2
<1>6. CASE Extract(j)
  <2>1. job'[j].at # "zip" /\ zips' = Put(zips, New("pre_restore"), userdata)
    BY <1>0, <1>6 DEF Extract, Resting, Job
  <2>2. DOMAIN zips' = DOMAIN zips \cup {New("pre_restore")} /\ New("pre_restore").kind = "pre_restore"
    BY <1>0, <2>1, NewIs DEF Put
  <2>. QED
    BY <1>0, <2>1, <2>2 DEF Distinct
<1>7. CASE Remove(j) \/ Promote(j)
  <2>1. job'[j].at # "zip"
    BY <1>0, <1>7, Where
  <2>2. UNCHANGED zips
    BY <1>7 DEF Remove, Promote
  <2>. QED
    BY <1>a, <2>1, <2>2
<1>. QED
  BY <1>1, <1>2, <1>3, <1>4, <1>5, <1>6, <1>7 DEF Work

LEMMA DistinctKept ==
  ASSUME Typed, Distinct, [Next]_vars
  PROVE  Distinct'
<1>1. CASE UNCHANGED vars
  BY <1>1 DEF vars, backup, Distinct
<1>2. CASE UNCHANGED backup
  BY <1>2 DEF backup, Distinct
<1>3. ASSUME NEW j \in Jobs, Work(j) PROVE Distinct'
  BY <1>3, DistinctWork
<1>4. ASSUME NEW name \in DOMAIN dumps, Delete(name) PROVE Distinct'
  <2>1. UNCHANGED job /\ DOMAIN zips' \subseteq DOMAIN zips
    BY <1>4 DEF Delete, Without, Restrict
  <2>. QED
    BY <2>1 DEF Distinct
<1>5. CASE NextDay
  BY <1>5 DEF NextDay, Distinct
<1>. QED
  BY <1>1, <1>2, <1>3, <1>4, <1>5 DEF Next

\* An archive, once written, does not change: it stays or goes.
Fixed ==
  /\ \A x \in DOMAIN dumps : x \in DOMAIN dumps' => dumps'[x] = dumps[x]
  /\ \A x \in DOMAIN zips : x \in DOMAIN zips' => zips'[x] = zips[x]

LEMMA ArchivesAreFixed ==
  ASSUME Typed, Distinct, Next
  PROVE  Fixed
<1>0. WellTyped /\ New("backup") \notin DOMAIN dumps /\ New("pre_restore") \notin DOMAIN dumps \cup DOMAIN zips
  BY NewIs DEF Typed
<1>a. UNCHANGED <<dumps, zips>> => Fixed
  BY DEF Fixed
<1>1. CASE UNCHANGED backup \/ NextDay
  BY <1>1, <1>a DEF backup, NextDay
<1>2. ASSUME NEW j \in Jobs, Work(j) PROVE Fixed
  <2>1. CASE Dump(j)
    BY <1>0, <2>1 DEF Dump, Put, Fixed
  <2>2. CASE Zip(j)
    BY <2>2 DEF Zip, Put, Fixed, Distinct
  <2>3. CASE Purge(j) \/ PurgeZip(j)
    <3>1. PICK S : /\ dumps' = dumps \/ dumps' = Without(dumps, S)
                   /\ zips' = zips \/ zips' = Without(zips, S)
      BY <2>3 DEF Purge, PurgeZip
    <3>. QED
      BY <3>1 DEF Without, Restrict, Fixed
  <2>4. CASE SafetyCopy(j)
    BY <1>0, <2>4 DEF SafetyCopy, Opened, Put, Fixed
  <2>5. CASE Copy(j)
    BY <2>5 DEF Copy, Opened, Put, Fixed
  <2>6. CASE Extract(j)
    BY <1>0, <2>6 DEF Extract, Put, Fixed
  <2>. QED
    BY <1>2, <1>a, <2>1, <2>2, <2>3, <2>4, <2>5, <2>6 DEF Work, Claim, Create, Retain, Retained, Restore, Replace, Remove, Promote, Stop
<1>3. ASSUME NEW name \in DOMAIN dumps, Delete(name) PROVE Fixed
  BY <1>3 DEF Delete, Without, Restrict, Fixed
<1>. QED
  BY <1>1, <1>2, <1>3 DEF Next

\* Where a restoration is, when nobody has touched what it works on.
Undisturbed(j) ==
  /\ job[j].at \in {"copy", "replace"} => job[j].copy \in DOMAIN dumps /\ dumps[job[j].copy] = database
  /\ job[j].at = "replace" =>
       job[j].name \in DOMAIN dumps /\ (upset \/ tmp \subseteq {dumps[job[j].name]})
  /\ job[j].at \in {"extract", "remove", "promote"} =>
       job[j].name \in DOMAIN dumps /\ (upset \/ dumps[job[j].name] = database)
  /\ job[j].at \in {"remove", "promote"} =>
       /\ job[j].name \in DOMAIN zips /\ zips[job[j].name] = job[j].data
       /\ job[j].copy \in DOMAIN zips
       /\ job[j].todo \subseteq Archived(job[j].data)
       /\ \A d \in Dirs : d \in job[j].todo \/ d \notin Archived(job[j].data)
                            => userdata[d] = zips[job[j].copy][d]
       /\ \A d \in Archived(job[j].data) \ job[j].todo :
            userdata[d] = job[j].data[d] \/ (job[j].at = "promote" /\ d = job[j].dir)
  /\ job[j].at = "promote" => job[j].dir \in Archived(job[j].data) \ job[j].todo

\* A step of the restoration itself.
LEMMA UndisturbedWork ==
  ASSUME Typed, NEW j \in Jobs, Work(j), Restoring(j)' /\ Restoring(j) => Undisturbed(j)
  PROVE  Undisturbed(j)'
<1>0. /\ job \in [Jobs -> Job] /\ WellTyped /\ job[j] \in Job
      /\ userdata \in [Dirs -> SUBSET Items] /\ job[j].todo \subseteq Dirs /\ job[j].data \in [Dirs -> SUBSET Items]
  BY DEF Typed, WellTyped, StorageOK, Archives, AllFit, Job, Contents
<1>a. ASSUME job'[j].at \notin {"copy", "replace", "extract", "remove", "promote"} PROVE Undisturbed(j)'
  BY <1>a DEF Undisturbed
<1>1. CASE Claim(j) \/ Create(j) \/ Dump(j) \/ Zip(j) \/ (\E name \in DOMAIN dumps : Restore(j, name)) \/ Stop(j)
           \/ Retain(j) \/ Purge(j) \/ PurgeZip(j) \/ Retained(j)
  <2>1. Dump(j) => job'[j].at = "zip"
    BY <1>0 DEF Dump, Job
  <2>2. Zip(j) => job'[j].at = "retain"
    BY <1>0 DEF Zip, Resting
  <2>. QED
    BY <1>0, <1>1, <1>a, <2>1, <2>2, Where
<1>2. CASE SafetyCopy(j)
  <2>1. job'[j].at = "copy" /\ job'[j].copy = New("pre_restore") /\ UNCHANGED storage
    BY <1>0, <1>2 DEF SafetyCopy, Job
  <2>2. New("pre_restore") \in DOMAIN dumps' /\ dumps'[New("pre_restore")] = database
    BY <1>2 DEF SafetyCopy, Put
  <2>. QED
    BY <2>1, <2>2 DEF Undisturbed, storage
<1>3. CASE Copy(j)
  <2>1. CASE job'[j].at = "replace"
    <3>1. /\ job'[j].name = job[j].name /\ job'[j].copy = job[j].copy /\ job[j].at = "copy"
          /\ tmp' = {Opened(job[j].name)[job[j].name]} /\ dumps' = Opened(job[j].name) /\ UNCHANGED storage
      BY <1>0, <1>3, <2>1 DEF Copy, Resting, Job
    <3>2. job[j].copy \in DOMAIN dumps /\ dumps[job[j].copy] = database
      BY <2>1, <3>1 DEF Undisturbed, Restoring
    <3>3. /\ job[j].name \in DOMAIN dumps'
          /\ job[j].copy \in DOMAIN dumps' /\ dumps'[job[j].copy] = dumps[job[j].copy]
      BY <3>1, <3>2, OpenedIs
    <3>. QED
      BY <2>1, <3>1, <3>2, <3>3 DEF Undisturbed, storage
  <2>2. CASE job'[j].at # "replace"
    BY <1>0, <1>3, <1>a, <2>2, Where
  <2>. QED
    BY <2>1, <2>2
<1>7. CASE Replace(j)
  <2>1. CASE job'[j].at = "extract"
    <3>1. /\ job'[j].name = job[j].name /\ job[j].at = "replace" /\ UNCHANGED dumps
          /\ database' \in tmp \cup {content \in {Blank} : \E k \in Jobs : job[k].at = "copy"}
          /\ upset' = (upset \/ Meets(j))
      BY <1>0, <1>7, <2>1 DEF Replace, Resting
    <3>2. Undisturbed(j)
      BY <2>1, <3>1 DEF Restoring
    <3>3. ~upset' => ~upset /\ \A k \in Jobs : job[k].at # "copy"
      BY <3>1 DEF Meets
    <3>. QED
      BY <2>1, <3>1, <3>2, <3>3 DEF Undisturbed
  <2>2. CASE job'[j].at # "extract"
    BY <1>0, <1>7, <1>a, <2>2, Where
  <2>. QED
    BY <2>1, <2>2
<1>4. CASE Extract(j)
  <2>1. CASE job'[j].at = "remove"
    <3>1. /\ job'[j].name = job[j].name /\ job'[j].copy = New("pre_restore")
          /\ job'[j].data = Twin(j) /\ job'[j].todo = Archived(Twin(j))
          /\ job[j].at = "extract" /\ job[j].name \in DOMAIN zips /\ UNCHANGED <<dumps, upset, storage>>
      BY <1>0, <1>4, <2>1 DEF Extract, Resting, Job
    <3>2. New("pre_restore") \notin DOMAIN zips
      BY <1>0, NewIs
    <3>3. /\ job[j].name \in DOMAIN zips' /\ zips'[job[j].name] = Twin(j)
          /\ New("pre_restore") \in DOMAIN zips' /\ zips'[New("pre_restore")] = userdata
      BY <1>4, <3>1, <3>2 DEF Extract, Put, Twin
    <3>4. job[j].name \in DOMAIN dumps /\ (upset \/ dumps[job[j].name] = database)
      BY <2>1, <3>1 DEF Undisturbed, Restoring
    <3>. QED
      BY <2>1, <3>1, <3>3, <3>4 DEF Undisturbed, storage
  <2>2. CASE job'[j].at # "remove"
    <3>1. job'[j].at = "idle"
      BY <1>0, <1>4, <2>2 DEF Extract, Resting, Job
    <3>. QED
      BY <1>a, <3>1
  <2>. QED
    BY <2>1, <2>2
<1>5. CASE Remove(j)
  <2>1. PICK d \in job[j].todo :
          /\ job[j].at = "remove"
          /\ userdata' = [userdata EXCEPT ![d] = {}]
          /\ job' = [job EXCEPT ![j].at = "promote", ![j].dir = d, ![j].todo = @ \ {d}]
          /\ UNCHANGED <<dumps, zips, upset, database>>
    BY <1>5 DEF Remove
  <2>2. /\ job'[j].at = "promote" /\ job'[j].dir = d /\ job'[j].todo = job[j].todo \ {d}
        /\ job'[j].name = job[j].name /\ job'[j].copy = job[j].copy /\ job'[j].data = job[j].data
    BY <1>0, <2>1 DEF Job
  <2>3. Undisturbed(j)
    BY <2>1, <2>2 DEF Restoring
  <2>4. \A e \in Dirs \ {d} : userdata'[e] = userdata[e]
    BY <1>0, <2>1
  <2>5. job[j].todo \subseteq Archived(job[j].data) /\ Archived(job[j].data) \subseteq Dirs
    BY <1>0, <2>1, <2>3 DEF Undisturbed, Archived
  <2>6. \A e \in Dirs : e \in job'[j].todo \/ e \notin Archived(job'[j].data)
                          => userdata'[e] = zips'[job'[j].copy][e]
    BY <2>1, <2>2, <2>3, <2>4, <2>5 DEF Undisturbed
  <2>7. \A e \in Archived(job'[j].data) \ job'[j].todo : userdata'[e] = job'[j].data[e] \/ e = d
    BY <2>1, <2>2, <2>3, <2>4, <2>5 DEF Undisturbed
  <2>. QED
    BY <2>1, <2>2, <2>3, <2>5, <2>6, <2>7 DEF Undisturbed
<1>6. CASE Promote(j)
  <2>1. CASE job'[j].at = "remove"
    <3>1. /\ job[j].at = "promote"
          /\ userdata' = [userdata EXCEPT ![job[j].dir] = job[j].data[job[j].dir]]
          /\ UNCHANGED <<dumps, zips, upset, database>>
      BY <1>6 DEF Promote
    <3>2. /\ job'[j].todo = job[j].todo
          /\ job'[j].name = job[j].name /\ job'[j].copy = job[j].copy /\ job'[j].data = job[j].data
      BY <1>0, <1>6, <2>1 DEF Promote, Resting, Job
    <3>3. Undisturbed(j)
      BY <2>1, <3>1 DEF Restoring
    <3>4. job[j].dir \in Archived(job[j].data) \ job[j].todo /\ Archived(job[j].data) \subseteq Dirs
      BY <1>0, <3>1, <3>3 DEF Undisturbed, Archived
    <3>5. /\ userdata'[job[j].dir] = job[j].data[job[j].dir]
          /\ \A e \in Dirs \ {job[j].dir} : userdata'[e] = userdata[e]
      BY <1>0, <3>1, <3>4
    <3>6. \A e \in Dirs : e \in job'[j].todo \/ e \notin Archived(job'[j].data)
                            => userdata'[e] = zips'[job'[j].copy][e]
      BY <3>1, <3>2, <3>3, <3>4, <3>5 DEF Undisturbed
    <3>7. \A e \in Archived(job'[j].data) \ job'[j].todo : userdata'[e] = job'[j].data[e]
      BY <3>1, <3>2, <3>3, <3>4, <3>5 DEF Undisturbed
    <3>. QED
      BY <2>1, <3>1, <3>2, <3>3, <3>6, <3>7 DEF Undisturbed
  <2>2. CASE job'[j].at # "remove"
    <3>1. job'[j].at = "idle"
      BY <1>0, <1>6, <2>2 DEF Promote, Resting, Job
    <3>. QED
      BY <1>a, <3>1
  <2>. QED
    BY <2>1, <2>2
<1>. QED
  BY <1>1, <1>2, <1>3, <1>4, <1>5, <1>6, <1>7 DEF Work

\* A step of somebody else, which leaves a restoration undisturbed.
LEMMA UndisturbedOther ==
  ASSUME Typed, Fixed, NEW j \in Jobs, Undisturbed(j), job'[j] = job[j], UNCHANGED storage, Keeps(j),
         upset => upset', job[j].at = "replace" => upset' \/ UNCHANGED tmp
  PROVE  Undisturbed(j)'
<1>1. /\ \A x \in {job[j].name, job[j].copy} : x \in DOMAIN dumps => x \in DOMAIN dumps' /\ dumps'[x] = dumps[x]
      /\ \A x \in {job[j].name, job[j].copy} : x \in DOMAIN zips => x \in DOMAIN zips' /\ zips'[x] = zips[x]
  BY DEF Keeps, Fixed
<1>. QED
  BY <1>1 DEF Undisturbed, storage

Calmly == \A j \in Jobs : calm[j] => Undisturbed(j)

LEMMA CalmKept ==
  ASSUME Typed, Distinct, Calmly, [Next]_vars
  PROVE  Calmly'
<1>1. CASE UNCHANGED vars
  BY <1>1 DEF vars, storage, backup, Calmly, Undisturbed
<1>2. CASE Next
  <2>1. SUFFICES ASSUME NEW j \in Jobs, calm'[j] PROVE Undisturbed(j)'
    BY DEF Calmly
  <2>2. Fixed
    BY <1>2, ArchivesAreFixed
  <2>3. ASSUME NEW actors, Watch(actors)
        PROVE  ~Restoring(j)' \/ (calm[j] /\ (j \in actors \/ (UNCHANGED storage /\ Keeps(j))))
    BY <2>1, <2>3 DEF Watch
  <2>4. CASE ~Restoring(j)'
    BY <2>4 DEF Restoring, Undisturbed
  <2>5. ASSUME Watch({}), job'[j] = job[j], UNCHANGED tmp, upset => upset' PROVE Undisturbed(j)'
    BY <2>2, <2>3, <2>4, <2>5, UndisturbedOther DEF Calmly
  <2>6. CASE UNCHANGED backup /\ Watch({})
    BY <2>5, <2>6 DEF backup
  <2>7. ASSUME NEW k \in Jobs, Work(k), Watch({k}) PROVE Undisturbed(j)'
    <3>1. CASE k = j
      <4>1. Restoring(j)' => Undisturbed(j)
        BY <2>3, <2>7 DEF Calmly
      <4>. QED
        BY <2>7, <3>1, <4>1, UndisturbedWork
    <3>2. CASE k # j
      <4>1. job'[j] = job[j]
        BY <2>7, <3>2, Others DEF Typed
      <4>2. upset => upset'
        BY <2>7 DEF Work, Claim, Create, Dump, Zip, Retain, Purge, PurgeZip, Retained, Restore, SafetyCopy, Copy,
                    Replace, Extract, Remove, Promote, Stop, Vanishes
      <4>3. job[j].at = "replace" => upset' \/ UNCHANGED tmp
        BY <2>7, <3>2 DEF Work, Claim, Create, Dump, Zip, Retain, Purge, PurgeZip, Retained, Restore, SafetyCopy, Copy,
                    Replace, Extract, Remove, Promote, Stop, Meets
      <4>. QED
        BY <2>2, <2>3, <2>4, <2>7, <3>2, <4>1, <4>2, <4>3, UndisturbedOther DEF Calmly
    <3>. QED
      BY <3>1, <3>2
  <2>8. CASE (\E name \in DOMAIN dumps : Delete(name)) /\ Watch({})
    BY <2>5, <2>8 DEF Delete, Vanishes
  <2>9. CASE NextDay /\ Watch({})
    BY <2>5, <2>9 DEF NextDay
  <2>. QED
    BY <1>2, <2>6, <2>7, <2>8, <2>9 DEF Next
<1>. QED
  BY <1>1, <1>2

LEMMA CalmInit ==
  ASSUME Init
  PROVE  Distinct /\ Calmly
BY DEF Init, BackupInit, Resting, Distinct, Calmly, Undisturbed

\* What a restoration is about to overwrite is in its safety copy, when nobody else has
\* touched it, whatever the other jobs do in between.
THEOREM CopiesAreSafe == Spec => []SafetyCopyHolds
<1>1. Typed /\ Distinct /\ Calmly => SafetyCopyHolds
  BY DEF Typed, WellTyped, Archives, AllFit, Job, Calmly, Undisturbed, SafetyCopyHolds
<1>. QED
  BY <1>1, TypesInit, CalmInit, TypesKept, DistinctKept, CalmKept, PTL DEF Spec

\* A restoration that comes to its end undisturbed has put back the database and the
\* directories of the backup, and left the others as it found them.
THEOREM RestoredWhole == Spec => RestoresWhole
<1>1. ASSUME Typed, Calmly, NEW j \in Jobs, calm[j], ~upset, job[j].at = "promote", job[j].todo = {}, Promote(j)
      PROVE  /\ database = dumps[job[j].name]
             /\ \A d \in Dirs : userdata'[d] = IF zips[job[j].name][d] = {} THEN zips[job[j].copy][d]
                                               ELSE zips[job[j].name][d]
  <2>1. Undisturbed(j) /\ userdata \in [Dirs -> SUBSET Items] /\ job[j].data \in [Dirs -> SUBSET Items]
    BY <1>1 DEF Calmly, Typed, WellTyped, StorageOK, Archives, AllFit, Job, Contents
  <2>2. userdata' = [userdata EXCEPT ![job[j].dir] = job[j].data[job[j].dir]]
    BY <1>1 DEF Promote
  <2>3. \A d \in Dirs : d \in Archived(job[j].data) <=> zips[job[j].name][d] # {}
    BY <1>1, <2>1 DEF Archived, Undisturbed
  <2>4. \A d \in Dirs : d \in Archived(job[j].data) => userdata'[d] = job[j].data[d]
    BY <1>1, <2>1, <2>2 DEF Undisturbed
  <2>5. \A d \in Dirs : d \notin Archived(job[j].data) => userdata'[d] = zips[job[j].copy][d]
    BY <1>1, <2>1, <2>2 DEF Undisturbed
  <2>. QED
    BY <1>1, <2>1, <2>3, <2>4, <2>5 DEF Undisturbed
<1>2. Typed /\ Calmly =>
        [\A j \in Jobs :
           calm[j] /\ ~upset /\ job[j].at = "promote" /\ job[j].todo = {} /\ Promote(j) =>
             /\ database = dumps[job[j].name]
             /\ \A d \in Dirs : userdata'[d] = IF zips[job[j].name][d] = {} THEN zips[job[j].copy][d]
                                               ELSE zips[job[j].name][d]]_vars
  BY <1>1
<1>. QED
  BY <1>2, TypesInit, CalmInit, TypesKept, DistinctKept, CalmKept, PTL DEF Spec, RestoresWhole

-----------------------------------------------------------------------------
(* What the retention spares *)

Young(name) == name.day + Retention > day
Later(name) == {m \in DOMAIN dumps : m.kind = "backup" /\ m.n > name.n}
Superseded(name) == name.kind = "backup" /\ Cardinality(Later(name)) >= MaxBackups
Disposable(name) == ~Young(name) \/ Superseded(name)

\* What the retention deletes is too old, or there are MaxBackups later backups.
SparesTheLatest ==
  \A j \in Jobs : Purge(j) \/ PurgeZip(j) =>
    \A name \in (DOMAIN dumps \ DOMAIN dumps') \cup (DOMAIN zips \ DOMAIN zips') : Disposable(name)
RetentionSpares == [][SparesTheLatest]_vars

\* An administrator deletes a backup.
ByHand == \E name \in DOMAIN dumps : name.kind = "backup" /\ Delete(name)

\* While requests follow one another and nothing is restored, a file only grows.
FileGrows ==
  ~overlap' /\ restores' = 0 => \A d \in Dirs : userdata[d] \subseteq userdata'[d]
FilesOnlyGrow == [][FileGrows]_vars

\* An answer that its device has not forgotten by leaving is there, whatever the
\* server did with it.
StillOnItsDevice ==
  \A i \in recorded \ Earlier : DirOf[i] = Stats /\ Author[i] \in signed => i \in local[Author[i]]

\* The archives that are there, or that some job means to delete or to open again.
InUse ==
  DOMAIN dumps \cup {job[j].name : j \in {k \in Jobs : job[k].at \in {"safe", "copy"}}}
               \cup UNION {job[j].doomed : j \in Jobs}

\* What is later by its number is not earlier by its day.
Ordered ==
  /\ IsFiniteSet(DOMAIN dumps)
  /\ \A x \in InUse : x.n < stamp /\ x.day <= day
  /\ \A x, y \in InUse : x.n <= y.n => x.day <= y.day

\* What a job has doomed may still go, whatever happened since it listed the backups.
Doomed == \A j \in Jobs : \A name \in job[j].doomed : name.kind = "backup" /\ Disposable(name)

\* The day of a listing is over, or today.
Listed == \A j \in Jobs : job[j].at = "purge" => job[j].day <= day

LEMMA NamesInUse ==
  ASSUME WellTyped
  PROVE  /\ \A x \in InUse : x \in Names /\ x.n \in Nat /\ x.day \in Nat
         /\ day \in Nat /\ stamp \in Nat /\ Retention \in Nat
<1>1. \A j \in Jobs : job[j].doomed \subseteq Names /\ job[j].name \in Names
  BY DEF WellTyped, Archives, AllFit, Job
<1>2. InUse \subseteq Names
  BY <1>1 DEF InUse, WellTyped, Archives, Dated
<1>. QED
  BY <1>2, StorageAssumption, BackupAssumption DEF WellTyped, Names, Days

LEMMA OrderedNext ==
  ASSUME WellTyped, Ordered, IsFiniteSet(DOMAIN dumps'),
         NEW kind \in {"backup", "pre_restore"}, InUse' \subseteq InUse \cup {New(kind)},
         day' = day, stamp' = stamp + 1
  PROVE  Ordered'
<1>0. \A x \in InUse : x.n \in Nat /\ x.day \in Nat
  BY NamesInUse
<1>1. New(kind).n = stamp /\ New(kind).day = day /\ stamp \in Nat /\ day \in Nat
  BY NamesInUse DEF New
<1>2. ASSUME NEW x \in InUse' PROVE x.n < stamp' /\ x.day <= day'
  <2>1. CASE x \in InUse
    BY <1>0, <1>1, <2>1 DEF Ordered
  <2>2. CASE x = New(kind)
    BY <1>1, <2>2
  <2>. QED
    BY <2>1, <2>2
<1>3. ASSUME NEW x \in InUse', NEW y \in InUse', x.n <= y.n PROVE x.day <= y.day
  <2>1. CASE x \in InUse /\ y \in InUse
    BY <1>3, <2>1 DEF Ordered
  <2>2. CASE x \in InUse /\ y = New(kind)
    BY <1>1, <2>2 DEF Ordered
  <2>3. CASE x = New(kind) /\ y \in InUse
    BY <1>0, <1>1, <1>3, <2>3 DEF Ordered
  <2>4. CASE x = New(kind) /\ y = New(kind)
    BY <1>1, <2>4
  <2>. QED
    BY <2>1, <2>2, <2>3, <2>4
<1>. QED
  BY <1>2, <1>3 DEF Ordered

LEMMA OrderedSame ==
  ASSUME WellTyped, Ordered, IsFiniteSet(DOMAIN dumps'), InUse' \subseteq InUse,
         day' = day, stamp' \in {stamp, stamp + 1}
  PROVE  Ordered'
<1>1. stamp \in Nat /\ \A x \in InUse : x.n \in Nat
  BY NamesInUse
<1>. QED
  BY <1>1 DEF Ordered

\* A job dooms what it lists, and nothing else.
LEMMA DoomedWork ==
  ASSUME WellTyped, NEW j \in Jobs, Work(j), ~Retain(j)
  PROVE  job'[j].doomed \subseteq job[j].doomed
<1>0. job \in [Jobs -> Job] /\ job[j] \in Job /\ Resting.doomed = {}
  BY DEF WellTyped, Archives, AllFit, Resting
<1>1. CASE Claim(j) \/ Create(j) \/ \E name \in DOMAIN dumps : Restore(j, name)
  BY <1>0, <1>1 DEF Claim, Create, Restore, Start, Resting
<1>2. CASE Dump(j)
  BY <1>0, <1>2 DEF Dump, Job
<1>3. CASE Zip(j)
  BY <1>0, <1>3 DEF Zip, Resting
<1>4. CASE Purge(j) \/ PurgeZip(j)
  <2>1. PICK name : job' = [job EXCEPT ![j].doomed = @ \ {name}] \/ job' = job
    BY <1>4 DEF Purge, PurgeZip
  <2> DEFINE q == [job[j] EXCEPT !.doomed = @ \ {name}]
  <2>2. q.doomed = job[j].doomed \ {name}
    BY <1>0 DEF Job
  <2>. QED
    BY <1>0, <2>1, <2>2
<1>5. CASE Retained(j) \/ Stop(j)
  BY <1>0, <1>5 DEF Retained, Stop
<1>6. CASE SafetyCopy(j)
  BY <1>0, <1>6 DEF SafetyCopy, Job
<1>7. CASE Copy(j)
  BY <1>0, <1>7 DEF Copy, Job
<1>8. CASE Replace(j)
  BY <1>0, <1>8 DEF Replace, Resting
<1>9. CASE Extract(j)
  BY <1>0, <1>9 DEF Extract, Job
<1>10. CASE Remove(j)
  BY <1>0, <1>10 DEF Remove, Job
<1>11. CASE Promote(j)
  BY <1>0, <1>11 DEF Promote, Job
<1>. QED
  BY <1>1, <1>2, <1>3, <1>4, <1>5, <1>6, <1>7, <1>8, <1>9, <1>10, <1>11 DEF Work

LEMMA OrderedWork ==
  ASSUME WellTyped, Ordered, NEW j \in Jobs, Work(j)
  PROVE  Ordered'
<1>0. /\ job \in [Jobs -> Job] /\ \A k \in Jobs \ {j} : job'[k] = job[k]
      /\ ~Retain(j) => job'[j].doomed \subseteq job[j].doomed
  BY Others, DoomedWork DEF WellTyped, Archives, AllFit
<1>a. ASSUME DOMAIN dumps' \subseteq DOMAIN dumps, day' = day, stamp' \in {stamp, stamp + 1},
             job'[j].at \in {"safe", "copy"} => job'[j].name \in InUse, job'[j].doomed \subseteq InUse
      PROVE  Ordered'
  <2>1. InUse' \subseteq InUse
    BY <1>0, <1>a DEF InUse
  <2>2. IsFiniteSet(DOMAIN dumps')
    BY <1>a, FS_Subset DEF Ordered
  <2>. QED
    BY <1>a, <2>1, <2>2, OrderedSame
<1>b. ~Retain(j) => job'[j].doomed \subseteq InUse
  BY <1>0 DEF InUse
<1>1. CASE Claim(j) \/ Create(j)
  <2>1. job'[j].at = "dump" /\ UNCHANGED <<day, stamp, dumps>>
    BY <1>1, Where DEF Claim, Create
  <2>2. ~Retain(j)
    BY <1>1, <2>1, Where
  <2>. QED
    BY <1>a, <1>b, <2>1, <2>2
<1>2. CASE Dump(j)
  <2>1. /\ dumps' = Put(dumps, New("backup"), database) /\ job'[j].at = "zip"
        /\ day' = day /\ stamp' = stamp + 1 /\ ~Retain(j)
    BY <1>0, <1>2 DEF Dump, NextStamp, Retain, Job
  <2>2. DOMAIN dumps' = DOMAIN dumps \cup {New("backup")}
    BY <2>1, PutIs
  <2>3. InUse' \subseteq InUse \cup {New("backup")}
    BY <1>0, <1>b, <2>1, <2>2 DEF InUse
  <2>4. IsFiniteSet(DOMAIN dumps')
    BY <2>2, FS_AddElement DEF Ordered
  <2>. QED
    BY <2>1, <2>3, <2>4, OrderedNext
<1>3. CASE Zip(j)
  <2>1. job'[j].at = "retain" /\ UNCHANGED <<day, stamp, dumps>> /\ ~Retain(j)
    BY <1>0, <1>3 DEF Zip, Retain, Resting
  <2>. QED
    BY <1>a, <1>b, <2>1
<1>4. CASE Retain(j)
  <2>1. PICK D, edge :
          /\ D \subseteq DOMAIN dumps
          /\ job' = [job EXCEPT ![j] = [Resting EXCEPT !.at = "purge", !.day = day, !.edge = edge, !.doomed = D]]
    BY <1>4 DEF Retain
  <2>2. job'[j].doomed = D
    BY <1>0, <2>1 DEF Resting
  <2>3. D \subseteq InUse
    BY <2>1 DEF InUse
  <2>4. job'[j].at = "purge" /\ UNCHANGED <<day, stamp, dumps>>
    BY <1>4, Where DEF Retain
  <2>. QED
    BY <1>a, <2>2, <2>3, <2>4
<1>10. CASE Purge(j) \/ PurgeZip(j) \/ Retained(j)
  <2>1. job'[j].at \in {"purge", "idle"} /\ UNCHANGED <<day, stamp>> /\ ~Retain(j)
    BY <1>10, Where DEF Purge, PurgeZip, Retained, Retain
  <2>2. \E S : dumps' = dumps \/ dumps' = Without(dumps, S)
    BY <1>10 DEF Purge, PurgeZip, Retained
  <2>3. DOMAIN dumps' \subseteq DOMAIN dumps
    BY <2>2 DEF Without, Restrict
  <2>. QED
    BY <1>a, <1>b, <2>1, <2>3
<1>5. ASSUME NEW name \in DOMAIN dumps, Restore(j, name) PROVE Ordered'
  <2> DEFINE q == [Resting EXCEPT !.at = "safe", !.name = name]
  <2>1. job' = [job EXCEPT ![j] = q] /\ UNCHANGED <<day, stamp, dumps>> /\ ~Retain(j)
    BY <1>5 DEF Restore, Start, Retain
  <2>3. q.name = name
    BY DEF Resting
  <2>4. job'[j] = q
    BY <1>0, <2>1
  <2>. HIDE DEF q
  <2>2. name \in InUse
    BY DEF InUse
  <2>. QED
    BY <1>a, <1>b, <2>1, <2>2, <2>3, <2>4
<1>6. CASE SafetyCopy(j)
  <2>1. /\ job[j].at = "safe" /\ dumps' = Put(Opened(job[j].name), New("pre_restore"), database)
        /\ day' = day /\ stamp' = stamp + 1 /\ ~Retain(j)
    BY <1>6 DEF SafetyCopy, NextStamp, Retain
  <2>2. job'[j].name = job[j].name
    BY <1>0, <1>6 DEF SafetyCopy, Job
  <2>3. DOMAIN dumps' = (DOMAIN dumps \cup {job[j].name}) \cup {New("pre_restore")}
    <3>1. DOMAIN Opened(job[j].name) = DOMAIN dumps \cup {job[j].name}
      BY OpenedIs
    <3>. QED
      BY <2>1, <3>1 DEF Put
  <2>4. job[j].name \in InUse
    BY <2>1 DEF InUse
  <2>5. InUse' \subseteq InUse \cup {New("pre_restore")}
    BY <1>0, <1>b, <2>1, <2>2, <2>3, <2>4 DEF InUse
  <2>6. IsFiniteSet(DOMAIN dumps')
    <3>1. IsFiniteSet(DOMAIN dumps \cup {job[j].name})
      BY FS_AddElement DEF Ordered
    <3>. HIDE DEF InUse
    <3>. QED
      BY <2>3, <3>1, FS_AddElement
  <2>. QED
    BY <2>1, <2>5, <2>6, OrderedNext
<1>7. CASE Copy(j)
  <2>1. /\ job[j].at = "copy" /\ job'[j].at \notin {"safe", "copy"}
        /\ dumps' = Opened(job[j].name) /\ UNCHANGED <<day, stamp>> /\ ~Retain(j)
    BY <1>7, Where DEF Copy, Retain
  <2>2. DOMAIN dumps' = DOMAIN dumps \cup {job[j].name} /\ job[j].name \in InUse
    BY <2>1, OpenedIs DEF InUse
  <2>3. InUse' \subseteq InUse
    BY <1>0, <1>b, <2>1, <2>2 DEF InUse
  <2>4. IsFiniteSet(DOMAIN dumps')
    BY <2>2, FS_AddElement DEF Ordered
  <2>. QED
    BY <2>1, <2>3, <2>4, OrderedSame
<1>8. CASE Extract(j)
  <2>1. job'[j].at \notin {"safe", "copy"} /\ UNCHANGED <<day, dumps>> /\ stamp' = stamp + 1 /\ ~Retain(j)
    BY <1>0, <1>8 DEF Extract, NextStamp, Retain, Resting, Job
  <2>. QED
    BY <1>a, <1>b, <2>1
<1>9. CASE Replace(j) \/ Remove(j) \/ Promote(j) \/ Stop(j)
  <2>1. job'[j].at \notin {"safe", "copy"}
    BY <1>9, Where
  <2>2. UNCHANGED <<day, stamp, dumps>>
    BY <1>9 DEF Replace, Remove, Promote, Stop
  <2>3. ~Retain(j)
    BY <1>9, Where
  <2>. QED
    BY <1>a, <1>b, <2>1, <2>2, <2>3
<1>. QED
  BY <1>1, <1>2, <1>3, <1>4, <1>5, <1>6, <1>7, <1>8, <1>9, <1>10 DEF Work

LEMMA OrderedKept ==
  ASSUME Typed, Ordered, [Next]_vars
  PROVE  Ordered'
<1>1. CASE UNCHANGED backup
  BY <1>1 DEF backup, Ordered, InUse
<1>2. ASSUME NEW j \in Jobs, Work(j) PROVE Ordered'
  BY <1>2, OrderedWork DEF Typed
<1>3. ASSUME NEW name \in DOMAIN dumps, Delete(name) PROVE Ordered'
  <2>1. UNCHANGED <<day, stamp, job>> /\ DOMAIN dumps' \subseteq DOMAIN dumps
    BY <1>3, WithoutIs DEF Delete
  <2>2. InUse' \subseteq InUse
    BY <2>1 DEF InUse
  <2>3. IsFiniteSet(DOMAIN dumps')
    BY <2>1, FS_Subset DEF Ordered
  <2>. QED
    BY <2>1, <2>2, <2>3, OrderedSame DEF Typed
<1>4. CASE NextDay
  <2>1. UNCHANGED <<stamp, dumps, job>> /\ day' = day + 1
    BY <1>4 DEF NextDay
  <2>2. InUse' = InUse
    BY <2>1 DEF InUse
  <2>3. day \in Nat /\ \A x \in InUse : x.day \in Nat
    BY NamesInUse DEF Typed
  <2>. QED
    BY <2>1, <2>2, <2>3 DEF Ordered
<1>. QED
  BY <1>1, <1>2, <1>3, <1>4 DEF Next, vars

\* What may go may still go, as long as what goes, one at a time, may go.
LEMMA DisposableNext ==
  ASSUME WellTyped, Ordered, IsFiniteSet(DOMAIN dumps'), day' \in Nat, day <= day',
         NEW name \in InUse, Disposable(name),
         NEW m, DOMAIN dumps \ DOMAIN dumps' \subseteq {m},
         m \in DOMAIN dumps \ DOMAIN dumps' /\ m.kind = "backup" => Disposable(m)
  PROVE  Disposable(name)'
<1>0. /\ \A x \in InUse : x.n \in Nat /\ x.day \in Nat
      /\ day \in Nat /\ Retention \in Nat /\ MaxBackups \in Nat
      /\ DOMAIN dumps \subseteq InUse
  BY NamesInUse, BackupAssumption DEF InUse
<1>1. ~Young(name) => ~Young(name)'
  BY <1>0 DEF Young
<1>2. IsFiniteSet(Later(name)')
  BY FS_Subset DEF Later
<1>3. ASSUME NEW x, Cardinality(Later(x)) >= MaxBackups, Later(x) \subseteq Later(name)'
      PROVE  Cardinality(Later(name)') >= MaxBackups
  <2>1. IsFiniteSet(Later(x))
    BY <1>2, <1>3, FS_Subset
  <2>2. /\ Cardinality(Later(x)) <= Cardinality(Later(name)')
        /\ Cardinality(Later(x)) \in Nat /\ Cardinality(Later(name)') \in Nat
    BY <1>2, <1>3, <2>1, FS_Subset, FS_CardinalityType
  <2>. QED
    BY <1>0, <1>3, <2>2
<1>4. CASE ~Young(name)
  BY <1>1, <1>4 DEF Disposable
<1>5. CASE Superseded(name) /\ m \notin Later(name)
  <2>1. Later(name) \subseteq Later(name)'
    BY <1>5 DEF Later
  <2>. QED
    BY <1>3, <1>5, <2>1 DEF Disposable, Superseded
<1>6. CASE Superseded(name) /\ m \in Later(name) /\ m \in DOMAIN dumps'
  <2>1. Later(name) \subseteq Later(name)'
    BY <1>6 DEF Later
  <2>. QED
    BY <1>3, <1>6, <2>1 DEF Disposable, Superseded
<1>7. CASE Superseded(name) /\ m \in Later(name) /\ m \notin DOMAIN dumps'
  <2>1. m \in InUse /\ m.n > name.n /\ Disposable(m)
    BY <1>0, <1>7 DEF Later
  <2>2. CASE ~Young(m)
    <3>1. name.day <= m.day
      BY <1>0, <2>1 DEF Ordered
    <3>2. ~Young(name)
      BY <1>0, <2>1, <2>2, <3>1 DEF Young
    <3>. QED
      BY <1>1, <3>2 DEF Disposable
  <2>3. CASE Superseded(m)
    <3>1. Later(m) \subseteq Later(name)'
      <4>1. SUFFICES ASSUME NEW x \in Later(m) PROVE x \in Later(name)'
        OBVIOUS
      <4>2. x \in DOMAIN dumps /\ x.kind = "backup" /\ x.n > m.n /\ x.n \in Nat /\ m.n \in Nat /\ name.n \in Nat
        BY <1>0, <2>1 DEF Later
      <4>3. x # m /\ x.n > name.n
        BY <2>1, <4>2
      <4>. QED
        BY <4>2, <4>3 DEF Later
    <3>. QED
      BY <1>3, <1>7, <2>3, <3>1 DEF Disposable, Superseded
  <2>. QED
    BY <2>1, <2>2, <2>3 DEF Disposable
<1>. QED
  BY <1>4, <1>5, <1>6, <1>7 DEF Disposable

\* The archives that are too old for one listing are too old from then on.
LEMMA ExpiredIsOld ==
  ASSUME WellTyped, NEW name \in Names, NEW today \in Nat, today <= day, NEW edge, Expired(name, today, edge)
  PROVE  ~Young(name)
<1>1. name.day \in Nat /\ day \in Nat /\ Retention \in Nat
  BY NamesInUse, StorageAssumption DEF Names, Days
<1>. QED
  BY <1>1 DEF Expired, Young

\* What is listed may go.
LEMMA ListedMayGo ==
  ASSUME WellTyped, Ordered, NEW edge,
         NEW name \in DOMAIN dumps, name.kind = "backup", Expired(name, day, edge) \/ Surplus(name, edge)
  PROVE  Disposable(name)
<1>0. name \in Names /\ day \in Nat /\ MaxBackups \in Nat
  BY NamesInUse, BackupAssumption DEF WellTyped, Archives, Dated
<1>1. CASE Expired(name, day, edge)
  BY <1>0, <1>1, ExpiredIsOld DEF Disposable
<1>2. CASE Surplus(name, edge)
  <2> DEFINE above == {m \in Fresh(edge) : m.n > name.n}
  <2>1. above \subseteq Later(name) /\ IsFiniteSet(Later(name))
    BY FS_Subset DEF Fresh, Later, Ordered
  <2>2. Cardinality(above) >= MaxBackups
    BY <1>2 DEF Surplus
  <2>. HIDE DEF above
  <2>3. /\ Cardinality(above) <= Cardinality(Later(name))
        /\ Cardinality(above) \in Nat /\ Cardinality(Later(name)) \in Nat
    BY <2>1, FS_Subset, FS_CardinalityType
  <2>. QED
    BY <1>0, <2>2, <2>3 DEF Disposable, Superseded
<1>. QED
  BY <1>1, <1>2

\* What the retention condemns may go.
LEMMA CondemnedMayGo ==
  ASSUME WellTyped, Doomed, Listed, NEW j \in Jobs, job[j].at = "purge", NEW name \in Condemned(j)
  PROVE  Disposable(name)
<1>1. CASE job[j].doomed # {}
  BY <1>1 DEF Condemned, Doomed
<1>2. CASE job[j].doomed = {}
  <2>1. name \in DOMAIN dumps /\ Expired(name, job[j].day, job[j].edge)
    BY <1>2 DEF Condemned
  <2>2. name \in Names /\ job[j].day \in Nat /\ job[j].day <= day
    BY <2>1, StorageAssumption DEF Listed, WellTyped, Archives, Dated, AllFit, Job, Days
  <2>. QED
    BY <2>1, <2>2, ExpiredIsOld DEF Disposable
<1>. QED
  BY <1>1, <1>2

LEMMA PurgedMayGo ==
  ASSUME WellTyped, Doomed, Listed
  PROVE  SparesTheLatest
<1>1. ASSUME NEW j \in Jobs, Purge(j),
             NEW name \in (DOMAIN dumps \ DOMAIN dumps') \cup (DOMAIN zips \ DOMAIN zips')
      PROVE  Disposable(name)
  <2>1. PICK m \in Condemned(j) :
          dumps' \in {dumps, Without(dumps, {m})} /\ zips' \in {zips, Without(zips, {m})}
    BY <1>1 DEF Purge
  <2>2. name = m
    BY <1>1, <2>1 DEF Without, Restrict
  <2>3. job[j].at = "purge"
    BY <1>1 DEF Purge
  <2>. QED
    BY <2>2, <2>3, CondemnedMayGo
<1>2. ASSUME NEW j \in Jobs, PurgeZip(j),
             NEW name \in (DOMAIN dumps \ DOMAIN dumps') \cup (DOMAIN zips \ DOMAIN zips')
      PROVE  Disposable(name)
  <2>1. PICK m \in DOMAIN zips : Expired(m, job[j].day, job[j].edge) /\ zips' = Without(zips, {m}) /\ dumps' = dumps
    BY <1>2 DEF PurgeZip
  <2>2. name = m
    BY <1>2, <2>1, WithoutIs
  <2>3. name \in Names /\ job[j].day \in Nat /\ job[j].day <= day
    BY <1>2, <2>1, <2>2, StorageAssumption DEF PurgeZip, Listed, WellTyped, Archives, Dated, AllFit, Job, Days
  <2>. QED
    BY <2>1, <2>2, <2>3, ExpiredIsOld DEF Disposable
<1>. QED
  BY <1>1, <1>2 DEF SparesTheLatest

\* Nothing goes but by the retention or by hand.
LEMMA OnlyPurged ==
  ASSUME Typed, Doomed, Listed, [Next]_vars, ~ByHand
  PROVE  \E m : /\ DOMAIN dumps \ DOMAIN dumps' \subseteq {m}
                /\ m \in DOMAIN dumps \ DOMAIN dumps' /\ m.kind = "backup" => Disposable(m)
<1>1. CASE UNCHANGED dumps
  BY <1>1
<1>2. ASSUME NEW j \in Jobs, Work(j) PROVE DOMAIN dumps \subseteq DOMAIN dumps' \/ Purge(j)
  <2>1. CASE Dump(j)
    <3>1. dumps' = Put(dumps, New("backup"), database)
      BY <2>1 DEF Dump
    <3>. QED
      BY <3>1 DEF Put
  <2>2. CASE SafetyCopy(j)
    <3>1. dumps' = Put(Opened(job[j].name), New("pre_restore"), database)
      BY <2>2 DEF SafetyCopy
    <3>2. DOMAIN dumps \subseteq DOMAIN Opened(job[j].name)
      BY OpenedIs
    <3>. QED
      BY <3>1, <3>2 DEF Put
  <2>3. CASE Copy(j)
    BY <2>3, OpenedIs DEF Copy
  <2>. QED
    BY <1>2, <2>1, <2>2, <2>3 DEF Work, Claim, Create, Zip, Retain, PurgeZip, Retained, Restore,
                                  Replace, Extract, Remove, Promote, Stop
<1>3. ASSUME NEW j \in Jobs, Purge(j)
      PROVE  \E m : /\ DOMAIN dumps \ DOMAIN dumps' \subseteq {m}
                    /\ m \in DOMAIN dumps \ DOMAIN dumps' /\ m.kind = "backup" => Disposable(m)
  <2>1. PICK m \in Condemned(j) : dumps' \in {dumps, Without(dumps, {m})}
    BY <1>3 DEF Purge
  <2>2. DOMAIN dumps \ DOMAIN dumps' \subseteq {m}
    BY <2>1 DEF Without, Restrict
  <2>3. m \in DOMAIN dumps \ DOMAIN dumps' => Disposable(m)
    BY <1>3, PurgedMayGo DEF SparesTheLatest, Typed
  <2>. QED
    BY <2>2, <2>3
<1>4. ASSUME NEW m \in DOMAIN dumps, Delete(m)
      PROVE  DOMAIN dumps \ DOMAIN dumps' \subseteq {m} /\ m.kind # "backup"
  BY <1>4, WithoutIs DEF Delete, ByHand
<1>5. CASE UNCHANGED backup \/ NextDay
  BY <1>1, <1>5 DEF backup, NextDay
<1>. QED
  BY <1>1, <1>2, <1>3, <1>4, <1>5 DEF Next, vars, backup

LEMMA ListedKept ==
  ASSUME Typed, Listed, [Next]_vars
  PROVE  Listed'
<1>0. job \in [Jobs -> Job] /\ day \in Nat
  BY NamesInUse DEF Typed, WellTyped, Archives, AllFit
<1>1. CASE UNCHANGED backup
  BY <1>1 DEF backup, Listed
<1>2. ASSUME NEW j \in Jobs, Work(j) PROVE Listed'
  <2>1. \A k \in Jobs \ {j} : job'[k] = job[k]
    BY <1>2, Others DEF Typed
  <2>2. day' = day
    BY <1>2 DEF Work, Claim, Create, Dump, Zip, Retain, Purge, PurgeZip, Retained, Restore, SafetyCopy, Copy,
                Replace, Extract, Remove, Promote, Stop
  <2>3. CASE Retain(j)
    <3>1. job'[j].day = day
      BY <1>0, <2>3 DEF Retain, Resting
    <3>. QED
      BY <1>0, <2>1, <2>2, <3>1 DEF Listed
  <2>4. CASE Purge(j) \/ PurgeZip(j)
    <3>1. job[j].at = "purge" /\ job'[j].day = job[j].day
      BY <1>0, <2>4 DEF Purge, PurgeZip, Job
    <3>. QED
      BY <2>1, <2>2, <3>1 DEF Listed
  <2>5. CASE ~(Retain(j) \/ Purge(j) \/ PurgeZip(j))
    <3>1. job'[j].at # "purge"
      <4>1. Dump(j) => job'[j].at = "zip"
        BY <1>0 DEF Dump, Job
      <4>2. Zip(j) => job'[j].at = "retain"
        BY <1>0 DEF Zip, Resting
      <4>3. Extract(j) => job'[j].at \in {"idle", "remove"}
        BY <1>0 DEF Extract, Resting, Job
      <4>. QED
        BY <1>2, <2>5, <4>1, <4>2, <4>3, Where DEF Work, Typed
    <3>. QED
      BY <2>1, <2>2, <3>1 DEF Listed
  <2>. QED
    BY <2>3, <2>4, <2>5
<1>3. ASSUME NEW name \in DOMAIN dumps, Delete(name) PROVE Listed'
  BY <1>3 DEF Delete, Listed
<1>4. CASE NextDay
  <2>1. UNCHANGED job /\ day' = day + 1 /\ \A j \in Jobs : job[j].day \in Nat
    BY <1>0, <1>4, StorageAssumption DEF NextDay, Job, Days
  <2>. QED
    BY <1>0, <2>1 DEF Listed
<1>. QED
  BY <1>1, <1>2, <1>3, <1>4 DEF Next, vars

LEMMA DoomedKept ==
  ASSUME Typed, Ordered, Doomed, Listed, [Next]_vars, ~ByHand
  PROVE  Doomed'
<1>1. Ordered' /\ WellTyped /\ WellTyped'
  BY OrderedKept, TypesKept DEF Typed
<1>2. day \in Nat /\ day' \in Nat /\ day <= day'
  <2>1. day \in Nat /\ day' \in Nat
    BY <1>1, StorageAssumption DEF WellTyped, Days
  <2>2. day' \in {day, day + 1}
    BY DEF Next, vars, backup, NextDay, Delete, Work, Claim, Create, Dump, Zip, Retain, Purge, PurgeZip, Retained,
           Restore, SafetyCopy, Copy, Replace, Extract, Remove, Promote, Stop
  <2>. QED
    BY <2>1, <2>2
<1>3. PICK m : /\ DOMAIN dumps \ DOMAIN dumps' \subseteq {m}
               /\ m \in DOMAIN dumps \ DOMAIN dumps' /\ m.kind = "backup" => Disposable(m)
  BY OnlyPurged
<1>4. \A name \in InUse : Disposable(name) => Disposable(name)'
  <2>1. IsFiniteSet(DOMAIN dumps')
    BY <1>1 DEF Ordered
  <2>. QED
    BY <1>1, <1>2, <1>3, <2>1, DisposableNext
<1>5. ASSUME NEW j \in Jobs, NEW name \in job[j].doomed PROVE name.kind = "backup" /\ Disposable(name)'
  <2>1. name \in InUse
    BY DEF InUse
  <2>. QED
    BY <1>4, <2>1 DEF Doomed
<1>6. CASE UNCHANGED job
  BY <1>5, <1>6 DEF Doomed
<1>7. ASSUME NEW j \in Jobs, Work(j) PROVE Doomed'
  <2>0. job \in [Jobs -> Job] /\ \A k \in Jobs \ {j} : job'[k] = job[k]
    BY <1>1, <1>7, Others DEF WellTyped, Archives, AllFit
  <2>1. CASE Retain(j)
    <3>1. PICK edge : /\ \A name \in job'[j].doomed :
                           /\ name \in DOMAIN dumps /\ name.kind = "backup"
                           /\ Expired(name, day, edge) \/ Surplus(name, edge)
      BY <2>0, <2>1 DEF Retain, Resting
    <3>2. \A name \in job'[j].doomed : name.kind = "backup" /\ Disposable(name) /\ name \in InUse
      BY <1>1, <3>1, ListedMayGo DEF InUse
    <3>. QED
      BY <1>4, <1>5, <2>0, <3>2 DEF Doomed
  <2>2. CASE ~Retain(j)
    <3>1. job'[j].doomed \subseteq job[j].doomed
      BY <1>1, <1>7, <2>2, DoomedWork
    <3>. QED
      BY <1>5, <2>0, <3>1 DEF Doomed
  <2>. QED
    BY <2>1, <2>2
<1>8. ~(\E j \in Jobs : Work(j)) => UNCHANGED job
  BY DEF Next, vars, backup, Delete, NextDay
<1>. QED
  BY <1>6, <1>7, <1>8

LEMMA RetentionInit == Init => Ordered /\ Doomed /\ Listed
<1> SUFFICES ASSUME Init PROVE Ordered /\ Doomed /\ Listed
  OBVIOUS
<1>1. DOMAIN dumps = {} /\ \A j \in Jobs : job[j].at = "idle" /\ job[j].doomed = {}
  BY DEF Init, BackupInit, Resting
<1>2. InUse = {}
  BY <1>1 DEF InUse
<1>. QED
  BY <1>1, <1>2, FS_EmptySet DEF Ordered, Doomed, Listed

\* The retention deletes nothing but what has passed its age, and young backups when
\* MaxBackups later ones are still there, although it lists them once and deletes
\* them one by one, while others archive, restore, or apply the retention too, and
\* any deletion may fail or be the last before a kill (_apply_retention): as long
\* as administrators delete no backup themselves, which the list would not know.
THEOREM RetentionSparesTheLatest == Spec /\ [][~ByHand]_vars => RetentionSpares
<1>1. Typed /\ Doomed /\ Listed /\ [Next]_vars => [SparesTheLatest]_vars
  BY PurgedMayGo DEF Typed
<1>2. Typed /\ Ordered /\ Doomed /\ Listed /\ [Next]_vars /\ [~ByHand]_vars => Doomed'
  <2>1. CASE UNCHANGED vars
    BY <2>1 DEF vars, backup, Doomed, Disposable, Young, Superseded, Later
  <2>. QED
    BY <2>1, DoomedKept
<1>. QED
  BY <1>1, <1>2, TypesInit, TypesKept, RetentionInit, OrderedKept, ListedKept, PTL DEF Spec, RetentionSpares

-----------------------------------------------------------------------------
(* What is never lost while requests follow one another *)

LEMMA FileGrowth ==
  ASSUME Typed, Unrestored, Serial, [Next]_vars
  PROVE  FileGrows
<1> SUFFICES ASSUME ~overlap', restores' = 0 PROVE \A d \in Dirs : userdata[d] \subseteq userdata'[d]
  BY DEF FileGrows
<1>1. CASE UNCHANGED vars
  BY <1>1 DEF vars, storage
<1>2. CASE ProgressNext /\ UNCHANGED backup
  <2>1. ASSUME NEW r \in Requests, Write(r) PROVE \A d \in Dirs : userdata[d] \subseteq userdata'[d]
    <3>1. req[r].at = "read" /\ ~overlap /\ restores = 0
      BY <1>2, <2>1 DEF Write, backup
    <3>2. req[r].file = userdata[req[r].dir]
      BY <3>1 DEF Serial, InTurn, Inside
    <3>3. /\ userdata' = [userdata EXCEPT ![req[r].dir] = req[r].file \cup req[r].body]
          /\ userdata \in [Dirs -> SUBSET Items]
      BY <2>1 DEF Write, Merge, Typed, WellTyped, StorageOK, Contents
    <3>. QED
      BY <3>2, <3>3
  <2>2. ASSUME ~(\E r \in Requests : Write(r)) PROVE userdata' = userdata
    BY <1>2, <2>2 DEF ProgressNext, Record, Hydrate, Leave, Read, Reply, Drop, storage
  <2>. QED
    BY <2>1, <2>2
<1>3. ASSUME NEW j \in Jobs, Work(j) PROVE userdata' = userdata
  BY <1>3, Unclaiming DEF Claim, storage
<1>4. ASSUME NEW name \in DOMAIN dumps, Delete(name) PROVE userdata' = userdata
  BY <1>4 DEF Delete, storage
<1>5. CASE NextDay
  BY <1>5 DEF NextDay, storage
<1>. QED
  BY <1>1, <1>2, <1>3, <1>4, <1>5 DEF Next

\* While requests follow one another and nothing is restored, no post ever takes an
\* item out of a file, acknowledged or not, however old what it carries
\* (_merge_stats_payload: "un ensemble d'entrees qui ne fait que grossir").
THEOREM FilesNeverShrink == Spec => FilesOnlyGrow
<1>1. Init => Unrestored /\ Claimed /\ Serial
  <2>1. Init => Unrestored /\ Claimed
    BY DEF Init, StorageInit, BackupInit, Resting, Unrestored, Claimed, OneAutomaticBackup
  <2>2. Init => Sorted /\ InTurn
    BY StorageAssumption DEF Init, StorageInit, ProgressInit, Idle, Kept, Sorted, InTurn, Inside
  <2>. QED
    BY <2>1, <2>2 DEF Serial
<1>2. Typed /\ Unrestored /\ Serial /\ [Next]_vars => [FileGrows]_vars
  BY FileGrowth
<1>. QED
  BY <1>1, <1>2, TypesInit, TypesKept, ClaimedKept, SerialKept, PTL DEF Spec, FilesOnlyGrow

LEMMA StillKept ==
  ASSUME Typed, StillOnItsDevice, [Next]_vars
  PROVE  StillOnItsDevice'
<1>0. local \in [Devices -> SUBSET Items]
  BY DEF Typed, ProgressOK
<1>1. ASSUME NEW i \in Items, Record(i) PROVE StillOnItsDevice'
  <2>1. recorded' = recorded \cup {i} /\ signed' = signed /\ Author[i] \in Devices
    BY <1>1, ProgressAssumption DEF Record
  <2>2. \A d \in Devices : local[d] \subseteq local'[d]
    BY <1>0, <1>1 DEF Record
  <2>3. DirOf[i] = Stats => i \in local'[Author[i]]
    BY <1>0, <1>1, <2>1 DEF Record
  <2>4. \A x \in recorded : Author[x] \in Devices
    BY ProgressAssumption DEF Typed, ProgressOK
  <2>. QED
    BY <2>1, <2>2, <2>3, <2>4 DEF StillOnItsDevice
<1>2. ASSUME NEW d \in Devices, Hydrate(d) PROVE StillOnItsDevice'
  <2>1. /\ local' = [local EXCEPT ![d] = local[d] \cup userdata[Stats]]
        /\ UNCHANGED <<signed, recorded>>
    BY <1>2 DEF Hydrate
  <2>2. \A e \in Devices : local[e] \subseteq local'[e]
    BY <1>0, <2>1
  <2>. QED
    BY <2>1, <2>2, ProgressAssumption DEF StillOnItsDevice, Typed, ProgressOK
<1>3. ASSUME NEW d \in Devices, Leave(d) PROVE StillOnItsDevice'
  <2>1. /\ local' = [local EXCEPT ![d] = {}]
        /\ signed' = signed \ {d} /\ recorded' = recorded
    BY <1>3 DEF Leave
  <2>2. \A e \in signed' : local'[e] = local[e] /\ e \in signed
    BY <1>0, <2>1 DEF Typed, ProgressOK
  <2>. QED
    BY <2>1, <2>2 DEF StillOnItsDevice
<1>4. ASSUME UNCHANGED <<local, signed, recorded>> PROVE StillOnItsDevice'
  BY <1>4 DEF StillOnItsDevice
<1>5. ASSUME NEW r \in Requests, Read(r) \/ Write(r) \/ Reply(r) \/ Drop(r) PROVE StillOnItsDevice'
  BY <1>4, <1>5 DEF Read, Write, Reply, Drop
<1>6. CASE UNCHANGED progress
  BY <1>4, <1>6 DEF progress
<1>. QED
  BY <1>1, <1>2, <1>3, <1>5, <1>6 DEF Next, ProgressNext, vars

\* Whatever is lost, overwritten or restored on the server, an answer is still on
\* the device that recorded it, unless another account has signed in there since
\* (store.js: what hydrateFromServer brings back is joined to what is there).
THEOREM DevicesKeepTheirOwn == Spec => []StillOnItsDevice
<1>1. Init => StillOnItsDevice
  BY DEF Init, ProgressInit, StillOnItsDevice
<1>. QED
  BY <1>1, TypesInit, TypesKept, StillKept, PTL DEF Spec
===============================================================================
