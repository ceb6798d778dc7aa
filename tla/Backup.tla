-------------------------------- MODULE Backup --------------------------------
(***************************************************************************)
(* Backups and restorations: backup_scheduler.py and backup_service.py. A   *)
(* backup is a dump of the database and a zip of the directories of files,  *)
(* twins of one timestamp; a restoration first archives what it replaces.   *)
(* Jobs, a scheduler's or an administrator's, are threads that interleave   *)
(* between any two steps on files and may be killed there. An archive       *)
(* appears whole, by a rename. The engine is SQLite.                        *)
(***************************************************************************)
EXTENDS Storage, Functions

CONSTANTS
  Jobs,         \* threads that can run a backup or a restoration
  Retention,    \* BACKUP_RETENTION_DAYS
  MaxBackups,   \* how many backups are kept at most
  MaxArchives,  \* bound: no job starts once this many timestamps are used
  MaxRestores   \* bound on restorations

ASSUME BackupAssumption ==
  /\ Retention \in Nat \ {0}
  /\ MaxBackups \in Nat \ {0}
  /\ MaxArchives \in Nat
  /\ MaxRestores \in Nat

VARIABLES
  day,      \* today
  stamp,    \* the next timestamp
  dumps,    \* the .sqlite3 archives: name to content
  zips,     \* the .userdata.zip archives: name to content
  job,      \* per thread, the job it runs
  restores, \* history: how many restorations were begun
  tmp,      \* app.db.restore_tmp, where every restoration writes: none, or its content
  upset     \* history: a backup was deleted while it was being restored, or two
            \* restorations met at tmp

backup == <<day, stamp, dumps, zips, job, restores, tmp, upset>>

\* The timestamp in a name gives its day, and distinguishes and orders names.
Names == [kind : {"backup", "pre_restore"}, day : Days, n : Nat]
NoName == [kind |-> "backup", day |-> 0, n |-> 0]

Resting == [at |-> "idle", auto |-> FALSE, day |-> 0, name |-> NoName, copy |-> NoName,
            data |-> [d \in Dirs |-> {}], todo |-> {}, dir |-> Stats, doomed |-> {}, edge |-> 0]
Places == {"idle", "dump", "zip", "retain", "purge",
           "safe", "copy", "replace", "extract", "remove", "promote"}
Job == [at : Places, auto : BOOLEAN, day : Days, name : Names, copy : Names,
        data : Contents, todo : SUBSET Dirs, dir : Dirs, doomed : SUBSET Names, edge : Nat]

Stamped(files) == DOMAIN files \subseteq Names /\ \A name \in DOMAIN files : name.n < stamp

BackupOK ==
  /\ day \in Days
  /\ stamp \in Nat \ {0}
  /\ Stamped(dumps) /\ \A name \in DOMAIN dumps : dumps[name] \in Databases
  /\ Stamped(zips) /\ \A name \in DOMAIN zips : zips[name] \in Contents
  /\ job \in [Jobs -> Job]
  /\ restores \in Nat
  /\ tmp \subseteq Databases
  /\ upset \in BOOLEAN

BackupInit ==
  /\ day = 0
  /\ stamp = 1
  /\ dumps = <<>>
  /\ zips = <<>>
  /\ job = [j \in Jobs |-> Resting]
  /\ restores = 0
  /\ tmp = {}
  /\ upset = FALSE

Put(files, name, content) ==
  [n \in DOMAIN files \cup {name} |-> IF n = name THEN content ELSE files[n]]

New(kind) == [kind |-> kind, day |-> day, n |-> stamp]
\* Mutant: two archives may get one timestamp.
SameStamp == stamp' \in {stamp, stamp + 1}
NextStamp == stamp' = stamp + 1

Start(j, state) ==
  /\ stamp <= MaxArchives
  /\ job[j].at = "idle"
  /\ job' = [job EXCEPT ![j] = state]

NextDay ==
  /\ day < LastDay
  /\ day' = day + 1
  /\ UNCHANGED <<stamp, dumps, zips, job, restores, tmp, upset, storage>>

-----------------------------------------------------------------------------
(* backup_database *)

\* claim_daily_backup: INSERT OR IGNORE, then its rowcount.
ClaimAlwaysFree(today) == today \in Days  \* mutant: the rowcount is ignored
ClaimFree(today) == today \notin database.claims

\* maybe_run_daily_backup, once the hour has come.
Claim(j) ==
  /\ database.account
  /\ ClaimFree(day)
  /\ Start(j, [Resting EXCEPT !.at = "dump", !.auto = TRUE, !.day = day])
  /\ database' = [database EXCEPT !.claims = @ \cup {day}]
  /\ UNCHANGED <<day, stamp, dumps, zips, restores, tmp, upset, userdata>>

\* An administrator asks for a backup.
Create(j) ==
  /\ Start(j, [Resting EXCEPT !.at = "dump"])
  /\ UNCHANGED <<day, stamp, dumps, zips, restores, tmp, upset, storage>>

\* _backup_sqlite. Mutant: the final file is created, then filled.
DumpInPlace(j) ==
  /\ job[j].at = "dump"
  /\ job' = [job EXCEPT ![j].at = "zip", ![j].name = New("backup")]
  /\ \E content \in {database, Blank} : dumps' = Put(dumps, New("backup"), content)
  /\ NextStamp
  /\ UNCHANGED <<day, zips, restores, tmp, upset, storage>>

Dump(j) ==
  /\ job[j].at = "dump"
  /\ job' = [job EXCEPT ![j].at = "zip", ![j].name = New("backup")]
  /\ dumps' = Put(dumps, New("backup"), database)
  /\ NextStamp
  /\ UNCHANGED <<day, zips, restores, tmp, upset, storage>>

\* _write_userdata_zip, under the same timestamp.
Zip(j) ==
  /\ job[j].at = "zip"
  /\ job' = [job EXCEPT ![j] = [Resting EXCEPT !.at = "retain"]]
  /\ zips' = Put(zips, job[j].name, userdata)
  /\ UNCHANGED <<day, stamp, dumps, restores, tmp, upset, storage>>

-----------------------------------------------------------------------------
(* Retention and deletion *)

\* Names do not tell the hour: of the day on the edge of the retention, the archives
\* up to some number are too old.
Expired(name, today, edge) ==
  \/ name.day + Retention < today
  \/ name.day + Retention = today /\ name.n <= edge
Fresh(edge) == {name \in DOMAIN dumps : name.kind = "backup" /\ ~Expired(name, day, edge)}

\* kept[MAX_BACKUPS:], from the latest to the oldest.
Surplus(name, edge) == Cardinality({m \in Fresh(edge) : m.n > name.n}) >= MaxBackups

Without(files, names) == Restrict(files, DOMAIN files \ names)

\* A backup that a restoration has found, and has yet to read, goes.
Vanishes ==
  upset' = (upset \/ \E j \in Jobs : job[j].at \in {"safe", "copy"} /\ job[j].name \in DOMAIN dumps
                                           /\ job[j].name \notin DOMAIN dumps')

\* _apply_retention lists the backups once, and knows which are too old or too many.
Retain(j) ==
  \E edge \in IF day < Retention THEN {0} ELSE 0 .. stamp - 1 :
    LET doomed == {name \in DOMAIN dumps : name.kind = "backup" /\ (Expired(name, day, edge) \/ Surplus(name, edge))}
    IN /\ job[j].at = "retain"
       /\ job' = [job EXCEPT ![j] = [Resting EXCEPT !.at = "purge", !.day = day, !.edge = edge, !.doomed = doomed]]
       /\ UNCHANGED <<day, stamp, dumps, zips, restores, tmp, upset, storage>>

\* Those go one by one; then the safety copies that are too old by then.
Condemned(j) ==
  IF job[j].doomed # {} THEN job[j].doomed
  ELSE {name \in DOMAIN dumps : name.kind = "pre_restore" /\ Expired(name, job[j].day, job[j].edge)}

\* With its twin; a failure to delete either is ignored.
Purge(j) ==
  \E name \in Condemned(j) :
    /\ job[j].at = "purge"
    /\ dumps' \in {dumps, Without(dumps, {name})}
    /\ zips' \in {zips, Without(zips, {name})}
    /\ Vanishes
    /\ job' = [job EXCEPT ![j].doomed = @ \ {name}]
    /\ UNCHANGED <<day, stamp, restores, tmp, storage>>

\* Then the zips that are too old by themselves.
PurgeZip(j) ==
  /\ job[j].at = "purge" /\ job[j].doomed = {}
  /\ \E name \in {n \in DOMAIN zips : Expired(n, job[j].day, job[j].edge)} : zips' = Without(zips, {name})
  /\ UNCHANGED <<day, stamp, dumps, job, restores, tmp, upset, storage>>

\* The end; what could not be deleted is left to the next time.
Retained(j) ==
  /\ job[j].at = "purge" /\ job[j].doomed = {}
  /\ job' = [job EXCEPT ![j] = Resting]
  /\ UNCHANGED <<day, stamp, dumps, zips, restores, tmp, upset, storage>>

\* delete_backup, then its twin, unless that fails or the worker is killed.
Delete(name) ==
  /\ name \in DOMAIN dumps
  /\ dumps' = Without(dumps, {name})
  /\ zips' \in {zips, Without(zips, {name})}
  /\ Vanishes
  /\ UNCHANGED <<day, stamp, job, restores, tmp, storage>>

-----------------------------------------------------------------------------
(* restore_backup *)

\* The name is that of a backup, and the file exists.
Restore(j, name) ==
  /\ restores < MaxRestores
  /\ name \in DOMAIN dumps /\ name.kind = "backup"
  /\ Start(j, [Resting EXCEPT !.at = "safe", !.name = name])
  /\ restores' = restores + 1
  /\ UNCHANGED <<day, stamp, dumps, zips, tmp, upset, storage>>

\* sqlite3.connect on the backup: it creates an empty file if there is none,
\* and such a file passes the integrity check.
Opened(name) == IF name \in DOMAIN dumps THEN dumps ELSE Put(dumps, name, Blank)

\* _validate_sqlite_integrity, then _pre_restore_safety_copy of the live database.
\* Mutant: the safety copy is made of the backup.
SafetyCopyOfBackup(j) ==
  /\ job[j].at = "safe"
  /\ job' = [job EXCEPT ![j].at = "copy", ![j].copy = New("pre_restore")]
  /\ dumps' = Put(Opened(job[j].name), New("pre_restore"), Opened(job[j].name)[job[j].name])
  /\ NextStamp
  /\ UNCHANGED <<day, zips, restores, tmp, upset, storage>>

SafetyCopy(j) ==
  /\ job[j].at = "safe"
  /\ job' = [job EXCEPT ![j].at = "copy", ![j].copy = New("pre_restore")]
  /\ dumps' = Put(Opened(job[j].name), New("pre_restore"), database)
  /\ NextStamp
  /\ UNCHANGED <<day, zips, restores, tmp, upset, storage>>

\* Another restoration writes the same file, or is about to promote it.
Meets(j) == \E k \in Jobs \ {j} : job[k].at \in {"copy", "replace"}

\* _atomic_sqlite_copy, into the one file that all restorations share. Killed half
\* way, it leaves half a database there, which counts for an empty one.
Copy(j) ==
  /\ job[j].at = "copy"
  /\ dumps' = Opened(job[j].name)
  /\ \/ tmp' = {Opened(job[j].name)[job[j].name]} /\ job' = [job EXCEPT ![j].at = "replace"]
     \/ tmp' = {Blank} /\ job' = [job EXCEPT ![j] = Resting]
  /\ upset' = (upset \/ Meets(j))
  /\ UNCHANGED <<day, stamp, zips, restores, storage>>

\* os.replace: what is there becomes the live database, and may be half of what
\* another restoration is writing; if nothing is, it fails. Then the twin, if any.
Replace(j) ==
  LET name == job[j].name
  IN /\ job[j].at = "replace"
     /\ tmp # {}
     /\ database' \in tmp \cup {content \in {Blank} : \E k \in Jobs : job[k].at = "copy"}
     /\ tmp' = {}
     /\ job' = IF name \in DOMAIN zips THEN [job EXCEPT ![j] = [Resting EXCEPT !.at = "extract", !.name = name]] ELSE [job EXCEPT ![j] = Resting]
     /\ upset' = (upset \/ Meets(j))
     /\ UNCHANGED <<day, stamp, dumps, zips, restores, userdata>>

\* The directories that the zip has files for: the others are left alone.
Archived(data) == {d \in DOMAIN data : data[d] # {}}

\* The twin of the backup. Mutant: the safety copy that was just made.
LatestZip(j) == IF job[j].name \in DOMAIN zips THEN userdata ELSE zips[job[j].name]
Twin(j) == zips[job[j].name]

\* _pre_restore_userdata_safety_copy, then the extraction into a directory apart.
Extract(j) ==
  /\ job[j].at = "extract"
  /\ job[j].name \in DOMAIN zips
  /\ zips' = Put(zips, New("pre_restore"), userdata)
  /\ NextStamp
  /\ job' = IF Archived(Twin(j)) = {} THEN [job EXCEPT ![j] = Resting]
            ELSE [job EXCEPT ![j].at = "remove", ![j].copy = New("pre_restore"),
                             ![j].data = Twin(j), ![j].todo = Archived(Twin(j))]
  /\ UNCHANGED <<day, dumps, restores, tmp, upset, storage>>

\* rmtree of the next directory (the order does not matter).
Remove(j) ==
  \E d \in job[j].todo :
    /\ job[j].at = "remove"
    /\ userdata' = [userdata EXCEPT ![d] = {}]
    /\ job' = [job EXCEPT ![j].at = "promote", ![j].dir = d, ![j].todo = @ \ {d}]
    /\ UNCHANGED <<day, stamp, dumps, zips, restores, tmp, upset, database>>

\* os.replace of the extracted directory, onto none or onto an empty one.
Promote(j) ==
  LET d == job[j].dir
  IN /\ job[j].at = "promote"
     /\ userdata[d] = {}
     /\ userdata' = [userdata EXCEPT ![d] = job[j].data[d]]
     /\ job' = IF job[j].todo = {} THEN [job EXCEPT ![j] = Resting] ELSE [job EXCEPT ![j].at = "remove"]
     /\ UNCHANGED <<day, stamp, dumps, zips, restores, tmp, upset, database>>

\* The job is killed, or fails: a full disk, a backup that is corrupted, a file
\* written in the directory that is being removed. The extracted files are lost.
Stop(j) ==
  /\ job[j].at # "idle"
  /\ job' = [job EXCEPT ![j] = Resting]
  /\ UNCHANGED <<day, stamp, dumps, zips, restores, tmp, upset, storage>>

Work(j) ==
  \/ Claim(j) \/ Create(j) \/ Dump(j) \/ Zip(j)
  \/ Retain(j) \/ Purge(j) \/ PurgeZip(j) \/ Retained(j)
  \/ (\E name \in DOMAIN dumps : Restore(j, name))
  \/ SafetyCopy(j) \/ Copy(j) \/ Replace(j) \/ Extract(j) \/ Remove(j) \/ Promote(j) \/ Stop(j)
=============================================================================
