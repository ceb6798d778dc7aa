------------------------------ MODULE Durability ------------------------------
(***************************************************************************)
(* Progress and Backup over one storage: pupils post while backups are      *)
(* taken and restored. The properties say what survives.                    *)
(***************************************************************************)
EXTENDS Progress, Backup

CONSTANT Budget  \* bound on the answers, the departures, the days and the archives, together;
                 \* a departure or a day counts for two

ASSUME BudgetAssumption == Budget \in Nat

VARIABLE calm  \* history, per job: nobody else has touched what it works on

vars == <<storage, progress, backup, calm>>

TypeOK == StorageOK /\ ProgressOK /\ BackupOK /\ calm \in [Jobs -> BOOLEAN]

Init == StorageInit /\ ProgressInit /\ BackupInit /\ calm = [j \in Jobs |-> TRUE]

Restoring(j) == job[j].at \in {"safe", "copy", "replace", "extract", "remove", "promote"}

\* The archives that a restoration works on are still there.
Keeps(j) ==
  /\ \A name \in {job[j].name, job[j].copy} :
       /\ name \in DOMAIN dumps => name \in DOMAIN dumps'
       /\ name \in DOMAIN zips => name \in DOMAIN zips'

Watch(actors) ==
  calm' = [j \in Jobs |->
    \/ ~Restoring(j)'
    \/ calm[j] /\ (j \in actors \/ (storage' = storage /\ Keeps(j)))]

Spent == Cardinality(recorded \ Earlier) + 2 * (Cardinality(Devices \ signed) + day) + stamp
Within == Spent' = Spent \/ Spent' <= Budget

Next ==
  /\ \/ ProgressNext /\ UNCHANGED backup /\ Watch({})
     \/ \E j \in Jobs : Work(j) /\ UNCHANGED progress /\ Watch({j})
     \/ \E name \in DOMAIN dumps : Delete(name) /\ UNCHANGED progress /\ Watch({})
     \/ NextDay /\ UNCHANGED progress /\ Watch({})
  /\ Within

Spec == Init /\ [][Next]_vars

-----------------------------------------------------------------------------
(* Properties *)

\* While requests follow one another and nothing is restored, an answer that was
\* acknowledged is in the file, however old the state that another device posts
\* (test_stats_merge.py: "deux_appareils_divergents_ne_seffacent_pas"), and the
\* cached xp counts those of the file as soon as no request is running, unless one
\* was cut between its two writes (api_stats, update_stats_cache). Two requests
\* that overlap do lose answers: see AnswersAreKept.
SerialAnswersAreKept ==
  ~overlap /\ restores = 0 =>
    /\ \A d \in Dirs : Kept(d, acked) \subseteq userdata[d]
    /\ ~cut /\ (\A r \in Requests : ~Inside(r)) => database.cache = userdata[Stats]

\* Two automatic backups of one day never run together, whatever the number of
\* workers ("aucune sauvegarde concurrente n'est jamais lancee",
\* backup_scheduler.py). A restoration brings back the claims of its day.
OneAutomaticBackup ==
  restores = 0 =>
  \A j, k \in Jobs : job[j].auto /\ job[k].auto /\ job[j].day = job[k].day => j = k

\* What a restoration is about to overwrite is in its safety copy ("ne doit
\* jamais rendre l'etat precedent irrecuperable", restore_backup), unless
\* somebody has written in between: those writes are in no archive.
SafetyCopyHolds ==
  \A j \in Jobs : calm[j] =>
    /\ job[j].at \in {"copy", "replace"} => dumps[job[j].copy] = database
    /\ job[j].at = "remove" => \A d \in job[j].todo : userdata[d] = zips[job[j].copy][d]

\* The live database is never an empty file, whatever is killed (restore_backup,
\* _atomic_sqlite_copy), unless a backup is deleted while it is being restored, or
\* two restorations meet at the file they both write: then sqlite3.connect creates
\* an empty database, which passes the check of integrity and replaces the live
\* one, or one of them promotes what the other has half written.
NeverBlank == upset \/ database.account

\* A restoration that comes to its end undisturbed leaves the database and every
\* directory of the backup as they were archived, and the other directories as
\* they were found ("chaque repertoire remplace", "laisse tel quel, jamais vide",
\* _restore_userdata_zip). A post in the middle can leave a directory with that
\* post alone, and another restoration the database of another backup.
RestoresWhole ==
  [][\A j \in Jobs :
       calm[j] /\ ~upset /\ job[j].at = "promote" /\ job[j].todo = {} /\ Promote(j) =>
         /\ database = dumps[job[j].name]
         /\ \A d \in Dirs : userdata'[d] = IF zips[job[j].name][d] = {} THEN zips[job[j].copy][d]
                                           ELSE zips[job[j].name][d]]_vars
=============================================================================
