------------------------------- MODULE Storage -------------------------------
(***************************************************************************)
(* What the data directory holds of one pupil: the row of the database and  *)
(* the JSON file that each directory of _USERDATA_DIRNAMES has for him.     *)
(* Progress writes it, Backup archives it and puts it back.                 *)
(***************************************************************************)
EXTENDS Integers, FiniteSets

CONSTANTS
  Dirs,    \* the directories of files: user_stats and the others
  Stats,   \* user_stats
  Items,   \* what can be recorded: an answer, the reading of a notion
  DirOf,   \* the directory where an item is kept
  Earlier, \* what was recorded before the story begins
  LastDay  \* bound: the calendar stops on this day

ASSUME StorageAssumption ==
  /\ Stats \in Dirs
  /\ DirOf \in [Items -> Dirs]
  /\ Earlier \subseteq Items
  /\ LastDay \in Nat

VARIABLES
  database,  \* app.db: is the account there, the days claimed for an automatic
             \* backup, the answers that the cached xp and accuracy count
  userdata   \* per directory, the items of the pupil's file; none: no file

storage == <<database, userdata>>

Days == 0 .. LastDay
Databases == [account : BOOLEAN, claims : SUBSET Days, cache : SUBSET Items]
Contents == [Dirs -> SUBSET Items]

\* A database file that SQLite has just created.
Blank == [account |-> FALSE, claims |-> {}, cache |-> {}]

StorageOK == database \in Databases /\ userdata \in Contents

Kept(d, items) == {i \in items : DirOf[i] = d}

StorageInit ==
  /\ database = [account |-> TRUE, claims |-> {}, cache |-> Kept(Stats, Earlier)]
  /\ userdata = [d \in Dirs |-> Kept(d, Earlier)]
=============================================================================
