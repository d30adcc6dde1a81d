------------------------------ MODULE JobTable ------------------------------
(***************************************************************************)
(* What the job lifecycle coordinator promises about the job table and the *)
(* job archive, with every handler and goroutine step as one atomic        *)
(* change (spec.md 3, 4.1, 4.2, 4.4):                                      *)
(*   - a start inserts a running row under the next id, and only if no     *)
(*     row of its (jobId, cluster) started less than Window before it;     *)
(*   - a row keeps its key and start time for as long as it exists;        *)
(*   - the status ArchivingSuccessful is written only for a job whose      *)
(*     archive files exist, and with its statistics;                       *)
(*   - statistics appear only together with that status;                  *)
(*   - deletes remove rows and never touch the archive;                    *)
(*   - the archive gains the files of a job that was inserted.             *)
(* The table is a function from the ids of the present rows to rows.       *)
(***************************************************************************)
EXTENDS Integers

CONSTANTS
  MaxJobs,             \* ids 1..MaxJobs
  Keys,                \* (jobId, cluster)
  Times,               \* start times
  Window,              \* the duplicate window
  JobStates,           \* schema.JobState values
  MonitoringStatuses,  \* schema.MonitoringStatus values
  Running,             \* the state of a started job
  ArchivingSuccessful  \* the status of an archived job

VARIABLES
  rows,     \* rows[i]: the row with id i, for the ids present
  nextId,   \* the id the next insert takes
  archive   \* ids whose archive files exist

tableVars == <<rows, nextId, archive>>

Ids == 1..MaxJobs
Row == [key : Keys, start : Times, state : JobStates,
        ms : MonitoringStatuses, dur : Int, stats : BOOLEAN]

(* A start (startJob): the new row is the only change. *)
Insert ==
  LET r == rows'[nextId] IN
  /\ nextId \in Ids
  /\ DOMAIN rows' = DOMAIN rows \cup {nextId}
  /\ \A i \in DOMAIN rows : rows'[i] = rows[i]
  /\ r \in Row /\ r.state = Running /\ r.stats = FALSE
  /\ \A i \in DOMAIN rows : rows[i].key = r.key => r.start - rows[i].start >= Window
  /\ nextId' = nextId + 1
  /\ UNCHANGED archive

(* A stop or a goroutine's status write changes one row in place. *)
Update(i) ==
  LET r == rows'[i] IN
  /\ DOMAIN rows' = DOMAIN rows
  /\ \A k \in DOMAIN rows \ {i} : rows'[k] = rows[k]
  /\ r \in Row
  /\ r.key = rows[i].key /\ r.start = rows[i].start
  /\ r.stats = rows[i].stats \/ (r.stats /\ r.ms = ArchivingSuccessful)
  /\ r.ms = ArchivingSuccessful => i \in archive /\ r.stats
  /\ UNCHANGED <<nextId, archive>>

(* A delete removes rows and leaves the others as they are. *)
Remove ==
  /\ DOMAIN rows' \subseteq DOMAIN rows
  /\ \A i \in DOMAIN rows' : rows'[i] = rows[i]
  /\ UNCHANGED <<nextId, archive>>

(* The archiver writes the files of a job inserted before. *)
WriteArchive(i) ==
  /\ i \in 1..(nextId - 1)
  /\ archive' = archive \cup {i}
  /\ UNCHANGED <<rows, nextId>>

Init ==
  /\ rows = [i \in {} |-> {}]
  /\ nextId = 1
  /\ archive = {}

Next ==
  \/ Insert
  \/ \E i \in DOMAIN rows : Update(i)
  \/ Remove
  \/ \E i \in Ids : WriteArchive(i)

Spec == Init /\ [][Next]_tableVars

=============================================================================
