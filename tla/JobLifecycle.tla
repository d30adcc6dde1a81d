---------------------------- MODULE JobLifecycle ----------------------------
(***************************************************************************)
(* The job lifecycle coordinator of cc-backend's REST API                  *)
(* (src/unnamed/part_000, package api): startJob with its duplicate-window *)
(* check under RepositoryMutex, stopJobById / stopJobByRequest through     *)
(* checkAndHandleStopJob, the fire-and-forget archiving goroutine counted  *)
(* by the OngoingArchivings WaitGroup, and the three delete handlers.      *)
(*                                                                         *)
(* Every HTTP request runs on its own worker (a goroutine of net/http); a  *)
(* worker takes one request at a time.  The job table of the SQL store is  *)
(* the function `job` restricted to the set `db` of present rows.  The     *)
(* repository calls (FindById, Find, FindAll, Start, Stop,                 *)
(* UpdateMonitoringStatus, Archive, DeleteJobById, DeleteJobsBefore) are   *)
(* in internal/repository/job.go, which is not under src/: they are        *)
(* modelled from spec.md, each as one atomic SQL statement.                *)
(***************************************************************************)
EXTENDS Integers, FiniteSets

CONSTANTS
  Workers,       \* concurrent HTTP request handlers
  NoWorker,      \* value of RepositoryMutex's owner when it is free
  MaxJobs,       \* database ids 1..MaxJobs (AUTOINCREMENT bound)
  Keys,          \* natural keys without start time: (jobId, cluster)
  Times,         \* unix timestamps a client may send (startTime, stopTime)
  Window,        \* the 86400 s duplicate window of startJob
  DurationBits,  \* width of job.Duration (int32 in schema.Job)
  StopStates,    \* jobState values a stop request may carry
  MaxOngoing     \* bound on OngoingArchivings (model bound, not in the code)

ASSUME WorkersAssumption == NoWorker \notin Workers
ASSUME MaxJobsAssumption == MaxJobs \in Nat
ASSUME TimesAssumption == Times \subseteq Nat
ASSUME WindowAssumption == Window \in Nat
ASSUME DurationBitsAssumption == DurationBits \in Nat \ {0}

Ids == 1..MaxJobs

(* schema.JobState; Valid() accepts "running" too: getJobs (line 189)     *)
(* uses it to filter on the documented state "running" (line 161).        *)
Running == "running"
JobStates == {Running, "completed", "failed", "cancelled", "stopped", "timeout"}
Invalid == "invalid"
(* The empty jobState of a stop request that leaves the field out. *)
Unset == "unset"
ASSUME MaxOngoingAssumption == MaxOngoing \in Nat
ASSUME StopStatesAssumption == StopStates \subseteq JobStates \cup {Unset, Invalid}

(* schema.MonitoringStatus *)
Disabled == "Disabled"
RunningOrArchiving == "RunningOrArchiving"
ArchivingFailed == "ArchivingFailed"
ArchivingSuccessful == "ArchivingSuccessful"
MonitoringStatuses ==
  {Disabled, RunningOrArchiving, ArchivingFailed, ArchivingSuccessful}
(* Values a start request may carry (JobDefaults gives RunningOrArchiving). *)
StartMonitoring == {Disabled, RunningOrArchiving}

(* A row of the job table. *)
JobRec == [key : Keys, start : Times, state : JobStates,
           ms : MonitoringStatuses, dur : Int, stats : BOOLEAN]
NoJob == [state |-> "none"]

(* What a worker carries between the steps of its handler: the decoded   *)
(* schema.JobMeta of a start; for a stop, the id it resolved to and the    *)
(* Stop(...) arguments computed from the fetched job; for a delete by      *)
(* request, the id Find resolved to.                                       *)
StartReq == [key : Keys, start : Times, ms : StartMonitoring]
StopReq == [id : Ids, dur : Int, state : JobStates, ms : MonitoringStatuses]
DeleteReq == [id : Ids]
NoReq == [none |-> TRUE]

PCs == {"idle", "startLock", "startCheck", "startInsert", "stopWrite",
        "deleteRow"}

(* Stages of the archiving goroutine started at line 727. *)
Active == {"fetchMeta", "archiveJob", "persist"}

VARIABLES
  db,        \* ids of the rows present in the job table
  job,       \* job[i]: the row with id i (NoJob before it is inserted)
  nextId,    \* next AUTOINCREMENT id
  mutex,     \* RestApi.RepositoryMutex: its owner or NoWorker
  pc,        \* where each worker is in its current handler
  req,       \* the request each worker is handling
  arch,      \* arch[i][s]: number of goroutines for job i at stage s
  ongoing,   \* RestApi.OngoingArchivings (sync.WaitGroup counter)
  archived   \* ids whose meta.json/data.json exist in the job archive

vars == <<db, job, nextId, mutex, pc, req, arch, ongoing, archived>>
workerVars == <<pc, req>>

-----------------------------------------------------------------------------
(* Helpers                                                                 *)

(* job.Duration = int32(req.StopTime - job.StartTime.Unix()): two's       *)
(* complement wrap to DurationBits bits.                                   *)
Int32(x) == ((x + 2^(DurationBits - 1)) % 2^DurationBits) - 2^(DurationBits - 1)

(* JobState.Valid() *)
Valid(s) == s \in JobStates

(* JobRepository.FindAll(&jobId, &cluster, nil) *)
FindAll(k) == {i \in db : job[i].key = k}

(* JobRepository.Find(jobId, cluster, startTime) *)
Find(k, t) == {i \in db : job[i].key = k /\ job[i].start = t}

(* Mutant: the window is checked one second short. *)
IsDuplicateShort(r) == \E i \in FindAll(r.key) : r.start - job[i].start < Window - 1

(* The loop of lines 400-405: some row of the same (jobId, cluster)       *)
(* started less than Window seconds before the request (no absolute       *)
(* value is taken).                                                        *)
IsDuplicate(r) == \E i \in FindAll(r.key) : r.start - job[i].start < Window

(* The rows a handler can resolve: FindById(id) or Find(jobId, cluster,   *)
(* startTime).                                                             *)
Lookups == {{i \in db : i = id} : id \in Ids} \cup {Find(k, t) : k \in Keys, t \in Times}

(* An UPDATE ... WHERE job.id = i: no row changes when i was deleted. *)
UpdateRow(i, f(_)) ==
  job' = IF i \in db THEN [job EXCEPT ![i] = f(job[i])] ELSE job

(* The worker writes its response and returns from the handler.  The     *)
(* status code is left out: no later step reads it.                       *)
Respond(w) ==
  /\ pc' = [pc EXCEPT ![w] = "idle"]
  /\ req' = [req EXCEPT ![w] = NoReq]

(* DELETE FROM job WHERE id IN ids: the rows are gone. *)
Delete(ids) ==
  /\ db' = db \ ids
  /\ job' = [i \in Ids |-> IF i \in ids THEN NoJob ELSE job[i]]

(* The deferred unlockOnce.Do(api.RepositoryMutex.Unlock). *)
Unlock == mutex' = NoWorker

-----------------------------------------------------------------------------
(* startJob (lines 369-430)                                                *)

(* Decode the body, then block on api.RepositoryMutex.Lock() (line 391). *)
(* A body that fails to decode or SanityChecks returns 400 before the      *)
(* lock and touches no shared state.                                       *)
ReceiveStart(w) ==
  /\ pc[w] = "idle"
  /\ \E r \in StartReq : req' = [req EXCEPT ![w] = r]
  /\ pc' = [pc EXCEPT ![w] = "startLock"]
  /\ UNCHANGED <<db, job, nextId, mutex, arch, ongoing, archived>>

(* Mutant: the handler checks and inserts without taking the mutex. *)
StartLockUnguarded(w) ==
  /\ pc[w] = "startLock"
  /\ mutex' = w
  /\ pc' = [pc EXCEPT ![w] = "startCheck"]
  /\ UNCHANGED <<db, job, nextId, req, arch, ongoing, archived>>

StartLock(w) ==
  /\ pc[w] = "startLock"
  /\ mutex = NoWorker
  /\ mutex' = w
  /\ pc' = [pc EXCEPT ![w] = "startCheck"]
  /\ UNCHANGED <<db, job, nextId, req, arch, ongoing, archived>>

(* Mutant: the duplicate return forgets the unlock (no deferred Unlock). *)
StartCheckNoUnlock(w) ==
  /\ pc[w] = "startCheck"
  /\ \/ /\ Respond(w) /\ Unlock
     \/ /\ IsDuplicate(req[w])
        /\ Respond(w) /\ UNCHANGED mutex
     \/ /\ ~IsDuplicate(req[w])
        /\ pc' = [pc EXCEPT ![w] = "startInsert"]
        /\ UNCHANGED <<req, mutex>>
  /\ UNCHANGED <<db, job, nextId, arch, ongoing, archived>>

(* FindAll and the duplicate loop (lines 395-406): a failed query (500)   *)
(* or a duplicate (422) returns, releasing the mutex through the deferred *)
(* unlock.                                                                 *)
StartCheck(w) ==
  /\ pc[w] = "startCheck"
  /\ \/ /\ Respond(w) /\ Unlock                      \* FindAll failed
     \/ /\ IsDuplicate(req[w])
        /\ Respond(w) /\ Unlock
     \/ /\ ~IsDuplicate(req[w])
        /\ pc' = [pc EXCEPT ![w] = "startInsert"]
        /\ UNCHANGED <<req, mutex>>
  /\ UNCHANGED <<db, job, nextId, arch, ongoing, archived>>

(* JobRepository.Start inserts the row as running (lines 408-414), then   *)
(* the mutex is released.  The tags of the request are added after the    *)
(* unlock (lines 416-422): see the README, they are not in this module.   *)
StartInsert(w) ==
  /\ pc[w] = "startInsert"
  /\ Unlock
  /\ Respond(w)
  /\ \/ UNCHANGED <<db, job, nextId>>                 \* insert failed
     \/ /\ nextId \in Ids
        /\ db' = db \cup {nextId}
        /\ job' = [job EXCEPT ![nextId] =
                     [key |-> req[w].key, start |-> req[w].start,
                      state |-> Running, ms |-> req[w].ms, dur |-> 0,
                      stats |-> FALSE]]
        /\ nextId' = nextId + 1
  /\ UNCHANGED <<arch, ongoing, archived>>

-----------------------------------------------------------------------------
(* stopJobById (450-485) and stopJobByRequest (503-532)                    *)

(* The sanity checks of checkAndHandleStopJob (lines 689-700): the job   *)
(* is running, the stop time lies after its start, and the requested     *)
(* state is empty or Valid().                                             *)
StopChecks(i, stop, st) ==
  /\ job[i].start < stop
  /\ job[i].state = Running
  /\ st = Unset \/ Valid(st)

(* Mutant: an empty jobState is stored as is (no "completed" default). *)
StopFindNoDefault(w) ==
  /\ pc[w] = "idle"
  /\ \E found \in Lookups, stop \in Times, st \in StopStates :
     \E i \in found :
       /\ StopChecks(i, stop, st)
       /\ req' = [req EXCEPT ![w] =
                    [id |-> i, dur |-> Int32(stop - job[i].start),
                     state |-> st, ms |-> job[i].ms]]
       /\ pc' = [pc EXCEPT ![w] = "stopWrite"]
  /\ UNCHANGED <<db, job, nextId, mutex, arch, ongoing, archived>>

(* Decode the body, fetch the job with FindById(id) or Find(jobId,        *)
(* cluster, startTime), and run the checks of checkAndHandleStopJob       *)
(* (lines 689-700) on that snapshot; they read nothing else, so they are  *)
(* part of this step.  A missing job (422) or a failed check (400)        *)
(* returns without touching shared state.  What is kept are the           *)
(* arguments of Stop (lines 703-705): the duration, the state and the     *)
(* monitoring status, all computed from the snapshot.                     *)
StopFind(w) ==
  /\ pc[w] = "idle"
  /\ \E found \in Lookups, stop \in Times, st \in StopStates :
     \E i \in found :
       /\ StopChecks(i, stop, st)
       /\ req' = [req EXCEPT ![w] =
                    [id |-> i, dur |-> Int32(stop - job[i].start),
                     state |-> IF st = Unset THEN "completed" ELSE st,
                     ms |-> job[i].ms]]
       /\ pc' = [pc EXCEPT ![w] = "stopWrite"]
  /\ UNCHANGED <<db, job, nextId, mutex, arch, ongoing, archived>>

(* Mutant: the goroutine is started even when monitoring is disabled. *)
StopWriteAlwaysArchive(w) ==
  LET r == req[w] IN
  /\ pc[w] = "stopWrite"
  /\ Respond(w)
  /\ \/ UNCHANGED <<job, arch, ongoing>>
     \/ /\ UpdateRow(r.id, LAMBDA row :
             [row EXCEPT !.dur = r.dur, !.state = r.state, !.ms = r.ms])
        /\ ongoing < MaxOngoing
        /\ arch' = [arch EXCEPT ![r.id]["fetchMeta"] = @ + 1]
        /\ ongoing' = ongoing + 1
  /\ UNCHANGED <<db, nextId, mutex, archived>>

(* JobRepository.Stop(job.ID, job.Duration, job.State,                    *)
(* job.MonitoringStatus) (line 705); on success the 200 response and,     *)
(* unless the snapshot's monitoring is disabled (line 720),               *)
(* OngoingArchivings.Add(1) and the goroutine (lines 726-727).            *)
StopWrite(w) ==
  LET r == req[w] IN
  /\ pc[w] = "stopWrite"
  /\ Respond(w)
  /\ \/ UNCHANGED <<job, arch, ongoing>>              \* Stop failed: 500
     \/ /\ UpdateRow(r.id, LAMBDA row :
             [row EXCEPT !.dur = r.dur, !.state = r.state, !.ms = r.ms])
        /\ IF r.ms = Disabled
             THEN UNCHANGED <<arch, ongoing>>
             ELSE /\ ongoing < MaxOngoing
                  /\ arch' = [arch EXCEPT ![r.id]["fetchMeta"] = @ + 1]
                  /\ ongoing' = ongoing + 1
  /\ UNCHANGED <<db, nextId, mutex, archived>>

-----------------------------------------------------------------------------
(* The archiving goroutine (lines 727-751); every return runs the          *)
(* deferred OngoingArchivings.Done().                                      *)

(* A goroutine for job i moves from stage s to stage t. *)
Advance(i, s, t) == arch' = [arch EXCEPT ![i][s] = @ - 1, ![i][t] = @ + 1]

(* A goroutine for job i at stage s returns. *)
Finish(i, s) ==
  /\ arch' = [arch EXCEPT ![i][s] = @ - 1]
  /\ ongoing' = ongoing - 1

(* UpdateMonitoringStatus(job.ID, MonitoringStatusArchivingFailed) *)
MarkFailed(i) == UpdateRow(i, LAMBDA r : [r EXCEPT !.ms = ArchivingFailed])

(* FetchMetadata reads the row; it fails when the row is gone. *)
ArchFetchMeta(i) ==
  /\ arch[i]["fetchMeta"] > 0
  /\ \/ /\ MarkFailed(i) /\ Finish(i, "fetchMeta")
     \/ /\ i \in db
        /\ Advance(i, "fetchMeta", "archiveJob")
        /\ UNCHANGED <<job, ongoing>>
  /\ UNCHANGED <<db, nextId, mutex, workerVars, archived>>

(* Mutant: the ArchiveJob error branch logs but does not return. *)
ArchArchiveJobNoReturn(i) ==
  /\ arch[i]["archiveJob"] > 0
  /\ \/ /\ MarkFailed(i) /\ Advance(i, "archiveJob", "persist")
        /\ UNCHANGED <<archived, ongoing>>
     \/ /\ archived' = archived \cup {i}
        /\ Advance(i, "archiveJob", "persist")
        /\ UNCHANGED <<job, ongoing>>
  /\ UNCHANGED <<db, nextId, mutex, workerVars>>

(* metricdata.ArchiveJob fetches the metric data and writes the archive   *)
(* files; it does not touch the job table.                                *)
ArchArchiveJob(i) ==
  /\ arch[i]["archiveJob"] > 0
  /\ \/ /\ MarkFailed(i) /\ Finish(i, "archiveJob")
        /\ UNCHANGED archived
     \/ /\ archived' = archived \cup {i}
        /\ Advance(i, "archiveJob", "persist")
        /\ UNCHANGED <<job, ongoing>>
  /\ UNCHANGED <<db, nextId, mutex, workerVars>>

(* Mutant: Done() is called on the success path only, not deferred. *)
ArchPersistNoDone(i) ==
  /\ arch[i]["persist"] > 0
  /\ \/ /\ UNCHANGED job
        /\ arch' = [arch EXCEPT ![i]["persist"] = @ - 1]
        /\ UNCHANGED ongoing
     \/ /\ UpdateRow(i, LAMBDA r :
             [r EXCEPT !.ms = ArchivingSuccessful, !.stats = TRUE])
        /\ Finish(i, "persist")
  /\ UNCHANGED <<db, nextId, mutex, workerVars, archived>>

(* JobRepository.Archive(id, ArchivingSuccessful, statistics); its        *)
(* failure is only logged.                                                *)
ArchPersist(i) ==
  /\ arch[i]["persist"] > 0
  /\ \/ UNCHANGED job
     \/ UpdateRow(i, LAMBDA r :
          [r EXCEPT !.ms = ArchivingSuccessful, !.stats = TRUE])
  /\ Finish(i, "persist")
  /\ UNCHANGED <<db, nextId, mutex, workerVars, archived>>

-----------------------------------------------------------------------------
(* deleteJobById (549-579), deleteJobByRequest (597-636),                  *)
(* deleteJobBefore (653-685): rows only, never the archive.  A failed     *)
(* DELETE answers 422 and changes nothing.                                 *)

(* DeleteJobById(id): a DELETE of an absent id deletes nothing. *)
DeleteById(w) ==
  /\ pc[w] = "idle"
  /\ \E i \in Ids : Delete({i})
  /\ UNCHANGED <<nextId, mutex, workerVars, arch, ongoing, archived>>

(* Find(jobId, cluster, startTime) (line 618), then DeleteJobById(job.ID) *)
(* (line 625) as a second statement.                                      *)
DeleteFind(w) ==
  /\ pc[w] = "idle"
  /\ \E k \in Keys, t \in Times, i \in Ids :
       /\ i \in Find(k, t)
       /\ req' = [req EXCEPT ![w] = [id |-> i]]
  /\ pc' = [pc EXCEPT ![w] = "deleteRow"]
  /\ UNCHANGED <<db, job, nextId, mutex, arch, ongoing, archived>>

DeleteRow(w) ==
  /\ pc[w] = "deleteRow"
  /\ Respond(w)
  /\ \/ Delete({req[w].id})
     \/ UNCHANGED <<db, job>>                        \* DELETE failed
  /\ UNCHANGED <<nextId, mutex, arch, ongoing, archived>>

(* DeleteJobsBefore(ts): DELETE FROM job WHERE start_time < ts. *)
DeleteBefore(w) ==
  /\ pc[w] = "idle"
  /\ \E ts \in Times : Delete({i \in db : job[i].start < ts})
  /\ UNCHANGED <<nextId, mutex, workerVars, arch, ongoing, archived>>

-----------------------------------------------------------------------------
Init ==
  /\ db = {}
  /\ job = [i \in Ids |-> NoJob]
  /\ nextId = 1
  /\ mutex = NoWorker
  /\ pc = [w \in Workers |-> "idle"]
  /\ req = [w \in Workers |-> NoReq]
  /\ arch = [i \in Ids |-> [s \in Active |-> 0]]
  /\ ongoing = 0
  /\ archived = {}

Worker(w) ==
  \/ ReceiveStart(w) \/ StartLock(w) \/ StartCheck(w) \/ StartInsert(w)
  \/ StopFind(w) \/ StopWrite(w)
  \/ DeleteById(w) \/ DeleteFind(w) \/ DeleteRow(w) \/ DeleteBefore(w)

Goroutine(i) == ArchFetchMeta(i) \/ ArchArchiveJob(i) \/ ArchPersist(i)

Next ==
  \/ \E w \in Workers : Worker(w)
  \/ \E i \in Ids : Goroutine(i)

(* Handlers that have begun run on (WF); a worker blocked in Lock() gets  *)
(* the mutex if it is free infinitely often (SF: sync.Mutex switches to   *)
(* starvation mode after 1 ms of waiting); the Go scheduler runs every    *)
(* runnable goroutine (WF).  New requests are never forced.               *)
Fairness ==
  /\ \A w \in Workers :
       /\ SF_vars(StartLock(w))
       /\ WF_vars(StartCheck(w) \/ StartInsert(w) \/ StopWrite(w) \/ DeleteRow(w))
  /\ \A i \in Ids : WF_vars(ArchFetchMeta(i))
  /\ \A i \in Ids : WF_vars(ArchArchiveJob(i))
  /\ \A i \in Ids : WF_vars(ArchPersist(i))

Spec == Init /\ [][Next]_vars
FairSpec == Spec /\ Fairness

(* The refinement mapping to JobTable: the abstract table is the present  *)
(* rows, the abstract archive the set of archived ids.                    *)
Table == INSTANCE JobTable WITH rows <- [i \in db |-> job[i]], archive <- archived

(* The handlers and goroutines implement the atomic job table: every step *)
(* is a start that passed the duplicate window against the whole table,   *)
(* an in-place update that keeps key and start and writes                 *)
(* ArchivingSuccessful only with archive files and statistics, a delete,  *)
(* an archive write, or no change to the table.  The mutex of startJob    *)
(* and the order of the goroutine's stages are what make this hold.       *)
TableSteps == [][Table!Next]_<<[i \in db |-> job[i]], nextId, archived>>

(* The whole abstract specification: the initial table is empty too. *)
TableSpec == Table!Init /\ TableSteps

-----------------------------------------------------------------------------
(* Invariants and properties                                               *)

TypeOK ==
  /\ db \subseteq Ids
  /\ job \in [Ids -> JobRec \cup {NoJob}]
  /\ \A i \in Ids : job[i] \in JobRec <=> i \in db
  /\ nextId \in 1..(MaxJobs + 1)
  /\ mutex \in Workers \cup {NoWorker}
  /\ pc \in [Workers -> PCs]
  /\ req \in [Workers -> StartReq \cup StopReq \cup DeleteReq \cup {NoReq}]
  /\ \A w \in Workers :
       /\ pc[w] \in {"startLock", "startCheck", "startInsert"} => req[w] \in StartReq
       /\ pc[w] = "stopWrite" => req[w] \in StopReq
       /\ pc[w] = "deleteRow" => req[w] \in DeleteReq
  /\ arch \in [Ids -> [Active -> Nat]]
  /\ ongoing \in Int
  /\ archived \subseteq Ids

(* The duplicate-window invariant that RepositoryMutex protects (startJob, *)
(* lines 389-414): of two rows with the same (jobId, cluster), the one     *)
(* inserted later started at least Window seconds after the earlier one.  *)
(* Two start requests that both pass the check before either inserts     *)
(* would break it.                                                         *)
NoDuplicateStart ==
  \A i, j \in db :
    i < j /\ job[i].key = job[j].key => job[j].start - job[i].start >= Window

(* Why NoDuplicateStart holds (the inductive invariant of its proof in    *)
(* JobLifecycleProofs): a worker between FindAll and Start holds          *)
(* RepositoryMutex; one about to insert found no row of its key less than *)
(* Window seconds before its start time, and nothing inserted since;     *)
(* every row's id is below the next AUTOINCREMENT id, so the new row is   *)
(* the later one of every pair it forms.  A handler that checked without *)
(* the mutex, or inserted after giving it up, would break it.            *)
MutexHeld ==
  \A w \in Workers : pc[w] \in {"startCheck", "startInsert"} => mutex = w
CheckedWindow ==
  \A w \in Workers : pc[w] = "startInsert" =>
    \A i \in FindAll(req[w].key) : req[w].start - job[i].start >= Window
IdsBelowNext == \A i \in db : i < nextId
DuplicateGuard ==
  /\ TypeOK
  /\ NoDuplicateStart
  /\ IdsBelowNext
  /\ MutexHeld
  /\ CheckedWindow

(* A job the table shows as ArchivingSuccessful has its archive files and *)
(* its statistics: the archiving goroutine (lines 727-751) writes that    *)
(* status only after metricdata.ArchiveJob succeeded.                     *)
SuccessMeansArchived ==
  \A i \in db : job[i].ms = ArchivingSuccessful => i \in archived /\ job[i].stats

(* A job started with monitoring disabled is never archived: no stop of   *)
(* it dispatches the goroutine (line 720) and no archive file exists.     *)
DisabledNeverArchived ==
  \A i \in db : job[i].ms = Disabled =>
    /\ i \notin archived
    /\ \A s \in Active : arch[i][s] = 0

(* Why the table refines JobTable (the inductive invariant of its proof): *)
(* besides DuplicateGuard for the inserts, a goroutine at the Archive     *)
(* stage runs for a job whose files ArchiveJob wrote; every goroutine and *)
(* every pending Stop is for an id already handed out; and a Stop about   *)
(* to write the ArchivingSuccessful it read (line 705) writes it for an   *)
(* archived job whose row, if still there, has its statistics.  A         *)
(* goroutine that went on after an ArchiveJob failure, or a Stop whose    *)
(* snapshot outlived its row's id, would break it.                        *)
PersistArchived == \A i \in Ids : arch[i]["persist"] > 0 => i \in archived
GoroutinesBelowNext == \A i \in Ids, s \in Active : arch[i][s] > 0 => i < nextId
StopSnapshot ==
  \A w \in Workers : pc[w] = "stopWrite" =>
    /\ req[w].id < nextId
    /\ req[w].ms = ArchivingSuccessful =>
         req[w].id \in archived /\ (req[w].id \in db => job[req[w].id].stats)
TableGuard ==
  /\ DuplicateGuard
  /\ SuccessMeansArchived
  /\ PersistArchived
  /\ GoroutinesBelowNext
  /\ StopSnapshot

(* Why DisabledNeverArchived holds (the inductive invariant of its proof  *)
(* in JobLifecycleProofs): archive files exist only for ids already      *)
(* handed out, so a fresh row has none; and a Stop between FindById and  *)
(* Stop (line 705) carries a monitoring status that is Disabled exactly  *)
(* when its row's, if the row is still there, is: the status a row is    *)
(* started with stays Disabled, or stays not Disabled, through every      *)
(* Stop, goroutine and delete.  A Stop that wrote a status it did not     *)
(* read from the row, or an id reused after a delete, would break it.     *)
ArchivedBelowNext == \A i \in archived : i < nextId
StopKeepsDisabled ==
  \A w \in Workers : pc[w] = "stopWrite" /\ req[w].id \in db =>
    (req[w].ms = Disabled <=> job[req[w].id].ms = Disabled)
DisabledGuard ==
  /\ TableGuard
  /\ DisabledNeverArchived
  /\ ArchivedBelowNext
  /\ StopKeepsDisabled

(* OngoingArchivings counts exactly the archiving goroutines that have    *)
(* not returned, so a shutdown that waits on it waits for all of them.    *)
Goroutines[n \in 0..MaxJobs] ==
  IF n = 0 THEN 0
  ELSE Goroutines[n - 1] + arch[n]["fetchMeta"] + arch[n]["archiveJob"]
                         + arch[n]["persist"]

OngoingMatchesGoroutines == ongoing = Goroutines[MaxJobs]

(* A start request blocked on RepositoryMutex is eventually answered:     *)
(* every path out of the critical section releases the mutex.             *)
StartCompletes ==
  \A w \in Workers : pc[w] = "startLock" ~> pc[w] = "idle"

(* Once archiving goroutines are outstanding, OngoingArchivings returns  *)
(* to zero: every goroutine reaches its deferred Done() (lines 726-751),  *)
(* so a shutdown that waits on the WaitGroup is not blocked forever       *)
(* (spec.md 4.2, 7).  It needs the stops to end: with ids bounded and a    *)
(* stop moving the job out of "running", only finitely many goroutines    *)
(* are ever started.                                                       *)
ArchivingsDrain == ongoing > 0 ~> ongoing = 0

(* spec.md section 8: start times at least Window apart never conflict;   *)
(* a start is rejected as a duplicate only because of a row whose start   *)
(* time is within Window of the request's, in either direction.           *)
SpecDuplicateWindow ==
  \A w \in Workers :
    pc[w] = "startCheck" /\ IsDuplicate(req[w]) =>
      \E i \in FindAll(req[w].key) :
        req[w].start - job[i].start < Window /\
        job[i].start - req[w].start < Window

(* spec.md section 3: the monitoring status only advances                 *)
(* (RunningOrArchiving to a result) or drops to ArchivingFailed; it never *)
(* returns from ArchivingSuccessful to RunningOrArchiving.                 *)
MonitoringStatusForward ==
  [][\A i \in db \cap db' :
       \/ job'[i].ms = job[i].ms
       \/ job'[i].ms = ArchivingFailed
       \/ job[i].ms = RunningOrArchiving /\ job'[i].ms = ArchivingSuccessful]_vars

(* spec.md section 3: duration = stopTime - startTime is never negative. *)
DurationNonNegative ==
  \A i \in db : job[i].dur >= 0

(* spec.md section 4.2: only a stop to a terminal state succeeds, so an   *)
(* archiving goroutine never runs for a job the table shows running.      *)
ArchiveOnlyStopped ==
  \A i \in db, s \in Active : arch[i][s] > 0 => job[i].state # Running

=============================================================================
