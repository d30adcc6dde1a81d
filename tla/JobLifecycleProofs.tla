------------------------- MODULE JobLifecycleProofs -------------------------
(***************************************************************************)
(* Proofs about JobLifecycle for every value of the constants: the type    *)
(* invariant, and the duplicate-window invariant that RepositoryMutex      *)
(* protects in startJob.                                                   *)
(***************************************************************************)
EXTENDS JobLifecycle, FiniteSetTheorems, TLAPS

USE WorkersAssumption, MaxJobsAssumption, TimesAssumption, WindowAssumption,
    DurationBitsAssumption, MaxOngoingAssumption, StopStatesAssumption

(* Powers of two are positive naturals: 2^n counts the subsets of 1..n. *)
LEMMA PowPos == ASSUME NEW n \in Nat PROVE 2^n \in Nat \ {0}
<1>1. IsFiniteSet(1..n) /\ Cardinality(1..n) = n
  BY FS_Interval
<1>2. IsFiniteSet(SUBSET (1..n)) /\ Cardinality(SUBSET (1..n)) = 2^n
  BY <1>1, FS_SUBSET
<1>3. Cardinality(SUBSET (1..n)) \in Nat
  BY <1>2, FS_CardinalityType
<1>4. Cardinality(SUBSET (1..n)) # 0
  BY <1>2, FS_EmptySet
<1>5. QED
  BY <1>2, <1>3, <1>4

(* The int32 conversion of job.Duration yields an integer, whatever it wraps. *)
LEMMA Int32Type == \A x \in Int : Int32(x) \in Int
<1>1. 2^(DurationBits - 1) \in Nat \ {0} /\ 2^DurationBits \in Nat \ {0}
  BY PowPos
<1>2. QED
  BY <1>1 DEF Int32

(* The row records in the table are never NoJob. *)
LEMMA NoJobNotRow == NoJob \notin JobRec
  BY DEF NoJob, JobRec, JobStates, Running

-----------------------------------------------------------------------------
(* Type correctness                                                        *)

(* The server starts with an empty table and idle handlers. *)
LEMMA TypeInit == Init => TypeOK
  BY NoJobNotRow DEF Init, TypeOK, Ids, PCs, Active

(* The type invariant in three parts: the job table, the workers and the *)
(* archiving side.  Each action disturbs few of them.                     *)
TypeRows ==
  /\ db \subseteq Ids
  /\ job \in [Ids -> JobRec \cup {NoJob}]
  /\ \A i \in Ids : job[i] \in JobRec <=> i \in db
  /\ nextId \in 1..(MaxJobs + 1)
TypeWorkers ==
  /\ mutex \in Workers \cup {NoWorker}
  /\ pc \in [Workers -> PCs]
  /\ req \in [Workers -> StartReq \cup StopReq \cup DeleteReq \cup {NoReq}]
  /\ \A w \in Workers :
       /\ pc[w] \in {"startLock", "startCheck", "startInsert"} => req[w] \in StartReq
       /\ pc[w] = "stopWrite" => req[w] \in StopReq
       /\ pc[w] = "deleteRow" => req[w] \in DeleteReq
TypeArchive ==
  /\ arch \in [Ids -> [Active -> Nat]]
  /\ ongoing \in Int
  /\ archived \subseteq Ids

(* Every handler step and goroutine step preserves the types. *)
LEMMA TypeStep == TypeOK /\ [Next]_vars => TypeOK'
<1> SUFFICES ASSUME TypeRows, TypeWorkers, TypeArchive, [Next]_vars
             PROVE  TypeRows' /\ TypeWorkers' /\ TypeArchive'
  BY DEF TypeOK, TypeRows, TypeWorkers, TypeArchive
<1>1. ASSUME NEW w \in Workers, ReceiveStart(w)
      PROVE  TypeRows' /\ TypeWorkers' /\ TypeArchive'
  <2>1. TypeWorkers'
    BY <1>1 DEF ReceiveStart, TypeWorkers, PCs
  <2>2. QED
    BY <1>1, <2>1 DEF ReceiveStart, TypeRows, TypeArchive
<1>2. ASSUME NEW w \in Workers, StartLock(w)
      PROVE  TypeRows' /\ TypeWorkers' /\ TypeArchive'
  <2>1. TypeWorkers'
    BY <1>2 DEF StartLock, TypeWorkers, PCs
  <2>2. QED
    BY <1>2, <2>1 DEF StartLock, TypeRows, TypeArchive
<1>3. ASSUME NEW w \in Workers, StartCheck(w)
      PROVE  TypeRows' /\ TypeWorkers' /\ TypeArchive'
  <2>1. TypeWorkers'
    BY <1>3 DEF StartCheck, Respond, Unlock, TypeWorkers, PCs
  <2>2. QED
    BY <1>3, <2>1 DEF StartCheck, TypeRows, TypeArchive
<1>4. ASSUME NEW w \in Workers, StartInsert(w)
      PROVE  TypeRows' /\ TypeWorkers' /\ TypeArchive'
  <2>1. TypeRows'
    <3>1. CASE UNCHANGED <<db, job, nextId>>
      BY <3>1 DEF TypeRows
    <3>2. CASE /\ nextId \in Ids
               /\ db' = db \cup {nextId}
               /\ job' = [job EXCEPT ![nextId] =
                            [key |-> req[w].key, start |-> req[w].start,
                             state |-> Running, ms |-> req[w].ms, dur |-> 0,
                             stats |-> FALSE]]
               /\ nextId' = nextId + 1
      <4>1. req[w] \in StartReq
        BY <1>4 DEF StartInsert, TypeWorkers
      <4>2. [key |-> req[w].key, start |-> req[w].start, state |-> Running,
             ms |-> req[w].ms, dur |-> 0, stats |-> FALSE] \in JobRec
        BY <4>1 DEF StartReq, JobRec, JobStates, StartMonitoring, MonitoringStatuses
      <4>3. PICK row \in JobRec : job' = [job EXCEPT ![nextId] = row]
        BY <3>2, <4>2
      <4>4. job' \in [Ids -> JobRec \cup {NoJob}]
        BY <4>3 DEF TypeRows
      <4>5. \A i \in Ids : job'[i] \in JobRec <=> i \in db'
        BY <3>2, <4>3, NoJobNotRow DEF TypeRows
      <4>6. db' \subseteq Ids /\ nextId' \in 1..(MaxJobs + 1)
        BY <3>2 DEF TypeRows, Ids
      <4>7. QED
        BY <4>4, <4>5, <4>6 DEF TypeRows
    <3>3. QED
      BY <1>4, <3>1, <3>2 DEF StartInsert
  <2>2. TypeWorkers'
    BY <1>4 DEF StartInsert, Respond, Unlock, TypeWorkers, PCs
  <2>3. QED
    BY <1>4, <2>1, <2>2 DEF StartInsert, TypeArchive
<1>5. ASSUME NEW w \in Workers, StopFind(w)
      PROVE  TypeRows' /\ TypeWorkers' /\ TypeArchive'
  <2>1. TypeWorkers'
    <3>1. PICK found \in Lookups, stop \in Times, st \in StopStates :
            \E i \in found :
              /\ StopChecks(i, stop, st)
              /\ req' = [req EXCEPT ![w] =
                           [id |-> i, dur |-> Int32(stop - job[i].start),
                            state |-> IF st = Unset THEN "completed" ELSE st,
                            ms |-> job[i].ms]]
              /\ pc' = [pc EXCEPT ![w] = "stopWrite"]
      BY <1>5 DEF StopFind
    <3>2. PICK i \in found :
              /\ StopChecks(i, stop, st)
              /\ req' = [req EXCEPT ![w] =
                           [id |-> i, dur |-> Int32(stop - job[i].start),
                            state |-> IF st = Unset THEN "completed" ELSE st,
                            ms |-> job[i].ms]]
              /\ pc' = [pc EXCEPT ![w] = "stopWrite"]
      BY <3>1
    <3>3. i \in db /\ job[i] \in JobRec
      BY <3>2 DEF Lookups, Find, TypeRows
    <3>4. Int32(stop - job[i].start) \in Int
      <4>1. job[i].start \in Nat /\ stop \in Nat
        BY <3>1, <3>3 DEF JobRec
      <4>2. stop - job[i].start \in Int
        BY <4>1
      <4>3. QED
        BY <4>2, Int32Type
    <3>5. (IF st = Unset THEN "completed" ELSE st) \in JobStates
      BY <3>2 DEF StopChecks, Valid, JobStates
    <3>6. [id |-> i, dur |-> Int32(stop - job[i].start),
           state |-> IF st = Unset THEN "completed" ELSE st,
           ms |-> job[i].ms] \in StopReq
      BY <3>3, <3>4, <3>5 DEF StopReq, JobRec, TypeRows
    <3>7. QED
      BY <1>5, <3>2, <3>6 DEF StopFind, TypeWorkers, PCs
  <2>2. QED
    BY <1>5, <2>1 DEF StopFind, TypeRows, TypeArchive
<1>6. ASSUME NEW w \in Workers, StopWrite(w)
      PROVE  TypeRows' /\ TypeWorkers' /\ TypeArchive'
  <2>1. TypeRows'
    <3> DEFINE r == req[w]
    <3>1. r \in StopReq
      BY <1>6 DEF StopWrite, TypeWorkers
    <3>2. ASSUME NEW row \in JobRec
          PROVE  [row EXCEPT !.dur = r.dur, !.state = r.state, !.ms = r.ms] \in JobRec
      BY <3>1 DEF StopReq, JobRec
    <3>3. CASE UNCHANGED job
      BY <1>6, <3>3 DEF StopWrite, TypeRows
    <3>4. CASE job' = IF r.id \in db
                      THEN [job EXCEPT ![r.id] = [job[r.id] EXCEPT !.dur = r.dur,
                                                  !.state = r.state, !.ms = r.ms]]
                      ELSE job
      BY <1>6, <3>1, <3>2, <3>4, NoJobNotRow DEF StopWrite, TypeRows, StopReq
    <3>5. QED
      BY <1>6, <3>3, <3>4 DEF StopWrite, UpdateRow
  <2>2. TypeWorkers'
    BY <1>6 DEF StopWrite, Respond, TypeWorkers, PCs
  <2>3. TypeArchive'
    BY <1>6 DEF StopWrite, TypeArchive, TypeWorkers, PCs, StopReq, Active
  <2>4. QED
    BY <2>1, <2>2, <2>3
<1>7. ASSUME NEW w \in Workers, DeleteById(w)
      PROVE  TypeRows' /\ TypeWorkers' /\ TypeArchive'
  <2>1. TypeRows'
    BY <1>7, NoJobNotRow DEF DeleteById, Delete, TypeRows
  <2>2. QED
    BY <1>7, <2>1 DEF DeleteById, TypeWorkers, TypeArchive, workerVars
<1>8. ASSUME NEW w \in Workers, DeleteFind(w)
      PROVE  TypeRows' /\ TypeWorkers' /\ TypeArchive'
  <2>1. TypeWorkers'
    BY <1>8 DEF DeleteFind, Find, TypeWorkers, PCs, DeleteReq
  <2>2. QED
    BY <1>8, <2>1 DEF DeleteFind, TypeRows, TypeArchive
<1>9. ASSUME NEW w \in Workers, DeleteRow(w)
      PROVE  TypeRows' /\ TypeWorkers' /\ TypeArchive'
  <2>1. TypeRows'
    BY <1>9, NoJobNotRow DEF DeleteRow, Delete, TypeRows, TypeWorkers, DeleteReq
  <2>2. TypeWorkers'
    BY <1>9 DEF DeleteRow, Respond, TypeWorkers, PCs
  <2>3. QED
    BY <1>9, <2>1, <2>2 DEF DeleteRow, TypeArchive
<1>10. ASSUME NEW w \in Workers, DeleteBefore(w)
       PROVE  TypeRows' /\ TypeWorkers' /\ TypeArchive'
  <2>1. TypeRows'
    BY <1>10, NoJobNotRow DEF DeleteBefore, Delete, TypeRows
  <2>2. QED
    BY <1>10, <2>1 DEF DeleteBefore, TypeWorkers, TypeArchive, workerVars
<1>11. ASSUME NEW i \in Ids, ArchFetchMeta(i)
       PROVE  TypeRows' /\ TypeWorkers' /\ TypeArchive'
  <2>1. TypeRows'
    BY <1>11, NoJobNotRow DEF ArchFetchMeta, MarkFailed, UpdateRow, TypeRows, JobRec,
                              MonitoringStatuses
  <2>2. TypeArchive'
    BY <1>11 DEF ArchFetchMeta, Finish, Advance, TypeArchive, Active
  <2>3. QED
    BY <1>11, <2>1, <2>2 DEF ArchFetchMeta, TypeWorkers, workerVars
<1>12. ASSUME NEW i \in Ids, ArchArchiveJob(i)
       PROVE  TypeRows' /\ TypeWorkers' /\ TypeArchive'
  <2>1. TypeRows'
    BY <1>12, NoJobNotRow DEF ArchArchiveJob, MarkFailed, UpdateRow, TypeRows, JobRec,
                              MonitoringStatuses
  <2>2. TypeArchive'
    <3>1. CASE Finish(i, "archiveJob") /\ UNCHANGED archived
      BY <1>12, <3>1 DEF ArchArchiveJob, Finish, TypeArchive, Active
    <3>2. CASE archived' = archived \cup {i} /\ Advance(i, "archiveJob", "persist")
                                           /\ UNCHANGED ongoing
      BY <1>12, <3>2 DEF ArchArchiveJob, Advance, TypeArchive, Active
    <3>3. QED
      BY <1>12, <3>1, <3>2 DEF ArchArchiveJob
  <2>3. QED
    BY <1>12, <2>1, <2>2 DEF ArchArchiveJob, TypeWorkers, workerVars
<1>13. ASSUME NEW i \in Ids, ArchPersist(i)
       PROVE  TypeRows' /\ TypeWorkers' /\ TypeArchive'
  <2>1. TypeRows'
    <3>1. ASSUME NEW row \in JobRec
          PROVE  [row EXCEPT !.ms = ArchivingSuccessful, !.stats = TRUE] \in JobRec
      BY DEF JobRec, MonitoringStatuses
    <3>2. QED
      BY <1>13, <3>1, NoJobNotRow DEF ArchPersist, UpdateRow, TypeRows
  <2>2. TypeArchive'
    BY <1>13 DEF ArchPersist, Finish, TypeArchive, Active
  <2>3. QED
    BY <1>13, <2>1, <2>2 DEF ArchPersist, TypeWorkers, workerVars
<1>14. CASE UNCHANGED vars
  BY <1>14 DEF vars, TypeRows, TypeWorkers, TypeArchive
<1>15. QED
  BY <1>1, <1>2, <1>3, <1>4, <1>5, <1>6, <1>7, <1>8, <1>9, <1>10, <1>11,
     <1>12, <1>13, <1>14 DEF Next, Worker, Goroutine

(* Every reachable state satisfies the type invariant: the handlers and    *)
(* the archiving goroutine only ever store rows of the job schema, the     *)
(* request each handler carries matches its stage, and the int32 duration  *)
(* of Stop is an integer whatever it wraps.                                *)
THEOREM TypeCorrect == Spec => []TypeOK
  BY TypeInit, TypeStep, PTL DEF Spec

-----------------------------------------------------------------------------
(* The duplicate window                                                    *)

(* The clauses of DuplicateGuard besides TypeOK. *)
GuardRest == NoDuplicateStart /\ IdsBelowNext /\ MutexHeld /\ CheckedWindow

(* A step that keeps every surviving row's natural key and start time,    *)
(* inserts nothing, and moves no worker into or inside the critical       *)
(* section of startJob.                                                    *)
RowsKept ==
  /\ db' \subseteq db
  /\ nextId' = nextId
  /\ \A i \in db' : job'[i].key = job[i].key /\ job'[i].start = job[i].start
WorkersOutside ==
  /\ mutex' = mutex
  /\ \A v \in Workers : pc'[v] \in {"startCheck", "startInsert"} =>
                          pc'[v] = pc[v] /\ req'[v] = req[v]

(* Such a step preserves the clauses of DuplicateGuard. *)
LEMMA KeptStep ==
  ASSUME TypeOK, TypeOK', GuardRest, RowsKept, WorkersOutside
  PROVE  GuardRest'
<1>1. NoDuplicateStart'
  BY DEF GuardRest, RowsKept, NoDuplicateStart, TypeOK
<1>2. IdsBelowNext'
  BY DEF GuardRest, RowsKept, IdsBelowNext, TypeOK, Ids
<1>3. MutexHeld'
  BY DEF GuardRest, WorkersOutside, MutexHeld
<1>4. CheckedWindow'
  BY DEF GuardRest, RowsKept, WorkersOutside, CheckedWindow, FindAll, TypeOK
<1>5. QED
  BY <1>1, <1>2, <1>3, <1>4 DEF GuardRest

(* The UPDATEs of Stop, UpdateMonitoringStatus and Archive leave a row's  *)
(* natural key and start time alone.                                      *)
LEMMA UpdateKeepsKey ==
  ASSUME NEW r \in JobRec, NEW d, NEW st, NEW m, NEW b
  PROVE  /\ [r EXCEPT !.dur = d, !.state = st, !.ms = m].key = r.key
         /\ [r EXCEPT !.dur = d, !.state = st, !.ms = m].start = r.start
         /\ [r EXCEPT !.ms = m].key = r.key
         /\ [r EXCEPT !.ms = m].start = r.start
         /\ [r EXCEPT !.ms = m, !.stats = b].key = r.key
         /\ [r EXCEPT !.ms = m, !.stats = b].start = r.start
  BY DEF JobRec

(* An UPDATE of row i that keeps its key and start time keeps RowsKept's  *)
(* third clause for every row.                                            *)
LEMMA UpdateRowKeeps ==
  ASSUME TypeOK, NEW i \in Ids, NEW row,
         i \in db => row.key = job[i].key /\ row.start = job[i].start,
         job' = IF i \in db THEN [job EXCEPT ![i] = row] ELSE job
  PROVE  \A j \in db : job'[j].key = job[j].key /\ job'[j].start = job[j].start
  BY DEF TypeOK

(* Every step of a handler or of the archiving goroutine preserves        *)
(* DuplicateGuard: one step per action.                                    *)
LEMMA GuardStep == DuplicateGuard /\ [Next]_vars => DuplicateGuard'
<1> SUFFICES ASSUME TypeOK, GuardRest, [Next]_vars
             PROVE  TypeOK' /\ GuardRest'
  BY DEF DuplicateGuard, GuardRest
<1>1. TypeOK'
  BY TypeStep
<1> USE <1>1
<1>2. ASSUME NEW w \in Workers, ReceiveStart(w) PROVE GuardRest'
  BY <1>2, KeptStep DEF ReceiveStart, RowsKept, WorkersOutside, TypeOK, PCs
<1>3. ASSUME NEW w \in Workers, StopFind(w) PROVE GuardRest'
  BY <1>3, KeptStep DEF StopFind, RowsKept, WorkersOutside, TypeOK, PCs
<1>4. ASSUME NEW w \in Workers, DeleteFind(w) PROVE GuardRest'
  BY <1>4, KeptStep DEF DeleteFind, RowsKept, WorkersOutside, TypeOK, PCs
<1>5. ASSUME NEW w \in Workers, StopWrite(w) PROVE GuardRest'
  <2>1. RowsKept
    <3> DEFINE r == req[w]
    <3>1. CASE UNCHANGED job
      BY <1>5, <3>1 DEF StopWrite, RowsKept
    <3>2. CASE job' = IF r.id \in db
                      THEN [job EXCEPT ![r.id] = [job[r.id] EXCEPT !.dur = r.dur,
                                                  !.state = r.state, !.ms = r.ms]]
                      ELSE job
      <4>1. r \in StopReq
        BY <1>5 DEF StopWrite, TypeOK
      <4>2. r.id \in db => job[r.id] \in JobRec
        BY <4>1 DEF TypeOK, StopReq
      <4>3. \A j \in db : job'[j].key = job[j].key /\ job'[j].start = job[j].start
        BY <3>2, <4>1, <4>2, UpdateKeepsKey, UpdateRowKeeps DEF StopReq
      <4>4. QED
        BY <1>5, <4>3 DEF StopWrite, RowsKept
    <3>3. QED
      BY <1>5, <3>1, <3>2 DEF StopWrite, UpdateRow
  <2>2. WorkersOutside
    BY <1>5 DEF StopWrite, Respond, WorkersOutside, TypeOK, PCs
  <2>3. QED
    BY <2>1, <2>2, KeptStep
<1>6. ASSUME NEW w \in Workers, DeleteById(w) PROVE GuardRest'
  BY <1>6, KeptStep DEF DeleteById, Delete, RowsKept, WorkersOutside, workerVars, TypeOK
<1>7. ASSUME NEW w \in Workers, DeleteRow(w) PROVE GuardRest'
  <2>1. RowsKept
    BY <1>7 DEF DeleteRow, Delete, RowsKept, TypeOK
  <2>2. WorkersOutside
    BY <1>7 DEF DeleteRow, Respond, WorkersOutside, TypeOK, PCs
  <2>3. QED
    BY <2>1, <2>2, KeptStep
<1>8. ASSUME NEW w \in Workers, DeleteBefore(w) PROVE GuardRest'
  BY <1>8, KeptStep DEF DeleteBefore, Delete, RowsKept, WorkersOutside, workerVars, TypeOK
<1>9. ASSUME NEW i \in Ids, ArchFetchMeta(i) PROVE GuardRest'
  <2>1. i \in db => job[i] \in JobRec
    BY DEF TypeOK
  <2>2. UNCHANGED job \/
        job' = IF i \in db
               THEN [job EXCEPT ![i] = [job[i] EXCEPT !.ms = ArchivingFailed]]
               ELSE job
    BY <1>9 DEF ArchFetchMeta, MarkFailed, UpdateRow
  <2>3. \A j \in db : job'[j].key = job[j].key /\ job'[j].start = job[j].start
    BY <2>1, <2>2, UpdateKeepsKey, UpdateRowKeeps
  <2>4. QED
    BY <1>9, <2>3, KeptStep DEF ArchFetchMeta, RowsKept, WorkersOutside, workerVars
<1>10. ASSUME NEW i \in Ids, ArchArchiveJob(i) PROVE GuardRest'
  <2>1. i \in db => job[i] \in JobRec
    BY DEF TypeOK
  <2>2. UNCHANGED job \/
        job' = IF i \in db
               THEN [job EXCEPT ![i] = [job[i] EXCEPT !.ms = ArchivingFailed]]
               ELSE job
    BY <1>10 DEF ArchArchiveJob, MarkFailed, UpdateRow
  <2>3. \A j \in db : job'[j].key = job[j].key /\ job'[j].start = job[j].start
    BY <2>1, <2>2, UpdateKeepsKey, UpdateRowKeeps
  <2>4. QED
    BY <1>10, <2>3, KeptStep DEF ArchArchiveJob, RowsKept, WorkersOutside, workerVars
<1>11. ASSUME NEW i \in Ids, ArchPersist(i) PROVE GuardRest'
  <2>1. i \in db => job[i] \in JobRec
    BY DEF TypeOK
  <2>2. UNCHANGED job \/
        job' = IF i \in db
               THEN [job EXCEPT ![i] = [job[i] EXCEPT !.ms = ArchivingSuccessful,
                                                      !.stats = TRUE]]
               ELSE job
    BY <1>11 DEF ArchPersist, UpdateRow
  <2>3. \A j \in db : job'[j].key = job[j].key /\ job'[j].start = job[j].start
    <3>1. CASE UNCHANGED job
      BY <3>1
    <3>2. CASE job' = IF i \in db
                      THEN [job EXCEPT ![i] = [job[i] EXCEPT !.ms = ArchivingSuccessful,
                                                             !.stats = TRUE]]
                      ELSE job
      <4>1. i \in db => /\ [job[i] EXCEPT !.ms = ArchivingSuccessful,
                                         !.stats = TRUE].key = job[i].key
                       /\ [job[i] EXCEPT !.ms = ArchivingSuccessful,
                                         !.stats = TRUE].start = job[i].start
        BY <2>1, UpdateKeepsKey
      <4>2. QED
        BY <3>2, <4>1, UpdateRowKeeps
    <3>3. QED
      BY <2>2, <3>1, <3>2
  <2>4. QED
    BY <1>11, <2>3, KeptStep DEF ArchPersist, RowsKept, WorkersOutside, workerVars
<1>12. CASE UNCHANGED vars
  BY <1>12, KeptStep DEF vars, RowsKept, WorkersOutside
<1>13. ASSUME NEW w \in Workers, StartLock(w) PROVE GuardRest'
  <2>1. \A v \in Workers : pc[v] \notin {"startCheck", "startInsert"}
    BY <1>13, WorkersAssumption DEF StartLock, GuardRest, MutexHeld
  <2>2. MutexHeld'
    BY <1>13, <2>1 DEF StartLock, MutexHeld, TypeOK
  <2>3. CheckedWindow'
    BY <1>13, <2>1 DEF StartLock, CheckedWindow, FindAll, TypeOK
  <2>4. QED
    BY <1>13, <2>2, <2>3 DEF StartLock, GuardRest, NoDuplicateStart, IdsBelowNext
<1>14. ASSUME NEW w \in Workers, StartCheck(w) PROVE GuardRest'
  <2>1. \A v \in Workers \ {w} : pc[v] \notin {"startCheck", "startInsert"}
    BY <1>14 DEF StartCheck, GuardRest, MutexHeld
  <2>2. CASE Respond(w) /\ Unlock
    <3>1. \A v \in Workers : pc'[v] \notin {"startCheck", "startInsert"}
      BY <2>1, <2>2 DEF Respond, TypeOK
    <3>2. QED
      BY <1>14, <3>1 DEF StartCheck, GuardRest, NoDuplicateStart, IdsBelowNext,
                         MutexHeld, CheckedWindow
  <2>3. CASE /\ ~IsDuplicate(req[w])
             /\ pc' = [pc EXCEPT ![w] = "startInsert"]
             /\ UNCHANGED <<req, mutex>>
    <3>1. req[w] \in StartReq
      BY <1>14 DEF StartCheck, TypeOK
    <3>2. \A i \in FindAll(req[w].key) : req[w].start - job[i].start >= Window
      <4>1. TAKE i \in FindAll(req[w].key)
      <4>2. req[w].start \in Nat /\ job[i].start \in Nat
        BY <3>1 DEF FindAll, TypeOK, StartReq, JobRec
      <4>3. ~(req[w].start - job[i].start < Window)
        BY <2>3 DEF IsDuplicate
      <4>4. QED
        BY <4>2, <4>3
    <3>3. MutexHeld'
      BY <1>14, <2>3 DEF StartCheck, GuardRest, MutexHeld, TypeOK
    <3>4. CheckedWindow'
      BY <1>14, <2>3, <3>2 DEF StartCheck, GuardRest, CheckedWindow, FindAll, TypeOK
    <3>5. QED
      BY <1>14, <3>3, <3>4 DEF StartCheck, GuardRest, NoDuplicateStart, IdsBelowNext
  <2>4. QED
    BY <1>14, <2>2, <2>3 DEF StartCheck
<1>15. ASSUME NEW w \in Workers, StartInsert(w) PROVE GuardRest'
  <2>1. \A v \in Workers : pc'[v] \notin {"startCheck", "startInsert"}
    <3>1. \A v \in Workers \ {w} : pc[v] \notin {"startCheck", "startInsert"}
      BY <1>15 DEF StartInsert, GuardRest, MutexHeld
    <3>2. QED
      BY <1>15, <3>1 DEF StartInsert, Respond, TypeOK
  <2>2. MutexHeld' /\ CheckedWindow'
    BY <2>1 DEF MutexHeld, CheckedWindow
  <2>3. CASE UNCHANGED <<db, job, nextId>>
    BY <2>2, <2>3 DEF GuardRest, NoDuplicateStart, IdsBelowNext
  <2>4. CASE /\ nextId \in Ids
             /\ db' = db \cup {nextId}
             /\ job' = [job EXCEPT ![nextId] =
                          [key |-> req[w].key, start |-> req[w].start,
                           state |-> Running, ms |-> req[w].ms, dur |-> 0,
                           stats |-> FALSE]]
             /\ nextId' = nextId + 1
    <3>1. nextId \notin db
      BY DEF GuardRest, IdsBelowNext, TypeOK
    <3>2. job'[nextId].key = req[w].key /\ job'[nextId].start = req[w].start
      BY <2>4 DEF TypeOK, Ids
    <3>3. \A i \in db : job'[i] = job[i]
      BY <2>4, <3>1 DEF TypeOK
    <3>4. \A i \in db : job[i].key = req[w].key => req[w].start - job[i].start >= Window
      BY <1>15 DEF StartInsert, GuardRest, CheckedWindow, FindAll
    <3>5. \A i \in db : i < nextId
      BY DEF GuardRest, IdsBelowNext
    <3>6. NoDuplicateStart'
      <4>1. SUFFICES ASSUME NEW i \in db', NEW j \in db', i < j,
                            job'[i].key = job'[j].key
                     PROVE  job'[j].start - job'[i].start >= Window
        BY DEF NoDuplicateStart
      <4>2. CASE j = nextId
        <5>1. i \in db
          BY <2>4, <4>1, <4>2 DEF TypeOK, Ids
        <5>2. QED
          BY <3>2, <3>3, <3>4, <4>1, <4>2, <5>1
      <4>3. CASE j # nextId
        <5>1. j \in db /\ i \in db
          BY <2>4, <3>5, <4>1, <4>3 DEF TypeOK, Ids
        <5>2. QED
          BY <3>3, <4>1, <5>1 DEF GuardRest, NoDuplicateStart
      <4>4. QED
        BY <4>2, <4>3
    <3>7. IdsBelowNext'
      BY <2>4, <3>5 DEF IdsBelowNext, TypeOK, Ids
    <3>8. QED
      BY <2>2, <3>6, <3>7 DEF GuardRest
  <2>5. QED
    BY <1>15, <2>3, <2>4 DEF StartInsert
<1>20. QED
  BY <1>1, <1>2, <1>3, <1>4, <1>5, <1>6, <1>7, <1>8, <1>9, <1>10, <1>11, <1>12,
     <1>13, <1>14, <1>15
  DEF Next, Worker, Goroutine

(* DuplicateGuard holds initially: no row, no worker inside startJob. *)
LEMMA GuardInit == Init => DuplicateGuard
  BY TypeInit DEF Init, DuplicateGuard, NoDuplicateStart, IdsBelowNext, MutexHeld,
                  CheckedWindow, PCs

(* The inductive invariant behind NoDuplicateStart holds in every         *)
(* reachable state.                                                        *)
THEOREM DuplicateGuardInvariant == Spec => []DuplicateGuard
  BY GuardInit, GuardStep, PTL DEF Spec

(* startJob's duplicate check under RepositoryMutex (lines 389-414) is    *)
(* sound for every number of workers, ids, keys and times and every       *)
(* window: of two rows with one (jobId, cluster), the later-inserted one  *)
(* started at least Window seconds after the earlier one.                 *)
THEOREM DuplicateFree == Spec => []NoDuplicateStart
  BY DuplicateGuardInvariant, PTL DEF DuplicateGuard

=============================================================================
