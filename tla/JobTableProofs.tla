--------------------------- MODULE JobTableProofs ---------------------------
(***************************************************************************)
(* Proofs that JobLifecycle implements the atomic job table of JobTable    *)
(* under the refinement mapping rows <- [i \in db |-> job[i]], archive <-  *)
(* archived, for every value of the constants, and that a row shows        *)
(* ArchivingSuccessful only for an archived job with statistics.           *)
(***************************************************************************)
EXTENDS JobLifecycleProofs

(* The clauses of TableGuard besides DuplicateGuard. *)
ArchRest == SuccessMeansArchived /\ PersistArchived /\ GoroutinesBelowNext /\ StopSnapshot

(* A step that changes no goroutine, archive file or id, keeps or removes *)
(* rows without changing the survivors, and moves no worker into the      *)
(* Stop write.                                                             *)
ArchKept ==
  /\ arch' = arch /\ archived' = archived /\ nextId' = nextId
  /\ db' \subseteq db
  /\ \A i \in db' : job'[i] = job[i]
  /\ \A v \in Workers : pc'[v] = "stopWrite" => pc[v] = "stopWrite" /\ req'[v] = req[v]

(* Such a step preserves the clauses of ArchRest. *)
LEMMA ArchKeptStep ==
  ASSUME TypeOK, ArchRest, ArchKept
  PROVE  ArchRest'
<1>1. SuccessMeansArchived'
  BY DEF ArchRest, ArchKept, SuccessMeansArchived
<1>2. PersistArchived'
  BY DEF ArchRest, ArchKept, PersistArchived
<1>3. GoroutinesBelowNext'
  BY DEF ArchRest, ArchKept, GoroutinesBelowNext
<1>4. StopSnapshot'
  BY DEF ArchRest, ArchKept, StopSnapshot
<1>5. QED
  BY <1>1, <1>2, <1>3, <1>4 DEF ArchRest

(* The rows a stop or a delete by request resolves are present rows. *)
LEMMA LookupsInDb == \A found \in Lookups : found \subseteq db
  BY DEF Lookups, Find

(* A goroutine count that moves from stage s to stage t, or that grows or *)
(* shrinks at one stage, is positive afterwards only where it was before  *)
(* or where it moved to.                                                   *)
LEMMA ArchMove ==
  ASSUME NEW a \in [Ids -> [Active -> Nat]], NEW i \in Ids, NEW s \in Active,
         NEW t \in Active, s # t, a[i][s] > 0
  PROVE  LET b == [a EXCEPT ![i][s] = @ - 1, ![i][t] = @ + 1]
         IN  \A j \in Ids, u \in Active : b[j][u] > 0 => a[j][u] > 0 \/ (j = i /\ u = t)
  OBVIOUS

LEMMA ArchGrow ==
  ASSUME NEW a \in [Ids -> [Active -> Nat]], NEW i \in Ids, NEW t \in Active
  PROVE  LET b == [a EXCEPT ![i][t] = @ + 1]
         IN  \A j \in Ids, u \in Active : b[j][u] > 0 => a[j][u] > 0 \/ (j = i /\ u = t)
  OBVIOUS

LEMMA ArchShrink ==
  ASSUME NEW a \in [Ids -> [Active -> Nat]], NEW i \in Ids, NEW s \in Active
  PROVE  LET b == [a EXCEPT ![i][s] = @ - 1]
         IN  \A j \in Ids, u \in Active : b[j][u] > 0 => a[j][u] > 0
  OBVIOUS

(* An UPDATE ... WHERE id = i changes row i only, and nothing when the    *)
(* row is gone.                                                            *)
LEMMA UpdateRowOthers ==
  ASSUME TypeOK, NEW i \in Ids, NEW row,
         job' = IF i \in db THEN [job EXCEPT ![i] = row] ELSE job
  PROVE  /\ \A j \in db \ {i} : job'[j] = job[j]
         /\ i \in db => job'[i] = row
         /\ i \notin db => job' = job
  BY DEF TypeOK

(* The three UPDATEs of a row: Stop keeps the statistics flag,           *)
(* UpdateMonitoringStatus(ArchivingFailed) keeps it and never writes      *)
(* ArchivingSuccessful, Archive sets both.                                 *)
LEMMA RowFields ==
  ASSUME NEW r \in JobRec, NEW d, NEW st, NEW m, NEW b
  PROVE  /\ [r EXCEPT !.dur = d, !.state = st, !.ms = m].ms = m
         /\ [r EXCEPT !.dur = d, !.state = st, !.ms = m].stats = r.stats
         /\ [r EXCEPT !.ms = m].ms = m
         /\ [r EXCEPT !.ms = m].stats = r.stats
         /\ [r EXCEPT !.ms = m, !.stats = b].ms = m
         /\ [r EXCEPT !.ms = m, !.stats = b].stats = b
  BY DEF JobRec

(* Stop(...) changes the status of row r.id to the snapshot's and keeps   *)
(* every statistics flag.                                                  *)
LEMMA StopRow ==
  ASSUME TypeOK, NEW r \in StopReq,
         UpdateRow(r.id, LAMBDA row :
           [row EXCEPT !.dur = r.dur, !.state = r.state, !.ms = r.ms])
  PROVE  \A j \in db : /\ job'[j].stats = job[j].stats
                       /\ job'[j].ms = ArchivingSuccessful =>
                            job[j].ms = ArchivingSuccessful \/ (j = r.id /\ r.ms = ArchivingSuccessful)
<1>1. r.id \in Ids
  BY DEF StopReq
<1>2. job' = IF r.id \in db
               THEN [job EXCEPT ![r.id] =
                       [job[r.id] EXCEPT !.dur = r.dur, !.state = r.state, !.ms = r.ms]]
               ELSE job
  BY DEF UpdateRow
<1>3. r.id \in db => job[r.id] \in JobRec
  BY <1>1 DEF TypeOK
<1>4. QED
  BY <1>1, <1>2, <1>3, RowFields, UpdateRowOthers

(* UpdateMonitoringStatus(id, ArchivingFailed) keeps every statistics     *)
(* flag and writes no ArchivingSuccessful.                                 *)
LEMMA FailedRow ==
  ASSUME TypeOK, NEW i \in Ids, MarkFailed(i)
  PROVE  \A j \in db : /\ job'[j].stats = job[j].stats
                       /\ job'[j].ms = ArchivingSuccessful => job[j].ms = ArchivingSuccessful
<1>1. job' = IF i \in db THEN [job EXCEPT ![i] = [job[i] EXCEPT !.ms = ArchivingFailed]]
                         ELSE job
  BY DEF MarkFailed, UpdateRow
<1>2. i \in db => job[i] \in JobRec
  BY DEF TypeOK
<1>3. ArchivingFailed # ArchivingSuccessful
  BY DEF ArchivingFailed, ArchivingSuccessful
<1>4. QED
  BY <1>1, <1>2, <1>3, RowFields, UpdateRowOthers

(* Archive(id, ArchivingSuccessful, statistics) sets both on row i only. *)
LEMMA ArchivedRow ==
  ASSUME TypeOK, NEW i \in Ids,
         UpdateRow(i, LAMBDA r : [r EXCEPT !.ms = ArchivingSuccessful, !.stats = TRUE])
  PROVE  \A j \in db : /\ job[j].stats => job'[j].stats
                       /\ job'[j].ms = ArchivingSuccessful =>
                            job[j].ms = ArchivingSuccessful \/ (j = i /\ job'[j].stats)
<1>1. job' = IF i \in db
               THEN [job EXCEPT ![i] = [job[i] EXCEPT !.ms = ArchivingSuccessful, !.stats = TRUE]]
               ELSE job
  BY DEF UpdateRow
<1>2. i \in db => job[i] \in JobRec
  BY DEF TypeOK
<1>3. QED
  BY <1>1, <1>2, RowFields, UpdateRowOthers

(* A goroutine step: it changes rows only in ways that keep statistics    *)
(* and write ArchivingSuccessful only with them, only adds archive files, *)
(* and starts a stage only for an inserted job, and the persist stage     *)
(* only for an archived one.                                               *)
LEMMA GoroutineKept ==
  ASSUME TypeOK, ArchRest,
         db' = db, nextId' = nextId, pc' = pc, req' = req, archived \subseteq archived',
         \A j \in db : /\ job[j].stats => job'[j].stats
                       /\ job'[j].ms = ArchivingSuccessful =>
                            job[j].ms = ArchivingSuccessful \/ (j \in archived' /\ job'[j].stats),
         \A j \in Ids, u \in Active :
           arch'[j][u] > 0 => arch[j][u] > 0 \/ (j < nextId /\ (u = "persist" => j \in archived'))
  PROVE  ArchRest'
<1>1. SuccessMeansArchived'
  BY DEF ArchRest, SuccessMeansArchived
<1>2. PersistArchived'
  BY DEF ArchRest, PersistArchived, Active
<1>3. GoroutinesBelowNext'
  BY DEF ArchRest, GoroutinesBelowNext
<1>4. StopSnapshot'
  BY DEF ArchRest, StopSnapshot
<1>5. QED
  BY <1>1, <1>2, <1>3, <1>4 DEF ArchRest

(* Every step preserves the clauses of ArchRest: one step per action. *)
LEMMA ArchStep == DuplicateGuard /\ ArchRest /\ [Next]_vars => ArchRest'
<1> SUFFICES ASSUME TypeOK, IdsBelowNext, ArchRest, [Next]_vars PROVE ArchRest'
  BY DEF DuplicateGuard
<1>1. ASSUME NEW w \in Workers, ReceiveStart(w) PROVE ArchRest'
  BY <1>1, ArchKeptStep DEF ReceiveStart, ArchKept, TypeOK
<1>2. ASSUME NEW w \in Workers, StartLock(w) PROVE ArchRest'
  BY <1>2, ArchKeptStep DEF StartLock, ArchKept, TypeOK
<1>3. ASSUME NEW w \in Workers, StartCheck(w) PROVE ArchRest'
  BY <1>3, ArchKeptStep DEF StartCheck, Respond, Unlock, ArchKept, TypeOK
<1>4. ASSUME NEW w \in Workers, DeleteFind(w) PROVE ArchRest'
  BY <1>4, ArchKeptStep DEF DeleteFind, ArchKept, TypeOK
<1>5. ASSUME NEW w \in Workers, DeleteById(w) PROVE ArchRest'
  BY <1>5, ArchKeptStep DEF DeleteById, Delete, ArchKept, workerVars, TypeOK
<1>6. ASSUME NEW w \in Workers, DeleteRow(w) PROVE ArchRest'
  BY <1>6, ArchKeptStep DEF DeleteRow, Delete, Respond, ArchKept, TypeOK
<1>7. ASSUME NEW w \in Workers, DeleteBefore(w) PROVE ArchRest'
  BY <1>7, ArchKeptStep DEF DeleteBefore, Delete, ArchKept, workerVars, TypeOK
<1>8. CASE UNCHANGED vars
  BY <1>8, ArchKeptStep DEF vars, ArchKept
<1>9. ASSUME NEW w \in Workers, StartInsert(w) PROVE ArchRest'
  <2>1. CASE UNCHANGED <<db, job, nextId>>
    BY <1>9, <2>1, ArchKeptStep DEF StartInsert, Respond, Unlock, ArchKept, TypeOK
  <2>2. CASE /\ nextId \in Ids
             /\ db' = db \cup {nextId}
             /\ job' = [job EXCEPT ![nextId] =
                          [key |-> req[w].key, start |-> req[w].start,
                           state |-> Running, ms |-> req[w].ms, dur |-> 0,
                           stats |-> FALSE]]
             /\ nextId' = nextId + 1
    <3>1. req[w] \in StartReq
      BY <1>9 DEF StartInsert, TypeOK
    <3>2. nextId \notin db /\ nextId \in Nat
      BY <2>2 DEF IdsBelowNext, Ids
    <3>3. \A i \in db : job'[i] = job[i]
      BY <2>2, <3>2 DEF TypeOK
    <3>4. job'[nextId].ms # ArchivingSuccessful
      BY <2>2, <3>1 DEF TypeOK, StartReq, StartMonitoring, Disabled,
                        RunningOrArchiving, ArchivingSuccessful
    <3>5. UNCHANGED <<arch, archived>>
      BY <1>9 DEF StartInsert
    <3>6. \A v \in Workers : pc'[v] = "stopWrite" => pc[v] = "stopWrite" /\ req'[v] = req[v]
      BY <1>9 DEF StartInsert, Respond, TypeOK
    <3>7. SuccessMeansArchived'
      BY <2>2, <3>3, <3>4, <3>5 DEF ArchRest, SuccessMeansArchived
    <3>8. PersistArchived'
      BY <3>5 DEF ArchRest, PersistArchived
    <3>9. GoroutinesBelowNext'
      BY <2>2, <3>2, <3>5 DEF ArchRest, GoroutinesBelowNext, TypeOK, Ids
    <3>10. StopSnapshot'
      <4>1. SUFFICES ASSUME NEW v \in Workers, pc'[v] = "stopWrite"
                     PROVE  /\ req'[v].id < nextId'
                            /\ req'[v].ms = ArchivingSuccessful =>
                                 req'[v].id \in archived' /\
                                 (req'[v].id \in db' => job'[req'[v].id].stats)
        BY DEF StopSnapshot
      <4>2. pc[v] = "stopWrite" /\ req'[v] = req[v]
        BY <3>6, <4>1
      <4>3. req[v].id < nextId /\ req[v] \in StopReq
        BY <4>2 DEF ArchRest, StopSnapshot, TypeOK
      <4>4. req[v].id \in Nat
        BY <4>3 DEF StopReq, Ids
      <4>5. req[v].id # nextId /\ req[v].id < nextId'
        BY <2>2, <3>2, <4>3, <4>4
      <4>6. req[v].id \in db' => req[v].id \in db /\ job'[req[v].id] = job[req[v].id]
        BY <2>2, <3>3, <4>5
      <4>7. QED
        BY <4>2, <4>3, <4>5, <4>6, <3>5 DEF ArchRest, StopSnapshot
    <3>11. QED
      BY <3>7, <3>8, <3>9, <3>10 DEF ArchRest
  <2>3. QED
    BY <1>9, <2>1, <2>2 DEF StartInsert
<1>10. ASSUME NEW w \in Workers, StopFind(w) PROVE ArchRest'
  <2>1. PICK found \in Lookups, stop \in Times, st \in StopStates :
          \E i \in found :
            /\ StopChecks(i, stop, st)
            /\ req' = [req EXCEPT ![w] =
                         [id |-> i, dur |-> Int32(stop - job[i].start),
                          state |-> IF st = Unset THEN "completed" ELSE st,
                          ms |-> job[i].ms]]
            /\ pc' = [pc EXCEPT ![w] = "stopWrite"]
    BY <1>10 DEF StopFind
  <2>2. PICK i \in found :
            /\ req' = [req EXCEPT ![w] =
                         [id |-> i, dur |-> Int32(stop - job[i].start),
                          state |-> IF st = Unset THEN "completed" ELSE st,
                          ms |-> job[i].ms]]
            /\ pc' = [pc EXCEPT ![w] = "stopWrite"]
    BY <2>1
  <2>3. i \in db /\ i < nextId
    BY <2>1, LookupsInDb DEF IdsBelowNext
  <2>4. UNCHANGED <<db, job, nextId, arch, archived>>
    BY <1>10 DEF StopFind
  <2>5. req'[w].id = i /\ req'[w].ms = job[i].ms
    BY <2>2 DEF TypeOK
  <2>6. \A v \in Workers \ {w} : pc'[v] = pc[v] /\ req'[v] = req[v]
    BY <2>2 DEF TypeOK
  <2>7. SuccessMeansArchived' /\ PersistArchived' /\ GoroutinesBelowNext'
    BY <2>4 DEF ArchRest, SuccessMeansArchived, PersistArchived, GoroutinesBelowNext
  <2>8. StopSnapshot'
    <3>1. SUFFICES ASSUME NEW v \in Workers, pc'[v] = "stopWrite"
                   PROVE  /\ req'[v].id < nextId'
                          /\ req'[v].ms = ArchivingSuccessful =>
                               req'[v].id \in archived' /\
                               (req'[v].id \in db' => job'[req'[v].id].stats)
      BY DEF StopSnapshot
    <3>2. CASE v = w
      BY <2>3, <2>4, <2>5, <3>2 DEF ArchRest, SuccessMeansArchived
    <3>3. CASE v # w
      <4>1. pc[v] = "stopWrite" /\ req'[v] = req[v]
        BY <2>6, <3>1, <3>3
      <4>2. /\ req[v].id < nextId
            /\ req[v].ms = ArchivingSuccessful =>
                 req[v].id \in archived /\ (req[v].id \in db => job[req[v].id].stats)
        BY <4>1 DEF ArchRest, StopSnapshot
      <4>3. QED
        BY <2>4, <4>1, <4>2
    <3>4. QED
      BY <3>2, <3>3
  <2>9. QED
    BY <2>7, <2>8 DEF ArchRest
<1>11. ASSUME NEW w \in Workers, StopWrite(w) PROVE ArchRest'
  <2> DEFINE r == req[w]
  <2>1. pc[w] = "stopWrite" /\ r \in StopReq /\ r.id \in Ids
    BY <1>11 DEF StopWrite, TypeOK, StopReq
  <2>2. CASE UNCHANGED <<job, arch, ongoing>>
    BY <1>11, <2>1, <2>2, ArchKeptStep DEF StopWrite, Respond, ArchKept, TypeOK
  <2>3. CASE /\ UpdateRow(r.id, LAMBDA row :
                  [row EXCEPT !.dur = r.dur, !.state = r.state, !.ms = r.ms])
             /\ IF r.ms = Disabled
                  THEN UNCHANGED <<arch, ongoing>>
                  ELSE /\ ongoing < MaxOngoing
                       /\ arch' = [arch EXCEPT ![r.id]["fetchMeta"] = @ + 1]
                       /\ ongoing' = ongoing + 1
    <3>1. \A j \in db : /\ job'[j].stats = job[j].stats
                        /\ job'[j].ms = ArchivingSuccessful =>
                             job[j].ms = ArchivingSuccessful \/ (j = r.id /\ r.ms = ArchivingSuccessful)
      BY <2>1, <2>3, StopRow
    <3>2. \A j \in Ids, u \in Active : arch'[j][u] > 0 => arch[j][u] > 0 \/ (j = r.id /\ u = "fetchMeta")
      BY <2>1, <2>3, ArchGrow DEF TypeOK
    <3>3. UNCHANGED <<db, nextId, archived>>
      BY <1>11 DEF StopWrite
    <3>4. \A v \in Workers : pc'[v] = "stopWrite" => v # w /\ pc[v] = "stopWrite" /\ req'[v] = req[v]
      BY <1>11 DEF StopWrite, Respond, TypeOK
    <3>5. /\ r.id < nextId
          /\ r.ms = ArchivingSuccessful =>
               r.id \in archived /\ (r.id \in db => job[r.id].stats)
      BY <2>1 DEF ArchRest, StopSnapshot
    <3>6. SuccessMeansArchived'
      BY <3>1, <3>3, <3>5 DEF ArchRest, SuccessMeansArchived
    <3>7. PersistArchived'
      BY <3>2, <3>3 DEF ArchRest, PersistArchived, Active
    <3>8. GoroutinesBelowNext'
      BY <3>2, <3>3, <3>5 DEF ArchRest, GoroutinesBelowNext
    <3>9. StopSnapshot'
      <4>1. SUFFICES ASSUME NEW v \in Workers, pc'[v] = "stopWrite"
                     PROVE  /\ req'[v].id < nextId'
                            /\ req'[v].ms = ArchivingSuccessful =>
                                 req'[v].id \in archived' /\
                                 (req'[v].id \in db' => job'[req'[v].id].stats)
        BY DEF StopSnapshot
      <4>2. pc[v] = "stopWrite" /\ req'[v] = req[v]
        BY <3>4, <4>1
      <4>3. QED
        BY <3>1, <3>3, <4>2 DEF ArchRest, StopSnapshot
    <3>10. QED
      BY <3>6, <3>7, <3>8, <3>9 DEF ArchRest
  <2>4. QED
    BY <1>11, <2>2, <2>3 DEF StopWrite
<1>12. ASSUME NEW i \in Ids, ArchFetchMeta(i) PROVE ArchRest'
  <2>1. arch[i]["fetchMeta"] > 0 /\ i < nextId
    BY <1>12 DEF ArchFetchMeta, ArchRest, GoroutinesBelowNext, Active
  <2>2. CASE MarkFailed(i) /\ Finish(i, "fetchMeta")
    BY <1>12, <2>2, FailedRow, ArchShrink, GoroutineKept
       DEF ArchFetchMeta, Finish, workerVars, TypeOK, Active
  <2>3. CASE i \in db /\ Advance(i, "fetchMeta", "archiveJob") /\ UNCHANGED <<job, ongoing>>
    <3>1. \A j \in Ids, u \in Active :
            arch'[j][u] > 0 => arch[j][u] > 0 \/ (j = i /\ u = "archiveJob")
      BY <2>1, <2>3, ArchMove DEF Advance, TypeOK, Active
    <3>2. QED
      BY <1>12, <2>1, <2>3, <3>1, GoroutineKept DEF ArchFetchMeta, workerVars
  <2>4. QED
    BY <1>12, <2>2, <2>3 DEF ArchFetchMeta
<1>13. ASSUME NEW i \in Ids, ArchArchiveJob(i) PROVE ArchRest'
  <2>1. arch[i]["archiveJob"] > 0 /\ i < nextId
    BY <1>13 DEF ArchArchiveJob, ArchRest, GoroutinesBelowNext, Active
  <2>2. CASE MarkFailed(i) /\ Finish(i, "archiveJob") /\ UNCHANGED archived
    BY <1>13, <2>2, FailedRow, ArchShrink, GoroutineKept
       DEF ArchArchiveJob, Finish, workerVars, TypeOK, Active
  <2>3. CASE /\ archived' = archived \cup {i}
             /\ Advance(i, "archiveJob", "persist")
             /\ UNCHANGED <<job, ongoing>>
    <3>1. \A j \in Ids, u \in Active :
            arch'[j][u] > 0 => arch[j][u] > 0 \/ (j = i /\ u = "persist")
      <4>1. arch' = [arch EXCEPT ![i]["archiveJob"] = @ - 1, ![i]["persist"] = @ + 1]
        BY <2>3 DEF Advance
      <4>2. "archiveJob" \in Active /\ "persist" \in Active /\ "archiveJob" # "persist"
        BY DEF Active
      <4>3. QED
        BY <2>1, <4>1, <4>2, ArchMove DEF TypeOK
    <3>2. QED
      BY <1>13, <2>1, <2>3, <3>1, GoroutineKept DEF ArchArchiveJob, workerVars
  <2>4. QED
    BY <1>13, <2>2, <2>3 DEF ArchArchiveJob
<1>14. ASSUME NEW i \in Ids, ArchPersist(i) PROVE ArchRest'
  <2>1. arch[i]["persist"] > 0 /\ i \in archived
    BY <1>14 DEF ArchPersist, ArchRest, PersistArchived
  <2>2. \A j \in Ids, u \in Active : arch'[j][u] > 0 => arch[j][u] > 0
    BY <1>14, ArchShrink DEF ArchPersist, Finish, TypeOK, Active
  <2>3. CASE UNCHANGED job
    BY <1>14, <2>2, <2>3, GoroutineKept DEF ArchPersist, workerVars
  <2>4. CASE UpdateRow(i, LAMBDA r : [r EXCEPT !.ms = ArchivingSuccessful, !.stats = TRUE])
    BY <1>14, <2>1, <2>2, <2>4, ArchivedRow, GoroutineKept DEF ArchPersist, workerVars
  <2>5. QED
    BY <1>14, <2>3, <2>4 DEF ArchPersist
<1>20. QED
  BY <1>1, <1>2, <1>3, <1>4, <1>5, <1>6, <1>7, <1>8, <1>9, <1>10,
     <1>11, <1>12, <1>13, <1>14
     DEF Next, Worker, Goroutine


(* Initially no row, no goroutine and no worker is in the Stop write. *)
LEMMA ArchInit == Init => ArchRest
  BY DEF Init, ArchRest, SuccessMeansArchived, PersistArchived,
         GoroutinesBelowNext, StopSnapshot, Active

(* TableGuard is inductive. *)
LEMMA TableGuardStep == TableGuard /\ [Next]_vars => TableGuard'
  BY GuardStep, ArchStep DEF TableGuard, ArchRest

(* The handlers and the archiving goroutine keep TableGuard in every      *)
(* reachable state: the duplicate-window guard of startJob, and the       *)
(* archive files and statistics behind every ArchivingSuccessful row,     *)
(* behind every goroutine in its persist stage and behind every stop      *)
(* snapshot between FindById and Stop.                                     *)
THEOREM TableGuardInvariant == Spec => []TableGuard
<1>1. Init => TableGuard
  BY GuardInit, ArchInit DEF TableGuard, ArchRest
<1>2. QED
  BY <1>1, TableGuardStep, PTL DEF Spec

(* A job row shows ArchivingSuccessful only when the archiving goroutine  *)
(* has written its archive files and the row carries its statistics      *)
(* (lines 727-751), for every number of workers, jobs and goroutines: a  *)
(* stop whose snapshot read ArchivingSuccessful writes it back only for a *)
(* job that was archived.                                                  *)
THEOREM SuccessArchived == Spec => []SuccessMeansArchived
  BY TableGuardInvariant, PTL DEF TableGuard


-----------------------------------------------------------------------------
(* The refinement: every step of the handlers and goroutines is a step of *)
(* the atomic job table, or leaves the table, the ids and the archive as  *)
(* they are.                                                               *)

(* The initial (empty) table is JobTable's. *)
LEMMA TableInit == Init => Table!Init
  BY DEF Init, Table!Init

(* A step that keeps or removes rows and leaves the survivors, the ids    *)
(* and the archive alone is a Remove (a stutter included).                *)
LEMMA RemoveRefines ==
  ASSUME db' \subseteq db, \A i \in db' : job'[i] = job[i],
         nextId' = nextId, archived' = archived
  PROVE  Table!Remove
  BY DEF Table!Remove

(* An UPDATE of row i that keeps its key and start time, and keeps its    *)
(* statistics unless it sets them together with ArchivingSuccessful, is   *)
(* an Update of JobTable, or nothing when the row is gone.  The           *)
(* condition on ArchivingSuccessful comes from SuccessMeansArchived in    *)
(* the state after the step.                                               *)
LEMMA UpdateRefines ==
  ASSUME TypeOK, TypeOK', SuccessMeansArchived', NEW i \in Ids, NEW row,
         job' = IF i \in db THEN [job EXCEPT ![i] = row] ELSE job,
         db' = db, nextId' = nextId, archived' = archived,
         i \in db => /\ row.key = job[i].key /\ row.start = job[i].start
                     /\ row.stats = job[i].stats \/ (row.stats /\ row.ms = ArchivingSuccessful)
  PROVE  Table!Remove \/ \E k \in db : Table!Update(k)
<1>1. CASE i \in db
  <2>1. job'[i] = row /\ \A k \in db \ {i} : job'[k] = job[k]
    BY <1>1 DEF TypeOK
  <2>2. row \in JobRec
    BY <1>1, <2>1 DEF TypeOK
  <2>3. row.ms = ArchivingSuccessful => i \in archived /\ row.stats
    BY <1>1, <2>1 DEF SuccessMeansArchived
  <2>4. Table!Update(i)
    BY <1>1, <2>1, <2>2, <2>3 DEF Table!Update, Table!Row, JobRec
  <2>5. QED
    BY <1>1, <2>4
<1>2. CASE i \notin db
  BY <1>2, RemoveRefines
<1>3. QED
  BY <1>1, <1>2

(* A successful JobRepository.Start (line 414) after the duplicate check  *)
(* is an Insert: the window was checked against every row of the key      *)
(* (CheckedWindow), and the new id is above every present one.            *)
LEMMA InsertRefines ==
  ASSUME TypeOK, CheckedWindow, IdsBelowNext, NEW w \in Workers, pc[w] = "startInsert",
         nextId \in Ids, db' = db \cup {nextId},
         job' = [job EXCEPT ![nextId] =
                   [key |-> req[w].key, start |-> req[w].start,
                    state |-> Running, ms |-> req[w].ms, dur |-> 0, stats |-> FALSE]],
         nextId' = nextId + 1, archived' = archived
  PROVE  Table!Insert
<1> DEFINE r == [key |-> req[w].key, start |-> req[w].start,
                 state |-> Running, ms |-> req[w].ms, dur |-> 0, stats |-> FALSE]
<1>1. req[w] \in StartReq
  BY DEF TypeOK
<1>2. r \in JobRec /\ r.state = Running /\ r.stats = FALSE
  BY <1>1 DEF StartReq, StartMonitoring, MonitoringStatuses, JobRec, JobStates
<1>3. nextId \notin db /\ job'[nextId] = r /\ \A i \in db : job'[i] = job[i]
  BY DEF IdsBelowNext, TypeOK, Ids
<1>4. \A i \in db : job[i].key = r.key => r.start - job[i].start >= Window
  BY DEF CheckedWindow, FindAll
<1>5. QED
  BY <1>2, <1>3, <1>4 DEF Table!Insert, Table!Row, JobRec, Table!Ids, Ids

(* ArchiveJob writing the files of job i (line 736) is a WriteArchive:    *)
(* a goroutine exists only for an id below nextId.                         *)
LEMMA WriteArchiveRefines ==
  ASSUME GoroutinesBelowNext, TypeOK, NEW i \in Ids, arch[i]["archiveJob"] > 0,
         archived' = archived \cup {i}, db' = db, job' = job, nextId' = nextId
  PROVE  Table!WriteArchive(i)
<1>1. i < nextId
  BY DEF GoroutinesBelowNext, Active
<1>2. QED
  BY <1>1 DEF Table!WriteArchive, Ids, TypeOK

(* Every step of JobLifecycle is a step of JobTable under the mapping, or *)
(* a stutter of it: one step per action, and under each one per branch   *)
(* of the handler or goroutine.                                            *)
LEMMA TableStep ==
  TableGuard /\ [Next]_vars => [Table!Next]_<<[i \in db |-> job[i]], nextId, archived>>
<1> SUFFICES ASSUME TableGuard, [Next]_vars PROVE Table!Next
  OBVIOUS
<1> SUFFICES \/ Table!Remove
             \/ Table!Insert
             \/ \E k \in db : Table!Update(k)
             \/ \E i \in Ids : Table!WriteArchive(i)
  BY DEF Table!Next, Table!Ids, Ids
<1>a. TableGuard'
  BY TableGuardStep
<1>0. /\ TypeOK /\ TypeOK' /\ SuccessMeansArchived' /\ CheckedWindow /\ IdsBelowNext
      /\ GoroutinesBelowNext
  BY <1>a DEF TableGuard, DuplicateGuard
<1>1. ASSUME NEW w \in Workers,
             ReceiveStart(w) \/ StartLock(w) \/ StartCheck(w) \/ StopFind(w) \/ DeleteFind(w)
      PROVE  Table!Remove
  BY <1>1, RemoveRefines DEF ReceiveStart, StartLock, StartCheck, StopFind, DeleteFind
<1>2. ASSUME NEW w \in Workers, DeleteById(w) \/ DeleteRow(w) \/ DeleteBefore(w)
      PROVE  Table!Remove
  BY <1>0, <1>2, RemoveRefines DEF DeleteById, DeleteRow, DeleteBefore, Delete, TypeOK
<1>3. CASE UNCHANGED vars
  BY <1>3, RemoveRefines DEF vars
<1>4. ASSUME NEW w \in Workers, StartInsert(w) PROVE Table!Remove \/ Table!Insert
  <2>1. CASE UNCHANGED <<db, job, nextId>>
    BY <1>4, <2>1, RemoveRefines DEF StartInsert
  <2>2. CASE /\ nextId \in Ids
             /\ db' = db \cup {nextId}
             /\ job' = [job EXCEPT ![nextId] =
                          [key |-> req[w].key, start |-> req[w].start,
                           state |-> Running, ms |-> req[w].ms, dur |-> 0,
                           stats |-> FALSE]]
             /\ nextId' = nextId + 1
    BY <1>0, <1>4, <2>2, InsertRefines DEF StartInsert
  <2>3. QED
    BY <1>4, <2>1, <2>2 DEF StartInsert
<1>5. ASSUME NEW w \in Workers, StopWrite(w)
      PROVE  Table!Remove \/ \E k \in db : Table!Update(k)
  <2> DEFINE r == req[w]
             row == [job[r.id] EXCEPT !.dur = r.dur, !.state = r.state, !.ms = r.ms]
  <2>1. r \in StopReq /\ r.id \in Ids
    BY <1>0, <1>5 DEF StopWrite, TypeOK, StopReq
  <2>2. CASE UNCHANGED <<job, arch, ongoing>>
    BY <1>5, <2>2, RemoveRefines DEF StopWrite
  <2>3. CASE UpdateRow(r.id, LAMBDA x :
               [x EXCEPT !.dur = r.dur, !.state = r.state, !.ms = r.ms])
    <3>1. job' = IF r.id \in db THEN [job EXCEPT ![r.id] = row] ELSE job
      BY <2>3 DEF UpdateRow
    <3>2. r.id \in db => /\ row.key = job[r.id].key /\ row.start = job[r.id].start
                         /\ row.stats = job[r.id].stats
      BY <1>0, <2>1, UpdateKeepsKey, RowFields DEF TypeOK
    <3>3. QED
      BY <1>0, <1>5, <2>1, <3>1, <3>2, UpdateRefines DEF StopWrite
  <2>4. QED
    BY <1>5, <2>2, <2>3 DEF StopWrite
<1>6. ASSUME NEW i \in Ids, MarkFailed(i), db' = db, nextId' = nextId, archived' = archived
      PROVE  Table!Remove \/ \E k \in db : Table!Update(k)
  <2> DEFINE row == [job[i] EXCEPT !.ms = ArchivingFailed]
  <2>1. job' = IF i \in db THEN [job EXCEPT ![i] = row] ELSE job
    BY <1>6 DEF MarkFailed, UpdateRow
  <2>2. i \in db => /\ row.key = job[i].key /\ row.start = job[i].start
                    /\ row.stats = job[i].stats
    BY <1>0, UpdateKeepsKey, RowFields DEF TypeOK
  <2>3. QED
    BY <1>0, <1>6, <2>1, <2>2, UpdateRefines
<1>7. ASSUME NEW i \in Ids, ArchFetchMeta(i) PROVE Table!Remove \/ \E k \in db : Table!Update(k)
  BY <1>7, <1>6, RemoveRefines DEF ArchFetchMeta, Finish, Advance
<1>8. ASSUME NEW i \in Ids, ArchArchiveJob(i)
      PROVE  \/ Table!Remove \/ \E k \in db : Table!Update(k)
             \/ Table!WriteArchive(i)
  BY <1>0, <1>8, <1>6, WriteArchiveRefines DEF ArchArchiveJob, Finish, Advance
<1>9. ASSUME NEW i \in Ids, ArchPersist(i) PROVE Table!Remove \/ \E k \in db : Table!Update(k)
  <2> DEFINE row == [job[i] EXCEPT !.ms = ArchivingSuccessful, !.stats = TRUE]
  <2>1. CASE UNCHANGED job
    BY <1>9, <2>1, RemoveRefines DEF ArchPersist
  <2>2. CASE UpdateRow(i, LAMBDA r : [r EXCEPT !.ms = ArchivingSuccessful, !.stats = TRUE])
    <3>1. job' = IF i \in db THEN [job EXCEPT ![i] = row] ELSE job
      BY <2>2 DEF UpdateRow
    <3>2. i \in db => /\ row.key = job[i].key /\ row.start = job[i].start
                      /\ row.stats /\ row.ms = ArchivingSuccessful
      BY <1>0, UpdateKeepsKey, RowFields DEF TypeOK
    <3>3. QED
      BY <1>0, <1>9, <3>1, <3>2, UpdateRefines DEF ArchPersist
  <2>3. QED
    BY <1>9, <2>1, <2>2 DEF ArchPersist
<1>10. QED
  BY <1>1, <1>2, <1>3, <1>4, <1>5, <1>7, <1>8, <1>9 DEF Next, Worker, Goroutine

(* The REST handlers and the archiving goroutines of cc-backend, with     *)
(* their locks, snapshots and retries interleaved, implement the atomic   *)
(* job table of JobTable for every number of workers, ids, keys and times *)
(* and every window: the table starts empty, and every step inserts a     *)
(* row that passes the duplicate window, updates a row without touching   *)
(* its key or start and writes ArchivingSuccessful only for an archived   *)
(* job with statistics, removes rows, or adds archive files of an         *)
(* inserted job.                                                           *)
THEOREM Refinement == Spec => TableSpec
<1>1. Init => Table!Init
  BY TableInit
<1>2. TableGuard /\ [Next]_vars => [Table!Next]_<<[i \in db |-> job[i]], nextId, archived>>
  BY TableStep
<1>3. QED
  BY <1>1, <1>2, TableGuardInvariant, PTL DEF Spec, TableSpec, TableSteps

(* The action property that MC_TableRefinement checks: every step of the *)
(* handlers and goroutines is a JobTable step or a stutter of it.         *)
THEOREM TableStepsHold == Spec => TableSteps
  BY Refinement DEF TableSpec

=============================================================================
