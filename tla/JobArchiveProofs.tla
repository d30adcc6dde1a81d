-------------------------- MODULE JobArchiveProofs --------------------------
(***************************************************************************)
(* Proofs about the archiving goroutine's dispatch in checkAndHandleStop-  *)
(* Job (lines 687-752) for every value of the constants: a job started    *)
(* with monitoring disabled is never archived and no goroutine ever runs  *)
(* for it.                                                                 *)
(***************************************************************************)
EXTENDS JobTableProofs

(* The clauses of DisabledGuard besides TableGuard. *)
DisabledRest == DisabledNeverArchived /\ ArchivedBelowNext /\ StopKeepsDisabled

(* A step that changes no goroutine, archive file, id, surviving row or  *)
(* pending Stop preserves them.                                           *)
LEMMA DisabledKeptStep ==
  ASSUME TypeOK, DisabledRest, ArchKept
  PROVE  DisabledRest'
<1>1. DisabledNeverArchived'
  BY DEF DisabledRest, ArchKept, DisabledNeverArchived
<1>2. ArchivedBelowNext'
  BY DEF DisabledRest, ArchKept, ArchivedBelowNext
<1>3. StopKeepsDisabled'
  BY DEF DisabledRest, ArchKept, StopKeepsDisabled
<1>4. QED
  BY <1>1, <1>2, <1>3 DEF DisabledRest

(* A goroutine step for job i: it changes goroutine counts of job i only, *)
(* may add job i to the archive, and changes no row's being Disabled.     *)
(* Job i is not Disabled, since it has a goroutine.                        *)
LEMMA GoroutineDisabled ==
  ASSUME TypeOK, DisabledRest, NEW i \in Ids, i < nextId,
         db' = db, nextId' = nextId, pc' = pc, req' = req,
         archived' \subseteq archived \cup {i},
         \A j \in db : job'[j].ms = Disabled <=> job[j].ms = Disabled,
         i \in db => job[i].ms # Disabled,
         \A j \in Ids \ {i}, u \in Active : arch'[j][u] = arch[j][u]
  PROVE  DisabledRest'
<1>1. DisabledNeverArchived'
  <2>1. SUFFICES ASSUME NEW j \in db', job'[j].ms = Disabled
                 PROVE  j \notin archived' /\ \A u \in Active : arch'[j][u] = 0
    BY DEF DisabledNeverArchived
  <2>2. j \in db /\ j \in Ids /\ job[j].ms = Disabled
    BY <2>1 DEF TypeOK
  <2>3. j # i
    BY <2>2
  <2>4. j \notin archived /\ \A u \in Active : arch[j][u] = 0
    BY <2>2 DEF DisabledRest, DisabledNeverArchived
  <2>5. QED
    BY <2>2, <2>3, <2>4
<1>2. ArchivedBelowNext'
  BY DEF DisabledRest, ArchivedBelowNext
<1>3. StopKeepsDisabled'
  BY DEF DisabledRest, StopKeepsDisabled
<1>4. QED
  BY <1>1, <1>2, <1>3 DEF DisabledRest

(* A job with a goroutine is not Disabled. *)
LEMMA BusyNotDisabled ==
  ASSUME DisabledRest, NEW i \in Ids, NEW s \in Active, arch[i][s] > 0
  PROVE  i \in db => job[i].ms # Disabled
  BY DEF DisabledRest, DisabledNeverArchived

(* An UPDATE of row i that writes a status m other than Disabled to a row *)
(* that was not Disabled changes no row's being Disabled.                  *)
LEMMA UpdateNotDisabled ==
  ASSUME TypeOK, NEW i \in Ids, NEW row, row.ms # Disabled,
         job' = IF i \in db THEN [job EXCEPT ![i] = row] ELSE job,
         i \in db => job[i].ms # Disabled
  PROVE  \A j \in db : job'[j].ms = Disabled <=> job[j].ms = Disabled
  BY UpdateRowOthers

(* The status values the goroutine writes are not Disabled. *)
LEMMA StatusesDistinct ==
  /\ ArchivingFailed # Disabled
  /\ ArchivingSuccessful # Disabled
  BY DEF ArchivingFailed, ArchivingSuccessful, Disabled

(* Every step preserves the clauses of DisabledRest: one step per action. *)
LEMMA DisabledStep == TableGuard /\ DisabledRest /\ [Next]_vars => DisabledRest'
<1> SUFFICES ASSUME TypeOK, IdsBelowNext, GoroutinesBelowNext, StopSnapshot,
                    DisabledRest, [Next]_vars
             PROVE  DisabledRest'
  BY DEF TableGuard, DuplicateGuard
<1>1. ASSUME NEW w \in Workers, ReceiveStart(w) PROVE DisabledRest'
  BY <1>1, DisabledKeptStep DEF ReceiveStart, ArchKept, TypeOK
<1>2. ASSUME NEW w \in Workers, StartLock(w) PROVE DisabledRest'
  BY <1>2, DisabledKeptStep DEF StartLock, ArchKept, TypeOK
<1>3. ASSUME NEW w \in Workers, StartCheck(w) PROVE DisabledRest'
  BY <1>3, DisabledKeptStep DEF StartCheck, Respond, Unlock, ArchKept, TypeOK
<1>4. ASSUME NEW w \in Workers, DeleteFind(w) PROVE DisabledRest'
  BY <1>4, DisabledKeptStep DEF DeleteFind, ArchKept, TypeOK
<1>5. ASSUME NEW w \in Workers, DeleteById(w) PROVE DisabledRest'
  BY <1>5, DisabledKeptStep DEF DeleteById, Delete, ArchKept, workerVars, TypeOK
<1>6. ASSUME NEW w \in Workers, DeleteRow(w) PROVE DisabledRest'
  BY <1>6, DisabledKeptStep DEF DeleteRow, Delete, Respond, ArchKept, TypeOK
<1>7. ASSUME NEW w \in Workers, DeleteBefore(w) PROVE DisabledRest'
  BY <1>7, DisabledKeptStep DEF DeleteBefore, Delete, ArchKept, workerVars, TypeOK
<1>8. CASE UNCHANGED vars
  BY <1>8, DisabledKeptStep DEF vars, ArchKept
<1>9. ASSUME NEW w \in Workers, StartInsert(w) PROVE DisabledRest'
  <2>1. CASE UNCHANGED <<db, job, nextId>>
    BY <1>9, <2>1, DisabledKeptStep DEF StartInsert, Respond, Unlock, ArchKept, TypeOK
  <2>2. CASE /\ nextId \in Ids
             /\ db' = db \cup {nextId}
             /\ job' = [job EXCEPT ![nextId] =
                          [key |-> req[w].key, start |-> req[w].start,
                           state |-> Running, ms |-> req[w].ms, dur |-> 0,
                           stats |-> FALSE]]
             /\ nextId' = nextId + 1
    <3>1. nextId \notin db /\ nextId \in Nat
      BY <2>2 DEF IdsBelowNext, Ids
    <3>2. \A i \in db : job'[i] = job[i]
      BY <2>2, <3>1 DEF TypeOK
    <3>3. UNCHANGED <<arch, archived>>
      BY <1>9 DEF StartInsert
    <3>4. \A v \in Workers : pc'[v] = "stopWrite" => pc[v] = "stopWrite" /\ req'[v] = req[v]
      BY <1>9 DEF StartInsert, Respond, TypeOK
    <3>5. nextId \notin archived /\ \A s \in Active : arch[nextId][s] = 0
      BY <2>2, <3>1 DEF DisabledRest, ArchivedBelowNext, GoroutinesBelowNext, TypeOK
    <3>6. DisabledNeverArchived'
      BY <2>2, <3>2, <3>3, <3>5 DEF DisabledRest, DisabledNeverArchived
    <3>7. ArchivedBelowNext'
      BY <2>2, <3>3 DEF DisabledRest, ArchivedBelowNext, TypeOK, Ids
    <3>8. StopKeepsDisabled'
      <4>1. SUFFICES ASSUME NEW v \in Workers, pc'[v] = "stopWrite", req'[v].id \in db'
                     PROVE  req'[v].ms = Disabled <=> job'[req'[v].id].ms = Disabled
        BY DEF StopKeepsDisabled
      <4>2. pc[v] = "stopWrite" /\ req'[v] = req[v]
        BY <3>4, <4>1
      <4>3. req[v].id < nextId /\ req[v].id \in Nat
        BY <4>2 DEF StopSnapshot, TypeOK, StopReq, Ids
      <4>4. req[v].id \in db
        BY <2>2, <4>1, <4>2, <4>3
      <4>5. QED
        BY <3>2, <4>2, <4>4 DEF DisabledRest, StopKeepsDisabled
    <3>9. QED
      BY <3>6, <3>7, <3>8 DEF DisabledRest
  <2>3. QED
    BY <1>9, <2>1, <2>2 DEF StartInsert
<1>10. ASSUME NEW w \in Workers, StopFind(w) PROVE DisabledRest'
  <2>1. PICK found \in Lookups, stop \in Times, st \in StopStates :
          \E i \in found :
            /\ StopChecks(i, stop, st)
            /\ req' = [req EXCEPT ![w] =
                         [id |-> i, dur |-> Int32(stop - job[i].start),
                          state |-> IF st = Unset THEN "completed" ELSE st,
                          ms |-> job[i].ms]]
            /\ pc' = [pc EXCEPT ![w] = "stopWrite"]
    BY <1>10 DEF StopFind
  <2>2. PICK i \in found :
            /\ req' = [req EXCEPT ![w] =
                         [id |-> i, dur |-> Int32(stop - job[i].start),
                          state |-> IF st = Unset THEN "completed" ELSE st,
                          ms |-> job[i].ms]]
            /\ pc' = [pc EXCEPT ![w] = "stopWrite"]
    BY <2>1
  <2>3. UNCHANGED <<db, job, nextId, arch, archived>>
    BY <1>10 DEF StopFind
  <2>4. req'[w].id = i /\ req'[w].ms = job[i].ms
    BY <2>2 DEF TypeOK
  <2>5. \A v \in Workers \ {w} : pc'[v] = pc[v] /\ req'[v] = req[v]
    BY <2>2 DEF TypeOK
  <2>6. DisabledNeverArchived' /\ ArchivedBelowNext'
    BY <2>3 DEF DisabledRest, DisabledNeverArchived, ArchivedBelowNext
  <2>7. StopKeepsDisabled'
    BY <2>3, <2>4, <2>5 DEF DisabledRest, StopKeepsDisabled
  <2>8. QED
    BY <2>6, <2>7 DEF DisabledRest
<1>11. ASSUME NEW w \in Workers, StopWrite(w) PROVE DisabledRest'
  <2> DEFINE r == req[w]
  <2>1. pc[w] = "stopWrite" /\ r \in StopReq /\ r.id \in Ids
    BY <1>11 DEF StopWrite, TypeOK, StopReq
  <2>2. CASE UNCHANGED <<job, arch, ongoing>>
    BY <1>11, <2>1, <2>2, DisabledKeptStep DEF StopWrite, Respond, ArchKept, TypeOK
  <2>3. CASE /\ UpdateRow(r.id, LAMBDA row :
                  [row EXCEPT !.dur = r.dur, !.state = r.state, !.ms = r.ms])
             /\ IF r.ms = Disabled
                  THEN UNCHANGED <<arch, ongoing>>
                  ELSE /\ ongoing < MaxOngoing
                       /\ arch' = [arch EXCEPT ![r.id]["fetchMeta"] = @ + 1]
                       /\ ongoing' = ongoing + 1
    <3>1. r.id \in db => (r.ms = Disabled <=> job[r.id].ms = Disabled)
      BY <2>1 DEF DisabledRest, StopKeepsDisabled
    <3>2. \A j \in db : job'[j].ms = IF j = r.id THEN r.ms ELSE job[j].ms
      <4>1. job' = IF r.id \in db
                     THEN [job EXCEPT ![r.id] =
                             [job[r.id] EXCEPT !.dur = r.dur, !.state = r.state, !.ms = r.ms]]
                     ELSE job
        BY <2>3 DEF UpdateRow
      <4>2. r.id \in db => job[r.id] \in JobRec
        BY <2>1 DEF TypeOK
      <4>3. QED
        BY <2>1, <4>1, <4>2, RowFields, UpdateRowOthers
    <3>3. \A j \in db : job'[j].ms = Disabled <=> job[j].ms = Disabled
      BY <3>1, <3>2
    <3>4. \A j \in Ids, u \in Active : arch'[j][u] # arch[j][u] => j = r.id /\ r.ms # Disabled
      BY <2>1, <2>3 DEF TypeOK
    <3>5. UNCHANGED <<db, nextId, archived>>
      BY <1>11 DEF StopWrite
    <3>6. \A v \in Workers : pc'[v] = "stopWrite" => v # w /\ pc[v] = "stopWrite" /\ req'[v] = req[v]
      BY <1>11 DEF StopWrite, Respond, TypeOK
    <3>7. DisabledNeverArchived'
      <4>1. SUFFICES ASSUME NEW j \in db', job'[j].ms = Disabled
                     PROVE  j \notin archived' /\ \A u \in Active : arch'[j][u] = 0
        BY DEF DisabledNeverArchived
      <4>2. j \in db /\ j \in Ids /\ job[j].ms = Disabled
        BY <3>3, <3>5, <4>1 DEF TypeOK
      <4>3. j = r.id => r.ms = Disabled
        BY <3>2, <4>1, <4>2
      <4>4. \A u \in Active : arch'[j][u] = arch[j][u]
        BY <3>4, <4>2, <4>3
      <4>5. QED
        BY <3>5, <4>2, <4>4 DEF DisabledRest, DisabledNeverArchived
    <3>8. ArchivedBelowNext'
      BY <3>5 DEF DisabledRest, ArchivedBelowNext
    <3>9. StopKeepsDisabled'
      BY <3>3, <3>5, <3>6 DEF DisabledRest, StopKeepsDisabled
    <3>10. QED
      BY <3>7, <3>8, <3>9 DEF DisabledRest
  <2>4. QED
    BY <1>11, <2>2, <2>3 DEF StopWrite
<1>12. ASSUME NEW i \in Ids, ArchFetchMeta(i) PROVE DisabledRest'
  <2>1. arch[i]["fetchMeta"] > 0 /\ i < nextId
    BY <1>12 DEF ArchFetchMeta, GoroutinesBelowNext, Active
  <2>2. i \in db => job[i].ms # Disabled
    BY <2>1, BusyNotDisabled DEF Active
  <2>3. CASE MarkFailed(i) /\ Finish(i, "fetchMeta")
    <3>1. \A j \in db : job'[j].ms = Disabled <=> job[j].ms = Disabled
      <4>1. i \in db => job[i] \in JobRec
        BY DEF TypeOK
      <4>2. i \in db => [job[i] EXCEPT !.ms = ArchivingFailed].ms # Disabled
        BY <4>1, RowFields, StatusesDistinct
      <4>3. QED
        BY <2>2, <2>3, <4>2, UpdateNotDisabled DEF MarkFailed, UpdateRow
    <3>2. \A j \in Ids \ {i}, u \in Active : arch'[j][u] = arch[j][u]
      <4>1. arch' = [arch EXCEPT ![i]["fetchMeta"] = @ - 1]
        BY <2>3 DEF Finish
      <4>2. arch \in [Ids -> [Active -> Nat]]
        BY DEF TypeOK
      <4>3. QED
        BY <4>1, <4>2
    <3>3. QED
      BY <1>12, <2>1, <2>2, <3>1, <3>2, GoroutineDisabled DEF ArchFetchMeta, workerVars
  <2>4. CASE i \in db /\ Advance(i, "fetchMeta", "archiveJob") /\ UNCHANGED <<job, ongoing>>
    <3>1. \A j \in Ids \ {i}, u \in Active : arch'[j][u] = arch[j][u]
      <4>1. arch' = [arch EXCEPT ![i]["fetchMeta"] = @ - 1, ![i]["archiveJob"] = @ + 1]
        BY <2>4 DEF Advance
      <4>2. "fetchMeta" \in Active /\ "archiveJob" \in Active
        BY DEF Active
      <4>3. arch \in [Ids -> [Active -> Nat]]
        BY DEF TypeOK
      <4>4. QED
        BY <4>1, <4>2, <4>3
    <3>2. QED
      BY <1>12, <2>1, <2>2, <2>4, <3>1, GoroutineDisabled DEF ArchFetchMeta, workerVars
  <2>5. QED
    BY <1>12, <2>3, <2>4 DEF ArchFetchMeta
<1>13. ASSUME NEW i \in Ids, ArchArchiveJob(i) PROVE DisabledRest'
  <2>1. arch[i]["archiveJob"] > 0 /\ i < nextId
    BY <1>13 DEF ArchArchiveJob, GoroutinesBelowNext, Active
  <2>2. i \in db => job[i].ms # Disabled
    BY <2>1, BusyNotDisabled DEF Active
  <2>3. CASE MarkFailed(i) /\ Finish(i, "archiveJob") /\ UNCHANGED archived
    <3>1. \A j \in db : job'[j].ms = Disabled <=> job[j].ms = Disabled
      <4>1. i \in db => job[i] \in JobRec
        BY DEF TypeOK
      <4>2. i \in db => [job[i] EXCEPT !.ms = ArchivingFailed].ms # Disabled
        BY <4>1, RowFields, StatusesDistinct
      <4>3. QED
        BY <2>2, <2>3, <4>2, UpdateNotDisabled DEF MarkFailed, UpdateRow
    <3>2. \A j \in Ids \ {i}, u \in Active : arch'[j][u] = arch[j][u]
      <4>1. arch' = [arch EXCEPT ![i]["archiveJob"] = @ - 1]
        BY <2>3 DEF Finish
      <4>2. arch \in [Ids -> [Active -> Nat]]
        BY DEF TypeOK
      <4>3. QED
        BY <4>1, <4>2
    <3>3. QED
      BY <1>13, <2>1, <2>2, <2>3, <3>1, <3>2, GoroutineDisabled DEF ArchArchiveJob, workerVars
  <2>4. CASE /\ archived' = archived \cup {i}
             /\ Advance(i, "archiveJob", "persist")
             /\ UNCHANGED <<job, ongoing>>
    <3>1. \A j \in Ids \ {i}, u \in Active : arch'[j][u] = arch[j][u]
      <4>1. arch' = [arch EXCEPT ![i]["archiveJob"] = @ - 1, ![i]["persist"] = @ + 1]
        BY <2>4 DEF Advance
      <4>2. "archiveJob" \in Active /\ "persist" \in Active
        BY DEF Active
      <4>3. arch \in [Ids -> [Active -> Nat]]
        BY DEF TypeOK
      <4>4. QED
        BY <4>1, <4>2, <4>3
    <3>2. QED
      BY <1>13, <2>1, <2>2, <2>4, <3>1, GoroutineDisabled DEF ArchArchiveJob, workerVars
  <2>5. QED
    BY <1>13, <2>3, <2>4 DEF ArchArchiveJob
<1>14. ASSUME NEW i \in Ids, ArchPersist(i) PROVE DisabledRest'
  <2>1. arch[i]["persist"] > 0 /\ i < nextId
    BY <1>14 DEF ArchPersist, GoroutinesBelowNext, Active
  <2>2. i \in db => job[i].ms # Disabled
    BY <2>1, BusyNotDisabled DEF Active
  <2>3. \A j \in Ids \ {i}, u \in Active : arch'[j][u] = arch[j][u]
    <3>1. arch' = [arch EXCEPT ![i]["persist"] = @ - 1]
      BY <1>14 DEF ArchPersist, Finish
    <3>2. arch \in [Ids -> [Active -> Nat]]
      BY DEF TypeOK
    <3>3. QED
      BY <3>1, <3>2
  <2>4. CASE UNCHANGED job
    BY <1>14, <2>1, <2>2, <2>3, <2>4, GoroutineDisabled DEF ArchPersist, workerVars
  <2>5. CASE UpdateRow(i, LAMBDA r : [r EXCEPT !.ms = ArchivingSuccessful, !.stats = TRUE])
    <3>1. \A j \in db : job'[j].ms = Disabled <=> job[j].ms = Disabled
      <4>1. i \in db => job[i] \in JobRec
        BY DEF TypeOK
      <4>2. i \in db => [job[i] EXCEPT !.ms = ArchivingSuccessful, !.stats = TRUE].ms # Disabled
        BY <4>1, RowFields, StatusesDistinct
      <4>3. QED
        BY <2>2, <2>5, <4>2, UpdateNotDisabled DEF UpdateRow
    <3>2. QED
      BY <1>14, <2>1, <2>2, <2>3, <3>1, GoroutineDisabled DEF ArchPersist, workerVars
  <2>6. QED
    BY <1>14, <2>4, <2>5 DEF ArchPersist
<1>20. QED
  BY <1>1, <1>2, <1>3, <1>4, <1>5, <1>6, <1>7, <1>8, <1>9, <1>10,
     <1>11, <1>12, <1>13, <1>14
     DEF Next, Worker, Goroutine

(* Initially no row, no archive file and no pending Stop. *)
LEMMA DisabledInit == Init => DisabledRest
  BY DEF Init, DisabledRest, DisabledNeverArchived, ArchivedBelowNext, StopKeepsDisabled

(* DisabledGuard holds in every reachable state: besides TableGuard,      *)
(* archive files only for ids handed out, and every Stop between FindById *)
(* and Stop carrying a status that is Disabled exactly when its row's is. *)
THEOREM DisabledGuardInvariant == Spec => []DisabledGuard
<1>1. Init => DisabledGuard
  BY GuardInit, ArchInit, DisabledInit DEF DisabledGuard, TableGuard, ArchRest, DisabledRest
<1>2. DisabledGuard /\ [Next]_vars => DisabledGuard'
  BY TableGuardStep, DisabledStep DEF DisabledGuard, DisabledRest
<1>3. QED
  BY <1>1, <1>2, PTL DEF Spec

(* A job started with monitoring disabled is never archived and no        *)
(* archiving goroutine runs for it (line 720), for every number of        *)
(* workers, jobs and goroutines, although a Stop writes back the status   *)
(* it read before a concurrent Stop or goroutine ran.                      *)
THEOREM DisabledNotArchived == Spec => []DisabledNeverArchived
  BY DisabledGuardInvariant, PTL DEF DisabledGuard

====
