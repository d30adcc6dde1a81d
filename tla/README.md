# TLA+ models of the cc-backend job lifecycle

This directory holds TLA+ models of cc-backend's REST job-control API. They cover
starting, stopping, archiving, deleting and tagging jobs. It also holds TLC
configurations that check the models on small instances, an abstract
specification of the job table that the handlers are shown to implement, and
TLAPS proofs, for every value of the constants, of the start-path invariant,
of the archiving invariants, of the goroutine count and of the refinement.

## 1. The system and its parts (inventory)

| Part | Source | What it does | Modelled |
|---|---|---|---|
| Start with duplicate check | `src/unnamed/part_000` 369-430 (`startJob`) | Decodes the request and takes `RepositoryMutex`. It rejects a start whose natural key (jobId, cluster) has a row within 86400 s, inserts the row, releases the mutex and adds the tags. | `JobLifecycle`, `JobTags` (the tag loop) |
| Stop and archiving | 450-532 (`stopJobById`, `stopJobByRequest`), 687-752 (`checkAndHandleStopJob`) | Looks the job up and checks it. Calls `Stop` with the monitoring status read earlier, then `OngoingArchivings.Add(1)`. A goroutine then runs FetchMetadata, ArchiveJob and Archive, and any failure leads to `ArchivingFailed`. | `JobLifecycle`, `JobTags` (seen from the tags' side) |
| Deletion | 549-579, 597-636, 653-685 | Deletes a job by id, by natural key, or every job before a time. | `JobLifecycle` |
| Tags | `src/internal/repository/tags.go`, `tagJob` 304-351 | `AddTagOrCreate` = `TagId`, then `CreateTag` if absent, then `AddTag`. `AddTag` and `RemoveTag` change `jobtag`, re-read the job and its tags, and call `archive.UpdateTags`. `CountTags` counts associations per tag name. | `JobTags`, `TagStore` (its abstraction), `TagQueries` (`CountTags`) |
| Job store (SQL) | `internal/repository/job.go`, not under src/ | `FindById`, `Find`, `FindAll`, `Start`, `Stop`, `UpdateMonitoringStatus`, `Archive`, the deletes | modelled from spec.md, one atomic step per statement |
| Metric archiver | `metricdata`, `archive`, not under src/ | Writes meta.json and data.json. | its outcome only |
| Queries | 173-302, 777-817 | `getJobs`, `getJobMetrics`: read only | no |
| Users, JWT, config | 819-943 | single calls into the auth collaborator | no |
| Machine state | 945-987 | file I/O | no |
| Frontend, config types, schemas, GraphQL schema, RPM spec | part_001, part_002, `*.json`, `*.graphqls`, `*.spec` | no behaviour to check | no |

How the parts interact:
- The start, stop and delete handlers run concurrently, one goroutine per HTTP request.
- Only `startJob` takes `RepositoryMutex`, and only from its lookup to its insert.
- A stop hands the job to an archiving goroutine, counted in the `OngoingArchivings` WaitGroup. That goroutine writes to the job row while later requests, whether stops, deletes or tag requests, act on the same row.
- `AddTag` copies the job's tags into the archive only if the job it reads is already `ArchivingSuccessful`.

## 2. Modules

### `JobLifecycle.tla`: start, stop, archive and delete

Each worker (a model value of `Workers`) is a request handler with a program counter `pc[w]` and a request `req[w]`.

State:
- `db` and `job`: the job table. `job[i]` is a record with key, start, state, monitoring status, stop and duration.
- `nextId`: the AUTOINCREMENT id.
- `mutex`: the owner of `RepositoryMutex`.
- `arch[i][s]`: how many archiving goroutines of job `i` are at stage `s`.
- `ongoing`: the WaitGroup counter.
- `archived`: the jobs whose archive files exist.

Actions map one-to-one onto the steps of the handlers. PROJECT.json's `map` gives the lines of each.

Start:
- `ReceiveStart` decodes the request and validates it.
- `StartLock` is `Lock()`.
- `StartCheck` is FindAll and the duplicate loop of 399-406. On a duplicate it unlocks and answers 422.
- `StartInsert` is `Start` and the unlock.

Stop:
- `StopFind` is the lookup by id or by key plus the checks of 689-700.
- `StopWrite` is `Stop` with the stale monitoring status, the return when monitoring is disabled, and `Add(1)`.
- `ArchFetchMeta`, `ArchArchiveJob` and `ArchPersist` are the goroutine's three stages, each with its failure path and the deferred `Done()`.

Delete:
- `DeleteById` deletes by id.
- `DeleteFind` and `DeleteRow` delete by natural key.
- `DeleteBefore` deletes every job before a time.

Other modelling choices:
- Integers are exact except the duration. `Int32` keeps the `int32(...)` conversion of line 703, with the width `DurationBits` as a constant.
- Counters are capped by `MaxJobs` (ids) and `MaxOngoing` (goroutines).

### `JobTags.tla`: tags and their copy in the archive

The tag table is `tag`, a set of (type, name) pairs; the association table is `jobtag`. A second INSERT of an existing tag or association fails, as the unique constraints of spec.md 3 and 4.3 require. The archive copy is `archived` and `archTags[j]`.

Workers:
- `StartTagged` is startJob after its insert, and `TagJob` is the tagJob handler. Both begin the loop over the request's tags.
- Each loop iteration is a sequence of steps, each an atomic SQL statement. Between any two, other workers and goroutines can run:
  1. `TagLookup` (TagId);
  2. `CreateTag`, which fails with a 500 if another request created the tag since the lookup;
  3. `AddInsert` (INSERT jobtag, which fails on a duplicate);
  4. `SyncRead` (FindById and GetTags);
  5. `SyncWrite` (`archive.UpdateTags` when the job read was `ArchivingSuccessful`, then the next tag or the answer).
- `RemoveTag` deletes an association, then goes through the same `SyncRead` and `SyncWrite`.

Jobs:
- `StopJob` stops a running job and starts its goroutine.
- `ArchiveJob` writes meta.json with the job's tags at that moment, or fails.
- `ArchivePersist` sets `ArchivingSuccessful`, or fails silently.

The job lifecycle here is reduced to what tags depend on. Its details are in `JobLifecycle`.

`JobTags` defines `Store == INSTANCE TagStore WITH jobs <- created, tags <- tag, assoc <- jobtag`. `StoreSteps == [][Store!Next]_<<created, tag, jobtag>>` says every step of the handlers is a step of the atomic store, or leaves the three tables alone.

Responses: `handler[w]` is the handler the worker runs (start, tag, or a caller of
`RemoveTag`) and `resp[w]` the status lines written for its current request.
- The success answers are 201 for startJob (line 426) and 200 for tagJob (line 349).
- An `AddTagOrCreate` failure in startJob writes 500 twice, through `http.Error` and then `handleError` (lines 418-419). In tagJob it writes 500 once (line 337).
- `SyncRead` can fail (FindById or GetTags, tags.go 19-27), and so can `SyncWrite` (`archive.UpdateTags`, line 29). Either failure is an error answer given after the association has already changed.

### `TagQueries.tla`: CountTags

`CountTags(u)` is the read-only query of tags.go 61-101, as an operator over the `tag` and `jobtag` tables of `JobTags`:
- it lists every tag;
- it groups the LEFT JOIN by `tag_name` (`TagName(t)`);
- with a user filter, it keeps only rows of that user's jobs (`Owner(j)`);
- names without rows then drop out of the result.

`CountOf` is the Go map lookup, where a missing key reads 0.

### `JobTable.tla`: the abstract job table

This is what the coordinator promises, with every handler and goroutine step as one atomic change. `rows` is a function from the present ids to rows, `nextId` is the next id, and `archive` is the set of ids with archive files. The actions are:
- `Insert`: a running row without statistics, under the next id. It is allowed only if no row of its key started less than `Window` before it.
- `Update(i)`: changes row `i` in place. The key and start are kept. Statistics appear only together with `ArchivingSuccessful`, and `ArchivingSuccessful` is written only for an archived id with statistics.
- `Remove`: removes rows; the others stay as they were.
- `WriteArchive(i)`: adds the archive files of an inserted id.

`JobLifecycle` defines `Table == INSTANCE JobTable WITH rows <- [i \in db |-> job[i]], archive <- archived`. Two properties use it:
- `TableSteps == [][Table!Next]_<<...>>` says each step maps to a JobTable step or a stutter.
- `TableSpec` adds the initial condition to `TableSteps`.

The locks, the snapshot a stop carries from `StopFind` to `StopWrite`, and the goroutine's three stages are all hidden by the mapping.

### `TagStore.tla`: the abstract tag store

This is what the tag tables promise. `jobs`, `tags` and `assoc` are the created jobs, the tags and the associations. The actions are:
- `NewJob`: a new job (the insert of startJob).
- `NewTag`: a tag that did not exist (CreateTag).
- `Associate`: an association of an existing job with an existing tag (the jobtag INSERT of AddTag).
- `Dissociate`: removes an association (RemoveTag).

Lookups, the archive copy, responses and failed statements are hidden: under the mapping they leave the three tables alone.

### `JobLifecycleProofs.tla`, `JobTableProofs.tla`, `JobArchiveProofs.tla`, `JobOngoingProofs.tla`, `JobTagsProofs.tla`

TLAPS proofs about `JobLifecycle`, `JobTags` and both refinements (section 5).

### `MC_JobLifecycle.tla`, `MC_JobTags.tla`, `MC_TagQueries.tla`

These give the constants model values and small sets, and define the symmetry sets.

## 3. Runs

| Run (cfg) | Checks | Bounds and why they suffice | Result |
|---|---|---|---|
| start_dedup (`MC_StartDedup.cfg`) | `NoDuplicateStart`: of two rows of one key, the later-inserted one started at least `Window` after the earlier. | 3 workers, one key, times 0..2, window 2, 3 ids, deletes, no stops. A second start falls inside the window, on its edge or before a row, and a delete can free the key between two starts. | pass, 20,786 states |
| stop_archive (`MC_StopArchive.cfg`) | `TypeOK`, `SuccessMeansArchived`, `DisabledNeverArchived`, `OngoingMatchesGoroutines`, and `TableSteps`: every step is a `JobTable` step under the refinement mapping | 2 workers, 3 ids, times 0..1, window 1, stop states {default, running}, 2 goroutines. Covers two rows of a key, repeated and concurrent stops, and deletes racing every goroutine stage. | pass, 1.29M states |
| start_liveness (`MC_StartLiveness.cfg`) | `StartCompletes`: a start blocked on the mutex is answered | 2 workers, fair spec | pass |
| archive_drain (`MC_ArchiveDrain.cfg`) | `ArchivingsDrain`: `ongoing > 0 ~> ongoing = 0` | 2 workers, 2 ids, times 0..1, default stop state only, 2 goroutines, fair spec. Concurrent stops of one job start two goroutines, and failures and deletes hit every stage. | pass, 55,032 states |
| tag_store (`MC_TagStore.cfg`) | `TypeOK`, `AssociationsValid`: every association names an existing job and tag; `StoreSteps`: every step is a `TagStore` step under the refinement mapping | 2 workers, one job, two tags, lists `<<>>`, `<<n1>>`, `<<n1,n2>>`, `<<n2,n1>>`. Two requests race on the same new tag and the same association, while the job is stopped and archived. | pass, 745,484 states |
| dup_window | `SpecDuplicateWindow` (spec.md 8) | 2 workers | violation |
| status_regress | `MonitoringStatusForward` (spec.md 3) | 2 workers, 2 goroutines | violation |
| duration_wrap | `DurationNonNegative` (spec.md 3) | `DurationBits = 2` stands for int32 | violation |
| running_stop | `ArchiveOnlyStopped` (spec.md 4.2) | stop state "running" | violation |
| archive_tags (`MC_ArchiveTags.cfg`) | `ArchiveTagsInSync` (spec.md 4.3): a tag request about to sync a job whose meta.json exists either read `ArchivingSuccessful` or finds meta.json already holding the tags it read | 1 worker, 1 job | violation |
| start_tag_error (`MC_StartTagError.cfg`) | `AnsweredOnce` (spec.md 6, 7) | 1 worker, 1 job, one tag | violation |
| tag_counts (`MC_TagCounts.cfg`) | `CountsPerTag` (spec.md 3, 4.3) | 1 worker, 1 job, two tags of different types with one name | violation |

The violations are real disagreements between the code and spec.md. They are listed as findings in PROJECT.json:
- **Duplicate window.** Line 401 has no absolute value. A start earlier than an existing row is rejected at any distance.
- **Stale monitoring status.** Line 705 writes the status read before the checks. A second stop of the same job sets `ArchivingFailed` or `ArchivingSuccessful` back to `RunningOrArchiving` and archives the job a second time.
- **Duration wrap.** The `int32` conversion at line 703 wraps to a negative duration.
- **Running stop.** A stop with `jobState: "running"` passes `Valid()` (line 695) and archives a job that is still running.
- **Lost archive tag.** The counterexample has 8 states: a start with one tag, the stop, `ArchiveJob` writing meta.json, the tag's `AddInsert`, and a `SyncRead` that reads `RunningOrArchiving` because `Archive` has not yet set `ArchivingSuccessful`. The request then skips `archive.UpdateTags` (tags.go:29), and nothing writes the tag to meta.json later. `ArchiveTagsInSync` speaks only of a request that reached `SyncWrite`, so a failed read (an error answer) cannot break it.
- **Double error response.** When a tag fails in startJob's loop, `http.Error` and `handleError` both run (lines 418-419). The body is then a text error followed by a JSON `ErrorResponse`, and the second `WriteHeader` is superfluous. spec.md 6 and 7 require one status and a JSON error body.
- **Counts merged by name.** `CountTags` groups by `tag_name` (tags.go:79). Two tags with one name but different types, which are distinct tags under spec.md 3 and 4.3, report each other's counts.

Every property of a passing run has a mutant in PROJECT.json: a plausible bug in a mapped definition that makes TLC report the property violated. The abstract table's run has its own mutant, the short window, which makes an insert that `JobTable` forbids. The drain run's mutant is a `Done()` missing on a failure path. Other examples are a window one second short, a lock step without its guard, a stop without the default state, a goroutine that goes on after a failure, a missing `Done()`, a missed unlock, a tag assumed to exist, and a stop without a lookup.

## 4. Fairness

`FairSpec` is used by start_liveness and archive_drain. It assumes:
- WF for every step of a handler that has begun, and for each stage of an archiving goroutine. The Go scheduler runs every runnable goroutine.
- SF for `StartLock`, because a `sync.Mutex` enters starvation mode after 1 ms and then hands the lock to the longest waiter. A waiter that finds the lock free infinitely often therefore gets it.

New requests are never forced to arrive. The safety runs use `Spec` without fairness.

`ArchivingsDrain` needs only finitely many goroutines to start:
- Ids are bounded by `MaxJobs`.
- With the default stop state, a stop moves its job out of "running", so each job is stopped only by the requests that read it while it was still running.

With "running" as a stop state (the running_stop finding), the same job could be stopped forever. The counter would then never need to reach zero, so that case is left out of this run.

## 5. Proofs (`JobLifecycleProofs.tla`, `JobTableProofs.tla`, `JobArchiveProofs.tla`, `JobOngoingProofs.tla`, `JobTagsProofs.tla`, all obligations checked by tlapm)

The proofs assume only the module's named `ASSUME`s: `Window` and `MaxJobs` are naturals, `DurationBits` is a positive natural, and the constant sets are typed.

- `TypeCorrect`: `Spec => []TypeOK`.
  - `TypeInit` and `TypeStep` prove it, with one step per action.
  - `TypeOK` is split into three parts: rows, workers and archive.
  - `PowPos` proves `2^n > 0` through the cardinality of `SUBSET 1..n`, because the SMT backend has no exponentiation. `Int32` needs this fact.
- `DuplicateGuardInvariant`: `Spec => []DuplicateGuard`.
  - `NoDuplicateStart` is not inductive on its own, because a worker between `StartCheck` and `StartInsert` is about to insert a row.
  - The strengthening `DuplicateGuard` adds three conjuncts:
    - `MutexHeld`: a worker at the check or insert step holds the mutex.
    - `CheckedWindow`: a worker at the insert step has checked that every row of its key started at least `Window` before its own start.
    - `IdsBelowNext`: every id in the table is below `nextId`.
  - Together these say no other worker can insert a row of that key between the check and the insert, because all other start steps wait for the mutex. Stops and deletes change neither the key nor the start time of a row (`UpdateKeepsKey`, `KeptStep`).
  - `DuplicateGuard` was model-checked as an invariant of the start_dedup instance before the proof was attempted. The theorem now covers it for every value of the constants, so no run repeats that check.
- `DuplicateFree`: `Spec => []NoDuplicateStart`. It follows from the previous theorem.

`JobTableProofs.tla` proves the archiving invariant and the refinement:
- `TableGuardInvariant`: `Spec => []TableGuard`. `TableGuard` is `DuplicateGuard` plus four more conjuncts:
  - `SuccessMeansArchived`.
  - `PersistArchived`: a goroutine at the persist stage belongs to an archived job.
  - `GoroutinesBelowNext`: goroutines exist only for ids below `nextId`.
  - `StopSnapshot`: a worker between `StopFind` and `StopWrite` carries an id below `nextId`. If its snapshot says `ArchivingSuccessful`, that job is archived and its row, while it exists, has statistics.
- Why `SuccessMeansArchived` needs the strengthening:
  - `StopWrite` writes the stale snapshot's status back.
  - `ArchPersist` writes `ArchivingSuccessful` without looking at the archive.
  - So the property is preserved only because the snapshot, and every goroutine at the persist stage, already satisfy it. The proof has one step per action (`ArchStep`).
  - It rests on lemmas about the nested `EXCEPT` on goroutine counts (`ArchMove`, `ArchGrow`, `ArchShrink`) and about the three row updates (`StopRow`, `FailedRow`, `ArchivedRow`).
  - `TableGuard` was model-checked as an invariant of the stop_archive instance before the proof was attempted. The theorem covers it for every value of the constants.
- `SuccessArchived`: `Spec => []SuccessMeansArchived`, for every number of workers, ids and goroutines.
- `Refinement`: `Spec => TableSpec`, with `TableStepsHold` (`Spec => TableSteps`) as a corollary.
  - `TableInit` shows the initial table is empty.
  - `TableStep` has one case per action and one sub-case per branch:
    - the lookups, the lock steps and the failed statements are `Remove` steps that remove nothing;
    - `StartInsert` is an `Insert` (`InsertRefines`, from `CheckedWindow` and `IdsBelowNext`);
    - `Stop`, `UpdateMonitoringStatus` and `Archive` are an `Update` of the row, or nothing when the row is gone (`UpdateRefines`). Its condition on `ArchivingSuccessful` is `SuccessMeansArchived` in the state after the step, which is why the refinement rests on `TableGuard`;
    - a successful `ArchiveJob` is a `WriteArchive` (`WriteArchiveRefines`, from `GoroutinesBelowNext`);
    - the deletes are `Remove` steps.

`JobArchiveProofs.tla` proves that a job with monitoring disabled is never archived:
- `DisabledGuardInvariant`: `Spec => []DisabledGuard`. `DisabledGuard` is `TableGuard` plus:
  - `DisabledNeverArchived` itself;
  - `ArchivedBelowNext`: archive files exist only for ids below `nextId`, so a fresh insert (possibly `Disabled`) has none;
  - `StopKeepsDisabled`: a worker between `StopFind` and `StopWrite` whose job still exists carries a snapshot that is `Disabled` exactly when the row is.
- Why it needs the strengthening: `StopWrite` writes back the snapshot's status, and it dispatches the goroutine only when that status is not `Disabled` (line 720). Without `StopKeepsDisabled`, a stale snapshot could start a goroutine for a disabled job or turn a row with archive files into a disabled one. `UpdateMonitoringStatus` and `Archive` never write `Disabled` (`UpdateNotDisabled`), and a goroutine step only exists for a job with a goroutine, which is therefore not disabled (`GoroutineDisabled`, `BusyNotDisabled`).
- `DisabledGuard` was model-checked as an invariant of the stop_archive instance (1.29M states) before the proof was attempted.
- `DisabledNotArchived`: `Spec => []DisabledNeverArchived`.

`JobOngoingProofs.tla` proves that the `OngoingArchivings` counter matches the running goroutines (`Add(1)` at line 726, the deferred `Done()` at line 728):
- The obstacle: `Goroutines` is a recursive function over the ids `0..MaxJobs`. TLA+ defines it by a CHOOSE, so its equation is only usable once some function is known to satisfy it. And what it computes after a step cannot be shown by an induction theorem: those take an operator parameter that no installed prover instantiates.
- The inductive invariant avoids the recursion. `OngoingGuard` is `TypeOK /\ OngoingSums`. `OngoingSums` says that a function `g` on `0..MaxJobs` satisfies the equation (`PartialSums(g)`) and that `g[MaxJobs] = ongoing`.
- `SumsUnique`: two solutions of the equation are equal. The least id where they differ cannot be 0, and they agree on the id below it. This uses `WFMin` with the well-founded `<` on `Nat` from `WellFoundedInduction`, which has no operator parameter. So `Goroutines` is that `g` (`GoroutinesSums`), and `OngoingSums => OngoingMatchesGoroutines` (`SumsMatch`).
- `SumsShift`: suppose a step changes only job `i`'s goroutines, by `d` in total, and changes the counter by `d`. Then it keeps the sums: the new witness is `g` shifted by `d` from `i` on.
- Each step is one such shift:
  - a `StopWrite` that dispatches is `d = 1` (`BumpShifted`);
  - a return through `Finish` is `d = -1` (`FinishShifted`);
  - a stage change through `Advance` is `d = 0` (`AdvanceShifted`);
  - every other step leaves both alone (`SumsKeep`).
- TLC cannot enumerate the witness `g` over `Int`. Given `SumsUnique`, `OngoingGuard` is the same as `TypeOK /\ OngoingMatchesGoroutines`, and stop_archive checks both of those on its 1.29M states.
- `OngoingGuardInvariant`: `Spec => []OngoingGuard`. `OngoingCounted`: `Spec => []OngoingMatchesGoroutines`.

`JobTagsProofs.tla` proves the tag properties and the second refinement:
- `TagsGuardInvariant`: `Spec => []TagsGuard`. `TagsGuard` is `TypeOK /\ WorkerShape /\ StageCreated /\ AssociationsValid`:
  - `WorkerShape`: a busy worker runs a known handler on a created job; in the loop its remaining list is non-empty, and at the association insert its head is an existing tag.
  - `StageCreated`: only created jobs have a lifecycle stage.
- Why it needs the strengthening: `AddInsert` inserts without looking at the tag table. `AssociationsValid` is preserved only because the lookup or `CreateTag` before it left the tag in the table and tags are never removed (`WorkerShape`). The loop's `Tail` step needs `LoopRest` (a tail of a list longer than one is a non-empty list of names).
- `TagsGuard` was model-checked as an invariant of the tag_store instance (745,484 states) before the proof was attempted.
- `TagsTypeCorrect`: `Spec => []TypeOK`, and `AssociationsHold`: `Spec => []AssociationsValid`.
- `StoreRefinement`: `Spec => Store!Spec`, with `StoreStepsHold` (`Spec => StoreSteps`) as a corollary. `StoreStep` has one case per action: `StartTagged` is a `NewJob`, a successful `CreateTag` a `NewTag`, a successful `AddInsert` an `Associate` (from `WorkerShape` and `StageCreated`), `RemoveTag` a `Dissociate`, and every other step leaves the tables alone.

What stays with TLC:
- The liveness properties `StartCompletes` and `ArchivingsDrain`. TLAPS does not handle ENABLED and fairness here.
- What the recursive `Goroutines` computes is proved only where `JobOngoingProofs` needs it, through the uniqueness argument above. No general induction over the ids is proved.

## 6. Not modelled

- The read-only handlers.
- User and JWT handlers, machine state, the frontend, configuration and schema files, and packaging.
- Authentication and roles. A failed role check answers 403 with no change.
- JSON decoding beyond its outcome.
- The inside of the metric archiver and `archive.UpdateTags`. They are not under src/ and are modelled from spec.md.
- The cascade of a job deletion into `jobtag`. The schema is not under src/.
- Error paths of `CountTags`. They return an error and change nothing.
- Response bodies beyond which status lines are written.

## 7. Plan for later work

- The duplicate-window predicate as a pure operator, checked against a reference definition over bounded times.
- Compose tags with deletion once the schema's cascade behaviour is known.
