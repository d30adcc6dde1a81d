------------------------------ MODULE JobTags ------------------------------
(***************************************************************************)
(* Tags on jobs and their copy in the job archive: the tag loop of        *)
(* startJob (src/unnamed/part_000, lines 416-422), the tagJob handler      *)
(* (304-351) and JobRepository.AddTagOrCreate, AddTag, RemoveTag,          *)
(* CreateTag, TagId and GetTags (src/internal/repository/tags.go), run     *)
(* against the stop and the archiving goroutine of checkAndHandleStopJob   *)
(* (701-751) seen from the tags' side.                                     *)
(*                                                                         *)
(* Each SQL statement is one atomic step.  A tag is its (type, name)       *)
(* pair; the tag table holds each pair once and jobtag each (job, tag)     *)
(* pair once (spec.md 3 and 4.3: tags are globally unique, duplicate       *)
(* associations are rejected), so a second INSERT of either fails.         *)
(* archive.UpdateTags rewrites the archived meta.json's tags when the job  *)
(* is archived (spec.md 4.3); metricdata.ArchiveJob writes the job's tags  *)
(* as they are in the table when it runs.  Both are outside src/.          *)
(***************************************************************************)
EXTENDS Integers, Sequences

CONSTANTS
  Workers,   \* concurrent HTTP request handlers
  Jobs,      \* database ids of jobs
  Names,     \* (type, name) pairs of tags
  TagLists,  \* tag lists a start or tagJob request may carry
  NoJob      \* the job of an idle worker

ASSUME JobsAssumption == NoJob \notin Jobs
ASSUME TagListsAssumption == TagLists \subseteq Seq(Names)

(* schema.MonitoringStatus values a job with monitoring enabled takes. *)
RunningOrArchiving == "RunningOrArchiving"
ArchivingFailed == "ArchivingFailed"
ArchivingSuccessful == "ArchivingSuccessful"
Statuses == {RunningOrArchiving, ArchivingFailed, ArchivingSuccessful}

PCs == {"idle", "tagLookup", "createTag", "addInsert", "syncRead", "syncWrite"}
(* The handler a worker runs: startJob, tagJob, or a caller of RemoveTag. *)
Handlers == {"none", "start", "tag", "remove"}

(* net/http status codes the handlers write. *)
StatusOK == 200
StatusCreated == 201
StatusInternalServerError == 500
HttpStatuses == {StatusOK, StatusCreated, StatusInternalServerError}

(* The status lines a handler writes when its tag loop succeeds           *)
(* (lines 425-428 of startJob, 348-350 of tagJob) and when an            *)
(* AddTagOrCreate fails: startJob calls http.Error and then handleError   *)
(* (lines 418-419), tagJob http.Error only (line 337).  RemoveTag returns *)
(* its error to its caller, which is outside src/.                        *)
SuccessWrites == [start |-> <<StatusCreated>>, tag |-> <<StatusOK>>, remove |-> <<>>]
ErrorWrites ==
  [start |-> <<StatusInternalServerError, StatusInternalServerError>>,
   tag |-> <<StatusInternalServerError>>, remove |-> <<>>]
Stages == {"none", "archiveJob", "persist", "done"}

VARIABLES
  created,   \* ids of the rows of table job
  running,   \* jobs whose state is running
  ms,        \* ms[j]: job j's monitoring status
  tag,       \* rows of table tag
  jobtag,    \* rows of table jobtag: <<job, tag>> pairs
  archived,  \* jobs whose meta.json exists in the archive
  archTags,  \* archTags[j]: the tags in job j's meta.json
  stage,     \* stage[j]: where job j's archiving goroutine is
  pc,        \* where each worker is
  cur,       \* the job the worker is tagging
  todo,      \* the tags of its request not yet added (the loop's rest)
  snap,      \* the job's tags as AddTag/RemoveTag read them (GetTags)
  snapMs,    \* the job's monitoring status as they read it (FindById)
  handler,   \* the handler the worker runs
  resp       \* the status lines written for the worker's current request

vars == <<created, running, ms, tag, jobtag, archived, archTags, stage,
          pc, cur, todo, snap, snapMs, handler, resp>>
jobVars == <<created, running, ms, archived, archTags, stage>>
workerVars == <<pc, cur, todo, snap, snapMs, handler, resp>>

-----------------------------------------------------------------------------
(* Helpers                                                                 *)

(* GetTags(&job): the tags the table associates with job j. *)
TagsOf(j) == {n \in Names : <<j, n>> \in jobtag}

(* The worker moves to its next step, or answers and returns. *)
Goto(w, p) == pc' = [pc EXCEPT ![w] = p]
Respond(w) ==
  /\ Goto(w, "idle")
  /\ cur' = [cur EXCEPT ![w] = NoJob]
  /\ todo' = [todo EXCEPT ![w] = <<>>]

(* The worker answers with the status lines ws and returns. *)
Answer(w, ws) ==
  /\ Respond(w)
  /\ resp' = [resp EXCEPT ![w] = @ \o ws]
  /\ UNCHANGED handler

(* Handler h's loop over the request's tags starts (or the handler        *)
(* answers at once for an empty list).                                    *)
BeginTags(w, j, tl, h) ==
  /\ cur' = [cur EXCEPT ![w] = IF tl = <<>> THEN NoJob ELSE j]
  /\ todo' = [todo EXCEPT ![w] = tl]
  /\ Goto(w, IF tl = <<>> THEN "idle" ELSE "tagLookup")
  /\ handler' = [handler EXCEPT ![w] = h]
  /\ resp' = [resp EXCEPT ![w] = IF tl = <<>> THEN SuccessWrites[h] ELSE <<>>]

-----------------------------------------------------------------------------
(* Handlers                                                                *)

(* startJob after Start committed the row (lines 408-415): the new job is *)
(* running, then the tag loop of lines 416-422 begins.                    *)
StartTagged(w) ==
  /\ pc[w] = "idle"
  /\ \E j \in Jobs \ created, tl \in TagLists :
       /\ created' = created \cup {j}
       /\ running' = running \cup {j}
       /\ ms' = [ms EXCEPT ![j] = RunningOrArchiving]
       /\ BeginTags(w, j, tl, "start")
  /\ UNCHANGED <<tag, jobtag, archived, archTags, stage, snap, snapMs>>

(* tagJob: FindById (316) and GetTags (322) find the job, the body is     *)
(* decoded (329), then the loop of lines 334-346 begins.  A missing job   *)
(* or a bad body answers 404/400 and changes nothing.                     *)
TagJob(w) ==
  /\ pc[w] = "idle"
  /\ \E j \in created, tl \in TagLists : BeginTags(w, j, tl, "tag")
  /\ UNCHANGED <<jobVars, tag, jobtag, snap, snapMs>>

(* AddTagOrCreate: TagId looks the tag up (tags.go 106, 122-130). *)
TagLookup(w) ==
  /\ pc[w] = "tagLookup"
  /\ Goto(w, IF Head(todo[w]) \in tag THEN "addInsert" ELSE "createTag")
  /\ UNCHANGED <<jobVars, tag, jobtag, cur, todo, snap, snapMs, handler, resp>>

(* Mutant: the tag is assumed to exist and never created. *)
CreateTagSkipped(w) ==
  /\ pc[w] = "createTag"
  /\ Goto(w, "addInsert")
  /\ UNCHANGED <<jobVars, tag, jobtag, cur, todo, snap, snapMs, handler, resp>>

(* CreateTag (tags.go 107-111, 52-59): the INSERT fails when another      *)
(* request created the same tag since the lookup; the handler answers 500 *)
(* and abandons the rest of the list.                                      *)
CreateTag(w) ==
  LET n == Head(todo[w]) IN
  /\ pc[w] = "createTag"
  /\ \/ /\ n \in tag
        /\ Answer(w, ErrorWrites[handler[w]])
        /\ UNCHANGED <<tag, snap, snapMs>>
     \/ /\ n \notin tag
        /\ tag' = tag \cup {n}
        /\ Goto(w, "addInsert")
        /\ UNCHANGED <<cur, todo, snap, snapMs, handler, resp>>
  /\ UNCHANGED <<jobVars, jobtag>>

(* AddTag's INSERT INTO jobtag (tags.go 14-17); a duplicate association  *)
(* fails and the handler answers 500.                                      *)
AddInsert(w) ==
  LET p == <<cur[w], Head(todo[w])>> IN
  /\ pc[w] = "addInsert"
  /\ \/ /\ p \in jobtag
        /\ Answer(w, ErrorWrites[handler[w]])
        /\ UNCHANGED jobtag
     \/ /\ p \notin jobtag
        /\ jobtag' = jobtag \cup {p}
        /\ Goto(w, "syncRead")
        /\ UNCHANGED <<cur, todo, handler, resp>>
  /\ UNCHANGED <<jobVars, tag, snap, snapMs>>

(* Mutant: the DELETE drops the tag_id condition and removes every tag   *)
(* of the job.                                                             *)
RemoveTagAll(w) ==
  /\ pc[w] = "idle"
  /\ \E j \in created, n \in Names :
       /\ jobtag' = {p \in jobtag : p[1] # j}
       /\ cur' = [cur EXCEPT ![w] = j]
  /\ Goto(w, "syncRead")
  /\ handler' = [handler EXCEPT ![w] = "remove"]
  /\ resp' = [resp EXCEPT ![w] = <<>>]
  /\ UNCHANGED <<jobVars, tag, todo, snap, snapMs>>

(* RemoveTag's DELETE FROM jobtag (tags.go 33-36), called by a client of *)
(* the tag store; deleting an absent pair succeeds.                        *)
RemoveTag(w) ==
  /\ pc[w] = "idle"
  /\ \E j \in created, n \in Names :
       /\ jobtag' = jobtag \ {<<j, n>>}
       /\ cur' = [cur EXCEPT ![w] = j]
  /\ Goto(w, "syncRead")
  /\ handler' = [handler EXCEPT ![w] = "remove"]
  /\ resp' = [resp EXCEPT ![w] = <<>>]
  /\ UNCHANGED <<jobVars, tag, todo, snap, snapMs>>

(* AddTag / RemoveTag: FindById and GetTags (tags.go 19-27, 38-46).  If   *)
(* either fails, the error is returned with the association already      *)
(* changed and the archive not updated.                                    *)
SyncRead(w) ==
  LET j == cur[w] IN
  /\ pc[w] = "syncRead"
  /\ \/ /\ snap' = [snap EXCEPT ![w] = TagsOf(j)]
        /\ snapMs' = [snapMs EXCEPT ![w] = ms[j]]
        /\ Goto(w, "syncWrite")
        /\ UNCHANGED <<cur, todo, handler, resp>>
     \/ /\ Answer(w, ErrorWrites[handler[w]])
        /\ UNCHANGED <<snap, snapMs>>
  /\ UNCHANGED <<jobVars, tag, jobtag>>

(* archive.UpdateTags(j, tags) (tags.go 29, 48) rewrites the archived     *)
(* tags when the job read was archived; then the loop goes on with the    *)
(* next tag of the request, or the handler answers.  A failed rewrite of  *)
(* meta.json is returned as the error of AddTag / RemoveTag.              *)
SyncWrite(w) ==
  LET j == cur[w] IN
  /\ pc[w] = "syncWrite"
  /\ \/ /\ archTags' = IF snapMs[w] = ArchivingSuccessful
                         THEN [archTags EXCEPT ![j] = snap[w]]
                         ELSE archTags
        /\ IF Len(todo[w]) > 1
             THEN /\ todo' = [todo EXCEPT ![w] = Tail(@)]
                  /\ Goto(w, "tagLookup")
                  /\ UNCHANGED <<cur, handler, resp>>
             ELSE Answer(w, SuccessWrites[handler[w]])
     \/ /\ snapMs[w] = ArchivingSuccessful
        /\ Answer(w, ErrorWrites[handler[w]])
        /\ UNCHANGED archTags
  /\ UNCHANGED <<created, running, ms, archived, stage, tag, jobtag, snap, snapMs>>

-----------------------------------------------------------------------------
(* The stop and the archiving goroutine (lines 701-751)                    *)

(* Mutant: the stop does not check that the job exists and runs. *)
StopJobUnchecked(j) ==
  /\ running' = running \ {j}
  /\ stage' = [stage EXCEPT ![j] = "archiveJob"]
  /\ UNCHANGED <<created, ms, tag, jobtag, archived, archTags, workerVars>>

(* A stop of a running job commits (Stop, line 705) and starts the        *)
(* goroutine (lines 726-727).                                              *)
StopJob(j) ==
  /\ j \in running
  /\ running' = running \ {j}
  /\ stage' = [stage EXCEPT ![j] = "archiveJob"]
  /\ UNCHANGED <<created, ms, tag, jobtag, archived, archTags, workerVars>>

(* FetchMetadata and metricdata.ArchiveJob (lines 730-742): on failure    *)
(* the job is marked ArchivingFailed; on success meta.json is written     *)
(* with the job's tags.                                                    *)
ArchiveJob(j) ==
  /\ stage[j] = "archiveJob"
  /\ \/ /\ ms' = [ms EXCEPT ![j] = ArchivingFailed]
        /\ stage' = [stage EXCEPT ![j] = "done"]
        /\ UNCHANGED <<archived, archTags>>
     \/ /\ archived' = archived \cup {j}
        /\ archTags' = [archTags EXCEPT ![j] = TagsOf(j)]
        /\ stage' = [stage EXCEPT ![j] = "persist"]
        /\ UNCHANGED ms
  /\ UNCHANGED <<created, running, tag, jobtag, workerVars>>

(* Archive(id, ArchivingSuccessful, statistics) (lines 744-748); its      *)
(* failure is only logged.                                                 *)
ArchivePersist(j) ==
  /\ stage[j] = "persist"
  /\ \/ ms' = [ms EXCEPT ![j] = ArchivingSuccessful]
     \/ UNCHANGED ms
  /\ stage' = [stage EXCEPT ![j] = "done"]
  /\ UNCHANGED <<created, running, tag, jobtag, archived, archTags, workerVars>>

-----------------------------------------------------------------------------
Init ==
  /\ created = {}
  /\ running = {}
  /\ ms = [j \in Jobs |-> RunningOrArchiving]
  /\ tag = {}
  /\ jobtag = {}
  /\ archived = {}
  /\ archTags = [j \in Jobs |-> {}]
  /\ stage = [j \in Jobs |-> "none"]
  /\ pc = [w \in Workers |-> "idle"]
  /\ cur = [w \in Workers |-> NoJob]
  /\ todo = [w \in Workers |-> <<>>]
  /\ snap = [w \in Workers |-> {}]
  /\ snapMs = [w \in Workers |-> RunningOrArchiving]
  /\ handler = [w \in Workers |-> "none"]
  /\ resp = [w \in Workers |-> <<>>]

Worker(w) ==
  \/ StartTagged(w) \/ TagJob(w) \/ RemoveTag(w)
  \/ TagLookup(w) \/ CreateTag(w) \/ AddInsert(w) \/ SyncRead(w) \/ SyncWrite(w)

Archiver(j) == StopJob(j) \/ ArchiveJob(j) \/ ArchivePersist(j)

Next == (\E w \in Workers : Worker(w)) \/ (\E j \in Jobs : Archiver(j))

Spec == Init /\ [][Next]_vars

(* The refinement mapping to TagStore: the abstract tables are the job,   *)
(* tag and jobtag rows.                                                    *)
Store == INSTANCE TagStore WITH jobs <- created, tags <- tag, assoc <- jobtag

(* The handlers implement the atomic tag store: every step creates a job  *)
(* under a fresh id, inserts a tag the table lacked, associates an        *)
(* existing job with an existing tag, deletes one association, or leaves  *)
(* the three tables as they are.  TagId before CreateTag and AddTag, and  *)
(* RemoveTag's WHERE on both ids, are what make this hold.                *)
StoreSteps == [][Store!Next]_<<created, tag, jobtag>>

-----------------------------------------------------------------------------
(* Invariants and properties                                               *)

TypeOK ==
  /\ created \subseteq Jobs
  /\ running \subseteq created
  /\ ms \in [Jobs -> Statuses]
  /\ tag \subseteq Names
  /\ jobtag \subseteq Jobs \X Names
  /\ archived \subseteq created
  /\ archTags \in [Jobs -> SUBSET Names]
  /\ stage \in [Jobs -> Stages]
  /\ pc \in [Workers -> PCs]
  /\ cur \in [Workers -> Jobs \cup {NoJob}]
  /\ todo \in [Workers -> Seq(Names)]
  /\ snap \in [Workers -> SUBSET Names]
  /\ snapMs \in [Workers -> Statuses]
  /\ handler \in [Workers -> Handlers]
  /\ resp \in [Workers -> Seq(HttpStatuses)]

(* Every association names an existing job and an existing tag:          *)
(* AddTagOrCreate inserts into jobtag only after TagId found the tag or   *)
(* CreateTag inserted it, even when two requests race on a new tag.       *)
AssociationsValid ==
  \A p \in jobtag : p[1] \in created /\ p[2] \in tag

(* Why TypeOK and AssociationsValid hold (the inductive invariant of     *)
(* their proof in JobTagsProofs): a worker inside a tag loop or a        *)
(* RemoveTag runs one of the three handlers, for a job whose row exists;  *)
(* the loop's list is not empty before AddTagOrCreate, and at the INSERT  *)
(* INTO jobtag its head is a tag of the table (TagId found it or          *)
(* CreateTag inserted it, and no tag row is ever deleted); a job has an   *)
(* archiving goroutine only once its row exists.  A handler that skipped  *)
(* CreateTag, or an Answer with a handler's response table that lacks the *)
(* handler, would break it.                                                *)
WorkerShape ==
  \A w \in Workers :
    /\ pc[w] # "idle" => handler[w] \in Handlers \ {"none"} /\ cur[w] \in created
    /\ pc[w] \in {"tagLookup", "createTag", "addInsert"} => todo[w] # <<>>
    /\ pc[w] = "addInsert" => Head(todo[w]) \in tag
StageCreated == \A j \in Jobs : stage[j] # "none" => j \in created
TagsGuard ==
  /\ TypeOK
  /\ WorkerShape
  /\ StageCreated
  /\ AssociationsValid

(* spec.md 4.3: a tag added to an archived job is reflected in the      *)
(* archive.  AddTag / RemoveTag decide from the status they read          *)
(* (FindById, tags.go 19-23) whether to rewrite meta.json (line 29): a    *)
(* request about to do so for a job whose meta.json exists either         *)
(* rewrites it, having read ArchivingSuccessful, or finds it already      *)
(* holding the tags it read.  A request whose read fails answers an error *)
(* and is not about this race.                                             *)
ArchiveTagsInSync ==
  \A w \in Workers :
    pc[w] = "syncWrite" /\ cur[w] \in archived =>
      \/ snapMs[w] = ArchivingSuccessful
      \/ archTags[cur[w]] = snap[w]


(* Every request to startJob or tagJob is answered with one status line  *)
(* and one body: each path of the tag loops returns after writing a       *)
(* single response (the error responses of lines 418-419 and 337, the     *)
(* success responses of lines 425-428 and 348-350).                        *)
AnsweredOnce == \A w \in Workers : Len(resp[w]) <= 1

=============================================================================
