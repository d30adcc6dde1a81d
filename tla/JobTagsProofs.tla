---------------------------- MODULE JobTagsProofs ----------------------------
(***************************************************************************)
(* Proofs about JobTags for every value of the constants: the type         *)
(* invariant, and that every association of table jobtag names an         *)
(* existing job and an existing tag while tag requests race with each     *)
(* other and with the archiving goroutine.                                 *)
(***************************************************************************)
EXTENDS JobTags, SequenceTheorems, TLAPS

USE JobsAssumption, TagListsAssumption

(* The status lines of the three handlers are sequences of HTTP statuses. *)
LEMMA WritesType ==
  \A h \in Handlers \ {"none"} :
    /\ ErrorWrites[h] \in Seq(HttpStatuses)
    /\ SuccessWrites[h] \in Seq(HttpStatuses)
<1>1. /\ <<StatusCreated>> \in Seq(HttpStatuses)
      /\ <<StatusOK>> \in Seq(HttpStatuses)
      /\ <<StatusInternalServerError>> \in Seq(HttpStatuses)
      /\ <<StatusInternalServerError, StatusInternalServerError>> \in Seq(HttpStatuses)
      /\ <<>> \in Seq(HttpStatuses)
  BY DEF HttpStatuses
<1>2. SUFFICES ASSUME NEW h \in {"start", "tag", "remove"}
               PROVE  ErrorWrites[h] \in Seq(HttpStatuses) /\ SuccessWrites[h] \in Seq(HttpStatuses)
  BY DEF Handlers
<1>3. CASE h = "start"
  BY <1>1, <1>3 DEF ErrorWrites, SuccessWrites
<1>4. CASE h = "tag"
  BY <1>1, <1>4 DEF ErrorWrites, SuccessWrites
<1>5. CASE h = "remove"
  BY <1>1, <1>5 DEF ErrorWrites, SuccessWrites
<1>6. QED
  BY <1>3, <1>4, <1>5

(* Appending a handler's status lines keeps a response a sequence of      *)
(* statuses.                                                               *)
LEMMA AppendType ==
  ASSUME NEW r \in Seq(HttpStatuses), NEW ws \in Seq(HttpStatuses)
  PROVE  r \o ws \in Seq(HttpStatuses)
  OBVIOUS

(* GetTags returns a set of tag names. *)
LEMMA TagsOfType == \A j : TagsOf(j) \in SUBSET Names
  BY DEF TagsOf

(* The tail of the loop's list is a list of names; a non-empty list's     *)
(* head is a name.                                                         *)
LEMMA ListParts ==
  ASSUME NEW l \in Seq(Names), l # <<>>
  PROVE  Head(l) \in Names /\ Tail(l) \in Seq(Names)
  OBVIOUS

(* A loop over a list of more than one name goes on with a non-empty     *)
(* rest of names.                                                          *)
LEMMA LoopRest ==
  ASSUME NEW l \in Seq(Names), Len(l) > 1
  PROVE  Tail(l) \in Seq(Names) /\ Tail(l) # << >>
<1>1. l # << >>
  OBVIOUS
<1>2. Tail(l) \in Seq(Names) /\ Len(Tail(l)) = Len(l) - 1
  BY <1>1, HeadTailProperties
<1>3. Len(Tail(l)) # 0
  BY <1>2
<1>4. Len(<< >>) = 0
  BY EmptySeq
<1>5. Tail(l) # << >>
  BY <1>3, <1>4, Zenon
<1>6. QED
  BY <1>2, <1>5

(* Every step preserves TagsGuard: one step per action. *)
LEMMA TagsStep == TagsGuard /\ [Next]_vars => TagsGuard'
<1> SUFFICES ASSUME TagsGuard, [Next]_vars PROVE TagsGuard'
  OBVIOUS
<1>1. ASSUME NEW w \in Workers, StartTagged(w) PROVE TagsGuard'
  <2>1. PICK j \in Jobs \ created, tl \in TagLists :
          /\ created' = created \cup {j}
          /\ running' = running \cup {j}
          /\ ms' = [ms EXCEPT ![j] = RunningOrArchiving]
          /\ BeginTags(w, j, tl, "start")
    BY <1>1 DEF StartTagged
  <2>2. tl \in Seq(Names) /\ pc[w] = "idle"
    BY <1>1 DEF StartTagged
  <2>3. SuccessWrites["start"] \in Seq(HttpStatuses) /\ <<>> \in Seq(HttpStatuses)
    BY WritesType DEF Handlers
  <2>4. UNCHANGED <<tag, jobtag, archived, archTags, stage, snap, snapMs>>
    BY <1>1 DEF StartTagged
  <2>5. TypeOK'
    BY <2>1, <2>2, <2>3, <2>4 DEF BeginTags, Goto, PCs, Handlers, Statuses,
                                  RunningOrArchiving, TagsGuard, TypeOK
  <2>6. WorkerShape'
    BY <2>1, <2>2, <2>4 DEF BeginTags, Goto, Handlers, TagsGuard, WorkerShape, TypeOK
  <2>7. StageCreated' /\ AssociationsValid'
    BY <2>1, <2>4 DEF TagsGuard, StageCreated, AssociationsValid
  <2>8. QED
    BY <2>5, <2>6, <2>7 DEF TagsGuard
<1>2. ASSUME NEW w \in Workers, TagJob(w) PROVE TagsGuard'
  <2>1. PICK j \in created, tl \in TagLists : BeginTags(w, j, tl, "tag")
    BY <1>2 DEF TagJob
  <2>2. tl \in Seq(Names) /\ pc[w] = "idle" /\ j \in Jobs
    BY <1>2 DEF TagJob, TagsGuard, TypeOK
  <2>3. SuccessWrites["tag"] \in Seq(HttpStatuses) /\ <<>> \in Seq(HttpStatuses)
    BY WritesType DEF Handlers
  <2>4. UNCHANGED <<created, running, ms, archived, archTags, stage, tag, jobtag, snap, snapMs>>
    BY <1>2 DEF TagJob, jobVars
  <2>5. TypeOK'
    BY <2>1, <2>2, <2>3, <2>4 DEF BeginTags, Goto, PCs, Handlers, TagsGuard, TypeOK
  <2>6. WorkerShape'
    BY <2>1, <2>2, <2>4 DEF BeginTags, Goto, Handlers, TagsGuard, WorkerShape, TypeOK
  <2>7. StageCreated' /\ AssociationsValid'
    BY <2>4 DEF TagsGuard, StageCreated, AssociationsValid
  <2>8. QED
    BY <2>5, <2>6, <2>7 DEF TagsGuard
<1>3. ASSUME NEW w \in Workers, TagLookup(w) PROVE TagsGuard'
  BY <1>3, WritesType, AppendType, TagsOfType, ListParts DEF TagLookup, Goto, jobVars, PCs, TagsGuard, TypeOK, WorkerShape, StageCreated, AssociationsValid
<1>4. ASSUME NEW w \in Workers, CreateTag(w) PROVE TagsGuard'
  <2>1. pc[w] = "createTag" /\ todo[w] # <<>> /\ todo[w] \in Seq(Names)
        /\ handler[w] \in Handlers \ {"none"}
    BY <1>4 DEF CreateTag, TagsGuard, TypeOK, WorkerShape
  <2>2. Head(todo[w]) \in Names
    BY <2>1, ListParts
  <2>3. CASE Head(todo[w]) \in tag /\ Answer(w, ErrorWrites[handler[w]])
             /\ UNCHANGED <<tag, snap, snapMs>>
    <3>1. resp[w] \o ErrorWrites[handler[w]] \in Seq(HttpStatuses)
      BY <2>1, WritesType, AppendType DEF TagsGuard, TypeOK
    <3>2. TypeOK'
      BY <1>4, <2>3, <3>1 DEF CreateTag, Answer, Respond, Goto, jobVars, PCs, TagsGuard, TypeOK
    <3>3. WorkerShape'
      BY <1>4, <2>3 DEF CreateTag, Answer, Respond, Goto, jobVars, TagsGuard, WorkerShape, TypeOK
    <3>4. StageCreated' /\ AssociationsValid'
      BY <1>4, <2>3 DEF CreateTag, jobVars, TagsGuard, StageCreated, AssociationsValid
    <3>5. QED
      BY <3>2, <3>3, <3>4 DEF TagsGuard
  <2>4. CASE Head(todo[w]) \notin tag /\ tag' = tag \cup {Head(todo[w])} /\ Goto(w, "addInsert")
             /\ UNCHANGED <<cur, todo, snap, snapMs, handler, resp>>
    <3>1. TypeOK'
      BY <1>4, <2>2, <2>4 DEF CreateTag, Goto, jobVars, PCs, TagsGuard, TypeOK
    <3>2. WorkerShape'
      BY <1>4, <2>1, <2>4 DEF CreateTag, Goto, jobVars, TagsGuard, WorkerShape, TypeOK
    <3>3. StageCreated' /\ AssociationsValid'
      BY <1>4, <2>4 DEF CreateTag, jobVars, TagsGuard, StageCreated, AssociationsValid
    <3>4. QED
      BY <3>1, <3>2, <3>3 DEF TagsGuard
  <2>5. QED
    BY <1>4, <2>3, <2>4 DEF CreateTag
<1>5. ASSUME NEW w \in Workers, AddInsert(w) PROVE TagsGuard'
  <2> DEFINE p == <<cur[w], Head(todo[w])>>
  <2>1. /\ pc[w] = "addInsert" /\ handler[w] \in Handlers \ {"none"}
        /\ cur[w] \in created /\ cur[w] \in Jobs /\ Head(todo[w]) \in tag /\ Head(todo[w]) \in Names
    BY <1>5 DEF AddInsert, TagsGuard, TypeOK, WorkerShape
  <2>2. UNCHANGED <<created, running, ms, archived, archTags, stage, tag, snap, snapMs>>
    BY <1>5 DEF AddInsert, jobVars
  <2>3. CASE p \in jobtag /\ Answer(w, ErrorWrites[handler[w]]) /\ UNCHANGED jobtag
    <3>1. resp[w] \o ErrorWrites[handler[w]] \in Seq(HttpStatuses)
      BY <2>1, WritesType, AppendType DEF TagsGuard, TypeOK
    <3>2. TypeOK'
      BY <2>2, <2>3, <3>1 DEF Answer, Respond, Goto, PCs, TagsGuard, TypeOK
    <3>3. WorkerShape'
      BY <2>2, <2>3 DEF Answer, Respond, Goto, TagsGuard, WorkerShape, TypeOK
    <3>4. StageCreated' /\ AssociationsValid'
      BY <2>2, <2>3 DEF TagsGuard, StageCreated, AssociationsValid
    <3>5. QED
      BY <3>2, <3>3, <3>4 DEF TagsGuard
  <2>4. CASE p \notin jobtag /\ jobtag' = jobtag \cup {p} /\ Goto(w, "syncRead")
             /\ UNCHANGED <<cur, todo, handler, resp>>
    <3>1. TypeOK'
      BY <2>1, <2>2, <2>4 DEF Goto, PCs, TagsGuard, TypeOK
    <3>2. WorkerShape'
      BY <2>1, <2>2, <2>4 DEF Goto, TagsGuard, WorkerShape, TypeOK
    <3>3. StageCreated' /\ AssociationsValid'
      BY <2>1, <2>2, <2>4 DEF TagsGuard, StageCreated, AssociationsValid
    <3>4. QED
      BY <3>1, <3>2, <3>3 DEF TagsGuard
  <2>5. QED
    BY <1>5, <2>3, <2>4 DEF AddInsert
<1>6. ASSUME NEW w \in Workers, RemoveTag(w) PROVE TagsGuard'
  <2>1. PICK j \in created, n \in Names :
          jobtag' = jobtag \ {<<j, n>>} /\ cur' = [cur EXCEPT ![w] = j]
    BY <1>6 DEF RemoveTag
  <2>2. /\ Goto(w, "syncRead")
        /\ handler' = [handler EXCEPT ![w] = "remove"]
        /\ resp' = [resp EXCEPT ![w] = <<>>]
        /\ UNCHANGED <<created, running, ms, archived, archTags, stage, tag, todo, snap, snapMs>>
    BY <1>6 DEF RemoveTag, jobVars
  <2>3. TypeOK'
    BY <2>1, <2>2 DEF Goto, PCs, Handlers, TagsGuard, TypeOK
  <2>4. WorkerShape'
    BY <2>1, <2>2 DEF Goto, Handlers, TagsGuard, WorkerShape, TypeOK
  <2>5. StageCreated' /\ AssociationsValid'
    BY <2>1, <2>2 DEF TagsGuard, StageCreated, AssociationsValid
  <2>6. QED
    BY <2>3, <2>4, <2>5 DEF TagsGuard
<1>7. ASSUME NEW w \in Workers, SyncRead(w) PROVE TagsGuard'
  <2>1. /\ pc[w] = "syncRead" /\ handler[w] \in Handlers \ {"none"}
        /\ cur[w] \in Jobs /\ ms[cur[w]] \in Statuses
    BY <1>7 DEF SyncRead, TagsGuard, TypeOK, WorkerShape
  <2>2. UNCHANGED <<created, running, ms, archived, archTags, stage, tag, jobtag>>
    BY <1>7 DEF SyncRead, jobVars
  <2>3. CASE /\ snap' = [snap EXCEPT ![w] = TagsOf(cur[w])]
             /\ snapMs' = [snapMs EXCEPT ![w] = ms[cur[w]]]
             /\ Goto(w, "syncWrite")
             /\ UNCHANGED <<cur, todo, handler, resp>>
    <3>1. TypeOK'
      BY <2>1, <2>2, <2>3, TagsOfType DEF Goto, PCs, TagsGuard, TypeOK
    <3>2. WorkerShape'
      BY <2>1, <2>2, <2>3 DEF Goto, TagsGuard, WorkerShape, TypeOK
    <3>3. StageCreated' /\ AssociationsValid'
      BY <2>2 DEF TagsGuard, StageCreated, AssociationsValid
    <3>4. QED
      BY <3>1, <3>2, <3>3 DEF TagsGuard
  <2>4. CASE Answer(w, ErrorWrites[handler[w]]) /\ UNCHANGED <<snap, snapMs>>
    <3>1. resp[w] \o ErrorWrites[handler[w]] \in Seq(HttpStatuses)
      BY <2>1, WritesType, AppendType DEF TagsGuard, TypeOK
    <3>2. TypeOK'
      BY <2>2, <2>4, <3>1 DEF Answer, Respond, Goto, PCs, TagsGuard, TypeOK
    <3>3. WorkerShape'
      BY <2>2, <2>4 DEF Answer, Respond, Goto, TagsGuard, WorkerShape, TypeOK
    <3>4. StageCreated' /\ AssociationsValid'
      BY <2>2 DEF TagsGuard, StageCreated, AssociationsValid
    <3>5. QED
      BY <3>2, <3>3, <3>4 DEF TagsGuard
  <2>5. QED
    BY <1>7, <2>3, <2>4 DEF SyncRead
<1>8. ASSUME NEW w \in Workers, SyncWrite(w) PROVE TagsGuard'
  <2>1. /\ pc[w] = "syncWrite" /\ handler[w] \in Handlers \ {"none"}
        /\ cur[w] \in Jobs /\ snap[w] \in SUBSET Names /\ todo[w] \in Seq(Names)
    BY <1>8 DEF SyncWrite, TagsGuard, TypeOK, WorkerShape
  <2>2. UNCHANGED <<created, running, ms, archived, stage, tag, jobtag, snap, snapMs>>
    BY <1>8 DEF SyncWrite
  <2>3. CASE /\ archTags' = IF snapMs[w] = ArchivingSuccessful
                              THEN [archTags EXCEPT ![cur[w]] = snap[w]]
                              ELSE archTags
             /\ IF Len(todo[w]) > 1
                  THEN /\ todo' = [todo EXCEPT ![w] = Tail(@)]
                       /\ Goto(w, "tagLookup")
                       /\ UNCHANGED <<cur, handler, resp>>
                  ELSE Answer(w, SuccessWrites[handler[w]])
    <3>1. archTags' \in [Jobs -> SUBSET Names]
      BY <2>1, <2>3 DEF TagsGuard, TypeOK
    <3>2. StageCreated' /\ AssociationsValid'
      BY <2>2 DEF TagsGuard, StageCreated, AssociationsValid
    <3>3. CASE Len(todo[w]) > 1
      <4>1. todo' = [todo EXCEPT ![w] = Tail(todo[w])] /\ Goto(w, "tagLookup")
            /\ UNCHANGED <<cur, handler, resp>>
        BY <2>3, <3>3
      <4>2. Tail(todo[w]) \in Seq(Names) /\ Tail(todo[w]) # << >>
        BY <2>1, <3>3, LoopRest
      <4>3. TypeOK'
        BY <2>1, <2>2, <3>1, <4>1, <4>2 DEF Goto, PCs, TagsGuard, TypeOK
      <4>4. WorkerShape'
        BY <2>1, <2>2, <4>1, <4>2 DEF Goto, TagsGuard, WorkerShape, TypeOK
      <4>5. QED
        BY <3>2, <4>3, <4>4 DEF TagsGuard
    <3>4. CASE ~(Len(todo[w]) > 1)
      <4>1. Answer(w, SuccessWrites[handler[w]])
        BY <2>3, <3>4
      <4>2. resp[w] \o SuccessWrites[handler[w]] \in Seq(HttpStatuses)
        BY <2>1, WritesType, AppendType DEF TagsGuard, TypeOK
      <4>3. TypeOK'
        BY <2>2, <3>1, <4>1, <4>2 DEF Answer, Respond, Goto, PCs, TagsGuard, TypeOK
      <4>4. WorkerShape'
        BY <2>2, <4>1 DEF Answer, Respond, Goto, TagsGuard, WorkerShape, TypeOK
      <4>5. QED
        BY <3>2, <4>3, <4>4 DEF TagsGuard
    <3>5. QED
      BY <3>3, <3>4
  <2>4. CASE snapMs[w] = ArchivingSuccessful /\ Answer(w, ErrorWrites[handler[w]])
             /\ UNCHANGED archTags
    <3>1. resp[w] \o ErrorWrites[handler[w]] \in Seq(HttpStatuses)
      BY <2>1, WritesType, AppendType DEF TagsGuard, TypeOK
    <3>2. TypeOK'
      BY <2>2, <2>4, <3>1 DEF Answer, Respond, Goto, PCs, TagsGuard, TypeOK
    <3>3. WorkerShape'
      BY <2>2, <2>4 DEF Answer, Respond, Goto, TagsGuard, WorkerShape, TypeOK
    <3>4. StageCreated' /\ AssociationsValid'
      BY <2>2 DEF TagsGuard, StageCreated, AssociationsValid
    <3>5. QED
      BY <3>2, <3>3, <3>4 DEF TagsGuard
  <2>5. QED
    BY <1>8, <2>3, <2>4 DEF SyncWrite
<1>9. ASSUME NEW j \in Jobs, StopJob(j) PROVE TagsGuard'
  <2>1. j \in created /\ running' = running \ {j} /\ stage' = [stage EXCEPT ![j] = "archiveJob"]
    BY <1>9 DEF StopJob, TagsGuard, TypeOK
  <2>2. UNCHANGED <<created, ms, tag, jobtag, archived, archTags, pc, cur, todo, snap, snapMs,
                    handler, resp>>
    BY <1>9 DEF StopJob, workerVars
  <2>3. TypeOK'
    BY <2>1, <2>2 DEF Stages, TagsGuard, TypeOK
  <2>4. WorkerShape' /\ AssociationsValid'
    BY <2>2 DEF TagsGuard, WorkerShape, AssociationsValid
  <2>5. StageCreated'
    BY <2>1, <2>2 DEF TagsGuard, StageCreated, TypeOK
  <2>6. QED
    BY <2>3, <2>4, <2>5 DEF TagsGuard
<1>10. ASSUME NEW j \in Jobs, ArchiveJob(j) PROVE TagsGuard'
  <2>1. stage[j] = "archiveJob" /\ j \in created
    BY <1>10 DEF ArchiveJob, TagsGuard, StageCreated
  <2>2. UNCHANGED <<created, running, tag, jobtag, pc, cur, todo, snap, snapMs, handler, resp>>
    BY <1>10 DEF ArchiveJob, workerVars
  <2>3. WorkerShape' /\ AssociationsValid'
    BY <2>2 DEF TagsGuard, WorkerShape, AssociationsValid
  <2>4. CASE /\ ms' = [ms EXCEPT ![j] = ArchivingFailed]
             /\ stage' = [stage EXCEPT ![j] = "done"]
             /\ UNCHANGED <<archived, archTags>>
    <3>1. TypeOK'
      BY <2>2, <2>4 DEF Statuses, ArchivingFailed, Stages, TagsGuard, TypeOK
    <3>2. StageCreated'
      BY <2>1, <2>2, <2>4 DEF TagsGuard, StageCreated, TypeOK
    <3>3. QED
      BY <2>3, <3>1, <3>2 DEF TagsGuard
  <2>5. CASE /\ archived' = archived \cup {j}
             /\ archTags' = [archTags EXCEPT ![j] = TagsOf(j)]
             /\ stage' = [stage EXCEPT ![j] = "persist"]
             /\ UNCHANGED ms
    <3>1. TypeOK'
      BY <2>1, <2>2, <2>5, TagsOfType DEF Stages, TagsGuard, TypeOK
    <3>2. StageCreated'
      BY <2>1, <2>2, <2>5 DEF TagsGuard, StageCreated, TypeOK
    <3>3. QED
      BY <2>3, <3>1, <3>2 DEF TagsGuard
  <2>6. QED
    BY <1>10, <2>4, <2>5 DEF ArchiveJob
<1>11. ASSUME NEW j \in Jobs, ArchivePersist(j) PROVE TagsGuard'
  BY <1>11, WritesType, AppendType, TagsOfType, ListParts DEF ArchivePersist, workerVars, Statuses, ArchivingSuccessful, Stages, TagsGuard, TypeOK, WorkerShape, StageCreated, AssociationsValid
<1>12. CASE UNCHANGED vars
  BY <1>12 DEF vars, TagsGuard, TypeOK, WorkerShape, StageCreated, AssociationsValid
<1>13. QED
  BY <1>1, <1>2, <1>3, <1>4, <1>5, <1>6, <1>7, <1>8, <1>9, <1>10, <1>11, <1>12 DEF Next, Worker, Archiver

(* Initially no job, tag or association exists and every worker is idle. *)
LEMMA TagsInit == Init => TagsGuard
  BY DEF Init, TagsGuard, TypeOK, WorkerShape, StageCreated, AssociationsValid,
         Statuses, RunningOrArchiving, Stages, PCs, Handlers

(* TagsGuard holds in every reachable state. *)
THEOREM TagsGuardInvariant == Spec => []TagsGuard
<1>1. Init => TagsGuard
  BY TagsInit
<1>2. QED
  BY <1>1, TagsStep, PTL DEF Spec

(* The tag handlers, RemoveTag and the archiving goroutine keep every     *)
(* variable in its type, for every number of workers, jobs and tags: in  *)
(* particular every response is a sequence of status lines, and the tag   *)
(* loop never reads the head of an empty list.                             *)
THEOREM TagsTypeCorrect == Spec => []TypeOK
  BY TagsGuardInvariant, PTL DEF TagsGuard

(* Every association in table jobtag names an existing job and an        *)
(* existing tag (AddTagOrCreate, tags.go 105-119), for every number of    *)
(* concurrent tag requests, even when two of them race to create the same *)
(* tag and one CreateTag fails.                                            *)
THEOREM AssociationsHold == Spec => []AssociationsValid
  BY TagsGuardInvariant, PTL DEF TagsGuard

-----------------------------------------------------------------------------
(* The refinement: every step of the tag handlers, RemoveTag and the      *)
(* archiving goroutine is a step of the atomic tag store, or leaves the   *)
(* tables job, tag and jobtag as they are.                                 *)

(* The initial (empty) tables are TagStore's. *)
LEMMA StoreInit == Init => Store!Init
  BY DEF Init, Store!Init

(* Each step maps to a TagStore step or a stutter: one step per action. *)
LEMMA StoreStep == TagsGuard /\ [Next]_vars => [Store!Next]_<<created, tag, jobtag>>
<1> SUFFICES ASSUME TagsGuard, [Next]_vars
             PROVE  [Store!Next]_<<created, tag, jobtag>>
  OBVIOUS
<1> DEFINE Kept == UNCHANGED <<created, tag, jobtag>>
<1>1. ASSUME NEW w \in Workers, StartTagged(w) PROVE Store!NewJob
  BY <1>1 DEF StartTagged, Store!NewJob
<1>2. ASSUME NEW w \in Workers, TagJob(w) \/ TagLookup(w) \/ SyncRead(w) \/ SyncWrite(w)
      PROVE  Kept
  BY <1>2 DEF TagJob, TagLookup, SyncRead, SyncWrite, jobVars
<1>3. ASSUME NEW w \in Workers, CreateTag(w) PROVE Kept \/ Store!NewTag
  <2>1. Head(todo[w]) \in Names
    BY <1>3, ListParts DEF CreateTag, TagsGuard, TypeOK, WorkerShape
  <2>2. QED
    BY <1>3, <2>1 DEF CreateTag, jobVars, Store!NewTag
<1>4. ASSUME NEW w \in Workers, AddInsert(w) PROVE Kept \/ Store!Associate
  <2>1. cur[w] \in created /\ Head(todo[w]) \in tag
    BY <1>4 DEF AddInsert, TagsGuard, WorkerShape
  <2>2. QED
    BY <1>4, <2>1 DEF AddInsert, jobVars, Store!Associate
<1>5. ASSUME NEW w \in Workers, RemoveTag(w) PROVE Store!Dissociate
  BY <1>5 DEF RemoveTag, jobVars, Store!Dissociate
<1>6. ASSUME NEW j \in Jobs, Archiver(j) PROVE Kept
  BY <1>6 DEF Archiver, StopJob, ArchiveJob, ArchivePersist
<1>7. QED
  BY <1>1, <1>2, <1>3, <1>4, <1>5, <1>6 DEF Next, Worker, vars, Store!Next

(* The tag handlers and RemoveTag implement the atomic tag store: a job  *)
(* row enters under a fresh id, a tag enters once, an association joins   *)
(* an existing job and an existing tag, and a removal deletes one pair,   *)
(* although AddTagOrCreate runs TagId, CreateTag and AddTag as separate   *)
(* statements that other requests interleave with.                        *)
THEOREM StoreRefinement == Spec => Store!Spec
<1>1. Init => Store!Init
  BY StoreInit
<1>2. TagsGuard /\ [Next]_vars => [Store!Next]_<<created, tag, jobtag>>
  BY StoreStep
<1>3. QED
  BY <1>1, <1>2, TagsGuardInvariant, PTL DEF Spec, Store!Spec, Store!storeVars

(* StoreSteps, the action property the tag_store run checks, as a        *)
(* corollary.                                                              *)
THEOREM StoreStepsHold == Spec => StoreSteps
  BY StoreRefinement, PTL DEF Store!Spec, Store!storeVars, StoreSteps

====
