-------------------------- MODULE JobOngoingProofs --------------------------
(***************************************************************************)
(* Proof that the OngoingArchivings WaitGroup counts exactly the archiving *)
(* goroutines that have not returned (Add(1) at line 726, the deferred     *)
(* Done() of every return of the goroutine, lines 727-751), for every      *)
(* value of the constants.                                                 *)
(*                                                                         *)
(* Goroutines is a recursive function. Its defining equation only holds    *)
(* of the CHOOSE that TLA+ makes of it once some function satisfies it,    *)
(* and a second solution is ruled out by the least-number principle        *)
(* (WFMin on the well-founded < of Nat). So the inductive invariant states *)
(* the running sums without recursion, as a function that exists in every  *)
(* reachable state; a step of one goroutine shifts the sums from its job   *)
(* on.                                                                     *)
(***************************************************************************)
EXTENDS JobLifecycleProofs, WellFoundedInduction

USE MaxJobsAssumption

(* The goroutines of job n, over the three stages. *)
Busy(n) == arch[n]["fetchMeta"] + arch[n]["archiveJob"] + arch[n]["persist"]

(* g holds the running sums of goroutines over ids 0..MaxJobs: the        *)
(* equation that defines Goroutines.                                      *)
PartialSums(g) ==
  g = [n \in 0..MaxJobs |-> IF n = 0 THEN 0
                            ELSE g[n - 1] + arch[n]["fetchMeta"]
                                 + arch[n]["archiveJob"] + arch[n]["persist"]]

(* The running sums exist and their total is the WaitGroup's counter. *)
OngoingSums == \E g \in [0..MaxJobs -> Int] : PartialSums(g) /\ ongoing = g[MaxJobs]

OngoingGuard == TypeOK /\ OngoingSums

(* Two functions satisfying the equation are equal: the least id where    *)
(* they differ is not 0, and they agree on the id below it.               *)
LEMMA SumsUnique ==
  ASSUME NEW f, NEW g, PartialSums(f), PartialSums(g)
  PROVE  f = g
<1> SUFFICES ASSUME f # g PROVE FALSE
  OBVIOUS
<1> DEFINE T == {n \in 0..MaxJobs : f[n] # g[n]}
<1>1. T # {} /\ T \subseteq Nat
  <2>1. DOMAIN f = 0..MaxJobs /\ DOMAIN g = 0..MaxJobs
    BY DEF PartialSums
  <2>2. \E n \in 0..MaxJobs : f[n] # g[n]
    BY <2>1 DEF PartialSums
  <2>3. QED
    BY <2>2
<1>2. PICK x \in T : \A y \in T : ~(<<y, x>> \in OpToRel(<, Nat))
  BY <1>1, WFMin, NatLessThanWellFounded
<1>3. x \in 0..MaxJobs /\ f[x] # g[x]
  BY DEF T
<1>4. x # 0
  BY <1>3 DEF PartialSums
<1>5. x - 1 \in 0..MaxJobs /\ x - 1 \in Nat /\ x \in Nat /\ x - 1 < x
  BY <1>3, <1>4
<1>6. <<x - 1, x>> \in OpToRel(<, Nat)
  BY <1>5, Zenon DEF OpToRel
<1>7. f[x - 1] = g[x - 1]
  BY <1>2, <1>5, <1>6 DEF T
<1>8. /\ f[x] = f[x - 1] + arch[x]["fetchMeta"] + arch[x]["archiveJob"] + arch[x]["persist"]
      /\ g[x] = g[x - 1] + arch[x]["fetchMeta"] + arch[x]["archiveJob"] + arch[x]["persist"]
  BY <1>3, <1>4 DEF PartialSums
<1>9. QED
  BY <1>3, <1>7, <1>8

(* Once some g satisfies the equation, Goroutines is that g. *)
LEMMA GoroutinesSums ==
  ASSUME NEW g, PartialSums(g)
  PROVE  Goroutines = g
<1>1. PartialSums(Goroutines)
  BY DEF Goroutines, PartialSums
<1>2. QED
  BY <1>1, SumsUnique

(* OngoingSums is OngoingMatchesGoroutines without the recursion. *)
LEMMA SumsMatch == OngoingSums => OngoingMatchesGoroutines
  BY GoroutinesSums DEF OngoingSums, OngoingMatchesGoroutines

(* The server starts with no goroutine and the counter at zero: the sums *)
(* are all zero.                                                          *)
LEMMA SumsInit == Init => OngoingSums
<1> SUFFICES ASSUME Init PROVE OngoingSums
  OBVIOUS
<1> DEFINE z == [n \in 0..MaxJobs |-> 0]
<1>1. PartialSums(z)
  BY DEF Init, PartialSums, Ids, Active
<1>2. QED
  BY <1>1 DEF Init, OngoingSums

(* The goroutines of job i change by d in total, and the counter by d;   *)
(* no other job's goroutines change.                                      *)
ShiftedAt(i, d) ==
  /\ \A j \in Ids \ {i} : arch'[j] = arch[j]
  /\ Busy(i)' = Busy(i) + d
  /\ ongoing' = ongoing + d

(* A step that changes the goroutines of job i only, by d in total, and  *)
(* the counter by d, keeps the sums: those from i on shift by d.         *)
LEMMA SumsShift ==
  ASSUME TypeOK, OngoingSums, NEW i \in Ids, NEW d \in Int,
         arch' \in [Ids -> [Active -> Nat]], ShiftedAt(i, d)
  PROVE  OngoingSums'
<1>0. arch \in [Ids -> [Active -> Nat]]
  BY DEF TypeOK
<1>1. PICK g : g \in [0..MaxJobs -> Int] /\ PartialSums(g) /\ ongoing = g[MaxJobs]
  BY DEF OngoingSums
<1>2. PICK h : /\ h \in [0..MaxJobs -> Int]
               /\ \A n \in 0..MaxJobs : h[n] = IF n < i THEN g[n] ELSE g[n] + d
  <2> DEFINE s == [n \in 0..MaxJobs |-> IF n < i THEN g[n] ELSE g[n] + d]
  <2>1. s \in [0..MaxJobs -> Int]
    BY <1>1
  <2>2. \A n \in 0..MaxJobs : s[n] = IF n < i THEN g[n] ELSE g[n] + d
    OBVIOUS
  <2>3. QED
    BY <2>1, <2>2, Zenon
<1>3. \A n \in 1..MaxJobs :
        g[n] = g[n - 1] + arch[n]["fetchMeta"] + arch[n]["archiveJob"] + arch[n]["persist"]
  BY <1>1 DEF PartialSums
<1>4. ASSUME NEW n \in 1..MaxJobs
      PROVE  h[n] = h[n - 1] + arch'[n]["fetchMeta"] + arch'[n]["archiveJob"]
                    + arch'[n]["persist"]
  <2>1. n \in Ids
    BY DEF Ids
  <2>2. /\ arch[n]["fetchMeta"] \in Nat /\ arch[n]["archiveJob"] \in Nat
        /\ arch[n]["persist"] \in Nat
        /\ arch'[n]["fetchMeta"] \in Nat /\ arch'[n]["archiveJob"] \in Nat
        /\ arch'[n]["persist"] \in Nat
    BY <1>0, <2>1 DEF Active
  <2>3. /\ n # i => arch'[n] = arch[n]
        /\ n = i => arch'[n]["fetchMeta"] + arch'[n]["archiveJob"] + arch'[n]["persist"]
                    = arch[n]["fetchMeta"] + arch[n]["archiveJob"] + arch[n]["persist"] + d
    BY <2>1 DEF ShiftedAt, Busy
  <2>4. g[n] \in Int /\ g[n - 1] \in Int
    BY <1>1 DEF Ids
  <2>5. g[n] = g[n - 1] + arch[n]["fetchMeta"] + arch[n]["archiveJob"] + arch[n]["persist"]
    BY <1>3
  <2>6. \A m \in 0..MaxJobs : h[m] = IF m < i THEN g[m] ELSE g[m] + d
    BY <1>2
  <2>7. n - 1 \in 0..MaxJobs /\ n \in 0..MaxJobs /\ i \in 1..MaxJobs
    BY DEF Ids
  <2>8. CASE n = i
    <3>1. h[n] = g[n] + d /\ h[n - 1] = g[n - 1]
      BY <2>6, <2>7, <2>8
    <3>2. QED
      BY ONLY <2>2, <2>3, <2>4, <2>5, <2>8, <3>1
  <2>9. CASE n # i
    <3>1. h[n] - h[n - 1] = g[n] - g[n - 1] /\ h[n] \in Int /\ h[n - 1] \in Int
      BY <2>4, <2>6, <2>7, <2>9
    <3>2. arch'[n] = arch[n]
      BY <2>3, <2>9
    <3>3. QED
      BY ONLY <2>2, <2>4, <2>5, <3>1, <3>2
  <2>10. QED
    BY <2>8, <2>9
<1>5. h[0] = 0
  BY <1>1, <1>2 DEF PartialSums, Ids
<1>6. PartialSums(h)'
  <2>1. \A n \in 0..MaxJobs :
          h[n] = IF n = 0 THEN 0
                 ELSE h[n - 1] + arch'[n]["fetchMeta"] + arch'[n]["archiveJob"]
                      + arch'[n]["persist"]
    BY <1>4, <1>5
  <2>2. QED
    BY <1>2, <2>1 DEF PartialSums
<1>7. ongoing' = h[MaxJobs]
  BY <1>1, <1>2 DEF Ids, ShiftedAt
<1>8. QED
  BY <1>2, <1>6, <1>7 DEF OngoingSums
(* The counter keeps the sums when neither it nor a goroutine moves. *)
LEMMA SumsKeep ==
  ASSUME OngoingSums, UNCHANGED <<arch, ongoing>>
  PROVE  OngoingSums'
  BY DEF OngoingSums, PartialSums

(* OngoingArchivings.Add(1) with a new goroutine for job i (lines 726-727). *)
LEMMA BumpShifted ==
  ASSUME TypeOK, NEW i \in Ids,
         arch' = [arch EXCEPT ![i]["fetchMeta"] = @ + 1], ongoing' = ongoing + 1
  PROVE  ShiftedAt(i, 1)
<1>1. arch \in [Ids -> [Active -> Nat]]
  BY DEF TypeOK
<1>2. \A j \in Ids \ {i} : arch'[j] = arch[j]
  BY <1>1
<1>3. arch'[i] = [arch[i] EXCEPT !["fetchMeta"] = arch[i]["fetchMeta"] + 1]
  BY <1>1
<1>4. Busy(i)' = Busy(i) + 1
  BY <1>1, <1>3 DEF Busy, Active
<1>5. QED
  BY <1>2, <1>4 DEF ShiftedAt

(* A goroutine of job i at stage s returns and its deferred Done() runs. *)
LEMMA FinishShifted ==
  ASSUME TypeOK, NEW i \in Ids, NEW s \in Active, Finish(i, s)
  PROVE  ShiftedAt(i, -1)
<1>1. arch \in [Ids -> [Active -> Nat]]
  BY DEF TypeOK
<1>2. \A j \in Ids \ {i} : arch'[j] = arch[j]
  BY <1>1 DEF Finish
<1>3. arch'[i] = [arch[i] EXCEPT ![s] = arch[i][s] - 1]
  BY <1>1 DEF Finish
<1>4. Busy(i)' = Busy(i) - 1
  BY <1>1, <1>3 DEF Busy, Active
<1>5. QED
  BY <1>2, <1>4 DEF ShiftedAt, Finish

(* A goroutine of job i moves on from stage s to stage t; the counter     *)
(* stays.                                                                  *)
LEMMA AdvanceShifted ==
  ASSUME TypeOK, NEW i \in Ids, NEW s \in Active, NEW t \in Active, s # t,
         Advance(i, s, t), UNCHANGED ongoing
  PROVE  ShiftedAt(i, 0)
<1>1. arch \in [Ids -> [Active -> Nat]]
  BY DEF TypeOK
<1>2. \A j \in Ids \ {i} : arch'[j] = arch[j]
  BY <1>1 DEF Advance
<1>3. arch'[i] = [arch[i] EXCEPT ![s] = arch[i][s] - 1, ![t] = arch[i][t] + 1]
  BY <1>1 DEF Advance
<1>4. Busy(i)' = Busy(i) + 0
  BY <1>1, <1>3 DEF Busy, Active
<1>5. ongoing' = ongoing + 0
  BY DEF TypeOK
<1>6. QED
  BY <1>2, <1>4, <1>5 DEF ShiftedAt

(* Every handler step and goroutine step keeps the sums: only stopping a *)
(* job and the goroutines' returns move the counter, each with its       *)
(* goroutine.                                                              *)
LEMMA SumsStep == TypeOK /\ OngoingSums /\ [Next]_vars => OngoingSums'
<1> SUFFICES ASSUME TypeOK, OngoingSums, [Next]_vars PROVE OngoingSums'
  OBVIOUS
<1>0. arch' \in [Ids -> [Active -> Nat]]
  BY TypeStep DEF TypeOK
<1>1. ASSUME NEW w \in Workers, StopWrite(w)
      PROVE  OngoingSums'
  <2> DEFINE r == req[w]
  <2>1. r.id \in Ids
    BY <1>1 DEF StopWrite, TypeOK, StopReq
  <2>2. UNCHANGED <<arch, ongoing>>
        \/ (arch' = [arch EXCEPT ![r.id]["fetchMeta"] = @ + 1] /\ ongoing' = ongoing + 1)
    BY <1>1 DEF StopWrite
  <2>3. CASE UNCHANGED <<arch, ongoing>>
    BY <2>3, SumsKeep
  <2>4. CASE arch' = [arch EXCEPT ![r.id]["fetchMeta"] = @ + 1] /\ ongoing' = ongoing + 1
    <3>1. ShiftedAt(r.id, 1)
      BY <2>1, <2>4, BumpShifted
    <3>2. QED
      BY <1>0, <2>1, <3>1, SumsShift
  <2>5. QED
    BY <2>2, <2>3, <2>4
<1>2. ASSUME NEW w \in Workers, Worker(w), ~StopWrite(w)
      PROVE  OngoingSums'
  <2>1. UNCHANGED <<arch, ongoing>>
    BY <1>2 DEF Worker, ReceiveStart, StartLock, StartCheck, StartInsert, StopFind,
                DeleteById, DeleteFind, DeleteRow, DeleteBefore
  <2>2. QED
    BY <2>1, SumsKeep
<1>3. ASSUME NEW i \in Ids, NEW s \in Active, Finish(i, s)
      PROVE  OngoingSums'
  <2>1. ShiftedAt(i, -1)
    BY <1>3, FinishShifted
  <2>2. QED
    BY <1>0, <2>1, SumsShift
<1>4. ASSUME NEW i \in Ids, NEW s \in Active, NEW t \in Active, s # t,
             Advance(i, s, t), UNCHANGED ongoing
      PROVE  OngoingSums'
  <2>1. ShiftedAt(i, 0)
    BY <1>4, AdvanceShifted
  <2>2. QED
    BY <1>0, <2>1, SumsShift
<1>5. ASSUME NEW i \in Ids, Goroutine(i)
      PROVE  OngoingSums'
  <2>1. "fetchMeta" \in Active /\ "archiveJob" \in Active /\ "persist" \in Active
        /\ "fetchMeta" # "archiveJob" /\ "archiveJob" # "persist"
    BY DEF Active
  <2>2. CASE ArchFetchMeta(i)
    BY <2>1, <2>2, <1>3, <1>4 DEF ArchFetchMeta
  <2>3. CASE ArchArchiveJob(i)
    BY <2>1, <2>3, <1>3, <1>4 DEF ArchArchiveJob
  <2>4. CASE ArchPersist(i)
    BY <2>1, <2>4, <1>3 DEF ArchPersist
  <2>5. QED
    BY <1>5, <2>2, <2>3, <2>4 DEF Goroutine
<1>6. CASE UNCHANGED vars
  BY <1>6, SumsKeep DEF vars
<1>7. QED
  BY <1>1, <1>2, <1>5, <1>6 DEF Next

(* The typed running sums hold in every reachable state. *)
THEOREM OngoingGuardInvariant == Spec => []OngoingGuard
<1>1. Init => OngoingGuard
  BY TypeInit, SumsInit DEF OngoingGuard
<1>2. OngoingGuard /\ [Next]_vars => OngoingGuard'
  BY TypeStep, SumsStep DEF OngoingGuard
<1>3. QED
  BY <1>1, <1>2, PTL DEF Spec

(* OngoingArchivings (Add(1) at line 726, the deferred Done() of every   *)
(* return of the goroutine, lines 727-751) counts exactly the archiving  *)
(* goroutines that are running: what the comment at line 726 relies on   *)
(* ("so that a shutdown does not interrupt this goroutine").             *)
THEOREM OngoingCounted == Spec => []OngoingMatchesGoroutines
<1>1. OngoingGuard => OngoingMatchesGoroutines
  BY SumsMatch DEF OngoingGuard
<1>2. QED
  BY <1>1, OngoingGuardInvariant, PTL

====
