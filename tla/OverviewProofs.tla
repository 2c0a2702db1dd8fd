--------------------------- MODULE OverviewProofs ----------------------------
(***************************************************************************)
(* Theorems about OverviewJobs, for every set of jobs, instances, tasks    *)
(* and users, every length of the period and every page size, and about    *)
(* OverviewRetention, which extends it, for every length of time that      *)
(* history is kept.                                                        *)
(***************************************************************************)
EXTENDS OverviewRetention, FiniteSetTheorems, TLAPS

-----------------------------------------------------------------------------
(***************************************************************************)
(* OverviewJobs: the inductive invariant                                   *)
(***************************************************************************)

\* A request at work is about a job.
RequestsOK == \A r \in Requests : request[r] # "idle" => job[r] \in Jobs

\* The page in hand is one that this execution has not had before.
PageOK ==
  \A t \in Tasks : task[t] \in {"inserting", "saving"} => batch[t] \notin seen[t]

\* A task that has nothing left to do but to tell has given its job a status, and
\* only jobs of that kind are deletions.
EndingsOK ==
  \A t \in Tasks :
    /\ task[t] \in {"pausing", "releasing", "failed"} => status[job[t]] # "RUNNING"
    /\ task[t] \in {"deleting", "reporting"} => job[t] \in Deletions

\* All that a record of an import's progress counts is accounted for, and an
\* instance counts as done only when all of the period does.
Truthful(j, progress) ==
  \A i \in Instances :
    /\ \A n \in 1..Total : n <= progress[i].start => Accounted(j, <<i, n>>)
    /\ progress[i].done => progress[i].start >= Total

\* A task that has read its job's row has a record of its own.
HasRead(t) == task[t] \notin {"idle", "scheduled"}

DataOK ==
  /\ \A j \in Imports : Truthful(j, saved[j])
  /\ \A t \in Tasks : HasRead(t) /\ job[t] \in Imports => Truthful(job[t], runtime[t])
  /\ \A t \in Tasks : task[t] = "saving" /\ job[t] \in Imports =>
       \A n \in batch[t] : Accounted(job[t], <<at[t], n>>)

IInv ==
  /\ JobInv
  /\ RequestsOK
  /\ PageOK
  /\ EndingsOK
  /\ DataOK
  /\ SuccessIsComplete

-----------------------------------------------------------------------------
(***************************************************************************)
(* The operators of the model                                              *)
(***************************************************************************)

LEMMA MinOfTwo ==
  ASSUME NEW m \in Nat, NEW n \in Nat
  PROVE  /\ Min({m, n}) \in {m, n}
         /\ Min({m, n}) <= m /\ Min({m, n}) <= n
<1>1. \E x \in {m, n} : \A y \in {m, n} : x =< y
  OBVIOUS
<1>2. QED
  BY <1>1 DEF Min

LEMMA PageLength ==
  ASSUME NEW page \in SUBSET (1..Total)
  PROVE  Cardinality(page) \in Nat
<1>1. IsFiniteSet(1..Total)
  BY SizesAssumption, FS_Interval
<1>2. QED
  BY <1>1, FS_Subset, FS_CardinalityType

LEMMA NoProgressType == NoProgress \in [Instances -> Progress]
BY SizesAssumption DEF NoProgress, Progress

LEMMA SomeInstanceType == SomeInstance \in Instances
BY ScopeAssumption DEF SomeInstance

LEMMA CheckpointType ==
  ASSUME NEW p \in Progress, NEW n \in 0..(Total + 1)
  PROVE  [p EXCEPT !.start = n, !.failures = 0] \in Progress
<1>1. [p EXCEPT !.start = n] \in Progress
  BY DEF Progress
<1>2. \A q \in Progress : [q EXCEPT !.failures = 0] \in Progress
  BY SizesAssumption DEF Progress
<1>3. QED
  BY <1>1, <1>2

\* The checkpoint after a page: never past the end of the log by more than one.
LEMMA CheckpointMoves ==
  ASSUME TypeOK, NEW t \in Tasks
  PROVE  /\ Here(t).start \in 0..(Total + 1)
         /\ Cardinality(batch[t]) \in Nat
         /\ Min({Passed(t), Total + 1}) \in 0..(Total + 1)
         /\ Min({Passed(t), Total + 1}) \in {Passed(t), Total + 1}
         /\ Min({Passed(t), Total + 1}) <= Passed(t)
<1>1. Here(t).start \in 0..(Total + 1)
  BY DEF Here, TypeOK, Progress
<1>2. Cardinality(batch[t]) \in Nat
  BY PageLength DEF TypeOK
<1>3. Passed(t) \in Nat /\ Total + 1 \in Nat
  BY <1>1, <1>2, SizesAssumption DEF Passed
<1>4. QED
  BY <1>1, <1>2, <1>3, MinOfTwo

\* A task's copy of the progress, changed at the instance it is working on.
LEMMA WithType ==
  ASSUME TypeOK, NEW t \in Tasks, NEW p \in Progress
  PROVE  /\ Here(t) \in Progress
         /\ With(t, p) \in [Instances -> Progress]
         /\ \A i \in Instances :
              With(t, p)[i] = IF i = at[t] THEN p ELSE runtime[t][i]
BY DEF TypeOK, Here, With

-----------------------------------------------------------------------------
(***************************************************************************)
(* Type correctness, one lemma for each part of the model                  *)
(***************************************************************************)
LEMMA InitType == Init => TypeOK
BY NoProgressType, SomeInstanceType, JobsAssumption, SizesAssumption
DEF Init, TypeOK, Unfinished, Working

\* A task at work is about a job.
LEMMA JobInHand ==
  ASSUME TypeOK, NEW t \in Tasks, task[t] # "idle"
  PROVE  job[t] \in Jobs
BY DEF TypeOK

\* The job row a task writes, and the row of its window.
LEMMA RowTypes ==
  ASSUME TypeOK, NEW j \in Jobs
  PROVE  /\ \A s \in {"PENDING", "RUNNING", "PAUSED", "SUCCESS", "FAILURE", "deleted"} :
              [status EXCEPT ![j] = s] \in
                [Jobs -> Unfinished \cup {"none", "SUCCESS", "FAILURE", "PAUSED", "deleted"}]
         /\ \A p \in [Instances -> Progress] :
              [saved EXCEPT ![j] = p] \in [Jobs -> [Instances -> Progress]]
         /\ \A i \in Instances, s \in {"none", "RUNNING", "PAUSED", "SUCCESS"} :
              [window EXCEPT ![<<j, i>>] = s] \in
                [Jobs \X Instances -> {"none", "RUNNING", "PAUSED", "SUCCESS"}]
BY DEF TypeOK, Unfinished

LEMMA GotoType ==
  ASSUME TypeOK, NEW t \in Tasks, NEW from, from # "idle",
         NEW to \in Working \cup {"scheduled", "claiming", "failed"},
         Goto(t, from, to), UNCHANGED job
  PROVE  /\ task' \in [Tasks -> Working \cup {"idle", "scheduled", "claiming", "failed"}]
         /\ job' \in [Tasks \cup Requests -> Jobs \cup {NoJob}]
         /\ \A u \in Tasks : job'[u] = NoJob <=> task'[u] = "idle"
BY DEF TypeOK, Goto, Working

LEMMA EnqueueType ==
  ASSUME TypeOK, NEW j \in Jobs, NEW t \in Tasks, Enqueue(j, t)
  PROVE  TypeOK'
BY ActorsAssumption, JobsAssumption
DEF Enqueue, TypeOK, Schedule, Working, Unfinished

LEMMA AskType ==
  ASSUME TypeOK, NEW r \in Requests, NEW j \in Jobs, Asks(r, j)
  PROVE  TypeOK'
<1>1. PICK what \in {"retrying", "deleting"} :
        /\ request' = [request EXCEPT ![r] = what]
        /\ job' = [job EXCEPT ![r] = j]
        /\ UNCHANGED <<tables, active, tasks, restarts, skipped>>
  BY DEF Asks, Ask
<1>2. QED
  BY <1>1, ActorsAssumption, JobsAssumption DEF TypeOK, tables, tasks

LEMMA RetryType ==
  ASSUME TypeOK, RequestsOK, NEW r \in Requests, NEW t \in Tasks, Retry(r, t)
  PROVE  TypeOK'
<1>1. job[r] \in Jobs
  BY DEF Retry, RequestsOK
<1>2. CASE status[job[r]] = "deleted"
  <2>1. /\ request' = [request EXCEPT ![r] = "idle"]
        /\ job' = [job EXCEPT ![r] = NoJob]
        /\ UNCHANGED <<tables, active, tasks, restarts, skipped>>
    BY <1>2 DEF Retry, tables
  <2>2. QED
    BY <2>1, ActorsAssumption, JobsAssumption DEF TypeOK, tables, tasks
<1>3. CASE status[job[r]] # "deleted"
  <2>1. /\ request' = [request EXCEPT ![r] = "idle"]
        /\ job' = [job EXCEPT ![r] = NoJob, ![t] = job[r]]
        /\ status' = [status EXCEPT ![job[r]] = "PENDING"]
        /\ Schedule(t, job[r])
        /\ skipped' = skipped \ {job[r]}
        /\ UNCHANGED <<saved, rows, window, excused, active, restarts>>
    BY <1>3 DEF Retry
  <2>2. r # t /\ job'[t] = job[r] /\ job' \in [Tasks \cup Requests -> Jobs \cup {NoJob}]
    BY <1>1, <2>1, ActorsAssumption DEF TypeOK
  <2>3. status' \in [Jobs -> Unfinished \cup {"none", "SUCCESS", "FAILURE", "PAUSED", "deleted"}]
    BY <1>1, <2>1, RowTypes
  <2>4. \A u \in Tasks : job'[u] = NoJob <=> task'[u] = "idle"
    BY <1>1, <2>1, <2>2, ActorsAssumption, JobsAssumption DEF TypeOK, Schedule
  <2>5. QED
    BY <2>1, <2>2, <2>3, <2>4 DEF TypeOK, Schedule
<1>4. QED
  BY <1>2, <1>3

\* What a deletion takes is excused for every import.
LEMMA ExcusedType ==
  ASSUME TypeOK, NEW gone \in SUBSET Entries
  PROVE  (excused \cup Imports \X gone) \subseteq Jobs \X Entries
BY DEF TypeOK, Imports

LEMMA DeleteJobType ==
  ASSUME TypeOK, RequestsOK, NEW r \in Requests, DeleteJob(r)
  PROVE  TypeOK'
<1>1. job[r] \in Jobs
  BY DEF DeleteJob, RequestsOK
<1>2. CASE status[job[r]] = "deleted"
  <2>1. /\ request' = [request EXCEPT ![r] = "idle"]
        /\ job' = [job EXCEPT ![r] = NoJob]
        /\ UNCHANGED <<tables, active, tasks, restarts, skipped>>
    BY <1>2 DEF DeleteJob
  <2>2. QED
    BY <2>1, ActorsAssumption, JobsAssumption DEF TypeOK, tables, tasks
<1>3. CASE status[job[r]] # "deleted"
  <2>1. window' \in [Jobs \X Instances -> {"none", "RUNNING", "PAUSED", "SUCCESS"}]
    <3>1. window' = [w \in Jobs \X Instances |->
                       IF w[1] = job[r] THEN "none" ELSE window[w]]
      BY <1>3 DEF DeleteJob
    <3>2. QED
      BY <3>1 DEF TypeOK
  <2>2. rows' \in [Entries -> Jobs \cup {NoJob}]
    BY <1>3 DEF DeleteJob, TypeOK
  <2>3. excused' \subseteq Jobs \X Entries
    BY <1>3, ExcusedType DEF DeleteJob
  <2>4. QED
    BY <1>1, <1>3, <2>1, <2>2, <2>3, ActorsAssumption, JobsAssumption
    DEF DeleteJob, TypeOK, tasks
<1>4. QED
  BY <1>2, <1>3

\* What a task that ends leaves behind.
LEMMA OverType ==
  ASSUME TypeOK, NEW t \in Tasks, Over(t), UNCHANGED <<tables, request, restarts>>,
         active' \subseteq active, skipped' \subseteq Jobs
  PROVE  TypeOK'
BY NoProgressType, SomeInstanceType, ActorsAssumption, JobsAssumption
DEF TypeOK, Over, tables

LEMMA RestartType ==
  ASSUME TypeOK, Restart, restarts' \in 0..MaxRestarts
  PROVE  TypeOK'
BY NoProgressType, SomeInstanceType, JobsAssumption, ActorsAssumption
DEF TypeOK, Restart, Unfinished

LEMMA TakingType ==
  ASSUME TypeOK, NEW t \in Tasks, ReadJob(t) \/ Claim(t) \/ Finish(t) \/ Fail(t)
  PROVE  TypeOK'
<1>1. job[t] \in Jobs
  BY JobInHand DEF ReadJob, Claim, Finish, Fail, Working
<1>2. skipped \subseteq Jobs
  BY DEF TypeOK
<1>3. CASE ReadJob(t)
  <2>1. CASE status[job[t]] = "PENDING"
    <3>1. Goto(t, "scheduled", "claiming") /\ UNCHANGED job
      BY <1>3, <2>1 DEF ReadJob, Goto
    <3>2. runtime' \in [Tasks -> [Instances -> Progress]]
      <4>1. saved[job[t]] \in [Instances -> Progress]
        BY <1>1 DEF TypeOK
      <4>2. runtime' = [runtime EXCEPT ![t] = saved[job[t]]]
        BY <1>3, <2>1 DEF ReadJob
      <4>3. QED
        BY <4>1, <4>2 DEF TypeOK
    <3>3. QED
      BY <1>3, <2>1, <3>1, <3>2, GotoType DEF ReadJob, TypeOK, tables
  <2>2. CASE status[job[t]] # "PENDING"
    BY <1>1, <1>3, <2>2, <1>2, OverType DEF ReadJob
  <2>3. QED
    BY <2>1, <2>2
<1>4. CASE Claim(t)
  <2>1. CASE Key[job[t]] \in active
    BY <1>1, <1>4, <2>1, <1>2, OverType DEF Claim
  <2>2. CASE Key[job[t]] \notin active
    BY <1>1, <1>4, <2>2, GotoType DEF Claim, TypeOK, tables, Working
  <2>3. QED
    BY <2>1, <2>2
<1>5. CASE Finish(t)
  BY <1>1, <1>5, <1>2, OverType DEF Finish
<1>6. CASE Fail(t)
  <2>1. runtime' \in [Tasks -> [Instances -> Progress]]
    BY <1>6, NoProgressType DEF Fail, TypeOK
  <2>2. QED
    BY <1>1, <1>6, <2>1 DEF Fail, TypeOK, Working
<1>7. QED
  BY <1>3, <1>4, <1>5, <1>6

LEMMA ImportType ==
  ASSUME TypeOK, NEW t \in Tasks,
         \/ Start(t) \/ Choose(t) \/ NextPage(t) \/ Fetch(t) \/ Insert(t)
         \/ Close(t) \/ Pause(t) \/ Complete(t)
  PROVE  TypeOK'
<1> USE DEF Persist, Upsert
<1>1. job[t] \in Jobs
  BY JobInHand DEF Start, Choose, NextPage, Fetch, Takes, Insert, Close, Pause, Complete, Goto
<1>2. runtime[t] \in [Instances -> Progress] /\ at[t] \in Instances
  BY DEF TypeOK
<1>3. CASE Start(t)
  BY <1>1, <1>2, <1>3, GotoType, RowTypes DEF Start, TypeOK, Working
<1>4. CASE Choose(t)
  <2>1. PICK i \in Instances :
          /\ at' = [at EXCEPT ![t] = i]
          /\ window' = [window EXCEPT ![<<job[t], i>>] = "RUNNING"]
    BY <1>1, <1>4, ScopeAssumption DEF Choose
  <2>2. at' \in [Tasks -> Instances] /\ batch' \in [Tasks -> SUBSET (1..Total)]
    BY <1>4, <2>1 DEF TypeOK, Choose
  <2>3. seen' \in [Tasks -> SUBSET SUBSET (1..Total)]
    BY <1>4 DEF TypeOK, Choose
  <2>4. QED
    BY <1>1, <1>2, <1>4, <2>1, <2>2, <2>3, GotoType, RowTypes DEF Choose, TypeOK, Working
<1>5. CASE Fetch(t) \/ NextPage(t)
  <2>1. CASE Fetch(t)
    <3>1. batch' \in [Tasks -> SUBSET (1..Total)]
      BY <2>1 DEF Fetch, Takes, TypeOK, Pages
    <3>2. QED
      BY <2>1, <3>1, GotoType DEF Fetch, Takes, TypeOK, tables, Working
  <2>2. CASE NextPage(t)
    BY <1>1, <1>2, <2>2, GotoType, RowTypes DEF NextPage, TypeOK, Working
  <2>3. QED
    BY <1>5, <2>1, <2>2
<1>6. CASE Insert(t)
  <2>1. rows' \in [Entries -> Jobs \cup {NoJob}]
    BY <1>1, <1>6 DEF Insert, TypeOK
  <2>2. QED
    BY <1>6, <2>1, GotoType DEF Insert, TypeOK, Working
<1>7. CASE Close(t)
  BY <1>1, <1>2, <1>7, GotoType, RowTypes DEF Close, TypeOK, Working
<1>8. CASE Pause(t)
  BY <1>1, <1>2, <1>8, GotoType, RowTypes DEF Pause, TypeOK, Working
<1>9. CASE Complete(t)
  BY <1>1, <1>2, <1>9, GotoType, RowTypes DEF Complete, TypeOK, Working
<1>10. QED
  BY <1>3, <1>4, <1>5, <1>6, <1>7, <1>8, <1>9

LEMMA DeletionType ==
  ASSUME TypeOK, NEW t \in Tasks, StartDelete(t) \/ Delete(t) \/ Report(t)
  PROVE  TypeOK'
<1>1. job[t] \in Jobs
  BY JobInHand DEF StartDelete, Delete, Report, Goto
<1>2. CASE StartDelete(t)
  BY <1>1, <1>2, GotoType, RowTypes DEF StartDelete, TypeOK, Working
<1>3. CASE Delete(t)
  <2>1. /\ rows' \in [Entries -> Jobs \cup {NoJob}]
        /\ window' \in [Jobs \X Instances -> {"none", "RUNNING", "PAUSED", "SUCCESS"}]
    BY <1>3 DEF Delete, TypeOK
  <2>2. excused' \subseteq Jobs \X Entries
    BY <1>3, ExcusedType DEF Delete
  <2>3. QED
    BY <1>3, <2>1, <2>2, GotoType DEF Delete, TypeOK, Working
<1>4. CASE Report(t)
  BY <1>1, <1>4, GotoType, RowTypes DEF Report, TypeOK, Working
<1>5. QED
  BY <1>2, <1>3, <1>4

\* The steps that change the progress at one instance.
LEMMA ProgressType ==
  ASSUME TypeOK, NEW t \in Tasks,
         FetchFails(t) \/ FetchRepeats(t) \/ Save(t) \/ Check(t)
  PROVE  TypeOK'
<1> USE DEF Persist, Upsert
<1>1. job[t] \in Jobs
  BY JobInHand DEF FetchFails, FetchRepeats, Save, Check, Goto
<1>2. Here(t) \in Progress /\ at[t] \in Instances
  BY SomeInstanceType, NoProgressType, WithType, SizesAssumption DEF TypeOK, Here
<1>3. \A p \in Progress : /\ With(t, p) \in [Instances -> Progress]
                          /\ [runtime EXCEPT ![t] = With(t, p)] \in
                               [Tasks -> [Instances -> Progress]]
  BY <1>2 DEF TypeOK, With
<1>4. CASE FetchFails(t)
  <2> DEFINE more == [Here(t) EXCEPT !.failures = Min({@ + 1, MaxFailures})]
  <2>1. more \in Progress
    <3>1. Here(t).failures + 1 \in Nat
      BY <1>2, SizesAssumption DEF Progress
    <3>2. Min({Here(t).failures + 1, MaxFailures}) \in 0..MaxFailures
      BY <3>1, MinOfTwo, SizesAssumption
    <3>3. QED
      BY <1>2, <3>2 DEF Progress
  <2> HIDE DEF more
  <2>2. \E to \in {"pausing", "paging"}, s \in {"PAUSED", "RUNNING"} :
          /\ Goto(t, "fetching", to)
          /\ Persist(t, With(t, more), s)
    BY <1>4 DEF FetchFails, more
  <2>3. QED
    BY <1>1, <1>2, <1>3, <1>4, <2>1, <2>2, GotoType, RowTypes
    DEF FetchFails, more, TypeOK, Working
<1>5. CASE FetchRepeats(t)
  <2> DEFINE stuck == [Here(t) EXCEPT !.failures = MaxFailures]
  <2>1. stuck \in Progress
    BY <1>2, SizesAssumption DEF Progress
  <2> HIDE DEF stuck
  <2>2. QED
    BY <1>1, <1>2, <1>3, <1>5, <2>1, GotoType, RowTypes
    DEF FetchRepeats, stuck, TypeOK, Working
<1>6. CASE Save(t)
  <2> DEFINE next == [Here(t) EXCEPT !.start = Min({Passed(t), Total + 1}), !.failures = 0]
  <2>1. next \in Progress
    BY <1>2, CheckpointMoves, CheckpointType
  <2> HIDE DEF next
  <2>2. \E to \in {"checking", "paging"} : Goto(t, "saving", to)
    BY <1>6 DEF Save
  <2>3. /\ batch' \in [Tasks -> SUBSET (1..Total)]
        /\ seen' \in [Tasks -> SUBSET SUBSET (1..Total)]
    BY <1>6 DEF Save, TypeOK
  <2>4. excused' \subseteq Jobs \X Entries
    <3>1. Misses(t) \subseteq Jobs \X Entries
      BY <1>1, <1>2 DEF Misses, Entries
    <3>2. QED
      BY <1>6, <3>1 DEF Save, TypeOK
  <2>5. /\ runtime' = [runtime EXCEPT ![t] = With(t, next)]
        /\ Persist(t, With(t, next), "RUNNING")
        /\ UNCHANGED <<rows, active, at, job, request, restarts, skipped>>
        /\ Upsert(t, "RUNNING")
    BY <1>6 DEF Save, next
  <2>6. QED
    BY <1>1, <1>2, <1>3, <2>1, <2>2, <2>3, <2>4, <2>5, GotoType, RowTypes
    DEF TypeOK, Working
<1>7. CASE Check(t)
  <2> DEFINE p == [Here(t) EXCEPT !.done = (Here(t).start = Total)]
  <2>1. p \in Progress
    BY <1>2 DEF Progress
  <2> HIDE DEF p
  <2>2. \E to \in {"closing", "pausing"}, s \in {"PAUSED", "RUNNING"} :
          /\ Goto(t, "checking", to)
          /\ Persist(t, With(t, p), s)
    BY <1>7 DEF Check, p
  <2>3. QED
    BY <1>1, <1>2, <1>3, <1>7, <2>1, <2>2, GotoType, RowTypes
    DEF Check, p, TypeOK, Working
<1>8. QED
  BY <1>4, <1>5, <1>6, <1>7

LEMMA TypeStep ==
  ASSUME TypeOK, RequestsOK, [Next]_vars
  PROVE  TypeOK'
<1>1. ASSUME NEW t \in Tasks, Die(t) PROVE TypeOK'
  BY <1>1, RestartType DEF Die, TypeOK
<1>2. ASSUME Crash PROVE TypeOK'
  <2>1. restarts' \in 0..MaxRestarts
    BY <1>2, SizesAssumption DEF Crash, TypeOK
  <2>2. QED
    BY <1>2, <2>1, RestartType DEF Crash
<1>3. CASE UNCHANGED vars
  BY <1>3 DEF vars, tables, tasks, TypeOK
<1>4. QED
  BY <1>1, <1>2, <1>3, EnqueueType, AskType, RetryType, DeleteJobType,
     TakingType, ImportType, DeletionType, ProgressType DEF Next, Step

-----------------------------------------------------------------------------
(***************************************************************************)
(* What the steps leave alone                                              *)
(***************************************************************************)
OthersKeep(t) ==
  \A u \in Tasks \ {t} :
    /\ task'[u] = task[u] /\ job'[u] = job[u]
    /\ runtime'[u] = runtime[u] /\ at'[u] = at[u]
    /\ batch'[u] = batch[u] /\ seen'[u] = seen[u]

RequestsKeep == request' = request /\ \A r \in Requests : job'[r] = job[r]

\* A job's row is written by the tasks that are about it, which keep it unless
\* they end.
OnlyOwnRow(t) ==
  /\ \A j \in Jobs : j # job[t] => status'[j] = status[j] /\ saved'[j] = saved[j]
  /\ job'[t] = job[t] \/ task'[t] = "idle"

\* All that a task may do but to end the process.
Advance(t) ==
  \/ ReadJob(t) \/ Claim(t) \/ Start(t) \/ Choose(t) \/ NextPage(t) \/ Fetch(t)
  \/ FetchFails(t) \/ FetchRepeats(t) \/ Insert(t) \/ Save(t) \/ Check(t)
  \/ Close(t) \/ Pause(t) \/ Complete(t) \/ StartDelete(t) \/ Delete(t)
  \/ Report(t) \/ Finish(t) \/ Fail(t)

LEMMA OverFrame ==
  ASSUME TypeOK, NEW t \in Tasks, Over(t), UNCHANGED request
  PROVE  OthersKeep(t) /\ RequestsKeep /\ task'[t] = "idle"
BY ActorsAssumption DEF Over, TypeOK, OthersKeep, RequestsKeep

LEMMA AdvanceFrame ==
  ASSUME TypeOK, NEW t \in Tasks, Advance(t)
  PROVE  /\ OthersKeep(t) /\ RequestsKeep /\ OnlyOwnRow(t)
         /\ task[t] # "idle" /\ job[t] \in Jobs
<1>1. task[t] # "idle" /\ job[t] \in Jobs
  <2>1. task[t] # "idle"
    BY DEF Advance, ReadJob, Claim, Start, Choose, NextPage, Fetch, Takes, FetchFails, FetchRepeats,
      Insert, Save, Check, Close, Pause, Complete, StartDelete, Delete, Report,
      Finish, Fail, Goto, Working
  <2>2. QED
    BY <2>1, JobInHand
<1>2. CASE ReadJob(t) \/ Claim(t) \/ Finish(t)
  <2>1. UNCHANGED <<status, saved, request>>
    BY <1>2 DEF ReadJob, Claim, Finish, tables
  <2>2. CASE Over(t)
    BY <1>1, <2>1, <2>2, OverFrame DEF OnlyOwnRow
  <2>3. CASE ~Over(t)
    BY <1>1, <1>2, <2>1, <2>3, ActorsAssumption
    DEF ReadJob, Claim, Finish, Goto, TypeOK, OthersKeep, RequestsKeep, OnlyOwnRow
  <2>4. QED
    BY <2>2, <2>3
<1>3. CASE ~(ReadJob(t) \/ Claim(t) \/ Finish(t))
  <2>1. UNCHANGED <<job, request>>
    BY <1>3 DEF Advance, Start, Choose, NextPage, Fetch, Takes, FetchFails, FetchRepeats, Insert,
      Save, Check, Close, Pause, Complete, StartDelete, Delete, Report, Fail
  <2>2. \A u \in Tasks \ {t} : task'[u] = task[u]
    BY <1>3 DEF Advance, Start, Choose, NextPage, Fetch, Takes, FetchFails, FetchRepeats, Insert,
      Save, Check, Close, Pause, Complete, StartDelete, Delete, Report, Fail,
      Goto, TypeOK
  <2>3. \A u \in Tasks \ {t} : /\ batch'[u] = batch[u] /\ at'[u] = at[u]
                               /\ seen'[u] = seen[u]
    BY <1>3 DEF Advance, Start, Choose, NextPage, Fetch, Takes, FetchFails, FetchRepeats, Insert,
      Save, Check, Close, Pause, Complete, StartDelete, Delete, Report, Fail,
      TypeOK
  <2>4. \A u \in Tasks \ {t} : runtime'[u] = runtime[u]
    BY <1>3 DEF Advance, Start, Choose, NextPage, Fetch, Takes, FetchFails, FetchRepeats, Insert,
      Save, Check, Close, Pause, Complete, StartDelete, Delete, Report, Fail,
      TypeOK
  <2>5. \A j \in Jobs : j # job[t] => status'[j] = status[j] /\ saved'[j] = saved[j]
    BY <1>1, <1>3 DEF Advance, Start, Choose, NextPage, Fetch, Takes, FetchFails, FetchRepeats, Insert,
      Save, Check, Close, Pause, Complete, StartDelete, Delete, Report, Fail,
      Persist, tables, TypeOK
  <2>6. QED
    BY <1>1, <2>1, <2>2, <2>3, <2>4, <2>5 DEF OthersKeep, RequestsKeep, OnlyOwnRow
<1>4. QED
  BY <1>2, <1>3

\* A job that is enqueued or retried gets a task that was idle.
SetsOff(j, t) ==
  /\ task[t] = "idle" /\ task'[t] = "scheduled" /\ job'[t] = j
  /\ status'[j] = "PENDING"
  /\ \A k \in Jobs \ {j} : status'[k] = status[k]
  /\ \A u \in Tasks \ {t} : task'[u] = task[u] /\ job'[u] = job[u]
  /\ skipped \ {j} \subseteq skipped'
  /\ UNCHANGED <<saved, rows, window, excused, active, runtime, at, batch, seen>>

LEMMA EnqueueFrame ==
  ASSUME TypeOK, NEW j \in Jobs, NEW t \in Tasks, Enqueue(j, t)
  PROVE  SetsOff(j, t) /\ RequestsKeep
BY ActorsAssumption DEF Enqueue, Schedule, TypeOK, SetsOff, RequestsKeep

\* Only the requests that are over have no job.
OneRequest(r) ==
  /\ \A q \in Requests \ {r} : request'[q] = request[q] /\ job'[q] = job[q]
  /\ request'[r] = "idle" \/ job'[r] \in Jobs

NothingElse == UNCHANGED <<tables, active, tasks, skipped>>
                 /\ \A t \in Tasks : job'[t] = job[t]

LEMMA RequestFrame ==
  ASSUME TypeOK, RequestsOK, NEW r \in Requests
  PROVE  /\ \A j \in Jobs : Asks(r, j) => OneRequest(r) /\ NothingElse
         /\ \A t \in Tasks : Retry(r, t) =>
              /\ OneRequest(r)
              /\ NothingElse \/ \E j \in Jobs : SetsOff(j, t)
         /\ DeleteJob(r) =>
              /\ OneRequest(r)
              /\ NothingElse \/ /\ status' = [status EXCEPT ![job[r]] = "deleted"]
                                /\ UNCHANGED <<saved, active, tasks, skipped>>
                                /\ \A t \in Tasks : job'[t] = job[t]
<1>1. ASSUME NEW j \in Jobs, Asks(r, j) PROVE OneRequest(r) /\ NothingElse
  BY <1>1, ActorsAssumption DEF Asks, Ask, TypeOK, OneRequest, NothingElse
<1>2. ASSUME NEW t \in Tasks, Retry(r, t)
      PROVE  OneRequest(r) /\ (NothingElse \/ \E j \in Jobs : SetsOff(j, t))
  <2>1. job[r] \in Jobs /\ r # t
    BY <1>2, ActorsAssumption DEF Retry, RequestsOK
  <2>2. CASE status[job[r]] = "deleted"
    BY <1>2, <2>1, <2>2, ActorsAssumption
    DEF Retry, TypeOK, OneRequest, NothingElse, tables
  <2>3. CASE status[job[r]] # "deleted"
    <3>1. SetsOff(job[r], t)
      BY <1>2, <2>1, <2>3, ActorsAssumption DEF Retry, Schedule, TypeOK, SetsOff
    <3>2. OneRequest(r)
      BY <1>2, <2>1, <2>3, ActorsAssumption DEF Retry, TypeOK, OneRequest
    <3>3. QED
      BY <2>1, <3>1, <3>2
  <2>4. QED
    BY <2>2, <2>3
<1>3. ASSUME DeleteJob(r)
      PROVE  /\ OneRequest(r)
             /\ NothingElse \/ /\ status' = [status EXCEPT ![job[r]] = "deleted"]
                               /\ UNCHANGED <<saved, active, tasks, skipped>>
                               /\ \A t \in Tasks : job'[t] = job[t]
  BY <1>3, ActorsAssumption DEF DeleteJob, TypeOK, OneRequest, NothingElse, tasks
<1>4. QED
  BY <1>1, <1>2, <1>3

-----------------------------------------------------------------------------
(***************************************************************************)
(* The jobs' rows and the tasks                                            *)
(***************************************************************************)
Control ==
  /\ RequestsOK
  /\ KeysAreExclusive
  /\ RunningIsRunning
  /\ PendingIsScheduled
  /\ EndingsOK

LEMMA InitControl == Init => Control
BY DEF Init, Control, RequestsOK, KeysAreExclusive, RunningIsRunning,
       PendingIsScheduled, EndingsOK, InHand, Working

LEMMA RestartControl ==
  ASSUME TypeOK, Restart
  PROVE  Control'
BY DEF Restart, Control, RequestsOK, KeysAreExclusive, RunningIsRunning,
       PendingIsScheduled, EndingsOK, InHand, Working, Unfinished, TypeOK

LEMMA SetsOffControl ==
  ASSUME TypeOK, Control, RequestsOK', NEW j \in Jobs, NEW t \in Tasks, SetsOff(j, t)
  PROVE  Control'
<1> USE DEF SetsOff, InHand, Working
<1>1. KeysAreExclusive'
  BY DEF Control, KeysAreExclusive
<1>2. RunningIsRunning'
  BY DEF Control, RunningIsRunning
<1>3. PendingIsScheduled'
  BY DEF Control, PendingIsScheduled
<1>4. EndingsOK'
  BY JobInHand DEF Control, EndingsOK
<1>5. QED
  BY <1>1, <1>2, <1>3, <1>4 DEF Control

LEMMA DeletedControl ==
  ASSUME TypeOK, Control, RequestsOK', UNCHANGED <<task, active, skipped>>,
         \A t \in Tasks : job'[t] = job[t],
         \A k \in Jobs : status'[k] \in {status[k], "deleted"}
  PROVE  Control'
BY JobInHand DEF Control, KeysAreExclusive, RunningIsRunning, PendingIsScheduled,
   EndingsOK, InHand, Working

LEMMA AdvanceKeys ==
  ASSUME TypeOK, KeysAreExclusive, NEW t \in Tasks, Advance(t)
  PROVE  KeysAreExclusive'
<1>1. /\ OthersKeep(t) /\ RequestsKeep /\ OnlyOwnRow(t)
      /\ task[t] # "idle" /\ job[t] \in Jobs
  BY AdvanceFrame
<1>2. CASE Claim(t)
  <2>1. \A u \in Tasks \ {t} : (InHand(u)' <=> InHand(u)) /\ job'[u] = job[u]
    BY <1>1 DEF OthersKeep, InHand
  <2>2. ~InHand(t)
    BY <1>2 DEF Claim, InHand, Working
  <2>3. CASE Key[job[t]] \in active
    <3>1. ~InHand(t)' /\ active' = active
      BY <1>2, <2>3 DEF Claim, Over, TypeOK, InHand, Working
    <3>2. QED
      BY <2>1, <2>2, <3>1 DEF KeysAreExclusive
  <2>4. CASE Key[job[t]] \notin active
    <3>1. active' = active \cup {Key[job[t]]} /\ InHand(t)' /\ job'[t] = job[t]
      BY <1>2, <2>4 DEF Claim, Goto, TypeOK, InHand, Working
    <3>2. \A u \in Tasks \ {t} : InHand(u) => Key[job[u]] # Key[job[t]]
      BY <2>4 DEF KeysAreExclusive
    <3>3. QED
      BY <2>1, <2>2, <3>1, <3>2 DEF KeysAreExclusive
  <2>5. QED
    BY <2>3, <2>4
<1>3. CASE Finish(t)
  <2>1. \A u \in Tasks \ {t} : (InHand(u)' <=> InHand(u)) /\ job'[u] = job[u]
    BY <1>1 DEF OthersKeep, InHand
  <2>2. InHand(t) /\ ~InHand(t)' /\ active' = active \ {Key[job[t]]}
    BY <1>3 DEF Finish, Over, TypeOK, InHand, Working
  <2>3. \A u \in Tasks \ {t} : InHand(u) => Key[job[u]] # Key[job[t]]
    BY <2>2 DEF KeysAreExclusive
  <2>4. QED
    BY <2>1, <2>2, <2>3 DEF KeysAreExclusive
<1>4. CASE ~(Claim(t) \/ Finish(t))
  <2>1. active' = active
    BY <1>4 DEF Advance, ReadJob, Start, Choose, NextPage, Fetch, Takes, FetchFails, FetchRepeats,
      Insert, Save, Check, Close, Pause, Complete, StartDelete, Delete, Report, Fail
  <2>2. InHand(t)' <=> InHand(t)
    BY <1>4 DEF Advance, ReadJob, Start, Choose, NextPage, Fetch, Takes, FetchFails, FetchRepeats,
      Insert, Save, Check, Close, Pause, Complete, StartDelete, Delete, Report, Fail,
      InHand, Working, Goto, Over, TypeOK
  <2>3. InHand(t) => job'[t] = job[t]
    BY <1>1, <2>2 DEF OnlyOwnRow, InHand, Working
  <2>4. \A u \in Tasks : /\ InHand(u)' <=> InHand(u)
                         /\ InHand(u) => job'[u] = job[u]
    BY <1>1, <2>2, <2>3 DEF OthersKeep, InHand
  <2>5. QED
    BY <2>1, <2>4 DEF KeysAreExclusive
<1>5. QED
  BY <1>2, <1>3, <1>4

\* What a task may do to the status of its job.
Wrote(t) ==
  \/ /\ status'[job[t]] = status[job[t]]
     /\ task[t] \in Working => task'[t] \in Working \/ task[t] = "releasing"
     /\ task'[t] \in {"pausing", "releasing", "failed"} =>
          task[t] \in {"pausing", "releasing", "failed"}
     /\ task[t] # "starting"
     /\ task[t] = "scheduled" /\ status[job[t]] = "PENDING" => task'[t] = "claiming"
     /\ task[t] = "claiming" => job[t] \in skipped' \/ task'[t] = "starting"
  \/ /\ status'[job[t]] = "RUNNING"
     /\ InHand(t)
     /\ task'[t] \in Working \ {"pausing", "releasing"}
  \/ /\ status'[job[t]] \in {"PAUSED", "SUCCESS", "FAILURE"}

LEMMA AdvanceWrites ==
  ASSUME TypeOK, NEW t \in Tasks, Advance(t)
  PROVE  Wrote(t)
<1>1. job[t] \in Jobs /\ task \in [Tasks -> Working \cup {"idle", "scheduled", "claiming", "failed"}]
  BY AdvanceFrame DEF TypeOK
<1> USE <1>1 DEF Wrote, Goto, Working, InHand, Persist
<1>2. CASE ReadJob(t)
  BY <1>2 DEF ReadJob, Over, tables
<1>3. CASE Claim(t)
  BY <1>3 DEF Claim, Over, tables, TypeOK
<1>4. CASE Start(t) \/ Choose(t) \/ NextPage(t) \/ FetchRepeats(t) \/ Complete(t)
  BY <1>4 DEF Start, Choose, NextPage, FetchRepeats, Complete, TypeOK
<1>5. CASE Fetch(t) \/ Insert(t) \/ Close(t) \/ Pause(t) \/ Delete(t)
  BY <1>5 DEF Fetch, Takes, Insert, Close, Pause, Delete, tables
<1>6. CASE FetchFails(t)
  BY <1>6 DEF FetchFails, TypeOK
<1>7. CASE Save(t)
  BY <1>7 DEF Save, TypeOK
<1>8. CASE Check(t)
  BY <1>8 DEF Check, TypeOK
<1>9. CASE StartDelete(t) \/ Report(t) \/ Fail(t)
  BY <1>9 DEF StartDelete, Report, Fail, TypeOK
<1>10. CASE Finish(t)
  BY <1>10 DEF Finish, Over, tables
<1>11. QED
  BY <1>2, <1>3, <1>4, <1>5, <1>6, <1>7, <1>8, <1>9, <1>10 DEF Advance

LEMMA AdvanceControl ==
  ASSUME TypeOK, Control, NEW t \in Tasks, Advance(t)
  PROVE  Control'
<1>1. /\ OthersKeep(t) /\ RequestsKeep /\ OnlyOwnRow(t)
      /\ task[t] # "idle" /\ job[t] \in Jobs
  BY AdvanceFrame
<1>2. Wrote(t)
  BY AdvanceWrites
<1>3. RequestsOK'
  BY <1>1 DEF Control, RequestsOK, RequestsKeep
<1>4. KeysAreExclusive'
  BY AdvanceKeys DEF Control
<1>5. skipped \subseteq skipped'
  BY DEF Advance, ReadJob, Claim, Start, Choose, NextPage, Fetch, Takes, FetchFails, FetchRepeats,
    Insert, Save, Check, Close, Pause, Complete, StartDelete, Delete, Report,
    Finish, Fail
<1>6. RunningIsRunning'
  <2> SUFFICES ASSUME NEW k \in Jobs, status'[k] = "RUNNING"
               PROVE  \E u \in Tasks : job'[u] = k /\ task'[u] \in Working
    BY DEF RunningIsRunning
  <2>1. CASE k # job[t]
    BY <1>1, <2>1 DEF Control, RunningIsRunning, OthersKeep, OnlyOwnRow
  <2>2. CASE k = job[t]
    <3>1. CASE task'[t] \in Working
      BY <1>1, <2>2, <3>1 DEF OnlyOwnRow, Working
    <3>2. CASE task'[t] \notin Working
      <4>1. status[k] = "RUNNING" /\ task[t] \notin Working
        BY <1>2, <2>2, <3>2 DEF Wrote, Control, EndingsOK
      <4>2. QED
        BY <1>1, <4>1 DEF Control, RunningIsRunning, OthersKeep
    <3>3. QED
      BY <3>1, <3>2
  <2>3. QED
    BY <2>1, <2>2
<1>7. PendingIsScheduled'
  <2> SUFFICES ASSUME NEW k \in Jobs \ skipped', status'[k] = "PENDING"
               PROVE  \E u \in Tasks : /\ job'[u] = k
                                       /\ task'[u] \in {"scheduled", "claiming", "starting"}
    BY DEF PendingIsScheduled
  <2>1. status[k] = "PENDING"
    BY <1>1, <1>2 DEF OnlyOwnRow, Wrote
  <2>2. PICK u \in Tasks : job[u] = k /\ task[u] \in {"scheduled", "claiming", "starting"}
    BY <1>5, <2>1 DEF Control, PendingIsScheduled
  <2>3. CASE u = t
    BY <1>1, <1>2, <2>1, <2>2, <2>3 DEF Wrote, OnlyOwnRow, Working
  <2>4. CASE u # t
    BY <1>1, <2>2, <2>4 DEF OthersKeep
  <2>5. QED
    BY <2>3, <2>4
<1>8. ASSUME NEW u \in Tasks, task'[u] \in {"pausing", "releasing", "failed"}
      PROVE  status'[job'[u]] # "RUNNING"
  <2>1. CASE u = t
    BY <1>1, <1>2, <1>8, <2>1 DEF OnlyOwnRow, Wrote, Control, EndingsOK, Working
  <2>2. CASE u # t
    <3>1. job'[u] = job[u] /\ task'[u] = task[u] /\ InHand(u) /\ job[u] \in Jobs
      BY <1>1, <1>8, <2>2, JobInHand DEF OthersKeep, InHand, Working
    <3>2. CASE job[u] # job[t]
      BY <1>1, <1>8, <3>1, <3>2 DEF OnlyOwnRow, Control, EndingsOK
    <3>3. CASE job[u] = job[t]
      <4>1. ~InHand(t)
        BY <2>2, <3>1, <3>3 DEF Control, KeysAreExclusive
      <4>2. QED
        BY <1>2, <1>8, <3>1, <3>3, <4>1 DEF Wrote, Control, EndingsOK
    <3>4. QED
      BY <3>2, <3>3
  <2>3. QED
    BY <2>1, <2>2
<1>9. ASSUME NEW u \in Tasks, task'[u] \in {"deleting", "reporting"}
      PROVE  job'[u] \in Deletions
  <2>1. CASE u = t
    BY <1>1, <1>9, <2>1 DEF OnlyOwnRow, Control, EndingsOK, TypeOK,
      Advance, ReadJob, Claim, Start, Choose, NextPage, Fetch, Takes, FetchFails, FetchRepeats,
      Insert, Save, Check, Close, Pause, Complete, StartDelete, Delete, Report,
      Finish, Fail, Over, Goto
  <2>2. CASE u # t
    BY <1>1, <1>9, <2>2 DEF OthersKeep, Control, EndingsOK
  <2>3. QED
    BY <2>1, <2>2
<1>10. EndingsOK'
  BY <1>8, <1>9 DEF EndingsOK
<1>11. QED
  BY <1>3, <1>4, <1>6, <1>7, <1>10 DEF Control

-----------------------------------------------------------------------------
(***************************************************************************)
(* What was copied                                                         *)
(***************************************************************************)
LEMMA AdvancePage ==
  ASSUME TypeOK, PageOK, NEW t \in Tasks, Advance(t)
  PROVE  PageOK'
<1>1. /\ OthersKeep(t) /\ job[t] \in Jobs
      /\ task \in [Tasks -> Working \cup {"idle", "scheduled", "claiming", "failed"}]
      /\ batch \in [Tasks -> SUBSET (1..Total)]
  BY AdvanceFrame DEF TypeOK
<1>2. ASSUME NEW u \in Tasks \ {t}, task'[u] \in {"inserting", "saving"}
      PROVE  batch'[u] \notin seen'[u]
  BY <1>1, <1>2 DEF OthersKeep, PageOK
<1>3. CASE Fetch(t)
  BY <1>1, <1>2, <1>3 DEF Fetch, Takes, PageOK
<1>4. CASE Insert(t)
  BY <1>1, <1>2, <1>4 DEF Insert, Goto, PageOK
<1>5. CASE ~(Fetch(t) \/ Insert(t))
  <2>1. task'[t] \notin {"inserting", "saving"}
    BY <1>1, <1>5 DEF Advance, ReadJob, Claim, Start, Choose, NextPage, FetchFails,
      FetchRepeats, Save, Check, Close, Pause, Complete, StartDelete, Delete, Report,
      Finish, Fail, Over, Goto
  <2>2. QED
    BY <1>2, <2>1 DEF PageOK
<1>6. QED
  BY <1>3, <1>4, <1>5

AccountedNext(j, e) == rows'[e] # NoJob \/ <<j, e>> \in excused'

\* What is stored is only ever removed by a deletion, which excuses every import.
AccountStays ==
  \A j \in Imports, e \in Entries : Accounted(j, e) => AccountedNext(j, e)

LEMMA AdvanceKeeps ==
  ASSUME TypeOK, NEW t \in Tasks, Advance(t)
  PROVE  AccountStays
<1>1. job[t] \in Jobs /\ job[t] # NoJob
  BY AdvanceFrame, JobsAssumption
<1> USE DEF AccountStays, Accounted, AccountedNext, Stored
<1>2. CASE Insert(t)
  BY <1>1, <1>2 DEF Insert
<1>3. CASE Delete(t)
  BY <1>3 DEF Delete
<1>4. CASE Save(t)
  BY <1>4 DEF Save
<1>5. CASE ~(Insert(t) \/ Delete(t) \/ Save(t))
  <2>1. UNCHANGED <<rows, excused>>
    BY <1>5 DEF Advance, ReadJob, Claim, Start, Choose, NextPage, Fetch, Takes,
      FetchFails, FetchRepeats, Check, Close, Pause, Complete, StartDelete, Report,
      Finish, Fail, tables
  <2>2. QED
    BY <2>1
<1>6. QED
  BY <1>2, <1>3, <1>4, <1>5

LEMMA DeleteJobKeeps ==
  ASSUME TypeOK, NEW r \in Requests, DeleteJob(r)
  PROVE  AccountStays
<1> USE DEF AccountStays, Accounted, AccountedNext, Stored
<1>1. CASE status[job[r]] = "deleted"
  BY <1>1 DEF DeleteJob, tables
<1>2. CASE status[job[r]] # "deleted"
  BY <1>2 DEF DeleteJob
<1>3. QED
  BY <1>1, <1>2

TruthfulNext(j, progress) ==
  \A i \in Instances :
    /\ \A n \in 1..Total : n <= progress[i].start => AccountedNext(j, <<i, n>>)
    /\ progress[i].done => progress[i].start >= Total

LEMMA TruthLasts ==
  ASSUME AccountStays, NEW j \in Imports, NEW p, Truthful(j, p)
  PROVE  TruthfulNext(j, p)
BY DEF Truthful, TruthfulNext, AccountStays, Entries

LEMMA NoProgressIsTrue ==
  \A j : NoProgress \in [Instances -> Progress] /\ TruthfulNext(j, NoProgress)
BY NoProgressType DEF NoProgress, TruthfulNext

\* A task only ever replaces its copy of the progress, or its job's record of it, by
\* something true.
Truly(t) ==
  \E p \in [Instances -> Progress] :
    /\ job[t] \in Imports => TruthfulNext(job[t], p)
    /\ runtime' = [runtime EXCEPT ![t] = p]
    /\ \/ saved' = saved
       \/ saved' = [saved EXCEPT ![job[t]] = p]

\* What a checkpoint may count at the instance a task is working on
Counts(t, p) ==
  /\ \A n \in 1..Total : n <= p.start => AccountedNext(job[t], <<at[t], n>>)
  /\ p.done => p.start >= Total

LEMMA WithTruth ==
  ASSUME TypeOK, NEW t \in Tasks, NEW p \in Progress, Counts(t, p),
         TruthfulNext(job[t], runtime[t])
  PROVE  TruthfulNext(job[t], With(t, p))
<1>1. \A i \in Instances : With(t, p)[i] = IF i = at[t] THEN p ELSE runtime[t][i]
  BY WithType
<1>2. QED
  BY <1>1 DEF TruthfulNext, Counts

LEMMA ReadIsTrue ==
  ASSUME TypeOK, DataOK, AccountStays, NEW t \in Tasks, HasRead(t), job[t] \in Imports
  PROVE  TruthfulNext(job[t], runtime[t]) /\ Counts(t, Here(t))
<1>1. TruthfulNext(job[t], runtime[t])
  BY TruthLasts DEF DataOK
<1>2. QED
  BY <1>1 DEF TypeOK, TruthfulNext, Counts, Here

\* A page counts as far as it goes: what it passes and does not bring is excused.
LEMMA SaveCounts ==
  ASSUME TypeOK, PageOK, DataOK, AccountStays, NEW t \in Tasks, Save(t),
         job[t] \in Imports, NEW p, p.start = Min({Passed(t), Total + 1}),
         p.done = Here(t).done
  PROVE  Counts(t, p)
<1>1. at[t] \in Instances /\ HasRead(t)
  BY DEF TypeOK, Save, Goto, HasRead
<1>2. Counts(t, Here(t))
  BY <1>1, ReadIsTrue
<1>3. /\ Here(t).start \in 0..(Total + 1) /\ Cardinality(batch[t]) \in Nat
      /\ p.start \in {Passed(t), Total + 1} /\ p.start \in 0..(Total + 1)
      /\ p.start <= Passed(t)
  BY CheckpointMoves
<1>4. Passed(t) = Here(t).start + Cardinality(batch[t])
  BY DEF Passed
<1>5. ASSUME NEW n \in 1..Total, n <= p.start
      PROVE  AccountedNext(job[t], <<at[t], n>>)
  <2>1. CASE n <= Here(t).start
    BY <1>2, <2>1 DEF Counts
  <2>2. CASE n \in batch[t]
    <3>1. Accounted(job[t], <<at[t], n>>) /\ <<at[t], n>> \in Entries
      BY <1>1, <2>2 DEF DataOK, Save, Goto, Entries
    <3>2. QED
      BY <3>1 DEF AccountStays
  <2>3. CASE ~(n <= Here(t).start) /\ n \notin batch[t]
    <3>1. n <= Passed(t) /\ Here(t).start < n
      BY <1>3, <1>4, <1>5, <2>3, SizesAssumption
    <3>2. <<job[t], <<at[t], n>>>> \in Misses(t)
      BY <2>3, <3>1 DEF Misses
    <3>3. excused' = excused \cup Misses(t)
      BY DEF Save, Goto, PageOK
    <3>4. QED
      BY <3>2, <3>3 DEF AccountedNext
  <2>4. QED
    BY <2>1, <2>2, <2>3
<1>6. p.done => p.start >= Total
  BY <1>2, <1>3, <1>4, SizesAssumption DEF Counts
<1>7. QED
  BY <1>5, <1>6 DEF Counts

LEMMA ChangesTruly ==
  ASSUME TypeOK, PageOK, DataOK, AccountStays, NEW t \in Tasks,
         FetchFails(t) \/ FetchRepeats(t) \/ Save(t) \/ Check(t)
  PROVE  Truly(t)
<1>1. Here(t) \in Progress /\ HasRead(t)
  BY WithType, NoProgressType, SomeInstanceType
  DEF TypeOK, Here, HasRead, FetchFails, FetchRepeats, Save, Check, Goto
<1>2. job[t] \in Imports => TruthfulNext(job[t], runtime[t]) /\ Counts(t, Here(t))
  BY <1>1, ReadIsTrue
<1>3. SUFFICES ASSUME NEW p \in Progress,
                      runtime' = [runtime EXCEPT ![t] = With(t, p)],
                      saved' = [saved EXCEPT ![job[t]] = With(t, p)],
                      job[t] \in Imports => Counts(t, p)
               PROVE  Truly(t)
  <2>1. CASE FetchFails(t)
    <3> DEFINE p == [Here(t) EXCEPT !.failures = Min({@ + 1, MaxFailures})]
    <3>1. p \in Progress /\ p.start = Here(t).start /\ p.done = Here(t).done
      <4>1. Here(t).failures + 1 \in Nat
        BY <1>1, SizesAssumption DEF Progress
      <4>2. Min({Here(t).failures + 1, MaxFailures}) \in 0..MaxFailures
        BY <4>1, MinOfTwo, SizesAssumption
      <4>3. QED
        BY <1>1, <4>2 DEF Progress
    <3>2. runtime' = [runtime EXCEPT ![t] = With(t, p)]
      BY <2>1 DEF FetchFails
    <3>3. saved' = [saved EXCEPT ![job[t]] = With(t, p)]
      BY <2>1 DEF FetchFails, Persist
    <3> HIDE DEF p
    <3>4. job[t] \in Imports => Counts(t, p)
      BY <1>2, <3>1 DEF Counts
    <3>5. QED
      BY <1>3, <3>1, <3>2, <3>3, <3>4
  <2>2. CASE FetchRepeats(t)
    <3> DEFINE p == [Here(t) EXCEPT !.failures = MaxFailures]
    <3>1. p \in Progress /\ p.start = Here(t).start /\ p.done = Here(t).done
      BY <1>1, SizesAssumption DEF Progress
    <3>2. runtime' = [runtime EXCEPT ![t] = With(t, p)]
      BY <2>2 DEF FetchRepeats
    <3>3. saved' = [saved EXCEPT ![job[t]] = With(t, p)]
      BY <2>2 DEF FetchRepeats, Persist
    <3> HIDE DEF p
    <3>4. job[t] \in Imports => Counts(t, p)
      BY <1>2, <3>1 DEF Counts
    <3>5. QED
      BY <1>3, <3>1, <3>2, <3>3, <3>4
  <2>3. CASE Save(t)
    <3> DEFINE end == Min({Passed(t), Total + 1})
               p == [Here(t) EXCEPT !.start = end, !.failures = 0]
    <3>1. end \in 0..(Total + 1)
      BY CheckpointMoves
    <3>2. p \in Progress
      BY <1>1, <3>1, CheckpointType
    <3>3. p.start = end /\ p.done = Here(t).done
      BY <1>1 DEF Progress
    <3>4. runtime' = [runtime EXCEPT ![t] = With(t, p)]
      BY <2>3 DEF Save
    <3>5. saved' = [saved EXCEPT ![job[t]] = With(t, p)]
      BY <2>3 DEF Save, Persist
    <3> HIDE DEF p
    <3>6. job[t] \in Imports => Counts(t, p)
      BY <2>3, <3>3, SaveCounts
    <3>7. QED
      BY <1>3, <3>2, <3>4, <3>5, <3>6
  <2>4. CASE Check(t)
    <3> DEFINE p == [Here(t) EXCEPT !.done = (Here(t).start = Total)]
    <3>1. p \in Progress /\ p.start = Here(t).start /\ (p.done => p.start = Total)
      BY <1>1 DEF Progress
    <3>2. runtime' = [runtime EXCEPT ![t] = With(t, p)]
      BY <2>4 DEF Check
    <3>3. saved' = [saved EXCEPT ![job[t]] = With(t, p)]
      BY <2>4 DEF Check, Persist
    <3> HIDE DEF p
    <3>4. job[t] \in Imports => Counts(t, p)
      BY <1>2, <3>1, SizesAssumption DEF Counts
    <3>5. QED
      BY <1>3, <3>1, <3>2, <3>3, <3>4
  <2>5. QED
    BY <2>1, <2>2, <2>3, <2>4
<1>4. With(t, p) \in [Instances -> Progress]
  BY <1>3, WithType
<1>5. job[t] \in Imports => TruthfulNext(job[t], With(t, p))
  BY <1>2, <1>3, WithTruth
<1>6. QED
  BY <1>3, <1>4, <1>5 DEF Truly

LEMMA AdvanceTruly ==
  ASSUME TypeOK, PageOK, DataOK, AccountStays, NEW t \in Tasks, Advance(t)
  PROVE  Truly(t)
<1>1. /\ job[t] \in Jobs
      /\ runtime \in [Tasks -> [Instances -> Progress]]
      /\ saved \in [Jobs -> [Instances -> Progress]]
  BY AdvanceFrame DEF TypeOK
<1>2. CASE FetchFails(t) \/ FetchRepeats(t) \/ Save(t) \/ Check(t)
  BY <1>2, ChangesTruly
<1>3. CASE (Over(t) \/ Fail(t)) /\ saved' = saved
  BY <1>3, NoProgressIsTrue DEF Over, Fail, Truly
<1>4. CASE ReadJob(t) /\ ~Over(t)
  <2>1. runtime' = [runtime EXCEPT ![t] = saved[job[t]]] /\ saved' = saved
    BY <1>4 DEF ReadJob, tables
  <2>2. saved[job[t]] \in [Instances -> Progress]
    BY <1>1
  <2>3. job[t] \in Imports => TruthfulNext(job[t], saved[job[t]])
    BY TruthLasts DEF DataOK
  <2>4. QED
    BY <2>1, <2>2, <2>3 DEF Truly
<1>5. CASE \/ Start(t) \/ Choose(t) \/ NextPage(t) \/ Complete(t)
           \/ (Claim(t) /\ ~Over(t)) \/ Fetch(t) \/ Insert(t) \/ Close(t) \/ Pause(t)
           \/ StartDelete(t) \/ Delete(t) \/ Report(t)
  <2>1. /\ runtime' = runtime
        /\ saved' = saved \/ saved' = [saved EXCEPT ![job[t]] = runtime[t]]
    BY <1>5 DEF Start, Choose, NextPage, Complete, Persist, Claim, Fetch, Takes, Insert,
      Close, Pause, StartDelete, Delete, Report, tables
  <2>2. runtime[t] \in [Instances -> Progress] /\ runtime' = [runtime EXCEPT ![t] = runtime[t]]
    BY <1>1, <2>1
  <2>3. HasRead(t)
    BY <1>5 DEF HasRead, Goto, Working, Start, Choose, NextPage, Complete, Claim, Fetch, Takes,
      Insert, Close, Pause, StartDelete, Delete, Report, Fail
  <2>4. job[t] \in Imports => TruthfulNext(job[t], runtime[t])
    BY <2>3, ReadIsTrue
  <2>5. QED
    BY <2>1, <2>2, <2>4 DEF Truly
<1>6. ReadJob(t) \/ Claim(t) \/ Finish(t) \/ Fail(t) => saved' = saved
  BY DEF ReadJob, Claim, Finish, Fail, tables
<1>7. Finish(t) => Over(t)
  BY DEF Finish
<1>8. QED
  BY <1>2, <1>3, <1>4, <1>5, <1>6, <1>7 DEF Advance

LEMMA AdvanceData ==
  ASSUME TypeOK, PageOK, DataOK, NEW t \in Tasks, Advance(t)
  PROVE  DataOK'
<1>1. /\ OthersKeep(t) /\ OnlyOwnRow(t) /\ AccountStays
      /\ job[t] \in Jobs /\ job[t] # NoJob
  BY AdvanceFrame, AdvanceKeeps, JobsAssumption
<1>2. PICK p \in [Instances -> Progress] :
        /\ job[t] \in Imports => TruthfulNext(job[t], p)
        /\ runtime' = [runtime EXCEPT ![t] = p]
        /\ saved' = saved \/ saved' = [saved EXCEPT ![job[t]] = p]
  BY <1>1, AdvanceTruly DEF Truly
<1>3. ASSUME NEW j \in Imports PROVE TruthfulNext(j, saved'[j])
  <2>1. TruthfulNext(j, saved[j])
    BY <1>1, TruthLasts DEF DataOK
  <2>2. saved'[j] = saved[j] \/ (j = job[t] /\ saved'[j] = p)
    BY <1>2 DEF TypeOK, Imports
  <2>3. QED
    BY <1>2, <2>1, <2>2
<1>4. ASSUME NEW u \in Tasks, HasRead(u)', job'[u] \in Imports
      PROVE  TruthfulNext(job'[u], runtime'[u])
  <2>1. CASE u = t
    <3>1. runtime'[t] = p
      BY <1>2 DEF TypeOK
    <3>2. job'[t] = job[t]
      BY <1>1, <1>4, <2>1 DEF OnlyOwnRow, HasRead
    <3>3. QED
      BY <1>2, <1>4, <2>1, <3>1, <3>2
  <2>2. CASE u # t
    <3>1. /\ HasRead(u) /\ job'[u] = job[u] /\ runtime'[u] = runtime[u]
          /\ job[u] \in Imports
      BY <1>1, <1>4, <2>2 DEF OthersKeep, HasRead
    <3>2. TruthfulNext(job[u], runtime[u])
      BY <1>1, <3>1, ReadIsTrue
    <3>3. QED
      BY <3>1, <3>2
  <2>3. QED
    BY <2>1, <2>2
<1>5. ASSUME NEW u \in Tasks, task'[u] = "saving", job'[u] \in Imports,
             NEW n \in batch'[u]
      PROVE  AccountedNext(job'[u], <<at'[u], n>>)
  <2>1. CASE u # t
    <3>1. /\ task[u] = "saving" /\ n \in batch[u] /\ at'[u] = at[u]
          /\ job'[u] = job[u] /\ job[u] \in Imports
      BY <1>1, <1>5, <2>1 DEF OthersKeep
    <3>2. <<at[u], n>> \in Entries /\ Accounted(job[u], <<at[u], n>>)
      BY <3>1 DEF TypeOK, DataOK, Entries
    <3>3. QED
      BY <1>1, <3>1, <3>2 DEF AccountStays
  <2>2. CASE u = t
    <3>1. Insert(t)
      BY <1>5, <2>2 DEF TypeOK, Advance, ReadJob, Claim, Start, Choose, NextPage, Fetch,
        Takes, FetchFails, FetchRepeats, Save, Check, Close, Pause, Complete, StartDelete,
        Delete, Report, Finish, Fail, Over, Goto
    <3>2. n \in batch[t] /\ n \in 1..Total /\ at[t] \in Instances /\ at'[u] = at[t]
      BY <1>5, <2>2, <3>1 DEF Insert, TypeOK
    <3>3. <<at[t], n>> \in Entries
      BY <3>2 DEF Entries
    <3>4. rows'[<<at[t], n>>] # NoJob
      BY <1>1, <3>1, <3>2, <3>3 DEF Insert, Stored
    <3>5. QED
      BY <3>2, <3>4 DEF AccountedNext
  <2>3. QED
    BY <2>1, <2>2
<1>6. QED
  BY <1>3, <1>4, <1>5 DEF DataOK, Truthful, TruthfulNext, Accounted, AccountedNext, Stored

\* A task's memory stays, or goes with the task.
Quiet(t) ==
  \/ task'[t] \in {"idle", "scheduled"}
  \/ /\ task'[t] = task[t] /\ job'[t] = job[t] /\ runtime'[t] = runtime[t]
     /\ at'[t] = at[t] /\ batch'[t] = batch[t] /\ seen'[t] = seen[t]

\* All that keeps the tasks' memory, or clears it, keeps the data.
LEMMA QuietData ==
  ASSUME TypeOK, PageOK, DataOK, AccountStays, UNCHANGED saved,
         \A t \in Tasks : Quiet(t)
  PROVE  PageOK' /\ DataOK'
<1>1. PageOK'
  BY DEF PageOK, Quiet
<1>2. ASSUME NEW j \in Imports PROVE TruthfulNext(j, saved'[j])
  BY TruthLasts DEF DataOK
<1>3. ASSUME NEW t \in Tasks, HasRead(t)', job'[t] \in Imports
      PROVE  TruthfulNext(job'[t], runtime'[t])
  <2>1. HasRead(t) /\ job'[t] = job[t] /\ runtime'[t] = runtime[t]
    BY <1>3 DEF Quiet, HasRead
  <2>2. QED
    BY <1>3, <2>1, ReadIsTrue
<1>4. ASSUME NEW t \in Tasks, task'[t] = "saving", job'[t] \in Imports,
             NEW n \in batch'[t]
      PROVE  AccountedNext(job'[t], <<at'[t], n>>)
  <2>1. /\ task[t] = "saving" /\ job'[t] = job[t] /\ job[t] \in Imports
        /\ at'[t] = at[t] /\ n \in batch[t]
    BY <1>4 DEF Quiet
  <2>2. <<at[t], n>> \in Entries /\ Accounted(job[t], <<at[t], n>>)
    BY <2>1 DEF TypeOK, DataOK, Entries
  <2>3. QED
    BY <2>1, <2>2 DEF AccountStays
<1>5. QED
  BY <1>1, <1>2, <1>3, <1>4
  DEF DataOK, Truthful, TruthfulNext, Accounted, AccountedNext, Stored

\* An import becomes a success when every instance counts as done.
LEMMA AdvanceSucceeds ==
  ASSUME TypeOK, EndingsOK, DataOK, NEW t \in Tasks, Advance(t),
         job[t] \in Imports, status'[job[t]] = "SUCCESS"
  PROVE  \/ status[job[t]] = "SUCCESS"
         \/ \A i \in Scope[job[t]], n \in 1..Total : Accounted(job[t], <<i, n>>)
<1>1. job[t] \in Jobs
  BY AdvanceFrame
<1>2. CASE Complete(t)
  <2>1. Truthful(job[t], runtime[t])
    BY <1>2 DEF Complete, Goto, HasRead, DataOK
  <2>2. \A i \in Scope[job[t]] : i \in Instances /\ runtime[t][i].start >= Total
    BY <1>1, <1>2, <2>1, ScopeAssumption DEF Complete, Truthful
  <2>3. runtime[t] \in [Instances -> [start : 0..(Total + 1), failures : 0..MaxFailures, done : BOOLEAN]]
    BY DEF TypeOK, Progress
  <2>4. ASSUME NEW i \in Scope[job[t]], NEW n \in 1..Total
        PROVE  Accounted(job[t], <<i, n>>)
    <3>1. runtime[t][i].start \in Nat
      BY <2>2, <2>3, SizesAssumption
    <3>2. n <= runtime[t][i].start
      BY <2>2, <3>1, SizesAssumption
    <3>3. QED
      BY <2>1, <2>2, <3>2 DEF Truthful
  <2>5. QED
    BY <2>4
<1>3. ~Report(t)
  BY DEF Report, Goto, EndingsOK, Imports
<1>4. CASE ~Complete(t)
  BY <1>1, <1>3, <1>4 DEF Advance, ReadJob, Claim, Start, Choose, NextPage, Fetch, Takes, FetchFails,
    FetchRepeats, Insert, Save, Check, Close, Pause, StartDelete, Delete, Finish,
    Fail, Persist, tables, TypeOK
<1>5. QED
  BY <1>2, <1>4

LEMMA SuccessLasts ==
  ASSUME SuccessIsComplete, AccountStays,
         \A j \in Imports :
           status'[j] = "SUCCESS" =>
             \/ status[j] = "SUCCESS"
             \/ \A i \in Scope[j], n \in 1..Total : Accounted(j, <<i, n>>)
  PROVE  SuccessIsComplete'
<1>1. ASSUME NEW j \in Imports, status'[j] = "SUCCESS",
             NEW i \in Scope[j], NEW n \in 1..Total
      PROVE  AccountedNext(j, <<i, n>>)
  <2>1. Accounted(j, <<i, n>>) /\ <<i, n>> \in Entries
    BY <1>1, ScopeAssumption DEF SuccessIsComplete, Entries, Imports
  <2>2. QED
    BY <2>1 DEF AccountStays
<1>2. QED
  BY <1>1 DEF SuccessIsComplete, Accounted, AccountedNext, Stored

-----------------------------------------------------------------------------
(***************************************************************************)
(* OverviewJobs: the theorems                                              *)
(***************************************************************************)
LEMMA ParseInv ==
  IInv <=> TypeOK /\ Control /\ PageOK /\ DataOK /\ SuccessIsComplete
BY DEF IInv, JobInv, Control

LEMMA InitInv == Init => IInv
<1> SUFFICES ASSUME Init PROVE IInv
  OBVIOUS
<1>1. PageOK /\ SuccessIsComplete
  BY DEF Init, PageOK, SuccessIsComplete, Imports
<1>2. DataOK
  <2>1. \A j \in Imports : saved[j] = NoProgress
    BY DEF Init, Imports
  <2>2. \A t \in Tasks : ~HasRead(t)
    BY DEF Init, HasRead
  <2>3. QED
    BY <2>1, <2>2, SizesAssumption DEF DataOK, HasRead, Truthful, NoProgress
<1>3. QED
  BY <1>1, <1>2, InitType, InitControl, ParseInv

LEMMA AdvanceInv ==
  ASSUME IInv, NEW t \in Tasks, Advance(t)
  PROVE  IInv'
<1>1. TypeOK /\ Control /\ RequestsOK /\ EndingsOK /\ PageOK /\ DataOK /\ SuccessIsComplete
  BY ParseInv DEF Control
<1>2. TypeOK'
  BY <1>1, TypeStep DEF Next, Step, Advance
<1>3. SuccessIsComplete'
  <2>1. OnlyOwnRow(t) /\ job[t] \in Jobs
    BY <1>1, AdvanceFrame
  <2>2. AccountStays
    BY <1>1, AdvanceKeeps
  <2>3. ASSUME NEW j \in Imports, status'[j] = "SUCCESS"
        PROVE  \/ status[j] = "SUCCESS"
               \/ \A i \in Scope[j], n \in 1..Total : Accounted(j, <<i, n>>)
    BY <1>1, <2>1, <2>3, AdvanceSucceeds DEF OnlyOwnRow, Imports
  <2>4. QED
    BY <1>1, <2>2, <2>3, SuccessLasts
<1>4. Control' /\ PageOK' /\ DataOK'
  BY <1>1, AdvanceControl, AdvancePage, AdvanceData
<1>5. QED
  BY <1>2, <1>3, <1>4 DEF IInv, JobInv, Control

\* The steps that leave the tasks where they are, or put them to an end.
LEMMA QuietInv ==
  ASSUME IInv, TypeOK', Control', AccountStays, UNCHANGED saved,
         \A t \in Tasks : Quiet(t),
         \A j \in Jobs : status'[j] = "SUCCESS" => status[j] = "SUCCESS"
  PROVE  IInv'
<1>1. TypeOK /\ PageOK /\ DataOK /\ SuccessIsComplete
  BY ParseInv
<1>2. PageOK' /\ DataOK'
  BY <1>1, QuietData
<1>3. SuccessIsComplete'
  BY <1>1, SuccessLasts DEF Imports
<1>4. QED
  BY <1>2, <1>3 DEF IInv, JobInv, Control

LEMMA RestartInv ==
  ASSUME IInv, Restart, TypeOK'
  PROVE  IInv'
<1>1. TypeOK /\ Control'
  BY RestartControl, ParseInv
<1>2. AccountStays /\ UNCHANGED saved
  BY DEF Restart, AccountStays, Accounted, AccountedNext, Stored
<1>3. \A t \in Tasks : Quiet(t)
  BY DEF Restart, Quiet
<1>4. \A j \in Jobs : status'[j] = "SUCCESS" => status[j] = "SUCCESS"
  BY DEF Restart
<1>5. QED
  BY <1>1, <1>2, <1>3, <1>4, QuietInv

LEMMA SetsOffInv ==
  ASSUME IInv, TypeOK', RequestsOK', NEW j \in Jobs, NEW t \in Tasks, SetsOff(j, t)
  PROVE  IInv'
<1>1. TypeOK /\ Control
  BY ParseInv
<1>2. Control'
  BY <1>1, SetsOffControl
<1>3. AccountStays
  BY DEF SetsOff, AccountStays, Accounted, AccountedNext, Stored
<1>4. \A u \in Tasks : Quiet(u)
  BY DEF SetsOff, Quiet
<1>5. \A k \in Jobs : status'[k] = "SUCCESS" => status[k] = "SUCCESS"
  BY DEF SetsOff
<1>6. UNCHANGED saved
  BY DEF SetsOff
<1>7. QED
  BY <1>2, <1>3, <1>4, <1>5, <1>6, QuietInv

\* A row may disappear, and entries whose removal is remembered.
LEMMA DeletedInv ==
  ASSUME IInv, TypeOK', RequestsOK', AccountStays, UNCHANGED <<saved, active, tasks, skipped>>,
         \A t \in Tasks : job'[t] = job[t],
         \A k \in Jobs : status'[k] \in {status[k], "deleted"}
  PROVE  IInv'
<1>1. TypeOK /\ Control
  BY ParseInv
<1>2. Control'
  BY <1>1, DeletedControl DEF tasks
<1>3. \A u \in Tasks : Quiet(u)
  BY DEF tasks, Quiet
<1>4. \A k \in Jobs : status'[k] = "SUCCESS" => status[k] = "SUCCESS"
  OBVIOUS
<1>5. UNCHANGED saved
  OBVIOUS
<1>6. QED
  BY <1>2, <1>3, <1>4, <1>5, QuietInv

LEMMA NextInv == IInv /\ [Next]_vars => IInv'
<1> SUFFICES ASSUME IInv, [Next]_vars PROVE IInv'
  OBVIOUS
<1>1. TypeOK /\ RequestsOK /\ PageOK
  BY ParseInv DEF Control
<1>2. TypeOK'
  BY <1>1, TypeStep
<1>3. NothingElse => AccountStays /\ \A k \in Jobs : status'[k] \in {status[k], "deleted"}
  BY DEF NothingElse, tables, AccountStays, Accounted, AccountedNext, Stored
<1>4. ASSUME NEW j \in Jobs, NEW t \in Tasks, Enqueue(j, t) PROVE IInv'
  <2>1. SetsOff(j, t) /\ RequestsKeep
    BY <1>1, <1>4, EnqueueFrame
  <2>2. RequestsOK'
    BY <1>1, <2>1 DEF RequestsOK, RequestsKeep
  <2>3. QED
    BY <1>2, <2>1, <2>2, SetsOffInv
<1>5. ASSUME NEW t \in Tasks, Step(t) PROVE IInv'
  <2>1. CASE Die(t)
    BY <1>2, <2>1, RestartInv DEF Die
  <2>2. CASE ~Die(t)
    BY <1>5, <2>2, AdvanceInv DEF Step, Advance
  <2>3. QED
    BY <2>1, <2>2
<1>6. ASSUME NEW r \in Requests, OneRequest(r) PROVE RequestsOK'
  BY <1>1, <1>6 DEF OneRequest, RequestsOK
<1>7. ASSUME NEW r \in Requests, NEW j \in Jobs, Asks(r, j) PROVE IInv'
  <2>1. OneRequest(r) /\ NothingElse
    BY <1>1, <1>7, RequestFrame
  <2>2. QED
    BY <1>2, <1>3, <1>6, <2>1, DeletedInv DEF NothingElse, tables
<1>8. ASSUME NEW r \in Requests, NEW t \in Tasks, Retry(r, t) PROVE IInv'
  <2>1. /\ OneRequest(r)
        /\ NothingElse \/ \E j \in Jobs : SetsOff(j, t)
    BY <1>1, <1>8, RequestFrame
  <2>2. CASE NothingElse
    BY <1>2, <1>3, <1>6, <2>1, <2>2, DeletedInv DEF NothingElse, tables
  <2>3. CASE \E j \in Jobs : SetsOff(j, t)
    BY <1>2, <1>6, <2>1, <2>3, SetsOffInv
  <2>4. QED
    BY <2>1, <2>2, <2>3
<1>9. ASSUME NEW r \in Requests, DeleteJob(r) PROVE IInv'
  <2>1. /\ OneRequest(r)
        /\ NothingElse \/ /\ status' = [status EXCEPT ![job[r]] = "deleted"]
                          /\ UNCHANGED <<saved, active, tasks, skipped>>
                          /\ \A t \in Tasks : job'[t] = job[t]
    BY <1>1, <1>9, RequestFrame
  <2>2. AccountStays
    BY <1>1, <1>9, DeleteJobKeeps
  <2>3. CASE NothingElse
    BY <1>2, <1>3, <1>6, <2>1, <2>3, DeletedInv DEF NothingElse, tables
  <2>4. CASE ~NothingElse
    <3>1. \A k \in Jobs : status'[k] \in {status[k], "deleted"}
      BY <1>1, <2>1, <2>4 DEF TypeOK
    <3>2. QED
      BY <1>2, <1>6, <2>1, <2>2, <2>4, <3>1, DeletedInv
  <2>5. QED
    BY <2>3, <2>4
<1>10. CASE Crash
  BY <1>2, <1>10, RestartInv DEF Crash
<1>11. CASE UNCHANGED vars
  BY <1>11 DEF vars, tables, tasks, IInv, JobInv, TypeOK, KeysAreExclusive,
    RunningIsRunning, PendingIsScheduled, RequestsOK, PageOK, EndingsOK, DataOK,
    HasRead, Truthful, Accounted, Stored, SuccessIsComplete, InHand
<1>12. QED
  BY <1>4, <1>5, <1>7, <1>8, <1>9, <1>10, <1>11 DEF Next

LEMMA Invariance == Spec => []IInv
BY InitInv, NextInv, PTL DEF Spec

\* The jobs' rows and the tasks agree, through failures, crashes, retries that come
\* too late and jobs that are deleted at work: two tasks never hold the same key,
\* every running job has a task that works on it, and every pending one a task that
\* will, unless one has found the key in use (executeJob, retryJob, deleteJob).
THEOREM JobsAndTasksAgree == Spec => []JobInv
<1>1. IInv => JobInv
  BY DEF IInv
<1>2. QED
  BY Invariance, <1>1, PTL

\* The checkpoint that a retry starts from counts an entry that is not in the database
\* only if a deletion took it, or if another page came in its place that the execution
\* had not had before (processImportInstance, persistJobRuntime).
THEOREM CheckpointIsBehind == Spec => []CheckpointBehindData
<1>1. IInv => CheckpointBehindData
  BY DEF IInv, DataOK, Truthful, CheckpointBehindData
<1>2. QED
  BY Invariance, <1>1, PTL

\* An import that reports success has stored the whole period of every instance in
\* its scope, but for what was deleted since and for what another page came that the
\* execution could not know, such as one repeated after a pause (runImportJob).
THEOREM SuccessMeansComplete == Spec => []SuccessIsComplete
<1>1. IInv => SuccessIsComplete
  BY DEF IInv
<1>2. QED
  BY Invariance, <1>1, PTL

-----------------------------------------------------------------------------
(***************************************************************************)
(* OverviewRetention: the inductive invariant of the dates                 *)
(***************************************************************************)
Done == {"SUCCESS", "FAILURE", "PAUSED"}
AtInstance == {"paging", "fetching", "inserting", "saving", "checking", "closing"}
Copying == AtInstance \cup {"choosing"}

\* The job of a task that copies is an import and not yet over.
CopiesOK ==
  \A t \in Tasks :
    /\ task[t] \in Copying => status[job[t]] \notin Done
    /\ task[t] \in Copying \cup {"pausing"} => job[t] \notin Deletions

\* No date lies further ahead than what is written today.
NoneAhead ==
  /\ \A w \in Windows : windowUntil[w] <= Today
  /\ \A t \in Tasks : deadline[t] <= Today

\* The date that an import's end will give its job is not earlier than those its
\* windows have, unless one was renewed under way.
TaskDates ==
  \A t \in Tasks : task[t] \in Copying =>
    \A w \in Windows \ untimely : w[1] = job[t] => windowUntil[w] <= deadline[t]

\* A job that may be swept has no date earlier than those of its windows, nor than
\* the one that the task which is about to pause it will give the last of them.
JobDates ==
  /\ \A w \in Windows \ untimely :
       status[w[1]] \in Done => windowUntil[w] <= jobUntil[w[1]]
  /\ \A t \in Tasks :
       task[t] = "pausing" /\ status[job[t]] \in Done => deadline[t] <= jobUntil[job[t]]

\* A window that is a success is not dated later than any of its entries.
EntryDates ==
  \A w \in Windows \ mixed : window[w] = "SUCCESS" =>
    \A e \in Own(w) : windowUntil[w] <= entryUntil[e]

\* Nor will the window be, that a task is copying.
CopyDates ==
  \A t \in Tasks : task[t] \in AtInstance =>
    /\ window[<<job[t], at[t]>>] # "SUCCESS"
    /\ <<job[t], at[t]>> \notin mixed =>
         \A e \in Own(<<job[t], at[t]>>) : deadline[t] <= entryUntil[e]

DatesInv ==
  /\ RetentionTypeOK
  /\ CopiesOK
  /\ NoneAhead
  /\ TaskDates
  /\ JobDates
  /\ EntryDates
  /\ CopyDates
  /\ JobOutlivesWindow

-----------------------------------------------------------------------------
(***************************************************************************)
(* The jobs and the tasks                                                  *)
(***************************************************************************)
LEMMA WorksAdvances ==
  ASSUME NEW t \in Tasks, Works(t)
  PROVE  Advance(t)
BY DEF Works, StartDated, Opens, Upserts, Advances, Advance

\* No two tasks at work are about the same job.
LEMMA OwnJob ==
  ASSUME IInv, NEW t \in Tasks, NEW u \in Tasks, t # u, InHand(t), InHand(u)
  PROVE  job[t] # job[u]
BY DEF IInv, JobInv, KeysAreExclusive

\* The clean-up may take the tables' rows, and nothing of the tasks'.
LEMMA SweepFrame ==
  ASSUME IInv, SweepQueries \/ SweepWindows \/ SweepJobs
  PROVE  /\ TypeOK' /\ AccountStays
         /\ UNCHANGED <<saved, active, tasks, skipped, job, request>>
         /\ \A k \in Jobs : status'[k] \in {status[k], "deleted"}
<1>1. TypeOK
  BY DEF IInv, JobInv
<1>2. UNCHANGED <<saved, active, tasks, skipped, job, request, restarts>>
  BY DEF SweepQueries, SweepWindows, SweepJobs, Sweeps
<1>3. CASE SweepQueries
  <2>1. UNCHANGED <<status, window>>
    BY <1>3 DEF SweepQueries
  <2>2. rows' \in [Entries -> Jobs \cup {NoJob}] /\ excused' \subseteq Jobs \X Entries
    <3>1. rows' \in [Entries -> Jobs \cup {NoJob}]
      BY <1>1, <1>3 DEF SweepQueries, TypeOK
    <3>2. QED
      BY <1>1, <1>3, <3>1, ExcusedType DEF SweepQueries
  <2>3. TypeOK'
    BY <1>1, <1>2, <2>1, <2>2 DEF TypeOK, tasks
  <2>4. AccountStays
    BY <1>3 DEF SweepQueries, AccountStays, Accounted, AccountedNext, Stored
  <2>5. QED
    BY <1>2, <2>1, <2>3, <2>4
<1>4. CASE SweepWindows
  <2>1. UNCHANGED <<status, rows, excused>>
    BY <1>4 DEF SweepWindows
  <2>2. window' \in [Jobs \X Instances -> {"none", "RUNNING", "PAUSED", "SUCCESS"}]
    BY <1>1, <1>4 DEF SweepWindows, TypeOK, Windows
  <2>3. TypeOK'
    BY <1>1, <1>2, <2>1, <2>2 DEF TypeOK, tasks
  <2>4. AccountStays
    BY <2>1 DEF AccountStays, Accounted, AccountedNext, Stored
  <2>5. QED
    BY <1>2, <2>1, <2>3, <2>4
<1>5. CASE SweepJobs
  <2>1. UNCHANGED <<window, rows, excused>>
    BY <1>5 DEF SweepJobs
  <2>2. \A k \in Jobs : status'[k] \in {status[k], "deleted"}
    BY <1>5 DEF SweepJobs
  <2>3. status' \in [Jobs -> Unfinished \cup {"none", "SUCCESS", "FAILURE", "PAUSED", "deleted"}]
    BY <1>1, <1>5 DEF SweepJobs, TypeOK
  <2>4. TypeOK'
    BY <1>1, <1>2, <2>1, <2>3 DEF TypeOK, tasks
  <2>5. AccountStays
    BY <2>1 DEF AccountStays, Accounted, AccountedNext, Stored
  <2>6. QED
    BY <1>2, <2>2, <2>4, <2>5
<1>6. QED
  BY <1>3, <1>4, <1>5

\* The dates add nothing to what jobs and tasks do but the clean-up.
LEMMA JobsInv ==
  ASSUME IInv, [RetentionNext]_retentionVars
  PROVE  IInv'
<1>1. CASE SweepQueries \/ SweepWindows \/ SweepJobs
  <2>1. /\ TypeOK' /\ AccountStays
        /\ UNCHANGED <<saved, active, tasks, skipped, job, request>>
        /\ \A k \in Jobs : status'[k] \in {status[k], "deleted"}
    BY <1>1, SweepFrame
  <2>2. RequestsOK'
    BY <2>1 DEF IInv, RequestsOK
  <2>3. \A t \in Tasks : job'[t] = job[t]
    BY <2>1
  <2>4. UNCHANGED <<saved, active, tasks, skipped>>
    BY <2>1
  <2>5. QED
    BY <2>1, <2>2, <2>3, <2>4, DeletedInv
<1>2. CASE ~(SweepQueries \/ SweepWindows \/ SweepJobs)
  <2>1. [Next]_vars
    BY <1>2 DEF RetentionNext, Works, StartDated, Opens, Upserts, Advances, Interrupts,
      Asked, Morning, AskRenewal, Renew, retentionVars, Next, Step
  <2>2. QED
    BY <2>1, NextInv
<1>3. QED
  BY <1>1, <1>2

\* What a task that copies does to its job's status.
CopiesOn(t) ==
  /\ task'[t] \in Copying =>
       /\ status'[job[t]] \notin Done
       /\ task[t] \in Copying \cup {"starting"}
  /\ task'[t] = "pausing" => status'[job[t]] = "PAUSED" /\ task[t] \in Copying
  /\ task'[t] \in Copying \cup {"pausing"} => job[t] \notin Deletions

LEMMA AdvanceCopies ==
  ASSUME TypeOK, CopiesOK, NEW t \in Tasks, Advance(t)
  PROVE  CopiesOn(t)
<1>1. job[t] \in Jobs /\ task \in [Tasks -> Working \cup {"idle", "scheduled", "claiming", "failed"}]
  BY AdvanceFrame DEF TypeOK
<1> USE <1>1 DEF CopiesOn, CopiesOK, Goto, Working, Copying, AtInstance, Done, Persist
<1>2. CASE ReadJob(t) \/ Claim(t) \/ Finish(t)
  BY <1>2 DEF ReadJob, Claim, Finish, Over
<1>3. CASE Start(t) \/ Choose(t) \/ NextPage(t)
  BY <1>3 DEF Start, Choose, NextPage, TypeOK
<1>4. CASE FetchRepeats(t) \/ Complete(t)
  BY <1>4 DEF FetchRepeats, Complete, TypeOK
<1>5. CASE Fetch(t) \/ Insert(t) \/ Close(t) \/ Pause(t)
  BY <1>5 DEF Fetch, Takes, Insert, Close, Pause, tables, TypeOK
<1>6. CASE FetchFails(t)
  BY <1>6 DEF FetchFails, TypeOK
<1>7. CASE Save(t)
  BY <1>7 DEF Save, TypeOK
<1>8. CASE Check(t)
  BY <1>8 DEF Check, TypeOK
<1>9. CASE StartDelete(t) \/ Delete(t) \/ Report(t) \/ Fail(t)
  BY <1>9 DEF StartDelete, Delete, Report, Fail, TypeOK
<1>10. QED
  BY <1>2, <1>3, <1>4, <1>5, <1>6, <1>7, <1>8, <1>9 DEF Advance

\* A task leaves the rows of the jobs that others have in hand.
LEMMA OthersStatus ==
  ASSUME IInv, NEW t \in Tasks, Advance(t), NEW u \in Tasks \ {t}, InHand(u)
  PROVE  status'[job[u]] = status[job[u]]
<1>1. TypeOK
  BY DEF IInv, JobInv
<1>2. OnlyOwnRow(t) /\ job[u] \in Jobs
  BY <1>1, AdvanceFrame, JobInHand DEF InHand, Working
<1>3. CASE job[u] # job[t]
  BY <1>2, <1>3 DEF OnlyOwnRow
<1>4. CASE job[u] = job[t]
  <2>1. ~InHand(t)
    BY <1>4, OwnJob
  <2>2. status'[job[t]] = status[job[t]]
    BY <2>1 DEF InHand, Working, Advance, ReadJob, Claim, Start, Choose, NextPage, Fetch, Takes,
      FetchFails, FetchRepeats, Insert, Save, Check, Close, Pause, Complete,
      StartDelete, Delete, Report, Finish, Fail, Goto, tables
  <2>3. QED
    BY <1>4, <2>2
<1>5. QED
  BY <1>3, <1>4

\* Whether a task is copying and whether its job is over changes only with its steps.
LEMMA AdvanceCopiesOK ==
  ASSUME IInv, CopiesOK, NEW t \in Tasks, Advance(t)
  PROVE  CopiesOK'
<1>1. TypeOK
  BY DEF IInv, JobInv
<1>2. OthersKeep(t) /\ OnlyOwnRow(t) /\ job[t] \in Jobs /\ CopiesOn(t)
  BY <1>1, AdvanceFrame, AdvanceCopies
<1>3. ASSUME NEW u \in Tasks, task'[u] \in Copying \cup {"pausing"}
      PROVE  /\ task'[u] \in Copying => status'[job'[u]] \notin Done
             /\ job'[u] \notin Deletions
  <2>1. CASE u = t
    BY <1>2, <1>3, <2>1 DEF OnlyOwnRow, CopiesOn, Copying, AtInstance
  <2>2. CASE u # t
    <3>1. task'[u] = task[u] /\ job'[u] = job[u]
      BY <1>2, <2>2 DEF OthersKeep
    <3>2. job[u] \in Jobs /\ InHand(u)
      BY <1>1, <1>3, <3>1, JobInHand DEF Copying, AtInstance, InHand, Working
    <3>3. status'[job[u]] = status[job[u]]
      BY <2>2, <3>2, OthersStatus
    <3>4. QED
      BY <1>3, <3>1, <3>3 DEF CopiesOK
  <2>3. QED
    BY <2>1, <2>2
<1>4. QED
  BY <1>3 DEF CopiesOK

\* The steps that only let jobs be pending or gone, or tasks be idle or scheduled.
LEMMA QuietCopiesOK ==
  ASSUME TypeOK, CopiesOK,
         \A u \in Tasks : \/ task'[u] \in {"idle", "scheduled"}
                          \/ task'[u] = task[u] /\ job'[u] = job[u],
         \/ \A u \in Tasks : task'[u] = "idle"
         \/ \A k \in Jobs : status'[k] \in {status[k], "PENDING", "deleted"}
  PROVE  CopiesOK'
BY JobInHand DEF CopiesOK, Copying, AtInstance, Done

LEMMA CopiesInv ==
  ASSUME IInv, CopiesOK, [RetentionNext]_retentionVars
  PROVE  CopiesOK'
<1>1. TypeOK /\ RequestsOK
  BY DEF IInv, JobInv
<1>2. CASE \E t \in Tasks : Works(t)
  BY <1>2, WorksAdvances, AdvanceCopiesOK
<1>3. CASE Interrupts
  <2>1. \A u \in Tasks : task'[u] = "idle"
    BY <1>3 DEF Interrupts, Crash, Die, Restart
  <2>2. QED
    BY <1>1, <2>1, QuietCopiesOK
<1>4. CASE Asked
  <2>1. ASSUME NEW j \in Jobs, NEW t \in Tasks, SetsOff(j, t)
        PROVE  CopiesOK'
    BY <1>1, <2>1, QuietCopiesOK DEF SetsOff
  <2>2. ASSUME NothingElse PROVE CopiesOK'
    BY <1>1, <2>2, QuietCopiesOK DEF NothingElse, tables, tasks
  <2>3. ASSUME NEW r \in Requests, DeleteJob(r), ~NothingElse PROVE CopiesOK'
    <3>1. /\ status' = [status EXCEPT ![job[r]] = "deleted"]
          /\ UNCHANGED tasks /\ \A t \in Tasks : job'[t] = job[t]
      BY <1>1, <2>3, RequestFrame
    <3>2. \A k \in Jobs : status'[k] \in {status[k], "deleted"}
      BY <1>1, <3>1 DEF TypeOK
    <3>3. \A u \in Tasks : task'[u] = task[u] /\ job'[u] = job[u]
      BY <3>1 DEF tasks
    <3>4. QED
      BY <1>1, <3>2, <3>3, QuietCopiesOK
  <2>4. QED
    BY <1>1, <1>4, <2>1, <2>2, <2>3, RequestFrame, EnqueueFrame DEF Asked
<1>5. CASE SweepQueries \/ SweepWindows \/ SweepJobs
  <2>1. /\ UNCHANGED <<tasks, job>>
        /\ \A k \in Jobs : status'[k] \in {status[k], "deleted"}
    BY <1>5, SweepFrame
  <2>2. \A u \in Tasks : task'[u] = task[u] /\ job'[u] = job[u]
    BY <2>1 DEF tasks
  <2>3. QED
    BY <1>1, <2>1, <2>2, QuietCopiesOK
<1>6. CASE UNCHANGED vars
  BY <1>6 DEF CopiesOK, vars, tables, tasks
<1>7. QED
  BY <1>2, <1>3, <1>4, <1>5, <1>6
  DEF RetentionNext, Morning, AskRenewal, Renew, retentionVars

-----------------------------------------------------------------------------
(***************************************************************************)
(* The dates a step of OverviewJobs writes                                 *)
(***************************************************************************)
LEMMA TodayType ==
  ASSUME RetentionTypeOK
  PROVE  /\ day \in Nat /\ Today \in Nat /\ LastDate \in Nat
         /\ day < Today /\ Today <= LastDate
BY RetentionAssumption DEF RetentionTypeOK, Today, LastDate

LEMMA StampType ==
  ASSUME RetentionTypeOK, NoneAhead, NEW until \in Nat, until <= Today,
         NEW ws, Stamp(until, ws)
  PROVE  /\ entryUntil' \in [Entries -> 0..LastDate]
         /\ windowUntil' \in [Windows -> 0..LastDate]
         /\ jobUntil' \in [Jobs -> 0..Never]
         /\ Today' = Today
         /\ \A w \in Windows : windowUntil'[w] <= Today
<1>1. until \in 0..LastDate /\ Today \in 0..LastDate /\ LastDate \in Nat
  BY TodayType, RetentionAssumption DEF LastDate
<1>2. Today' = Today
  BY DEF Stamp, Today
<1>3. entryUntil' \in [Entries -> 0..LastDate]
  BY <1>1 DEF Stamp, RetentionTypeOK
<1>4. windowUntil' \in [Windows -> 0..LastDate]
  BY <1>1 DEF Stamp, RetentionTypeOK
<1>5. jobUntil' \in [Jobs -> 0..Never]
  <2>1. /\ until \in 0..Never /\ Today \in 0..Never /\ Never \in 0..Never
        /\ jobUntil \in [Jobs -> 0..Never]
    BY <1>1 DEF Never, RetentionTypeOK
  <2> HIDE DEF Never
  <2>2. \A j \in Jobs : jobUntil'[j] \in {until, Today, Never, jobUntil[j]}
    BY DEF Stamp
  <2>3. jobUntil' = [j \in Jobs |-> jobUntil'[j]]
    BY DEF Stamp
  <2>4. \A j \in Jobs : jobUntil'[j] \in 0..Never
    BY <2>1, <2>2
  <2>5. QED
    BY <2>3, <2>4
<1>6. \A w \in Windows : windowUntil'[w] <= Today
  BY <1>1 DEF Stamp, NoneAhead
<1>7. QED
  BY <1>2, <1>3, <1>4, <1>5, <1>6

\* What a stamp means for one window, one job and one entry.
LEMMA StampDates ==
  ASSUME RetentionTypeOK, NEW until \in Nat, NEW ws, Stamp(until, ws)
  PROVE  /\ \A w \in Windows \cap ws : windowUntil'[w] <= until
         /\ \A w \in Windows \ ws : windowUntil'[w] <= windowUntil[w]
         /\ \A j \in Jobs : status'[j] \in Done =>
              \/ status'[j] = status[j] /\ jobUntil'[j] = jobUntil[j]
              \/ status'[j] # status[j] /\ jobUntil'[j] = Today
              \/ /\ status'[j] # status[j] /\ jobUntil'[j] = until
                 /\ j \notin Deletions /\ status'[j] # "FAILURE"
         /\ \A j \in Jobs :
              /\ status'[j] \in {"SUCCESS", "PAUSED"} /\ status'[j] # status[j]
              /\ j \notin Deletions
              => jobUntil'[j] = until
         /\ \A e \in Entries :
              rows[e] # NoJob /\ rows'[e] = rows[e] => entryUntil'[e] = entryUntil[e]
         /\ \A e \in Entries :
              rows[e] = NoJob /\ rows'[e] # NoJob => entryUntil'[e] = until
<1>1. \A w \in Windows \cap ws : windowUntil'[w] <= until
  BY DEF Stamp
<1>2. \A w \in Windows \ ws : windowUntil'[w] <= windowUntil[w]
  BY DEF Stamp, RetentionTypeOK
<1>3. ASSUME NEW j \in Jobs, status'[j] \in Done
      PROVE  \/ status'[j] = status[j] /\ jobUntil'[j] = jobUntil[j]
             \/ status'[j] # status[j] /\ jobUntil'[j] = Today
             \/ /\ status'[j] # status[j] /\ jobUntil'[j] = until
                /\ j \notin Deletions /\ status'[j] # "FAILURE"
  BY <1>3 DEF Stamp, Ends, Starts, Done
<1>4. ASSUME NEW j \in Jobs, j \notin Deletions,
             status'[j] \in {"SUCCESS", "PAUSED"}, status'[j] # status[j]
      PROVE  jobUntil'[j] = until
  <2>1. Ends(j) /\ ~Starts(j) /\ status'[j] # "FAILURE" /\ status'[j] # "deleted"
    BY <1>4 DEF Ends, Starts
  <2>2. QED
    BY <1>4, <2>1 DEF Stamp
<1>5. ASSUME NEW e \in Entries
      PROVE  /\ rows[e] # NoJob /\ rows'[e] = rows[e] => entryUntil'[e] = entryUntil[e]
             /\ rows[e] = NoJob /\ rows'[e] # NoJob => entryUntil'[e] = until
  BY DEF Stamp, Stored
<1>6. QED
  BY <1>1, <1>2, <1>3, <1>4, <1>5

\* What a stamp without windows does to them.
LEMMA StampNothing ==
  ASSUME RetentionTypeOK, NEW until, Stamp(until, {})
  PROVE  \A w \in Windows : windowUntil'[w] <= windowUntil[w]
BY DEF Stamp, RetentionTypeOK

\* The steps that write dates, and with which.
LEMMA Stamps ==
  ASSUME RetentionTypeOK, NoneAhead
  PROVE  /\ Interrupts \/ Asked => Stamp(0, {}) /\ 0 <= Today
         /\ \A t \in Tasks : Works(t) =>
              \E until \in {0, deadline[t]} : \E ws :
                until \in Nat /\ until <= Today /\ Stamp(until, ws)
<1>1. 0 <= Today /\ \A t \in Tasks : deadline[t] \in Nat /\ deadline[t] <= Today
  BY TodayType DEF RetentionTypeOK, NoneAhead
<1>2. Interrupts \/ Asked => Stamp(0, {})
  BY DEF Interrupts, Asked
<1>3. ASSUME NEW t \in Tasks, Works(t)
      PROVE  \E until \in {0, deadline[t]} : \E ws : Stamp(until, ws)
  BY <1>3 DEF Works, StartDated, Opens, Upserts, Advances
<1>4. QED
  BY <1>1, <1>2, <1>3

\* What the tasks and the process do to the dates and histories that are not stamped.
LEMMA StampFrame ==
  ASSUME TypeOK, RetentionTypeOK, NoneAhead, Interrupts \/ Asked \/ \E t \in Tasks : Works(t)
  PROVE  /\ UNCHANGED <<day, untimely>>
         /\ deadline' \in [Tasks -> 0..LastDate]
         /\ \A t \in Tasks : deadline'[t] \in {0, deadline[t], Today}
         /\ sweep' \subseteq Statements
         /\ renewal' \in Windows \cup {NoWindow}
         /\ mixed \subseteq mixed' /\ mixed' \subseteq Windows
<1>1. Today \in 0..LastDate /\ 0 \in 0..LastDate
  BY TodayType
<1>2. UNCHANGED <<day, untimely>>
  BY DEF Interrupts, Asked, Works, StartDated, Opens, Upserts, Advances, Stamp
<1>3. \/ UNCHANGED deadline
      \/ Forget
      \/ \E t \in Tasks : deadline' = [deadline EXCEPT ![t] = Today]
  BY DEF Interrupts, Asked, Works, StartDated, Opens, Upserts, Advances
<1>4. /\ deadline' \in [Tasks -> 0..LastDate]
      /\ \A t \in Tasks : deadline'[t] \in {0, deadline[t], Today}
  <2>1. deadline \in [Tasks -> 0..LastDate]
    BY DEF RetentionTypeOK
  <2>2. QED
    BY <1>1, <1>3, <2>1 DEF Forget
<1>5. sweep' \in {sweep, {}} /\ renewal' \in {renewal, NoWindow}
  BY DEF Interrupts, Asked, Works, StartDated, Opens, Upserts, Advances
<1>6. mixed \subseteq mixed' /\ mixed' \subseteq Windows
  <2>1. CASE \E t \in Tasks : Opens(t)
    <3>1. PICK t \in Tasks : Opens(t)
      BY <2>1
    <3>2. job[t] \in Jobs
      BY <3>1, JobInHand DEF Opens, Choose, Goto
    <3>3. at'[t] \in Instances
      BY <3>1, <3>2, ScopeAssumption DEF Opens, Choose, TypeOK
    <3>4. QED
      BY <3>1, <3>2, <3>3 DEF Opens, RetentionTypeOK, Windows
  <2>2. CASE ~\E t \in Tasks : Opens(t)
    BY <2>2 DEF Interrupts, Asked, Works, StartDated, Upserts, Advances, RetentionTypeOK
  <2>3. QED
    BY <2>1, <2>2
<1>7. QED
  BY <1>2, <1>4, <1>5, <1>6 DEF RetentionTypeOK

\* The clean-up and the renewal.
LEMMA SweepDates ==
  ASSUME RetentionTypeOK, SweepQueries \/ SweepWindows \/ SweepJobs
  PROVE  /\ UNCHANGED <<day, jobUntil, deadline, renewal, history>>
         /\ sweep' \subseteq Statements
         /\ entryUntil' \in [Entries -> 0..LastDate]
         /\ windowUntil' \in [Windows -> 0..LastDate]
         /\ \A w \in Windows : windowUntil'[w] <= windowUntil[w]
<1>1. UNCHANGED <<day, jobUntil, deadline, renewal, history>> /\ sweep' \subseteq sweep
  BY DEF SweepQueries, SweepWindows, SweepJobs, Sweeps
<1>2. LastDate \in Nat
  BY RetentionAssumption DEF LastDate
<1>3. /\ entryUntil' \in [Entries -> 0..LastDate]
      /\ windowUntil' \in [Windows -> 0..LastDate]
      /\ \A w \in Windows : windowUntil'[w] <= windowUntil[w]
  BY <1>2 DEF SweepQueries, SweepWindows, SweepJobs, RetentionTypeOK
<1>4. QED
  BY <1>1, <1>3 DEF RetentionTypeOK

LEMMA RenewDates ==
  ASSUME RetentionTypeOK, NoneAhead, Renew
  PROVE  RetentionTypeOK' /\ NoneAhead'
<1>1. Today \in 0..LastDate /\ Today \in 0..Never /\ Today' = Today
  BY TodayType, RetentionAssumption DEF Renew, Today, Never, LastDate
<1>2. /\ DOMAIN entryUntil = Entries /\ DOMAIN windowUntil = Windows
      /\ DOMAIN jobUntil = Jobs
  BY DEF RetentionTypeOK
<1>3. /\ entryUntil' \in [Entries -> 0..LastDate]
      /\ windowUntil' \in [Windows -> 0..LastDate]
      /\ jobUntil' \in [Jobs -> 0..Never]
  <2> HIDE DEF Never
  <2>1. entryUntil' \in [Entries -> 0..LastDate]
    BY <1>1, <1>2 DEF Renew, Renewed, RetentionTypeOK, dates
  <2>2. windowUntil' \in [Windows -> 0..LastDate]
    BY <1>1, <1>2 DEF Renew, Renewed, RetentionTypeOK, dates
  <2>3. jobUntil' \in [Jobs -> 0..Never]
    BY <1>1, <1>2 DEF Renew, Renewed, RetentionTypeOK, dates
  <2>4. QED
    BY <2>1, <2>2, <2>3
<1>4. \A w \in Windows : windowUntil'[w] <= Today
  BY <1>1, <1>2 DEF Renew, Renewed, NoneAhead, dates
<1>5. UNCHANGED <<day, deadline, sweep>> /\ renewal' = NoWindow
  BY DEF Renew
<1>6. mixed' \subseteq mixed /\ untimely' \subseteq untimely \cup {renewal}
  BY DEF Renew, history
<1>7. untimely' \subseteq Windows
  <2>1. renewal \in Windows
    BY DEF Renew, RetentionTypeOK
  <2>2. QED
    BY <1>6, <2>1 DEF RetentionTypeOK
<1>8. QED
  BY <1>1, <1>3, <1>4, <1>5, <1>6, <1>7 DEF RetentionTypeOK, NoneAhead

LEMMA TypeAndNoneAheadInv ==
  ASSUME IInv, RetentionTypeOK, NoneAhead, [RetentionNext]_retentionVars
  PROVE  RetentionTypeOK' /\ NoneAhead'
<1>1. TypeOK
  BY DEF IInv, JobInv
<1>2. ASSUME Interrupts \/ Asked \/ \E t \in Tasks : Works(t)
      PROVE  RetentionTypeOK' /\ NoneAhead'
  <2>1. \E until, ws : until \in Nat /\ until <= Today /\ Stamp(until, ws)
    BY <1>2, Stamps
  <2>2. /\ entryUntil' \in [Entries -> 0..LastDate]
        /\ windowUntil' \in [Windows -> 0..LastDate]
        /\ jobUntil' \in [Jobs -> 0..Never]
        /\ Today' = Today
        /\ \A w \in Windows : windowUntil'[w] <= Today
    BY <2>1, StampType
  <2>3. /\ UNCHANGED <<day, untimely>>
        /\ deadline' \in [Tasks -> 0..LastDate]
        /\ \A t \in Tasks : deadline'[t] \in {0, deadline[t], Today}
        /\ sweep' \subseteq Statements
        /\ renewal' \in Windows \cup {NoWindow}
        /\ mixed' \subseteq Windows
    BY <1>1, <1>2, StampFrame
  <2>4. RetentionTypeOK'
    BY <2>2, <2>3 DEF RetentionTypeOK
  <2>5. \A t \in Tasks : deadline'[t] <= Today
    BY <2>3, TodayType DEF NoneAhead, RetentionTypeOK
  <2>6. QED
    BY <2>2, <2>4, <2>5 DEF NoneAhead
<1>3. CASE Morning
  <2>1. /\ day' \in 0..MaxDay /\ Today' = Today + 1 /\ sweep' \subseteq Statements
        /\ UNCHANGED <<dates, deadline, renewal, history>>
    BY <1>3, RetentionAssumption DEF Morning, RetentionTypeOK, Today
  <2>2. RetentionTypeOK'
    BY <2>1 DEF RetentionTypeOK, dates, history
  <2>3. NoneAhead'
    <3>1. /\ \A w \in Windows : windowUntil[w] \in Nat
          /\ \A t \in Tasks : deadline[t] \in Nat
          /\ Today \in Nat
      BY TodayType DEF RetentionTypeOK
    <3>2. QED
      BY <2>1, <3>1 DEF NoneAhead, dates
  <2>4. QED
    BY <2>2, <2>3
<1>4. CASE SweepQueries \/ SweepWindows \/ SweepJobs
  <2>1. /\ UNCHANGED <<day, jobUntil, deadline, renewal, history>>
        /\ sweep' \subseteq Statements
        /\ entryUntil' \in [Entries -> 0..LastDate]
        /\ windowUntil' \in [Windows -> 0..LastDate]
        /\ \A w \in Windows : windowUntil'[w] <= windowUntil[w]
    BY <1>4, SweepDates
  <2>2. RetentionTypeOK'
    BY <2>1 DEF RetentionTypeOK, history
  <2>3. \A w \in Windows : windowUntil'[w] \in Nat /\ windowUntil[w] \in Nat
    BY <2>1 DEF RetentionTypeOK
  <2>4. QED
    BY <2>1, <2>2, <2>3, TodayType DEF NoneAhead, Today
<1>5. CASE \E w \in Windows : AskRenewal(w)
  BY <1>5 DEF AskRenewal, RetentionTypeOK, NoneAhead, Today, dates, history
<1>6. CASE Renew
  BY <1>6, RenewDates
<1>7. CASE UNCHANGED retentionVars
  BY <1>7 DEF retentionVars, RetentionTypeOK, NoneAhead, Today, dates, history
<1>8. QED
  BY <1>2, <1>3, <1>4, <1>5, <1>6, <1>7 DEF RetentionNext

-----------------------------------------------------------------------------
(***************************************************************************)
(* Windows, jobs and the tasks that write them                             *)
(***************************************************************************)

\* A task's step writes windows of its own job, while the job's row is there, and
\* gives the job a status that ends an import only from where the task copies.
WritesOwn(t, until, ws) ==
  /\ Stamp(until, ws)
  /\ ws \subseteq {w \in Windows : w[1] = job[t]}
  /\ ws # {} => /\ until = deadline[t]
                /\ status'[job[t]] # "deleted"
                /\ task[t] \in Copying \cup {"pausing"}
                /\ task[t] \in Copying => status'[job[t]] \in {"RUNNING", "PAUSED", status[job[t]]}
                /\ task[t] = "pausing" => status'[job[t]] = status[job[t]]
  /\ \A w \in ws : window'[w] = "SUCCESS" => task[t] = "closing" /\ w = <<job[t], at[t]>>
  /\ \A w \in Windows \ ws : window'[w] \in {window[w], "none"}
  /\ status'[job[t]] # status[job[t]] /\ status'[job[t]] \in {"SUCCESS", "PAUSED"}
       => job[t] \in Deletions \/ (until = deadline[t] /\ task[t] \in Copying)

LEMMA WorkWrites ==
  ASSUME TypeOK, EndingsOK, NEW t \in Tasks, Works(t)
  PROVE  \E until \in {0, deadline[t]}, ws \in SUBSET Windows : WritesOwn(t, until, ws)
<1>1. job[t] \in Jobs /\ Advance(t) /\ at[t] \in Instances
  BY WorksAdvances, AdvanceFrame DEF TypeOK
<1> USE <1>1 DEF Goto, Copying, AtInstance
<1>2. CASE StartDated(t)
  <2>1. WritesOwn(t, 0, {})
    BY <1>2 DEF StartDated, Start, Persist, WritesOwn, TypeOK
  <2>2. QED
    BY <2>1
<1>3. CASE Opens(t)
  <2> DEFINE w == <<job[t], at'[t]>>
  <2>1. w \in Windows
    BY <1>3, ScopeAssumption DEF Opens, Choose, TypeOK, Windows
  <2>2. /\ Stamp(deadline[t], {w}) /\ status'[job[t]] = "RUNNING"
        /\ task[t] = "choosing"
    BY <1>3 DEF Opens, Choose, Persist, TypeOK
  <2>3. window' = [window EXCEPT ![w] = "RUNNING"]
    BY <1>3 DEF Opens, Choose, TypeOK
  <2> HIDE DEF w
  <2>4. window'[w] = "RUNNING" /\ \A v \in Windows \ {w} : window'[v] = window[v]
    BY <2>1, <2>3 DEF TypeOK, Windows
  <2>5. w[1] = job[t]
    BY DEF w
  <2>6. WritesOwn(t, deadline[t], {w})
    BY <2>1, <2>2, <2>4, <2>5 DEF WritesOwn
  <2>7. QED
    BY <2>1, <2>6
<1>4. CASE Upserts(t)
  <2> DEFINE w == <<job[t], at[t]>>
  <2>1. w \in Windows /\ w[1] = job[t]
    BY DEF Windows
  <2>2. /\ Stamp(deadline[t], {w}) /\ status'[job[t]] # "deleted"
        /\ task[t] \in AtInstance \cup {"pausing"}
    BY <1>4 DEF Upserts, FetchFails, Save, Close, Pause, Persist, RowExists, TypeOK
  <2>3. /\ status'[job[t]] \in {"RUNNING", "PAUSED", status[job[t]]}
        /\ task[t] = "pausing" => status'[job[t]] = status[job[t]]
        /\ status'[job[t]] # status[job[t]] => task[t] \in AtInstance
    BY <1>4 DEF Upserts, FetchFails, Save, Close, Pause, Persist, TypeOK
  <2>4. /\ \A v \in Windows : v # w => window'[v] = window[v]
        /\ window'[w] = "SUCCESS" => task[t] = "closing"
    BY <1>4, <2>1 DEF Upserts, FetchFails, Save, Close, Pause, Upsert, TypeOK, Windows
  <2> HIDE DEF w
  <2>5. WritesOwn(t, deadline[t], {w})
    BY <2>1, <2>2, <2>3, <2>4 DEF WritesOwn, w
  <2>6. QED
    BY <2>1, <2>5
<1>5. CASE Advances(t)
  <2>1. Stamp(deadline[t], {})
    BY <1>5 DEF Advances
  <2>2. \A w \in Windows : window'[w] \in {window[w], "none"}
    BY <1>5 DEF Advances, ReadJob, Claim, NextPage, Fetch, Takes, FetchRepeats, Insert, Check, Complete,
      StartDelete, Delete, Report, Finish, Fail, tables, Windows
  <2>3. /\ status'[job[t]] # status[job[t]]
        /\ status'[job[t]] \in {"SUCCESS", "PAUSED"}
        => job[t] \in Deletions \/ task[t] \in Copying
    BY <1>5 DEF Advances, ReadJob, Claim, NextPage, Fetch, Takes, FetchRepeats, Insert, Check, Complete,
      StartDelete, Delete, Report, Finish, Fail, tables, Persist, TypeOK, EndingsOK
  <2>4. WritesOwn(t, deadline[t], {})
    BY <2>1, <2>2, <2>3 DEF WritesOwn
  <2>5. QED
    BY <2>4
<1>6. QED
  BY <1>2, <1>3, <1>4, <1>5 DEF Works

\* What users' requests do.
LEMMA AskedFrame ==
  ASSUME IInv, Asked
  PROVE  /\ Stamp(0, {}) /\ UNCHANGED <<at, deadline, sweep, mixed>>
         /\ \A u \in Tasks : \/ task'[u] = "scheduled"
                             \/ task'[u] = task[u] /\ job'[u] = job[u]
         /\ \A k \in Jobs : status'[k] \in {status[k], "PENDING", "deleted"}
         /\ \A w \in Windows :
              /\ window'[w] \in {window[w], "none"}
              /\ status'[w[1]] = "deleted" /\ window'[w] # "none" => status[w[1]] = "deleted"
         /\ \A e \in Entries : rows'[e] \in {rows[e], NoJob}
<1>1. TypeOK /\ RequestsOK
  BY DEF IInv, JobInv
<1>2. Stamp(0, {}) /\ UNCHANGED <<deadline, sweep, mixed>>
  BY DEF Asked
<1> DEFINE Rest == /\ UNCHANGED at
                   /\ \A u \in Tasks : \/ task'[u] = "scheduled"
                                       \/ task'[u] = task[u] /\ job'[u] = job[u]
                   /\ \A k \in Jobs : status'[k] \in {status[k], "PENDING", "deleted"}
                   /\ \A w \in Windows :
                        /\ window'[w] \in {window[w], "none"}
                        /\ status'[w[1]] = "deleted" /\ window'[w] # "none"
                             => status[w[1]] = "deleted"
                   /\ \A e \in Entries : rows'[e] \in {rows[e], NoJob}
<1>3. ASSUME NEW j \in Jobs, NEW t \in Tasks, SetsOff(j, t)
      PROVE  Rest
  BY <1>3 DEF SetsOff, Windows
<1>4. ASSUME NothingElse PROVE Rest
  BY <1>4 DEF NothingElse, tables, tasks
<1>5. ASSUME NEW r \in Requests, DeleteJob(r), ~NothingElse PROVE Rest
  <2>1. /\ status' = [status EXCEPT ![job[r]] = "deleted"]
        /\ UNCHANGED tasks /\ \A t \in Tasks : job'[t] = job[t]
    BY <1>1, <1>5, RequestFrame
  <2>2. \A k \in Jobs : status'[k] = IF k = job[r] THEN "deleted" ELSE status[k]
    BY <1>1, <2>1 DEF TypeOK
  <2>3. /\ \A w \in Windows : \/ window'[w] = window[w] /\ w[1] # job[r]
                             \/ window'[w] = "none"
        /\ \A e \in Entries : rows'[e] \in {rows[e], NoJob}
    <3>1. status[job[r]] # "deleted"
      BY <1>1, <1>5, ActorsAssumption
      DEF DeleteJob, NothingElse, TypeOK, tables, tasks
    <3>2. QED
      BY <1>5, <3>1 DEF DeleteJob, Windows
  <2>4. QED
    BY <2>1, <2>2, <2>3 DEF tasks, Windows
<1>6. Rest
  BY <1>1, <1>3, <1>4, <1>5, RequestFrame, EnqueueFrame DEF Asked
<1>7. QED
  BY <1>2, <1>6

\* The dates that the tasks work with.
LEMMA WorkDeadlines ==
  ASSUME TypeOK, RetentionTypeOK, NEW t \in Tasks, Works(t)
  PROVE  /\ \A u \in Tasks \ {t} : task'[u] # "idle" => deadline'[u] = deadline[u]
         /\ task'[t] # "idle" => \/ deadline'[t] = deadline[t]
                                 \/ task[t] = "starting" /\ deadline'[t] = Today
         /\ task[t] = "starting" /\ task'[t] \in Copying => deadline'[t] = Today
<1>1. CASE StartDated(t)
  BY <1>1 DEF StartDated, Start, Goto, RetentionTypeOK
<1>2. CASE Opens(t) \/ Upserts(t)
  BY <1>2 DEF Opens, Choose, Upserts, FetchFails, Save, Close, Pause, Goto
<1>3. CASE Advances(t)
  <2>1. Forget
    BY <1>3 DEF Advances
  <2>2. task[t] = "starting" => task'[t] \notin Copying
    BY <1>3 DEF Advances, ReadJob, Claim, NextPage, Fetch, Takes, FetchRepeats, Insert, Check, Complete,
      StartDelete, Delete, Report, Finish, Fail, Over, Goto, Copying, AtInstance, TypeOK
  <2>3. QED
    BY <2>1, <2>2 DEF Forget
<1>4. QED
  BY <1>1, <1>2, <1>3 DEF Works

LEMMA WorkTaskDates ==
  ASSUME IInv, RetentionTypeOK, CopiesOK, NoneAhead, TaskDates, NEW t \in Tasks, Works(t),
         NoneAhead', RetentionTypeOK'
  PROVE  TaskDates'
<1>1. TypeOK /\ EndingsOK
  BY DEF IInv, JobInv
<1>2. Advance(t) /\ OthersKeep(t) /\ OnlyOwnRow(t) /\ CopiesOn(t) /\ job[t] \in Jobs
  BY <1>1, WorksAdvances, AdvanceFrame, AdvanceCopies
<1>3. PICK until \in {0, deadline[t]}, ws \in SUBSET Windows : WritesOwn(t, until, ws)
  BY <1>1, WorkWrites
<1>4. until \in Nat /\ Stamp(until, ws)
  BY <1>3 DEF WritesOwn, RetentionTypeOK
<1>5. /\ \A w \in Windows \cap ws : windowUntil'[w] <= until
      /\ \A w \in Windows \ ws : windowUntil'[w] <= windowUntil[w]
  BY <1>4, StampDates
<1>6. untimely' = untimely /\ Today' = Today
  BY <1>4 DEF Stamp, Today
<1>7. ASSUME NEW u \in Tasks, task'[u] \in Copying,
             NEW w \in Windows \ untimely, w[1] = job'[u]
      PROVE  windowUntil'[w] <= deadline'[u]
  <2>1. /\ windowUntil[w] \in Nat /\ windowUntil'[w] \in Nat
        /\ deadline[u] \in Nat /\ deadline'[u] \in Nat
    BY DEF RetentionTypeOK
  <2>2. task'[u] # "idle"
    BY <1>7 DEF Copying, AtInstance
  <2>3. CASE u = t
    <3>1. job'[t] = job[t] /\ task[t] \in Copying \cup {"starting"}
      BY <1>2, <1>7, <2>2, <2>3 DEF OnlyOwnRow, CopiesOn
    <3>2. CASE deadline'[t] = Today
      BY <1>6, <2>3, <3>2 DEF NoneAhead
    <3>3. CASE deadline'[t] # Today
      <4>1. task[t] \in Copying /\ deadline'[t] = deadline[t]
        BY <1>1, <1>7, <2>2, <2>3, <3>1, <3>3, WorkDeadlines
      <4>2. windowUntil[w] <= deadline[t]
        BY <1>7, <2>3, <3>1, <4>1 DEF TaskDates
      <4>3. QED
        BY <1>3, <1>5, <2>1, <2>3, <4>1, <4>2 DEF WritesOwn
    <3>4. QED
      BY <3>2, <3>3
  <2>4. CASE u # t
    <3>1. task'[u] = task[u] /\ job'[u] = job[u] /\ deadline'[u] = deadline[u]
      BY <1>1, <1>2, <2>2, <2>4, WorkDeadlines DEF OthersKeep
    <3>2. InHand(u)
      BY <1>7, <3>1 DEF InHand, Working, Copying, AtInstance
    <3>3. windowUntil[w] <= deadline[u]
      BY <1>7, <3>1 DEF TaskDates
    <3>4. w \notin ws
      <4>1. SUFFICES ASSUME w \in ws PROVE FALSE
        OBVIOUS
      <4>2. InHand(t) /\ job[t] = job[u]
        BY <1>3, <1>7, <3>1, <4>1 DEF WritesOwn, InHand, Working, Copying, AtInstance
      <4>3. QED
        BY <2>4, <3>2, <4>2, OwnJob
    <3>5. QED
      BY <1>5, <2>1, <3>1, <3>3, <3>4
  <2>5. QED
    BY <2>3, <2>4
<1>8. QED
  BY <1>6, <1>7 DEF TaskDates

LEMMA TaskDatesInv ==
  ASSUME IInv, RetentionTypeOK, CopiesOK, NoneAhead, TaskDates,
         [RetentionNext]_retentionVars, NoneAhead', RetentionTypeOK'
  PROVE  TaskDates'
<1>1. TypeOK
  BY DEF IInv, JobInv
<1>2. /\ \A w \in Windows : windowUntil[w] \in Nat /\ windowUntil'[w] \in Nat
      /\ \A u \in Tasks : deadline[u] \in Nat
  BY DEF RetentionTypeOK
<1>3. ASSUME \A u \in Tasks : task'[u] \in Copying =>
               task'[u] = task[u] /\ job'[u] = job[u] /\ deadline'[u] = deadline[u],
             \A w \in Windows \ untimely' :
               \/ windowUntil'[w] <= windowUntil[w]
               \/ \A u \in Tasks : task'[u] \in Copying => job[u] # w[1],
             untimely \subseteq untimely'
      PROVE  TaskDates'
  BY <1>2, <1>3 DEF TaskDates
<1>4. CASE \E t \in Tasks : Works(t)
  BY <1>4, WorkTaskDates
<1>5. CASE Interrupts
  BY <1>5 DEF Interrupts, Crash, Die, Restart, TaskDates, Copying, AtInstance
<1>6. CASE Asked
  <2>1. /\ Stamp(0, {}) /\ UNCHANGED deadline
        /\ \A u \in Tasks : \/ task'[u] = "scheduled"
                            \/ task'[u] = task[u] /\ job'[u] = job[u]
    BY <1>6, AskedFrame
  <2>2. untimely' = untimely /\ \A w \in Windows : windowUntil'[w] <= windowUntil[w]
    BY <2>1, StampNothing DEF Stamp
  <2>3. \A u \in Tasks : task'[u] \in Copying =>
          task'[u] = task[u] /\ job'[u] = job[u] /\ deadline'[u] = deadline[u]
    BY <2>1 DEF Copying, AtInstance
  <2>4. QED
    BY <1>3, <2>2, <2>3
<1>7. CASE SweepQueries \/ SweepWindows \/ SweepJobs
  <2>1. /\ UNCHANGED <<tasks, job, deadline, untimely>>
        /\ \A w \in Windows : windowUntil'[w] <= windowUntil[w]
    BY <1>7, SweepFrame, SweepDates DEF history
  <2>2. QED
    BY <1>3, <2>1 DEF tasks
<1>8. CASE Renew
  <2>1. UNCHANGED <<task, job, deadline>> /\ untimely \subseteq untimely'
    BY <1>8 DEF Renew, vars, tasks, history
  <2>2. ASSUME NEW w \in Windows \ untimely', NEW u \in Tasks, task[u] \in Copying,
               job[u] = w[1]
        PROVE  windowUntil'[w] = windowUntil[w]
    <3>1. w \in InHandWindows
      BY <2>2 DEF InHandWindows, InHand, Working, Copying, AtInstance
    <3>2. QED
      BY <1>8, <2>2, <3>1 DEF Renew, Renewed, dates, RetentionTypeOK
  <2>3. QED
    BY <1>2, <2>1, <2>2 DEF TaskDates
<1>9. CASE Morning \/ (\E w \in Windows : AskRenewal(w)) \/ UNCHANGED retentionVars
  BY <1>9 DEF Morning, AskRenewal, retentionVars, vars, tasks, dates, history, TaskDates
<1>10. QED
  BY <1>4, <1>5, <1>6, <1>7, <1>8, <1>9 DEF RetentionNext

LEMMA WorkJobDates ==
  ASSUME IInv, RetentionTypeOK, CopiesOK, NoneAhead, TaskDates, JobDates,
         NEW t \in Tasks, Works(t), NoneAhead', RetentionTypeOK'
  PROVE  JobDates'
<1>1. TypeOK /\ EndingsOK
  BY DEF IInv, JobInv
<1>2. Advance(t) /\ OthersKeep(t) /\ OnlyOwnRow(t) /\ CopiesOn(t) /\ job[t] \in Jobs
  BY <1>1, WorksAdvances, AdvanceFrame, AdvanceCopies
<1>3. PICK until \in {0, deadline[t]}, ws \in SUBSET Windows : WritesOwn(t, until, ws)
  BY <1>1, WorkWrites
<1>4. until \in Nat /\ Stamp(until, ws)
  BY <1>3 DEF WritesOwn, RetentionTypeOK
<1>5. /\ \A w \in Windows \cap ws : windowUntil'[w] <= until
      /\ \A w \in Windows \ ws : windowUntil'[w] <= windowUntil[w]
      /\ \A j \in Jobs : status'[j] \in Done =>
           \/ status'[j] = status[j] /\ jobUntil'[j] = jobUntil[j]
           \/ status'[j] # status[j] /\ jobUntil'[j] = Today
           \/ /\ status'[j] # status[j] /\ jobUntil'[j] = until
              /\ j \notin Deletions /\ status'[j] # "FAILURE"
      /\ \A j \in Jobs :
           /\ status'[j] \in {"SUCCESS", "PAUSED"} /\ status'[j] # status[j]
           /\ j \notin Deletions
           => jobUntil'[j] = until
  BY <1>4, StampDates
<1>6. untimely' = untimely /\ Today' = Today
  BY <1>4 DEF Stamp, Today
<1>7. ASSUME NEW w \in Windows \ untimely, status'[w[1]] \in Done
      PROVE  windowUntil'[w] <= jobUntil'[w[1]]
  <2> DEFINE j == w[1]
  <2>1. /\ j \in Jobs /\ windowUntil'[w] <= Today
        /\ windowUntil[w] \in Nat /\ windowUntil'[w] \in Nat
        /\ jobUntil[j] \in Nat /\ jobUntil'[j] \in Nat
        /\ deadline[t] \in Nat
    BY <1>6 DEF Windows, RetentionTypeOK, NoneAhead
  <2> HIDE DEF j
  <2>2. CASE status'[j] = status[j] /\ jobUntil'[j] = jobUntil[j]
    <3>1. CASE w \notin ws
      <4>1. windowUntil[w] <= jobUntil[j]
        BY <1>7, <2>2 DEF JobDates, j
      <4>2. QED
        BY <1>5, <2>1, <2>2, <3>1, <4>1 DEF j
    <3>2. CASE w \in ws
      <4>1. job[t] = j /\ until = deadline[t] /\ task[t] \in Copying \cup {"pausing"}
        BY <1>3, <3>2 DEF WritesOwn, j
      <4>2. task[t] = "pausing"
        BY <1>7, <2>2, <4>1 DEF CopiesOK, j
      <4>3. deadline[t] <= jobUntil[j]
        BY <1>7, <2>2, <4>1, <4>2 DEF JobDates, j
      <4>4. QED
        BY <1>5, <2>1, <2>2, <3>2, <4>1, <4>3 DEF j
    <3>3. QED
      BY <3>1, <3>2
  <2>3. CASE jobUntil'[j] = Today
    BY <2>1, <2>3 DEF j
  <2>4. CASE /\ status'[j] # status[j] /\ jobUntil'[j] = until
             /\ j \notin Deletions /\ status'[j] # "FAILURE"
    <3>1. j = job[t]
      BY <1>2, <2>1, <2>4 DEF OnlyOwnRow
    <3>2. until = deadline[t] /\ task[t] \in Copying
      BY <1>3, <1>7, <2>4, <3>1 DEF WritesOwn, Done, j
    <3>3. windowUntil[w] <= deadline[t]
      BY <1>7, <3>1, <3>2 DEF TaskDates, j
    <3>4. QED
      BY <1>5, <2>1, <2>4, <3>2, <3>3 DEF j
  <2>5. QED
    BY <1>5, <1>7, <2>1, <2>2, <2>3, <2>4 DEF j
<1>8. ASSUME NEW u \in Tasks, task'[u] = "pausing", status'[job'[u]] \in Done
      PROVE  deadline'[u] <= jobUntil'[job'[u]]
  <2>1. CASE u = t
    <3>1. /\ job'[t] = job[t] /\ status'[job[t]] = "PAUSED" /\ task[t] \in Copying
          /\ job[t] \notin Deletions /\ deadline'[t] = deadline[t]
      BY <1>1, <1>2, <1>8, <2>1, WorkDeadlines DEF OnlyOwnRow, CopiesOn, Copying, AtInstance
    <3>2. status'[job[t]] # status[job[t]]
      BY <3>1 DEF CopiesOK, Done
    <3>3. until = deadline[t] /\ jobUntil'[job[t]] = until
      BY <1>2, <1>3, <1>5, <3>1, <3>2 DEF WritesOwn
    <3>4. QED
      BY <2>1, <3>1, <3>3 DEF RetentionTypeOK
  <2>2. CASE u # t
    <3>1. task'[u] = task[u] /\ job'[u] = job[u] /\ deadline'[u] = deadline[u]
      BY <1>1, <1>2, <1>8, <2>2, WorkDeadlines DEF OthersKeep
    <3>2. InHand(u) /\ job[u] \in Jobs
      BY <1>1, <1>8, <3>1, JobInHand DEF InHand, Working
    <3>3. status'[job[u]] = status[job[u]]
      BY <1>2, <2>2, <3>2, OthersStatus
    <3>4. jobUntil'[job[u]] = jobUntil[job[u]]
      BY <1>5, <1>8, <3>1, <3>2, <3>3
    <3>5. QED
      BY <1>8, <3>1, <3>3, <3>4 DEF JobDates
  <2>3. QED
    BY <2>1, <2>2
<1>9. QED
  BY <1>6, <1>7, <1>8 DEF JobDates

LEMMA JobDatesInv ==
  ASSUME IInv, RetentionTypeOK, CopiesOK, NoneAhead, TaskDates, JobDates,
         [RetentionNext]_retentionVars, NoneAhead', RetentionTypeOK'
  PROVE  JobDates'
<1>1. TypeOK
  BY DEF IInv, JobInv
<1>2. /\ \A w \in Windows : w[1] \in Jobs /\ windowUntil[w] \in Nat /\ windowUntil'[w] \in Nat
      /\ \A u \in Tasks : deadline[u] \in Nat
      /\ \A j \in Jobs : jobUntil[j] \in Nat /\ jobUntil'[j] \in Nat
      /\ Today \in Nat
  BY TodayType DEF RetentionTypeOK, Windows
<1>3. ASSUME \A u \in Tasks : task'[u] = "pausing" =>
               task'[u] = task[u] /\ job'[u] = job[u] /\ deadline'[u] = deadline[u],
             \A w \in Windows : windowUntil'[w] <= windowUntil[w],
             untimely' = untimely,
             \A j \in Jobs : status'[j] \in Done =>
               \/ status'[j] = status[j] /\ jobUntil'[j] = jobUntil[j]
               \/ jobUntil'[j] = Today /\ Today' = Today
      PROVE  JobDates'
  <2>1. ASSUME NEW w \in Windows \ untimely, status'[w[1]] \in Done
        PROVE  windowUntil'[w] <= jobUntil'[w[1]]
    <3>1. CASE jobUntil'[w[1]] = Today /\ Today' = Today
      BY <1>2, <3>1 DEF NoneAhead
    <3>2. CASE status'[w[1]] = status[w[1]] /\ jobUntil'[w[1]] = jobUntil[w[1]]
      <4>1. windowUntil[w] <= jobUntil[w[1]]
        BY <2>1, <3>2 DEF JobDates
      <4>2. windowUntil'[w] <= windowUntil[w]
        BY <1>3
      <4>3. QED
        BY <1>2, <3>2, <4>1, <4>2
    <3>3. QED
      BY <1>2, <1>3, <2>1, <3>1, <3>2
  <2>2. ASSUME NEW u \in Tasks, task'[u] = "pausing", status'[job'[u]] \in Done
        PROVE  deadline'[u] <= jobUntil'[job'[u]]
    <3>1. task'[u] = task[u] /\ job'[u] = job[u] /\ deadline'[u] = deadline[u]
      BY <1>3, <2>2
    <3>2. job[u] \in Jobs
      BY <1>1, <2>2, <3>1, JobInHand
    <3>3. deadline[u] <= Today
      BY DEF NoneAhead
    <3>4. QED
      BY <1>2, <1>3, <2>2, <3>1, <3>2, <3>3 DEF JobDates
  <2>3. QED
    BY <1>3, <2>1, <2>2 DEF JobDates
<1>4. CASE \E t \in Tasks : Works(t)
  BY <1>4, WorkJobDates
<1>5. CASE Interrupts \/ Asked
  <2>1. Stamp(0, {})
    BY <1>5 DEF Interrupts, Asked
  <2>2. \A u \in Tasks : task'[u] = "pausing" =>
          task'[u] = task[u] /\ job'[u] = job[u] /\ deadline'[u] = deadline[u]
    BY <1>5, AskedFrame DEF Interrupts, Crash, Die, Restart
  <2>3. \A k \in Jobs : status'[k] \in {status[k], "PENDING", "deleted", "FAILURE"}
    <3>1. CASE Interrupts
      BY <3>1 DEF Interrupts, Crash, Die, Restart
    <3>2. CASE Asked
      BY <3>2, AskedFrame
    <3>3. QED
      BY <1>5, <3>1, <3>2
  <2>4. untimely' = untimely /\ Today' = Today
    BY <2>1 DEF Stamp, Today
  <2>5. \A j \in Jobs : status'[j] \in Done =>
          \/ status'[j] = status[j] /\ jobUntil'[j] = jobUntil[j]
          \/ status'[j] # status[j] /\ jobUntil'[j] = Today
          \/ status'[j] # status[j] /\ status'[j] # "FAILURE"
    <3>1. 0 \in Nat
      OBVIOUS
    <3>2. QED
      BY <2>1, <3>1, StampDates
  <2>6. \A j \in Jobs : status'[j] \in Done =>
          \/ status'[j] = status[j] /\ jobUntil'[j] = jobUntil[j]
          \/ jobUntil'[j] = Today
    BY <2>3, <2>5 DEF Done
  <2>7. QED
    BY <1>3, <2>1, <2>2, <2>4, <2>6, StampNothing
<1>6. CASE SweepQueries \/ SweepWindows \/ SweepJobs
  <2>1. /\ UNCHANGED <<task, job, deadline, untimely, jobUntil>>
        /\ \A w \in Windows : windowUntil'[w] <= windowUntil[w]
        /\ \A k \in Jobs : status'[k] \in {status[k], "deleted"}
    BY <1>6, SweepFrame, SweepDates DEF history, tasks
  <2>2. QED
    BY <1>3, <2>1 DEF Done
<1>7. CASE Renew
  <2>1. UNCHANGED <<status, task, job, deadline>> /\ untimely \subseteq untimely'
    BY <1>7 DEF Renew, vars, tables, tasks, history
  <2>2. \A j \in Jobs : jobUntil'[j] \in {jobUntil[j], Today}
    BY <1>7 DEF Renew, Renewed, dates, RetentionTypeOK
  <2>3. ASSUME NEW w \in Windows, windowUntil'[w] # windowUntil[w]
        PROVE  windowUntil'[w] = Today /\ jobUntil'[w[1]] = Today
    BY <1>2, <1>7, <2>3 DEF Renew, Renewed, Linked, dates, RetentionTypeOK
  <2>4. ASSUME NEW w \in Windows \ untimely', status'[w[1]] \in Done
        PROVE  windowUntil'[w] <= jobUntil'[w[1]]
    <3>1. CASE windowUntil'[w] # windowUntil[w]
      BY <1>2, <2>3, <3>1
    <3>2. CASE windowUntil'[w] = windowUntil[w]
      BY <1>2, <2>1, <2>2, <2>4, <3>2 DEF JobDates, NoneAhead
    <3>3. QED
      BY <3>1, <3>2
  <2>5. ASSUME NEW u \in Tasks, task'[u] = "pausing", status'[job'[u]] \in Done
        PROVE  deadline'[u] <= jobUntil'[job'[u]]
    <3>1. job[u] \in Jobs /\ deadline[u] <= Today
      BY <1>1, <2>1, <2>5, JobInHand DEF NoneAhead
    <3>2. QED
      BY <1>2, <2>1, <2>2, <2>5, <3>1 DEF JobDates
  <2>6. QED
    BY <2>4, <2>5 DEF JobDates
<1>8. CASE Morning \/ (\E w \in Windows : AskRenewal(w)) \/ UNCHANGED retentionVars
  BY <1>8 DEF Morning, AskRenewal, retentionVars, vars, tables, tasks, dates, history, JobDates
<1>9. QED
  BY <1>4, <1>5, <1>6, <1>7, <1>8 DEF RetentionNext

-----------------------------------------------------------------------------
(***************************************************************************)
(* JobOutlivesWindow                                                       *)
(***************************************************************************)
LEMMA JobOutlivesWindowInv ==
  ASSUME IInv, RetentionTypeOK, JobDates, JobOutlivesWindow, [RetentionNext]_retentionVars,
         RetentionTypeOK'
  PROVE  JobOutlivesWindow'
<1>1. TypeOK /\ EndingsOK
  BY DEF IInv, JobInv
<1>2. /\ \A w \in Windows : w[1] \in Jobs /\ windowUntil[w] \in Nat /\ windowUntil'[w] \in Nat
      /\ \A j \in Jobs : jobUntil[j] \in Nat
      /\ day \in Nat /\ day' \in Nat
  BY TodayType DEF RetentionTypeOK, Windows
<1>3. ASSUME \A w \in Windows \ untimely' :
               window'[w] = "SUCCESS" /\ status'[w[1]] = "deleted" =>
                 /\ window[w] = "SUCCESS" /\ status[w[1]] = "deleted"
                 /\ windowUntil'[w] <= windowUntil[w],
             untimely \subseteq untimely', day <= day'
      PROVE  JobOutlivesWindow'
  BY <1>2, <1>3 DEF JobOutlivesWindow
<1>4. ASSUME NEW t \in Tasks, Works(t) PROVE JobOutlivesWindow'
  <2>1. OnlyOwnRow(t) /\ Wrote(t) /\ job[t] \in Jobs
    BY <1>1, <1>4, WorksAdvances, AdvanceFrame, AdvanceWrites
  <2>2. PICK until \in {0, deadline[t]}, ws \in SUBSET Windows : WritesOwn(t, until, ws)
    BY <1>1, <1>4, WorkWrites
  <2>3. until \in Nat /\ Stamp(until, ws)
    BY <2>2 DEF WritesOwn, RetentionTypeOK
  <2>4. \A w \in Windows \ ws : windowUntil'[w] <= windowUntil[w]
    BY <2>3, StampDates
  <2>5. ASSUME NEW w \in Windows, window'[w] = "SUCCESS", status'[w[1]] = "deleted"
        PROVE  window[w] = "SUCCESS" /\ status[w[1]] = "deleted" /\ w \notin ws
    <3>1. w \notin ws
      BY <2>2, <2>5 DEF WritesOwn
    <3>2. window[w] = "SUCCESS"
      BY <2>2, <2>5, <3>1 DEF WritesOwn
    <3>3. status[w[1]] = "deleted"
      BY <1>2, <2>1, <2>5 DEF OnlyOwnRow, Wrote
    <3>4. QED
      BY <3>1, <3>2, <3>3
  <2>6. untimely' = untimely /\ day' = day
    BY <2>3 DEF Stamp
  <2>7. QED
    BY <1>2, <1>3, <2>4, <2>5, <2>6
<1>5. CASE Interrupts
  <2>1. /\ Stamp(0, {}) /\ window' = window
        /\ \A k \in Jobs : status'[k] \in {status[k], "FAILURE"}
    BY <1>5 DEF Interrupts, Crash, Die, Restart
  <2>2. untimely' = untimely /\ day' = day
    BY <2>1 DEF Stamp
  <2>3. QED
    BY <1>2, <1>3, <2>1, <2>2, StampNothing
<1>6. CASE Asked
  <2>1. /\ Stamp(0, {})
        /\ \A w \in Windows :
             /\ window'[w] \in {window[w], "none"}
             /\ status'[w[1]] = "deleted" /\ window'[w] # "none" => status[w[1]] = "deleted"
    BY <1>6, AskedFrame
  <2>2. untimely' = untimely /\ day' = day
    BY <2>1 DEF Stamp
  <2>3. QED
    BY <1>2, <1>3, <2>1, <2>2, StampNothing
<1>7. CASE SweepQueries \/ SweepWindows
  <2>1. /\ UNCHANGED <<day, untimely>>
        /\ \A w \in Windows : windowUntil'[w] <= windowUntil[w]
    BY <1>7, SweepDates DEF history
  <2>2. status' = status /\ \A w \in Windows : window'[w] \in {window[w], "none"}
    BY <1>7 DEF SweepQueries, SweepWindows
  <2>3. QED
    BY <1>2, <1>3, <2>1, <2>2
<1>8. CASE SweepJobs
  <2>1. UNCHANGED <<day, untimely, window, windowUntil>>
    BY <1>8 DEF SweepJobs, Sweeps, history
  <2>2. ASSUME NEW w \in Windows \ untimely, window[w] = "SUCCESS", status'[w[1]] = "deleted"
        PROVE  windowUntil[w] < day
    <3>1. CASE status[w[1]] = "deleted"
      BY <2>2, <3>1 DEF JobOutlivesWindow
    <3>2. CASE status[w[1]] # "deleted"
      <4>1. Expired(w[1])
        BY <1>2, <1>8, <2>2, <3>2 DEF SweepJobs
      <4>2. windowUntil[w] <= jobUntil[w[1]]
        BY <4>1 DEF JobDates, Expired, Done
      <4>3. QED
        BY <1>2, <4>1, <4>2 DEF Expired
    <3>3. QED
      BY <3>1, <3>2
  <2>3. QED
    BY <2>1, <2>2 DEF JobOutlivesWindow
<1>9. CASE Renew
  <2>1. UNCHANGED <<status, window, day>> /\ untimely \subseteq untimely'
    BY <1>9 DEF Renew, vars, tables, history
  <2>2. ASSUME NEW w \in Windows, status[w[1]] = "deleted"
        PROVE  windowUntil'[w] = windowUntil[w]
    BY <1>9, <2>2 DEF Renew, Renewed, Exists, dates, RetentionTypeOK
  <2>3. QED
    BY <1>2, <1>3, <2>1, <2>2
<1>10. CASE Morning
  <2>1. UNCHANGED <<vars, dates, untimely>> /\ day' = day + 1
    BY <1>10 DEF Morning, history
  <2>2. QED
    BY <1>2, <1>3, <2>1 DEF vars, tables, dates
<1>11. CASE (\E w \in Windows : AskRenewal(w)) \/ UNCHANGED retentionVars
  BY <1>11 DEF AskRenewal, retentionVars, vars, tables, dates, history, JobOutlivesWindow
<1>12. QED
  BY <1>4, <1>5, <1>6, <1>7, <1>8, <1>9, <1>10, <1>11 DEF RetentionNext

-----------------------------------------------------------------------------
(***************************************************************************)
(* Windows and their entries                                               *)
(***************************************************************************)

\* A task's step stores entries only where it is inserting.
Inserts(t, e) ==
  /\ task[t] = "inserting" /\ Stamp(deadline[t], {}) /\ window' = window
  /\ e[1] = at[t] /\ rows[e] = NoJob /\ rows'[e] = job[t]

LEMMA WorkRows ==
  ASSUME NEW t \in Tasks, Works(t), NEW e \in Entries
  PROVE  rows'[e] \in {rows[e], NoJob} \/ Inserts(t, e)
<1>1. CASE Insert(t)
  <2>1. Advances(t)
    BY <1>1 DEF Works, StartDated, Opens, Upserts, Start, Choose, NextPage, FetchFails, Save,
      Close, Pause, Insert, Goto
  <2>2. QED
    BY <1>1, <2>1 DEF Insert, Advances, Inserts, Goto, Stored
<1>2. CASE ~Insert(t)
  BY <1>2 DEF Works, StartDated, Opens, Upserts, Advances, Start, Choose, NextPage, FetchFails,
    Save, Close, Pause, ReadJob, Claim, NextPage, Fetch, Takes, FetchRepeats, Check, Complete,
    StartDelete, Delete, Report, Finish, Fail, tables
<1>3. QED
  BY <1>1, <1>2

\* While a task copies, it stays with one instance until it opens the next.
LEMMA WorkStays ==
  ASSUME TypeOK, RetentionTypeOK, NEW t \in Tasks, Works(t), task'[t] \in AtInstance
  PROVE  \/ Opens(t)
         \/ /\ task[t] \in AtInstance \ {"closing"}
            /\ job'[t] = job[t] /\ at'[t] = at[t] /\ deadline'[t] = deadline[t]
<1> USE DEF AtInstance, Goto
<1>1. CASE Opens(t)
  BY <1>1
<1>2. CASE StartDated(t)
  BY <1>2 DEF StartDated, Start, TypeOK
<1>3. CASE Upserts(t)
  BY <1>3 DEF Upserts, FetchFails, Save, Close, Pause, TypeOK
<1>4. CASE Advances(t)
  <2>1. /\ task[t] \in AtInstance \ {"closing"}
        /\ job'[t] = job[t] /\ at'[t] = at[t]
    BY <1>4 DEF Advances, ReadJob, Claim, NextPage, Fetch, Takes, FetchRepeats, Insert, Check, Complete,
      StartDelete, Delete, Report, Finish, Fail, Over, TypeOK
  <2>2. deadline'[t] = deadline[t]
    BY <1>4 DEF Advances, Forget
  <2>3. QED
    BY <2>1, <2>2
<1>5. QED
  BY <1>1, <1>2, <1>3, <1>4 DEF Works

LEMMA OwnType ==
  ASSUME NEW w \in Windows, NEW e \in Own(w)
  PROVE  e \in Entries /\ w[1] \in Jobs /\ rows[e] = w[1] /\ rows[e] # NoJob /\ e[1] = w[2]
BY JobsAssumption DEF Own, Windows

LEMMA OwnTypeNext ==
  ASSUME NEW w \in Windows, NEW e \in Own(w)'
  PROVE  e \in Entries /\ w[1] \in Jobs /\ rows'[e] = w[1] /\ rows'[e] # NoJob /\ e[1] = w[2]
BY JobsAssumption DEF Own, Windows

LEMMA WorkEntryDates ==
  ASSUME IInv, RetentionTypeOK, NoneAhead, EntryDates, CopyDates, NEW t \in Tasks, Works(t),
         RetentionTypeOK'
  PROVE  EntryDates'
<1>1. TypeOK /\ EndingsOK
  BY DEF IInv, JobInv
<1>2. PICK until \in {0, deadline[t]}, ws \in SUBSET Windows : WritesOwn(t, until, ws)
  BY <1>1, WorkWrites
<1>3. until \in Nat /\ Stamp(until, ws)
  BY <1>2 DEF WritesOwn, RetentionTypeOK
<1>4. /\ \A w \in Windows \cap ws : windowUntil'[w] <= until
      /\ \A w \in Windows \ ws : windowUntil'[w] <= windowUntil[w]
      /\ \A e \in Entries :
           rows[e] # NoJob /\ rows'[e] = rows[e] => entryUntil'[e] = entryUntil[e]
  BY <1>3, StampDates
<1>5. mixed \subseteq mixed'
  BY <1>1, StampFrame
<1>6. SUFFICES ASSUME NEW w \in Windows \ mixed, window'[w] = "SUCCESS", NEW e \in Own(w)'
               PROVE  windowUntil'[w] <= entryUntil'[e]
  BY <1>5 DEF EntryDates
<1>7. e \in Entries /\ rows'[e] = w[1] /\ rows'[e] # NoJob /\ e[1] = w[2]
  BY OwnTypeNext
<1>8. /\ windowUntil[w] \in Nat /\ windowUntil'[w] \in Nat
      /\ entryUntil[e] \in Nat /\ entryUntil'[e] \in Nat /\ deadline[t] \in Nat
  BY <1>7 DEF RetentionTypeOK
<1>9. ~Inserts(t, e)
  <2>1. SUFFICES ASSUME Inserts(t, e) PROVE FALSE
    OBVIOUS
  <2>2. w = <<job[t], at[t]>> /\ window[w] = "SUCCESS" /\ task[t] \in AtInstance
    <3>1. w[1] = job[t] /\ w[2] = at[t] /\ window' = window /\ task[t] = "inserting"
      BY <1>7, <2>1 DEF Inserts
    <3>2. w = <<w[1], w[2]>>
      BY DEF Windows
    <3>3. QED
      BY <1>6, <3>1, <3>2 DEF AtInstance
  <2>3. QED
    BY <2>2 DEF CopyDates
<1>10. e \in Own(w) /\ entryUntil'[e] = entryUntil[e]
  <2>1. rows'[e] = rows[e]
    BY <1>7, <1>9, WorkRows
  <2>2. QED
    BY <1>4, <1>7, <2>1 DEF Own
<1>11. CASE w \in ws
  <2>1. task[t] = "closing" /\ w = <<job[t], at[t]>> /\ until = deadline[t]
    BY <1>2, <1>6, <1>11 DEF WritesOwn
  <2>2. deadline[t] <= entryUntil[e]
    BY <1>6, <1>10, <2>1 DEF CopyDates, AtInstance
  <2>3. windowUntil'[w] <= until
    BY <1>4, <1>11
  <2>4. QED
    BY <1>8, <1>10, <2>1, <2>2, <2>3
<1>12. CASE w \notin ws
  <2>1. window[w] = "SUCCESS"
    BY <1>2, <1>6, <1>12 DEF WritesOwn
  <2>2. windowUntil[w] <= entryUntil[e]
    BY <1>6, <1>10, <2>1 DEF EntryDates
  <2>3. windowUntil'[w] <= windowUntil[w]
    BY <1>4, <1>12
  <2>4. QED
    BY <1>8, <1>10, <2>2, <2>3
<1>13. QED
  BY <1>11, <1>12

LEMMA WorkCopyDates ==
  ASSUME IInv, RetentionTypeOK, NoneAhead, CopyDates, NEW t \in Tasks, Works(t),
         RetentionTypeOK', TypeOK'
  PROVE  CopyDates'
<1>1. TypeOK /\ EndingsOK
  BY DEF IInv, JobInv
<1>2. Advance(t) /\ OthersKeep(t) /\ job[t] \in Jobs
  BY <1>1, WorksAdvances, AdvanceFrame
<1>3. PICK until \in {0, deadline[t]}, ws \in SUBSET Windows : WritesOwn(t, until, ws)
  BY <1>1, WorkWrites
<1>4. until \in Nat /\ Stamp(until, ws)
  BY <1>3 DEF WritesOwn, RetentionTypeOK
<1>5. \A e \in Entries :
        rows[e] # NoJob /\ rows'[e] = rows[e] => entryUntil'[e] = entryUntil[e]
  BY <1>4, StampDates
<1>6. mixed \subseteq mixed'
  BY <1>1, StampFrame
<1>7. SUFFICES ASSUME NEW u \in Tasks, task'[u] \in AtInstance,
                      NEW v, v = <<job'[u], at'[u]>>
               PROVE  /\ window'[v] # "SUCCESS"
                      /\ v \notin mixed' => \A e \in Own(v)' : deadline'[u] <= entryUntil'[e]
  BY DEF CopyDates
<1>8. v \in Windows
  BY <1>7 DEF TypeOK, Windows, AtInstance
<1>9. CASE u = t /\ Opens(t)
  <2>1. window'[v] = "RUNNING"
    BY <1>1, <1>2, <1>7, <1>8, <1>9 DEF Opens, Choose, TypeOK, Windows
  <2>2. v \notin mixed' => Own(v)' = {}
    BY <1>7, <1>9 DEF Opens, Choose, Own
  <2>3. QED
    BY <2>1, <2>2
<1>10. CASE ~(u = t /\ Opens(t))
  <2>1. /\ task[u] \in AtInstance
        /\ u = t => task[u] # "closing"
        /\ job'[u] = job[u] /\ at'[u] = at[u] /\ deadline'[u] = deadline[u]
    <3>1. CASE u = t
      BY <1>1, <1>7, <1>10, <3>1, WorkStays
    <3>2. CASE u # t
      <4>1. task'[u] = task[u] /\ job'[u] = job[u] /\ at'[u] = at[u]
        BY <1>2, <3>2 DEF OthersKeep
      <4>2. task'[u] # "idle"
        BY <1>7 DEF AtInstance
      <4>3. deadline'[u] = deadline[u]
        BY <1>1, <3>2, <4>2, WorkDeadlines
      <4>4. QED
        BY <1>7, <3>2, <4>1, <4>3
    <3>3. QED
      BY <3>1, <3>2
  <2>2. v = <<job[u], at[u]>> /\ window[v] # "SUCCESS"
    BY <1>7, <2>1 DEF CopyDates
  <2>3. u # t /\ InHand(t) => job[t] # job[u]
    BY <2>1, OwnJob DEF InHand, Working, AtInstance
  <2>4. window'[v] # "SUCCESS"
    <3>1. CASE v \notin ws
      BY <1>3, <1>8, <2>2, <3>1 DEF WritesOwn
    <3>2. CASE v \in ws
      <4>1. job[t] = job[u] /\ InHand(t)
        BY <1>3, <2>2, <3>2 DEF WritesOwn, InHand, Working, Copying, AtInstance
      <4>2. u = t
        BY <2>3, <4>1
      <4>3. QED
        BY <1>3, <2>1, <3>2, <4>2 DEF WritesOwn
    <3>3. QED
      BY <3>1, <3>2
  <2>5. ASSUME v \notin mixed', NEW e \in Own(v)'
        PROVE  deadline[u] <= entryUntil'[e]
    <3>1. e \in Entries /\ rows'[e] = job[u] /\ rows'[e] # NoJob /\ e[1] = at[u]
      BY <1>8, <2>2, OwnTypeNext
    <3>2. CASE Inserts(t, e)
      <4>1. u = t
        BY <2>3, <3>1, <3>2 DEF Inserts, InHand, Working
      <4>2. entryUntil'[e] = deadline[t]
        BY <3>1, <3>2 DEF Inserts, Stamp, Stored
      <4>3. QED
        BY <4>1, <4>2 DEF RetentionTypeOK
    <3>3. CASE ~Inserts(t, e)
      <4>1. rows'[e] = rows[e]
        BY <3>1, <3>3, WorkRows
      <4>2. e \in Own(v) /\ entryUntil'[e] = entryUntil[e]
        BY <1>5, <2>2, <3>1, <4>1 DEF Own
      <4>3. QED
        BY <1>6, <2>1, <2>2, <2>5, <4>2 DEF CopyDates
    <3>4. QED
      BY <3>2, <3>3
  <2>6. QED
    BY <2>1, <2>4, <2>5
<1>11. QED
  BY <1>9, <1>10

\* All that stores nothing and dates no entry or window anew.
LEMMA QuietDates ==
  ASSUME TypeOK, RetentionTypeOK, RetentionTypeOK', EntryDates, CopyDates, mixed' = mixed,
         \A e \in Entries : \/ rows'[e] = NoJob
                            \/ rows'[e] = rows[e] /\ entryUntil'[e] = entryUntil[e],
         \A w \in Windows : /\ window'[w] \in {window[w], "none"}
                            /\ windowUntil'[w] <= windowUntil[w],
         \A u \in Tasks : task'[u] \in AtInstance =>
           /\ task'[u] = task[u] /\ job'[u] = job[u] /\ at'[u] = at[u]
           /\ deadline'[u] = deadline[u]
  PROVE  EntryDates' /\ CopyDates'
<1>1. ASSUME NEW w \in Windows, NEW e \in Own(w)'
      PROVE  e \in Own(w) /\ entryUntil'[e] = entryUntil[e] /\ entryUntil[e] \in Nat
  <2>1. e \in Entries /\ rows'[e] = w[1] /\ rows'[e] # NoJob /\ e[1] = w[2]
    BY <1>1, OwnTypeNext
  <2>2. QED
    BY <2>1 DEF Own, RetentionTypeOK
<1>2. EntryDates'
  <2>1. SUFFICES ASSUME NEW w \in Windows \ mixed, window'[w] = "SUCCESS", NEW e \in Own(w)'
                 PROVE  windowUntil'[w] <= entryUntil'[e]
    BY DEF EntryDates
  <2>2. windowUntil[w] \in Nat /\ windowUntil'[w] \in Nat
    BY DEF RetentionTypeOK
  <2>3. window[w] = "SUCCESS"
    BY <2>1
  <2>4. e \in Own(w) /\ entryUntil'[e] = entryUntil[e] /\ entryUntil[e] \in Nat
    BY <1>1
  <2>5. windowUntil[w] <= entryUntil[e]
    BY <2>3, <2>4 DEF EntryDates
  <2>6. QED
    BY <2>2, <2>4, <2>5
<1>3. CopyDates'
  <2>1. SUFFICES ASSUME NEW u \in Tasks, task'[u] \in AtInstance,
                        NEW v, v = <<job'[u], at'[u]>>
                 PROVE  /\ window'[v] # "SUCCESS"
                        /\ v \notin mixed' => \A e \in Own(v)' : deadline'[u] <= entryUntil'[e]
    BY DEF CopyDates
  <2>2. /\ task[u] \in AtInstance /\ v = <<job[u], at[u]>> /\ deadline'[u] = deadline[u]
    BY <2>1
  <2>3. v \in Windows
    BY <2>2 DEF TypeOK, Windows, AtInstance
  <2>4. window'[v] # "SUCCESS"
    BY <2>2, <2>3 DEF CopyDates
  <2>5. ASSUME v \notin mixed', NEW e \in Own(v)' PROVE deadline'[u] <= entryUntil'[e]
    BY <1>1, <2>2, <2>3, <2>5 DEF CopyDates
  <2>6. QED
    BY <2>4, <2>5
<1>4. QED
  BY <1>2, <1>3

\* A renewal gives a window and all its entries one date.
LEMMA RenewEntryDates ==
  ASSUME TypeOK, RetentionTypeOK, NoneAhead, EntryDates, CopyDates, Renew
  PROVE  EntryDates' /\ CopyDates'
<1>1. UNCHANGED <<task, job, at, rows, window, deadline>>
  BY DEF Renew, vars, tables, tasks
<1>2. \A w \in Windows : Own(w)' = Own(w)
  BY <1>1 DEF Own
<1>3. CASE UNCHANGED <<dates, history>>
  BY <1>1, <1>2, <1>3 DEF EntryDates, CopyDates, dates, history, Own
<1>4. CASE ~UNCHANGED <<dates, history>>
  <2>1. /\ renewal \in Windows
        /\ entryUntil' = Renewed(entryUntil, Own(renewal))
        /\ windowUntil' = Renewed(windowUntil, {renewal})
        /\ mixed' = mixed \ {renewal}
    BY <1>4 DEF Renew, RenewTarget, RetentionTypeOK
  <2>2. Today \in Nat
    BY TodayType
  <2>3. ASSUME NEW w \in Windows, NEW e \in Own(w)
        PROVE  /\ w = renewal => entryUntil'[e] = Today
               /\ w # renewal => entryUntil'[e] = entryUntil[e]
    <3>1. e \in Entries /\ rows[e] = w[1] /\ e[1] = w[2]
      BY <2>3, OwnType
    <3>2. e \in Own(renewal) <=> w = renewal
      <4>1. w = <<w[1], w[2]>> /\ renewal = <<renewal[1], renewal[2]>>
        BY <2>1 DEF Windows
      <4>2. e \in Own(renewal) => w[1] = renewal[1] /\ w[2] = renewal[2]
        BY <3>1 DEF Own
      <4>3. QED
        BY <2>3, <4>1, <4>2
    <3>3. QED
      BY <2>1, <3>1, <3>2 DEF Renewed, RetentionTypeOK
  <2>4. \A w \in Windows : windowUntil'[w] = IF w = renewal THEN Today ELSE windowUntil[w]
    BY <2>1 DEF Renewed, RetentionTypeOK
  <2>5. EntryDates'
    <3>1. SUFFICES ASSUME NEW w \in Windows \ mixed', window[w] = "SUCCESS", NEW e \in Own(w)
                   PROVE  windowUntil'[w] <= entryUntil'[e]
      BY <1>1, <1>2 DEF EntryDates
    <3>2. CASE w = renewal
      BY <2>2, <2>3, <2>4, <3>2
    <3>3. CASE w # renewal
      BY <2>1, <2>3, <2>4, <3>1, <3>3 DEF EntryDates
    <3>4. QED
      BY <3>2, <3>3
  <2>6. CopyDates'
    <3>1. SUFFICES ASSUME NEW u \in Tasks, task'[u] \in AtInstance,
                          NEW v, v = <<job'[u], at'[u]>>
                   PROVE  /\ window'[v] # "SUCCESS"
                          /\ v \notin mixed' =>
                               \A e \in Own(v)' : deadline'[u] <= entryUntil'[e]
      BY DEF CopyDates
    <3>2. /\ task[u] \in AtInstance /\ v = <<job[u], at[u]>>
          /\ window' = window /\ Own(v)' = Own(v) /\ deadline' = deadline
      BY <1>1, <3>1 DEF Own
    <3>3. v \in Windows /\ window[v] # "SUCCESS" /\ deadline[u] <= Today
      BY <3>2 DEF CopyDates, NoneAhead, TypeOK, Windows, AtInstance
    <3>4. ASSUME v \notin mixed', NEW e \in Own(v) PROVE deadline[u] <= entryUntil'[e]
      <4>1. CASE v = renewal
        BY <2>3, <3>3, <3>4, <4>1
      <4>2. CASE v # renewal
        BY <2>1, <2>3, <3>2, <3>3, <3>4, <4>2 DEF CopyDates
      <4>3. QED
        BY <4>1, <4>2
    <3>5. QED
      BY <3>2, <3>3, <3>4
  <2>7. QED
    BY <2>5, <2>6
<1>5. QED
  BY <1>3, <1>4

LEMMA EntryDatesInv ==
  ASSUME IInv, RetentionTypeOK, NoneAhead, EntryDates, CopyDates,
         [RetentionNext]_retentionVars, RetentionTypeOK', TypeOK'
  PROVE  EntryDates' /\ CopyDates'
<1>1. TypeOK
  BY DEF IInv, JobInv
<1>2. CASE \E t \in Tasks : Works(t)
  BY <1>2, WorkEntryDates, WorkCopyDates
<1>3. ASSUME Stamp(0, {}), NEW e \in Entries, rows'[e] \in {rows[e], NoJob}
      PROVE  \/ rows'[e] = NoJob
             \/ rows'[e] = rows[e] /\ entryUntil'[e] = entryUntil[e]
  BY <1>3 DEF Stamp, Stored
<1>4. CASE Interrupts
  <2>1. /\ Stamp(0, {}) /\ UNCHANGED <<rows, window, mixed>>
        /\ \A u \in Tasks : task'[u] \notin AtInstance
    BY <1>4 DEF Interrupts, Crash, Die, Restart, AtInstance
  <2>2. \A w \in Windows : windowUntil'[w] <= windowUntil[w]
    BY <2>1, StampNothing
  <2>3. QED
    BY <1>1, <1>3, <2>1, <2>2, QuietDates
<1>5. CASE Asked
  <2>1. /\ Stamp(0, {}) /\ UNCHANGED <<at, deadline, mixed>>
        /\ \A u \in Tasks : \/ task'[u] = "scheduled"
                            \/ task'[u] = task[u] /\ job'[u] = job[u]
        /\ \A w \in Windows : window'[w] \in {window[w], "none"}
        /\ \A e \in Entries : rows'[e] \in {rows[e], NoJob}
    BY <1>5, AskedFrame
  <2>2. \A w \in Windows : windowUntil'[w] <= windowUntil[w]
    BY <2>1, StampNothing
  <2>3. \A u \in Tasks : task'[u] \in AtInstance =>
          /\ task'[u] = task[u] /\ job'[u] = job[u] /\ at'[u] = at[u]
          /\ deadline'[u] = deadline[u]
    BY <2>1 DEF AtInstance
  <2>4. \A e \in Entries : \/ rows'[e] = NoJob
                           \/ rows'[e] = rows[e] /\ entryUntil'[e] = entryUntil[e]
    BY <1>3, <2>1
  <2>5. QED
    BY <1>1, <2>1, <2>2, <2>3, <2>4, QuietDates
<1>6. CASE SweepQueries \/ SweepWindows \/ SweepJobs
  <2>1. /\ UNCHANGED <<task, job, at, deadline, mixed>>
        /\ \A w \in Windows : windowUntil'[w] <= windowUntil[w]
    BY <1>6, SweepFrame, SweepDates DEF history, tasks
  <2>2. /\ \A w \in Windows : window'[w] \in {window[w], "none"}
        /\ \A e \in Entries : \/ rows'[e] = NoJob
                              \/ rows'[e] = rows[e] /\ entryUntil'[e] = entryUntil[e]
    BY <1>6 DEF SweepQueries, SweepWindows, SweepJobs
  <2>3. QED
    BY <1>1, <2>1, <2>2, QuietDates
<1>7. CASE Renew
  BY <1>1, <1>7, RenewEntryDates
<1>8. CASE Morning \/ (\E w \in Windows : AskRenewal(w)) \/ UNCHANGED retentionVars
  BY <1>8 DEF Morning, AskRenewal, retentionVars, vars, tables, tasks, dates, history,
    EntryDates, CopyDates, Own
<1>9. QED
  BY <1>2, <1>4, <1>5, <1>6, <1>7, <1>8 DEF RetentionNext

-----------------------------------------------------------------------------
(***************************************************************************)
(* OverviewRetention: the theorems                                         *)
(***************************************************************************)
LEMMA DatesInit == RetentionInit => IInv /\ DatesInv
<1> SUFFICES ASSUME RetentionInit PROVE IInv /\ DatesInv
  OBVIOUS
<1>1. Init /\ IInv
  BY InitInv DEF RetentionInit
<1>2. RetentionTypeOK
  <2>1. 0 \in 0..LastDate /\ Never \in 0..Never /\ 0 \in 0..MaxDay
    BY RetentionAssumption DEF LastDate, Never
  <2> HIDE DEF Never
  <2>2. QED
    BY <2>1 DEF RetentionInit, RetentionTypeOK
<1>3. NoneAhead
  <2>1. Today \in Nat /\ 0 <= Today
    BY <1>2, TodayType
  <2>2. QED
    BY <2>1 DEF RetentionInit, NoneAhead
<1>4. CopiesOK /\ TaskDates /\ JobDates /\ CopyDates
  BY <1>1 DEF Init, CopiesOK, TaskDates, JobDates, CopyDates, Copying, AtInstance, Done, Windows
<1>5. EntryDates /\ JobOutlivesWindow
  BY <1>1 DEF Init, EntryDates, JobOutlivesWindow, Windows
<1>6. QED
  BY <1>1, <1>2, <1>3, <1>4, <1>5 DEF DatesInv

LEMMA DatesNext == IInv /\ DatesInv /\ [RetentionNext]_retentionVars => IInv' /\ DatesInv'
<1> SUFFICES ASSUME IInv, DatesInv, [RetentionNext]_retentionVars PROVE IInv' /\ DatesInv'
  OBVIOUS
<1> USE DEF DatesInv
<1>1. IInv'
  BY JobsInv
<1>2. TypeOK'
  BY <1>1 DEF IInv, JobInv
<1>3. RetentionTypeOK' /\ NoneAhead'
  BY TypeAndNoneAheadInv
<1>4. CopiesOK'
  BY CopiesInv
<1>5. TaskDates'
  BY <1>3, TaskDatesInv
<1>6. JobDates'
  BY <1>3, JobDatesInv
<1>7. EntryDates' /\ CopyDates'
  BY <1>2, <1>3, EntryDatesInv
<1>8. JobOutlivesWindow'
  BY <1>3, JobOutlivesWindowInv
<1>9. QED
  BY <1>1, <1>3, <1>4, <1>5, <1>6, <1>7, <1>8

LEMMA DatesInvariance == RetentionSpec => [](IInv /\ DatesInv)
BY DatesInit, DatesNext, PTL DEF RetentionSpec

\* A window that has not expired keeps the job without which it cannot be renewed,
\* whatever is imported, retried, renewed and swept in whatever order, and with it all
\* that holds of the jobs and tasks without their dates (upsertCoverageWindow,
\* persistJobRuntime, cleanupExpiredHistory, renewCoverage).
THEOREM JobsOutliveWindows == RetentionSpec => []RetentionInv
<1>1. IInv /\ DatesInv => RetentionInv
  BY DEF DatesInv, RetentionInv, IInv, DataOK, Truthful, CheckpointBehindData
<1>2. QED
  BY DatesInvariance, <1>1, PTL

\* The morning's clean-up takes no entry that its job stored for a window which has not
\* expired itself (cleanupExpiredHistory): in each execution the entries are stored
\* with the date that the window has at its end.
THEOREM WindowsKeepEntries == RetentionSpec => WindowKeepsEntries
<1>1. ASSUME IInv, DatesInv, [RetentionNext]_retentionVars
      PROVE  [\A w \in Windows \ mixed : \A e \in Own(w) :
                window[w] = "SUCCESS" /\ windowUntil[w] >= day /\ sweep' # sweep
                  => rows'[e] = rows[e]]_retentionVars
  <2>1. SUFFICES ASSUME NEW w \in Windows \ mixed, NEW e \in Own(w),
                        window[w] = "SUCCESS", windowUntil[w] >= day, sweep' # sweep
                 PROVE  rows'[e] = rows[e]
    OBVIOUS
  <2>2. /\ windowUntil[w] \in Nat /\ entryUntil[e] \in Nat /\ day \in Nat /\ e \in Entries
    <3>1. RetentionTypeOK
      BY <1>1 DEF DatesInv
    <3>2. e \in Entries /\ day \in Nat
      BY <3>1, OwnType, TodayType
    <3>3. QED
      BY <3>1, <3>2 DEF RetentionTypeOK
  <2>3. windowUntil[w] <= entryUntil[e]
    BY <1>1, <2>1 DEF DatesInv, EntryDates
  <2>4. CASE SweepQueries
    BY <2>1, <2>2, <2>3, <2>4 DEF SweepQueries
  <2>5. CASE SweepWindows \/ SweepJobs \/ Morning \/ Interrupts
    BY <2>5 DEF SweepWindows, SweepJobs, Morning, Interrupts, Crash, Die, Restart, vars, tables
  <2>6. CASE Asked \/ Renew \/ (\E t \in Tasks : Works(t)) \/ (\E v \in Windows : AskRenewal(v))
    BY <2>1, <2>6 DEF Asked, Renew, AskRenewal, Works, StartDated, Opens, Upserts, Advances
  <2>7. QED
    BY <1>1, <2>1, <2>4, <2>5, <2>6 DEF RetentionNext, retentionVars
<1>2. QED
  BY DatesInvariance, <1>1, PTL DEF RetentionSpec, WindowKeepsEntries
=============================================================================
