----------------------------- MODULE OverviewJobs ---------------------------
(***************************************************************************)
(* OverviewService: jobs that copy a period of a Pi-hole's query log into  *)
(* the database page by page, and jobs that delete it again.               *)
(*                                                                         *)
(* A job is a row with a status and a checkpoint.  It is executed by a     *)
(* background task of the process, which nobody awaits; a task works on    *)
(* its own copy of the checkpoint and saves it after every page.  Users    *)
(* retry and delete jobs meanwhile, and the process may die at any step:   *)
(* on the next start every unfinished job becomes a failure.  An exception *)
(* in markJobFailed, the task's last resort, is an unhandled rejection,    *)
(* which ends the process too.                                             *)
(*                                                                         *)
(* All jobs are about one closed period, whose log no longer grows: it has *)
(* Total entries at every Pi-hole.                                         *)
(***************************************************************************)
EXTENDS Naturals, FiniteSets, FiniteSetsExt

CONSTANTS Jobs,        \* rows of OverviewHistoryJob, each created once
          Deletions,   \* the jobs of kind MANUAL_DELETE
          Automatic,   \* the jobs of kind AUTOMATIC_IMPORT
          Key,         \* buildJobKey: what two jobs may not do at once
          Scope,       \* the instances of each job
          Instances,
          Total,       \* recordsFiltered of the period
          Chunk,       \* DEFAULT_CHUNK_SIZE
          MaxFailures, \* MAX_CONSECUTIVE_FAILURES
          MaxRestarts, \* bound on the crashes without a cause in this module
          Tasks,       \* bound on the executions that are in memory at once
          Requests,    \* users retrying and deleting jobs
          NoJob

ASSUME JobsAssumption ==
  /\ NoJob \notin Jobs /\ Deletions \subseteq Jobs
  /\ Automatic \subseteq Jobs \ Deletions
ASSUME ScopeAssumption ==
  /\ Instances # {}
  /\ Scope \in [Jobs -> SUBSET Instances]
ASSUME ActorsAssumption == Tasks \cap Requests = {}
ASSUME SizesAssumption ==
  /\ Total \in Nat /\ Chunk \in Nat \ {0} /\ MaxFailures \in Nat \ {0}
  /\ MaxRestarts \in Nat

VARIABLES status,    \* the status column, or none / deleted without a row
          saved,     \* the summary column: progress at each instance
          rows,      \* which job stored a log entry; NoJob if it is not stored
          window,    \* the status of each job's OverviewCoverageWindow rows
          active,    \* activeJobKeys
          task,      \* where each task stands
          job,       \* the job a task or a request is about
          runtime,   \* the task's copy of the progress
          at,        \* the instance whose log the task is copying
          batch,     \* the page the task is storing
          seen,      \* seenBatchSignatures: the pages this execution had before
          request,   \* where each user's request stands
          restarts,
          excused,   \* history: the entries an import need not have stored: those some
                     \* deletion has removed, and those in whose place it had another
                     \* page, which that execution had not had before
          skipped    \* history: the jobs whose last task found the key in use

tables == <<status, saved, rows, window, excused>>
tasks == <<task, runtime, at, batch, seen>>
vars == <<tables, active, tasks, job, request, restarts, skipped>>

Imports == Jobs \ Deletions
Entries == Instances \X (1..Total)
\* A start of Total + 1 stands for any beyond the end of the log.
Progress == [start : 0..(Total + 1), failures : 0..MaxFailures, done : BOOLEAN]
NoProgress == [i \in Instances |-> [start |-> 0, failures |-> 0, done |-> FALSE]]
SomeInstance == CHOOSE i \in Instances : TRUE

Init ==
  /\ status = [j \in Jobs |-> "none"]
  /\ saved = [j \in Jobs |-> NoProgress]
  /\ rows = [e \in Entries |-> NoJob]
  /\ window = [w \in Jobs \X Instances |-> "none"]
  /\ active = {}
  /\ task = [t \in Tasks |-> "idle"]
  /\ job = [x \in Tasks \cup Requests |-> NoJob]
  /\ runtime = [t \in Tasks |-> NoProgress]
  /\ at = [t \in Tasks |-> SomeInstance]
  /\ batch = [t \in Tasks |-> {}]
  /\ seen = [t \in Tasks |-> {}]
  /\ request = [r \in Requests |-> "idle"]
  /\ restarts = 0
  /\ excused = {}
  /\ skipped = {}

-----------------------------------------------------------------------------
(***************************************************************************)
(* Creating a job and starting its task                                    *)
(***************************************************************************)
Unfinished == {"PENDING", "RUNNING"}

\* scheduleJob: setImmediate() runs the task on a later turn.
Schedule(t, j) ==
  /\ task[t] = "idle"
  /\ task' = [task EXCEPT ![t] = "scheduled"]
  /\ UNCHANGED <<runtime, at, batch, seen>>

\* enqueueManualImport, enqueueManualDelete and enqueueAutomaticImport, which
\* does nothing while an automatic import of the day is unfinished.
Enqueue(j, t) ==
  /\ status[j] = "none"
  /\ j \in Automatic => \A k \in Automatic : status[k] \notin Unfinished
  /\ status' = [status EXCEPT ![j] = "PENDING"]
  /\ Schedule(t, j)
  /\ job' = [job EXCEPT ![t] = j]
  /\ UNCHANGED <<saved, rows, window, excused, active, request, restarts,
                 skipped>>

\* The task ends and its local variables go.
Over(t) ==
  /\ task' = [task EXCEPT ![t] = "idle"]
  /\ job' = [job EXCEPT ![t] = NoJob]
  /\ runtime' = [runtime EXCEPT ![t] = NoProgress]
  /\ at' = [at EXCEPT ![t] = SomeInstance]
  /\ batch' = [batch EXCEPT ![t] = {}]
  /\ seen' = [seen EXCEPT ![t] = {}]

Goto(t, from, to) == task[t] = from /\ task' = [task EXCEPT ![t] = to]

\* executeJob reads the row and goes on if the job is pending, with the
\* instances that are not yet done counted as pending again.
ReadJob(t) ==
  LET j == job[t] IN
  /\ task[t] = "scheduled"
  /\ IF status[j] = "PENDING"
     THEN /\ task' = [task EXCEPT ![t] = "claiming"]
          /\ runtime' = [runtime EXCEPT ![t] = saved[j]]
          /\ UNCHANGED <<at, batch, seen, job>>
     ELSE Over(t)
  /\ UNCHANGED <<tables, active, request, restarts, skipped>>

\* Slip: the key is marked in use, but whether it already is is not asked.
Slip_ClaimAlways(t) ==
  /\ Goto(t, "claiming", "starting")
  /\ active' = active \cup {Key[job[t]]}
  /\ UNCHANGED <<tables, runtime, at, batch, seen, job, request, restarts,
                 skipped>>

\* Without yielding, the task checks that its key is free and takes it.  A task
\* that finds it in use ends, and leaves the job pending.
Claim(t) ==
  LET k == Key[job[t]] IN
  /\ task[t] = "claiming"
  /\ IF k \in active
     THEN /\ Over(t)
          /\ skipped' = skipped \cup {job[t]}
          /\ UNCHANGED active
     ELSE /\ Goto(t, "claiming", "starting")
          /\ active' = active \cup {k}
          /\ UNCHANGED <<runtime, at, batch, seen, job, skipped>>
  /\ UNCHANGED <<tables, request, restarts>>

-----------------------------------------------------------------------------
(***************************************************************************)
(* runImportJob and processImportInstance                                  *)
(***************************************************************************)

\* Every write below fails if the job's row is gone.
RowExists(t) == status[job[t]] # "deleted"

\* persistJobRuntime: the copy of the progress replaces the saved one.
Persist(t, progress, s) ==
  /\ RowExists(t)
  /\ saved' = [saved EXCEPT ![job[t]] = progress]
  /\ status' = [status EXCEPT ![job[t]] = s]

Upsert(t, s) == window' = [window EXCEPT ![<<job[t], at[t]>>] = s]

Start(t) ==
  /\ job[t] \notin Deletions
  /\ Goto(t, "starting", "choosing")
  /\ Persist(t, runtime[t], "RUNNING")
  /\ UNCHANGED <<rows, window, excused, active, runtime, at, batch, seen, job,
                 request, restarts, skipped>>

\* The next instance that is not done; its window is opened.
Choose(t) ==
  /\ Goto(t, "choosing", "paging")
  /\ \E i \in Scope[job[t]] :
       /\ ~runtime[t][i].done
       /\ at' = [at EXCEPT ![t] = i]
       /\ window' = [window EXCEPT ![<<job[t], i>>] = "RUNNING"]
  /\ seen' = [seen EXCEPT ![t] = {}]
  /\ Persist(t, runtime[t], "RUNNING")
  /\ UNCHANGED <<rows, excused, active, runtime, batch, job, request, restarts,
                 skipped>>

Here(t) == runtime[t][at[t]]
With(t, p) == [runtime[t] EXCEPT ![at[t]] = p]

\* The row says which page comes next before it is asked for.
NextPage(t) ==
  /\ Goto(t, "paging", "fetching")
  /\ Persist(t, runtime[t], "RUNNING")
  /\ UNCHANGED <<rows, window, excused, active, runtime, at, batch, seen, job,
                 request, restarts, skipped>>

\* The Pi-hole is asked for the page from Here(t).start on.  What it answers is taken
\* for that page, be it another one, a shorter one or nothing.
Pages == {p \in SUBSET (1..Total) : Cardinality(p) <= Chunk}

Takes(t, pages) ==
  /\ Goto(t, "fetching", "inserting")
  /\ \E p \in pages : batch' = [batch EXCEPT ![t] = p]
  /\ UNCHANGED <<tables, active, runtime, at, seen, job, request, restarts,
                 skipped>>

\* Slip: whether the page has come before is not asked.
Slip_FetchAgain(t) == Takes(t, Pages)

Fetch(t) == Takes(t, Pages \ seen[t])

\* The page cannot be had: the task waits a minute and asks again, until it has
\* failed MaxFailures times in a row.  The count is part of what is saved.
FetchFails(t) ==
  LET more == [Here(t) EXCEPT !.failures = Min({@ + 1, MaxFailures})]
      pausing == more.failures = MaxFailures
  IN
  /\ Goto(t, "fetching", IF pausing THEN "pausing" ELSE "paging")
  /\ runtime' = [runtime EXCEPT ![t] = With(t, more)]
  /\ Persist(t, With(t, more), IF pausing THEN "PAUSED" ELSE "RUNNING")
  /\ Upsert(t, "RUNNING")
  /\ seen' = [seen EXCEPT ![t] = IF pausing THEN {} ELSE @]
  /\ UNCHANGED <<rows, excused, active, at, batch, job, request, restarts, skipped>>

\* The Pi-hole repeats a page this execution has had before.  An execution does not
\* know the pages of an earlier one: after the pause, the page is taken for the next.
FetchRepeats(t) ==
  LET stuck == [Here(t) EXCEPT !.failures = MaxFailures] IN
  /\ seen[t] # {}
  /\ Goto(t, "fetching", "pausing")
  /\ runtime' = [runtime EXCEPT ![t] = With(t, stuck)]
  /\ Persist(t, With(t, stuck), "PAUSED")
  /\ seen' = [seen EXCEPT ![t] = {}]
  /\ UNCHANGED <<rows, window, excused, active, at, batch, job, request, restarts,
                 skipped>>

Stored(e) == rows[e] # NoJob

\* createMany with skipDuplicates: an entry that is stored keeps its job.
Insert(t) ==
  /\ Goto(t, "inserting", "saving")
  /\ RowExists(t)
  /\ rows' = [e \in Entries |->
                IF e[1] = at[t] /\ e[2] \in batch[t] /\ ~Stored(e)
                THEN job[t] ELSE rows[e]]
  /\ UNCHANGED <<status, saved, window, excused, active, runtime, at, batch,
                 seen, job, request, restarts, skipped>>

Passed(t) == Here(t).start + Cardinality(batch[t])

\* The entries the checkpoint passes that are not on the page
Misses(t) ==
  {<<job[t], <<at[t], n>>>> :
     n \in {m \in (1..Total) \ batch[t] : Here(t).start < m /\ m <= Passed(t)}}

\* The checkpoint moves by the length of the page.  The pages are remembered until the
\* last one.
Save(t) ==
  LET next == [Here(t) EXCEPT !.start = Min({Passed(t), Total + 1}), !.failures = 0]
      last == next.start >= Total \/ batch[t] = {}
  IN
  /\ Goto(t, "saving", IF last THEN "checking" ELSE "paging")
  /\ runtime' = [runtime EXCEPT ![t] = With(t, next)]
  /\ Persist(t, With(t, next), "RUNNING")
  /\ Upsert(t, "RUNNING")
  /\ seen' = [seen EXCEPT ![t] = IF last THEN {} ELSE @ \cup {batch[t]}]
  /\ batch' = [batch EXCEPT ![t] = {}]
  /\ excused' = IF batch[t] \in seen[t] THEN excused ELSE excused \cup Misses(t)
  /\ UNCHANGED <<rows, active, at, job, request, restarts, skipped>>

\* Slip: an instance is done when the Pi-hole has nothing more, whatever came.
Slip_CheckNothing(t) ==
  LET p == [Here(t) EXCEPT !.done = TRUE] IN
  /\ Goto(t, "checking", "closing")
  /\ runtime' = [runtime EXCEPT ![t] = With(t, p)]
  /\ Persist(t, With(t, p), "RUNNING")
  /\ UNCHANGED <<rows, window, excused, active, at, batch, seen, job, request,
                 restarts, skipped>>

\* The instance is done if as many entries came as were announced.
Check(t) ==
  LET complete == Here(t).start = Total
      p == [Here(t) EXCEPT !.done = complete]
  IN
  /\ Goto(t, "checking", IF complete THEN "closing" ELSE "pausing")
  /\ runtime' = [runtime EXCEPT ![t] = With(t, p)]
  /\ Persist(t, With(t, p), IF complete THEN "RUNNING" ELSE "PAUSED")
  /\ UNCHANGED <<rows, window, excused, active, at, batch, seen, job, request,
                 restarts, skipped>>

\* The window of the instance is closed by a statement of its own.
Close(t) ==
  /\ Goto(t, "closing", "choosing")
  /\ RowExists(t)
  /\ Upsert(t, "SUCCESS")
  /\ UNCHANGED <<status, saved, rows, excused, active, runtime, at, batch, seen,
                 job, request, restarts, skipped>>

\* After a pause the window follows the job's row; then a notification is
\* recorded and pushed, and only then is the task over.
Pause(t) ==
  /\ Goto(t, "pausing", "releasing")
  /\ RowExists(t)
  /\ Upsert(t, "PAUSED")
  /\ UNCHANGED <<status, saved, rows, excused, active, runtime, at, batch, seen,
                 job, request, restarts, skipped>>

\* No instance is left: the job is a success, and a notification is recorded.
Complete(t) ==
  /\ Goto(t, "choosing", "releasing")
  /\ \A i \in Scope[job[t]] : runtime[t][i].done
  /\ Persist(t, runtime[t], "SUCCESS")
  /\ UNCHANGED <<rows, window, excused, active, runtime, at, batch, seen, job,
                 request, restarts, skipped>>

-----------------------------------------------------------------------------
(***************************************************************************)
(* runDeleteJob                                                            *)
(***************************************************************************)
StartDelete(t) ==
  /\ job[t] \in Deletions
  /\ Goto(t, "starting", "deleting")
  /\ RowExists(t)
  /\ status' = [status EXCEPT ![job[t]] = "RUNNING"]
  /\ UNCHANGED <<saved, rows, window, excused, active, runtime, at, batch, seen,
                 job, request, restarts, skipped>>

\* Whoever stored them, the period's rows and windows go in one transaction.
Delete(t) ==
  LET is == Scope[job[t]] IN
  /\ Goto(t, "deleting", "reporting")
  /\ excused' = excused \cup Imports \X {e \in Entries : e[1] \in is /\ Stored(e)}
  /\ rows' = [e \in Entries |-> IF e[1] \in is THEN NoJob ELSE rows[e]]
  /\ window' = [w \in Jobs \X Instances |->
                  IF w[2] \in is THEN "none" ELSE window[w]]
  /\ UNCHANGED <<status, saved, active, runtime, at, batch, seen, job,
                 request, restarts, skipped>>

Report(t) ==
  /\ Goto(t, "reporting", "releasing")
  /\ RowExists(t)
  /\ status' = [status EXCEPT ![job[t]] = "SUCCESS"]
  /\ UNCHANGED <<saved, rows, window, excused, active, runtime, at, batch, seen,
                 job, request, restarts, skipped>>

-----------------------------------------------------------------------------
(***************************************************************************)
(* The end of a task                                                       *)
(***************************************************************************)
Working == {"starting", "choosing", "paging", "fetching", "inserting", "saving",
            "checking", "closing", "pausing", "deleting", "reporting",
            "releasing"}

Finish(t) ==
  /\ task[t] \in {"releasing", "failed"}
  /\ Over(t)
  /\ active' = active \ {Key[job[t]]}
  /\ UNCHANGED <<tables, request, restarts, skipped>>

\* A statement or the notification fails: markJobFailed, whatever the status.
\* What it had in memory is gone, and it records and pushes a notification too before
\* the task is over.
Fail(t) ==
  /\ task[t] \in Working
  /\ RowExists(t)
  /\ task' = [task EXCEPT ![t] = "failed"]
  /\ status' = [status EXCEPT ![job[t]] = "FAILURE"]
  /\ runtime' = [runtime EXCEPT ![t] = NoProgress]
  /\ batch' = [batch EXCEPT ![t] = {}]
  /\ seen' = [seen EXCEPT ![t] = {}]
  /\ UNCHANGED <<saved, rows, window, excused, active, at, job, request, restarts,
                 skipped>>

\* Slip: only running jobs are failed by the restart.
Slip_RestartRunningOnly ==
  /\ status' = [j \in Jobs |-> IF status[j] = "RUNNING" THEN "FAILURE"
                               ELSE status[j]]
  /\ active' = {}
  /\ task' = [t \in Tasks |-> "idle"]
  /\ job' = [x \in Tasks \cup Requests |-> NoJob]
  /\ runtime' = [t \in Tasks |-> NoProgress]
  /\ at' = [t \in Tasks |-> SomeInstance]
  /\ batch' = [t \in Tasks |-> {}]
  /\ seen' = [t \in Tasks |-> {}]
  /\ request' = [r \in Requests |-> "idle"]
  /\ skipped' = {}
  /\ UNCHANGED <<saved, rows, window, excused>>

\* The process dies and starts again: memory is gone, and before it listens
\* markInterruptedJobsAsFailed fails every unfinished job, keeping its progress.
Restart ==
  /\ status' = [j \in Jobs |-> IF status[j] \in Unfinished THEN "FAILURE"
                               ELSE status[j]]
  /\ active' = {}
  /\ task' = [t \in Tasks |-> "idle"]
  /\ job' = [x \in Tasks \cup Requests |-> NoJob]
  /\ runtime' = [t \in Tasks |-> NoProgress]
  /\ at' = [t \in Tasks |-> SomeInstance]
  /\ batch' = [t \in Tasks |-> {}]
  /\ seen' = [t \in Tasks |-> {}]
  /\ request' = [r \in Requests |-> "idle"]
  /\ skipped' = {}
  /\ UNCHANGED <<saved, rows, window, excused>>

\* markJobFailed finds no row to update: nobody catches what it throws.
Die(t) ==
  /\ task[t] \in Working \ {"deleting", "releasing"}
  /\ ~RowExists(t)
  /\ Restart
  /\ UNCHANGED restarts

Crash ==
  /\ restarts < MaxRestarts
  /\ \E t \in Tasks : task[t] # "idle"
  /\ restarts' = restarts + 1
  /\ Restart

-----------------------------------------------------------------------------
(***************************************************************************)
(* retryJob and deleteJob: a read that checks, then a write                *)
(***************************************************************************)
Ask(r, j, what, allowed) ==
  /\ request[r] = "idle"
  /\ status[j] \in allowed
  /\ request' = [request EXCEPT ![r] = what]
  /\ job' = [job EXCEPT ![r] = j]
  /\ UNCHANGED <<tables, active, tasks, restarts, skipped>>

Retry(r, t) ==
  LET j == job[r] IN
  /\ request[r] = "retrying"
  /\ request' = [request EXCEPT ![r] = "idle"]
  /\ IF status[j] = "deleted"
     THEN /\ job' = [job EXCEPT ![r] = NoJob]
          /\ UNCHANGED <<status, tasks, skipped>>
     ELSE /\ status' = [status EXCEPT ![j] = "PENDING"]
          /\ Schedule(t, j)
          /\ job' = [job EXCEPT ![r] = NoJob, ![t] = j]
          /\ skipped' = skipped \ {j}
  /\ UNCHANGED <<saved, rows, window, excused, active, restarts>>

DeleteJob(r) ==
  LET j == job[r] IN
  /\ request[r] = "deleting"
  /\ request' = [request EXCEPT ![r] = "idle"]
  /\ job' = [job EXCEPT ![r] = NoJob]
  /\ IF status[j] = "deleted"
     THEN UNCHANGED tables
     ELSE /\ status' = [status EXCEPT ![j] = "deleted"]
          /\ excused' = excused \cup Imports \X {e \in Entries : rows[e] = j}
          /\ rows' = [e \in Entries |-> IF rows[e] = j THEN NoJob ELSE rows[e]]
          /\ window' = [w \in Jobs \X Instances |->
                          IF w[1] = j THEN "none" ELSE window[w]]
          /\ UNCHANGED saved
  /\ UNCHANGED <<active, tasks, restarts, skipped>>

\* PARTIAL may be retried too, but nothing ever gives a job that status.
Asks(r, j) ==
  \/ Ask(r, j, "retrying", {"FAILURE", "PAUSED"})
  \/ Ask(r, j, "deleting", {"SUCCESS", "FAILURE"})

Step(t) ==
  \/ ReadJob(t) \/ Claim(t) \/ Start(t) \/ Choose(t) \/ NextPage(t) \/ Fetch(t)
  \/ FetchFails(t) \/ FetchRepeats(t) \/ Insert(t) \/ Save(t) \/ Check(t)
  \/ Close(t) \/ Pause(t) \/ Complete(t) \/ StartDelete(t) \/ Delete(t)
  \/ Report(t) \/ Finish(t) \/ Fail(t) \/ Die(t)

Next ==
  \/ \E j \in Jobs, t \in Tasks : Enqueue(j, t)
  \/ \E t \in Tasks : Step(t)
  \/ \E r \in Requests, j \in Jobs : Asks(r, j)
  \/ \E r \in Requests, t \in Tasks : Retry(r, t)
  \/ \E r \in Requests : DeleteJob(r)
  \/ Crash

Spec == Init /\ [][Next]_vars

\* Every await of a task settles: HTTP requests are aborted in time, and the
\* minute between two attempts passes.
FairSpec == Spec /\ \A t \in Tasks : WF_vars(Step(t))

-----------------------------------------------------------------------------
(***************************************************************************)
(* Properties                                                              *)
(***************************************************************************)
TypeOK ==
  /\ status \in [Jobs -> Unfinished \cup {"none", "SUCCESS", "FAILURE",
                                          "PAUSED", "deleted"}]
  /\ saved \in [Jobs -> [Instances -> Progress]]
  /\ rows \in [Entries -> Jobs \cup {NoJob}]
  /\ window \in [Jobs \X Instances -> {"none", "RUNNING", "PAUSED", "SUCCESS"}]
  /\ active \subseteq {Key[j] : j \in Jobs}
  /\ task \in [Tasks -> Working \cup {"idle", "scheduled", "claiming", "failed"}]
  /\ job \in [Tasks \cup Requests -> Jobs \cup {NoJob}]
  /\ \A t \in Tasks : job[t] = NoJob <=> task[t] = "idle"
  /\ runtime \in [Tasks -> [Instances -> Progress]]
  /\ at \in [Tasks -> Instances]
  /\ batch \in [Tasks -> SUBSET (1..Total)]
  /\ seen \in [Tasks -> SUBSET SUBSET (1..Total)]
  /\ request \in [Requests -> {"idle", "retrying", "deleting"}]
  /\ restarts \in 0..MaxRestarts
  /\ excused \subseteq Jobs \X Entries
  /\ skipped \subseteq Jobs

InHand(t) == task[t] \in Working \cup {"failed"}

\* However often a job is retried and requested again, no two tasks that hold
\* the same key are at work, and the keys in use are those of the tasks at work.
KeysAreExclusive ==
  /\ active = {Key[job[t]] : t \in {u \in Tasks : InHand(u)}}
  /\ \A t, u \in Tasks : InHand(t) /\ InHand(u) /\ Key[job[t]] = Key[job[u]]
                         => t = u

\* A job shown as running is: some task has it in hand.  Neither a failure, a
\* crash, nor a retry that comes too late leaves a running job without a task.
RunningIsRunning ==
  \A j \in Jobs :
    status[j] = "RUNNING" => \E t \in Tasks : job[t] = j /\ task[t] \in Working

\* A job shown as waiting will be looked at: the task that will do so is in memory,
\* unless the last one has found the key in use and gone.
PendingIsScheduled ==
  \A j \in Jobs \ skipped :
    status[j] = "PENDING" =>
      \E t \in Tasks : job[t] = j /\ task[t] \in {"scheduled", "claiming", "starting"}

\* What became of an entry an import believes to have copied
Accounted(j, e) == Stored(e) \/ <<j, e>> \in excused

\* The checkpoint never runs ahead of the data.  It passes an entry only if that is
\* stored, by the job itself or by another one, and stays so until it is deleted, or if
\* the Pi-hole gave another page in its place that the execution could not know: one
\* repeated after a pause, a restart or a failure and a retry is such a page.
CheckpointBehindData ==
  \A j \in Imports, i \in Instances, n \in 1..Total :
    n <= saved[j][i].start => Accounted(j, <<i, n>>)

\* A successful import has passed over no entry, across all its failures, pauses,
\* restarts and retries: it has stored the whole period but for what another page
\* came for and what was deleted since.
SuccessIsComplete ==
  \A j \in Imports :
    status[j] = "SUCCESS" =>
      \A i \in Scope[j], n \in 1..Total : Accounted(j, <<i, n>>)

\* An unfinished job finishes, unless the last task it got found the key in use.
EveryJobEnds ==
  \A j \in Jobs :
    (status[j] \in Unfinished) ~> (status[j] \notin Unfinished \/ j \in skipped)

\* The jobs' rows and the tasks agree: one task at most for each key, one for each
\* running job and one for each job that waits.
JobInv == TypeOK /\ KeysAreExclusive /\ RunningIsRunning /\ PendingIsScheduled
=============================================================================
