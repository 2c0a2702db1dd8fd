-------------------------- MODULE OverviewRetention -------------------------
(***************************************************************************)
(* OverviewJobs with the dates on which what it stores expires.            *)
(*                                                                         *)
(* Log entries, coverage windows and jobs each carry an expiry date of     *)
(* their own.  An import gives all it writes the date of the execution's   *)
(* start plus Retention; a user may renew a window, which also renews the  *)
(* entries of its job and the job itself.  At three every morning three    *)
(* statements that nothing orders delete what has expired.  A job that is  *)
(* deleted this way leaves its entries and windows without a job: they are *)
(* those of a job whose status is "deleted".                               *)
(*                                                                         *)
(* day counts the mornings.  What is written between two of them with      *)
(* Retention days to live is deleted by the first morning after that.      *)
(***************************************************************************)
EXTENDS OverviewJobs

CONSTANTS Retention, \* HISTORY_RETENTION_DAYS
          MaxDay,    \* bound on the days
          NoWindow

ASSUME RetentionAssumption ==
  /\ Retention \in Nat \ {0} /\ MaxDay \in Nat
  /\ NoWindow \notin Jobs \X Instances

VARIABLES day,
          entryUntil,  \* expiresAt of the entries, 0 where nothing is stored
          windowUntil, \* expiresAt of the windows, 0 where there is none
          jobUntil,    \* expiresAt of the jobs, Never for null
          deadline,    \* expiresAt in the task's runImportJob
          sweep,       \* the statements of cleanupExpiredHistory still to come
          renewal,     \* the window a user is renewing
          mixed,       \* history: the windows whose entries several executions
                       \* have stored, with several dates
          untimely     \* history: the windows renewed while a task had their
                       \* job in hand

dates == <<entryUntil, windowUntil, jobUntil>>
history == <<mixed, untimely>>
retentionVars == <<vars, day, dates, deadline, sweep, renewal, history>>

Windows == Jobs \X Instances
Statements == {"queries", "windows", "jobs"}
LastDate == MaxDay + Retention
Never == LastDate + 1
Today == day + Retention \* buildHistoryExpiry(new Date())

RetentionInit ==
  /\ Init
  /\ day = 0
  /\ entryUntil = [e \in Entries |-> 0]
  /\ windowUntil = [w \in Windows |-> 0]
  /\ jobUntil = [j \in Jobs |-> Never]
  /\ deadline = [t \in Tasks |-> 0]
  /\ sweep = {}
  /\ renewal = NoWindow
  /\ mixed = {}
  /\ untimely = {}

-----------------------------------------------------------------------------
(***************************************************************************)
(* The dates that the steps of OverviewJobs write                          *)
(***************************************************************************)
Ends(j) == status'[j] # status[j] /\ status'[j] \in {"SUCCESS", "PAUSED", "FAILURE"}
Starts(j) == status[j] = "PENDING" /\ status'[j] = "RUNNING" /\ j \notin Deletions

\* A step stamps the entries it stores and the windows ws it upserts with until,
\* and so an import that ends or pauses; failures and deletions are kept from
\* today, and an import that starts has no date.
Stamp(until, ws) ==
  /\ entryUntil' = [e \in Entries |-> IF rows'[e] = NoJob THEN 0
                                      ELSE IF Stored(e) THEN entryUntil[e]
                                      ELSE until]
  /\ windowUntil' = [w \in Windows |-> IF window'[w] = "none" THEN 0
                                       ELSE IF w \in ws THEN until
                                       ELSE windowUntil[w]]
  /\ jobUntil' = [j \in Jobs |->
                    CASE Ends(j) /\ status'[j] # "FAILURE" /\ j \notin Deletions -> until
                      [] Ends(j) /\ (status'[j] = "FAILURE" \/ j \in Deletions) -> Today
                      [] Starts(j) \/ status'[j] = "deleted" -> Never
                      [] OTHER -> jobUntil[j]]
  /\ UNCHANGED <<day, untimely>>

\* Of the process's memory, the dates of tasks that are over go.
Forget == deadline' = [t \in Tasks |-> IF task'[t] = "idle" THEN 0 ELSE deadline[t]]

\* A new date is taken when the job's row says that it runs.
StartDated(t) ==
  /\ Start(t)
  /\ Stamp(0, {})
  /\ deadline' = [deadline EXCEPT ![t] = Today]
  /\ UNCHANGED <<sweep, renewal, mixed>>

Own(w) == {e \in Entries : e[1] = w[2] /\ rows[e] = w[1]}

\* processImportInstance begins, with entries of an earlier execution or without.
Opens(t) ==
  LET w == <<job[t], at'[t]>> IN
  /\ Choose(t)
  /\ Stamp(deadline[t], {w})
  /\ mixed' = IF Own(w) = {} THEN mixed ELSE mixed \cup {w}
  /\ UNCHANGED <<deadline, sweep, renewal>>

\* The other steps with an upsertCoverageWindow.
Upserts(t) ==
  /\ FetchFails(t) \/ Save(t) \/ Close(t) \/ Pause(t)
  /\ Stamp(deadline[t], {<<job[t], at[t]>>})
  /\ UNCHANGED <<deadline, sweep, renewal, mixed>>

Advances(t) ==
  /\ \/ ReadJob(t) \/ Claim(t) \/ NextPage(t) \/ Fetch(t) \/ FetchRepeats(t)
     \/ Insert(t) \/ Check(t) \/ Complete(t) \/ StartDelete(t) \/ Delete(t) \/ Report(t)
     \/ Finish(t) \/ Fail(t)
  /\ Stamp(deadline[t], {})
  /\ Forget
  /\ UNCHANGED <<sweep, renewal, mixed>>

\* The process ends, and with it the clean-up and the renewal.
Interrupts ==
  /\ Crash \/ \E t \in Tasks : Die(t)
  /\ Stamp(0, {})
  /\ Forget
  /\ sweep' = {}
  /\ renewal' = NoWindow
  /\ UNCHANGED mixed

\* Jobs are created, retried and deleted.
Asked ==
  /\ \/ \E j \in Jobs, t \in Tasks : Enqueue(j, t)
     \/ \E r \in Requests, j \in Jobs : Asks(r, j)
     \/ \E r \in Requests, t \in Tasks : Retry(r, t)
     \/ \E r \in Requests : DeleteJob(r)
  /\ Stamp(0, {})
  /\ UNCHANGED <<deadline, sweep, renewal, mixed>>

-----------------------------------------------------------------------------
(***************************************************************************)
(* The morning and cleanupExpiredHistory                                   *)
(***************************************************************************)

\* handleDailyHistoryMaintenance, unless the process is down at that time.  The
\* statements of the last morning are long over.
Morning ==
  /\ day < MaxDay /\ sweep = {}
  /\ day' = day + 1
  /\ sweep' \in {{}, Statements}
  /\ UNCHANGED <<vars, dates, deadline, renewal, history>>

Sweeps(statement) ==
  /\ statement \in sweep
  /\ sweep' = sweep \ {statement}
  /\ UNCHANGED <<saved, active, tasks, job, request, restarts, skipped>>
  /\ UNCHANGED <<day, jobUntil, deadline, renewal, history>>

SweepQueries ==
  LET gone == {e \in Entries : Stored(e) /\ entryUntil[e] < day} IN
  /\ Sweeps("queries")
  /\ rows' = [e \in Entries |-> IF e \in gone THEN NoJob ELSE rows[e]]
  /\ entryUntil' = [e \in Entries |-> IF e \in gone THEN 0 ELSE entryUntil[e]]
  /\ excused' = excused \cup Imports \X gone
  /\ UNCHANGED <<status, window, windowUntil>>

SweepWindows ==
  LET gone == {w \in Windows : windowUntil[w] < day} IN
  /\ Sweeps("windows")
  /\ window' = [w \in Windows |-> IF w \in gone THEN "none" ELSE window[w]]
  /\ windowUntil' = [w \in Windows |-> IF w \in gone THEN 0 ELSE windowUntil[w]]
  /\ UNCHANGED <<status, rows, excused, entryUntil>>

\* Jobs that are over or paused: PENDING and RUNNING ones stay.
Expired(j) == status[j] \in {"SUCCESS", "FAILURE", "PAUSED"} /\ jobUntil[j] < day

\* onDelete: SetNull leaves the job's entries and windows where they are.
SweepJobs ==
  /\ Sweeps("jobs")
  /\ status' = [j \in Jobs |-> IF Expired(j) THEN "deleted" ELSE status[j]]
  /\ UNCHANGED <<rows, window, excused, windowUntil, entryUntil>>

-----------------------------------------------------------------------------
(***************************************************************************)
(* renewCoverage: a read that checks, then a transaction                   *)
(***************************************************************************)
Exists(j) == status[j] \notin {"none", "deleted"}

\* The window counts rows, is a success and still has its job: one without is
\* refused.  Its own date is not looked at.
AskRenewal(w) ==
  /\ renewal = NoWindow
  /\ window[w] = "SUCCESS" /\ saved[w[1]][w[2]].start > 0 /\ Exists(w[1])
  /\ renewal' = w
  /\ UNCHANGED <<vars, day, dates, deadline, sweep, history>>

InHandWindows == {w \in Windows : \E t \in Tasks : job[t] = w[1] /\ InHand(t)}

\* Slip: entries whose own date has passed are not renewed.
Slip_RenewTargetValid(w) == {e \in Own(w) : entryUntil[e] >= day}

\* The entries that the window's job stored, not those of the window's period.
RenewTarget(w) == Own(w)

\* Slip: the job keeps its date.
Slip_LinkedNone(w) == {}

Linked(w) == {w[1]}

Renewed(until, those) == [x \in DOMAIN until |-> IF x \in those THEN Today ELSE until[x]]

\* Entries, window and job have the same date from now on.  If the window or the
\* job has gone since it was read, the transaction fails and nothing changes.
Renew ==
  LET w == renewal IN
  /\ w # NoWindow
  /\ renewal' = NoWindow
  /\ IF window[w] # "none" /\ Exists(w[1])
     THEN /\ entryUntil' = Renewed(entryUntil, RenewTarget(w))
          /\ windowUntil' = Renewed(windowUntil, {w})
          /\ jobUntil' = Renewed(jobUntil, Linked(w))
          /\ mixed' = mixed \ {w}
          /\ untimely' = untimely \cup ({w} \cap InHandWindows)
     ELSE UNCHANGED <<dates, history>>
  /\ UNCHANGED <<vars, day, deadline, sweep>>

Works(t) == StartDated(t) \/ Opens(t) \/ Upserts(t) \/ Advances(t)

RetentionNext ==
  \/ \E t \in Tasks : Works(t)
  \/ Interrupts
  \/ Asked
  \/ Morning
  \/ SweepQueries
  \/ SweepWindows
  \/ SweepJobs
  \/ \E w \in Windows : AskRenewal(w)
  \/ Renew

RetentionSpec == RetentionInit /\ [][RetentionNext]_retentionVars

\* As in OverviewJobs, whether the step is work or the end of the process.
RetentionFairSpec ==
  /\ RetentionSpec
  /\ \A t \in Tasks : WF_retentionVars(Works(t) \/ (Interrupts /\ Die(t)))

-----------------------------------------------------------------------------
(***************************************************************************)
(* Properties                                                              *)
(***************************************************************************)
RetentionTypeOK ==
  /\ day \in 0..MaxDay
  /\ entryUntil \in [Entries -> 0..LastDate]
  /\ windowUntil \in [Windows -> 0..LastDate]
  /\ jobUntil \in [Jobs -> 0..Never]
  /\ deadline \in [Tasks -> 0..LastDate]
  /\ sweep \subseteq Statements
  /\ renewal \in Windows \cup {NoWindow}
  /\ mixed \subseteq Windows
  /\ untimely \subseteq Windows

\* A window that has not expired has its job, without which it cannot be renewed:
\* the job's own date, written apart from the window's, is never the earlier one.
\* The exception is a renewal while a task has the job in hand: the end of the import
\* then gives the job an earlier date than the renewal did.
JobOutlivesWindow ==
  \A w \in Windows :
    window[w] = "SUCCESS" /\ status[w[1]] = "deleted" /\ w \notin untimely
      => windowUntil[w] < day

\* The tasks, the jobs, what they copied and its dates fit together.
RetentionInv ==
  /\ JobInv /\ CheckpointBehindData /\ SuccessIsComplete
  /\ RetentionTypeOK /\ JobOutlivesWindow

\* As long as a window has not expired, no clean-up takes an entry its job stored for
\* it, in whatever order its statements come and whatever is renewed, retried or
\* deleted in between.  The exception is an import that was retried and not renewed
\* since: the first pages keep the date of their own execution.
WindowKeepsEntries ==
  [][\A w \in Windows \ mixed : \A e \in Own(w) :
       window[w] = "SUCCESS" /\ windowUntil[w] >= day /\ sweep' # sweep
         => rows'[e] = rows[e]]_retentionVars
=============================================================================
