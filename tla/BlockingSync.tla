---------------------------- MODULE BlockingSync ---------------------------
(***************************************************************************)
(* SyncService: switching the blocking of several Pi-holes on or off, with *)
(* a timer or without, and the timers users have saved as presets.         *)
(*                                                                         *)
(* An apply request looks at the Pi-holes it does not change, creates a    *)
(* row of SyncJob, and then works on all its targets at once.  Each worker *)
(* makes up to Attempts tries and stores a row of SyncAttempt for each.    *)
(* Inside one try the Pi-hole is read and set while its lock is held, so a *)
(* try is one step here, in which a request or its answer may be lost.     *)
(* Any statement at the database may fail.  A crash of the process needs   *)
(* no action: a request may stop anywhere, requests share only what is     *)
(* stored, and nothing done at a start concerns these tables.              *)
(***************************************************************************)
EXTENDS Naturals, Sequences, FiniteSets

CONSTANTS Instances,  \* the enabled Pi-holes
          Requests,   \* requests of users: each one is made once
          Wanted,     \* bound on the configurations they ask for
          Attempts    \* SYNC_BLOCKING_MAX_ATTEMPTS

ASSUME BoundsAssumption == Attempts \in Nat \ {0}
ASSUME RequestsAssumption == "defaults" \notin Requests
ASSUME WantedAssumption == "on" \in Wanted /\ Wanted \subseteq {"on", "off", "timed"}

VARIABLES blocking,  \* what each Pi-hole does
          stage,     \* where each request stands
          want,      \* the configuration an apply request asks for
          pc,        \* where an apply request stands at each Pi-hole
          result,    \* the outcome of its last try, or look, there
          job,       \* the status column of its SyncJob, or none
          rows,      \* its SyncAttempt rows: attempt number |-> status
          met,       \* history: the Pi-holes seen in that configuration
          own,       \* history: the Pi-holes it has set and nothing changed since
          repeated,  \* history: the requests that have set one of these again
          presets,   \* the rows of SyncOperationPreset
          seen,      \* the rows a transaction deletes
          draft      \* the rows it creates

applying == <<want, pc, result, job, rows>>
history == <<met, own, repeated>>
saving == <<presets, seen, draft>>
vars == <<blocking, stage, applying, history, saving>>

\* A timed pause reads as it was requested until its timer has moved: "fresh",
\* then "aging".
Blocking == {"on", "off", "fresh", "aging"}
Results == {"SUCCESS", "NOOP", "FAILURE", "SKIPPED"}
Idle == [i \in Instances |-> "idle"]
Over == {"done", "refused", "failed"}

\* The rows a save writes are numbered from 0, the defaults and repaired rows
\* in steps of 10 from 10: "low" and "high".  One row stands for all the rows of
\* its writer.  A save of at most ten presets is modelled: the eleventh and later rows
\* of a longer one have the numbers 10, 20, ... too and collide with "high" rows.
Preset(zone, from, name) == [zone |-> zone, from |-> from, name |-> name]
Defaults == {Preset("high", "defaults", "good")}
Presets == [zone : {"low", "high"}, from : Requests \cup {"defaults"},
            name : {"good", "legacy", "fixed"}]

Init ==
  /\ blocking = [i \in Instances |-> "on"]
  /\ stage = [r \in Requests |-> "idle"]
  /\ want = [r \in Requests |-> "on"]
  /\ pc = [r \in Requests |-> Idle]
  /\ result = [r \in Requests |-> [i \in Instances |-> "FAILURE"]]
  /\ job = [r \in Requests |-> "none"]
  /\ rows = [r \in Requests |-> [i \in Instances |-> <<>>]]
  /\ met = [r \in Requests |-> {}]
  /\ own = [r \in Requests |-> {}]
  /\ repeated = {}
  /\ presets = {}
  /\ seen = [r \in Requests |-> {}]
  /\ draft = [r \in Requests |-> {}]

Goto(r, from, to) == stage[r] = from /\ stage' = [stage EXCEPT ![r] = to]

\* The request ends early.  What it has not begun at a Pi-hole it never will.
Abandon(r, to) ==
  /\ stage' = [stage EXCEPT ![r] = to]
  /\ pc' = [pc EXCEPT ![r] = Idle]

-----------------------------------------------------------------------------
(***************************************************************************)
(* What a Pi-hole does with a configuration                                *)
(***************************************************************************)
Effect(w) == IF w = "timed" THEN "fresh" ELSE w

\* Slip: nothing ever matches, so every try sets the Pi-hole.
Slip_MatchesNever(b, w) == FALSE

\* matchesDesiredBlockingState
Matches(b, w) == b = Effect(w)

\* The history of a change to Pi-hole i: its new state counts for every request
\* that has yet to do something there, and only who made it still owns it.
Observe(i, by) ==
  /\ own' = [r \in Requests |-> IF r \in by THEN own[r] \cup {i} ELSE own[r] \ {i}]
  /\ met' = [r \in Requests |->
              IF /\ pc[r][i] \notin {"idle", "settled", "rejected"}
                 /\ blocking'[i] = Effect(want[r])
              THEN met[r] \cup {i} ELSE met[r]]

\* A timer moves on, or ends: the Pi-hole then blocks again.
Tick(i) ==
  /\ blocking[i] \in {"fresh", "aging"}
  /\ blocking' = [blocking EXCEPT ![i] = IF @ = "fresh" THEN "aging" ELSE "on"]
  /\ Observe(i, {})
  /\ UNCHANGED <<stage, applying, repeated, saving>>

-----------------------------------------------------------------------------
(***************************************************************************)
(* applyBlocking: the look at the Pi-holes that are not to be changed      *)
(***************************************************************************)
Accept(r, w, targets) ==
  /\ Goto(r, "idle", "checking")
  /\ want' = [want EXCEPT ![r] = w]
  /\ pc' = [pc EXCEPT ![r] = [i \in Instances |->
                                IF i \in targets THEN "waiting" ELSE "checking"]]
  /\ met' = [met EXCEPT ![r] = {i \in Instances : blocking[i] = Effect(w)}]
  /\ UNCHANGED <<blocking, result, rows, own, repeated, saving>>

\* Every Pi-hole that is no target is read at the same time.
Apply(r) ==
  \E w \in Wanted, targets \in (SUBSET Instances) \ {{}} :
    /\ Accept(r, w, targets)
    /\ UNCHANGED job

\* It must be as desired already, or be out of reach.
Look(r, i) ==
  /\ stage[r] = "checking" /\ pc[r][i] = "checking"
  /\ \E verdict \in {"SKIPPED"} \cup IF Matches(blocking[i], want[r])
                                      THEN {"NOOP"} ELSE {} :
       result' = [result EXCEPT ![r][i] = verdict]
  /\ pc' = [pc EXCEPT ![r][i] = "checked"]
  /\ UNCHANGED <<blocking, stage, want, job, rows, history, saving>>

\* If one is neither, the whole request is refused.
Refuse(r, i) ==
  /\ stage[r] = "checking" /\ pc[r][i] = "checking"
  /\ ~Matches(blocking[i], want[r])
  /\ Abandon(r, "refused")
  /\ UNCHANGED <<blocking, want, result, job, rows, history, saving>>

-----------------------------------------------------------------------------
(***************************************************************************)
(* The job and its first rows                                              *)
(***************************************************************************)
CreateJob(r) ==
  /\ stage[r] = "checking"
  /\ \A i \in Instances : pc[r][i] # "checking"
  /\ \/ /\ Goto(r, "checking", "listing")
        /\ job' = [job EXCEPT ![r] = "RUNNING"]
        /\ UNCHANGED <<pc>>
     \/ /\ Abandon(r, "failed")
        /\ UNCHANGED job
  /\ UNCHANGED <<blocking, want, result, rows, history, saving>>

\* createSyncAttempt: the next row of the job for this Pi-hole.
AddRow(r, i, status) == rows' = [rows EXCEPT ![r][i] = Append(@, status)]

\* One by one, the looks become attempts of the job.
List(r, i) ==
  /\ stage[r] = "listing" /\ pc[r][i] = "checked"
  /\ \/ /\ AddRow(r, i, result[r][i])
        /\ pc' = [pc EXCEPT ![r][i] = "settled"]
        /\ UNCHANGED <<stage>>
     \/ /\ Abandon(r, "failed")
        /\ UNCHANGED rows
  /\ UNCHANGED <<blocking, want, result, job, history, saving>>

StartWorkers(r) ==
  /\ Goto(r, "listing", "applying")
  /\ \A i \in Instances : pc[r][i] # "checked"
  /\ pc' = [pc EXCEPT ![r] = [i \in Instances |->
                                IF @[i] = "waiting" THEN "trying" ELSE @[i]]]
  /\ UNCHANGED <<blocking, want, result, job, rows, history, saving>>

-----------------------------------------------------------------------------
(***************************************************************************)
(* applyBlockingToInstance: the worker of one target                       *)
(***************************************************************************)
\* The outcome is stored.  A failure is tried again until the last attempt.
Settle(r, i, outcome) ==
  /\ AddRow(r, i, outcome)
  /\ result' = [result EXCEPT ![r][i] = outcome]
  /\ pc' = [pc EXCEPT ![r][i] =
              IF outcome = "FAILURE" /\ Len(rows[r][i]) + 1 < Attempts
              THEN "trying" ELSE "settled"]

\* The row of a success may be refused: it then counts as a failure of the same
\* number.  If the row of a failure is refused too, the worker is rejected.
\* Nobody else reads the rows, so they are part of the try.
Tried(r, i, outcome) ==
  /\ pc[r][i] = "trying"
  /\ \/ Settle(r, i, outcome)
     \/ outcome # "FAILURE" /\ Settle(r, i, "FAILURE")
     \/ /\ pc' = [pc EXCEPT ![r][i] = "rejected"]
        /\ UNCHANGED <<result, rows>>

\* The Pi-hole cannot be reached, or is as desired: it is left as it is.
LeaveAlone(r, i) ==
  /\ \E outcome \in {"FAILURE"} \cup IF Matches(blocking[i], want[r])
                                      THEN {"NOOP"} ELSE {} :
       Tried(r, i, outcome)
  /\ UNCHANGED <<blocking, stage, want, job, history, saving>>

\* It is set; the answer may be lost.
Set(r, i) ==
  /\ ~Matches(blocking[i], want[r])
  /\ \E outcome \in {"SUCCESS", "FAILURE"} : Tried(r, i, outcome)
  /\ blocking' = [blocking EXCEPT ![i] = Effect(want[r])]
  /\ Observe(i, {r})
  /\ repeated' = repeated \cup IF i \in own[r] THEN {r} ELSE {}
  /\ UNCHANGED <<stage, want, job, saving>>

-----------------------------------------------------------------------------
(***************************************************************************)
(* The end of applyBlocking                                                *)
(***************************************************************************)
Having(outcomes, s) == {i \in Instances : outcomes[i] = s}

\* Slip: Pi-holes that were skipped are forgotten.
Slip_JobStatusSkips(outcomes) ==
  IF Having(outcomes, "FAILURE") = {} THEN "SUCCESS"
  ELSE IF Having(outcomes, "FAILURE") = Instances THEN "FAILURE"
  ELSE "PARTIAL"

\* buildApplySummary and the status that follows from it.
JobStatus(outcomes) ==
  IF Having(outcomes, "FAILURE") \cup Having(outcomes, "SKIPPED") = {} THEN "SUCCESS"
  ELSE IF Having(outcomes, "FAILURE") = Instances THEN "FAILURE"
  ELSE "PARTIAL"

\* Promise.all rejects with the first worker that does; the others go on.
Fail(r) ==
  /\ Goto(r, "applying", "failed")
  /\ \E i \in Instances : pc[r][i] = "rejected"
  /\ UNCHANGED <<blocking, applying, history, saving>>

Finish(r) ==
  /\ stage[r] = "applying"
  /\ \A i \in Instances : pc[r][i] = "settled"
  /\ \/ /\ Goto(r, "applying", "done")
        /\ job' = [job EXCEPT ![r] = JobStatus(result[r])]
     \/ /\ Goto(r, "applying", "failed")
        /\ UNCHANGED job
  /\ UNCHANGED <<blocking, want, pc, result, rows, history, saving>>

-----------------------------------------------------------------------------
(***************************************************************************)
(* The presets.  A transaction at READ COMMITTED deletes the rows that are *)
(* there when its first statement starts, and keeps rows that appear later *)
(* beside its own, unless their numbers are the same: then it fails.       *)
(***************************************************************************)
\* Slip: there is no unique key on operationKey and sortOrder.
Slip_CollideNever(old, new) == FALSE

\* The unique key on operationKey and sortOrder.
Collide(old, new) == \E p \in old, q \in new : p.zone = q.zone

\* updateBlockingPresets: the user's list, which may be empty, and may hold the
\* name that marks a row as an old one.
Save(r) ==
  /\ Goto(r, "idle", "replacing")
  /\ \E name \in {"good", "legacy"} :
       draft' = [draft EXCEPT ![r] = {Preset("low", r, name)}]
     \/ draft' = [draft EXCEPT ![r] = {}]
  /\ seen' = [seen EXCEPT ![r] = presets]
  /\ UNCHANGED <<blocking, applying, history, presets>>

Replace(r) ==
  LET kept == presets \ seen[r] IN
  /\ stage[r] = "replacing"
  /\ IF Collide(kept, draft[r])
     THEN /\ Goto(r, "replacing", "failed")
          /\ UNCHANGED presets
     ELSE /\ Goto(r, "replacing", "reading")
          /\ presets' = kept \cup draft[r]
  /\ UNCHANGED <<blocking, applying, history, seen, draft>>

\* getBlockingStatus reads the presets too; its look at the Pi-holes changes
\* nothing.
Status(r) ==
  /\ Goto(r, "idle", "reading")
  /\ UNCHANGED <<blocking, applying, history, saving>>

\* The rows the reader puts in the place of old ones: renumbered, named, and
\* with the defaults that are missing.
Repaired(old) ==
  Defaults \cup {Preset("high", p.from, IF p.name = "legacy" THEN "fixed" ELSE p.name)
                   : p \in old}

\* hasLegacyPreset
IsOld(ps) == \E p \in ps : p.name = "legacy"

\* readBlockingPresets: an empty table is filled with the defaults, and rows
\* from before presets had names are repaired.
ReadPresets(r) ==
  /\ stage[r] = "reading"
  /\ IF presets = {}
     THEN Goto(r, "reading", "seeding") /\ UNCHANGED draft
     ELSE IF IsOld(presets)
     THEN /\ Goto(r, "reading", "repairing")
          /\ draft' = [draft EXCEPT ![r] = Repaired(presets)]
     ELSE Goto(r, "reading", "done") /\ UNCHANGED draft
  /\ UNCHANGED <<blocking, applying, history, presets, seen>>

\* Slip: the table is emptied before the defaults are written.
Slip_SeedAfterDelete(r) ==
  /\ Goto(r, "seeding", "reading")
  /\ presets' = Defaults
  /\ UNCHANGED <<blocking, applying, history, seen, draft>>

Seed(r) ==
  /\ stage[r] = "seeding"
  /\ IF Collide(presets, Defaults)
     THEN /\ Goto(r, "seeding", "failed")
          /\ UNCHANGED presets
     ELSE /\ Goto(r, "seeding", "reading")
          /\ presets' = presets \cup Defaults
  /\ UNCHANGED <<blocking, applying, history, seen, draft>>

\* The repair's transaction starts after the read.
BeginRepair(r) ==
  /\ Goto(r, "repairing", "replacing")
  /\ seen' = [seen EXCEPT ![r] = presets]
  /\ UNCHANGED <<blocking, applying, history, presets, draft>>

-----------------------------------------------------------------------------
\* Everything a request still does once it is made.
Work(r) ==
  \/ CreateJob(r) \/ StartWorkers(r) \/ Fail(r) \/ Finish(r)
  \/ Replace(r) \/ ReadPresets(r) \/ Seed(r) \/ BeginRepair(r)
  \/ \E i \in Instances :
       \/ Look(r, i) \/ Refuse(r, i) \/ List(r, i)
       \/ LeaveAlone(r, i) \/ Set(r, i)

Next ==
  \/ \E i \in Instances : Tick(i)
  \/ \E r \in Requests : Apply(r) \/ Save(r) \/ Status(r) \/ Work(r)

Spec == Init /\ [][Next]_vars

-----------------------------------------------------------------------------
(***************************************************************************)
(* Properties                                                              *)
(***************************************************************************)
\* The variables have the values the code can give them: in particular a job
\* has at most Attempts rows for a Pi-hole.
TypeOK ==
  /\ blocking \in [Instances -> Blocking]
  /\ stage \in [Requests -> Over \cup {"idle", "checking", "listing", "applying",
                     "reading", "seeding", "repairing", "replacing"}]
  /\ want \in [Requests -> Wanted]
  /\ pc \in [Requests -> [Instances -> {"idle", "checking", "checked", "waiting",
                     "trying", "settled", "rejected"}]]
  /\ result \in [Requests -> [Instances -> Results]]
  /\ job \in [Requests -> {"none", "RUNNING", "SUCCESS", "PARTIAL", "FAILURE"}]
  /\ \A r \in Requests : \A i \in Instances :
       rows[r][i] \in Seq(Results) /\ Len(rows[r][i]) <= Attempts
  /\ met \in [Requests -> SUBSET Instances]
  /\ own \in [Requests -> SUBSET Instances]
  /\ repeated \subseteq Requests
  /\ presets \in SUBSET Presets
  /\ seen \in [Requests -> SUBSET Presets]
  /\ draft \in [Requests -> SUBSET Presets]

LastRow(r, i) == rows[r][i][Len(rows[r][i])]

\* A row that reports a success, or that nothing was to be done, is about a
\* Pi-hole that really was in the desired configuration while the request was
\* under way; and nothing is tried again after such a row.
RowsAreTrue ==
  \A r \in Requests, i \in Instances : \A n \in DOMAIN rows[r][i] :
    rows[r][i][n] \in {"SUCCESS", "NOOP"} =>
      i \in met[r] /\ n = Len(rows[r][i])

\* A job that reports success brought every Pi-hole to the configuration, and
\* one that reports failure none; both have the rows that say so.
StatusIsTrue ==
  \A r \in Requests :
    /\ job[r] = "SUCCESS" => \A i \in Instances :
         i \in met[r] /\ rows[r][i] # <<>> /\ LastRow(r, i) \in {"SUCCESS", "NOOP"}
    /\ job[r] = "FAILURE" => \A i \in Instances :
         rows[r][i] # <<>> /\ LastRow(r, i) = "FAILURE"

\* Once a request is answered without an error its job is over and no worker of
\* it is left; a request that is refused leaves neither job nor rows.
AnswerIsFinal ==
  \A r \in Requests :
    /\ stage[r] \in {"done", "refused"} =>
         /\ job[r] # "RUNNING"
         /\ \A i \in Instances : pc[r][i] \in {"idle", "settled"}
    /\ stage[r] = "refused" =>
         job[r] = "none" /\ \A i \in Instances : rows[r][i] = <<>>

\* A retry after a lost answer changes nothing: a request sets a Pi-hole a
\* second time only if another request, or the timer it had started, has
\* changed the Pi-hole since.  (A timer that has moved on is started again.)
NothingIsRepeated == repeated = {}

\* The list of presets never holds two lists as users saved them, nor the same
\* list or the defaults twice, however many requests save, seed and repair it at
\* the same time.  (A save and the defaults of a reader can end up side by side.)
OneListOfPresets ==
  \A p, q \in presets : p.zone = q.zone /\ p # q =>
    p.zone = "high" /\ p.from # q.from

\* Saved presets are only replaced: by another save, or by the repair of a list
\* with an old name in it.  A reader that found the table empty removes nothing.
ReadersKeepPresets ==
  [][\A p \in presets : p \notin presets' =>
       \E r \in Requests :
         /\ stage[r] = "replacing" /\ stage'[r] = "reading"
         /\ \/ \A q \in draft[r] : q.zone = "low"
            \/ \E q \in draft[r] : q.name = "fixed"]_vars

\* What a user is told of a request, in the answer, in the job and in its rows, is true.
ReportInv == TypeOK /\ RowsAreTrue /\ StatusIsTrue /\ AnswerIsFinal
=============================================================================
