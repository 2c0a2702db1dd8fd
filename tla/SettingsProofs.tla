---------------------------- MODULE SettingsProofs ----------------------------
(***************************************************************************)
(* Theorems about two settings that users write to several Pi-holes at     *)
(* once.  First BlockingSync, for any number of Pi-holes, requests and     *)
(* tries.  Then ConfigTopics, for any number of Pi-holes and requests, any *)
(* topics, and any number of accesses that fail.                           *)
(***************************************************************************)
EXTENDS ConfigTopics, BlockingSync, TLAPS

-----------------------------------------------------------------------------
(***************************************************************************)
(* The inductive invariant: a request at one Pi-hole                       *)
(***************************************************************************)
Stages == Over \cup {"idle", "checking", "listing", "applying",
                     "reading", "seeding", "repairing", "replacing"}
Places == {"idle", "checking", "checked", "waiting", "trying", "settled", "rejected"}
Statuses == {"none", "RUNNING", "SUCCESS", "PARTIAL", "FAILURE"}

AppliesTyped ==
  /\ blocking \in [Instances -> Blocking]
  /\ stage \in [Requests -> Stages]
  /\ want \in [Requests -> Wanted]
  /\ pc \in [Requests -> [Instances -> Places]]
  /\ result \in [Requests -> [Instances -> Results]]
  /\ job \in [Requests -> Statuses]
  /\ rows \in [Requests -> [Instances -> Seq(Results)]]
  /\ met \in [Requests -> SUBSET Instances]
  /\ own \in [Requests -> SUBSET Instances]

\* Where it stands goes with the stage and with the rows that are stored.
PlaceOK(r, i) ==
  /\ pc[r][i] = "checking" => stage[r] = "checking"
  /\ pc[r][i] \in {"checked", "waiting"} => stage[r] \in {"checking", "listing"}
  /\ pc[r][i] \in {"checking", "checked", "waiting"} => rows[r][i] = <<>>
  /\ pc[r][i] = "trying" => /\ stage[r] \in {"applying", "failed"}
                            /\ Len(rows[r][i]) < Attempts
                            /\ \A n \in DOMAIN rows[r][i] : rows[r][i][n] = "FAILURE"
  /\ pc[r][i] = "settled" => rows[r][i] # <<>> /\ LastRow(r, i) = result[r][i]
  /\ Len(rows[r][i]) <= Attempts

\* A Pi-hole that is as wanted while the request has yet to do something there counts
\* as met, and so does every one that a row speaks well of.
MetOK(r, i) ==
  /\ pc[r][i] \notin {"idle", "settled", "rejected"} /\ blocking[i] = Effect(want[r]) =>
       i \in met[r]
  /\ pc[r][i] = "checked" => /\ result[r][i] \in {"NOOP", "SKIPPED"}
                             /\ result[r][i] = "NOOP" => i \in met[r]
  /\ \A n \in DOMAIN rows[r][i] : rows[r][i][n] \in {"SUCCESS", "NOOP"} =>
       i \in met[r] /\ n = Len(rows[r][i])

\* What nobody has changed since the request set it is as wanted.
OwnOK(r, i) == i \in own[r] => blocking[i] = Effect(want[r])

HolesOK(r) == \A i \in Instances : PlaceOK(r, i) /\ MetOK(r, i) /\ OwnOK(r, i)

(***************************************************************************)
(* A request as a whole                                                    *)
(***************************************************************************)
OfPresets == {"reading", "seeding", "repairing", "replacing"}

StageOK(r) ==
  /\ stage[r] \in {"idle", "checking", "refused"} \cup OfPresets =>
       job[r] = "none" /\ \A i \in Instances : rows[r][i] = <<>>
  /\ stage[r] \in {"idle", "refused"} \cup OfPresets => pc[r] = Idle
  /\ stage[r] = "idle" => own[r] = {}
  /\ stage[r] \in {"listing", "applying"} => job[r] = "RUNNING"
  /\ stage[r] = "done" => /\ job[r] # "RUNNING"
                          /\ \A i \in Instances : pc[r][i] \in {"idle", "settled"}
  /\ job[r] \in {"SUCCESS", "PARTIAL", "FAILURE"} =>
       /\ stage[r] = "done" /\ job[r] = JobStatus(result[r])
       /\ \A i \in Instances : pc[r][i] = "settled"

AppliesInv ==
  /\ AppliesTyped
  /\ \A r \in Requests : StageOK(r) /\ HolesOK(r)
  /\ repeated = {}

(***************************************************************************)
(* The presets                                                             *)
(***************************************************************************)
\* The rows that are stored, and those that a request has yet to delete or to create
Rows == presets \cup UNION {seen[r] \cup draft[r] : r \in Requests}

\* A list has one row, wherever it is, with the name that a repair gives it.
Mended(name) == IF name = "legacy" THEN "fixed" ELSE name
SameList(p, q) ==
  p.from = q.from => /\ p.zone = q.zone => p = q
                     /\ p.zone = "low" /\ q.zone = "high" => q.name = Mended(p.name)

RowOK(p) ==
  /\ p.zone = "low" => p.from \in Requests /\ p.name # "fixed"
  /\ p.zone = "high" => p.name # "legacy"
  /\ p.from = "defaults" => p \in Defaults

Agree(ps) == (\A p, q \in ps : SameList(p, q)) /\ (\A p \in ps : RowOK(p))

OneLow(ps) == \A p, q \in ps : p.zone = "low" /\ q.zone = "low" => p = q

DraftOK(r) ==
  /\ OneLow(draft[r])
  /\ stage[r] = "repairing" => \E q \in draft[r] : q.name = "fixed"
  /\ stage[r] = "replacing" => \/ \A q \in draft[r] : q.zone = "low"
                               \/ \E q \in draft[r] : q.name = "fixed"
  /\ stage[r] = "idle" => \A p \in Rows : p.from # r

PresetsTyped ==
  /\ presets \in SUBSET Presets
  /\ seen \in [Requests -> SUBSET Presets]
  /\ draft \in [Requests -> SUBSET Presets]

PresetsInv ==
  /\ PresetsTyped
  /\ Agree(Rows)
  /\ OneLow(presets)
  /\ \A r \in Requests : DraftOK(r)

IInv == AppliesInv /\ PresetsInv


-----------------------------------------------------------------------------
(***************************************************************************)
(* What the steps leave alone                                              *)
(***************************************************************************)
Same(q) ==
  /\ stage'[q] = stage[q] /\ want'[q] = want[q] /\ pc'[q] = pc[q]
  /\ result'[q] = result[q] /\ job'[q] = job[q] /\ rows'[q] = rows[q]

\* What others do at a Pi-hole is noted.
Noted(q) ==
  /\ met[q] \subseteq met'[q] /\ own'[q] \subseteq own[q]
  /\ \A i \in Instances :
       \/ blocking'[i] = blocking[i]
       \/ /\ i \notin own'[q]
          /\ pc[q][i] \notin {"idle", "settled", "rejected"} /\ blocking'[i] = Effect(want[q]) =>
               i \in met'[q]

LEMMA SameStays ==
  ASSUME NEW q \in Requests, StageOK(q), HolesOK(q), Same(q), Noted(q)
  PROVE  StageOK(q)' /\ HolesOK(q)'
<1>1. StageOK(q)'
  <2>1. own[q] = {} => own'[q] = {}
    BY DEF Noted
  <2>2. QED
    BY <2>1 DEF StageOK, Same, JobStatus, Having
<1>2. ASSUME NEW i \in Instances PROVE PlaceOK(q, i)'
  BY DEF HolesOK, PlaceOK, Same, LastRow
<1>3. ASSUME NEW i \in Instances PROVE MetOK(q, i)'
  <2>1. MetOK(q, i) /\ (i \in met[q] => i \in met'[q])
    BY DEF HolesOK, Noted
  <2>2. /\ pc'[q][i] \notin {"idle", "settled", "rejected"} /\ blocking'[i] = Effect(want'[q]) =>
             i \in met'[q]
    BY <2>1 DEF Noted, Same, MetOK
  <2>3. QED
    BY <2>1, <2>2 DEF Same, MetOK
<1>4. ASSUME NEW i \in Instances PROVE OwnOK(q, i)'
  BY DEF HolesOK, OwnOK, Same, Noted
<1>5. QED
  BY <1>1, <1>2, <1>3, <1>4 DEF HolesOK

\* A change to Pi-hole i, as it is noted
LEMMA ObserveNotes ==
  ASSUME AppliesTyped, NEW i \in Instances, NEW by \in SUBSET Requests, Observe(i, by),
         \A j \in Instances \ {i} : blocking'[j] = blocking[j]
  PROVE  /\ met' \in [Requests -> SUBSET Instances] /\ own' \in [Requests -> SUBSET Instances]
         /\ \A q \in Requests \ by : Noted(q)
         /\ \A q \in Requests : met[q] \subseteq met'[q]
         /\ \A q \in by : own'[q] = own[q] \cup {i}
BY DEF AppliesTyped, Observe, Noted

\* The presets are no part of it.
LEMMA PresetsApart ==
  ASSUME AppliesInv, UNCHANGED <<blocking, applying, history>>, AppliesTyped',
         \A q \in Requests : stage'[q] = stage[q] \/ (StageOK(q)' /\ pc[q] = Idle /\ pc'[q] = Idle)
  PROVE  AppliesInv'
<1> SUFFICES ASSUME NEW q \in Requests PROVE StageOK(q)' /\ HolesOK(q)'
  BY DEF AppliesInv, history
<1>1. StageOK(q) /\ HolesOK(q)
  BY DEF AppliesInv
<1>2. Noted(q)
  BY DEF Noted, history
<1>3. CASE stage'[q] = stage[q]
  <2>1. Same(q)
    BY <1>3 DEF Same, applying
  <2>2. QED
    BY <1>1, <1>2, <2>1, SameStays
<1>4. CASE stage'[q] # stage[q]
  <2>1. StageOK(q)' /\ pc[q] = Idle /\ pc'[q] = Idle
    BY <1>4
  <2>2. ASSUME NEW i \in Instances PROVE PlaceOK(q, i)' /\ MetOK(q, i)' /\ OwnOK(q, i)'
    <3>1. PlaceOK(q, i) /\ MetOK(q, i) /\ OwnOK(q, i) /\ pc'[q][i] = "idle"
      BY <1>1, <2>1 DEF HolesOK, Idle
    <3>2. QED
      BY <3>1 DEF PlaceOK, MetOK, OwnOK, applying, history
  <2>3. QED
    BY <2>1, <2>2 DEF HolesOK
<1>5. QED
  BY <1>3, <1>4


-----------------------------------------------------------------------------
(***************************************************************************)
(* Who works for a request                                                 *)
(***************************************************************************)
\* The steps of an apply request that change no Pi-hole, and those of its workers
Prepares(r) ==
  \/ Apply(r) \/ CreateJob(r) \/ StartWorkers(r) \/ Fail(r) \/ Finish(r)
  \/ \E i \in Instances : Look(r, i) \/ Refuse(r, i) \/ List(r, i)

Saves(r) ==
  \/ Save(r) \/ Status(r) \/ Replace(r) \/ ReadPresets(r) \/ Seed(r) \/ BeginRepair(r)

LEMMA NextIs ==
  Next => \/ \E i \in Instances : Tick(i)
          \/ \E r \in Requests, i \in Instances : LeaveAlone(r, i) \/ Set(r, i)
          \/ \E r \in Requests : Prepares(r) \/ Saves(r)
BY DEF Next, Work, Prepares, Saves

LEMMA EffectTypes ==
  ASSUME NEW w \in Wanted
  PROVE  Effect(w) \in Blocking
BY WantedAssumption DEF Effect, Blocking

LEMMA JobStatusTypes ==
  ASSUME NEW outcomes
  PROVE  JobStatus(outcomes) \in {"SUCCESS", "PARTIAL", "FAILURE"}
BY DEF JobStatus

\* Of the other requests nothing changes.
LEMMA PreparesKeeps ==
  ASSUME AppliesTyped, NEW r \in Requests, Prepares(r)
  PROVE  /\ \A q \in Requests \ {r} : Same(q) /\ met'[q] = met[q]
         /\ UNCHANGED <<blocking, own, repeated, saving>>
<1> USE DEF AppliesTyped, Same
<1>1. CASE Apply(r)
  <2>1. PICK w, targets : Accept(r, w, targets) /\ UNCHANGED job
    BY <1>1 DEF Apply
  <2>2. QED
    BY <2>1 DEF Accept, Goto
<1>2. CASE CreateJob(r)
  BY <1>2 DEF CreateJob, Goto, Abandon, history
<1>3. CASE StartWorkers(r) \/ Fail(r) \/ Finish(r)
  BY <1>3 DEF StartWorkers, Fail, Finish, Goto, history, applying
<1>4. ASSUME NEW i \in Instances, Look(r, i)
      PROVE  /\ \A q \in Requests \ {r} : Same(q) /\ met'[q] = met[q]
             /\ UNCHANGED <<blocking, own, repeated, saving>>
  BY <1>4 DEF Look, history
<1>5. ASSUME NEW i \in Instances, Refuse(r, i)
      PROVE  /\ \A q \in Requests \ {r} : Same(q) /\ met'[q] = met[q]
             /\ UNCHANGED <<blocking, own, repeated, saving>>
  BY <1>5 DEF Refuse, Abandon, history
<1>6. ASSUME NEW i \in Instances, List(r, i)
      PROVE  /\ \A q \in Requests \ {r} : Same(q) /\ met'[q] = met[q]
             /\ UNCHANGED <<blocking, own, repeated, saving>>
  BY <1>6 DEF List, AddRow, Abandon, history
<1>7. QED
  BY <1>1, <1>2, <1>3, <1>4, <1>5, <1>6 DEF Prepares


-----------------------------------------------------------------------------
(***************************************************************************)
(* The steps of a request that change no Pi-hole                           *)
(***************************************************************************)
\* Without rows there is little to say.
LEMMA NoRows ==
  ASSUME NEW r \in Requests, NEW i \in Instances, rows'[r][i] = <<>>,
         pc'[r][i] \in {"idle", "checking", "waiting"},
         pc'[r][i] = "checking" => stage'[r] = "checking",
         pc'[r][i] = "waiting" => stage'[r] \in {"checking", "listing"},
         pc'[r][i] # "idle" /\ blocking'[i] = Effect(want'[r]) => i \in met'[r]
  PROVE  PlaceOK(r, i)' /\ MetOK(r, i)'
<1>1. Len(rows'[r][i]) = 0 /\ DOMAIN rows'[r][i] = {}
  OBVIOUS
<1>2. PlaceOK(r, i)'
  BY <1>1, BoundsAssumption DEF PlaceOK
<1>3. MetOK(r, i)'
  BY <1>1 DEF MetOK
<1>4. QED
  BY <1>2, <1>3

LEMMA ApplyKeeps ==
  ASSUME AppliesInv, NEW r \in Requests, Apply(r)
  PROVE  AppliesTyped' /\ StageOK(r)' /\ HolesOK(r)'
<1>1. AppliesTyped /\ StageOK(r)
  BY DEF AppliesInv
<1>2. PICK w \in Wanted, targets \in (SUBSET Instances) \ {{}} :
        Accept(r, w, targets) /\ UNCHANGED job
  BY DEF Apply
<1>3. /\ stage[r] = "idle" /\ stage' = [stage EXCEPT ![r] = "checking"]
      /\ want' = [want EXCEPT ![r] = w]
      /\ pc' = [pc EXCEPT ![r] = [i \in Instances |->
                                    IF i \in targets THEN "waiting" ELSE "checking"]]
      /\ met' = [met EXCEPT ![r] = {i \in Instances : blocking[i] = Effect(w)}]
      /\ UNCHANGED <<blocking, result, rows, own, job>>
  BY <1>2 DEF Accept, Goto
<1>4. job[r] = "none" /\ own[r] = {} /\ \A i \in Instances : rows[r][i] = <<>>
  BY <1>1, <1>3 DEF StageOK
<1>5. AppliesTyped'
  <2>1. stage' \in [Requests -> Stages] /\ want' \in [Requests -> Wanted]
    BY <1>1, <1>3 DEF AppliesTyped, Stages
  <2>2. [i \in Instances |-> IF i \in targets THEN "waiting" ELSE "checking"]
          \in [Instances -> Places]
    BY DEF Places
  <2>3. pc' \in [Requests -> [Instances -> Places]]
    BY <1>1, <1>3, <2>2 DEF AppliesTyped
  <2>4. met' \in [Requests -> SUBSET Instances]
    BY <1>1, <1>3 DEF AppliesTyped
  <2>5. QED
    BY <1>1, <1>3, <2>1, <2>3, <2>4 DEF AppliesTyped
<1>6. stage'[r] = "checking" /\ job'[r] = "none" /\ own'[r] = {} /\ want'[r] = w
  BY <1>1, <1>3, <1>4 DEF AppliesTyped
<1>7. StageOK(r)'
  BY <1>3, <1>4, <1>6 DEF StageOK, OfPresets
<1>8. ASSUME NEW i \in Instances PROVE PlaceOK(r, i)' /\ MetOK(r, i)' /\ OwnOK(r, i)'
  <2>1. rows'[r][i] = <<>> /\ pc'[r][i] \in {"checking", "waiting"}
    BY <1>1, <1>3, <1>4 DEF AppliesTyped
  <2>2. blocking'[i] = Effect(w) => i \in met'[r]
    BY <1>1, <1>3 DEF AppliesTyped
  <2>3. PlaceOK(r, i)' /\ MetOK(r, i)'
    BY <1>6, <2>1, <2>2, NoRows
  <2>4. QED
    BY <1>6, <2>3 DEF OwnOK
<1>9. QED
  BY <1>5, <1>7, <1>8 DEF HolesOK

LEMMA LookKeeps ==
  ASSUME AppliesInv, NEW r \in Requests, NEW i \in Instances, Look(r, i)
  PROVE  AppliesTyped' /\ StageOK(r)' /\ HolesOK(r)'
<1>1. AppliesTyped /\ StageOK(r) /\ HolesOK(r)
  BY DEF AppliesInv
<1>2. PICK verdict \in {"SKIPPED", "NOOP"} :
        /\ verdict = "NOOP" => Matches(blocking[i], want[r])
        /\ result' = [result EXCEPT ![r][i] = verdict]
  BY DEF Look
<1>3. /\ stage[r] = "checking" /\ pc[r][i] = "checking"
      /\ pc' = [pc EXCEPT ![r][i] = "checked"]
      /\ UNCHANGED <<blocking, stage, want, job, rows, met, own>>
  BY DEF Look, history
<1>4. AppliesTyped'
  <2>1. pc' \in [Requests -> [Instances -> Places]]
    BY <1>1, <1>3 DEF AppliesTyped, Places
  <2>2. result' \in [Requests -> [Instances -> Results]]
    BY <1>1, <1>2 DEF AppliesTyped, Results
  <2>3. QED
    BY <1>1, <1>3, <2>1, <2>2 DEF AppliesTyped
<1>5. StageOK(r)'
  BY <1>1, <1>3 DEF StageOK, OfPresets
<1>6. ASSUME NEW j \in Instances PROVE PlaceOK(r, j)' /\ MetOK(r, j)' /\ OwnOK(r, j)'
  <2>1. PlaceOK(r, j) /\ MetOK(r, j) /\ OwnOK(r, j)
    BY <1>1 DEF HolesOK
  <2>2. CASE j = i
    <3>1. pc'[r][i] = "checked" /\ result'[r][i] = verdict
      BY <1>1, <1>2, <1>3 DEF AppliesTyped
    <3>2. PlaceOK(r, i)'
      BY <1>3, <2>1, <2>2, <3>1 DEF PlaceOK
    <3>3. MetOK(r, i)'
      BY <1>2, <1>3, <2>1, <2>2, <3>1 DEF MetOK, Matches
    <3>4. QED
      BY <1>3, <2>1, <2>2, <3>2, <3>3 DEF OwnOK
  <2>3. CASE j # i
    <3>1. pc'[r][j] = pc[r][j] /\ result'[r][j] = result[r][j]
      BY <1>1, <1>2, <1>3, <2>3 DEF AppliesTyped
    <3>2. QED
      BY <1>3, <2>1, <3>1 DEF PlaceOK, MetOK, OwnOK, LastRow
  <2>4. QED
    BY <2>2, <2>3
<1>7. QED
  BY <1>4, <1>5, <1>6 DEF HolesOK

\* A request that ends early leaves its rows as they are.
LEMMA AbandonKeeps ==
  ASSUME AppliesInv, NEW r \in Requests, NEW to \in {"refused", "failed"}, Abandon(r, to),
         UNCHANGED <<blocking, want, result, rows, job, met, own>>,
         stage[r] \in {"checking", "listing"},
         to = "refused" => stage[r] = "checking"
  PROVE  AppliesTyped' /\ StageOK(r)' /\ HolesOK(r)'
<1>1. AppliesTyped /\ StageOK(r) /\ HolesOK(r)
  BY DEF AppliesInv
<1>2. stage' = [stage EXCEPT ![r] = to] /\ pc' = [pc EXCEPT ![r] = Idle]
  BY DEF Abandon
<1>3. AppliesTyped'
  <2>1. pc' \in [Requests -> [Instances -> Places]]
    BY <1>1, <1>2 DEF AppliesTyped, Places, Idle
  <2>2. stage' \in [Requests -> Stages]
    BY <1>1, <1>2 DEF AppliesTyped, Stages, Over
  <2>3. QED
    BY <1>1, <2>1, <2>2 DEF AppliesTyped
<1>4. stage'[r] = to /\ pc'[r] = Idle
  BY <1>1, <1>2 DEF AppliesTyped
<1>5. StageOK(r)'
  BY <1>1, <1>4 DEF StageOK, OfPresets
<1>6. ASSUME NEW i \in Instances PROVE PlaceOK(r, i)' /\ MetOK(r, i)' /\ OwnOK(r, i)'
  <2>1. PlaceOK(r, i) /\ MetOK(r, i) /\ OwnOK(r, i) /\ pc'[r][i] = "idle"
    BY <1>1, <1>4 DEF HolesOK, Idle
  <2>2. QED
    BY <2>1 DEF PlaceOK, MetOK, OwnOK
<1>7. QED
  BY <1>3, <1>5, <1>6 DEF HolesOK


LEMMA RefuseKeeps ==
  ASSUME AppliesInv, NEW r \in Requests, NEW i \in Instances, Refuse(r, i)
  PROVE  AppliesTyped' /\ StageOK(r)' /\ HolesOK(r)'
<1>1. /\ Abandon(r, "refused") /\ stage[r] = "checking"
      /\ UNCHANGED <<blocking, want, result, rows, job, met, own>>
  BY DEF Refuse, history
<1>2. QED
  BY <1>1, AbandonKeeps

\* Where the stage is another one and all else stays
LEMMA PlacesStay ==
  ASSUME NEW r \in Requests, HolesOK(r), NEW s,
         stage'[r] = s, stage[r] \in {"checking", "listing", "applying"},
         \/ stage[r] = "checking" /\ s = "listing" /\ \A i \in Instances : pc[r][i] # "checking"
         \/ stage[r] = "applying" /\ s \in {"done", "failed"} /\
              (s = "done" => \A i \in Instances : pc[r][i] = "settled"),
         UNCHANGED <<blocking, want, pc, result, rows, met, own>>
  PROVE  HolesOK(r)'
<1> SUFFICES ASSUME NEW i \in Instances
             PROVE  PlaceOK(r, i)' /\ MetOK(r, i)' /\ OwnOK(r, i)'
  BY DEF HolesOK
<1>1. PlaceOK(r, i) /\ MetOK(r, i) /\ OwnOK(r, i)
  BY DEF HolesOK
<1>2. PlaceOK(r, i)'
  BY <1>1 DEF PlaceOK, LastRow
<1>3. MetOK(r, i)' /\ OwnOK(r, i)'
  BY <1>1 DEF MetOK, OwnOK
<1>4. QED
  BY <1>2, <1>3

LEMMA CreateJobKeeps ==
  ASSUME AppliesInv, NEW r \in Requests, CreateJob(r)
  PROVE  AppliesTyped' /\ StageOK(r)' /\ HolesOK(r)'
<1>1. AppliesTyped /\ StageOK(r) /\ HolesOK(r)
  BY DEF AppliesInv
<1>2. /\ stage[r] = "checking" /\ \A i \in Instances : pc[r][i] # "checking"
      /\ UNCHANGED <<blocking, want, result, rows, met, own>>
  BY DEF CreateJob, history
<1>3. CASE Abandon(r, "failed") /\ UNCHANGED job
  BY <1>2, <1>3, AbandonKeeps
<1>4. CASE /\ Goto(r, "checking", "listing") /\ job' = [job EXCEPT ![r] = "RUNNING"]
           /\ UNCHANGED pc
  <2>1. stage'[r] = "listing" /\ job'[r] = "RUNNING"
    BY <1>1, <1>4 DEF AppliesTyped, Goto
  <2>2. AppliesTyped'
    BY <1>1, <1>2, <1>4 DEF AppliesTyped, Goto, Stages, Statuses
  <2>3. StageOK(r)'
    BY <2>1 DEF StageOK, OfPresets
  <2>4. HolesOK(r)'
    BY <1>1, <1>2, <1>4, <2>1, PlacesStay
  <2>5. QED
    BY <2>2, <2>3, <2>4
<1>5. QED
  BY <1>3, <1>4 DEF CreateJob

LEMMA FailKeeps ==
  ASSUME AppliesInv, NEW r \in Requests, Fail(r)
  PROVE  AppliesTyped' /\ StageOK(r)' /\ HolesOK(r)'
<1>1. AppliesTyped /\ StageOK(r) /\ HolesOK(r)
  BY DEF AppliesInv
<1>2. /\ stage[r] = "applying" /\ stage' = [stage EXCEPT ![r] = "failed"]
      /\ UNCHANGED <<blocking, want, pc, result, job, rows, met, own>>
  BY DEF Fail, Goto, history, applying
<1>3. AppliesTyped' /\ stage'[r] = "failed"
  BY <1>1, <1>2 DEF AppliesTyped, Stages, Over
<1>4. StageOK(r)'
  BY <1>1, <1>2, <1>3 DEF StageOK, OfPresets
<1>5. HolesOK(r)'
  BY <1>1, <1>2, <1>3, PlacesStay
<1>6. QED
  BY <1>3, <1>4, <1>5

LEMMA FinishKeeps ==
  ASSUME AppliesInv, NEW r \in Requests, Finish(r)
  PROVE  AppliesTyped' /\ StageOK(r)' /\ HolesOK(r)'
<1>1. AppliesTyped /\ StageOK(r) /\ HolesOK(r)
  BY DEF AppliesInv
<1>2. /\ stage[r] = "applying" /\ \A i \in Instances : pc[r][i] = "settled"
      /\ UNCHANGED <<blocking, want, pc, result, rows, met, own>>
  BY DEF Finish, history
<1>3. CASE Goto(r, "applying", "done") /\ job' = [job EXCEPT ![r] = JobStatus(result[r])]
  <2>1. stage'[r] = "done" /\ job'[r] = JobStatus(result[r])
    BY <1>1, <1>3 DEF AppliesTyped, Goto
  <2>2. AppliesTyped'
    <3>1. job' \in [Requests -> Statuses]
      BY <1>1, <1>3, JobStatusTypes DEF AppliesTyped, Statuses
    <3>2. stage' \in [Requests -> Stages]
      BY <1>1, <1>3 DEF AppliesTyped, Goto, Stages, Over
    <3>3. QED
      BY <1>1, <1>2, <3>1, <3>2 DEF AppliesTyped
  <2>3. JobStatus(result[r])' = JobStatus(result[r])
    BY <1>2
  <2>4. StageOK(r)'
    BY <1>2, <2>1, <2>3, JobStatusTypes DEF StageOK, OfPresets
  <2>5. HolesOK(r)'
    BY <1>1, <1>2, <2>1, PlacesStay
  <2>6. QED
    BY <2>2, <2>4, <2>5
<1>4. CASE Goto(r, "applying", "failed") /\ UNCHANGED job
  <2>1. AppliesTyped' /\ stage'[r] = "failed"
    BY <1>1, <1>2, <1>4 DEF AppliesTyped, Goto, Stages, Over
  <2>2. StageOK(r)'
    BY <1>1, <1>2, <1>4, <2>1 DEF StageOK, OfPresets
  <2>3. HolesOK(r)'
    BY <1>1, <1>2, <2>1, PlacesStay
  <2>4. QED
    BY <2>1, <2>2, <2>3
<1>5. QED
  BY <1>3, <1>4 DEF Finish

LEMMA StartWorkersKeeps ==
  ASSUME AppliesInv, NEW r \in Requests, StartWorkers(r)
  PROVE  AppliesTyped' /\ StageOK(r)' /\ HolesOK(r)'
<1>1. AppliesTyped /\ StageOK(r) /\ HolesOK(r)
  BY DEF AppliesInv
<1>2. /\ stage[r] = "listing" /\ stage' = [stage EXCEPT ![r] = "applying"]
      /\ \A i \in Instances : pc[r][i] # "checked"
      /\ pc' = [pc EXCEPT ![r] = [i \in Instances |->
                                    IF @[i] = "waiting" THEN "trying" ELSE @[i]]]
      /\ UNCHANGED <<blocking, want, result, job, rows, met, own>>
  BY DEF StartWorkers, Goto, history
<1>3. stage'[r] = "applying"
  BY <1>1, <1>2 DEF AppliesTyped
<1>4. AppliesTyped'
  <2>1. [i \in Instances |-> IF pc[r][i] = "waiting" THEN "trying" ELSE pc[r][i]]
          \in [Instances -> Places]
    BY <1>1 DEF AppliesTyped, Places
  <2>2. pc' \in [Requests -> [Instances -> Places]]
    BY <1>1, <1>2, <2>1 DEF AppliesTyped
  <2>3. stage' \in [Requests -> Stages]
    BY <1>1, <1>2 DEF AppliesTyped, Stages
  <2>4. QED
    BY <1>1, <1>2, <2>2, <2>3 DEF AppliesTyped
<1>5. StageOK(r)'
  BY <1>1, <1>2, <1>3 DEF StageOK, OfPresets
<1>6. ASSUME NEW i \in Instances PROVE PlaceOK(r, i)' /\ MetOK(r, i)' /\ OwnOK(r, i)'
  <2>1. PlaceOK(r, i) /\ MetOK(r, i) /\ OwnOK(r, i)
    BY <1>1 DEF HolesOK
  <2>2. pc'[r][i] = IF pc[r][i] = "waiting" THEN "trying" ELSE pc[r][i]
    BY <1>1, <1>2 DEF AppliesTyped
  <2>3. pc[r][i] \in {"idle", "waiting", "settled", "rejected"}
    BY <1>1, <1>2, <2>1 DEF PlaceOK, AppliesTyped, Places
  <2>4. PlaceOK(r, i)'
    <3>1. CASE pc[r][i] = "waiting"
      <4>1. rows'[r][i] = <<>> /\ pc'[r][i] = "trying"
        BY <1>2, <2>1, <2>2, <3>1 DEF PlaceOK
      <4>2. Len(rows'[r][i]) = 0 /\ DOMAIN rows'[r][i] = {}
        BY <4>1
      <4>3. QED
        BY <1>3, <4>1, <4>2, BoundsAssumption DEF PlaceOK
    <3>2. CASE pc[r][i] # "waiting"
      BY <1>2, <2>1, <2>2, <2>3, <3>2 DEF PlaceOK, LastRow
    <3>3. QED
      BY <3>1, <3>2
  <2>5. MetOK(r, i)'
    BY <1>2, <2>1, <2>2, <2>3 DEF MetOK
  <2>6. QED
    BY <1>2, <2>1, <2>4, <2>5 DEF OwnOK
<1>7. QED
  BY <1>4, <1>5, <1>6 DEF HolesOK


-----------------------------------------------------------------------------
(***************************************************************************)
(* A row is stored                                                         *)
(***************************************************************************)
LEMMA RowAppended ==
  ASSUME NEW s \in Seq(Results), NEW o \in Results
  PROVE  /\ Append(s, o) \in Seq(Results) /\ Append(s, o) # <<>>
         /\ Len(Append(s, o)) = Len(s) + 1 /\ Append(s, o)[Len(s) + 1] = o
         /\ \A n \in DOMAIN Append(s, o) : n = Len(s) + 1 \/ (n \in DOMAIN s /\ Append(s, o)[n] = s[n])
<1>1. Append(s, o) \in Seq(Results) /\ Len(Append(s, o)) = Len(s) + 1 /\ Len(s) \in Nat
  OBVIOUS
<1>2. Append(s, o)[Len(s) + 1] = o /\ \A n \in 1..Len(s) : Append(s, o)[n] = s[n]
  OBVIOUS
<1>3. DOMAIN Append(s, o) = 1..(Len(s) + 1) /\ DOMAIN s = 1..Len(s)
  BY <1>1
<1>4. Append(s, o) # <<>>
  BY <1>1
<1>5. QED
  BY <1>1, <1>2, <1>3, <1>4

\* The next row of a job for a Pi-hole, whose earlier rows are failures
LEMMA RowKeeps ==
  ASSUME NEW r \in Requests, NEW i \in Instances, NEW o \in Results,
         rows[r][i] \in Seq(Results), Len(rows[r][i]) < Attempts,
         \A n \in DOMAIN rows[r][i] : rows[r][i][n] = "FAILURE",
         rows'[r][i] = Append(rows[r][i], o), result'[r][i] = o,
         o \in {"SUCCESS", "NOOP"} => i \in met'[r],
         \/ pc'[r][i] = "settled"
         \/ /\ pc'[r][i] = "trying" /\ o = "FAILURE" /\ Len(rows[r][i]) + 1 < Attempts
            /\ stage'[r] \in {"applying", "failed"}
            /\ blocking'[i] = Effect(want'[r]) => i \in met'[r]
  PROVE  PlaceOK(r, i)' /\ MetOK(r, i)'
<1> DEFINE s == rows[r][i]
<1>1. /\ Append(s, o) \in Seq(Results) /\ Append(s, o) # <<>>
      /\ Len(Append(s, o)) = Len(s) + 1 /\ Append(s, o)[Len(s) + 1] = o
      /\ \A n \in DOMAIN Append(s, o) : n = Len(s) + 1 \/ (n \in DOMAIN s /\ Append(s, o)[n] = s[n])
  BY RowAppended
<1>2. Len(s) \in Nat /\ Attempts \in Nat
  BY BoundsAssumption
<1>3. \A n \in DOMAIN rows'[r][i] :
        (n = Len(rows'[r][i]) /\ rows'[r][i][n] = o) \/ rows'[r][i][n] = "FAILURE"
  BY <1>1
<1>4. rows'[r][i] # <<>> /\ rows'[r][i][Len(rows'[r][i])] = o /\ Len(rows'[r][i]) = Len(s) + 1
  BY <1>1
<1>5. PlaceOK(r, i)'
  <2>1. Len(rows'[r][i]) <= Attempts
    BY <1>2, <1>4
  <2>2. LastRow(r, i)' = result'[r][i]
    BY <1>4 DEF LastRow
  <2>3. CASE pc'[r][i] = "settled"
    BY <1>4, <2>1, <2>2, <2>3 DEF PlaceOK
  <2>4. CASE pc'[r][i] = "trying"
    <3>1. \A n \in DOMAIN rows'[r][i] : rows'[r][i][n] = "FAILURE"
      BY <1>3, <2>4
    <3>2. Len(rows'[r][i]) < Attempts /\ stage'[r] \in {"applying", "failed"}
      BY <1>4, <2>4
    <3>3. QED
      BY <2>1, <2>4, <3>1, <3>2 DEF PlaceOK
  <2>5. QED
    BY <2>3, <2>4
<1>6. MetOK(r, i)'
  <2>1. \A n \in DOMAIN rows'[r][i] : rows'[r][i][n] \in {"SUCCESS", "NOOP"} =>
          i \in met'[r] /\ n = Len(rows'[r][i])
    BY <1>3
  <2>2. pc'[r][i] \notin {"idle", "settled", "rejected"} /\ blocking'[i] = Effect(want'[r]) =>
          i \in met'[r]
    OBVIOUS
  <2>3. QED
    BY <2>1, <2>2 DEF MetOK
<1>7. QED
  BY <1>5, <1>6

LEMMA ListKeeps ==
  ASSUME AppliesInv, NEW r \in Requests, NEW i \in Instances, List(r, i)
  PROVE  AppliesTyped' /\ StageOK(r)' /\ HolesOK(r)'
<1>1. AppliesTyped /\ StageOK(r) /\ HolesOK(r)
  BY DEF AppliesInv
<1>2. /\ stage[r] = "listing" /\ pc[r][i] = "checked"
      /\ UNCHANGED <<blocking, want, result, job, met, own>>
  BY DEF List, history
<1>3. CASE Abandon(r, "failed") /\ UNCHANGED rows
  BY <1>2, <1>3, AbandonKeeps
<1>4. CASE /\ AddRow(r, i, result[r][i]) /\ pc' = [pc EXCEPT ![r][i] = "settled"]
           /\ UNCHANGED stage
  <2> DEFINE o == result[r][i]
  <2>1. /\ rows[r][i] \in Seq(Results) /\ o \in Results
        /\ rows' = [rows EXCEPT ![r][i] = Append(@, o)]
    BY <1>1, <1>4 DEF AppliesTyped, AddRow
  <2>2. PlaceOK(r, i) /\ MetOK(r, i)
    BY <1>1 DEF HolesOK
  <2>3. rows[r][i] = <<>> /\ (o = "NOOP" => i \in met[r]) /\ o \in {"NOOP", "SKIPPED"}
    BY <1>2, <2>2 DEF PlaceOK, MetOK
  <2>4. Append(rows[r][i], o) \in Seq(Results)
    BY <2>1
  <2>5. AppliesTyped'
    <3>1. pc' \in [Requests -> [Instances -> Places]]
      BY <1>1, <1>4 DEF AppliesTyped, Places
    <3>2. rows' \in [Requests -> [Instances -> Seq(Results)]]
      BY <1>1, <2>1, <2>4 DEF AppliesTyped
    <3>3. QED
      BY <1>1, <1>2, <1>4, <3>1, <3>2 DEF AppliesTyped
  <2>6. StageOK(r)'
    BY <1>1, <1>2, <1>4 DEF StageOK, OfPresets
  <2>7. ASSUME NEW j \in Instances PROVE PlaceOK(r, j)' /\ MetOK(r, j)' /\ OwnOK(r, j)'
    <3>1. PlaceOK(r, j) /\ MetOK(r, j) /\ OwnOK(r, j)
      BY <1>1 DEF HolesOK
    <3>2. OwnOK(r, j)'
      BY <1>2, <3>1 DEF OwnOK
    <3>3. CASE j # i
      <4>1. pc'[r][j] = pc[r][j] /\ rows'[r][j] = rows[r][j]
        BY <1>1, <1>4, <2>1, <3>3 DEF AppliesTyped
      <4>2. QED
        BY <1>2, <1>4, <3>1, <3>2, <4>1 DEF PlaceOK, MetOK, LastRow
    <3>4. CASE j = i
      <4>1. pc'[r][i] = "settled" /\ rows'[r][i] = Append(rows[r][i], o) /\ result'[r][i] = o
        BY <1>1, <1>2, <1>4, <2>1 DEF AppliesTyped
      <4>2. Len(rows[r][i]) < Attempts /\ DOMAIN rows[r][i] = {}
        BY <2>3, BoundsAssumption
      <4>3. o \in {"SUCCESS", "NOOP"} => i \in met'[r]
        BY <1>2, <2>3
      <4>4. PlaceOK(r, i)' /\ MetOK(r, i)'
        BY <2>1, <4>1, <4>2, <4>3, RowKeeps
      <4>5. QED
        BY <3>2, <3>4, <4>4
    <3>5. QED
      BY <3>3, <3>4
  <2>8. QED
    BY <2>5, <2>6, <2>7 DEF HolesOK
<1>5. QED
  BY <1>3, <1>4 DEF List

LEMMA PreparesInv ==
  ASSUME AppliesInv, NEW r \in Requests, Prepares(r)
  PROVE  AppliesInv'
<1>1. AppliesTyped
  BY DEF AppliesInv
<1>2. AppliesTyped' /\ StageOK(r)' /\ HolesOK(r)'
  BY ApplyKeeps, CreateJobKeeps, StartWorkersKeeps, FailKeeps, FinishKeeps,
     LookKeeps, RefuseKeeps, ListKeeps DEF Prepares
<1>3. /\ \A q \in Requests \ {r} : Same(q) /\ met'[q] = met[q]
      /\ UNCHANGED <<blocking, own, repeated>>
  BY <1>1, PreparesKeeps
<1>4. ASSUME NEW q \in Requests \ {r} PROVE StageOK(q)' /\ HolesOK(q)'
  <2>1. StageOK(q) /\ HolesOK(q) /\ Same(q) /\ Noted(q)
    BY <1>3 DEF AppliesInv, Noted
  <2>2. QED
    BY <2>1, SameStays
<1>5. repeated' = {}
  BY <1>3 DEF AppliesInv
<1>6. QED
  BY <1>2, <1>4, <1>5 DEF AppliesInv


-----------------------------------------------------------------------------
(***************************************************************************)
(* A worker tries, and a timer moves on                                    *)
(***************************************************************************)
\* A try of request r at Pi-hole i, whatever becomes of the Pi-hole
TriesAt(r, i, outcome) ==
  /\ Tried(r, i, outcome)
  /\ UNCHANGED <<stage, want, job>>
  /\ outcome \in {"SUCCESS", "NOOP"} \/ blocking'[i] = Effect(want[r]) => i \in met'[r]
  /\ \A j \in Instances \ {i} : blocking'[j] = blocking[j]
  /\ met[r] \subseteq met'[r] /\ own'[r] \subseteq own[r] \cup {i}
  /\ i \in own'[r] => blocking'[i] = Effect(want[r])

LEMMA TriedCases ==
  ASSUME AppliesTyped, NEW r \in Requests, NEW i \in Instances,
         NEW outcome \in {"SUCCESS", "NOOP", "FAILURE"}, Tried(r, i, outcome)
  PROVE  /\ pc[r][i] = "trying"
         /\ \E place \in {"trying", "settled", "rejected"} : pc' = [pc EXCEPT ![r][i] = place]
         /\ \/ \E o \in {outcome, "FAILURE"} :
                 /\ rows' = [rows EXCEPT ![r][i] = Append(@, o)]
                 /\ result' = [result EXCEPT ![r][i] = o]
                 /\ \/ pc' = [pc EXCEPT ![r][i] = "settled"]
                    \/ /\ pc' = [pc EXCEPT ![r][i] = "trying"]
                       /\ o = "FAILURE" /\ Len(rows[r][i]) + 1 < Attempts
            \/ pc' = [pc EXCEPT ![r][i] = "rejected"] /\ UNCHANGED <<result, rows>>
<1>1. pc[r][i] = "trying"
  BY DEF Tried
<1>2. ASSUME NEW o \in {outcome, "FAILURE"}, Settle(r, i, o)
      PROVE  /\ rows' = [rows EXCEPT ![r][i] = Append(@, o)]
             /\ result' = [result EXCEPT ![r][i] = o]
             /\ \/ pc' = [pc EXCEPT ![r][i] = "settled"]
                \/ /\ pc' = [pc EXCEPT ![r][i] = "trying"]
                   /\ o = "FAILURE" /\ Len(rows[r][i]) + 1 < Attempts
  BY <1>2 DEF Settle, AddRow
<1>3. CASE Settle(r, i, outcome) \/ Settle(r, i, "FAILURE")
  <2>1. PICK o \in {outcome, "FAILURE"} : Settle(r, i, o)
    BY <1>3
  <2>2. QED
    BY <1>1, <1>2, <2>1
<1>4. CASE pc' = [pc EXCEPT ![r][i] = "rejected"] /\ UNCHANGED <<result, rows>>
  BY <1>1, <1>4
<1>5. QED
  BY <1>3, <1>4 DEF Tried

LEMMA TriedTypes ==
  ASSUME AppliesTyped, NEW r \in Requests, NEW i \in Instances,
         NEW outcome \in {"SUCCESS", "NOOP", "FAILURE"}, Tried(r, i, outcome)
  PROVE  /\ pc' \in [Requests -> [Instances -> Places]]
         /\ result' \in [Requests -> [Instances -> Results]]
         /\ rows' \in [Requests -> [Instances -> Seq(Results)]]
         /\ \A q \in Requests, j \in Instances : q # r \/ j # i =>
              pc'[q][j] = pc[q][j] /\ result'[q][j] = result[q][j] /\ rows'[q][j] = rows[q][j]
         /\ \A q \in Requests \ {r} :
              pc'[q] = pc[q] /\ result'[q] = result[q] /\ rows'[q] = rows[q]
<1>1. PICK place \in {"trying", "settled", "rejected"} : pc' = [pc EXCEPT ![r][i] = place]
  BY TriedCases
<1>2. CASE UNCHANGED <<result, rows>>
  BY <1>1, <1>2 DEF AppliesTyped, Places
<1>3. ASSUME NEW o \in {outcome, "FAILURE"},
             rows' = [rows EXCEPT ![r][i] = Append(@, o)],
             result' = [result EXCEPT ![r][i] = o]
      PROVE  /\ pc' \in [Requests -> [Instances -> Places]]
             /\ result' \in [Requests -> [Instances -> Results]]
             /\ rows' \in [Requests -> [Instances -> Seq(Results)]]
             /\ \A q \in Requests, j \in Instances : q # r \/ j # i =>
                  pc'[q][j] = pc[q][j] /\ result'[q][j] = result[q][j] /\ rows'[q][j] = rows[q][j]
             /\ \A q \in Requests \ {r} :
                  pc'[q] = pc[q] /\ result'[q] = result[q] /\ rows'[q] = rows[q]
  <2>1. o \in Results /\ rows[r][i] \in Seq(Results)
    BY DEF Results, AppliesTyped
  <2>2. Append(rows[r][i], o) \in Seq(Results)
    BY <2>1
  <2>3. pc' \in [Requests -> [Instances -> Places]]
    BY <1>1 DEF AppliesTyped, Places
  <2>4. result' \in [Requests -> [Instances -> Results]]
    BY <1>3, <2>1 DEF AppliesTyped
  <2>5. rows' \in [Requests -> [Instances -> Seq(Results)]]
    BY <1>3, <2>2 DEF AppliesTyped
  <2>6. QED
    BY <1>1, <1>3, <2>3, <2>4, <2>5 DEF AppliesTyped
<1>4. QED
  BY <1>2, <1>3, TriedCases

LEMMA TriesAtKeeps ==
  ASSUME AppliesInv, NEW r \in Requests, NEW i \in Instances,
         NEW outcome \in {"SUCCESS", "NOOP", "FAILURE"}, TriesAt(r, i, outcome),
         blocking' \in [Instances -> Blocking], met' \in [Requests -> SUBSET Instances],
         own' \in [Requests -> SUBSET Instances]
  PROVE  AppliesTyped' /\ StageOK(r)' /\ HolesOK(r)' /\ \A q \in Requests \ {r} : Same(q)
<1>1. AppliesTyped /\ StageOK(r) /\ HolesOK(r)
  BY DEF AppliesInv
<1>2. Tried(r, i, outcome) /\ UNCHANGED <<stage, want, job>>
  BY DEF TriesAt
<1>3. /\ pc' \in [Requests -> [Instances -> Places]]
      /\ result' \in [Requests -> [Instances -> Results]]
      /\ rows' \in [Requests -> [Instances -> Seq(Results)]]
      /\ \A q \in Requests, j \in Instances : q # r \/ j # i =>
           pc'[q][j] = pc[q][j] /\ result'[q][j] = result[q][j] /\ rows'[q][j] = rows[q][j]
      /\ \A q \in Requests \ {r} :
           pc'[q] = pc[q] /\ result'[q] = result[q] /\ rows'[q] = rows[q]
  BY <1>1, <1>2, TriedTypes
<1>4. AppliesTyped'
  BY <1>1, <1>2, <1>3 DEF AppliesTyped
<1>5. \A q \in Requests \ {r} : Same(q)
  BY <1>2, <1>3 DEF Same
<1>6. pc[r][i] = "trying" /\ PlaceOK(r, i) /\ MetOK(r, i)
  BY <1>1, <1>2, TriedCases DEF HolesOK
<1>7. stage[r] \in {"applying", "failed"}
  BY <1>6 DEF PlaceOK
<1>8. StageOK(r)'
  BY <1>1, <1>2, <1>6, <1>7 DEF StageOK, OfPresets
<1>9. ASSUME NEW j \in Instances PROVE PlaceOK(r, j)' /\ MetOK(r, j)' /\ OwnOK(r, j)'
  <2>1. PlaceOK(r, j) /\ MetOK(r, j) /\ OwnOK(r, j)
    BY <1>1 DEF HolesOK
  <2>2. OwnOK(r, j)'
    BY <1>2, <2>1 DEF OwnOK, TriesAt
  <2>3. CASE j # i
    <3>1. /\ pc'[r][j] = pc[r][j] /\ result'[r][j] = result[r][j] /\ rows'[r][j] = rows[r][j]
          /\ blocking'[j] = blocking[j] /\ (j \in met[r] => j \in met'[r])
      BY <1>3, <2>3 DEF TriesAt
    <3>2. PlaceOK(r, j)'
      BY <1>2, <2>1, <3>1 DEF PlaceOK, LastRow
    <3>3. MetOK(r, j)'
      BY <1>2, <2>1, <3>1 DEF MetOK
    <3>4. QED
      BY <2>2, <3>2, <3>3
  <2>4. CASE j = i
    <3>1. CASE pc' = [pc EXCEPT ![r][i] = "rejected"] /\ UNCHANGED <<result, rows>>
      <4>1. pc'[r][i] = "rejected" /\ (i \in met[r] => i \in met'[r])
        BY <1>1, <3>1 DEF AppliesTyped, TriesAt
      <4>2. PlaceOK(r, i)'
        BY <2>1, <2>4, <3>1, <4>1 DEF PlaceOK
      <4>3. MetOK(r, i)'
        BY <2>1, <2>4, <3>1, <4>1 DEF MetOK
      <4>4. QED
        BY <2>2, <2>4, <4>2, <4>3
    <3>2. ASSUME NEW o \in {outcome, "FAILURE"},
                 rows' = [rows EXCEPT ![r][i] = Append(@, o)],
                 result' = [result EXCEPT ![r][i] = o],
                 \/ pc' = [pc EXCEPT ![r][i] = "settled"]
                 \/ /\ pc' = [pc EXCEPT ![r][i] = "trying"]
                    /\ o = "FAILURE" /\ Len(rows[r][i]) + 1 < Attempts
          PROVE  PlaceOK(r, i)' /\ MetOK(r, i)'
      <4>1. /\ rows[r][i] \in Seq(Results) /\ o \in Results
            /\ rows'[r][i] = Append(rows[r][i], o) /\ result'[r][i] = o
        BY <1>1, <3>2 DEF AppliesTyped, Results
      <4>2. Len(rows[r][i]) < Attempts /\ \A n \in DOMAIN rows[r][i] : rows[r][i][n] = "FAILURE"
        BY <1>6 DEF PlaceOK
      <4>3. o \in {"SUCCESS", "NOOP"} => i \in met'[r]
        BY <3>2 DEF TriesAt
      <4>4. \/ pc'[r][i] = "settled"
            \/ /\ pc'[r][i] = "trying" /\ o = "FAILURE" /\ Len(rows[r][i]) + 1 < Attempts
               /\ stage'[r] \in {"applying", "failed"}
               /\ blocking'[i] = Effect(want'[r]) => i \in met'[r]
        BY <1>1, <1>2, <1>7, <3>2 DEF AppliesTyped, TriesAt
      <4>5. QED
        BY <4>1, <4>2, <4>3, <4>4, RowKeeps
    <3>3. PlaceOK(r, i)' /\ MetOK(r, i)'
      BY <1>1, <1>2, <2>4, <3>1, <3>2, TriedCases
    <3>4. QED
      BY <2>2, <2>4, <3>3
  <2>5. QED
    BY <2>3, <2>4
<1>10. QED
  BY <1>4, <1>5, <1>8, <1>9 DEF HolesOK

LEMMA LeaveAloneInv ==
  ASSUME AppliesInv, NEW r \in Requests, NEW i \in Instances, LeaveAlone(r, i)
  PROVE  AppliesInv'
<1>1. AppliesTyped /\ HolesOK(r) /\ UNCHANGED <<blocking, stage, want, job, met, own, repeated>>
  BY DEF AppliesInv, LeaveAlone, history
<1>2. PICK outcome \in {"NOOP", "FAILURE"} :
        /\ Tried(r, i, outcome)
        /\ outcome = "NOOP" => Matches(blocking[i], want[r])
  BY DEF LeaveAlone
<1>3. pc[r][i] = "trying" /\ MetOK(r, i) /\ OwnOK(r, i)
  BY <1>1, <1>2, TriedCases DEF HolesOK
<1>4. TriesAt(r, i, outcome)
  BY <1>1, <1>2, <1>3 DEF TriesAt, MetOK, OwnOK, Matches
<1>5. AppliesTyped' /\ StageOK(r)' /\ HolesOK(r)' /\ \A q \in Requests \ {r} : Same(q)
  <2>1. /\ blocking' \in [Instances -> Blocking] /\ met' \in [Requests -> SUBSET Instances]
        /\ own' \in [Requests -> SUBSET Instances]
    BY <1>1 DEF AppliesTyped
  <2>2. QED
    BY <1>4, <2>1, TriesAtKeeps
<1>6. ASSUME NEW q \in Requests \ {r} PROVE StageOK(q)' /\ HolesOK(q)'
  <2>1. StageOK(q) /\ HolesOK(q) /\ Same(q) /\ Noted(q)
    BY <1>1, <1>5 DEF AppliesInv, Noted
  <2>2. QED
    BY <2>1, SameStays
<1>7. QED
  BY <1>1, <1>5, <1>6 DEF AppliesInv


LEMMA SetInv ==
  ASSUME AppliesInv, NEW r \in Requests, NEW i \in Instances, Set(r, i)
  PROVE  AppliesInv'
<1>1. AppliesTyped /\ HolesOK(r) /\ UNCHANGED <<stage, want, job>>
  BY DEF AppliesInv, Set
<1>2. PICK outcome \in {"SUCCESS", "FAILURE"} : Tried(r, i, outcome)
  BY DEF Set
<1>3. pc[r][i] = "trying"
  BY <1>1, <1>2, TriedCases
<1>4. blocking' = [blocking EXCEPT ![i] = Effect(want[r])] /\ Observe(i, {r})
  BY DEF Set
<1>5. /\ blocking' \in [Instances -> Blocking] /\ blocking'[i] = Effect(want[r])
      /\ \A j \in Instances \ {i} : blocking'[j] = blocking[j]
  <2>1. Effect(want[r]) \in Blocking
    BY <1>1, EffectTypes DEF AppliesTyped
  <2>2. QED
    BY <1>1, <1>4, <2>1 DEF AppliesTyped
<1>6. /\ met' \in [Requests -> SUBSET Instances] /\ own' \in [Requests -> SUBSET Instances]
      /\ \A q \in Requests \ {r} : Noted(q)
      /\ met[r] \subseteq met'[r] /\ own'[r] = own[r] \cup {i}
  BY <1>1, <1>4, <1>5, ObserveNotes
<1>7. i \in met'[r]
  BY <1>3, <1>4, <1>5 DEF Observe
<1>8. TriesAt(r, i, outcome)
  BY <1>1, <1>2, <1>5, <1>6, <1>7 DEF TriesAt
<1>9. AppliesTyped' /\ StageOK(r)' /\ HolesOK(r)' /\ \A q \in Requests \ {r} : Same(q)
  BY <1>5, <1>6, <1>8, TriesAtKeeps
<1>10. ASSUME NEW q \in Requests \ {r} PROVE StageOK(q)' /\ HolesOK(q)'
  <2>1. StageOK(q) /\ HolesOK(q) /\ Same(q) /\ Noted(q)
    BY <1>6, <1>9 DEF AppliesInv
  <2>2. QED
    BY <2>1, SameStays
<1>11. repeated' = {}
  <2>1. i \notin own[r]
    BY <1>1 DEF HolesOK, OwnOK, Set, Matches
  <2>2. QED
    BY <2>1 DEF Set, AppliesInv
<1>12. QED
  BY <1>9, <1>10, <1>11 DEF AppliesInv

LEMMA TickInv ==
  ASSUME AppliesInv, NEW i \in Instances, Tick(i)
  PROVE  AppliesInv'
<1>1. /\ AppliesTyped /\ UNCHANGED <<stage, want, pc, result, job, rows, repeated>>
      /\ blocking' = [blocking EXCEPT ![i] = IF @ = "fresh" THEN "aging" ELSE "on"]
      /\ Observe(i, {})
  BY DEF AppliesInv, Tick, applying
<1>2. /\ blocking' \in [Instances -> Blocking]
      /\ \A j \in Instances \ {i} : blocking'[j] = blocking[j]
  BY <1>1 DEF AppliesTyped, Blocking
<1>3. /\ met' \in [Requests -> SUBSET Instances] /\ own' \in [Requests -> SUBSET Instances]
      /\ \A q \in Requests : Noted(q)
  BY <1>1, <1>2, ObserveNotes
<1>4. AppliesTyped'
  BY <1>1, <1>2, <1>3 DEF AppliesTyped
<1>5. ASSUME NEW q \in Requests PROVE StageOK(q)' /\ HolesOK(q)'
  <2>1. StageOK(q) /\ HolesOK(q) /\ Same(q) /\ Noted(q)
    BY <1>1, <1>3 DEF AppliesInv, Same
  <2>2. QED
    BY <2>1, SameStays
<1>6. QED
  BY <1>1, <1>4, <1>5 DEF AppliesInv

-----------------------------------------------------------------------------
(***************************************************************************)
(* The presets                                                             *)
(***************************************************************************)
\* Where a request about the presets may go, and all that it leaves alone
Moves(r, from, to) ==
  /\ stage[r] = from /\ stage' = [stage EXCEPT ![r] = to]
  /\ UNCHANGED <<blocking, applying, history>>

LEMMA SavesMove ==
  ASSUME NEW r \in Requests, Saves(r)
  PROVE  \/ \E to \in OfPresets : Moves(r, "idle", to)
         \/ \E from \in OfPresets, to \in OfPresets \cup {"done", "failed"} : Moves(r, from, to)
<1> USE DEF Moves, OfPresets, Goto
<1>1. CASE Save(r) \/ Status(r)
  BY <1>1 DEF Save, Status
<1>2. CASE Replace(r)
  BY <1>2 DEF Replace
<1>3. CASE ReadPresets(r)
  BY <1>3 DEF ReadPresets
<1>4. CASE Seed(r) \/ BeginRepair(r)
  BY <1>4 DEF Seed, BeginRepair
<1>5. QED
  BY <1>1, <1>2, <1>3, <1>4 DEF Saves

LEMMA SavesInv ==
  ASSUME AppliesInv, NEW r \in Requests, Saves(r)
  PROVE  AppliesInv'
<1>1. PICK from \in OfPresets \cup {"idle"}, to \in OfPresets \cup {"done", "failed"} :
        Moves(r, from, to)
  BY SavesMove
<1>2. AppliesTyped /\ StageOK(r)
  BY DEF AppliesInv
<1>3. /\ stage[r] = from /\ stage' = [stage EXCEPT ![r] = to]
      /\ UNCHANGED <<blocking, applying, history>>
  BY <1>1 DEF Moves
<1>4. UNCHANGED <<want, pc, result, job, rows, met, own, repeated>>
  BY <1>3 DEF applying, history
<1>5. AppliesTyped'
  BY <1>2, <1>3, <1>4 DEF AppliesTyped, Stages, Over, OfPresets
<1>6. pc[r] = Idle /\ job[r] = "none" /\ \A i \in Instances : rows[r][i] = <<>>
  BY <1>2, <1>3 DEF StageOK
<1>7. stage'[r] = to
  BY <1>2, <1>3 DEF AppliesTyped
<1>8. StageOK(r)'
  BY <1>4, <1>6, <1>7 DEF StageOK, OfPresets, Idle
<1>9. \A q \in Requests : stage'[q] = stage[q] \/ (StageOK(q)' /\ pc[q] = Idle /\ pc'[q] = Idle)
  BY <1>2, <1>3, <1>4, <1>6, <1>8 DEF AppliesTyped
<1>10. QED
  BY <1>3, <1>5, <1>9, PresetsApart

-----------------------------------------------------------------------------
(***************************************************************************)
(* Requests to apply, from the first state on                              *)
(***************************************************************************)
LEMMA InitApplies == Init => AppliesInv
<1> SUFFICES ASSUME Init PROVE AppliesInv
  OBVIOUS
<1>1. AppliesTyped
  BY WantedAssumption DEF Init, AppliesTyped, Blocking, Stages, Places, Results, Statuses, Idle
<1>2. ASSUME NEW r \in Requests PROVE StageOK(r)
  BY DEF Init, StageOK, OfPresets
<1>3. ASSUME NEW r \in Requests, NEW i \in Instances
      PROVE  PlaceOK(r, i) /\ MetOK(r, i) /\ OwnOK(r, i)
  <2>1. pc[r][i] = "idle" /\ rows[r][i] = <<>> /\ own[r] = {}
    BY DEF Init, Idle
  <2>2. Len(rows[r][i]) = 0 /\ DOMAIN rows[r][i] = {}
    BY <2>1
  <2>3. QED
    BY <2>1, <2>2, BoundsAssumption DEF PlaceOK, MetOK, OwnOK
<1>4. QED
  BY <1>1, <1>2, <1>3 DEF AppliesInv, HolesOK, Init

LEMMA NextApplies == AppliesInv /\ [Next]_vars => AppliesInv'
<1> SUFFICES ASSUME AppliesInv, [Next]_vars PROVE AppliesInv'
  OBVIOUS
<1>1. CASE UNCHANGED vars
  <2>1. AppliesTyped' /\ UNCHANGED <<blocking, applying, history, stage>>
    BY <1>1 DEF vars, AppliesInv, AppliesTyped, applying, history
  <2>2. QED
    BY <2>1, PresetsApart
<1>2. CASE Next
  BY <1>2, NextIs, TickInv, LeaveAloneInv, SetInv, PreparesInv, SavesInv
<1>3. QED
  BY <1>1, <1>2


-----------------------------------------------------------------------------
(***************************************************************************)
(* The rows of presets                                                     *)
(***************************************************************************)
\* The row a repair makes of another
Mend(p) == Preset("high", p.from, Mended(p.name))

LEMMA RowParts ==
  ASSUME NEW p \in Presets
  PROVE  /\ p.zone \in {"low", "high"} /\ p.from \in Requests \cup {"defaults"}
         /\ p.name \in {"good", "legacy", "fixed"} /\ p = Preset(p.zone, p.from, p.name)
BY DEF Presets, Preset

LEMMA MendParts ==
  ASSUME NEW p \in Presets
  PROVE  /\ Mend(p) \in Presets
         /\ Mend(p).zone = "high" /\ Mend(p).from = p.from /\ Mend(p).name = Mended(p.name)
         /\ Mended(p.name) # "legacy"
         /\ p.name # "legacy" => Mended(p.name) = p.name
BY DEF Presets, Preset, Mend, Mended

LEMMA DefaultsAgree ==
  ASSUME NEW ps \in SUBSET Presets, Agree(ps)
  PROVE  ps \cup Defaults \in SUBSET Presets /\ Agree(ps \cup Defaults)
<1> DEFINE d == Preset("high", "defaults", "good")
<1>1. Defaults = {d} /\ d \in Presets
  BY DEF Defaults, Preset, Presets
<1>2. d.zone = "high" /\ d.from = "defaults" /\ d.name = "good"
  BY DEF Preset
<1>3. RowOK(d)
  BY <1>1, <1>2 DEF RowOK
<1>4. \A q \in ps : q.from = "defaults" => q = d
  BY <1>1 DEF Agree, RowOK
<1>5. \A q \in ps \cup Defaults : SameList(d, q) /\ SameList(q, d)
  BY <1>1, <1>2, <1>4 DEF SameList
<1>6. QED
  BY <1>1, <1>3, <1>5 DEF Agree

\* A repaired row agrees with all that the one it was made of agrees with.
LEMMA MendAgrees ==
  ASSUME NEW o \in Presets, NEW q \in Presets, SameList(o, q), SameList(q, o),
         RowOK(o), RowOK(q)
  PROVE  SameList(Mend(o), q) /\ SameList(q, Mend(o)) /\ SameList(Mend(o), Mend(q))
<1>1. /\ Mend(o).zone = "high" /\ Mend(o).from = o.from /\ Mend(o).name = Mended(o.name)
      /\ Mend(q).zone = "high" /\ Mend(q).from = q.from /\ Mend(q).name = Mended(q.name)
      /\ o.name # "legacy" => Mended(o.name) = o.name
      /\ q.name # "legacy" => Mended(q.name) = q.name
      /\ Mended(o.name) # "legacy" /\ Mended(q.name) # "legacy"
  BY MendParts
<1>2. o.zone \in {"low", "high"} /\ q.zone \in {"low", "high"} /\ q = Preset(q.zone, q.from, q.name)
  BY RowParts
<1>3. CASE o.from # q.from
  BY <1>1, <1>3 DEF SameList
<1>4. CASE o.from = q.from
  <2>1. Mended(o.name) = Mended(q.name)
    <3>1. CASE o.zone = q.zone
      BY <1>4, <3>1 DEF SameList
    <3>2. CASE o.zone = "low" /\ q.zone = "high"
      BY <1>1, <1>4, <3>2 DEF SameList, RowOK
    <3>3. CASE o.zone = "high" /\ q.zone = "low"
      BY <1>1, <1>4, <3>3 DEF SameList, RowOK
    <3>4. QED
      BY <1>2, <3>1, <3>2, <3>3
  <2>2. Mend(o) = Mend(q)
    BY <1>4, <2>1 DEF Mend
  <2>3. q.zone = "high" => Mend(q) = q
    BY <1>1, <1>2 DEF RowOK, Mend
  <2>4. SameList(Mend(o), Mend(q))
    BY <1>1, <2>2 DEF SameList
  <2>5. SameList(Mend(o), q) /\ SameList(q, Mend(o))
    BY <1>1, <1>2, <2>2, <2>3 DEF SameList
  <2>6. QED
    BY <2>4, <2>5
<1>5. QED
  BY <1>3, <1>4

LEMMA RepairedAgree ==
  ASSUME NEW ps \in SUBSET Presets, Agree(ps), NEW old \in SUBSET ps
  PROVE  /\ ps \cup Repaired(old) \in SUBSET Presets
         /\ Agree(ps \cup Repaired(old))
         /\ \A p \in Repaired(old) :
              p.zone = "high" /\ (p.from = "defaults" \/ \E o \in old : p.from = o.from)
<1> DEFINE all == ps \cup Defaults
<1>1. all \in SUBSET Presets /\ Agree(all)
  BY DefaultsAgree
<1>2. \A o, q \in all :
        SameList(Mend(o), q) /\ SameList(q, Mend(o)) /\ SameList(Mend(o), Mend(q))
  <2>1. SUFFICES ASSUME NEW o \in all, NEW q \in all
                 PROVE  /\ SameList(Mend(o), q) /\ SameList(q, Mend(o))
                        /\ SameList(Mend(o), Mend(q))
    OBVIOUS
  <2>2. SameList(o, q) /\ SameList(q, o) /\ RowOK(o) /\ RowOK(q) /\ o \in Presets /\ q \in Presets
    BY <1>1 DEF Agree
  <2>3. QED
    BY <2>2, MendAgrees
<1>3. \A o \in all : RowOK(Mend(o)) /\ Mend(o) \in Presets
  <2>1. SUFFICES ASSUME NEW o \in all PROVE RowOK(Mend(o)) /\ Mend(o) \in Presets
    OBVIOUS
  <2>2. o \in Presets /\ RowOK(o)
    BY <1>1 DEF Agree
  <2>3. /\ Mend(o) \in Presets
        /\ Mend(o).zone = "high" /\ Mend(o).from = o.from /\ Mend(o).name # "legacy"
    BY <2>2, MendParts
  <2>4. o.from = "defaults" => Mend(o) \in Defaults
    BY <2>2 DEF RowOK, Defaults, Mend, Mended, Preset
  <2>5. QED
    BY <2>3, <2>4 DEF RowOK
<1>4. Repaired(old) = Defaults \cup {Mend(o) : o \in old}
  BY DEF Repaired, Mend, Mended
<1>5. \A p \in ps \cup Repaired(old) : p \in all \/ \E o \in all : p = Mend(o)
  BY <1>4
<1>6. \A p, q \in ps \cup Repaired(old) : SameList(p, q)
  BY <1>1, <1>2, <1>5 DEF Agree
<1>7. \A p \in ps \cup Repaired(old) : RowOK(p) /\ p \in Presets
  BY <1>1, <1>3, <1>5 DEF Agree
<1>8. \A p \in Repaired(old) :
        p.zone = "high" /\ (p.from = "defaults" \/ \E o \in old : p.from = o.from)
  BY <1>4, MendParts DEF Defaults, Preset
<1>9. QED
  BY <1>6, <1>7, <1>8 DEF Agree


-----------------------------------------------------------------------------
(***************************************************************************)
(* The steps that write and read presets                                   *)
(***************************************************************************)
LEMMA RowsTyped ==
  ASSUME PresetsTyped
  PROVE  /\ Rows \in SUBSET Presets /\ presets \subseteq Rows
         /\ \A r \in Requests : seen[r] \subseteq Rows /\ draft[r] \subseteq Rows
BY DEF PresetsTyped, Rows

\* The rows after a step of a request
LEMMA RowsAfter ==
  ASSUME PresetsTyped, NEW r \in Requests, NEW new,
         presets' \subseteq Rows \cup new, seen'[r] \cup draft'[r] \subseteq Rows \cup new,
         \A q \in Requests \ {r} : seen'[q] = seen[q] /\ draft'[q] = draft[q]
  PROVE  Rows' \subseteq Rows \cup new
BY DEF Rows

LEMMA AgreeLess ==
  ASSUME NEW ps, Agree(ps), NEW some \in SUBSET ps
  PROVE  Agree(some)
BY DEF Agree

\* A step of request r keeps the invariant if it brings in no row that does not fit.
LEMMA StepKeeps ==
  ASSUME PresetsInv, PresetsTyped', NEW r \in Requests, NEW new,
         \A q \in Requests \ {r} : stage'[q] = stage[q] /\ draft'[q] = draft[q],
         Rows' \subseteq Rows \cup new, Agree(Rows \cup new),
         \A p \in new : \/ p.from \in {r, "defaults"}
                        \/ \E o \in Rows : p.from = o.from,
         OneLow(presets'), stage'[r] # "idle", DraftOK(r)'
  PROVE  PresetsInv'
<1>1. Agree(Rows')
  BY AgreeLess
<1>2. ASSUME NEW q \in Requests \ {r} PROVE DraftOK(q)'
  <2>1. DraftOK(q)
    BY DEF PresetsInv
  <2>2. stage'[q] = "idle" => \A p \in Rows' : p.from # q
    BY <2>1, RequestsAssumption DEF DraftOK
  <2>3. QED
    BY <2>1, <2>2 DEF DraftOK, OneLow
<1>3. QED
  BY <1>1, <1>2 DEF PresetsInv

\* Requests to apply do not touch the presets.
LEMMA PresetsStay ==
  ASSUME PresetsInv, UNCHANGED saving,
         \A q \in Requests : stage'[q] \in {stage[q], "checking", "listing", "applying", "reading"} \cup Over
  PROVE  PresetsInv'
<1>1. Rows' = Rows /\ PresetsTyped' /\ OneLow(presets')
  BY DEF saving, Rows, PresetsTyped, PresetsInv
<1>2. ASSUME NEW q \in Requests PROVE DraftOK(q)'
  <2>1. DraftOK(q) /\ draft' = draft
    BY DEF PresetsInv, saving
  <2>2. stage'[q] \in {"idle", "repairing", "replacing"} => stage'[q] = stage[q]
    BY DEF Over
  <2>3. QED
    BY <1>1, <2>1, <2>2 DEF DraftOK
<1>3. QED
  BY <1>1, <1>2 DEF PresetsInv

LEMMA SaveInv ==
  ASSUME PresetsInv, stage \in [Requests -> Stages], NEW r \in Requests, Save(r)
  PROVE  PresetsInv'
<1>1. /\ stage[r] = "idle" /\ stage' = [stage EXCEPT ![r] = "replacing"]
      /\ seen' = [seen EXCEPT ![r] = presets] /\ presets' = presets
  BY DEF Save, Goto
<1>2. PresetsTyped /\ Agree(Rows) /\ DraftOK(r) /\ OneLow(presets)
  BY DEF PresetsInv
<1>3. PICK name \in {"good", "legacy"} :
        \/ draft' = [draft EXCEPT ![r] = {Preset("low", r, name)}]
        \/ draft' = [draft EXCEPT ![r] = {}]
  BY DEF Save
<1> DEFINE p == Preset("low", r, name)
<1>4. p \in Presets /\ p.zone = "low" /\ p.from = r /\ p.name = name
  BY DEF Preset, Presets
<1>5. PresetsTyped'
  BY <1>1, <1>2, <1>3, <1>4 DEF PresetsTyped
<1>6. seen'[r] = presets /\ draft'[r] \subseteq {p} /\ stage'[r] = "replacing"
  BY <1>1, <1>2, <1>3 DEF PresetsTyped
<1>7. \A q \in Requests \ {r} :
        stage'[q] = stage[q] /\ seen'[q] = seen[q] /\ draft'[q] = draft[q]
  BY <1>1, <1>2, <1>3 DEF PresetsTyped
<1>8. Rows' \subseteq Rows \cup {p}
  <2>1. presets' \subseteq Rows \cup {p} /\ seen'[r] \cup draft'[r] \subseteq Rows \cup {p}
    BY <1>1, <1>2, <1>6, RowsTyped
  <2>2. QED
    BY <1>2, <1>7, <2>1, RowsAfter
<1>9. Agree(Rows \cup {p})
  <2>1. \A q \in Rows : q.from # r
    BY <1>1, <1>2 DEF DraftOK
  <2>2. \A q \in Rows \cup {p} : SameList(p, q) /\ SameList(q, p)
    BY <1>4, <2>1 DEF SameList
  <2>3. RowOK(p)
    BY <1>4, RequestsAssumption DEF RowOK
  <2>4. QED
    BY <1>2, <2>2, <2>3 DEF Agree
<1>10. DraftOK(r)'
  BY <1>4, <1>6 DEF DraftOK, OneLow
<1>11. OneLow(presets')
  BY <1>1, <1>2
<1>12. QED
  BY <1>4, <1>5, <1>6, <1>7, <1>8, <1>9, <1>10, <1>11, StepKeeps

LEMMA ReplaceInv ==
  ASSUME PresetsInv, stage \in [Requests -> Stages], NEW r \in Requests, Replace(r)
  PROVE  PresetsInv'
<1>1. PresetsTyped /\ Agree(Rows) /\ DraftOK(r) /\ OneLow(presets)
  BY DEF PresetsInv
<1>2. /\ stage[r] = "replacing" /\ UNCHANGED <<seen, draft>>
      /\ \/ stage' = [stage EXCEPT ![r] = "failed"] /\ UNCHANGED presets
         \/ /\ stage' = [stage EXCEPT ![r] = "reading"]
            /\ ~Collide(presets \ seen[r], draft[r])
            /\ presets' = (presets \ seen[r]) \cup draft[r]
  BY DEF Replace, Goto
<1>3. stage'[r] \in {"failed", "reading"} /\ \A q \in Requests \ {r} : stage'[q] = stage[q]
  BY <1>2
<1>4. PresetsTyped'
  BY <1>1, <1>2 DEF PresetsTyped
<1>5. Rows' \subseteq Rows \cup {}
  <2>1. presets' \subseteq Rows /\ seen[r] \subseteq Rows /\ draft[r] \subseteq Rows
    BY <1>1, <1>2, RowsTyped
  <2>2. QED
    BY <1>1, <1>2, <2>1, RowsAfter
<1>6. OneLow(presets')
  BY <1>1, <1>2 DEF OneLow, DraftOK, Collide
<1>7. DraftOK(r)'
  BY <1>1, <1>2, <1>3 DEF DraftOK
<1>8. Agree(Rows \cup {})
  BY <1>1
<1>9. QED
  BY <1>2, <1>3, <1>4, <1>5, <1>6, <1>7, <1>8, StepKeeps

LEMMA ReadPresetsInv ==
  ASSUME PresetsInv, stage \in [Requests -> Stages], NEW r \in Requests, ReadPresets(r)
  PROVE  PresetsInv'
<1>1. PresetsTyped /\ Agree(Rows) /\ DraftOK(r) /\ OneLow(presets)
  BY DEF PresetsInv
<1>2. stage[r] = "reading" /\ UNCHANGED <<presets, seen>>
  BY DEF ReadPresets
<1>3. CASE /\ \E to \in {"seeding", "done"} : stage' = [stage EXCEPT ![r] = to]
           /\ UNCHANGED draft
  <2>1. stage'[r] \in {"seeding", "done"} /\ \A q \in Requests \ {r} : stage'[q] = stage[q]
    BY <1>3
  <2>2. Rows' = Rows /\ PresetsTyped'
    BY <1>1, <1>2, <1>3 DEF Rows, PresetsTyped
  <2>3. DraftOK(r)'
    BY <1>1, <1>3, <2>1 DEF DraftOK
  <2>4. \A q \in Requests \ {r} : DraftOK(q)'
    BY <1>3, <2>1, <2>2 DEF DraftOK, PresetsInv
  <2>5. QED
    BY <1>1, <1>2, <2>2, <2>3, <2>4 DEF PresetsInv
<1>4. CASE /\ IsOld(presets) /\ stage' = [stage EXCEPT ![r] = "repairing"]
           /\ draft' = [draft EXCEPT ![r] = Repaired(presets)]
  <2>1. stage'[r] = "repairing" /\ \A q \in Requests \ {r} : stage'[q] = stage[q]
    BY <1>4
  <2>2. draft'[r] = Repaired(presets) /\ \A q \in Requests \ {r} : draft'[q] = draft[q]
    BY <1>1, <1>4 DEF PresetsTyped
  <2>3. Rows \in SUBSET Presets /\ presets \subseteq Rows /\ seen[r] \subseteq Rows
    BY <1>1, RowsTyped
  <2>4. /\ Rows \cup Repaired(presets) \in SUBSET Presets
        /\ Agree(Rows \cup Repaired(presets))
        /\ \A p \in Repaired(presets) :
             p.zone = "high" /\ (p.from = "defaults" \/ \E o \in presets : p.from = o.from)
    BY <1>1, <2>3, RepairedAgree
  <2>5. PresetsTyped'
    BY <1>1, <1>2, <1>4, <2>4 DEF PresetsTyped
  <2>6. Rows' \subseteq Rows \cup Repaired(presets)
    BY <1>1, <1>2, <2>2, <2>3, RowsAfter
  <2>7. \E q \in Repaired(presets) : q.name = "fixed"
    <3>1. PICK o \in presets : o.name = "legacy"
      BY <1>4 DEF IsOld
    <3>2. Preset("high", o.from, "fixed") \in Repaired(presets)
      BY <3>1 DEF Repaired
    <3>3. QED
      BY <3>2 DEF Preset
  <2>8. DraftOK(r)'
    BY <2>1, <2>2, <2>4, <2>7 DEF DraftOK, OneLow
  <2>9. \A p \in Repaired(presets) :
          p.from \in {r, "defaults"} \/ \E o \in Rows : p.from = o.from
    BY <2>3, <2>4
  <2>10. OneLow(presets')
    BY <1>1, <1>2
  <2>11. QED
    BY <2>1, <2>2, <2>4, <2>5, <2>6, <2>8, <2>9, <2>10, StepKeeps
<1>5. QED
  BY <1>3, <1>4 DEF ReadPresets, Goto

LEMMA SeedInv ==
  ASSUME PresetsInv, stage \in [Requests -> Stages], NEW r \in Requests, Seed(r)
  PROVE  PresetsInv'
<1>1. PresetsTyped /\ Agree(Rows) /\ DraftOK(r) /\ OneLow(presets)
  BY DEF PresetsInv
<1>2. /\ stage[r] = "seeding" /\ UNCHANGED <<seen, draft>>
      /\ presets' \in {presets, presets \cup Defaults}
      /\ \E to \in {"failed", "reading"} : stage' = [stage EXCEPT ![r] = to]
  BY DEF Seed, Goto
<1>3. stage'[r] \in {"failed", "reading"} /\ \A q \in Requests \ {r} : stage'[q] = stage[q]
  BY <1>2
<1>4. /\ Rows \in SUBSET Presets /\ presets \subseteq Rows
      /\ seen[r] \subseteq Rows /\ draft[r] \subseteq Rows
  BY <1>1, RowsTyped
<1>5. Rows \cup Defaults \in SUBSET Presets /\ Agree(Rows \cup Defaults)
  BY <1>1, <1>4, DefaultsAgree
<1>6. PresetsTyped'
  BY <1>1, <1>2, <1>4, <1>5 DEF PresetsTyped
<1>7. Rows' \subseteq Rows \cup Defaults
  <2>1. presets' \subseteq Rows \cup Defaults
    BY <1>2, <1>4
  <2>2. QED
    BY <1>1, <1>2, <1>4, <2>1, RowsAfter
<1>8. \A p \in Defaults : p.from = "defaults" /\ p.zone = "high"
  BY DEF Defaults, Preset
<1>9. OneLow(presets')
  BY <1>1, <1>2, <1>8 DEF OneLow
<1>10. DraftOK(r)'
  BY <1>1, <1>2, <1>3 DEF DraftOK
<1>11. QED
  BY <1>2, <1>3, <1>5, <1>6, <1>7, <1>8, <1>9, <1>10, StepKeeps

LEMMA BeginRepairInv ==
  ASSUME PresetsInv, stage \in [Requests -> Stages], NEW r \in Requests, BeginRepair(r)
  PROVE  PresetsInv'
<1>1. PresetsTyped /\ Agree(Rows) /\ DraftOK(r) /\ OneLow(presets)
  BY DEF PresetsInv
<1>2. /\ stage[r] = "repairing" /\ stage' = [stage EXCEPT ![r] = "replacing"]
      /\ seen' = [seen EXCEPT ![r] = presets] /\ UNCHANGED <<presets, draft>>
  BY DEF BeginRepair, Goto
<1>3. stage'[r] = "replacing" /\ \A q \in Requests \ {r} : stage'[q] = stage[q]
  BY <1>2
<1>4. seen'[r] = presets /\ \A q \in Requests \ {r} : seen'[q] = seen[q]
  BY <1>1, <1>2 DEF PresetsTyped
<1>5. PresetsTyped'
  BY <1>1, <1>2 DEF PresetsTyped
<1>6. Rows' \subseteq Rows \cup {}
  <2>1. presets \subseteq Rows /\ draft[r] \subseteq Rows
    BY <1>1, RowsTyped
  <2>2. QED
    BY <1>1, <1>2, <1>4, <2>1, RowsAfter
<1>7. DraftOK(r)'
  BY <1>1, <1>2, <1>3 DEF DraftOK
<1>8. Agree(Rows \cup {}) /\ OneLow(presets')
  BY <1>1, <1>2
<1>9. QED
  BY <1>2, <1>3, <1>5, <1>6, <1>7, <1>8, StepKeeps


-----------------------------------------------------------------------------
(***************************************************************************)
(* The theorems                                                            *)
(***************************************************************************)
LEMMA InitPresets == Init => PresetsInv
<1> SUFFICES ASSUME Init PROVE PresetsInv
  OBVIOUS
<1>1. Rows = {} /\ PresetsTyped /\ presets = {} /\ \A r \in Requests : draft[r] = {}
  BY DEF Init, Rows, PresetsTyped
<1>2. QED
  BY <1>1 DEF Init, PresetsInv, Agree, OneLow, DraftOK

LEMMA NextPresets == AppliesInv /\ PresetsInv /\ [Next]_vars => PresetsInv'
<1> SUFFICES ASSUME AppliesInv, PresetsInv, [Next]_vars PROVE PresetsInv'
  OBVIOUS
<1>1. AppliesTyped /\ stage \in [Requests -> Stages]
  BY DEF AppliesInv, AppliesTyped
<1> DEFINE Goes == {"checking", "listing", "applying", "reading"} \cup Over
<1>2. CASE /\ UNCHANGED saving
           /\ \/ UNCHANGED stage
              \/ \E r \in Requests, s \in Goes : stage' = [stage EXCEPT ![r] = s]
  <2>1. \A q \in Requests : stage'[q] \in {stage[q]} \cup Goes
    BY <1>1, <1>2
  <2>2. QED
    BY <1>2, <2>1, PresetsStay
<1>3. CASE UNCHANGED vars
  BY <1>2, <1>3 DEF vars
<1>4. CASE \E i \in Instances : Tick(i)
  BY <1>2, <1>4 DEF Tick
<1>5. CASE \E r \in Requests, i \in Instances : LeaveAlone(r, i) \/ Set(r, i)
  BY <1>2, <1>5 DEF LeaveAlone, Set
<1>6. ASSUME NEW r \in Requests, Prepares(r) PROVE PresetsInv'
  <2>1. UNCHANGED saving
    BY <1>1, <1>6, PreparesKeeps
  <2>2. UNCHANGED stage \/ \E s \in Goes : stage' = [stage EXCEPT ![r] = s]
    <3>1. CASE Apply(r)
      BY <3>1 DEF Apply, Accept, Goto
    <3>2. CASE CreateJob(r)
      BY <3>2 DEF CreateJob, Goto, Abandon, Over
    <3>3. CASE StartWorkers(r) \/ Fail(r) \/ Finish(r)
      BY <3>3 DEF StartWorkers, Fail, Finish, Goto, Over
    <3>4. CASE \E i \in Instances : Look(r, i) \/ Refuse(r, i)
      BY <3>4 DEF Look, Refuse, Abandon, Over
    <3>5. CASE \E i \in Instances : List(r, i)
      BY <3>5 DEF List, Abandon, Over
    <3>6. QED
      BY <1>6, <3>1, <3>2, <3>3, <3>4, <3>5 DEF Prepares
  <2>3. QED
    BY <1>2, <2>1, <2>2
<1>7. ASSUME NEW r \in Requests, Saves(r) PROVE PresetsInv'
  <2>1. CASE Status(r)
    BY <1>2, <2>1 DEF Status, Goto
  <2>2. QED
    BY <1>1, <1>7, <2>1, SaveInv, ReplaceInv, ReadPresetsInv, SeedInv, BeginRepairInv DEF Saves
<1>8. QED
  BY <1>3, <1>4, <1>5, <1>6, <1>7, NextIs

LEMMA InvariantHolds == Spec => []IInv
<1>1. Init => IInv
  BY InitApplies, InitPresets DEF IInv
<1>2. IInv /\ [Next]_vars => IInv'
  BY NextApplies, NextPresets DEF IInv
<1>3. QED
  BY <1>1, <1>2, PTL DEF Spec

\* applyBlocking: what the answer, the job and its rows say of a request is true.  A row
\* that reports a success is about a Pi-hole that was as wanted while the request was
\* under way, and is the last one; a job that reports a success, or a failure, has at
\* every Pi-hole a last row that says so; and an answer leaves no worker behind.
THEOREM ReportsAreTrue == Spec => []ReportInv
<1>1. IInv => ReportInv
  <2> SUFFICES ASSUME IInv PROVE ReportInv
    OBVIOUS
  <2>1. AppliesTyped /\ PresetsTyped /\ repeated = {}
    BY DEF IInv, AppliesInv, PresetsInv
  <2>2. \A r \in Requests : StageOK(r) /\ \A i \in Instances : PlaceOK(r, i) /\ MetOK(r, i)
    BY DEF IInv, AppliesInv, HolesOK
  <2>3. TypeOK
    <3>1. \A r \in Requests, i \in Instances :
            rows[r][i] \in Seq(Results) /\ Len(rows[r][i]) <= Attempts
      BY <2>1, <2>2 DEF AppliesTyped, PlaceOK
    <3>2. QED
      BY <2>1, <3>1 DEF AppliesTyped, PresetsTyped, TypeOK, Stages, Places, Statuses
  <2>4. RowsAreTrue
    BY <2>2 DEF MetOK, RowsAreTrue
  <2>5. StatusIsTrue
    <3>1. SUFFICES ASSUME NEW r \in Requests, NEW i \in Instances,
                          job[r] \in {"SUCCESS", "FAILURE"}
                   PROVE  /\ rows[r][i] # <<>>
                          /\ job[r] = "SUCCESS" => i \in met[r] /\ LastRow(r, i) \in {"SUCCESS", "NOOP"}
                          /\ job[r] = "FAILURE" => LastRow(r, i) = "FAILURE"
      BY DEF StatusIsTrue
    <3>2. job[r] = JobStatus(result[r]) /\ pc[r][i] = "settled"
      BY <2>2, <3>1 DEF StageOK
    <3>3. rows[r][i] # <<>> /\ LastRow(r, i) = result[r][i] /\ result[r][i] \in Results
      BY <2>1, <2>2, <3>2 DEF PlaceOK, AppliesTyped
    <3>4. /\ job[r] = "SUCCESS" => result[r][i] \in {"SUCCESS", "NOOP"}
          /\ job[r] = "FAILURE" => result[r][i] = "FAILURE"
      BY <3>2, <3>3 DEF JobStatus, Having, Results
    <3>5. rows[r][i] \in Seq(Results) /\ Len(rows[r][i]) \in DOMAIN rows[r][i]
      BY <2>1, <3>3 DEF AppliesTyped
    <3>6. job[r] = "SUCCESS" => i \in met[r]
      BY <2>2, <3>3, <3>4, <3>5 DEF MetOK, LastRow
    <3>7. QED
      BY <3>3, <3>4, <3>6
  <2>6. AnswerIsFinal
    BY <2>2 DEF StageOK, AnswerIsFinal, Idle, OfPresets
  <2>7. QED
    BY <2>3, <2>4, <2>5, <2>6 DEF ReportInv
<1>2. QED
  BY <1>1, InvariantHolds, PTL

\* applyBlockingToInstance: a retry after a lost answer finds the Pi-hole as wanted and
\* leaves it alone, unless another request or a timer has changed it since.
THEOREM RetriesRepeatNothing == Spec => []NothingIsRepeated
<1>1. IInv => NothingIsRepeated
  BY DEF IInv, AppliesInv, NothingIsRepeated
<1>2. QED
  BY <1>1, InvariantHolds, PTL

\* updateBlockingPresets and readBlockingPresets: the list of presets is never two lists of
\* users, nor twice the same or the defaults, however many transactions overlap.
THEOREM PresetsAreOneList == Spec => []OneListOfPresets
<1>1. IInv => OneListOfPresets
  <2> SUFFICES ASSUME IInv, NEW p \in presets, NEW q \in presets, p.zone = q.zone, p # q
               PROVE  p.zone = "high" /\ p.from # q.from
    BY DEF OneListOfPresets
  <2>1. PresetsTyped /\ Agree(Rows) /\ OneLow(presets)
    BY DEF IInv, PresetsInv
  <2>2. p \in Rows /\ q \in Rows /\ p \in Presets
    BY <2>1, RowsTyped
  <2>3. QED
    BY <2>1, <2>2, RowParts DEF OneLow, Agree, SameList
<1>2. QED
  BY <1>1, InvariantHolds, PTL

\* readBlockingPresets: a row of a preset goes only when a user's list, or a repaired one,
\* takes its place; a reader that found the table empty removes nothing.
THEOREM ReadersRemoveNothing == Spec => ReadersKeepPresets
<1> DEFINE Replaced == \E r \in Requests :
                         /\ stage[r] = "replacing" /\ stage'[r] = "reading"
                         /\ \/ \A q \in draft[r] : q.zone = "low"
                            \/ \E q \in draft[r] : q.name = "fixed"
           Step == \A p \in presets : p \notin presets' => Replaced
<1>1. IInv /\ [Next]_vars => [Step]_vars
  <2> SUFFICES ASSUME IInv, Next PROVE Step
    OBVIOUS
  <2>1. AppliesTyped /\ \A r \in Requests : DraftOK(r)
    BY DEF IInv, AppliesInv, PresetsInv
  <2>2. CASE UNCHANGED presets
    BY <2>2
  <2>3. ASSUME NEW r \in Requests, Saves(r) PROVE Step
    <3>1. CASE Replace(r)
      <4>1. UNCHANGED presets \/ (stage[r] = "replacing" /\ stage'[r] = "reading")
        BY <2>1, <3>1 DEF Replace, Goto, AppliesTyped
      <4>2. QED
        BY <2>1, <2>2, <4>1 DEF DraftOK
    <3>2. CASE Save(r) \/ Status(r) \/ ReadPresets(r) \/ BeginRepair(r)
      BY <2>2, <3>2 DEF Save, Status, ReadPresets, BeginRepair, saving
    <3>3. CASE Seed(r)
      BY <3>3 DEF Seed
    <3>4. QED
      BY <2>3, <3>1, <3>2, <3>3 DEF Saves
  <2>4. ASSUME NEW r \in Requests, Prepares(r) PROVE Step
    <3>1. UNCHANGED presets
      BY <2>1, <2>4, PreparesKeeps DEF saving
    <3>2. QED
      BY <2>2, <3>1
  <2>5. CASE \/ \E i \in Instances : Tick(i)
             \/ \E r \in Requests, i \in Instances : LeaveAlone(r, i) \/ Set(r, i)
    BY <2>2, <2>5 DEF Tick, LeaveAlone, Set, saving
  <2>6. QED
    BY <2>3, <2>4, <2>5, NextIs
<1>2. QED
  BY <1>1, InvariantHolds, PTL DEF Spec, ReadersKeepPresets

-----------------------------------------------------------------------------
(***************************************************************************)
(* ConfigTopics: the inductive invariant                                   *)
(***************************************************************************)
Update == [kind : {"update"}, source : Piholes, next : Sent]
Sync == {o \in [kind : {"sync"}, source : Piholes, targets : SUBSET Piholes] :
           o.source \notin o.targets}

Typed ==
  /\ TopicsTypeOK
  /\ op \in [Askers -> {Nothing} \cup Update \cup Sync]
  /\ snap \in [Askers -> Topic \cup {Missing}]

\* What a request has read and what it has left to do goes with its stage.
Proceeds(r) ==
  /\ step[r] = "idle" => op[r] = Nothing
  /\ step[r] # "idle" => op[r] \in Update \cup Sync
  /\ step[r] = "answering" => Updates(r)
  /\ step[r] = "writing" => snap[r] \in Topic
  /\ step[r] \in {"idle", "reading"} => failed[r] = {}
  /\ Syncs(r) => todo[r] \subseteq op[r].targets
  /\ step[r] = "reading" /\ Syncs(r) => todo[r] = op[r].targets

\* Every Pi-hole and every user has the item, or none has.
WantedByAll(x) ==
  /\ \A i \in Piholes : x \in first[i].array
  /\ \A r \in Askers : SendsArray(r) => x \in op[r].next.array

UnwantedByAll(x) ==
  /\ \A i \in Piholes : x \notin first[i].array
  /\ \A r \in Askers : SendsArray(r) => x \notin op[r].next.array

\* What is common to all has been read by all.
CommonsAreRead ==
  \A x \in Items :
    /\ WantedByAll(x) => \A r \in Askers : step[r] = "writing" => x \in snap[r].array
    /\ UnwantedByAll(x) => \A r \in Askers : step[r] = "writing" => x \notin snap[r].array

\* Nothing is copied to the Pi-hole that a request saves.
Updating(r) == Updates(r) /\ Copiers(op[r].source) = {}

Has(t, x) == x \in t.array

\* All who save the array at the same Pi-hole agree on the item, on the field.
ItemAgreed(r, x) ==
  /\ SendsArray(r)
  /\ \A q \in Savers(op[r].source) :
       SendsArray(q) => (Has(op[q].next, x) <=> Has(op[r].next, x))

FieldAgreed(r, f) ==
  /\ f \in Given(op[r].next)
  /\ \A q \in Savers(op[r].source) :
       f \in Given(op[q].next) => op[q].next.value[f] = op[r].next.value[f]

\* What a save need not send, because it was read so, and what it has sent is so.
ItemIsThere(r, x) ==
  (step[r] \in {"answering", "success"}
     \/ (step[r] = "writing" /\ (Has(snap[r], x) <=> Has(op[r].next, x))))
  => (Has(config[op[r].source], x) <=> Has(op[r].next, x))

FieldIsThere(r, f) ==
  (step[r] \in {"answering", "success"}
     \/ (step[r] = "writing" /\ snap[r].value[f] = op[r].next.value[f]))
  => config[op[r].source].value[f] = op[r].next.value[f]

Survives(r) ==
  Updating(r) =>
    /\ \A x \in Items : ItemAgreed(r, x) => ItemIsThere(r, x)
    /\ \A f \in Fields : FieldAgreed(r, f) => FieldIsThere(r, f)

\* A copy that nobody interferes with: the source is as it was read, and the targets
\* it is over with are like it.
Copies(r) ==
  quiet[r] /\ Syncs(r) /\ step[r] = "writing" =>
    /\ config[op[r].source] = snap[r]
    /\ \A i \in op[r].targets \ (todo[r] \cup failed[r]) : config[i] = snap[r]

TopicsInv ==
  /\ Typed
  /\ \A r \in Askers : Proceeds(r) /\ Survives(r) /\ Copies(r)
  /\ CommonItemsStay /\ CommonsAreRead

-----------------------------------------------------------------------------
(***************************************************************************)
(* What is sent, and what it makes of a topic                              *)
(***************************************************************************)
LEMMA DiffShape ==
  ASSUME NEW old \in Topic, NEW next \in Sent, NEW d, d = Diff(old, next)
  PROVE  /\ next.array # Missing => /\ d.remove = old.array \ next.array
                                    /\ d.add = next.array \ old.array
                                    /\ next.array \in SUBSET Items
         /\ next.array = Missing => d.remove = {} /\ d.add = {}
         /\ d.patch \subseteq Given(next)
         /\ \A f \in Given(next) \ d.patch : next.value[f] = old.value[f]
BY MissingAssumption DEF Diff, Topic, Sent, Given

\* What is done of a difference
Part(e, d) == e.remove \subseteq d.remove /\ e.add \subseteq d.add /\ e.patch \subseteq d.patch

LEMMA HalfIsPart == \A d : \A e \in HalfWay(d) : Part(e, d)
BY DEF HalfWay, Part

LEMMA AppliedTopic ==
  ASSUME NEW old \in Topic, NEW next \in Sent, NEW t \in Topic, NEW e,
         Part(e, Diff(old, next))
  PROVE  /\ Applied(e, next, t) \in Topic
         /\ \A x : Has(Applied(e, next, t), x) <=>
                    (Has(t, x) /\ x \notin e.remove) \/ x \in e.add
         /\ \A f \in Fields : Applied(e, next, t).value[f] =
                             IF f \in e.patch THEN next.value[f] ELSE t.value[f]
<1> DEFINE d == Diff(old, next)
<1>1. e.remove \subseteq d.remove /\ e.add \subseteq Items /\ e.patch \subseteq Given(next)
  BY DiffShape DEF Part
<1>2. \A f \in Given(next) : next.value[f] \in Values
  BY MissingAssumption DEF Given, Sent
<1>3. [f \in Fields |-> IF f \in e.patch THEN next.value[f] ELSE t.value[f]] \in [Fields -> Values]
  BY <1>1, <1>2 DEF Topic
<1>4. (t.array \ e.remove) \cup e.add \in SUBSET Items
  BY <1>1 DEF Topic
<1>5. QED
  BY <1>3, <1>4 DEF Applied, Topic, Has

LeavesPart(r) ==
  \E e : /\ Part(e, Diff(snap[r], op[r].next))
         /\ step'[r] = "answering" => e = Diff(snap[r], op[r].next)
         /\ Put(r, op[r].source, Applied(e, op[r].next, config[op[r].source]))

\* A request that saves leaves the Pi-hole with a part of its difference, or all of it.
LEMMA SaveLeaves ==
  ASSUME Typed, NEW r \in Askers, Proceeds(r), SaveTopic(r) \/ SaveFails(r)
  PROVE  /\ op[r] \in Update /\ snap[r] \in Topic /\ step[r] = "writing"
         /\ step' = [step EXCEPT ![r] = step'[r]] /\ step'[r] \in {"answering", "error"}
         /\ snap' = [snap EXCEPT ![r] = Missing] /\ todo' = [todo EXCEPT ![r] = {}]
         /\ op' = op /\ failed' = failed /\ first' = first
         /\ LeavesPart(r)
<1> DEFINE i == op[r].source
           d == Diff(snap[r], op[r].next)
<1>1. op[r] \in Update /\ snap[r] \in Topic /\ step[r] = "writing"
  BY DEF SaveTopic, SaveFails, Proceeds, Updates, Update, Sync
<1>2. CASE SaveTopic(r) /\ Smooth(d, config[i])
  <2>1. Put(r, i, Applied(d, op[r].next, config[i])) /\ Ends(r, "answering") /\ failed' = failed
    BY <1>2 DEF SaveTopic
  <2>2. Part(d, d)
    BY DEF Part
  <2>3. QED
    BY <1>1, <2>1, <2>2 DEF LeavesPart, Ends, Put, Typed, TopicsTypeOK
<1>3. CASE SaveTopic(r) /\ ~Smooth(d, config[i])
  <2>1. PICK e \in HalfWay(d) :
          Put(r, i, Applied(e, op[r].next, config[i])) /\ Ends(r, "error") /\ failed' = failed
    BY <1>3 DEF SaveTopic
  <2>2. QED
    BY <1>1, <2>1, HalfIsPart DEF LeavesPart, Ends, Put, Typed, TopicsTypeOK
<1>4. CASE SaveFails(r)
  <2>1. PICK e \in HalfWay(d) :
          Put(r, i, Applied(e, op[r].next, config[i])) /\ Ends(r, "error") /\ failed' = failed
    BY <1>4 DEF SaveFails
  <2>2. QED
    BY <1>1, <2>1, HalfIsPart DEF LeavesPart, Ends, Put, Typed, TopicsTypeOK
<1>5. QED
  BY <1>2, <1>3, <1>4

\* A request that copies gives a target the topic it has read, or nothing.
LEMMA CopyLeaves ==
  ASSUME Typed, NEW r \in Askers, Proceeds(r), NEW i \in Piholes,
         SyncTo(r, i) \/ SyncFails(r, i)
  PROVE  /\ op[r] \in Sync /\ snap[r] \in Topic /\ step[r] = "writing" /\ i \in todo[r]
         /\ op' = op /\ first' = first
         /\ \/ failed' = failed /\ Put(r, i, snap[r])
            \/ /\ failed' = [failed EXCEPT ![r] = @ \cup {i}]
               /\ Put(r, i, snap[r]) \/ Put(r, i, config[i])
         /\ \/ /\ todo[r] = {i} /\ Ends(r, IF failed'[r] = {} THEN "success" ELSE "partial")
            \/ /\ todo' = [todo EXCEPT ![r] = @ \ {i}] /\ step' = step /\ snap' = snap
<1>1. PICK ok \in BOOLEAN, t \in {config[i], snap[r]} :
        Copy(r, i, ok, t) /\ (ok => t = snap[r])
  BY DEF SyncTo, SyncFails, Copied
<1>2. op[r] \in Sync /\ snap[r] \in Topic /\ step[r] = "writing" /\ i \in todo[r]
  BY <1>1 DEF Copy, Proceeds, Syncs, Update, Sync
<1>3. Put(r, i, t) /\ op' = op /\ first' = first
  BY <1>1 DEF Copy, Put
<1>4. \/ ok /\ failed' = failed
      \/ ~ok /\ failed' = [failed EXCEPT ![r] = @ \cup {i}]
  BY <1>1 DEF Copy
<1>5. \/ todo[r] = {i} /\ Ends(r, IF failed'[r] = {} THEN "success" ELSE "partial")
      \/ todo' = [todo EXCEPT ![r] = @ \ {i}] /\ step' = step /\ snap' = snap
  BY <1>1 DEF Copy
<1>6. t = snap[r] \/ t = config[i]
  OBVIOUS
<1>7. QED
  BY <1>1, <1>2, <1>3, <1>4, <1>5, <1>6

-----------------------------------------------------------------------------
(***************************************************************************)
(* The steps                                                               *)
(***************************************************************************)
Asks(r) ==
  \E what \in Update \cup Sync, pending \in SUBSET Piholes :
    /\ what \in Sync => pending = what.targets
    /\ Ask(r, what, pending)

LEMMA AsksTyped ==
  ASSUME NEW r \in Askers, UpdateTopic(r) \/ SyncTopic(r)
  PROVE  Asks(r)
<1>1. CASE UpdateTopic(r)
  <2>1. PICK what \in Update : Ask(r, what, {what.source})
    BY <1>1 DEF UpdateTopic, Update
  <2>2. what \notin Sync /\ {what.source} \in SUBSET Piholes
    BY DEF Update, Sync
  <2>3. QED
    BY <2>1, <2>2 DEF Asks
<1>2. CASE SyncTopic(r)
  BY <1>2 DEF SyncTopic, Sync, Asks
<1>3. QED
  BY <1>1, <1>2

\* What a request does, as the proofs tell the steps apart
Acts(r) ==
  \/ Asks(r) \/ ReadFails(r) \/ Read(r) \/ Answer(r)
  \/ SaveTopic(r) \/ SaveFails(r)
  \/ \E i \in Piholes : SyncTo(r, i) \/ SyncFails(r, i)

LEMMA NextActs ==
  ASSUME NextTopics
  PROVE  \E r \in Askers : Acts(r)
BY AsksTyped DEF NextTopics, Acts

\* The other requests stay where they are.
LEMMA OthersStay ==
  ASSUME Typed, NEW r \in Askers, Acts(r), NEW q \in Askers, q # r
  PROVE  /\ op'[q] = op[q] /\ step'[q] = step[q] /\ snap'[q] = snap[q]
         /\ todo'[q] = todo[q] /\ failed'[q] = failed[q]
<1> USE DEF Typed, TopicsTypeOK
<1>1. CASE Asks(r)
  BY <1>1 DEF Asks, Ask
<1>2. CASE ReadFails(r) \/ Read(r) \/ Answer(r)
  BY <1>2 DEF ReadFails, Read, Answer, Ends
<1>3. CASE SaveTopic(r) \/ SaveFails(r)
  BY <1>3 DEF SaveTopic, SaveFails, Ends, Put
<1>4. ASSUME NEW i \in Piholes, SyncTo(r, i) \/ SyncFails(r, i)
      PROVE  /\ op'[q] = op[q] /\ step'[q] = step[q] /\ snap'[q] = snap[q]
             /\ todo'[q] = todo[q] /\ failed'[q] = failed[q]
  BY <1>4 DEF SyncTo, SyncFails, Copy, Ends, Put
<1>5. QED
  BY <1>1, <1>2, <1>3, <1>4 DEF Acts

\* What a request asks for is decided once.
LEMMA AsksOnce ==
  ASSUME Typed, NEW r \in Askers, Acts(r)
  PROVE  /\ first' = first
         /\ step[r] # "idle" => op' = op
         /\ step[r] = "idle" => /\ Asks(r) /\ config' = config /\ op'[r] \in Update \cup Sync
                                /\ step'[r] = "reading" /\ failed' = failed /\ quiet' = quiet
                                /\ op'[r] \in Sync => todo'[r] = op'[r].targets
<1> USE DEF Typed, TopicsTypeOK
<1>1. CASE Asks(r)
  BY <1>1 DEF Asks, Ask
<1>2. CASE ReadFails(r) \/ Read(r) \/ Answer(r)
  BY <1>2 DEF ReadFails, Read, Answer
<1>3. CASE SaveTopic(r) \/ SaveFails(r)
  BY <1>3 DEF SaveTopic, SaveFails, Put
<1>4. ASSUME NEW i \in Piholes, SyncTo(r, i) \/ SyncFails(r, i)
      PROVE  first' = first /\ op' = op /\ step[r] = "writing"
  BY <1>4 DEF SyncTo, SyncFails, Copy, Put
<1>5. QED
  BY <1>1, <1>2, <1>3, <1>4 DEF Acts

LEMMA PutTyped ==
  ASSUME Typed, NEW r \in Askers, NEW i \in Piholes, NEW t \in Topic, Put(r, i, t)
  PROVE  config' \in [Piholes -> Topic] /\ quiet' \in [Askers -> BOOLEAN]
BY DEF Typed, TopicsTypeOK, Put

LEMMA TopicsStayTyped ==
  ASSUME Typed, NEW r \in Askers, Proceeds(r), Acts(r)
  PROVE  Typed'
<1> USE DEF Typed, TopicsTypeOK
<1>1. CASE Asks(r)
  BY <1>1 DEF Asks, Ask
<1>2. CASE ReadFails(r)
  BY <1>2 DEF ReadFails, Ends
<1>3. CASE Read(r)
  <2>1. op[r] \in Update \cup Sync
    BY <1>3 DEF Read, Proceeds
  <2>2. op[r].source \in Piholes
    BY <2>1 DEF Update, Sync
  <2>3. QED
    BY <1>3, <2>2 DEF Read
<1>4. CASE Answer(r)
  BY <1>4 DEF Answer, Ends
<1>5. CASE SaveTopic(r) \/ SaveFails(r)
  <2> DEFINE i == op[r].source
  <2>1. op[r] \in Update /\ snap[r] \in Topic /\ LeavesPart(r)
    BY <1>5, SaveLeaves
  <2>2. PICK e : /\ Part(e, Diff(snap[r], op[r].next))
                 /\ Put(r, i, Applied(e, op[r].next, config[i]))
    BY <2>1 DEF LeavesPart
  <2>3. i \in Piholes /\ op[r].next \in Sent /\ config[i] \in Topic
    BY <2>1 DEF Update
  <2>4. Applied(e, op[r].next, config[i]) \in Topic
    BY <2>1, <2>2, <2>3, AppliedTopic
  <2>5. config' \in [Piholes -> Topic] /\ quiet' \in [Askers -> BOOLEAN]
    BY <2>2, <2>3, <2>4, PutTyped
  <2>6. faults' = faults \/ (faults < MaxFaults /\ faults' = faults + 1)
    BY <1>5 DEF SaveTopic, SaveFails, Fault
  <2>7. QED
    BY <1>5, <2>5, <2>6, SaveLeaves, FaultsAssumption
<1>6. ASSUME NEW i \in Piholes, SyncTo(r, i) \/ SyncFails(r, i)
      PROVE  Typed'
  <2>1. faults' = faults \/ (faults < MaxFaults /\ faults' = faults + 1)
    BY <1>6 DEF SyncTo, SyncFails, Fault
  <2>2. snap[r] \in Topic /\ op' = op /\ first' = first
        /\ (Put(r, i, snap[r]) \/ Put(r, i, config[i]))
        /\ (failed' = failed \/ failed' = [failed EXCEPT ![r] = @ \cup {i}])
    BY <1>6, CopyLeaves
  <2>3. config' \in [Piholes -> Topic] /\ quiet' \in [Askers -> BOOLEAN]
    BY <2>2, PutTyped
  <2>4. step' \in [Askers ->
          {"idle", "reading", "writing", "answering", "success", "partial", "error"}]
        /\ todo' \in [Askers -> SUBSET Piholes]
        /\ snap' \in [Askers -> Topic \cup {Missing}]
    BY <1>6, CopyLeaves DEF Ends
  <2>5. QED
    BY <2>1, <2>2, <2>3, <2>4, FaultsAssumption
<1>7. QED
  BY <1>1, <1>2, <1>3, <1>4, <1>5, <1>6 DEF Acts

LEMMA StepProceeds ==
  ASSUME Typed, \A q \in Askers : Proceeds(q), NEW r \in Askers, Acts(r),
         NEW q \in Askers
  PROVE  Proceeds(q)'
<1> USE DEF Typed, TopicsTypeOK
<1>1. CASE q # r
  BY <1>1, OthersStay DEF Proceeds, Updates, Syncs
<1>2. CASE q = r
  <2> SUFFICES Proceeds(r)'
    BY <1>2
  <2>1. CASE Asks(r)
    <3>1. step[r] = "idle"
      BY <2>1 DEF Asks, Ask
    <3>2. op'[r] \in Update \cup Sync /\ step'[r] = "reading" /\ failed' = failed
          /\ (op'[r] \in Sync => todo'[r] = op'[r].targets)
      BY <3>1, AsksOnce
    <3>3. failed[r] = {}
      BY <3>1 DEF Proceeds
    <3>4. Syncs(r)' => op'[r] \in Sync
      BY <3>2 DEF Syncs, Update, Sync
    <3>5. QED
      BY <3>2, <3>3, <3>4 DEF Proceeds
  <2>2. CASE ReadFails(r)
    BY <2>2 DEF ReadFails, Ends, Proceeds, Syncs
  <2>3. CASE Read(r)
    <3>1. op[r] \in Update \cup Sync
      BY <2>3 DEF Read, Proceeds
    <3>2. op[r].source \in Piholes
      BY <3>1 DEF Update, Sync
    <3>3. QED
      BY <2>3, <3>1, <3>2 DEF Read, Proceeds, Syncs
  <2>4. CASE Answer(r)
    BY <2>4 DEF Answer, Ends, Proceeds, Syncs
  <2>5. CASE SaveTopic(r) \/ SaveFails(r)
    BY <2>5, SaveLeaves DEF Proceeds, Updates, Syncs, Update
  <2>6. ASSUME NEW i \in Piholes, SyncTo(r, i) \/ SyncFails(r, i)
        PROVE  Proceeds(r)'
    <3>1. op' = op /\ op[r] \in Sync /\ snap[r] \in Topic /\ step[r] = "writing"
      BY <2>6, CopyLeaves
    <3>2. step'[r] \in {"success", "partial"} \/ (step'[r] = "writing" /\ snap'[r] = snap[r])
      BY <2>6, <3>1, CopyLeaves DEF Ends
    <3>3. todo'[r] \subseteq todo[r]
      BY <2>6, CopyLeaves DEF Ends
    <3>4. QED
      BY <3>1, <3>2, <3>3 DEF Proceeds, Syncs
  <2>7. QED
    BY <2>1, <2>2, <2>3, <2>4, <2>5, <2>6 DEF Acts
<1>3. QED
  BY <1>1, <1>2

\* A topic after a step is as before, or one that a save has changed in part, or one
\* that a copy has replaced.
SavesAt(r, i) ==
  /\ op[r] \in Update /\ snap[r] \in Topic /\ step[r] = "writing" /\ op[r].source = i
  /\ \E e : /\ Part(e, Diff(snap[r], op[r].next))
            /\ step'[r] = "answering" => e = Diff(snap[r], op[r].next)
            /\ config'[i] = Applied(e, op[r].next, config[i])

CopiesAt(r, i) ==
  /\ op[r] \in Sync /\ snap[r] \in Topic /\ step[r] = "writing"
  /\ i \in todo[r] /\ config'[i] = snap[r]

LEMMA TopicAfter ==
  ASSUME Typed, NEW r \in Askers, Proceeds(r), Acts(r), NEW i \in Piholes
  PROVE  config'[i] = config[i] \/ SavesAt(r, i) \/ CopiesAt(r, i)
<1> USE DEF Typed, TopicsTypeOK
<1>1. CASE Asks(r) \/ ReadFails(r) \/ Read(r) \/ Answer(r)
  BY <1>1 DEF Asks, Ask, ReadFails, Read, Answer
<1>2. CASE SaveTopic(r) \/ SaveFails(r)
  <2>1. op[r] \in Update /\ snap[r] \in Topic /\ step[r] = "writing" /\ LeavesPart(r)
    BY <1>2, SaveLeaves
  <2>2. PICK e : /\ Part(e, Diff(snap[r], op[r].next))
                 /\ step'[r] = "answering" => e = Diff(snap[r], op[r].next)
                 /\ Put(r, op[r].source, Applied(e, op[r].next, config[op[r].source]))
    BY <2>1 DEF LeavesPart
  <2>3. CASE op[r].source # i
    BY <2>2, <2>3 DEF Put
  <2>4. CASE op[r].source = i
    <3>1. config'[i] = Applied(e, op[r].next, config[i])
      BY <2>2, <2>4 DEF Put
    <3>2. QED
      BY <2>1, <2>2, <2>4, <3>1 DEF SavesAt
  <2>5. QED
    BY <2>3, <2>4
<1>3. ASSUME NEW j \in Piholes, SyncTo(r, j) \/ SyncFails(r, j)
      PROVE  config'[i] = config[i] \/ CopiesAt(r, i)
  <2>1. Put(r, j, snap[r]) \/ Put(r, j, config[j])
    BY <1>3, CopyLeaves
  <2>2. op[r] \in Sync /\ snap[r] \in Topic /\ step[r] = "writing" /\ j \in todo[r]
    BY <1>3, CopyLeaves
  <2>3. QED
    BY <2>1, <2>2 DEF Put, CopiesAt
<1>4. QED
  BY <1>1, <1>2, <1>3 DEF Acts

\* Read is the only step after which a request has something in hand that it had not.
LEMMA SnapAfter ==
  ASSUME Typed, NEW r \in Askers, Proceeds(r), Acts(r), NEW q \in Askers,
         step'[q] = "writing"
  PROVE  \/ /\ step[q] = "writing" /\ snap'[q] = snap[q]
         \/ /\ q = r /\ Read(r) /\ snap'[q] = config[op[r].source]
            /\ op[r].source \in Piholes
<1> USE DEF Typed, TopicsTypeOK
<1>1. CASE q # r
  BY <1>1, OthersStay
<1>2. CASE q = r /\ (Asks(r) \/ ReadFails(r) \/ Answer(r))
  BY <1>2 DEF Asks, Ask, ReadFails, Answer, Ends
<1>3. CASE q = r /\ Read(r)
  <2>1. op[r] \in Update \cup Sync
    BY <1>3 DEF Read, Proceeds
  <2>2. op[r].source \in Piholes
    BY <2>1 DEF Update, Sync
  <2>3. QED
    BY <1>3, <2>2 DEF Read
<1>4. CASE q = r /\ (SaveTopic(r) \/ SaveFails(r))
  BY <1>4, SaveLeaves
<1>5. ASSUME q = r, NEW i \in Piholes, SyncTo(r, i) \/ SyncFails(r, i)
      PROVE  step[q] = "writing" /\ snap'[q] = snap[q]
  BY <1>5, CopyLeaves DEF Ends
<1>6. QED
  BY <1>1, <1>2, <1>3, <1>4, <1>5 DEF Acts

\* Where a save of the array ends it is as wanted, and on its way there nothing that
\* is as wanted is touched.
LEMMA ItemMoves ==
  ASSUME Typed, NEW r \in Askers, NEW i \in Piholes, SavesAt(r, i), NEW x
  PROVE  /\ SendsArray(r) /\ Has(op[r].next, x) /\ Has(config[i], x) => Has(config'[i], x)
         /\ SendsArray(r) /\ ~Has(op[r].next, x) /\ ~Has(config[i], x) => ~Has(config'[i], x)
         /\ ~SendsArray(r) => (Has(config'[i], x) <=> Has(config[i], x))
         /\ /\ step'[r] = "answering" /\ SendsArray(r)
            /\ ~(Has(snap[r], x) <=> Has(op[r].next, x))
            => (Has(config'[i], x) <=> Has(op[r].next, x))
<1> DEFINE d == Diff(snap[r], op[r].next)
<1>1. PICK e : /\ Part(e, d)
               /\ step'[r] = "answering" => e = d
               /\ config'[i] = Applied(e, op[r].next, config[i])
  BY DEF SavesAt
<1>2. op[r].next \in Sent /\ snap[r] \in Topic /\ config[i] \in Topic /\ Updates(r)
  BY DEF SavesAt, Update, Updates, Typed, TopicsTypeOK
<1>3. Has(config'[i], x) <=> (Has(config[i], x) /\ x \notin e.remove) \/ x \in e.add
  BY <1>1, <1>2, AppliedTopic
<1>4. /\ op[r].next.array # Missing => /\ d.remove = snap[r].array \ op[r].next.array
                                       /\ d.add = op[r].next.array \ snap[r].array
      /\ op[r].next.array = Missing => d.remove = {} /\ d.add = {}
  BY <1>2, DiffShape
<1>5. e.remove \subseteq d.remove /\ e.add \subseteq d.add
  BY <1>1 DEF Part
<1>6. SendsArray(r) <=> op[r].next.array # Missing
  BY <1>2 DEF SendsArray
<1> HIDE DEF d
<1>7. QED
  BY <1>1, <1>3, <1>4, <1>5, <1>6 DEF Has

LEMMA FieldMoves ==
  ASSUME Typed, NEW r \in Askers, NEW i \in Piholes, SavesAt(r, i), NEW f \in Fields
  PROVE  /\ f \notin Given(op[r].next) => config'[i].value[f] = config[i].value[f]
         /\ config'[i].value[f] = config[i].value[f] \/ config'[i].value[f] = op[r].next.value[f]
         /\ /\ step'[r] = "answering" /\ f \in Given(op[r].next)
            /\ snap[r].value[f] # op[r].next.value[f]
            => config'[i].value[f] = op[r].next.value[f]
<1> DEFINE d == Diff(snap[r], op[r].next)
<1>1. PICK e : /\ Part(e, d)
               /\ step'[r] = "answering" => e = d
               /\ config'[i] = Applied(e, op[r].next, config[i])
  BY DEF SavesAt
<1>2. op[r].next \in Sent /\ snap[r] \in Topic /\ config[i] \in Topic
  BY DEF SavesAt, Update, Typed, TopicsTypeOK
<1>3. config'[i].value[f] = IF f \in e.patch THEN op[r].next.value[f] ELSE config[i].value[f]
  BY <1>1, <1>2, AppliedTopic
<1>4. /\ d.patch \subseteq Given(op[r].next)
      /\ \A g \in Given(op[r].next) \ d.patch : op[r].next.value[g] = snap[r].value[g]
  BY <1>2, DiffShape
<1>5. e.patch \subseteq d.patch
  BY <1>1 DEF Part
<1> HIDE DEF d
<1>6. QED
  BY <1>1, <1>3, <1>4, <1>5

-----------------------------------------------------------------------------
(***************************************************************************)
(* What is common to all stays                                             *)
(***************************************************************************)
Commons == CommonItemsStay /\ CommonsAreRead

\* Who is asked for an item now was so before.
LEMMA WantedBefore ==
  ASSUME Typed, NEW r \in Askers, Proceeds(r), Acts(r), NEW x \in Items
  PROVE  WantedByAll(x)' => WantedByAll(x) /\ (SendsArray(r) => x \in op[r].next.array)
<1>1. \A q \in Askers \ {r} : op'[q] = op[q]
  BY OthersStay
<1>2. first' = first /\ (op'[r] = op[r] \/ op[r] = Nothing)
  BY AsksOnce DEF Proceeds
<1>3. QED
  BY <1>1, <1>2 DEF WantedByAll, SendsArray, Updates, Nothing

LEMMA UnwantedBefore ==
  ASSUME Typed, NEW r \in Askers, Proceeds(r), Acts(r), NEW x \in Items
  PROVE  UnwantedByAll(x)' => UnwantedByAll(x) /\ (SendsArray(r) => x \notin op[r].next.array)
<1>1. \A q \in Askers \ {r} : op'[q] = op[q]
  BY OthersStay
<1>2. first' = first /\ (op'[r] = op[r] \/ op[r] = Nothing)
  BY AsksOnce DEF Proceeds
<1>3. QED
  BY <1>1, <1>2 DEF UnwantedByAll, SendsArray, Updates, Nothing

LEMMA WantedStays ==
  ASSUME Typed, NEW r \in Askers, Proceeds(r), Acts(r), Commons, NEW x \in Items, WantedByAll(x)',
         NEW i \in Piholes
  PROVE  x \in config'[i].array
<1>1. WantedByAll(x) /\ (SendsArray(r) => x \in op[r].next.array) /\ x \in config[i].array
      /\ (step[r] = "writing" => x \in snap[r].array)
  BY WantedBefore DEF Commons, CommonItemsStay, CommonsAreRead, WantedByAll
<1>2. ASSUME SavesAt(r, i) PROVE x \in config'[i].array
  BY <1>1, <1>2, ItemMoves DEF SavesAt, Updates, SendsArray, Update, Has
<1>3. ASSUME CopiesAt(r, i) PROVE x \in config'[i].array
  BY <1>1, <1>3 DEF CopiesAt
<1>4. QED
  BY <1>1, <1>2, <1>3, TopicAfter

LEMMA UnwantedStays ==
  ASSUME Typed, NEW r \in Askers, Proceeds(r), Acts(r), Commons, NEW x \in Items, UnwantedByAll(x)',
         NEW i \in Piholes
  PROVE  x \notin config'[i].array
<1>1. UnwantedByAll(x) /\ (SendsArray(r) => x \notin op[r].next.array) /\ x \notin config[i].array
      /\ (step[r] = "writing" => x \notin snap[r].array)
  BY UnwantedBefore DEF Commons, CommonItemsStay, CommonsAreRead, UnwantedByAll
<1>2. ASSUME SavesAt(r, i) PROVE x \notin config'[i].array
  BY <1>1, <1>2, ItemMoves DEF SavesAt, Updates, SendsArray, Update, Has
<1>3. ASSUME CopiesAt(r, i) PROVE x \notin config'[i].array
  BY <1>1, <1>3 DEF CopiesAt
<1>4. QED
  BY <1>1, <1>2, <1>3, TopicAfter

LEMMA StepCommons ==
  ASSUME Typed, NEW r \in Askers, Proceeds(r), Acts(r), Commons
  PROVE  Commons'
<1>1. CommonItemsStay'
  BY WantedStays, UnwantedStays DEF CommonItemsStay, WantedByAll, UnwantedByAll, SendsArray, Updates
<1>2. ASSUME NEW x \in Items, NEW q \in Askers, step'[q] = "writing"
      PROVE  /\ WantedByAll(x)' => x \in snap'[q].array
             /\ UnwantedByAll(x)' => x \notin snap'[q].array
  <2>1. WantedByAll(x)' => WantedByAll(x)
    BY WantedBefore
  <2>2. UnwantedByAll(x)' => UnwantedByAll(x)
    BY UnwantedBefore
  <2>3. QED
    BY <1>2, <2>1, <2>2, SnapAfter
       DEF Commons, CommonItemsStay, CommonsAreRead, WantedByAll, UnwantedByAll
<1>3. QED
  BY <1>1, <1>2 DEF Commons, CommonsAreRead

-----------------------------------------------------------------------------
(***************************************************************************)
(* What the users agree on survives                                        *)
(***************************************************************************)
\* The requests of a step are those before it, and perhaps one more.
LEMMA SameOps ==
  ASSUME Typed, NEW r \in Askers, Proceeds(r), Acts(r), NEW q \in Askers
  PROVE  op'[q] = op[q] \/ op[q] = Nothing
BY OthersStay, AsksOnce DEF Proceeds

\* A request that is past its beginning asks for what it asked for before, and what
\* others agree on with it, they agreed on before.
LEMMA AgreedBefore ==
  ASSUME Typed, \A q \in Askers : Proceeds(q), NEW r \in Askers, Acts(r),
         NEW q \in Askers, step'[q] \in {"writing", "answering", "success"}, Updating(q)'
  PROVE  /\ step[q] # "idle" /\ op'[q] = op[q] /\ op[q] \in Update /\ Updating(q)
         /\ \A x : ItemAgreed(q, x)' => ItemAgreed(q, x)
         /\ \A f : FieldAgreed(q, f)' => FieldAgreed(q, f)
<1>1. step[q] # "idle" /\ op'[q] = op[q]
  BY OthersStay, AsksOnce
<1>2. op[q] \in Update /\ op[q].source \in Piholes
  BY <1>1 DEF Updating, Updates, Proceeds, Update, Sync
<1>3. \A p \in Askers : op'[p] = op[p] \/ op[p] = Nothing
  BY SameOps
<1>4. Copiers(op[q].source) \subseteq Copiers(op[q].source)'
  BY <1>1, <1>3 DEF Copiers, Syncs, Nothing
<1>5. \A p \in Savers(op[q].source) : op'[p] = op[p] /\ p \in Savers(op[q].source)'
  BY <1>1, <1>3 DEF Savers, Updates, Nothing
<1>6. Updating(q)
  BY <1>1, <1>4 DEF Updating, Updates
<1>7. ASSUME NEW x, ItemAgreed(q, x)' PROVE ItemAgreed(q, x)
  BY <1>1, <1>5, <1>7 DEF ItemAgreed, SendsArray, Updates
<1>8. ASSUME NEW f, FieldAgreed(q, f)' PROVE FieldAgreed(q, f)
  BY <1>1, <1>5, <1>8 DEF FieldAgreed, Given
<1>9. QED
  BY <1>1, <1>2, <1>6, <1>7, <1>8

\* The Pi-hole of a request that saves is changed by saves only.
LEMMA NobodyCopies ==
  ASSUME Typed, NEW r \in Askers, Proceeds(r), NEW q \in Askers, Updating(q)
  PROVE  ~CopiesAt(r, op[q].source)
BY DEF Updating, Copiers, CopiesAt, Proceeds, Syncs, Sync

\* How a request gets to where it counts on an item or a field.
LEMMA StagesBefore ==
  ASSUME Typed, NEW r \in Askers, Proceeds(r), Acts(r), NEW q \in Askers, op[q] \in Update,
         op[q].source \in Piholes,
         step'[q] \in {"writing", "answering", "success"}
  PROVE  \/ step'[q] = "writing" /\ step[q] = "writing" /\ snap'[q] = snap[q] /\ q # r
         \/ step'[q] = "writing" /\ snap'[q] = config[op[q].source] /\ config' = config
         \/ step'[q] \in {"answering", "success"} /\ step[q] \in {"answering", "success"}
            /\ (q # r \/ config' = config)
         \/ q = r /\ step[q] = "writing" /\ step'[q] = "answering" /\ SavesAt(r, op[q].source)
<1> USE DEF Typed, TopicsTypeOK
<1>1. CASE q # r
  BY <1>1, OthersStay
<1>2. CASE q = r /\ (Asks(r) \/ ReadFails(r))
  BY <1>2 DEF Asks, Ask, ReadFails, Ends
<1>3. CASE q = r /\ Read(r)
  BY <1>3 DEF Read
<1>4. CASE q = r /\ Answer(r)
  BY <1>4 DEF Answer, Ends
<1>5. CASE q = r /\ (SaveTopic(r) \/ SaveFails(r))
  <2>1. /\ snap[r] \in Topic /\ step[r] = "writing" /\ LeavesPart(r)
        /\ step'[r] \in {"answering", "error"}
    BY <1>5, SaveLeaves
  <2>2. PICK e : /\ Part(e, Diff(snap[r], op[r].next))
                 /\ step'[r] = "answering" => e = Diff(snap[r], op[r].next)
                 /\ Put(r, op[r].source, Applied(e, op[r].next, config[op[r].source]))
    BY <2>1 DEF LeavesPart
  <2>3. config'[op[r].source] = Applied(e, op[r].next, config[op[r].source])
    BY <1>5, <2>2 DEF Put
  <2>4. SavesAt(r, op[r].source)
    BY <1>5, <2>1, <2>2, <2>3 DEF SavesAt
  <2>5. QED
    BY <1>5, <2>1, <2>4
<1>6. ASSUME q = r, NEW i \in Piholes, SyncTo(r, i) \/ SyncFails(r, i) PROVE FALSE
  BY <1>6, CopyLeaves DEF Update, Sync
<1>7. QED
  BY <1>1, <1>2, <1>3, <1>4, <1>5, <1>6 DEF Acts

LEMMA ItemSurvives ==
  ASSUME Typed, \A q \in Askers : Proceeds(q) /\ Survives(q), NEW r \in Askers, Acts(r),
         NEW q \in Askers, Updating(q)', NEW x \in Items, ItemAgreed(q, x)'
  PROVE  ItemIsThere(q, x)'
<1> SUFFICES ASSUME step'[q] \in {"writing", "answering", "success"}
             PROVE  ItemIsThere(q, x)'
  BY DEF ItemIsThere
<1> DEFINE i == op[q].source
           Right(t) == Has(t, x) <=> Has(op[q].next, x)
<1>1. /\ step[q] # "idle" /\ op'[q] = op[q] /\ op[q] \in Update /\ Updating(q)
      /\ ItemAgreed(q, x)
  BY AgreedBefore
<1>2. i \in Piholes
  BY <1>1 DEF Update
<1>3. ItemIsThere(q, x)
  BY <1>1 DEF Survives
<1>4. config'[i] = config[i] \/ SavesAt(r, i)
  BY <1>1, <1>2, TopicAfter, NobodyCopies
<1>5. ASSUME SavesAt(r, i), Right(config[i]) PROVE Right(config'[i])
  <2>1. r \in Savers(i)
    BY <1>5 DEF SavesAt, Savers, Update, Updates
  <2>2. SendsArray(r) => (Has(op[r].next, x) <=> Has(op[q].next, x))
    BY <1>1, <2>1 DEF ItemAgreed
  <2>3. QED
    BY <1>2, <1>5, <2>2, ItemMoves
<1>6. ASSUME SavesAt(q, i), step'[q] = "answering", ~Right(snap[q]) PROVE Right(config'[i])
  BY <1>1, <1>2, <1>6, ItemMoves DEF ItemAgreed
<1>7. Right(config[i]) => Right(config'[i])
  BY <1>4, <1>5
<1>8. QED
  <2>1. CASE step'[q] = "writing" /\ step[q] = "writing" /\ snap'[q] = snap[q]
    BY <1>1, <1>3, <1>7, <2>1 DEF ItemIsThere
  <2>2. CASE step'[q] = "writing" /\ snap'[q] = config[i] /\ config' = config
    BY <1>1, <2>2 DEF ItemIsThere
  <2>3. CASE step'[q] \in {"answering", "success"} /\ step[q] \in {"answering", "success"}
    BY <1>1, <1>3, <1>7, <2>3 DEF ItemIsThere
  <2>4. CASE q = r /\ step[q] = "writing" /\ step'[q] = "answering" /\ SavesAt(r, i)
    BY <1>1, <1>3, <1>6, <1>7, <2>4 DEF ItemIsThere
  <2>5. QED
    BY <1>1, <1>2, <2>1, <2>2, <2>3, <2>4, StagesBefore

LEMMA FieldSurvives ==
  ASSUME Typed, \A q \in Askers : Proceeds(q) /\ Survives(q), NEW r \in Askers, Acts(r),
         NEW q \in Askers, Updating(q)', NEW f \in Fields, FieldAgreed(q, f)'
  PROVE  FieldIsThere(q, f)'
<1> SUFFICES ASSUME step'[q] \in {"writing", "answering", "success"}
             PROVE  FieldIsThere(q, f)'
  BY DEF FieldIsThere
<1> DEFINE i == op[q].source
           Right(t) == t.value[f] = op[q].next.value[f]
<1>1. /\ step[q] # "idle" /\ op'[q] = op[q] /\ op[q] \in Update /\ Updating(q)
      /\ FieldAgreed(q, f)
  BY AgreedBefore
<1>2. i \in Piholes
  BY <1>1 DEF Update
<1>3. FieldIsThere(q, f)
  BY <1>1 DEF Survives
<1>4. config'[i] = config[i] \/ SavesAt(r, i)
  BY <1>1, <1>2, TopicAfter, NobodyCopies
<1>5. ASSUME SavesAt(r, i), Right(config[i]) PROVE Right(config'[i])
  <2>1. r \in Savers(i)
    BY <1>5 DEF SavesAt, Savers, Update, Updates
  <2>2. f \in Given(op[r].next) => op[r].next.value[f] = op[q].next.value[f]
    BY <1>1, <2>1 DEF FieldAgreed
  <2>3. QED
    BY <1>2, <1>5, <2>2, FieldMoves
<1>6. ASSUME SavesAt(q, i), step'[q] = "answering", ~Right(snap[q]) PROVE Right(config'[i])
  BY <1>1, <1>2, <1>6, FieldMoves DEF FieldAgreed
<1>7. Right(config[i]) => Right(config'[i])
  BY <1>4, <1>5
<1>8. QED
  <2>1. CASE step'[q] = "writing" /\ step[q] = "writing" /\ snap'[q] = snap[q]
    BY <1>1, <1>3, <1>7, <2>1 DEF FieldIsThere
  <2>2. CASE step'[q] = "writing" /\ snap'[q] = config[i] /\ config' = config
    BY <1>1, <2>2 DEF FieldIsThere
  <2>3. CASE step'[q] \in {"answering", "success"} /\ step[q] \in {"answering", "success"}
    BY <1>1, <1>3, <1>7, <2>3 DEF FieldIsThere
  <2>4. CASE q = r /\ step[q] = "writing" /\ step'[q] = "answering" /\ SavesAt(r, i)
    BY <1>1, <1>3, <1>6, <1>7, <2>4 DEF FieldIsThere
  <2>5. QED
    BY <1>1, <1>2, <2>1, <2>2, <2>3, <2>4, StagesBefore

-----------------------------------------------------------------------------
(***************************************************************************)
(* What is copied                                                          *)
(***************************************************************************)
\* While nobody has interfered with a request, others have changed no topic.
LEMMA QuietStays ==
  ASSUME Typed, NEW r \in Askers, Proceeds(r), Acts(r), NEW q \in Askers, q # r,
         step[q] = "writing", quiet'[q]
  PROVE  quiet[q] /\ \A i \in Piholes : config'[i] = config[i]
<1>1. ASSUME NEW i, NEW t, Put(r, i, t)
      PROVE  quiet[q] /\ \A j \in Piholes : config'[j] = config[j]
  BY <1>1 DEF Put, Typed, TopicsTypeOK
<1>2. CASE Asks(r) \/ ReadFails(r) \/ Read(r) \/ Answer(r)
  BY <1>2 DEF Asks, Ask, ReadFails, Read, Answer
<1>3. CASE SaveTopic(r) \/ SaveFails(r)
  <2>1. LeavesPart(r)
    BY <1>3, SaveLeaves
  <2>2. QED
    BY <2>1, <1>1 DEF LeavesPart
<1>4. ASSUME NEW i \in Piholes, SyncTo(r, i) \/ SyncFails(r, i)
      PROVE  quiet[q] /\ \A j \in Piholes : config'[j] = config[j]
  <2>1. Put(r, i, snap[r]) \/ Put(r, i, config[i])
    BY <1>4, CopyLeaves
  <2>2. QED
    BY <1>1, <2>1
<1>5. QED
  BY <1>2, <1>3, <1>4 DEF Acts

\* A copy that writes to a target leaves it like the source, or counts it as failed.
LEMMA CopyMoves ==
  ASSUME Typed, NEW r \in Askers, Proceeds(r), Copies(r), NEW i \in Piholes,
         SyncTo(r, i) \/ SyncFails(r, i), quiet'[r]
  PROVE  /\ config'[op[r].source] = snap[r] /\ op' = op /\ op[r] \in Sync
         /\ \A j \in op[r].targets \ ((todo[r] \ {i}) \cup failed'[r]) : config'[j] = snap[r]
<1>1. /\ op[r] \in Sync /\ snap[r] \in Topic /\ step[r] = "writing" /\ i \in todo[r]
      /\ op' = op
      /\ \/ failed' = failed /\ Put(r, i, snap[r])
         \/ /\ failed' = [failed EXCEPT ![r] = @ \cup {i}]
            /\ Put(r, i, snap[r]) \/ Put(r, i, config[i])
  BY CopyLeaves
<1>2. quiet[r] /\ Syncs(r) /\ i # op[r].source /\ op[r].targets \subseteq Piholes
      /\ op[r].source \in Piholes
  BY <1>1 DEF Put, Typed, TopicsTypeOK, Syncs, Sync, Proceeds
<1>3. /\ config[op[r].source] = snap[r]
      /\ \A j \in op[r].targets \ (todo[r] \cup failed[r]) : config[j] = snap[r]
  BY <1>1, <1>2 DEF Copies
<1>4. \A j \in Piholes \ {i} : config'[j] = config[j]
  BY <1>1 DEF Put, Typed, TopicsTypeOK
<1>5. failed[r] \subseteq failed'[r] /\ (i \in failed'[r] \/ config'[i] = snap[r])
  BY <1>1 DEF Put, Typed, TopicsTypeOK
<1>6. QED
  BY <1>1, <1>2, <1>3, <1>4, <1>5

LEMMA StepCopies ==
  ASSUME Typed, \A q \in Askers : Proceeds(q) /\ Copies(q), NEW r \in Askers, Acts(r),
         NEW q \in Askers
  PROVE  Copies(q)'
<1> SUFFICES ASSUME quiet'[q], Syncs(q)', step'[q] = "writing" PROVE Copies(q)'
  BY DEF Copies
<1>1. CASE q # r
  <2>1. /\ op'[q] = op[q] /\ step[q] = "writing" /\ snap'[q] = snap[q]
        /\ todo'[q] = todo[q] /\ failed'[q] = failed[q]
    BY <1>1, OthersStay
  <2>2. quiet[q] /\ \A i \in Piholes : config'[i] = config[i]
    BY <1>1, <2>1, QuietStays
  <2>3. op[q] \in Sync
    BY <2>1 DEF Proceeds, Syncs, Update
  <2>4. op[q].source \in Piholes /\ op[q].targets \subseteq Piholes
    BY <2>3 DEF Sync
  <2>5. QED
    BY <2>1, <2>2, <2>4 DEF Copies, Syncs
<1>2. CASE q = r /\ (Asks(r) \/ ReadFails(r) \/ Answer(r))
  BY <1>2 DEF Asks, Ask, ReadFails, Answer, Ends, Typed, TopicsTypeOK
<1>3. CASE q = r /\ Read(r)
  <2>1. todo[r] = op[r].targets
    BY <1>3 DEF Read, Proceeds, Syncs
  <2>2. snap'[r] = config[op[r].source] /\ config' = config /\ op' = op /\ todo' = todo
    BY <1>3 DEF Read, Typed
  <2>3. QED
    BY <1>3, <2>1, <2>2 DEF Copies
<1>4. CASE q = r /\ (SaveTopic(r) \/ SaveFails(r))
  BY <1>4, SaveLeaves
<1>5. ASSUME q = r, NEW i \in Piholes, SyncTo(r, i) \/ SyncFails(r, i) PROVE Copies(q)'
  <2>1. todo' = [todo EXCEPT ![r] = @ \ {i}] /\ snap' = snap
    BY <1>5, CopyLeaves DEF Ends, Typed, TopicsTypeOK
  <2>2. todo'[r] = todo[r] \ {i}
    BY <2>1 DEF Typed, TopicsTypeOK
  <2>3. QED
    BY <1>5, <2>1, <2>2, CopyMoves DEF Copies
<1>6. QED
  BY <1>1, <1>2, <1>3, <1>4, <1>5 DEF Acts

-----------------------------------------------------------------------------
(***************************************************************************)
(* The theorems                                                            *)
(***************************************************************************)
LEMMA TopicsInit == InitTopics => TopicsInv
<1> SUFFICES ASSUME InitTopics PROVE TopicsInv
  OBVIOUS
<1>1. Typed
  BY FaultsAssumption DEF InitTopics, Typed, TopicsTypeOK
<1>2. ASSUME NEW r \in Askers PROVE Proceeds(r) /\ Survives(r) /\ Copies(r)
  BY DEF InitTopics, Proceeds, Survives, Updating, Copies, Updates, Syncs, Nothing
<1>3. CommonItemsStay /\ CommonsAreRead
  BY DEF InitTopics, CommonItemsStay, CommonsAreRead
<1>4. QED
  BY <1>1, <1>2, <1>3 DEF TopicsInv

LEMMA TopicsNext == TopicsInv /\ [NextTopics]_topicVars => TopicsInv'
<1> SUFFICES ASSUME TopicsInv, [NextTopics]_topicVars PROVE TopicsInv'
  OBVIOUS
<1>1. CASE UNCHANGED topicVars
  BY <1>1 DEF topicVars, request, TopicsInv, Typed, TopicsTypeOK, Proceeds, Survives, Copies, CommonItemsStay,
              CommonsAreRead, WantedByAll, UnwantedByAll, Updating, ItemAgreed, FieldAgreed, ItemIsThere,
              FieldIsThere, SendsArray, Updates, Syncs, Savers, Copiers
<1>2. ASSUME NEW r \in Askers, Acts(r) PROVE TopicsInv'
  <2>1. Typed'
    BY <1>2, TopicsStayTyped DEF TopicsInv
  <2>2. ASSUME NEW q \in Askers PROVE Proceeds(q)' /\ Copies(q)'
    BY <1>2, StepProceeds, StepCopies DEF TopicsInv
  <2>3. ASSUME NEW q \in Askers PROVE Survives(q)'
    <3>1. ASSUME Updating(q)', NEW x \in Items, ItemAgreed(q, x)' PROVE ItemIsThere(q, x)'
      BY <1>2, <3>1, ItemSurvives DEF TopicsInv
    <3>2. ASSUME Updating(q)', NEW f \in Fields, FieldAgreed(q, f)' PROVE FieldIsThere(q, f)'
      BY <1>2, <3>2, FieldSurvives DEF TopicsInv
    <3>3. QED
      BY <3>1, <3>2 DEF Survives
  <2>4. CommonItemsStay' /\ CommonsAreRead'
    BY <1>2, StepCommons DEF TopicsInv, Commons
  <2>5. QED
    BY <2>1, <2>2, <2>3, <2>4 DEF TopicsInv
<1>3. QED
  BY <1>1, <1>2, NextActs

LEMMA TopicsInvariance == SpecTopics => []TopicsInv
BY TopicsInit, TopicsNext, PTL DEF SpecTopics

\* What every Pi-hole has and every user keeps is at every Pi-hole in every state, and
\* what nobody has or wants is nowhere: in the middle of saves and copies as well, for
\* any number of them, wherever they fail.
THEOREM CommonsStay == SpecTopics => []TopicInv
<1>1. TopicsInv => TopicInv
  BY DEF TopicsInv, Typed, TopicInv
<1>2. QED
  BY TopicsInvariance, <1>1, PTL

\* Any number of users who save the same Pi-hole at once: what they agree on, items and
\* fields, is there once one has succeeded, although each has sent the difference from
\* a topic that was no longer there.
THEOREM ChangesSurvive == SpecTopics => []AgreedChangesSurvive
<1>1. TopicsInv => AgreedChangesSurvive
  <2> SUFFICES ASSUME TopicsInv, NEW i \in Piholes, NEW r \in Savers(i),
                      Copiers(i) = {}, step[r] = "success"
               PROVE  /\ \A x \in Items : ItemAgreed(r, x) => ItemIsThere(r, x)
                      /\ \A f \in Fields : FieldAgreed(r, f) => FieldIsThere(r, f)
    BY DEF AgreedChangesSurvive, ItemAgreed, FieldAgreed, ItemIsThere, FieldIsThere, Has,
           Savers, Given
  <2>1. r \in Askers /\ Updating(r)
    BY DEF Savers, Updating
  <2>2. QED
    BY <2>1 DEF TopicsInv, Survives
<1>2. QED
  BY TopicsInvariance, <1>1, PTL

\* A copy that succeeds has made each of its targets equal to its source, unless another
\* request has changed a topic meanwhile; whatever was there before.
THEOREM CopiesAreWhole == SpecTopics => CopyIsWhole
<1>1. ASSUME TopicsInv, [NextTopics]_topicVars, NEW r \in Askers,
             Syncs(r), quiet'[r], step[r] = "writing", step'[r] = "success",
             NEW j \in op[r].targets
      PROVE  config'[j] = config'[op[r].source]
  <2>1. PICK p \in Askers : Acts(p)
    BY <1>1, NextActs DEF topicVars, request
  <2>2. Typed /\ Proceeds(r) /\ Copies(r) /\ op[r] \in Sync
    BY <1>1 DEF TopicsInv, Proceeds, Syncs, Update
  <2>3. p = r
    BY <1>1, <2>1, <2>2, OthersStay
  <2>4. CASE Asks(r) \/ ReadFails(r) \/ Read(r) \/ Answer(r)
    BY <1>1, <2>2, <2>4 DEF Asks, Ask, ReadFails, Read, Answer, Ends, Typed, TopicsTypeOK
  <2>5. CASE SaveTopic(r) \/ SaveFails(r)
    BY <1>1, <2>2, <2>5, SaveLeaves
  <2>6. ASSUME NEW i \in Piholes, SyncTo(r, i) \/ SyncFails(r, i)
        PROVE  config'[j] = config'[op[r].source]
    <3>1. todo[r] = {i} /\ failed'[r] = {}
      BY <1>1, <2>2, <2>6, CopyLeaves DEF Ends, Typed, TopicsTypeOK
    <3>2. QED
      BY <1>1, <2>2, <2>6, <3>1, CopyMoves
  <2>7. QED
    BY <2>1, <2>3, <2>4, <2>5, <2>6 DEF Acts
<1>2. TopicsInv /\ [NextTopics]_topicVars =>
        [\A r \in Askers :
           Syncs(r) /\ quiet'[r] /\ step[r] = "writing" /\ step'[r] = "success" =>
             \A i \in op[r].targets : config'[i] = config'[op[r].source]]_topicVars
  BY <1>1
<1>3. QED
  BY <1>2, TopicsInvariance, PTL DEF SpecTopics, CopyIsWhole
=============================================================================
