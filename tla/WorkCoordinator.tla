--------------------------- MODULE WorkCoordinator --------------------------
(***************************************************************************)
(* PiholeWorkCoordinatorService: every HTTP exchange with a Pi-hole runs   *)
(* as a job that holds an in-memory lock on its instance and its target.   *)
(*                                                                         *)
(* The service lives on one JavaScript thread.  drainQueue() is a loop     *)
(* that runs without yielding, but each startJob() in it executes the      *)
(* synchronous beginning of the job, which may call run() again; the       *)
(* draining flag makes that inner drainQueue() return at once.  The model  *)
(* therefore gives the loop one action per iteration and lets only the     *)
(* job just started (current) act between two of them.                     *)
(*                                                                         *)
(* A call made inside a job is awaited by that job.  It runs at once when  *)
(* the job's keys cover its own, and is queued like any other otherwise.   *)
(***************************************************************************)
EXTENDS Integers, Sequences, FiniteSets, SequencesExt

CONSTANTS Calls,       \* the calls of run(), one identity per call
          Keys,        \* the lock keys
          NoJob,       \* contextStorage.getStore() outside every job
          TopKeys,     \* the key sets named by calls made outside every job
          NestedKeys,  \* the key sets named by calls made inside a job
          GlobalMax,   \* PIHOLE_GLOBAL_MAX_CONCURRENCY
          PerKeyMax    \* PIHOLE_PER_INSTANCE_MAX_CONCURRENCY

ASSUME CallsAssumption == NoJob \notin Calls
ASSUME KeySetsAssumption ==
  TopKeys \subseteq SUBSET Keys /\ NestedKeys \subseteq SUBSET Keys
\* z.coerce.number().int().positive() in app-env.ts.
ASSUME LimitsAssumption == GlobalMax \in Nat \ {0} /\ PerKeyMax \in Nat \ {0}

VARIABLES queue,            \* the jobs that wait, in order of arrival
          activeKeyCounts,  \* running jobs per key; 0 is a key the Map lacks
          runningCount,     \* running jobs
          draining,         \* drainQueue() is on the stack
          current,          \* the job whose synchronous part is on the stack
          sequence,         \* piholeWorkSequence
          jobId,            \* the number given to a queued call
          status,           \* where each call stands
          keys,             \* the normalized keys of a call
          context           \* the job inside which the call was made

vars == <<queue, activeKeyCounts, runningCount, draining, current, sequence,
          jobId, status, keys, context>>

Statuses == {"idle", "inline", "queued", "running", "settled"}

Running == {c \in Calls : status[c] = "running"}

\* The calls a job is waiting for.
Pending(p) ==
  {c \in Calls : context[c] = p /\ status[c] \in {"inline", "queued", "running"}}

Init ==
  /\ queue = <<>>
  /\ activeKeyCounts = [k \in Keys |-> 0]
  /\ runningCount = 0
  /\ draining = FALSE
  /\ current = NoJob
  /\ sequence = 0
  /\ jobId = [c \in Calls |-> 0]
  /\ status = [c \in Calls |-> "idle"]
  /\ keys = [c \in Calls |-> {}]
  /\ context = [c \in Calls |-> NoJob]

(***************************************************************************)
(* run()                                                                   *)
(***************************************************************************)

\* A handler calls run() when the thread is free; a job calls it while it is
\* running and waits for nothing, and inside the drain loop only the job that
\* was just started is executing.
MayCall(p) ==
  IF p = NoJob
  THEN ~draining
  ELSE status[p] = "running" /\ Pending(p) = {} /\ (draining => current = p)

\* Slip: one key in common is taken for cover (some() for every()).
Slip_ReusesSome(p, ks) ==
  ks = {} \/ (p # NoJob /\ ks \cap keys[p] # {})

\* The lock in force already covers the call.
Reuses(p, ks) == ks = {} \/ (p # NoJob /\ ks \subseteq keys[p])

\* The call executes in place, under the lock of its context.
RunInline(c, p, ks) ==
  /\ status[c] = "idle"
  /\ MayCall(p)
  /\ Reuses(p, ks)
  /\ status' = [status EXCEPT ![c] = "inline"]
  /\ keys' = [keys EXCEPT ![c] = ks]
  /\ context' = [context EXCEPT ![c] = p]
  /\ UNCHANGED <<queue, activeKeyCounts, runningCount, draining, current,
                 sequence, jobId>>

\* The call becomes a job at the end of the queue, and the queue is drained:
\* by this call, or by the loop that is already on the stack.
Enqueue(c, p, ks) ==
  /\ status[c] = "idle"
  /\ MayCall(p)
  /\ ~Reuses(p, ks)
  /\ sequence' = sequence + 1
  /\ jobId' = [jobId EXCEPT ![c] = sequence']
  /\ queue' = Append(queue, c)
  /\ status' = [status EXCEPT ![c] = "queued"]
  /\ keys' = [keys EXCEPT ![c] = ks]
  /\ context' = [context EXCEPT ![c] = p]
  /\ draining' = TRUE
  /\ UNCHANGED <<activeKeyCounts, runningCount, current>>

(***************************************************************************)
(* drainQueue(), startJob() and executeJob()                               *)
(***************************************************************************)

\* Slip: a key that is full still admits one more job.
Slip_CanStartFull(c) == \A k \in keys[c] : activeKeyCounts[k] <= PerKeyMax

CanStart(c) == \A k \in keys[c] : activeKeyCounts[k] < PerKeyMax

\* The key counts once the keys of c are counted d more times.
Counting(c, d) ==
  [k \in Keys |-> IF k \in keys[c] THEN activeKeyCounts[k] + d
                                   ELSE activeKeyCounts[k]]

\* The job at position i of the queue starts, leaving the key counts as given.
StartAt(i, counts) ==
  /\ draining
  /\ CanStart(queue[i])
  /\ queue' = RemoveAt(queue, i)
  /\ runningCount' = runningCount + 1
  /\ activeKeyCounts' = counts
  /\ status' = [status EXCEPT ![queue[i]] = "running"]
  /\ current' = queue[i]
  /\ UNCHANGED <<draining, sequence, jobId, keys, context>>

FirstThatCan(i) == \A j \in 1..(i - 1) : ~CanStart(queue[j])

\* Slip: any job that can start may be taken, not the first.
Slip_StartAny ==
  /\ runningCount < GlobalMax
  /\ \E i \in DOMAIN queue : StartAt(i, Counting(queue[i], 1))

\* Slip: the started job's keys are not counted.
Slip_StartUncounted ==
  /\ runningCount < GlobalMax
  /\ \E i \in DOMAIN queue : FirstThatCan(i) /\ StartAt(i, activeKeyCounts)

\* One iteration of the loop: the first job that can start, starts.
StartNext ==
  /\ runningCount < GlobalMax
  /\ \E i \in DOMAIN queue :
       FirstThatCan(i) /\ StartAt(i, Counting(queue[i], 1))

\* The loop ends: no slot is left, or no job can start.
EndDrain ==
  /\ draining
  /\ \/ runningCount >= GlobalMax
     \/ \A i \in DOMAIN queue : ~CanStart(queue[i])
  /\ draining' = FALSE
  /\ current' = NoJob
  /\ UNCHANGED <<queue, activeKeyCounts, runningCount, sequence, jobId, status,
                 keys, context>>

\* A running job settles, leaving the key counts and the flag as given.
Settle(c, counts, drains) ==
  /\ status[c] = "running"
  /\ Pending(c) = {}
  /\ draining => current = c
  /\ status' = [status EXCEPT ![c] = "settled"]
  /\ runningCount' = runningCount - 1
  /\ activeKeyCounts' = counts
  /\ draining' = drains
  /\ current' = NoJob
  /\ UNCHANGED <<queue, sequence, jobId, keys, context>>

\* Slip: a job that ends does not drain the queue.
Slip_FinishNoDrain(c) == Settle(c, Counting(c, -1), draining)

\* Slip: a job that ends leaves its keys counted.
Slip_FinishKeepsKeys(c) == Settle(c, activeKeyCounts, TRUE)

\* A job resolves or rejects and gives its lock back.  This happens on a turn
\* of its own, or inside the loop when execute() throws before it first yields.
Finish(c) == Settle(c, Counting(c, -1), TRUE)

\* A call that was executed in place settles; it holds nothing of its own.
FinishInline(c) ==
  /\ status[c] = "inline"
  /\ ~draining
  /\ status' = [status EXCEPT ![c] = "settled"]
  /\ UNCHANGED <<queue, activeKeyCounts, runningCount, draining, current,
                 sequence, jobId, keys, context>>

Next ==
  \/ \E c \in Calls :
       \/ \E ks \in TopKeys : RunInline(c, NoJob, ks) \/ Enqueue(c, NoJob, ks)
       \/ \E p \in Calls, ks \in NestedKeys :
            RunInline(c, p, ks) \/ Enqueue(c, p, ks)
       \/ Finish(c)
       \/ FinishInline(c)
  \/ StartNext
  \/ EndDrain

Spec == Init /\ [][Next]_vars

\* The loop is synchronous, so it is never abandoned; an operation ends because
\* every HTTP request is aborted after requestTimeoutMs (pihole.service.ts).
Fairness ==
  /\ WF_vars(StartNext)
  /\ WF_vars(EndDrain)
  /\ \A c \in Calls : WF_vars(Finish(c)) /\ WF_vars(FinishInline(c))

FairSpec == Spec /\ Fairness

-----------------------------------------------------------------------------
(***************************************************************************)
(* Properties                                                              *)
(***************************************************************************)

TypeOK ==
  /\ queue \in Seq(Calls)
  /\ activeKeyCounts \in [Keys -> Nat]
  /\ runningCount \in Nat
  /\ draining \in BOOLEAN
  /\ current \in Calls \cup {NoJob}
  /\ sequence \in Nat
  /\ jobId \in [Calls -> Nat]
  /\ status \in [Calls -> Statuses]
  /\ keys \in [Calls -> SUBSET Keys]
  /\ context \in [Calls -> Calls \cup {NoJob}]

RunningWith(k) == {c \in Running : k \in keys[c]}

\* The two counters the coordinator keeps by hand never drift from the jobs
\* that really run, whatever order jobs start, re-enter run() and settle in.
CountersAgree ==
  /\ runningCount = Cardinality(Running)
  /\ \A k \in Keys : activeKeyCounts[k] = Cardinality(RunningWith(k))

\* The job under whose lock a call is executing.
Holder(c) == IF status[c] = "running" THEN c ELSE context[c]

Executing == {c \in Calls : status[c] \in {"running", "inline"}}

\* Work on one key, whether a job of its own or a call executed in place, is
\* always done under the lock of a job that is still running, and the work on
\* one key is shared by at most PerKeyMax jobs (one, by default).
ExclusiveAccess ==
  \A k \in Keys :
    LET holders == {Holder(c) : c \in {e \in Executing : k \in keys[e]}} IN
    /\ holders \subseteq Running
    /\ Cardinality(holders) <= PerKeyMax

\* At most GlobalMax jobs run at a time.
SlotsBounded == Cardinality(Running) <= GlobalMax

\* No wake-up is lost: when the thread leaves the coordinator, every job still
\* in the queue is there because the slots are taken or one of its keys is.
NoLostWakeup ==
  draining \/ runningCount = GlobalMax
           \/ \A i \in DOMAIN queue : ~CanStart(queue[i])

Started(c) == jobId[c] # 0 /\ status[c] \in {"running", "settled"}

\* The queue is scanned past blocked jobs, yet no job overtakes an earlier one
\* whose keys are among its own: whatever lets it start lets the earlier start.
NoOvertaking ==
  \A c, d \in Calls :
    /\ jobId[c] # 0 /\ jobId[c] < jobId[d]
    /\ keys[c] \subseteq keys[d]
    /\ Started(d)
    => Started(c)

\* The coordinator implements the keyed semaphore.
Semaphore == INSTANCE KeyedSemaphore WITH phase <- status, want <- keys,
                                          host <- context
ImplementsSemaphore == Semaphore!Spec

\* A job inside which a call had to queue: it waits for a lock it does not hold
\* while holding its own.
NestedWait == \E c \in Calls : status[c] = "queued" /\ context[c] # NoJob

\* Every queued call settles, unless some job made a nested call that its own
\* keys did not cover.
EveryCallSettles ==
  \A c \in Calls :
    (status[c] = "queued") ~> (status[c] = "settled" \/ NestedWait)
=============================================================================
