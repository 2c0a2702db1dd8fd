------------------------ MODULE WorkCoordinatorProofs -----------------------
(***************************************************************************)
(* Theorems about WorkCoordinator for every set of calls, every set of     *)
(* keys and every pair of limits.                                          *)
(***************************************************************************)
EXTENDS WorkCoordinator, FiniteSetTheorems, SequenceTheorems, TLAPS

\* Removing one element of a sequence shifts the later ones down.
LEMMA RemoveAtProperties ==
  ASSUME NEW S, NEW s \in Seq(S), NEW i \in DOMAIN s
  PROVE  /\ RemoveAt(s, i) \in Seq(S)
         /\ Len(RemoveAt(s, i)) = Len(s) - 1
         /\ \A j \in 1..(Len(s) - 1) :
              RemoveAt(s, i)[j] = IF j < i THEN s[j] ELSE s[j + 1]
<1>1. i \in 1..Len(s) /\ Len(s) \in Nat
  OBVIOUS
<1> DEFINE front == SubSeq(s, 1, i - 1)
           back == SubSeq(s, i + 1, Len(s))
<1>2. front \in Seq(S) /\ Len(front) = i - 1
  BY <1>1
<1>3. back \in Seq(S) /\ Len(back) = Len(s) - i
  BY <1>1
<1>4. RemoveAt(s, i) = front \o back
  BY DEF RemoveAt
<1>5. front \o back \in Seq(S) /\ Len(front \o back) = Len(front) + Len(back)
  <2> HIDE DEF front, back
  <2> QED
    BY <1>2, <1>3, ConcatProperties
<1>6. \A j \in 1..(i - 1) : front[j] = s[j]
  BY <1>1
<1>7. \A j \in 1..(Len(s) - i) : back[j] = s[i + j]
  BY <1>1
<1>8. ASSUME NEW j \in 1..(Len(s) - 1)
      PROVE  (front \o back)[j] = IF j < i THEN s[j] ELSE s[j + 1]
  <2> HIDE DEF front, back
  <2>1. j \in 1..(Len(front) + Len(back))
    BY <1>1, <1>2, <1>3
  <2>2. (front \o back)[j] = IF j <= Len(front) THEN front[j]
                                              ELSE back[j - Len(front)]
    BY <2>1, <1>2, <1>3, ConcatProperties
  <2>3. CASE j < i
    BY <1>1, <1>2, <1>6, <2>2, <2>3
  <2>4. CASE ~(j < i)
    <3>1. j - (i - 1) \in 1..(Len(s) - i) /\ i + (j - (i - 1)) = j + 1
      BY <1>1, <2>4
    <3>2. QED
      BY <1>1, <1>2, <1>7, <2>2, <2>4, <3>1
  <2>5. QED
    BY <2>3, <2>4
<1>9. RemoveAt(s, i) \in Seq(S) /\ Len(RemoveAt(s, i)) = Len(s) - 1
  <2> HIDE DEF front, back
  <2> QED
    BY <1>1, <1>2, <1>3, <1>4, <1>5
<1>10. QED
  BY <1>4, <1>8, <1>9

-----------------------------------------------------------------------------
(***************************************************************************)
(* The inductive invariant                                                 *)
(***************************************************************************)

\* The queue holds the queued calls, each once, by increasing job number.
QueueOK ==
  /\ \A i \in DOMAIN queue : status[queue[i]] = "queued"
  /\ \A i, j \in DOMAIN queue : i < j => jobId[queue[i]] < jobId[queue[j]]
  /\ \A c \in Calls :
       status[c] = "queued" => \E i \in DOMAIN queue : queue[i] = c

\* Job numbers are given to queued calls only, and never run ahead.
NumbersOK ==
  \A c \in Calls :
    /\ jobId[c] <= sequence
    /\ status[c] \in {"idle", "inline"} => jobId[c] = 0
    /\ status[c] \in {"queued", "running"} => jobId[c] # 0

\* A call executed in place names no key, or keys of the job it runs in, and
\* that job has not settled.
GuestsOK ==
  \A c \in Calls :
    status[c] = "inline" =>
      \/ keys[c] = {}
      \/ /\ context[c] \in Running
         /\ keys[c] \subseteq keys[context[c]]

LimitsOK ==
  /\ runningCount <= GlobalMax
  /\ \A k \in Keys : activeKeyCounts[k] <= PerKeyMax

IInv ==
  /\ TypeOK
  /\ IsFiniteSet(Running)
  /\ CountersAgree
  /\ LimitsOK
  /\ QueueOK
  /\ NumbersOK
  /\ GuestsOK
  /\ NoLostWakeup
  /\ NoOvertaking

LEMMA InitInv == Init => IInv
<1> SUFFICES ASSUME Init PROVE IInv
  OBVIOUS
<1>1. TypeOK
  BY EmptySeq, CallsAssumption DEF Init, TypeOK, Statuses
<1>2. Running = {} /\ \A k \in Keys : RunningWith(k) = {}
  BY DEF Init, Running, RunningWith
<1>3. IsFiniteSet(Running) /\ CountersAgree
  BY <1>2, FS_EmptySet DEF Init, CountersAgree
<1>4. LimitsOK
  BY LimitsAssumption DEF Init, LimitsOK
<1>5. QueueOK /\ NumbersOK /\ GuestsOK /\ NoLostWakeup /\ NoOvertaking
  BY DEF Init, QueueOK, NumbersOK, GuestsOK, NoLostWakeup, NoOvertaking, Started
<1>6. QED
  BY <1>1, <1>3, <1>4, <1>5 DEF IInv

\* A call executed in place changes nothing but its own record.
LEMMA RunInlineInv ==
  ASSUME IInv, NEW c \in Calls, NEW p \in Calls \cup {NoJob},
         NEW ks \in SUBSET Keys, RunInline(c, p, ks)
  PROVE  IInv'
<1> USE DEF IInv, TypeOK
<1>1. TypeOK'
  BY DEF RunInline, Statuses
<1>2. Running' = Running /\ \A k \in Keys : RunningWith(k)' = RunningWith(k)
  BY DEF RunInline, Running, RunningWith
<1>3. IsFiniteSet(Running)' /\ CountersAgree' /\ LimitsOK'
  BY <1>2 DEF RunInline, CountersAgree, LimitsOK
<1>4. \A i \in DOMAIN queue : queue[i] \in Calls /\ queue[i] # c
  BY DEF RunInline, QueueOK
<1>5. QueueOK'
  BY <1>4 DEF RunInline, QueueOK
<1>6. NumbersOK'
  BY DEF RunInline, NumbersOK
<1>7. GuestsOK'
  BY CallsAssumption DEF RunInline, GuestsOK, MayCall, Reuses, Running
<1>8. NoLostWakeup'
  BY <1>4 DEF RunInline, NoLostWakeup, CanStart
<1>9. NoOvertaking'
  BY DEF RunInline, NoOvertaking, Started, NumbersOK
<1>10. QED
  BY <1>1, <1>3, <1>5, <1>6, <1>7, <1>8, <1>9

\* A queued call goes to the end of the queue with the highest number so far.
LEMMA EnqueueInv ==
  ASSUME IInv, NEW c \in Calls, NEW p \in Calls \cup {NoJob},
         NEW ks \in SUBSET Keys, Enqueue(c, p, ks)
  PROVE  IInv'
<1> USE DEF IInv, TypeOK
<1>1. TypeOK'
  BY DEF Enqueue, Statuses
<1>2. Running' = Running /\ \A k \in Keys : RunningWith(k)' = RunningWith(k)
  BY DEF Enqueue, Running, RunningWith
<1>3. IsFiniteSet(Running)' /\ CountersAgree' /\ LimitsOK'
  BY <1>2 DEF Enqueue, CountersAgree, LimitsOK
<1>4. \A i \in DOMAIN queue : queue[i] \in Calls /\ queue[i] # c
  BY DEF Enqueue, QueueOK
<1>5. /\ Len(queue') = Len(queue) + 1
      /\ queue'[Len(queue) + 1] = c
      /\ \A i \in DOMAIN queue : queue'[i] = queue[i]
      /\ DOMAIN queue' = DOMAIN queue \cup {Len(queue) + 1}
      /\ DOMAIN queue = 1..Len(queue) /\ Len(queue) \in Nat
  BY DEF Enqueue
<1>6. NumbersOK'
  BY DEF Enqueue, NumbersOK
<1>7. QueueOK'
  <2>1. \A i \in DOMAIN queue' : status'[queue'[i]] = "queued"
    BY <1>4, <1>5 DEF Enqueue, QueueOK
  <2>2. ASSUME NEW i \in DOMAIN queue', NEW j \in DOMAIN queue', i < j
        PROVE  jobId'[queue'[i]] < jobId'[queue'[j]]
    <3>1. i \in DOMAIN queue
      BY <1>5, <2>2
    <3>2. CASE j \in DOMAIN queue
      BY <1>4, <1>5, <2>2, <3>1, <3>2 DEF Enqueue, QueueOK
    <3>3. CASE j = Len(queue) + 1
      BY <1>4, <1>5, <3>1, <3>3 DEF Enqueue, NumbersOK
    <3>4. QED
      BY <1>5, <3>2, <3>3
  <2>3. ASSUME NEW d \in Calls, status'[d] = "queued"
        PROVE  \E i \in DOMAIN queue' : queue'[i] = d
    <3>1. CASE d = c
      BY <1>5, <3>1
    <3>2. CASE d # c
      BY <1>5, <2>3, <3>2 DEF Enqueue, QueueOK
    <3>3. QED
      BY <3>1, <3>2
  <2>4. QED
    BY <2>1, <2>2, <2>3 DEF QueueOK
<1>8. GuestsOK'
  BY DEF Enqueue, GuestsOK, Running
<1>9. NoLostWakeup'
  BY DEF Enqueue, NoLostWakeup
<1>10. NoOvertaking'
  <2> SUFFICES ASSUME NEW a \in Calls, NEW b \in Calls,
                      jobId'[a] # 0, jobId'[a] < jobId'[b],
                      keys'[a] \subseteq keys'[b], Started(b)'
               PROVE  Started(a)'
    BY DEF NoOvertaking
  <2>1. b # c
    BY DEF Enqueue, Started
  <2>2. a # c
    BY <2>1 DEF Enqueue, NumbersOK
  <2>3. QED
    BY <2>1, <2>2 DEF Enqueue, NoOvertaking, Started
<1>11. QED
  BY <1>1, <1>3, <1>6, <1>7, <1>8, <1>9, <1>10

\* A job that starts leaves the queue and is counted once on each of its keys.
LEMMA StartNextInv ==
  ASSUME IInv, StartNext
  PROVE  IInv'
<1> USE DEF IInv, TypeOK
<1>1. PICK i \in DOMAIN queue : FirstThatCan(i)
                                /\ StartAt(i, Counting(queue[i], 1))
  BY DEF StartNext
<1> DEFINE c == queue[i]
<1>2. c \in Calls /\ status[c] = "queued" /\ CanStart(c)
  BY <1>1 DEF QueueOK, StartAt
<1>3. /\ queue' = RemoveAt(queue, i)
      /\ runningCount' = runningCount + 1
      /\ activeKeyCounts' = Counting(c, 1)
      /\ status' = [status EXCEPT ![c] = "running"]
      /\ current' = c
      /\ draining /\ UNCHANGED <<draining, sequence, jobId, keys, context>>
  BY <1>1 DEF StartAt
<1> DEFINE old(j) == IF j < i THEN j ELSE j + 1
<1>4. /\ queue' \in Seq(Calls)
      /\ DOMAIN queue' = 1..(Len(queue) - 1)
      /\ DOMAIN queue = 1..Len(queue) /\ Len(queue) \in Nat
      /\ \A j \in DOMAIN queue' : /\ old(j) \in DOMAIN queue
                                  /\ old(j) # i
                                  /\ queue'[j] = queue[old(j)]
      /\ \A a, b \in DOMAIN queue' : a < b => old(a) < old(b)
  <2>1. DOMAIN queue = 1..Len(queue) /\ Len(queue) \in Nat /\ i \in Nat
    OBVIOUS
  <2>2. queue' \in Seq(Calls) /\ Len(queue') = Len(queue) - 1
    BY <1>3, RemoveAtProperties
  <2>3. DOMAIN queue' = 1..(Len(queue) - 1)
    BY <2>2
  <2>4. \A j \in 1..(Len(queue) - 1) :
          queue'[j] = IF j < i THEN queue[j] ELSE queue[j + 1]
    BY <1>3, RemoveAtProperties
  <2>5. ASSUME NEW j \in DOMAIN queue'
        PROVE  /\ old(j) \in DOMAIN queue
               /\ old(j) # i
               /\ queue'[j] = queue[old(j)]
    <3>1. j \in 1..(Len(queue) - 1)
      BY <2>3
    <3>2. old(j) \in 1..Len(queue) /\ old(j) # i
      BY <2>1, <3>1
    <3>3. queue'[j] = queue[old(j)]
      BY <2>4, <3>1
    <3>4. QED
      BY <2>1, <3>2, <3>3
  <2>6. \A a, b \in DOMAIN queue' : a < b => old(a) < old(b)
    BY <2>1, <2>3
  <2>7. QED
    BY <2>1, <2>2, <2>3, <2>5, <2>6
<1> HIDE DEF c
<1>5. TypeOK'
  BY <1>2, <1>3, <1>4 DEF Statuses, Counting
<1>6. Running' = Running \cup {c} /\ c \notin Running
  BY <1>2, <1>3 DEF Running
<1>7. \A k \in Keys : /\ IsFiniteSet(RunningWith(k))
                      /\ c \notin RunningWith(k)
                      /\ RunningWith(k)' = IF k \in keys[c]
                                           THEN RunningWith(k) \cup {c}
                                           ELSE RunningWith(k)
  BY <1>3, <1>6, FS_Subset DEF RunningWith
<1>8. IsFiniteSet(Running)' /\ CountersAgree'
  <2>1. IsFiniteSet(Running') /\ Cardinality(Running') = runningCount + 1
    BY <1>6, FS_AddElement DEF CountersAgree
  <2>2. ASSUME NEW k \in Keys
        PROVE  activeKeyCounts'[k] = Cardinality(RunningWith(k)')
    <3>1. Cardinality(RunningWith(k) \cup {c}) = Cardinality(RunningWith(k)) + 1
      BY <1>7, FS_AddElement
    <3>2. QED
      BY <1>3, <1>7, <3>1 DEF CountersAgree, Counting
  <2>3. QED
    BY <1>3, <2>1, <2>2 DEF CountersAgree
<1>9. LimitsOK'
  BY <1>2, <1>3, LimitsAssumption
     DEF StartNext, LimitsOK, Counting, CanStart
<1>10. \A j \in DOMAIN queue : j # i => queue[j] # c
  <2> SUFFICES ASSUME NEW j \in DOMAIN queue, j # i, queue[j] = c
               PROVE  FALSE
    OBVIOUS
  <2>1. jobId[c] \in Nat
    BY <1>2
  <2>2. CASE j < i
    BY <2>1, <2>2 DEF QueueOK, c
  <2>3. CASE i < j
    BY <2>1, <2>3 DEF QueueOK, c
  <2>4. QED
    BY <1>4, <2>2, <2>3
<1>11. QueueOK'
  <2>1. \A j \in DOMAIN queue' : status'[queue'[j]] = "queued"
    <3> HIDE DEF old
    <3> QED
      BY <1>3, <1>4, <1>10 DEF QueueOK
  <2>2. \A a, b \in DOMAIN queue' :
          a < b => jobId'[queue'[a]] < jobId'[queue'[b]]
    <3> HIDE DEF old
    <3> QED
      BY <1>3, <1>4 DEF QueueOK
  <2>3. ASSUME NEW d \in Calls, status'[d] = "queued"
        PROVE  \E j \in DOMAIN queue' : queue'[j] = d
    <3>1. d # c /\ status[d] = "queued"
      BY <1>2, <1>3, <2>3
    <3>2. PICK j \in DOMAIN queue : queue[j] = d
      BY <3>1 DEF QueueOK
    <3>3. CASE j < i
      <4>1. j \in DOMAIN queue' /\ old(j) = j
        BY <1>4, <3>3
      <4>2. QED
        BY <1>4, <3>2, <4>1
    <3>4. CASE i < j
      <4>1. j - 1 \in 1..(Len(queue) - 1) /\ ~(j - 1 < i) /\ (j - 1) + 1 = j
        <5>1. i \in 1..Len(queue) /\ j \in 1..Len(queue) /\ Len(queue) \in Nat
          BY <1>4, <3>2
        <5>2. QED
          BY <3>4, <5>1
      <4>2. j - 1 \in DOMAIN queue' /\ old(j - 1) = j
        BY <1>4, <4>1
      <4>3. QED
        BY <1>4, <3>2, <4>2
    <3>5. QED
      BY <1>4, <3>1, <3>2, <3>3, <3>4 DEF c
  <2>4. QED
    BY <2>1, <2>2, <2>3 DEF QueueOK
<1>12. NumbersOK'
  BY <1>2, <1>3 DEF NumbersOK
<1>13. GuestsOK'
  BY <1>2, <1>3, <1>6 DEF GuestsOK
<1>14. NoLostWakeup'
  BY <1>3 DEF NoLostWakeup
<1>15. NoOvertaking'
  <2> SUFFICES ASSUME NEW a \in Calls, NEW b \in Calls,
                      jobId[a] # 0, jobId[a] < jobId[b],
                      keys[a] \subseteq keys[b], Started(b)'
               PROVE  Started(a)'
    BY <1>3 DEF NoOvertaking
  <2>1. CASE b # c
    BY <1>2, <1>3, <2>1 DEF NoOvertaking, Started
  <2>2. CASE b = c
    <3> SUFFICES ASSUME status[a] = "queued" PROVE FALSE
      BY <1>2, <1>3 DEF NumbersOK, Started, Statuses
    <3>1. PICK j \in DOMAIN queue : queue[j] = a
      BY DEF QueueOK
    <3>2. j < i
      <4>1. ~(i < j)
        BY <2>2, <3>1 DEF QueueOK, c
      <4>2. i # j
        BY <2>2, <3>1 DEF c
      <4>3. QED
        BY <1>4, <4>1, <4>2
    <3>3. ~CanStart(a)
      <4>1. j \in 1..(i - 1)
        BY <1>4, <3>2
      <4>2. QED
        BY <1>1, <3>1, <4>1 DEF FirstThatCan
    <3>4. QED
      BY <1>2, <2>2, <3>3 DEF CanStart
  <2>3. QED
    BY <2>1, <2>2
<1>16. QED
  BY <1>5, <1>8, <1>9, <1>11, <1>12, <1>13, <1>14, <1>15

\* The loop stops for one of the two reasons NoLostWakeup allows.
LEMMA EndDrainInv ==
  ASSUME IInv, EndDrain
  PROVE  IInv'
<1> USE DEF IInv, TypeOK
<1>1. TypeOK'
  BY DEF EndDrain
<1>2. Running' = Running /\ \A k \in Keys : RunningWith(k)' = RunningWith(k)
  BY DEF EndDrain, Running, RunningWith
<1>3. IsFiniteSet(Running)' /\ CountersAgree' /\ LimitsOK'
  BY <1>2 DEF EndDrain, CountersAgree, LimitsOK
<1>4. QueueOK' /\ NumbersOK' /\ GuestsOK' /\ NoOvertaking'
  BY <1>2 DEF EndDrain, QueueOK, NumbersOK, GuestsOK, NoOvertaking, Started
<1>5. NoLostWakeup'
  BY LimitsAssumption DEF EndDrain, NoLostWakeup, LimitsOK, CanStart
<1>6. QED
  BY <1>1, <1>3, <1>4, <1>5

\* A job that settles has no guest, and is uncounted where it was counted.
LEMMA FinishInv ==
  ASSUME IInv, NEW c \in Calls, Finish(c)
  PROVE  IInv'
<1> USE DEF IInv, TypeOK
<1>1. /\ status[c] = "running" /\ Pending(c) = {}
      /\ status' = [status EXCEPT ![c] = "settled"]
      /\ runningCount' = runningCount - 1
      /\ activeKeyCounts' = Counting(c, -1)
      /\ draining' = TRUE
      /\ current' = NoJob
      /\ UNCHANGED <<queue, sequence, jobId, keys, context>>
  BY DEF Finish, Settle
<1>2. Running' = Running \ {c} /\ c \in Running
  BY <1>1 DEF Running
<1>3. \A k \in Keys : /\ IsFiniteSet(RunningWith(k))
                      /\ (c \in RunningWith(k)) <=> (k \in keys[c])
                      /\ RunningWith(k)' = RunningWith(k) \ {c}
  BY <1>1, <1>2, FS_Subset DEF RunningWith
<1>4. /\ IsFiniteSet(Running)'
      /\ Cardinality(Running') = runningCount - 1
      /\ runningCount >= 1
  <2>1. /\ IsFiniteSet(Running \ {c})
        /\ Cardinality(Running \ {c}) = Cardinality(Running) - 1
    BY <1>2, FS_RemoveElement
  <2>2. Cardinality(Running \ {c}) \in Nat
    BY <2>1, FS_CardinalityType
  <2>3. QED
    BY <1>2, <2>1, <2>2 DEF CountersAgree
<1>5. \A k \in Keys :
        /\ k \in keys[c] => /\ Cardinality(RunningWith(k)') = activeKeyCounts[k] - 1
                            /\ activeKeyCounts[k] >= 1
        /\ k \notin keys[c] => Cardinality(RunningWith(k)') = activeKeyCounts[k]
  <2> SUFFICES ASSUME NEW k \in Keys
               PROVE  /\ k \in keys[c] =>
                           /\ Cardinality(RunningWith(k)') = activeKeyCounts[k] - 1
                           /\ activeKeyCounts[k] >= 1
                      /\ k \notin keys[c] =>
                           Cardinality(RunningWith(k)') = activeKeyCounts[k]
    OBVIOUS
  <2>1. CASE k \in keys[c]
    <3>1. /\ IsFiniteSet(RunningWith(k) \ {c})
          /\ Cardinality(RunningWith(k) \ {c}) = Cardinality(RunningWith(k)) - 1
      BY <1>3, <2>1, FS_RemoveElement
    <3>2. Cardinality(RunningWith(k) \ {c}) \in Nat
      BY <3>1, FS_CardinalityType
    <3>3. activeKeyCounts[k] = Cardinality(RunningWith(k)) /\ activeKeyCounts[k] \in Nat
      BY DEF CountersAgree
    <3>4. Cardinality(RunningWith(k)') = activeKeyCounts[k] - 1
      BY <1>3, <3>1, <3>3
    <3>5. activeKeyCounts[k] - 1 \in Nat
      BY <3>1, <3>2, <3>3
    <3>6. QED
      BY <2>1, <3>3, <3>4, <3>5
  <2>2. CASE k \notin keys[c]
    <3>1. RunningWith(k) \ {c} = RunningWith(k)
      BY <1>3, <2>2
    <3>2. QED
      BY <1>3, <2>2, <3>1 DEF CountersAgree
  <2>3. QED
    BY <2>1, <2>2
<1>6. TypeOK'
  BY <1>1, <1>4, <1>5 DEF Statuses, Counting, CountersAgree
<1>7. CountersAgree' /\ LimitsOK'
  BY <1>1, <1>4, <1>5, LimitsAssumption DEF CountersAgree, LimitsOK, Counting
<1>8. \A i \in DOMAIN queue : queue[i] \in Calls /\ queue[i] # c
  BY <1>1 DEF QueueOK
<1>9. QueueOK'
  BY <1>1, <1>8 DEF QueueOK
<1>10. NumbersOK'
  BY <1>1 DEF NumbersOK
<1>11. GuestsOK'
  BY <1>1, <1>2 DEF GuestsOK, Pending
<1>12. NoLostWakeup'
  BY <1>1 DEF NoLostWakeup
<1>13. NoOvertaking'
  BY <1>1 DEF NoOvertaking, Started, NumbersOK
<1>14. QED
  BY <1>4, <1>6, <1>7, <1>9, <1>10, <1>11, <1>12, <1>13

LEMMA FinishInlineInv ==
  ASSUME IInv, NEW c \in Calls, FinishInline(c)
  PROVE  IInv'
<1> USE DEF IInv, TypeOK
<1>1. TypeOK'
  BY DEF FinishInline, Statuses
<1>2. Running' = Running /\ \A k \in Keys : RunningWith(k)' = RunningWith(k)
  BY DEF FinishInline, Running, RunningWith
<1>3. IsFiniteSet(Running)' /\ CountersAgree' /\ LimitsOK'
  BY <1>2 DEF FinishInline, CountersAgree, LimitsOK
<1>4. \A i \in DOMAIN queue : queue[i] \in Calls /\ queue[i] # c
  BY DEF FinishInline, QueueOK
<1>5. QueueOK' /\ NumbersOK' /\ NoLostWakeup'
  BY <1>4 DEF FinishInline, QueueOK, NumbersOK, NoLostWakeup, CanStart
<1>6. GuestsOK'
  BY <1>2 DEF FinishInline, GuestsOK
<1>7. NoOvertaking'
  BY DEF FinishInline, NoOvertaking, Started, NumbersOK
<1>8. QED
  BY <1>1, <1>3, <1>5, <1>6, <1>7

LEMMA NextInv == IInv /\ [Next]_vars => IInv'
<1> SUFFICES ASSUME IInv, [Next]_vars PROVE IInv'
  OBVIOUS
<1>1. ASSUME NEW c \in Calls, NEW ks \in TopKeys,
             RunInline(c, NoJob, ks) \/ Enqueue(c, NoJob, ks)
      PROVE  IInv'
  BY <1>1, KeySetsAssumption, RunInlineInv, EnqueueInv
<1>2. ASSUME NEW c \in Calls, NEW p \in Calls, NEW ks \in NestedKeys,
             RunInline(c, p, ks) \/ Enqueue(c, p, ks)
      PROVE  IInv'
  BY <1>2, KeySetsAssumption, RunInlineInv, EnqueueInv
<1>3. ASSUME NEW c \in Calls, Finish(c) \/ FinishInline(c)
      PROVE  IInv'
  BY <1>3, FinishInv, FinishInlineInv
<1>4. CASE StartNext
  BY <1>4, StartNextInv
<1>5. CASE EndDrain
  BY <1>5, EndDrainInv
<1>6. CASE UNCHANGED vars
  <2>1. Running' = Running /\ \A k \in Keys : RunningWith(k)' = RunningWith(k)
    BY <1>6 DEF vars, Running, RunningWith
  <2>2. TypeOK' /\ IsFiniteSet(Running)' /\ CountersAgree' /\ LimitsOK'
    BY <1>6, <2>1 DEF vars, IInv, TypeOK, CountersAgree, LimitsOK
  <2>3. QueueOK' /\ NumbersOK' /\ GuestsOK'
    BY <1>6, <2>1 DEF vars, IInv, QueueOK, NumbersOK, GuestsOK
  <2>4. NoLostWakeup' /\ NoOvertaking'
    BY <1>6 DEF vars, IInv, NoLostWakeup, NoOvertaking, Started, CanStart
  <2>5. QED
    BY <2>2, <2>3, <2>4 DEF IInv
<1>7. QED
  BY <1>1, <1>2, <1>3, <1>4, <1>5, <1>6 DEF Next

LEMMA Invariance == Spec => []IInv
  BY InitInv, NextInv, PTL DEF Spec

-----------------------------------------------------------------------------
(***************************************************************************)
(* The theorems                                                            *)
(***************************************************************************)

\* Every variable keeps its type; in particular no counter goes below zero,
\* although the code only ever adds and subtracts.
THEOREM TypeCorrect == Spec => []TypeOK
  BY Invariance, PTL DEF IInv

\* The counters of the coordinator always agree with the jobs that run.
THEOREM CountersExact == Spec => []CountersAgree
  BY Invariance, PTL DEF IInv

\* When drainQueue() returns, nothing that could start is left waiting.
THEOREM NoWakeupIsLost == Spec => []NoLostWakeup
  BY Invariance, PTL DEF IInv

\* A job is never overtaken by a later one that needs all of its keys.
THEOREM FirstComeFirstServed == Spec => []NoOvertaking
  BY Invariance, PTL DEF IInv

\* PIHOLE_GLOBAL_MAX_CONCURRENCY bounds the running jobs.
THEOREM SlotsRespected == Spec => []SlotsBounded
<1>1. IInv => SlotsBounded
  BY DEF IInv, CountersAgree, LimitsOK, SlotsBounded
<1>2. QED
  BY <1>1, Invariance, PTL

\* PIHOLE_PER_INSTANCE_MAX_CONCURRENCY bounds the jobs at work on a key, calls
\* executed in place included, and such calls never outlive the lock they use.
THEOREM AccessIsExclusive == Spec => []ExclusiveAccess
<1>1. IInv => ExclusiveAccess
  <2> SUFFICES ASSUME IInv, NEW k \in Keys
               PROVE  LET holders ==
                            {Holder(c) : c \in {e \in Executing : k \in keys[e]}}
                      IN  /\ holders \subseteq Running
                          /\ Cardinality(holders) <= PerKeyMax
    BY DEF ExclusiveAccess
  <2> DEFINE holders == {Holder(c) : c \in {e \in Executing : k \in keys[e]}}
  <2>1. ASSUME NEW c \in Executing, k \in keys[c]
        PROVE  Holder(c) \in RunningWith(k)
    BY <2>1 DEF IInv, GuestsOK, Executing, Holder, Running, RunningWith
  <2>2. holders \subseteq RunningWith(k) /\ RunningWith(k) \subseteq Running
    BY <2>1 DEF RunningWith
  <2>3. IsFiniteSet(RunningWith(k))
    BY <2>2, FS_Subset DEF IInv
  <2>4. Cardinality(holders) <= Cardinality(RunningWith(k))
    <3> HIDE DEF holders
    <3> QED
      BY <2>2, <2>3, FS_Subset
  <2>5. Cardinality(holders) \in Nat
    <3> HIDE DEF holders
    <3> QED
      BY <2>2, <2>3, FS_Subset, FS_CardinalityType
  <2>6. Cardinality(RunningWith(k)) <= PerKeyMax
    BY DEF IInv, CountersAgree, LimitsOK
  <2>7. Cardinality(holders) <= PerKeyMax
    <3> HIDE DEF holders
    <3> QED
      BY <2>3, <2>4, <2>5, <2>6, LimitsAssumption, FS_CardinalityType
  <2>8. QED
    BY <2>2, <2>7
<1>2. QED
  BY <1>1, Invariance, PTL

\* The semaphore counts with the same operator as the coordinator.
LEMMA SameCardinality ==
  \A S : Semaphore!Cardinality(S) = Cardinality(S)
  BY DEF Semaphore!Cardinality, Cardinality, Semaphore!IsFiniteSet, IsFiniteSet

\* The coordinator implements the keyed semaphore: each of its steps is a step
\* of the semaphore or leaves it unchanged.
THEOREM Refinement == Spec => ImplementsSemaphore
<1>1. Init => Semaphore!Init
  BY DEF Init, Semaphore!Init
<1>2. Semaphore!Holders = Running
  BY DEF Semaphore!Holders, Running
<1>3. IInv /\ [Next]_vars => [Semaphore!Next]_(Semaphore!vars)
  <2> SUFFICES ASSUME IInv, [Next]_vars
               PROVE  Semaphore!Next \/ UNCHANGED Semaphore!vars
    OBVIOUS
  <2> USE DEF IInv, TypeOK
  <2>1. ASSUME NEW c \in Calls, NEW p \in Calls \cup {NoJob},
               NEW ks \in SUBSET Keys, RunInline(c, p, ks)
        PROVE  Semaphore!Next
    <3>1. p \in Semaphore!Hosts
      BY <1>2, <2>1 DEF RunInline, MayCall, Running, Semaphore!Hosts
    <3>2. Semaphore!Join(c, p, ks)
      BY <1>2, <2>1, <3>1
         DEF RunInline, Reuses, MayCall, Running, Semaphore!Join
    <3>3. QED
      BY <3>2 DEF Semaphore!Next
  <2>2. ASSUME NEW c \in Calls, NEW p \in Calls \cup {NoJob},
               NEW ks \in SUBSET Keys, Enqueue(c, p, ks)
        PROVE  Semaphore!Next
    <3>1. p \in Semaphore!Hosts
      BY <1>2, <2>2 DEF Enqueue, MayCall, Running, Semaphore!Hosts
    <3>2. Semaphore!Request(c, p, ks)
      BY <2>2, <3>1 DEF Enqueue, Semaphore!Request
    <3>3. QED
      BY <3>2 DEF Semaphore!Next
  <2>3. CASE StartNext
    <3>1. PICK i \in DOMAIN queue : StartAt(i, Counting(queue[i], 1))
      BY <2>3 DEF StartNext
    <3>2. queue[i] \in Calls /\ status[queue[i]] = "queued"
      BY DEF QueueOK
    <3>3. \A k \in keys[queue[i]] :
            Cardinality(Semaphore!HoldersOf(k)) < PerKeyMax
      BY <1>2, <3>1, <3>2
         DEF StartAt, CanStart, CountersAgree, RunningWith, Semaphore!HoldersOf
    <3>4. Cardinality(Semaphore!Holders) < GlobalMax
      BY <1>2, <2>3 DEF StartNext, CountersAgree
    <3>5. /\ status' = [status EXCEPT ![queue[i]] = "running"]
          /\ UNCHANGED <<keys, context>>
      BY <3>1 DEF StartAt
    <3>6. Semaphore!Acquire(queue[i])
      BY <3>2, <3>3, <3>4, <3>5, SameCardinality DEF Semaphore!Acquire
    <3>7. QED
      BY <3>2, <3>6 DEF Semaphore!Next
  <2>4. ASSUME NEW c \in Calls, Finish(c)
        PROVE  Semaphore!Next
    <3>1. Semaphore!Release(c)
      BY <2>4 DEF Finish, Settle, Pending, Semaphore!Release, Semaphore!Guests
    <3>2. QED
      BY <3>1 DEF Semaphore!Next
  <2>5. ASSUME NEW c \in Calls, FinishInline(c)
        PROVE  Semaphore!Next
    <3>1. Semaphore!Leave(c)
      BY <2>5 DEF FinishInline, Semaphore!Leave
    <3>2. QED
      BY <3>1 DEF Semaphore!Next
  <2>6. CASE EndDrain \/ UNCHANGED vars
    BY <2>6 DEF EndDrain, vars, Semaphore!vars
  <2>7. QED
    BY <2>1, <2>2, <2>3, <2>4, <2>5, <2>6, KeySetsAssumption DEF Next
<1>4. QED
  BY <1>1, <1>3, Invariance, PTL DEF Spec, ImplementsSemaphore, Semaphore!Spec
=============================================================================
