--------------------------- MODULE NotificationsProofs ------------------------
(***************************************************************************)
(* Theorems about Notifications, for any number of Pi-holes, messages,     *)
(* polls and users, and any number of failures.                            *)
(***************************************************************************)
EXTENDS Notifications, FiniteSetTheorems, TLAPS

-----------------------------------------------------------------------------
(***************************************************************************)
(* The inductive invariant                                                 *)
(***************************************************************************)
Typed ==
  /\ TypeOK
  /\ todo \in [Polls -> [Instances -> SUBSET Messages]]

Gone(k) == message[row[k].about] = "gone"

\* A row is about a message that has been there, and one that is closed or read about
\* one that is gone.
RowOK(k) ==
  /\ row[k].state = "none" <=> row[k].about = None
  /\ row[k].state = "none" => ~row[k].read
  /\ row[k].state # "none" => message[row[k].about] # "unborn"
  /\ row[k].state \in {"resolved", "hidden"} \/ row[k].read => Gone(k)

\* syncInProgress keeps polls apart.
OnePoll ==
  \A p, q \in Polls, i, j \in Instances :
    poll[p][i] # "idle" /\ poll[q][j] # "idle" => p = q /\ syncInProgress

\* What a poll knows of its Pi-hole.  Nobody but itself opens rows there.
ListOK(p, i) ==
  /\ \A m \in listed[p][i] : Home[m] = i /\ message[m] # "unborn"
  /\ poll[p][i] \in {"recording", "writing"} => todo[p][i] \subseteq listed[p][i]
  /\ poll[p][i] \in {"recording", "writing", "resolving"} =>
       \A k \in OpenAt(i) : row[k].about \notin listed[p][i] => Gone(k)

FoundOK(p, i) ==
  /\ poll[p][i] = "writing" =>
       /\ current[p][i] \in listed[p][i] \ todo[p][i]
       /\ found[p][i] = {} => Open(current[p][i]) = {}
  /\ poll[p][i] = "resolving" =>
       \A k \in found[p][i] : /\ row[k].about \in Messages \ listed[p][i]
                              /\ Home[row[k].about] = i /\ Gone(k)
  /\ poll[p][i] = "alarming" => alarms[i] = 0

\* The rows of a request are there, and the messages of those it will change are gone.
UserOK(u) ==
  /\ \A k \in aim[u] \cup good[u] : row[k].state # "none"
  /\ \A k \in good[u] : Gone(k)

OneOpen(m) == \A j, k \in Open(m) : j = k

\* A message that is at its Pi-hole, or that a poll has listed and will add to the table
MayCome(m) ==
  \/ message[m] # "gone"
  \/ Raced(m)
  \/ \E p \in Polls, i \in Instances :
       poll[p][i] = "writing" /\ current[p][i] = m /\ found[p][i] = {}

\* Every row but one is excused, and all of them if there may be another.
Booked(m) ==
  /\ Cardinality(Rows(m)) <= 1 + excuse[m]
  /\ MayCome(m) /\ Open(m) = {} => Cardinality(Rows(m)) <= excuse[m]

IInv ==
  /\ Typed
  /\ OnePoll
  /\ \A i \in Instances : alarms[i] <= 1
  /\ \A k \in Ids : RowOK(k)
  /\ \A p \in Polls, i \in Instances : ListOK(p, i) /\ FoundOK(p, i)
  /\ \A u \in Users : UserOK(u)
  /\ \A m \in Messages : OneOpen(m) /\ Booked(m)

-----------------------------------------------------------------------------
(***************************************************************************)
(* The variables keep their types                                          *)
(***************************************************************************)
Columns == [about : Messages \cup {None}, read : BOOLEAN,
            state : {"none", "open", "resolved", "hidden", "expired"}]
Stages == {"idle", "listing", "recording", "writing", "resolving", "clearing",
           "failing", "alarming", "polled"}

TableTyped ==
  /\ message \in [Messages -> {"unborn", "present", "gone"}]
  /\ row \in [Ids -> Columns]
  /\ alarms \in [Instances -> 0..MaxPolls]
  /\ faults \in 0..MaxFaults
  /\ excuse \in [Messages -> Nat]

PollingTyped ==
  /\ syncInProgress \in BOOLEAN
  /\ poll \in [Polls -> [Instances -> Stages]]
  /\ listed \in [Polls -> [Instances -> SUBSET Messages]]
  /\ todo \in [Polls -> [Instances -> SUBSET Messages]]
  /\ current \in [Polls -> [Instances -> Messages \cup {None}]]
  /\ found \in [Polls -> [Instances -> SUBSET Ids]]

AskingTyped ==
  /\ request \in [Users -> {"idle", "deleting", "over"}]
  /\ verb \in [Users -> {"read", "hide", "readAll"}]
  /\ aim \in [Users -> SUBSET Ids]
  /\ good \in [Users -> SUBSET Ids]

LEMMA TypedParts == Typed <=> TableTyped /\ PollingTyped /\ AskingTyped
BY DEF Typed, TypeOK, TableTyped, PollingTyped, AskingTyped, Columns, Stages

\* What a poll does at one Pi-hole
PollActs(p, i) == PollWork(p, i) \/ WriteRowFails(p, i) \/ StatementFails(p, i)

LEMMA OpenTyped ==
  ASSUME TableTyped
  PROVE  /\ \A m : Open(m) \in SUBSET Ids /\ Rows(m) \in SUBSET Ids
         /\ \A i : OpenAt(i) \in SUBSET Ids
         /\ \A i, k : k \in OpenAt(i) <=> /\ k \in Ids /\ row[k].state = "open"
                                          /\ row[k].about \in Messages
                                          /\ Home[row[k].about] = i
BY DEF TableTyped, Open, Rows, OpenAt

LEMMA PollTypes ==
  ASSUME TableTyped, PollingTyped, NEW p \in Polls, NEW i \in Instances, PollActs(p, i)
  PROVE  PollingTyped'
<1> USE DEF PollingTyped, Stages, Step, Recorded, Quiet, table
<1>0. \A m : Open(m) \in SUBSET Ids /\ OpenAt(i) \in SUBSET Ids
  BY OpenTyped
<1>1. CASE List(p, i)
  BY <1>1, <1>0 DEF List
<1>2. CASE ListFails(p, i)
  BY <1>2, <1>0 DEF ListFails
<1>3. CASE FindRow(p, i)
  BY <1>3, <1>0 DEF FindRow
<1>4. CASE WriteRow(p, i)
  BY <1>4, <1>0 DEF WriteRow
<1>5. CASE FindMissing(p, i)
  BY <1>5, <1>0 DEF FindMissing
<1>6. CASE Resolve(p, i)
  BY <1>6, <1>0 DEF Resolve
<1>7. CASE PollSucceeds(p, i)
  BY <1>7, <1>0 DEF PollSucceeds
<1>8. CASE FindAlarm(p, i)
  BY <1>8, <1>0 DEF FindAlarm
<1>9. CASE RaiseAlarm(p, i)
  BY <1>9, <1>0 DEF RaiseAlarm
<1>10. CASE WriteRowFails(p, i)
  BY <1>10, <1>0 DEF WriteRowFails
<1>11. CASE StatementFails(p, i)
  BY <1>11, <1>0 DEF StatementFails
<1>12. QED
  BY <1>1, <1>2, <1>3, <1>4, <1>5, <1>6, <1>7, <1>8, <1>9, <1>10, <1>11 DEF PollActs, PollWork

LEMMA NextIsFree ==
  ASSUME Free # {}
  PROVE  NextId \in Ids /\ row[NextId].state = "none"
<1>1. \E k : k \in Free
  OBVIOUS
<1>2. NextId \in Free
  BY <1>1 DEF NextId
<1>3. QED
  BY <1>2 DEF Free

\* An open row of the message at hand is added.
Adds(p, i) ==
  /\ poll[p][i] = "writing" /\ found[p][i] = {}
  /\ \E k \in Ids :
       /\ row[k].state = "none"
       /\ row' = [row EXCEPT ![k] =
                    [about |-> current[p][i], state |-> "open", read |-> FALSE]]

\* A row that is there is closed, read or expires.
Closes(k) ==
  /\ row[k].state # "none" /\ row'[k].state # "none"
  /\ row'[k].about = row[k].about
  /\ row'[k].state = "open" => row[k].state = "open"
  /\ row'[k].state \in {"resolved", "hidden"} \/ row'[k].read => Gone(k)

RowsClose == \A k \in Ids : row'[k] = row[k] \/ Closes(k)

LEMMA WriteAdds ==
  ASSUME TableTyped, PollingTyped, NEW p \in Polls, NEW i \in Instances,
         WriteRow(p, i) \/ WriteRowFails(p, i)
  PROVE  row' = row \/ Adds(p, i)
<1>1. CASE row' = row
  BY <1>1
<1>2. CASE row' # row
  <2>1. poll[p][i] = "writing" /\ found[p][i] = {} /\ Added(current[p][i])
    BY <1>2 DEF WriteRow, WriteRowFails, Step
  <2>2. QED
    BY <2>1, NextIsFree DEF Adds, Added
<1>3. QED
  BY <1>1, <1>2

\* The steps of a poll write no row but these.
LEMMA PollRows ==
  ASSUME TableTyped, PollingTyped, NEW p \in Polls, NEW i \in Instances, PollActs(p, i)
  PROVE  row' = row \/ Adds(p, i) \/ Resolve(p, i)
<1> USE DEF Quiet, table
<1>1. CASE WriteRow(p, i) \/ WriteRowFails(p, i)
  BY <1>1, WriteAdds
<1>2. CASE ~(WriteRow(p, i) \/ WriteRowFails(p, i)) /\ ~Resolve(p, i)
  BY <1>2 DEF PollActs, PollWork, List, ListFails, FindRow, FindMissing, PollSucceeds,
    FindAlarm, RaiseAlarm, StatementFails
<1>3. QED
  BY <1>1, <1>2

LEMMA AddsTypes ==
  ASSUME TableTyped, PollingTyped, NEW p \in Polls, NEW i \in Instances, Adds(p, i)
  PROVE  row' \in [Ids -> Columns]
<1>1. PICK k \in Ids : row' = [row EXCEPT ![k] =
                          [about |-> current[p][i], state |-> "open", read |-> FALSE]]
  BY DEF Adds
<1>2. [about |-> current[p][i], state |-> "open", read |-> FALSE] \in Columns
  BY DEF PollingTyped, Columns
<1>3. QED
  BY <1>1, <1>2 DEF TableTyped

LEMMA PollTableTypes ==
  ASSUME TableTyped, PollingTyped, NEW p \in Polls, NEW i \in Instances, PollActs(p, i),
         alarms[i] <= 1, poll[p][i] = "alarming" => alarms[i] = 0
  PROVE  /\ TableTyped' /\ message' = message /\ excuse' = excuse
         /\ UNCHANGED <<syncInProgress, asking>>
         /\ \A j \in Instances : alarms[j] <= 1 => alarms'[j] <= 1
         /\ \A j \in Instances : alarms'[j] # alarms[j] => j = i
<1> USE DEF TableTyped, Step, Quiet, table
<1>1. message' = message /\ excuse' = excuse /\ UNCHANGED <<syncInProgress, asking>>
  BY DEF PollActs, PollWork, List, ListFails, FindRow, WriteRow, FindMissing, Resolve,
    PollSucceeds, FindAlarm, RaiseAlarm, WriteRowFails, StatementFails, asking
<1>2. faults' = faults \/ (faults < MaxFaults /\ faults' = faults + 1)
  BY DEF PollActs, PollWork, List, ListFails, FindRow, WriteRow, FindMissing, Resolve,
    PollSucceeds, FindAlarm, RaiseAlarm, WriteRowFails, StatementFails, Fault
<1>3. faults' \in 0..MaxFaults
  BY <1>2, BoundsAssumption
<1>4. row' \in [Ids -> Columns]
  <2>1. CASE Resolve(p, i)
    BY <2>1 DEF Resolve, Columns
  <2>2. QED
    BY <2>1, PollRows, AddsTypes
<1>5. /\ alarms' \in [Instances -> 0..MaxPolls]
      /\ \A j \in Instances : alarms[j] <= 1 => alarms'[j] <= 1
      /\ \A j \in Instances : alarms'[j] # alarms[j] => j = i
  <2>1. CASE alarms' = alarms
    BY <2>1
  <2>2. CASE PollSucceeds(p, i)
    BY <2>2, BoundsAssumption DEF PollSucceeds, Resolved
  <2>3. CASE RaiseAlarm(p, i)
    <3>1. alarms[i] = 0 /\ alarms' = [alarms EXCEPT ![i] = @ + 1]
      BY <2>3 DEF RaiseAlarm
    <3>2. 1 \in 0..MaxPolls
      BY BoundsAssumption DEF Polls
    <3>3. alarms' = [alarms EXCEPT ![i] = 1]
      BY <3>1
    <3>4. QED
      BY <3>2, <3>3
  <2>4. CASE alarms' # alarms /\ ~PollSucceeds(p, i) /\ ~RaiseAlarm(p, i)
    BY <2>4 DEF PollActs, PollWork, List, ListFails, FindRow, WriteRow, FindMissing,
      Resolve, FindAlarm, WriteRowFails, StatementFails
  <2>5. QED
    BY <2>1, <2>2, <2>3, <2>4
<1>6. QED
  BY <1>1, <1>3, <1>4, <1>5

\* The entries of other polls and of other Pi-holes stay.
LEMMA OtherPollsStay ==
  ASSUME PollingTyped, NEW p \in Polls, NEW i \in Instances, PollActs(p, i),
         NEW q \in Polls, NEW j \in Instances, q # p \/ j # i
  PROVE  /\ poll'[q][j] = poll[q][j] /\ listed'[q][j] = listed[q][j] /\ todo'[q][j] = todo[q][j]
         /\ current'[q][j] = current[q][j] /\ found'[q][j] = found[q][j]
<1> USE DEF PollingTyped, Step, Recorded, Quiet, table
<1>1. CASE List(p, i)
  BY <1>1 DEF List
<1>2. CASE ListFails(p, i)
  BY <1>2 DEF ListFails
<1>3. CASE FindRow(p, i)
  BY <1>3 DEF FindRow
<1>4. CASE WriteRow(p, i)
  BY <1>4 DEF WriteRow
<1>5. CASE FindMissing(p, i)
  BY <1>5 DEF FindMissing
<1>6. CASE Resolve(p, i)
  BY <1>6 DEF Resolve
<1>7. CASE PollSucceeds(p, i)
  BY <1>7 DEF PollSucceeds
<1>8. CASE FindAlarm(p, i)
  BY <1>8 DEF FindAlarm
<1>9. CASE RaiseAlarm(p, i)
  BY <1>9 DEF RaiseAlarm
<1>10. CASE WriteRowFails(p, i)
  BY <1>10 DEF WriteRowFails
<1>11. CASE StatementFails(p, i)
  BY <1>11 DEF StatementFails
<1>12. QED
  BY <1>1, <1>2, <1>3, <1>4, <1>5, <1>6, <1>7, <1>8, <1>9, <1>10, <1>11 DEF PollActs, PollWork

LEMMA IdsFinite ==
  ASSUME NEW rows \in SUBSET Ids
  PROVE  IsFiniteSet(rows) /\ Cardinality(rows) \in Nat
<1>1. IsFiniteSet(Ids)
  BY BoundsAssumption, FS_Interval DEF Ids
<1>2. IsFiniteSet(rows)
  BY <1>1, FS_Subset
<1>3. QED
  BY <1>2, FS_CardinalityType

LEMMA ExcusedTypes ==
  ASSUME TableTyped, NEW rows, Excused(rows)
  PROVE  /\ excuse' \in [Messages -> Nat]
         /\ \A m \in Messages : excuse'[m] = excuse[m] + Cardinality(Rows(m) \cap rows)
         /\ \A m \in Messages : excuse'[m] >= excuse[m]
<1>1. \A m \in Messages : Cardinality(Rows(m) \cap rows) \in Nat
  BY OpenTyped, IdsFinite
<1>2. excuse' = [m \in Messages |-> excuse[m] + Cardinality(Rows(m) \cap rows)]
  BY DEF Excused
<1>3. QED
  BY <1>1, <1>2 DEF TableTyped

\* What users, the owners of the Pi-holes and retention do
UserActs(u) ==
  \/ AskForOne(u) \/ AskForAll(u) \/ Update(u) \/ UpdateFails(u)
  \/ \E i \in Instances : Delete(u, i)

Outside ==
  \/ \E m \in Messages : Appear(m) \/ Remove(m)
  \/ \E u \in Users : UserActs(u)
  \/ \E i \in Instances : HideAlarm(i)
  \/ \E k \in Ids : Expire(k)

LEMMA NextCases ==
  ASSUME Next
  PROVE  \/ \E p \in Polls, i \in Instances : PollActs(p, i)
         \/ \E p \in Polls : StartPoll(p) \/ EndPoll(p)
         \/ Outside
         \/ Crash
BY DEF Next, PollActs, Outside, UserActs

LEMMA OutsideLeaves ==
  ASSUME TableTyped, AskingTyped, Outside
  PROVE  UNCHANGED polling
BY DEF Outside, UserActs, Appear, Remove, AskForOne, AskForAll, Ask, Update, UpdateFails,
  Delete, HideAlarm, Expire

\* A request for rows is about rows that are there.
LEMMA AskLeaves ==
  ASSUME TableTyped, NEW u \in Users, AskForOne(u) \/ AskForAll(u)
  PROVE  /\ UNCHANGED <<message, table, polling, good, faults, excuse>>
         /\ request' = [request EXCEPT ![u] = "deleting"]
         /\ \E rows \in SUBSET Ids : /\ aim' = [aim EXCEPT ![u] = rows]
                                     /\ \A k \in rows : row[k].state # "none"
         /\ \E v \in {"read", "hide", "readAll"} : verb' = [verb EXCEPT ![u] = v]
<1>1. PICK rows \in SUBSET Ids, v \in {"read", "hide", "readAll"} :
        (\A k \in rows : row[k].state # "none") /\ Ask(u, v, rows)
  <2>1. CASE AskForOne(u)
    <3>1. PICK k \in Ids : /\ row[k].state \in {"open", "resolved"}
                           /\ Ask(u, "hide", {k}) \/ Ask(u, "read", {k})
      BY <2>1 DEF AskForOne
    <3>2. {k} \in SUBSET Ids /\ \A j \in {k} : row[j].state # "none"
      BY <3>1
    <3>3. QED
      BY <3>1, <3>2
  <2>2. CASE AskForAll(u)
    <3> DEFINE rows == {k \in Ids : row[k].state = "open" /\ ~row[k].read}
    <3>1. rows \in SUBSET Ids /\ \A k \in rows : row[k].state # "none"
      OBVIOUS
    <3>2. Ask(u, "readAll", rows)
      BY <2>2 DEF AskForAll
    <3> HIDE DEF rows
    <3>3. QED
      BY <3>1, <3>2
  <2>3. QED
    BY <2>1, <2>2
<1>2. QED
  BY <1>1 DEF Ask

\* The rows whose message a Pi-hole has deleted are good.
LEMMA DeleteLeaves ==
  ASSUME AskingTyped, NEW u \in Users, NEW i \in Instances, Delete(u, i)
  PROVE  /\ UNCHANGED <<table, polling, faults, excuse>>
         /\ \E ok \in SUBSET aim[u] :
              /\ message' = [m \in Messages |-> IF \E k \in ok : row[k].about = m
                                                 THEN "gone" ELSE message[m]]
              /\ \/ Over(u)
                 \/ /\ aim' = [aim EXCEPT ![u] = @ \ At(i, aim[u])]
                    /\ good' = [good EXCEPT ![u] = @ \cup ok]
                    /\ UNCHANGED <<request, verb>>
<1>1. At(i, aim[u]) \in SUBSET aim[u]
  BY DEF At
<1>2. QED
  BY <1>1 DEF Delete

LEMMA AskingTypes ==
  ASSUME TableTyped, AskingTyped, Outside
  PROVE  AskingTyped'
<1>1. ASSUME NEW u \in Users, AskForOne(u) \/ AskForAll(u) PROVE AskingTyped'
  BY <1>1, AskLeaves DEF AskingTyped
<1>2. ASSUME NEW u \in Users, Update(u) \/ UpdateFails(u) PROVE AskingTyped'
  BY <1>2 DEF AskingTyped, Update, UpdateFails, Over
<1>3. ASSUME NEW u \in Users, NEW i \in Instances, Delete(u, i) PROVE AskingTyped'
  BY <1>3, DeleteLeaves DEF AskingTyped, Over
<1>4. ASSUME NEW m \in Messages, Appear(m) \/ Remove(m) PROVE AskingTyped'
  BY <1>4 DEF AskingTyped, Appear, Remove, asking
<1>5. ASSUME NEW i \in Instances, HideAlarm(i) PROVE AskingTyped'
  BY <1>5 DEF AskingTyped, HideAlarm, asking
<1>6. ASSUME NEW k \in Ids, Expire(k) PROVE AskingTyped'
  BY <1>6 DEF AskingTyped, Expire, asking
<1>7. QED
  BY <1>1, <1>2, <1>3, <1>4, <1>5, <1>6 DEF Outside, UserActs

LEMMA OutsideTableTypes ==
  ASSUME TableTyped, AskingTyped, Outside, \A i \in Instances : alarms[i] <= 1
  PROVE  TableTyped' /\ \A i \in Instances : alarms'[i] <= alarms[i]
<1> USE DEF TableTyped, table
<1> DEFINE Goal == TableTyped' /\ \A i \in Instances : alarms'[i] <= alarms[i]
<1>0. \A i \in Instances : alarms[i] <= alarms[i]
  BY BoundsAssumption
<1>1. ASSUME NEW u \in Users, AskForOne(u) \/ AskForAll(u) PROVE Goal
  BY <1>0, <1>1, AskLeaves
<1>2. ASSUME NEW u \in Users, Update(u) PROVE Goal
  <2> DEFINE kept == {k \in good[u] : row[k].state # "expired"}
  <2>1. row' \in [Ids -> Columns]
    BY <1>2 DEF Update, Columns
  <2>2. excuse' \in [Messages -> Nat]
    BY <1>2, ExcusedTypes DEF Update
  <2>3. UNCHANGED <<message, alarms, faults>>
    BY <1>2 DEF Update
  <2>4. QED
    BY <1>0, <2>1, <2>2, <2>3
<1>3. ASSUME NEW u \in Users, UpdateFails(u) PROVE Goal
  BY <1>0, <1>3, BoundsAssumption DEF UpdateFails, Fault
<1>4. ASSUME NEW u \in Users, NEW i \in Instances, Delete(u, i) PROVE Goal
  BY <1>0, <1>4, DeleteLeaves
<1>5. ASSUME NEW m \in Messages, Appear(m) \/ Remove(m) PROVE Goal
  BY <1>0, <1>5 DEF Appear, Remove
<1>6. ASSUME NEW i \in Instances, HideAlarm(i) PROVE Goal
  <2>1. alarms[i] > 0 /\ alarms' = [alarms EXCEPT ![i] = alarms[i] - 1]
    BY <1>6 DEF HideAlarm
  <2>2. alarms[i] - 1 \in 0..MaxPolls /\ alarms[i] - 1 <= alarms[i]
    BY <2>1, BoundsAssumption
  <2>3. UNCHANGED <<message, row, faults, excuse>>
    BY <1>6 DEF HideAlarm
  <2>4. QED
    BY <1>0, <2>1, <2>2, <2>3
<1>7. ASSUME NEW k \in Ids, Expire(k) PROVE Goal
  <2>1. row' \in [Ids -> Columns]
    BY <1>7 DEF Expire, Columns
  <2>2. excuse' \in [Messages -> Nat]
    BY <1>7, ExcusedTypes DEF Expire
  <2>3. QED
    BY <1>0, <1>7, <2>1, <2>2 DEF Expire
<1>8. QED
  BY <1>1, <1>2, <1>3, <1>4, <1>5, <1>6, <1>7 DEF Outside, UserActs

LEMMA RestTypes ==
  ASSUME TableTyped, PollingTyped, AskingTyped,
         Crash \/ \E p \in Polls : StartPoll(p) \/ EndPoll(p)
  PROVE  TableTyped' /\ PollingTyped' /\ AskingTyped' /\ UNCHANGED <<message, table, excuse>>
<1>1. CASE Crash
  <2>1. TableTyped' /\ UNCHANGED <<message, table, excuse>>
    BY <1>1, BoundsAssumption DEF Crash, Fault, TableTyped, table
  <2>2. PollingTyped'
    BY <1>1 DEF Crash, PollingTyped, Everywhere, Stages
  <2>3. AskingTyped'
    BY <1>1 DEF Crash, AskingTyped
  <2>4. QED
    BY <2>1, <2>2, <2>3
<1>2. ASSUME NEW p \in Polls, StartPoll(p) \/ EndPoll(p)
      PROVE  TableTyped' /\ PollingTyped' /\ AskingTyped' /\ UNCHANGED <<message, table, excuse>>
  <2>1. TableTyped' /\ AskingTyped' /\ UNCHANGED <<message, table, excuse>>
    BY <1>2 DEF StartPoll, EndPoll, TableTyped, AskingTyped, table, asking
  <2>2. PollingTyped'
    <3>1. CASE StartPoll(p)
      BY <3>1 DEF StartPoll, PollingTyped, Stages
    <3>2. CASE EndPoll(p)
      BY <3>2 DEF EndPoll, PollingTyped, Stages
    <3>3. QED
      BY <1>2, <3>1, <3>2
  <2>3. QED
    BY <2>1, <2>2
<1>3. QED
  BY <1>1, <1>2

LEMMA StepTyped ==
  ASSUME IInv, Next
  PROVE  Typed'
<1>1. TableTyped /\ PollingTyped /\ AskingTyped
  BY TypedParts DEF IInv
<1>2. ASSUME NEW p \in Polls, NEW i \in Instances, PollActs(p, i)
      PROVE  TableTyped' /\ PollingTyped' /\ AskingTyped'
  <2>1. alarms[i] <= 1 /\ (poll[p][i] = "alarming" => alarms[i] = 0)
    BY DEF IInv, FoundOK
  <2>2. AskingTyped'
    BY <1>1, <1>2, <2>1, PollTableTypes DEF asking, AskingTyped
  <2>3. QED
    BY <1>1, <1>2, <2>1, <2>2, PollTableTypes, PollTypes
<1>3. ASSUME Outside PROVE TableTyped' /\ PollingTyped' /\ AskingTyped'
  <2>1. PollingTyped'
    BY <1>1, <1>3, OutsideLeaves DEF PollingTyped, polling
  <2>2. \A i \in Instances : alarms[i] <= 1
    BY DEF IInv
  <2>3. QED
    BY <1>1, <1>3, <2>1, <2>2, AskingTypes, OutsideTableTypes
<1>4. TableTyped' /\ PollingTyped' /\ AskingTyped'
  BY <1>1, <1>2, <1>3, RestTypes, NextCases
<1>5. QED
  BY <1>4 DEF Typed, TypeOK, TableTyped, PollingTyped, AskingTyped, Columns, Stages

-----------------------------------------------------------------------------
(***************************************************************************)
(* What becomes of the messages and of the rows                            *)
(***************************************************************************)
LEMMA IInvParts ==
  ASSUME IInv
  PROVE  /\ TableTyped /\ PollingTyped /\ AskingTyped /\ OnePoll
         /\ \A i \in Instances : alarms[i] <= 1
         /\ \A k \in Ids : RowOK(k)
         /\ \A p \in Polls, i \in Instances : ListOK(p, i) /\ FoundOK(p, i)
         /\ \A u \in Users : UserOK(u)
BY TypedParts DEF IInv

\* A message that is gone never comes back, and one that was there was there.
LEMMA MessageStep ==
  ASSUME IInv, Next, NEW m \in Messages
  PROVE  /\ message[m] = "gone" => message'[m] = "gone"
         /\ message[m] # "unborn" => message'[m] # "unborn"
<1>0. TableTyped /\ PollingTyped /\ AskingTyped
  BY IInvParts
<1> USE DEF TableTyped
<1>1. ASSUME NEW p \in Polls, NEW i \in Instances, PollActs(p, i) PROVE message' = message
  <2>1. alarms[i] <= 1 /\ (poll[p][i] = "alarming" => alarms[i] = 0)
    BY IInvParts DEF FoundOK
  <2>2. QED
    BY <1>0, <1>1, <2>1, PollTableTypes
<1>2. ASSUME Crash \/ \E p \in Polls : StartPoll(p) \/ EndPoll(p) PROVE message' = message
  BY <1>0, <1>2, RestTypes
<1>3. ASSUME NEW n \in Messages, Appear(n) \/ Remove(n)
      PROVE  /\ message[m] = "gone" => message'[m] = "gone"
             /\ message[m] # "unborn" => message'[m] # "unborn"
  BY <1>0, <1>3 DEF Appear, Remove
<1>4. ASSUME NEW u \in Users, NEW i \in Instances, Delete(u, i)
      PROVE  /\ message[m] = "gone" => message'[m] = "gone"
             /\ message[m] # "unborn" => message'[m] # "unborn"
  BY <1>0, <1>4, DeleteLeaves
<1>5. ASSUME NEW u \in Users, AskForOne(u) \/ AskForAll(u) \/ Update(u) \/ UpdateFails(u)
      PROVE  message' = message
  BY <1>5 DEF AskForOne, AskForAll, Ask, Update, UpdateFails
<1>6. ASSUME NEW i \in Instances, HideAlarm(i) PROVE message' = message
  BY <1>6 DEF HideAlarm
<1>7. ASSUME NEW k \in Ids, Expire(k) PROVE message' = message
  BY <1>7 DEF Expire
<1>8. QED
  BY <1>1, <1>2, <1>3, <1>4, <1>5, <1>6, <1>7, NextCases DEF Outside, UserActs

LEMMA PollRowStep ==
  ASSUME IInv, NEW p \in Polls, NEW i \in Instances, PollActs(p, i)
  PROVE  RowsClose \/ Adds(p, i)
<1>0. TableTyped /\ PollingTyped
  BY IInvParts
<1> USE DEF TableTyped, RowsClose, Closes, Columns
<1>1. ASSUME Resolve(p, i) PROVE RowsClose
  <2> SUFFICES ASSUME NEW k \in Ids, row'[k] # row[k] PROVE Closes(k)
    OBVIOUS
  <2>1. k \in found[p][i] /\ row[k].state = "open" /\ row'[k] = [row[k] EXCEPT !.state = "resolved"]
    BY <1>1 DEF Resolve
  <2>2. poll[p][i] = "resolving"
    BY <1>1 DEF Resolve, Step
  <2>3. Gone(k)
    BY <2>1, <2>2, IInvParts DEF FoundOK
  <2>4. QED
    BY <1>0, <2>1, <2>3
<1>2. QED
  BY <1>0, <1>1, PollRows

LEMMA OutsideRows ==
  ASSUME IInv, Outside
  PROVE  RowsClose
<1>0. TableTyped /\ AskingTyped /\ \A k \in Ids : RowOK(k)
  BY IInvParts
<1> USE DEF TableTyped, RowsClose, Closes, Columns
<1>1. ASSUME NEW n \in Messages, Appear(n) \/ Remove(n) PROVE row' = row
  BY <1>1 DEF Appear, Remove, table
<1>2. ASSUME NEW u \in Users, NEW i \in Instances, Delete(u, i) PROVE row' = row
  BY <1>0, <1>2, DeleteLeaves DEF table
<1>3. ASSUME NEW u \in Users, AskForOne(u) \/ AskForAll(u) \/ UpdateFails(u) PROVE row' = row
  BY <1>3 DEF AskForOne, AskForAll, Ask, UpdateFails, table
<1>4. ASSUME NEW u \in Users, Update(u) PROVE RowsClose
  <2> SUFFICES ASSUME NEW k \in Ids, row'[k] # row[k] PROVE Closes(k)
    OBVIOUS
  <2>1. k \in good[u] /\ row[k].state # "expired"
        /\ (\/ row'[k] = [row[k] EXCEPT !.state = "hidden"]
            \/ row'[k] = [row[k] EXCEPT !.read = TRUE])
    BY <1>4 DEF Update
  <2>2. Gone(k) /\ row[k].state # "none"
    BY <2>1, IInvParts DEF UserOK
  <2>3. QED
    BY <1>0, <2>1, <2>2
<1>5. ASSUME NEW i \in Instances, HideAlarm(i) PROVE row' = row
  BY <1>5 DEF HideAlarm
<1>6. ASSUME NEW k \in Ids, Expire(k) PROVE RowsClose
  BY <1>0, <1>6 DEF Expire
<1>7. QED
  BY <1>1, <1>2, <1>3, <1>4, <1>5, <1>6 DEF Outside, UserActs

\* Rows are closed, unless a poll adds one.
LEMMA RowStep ==
  ASSUME IInv, Next
  PROVE  \/ RowsClose
         \/ \E p \in Polls, i \in Instances : PollActs(p, i) /\ Adds(p, i)
<1>1. ASSUME NEW p \in Polls, NEW i \in Instances, PollActs(p, i)
      PROVE  RowsClose \/ Adds(p, i)
  BY <1>1, PollRowStep
<1>2. ASSUME Crash \/ \E p \in Polls : StartPoll(p) \/ EndPoll(p) PROVE RowsClose
  BY <1>2, RestTypes, IInvParts DEF table, RowsClose
<1>3. QED
  BY <1>1, <1>2, OutsideRows, NextCases

LEMMA ClosingKeeps ==
  ASSUME TableTyped, TableTyped', RowsClose
  PROVE  /\ \A m : Rows(m)' = Rows(m) /\ Open(m)' \subseteq Open(m)
         /\ \A i : OpenAt(i)' \subseteq OpenAt(i)
         /\ \A k \in Ids : row'[k].about = row[k].about
                           /\ (row[k].state # "none" <=> row'[k].state # "none")
<1>1. \A k \in Ids : /\ row'[k].about = row[k].about
                     /\ row[k].state # "none" <=> row'[k].state # "none"
                     /\ row'[k].state = "open" => row[k].state = "open"
  BY DEF RowsClose, Closes
<1>2. QED
  BY <1>1 DEF Rows, Open, OpenAt

\* Row k of message m is what a poll has added.
Adding(p, i, m, k) ==
  /\ current[p][i] = m /\ m \in listed[p][i] /\ Home[m] = i /\ message[m] # "unborn"
  /\ poll[p][i] = "writing" /\ found[p][i] = {}
  /\ row[k].state = "none" /\ row[k].about = None
  /\ row'[k] = [about |-> m, state |-> "open", read |-> FALSE]
  /\ \A j \in Ids : j # k => row'[j] = row[j]
  /\ Rows(m)' = Rows(m) \cup {k} /\ Open(m)' = {k} /\ Open(m) = {}
  /\ \A n \in Messages : n # m => Rows(n)' = Rows(n) /\ Open(n)' = Open(n)

\* What a poll adds is the one open row of a message that its Pi-hole has listed.
LEMMA AddingKeeps ==
  ASSUME IInv, NEW p \in Polls, NEW i \in Instances, Adds(p, i)
  PROVE  \E m \in Messages, k \in Ids : Adding(p, i, m, k)
<1>0. TableTyped /\ PollingTyped /\ \A k \in Ids : RowOK(k)
  BY IInvParts
<1>1. poll[p][i] = "writing" /\ found[p][i] = {}
  BY DEF Adds
<1>2. current[p][i] \in listed[p][i] /\ Open(current[p][i]) = {}
  BY <1>1, IInvParts DEF FoundOK
<1>3. PICK m \in Messages : current[p][i] = m
  BY <1>0, <1>2 DEF PollingTyped
<1>4. m \in listed[p][i] /\ Home[m] = i /\ message[m] # "unborn" /\ Open(m) = {}
  BY <1>2, <1>3, IInvParts DEF ListOK
<1>5. PICK k \in Ids : /\ row[k].state = "none"
                       /\ row' = [row EXCEPT ![k] = [about |-> m, state |-> "open", read |-> FALSE]]
  BY <1>3 DEF Adds
<1>6. row[k].about = None
  BY <1>0, <1>5 DEF RowOK
<1>7. row'[k] = [about |-> m, state |-> "open", read |-> FALSE] /\ \A j \in Ids : j # k => row'[j] = row[j]
  BY <1>0, <1>5 DEF TableTyped
<1>8. Rows(m)' = Rows(m) \cup {k}
  BY <1>7 DEF Rows
<1>9. Open(m)' = {k}
  BY <1>4, <1>7, <1>8 DEF Rows, Open
<1>10. \A n \in Messages : n # m => Rows(n)' = Rows(n) /\ Open(n)' = Open(n)
  BY <1>6, <1>7, NoneAssumption DEF Rows, Open
<1>11. QED
  BY <1>1, <1>3, <1>4, <1>5, <1>6, <1>7, <1>8, <1>9, <1>10 DEF Adding

-----------------------------------------------------------------------------
(***************************************************************************)
(* The parts of the invariant that are about rows, requests and the flag   *)
(***************************************************************************)
LEMMA RowsStep ==
  ASSUME IInv, Next, NEW k \in Ids
  PROVE  RowOK(k)'
<1>0. TableTyped /\ PollingTyped /\ RowOK(k)
  BY IInvParts
<1>1. \A m \in Messages : /\ message[m] = "gone" => message'[m] = "gone"
                          /\ message[m] # "unborn" => message'[m] # "unborn"
  BY MessageStep
<1>2. row[k].about \in Messages \cup {None} /\ (row[k].state # "none" => row[k].about \in Messages)
  BY <1>0 DEF TableTyped, Columns, RowOK
<1>3. CASE row'[k] = row[k]
  <2>1. row[k].state \in {"resolved", "hidden"} \/ row[k].read => row[k].about \in Messages
    BY <1>0, <1>2 DEF RowOK
  <2>2. QED
    BY <1>0, <1>1, <1>2, <1>3, <2>1 DEF RowOK, Gone
<1>4. CASE Closes(k)
  BY <1>0, <1>1, <1>2, <1>4 DEF RowOK, Gone, Closes
<1>5. ASSUME NEW p \in Polls, NEW i \in Instances, Adds(p, i), row'[k] # row[k]
      PROVE  RowOK(k)'
  <2>1. PICK m \in Messages, j \in Ids : Adding(p, i, m, j)
    BY <1>5, AddingKeeps
  <2>2. message[m] # "unborn" /\ row'[k] = [about |-> m, state |-> "open", read |-> FALSE]
    BY <1>5, <2>1 DEF Adding
  <2>3. QED
    BY <1>1, <2>2, NoneAssumption DEF RowOK
<1>6. QED
  BY <1>3, <1>4, <1>5, RowStep DEF RowsClose

LEMMA OpenStep ==
  ASSUME IInv, Next, NEW m \in Messages
  PROVE  OneOpen(m)'
<1>0. TableTyped /\ TableTyped' /\ OneOpen(m)
  BY StepTyped, IInvParts DEF IInv, Typed, TypeOK, TableTyped, Columns
<1>1. CASE RowsClose
  <2>1. Open(m)' \subseteq Open(m)
    BY <1>0, <1>1, ClosingKeeps
  <2>2. QED
    BY <1>0, <2>1 DEF OneOpen
<1>2. ASSUME NEW p \in Polls, NEW i \in Instances, Adds(p, i)
      PROVE  OneOpen(m)'
  <2>1. PICK n \in Messages, k \in Ids : Adding(p, i, n, k)
    BY <1>2, AddingKeeps
  <2>2. CASE n = m
    BY <2>1, <2>2 DEF Adding, OneOpen
  <2>3. CASE n # m
    BY <1>0, <2>1, <2>3 DEF Adding, OneOpen
  <2>4. QED
    BY <2>2, <2>3
<1>3. QED
  BY <1>1, <1>2, RowStep

LEMMA AlarmStep ==
  ASSUME IInv, Next, NEW i \in Instances
  PROVE  alarms'[i] <= 1
<1>0. TableTyped /\ PollingTyped /\ AskingTyped /\ alarms[i] <= 1 /\ \A j \in Instances : alarms[j] <= 1
  BY IInvParts
<1>1. ASSUME NEW p \in Polls, NEW j \in Instances, PollActs(p, j) PROVE alarms'[i] <= 1
  <2>1. alarms[j] <= 1 /\ (poll[p][j] = "alarming" => alarms[j] = 0)
    BY IInvParts DEF FoundOK
  <2>2. QED
    BY <1>0, <1>1, <2>1, PollTableTypes
<1>2. ASSUME Outside PROVE alarms'[i] <= 1
  <2>1. TableTyped' /\ alarms'[i] <= alarms[i]
    BY <1>0, <1>2, OutsideTableTypes
  <2>2. alarms[i] \in Nat /\ alarms'[i] \in Nat
    BY <1>0, <2>1, BoundsAssumption DEF TableTyped
  <2>3. QED
    BY <1>0, <2>1, <2>2
<1>3. ASSUME Crash \/ \E p \in Polls : StartPoll(p) \/ EndPoll(p) PROVE alarms'[i] <= 1
  BY <1>0, <1>3, RestTypes DEF table
<1>4. QED
  BY <1>1, <1>2, <1>3, NextCases

LEMMA PollIsAtWork ==
  ASSUME PollingTyped, NEW p \in Polls, NEW i \in Instances, PollActs(p, i)
  PROVE  poll[p][i] # "idle" /\ syncInProgress' = syncInProgress
BY DEF PollActs, PollWork, List, ListFails, FindRow, WriteRow, FindMissing, Resolve,
  PollSucceeds, FindAlarm, RaiseAlarm, WriteRowFails, StatementFails, Step, Quiet

LEMMA OnePollStep ==
  ASSUME IInv, Next
  PROVE  OnePoll'
<1>0. TableTyped /\ PollingTyped /\ AskingTyped /\ OnePoll
  BY IInvParts
<1>1. ASSUME NEW p \in Polls, NEW i \in Instances, PollActs(p, i) PROVE OnePoll'
  <2>1. \A q \in Polls, j \in Instances : poll'[q][j] # "idle" => poll[q][j] # "idle"
    BY <1>0, <1>1, OtherPollsStay, PollIsAtWork
  <2>2. QED
    BY <1>0, <1>1, <2>1, PollIsAtWork DEF OnePoll
<1>2. ASSUME NEW p \in Polls, StartPoll(p) PROVE OnePoll'
  <2>1. ~syncInProgress /\ syncInProgress' = TRUE
    BY <1>2 DEF StartPoll
  <2>2. \A q \in Polls, j \in Instances : poll[q][j] = "idle"
    BY <1>0, <2>1 DEF OnePoll
  <2>3. \A q \in Polls, j \in Instances : q # p => poll'[q][j] = poll[q][j]
    BY <1>0, <1>2 DEF StartPoll, PollingTyped
  <2>4. QED
    BY <2>1, <2>2, <2>3 DEF OnePoll
<1>3. ASSUME NEW p \in Polls, EndPoll(p) PROVE OnePoll'
  <2>1. \A i \in Instances : poll[p][i] = "polled"
    BY <1>3 DEF EndPoll
  <2>2. \A q \in Polls, j \in Instances : poll'[q][j] = IF q = p THEN "idle" ELSE poll[q][j]
    BY <1>0, <1>3 DEF EndPoll, PollingTyped
  <2>3. \A q \in Polls, j \in Instances : q # p => poll[q][j] = "idle"
    BY <1>0, <2>1 DEF OnePoll
  <2>4. QED
    BY <2>2, <2>3 DEF OnePoll
<1>4. CASE Outside
  BY <1>0, <1>4, OutsideLeaves DEF polling, OnePoll
<1>5. CASE Crash
  BY <1>5 DEF Crash, Everywhere, OnePoll
<1>6. QED
  BY <1>1, <1>2, <1>3, <1>4, <1>5, NextCases

\* Rows that are there stay there, about the same message.
LEMMA ThereStays ==
  ASSUME IInv, Next, NEW k \in Ids, row[k].state # "none"
  PROVE  /\ row'[k].state # "none" /\ row'[k].about = row[k].about /\ row[k].about \in Messages
         /\ Gone(k) => Gone(k)'
<1>0. TableTyped /\ RowOK(k)
  BY IInvParts
<1>1. row[k].about \in Messages
  BY <1>0 DEF TableTyped, Columns, RowOK
<1>2. row'[k] = row[k] \/ Closes(k)
  <2>1. ASSUME NEW p \in Polls, NEW i \in Instances, Adds(p, i) PROVE row'[k] = row[k]
    BY <2>1, AddingKeeps DEF Adding
  <2>2. QED
    BY <2>1, RowStep DEF RowsClose
<1>3. row'[k].state # "none" /\ row'[k].about = row[k].about
  BY <1>2 DEF Closes
<1>4. Gone(k) => Gone(k)'
  BY <1>1, <1>3, MessageStep DEF Gone
<1>5. QED
  BY <1>1, <1>3, <1>4

LEMMA UserStep ==
  ASSUME IInv, Next, NEW u \in Users
  PROVE  UserOK(u)'
<1>0. TableTyped /\ PollingTyped /\ AskingTyped /\ UserOK(u)
  BY IInvParts
<1>1. ASSUME aim'[u] \cup good'[u] \subseteq aim[u] \cup good[u], good'[u] \subseteq good[u]
      PROVE  UserOK(u)'
  BY <1>0, <1>1, ThereStays DEF UserOK, AskingTyped
<1>2. ASSUME NEW p \in Polls, NEW i \in Instances, PollActs(p, i) PROVE UserOK(u)'
  <2>1. alarms[i] <= 1 /\ (poll[p][i] = "alarming" => alarms[i] = 0)
    BY IInvParts DEF FoundOK
  <2>2. aim' = aim /\ good' = good
    BY <1>0, <1>2, <2>1, PollTableTypes DEF asking
  <2>3. QED
    BY <1>1, <2>2
<1>3. CASE Crash
  BY <1>1, <1>3 DEF Crash
<1>4. ASSUME NEW p \in Polls, StartPoll(p) \/ EndPoll(p) PROVE UserOK(u)'
  BY <1>1, <1>4 DEF StartPoll, EndPoll, asking
<1>5. ASSUME NEW m \in Messages, Appear(m) \/ Remove(m) PROVE UserOK(u)'
  BY <1>1, <1>5 DEF Appear, Remove, asking
<1>6. ASSUME NEW i \in Instances, HideAlarm(i) PROVE UserOK(u)'
  BY <1>1, <1>6 DEF HideAlarm, asking
<1>7. ASSUME NEW k \in Ids, Expire(k) PROVE UserOK(u)'
  BY <1>1, <1>7 DEF Expire, asking
<1>8. ASSUME NEW v \in Users, Update(v) \/ UpdateFails(v) PROVE UserOK(u)'
  BY <1>0, <1>1, <1>8 DEF Update, UpdateFails, Over, AskingTyped
<1>9. ASSUME NEW v \in Users, AskForOne(v) \/ AskForAll(v) PROVE UserOK(u)'
  <2>1. CASE u # v
    BY <1>0, <1>1, <1>9, <2>1, AskLeaves DEF AskingTyped
  <2>2. CASE u = v
    <3>1. PICK rows \in SUBSET Ids : /\ aim' = [aim EXCEPT ![u] = rows]
                                     /\ \A k \in rows : row[k].state # "none"
      BY <1>0, <1>9, <2>2, AskLeaves
    <3>2. good' = good /\ aim'[u] = rows
      BY <1>0, <1>9, <3>1, AskLeaves DEF AskingTyped
    <3>3. QED
      BY <1>0, <3>1, <3>2, ThereStays DEF UserOK, AskingTyped
  <2>3. QED
    BY <2>1, <2>2
<1>10. ASSUME NEW v \in Users, NEW i \in Instances, Delete(v, i) PROVE UserOK(u)'
  <2>1. PICK ok \in SUBSET aim[v] :
          /\ message' = [m \in Messages |-> IF \E k \in ok : row[k].about = m
                                             THEN "gone" ELSE message[m]]
          /\ \/ Over(v)
             \/ /\ aim' = [aim EXCEPT ![v] = @ \ At(i, aim[v])]
                /\ good' = [good EXCEPT ![v] = @ \cup ok]
    BY <1>0, <1>10, DeleteLeaves
  <2>2. CASE Over(v) \/ u # v
    BY <1>0, <1>1, <2>1, <2>2 DEF Over, AskingTyped
  <2>3. CASE u = v /\ ~Over(v)
    <3>1. aim'[u] \subseteq aim[u] /\ good'[u] = good[u] \cup ok
      BY <1>0, <2>1, <2>3 DEF AskingTyped
    <3>2. ASSUME NEW k \in ok PROVE Gone(k)' /\ row'[k].state # "none"
      <4>1. k \in Ids /\ row[k].state # "none"
        BY <1>0, <2>1, <2>3 DEF UserOK, AskingTyped
      <4>2. row'[k].about = row[k].about /\ row[k].about \in Messages /\ row'[k].state # "none"
        BY <4>1, ThereStays
      <4>3. QED
        BY <2>1, <4>2 DEF Gone
    <3>3. ASSUME NEW k \in aim[u] \cup good[u]
          PROVE  row'[k].state # "none" /\ (k \in good[u] => Gone(k)')
      BY <1>0, <3>3, ThereStays DEF UserOK, AskingTyped
    <3>4. QED
      BY <3>1, <3>2, <3>3 DEF UserOK
  <2>4. QED
    BY <2>2, <2>3
<1>11. QED
  BY <1>2, <1>3, <1>4, <1>5, <1>6, <1>7, <1>8, <1>9, <1>10, NextCases DEF Outside, UserActs

-----------------------------------------------------------------------------
(***************************************************************************)
(* What a poll knows of its Pi-hole                                        *)
(***************************************************************************)
Stays(q, j) ==
  /\ poll'[q][j] = poll[q][j] /\ listed'[q][j] = listed[q][j] /\ todo'[q][j] = todo[q][j]
  /\ current'[q][j] = current[q][j] /\ found'[q][j] = found[q][j]

\* No row of this Pi-hole is added.
NoneAdded(j) ==
  \/ RowsClose
  \/ \E p \in Polls, i \in Instances, m \in Messages, k \in Ids :
       Adding(p, i, m, k) /\ Home[m] # j

LEMMA OpenAtStep ==
  ASSUME IInv, Next, NEW j \in Instances, NoneAdded(j), NEW k \in OpenAt(j)'
  PROVE  k \in OpenAt(j) /\ row'[k].about = row[k].about /\ (Gone(k) => Gone(k)')
<1>0. TableTyped
  BY IInvParts
<1>1. /\ k \in Ids /\ row'[k].state = "open"
      /\ row'[k].about \in Messages /\ Home[row'[k].about] = j
  BY DEF OpenAt, Open, Rows
<1>2. row[k].state = "open" /\ row'[k].about = row[k].about
  <2>1. CASE RowsClose
    BY <1>1, <2>1 DEF RowsClose, Closes
  <2>2. ASSUME NEW p \in Polls, NEW i \in Instances, NEW m \in Messages, NEW n \in Ids,
               Adding(p, i, m, n), Home[m] # j
        PROVE  row'[k] = row[k]
    BY <1>1, <2>2 DEF Adding
  <2>3. QED
    BY <1>1, <2>1, <2>2 DEF NoneAdded
<1>3. k \in OpenAt(j)
  BY <1>0, <1>1, <1>2, OpenTyped
<1>4. Gone(k) => Gone(k)'
  BY <1>1, <1>2, ThereStays
<1>5. QED
  BY <1>2, <1>3, <1>4

LEMMA ListedStep ==
  ASSUME IInv, Next, NEW q \in Polls, NEW j \in Instances,
         listed'[q][j] \in {listed[q][j], {}}
  PROVE  \A m \in listed'[q][j] : Home[m] = j /\ message'[m] # "unborn"
<1> SUFFICES ASSUME NEW m \in listed[q][j] PROVE Home[m] = j /\ message'[m] # "unborn"
  OBVIOUS
<1>1. m \in Messages /\ Home[m] = j /\ message[m] # "unborn"
  BY IInvParts DEF PollingTyped, ListOK
<1>2. QED
  BY <1>1, MessageStep

LEMMA ListStays ==
  ASSUME IInv, Next, NEW q \in Polls, NEW j \in Instances, Stays(q, j), NoneAdded(j)
  PROVE  ListOK(q, j)'
<1>1. \A m \in listed'[q][j] : Home[m] = j /\ message'[m] # "unborn"
  BY ListedStep DEF Stays
<1>2. poll'[q][j] \in {"recording", "writing"} => todo'[q][j] \subseteq listed'[q][j]
  BY IInvParts DEF ListOK, Stays
<1>3. ASSUME poll'[q][j] \in {"recording", "writing", "resolving"},
             NEW k \in OpenAt(j)', row'[k].about \notin listed'[q][j]
      PROVE  Gone(k)'
  <2>1. k \in OpenAt(j) /\ row'[k].about = row[k].about /\ (Gone(k) => Gone(k)')
    BY OpenAtStep
  <2>2. Gone(k)
    BY <1>3, <2>1, IInvParts DEF ListOK, Stays
  <2>3. QED
    BY <2>1, <2>2
<1>4. QED
  BY <1>1, <1>2, <1>3 DEF ListOK

LEMMA FoundStays ==
  ASSUME IInv, Next, NEW q \in Polls, NEW j \in Instances, Stays(q, j), NoneAdded(j),
         poll[q][j] = "alarming" => alarms'[j] = 0
  PROVE  FoundOK(q, j)'
<1>0. TableTyped /\ TableTyped' /\ PollingTyped /\ ListOK(q, j) /\ FoundOK(q, j)
  BY StepTyped, IInvParts DEF Typed, TypeOK, TableTyped, Columns
<1>1. ASSUME poll'[q][j] = "writing"
      PROVE  /\ current'[q][j] \in listed'[q][j] \ todo'[q][j]
             /\ found'[q][j] = {} => Open(current[q][j])' = {}
  <2>1. current[q][j] \in listed[q][j] \ todo[q][j]
        /\ (found[q][j] = {} => Open(current[q][j]) = {})
    BY <1>0, <1>1 DEF FoundOK, Stays
  <2>2. PICK m \in Messages : m = current[q][j]
    BY <1>0, <2>1 DEF PollingTyped
  <2>3. Home[m] = j
    BY <1>0, <2>1, <2>2 DEF ListOK
  <2>4. ASSUME Open(m) = {} PROVE Open(m)' = {}
    <3>1. CASE RowsClose
      BY <1>0, <2>4, <3>1, ClosingKeeps
    <3>2. ASSUME NEW p \in Polls, NEW i \in Instances, NEW n \in Messages, NEW k \in Ids,
                 Adding(p, i, n, k), Home[n] # j
          PROVE  Open(m)' = Open(m)
      BY <2>3, <3>2 DEF Adding
    <3>3. QED
      BY <2>4, <3>1, <3>2 DEF NoneAdded
  <2>5. m = current'[q][j]
    BY <2>2 DEF Stays
  <2>6. found'[q][j] = {} => Open(m)' = {}
    BY <2>1, <2>2, <2>4 DEF Stays
  <2>7. QED
    BY <2>1, <2>5, <2>6 DEF Stays
<1>2. ASSUME poll'[q][j] = "resolving", NEW k \in found'[q][j]
      PROVE  /\ row'[k].about \in Messages \ listed'[q][j]
             /\ Home[row'[k].about] = j /\ Gone(k)'
  <2>1. /\ k \in Ids /\ row[k].about \in Messages \ listed[q][j]
        /\ Home[row[k].about] = j /\ Gone(k)
    BY <1>0, <1>2 DEF FoundOK, Stays, PollingTyped
  <2>2. row[k].state # "none"
    BY <2>1, NoneAssumption, IInvParts DEF RowOK
  <2>3. row'[k].about = row[k].about /\ Gone(k)'
    BY <2>1, <2>2, ThereStays
  <2>4. QED
    BY <2>1, <2>3 DEF Stays
<1>3. poll'[q][j] = "alarming" => alarms'[j] = 0
  BY DEF Stays
<1>4. QED
  BY <1>1, <1>2, <1>3 DEF FoundOK

\* A poll that is not looking at rows knows little.
LEMMA Forgets ==
  ASSUME IInv, Next, NEW q \in Polls, NEW j \in Instances,
         listed'[q][j] \in {listed[q][j], {}},
         poll'[q][j] \notin {"recording", "writing", "resolving", "alarming"}
  PROVE  ListOK(q, j)' /\ FoundOK(q, j)'
<1>1. \A m \in listed'[q][j] : Home[m] = j /\ message'[m] # "unborn"
  BY ListedStep
<1>2. QED
  BY <1>1 DEF ListOK, FoundOK

LEMMA OwnStep ==
  ASSUME IInv, Next, NEW p \in Polls, NEW i \in Instances, PollActs(p, i)
  PROVE  ListOK(p, i)' /\ FoundOK(p, i)'
<1>0. /\ TableTyped /\ PollingTyped /\ AskingTyped /\ ListOK(p, i) /\ FoundOK(p, i)
      /\ \A k \in Ids : RowOK(k)
  BY IInvParts
<1>a. TableTyped' /\ PollingTyped'
  BY StepTyped DEF Typed, TypeOK, TableTyped, PollingTyped, Columns, Stages
<1>1. CASE List(p, i)
  <2> DEFINE present == {m \in Messages : Home[m] = i /\ message[m] = "present"}
  <2>1. poll'[p][i] = "recording" /\ listed'[p][i] = present /\ todo'[p][i] = present
        /\ message' = message /\ row' = row
    BY <1>0, <1>1 DEF List, Step, PollingTyped, table
  <2>2. ASSUME NEW k \in OpenAt(i)', row'[k].about \notin present PROVE Gone(k)'
    <3>1. /\ k \in Ids /\ row'[k].state = "open"
          /\ row'[k].about \in Messages /\ Home[row'[k].about] = i
      BY DEF OpenAt, Open, Rows
    <3>2. message[row[k].about] \in {"unborn", "present", "gone"} /\ message[row[k].about] # "unborn"
      BY <1>0, <2>1, <3>1 DEF RowOK, TableTyped
    <3>3. QED
      BY <2>1, <2>2, <3>1, <3>2 DEF Gone
  <2>3. \A m \in present : Home[m] = i /\ message[m] # "unborn"
    OBVIOUS
  <2> HIDE DEF present
  <2>4. QED
    BY <2>1, <2>2, <2>3 DEF ListOK, FoundOK
<1>2. CASE FindRow(p, i)
  <2>1. PICK m \in todo[p][i] :
          /\ current'[p][i] = m /\ todo'[p][i] = todo[p][i] \ {m} /\ found'[p][i] = Open(m)
          /\ poll[p][i] = "recording" /\ poll'[p][i] = "writing" /\ listed' = listed
          /\ row' = row /\ message' = message
    <3>1. \A m : Open(m) \in SUBSET Ids
      BY <1>0, OpenTyped
    <3>2. QED
      BY <1>0, <1>2, <3>1 DEF FindRow, Step, PollingTyped, table
  <2>2. todo[p][i] \subseteq listed[p][i]
    BY <1>0, <2>1 DEF ListOK
  <2>3. \A k \in OpenAt(i) : row[k].about \notin listed[p][i] => Gone(k)
    BY <1>0, <2>1 DEF ListOK
  <2>4. ListOK(p, i)'
    <3>1. \A n \in listed'[p][i] : Home[n] = i /\ message'[n] # "unborn"
      BY <2>1, ListedStep
    <3>2. OpenAt(i)' = OpenAt(i) /\ \A k : Gone(k)' <=> Gone(k)
      BY <2>1 DEF OpenAt, Open, Rows, Gone
    <3>3. QED
      BY <2>1, <2>2, <2>3, <3>1, <3>2 DEF ListOK
  <2>5. FoundOK(p, i)'
    <3>1. Open(m)' = Open(m)
      BY <2>1 DEF Open, Rows
    <3>2. found'[p][i] = {} => Open(m)' = {}
      BY <2>1, <3>1
    <3>3. current'[p][i] \in listed'[p][i] \ todo'[p][i]
      BY <2>1, <2>2
    <3>4. QED
      BY <2>1, <3>2, <3>3 DEF FoundOK
  <2>6. QED
    BY <2>4, <2>5
<1>3. CASE WriteRow(p, i) /\ poll'[p][i] = "recording"
  <2>1. poll[p][i] = "writing" /\ listed' = listed /\ todo' = todo /\ message' = message
    BY <1>3 DEF WriteRow, Step
  <2>2. \A n \in listed'[p][i] : Home[n] = i /\ message'[n] # "unborn"
    BY <2>1, ListedStep
  <2>3. todo'[p][i] \subseteq listed'[p][i]
    BY <1>0, <2>1 DEF ListOK
  <2>4. ASSUME NEW k \in OpenAt(i)', row'[k].about \notin listed'[p][i] PROVE Gone(k)'
    <3>1. /\ k \in Ids /\ row'[k].state = "open"
          /\ row'[k].about \in Messages /\ Home[row'[k].about] = i
      BY DEF OpenAt, Open, Rows
    <3>2. row'[k] = row[k]
      <4>1. ASSUME Adds(p, i) PROVE row'[k] = row[k]
        <5>1. PICK m \in Messages, j \in Ids : Adding(p, i, m, j)
          BY <4>1, AddingKeeps
        <5>2. QED
          BY <2>1, <2>4, <3>1, <5>1 DEF Adding
      <4>2. QED
        BY <1>0, <1>3, <4>1, WriteAdds
    <3>3. k \in OpenAt(i)
      BY <1>0, <3>1, <3>2, OpenTyped
    <3>4. Gone(k)
      BY <1>0, <2>1, <2>4, <3>2, <3>3 DEF ListOK
    <3>5. QED
      BY <2>1, <3>2, <3>4 DEF Gone
  <2>5. QED
    BY <1>3, <2>2, <2>3, <2>4 DEF ListOK, FoundOK
<1>4. CASE FindMissing(p, i)
  <2>1. /\ poll[p][i] = "recording" /\ poll'[p][i] = "resolving" /\ listed' = listed
        /\ row' = row /\ message' = message
        /\ found'[p][i] = {k \in OpenAt(i) : row[k].about \notin listed[p][i]}
    <3>1. OpenAt(i) \in SUBSET Ids
      BY <1>0, OpenTyped
    <3>2. QED
      BY <1>0, <1>4, <3>1 DEF FindMissing, Step, PollingTyped, table
  <2>2. \A n \in listed'[p][i] : Home[n] = i /\ message'[n] # "unborn"
    BY <2>1, ListedStep
  <2>3. \A k \in OpenAt(i) : row[k].about \notin listed[p][i] => Gone(k)
    BY <1>0, <2>1 DEF ListOK
  <2>4. OpenAt(i)' = OpenAt(i) /\ \A k : Gone(k)' <=> Gone(k)
    BY <2>1 DEF OpenAt, Open, Rows, Gone
  <2>5. ListOK(p, i)'
    BY <2>1, <2>2, <2>3, <2>4 DEF ListOK
  <2>6. ASSUME NEW k \in found'[p][i]
        PROVE  /\ row'[k].about \in Messages \ listed'[p][i]
               /\ Home[row'[k].about] = i /\ Gone(k)'
    BY <1>0, <2>1, <2>3, <2>4, <2>6, OpenTyped
  <2>7. QED
    BY <2>1, <2>5, <2>6 DEF FoundOK
<1>5. CASE FindAlarm(p, i) /\ poll'[p][i] = "alarming"
  <2>1. alarms[i] = 0 /\ alarms' = alarms /\ listed' = listed
    BY <1>0, <1>5, BoundsAssumption DEF FindAlarm, Step, Quiet, PollingTyped, TableTyped
  <2>2. \A n \in listed'[p][i] : Home[n] = i /\ message'[n] # "unborn"
    BY <2>1, ListedStep
  <2>3. QED
    BY <1>5, <2>1, <2>2 DEF ListOK, FoundOK
<1>6. ASSUME poll'[p][i] \notin {"recording", "writing", "resolving", "alarming"}, listed' = listed
      PROVE  ListOK(p, i)' /\ FoundOK(p, i)'
  BY <1>6, Forgets
<1>7. CASE WriteRow(p, i) /\ poll'[p][i] # "recording"
  BY <1>0, <1>6, <1>7 DEF WriteRow, Step, PollingTyped
<1>8. CASE FindAlarm(p, i) /\ poll'[p][i] # "alarming"
  BY <1>0, <1>6, <1>8 DEF FindAlarm, Step, PollingTyped, Quiet
<1>9. CASE ListFails(p, i) \/ WriteRowFails(p, i) \/ StatementFails(p, i) \/ Resolve(p, i)
  BY <1>0, <1>6, <1>9 DEF ListFails, WriteRowFails, StatementFails, Resolve, Step, PollingTyped
<1>10. CASE PollSucceeds(p, i) \/ RaiseAlarm(p, i)
  BY <1>0, <1>6, <1>10 DEF PollSucceeds, RaiseAlarm, Step, PollingTyped, Quiet
<1>11. QED
  BY <1>1, <1>2, <1>3, <1>4, <1>5, <1>7, <1>8, <1>9, <1>10 DEF PollActs, PollWork

\* Two polls that are at work are one, so that only this one adds rows at its Pi-holes.
LEMMA OthersStep ==
  ASSUME IInv, Next, NEW p \in Polls, NEW i \in Instances, PollActs(p, i),
         NEW q \in Polls, NEW j \in Instances, q # p \/ j # i
  PROVE  ListOK(q, j)' /\ FoundOK(q, j)'
<1>0. TableTyped /\ PollingTyped /\ AskingTyped /\ OnePoll /\ ListOK(q, j) /\ FoundOK(q, j)
  BY IInvParts
<1>1. Stays(q, j)
  BY <1>0, OtherPollsStay DEF Stays
<1>2. CASE poll[q][j] = "idle"
  BY <1>1, <1>2, Forgets DEF Stays
<1>3. CASE poll[q][j] # "idle"
  <2>1. j # i
    BY <1>0, <1>3, PollIsAtWork DEF OnePoll
  <2>2. alarms'[j] = alarms[j]
    <3>1. alarms[i] <= 1 /\ (poll[p][i] = "alarming" => alarms[i] = 0)
      BY IInvParts DEF FoundOK
    <3>2. QED
      BY <1>0, <2>1, <3>1, PollTableTypes
  <2>3. NoneAdded(j)
    <3>1. ASSUME Adds(p, i) PROVE NoneAdded(j)
      <4>1. PICK m \in Messages, k \in Ids : Adding(p, i, m, k)
        BY <3>1, AddingKeeps
      <4>2. QED
        BY <2>1, <4>1 DEF Adding, NoneAdded
    <3>2. QED
      BY <3>1, PollRowStep DEF NoneAdded
  <2>4. poll[q][j] = "alarming" => alarms'[j] = 0
    BY <1>0, <2>2 DEF FoundOK
  <2>5. QED
    BY <1>1, <2>3, <2>4, ListStays, FoundStays
<1>4. QED
  BY <1>2, <1>3

LEMMA PollsStep ==
  ASSUME IInv, Next, NEW q \in Polls, NEW j \in Instances
  PROVE  ListOK(q, j)' /\ FoundOK(q, j)'
<1>0. /\ TableTyped /\ TableTyped' /\ PollingTyped /\ AskingTyped
      /\ FoundOK(q, j) /\ \A i \in Instances : alarms[i] <= 1
  BY StepTyped, IInvParts DEF Typed, TypeOK, TableTyped, Columns
<1>1. ASSUME NEW p \in Polls, NEW i \in Instances, PollActs(p, i)
      PROVE  ListOK(q, j)' /\ FoundOK(q, j)'
  BY <1>1, OwnStep, OthersStep
<1>2. CASE Outside
  <2>1. Stays(q, j) /\ NoneAdded(j)
    BY <1>0, <1>2, OutsideLeaves, OutsideRows DEF polling, Stays, NoneAdded
  <2>2. poll[q][j] = "alarming" => alarms'[j] = 0
    <3>1. alarms'[j] <= alarms[j]
      BY <1>0, <1>2, OutsideTableTypes
    <3>2. alarms[j] \in Nat /\ alarms'[j] \in Nat
      BY <1>0, BoundsAssumption DEF TableTyped
    <3>3. QED
      BY <1>0, <3>1, <3>2 DEF FoundOK
  <2>3. QED
    BY <2>1, <2>2, ListStays, FoundStays
<1>3. ASSUME NEW p \in Polls, StartPoll(p) \/ EndPoll(p)
      PROVE  ListOK(q, j)' /\ FoundOK(q, j)'
  <2>1. CASE p = q
    <3>1. poll'[q][j] \in {"listing", "idle"} /\ listed'[q][j] \in {listed[q][j], {}}
      BY <1>0, <1>3, <2>1 DEF StartPoll, EndPoll, PollingTyped
    <3>2. QED
      BY <3>1, Forgets
  <2>2. CASE p # q
    <3>1. Stays(q, j) /\ UNCHANGED table
      BY <1>0, <1>3, <2>2 DEF StartPoll, EndPoll, PollingTyped, Stays
    <3>2. NoneAdded(j) /\ (poll[q][j] = "alarming" => alarms'[j] = 0)
      BY <1>0, <3>1 DEF table, NoneAdded, RowsClose, FoundOK
    <3>3. QED
      BY <3>1, <3>2, ListStays, FoundStays
  <2>3. QED
    BY <2>1, <2>2
<1>4. CASE Crash
  <2>1. poll'[q][j] = "idle" /\ listed'[q][j] = {}
    BY <1>4 DEF Crash, Everywhere
  <2>2. QED
    BY <2>1, Forgets
<1>5. QED
  BY <1>1, <1>2, <1>3, <1>4, NextCases

-----------------------------------------------------------------------------
(***************************************************************************)
(* Every row but one is excused                                            *)
(***************************************************************************)
Pending(m, q, j) == poll[q][j] = "writing" /\ current[q][j] = m /\ found[q][j] = {}

Awaited(m, q, j) == poll[q][j] \in {"recording", "writing"} /\ m \in todo[q][j]

LEMMA MayComeCases ==
  ASSUME NEW m
  PROVE  MayCome(m) <=> \/ message[m] # "gone"
                        \/ \E q \in Polls, j \in Instances : Awaited(m, q, j) \/ Pending(m, q, j)
BY DEF MayCome, Raced, Pending, Awaited

LEMMA MayComeCasesNext ==
  ASSUME NEW m
  PROVE  MayCome(m)' <=> \/ message'[m] # "gone"
                         \/ \E q \in Polls, j \in Instances : Awaited(m, q, j)' \/ Pending(m, q, j)'
BY DEF MayCome, Raced, Pending, Awaited

\* A poll expects no message but those that were there when it listed them.
LEMMA PollMayCome ==
  ASSUME IInv, NEW p \in Polls, NEW i \in Instances, PollActs(p, i), NEW m \in Messages, MayCome(m)'
  PROVE  MayCome(m)
<1>0. TableTyped /\ PollingTyped
  BY IInvParts
<1>1. message' = message
  <2>1. alarms[i] <= 1 /\ (poll[p][i] = "alarming" => alarms[i] = 0)
    BY IInvParts DEF FoundOK
  <2>2. QED
    BY <1>0, <2>1, PollTableTypes
<1>2. CASE message'[m] # "gone"
  BY <1>1, <1>2, MayComeCases
<1>3. ASSUME NEW q \in Polls, NEW j \in Instances, q # p \/ j # i,
             Awaited(m, q, j)' \/ Pending(m, q, j)'
      PROVE  MayCome(m)
  <2>1. Awaited(m, q, j) \/ Pending(m, q, j)
    BY <1>0, <1>3, OtherPollsStay DEF Awaited, Pending
  <2>2. QED
    BY <2>1, MayComeCases
<1>4. ASSUME Awaited(m, p, i)' \/ Pending(m, p, i)'
      PROVE  message[m] # "gone" \/ Awaited(m, p, i)
  <2> USE DEF PollingTyped, Awaited, Pending, Step
  <2>1. CASE List(p, i)
    BY <1>0, <1>4, <2>1 DEF List
  <2>2. CASE FindRow(p, i)
    BY <1>0, <1>4, <2>2 DEF FindRow
  <2>3. CASE WriteRow(p, i)
    BY <1>0, <1>4, <2>3 DEF WriteRow
  <2>4. CASE ListFails(p, i) \/ WriteRowFails(p, i) \/ StatementFails(p, i)
    BY <1>0, <1>4, <2>4 DEF ListFails, WriteRowFails, StatementFails
  <2>5. CASE FindMissing(p, i) \/ Resolve(p, i) \/ PollSucceeds(p, i)
    BY <1>0, <1>4, <2>5 DEF FindMissing, Resolve, PollSucceeds
  <2>6. CASE FindAlarm(p, i) \/ RaiseAlarm(p, i)
    BY <1>0, <1>4, <2>6 DEF FindAlarm, RaiseAlarm
  <2>7. QED
    BY <2>1, <2>2, <2>3, <2>4, <2>5, <2>6 DEF PollActs, PollWork
<1>5. QED
  BY <1>2, <1>3, <1>4, MayComeCases, MayComeCasesNext

LEMMA RestMayCome ==
  ASSUME IInv, Crash \/ \E p \in Polls : StartPoll(p) \/ EndPoll(p), NEW m \in Messages, MayCome(m)'
  PROVE  MayCome(m)
<1>0. TableTyped /\ PollingTyped /\ AskingTyped
  BY IInvParts
<1>1. message' = message
  BY <1>0, RestTypes
<1>2. ASSUME NEW q \in Polls, NEW j \in Instances, Awaited(m, q, j)' \/ Pending(m, q, j)'
      PROVE  Awaited(m, q, j) \/ Pending(m, q, j)
  <2>1. CASE Crash
    BY <1>2, <2>1 DEF Crash, Everywhere, Awaited, Pending
  <2>2. ASSUME NEW p \in Polls, StartPoll(p) PROVE Awaited(m, q, j) \/ Pending(m, q, j)
    BY <1>0, <1>2, <2>2 DEF StartPoll, PollingTyped, Awaited, Pending
  <2>3. ASSUME NEW p \in Polls, EndPoll(p) PROVE Awaited(m, q, j) \/ Pending(m, q, j)
    BY <1>0, <1>2, <2>3 DEF EndPoll, PollingTyped, Awaited, Pending
  <2>4. QED
    BY <2>1, <2>2, <2>3
<1>3. QED
  BY <1>1, <1>2, MayComeCases, MayComeCasesNext

LEMMA OutsideMayCome ==
  ASSUME IInv, Next, Outside, NEW m \in Messages, MayCome(m)'
  PROVE  MayCome(m)
<1>1. UNCHANGED polling
  BY IInvParts, OutsideLeaves
<1>2. \A q \in Polls, j \in Instances :
        (Awaited(m, q, j)' => Awaited(m, q, j)) /\ (Pending(m, q, j)' => Pending(m, q, j))
  BY <1>1 DEF polling, Awaited, Pending
<1>3. message[m] = "gone" => message'[m] = "gone"
  BY MessageStep
<1>4. QED
  BY <1>2, <1>3, MayComeCases, MayComeCasesNext

LEMMA SomeCounts ==
  ASSUME NEW rows \in SUBSET Ids, rows # {}
  PROVE  Cardinality(rows) >= 1
<1>1. IsFiniteSet(rows) /\ Cardinality(rows) \in Nat
  BY IdsFinite
<1>2. Cardinality(rows) # 0
  BY <1>1, FS_EmptySet
<1>3. QED
  BY <1>1, <1>2

\* The last open row of a message is closed without an excuse only if none can come.
LEMMA BookedKeeps ==
  ASSUME IInv, Next, NEW m \in Messages, RowsClose, excuse'[m] >= excuse[m],
         MayCome(m)' => MayCome(m),
         MayCome(m)' /\ Open(m)' = {} /\ Open(m) # {} => excuse'[m] >= excuse[m] + 1
  PROVE  Booked(m)'
<1>0. TableTyped /\ TableTyped' /\ Booked(m)
  BY StepTyped DEF IInv, Typed, TypeOK, TableTyped, Columns
<1>1. Rows(m)' = Rows(m) /\ Cardinality(Rows(m)) \in Nat
  BY <1>0, ClosingKeeps, OpenTyped, IdsFinite
<1>2. excuse[m] \in Nat /\ excuse'[m] \in Nat
  BY <1>0 DEF TableTyped
<1>3. Cardinality(Rows(m)') <= 1 + excuse'[m]
  BY <1>0, <1>1, <1>2 DEF Booked
<1>4. ASSUME MayCome(m)', Open(m)' = {} PROVE Cardinality(Rows(m)') <= excuse'[m]
  BY <1>0, <1>1, <1>2, <1>4 DEF Booked
<1>5. QED
  BY <1>3, <1>4 DEF Booked

LEMMA BookedAdds ==
  ASSUME IInv, Next, NEW p \in Polls, NEW i \in Instances, NEW n \in Messages, NEW k \in Ids,
         Adding(p, i, n, k), NEW m \in Messages, excuse' = excuse, MayCome(m)' => MayCome(m)
  PROVE  Booked(m)'
<1>0. TableTyped /\ Booked(m)
  BY IInvParts DEF IInv
<1>1. excuse[m] \in Nat /\ Rows(m) \in SUBSET Ids /\ IsFiniteSet(Rows(m)) /\ Cardinality(Rows(m)) \in Nat
  BY <1>0, OpenTyped, IdsFinite DEF TableTyped
<1>2. CASE m = n
  <2>1. MayCome(m) /\ Open(m) = {}
    BY <1>2, MayComeCases DEF Adding, Pending
  <2>2. Cardinality(Rows(m)) <= excuse[m]
    BY <1>0, <2>1 DEF Booked
  <2>3. k \notin Rows(m)
    BY <1>2, NoneAssumption DEF Adding, Rows
  <2>4. Rows(m)' = Rows(m) \cup {k} /\ Open(m)' # {}
    BY <1>2 DEF Adding
  <2>5. Cardinality(Rows(m)') = Cardinality(Rows(m)) + 1
    BY <1>1, <2>3, <2>4, FS_AddElement
  <2>6. Cardinality(Rows(m)') <= 1 + excuse'[m]
    BY <1>1, <2>2, <2>5
  <2>7. QED
    BY <2>4, <2>6 DEF Booked
<1>3. CASE m # n
  <2>1. Rows(m)' = Rows(m) /\ Open(m)' = Open(m)
    BY <1>3 DEF Adding
  <2>2. QED
    BY <1>0, <2>1 DEF Booked
<1>4. QED
  BY <1>2, <1>3

\* A poll resolves the row of a message that no poll expects.
LEMMA ResolvedIsNotExpected ==
  ASSUME IInv, Next, NEW p \in Polls, NEW i \in Instances, Resolve(p, i),
         NEW m \in Messages, Open(m)' = {}, Open(m) # {}
  PROVE  ~MayCome(m)'
<1>0. TableTyped /\ PollingTyped /\ OnePoll
  BY IInvParts
<1>1. poll[p][i] = "resolving" /\ poll'[p][i] = "clearing" /\ message' = message
  BY <1>0 DEF Resolve, Step, PollingTyped
<1>2. PICK k \in Ids : row[k].about = m /\ row[k].state = "open"
  BY DEF Open, Rows
<1>3. k \in found[p][i]
  BY <1>2 DEF Resolve, Open, Rows
<1>4. Home[m] = i /\ message[m] = "gone"
  BY <1>1, <1>2, <1>3, IInvParts DEF FoundOK, Gone
<1>5. ASSUME NEW q \in Polls, NEW j \in Instances, Awaited(m, q, j)' \/ Pending(m, q, j)'
      PROVE  FALSE
  <2>1. q # p \/ j # i
    BY <1>1, <1>5 DEF Awaited, Pending
  <2>2. PollActs(p, i)
    BY DEF PollActs, PollWork
  <2>3. Awaited(m, q, j) \/ Pending(m, q, j)
    BY <1>0, <1>5, <2>1, <2>2, OtherPollsStay DEF Awaited, Pending
  <2>4. q = p
    BY <1>0, <1>1, <2>3 DEF OnePoll, Awaited, Pending
  <2>5. m \in listed[q][j]
    BY <2>3, IInvParts DEF Awaited, Pending, ListOK, FoundOK
  <2>6. Home[m] = j
    BY <2>5, IInvParts DEF ListOK
  <2>7. QED
    BY <1>4, <2>1, <2>4, <2>6
<1>6. QED
  BY <1>1, <1>4, <1>5, MayComeCasesNext

\* The last open row is hidden before a poll looks it up: there is an excuse for it.
LEMMA OutsideExcuses ==
  ASSUME IInv, Next, Outside, NEW m \in Messages
  PROVE  /\ excuse'[m] >= excuse[m]
         /\ MayCome(m)' /\ Open(m)' = {} /\ Open(m) # {} => excuse'[m] >= excuse[m] + 1
<1> DEFINE Goal == /\ excuse'[m] >= excuse[m]
                   /\ MayCome(m)' /\ Open(m)' = {} /\ Open(m) # {} => excuse'[m] >= excuse[m] + 1
<1>0. TableTyped /\ PollingTyped /\ AskingTyped /\ excuse[m] \in Nat
  BY IInvParts DEF TableTyped
<1>1. ASSUME row' = row, excuse' = excuse PROVE Goal
  <2>1. Open(m)' = Open(m)
    BY <1>1 DEF Open, Rows
  <2>2. excuse[m] >= excuse[m]
    BY <1>0
  <2>3. QED
    BY <1>1, <2>1, <2>2
<1>2. ASSUME NEW rows, Excused(rows),
             MayCome(m)' /\ Open(m)' = {} /\ Open(m) # {} => Rows(m) \cap rows # {}
      PROVE  Goal
  <2>1. /\ excuse'[m] >= excuse[m]
        /\ excuse'[m] = excuse[m] + Cardinality(Rows(m) \cap rows)
    BY <1>0, <1>2, ExcusedTypes
  <2>2. Rows(m) \cap rows \in SUBSET Ids
    BY <1>0, OpenTyped
  <2>3. Rows(m) \cap rows # {} => Cardinality(Rows(m) \cap rows) >= 1
    BY <2>2, SomeCounts
  <2>4. Cardinality(Rows(m) \cap rows) \in Nat
    BY <2>2, IdsFinite
  <2>5. Rows(m) \cap rows # {} => excuse'[m] >= excuse[m] + 1
    BY <1>0, <2>1, <2>3, <2>4
  <2>6. QED
    BY <1>2, <2>1, <2>5
<1>3. ASSUME NEW u \in Users, Update(u) PROVE Goal
  <2> DEFINE kept == {k \in good[u] : row[k].state # "expired"}
             hit == {k \in kept : row[k].state = "open" /\ Raced(row[k].about)}
  <2>1. CASE verb[u] = "hide"
    <3>1. Excused(hit)
      BY <1>3, <2>1 DEF Update
    <3>2. ASSUME MayCome(m)', Open(m)' = {}, Open(m) # {} PROVE Rows(m) \cap hit # {}
      <4>1. PICK k \in Ids : row[k].about = m /\ row[k].state = "open"
        BY <3>2 DEF Open, Rows
      <4>2. k \in kept
        BY <1>3, <3>2, <4>1 DEF Update, Open, Rows
      <4>3. message[m] = "gone"
        BY <4>1, <4>2, IInvParts DEF UserOK, Gone
      <4>4. MayCome(m)
        BY <3>2, OutsideMayCome
      <4>5. \A q \in Polls, j \in Instances : ~Pending(m, q, j)
        BY <3>2, IInvParts DEF Pending, FoundOK
      <4>6. Raced(m)
        BY <4>3, <4>4, <4>5 DEF MayCome, Pending
      <4>7. k \in Rows(m) \cap hit
        BY <4>1, <4>2, <4>6 DEF Rows
      <4>8. QED
        BY <4>7
    <3> HIDE DEF hit, Goal
    <3>3. QED
      BY <1>2, <3>1, <3>2
  <2>2. CASE verb[u] # "hide"
    <3>1. excuse' = excuse
      BY <1>3, <2>2 DEF Update
    <3>2. \A k \in Ids : row'[k].state = row[k].state /\ row'[k].about = row[k].about
      BY <1>0, <1>3, <2>2 DEF Update, TableTyped, Columns
    <3>3. Open(m)' = Open(m)
      BY <3>2 DEF Open, Rows
    <3>4. excuse[m] >= excuse[m]
      BY <1>0
    <3>5. QED
      BY <3>1, <3>3, <3>4
  <2>3. QED
    BY <2>1, <2>2
<1>4. ASSUME NEW k \in Ids, Expire(k) PROVE Goal
  <2> DEFINE hit == IF row[k].state = "open" THEN {k} ELSE {}
  <2>1. Excused(hit)
    BY <1>4 DEF Expire
  <2>2. ASSUME Open(m)' = {}, Open(m) # {} PROVE Rows(m) \cap hit # {}
    <3>1. PICK j \in Ids : row[j].about = m /\ row[j].state = "open"
      BY <2>2 DEF Open, Rows
    <3>2. j = k
      BY <1>0, <1>4, <2>2, <3>1 DEF Expire, Open, Rows, TableTyped
    <3>3. QED
      BY <3>1, <3>2 DEF Rows
  <2> HIDE DEF hit, Goal
  <2>3. QED
    BY <1>2, <2>1, <2>2
<1>5. ASSUME NEW n \in Messages, Appear(n) \/ Remove(n) PROVE row' = row /\ excuse' = excuse
  BY <1>5 DEF Appear, Remove, table
<1>6. ASSUME NEW u \in Users, NEW i \in Instances, Delete(u, i) PROVE row' = row /\ excuse' = excuse
  BY <1>0, <1>6, DeleteLeaves DEF table
<1>7. ASSUME NEW u \in Users, AskForOne(u) \/ AskForAll(u) \/ UpdateFails(u)
      PROVE  row' = row /\ excuse' = excuse
  BY <1>7 DEF AskForOne, AskForAll, Ask, UpdateFails, table
<1>8. ASSUME NEW i \in Instances, HideAlarm(i) PROVE row' = row /\ excuse' = excuse
  BY <1>8 DEF HideAlarm
<1> HIDE DEF Goal
<1>9. Goal
  BY <1>1, <1>3, <1>4, <1>5, <1>6, <1>7, <1>8 DEF Outside, UserActs
<1>10. QED
  BY <1>9 DEF Goal

LEMMA BookedStep ==
  ASSUME IInv, Next, NEW m \in Messages
  PROVE  Booked(m)'
<1>0. TableTyped /\ TableTyped' /\ PollingTyped /\ AskingTyped /\ excuse[m] \in Nat
  BY StepTyped, IInvParts DEF Typed, TypeOK, TableTyped, Columns
<1>1. ASSUME NEW p \in Polls, NEW i \in Instances, PollActs(p, i) PROVE Booked(m)'
  <2>1. excuse' = excuse /\ excuse'[m] >= excuse[m]
    <3>1. alarms[i] <= 1 /\ (poll[p][i] = "alarming" => alarms[i] = 0)
      BY IInvParts DEF FoundOK
    <3>2. excuse' = excuse
      BY <1>0, <1>1, <3>1, PollTableTypes
    <3>3. QED
      BY <1>0, <3>2
  <2>2. MayCome(m)' => MayCome(m)
    BY <1>1, PollMayCome
  <2>3. CASE Adds(p, i)
    <3>1. PICK n \in Messages, k \in Ids : Adding(p, i, n, k)
      BY <2>3, AddingKeeps
    <3>2. QED
      BY <2>1, <2>2, <3>1, BookedAdds
  <2>4. CASE ~Adds(p, i)
    <3>1. RowsClose
      BY <1>1, <2>4, PollRowStep
    <3>2. ASSUME MayCome(m)', Open(m)' = {}, Open(m) # {} PROVE FALSE
      <4>1. CASE Resolve(p, i)
        BY <3>2, <4>1, ResolvedIsNotExpected
      <4>2. CASE row' = row
        BY <3>2, <4>2 DEF Open, Rows
      <4>3. QED
        BY <1>0, <1>1, <2>4, <4>1, <4>2, PollRows
    <3>3. QED
      BY <2>1, <2>2, <3>1, <3>2, BookedKeeps
  <2>5. QED
    BY <2>3, <2>4
<1>2. CASE Outside
  <2>1. RowsClose
    BY <1>2, OutsideRows
  <2>2. MayCome(m)' => MayCome(m)
    BY <1>2, OutsideMayCome
  <2>3. QED
    BY <1>2, <2>1, <2>2, OutsideExcuses, BookedKeeps
<1>3. CASE Crash \/ \E p \in Polls : StartPoll(p) \/ EndPoll(p)
  <2>1. row' = row /\ excuse' = excuse /\ RowsClose
    BY <1>0, <1>3, RestTypes DEF table, RowsClose
  <2>2. MayCome(m)' => MayCome(m)
    BY <1>3, RestMayCome
  <2>3. Open(m)' = Open(m) /\ excuse'[m] >= excuse[m]
    BY <1>0, <2>1 DEF Open, Rows
  <2>4. QED
    BY <2>1, <2>2, <2>3, BookedKeeps
<1>4. QED
  BY <1>1, <1>2, <1>3, NextCases

-----------------------------------------------------------------------------
(***************************************************************************)
(* The theorems                                                            *)
(***************************************************************************)
LEMMA InitInv == Init => IInv
<1> SUFFICES ASSUME Init PROVE IInv
  OBVIOUS
<1> USE DEF Init, NoRow, Everywhere
<1>1. TypeOK
  <2>1. row \in [Ids -> [about : Messages \cup {None}, read : BOOLEAN,
                         state : {"none", "open", "resolved", "hidden", "expired"}]]
    OBVIOUS
  <2>2. 0 \in 0..MaxPolls /\ 0 \in 0..MaxFaults
    BY BoundsAssumption
  <2>3. QED
    BY <2>1, <2>2 DEF TypeOK
<1>2. todo \in [Polls -> [Instances -> SUBSET Messages]]
  OBVIOUS
<1>3. OnePoll /\ \A i \in Instances : alarms[i] <= 1
  BY DEF OnePoll
<1>4. \A k \in Ids : RowOK(k)
  BY DEF RowOK
<1>5. \A m \in Messages : Rows(m) = {} /\ Open(m) = {}
  BY NoneAssumption DEF Rows, Open
<1>6. \A p \in Polls, i \in Instances : ListOK(p, i) /\ FoundOK(p, i)
  BY DEF ListOK, FoundOK
<1>7. \A u \in Users : UserOK(u)
  BY DEF UserOK
<1>8. ASSUME NEW m \in Messages PROVE OneOpen(m) /\ Booked(m)
  <2>1. Rows(m) = {} /\ Open(m) = {} /\ excuse[m] = 0
    BY <1>5
  <2>2. Cardinality(Rows(m)) = 0
    BY <2>1, FS_EmptySet
  <2>3. QED
    BY <2>1, <2>2 DEF OneOpen, Booked
<1>9. QED
  BY <1>1, <1>2, <1>3, <1>4, <1>6, <1>7, <1>8 DEF IInv, Typed

\* The invariant is about every variable and speaks of nothing else.
LEMMA StutterInv == IInv /\ UNCHANGED vars => IInv'
<1> SUFFICES ASSUME IInv, UNCHANGED vars PROVE IInv'
  OBVIOUS
<1>0. /\ message' = message /\ row' = row /\ alarms' = alarms /\ faults' = faults
      /\ excuse' = excuse /\ syncInProgress' = syncInProgress /\ poll' = poll
      /\ listed' = listed /\ todo' = todo /\ current' = current /\ found' = found
      /\ request' = request /\ verb' = verb /\ aim' = aim /\ good' = good
  BY DEF vars, table, polling, asking
<1>1. Typed' /\ OnePoll' /\ \A i \in Instances : alarms'[i] <= 1
  BY <1>0 DEF IInv, Typed, TypeOK, OnePoll
<1>2. \A k \in Ids : RowOK(k)'
  BY <1>0 DEF IInv, RowOK, Gone
<1>3. \A u \in Users : UserOK(u)'
  BY <1>0 DEF IInv, UserOK, Gone
<1>4. ASSUME NEW p \in Polls, NEW i \in Instances PROVE ListOK(p, i)' /\ FoundOK(p, i)'
  <2>1. ListOK(p, i) /\ FoundOK(p, i)
    BY DEF IInv
  <2>2. ListOK(p, i)'
    BY <1>0, <2>1 DEF ListOK, OpenAt, Open, Rows, Gone
  <2>3. FoundOK(p, i)'
    BY <1>0, <2>1 DEF FoundOK, Open, Rows, Gone
  <2>4. QED
    BY <2>2, <2>3
<1>5. ASSUME NEW m \in Messages PROVE OneOpen(m)' /\ Booked(m)'
  <2>1. OneOpen(m) /\ Booked(m)
    BY DEF IInv
  <2>2. Rows(m)' = Rows(m) /\ Open(m)' = Open(m) /\ (MayCome(m)' <=> MayCome(m))
    BY <1>0 DEF Open, Rows, MayCome, Raced
  <2>3. QED
    BY <1>0, <2>1, <2>2 DEF OneOpen, Booked
<1>6. QED
  BY <1>1, <1>2, <1>3, <1>4, <1>5 DEF IInv

LEMMA NextInv == IInv /\ [Next]_vars => IInv'
<1>1. ASSUME IInv, Next PROVE IInv'
  BY <1>1, StepTyped, OnePollStep, AlarmStep, RowsStep, PollsStep, UserStep, OpenStep, BookedStep
    DEF IInv
<1>2. QED
  BY <1>1, StutterInv

LEMMA Invariance == Spec => []IInv
<1>1. QED
  BY InitInv, NextInv, PTL DEF Spec

\* What a user sees: a message in one open row at most, and in a closed one only if it
\* is gone from its Pi-hole.
THEOREM RowsAreRight == Spec => []RowInv
<1>1. IInv => RowInv
  <2> SUFFICES ASSUME IInv PROVE RowInv
    OBVIOUS
  <2>1. TypeOK
    BY DEF IInv, Typed
  <2>2. ASSUME NEW m \in Messages PROVE Cardinality(Open(m)) <= 1
    <3>1. CASE Open(m) = {}
      BY <3>1, FS_EmptySet
    <3>2. ASSUME NEW k \in Open(m) PROVE Cardinality(Open(m)) <= 1
      <4>1. Open(m) = {k}
        BY <3>2 DEF IInv, OneOpen
      <4>2. QED
        BY <4>1, FS_Singleton
    <3>3. QED
      BY <3>1, <3>2
  <2>3. ClosedIsGone
    BY DEF IInv, RowOK, Gone, ClosedIsGone
  <2>4. QED
    BY <2>1, <2>2, <2>3 DEF RowInv, OneOpenRow, IInv
<1>2. QED
  BY <1>1, Invariance, PTL

\* No message is announced twice, unless its open row has expired or was hidden under
\* the eyes of a poll that had listed it.
THEOREM AnnouncementsAreOnce == Spec => []AnnouncedOnce
<1>1. IInv => AnnouncedOnce
  BY DEF IInv, Booked, AnnouncedOnce
<1>2. QED
  BY <1>1, Invariance, PTL
=============================================================================
