---------------------------- MODULE Notifications ---------------------------
(***************************************************************************)
(* NotificationsService: the messages of the Pi-holes, copied into the     *)
(* table Notification by a poll, and what users do with the copies.        *)
(*                                                                         *)
(* No key of the table is unique.  A poll looks for an open row of a       *)
(* message (one that is neither hidden nor resolved), and creates one if   *)
(* there is none, which also announces the message to the browsers.  Rows  *)
(* whose message is gone are resolved.  Users who read or hide a row       *)
(* delete its message at the Pi-hole first.  All of them only meet in the  *)
(* database; the flag syncInProgress keeps polls apart.                    *)
(*                                                                         *)
(* A poll that throws has no handler: the process dies and starts again.   *)
(* A message is known by its id at its Pi-hole, which is never used again. *)
(***************************************************************************)
EXTENDS Naturals, FiniteSets

CONSTANTS Instances,
          Messages,   \* messages of the types the service copies
          Home,       \* the Pi-hole of each message
          MaxPolls,   \* bound on the polls in memory at once
          Users,      \* requests of users: each one is made once
          MaxRows,    \* bound on the rows that are created
          MaxFaults,  \* bound on failures that are not a Pi-hole's
          MaxExpired, \* bound on the rows retention deletes
          None

ASSUME HomeAssumption == Home \in [Messages -> Instances]
ASSUME NoneAssumption == None \notin Messages
ASSUME BoundsAssumption ==
  MaxPolls \in Nat /\ MaxRows \in Nat /\ MaxFaults \in Nat /\ MaxExpired \in Nat

VARIABLES message,   \* each message: unborn, present or gone
          row,       \* the rows about messages
          alarms,    \* how many open rows about a failed poll of each Pi-hole
          syncInProgress,
          poll,      \* where each poll stands at each Pi-hole
          listed,    \* the messages the Pi-hole has listed to it
          todo,      \* those it has yet to record
          current,   \* the one it is recording
          found,     \* the open rows its last query has returned
          request,   \* where each request of a user stands
          verb,      \* read, hide or readAll
          aim,       \* the rows whose message it has yet to delete
          good,      \* the rows it will change
          faults,
          excuse     \* history: how often a message may be announced again

table == <<row, alarms>>
polling == <<syncInProgress, poll, listed, todo, current, found>>
asking == <<request, verb, aim, good>>
vars == <<message, table, polling, asking, faults, excuse>>

Ids == 1..MaxRows
Polls == 1..MaxPolls
NoRow == [about |-> None, state |-> "none", read |-> FALSE]
Everywhere(v) == [p \in Polls |-> [i \in Instances |-> v]]

Init ==
  /\ message = [m \in Messages |-> "unborn"]
  /\ row = [k \in Ids |-> NoRow]
  /\ alarms = [i \in Instances |-> 0]
  /\ syncInProgress = FALSE
  /\ poll = Everywhere("idle")
  /\ listed = Everywhere({})
  /\ todo = Everywhere({})
  /\ current = Everywhere(None)
  /\ found = Everywhere({})
  /\ request = [u \in Users |-> "idle"]
  /\ verb = [u \in Users |-> "read"]
  /\ aim = [u \in Users |-> {}]
  /\ good = [u \in Users |-> {}]
  /\ faults = 0
  /\ excuse = [m \in Messages |-> 0]

Fault == faults < MaxFaults /\ faults' = faults + 1

Rows(m) == {k \in Ids : row[k].about = m}
Open(m) == {k \in Rows(m) : row[k].state = "open"}
OpenAt(i) == UNION {Open(m) : m \in {n \in Messages : Home[n] = i}}

-----------------------------------------------------------------------------
(***************************************************************************)
(* The Pi-holes: a message appears, and its owner may remove it there.     *)
(***************************************************************************)
Appear(m) ==
  /\ message[m] = "unborn"
  /\ message' = [message EXCEPT ![m] = "present"]
  /\ UNCHANGED <<table, polling, asking, faults, excuse>>

Remove(m) ==
  /\ message[m] = "present"
  /\ message' = [message EXCEPT ![m] = "gone"]
  /\ UNCHANGED <<table, polling, asking, faults, excuse>>

-----------------------------------------------------------------------------
(***************************************************************************)
(* runScheduledSync and syncPiholeMessages                                 *)
(***************************************************************************)
Step(p, i, from, to) == poll[p][i] = from /\ poll' = [poll EXCEPT ![p][i] = to]

Idle(p) == poll[p] = [i \in Instances |-> "idle"]
First(p) == Idle(p) /\ \A q \in 1..(p - 1) : ~Idle(q)

\* At the start and at every interval.  Skipped while another poll is at work.
StartPoll(p) ==
  /\ ~syncInProgress
  /\ First(p)
  /\ syncInProgress' = TRUE
  /\ poll' = [poll EXCEPT ![p] = [i \in Instances |-> "listing"]]
  /\ UNCHANGED <<message, table, listed, todo, current, found, asking, faults, excuse>>

\* listInfoMessages, under the lock of the Pi-hole.
List(p, i) ==
  LET present == {m \in Messages : Home[m] = i /\ message[m] = "present"} IN
  /\ Step(p, i, "listing", "recording")
  /\ listed' = [listed EXCEPT ![p][i] = present]
  /\ todo' = [todo EXCEPT ![p][i] = present]
  /\ UNCHANGED <<message, table, syncInProgress, current, found, asking, faults, excuse>>

\* The Pi-hole does not answer.
ListFails(p, i) ==
  /\ Step(p, i, "listing", "failing")
  /\ UNCHANGED <<message, table, syncInProgress, listed, todo, current, found,
                 asking, faults, excuse>>

\* Slip: a row that a user has read does not count.
Slip_FindUnreadRow(p, i) ==
  /\ Step(p, i, "recording", "writing")
  /\ \E m \in todo[p][i] :
       /\ current' = [current EXCEPT ![p][i] = m]
       /\ todo' = [todo EXCEPT ![p][i] = @ \ {m}]
       /\ found' = [found EXCEPT ![p][i] = {k \in Open(m) : ~row[k].read}]
  /\ UNCHANGED <<message, table, syncInProgress, listed, asking, faults, excuse>>

\* recordPiholeMessage looks for an open row of the message ...
FindRow(p, i) ==
  /\ Step(p, i, "recording", "writing")
  /\ \E m \in todo[p][i] :
       /\ current' = [current EXCEPT ![p][i] = m]
       /\ todo' = [todo EXCEPT ![p][i] = @ \ {m}]
       /\ found' = [found EXCEPT ![p][i] = Open(m)]
  /\ UNCHANGED <<message, table, syncInProgress, listed, asking, faults, excuse>>

\* The row a new copy gets, as long as MaxRows allows for one
Free == {k \in Ids : row[k].state = "none"}
NextId == CHOOSE k \in Free : TRUE
Added(m) ==
  /\ Free # {}
  /\ row' = [row EXCEPT ![NextId] = [about |-> m, state |-> "open", read |-> FALSE]]

Recorded(p, i) ==
  /\ current' = [current EXCEPT ![p][i] = None]
  /\ found' = [found EXCEPT ![p][i] = {}]

\* ... and updates it, even if it has been closed since, or creates a new one and
\* announces it.  The update fails if retention has deleted the row.
WriteRow(p, i) ==
  LET expired == \E k \in found[p][i] : row[k].state = "expired" IN
  /\ Step(p, i, "writing", IF expired THEN "failing" ELSE "recording")
  /\ Recorded(p, i)
  /\ IF found[p][i] = {} THEN Added(current[p][i]) ELSE row' = row
  /\ UNCHANGED <<message, alarms, syncInProgress, listed, todo, asking, faults, excuse>>

\* Announcing it fails, because a browser has cancelled its subscription in the
\* meantime: the row is there, but the rest of the list is dropped.
WriteRowFails(p, i) ==
  /\ Fault
  /\ Step(p, i, "writing", "failing")
  /\ found[p][i] = {}
  /\ Recorded(p, i)
  /\ Added(current[p][i])
  /\ UNCHANGED <<message, alarms, syncInProgress, listed, todo, asking, excuse>>

\* Slip: only unread rows are looked for.
Slip_FindMissingUnread(p, i) ==
  /\ todo[p][i] = {}
  /\ Step(p, i, "recording", "resolving")
  /\ found' = [found EXCEPT ![p][i] =
                 {k \in OpenAt(i) : row[k].about \notin listed[p][i] /\ ~row[k].read}]
  /\ UNCHANGED <<message, table, syncInProgress, listed, todo, current, asking, faults, excuse>>

\* resolveMissingPiholeMessages looks for open rows of messages that were not
\* listed ...
FindMissing(p, i) ==
  /\ todo[p][i] = {}
  /\ Step(p, i, "recording", "resolving")
  /\ found' = [found EXCEPT ![p][i] =
                 {k \in OpenAt(i) : row[k].about \notin listed[p][i]}]
  /\ UNCHANGED <<message, table, syncInProgress, listed, todo, current, asking, faults, excuse>>

\* ... and resolves them; one that was hidden in the meantime stays hidden.
Resolve(p, i) ==
  /\ Step(p, i, "resolving", "clearing")
  /\ row' = [k \in Ids |-> IF k \in found[p][i] /\ row[k].state = "open"
                            THEN [row[k] EXCEPT !.state = "resolved"] ELSE row[k]]
  /\ found' = [found EXCEPT ![p][i] = {}]
  /\ UNCHANGED <<message, alarms, syncInProgress, listed, todo, current, asking, faults, excuse>>

-----------------------------------------------------------------------------
(***************************************************************************)
(* The error of a poll is a row of the source SYSTEM.  It is looked for    *)
(* before it is created, in two statements.  If one of these fails, or one *)
(* of the part about sessions that follows in the same way, the process    *)
(* ends: see Crash.                                                        *)
(***************************************************************************)
\* A statement of the part that has a handler fails.
StatementFails(p, i) ==
  /\ Fault
  /\ poll[p][i] \in {"recording", "writing", "resolving", "clearing"}
  /\ poll' = [poll EXCEPT ![p][i] = "failing"]
  /\ Recorded(p, i)
  /\ UNCHANGED <<message, table, syncInProgress, listed, todo, asking, excuse>>

Quiet == <<message, row, syncInProgress, listed, todo, current, found, asking, faults, excuse>>

\* resolveSystemNotification
Resolved(i) == alarms' = [alarms EXCEPT ![i] = 0]

PollSucceeds(p, i) ==
  /\ Step(p, i, "clearing", "polled")
  /\ Resolved(i)
  /\ UNCHANGED Quiet

\* recordSystemEvent looks for an open row, which is updated without counting, ...
FindAlarm(p, i) ==
  /\ Step(p, i, "failing", IF alarms[i] > 0 THEN "polled" ELSE "alarming")
  /\ UNCHANGED <<Quiet, alarms>>

\* ... or creates one.
RaiseAlarm(p, i) ==
  /\ Step(p, i, "alarming", "polled")
  /\ alarms' = [alarms EXCEPT ![i] = @ + 1]
  /\ UNCHANGED Quiet

\* Slip: the flag is not given back.
Slip_EndPollKeepingFlag(p) ==
  /\ \A i \in Instances : poll[p][i] = "polled"
  /\ poll' = [poll EXCEPT ![p] = [i \in Instances |-> "idle"]]
  /\ listed' = [listed EXCEPT ![p] = [i \in Instances |-> {}]]
  /\ UNCHANGED <<message, table, syncInProgress, todo, current, found, asking, faults, excuse>>

EndPoll(p) ==
  /\ \A i \in Instances : poll[p][i] = "polled"
  /\ poll' = [poll EXCEPT ![p] = [i \in Instances |-> "idle"]]
  /\ listed' = [listed EXCEPT ![p] = [i \in Instances |-> {}]]
  /\ syncInProgress' = FALSE
  /\ UNCHANGED <<message, table, todo, current, found, asking, faults, excuse>>

\* The process dies and starts again, by itself or because a poll has thrown.
Crash ==
  /\ Fault
  /\ syncInProgress' = FALSE
  /\ poll' = Everywhere("idle")
  /\ listed' = Everywhere({})
  /\ todo' = Everywhere({})
  /\ current' = Everywhere(None)
  /\ found' = Everywhere({})
  /\ request' = [u \in Users |-> IF request[u] = "idle" THEN "idle" ELSE "over"]
  /\ aim' = [u \in Users |-> {}]
  /\ good' = [u \in Users |-> {}]
  /\ verb' = [u \in Users |-> "read"]
  /\ UNCHANGED <<message, table, excuse>>

-----------------------------------------------------------------------------
(***************************************************************************)
(* Users: markAsRead, hideNotification and markAllAsRead                   *)
(***************************************************************************)
Ask(u, v, rows) ==
  /\ request[u] = "idle" /\ rows # {}
  /\ request' = [request EXCEPT ![u] = "deleting"]
  /\ verb' = [verb EXCEPT ![u] = v]
  /\ aim' = [aim EXCEPT ![u] = rows]
  /\ UNCHANGED <<message, table, polling, good, faults, excuse>>

\* One row, which may have been resolved since the user's list was loaded.  A row
\* that is read is not read again.
AskForOne(u) ==
  \E k \in Ids : /\ row[k].state \in {"open", "resolved"}
                 /\ \/ Ask(u, "hide", {k})
                    \/ ~row[k].read /\ Ask(u, "read", {k})

\* All visible rows that are unread.
AskForAll(u) == Ask(u, "readAll", {k \in Ids : row[k].state = "open" /\ ~row[k].read})

At(i, rows) == {k \in rows : Home[row[k].about] = i}
Over(u) ==
  /\ request' = [request EXCEPT ![u] = "over"]
  /\ aim' = [aim EXCEPT ![u] = {}]
  /\ good' = [good EXCEPT ![u] = {}]
  /\ verb' = [verb EXCEPT ![u] = "read"]

\* Slip: whether the Pi-hole has deleted them is not looked at.
Slip_DeleteHoping(u, i) ==
  /\ request[u] = "deleting" /\ At(i, aim[u]) # {}
  /\ \E ok \in SUBSET At(i, aim[u]) :
       message' = [m \in Messages |-> IF \E k \in ok : row[k].about = m
                                       THEN "gone" ELSE message[m]]
  /\ aim' = [aim EXCEPT ![u] = @ \ At(i, aim[u])]
  /\ good' = [good EXCEPT ![u] = @ \cup At(i, aim[u])]
  /\ UNCHANGED <<table, polling, request, verb, faults, excuse>>

\* Under the lock of one Pi-hole, the messages are deleted there one by one.  It
\* may refuse one, as one that is gone already, or not answer.  That ends a
\* request for one row, while a request for all goes on without the row.
Delete(u, i) ==
  LET here == At(i, aim[u]) IN
  /\ request[u] = "deleting" /\ here # {}
  /\ \E ok \in SUBSET here :
       /\ message' = [m \in Messages |-> IF \E k \in ok : row[k].about = m
                                          THEN "gone" ELSE message[m]]
       /\ IF ok = {} /\ verb[u] # "readAll"
          THEN Over(u)
          ELSE /\ aim' = [aim EXCEPT ![u] = @ \ here]
               /\ good' = [good EXCEPT ![u] = @ \cup ok]
               /\ UNCHANGED <<request, verb>>
  /\ UNCHANGED <<table, polling, faults, excuse>>

\* Hiding a message that a poll has listed but not yet looked up: it will find no
\* open row and announce the message again.
Raced(m) ==
  \E p \in Polls, i \in Instances : poll[p][i] \in {"recording", "writing"} /\ m \in todo[p][i]

Excused(rows) ==
  excuse' = [m \in Messages |-> excuse[m] + Cardinality(Rows(m) \cap rows)]

\* The rows are marked, unless retention has deleted them.
Update(u) ==
  LET kept == {k \in good[u] : row[k].state # "expired"} IN
  /\ request[u] = "deleting" /\ aim[u] = {}
  /\ Over(u)
  /\ row' = [k \in Ids |->
               IF k \notin kept THEN row[k]
               ELSE IF verb[u] = "hide" THEN [row[k] EXCEPT !.state = "hidden"]
               ELSE [row[k] EXCEPT !.read = TRUE]]
  /\ IF verb[u] = "hide"
     THEN Excused({k \in kept : row[k].state = "open" /\ Raced(row[k].about)})
     ELSE UNCHANGED excuse
  /\ UNCHANGED <<message, alarms, polling, faults>>

UpdateFails(u) ==
  /\ Fault
  /\ request[u] = "deleting" /\ aim[u] = {}
  /\ Over(u)
  /\ UNCHANGED <<message, table, polling, excuse>>

\* An error is hidden without a Pi-hole.
HideAlarm(i) ==
  /\ alarms[i] > 0
  /\ alarms' = [alarms EXCEPT ![i] = @ - 1]
  /\ UNCHANGED <<message, row, polling, asking, faults, excuse>>

\* deleteExpiredNotifications goes by age alone: the row of a message that is
\* still at its Pi-hole goes too, and the next poll announces it again.
Expire(k) ==
  /\ row[k].state \in {"open", "resolved", "hidden"}
  /\ Cardinality({j \in Ids : row[j].state = "expired"}) < MaxExpired
  /\ row' = [row EXCEPT ![k] = [about |-> @.about, state |-> "expired", read |-> FALSE]]
  /\ Excused(IF row[k].state = "open" THEN {k} ELSE {})
  /\ UNCHANGED <<message, alarms, polling, asking, faults>>

-----------------------------------------------------------------------------
PollWork(p, i) ==
  \/ List(p, i) \/ ListFails(p, i) \/ FindRow(p, i) \/ WriteRow(p, i)
  \/ FindMissing(p, i) \/ Resolve(p, i) \/ PollSucceeds(p, i)
  \/ FindAlarm(p, i) \/ RaiseAlarm(p, i)

Next ==
  \/ \E m \in Messages : Appear(m) \/ Remove(m)
  \/ \E p \in Polls :
       \/ StartPoll(p) \/ EndPoll(p)
       \/ \E i \in Instances : PollWork(p, i) \/ WriteRowFails(p, i) \/ StatementFails(p, i)
  \/ \E u \in Users :
       \/ AskForOne(u) \/ AskForAll(u) \/ Update(u) \/ UpdateFails(u)
       \/ \E i \in Instances : Delete(u, i)
  \/ \E i \in Instances : HideAlarm(i)
  \/ \E k \in Ids : Expire(k)
  \/ Crash

Spec == Init /\ [][Next]_vars

\* The interval starts polls for ever, and the steps of a poll end.  A Pi-hole
\* that is asked again and again answers some time.  Nothing is assumed of users.
FairSpec ==
  /\ Spec
  /\ WF_vars(\E p \in Polls : \/ StartPoll(p) \/ EndPoll(p)
                              \/ \E i \in Instances : PollWork(p, i))
  /\ \A i \in Instances : SF_vars(\E p \in Polls : List(p, i))

-----------------------------------------------------------------------------
(***************************************************************************)
(* Properties                                                              *)
(***************************************************************************)
\* The variables have the values the code can give them.
TypeOK ==
  /\ message \in [Messages -> {"unborn", "present", "gone"}]
  /\ row \in [Ids -> [about : Messages \cup {None}, read : BOOLEAN,
                      state : {"none", "open", "resolved", "hidden", "expired"}]]
  /\ alarms \in [Instances -> 0..MaxPolls]
  /\ syncInProgress \in BOOLEAN
  /\ poll \in [Polls -> [Instances ->
       {"idle", "listing", "recording", "writing", "resolving", "clearing",
        "failing", "alarming", "polled"}]]
  /\ listed \in [Polls -> [Instances -> SUBSET Messages]]
  /\ \A p \in Polls, i \in Instances : todo[p][i] \subseteq Messages
  /\ current \in [Polls -> [Instances -> Messages \cup {None}]]
  /\ found \in [Polls -> [Instances -> SUBSET Ids]]
  /\ request \in [Users -> {"idle", "deleting", "over"}]
  /\ verb \in [Users -> {"read", "hide", "readAll"}]
  /\ aim \in [Users -> SUBSET Ids]
  /\ good \in [Users -> SUBSET Ids]
  /\ faults \in 0..MaxFaults
  /\ excuse \in [Messages -> Nat]

\* A message has at most one open row, and so has the error of each Pi-hole,
\* although no key says so and looking is not writing.
OneOpenRow ==
  /\ \A m \in Messages : Cardinality(Open(m)) <= 1
  /\ \A i \in Instances : alarms[i] <= 1

\* A message is announced once.  It is announced again only if its open row was
\* deleted by retention, or hidden while a poll that had listed the message was
\* yet to look it up: not after a failed poll, a crash or a user's change that
\* half succeeded.
AnnouncedOnce == \A m \in Messages : Cardinality(Rows(m)) <= 1 + excuse[m]

\* Only a message that is gone from its Pi-hole is closed or shown as read: a
\* poll that failed half-way, or an old list, resolves nothing that is there.
ClosedIsGone ==
  \A k \in Ids : row[k].state \in {"resolved", "hidden"} \/ row[k].read =>
                   message[row[k].about] = "gone"

\* A message that stays at its Pi-hole gets a row in the end.
EveryMessageIsShown ==
  \A m \in Messages :
    message[m] = "present" ~> Rows(m) # {} \/ message[m] = "gone"

\* The row of a message that is gone is closed in the end, even one that a poll
\* with an old list has created after a user had hidden the first.
StaleRowsClose ==
  \A m \in Messages : message[m] = "gone" ~> Open(m) = {}

\* A user sees each message that is there in one row, and none in a closed one.
RowInv == TypeOK /\ OneOpenRow /\ ClosedIsGone
=============================================================================
