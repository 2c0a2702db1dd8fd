-------------------------- MODULE InstanceSessions --------------------------
(***************************************************************************)
(* PiholeInstanceSessionService and the requests that use it: which login  *)
(* the backend holds at which Pi-hole, and how a request gets one, renews  *)
(* it, stores it and gives the old one back.                               *)
(*                                                                         *)
(* Every request reads the instance's record, names its locks after what   *)
(* it read, waits for them, and reads the record again; logins, updates    *)
(* and re-authentications then make a second, nested call that names its   *)
(* locks after a third read.  The locks are KeyedSemaphore, which          *)
(* WorkCoordinator implements, with its default of one job per key.  The   *)
(* process may crash at any step; the database and the Pi-holes stay.      *)
(***************************************************************************)
EXTENDS Naturals, FiniteSets

CONSTANTS Instances,  \* rows of the Instance table
          Targets,    \* connections: a base URL and how its TLS is trusted
          Requests,   \* the requests, each made once
          Ids,        \* session ids a Pi-hole hands out, a slot number from 0
          NoJob,      \* outside every job
          NoSession,  \* no InstanceSession row; no session in hand
          NoRecord,   \* nothing read
          Unchanged,  \* an update that leaves the connection alone
          GlobalMax   \* PIHOLE_GLOBAL_MAX_CONCURRENCY

ASSUME IdsAssumption == Ids \subseteq Nat
ASSUME KeysAssumption == Instances \cap Targets = {} /\ Unchanged \notin Targets

VARIABLES target,   \* the connection in each instance's record
          stored,   \* the InstanceSession row of each instance
          lease,    \* how far the row's validUntil is: fresh, soon or over
          live,     \* the sessions the Pi-holes know, everybody's
          phase, want, host,  \* the lock: see KeyedSemaphore
          pc,       \* where each request stands
          kind,     \* what each request is
          about,    \* the instance it is about
          plan,     \* the connection an update asks for
          copy,     \* the record as the request last read it
          mine,     \* the session the request has in hand
          retried   \* the requests that have logged in again after a refusal

lockVars == <<phase, want, host>>
rowVars == <<target, stored, lease>>
planVars == <<kind, about, plan>>
vars == <<rowVars, live, lockVars, pc, planVars, copy, mine, retried>>

Sessions == [at : Targets, id : Ids]
ASSUME NoSessionAssumption == NoSession \notin Sessions

Kinds == {"use", "login", "update", "reauthenticate"}

Outer(r) == <<r, "outer">>
Nested(r) == <<r, "nested">>

Lock == INSTANCE KeyedSemaphore
          WITH Calls <- Requests \X {"outer", "nested"},
               Keys <- Instances \cup Targets,
               PerKeyMax <- 1

Record(i) == [target |-> target[i], session |-> stored[i]]

\* The tables are those of an earlier run of the process: an instance may have
\* a session at its Pi-hole, which may know it still.
Init ==
  /\ target \in [Instances -> Targets]
  /\ stored \in [Instances -> Sessions \cup {NoSession}]
  /\ \A i \in Instances : stored[i] # NoSession => stored[i].at = target[i]
  /\ lease = [i \in Instances |-> IF stored[i] = NoSession THEN "over" ELSE "fresh"]
  /\ live = {stored[i] : i \in Instances} \ {NoSession}
  /\ Lock!Init
  /\ pc = [r \in Requests |-> "idle"]
  /\ kind = [r \in Requests |-> "use"]
  /\ about \in [Requests -> Instances]
  /\ plan = [r \in Requests |-> Unchanged]
  /\ copy = [r \in Requests |-> NoRecord]
  /\ mine = [r \in Requests |-> NoSession]
  /\ retried = {}

Goto(r, from, to) == pc[r] = from /\ pc' = [pc EXCEPT ![r] = to]

\* The record as the request must look at it: an update with a connection of
\* its own puts that one in the place of the record's.
Effective(r) ==
  IF plan[r] = Unchanged THEN Record(about[r])
                         ELSE [Record(about[r]) EXCEPT !.target = plan[r]]

-----------------------------------------------------------------------------
(***************************************************************************)
(* Getting the locks                                                       *)
(***************************************************************************)

\* A request reads the record and asks for the locks of what it read.
Ask(r) ==
  /\ Goto(r, "idle", "waiting")
  /\ \E k \in Kinds, t \in Targets \cup {Unchanged} :
       /\ k # "update" => t = Unchanged
       /\ kind' = [kind EXCEPT ![r] = k]
       /\ plan' = [plan EXCEPT ![r] = t]
       /\ Lock!Request(Outer(r), NoJob,
            {about[r], IF t = Unchanged THEN target[about[r]] ELSE t})
  /\ copy' = [copy EXCEPT ![r] = Record(about[r])]
  /\ UNCHANGED <<rowVars, live, about, mine, retried>>

\* The job starts.  A login goes on with the connection it read before it had
\* the locks; a re-authentication leaves everything to its nested call.
Start(r) ==
  /\ Lock!Acquire(Outer(r))
  /\ Goto(r, "waiting", CASE kind[r] = "login" -> "authenticating"
                          [] kind[r] = "reauthenticate" -> "nesting"
                          [] OTHER -> "reloading")
  /\ UNCHANGED <<rowVars, live, planVars, copy, mine, retried>>

\* Slip: the record read before the locks were held is good enough.
Slip_ReloadSkipped(r) ==
  /\ Goto(r, "reloading", IF kind[r] = "use" THEN "ensuring"
                                             ELSE "authenticating")
  /\ UNCHANGED <<rowVars, live, lockVars, planVars, copy, mine, retried>>

\* Under the locks the record is read again.
Reload(r) ==
  /\ Goto(r, "reloading", IF kind[r] = "use" THEN "ensuring"
                                             ELSE "authenticating")
  /\ copy' = [copy EXCEPT ![r] = Effective(r)]
  /\ UNCHANGED <<rowVars, live, lockVars, planVars, mine, retried>>

-----------------------------------------------------------------------------
(***************************************************************************)
(* Finding a session that works: ensureActiveSessionUnsafe                 *)
(***************************************************************************)

\* What the Pi-hole at t makes of a session: it knows it or it does not.
Accepts(t, s) == s \in live /\ s.at = t

\* A row with time left is used as it is; one that is about to end is checked;
\* without a row the backend logs in.
Ensure(r) ==
  LET i == about[r] IN
  /\ \/ /\ Goto(r, "ensuring", "authenticating")
        /\ copy[r].session = NoSession
        /\ UNCHANGED mine
     \/ /\ Goto(r, "ensuring",
                IF lease[i] = "fresh" THEN "executing" ELSE "revalidating")
        /\ copy[r].session # NoSession
        /\ mine' = [mine EXCEPT ![r] = copy[r].session]
  /\ UNCHANGED <<rowVars, live, lockVars, planVars, copy, retried>>

\* The Pi-hole confirms the session, does not know it, or cannot be asked, and
\* then the row is trusted for as long as it has time left.
Revalidate(r) ==
  LET i == about[r] IN
  /\ \/ /\ Goto(r, "revalidating", "executing")
        /\ Accepts(copy[r].target, mine[r])
        /\ stored' = [stored EXCEPT ![i] = mine[r]]
        /\ lease' = [lease EXCEPT ![i] = "fresh"]
     \/ /\ Goto(r, "revalidating", "authenticating")
        /\ ~Accepts(copy[r].target, mine[r])
        /\ UNCHANGED <<stored, lease>>
     \/ /\ lease[i] = "soon"
        /\ Goto(r, "revalidating", "executing")
        /\ UNCHANGED <<stored, lease>>
  /\ UNCHANGED <<target, live, lockVars, planVars, copy, mine, retried>>

-----------------------------------------------------------------------------
(***************************************************************************)
(* Logging in: authenticateAndPersist                                      *)
(***************************************************************************)

\* The Pi-hole opens a session under an id that is not in use.
Authenticate(r) ==
  LET t == copy[r].target IN
  /\ Goto(r, "authenticating", CASE kind[r] = "update" -> "committing"
                                 [] kind[r] = "login" -> "nesting"
                                 [] OTHER -> "persisting")
  /\ \E id \in Ids :
       /\ [at |-> t, id |-> id] \notin live
       /\ live' = live \cup {[at |-> t, id |-> id]}
       /\ mine' = [mine EXCEPT ![r] = [at |-> t, id |-> id]]
  /\ UNCHANGED <<rowVars, lockVars, planVars, copy, retried>>

Store(r) ==
  /\ stored' = [stored EXCEPT ![about[r]] = mine[r]]
  /\ lease' = [lease EXCEPT ![about[r]] = "fresh"]
  /\ UNCHANGED target

\* persistValidatedSession, once the Pi-hole has described the new session.
Persist(r) ==
  /\ Goto(r, "persisting", "replacing")
  /\ Accepts(copy[r].target, mine[r])
  /\ Store(r)
  /\ UNCHANGED <<live, lockVars, planVars, copy, mine, retried>>

\* deletePreviousSessionBestEffort: the id of the row that was replaced is
\* deleted where the new session lives.  An id of 0 passes for no id at all.
Replace(r) ==
  LET previous == copy[r].session
      doomed == IF previous = NoSession THEN {}
                ELSE {[at |-> copy[r].target, id |-> previous.id]}
  IN
  /\ Goto(r, "replacing", "executing")
  /\ \/ live' = live \ {s \in doomed : s.id \notin {0, mine[r].id}}
     \/ UNCHANGED live
  /\ UNCHANGED <<rowVars, lockVars, planVars, copy, mine, retried>>

-----------------------------------------------------------------------------
(***************************************************************************)
(* Working with the session: withActiveSession                             *)
(***************************************************************************)

\* The work is done, and the Pi-hole's thirty minutes start over.  What ends a
\* re-authentication is a health check, which does not touch the row.
Execute(r) ==
  /\ Goto(r, "executing", "done")
  /\ Accepts(copy[r].target, mine[r])
  /\ lease' = IF kind[r] = "use" THEN [lease EXCEPT ![about[r]] = "fresh"]
                                 ELSE lease
  /\ UNCHANGED <<target, stored, live, lockVars, planVars, copy, mine, retried>>

\* The Pi-hole refuses the session, or refuses the work to a good one: once,
\* the record is read again and the backend logs in again.
Refuse(r) ==
  /\ kind[r] = "use"
  /\ r \notin retried
  /\ Goto(r, "executing", "authenticating")
  /\ retried' = retried \cup {r}
  /\ copy' = [copy EXCEPT ![r] = Record(about[r])]
  /\ UNCHANGED <<rowVars, live, lockVars, planVars, mine>>

-----------------------------------------------------------------------------
(***************************************************************************)
(* updateInstance, login and reauthenticateInstance                        *)
(***************************************************************************)

\* Slip: the update answers as soon as the record is written.
Slip_CommitAnswers(r) ==
  /\ Goto(r, "committing", "done")
  /\ target' = [target EXCEPT ![about[r]] = copy[r].target]
  /\ UNCHANGED <<stored, lease, live, lockVars, planVars, copy, mine, retried>>

\* The update writes the record; the session row is still the old one.
Commit(r) ==
  /\ Goto(r, "committing", "nesting")
  /\ target' = [target EXCEPT ![about[r]] = copy[r].target]
  /\ UNCHANGED <<stored, lease, live, lockVars, planVars, copy, mine, retried>>

\* Slip: a nested call always asks for locks of its own.
Slip_NestQueues(r) ==
  /\ Goto(r, "nesting", "nested")
  /\ Lock!Request(Nested(r), Outer(r), {about[r], target[about[r]]})
  /\ UNCHANGED <<rowVars, live, planVars, copy, mine, retried>>

\* The nested call reads the record and names its locks after it.  It goes
\* ahead if the request holds them, and else waits for the instance's lock,
\* which the request holds: it will never start.
Nest(r) ==
  LET ks == {about[r], target[about[r]]} IN
  /\ Goto(r, "nesting", "nested")
  /\ IF ks \subseteq want[Outer(r)]
     THEN Lock!Join(Nested(r), Outer(r), ks)
     ELSE Lock!Request(Nested(r), Outer(r), ks)
  /\ UNCHANGED <<rowVars, live, planVars, copy, mine, retried>>

NestedReload(r) ==
  /\ phase[Nested(r)] = "inline"
  /\ Goto(r, "nested", IF kind[r] = "reauthenticate" THEN "authenticating"
                                                     ELSE "seeding")
  /\ copy' = [copy EXCEPT ![r] = Record(about[r])]
  /\ UNCHANGED <<rowVars, live, lockVars, planVars, mine, retried>>

\* persistExistingSessionUnsafe: the session of the login becomes the row.
Seed(r) ==
  /\ Goto(r, "seeding", "done")
  /\ Accepts(copy[r].target, mine[r])
  /\ Store(r)
  /\ UNCHANGED <<live, lockVars, planVars, copy, mine, retried>>

-----------------------------------------------------------------------------
(***************************************************************************)
(* Endings                                                                 *)
(***************************************************************************)

Exchanges == {"reloading", "ensuring", "revalidating", "authenticating",
              "persisting", "executing", "committing", "nesting", "seeding"}

\* An exchange with the Pi-hole or the database fails, the instance turns out
\* to be disabled, or a second refusal comes: the request gives up.
Fail(r) ==
  /\ pc[r] \in Exchanges
  /\ pc' = [pc EXCEPT ![r] = "failed"]
  /\ UNCHANGED <<rowVars, live, lockVars, planVars, copy, mine, retried>>

\* The local variables of requests that are over are gone.
Drop(rs) ==
  /\ kind' = [r \in Requests |-> IF r \in rs THEN "use" ELSE kind[r]]
  /\ plan' = [r \in Requests |-> IF r \in rs THEN Unchanged ELSE plan[r]]
  /\ copy' = [r \in Requests |-> IF r \in rs THEN NoRecord ELSE copy[r]]
  /\ mine' = [r \in Requests |-> IF r \in rs THEN NoSession ELSE mine[r]]
  /\ retried' = retried \ rs

NestedEnds(r) ==
  /\ pc[r] \in {"done", "failed"}
  /\ Lock!Leave(Nested(r))
  /\ UNCHANGED <<rowVars, live, pc, planVars, copy, mine, retried>>

Release(r) ==
  /\ pc[r] \in {"done", "failed"}
  /\ Lock!Release(Outer(r))
  /\ Drop({r})
  /\ UNCHANGED <<rowVars, live, pc, about>>

\* The process dies and starts again: its locks and requests are gone.
InFlight == {r \in Requests : phase[Outer(r)] \in {"queued", "running"}}

Crash ==
  /\ InFlight # {}
  /\ pc' = [r \in Requests |-> IF r \in InFlight THEN "lost" ELSE pc[r]]
  /\ phase' = [c \in Requests \X {"outer", "nested"} |->
                 IF phase[c] = "idle" THEN "idle" ELSE "settled"]
  /\ Drop(InFlight)
  /\ UNCHANGED <<rowVars, live, want, host, about>>

(***************************************************************************)
(* The world: time passes, Pi-holes forget sessions, people log in.        *)
(***************************************************************************)
Age(i) ==
  /\ stored[i] # NoSession /\ lease[i] # "over"
  /\ lease' = [lease EXCEPT ![i] = IF @ = "fresh" THEN "soon" ELSE "over"]
  /\ UNCHANGED <<target, stored, live, lockVars, pc, planVars, copy, mine, retried>>

Forget(s) ==
  /\ s \in live
  /\ live' = live \ {s}
  /\ UNCHANGED <<rowVars, lockVars, pc, planVars, copy, mine, retried>>

Visit(s) ==
  /\ s \notin live
  /\ live' = live \cup {s}
  /\ UNCHANGED <<rowVars, lockVars, pc, planVars, copy, mine, retried>>

Step(r) ==
  \/ Start(r) \/ Reload(r) \/ Ensure(r) \/ Revalidate(r) \/ Authenticate(r)
  \/ Persist(r) \/ Replace(r) \/ Execute(r) \/ Refuse(r) \/ Commit(r)
  \/ Nest(r) \/ NestedReload(r) \/ Seed(r) \/ Fail(r)
  \/ NestedEnds(r) \/ Release(r)

Next ==
  \/ \E r \in Requests : Ask(r) \/ Step(r)
  \/ Crash
  \/ \E i \in Instances : Age(i)
  \/ \E s \in Sessions : Forget(s) \/ Visit(s)

Spec == Init /\ [][Next]_vars

\* Every HTTP exchange is aborted when its time is up, so a request that can
\* take a step takes one.
FairSpec == Spec /\ \A r \in Requests : WF_vars(Step(r))

-----------------------------------------------------------------------------
(***************************************************************************)
(* Properties                                                              *)
(***************************************************************************)
TypeOK ==
  /\ target \in [Instances -> Targets]
  /\ stored \in [Instances -> Sessions \cup {NoSession}]
  /\ lease \in [Instances -> {"fresh", "soon", "over"}]
  /\ live \subseteq Sessions
  /\ pc \in [Requests -> Exchanges \cup {"idle", "waiting", "replacing",
                                         "nested", "done", "failed", "lost"}]
  /\ kind \in [Requests -> Kinds]
  /\ about \in [Requests -> Instances]
  /\ plan \in [Requests -> Targets \cup {Unchanged}]
  /\ copy \in [Requests -> [target : Targets,
                            session : Sessions \cup {NoSession}]
                           \cup {NoRecord}]
  /\ mine \in [Requests -> Sessions \cup {NoSession}]
  /\ retried \subseteq Requests
  /\ \A r \in Requests :
       pc[r] \in {"revalidating", "persisting", "replacing", "executing",
                  "committing", "seeding"} => mine[r] # NoSession

\* What a request read under its locks stays true until it writes: nobody else
\* moves the instance or replaces its session while the request is between its
\* read and its write.
CopyIsCurrent ==
  \A r \in Requests :
    /\ pc[r] \in {"ensuring", "revalidating", "persisting", "seeding"}
       => copy[r] = Record(about[r])
    /\ pc[r] = "committing" => copy[r] = Effective(r)

\* A request that reports success leaves the instance with the session of the
\* Pi-hole its record points at, even if an update before it died between
\* writing the record and writing the session.
SuccessMatchesTarget ==
  [][\A r \in Requests :
       pc[r] # "done" /\ pc'[r] = "done"
       => LET i == about[r] IN
          stored'[i] # NoSession /\ stored'[i].at = target'[i]]_vars

\* A request whose instance moved while it waited: it holds the lock of a
\* connection the instance no longer has.
Displaced(r) ==
  /\ phase[Outer(r)] = "running"
  /\ target[about[r]] \notin want[Outer(r)]

\* Every request that asks for its locks ends, unless some request waited while
\* another one moved its instance; a nested call of that one can never start.
EveryRequestEnds ==
  \A r \in Requests :
    (pc[r] = "waiting")
    ~> (pc[r] \in {"done", "failed", "lost"} \/ \E d \in Requests : Displaced(d))

\* No request acts without the session it needs, nor on a record that is no longer so.
SessionInv == TypeOK /\ CopyIsCurrent
=============================================================================
