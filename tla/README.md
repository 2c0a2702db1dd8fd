# A TLA+ verification of YAPD

YAPD manages several Pi-holes from one place. It is a TypeScript monorepo: a
NestJS backend with Prisma and PostgreSQL (`src/apps/api`), a Next.js front end
(`src/apps/web`) and a generated API client (`src/packages/api-client`). The
logic is in the backend, one process on one JavaScript thread. Everything below
is about that process, its database and the Pi-holes it talks to. Paths are
relative to `src/apps/api/src` unless they begin with `src/`.

## 1. Inventory

### Components, state and operations

| Component | State | Operations that change it |
|---|---|---|
| Work coordinator (`pihole/pihole-work-coordinator.service.ts`) | queue, running count, count per key, draining flag; in memory | `run`, `drainQueue`, `startJob`, `executeJob` |
| Instance sessions (`pihole/pihole-instance-session.service.ts`) | table `InstanceSession`; the sessions the Pi-holes themselves keep | `withActiveSession`, `ensureActiveSession`, `forceReauthenticate`, `seedSessionFromLogin` |
| Instances (`instances/instances.service.ts`) | tables `Instance`, `InstanceSecret`, `InstanceCertificateTrust` | create, update, enable/disable, promote, re-authenticate |
| Setup (`setup/setup.service.ts`) | `AppConfig`, the first `Instance` rows | `createBaseline` |
| Human session (`session/session.service.ts`, guards) | an encrypted cookie; uses the instance sessions | `login`, `logout`, `getCurrentSession` |
| Overview history (`overview/overview.service.ts`) | `OverviewHistoryJob`, `HistoricalQuery`, `OverviewCoverageWindow`; `activeJobKeys` in memory | enqueue, execute, retry, delete, renew, clean-up, restart |
| Blocking sync (`sync/sync.service.ts`) | `SyncJob`, `SyncJobAttempt`; each Pi-hole's blocking state and timer | `applyBlocking` |
| Notifications (`notifications/notifications.service.ts`) | `Notification`, push subscriptions, `syncInProgress` | record, poll Pi-hole messages, hide, resolve |
| Groups, clients, domains, lists (`groups/`, `clients/`, `domains/`, `lists/`) | entries at each Pi-hole; local tables of aliases, tags, patterns | create, update, delete, sync to or from the baseline |
| Pi-hole configuration (`pihole-config/pihole-config.service.ts`) | configuration topics at each Pi-hole | update one topic, sync topics from the baseline |
| Query group memberships (`queries/query-group-memberships.service.ts`) | cached groups of clients | `refreshGroupMemberships` |
| Queries, dashboard, navigation, health, audit | none, or one insert per action | reads and aggregation |
| Pi-hole HTTP client (`pihole/pihole.service.ts`) | none | formats requests and parses answers; aborts a request when its time is up |
| Web application, API client | form state | none that others rely on |

`PROJECT.json` lists every one, with what is modelled of it.

### How they interact

* Whoever talks to a Pi-hole does it inside a **job of the coordinator** that
  holds two lock keys, the instance's id and its target (base URL and trust
  settings). A component inside a job may call another component that asks for a
  job of its own: `AsyncLocalStorage` tells the coordinator which keys are held.
* **Instance sessions** sit between the components and the HTTP client: they
  hand out a login, check it, renew it, store it and give the old one back.
* The **database** is the shared state of everything else. Nearly all the code
  reads first and writes by a later statement; no application lock covers the
  tables, and PostgreSQL runs at READ COMMITTED.
* **Background work** (cron, `setImmediate`, polling) runs beside the requests of
  users, and nobody awaits it.

### What is hard here

1. *Interleaving.* One thread, but an `await` between nearly any two steps:
   nested jobs, concurrent promotions, an import beside a deletion.
2. *Stale state.* Locks named after a record read before they are held;
   statuses checked by one statement and used by another; snapshots that outlive
   the lock they were read under.
3. *Partial failure.* The Pi-hole and the database cannot be changed together;
   neither can two Pi-holes, nor a page of data and its checkpoint.
4. *Crashes.* Locks and tasks are in memory, rows are not.
5. *Retries.* By users, by cron and by the code, of work that may be half done.
6. *Liveness.* The queue must keep moving, and every job must get out of
   PENDING and RUNNING.

`PROJECT.json` lists each hazard with its line and the property that covers it, or
with a note where none does; some of them do happen, and are listed in section 3.

### What makes each component correct

* *Coordinator*: counters that never drift from the jobs that run; exclusive
  access to a key, nested work included; no lost wake-up; no overtaking by a job
  with more keys; every job ends.
* *Sessions*: what a request read under its locks is still so when it writes;
  success means the session of the Pi-hole the record points at; every request
  ends.
* *Instances and setup*: one baseline, and never none again.
* *Overview*: no two tasks on one key; whatever the checkpoint passes has been
  stored, and success means the whole period, but for what was deleted since or
  what another page was taken for; RUNNING means at work; every job ends; a window
  keeps its entries and its job until it expires.
* *Blocking sync*: the answer, the job and its rows agree with what the Pi-holes
  did; a retry repeats nothing; one list of presets, which no reader undoes.
* *Notifications*: one open row per message and a single announcement; every
  message is shown in the end; a row is closed if, and in the end only if, its
  message is gone.
* *Groups*: the baseline changes last; a conflict of two users is reported to
  one of them; a synchronisation that succeeds has made all its targets equal to
  its source; the group with id 0 is never removed, whatever its name.
* *Configuration*: what the Pi-holes and the users agree on is never lost, half
  way through a save either; a copy that succeeds is whole.
* *Lists and domains*: a Pi-hole that counts as successful has what was added
  (unless it rejected a list, or a synchronised domain, itself), not what was
  deleted, and a new domain as it was asked for.
* *Clients*: groups go by name from one Pi-hole to the next; what a request
  leaves out stays; an alias that was saved stays.
* *Memberships*: the cached groups and memberships are what the Pi-holes said
  last, whatever was not reachable in between and however two refreshes overlap,
  but for a group that such an overlap leaves over.

## 2. Modules

| Module | What it is | Code |
|---|---|---|
| `KeyedSemaphore` | abstract: permits on sets of keys, guests of a holder | what `run()` promises |
| `WorkCoordinator` | detailed: queue, counters, drain loop | `pihole-work-coordinator.service.ts` |
| `InstanceRegistry` | baseline and enabled columns under READ COMMITTED | `setup.service.ts`, `instances.service.ts` |
| `InstanceSessions` | sessions and the requests that use them, on top of `KeyedSemaphore` | `pihole-instance-session.service.ts`, `instances.service.ts`, `session.service.ts` |
| `OverviewJobs` | import and delete jobs, tasks, retries, restarts | `overview.service.ts` |
| `OverviewRetention` | expiry, renewal and clean-up; `EXTENDS OverviewJobs` | `overview.service.ts` |
| `BlockingSync` | blocking at several Pi-holes, its job and rows, presets | `sync.service.ts` |
| `Notifications` | polls of messages, users and retention at one table | `notifications.service.ts` |
| `ManagedGroups` | groups, changed and synchronised with the baseline last | `groups.service.ts` |
| `ConfigTopics` | topics saved as differences, and copied | `pihole-config.service.ts` |
| `ManagedLists` | lists and domains, synchronised from all to all | `lists.service.ts`, `domains.service.ts` |
| `ManagedClients` | clients, their groups by name, their aliases | `clients.service.ts` |
| `QueryMemberships` | the cache of memberships; `EXTENDS ManagedClients` | `query-group-memberships.service.ts` |
| `MC*` | values of the constants for TLC | |
| `WorkCoordinatorProofs`, `NotificationsProofs`, `ManagedGroupsProofs`, `ManagedListsProofs` | theorems about the module of that name | |
| `InstanceProofs` | theorems about `InstanceSessions` and `InstanceRegistry` | |
| `OverviewProofs` | theorems about `OverviewJobs` and `OverviewRetention` | |
| `SettingsProofs` | theorems about `BlockingSync` and `ConfigTopics` | |
| `QueryMembershipsProofs` | theorems about `ManagedClients` and `QueryMemberships` | |

`InstanceSessions` instantiates `KeyedSemaphore` for its locks;
`WorkCoordinator` is shown, by TLC and by proof, to implement `KeyedSemaphore`,
so that the sessions are checked against the promise and the coordinator keeps
it; `QueryMemberships` extends `ManagedClients`, so that memberships are
refreshed while clients and groups change; and `OverviewRetention` extends
`OverviewJobs`, so that data expires and is renewed while jobs are at work.
`InstanceProofs` and `SettingsProofs` extend two components each, which share no
variable; that is why `InstanceRegistry` and `ConfigTopics` have a
`SpecRegistry` and a `SpecTopics`, and similar names.

Each of the newer modules takes one access to a Pi-hole (one callback of
`withActiveSession`) as one step, in which the Pi-hole decides by what it has
then: that is what the semaphore and the sessions are shown to give. Between two
accesses, and between any two statements at the database, other requests go on.

A property named `...Inv` collects the type invariant of its module and the
named parts that go with it, each with a comment of its own: `RegistryInv` is
`RegistryTypeOK /\ OneBaseline`, `SessionInv` `TypeOK /\ CopyIsCurrent`, `JobInv`
`TypeOK /\ KeysAreExclusive /\ RunningIsRunning`, and so on.

### WorkCoordinator

State: `queue`, `activeKeyCounts`, `runningCount` and `draining` are the fields
of the service; `sequence` and `jobId` number the queued calls; `current` is the
job whose synchronous beginning is on the stack; `status`, `keys` and `context`
describe each call of `run()`.

| Action | Code |
|---|---|
| `RunInline` | `run()` when the keys held cover the keys asked for, or none are asked for |
| `Enqueue` | `run()` otherwise: a number, a place in the queue, and `drainQueue()` |
| `StartNext` | one turn of the `while` loop and `startJob()` |
| `EndDrain` | the loop leaves: no slot, or no job that can start |
| `Finish` | the `finally` of `executeJob()`: counters down, drain |
| `FinishInline` | a covered call returns |

`drainQueue()` does not yield, but `startJob()` runs the beginning of the job,
which may call `run()`; `draining` then makes the inner drain return at once. So
the loop has one action per turn, and between two turns only `current` may act.

### InstanceRegistry

One action per SQL statement. `writer` is the row lock of a transaction;
`toClear` holds the rows an `updateMany` picked when it started, which it then
takes one at a time, looking at each again as READ COMMITTED does. A promotion
is `PromoteScan`, `PromoteClear`, `PromoteSet`, `PromoteCount`, and then
`PromoteCommit` or `PromoteRollback`; a toggle is `ToggleRead` and `ToggleWrite`;
a setup is `SetupCheck` and `SetupCommit` or `SetupFail`, with the HTTP validation
between them. `createInstance` is one insert, possible once there is a baseline
because the route needs a session.

### InstanceSessions

A request is a *use* (`withActiveSession`), a *login* with the master's password,
an *update* of the connection, or a *re-authentication*. `pc` follows it through
`Ask` (read the record, name the locks, queue), `Start`, `Reload`, `Ensure`,
`Revalidate`, `Authenticate`, `Persist`, `Replace`, `Execute`, `Refuse`; logins,
updates and re-authentications go through `Commit`, `Nest`, `NestedReload` and
`Seed` as well. `copy` is the record as last read, `mine` the session in hand.
`Fail` is an error anywhere, `Crash` the death of the process, which loses locks
and requests and keeps the tables and the Pi-holes.

A *target* stands for a base URL with its trust settings, a *session* for the
Pi-hole and the slot number it gave; `lease` abstracts `validUntil` to fresh, in
the revalidation buffer, or over. `live` is what the Pi-holes know, and changes
on its own (`Forget`, `Visit`): they drop sessions and other people log in. The
passwords, the CSRF token, the `lastError` columns and the summaries shown to
users are left out. So is the second seeding that `login` does through
`bootstrapAllSessions` after its own job has ended.

### OverviewJobs

A job is a row (`status`, and in `saved` the progress at each instance); a task is
an execution in memory with a copy of the progress (`runtime`) that it writes back
after each page. `rows` says which job stored an entry: `createMany` with
`skipDuplicates` leaves an entry with the first. `window` is the coverage window
of a job at an instance. `batch` is the page in hand and `seen` the pages the task
has had at its instance, which an execution begins anew. `excused` and `skipped`
are history variables for the properties: the entries an import believes to have
copied although they were deleted or never came, and the jobs without a task.

`Enqueue`, `ReadJob` and `Claim` create and begin a task; `Start`, `Choose`,
`NextPage`, `Fetch`, `FetchFails`, `FetchRepeats`, `Insert`, `Save`, `Check`,
`Close`, `Pause` and `Complete` are the import; `StartDelete`, `Delete` and `Report` the deletion;
`Finish` and `Fail` the end. `Ask` followed by `Retry` or `DeleteJob` is a user's
request, a read that checks and then a write. `Crash` is a death at any time;
`Die` is the death the code itself causes: `markJobFailed`, called in a `catch`,
finds no row to update, and nobody handles the rejection. `Restart` is
`markInterruptedJobsAsFailed`.

The period is closed, so each Pi-hole has `Total` entries in it, which is also the
number it announces. It answers with any page of at most `Chunk` of them (`Pages`),
the one asked for, another one or nothing, or not at all. The code takes whatever
comes for the page it asked for, unless this execution has had the same page before
(`FetchRepeats`), and the checkpoint moves by the number of entries on it (`Passed`).
So a page that is repeated after a pause and a retry, or after a restart, is taken
for the next one, and so is a page out of place: the entries passed over without
having come are `Misses`. A page is a set here: that the code compares pages entry by
entry, in order, is left out. Whether the order of instances matters is abstracted: any
that is not done may be next. Job scopes and kinds appear through `Key` and
`Scope`. Statistics are left out, and expiry is the next module.

### OverviewRetention

Every action of `OverviewJobs` is taken as it is and joined with `Stamp`, which
writes the dates that the same statements write: `deadline` is the `expiresAt` of
an execution, taken once when it starts, and goes to the entries it stores
(`entryUntil`), to the windows it upserts (`windowUntil`) and, when it ends, to
the job (`jobUntil`); failures and deletions keep a job from the day they happen.
`Morning` is the cron job: it starts the clean-up, unless the process is down,
and the three statements of the clean-up (`SweepQueries`, `SweepWindows`,
`SweepJobs`) then come in any order, with the steps of tasks and users between
them; the end of the process may leave some out. A job that is swept leaves its
entries and windows, without a job (`onDelete: SetNull`): they are those of a job
whose status is `deleted`. `AskRenewal` and `Renew` are `renewCoverage`, its
checks and its transaction.

Time is counted in mornings. What was written between two mornings and has
`Retention` days is deleted by the first morning that comes more than `Retention`
mornings later, which is what the comparison of the two dates gives. A clean-up
is over before the next morning. `mixed` and `untimely` are history variables:
they name the two cases in which a window does lose entries or its job.

### BlockingSync

`stage` follows a request; at each Pi-hole `pc` follows the look or the worker,
`result` is the last outcome, `rows` the attempts stored. `Apply`, `Look` and
`Refuse` are `applyBlocking` up to the job, `CreateJob`, `List` and
`StartWorkers` its beginning, `LeaveAlone` and `Set` one try of
`applyBlockingToInstance` with its row (`Tried`, `Settle`), `Fail` and `Finish`
the end. Any statement may fail; a request may stop anywhere, which is also what
a crash does, because nothing at a start concerns these tables. `Tick` moves a
timer on. Presets: `Save` and `Replace` are `updateBlockingPresets`, `Status` and
`ReadPresets` a reader, which may `Seed` an empty table or repair old rows
(`BeginRepair`, `Replace`). A row stands for all the rows of its writer; what
counts is whether its numbers begin at 0 or at 10, since the only key is on the
numbers.

### Notifications

`row` is the table, as far as messages of Pi-holes go; a row is open if it is
neither hidden nor resolved. `poll`, `listed`, `todo`, `current` and `found` are
the locals of a poll at each Pi-hole; `StartPoll`, `List`, `FindRow`,
`WriteRow`, `FindMissing`, `Resolve`, `PollSucceeds` and `EndPoll` are its
statements, `FindAlarm` and `RaiseAlarm` the row about a failed poll, `ListFails`,
`WriteRowFails` and `StatementFails` what can go wrong. A new row
takes an id from `Free`, while there is one (`Added`). `AskForOne`, `AskForAll`,
`Delete` and `Update` are `markAsRead`, `hideNotification` and `markAllAsRead`;
`Expire` is retention. `Crash` is the death of the process, by itself or because
a poll threw outside its handler. `excuse` counts the two reasons for which a
message may be announced again: its open row expires, or is hidden while a poll
that has listed it has not come to it yet (`Raced`).

### ManagedGroups, ConfigTopics, ManagedLists

In all three, `op` is what a request asks for, `stage` (`step` in `ConfigTopics`)
where it stands, `snap`
what it has read, `todo` and `failed` the Pi-holes left and failed; `Ask` begins
a request, and a write is one action for one Pi-hole. The failing variants
(`WriteFails`, `SyncFails`, `SaveFails`, `ReadFails`, ...) cover a Pi-hole that is
not reached, an answer that is lost, and a sequence of requests that stops half
way (`HalfWay`, `Remains`).

* `ManagedGroups`: `Allows` is the look at all Pi-holes before a change,
  `Plan` the plan of a synchronisation, `Turn` and `MayWrite` the order with the
  baseline last. Groups go by their names here. `Default` gives the name of the group
  with id 0 at each Pi-hole, and the names may differ: `Immutable` is the check of
  the id, at the Pi-hole whose group it is. `Plan` (`PlanOf`, `Missing`) makes it for
  the groups of the source and for those to delete, and not for those to update.
  A selected group that has id 0 at a target is left alone there, which counts as a
  failure (`SpareTarget`). A deletion of several groups of which some are gone already may go through or not; `Adds`,
  `Removes` and `Tangled` describe the one conflict this keeps from being told.
* `ConfigTopics`: `Diff` is the difference sent, an array's items one by one
  and the other fields at once; `SaveTopic` and `Answer` are `updateTopic`, `SyncTo` is
  `syncTopic`.
* `ManagedLists`: lists and domains have the same handlers but for one: `Looks` says
  that the errors inside an answer are looked at for a new domain only. A Pi-hole
  may report such an error because the entry is there or for any reason of its own
  (`Creations`); what it rejected so is kept in the history variable `rejected`.
  `Lacking`, `Sources` and `News` are the synchronisation from all to all.

### ManagedClients and QueryMemberships

`Pihole` holds the ids of the groups and the clients with their groups' ids. A
request turns ids into names at the baseline (`ReadBaseline`), stores the alias
(`SaveMetadata`), and then reads each Pi-hole (`ReadInstance`) and writes there by
a later access (`Write`), with the names turned into that Pi-hole's ids
(`NextClient`), one Pi-hole after the other with the baseline first (`Upcoming`,
`Turn`). `Regroup` is another user's change of groups in the meantime: a group
renamed, deleted or created.
A listing reads the aliases and writes them back (`LoadSupportEntries`,
`PersistSupportEntries`). `QueryMemberships` adds the refresh: `Begin`,
`ReadInstanceSnapshot`, `ReadSnapshotFails`, and the transaction at READ COMMITTED.
`Scan` is the statement that finds the groups to delete (`doomed`), as they are
committed then; `Purge` deletes one, with its memberships, and waits where another
refresh has deleted the same row; `Store` writes the groups and the memberships and
commits, or fails on the unique names (`Clash`), which rolls everything back
(`Undo`). Until then what is deleted (`gone`) is hidden from this refresh alone, and
others that write the same row or name wait (`Blocked`). `Abort` is the end of two
that wait for each other, or of one that takes too long. The writing itself is one
step: every refresh upserts the group with id 0, which is at every baseline, before
all others, and holds its row until it commits, so that no two are beyond that
statement at once; what it changes nobody sees before the commit. `OldGroups` is what
earlier refreshes left in the table. `late` is a history variable: the groups others
have committed since a refresh's `Scan`. So is `last`: the refresh whose answer the
tables have of a Pi-hole, or `None` where an older refresh that stored later has
deleted a group, and the memberships with it.

### What is assumed of the Pi-holes

Pi-hole is not part of this repository; where the models depend on what it does,
they take this from how the code uses it, and `PROJECT.json` marks it external. It
creates no group, list, domain or client twice and says so in its answer; it
refuses to change a group that is missing, to rename one onto a name in use, to
give a client a group that does not exist, and to add an array item that is
there or remove one that is not. It may reject a list or a domain inside an answer
for any reason. Ids of deleted groups, and of messages, are
not used again. Where the answer to an unusual request is not clear (deleting
some groups that are gone, updating a list that is not there), the models allow
either.

### Slips

An operator whose name begins with `Slip_` is a definition of the code with a
plausible mistake in it (a dropped guard, a missing drain, a counter that is not
lowered). No specification uses it. `PROJECT.json`, under `mutants`, pairs each
with the definition it replaces and the property that then fails, which shows
that the property depends on that line of the code.

## 3. Runs

| Run | Instance | Shows | States |
|---|---|---|---|
| `coordinator` | 3 calls, 5 keys, 2 slots, 1 job per key | safety, `ImplementsSemaphore`, `EveryCallSettles` | 15 thousand |
| `registry` | 3 instances, setup, creation, toggle, 3 promotions | `RegistryInv`, `KeepsBaseline` | 0.1 million |
| `sessions` | 2 requests of any kind, 1 instance, 2 Pi-holes with 2 slots each | `SessionInv`, `SuccessMatchesTarget` | 0.4 million |
| `sessions_live` | the same, 1 slot each, with fairness | `EveryRequestEnds` | 0.1 million |
| `overview` | an import and a deletion of 2 pages, 2 tasks, 1 crash, 1 user | `JobInv`, `CheckpointBehindData`, `SuccessIsComplete` | 1.4 million |
| `overview_retention` | an import of 1 page, 1 task, 1 crash, 2 users, 3 mornings, with fairness | `RetentionInv`, `WindowKeepsEntries`, `EveryJobEnds` | 0.5 million |
| `blocking_sync` | 2 requests of any kind, 2 Pi-holes, 2 tries | `ReportInv`, `NothingIsRepeated`, `OneListOfPresets`, `ReadersKeepPresets` | 0.8 million |
| `notifications` | 2 messages, polls for ever, 1 user, 1 fault, 1 expired row, with fairness | `RowInv`, `AnnouncedOnce`, `EveryMessageIsShown`, `StaleRowsClose` | 0.3 million |
| `groups` | 2 requests of any kind, 3 Pi-holes with 2 names for id 0, 1 fault | `GroupInv`, `ConflictsAreReported`, `SyncConverges`, `DefaultIsKept` | 1.1 million |
| `config` | 2 requests of any kind, 2 Pi-holes, 1 fault | `TopicInv`, `AgreedChangesSurvive`, `CopyIsWhole` | 1 million |
| `lists` | 2 requests of any kind, a list and a domain, 3 Pi-holes, 1 fault | `EntryInv`, `DomainIsAsAsked`, `BaselineIsSpread` | 1.9 million |
| `clients` | 2 requests or refreshes, 2 clients, 2 Pi-holes, 1 fault, 1 change of groups | `ClientInv`, `GroupsGoByName`, `KeepsTheRest`, `CacheInv` | 0.9 million |

### Bounds, and why they are enough

* *Coordinator.* Three calls are a holder, a nested call and a competitor, or two
  competitors and one that could overtake. Two slots make the global limit bind
  before the keys do and after. The key sets cover an instance with its target, a
  target alone that is some instance's, a foreign target, a nested set that is
  covered and one that is not. Beyond that, the proofs hold for every size.
* *Registry.* Three concurrent promotions are needed for one to see the commits
  of two others between its own statements; three instances let each promote its
  own. Each request is made once, and there is one setup (see below).
* *Sessions.* The lock protects one instance, so one instance and two requests
  meet every conflict; two Pi-holes are one to move from and one to move to; slot
  0 is in the ids because the code takes 0 for no id. `sessions_live` has one
  slot per Pi-hole, to stay small without symmetry.
* *Overview.* Two tasks are an import and a deletion, or one at work and one that
  a retry has scheduled; two pages of one entry have a first, a middle and a last
  checkpoint, and each can come in the other's place or twice. `MaxFailures` is 3 in the code and 1 here, where each failure pauses
  the job. `MaxRestarts` bounds the crashes; after one the tables are in any state
  a crash can leave, and the deaths the code itself causes are not bounded.
  `overview_retention` has one page and one task, and instead two users, so that
  a retry can get between the read and the write of a deletion, and the dates. A
  `Retention` of one day and three mornings are enough for data that expires, data
  that is renewed in time or too late, and data that stays. With one task nothing
  is skipped, so that `EveryJobEnds` has no exception there; what two tasks add is
  in `PendingIsScheduled` and `RunningIsRunning`, two conjuncts of `JobInv`: a job
  that waits or runs always has a task, unless its last task found the key in use.
* *Blocking sync.* Two requests are all that can meet in a transaction or at a
  Pi-hole; of three tries in the code two are kept, one that is repeated and one
  that is the last. One configuration is timed and one is not.
* *Notifications.* Two messages are one that fails and one that is left over; two
  polls in memory would be enough for an overlap, five rows for two announcements
  of each message and one more. `MaxFaults` and `MaxExpired` are one each; a
  Pi-hole may fail to answer as often as it likes.
* *Groups, lists.* Three Pi-holes: the baseline and two others, so that one can
  fail before another succeeds, and a synchronisation has two targets; two requests
  meet in every order. The Pi-holes start from the sets in the MC module, which agree
  or differ. One of the three has another name for the group with id 0, which at the
  others is the name of an ordinary group that users may also ask for. One fault is
  enough for every half-way state, since each request meets at most one at each
  Pi-hole. What takes three requests is shown by the proofs.
* *Config.* Two items and one field with two values, at two Pi-holes that start
  with any topic.
* *Clients.* Two groups whose ids are swapped or missing at the other Pi-hole, a
  baseline and another. Requests and refreshes together are two: a request with
  a refresh, two requests, or two refreshes. An earlier refresh has left a group with
  a name that now has another id.

Deadlock is not checked where requests and jobs are finite and it is normal that
all are over; what must not get stuck is said by the liveness properties. Polls
never end, and there deadlock is checked.

### Fairness

* *Coordinator*: `StartNext` and `EndDrain` are weakly fair because the loop is
  synchronous; `Finish` and `FinishInline` because every HTTP request is aborted
  after `requestTimeoutMs` (`pihole/pihole.service.ts:1183`, `:1313`). No call of
  `run()` is assumed to come.
* *Sessions*: a request that can step does. Nothing is assumed of crashes, of time
  or of the Pi-holes.
* *Overview*: every step of a task, because each `await` settles and the minute
  between two attempts passes. Nothing is assumed of users, of crashes or of a
  Pi-hole ever answering.
* *Notifications*: weak fairness of the poll's work, because the interval comes
  for ever and each `await` settles; strong fairness of `List`, for a Pi-hole that
  is asked again and again answers some time, without which there is nothing to
  show. Nothing is assumed of users, and faults and crashes are bounded.

Two liveness properties name their exception. A nested call whose keys are not
held queues behind its own caller, and with the slot it holds neither ends
(`NestedWait`, `Displaced`): it happens when an instance is moved while the
outer call waits. A retry that finds its key in use leaves a job pending
(`skipped`): see below.

### Where the code does not do what one might expect

The models contain each of these; the properties that would fail name the exception
or are about the cases without it.

1. *Two setups.* `createBaseline` checks for a baseline, validates over HTTP, and
   creates (`setup/setup.service.ts:82`). Two requests both pass the check, so
   `registry` has one setup. "A baseline instance is already configured."
2. *Disabled baseline.* `updateInstanceSync` reads `isBaseline` and disables by
   another statement (`instances/instances.service.ts:624`); a promotion fits in
   between. "The baseline instance must remain enabled for sync."
3. *Wrong session deleted.* The stored row has the previous session's id, not
   where it was. An update that stops between writing the record and the session
   leaves an old id under a new connection, and the next login deletes that
   number there (`pihole/pihole-instance-session.service.ts:619`).
4. *Pending for ever.* A job becomes FAILURE or PAUSED before its task gives the
   key back; a retry in between schedules a task that returns at
   `overview/overview.service.ts:671`, and pending jobs cannot be retried until
   the next restart fails them (`skipped`).
5. *Empty coverage.* Deleting a job deletes the entries it stored first, on which
   the window of a later successful job relies (`overview.service.ts:562`, `:995`;
   `excused`). So does a deletion of the period while an import is at work (`:1138`).
6. *Deleted while running.* `deleteJob` checks the status outside its transaction
   (`overview.service.ts:557`), so a retry in between makes it delete a pending or
   running job. What follows, that task's failure and the end of the process, is
   `Die`, and `JobInv` is checked with it.
7. *Running for ever.* A request that fails, or a process that ends, between the
   creation of a `SyncJob` and its last update leaves it RUNNING
   (`sync/sync.service.ts:267`); nothing marks such jobs at a start.
8. *Timer started again.* A try whose answer was lost is repeated once the timer
   has moved on, because the Pi-hole no longer matches (`sync.service.ts:540`).
9. *Presets repaired over a save.* The repair writes what was read before its
   transaction (`sync.service.ts:723`).
10. *Announced again.* A message that is hidden while a poll has it in its list
    is recorded once more; `StaleRowsClose` says that this row is closed by a later
    poll (`notifications/notifications.service.ts:875`).
11. *Alias undone by a listing.* A listing writes back the aliases and tags it read
    before (`clients/clients.service.ts:318`; `stale`).
12. *Success without the entry.* The errors inside the answer to the creation of a
    list, or of a domain in a synchronisation, are not looked at: a Pi-hole that has
    the entry with another content, or rejected it, counts as successful
    (`lists/lists.service.ts:254`, `:493`, `:550`, `domains/domains.service.ts:715`,
    `:769`; `Excused`).
13. *Brought back.* A synchronisation that read before a deletion creates the entry
    again (`lists.service.ts:518`).
14. *Group ids of another Pi-hole.* Lists and domains are synchronised with the
    ids of the groups at their source (`domains/domains.service.ts:774`), which
    clients are not. `ManagedLists` takes an entry's content as one value and does
    not show it.
15. *Names exchanged.* Two groups that swap their names at the baseline make every
    refresh of the memberships fail on the unique name until they change again
    (`queries/query-group-memberships.service.ts:266`; `Clash`).
16. *Shorter than shown.* The pages a job stored before it was retried keep the
    date of that execution, while the window takes that of the last one: they are
    cleaned up first (`overview/overview.service.ts:729`, `:996`; `mixed`).
17. *Renewed too late.* A renewal does not look at the window's date. A window that
    has expired and whose entries the clean-up has just deleted, or deleted before
    the process ended, is renewed for another 30 days without them
    (`overview.service.ts:461`; `WindowKeepsEntries` is about what is still there).
18. *Renewed too early.* A window that is renewed while its job is still at work
    gets a later date than the end of the import then gives the job. The clean-up
    takes the job first, and the window cannot be renewed again
    (`overview.service.ts:759`, `:1646`; `untimely`).
19. *Window left open.* A failure between the row that says an instance is done and
    the statement that closes its window leaves the window RUNNING: a retry passes
    over the instance, and the job ends in SUCCESS (`overview.service.ts:1119`).
20. *Deleted where it was gone.* A deletion of several groups may be taken for done
    at a Pi-hole where one of them is gone already. With one user who deletes that
    group alone and one who creates it again, all three are told of success, and
    the group is back at some Pi-holes and not at others
    (`groups/groups.service.ts:416`; `Tangled`). Two requests cannot do it: the
    proof for any number of them came upon it.
21. *Memberships lost to an older refresh.* A refresh that read before a group was
    created and stores after one that knows it deletes the group, and with it the
    memberships of Pi-holes it has not read
    (`queries/query-group-memberships.service.ts:242`; `last`).
22. *Group left over.* A refresh looks for the groups to delete by one statement and
    commits later. Another that has read an older list of groups may commit in
    between: a group the baseline has no more then stays in `ClientGroup` and is
    offered as a filter until the next refresh
    (`queries/query-group-memberships.service.ts:249`; `late`).
23. *Group 0 changed by name.* Where the group with id 0 of a Pi-hole has the name of
    an ordinary group of the baseline, a synchronisation of everything gives it that
    group's comment and state: `buildSyncPlan` looks at the ids of the source's groups
    and of those to delete, not of those to update (`groups/groups.service.ts:1125`).
    The synchronisation of a selected group refuses it (`:719`).
24. *Page taken for another.* `seenBatchSignatures` is local to an execution
    (`overview/overview.service.ts:780`): a page the Pi-hole repeats makes the job
    pause, and after the retry the same page is taken for the next one. Nothing of it
    is stored (`skipDuplicates`), the checkpoint moves by its length (`:1013`, `:1016`),
    and the job may end in SUCCESS without the entries that should have come. Nor is
    any other page out of place noticed (`Misses`, `excused`).
25. *Passed over again and again.* The queue is scanned past jobs that cannot start.
    A job is not overtaken by one that needs all its keys, but those that need some of
    them may keep it waiting (`pihole/pihole-work-coordinator.service.ts:104`).

## 4. Proofs

Each theorem below holds for every value of the constants: any number of Pi-holes,
requests, jobs, keys, groups and so on, and any bound on faults. The arguments have
one shape. An inductive invariant `IInv` strengthens the property; one lemma per
part of it shows that a step keeps it, by cases on the actions; `Invariance` (or
`InvariantHolds`) puts them together, and a theorem reads the property off it.
Where a module is about two components, those of the second have names of their
own: `TableInv` for `InstanceRegistry` and `TopicsInv` for `ConfigTopics`.
Before it was proved, each `IInv` was checked by TLC on the instance of the run.

The assumptions are the named `ASSUME`s of the component modules, which every run
evaluates. They are of three kinds: that a bound or a size is a natural number
(`BoundsAssumption`, `FaultsAssumption`, `LimitsAssumption`, `SizesAssumption`,
`RetentionAssumption`),
that a value which stands for "none", "missing" or "nobody" is not one of the
others (`MissingAssumption`, `NoneAssumption`, `NoSessionAssumption`,
`WritersAssumption`, `RequestsAssumption`, `KeysAssumption`, ...), and that
parameters are about the sets they are meant for (`KeySetsAssumption`,
`ScopeAssumption`, `JobsAssumption`, `HomeAssumption`, `ConstantsAssumption`,
`AskedAssumption`, `IdsAssumption`;
`OrderAssumption`: the other Pi-holes have an order without repetition;
`DefaultAssumption`: every Pi-hole has a group with id 0 at first;
`StartsAssumption` and `OldGroupsAssumption`: no two groups of a Pi-hole share an id,
and no two stored groups a name).

### WorkCoordinatorProofs

| Theorem | States |
|---|---|
| `TypeCorrect` | `Spec => []TypeOK` |
| `CountersExact` | `Spec => []CountersAgree` |
| `SlotsRespected` | `Spec => []SlotsBounded` (proved only: no run states it) |
| `AccessIsExclusive` | `Spec => []ExclusiveAccess` |
| `NoWakeupIsLost` | `Spec => []NoLostWakeup` |
| `FirstComeFirstServed` | `Spec => []NoOvertaking` |
| `Refinement` | `Spec => ImplementsSemaphore` |

None of the properties is inductive alone:

* `CountersAgree` needs that the running set is finite: it starts empty and grows
  by one job at a time. Nothing is assumed of the size of `Calls`.
* `LimitsOK` says the counters respect the limits; with `CountersAgree` it
  yields the bounds on running jobs.
* `QueueOK` says the queue holds exactly the queued calls, by increasing number and
  so each once; without it a start could run a job twice. The first job in the
  queue that can start is then the oldest that can, from which `NoOvertaking`
  follows.
* `NumbersOK` says only calls that were queued have a number, and none is beyond
  `sequence`: what is appended to the queue is younger than all in it.
* `GuestsOK` says a call that executes in place names no key, or keys of its
  context, which is running: a job may not end while it waits for a guest. With
  it, exclusive access extends from jobs to the calls made inside them.
* `NoLostWakeup` is inductive given the above: only the end of the loop clears
  the flag, and only the end of a job makes a queued job startable, and sets it.

`RemoveAtProperties` states what removing one element does to a sequence.
`Refinement` maps status, keys and context to phase, wish and host: draining steps
stutter, the others are steps of the semaphore, with the counters turned into
cardinalities by the invariant.

### InstanceProofs: InstanceSessions

| Theorem | States |
|---|---|
| `CopiesStayCurrent` | `Spec => []SessionInv` |
| `SuccessIsAtTheTarget` | `Spec => SuccessMatchesTarget` |

`LocksOK` carries over what the semaphore promises: permits do not overlap
(`PermitsOK`), a request at work has one that names its instance, and a nested call
never has one of its own. `MemoryOK` says what a request remembers at each point;
`LoginIsCurrent`, that it logs in for the record it read under its locks; and
`StoredIsMine`, that it has stored the session it is about to use. Crashes, and
Pi-holes that forget, are steps like the others.

### InstanceProofs: InstanceRegistry

| Theorem | States |
|---|---|
| `RegistryTypeCorrect` | `SpecRegistry => []RegistryTypeOK` |
| `OneSetupOneBaseline` | with at most one setup, `SpecRegistry => []RegistryInv` |
| `TwoBaselinesTwoSetups` | `SpecRegistry => [](OneSetupDone => OneBaseline)` (proved only) |
| `BaselineIsKept` | `SpecRegistry => KeepsBaseline`, for any number of setups |

Two setups really can make two baselines (item 1 above), hence the hypothesis of
the second theorem; the third has none, and says that this is the only way.
`OneBaseline` rests on `CountStands`: the rows a promotion counted as baselines are
all locked by it, and stay so until it commits, because whoever wants to write one
waits for the lock. `SubjectHeld` says that it holds the row it has set, and
`SetUp` that a table with rows has a baseline and a setup that put it there.

### OverviewProofs

| Theorem | States |
|---|---|
| `JobsAndTasksAgree` | `Spec => []JobInv` |
| `CheckpointIsBehind` | `Spec => []CheckpointBehindData` |
| `SuccessMeansComplete` | `Spec => []SuccessIsComplete` |
| `JobsOutliveWindows` | `RetentionSpec => []RetentionInv` |
| `WindowsKeepEntries` | `RetentionSpec => WindowKeepsEntries` |

The first three are about `OverviewJobs`. Besides `JobInv`, which is nearly
inductive, `IInv` says that requests at work are about a job (`RequestsOK`), that the
page in hand is one the execution has not had before (`PageOK`), that a task about to
end has given its job a status (`EndingsOK`), and `DataOK`: what the saved progress
and the progress in memory count is `Accounted` for (stored, or in `excused`), and
so is a page that is inserted but not yet counted. `SaveCounts` says what a page adds:
the entries on it are there, the others it passes are `Misses`, and only a page the
execution had not had before puts them into `excused`. The crash between the insert and the save, and the
restart from the saved progress, keep it.

The dates of `OverviewRetention` have an invariant of their own, `DatesInv`, on top
of `IInv`. No date is further ahead than what is written today (`NoneAhead`); the
end of an import will give its job a date not earlier than those of its windows
(`TaskDates`), and has (`JobDates`); a window is not dated later than its entries,
once it is a success (`EntryDates`) and while it is being copied (`CopyDates`). The
windows in `untimely` and in `mixed` are left out, as items 16 and 18 above explain.

### SettingsProofs: BlockingSync

| Theorem | States |
|---|---|
| `ReportsAreTrue` | `Spec => []ReportInv` |
| `RetriesRepeatNothing` | `Spec => []NothingIsRepeated` |
| `PresetsAreOneList` | `Spec => []OneListOfPresets` |
| `ReadersRemoveNothing` | `Spec => ReadersKeepPresets` |

`AppliesInv` relates, for each request, its stage (`StageOK`) and at each Pi-hole
the place, the rows and what the Pi-hole does (`PlaceOK`, `MetOK`, `OwnOK`): only the
last row of a Pi-hole can be a success, and whoever met the state that was wanted
is recorded as having met it. `PresetsInv` looks at the rows that are stored
together with those that any request has read or is about to write (`Rows`): any
two from the same list are one, or one is the repaired form of the other
(`Agree`), and only one of those stored has the low numbers (`OneLow`). Without the rows in
memory nothing could be said of what a slow writer will put there.

### SettingsProofs: ConfigTopics

| Theorem | States |
|---|---|
| `CommonsStay` | `SpecTopics => []TopicInv` |
| `ChangesSurvive` | `SpecTopics => []AgreedChangesSurvive` |
| `CopiesAreWhole` | `SpecTopics => CopyIsWhole` |

`CommonsAreRead` adds to `CommonItemsStay` that the topics in memory have what is
common to all, for a copy will write them. `Survives` adds to
`AgreedChangesSurvive` what holds while a save is on its way: an item or a field
that was read as it is wanted, and will therefore not be sent, is still so at the
Pi-hole. `ItemMoves` and `FieldMoves` say what a save does to one item and one
field, wherever it stops. `Copies` is about a copy nobody interferes with.

### QueryMembershipsProofs

| Theorem | States |
|---|---|
| `ClientsAreAsSaved` | `SpecRefreshes => []ClientInv` |
| `GroupsGoByTheirNames` | `SpecRefreshes => []GroupsGoByName` |
| `TheRestIsKept` | `SpecRefreshes => KeepsTheRest` |
| `CacheIsTrue` | `SpecRefreshes => []CacheInv` |

`RInv` is about the requests: what each is about at its stage (`Asks`, `Proceeds`),
that what it read of the Pi-hole it is at is still so unless others changed it
(`SnapIsCurrent`), that the Pi-holes it is over with are as it wants (`Serves`), and
that a listing has read the aliases saved last (`ListingIsCurrent`). For the
refreshes there are `ShotIsCurrent`, the same for what a refresh has read,
`StorersBegan`, and `Deleting`: a refresh that stores has found every row the
baseline does not know, or that row is `late`, and deletes none that it knows. `CacheInv` then follows because a transaction replaces all that it
has read, and keeps the rest only where the groups still exist.

### ManagedGroupsProofs

| Theorem | States |
|---|---|
| `BaselineComesLast` | `Spec => []GroupInv` |
| `ConflictsAreTold` | `Spec => []ConflictsAreReported` |
| `SyncsConverge` | `Spec => SyncConverges` |
| `DefaultStays` | `Spec => DefaultIsKept` |

`Proceeds` and `Ready` say how far a request is and what it has seen; `Copies`, that
a synchronisation nobody interferes with finds its Pi-holes as it read them, and has
left every target it is over with like the source (`Copied`, but for the groups with
id 0: `Shared`). `Spares` is the part of a write that `DefaultStays` is about.
`ConflictsAreTold` is a count. For each name and Pi-hole, `Put` and `Taken` are the
requests that have put a group of that name there or taken it away, and what the
Pi-hole had at first is what it has now, plus those that took, minus those that put
(`AtFirst`). `Balanced` says that this is the same at every Pi-hole: creation and
renaming are refused where the name is in use, removal where it is gone. When
all requests are over and none has failed, each has written to every Pi-hole, so
`Put` and `Taken` are the same everywhere, and so is what is there. `DeletedIsGone`
and `SeenIsThere` deal with deletions of several groups, which need not be refused.

### ManagedListsProofs

| Theorem | States |
|---|---|
| `SuccessIsTrue` | `Spec => []EntryInv` |
| `NewDomainsAreAsAsked` | `Spec => []DomainIsAsAsked` |
| `BaselineWins` | `Spec => []BaselineIsSpread` |

The properties speak of requests that are over; the invariant says the same of each
Pi-hole as soon as a request has written to it (`AddedStays`, `DeletedStays`,
`DomainStays`). That nobody else asks for the opposite does not remain true: a
synchronisation that is refused withdraws what it asked for. So the
parts of the invariant ask for less, namely that no request that may have changed
something has asked for the opposite (`Untouched`): once false it stays false, and
a request that begins to write makes it false before it does. A synchronisation
claims what it saw, not what it wrote, hence `SeenIsThere`: a Pi-hole keeps what
somebody has read there unless somebody deletes it, and the synchronisation sends
there only what it has not seen. What a Pi-hole has rejected is excused as long as the
request is about it (`Excused`), and never for a new domain.

`BaselineIsSpread` needs to know what the requests still under way will write.
`Spreads` says of every Pi-hole that it has what it had first, or got it from the
baseline if that had one; `BaselineIsRead`, that whoever has asked the baseline has
what it had first. Both hold while only synchronisations of everything are at work
and nothing has failed: a source that was not read is left out, and then another
Pi-hole's entry may be spread.

### NotificationsProofs

| Theorem | States |
|---|---|
| `RowsAreRight` | `Spec => []RowInv` |
| `AnnouncementsAreOnce` | `Spec => []AnnouncedOnce` |

All of it rests on `OnePoll`: while one is at work, `syncInProgress` keeps the
others out, so that what a poll has read of the open rows is changed by nobody who
opens one. `ListOK` and `FoundOK` say what a poll knows at each stage: what it lists
has been at that Pi-hole; rows of messages it has not listed are about messages that
are gone; where it found no open row there is none yet. Users and retention
may close the rows meanwhile, never open one.
`RowOK` and `UserOK` tie rows that are closed or read to messages that are gone,
through a user's request that has yet to write what it has read.

`AnnouncedOnce` is again a count, one row per message and one more per excuse, and
not inductive: a message without an open row may get one. `Booked` says that as long
as it may (`MayCome`: the message is not gone, or a poll has it in its list or in its
hand) and none is open, one announcement is still to spare. That a message closed
in time does not come back is the other half: it is closed when it is gone, and
only a poll that listed it before could record it again, which is what `Raced`
counts.

### What the proofs found

The attempts changed some models, each time to what the code does:

* `ManagedClients` let a request take the Pi-holes in any order. With three or more
  that is not what the code does, and which one comes next must be known to say
  what the snapshot is of: `Upcoming`.
* `Regroup` did not create groups; with creations, an older refresh that stores
  later deletes memberships it knows nothing of (item 21).
* `ConflictsAreReported` is false for three requests in one case, which two
  requests cannot meet and the run therefore had not shown (item 20).
* `CopyIsWhole` and `SyncConverges` spoke of the target written last; now they speak
  of all.
* `Raced` in `Notifications` also excused a message in the list of a poll that had
  failed, and which will not come to it: `AnnouncedOnce` now says more.
* `NextId` had no meaning once `MaxRows` ids were in use; now no row is added then.

### Only model-checked

Every invariant and every action property of the runs is proved, and so is the
refinement of `KeyedSemaphore`. What stays with TLC is liveness under fairness, which
is out of the prover's reach: `EveryCallSettles`, `EveryRequestEnds`, `EveryJobEnds`,
`EveryMessageIsShown` and `StaleRowsClose`. The safety they rest on is proved where
it has a name: no wake-up is lost (`NoLostWakeup`), a job that waits or runs has a
task (`JobInv`), polls do not overlap (`OnePoll`).

## 5. Not modelled, and the plan

Not modelled yet, in order of importance:

1. `LoginSession`: cookie, its expiry, and the second seeding of `login`
   (`session.service.ts:40-262`), composed with `InstanceSessions`.
2. Rows of `Notification` about sessions and about failed requests of users
   (`notifications.service.ts:580, :690`, `recordAuditFailure`), whose occurrences
   are counted by concurrent requests; push subscriptions.
3. The HTTP exchanges of discovery and import of instances
   (`instances.service.ts:122`), several in one job.

Theorems worth having once these are modelled: that a cookie's session is one the
Pi-hole still knows or the request is refused, from `SessionInv`; and the count of
occurrences under concurrent requests.

Left out for good: queries, dashboard, navigation and health only read; audit is
one insert; the HTTP client, CSV, cryptography and translations are conversions
without state, and appear where they are used as an answer or an error; ignore
rules, drift view and teleporter export change no topic; the tables `managedList`
and `managedDomain` are written and never read; tags go the way of aliases; the
web application renders what the backend answers; the API client and the Prisma
client are generated, and the schema was read for unique keys and cascades. These
parts are most of the repository's lines: the generated clients and the web
application alone are more than half.
