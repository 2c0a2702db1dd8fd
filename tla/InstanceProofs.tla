---------------------------- MODULE InstanceProofs ----------------------------
(***************************************************************************)
(* Theorems about the Pi-holes of the table Instance and what the backend  *)
(* holds at them.  First InstanceSessions: for every set of instances,     *)
(* connections and requests, whatever number of locks may be out at once.  *)
(* Then InstanceRegistry: for any number of requests of each kind.         *)
(***************************************************************************)
EXTENDS InstanceRegistry, InstanceSessions, FiniteSetTheorems, TLAPS

-----------------------------------------------------------------------------
(***************************************************************************)
(* The inductive invariant                                                 *)
(***************************************************************************)
Calls == Requests \X {"outer", "nested"}

\* What a request does under its locks
AtWork == Exchanges \cup {"replacing", "nested"}

Holds(r) == phase[Outer(r)] = "running"

\* No two permits name the same key.
PermitsOK ==
  /\ phase \in [Calls -> {"idle", "queued", "running", "inline", "settled"}]
  /\ want \in [Calls -> SUBSET (Instances \cup Targets)]
  /\ IsFiniteSet(Lock!Holders)
  /\ \A c, d \in Lock!Holders : c # d => want[c] \cap want[d] = {}

\* A nested call never has a permit of its own, and a request at work has one that
\* names its instance.
LocksOK ==
  /\ PermitsOK
  /\ \A r \in Requests :
       /\ phase[Nested(r)] # "running"
       /\ pc[r] \in AtWork => Holds(r)
       /\ phase[Outer(r)] \in {"queued", "running"} => about[r] \in want[Outer(r)]

\* What a request remembers: only an update has a connection of its own, whoever is
\* not idle has read a record, and who works with a session that is not new has it
\* from there.
MemoryOK ==
  \A r \in Requests :
    /\ kind[r] # "update" => plan[r] = Unchanged
    /\ pc[r] \in AtWork \cup {"waiting"} =>
         copy[r] \in [target : Targets, session : Sessions \cup {NoSession}]
    /\ pc[r] \in {"revalidating", "ensuring", "persisting", "replacing", "executing"} =>
         kind[r] # "update" /\ kind[r] # "login"
    /\ pc[r] = "committing" => kind[r] = "update"
    /\ pc[r] = "revalidating" => mine[r] = copy[r].session
    /\ pc[r] \in {"nesting", "nested"} =>
         kind[r] = "reauthenticate" \/ mine[r] # NoSession

\* A request that logs in for the record it has read has read it under its locks.
LoginIsCurrent ==
  \A r \in Requests : pc[r] = "authenticating" =>
    /\ kind[r] \in {"use", "reauthenticate"} => copy[r] = Record(about[r])
    /\ kind[r] = "update" => copy[r] = Effective(r)

\* A request that is about to use a session has stored it, for the connection it uses.
StoredIsMine ==
  \A r \in Requests : pc[r] \in {"replacing", "executing"} =>
    stored[about[r]] = mine[r] /\ copy[r].target = target[about[r]]

IInv ==
  /\ TypeOK
  /\ LocksOK
  /\ MemoryOK
  /\ CopyIsCurrent
  /\ LoginIsCurrent
  /\ StoredIsMine

-----------------------------------------------------------------------------
(***************************************************************************)
(* The locks                                                               *)
(***************************************************************************)
LEMMA CallTypes ==
  ASSUME NEW r \in Requests
  PROVE  /\ Outer(r) \in Calls /\ Nested(r) \in Calls
         /\ \A q \in Requests :
              /\ Outer(r) # Nested(q)
              /\ Outer(r) = Outer(q) => r = q
              /\ Nested(r) = Nested(q) => r = q
BY DEF Outer, Nested, Calls

\* A call that asks waits or joins; it holds nothing yet.
LEMMA AskKeeps ==
  ASSUME PermitsOK, NEW c \in Calls, NEW h, NEW ks \in SUBSET (Instances \cup Targets),
         Lock!Request(c, h, ks) \/ Lock!Join(c, h, ks)
  PROVE  PermitsOK'
<1>1. \E p \in {"queued", "inline"} :
        /\ phase' = [phase EXCEPT ![c] = p]
        /\ want' = [want EXCEPT ![c] = ks]
        /\ phase[c] = "idle"
  BY DEF Lock!Request, Lock!Join
<1>2. Lock!Holders' = Lock!Holders /\ c \notin Lock!Holders
  BY <1>1 DEF PermitsOK, Lock!Holders, Calls
<1>3. \A d \in Lock!Holders : want'[d] = want[d]
  BY <1>1, <1>2 DEF PermitsOK, Lock!Holders, Calls
<1>4. /\ phase' \in [Calls -> {"idle", "queued", "running", "inline", "settled"}]
      /\ want' \in [Calls -> SUBSET (Instances \cup Targets)]
  BY <1>1 DEF PermitsOK
<1>5. QED
  BY <1>2, <1>3, <1>4 DEF PermitsOK

\* A permit is given only when no other one names one of its keys.
LEMMA AcquireKeeps ==
  ASSUME PermitsOK, NEW c \in Calls, Lock!Acquire(c)
  PROVE  PermitsOK' /\ phase' = [phase EXCEPT ![c] = "running"] /\ want' = want
<1>1. /\ phase[c] = "queued" /\ phase' = [phase EXCEPT ![c] = "running"] /\ want' = want
      /\ \A k \in want[c] : Lock!Cardinality(Lock!HoldersOf(k)) < 1
  BY DEF Lock!Acquire
<1>2. Lock!Holders' = Lock!Holders \cup {c}
  BY <1>1 DEF PermitsOK, Lock!Holders, Calls
<1>3. IsFiniteSet(Lock!Holders')
  BY <1>2, FS_AddElement DEF PermitsOK
<1>4. ASSUME NEW d \in Lock!Holders PROVE want[c] \cap want[d] = {}
  <2>1. SUFFICES ASSUME NEW k \in want[c], k \in want[d] PROVE FALSE
    OBVIOUS
  <2>2. Cardinality(Lock!HoldersOf(k)) < 1
    BY <1>1 DEF Lock!Cardinality, Cardinality, Lock!IsFiniteSet, IsFiniteSet
  <2>3. IsFiniteSet(Lock!HoldersOf(k))
    <3>1. Lock!HoldersOf(k) \subseteq Lock!Holders
      BY DEF Lock!HoldersOf
    <3>2. QED
      BY <3>1, FS_Subset DEF PermitsOK
  <2>4. Lock!HoldersOf(k) = {}
    <3>1. Cardinality(Lock!HoldersOf(k)) \in Nat
      BY <2>3, FS_CardinalityType
    <3>2. Cardinality(Lock!HoldersOf(k)) = 0
      BY <2>2, <3>1
    <3>3. QED
      BY <2>3, <3>2, FS_EmptySet
  <2>5. QED
    BY <2>1, <2>4 DEF Lock!HoldersOf
<1>5. \A d, e \in Lock!Holders' : d # e => want'[d] \cap want'[e] = {}
  BY <1>1, <1>2, <1>4 DEF PermitsOK
<1>6. phase' \in [Calls -> {"idle", "queued", "running", "inline", "settled"}]
  BY <1>1 DEF PermitsOK
<1>7. QED
  BY <1>1, <1>3, <1>5, <1>6 DEF PermitsOK

\* Permits given back are nobody's.
LEMMA SettleKeeps ==
  ASSUME PermitsOK, want' = want,
         phase' \in [Calls -> {"idle", "queued", "running", "inline", "settled"}],
         \A c \in Calls : phase'[c] = "running" => phase[c] = "running"
  PROVE  PermitsOK'
<1>1. Lock!Holders' \subseteq Lock!Holders
  BY DEF Lock!Holders, Calls
<1>2. IsFiniteSet(Lock!Holders')
  BY <1>1, FS_Subset DEF PermitsOK
<1>3. QED
  BY <1>1, <1>2 DEF PermitsOK

-----------------------------------------------------------------------------
(***************************************************************************)
(* What the steps of a request leave alone                                 *)
(***************************************************************************)
Moves(r) == Ask(r) \/ Step(r)

OthersKeep(r) ==
  \A q \in Requests \ {r} :
    /\ pc'[q] = pc[q] /\ kind'[q] = kind[q] /\ plan'[q] = plan[q]
    /\ copy'[q] = copy[q] /\ mine'[q] = mine[q]

OnlyOwnRow(r) ==
  /\ \A i \in Instances \ {about[r]} : Record(i)' = Record(i)
  /\ pc[r] \notin AtWork => UNCHANGED <<target, stored>>

LEMMA RequestFrame ==
  ASSUME TypeOK, NEW r \in Requests, Moves(r)
  PROVE  /\ OthersKeep(r) /\ OnlyOwnRow(r) /\ about' = about
<1>1. about' = about
  BY DEF Moves, Ask, Step, Start, Reload, Ensure, Revalidate, Authenticate, Persist,
    Replace, Execute, Refuse, Commit, Nest, NestedReload, Seed, Fail, NestedEnds, Release,
    planVars
<1>2. \A q \in Requests \ {r} : pc'[q] = pc[q]
  BY DEF TypeOK, Moves, Ask, Step, Start, Reload, Ensure, Revalidate, Authenticate,
    Persist, Replace, Execute, Refuse, Commit, Nest, NestedReload, Seed, Fail,
    NestedEnds, Release, Goto
<1>3. \A q \in Requests \ {r} : kind'[q] = kind[q] /\ plan'[q] = plan[q]
  <2>1. CASE Ask(r)
    BY <2>1 DEF Ask, TypeOK
  <2>2. CASE Release(r)
    BY <2>2 DEF Release, Drop
  <2>3. CASE UNCHANGED planVars
    BY <2>3 DEF planVars
  <2>4. QED
    BY <2>1, <2>2, <2>3 DEF Moves, Step, Start, Reload, Ensure, Revalidate, Authenticate,
      Persist, Replace, Execute, Refuse, Commit, Nest, NestedReload, Seed, Fail, NestedEnds
<1>4. \A q \in Requests \ {r} : copy'[q] = copy[q] /\ mine'[q] = mine[q]
  BY DEF TypeOK, Moves, Ask, Step, Start, Reload, Ensure, Revalidate, Authenticate,
    Persist, Replace, Execute, Refuse, Commit, Nest, NestedReload, Seed, Fail,
    NestedEnds, Release, Drop
<1>5. /\ \A i \in Instances \ {about[r]} : target'[i] = target[i] /\ stored'[i] = stored[i]
      /\ pc[r] \notin AtWork => UNCHANGED <<target, stored>>
  BY DEF TypeOK, Moves, Ask, Step, Start, Reload, Ensure, Revalidate, Authenticate,
    Persist, Replace, Execute, Refuse, Commit, Nest, NestedReload, Seed, Fail,
    NestedEnds, Release, Store, rowVars, Goto, AtWork, Exchanges
<1>6. QED
  BY <1>1, <1>2, <1>3, <1>4, <1>5 DEF OthersKeep, OnlyOwnRow, Record

\* Two requests at work are about different instances.
LEMMA Alone ==
  ASSUME LocksOK, NEW r \in Requests, NEW q \in Requests, r # q, Holds(r), Holds(q)
  PROVE  about[r] # about[q]
<1>1. Outer(r) \in Lock!Holders /\ Outer(q) \in Lock!Holders /\ Outer(r) # Outer(q)
  BY CallTypes DEF Holds, Lock!Holders, Calls
<1>2. about[r] \in want[Outer(r)] /\ about[q] \in want[Outer(q)]
  BY DEF LocksOK, Holds
<1>3. QED
  BY <1>1, <1>2 DEF LocksOK, PermitsOK

LEMMA OthersRecords ==
  ASSUME TypeOK, LocksOK, NEW r \in Requests, Moves(r), NEW q \in Requests \ {r}, pc[q] \in AtWork
  PROVE  Record(about[q])' = Record(about[q]) /\ Effective(q)' = Effective(q)
<1>1. OthersKeep(r) /\ OnlyOwnRow(r) /\ about' = about /\ about[q] \in Instances
  BY RequestFrame DEF TypeOK
<1>2. Record(about[q])' = Record(about[q])
  <2>1. CASE pc[r] \notin AtWork
    BY <1>1, <2>1 DEF OnlyOwnRow, Record
  <2>2. CASE pc[r] \in AtWork
    <3>1. about[r] # about[q]
      BY <2>2, Alone DEF LocksOK
    <3>2. QED
      BY <1>1, <3>1 DEF OnlyOwnRow, Record
  <2>3. QED
    BY <2>1, <2>2
<1>3. QED
  BY <1>1, <1>2 DEF Effective, OthersKeep

-----------------------------------------------------------------------------
(***************************************************************************)
(* Types and memory                                                        *)
(***************************************************************************)
Reads == [target : Targets, session : Sessions \cup {NoSession}]

LEMMA RecordTypes ==
  ASSUME TypeOK
  PROVE  \A r \in Requests : /\ about[r] \in Instances
                             /\ Record(about[r]) \in Reads
                             /\ Effective(r) \in Reads
BY DEF TypeOK, Record, Effective, Reads

LEMMA RowTypes ==
  ASSUME TypeOK, NEW r \in Requests, Moves(r), MemoryOK
  PROVE  /\ target' \in [Instances -> Targets]
         /\ stored' \in [Instances -> Sessions \cup {NoSession}]
         /\ lease' \in [Instances -> {"fresh", "soon", "over"}]
         /\ live' \subseteq Sessions
<1>1. target' \in [Instances -> Targets]
  <2>1. CASE Commit(r)
    BY <2>1 DEF Commit, TypeOK, MemoryOK, Goto, AtWork, Exchanges
  <2>2. CASE UNCHANGED target
    BY <2>2 DEF TypeOK
  <2>3. QED
    BY <2>1, <2>2 DEF Moves, Ask, Step, Start, Reload, Ensure, Revalidate, Authenticate,
      Persist, Replace, Execute, Refuse, Nest, NestedReload, Seed, Fail, NestedEnds,
      Release, Store, rowVars
<1>2. stored' \in [Instances -> Sessions \cup {NoSession}]
  BY DEF TypeOK, Moves, Ask, Step, Start, Reload, Ensure, Revalidate, Authenticate,
    Persist, Replace, Execute, Refuse, Commit, Nest, NestedReload, Seed, Fail,
    NestedEnds, Release, Store, rowVars
<1>3. lease' \in [Instances -> {"fresh", "soon", "over"}]
  BY DEF TypeOK, Moves, Ask, Step, Start, Reload, Ensure, Revalidate, Authenticate,
    Persist, Replace, Execute, Refuse, Commit, Nest, NestedReload, Seed, Fail,
    NestedEnds, Release, Store, rowVars
<1>4. live' \subseteq Sessions
  <2>1. CASE Authenticate(r)
    BY <2>1 DEF Authenticate, TypeOK, MemoryOK, Goto, AtWork, Exchanges, Sessions
  <2>2. CASE live' \subseteq live
    BY <2>2 DEF TypeOK
  <2>3. QED
    BY <2>1, <2>2 DEF Moves, Ask, Step, Start, Reload, Ensure, Revalidate, Persist,
      Replace, Execute, Refuse, Commit, Nest, NestedReload, Seed, Fail, NestedEnds, Release
<1>5. QED
  BY <1>1, <1>2, <1>3, <1>4

LEMMA MindTypes ==
  ASSUME TypeOK, NEW r \in Requests, Moves(r), MemoryOK
  PROVE  /\ pc' \in [Requests -> Exchanges \cup {"idle", "waiting", "replacing",
                                         "nested", "done", "failed", "lost"}]
         /\ kind' \in [Requests -> Kinds]
         /\ plan' \in [Requests -> Targets \cup {Unchanged}]
         /\ copy' \in [Requests -> Reads \cup {NoRecord}]
         /\ mine' \in [Requests -> Sessions \cup {NoSession}]
         /\ retried' \subseteq Requests
<1>1. pc' \in [Requests -> Exchanges \cup {"idle", "waiting", "replacing",
                                         "nested", "done", "failed", "lost"}]
  BY DEF TypeOK, Moves, Ask, Step, Start, Reload, Ensure, Revalidate, Authenticate,
    Persist, Replace, Execute, Refuse, Commit, Nest, NestedReload, Seed, Fail,
    NestedEnds, Release, Goto, Exchanges
<1>2. kind' \in [Requests -> Kinds] /\ plan' \in [Requests -> Targets \cup {Unchanged}]
  <2>1. CASE Ask(r)
    BY <2>1 DEF Ask, TypeOK
  <2>2. CASE Release(r)
    BY <2>2 DEF Release, Drop, TypeOK, Kinds
  <2>3. CASE UNCHANGED planVars
    BY <2>3 DEF planVars, TypeOK
  <2>4. QED
    BY <2>1, <2>2, <2>3 DEF Moves, Step, Start, Reload, Ensure, Revalidate, Authenticate,
      Persist, Replace, Execute, Refuse, Commit, Nest, NestedReload, Seed, Fail, NestedEnds
<1>3. copy' \in [Requests -> Reads \cup {NoRecord}]
  <2>1. copy \in [Requests -> Reads \cup {NoRecord}] 
    BY DEF TypeOK, Reads
  <2>2. CASE \E x \in Reads : copy' = [copy EXCEPT ![r] = x]
    BY <2>1, <2>2
  <2>3. CASE Release(r)
    BY <2>1, <2>3 DEF Release, Drop
  <2>4. CASE UNCHANGED copy
    BY <2>1, <2>4
  <2>5. QED
    BY <2>2, <2>3, <2>4, RecordTypes DEF Moves, Ask, Step, Start, Reload, Ensure,
      Revalidate, Authenticate, Persist, Replace, Execute, Refuse, Commit, Nest,
      NestedReload, Seed, Fail, NestedEnds
<1>4. mine' \in [Requests -> Sessions \cup {NoSession}]
  <2>1. CASE Authenticate(r)
    BY <2>1 DEF Authenticate, TypeOK, MemoryOK, Goto, AtWork, Exchanges, Sessions
  <2>2. CASE Ensure(r)
    BY <2>2 DEF Ensure, TypeOK, MemoryOK, Goto, AtWork, Exchanges
  <2>3. CASE Release(r)
    BY <2>3 DEF Release, Drop, TypeOK
  <2>4. CASE UNCHANGED mine
    BY <2>4 DEF TypeOK
  <2>5. QED
    BY <2>1, <2>2, <2>3, <2>4 DEF Moves, Ask, Step, Start, Reload, Revalidate, Persist,
      Replace, Execute, Refuse, Commit, Nest, NestedReload, Seed, Fail, NestedEnds
<1>5. retried' \subseteq Requests
  BY DEF TypeOK, Moves, Ask, Step, Start, Reload, Ensure, Revalidate, Authenticate,
    Persist, Replace, Execute, Refuse, Commit, Nest, NestedReload, Seed, Fail,
    NestedEnds, Release, Drop
<1>6. QED
  BY <1>1, <1>2, <1>3, <1>4, <1>5

\* What a request must remember, one request at a time
Remembers(r) ==
  /\ kind[r] # "update" => plan[r] = Unchanged
  /\ pc[r] \in AtWork \cup {"waiting"} => copy[r] \in Reads
  /\ pc[r] \in {"revalidating", "ensuring", "persisting", "replacing", "executing"} =>
       kind[r] # "update" /\ kind[r] # "login"
  /\ pc[r] = "committing" => kind[r] = "update"
  /\ pc[r] = "revalidating" => mine[r] = copy[r].session
  /\ pc[r] \in {"nesting", "nested"} => kind[r] = "reauthenticate" \/ mine[r] # NoSession
  /\ pc[r] \in {"revalidating", "persisting", "replacing", "executing", "committing",
                "seeding"} => mine[r] # NoSession

LEMMA MemoryByRequest ==
  ASSUME TypeOK, MemoryOK
  PROVE  \A r \in Requests : Remembers(r)
BY DEF TypeOK, MemoryOK, Remembers, Reads

LEMMA OthersRemember ==
  ASSUME NEW r \in Requests, OthersKeep(r), NEW q \in Requests \ {r}, Remembers(q)
  PROVE  Remembers(q)'
BY DEF OthersKeep, Remembers

LEMMA OwnMemory ==
  ASSUME TypeOK, MemoryOK, NEW r \in Requests, Moves(r)
  PROVE  Remembers(r)'
<1>1. /\ pc \in [Requests -> Exchanges \cup {"idle", "waiting", "replacing",
                                         "nested", "done", "failed", "lost"}]
      /\ kind \in [Requests -> Kinds] /\ plan \in [Requests -> Targets \cup {Unchanged}]
      /\ copy \in [Requests -> Reads \cup {NoRecord}]
      /\ mine \in [Requests -> Sessions \cup {NoSession}]
      /\ Record(about[r]) \in Reads /\ Effective(r) \in Reads
  BY RecordTypes DEF TypeOK, Reads
<1>2. Remembers(r)
  BY MemoryByRequest
<1>3. CASE Ask(r)
  BY <1>1, <1>2, <1>3 DEF Ask, Goto, Remembers, AtWork, Exchanges
<1>4. CASE Start(r)
  BY <1>1, <1>2, <1>4 DEF Start, Goto, Remembers, AtWork, Exchanges, planVars, Kinds
<1>5. CASE Reload(r)
  BY <1>1, <1>2, <1>5 DEF Reload, Goto, Remembers, AtWork, Exchanges, planVars
<1>6. CASE Ensure(r)
  BY <1>1, <1>2, <1>6 DEF Ensure, Goto, Remembers, AtWork, Exchanges, planVars
<1>7. CASE Revalidate(r)
  BY <1>1, <1>2, <1>7 DEF Revalidate, Goto, Remembers, AtWork, Exchanges, planVars
<1>8. CASE Authenticate(r)
  <2>1. mine'[r] \in Sessions /\ mine'[r] # NoSession
    BY <1>1, <1>2, <1>8, NoSessionAssumption
    DEF Authenticate, Goto, Remembers, AtWork, Exchanges, Reads, Sessions
  <2>2. QED
    BY <1>1, <1>2, <1>8, <2>1 DEF Authenticate, Goto, Remembers, AtWork, Exchanges, planVars
<1>9. CASE Persist(r)
  BY <1>1, <1>2, <1>9 DEF Persist, Goto, Remembers, AtWork, Exchanges, planVars
<1>10. CASE Replace(r)
  BY <1>1, <1>2, <1>10 DEF Replace, Goto, Remembers, AtWork, Exchanges, planVars
<1>11. CASE Execute(r)
  BY <1>1, <1>2, <1>11 DEF Execute, Goto, Remembers, AtWork, Exchanges, planVars
<1>12. CASE Refuse(r)
  BY <1>1, <1>2, <1>12 DEF Refuse, Goto, Remembers, AtWork, Exchanges, planVars
<1>13. CASE Commit(r)
  BY <1>1, <1>2, <1>13 DEF Commit, Goto, Remembers, AtWork, Exchanges, planVars
<1>14. CASE Nest(r)
  BY <1>1, <1>2, <1>14 DEF Nest, Goto, Remembers, AtWork, Exchanges, planVars
<1>15. CASE NestedReload(r)
  BY <1>1, <1>2, <1>15 DEF NestedReload, Goto, Remembers, AtWork, Exchanges, planVars
<1>16. CASE Seed(r)
  BY <1>1, <1>2, <1>16 DEF Seed, Goto, Remembers, AtWork, Exchanges, planVars
<1>17. CASE Fail(r)
  BY <1>1, <1>2, <1>17 DEF Fail, Remembers, AtWork, Exchanges, planVars
<1>18. CASE NestedEnds(r)
  BY <1>1, <1>2, <1>18 DEF NestedEnds, Remembers, AtWork, Exchanges, planVars
<1>19. CASE Release(r)
  BY <1>1, <1>2, <1>19 DEF Release, Drop, Remembers, AtWork, Exchanges
<1>20. QED
  BY <1>3, <1>4, <1>5, <1>6, <1>7, <1>8, <1>9, <1>10, <1>11, <1>12, <1>13, <1>14, <1>15,
    <1>16, <1>17, <1>18, <1>19 DEF Moves, Step

\* A move of a request keeps the types and every request's memory.
LEMMA MoveTypes ==
  ASSUME TypeOK, MemoryOK, NEW r \in Requests, Moves(r)
  PROVE  TypeOK' /\ MemoryOK'
<1>1. \A q \in Requests : Remembers(q)'
  BY RequestFrame, OwnMemory, OthersRemember, MemoryByRequest
<1>2. about' \in [Requests -> Instances]
  BY RequestFrame DEF TypeOK
<1>3. TypeOK'
  BY <1>1, <1>2, RowTypes, MindTypes DEF TypeOK, Remembers, Reads
<1>4. QED
  BY <1>1, <1>3 DEF MemoryOK, Remembers, Reads

-----------------------------------------------------------------------------
(***************************************************************************)
(* A move keeps the locks                                                  *)
(***************************************************************************)
LEMMA MovePermits ==
  ASSUME TypeOK, PermitsOK, NEW r \in Requests, Moves(r)
  PROVE  PermitsOK'
<1>1. Outer(r) \in Calls /\ Nested(r) \in Calls
  BY CallTypes
<1>2. about[r] \in Instances /\ target[about[r]] \in Targets
  BY DEF TypeOK
<1>3. CASE Ask(r)
  <2>1. PICK t \in Targets \cup {Unchanged} :
          Lock!Request(Outer(r), NoJob,
            {about[r], IF t = Unchanged THEN target[about[r]] ELSE t})
    BY <1>3 DEF Ask
  <2>2. {about[r], IF t = Unchanged THEN target[about[r]] ELSE t}
          \in SUBSET (Instances \cup Targets)
    BY <1>2
  <2>3. QED
    BY <1>1, <2>1, <2>2, AskKeeps
<1>4. CASE Start(r)
  BY <1>1, <1>4, AcquireKeeps DEF Start
<1>5. CASE Nest(r)
  <2>1. {about[r], target[about[r]]} \in SUBSET (Instances \cup Targets)
    BY <1>2
  <2>2. \/ Lock!Request(Nested(r), Outer(r), {about[r], target[about[r]]})
        \/ Lock!Join(Nested(r), Outer(r), {about[r], target[about[r]]})
    BY <1>5 DEF Nest
  <2>3. QED
    BY <1>1, <2>1, <2>2, AskKeeps
<1>6. CASE NestedEnds(r) \/ Release(r)
  <2>1. PICK c \in Calls : phase' = [phase EXCEPT ![c] = "settled"] /\ want' = want
    BY <1>1, <1>6 DEF NestedEnds, Release, Lock!Leave, Lock!Release
  <2>2. /\ phase' \in [Calls -> {"idle", "queued", "running", "inline", "settled"}]
        /\ \A d \in Calls : phase'[d] = "running" => phase[d] = "running"
    BY <2>1 DEF PermitsOK
  <2>3. QED
    BY <2>1, <2>2, SettleKeeps
<1>7. CASE UNCHANGED lockVars
  BY <1>7, SettleKeeps DEF lockVars, PermitsOK
<1>8. QED
  BY <1>3, <1>4, <1>5, <1>6, <1>7 DEF Moves, Step, Reload, Ensure, Revalidate,
    Authenticate, Persist, Replace, Execute, Refuse, Commit, NestedReload, Seed, Fail

\* The locks of one request
Locked(r) ==
  /\ phase[Nested(r)] # "running"
  /\ pc[r] \in AtWork => Holds(r)
  /\ phase[Outer(r)] \in {"queued", "running"} => about[r] \in want[Outer(r)]

LEMMA OthersLocked ==
  ASSUME PermitsOK, NEW r \in Requests, Moves(r), OthersKeep(r), about' = about,
         NEW q \in Requests \ {r}, Locked(q)
  PROVE  Locked(q)'
<1>1. \A c \in Calls \ {Outer(r), Nested(r)} : phase'[c] = phase[c] /\ want'[c] = want[c]
  BY CallTypes DEF PermitsOK, Moves, Ask, Step, Start, Reload, Ensure, Revalidate,
    Authenticate, Persist, Replace, Execute, Refuse, Commit, Nest, NestedReload, Seed,
    Fail, NestedEnds, Release, lockVars, Lock!Request, Lock!Join, Lock!Acquire,
    Lock!Leave, Lock!Release
<1>2. Outer(q) \in Calls \ {Outer(r), Nested(r)} /\ Nested(q) \in Calls \ {Outer(r), Nested(r)}
  BY CallTypes
<1>3. QED
  BY <1>1, <1>2 DEF Locked, Holds, OthersKeep

LEMMA OwnLocked ==
  ASSUME TypeOK, PermitsOK, NEW r \in Requests, Moves(r), about' = about, Locked(r)
  PROVE  Locked(r)'
<1>1. /\ Outer(r) \in Calls /\ Nested(r) \in Calls /\ Outer(r) # Nested(r)
      /\ phase \in [Calls -> {"idle", "queued", "running", "inline", "settled"}]
      /\ want \in [Calls -> SUBSET (Instances \cup Targets)]
      /\ pc \in [Requests -> Exchanges \cup {"idle", "waiting", "replacing",
                                         "nested", "done", "failed", "lost"}]
  BY CallTypes DEF PermitsOK, TypeOK
<1>2. CASE Ask(r)
  BY <1>1, <1>2 DEF Ask, Goto, Locked, Holds, Lock!Request, AtWork, Exchanges
<1>3. CASE Start(r)
  BY <1>1, <1>3 DEF Start, Goto, Locked, Holds, Lock!Acquire
<1>4. CASE Nest(r)
  <2>1. \E p \in {"queued", "inline"} :
          /\ phase' = [phase EXCEPT ![Nested(r)] = p]
          /\ \E ks : want' = [want EXCEPT ![Nested(r)] = ks]
    BY <1>4 DEF Nest, Lock!Request, Lock!Join
  <2>2. phase'[Outer(r)] = phase[Outer(r)] /\ want'[Outer(r)] = want[Outer(r)]
    BY <1>1, <2>1
  <2>3. phase'[Nested(r)] # "running"
    BY <1>1, <2>1
  <2>4. pc[r] \in AtWork
    BY <1>4 DEF Nest, Goto, AtWork, Exchanges
  <2>5. QED
    BY <2>2, <2>3, <2>4 DEF Locked, Holds
<1>5. CASE NestedEnds(r)
  BY <1>1, <1>5 DEF NestedEnds, Locked, Holds, Lock!Leave, AtWork, Exchanges
<1>6. CASE Release(r)
  BY <1>1, <1>6 DEF Release, Locked, Holds, Lock!Release, AtWork, Exchanges
<1>7. CASE UNCHANGED lockVars /\ (pc'[r] \in AtWork => pc[r] \in AtWork)
  BY <1>7 DEF lockVars, Locked, Holds
<1>8. QED
  BY <1>1, <1>2, <1>3, <1>4, <1>5, <1>6, <1>7 DEF Moves, Step, Reload, Ensure, Revalidate,
    Authenticate, Persist, Replace, Execute, Refuse, Commit, NestedReload, Seed, Fail,
    Goto, AtWork, Exchanges

LEMMA MoveLocks ==
  ASSUME TypeOK, LocksOK, NEW r \in Requests, Moves(r)
  PROVE  LocksOK'
<1>1. PermitsOK /\ \A q \in Requests : Locked(q)
  BY DEF LocksOK, Locked
<1>2. PermitsOK' /\ \A q \in Requests : Locked(q)'
  BY <1>1, MovePermits, RequestFrame, OwnLocked, OthersLocked
<1>3. QED
  BY <1>2 DEF LocksOK, Locked

-----------------------------------------------------------------------------
(***************************************************************************)
(* A move keeps what requests have read                                    *)
(***************************************************************************)
\* What one request has read or stored is still so.
Current(r) ==
  /\ pc[r] \in {"ensuring", "revalidating", "persisting", "seeding"} =>
       copy[r] = Record(about[r])
  /\ pc[r] = "committing" => copy[r] = Effective(r)
  /\ pc[r] = "authenticating" =>
       /\ kind[r] \in {"use", "reauthenticate"} => copy[r] = Record(about[r])
       /\ kind[r] = "update" => copy[r] = Effective(r)
  /\ pc[r] \in {"replacing", "executing"} =>
       stored[about[r]] = mine[r] /\ copy[r].target = target[about[r]]

LEMMA OthersCurrent ==
  ASSUME TypeOK, LocksOK, NEW r \in Requests, Moves(r), NEW q \in Requests \ {r}, Current(q)
  PROVE  Current(q)'
<1>1. /\ pc'[q] = pc[q] /\ kind'[q] = kind[q] /\ copy'[q] = copy[q] /\ mine'[q] = mine[q]
      /\ about' = about
  BY RequestFrame DEF OthersKeep
<1>2. CASE pc[q] \in AtWork
  <2>1. Record(about[q])' = Record(about[q]) /\ Effective(q)' = Effective(q)
    BY <1>2, OthersRecords
  <2>2. target'[about[q]] = target[about[q]] /\ stored'[about[q]] = stored[about[q]]
    BY <2>1, <1>1 DEF Record
  <2>3. QED
    BY <1>1, <2>1, <2>2 DEF Current
<1>3. CASE pc[q] \notin AtWork
  BY <1>1, <1>3 DEF Current, AtWork, Exchanges
<1>4. QED
  BY <1>2, <1>3

\* A request whose record nobody has written keeps what it has read.
LEMMA OwnRecord ==
  ASSUME NEW r \in Requests, UNCHANGED <<target, stored, about, plan>>
  PROVE  /\ Record(about[r])' = Record(about[r])
         /\ Effective(r)' = Effective(r)
         /\ target'[about'[r]] = target[about[r]]
         /\ stored'[about'[r]] = stored[about[r]]
BY DEF Record, Effective

LEMMA OwnCurrent ==
  ASSUME TypeOK, MemoryOK, NEW r \in Requests, Moves(r), Current(r)
  PROVE  Current(r)'
<1>1. /\ pc \in [Requests -> Exchanges \cup {"idle", "waiting", "replacing",
                                         "nested", "done", "failed", "lost"}]
      /\ kind \in [Requests -> Kinds] /\ plan \in [Requests -> Targets \cup {Unchanged}]
      /\ copy \in [Requests -> Reads \cup {NoRecord}]
      /\ mine \in [Requests -> Sessions \cup {NoSession}]
      /\ stored \in [Instances -> Sessions \cup {NoSession}]
      /\ about[r] \in Instances /\ about' = about
  BY RequestFrame, RecordTypes DEF TypeOK, Reads
<1>2. Remembers(r)
  BY MemoryByRequest
<1>3. kind[r] # "update" => Effective(r) = Record(about[r])
  BY <1>2 DEF Remembers, Effective
<1>4. CASE Ask(r)
  BY <1>1, <1>4 DEF Ask, Goto, Current
<1>5. CASE Start(r)
  BY <1>1, <1>5 DEF Start, Goto, Current, planVars, Kinds
<1>6. CASE Reload(r)
  <2>1. UNCHANGED <<target, stored, about, plan, kind>> /\ copy'[r] = Effective(r)
    BY <1>1, <1>6 DEF Reload, planVars, rowVars
  <2>2. /\ kind[r] = "use" => pc'[r] = "ensuring"
        /\ kind[r] # "use" => pc'[r] = "authenticating"
    BY <1>1, <1>6 DEF Reload, Goto
  <2>3. QED
    BY <1>3, <2>1, <2>2, OwnRecord DEF Current
<1>7. CASE Ensure(r)
  <2>1. UNCHANGED <<target, stored, about, plan, kind, copy>> /\ pc[r] = "ensuring"
    BY <1>7 DEF Ensure, planVars, rowVars, Goto
  <2>2. \/ pc'[r] = "authenticating"
        \/ pc'[r] \in {"executing", "revalidating"} /\ mine'[r] = copy[r].session
    BY <1>1, <1>7 DEF Ensure, Goto
  <2>3. copy[r] = Record(about[r]) /\ kind[r] # "update"
    BY <1>2, <2>1 DEF Current, Remembers
  <2>4. copy[r].session = stored[about[r]] /\ copy[r].target = target[about[r]]
    BY <2>3 DEF Record
  <2>5. QED
    BY <2>1, <2>2, <2>3, <2>4, OwnRecord DEF Current
<1>8. CASE Revalidate(r)
  <2>1. /\ UNCHANGED <<target, about, plan, kind, copy, mine>> /\ pc[r] = "revalidating"
        /\ pc'[r] \in {"executing", "authenticating"}
    BY <1>1, <1>8 DEF Revalidate, planVars, Goto
  <2>2. /\ copy[r] = Record(about[r]) /\ mine[r] = copy[r].session
        /\ kind[r] # "update"
    BY <1>2, <2>1 DEF Current, Remembers
  <2>3. mine[r] = stored[about[r]] /\ copy[r].target = target[about[r]]
    BY <2>2 DEF Record
  <2>4. stored' = stored
    BY <1>1, <1>8, <2>3 DEF Revalidate
  <2>5. QED
    BY <2>1, <2>2, <2>3, <2>4, OwnRecord DEF Current
<1>9. CASE Authenticate(r)
  <2>1. /\ UNCHANGED <<target, stored, about, plan, kind, copy>> /\ pc[r] = "authenticating"
        /\ kind[r] = "update" => pc'[r] = "committing"
        /\ kind[r] = "login" => pc'[r] = "nesting"
        /\ kind[r] \notin {"update", "login"} => pc'[r] = "persisting"
    BY <1>1, <1>9 DEF Authenticate, planVars, rowVars, Goto
  <2>2. kind[r] \in Kinds
    BY <1>1
  <2>3. QED
    BY <2>1, <2>2, OwnRecord DEF Current, Kinds
<1>10. CASE Persist(r)
  <2>1. /\ UNCHANGED <<target, about, copy, mine>> /\ pc[r] = "persisting"
        /\ pc'[r] = "replacing" /\ stored'[about[r]] = mine[r]
    BY <1>1, <1>10 DEF Persist, Store, planVars, Goto
  <2>2. copy[r].target = target[about[r]]
    BY <2>1 DEF Current, Record
  <2>3. QED
    BY <2>1, <2>2 DEF Current
<1>11. CASE Replace(r)
  BY <1>1, <1>11, OwnRecord DEF Replace, Goto, Current, rowVars, planVars
<1>12. CASE Refuse(r)
  <2>1. /\ UNCHANGED <<target, stored, about, plan, kind>> /\ copy'[r] = Record(about[r])
        /\ pc'[r] = "authenticating" /\ kind[r] = "use"
    BY <1>1, <1>12 DEF Refuse, Goto, rowVars, planVars
  <2>2. QED
    BY <2>1, OwnRecord DEF Current
<1>13. CASE NestedReload(r)
  <2>1. /\ UNCHANGED <<target, stored, about, plan, kind>> /\ copy'[r] = Record(about[r])
        /\ kind[r] = "reauthenticate" => pc'[r] = "authenticating"
        /\ kind[r] # "reauthenticate" => pc'[r] = "seeding"
    BY <1>1, <1>13 DEF NestedReload, Goto, rowVars, planVars
  <2>2. QED
    BY <2>1, OwnRecord DEF Current
<1>14. CASE pc'[r] \in {"done", "failed", "nesting", "nested"}
  BY <1>14 DEF Current
<1>15. QED
  BY <1>1, <1>4, <1>5, <1>6, <1>7, <1>8, <1>9, <1>10, <1>11, <1>12, <1>13, <1>14
  DEF Moves, Step, Execute, Commit, Nest, Seed, Fail, NestedEnds, Release, Goto

LEMMA MoveCurrent ==
  ASSUME TypeOK, LocksOK, MemoryOK, NEW r \in Requests, Moves(r),
         \A q \in Requests : Current(q)
  PROVE  \A q \in Requests : Current(q)'
BY OwnCurrent, OthersCurrent

-----------------------------------------------------------------------------
(***************************************************************************)
(* Crash and the world                                                     *)
(***************************************************************************)
LEMMA CurrentIs ==
  (\A r \in Requests : Current(r)) <=> CopyIsCurrent /\ LoginIsCurrent /\ StoredIsMine
BY DEF Current, CopyIsCurrent, LoginIsCurrent, StoredIsMine

LEMMA InitKeeps == Init => IInv
<1> SUFFICES ASSUME Init PROVE IInv
  OBVIOUS
<1>1. TypeOK
  BY DEF Init, TypeOK, Kinds
<1>2. LocksOK
  <2>1. Lock!Holders = {}
    BY DEF Init, Lock!Init, Lock!Holders
  <2>2. PermitsOK
    BY <2>1, FS_EmptySet DEF Init, Lock!Init, PermitsOK, Calls
  <2>3. QED
    BY <2>2, CallTypes DEF Init, Lock!Init, LocksOK, AtWork, Exchanges, Calls
<1>3. MemoryOK
  BY DEF Init, MemoryOK, AtWork, Exchanges
<1>4. CopyIsCurrent /\ LoginIsCurrent /\ StoredIsMine
  BY DEF Init, CopyIsCurrent, LoginIsCurrent, StoredIsMine
<1>5. QED
  BY <1>1, <1>2, <1>3, <1>4 DEF IInv

\* Whoever was at work when the process died is lost, and nothing of it is left.
LEMMA CrashKeeps ==
  ASSUME IInv, Crash
  PROVE  IInv'
<1>1. /\ UNCHANGED <<target, stored, lease, live, want, about>>
      /\ \A r \in Requests : r \notin InFlight =>
           /\ pc'[r] = pc[r] /\ kind'[r] = kind[r] /\ plan'[r] = plan[r]
           /\ copy'[r] = copy[r] /\ mine'[r] = mine[r]
      /\ \A r \in InFlight :
           /\ pc'[r] = "lost" /\ kind'[r] = "use" /\ plan'[r] = Unchanged
           /\ copy'[r] = NoRecord /\ mine'[r] = NoSession
  BY DEF Crash, Drop, rowVars, InFlight
<1>2. \A r \in Requests : pc'[r] \notin AtWork
  BY <1>1 DEF IInv, LocksOK, Holds, InFlight, AtWork, Exchanges
<1>3. TypeOK'
  <2>1. /\ pc' \in [Requests -> Exchanges \cup {"idle", "waiting", "replacing",
                                         "nested", "done", "failed", "lost"}]
        /\ kind' \in [Requests -> Kinds] /\ plan' \in [Requests -> Targets \cup {Unchanged}]
        /\ retried' \subseteq Requests
    BY DEF IInv, TypeOK, Crash, Drop, Kinds
  <2>2. /\ copy' \in [Requests -> [target : Targets, session : Sessions \cup {NoSession}]
                                 \cup {NoRecord}]
        /\ mine' \in [Requests -> Sessions \cup {NoSession}]
    BY DEF IInv, TypeOK, Crash, Drop
  <2>3. QED
    BY <1>1, <1>2, <2>1, <2>2 DEF IInv, TypeOK, AtWork, Exchanges
<1>4. LocksOK'
  <2>1. /\ phase' \in [Calls -> {"idle", "queued", "running", "inline", "settled"}]
        /\ \A c \in Calls : phase'[c] \in {"idle", "settled"}
    BY DEF Crash, Calls
  <2>2. PermitsOK'
    BY <1>1, <2>1, SettleKeeps DEF IInv, LocksOK
  <2>3. QED
    BY <1>2, <2>1, <2>2, CallTypes DEF LocksOK
<1>5. MemoryOK'
  BY <1>1, <1>2, MemoryByRequest DEF IInv, MemoryOK, Remembers, Reads, AtWork, Exchanges
<1>6. CopyIsCurrent' /\ LoginIsCurrent' /\ StoredIsMine'
  BY <1>2 DEF CopyIsCurrent, LoginIsCurrent, StoredIsMine, AtWork, Exchanges
<1>7. QED
  BY <1>3, <1>4, <1>5, <1>6 DEF IInv

\* Time, other people and forgetful Pi-holes touch no record and no request.
WorldStep ==
  \/ \E i \in Instances : Age(i)
  \/ \E s \in Sessions : Forget(s) \/ Visit(s)
  \/ UNCHANGED vars

LEMMA WorldKeeps ==
  ASSUME IInv, WorldStep
  PROVE  IInv'
<1>1. UNCHANGED <<target, stored, lockVars, pc, planVars, copy, mine, retried>>
  BY DEF WorldStep, Age, Forget, Visit, rowVars, vars
<1>2. lease' \in [Instances -> {"fresh", "soon", "over"}] /\ live' \subseteq Sessions
  BY DEF IInv, TypeOK, WorldStep, Age, Forget, Visit, rowVars, vars
<1>3. TypeOK'
  BY <1>1, <1>2 DEF IInv, TypeOK, planVars
<1>4. LocksOK'
  BY <1>1 DEF IInv, LocksOK, PermitsOK, Holds, Lock!Holders, lockVars, planVars
<1>5. MemoryOK'
  BY <1>1 DEF IInv, MemoryOK, planVars
<1>6. CopyIsCurrent' /\ LoginIsCurrent' /\ StoredIsMine'
  BY <1>1 DEF IInv, CopyIsCurrent, LoginIsCurrent, StoredIsMine, Record, Effective, planVars
<1>7. QED
  BY <1>3, <1>4, <1>5, <1>6 DEF IInv

LEMMA NextKeeps == IInv /\ [Next]_vars => IInv'
<1> SUFFICES ASSUME IInv, [Next]_vars PROVE IInv'
  OBVIOUS
<1>1. CASE \E r \in Requests : Moves(r)
  <2>1. PICK r \in Requests : Moves(r)
    BY <1>1
  <2>2. TypeOK /\ LocksOK /\ MemoryOK /\ \A q \in Requests : Current(q)
    BY CurrentIs DEF IInv
  <2>3. TypeOK' /\ MemoryOK' /\ LocksOK'
    BY <2>1, <2>2, MoveTypes, MoveLocks
  <2>4. \A q \in Requests : Current(q)'
    BY <2>1, <2>2, MoveCurrent
  <2>5. CopyIsCurrent' /\ LoginIsCurrent' /\ StoredIsMine'
    BY <2>4 DEF Current, CopyIsCurrent, LoginIsCurrent, StoredIsMine
  <2>6. QED
    BY <2>3, <2>5 DEF IInv
<1>2. CASE Crash
  BY <1>2, CrashKeeps
<1>3. CASE WorldStep
  BY <1>3, WorldKeeps
<1>4. QED
  BY <1>1, <1>2, <1>3 DEF Next, Moves, WorldStep

-----------------------------------------------------------------------------
(***************************************************************************)
(* The theorems                                                            *)
(***************************************************************************)
\* No request acts without the session it needs, and what it read under its locks
\* is what the tables say until it writes: withInstanceLocks keeps everybody else
\* away from the instance, whatever the connection it moves to.
THEOREM CopiesStayCurrent == Spec => []SessionInv
<1>1. IInv => SessionInv
  BY DEF IInv, SessionInv
<1>2. QED
  BY <1>1, InitKeeps, NextKeeps, PTL DEF Spec

\* A step of a request that ends it with success leaves its instance with a session
\* of the Pi-hole that the instance's record points at.
LEMMA SuccessStep ==
  ASSUME IInv, [Next]_vars, NEW r \in Requests, pc[r] # "done", pc'[r] = "done"
  PROVE  /\ stored'[about[r]] # NoSession
         /\ stored'[about[r]].at = target'[about[r]]
<1>1. about[r] \in Instances
  BY DEF IInv, TypeOK
<1>2. \/ Execute(r) \/ Seed(r)
  <2>1. CASE \E q \in Requests : Moves(q)
    <3>1. PICK q \in Requests : Moves(q)
      BY <2>1
    <3>2. q = r
      BY <3>1, RequestFrame DEF OthersKeep, IInv
    <3>3. Remembers(r) /\ pc \in [Requests -> Exchanges \cup {"idle", "waiting", "replacing",
                                         "nested", "done", "failed", "lost"}]
      BY MemoryByRequest DEF IInv, TypeOK
    <3>4. QED
      BY <3>1, <3>2, <3>3 DEF Moves, Ask, Step, Start, Reload, Ensure, Revalidate,
        Authenticate, Persist, Replace, Refuse, Commit, Nest, NestedReload, Fail,
        NestedEnds, Release, Goto
  <2>2. CASE Crash
    BY <2>2 DEF Crash
  <2>3. CASE WorldStep
    BY <2>3 DEF WorldStep, Age, Forget, Visit, vars
  <2>4. QED
    BY <2>1, <2>2, <2>3 DEF Next, Moves, WorldStep
<1>3. CASE Execute(r)
  <2>1. UNCHANGED <<target, stored>> /\ pc[r] = "executing" /\ mine[r].at = copy[r].target
    BY <1>3 DEF Execute, Goto, Accepts
  <2>2. stored[about[r]] = mine[r] /\ copy[r].target = target[about[r]] /\ mine[r] # NoSession
    BY <2>1 DEF IInv, StoredIsMine, TypeOK
  <2>3. QED
    BY <2>1, <2>2
<1>4. CASE Seed(r)
  <2>1. /\ pc[r] = "seeding" /\ mine[r].at = copy[r].target /\ target' = target
        /\ stored'[about[r]] = mine[r]
    BY <1>1, <1>4 DEF Seed, Store, Goto, Accepts, IInv, TypeOK
  <2>2. copy[r].target = target[about[r]] /\ mine[r] # NoSession
    BY <2>1 DEF IInv, CopyIsCurrent, TypeOK, Record
  <2>3. QED
    BY <2>1, <2>2
<1>5. QED
  BY <1>2, <1>3, <1>4

\* A request answers with success only when the row and the record of its instance
\* name the same Pi-hole, even if an update before it died between the two writes.
THEOREM SuccessIsAtTheTarget == Spec => SuccessMatchesTarget
<1>1. IInv /\ [Next]_vars =>
        [\A r \in Requests :
           pc[r] # "done" /\ pc'[r] = "done"
           => LET i == about[r] IN
              stored'[i] # NoSession /\ stored'[i].at = target'[i]]_vars
  BY SuccessStep
<1>2. QED
  BY <1>1, InitKeeps, NextKeeps, PTL DEF Spec, SuccessMatchesTarget

-----------------------------------------------------------------------------
(***************************************************************************)
(* InstanceRegistry: the inductive invariant.  The two models share no     *)
(* variable: sessions refer to rows, and write no column of the registry.  *)
(***************************************************************************)
\* A table that has rows has a baseline, and a setup that put the first there.
SetUp ==
  exists # {} => /\ baseline # {}
                 /\ \E s \in Setups : step[s] = "done"

\* A toggle or a promotion at work is about a row, and a promotion that has set
\* its row holds it.
SubjectHeld ==
  /\ \A r \in Toggles \cup Promotions :
       step[r] \in {"enabling", "disabling", "clearing", "counting", "committing"}
       => subject[r] \in exists
  /\ \A p \in Promotions :
       step[p] \in {"counting", "committing"} => writer[subject[p]] = p

\* No two setups have gone through.
OneSetupDone ==
  \A s, t \in Setups : step[s] = "done" /\ step[t] = "done" => s = t

\* What the count has established: every row that is a baseline is locked by the
\* promotion that may commit, so that no other one can be in the same position.
CountStands ==
  \A p \in Promotions : step[p] = "committing" => baseline \subseteq Written(p)

TableInv ==
  /\ RegistryTypeOK
  /\ SetUp
  /\ SubjectHeld
  /\ OneSetupDone => OneBaseline /\ CountStands

-----------------------------------------------------------------------------
LEMMA TableInit == InitRegistry => TableInv
BY DEF InitRegistry, TableInv, RegistryTypeOK, SetUp, SubjectHeld, OneBaseline,
       CountStands, Writers, Written

\* Requests of different kinds are different, and nobody is none of them.
LEMMA KindsDiffer ==
  /\ \A p \in Promotions : p \in Writers /\ p \notin Setups /\ p # Nobody
  /\ \A c \in Creations : c \in Writers /\ c \notin Setups /\ c \notin Promotions
  /\ \A g \in Toggles : g \in Writers /\ g \notin Setups /\ g \notin Promotions
  /\ \A s \in Setups : s \in Writers /\ s \notin Promotions
BY WritersAssumption DEF Writers

LEMMA TableTypes == RegistryTypeOK /\ SubjectHeld /\ [NextRegistry]_registryVars => RegistryTypeOK'
<1> SUFFICES ASSUME RegistryTypeOK, SubjectHeld, [NextRegistry]_registryVars PROVE RegistryTypeOK'
  OBVIOUS
<1> USE KindsDiffer DEF RegistryTypeOK, StepTo, Table
<1>1. ASSUME NEW s \in Setups, SetupCheck(s) \/ SetupFail(s) PROVE RegistryTypeOK'
  BY <1>1 DEF SetupCheck, SetupFail
<1>2. ASSUME NEW s \in Setups, SetupCommit(s) PROVE RegistryTypeOK'
  BY <1>2 DEF SetupCommit
<1>3. ASSUME NEW c \in Creations, Create(c) PROVE RegistryTypeOK'
  BY <1>3 DEF Create
<1>4. ASSUME NEW g \in Toggles, ToggleRead(g) \/ ToggleWrite(g) PROVE RegistryTypeOK'
  BY <1>4 DEF ToggleRead, ToggleWrite, SubjectHeld
<1>5. ASSUME NEW p \in Promotions, PromoteScan(p) PROVE RegistryTypeOK'
  BY <1>5 DEF PromoteScan
<1>6. ASSUME NEW p \in Promotions, PromoteClear(p) PROVE RegistryTypeOK'
  BY <1>6 DEF PromoteClear
<1>7. ASSUME NEW p \in Promotions, PromoteSet(p) \/ PromoteCount(p) PROVE RegistryTypeOK'
  BY <1>7 DEF PromoteSet, PromoteCount
<1>8. ASSUME NEW p \in Promotions, PromoteRollback(p) PROVE RegistryTypeOK'
  BY <1>8 DEF PromoteRollback, Unlocked
<1>9. ASSUME NEW p \in Promotions, PromoteCommit(p) PROVE RegistryTypeOK'
  BY <1>9 DEF PromoteCommit, Unlocked, BaselinesSeenBy, Written, SubjectHeld
<1>10. CASE UNCHANGED registryVars
  BY <1>10 DEF registryVars
<1>11. QED
  BY <1>1, <1>2, <1>3, <1>4, <1>5, <1>6, <1>7, <1>8, <1>9, <1>10 DEF NextRegistry

\* A promotion that has set its row will leave it a baseline.
LEMMA SubjectIsSeen ==
  ASSUME TableInv, NEW p \in Promotions, step[p] \in {"counting", "committing"}
  PROVE  subject[p] \in Written(p) /\ subject[p] \in BaselinesSeenBy(p)
BY KindsDiffer DEF TableInv, SubjectHeld, RegistryTypeOK, Written, BaselinesSeenBy

\* If the count is one, the promotion holds every baseline there is.
LEMMA CountOfOne ==
  ASSUME TableInv, OneBaseline, NEW p \in Promotions, PromoteCount(p)
  PROVE  baseline \subseteq Written(p)
<1>1. subject[p] \in BaselinesSeenBy(p)
  BY SubjectIsSeen DEF PromoteCount, StepTo
<1>2. IsFiniteSet(baseline)
  <2>1. baseline = {} \/ \E i : baseline = {i}
    BY DEF OneBaseline
  <2>2. QED
    BY <2>1, FS_EmptySet, FS_Singleton
<1>3. IsFiniteSet(BaselinesSeenBy(p))
  <2>1. BaselinesSeenBy(p) \subseteq baseline \cup {subject[p]}
    BY DEF BaselinesSeenBy
  <2>2. QED
    BY <1>2, <2>1, FS_AddElement, FS_Subset
<1>4. BaselinesSeenBy(p) = {subject[p]}
  BY <1>1, <1>3, FS_Singleton DEF PromoteCount
<1>5. QED
  BY <1>4, SubjectIsSeen DEF BaselinesSeenBy, PromoteCount, StepTo

LEMMA TableNext == TableInv /\ [NextRegistry]_registryVars => TableInv'
<1> SUFFICES ASSUME TableInv, [NextRegistry]_registryVars PROVE TableInv'
  OBVIOUS
<1> USE KindsDiffer DEF TableInv, SetUp, SubjectHeld, OneSetupDone,
                        OneBaseline, CountStands, Written, StepTo, Table
<1>0. RegistryTypeOK /\ RegistryTypeOK'
  BY TableTypes
<1>1. ASSUME NEW s \in Setups, SetupCheck(s) \/ SetupFail(s) PROVE TableInv'
  BY <1>0, <1>1 DEF SetupCheck, SetupFail, RegistryTypeOK
<1>2. ASSUME NEW s \in Setups, SetupCommit(s) PROVE TableInv'
  BY <1>0, <1>2 DEF SetupCommit, RegistryTypeOK
<1>3. ASSUME NEW c \in Creations, Create(c) PROVE TableInv'
  BY <1>0, <1>3 DEF Create, RegistryTypeOK
<1>4. ASSUME NEW g \in Toggles, ToggleRead(g) \/ ToggleWrite(g) PROVE TableInv'
  BY <1>0, <1>4 DEF ToggleRead, ToggleWrite, RegistryTypeOK
<1>5. ASSUME NEW p \in Promotions, PromoteScan(p) PROVE TableInv'
  BY <1>0, <1>5 DEF PromoteScan, RegistryTypeOK
<1>6. ASSUME NEW p \in Promotions, PromoteClear(p) PROVE TableInv'
  BY <1>0, <1>6 DEF PromoteClear, RegistryTypeOK
<1>7. ASSUME NEW p \in Promotions, PromoteSet(p) PROVE TableInv'
  BY <1>0, <1>7 DEF PromoteSet, RegistryTypeOK
<1>8. ASSUME NEW p \in Promotions, PromoteCount(p) PROVE TableInv'
  <2>1. OneSetupDone => baseline \subseteq Written(p)
    BY <1>8, CountOfOne
  <2>2. QED
    BY <1>0, <1>8, <2>1 DEF PromoteCount, RegistryTypeOK
<1>9. ASSUME NEW p \in Promotions, PromoteRollback(p) PROVE TableInv'
  BY <1>0, <1>9 DEF PromoteRollback, Unlocked, RegistryTypeOK
<1>10. ASSUME NEW p \in Promotions, PromoteCommit(p) PROVE TableInv'
  BY <1>0, <1>10, SubjectIsSeen DEF PromoteCommit, Unlocked, BaselinesSeenBy, RegistryTypeOK
<1>11. CASE UNCHANGED registryVars
  BY <1>11 DEF registryVars, RegistryTypeOK
<1>12. QED
  BY <1>1, <1>2, <1>3, <1>4, <1>5, <1>6, <1>7, <1>8, <1>9, <1>10, <1>11 DEF NextRegistry

-----------------------------------------------------------------------------
LEMMA TableInvariance == SpecRegistry => []TableInv
BY TableInit, TableNext, PTL DEF SpecRegistry

\* The columns have the values the code gives them: in particular a baseline and
\* an enabled instance are rows of the table.
THEOREM RegistryTypeCorrect == SpecRegistry => []RegistryTypeOK
<1>1. TableInv => RegistryTypeOK
  BY DEF TableInv
<1>2. QED
  BY TableInvariance, <1>1, PTL

\* With a single setup, which is what the check of createBaseline is for, the
\* table is well formed and never shows two baselines, however many promotions,
\* toggles and creations interleave with it and with one another.
THEOREM OneSetupOneBaseline ==
  ASSUME \A s, t \in Setups : s = t
  PROVE  SpecRegistry => []RegistryInv
<1>1. TableInv => RegistryInv
  BY DEF TableInv, OneSetupDone, RegistryInv
<1>2. QED
  BY TableInvariance, <1>1, PTL

\* With any number of setups, two baselines need two setups that went through:
\* promotions alone never make a second one.
THEOREM TwoBaselinesTwoSetups == SpecRegistry => [](OneSetupDone => OneBaseline)
<1>1. TableInv => (OneSetupDone => OneBaseline)
  BY DEF TableInv
<1>2. QED
  BY TableInvariance, <1>1, PTL

\* Whatever the number of setups, the last baseline is never taken away: no step
\* of a promotion, a toggle or a setup leaves the table without one.
THEOREM BaselineIsKept == SpecRegistry => KeepsBaseline
<1>1. ASSUME TableInv, [NextRegistry]_registryVars PROVE baseline # {} => baseline' # {}
  <2>1. ASSUME NEW s \in Setups, SetupCommit(s) PROVE baseline' # {}
    BY <2>1 DEF SetupCommit
  <2>2. ASSUME NEW p \in Promotions, PromoteCommit(p) PROVE baseline' # {}
    BY <1>1, <2>2, SubjectIsSeen DEF PromoteCommit, StepTo
  <2>3. QED
    BY <1>1, <2>1, <2>2 DEF NextRegistry, registryVars, Table, SetupCheck, SetupFail, Create,
      ToggleRead, ToggleWrite, PromoteScan, PromoteClear, PromoteSet,
      PromoteCount, PromoteRollback
<1>2. TableInv /\ [NextRegistry]_registryVars => [baseline # {} => baseline' # {}]_registryVars
  BY <1>1
<1>3. QED
  BY TableInvariance, <1>2, PTL DEF SpecRegistry, KeepsBaseline
=============================================================================
