------------------------- MODULE ManagedGroupsProofs --------------------------
(***************************************************************************)
(* Theorems about ManagedGroups, for any number of Pi-holes, groups and    *)
(* requests, and any number of accesses that fail.                         *)
(***************************************************************************)
EXTENDS ManagedGroups, Integers, FiniteSetTheorems, TLAPS

-----------------------------------------------------------------------------
(***************************************************************************)
(* The inductive invariant: what a request is about and how far it is      *)
(***************************************************************************)
Stages == {"idle", "reading", "refused", "writing", "success", "partial"}
Over == {"idle", "refused", "success", "partial"}

Creation == [kind : {"create"}, names : SUBSET Names, group : Group]
Update == [kind : {"update"}, old : Names, new : Names, comment : Comments]
Toggle == {o \in [kind : {"toggle"}, old : Names, new : Names, enabled : BOOLEAN] :
             o.new = o.old}
Deletion == [kind : {"delete"}, names : SUBSET Names]
SyncAll == [kind : {"syncAll"}, names : {Names}, source : {Baseline},
            targets : {Instances \ {Baseline}}]
SyncOne == {o \in [kind : {"syncOne"}, names : SUBSET Names, source : Instances,
                   targets : SUBSET Instances] : o.source \notin o.targets}
Ops == {Nothing} \cup Creation \cup Update \cup Toggle \cup Deletion \cup SyncAll \cup SyncOne

Typed ==
  /\ groups \in [Instances -> Table]
  /\ \A i \in Instances : groups[i][Default[i]] # None
  /\ op \in [Requests -> Ops]
  /\ stage \in [Requests -> Stages]
  /\ snap \in [Requests -> [Instances -> Table \cup {None}]]
  /\ \A r \in Requests, i \in Instances :
       snap[r][i] # None => snap[r][i][Default[i]] # None
  /\ todo \in [Requests -> SUBSET Instances]
  /\ failed \in [Requests -> SUBSET Instances]
  /\ faults \in 0..MaxFaults
  /\ wrote \in [Requests -> SUBSET Instances]
  /\ quiet \in [Requests -> BOOLEAN]
  /\ agreed \in BOOLEAN

\* What is done and what is left of a request goes with its stage.
Proceeds(r) ==
  /\ Running(r) => op[r].kind # "none"
  /\ stage[r] = "idle" => op[r] = Nothing /\ snap[r] = Unread
  /\ stage[r] \in Over => todo[r] = {}
  /\ stage[r] \in {"idle", "reading", "refused"} => failed[r] = {} /\ wrote[r] = {}
  /\ stage[r] = "success" => failed[r] = {}
  /\ Syncs(r) => wrote[r] = {} /\ todo[r] \subseteq op[r].targets
  /\ ~Syncs(r) /\ stage[r] = "reading" => todo[r] = Instances
  /\ Syncs(r) /\ stage[r] = "reading" => todo[r] = op[r].targets
  /\ ~Syncs(r) /\ stage[r] \in {"writing", "success"} =>
       Instances \ todo[r] \subseteq wrote[r] \cup failed[r]
  /\ wrote[r] \cap todo[r] = {}
  /\ Baseline \in wrote[r] => wrote[r] = Instances

\* A request that writes has seen all that it needs, and a user's change means no group
\* that has id 0 somewhere.
Ready(r) ==
  stage[r] = "writing" =>
    /\ op[r].kind \in {"update", "toggle"} =>
         \A i \in Instances : /\ snap[r][i] # None /\ snap[r][i][op[r].old] # None
                              /\ ~Immutable(i, op[r].old) /\ ~Immutable(i, op[r].new)
    /\ op[r].kind = "delete" =>
         \A i \in Instances, n \in op[r].names :
           snap[r][i] # None /\ snap[r][i][n] # None /\ ~Immutable(i, n)
    /\ Syncs(r) => snap[r][op[r].source] # None

-----------------------------------------------------------------------------
(***************************************************************************)
(* The inductive invariant: the books of each name at each Pi-hole         *)
(***************************************************************************)
In(i, n) == groups[i][n] # None
Put(i, n) == {r \in Requests : i \in wrote[r] /\ n \in Adds(r)}
Taken(i, n) == {r \in Requests : i \in wrote[r] /\ n \in Removes(r)}
AtFirst(i, n) ==
  (IF In(i, n) THEN 1 ELSE 0) + Cardinality(Taken(i, n)) - Cardinality(Put(i, n))

Active == {r \in Requests : wrote[r] # {}}

\* No request has been told of a failure, and none copies what it has read.
Clean ==
  \A r \in Requests : failed[r] = {} /\ (stage[r] \in {"writing", "success"} => ~Syncs(r))

\* No deletion can have met a group that another request had taken away.
Straight(n) ==
  \A d, q \in Active :
    op[d].kind = "delete" /\ op[d].names # {n} /\ n \in Removes(d) /\ n \in Removes(q) => q = d

\* What a Pi-hole had at first of a name, it has, or one of the requests has taken it.
Balanced ==
  agreed /\ Clean =>
    \A n \in Names : Straight(n) => \A i \in Instances : AtFirst(i, n) = AtFirst(Baseline, n)

\* What was deleted is gone unless another request has put it there.
DeletedIsGone ==
  Clean => \A d \in Requests, i \in Instances, n \in Names :
    op[d].kind = "delete" /\ n \in op[d].names /\ i \in wrote[d] /\ In(i, n) =>
      \E c \in Requests : i \in wrote[c] /\ n \in Adds(c)

\* What a deletion has seen is there unless another request has taken it away.
SeenIsThere ==
  Clean => \A d \in Requests, i \in Instances, n \in Names :
    /\ op[d].kind = "delete" /\ n \in op[d].names /\ Running(d)
    /\ snap[d][i] # None /\ snap[d][i][n] # None /\ i \notin wrote[d] /\ ~In(i, n)
    => \E q \in Requests \ {d} : i \in wrote[q] /\ n \in Removes(q)

Books == IsFiniteSet(Active) /\ Balanced /\ DeletedIsGone /\ SeenIsThere

-----------------------------------------------------------------------------
(***************************************************************************)
(* The inductive invariant: synchronisations nobody interferes with        *)
(***************************************************************************)
\* The groups a synchronisation makes equal, by what it has read
Shared(r, i, n) ==
  /\ ~Immutable(op[r].source, n)
  /\ Immutable(i, n) => snap[r][op[r].source][n] # None

Copied(r, i) ==
  \A n \in op[r].names : Shared(r, i, n) => groups[i][n] = snap[r][op[r].source][n]

Copies(r) ==
  quiet[r] /\ Syncs(r) /\ Running(r) =>
    /\ \A i \in todo[r] \cup {op[r].source} : snap[r][i] # None => groups[i] = snap[r][i]
    /\ stage[r] = "writing" =>
         \A i \in op[r].targets \ (todo[r] \cup failed[r]) : Copied(r, i)

IInv ==
  /\ Typed
  /\ \A r \in Requests : Proceeds(r) /\ Ready(r) /\ Copies(r)
  /\ Books


-----------------------------------------------------------------------------
(***************************************************************************)
(* Lemmas about the operators                                              *)
(***************************************************************************)
\* The baseline is a Pi-hole, and the last in the order of them.
LEMMA BaselineIsLastInOrder ==
  /\ Baseline \in Instances
  /\ \E k \in DOMAIN Order : Order[k] = Baseline /\ \A l \in DOMAIN Order : l <= k
  /\ \A i \in Instances : \E l \in DOMAIN Order : Order[l] = i
<1>1. /\ Others \in Seq(ToSet(Others)) /\ DOMAIN Others = 1..Len(Others)
      /\ Len(Others) \in Nat
  BY OrderAssumption
<1>2. /\ DOMAIN Order = 1..(Len(Others) + 1)
      /\ Order[Len(Others) + 1] = Baseline
  BY <1>1 DEF Order
<1>3. Len(Others) + 1 \in DOMAIN Order /\ \A l \in DOMAIN Order : l <= Len(Others) + 1
  BY <1>1, <1>2
<1>4. QED
  BY <1>2, <1>3 DEF Instances, ToSet

\* It is the baseline's turn when nothing else is left.
LEMMA BaselineTurn ==
  ASSUME NEW r \in Requests, todo[r] \subseteq Instances,
         op[r].kind # "syncOne", Turn(r, Baseline)
  PROVE  todo[r] = {Baseline}
<1>1. PICK k \in DOMAIN Order : Order[k] = Baseline /\ \A l \in DOMAIN Order : l <= k
  BY BaselineIsLastInOrder
<1>2. ASSUME NEW i \in todo[r] PROVE i = Baseline
  <2>1. PICK l \in DOMAIN Order : Order[l] = i
    BY BaselineIsLastInOrder
  <2>2. k <= l /\ l <= k
    BY <1>1, <2>1 DEF Turn
  <2>3. k \in Nat /\ l \in Nat
    <3>1. DOMAIN Order = 1..(Len(Others) + 1) /\ Len(Others) \in Nat
      BY OrderAssumption DEF Order
    <3>2. QED
      BY <3>1, <1>1, <2>1
  <2>4. k = l
    BY <2>2, <2>3
  <2>5. QED
    BY <1>1, <2>1, <2>4
<1>3. Baseline \in todo[r]
  BY DEF Turn
<1>4. QED
  BY <1>2, <1>3

\* What a request may be about.
LEMMA OpCases ==
  ASSUME NEW o \in Ops
  PROVE  /\ o.kind \in {"none", "create", "update", "toggle", "delete", "syncAll", "syncOne"}
         /\ o.kind = "none" => o = Nothing
         /\ o.kind = "create" => o.names \subseteq Names /\ o.group \in Group
         /\ o.kind \in {"update", "toggle"} => o.old \in Names /\ o.new \in Names
         /\ o.kind = "update" => o.comment \in Comments
         /\ o.kind = "toggle" => o.enabled \in BOOLEAN
         /\ o.kind = "delete" => o.names \subseteq Names
         /\ o.kind = "syncAll" => o.source = Baseline
         /\ o.kind \in {"syncAll", "syncOne"} =>
              /\ o.names \subseteq Names /\ o.source \in Instances
              /\ o.targets \subseteq Instances \ {o.source}
<1>1. CASE o = Nothing
  BY <1>1 DEF Nothing
<1>2. CASE o \in Creation
  BY <1>2 DEF Creation, Nothing
<1>3. CASE o \in Update
  BY <1>3 DEF Update, Nothing
<1>4. CASE o \in Toggle
  BY <1>4 DEF Toggle, Nothing
<1>5. CASE o \in Deletion
  BY <1>5 DEF Deletion, Nothing
<1>6. CASE o \in SyncAll
  BY <1>6, BaselineIsLastInOrder DEF SyncAll, Nothing
<1>7. CASE o \in SyncOne
  BY <1>7 DEF SyncOne, Nothing
<1>8. QED
  BY <1>1, <1>2, <1>3, <1>4, <1>5, <1>6, <1>7 DEF Ops

\* The group with id 0 has a name, and a Pi-hole's groups are groups or None.
LEMMA TableFacts ==
  /\ None \notin Group /\ \A i \in Instances : Default[i] \in Names
  /\ \A t \in Table : /\ DOMAIN t = Names
                      /\ \A n \in Names : t[n] \in Group \cup {None}
BY DefaultAssumption DEF Table

\* What an update makes of a group is a group.
LEMMA ChangedIsGroup ==
  ASSUME Typed, NEW r \in Requests, NEW i \in Instances, Ready(r), stage[r] = "writing",
         op[r].kind \in {"update", "toggle"}
  PROVE  Changed(r, i) \in Group
<1>1. op[r] \in Ops /\ snap[r] \in [Instances -> Table \cup {None}]
  BY DEF Typed
<1>2. snap[r][i] # None /\ snap[r][i][op[r].old] # None
  BY DEF Ready
<1>a. op[r].old \in Names
  BY <1>1, OpCases
<1>3. snap[r][i][op[r].old] \in Group
  BY <1>1, <1>2, <1>a, TableFacts
<1>4. CASE op[r].kind = "toggle"
  <2>1. op[r].enabled \in BOOLEAN
    BY <1>1, <1>4, OpCases
  <2>2. Changed(r, i) = [snap[r][i][op[r].old] EXCEPT !.enabled = op[r].enabled]
    BY <1>4 DEF Changed
  <2>3. QED
    BY <1>3, <2>1, <2>2 DEF Group
<1>5. CASE op[r].kind = "update"
  <2>1. op[r].comment \in Comments
    BY <1>1, <1>5, OpCases
  <2>2. Changed(r, i) = [snap[r][i][op[r].old] EXCEPT !.comment = op[r].comment]
    BY <1>5 DEF Changed
  <2>3. QED
    BY <1>3, <2>1, <2>2 DEF Group
<1>6. QED
  BY <1>4, <1>5

\* What a user's change leaves at a Pi-hole are groups, and the one with id 0 as it was.
LEMMA AfterIsTable ==
  ASSUME Typed, NEW r \in Requests, NEW i \in Instances, Ready(r), Proceeds(r),
         stage[r] = "writing", ~Syncs(r)
  PROVE  LET t == After(r, i, groups[i])
         IN  t \in Table /\ t[Default[i]] = groups[i][Default[i]]
<1> DEFINE t == groups[i]
           d == Default[i]
<1>1. /\ t \in Table /\ t[d] # None /\ op[r] \in Ops /\ d \in Names
      /\ snap[r] \in [Instances -> Table \cup {None}]
  BY TableFacts DEF Typed
<1>2. CASE op[r].kind = "create"
  <2>1. op[r].names \subseteq Names /\ op[r].group \in Group
    BY <1>1, <1>2, OpCases
  <2>2. After(r, i, t) =
          [n \in Names |-> IF n \in op[r].names /\ t[n] = None THEN op[r].group ELSE t[n]]
    BY <1>2 DEF After
  <2> HIDE DEF t, d
  <2>3. After(r, i, t) \in Table
    BY <1>1, <2>1, <2>2, TableFacts DEF Table
  <2>4. After(r, i, t)[d] = t[d]
    BY <1>1, <2>2
  <2>5. QED
    BY <2>3, <2>4 DEF t, d
<1>3. CASE op[r].kind = "delete"
  <2>1. d \notin op[r].names
    BY <1>3 DEF Ready, Immutable
  <2>2. After(r, i, t) = [n \in Names |-> IF n \in op[r].names THEN None ELSE t[n]]
    BY <1>3 DEF After
  <2> HIDE DEF t, d
  <2>3. After(r, i, t) \in Table
    BY <1>1, <2>2, TableFacts DEF Table
  <2>4. After(r, i, t)[d] = t[d]
    BY <1>1, <2>1, <2>2
  <2>5. QED
    BY <2>3, <2>4 DEF t, d
<1>4. CASE op[r].kind \notin {"create", "delete"}
  <2>0. op[r].kind \in {"update", "toggle"}
    BY <1>1, <1>4, OpCases DEF Syncs, Proceeds, Running
  <2>1. After(r, i, t) =
          IF ~Accepts(r, t) THEN t
          ELSE [t EXCEPT ![op[r].old] = None, ![op[r].new] = Changed(r, i)]
    BY <1>4 DEF After
  <2>2. op[r].old # d /\ op[r].new # d
    BY <2>0 DEF Ready, Immutable
  <2>3. op[r].old \in Names /\ op[r].new \in Names
    BY <1>1, <2>0, OpCases
  <2>4. Changed(r, i) \in Group
    BY <2>0, ChangedIsGroup
  <2> HIDE DEF t, d
  <2>5. After(r, i, t) \in Table
    BY <1>1, <2>1, <2>3, <2>4, TableFacts DEF Table
  <2>6. After(r, i, t)[d] = t[d]
    BY <1>1, <2>1, <2>2, <2>3, TableFacts
  <2>7. QED
    BY <2>5, <2>6 DEF t, d
<1>5. QED
  BY <1>2, <1>3, <1>4

\* Whatever part of a plan is applied, groups stay groups; a group the plan does not
\* delete stays there, as it was or as it is at the source.
LEMMA AppliedIsTable ==
  ASSUME NEW src \in Table, NEW t \in Table, NEW p, NEW d \in Names,
         t[d] # None, d \notin p.delete
  PROVE  LET s == Applied(p, src, t)
         IN  s \in Table /\ (s[d] = t[d] \/ (d \in p.update /\ s[d] = src[d]))
<1> DEFINE s == Applied(p, src, t)
<1>1. s = [n \in Names |->
             IF n \in p.delete THEN None
             ELSE IF \/ n \in p.create /\ t[n] = None
                     \/ n \in p.update /\ t[n] # None
                  THEN src[n] ELSE t[n]]
  BY DEF Applied
<1> HIDE DEF s
<1>2. s \in Table
  BY <1>1, TableFacts DEF Table
<1>3. s[d] = t[d] \/ (d \in p.update /\ s[d] = src[d])
  BY <1>1
<1>4. QED
  BY <1>2, <1>3 DEF s

\* No part of a plan deletes the group with id 0, and what is updated is a group of the
\* source that has not id 0 there.
LEMMA PlanFacts ==
  ASSUME NEW r \in Requests, NEW i \in Instances, NEW p \in HalfWay(Plan(r, i)) \cup {Plan(r, i)}
  PROVE  /\ Default[i] \notin p.delete
         /\ \A n \in p.update : /\ n \in op[r].names /\ ~Immutable(op[r].source, n)
                                /\ snap[r][op[r].source][n] # None
<1>1. CASE p = Plan(r, i)
  BY <1>1 DEF Plan, PlanOf, Immutable
<1>2. CASE p \in HalfWay(Plan(r, i))
  <2>1. p \in [delete : SUBSET Plan(r, i).delete, create : SUBSET Plan(r, i).create,
               update : SUBSET Plan(r, i).update]
    BY <1>2 DEF HalfWay
  <2>2. QED
    BY <2>1 DEF Plan, PlanOf, Immutable
<1>3. QED
  BY <1>1, <1>2


-----------------------------------------------------------------------------
(***************************************************************************)
(* What the actions that end an access to a Pi-hole have in common         *)
(***************************************************************************)
\* The group with id 0 is as it was, or as at a baseline that has another one so named.
Spares(r, i, t) ==
  LET d == Default[i] IN
  \/ t[d] = groups[i][d]
  \/ /\ t[d] # None /\ ~Immutable(Baseline, d)
     /\ op[r].kind = "syncAll" /\ t[d] = snap[r][Baseline][d]

Writes(r, i, ok, t) ==
  /\ stage[r] = "writing" /\ i \in todo[r]
  /\ Done(r, i, ok, t)
  /\ t \in Table /\ Spares(r, i, t)
  /\ faults' \in 0..MaxFaults
  /\ \/ wrote' = wrote /\ (ok => Syncs(r))
     \/ /\ wrote' = [wrote EXCEPT ![r] = @ \cup {i}] /\ ~Syncs(r)
        /\ i = Baseline => failed[r] = {} /\ todo[r] = {Baseline}
        /\ ok => Accepts(r, groups[i]) /\ t = After(r, i, groups[i])
  /\ ok /\ Syncs(r) =>
       LET p == Plan(r, i) IN
       /\ snap[r][i] # None
       /\ \/ Empty(p) /\ t = groups[i]
          \/ Smooth(p, groups[i]) /\ t = Applied(p, snap[r][op[r].source], groups[i])

LEMMA FaultIsCounted == Typed /\ Fault => faults' \in 0..MaxFaults
  BY BoundsAssumption DEF Typed, Fault

LEMMA WriteWrites ==
  ASSUME IInv, NEW r \in Requests, NEW i \in Instances, Write(r, i)
  PROVE  \E ok \in BOOLEAN, t \in Table : Writes(r, i, ok, t)
<1> DEFINE t == After(r, i, groups[i])
<1>1. /\ Typed /\ Ready(r) /\ Proceeds(r) /\ stage[r] = "writing" /\ i \in todo[r] /\ ~Syncs(r)
      /\ (i = Baseline => failed[r] = {})
  BY DEF IInv, Write, MayWrite, Turn
<1>2. t \in Table /\ Spares(r, i, t)
  BY <1>1, AfterIsTable DEF Spares
<1>3. PICK ok \in BOOLEAN :
        /\ IF ok THEN Accepts(r, groups[i]) ELSE ~Accepts(r, groups[i]) \/ Doubtful(r, groups[i])
        /\ Done(r, i, ok, t)
  BY DEF Write
<1>4. i = Baseline => todo[r] = {Baseline}
  <2>1. op[r].kind # "syncOne" /\ todo[r] \subseteq Instances
    BY <1>1 DEF Syncs, Typed
  <2>2. QED
    BY <2>1, BaselineTurn DEF Write, MayWrite
<1>5. faults' \in 0..MaxFaults
  BY <1>1 DEF Write, Typed
<1>6. \/ wrote' = wrote /\ ~Accepts(r, groups[i])
      \/ wrote' = [wrote EXCEPT ![r] = @ \cup {i}]
  BY DEF Write, Wrote
<1> HIDE DEF t
<1>7. Writes(r, i, ok, t)
  BY <1>1, <1>2, <1>3, <1>4, <1>5, <1>6 DEF Writes, t
<1>8. QED
  BY <1>2, <1>3, <1>7

LEMMA WriteFailsWrites ==
  ASSUME IInv, NEW r \in Requests, NEW i \in Instances, WriteFails(r, i)
  PROVE  \E ok \in BOOLEAN, t \in Table : Writes(r, i, ok, t)
<1>1. /\ Typed /\ Ready(r) /\ Proceeds(r) /\ stage[r] = "writing" /\ i \in todo[r] /\ ~Syncs(r)
      /\ (i = Baseline => failed[r] = {})
  BY DEF IInv, WriteFails, MayWrite, Turn
<1>2. faults' \in 0..MaxFaults
  BY <1>1, FaultIsCounted DEF WriteFails
<1>3. CASE Done(r, i, FALSE, groups[i]) /\ UNCHANGED wrote
  <2>1. groups[i] \in Table
    BY <1>1 DEF Typed
  <2>2. Writes(r, i, FALSE, groups[i])
    BY <1>1, <1>2, <1>3, <2>1 DEF Writes, Spares
  <2>3. QED
    BY <2>1, <2>2
<1>4. CASE Done(r, i, FALSE, After(r, i, groups[i])) /\ Wrote(r, i, groups[i])
  <2> DEFINE t == After(r, i, groups[i])
  <2>1. t \in Table /\ Spares(r, i, t)
    BY <1>1, AfterIsTable DEF Spares
  <2>2. i = Baseline => todo[r] = {Baseline}
    <3>1. op[r].kind # "syncOne" /\ todo[r] \subseteq Instances
      BY <1>1 DEF Syncs, Typed
    <3>2. QED
      BY <3>1, BaselineTurn DEF WriteFails, MayWrite
  <2>3. Done(r, i, FALSE, t)
    BY <1>4
  <2>4. wrote' = wrote \/ wrote' = [wrote EXCEPT ![r] = @ \cup {i}]
    BY <1>4 DEF Wrote
  <2> HIDE DEF t
  <2>5. Writes(r, i, FALSE, t)
    BY <1>1, <1>2, <2>1, <2>2, <2>3, <2>4 DEF Writes
  <2>6. QED
    BY <2>1, <2>5
<1>5. QED
  BY <1>3, <1>4 DEF WriteFails

LEMMA SkipBaselineWrites ==
  ASSUME IInv, NEW r \in Requests, SkipBaseline(r)
  PROVE  \E ok \in BOOLEAN, t \in Table : Writes(r, Baseline, ok, t)
<1>1. groups[Baseline] \in Table /\ faults \in 0..MaxFaults
  BY BaselineIsLastInOrder DEF IInv, Typed
<1>2. Writes(r, Baseline, FALSE, groups[Baseline])
  BY <1>1 DEF SkipBaseline, Writes, Turn, Spares
<1>3. QED
  BY <1>1, <1>2

LEMMA ReadTargetFailsWrites ==
  ASSUME IInv, NEW r \in Requests, NEW i \in Instances, ReadTargetFails(r, i)
  PROVE  \E ok \in BOOLEAN, t \in Table : Writes(r, i, ok, t)
<1>1. groups[i] \in Table /\ faults' \in 0..MaxFaults
  BY FaultIsCounted DEF IInv, Typed, ReadTargetFails
<1>2. Writes(r, i, FALSE, groups[i])
  BY <1>1 DEF ReadTargetFails, Writes, Turn, Spares
<1>3. QED
  BY <1>1, <1>2

LEMMA SpareTargetWrites ==
  ASSUME IInv, NEW r \in Requests, NEW i \in Instances, SpareTarget(r, i)
  PROVE  \E ok \in BOOLEAN, t \in Table : Writes(r, i, ok, t)
<1>1. groups[i] \in Table /\ faults \in 0..MaxFaults
  BY DEF IInv, Typed
<1>2. Writes(r, i, FALSE, groups[i])
  BY <1>1 DEF SpareTarget, Writes, Turn, Spares
<1>3. QED
  BY <1>1, <1>2

\* A part of a plan that is applied at a Pi-hole
LEMMA PlanSpares ==
  ASSUME IInv, NEW r \in Requests, NEW i \in Instances, stage[r] = "writing", Syncs(r),
         ~Spared(r, i), NEW p \in HalfWay(Plan(r, i)) \cup {Plan(r, i)}
  PROVE  LET t == Applied(p, snap[r][op[r].source], groups[i])
         IN  t \in Table /\ Spares(r, i, t)
<1> DEFINE d == Default[i]
           src == snap[r][op[r].source]
           t == Applied(p, src, groups[i])
<1>1. /\ Typed /\ snap[r][op[r].source] # None
  BY DEF IInv, Ready
<1>2. /\ op[r] \in Ops /\ groups[i] \in Table /\ groups[i][d] # None /\ d \in Names
      /\ snap[r] \in [Instances -> Table \cup {None}]
  BY <1>1, TableFacts DEF Typed
<1>3. op[r].source \in Instances /\ (op[r].kind = "syncAll" => op[r].source = Baseline)
  BY <1>2, OpCases DEF Syncs
<1>4. src \in Table
  BY <1>1, <1>2, <1>3
<1>5. /\ d \notin p.delete
      /\ d \in p.update => /\ d \in op[r].names /\ ~Immutable(op[r].source, d)
                           /\ src[d] # None
  BY PlanFacts
<1> HIDE DEF src, t, d
<1>6. t \in Table /\ (t[d] = groups[i][d] \/ (d \in p.update /\ t[d] = src[d]))
  BY <1>2, <1>4, <1>5, AppliedIsTable DEF t
<1>7. CASE d \in p.update /\ t[d] = src[d]
  <2>1. op[r].kind = "syncAll"
    BY <1>5, <1>7 DEF Spared, Immutable, Syncs, d
  <2>2. QED
    BY <1>3, <1>5, <1>6, <1>7, <2>1 DEF Spares, t, src, d
<1>8. CASE t[d] = groups[i][d]
  BY <1>6, <1>8 DEF Spares, t, src, d
<1>9. QED
  BY <1>6, <1>7, <1>8

LEMMA SyncToWrites ==
  ASSUME IInv, NEW r \in Requests, NEW i \in Instances, SyncTo(r, i)
  PROVE  \E ok \in BOOLEAN, t \in Table : Writes(r, i, ok, t)
<1> DEFINE p == Plan(r, i)
           src == snap[r][op[r].source]
<1>1. /\ stage[r] = "writing" /\ i \in todo[r] /\ Syncs(r) /\ snap[r][i] # None
      /\ wrote' = wrote /\ faults' = faults /\ faults \in 0..MaxFaults /\ groups[i] \in Table
      /\ ~Spared(r, i)
  BY DEF SyncTo, Turn, IInv, Typed
<1>2. \/ Empty(p) /\ Done(r, i, TRUE, groups[i])
      \/ Smooth(p, groups[i]) /\ Done(r, i, TRUE, Applied(p, src, groups[i]))
      \/ \E q \in HalfWay(p) : Done(r, i, FALSE, Applied(q, src, groups[i]))
  BY DEF SyncTo
<1>3. CASE Empty(p) /\ Done(r, i, TRUE, groups[i])
  <2>1. Writes(r, i, TRUE, groups[i])
    BY <1>1, <1>3 DEF Writes, Spares
  <2>2. QED
    BY <1>1, <2>1
<1>4. CASE Smooth(p, groups[i]) /\ Done(r, i, TRUE, Applied(p, src, groups[i]))
  <2> DEFINE t == Applied(p, src, groups[i])
  <2>1. t \in Table /\ Spares(r, i, t)
    BY <1>1, PlanSpares
  <2>2. Done(r, i, TRUE, t) /\ Smooth(p, groups[i])
    BY <1>4
  <2>3. t = Applied(Plan(r, i), snap[r][op[r].source], groups[i])
    OBVIOUS
  <2> HIDE DEF t
  <2>4. Writes(r, i, TRUE, t)
    BY <1>1, <2>1, <2>2, <2>3 DEF Writes
  <2>5. QED
    BY <2>1, <2>4
<1>5. CASE \E q \in HalfWay(p) : Done(r, i, FALSE, Applied(q, src, groups[i]))
  <2>1. PICK q \in HalfWay(p) : Done(r, i, FALSE, Applied(q, src, groups[i]))
    BY <1>5
  <2> DEFINE t == Applied(q, src, groups[i])
  <2>2. t \in Table /\ Spares(r, i, t)
    BY <1>1, PlanSpares
  <2>3. Done(r, i, FALSE, t)
    BY <2>1
  <2> HIDE DEF t
  <2>4. Writes(r, i, FALSE, t)
    BY <1>1, <2>2, <2>3 DEF Writes
  <2>5. QED
    BY <2>2, <2>4
<1>6. QED
  BY <1>2, <1>3, <1>4, <1>5

LEMMA SyncFailsWrites ==
  ASSUME IInv, NEW r \in Requests, NEW i \in Instances, SyncFails(r, i)
  PROVE  \E ok \in BOOLEAN, t \in Table : Writes(r, i, ok, t)
<1> DEFINE src == snap[r][op[r].source]
<1>1. /\ stage[r] = "writing" /\ i \in todo[r] /\ Syncs(r) /\ wrote' = wrote
      /\ ~Spared(r, i) /\ faults' \in 0..MaxFaults
  BY FaultIsCounted DEF SyncFails, Turn, IInv
<1>2. PICK q \in HalfWay(Plan(r, i)) : Done(r, i, FALSE, Applied(q, src, groups[i]))
  BY DEF SyncFails
<1> DEFINE t == Applied(q, src, groups[i])
<1>3. t \in Table /\ Spares(r, i, t)
  BY <1>1, PlanSpares
<1>4. Done(r, i, FALSE, t)
  BY <1>2
<1> HIDE DEF t
<1>5. Writes(r, i, FALSE, t)
  BY <1>1, <1>3, <1>4 DEF Writes
<1>6. QED
  BY <1>3, <1>5


\* What such an action does to each request and each Pi-hole
LEMMA WritesFacts ==
  ASSUME Typed, NEW r \in Requests, NEW i \in Instances, NEW ok \in BOOLEAN, NEW t \in Table,
         Writes(r, i, ok, t)
  PROVE  /\ Typed'
         /\ op' = op /\ agreed' = agreed
         /\ quiet'[r] = quiet[r]
         /\ todo'[r] = todo[r] \ {i}
         /\ ok => failed'[r] = failed[r]
         /\ ~ok => failed'[r] = failed[r] \cup {i}
         /\ \/ todo'[r] # {} /\ stage'[r] = "writing"
            \/ /\ todo'[r] = {}
               /\ stage'[r] = IF failed'[r] = {} THEN "success" ELSE "partial"
         /\ (snap'[r] = Unread \/ (stage'[r] = "writing" /\ snap'[r] = snap[r]))
         /\ stage'[r] = "writing" => snap'[r] = snap[r]
         /\ \/ wrote'[r] = wrote[r] /\ (ok => Syncs(r))
            \/ wrote'[r] = wrote[r] \cup {i} /\ ~Syncs(r)
         /\ groups'[i] = t
         /\ \A j \in Instances \ {i} : groups'[j] = groups[j]
<1>1. /\ groups' = [groups EXCEPT ![i] = t]
      /\ quiet' = [q \in Requests |-> quiet[q] /\ (q # r /\ Running(q) => t = groups[i])]
      /\ todo' = [todo EXCEPT ![r] = @ \ {i}]
      /\ failed' = IF ok THEN failed ELSE [failed EXCEPT ![r] = @ \cup {i}]
      /\ op' = op /\ agreed' = agreed
      /\ \/ todo'[r] # {} /\ stage' = stage /\ snap' = snap
         \/ /\ todo'[r] = {}
            /\ stage' = [stage EXCEPT ![r] = IF failed'[r] = {} THEN "success" ELSE "partial"]
            /\ snap' = [snap EXCEPT ![r] = Unread]
      /\ stage[r] = "writing" /\ i \in todo[r] /\ faults' \in 0..MaxFaults
      /\ Spares(r, i, t)
  BY DEF Writes, Done
<1>2. /\ groups \in [Instances -> Table] /\ op \in [Requests -> Ops]
      /\ stage \in [Requests -> Stages] /\ snap \in [Requests -> [Instances -> Table \cup {None}]]
      /\ todo \in [Requests -> SUBSET Instances] /\ failed \in [Requests -> SUBSET Instances]
      /\ wrote \in [Requests -> SUBSET Instances] /\ quiet \in [Requests -> BOOLEAN]
      /\ agreed \in BOOLEAN
  BY DEF Typed
<1>3. /\ groups' \in [Instances -> Table]
      /\ groups'[i] = t /\ \A j \in Instances \ {i} : groups'[j] = groups[j]
  BY <1>1, <1>2
<1>a. \A j \in Instances : groups'[j][Default[j]] # None
  <2>1. \A j \in Instances : groups[j][Default[j]] # None
    BY DEF Typed
  <2>2. t[Default[i]] # None
    BY <1>1, <2>1 DEF Spares
  <2>3. QED
    BY <1>3, <2>1, <2>2
<1>4. /\ todo' \in [Requests -> SUBSET Instances] /\ failed' \in [Requests -> SUBSET Instances]
      /\ todo'[r] = todo[r] \ {i}
      /\ ok => failed'[r] = failed[r]
      /\ ~ok => failed'[r] = failed[r] \cup {i}
  BY <1>1, <1>2
<1>5. Unread \in [Instances -> Table \cup {None}]
  BY DEF Unread
<1>6. /\ stage' \in [Requests -> Stages] /\ snap' \in [Requests -> [Instances -> Table \cup {None}]]
      /\ \/ todo'[r] # {} /\ stage'[r] = "writing"
         \/ /\ todo'[r] = {}
            /\ stage'[r] = IF failed'[r] = {} THEN "success" ELSE "partial"
      /\ (snap'[r] = Unread \/ (stage'[r] = "writing" /\ snap'[r] = snap[r]))
      /\ stage'[r] = "writing" => snap'[r] = snap[r]
  <2>1. CASE todo'[r] # {} /\ stage' = stage /\ snap' = snap
    BY <1>1, <1>2, <2>1
  <2>2. CASE /\ todo'[r] = {}
             /\ stage' = [stage EXCEPT ![r] = IF failed'[r] = {} THEN "success" ELSE "partial"]
             /\ snap' = [snap EXCEPT ![r] = Unread]
    BY <1>2, <1>5, <2>2 DEF Stages
  <2>3. QED
    BY <1>1, <2>1, <2>2
<1>b. \A q \in Requests, j \in Instances : snap'[q][j] # None => snap'[q][j][Default[j]] # None
  <2>1. \A q \in Requests, j \in Instances : snap[q][j] # None => snap[q][j][Default[j]] # None
    BY DEF Typed
  <2>2. \A q \in Requests : snap'[q] = snap[q] \/ snap'[q] = Unread
    BY <1>1, <1>2
  <2>3. QED
    BY <2>1, <2>2 DEF Unread
<1>7. /\ wrote' \in [Requests -> SUBSET Instances]
      /\ \/ wrote'[r] = wrote[r] /\ (ok => Syncs(r))
         \/ wrote'[r] = wrote[r] \cup {i} /\ ~Syncs(r)
  <2>1. \/ wrote' = wrote /\ (ok => Syncs(r))
        \/ wrote' = [wrote EXCEPT ![r] = @ \cup {i}] /\ ~Syncs(r)
    BY DEF Writes
  <2>2. QED
    BY <1>2, <2>1
<1>8. /\ quiet' \in [Requests -> BOOLEAN]
      /\ quiet'[r] = quiet[r]
  BY <1>1, <1>2, Zenon
<1>9. Typed'
  BY <1>1, <1>2, <1>3, <1>a, <1>4, <1>6, <1>b, <1>7, <1>8 DEF Typed
<1>10. QED
  BY <1>1, <1>3, <1>4, <1>6, <1>7, <1>8, <1>9

LEMMA WritesOthers ==
  ASSUME Typed, NEW r \in Requests, NEW i \in Instances, NEW ok \in BOOLEAN, NEW t \in Table,
         Writes(r, i, ok, t), NEW q \in Requests, q # r
  PROVE  /\ op'[q] = op[q] /\ stage'[q] = stage[q] /\ snap'[q] = snap[q] /\ todo'[q] = todo[q]
         /\ failed'[q] = failed[q] /\ wrote'[q] = wrote[q]
         /\ quiet'[q] /\ Running(q) => groups' = groups /\ quiet[q]
<1> USE DEF Typed, Writes, Done
<1>1. stage'[q] = stage[q] /\ snap'[q] = snap[q]
  OBVIOUS
<1>2. op'[q] = op[q] /\ todo'[q] = todo[q] /\ failed'[q] = failed[q]
  OBVIOUS
<1>3. wrote'[q] = wrote[q]
  OBVIOUS
<1>4. quiet'[q] /\ Running(q) => groups' = groups /\ quiet[q]
  <2>1. quiet'[q] = (quiet[q] /\ (q # r /\ Running(q) => t = groups[i]))
    OBVIOUS
  <2>2. t = groups[i] => groups' = groups
    OBVIOUS
  <2>3. QED
    BY <2>1, <2>2
<1>5. QED
  BY <1>1, <1>2, <1>3, <1>4

LEMMA WritesProceeds ==
  ASSUME IInv, NEW r \in Requests, NEW i \in Instances, NEW ok \in BOOLEAN, NEW t \in Table,
         Writes(r, i, ok, t), NEW q \in Requests
  PROVE  Proceeds(q)'
<1>1. Typed /\ Proceeds(q) /\ Proceeds(r)
  BY DEF IInv
<1>2. CASE q # r
  <2>1. /\ op'[q] = op[q] /\ stage'[q] = stage[q] /\ snap'[q] = snap[q] /\ todo'[q] = todo[q]
        /\ failed'[q] = failed[q] /\ wrote'[q] = wrote[q]
    BY <1>1, <1>2, WritesOthers
  <2>2. QED
    BY <1>1, <2>1 DEF Proceeds, Syncs, Running, Unread
<1>3. CASE q = r
  <2>1. /\ stage[r] = "writing" /\ i \in todo[r] /\ op'[r] = op[r]
        /\ todo'[r] = todo[r] \ {i}
        /\ ok => failed'[r] = failed[r]
        /\ ~ok => failed'[r] = failed[r] \cup {i}
        /\ \/ todo'[r] # {} /\ stage'[r] = "writing"
           \/ /\ todo'[r] = {}
              /\ stage'[r] = IF failed'[r] = {} THEN "success" ELSE "partial"
        /\ \/ wrote'[r] = wrote[r] /\ (ok => Syncs(r))
           \/ wrote'[r] = wrote[r] \cup {i} /\ ~Syncs(r)
    BY <1>1, WritesFacts DEF Writes
  <2>2. /\ todo[r] \subseteq Instances /\ failed[r] \subseteq Instances
        /\ wrote[r] \subseteq Instances
    BY <1>1 DEF Typed
  <2>3. Syncs(r)' <=> Syncs(r)
    BY <2>1 DEF Syncs
  <2>4. Syncs(r) => wrote'[r] = {} /\ todo'[r] \subseteq op'[r].targets
    BY <1>1, <2>1 DEF Proceeds
  <2>5. ~Syncs(r) => Instances \ todo'[r] \subseteq wrote'[r] \cup failed'[r]
    BY <1>1, <2>1, <2>2 DEF Proceeds
  <2>6. wrote'[r] \cap todo'[r] = {}
    BY <1>1, <2>1 DEF Proceeds
  <2>7. Baseline \in wrote'[r] => wrote'[r] = Instances
    <3>1. CASE wrote'[r] = wrote[r]
      BY <1>1, <3>1 DEF Proceeds
    <3>2. CASE wrote'[r] # wrote[r]
      <4>1. /\ wrote'[r] = wrote[r] \cup {i} /\ ~Syncs(r)
            /\ i = Baseline => failed[r] = {} /\ todo[r] = {Baseline}
        BY <2>1, <3>2 DEF Writes
      <4>2. CASE i = Baseline
        BY <1>1, <2>1, <2>2, <4>1, <4>2 DEF Proceeds
      <4>3. CASE i # Baseline
        BY <1>1, <2>1, <2>2, <4>1, <4>3 DEF Proceeds
      <4>4. QED
        BY <4>2, <4>3
    <3>3. QED
      BY <3>1, <3>2
  <2>8. op[r].kind # "none"
    BY <1>1, <2>1 DEF Proceeds, Running
  <2>9. QED
    BY <1>3, <2>1, <2>3, <2>4, <2>5, <2>6, <2>7, <2>8 DEF Proceeds, Over
<1>4. QED
  BY <1>2, <1>3

LEMMA WritesReady ==
  ASSUME IInv, NEW r \in Requests, NEW i \in Instances, NEW ok \in BOOLEAN, NEW t \in Table,
         Writes(r, i, ok, t), NEW q \in Requests
  PROVE  Ready(q)'
<1>0. Typed /\ Ready(q)
  BY DEF IInv
<1>1. op' = op
  BY <1>0, WritesFacts
<1>2. stage'[q] = "writing" => stage[q] = "writing" /\ snap'[q] = snap[q]
  <2>1. q # r => stage'[q] = stage[q] /\ snap'[q] = snap[q]
    BY <1>0, WritesOthers
  <2>2. stage'[r] = "writing" => snap'[r] = snap[r]
    <3>1. snap' = snap \/ stage'[r] \in {"success", "partial"}
      BY <1>0 DEF Writes, Done, Typed
    <3>2. QED
      BY <3>1
  <2>3. stage[r] = "writing"
    BY DEF Writes
  <2>4. QED
    BY <2>1, <2>2, <2>3
<1>3. QED
  BY <1>0, <1>1, <1>2 DEF Ready, Syncs


\* A plan that is carried out leaves a Pi-hole that is as it was read like the source.
LEMMA CopyIsMade ==
  ASSUME IInv, NEW r \in Requests, NEW i \in Instances, NEW t, stage[r] = "writing", Syncs(r),
         groups[i] = snap[r][i], NEW n \in op[r].names, Shared(r, i, n),
         LET p == Plan(r, i)
         IN  \/ Empty(p) /\ t = groups[i]
             \/ Smooth(p, groups[i]) /\ t = Applied(p, snap[r][op[r].source], groups[i])
  PROVE  t[n] = snap[r][op[r].source][n]
<1> DEFINE src == snap[r][op[r].source]
           p == Plan(r, i)
<1>2. op[r] \in Ops
  BY DEF IInv, Typed
<1>4. op[r].names \subseteq Names
  BY <1>2, OpCases DEF Syncs
<1>5. /\ n \in p.delete <=> groups[i][n] # None /\ src[n] = None /\ ~Immutable(i, n)
      /\ n \in p.create <=> src[n] # None /\ groups[i][n] = None
      /\ n \in p.update <=> src[n] # None /\ groups[i][n] # None /\ groups[i][n] # src[n]
  BY DEF Plan, PlanOf, Missing, Shared
<1>a. src[n] = None => ~Immutable(i, n)
  BY DEF Shared
<1> HIDE DEF p, src
<1>6. CASE Empty(p) /\ t = groups[i]
  BY <1>5, <1>a, <1>6 DEF Empty, src
<1>7. CASE t = Applied(p, src, groups[i])
  <2>1. t[n] = IF n \in p.delete THEN None
               ELSE IF \/ n \in p.create /\ groups[i][n] = None
                       \/ n \in p.update /\ groups[i][n] # None
                    THEN src[n] ELSE groups[i][n]
    BY <1>4, <1>7 DEF Applied
  <2>2. QED
    BY <1>5, <1>a, <2>1 DEF src
<1>8. QED
  BY <1>6, <1>7 DEF p, src

LEMMA WritesCopies ==
  ASSUME IInv, NEW r \in Requests, NEW i \in Instances, NEW ok \in BOOLEAN, NEW t \in Table,
         Writes(r, i, ok, t), NEW q \in Requests
  PROVE  Copies(q)'
<1>0. Typed /\ Copies(q) /\ Proceeds(q) /\ op[q] \in Ops
  BY DEF IInv, Typed
<1>t. Typed
  BY <1>0
<1>1. op' = op
  BY <1>t, WritesFacts
<1>a. quiet'[r] = quiet[r]
  BY <1>t, WritesFacts
<1>2. CASE q # r
  <2>1. /\ stage'[q] = stage[q] /\ snap'[q] = snap[q] /\ todo'[q] = todo[q]
        /\ failed'[q] = failed[q]
        /\ quiet'[q] /\ Running(q) => groups' = groups /\ quiet[q]
    BY <1>t, <1>2, WritesOthers
  <2>2. QED
    BY <1>0, <1>1, <2>1 DEF Copies, Copied, Shared, Syncs, Running
<1>3. CASE q = r
  <2> SUFFICES ASSUME quiet'[r], Syncs(r), Running(r)'
               PROVE  /\ \A j \in todo'[r] \cup {op[r].source} :
                           snap'[r][j] # None => groups'[j] = snap'[r][j]
                      /\ stage'[r] = "writing" =>
                           \A j \in op[r].targets \ (todo'[r] \cup failed'[r]) : Copied(r, j)'
    BY <1>1, <1>3 DEF Copies, Syncs
  <2>1. /\ quiet[r] /\ i \in todo[r] /\ stage[r] = "writing" /\ todo'[r] = todo[r] \ {i}
        /\ ok => failed'[r] = failed[r]
        /\ ~ok => failed'[r] = failed[r] \cup {i}
        /\ groups'[i] = t /\ \A j \in Instances \ {i} : groups'[j] = groups[j]
    <3>1. i \in todo[r] /\ stage[r] = "writing"
      BY DEF Writes
    <3>2. todo'[r] = todo[r] \ {i}
      BY <1>t, WritesFacts
    <3>3. (ok => failed'[r] = failed[r]) /\ (~ok => failed'[r] = failed[r] \cup {i})
      BY <1>t, WritesFacts
    <3>4. groups'[i] = t /\ \A j \in Instances \ {i} : groups'[j] = groups[j]
      BY <1>t, WritesFacts
    <3>5. QED
      BY <1>a, <3>1, <3>2, <3>3, <3>4
  <2>2. snap'[r] = snap[r] /\ stage'[r] = "writing"
    <3>1. stage'[r] = "writing"
      <4>1. \/ todo'[r] # {} /\ stage'[r] = "writing"
            \/ /\ todo'[r] = {}
               /\ stage'[r] = IF failed'[r] = {} THEN "success" ELSE "partial"
        BY <1>t, WritesFacts
      <4>2. QED
        BY <4>1 DEF Running
    <3>2. snap' = snap \/ stage'[r] \in {"success", "partial"}
      BY <1>0 DEF Writes, Done, Typed
    <3>3. QED
      BY <3>1, <3>2
  <2>3. todo[r] \subseteq Instances /\ op[r].source \in Instances \ {i}
    <3>1. todo[r] \subseteq op[r].targets
      BY <1>0, <1>3 DEF Proceeds
    <3>2. op[r].source \in Instances /\ op[r].targets \subseteq Instances \ {op[r].source}
      BY <1>0, <1>3, OpCases DEF Syncs
    <3>3. QED
      BY <1>0, <2>1, <3>1, <3>2 DEF Typed
  <2>4. ASSUME NEW j \in todo'[r] \cup {op[r].source}, snap'[r][j] # None
        PROVE  groups'[j] = snap'[r][j]
    <3>1. j \in Instances \ {i} /\ j \in todo[r] \cup {op[r].source}
      BY <2>1, <2>3
    <3>2. groups[j] = snap[r][j]
      BY <1>0, <1>3, <2>1, <2>2, <2>4, <3>1 DEF Copies, Running
    <3>3. QED
      BY <2>1, <2>2, <3>1, <3>2
  <2>5. ASSUME NEW j \in op[r].targets \ (todo'[r] \cup failed'[r])
        PROVE  Copied(r, j)'
    <3> SUFFICES ASSUME NEW n \in op[r].names, Shared(r, j, n)
                 PROVE  groups'[j][n] = snap[r][op[r].source][n]
      BY <1>1, <2>2 DEF Copied, Shared
    <3>1. j \in Instances
      BY <1>0, <1>3, OpCases DEF Syncs
    <3>2. CASE j = i
      <4>1. ok
        BY <2>1, <2>5, <3>2
      <4>2. /\ snap[r][i] # None
            /\ LET p == Plan(r, i)
               IN  \/ Empty(p) /\ t = groups[i]
                   \/ Smooth(p, groups[i]) /\ t = Applied(p, snap[r][op[r].source], groups[i])
        BY <4>1 DEF Writes
      <4>3. groups[i] = snap[r][i]
        BY <1>0, <1>3, <2>1, <4>2 DEF Copies, Running
      <4>4. t[n] = snap[r][op[r].source][n]
        BY <2>1, <3>2, <4>2, <4>3, CopyIsMade
      <4>5. QED
        BY <2>1, <3>2, <4>4
    <3>3. CASE j # i
      <4>1. j \notin todo[r] /\ j \notin failed[r]
        BY <2>1, <2>5, <3>3
      <4>2. Copied(r, j)
        BY <1>0, <1>3, <2>1, <2>5, <4>1 DEF Copies, Running
      <4>3. QED
        BY <2>1, <3>1, <3>3, <4>2 DEF Copied
    <3>4. QED
      BY <3>2, <3>3
  <2>6. QED
    BY <2>2, <2>4, <2>5
<1>4. QED
  BY <1>2, <1>3


-----------------------------------------------------------------------------
(***************************************************************************)
(* The books of the names                                                  *)
(***************************************************************************)
\* What a write that a Pi-hole accepts does to a name there
LEMMA Moves ==
  ASSUME IInv, NEW r \in Requests, NEW i \in Instances, stage[r] = "writing", ~Syncs(r),
         Accepts(r, groups[i]), NEW n \in Names
  PROVE  LET t == After(r, i, groups[i])
         IN  /\ n \in Adds(r) => groups[i][n] = None /\ t[n] # None /\ n \notin Removes(r)
             /\ n \in Removes(r) => t[n] = None
             /\ n \in Removes(r) /\ (op[r].kind = "delete" => op[r].names = {n})
                  => groups[i][n] # None
             /\ n \notin Adds(r) /\ n \notin Removes(r) =>
                  (t[n] = None <=> groups[i][n] = None)
<1> DEFINE t == groups[i]
           s == After(r, i, groups[i])
<1>1. /\ Typed /\ Ready(r) /\ Proceeds(r) /\ op[r] \in Ops /\ t \in Table
      /\ snap[r] \in [Instances -> Table \cup {None}]
  BY DEF IInv, Typed
<1>2. CASE op[r].kind = "create"
  <2>1. op[r].group # None
    BY <1>1, <1>2, OpCases, TableFacts
  <2>2. s = [m \in Names |-> IF m \in op[r].names /\ t[m] = None THEN op[r].group ELSE t[m]]
    BY <1>2 DEF After
  <2>3. Adds(r) = op[r].names /\ Removes(r) = {}
    BY <1>2 DEF Adds, Removes
  <2>4. \A m \in op[r].names : t[m] = None
    BY <1>2 DEF Accepts
  <2> HIDE DEF s, t
  <2>5. QED
    BY <2>1, <2>2, <2>3, <2>4 DEF s, t
<1>3. CASE op[r].kind = "delete"
  <2>1. s = [m \in Names |-> IF m \in op[r].names THEN None ELSE t[m]]
    BY <1>3 DEF After
  <2>2. Removes(r) = op[r].names /\ Adds(r) = {}
    BY <1>3 DEF Adds, Removes
  <2>3. \E m \in op[r].names : t[m] # None
    BY <1>3 DEF Accepts
  <2> HIDE DEF s, t
  <2>4. QED
    BY <1>3, <2>1, <2>2, <2>3 DEF s, t
<1>4. CASE op[r].kind \in {"update", "toggle"}
  <2>1. s = [t EXCEPT ![op[r].old] = None, ![op[r].new] = Changed(r, i)]
    BY <1>4 DEF After
  <2>2. Adds(r) = {op[r].new} \ {op[r].old} /\ Removes(r) = {op[r].old} \ {op[r].new}
    BY <1>4 DEF Adds, Removes
  <2>3. t[op[r].old] # None /\ (op[r].new # op[r].old => t[op[r].new] = None)
    BY <1>4 DEF Accepts
  <2>4. op[r].old \in Names /\ op[r].new \in Names
    BY <1>1, <1>4, OpCases
  <2>5. Changed(r, i) # None
    BY <1>1, <1>4, ChangedIsGroup, TableFacts
  <2>6. DOMAIN t = Names
    BY <1>1, TableFacts
  <2> HIDE DEF s, t
  <2>7. s[op[r].new] = Changed(r, i)
    BY <2>1, <2>4, <2>6
  <2>8. op[r].new # op[r].old => s[op[r].old] = None
    BY <2>1, <2>4, <2>6
  <2>9. n # op[r].old /\ n # op[r].new => s[n] = t[n]
    BY <2>1, <2>6
  <2>10. QED
    BY <1>4, <2>2, <2>3, <2>5, <2>7, <2>8, <2>9 DEF s, t
<1>5. QED
  BY <1>1, <1>2, <1>3, <1>4, OpCases DEF Syncs, Proceeds, Running

\* Where nothing is written, the books stay as they are.
LEMMA BooksKept ==
  ASSUME IInv, Typed', groups' = groups, wrote' = wrote, agreed' = agreed,
         Clean' => Clean,
         \A q \in Requests : wrote[q] # {} => op'[q] = op[q],
         \A q \in Requests, i \in Instances :
           op'[q].kind = "delete" /\ Running(q)' /\ snap'[q][i] # None =>
             \/ snap'[q][i] = groups[i]
             \/ op'[q] = op[q] /\ Running(q) /\ snap'[q][i] = snap[q][i]
  PROVE  Books'
<1>1. Books /\ Typed
  BY DEF IInv
<1>2. \A q \in Requests : wrote[q] # {} => Adds(q)' = Adds(q) /\ Removes(q)' = Removes(q)
  BY DEF Adds, Removes
<1>3. \A i \in Instances, n \in Names :
        Put(i, n)' = Put(i, n) /\ Taken(i, n)' = Taken(i, n) /\ In(i, n)' = In(i, n)
  BY <1>2 DEF Put, Taken, In
<1>4. Active' = Active
  BY DEF Active
<1>5. Balanced'
  <2> SUFFICES ASSUME agreed', Clean', NEW n \in Names, Straight(n)', NEW i \in Instances
               PROVE  AtFirst(i, n)' = AtFirst(Baseline, n)'
    BY DEF Balanced
  <2>1. Straight(n)
    BY <1>2, <1>4 DEF Straight, Active
  <2>2. AtFirst(i, n) = AtFirst(Baseline, n)
    BY <1>1, <2>1 DEF Books, Balanced
  <2>3. n \in Names /\ Baseline \in Instances
    BY BaselineIsLastInOrder, TableFacts
  <2>4. AtFirst(i, n)' = AtFirst(i, n) /\ AtFirst(Baseline, n)' = AtFirst(Baseline, n)
    BY <1>3, <2>3 DEF AtFirst
  <2>5. QED
    BY <2>2, <2>4
<1>6. DeletedIsGone'
  <2> SUFFICES ASSUME Clean', NEW d \in Requests, NEW i \in Instances, NEW n \in Names,
                      op'[d].kind = "delete", n \in op'[d].names, i \in wrote'[d], In(i, n)'
               PROVE  \E c \in Requests : i \in wrote'[c] /\ n \in Adds(c)'
    BY DEF DeletedIsGone
  <2>1. op'[d] = op[d] /\ In(i, n)
    BY <1>3
  <2>2. PICK c \in Requests : i \in wrote[c] /\ n \in Adds(c)
    BY <1>1, <2>1 DEF Books, DeletedIsGone
  <2>3. QED
    BY <1>2, <2>2
<1>7. SeenIsThere'
  <2> SUFFICES ASSUME Clean', NEW d \in Requests, NEW i \in Instances, NEW n \in Names,
                      op'[d].kind = "delete", n \in op'[d].names, Running(d)',
                      snap'[d][i] # None, snap'[d][i][n] # None, i \notin wrote'[d], ~In(i, n)'
               PROVE  \E q \in Requests \ {d} : i \in wrote'[q] /\ n \in Removes(q)'
    BY DEF SeenIsThere
  <2>1. ~In(i, n)
    BY <1>3
  <2>2. op'[d] = op[d] /\ Running(d) /\ snap'[d][i] = snap[d][i]
    BY <2>1 DEF In
  <2>3. PICK q \in Requests \ {d} : i \in wrote[q] /\ n \in Removes(q)
    BY <1>1, <2>1, <2>2 DEF Books, SeenIsThere
  <2>4. QED
    BY <1>2, <2>3
<1>8. QED
  BY <1>1, <1>4, <1>5, <1>6, <1>7 DEF Books


\* One more write changes a name's books at one Pi-hole, on both sides by as much.
LEMMA WriteBalances ==
  ASSUME IInv, NEW r \in Requests, NEW i \in Instances, NEW n \in Names,
         op' = op, i \notin wrote[r], wrote'[r] = wrote[r] \cup {i},
         \A q \in Requests \ {r} : wrote'[q] = wrote[q],
         n \in Adds(r) => ~In(i, n) /\ In(i, n)' /\ n \notin Removes(r),
         n \in Removes(r) => In(i, n) /\ ~In(i, n)',
         n \notin Adds(r) /\ n \notin Removes(r) => (In(i, n)' <=> In(i, n))
  PROVE  AtFirst(i, n)' = AtFirst(i, n)
<1>1. IsFiniteSet(Active)
  BY DEF IInv, Books
<1>2. Put(i, n) \in SUBSET Active /\ Taken(i, n) \in SUBSET Active
  BY DEF Put, Taken, Active
<1>3. /\ IsFiniteSet(Put(i, n)) /\ IsFiniteSet(Taken(i, n))
      /\ Cardinality(Put(i, n)) \in Nat /\ Cardinality(Taken(i, n)) \in Nat
  BY <1>1, <1>2, FS_Subset, FS_CardinalityType
<1>4. \A q \in Requests : Adds(q)' = Adds(q) /\ Removes(q)' = Removes(q)
  BY DEF Adds, Removes
<1>5. r \notin Put(i, n) /\ r \notin Taken(i, n)
  BY DEF Put, Taken
<1>6. Put(i, n)' = IF n \in Adds(r) THEN Put(i, n) \cup {r} ELSE Put(i, n)
  BY <1>4 DEF Put
<1>7. Taken(i, n)' = IF n \in Removes(r) THEN Taken(i, n) \cup {r} ELSE Taken(i, n)
  BY <1>4 DEF Taken
<1>8. CASE n \in Adds(r)
  <2>1. Put(i, n)' = Put(i, n) \cup {r} /\ Taken(i, n)' = Taken(i, n)
    BY <1>6, <1>7, <1>8
  <2>2. Cardinality(Put(i, n)') = Cardinality(Put(i, n)) + 1
    BY <1>3, <1>5, <2>1, FS_AddElement
  <2>3. QED
    BY <1>3, <1>8, <2>1, <2>2 DEF AtFirst
<1>9. CASE n \in Removes(r)
  <2>1. Taken(i, n)' = Taken(i, n) \cup {r} /\ Put(i, n)' = Put(i, n)
    BY <1>6, <1>7, <1>9
  <2>2. Cardinality(Taken(i, n)') = Cardinality(Taken(i, n)) + 1
    BY <1>3, <1>5, <2>1, FS_AddElement
  <2>3. QED
    BY <1>3, <1>9, <2>1, <2>2 DEF AtFirst
<1>10. CASE n \notin Adds(r) /\ n \notin Removes(r)
  BY <1>6, <1>7, <1>10 DEF AtFirst
<1>11. QED
  BY <1>8, <1>9, <1>10

LEMMA WritesBooks ==
  ASSUME IInv, NEW r \in Requests, NEW i \in Instances, NEW ok \in BOOLEAN, NEW t \in Table,
         Writes(r, i, ok, t)
  PROVE  Books'
<1>1. Typed /\ Books /\ Ready(r) /\ Proceeds(r) /\ stage[r] = "writing" /\ i \in todo[r]
  BY DEF IInv, Writes
<1>t. Typed
  BY <1>1
<1>2. op' = op /\ agreed' = agreed
  BY <1>t, WritesFacts
<1>3. \A q \in Requests \ {r} :
        /\ wrote'[q] = wrote[q] /\ failed'[q] = failed[q]
        /\ stage'[q] = stage[q] /\ snap'[q] = snap[q]
  BY <1>t, WritesOthers
<1>4. \/ wrote'[r] = wrote[r] /\ (ok => Syncs(r))
      \/ wrote'[r] = wrote[r] \cup {i} /\ ~Syncs(r)
  BY <1>t, WritesFacts
<1>5. IsFiniteSet(Active')
  <2>1. Active' \subseteq Active \cup {r}
    BY <1>3 DEF Active
  <2>2. IsFiniteSet(Active \cup {r})
    BY <1>1, FS_AddElement DEF Books
  <2>3. QED
    BY <2>1, <2>2, FS_Subset
<1>6. CASE ~Clean'
  BY <1>5, <1>6 DEF Books, Balanced, DeletedIsGone, SeenIsThere
<1>7. CASE Clean'
  <2>1. (ok => failed'[r] = failed[r]) /\ (~ok => failed'[r] = failed[r] \cup {i})
    BY <1>t, WritesFacts
  <2>2. \/ todo'[r] # {} /\ stage'[r] = "writing"
        \/ /\ todo'[r] = {}
           /\ stage'[r] = IF failed'[r] = {} THEN "success" ELSE "partial"
    BY <1>t, WritesFacts
  <2>3. ok /\ ~Syncs(r)
    BY <1>2, <1>7, <2>1, <2>2 DEF Clean, Syncs
  <2>4. Clean
    <3>1. ASSUME NEW q \in Requests \ {r}
          PROVE  failed[q] = {} /\ (stage[q] \in {"writing", "success"} => ~Syncs(q))
      BY <1>2, <1>3, <1>7 DEF Clean, Syncs
    <3>2. failed[r] = {}
      BY <1>7, <2>1 DEF Clean
    <3>3. QED
      BY <2>3, <3>1, <3>2 DEF Clean
  <2>5. wrote'[r] = wrote[r] \cup {i} /\ i \notin wrote[r]
    BY <1>1, <1>4, <2>3 DEF Proceeds
  <2>6. Accepts(r, groups[i]) /\ t = After(r, i, groups[i])
    BY <2>3 DEF Writes
  <2>7. groups'[i] = t
    BY <1>t, WritesFacts
  <2>8. \A j \in Instances \ {i} : groups'[j] = groups[j]
    BY <1>t, WritesFacts
  <2>9. \A q \in Requests : Adds(q)' = Adds(q) /\ Removes(q)' = Removes(q)
    BY <1>2 DEF Adds, Removes
  <2>10. ASSUME NEW n \in Names
         PROVE  /\ n \in Adds(r) => ~In(i, n) /\ In(i, n)' /\ n \notin Removes(r)
                /\ n \in Removes(r) => ~In(i, n)'
                /\ n \in Removes(r) /\ (op[r].kind = "delete" => op[r].names = {n}) => In(i, n)
                /\ n \notin Adds(r) /\ n \notin Removes(r) => (In(i, n)' <=> In(i, n))
    BY <1>1, <2>3, <2>6, <2>7, Moves DEF In
  <2>11. \A j \in Instances \ {i}, n \in Names :
           /\ In(j, n)' <=> In(j, n)
           /\ Put(j, n)' = Put(j, n) /\ Taken(j, n)' = Taken(j, n)
    BY <1>3, <2>5, <2>8, <2>9 DEF In, Put, Taken
  <2>12. ASSUME NEW n \in Names, n \in Removes(r), ~In(i, n)
         PROVE  /\ op[r].kind = "delete" /\ op[r].names # {n}
                /\ \E q \in Requests \ {r} : i \in wrote[q] /\ n \in Removes(q)
    <3>1. op[r].kind = "delete" /\ op[r].names # {n}
      BY <2>10, <2>12
    <3>2. n \in op[r].names
      BY <2>12, <3>1 DEF Removes
    <3>3. snap[r][i] # None /\ snap[r][i][n] # None
      BY <1>1, <3>1, <3>2 DEF Ready
    <3>4. QED
      BY <1>1, <2>4, <2>5, <2>12, <3>1, <3>2, <3>3 DEF Books, SeenIsThere, Running
  <2>13. DeletedIsGone'
    <3> SUFFICES ASSUME NEW d \in Requests, NEW j \in Instances, NEW n \in Names,
                        op[d].kind = "delete", n \in op[d].names, j \in wrote'[d], In(j, n)'
                 PROVE  \E c \in Requests : j \in wrote'[c] /\ n \in Adds(c)
      BY <1>2, <2>9 DEF DeletedIsGone
    <3>1. \A c \in Requests : wrote[c] \subseteq wrote'[c]
      BY <1>3, <2>5
    <3>2. CASE In(j, n) /\ j \in wrote[d]
      <4>1. PICK c \in Requests : j \in wrote[c] /\ n \in Adds(c)
        BY <1>1, <2>4, <3>2 DEF Books, DeletedIsGone
      <4>2. QED
        BY <3>1, <4>1
    <3>3. CASE j = i /\ d = r
      <4>1. n \in Removes(r)
        BY <3>3 DEF Removes
      <4>2. QED
        BY <2>10, <3>3, <4>1
    <3>4. CASE j = i /\ d # r /\ ~In(j, n)
      <4>1. n \in Adds(r)
        BY <2>10, <3>4
      <4>2. QED
        BY <2>5, <3>4, <4>1
    <3>5. CASE j # i
      <4>1. In(j, n) /\ j \in wrote[d]
        BY <1>3, <2>5, <2>11, <3>5
      <4>2. QED
        BY <3>2, <4>1
    <3>6. QED
      BY <1>3, <3>2, <3>3, <3>4, <3>5
  <2>14. SeenIsThere'
    <3> SUFFICES ASSUME NEW d \in Requests, NEW j \in Instances, NEW n \in Names,
                        op[d].kind = "delete", n \in op[d].names, Running(d)',
                        snap'[d][j] # None, snap'[d][j][n] # None, j \notin wrote'[d],
                        ~In(j, n)'
                 PROVE  \E q \in Requests \ {d} : j \in wrote'[q] /\ n \in Removes(q)
      BY <1>2, <2>9 DEF SeenIsThere
    <3>1. \A q \in Requests : wrote[q] \subseteq wrote'[q]
      BY <1>3, <2>5
    <3>2. Running(d) /\ snap'[d] = snap[d]
      <4>1. CASE d # r
        BY <1>3, <4>1 DEF Running
      <4>2. CASE d = r
        <5>1. snap' = snap \/ stage'[r] \in {"success", "partial"}
          BY <1>t DEF Writes, Done, Typed
        <5>2. QED
          BY <1>1, <4>2, <5>1 DEF Running
      <4>3. QED
        BY <4>1, <4>2
    <3>3. CASE ~In(j, n)
      <4>1. j \notin wrote[d]
        BY <3>1
      <4>2. PICK q \in Requests \ {d} : j \in wrote[q] /\ n \in Removes(q)
        BY <1>1, <2>4, <3>2, <3>3, <4>1 DEF Books, SeenIsThere
      <4>3. QED
        BY <3>1, <4>2
    <3>4. CASE In(j, n)
      <4>1. j = i
        BY <2>11, <3>4
      <4>2. n \in Removes(r)
        BY <2>10, <3>4, <4>1
      <4>3. d # r
        BY <2>5, <4>1
      <4>4. QED
        BY <2>5, <4>1, <4>2, <4>3
    <3>5. QED
      BY <3>3, <3>4
  <2>15. Balanced'
    <3> SUFFICES ASSUME agreed, NEW n \in Names, Straight(n)', NEW j \in Instances
                 PROVE  AtFirst(j, n)' = AtFirst(Baseline, n)'
      BY <1>2 DEF Balanced
    <3>1. n \in Names /\ Baseline \in Instances
      BY BaselineIsLastInOrder, TableFacts
    <3>2. \A q \in Requests : wrote[q] \subseteq wrote'[q]
      BY <1>3, <2>5
    <3>3. Straight(n)
      <4>1. Active \subseteq Active'
        BY <3>2 DEF Active
      <4>2. ASSUME NEW d \in Active, NEW q \in Active, op[d].kind = "delete",
                   op[d].names # {n}, n \in Removes(d), n \in Removes(q)
            PROVE  q = d
        <5>1. d \in Requests /\ q \in Requests /\ d \in Active' /\ q \in Active'
          BY <4>1 DEF Active
        <5>2. n \in Removes(d)' /\ n \in Removes(q)'
          BY <2>9, <4>2, <5>1
        <5>3. op'[d].kind = "delete" /\ op'[d].names # {n}
          BY <1>2, <4>2
        <5>4. QED
          BY <5>1, <5>2, <5>3 DEF Straight
      <4>3. QED
        BY <4>2 DEF Straight
    <3>4. AtFirst(j, n) = AtFirst(Baseline, n)
      BY <1>1, <2>4, <3>3 DEF Books, Balanced
    <3>5. n \in Removes(r) => In(i, n)
      <4> SUFFICES ASSUME n \in Removes(r), ~In(i, n) PROVE FALSE
        OBVIOUS
      <4>1. PICK q \in Requests \ {r} : i \in wrote[q] /\ n \in Removes(q)
        BY <2>12, <3>1
      <4>2. q \in Active' /\ r \in Active'
        BY <2>5, <3>2, <4>1 DEF Active
      <4>3. op'[r].kind = "delete" /\ op'[r].names # {n}
        BY <1>2, <2>12, <3>1
      <4>4. QED
        BY <2>9, <4>1, <4>2, <4>3 DEF Straight
    <3>6. AtFirst(i, n)' = AtFirst(i, n)
      BY <1>2, <1>3, <2>5, <2>10, <3>1, <3>5, WriteBalances
    <3>7. ASSUME NEW k \in Instances PROVE AtFirst(k, n)' = AtFirst(k, n)
      <4>1. CASE k = i
        BY <3>6, <4>1
      <4>2. CASE k # i
        BY <2>11, <3>1, <4>2 DEF AtFirst
      <4>3. QED
        BY <4>1, <4>2
    <3>8. QED
      BY <3>1, <3>4, <3>7
  <2>16. QED
    BY <1>5, <2>13, <2>14, <2>15 DEF Books
<1>8. QED
  BY <1>6, <1>7


-----------------------------------------------------------------------------
(***************************************************************************)
(* Every step keeps the invariant                                          *)
(***************************************************************************)
LEMMA InitKeeps == Init => IInv
<1> SUFFICES ASSUME Init PROVE IInv
  OBVIOUS
<1> USE DEF Init
<1>1. Typed
  <2>1. Unread \in [Instances -> Table \cup {None}]
    BY DEF Unread
  <2>2. /\ groups \in [Instances -> Table]
        /\ \A i \in Instances : groups[i][Default[i]] # None
    BY DefaultAssumption DEF Immune
  <2>3. agreed \in BOOLEAN
    BY DEF SameNames
  <2>4. 0 \in 0..MaxFaults
    BY BoundsAssumption
  <2>5. QED
    BY <2>1, <2>2, <2>3, <2>4 DEF Typed, Ops, Stages, Unread
<1>2. ASSUME NEW r \in Requests PROVE Proceeds(r) /\ Ready(r) /\ Copies(r)
  BY DEF Proceeds, Ready, Copies, Running, Syncs, Nothing, Over
<1>3. Books
  <2>1. Active = {} /\ IsFiniteSet(Active)
    BY FS_EmptySet DEF Active
  <2>2. DeletedIsGone /\ SeenIsThere
    BY DEF DeletedIsGone, SeenIsThere, Nothing
  <2>3. Balanced
    <3> SUFFICES ASSUME SameNames, NEW n \in Names, NEW i \in Instances
                 PROVE  AtFirst(i, n) = AtFirst(Baseline, n)
      BY DEF Balanced
    <3>1. In(i, n) <=> In(Baseline, n)
      BY DEF SameNames, In
    <3>2. \A j \in Instances : Put(j, n) = {} /\ Taken(j, n) = {}
      BY DEF Put, Taken
    <3>3. QED
      BY <3>1, <3>2, BaselineIsLastInOrder DEF AtFirst
  <2>4. QED
    BY <2>1, <2>2, <2>3 DEF Books
<1>4. QED
  BY <1>1, <1>2, <1>3 DEF IInv

LEMMA AskKeeps ==
  ASSUME IInv, NEW r \in Requests, NEW what \in Ops, NEW pending \in SUBSET Instances,
         Ask(r, what, pending), what.kind # "none",
         what.kind \in {"syncAll", "syncOne"} => pending = what.targets,
         what.kind \notin {"syncAll", "syncOne"} => pending = Instances
  PROVE  IInv'
<1>1. Typed /\ \A q \in Requests : Proceeds(q) /\ Ready(q) /\ Copies(q)
  BY DEF IInv
<1>2. /\ stage[r] = "idle" /\ op' = [op EXCEPT ![r] = what]
      /\ stage' = [stage EXCEPT ![r] = "reading"] /\ todo' = [todo EXCEPT ![r] = pending]
      /\ groups' = groups /\ snap' = snap /\ failed' = failed /\ faults' = faults
      /\ wrote' = wrote /\ quiet' = quiet /\ agreed' = agreed
  BY DEF Ask
<1>3. Typed'
  BY <1>1, <1>2 DEF Typed, Stages
<1>4. /\ op'[r] = what /\ stage'[r] = "reading" /\ todo'[r] = pending
      /\ \A q \in Requests \ {r} : op'[q] = op[q] /\ stage'[q] = stage[q] /\ todo'[q] = todo[q]
  BY <1>1, <1>2 DEF Typed
<1>5. snap[r] = Unread /\ wrote[r] = {} /\ failed[r] = {}
  BY <1>1, <1>2 DEF Proceeds
<1>6. ASSUME NEW q \in Requests PROVE (Proceeds(q) /\ Ready(q) /\ Copies(q))'
  <2>1. CASE q = r
    <3>1. Proceeds(r)'
      BY <1>2, <1>4, <1>5 DEF Proceeds, Syncs, Running, Over
    <3>2. Ready(r)'
      BY <1>4 DEF Ready
    <3>3. Copies(r)'
      <4>1. Syncs(r)' => what.source \in Instances
        BY <1>4, OpCases DEF Syncs
      <4>2. \A i \in Instances : snap'[r][i] = None
        BY <1>2, <1>5 DEF Unread
      <4>3. QED
        BY <1>4, <4>1, <4>2 DEF Copies
    <3>4. QED
      BY <2>1, <3>1, <3>2, <3>3
  <2>2. CASE q # r
    <3>1. op'[q] = op[q] /\ stage'[q] = stage[q] /\ todo'[q] = todo[q]
      BY <1>4, <2>2
    <3>2. Proceeds(q)'
      BY <1>1, <1>2, <3>1 DEF Proceeds, Syncs, Running, Unread
    <3>3. Ready(q)' /\ Copies(q)'
      BY <1>1, <1>2, <3>1 DEF Ready, Copies, Copied, Shared, Syncs, Running
    <3>4. QED
      BY <3>2, <3>3
  <2>3. QED
    BY <2>1, <2>2
<1>7. Books'
  <2>1. Clean' => Clean
    BY <1>2, <1>4 DEF Clean, Syncs
  <2>2. \A q \in Requests : wrote[q] # {} => op'[q] = op[q]
    BY <1>4, <1>5
  <2>3. ASSUME NEW q \in Requests, NEW i \in Instances, Running(q)', snap'[q][i] # None
        PROVE  op'[q] = op[q] /\ Running(q) /\ snap'[q][i] = snap[q][i]
    <3>1. q # r
      BY <1>2, <1>5, <2>3 DEF Unread
    <3>2. QED
      BY <1>2, <1>4, <2>3, <3>1 DEF Running
  <2>4. QED
    BY <1>2, <1>3, <2>1, <2>2, <2>3, BooksKept
<1>8. QED
  BY <1>3, <1>6, <1>7 DEF IInv

LEMMA RefuseKeeps ==
  ASSUME IInv, NEW r \in Requests, stage[r] = "reading", Refuse(r),
         UNCHANGED <<groups, failed, faults, wrote, quiet, agreed>>
  PROVE  IInv'
<1>1. Typed /\ \A q \in Requests : Proceeds(q) /\ Ready(q) /\ Copies(q)
  BY DEF IInv
<1>2. /\ op' = [op EXCEPT ![r] = Nothing] /\ stage' = [stage EXCEPT ![r] = "refused"]
      /\ todo' = [todo EXCEPT ![r] = {}] /\ snap' = [snap EXCEPT ![r] = Unread]
      /\ groups' = groups /\ failed' = failed /\ faults' = faults
      /\ wrote' = wrote /\ quiet' = quiet /\ agreed' = agreed
  BY DEF Refuse
<1>3. Typed'
  <2>1. Unread \in [Instances -> Table \cup {None}]
    BY DEF Unread
  <2>2. QED
    BY <1>1, <1>2, <2>1 DEF Typed, Stages, Ops, Unread
<1>4. /\ op'[r] = Nothing /\ stage'[r] = "refused" /\ todo'[r] = {} /\ snap'[r] = Unread
      /\ \A q \in Requests \ {r} : /\ op'[q] = op[q] /\ stage'[q] = stage[q]
                                   /\ todo'[q] = todo[q] /\ snap'[q] = snap[q]
  BY <1>1, <1>2 DEF Typed
<1>5. wrote[r] = {} /\ failed[r] = {}
  BY <1>1 DEF Proceeds
<1>6. ASSUME NEW q \in Requests PROVE (Proceeds(q) /\ Ready(q) /\ Copies(q))'
  <2>1. CASE q = r
    <3>1. ~Syncs(r)' /\ ~Running(r)'
      BY <1>4 DEF Syncs, Running, Nothing
    <3>2. Proceeds(r)'
      BY <1>2, <1>4, <1>5, <3>1 DEF Proceeds
    <3>3. Ready(r)' /\ Copies(r)'
      BY <1>4, <3>1 DEF Ready, Copies
    <3>4. QED
      BY <2>1, <3>2, <3>3
  <2>2. CASE q # r
    <3>1. op'[q] = op[q] /\ stage'[q] = stage[q] /\ todo'[q] = todo[q] /\ snap'[q] = snap[q]
      BY <1>4, <2>2
    <3>2. Proceeds(q)'
      BY <1>1, <1>2, <3>1 DEF Proceeds, Syncs, Running, Unread
    <3>3. Ready(q)' /\ Copies(q)'
      BY <1>1, <1>2, <3>1 DEF Ready, Copies, Copied, Shared, Syncs, Running
    <3>4. QED
      BY <3>2, <3>3
  <2>3. QED
    BY <2>1, <2>2
<1>7. Books'
  <2>1. Clean' => Clean
    BY <1>2, <1>4 DEF Clean, Syncs
  <2>2. \A q \in Requests : wrote[q] # {} => op'[q] = op[q]
    BY <1>4, <1>5
  <2>3. ASSUME NEW q \in Requests, NEW i \in Instances, Running(q)'
        PROVE  op'[q] = op[q] /\ Running(q) /\ snap'[q][i] = snap[q][i]
    <3>1. q # r
      BY <1>4, <2>3 DEF Running
    <3>2. QED
      BY <1>4, <2>3, <3>1 DEF Running
  <2>4. QED
    BY <1>2, <1>3, <2>1, <2>2, <2>3, BooksKept
<1>8. QED
  BY <1>3, <1>6, <1>7 DEF IInv


LEMMA CheckKeeps ==
  ASSUME IInv, NEW r \in Requests, Check(r)
  PROVE  IInv'
<1>1. Typed /\ \A q \in Requests : Proceeds(q) /\ Ready(q) /\ Copies(q)
  BY DEF IInv
<1>2. CASE Refuse(r)
  BY <1>2, RefuseKeeps DEF Check
<1>3. CASE /\ Allows(r) /\ stage' = [stage EXCEPT ![r] = "writing"]
           /\ UNCHANGED <<op, todo, snap>>
  <2>1. /\ stage[r] = "reading" /\ stage' = [stage EXCEPT ![r] = "writing"]
        /\ groups' = groups /\ op' = op /\ snap' = snap /\ todo' = todo /\ failed' = failed
        /\ faults' = faults /\ wrote' = wrote /\ quiet' = quiet /\ agreed' = agreed
    BY <1>3 DEF Check
  <2>2. Typed'
    BY <1>1, <2>1 DEF Typed, Stages
  <2>3. stage'[r] = "writing" /\ \A q \in Requests \ {r} : stage'[q] = stage[q]
    BY <1>1, <2>1 DEF Typed
  <2>4. /\ op[r] \in Ops /\ snap[r] \in [Instances -> Table \cup {None}]
        /\ \A i \in ReadFirst(r) : snap[r][i] # None
    BY <1>1 DEF Check, Typed
  <2>5. \A i \in ReadFirst(r) \cap Instances : snap[r][i][Default[i]] # None
    BY <1>1, <2>4 DEF Typed
  <2>6. Proceeds(r)'
    BY <1>1, <2>1, <2>3 DEF Proceeds, Syncs, Running, Over
  <2>7. Ready(r)'
    <3>1. CASE op[r].kind \in {"update", "toggle"}
      <4>1. \A i \in Instances :
              /\ snap[r][i][op[r].old] # None /\ ~Immutable(i, op[r].old)
              /\ op[r].new # op[r].old => snap[r][i][op[r].new] = None
        BY <1>3, <3>1 DEF Allows
      <4>2. ReadFirst(r) = Instances
        BY <3>1 DEF ReadFirst
      <4>3. \A i \in Instances : ~Immutable(i, op[r].new)
        BY <2>5, <4>1, <4>2 DEF Immutable
      <4>4. QED
        BY <2>1, <2>4, <3>1, <4>1, <4>2, <4>3 DEF Ready, Syncs
    <3>2. CASE op[r].kind = "delete"
      <4>1. \A i \in Instances, n \in op[r].names : snap[r][i][n] # None /\ ~Immutable(i, n)
        BY <1>3, <3>2 DEF Allows
      <4>2. ReadFirst(r) = Instances
        BY <3>2 DEF ReadFirst
      <4>3. QED
        BY <2>1, <2>4, <3>2, <4>1, <4>2 DEF Ready, Syncs
    <3>3. CASE op[r].kind \in {"syncOne", "syncAll"}
      <4>1. op[r].source \in ReadFirst(r)
        BY <2>4, <3>3, OpCases DEF ReadFirst
      <4>2. QED
        BY <2>1, <2>4, <3>3, <4>1 DEF Ready
    <3>5. CASE op[r].kind \notin {"update", "toggle", "delete", "syncAll", "syncOne"}
      BY <2>1, <3>5 DEF Ready, Syncs
    <3>6. QED
      BY <3>1, <3>2, <3>3, <3>5
  <2>8. Copies(r)'
    <3> SUFFICES ASSUME quiet[r], Syncs(r)
                 PROVE  /\ \A i \in todo[r] \cup {op[r].source} :
                             snap[r][i] # None => groups[i] = snap[r][i]
                        /\ op[r].targets \subseteq todo[r]
      BY <2>1, <2>3 DEF Copies, Syncs
    <3>1. \A i \in todo[r] \cup {op[r].source} : snap[r][i] # None => groups[i] = snap[r][i]
      BY <1>1, <2>1 DEF Copies, Running
    <3>2. todo[r] = op[r].targets
      BY <1>1, <2>1 DEF Proceeds
    <3>3. QED
      BY <3>1, <3>2
  <2>9. ASSUME NEW q \in Requests \ {r} PROVE (Proceeds(q) /\ Ready(q) /\ Copies(q))'
    <3>1. stage'[q] = stage[q]
      BY <2>3
    <3>2. Proceeds(q)'
      BY <1>1, <2>1, <3>1 DEF Proceeds, Syncs, Running, Unread
    <3>3. Ready(q)' /\ Copies(q)'
      BY <1>1, <2>1, <3>1 DEF Ready, Copies, Copied, Shared, Syncs, Running
    <3>4. QED
      BY <3>2, <3>3
  <2>10. Books'
    <3>1. \A q \in Requests : Running(q)' => Running(q)
      BY <2>1, <2>3 DEF Running
    <3>2. Clean' => Clean
      BY <2>1, <2>3 DEF Clean, Syncs
    <3>3. QED
      BY <2>1, <2>2, <3>1, <3>2, BooksKept
  <2>11. QED
    BY <2>2, <2>6, <2>7, <2>8, <2>9, <2>10 DEF IInv
<1>4. QED
  BY <1>2, <1>3 DEF Check

LEMMA ReadingKeeps ==
  ASSUME IInv, NEW r \in Requests, NEW i \in Instances, Running(r), snap[r][i] = None,
         snap' = [snap EXCEPT ![r][i] = groups[i]],
         UNCHANGED <<groups, op, stage, todo, failed, faults, wrote, quiet, agreed>>
  PROVE  IInv'
<1>1. Typed /\ \A q \in Requests : Proceeds(q) /\ Ready(q) /\ Copies(q)
  BY DEF IInv
<1>2. /\ groups \in [Instances -> Table]
      /\ snap \in [Requests -> [Instances -> Table \cup {None}]]
  BY <1>1 DEF Typed
<1>3. snap' \in [Requests -> [Instances -> Table \cup {None}]]
  BY <1>2
<1>a. \A q \in Requests, j \in Instances : snap'[q][j] # None => snap'[q][j][Default[j]] # None
  BY <1>1, <1>2 DEF Typed
<1>4. Typed'
  BY <1>1, <1>3, <1>a DEF Typed
<1>5. /\ \A q \in Requests \ {r} : snap'[q] = snap[q]
      /\ snap'[r][i] = groups[i]
      /\ \A j \in Instances \ {i} : snap'[r][j] = snap[r][j]
  BY <1>2
<1>6. ASSUME NEW q \in Requests PROVE (Proceeds(q) /\ Ready(q) /\ Copies(q))'
  <2>1. Proceeds(q)'
    <3>1. stage[q] = "idle" => q # r
      BY DEF Running
    <3>2. stage[q] = "idle" => snap'[q] = snap[q]
      BY <1>5, <3>1
    <3>3. QED
      BY <1>1, <3>2 DEF Proceeds, Syncs, Running, Unread
  <2>2. CASE q # r
    <3>1. snap'[q] = snap[q]
      BY <1>5, <2>2
    <3>2. Ready(q)' /\ Copies(q)'
      BY <1>1, <3>1 DEF Ready, Copies, Copied, Shared, Syncs, Running
    <3>3. QED
      BY <2>1, <3>2
  <2>3. CASE q = r
    <3>0. op[r] \in Ops
      BY <1>1 DEF Typed
    <3>1. \A j \in Instances : snap[r][j] # None => j # i /\ snap'[r][j] = snap[r][j]
      BY <1>5
    <3>2. Syncs(r) => op[r].source \in Instances
      BY <3>0, OpCases, BaselineIsLastInOrder DEF Syncs
    <3>3. Ready(r)'
      BY <1>1, <3>1, <3>2 DEF Ready, Syncs
    <3>4. Copies(r)'
      <4> SUFFICES ASSUME quiet[r], Syncs(r)
                   PROVE  /\ \A j \in todo[r] \cup {op[r].source} :
                               snap'[r][j] # None => groups[j] = snap'[r][j]
                          /\ stage[r] = "writing" =>
                               \A j \in op[r].targets \ (todo[r] \cup failed[r]) : Copied(r, j)'
        BY DEF Copies, Syncs
      <4>1. todo[r] \cup {op[r].source} \subseteq Instances
        BY <1>1, <3>2 DEF Typed
      <4>2. \A j \in todo[r] \cup {op[r].source} : snap[r][j] # None => groups[j] = snap[r][j]
        BY <1>1 DEF Copies
      <4>3. \A j \in todo[r] \cup {op[r].source} : snap'[r][j] # None => groups[j] = snap'[r][j]
        BY <1>5, <4>1, <4>2
      <4>4. stage[r] = "writing" => snap'[r][op[r].source] = snap[r][op[r].source]
        BY <1>1, <3>1, <3>2 DEF Ready
      <4>5. ASSUME stage[r] = "writing", NEW j \in op[r].targets \ (todo[r] \cup failed[r])
            PROVE  Copied(r, j)'
        <5>1. Copied(r, j)
          BY <1>1, <4>5 DEF Copies, Running
        <5>2. QED
          BY <4>4, <4>5, <5>1 DEF Copied, Shared
      <4>6. QED
        BY <4>3, <4>5
    <3>5. QED
      BY <2>1, <2>3, <3>3, <3>4
  <2>4. QED
    BY <2>2, <2>3
<1>7. Books'
  <2>1. Clean' => Clean
    BY DEF Clean, Syncs
  <2>2. ASSUME NEW q \in Requests, NEW j \in Instances, Running(q)'
        PROVE  \/ snap'[q][j] = groups[j]
               \/ op'[q] = op[q] /\ Running(q) /\ snap'[q][j] = snap[q][j]
    <3>1. Running(q)
      BY <2>2 DEF Running
    <3>2. snap'[q][j] = groups[j] \/ snap'[q][j] = snap[q][j]
      BY <1>5
    <3>3. QED
      BY <3>1, <3>2
  <2>3. QED
    BY <1>4, <2>1, <2>2, BooksKept
<1>8. QED
  BY <1>4, <1>6, <1>7 DEF IInv

LEMMA WritesKeep ==
  ASSUME IInv, NEW r \in Requests, NEW i \in Instances,
         \E ok \in BOOLEAN, t \in Table : Writes(r, i, ok, t)
  PROVE  IInv'
<1>1. PICK ok \in BOOLEAN, t \in Table : Writes(r, i, ok, t)
  OBVIOUS
<1>2. Typed'
  BY <1>1, WritesFacts DEF IInv
<1>3. \A q \in Requests : Proceeds(q)' /\ Ready(q)' /\ Copies(q)'
  BY <1>1, WritesProceeds, WritesReady, WritesCopies
<1>4. Books'
  BY <1>1, WritesBooks
<1>5. QED
  BY <1>2, <1>3, <1>4 DEF IInv


\* A step either ends an access to a Pi-hole, or changes no group and ends no request
\* in success.
LEMMA StepCases ==
  ASSUME IInv, [Next]_vars
  PROVE  \/ /\ IInv' /\ groups' = groups
            /\ \A r \in Requests : stage'[r] = "success" => stage[r] = "success"
         \/ \E r \in Requests, i \in Instances :
              \E ok \in BOOLEAN, t \in Table : Writes(r, i, ok, t)
<1>1. Typed /\ stage \in [Requests -> Stages] /\ Baseline \in Instances
  BY BaselineIsLastInOrder DEF IInv, Typed
<1> DEFINE Calm == /\ IInv' /\ groups' = groups
                   /\ \A r \in Requests : stage'[r] = "success" => stage[r] = "success"
           Ends == \E r \in Requests, i \in Instances :
                     \E ok \in BOOLEAN, t \in Table : Writes(r, i, ok, t)
<1>2. CASE UNCHANGED vars
  <2>1. /\ groups' = groups /\ op' = op /\ stage' = stage /\ snap' = snap /\ todo' = todo
        /\ failed' = failed /\ faults' = faults /\ wrote' = wrote /\ quiet' = quiet
        /\ agreed' = agreed
    BY <1>2 DEF vars, request
  <2>2. Typed' /\ \A q \in Requests : (Proceeds(q) /\ Ready(q) /\ Copies(q))'
    BY <2>1 DEF IInv, Typed, Proceeds, Ready, Copies, Copied, Shared, Syncs, Running,
              Unread
  <2>3. Clean' => Clean
    BY <2>1 DEF Clean, Syncs
  <2>4. \A q \in Requests : Running(q)' => Running(q)
    BY <2>1 DEF Running
  <2>5. Books'
    BY <2>1, <2>2, <2>3, <2>4, BooksKept
  <2>6. QED
    BY <2>1, <2>2, <2>5 DEF IInv
<1>3. ASSUME NEW r \in Requests, NEW what \in Ops, NEW pending \in SUBSET Instances,
             Ask(r, what, pending), what.kind # "none",
             what.kind \in {"syncAll", "syncOne"} => pending = what.targets,
             what.kind \notin {"syncAll", "syncOne"} => pending = Instances
      PROVE  Calm
  <2>1. IInv'
    BY <1>3, AskKeeps
  <2>2. stage' = [stage EXCEPT ![r] = "reading"] /\ groups' = groups
    BY <1>3 DEF Ask
  <2>3. QED
    BY <1>1, <2>1, <2>2
<1>g. Given \subseteq Names
  BY AskedAssumption DEF Given
<1>4. ASSUME NEW r \in Requests, CreateGroups(r) PROVE Calm
  <2>1. PICK what \in [kind : {"create"}, names : Asked, group : Group] :
          Ask(r, what, Instances)
    BY <1>4 DEF CreateGroups
  <2>2. what \in Creation /\ what.kind = "create"
    BY AskedAssumption DEF Creation
  <2>3. QED
    BY <1>3, <2>1, <2>2 DEF Ops
<1>5. ASSUME NEW r \in Requests, UpdateGroup(r) PROVE Calm
  <2>1. PICK what \in Update : Ask(r, what, Instances)
    BY <1>5, <1>g DEF UpdateGroup, Update
  <2>2. what.kind = "update"
    BY DEF Update
  <2>3. QED
    BY <1>3, <2>1, <2>2 DEF Ops
<1>6. ASSUME NEW r \in Requests, UpdateGroupStatus(r) PROVE Calm
  <2>1. PICK what \in Toggle : Ask(r, what, Instances)
    BY <1>6, <1>g DEF UpdateGroupStatus, Toggle
  <2>2. what.kind = "toggle"
    BY DEF Toggle
  <2>3. QED
    BY <1>3, <2>1, <2>2 DEF Ops
<1>7. ASSUME NEW r \in Requests, BatchDeleteGroups(r) PROVE Calm
  <2>1. PICK what \in [kind : {"delete"}, names : Asked] : Ask(r, what, Instances)
    BY <1>7 DEF BatchDeleteGroups
  <2>2. what \in Deletion /\ what.kind = "delete"
    BY AskedAssumption DEF Deletion
  <2>3. QED
    BY <1>3, <2>1, <2>2 DEF Ops
<1>8. ASSUME NEW r \in Requests, SyncGroups(r) PROVE Calm
  <2> DEFINE others == Instances \ {Baseline}
             what == [kind |-> "syncAll", names |-> Names, source |-> Baseline,
                      targets |-> others]
  <2>1. Ask(r, what, others)
    BY <1>8 DEF SyncGroups
  <2>2. what \in SyncAll /\ what.kind = "syncAll" /\ what.targets = others
    BY DEF SyncAll
  <2> HIDE DEF what
  <2>3. QED
    BY <1>3, <2>1, <2>2 DEF Ops
<1>9. ASSUME NEW r \in Requests, SyncSelectedGroup(r) PROVE Calm
  <2>0. PICK n \in Given, x \in Instances :
          \E targets \in (SUBSET (Instances \ {x})) \ {{}} :
            Ask(r, [kind |-> "syncOne", names |-> {n}, source |-> x, targets |-> targets],
                targets)
    BY <1>9 DEF SyncSelectedGroup
  <2>1. PICK targets \in (SUBSET (Instances \ {x})) \ {{}} :
          Ask(r, [kind |-> "syncOne", names |-> {n}, source |-> x, targets |-> targets],
              targets)
    BY <2>0
  <2> DEFINE what == [kind |-> "syncOne", names |-> {n}, source |-> x, targets |-> targets]
  <2>2. what \in SyncOne /\ what.kind = "syncOne" /\ what.targets = targets
    BY <1>g DEF SyncOne
  <2>3. Ask(r, what, targets)
    BY <2>1
  <2> HIDE DEF what
  <2>4. QED
    BY <1>3, <2>2, <2>3 DEF Ops
<1>10. ASSUME NEW r \in Requests, ReadFails(r) PROVE Calm
  <2>1. IInv'
    BY <1>10, RefuseKeeps DEF ReadFails
  <2>2. stage' = [stage EXCEPT ![r] = "refused"] /\ groups' = groups
    BY <1>10 DEF ReadFails, Refuse
  <2>3. QED
    BY <1>1, <2>1, <2>2
<1>11. ASSUME NEW r \in Requests, Check(r) PROVE Calm
  <2>1. IInv'
    BY <1>11, CheckKeeps
  <2>2. /\ groups' = groups
        /\ \/ stage' = [stage EXCEPT ![r] = "refused"]
           \/ stage' = [stage EXCEPT ![r] = "writing"]
    BY <1>11 DEF Check, Refuse
  <2>3. QED
    BY <1>1, <2>1, <2>2
<1>12. ASSUME NEW r \in Requests, NEW i \in Instances, ReadGroupsSnapshot(r, i) PROVE Calm
  <2>1. IInv'
    BY <1>12, ReadingKeeps DEF ReadGroupsSnapshot, Running
  <2>2. QED
    BY <1>12, <2>1 DEF ReadGroupsSnapshot
<1>13. ASSUME NEW r \in Requests, NEW i \in Instances, ReadTarget(r, i) PROVE Calm
  <2>1. IInv'
    BY <1>13, ReadingKeeps DEF ReadTarget, Turn, Running
  <2>2. QED
    BY <1>13, <2>1 DEF ReadTarget
<1>14. ASSUME NEW r \in Requests, SkipBaseline(r) PROVE Ends
  BY <1>1, <1>14, SkipBaselineWrites
<1>15. ASSUME NEW r \in Requests, NEW i \in Instances,
              Write(r, i) \/ WriteFails(r, i) \/ ReadTargetFails(r, i) \/ SpareTarget(r, i)
              \/ SyncTo(r, i) \/ SyncFails(r, i)
       PROVE  Ends
  BY <1>15, WriteWrites, WriteFailsWrites, ReadTargetFailsWrites, SpareTargetWrites,
     SyncToWrites, SyncFailsWrites
<1> HIDE DEF Calm, Ends
<1>16. ASSUME Next PROVE Calm \/ Ends
  BY <1>4, <1>5, <1>6, <1>7, <1>8, <1>9, <1>10, <1>11, <1>12, <1>13, <1>14, <1>15, <1>16
     DEF Next
<1>17. QED
  <2>1. Calm \/ Ends => \/ /\ IInv' /\ groups' = groups
                           /\ \A r \in Requests : stage'[r] = "success" => stage[r] = "success"
                        \/ \E r \in Requests, i \in Instances :
                             \E ok \in BOOLEAN, t \in Table : Writes(r, i, ok, t)
    BY Zenon DEF Calm, Ends
  <2>2. Next \/ UNCHANGED vars
    OBVIOUS
  <2>3. CASE Next
    BY <1>16, <2>1, <2>3
  <2>4. CASE UNCHANGED vars
    BY <1>2, <2>4
  <2>5. QED
    BY <2>2, <2>3, <2>4

LEMMA NextKeeps == IInv /\ [Next]_vars => IInv'
<1> SUFFICES ASSUME IInv, [Next]_vars PROVE IInv'
  OBVIOUS
<1>1. ASSUME NEW r \in Requests, NEW i \in Instances,
             \E ok \in BOOLEAN, t \in Table : Writes(r, i, ok, t)
      PROVE  IInv'
  BY <1>1, WritesKeep
<1>2. QED
  BY <1>1, StepCases

LEMMA InvariantHolds == Spec => []IInv
  BY InitKeeps, NextKeeps, PTL DEF Spec

-----------------------------------------------------------------------------
(***************************************************************************)
(* The theorems                                                            *)
(***************************************************************************)
\* A change reaches the baseline only when every other Pi-hole has it.
THEOREM BaselineComesLast == Spec => []GroupInv
<1>1. IInv => GroupInv
  <2> SUFFICES ASSUME IInv PROVE GroupInv
    OBVIOUS
  <2>1. Typed /\ \A r \in Requests : Proceeds(r)
    BY DEF IInv
  <2>2. \A r \in Requests, i \in Instances : snap[r][i] \in Table \cup {None}
    BY <2>1 DEF Typed
  <2>3. TypeOK
    BY <2>1, <2>2 DEF Typed, TypeOK, Immune, Stages
  <2>4. BaselineIsLast
    BY <2>1 DEF Proceeds, BaselineIsLast
  <2>5. QED
    BY <2>3, <2>4 DEF GroupInv
<1>2. QED
  BY <1>1, InvariantHolds, PTL

\* Of users who change the same groups at the same time, one is told of a failure, or
\* else all Pi-holes have groups of the same names when they are done.
THEOREM ConflictsAreTold == Spec => []ConflictsAreReported
<1>1. IInv => ConflictsAreReported
  <2> SUFFICES ASSUME IInv, agreed,
                      \A r \in Requests : stage[r] \in {"idle", "refused", "success"},
                      \A r \in Requests : stage[r] = "success" => ~Syncs(r),
                      NEW n \in Names, NEW i \in Instances, ~Tangled(n)
               PROVE  groups[i][n] = None <=> groups[Baseline][n] = None
    BY DEF ConflictsAreReported
  <2>1. Typed /\ Books /\ \A r \in Requests : Proceeds(r)
    BY DEF IInv
  <2>2. Baseline \in Instances /\ n \in Names
    BY BaselineIsLastInOrder, TableFacts
  <2>3. Clean
    BY <2>1 DEF Clean, Proceeds
  <2>4. ASSUME NEW r \in Requests PROVE wrote[r] = {} \/ wrote[r] = Instances
    <3>1. CASE stage[r] = "success"
      <4>1. todo[r] = {} /\ failed[r] = {}
        BY <2>1, <3>1 DEF Proceeds, Over
      <4>2. Instances \subseteq wrote[r]
        BY <2>1, <3>1, <4>1 DEF Proceeds
      <4>3. QED
        BY <2>1, <4>2 DEF Typed
    <3>2. CASE stage[r] \in {"idle", "refused"}
      BY <2>1, <3>2 DEF Proceeds
    <3>3. QED
      BY <3>1, <3>2
  <2>5. CASE Straight(n)
    <3>1. AtFirst(i, n) = AtFirst(Baseline, n)
      BY <2>1, <2>3, <2>5 DEF Books, Balanced
    <3>2. Put(i, n) = Put(Baseline, n) /\ Taken(i, n) = Taken(Baseline, n)
      BY <2>2, <2>4 DEF Put, Taken
    <3>3. Put(i, n) \in SUBSET Active /\ Taken(i, n) \in SUBSET Active
      BY DEF Put, Taken, Active
    <3>4. Cardinality(Put(i, n)) \in Nat /\ Cardinality(Taken(i, n)) \in Nat
      BY <2>1, <3>3, FS_Subset, FS_CardinalityType DEF Books
    <3>5. In(i, n) <=> In(Baseline, n)
      BY <3>1, <3>2, <3>4 DEF AtFirst
    <3>6. QED
      BY <3>5 DEF In
  <2>6. CASE ~Straight(n)
    <3>1. PICK d \in Active, q \in Active :
            /\ op[d].kind = "delete" /\ op[d].names # {n}
            /\ n \in Removes(d) /\ n \in Removes(q) /\ q # d
      BY <2>6 DEF Straight
    <3>2. \A c \in Requests : n \notin Adds(c)
      BY <3>1 DEF Tangled, Active
    <3>3. d \in Requests /\ wrote[d] = Instances /\ n \in op[d].names
      BY <2>4, <3>1 DEF Active, Removes
    <3>4. \A j \in Instances : ~In(j, n)
      BY <2>1, <2>2, <2>3, <3>1, <3>2, <3>3 DEF Books, DeletedIsGone
    <3>5. QED
      BY <2>2, <3>4 DEF In
  <2>7. QED
    BY <2>5, <2>6
<1>2. QED
  BY <1>1, InvariantHolds, PTL

\* A synchronisation that succeeds, and met no other change, has made its targets equal
\* to its source.
THEOREM SyncsConverge == Spec => SyncConverges
<1>1. ASSUME IInv, [Next]_vars, NEW r \in Requests,
             Syncs(r), quiet'[r], stage[r] = "writing", stage'[r] = "success",
             NEW n \in Names, NEW j \in Instances, Shares(r, j, n)
      PROVE  groups'[j][n] = groups'[op[r].source][n]
  <2>1. Typed /\ Proceeds(r) /\ Ready(r) /\ Copies(r) /\ op[r] \in Ops
    BY <1>1 DEF IInv, Typed
  <2>t. Typed
    BY <2>1
  <2>2. PICK q \in Requests, i \in Instances, ok \in BOOLEAN, t \in Table : Writes(q, i, ok, t)
    BY <1>1, StepCases
  <2>3. q = r
    BY <1>1, <2>t, <2>2, WritesOthers
  <2>w. Writes(r, i, ok, t)
    BY <2>2, <2>3
  <2>4. todo'[r] = todo[r] \ {i} /\ i \in todo[r]
    BY <2>t, <2>w, WritesFacts DEF Writes
  <2>5. \/ todo'[r] # {} /\ stage'[r] = "writing"
        \/ /\ todo'[r] = {}
           /\ stage'[r] = IF failed'[r] = {} THEN "success" ELSE "partial"
    BY <2>t, <2>w, WritesFacts
  <2>6. todo'[r] = {} /\ failed'[r] = {}
    BY <1>1, <2>5
  <2>7. (ok => failed'[r] = failed[r]) /\ (~ok => failed'[r] = failed[r] \cup {i})
    BY <2>t, <2>w, WritesFacts
  <2>8. ok /\ failed[r] = {} /\ todo[r] = {i}
    BY <2>4, <2>6, <2>7
  <2>9. groups'[i] = t
    BY <2>t, <2>w, WritesFacts
  <2>10. \A k \in Instances \ {i} : groups'[k] = groups[k]
    BY <2>t, <2>w, WritesFacts
  <2>11. quiet[r] <=> quiet'[r]
    BY <2>t, <2>w, WritesFacts
  <2>12. op[r].source \in Instances \ {i} /\ snap[r][op[r].source] # None
    <3>1. op[r].source \in Instances /\ op[r].source \notin todo[r]
      BY <1>1, <2>1, OpCases DEF Syncs, Proceeds
    <3>2. QED
      BY <1>1, <2>1, <2>4, <3>1 DEF Ready
  <2>13. groups'[op[r].source] = snap[r][op[r].source]
    BY <1>1, <2>1, <2>10, <2>11, <2>12 DEF Copies, Running
  <2>a. j \in op[r].targets /\ n \in op[r].names /\ Shared(r, j, n)
    <3>1. groups[op[r].source] = snap[r][op[r].source]
      BY <2>10, <2>12, <2>13
    <3>2. QED
      BY <1>1, <3>1 DEF Shares, Shared
  <2>14. CASE j = i
    <3>1. /\ snap[r][i] # None
          /\ LET p == Plan(r, i)
             IN  \/ Empty(p) /\ t = groups[i]
                 \/ Smooth(p, groups[i]) /\ t = Applied(p, snap[r][op[r].source], groups[i])
      BY <1>1, <2>8, <2>w DEF Writes
    <3>2. groups[i] = snap[r][i]
      BY <1>1, <2>1, <2>4, <2>11, <3>1 DEF Copies, Running
    <3>3. t[n] = snap[r][op[r].source][n]
      BY <1>1, <2>a, <2>14, <3>1, <3>2, CopyIsMade
    <3>4. QED
      BY <2>9, <2>13, <2>14, <3>3
  <2>15. CASE j # i
    <3>1. Copied(r, j)
      BY <1>1, <2>1, <2>8, <2>11, <2>a, <2>15 DEF Copies, Running
    <3>2. groups[j][n] = snap[r][op[r].source][n]
      BY <2>a, <3>1 DEF Copied
    <3>3. QED
      BY <2>10, <2>13, <2>15, <3>2
  <2>16. QED
    BY <2>14, <2>15
<1>2. IInv /\ [Next]_vars =>
        [\A r \in Requests :
           Syncs(r) /\ quiet'[r] /\ stage[r] = "writing" /\ stage'[r] = "success" =>
             \A i \in Instances, n \in Names :
               Shares(r, i, n) => groups'[i][n] = groups'[op[r].source][n]]_vars
  BY <1>1
<1>3. QED
  BY <1>2, InvariantHolds, PTL DEF Spec, SyncConverges

\* No way that leads to a group takes the one with id 0 away, or changes it but by a
\* synchronisation with a baseline that has another group of its name.
THEOREM DefaultStays == Spec => DefaultIsKept
<1> DEFINE Stays(i) ==
             LET n == Default[i] IN
             \/ groups'[i][n] = groups[i][n]
             \/ /\ groups'[i][n] # None /\ ~Immutable(Baseline, n)
                /\ \E r \in Requests : /\ stage[r] = "writing" /\ op[r].kind = "syncAll"
                                       /\ groups'[i][n] = snap[r][Baseline][n]
<1>1. ASSUME IInv, [Next]_vars, NEW j \in Instances
      PROVE  Stays(j)
  <2>1. Typed
    BY <1>1 DEF IInv
  <2>2. ASSUME NEW r \in Requests, NEW i \in Instances, NEW ok \in BOOLEAN, NEW t \in Table,
               Writes(r, i, ok, t)
        PROVE  Stays(j)
    <3>1. Spares(r, i, t) /\ stage[r] = "writing"
      BY <2>2 DEF Writes
    <3>2. groups'[i] = t
      BY <2>1, <2>2, WritesFacts
    <3>3. \A k \in Instances \ {i} : groups'[k] = groups[k]
      BY <2>1, <2>2, WritesFacts
    <3>4. CASE j = i
      BY <3>1, <3>2, <3>4 DEF Spares
    <3>5. CASE j # i
      BY <3>3, <3>5
    <3>6. QED
      BY <3>4, <3>5
  <2>3. CASE groups' = groups
    BY <2>3
  <2>4. QED
    BY <1>1, <2>2, <2>3, StepCases
<1>2. IInv /\ [Next]_vars => [\A i \in Instances : Stays(i)]_vars
  BY <1>1
<1>3. QED
  BY <1>2, InvariantHolds, PTL DEF Spec, DefaultIsKept
=============================================================================
