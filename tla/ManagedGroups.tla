---------------------------- MODULE ManagedGroups ---------------------------
(***************************************************************************)
(* GroupsService: the groups of the Pi-holes, which users change at all of *)
(* them together.                                                          *)
(*                                                                         *)
(* Nothing is stored here: a request reads the groups of every Pi-hole,    *)
(* refuses if they do not allow the change, and then writes to one Pi-hole *)
(* after the other, to the baseline last and only if no other has failed.  *)
(* A synchronisation writes what the baseline had when it was read.  Only  *)
(* the access to one Pi-hole is exclusive: requests interleave between the *)
(* Pi-holes, and between their reading and their writing.                  *)
(***************************************************************************)
EXTENDS Naturals, FiniteSets, Sequences, SequencesExt

CONSTANTS Others,    \* the Pi-holes besides the baseline, in the order of their names
          Baseline,
          Names,     \* names of groups
          Default,   \* the name of the group with id 0 at each Pi-hole
          Comments,
          Starts,    \* the groups the Pi-holes may have at first
          Asked,     \* the names users give, those they give together
          Requests,  \* requests of users: each one is made once
          MaxFaults, \* bound on the accesses that fail after the reading
          None

Order == Append(Others, Baseline)
Instances == ToSet(Order)
Group == [enabled : BOOLEAN, comment : Comments]
Table == [Names -> Group \cup {None}]

\* isImmutableGroup: the group with id 0.  Nothing here renames it, so that its name
\* is that of the beginning.
Immutable(i, n) == n = Default[i]
Immune == {t \in [Instances -> Table] : \A i \in Instances : t[i][Default[i]] # None}

ASSUME OrderAssumption == Others \in Seq(ToSet(Others)) /\ IsInjective(Order)
ASSUME DefaultAssumption ==
  /\ Default \in [Instances -> Names] /\ None \notin Group
  /\ Starts \subseteq Immune
ASSUME AskedAssumption == Asked \subseteq (SUBSET Names) \ {{}}
ASSUME BoundsAssumption == MaxFaults \in Nat

VARIABLES groups,  \* the groups of each Pi-hole
          op,      \* what each request asks for
          stage,   \* where it stands
          snap,    \* what it has read from each Pi-hole, or None
          todo,    \* the Pi-holes it has yet to write to
          failed,  \* those that have failed
          faults,
          wrote,   \* history: where its change has taken place
          quiet,   \* history: no other request has changed a group since it began
          agreed   \* history: all Pi-holes had groups of the same names at first

request == <<op, stage, snap, todo, failed>>
vars == <<groups, request, faults, wrote, quiet, agreed>>

SameNames == \A i \in Instances, n \in Names :
               (groups[i][n] = None) <=> (groups[Baseline][n] = None)
Unread == [i \in Instances |-> None]
Nothing == [kind |-> "none"]

Init ==
  /\ groups \in Starts
  /\ op = [r \in Requests |-> Nothing]
  /\ stage = [r \in Requests |-> "idle"]
  /\ snap = [r \in Requests |-> Unread]
  /\ todo = [r \in Requests |-> {}]
  /\ failed = [r \in Requests |-> {}]
  /\ faults = 0
  /\ wrote = [r \in Requests |-> {}]
  /\ quiet = [r \in Requests |-> TRUE]
  /\ agreed = SameNames

Syncs(r) == op[r].kind \in {"syncAll", "syncOne"}
Running(r) == stage[r] \in {"reading", "writing"}

-----------------------------------------------------------------------------
(***************************************************************************)
(* The requests                                                            *)
(***************************************************************************)
Ask(r, what, pending) ==
  /\ stage[r] = "idle"
  /\ op' = [op EXCEPT ![r] = what]
  /\ stage' = [stage EXCEPT ![r] = "reading"]
  /\ todo' = [todo EXCEPT ![r] = pending]
  /\ UNCHANGED <<groups, snap, failed, faults, wrote, quiet, agreed>>

Given == UNION Asked

CreateGroups(r) ==
  \E what \in [kind : {"create"}, names : Asked, group : Group] :
    Ask(r, what, Instances)

UpdateGroup(r) ==
  \E what \in [kind : {"update"}, old : Given, new : Given, comment : Comments] :
    Ask(r, what, Instances)

UpdateGroupStatus(r) ==
  \E what \in [kind : {"toggle"}, old : Given, new : Given, enabled : BOOLEAN] :
    what.new = what.old /\ Ask(r, what, Instances)

\* deleteGroup is the case of one name.
BatchDeleteGroups(r) ==
  \E what \in [kind : {"delete"}, names : Asked] : Ask(r, what, Instances)

SyncGroups(r) ==
  LET others == Instances \ {Baseline} IN
  Ask(r, [kind |-> "syncAll", names |-> Names, source |-> Baseline, targets |-> others],
      others)

SyncSelectedGroup(r) ==
  \E n \in Given, s \in Instances :
    \E targets \in (SUBSET (Instances \ {s})) \ {{}} :
      Ask(r, [kind |-> "syncOne", names |-> {n}, source |-> s, targets |-> targets],
          targets)

-----------------------------------------------------------------------------
(***************************************************************************)
(* Reading: prepareSnapshots asks all Pi-holes at once; one that does not  *)
(* answer ends the request.                                                *)
(***************************************************************************)
ReadFirst(r) == IF op[r].kind = "syncOne" THEN {op[r].source} ELSE Instances

Refuse(r) ==
  /\ stage' = [stage EXCEPT ![r] = "refused"]
  /\ op' = [op EXCEPT ![r] = Nothing]
  /\ todo' = [todo EXCEPT ![r] = {}]
  /\ snap' = [snap EXCEPT ![r] = Unread]

\* The other answers do not matter then.
ReadFails(r) ==
  /\ stage[r] = "reading" /\ snap[r] = Unread
  /\ Refuse(r)
  /\ UNCHANGED <<groups, failed, faults, wrote, quiet, agreed>>

ReadGroupsSnapshot(r, i) ==
  /\ stage[r] = "reading" /\ i \in ReadFirst(r) /\ snap[r][i] = None
  /\ snap' = [snap EXCEPT ![r][i] = groups[i]]
  /\ UNCHANGED <<groups, op, stage, todo, failed, faults, wrote, quiet, agreed>>

\* A group is created only if no Pi-hole has one of its name, and changed or deleted
\* only if all have it.  A group that has id 0 at one of them is left alone.
Allows(r) ==
  LET has(i, n) == snap[r][i][n] # None IN
  CASE op[r].kind = "create" -> \A i \in Instances, n \in op[r].names : ~has(i, n)
    [] op[r].kind \in {"update", "toggle"} ->
         \A i \in Instances : /\ has(i, op[r].old) /\ ~Immutable(i, op[r].old)
                              /\ op[r].new # op[r].old => ~has(i, op[r].new)
    [] op[r].kind = "delete" ->
         \A i \in Instances, n \in op[r].names : has(i, n) /\ ~Immutable(i, n)
    [] op[r].kind = "syncOne" ->
         \A n \in op[r].names : ~Immutable(op[r].source, n)
    [] OTHER -> TRUE

Check(r) ==
  /\ stage[r] = "reading"
  /\ \A i \in ReadFirst(r) : snap[r][i] # None
  /\ IF Allows(r)
     THEN stage' = [stage EXCEPT ![r] = "writing"] /\ UNCHANGED <<op, todo, snap>>
     ELSE Refuse(r)
  /\ UNCHANGED <<groups, failed, faults, wrote, quiet, agreed>>

-----------------------------------------------------------------------------
(***************************************************************************)
(* A change at one Pi-hole, under its lock.  The Pi-hole decides by the    *)
(* groups it has now.  It creates no group twice, changes none that is     *)
(* missing and renames none to a name in use.                              *)
(***************************************************************************)
Changed(r, i) ==
  LET old == snap[r][i][op[r].old] IN
  IF op[r].kind = "toggle" THEN [old EXCEPT !.enabled = op[r].enabled]
                           ELSE [old EXCEPT !.comment = op[r].comment]

\* Whether the Pi-hole accepts all of it, and its groups afterwards.  One that has
\* lost some of the groups to delete may answer either way.
Accepts(r, t) ==
  CASE op[r].kind = "create" -> \A n \in op[r].names : t[n] = None
    [] op[r].kind = "delete" -> \E n \in op[r].names : t[n] # None
    [] OTHER -> t[op[r].old] # None /\ (op[r].new # op[r].old => t[op[r].new] = None)

Doubtful(r, t) == op[r].kind = "delete" /\ \E n \in op[r].names : t[n] = None

After(r, i, t) ==
  CASE op[r].kind = "create" ->
         [n \in Names |-> IF n \in op[r].names /\ t[n] = None THEN op[r].group ELSE t[n]]
    [] op[r].kind = "delete" ->
         [n \in Names |-> IF n \in op[r].names THEN None ELSE t[n]]
    [] OTHER -> IF ~Accepts(r, t) THEN t
                ELSE [t EXCEPT ![op[r].old] = None, ![op[r].new] = Changed(r, i)]

\* buildSyncPlan, and syncGroupToTarget for the one name it is about.  The group
\* with id 0 at the source is passed over, and the one at the target is not deleted.
\* It may be updated, where the source has another group of its name: only
\* syncGroupToTarget looks at the id then.
PlanOf(r, i, delete) ==
  LET src == snap[r][op[r].source]
      own == snap[r][i]
      some == {n \in op[r].names : ~Immutable(op[r].source, n) /\ src[n] # None}
  IN  [delete |-> delete,
       create |-> {n \in some : own[n] = None},
       update |-> {n \in some : own[n] # None /\ own[n] # src[n]}]

Missing(r, i) ==
  {n \in op[r].names : snap[r][i][n] # None /\ snap[r][op[r].source][n] = None}

\* Slip: nothing is deleted.
Slip_PlanKeeps(r, i) == PlanOf(r, i, {})

\* Slip: the group with id 0 is deleted like any other.
Slip_PlanDeletesAll(r, i) == PlanOf(r, i, Missing(r, i))

Plan(r, i) == PlanOf(r, i, {n \in Missing(r, i) : ~Immutable(i, n)})

Empty(p) == p.delete = {} /\ p.create = {} /\ p.update = {}

\* The plan meets no group that has appeared or gone since the reading.
Smooth(p, t) ==
  /\ p.delete # {} => \E n \in p.delete : t[n] # None
  /\ \A n \in p.create : t[n] = None
  /\ \A n \in p.update : t[n] # None

Applied(p, src, t) ==
  [n \in Names |->
     IF n \in p.delete THEN None
     ELSE IF \/ n \in p.create /\ t[n] = None
             \/ n \in p.update /\ t[n] # None
          THEN src[n] ELSE t[n]]

\* Deletions come first, then what is missing is created, then the rest is updated:
\* what a failure leaves.
HalfWay(p) ==
  {q \in [delete : SUBSET p.delete, create : SUBSET p.create, update : SUBSET p.update] :
     /\ q.create # {} => q.delete = p.delete
     /\ q.update # {} => q.create = p.create}

-----------------------------------------------------------------------------
(***************************************************************************)
(* Writing                                                                 *)
(***************************************************************************)
\* The order of the Pi-holes is that of the database, or that of the request.
Turn(r, i) ==
  /\ stage[r] = "writing" /\ i \in todo[r]
  /\ op[r].kind # "syncOne" =>
       \A k, l \in DOMAIN Order : Order[k] = i /\ Order[l] \in todo[r] => k <= l

\* The request is done with a Pi-hole, which now has the groups t.
Done(r, i, ok, t) ==
  /\ groups' = [groups EXCEPT ![i] = t]
  /\ quiet' = [q \in Requests |->
                 quiet[q] /\ (q # r /\ Running(q) => t = groups[i])]
  /\ todo' = [todo EXCEPT ![r] = @ \ {i}]
  /\ failed' = IF ok THEN failed ELSE [failed EXCEPT ![r] = @ \cup {i}]
  /\ UNCHANGED <<op, agreed>>
  /\ IF todo'[r] # {} THEN UNCHANGED <<stage, snap>>
     ELSE /\ stage' = [stage EXCEPT ![r] = IF failed'[r] = {} THEN "success" ELSE "partial"]
          /\ snap' = [snap EXCEPT ![r] = Unread]

Fault == faults < MaxFaults /\ faults' = faults + 1

\* Slip: the baseline is written to whatever the others did.
Slip_MayWriteAlways(r, i) == Turn(r, i)

\* The baseline gets nothing that another Pi-hole has refused.
MayWrite(r, i) == Turn(r, i) /\ (i = Baseline => failed[r] = {})

Wrote(r, i, t) == wrote' = IF Accepts(r, t) THEN [wrote EXCEPT ![r] = @ \cup {i}] ELSE wrote

\* Slip: the errors in the answer are not looked at.
Slip_WriteBlindly(r, i) ==
  /\ ~Syncs(r) /\ MayWrite(r, i)
  /\ Done(r, i, TRUE, After(r, i, groups[i]))
  /\ wrote' = [wrote EXCEPT ![r] = @ \cup {i}]
  /\ UNCHANGED faults

Write(r, i) ==
  LET t == groups[i] IN
  /\ ~Syncs(r) /\ MayWrite(r, i)
  /\ \E ok \in BOOLEAN :
       /\ IF ok THEN Accepts(r, t) ELSE ~Accepts(r, t) \/ Doubtful(r, t)
       /\ Done(r, i, ok, After(r, i, t))
  /\ Wrote(r, i, t)
  /\ UNCHANGED faults

\* The Pi-hole is not reached, or its answer is lost.
WriteFails(r, i) ==
  LET t == groups[i] IN
  /\ ~Syncs(r) /\ MayWrite(r, i) /\ Fault
  /\ \/ Done(r, i, FALSE, t) /\ UNCHANGED wrote
     \/ Done(r, i, FALSE, After(r, i, t)) /\ Wrote(r, i, t)

SkipBaseline(r) ==
  /\ ~Syncs(r) /\ Turn(r, Baseline) /\ failed[r] # {}
  /\ Done(r, Baseline, FALSE, groups[Baseline])
  /\ UNCHANGED <<faults, wrote>>

\* A selected group is read from each target by an access of its own.
ReadTarget(r, i) ==
  /\ Turn(r, i) /\ snap[r][i] = None
  /\ snap' = [snap EXCEPT ![r][i] = groups[i]]
  /\ UNCHANGED <<groups, op, stage, todo, failed, faults, wrote, quiet, agreed>>

ReadTargetFails(r, i) ==
  /\ Turn(r, i) /\ snap[r][i] = None /\ Fault
  /\ Done(r, i, FALSE, groups[i])
  /\ UNCHANGED wrote

\* The selected group has id 0 at the target: the target counts as failed.
Spared(r, i) == op[r].kind = "syncOne" /\ \E n \in op[r].names : Immutable(i, n)

SpareTarget(r, i) ==
  /\ Turn(r, i) /\ snap[r][i] # None /\ Spared(r, i)
  /\ Done(r, i, FALSE, groups[i])
  /\ UNCHANGED <<faults, wrote>>

\* The whole plan of a Pi-hole is one access, which stops at the first error.
SyncTo(r, i) ==
  LET t == groups[i]
      p == Plan(r, i)
      src == snap[r][op[r].source]
  IN
  /\ Syncs(r) /\ Turn(r, i) /\ snap[r][i] # None /\ ~Spared(r, i)
  /\ \/ Empty(p) /\ Done(r, i, TRUE, t)
     \/ ~Empty(p) /\ Smooth(p, t) /\ Done(r, i, TRUE, Applied(p, src, t))
     \/ /\ ~Smooth(p, t) \/ \E n \in p.delete : t[n] = None
        /\ \E q \in HalfWay(p) : Done(r, i, FALSE, Applied(q, src, t))
  /\ UNCHANGED <<faults, wrote>>

SyncFails(r, i) ==
  LET p == Plan(r, i) IN
  /\ Syncs(r) /\ Turn(r, i) /\ snap[r][i] # None /\ ~Spared(r, i) /\ ~Empty(p) /\ Fault
  /\ \E q \in HalfWay(p) : Done(r, i, FALSE, Applied(q, snap[r][op[r].source], groups[i]))
  /\ UNCHANGED wrote

-----------------------------------------------------------------------------
Next ==
  \E r \in Requests :
    \/ CreateGroups(r) \/ UpdateGroup(r) \/ UpdateGroupStatus(r) \/ BatchDeleteGroups(r)
    \/ SyncGroups(r) \/ SyncSelectedGroup(r)
    \/ ReadFails(r) \/ Check(r) \/ SkipBaseline(r)
    \/ \E i \in Instances :
         \/ ReadGroupsSnapshot(r, i) \/ Write(r, i) \/ WriteFails(r, i)
         \/ ReadTarget(r, i) \/ ReadTargetFails(r, i) \/ SpareTarget(r, i)
         \/ SyncTo(r, i) \/ SyncFails(r, i)

Spec == Init /\ [][Next]_vars

-----------------------------------------------------------------------------
(***************************************************************************)
(* Properties                                                              *)
(***************************************************************************)
\* The variables have the values the code can give them.
TypeOK ==
  /\ groups \in Immune
  /\ stage \in [Requests -> {"idle", "reading", "refused", "writing", "success", "partial"}]
  /\ \A r \in Requests, i \in Instances : snap[r][i] \in Table \cup {None}
  /\ todo \in [Requests -> SUBSET Instances]
  /\ failed \in [Requests -> SUBSET Instances]
  /\ faults \in 0..MaxFaults
  /\ wrote \in [Requests -> SUBSET Instances]
  /\ quiet \in [Requests -> BOOLEAN]
  /\ agreed \in BOOLEAN

\* A change reaches the baseline only when every other Pi-hole has it: one that
\* another has refused, or whose answer was lost, leaves the baseline as it was,
\* so that a synchronisation takes the change back.
BaselineIsLast ==
  \A r \in Requests : Baseline \in wrote[r] => wrote[r] = Instances

\* The groups a request puts at a Pi-hole, and those it takes away
Adds(r) == CASE op[r].kind = "create" -> op[r].names
             [] op[r].kind \in {"update", "toggle"} -> {op[r].new} \ {op[r].old}
             [] OTHER -> {}
Removes(r) == CASE op[r].kind = "delete" -> op[r].names
                [] op[r].kind \in {"update", "toggle"} -> {op[r].old} \ {op[r].new}
                [] OTHER -> {}

\* A request deletes the group along with others, another one takes it away as well,
\* and a third one puts it there.
Tangled(n) ==
  \E d, q, c \in Requests :
    /\ q # d /\ op[d].kind = "delete" /\ op[d].names # {n}
    /\ n \in Removes(d) \cap Removes(q) \cap Adds(c)

\* If the Pi-holes have groups of the same names, changes that users make at the
\* same time leave them so, unless one of the users is told of a failure: of two
\* that are in conflict, one is refused by the first Pi-hole it comes to.  Only a
\* deletion of several groups is not refused where one of them is gone already: if
\* that one is created again meanwhile, it may be back at some Pi-holes and not at
\* others.
ConflictsAreReported ==
  (/\ agreed
   /\ \A r \in Requests : stage[r] \in {"idle", "refused", "success"}
   /\ \A r \in Requests : stage[r] = "success" => ~Syncs(r))
  => \A n \in Names : Tangled(n) \/ \A i \in Instances :
       (groups[i][n] = None) <=> (groups[Baseline][n] = None)

\* The groups a synchronisation makes equal: it leaves alone the group with id 0 at
\* its source, and does not take away the one with id 0 at a target.
Shares(r, i, n) ==
  /\ i \in op[r].targets /\ n \in op[r].names /\ ~Immutable(op[r].source, n)
  /\ Immutable(i, n) => groups[op[r].source][n] # None

\* A synchronisation that succeeds, and met no other change, has given every Pi-hole
\* it was for the groups of its source, whatever failed requests had left there: the
\* first of them still have those groups when the last one gets them.
SyncConverges ==
  [][\A r \in Requests :
       Syncs(r) /\ quiet'[r] /\ stage[r] = "writing" /\ stage'[r] = "success" =>
         \A i \in Instances, n \in Names :
           Shares(r, i, n) => groups'[i][n] = groups'[op[r].source][n]]_vars

\* The group with id 0 is never taken away, by none of the ways that lead to a group,
\* and never changed but by a synchronisation whose baseline has another group of its
\* name: where all Pi-holes call it the same, it stays as it is.
DefaultIsKept ==
  [][\A i \in Instances :
       LET n == Default[i] IN
       \/ groups'[i][n] = groups[i][n]
       \/ /\ groups'[i][n] # None /\ ~Immutable(Baseline, n)
          /\ \E r \in Requests : /\ stage[r] = "writing" /\ op[r].kind = "syncAll"
                                 /\ groups'[i][n] = snap[r][Baseline][n]]_vars

\* A change reaches the baseline last, and only if it is everywhere.
GroupInv == TypeOK /\ BaselineIsLast
=============================================================================
