--------------------------- MODULE QueryMemberships --------------------------
(***************************************************************************)
(* QueryGroupMembershipsService, while ClientsService is at work: which    *)
(* client is in which group at which Pi-hole, kept here to find the        *)
(* queries of a group.                                                     *)
(*                                                                         *)
(* A refresh reads the baseline and then the others all at once.  The      *)
(* groups of the baseline become the table ClientGroup, the clients of     *)
(* every Pi-hole that answered the table ClientGroupMembership, with the   *)
(* baseline's id of the group that has the same name there.  It stores     *)
(* them in one transaction at READ COMMITTED, and two of these may         *)
(* overlap.  The group with the id 0 is at every baseline and left out.    *)
(***************************************************************************)
EXTENDS ManagedClients

CONSTANTS Refreshes,  \* refreshes asked for by users: each one is made once
          OldGroups,  \* what earlier refreshes may have left in ClientGroup
          MaxStarted  \* bound on the requests and refreshes together

GroupTable == {t \in [Ids -> Names \cup {None}] :
                 \A x, y \in Ids : x # y /\ t[x] # None => t[x] # t[y]}

ASSUME IdsAssumption == Ids \subseteq Nat
ASSUME OldGroupsAssumption == OldGroups \subseteq GroupTable

Membership == [at : Instances, client : Clients, group : Ids]

VARIABLES group,   \* ClientGroup: the name of each id, or None
          member,  \* ClientGroupMembership
          step,    \* where each refresh stands
          shot,    \* what it has read from each Pi-hole, or None
          missed,  \* the Pi-holes it could not read
          doomed,  \* the rows it has found to delete, and has yet to
          gone,    \* those it has deleted, unless it is undone
          late,    \* history: the groups others stored since it looked for such rows
          changed, \* history: the Pi-holes changed since it began
          last     \* history: the refresh that stored each Pi-hole's memberships, or
                   \* None if a later one had an older list of groups

tables == <<group, member, last>>
deletions == <<doomed, gone, late>>
own == <<tables, deletions, step, shot, missed, changed>>

InitRefreshes ==
  /\ Init
  /\ group \in OldGroups /\ member = {}
  /\ step = [q \in Refreshes |-> "idle"]
  /\ shot = [q \in Refreshes |-> [i \in Instances |-> None]]
  /\ missed = [q \in Refreshes |-> {}]
  /\ doomed = [q \in Refreshes |-> {}]
  /\ gone = [q \in Refreshes |-> {}]
  /\ late = [q \in Refreshes |-> {}]
  /\ changed = [q \in Refreshes |-> {}]
  /\ last = [i \in Instances |-> None]

To(q, s) == step' = [step EXCEPT ![q] = s]

\* Only the count of faults is shared with the requests.
Rest == UNCHANGED <<pihole, alias, request, regroups, history, changed>>

Begin(q) ==
  /\ step[q] = "idle"
  /\ To(q, "baseline")
  /\ UNCHANGED <<faults, tables, deletions, shot, missed>> /\ Rest

\* The others are asked only after the baseline has answered.
Asked(q) == IF step[q] = "baseline" THEN {Baseline}
            ELSE IF step[q] = "others" THEN Instances \ {Baseline} ELSE {}

ReadInstanceSnapshot(q, i) ==
  /\ i \in Asked(q) /\ shot[q][i] = None /\ i \notin missed[q]
  /\ shot' = [shot EXCEPT ![q][i] = pihole[i]]
  /\ To(q, "others")
  /\ UNCHANGED <<faults, tables, deletions, missed>> /\ Rest

\* Without the baseline nothing is stored.
ReadSnapshotFails(q, i) ==
  /\ i \in Asked(q) /\ shot[q][i] = None /\ i \notin missed[q] /\ Fault
  /\ missed' = [missed EXCEPT ![q] = @ \cup {i}]
  /\ To(q, IF i = Baseline THEN "failed" ELSE "others")
  /\ UNCHANGED <<tables, deletions, shot>> /\ Rest

-----------------------------------------------------------------------------
(***************************************************************************)
(* The transaction: it looks for the groups that are not at the baseline   *)
(* and deletes them one by one, with their memberships, and then writes    *)
(* what it has read.  Every refresh writes the group with the id 0 first   *)
(* and holds its row to the end, so that no two are writing at once.       *)
(***************************************************************************)
\* The groups of the baseline, by their ids
Canonical(q) ==
  [id \in Ids |-> IF \E n \in Names : shot[q][Baseline].groups[n] = id
                  THEN CHOOSE n \in Names : shot[q][Baseline].groups[n] = id ELSE None]

Answered(q) == {i \in Instances : shot[q][i] # None}

\* Slip: the ids of every Pi-hole are taken for the baseline's.
Slip_MembershipsById(q) ==
  {m \in Membership :
     /\ m.at \in Answered(q) /\ Canonical(q)[m.group] # None
     /\ shot[q][m.at].clients[m.client] # None
     /\ m.group \in shot[q][m.at].clients[m.client].groups}

\* prepareInstanceCache: by the name the group has at the Pi-hole
Memberships(q) ==
  {m \in Membership :
     LET p == shot[q][m.at]
         name == Canonical(q)[m.group]
     IN  /\ m.at \in Answered(q) /\ name # None
         /\ p.clients[m.client] # None
         /\ p.groups[name] # None /\ p.groups[name] \in p.clients[m.client].groups}

Scan(q) ==
  /\ step[q] = "others" /\ Answered(q) \cup missed[q] = Instances
  /\ To(q, "storing")
  /\ doomed' = [doomed EXCEPT ![q] =
                  {id \in Ids : group[id] # None /\ Canonical(q)[id] = None}]
  /\ UNCHANGED <<faults, tables, gone, late, shot, missed>> /\ Rest

\* A row that another refresh has deleted has to wait for what becomes of that.
Purge(q, id) ==
  /\ step[q] = "storing" /\ id \in doomed[q]
  /\ \A p \in Refreshes : id \notin gone[p]
  /\ doomed' = [doomed EXCEPT ![q] = @ \ {id}]
  /\ gone' = [gone EXCEPT ![q] = @ \cup {id}]
  /\ UNCHANGED <<faults, tables, late, step, shot, missed>> /\ Rest

\* The rows as this refresh sees them
Left(q) == [id \in Ids |-> IF id \in gone[q] THEN None ELSE group[id]]

\* Names are unique, and the groups are written one by one in the order of their ids.
Clash(q) ==
  \E x, y \in Ids :
    /\ x # y /\ Canonical(q)[x] # None /\ Canonical(q)[x] = Left(q)[y]
    /\ x < y \/ Canonical(q)[y] = None

\* Another refresh has deleted a row that this one writes, or one with such a name.
Blocked(q) ==
  \E p \in Refreshes \ {q} : \E x \in Ids, y \in gone[p] :
    Canonical(q)[x] # None /\ (x = y \/ Canonical(q)[x] = group[y])

\* A group that nobody had stored when it looked for those to delete stays.
Groups(q) ==
  [id \in Ids |-> IF Canonical(q)[id] # None THEN Canonical(q)[id] ELSE Left(q)[id]]

\* The memberships at the Pi-holes that were not read
Kept(q) == {m \in member : m.at \notin Answered(q) /\ m.group \notin gone[q]}

Undo(q) ==
  /\ To(q, "failed")
  /\ doomed' = [doomed EXCEPT ![q] = {}]
  /\ gone' = [gone EXCEPT ![q] = {}]
  /\ UNCHANGED <<tables, late>>

\* The groups are written, then the memberships, and the transaction is committed.
Store(q) ==
  /\ step[q] = "storing" /\ doomed[q] = {} /\ ~Blocked(q)
  /\ IF Clash(q) THEN Undo(q)
     ELSE /\ To(q, "stored")
          /\ group' = Groups(q)
          /\ member' = Memberships(q) \cup Kept(q)
          /\ last' = [i \in Instances |-> IF i \in Answered(q) THEN q
                                        ELSE IF Baseline \in changed[q] THEN None
                                        ELSE last[i]]
          /\ doomed' = [p \in Refreshes |-> doomed[p] \ gone[q]]
          /\ gone' = [gone EXCEPT ![q] = {}]
          /\ late' = [p \in Refreshes |->
                        IF p # q /\ step[p] = "storing"
                        THEN late[p] \cup {id \in Ids : Canonical(q)[id] # None}
                        ELSE late[p]]
  /\ UNCHANGED <<faults, shot, missed>> /\ Rest

\* Two refreshes that wait for each other, or one that takes too long
Abort(q) ==
  /\ step[q] = "storing"
  /\ Undo(q)
  /\ UNCHANGED <<faults, shot, missed>> /\ Rest

-----------------------------------------------------------------------------
Started == Cardinality({r \in Requests : stage[r] # "idle"})
             + Cardinality({q \in Refreshes : step[q] # "idle"})

NextRefreshes ==
  \/ \E q \in Refreshes :
       \/ Started < MaxStarted /\ Begin(q)
       \/ Scan(q) \/ Store(q) \/ Abort(q)
       \/ \E id \in Ids : Purge(q, id)
       \/ \E i \in Instances : ReadInstanceSnapshot(q, i) \/ ReadSnapshotFails(q, i)
  \/ /\ \/ Next
        \/ \E q \in Refreshes, i \in Instances : step[q] # "idle" /\ Regroup(i)
     /\ changed' = [q \in Refreshes |->
                      IF step[q] = "idle" THEN {}
                      ELSE changed[q] \cup {i \in Instances : pihole'[i] # pihole[i]}]
     /\ UNCHANGED <<tables, deletions, step, shot, missed>>
     /\ Started' <= MaxStarted

SpecRefreshes == InitRefreshes /\ [][NextRefreshes]_<<vars, own>>

-----------------------------------------------------------------------------
(***************************************************************************)
(* Properties                                                              *)
(***************************************************************************)
\* The tables have the types of the schema: no two groups of one name, and no
\* membership of a group that has no row, although the groups of the baseline come and
\* go and a refresh leaves the Pi-holes alone that it could not read.
TablesOK ==
  /\ group \in GroupTable
  /\ member \subseteq Membership
  /\ \A m \in member : group[m.group] # None
  /\ step \in [Refreshes -> {"idle", "baseline", "others", "storing", "stored", "failed"}]
  /\ doomed \in [Refreshes -> SUBSET Ids] /\ gone \in [Refreshes -> SUBSET Ids]
  /\ late \in [Refreshes -> SUBSET Ids]

\* refreshGroupMemberships: as long as neither the baseline nor the Pi-hole itself has
\* changed since the refresh began that stored its memberships, a client there is listed
\* under a group exactly if it is in the group of the same name, whatever its id.  A
\* later refresh that could not read the Pi-hole does no harm, unless it had read the
\* baseline before its groups became what they are: it then deletes the memberships of
\* the groups that it does not know.
MembershipsAreTrue ==
  \A i \in Instances : last[i] # None /\ {i, Baseline} \cap changed[last[i]] = {} =>
    \A c \in Clients, id \in Ids :
      [at |-> i, client |-> c, group |-> id] \in member <=>
        \E n \in Names :
          /\ pihole[Baseline].groups[n] = id
          /\ pihole[i].clients[c] # None /\ pihole[i].groups[n] # None
          /\ pihole[i].groups[n] \in pihole[i].clients[c].groups

\* The groups offered as filters are the baseline's, as long as it has not changed since
\* the last refresh that was stored began; but a group may be left over that another
\* refresh stored while this one was between its deletions and its end.
FiltersAreTrue ==
  last[Baseline] # None /\ Baseline \notin changed[last[Baseline]] =>
    \A id \in Ids :
      IF \E n \in Names : pihole[Baseline].groups[n] = id
      THEN group[id] # None /\ pihole[Baseline].groups[group[id]] = id
      ELSE group[id] = None \/ id \in late[last[Baseline]]

\* The two tables are well formed and say what the Pi-holes said last.
CacheInv == TablesOK /\ MembershipsAreTrue /\ FiltersAreTrue
=============================================================================
