--------------------------- MODULE ManagedClients ---------------------------
(***************************************************************************)
(* ClientsService: the clients of the Pi-holes, their groups and comments, *)
(* and the names that users give them here.                                *)
(*                                                                         *)
(* A user chooses groups by the ids they have at the baseline.  The same   *)
(* group has other ids at the other Pi-holes, so the ids become names when *)
(* the baseline is read, and ids again at each Pi-hole.  A Pi-hole is read *)
(* in one access and written to in the next one.                           *)
(*                                                                         *)
(* An alias is kept here, in the table ClientDevice, that a mere listing   *)
(* of the clients writes back.  Tags are treated alike and left out.       *)
(***************************************************************************)
EXTENDS Naturals, FiniteSets

CONSTANTS Instances, Baseline,
          Clients,
          Names,      \* names of groups
          Ids,        \* ids of groups
          Comments,
          Blank,      \* the empty comment
          Aliases,
          Starts,     \* the groups and clients a Pi-hole may have at first
          Saves,      \* what users may save, and
          Updates,    \* for one client at all Pi-holes
          Requests,   \* requests of users: each one is made once
          MaxFaults,   \* bound on the accesses that fail
          MaxRegroups, \* bound on the changes of groups meanwhile
          None

Client == [groups : SUBSET Ids, comment : Comments]
Pihole == [groups : [Names -> Ids \cup {None}], clients : [Clients -> Client \cup {None}]]

\* None means that the groups, the comment or the alias are to stay.
Save == [kind : {"save"}, clients : (SUBSET Clients) \ {{}},
         groups : ((SUBSET Ids) \ {{}}) \cup {None}, comment : Comments \cup {None},
         alias : Aliases \cup {None}, to : (SUBSET Instances) \ {{}}]

Update == [kind : {"update"}, clients : {{c} : c \in Clients},
           groups : (SUBSET Ids) \cup {None}, to : {Instances}]

ASSUME ConstantsAssumption ==
  /\ Baseline \in Instances /\ Blank \in Comments
  /\ None \notin Comments \cup Aliases \cup Ids \cup Names
  /\ Starts \subseteq Pihole /\ Saves \subseteq Save
  /\ Updates \subseteq Update

\* The sentinel is neither a set of names or ids nor a row.
ASSUME NoneAssumption ==
  /\ \A ns \in SUBSET Names : None # ns
  /\ \A ids \in SUBSET Ids : None # ids
  /\ None \notin Client /\ None \notin Pihole

\* A group has one name.
Distinct(p) == \A m, n \in Names : p.groups[m] = p.groups[n] /\ m # n => p.groups[m] = None

ASSUME StartsAssumption == \A p \in Starts : Distinct(p)
ASSUME BoundsAssumption == MaxFaults \in Nat /\ MaxRegroups \in Nat

VARIABLES pihole,  \* the groups and clients of each Pi-hole
          alias,   \* the alias of each client, or None
          op,      \* what each request asks for
          stage,   \* where it stands
          want,    \* the names and comments it is to bring about
          snap,    \* what it has read from the Pi-hole it is at, or None
          seen,    \* the aliases a listing has read
          todo,    \* the Pi-holes it has yet to deal with
          failed,  \* those that have failed
          faults, regroups,
          moved,   \* history: the Pi-holes changed by others since it began
          wrote,   \* history: it has changed something
          said,    \* history: the last alias saved for each client
          stale    \* history: the clients of a save between a listing's read and write

request == <<op, stage, want, snap, seen, todo, failed>>
history == <<moved, wrote, said, stale>>
vars == <<pihole, alias, request, faults, regroups, history>>

Nothing == [kind |-> "none"]
NoWant == [c \in {} |-> None]

Init ==
  /\ pihole \in [Instances -> Starts]
  /\ alias = [c \in Clients |-> None]
  /\ op = [r \in Requests |-> Nothing]
  /\ stage = [r \in Requests |-> "idle"]
  /\ want = [r \in Requests |-> NoWant]
  /\ snap = [r \in Requests |-> None]
  /\ seen = [r \in Requests |-> alias]
  /\ todo = [r \in Requests |-> {}]
  /\ failed = [r \in Requests |-> {}]
  /\ faults = 0 /\ regroups = 0
  /\ moved = [r \in Requests |-> {}]
  /\ wrote = [r \in Requests |-> FALSE]
  /\ said = alias /\ stale = {}

Fault == faults < MaxFaults /\ faults' = faults + 1
Go(r, s) == stage' = [stage EXCEPT ![r] = s]

\* A Pi-hole changes, by a request or, if there is none, by others.
Becomes(i, p, by) ==
  /\ pihole' = [pihole EXCEPT ![i] = p]
  /\ moved' = [r \in Requests |->
                 IF {r} # by /\ stage[r] # "idle" /\ p # pihole[i]
                 THEN moved[r] \cup {i} ELSE moved[r]]

-----------------------------------------------------------------------------
(***************************************************************************)
(* The requests                                                            *)
(***************************************************************************)
Wants(r, what) == want' = [want EXCEPT ![r] = what]

\* What is known without a look at the baseline
Given(what) == [c \in what.clients |->
                  [names |-> IF what.groups = {} THEN {} ELSE None,
                   comment |-> IF what.kind = "save" THEN what.comment ELSE None]]

Ask(r, what, s) ==
  /\ stage[r] = "idle"
  /\ op' = [op EXCEPT ![r] = what]
  /\ Go(r, s)
  /\ todo' = [todo EXCEPT ![r] = what.to]
  /\ UNCHANGED <<pihole, snap, seen, failed, faults, regroups, moved, stale>>

Stays == UNCHANGED <<alias, wrote, said>>

\* Slip: an alias that is not given is taken for none.
Slip_PersistAlways(r, what) ==
  /\ alias' = [c \in Clients |-> IF c \in what.clients THEN what.alias ELSE alias[c]]
  /\ said' = [c \in Clients |->
                IF c \in what.clients /\ what.alias # None THEN what.alias ELSE said[c]]
  /\ wrote' = [wrote EXCEPT ![r] = TRUE]
  /\ UNCHANGED stale

\* The table ClientDevice: an alias is written only if one is given.
Persist(r, what) ==
  IF what.alias = None THEN Stays /\ UNCHANGED stale
  ELSE /\ alias' = [c \in Clients |-> IF c \in what.clients THEN what.alias ELSE alias[c]]
       /\ said' = [c \in Clients |-> IF c \in what.clients THEN what.alias ELSE said[c]]
       /\ wrote' = [wrote EXCEPT ![r] = TRUE]
       /\ stale' = IF \E q \in Requests : stage[q] = "listed" THEN stale \cup what.clients
                   ELSE stale

SaveClients(r) ==
  \E what \in Saves :
    /\ Ask(r, what, IF what.groups = None THEN "saving" ELSE "reading")
    /\ Wants(r, Given(what)) /\ Stays

UpdateClient(r) ==
  \E what \in Updates :
    /\ Ask(r, what, IF what.groups \in {None, {}} THEN "writing" ELSE "reading")
    /\ Wants(r, Given(what)) /\ Stays

SyncClients(r) ==
  \E what \in [kind : {"sync"}, to : (SUBSET (Instances \ {Baseline})) \ {{}}] :
    Ask(r, what, "reading") /\ Stays /\ UNCHANGED want

\* The devices that the Pi-holes have seen are some of the clients.
ListClients(r) ==
  \E what \in [kind : {"list"}, clients : (SUBSET Clients) \ {{}}, to : {{}}] :
    Ask(r, what, "listing") /\ Stays /\ UNCHANGED want

-----------------------------------------------------------------------------
(***************************************************************************)
(* A listing                                                               *)
(***************************************************************************)
LoadSupportEntries(r) ==
  /\ stage[r] = "listing"
  /\ Go(r, "listed")
  /\ seen' = [seen EXCEPT ![r] = alias]
  /\ UNCHANGED <<pihole, alias, op, want, snap, todo, failed, faults, regroups, history>>

PersistSupportEntries(r) ==
  /\ stage[r] = "listed"
  /\ Go(r, "success")
  /\ alias' = [c \in Clients |-> IF c \in op[r].clients THEN seen[r][c] ELSE alias[c]]
  /\ UNCHANGED <<pihole, op, want, snap, seen, todo, failed, faults, regroups, history>>

-----------------------------------------------------------------------------
(***************************************************************************)
(* The baseline                                                            *)
(***************************************************************************)
NamesOf(p, ids) == {n \in Names : p.groups[n] \in ids}
AllNamed(p, ids) == \A id \in ids : \E n \in Names : p.groups[n] = id

Refuse(r) ==
  /\ Go(r, "refused")
  /\ todo' = [todo EXCEPT ![r] = {}]
  /\ UNCHANGED want

\* Every id must be one of a group at the baseline.
ReadBaseline(r) ==
  LET p == pihole[Baseline]
      here == {c \in Clients : p.clients[c] # None}
  IN
  /\ stage[r] = "reading"
  /\ IF op[r].kind = "sync"
     THEN /\ Go(r, "writing")
          /\ Wants(r, [c \in here |-> [names |-> NamesOf(p, p.clients[c].groups),
                                       comment |-> p.clients[c].comment]])
          /\ UNCHANGED todo
     ELSE IF AllNamed(p, op[r].groups)
     THEN /\ Go(r, IF op[r].kind = "save" THEN "saving" ELSE "writing")
          /\ Wants(r, [c \in op[r].clients |->
                         [want[r][c] EXCEPT !.names = NamesOf(p, op[r].groups)]])
          /\ UNCHANGED todo
     ELSE Refuse(r)
  /\ UNCHANGED <<pihole, alias, op, snap, seen, failed, faults, regroups, history>>

ReadBaselineFails(r) ==
  /\ stage[r] = "reading" /\ Fault
  /\ Refuse(r)
  /\ UNCHANGED <<pihole, alias, op, snap, seen, failed, regroups, history>>

\* With neither groups nor a comment the Pi-holes are left alone.
SaveMetadata(r) ==
  LET idle == op[r].groups = None /\ op[r].comment = None IN
  /\ stage[r] = "saving"
  /\ Persist(r, op[r])
  /\ Go(r, IF idle THEN "success" ELSE "writing")
  /\ todo' = IF idle THEN [todo EXCEPT ![r] = {}] ELSE todo
  /\ UNCHANGED <<pihole, op, want, snap, seen, failed, faults, regroups, moved>>

-----------------------------------------------------------------------------
(***************************************************************************)
(* The Pi-holes, one after the other, the baseline first                   *)
(***************************************************************************)
\* The baseline comes first, and the others in a fixed order, that of their names.
Upcoming(r) == IF Baseline \in todo[r] THEN Baseline ELSE CHOOSE i \in todo[r] : TRUE

Turn(r, i) == stage[r] = "writing" /\ i \in todo[r] /\ i = Upcoming(r)

Done(r, i, ok) ==
  /\ todo' = [todo EXCEPT ![r] = @ \ {i}]
  /\ failed' = IF ok THEN failed ELSE [failed EXCEPT ![r] = @ \cup {i}]
  /\ snap' = [snap EXCEPT ![r] = None]
  /\ IF todo[r] # {i} THEN UNCHANGED stage
     ELSE Go(r, IF failed'[r] = {} THEN "success" ELSE "partial")
  /\ UNCHANGED <<alias, op, want, seen, regroups, said, stale>>

ReadInstance(r, i) ==
  /\ Turn(r, i) /\ snap[r] = None
  /\ snap' = [snap EXCEPT ![r] = pihole[i]]
  /\ UNCHANGED <<pihole, alias, op, stage, want, seen, todo, failed, faults, regroups, history>>

ReadInstanceFails(r, i) ==
  /\ Turn(r, i) /\ snap[r] = None /\ Fault
  /\ Done(r, i, FALSE)
  /\ UNCHANGED <<pihole, moved, wrote>>

\* Slip: the ids of the baseline are used everywhere.
Slip_NextById(r, c) ==
  LET now == snap[r].clients[c]
      w == want[r][c]
  IN  [groups |-> IF w.names # None /\ op[r].kind # "sync" THEN op[r].groups
                  ELSE IF w.names # None THEN {snap[r].groups[n] : n \in w.names}
                  ELSE IF now = None THEN {} ELSE now.groups,
       comment |-> IF w.comment # None THEN w.comment
                   ELSE IF now = None THEN Blank ELSE now.comment]

\* Slip: a comment that is not given is taken for none.
Slip_NextBlank(r, c) ==
  LET now == snap[r].clients[c]
      w == want[r][c]
  IN  [groups |-> IF w.names # None THEN {snap[r].groups[n] : n \in w.names}
                  ELSE IF now = None THEN {} ELSE now.groups,
       comment |-> IF w.comment # None THEN w.comment ELSE Blank]

\* What a client is to be at the Pi-hole that was read
NextClient(r, c) ==
  LET now == snap[r].clients[c]
      w == want[r][c]
  IN  [groups |-> IF w.names # None THEN {snap[r].groups[n] : n \in w.names}
                  ELSE IF now = None THEN {} ELSE now.groups,
       comment |-> IF w.comment # None THEN w.comment
                   ELSE IF now = None THEN Blank ELSE now.comment]

\* The clients with a group that the Pi-hole does not have
Lacking(r) ==
  {c \in DOMAIN want[r] :
     want[r][c].names # None /\ \E n \in want[r][c].names : snap[r].groups[n] = None}

\* Those it will refuse, because of what has changed since it was read: it creates none
\* twice, and knows a group no more that was deleted.
Refused(r, i) ==
  LET now == pihole[i] IN
  {c \in DOMAIN want[r] \ Lacking(r) :
     \/ snap[r].clients[c] = None /\ now.clients[c] # None
     \/ ~AllNamed(now, NextClient(r, c).groups)}

\* A client that was already as wanted is not sent.
Unlike(r) == {c \in DOMAIN want[r] \ Lacking(r) : snap[r].clients[c] # NextClient(r, c)}
Sent(r, i) == Unlike(r) \ Refused(r, i)

Apply(r, i, some) ==
  /\ Becomes(i, [pihole[i] EXCEPT !.clients =
                   [c \in Clients |-> IF c \in some THEN NextClient(r, c) ELSE @[c]]], {r})
  /\ wrote' = [wrote EXCEPT ![r] = @ \/ pihole' # pihole]

\* A save needs all groups before the first client is sent, a synchronisation those of
\* one client after the other; both stop at the first error.
Halts(r) == op[r].kind # "sync" /\ Lacking(r) # {}

Write(r, i) ==
  /\ Turn(r, i) /\ snap[r] # None
  /\ IF Lacking(r) = {} /\ Unlike(r) = Sent(r, i) THEN Apply(r, i, Sent(r, i)) /\ Done(r, i, TRUE)
     ELSE /\ \E some \in SUBSET Sent(r, i) : (Halts(r) => some = {}) /\ Apply(r, i, some)
          /\ Done(r, i, FALSE)
  /\ UNCHANGED faults

WriteFails(r, i) ==
  /\ Turn(r, i) /\ snap[r] # None /\ ~Halts(r) /\ Fault
  /\ \E some \in SUBSET Sent(r, i) : Apply(r, i, some)
  /\ Done(r, i, FALSE)

\* Meanwhile a group gets another name, or two exchange theirs, or one is deleted or
\* created, as GroupsService does at one Pi-hole after the other.
Regroup(i) ==
  LET p == pihole[i]
      renamed(m, n) == [p.groups EXCEPT ![m] = p.groups[n], ![n] = p.groups[m]]
  IN
  /\ regroups < MaxRegroups /\ regroups' = regroups + 1
  /\ \E n \in Names :
       \/ /\ p.groups[n] # None
          /\ \/ \E m \in Names \ {n} : Becomes(i, [p EXCEPT !.groups = renamed(m, n)], {})
             \/ Becomes(i, [groups |-> [p.groups EXCEPT ![n] = None],
                            clients |-> [c \in Clients |->
                              IF p.clients[c] = None THEN None
                              ELSE [p.clients[c] EXCEPT !.groups = @ \ {p.groups[n]}]]], {})
       \/ /\ p.groups[n] = None
          /\ \E id \in Ids \ {p.groups[m] : m \in Names} :
               Becomes(i, [p EXCEPT !.groups[n] = id], {})
  /\ UNCHANGED <<alias, request, faults, wrote, said, stale>>

Running(r) == stage[r] \in {"saving", "writing"}

-----------------------------------------------------------------------------
Next ==
  \/ \E r \in Requests :
       \/ SaveClients(r) \/ UpdateClient(r) \/ SyncClients(r) \/ ListClients(r)
       \/ LoadSupportEntries(r) \/ PersistSupportEntries(r)
       \/ ReadBaseline(r) \/ ReadBaselineFails(r) \/ SaveMetadata(r)
       \/ \E i \in Instances : \/ ReadInstance(r, i) \/ ReadInstanceFails(r, i)
                               \/ Write(r, i) \/ WriteFails(r, i)
  \/ \E r \in Requests, i \in Instances : Running(r) /\ Regroup(i)

Spec == Init /\ [][Next]_vars

-----------------------------------------------------------------------------
(***************************************************************************)
(* Properties                                                              *)
(***************************************************************************)
Over == {"refused", "success", "partial"}

\* The variables have the values the code can give them: what is sent has ids only, and
\* a request ends well only if no Pi-hole failed.
TypeOK ==
  /\ pihole \in [Instances -> Pihole]
  /\ alias \in [Clients -> Aliases \cup {None}]
  /\ stage \in [Requests -> {"idle", "listing", "listed", "reading", "saving", "writing"} \cup Over]
  /\ \A r \in Requests : /\ snap[r] = None \/ stage[r] = "writing"
                         /\ stage[r] \in Over => todo[r] = {}
                         /\ stage[r] = "partial" <=> failed[r] # {} /\ todo[r] = {}
  /\ todo \in [Requests -> SUBSET Instances] /\ failed \in [Requests -> SUBSET Instances]
  /\ faults \in 0..MaxFaults /\ regroups \in 0..MaxRegroups

\* The Pi-holes a request counts as successful
Claimed(r) ==
  IF stage[r] \in {"writing", "success", "partial"} THEN op[r].to \ (todo[r] \cup failed[r])
  ELSE {}

\* saveClients, updateClient and syncClients: at a Pi-hole counted as successful each
\* client has the groups of the same names as those chosen at the baseline, or as the
\* baseline's own client, and the comment; whatever ids the groups have there, unless
\* somebody else has changed that Pi-hole since the request began.
GroupsGoByName ==
  \A r \in Requests : \A i \in Claimed(r) \ moved[r], c \in DOMAIN want[r] :
    LET w == want[r][c]
        now == pihole[i].clients[c]
    IN  w.names # None \/ w.comment # None =>
          /\ now # None
          /\ w.names # None => NamesOf(pihole[i], now.groups) = w.names
          /\ w.comment # None => now.comment = w.comment

\* applyClientsToInstance: what a request says nothing about stays as it was, at every
\* Pi-hole that nobody else has changed since the request began.  A change after the
\* request's reading can be lost; one before it is kept, but is left out here too.
KeepsTheRest ==
  [][\A r \in Requests : \A i \in (todo[r] \ todo'[r]) \ moved[r] :
       \A c \in Clients :
         LET old == pihole[i].clients[c]
             new == pihole'[i].clients[c]
         IN  old # None =>
               /\ c \notin DOMAIN want[r] => new = old
               /\ c \in DOMAIN want[r] =>
                    /\ want[r][c].names = None => new.groups = old.groups
                    /\ want[r][c].comment = None => new.comment = old.comment]_vars

\* persistRequestedSupportMetadata and persistSupportEntries: a client has the alias
\* saved last; a listing takes none away, unless it has read before that save.
AliasIsKept == \A c \in Clients : alias[c] = said[c] \/ c \in stale

\* readBaselineGroups comes before persistRequestedSupportMetadata: a request that is
\* refused has changed nothing, no alias either.
RefusedIsNothing == \A r \in Requests : stage[r] = "refused" => ~wrote[r]

\* The aliases are those that were saved, by requests that were not refused.
ClientInv == TypeOK /\ AliasIsKept /\ RefusedIsNothing
=============================================================================
