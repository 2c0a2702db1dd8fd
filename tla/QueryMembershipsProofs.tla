------------------------ MODULE QueryMembershipsProofs ------------------------
(***************************************************************************)
(* Theorems about ManagedClients and QueryMemberships, which extends it,   *)
(* for every set of Pi-holes, clients, groups, requests and refreshes, and *)
(* any number of accesses that fail and of groups that change meanwhile.   *)
(***************************************************************************)
EXTENDS QueryMemberships, TLAPS

-----------------------------------------------------------------------------
(***************************************************************************)
(* The inductive invariant of the requests                                 *)
(***************************************************************************)
Wish == [names : (SUBSET Names) \cup {None}, comment : Comments \cup {None}]
Wishes == UNION {[cs -> Wish] : cs \in SUBSET Clients}
Aliased == [Clients -> Aliases \cup {None}]
Stages == {"idle", "listing", "listed", "reading", "saving", "writing"} \cup Over

TablesTyped ==
  /\ pihole \in [Instances -> Pihole]
  /\ \A i \in Instances : Distinct(pihole[i])
  /\ faults \in 0..MaxFaults /\ regroups \in 0..MaxRegroups

AliasesTyped ==
  /\ alias \in Aliased /\ said \in Aliased /\ stale \subseteq Clients
  /\ seen \in [Requests -> Aliased]

RequestsTyped ==
  /\ stage \in [Requests -> Stages]
  /\ want \in [Requests -> Wishes]
  /\ snap \in [Requests -> Pihole \cup {None}]
  /\ todo \in [Requests -> SUBSET Instances]
  /\ failed \in [Requests -> SUBSET Instances]
  /\ moved \in [Requests -> SUBSET Instances]
  /\ wrote \in [Requests -> BOOLEAN]
  /\ DOMAIN op = Requests

\* What a request is about, and how far it has come, goes with its stage.
Asks(r) ==
  /\ stage[r] \in {"listing", "listed"} => op[r].to = {} /\ op[r].clients \subseteq Clients
  /\ stage[r] = "reading" /\ op[r].kind # "sync" =>
       /\ op[r].kind \in {"save", "update"}
       /\ op[r].clients \subseteq Clients /\ op[r].groups \in SUBSET Ids
       /\ want[r] = Given(op[r])
       /\ op[r].kind = "save" => op[r] \in Save
  /\ stage[r] = "saving" =>
       /\ op[r] \in Save
       /\ op[r].groups = None => want[r] = Given(op[r])

Proceeds(r) ==
  /\ stage[r] \in {"idle", "listing", "listed"} \cup Over => todo[r] = {}
  /\ stage[r] \in {"reading", "saving"} => todo[r] = op[r].to
  /\ stage[r] \in {"writing", "success", "partial"} => op[r].to \subseteq Instances
  /\ stage[r] \in {"reading", "saving", "writing"} => todo[r] # {}
  /\ failed[r] # {} => stage[r] \in {"writing", "partial"}
  /\ stage[r] = "partial" => failed[r] # {}
  /\ snap[r] # None => stage[r] = "writing"
  /\ wrote[r] => stage[r] \in {"writing", "success", "partial"}

\* What a request has read is what the Pi-hole it is at has, unless others changed it.
SnapIsCurrent(r) ==
  snap[r] # None => Upcoming(r) \in moved[r] \/ snap[r] = pihole[Upcoming(r)]

\* The clients at one Pi-hole are as a request wants them.
AsWanted(r, i) ==
  \A c \in DOMAIN want[r] :
    LET w == want[r][c]
        now == pihole[i].clients[c]
    IN  w.names # None \/ w.comment # None =>
          /\ now # None
          /\ w.names # None => NamesOf(pihole[i], now.groups) = w.names
          /\ w.comment # None => now.comment = w.comment

Serves(r) == \A i \in Claimed(r) \ moved[r] : AsWanted(r, i)

\* A listing has read what was saved last, unless a save came after it.
ListingIsCurrent ==
  \A r \in Requests : stage[r] = "listed" =>
    \A c \in Clients : seen[r][c] = said[c] \/ c \in stale

RInv ==
  /\ TablesTyped /\ AliasesTyped /\ RequestsTyped
  /\ \A r \in Requests : Asks(r) /\ Proceeds(r) /\ SnapIsCurrent(r) /\ Serves(r)
  /\ AliasIsKept /\ ListingIsCurrent

-----------------------------------------------------------------------------
(***************************************************************************)
(* The inductive invariant of the refreshes                                *)
(***************************************************************************)
RefreshesTyped ==
  /\ step \in [Refreshes -> {"idle", "baseline", "others", "storing", "stored", "failed"}]
  /\ doomed \in [Refreshes -> SUBSET Ids] /\ gone \in [Refreshes -> SUBSET Ids]
  /\ late \in [Refreshes -> SUBSET Ids]
  /\ shot \in [Refreshes -> [Instances -> Pihole \cup {None}]]
  /\ changed \in [Refreshes -> SUBSET Instances]
  /\ last \in [Instances -> Refreshes \cup {None}]

\* What a refresh has read is what the Pi-hole has, unless it was changed meanwhile.
ShotIsCurrent(q) ==
  /\ step[q] \in {"others", "storing"} => shot[q][Baseline] # None
  /\ step[q] = "idle" => \A i \in Instances : shot[q][i] = None
  /\ \A i \in Instances \ changed[q] : shot[q][i] # None => shot[q][i] = pihole[i]

\* A refresh deletes no group that it has found at the baseline, and of the others it
\* misses only those that were stored after it looked.
Deleting(q) ==
  /\ step[q] # "storing" => doomed[q] = {} /\ gone[q] = {}
  /\ step[q] = "storing" =>
       \A id \in Ids :
         /\ id \in doomed[q] \cup gone[q] => Canonical(q)[id] = None
         /\ Canonical(q)[id] = None /\ group[id] # None =>
              id \in doomed[q] \cup gone[q] \cup late[q]

\* Whoever stored has begun.
StorersBegan == \A i \in Instances : last[i] # None => step[last[i]] # "idle"

IInv ==
  /\ RInv
  /\ RefreshesTyped
  /\ \A q \in Refreshes : ShotIsCurrent(q) /\ Deleting(q)
  /\ StorersBegan
  /\ CacheInv

-----------------------------------------------------------------------------
(***************************************************************************)
(* The steps, and what they leave alone                                    *)
(***************************************************************************)
Acts(r) ==
  \/ SaveClients(r) \/ UpdateClient(r) \/ SyncClients(r) \/ ListClients(r)
  \/ LoadSupportEntries(r) \/ PersistSupportEntries(r)
  \/ ReadBaseline(r) \/ ReadBaselineFails(r) \/ SaveMetadata(r)
  \/ \E i \in Instances : \/ ReadInstance(r, i) \/ ReadInstanceFails(r, i)
                          \/ Write(r, i) \/ WriteFails(r, i)

\* What happens to the requests, with the refreshes at work or not
MovesOn == (\E r \in Requests : Acts(r)) \/ (\E i \in Instances : Regroup(i))

OthersKeep(r) ==
  \A q \in Requests \ {r} :
    /\ op'[q] = op[q] /\ stage'[q] = stage[q] /\ want'[q] = want[q]
    /\ snap'[q] = snap[q] /\ seen'[q] = seen[q] /\ todo'[q] = todo[q]
    /\ failed'[q] = failed[q] /\ wrote'[q] = wrote[q]

\* Whatever others change at a Pi-hole, a request that is under way gets to know.
Watches(r) ==
  stage[r] # "idle" =>
    /\ moved[r] \subseteq moved'[r]
    /\ \A i \in Instances \ moved'[r] : pihole'[i] = pihole[i]

LEMMA BecomesIsWatched ==
  ASSUME TablesTyped, RequestsTyped, NEW i \in Instances, NEW p, NEW by, Becomes(i, p, by)
  PROVE  /\ moved' \in [Requests -> SUBSET Instances]
         /\ \A r \in Requests : {r} # by => Watches(r)
         /\ \A r \in Requests : {r} = by => moved'[r] = moved[r]
         /\ \A j \in Instances \ {i} : pihole'[j] = pihole[j]
         /\ pihole'[i] = p
BY DEF TablesTyped, RequestsTyped, Becomes, Watches

\* The steps of a request at a Pi-hole
LEMMA WriteSteps ==
  ASSUME NEW r \in Requests, NEW i \in Instances, Write(r, i) \/ WriteFails(r, i)
  PROVE  /\ Turn(r, i) /\ snap[r] # None
         /\ \E some \in SUBSET Sent(r, i) :
              /\ Apply(r, i, some)
              /\ \/ /\ Lacking(r) = {} /\ Unlike(r) = Sent(r, i) /\ some = Sent(r, i)
                    /\ Done(r, i, TRUE) /\ faults' = faults
                 \/ Done(r, i, FALSE) /\ (faults' = faults \/ Fault)
<1>1. CASE Write(r, i) /\ Lacking(r) = {} /\ Unlike(r) = Sent(r, i)
  BY <1>1 DEF Write
<1>2. CASE Write(r, i) /\ ~(Lacking(r) = {} /\ Unlike(r) = Sent(r, i))
  BY <1>2 DEF Write
<1>3. CASE WriteFails(r, i)
  BY <1>3 DEF WriteFails
<1>4. QED
  BY <1>1, <1>2, <1>3

LEMMA ActsKeep ==
  ASSUME RequestsTyped, AliasesTyped, NEW r \in Requests, Acts(r)
  PROVE  OthersKeep(r)
<1> USE DEF RequestsTyped, AliasesTyped, OthersKeep
<1>1. CASE SaveClients(r) \/ UpdateClient(r) \/ SyncClients(r) \/ ListClients(r)
  BY <1>1 DEF SaveClients, UpdateClient, SyncClients, ListClients, Ask, Go, Wants, Stays
<1>2. CASE LoadSupportEntries(r) \/ PersistSupportEntries(r)
  BY <1>2 DEF LoadSupportEntries, PersistSupportEntries, Go, history
<1>3. CASE ReadBaseline(r)
  BY <1>3 DEF ReadBaseline, Go, Wants, Refuse, history
<1>4. CASE ReadBaselineFails(r)
  BY <1>4 DEF ReadBaselineFails, Refuse, Go, history
<1>5. CASE SaveMetadata(r)
  BY <1>5 DEF SaveMetadata, Persist, Stays, Go
<1>6. ASSUME NEW i \in Instances, ReadInstance(r, i) PROVE OthersKeep(r)
  BY <1>6 DEF ReadInstance, history
<1>7. ASSUME NEW i \in Instances, ReadInstanceFails(r, i) PROVE OthersKeep(r)
  BY <1>7 DEF ReadInstanceFails, Done, Go
<1>8. ASSUME NEW i \in Instances, Write(r, i) \/ WriteFails(r, i) PROVE OthersKeep(r)
  <2>1. PICK some : Apply(r, i, some) /\ (Done(r, i, TRUE) \/ Done(r, i, FALSE))
    BY <1>8, WriteSteps
  <2>2. QED
    BY <2>1 DEF Apply, Done, Go
<1>9. QED
  BY <1>1, <1>2, <1>3, <1>4, <1>5, <1>6, <1>7, <1>8 DEF Acts

-----------------------------------------------------------------------------
(***************************************************************************)
(* What is sent to a Pi-hole                                               *)
(***************************************************************************)
LEMMA WishTypes ==
  ASSUME RequestsTyped, NEW r \in Requests
  PROVE  /\ DOMAIN want[r] \subseteq Clients
         /\ \A c \in DOMAIN want[r] : want[r][c] \in Wish
         /\ want[r] \in [DOMAIN want[r] -> Wish]
BY DEF RequestsTyped, Wishes

\* Every group a client is sent with is there, by its id.
LEMMA NextClientTypes ==
  ASSUME RequestsTyped, NEW r \in Requests, snap[r] # None,
         NEW c \in DOMAIN want[r] \ Lacking(r)
  PROVE  NextClient(r, c) \in Client
<1>1. snap[r] \in Pihole /\ want[r][c] \in Wish /\ c \in Clients
  BY WishTypes DEF RequestsTyped
<1>2. CASE want[r][c].names # None
  <2>1. \A n \in want[r][c].names : n \in Names /\ snap[r].groups[n] # None
    <3>1. want[r][c].names \in SUBSET Names
      BY <1>1, <1>2 DEF Wish
    <3>2. \A n \in want[r][c].names : snap[r].groups[n] # None
      BY <1>2 DEF Lacking
    <3>3. QED
      BY <3>1, <3>2
  <2>2. {snap[r].groups[n] : n \in want[r][c].names} \in SUBSET Ids
    BY <1>1, <2>1 DEF Pihole
  <2>3. NextClient(r, c).comment \in Comments
    BY <1>1, ConstantsAssumption DEF NextClient, Pihole, Client, Wish
  <2>4. QED
    BY <1>2, <2>2, <2>3 DEF NextClient, Client
<1>3. CASE want[r][c].names = None
  <2>1. snap[r].clients[c] \in Client \cup {None}
    BY <1>1 DEF Pihole
  <2>2. NextClient(r, c).comment \in Comments
    BY <1>1, <2>1, ConstantsAssumption DEF NextClient, Client, Wish
  <2>3. NextClient(r, c).groups \in SUBSET Ids
    BY <1>3, <2>1 DEF NextClient, Client
  <2>4. QED
    BY <2>2, <2>3 DEF NextClient, Client
<1>4. QED
  BY <1>2, <1>3

LEMMA AppliedTypes ==
  ASSUME TablesTyped, RequestsTyped, NEW r \in Requests, snap[r] # None, NEW i \in Instances,
         NEW some \in SUBSET Sent(r, i), Apply(r, i, some)
  PROVE  /\ pihole' \in [Instances -> Pihole]
         /\ \A j \in Instances : Distinct(pihole'[j])
         /\ pihole'[i].groups = pihole[i].groups
         /\ \A c \in Clients : pihole'[i].clients[c] =
              IF c \in some THEN NextClient(r, c) ELSE pihole[i].clients[c]
<1> DEFINE p == [pihole[i] EXCEPT !.clients =
                   [c \in Clients |-> IF c \in some THEN NextClient(r, c) ELSE @[c]]]
<1>1. pihole' = [pihole EXCEPT ![i] = p]
  BY DEF Apply, Becomes
<1>2. pihole[i] \in Pihole /\ pihole \in [Instances -> Pihole]
  BY DEF TablesTyped
<1>3. \A c \in some : NextClient(r, c) \in Client
  BY NextClientTypes DEF Sent, Unlike
<1>4. p.groups = pihole[i].groups
  BY <1>2 DEF Pihole
<1>5. p.clients = [c \in Clients |-> IF c \in some THEN NextClient(r, c)
                                                  ELSE pihole[i].clients[c]]
  BY <1>2 DEF Pihole
<1>6. p.clients \in [Clients -> Client \cup {None}]
  BY <1>2, <1>3, <1>5 DEF Pihole
<1>7. p \in Pihole
  <2>1. DOMAIN p = {"groups", "clients"}
    BY <1>2 DEF Pihole
  <2>2. QED
    BY <1>2, <1>4, <1>6, <2>1 DEF Pihole
<1>8. pihole' \in [Instances -> Pihole] /\ pihole'[i] = p
  BY <1>1, <1>2, <1>7
<1>9. \A j \in Instances : Distinct(pihole'[j])
  BY <1>1, <1>2, <1>4 DEF TablesTyped, Distinct
<1>10. QED
  BY <1>4, <1>5, <1>8, <1>9

-----------------------------------------------------------------------------
(***************************************************************************)
(* The steps keep the types                                                *)
(***************************************************************************)
\* A group that is renamed, deleted or created leaves every group with one name.
LEMMA RegroupTypes ==
  ASSUME TablesTyped, NEW i \in Instances, Regroup(i)
  PROVE  \E p \in Pihole : Distinct(p) /\ Becomes(i, p, {})
<1> DEFINE p == pihole[i]
           renamed(m, n) == [p.groups EXCEPT ![m] = p.groups[n], ![n] = p.groups[m]]
<1>1. /\ p \in Pihole /\ Distinct(p)
      /\ p.groups \in [Names -> Ids \cup {None}]
      /\ p.clients \in [Clients -> Client \cup {None}]
      /\ DOMAIN p = {"groups", "clients"}
  BY DEF TablesTyped, Pihole
<1>2. PICK n \in Names :
        \/ /\ p.groups[n] # None
           /\ \/ \E m \in Names \ {n} : Becomes(i, [p EXCEPT !.groups = renamed(m, n)], {})
              \/ Becomes(i, [groups |-> [p.groups EXCEPT ![n] = None],
                             clients |-> [c \in Clients |->
                               IF p.clients[c] = None THEN None
                               ELSE [p.clients[c] EXCEPT !.groups = @ \ {p.groups[n]}]]], {})
        \/ /\ p.groups[n] = None
           /\ \E id \in Ids \ {p.groups[m] : m \in Names} :
                Becomes(i, [p EXCEPT !.groups[n] = id], {})
  BY DEF Regroup
<1>3. ASSUME NEW m \in Names \ {n}, Becomes(i, [p EXCEPT !.groups = renamed(m, n)], {})
      PROVE  \E x \in Pihole : Distinct(x) /\ Becomes(i, x, {})
  <2> DEFINE x == [p EXCEPT !.groups = renamed(m, n)]
  <2>1. x.groups = renamed(m, n) /\ x.clients = p.clients /\ DOMAIN x = {"groups", "clients"}
    BY <1>1
  <2>2. x.groups \in [Names -> Ids \cup {None}]
    BY <1>1, <2>1
  <2>3. x \in Pihole
    BY <1>1, <2>1, <2>2 DEF Pihole
  <2>4. Distinct(x)
    BY <1>1, <2>1 DEF Distinct
  <2>5. QED
    BY <1>3, <2>3, <2>4
<1>4. ASSUME Becomes(i, [groups |-> [p.groups EXCEPT ![n] = None],
                         clients |-> [c \in Clients |->
                           IF p.clients[c] = None THEN None
                           ELSE [p.clients[c] EXCEPT !.groups = @ \ {p.groups[n]}]]], {})
      PROVE  \E x \in Pihole : Distinct(x) /\ Becomes(i, x, {})
  <2> DEFINE cs == [c \in Clients |->
                      IF p.clients[c] = None THEN None
                      ELSE [p.clients[c] EXCEPT !.groups = @ \ {p.groups[n]}]]
             x == [groups |-> [p.groups EXCEPT ![n] = None], clients |-> cs]
  <2>1. \A c \in Clients : cs[c] \in Client \cup {None}
    BY <1>1 DEF Client
  <2>2. cs \in [Clients -> Client \cup {None}]
    BY <2>1
  <2>3. x.groups \in [Names -> Ids \cup {None}] /\ x.clients = cs
    BY <1>1
  <2>4. x \in Pihole
    BY <2>2, <2>3 DEF Pihole
  <2>5. Distinct(x)
    BY <1>1 DEF Distinct
  <2>6. QED
    BY <1>4, <2>4, <2>5
<1>5. ASSUME NEW id \in Ids \ {p.groups[m] : m \in Names},
             Becomes(i, [p EXCEPT !.groups[n] = id], {})
      PROVE  \E x \in Pihole : Distinct(x) /\ Becomes(i, x, {})
  <2> DEFINE x == [p EXCEPT !.groups[n] = id]
  <2>1. /\ x.groups = [p.groups EXCEPT ![n] = id] /\ x.clients = p.clients
        /\ DOMAIN x = {"groups", "clients"}
    BY <1>1
  <2>2. x \in Pihole
    BY <1>1, <2>1 DEF Pihole
  <2>3. Distinct(x)
    BY <1>1, <2>1 DEF Distinct
  <2>4. QED
    BY <1>5, <2>2, <2>3
<1>6. QED
  BY <1>2, <1>3, <1>4, <1>5

LEMMA RegroupKeeps ==
  ASSUME RInv, NEW i \in Instances, Regroup(i)
  PROVE  /\ TablesTyped' /\ AliasesTyped' /\ RequestsTyped'
         /\ \A r \in Requests : Watches(r)
         /\ UNCHANGED <<alias, request, faults, wrote, said, stale>>
<1>1. PICK p \in Pihole : Distinct(p) /\ Becomes(i, p, {})
  BY RegroupTypes DEF RInv
<1>2. /\ moved' \in [Requests -> SUBSET Instances] /\ \A r \in Requests : Watches(r)
  BY <1>1, BecomesIsWatched DEF RInv
<1>3. pihole' \in [Instances -> Pihole] /\ \A j \in Instances : Distinct(pihole'[j])
  BY <1>1 DEF Becomes, RInv, TablesTyped
<1>4. UNCHANGED <<alias, request, faults, wrote, said, stale>>
  BY DEF Regroup
<1>5. regroups' \in 0..MaxRegroups
  BY BoundsAssumption DEF Regroup, RInv, TablesTyped
<1>6. TablesTyped'
  BY <1>3, <1>4, <1>5 DEF RInv, TablesTyped
<1>7. AliasesTyped'
  BY <1>4 DEF RInv, AliasesTyped, request
<1>8. RequestsTyped'
  BY <1>2, <1>4 DEF RInv, RequestsTyped, request
<1>9. QED
  BY <1>2, <1>4, <1>6, <1>7, <1>8

\* What a step of a request does to the Pi-holes and to what the others know of it
LEMMA ActsTables ==
  ASSUME RInv, NEW r \in Requests, Acts(r)
  PROVE  /\ TablesTyped' /\ moved' \in [Requests -> SUBSET Instances]
         /\ \A q \in Requests \ {r} : Watches(q)
         /\ moved'[r] = moved[r]
<1>1. CASE UNCHANGED <<pihole, moved, regroups>> /\ (faults' = faults \/ Fault)
  BY <1>1, BoundsAssumption DEF RInv, TablesTyped, RequestsTyped, Watches, Fault
<1>2. ASSUME NEW i \in Instances, Write(r, i) \/ WriteFails(r, i)
      PROVE  /\ TablesTyped' /\ moved' \in [Requests -> SUBSET Instances]
             /\ \A q \in Requests \ {r} : Watches(q)
             /\ moved'[r] = moved[r]
  <2>1. PICK some \in SUBSET Sent(r, i) :
          /\ Apply(r, i, some) /\ snap[r] # None /\ regroups' = regroups
          /\ faults' = faults \/ Fault
    BY <1>2, WriteSteps DEF Done
  <2>2. pihole' \in [Instances -> Pihole] /\ \A j \in Instances : Distinct(pihole'[j])
    BY <2>1, AppliedTypes DEF RInv
  <2>3. TablesTyped'
    BY <2>1, <2>2, BoundsAssumption DEF RInv, TablesTyped, Fault
  <2>4. QED
    BY <2>1, <2>3, BecomesIsWatched DEF RInv, Apply
<1>3. QED
  BY <1>1, <1>2 DEF Acts, SaveClients, UpdateClient, SyncClients, ListClients, Ask,
    LoadSupportEntries, PersistSupportEntries, ReadBaseline, ReadBaselineFails, SaveMetadata,
    ReadInstance, ReadInstanceFails, Done, history

LEMMA DoneTypes ==
  ASSUME RequestsTyped, NEW r \in Requests, NEW i \in Instances, NEW ok, Done(r, i, ok)
  PROVE  /\ stage' \in [Requests -> Stages]
         /\ snap' \in [Requests -> Pihole \cup {None}]
         /\ todo' \in [Requests -> SUBSET Instances]
         /\ failed' \in [Requests -> SUBSET Instances]
         /\ UNCHANGED <<alias, op, want, seen, said, stale>>
<1>1. todo' \in [Requests -> SUBSET Instances]
  BY DEF RequestsTyped, Done
<1>2. failed' \in [Requests -> SUBSET Instances]
  BY DEF RequestsTyped, Done
<1>3. snap' \in [Requests -> Pihole \cup {None}]
  BY DEF RequestsTyped, Done
<1>4. stage' \in [Requests -> Stages]
  <2>1. stage \in [Requests -> Stages]
    BY DEF RequestsTyped
  <2>2. \/ stage' = stage \/ \E s \in {"success", "partial"} : stage' = [stage EXCEPT ![r] = s]
    BY DEF Done, Go
  <2>3. QED
    BY <2>1, <2>2 DEF Stages, Over
<1>5. QED
  BY <1>1, <1>2, <1>3, <1>4 DEF Done

\* The variables of the request that acts, and the aliases
RequestsTypedBut == \* the tables of the requests, what they want apart
  /\ stage \in [Requests -> Stages]
  /\ snap \in [Requests -> Pihole \cup {None}]
  /\ todo \in [Requests -> SUBSET Instances]
  /\ failed \in [Requests -> SUBSET Instances]
  /\ wrote \in [Requests -> BOOLEAN]
  /\ DOMAIN op = Requests

LEMMA ActsTypes ==
  ASSUME RInv, NEW r \in Requests, Acts(r)
  PROVE  RequestsTypedBut' /\ AliasesTyped'
<1> USE DEF RInv, TablesTyped, AliasesTyped, RequestsTyped, RequestsTypedBut, Aliased, Stages, Over
<1>1. CASE SaveClients(r)
  BY <1>1, ConstantsAssumption DEF SaveClients, Ask, Go, Stays, Save
<1>2. CASE UpdateClient(r)
  BY <1>2, ConstantsAssumption DEF UpdateClient, Ask, Go, Stays, Update
<1>3. CASE SyncClients(r) \/ ListClients(r)
  BY <1>3 DEF SyncClients, ListClients, Ask, Go, Stays
<1>4. CASE LoadSupportEntries(r)
  BY <1>4 DEF LoadSupportEntries, Go, history
<1>12. CASE PersistSupportEntries(r)
  <2>1. alias' = [c \in Clients |-> IF c \in op[r].clients THEN seen[r][c] ELSE alias[c]]
    BY <1>12 DEF PersistSupportEntries
  <2>2. \A c \in Clients : seen[r][c] \in Aliases \cup {None} /\ alias[c] \in Aliases \cup {None}
    OBVIOUS
  <2>3. alias' \in Aliased
    BY <2>1, <2>2
  <2>4. AliasesTyped'
    BY <1>12, <2>3 DEF PersistSupportEntries, history
  <2>5. RequestsTypedBut'
    BY <1>12 DEF PersistSupportEntries, Go, history
  <2>6. QED
    BY <2>4, <2>5
<1>5. CASE ReadBaseline(r)
  BY <1>5 DEF ReadBaseline, Go, Refuse, history
<1>6. CASE ReadBaselineFails(r)
  BY <1>6 DEF ReadBaselineFails, Refuse, Go, history
<1>7. CASE SaveMetadata(r)
  <2>1. op[r] \in Save
    BY <1>7 DEF SaveMetadata, Asks
  <2>2. op[r].alias \in Aliases \cup {None} /\ op[r].clients \subseteq Clients
    BY <2>1 DEF Save
  <2>3. alias' \in Aliased /\ said' \in Aliased
    <3>1. CASE op[r].alias = None
      BY <1>7, <3>1 DEF SaveMetadata, Persist, Stays
    <3>2. CASE op[r].alias # None
      <4>1. /\ alias' = [c \in Clients |-> IF c \in op[r].clients THEN op[r].alias ELSE alias[c]]
            /\ said' = [c \in Clients |-> IF c \in op[r].clients THEN op[r].alias ELSE said[c]]
        BY <1>7, <3>2 DEF SaveMetadata, Persist
      <4>2. \A c \in Clients : alias[c] \in Aliases \cup {None} /\ said[c] \in Aliases \cup {None}
        OBVIOUS
      <4>3. QED
        BY <2>2, <4>1, <4>2
    <3>3. QED
      BY <3>1, <3>2
  <2>4. stale' \subseteq Clients
    BY <1>7, <2>2 DEF SaveMetadata, Persist
  <2>5. wrote' \in [Requests -> BOOLEAN]
    BY <1>7 DEF SaveMetadata, Persist, Stays
  <2>6. AliasesTyped'
    BY <1>7, <2>3, <2>4 DEF SaveMetadata
  <2>7. RequestsTypedBut'
    BY <1>7, <2>5 DEF SaveMetadata, Go
  <2>8. QED
    BY <2>6, <2>7
<1>8. ASSUME NEW i \in Instances, ReadInstance(r, i) PROVE RequestsTypedBut' /\ AliasesTyped'
  BY <1>8 DEF ReadInstance, history
<1>9. ASSUME NEW i \in Instances, ReadInstanceFails(r, i) PROVE RequestsTypedBut' /\ AliasesTyped'
  BY <1>9 DEF ReadInstanceFails, Done, Go
<1>10. ASSUME NEW i \in Instances, Write(r, i) \/ WriteFails(r, i)
       PROVE  RequestsTypedBut' /\ AliasesTyped'
  <2>1. PICK some : Apply(r, i, some) /\ (Done(r, i, TRUE) \/ Done(r, i, FALSE))
    BY <1>10, WriteSteps
  <2>2. wrote' \in [Requests -> BOOLEAN]
    BY <2>1 DEF Apply
  <2>3. QED
    BY <2>1, <2>2, DoneTypes
<1>11. QED
  BY <1>1, <1>2, <1>3, <1>4, <1>12, <1>5, <1>6, <1>7, <1>8, <1>9, <1>10 DEF Acts

LEMMA GivenTypes ==
  ASSUME NEW what, what.clients \subseteq Clients,
         what.kind = "save" => what.comment \in Comments \cup {None}
  PROVE  /\ Given(what) \in [what.clients -> Wish] /\ Given(what) \in Wishes
         /\ \A c \in what.clients :
              /\ what.groups = None => Given(what)[c].names = None
              /\ what.kind = "save" => Given(what)[c].comment = what.comment
<1>1. \A c \in what.clients :
        [names |-> IF what.groups = {} THEN {} ELSE None,
         comment |-> IF what.kind = "save" THEN what.comment ELSE None] \in Wish
  BY DEF Wish
<1>2. Given(what) \in [what.clients -> Wish]
  BY <1>1 DEF Given
<1>3. \A c \in what.clients :
        /\ what.groups = None => Given(what)[c].names = None
        /\ what.kind = "save" => Given(what)[c].comment = what.comment
  BY NoneAssumption DEF Given
<1>4. QED
  BY <1>2, <1>3 DEF Wishes

LEMMA ActsWants ==
  ASSUME RInv, NEW r \in Requests, Acts(r)
  PROVE  want' \in [Requests -> Wishes]
<1>1. want \in [Requests -> Wishes]
  BY DEF RInv, RequestsTyped
<1>2. CASE UNCHANGED want
  BY <1>1, <1>2
<1>3. CASE \E ws \in Wishes : want' = [want EXCEPT ![r] = ws]
  BY <1>1, <1>3
<1>4. CASE SaveClients(r)
  <2>1. PICK what \in Saves : Wants(r, Given(what))
    BY <1>4 DEF SaveClients
  <2>2. what \in Save
    BY ConstantsAssumption
  <2>3. what.clients \subseteq Clients /\ what.comment \in Comments \cup {None}
    BY <2>2 DEF Save
  <2>4. Given(what) \in Wishes
    BY <2>3, GivenTypes
  <2>5. QED
    BY <1>3, <2>1, <2>4 DEF Wants
<1>5. CASE UpdateClient(r)
  <2>1. PICK what \in Updates : Wants(r, Given(what))
    BY <1>5 DEF UpdateClient
  <2>2. what \in Update
    BY ConstantsAssumption
  <2>3. what.clients \subseteq Clients /\ what.kind = "update"
    BY <2>2 DEF Update
  <2>4. Given(what) \in Wishes
    BY <2>3, GivenTypes
  <2>5. QED
    BY <1>3, <2>1, <2>4 DEF Wants
<1>6. CASE ReadBaseline(r)
  <2> DEFINE p == pihole[Baseline]
             here == {c \in Clients : p.clients[c] # None}
  <2>1. p \in Pihole
    BY ConstantsAssumption DEF RInv, TablesTyped
  <2>2. CASE op[r].kind = "sync"
    <3> DEFINE ws == [c \in here |-> [names |-> NamesOf(p, p.clients[c].groups),
                                      comment |-> p.clients[c].comment]]
    <3>1. Wants(r, ws)
      BY <1>6, <2>2 DEF ReadBaseline
    <3>2. \A c \in here : p.clients[c] \in Client
      BY <2>1 DEF Pihole
    <3>3. \A c \in here : ws[c] \in Wish
      BY <3>2 DEF Wish, Client, NamesOf
    <3>4. ws \in [here -> Wish]
      BY <3>3
    <3>5. ws \in Wishes
      BY <3>4 DEF Wishes
    <3>6. QED
      BY <1>3, <3>1, <3>5 DEF Wants
  <2>3. CASE op[r].kind # "sync" /\ AllNamed(p, op[r].groups)
    <3> DEFINE ws == [c \in op[r].clients |->
                        [want[r][c] EXCEPT !.names = NamesOf(p, op[r].groups)]]
    <3>1. Wants(r, ws)
      BY <1>6, <2>3 DEF ReadBaseline
    <3>2. /\ want[r] = Given(op[r]) /\ op[r].clients \subseteq Clients
          /\ op[r].kind = "save" => op[r] \in Save
      BY <1>6, <2>3 DEF RInv, Asks, ReadBaseline
    <3>3. op[r].kind = "save" => op[r].comment \in Comments \cup {None}
      BY <3>2 DEF Save
    <3>4. want[r] \in [op[r].clients -> Wish]
      BY <3>2, <3>3, GivenTypes
    <3>5. \A c \in op[r].clients : ws[c] \in Wish
      BY <3>4 DEF Wish, NamesOf
    <3>6. ws \in [op[r].clients -> Wish]
      BY <3>5
    <3>7. ws \in Wishes
      BY <3>2, <3>6 DEF Wishes
    <3>8. QED
      BY <1>3, <3>1, <3>7 DEF Wants
  <2>4. CASE op[r].kind # "sync" /\ ~AllNamed(p, op[r].groups)
    BY <1>2, <1>6, <2>4 DEF ReadBaseline, Refuse
  <2>5. QED
    BY <2>2, <2>3, <2>4
<1>7. QED
  BY <1>2, <1>4, <1>5, <1>6, WriteSteps DEF Acts, SyncClients, ListClients, LoadSupportEntries,
    PersistSupportEntries, ReadBaselineFails, Refuse, SaveMetadata, ReadInstance,
    ReadInstanceFails, Done

LEMMA ActsTyped ==
  ASSUME RInv, NEW r \in Requests, Acts(r)
  PROVE  TablesTyped' /\ AliasesTyped' /\ RequestsTyped'
BY ActsTables, ActsTypes, ActsWants DEF RequestsTyped, RequestsTypedBut

-----------------------------------------------------------------------------
(***************************************************************************)
(* The steps keep what goes with a stage                                   *)
(***************************************************************************)
LEMMA OthersProceed ==
  ASSUME NEW r \in Requests, OthersKeep(r), NEW q \in Requests \ {r}, Asks(q), Proceeds(q)
  PROVE  Asks(q)' /\ Proceeds(q)'
BY DEF OthersKeep, Asks, Proceeds

\* A request that ends at its last Pi-hole, or goes on to the next one
LEMMA DoneProceeds ==
  ASSUME RequestsTyped, NEW r \in Requests, NEW i \in Instances, Turn(r, i), Proceeds(r),
         Done(r, i, TRUE) \/ Done(r, i, FALSE)
  PROVE  /\ todo'[r] = todo[r] \ {i} /\ snap'[r] = None /\ op' = op
         /\ failed'[r] \in {failed[r], failed[r] \cup {i}}
         /\ \/ todo'[r] # {} /\ stage'[r] = "writing"
            \/ todo'[r] = {} /\ stage'[r] = "success" /\ failed'[r] = {}
            \/ todo'[r] = {} /\ stage'[r] = "partial" /\ failed'[r] # {}
<1>1. /\ todo'[r] = todo[r] \ {i} /\ snap'[r] = None /\ op' = op
      /\ failed'[r] \in {failed[r], failed[r] \cup {i}}
  BY DEF RequestsTyped, Done
<1>2. i \in todo[r] /\ stage[r] = "writing"
  BY DEF Turn
<1>3. CASE todo[r] # {i}
  BY <1>1, <1>2, <1>3 DEF Done
<1>4. CASE todo[r] = {i}
  <2>1. stage' = [stage EXCEPT ![r] = IF failed'[r] = {} THEN "success" ELSE "partial"]
    BY <1>4 DEF Done, Go
  <2>2. stage'[r] = IF failed'[r] = {} THEN "success" ELSE "partial"
    BY <2>1 DEF RequestsTyped
  <2>3. QED
    BY <1>1, <1>4, <2>2
<1>5. QED
  BY <1>1, <1>3, <1>4

LEMMA ActsProceed ==
  ASSUME RInv, NEW r \in Requests, Acts(r)
  PROVE  Proceeds(r)'
<1>1. RequestsTyped /\ Proceeds(r) /\ Asks(r) /\ r \in Requests
  BY DEF RInv
<1> USE DEF RequestsTyped, Proceeds, Over
<1>2. CASE SaveClients(r)
  <2>1. PICK what \in Saves : Ask(r, what, IF what.groups = None THEN "saving" ELSE "reading")
    BY <1>2 DEF SaveClients
  <2>2. what.to # {}
    BY ConstantsAssumption DEF Save
  <2>3. wrote' = wrote
    BY <1>2 DEF SaveClients, Stays
  <2>4. QED
    BY <1>1, <2>1, <2>2, <2>3 DEF Ask, Go
<1>3. CASE UpdateClient(r)
  <2>1. PICK what \in Updates :
          Ask(r, what, IF what.groups \in {None, {}} THEN "writing" ELSE "reading")
    BY <1>3 DEF UpdateClient
  <2>2. what.to # {} /\ what.to = Instances
    BY ConstantsAssumption DEF Update
  <2>3. wrote' = wrote
    BY <1>3 DEF UpdateClient, Stays
  <2>4. QED
    BY <1>1, <2>1, <2>2, <2>3 DEF Ask, Go
<1>4. CASE SyncClients(r)
  BY <1>1, <1>4 DEF SyncClients, Ask, Go, Stays
<1>5. CASE ListClients(r)
  BY <1>1, <1>5 DEF ListClients, Ask, Go, Stays
<1>6. CASE LoadSupportEntries(r)
  BY <1>1, <1>6 DEF LoadSupportEntries, Go, history
<1>7. CASE PersistSupportEntries(r)
  BY <1>1, <1>7 DEF PersistSupportEntries, Go, history, Asks
<1>8. CASE ReadBaseline(r)
  <2>1. /\ stage[r] = "reading" /\ UNCHANGED <<op, snap, failed, wrote>>
        /\ \/ stage'[r] \in {"writing", "saving"} /\ todo' = todo
           \/ stage'[r] = "refused" /\ todo'[r] = {}
    BY <1>1, <1>8 DEF ReadBaseline, Go, Refuse, history
  <2>2. QED
    BY <1>1, <2>1
<1>9. CASE ReadBaselineFails(r)
  BY <1>1, <1>9 DEF ReadBaselineFails, Go, Refuse, history
<1>10. CASE SaveMetadata(r)
  BY <1>1, <1>10 DEF SaveMetadata, Go
<1>11. ASSUME NEW i \in Instances, ReadInstance(r, i) PROVE Proceeds(r)'
  BY <1>1, <1>11 DEF ReadInstance, Turn, history
<1>12. ASSUME NEW i \in Instances, ReadInstanceFails(r, i) PROVE Proceeds(r)'
  <2>1. Turn(r, i) /\ Done(r, i, FALSE) /\ wrote' = wrote
    BY <1>12 DEF ReadInstanceFails
  <2>2. QED
    BY <1>1, <2>1, DoneProceeds DEF Turn
<1>13. ASSUME NEW i \in Instances, Write(r, i) \/ WriteFails(r, i) PROVE Proceeds(r)'
  <2>1. Turn(r, i) /\ (Done(r, i, TRUE) \/ Done(r, i, FALSE))
    BY <1>13, WriteSteps
  <2>2. QED
    BY <1>1, <2>1, DoneProceeds DEF Turn
<1>14. QED
  BY <1>2, <1>3, <1>4, <1>5, <1>6, <1>7, <1>8, <1>9, <1>10, <1>11, <1>12, <1>13 DEF Acts

LEMMA ActsAsk ==
  ASSUME RInv, NEW r \in Requests, Acts(r)
  PROVE  Asks(r)'
<1>1. RequestsTyped /\ Asks(r)
  BY DEF RInv
<1> USE DEF RequestsTyped
<1>2. CASE SaveClients(r)
  <2>1. PICK what \in Saves :
          /\ Ask(r, what, IF what.groups = None THEN "saving" ELSE "reading")
          /\ Wants(r, Given(what))
    BY <1>2 DEF SaveClients
  <2>2. /\ what \in Save /\ what.kind = "save" /\ what.clients \subseteq Clients
        /\ what.groups # None => what.groups \in SUBSET Ids
    BY ConstantsAssumption DEF Save
  <2>3. /\ op'[r] = what /\ want'[r] = Given(what)
        /\ stage'[r] = IF what.groups = None THEN "saving" ELSE "reading"
    BY <1>1, <2>1 DEF Ask, Go, Wants
  <2>4. QED
    BY <2>2, <2>3 DEF Asks
<1>3. CASE UpdateClient(r)
  <2>1. PICK what \in Updates :
          /\ Ask(r, what, IF what.groups \in {None, {}} THEN "writing" ELSE "reading")
          /\ Wants(r, Given(what))
    BY <1>3 DEF UpdateClient
  <2>2. /\ what.kind = "update" /\ what.clients \subseteq Clients
        /\ what.groups # None => what.groups \in SUBSET Ids
    BY ConstantsAssumption DEF Update
  <2>3. /\ op'[r] = what /\ want'[r] = Given(what)
        /\ stage'[r] = IF what.groups \in {None, {}} THEN "writing" ELSE "reading"
    BY <1>1, <2>1 DEF Ask, Go, Wants
  <2>4. QED
    BY <2>2, <2>3 DEF Asks
<1>4. CASE SyncClients(r)
  BY <1>1, <1>4 DEF SyncClients, Ask, Go, Asks
<1>5. CASE ListClients(r)
  BY <1>1, <1>5 DEF ListClients, Ask, Go, Asks
<1>6. CASE LoadSupportEntries(r)
  BY <1>1, <1>6 DEF LoadSupportEntries, Go, Asks
<1>7. CASE ReadBaseline(r)
  <2>1. op' = op /\ stage[r] = "reading"
    BY <1>7 DEF ReadBaseline
  <2>2. CASE op[r].kind = "sync" \/ op[r].kind = "update" \/ ~AllNamed(pihole[Baseline], op[r].groups)
    <3>1. stage'[r] \in {"writing", "refused"}
      BY <1>1, <1>7, <2>2 DEF ReadBaseline, Go, Refuse
    <3>2. QED
      BY <3>1 DEF Asks
  <2>3. CASE op[r].kind = "save" /\ AllNamed(pihole[Baseline], op[r].groups)
    <3>1. stage'[r] = "saving"
      BY <1>1, <1>7, <2>3 DEF ReadBaseline, Go
    <3>2. op[r] \in Save /\ op[r].groups \in SUBSET Ids
      BY <2>1, <2>3 DEF Asks, RInv
    <3>3. op[r].groups # None
      BY <3>2, NoneAssumption
    <3>4. QED
      BY <2>1, <3>1, <3>2, <3>3 DEF Asks
  <2>4. op[r].kind \in {"sync", "update", "save"}
    BY <1>1, <2>1 DEF Asks
  <2>5. QED
    BY <2>2, <2>3, <2>4
<1>8. CASE stage'[r] \in Over \cup {"writing"}
  BY <1>8 DEF Asks, Over
<1>9. ASSUME NEW i \in Instances,
             ReadInstance(r, i) \/ ReadInstanceFails(r, i) \/ Write(r, i) \/ WriteFails(r, i)
      PROVE  stage'[r] \in Over \cup {"writing"}
  <2>1. Turn(r, i) /\ (stage' = stage \/ Done(r, i, TRUE) \/ Done(r, i, FALSE))
    BY <1>9, WriteSteps DEF ReadInstance, ReadInstanceFails
  <2>2. QED
    BY <2>1, DoneProceeds DEF RInv, Over, Turn
<1>10. QED
  BY <1>1, <1>2, <1>3, <1>4, <1>5, <1>6, <1>7, <1>8, <1>9
  DEF Acts, PersistSupportEntries, ReadBaselineFails, Refuse, SaveMetadata, Go, Over

-----------------------------------------------------------------------------
(***************************************************************************)
(* The steps keep what has been achieved                                   *)
(***************************************************************************)
\* What a request has read, and what it has achieved, is either still so or known to
\* have been changed by others.
LEMMA WatchedStays ==
  ASSUME RInv, TablesTyped', RequestsTyped', NEW q \in Requests, Watches(q),
         op'[q] = op[q], stage'[q] = stage[q], want'[q] = want[q], snap'[q] = snap[q],
         todo'[q] = todo[q], failed'[q] = failed[q]
  PROVE  SnapIsCurrent(q)' /\ Serves(q)'
<1>1. Proceeds(q) /\ SnapIsCurrent(q) /\ Serves(q) /\ RequestsTyped
  BY DEF RInv
<1>2. CASE stage[q] = "idle"
  BY <1>1, <1>2 DEF Proceeds, SnapIsCurrent, Serves, Claimed
<1>3. CASE stage[q] # "idle"
  <2>1. moved[q] \subseteq moved'[q] /\ \A i \in Instances \ moved'[q] : pihole'[i] = pihole[i]
    BY <1>3 DEF Watches
  <2>2. SnapIsCurrent(q)'
    <3>1. CASE snap[q] = None
      BY <3>1 DEF SnapIsCurrent
    <3>2. CASE snap[q] # None
      <4>1. todo[q] # {} /\ todo[q] \subseteq Instances
        BY <1>1, <3>2 DEF Proceeds, RequestsTyped
      <4>2. Upcoming(q)' = Upcoming(q) /\ Upcoming(q) \in Instances
        BY <4>1 DEF Upcoming
      <4>3. QED
        BY <1>1, <2>1, <3>2, <4>2 DEF SnapIsCurrent
    <3>3. QED
      BY <3>1, <3>2
  <2>3. Serves(q)'
    <3>1. Claimed(q)' = Claimed(q)
      BY DEF Claimed
    <3>2. \A i \in Claimed(q) \ moved'[q] : AsWanted(q, i)' 
      <4>1. SUFFICES ASSUME NEW i \in Claimed(q) \ moved'[q] PROVE AsWanted(q, i)'
        OBVIOUS
      <4>2. AsWanted(q, i)
        BY <1>1, <2>1 DEF Serves
      <4>3. pihole'[i] = pihole[i]
        BY <1>1, <2>1 DEF Proceeds, Claimed
      <4>4. QED
        BY <4>2, <4>3 DEF AsWanted, NamesOf
    <3>3. QED
      BY <3>1, <3>2 DEF Serves
  <2>4. QED
    BY <2>2, <2>3
<1>4. QED
  BY <1>2, <1>3

\* What a request claims after a step
LEMMA WriteServes ==
  ASSUME RInv, TablesTyped', NEW r \in Requests, NEW i \in Instances,
         Write(r, i) \/ WriteFails(r, i)
  PROVE  Serves(r)'
<1>1. Proceeds(r) /\ SnapIsCurrent(r) /\ Serves(r) /\ RequestsTyped /\ TablesTyped
  BY DEF RInv
<1>2. /\ Turn(r, i) /\ snap[r] # None
      /\ \E some \in SUBSET Sent(r, i) :
           /\ Apply(r, i, some)
           /\ \/ /\ Lacking(r) = {} /\ Unlike(r) = Sent(r, i) /\ some = Sent(r, i)
                 /\ Done(r, i, TRUE)
              \/ Done(r, i, FALSE)
  BY WriteSteps
<1>3. PICK some \in SUBSET Sent(r, i) :
        /\ Apply(r, i, some)
        /\ \/ /\ Lacking(r) = {} /\ Unlike(r) = Sent(r, i) /\ some = Sent(r, i)
              /\ Done(r, i, TRUE)
           \/ Done(r, i, FALSE)
  BY <1>2
<1>4. /\ stage[r] = "writing" /\ i \in todo[r] /\ i = Upcoming(r)
      /\ op' = op /\ want' = want /\ moved'[r] = moved[r]
      /\ \A j \in Instances \ {i} : pihole'[j] = pihole[j]
  BY <1>1, <1>2, <1>3, BecomesIsWatched DEF Turn, Done, Apply
<1>5. op[r].to \subseteq Instances
  BY <1>1, <1>4 DEF Proceeds
<1>6. Claimed(r)' \subseteq Claimed(r) \cup {i} /\ (Done(r, i, FALSE) => i \notin Claimed(r)')
  <2>1. todo'[r] = todo[r] \ {i} /\ (Done(r, i, FALSE) => failed'[r] = failed[r] \cup {i})
    BY <1>1, <1>3 DEF Done, RequestsTyped
  <2>2. failed[r] \subseteq failed'[r]
    BY <1>1, <1>3 DEF Done, RequestsTyped
  <2>3. QED
    BY <1>4, <2>1, <2>2 DEF Claimed
<1>7. \A j \in Claimed(r) \ moved[r] : j # i => AsWanted(r, j)'
  <2>1. SUFFICES ASSUME NEW j \in Claimed(r) \ moved[r], j # i PROVE AsWanted(r, j)'
    OBVIOUS
  <2>2. AsWanted(r, j) /\ j \in Instances
    BY <1>1, <1>4, <1>5 DEF Serves, Claimed
  <2>3. pihole'[j] = pihole[j]
    BY <1>4, <2>1, <2>2
  <2>4. QED
    BY <1>4, <2>2, <2>3 DEF AsWanted, NamesOf
<1>8. CASE Done(r, i, FALSE)
  BY <1>4, <1>6, <1>7, <1>8 DEF Serves
<1>9. CASE /\ Lacking(r) = {} /\ Unlike(r) = Sent(r, i) /\ some = Sent(r, i)
           /\ i \notin moved[r]
  <2>1. snap[r] = pihole[i] /\ pihole[i] \in Pihole /\ Distinct(pihole[i])
    BY <1>1, <1>2, <1>4, <1>9 DEF SnapIsCurrent, TablesTyped
  <2>2. /\ pihole'[i].groups = pihole[i].groups
        /\ \A c \in Clients : pihole'[i].clients[c] =
             IF c \in some THEN NextClient(r, c) ELSE pihole[i].clients[c]
    BY <1>1, <1>2, <1>3, AppliedTypes
  <2>3. ASSUME NEW c \in DOMAIN want[r]
        PROVE  /\ pihole'[i].clients[c] = NextClient(r, c) /\ NextClient(r, c) \in Client
               /\ want[r][c].names # None =>
                    NamesOf(pihole'[i], NextClient(r, c).groups) = want[r][c].names
               /\ want[r][c].comment # None => NextClient(r, c).comment = want[r][c].comment
    <3>1. c \in Clients /\ want[r][c] \in Wish
      BY <1>1, WishTypes
    <3>2. pihole'[i].clients[c] = NextClient(r, c)
      BY <1>9, <2>1, <2>2, <3>1 DEF Unlike
    <3>3. NextClient(r, c) \in Client
      BY <1>1, <1>2, <1>9, NextClientTypes
    <3>4. ASSUME want[r][c].names # None
          PROVE  NamesOf(pihole'[i], NextClient(r, c).groups) = want[r][c].names
      <4>1. want[r][c].names \subseteq Names
        BY <3>1, <3>4 DEF Wish
      <4>2. NextClient(r, c).groups = {pihole[i].groups[n] : n \in want[r][c].names}
        BY <2>1, <3>4 DEF NextClient
      <4>3. \A n \in want[r][c].names : pihole[i].groups[n] # None
        BY <1>9, <2>1, <3>4 DEF Lacking
      <4>4. NamesOf(pihole'[i], NextClient(r, c).groups) =
              {m \in Names : pihole[i].groups[m] \in {pihole[i].groups[n] : n \in want[r][c].names}}
        BY <2>2, <4>2 DEF NamesOf
      <4>5. \A m \in Names, n \in want[r][c].names :
              pihole[i].groups[m] = pihole[i].groups[n] => m = n
        BY <2>1, <4>1, <4>3 DEF Distinct
      <4>6. QED
        BY <4>1, <4>4, <4>5
    <3>5. want[r][c].comment # None => NextClient(r, c).comment = want[r][c].comment
      BY DEF NextClient
    <3>6. QED
      BY <3>2, <3>3, <3>4, <3>5
  <2>4. AsWanted(r, i)'
    BY <1>4, <2>3, NoneAssumption DEF AsWanted
  <2>5. QED
    BY <1>4, <1>6, <1>7, <2>4 DEF Serves
<1>10. CASE i \in moved[r]
  BY <1>4, <1>6, <1>7, <1>10 DEF Serves
<1>11. QED
  BY <1>3, <1>8, <1>9, <1>10

LEMMA ActsServe ==
  ASSUME RInv, NEW r \in Requests, Acts(r)
  PROVE  SnapIsCurrent(r)' /\ Serves(r)'
<1>1. /\ RequestsTyped /\ TablesTyped /\ Asks(r) /\ Proceeds(r) /\ SnapIsCurrent(r) /\ Serves(r)
      /\ TablesTyped' /\ RequestsTyped' /\ Proceeds(r)' /\ moved'[r] = moved[r]
  BY ActsTyped, ActsTables, ActsProceed DEF RInv
<1>2. CASE /\ stage'[r] \notin {"writing", "success", "partial"}
  BY <1>1, <1>2 DEF Proceeds, SnapIsCurrent, Serves, Claimed
<1>3. CASE todo'[r] = op'[r].to /\ snap'[r] = None
  BY <1>3 DEF SnapIsCurrent, Serves, Claimed
<1>4. CASE UpdateClient(r)
  <2>1. stage[r] = "idle" /\ todo'[r] = op'[r].to /\ snap' = snap
    BY <1>1, <1>4 DEF UpdateClient, Ask, RequestsTyped
  <2>2. QED
    BY <1>1, <1>3, <2>1 DEF Proceeds
<1>5. CASE SaveClients(r) \/ SyncClients(r) \/ ListClients(r) \/ LoadSupportEntries(r)
  <2>1. stage'[r] \in {"saving", "reading", "listing", "listed"}
    BY <1>1, <1>5 DEF SaveClients, SyncClients, ListClients, LoadSupportEntries, Ask, Go,
      RequestsTyped
  <2>2. QED
    BY <1>2, <2>1
<1>6. CASE PersistSupportEntries(r)
  <2>1. stage[r] = "listed" /\ op' = op /\ snap' = snap /\ todo' = todo
    BY <1>6 DEF PersistSupportEntries
  <2>2. QED
    BY <1>1, <1>3, <2>1 DEF Asks, Proceeds, Over
<1>7. CASE ReadBaseline(r)
  <2>1. /\ stage[r] = "reading" /\ op' = op /\ snap' = snap
        /\ todo' = todo \/ stage'[r] = "refused"
    BY <1>1, <1>7 DEF ReadBaseline, Refuse, Go, RequestsTyped
  <2>2. QED
    BY <1>1, <1>2, <1>3, <2>1 DEF Proceeds
<1>8. CASE ReadBaselineFails(r)
  BY <1>1, <1>2, <1>8 DEF ReadBaselineFails, Refuse, Go, RequestsTyped
<1>9. CASE SaveMetadata(r)
  <2>1. stage[r] = "saving" /\ UNCHANGED <<op, snap, want, pihole>>
    BY <1>9 DEF SaveMetadata
  <2>2. CASE op[r].groups = None /\ op[r].comment = None
    <3>1. op[r] \in Save /\ want[r] = Given(op[r])
      BY <1>1, <2>1, <2>2 DEF Asks
    <3>2. /\ op[r].kind = "save" /\ op[r].clients \subseteq Clients
          /\ op[r].comment \in Comments \cup {None}
      BY <3>1 DEF Save
    <3>3. /\ want[r] \in [op[r].clients -> Wish]
          /\ \A c \in op[r].clients : want[r][c].names = None /\ want[r][c].comment = None
      BY <2>2, <3>1, <3>2, GivenTypes
    <3>4. Serves(r)'
      BY <2>1, <3>3 DEF Serves, AsWanted
    <3>5. SnapIsCurrent(r)'
      BY <1>1, <2>1 DEF Proceeds, SnapIsCurrent
    <3>6. QED
      BY <3>4, <3>5
  <2>3. CASE ~(op[r].groups = None /\ op[r].comment = None)
    <3>1. todo' = todo
      BY <1>9, <2>3 DEF SaveMetadata
    <3>2. QED
      BY <1>1, <1>3, <2>1, <3>1 DEF Proceeds
  <2>4. QED
    BY <2>2, <2>3
<1>10. ASSUME NEW i \in Instances, ReadInstance(r, i) PROVE SnapIsCurrent(r)' /\ Serves(r)'
  <2>1. /\ UNCHANGED <<pihole, op, stage, want, todo, failed>> /\ i = Upcoming(r)
        /\ snap'[r] = pihole[i]
    BY <1>1, <1>10 DEF ReadInstance, Turn, RequestsTyped
  <2>2. SnapIsCurrent(r)'
    BY <2>1 DEF SnapIsCurrent, Upcoming
  <2>3. Serves(r)'
    BY <1>1, <2>1 DEF Serves, Claimed, AsWanted, NamesOf
  <2>4. QED
    BY <2>2, <2>3
<1>11. ASSUME NEW i \in Instances, ReadInstanceFails(r, i) PROVE SnapIsCurrent(r)' /\ Serves(r)'
  <2>1. /\ UNCHANGED <<pihole, op, want>> /\ stage[r] = "writing"
        /\ todo'[r] = todo[r] \ {i} /\ failed'[r] = failed[r] \cup {i} /\ snap'[r] = None
    BY <1>1, <1>11 DEF ReadInstanceFails, Done, Turn, RequestsTyped
  <2>2. Claimed(r)' \subseteq Claimed(r)
    BY <2>1 DEF Claimed
  <2>3. Serves(r)'
    BY <1>1, <2>1, <2>2 DEF Serves, AsWanted, NamesOf
  <2>4. QED
    BY <2>1, <2>3 DEF SnapIsCurrent
<1>12. ASSUME NEW i \in Instances, Write(r, i) \/ WriteFails(r, i)
       PROVE  SnapIsCurrent(r)' /\ Serves(r)'
  <2>1. snap'[r] = None
    BY <1>1, <1>12, WriteSteps, DoneProceeds
  <2>2. QED
    BY <1>1, <1>12, <2>1, WriteServes DEF SnapIsCurrent
<1>13. QED
  BY <1>4, <1>5, <1>6, <1>7, <1>8, <1>9, <1>10, <1>11, <1>12 DEF Acts

\* A listing writes what it has read; whoever saved in between is in stale.
LEMMA ActsAliases ==
  ASSUME RInv, NEW r \in Requests, Acts(r)
  PROVE  AliasIsKept' /\ ListingIsCurrent'
<1>1. /\ RequestsTyped /\ AliasesTyped /\ Asks(r) /\ AliasIsKept /\ ListingIsCurrent
      /\ OthersKeep(r)
  BY ActsKeep DEF RInv
<1>2. CASE UNCHANGED <<alias, said, stale, seen>> /\ stage'[r] # "listed"
  BY <1>1, <1>2 DEF AliasIsKept, ListingIsCurrent, OthersKeep
<1>3. CASE LoadSupportEntries(r)
  BY <1>1, <1>3 DEF LoadSupportEntries, AliasIsKept, ListingIsCurrent, OthersKeep,
    RequestsTyped, AliasesTyped, history
<1>4. CASE PersistSupportEntries(r)
  <2>1. /\ stage[r] = "listed" /\ stage'[r] = "success"
        /\ UNCHANGED <<said, stale, seen>>
        /\ \A c \in Clients : alias'[c] \in {seen[r][c], alias[c]}
    BY <1>1, <1>4 DEF PersistSupportEntries, Go, history, RequestsTyped
  <2>2. QED
    BY <1>1, <2>1 DEF AliasIsKept, ListingIsCurrent, OthersKeep
<1>5. CASE SaveMetadata(r)
  <2>1. stage'[r] # "listed" /\ seen' = seen
    BY <1>1, <1>5 DEF SaveMetadata, Go, RequestsTyped
  <2>2. CASE op[r].alias = None
    BY <1>2, <1>5, <2>1, <2>2 DEF SaveMetadata, Persist, Stays
  <2>3. CASE op[r].alias # None
    <3>1. /\ \A c \in Clients : \/ alias'[c] = said'[c] /\ c \in op[r].clients
                                \/ alias'[c] = alias[c] /\ said'[c] = said[c]
          /\ stale \subseteq stale'
          /\ (\E q \in Requests : stage[q] = "listed") => op[r].clients \subseteq stale'
          /\ \A c \in Clients : c \notin op[r].clients => said'[c] = said[c]
      BY <1>5, <2>3 DEF SaveMetadata, Persist
    <3>2. AliasIsKept'
      BY <1>1, <3>1 DEF AliasIsKept
    <3>3. ListingIsCurrent'
      <4>1. SUFFICES ASSUME NEW q \in Requests, stage'[q] = "listed", NEW c \in Clients
                     PROVE  seen'[q][c] = said'[c] \/ c \in stale'
        BY DEF ListingIsCurrent
      <4>2. stage[q] = "listed"
        BY <1>1, <2>1, <4>1 DEF OthersKeep
      <4>3. QED
        BY <1>1, <2>1, <3>1, <4>2 DEF ListingIsCurrent
    <3>4. QED
      BY <3>2, <3>3
  <2>4. QED
    BY <2>2, <2>3
<1>6. CASE SaveClients(r) \/ UpdateClient(r) \/ SyncClients(r) \/ ListClients(r)
  BY <1>1, <1>2, <1>6 DEF SaveClients, UpdateClient, SyncClients, ListClients, Ask, Go, Stays,
    RequestsTyped
<1>7. CASE ReadBaseline(r) \/ ReadBaselineFails(r)
  <2>1. UNCHANGED <<alias, said, stale, seen>>
    BY <1>7 DEF ReadBaseline, ReadBaselineFails, history
  <2>2. stage'[r] \in {"writing", "saving", "refused"}
    BY <1>1, <1>7 DEF ReadBaseline, ReadBaselineFails, Go, Refuse, RequestsTyped
  <2>3. QED
    BY <1>2, <2>1, <2>2
<1>8. ASSUME NEW i \in Instances,
             ReadInstance(r, i) \/ ReadInstanceFails(r, i) \/ Write(r, i) \/ WriteFails(r, i)
      PROVE  UNCHANGED <<alias, said, stale, seen>> /\ stage'[r] # "listed"
  <2>1. /\ Turn(r, i) /\ Proceeds(r)
        /\ \/ UNCHANGED <<alias, said, stale, seen, stage>>
           \/ Done(r, i, TRUE) \/ Done(r, i, FALSE)
    BY <1>8, WriteSteps DEF ReadInstance, ReadInstanceFails, RInv, history
  <2>2. stage[r] = "writing"
    BY <2>1 DEF Turn
  <2>3. CASE UNCHANGED <<alias, said, stale, seen, stage>>
    BY <2>2, <2>3
  <2>4. CASE Done(r, i, TRUE) \/ Done(r, i, FALSE)
    <3>1. stage'[r] # "listed"
      BY <1>1, <2>1, <2>4, DoneProceeds
    <3>2. QED
      BY <2>4, <3>1 DEF Done
  <2>5. QED
    BY <2>1, <2>3, <2>4
<1>9. QED
  BY <1>2, <1>3, <1>4, <1>5, <1>6, <1>7, <1>8 DEF Acts

-----------------------------------------------------------------------------
(***************************************************************************)
(* The requests keep their invariant                                       *)
(***************************************************************************)
LEMMA ActsKeepRInv ==
  ASSUME RInv, NEW r \in Requests, Acts(r)
  PROVE  RInv'
<1>1. OthersKeep(r) /\ \A q \in Requests \ {r} : Watches(q)
  BY ActsKeep, ActsTables DEF RInv
<1>2. TablesTyped' /\ AliasesTyped' /\ RequestsTyped'
  BY ActsTyped
<1>3. ASSUME NEW q \in Requests \ {r}
      PROVE  Asks(q)' /\ Proceeds(q)' /\ SnapIsCurrent(q)' /\ Serves(q)'
  <2>1. Asks(q)' /\ Proceeds(q)'
    BY <1>1, OthersProceed DEF RInv
  <2>2. SnapIsCurrent(q)' /\ Serves(q)'
    BY <1>1, <1>2, WatchedStays DEF OthersKeep
  <2>3. QED
    BY <2>1, <2>2
<1>4. Asks(r)' /\ Proceeds(r)' /\ SnapIsCurrent(r)' /\ Serves(r)'
  BY ActsAsk, ActsProceed, ActsServe
<1>5. QED
  BY <1>2, <1>3, <1>4, ActsAliases DEF RInv

LEMMA RegroupKeepsRInv ==
  ASSUME RInv, NEW i \in Instances, Regroup(i)
  PROVE  RInv'
<1>1. /\ TablesTyped' /\ AliasesTyped' /\ RequestsTyped'
      /\ \A r \in Requests : Watches(r)
      /\ UNCHANGED <<alias, request, faults, wrote, said, stale>>
  BY RegroupKeeps
<1>2. ASSUME NEW q \in Requests
      PROVE  Asks(q)' /\ Proceeds(q)' /\ SnapIsCurrent(q)' /\ Serves(q)'
  <2>1. Asks(q)' /\ Proceeds(q)'
    BY <1>1 DEF RInv, Asks, Proceeds, request
  <2>2. SnapIsCurrent(q)' /\ Serves(q)'
    BY <1>1, WatchedStays DEF request
  <2>3. QED
    BY <2>1, <2>2
<1>3. AliasIsKept' /\ ListingIsCurrent'
  BY <1>1 DEF RInv, AliasIsKept, ListingIsCurrent, request
<1>4. QED
  BY <1>1, <1>2, <1>3 DEF RInv

\* A refresh shares only the count of faults with the requests.
LEMMA RestKeepsRInv ==
  ASSUME RInv, UNCHANGED <<pihole, alias, request, regroups, history>>,
         faults' = faults \/ Fault
  PROVE  RInv'
<1>1. TablesTyped'
  BY BoundsAssumption DEF RInv, TablesTyped, Fault
<1>2. AliasesTyped' /\ RequestsTyped' /\ AliasIsKept' /\ ListingIsCurrent'
  BY DEF RInv, AliasesTyped, RequestsTyped, AliasIsKept, ListingIsCurrent, request, history
<1>3. \A q \in Requests : Asks(q)' /\ Proceeds(q)' /\ SnapIsCurrent(q)' /\ Serves(q)'
  BY DEF RInv, Asks, Proceeds, SnapIsCurrent, Upcoming, Serves, Claimed, AsWanted, NamesOf,
    request, history
<1>4. QED
  BY <1>1, <1>2, <1>3 DEF RInv

LEMMA InitRInv == Init => RInv
<1> SUFFICES ASSUME Init PROVE RInv
  OBVIOUS
<1>1. TablesTyped
  BY ConstantsAssumption, StartsAssumption, BoundsAssumption DEF Init, TablesTyped
<1>2. AliasesTyped
  BY DEF Init, AliasesTyped, Aliased
<1>3. RequestsTyped
  <2>1. NoWant \in [{} -> Wish]
    BY DEF NoWant
  <2>2. NoWant \in Wishes
    BY <2>1 DEF Wishes
  <2>3. QED
    BY <2>2 DEF Init, RequestsTyped, Stages
<1>4. ASSUME NEW q \in Requests
      PROVE  Asks(q) /\ Proceeds(q) /\ SnapIsCurrent(q) /\ Serves(q)
  BY DEF Init, Asks, Proceeds, SnapIsCurrent, Serves, Claimed, Over
<1>5. AliasIsKept /\ ListingIsCurrent
  BY DEF Init, AliasIsKept, ListingIsCurrent
<1>6. QED
  BY <1>1, <1>2, <1>3, <1>4, <1>5 DEF RInv

-----------------------------------------------------------------------------
(***************************************************************************)
(* The refreshes                                                           *)
(***************************************************************************)
Refreshing(q) ==
  \/ Begin(q) \/ Scan(q) \/ Store(q) \/ Abort(q)
  \/ \E id \in Ids : Purge(q, id)
  \/ \E i \in Instances : ReadInstanceSnapshot(q, i) \/ ReadSnapshotFails(q, i)

\* What the refreshes make of a step of the requests
Noted ==
  /\ MovesOn
  /\ changed' = [q \in Refreshes |->
                   IF step[q] = "idle" THEN {}
                   ELSE changed[q] \cup {i \in Instances : pihole'[i] # pihole[i]}]
  /\ UNCHANGED <<tables, deletions, step, shot, missed>>

LEMMA NextIs == NextRefreshes => (\E q \in Refreshes : Refreshing(q)) \/ Noted
<1> SUFFICES ASSUME NextRefreshes PROVE (\E q \in Refreshes : Refreshing(q)) \/ Noted
  OBVIOUS
<1>1. Next => MovesOn
  BY DEF Next, MovesOn, Acts
<1>2. QED
  BY <1>1 DEF NextRefreshes, Refreshing, Noted, MovesOn

LEMMA RefreshingRInv ==
  ASSUME RInv, NEW q \in Refreshes, Refreshing(q)
  PROVE  RInv'
BY RestKeepsRInv DEF Refreshing, Begin, Scan, Store, Abort, Purge, ReadInstanceSnapshot,
  ReadSnapshotFails, Rest

LEMMA MovesOnRInv ==
  ASSUME RInv, MovesOn
  PROVE  RInv'
BY ActsKeepRInv, RegroupKeepsRInv DEF MovesOn

\* The names that the ids of a Pi-hole stand for
LEMMA CanonicalIs ==
  ASSUME NEW q \in Refreshes, shot[q][Baseline] \in Pihole
  PROVE  /\ Canonical(q) \in [Ids -> Names \cup {None}]
         /\ \A id \in Ids : Canonical(q)[id] # None =>
              Canonical(q)[id] \in Names /\ shot[q][Baseline].groups[Canonical(q)[id]] = id
         /\ \A id \in Ids, n \in Names : shot[q][Baseline].groups[n] = id => Canonical(q)[id] # None
<1> DEFINE Is(n, id) == shot[q][Baseline].groups[n] = id
<1>1. \A id \in Ids : Canonical(q)[id] =
        IF \E n \in Names : Is(n, id) THEN CHOOSE n \in Names : Is(n, id) ELSE None
  BY DEF Canonical
<1>2. \A id \in Ids : (\E n \in Names : Is(n, id)) =>
        Canonical(q)[id] \in Names /\ Is(Canonical(q)[id], id)
  BY <1>1
<1>3. None \notin Names
  BY ConstantsAssumption
<1>4. Canonical(q) \in [Ids -> Names \cup {None}]
  <2>1. \A id \in Ids : Canonical(q)[id] \in Names \cup {None}
    BY <1>1, <1>2
  <2>2. QED
    BY <2>1 DEF Canonical
<1>5. QED
  BY <1>1, <1>2, <1>3, <1>4

\* A refresh is undone, or it stores what it has read.
Undoes(q) ==
  /\ step' = [step EXCEPT ![q] = "failed"]
  /\ doomed' = [doomed EXCEPT ![q] = {}] /\ gone' = [gone EXCEPT ![q] = {}]
  /\ UNCHANGED <<group, member, last, late>>

Stores(q) ==
  /\ doomed[q] = {} /\ ~Clash(q)
  /\ step' = [step EXCEPT ![q] = "stored"]
  /\ group' = Groups(q) /\ member' = Memberships(q) \cup Kept(q)
  /\ last' = [i \in Instances |-> IF i \in Answered(q) THEN q
                                 ELSE IF Baseline \in changed[q] THEN None
                                 ELSE last[i]]
  /\ doomed' = [p \in Refreshes |-> doomed[p] \ gone[q]]
  /\ gone' = [gone EXCEPT ![q] = {}]
  /\ late' = [p \in Refreshes |->
                IF p # q /\ step[p] = "storing"
                THEN late[p] \cup {id \in Ids : Canonical(q)[id] # None} ELSE late[p]]

\* A refresh that stores has an answer of the baseline.
LEMMA StoreTypes ==
  ASSUME RefreshesTyped, NEW q \in Refreshes, ShotIsCurrent(q), Store(q) \/ Abort(q)
  PROVE  /\ step[q] = "storing" /\ shot[q][Baseline] \in Pihole /\ Baseline \in Answered(q)
         /\ UNCHANGED <<shot, changed, pihole>>
         /\ Undoes(q) \/ Stores(q)
<1>1. step[q] = "storing" /\ UNCHANGED <<shot, changed, pihole>>
  BY DEF Store, Abort, Rest
<1>2. shot[q][Baseline] # None
  BY <1>1 DEF ShotIsCurrent
<1>3. shot[q][Baseline] \in Pihole /\ Baseline \in Answered(q)
  BY <1>2, ConstantsAssumption DEF RefreshesTyped, Answered
<1>4. Undoes(q) \/ Stores(q)
  BY DEF Store, Abort, Undo, To, tables, Undoes, Stores
<1>5. QED
  BY <1>1, <1>3, <1>4

LEMMA StoreLast ==
  ASSUME RefreshesTyped, NEW q \in Refreshes, Undoes(q) \/ Stores(q)
  PROVE  /\ \E s \in {"stored", "failed"} : step' = [step EXCEPT ![q] = s]
         /\ \A i \in Instances : last'[i] \in {last[i], q, None}
         /\ last' \in [Instances -> Refreshes \cup {None}]
         /\ doomed' \in [Refreshes -> SUBSET Ids] /\ gone' \in [Refreshes -> SUBSET Ids]
         /\ late' \in [Refreshes -> SUBSET Ids]
<1>1. /\ last \in [Instances -> Refreshes \cup {None}]
      /\ doomed \in [Refreshes -> SUBSET Ids] /\ gone \in [Refreshes -> SUBSET Ids]
      /\ late \in [Refreshes -> SUBSET Ids]
  BY DEF RefreshesTyped
<1>2. gone' \in [Refreshes -> SUBSET Ids]
  <2>1. gone' = [gone EXCEPT ![q] = {}]
    BY DEF Undoes, Stores
  <2>2. QED
    BY <1>1, <2>1
<1>3. CASE Undoes(q)
  BY <1>1, <1>2, <1>3 DEF Undoes
<1>4. CASE Stores(q)
  <2>1. last' = [i \in Instances |-> IF i \in Answered(q) THEN q
                                    ELSE IF Baseline \in changed[q] THEN None
                                    ELSE last[i]]
    BY <1>4 DEF Stores
  <2>2. \A i \in Instances : last'[i] \in {last[i], q, None}
    BY <2>1
  <2>3. last' \in [Instances -> Refreshes \cup {None}]
    BY <1>1, <2>1
  <2>4. doomed' \in [Refreshes -> SUBSET Ids]
    BY <1>1, <1>4 DEF Stores
  <2>5. late' \in [Refreshes -> SUBSET Ids]
    <3> DEFINE new(p) == IF p # q /\ step[p] = "storing"
                         THEN late[p] \cup {id \in Ids : Canonical(q)[id] # None} ELSE late[p]
    <3>1. late' = [p \in Refreshes |-> new(p)]
      BY <1>4 DEF Stores
    <3>2. \A p \in Refreshes : new(p) \in SUBSET Ids
      BY <1>1
    <3> HIDE DEF new
    <3>3. QED
      BY <3>1, <3>2
  <2>6. QED
    BY <1>2, <1>4, <2>2, <2>3, <2>4, <2>5 DEF Stores
<1>5. QED
  BY <1>3, <1>4

LEMMA RefreshingKeeps ==
  ASSUME IInv, NEW q \in Refreshes, Refreshing(q)
  PROVE  RefreshesTyped' /\ (\A k \in Refreshes : ShotIsCurrent(k)') /\ StorersBegan'
<1>1. RefreshesTyped /\ (\A k \in Refreshes : ShotIsCurrent(k)) /\ StorersBegan
  BY DEF IInv
<1> USE DEF RefreshesTyped, ShotIsCurrent, StorersBegan
<1>2. CASE Begin(q)
  BY <1>1, <1>2 DEF Begin, To, Rest, tables, deletions
<1>3. ASSUME NEW i \in Instances, ReadInstanceSnapshot(q, i)
      PROVE  RefreshesTyped' /\ (\A k \in Refreshes : ShotIsCurrent(k)') /\ StorersBegan'
  <2>1. /\ shot' = [shot EXCEPT ![q][i] = pihole[i]] /\ step' = [step EXCEPT ![q] = "others"]
        /\ UNCHANGED <<pihole, changed, last, deletions>> /\ i \in Asked(q) /\ shot[q][i] = None
    BY <1>3 DEF ReadInstanceSnapshot, To, Rest, tables
  <2>2. pihole[i] \in Pihole /\ Pihole # {} /\ pihole[i] # None
    BY NoneAssumption DEF IInv, RInv, TablesTyped
  <2>3. RefreshesTyped'
    BY <1>1, <2>1, <2>2 DEF deletions
  <2>4. step[q] \in {"baseline", "others"} /\ (step[q] = "baseline" => i = Baseline)
    BY <1>1, <2>1 DEF Asked
  <2>5. ASSUME NEW k \in Refreshes PROVE ShotIsCurrent(k)'
    <3>1. CASE k # q
      BY <1>1, <2>1, <3>1
    <3>2. CASE k = q
      <4>1. \A j \in Instances : shot'[k][j] = IF j = i THEN pihole[i] ELSE shot[k][j]
        BY <1>1, <2>1, <3>2
      <4>2. step'[k] = "others"
        BY <1>1, <2>1, <3>2
      <4>3. shot'[k][Baseline] # None
        BY <1>1, <2>2, <2>4, <3>2, <4>1, ConstantsAssumption
      <4>4. QED
        BY <1>1, <2>1, <4>1, <4>2, <4>3
    <3>3. QED
      BY <3>1, <3>2
  <2>6. StorersBegan'
    BY <1>1, <2>1
  <2>7. QED
    BY <2>3, <2>5, <2>6
<1>4. ASSUME NEW i \in Instances, ReadSnapshotFails(q, i)
      PROVE  RefreshesTyped' /\ (\A k \in Refreshes : ShotIsCurrent(k)') /\ StorersBegan'
  <2>1. /\ step' = [step EXCEPT ![q] = IF i = Baseline THEN "failed" ELSE "others"]
        /\ UNCHANGED <<pihole, changed, last, shot, deletions>> /\ i \in Asked(q)
    BY <1>4 DEF ReadSnapshotFails, To, Rest, tables
  <2>2. i # Baseline => step[q] = "others"
    BY <2>1 DEF Asked
  <2>3. QED
    BY <1>1, <2>1, <2>2 DEF deletions
<1>5. CASE Store(q) \/ Abort(q)
  <2>1. /\ step[q] = "storing" /\ UNCHANGED <<shot, changed, pihole>>
        /\ Undoes(q) \/ Stores(q)
    BY <1>1, <1>5, StoreTypes
  <2>2. /\ \E s \in {"stored", "failed"} : step' = [step EXCEPT ![q] = s]
        /\ \A i \in Instances : last'[i] \in {last[i], q, None}
        /\ last' \in [Instances -> Refreshes \cup {None}]
        /\ doomed' \in [Refreshes -> SUBSET Ids] /\ gone' \in [Refreshes -> SUBSET Ids]
        /\ late' \in [Refreshes -> SUBSET Ids]
    BY <1>1, <2>1, StoreLast
  <2>3. /\ step' \in [Refreshes -> {"idle", "baseline", "others", "storing", "stored", "failed"}]
        /\ \A k \in Refreshes : step'[k] = step[k] \/ (k = q /\ step'[k] \in {"stored", "failed"})
    BY <1>1, <2>2
  <2>4. RefreshesTyped'
    BY <1>1, <2>1, <2>2, <2>3
  <2>5. \A k \in Refreshes : ShotIsCurrent(k)'
    BY <1>1, <2>1, <2>3
  <2>6. StorersBegan'
    BY <1>1, <2>1, <2>2, <2>3
  <2>7. QED
    BY <2>4, <2>5, <2>6
<1>6. CASE Scan(q)
  <2>1. /\ step[q] = "others" /\ step' = [step EXCEPT ![q] = "storing"]
        /\ UNCHANGED <<pihole, changed, last, shot, gone, late>>
        /\ doomed' \in [Refreshes -> SUBSET Ids]
    BY <1>1, <1>6 DEF Scan, To, Rest, tables
  <2>2. QED
    BY <1>1, <2>1
<1>7. ASSUME NEW id \in Ids, Purge(q, id)
      PROVE  RefreshesTyped' /\ (\A k \in Refreshes : ShotIsCurrent(k)') /\ StorersBegan'
  <2>1. /\ UNCHANGED <<pihole, changed, last, shot, step, late>>
        /\ doomed' = [doomed EXCEPT ![q] = @ \ {id}] /\ gone' = [gone EXCEPT ![q] = @ \cup {id}]
    BY <1>7 DEF Purge, Rest, tables
  <2>2. doomed' \in [Refreshes -> SUBSET Ids] /\ gone' \in [Refreshes -> SUBSET Ids]
    BY <1>1, <2>1
  <2>3. QED
    BY <1>1, <2>1, <2>2
<1>8. QED
  BY <1>2, <1>3, <1>4, <1>5, <1>6, <1>7 DEF Refreshing

\* What a refresh is to delete, while it and the others go on
LEMMA RefreshingDeletes ==
  ASSUME IInv, NEW q \in Refreshes, Refreshing(q), NEW k \in Refreshes
  PROVE  Deleting(k)'
<1>1. RefreshesTyped /\ ShotIsCurrent(q) /\ Deleting(k)
  BY DEF IInv
<1> USE DEF RefreshesTyped
<1>2. shot'[k] = shot[k] => Canonical(k)' = Canonical(k)
  BY DEF Canonical
<1>3. CASE Begin(q)
  BY <1>1, <1>2, <1>3 DEF Begin, To, Rest, tables, deletions, Deleting
<1>4. ASSUME NEW i \in Instances, ReadInstanceSnapshot(q, i) \/ ReadSnapshotFails(q, i)
      PROVE  Deleting(k)'
  <2>1. /\ UNCHANGED <<group, deletions>> /\ step[q] \in {"baseline", "others"}
        /\ \E x \in {"failed", "others"} : step' = [step EXCEPT ![q] = x]
        /\ k # q => shot'[k] = shot[k]
    BY <1>1, <1>4 DEF ReadInstanceSnapshot, ReadSnapshotFails, Asked, To, Rest, tables
  <2>2. QED
    BY <1>1, <1>2, <2>1 DEF Deleting, deletions
<1>5. CASE Scan(q)
  <2>1. /\ step' = [step EXCEPT ![q] = "storing"] /\ step[q] = "others"
        /\ doomed' = [doomed EXCEPT ![q] = {id \in Ids : group[id] # None /\ Canonical(q)[id] = None}]
        /\ UNCHANGED <<group, gone, late, shot>>
    BY <1>5 DEF Scan, To, Rest, tables
  <2>2. CASE k = q
    BY <1>1, <1>2, <2>1, <2>2 DEF Deleting
  <2>3. CASE k # q
    BY <1>1, <1>2, <2>1, <2>3 DEF Deleting
  <2>4. QED
    BY <2>2, <2>3
<1>6. ASSUME NEW id \in Ids, Purge(q, id)
      PROVE  Deleting(k)'
  <2>1. /\ UNCHANGED <<group, late, shot, step>> /\ step[q] = "storing" /\ id \in doomed[q]
        /\ doomed' = [doomed EXCEPT ![q] = @ \ {id}] /\ gone' = [gone EXCEPT ![q] = @ \cup {id}]
    BY <1>6 DEF Purge, Rest, tables
  <2>2. CASE k = q
    <3>1. /\ doomed'[k] = doomed[k] \ {id} /\ gone'[k] = gone[k] \cup {id}
          /\ doomed'[k] \cup gone'[k] = doomed[k] \cup gone[k]
      BY <1>1, <2>1, <2>2
    <3>2. QED
      BY <1>1, <1>2, <2>1, <2>2, <3>1 DEF Deleting
  <2>3. CASE k # q
    BY <1>1, <1>2, <2>1, <2>3 DEF Deleting
  <2>4. QED
    BY <2>2, <2>3
<1>7. CASE Store(q) \/ Abort(q)
  <2>1. step[q] = "storing" /\ UNCHANGED shot /\ (Undoes(q) \/ Stores(q))
    BY <1>1, <1>7, StoreTypes
  <2>2. CASE Undoes(q)
    <3>1. CASE k = q
      BY <1>1, <1>2, <2>1, <2>2, <3>1 DEF Undoes, Deleting
    <3>2. CASE k # q
      BY <1>1, <1>2, <2>1, <2>2, <3>2 DEF Undoes, Deleting
    <3>3. QED
      BY <3>1, <3>2
  <2>3. CASE Stores(q)
    <3>1. CASE k = q
      <4>1. step'[k] = "stored" /\ doomed'[k] = {} /\ gone'[k] = {}
        BY <1>1, <2>3, <3>1 DEF Stores
      <4>2. QED
        BY <4>1 DEF Deleting
    <3>2. CASE k # q /\ step[k] # "storing"
      <4>1. step'[k] = step[k] /\ doomed'[k] = doomed[k] \ gone[q] /\ gone'[k] = gone[k]
        BY <1>1, <2>3, <3>2 DEF Stores
      <4>2. QED
        BY <1>1, <3>2, <4>1 DEF Deleting
    <3>3. CASE k # q /\ step[k] = "storing"
      <4>1. /\ step'[k] = step[k] /\ doomed'[k] = doomed[k] \ gone[q] /\ gone'[k] = gone[k]
            /\ late'[k] = late[k] \cup {id \in Ids : Canonical(q)[id] # None}
        BY <1>1, <2>3, <3>3 DEF Stores
      <4>2. \A id \in Ids : group'[id] # None =>
              Canonical(q)[id] # None \/ (id \notin gone[q] /\ group[id] # None)
        BY <2>3 DEF Stores, Groups, Left
      <4>3. ASSUME NEW id \in Ids
            PROVE  /\ id \in doomed'[k] \cup gone'[k] => Canonical(k)[id] = None
                   /\ Canonical(k)[id] = None /\ group'[id] # None =>
                        id \in doomed'[k] \cup gone'[k] \cup late'[k]
        BY <1>1, <3>3, <4>1, <4>2 DEF Deleting
      <4>4. QED
        BY <1>2, <2>1, <3>3, <4>1, <4>3 DEF Deleting
    <3>4. QED
      BY <3>1, <3>2, <3>3
  <2>4. QED
    BY <2>1, <2>2, <2>3
<1>8. QED
  BY <1>3, <1>4, <1>5, <1>6, <1>7 DEF Refreshing

LEMMA NotedKeeps ==
  ASSUME IInv, Noted
  PROVE  RefreshesTyped' /\ (\A k \in Refreshes : (ShotIsCurrent(k) /\ Deleting(k))') /\ StorersBegan'
<1>1. UNCHANGED <<step, shot, last, group, doomed, gone, late>>
  BY DEF Noted, tables, deletions
<1>2. \A k \in Refreshes : changed'[k] =
        IF step[k] = "idle" THEN {}
        ELSE changed[k] \cup {i \in Instances : pihole'[i] # pihole[i]}
  BY DEF Noted
<1>3. RefreshesTyped'
  BY <1>1 DEF IInv, RefreshesTyped, Noted
<1>4. ASSUME NEW k \in Refreshes PROVE ShotIsCurrent(k)'
  <2>1. ShotIsCurrent(k)
    BY DEF IInv
  <2>2. ASSUME NEW i \in Instances \ changed'[k], shot[k][i] # None PROVE shot[k][i] = pihole'[i]
    <3>1. step[k] # "idle"
      BY <2>1, <2>2 DEF ShotIsCurrent
    <3>2. i \notin changed[k] /\ pihole'[i] = pihole[i]
      BY <1>2, <2>2, <3>1
    <3>3. QED
      BY <2>1, <2>2, <3>2 DEF ShotIsCurrent
  <2>3. QED
    BY <1>1, <2>1, <2>2 DEF ShotIsCurrent
<1>5. ASSUME NEW k \in Refreshes PROVE Deleting(k)'
  <2>1. Deleting(k) /\ Canonical(k)' = Canonical(k)
    BY <1>1 DEF IInv, Canonical
  <2>2. QED
    BY <1>1, <2>1 DEF Deleting
<1>6. QED
  BY <1>1, <1>3, <1>4, <1>5 DEF IInv, StorersBegan

-----------------------------------------------------------------------------
(***************************************************************************)
(* The tables                                                              *)
(***************************************************************************)
\* The client c of the Pi-hole i is in the group that has the id at the baseline.
Belongs(i, c, id) ==
  \E n \in Names :
    /\ pihole[Baseline].groups[n] = id
    /\ pihole[i].clients[c] # None /\ pihole[i].groups[n] # None
    /\ pihole[i].groups[n] \in pihole[i].clients[c].groups

Listed(i, c, id) == [at |-> i, client |-> c, group |-> id] \in member
TrueAt(i) == \A c \in Clients, id \in Ids : Listed(i, c, id) <=> Belongs(i, c, id)
Known(i) == last[i] # None /\ {i, Baseline} \cap changed[last[i]] = {}

LEMMA MembershipsAre == MembershipsAreTrue <=> \A i \in Instances : Known(i) => TrueAt(i)
BY DEF MembershipsAreTrue, Known, TrueAt, Listed, Belongs

\* A step of the requests changes no table, and no Pi-hole that is known still.
LEMMA NotedCache ==
  ASSUME IInv, Noted
  PROVE  CacheInv'
<1>1. /\ TablesOK /\ MembershipsAreTrue /\ FiltersAreTrue /\ RefreshesTyped /\ StorersBegan
      /\ UNCHANGED <<group, member, last, step, doomed, gone, late>>
  BY DEF IInv, CacheInv, Noted, tables, deletions
<1>2. TablesOK'
  BY <1>1 DEF TablesOK
<1>3. \A q \in Refreshes : step[q] # "idle" =>
        \A i \in Instances \ changed'[q] : i \notin changed[q] /\ pihole'[i] = pihole[i]
  BY DEF Noted
<1>4. Baseline \in Instances
  BY ConstantsAssumption
<1>5. ASSUME NEW i \in Instances, Known(i)' PROVE TrueAt(i)'
  <2>1. last[i] \in Refreshes /\ step[last[i]] # "idle" /\ {i, Baseline} \cap changed'[last[i]] = {}
    BY <1>1, <1>5 DEF Known, RefreshesTyped, StorersBegan
  <2>2. /\ {i, Baseline} \cap changed[last[i]] = {}
        /\ pihole'[i] = pihole[i] /\ pihole'[Baseline] = pihole[Baseline]
    BY <1>3, <1>4, <2>1
  <2>3. TrueAt(i)
    BY <1>1, <1>5, <2>2, MembershipsAre DEF Known
  <2>4. QED
    BY <1>1, <2>2, <2>3 DEF TrueAt, Listed, Belongs
<1>6. MembershipsAreTrue'
  BY <1>5 DEF MembershipsAreTrue, Known, TrueAt, Listed, Belongs
<1>7. FiltersAreTrue'
  <2>1. CASE last[Baseline] # None /\ Baseline \notin changed'[last[Baseline]]
    <3>1. last[Baseline] \in Refreshes /\ step[last[Baseline]] # "idle"
      BY <1>1, <1>4, <2>1 DEF RefreshesTyped, StorersBegan
    <3>2. Baseline \notin changed[last[Baseline]] /\ pihole'[Baseline] = pihole[Baseline]
      BY <1>3, <1>4, <2>1, <3>1
    <3>3. QED
      BY <1>1, <2>1, <3>2 DEF FiltersAreTrue
  <2>2. CASE ~(last[Baseline] # None /\ Baseline \notin changed'[last[Baseline]])
    BY <1>1, <2>2 DEF FiltersAreTrue
  <2>3. QED
    BY <2>1, <2>2
<1>8. QED
  BY <1>2, <1>6, <1>7 DEF CacheInv

\* A refresh that does not store changes no table, and no Pi-hole either.
LEMMA ReadingCache ==
  ASSUME CacheInv, RefreshesTyped, UNCHANGED <<pihole, group, member, last, changed, late>>,
         RefreshesTyped'
  PROVE  CacheInv'
<1>1. TablesOK'
  BY DEF CacheInv, TablesOK, RefreshesTyped
<1>2. MembershipsAreTrue'
  BY DEF CacheInv, MembershipsAreTrue
<1>3. FiltersAreTrue'
  BY DEF CacheInv, FiltersAreTrue
<1>4. QED
  BY <1>1, <1>2, <1>3 DEF CacheInv

\* A refresh that stores writes what it has read.
LEMMA StoreCache ==
  ASSUME IInv, NEW q \in Refreshes, Store(q) \/ Abort(q), Stores(q), RefreshesTyped'
  PROVE  CacheInv'
<1>1. /\ RefreshesTyped /\ ShotIsCurrent(q) /\ Deleting(q) /\ CacheInv /\ TablesTyped
      /\ Baseline \in Instances
  BY ConstantsAssumption DEF IInv, RInv
<1>2. /\ shot[q][Baseline] \in Pihole /\ Baseline \in Answered(q)
      /\ UNCHANGED <<shot, changed, pihole>> /\ step[q] = "storing"
  BY <1>1, StoreTypes
<1>0. /\ group' = Groups(q) /\ member' = Memberships(q) \cup Kept(q)
      /\ last' = [i \in Instances |-> IF i \in Answered(q) THEN q
                                     ELSE IF Baseline \in changed[q] THEN None
                                     ELSE last[i]]
      /\ doomed[q] = {} /\ late'[q] = late[q] /\ ~Clash(q)
  BY <1>1 DEF Stores, RefreshesTyped
<1>3. /\ Canonical(q) \in [Ids -> Names \cup {None}]
      /\ \A id \in Ids : Canonical(q)[id] # None =>
           Canonical(q)[id] \in Names /\ shot[q][Baseline].groups[Canonical(q)[id]] = id
      /\ \A id \in Ids, n \in Names : shot[q][Baseline].groups[n] = id => Canonical(q)[id] # None
  BY <1>2, CanonicalIs
<1>4. TablesOK'
  <2>0. group \in GroupTable /\ \A m \in member : group[m.group] # None /\ m \in Membership
    BY <1>1 DEF CacheInv, TablesOK
  <2>1. /\ \A id \in Ids : group'[id] = IF Canonical(q)[id] # None THEN Canonical(q)[id]
                                       ELSE IF id \in gone[q] THEN None ELSE group[id]
        /\ group' \in [Ids -> Names \cup {None}]
    BY <1>0, <1>3, <2>0 DEF Groups, Left, GroupTable
  <2>2. ASSUME NEW x \in Ids, NEW y \in Ids, x # y, group'[x] # None PROVE group'[x] # group'[y]
    <3>1. \A u, v \in Ids : u # v /\ Canonical(q)[u] # None /\ Canonical(q)[v] = None =>
                             Canonical(q)[u] # Left(q)[v]
      BY <1>0 DEF Clash
    <3>2. \A v \in Ids : Left(q)[v] = IF v \in gone[q] THEN None ELSE group[v]
      BY DEF Left
    <3>3. CASE Canonical(q)[x] # None /\ Canonical(q)[y] # None
      BY <1>3, <2>1, <2>2, <3>3
    <3>4. CASE Canonical(q)[x] # None /\ Canonical(q)[y] = None
      BY <2>1, <2>2, <3>1, <3>2, <3>4
    <3>5. CASE Canonical(q)[x] = None /\ Canonical(q)[y] # None
      BY <2>1, <2>2, <3>1, <3>2, <3>5
    <3>6. CASE Canonical(q)[x] = None /\ Canonical(q)[y] = None
      BY <2>0, <2>1, <2>2, <3>6 DEF GroupTable
    <3>7. QED
      BY <3>3, <3>4, <3>5, <3>6
  <2>3. member' \subseteq Membership
    BY <1>0, <2>0 DEF Memberships, Kept
  <2>4. ASSUME NEW m \in member' PROVE group'[m.group] # None
    <3>1. m.group \in Ids
      BY <2>3 DEF Membership
    <3>2. CASE m \in Memberships(q)
      BY <2>1, <3>1, <3>2 DEF Memberships
    <3>3. CASE m \in Kept(q)
      BY <2>0, <2>1, <3>1, <3>3 DEF Kept
    <3>4. QED
      BY <1>0, <3>2, <3>3
  <2>5. group' \in GroupTable
    BY <2>1, <2>2 DEF GroupTable
  <2>6. QED
    BY <2>3, <2>4, <2>5 DEF TablesOK, RefreshesTyped
\* As long as the baseline is what the refresh has read, so are the groups.
<1>5. ASSUME Baseline \notin changed[q]
      PROVE  /\ shot[q][Baseline] = pihole[Baseline]
             /\ \A id \in Ids, n \in Names :
                  pihole[Baseline].groups[n] = id <=> Canonical(q)[id] = n
  <2>1. shot[q][Baseline] = pihole[Baseline] /\ Distinct(pihole[Baseline])
    BY <1>1, <1>2, <1>5 DEF ShotIsCurrent, Answered, TablesTyped
  <2>2. None \notin Ids /\ None \notin Names
    BY ConstantsAssumption
  <2>3. QED
    BY <1>3, <2>1, <2>2 DEF Distinct
<1>6. ASSUME NEW i \in Instances, Known(i)' PROVE TrueAt(i)'
  <2>1. ASSUME NEW c \in Clients, NEW id \in Ids
        PROVE  Listed(i, c, id)' <=> Belongs(i, c, id)'
    <3> DEFINE m == [at |-> i, client |-> c, group |-> id]
    <3>1. m \in Membership /\ m.at = i /\ m.client = c /\ m.group = id
      BY DEF Membership
    <3>2. Belongs(i, c, id)' <=> Belongs(i, c, id)
      BY <1>2 DEF Belongs
    <3>3. CASE i \in Answered(q)
      <4>1. last'[i] = q
        BY <1>0, <3>3
      <4>2. {i, Baseline} \cap changed[q] = {}
        BY <1>2, <1>6, <4>1 DEF Known
      <4>3. shot[q][i] = pihole[i] /\ Baseline \notin changed[q]
        BY <1>1, <3>3, <4>2 DEF ShotIsCurrent, Answered
      <4>4. Listed(i, c, id)' <=> m \in Memberships(q)
        BY <1>0, <3>1, <3>3 DEF Listed, Kept
      <4>5. m \in Memberships(q) <=>
              /\ Canonical(q)[id] # None
              /\ pihole[i].clients[c] # None
              /\ pihole[i].groups[Canonical(q)[id]] # None
              /\ pihole[i].groups[Canonical(q)[id]] \in pihole[i].clients[c].groups
        BY <3>1, <3>3, <4>3 DEF Memberships
      <4>6. \A n \in Names : pihole[Baseline].groups[n] = id <=> Canonical(q)[id] = n
        BY <1>5, <4>3
      <4>7. Canonical(q)[id] # None <=> Canonical(q)[id] \in Names
        BY <1>3, ConstantsAssumption
      <4>8. QED
        BY <3>2, <4>4, <4>5, <4>6, <4>7 DEF Belongs
    <3>4. CASE i \notin Answered(q)
      <4>1. Baseline \notin changed[q] /\ last'[i] = last[i]
        BY <1>0, <1>6, <3>4 DEF Known
      <4>2. Known(i)
        BY <1>2, <1>6, <4>1 DEF Known
      <4>3. Listed(i, c, id) <=> Belongs(i, c, id)
        BY <1>1, <4>2, MembershipsAre DEF CacheInv, TrueAt
      <4>4. Listed(i, c, id)' <=> Listed(i, c, id) /\ id \notin gone[q]
        BY <1>0, <3>1, <3>4 DEF Listed, Kept, Memberships
      <4>5. Belongs(i, c, id) => id \notin gone[q]
        BY <1>1, <1>2, <1>3, <1>5, <4>1 DEF Belongs, Deleting
      <4>6. QED
        BY <3>2, <4>3, <4>4, <4>5
    <3>5. QED
      BY <3>3, <3>4
  <2>2. QED
    BY <2>1 DEF TrueAt
<1>7. MembershipsAreTrue'
  BY <1>6 DEF MembershipsAreTrue, Known, TrueAt, Listed, Belongs
<1>8. FiltersAreTrue'
  <2>0. last'[Baseline] = q
    BY <1>0, <1>1, <1>2
  <2>1. SUFFICES ASSUME Baseline \notin changed[q], NEW id \in Ids
                 PROVE  IF \E n \in Names : pihole[Baseline].groups[n] = id
                        THEN group'[id] # None /\ pihole[Baseline].groups[group'[id]] = id
                        ELSE group'[id] = None \/ id \in late[q]
    BY <1>0, <1>1, <1>2, <2>0 DEF FiltersAreTrue
  <2>2. \A n \in Names : pihole[Baseline].groups[n] = id <=> Canonical(q)[id] = n
    BY <1>5, <2>1
  <2>3. CASE Canonical(q)[id] # None
    <3>1. group'[id] = Canonical(q)[id] /\ Canonical(q)[id] \in Names
      BY <1>0, <1>3, <2>3 DEF Groups
    <3>2. QED
      BY <2>2, <2>3, <3>1
  <2>4. CASE Canonical(q)[id] = None
    <3>1. group'[id] = IF id \in gone[q] THEN None ELSE group[id]
      BY <1>0, <2>4 DEF Groups, Left
    <3>2. group[id] # None => id \in gone[q] \cup late[q]
      BY <1>0, <1>1, <1>2, <2>4 DEF Deleting
    <3>3. ~\E n \in Names : pihole[Baseline].groups[n] = id
      BY <2>2, <2>4, ConstantsAssumption
    <3>4. QED
      BY <3>1, <3>2, <3>3
  <2>5. QED
    BY <2>3, <2>4
<1>9. QED
  BY <1>4, <1>7, <1>8 DEF CacheInv

-----------------------------------------------------------------------------
(***************************************************************************)
(* The theorems                                                            *)
(***************************************************************************)
LEMMA InitKeeps == InitRefreshes => IInv
<1> SUFFICES ASSUME InitRefreshes PROVE IInv
  OBVIOUS
<1>1. RInv
  BY InitRInv DEF InitRefreshes
<1>2. RefreshesTyped /\ StorersBegan
  BY DEF InitRefreshes, RefreshesTyped, StorersBegan
<1>3. \A q \in Refreshes : ShotIsCurrent(q) /\ Deleting(q)
  BY DEF InitRefreshes, ShotIsCurrent, Deleting
<1>4. CacheInv
  BY ConstantsAssumption, OldGroupsAssumption DEF InitRefreshes, CacheInv, TablesOK, MembershipsAreTrue, FiltersAreTrue
<1>5. QED
  BY <1>1, <1>2, <1>3, <1>4 DEF IInv

LEMMA NextKeeps == IInv /\ [NextRefreshes]_<<vars, own>> => IInv'
<1> SUFFICES ASSUME IInv, [NextRefreshes]_<<vars, own>> PROVE IInv'
  OBVIOUS
<1>1. CASE \E q \in Refreshes : Refreshing(q)
  <2>1. PICK q \in Refreshes : Refreshing(q)
    BY <1>1
  <2>2. /\ RInv' /\ RefreshesTyped' /\ StorersBegan'
        /\ \A k \in Refreshes : ShotIsCurrent(k)' /\ Deleting(k)'
    BY <2>1, RefreshingRInv, RefreshingKeeps, RefreshingDeletes DEF IInv
  <2>3. CASE UNCHANGED <<pihole, group, member, last, changed, late>>
    BY <2>2, <2>3, ReadingCache DEF IInv
  <2>4. CASE Store(q) \/ Abort(q)
    <3>1. /\ RefreshesTyped /\ ShotIsCurrent(q) /\ RefreshesTyped'
      BY <2>2 DEF IInv
    <3>2. UNCHANGED <<shot, changed, pihole>> /\ (Undoes(q) \/ Stores(q))
      BY <2>4, <3>1, StoreTypes
    <3>3. CASE Undoes(q)
      BY <2>3, <3>2, <3>3 DEF Undoes
    <3>4. CASE Stores(q)
      <4>1. CacheInv'
        BY <2>4, <3>1, <3>4, StoreCache
      <4>2. QED
        BY <2>2, <4>1 DEF IInv
    <3>5. QED
      BY <3>2, <3>3, <3>4
  <2>5. \/ Store(q) \/ Abort(q)
        \/ UNCHANGED <<pihole, group, member, last, changed, late>>
    BY <2>1 DEF Refreshing, Begin, Scan, Purge, ReadInstanceSnapshot, ReadSnapshotFails, Rest,
      tables, deletions
  <2>6. QED
    BY <2>3, <2>4, <2>5
<1>2. CASE Noted
  <2>1. RInv'
    BY <1>2, MovesOnRInv DEF IInv, Noted
  <2>2. QED
    BY <1>2, <2>1, NotedKeeps, NotedCache DEF IInv
<1>3. CASE UNCHANGED <<vars, own>>
  <2>1. RInv'
    BY <1>3, RestKeepsRInv DEF IInv, vars
  <2>2. RefreshesTyped' /\ (\A k \in Refreshes : ShotIsCurrent(k)') /\ StorersBegan'
    BY <1>3 DEF IInv, RefreshesTyped, ShotIsCurrent, StorersBegan, vars, own, tables, deletions
  <2>3. CacheInv'
    BY <1>3, <2>2, ReadingCache DEF IInv, vars, own, tables, deletions
  <2>4. ASSUME NEW k \in Refreshes PROVE Deleting(k)'
    <3>1. UNCHANGED <<shot, step, group, doomed, gone, late>>
      BY <1>3 DEF own, tables, deletions
    <3>2. Deleting(k) /\ Canonical(k)' = Canonical(k)
      BY <3>1 DEF IInv, Canonical
    <3>3. QED
      BY <3>1, <3>2 DEF Deleting
  <2>5. QED
    BY <2>1, <2>2, <2>3, <2>4 DEF IInv
<1>4. QED
  BY <1>1, <1>2, <1>3, NextIs

LEMMA InvariantHolds == SpecRefreshes => []IInv
BY InitKeeps, NextKeeps, PTL DEF SpecRefreshes

\* refreshGroupMemberships: the tables of groups and memberships are well formed, and say
\* what the Pi-holes say as long as these stay as they were read, whatever ids a group has
\* where, however many refreshes overlap, whose transactions interleave statement by
\* statement, and whichever Pi-holes they could not read; a group may only be left over that
\* another refresh stored after the last one had looked for those to delete.
THEOREM CacheIsTrue == SpecRefreshes => []CacheInv
<1>1. IInv => CacheInv
  BY DEF IInv
<1>2. QED
  BY <1>1, InvariantHolds, PTL

\* applyClientsToInstance: a Pi-hole that a request counts as successful has the clients in
\* the groups of the names the user chose at the baseline, and with the comment, until
\* somebody else changes that Pi-hole.
THEOREM GroupsGoByTheirNames == SpecRefreshes => []GroupsGoByName
<1>1. IInv => GroupsGoByName
  BY DEF IInv, RInv, Serves, AsWanted, GroupsGoByName
<1>2. QED
  BY <1>1, InvariantHolds, PTL

\* persistRequestedSupportMetadata: an alias is lost only to a listing that had read it
\* before, and a request that is refused has changed nothing.
THEOREM ClientsAreAsSaved == SpecRefreshes => []ClientInv
<1>1. IInv => ClientInv
  <2> SUFFICES ASSUME IInv PROVE ClientInv
    OBVIOUS
  <2>1. /\ TablesTyped /\ AliasesTyped /\ RequestsTyped /\ AliasIsKept
        /\ \A r \in Requests : Proceeds(r)
    BY DEF IInv, RInv
  <2>2. \A r \in Requests : /\ snap[r] = None \/ stage[r] = "writing"
                            /\ stage[r] \in Over => todo[r] = {}
                            /\ stage[r] = "partial" <=> failed[r] # {} /\ todo[r] = {}
    BY <2>1 DEF Proceeds, Over
  <2>3. TypeOK
    BY <2>1, <2>2 DEF TypeOK, TablesTyped, AliasesTyped, RequestsTyped, Stages, Aliased
  <2>4. RefusedIsNothing
    BY <2>1 DEF Proceeds, RefusedIsNothing
  <2>5. QED
    BY <2>1, <2>3, <2>4 DEF ClientInv
<1>2. QED
  BY <1>1, InvariantHolds, PTL


-----------------------------------------------------------------------------
(***************************************************************************)
(* What a request says nothing about                                       *)
(***************************************************************************)
RestStays(r, i, c) ==
  LET old == pihole[i].clients[c]
      new == pihole'[i].clients[c]
  IN  old # None =>
        /\ c \notin DOMAIN want[r] => new = old
        /\ c \in DOMAIN want[r] =>
             /\ want[r][c].names = None => new.groups = old.groups
             /\ want[r][c].comment = None => new.comment = old.comment

RestsStay ==
  \A r \in Requests : \A i \in (todo[r] \ todo'[r]) \ moved[r] :
    \A c \in Clients : RestStays(r, i, c)

LEMMA WriteLeavesRest ==
  ASSUME RInv, NEW r \in Requests, NEW i \in Instances \ moved[r],
         Write(r, i) \/ WriteFails(r, i), NEW c \in Clients
  PROVE  RestStays(r, i, c)
<1>1. SnapIsCurrent(r) /\ RequestsTyped /\ TablesTyped
  BY DEF RInv
<1>2. PICK some \in SUBSET Sent(r, i) : Apply(r, i, some)
  BY WriteSteps
<1>3. Turn(r, i) /\ snap[r] # None
  BY WriteSteps
<1>4. snap[r] = pihole[i]
  BY <1>1, <1>3 DEF SnapIsCurrent, Turn
<1>5. pihole'[i].clients[c] = IF c \in some THEN NextClient(r, c) ELSE pihole[i].clients[c]
  BY <1>1, <1>2, <1>3, AppliedTypes
<1>6. some \subseteq DOMAIN want[r]
  BY <1>2 DEF Sent, Unlike
<1>7. CASE c \in some
  BY <1>4, <1>5, <1>6, <1>7 DEF NextClient, RestStays
<1>8. CASE c \notin some
  BY <1>5, <1>8 DEF RestStays
<1>9. QED
  BY <1>7, <1>8

\* A step that changes no Pi-hole, or lets no request have done with one, is harmless.
LEMMA HarmlessForRest ==
  ASSUME UNCHANGED pihole \/ UNCHANGED todo
  PROVE  RestsStay
BY DEF RestsStay, RestStays

LEMMA ActsLeaveRest ==
  ASSUME RInv, NEW r \in Requests, Acts(r)
  PROVE  RestsStay
<1>1. RequestsTyped /\ AliasesTyped
  BY DEF RInv
<1>2. CASE \/ SaveClients(r) \/ UpdateClient(r) \/ SyncClients(r) \/ ListClients(r)
           \/ LoadSupportEntries(r) \/ PersistSupportEntries(r)
           \/ ReadBaseline(r) \/ ReadBaselineFails(r) \/ SaveMetadata(r)
           \/ \E i \in Instances : ReadInstance(r, i) \/ ReadInstanceFails(r, i)
  <2>1. UNCHANGED pihole
    BY <1>2 DEF SaveClients, UpdateClient, SyncClients, ListClients, Ask,
                LoadSupportEntries, PersistSupportEntries, ReadBaseline, ReadBaselineFails,
                SaveMetadata, ReadInstance, ReadInstanceFails
  <2>2. QED
    BY <2>1, HarmlessForRest
<1>3. ASSUME NEW i \in Instances, Write(r, i) \/ WriteFails(r, i)
      PROVE  RestsStay
  <2>1. SUFFICES ASSUME NEW q \in Requests, NEW j \in (todo[q] \ todo'[q]) \ moved[q],
                        NEW c \in Clients
                 PROVE  RestStays(q, j, c)
    BY DEF RestsStay
  <2>2. q = r
    BY <1>1, <1>3, <2>1, ActsKeep DEF OthersKeep
  <2>3. Done(r, i, TRUE) \/ Done(r, i, FALSE)
    BY <1>3, WriteSteps
  <2>4. todo'[r] = todo[r] \ {i}
    BY <1>1, <2>3 DEF Done, RequestsTyped
  <2>5. j = i /\ i \notin moved[r]
    BY <2>1, <2>2, <2>4
  <2>6. QED
    BY <1>3, <2>2, <2>5, WriteLeavesRest
<1>4. QED
  BY <1>2, <1>3 DEF Acts

LEMMA NextLeavesRest == IInv /\ [NextRefreshes]_<<vars, own>> => [RestsStay]_vars
<1> SUFFICES ASSUME IInv, NextRefreshes PROVE RestsStay
  BY DEF vars
<1>1. CASE \E q \in Refreshes : Refreshing(q)
  <2>1. UNCHANGED pihole
    BY <1>1 DEF Refreshing, Begin, Scan, Purge, Store, Abort, ReadInstanceSnapshot,
      ReadSnapshotFails, Rest
  <2>2. QED
    BY <2>1, HarmlessForRest
<1>2. CASE \E r \in Requests : Acts(r)
  BY <1>2, ActsLeaveRest DEF IInv
<1>3. CASE \E i \in Instances : Regroup(i)
  <2>1. UNCHANGED todo
    BY <1>3 DEF Regroup, request
  <2>2. QED
    BY <2>1, HarmlessForRest
<1>4. QED
  BY <1>1, <1>2, <1>3, NextIs DEF Noted, MovesOn

\* applyClientsToInstance: a client that a request does not name stays as it is, and so do
\* the groups or the comment of one it names, if it says nothing about them, at every
\* Pi-hole that nobody else has changed since the request began.
THEOREM TheRestIsKept == SpecRefreshes => KeepsTheRest
<1>1. IInv /\ [NextRefreshes]_<<vars, own>> => [RestsStay]_vars
  BY NextLeavesRest
<1>2. SpecRefreshes => [][RestsStay]_vars
  BY <1>1, InvariantHolds, PTL DEF SpecRefreshes
<1>3. [][RestsStay]_vars => KeepsTheRest
  BY DEF RestsStay, RestStays, KeepsTheRest
<1>4. QED
  BY <1>2, <1>3, PTL
=============================================================================
