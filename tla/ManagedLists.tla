---------------------------- MODULE ManagedLists ----------------------------
(***************************************************************************)
(* ListsService and DomainsService: the lists and the domains of the       *)
(* Pi-holes.  Their handlers are alike.                                    *)
(*                                                                         *)
(* Unlike groups, they are changed without a look at what the Pi-holes     *)
(* have, and a Pi-hole that fails holds nothing back at the others.  The   *)
(* synchronisation goes from all to all: what any Pi-hole has is created   *)
(* where it was missing, and nothing is changed or deleted.  The tables    *)
(* managedList and managedDomain are written and never read: left out.     *)
(* A Pi-hole may reject an entry in an answer: only for a new domain does  *)
(* that count as a failure.                                                *)
(***************************************************************************)
EXTENDS Naturals, FiniteSets

CONSTANTS Instances,
          Baseline,
          Entries,   \* lists and domains, by their keys
          Domains,   \* those that are domains
          Contents,  \* comment, groups and enabled
          Starts,    \* what a Pi-hole may have at first
          Requests,  \* requests of users: each one is made once
          MaxFaults, \* bound on the accesses that fail
          None

Table == [Entries -> Contents \cup {None}]

ASSUME ConstantsAssumption ==
  /\ Baseline \in Instances /\ Domains \subseteq Entries
  /\ None \notin Contents /\ Starts \subseteq Table

ASSUME NoneAssumption == \A t \in Table : t # None
ASSUME BoundsAssumption == MaxFaults \in Nat

VARIABLES entries, \* the entries of each Pi-hole
          op,      \* what each request asks for
          stage,   \* where it stands
          snap,    \* what it has read from each Pi-hole, or None
          unread,  \* those it has yet to read
          todo,    \* those it has yet to write to
          failed,  \* those it could not write to
          faults,
          rejected, \* history: what the Pi-holes would not create for each, in their answers
          first     \* history: the entries before the first request

request == <<op, stage, snap, unread, todo, failed>>
vars == <<entries, request, faults, rejected, first>>

Nothing == [kind |-> "none"]
NoSnap == [i \in Instances |-> None]

Init ==
  /\ entries \in [Instances -> Starts]
  /\ op = [r \in Requests |-> Nothing]
  /\ stage = [r \in Requests |-> "idle"]
  /\ snap = [r \in Requests |-> NoSnap]
  /\ unread = [r \in Requests |-> {}]
  /\ todo = [r \in Requests |-> {}]
  /\ failed = [r \in Requests |-> {}]
  /\ faults = 0
  /\ rejected = [r \in Requests |-> {}]
  /\ first = entries

Fault == faults < MaxFaults /\ faults' = faults + 1

-----------------------------------------------------------------------------
(***************************************************************************)
(* The requests                                                            *)
(***************************************************************************)
Ask(r, what, reads) ==
  /\ stage[r] = "idle"
  /\ op' = [op EXCEPT ![r] = what]
  /\ stage' = [stage EXCEPT ![r] = IF reads = {} THEN "writing" ELSE "reading"]
  /\ unread' = [unread EXCEPT ![r] = reads]
  /\ todo' = [todo EXCEPT ![r] = what.to]
  /\ UNCHANGED <<entries, snap, failed, faults, rejected, first>>

\* A domain may also be for one Pi-hole.
Create(r) ==
  \E what \in [kind : {"create"}, entry : Entries, content : Contents,
               to : {Instances} \cup {{i} : i \in Instances}] :
    (what.to = Instances \/ what.entry \in Domains) /\ Ask(r, what, {})

Update(r) ==
  \E what \in [kind : {"update"}, entry : Entries, content : Contents, to : {Instances}] :
    Ask(r, what, {})

BatchDelete(r) ==
  \E what \in [kind : {"delete"}, some : (SUBSET Entries) \ {{}}, to : {Instances}] :
    Ask(r, what, {})

SyncOne(r) ==
  \E what \in [kind : {"syncOne"}, entry : Entries, source : Instances,
               to : (SUBSET Instances) \ {{}}] : Ask(r, what, {what.source})

SyncAll(r) ==
  \E what \in [kind : {"syncAll"}, to : {Instances}] : Ask(r, what, Instances)

-----------------------------------------------------------------------------
(***************************************************************************)
(* Reading, before a synchronisation                                       *)
(***************************************************************************)
Refuse(r) ==
  /\ stage' = [stage EXCEPT ![r] = "refused"]
  /\ op' = [op EXCEPT ![r] = Nothing]
  /\ unread' = [unread EXCEPT ![r] = {}]
  /\ todo' = [todo EXCEPT ![r] = {}]

HasRead(r, i) ==
  /\ unread' = [unread EXCEPT ![r] = @ \ {i}]
  /\ stage' = IF unread[r] = {i} THEN [stage EXCEPT ![r] = "writing"] ELSE stage
  /\ UNCHANGED <<op, todo>>

\* The one entry must be at its source.
Read(r, i) ==
  /\ i \in unread[r]
  /\ IF op[r].kind = "syncOne" /\ entries[i][op[r].entry] = None
     THEN Refuse(r) /\ UNCHANGED snap
     ELSE HasRead(r, i) /\ snap' = [snap EXCEPT ![r][i] = entries[i]]
  /\ UNCHANGED <<entries, failed, faults, rejected, first>>

\* The synchronisation of everything goes on without a Pi-hole that does not answer.
ReadFails(r, i) ==
  /\ i \in unread[r] /\ Fault
  /\ IF op[r].kind = "syncOne" THEN Refuse(r) ELSE HasRead(r, i)
  /\ UNCHANGED <<entries, snap, failed, rejected, first>>

-----------------------------------------------------------------------------
(***************************************************************************)
(* Writing: one access to each Pi-hole, which decides by what it has now   *)
(***************************************************************************)
Holders(r, x) == {j \in Instances : snap[r][j] # None /\ snap[r][j][x] # None}
Known(r) == {x \in Entries : Holders(r, x) # {}}

\* Slip: whichever Pi-hole has it will do.
Slip_SourcesAny(r, x) == Holders(r, x)

\* What the baseline had, or else any other Pi-hole.
Sources(r, x) == IF Baseline \in Holders(r, x) THEN {Baseline} ELSE Holders(r, x)

\* What a synchronisation creates at a Pi-hole.
Lacking(r, i) ==
  IF op[r].kind = "syncOne" THEN {op[r].entry}
  ELSE {x \in Known(r) : snap[r][i] = None \/ snap[r][i][x] = None}

News(r, i) ==
  {n \in [Lacking(r, i) -> Contents] :
     \A x \in Lacking(r, i) : \E j \in Sources(r, x) : n[x] = snap[r][j][x]}

\* A Pi-hole creates nothing twice, and may reject an entry for a reason of its own.
Created(t, news, bad) ==
  [x \in Entries |-> IF x \in DOMAIN news \ bad /\ t[x] = None THEN news[x] ELSE t[x]]

Deleted(t, gone) == [x \in Entries |-> IF x \in gone THEN None ELSE t[x]]

\* Slip: nobody looks at the errors for a new domain either.
Slip_LooksNever(r) == FALSE

\* An entry that is there or is rejected is an error inside an answer, which is only
\* looked at for a new domain.
Looks(r) == op[r].kind = "create" /\ op[r].entry \in Domains

\* Slip: the error for an entry that is there is taken for none.
Slip_CreatesOver(r, t, news) ==
  {<<~Looks(r) \/ bad = {}, Created(t, news, bad), bad>> :
     bad \in SUBSET {x \in DOMAIN news : t[x] = None}}

Creations(r, t, news) ==
  {<<~Looks(r) \/ (bad = {} /\ \A x \in DOMAIN news : t[x] = None),
     Created(t, news, bad), bad>> : bad \in SUBSET {x \in DOMAIN news : t[x] = None}}

\* A deletion stops at the first entry that is not there.
Deletions(some, t) ==
  LET here == {y \in some : t[y] # None} IN
  IF here = some THEN {<<TRUE, Deleted(t, here), {}>>}
  ELSE {<<FALSE, Deleted(t, gone), {}>> : gone \in SUBSET here}

\* Whether the service takes the answer for a success, what the Pi-hole has afterwards
\* and what it has rejected.  What a Pi-hole makes of an update of an entry it does not
\* have is left open, and an error in its answer to an update is not looked at.
Outcomes(r, i, t) ==
  LET x == op[r].entry IN
  CASE op[r].kind = "create" -> Creations(r, t, [y \in {x} |-> op[r].content])
    [] op[r].kind = "update" ->
         {<<TRUE, [t EXCEPT ![x] = op[r].content], {}>>, <<TRUE, t, {}>>} \cup
         (IF t[x] = None THEN {<<FALSE, t, {}>>} ELSE {})
    [] op[r].kind = "delete" -> Deletions(op[r].some, t)
    [] OTHER -> UNION {Creations(r, t, n) : n \in News(r, i)}

\* What the Pi-hole may have if the access fails: entries are sent one by one.
Remains(r, i, t) ==
  {t} \cup
  CASE op[r].kind = "delete" -> {Deleted(t, gone) : gone \in SUBSET op[r].some}
    [] op[r].kind = "syncAll" ->
         UNION {{Created(t, n, unsent) : unsent \in SUBSET DOMAIN n} : n \in News(r, i)}
    [] OTHER -> {o[2] : o \in Outcomes(r, i, t)}

\* The baseline comes first and the others after it by their names, which is left open.
\* Only a new domain is sent to all at once.
Turn(r, i) ==
  /\ stage[r] = "writing" /\ i \in todo[r]
  /\ \/ i = Baseline \/ Baseline \notin todo[r]
     \/ op[r].kind = "create" /\ op[r].entry \in Domains

Done(r, i, ok, t) ==
  /\ entries' = [entries EXCEPT ![i] = t]
  /\ todo' = [todo EXCEPT ![r] = @ \ {i}]
  /\ failed' = IF ok THEN failed ELSE [failed EXCEPT ![r] = @ \cup {i}]
  /\ stage' = IF todo[r] # {i} THEN stage
              ELSE [stage EXCEPT ![r] = IF failed'[r] = {} THEN "success" ELSE "partial"]
  /\ UNCHANGED <<op, snap, unread, first>>

Write(r, i) ==
  /\ Turn(r, i)
  /\ \E o \in Outcomes(r, i, entries[i]) :
       /\ Done(r, i, o[1], o[2])
       /\ rejected' = [rejected EXCEPT ![r] = @ \cup ({i} \X o[3])]
  /\ UNCHANGED faults

\* The Pi-hole is not reached, or its answer is lost.
WriteFails(r, i) ==
  /\ Turn(r, i) /\ Fault
  /\ \E t \in Remains(r, i, entries[i]) : Done(r, i, FALSE, t)
  /\ UNCHANGED rejected

-----------------------------------------------------------------------------
Next ==
  \E r \in Requests :
    \/ Create(r) \/ Update(r) \/ BatchDelete(r) \/ SyncOne(r) \/ SyncAll(r)
    \/ \E i \in Instances :
         Read(r, i) \/ ReadFails(r, i) \/ Write(r, i) \/ WriteFails(r, i)

Spec == Init /\ [][Next]_vars

-----------------------------------------------------------------------------
(***************************************************************************)
(* Properties                                                              *)
(***************************************************************************)
\* The variables have the values the code can give them.
TypeOK ==
  /\ entries \in [Instances -> Table]
  /\ stage \in [Requests -> {"idle", "reading", "refused", "writing", "success", "partial"}]
  /\ \A r \in Requests, i \in Instances : snap[r][i] = None \/ snap[r][i] \in Table
  /\ unread \in [Requests -> SUBSET Instances]
  /\ todo \in [Requests -> SUBSET Instances]
  /\ failed \in [Requests -> SUBSET Instances]
  /\ \A r \in Requests : /\ unread[r] # {} <=> stage[r] = "reading"
                         /\ todo[r] # {} <=> stage[r] \in {"reading", "writing"}
                         /\ stage[r] \in {"refused", "success"} => failed[r] = {}
                         /\ stage[r] = "partial" => failed[r] # {}
  /\ faults \in 0..MaxFaults
  /\ rejected \in [Requests -> SUBSET (Instances \X Entries)]

Asks(r, x) ==
  CASE op[r].kind \in {"create", "update", "syncOne"} -> op[r].entry = x
    [] op[r].kind = "delete" -> x \in op[r].some
    [] OTHER -> op[r].kind = "syncAll"

\* The requests about an entry that are of one of some kinds
Asking(x, kinds) == {r \in Requests : op[r].kind \in kinds /\ Asks(r, x)}

Syncs == {"syncOne", "syncAll"}

\* What a request is to create, and where it has said that it is there
Adds(r) ==
  CASE op[r].kind \in {"create", "syncOne"} -> {op[r].entry}
    [] op[r].kind = "syncAll" -> Known(r)
    [] OTHER -> {}
Claimed(r) ==
  IF op[r].kind = "none" \/ stage[r] = "reading" THEN {}
  ELSE op[r].to \ (todo[r] \cup failed[r])

\* The Pi-hole has rejected the entry, and that counts as a success.
Excused(r, i, x) == <<i, x>> \in rejected[r] /\ ~(op[r].kind = "create" /\ x \in Domains)

\* createList, applyDomainOperation and the synchronisations: a Pi-hole counted as
\* successful has what was to be created there, whether it was there before, created by
\* this request or by another one; unless somebody deletes it.  A Pi-hole that was not
\* read before a synchronisation is no exception.  A list or a domain of a
\* synchronisation that the Pi-hole itself rejected in its answer is one; a new domain
\* is none.
AddedIsThere ==
  \A r \in Requests : \A x \in Adds(r), i \in Claimed(r) :
    Asking(x, {"delete"}) = {} => entries[i][x] # None \/ Excused(r, i, x)

\* batchDelete: a Pi-hole counted as successful has none of the entries any more,
\* unless somebody creates one.
DeletedIsGone ==
  \A r \in Requests : op[r].kind = "delete" =>
    \A x \in op[r].some, i \in Claimed(r) :
      Asking(x, {"create", "update"} \cup Syncs) = {} => entries[i][x] = None

\* createDomainAcrossInstances: a Pi-hole counted as successful has the domain with the
\* comment and the groups that were asked for, whoever else creates it; unless somebody
\* changes or deletes it.
DomainIsAsAsked ==
  \A r \in Requests : op[r].kind = "create" /\ op[r].entry \in Domains =>
    \A i \in Claimed(r) :
      Asking(op[r].entry, {"update", "delete"}) = {} =>
        entries[i][op[r].entry] = op[r].content

\* The synchronisation of everything: as long as there is nothing else and every
\* Pi-hole answers, what the baseline has comes from the baseline.
BaselineIsSpread ==
  (faults = 0 /\ \A r \in Requests : op[r].kind \in {"none", "syncAll"}) =>
    \A x \in Entries, i \in Instances :
      entries[i][x] # first[i][x] /\ first[Baseline][x] # None =>
        entries[i][x] = first[Baseline][x]

\* A Pi-hole that counts as successful has what was to be added, as far as it took it,
\* and not what was to be deleted.
EntryInv == TypeOK /\ AddedIsThere /\ DeletedIsGone
=============================================================================
