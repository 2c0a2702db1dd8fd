--------------------------- MODULE ManagedListsProofs -------------------------
(***************************************************************************)
(* Theorems about ManagedLists, for any number of Pi-holes and requests,   *)
(* any lists and domains, and any number of accesses that fail.            *)
(***************************************************************************)
EXTENDS ManagedLists, TLAPS

-----------------------------------------------------------------------------
(***************************************************************************)
(* The inductive invariant                                                 *)
(***************************************************************************)
Additions ==
  [kind : {"create"}, entry : Entries, content : Contents, to : (SUBSET Instances) \ {{}}]
Changes ==
  [kind : {"update"}, entry : Entries, content : Contents, to : (SUBSET Instances) \ {{}}]
Deletes == [kind : {"delete"}, some : SUBSET Entries, to : (SUBSET Instances) \ {{}}]
OneSyncs ==
  [kind : {"syncOne"}, entry : Entries, source : Instances, to : (SUBSET Instances) \ {{}}]
AllSyncs == [kind : {"syncAll"}, to : (SUBSET Instances) \ {{}}]
Asked == Additions \cup Changes \cup Deletes \cup OneSyncs \cup AllSyncs

Typed ==
  /\ TypeOK
  /\ op \in [Requests -> {Nothing} \cup Asked]
  /\ snap \in [Requests -> [Instances -> Table \cup {None}]]
  /\ first \in [Instances -> Table]

\* A request that may have changed something
Active(r) == stage[r] \in {"writing", "success", "partial"}

Proceeds(r) ==
  /\ stage[r] \in {"idle", "refused"} => op[r] = Nothing
  /\ stage[r] = "reading" =>
       op[r].kind \in Syncs /\ op[r] \in Asked /\ todo[r] = op[r].to
  /\ Active(r) => op[r] \in Asked
  /\ stage[r] \in {"idle", "reading"} => failed[r] = {}
  /\ stage[r] = "idle" => snap[r] = NoSnap

\* Nobody who asks for one of some kinds of change of the entry has got so far as to
\* change something.
Untouched(x, kinds) == \A r \in Requests : Active(r) => r \notin Asking(x, kinds)

\* A Pi-hole keeps an entry that a synchronisation has seen there.
SeenIsThere(r) ==
  \A i \in Instances, x \in Entries :
    snap[r][i] # None /\ snap[r][i][x] # None /\ Untouched(x, {"delete"}) =>
      entries[i][x] # None

AddedStays(r) ==
  \A x \in Adds(r), i \in Claimed(r) : Untouched(x, {"delete"}) =>
    entries[i][x] # None \/ Excused(r, i, x)

DeletedStays(r) ==
  op[r].kind = "delete" =>
    \A x \in op[r].some, i \in Claimed(r) :
      Untouched(x, {"create", "update"} \cup Syncs) => entries[i][x] = None

DomainStays(r) ==
  op[r].kind = "create" /\ op[r].entry \in Domains =>
    \A i \in Claimed(r) :
      Untouched(op[r].entry, {"update", "delete"}) => entries[i][op[r].entry] = op[r].content

\* Nothing but synchronisations of everything has changed anything, and no access has
\* failed.
OnlySpreads ==
  /\ faults = 0
  /\ \A r \in Requests : Active(r) => op[r].kind = "syncAll"

\* What is at a Pi-hole from the first stays as it is, and what comes to one comes from
\* the baseline, if that has it.
Spreads ==
  OnlySpreads =>
    \A x \in Entries, i \in Instances :
      /\ first[i][x] # None => entries[i][x] = first[i][x]
      /\ entries[i][x] # first[i][x] /\ first[Baseline][x] # None =>
           entries[i][x] = first[Baseline][x]

\* A synchronisation of everything that has asked the baseline has what it had.
BaselineIsRead(r) ==
  OnlySpreads /\ op[r].kind = "syncAll" /\ Baseline \notin unread[r] =>
    /\ snap[r][Baseline] # None
    /\ \A x \in Entries : first[Baseline][x] # None =>
                            snap[r][Baseline][x] = first[Baseline][x]

Stays(r) == SeenIsThere(r) /\ AddedStays(r) /\ DeletedStays(r) /\ DomainStays(r)

IInv ==
  /\ Typed
  /\ \A r \in Requests : Proceeds(r) /\ Stays(r) /\ BaselineIsRead(r)
  /\ Spreads

-----------------------------------------------------------------------------
(***************************************************************************)
(* What a request makes of the entries of a Pi-hole                        *)
(***************************************************************************)
LEMMA AskedKinds ==
  ASSUME NEW o \in Asked
  PROVE  /\ o.to \in SUBSET Instances /\ o.to # {}
         /\ o.kind \in {"create", "update", "delete", "syncOne", "syncAll"}
         /\ o.kind = "create" => o.entry \in Entries /\ o.content \in Contents
         /\ o.kind = "update" => o.entry \in Entries /\ o.content \in Contents
         /\ o.kind = "delete" => o.some \subseteq Entries
         /\ o.kind = "syncOne" => o.entry \in Entries /\ o.source \in Instances
BY DEF Asked, Additions, Changes, Deletes, OneSyncs, AllSyncs

LEMMA AskedSomething == ASSUME NEW o \in Asked PROVE o.kind # "none" /\ o # Nothing
BY AskedKinds DEF Nothing

\* What may become of an entry: u is what the Pi-hole has, v what it will have.
Moves(r, x, u, v) ==
  \/ v = u
  \/ op[r].kind = "create" /\ op[r].entry = x /\ u = None /\ v = op[r].content
  \/ op[r].kind = "update" /\ op[r].entry = x /\ v = op[r].content
  \/ op[r].kind = "delete" /\ x \in op[r].some /\ v = None
  \/ /\ op[r].kind \in Syncs /\ Asks(r, x) /\ u = None /\ v \in Contents
     /\ \E j \in Sources(r, x) : v = snap[r][j][x]

\* What a Pi-hole has if the service takes the answer for a success, where bad is what
\* it has rejected
Fulfils(r, i, t, bad) ==
  /\ op[r].kind = "create" =>
       /\ t[op[r].entry] # None \/ (op[r].entry \in bad /\ op[r].entry \notin Domains)
       /\ op[r].entry \in Domains => t[op[r].entry] = op[r].content
  /\ op[r].kind = "delete" => \A x \in op[r].some : t[x] = None
  /\ op[r].kind \in Syncs => \A x \in Lacking(r, i) : t[x] # None \/ x \in bad

LEMMA CreatedTable ==
  ASSUME NEW t \in Table, NEW news, NEW bad, DOMAIN news \subseteq Entries,
         \A x \in DOMAIN news : news[x] \in Contents
  PROVE  /\ Created(t, news, bad) \in Table
         /\ \A x \in Entries : Created(t, news, bad)[x] =
               IF x \in DOMAIN news \ bad /\ t[x] = None THEN news[x] ELSE t[x]
BY DEF Created, Table

LEMMA DeletedTable ==
  ASSUME NEW t \in Table, NEW gone
  PROVE  /\ Deleted(t, gone) \in Table
         /\ \A x \in Entries : Deleted(t, gone)[x] = IF x \in gone THEN None ELSE t[x]
BY DEF Deleted, Table

LEMMA LackingAsked ==
  ASSUME NEW r \in Requests, op[r] \in Asked, op[r].kind \in Syncs, NEW i \in Instances
  PROVE  Lacking(r, i) \subseteq {x \in Entries : Asks(r, x)}
<1>1. CASE op[r].kind = "syncOne"
  BY <1>1, AskedKinds DEF Lacking, Asks
<1>2. CASE op[r].kind = "syncAll"
  BY <1>2 DEF Lacking, Known, Asks
<1>3. QED
  BY <1>1, <1>2 DEF Syncs

\* Creating what is lacking, or some of it
LEMMA SyncMoves ==
  ASSUME NEW r \in Requests, op[r] \in Asked, op[r].kind \in Syncs, NEW i \in Instances,
         NEW t \in Table, NEW n \in News(r, i), NEW bad
  PROVE  /\ Created(t, n, bad) \in Table
         /\ \A x \in Entries : Moves(r, x, t[x], Created(t, n, bad)[x])
         /\ Fulfils(r, i, Created(t, n, bad), bad)
<1>1. n \in [Lacking(r, i) -> Contents]
      /\ \A x \in Lacking(r, i) : \E j \in Sources(r, x) : n[x] = snap[r][j][x]
  BY DEF News
<1>2. Lacking(r, i) \subseteq {x \in Entries : Asks(r, x)}
  BY LackingAsked
<1>3. DOMAIN n \subseteq Entries /\ \A x \in DOMAIN n : n[x] \in Contents
  BY <1>1, <1>2
<1>4. /\ Created(t, n, bad) \in Table
      /\ \A x \in Entries : Created(t, n, bad)[x] =
            IF x \in DOMAIN n \ bad /\ t[x] = None THEN n[x] ELSE t[x]
  BY <1>3, CreatedTable
<1>5. \A x \in Entries : Moves(r, x, t[x], Created(t, n, bad)[x])
  BY <1>1, <1>2, <1>3, <1>4 DEF Moves
<1>6. Fulfils(r, i, Created(t, n, bad), bad)
  <2>1. \A x \in Lacking(r, i) : Created(t, n, bad)[x] # None \/ x \in bad
    BY <1>1, <1>2, <1>3, <1>4, ConstantsAssumption
  <2>2. op[r].kind \notin {"create", "delete"}
    BY DEF Syncs
  <2>3. QED
    BY <2>1, <2>2 DEF Fulfils
<1>7. QED
  BY <1>4, <1>5, <1>6

\* An access that is answered, and one that fails
Answered(r, i, t, o, w, bad) ==
  /\ \/ o = <<TRUE, w, bad>> /\ Fulfils(r, i, w, bad)
     \/ o = <<FALSE, w, bad>>
  /\ \A x \in Entries : Moves(r, x, t[x], w[x])

LEMMA AnswerParts ==
  ASSUME NEW r, NEW i, NEW t, NEW o, NEW w, NEW bad, Answered(r, i, t, o, w, bad)
  PROVE  /\ \A x \in Entries : Moves(r, x, t[x], w[x])
         /\ o[2] = w /\ o[3] = bad
         /\ o[1] = FALSE \/ (o[1] = TRUE /\ Fulfils(r, i, w, bad))
<1>1. CASE o = <<TRUE, w, bad>> /\ Fulfils(r, i, w, bad)
  <2>1. o[1] = TRUE /\ o[2] = w /\ o[3] = bad
    BY <1>1
  <2>2. QED
    BY <1>1, <2>1 DEF Answered
<1>2. CASE o = <<FALSE, w, bad>>
  <2>1. o[1] = FALSE /\ o[2] = w /\ o[3] = bad
    BY <1>2
  <2>2. QED
    BY <2>1 DEF Answered
<1>3. QED
  BY <1>1, <1>2 DEF Answered

LEMMA OutcomeMoves ==
  ASSUME NEW r \in Requests, op[r] \in Asked, NEW i \in Instances, NEW t \in Table,
         NEW o \in Outcomes(r, i, t)
  PROVE  \E w \in Table, bad \in SUBSET Entries : Answered(r, i, t, o, w, bad)
<1> USE DEF Answered
<1> DEFINE e == op[r].entry
           c == op[r].content
<1>1. CASE op[r].kind = "create"
  <2> DEFINE news == [y \in {e} |-> c]
  <2>1. e \in Entries /\ c \in Contents
    BY <1>1, AskedKinds
  <2>2. DOMAIN news = {e} /\ news[e] = c
    OBVIOUS
  <2>3. o \in Creations(r, t, news)
    BY <1>1 DEF Outcomes
  <2> HIDE DEF news
  <2>4. PICK bad \in SUBSET {x \in DOMAIN news : t[x] = None} :
          o = <<~Looks(r) \/ (bad = {} /\ \A x \in DOMAIN news : t[x] = None),
                Created(t, news, bad), bad>>
    BY <2>3 DEF Creations
  <2> DEFINE w == Created(t, news, bad)
  <2>5. /\ w \in Table /\ bad \in SUBSET Entries
        /\ \A x \in Entries : w[x] = IF x = e /\ x \notin bad /\ t[x] = None THEN c ELSE t[x]
    BY <2>1, <2>2, CreatedTable
  <2>6. Looks(r) <=> e \in Domains
    BY <1>1 DEF Looks
  <2>7. o = <<TRUE, w, bad>> \/ o = <<FALSE, w, bad>>
    BY <2>4
  <2>8. o = <<TRUE, w, bad>> => e \notin Domains \/ (bad = {} /\ t[e] = None)
    BY <2>2, <2>4, <2>6
  <2> HIDE DEF w
  <2>9. \A x \in Entries : Moves(r, x, t[x], w[x])
    BY <1>1, <2>5 DEF Moves
  <2>10. ASSUME o = <<TRUE, w, bad>> PROVE Fulfils(r, i, w, bad)
    BY <1>1, <2>1, <2>5, <2>8, <2>10, ConstantsAssumption DEF Fulfils, Syncs
  <2>11. QED
    BY <2>5, <2>7, <2>9, <2>10
<1>2. CASE op[r].kind = "update"
  <2> DEFINE w == [t EXCEPT ![e] = c]
  <2>1. e \in Entries /\ c \in Contents
    BY <1>2, AskedKinds
  <2>2. \E v \in {t, w} : o = <<TRUE, v, {}>> \/ o = <<FALSE, v, {}>>
    BY <1>2 DEF Outcomes
  <2>3. w \in Table /\ \A x \in Entries : w[x] = t[x] \/ (x = e /\ w[x] = c)
    BY <2>1 DEF Table
  <2>4. ASSUME NEW v \in {t, w}
        PROVE  Fulfils(r, i, v, {}) /\ \A x \in Entries : Moves(r, x, t[x], v[x])
    BY <1>2, <2>3 DEF Fulfils, Moves, Syncs
  <2> HIDE DEF w
  <2>5. PICK v \in {t, w} : o = <<TRUE, v, {}>> \/ o = <<FALSE, v, {}>>
    BY <2>2
  <2>6. Answered(r, i, t, o, v, {})
    BY <2>4, <2>5
  <2>7. v \in Table /\ {} \in SUBSET Entries
    BY <2>3
  <2>8. QED
    BY <2>6, <2>7
<1>3. CASE op[r].kind = "delete"
  <2> DEFINE here == {y \in op[r].some : t[y] # None}
  <2>1. o \in Deletions(op[r].some, t) /\ op[r].some \subseteq Entries
    BY <1>3, AskedKinds DEF Outcomes
  <2>2. CASE here = op[r].some
    <3> DEFINE w == Deleted(t, here)
    <3>1. o = <<TRUE, w, {}>>
      BY <2>1, <2>2 DEF Deletions
    <3>2. w \in Table /\ \A x \in Entries : w[x] = IF x \in here THEN None ELSE t[x]
      BY DeletedTable
    <3> HIDE DEF w
    <3>3. \A x \in Entries : Moves(r, x, t[x], w[x])
      BY <1>3, <3>2 DEF Moves
    <3>4. Fulfils(r, i, w, {})
      BY <1>3, <2>1, <2>2, <3>2 DEF Fulfils, Syncs
    <3>5. QED
      BY <3>1, <3>2, <3>3, <3>4
  <2>3. CASE here # op[r].some
    <3>1. PICK gone \in SUBSET here : o = <<FALSE, Deleted(t, gone), {}>>
      BY <2>1, <2>3 DEF Deletions
    <3> DEFINE w == Deleted(t, gone)
    <3>2. w \in Table /\ \A x \in Entries : w[x] = IF x \in gone THEN None ELSE t[x]
      BY DeletedTable
    <3> HIDE DEF w
    <3>3. \A x \in Entries : Moves(r, x, t[x], w[x])
      BY <1>3, <3>2 DEF Moves
    <3>4. QED
      BY <3>1, <3>2, <3>3 DEF w
  <2>4. QED
    BY <2>2, <2>3
<1>4. CASE op[r].kind \in Syncs
  <2>1. op[r].kind \notin {"create", "update", "delete"}
    BY <1>4 DEF Syncs
  <2>2. PICK n \in News(r, i) : o \in Creations(r, t, n)
    BY <2>1 DEF Outcomes
  <2>3. DOMAIN n \subseteq Entries
    BY <1>4, LackingAsked DEF News
  <2>4. ~Looks(r)
    BY <2>1 DEF Looks
  <2>5. PICK bad \in SUBSET {x \in DOMAIN n : t[x] = None} : o = <<TRUE, Created(t, n, bad), bad>>
    BY <2>2, <2>4 DEF Creations
  <2>6. QED
    BY <1>4, <2>3, <2>5, SyncMoves
<1>5. QED
  BY <1>1, <1>2, <1>3, <1>4, AskedKinds DEF Syncs

LEMMA RemainMoves ==
  ASSUME NEW r \in Requests, op[r] \in Asked, NEW i \in Instances, NEW t \in Table,
         NEW w \in Remains(r, i, t)
  PROVE  w \in Table /\ \A x \in Entries : Moves(r, x, t[x], w[x])
<1>1. CASE w = t
  BY <1>1 DEF Moves
<1>2. CASE w # t /\ op[r].kind = "delete"
  <2>1. PICK gone \in SUBSET op[r].some : w = Deleted(t, gone)
    BY <1>2 DEF Remains
  <2>2. QED
    BY <1>2, <2>1, DeletedTable DEF Moves
<1>3. CASE w # t /\ op[r].kind = "syncAll"
  <2>1. PICK n \in News(r, i) : \E unsent \in SUBSET DOMAIN n : w = Created(t, n, unsent)
    BY <1>3 DEF Remains
  <2>2. QED
    BY <1>3, <2>1, SyncMoves DEF Syncs
<1>4. CASE w # t /\ op[r].kind \notin {"delete", "syncAll"}
  <2>1. PICK o \in Outcomes(r, i, t) : w = o[2]
    BY <1>4 DEF Remains
  <2>2. PICK v \in Table, bad \in SUBSET Entries : Answered(r, i, t, o, v, bad)
    BY OutcomeMoves
  <2>3. v = w /\ \A x \in Entries : Moves(r, x, t[x], v[x])
    BY <2>1, <2>2, AnswerParts
  <2>4. QED
    BY <2>2, <2>3
<1>5. QED
  BY <1>1, <1>2, <1>3, <1>4

-----------------------------------------------------------------------------
(***************************************************************************)
(* The steps                                                               *)
(***************************************************************************)
LEMMA SomewhereToGo == Instances # {} /\ \A i \in Instances : {i} # {}
BY ConstantsAssumption

\* A request is made: a synchronisation reads first.
Made(r) ==
  \E what \in Asked, reads \in SUBSET Instances :
    /\ what.kind \in Syncs <=> reads # {}
    /\ what.kind = "syncAll" => reads = Instances
    /\ Ask(r, what, reads)

LEMMA MadeTyped ==
  ASSUME NEW r \in Requests,
         Create(r) \/ Update(r) \/ BatchDelete(r) \/ SyncOne(r) \/ SyncAll(r)
  PROVE  Made(r)
<1> USE SomewhereToGo DEF Asked, Syncs
<1>1. CASE Create(r)
  <2>1. PICK what \in Additions : what.kind = "create" /\ Ask(r, what, {})
    BY <1>1 DEF Create, Additions
  <2>2. QED
    BY <2>1 DEF Made
<1>2. CASE Update(r)
  <2>1. PICK what \in Changes : what.kind = "update" /\ Ask(r, what, {})
    BY <1>2 DEF Update, Changes
  <2>2. QED
    BY <2>1 DEF Made
<1>3. CASE BatchDelete(r)
  <2>1. PICK what \in Deletes : what.kind = "delete" /\ Ask(r, what, {})
    BY <1>3 DEF BatchDelete, Deletes
  <2>2. QED
    BY <2>1 DEF Made
<1>4. CASE SyncOne(r)
  <2>1. PICK what \in OneSyncs : what.kind = "syncOne" /\ Ask(r, what, {what.source})
    BY <1>4 DEF SyncOne, OneSyncs
  <2>2. {what.source} \in (SUBSET Instances) \ {{}}
    BY <2>1 DEF OneSyncs
  <2>3. QED
    BY <2>1, <2>2 DEF Made
<1>5. CASE SyncAll(r)
  <2>1. PICK what \in AllSyncs : what.kind = "syncAll" /\ Ask(r, what, Instances)
    BY <1>5 DEF SyncAll, AllSyncs
  <2>2. QED
    BY <2>1 DEF Made
<1>6. QED
  BY <1>1, <1>2, <1>3, <1>4, <1>5

\* What a request does, as the proofs tell the steps apart
Acts(r) ==
  \/ Made(r)
  \/ \E i \in Instances : Read(r, i) \/ ReadFails(r, i)
  \/ \E i \in Instances : Write(r, i) \/ WriteFails(r, i)

LEMMA NextActs ==
  ASSUME Next
  PROVE  \E r \in Requests : Acts(r)
BY MadeTyped DEF Next, Acts

\* A request that is made is all there is to it.
LEMMA MadeLeaves ==
  ASSUME Typed, NEW r \in Requests, Proceeds(r), Made(r)
  PROVE  /\ stage[r] = "idle" /\ op'[r] \in Asked /\ op' = [op EXCEPT ![r] = op'[r]]
         /\ todo' = [todo EXCEPT ![r] = op'[r].to]
         /\ unread' = [unread EXCEPT ![r] = unread'[r]] /\ unread'[r] \in SUBSET Instances
         /\ stage' = [stage EXCEPT ![r] = stage'[r]]
         /\ \/ stage'[r] = "reading" /\ unread'[r] # {} /\ op'[r].kind \in Syncs
            \/ stage'[r] = "writing" /\ unread'[r] = {} /\ op'[r].kind \notin Syncs
         /\ op'[r].kind = "syncAll" => unread'[r] = Instances
         /\ failed[r] = {} /\ snap[r] = NoSnap
         /\ UNCHANGED <<entries, snap, failed, faults, rejected, first>>
<1>1. PICK what \in Asked, reads \in SUBSET Instances :
        /\ what.kind \in Syncs <=> reads # {}
        /\ what.kind = "syncAll" => reads = Instances
        /\ Ask(r, what, reads)
  BY DEF Made
<1>2. op'[r] = what /\ unread'[r] = reads
      /\ stage'[r] = (IF reads = {} THEN "writing" ELSE "reading")
  BY <1>1 DEF Ask, Typed, TypeOK
<1>3. stage[r] = "idle" /\ failed[r] = {} /\ snap[r] = NoSnap
  BY <1>1 DEF Ask, Proceeds
<1>4. /\ op' = [op EXCEPT ![r] = what] /\ todo' = [todo EXCEPT ![r] = what.to]
      /\ unread' = [unread EXCEPT ![r] = reads]
      /\ stage' = [stage EXCEPT ![r] = IF reads = {} THEN "writing" ELSE "reading"]
      /\ UNCHANGED <<entries, snap, failed, faults, rejected, first>>
  BY <1>1 DEF Ask
<1>5. QED
  BY <1>1, <1>2, <1>3, <1>4

\* A request that reads either ends there, or gets on with or without what it has read.
LEMMA ReadLeaves ==
  ASSUME Typed, NEW r \in Requests, Proceeds(r), NEW i \in Instances,
         Read(r, i) \/ ReadFails(r, i)
  PROVE  /\ stage[r] = "reading" /\ i \in unread[r] /\ op[r] \in Asked /\ op[r].kind \in Syncs
         /\ failed[r] = {} /\ todo[r] = op[r].to
         /\ \/ Refuse(r) /\ snap' = snap /\ op[r].kind = "syncOne"
            \/ HasRead(r, i) /\ snap' = [snap EXCEPT ![r][i] = entries[i]]
            \/ HasRead(r, i) /\ snap' = snap /\ faults' = faults + 1
         /\ faults' = faults \/ (faults < MaxFaults /\ faults' = faults + 1)
         /\ UNCHANGED <<entries, failed, rejected, first>>
<1>1. i \in unread[r] /\ stage[r] = "reading"
  BY DEF Read, ReadFails, Typed, TypeOK
<1>2. op[r] \in Asked /\ op[r].kind \in Syncs /\ failed[r] = {} /\ todo[r] = op[r].to
  BY <1>1 DEF Proceeds
<1>3. CASE Read(r, i)
  BY <1>1, <1>2, <1>3 DEF Read
<1>4. CASE ReadFails(r, i)
  BY <1>1, <1>2, <1>4 DEF ReadFails, Fault
<1>5. QED
  BY <1>3, <1>4

\* What becomes of the entries of the Pi-hole that a request writes to
LeavesAt(r, i) ==
  \E w \in Table, bad \in SUBSET Entries :
    /\ entries' = [entries EXCEPT ![i] = w]
    /\ \A x \in Entries : Moves(r, x, entries[i][x], w[x])
    /\ rejected' = [rejected EXCEPT ![r] = @ \cup ({i} \X bad)]
    /\ \/ failed' = failed /\ Fulfils(r, i, w, bad)
       \/ failed' = [failed EXCEPT ![r] = @ \cup {i}]

LEMMA WriteLeaves ==
  ASSUME Typed, NEW r \in Requests, Proceeds(r), NEW i \in Instances,
         Write(r, i) \/ WriteFails(r, i)
  PROVE  /\ stage[r] = "writing" /\ i \in todo[r] /\ op[r] \in Asked
         /\ LeavesAt(r, i)
         /\ todo' = [todo EXCEPT ![r] = @ \ {i}]
         /\ stage' = IF todo[r] # {i} THEN stage
                     ELSE [stage EXCEPT ![r] = IF failed'[r] = {} THEN "success" ELSE "partial"]
         /\ faults' = faults \/ (faults < MaxFaults /\ faults' = faults + 1)
         /\ UNCHANGED <<op, snap, unread, first>>
<1>1. stage[r] = "writing" /\ i \in todo[r] /\ op[r] \in Asked
  BY DEF Write, WriteFails, Turn, Proceeds, Active
<1>2. entries[i] \in Table
  BY DEF Typed, TypeOK
<1>3. CASE Write(r, i)
  <2>1. PICK o \in Outcomes(r, i, entries[i]) :
          /\ Done(r, i, o[1], o[2])
          /\ rejected' = [rejected EXCEPT ![r] = @ \cup ({i} \X o[3])]
    BY <1>3 DEF Write
  <2>2. PICK w \in Table, bad \in SUBSET Entries : Answered(r, i, entries[i], o, w, bad)
    BY <1>1, <1>2, OutcomeMoves
  <2>3. /\ \A x \in Entries : Moves(r, x, entries[i][x], w[x])
        /\ o[2] = w /\ o[3] = bad /\ (o[1] = FALSE \/ (o[1] = TRUE /\ Fulfils(r, i, w, bad)))
    BY <2>2, AnswerParts
  <2>4. LeavesAt(r, i)
    BY <2>1, <2>3 DEF LeavesAt, Done
  <2>5. QED
    BY <1>1, <1>3, <2>1, <2>4 DEF Done, Write
<1>4. CASE WriteFails(r, i)
  <2>1. PICK w \in Remains(r, i, entries[i]) : Done(r, i, FALSE, w)
    BY <1>4 DEF WriteFails
  <2>2. w \in Table /\ \A x \in Entries : Moves(r, x, entries[i][x], w[x])
    BY <1>1, <1>2, RemainMoves
  <2>3. rejected' = [rejected EXCEPT ![r] = @ \cup ({i} \X {})]
    <3>1. {i} \X {} = {}
      OBVIOUS
    <3>2. rejected' = rejected /\ rejected \in [Requests -> SUBSET (Instances \X Entries)]
      BY <1>4 DEF WriteFails, Typed, TypeOK
    <3>3. rejected = [rejected EXCEPT ![r] = @ \cup {}]
      BY <3>2
    <3>4. QED
      BY <3>1, <3>2, <3>3
  <2>4. LeavesAt(r, i)
    <3>1. entries' = [entries EXCEPT ![i] = w] /\ failed' = [failed EXCEPT ![r] = @ \cup {i}]
      BY <2>1 DEF Done
    <3>2. w \in Table /\ {} \in SUBSET Entries
      BY <2>2
    <3>3. QED
      BY <2>2, <2>3, <3>1, <3>2 DEF LeavesAt
  <2>5. QED
    BY <1>1, <1>4, <2>1, <2>4 DEF Done, WriteFails, Fault
<1>5. QED
  BY <1>3, <1>4

\* The other requests stay where they are.
LEMMA OthersStay ==
  ASSUME Typed, NEW r \in Requests, Proceeds(r), Acts(r), NEW q \in Requests, q # r
  PROVE  /\ op'[q] = op[q] /\ stage'[q] = stage[q] /\ snap'[q] = snap[q]
         /\ unread'[q] = unread[q] /\ todo'[q] = todo[q] /\ failed'[q] = failed[q]
<1> USE DEF Typed, TypeOK
<1>1. CASE Made(r)
  BY <1>1, MadeLeaves
<1>2. ASSUME NEW i \in Instances, Read(r, i) \/ ReadFails(r, i)
      PROVE  /\ op'[q] = op[q] /\ stage'[q] = stage[q] /\ snap'[q] = snap[q]
             /\ unread'[q] = unread[q] /\ todo'[q] = todo[q] /\ failed'[q] = failed[q]
  BY <1>2, ReadLeaves DEF Refuse, HasRead
<1>3. ASSUME NEW i \in Instances, Write(r, i) \/ WriteFails(r, i)
      PROVE  /\ op'[q] = op[q] /\ stage'[q] = stage[q] /\ snap'[q] = snap[q]
             /\ unread'[q] = unread[q] /\ todo'[q] = todo[q] /\ failed'[q] = failed[q]
  <2>1. failed' = failed \/ failed' = [failed EXCEPT ![r] = @ \cup {i}]
    BY <1>3, WriteLeaves DEF LeavesAt
  <2>2. QED
    BY <1>3, <2>1, WriteLeaves
<1>4. QED
  BY <1>1, <1>2, <1>3 DEF Acts

\* The part of TypeOK that is about one request
Staged(r) ==
  /\ unread[r] # {} <=> stage[r] = "reading"
  /\ todo[r] # {} <=> stage[r] \in {"reading", "writing"}
  /\ stage[r] \in {"refused", "success"} => failed[r] = {}
  /\ stage[r] = "partial" => failed[r] # {}

LEMMA StepStaged ==
  ASSUME Typed, NEW r \in Requests, Proceeds(r), Acts(r), NEW q \in Requests
  PROVE  Staged(q)'
<1> USE DEF Staged
<1>0. stage \in [Requests -> {"idle", "reading", "refused", "writing", "success", "partial"}]
      /\ unread \in [Requests -> SUBSET Instances] /\ todo \in [Requests -> SUBSET Instances]
      /\ failed \in [Requests -> SUBSET Instances] /\ Staged(q) /\ Staged(r)
  BY DEF Typed, TypeOK
<1>1. CASE q # r
  BY <1>0, <1>1, OthersStay
<1>2. CASE q = r /\ Made(r)
  <2>1. op'[r].to # {} /\ todo'[r] = op'[r].to
    BY <1>0, <1>2, MadeLeaves, AskedKinds
  <2>2. QED
    BY <1>0, <1>2, <2>1, MadeLeaves
<1>3. ASSUME q = r, NEW i \in Instances, Read(r, i) \/ ReadFails(r, i)
      PROVE  Staged(q)'
  <2>1. todo[r] # {}
    BY <1>3, ReadLeaves, AskedKinds
  <2>2. failed'[r] = {} /\ stage[r] = "reading" /\ i \in unread[r]
    BY <1>3, ReadLeaves
  <2>3. CASE Refuse(r)
    BY <1>0, <1>3, <2>2, <2>3 DEF Refuse
  <2>4. CASE HasRead(r, i)
    BY <1>0, <1>3, <2>1, <2>2, <2>4 DEF HasRead
  <2>5. QED
    BY <1>3, <2>3, <2>4, ReadLeaves
<1>4. ASSUME q = r, NEW i \in Instances, Write(r, i) \/ WriteFails(r, i)
      PROVE  Staged(q)'
  <2>1. /\ stage[r] = "writing" /\ unread' = unread
        /\ todo' = [todo EXCEPT ![r] = @ \ {i}]
        /\ stage' = IF todo[r] # {i} THEN stage
                    ELSE [stage EXCEPT ![r] = IF failed'[r] = {} THEN "success" ELSE "partial"]
        /\ i \in todo[r]
    BY <1>4, WriteLeaves
  <2>2. QED
    BY <1>0, <1>4, <2>1
<1>5. QED
  BY <1>1, <1>2, <1>3, <1>4 DEF Acts

LEMMA StepTyped ==
  ASSUME Typed, NEW r \in Requests, Proceeds(r), Acts(r)
  PROVE  Typed'
<1> DEFINE Stages == {"idle", "reading", "refused", "writing", "success", "partial"}
           Values == /\ entries' \in [Instances -> Table] /\ first' \in [Instances -> Table]
                     /\ op' \in [Requests -> {Nothing} \cup Asked]
                     /\ snap' \in [Requests -> [Instances -> Table \cup {None}]]
                     /\ stage' \in [Requests -> Stages]
                     /\ unread' \in [Requests -> SUBSET Instances]
                     /\ todo' \in [Requests -> SUBSET Instances]
                     /\ failed' \in [Requests -> SUBSET Instances]
                     /\ faults' \in 0..MaxFaults
                     /\ rejected' \in [Requests -> SUBSET (Instances \X Entries)]
<1>0. /\ entries \in [Instances -> Table] /\ first \in [Instances -> Table]
      /\ op \in [Requests -> {Nothing} \cup Asked]
      /\ snap \in [Requests -> [Instances -> Table \cup {None}]]
      /\ stage \in [Requests -> Stages]
      /\ unread \in [Requests -> SUBSET Instances] /\ todo \in [Requests -> SUBSET Instances]
      /\ failed \in [Requests -> SUBSET Instances] /\ faults \in 0..MaxFaults
      /\ rejected \in [Requests -> SUBSET (Instances \X Entries)]
  BY DEF Typed, TypeOK
<1>1. ASSUME Made(r) PROVE Values
  <2>1. op'[r].to \in SUBSET Instances
    BY <1>1, MadeLeaves, AskedKinds
  <2>2. op' \in [Requests -> {Nothing} \cup Asked] /\ stage' \in [Requests -> Stages]
    BY <1>0, <1>1, MadeLeaves
  <2>3. unread' \in [Requests -> SUBSET Instances] /\ todo' \in [Requests -> SUBSET Instances]
    <3>1. todo' = [todo EXCEPT ![r] = op'[r].to] /\ unread'[r] \in SUBSET Instances
          /\ unread' = [unread EXCEPT ![r] = unread'[r]]
      BY <1>1, MadeLeaves
    <3>2. \A s \in SUBSET Instances : [unread EXCEPT ![r] = s] \in [Requests -> SUBSET Instances]
                                      /\ [todo EXCEPT ![r] = s] \in [Requests -> SUBSET Instances]
      BY <1>0
    <3>3. QED
      BY <2>1, <3>1, <3>2
  <2>4. UNCHANGED <<entries, snap, failed, faults, rejected, first>>
    BY <1>1, MadeLeaves
  <2>5. QED
    BY <1>0, <2>2, <2>3, <2>4
<1>2. ASSUME NEW i \in Instances, Read(r, i) \/ ReadFails(r, i)
      PROVE  Values
  <2>1. faults' \in 0..MaxFaults
    BY <1>0, <1>2, ReadLeaves, BoundsAssumption
  <2>2. snap' \in [Requests -> [Instances -> Table \cup {None}]]
    <3>1. snap' = snap \/ snap' = [snap EXCEPT ![r][i] = entries[i]]
      BY <1>2, ReadLeaves
    <3>2. entries[i] \in Table \cup {None} /\ snap[r] \in [Instances -> Table \cup {None}]
      BY <1>0
    <3>3. [snap[r] EXCEPT ![i] = entries[i]] \in [Instances -> Table \cup {None}]
      BY <3>2
    <3>4. QED
      BY <1>0, <3>1, <3>3
  <2>3. entries' = entries /\ first' = first /\ failed' = failed /\ rejected' = rejected
    BY <1>2, ReadLeaves
  <2>4. CASE Refuse(r)
    BY <1>0, <2>1, <2>2, <2>3, <2>4 DEF Refuse
  <2>5. CASE HasRead(r, i)
    BY <1>0, <2>1, <2>2, <2>3, <2>5 DEF HasRead
  <2>6. QED
    BY <1>2, <2>4, <2>5, ReadLeaves
<1>3. ASSUME NEW i \in Instances, Write(r, i) \/ WriteFails(r, i)
      PROVE  Values
  <2>1. faults' \in 0..MaxFaults
    BY <1>0, <1>3, WriteLeaves, BoundsAssumption
  <2>2. entries' \in [Instances -> Table] /\ failed' \in [Requests -> SUBSET Instances]
    <3>1. PICK w \in Table : /\ entries' = [entries EXCEPT ![i] = w]
                             /\ \/ failed' = failed
                                \/ failed' = [failed EXCEPT ![r] = @ \cup {i}]
      BY <1>3, WriteLeaves DEF LeavesAt
    <3>2. QED
      BY <1>0, <3>1
  <2>3. todo' \in [Requests -> SUBSET Instances] /\ stage' \in [Requests -> Stages]
    <3>1. /\ todo' = [todo EXCEPT ![r] = @ \ {i}]
          /\ stage' = IF todo[r] # {i} THEN stage
                      ELSE [stage EXCEPT ![r] = IF failed'[r] = {} THEN "success" ELSE "partial"]
      BY <1>3, WriteLeaves
    <3>2. QED
      BY <1>0, <3>1
  <2>4. op' = op /\ snap' = snap /\ unread' = unread /\ first' = first
    BY <1>3, WriteLeaves
  <2>5. rejected' \in [Requests -> SUBSET (Instances \X Entries)]
    <3>1. PICK bad \in SUBSET Entries : rejected' = [rejected EXCEPT ![r] = @ \cup ({i} \X bad)]
      BY <1>3, WriteLeaves DEF LeavesAt
    <3>2. {i} \X bad \subseteq Instances \X Entries
      OBVIOUS
    <3>3. QED
      BY <1>0, <3>1, <3>2
  <2>6. QED
    BY <1>0, <2>1, <2>2, <2>3, <2>4, <2>5
<1>4. Values
  BY <1>1, <1>2, <1>3 DEF Acts
<1>5. QED
  BY <1>4, StepStaged DEF Typed, TypeOK, Staged

LEMMA StepProceeds ==
  ASSUME Typed, \A q \in Requests : Proceeds(q), NEW r \in Requests, Acts(r),
         NEW q \in Requests
  PROVE  Proceeds(q)'
<1> USE DEF Proceeds, Active
<1>1. CASE q # r
  BY <1>1, OthersStay
<1>2. CASE q = r /\ Made(r)
  <2>1. op'[r].kind \in Syncs \/ stage'[r] = "writing"
    BY <1>2, MadeLeaves
  <2>2. stage'[r] \in {"reading", "writing"} /\ op'[r] \in Asked /\ failed'[r] = {}
        /\ todo'[r] = op'[r].to
    BY <1>2, MadeLeaves DEF Typed, TypeOK
  <2>3. QED
    BY <1>2, <2>1, <2>2
<1>3. ASSUME q = r, NEW i \in Instances, Read(r, i) \/ ReadFails(r, i)
      PROVE  Proceeds(q)'
  <2>1. /\ stage[r] = "reading" /\ op[r] \in Asked /\ op[r].kind \in Syncs
        /\ failed'[r] = {} /\ todo[r] = op[r].to
    BY <1>3, ReadLeaves
  <2>2. CASE Refuse(r)
    <3>1. stage'[r] = "refused" /\ op'[r] = Nothing
      BY <2>2 DEF Refuse, Typed, TypeOK
    <3>2. QED
      BY <1>3, <3>1
  <2>3. CASE HasRead(r, i)
    <3>1. stage'[r] \in {"reading", "writing"} /\ op' = op /\ todo' = todo
      BY <2>1, <2>3 DEF HasRead, Typed, TypeOK
    <3>2. QED
      BY <1>3, <2>1, <3>1
  <2>4. QED
    BY <1>3, <2>2, <2>3, ReadLeaves
<1>4. ASSUME q = r, NEW i \in Instances, Write(r, i) \/ WriteFails(r, i)
      PROVE  Proceeds(q)'
  <2>1. /\ stage[r] = "writing" /\ op' = op /\ op[r] \in Asked
        /\ stage' = IF todo[r] # {i} THEN stage
                    ELSE [stage EXCEPT ![r] = IF failed'[r] = {} THEN "success" ELSE "partial"]
    BY <1>4, WriteLeaves
  <2>2. stage'[r] \in {"writing", "success", "partial"}
    BY <2>1 DEF Typed, TypeOK
  <2>3. QED
    BY <1>4, <2>1, <2>2
<1>5. QED
  BY <1>1, <1>2, <1>3, <1>4 DEF Acts

\* Once it may have changed something, what a request asks for and what it has read
\* are settled.
LEMMA ActiveStays ==
  ASSUME Typed, NEW r \in Requests, Proceeds(r), Acts(r), NEW q \in Requests, Active(q)
  PROVE  Active(q)' /\ op'[q] = op[q] /\ snap'[q] = snap[q]
<1>1. CASE q # r
  BY <1>1, OthersStay DEF Active
<1>2. ASSUME q = r, NEW i \in Instances, Write(r, i) \/ WriteFails(r, i)
      PROVE  Active(q)' /\ op'[q] = op[q] /\ snap'[q] = snap[q]
  BY <1>2, WriteLeaves DEF Active, Typed, TypeOK
<1>3. QED
  BY <1>1, <1>2, MadeLeaves, ReadLeaves DEF Acts, Active

LEMMA UntouchedBefore ==
  ASSUME Typed, NEW r \in Requests, Proceeds(r), Acts(r), NEW x, NEW kinds,
         Untouched(x, kinds)'
  PROVE  /\ Untouched(x, kinds)
         /\ stage[r] = "writing" => ~(op[r].kind \in kinds /\ Asks(r, x))
<1>1. ASSUME NEW q \in Requests, Active(q)
      PROVE  q \notin Asking(x, kinds)
  <2>1. Active(q)' /\ op'[q] = op[q]
    BY <1>1, ActiveStays
  <2>2. q \notin Asking(x, kinds)'
    BY <2>1 DEF Untouched
  <2>3. QED
    BY <2>1, <2>2 DEF Asking, Asks
<1>2. QED
  BY <1>1 DEF Untouched, Asking, Active

\* The entries move as the request that acts asks, and not before it writes.
LEMMA EntriesMove ==
  ASSUME Typed, NEW r \in Requests, Proceeds(r), Acts(r), NEW i \in Instances, NEW x \in Entries
  PROVE  \/ entries'[i][x] = entries[i][x]
         \/ /\ stage[r] = "writing" /\ op[r] \in Asked
            /\ Moves(r, x, entries[i][x], entries'[i][x])
<1>1. CASE Made(r)
  BY <1>1, MadeLeaves
<1>2. ASSUME NEW j \in Instances, Read(r, j) \/ ReadFails(r, j)
      PROVE  entries' = entries
  BY <1>2, ReadLeaves
<1>3. ASSUME NEW j \in Instances, Write(r, j) \/ WriteFails(r, j)
      PROVE  \/ entries'[i][x] = entries[i][x]
             \/ /\ stage[r] = "writing" /\ op[r] \in Asked
                /\ Moves(r, x, entries[i][x], entries'[i][x])
  <2>1. stage[r] = "writing" /\ op[r] \in Asked
    BY <1>3, WriteLeaves
  <2>2. PICK w \in Table : /\ entries' = [entries EXCEPT ![j] = w]
                           /\ \A y \in Entries : Moves(r, y, entries[j][y], w[y])
    BY <1>3, WriteLeaves DEF LeavesAt
  <2>3. CASE i # j
    BY <2>2, <2>3 DEF Typed, TypeOK
  <2>4. CASE i = j
    <3>1. entries'[i] = w
      BY <2>2, <2>4 DEF Typed, TypeOK
    <3>2. QED
      BY <2>1, <2>2, <2>4, <3>1
  <2>5. QED
    BY <2>3, <2>4
<1>4. QED
  BY <1>1, <1>2, <1>3 DEF Acts

\* An entry goes only by a deletion, comes only by the other requests, and changes only
\* by an update or a deletion.
LEMMA EntryKept ==
  ASSUME Typed, NEW r \in Requests, Proceeds(r), Acts(r), NEW i \in Instances, NEW x \in Entries
  PROVE  /\ entries[i][x] # None /\ Untouched(x, {"delete"})' => entries'[i][x] # None
         /\ entries[i][x] = None /\ Untouched(x, {"create", "update"} \cup Syncs)' =>
              entries'[i][x] = None
         /\ entries[i][x] # None /\ Untouched(x, {"update", "delete"})' =>
              entries'[i][x] = entries[i][x]
<1>1. CASE entries'[i][x] = entries[i][x]
  BY <1>1
<1>2. CASE /\ stage[r] = "writing" /\ op[r] \in Asked
           /\ Moves(r, x, entries[i][x], entries'[i][x])
  <2> DEFINE u == entries[i][x]
             v == entries'[i][x]
  <2>1. \A kinds : Untouched(x, kinds)' => ~(op[r].kind \in kinds /\ Asks(r, x))
    BY <1>2, UntouchedBefore
  <2>2. op[r].kind \in {"create", "update"} => op[r].content # None
    BY <1>2, AskedKinds, ConstantsAssumption
  <2>3. /\ op[r].kind \in {"create", "update"} => (Asks(r, x) <=> op[r].entry = x)
        /\ op[r].kind = "delete" => (Asks(r, x) <=> x \in op[r].some)
    BY DEF Asks
  <2>4. \/ v = u
        \/ op[r].kind = "create" /\ Asks(r, x) /\ u = None /\ v # None
        \/ op[r].kind = "update" /\ Asks(r, x) /\ v # None
        \/ op[r].kind = "delete" /\ Asks(r, x) /\ v = None
        \/ op[r].kind \in Syncs /\ Asks(r, x) /\ u = None /\ v # None
    <3> HIDE DEF u, v
    <3> QED
      BY <1>2, <2>2, <2>3, ConstantsAssumption DEF Moves, u, v
  <2> HIDE DEF u, v
  <2>5. v = u \/ op[r].kind # "delete" \/ ~Untouched(x, {"delete"})'
    BY <2>1, <2>4
  <2>6. v = u \/ op[r].kind \notin {"create", "update"} \cup Syncs
          \/ ~Untouched(x, {"create", "update"} \cup Syncs)'
    BY <2>1, <2>4
  <2>7. v = u \/ op[r].kind \notin {"update", "delete"} \/ ~Untouched(x, {"update", "delete"})'
    BY <2>1, <2>4
  <2>8. QED
    BY <2>4, <2>5, <2>6, <2>7 DEF u, v, Syncs
<1>3. QED
  BY <1>1, <1>2, EntriesMove

\* What has been rejected is not forgotten.
LEMMA RejectedStays ==
  ASSUME Typed, NEW r \in Requests, Proceeds(r), Acts(r), NEW q \in Requests
  PROVE  rejected[q] \subseteq rejected'[q]
<1>1. ASSUME NEW i \in Instances, LeavesAt(r, i)
      PROVE  rejected[q] \subseteq rejected'[q]
  BY <1>1 DEF LeavesAt, Typed, TypeOK
<1>2. QED
  BY <1>1, MadeLeaves, ReadLeaves, WriteLeaves DEF Acts

\* A request claims a Pi-hole that it claimed before, or to which it has just written.
ClaimsNow(r, i) ==
  \E w \in Table, bad \in SUBSET Entries :
    entries'[i] = w /\ Fulfils(r, i, w, bad) /\ \A x \in bad : <<i, x>> \in rejected'[r]

LEMMA ClaimedBefore ==
  ASSUME Typed, NEW r \in Requests, Proceeds(r), Acts(r), NEW q \in Requests, Proceeds(q),
         NEW i \in Claimed(q)'
  PROVE  /\ Active(q) /\ op[q] \in Asked /\ op'[q] = op[q] /\ snap'[q] = snap[q]
         /\ i \in Instances
         /\ i \in Claimed(q) \/ (q = r /\ ClaimsNow(r, i))
<1>1. op'[q].kind # "none" /\ stage'[q] # "reading" /\ i \in op'[q].to
      /\ i \notin todo'[q] /\ i \notin failed'[q]
  BY DEF Claimed
<1>2. CASE q # r
  <2>1. op[q].kind # "none" /\ stage[q] # "reading" /\ i \in op[q].to
        /\ i \notin todo[q] /\ i \notin failed[q] /\ op'[q] = op[q] /\ snap'[q] = snap[q]
    BY <1>1, <1>2, OthersStay
  <2>2. Active(q) /\ op[q] \in Asked
    BY <2>1 DEF Proceeds, Nothing, Active, Typed, TypeOK
  <2>3. i \in Instances
    BY <2>1, <2>2, AskedKinds
  <2>4. QED
    BY <2>1, <2>2, <2>3 DEF Claimed
<1>3. CASE q = r /\ Made(r)
  BY <1>1, <1>3, MadeLeaves DEF Typed, TypeOK
<1>4. ASSUME q = r, NEW j \in Instances, Read(r, j) \/ ReadFails(r, j)
      PROVE  FALSE
  <2>1. CASE Refuse(r)
    BY <1>1, <1>4, <2>1 DEF Refuse, Nothing, Typed
  <2>2. CASE HasRead(r, j)
    BY <1>1, <1>4, <2>2, ReadLeaves DEF HasRead
  <2>3. QED
    BY <1>4, <2>1, <2>2, ReadLeaves
<1>5. ASSUME q = r, NEW j \in Instances, Write(r, j) \/ WriteFails(r, j)
      PROVE  /\ Active(q) /\ op[q] \in Asked /\ op'[q] = op[q] /\ snap'[q] = snap[q]
             /\ i \in Instances
             /\ i \in Claimed(q) \/ (q = r /\ ClaimsNow(r, i))
  <2>1. stage[r] = "writing" /\ j \in todo[r] /\ op[r] \in Asked /\ op' = op /\ snap' = snap
        /\ todo' = [todo EXCEPT ![r] = @ \ {j}]
    BY <1>5, WriteLeaves
  <2>2. PICK w \in Table, bad \in SUBSET Entries :
                           /\ entries' = [entries EXCEPT ![j] = w]
                           /\ rejected' = [rejected EXCEPT ![r] = @ \cup ({j} \X bad)]
                           /\ \/ failed' = failed /\ Fulfils(r, j, w, bad)
                              \/ failed' = [failed EXCEPT ![r] = @ \cup {j}]
    BY <1>5, WriteLeaves DEF LeavesAt
  <2>3. i \in Instances
    BY <1>1, <1>5, <2>1, AskedKinds
  <2>4. CASE i # j
    <3>1. i \notin todo[r] /\ i \notin failed[r]
      BY <1>1, <1>5, <2>1, <2>2, <2>4 DEF Typed, TypeOK
    <3>2. QED
      BY <1>1, <1>5, <2>1, <2>3, <3>1 DEF Claimed, Active
  <2>5. CASE i = j
    <3>1. failed' = failed /\ Fulfils(r, j, w, bad)
      BY <1>1, <1>5, <2>2, <2>5 DEF Typed, TypeOK
    <3>2. entries'[i] = w
      BY <2>2, <2>5 DEF Typed, TypeOK
    <3>3. \A x \in bad : <<j, x>> \in rejected'[r]
      BY <2>2 DEF Typed, TypeOK
    <3>4. QED
      BY <1>5, <2>1, <2>3, <2>5, <3>1, <3>2, <3>3 DEF ClaimsNow, Active
  <2>6. QED
    BY <2>4, <2>5
<1>6. QED
  BY <1>2, <1>3, <1>4, <1>5 DEF Acts

-----------------------------------------------------------------------------
(***************************************************************************)
(* What is claimed is so                                                   *)
(***************************************************************************)
LEMMA SeenStep ==
  ASSUME Typed, NEW r \in Requests, Proceeds(r), Acts(r), NEW q \in Requests, SeenIsThere(q)
  PROVE  SeenIsThere(q)'
<1> SUFFICES ASSUME NEW i \in Instances, NEW x \in Entries, snap'[q][i] # None,
                    snap'[q][i][x] # None, Untouched(x, {"delete"})'
             PROVE  entries'[i][x] # None
  BY DEF SeenIsThere
<1>1. CASE snap'[q][i] = snap[q][i]
  <2>1. Untouched(x, {"delete"})
    BY UntouchedBefore
  <2>2. entries[i][x] # None
    BY <1>1, <2>1 DEF SeenIsThere
  <2>3. QED
    BY <2>2, EntryKept
<1>2. CASE snap'[q][i] # snap[q][i]
  <2>1. q = r
    BY <1>2, OthersStay
  <2>2. PICK j \in Instances : Read(r, j) \/ ReadFails(r, j)
    BY <1>2, <2>1, MadeLeaves, WriteLeaves DEF Acts
  <2>3. snap' = [snap EXCEPT ![r][j] = entries[j]] /\ entries' = entries
    BY <1>2, <2>2, ReadLeaves
  <2>4. snap'[q][i] = entries[i]
    BY <1>2, <2>1, <2>3 DEF Typed
  <2>5. QED
    BY <2>3, <2>4
<1>3. QED
  BY <1>1, <1>2

LEMMA AddedStep ==
  ASSUME Typed, NEW r \in Requests, Proceeds(r), Acts(r), NEW q \in Requests, Proceeds(q),
         SeenIsThere(q), AddedStays(q)
  PROVE  AddedStays(q)'
<1> SUFFICES ASSUME NEW x \in Adds(q)', NEW i \in Claimed(q)', Untouched(x, {"delete"})'
             PROVE  entries'[i][x] # None \/ Excused(q, i, x)'
  BY DEF AddedStays
<1>1. /\ Active(q) /\ op[q] \in Asked /\ op'[q] = op[q] /\ snap'[q] = snap[q] /\ i \in Instances
      /\ i \in Claimed(q) \/ (q = r /\ ClaimsNow(r, i))
  BY ClaimedBefore
<1>2. Untouched(x, {"delete"})
  BY UntouchedBefore
<1>3. x \in Adds(q)
  BY <1>1 DEF Adds, Known, Holders
<1>4. x \in Entries
  BY <1>1, <1>3, AskedKinds DEF Adds, Known
<1>5. CASE i \in Claimed(q)
  <2>1. entries[i][x] # None \/ Excused(q, i, x)
    BY <1>2, <1>3, <1>5 DEF AddedStays
  <2>2. Excused(q, i, x) => Excused(q, i, x)'
    BY <1>1, RejectedStays DEF Excused
  <2>3. QED
    BY <1>1, <1>4, <2>1, <2>2, EntryKept
<1>6. CASE q = r /\ ClaimsNow(r, i)
  <2>1. PICK w \in Table, bad \in SUBSET Entries :
          entries'[i] = w /\ Fulfils(r, i, w, bad) /\ \A y \in bad : <<i, y>> \in rejected'[r]
    BY <1>6 DEF ClaimsNow
  <2>2. CASE op[q].kind = "create"
    BY <1>3, <1>6, <2>1, <1>1, <2>2 DEF Fulfils, Adds, Excused
  <2>3. CASE op[q].kind = "syncOne"
    BY <1>1, <1>3, <1>6, <2>1, <2>3 DEF Fulfils, Adds, Lacking, Syncs, Excused
  <2>4. CASE op[q].kind = "syncAll"
    <3>1. x \in Known(q)
      BY <1>3, <2>4 DEF Adds
    <3>2. CASE x \in Lacking(q, i)
      BY <1>1, <1>6, <2>1, <2>4, <3>2 DEF Fulfils, Syncs, Excused
    <3>3. CASE x \notin Lacking(q, i)
      <4>1. snap[q][i] # None /\ snap[q][i][x] # None
        BY <2>4, <3>1, <3>3 DEF Lacking
      <4>2. entries[i][x] # None
        BY <1>1, <1>2, <1>4, <4>1 DEF SeenIsThere
      <4>3. QED
        BY <1>1, <1>4, <4>2, EntryKept
    <3>4. QED
      BY <3>2, <3>3
  <2>5. QED
    BY <1>3, <2>2, <2>3, <2>4 DEF Adds
<1>7. QED
  BY <1>1, <1>5, <1>6

LEMMA DeletedStep ==
  ASSUME Typed, NEW r \in Requests, Proceeds(r), Acts(r), NEW q \in Requests, Proceeds(q),
         DeletedStays(q)
  PROVE  DeletedStays(q)'
<1> DEFINE adding == {"create", "update"} \cup Syncs
<1> SUFFICES ASSUME op'[q].kind = "delete", NEW x \in op'[q].some, NEW i \in Claimed(q)',
                    Untouched(x, adding)'
             PROVE  entries'[i][x] = None
  BY DEF DeletedStays, Syncs
<1>1. /\ op[q] \in Asked /\ op'[q] = op[q] /\ i \in Instances
      /\ i \in Claimed(q) \/ (q = r /\ ClaimsNow(r, i))
  BY ClaimedBefore
<1>2. x \in Entries
  BY <1>1, AskedKinds
<1>3. CASE i \in Claimed(q)
  <2>1. Untouched(x, adding)
    BY UntouchedBefore
  <2>2. entries[i][x] = None
    BY <1>1, <1>3, <2>1 DEF DeletedStays
  <2>3. QED
    BY <1>1, <1>2, <2>2, EntryKept
<1>4. CASE q = r /\ ClaimsNow(r, i)
  BY <1>1, <1>4 DEF ClaimsNow, Fulfils
<1>5. QED
  BY <1>1, <1>3, <1>4

LEMMA DomainStep ==
  ASSUME Typed, NEW r \in Requests, Proceeds(r), Acts(r), NEW q \in Requests, Proceeds(q),
         DomainStays(q)
  PROVE  DomainStays(q)'
<1> SUFFICES ASSUME op'[q].kind = "create", NEW x \in Domains, x = op'[q].entry,
                    NEW i \in Claimed(q)', Untouched(x, {"update", "delete"})'
             PROVE  entries'[i][x] = op'[q].content
  BY DEF DomainStays
<1>1. /\ op[q] \in Asked /\ op'[q] = op[q] /\ i \in Instances
      /\ i \in Claimed(q) \/ (q = r /\ ClaimsNow(r, i))
  BY ClaimedBefore
<1>2. op[q].entry \in Entries /\ op[q].content # None
  BY <1>1, AskedKinds, ConstantsAssumption
<1>3. CASE i \in Claimed(q)
  <2>1. Untouched(x, {"update", "delete"})
    BY UntouchedBefore
  <2>2. entries[i][x] = op[q].content
    BY <1>1, <1>3, <2>1 DEF DomainStays
  <2>3. QED
    BY <1>1, <1>2, <2>2, EntryKept
<1>4. CASE q = r /\ ClaimsNow(r, i)
  BY <1>1, <1>4 DEF ClaimsNow, Fulfils
<1>5. QED
  BY <1>1, <1>3, <1>4

-----------------------------------------------------------------------------
(***************************************************************************)
(* What the baseline has is spread                                         *)
(***************************************************************************)
LEMMA OnlySpreadsBefore ==
  ASSUME Typed, NEW r \in Requests, Proceeds(r), Acts(r), OnlySpreads'
  PROVE  /\ OnlySpreads
         /\ faults' = faults
         /\ stage[r] = "writing" => op[r].kind = "syncAll"
<1>1. faults' = faults \/ (faults < MaxFaults /\ faults' = faults + 1)
  BY MadeLeaves, ReadLeaves, WriteLeaves DEF Acts
<1>2. faults = 0 /\ faults' = faults
  BY <1>1, BoundsAssumption DEF OnlySpreads, Typed, TypeOK
<1>3. ASSUME NEW q \in Requests, Active(q) PROVE op[q].kind = "syncAll"
  BY <1>3, ActiveStays DEF OnlySpreads
<1>4. QED
  BY <1>2, <1>3 DEF OnlySpreads, Active

\* Before it writes, the synchronisation of everything has asked every Pi-hole.
LEMMA SourceIsBaseline ==
  ASSUME Typed, NEW r \in Requests, BaselineIsRead(r), OnlySpreads, stage[r] = "writing",
         op[r].kind = "syncAll", NEW x \in Entries, first[Baseline][x] # None,
         NEW j \in Sources(r, x)
  PROVE  snap[r][j][x] = first[Baseline][x]
<1>1. unread[r] = {}
  BY DEF Typed, TypeOK
<1>2. snap[r][Baseline] # None /\ snap[r][Baseline][x] = first[Baseline][x]
  BY <1>1 DEF BaselineIsRead
<1>3. Baseline \in Holders(r, x)
  BY <1>2, ConstantsAssumption DEF Holders
<1>4. QED
  BY <1>2, <1>3 DEF Sources

LEMMA SpreadsStep ==
  ASSUME Typed, NEW r \in Requests, Proceeds(r), Acts(r), BaselineIsRead(r), Spreads
  PROVE  Spreads'
<1> SUFFICES ASSUME OnlySpreads', NEW x \in Entries, NEW i \in Instances
             PROVE  /\ first'[i][x] # None => entries'[i][x] = first'[i][x]
                    /\ entries'[i][x] # first'[i][x] /\ first'[Baseline][x] # None =>
                         entries'[i][x] = first'[Baseline][x]
  BY DEF Spreads
<1>1. OnlySpreads /\ (stage[r] = "writing" => op[r].kind = "syncAll")
  BY OnlySpreadsBefore
<1>2. first' = first
  BY MadeLeaves, ReadLeaves, WriteLeaves DEF Acts
<1>3. /\ first[i][x] # None => entries[i][x] = first[i][x]
      /\ entries[i][x] # first[i][x] /\ first[Baseline][x] # None =>
           entries[i][x] = first[Baseline][x]
  BY <1>1 DEF Spreads
<1>4. CASE entries'[i][x] = entries[i][x]
  BY <1>2, <1>3, <1>4
<1>5. CASE /\ entries'[i][x] # entries[i][x] /\ stage[r] = "writing"
           /\ Moves(r, x, entries[i][x], entries'[i][x])
  <2>1. /\ op[r].kind = "syncAll" /\ entries[i][x] = None
        /\ \E j \in Sources(r, x) : entries'[i][x] = snap[r][j][x]
    BY <1>1, <1>5 DEF Moves
  <2>2. first[Baseline][x] # None => entries'[i][x] = first[Baseline][x]
    BY <1>1, <1>5, <2>1, SourceIsBaseline
  <2>3. first[i][x] = None
    BY <1>3, <2>1
  <2>4. QED
    BY <1>2, <2>2, <2>3
<1>6. QED
  BY <1>4, <1>5, EntriesMove

LEMMA BaselineReadStep ==
  ASSUME Typed, NEW r \in Requests, Proceeds(r), Acts(r), Spreads,
         NEW q \in Requests, BaselineIsRead(q)
  PROVE  BaselineIsRead(q)'
<1> SUFFICES ASSUME OnlySpreads', op'[q].kind = "syncAll", Baseline \notin unread'[q]
             PROVE  /\ snap'[q][Baseline] # None
                    /\ \A x \in Entries : first'[Baseline][x] # None =>
                                            snap'[q][Baseline][x] = first'[Baseline][x]
  BY DEF BaselineIsRead
<1>1. OnlySpreads /\ faults' = faults
  BY OnlySpreadsBefore
<1>2. first' = first
  BY MadeLeaves, ReadLeaves, WriteLeaves DEF Acts
<1>3. CASE op'[q] = op[q] /\ unread'[q] = unread[q] /\ snap'[q] = snap[q]
  BY <1>1, <1>2, <1>3 DEF BaselineIsRead
<1>4. CASE q = r /\ Made(r)
  BY <1>4, MadeLeaves, ConstantsAssumption
<1>5. ASSUME q = r, NEW i \in Instances, Read(r, i) \/ ReadFails(r, i)
      PROVE  /\ snap'[q][Baseline] # None
             /\ \A x \in Entries : first[Baseline][x] # None =>
                                     snap'[q][Baseline][x] = first[Baseline][x]
  <2>1. faults + 1 # faults
    BY DEF Typed, TypeOK
  <2>2. ~Refuse(r)
    BY <1>5 DEF Refuse, Nothing, Typed
  <2>3. HasRead(r, i) /\ snap' = [snap EXCEPT ![r][i] = entries[i]]
    BY <1>1, <1>5, <2>1, <2>2, ReadLeaves
  <2>4. op' = op /\ unread'[r] = unread[r] \ {i}
    BY <2>3 DEF HasRead, Typed, TypeOK
  <2>5. CASE i = Baseline
    <3>1. snap'[r][Baseline] = entries[Baseline]
      BY <2>3, <2>5 DEF Typed
    <3>2. entries[Baseline] # None
      BY ConstantsAssumption, NoneAssumption DEF Typed, TypeOK
    <3>3. QED
      BY <1>1, <1>5, <3>1, <3>2, ConstantsAssumption DEF Spreads
  <2>6. CASE i # Baseline
    <3>1. snap'[r][Baseline] = snap[r][Baseline] /\ Baseline \notin unread[r]
      BY <1>5, <2>3, <2>4, <2>6, ConstantsAssumption DEF Typed
    <3>2. QED
      BY <1>1, <1>5, <2>4, <3>1 DEF BaselineIsRead
  <2>7. QED
    BY <2>5, <2>6
<1>6. ASSUME q = r, NEW i \in Instances, Write(r, i) \/ WriteFails(r, i)
      PROVE  op' = op /\ unread' = unread /\ snap' = snap
  BY <1>6, WriteLeaves
<1>7. CASE q # r
  BY <1>3, <1>7, OthersStay
<1>8. QED
  BY <1>2, <1>3, <1>4, <1>5, <1>6, <1>7 DEF Acts

-----------------------------------------------------------------------------
(***************************************************************************)
(* The theorems                                                            *)
(***************************************************************************)
LEMMA InitInv == Init => IInv
<1> SUFFICES ASSUME Init PROVE IInv
  OBVIOUS
<1>1. Typed
  BY ConstantsAssumption, BoundsAssumption DEF Init, Typed, TypeOK, NoSnap, Nothing
<1>2. \A r \in Requests : stage[r] = "idle" /\ op[r] = Nothing /\ snap[r] = NoSnap
                          /\ failed[r] = {}
  BY DEF Init
<1>3. ASSUME NEW r \in Requests PROVE Proceeds(r) /\ Stays(r) /\ BaselineIsRead(r)
  <2>1. Claimed(r) = {} /\ op[r].kind = "none"
    BY <1>2 DEF Claimed, Nothing
  <2>2. SeenIsThere(r)
    BY <1>2 DEF SeenIsThere, NoSnap
  <2>3. QED
    BY <1>2, <2>1, <2>2 DEF Proceeds, Active, Stays, AddedStays, DeletedStays, DomainStays,
      BaselineIsRead
<1>4. Spreads
  BY DEF Init, Spreads
<1>5. QED
  BY <1>1, <1>3, <1>4 DEF IInv

LEMMA NextInv == IInv /\ [Next]_vars => IInv'
<1> SUFFICES ASSUME IInv, [Next]_vars PROVE IInv'
  OBVIOUS
<1>1. CASE Next
  <2>1. PICK r \in Requests : Acts(r)
    BY <1>1, NextActs
  <2>2. Typed /\ Proceeds(r) /\ BaselineIsRead(r) /\ Spreads
    BY DEF IInv
  <2>3. Typed' /\ Spreads'
    BY <2>1, <2>2, StepTyped, SpreadsStep
  <2>4. ASSUME NEW q \in Requests PROVE (Proceeds(q) /\ Stays(q) /\ BaselineIsRead(q))'
    <3>1. Proceeds(q) /\ Stays(q) /\ BaselineIsRead(q)
      BY DEF IInv
    <3>2. Proceeds(q)'
      BY <2>1, <2>2, StepProceeds DEF IInv
    <3>3. Stays(q)'
      BY <2>1, <2>2, <3>1, SeenStep, AddedStep, DeletedStep, DomainStep DEF Stays
    <3>4. BaselineIsRead(q)'
      BY <2>1, <2>2, <3>1, BaselineReadStep
    <3>5. QED
      BY <3>2, <3>3, <3>4
  <2>5. QED
    BY <2>3, <2>4 DEF IInv
<1>2. CASE UNCHANGED vars
  <2>1. UNCHANGED <<entries, op, stage, snap, unread, todo, failed, faults, rejected, first>>
    BY <1>2 DEF vars, request
  <2>2. Typed' /\ Spreads'
    BY <2>1 DEF IInv, Typed, TypeOK, Spreads, OnlySpreads, Active
  <2>3. ASSUME NEW q \in Requests PROVE (Proceeds(q) /\ Stays(q) /\ BaselineIsRead(q))'
    <3>1. Proceeds(q) /\ Stays(q) /\ BaselineIsRead(q)
      BY DEF IInv
    <3>2. Proceeds(q)' /\ BaselineIsRead(q)'
      BY <2>1, <3>1 DEF Proceeds, BaselineIsRead, OnlySpreads, Active
    <3>3. \A x, kinds : Untouched(x, kinds)' <=> Untouched(x, kinds)
      BY <2>1 DEF Untouched, Asking, Asks, Active
    <3>4. Claimed(q)' = Claimed(q) /\ Adds(q)' = Adds(q)
      BY <2>1 DEF Claimed, Adds, Known, Holders
    <3>5. QED
      BY <2>1, <3>1, <3>2, <3>3, <3>4 DEF Stays, SeenIsThere, AddedStays, DeletedStays, DomainStays,
        Excused
  <2>4. QED
    BY <2>2, <2>3 DEF IInv
<1>3. QED
  BY <1>1, <1>2

LEMMA Invariance == Spec => []IInv
BY InitInv, NextInv, PTL DEF Spec

\* If nobody asks for an entry, nobody who did has touched it.
LEMMA NobodyTouched ==
  ASSUME NEW x, NEW kinds, Asking(x, kinds) = {}
  PROVE  Untouched(x, kinds)
BY DEF Untouched

\* createList, applyDomainOperation, batchDelete and the synchronisations: whatever else
\* is going on, a Pi-hole that counts as successful has what was to be added, unless
\* somebody deletes it or it rejected a list or a synchronised domain itself, and not what
\* was to be deleted, unless somebody adds it.
THEOREM SuccessIsTrue == Spec => []EntryInv
<1>1. IInv => EntryInv
  <2> SUFFICES ASSUME IInv PROVE EntryInv
    OBVIOUS
  <2>1. TypeOK
    BY DEF IInv, Typed
  <2>2. AddedIsThere
    BY NobodyTouched DEF IInv, Stays, AddedStays, AddedIsThere
  <2>3. DeletedIsGone
    BY NobodyTouched DEF IInv, Stays, DeletedStays, DeletedIsGone
  <2>4. QED
    BY <2>1, <2>2, <2>3 DEF EntryInv
<1>2. QED
  BY Invariance, <1>1, PTL

\* createDomainAcrossInstances: a Pi-hole that counts as successful has the new domain
\* with the comment and the groups that were asked for, even if others create it too.
THEOREM NewDomainsAreAsAsked == Spec => []DomainIsAsAsked
<1>1. IInv => DomainIsAsAsked
  BY NobodyTouched DEF IInv, Stays, DomainStays, DomainIsAsAsked
<1>2. QED
  BY Invariance, <1>1, PTL

\* syncLists and syncDomains for everything: if there is nothing else and every Pi-hole
\* answers, what the baseline has is what the others get, however many of them are at work
\* at once.
THEOREM BaselineWins == Spec => []BaselineIsSpread
<1>1. IInv => BaselineIsSpread
  <2> SUFFICES ASSUME IInv, faults = 0, \A r \in Requests : op[r].kind \in {"none", "syncAll"}
               PROVE  OnlySpreads
    BY DEF IInv, Spreads, BaselineIsSpread
  <2>1. ASSUME NEW r \in Requests, Active(r) PROVE op[r].kind = "syncAll"
    BY <2>1, AskedSomething DEF IInv, Proceeds
  <2>2. QED
    BY <2>1 DEF OnlySpreads
<1>2. QED
  BY Invariance, <1>1, PTL
=============================================================================
