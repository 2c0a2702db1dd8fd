---------------------------- MODULE ConfigTopics ----------------------------
(***************************************************************************)
(* PiholeConfigService: users save one topic of the configuration of a     *)
(* Pi-hole, or copy it from one Pi-hole to others.                         *)
(*                                                                         *)
(* A save compares the topic that the user sends with the one it reads     *)
(* from the Pi-hole.  It sends the difference: an array loses and gets     *)
(* items one by one, and then the other fields that differ are patched.    *)
(* Only each access to the Pi-hole is exclusive, so that the difference    *)
(* may be from a topic that is no longer there, and a failure leaves the   *)
(* Pi-hole half-way.                                                       *)
(*                                                                         *)
(* A topic here has one array, of which the order does not count, as it    *)
(* does not for the comparison.                                            *)
(***************************************************************************)
EXTENDS Naturals, FiniteSets

CONSTANTS Piholes,
          Items,     \* what the array may have
          Fields,    \* the other fields
          Values,
          Askers,    \* requests of users: each one is made once
          MaxFaults, \* bound on the accesses that fail after the reading
          Missing    \* instead of an array or a value that the user does not send

ASSUME MissingAssumption == Missing \notin Values /\ \A s \in SUBSET Items : s # Missing
ASSUME FaultsAssumption == MaxFaults \in Nat

Topic == [array : SUBSET Items, value : [Fields -> Values]]
Sent == [array : (SUBSET Items) \cup {Missing}, value : [Fields -> Values \cup {Missing}]]

VARIABLES config,  \* the topic at each Pi-hole
          op,      \* what each request asks for
          step,    \* where it stands
          snap,    \* the topic it has read from its source
          todo,    \* the Pi-holes it has yet to write to
          failed,  \* those that have failed
          faults,
          quiet,   \* history: no other request has changed a topic since it began
          first    \* history: the topics before the first request

request == <<op, step, snap, todo, failed>>
topicVars == <<config, request, faults, quiet, first>>

Nothing == [kind |-> "none"]
Updates(r) == op[r].kind = "update"
Syncs(r) == op[r].kind = "sync"

InitTopics ==
  /\ config \in [Piholes -> Topic]
  /\ op = [r \in Askers |-> Nothing]
  /\ step = [r \in Askers |-> "idle"]
  /\ snap = [r \in Askers |-> Missing]
  /\ todo = [r \in Askers |-> {}]
  /\ failed = [r \in Askers |-> {}]
  /\ faults = 0
  /\ quiet = [r \in Askers |-> TRUE]
  /\ first = config

Ask(r, what, pending) ==
  /\ step[r] = "idle"
  /\ op' = [op EXCEPT ![r] = what]
  /\ step' = [step EXCEPT ![r] = "reading"]
  /\ todo' = [todo EXCEPT ![r] = pending]
  /\ UNCHANGED <<config, snap, failed, faults, quiet, first>>

UpdateTopic(r) ==
  \E what \in [kind : {"update"}, source : Piholes, next : Sent] :
    Ask(r, what, {what.source})

SyncTopic(r) ==
  \E what \in [kind : {"sync"}, source : Piholes, targets : SUBSET Piholes] :
    what.targets # {} /\ what.source \notin what.targets /\ Ask(r, what, what.targets)

Ends(r, how) ==
  /\ step' = [step EXCEPT ![r] = how]
  /\ todo' = [todo EXCEPT ![r] = {}]
  /\ snap' = [snap EXCEPT ![r] = Missing]

ReadFails(r) ==
  /\ step[r] = "reading"
  /\ Ends(r, "error")
  /\ UNCHANGED <<config, op, failed, faults, quiet, first>>

\* readTopicFromInstance
Read(r) ==
  /\ step[r] = "reading"
  /\ snap' = [snap EXCEPT ![r] = config[op[r].source]]
  /\ step' = [step EXCEPT ![r] = "writing"]
  /\ UNCHANGED <<config, op, todo, failed, faults, quiet, first>>

-----------------------------------------------------------------------------
(***************************************************************************)
(* What is sent to a Pi-hole, and what it makes of it                      *)
(***************************************************************************)
Given(next) == {f \in Fields : next.value[f] # Missing}

\* Slip: the array is emptied, and filled again.
Slip_DiffReplaces(old, next) ==
  IF next.array = Missing
  THEN [remove |-> {}, add |-> {}, patch |-> Given(next)]
  ELSE [remove |-> old.array, add |-> next.array,
        patch |-> {f \in Given(next) : next.value[f] # old.value[f]}]

\* Slip: the other fields are forgotten if the array differs.
Slip_DiffStops(old, next) ==
  IF next.array = Missing
  THEN [remove |-> {}, add |-> {}, patch |-> Given(next)]
  ELSE [remove |-> old.array \ next.array, add |-> next.array \ old.array,
        patch |-> IF next.array # old.array THEN {}
                  ELSE {f \in Given(next) : next.value[f] # old.value[f]}]

\* buildPrimitiveArrayDiff.  Without the array, all that is given is patched.
Diff(old, next) ==
  IF next.array = Missing
  THEN [remove |-> {}, add |-> {}, patch |-> Given(next)]
  ELSE [remove |-> old.array \ next.array, add |-> next.array \ old.array,
        patch |-> {f \in Given(next) : next.value[f] # old.value[f]}]

Applied(d, next, t) ==
  [array |-> (t.array \ d.remove) \cup d.add,
   value |-> [f \in Fields |-> IF f \in d.patch THEN next.value[f] ELSE t.value[f]]]

\* The Pi-hole removes no item that is gone, and adds none that is there.
Smooth(d, t) == d.remove \subseteq t.array /\ (d.add \ d.remove) \cap t.array = {}

\* What a failure leaves: items are removed first, then added.  The patch is the last.
HalfWay(d) ==
  {e \in [remove : SUBSET d.remove, add : SUBSET d.add, patch : {{}, d.patch}] :
     /\ e.add # {} => e.remove = d.remove
     /\ e.patch # {} => e.add = d.add}

-----------------------------------------------------------------------------
(***************************************************************************)
(* Writing: one access to each Pi-hole                                     *)
(***************************************************************************)
Fault == faults < MaxFaults /\ faults' = faults + 1

Put(r, i, t) ==
  /\ config' = [config EXCEPT ![i] = t]
  /\ quiet' = [q \in Askers |->
                 quiet[q] /\ (q # r /\ step[q] \in {"reading", "writing"} => t = config[i])]
  /\ UNCHANGED <<op, first>>

SaveTopic(r) ==
  LET i == op[r].source
      d == Diff(snap[r], op[r].next)
      next == op[r].next
  IN
  /\ step[r] = "writing" /\ Updates(r)
  /\ IF Smooth(d, config[i])
     THEN Put(r, i, Applied(d, next, config[i])) /\ Ends(r, "answering")
     ELSE \E e \in HalfWay(d) :
            Put(r, i, Applied(e, next, config[i])) /\ Ends(r, "error")
  /\ UNCHANGED <<failed, faults>>

SaveFails(r) ==
  /\ step[r] = "writing" /\ Updates(r) /\ Fault
  /\ \E e \in HalfWay(Diff(snap[r], op[r].next)) :
       Put(r, op[r].source, Applied(e, op[r].next, config[op[r].source]))
  /\ Ends(r, "error")
  /\ UNCHANGED failed

\* getTopic reads it again for the answer, which fails if a reading does.
Answer(r) ==
  /\ step[r] = "answering"
  /\ \E how \in {"success", "error"} : Ends(r, how)
  /\ UNCHANGED <<config, op, failed, faults, quiet, first>>

\* Slip: the arrays are left to the saves.
Slip_CopiedValues(r, i) == [config[i] EXCEPT !.value = snap[r].value]

\* The whole topic is sent, with the fields that an ignore rule names.
Copied(r, i) == snap[r]

Copy(r, i, ok, t) ==
  /\ step[r] = "writing" /\ Syncs(r) /\ i \in todo[r]
  /\ Put(r, i, t)
  /\ failed' = IF ok THEN failed ELSE [failed EXCEPT ![r] = @ \cup {i}]
  /\ IF todo[r] = {i}
     THEN Ends(r, IF failed'[r] = {} THEN "success" ELSE "partial")
     ELSE todo' = [todo EXCEPT ![r] = @ \ {i}] /\ UNCHANGED <<step, snap>>

SyncTo(r, i) == Copy(r, i, TRUE, Copied(r, i)) /\ UNCHANGED faults

\* The Pi-hole is not reached, or its answer is lost.
SyncFails(r, i) ==
  /\ Fault
  /\ Copy(r, i, FALSE, config[i]) \/ Copy(r, i, FALSE, Copied(r, i))

NextTopics ==
  \E r \in Askers :
    \/ UpdateTopic(r) \/ SyncTopic(r) \/ ReadFails(r) \/ Read(r)
    \/ SaveTopic(r) \/ SaveFails(r) \/ Answer(r)
    \/ \E i \in Piholes : SyncTo(r, i) \/ SyncFails(r, i)

SpecTopics == InitTopics /\ [][NextTopics]_topicVars

-----------------------------------------------------------------------------
(***************************************************************************)
(* Properties                                                              *)
(***************************************************************************)
\* The variables have the values the code can give them.
TopicsTypeOK ==
  /\ config \in [Piholes -> Topic]
  /\ step \in [Askers ->
       {"idle", "reading", "writing", "answering", "success", "partial", "error"}]
  /\ \A r \in Askers : snap[r] = Missing \/ snap[r] \in Topic
  /\ todo \in [Askers -> SUBSET Piholes]
  /\ failed \in [Askers -> SUBSET Piholes]
  /\ faults \in 0..MaxFaults
  /\ quiet \in [Askers -> BOOLEAN]
  /\ first \in [Piholes -> Topic]

SendsArray(r) == Updates(r) /\ op[r].next.array # Missing

\* An item that every Pi-hole has at first, and that no save leaves out, is never
\* missing from one, and one that nobody has is never there: not in the middle of a
\* save either, whatever the others do and wherever it fails.
CommonItemsStay ==
  \A x \in Items :
    /\ (/\ \A i \in Piholes : x \in first[i].array
        /\ \A r \in Askers : SendsArray(r) => x \in op[r].next.array)
       => \A i \in Piholes : x \in config[i].array
    /\ (/\ \A i \in Piholes : x \notin first[i].array
        /\ \A r \in Askers : SendsArray(r) => x \notin op[r].next.array)
       => \A i \in Piholes : x \notin config[i].array

Savers(i) == {r \in Askers : Updates(r) /\ op[r].source = i}
Copiers(i) == {r \in Askers : Syncs(r) /\ i \in op[r].targets}

\* Where users who save the same Pi-hole at the same time agree, and nothing is
\* copied to it, it has what they want once one of them has succeeded, though each
\* sends the difference from a topic that another may have changed since.
AgreedChangesSurvive ==
  \A i \in Piholes : \A r \in Savers(i) :
    Copiers(i) = {} /\ step[r] = "success" =>
      /\ \A x \in Items :
           (SendsArray(r) /\ \A q \in Savers(i) : SendsArray(q) =>
              (x \in op[q].next.array <=> x \in op[r].next.array))
           => (x \in config[i].array <=> x \in op[r].next.array)
      /\ \A f \in Given(op[r].next) :
           (\A q \in Savers(i) : f \in Given(op[q].next) =>
              op[q].next.value[f] = op[r].next.value[f])
           => config[i].value[f] = op[r].next.value[f]

\* A copy that succeeds, and met no other change, has given all its targets the topic
\* of the source, whatever failed saves had left there.
CopyIsWhole ==
  [][\A r \in Askers :
       Syncs(r) /\ quiet'[r] /\ step[r] = "writing" /\ step'[r] = "success" =>
         \A i \in op[r].targets : config'[i] = config'[op[r].source]]_topicVars

\* What all agree on is there, in every state between two requests to a Pi-hole.
TopicInv == TopicsTypeOK /\ CommonItemsStay
=============================================================================
