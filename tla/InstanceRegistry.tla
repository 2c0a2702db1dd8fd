-------------------------- MODULE InstanceRegistry --------------------------
(***************************************************************************)
(* Which Pi-hole is the baseline and which ones take part in sync: the     *)
(* isBaseline and syncEnabled columns of the Instance table, written by    *)
(* SetupService.createBaseline and InstancesService.createInstance,        *)
(* updateInstanceSync and promotePrimaryInstance.                          *)
(*                                                                         *)
(* No column is unique and no lock of the application is taken, so what    *)
(* keeps the table sane is PostgreSQL at its default level, READ           *)
(* COMMITTED: a statement sees the rows committed when it starts, waits    *)
(* for a row another transaction has written, and looks at that row again  *)
(* once it gets it.  The model has one action per statement.               *)
(***************************************************************************)
EXTENDS Naturals, FiniteSets

CONSTANTS Identities,  \* the identities a row of the table can have
          Setups,      \* requests of createBaseline
          Creations,   \* requests of createInstance
          Toggles,     \* requests of updateInstanceSync
          Promotions,  \* requests of promotePrimaryInstance
          Nobody       \* the owner of a row no transaction has written

Writers == Setups \cup Creations \cup Toggles \cup Promotions

ASSUME WritersAssumption ==
  /\ Nobody \notin Writers
  /\ Setups \cap (Creations \cup Toggles \cup Promotions) = {}
  /\ Creations \cap (Toggles \cup Promotions) = {}
  /\ Toggles \cap Promotions = {}

VARIABLES exists,    \* the rows of the table
          baseline,  \* the rows whose isBaseline is true
          enabled,   \* the rows whose syncEnabled is true
          writer,    \* the transaction that holds the lock on a row
          step,      \* where each request stands
          subject,   \* the instance a request is about
          toClear    \* the rows a promotion still has to clear

registryVars == <<exists, baseline, enabled, writer, step, subject, toClear>>

InitRegistry ==
  /\ exists = {}
  /\ baseline = {}
  /\ enabled = {}
  /\ writer = [i \in Identities |-> Nobody]
  /\ step = [r \in Writers |-> "idle"]
  /\ subject \in [Writers -> Identities]
  /\ toClear = [p \in Promotions |-> {}]

StepTo(r, from, to) == step[r] = from /\ step' = [step EXCEPT ![r] = to]

Table == <<exists, baseline, enabled>>

-----------------------------------------------------------------------------
(***************************************************************************)
(* createBaseline: look for a baseline, validate every Pi-hole of the form *)
(* over HTTP, then create all the rows in one transaction.                 *)
(***************************************************************************)
SetupCheck(s) ==
  /\ StepTo(s, "idle", IF baseline = {} THEN "validating" ELSE "refused")
  /\ UNCHANGED <<Table, writer, subject, toClear>>

SetupFail(s) ==
  /\ StepTo(s, "validating", "failed")
  /\ UNCHANGED <<Table, writer, subject, toClear>>

\* The master is the baseline; the other Pi-holes of the form are ordinary.
SetupCommit(s) ==
  /\ StepTo(s, "validating", "done")
  /\ subject[s] \notin exists
  /\ \E others \in SUBSET (Identities \ (exists \cup {subject[s]})) :
       /\ exists' = exists \cup {subject[s]} \cup others
       /\ enabled' = enabled \cup {subject[s]} \cup others
  /\ baseline' = baseline \cup {subject[s]}
  /\ UNCHANGED <<writer, subject, toClear>>

\* createInstance: one row, not a baseline, enabled by the column's default.
\* The route needs a session, so the setup is over.
Create(c) ==
  /\ baseline # {}
  /\ StepTo(c, "idle", "done")
  /\ subject[c] \notin exists
  /\ exists' = exists \cup {subject[c]}
  /\ enabled' = enabled \cup {subject[c]}
  /\ UNCHANGED <<baseline, writer, subject, toClear>>

-----------------------------------------------------------------------------
(***************************************************************************)
(* updateInstanceSync: the row is read, then written by a statement of its *)
(* own.  Enabling is the same path with no refusal.                        *)
(***************************************************************************)
ToggleRead(g) ==
  /\ subject[g] \in exists
  /\ \/ StepTo(g, "idle", "enabling")
     \/ StepTo(g, "idle", IF subject[g] \in baseline THEN "refused"
                                                   ELSE "disabling")
  /\ UNCHANGED <<Table, writer, subject, toClear>>

ToggleWrite(g) ==
  /\ writer[subject[g]] = Nobody
  /\ \/ StepTo(g, "enabling", "done") /\ enabled' = enabled \cup {subject[g]}
     \/ StepTo(g, "disabling", "done") /\ enabled' = enabled \ {subject[g]}
  /\ UNCHANGED <<exists, baseline, writer, subject, toClear>>

-----------------------------------------------------------------------------
(***************************************************************************)
(* promotePrimaryInstance: a transaction that clears the other baselines,  *)
(* sets the new one, counts the baselines and commits if there is one.     *)
(***************************************************************************)
\* The rows the transaction p has written, and the baselines as p sees them.
Written(p) == {i \in Identities : writer[i] = p}
BaselinesSeenBy(p) ==
  (baseline \ Written(p)) \cup (Written(p) \cap {subject[p]})

\* updateMany picks its rows among those committed when the statement starts.
PromoteScan(p) ==
  /\ subject[p] \in exists
  /\ StepTo(p, "idle", "clearing")
  /\ toClear' = [toClear EXCEPT ![p] = baseline \ {subject[p]}]
  /\ UNCHANGED <<Table, writer, subject>>

\* It takes each row once nobody else holds it, and skips it if the row is no
\* longer a baseline by then.
PromoteClear(p) ==
  /\ step[p] = "clearing"
  /\ \E i \in toClear[p] :
       /\ writer[i] = Nobody
       /\ toClear' = [toClear EXCEPT ![p] = @ \ {i}]
       /\ writer' = [writer EXCEPT ![i] = IF i \in baseline THEN p ELSE @]
  /\ UNCHANGED <<Table, step, subject>>

PromoteSet(p) ==
  /\ toClear[p] = {}
  /\ writer[subject[p]] = Nobody
  /\ StepTo(p, "clearing", "counting")
  /\ writer' = [writer EXCEPT ![subject[p]] = p]
  /\ UNCHANGED <<Table, subject, toClear>>

\* Slip: the count is not checked.
Slip_PromoteUnchecked(p) ==
  /\ StepTo(p, "counting", "committing")
  /\ UNCHANGED <<Table, writer, subject, toClear>>

\* The count is a statement of its own: it sees what others have committed.
PromoteCount(p) ==
  /\ Cardinality(BaselinesSeenBy(p)) = 1
  /\ StepTo(p, "counting", "committing")
  /\ UNCHANGED <<Table, writer, subject, toClear>>

Unlocked(p) == [i \in Identities |-> IF writer[i] = p THEN Nobody ELSE writer[i]]

\* Slip: the commit clears every row it wrote, the new baseline included.
Slip_PromoteClearsAll(p) ==
  /\ StepTo(p, "committing", "done")
  /\ baseline' = baseline \ Written(p)
  /\ enabled' = enabled \cup {subject[p]}
  /\ writer' = Unlocked(p)
  /\ UNCHANGED <<exists, subject, toClear>>

PromoteCommit(p) ==
  /\ StepTo(p, "committing", "done")
  /\ baseline' = BaselinesSeenBy(p)
  /\ enabled' = enabled \cup {subject[p]}
  /\ writer' = Unlocked(p)
  /\ UNCHANGED <<exists, subject, toClear>>

\* The count is wrong, a statement fails, or the five seconds Prisma gives an
\* interactive transaction are over: nothing the transaction wrote remains.
PromoteRollback(p) ==
  /\ step[p] \in {"clearing", "counting", "committing"}
  /\ step' = [step EXCEPT ![p] = "failed"]
  /\ writer' = Unlocked(p)
  /\ UNCHANGED <<Table, subject, toClear>>

-----------------------------------------------------------------------------
NextRegistry ==
  \/ \E s \in Setups : SetupCheck(s) \/ SetupFail(s) \/ SetupCommit(s)
  \/ \E c \in Creations : Create(c)
  \/ \E g \in Toggles : ToggleRead(g) \/ ToggleWrite(g)
  \/ \E p \in Promotions : \/ PromoteScan(p)  \/ PromoteClear(p)
                           \/ PromoteSet(p)   \/ PromoteCount(p)
                           \/ PromoteCommit(p) \/ PromoteRollback(p)

SpecRegistry == InitRegistry /\ [][NextRegistry]_registryVars

-----------------------------------------------------------------------------
RegistryTypeOK ==
  /\ exists \subseteq Identities
  /\ baseline \subseteq exists
  /\ enabled \subseteq exists
  /\ writer \in [Identities -> Writers \cup {Nobody}]
  /\ step \in [Writers -> {"idle", "validating", "enabling", "disabling",
                          "clearing", "counting", "committing",
                          "done", "refused", "failed"}]
  /\ subject \in [Writers -> Identities]
  /\ toClear \in [Promotions -> SUBSET Identities]

\* However promotions interleave with one another, with toggles and with the
\* setup, the table never shows two baselines: "Exactly one baseline instance
\* must remain configured." (instances.service.ts:715).
OneBaseline == \A i, j \in baseline : i = j

\* Once there is a baseline there always is one: login, config sync and every
\* other reader of isBaseline find a row.
KeepsBaseline == [][baseline # {} => baseline' # {}]_registryVars

\* The table is well formed, with one baseline at most.
RegistryInv == RegistryTypeOK /\ OneBaseline
=============================================================================
