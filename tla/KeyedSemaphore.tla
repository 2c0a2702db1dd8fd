--------------------------- MODULE KeyedSemaphore ---------------------------
(***************************************************************************)
(* What the Pi-hole work coordinator promises its callers, without saying  *)
(* how: a call that names a set of keys gets a permit on all of them at    *)
(* once, at most GlobalMax permits are out at any moment, and at most      *)
(* PerKeyMax of them name any one key.  A call made under a permit that    *)
(* already covers its keys is a guest of the holder: it needs no permit of *)
(* its own, and the holder may not give its permit back while a guest is   *)
(* at work.  WorkCoordinator implements this module.                       *)
(***************************************************************************)
EXTENDS Naturals, FiniteSets

CONSTANTS Calls,      \* the calls of run(), one identity per call
          Keys,       \* the lock keys: instance:<id> and target:<url>:<trust>
          NoJob,      \* the context of a call made outside every job
          GlobalMax,  \* permits in the system
          PerKeyMax   \* permits naming one key

VARIABLES phase,  \* where each call stands
          want,   \* the keys a call names
          host    \* the permit holder under which the call was made

vars == <<phase, want, host>>

Holders == {c \in Calls : phase[c] = "running"}
HoldersOf(k) == {c \in Holders : k \in want[c]}
Guests(h) == {c \in Calls : phase[c] = "inline" /\ host[c] = h}

Init ==
  /\ phase = [c \in Calls |-> "idle"]
  /\ want = [c \in Calls |-> {}]
  /\ host = [c \in Calls |-> NoJob]

\* The host of a call is a call that holds a permit, or nobody.
Hosts == Holders \cup {NoJob}

\* A call covered by the permit of its host (or naming no key) goes ahead.
Join(c, h, ks) ==
  /\ phase[c] = "idle"
  /\ h \in Hosts
  /\ ks = {} \/ (h \in Holders /\ ks \subseteq want[h])
  /\ phase' = [phase EXCEPT ![c] = "inline"]
  /\ want' = [want EXCEPT ![c] = ks]
  /\ host' = [host EXCEPT ![c] = h]

\* Any other call waits for a permit of its own.
Request(c, h, ks) ==
  /\ phase[c] = "idle"
  /\ h \in Hosts
  /\ phase' = [phase EXCEPT ![c] = "queued"]
  /\ want' = [want EXCEPT ![c] = ks]
  /\ host' = [host EXCEPT ![c] = h]

\* A waiting call gets its permit when one is free, globally and on each key.
Acquire(c) ==
  /\ phase[c] = "queued"
  /\ Cardinality(Holders) < GlobalMax
  /\ \A k \in want[c] : Cardinality(HoldersOf(k)) < PerKeyMax
  /\ phase' = [phase EXCEPT ![c] = "running"]
  /\ UNCHANGED <<want, host>>

Release(c) ==
  /\ phase[c] = "running"
  /\ Guests(c) = {}
  /\ phase' = [phase EXCEPT ![c] = "settled"]
  /\ UNCHANGED <<want, host>>

Leave(c) ==
  /\ phase[c] = "inline"
  /\ phase' = [phase EXCEPT ![c] = "settled"]
  /\ UNCHANGED <<want, host>>

Next ==
  \E c \in Calls :
    \/ \E h \in Calls \cup {NoJob}, ks \in SUBSET Keys :
         Join(c, h, ks) \/ Request(c, h, ks)
    \/ Acquire(c)
    \/ Release(c)
    \/ Leave(c)

Spec == Init /\ [][Next]_vars
=============================================================================
