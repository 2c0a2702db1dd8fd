-------------------------- MODULE MCWorkCoordinator -------------------------
(***************************************************************************)
(* TLC instances of WorkCoordinator: two instances, their targets, and a   *)
(* third target.  runForInstance names an instance and its target,         *)
(* runForConnection a target alone.                                        *)
(***************************************************************************)
EXTENDS WorkCoordinator

CONSTANTS i1, i2,  \* instance keys
          t1, t2, t3  \* target keys

MCKeys == {i1, i2, t1, t2, t3}

\* runForInstance on i1 at t1 and on i2 at t2; runForConnection on t1, which is
\* i1's target, and on t3, which is no instance's yet.
MCTopKeys == {{i1, t1}, {i2, t2}, {t1}, {t3}}

\* seedSessionFromLogin and forceReauthenticate called inside a job: on the
\* target read before the lock was taken (reuse), or on the target the record
\* has now (no reuse).  The empty set is a call of run() without keys.
MCNestedKeys == {{}, {i1, t1}, {i1, t2}}

=============================================================================
