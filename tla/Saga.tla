-------------------------------- MODULE Saga --------------------------------
(***************************************************************************)
(* What the saga engine (workflow.go) promises for its instances: the      *)
(* steps of an instance succeed in order, a step fails for good only once  *)
(* it was reached, and the rollback walks back from a failed step: a       *)
(* compensation is asked for only when its step had succeeded and those of *)
(* all the steps between it and the failed one were asked for before.      *)
(*                                                                         *)
(* A step may succeed and fail both (its last attempt may be delivered     *)
(* twice), and an instance for which the engine has discarded an error is  *)
(* promised only that nothing is undone that was not done.  Workflow.tla   *)
(* implements this specification.                                          *)
(***************************************************************************)
EXTENDS Integers

CONSTANT Instances

VARIABLES
  last,        \* the number of steps; it never changes
  succeeded,   \* <<instance, step>> whose handler has succeeded
  failed,      \* <<instance, step>> that failed for good
  compensated, \* <<instance, step>> whose compensation was asked for
  troubled     \* instances for which an error was discarded

sagaVars == <<last, succeeded, failed, compensated, troubled>>

SagaInit ==
  /\ last \in Nat \ {0}
  /\ succeeded = {} /\ failed = {} /\ compensated = {} /\ troubled = {}

Reached(i, n) == \A k \in 1..(n - 1) : <<i, k>> \in succeeded

\* An error may go unnoticed along with what the step does.
MayDiscard(i) == troubled' = troubled \/ troubled' = troubled \cup {i}

Succeed(i, n) ==
  /\ Reached(i, n)
  /\ succeeded' = succeeded \cup {<<i, n>>}
  /\ UNCHANGED <<last, failed, compensated, troubled>>

Fail(i, n) ==
  /\ Reached(i, n)
  /\ failed' = failed \cup {<<i, n>>}
  /\ MayDiscard(i)
  /\ UNCHANGED <<last, succeeded, compensated>>

\* The rollback from step n has come down to step k.
RolledBack(i, n, k) ==
  <<i, n>> \in failed /\ \A j \in (k + 1)..(n - 1) : <<i, j>> \in compensated

Compensate(i, k) ==
  /\ <<i, k>> \in succeeded
  /\ i \in troubled \/ \E n \in (k + 1)..last : RolledBack(i, n, k)
  /\ compensated' = compensated \cup {<<i, k>>}
  /\ MayDiscard(i)
  /\ UNCHANGED <<last, succeeded, failed>>

Discard(i) ==
  /\ troubled' = troubled \cup {i}
  /\ UNCHANGED <<last, succeeded, failed, compensated>>

SagaNext ==
  \E i \in Instances :
    Discard(i) \/ \E n \in 1..last : Succeed(i, n) \/ Fail(i, n) \/ Compensate(i, n)

SagaSpec == SagaInit /\ [][SagaNext]_sagaVars
=============================================================================
