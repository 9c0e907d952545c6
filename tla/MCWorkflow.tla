----------------------------- MODULE MCWorkflow -----------------------------
(* One or two workers and one or two instances. *)
EXTENDS Workflow

CONSTANTS w1, w2

\* Three normal steps on two workers, of which one may die, also in the middle of a
\* rollback.
Plain ==
  [workers |-> {w1, w2}, steps |-> <<"normal", "normal", "normal">>, maxRetries |-> 2,
   timed |-> FALSE, onTimeout |-> FALSE, stepFails |-> TRUE, wakeFails |-> FALSE,
   unsure |-> FALSE, cancels |-> FALSE, resumes |-> 0, crashes |-> 1, expiries |-> 0]
\* The same with an AckWait that ends too early, or with publishes that fail.
Slow   == [Plain EXCEPT !.crashes = 0, !.expiries = 1]
Unsure == [Plain EXCEPT !.workers = {w1}, !.crashes = 0, !.unsure = TRUE]
\* One suspend step on two workers, resumed, cancelled, timed out.
Suspending ==
  [Plain EXCEPT !.steps = <<"suspend", "normal">>, !.stepFails = FALSE, !.crashes = 0,
               !.timed = TRUE, !.onTimeout = TRUE, !.cancels = TRUE, !.resumes = 1]
\* The same when a worker may die.
Dying == [Suspending EXCEPT !.cancels = FALSE, !.crashes = 1]
\* A single worker whose handlers may fail, with and without a timeout handler.
Alone ==
  [Suspending EXCEPT !.workers = {w1}, !.steps = <<"normal", "suspend">>, !.cancels = FALSE,
                     !.stepFails = TRUE, !.wakeFails = TRUE]
Discarding == [Alone EXCEPT !.onTimeout = FALSE, !.wakeFails = FALSE]
\* Two suspend steps in a row.
TwoSuspends ==
  [Suspending EXCEPT !.steps = <<"suspend", "suspend">>, !.cancels = FALSE, !.timed = FALSE]

MCSound == {Plain, Slow, Unsure, Suspending, Dying, Alone, Discarding}
MCTwice == {TwoSuspends}
=============================================================================
