------------------------------ MODULE MCService ------------------------------
(* One or two calls of r1, one or two workers. *)
EXTENDS Service

CONSTANTS r1, w1, w2, a, b

Get    == <<"g">>
GetAll == <<"g", "a">>
Put    == <<"p">>

\* The method each worker, or each call, has.
ByWorker(is, ms) == [i \in is |-> IF i = r1 THEN {} ELSE ms]
ByCall(f, g)     == [c \in {a, b} |-> IF c = a THEN f ELSE g]

\* A worker calls its own service, r1 calls it too, with the same number.
Calling ==
  [instances |-> {r1, w1}, workers |-> {w1}, methods |-> ByWorker({r1, w1}, {Get, Put}),
   calls |-> {a, b}, sends |-> {}, from |-> ByCall(r1, w1), method |-> ByCall(Get, Put),
   flaky |-> {}, closers |-> {}, lossy |-> FALSE, timeouts |-> FALSE, slow |-> FALSE,
   silent |-> FALSE, runs |-> 1]
\* Two calls of one instance, to methods of which one begins the other.
Naming ==
  [Calling EXCEPT !.methods = ByWorker({r1, w1}, {Get, GetAll}), !.from = ByCall(r1, r1),
                  !.method = ByCall(Get, GetAll)]
\* Besides, frames are lost and waits run out.
Lossy == [Naming EXCEPT !.lossy = TRUE, !.timeouts = TRUE]
\* One call, two workers, handlers that fail before they succeed.
Sharing ==
  [Calling EXCEPT !.instances = {r1, w1, w2}, !.workers = {w1, w2},
                  !.methods = ByWorker({r1, w1, w2}, {Get}), !.calls = {a},
                  !.from = [c \in {a} |-> r1], !.method = [c \in {a} |-> Get],
                  !.runs = 2]
\* Besides, something is lost, one of the workers is closed or is left half built,
\* handlers return no bytes, nobody waits for an answer.
SharingLossy == [Sharing EXCEPT !.lossy = TRUE, !.timeouts = TRUE, !.slow = TRUE]
Closing      == [Sharing EXCEPT !.closers = {w1}, !.slow = TRUE]
CallerCloses == [Sharing EXCEPT !.closers = {r1}, !.timeouts = TRUE]
HalfBuilt    == [Sharing EXCEPT !.flaky = {w1}, !.slow = TRUE]
Silent       == [Sharing EXCEPT !.silent = TRUE, !.timeouts = TRUE]
Sending      == [SharingLossy EXCEPT !.sends = {a}]

MCSetups == {Calling, Naming, Lossy, SharingLossy, Closing, CallerCloses, HalfBuilt,
             Silent, Sending}
=============================================================================
