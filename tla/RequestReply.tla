---------------------------- MODULE RequestReply ----------------------------
(***************************************************************************)
(* What one broker connection promises to the goroutines that call         *)
(* Connection.SendExpectReply (internal/conn/connection.go): a request is  *)
(* opened once, it ends at most once, and it ends with a reply only when   *)
(* the broker executed that very request.  A request that ends in error    *)
(* promises nothing: the broker may have executed it, may execute it later *)
(* or never.  Connection.tla implements this specification.                *)
(***************************************************************************)
CONSTANT Callers  \* the requests; each caller makes one

VARIABLES
  status,    \* status[c]: "new", "open", "ok" or "failed"
  executed   \* the requests the broker has executed

rrVars == <<status, executed>>

RRInit ==
  /\ status = [c \in Callers |-> "new"]
  /\ executed = {}

Open(c) ==
  /\ status[c] = "new"
  /\ status' = [status EXCEPT ![c] = "open"]
  /\ UNCHANGED executed

\* The broker executes a request at most once, and only one that was opened;
\* the caller may have given up on it already.
Execute(c) ==
  /\ status[c] # "new"
  /\ c \notin executed
  /\ executed' = executed \cup {c}
  /\ UNCHANGED status

Succeed(c) ==
  /\ status[c] = "open"
  /\ c \in executed
  /\ status' = [status EXCEPT ![c] = "ok"]
  /\ UNCHANGED executed

Fail(c) ==
  /\ status[c] = "open"
  /\ status' = [status EXCEPT ![c] = "failed"]
  /\ UNCHANGED executed

RRNext ==
  \E c \in Callers : Open(c) \/ Execute(c) \/ Succeed(c) \/ Fail(c)

RRSpec == RRInit /\ [][RRNext]_rrVars
=============================================================================
