---------------------------- MODULE ShardRequests ----------------------------
(***************************************************************************)
(* The requests to a GameAuditShard Durable Object (index.ts).  A handler  *)
(* is a call that proceeds in steps; the object runs other requests only   *)
(* while a handler awaits I/O: the body of its request, the Web Crypto     *)
(* backend, a queue.  A transaction, and any stretch of code between two   *)
(* such awaits, is one step.  The MoonBit module is loaded, so awaiting it *)
(* lets nothing else run.  A call ends with the step "done".               *)
(***************************************************************************)
EXTENDS Integers

CONSTANTS
  Calls,     \* bound: the calls that are ever made
  Workloads, \* what the calls may ask for: functions on Calls
  LastTime,  \* bound: the clock stops here
  Nothing    \* absent

VARIABLES
  calls,     \* the calls: request, step, and what the call has read
  clock      \* Date.now()

Asked(op) == {r \in UNION {{w[c] : c \in Calls} : w \in Workloads} : r.op = op}

CallsInit ==
  /\ clock = 0
  /\ \E w \in Workloads :
       calls = [c \in Calls |-> [request |-> w[c], step |-> "new", seen |-> Nothing]]

At(c, op, step) == calls[c].request.op = op /\ calls[c].step = step

Proceed(c, step, seen) ==
  calls' = [calls EXCEPT ![c].step = step, ![c].seen = seen]

End(c) == Proceed(c, "done", Nothing)

(* The object restarts: the handlers it was running are gone.              *)
StopCalls ==
  calls' = [c \in Calls |-> IF calls[c].step = "new" THEN calls[c]
                            ELSE [calls[c] EXCEPT !.step = "done", !.seen = Nothing]]

PassTime == clock < LastTime /\ clock' = clock + 1 /\ UNCHANGED calls
=============================================================================
