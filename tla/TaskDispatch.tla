---------------------------- MODULE TaskDispatch ----------------------------
(***************************************************************************)
(* What a pool of workers promises to the callers of submit_task, without  *)
(* scans, locks or wakeups: a call is answered once; it is refused before  *)
(* any worker took it, or one worker takes it, works on it alone, and      *)
(* answers it; only a panic leaves it without an answer, and then the      *)
(* caller learns that too.  WorkerPool implements this specification.      *)
(***************************************************************************)
CONSTANTS Calls, Workers, Refusals, Outcomes, Nobody

VARIABLES
  call,   (* how far each call is                                           *)
  slot    (* the call each worker works for                                 *)

avars == <<call, slot>>

Pending == "pending"
Running == "running"
Crashed == "crashed"

States == {"new", Pending, Running, Crashed, "disconnected"} \cup Refusals \cup Outcomes

DispatchTypeOK ==
  /\ call \in [Calls -> States]
  /\ slot \in [Workers -> Calls \cup {Nobody}]

DispatchInit ==
  /\ call = [c \in Calls |-> "new"]
  /\ slot = [w \in Workers |-> Nobody]

Become(c, from, to) == call[c] = from /\ call' = [call EXCEPT ![c] = to]

Accept(c) == Become(c, "new", Pending) /\ UNCHANGED slot

\* A call no worker has taken is refused.
Refuse(c) ==
  /\ \E r \in Refusals : Become(c, "new", r) \/ Become(c, Pending, r)
  /\ UNCHANGED slot

\* A worker that is free takes the call.
Take(c, w) ==
  /\ slot[w] = Nobody
  /\ Become(c, Pending, Running)
  /\ slot' = [slot EXCEPT ![w] = c]

\* The worker answers the call it works for, and keeps it for a while.
Finish(c, w) ==
  /\ slot[w] = c
  /\ \E r \in Outcomes : Become(c, Running, r)
  /\ UNCHANGED slot

Crash(c, w) == slot[w] = c /\ Become(c, Running, Crashed) /\ UNCHANGED slot

\* It lets go of a call only once that is answered or lost.
Release(c, w) ==
  /\ slot[w] = c
  /\ call[c] \in Outcomes \cup {Crashed}
  /\ slot' = [slot EXCEPT ![w] = Nobody]
  /\ UNCHANGED call

\* The caller of a lost call is told after the worker is free again.
Disconnect(c) ==
  /\ \A w \in Workers : slot[w] # c
  /\ Become(c, Crashed, "disconnected")
  /\ UNCHANGED slot

DispatchNext ==
  \E c \in Calls :
    \/ Accept(c) \/ Refuse(c) \/ Disconnect(c)
    \/ \E w \in Workers : Take(c, w) \/ Finish(c, w) \/ Crash(c, w) \/ Release(c, w)

Dispatch == DispatchInit /\ [][DispatchNext]_avars
=============================================================================
