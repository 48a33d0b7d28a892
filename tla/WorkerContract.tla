--------------------------- MODULE WorkerContract ---------------------------
(***************************************************************************)
(* What one sub-agent promises to everything that waits for it (the master *)
(* loop, find_in_codebase, the supervisor): the goroutine that Spawn       *)
(* starts ends in exactly one way, says so on the bus exactly once, and    *)
(* counts itself as cancelled only when somebody asked for it.  The words  *)
(* used here are those of internal/agent/subagent.go: Run, fail, and the   *)
(* events EvSubagentDone and EvSubagentError.                              *)
(***************************************************************************)
VARIABLES
  phase,    (* "absent", "live", "decided", "over"                         *)
  outcome,  (* "none" until decided, then how the goroutine ended          *)
  stop      (* "no", "killed" (context cancelled), "expired" (deadline)    *)

vars == <<phase, outcome, stop>>

Outcomes == {"done", "error", "cancelled"}

Init ==
  /\ phase = "absent"
  /\ outcome = "none"
  /\ stop = "no"

\* Manager.Spawn registers the worker and starts its goroutine.
Start ==
  /\ phase = "absent"
  /\ phase' = "live"
  /\ UNCHANGED <<outcome, stop>>

\* Somebody cancels the context, or its deadline passes; whichever is first.
Stop(how) ==
  /\ phase # "absent"
  /\ stop = "no"
  /\ stop' = how
  /\ UNCHANGED <<phase, outcome>>

\* The goroutine decides how it ends: only one that was killed is "cancelled",
\* only one that was not stopped is "done".
Decide(o) ==
  /\ phase = "live"
  /\ o = "cancelled" => stop = "killed"
  /\ o = "done" => stop = "no"
  /\ phase' = "decided"
  /\ outcome' = o
  /\ UNCHANGED stop

\* The terminal event is published; the goroutine returns.
Announce ==
  /\ phase = "decided"
  /\ phase' = "over"
  /\ UNCHANGED <<outcome, stop>>

Next ==
  \/ Start
  \/ \E how \in {"killed", "expired"} : Stop(how)
  \/ \E o \in Outcomes : Decide(o)
  \/ Announce

Spec == Init /\ [][Next]_vars

\* What whoever waits for a worker relies on: once started, it is over some day.
Ends == phase = "live" ~> phase = "over"
=============================================================================
