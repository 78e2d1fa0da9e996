------------------------------ MODULE Execution ------------------------------
(***************************************************************************)
(* What one execution promises its caller, buffered or streaming: result.py *)
(* and the parity of the two modes (docs/MANUAL.md).  A specification by    *)
(* itself; BufferedRun and StreamRelay implement it.                        *)
(***************************************************************************)

VARIABLES call,       \* "ready", "running", "over", or "broken" by an exception
          child,      \* the state of the child process
          exit,       \* how it ended
          late,       \* the wall-clock budget has passed
          excess,     \* more than the output cap was written to stdout or stderr
          status,     \* the status of the result
          truncated   \* whether the result says that output was cut

vars == <<call, child, exit, late, excess, status, truncated>>

Init ==
  /\ call = "ready"
  /\ child = "none"
  /\ exit = "none"
  /\ late = FALSE
  /\ excess = FALSE
  /\ status = "none"
  /\ truncated = FALSE

\* A call that is denied or fails to start has started nothing.
Refuse ==
  /\ call = "ready"
  /\ call' = "over"
  /\ status' \in {"denied", "spawn_error"}
  /\ UNCHANGED <<child, exit, late, excess, truncated>>

Start ==
  /\ call = "ready"
  /\ call' = "running"
  /\ child' = "running"
  /\ UNCHANGED <<exit, late, excess, status, truncated>>

ChildExits ==
  /\ child = "running"
  /\ child' = "dead"
  /\ exit' \in {"zero", "nonzero"}
  /\ UNCHANGED <<call, late, excess, status, truncated>>

BudgetPasses ==
  /\ child # "none"
  /\ ~late
  /\ late' = TRUE
  /\ UNCHANGED <<call, child, exit, excess, status, truncated>>

\* The child is signalled for one reason: it has used up its budget.
Kill ==
  /\ late
  /\ child = "running"
  /\ child' = "doomed"
  /\ UNCHANGED <<call, exit, late, excess, status, truncated>>

ChildDies ==
  /\ child = "doomed"
  /\ child' = "dead"
  /\ exit' = "sigkill"
  /\ UNCHANGED <<call, late, excess, status, truncated>>

Reap ==
  /\ call = "running"
  /\ child = "dead"
  /\ child' = "reaped"
  /\ UNCHANGED <<call, exit, late, excess, status, truncated>>

\* A clean result is the last word: nothing is written after it.
Clean == status \in {"ok", "exit_nonzero"}

Exceed ==
  /\ child # "none"
  /\ ~Clean
  /\ ~excess
  /\ excess' = TRUE
  /\ UNCHANGED <<call, child, exit, late, status, truncated>>

\* The result is true of the child, and no child runs on unsignalled.
Finish ==
  /\ call = "running"
  /\ call' = "over"
  /\ child # "running"
  /\ \/ status' = "ok" /\ child = "reaped" /\ exit = "zero" /\ truncated' = excess
     \/ status' = "exit_nonzero" /\ child = "reaped" /\ exit # "zero" /\ truncated' = excess
     \/ status' = "timeout" /\ late /\ truncated' \in BOOLEAN
  /\ UNCHANGED <<child, exit, late, excess>>

\* An exception leaves the call: nothing is promised.
Break ==
  /\ call = "running"
  /\ call' = "broken"
  /\ UNCHANGED <<child, exit, late, excess, status, truncated>>

Next ==
  \/ Refuse \/ Start \/ ChildExits \/ BudgetPasses \/ Kill \/ ChildDies \/ Reap
  \/ Exceed \/ Finish \/ Break

Spec == Init /\ [][Next]_vars
=============================================================================
