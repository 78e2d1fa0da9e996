---------------------------- MODULE BufferedRun ----------------------------
(***************************************************************************)
(* One buffered execution: SafeExecutor.run of executor.py, from the gates *)
(* to the ExecResult, over the process tree of ChildTree.                  *)
(*                                                                         *)
(* Popen.communicate is modelled by what it does: it reads both pipes up   *)
(* to their end, then waits for the child; past its time limit it raises,  *)
(* and a second call goes on with what the first has read.  Its feeding    *)
(* of stdin is left out.                                                   *)
(***************************************************************************)
EXTENDS ChildTree

CONSTANTS Cap,        \* policy.max_output_bytes, enforced in characters
          ReadChunk   \* characters one read of communicate takes at most

ASSUME RunAssumption == Cap \in Nat /\ ReadChunk \in Nat \ {0}

VARIABLES pc,         \* where the call is
          open,       \* the pipes communicate has not read to their end
          got,        \* characters read from each pipe
          timedOut,   \* the local of this name
          abandoned,  \* _drain_after_kill gave the output up
          late,       \* policy.timeout_seconds have passed
          graceOver,  \* _KILL_GRACE has passed, in the current wait
          result      \* what the call returns

callVars == <<open, got, timedOut, abandoned>>
vars == <<treeVars, pc, callVars, late, graceOver, result>>

Labels == {"gates", "communicate", "kill", "drain", "reap", "assemble", "done",
           "overflow", "crashed"}
Status == {"none", "denied", "spawn_error", "ok", "exit_nonzero", "timeout"}

Smaller(a, b) == IF a < b THEN a ELSE b

NoResult == [status |-> "none", exit |-> "none", truncated |-> FALSE]

Init ==
  /\ TreeInit
  /\ pc = "gates"
  /\ open = Stream
  /\ got = [s \in Stream |-> 0]
  /\ timedOut = FALSE
  /\ abandoned = FALSE
  /\ late = FALSE
  /\ graceOver = FALSE
  /\ result = NoResult

\* check_gates, or spawn_child raising.
Refuse ==
  /\ pc = "gates"
  /\ \E s \in {"denied", "spawn_error"} : result' = [NoResult EXCEPT !.status = s]
  /\ pc' = "done"
  /\ UNCHANGED <<treeVars, callVars, late, graceOver>>

\* A budget beyond the range of the selector (some 24 days) is known to be one
\* only when communicate is called.
SpawnChild ==
  /\ pc = "gates"
  /\ Spawn
  /\ pc' \in {"communicate", "overflow"}
  /\ UNCHANGED <<callVars, late, graceOver, result>>

\* OverflowError, which run() does not catch: the child is left as it is.
CommunicateOverflows ==
  /\ pc = "overflow"
  /\ pc' = "crashed"
  /\ UNCHANGED <<treeVars, callVars, late, graceOver, result>>

-----------------------------------------------------------------------------
(* communicate, first with the policy's timeout, then with _KILL_GRACE.    *)

Communicating == pc \in {"communicate", "drain"}

\* Mutant of Expired: a child that has closed its pipes is given no time.
ExpiredAtEof == IF pc = "communicate" THEN late \/ open = {} ELSE graceOver

Expired == IF pc = "communicate" THEN late ELSE graceOver

ReadPipe(s) ==
  /\ Communicating
  /\ ~Expired
  /\ s \in open
  /\ buf[s] > 0
  /\ LET n == Smaller(ReadChunk, buf[s])
     IN  Take(s, n) /\ got' = [got EXCEPT ![s] = @ + n]
  /\ UNCHANGED <<pc, open, timedOut, abandoned, late, graceOver, result>>

ReadEof(s) ==
  /\ Communicating
  /\ ~Expired
  /\ s \in open
  /\ buf[s] = 0
  /\ Closed(s)
  /\ open' = open \ {s}
  /\ UNCHANGED <<treeVars, pc, got, timedOut, abandoned, late, graceOver, result>>

\* Its last step reaps the child, even if the time is just over.
CommunicateReturns ==
  /\ Communicating
  /\ open = {}
  /\ Reap
  /\ pc' = "assemble"
  /\ UNCHANGED <<callVars, late, graceOver, result>>

\* TimeoutExpired: while reading, or while waiting for a child that lives on.
CommunicateExpires ==
  /\ Communicating
  /\ Expired
  /\ open # {} \/ proc["child"] # "dead"
  /\ timedOut' = TRUE
  /\ graceOver' = FALSE
  /\ pc' = IF pc = "communicate" THEN "kill" ELSE "reap"
  /\ UNCHANGED <<treeVars, open, got, abandoned, late, result>>

\* Mutant of KillGroup: the output read so far is dropped.
KillGroupForgets ==
  /\ pc = "kill"
  /\ KillTree
  /\ got' = [s \in Stream |-> 0]
  /\ pc' = "drain"
  /\ UNCHANGED <<open, timedOut, abandoned, late, graceOver, result>>

KillGroup ==
  /\ pc = "kill"
  /\ KillTree
  /\ pc' = "drain"
  /\ UNCHANGED <<callVars, late, graceOver, result>>

\* Mutant of GiveUp: the last wait has no time limit.
GiveUpNever ==
  /\ pc = "reap"
  /\ Reap
  /\ abandoned' = TRUE
  /\ pc' = "assemble"
  /\ UNCHANGED <<open, got, timedOut, late, graceOver, result>>

\* The drain expired as well: the child is waited for once more, and the
\* output abandoned.
GiveUp ==
  /\ pc = "reap"
  /\ \/ Reap
     \/ graceOver /\ proc["child"] # "dead" /\ UNCHANGED treeVars
  /\ abandoned' = TRUE
  /\ pc' = "assemble"
  /\ UNCHANGED <<open, got, timedOut, late, graceOver, result>>

-----------------------------------------------------------------------------
(* The result.                                                             *)

\* proc.returncode.
ReturnCode == IF proc["child"] = "reaped" THEN exitCode ELSE "none"

\* Mutant of StatusOf: the exit code is looked at first.
StatusOfExitFirst ==
  CASE ReturnCode = "zero" -> "ok"
    [] ReturnCode \in {"nonzero", "sigkill"} -> "exit_nonzero"
    [] OTHER -> "timeout"

\* Mutant of StatusOf: the exit code is the status.
StatusOfIsTheCode == IF timedOut THEN "timeout" ELSE ReturnCode

StatusOf ==
  CASE timedOut -> "timeout"
    [] ~timedOut /\ ReturnCode = "zero" -> "ok"
    [] OTHER -> "exit_nonzero"

\* _truncate cuts each text at the cap; the text that stands for abandoned
\* output fits.
Assemble ==
  /\ pc = "assemble"
  /\ result' = [status |-> StatusOf, exit |-> ReturnCode,
                truncated |-> ~abandoned /\ \E s \in Stream : got[s] > Cap]
  /\ pc' = "done"
  /\ UNCHANGED <<treeVars, callVars, late, graceOver>>

-----------------------------------------------------------------------------
(* Time and the processes.                                                 *)

DeadlinePasses ==
  /\ pc = "communicate"
  /\ ~late
  /\ late' = TRUE
  /\ UNCHANGED <<treeVars, pc, callVars, graceOver, result>>

GracePasses ==
  /\ pc \in {"drain", "reap"}
  /\ ~graceOver
  /\ graceOver' = TRUE
  /\ UNCHANGED <<treeVars, pc, callVars, late, result>>

TreeMoves == TreeStep /\ UNCHANGED <<pc, callVars, late, graceOver, result>>

CallStep ==
  \/ Refuse \/ SpawnChild \/ CommunicateOverflows
  \/ (\E s \in Stream : ReadPipe(s) \/ ReadEof(s))
  \/ CommunicateReturns \/ CommunicateExpires \/ KillGroup \/ GiveUp \/ Assemble

Next == CallStep \/ DeadlinePasses \/ GracePasses \/ TreeMoves

Spec == Init /\ [][Next]_vars

\* The call is scheduled and its waits end when their time is over; nothing is
\* assumed of the processes, not even that SIGKILL is ever delivered.
FairSpec ==
  Spec /\ WF_vars(CallStep) /\ WF_vars(DeadlinePasses) /\ WF_vars(GracePasses)

-----------------------------------------------------------------------------
(* Properties.                                                             *)

\* Every variable has its type.
TypeOK ==
  /\ TreeTypeOK
  /\ pc \in Labels
  /\ open \subseteq Stream
  /\ got \in [Stream -> Nat]
  /\ timedOut \in BOOLEAN
  /\ abandoned \in BOOLEAN
  /\ late \in BOOLEAN
  /\ graceOver \in BOOLEAN
  /\ result \in [status : Status, exit : ExitCode, truncated : BOOLEAN]

\* What a result reports is all the tree ever wrote, before or after the kill,
\* unless the output was abandoned; and truncated says whether it was cut.
OutputIsComplete ==
  pc = "done" /\ result.status \in {"ok", "exit_nonzero", "timeout"} /\ ~abandoned =>
    /\ \A s \in Stream : Closed(s) /\ got[s] = written[s]
    /\ result.truncated = (\E s \in Stream : written[s] > Cap)

\* The status is the truth about the child: ok and exit_nonzero report its own
\* exit, and a child the call killed is a timeout, however the exit, the
\* deadline and the kill interleave.
StatusIsTheTruth ==
  pc = "done" =>
    /\ result.status = "ok" => exitCode = "zero" /\ proc["child"] = "reaped"
    /\ result.status = "exit_nonzero" => exitCode = "nonzero" /\ proc["child"] = "reaped"
    /\ result.exit = "sigkill" => result.status = "timeout"

\* A timeout leaves nothing of the child's group running: only a descendant
\* that left the group survives, whether the child had already exited or not.
TimeoutKillsTheGroup ==
  pc = "done" /\ result.status = "timeout" =>
    \A p \in Process : proc[p] = "running" => p = "desc" /\ escaped

\* A process of the tree is signalled only after the deadline: a full pipe, or
\* output beyond the cap, never kills the child.
KillOnlyPastTheDeadline ==
  [][\A p \in Process : proc[p] = "running" /\ proc'[p] = "doomed" => late]_vars

\* The call implements what an execution promises, unless an oversized budget
\* breaks it.
Contract == INSTANCE Execution WITH
  call      <- CASE pc = "gates" -> "ready"
                 [] pc = "done" -> "over"
                 [] pc = "crashed" -> "broken"
                 [] OTHER -> "running",
  child     <- proc["child"],
  exit      <- exitCode,
  excess    <- \E s \in Stream : written[s] > Cap,
  status    <- result.status,
  truncated <- result.truncated
ImplementsExecution == Contract!Spec

\* run() always ends: no descendant that holds a pipe, and no child that
\* survives its SIGKILL, can keep it.
RunReturns == <>(pc \in {"done", "crashed"})
=============================================================================
