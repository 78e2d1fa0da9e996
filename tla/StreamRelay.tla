---------------------------- MODULE StreamRelay ----------------------------
(***************************************************************************)
(* One streaming generation: run_llama_stream of streaming.py, from the    *)
(* gates to the ExecResult, and the `final` event its caller sends.        *)
(*                                                                         *)
(* Three threads of control meet here: the relay (the calling thread,      *)
(* pc), the deadline watchdog (a threading.Timer, wd) and the process tree *)
(* (ChildTree), with a consumer that may stall on the other side of the    *)
(* emitter (StreamEmitter).  One action per step that another thread can   *)
(* observe or separate.                                                    *)
(*                                                                         *)
(* Text is counted in decoded characters.  A read may end inside a         *)
(* multibyte sequence: the incremental decoder then holds one character    *)
(* until the next read or the final decode.                                *)
(***************************************************************************)
EXTENDS StreamEmitter, ChildTree

CONSTANTS Cap,        \* policy.max_output_bytes, enforced in characters
          ErrCap,     \* stderr_cap: retained stderr
          ReadChunk,  \* _READ_CHUNK
          Faults      \* what may go wrong outside: "disconnect", "encode"

ASSUME RelayAssumption ==
  /\ Cap \in Nat \ {0}
  /\ ErrCap \in Nat
  /\ ErrCap >= Cap
  /\ ReadChunk \in Nat \ {0}
  /\ Faults \subseteq {"disconnect", "encode"}

VARIABLES pc,           \* where the relay thread is
          phase,        \* which _pump runs: up to the deadline, or the grace
          goal,         \* why pending is being flushed
          open,         \* streams still registered with the selector
          ready,        \* streams the last select returned, not read yet
          kept, overage, pending, capWarned,  \* the locals of these names
          held,         \* characters held back by the incremental decoder
          errKept,      \* len(stderr_buf)
          errTotal,     \* stderr_total
          deadlineHit,  \* the deadline_hit event
          wd,           \* the watchdog timer
          late,         \* the deadline has passed
          graceOver,    \* the grace of the current bounded wait has passed
          result        \* what the call returns

textVars  == <<kept, overage, pending, held, capWarned>>
errVars   == <<errKept, errTotal>>
pumpVars  == <<phase, open, ready>>
clockVars == <<late, graceOver>>
vars == <<emitterVars, consumerVars, treeVars, pc, goal, pumpVars, textVars,
          errVars, deadlineHit, wd, clockVars, result>>

\* Everything but the relay's control, its text and what it emits.
outsideVars == <<treeVars, pumpVars, errVars, deadlineHit, wd, clockVars, result>>

Labels == {"gates", "start", "setup", "pump", "select", "flush", "warn", "wait",
           "kill", "set", "tail", "finally", "reap", "rekill", "status", "final",
           "done", "unwind", "crashed"}
Status == {"none", "denied", "spawn_error", "ok", "exit_nonzero", "timeout"}

Smaller(a, b) == IF a < b THEN a ELSE b

NoResult == [status |-> "none", exit |-> "none", truncated |-> FALSE]

Init ==
  /\ EmitterInit
  /\ TreeInit
  /\ pc = "gates"
  /\ phase = "budget"
  /\ goal = "none"
  /\ open = {}
  /\ ready = {}
  /\ kept = 0
  /\ overage = 0
  /\ pending = 0
  /\ held = 0
  /\ capWarned = FALSE
  /\ errKept = 0
  /\ errTotal = 0
  /\ deadlineHit = FALSE
  /\ wd = "unarmed"
  /\ late = FALSE
  /\ graceOver = FALSE
  /\ result = NoResult

-----------------------------------------------------------------------------
(* Before the pump.                                                        *)

\* check_gates, or spawn_child raising: a result without a start event.
Refuse ==
  /\ pc = "gates"
  /\ \E s \in {"denied", "spawn_error"} : result' = [NoResult EXCEPT !.status = s]
  /\ pc' = "final"
  /\ UNCHANGED <<emitterVars, consumerVars, treeVars, goal, pumpVars, textVars,
                 errVars, deadlineHit, wd, clockVars>>

SpawnChild ==
  /\ pc = "gates"
  /\ Spawn
  /\ pc' = "start"
  /\ UNCHANGED <<emitterVars, consumerVars, goal, pumpVars, textVars, errVars,
                 deadlineHit, wd, clockVars, result>>

SendStart ==
  /\ pc = "start"
  /\ EmitStart
  /\ pc' = "setup"
  /\ UNCHANGED <<outsideVars, goal, textVars>>

\* The stdin writer is started, the watchdog armed, both pipes registered.
Setup ==
  /\ pc = "setup"
  /\ wd' = "armed"
  /\ open' = Stream
  /\ pc' = "pump"
  /\ UNCHANGED <<emitterVars, consumerVars, treeVars, phase, goal, ready,
                 textVars, errVars, deadlineHit, clockVars, result>>

\* prompt.encode("utf-8") raises on a lone surrogate, before the watchdog.
EncodeRaises ==
  /\ "encode" \in Faults
  /\ pc = "setup"
  /\ pc' = "crashed"
  /\ UNCHANGED <<emitterVars, consumerVars, outsideVars, goal, textVars>>

-----------------------------------------------------------------------------
(* _pump.                                                                  *)

\* Mutant of Expired: the drain after the kill has no time limit.
ExpiredNeverInGrace == phase = "budget" /\ late

Expired == IF phase = "budget" THEN late ELSE graceOver

\* The time is checked, then select waits for no more than what is left.
Poll ==
  /\ pc = "pump"
  /\ ready = {}
  /\ open # {} /\ ~Expired
  /\ pc' = "select"
  /\ UNCHANGED <<emitterVars, consumerVars, outsideVars, goal, textVars>>

\* Mutant of Select: stderr is left for after the run.
SelectOutOnly ==
  /\ pc = "select"
  /\ ready' = {s \in open \cap {"out"} : Readable(s)}
  /\ ready' # {} \/ Expired
  /\ pc' = "pump"
  /\ UNCHANGED <<emitterVars, consumerVars, treeVars, goal, phase, open,
                 textVars, errVars, deadlineHit, wd, clockVars, result>>

\* It may return what has become readable while the deadline passed.  An empty
\* return before it leads back here and is no step.
Select ==
  /\ pc = "select"
  /\ ready' = {s \in open : Readable(s)}
  /\ ready' # {} \/ Expired
  /\ pc' = "pump"
  /\ UNCHANGED <<emitterVars, consumerVars, treeVars, goal, phase, open,
                 textVars, errVars, deadlineHit, wd, clockVars, result>>

\* An empty read: the pipe has no writer left.
ReadEof(s) ==
  /\ pc = "pump"
  /\ s \in ready
  /\ buf[s] = 0
  /\ open' = open \ {s}
  /\ ready' = ready \ {s}
  /\ UNCHANGED <<emitterVars, consumerVars, treeVars, pc, goal, phase,
                 textVars, errVars, deadlineHit, wd, clockVars, result>>

ReadErr ==
  /\ pc = "pump"
  /\ "err" \in ready
  /\ buf["err"] > 0
  /\ LET n == Smaller(buf["err"], ReadChunk) IN
       /\ Take("err", n)
       /\ errTotal' = errTotal + n
       /\ errKept' = Smaller(ErrCap, errKept + n)
  /\ ready' = ready \ {"err"}
  /\ UNCHANGED <<emitterVars, consumerVars, pc, goal, phase, open, textVars,
                 deadlineHit, wd, clockVars, result>>

\* Mutant of Accept: the cap is not applied to the kept prefix.
AcceptUncapped(n) ==
  /\ kept' = kept + n
  /\ overage' = overage
  /\ pending' = pending + n

\* _consume_stdout up to its first emission: n decoded characters go to the
\* kept prefix as far as there is room, the rest is overage.  The warning is
\* raised only by the read that itself crosses the cap.
Accept(n) ==
  /\ kept' = Smaller(Cap, kept + n)
  /\ overage' = overage + (n - (kept' - kept))
  /\ pending' = pending + (kept' - kept)

Crosses(n) == kept < Cap /\ kept + n > Cap

ReadOut ==
  /\ pc = "pump"
  /\ "out" \in ready
  /\ buf["out"] > 0
  /\ \E h \in 0..1 :
       LET n == Smaller(buf["out"], ReadChunk)
           t == held + n - h
       IN /\ Take("out", n)
          /\ held' = h
          /\ Accept(t)
          /\ goal' = IF Crosses(t) /\ ~capWarned THEN "warn" ELSE "none"
  /\ ready' = ready \ {"out"}
  /\ pc' = "flush"
  /\ UNCHANGED <<emitterVars, consumerVars, phase, open, capWarned, errVars,
                 deadlineHit, wd, clockVars, result>>

\* Mutant of Forced: the prefix is not flushed before the warning.
ForcedAtEndOnly == goal = "tail"

\* Mutant of ChunkSize: a forced flush emits one chunk of any size.
ChunkSizeWhole == pending

\* _flush_pending emits whole chunks, and the remainder when forced.
Forced    == goal # "none"
ChunkDue  == pending >= MaxText \/ (Forced /\ pending > 0)
ChunkSize == Smaller(pending, MaxText)

FlushChunk ==
  /\ pc = "flush"
  /\ ChunkDue
  /\ EmitChunk(ChunkSize)
  /\ pending' = pending - ChunkSize
  /\ UNCHANGED <<outsideVars, pc, goal, kept, overage, held, capWarned>>

AfterFlush == CASE goal = "none" -> "pump"
                [] goal = "warn" -> "warn"
                [] goal = "tail" -> "finally"

FlushDone ==
  /\ pc = "flush"
  /\ ~ChunkDue
  /\ pc' = AfterFlush
  /\ goal' = "none"
  /\ UNCHANGED <<emitterVars, consumerVars, outsideVars, textVars>>

\* Mutant of WarnCap: the child is killed when the cap is reached.
WarnCapKills ==
  /\ pc = "warn"
  /\ EmitWarning
  /\ capWarned' = TRUE
  /\ pc' = "pump"
  /\ KillTree
  /\ UNCHANGED <<pumpVars, errVars, deadlineHit, wd, clockVars, result, goal,
                 kept, overage, pending, held>>

WarnCap ==
  /\ pc = "warn"
  /\ EmitWarning
  /\ capWarned' = TRUE
  /\ pc' = "pump"
  /\ UNCHANGED <<outsideVars, goal, kept, overage, pending, held>>

\* Mutant of PumpDone: the end of stdout ends the pump.
PumpDoneAtStdoutEof ==
  /\ pc = "pump"
  /\ ready = {}
  /\ "out" \notin open \/ Expired
  /\ pc' = IF phase = "grace" THEN "tail"
           ELSE IF "out" \notin open THEN "wait" ELSE "kill"
  /\ UNCHANGED <<emitterVars, consumerVars, outsideVars, goal, textVars>>

\* Mutant of PumpDone: the watchdog is cancelled before the child is waited for.
PumpDoneCancels ==
  /\ pc = "pump"
  /\ ready = {}
  /\ open = {} \/ Expired
  /\ wd' = IF wd = "armed" THEN "cancelled" ELSE wd
  /\ pc' = IF phase = "grace" THEN "tail"
           ELSE IF open = {} THEN "wait" ELSE "kill"
  /\ UNCHANGED <<emitterVars, consumerVars, treeVars, goal, pumpVars, textVars,
                 errVars, deadlineHit, clockVars, result>>

\* _pump returns, and what run_llama_stream does next.
PumpDone ==
  /\ pc = "pump"
  /\ ready = {}
  /\ open = {} \/ Expired
  /\ pc' = IF phase = "grace" THEN "tail"
           ELSE IF open = {} THEN "wait" ELSE "kill"
  /\ UNCHANGED <<emitterVars, consumerVars, outsideVars, goal, textVars>>

-----------------------------------------------------------------------------
(* After the pump.                                                         *)

\* proc.wait within what is left of the budget.
WaitExit ==
  /\ pc = "wait"
  /\ Reap
  /\ pc' = "tail"
  /\ UNCHANGED <<emitterVars, consumerVars, goal, pumpVars, textVars, errVars,
                 deadlineHit, wd, clockVars, result>>

\* Mutant of WaitExpires: a child that outlives its pipes is not killed.
WaitExpiresOnly ==
  /\ pc = "wait"
  /\ late
  /\ proc["child"] # "dead"
  /\ pc' = "tail"
  /\ UNCHANGED <<emitterVars, consumerVars, outsideVars, goal, textVars>>

WaitExpires ==
  /\ pc = "wait"
  /\ late
  /\ proc["child"] # "dead"
  /\ pc' = "kill"
  /\ UNCHANGED <<emitterVars, consumerVars, outsideVars, goal, textVars>>

\* _on_deadline on the relay thread, then the drain within the grace.
RelayKill ==
  /\ pc = "kill"
  /\ KillTree
  /\ pc' = "set"
  /\ UNCHANGED <<emitterVars, consumerVars, goal, pumpVars, textVars, errVars,
                 deadlineHit, wd, clockVars, result>>

RelaySet ==
  /\ pc = "set"
  /\ deadlineHit' = TRUE
  /\ phase' = "grace"
  /\ pc' = "pump"
  /\ UNCHANGED <<emitterVars, consumerVars, treeVars, goal, open, ready,
                 textVars, errVars, wd, clockVars, result>>

\* Mutant of DecodeTail: the decoder is not finalised.
DecodeTailSkipped ==
  /\ pc = "tail"
  /\ held' = 0
  /\ goal' = "tail"
  /\ pc' = "flush"
  /\ UNCHANGED <<emitterVars, consumerVars, outsideVars, capWarned, kept,
                 overage, pending>>

\* The final decode gives back a held character; then everything is flushed.
DecodeTail ==
  /\ pc = "tail"
  /\ Accept(held)
  /\ held' = 0
  /\ goal' = "tail"
  /\ pc' = "flush"
  /\ UNCHANGED <<emitterVars, consumerVars, outsideVars, capWarned>>

\* Timer.cancel stops a timer that waits, not one whose function has started.
CancelWatchdog == wd' = IF wd = "armed" THEN "cancelled" ELSE wd

\* The finally clause on the normal path.
Finally ==
  /\ pc = "finally"
  /\ CancelWatchdog
  /\ graceOver' = FALSE
  /\ pc' = "reap"
  /\ UNCHANGED <<emitterVars, consumerVars, treeVars, goal, pumpVars, textVars,
                 errVars, deadlineHit, late, result>>

\* proc.wait(_KILL_GRACE), twice, with a kill between.
ReapChild ==
  /\ pc \in {"reap", "rekill"}
  /\ \/ Reap
     \/ proc["child"] = "reaped" /\ UNCHANGED treeVars
  /\ pc' = "status"
  /\ UNCHANGED <<emitterVars, consumerVars, goal, pumpVars, textVars, errVars,
                 deadlineHit, wd, clockVars, result>>

ReapExpires ==
  /\ pc = "reap"
  /\ graceOver
  /\ proc["child"] \notin {"dead", "reaped"}
  /\ KillTree
  /\ graceOver' = FALSE
  /\ pc' = "rekill"
  /\ UNCHANGED <<emitterVars, consumerVars, goal, pumpVars, textVars, errVars,
                 deadlineHit, wd, late, result>>

GiveUpReap ==
  /\ pc = "rekill"
  /\ graceOver
  /\ proc["child"] \notin {"dead", "reaped"}
  /\ pc' = "status"
  /\ UNCHANGED <<emitterVars, consumerVars, outsideVars, goal, textVars>>

\* returncode is known once the child is reaped.
ReturnCode == IF proc["child"] = "reaped" THEN exitCode ELSE "none"

\* Mutant of StatusOf: the exit code alone decides.
StatusOfIgnoresTheDeadline == IF ReturnCode = "zero" THEN "ok" ELSE "exit_nonzero"

StatusOf == IF deadlineHit THEN "timeout"
            ELSE IF ReturnCode = "zero" THEN "ok" ELSE "exit_nonzero"

Assemble ==
  /\ pc = "status"
  /\ result' = [status    |-> StatusOf,
                exit      |-> ReturnCode,
                truncated |-> overage > 0 \/ errTotal > errKept \/ errKept > Cap]
  /\ pc' = "final"
  /\ UNCHANGED <<emitterVars, consumerVars, treeVars, goal, pumpVars, textVars,
                 errVars, deadlineHit, wd, clockVars>>

\* The caller's _finalize.
SendFinal ==
  /\ pc = "final"
  /\ EmitFinal
  /\ pc' = "done"
  /\ UNCHANGED <<outsideVars, goal, textVars>>

-----------------------------------------------------------------------------
(* The consumer has gone: the write raises BrokenPipeError.  Inside the    *)
(* try the finally clause cancels the watchdog; then, or outside it, the   *)
(* exception leaves the call.                                              *)

Emitting == CASE pc = "start" -> "start"
              [] pc = "flush" /\ ChunkDue -> "chunk"
              [] pc = "warn" -> "warning"
              [] pc = "final" -> "final"
              [] OTHER -> "no"

WriteRaises ==
  /\ Emitting # "no"
  /\ EmitRaises(Emitting)
  /\ pc' = IF Emitting \in {"chunk", "warning"} THEN "unwind" ELSE "crashed"
  /\ UNCHANGED <<outsideVars, goal, textVars>>

Unwind ==
  /\ pc = "unwind"
  /\ CancelWatchdog
  /\ pc' = "crashed"
  /\ UNCHANGED <<emitterVars, consumerVars, treeVars, goal, pumpVars, textVars,
                 errVars, deadlineHit, clockVars, result>>

-----------------------------------------------------------------------------
(* The watchdog thread.                                                    *)

\* The timer's wait has ended and it was not cancelled: _on_deadline runs.
WatchdogFires ==
  /\ wd = "armed"
  /\ late
  /\ wd' = "firing"
  /\ UNCHANGED <<emitterVars, consumerVars, treeVars, pc, goal, pumpVars,
                 textVars, errVars, deadlineHit, clockVars, result>>

\* Mutant of WatchdogKill: the timer only notes the deadline.
WatchdogKillNobody ==
  /\ wd = "firing"
  /\ wd' = "killed"
  /\ UNCHANGED <<emitterVars, consumerVars, treeVars, pc, goal, pumpVars,
                 textVars, errVars, deadlineHit, clockVars, result>>

WatchdogKill ==
  /\ wd = "firing"
  /\ KillTree
  /\ wd' = "killed"
  /\ UNCHANGED <<emitterVars, consumerVars, pc, goal, pumpVars, textVars,
                 errVars, deadlineHit, clockVars, result>>

WatchdogSet ==
  /\ wd = "killed"
  /\ deadlineHit' = TRUE
  /\ wd' = "fired"
  /\ UNCHANGED <<emitterVars, consumerVars, treeVars, pc, goal, pumpVars,
                 textVars, errVars, clockVars, result>>

-----------------------------------------------------------------------------
(* Time, the processes and the consumer.                                   *)

DeadlinePasses ==
  /\ proc["child"] # "none"
  /\ ~late
  /\ late' = TRUE
  /\ UNCHANGED <<emitterVars, consumerVars, treeVars, pc, goal, pumpVars,
                 textVars, errVars, deadlineHit, wd, graceOver, result>>

\* A fixed grace is running: the second pump, or one of the last two waits.
GracePasses ==
  /\ (pc \in {"pump", "select", "flush", "warn"} /\ phase = "grace") \/ pc \in {"reap", "rekill"}
  /\ ~graceOver
  /\ graceOver' = TRUE
  /\ UNCHANGED <<emitterVars, consumerVars, treeVars, pc, goal, pumpVars,
                 textVars, errVars, deadlineHit, wd, late, result>>

TreeMoves ==
  /\ TreeStep
  /\ UNCHANGED <<emitterVars, consumerVars, pc, goal, pumpVars, textVars,
                 errVars, deadlineHit, wd, clockVars, result>>

\* The part of TreeMoves that the kernel does.
Killed(p) == Die(p) /\ TreeMoves

ConsumerMoves ==
  /\ ConsumerRead \/ ("disconnect" \in Faults /\ ConsumerLeave)
  /\ UNCHANGED <<outsideVars, pc, goal, textVars>>

-----------------------------------------------------------------------------
PumpStep ==
  \/ Poll \/ Select \/ (\E s \in Stream : ReadEof(s)) \/ ReadErr \/ ReadOut
  \/ FlushChunk \/ FlushDone \/ WarnCap \/ PumpDone

RelayStep ==
  \/ Refuse \/ SpawnChild \/ SendStart \/ Setup \/ EncodeRaises
  \/ PumpStep
  \/ WaitExit \/ WaitExpires \/ RelayKill \/ RelaySet \/ DecodeTail \/ Finally
  \/ ReapChild \/ ReapExpires \/ GiveUpReap \/ Assemble \/ SendFinal
  \/ WriteRaises \/ Unwind

WatchdogStep == WatchdogFires \/ WatchdogKill \/ WatchdogSet

Next ==
  \/ RelayStep \/ WatchdogStep
  \/ DeadlinePasses \/ GracePasses
  \/ TreeMoves \/ ConsumerMoves

Spec == Init /\ [][Next]_vars

(* Fairness.  The threads of the program are scheduled, a bounded wait ends *)
(* and the kernel delivers SIGKILL.  Nothing is assumed of the processes,   *)
(* of the consumer, or of when the deadline comes.                          *)
Fairness ==
  /\ WF_vars(RelayStep)
  /\ WF_vars(WatchdogStep)
  /\ WF_vars(GracePasses)
  /\ \A p \in Process : WF_vars(Killed(p))

FairSpec == Spec /\ Fairness

-----------------------------------------------------------------------------
(* Properties.                                                             *)

\* Every variable has its type.
TypeOK ==
  /\ EmitterTypeOK
  /\ TreeTypeOK
  /\ pc \in Labels
  /\ phase \in {"budget", "grace"}
  /\ goal \in {"none", "warn", "tail"}
  /\ open \subseteq Stream
  /\ ready \subseteq open
  /\ kept \in 0..Cap
  /\ overage \in Nat
  /\ pending \in Nat
  /\ held \in 0..1
  /\ capWarned \in BOOLEAN
  /\ errKept \in 0..ErrCap
  /\ errTotal \in Nat
  /\ deadlineHit \in BOOLEAN
  /\ wd \in {"unarmed", "armed", "firing", "killed", "fired", "cancelled"}
  /\ late \in BOOLEAN
  /\ graceOver \in BOOLEAN
  /\ result \in [status : Status, exit : ExitCode, truncated : BOOLEAN]

\* What was sent and what is pending are the kept text; the kept text is the
\* first Cap characters of what was decoded and the overage counts exactly the
\* others; no character the child wrote is lost or counted twice between the
\* pipe, the decoder, the prefix and the overage (parity with the buffered
\* run's _truncate).
EveryCharacterIsAccounted ==
  /\ chars + pending = kept
  /\ kept = Smaller(Cap, kept + overage)
  /\ kept + overage + held + buf["out"] = written["out"]
  /\ errTotal + buf["err"] = written["err"]
  /\ errKept = Smaller(ErrCap, errTotal)

\* The cap warning comes at most once, only when text was really discarded,
\* and after the exact prefix: no chunk follows it.
WarningFollowsTheWholePrefix ==
  /\ warnings <= 1
  /\ capWarned => warnings = 1 /\ chars = Cap /\ overage > 0

Returned == pc \in {"final", "done"}

\* A result that is not a timeout is a complete one: the child was reaped, the
\* pipes were read to their end, the exit code is the child's, and truncated
\* says whether the child wrote more than the cap, as in the buffered run.
CleanResultIsComplete ==
  Returned /\ result.status \in {"ok", "exit_nonzero"} =>
    /\ proc["child"] = "reaped"
    /\ \A s \in Stream : buf[s] = 0 /\ Closed(s)
    /\ result.exit = exitCode
    /\ (result.status = "ok") = (exitCode = "zero")
    /\ result.truncated = (written["out"] > Cap \/ written["err"] > Cap)

\* Past the pump the deadline has passed or the child is reaped, whoever acts
\* on the deadline does so after it, and a child that is not waited for any
\* more is not running.  (Inductive.)
PastPump == \/ pc \in {"tail", "finally", "reap", "rekill", "status"}
            \/ pc = "flush" /\ goal = "tail"

KillDiscipline ==
  /\ pc = "gates" => proc["child"] = "none" /\ phase = "budget"
  /\ \/ pc \in {"kill", "set"} \/ phase = "grace" \/ deadlineHit
     \/ wd \in {"firing", "killed", "fired"}
     => late
  /\ PastPump => late \/ proc["child"] = "reaped"
  /\ pc = "set" \/ phase = "grace" \/ PastPump \/ Returned
     => proc["child"] # "running"

\* A running child is always in somebody's care: the timer will fire or is
\* firing, but for the two steps before it is armed and for an exception that
\* has left the call; and no call returns with a child it has not killed.
RunningChildIsWatched ==
  proc["child"] = "running" =>
    /\ wd \in {"armed", "firing"} \/ pc \in {"start", "setup", "crashed"}
    /\ ~Returned

\* Reaching the output cap, a full pipe or a slow consumer never kills the
\* child: a process of the tree is signalled only after the deadline.
KillOnlyPastTheDeadline ==
  [][\A p \in Process : proc[p] = "running" /\ proc'[p] = "doomed" => late]_vars

\* A killed child takes its group along: after SIGKILL only a descendant that
\* left the group is still running.
KillTakesTheGroup ==
  proc["child"] = "doomed" \/ exitCode = "sigkill" =>
    (proc["desc"] = "running" => escaped)

\* The consumer sees the protocol of the stream, whatever the interleaving.
Protocol == INSTANCE StreamProtocol WITH
  phase     <- IF finalSent THEN "closed"
               ELSE IF seq = 0 THEN "silent"
               ELSE IF capWarned THEN "capped" ELSE "open",
  delivered <- chars,
  final     <- IF finalSent THEN kept ELSE 0
FollowsProtocol == Protocol!Spec

\* The streaming call implements what an execution promises, as the buffered
\* one does, but for the exceptions that may leave it.
Contract == INSTANCE Execution WITH
  call      <- CASE pc = "gates" -> "ready"
                 [] result.status # "none" -> "over"
                 [] result.status = "none" /\ pc \in {"unwind", "crashed"} -> "broken"
                 [] OTHER -> "running",
  child     <- proc["child"],
  exit      <- exitCode,
  excess    <- \E s \in Stream : written[s] > Cap,
  status    <- result.status,
  truncated <- result.truncated
ImplementsExecution == Contract!Spec

\* The child is stopped once the deadline has passed, even while the relay is
\* blocked on a consumer that reads nothing.
DeadlineStopsTheChild == late ~> proc["child"] \in {"dead", "reaped"}

\* After the deadline the call returns, unless the consumer stalls for ever: a
\* descendant that escaped the kill and keeps a pipe open cannot hold it.
CallReturns == <>late => <>(pc = "done") \/ <>[](unread = WireCap)

\* A full stderr pipe is drained before the deadline, unless the relay is
\* blocked on the consumer: the child cannot wedge itself on stderr.
StderrNeverWedges ==
  (buf["err"] = PipeCap) ~> (buf["err"] < PipeCap \/ late \/ unread = WireCap)

-----------------------------------------------------------------------------
(* What the documentation says and the code does not do.                   *)

\* Discarding text is always announced by a warning (streaming.py, MANUAL).
TruncationIsWarned == pc = "done" /\ overage > 0 => warnings = 1

\* A child killed at the deadline is reported as a timeout (result.py).
KilledMeansTimeout ==
  Returned /\ result.exit = "sigkill" => result.status = "timeout"
=============================================================================
