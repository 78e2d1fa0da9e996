-------------------------- MODULE BufferedRunProofs --------------------------
(***************************************************************************)
(* Proofs about BufferedRun, for any cap, pipe size, read size, output     *)
(* budgets and escape behaviour: the result is complete and true, a        *)
(* timeout leaves nothing of the group running, nothing is signalled       *)
(* early, and the call implements Execution.                               *)
(***************************************************************************)
EXTENDS BufferedRun, ChildTreeProofs

-----------------------------------------------------------------------------
(* Types.                                                                  *)

\* The initial state is well typed.
LEMMA TypeInit == Init => TypeOK
<1> SUFFICES ASSUME Init PROVE TypeOK
  OBVIOUS
<1>1. TreeTypeOK
  BY TreeTypeInit DEF Init
<1>2. timedOut \in BOOLEAN /\ abandoned \in BOOLEAN /\ late \in BOOLEAN /\ graceOver \in BOOLEAN
  BY Zenon DEF Init
<1>3. result \in [status : Status, exit : ExitCode, truncated : BOOLEAN]
  BY DEF Init, NoResult, Status, ExitCode
<1> QED
  BY <1>1, <1>2, <1>3 DEF Init, TypeOK, Labels, Stream

\* Every step keeps the types.
LEMMA TypeNext == TypeOK /\ [Next]_vars => TypeOK'
<1> SUFFICES ASSUME TypeOK, [Next]_vars PROVE TypeOK'
  OBVIOUS
<1>0. TreeTypeOK
  BY DEF TypeOK
<1> USE DEF callVars
<1>1. CASE Refuse
  <2>1. result' \in [status : Status, exit : ExitCode, truncated : BOOLEAN]
    BY <1>1 DEF Refuse, NoResult, Status, ExitCode
  <2> QED
    BY <1>0, <1>1, <2>1, TreeTypeCall DEF Refuse, TypeOK, Labels
<1>2. CASE SpawnChild
  BY <1>0, <1>2, TreeTypeCall DEF SpawnChild, TypeOK, Labels
<1>3. CASE CommunicateOverflows
  BY <1>0, <1>3, TreeTypeCall DEF CommunicateOverflows, TypeOK, Labels
<1>4. ASSUME NEW s \in Stream, ReadPipe(s) PROVE TypeOK'
  <2> DEFINE n == Smaller(ReadChunk, buf[s])
  <2>1. n \in Nat /\ n <= buf[s]
    BY RunAssumption, TreeAssumption DEF TypeOK, TreeTypeOK, Smaller
  <2>2. Take(s, n) /\ got' = [got EXCEPT ![s] = @ + n]
    BY <1>4 DEF ReadPipe
  <2> HIDE DEF n
  <2>3. TreeTypeOK' /\ got' \in [Stream -> Nat]
    BY <2>1, <2>2, TreeAssumption DEF TypeOK, TreeTypeOK, Take
  <2> QED
    BY <1>4, <2>3 DEF ReadPipe, TypeOK
<1>5. ASSUME NEW s \in Stream, ReadEof(s) PROVE TypeOK'
  BY <1>0, <1>5, TreeTypeCall DEF ReadEof, TypeOK
<1>6. CASE CommunicateReturns
  BY <1>0, <1>6, TreeTypeCall DEF CommunicateReturns, TypeOK, Labels
<1>7. CASE CommunicateExpires
  BY <1>0, <1>7, TreeTypeCall DEF CommunicateExpires, TypeOK, Labels
<1>8. CASE KillGroup
  BY <1>0, <1>8, TreeTypeCall DEF KillGroup, TypeOK, Labels
<1>9. CASE GiveUp
  BY <1>0, <1>9, TreeTypeCall DEF GiveUp, TypeOK, Labels
<1>10. CASE Assemble
  <2>1. StatusOf \in Status /\ ReturnCode \in ExitCode
    BY <1>0 DEF StatusOf, Status, ReturnCode, TreeTypeOK, ExitCode
  <2>2. (~abandoned /\ \E s \in Stream : got[s] > Cap) \in BOOLEAN
    OBVIOUS
  <2>3. result' \in [status : Status, exit : ExitCode, truncated : BOOLEAN]
    BY <1>10, <2>1, <2>2 DEF Assemble
  <2> QED
    BY <1>0, <1>10, <2>3, TreeTypeCall DEF Assemble, TypeOK, Labels
<1>11. CASE DeadlinePasses
  BY <1>0, <1>11, TreeTypeCall DEF DeadlinePasses, TypeOK
<1>12. CASE GracePasses
  BY <1>0, <1>12, TreeTypeCall DEF GracePasses, TypeOK
<1>13. CASE TreeMoves
  BY <1>0, <1>13, TreeTypeStep DEF TreeMoves, TypeOK
<1>14. CASE UNCHANGED vars
  BY <1>0, <1>14, TreeTypeCall DEF vars, TypeOK
<1> QED
  BY <1>1, <1>2, <1>3, <1>4, <1>5, <1>6, <1>7, <1>8, <1>9, <1>10, <1>11, <1>12, <1>13, <1>14
  DEF Next, CallStep

\* Type correctness of the buffered run and its process tree.
THEOREM TypeCorrect == Spec => []TypeOK
<1> QED
  BY TypeInit, TypeNext, PTL DEF Spec
-----------------------------------------------------------------------------
(* The inductive invariant.                                                *)

\* What was read and what is still in the pipe is what was written.
Counted == \A s \in Stream : got[s] + buf[s] = written[s]

\* A pipe that was read to its end is empty, and stays so.
Ended == \A s \in Stream \ open : Closed(s) /\ buf[s] = 0

\* Whoever still runs unsignalled has left the group.
GroupSignalled == \A p \in Process : proc[p] = "running" => p = "desc" /\ escaped

\* The child and its exit code; it is killed for a timeout only.
ChildExit ==
  /\ proc["child"] \in {"none", "running", "doomed"} <=> exitCode = "none"
  /\ exitCode = "sigkill" \/ proc["child"] = "doomed" => timedOut
  /\ proc["child"] = "none" => proc["desc"] = "none"

\* What the call knows at each place.
Position ==
  /\ timedOut => late
  /\ abandoned => timedOut
  /\ pc = "gates" => proc["child"] = "none" /\ ~late /\ open = Stream
  /\ pc \in {"communicate", "overflow"} => ~timedOut /\ proc["child"] \in {"running", "dead"}
  /\ pc \in {"kill", "drain", "reap"} =>
       timedOut /\ ~abandoned /\ proc["child"] \notin {"none", "reaped"}
  /\ pc \in {"drain", "reap"} => GroupSignalled
  /\ pc = "assemble" => /\ proc["child"] # "none"
                        /\ ~timedOut => proc["child"] = "reaped"
                        /\ timedOut => GroupSignalled
                        /\ ~abandoned => open = {}

\* What the result says, and what it was made from.
Reported ==
  /\ pc # "done" => result = NoResult
  /\ pc = "done" =>
       \/ result.status \in {"denied", "spawn_error"} /\ proc["child"] = "none"
            /\ result.exit = "none"
       \/ /\ result.status \in {"ok", "exit_nonzero", "timeout"}
          /\ result.truncated = (~abandoned /\ \E s \in Stream : got[s] > Cap)
          /\ ~abandoned => open = {}
          /\ proc["child"] # "none"
          /\ IF timedOut THEN result.status = "timeout" /\ GroupSignalled
             ELSE /\ proc["child"] = "reaped"
                  /\ result.exit = exitCode
                  /\ result.status = (IF exitCode = "zero" THEN "ok" ELSE "exit_nonzero")

IInv == TypeOK /\ Counted /\ Ended /\ ChildExit /\ Position /\ Reported

\* It holds initially.
LEMMA InvInit == Init => IInv
<1> SUFFICES ASSUME Init PROVE IInv
  OBVIOUS
<1>1. TypeOK
  BY TypeInit
<1> QED
  BY <1>1 DEF Init, TreeInit, IInv, Counted, Ended, ChildExit, Position, Reported, Process, Stream

\* What the processes do by themselves to the child and to a signalled group.
\* timedOut is not theirs.
LEMMA TreeMovesEffect ==
  ASSUME TypeOK, TreeStep, ChildExit, UNCHANGED timedOut
  PROVE  /\ proc["child"] # "none"
         /\ ChildExit'
         /\ \/ proc'["child"] = proc["child"] /\ exitCode' = exitCode
            \/ proc["child"] \in {"running", "doomed"} /\ proc'["child"] = "dead"
         /\ GroupSignalled => GroupSignalled'
<1> USE DEF TypeOK, TreeTypeOK, Process, ProcState, ChildExit, GroupSignalled
<1> DEFINE Goal ==
         /\ proc["child"] # "none"
         /\ ChildExit'
         /\ \/ proc'["child"] = proc["child"] /\ exitCode' = exitCode
            \/ proc["child"] \in {"running", "doomed"} /\ proc'["child"] = "dead"
         /\ GroupSignalled => GroupSignalled'
<1>1. CASE Fork
  BY <1>1 DEF Fork
<1>2. ASSUME NEW p \in Process, Exit(p) PROVE Goal
  BY <1>2 DEF Exit
<1>3. ASSUME NEW p \in Process, Die(p) PROVE Goal
  BY <1>3 DEF Die
<1>4. ASSUME NEW p \in Process, NEW s \in Stream, Write(p, s) PROVE Goal
  BY <1>4 DEF Write
<1>5. ASSUME NEW p \in Process, NEW s \in Stream, Close(p, s) PROVE Goal
  BY <1>5 DEF Close, ioVars
<1> QED
  BY <1>1, <1>2, <1>3, <1>4, <1>5 DEF TreeStep

\* Reading moves characters, writing adds them on both sides.
LEMMA CountedNext == TypeOK /\ Counted /\ [Next]_vars => Counted'
<1> SUFFICES ASSUME TypeOK, Counted, [Next]_vars PROVE Counted'
  OBVIOUS
<1> USE DEF Counted, callVars, treeVars, ioVars
<1>1. CASE CallStep
  <2>1. ASSUME NEW s \in Stream, ReadPipe(s) PROVE Counted'
    <3> DEFINE n == Smaller(ReadChunk, buf[s])
    <3>1. n \in Nat /\ n <= buf[s]
      BY RunAssumption, TreeAssumption DEF TypeOK, TreeTypeOK, Smaller
    <3>2. Take(s, n) /\ got' = [got EXCEPT ![s] = @ + n]
      BY <2>1 DEF ReadPipe
    <3> HIDE DEF n
    <3> QED
      BY <3>1, <3>2, TreeAssumption DEF TypeOK, TreeTypeOK, Take
  <2> QED
    BY <1>1, <2>1 DEF CallStep, Refuse, SpawnChild, Spawn, CommunicateOverflows, ReadEof,
       CommunicateReturns, Reap, CommunicateExpires, KillGroup, KillTree, GiveUp, Assemble
<1>2. CASE TreeMoves
  <2>1. got' = got /\ TreeStep
    BY <1>2 DEF TreeMoves
  <2>2. ASSUME NEW p \in Process, NEW s \in Stream, Write(p, s) PROVE Counted'
    BY <2>1, <2>2, TreeAssumption DEF Write, TypeOK, TreeTypeOK
  <2> QED
    BY <2>1, <2>2 DEF TreeStep, Fork, Exit, Die, Close
<1> QED
  BY <1>1, <1>2 DEF Next, DeadlinePasses, GracePasses, vars

\* A pipe at its end stays there.
LEMMA EndedNext == TypeOK /\ Ended /\ Position /\ [Next]_vars => Ended'
<1> SUFFICES ASSUME TypeOK, Ended, Position, [Next]_vars PROVE Ended'
  OBVIOUS
<1> USE DEF callVars, treeVars, ioVars
<1>1. CASE SpawnChild
  BY <1>1 DEF SpawnChild, Position, Ended
<1>2. ASSUME NEW s \in Stream, ReadPipe(s) PROVE Ended'
  BY <1>2 DEF ReadPipe, Take, Ended, Closed, TypeOK, TreeTypeOK
<1>3. ASSUME NEW s \in Stream, ReadEof(s) PROVE Ended'
  BY <1>3 DEF ReadEof, Ended, Closed
<1>4. CASE Refuse \/ CommunicateOverflows \/ CommunicateReturns \/ CommunicateExpires
           \/ KillGroup \/ GiveUp \/ Assemble
  BY <1>4 DEF Refuse, CommunicateOverflows, CommunicateReturns, Reap, CommunicateExpires,
     KillGroup, KillTree, GiveUp, Assemble, Ended, Closed
<1>5. CASE TreeMoves
  <2>1. open' = open /\ TreeStep
    BY <1>5 DEF TreeMoves
  <2> QED
    BY <2>1, ClosedStaysClosed DEF Ended, TypeOK
<1>6. CASE DeadlinePasses \/ GracePasses \/ UNCHANGED vars
  BY <1>6 DEF DeadlinePasses, GracePasses, vars, Ended, Closed
<1> QED
  BY <1>1, <1>2, <1>3, <1>4, <1>5, <1>6 DEF Next, CallStep

\* The child ends once, and by a signal only for a timeout.
LEMMA ChildExitNext == TypeOK /\ ChildExit /\ Position /\ [Next]_vars => ChildExit'
<1> SUFFICES ASSUME TypeOK, ChildExit, Position, [Next]_vars PROVE ChildExit'
  OBVIOUS
<1> USE DEF callVars, treeVars, ioVars, TypeOK, TreeTypeOK, Process
<1>1. CASE SpawnChild
  BY <1>1 DEF SpawnChild, Spawn, Position, ChildExit
<1>2. CASE CommunicateReturns
  BY <1>2 DEF CommunicateReturns, Reap, ChildExit
<1>3. CASE CommunicateExpires
  BY <1>3 DEF CommunicateExpires, ChildExit
<1>4. CASE KillGroup
  BY <1>4 DEF KillGroup, KillTree, InGroup, Position, ChildExit
<1>5. CASE GiveUp
  BY <1>5 DEF GiveUp, Reap, ChildExit
<1>6. ASSUME NEW s \in Stream, ReadPipe(s) \/ ReadEof(s) PROVE ChildExit'
  BY <1>6 DEF ReadPipe, Take, ReadEof, ChildExit
<1>7. CASE Refuse \/ CommunicateOverflows \/ Assemble \/ DeadlinePasses \/ GracePasses
           \/ UNCHANGED vars
  BY <1>7 DEF Refuse, CommunicateOverflows, Assemble, DeadlinePasses, GracePasses, vars, ChildExit
<1>8. CASE TreeMoves
  BY <1>8, TreeMovesEffect DEF TreeMoves
<1> QED
  BY <1>1, <1>2, <1>3, <1>4, <1>5, <1>6, <1>7, <1>8 DEF Next, CallStep

\* Every step of the call leaves it where it knows what Position says.
LEMMA PositionNext ==
  TypeOK /\ ChildExit /\ Position /\ [Next]_vars => Position'
<1> SUFFICES ASSUME TypeOK, ChildExit, Position, [Next]_vars PROVE Position'
  OBVIOUS
<1>11. CASE TreeMoves
  <2>1. /\ TreeStep
        /\ pc' = pc /\ open' = open /\ timedOut' = timedOut /\ abandoned' = abandoned
        /\ late' = late
    BY <1>11 DEF TreeMoves, callVars
  <2>2. /\ proc["child"] # "none"
        /\ \/ proc'["child"] = proc["child"] /\ exitCode' = exitCode
           \/ proc["child"] \in {"running", "doomed"} /\ proc'["child"] = "dead"
        /\ GroupSignalled => GroupSignalled'
    BY <2>1, TreeMovesEffect
  <2>3. proc["child"] = "doomed" => timedOut
    BY DEF ChildExit
  <2> HIDE DEF GroupSignalled
  <2> QED
    BY <2>1, <2>2, <2>3 DEF Position
<1> USE DEF callVars, treeVars, ioVars, TypeOK, TreeTypeOK, Process, Position, GroupSignalled
<1>1. CASE Refuse
  BY <1>1 DEF Refuse
<1>2. CASE SpawnChild
  BY <1>2 DEF SpawnChild, Spawn
<1>3. CASE CommunicateOverflows
  BY <1>3 DEF CommunicateOverflows
<1>4. ASSUME NEW s \in Stream, ReadPipe(s) \/ ReadEof(s) PROVE Position'
  BY <1>4 DEF ReadPipe, Take, ReadEof, Communicating
<1>5. CASE CommunicateReturns
  BY <1>5 DEF CommunicateReturns, Communicating, Reap
<1>6. CASE CommunicateExpires
  BY <1>6 DEF CommunicateExpires, Communicating, Expired
<1>7. CASE KillGroup
  BY <1>7 DEF KillGroup, KillTree, InGroup
<1>8. CASE GiveUp
  BY <1>8 DEF GiveUp, Reap
<1>9. CASE Assemble
  BY <1>9 DEF Assemble
<1>10. CASE DeadlinePasses \/ GracePasses \/ UNCHANGED vars
  BY <1>10 DEF DeadlinePasses, GracePasses, vars
<1> QED
  BY <1>1, <1>2, <1>3, <1>4, <1>5, <1>6, <1>7, <1>8, <1>9, <1>10, <1>11 DEF Next, CallStep

\* The result is made once, and stays true.
LEMMA ReportedNext ==
  TypeOK /\ ChildExit /\ Position /\ Reported /\ [Next]_vars => Reported'
<1> SUFFICES ASSUME TypeOK, ChildExit, Position, Reported, [Next]_vars PROVE Reported'
  OBVIOUS
<1> USE DEF callVars, treeVars, ioVars
<1>1. CASE Refuse
  BY <1>1 DEF Refuse, Reported, NoResult, Position
<1>2. CASE SpawnChild \/ CommunicateOverflows \/ CommunicateReturns \/ CommunicateExpires
           \/ KillGroup \/ GiveUp \/ \E s \in Stream : ReadPipe(s) \/ ReadEof(s)
  BY <1>2 DEF SpawnChild, CommunicateOverflows, CommunicateReturns, CommunicateExpires,
     KillGroup, GiveUp, ReadPipe, ReadEof, Communicating, Reported
<1>3. CASE Assemble
  <2> DEFINE cut == ~abandoned /\ \E s \in Stream : got[s] > Cap
  <2>1. /\ pc = "assemble" /\ pc' = "done"
        /\ result' = [status |-> StatusOf, exit |-> ReturnCode, truncated |-> cut]
        /\ UNCHANGED <<proc, exitCode, open, got, timedOut, abandoned, late, escaped>>
    BY <1>3 DEF Assemble
  <2> HIDE DEF cut
  <2>2. result'.status = StatusOf /\ result'.exit = ReturnCode /\ result'.truncated = cut
    BY <2>1
  <2>3. cut' = cut
    BY <2>1 DEF cut
  <2>4. CASE timedOut
    BY <2>1, <2>2, <2>3, <2>4 DEF cut, StatusOf, Position, Reported, GroupSignalled
  <2>5. CASE ~timedOut
    BY <2>1, <2>2, <2>3, <2>5 DEF cut, StatusOf, ReturnCode, Position, Reported
  <2> QED
    BY <2>4, <2>5
<1>4. CASE TreeMoves
  <2>1. TreeStep /\ UNCHANGED <<pc, open, got, timedOut, abandoned, late, graceOver, result>>
    BY <1>4 DEF TreeMoves
  <2>2. /\ proc["child"] # "none"
        /\ \/ proc'["child"] = proc["child"] /\ exitCode' = exitCode
           \/ proc["child"] \in {"running", "doomed"} /\ proc'["child"] = "dead"
        /\ GroupSignalled => GroupSignalled'
    BY <2>1, TreeMovesEffect
  <2> QED
    BY <2>1, <2>2 DEF Reported
<1>5. CASE DeadlinePasses \/ GracePasses \/ UNCHANGED vars
  BY <1>5 DEF DeadlinePasses, GracePasses, vars, Reported, GroupSignalled
<1> QED
  BY <1>1, <1>2, <1>3, <1>4, <1>5 DEF Next, CallStep

\* IInv is inductive.
LEMMA InvNext == IInv /\ [Next]_vars => IInv'
BY TypeNext, CountedNext, EndedNext, ChildExitNext, PositionNext, ReportedNext DEF IInv

\* The inductive invariant holds throughout.
THEOREM Invariant == Spec => []IInv
<1> QED
  BY InvInit, InvNext, PTL DEF Spec

-----------------------------------------------------------------------------
(* What follows from it.                                                   *)

\* All that was written is read and accounted for in truncated, unless the
\* output was abandoned.
THEOREM Completeness == Spec => []OutputIsComplete
<1>1. ASSUME IInv, pc = "done", ~abandoned,
             result.status \in {"ok", "exit_nonzero", "timeout"}
      PROVE  /\ \A s \in Stream : Closed(s) /\ got[s] = written[s]
             /\ result.truncated = \E s \in Stream : written[s] > Cap
  <2>1. open = {} /\ result.truncated = (~abandoned /\ \E s \in Stream : got[s] > Cap)
    BY <1>1 DEF IInv, Reported
  <2>2. \A s \in Stream : Closed(s) /\ buf[s] = 0
    BY <1>1, <2>1 DEF IInv, Ended
  <2>3. \A s \in Stream : got[s] = written[s]
    BY <1>1, <2>2 DEF IInv, Counted, TypeOK, TreeTypeOK
  <2>4. (\E s \in Stream : got[s] > Cap) <=> \E s \in Stream : written[s] > Cap
    BY <2>3
  <2> QED
    BY <1>1, <2>1, <2>2, <2>3, <2>4
<1>2. IInv => OutputIsComplete
  BY <1>1 DEF OutputIsComplete
<1> QED
  BY <1>2, Invariant, PTL

\* ok and exit_nonzero are the child's own exit; a killed child is a timeout.
THEOREM Truth == Spec => []StatusIsTheTruth
<1>1. IInv => StatusIsTheTruth
  BY DEF IInv, StatusIsTheTruth, Reported, ChildExit, TypeOK, TreeTypeOK, ExitCode
<1> QED
  BY <1>1, Invariant, PTL

\* After a timeout only a descendant that left the group still runs.
THEOREM GroupKilled == Spec => []TimeoutKillsTheGroup
<1>1. IInv => TimeoutKillsTheGroup
  BY DEF IInv, TimeoutKillsTheGroup, Reported, GroupSignalled
<1> QED
  BY <1>1, Invariant, PTL

\* No step signals a process before the deadline.
THEOREM NoEarlySignal == Spec => KillOnlyPastTheDeadline
<1>1. IInv /\ [Next]_vars =>
        [\A p \in Process : proc[p] = "running" /\ proc'[p] = "doomed" => late]_vars
  <2> SUFFICES ASSUME IInv, Next, NEW p \in Process,
                      proc[p] = "running", proc'[p] = "doomed"
               PROVE  late
    OBVIOUS
  <2> USE DEF IInv, callVars, TypeOK, TreeTypeOK, Process
  <2>1. CASE KillGroup
    BY <2>1 DEF KillGroup, Position
  <2>2. CASE CallStep /\ ~KillGroup
    BY <2>2 DEF CallStep, Refuse, SpawnChild, Spawn, CommunicateOverflows, ReadPipe, Take,
       ReadEof, CommunicateReturns, Reap, CommunicateExpires, GiveUp, Assemble, treeVars
  <2>3. CASE TreeMoves
    BY <2>3 DEF TreeMoves, TreeStep, Fork, Exit, Die, Write, Close
  <2> QED
    BY <2>1, <2>2, <2>3 DEF Next, DeadlinePasses, GracePasses, treeVars
<1> QED
  BY <1>1, Invariant, PTL DEF Spec, KillOnlyPastTheDeadline

-----------------------------------------------------------------------------
(* The call implements Execution.                                          *)

\* What Execution calls excess, named so that it can be kept whole.
Excess == \E s \in Stream : written[s] > Cap

\* Before anything was written there is no excess.
LEMMA RefinesInit == Init => Contract!Init
<1> SUFFICES ASSUME Init PROVE Contract!Init
  OBVIOUS
<1>1. proc["child"] = "none" /\ exitCode = "none" /\ late = FALSE /\ pc = "gates"
  BY DEF Init, TreeInit, Process
<1>2. result.status = "none" /\ result.truncated = FALSE
  BY DEF Init, NoResult
<1>3. \A s \in Stream : written[s] = 0
  BY DEF Init, TreeInit
<1>4. Excess = FALSE
  BY <1>3, RunAssumption DEF Excess
<1> QED
  BY <1>1, <1>2, <1>4 DEF Contract!Init, Excess

\* A step of the call is one of Execution or changes nothing that it sees.
LEMMA RefinesCall ==
  IInv /\ CallStep => [Contract!Next]_(Contract!vars)
<1> SUFFICES ASSUME IInv, CallStep PROVE [Contract!Next]_(Contract!vars)
  OBVIOUS
<1> USE DEF callVars, treeVars, ioVars
<1>0. TypeOK /\ TreeTypeOK
  BY DEF IInv, TypeOK
<1>1. CASE Refuse
  BY <1>1 DEF Refuse, NoResult, IInv, Reported, Contract!Next, Contract!Refuse
<1>2. CASE SpawnChild
  BY <1>0, <1>2 DEF SpawnChild, Spawn, TreeTypeOK, Process, Contract!Next, Contract!Start
<1>3. CASE CommunicateOverflows
  BY <1>3 DEF CommunicateOverflows, Contract!Next, Contract!Break
<1>4. ASSUME NEW s \in Stream, ReadPipe(s) \/ ReadEof(s) PROVE UNCHANGED Contract!vars
  BY <1>4 DEF ReadPipe, Take, ReadEof, Contract!vars
<1>5. CASE CommunicateReturns
  BY <1>0, <1>5 DEF CommunicateReturns, Communicating, Reap, TreeTypeOK, Process,
     Contract!Next, Contract!Reap
<1>6. CASE CommunicateExpires
  BY <1>6 DEF CommunicateExpires, Communicating, Contract!vars
<1>7. CASE KillGroup
  <2>1. proc'["child"] = IF proc["child"] = "running" THEN "doomed" ELSE proc["child"]
    BY <1>0, <1>7 DEF KillGroup, KillTree, InGroup, Process, TreeTypeOK
  <2>2. late
    BY <1>7 DEF IInv, Position, KillGroup
  <2> QED
    BY <1>7, <2>1, <2>2 DEF KillGroup, KillTree, Contract!Next, Contract!Kill, Contract!vars
<1>8. CASE GiveUp
  BY <1>0, <1>8 DEF GiveUp, Reap, TreeTypeOK, Process, Contract!Next, Contract!Reap, Contract!vars
<1>9. CASE Assemble
  <2>1. /\ pc = "assemble" /\ pc' = "done"
        /\ UNCHANGED <<proc, exitCode, written, late>>
        /\ result'.status = StatusOf
        /\ result'.truncated = (~abandoned /\ \E s \in Stream : got[s] > Cap)
    BY <1>9 DEF Assemble
  <2>2. proc["child"] # "running"
    BY <2>1 DEF IInv, Position, GroupSignalled, Process
  <2>3. CASE timedOut
    <3>1. result'.status = "timeout" /\ late
      BY <2>1, <2>3 DEF StatusOf, IInv, Position
    <3>2. result'.truncated \in BOOLEAN
      BY <2>1
    <3> QED
      BY <2>1, <2>2, <3>1, <3>2 DEF Contract!Next, Contract!Finish
  <2>4. CASE ~timedOut
    <3>1. open = {} /\ ~abandoned /\ proc["child"] = "reaped"
      BY <2>1, <2>4 DEF IInv, Position
    <3>2. \A s \in Stream : got[s] = written[s]
      BY <1>0, <3>1 DEF IInv, Ended, Counted, TypeOK, TreeTypeOK
    <3>3. result'.truncated = \E s \in Stream : written[s] > Cap
      BY <2>1, <3>1, <3>2
    <3>4. result'.status = IF exitCode = "zero" THEN "ok" ELSE "exit_nonzero"
      BY <2>1, <2>4, <3>1 DEF StatusOf, ReturnCode
    <3> QED
      BY <2>1, <3>1, <3>3, <3>4 DEF Contract!Next, Contract!Finish
  <2> QED
    BY <2>3, <2>4
<1> QED
  BY <1>1, <1>2, <1>3, <1>4, <1>5, <1>6, <1>7, <1>8, <1>9 DEF CallStep

\* So is a step of the clock or of the processes.
LEMMA RefinesWorld ==
  IInv /\ (DeadlinePasses \/ GracePasses \/ TreeMoves) => [Contract!Next]_(Contract!vars)
<1> SUFFICES ASSUME IInv, DeadlinePasses \/ GracePasses \/ TreeMoves
             PROVE  [Contract!Next]_(Contract!vars)
  OBVIOUS
<1> USE DEF callVars, treeVars, ioVars
<1>0. TypeOK /\ TreeTypeOK
  BY DEF IInv, TypeOK
<1>1. CASE DeadlinePasses
  BY <1>1 DEF DeadlinePasses, IInv, Position, Contract!Next, Contract!BudgetPasses
<1>2. CASE GracePasses
  BY <1>2 DEF GracePasses, Contract!vars
<1>3. CASE TreeMoves
  <2>0. pc' = pc /\ late' = late /\ result' = result
    BY <1>3 DEF TreeMoves
  <2>1. CASE Fork
    BY <1>0, <2>0, <2>1 DEF Fork, TreeTypeOK, Process, Contract!vars
  <2>2. ASSUME NEW p \in Process, Exit(p) PROVE [Contract!Next]_(Contract!vars)
    BY <1>0, <2>0, <2>2
    DEF Exit, TreeTypeOK, Process, Contract!Next, Contract!ChildExits, Contract!vars
  <2>3. ASSUME NEW p \in Process, Die(p) PROVE [Contract!Next]_(Contract!vars)
    BY <1>0, <2>0, <2>3
    DEF Die, TreeTypeOK, Process, Contract!Next, Contract!ChildDies, Contract!vars
  <2>4. ASSUME NEW p \in Process, NEW s \in Stream, Close(p, s)
        PROVE  [Contract!Next]_(Contract!vars)
    BY <2>0, <2>4 DEF Close, Contract!vars
  <2>5. ASSUME NEW p \in Process, NEW s \in Stream, Write(p, s)
        PROVE  [Contract!Next]_(Contract!vars)
    <3>1. proc["child"] # "none"
      BY <2>5 DEF Write, IInv, ChildExit, Process
    <3>2. result.status \notin {"ok", "exit_nonzero"}
      <4>1. ~Closed(s)
        BY <2>5 DEF Write, Closed
      <4>2. s \in open
        BY <4>1 DEF IInv, Ended
      <4>3. CASE pc # "done"
        BY <4>3 DEF IInv, Reported, NoResult
      <4>4. CASE pc = "done" /\ proc["child"] # "none"
        <5>1. Reported /\ open # {}
          BY <4>2 DEF IInv
        <5>2. timedOut
          BY <4>4, <5>1 DEF IInv, Reported, Position
        <5> QED
          BY <4>4, <5>1, <5>2 DEF Reported
      <4> QED
        BY <3>1, <4>3, <4>4
    <3>3. Excess => Excess'
      <4>1. \A t \in Stream : written[t] \in Nat /\ written'[t] \in {written[t], written[t] + 1}
        BY <1>0, <2>5 DEF Write, TreeTypeOK
      <4> QED
        BY <4>1, RunAssumption DEF Excess
    <3>4. UNCHANGED <<proc, exitCode>>
      BY <2>5 DEF Write
    <3> QED
      BY <2>0, <3>1, <3>2, <3>3, <3>4
      DEF Excess, Contract!Next, Contract!Exceed, Contract!Clean, Contract!vars
  <2> QED
    BY <1>3, <2>1, <2>2, <2>3, <2>4, <2>5 DEF TreeMoves, TreeStep
<1> QED
  BY <1>1, <1>2, <1>3

\* The buffered run implements what an execution promises: every behaviour of
\* Spec, seen through the refinement mapping, is one of Execution.
THEOREM Implements == Spec => ImplementsExecution
<1>1. IInv /\ [Next]_vars => [Contract!Next]_(Contract!vars)
  <2>1. CASE UNCHANGED vars
    BY <2>1 DEF vars, treeVars, callVars, Contract!vars
  <2> QED
    BY <2>1, RefinesCall, RefinesWorld DEF Next
<1> QED
  BY <1>1, RefinesInit, Invariant, PTL DEF Spec, ImplementsExecution, Contract!Spec
=============================================================================
