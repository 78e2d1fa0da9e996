-------------------------- MODULE StreamResultProofs -------------------------
(***************************************************************************)
(* What a streaming call says, for every value of the constants: the       *)
(* warning, the events, the result, and that the call implements both      *)
(* StreamProtocol and Execution.                                           *)
(***************************************************************************)
EXTENDS StreamRelayProofs

-----------------------------------------------------------------------------
(* The inductive invariant.                                                *)

\* The warning: sent when the whole prefix is out and text was discarded, and
\* counted before the write that may raise.
Warned ==
  /\ warnings <= 1
  /\ capWarned => /\ warnings = 1 /\ pending = 0 /\ kept = Cap /\ overage > 0
                  /\ pc \notin {"gates", "start", "setup"}
  /\ ~capWarned /\ pc \notin {"unwind", "crashed"} => warnings = 0
  /\ pc = "warn" => ~capWarned /\ pending = 0 /\ kept = Cap /\ overage > 0
  /\ pc = "flush" /\ goal = "warn" => ~capWarned /\ kept = Cap /\ overage > 0

\* The events: a start before the text, and no text pending at the final.
Sent ==
  /\ finalSent <=> pc = "done"
  /\ pc \notin {"gates", "start", "final", "done", "crashed"} => seq > 0
  /\ pc \in {"gates", "start", "setup", "finally", "reap", "rekill", "status", "final"}
       => pending = 0

\* Once the pipes are registered, one that no longer is was read to its end;
\* one that select returned can be read, or is at its end.
Ended ==
  /\ wd # "unarmed" => \A s \in Stream \ open : Closed(s) /\ buf[s] = 0
  /\ \A s \in ready : Readable(s)

\* The decoder was finalised.
PastTail == \/ pc \in {"finally", "reap", "rekill", "status"}
            \/ pc = "flush" /\ goal = "tail"

\* What the relay knows past the pump: unless the deadline was acted on, both
\* pipes have ended and the child was reaped.
Position ==
  /\ pc \notin {"gates", "start", "setup", "final", "done", "crashed"} => wd # "unarmed"
  /\ pc = "gates" => wd = "unarmed" /\ ready = {}
  /\ pc = "wait" => open = {}
  /\ phase = "grace" => deadlineHit
  /\ PastPump /\ ~deadlineHit => open = {} /\ proc["child"] = "reaped"
  /\ PastTail => held = 0

Cut == overage > 0 \/ errTotal > errKept \/ errKept > Cap

\* What a clean result was made from.
Reported ==
  /\ pc \notin {"final", "done", "crashed"} => result = NoResult
  /\ result.status \in {"ok", "exit_nonzero"} =>
       /\ wd # "unarmed" /\ open = {} /\ held = 0
       /\ proc["child"] = "reaped"
       /\ result.exit = exitCode
       /\ result.status = (IF exitCode = "zero" THEN "ok" ELSE "exit_nonzero")
       /\ result.truncated = Cut

Inv == TypeOK /\ EveryCharacterIsAccounted /\ KillDiscipline
IInv == Inv /\ Warned /\ Sent /\ ChildEnd /\ Ended /\ Position /\ Reported

\* It holds initially.
LEMMA ResultInit == Init => Warned /\ Sent /\ ChildEnd /\ Ended /\ Position /\ Reported
BY DEF Init, EmitterInit, TreeInit, NoResult, Warned, Sent, ChildEnd, Ended, PastPump,
       PastTail, Position, Reported, Process

-----------------------------------------------------------------------------
(* The warning.                                                            *)

\* Every step keeps the warning in its place.
LEMMA WarnedNext == Inv /\ Warned /\ [Next]_vars => Warned'
<1> SUFFICES ASSUME Inv, Warned, [Next]_vars PROVE Warned'
  OBVIOUS
<1>t. /\ kept \in 0..Cap /\ overage \in Nat /\ pending \in Nat /\ held \in 0..1
      /\ warnings \in 0..MaxWarnings /\ capWarned \in BOOLEAN /\ pc \in Labels
      /\ goal \in {"none", "warn", "tail"}
  BY DEF Inv, TypeOK, EmitterTypeOK
<1> USE DEF Warned, outsideVars, emitterVars, textVars
<1>1. CASE ReadOut
  <2>1. PICK n \in Nat, h \in 0..1 :
          /\ Accept(n)
          /\ goal' = IF Crosses(n) /\ ~capWarned THEN "warn" ELSE "none"
    <3> DEFINE r == Smaller(buf["out"], ReadChunk)
    <3>1. r \in 1..buf["out"]
      BY <1>1, ReadSize DEF ReadOut, Inv, TypeOK, TreeTypeOK, Stream
    <3>2. PICK h \in 0..1 :
            /\ Accept(held + r - h)
            /\ goal' = IF Crosses(held + r - h) /\ ~capWarned THEN "warn" ELSE "none"
      BY <1>1, Zenon DEF ReadOut
    <3>3. held + r - h \in Nat
      BY <1>t, <3>1 DEF Inv, TypeOK, TreeTypeOK, Stream
    <3> QED BY <3>2, <3>3
  <2>2. pc' = "flush" /\ pc = "pump" /\ UNCHANGED <<warnings, capWarned>>
    BY <1>1 DEF ReadOut
  <2>3. /\ kept = Cap => kept' = Cap
        /\ overage > 0 => overage' > 0
        /\ kept = Cap /\ pending = 0 => pending' = 0
        /\ Crosses(n) => kept' = Cap /\ overage' > 0
    BY <1>t, <2>1, RelayAssumption DEF Accept, Crosses, Smaller
  <2>4. goal' = "warn" => ~capWarned /\ Crosses(n)
    BY <2>1
  <2> QED BY <1>t, <2>2, <2>3, <2>4
<1>2. CASE FlushChunk
  <2>1. pending # 0
    <3>1. ChunkDue
      BY <1>2 DEF FlushChunk
    <3>2. pending >= MaxText \/ pending > 0
      BY <3>1 DEF ChunkDue
    <3> QED BY <1>t, <3>2, EmitterAssumption
  <2>2. pc = "flush" /\ UNCHANGED <<pc, goal, kept, overage, capWarned, warnings>>
    BY <1>2 DEF FlushChunk, EmitChunk
  <2> QED BY <2>1, <2>2
<1>3. CASE FlushDone
  BY <1>t, <1>3 DEF FlushDone, AfterFlush, ChunkDue, Forced
<1>4. CASE WarnCap
  BY <1>t, <1>4 DEF WarnCap, EmitWarning
<1>5. CASE DecodeTail
  BY <1>t, <1>5 DEF DecodeTail, Accept, Smaller
<1>6. CASE WriteRaises
  BY <1>t, <1>6 DEF WriteRaises, Emitting, EmitRaises
<1>7. CASE Unwind
  BY <1>7 DEF Unwind
<1>8. CASE \/ Refuse \/ SpawnChild \/ SendStart \/ Setup \/ EncodeRaises
           \/ Poll \/ Select \/ (\E s \in Stream : ReadEof(s)) \/ ReadErr \/ PumpDone
  BY <1>8 DEF Refuse, SpawnChild, SendStart, EmitStart, Setup, EncodeRaises, Poll, Select, ReadEof,
     ReadErr, PumpDone
<1>9. CASE \/ WaitExit \/ WaitExpires \/ RelayKill \/ RelaySet \/ Finally \/ ReapChild
           \/ ReapExpires \/ GiveUpReap \/ Assemble \/ SendFinal
  BY <1>9 DEF WaitExit, WaitExpires, RelayKill, RelaySet, Finally, ReapChild, ReapExpires,
     GiveUpReap, Assemble, SendFinal, EmitFinal
<1>10. CASE \/ WatchdogStep \/ DeadlinePasses \/ GracePasses \/ TreeMoves \/ ConsumerMoves
            \/ UNCHANGED vars
  BY <1>10 DEF WatchdogStep, WatchdogFires, WatchdogKill, WatchdogSet, DeadlinePasses,
     GracePasses, TreeMoves, ConsumerMoves, ConsumerRead, ConsumerLeave, vars
<1> QED
  BY <1>1, <1>2, <1>3, <1>4, <1>5, <1>6, <1>7, <1>8, <1>9, <1>10, Zenon
     DEF Next, RelayStep, PumpStep
-----------------------------------------------------------------------------
(* The events.                                                             *)

\* Every step keeps the order of the events.
LEMMA SentNext == Inv /\ Sent /\ [Next]_vars => Sent'
<1> SUFFICES ASSUME Inv, Sent, [Next]_vars PROVE Sent'
  OBVIOUS
<1>t. /\ pending \in Nat /\ seq \in Nat /\ pc \in Labels /\ finalSent \in BOOLEAN
      /\ goal \in {"none", "warn", "tail"}
  BY DEF Inv, TypeOK, EmitterTypeOK
<1> USE DEF Sent, outsideVars, emitterVars, textVars
<1>1. CASE SendStart
  BY <1>t, <1>1 DEF SendStart, EmitStart, Line
<1>2. CASE FlushChunk
  BY <1>t, <1>2 DEF FlushChunk, EmitChunk, Line
<1>3. CASE FlushDone
  <2>1. goal = "tail" => pending = 0
    BY <1>t, <1>3 DEF FlushDone, ChunkDue, Forced
  <2>2. /\ pc = "flush" /\ pc' = AfterFlush /\ UNCHANGED <<finalSent, seq, pending>>
    BY <1>3 DEF FlushDone
  <2>3. AfterFlush \in {"pump", "warn"} \/ (AfterFlush = "finally" /\ goal = "tail")
    BY <1>t DEF AfterFlush
  <2> QED BY <2>1, <2>2, <2>3
<1>4. CASE WarnCap
  BY <1>t, <1>4 DEF WarnCap, EmitWarning, Line
<1>5. CASE SendFinal
  BY <1>t, <1>5 DEF SendFinal, EmitFinal, Line
<1>6. CASE WriteRaises
  BY <1>t, <1>6 DEF WriteRaises, Emitting, EmitRaises
<1>7. CASE Unwind \/ ReadOut \/ DecodeTail
  BY <1>7 DEF Unwind, ReadOut, DecodeTail
<1>8. CASE \/ Refuse \/ SpawnChild \/ Setup \/ EncodeRaises
           \/ Poll \/ Select \/ (\E s \in Stream : ReadEof(s)) \/ ReadErr \/ PumpDone
  BY <1>8 DEF Refuse, SpawnChild, Setup, EncodeRaises, Poll, Select, ReadEof, ReadErr, PumpDone
<1>9. CASE \/ WaitExit \/ WaitExpires \/ RelayKill \/ RelaySet \/ Finally \/ ReapChild
           \/ ReapExpires \/ GiveUpReap \/ Assemble
  BY <1>9 DEF WaitExit, WaitExpires, RelayKill, RelaySet, Finally, ReapChild, ReapExpires,
     GiveUpReap, Assemble
<1>10. CASE \/ WatchdogStep \/ DeadlinePasses \/ GracePasses \/ TreeMoves \/ ConsumerMoves
            \/ UNCHANGED vars
  BY <1>10 DEF WatchdogStep, WatchdogFires, WatchdogKill, WatchdogSet, DeadlinePasses,
     GracePasses, TreeMoves, ConsumerMoves, ConsumerRead, ConsumerLeave, vars
<1> QED
  BY <1>1, <1>2, <1>3, <1>4, <1>5, <1>6, <1>7, <1>8, <1>9, <1>10, Zenon
     DEF Next, RelayStep, PumpStep

-----------------------------------------------------------------------------
(* The pipes, the child and the relay's position.                          *)

\* Every step keeps what is known of the child's end.
LEMMA ChildEndNext == Inv /\ ChildEnd /\ [Next]_vars => ChildEnd'
<1> SUFFICES ASSUME Inv, ChildEnd, [Next]_vars PROVE ChildEnd'
  OBVIOUS
<1>t. TreeTypeOK /\ (pc = "gates" => proc["child"] = "none")
  BY DEF Inv, TypeOK, KillDiscipline
<1> USE DEF outsideVars, treeVars
<1>1. CASE SpawnChild \/ TreeMoves
  BY <1>t, <1>1, ChildEndStep DEF SpawnChild, TreeMoves
<1>2. CASE RelayKill \/ WatchdogKill \/ ReapExpires \/ WaitExit \/ ReapChild
  BY <1>t, <1>2, ChildEndStep DEF RelayKill, WatchdogKill, ReapExpires, WaitExit, ReapChild
<1> DEFINE Still == UNCHANGED <<proc, escaped, exitCode>>
<1>3. CASE Refuse \/ SendStart \/ Setup \/ EncodeRaises \/ PumpStep
  <2>1. Still
    BY <1>3 DEF Refuse, SendStart, Setup, EncodeRaises, PumpStep, Poll, Select, ReadEof, ReadErr,
       Take, ReadOut, FlushChunk, FlushDone, WarnCap, PumpDone
  <2> QED BY <1>t, <2>1, ChildEndStep
<1>4. CASE \/ WaitExpires \/ RelaySet \/ DecodeTail \/ Finally \/ GiveUpReap \/ Assemble
           \/ SendFinal \/ WriteRaises \/ Unwind
  <2>1. Still
    BY <1>4 DEF WaitExpires, RelaySet, DecodeTail, Finally, GiveUpReap, Assemble, SendFinal,
       WriteRaises, Unwind
  <2> QED BY <1>t, <2>1, ChildEndStep
<1>5. CASE \/ WatchdogFires \/ WatchdogSet \/ DeadlinePasses \/ GracePasses \/ ConsumerMoves
           \/ UNCHANGED vars
  <2>1. Still
    BY <1>5 DEF WatchdogFires, WatchdogSet, DeadlinePasses, GracePasses, ConsumerMoves, vars
  <2> QED BY <1>t, <2>1, ChildEndStep
<1> QED
  BY <1>1, <1>2, <1>3, <1>4, <1>5, Zenon DEF Next, RelayStep, WatchdogStep

\* A pipe at its end stays there.
LEMMA EndedNext == Inv /\ Position /\ Ended /\ [Next]_vars => Ended'
<1> SUFFICES ASSUME Inv, Position, Ended, [Next]_vars PROVE Ended'
  OBVIOUS
<1>t. /\ TreeTypeOK /\ ready \subseteq open /\ open \subseteq Stream
      /\ wd \in {"unarmed", "armed", "firing", "killed", "fired", "cancelled"}
      /\ (pc = "gates" => proc["child"] = "none")
  BY DEF Inv, TypeOK, KillDiscipline
<1> USE DEF Ended, Readable, Closed, outsideVars, treeVars, ioVars, pumpVars
<1>1. CASE Setup
  BY <1>1, <1>t DEF Setup
<1>2. CASE SpawnChild
  <2>1. pc = "gates" /\ wd' = wd /\ ready' = ready /\ buf' = buf
    BY <1>2 DEF SpawnChild, Spawn
  <2>2. wd = "unarmed" /\ ready = {}
    BY <2>1 DEF Position
  <2> QED BY <2>1, <2>2
<1>3. CASE Select
  BY <1>3 DEF Select
<1>4. ASSUME NEW s \in Stream, ReadEof(s) PROVE Ended'
  BY <1>4 DEF ReadEof
<1>5. CASE ReadErr \/ ReadOut
  <2>1. PICK s \in Stream, n \in Nat :
          /\ s \in ready /\ n > 0 /\ n <= buf[s]
          /\ Take(s, n)
          /\ ready' = ready \ {s} /\ open' = open /\ wd' = wd
    <3>1. ASSUME NEW s \in Stream, buf[s] > 0
          PROVE  Smaller(buf[s], ReadChunk) \in Nat /\ Smaller(buf[s], ReadChunk) > 0
                 /\ Smaller(buf[s], ReadChunk) <= buf[s]
      BY <1>t, <3>1, ReadSize DEF TreeTypeOK
    <3> QED BY <1>5, <3>1 DEF ReadErr, ReadOut, Stream
  <2> QED BY <1>t, <2>1 DEF Take, TreeTypeOK
<1>6. CASE TreeMoves
  <2>1. TreeStep /\ open' = open /\ ready' = ready /\ wd' = wd
    BY <1>6 DEF TreeMoves
  <2>2. \A s \in Stream : Closed(s) => Closed(s)' /\ buf'[s] = buf[s]
    BY <1>t, <2>1, ClosedStaysClosed
  <2>3. \A s \in Stream : buf[s] > 0 => buf'[s] > 0
    <3>1. CASE \E p \in Process, q \in Stream : Write(p, q)
      BY <1>t, <3>1 DEF Write, TreeTypeOK
    <3>2. CASE buf' = buf
      BY <3>2
    <3> QED BY <2>1, <3>1, <3>2 DEF TreeStep, Fork, Exit, Die, Close
  <2> QED BY <1>t, <2>1, <2>2, <2>3
<1> DEFINE Still == UNCHANGED <<holds, buf, open, ready>> /\ (wd = "unarmed" => wd' = "unarmed")
<1>7. CASE \/ Refuse \/ SendStart \/ EncodeRaises \/ FlushChunk \/ FlushDone \/ WarnCap
           \/ Poll \/ PumpDone \/ WaitExit \/ WaitExpires \/ RelayKill \/ RelaySet \/ DecodeTail
  <2>1. Still
    BY <1>7 DEF Refuse, SendStart, EncodeRaises, FlushChunk, FlushDone, WarnCap, Poll,
       PumpDone, WaitExit, Reap, WaitExpires, RelayKill, KillTree, RelaySet, DecodeTail
  <2> QED BY <2>1
<1>8. CASE \/ Finally \/ ReapChild \/ ReapExpires \/ GiveUpReap \/ Assemble \/ SendFinal
           \/ WriteRaises \/ Unwind
  <2>1. Still
    BY <1>8 DEF Finally, CancelWatchdog, ReapChild, Reap, ReapExpires, KillTree, GiveUpReap,
       Assemble, SendFinal, WriteRaises, Unwind
  <2> QED BY <2>1
<1>9. CASE \/ WatchdogStep \/ DeadlinePasses \/ GracePasses \/ ConsumerMoves
           \/ UNCHANGED vars
  <2>1. Still
    BY <1>9 DEF WatchdogStep, WatchdogFires, WatchdogKill, KillTree, WatchdogSet,
       DeadlinePasses, GracePasses, ConsumerMoves, vars
  <2> QED BY <2>1
<1> QED
  BY <1>1, <1>2, <1>3, <1>4, <1>5, <1>6, <1>7, <1>8, <1>9, Zenon DEF Next, RelayStep, PumpStep

\* Every step leaves the relay where it knows what Position says.
LEMMA PositionNext == Inv /\ Sent /\ Position /\ [Next]_vars => Position'
<1> SUFFICES ASSUME Inv, Sent, Position, [Next]_vars PROVE Position'
  OBVIOUS
<1>t. /\ TreeTypeOK /\ pc \in Labels /\ phase \in {"budget", "grace"}
      /\ goal \in {"none", "warn", "tail"} /\ deadlineHit \in BOOLEAN /\ held \in 0..1
      /\ wd \in {"unarmed", "armed", "firing", "killed", "fired", "cancelled"}
      /\ open \subseteq Stream
      /\ (pc = "gates" => phase = "budget")
  BY DEF Inv, TypeOK, KillDiscipline
<1> USE DEF Position, PastPump, PastTail, outsideVars, treeVars, pumpVars, textVars
<1>1. CASE Refuse \/ SpawnChild \/ SendStart \/ Setup \/ EncodeRaises
  BY <1>t, <1>1 DEF Refuse, SpawnChild, SendStart, Setup, EncodeRaises
<1>2. CASE Poll \/ Select \/ (\E s \in Stream : ReadEof(s)) \/ ReadErr
  BY <1>t, <1>2 DEF Poll, Select, ReadEof, ReadErr, Take
<1>3. CASE ReadOut
  BY <1>t, <1>3, ReadOutEffect DEF Inv, ReadOut, Take
<1>4. CASE FlushChunk \/ WarnCap
  BY <1>t, <1>4 DEF FlushChunk, WarnCap
<1>5. CASE FlushDone
  <2>1. /\ pc = "flush" /\ pc' = AfterFlush
        /\ UNCHANGED <<wd, open, phase, deadlineHit, proc, held, ready>>
    BY <1>5 DEF FlushDone
  <2>2. AfterFlush \in {"pump", "warn"} \/ (AfterFlush = "finally" /\ goal = "tail")
    BY <1>t DEF AfterFlush
  <2>3. goal' = "none"
    BY <1>5 DEF FlushDone
  <2> QED BY <2>1, <2>2, <2>3
<1>6. CASE PumpDone \/ WaitExpires \/ RelayKill \/ RelaySet
  BY <1>t, <1>6 DEF PumpDone, WaitExpires, RelayKill, RelaySet
<1>7. CASE WaitExit
  BY <1>t, <1>7 DEF WaitExit, Reap, TreeTypeOK, Process
<1>8. CASE DecodeTail \/ Finally
  BY <1>t, <1>8 DEF DecodeTail, Finally, CancelWatchdog
<1>9. CASE ReapChild \/ ReapExpires \/ GiveUpReap
  BY <1>t, <1>9, KillTreeChild DEF ReapChild, Reap, ReapExpires, GiveUpReap, TreeTypeOK, Process
<1>10. CASE Assemble \/ SendFinal \/ Unwind
  BY <1>t, <1>10 DEF Assemble, SendFinal, Unwind, CancelWatchdog
<1>11. CASE WriteRaises
  BY <1>t, <1>11 DEF WriteRaises, Emitting
<1>12. CASE WatchdogFires \/ WatchdogSet \/ DeadlinePasses \/ GracePasses \/ ConsumerMoves
            \/ UNCHANGED vars
  BY <1>t, <1>12 DEF WatchdogFires, WatchdogSet, DeadlinePasses, GracePasses, ConsumerMoves, vars
<1>13. CASE WatchdogKill
  BY <1>t, <1>13, KillTreeChild DEF WatchdogKill
<1>14. CASE TreeMoves
  BY <1>t, <1>14, TreeStepChild DEF TreeMoves
<1> QED
  BY <1>1, <1>2, <1>3, <1>4, <1>5, <1>6, <1>7, <1>8, <1>9, <1>10, <1>11, <1>12, <1>13, <1>14,
     Zenon DEF Next, RelayStep, PumpStep, WatchdogStep

-----------------------------------------------------------------------------
(* The result.                                                             *)

\* The result is made once, and what it was made from does not change after.
LEMMA ReportedNext ==
  Inv /\ ChildEnd /\ Position /\ Reported /\ [Next]_vars => Reported'
<1> SUFFICES ASSUME Inv, ChildEnd, Position, Reported, [Next]_vars PROVE Reported'
  OBVIOUS
<1>t. /\ TreeTypeOK /\ pc \in Labels /\ deadlineHit \in BOOLEAN
      /\ wd \in {"unarmed", "armed", "firing", "killed", "fired", "cancelled"}
      /\ NoResult.status = "none"
      /\ (pc = "gates" => proc["child"] = "none")
  BY DEF Inv, TypeOK, KillDiscipline, NoResult
<1> DEFINE Basis == <<open, held, exitCode, overage, errTotal, errKept>>
           Early == pc \notin {"final", "done", "crashed"}
<1>c. Cut' = Cut \/ ~(UNCHANGED Basis)
  BY DEF Cut
<1> USE DEF Reported, outsideVars, treeVars, pumpVars, textVars, errVars
<1>1. CASE Refuse
  BY <1>t, <1>1 DEF Refuse, NoResult
<1>2. CASE Assemble
  <2>1. /\ pc = "status" /\ pc' = "final" /\ UNCHANGED <<Basis, proc, wd>>
        /\ result' = [status |-> StatusOf, exit |-> ReturnCode, truncated |-> Cut]
    BY <1>2 DEF Assemble, Cut
  <2>2. result'.status = StatusOf /\ result'.exit = ReturnCode /\ result'.truncated = Cut
    BY <2>1
  <2>3. StatusOf \in {"ok", "exit_nonzero"} =>
          ~deadlineHit /\ StatusOf = (IF ReturnCode = "zero" THEN "ok" ELSE "exit_nonzero")
    BY DEF StatusOf
  <2>4. ~deadlineHit =>
          /\ open = {} /\ proc["child"] = "reaped" /\ held = 0 /\ wd # "unarmed"
          /\ ReturnCode = exitCode
    BY <2>1 DEF Position, PastPump, PastTail, ReturnCode
  <2> QED BY <2>1, <2>2, <2>3, <2>4, <1>c
<1>3. CASE SendFinal \/ WriteRaises \/ Unwind \/ EncodeRaises
  <2>1. UNCHANGED <<result, Basis, proc>> /\ pc' \in {"done", "unwind", "crashed"}
    BY <1>3 DEF SendFinal, WriteRaises, Unwind, EncodeRaises
  <2>2. wd # "unarmed" => wd' # "unarmed"
    BY <1>3 DEF SendFinal, WriteRaises, Unwind, EncodeRaises, CancelWatchdog
  <2>3. pc' = "unwind" => Early
    BY <1>3 DEF SendFinal, WriteRaises, Unwind, EncodeRaises, Emitting
  <2> QED BY <2>1, <2>2, <2>3, <1>c
<1>4. CASE \/ SpawnChild \/ SendStart \/ Setup \/ PumpStep \/ WaitExit \/ WaitExpires
           \/ RelayKill \/ RelaySet \/ DecodeTail \/ Finally \/ ReapChild \/ ReapExpires
           \/ GiveUpReap
  <2>1. Early /\ result' = result
    BY <1>4 DEF SpawnChild, SendStart, Setup, PumpStep, Poll, Select, ReadEof, ReadErr, ReadOut,
       FlushChunk, FlushDone, WarnCap, PumpDone, WaitExit, WaitExpires, RelayKill, RelaySet,
       DecodeTail, Finally, ReapChild, ReapExpires, GiveUpReap
  <2> QED BY <1>t, <2>1
<1>5. CASE TreeMoves
  <2>1. TreeStep /\ UNCHANGED <<pc, result, wd, open, held, overage, errTotal, errKept>>
    BY <1>5 DEF TreeMoves
  <2>2. proc["child"] = "reaped" => proc'["child"] = "reaped" /\ exitCode' = exitCode
    BY <1>t, <2>1 DEF TreeStep, Fork, Exit, Die, Write, Close, TreeTypeOK, Process
  <2> QED BY <2>1, <2>2 DEF Cut
<1>6. CASE WatchdogKill
  <2>1. KillTree /\ UNCHANGED <<pc, result, open, held, overage, errTotal, errKept>>
        /\ wd' # "unarmed"
    BY <1>6 DEF WatchdogKill
  <2>2. proc["child"] = "reaped" => proc' = proc
    BY <1>t, <2>1, KillTreeChild
  <2>3. exitCode' = exitCode
    BY <2>1 DEF KillTree
  <2> QED BY <2>1, <2>2, <2>3 DEF Cut
<1>7. CASE WatchdogFires \/ WatchdogSet \/ DeadlinePasses \/ GracePasses \/ ConsumerMoves
            \/ UNCHANGED vars
  <2>1. UNCHANGED <<pc, result, Basis, proc>> /\ (wd # "unarmed" => wd' # "unarmed")
    BY <1>7 DEF WatchdogFires, WatchdogSet, DeadlinePasses, GracePasses, ConsumerMoves, vars
  <2> QED BY <2>1, <1>c
<1> QED
  BY <1>1, <1>2, <1>3, <1>4, <1>5, <1>6, <1>7, Zenon DEF Next, RelayStep, WatchdogStep

\* The inductive invariant holds throughout.
THEOREM Invariant == Spec => []IInv
<1>1. Init => IInv
  BY TypeInit, ResultInit, AccountingInit, DisciplineInit DEF IInv, Inv
<1>2. Inv /\ IInv /\ [Next]_vars /\ Inv' => IInv'
  BY WarnedNext, SentNext, ChildEndNext, EndedNext, PositionNext, ReportedNext DEF IInv
<1>3. TypeOK /\ EveryCharacterIsAccounted /\ KillDiscipline => Inv
  BY DEF Inv
<1>4. Spec => []Inv
  BY <1>3, TypeCorrect, Accounting, Discipline, PTL
<1> QED
  BY <1>1, <1>2, <1>4, PTL DEF Spec

-----------------------------------------------------------------------------
(* What follows from it.                                                   *)

\* The warning of the cap comes at most once, after the exact prefix, and only
\* when text was discarded.
THEOREM WarnedOnce == Spec => []WarningFollowsTheWholePrefix
<1>1. IInv => WarningFollowsTheWholePrefix
  BY DEF IInv, Inv, Warned, WarningFollowsTheWholePrefix, EveryCharacterIsAccounted,
         TypeOK, EmitterTypeOK
<1> QED
  BY <1>1, Invariant, PTL

\* A killed child takes its group along, but for a descendant that escaped.
THEOREM GroupKilled == Spec => []KillTakesTheGroup
<1>1. IInv => KillTakesTheGroup
  BY DEF IInv, ChildEnd, KillTakesTheGroup
<1> QED
  BY <1>1, Invariant, PTL

\* What is cut when both pipes were read to their end.
LEMMA CutIsExcess ==
  ASSUME TypeOK, EveryCharacterIsAccounted, held = 0, \A s \in Stream : buf[s] = 0
  PROVE  Cut = (written["out"] > Cap \/ written["err"] > Cap)
<1>1. /\ kept \in Nat /\ overage \in Nat /\ errKept \in Nat /\ errTotal \in Nat
  BY DEF TypeOK
<1>2. written["out"] = kept + overage /\ written["err"] = errTotal
  BY <1>1 DEF EveryCharacterIsAccounted, Stream
<1>3. (overage > 0) = (kept + overage > Cap)
  BY <1>1, RelayAssumption DEF EveryCharacterIsAccounted, Smaller
<1>4. (errTotal > errKept \/ errKept > Cap) = (errTotal > Cap)
  BY <1>1, RelayAssumption DEF EveryCharacterIsAccounted, Smaller
<1> QED
  BY <1>2, <1>3, <1>4 DEF Cut

\* A clean result was made from the whole output.
LEMMA CleanIsWhole ==
  ASSUME IInv, result.status \in {"ok", "exit_nonzero"}
  PROVE  /\ proc["child"] = "reaped"
         /\ \A s \in Stream : buf[s] = 0 /\ Closed(s)
         /\ result.exit = exitCode
         /\ result.status = (IF exitCode = "zero" THEN "ok" ELSE "exit_nonzero")
         /\ result.truncated = (written["out"] > Cap \/ written["err"] > Cap)
<1>1. \A s \in Stream : buf[s] = 0 /\ Closed(s)
  BY DEF IInv, Reported, Ended
<1>2. result.truncated = Cut /\ held = 0
  BY DEF IInv, Reported
<1>3. Cut = (written["out"] > Cap \/ written["err"] > Cap)
  BY <1>1, <1>2, CutIsExcess DEF IInv, Inv
<1> QED
  BY <1>1, <1>2, <1>3 DEF IInv, Reported

\* A result that is no timeout is a complete one, whoever raced whom.
THEOREM CleanComplete == Spec => []CleanResultIsComplete
<1>1. IInv => CleanResultIsComplete
  BY CleanIsWhole DEF CleanResultIsComplete
<1> QED
  BY <1>1, Invariant, PTL

-----------------------------------------------------------------------------
(* The consumer sees StreamProtocol.                                       *)

\* A stream that has not begun is one of the protocol.
LEMMA ProtocolInit == Init => Protocol!Init
BY DEF Init, EmitterInit, Protocol!Init

\* A write of the relay is an event of the protocol.
LEMMA ProtocolWrites ==
  ASSUME IInv, SendStart \/ FlushChunk \/ WarnCap \/ SendFinal
  PROVE  [Protocol!Next]_(Protocol!protocolVars)
<1>t. /\ kept \in 0..Cap /\ pending \in Nat /\ chars \in Nat /\ seq \in Nat
      /\ finalSent \in BOOLEAN /\ capWarned \in BOOLEAN
      /\ chars + pending = kept
  BY DEF IInv, Inv, TypeOK, EmitterTypeOK, EveryCharacterIsAccounted
<1>1. CASE SendStart
  <2>1. /\ seq = 0 /\ seq' = 1 /\ finalSent = FALSE /\ finalSent' = FALSE
        /\ chars' = chars /\ capWarned' = capWarned
    BY <1>t, <1>1 DEF SendStart, EmitStart, Line, textVars
  <2>2. ~capWarned
    <3>1. pc = "start"
      BY <1>1 DEF SendStart
    <3> QED BY <3>1 DEF IInv, Warned
  <2> QED BY <2>1, <2>2 DEF Protocol!Next, Protocol!Start
<1>2. CASE FlushChunk
  <2>1. /\ seq' = seq + 1 /\ finalSent = FALSE /\ finalSent' = FALSE
        /\ chars' = chars + ChunkSize /\ capWarned' = capWarned
    BY <1>t, <1>2 DEF FlushChunk, EmitChunk, Line
  <2>2. seq > 0
    BY <1>2 DEF FlushChunk, IInv, Sent
  <2>3. pending # 0
    <3>1. ChunkDue
      BY <1>2 DEF FlushChunk
    <3>2. pending >= MaxText \/ pending > 0
      BY <3>1 DEF ChunkDue
    <3> QED BY <1>t, <3>2, EmitterAssumption
  <2>4. ~capWarned
    BY <2>3 DEF IInv, Warned
  <2>5. ChunkSize \in 1..MaxText /\ chars + ChunkSize <= Cap
    BY <1>t, <2>3, EmitterAssumption, RelayAssumption DEF ChunkSize, Smaller
  <2>6. chars' <= Cap /\ seq # 0 /\ seq' # 0
    BY <1>t, <2>1, <2>2, <2>5
  <2> QED BY <2>1, <2>4, <2>5, <2>6 DEF Protocol!Next, Protocol!Chunk
<1>3. CASE WarnCap
  <2>1. /\ seq' = seq + 1 /\ finalSent = FALSE /\ finalSent' = FALSE
        /\ chars' = chars /\ capWarned' = TRUE
    BY <1>t, <1>3 DEF WarnCap, EmitWarning, Line
  <2>2. seq > 0 /\ ~capWarned /\ pending = 0 /\ kept = Cap
    BY <1>3 DEF WarnCap, IInv, Sent, Warned
  <2>3. chars = Cap /\ seq # 0 /\ seq' # 0
    BY <1>t, <2>1, <2>2
  <2> QED BY <2>1, <2>2, <2>3 DEF Protocol!Next, Protocol!Warning
<1>4. CASE SendFinal
  <2>1. /\ finalSent = FALSE /\ finalSent' = TRUE
        /\ chars' = chars /\ kept' = kept
    BY <1>t, <1>4 DEF SendFinal, EmitFinal, Line, textVars
  <2>2. pending = 0
    BY <1>4 DEF SendFinal, IInv, Sent
  <2>3. kept = chars
    BY <1>t, <2>2
  <2>4. (IF finalSent THEN "closed" ELSE IF seq = 0 THEN "silent"
         ELSE IF capWarned THEN "capped" ELSE "open") # "closed"
    BY <2>1
  <2> QED BY <2>1, <2>3, <2>4 DEF Protocol!Next, Protocol!Final
<1> QED BY <1>1, <1>2, <1>3, <1>4

\* No other step shows to the consumer.
LEMMA ProtocolStutters ==
  ASSUME IInv, [Next]_vars, ~(SendStart \/ FlushChunk \/ WarnCap \/ SendFinal)
  PROVE  UNCHANGED Protocol!protocolVars
<1>1. /\ UNCHANGED <<finalSent, seq, capWarned, chars>>
      /\ finalSent => kept' = kept
  <2>f. finalSent => pc = "done"
    BY DEF IInv, Sent
  <2> USE DEF emitterVars, textVars, outsideVars
  <2>1. CASE QuietStep /\ ~WriteRaises
    BY <2>1 DEF QuietStep, Refuse, SpawnChild, Setup, EncodeRaises, Poll, Select, ReadEof, FlushDone,
       PumpDone, WaitExit, WaitExpires, RelayKill, RelaySet, Finally, ReapChild, ReapExpires,
       GiveUpReap, Assemble, Unwind, WatchdogStep, WatchdogFires, WatchdogKill, WatchdogSet,
       DeadlinePasses, GracePasses, ConsumerMoves, ConsumerRead, ConsumerLeave, vars
  <2>2. CASE WriteRaises
    BY <2>2 DEF WriteRaises, EmitRaises
  <2>3. CASE ReadErr \/ ReadOut \/ DecodeTail \/ TreeMoves
    BY <2>f, <2>3 DEF ReadErr, ReadOut, DecodeTail, TreeMoves
  <2> QED BY <2>1, <2>2, <2>3, StepCases
<1> QED BY <1>1 DEF Protocol!protocolVars

\* The consumer sees the protocol of the stream, whatever the interleaving, the
\* sizes and the faults.
THEOREM Follows == Spec => FollowsProtocol
<1>1. IInv /\ [Next]_vars => [Protocol!Next]_(Protocol!protocolVars)
  BY ProtocolWrites, ProtocolStutters
<1> QED
  BY <1>1, ProtocolInit, Invariant, PTL DEF Spec, FollowsProtocol, Protocol!Spec

-----------------------------------------------------------------------------
(* The call implements Execution.                                          *)

\* What Execution calls call and excess, named so that they can be kept whole.
CallState == CASE pc = "gates" -> "ready"
               [] result.status # "none" -> "over"
               [] result.status = "none" /\ pc \in {"unwind", "crashed"} -> "broken"
               [] OTHER -> "running"

Excess == \E s \in Stream : written[s] > Cap

\* The cases of CallState do not overlap where the invariant holds.
LEMMA CallStateCases ==
  ASSUME Reported, pc \in Labels
  PROVE  /\ pc = "gates" => CallState = "ready"
         /\ result.status # "none" => CallState = "over"
         /\ pc # "gates" /\ result.status = "none" =>
              CallState = (IF pc \in {"unwind", "crashed"} THEN "broken" ELSE "running")
         /\ pc \notin {"gates", "final", "done", "unwind", "crashed"} => CallState = "running"
<1>1. NoResult.status = "none"
  BY DEF NoResult
<1> QED BY <1>1 DEF CallState, Reported

\* Nothing is promised yet.
LEMMA ContractInit == Init => Contract!Init
<1> SUFFICES ASSUME Init PROVE Contract!Init
  OBVIOUS
<1>1. /\ proc["child"] = "none" /\ exitCode = "none" /\ late = FALSE /\ pc = "gates"
      /\ result.status = "none" /\ result.truncated = FALSE
  BY DEF Init, TreeInit, Process, NoResult
<1>2. CallState = "ready"
  BY <1>1 DEF CallState
<1>3. Excess = FALSE
  BY RelayAssumption DEF Init, TreeInit, Excess
<1> QED
  BY <1>1, <1>2, <1>3 DEF Contract!Init, CallState, Excess

\* A step that leaves the tree's output, the clock and the result alone is a
\* stutter, unless it moves the call or the child.
LEMMA ContractStutter ==
  ASSUME CallState' = CallState,
         UNCHANGED <<proc, exitCode, late, written, result>>
  PROVE  UNCHANGED Contract!vars
BY DEF Contract!vars, CallState, Excess

\* The relay's own steps.
LEMMA ContractRelay ==
  IInv /\ IInv' /\ RelayStep => [Contract!Next]_(Contract!vars)
<1> SUFFICES ASSUME IInv, IInv', RelayStep PROVE [Contract!Next]_(Contract!vars)
  OBVIOUS
<1>t. /\ TreeTypeOK /\ pc \in Labels /\ pc' \in Labels /\ Reported /\ Reported'
      /\ (pc = "gates" => proc["child"] = "none")
      /\ NoResult.status = "none" /\ NoResult.truncated = FALSE
  BY DEF IInv, Inv, TypeOK, KillDiscipline, NoResult
<1>c. /\ pc \notin {"final", "done", "crashed"} => result = NoResult
      /\ pc' \notin {"final", "done", "crashed"} => result' = NoResult
  BY <1>t DEF Reported
<1>s. /\ pc = "gates" => CallState = "ready"
      /\ result.status # "none" => CallState = "over"
      /\ pc # "gates" /\ result.status = "none" =>
           CallState = (IF pc \in {"unwind", "crashed"} THEN "broken" ELSE "running")
      /\ pc \notin {"gates", "final", "done", "unwind", "crashed"} => CallState = "running"
      /\ pc' = "gates" => CallState' = "ready"
      /\ result'.status # "none" => CallState' = "over"
      /\ pc' # "gates" /\ result'.status = "none" =>
           CallState' = (IF pc' \in {"unwind", "crashed"} THEN "broken" ELSE "running")
      /\ pc' \notin {"gates", "final", "done", "unwind", "crashed"} => CallState' = "running"
  <2>1. /\ pc' = "gates" => CallState' = "ready"
        /\ result'.status # "none" => CallState' = "over"
        /\ pc' # "gates" /\ result'.status = "none" =>
             CallState' = (IF pc' \in {"unwind", "crashed"} THEN "broken" ELSE "running")
        /\ pc' \notin {"gates", "final", "done", "unwind", "crashed"} => CallState' = "running"
    BY <1>t DEF CallState, Reported
  <2> QED BY <1>t, <2>1, CallStateCases
<1> DEFINE Same == UNCHANGED <<proc, exitCode, late, written, result>>
           Busy == {"start", "setup", "pump", "select", "flush", "warn", "wait", "kill", "set",
                    "tail", "finally", "reap", "rekill", "status"}
<1> USE DEF outsideVars, treeVars, ioVars, pumpVars, clockVars
<1>1. CASE Refuse
  <2>1. /\ pc = "gates" /\ pc' = "final" /\ UNCHANGED <<proc, exitCode, late, written>>
        /\ result'.status \in {"denied", "spawn_error"} /\ result'.truncated = result.truncated
        /\ result.status = "none"
    BY <1>t, <1>c, <1>1 DEF Refuse, NoResult
  <2>2. CallState = "ready" /\ CallState' = "over"
    BY <1>s, <2>1
  <2> QED BY <2>1, <2>2 DEF Contract!Next, Contract!Refuse, CallState
<1>2. CASE SpawnChild
  <2>1. /\ pc = "gates" /\ pc' = "start" /\ UNCHANGED <<exitCode, late, written, result>>
        /\ proc' = [proc EXCEPT !["child"] = "running"]
    BY <1>2 DEF SpawnChild, Spawn
  <2>2. CallState = "ready" /\ CallState' = "running" /\ proc'["child"] = "running"
    BY <1>t, <1>s, <2>1 DEF TreeTypeOK, Process
  <2> QED BY <2>1, <2>2 DEF Contract!Next, Contract!Start, CallState
<1>3. CASE EncodeRaises
  <2>1. pc = "setup" /\ pc' = "crashed" /\ Same
    BY <1>3 DEF EncodeRaises
  <2>2. CallState = "running" /\ CallState' = "broken"
    BY <1>t, <1>c, <1>s, <2>1
  <2> QED BY <2>1, <2>2 DEF Contract!Next, Contract!Break, CallState
<1>4. CASE WriteRaises
  <2>1. /\ Same
        /\ \/ pc \in Busy /\ pc' \in {"unwind", "crashed"}
           \/ pc = "final" /\ pc' = "crashed"
    BY <1>4 DEF WriteRaises, Emitting
  <2>2. CASE result.status # "none"
    BY <1>s, <2>1, <2>2, ContractStutter
  <2>3. CASE result.status = "none"
    <3>1. CallState = "running" /\ CallState' = "broken"
      BY <1>s, <2>1, <2>3
    <3> QED BY <2>1, <3>1 DEF Contract!Next, Contract!Break, CallState
  <2> QED BY <2>2, <2>3
<1>5. CASE Unwind
  <2>1. pc = "unwind" /\ pc' = "crashed" /\ Same
    BY <1>5 DEF Unwind
  <2>2. CallState = "broken" /\ CallState' = "broken"
    BY <1>t, <1>c, <1>s, <2>1
  <2> QED BY <2>1, <2>2, ContractStutter
<1>6. CASE \/ SendStart \/ Setup \/ PumpStep \/ WaitExpires \/ RelaySet \/ DecodeTail
           \/ Finally \/ GiveUpReap
  <2>1. pc \in Busy /\ pc' \in Busy /\ Same
    <3>1. AfterFlush \in Busy
      BY DEF IInv, Inv, TypeOK, AfterFlush
    <3> QED
      BY <1>6, <3>1 DEF SendStart, Setup, PumpStep, Poll, Select, ReadEof, ReadErr, Take, ReadOut,
         FlushChunk, FlushDone, WarnCap, PumpDone, WaitExpires, RelaySet, DecodeTail,
         Finally, GiveUpReap
  <2>2. CallState' = CallState
    BY <1>s, <2>1
  <2> QED BY <2>1, <2>2, ContractStutter
<1>7. CASE WaitExit \/ ReapChild
  <2>1. /\ pc \in Busy /\ pc' \in Busy /\ UNCHANGED <<exitCode, late, written, result>>
        /\ proc' = proc \/ (proc["child"] = "dead" /\ proc'["child"] = "reaped")
    BY <1>t, <1>7 DEF WaitExit, ReapChild, Reap, TreeTypeOK, Process
  <2>2. CallState' = CallState /\ CallState = "running"
    BY <1>s, <2>1
  <2>3. CASE proc' = proc
    BY <2>1, <2>2, <2>3, ContractStutter
  <2>4. CASE proc["child"] = "dead" /\ proc'["child"] = "reaped"
    BY <2>1, <2>2, <2>4 DEF Contract!Next, Contract!Reap, CallState
  <2> QED BY <2>1, <2>3, <2>4
<1>8. CASE RelayKill \/ ReapExpires
  <2>1. /\ pc \in Busy /\ pc' \in Busy /\ UNCHANGED <<exitCode, late, written, result>>
        /\ proc'["child"] = (IF proc["child"] = "running" THEN "doomed" ELSE proc["child"])
    BY <1>t, <1>8 DEF RelayKill, ReapExpires, KillTree, InGroup, TreeTypeOK, Process
  <2>2. CallState' = CallState
    BY <1>s, <2>1
  <2>3. proc["child"] = "running" => late
    BY <1>8 DEF RelayKill, ReapExpires, IInv, Inv, KillDiscipline, PastPump
  <2> QED BY <2>1, <2>2, <2>3 DEF Contract!Next, Contract!Kill, Contract!vars, CallState
<1>9. CASE Assemble
  <2>1. /\ pc = "status" /\ pc' = "final" /\ UNCHANGED <<proc, exitCode, late, written>>
        /\ result' = [status |-> StatusOf, exit |-> ReturnCode, truncated |-> Cut]
    BY <1>9 DEF Assemble, Cut
  <2>2. result'.status = StatusOf /\ result'.truncated = Cut /\ Cut \in BOOLEAN
    BY <2>1 DEF Cut
  <2>3. StatusOf \in {"timeout", "ok", "exit_nonzero"} /\ (StatusOf = "timeout" => deadlineHit)
    BY DEF StatusOf
  <2>4. CallState = "running" /\ CallState' = "over"
    BY <1>s, <2>1, <2>2, <2>3
  <2>5. proc["child"] # "running" /\ (deadlineHit => late)
    BY <2>1 DEF IInv, Inv, KillDiscipline, PastPump
  <2>6. CASE StatusOf = "timeout"
    BY <2>1, <2>2, <2>3, <2>4, <2>5, <2>6 DEF Contract!Next, Contract!Finish, CallState
  <2>7. CASE StatusOf # "timeout"
    <3>1. ~deadlineHit /\ StatusOf = (IF ReturnCode = "zero" THEN "ok" ELSE "exit_nonzero")
      BY <2>7 DEF StatusOf
    <3>2. /\ proc["child"] = "reaped" /\ ReturnCode = exitCode
          /\ Cut = (written["out"] > Cap \/ written["err"] > Cap)
      <4>1. open = {} /\ proc["child"] = "reaped" /\ held = 0 /\ wd # "unarmed"
        BY <2>1, <3>1 DEF IInv, Position, PastPump, PastTail
      <4>2. \A s \in Stream : buf[s] = 0
        BY <4>1 DEF IInv, Ended
      <4> QED BY <4>1, <4>2, CutIsExcess DEF IInv, Inv, ReturnCode
    <3>3. Excess = (written["out"] > Cap \/ written["err"] > Cap)
      BY DEF Excess, Stream
    <3> QED
      BY <2>1, <2>2, <2>4, <3>1, <3>2, <3>3
      DEF Contract!Next, Contract!Finish, CallState, Excess
  <2> QED BY <2>6, <2>7
<1>10. CASE SendFinal
  <2>1. pc = "final" /\ pc' = "done" /\ Same
    BY <1>10 DEF SendFinal
  <2>2. CallState' = CallState
    BY <1>s, <2>1
  <2> QED BY <2>1, <2>2, ContractStutter
<1> QED
  BY <1>1, <1>2, <1>3, <1>4, <1>5, <1>6, <1>7, <1>8, <1>9, <1>10 DEF RelayStep

\* The steps of the watchdog, the clock, the processes and the consumer.
LEMMA ContractWorld ==
  IInv /\ [Next]_vars /\ ~RelayStep => [Contract!Next]_(Contract!vars)
<1> SUFFICES ASSUME IInv, [Next]_vars, ~RelayStep PROVE [Contract!Next]_(Contract!vars)
  OBVIOUS
<1>t. TreeTypeOK
  BY DEF IInv, Inv, TypeOK
<1> DEFINE Same == UNCHANGED <<pc, result>>
<1>s. Same => CallState' = CallState
  BY DEF CallState
<1> USE DEF outsideVars, treeVars, ioVars, clockVars
<1>1. CASE WatchdogFires \/ WatchdogSet \/ GracePasses \/ ConsumerMoves \/ UNCHANGED vars
  <2>1. Same /\ UNCHANGED <<proc, exitCode, late, written>>
    BY <1>1 DEF WatchdogFires, WatchdogSet, GracePasses, ConsumerMoves, vars
  <2> QED BY <1>s, <2>1, ContractStutter
<1>2. CASE WatchdogKill
  <2>1. /\ Same /\ UNCHANGED <<exitCode, late, written>>
        /\ proc'["child"] = IF proc["child"] = "running" THEN "doomed" ELSE proc["child"]
    BY <1>t, <1>2 DEF WatchdogKill, KillTree, InGroup, TreeTypeOK, Process
  <2>2. late
    BY <1>2 DEF WatchdogKill, IInv, Inv, KillDiscipline
  <2>3. CallState' = CallState
    BY <1>s, <2>1
  <2> QED BY <2>1, <2>2, <2>3 DEF Contract!Next, Contract!Kill, Contract!vars, CallState
<1>3. CASE DeadlinePasses
  <2>1. /\ Same /\ UNCHANGED <<proc, exitCode, written>>
        /\ proc["child"] # "none" /\ ~late /\ late' = TRUE
    BY <1>3 DEF DeadlinePasses
  <2>2. CallState' = CallState
    BY <1>s, <2>1
  <2> QED BY <2>1, <2>2 DEF Contract!Next, Contract!BudgetPasses, CallState
<1>4. CASE TreeMoves
  <2>0. Same /\ late' = late
    BY <1>4 DEF TreeMoves
  <2>s. CallState' = CallState
    BY <1>s, <2>0
  <2>1. CASE Fork
    BY <1>t, <2>0, <2>s, <2>1 DEF Fork, TreeTypeOK, Process, Contract!vars, CallState
  <2>2. ASSUME NEW p \in Process, Exit(p) PROVE [Contract!Next]_(Contract!vars)
    BY <1>t, <2>0, <2>s, <2>2
    DEF Exit, TreeTypeOK, Process, Contract!Next, Contract!ChildExits, Contract!vars, CallState
  <2>3. ASSUME NEW p \in Process, Die(p) PROVE [Contract!Next]_(Contract!vars)
    BY <1>t, <2>0, <2>s, <2>3
    DEF Die, TreeTypeOK, Process, Contract!Next, Contract!ChildDies, Contract!vars, CallState
  <2>4. ASSUME NEW p \in Process, NEW s \in Stream, Close(p, s)
        PROVE  [Contract!Next]_(Contract!vars)
    BY <2>0, <2>s, <2>4, ContractStutter DEF Close
  <2>5. ASSUME NEW p \in Process, NEW s \in Stream, Write(p, s)
        PROVE  [Contract!Next]_(Contract!vars)
    <3>1. proc["child"] # "none" /\ UNCHANGED <<proc, exitCode>>
      BY <2>5 DEF Write, IInv, ChildEnd, Process
    <3>2. result.status \notin {"ok", "exit_nonzero"}
      <4>1. ~Closed(s)
        BY <2>5 DEF Write, Closed
      <4> QED BY <4>1, CleanIsWhole
    <3>3. Excess => Excess'
      <4>1. \A t \in Stream : written[t] \in Nat /\ written'[t] \in {written[t], written[t] + 1}
        BY <1>t, <2>5 DEF Write, TreeTypeOK
      <4> QED BY <4>1, RelayAssumption DEF Excess
    <3> QED
      BY <2>0, <2>s, <3>1, <3>2, <3>3
      DEF Excess, Contract!Next, Contract!Exceed, Contract!Clean, Contract!vars, CallState
  <2> QED BY <1>4, <2>1, <2>2, <2>3, <2>4, <2>5 DEF TreeMoves, TreeStep
<1> QED
  BY <1>1, <1>2, <1>3, <1>4, Zenon DEF Next, WatchdogStep

\* The streaming call implements what an execution promises, as the buffered
\* one does: every behaviour of Spec, seen through the refinement mapping, is
\* one of Execution.
THEOREM Implements == Spec => ImplementsExecution
<1>1. IInv /\ IInv' /\ [Next]_vars => [Contract!Next]_(Contract!vars)
  BY ContractRelay, ContractWorld
<1> QED
  BY <1>1, ContractInit, Invariant, PTL DEF Spec, ImplementsExecution, Contract!Spec
=============================================================================
