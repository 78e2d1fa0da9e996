-------------------------- MODULE StreamRelayProofs -------------------------
(***************************************************************************)
(* What holds of StreamRelay for every value of its constants: type        *)
(* correctness, the accounting of the text, and the kill discipline.       *)
(***************************************************************************)
EXTENDS StreamRelay, ChildTreeProofs, Integers

USE EmitterAssumption, TreeAssumption, RelayAssumption

-----------------------------------------------------------------------------
(* Lemmas about the operators the relay is built from.                     *)

\* Smaller is the minimum.
LEMMA SmallerIsMinimum ==
  ASSUME NEW a \in Nat, NEW b \in Nat
  PROVE  /\ Smaller(a, b) \in Nat
         /\ Smaller(a, b) <= a
         /\ Smaller(a, b) <= b
         /\ Smaller(a, b) = a \/ Smaller(a, b) = b
BY DEF Smaller

\* Accepting n characters keeps at most Cap of them and counts the others.
LEMMA AcceptBounds ==
  ASSUME kept \in 0..Cap, overage \in Nat, pending \in Nat, NEW n \in Nat, Accept(n)
  PROVE  /\ kept' \in kept..Cap
         /\ overage' \in Nat
         /\ pending' = pending + (kept' - kept)
         /\ kept' + overage' = kept + overage + n
BY DEF Accept, Smaller

\* The emitter's calls keep its types.
LEMMA EmitterTypeStep ==
  ASSUME EmitterTypeOK,
         \/ EmitStart
         \/ \E n \in Nat : EmitChunk(n)
         \/ EmitWarning
         \/ EmitFinal
         \/ \E c \in {"start", "chunk", "warning", "final"} : EmitRaises(c)
         \/ ConsumerRead \/ ConsumerLeave
         \/ UNCHANGED <<emitterVars, consumerVars>>
  PROVE  EmitterTypeOK'
<1> USE DEF EmitterTypeOK, Line, emitterVars, consumerVars
<1>1. CASE EmitStart
  BY <1>1 DEF EmitStart
<1>2. ASSUME NEW n \in Nat, EmitChunk(n) PROVE EmitterTypeOK'
  BY <1>2 DEF EmitChunk
<1>3. CASE EmitWarning
  BY <1>3 DEF EmitWarning
<1>4. CASE EmitFinal
  BY <1>4 DEF EmitFinal
<1>5. ASSUME NEW c \in {"start", "chunk", "warning", "final"}, EmitRaises(c)
      PROVE  EmitterTypeOK'
  BY <1>5 DEF EmitRaises
<1>6. CASE ConsumerRead
  BY <1>6 DEF ConsumerRead
<1>7. CASE ConsumerLeave
  BY <1>7 DEF ConsumerLeave
<1>8. CASE UNCHANGED <<emitterVars, consumerVars>>
  BY <1>8
<1> QED BY <1>1, <1>2, <1>3, <1>4, <1>5, <1>6, <1>7, <1>8

\* A read takes what the pipe holds, at least one character if there is any.
LEMMA ReadSize ==
  ASSUME TreeTypeOK, NEW s \in Stream
  PROVE  /\ Smaller(buf[s], ReadChunk) \in 0..buf[s]
         /\ buf[s] > 0 => Smaller(buf[s], ReadChunk) > 0
BY DEF TreeTypeOK, Smaller

\* What one read of stdout does: it takes n characters from the pipe and
\* accepts them together with the one held before, less the one held now.
LEMMA ReadOutEffect ==
  ASSUME TypeOK, ReadOut
  PROVE  \E n \in 1..buf["out"], h \in 0..1 :
           /\ Take("out", n)
           /\ held' = h
           /\ held + n - h \in Nat
           /\ Accept(held + n - h)
           /\ goal' \in {"warn", "none"}
<1> DEFINE n == Smaller(buf["out"], ReadChunk)
<1>1. n \in 1..buf["out"]
  BY ReadSize DEF ReadOut, TypeOK, TreeTypeOK, Stream
<1>2. PICK h \in 0..1 : /\ Take("out", n)
                        /\ held' = h
                        /\ Accept(held + n - h)
                        /\ goal' \in {"warn", "none"}
  BY Zenon DEF ReadOut
<1>3. held + n - h \in Nat
  BY <1>1 DEF TypeOK, TreeTypeOK, Stream
<1> QED BY <1>1, <1>2, <1>3

-----------------------------------------------------------------------------
(* Type correctness.                                                       *)

\* The initial state is well typed.
LEMMA TypeInit == Init => TypeOK
<1> SUFFICES ASSUME Init PROVE TypeOK
  OBVIOUS
<1>1. /\ started \in BOOLEAN /\ finalSent \in BOOLEAN /\ gone \in BOOLEAN
      /\ escaped \in BOOLEAN /\ capWarned \in BOOLEAN /\ deadlineHit \in BOOLEAN
      /\ late \in BOOLEAN /\ graceOver \in BOOLEAN
  BY Zenon DEF Init, EmitterInit, TreeInit
<1>2. EmitterTypeOK
  BY <1>1 DEF Init, EmitterInit, EmitterTypeOK
<1>3. TreeTypeOK
  BY <1>1 DEF Init, TreeInit, TreeTypeOK, ProcState, ExitCode
<1>4. result \in [status : Status, exit : ExitCode, truncated : BOOLEAN]
  BY DEF Init, NoResult, Status, ExitCode
<1> QED
  BY <1>1, <1>2, <1>3, <1>4 DEF Init, TypeOK, Labels

\* Every step keeps the types.
LEMMA TypeNext == TypeOK /\ [Next]_vars => TypeOK'
<1> SUFFICES ASSUME TypeOK, [Next]_vars PROVE TypeOK'
  OBVIOUS
<1>e. EmitterTypeOK /\ TreeTypeOK
  BY DEF TypeOK
<1> USE DEF TypeOK, Labels, outsideVars, pumpVars, textVars, errVars, clockVars
<1>1. CASE Refuse
  <2>1. EmitterTypeOK'
    BY <1>1, <1>e, EmitterTypeStep DEF Refuse
  <2>2. TreeTypeOK'
    BY <1>1, <1>e, TreeTypeCall DEF Refuse
  <2>3. result' \in [status : Status, exit : ExitCode, truncated : BOOLEAN]
    BY <1>1 DEF Refuse, NoResult, Status, ExitCode
  <2> QED BY <1>1, <2>1, <2>2, <2>3 DEF Refuse
<1>2. CASE SpawnChild
  <2>1. EmitterTypeOK'
    BY <1>2, <1>e, EmitterTypeStep DEF SpawnChild
  <2>2. TreeTypeOK'
    BY <1>2, <1>e, TreeTypeCall DEF SpawnChild
  <2> QED BY <1>2, <2>1, <2>2 DEF SpawnChild
<1>3. CASE SendStart
  <2>1. EmitterTypeOK'
    BY <1>3, <1>e, EmitterTypeStep DEF SendStart
  <2>2. TreeTypeOK'
    BY <1>3, <1>e, TreeTypeCall DEF SendStart
  <2> QED BY <1>3, <2>1, <2>2 DEF SendStart
<1>4. CASE Setup
  <2>1. EmitterTypeOK'
    BY <1>4, <1>e, EmitterTypeStep DEF Setup
  <2>2. TreeTypeOK'
    BY <1>4, <1>e, TreeTypeCall DEF Setup
  <2> QED BY <1>4, <2>1, <2>2 DEF Setup, Stream
<1>5. CASE EncodeRaises
  <2>1. EmitterTypeOK'
    BY <1>5, <1>e, EmitterTypeStep DEF EncodeRaises
  <2>2. TreeTypeOK'
    BY <1>5, <1>e, TreeTypeCall DEF EncodeRaises
  <2> QED BY <1>5, <2>1, <2>2 DEF EncodeRaises
<1>6. CASE Poll
  <2>1. EmitterTypeOK'
    BY <1>6, <1>e, EmitterTypeStep DEF Poll
  <2>2. TreeTypeOK'
    BY <1>6, <1>e, TreeTypeCall DEF Poll
  <2> QED BY <1>6, <2>1, <2>2 DEF Poll
<1>7. CASE Select
  <2>1. EmitterTypeOK'
    BY <1>7, <1>e, EmitterTypeStep DEF Select
  <2>2. TreeTypeOK'
    BY <1>7, <1>e, TreeTypeCall DEF Select
  <2> QED BY <1>7, <2>1, <2>2 DEF Select
<1>8. ASSUME NEW s \in Stream, ReadEof(s) PROVE TypeOK'
  <2>1. EmitterTypeOK'
    BY <1>8, <1>e, EmitterTypeStep DEF ReadEof
  <2>2. TreeTypeOK'
    BY <1>8, <1>e, TreeTypeCall DEF ReadEof
  <2> QED BY <1>8, <2>1, <2>2 DEF ReadEof
<1>9. CASE ReadErr
  <2>1. EmitterTypeOK'
    BY <1>9, <1>e, EmitterTypeStep DEF ReadErr, Stream
  <2>2. TreeTypeOK'
    BY <1>9, <1>e, TreeTypeCall, ReadSize DEF ReadErr, Stream
  <2>3. errTotal' \in Nat /\ errKept' \in 0..ErrCap
    BY <1>9, SmallerIsMinimum DEF ReadErr, Take, TreeTypeOK, Stream, Smaller
  <2> QED BY <1>9, <2>1, <2>2, <2>3 DEF ReadErr, Stream
<1>10. CASE ReadOut
  <2>1. EmitterTypeOK'
    BY <1>10, <1>e, EmitterTypeStep DEF ReadOut, Stream
  <2>2. TreeTypeOK'
    BY <1>10, <1>e, TreeTypeCall, ReadSize DEF ReadOut, Stream
  <2>3. /\ kept' \in 0..Cap /\ overage' \in Nat /\ pending' \in Nat
        /\ held' \in 0..1 /\ goal' \in {"none", "warn", "tail"}
    <3>1. PICK k \in Nat, h \in 0..1 : held' = h /\ Accept(k) /\ goal' \in {"warn", "none"}
      BY <1>10, ReadOutEffect
    <3> QED BY <3>1, AcceptBounds
  <2> QED BY <1>10, <2>1, <2>2, <2>3 DEF ReadOut, Stream
<1>11. CASE FlushChunk
  <2>1. EmitterTypeOK'
    BY <1>11, <1>e, EmitterTypeStep DEF FlushChunk, ChunkSize, ChunkDue, Smaller
  <2>2. TreeTypeOK'
    BY <1>11, <1>e, TreeTypeCall DEF FlushChunk, ChunkSize, ChunkDue, Smaller
  <2> QED BY <1>11, <2>1, <2>2 DEF FlushChunk, ChunkSize, ChunkDue, Smaller
<1>12. CASE FlushDone
  <2>1. EmitterTypeOK'
    BY <1>12, <1>e, EmitterTypeStep DEF FlushDone, AfterFlush
  <2>2. TreeTypeOK'
    BY <1>12, <1>e, TreeTypeCall DEF FlushDone, AfterFlush
  <2> QED BY <1>12, <2>1, <2>2 DEF FlushDone, AfterFlush
<1>13. CASE WarnCap
  <2>1. EmitterTypeOK'
    BY <1>13, <1>e, EmitterTypeStep DEF WarnCap
  <2>2. TreeTypeOK'
    BY <1>13, <1>e, TreeTypeCall DEF WarnCap
  <2> QED BY <1>13, <2>1, <2>2 DEF WarnCap
<1>14. CASE PumpDone
  <2>1. EmitterTypeOK'
    BY <1>14, <1>e, EmitterTypeStep DEF PumpDone
  <2>2. TreeTypeOK'
    BY <1>14, <1>e, TreeTypeCall DEF PumpDone
  <2> QED BY <1>14, <2>1, <2>2 DEF PumpDone
<1>15. CASE WaitExit
  <2>1. EmitterTypeOK'
    BY <1>15, <1>e, EmitterTypeStep DEF WaitExit
  <2>2. TreeTypeOK'
    BY <1>15, <1>e, TreeTypeCall DEF WaitExit
  <2> QED BY <1>15, <2>1, <2>2 DEF WaitExit
<1>16. CASE WaitExpires
  <2>1. EmitterTypeOK'
    BY <1>16, <1>e, EmitterTypeStep DEF WaitExpires
  <2>2. TreeTypeOK'
    BY <1>16, <1>e, TreeTypeCall DEF WaitExpires
  <2> QED BY <1>16, <2>1, <2>2 DEF WaitExpires
<1>17. CASE RelayKill
  <2>1. EmitterTypeOK'
    BY <1>17, <1>e, EmitterTypeStep DEF RelayKill
  <2>2. TreeTypeOK'
    BY <1>17, <1>e, TreeTypeCall DEF RelayKill
  <2> QED BY <1>17, <2>1, <2>2 DEF RelayKill
<1>18. CASE RelaySet
  <2>1. EmitterTypeOK'
    BY <1>18, <1>e, EmitterTypeStep DEF RelaySet
  <2>2. TreeTypeOK'
    BY <1>18, <1>e, TreeTypeCall DEF RelaySet
  <2> QED BY <1>18, <2>1, <2>2 DEF RelaySet
<1>19. CASE DecodeTail
  <2>1. EmitterTypeOK'
    BY <1>19, <1>e, EmitterTypeStep DEF DecodeTail
  <2>2. TreeTypeOK'
    BY <1>19, <1>e, TreeTypeCall DEF DecodeTail
  <2>3. kept' \in 0..Cap /\ overage' \in Nat /\ pending' \in Nat
    BY <1>19 DEF DecodeTail, Accept, Smaller
  <2> QED BY <1>19, <2>1, <2>2, <2>3 DEF DecodeTail
<1>20. CASE Finally
  <2>1. EmitterTypeOK'
    BY <1>20, <1>e, EmitterTypeStep DEF Finally, CancelWatchdog
  <2>2. TreeTypeOK'
    BY <1>20, <1>e, TreeTypeCall DEF Finally, CancelWatchdog
  <2> QED BY <1>20, <2>1, <2>2 DEF Finally, CancelWatchdog
<1>21. CASE ReapChild
  <2>1. EmitterTypeOK'
    BY <1>21, <1>e, EmitterTypeStep DEF ReapChild
  <2>2. TreeTypeOK'
    BY <1>21, <1>e, TreeTypeCall DEF ReapChild
  <2> QED BY <1>21, <2>1, <2>2 DEF ReapChild
<1>22. CASE ReapExpires
  <2>1. EmitterTypeOK'
    BY <1>22, <1>e, EmitterTypeStep DEF ReapExpires
  <2>2. TreeTypeOK'
    BY <1>22, <1>e, TreeTypeCall DEF ReapExpires
  <2> QED BY <1>22, <2>1, <2>2 DEF ReapExpires
<1>23. CASE GiveUpReap
  <2>1. EmitterTypeOK'
    BY <1>23, <1>e, EmitterTypeStep DEF GiveUpReap
  <2>2. TreeTypeOK'
    BY <1>23, <1>e, TreeTypeCall DEF GiveUpReap
  <2> QED BY <1>23, <2>1, <2>2 DEF GiveUpReap
<1>24. CASE Assemble
  <2>1. EmitterTypeOK'
    BY <1>24, <1>e, EmitterTypeStep DEF Assemble
  <2>2. TreeTypeOK'
    BY <1>24, <1>e, TreeTypeCall DEF Assemble
  <2>3. result' \in [status : Status, exit : ExitCode, truncated : BOOLEAN]
    BY <1>24, <1>e DEF Assemble, StatusOf, ReturnCode, Status, ExitCode, TreeTypeOK
  <2> QED BY <1>24, <2>1, <2>2, <2>3 DEF Assemble
<1>25. CASE SendFinal
  <2>1. EmitterTypeOK'
    BY <1>25, <1>e, EmitterTypeStep DEF SendFinal
  <2>2. TreeTypeOK'
    BY <1>25, <1>e, TreeTypeCall DEF SendFinal
  <2> QED BY <1>25, <2>1, <2>2 DEF SendFinal
<1>26. CASE WriteRaises
  <2>1. EmitterTypeOK'
    BY <1>26, <1>e, EmitterTypeStep DEF WriteRaises, Emitting
  <2>2. TreeTypeOK'
    BY <1>26, <1>e, TreeTypeCall DEF WriteRaises, Emitting
  <2> QED BY <1>26, <2>1, <2>2 DEF WriteRaises, Emitting
<1>27. CASE Unwind
  <2>1. EmitterTypeOK'
    BY <1>27, <1>e, EmitterTypeStep DEF Unwind, CancelWatchdog
  <2>2. TreeTypeOK'
    BY <1>27, <1>e, TreeTypeCall DEF Unwind, CancelWatchdog
  <2> QED BY <1>27, <2>1, <2>2 DEF Unwind, CancelWatchdog
<1>28. CASE WatchdogFires
  <2>1. EmitterTypeOK'
    BY <1>28, <1>e, EmitterTypeStep DEF WatchdogFires
  <2>2. TreeTypeOK'
    BY <1>28, <1>e, TreeTypeCall DEF WatchdogFires
  <2> QED BY <1>28, <2>1, <2>2 DEF WatchdogFires
<1>29. CASE WatchdogKill
  <2>1. EmitterTypeOK'
    BY <1>29, <1>e, EmitterTypeStep DEF WatchdogKill
  <2>2. TreeTypeOK'
    BY <1>29, <1>e, TreeTypeCall DEF WatchdogKill
  <2> QED BY <1>29, <2>1, <2>2 DEF WatchdogKill
<1>30. CASE WatchdogSet
  <2>1. EmitterTypeOK'
    BY <1>30, <1>e, EmitterTypeStep DEF WatchdogSet
  <2>2. TreeTypeOK'
    BY <1>30, <1>e, TreeTypeCall DEF WatchdogSet
  <2> QED BY <1>30, <2>1, <2>2 DEF WatchdogSet
<1>31. CASE DeadlinePasses
  <2>1. EmitterTypeOK'
    BY <1>31, <1>e, EmitterTypeStep DEF DeadlinePasses
  <2>2. TreeTypeOK'
    BY <1>31, <1>e, TreeTypeCall DEF DeadlinePasses
  <2> QED BY <1>31, <2>1, <2>2 DEF DeadlinePasses
<1>32. CASE GracePasses
  <2>1. EmitterTypeOK'
    BY <1>32, <1>e, EmitterTypeStep DEF GracePasses
  <2>2. TreeTypeOK'
    BY <1>32, <1>e, TreeTypeCall DEF GracePasses
  <2> QED BY <1>32, <2>1, <2>2 DEF GracePasses
<1>33. CASE TreeMoves
  <2>1. EmitterTypeOK'
    BY <1>33, <1>e, EmitterTypeStep DEF TreeMoves
  <2>2. TreeTypeOK'
    BY <1>33, <1>e, TreeTypeStep DEF TreeMoves
  <2> QED BY <1>33, <2>1, <2>2 DEF TreeMoves
<1>34. CASE ConsumerMoves
  <2>1. EmitterTypeOK'
    BY <1>34, <1>e, EmitterTypeStep DEF ConsumerMoves
  <2>2. TreeTypeOK'
    BY <1>34, <1>e, TreeTypeCall DEF ConsumerMoves
  <2> QED BY <1>34, <2>1, <2>2 DEF ConsumerMoves
<1>35. CASE UNCHANGED vars
  <2>1. EmitterTypeOK'
    BY <1>35, <1>e, EmitterTypeStep DEF vars
  <2>2. TreeTypeOK'
    BY <1>35, <1>e, TreeTypeCall DEF vars
  <2> QED BY <1>35, <2>1, <2>2 DEF vars
<1> QED
  BY <1>1, <1>2, <1>3, <1>4, <1>5, <1>6, <1>7, <1>8, <1>9, <1>10, <1>11, <1>12, <1>13,
     <1>14, <1>15, <1>16, <1>17, <1>18, <1>19, <1>20, <1>21, <1>22, <1>23, <1>24, <1>25,
     <1>26, <1>27, <1>28, <1>29, <1>30, <1>31, <1>32, <1>33, <1>34, <1>35
     DEF Next, RelayStep, PumpStep, WatchdogStep

\* Every reachable state is well typed.
THEOREM TypeCorrect == Spec => []TypeOK
<1>1. Init => TypeOK
  BY TypeInit
<1>2. TypeOK /\ [Next]_vars => TypeOK'
  BY TypeNext
<1> QED
  BY <1>1, <1>2, PTL DEF Spec

-----------------------------------------------------------------------------
(* Accounting: with the types, EveryCharacterIsAccounted is inductive.     *)

accountVars == <<chars, kept, overage, pending, held, errKept, errTotal, buf, written>>

\* Every step that neither reads, writes, decodes nor emits text.
QuietStep ==
  \/ Refuse \/ SpawnChild \/ SendStart \/ Setup \/ EncodeRaises
  \/ Poll \/ Select \/ (\E s \in Stream : ReadEof(s)) \/ FlushDone \/ WarnCap \/ PumpDone
  \/ WaitExit \/ WaitExpires \/ RelayKill \/ RelaySet \/ Finally
  \/ ReapChild \/ ReapExpires \/ GiveUpReap \/ Assemble \/ SendFinal
  \/ WriteRaises \/ Unwind \/ WatchdogStep \/ DeadlinePasses \/ GracePasses
  \/ ConsumerMoves \/ UNCHANGED vars

\* Such a step leaves the text where it is.
LEMMA QuietUnchanged == QuietStep => UNCHANGED accountVars
<1> USE DEF accountVars, textVars, errVars, ioVars, treeVars, outsideVars, emitterVars
<1>1. Refuse \/ SpawnChild \/ SendStart \/ Setup \/ EncodeRaises => UNCHANGED accountVars
  BY DEF Refuse, SpawnChild, Spawn, SendStart, EmitStart, Setup, EncodeRaises
<1>2. Poll \/ Select \/ (\E s \in Stream : ReadEof(s)) \/ FlushDone \/ WarnCap \/ PumpDone
        => UNCHANGED accountVars
  BY DEF Poll, Select, ReadEof, FlushDone, WarnCap, EmitWarning, PumpDone
<1>3. WaitExit \/ WaitExpires \/ RelayKill \/ RelaySet \/ Finally => UNCHANGED accountVars
  BY DEF WaitExit, Reap, WaitExpires, RelayKill, KillTree, RelaySet, Finally
<1>4. ReapChild \/ ReapExpires \/ GiveUpReap \/ Assemble \/ SendFinal
        => UNCHANGED accountVars
  BY DEF ReapChild, Reap, ReapExpires, KillTree, GiveUpReap, Assemble, SendFinal, EmitFinal
<1>5. WriteRaises \/ Unwind \/ WatchdogStep => UNCHANGED accountVars
  BY DEF WriteRaises, EmitRaises, Unwind, WatchdogStep, WatchdogFires, WatchdogKill,
         KillTree, WatchdogSet
<1>6. DeadlinePasses \/ GracePasses \/ ConsumerMoves \/ UNCHANGED vars
        => UNCHANGED accountVars
  BY DEF DeadlinePasses, GracePasses, ConsumerMoves, ConsumerRead, ConsumerLeave, vars
<1> QED BY <1>1, <1>2, <1>3, <1>4, <1>5, <1>6 DEF QuietStep

\* Every step is quiet or one of five.
LEMMA StepCases ==
  [Next]_vars =>
    QuietStep \/ ReadErr \/ ReadOut \/ FlushChunk \/ DecodeTail \/ TreeMoves
BY Zenon DEF Next, RelayStep, PumpStep, QuietStep

\* Accepting n characters keeps the prefix maximal.
LEMMA AcceptKeepsPrefix ==
  ASSUME kept \in 0..Cap, overage \in Nat, pending \in Nat, chars \in Nat,
         chars + pending = kept, kept = Smaller(Cap, kept + overage),
         NEW n \in Nat, Accept(n), chars' = chars
  PROVE  /\ chars' + pending' = kept'
         /\ kept' = Smaller(Cap, kept' + overage')
         /\ kept' + overage' = kept + overage + n
BY DEF Accept, Smaller

\* n characters leave the pipe, h are held instead of x, the others counted.
LEMMA ReadConserves ==
  ASSUME NEW d \in Int, NEW d1 \in Int, NEW x \in Int, NEW b \in Int, NEW w,
         NEW n \in Int, NEW h \in Int, d + x + b = w, d1 = d + (x + n - h)
  PROVE  d1 + h + (b - n) = w
OBVIOUS

\* Every step keeps the accounting.
LEMMA AccountingNext ==
  TypeOK /\ EveryCharacterIsAccounted /\ [Next]_vars => EveryCharacterIsAccounted'
<1> SUFFICES ASSUME TypeOK, EveryCharacterIsAccounted, [Next]_vars
             PROVE  EveryCharacterIsAccounted'
  OBVIOUS
<1>t. /\ kept \in 0..Cap /\ overage \in Nat /\ pending \in Nat /\ chars \in Nat
      /\ held \in 0..1 /\ errTotal \in Nat /\ errKept \in 0..ErrCap
      /\ buf \in [Stream -> 0..PipeCap] /\ written \in [Stream -> Nat]
  BY DEF TypeOK, EmitterTypeOK, TreeTypeOK
<1>a. /\ chars + pending = kept
      /\ kept = Smaller(Cap, kept + overage)
      /\ kept + overage + held + buf["out"] = written["out"]
      /\ errTotal + buf["err"] = written["err"]
      /\ errKept = Smaller(ErrCap, errTotal)
  BY DEF EveryCharacterIsAccounted
<1>1. CASE QuietStep
  BY <1>1, <1>a, QuietUnchanged DEF EveryCharacterIsAccounted, accountVars
<1>2. CASE ReadErr
  <2> DEFINE n == Smaller(buf["err"], ReadChunk)
  <2>1. /\ buf' = [buf EXCEPT !["err"] = @ - n]
        /\ errTotal' = errTotal + n
        /\ errKept' = Smaller(ErrCap, errKept + n)
        /\ UNCHANGED <<chars, kept, overage, pending, held, written>>
    BY <1>2 DEF ReadErr, Take, emitterVars, textVars
  <2>2. n \in 0..buf["err"]
    BY ReadSize DEF TypeOK, Stream
  <2> HIDE DEF n
  <2>3. errTotal' + buf'["err"] = written'["err"] /\ buf'["out"] = buf["out"]
    BY <1>t, <1>a, <2>1, <2>2 DEF Stream
  <2>4. errKept' = Smaller(ErrCap, errTotal')
    BY <1>t, <1>a, <2>1, <2>2 DEF Smaller
  <2> QED BY <1>a, <2>1, <2>3, <2>4 DEF EveryCharacterIsAccounted
<1>3. CASE ReadOut
  <2>1. PICK n \in 1..buf["out"], h \in 0..1 :
          /\ Take("out", n)
          /\ held' = h
          /\ held + n - h \in Nat
          /\ Accept(held + n - h)
    BY <1>3, ReadOutEffect
  <2>2. UNCHANGED <<chars, errKept, errTotal, written>>
    BY <1>3, <2>1 DEF ReadOut, Take, emitterVars, errVars
  <2>3. /\ chars' + pending' = kept'
        /\ kept' = Smaller(Cap, kept' + overage')
        /\ kept' + overage' = kept + overage + (held + n - h)
    BY <1>t, <1>a, <2>1, <2>2, AcceptKeepsPrefix
  <2>4. buf'["out"] = buf["out"] - n /\ buf'["err"] = buf["err"]
    BY <1>t, <2>1 DEF Take, Stream
  <2>5. kept' \in 0..Cap /\ overage' \in Nat
    BY <1>t, <2>1, AcceptBounds
  <2>6. kept' + overage' + held' + buf'["out"] = written'["out"]
    <3> DEFINE d == kept + overage
               d1 == kept' + overage'
    <3>1. /\ d1 = d + (held + n - h) /\ d + held + buf["out"] = written["out"]
          /\ held' = h /\ buf'["out"] = buf["out"] - n
          /\ written'["out"] = written["out"]
      BY <1>a, <2>1, <2>2, <2>3, <2>4
    <3>2. d \in Int /\ d1 \in Int /\ held \in Int /\ buf["out"] \in Int
      BY <1>t, <2>5 DEF Stream
    <3>3. n \in Int /\ h \in Int
      BY <1>t DEF Stream
    <3> HIDE DEF d, d1
    <3>4. d1 + h + (buf["out"] - n) = written["out"]
      BY <3>1, <3>2, <3>3, ReadConserves
    <3>5. d1 + held' + buf'["out"] = written'["out"]
      BY <3>1, <3>4
    <3> QED BY <3>5 DEF d1
  <2> QED BY <1>a, <2>2, <2>3, <2>4, <2>6 DEF EveryCharacterIsAccounted
<1>4. CASE FlushChunk
  <2>1. /\ chars' = chars + ChunkSize
        /\ pending' = pending - ChunkSize
        /\ UNCHANGED <<kept, overage, held, errKept, errTotal, buf, written>>
    BY <1>4 DEF FlushChunk, EmitChunk, outsideVars, treeVars, ioVars, errVars
  <2>2. ChunkSize \in Nat
    BY <1>t DEF ChunkSize, Smaller
  <2>3. chars' + pending' = kept'
    BY <1>t, <1>a, <2>1, <2>2
  <2> QED BY <1>a, <2>1, <2>3 DEF EveryCharacterIsAccounted
<1>5. CASE DecodeTail
  <2>1. /\ Accept(held) /\ held' = 0
        /\ UNCHANGED <<chars, errKept, errTotal, buf, written>>
    BY <1>5 DEF DecodeTail, outsideVars, treeVars, ioVars, errVars, emitterVars
  <2>2. /\ chars' + pending' = kept'
        /\ kept' = Smaller(Cap, kept' + overage')
        /\ kept' + overage' = kept + overage + held
    BY <1>t, <1>a, <2>1, AcceptKeepsPrefix
  <2>3. kept' \in 0..Cap /\ overage' \in Nat
    BY <1>t, <2>1, AcceptBounds
  <2>4. kept' + overage' + held' + buf'["out"] = written'["out"]
    <3>1. /\ kept' + overage' = kept + overage + held
          /\ held' = 0 /\ buf' = buf /\ written' = written
          /\ kept + overage + held + buf["out"] = written["out"]
      BY <1>a, <2>1, <2>2
    <3>2. /\ kept' \in Int /\ overage' \in Int
      BY <1>t, <2>3
    <3> QED BY <3>1, <3>2
  <2> QED BY <1>a, <2>1, <2>2, <2>4 DEF EveryCharacterIsAccounted
<1>6. CASE TreeMoves
  <2>1. UNCHANGED <<chars, kept, overage, pending, held, errKept, errTotal>>
    BY <1>6 DEF TreeMoves, emitterVars, textVars, errVars
  <2>2. \A s \in Stream : buf'[s] - buf[s] = written'[s] - written[s]
    <3>1. ASSUME NEW p \in Process, NEW q \in Stream, Write(p, q)
          PROVE  \A s \in Stream : buf'[s] - buf[s] = written'[s] - written[s]
      BY <1>t, <3>1 DEF Write
    <3>2. CASE UNCHANGED ioVars
      BY <1>t, <3>2 DEF ioVars
    <3> QED BY <1>6, <3>1, <3>2 DEF TreeMoves, TreeStep, Fork, Exit, Die, Close
  <2>3. buf' \in [Stream -> 0..PipeCap] /\ written' \in [Stream -> Nat]
    BY <1>6, TreeTypeStep DEF TypeOK, TreeMoves, TreeTypeOK
  <2>4. /\ kept + overage + held + buf'["out"] = written'["out"]
        /\ errTotal + buf'["err"] = written'["err"]
    BY <1>t, <1>a, <2>2, <2>3 DEF Stream
  <2> QED BY <1>a, <2>1, <2>4 DEF EveryCharacterIsAccounted
<1> QED BY <1>1, <1>2, <1>3, <1>4, <1>5, <1>6, StepCases

\* It holds before anything was read.
LEMMA AccountingInit == Init => EveryCharacterIsAccounted
BY DEF Init, EmitterInit, TreeInit, EveryCharacterIsAccounted, Smaller, Stream

\* Every character is accounted for, whatever the caps, the sizes of the
\* chunks and of the pipes, and whoever stalls, leaves or is killed.
THEOREM Accounting == Spec => []EveryCharacterIsAccounted
<1>1. Init => EveryCharacterIsAccounted
  BY AccountingInit
<1>2. TypeOK /\ EveryCharacterIsAccounted /\ [Next]_vars => EveryCharacterIsAccounted'
  BY AccountingNext
<1> QED
  BY <1>1, <1>2, TypeCorrect, PTL DEF Spec

-----------------------------------------------------------------------------
(* The kill discipline: KillDiscipline is inductive with the types.        *)

\* By themselves the processes neither signal one another nor bring the child
\* back.
LEMMA TreeStepChild ==
  ASSUME TreeTypeOK, TreeStep
  PROVE  /\ proc["child"] # "running" => proc'["child"] # "running"
         /\ proc["child"] = "reaped" => proc'["child"] = "reaped"
         /\ proc["child"] = "none" => proc'["child"] = "none"
         /\ \A p \in Process : ~(proc[p] = "running" /\ proc'[p] = "doomed")
<1> USE DEF TreeTypeOK, Process
<1>1. CASE Fork
  BY <1>1 DEF Fork
<1>2. ASSUME NEW p \in Process, Exit(p) PROVE proc' = [proc EXCEPT ![p] = "dead"] /\ proc[p] = "running"
  BY <1>2 DEF Exit
<1>3. ASSUME NEW p \in Process, Die(p) PROVE proc' = [proc EXCEPT ![p] = "dead"] /\ proc[p] = "doomed"
  BY <1>3 DEF Die
<1>4. ASSUME NEW p \in Process, NEW s \in Stream, Write(p, s) \/ Close(p, s)
      PROVE  proc' = proc
  BY <1>4 DEF Write, Close
<1> QED BY <1>1, <1>2, <1>3, <1>4 DEF TreeStep

\* After _kill_tree the child does not run; a reaped child's tree is left alone.
LEMMA KillTreeChild ==
  ASSUME TreeTypeOK, KillTree
  PROVE  /\ proc'["child"] # "running"
         /\ proc["child"] = "reaped" => proc' = proc
         /\ proc["child"] = "none" => proc'["child"] = "none"
BY DEF TreeTypeOK, KillTree, InGroup, Process

SignalsOnlyLate == \A p \in Process : proc[p] = "running" /\ proc'[p] = "doomed" => late

\* Every step keeps the discipline, and signals nothing before the deadline.
LEMMA KillDisciplineNext ==
  TypeOK /\ KillDiscipline /\ [Next]_vars => KillDiscipline' /\ SignalsOnlyLate
<1> SUFFICES ASSUME TypeOK, KillDiscipline, [Next]_vars
             PROVE  KillDiscipline' /\ SignalsOnlyLate
  OBVIOUS
<1>t. /\ TreeTypeOK /\ phase \in {"budget", "grace"} /\ goal \in {"none", "warn", "tail"}
      /\ deadlineHit \in BOOLEAN /\ late \in BOOLEAN
  BY DEF TypeOK
<1> USE DEF KillDiscipline, SignalsOnlyLate, PastPump, Returned, outsideVars, treeVars,
            pumpVars, clockVars
<1>1. CASE Refuse
  BY <1>1, <1>t DEF Refuse
<1>2. CASE SpawnChild
  BY <1>2, <1>t DEF SpawnChild, Spawn, TreeTypeOK, Process
<1>3. CASE SendStart
  BY <1>3, <1>t DEF SendStart
<1>4. CASE Setup
  BY <1>4, <1>t DEF Setup
<1>5. CASE EncodeRaises
  BY <1>5, <1>t DEF EncodeRaises
<1>6. CASE Poll
  BY <1>6, <1>t DEF Poll
<1>7. CASE Select
  BY <1>7, <1>t DEF Select
<1>8. CASE \E s \in Stream : ReadEof(s)
  BY <1>8, <1>t DEF ReadEof
<1>9. CASE ReadErr
  BY <1>9, <1>t DEF ReadErr, Take
<1>10. CASE ReadOut
  BY <1>10, <1>t, ReadOutEffect DEF ReadOut, Take
<1>11. CASE FlushChunk
  BY <1>11, <1>t DEF FlushChunk
<1>12. CASE FlushDone
  BY <1>12, <1>t DEF FlushDone, AfterFlush
<1>13. CASE WarnCap
  BY <1>13, <1>t DEF WarnCap
<1>14. CASE PumpDone
  BY <1>14, <1>t DEF PumpDone, Expired
<1>15. CASE WaitExit
  BY <1>15, <1>t DEF WaitExit, Reap, TreeTypeOK, Process
<1>16. CASE WaitExpires
  BY <1>16, <1>t DEF WaitExpires
<1>17. CASE RelayKill
  BY <1>17, <1>t, KillTreeChild DEF RelayKill
<1>18. CASE RelaySet
  BY <1>18, <1>t DEF RelaySet
<1>19. CASE DecodeTail
  BY <1>19, <1>t DEF DecodeTail
<1>20. CASE Finally
  BY <1>20, <1>t DEF Finally, CancelWatchdog
<1>21. CASE ReapChild
  BY <1>21, <1>t DEF ReapChild, Reap, TreeTypeOK, Process
<1>22. CASE ReapExpires
  BY <1>22, <1>t, KillTreeChild DEF ReapExpires
<1>23. CASE GiveUpReap
  BY <1>23, <1>t DEF GiveUpReap
<1>24. CASE Assemble
  BY <1>24, <1>t DEF Assemble
<1>25. CASE SendFinal
  BY <1>25, <1>t DEF SendFinal
<1>26. CASE WriteRaises
  BY <1>26, <1>t DEF WriteRaises, Emitting
<1>27. CASE Unwind
  BY <1>27, <1>t DEF Unwind, CancelWatchdog
<1>28. CASE WatchdogFires
  BY <1>28, <1>t DEF WatchdogFires
<1>29. CASE WatchdogKill
  BY <1>29, <1>t, KillTreeChild DEF WatchdogKill
<1>30. CASE WatchdogSet
  BY <1>30, <1>t DEF WatchdogSet
<1>31. CASE DeadlinePasses
  BY <1>31, <1>t DEF DeadlinePasses
<1>32. CASE GracePasses
  BY <1>32, <1>t DEF GracePasses
<1>33. CASE TreeMoves
  BY <1>33, <1>t, TreeStepChild DEF TreeMoves
<1>34. CASE ConsumerMoves
  BY <1>34, <1>t DEF ConsumerMoves
<1>35. CASE UNCHANGED vars
  BY <1>35, <1>t DEF vars
<1> QED
  BY <1>1, <1>2, <1>3, <1>4, <1>5, <1>6, <1>7, <1>8, <1>9, <1>10, <1>11, <1>12, <1>13,
     <1>14, <1>15, <1>16, <1>17, <1>18, <1>19, <1>20, <1>21, <1>22, <1>23, <1>24, <1>25,
     <1>26, <1>27, <1>28, <1>29, <1>30, <1>31, <1>32, <1>33, <1>34, <1>35
     DEF Next, RelayStep, PumpStep, WatchdogStep

\* The discipline holds initially.
LEMMA DisciplineInit == Init => KillDiscipline
BY DEF Init, TreeInit, KillDiscipline, PastPump, Returned, Process

\* A process is signalled only after the deadline: neither the cap, nor a full
\* pipe, nor a slow consumer kills anything.
THEOREM NoEarlyKill == Spec => KillOnlyPastTheDeadline
<1>1. Init => KillDiscipline
  BY DisciplineInit
<1>2. TypeOK /\ KillDiscipline /\ [Next]_vars => KillDiscipline' /\ SignalsOnlyLate
  BY KillDisciplineNext
<1>3. SignalsOnlyLate => [\A p \in Process : proc[p] = "running" /\ proc'[p] = "doomed" => late]_vars
  BY DEF SignalsOnlyLate
<1> QED
  BY <1>1, <1>2, <1>3, TypeCorrect, PTL DEF Spec, KillOnlyPastTheDeadline

\* The discipline itself holds in every reachable state.
THEOREM Discipline == Spec => []KillDiscipline
<1>1. Init => KillDiscipline
  BY DisciplineInit
<1>2. TypeOK /\ KillDiscipline /\ [Next]_vars => KillDiscipline'
  BY KillDisciplineNext
<1> QED
  BY <1>1, <1>2, TypeCorrect, PTL DEF Spec

-----------------------------------------------------------------------------
(* The care of the child.                                                  *)

\* Only a spawn makes the child run.
LEMMA OnlySpawnRuns ==
  ASSUME TypeOK, RelayStep \/ WatchdogKill, ~SpawnChild, proc'["child"] = "running"
  PROVE  proc["child"] = "running"
<1> USE DEF TypeOK, TreeTypeOK, Process, outsideVars, treeVars
<1>1. CASE RelayKill \/ ReapExpires \/ WatchdogKill
  BY <1>1, KillTreeChild DEF RelayKill, ReapExpires, WatchdogKill
<1>2. CASE WaitExit \/ ReapChild
  BY <1>2 DEF WaitExit, ReapChild, Reap
<1>3. CASE PumpStep
  BY <1>3 DEF PumpStep, Poll, Select, ReadEof, ReadErr, ReadOut, FlushChunk, FlushDone, WarnCap,
              PumpDone, Take
<1>4. CASE \/ Refuse \/ SendStart \/ Setup \/ EncodeRaises \/ WaitExpires \/ RelaySet
           \/ DecodeTail \/ Finally \/ GiveUpReap \/ Assemble \/ SendFinal
           \/ WriteRaises \/ Unwind
  BY <1>4 DEF Refuse, SendStart, Setup, EncodeRaises, WaitExpires, RelaySet, DecodeTail,
              Finally, GiveUpReap, Assemble, SendFinal, WriteRaises, Unwind
<1> QED
  BY <1>1, <1>2, <1>3, <1>4 DEF RelayStep

\* The timer is armed before the pump, and what cancels it, or has made it
\* fire, leaves no running child but to an exception.
LEMMA WatchedNext ==
  TypeOK /\ KillDiscipline /\ RunningChildIsWatched /\ [Next]_vars => RunningChildIsWatched'
<1> SUFFICES ASSUME TypeOK, KillDiscipline, RunningChildIsWatched, [Next]_vars,
                    proc'["child"] = "running"
             PROVE  wd' \in {"armed", "firing"} \/ pc' \in {"start", "setup", "crashed"}
  BY KillDisciplineNext DEF KillDiscipline, RunningChildIsWatched, Returned
<1> USE DEF RunningChildIsWatched, outsideVars
<1>1. CASE SpawnChild
  BY <1>1 DEF SpawnChild
<1>2. CASE RelayStep /\ ~SpawnChild
  <2>0. proc["child"] = "running"
    BY <1>2, OnlySpawnRuns
  <2>1. ~PastPump /\ pc # "gates"
    BY <2>0 DEF KillDiscipline
  <2>2. CASE Refuse \/ Finally
    BY <2>1, <2>2 DEF Refuse, Finally, PastPump
  <2>3. CASE SendStart \/ Setup \/ EncodeRaises \/ Unwind
    BY <2>3 DEF SendStart, Setup, EncodeRaises, Unwind
  <2>4. CASE PumpStep
    BY <2>0, <2>4 DEF PumpStep, Poll, Select, ReadEof, ReadErr, ReadOut, FlushChunk, FlushDone,
                      WarnCap, PumpDone
  <2>5. CASE WriteRaises
    BY <2>0, <2>5 DEF WriteRaises, Emitting
  <2>6. CASE WaitExit \/ WaitExpires \/ RelayKill \/ RelaySet \/ DecodeTail \/ ReapChild
             \/ ReapExpires \/ GiveUpReap \/ Assemble \/ SendFinal
    BY <2>0, <2>6 DEF WaitExit, WaitExpires, RelayKill, RelaySet, DecodeTail, ReapChild,
                      ReapExpires, GiveUpReap, Assemble, SendFinal
  <2> QED
    BY <1>2, <2>2, <2>3, <2>4, <2>5, <2>6 DEF RelayStep
<1>3. CASE WatchdogStep
  <2>1. ~WatchdogKill
    BY <1>3, KillTreeChild DEF WatchdogKill, TypeOK
  <2> QED
    BY <1>3, <2>1 DEF WatchdogStep, WatchdogFires, WatchdogSet, treeVars
<1>4. CASE TreeMoves
  BY <1>4, TreeStepChild DEF TreeMoves, TypeOK
<1>5. CASE \/ DeadlinePasses \/ GracePasses \/ ConsumerMoves \/ UNCHANGED vars
  BY <1>5 DEF DeadlinePasses, GracePasses, ConsumerMoves, vars, treeVars
<1> QED
  BY <1>1, <1>2, <1>3, <1>4, <1>5 DEF Next

\* Whatever blocks the relay, a running child is in the care of the timer, but
\* for the start event, the encoding of the prompt and an exception; and it is
\* never left by a call that returns.  This is the safety that
\* DeadlineStopsTheChild rests on.
THEOREM ChildIsWatched == Spec => []RunningChildIsWatched
<1>1. Init => RunningChildIsWatched
  BY DEF Init, TreeInit, RunningChildIsWatched, Process
<1>2. TypeOK /\ KillDiscipline /\ RunningChildIsWatched /\ [Next]_vars => RunningChildIsWatched'
  BY WatchedNext
<1> QED
  BY <1>1, <1>2, TypeCorrect, Discipline, PTL DEF Spec
=============================================================================
