--------------------------- MODULE InferCallProofs --------------------------
(***************************************************************************)
(* Proofs about InferCall, for any list of candidate binaries: how a call  *)
(* of `bls infer` ends, what it has sent by then, and what it has spawned. *)
(***************************************************************************)
EXTENDS InferCall, TLAPS, WellFoundedInduction, SequenceTheorems, FiniteSetTheorems

-----------------------------------------------------------------------------
(* The operators.                                                          *)

\* resolve_binary takes a binary that is there, and none before it is.
LEMMA FoundIsFirst ==
  ASSUME path \subseteq Binary, path # {}
  PROVE  /\ Found \in path
         /\ \E i \in DOMAIN Candidates :
              Found = Candidates[i] /\ \A j \in 1..(i - 1) : Candidates[j] \notin path
<1> DEFINE Hits == {i \in DOMAIN Candidates : Candidates[i] \in path}
<1>1. DOMAIN Candidates = 1..Len(Candidates) /\ Len(Candidates) \in Nat
  BY CandidatesAssumption
<1>2. Hits # {} /\ Hits \subseteq Nat
  BY <1>1 DEF Binary
<1>3. PICK i \in Hits : \A j \in Hits : <<j, i>> \notin OpToRel(<, Nat)
  BY <1>2, NatLessThanWellFounded, WFMin
<1>4. \A j \in Hits : ~ (j < i)
  BY <1>2, <1>3 DEF OpToRel
<1>5. \A j \in 1..(i - 1) : Candidates[j] \notin path
  BY <1>1, <1>4
<1> QED
  BY <1>3, <1>5 DEF Found

\* So it takes a candidate.
LEMMA FoundIsBinary ==
  ASSUME path \subseteq Binary, path # {}
  PROVE  Found \in Binary
BY FoundIsFirst

\* The exit code of each status.
LEMMA ExitCodeTyped ==
  ASSUME NEW s
  PROVE  /\ ExitCode(s) \in {"0", "1", "2", "124"}
         /\ ExitCode(s) = "0" <=> s = "ok"
         /\ ExitCode(s) = "1" <=> s = "generation_error"
         /\ ExitCode(s) = "124" <=> s = "timeout"
BY DEF ExitCode

\* A wrapper made of NoAnswer, field by field.
Wrapper == [status : Status \cup {"none"}, id : Id, text : Text, fake : BOOLEAN]

\* The wrapper of an error.
LEMMA ErrorTyped ==
  ASSUME NEW s \in Status, NEW i \in Id
  PROVE  LET a == [NoAnswer EXCEPT !.status = s, !.id = i] IN
         a \in Wrapper /\ a.status = s /\ a.id = i /\ a.fake = FALSE
BY DEF NoAnswer, Wrapper, Text

\* The wrapper of the fake runner, which is marked.
LEMMA FakeTyped ==
  ASSUME rid \in Id
  PROVE  FakeOk \in Wrapper /\ FakeOk.status = "ok" /\ FakeOk.id = rid /\ FakeOk.fake = TRUE
BY DEF FakeOk, NoAnswer, Wrapper, Text, Status

\* _EXEC_STATUS_MAP reports every status of an execution as what it is.
Reported == IF status = "exit_nonzero" THEN "generation_error" ELSE status

\* A result is ok exactly if the execution was.
LEMMA ReportedTyped ==
  ASSUME TypeOK
  PROVE  /\ Reported \in {"none", "denied", "spawn_error", "ok", "generation_error", "timeout"}
         /\ Reported = "ok" <=> status = "ok"
         /\ Reported = "none" <=> status = "none"
BY DEF TypeOK, Reported

\* The wrapper of an execution.
LEMMA AssembledTyped ==
  ASSUME TypeOK
  PROVE  LET a == [NoAnswer EXCEPT !.status = Reported, !.id = rid, !.text = Scrub(text)] IN
         a \in Wrapper /\ a.status = Reported /\ a.id = rid /\ a.fake = FALSE
<1>1. Scrub(text) \in Text /\ rid \in Id
  BY DEF Scrub, Text, TypeOK
<1>2. Reported \in Status \cup {"none"}
  BY ReportedTyped DEF Status
<1> QED
  BY <1>1, <1>2 DEF NoAnswer, Wrapper

-----------------------------------------------------------------------------
(* How a call ends.                                                        *)

\* What every answer leaves.
LEMMA AnswerEffect ==
  ASSUME NEW events, NEW a \in Wrapper, Answer(events, a)
  PROVE  /\ pc' = "exited" /\ answer' = a /\ exit' = ExitCode(a.status)
         /\ stream => sent' = sent \o (events \o <<"final">>)
         /\ ~stream => sent' = sent \o <<>>
BY DEF Answer

\* A stream that may go on: a start, if there is one, comes first, chunks only
\* after it, and no final.
Open(s) ==
  /\ s \in Seq(Event)
  /\ s # <<>> => s[1] = "start"
  /\ \A i \in 1..Len(s) : s[i] # "final" /\ (s[i] = "start" => i = 1)

\* One that ended: a final closes an open one.
Closed(s) ==
  /\ s \in Seq(Event) /\ Len(s) > 0 /\ s[Len(s)] = "final"
  /\ Len(s) > 1 => s[1] = "start"
  /\ \A i \in 1..Len(s) : (s[i] = "final" => i = Len(s)) /\ (s[i] = "start" => i = 1)

\* A final closes what was sent, before or in the same call.
LEMMA FinalCloses ==
  ASSUME NEW s, NEW e, Open(s), Open(e), s = <<>> \/ e = <<>>
  PROVE  Closed(s \o (e \o <<"final">>))
<1> DEFINE f == <<"final">>
           t == IF s = <<>> THEN e ELSE s
<1>1. t \in Seq(Event) /\ f \in Seq(Event) /\ Len(f) = 1 /\ f[1] = "final" /\ Open(t)
  BY DEF Open, Event
<1>2. s \o (e \o f) = t \o f
  <2>1. CASE s = <<>>
    <3>1. e \o f \in Seq(Event)
      BY <1>1, ConcatProperties DEF Open
    <3> QED
      BY <2>1, <3>1, ConcatEmptySeq
  <2>2. CASE s # <<>>
    BY <1>1, <2>2, ConcatEmptySeq
  <2> QED
    BY <2>1, <2>2
<1> HIDE DEF t, f
<1>3. /\ t \o f \in Seq(Event) /\ Len(t \o f) = Len(t) + Len(f)
      /\ \A i \in 1..Len(t) + Len(f) :
           (t \o f)[i] = IF i <= Len(t) THEN t[i] ELSE f[i - Len(t)]
  BY <1>1, ConcatProperties, Zenon
<1>4. Len(t) \in Nat /\ (Len(t) > 0 => t # <<>>)
  BY <1>1, EmptySeq
<1>5. (t \o f)[Len(t) + 1] = "final" /\ \A i \in 1..Len(t) : (t \o f)[i] = t[i]
  BY <1>1, <1>3, <1>4
<1>6. Closed(t \o f)
  BY <1>1, <1>3, <1>4, <1>5 DEF Closed, Open
<1> QED
  BY <1>2, <1>6 DEF f

\* The events sent before the end.
LEMMA OpenSteps ==
  /\ Open(<<>>) /\ Open(<<"start">>) /\ Open(<<"start", "chunk">>)
  /\ Open(Append(<<>>, "start")) /\ Append(<<>>, "start") # <<>>
  /\ \A s : Open(s) /\ s # <<>> => Open(Append(s, "chunk")) /\ Append(s, "chunk") # <<>>
<1>1. Open(<<>>) /\ Open(<<"start">>) /\ Open(<<"start", "chunk">>)
  BY DEF Open, Event
<1>2. Open(Append(<<>>, "start")) /\ Append(<<>>, "start") # <<>>
  BY DEF Open, Event
<1>3. ASSUME NEW s, Open(s), s # <<>>
      PROVE  Open(Append(s, "chunk")) /\ Append(s, "chunk") # <<>>
  BY <1>3 DEF Open, Event
<1> QED
  BY <1>1, <1>2, <1>3

\* A closed stream has one final, at its end, and at most one start, at its head.
LEMMA ClosedCounts ==
  ASSUME Closed(sent)
  PROVE  /\ Count("final") = 1 /\ sent[Len(sent)] = "final" /\ Count("start") <= 1
         /\ Count("start") = 1 \/ Count("chunk") > 0 => sent[1] = "start"
<1>0. DOMAIN sent = 1..Len(sent)
  BY DEF Closed
<1>1. Len(sent) \in Nat /\ Len(sent) > 0
  BY DEF Closed
<1>2. {i \in DOMAIN sent : sent[i] = "final"} = {Len(sent)}
  <2>1. Len(sent) \in 1..Len(sent) /\ \A i \in 1..Len(sent) : sent[i] = "final" <=> i = Len(sent)
    BY <1>1 DEF Closed
  <2> QED
    BY <1>0, <2>1, Zenon
<1>3. Count("final") = 1
  BY <1>2, FS_Singleton DEF Count
<1>4. CASE sent[1] = "start"
  <2>1. {i \in DOMAIN sent : sent[i] = "start"} = {1}
    <3>1. 1 \in 1..Len(sent) /\ \A i \in 1..Len(sent) : sent[i] = "start" <=> i = 1
      BY <1>1, <1>4 DEF Closed
    <3> QED
      BY <1>0, <3>1, Zenon
  <2>2. Count("start") = 1
    BY <2>1, FS_Singleton DEF Count
  <2> QED
    BY <1>3, <1>4, <2>2 DEF Closed
<1>5. CASE sent[1] # "start"
  <2>1. ~(Len(sent) > 1)
    BY <1>5 DEF Closed
  <2>2. /\ {i \in DOMAIN sent : sent[i] = "start"} = {}
        /\ {i \in DOMAIN sent : sent[i] = "chunk"} = {}
    <3>1. \A i \in 1..Len(sent) : sent[i] # "start" /\ sent[i] # "chunk"
      <4>1. Len(sent) = 1
        BY <1>1, <2>1
      <4> QED
        BY <4>1 DEF Closed
    <3> QED
      BY <1>0, <3>1, Zenon
  <2>3. Count("start") = 0 /\ Count("chunk") = 0
    BY <2>2, FS_EmptySet DEF Count
  <2> QED
    BY <1>3, <2>3 DEF Closed
<1> QED
  BY <1>4, <1>5
-----------------------------------------------------------------------------
(* Types.                                                                  *)

\* An answer is well typed.
OutTyped ==
  /\ pc' \in Labels
  /\ sent' \in Seq(Event)
  /\ answer' \in Wrapper
  /\ exit' \in {"none", "0", "1", "2", "124"}

\* Any such answer keeps the types.
LEMMA AnswerTyped ==
  ASSUME TypeOK, NEW events \in Seq(Event), NEW a \in Wrapper, Answer(events, a)
  PROVE  OutTyped
<1>1. <<>> \in Seq(Event) /\ <<"final">> \in Seq(Event) /\ sent \in Seq(Event)
  BY DEF Event, TypeOK
<1>2. events \o <<"final">> \in Seq(Event)
  BY <1>1, ConcatProperties
<1>3. sent \o (events \o <<"final">>) \in Seq(Event) /\ sent \o <<>> \in Seq(Event)
  BY <1>1, <1>2, ConcatProperties
<1>4. sent' \in Seq(Event)
  BY <1>3, AnswerEffect DEF TypeOK
<1> QED
  BY <1>4, AnswerEffect, ExitCodeTyped DEF OutTyped, Labels

\* A request error or a model error answers with the id that was read.
LEMMA ErrorEffect ==
  ASSUME TypeOK, RequestError \/ ModelError
  PROVE  \E a \in Wrapper :
           /\ a.status \in {"request_error", "model_error"} /\ a.id = rid
           /\ Answer(<<>>, a)
           /\ UNCHANGED <<argVars, envVars, rid, execVars>>
<1>1. rid \in Id /\ {"request_error", "model_error"} \subseteq Status
  BY DEF TypeOK, Status
<1> QED
  BY <1>1, ErrorTyped DEF RequestError, ModelError

\* The initial states are well typed.
LEMMA TypeInit == Init => TypeOK
<1> SUFFICES ASSUME Init PROVE TypeOK
  OBVIOUS
<1>1. answer \in Wrapper
  BY DEF Init, NoAnswer, Wrapper, Id, Text
<1>2. path \subseteq Binary /\ weights \in Weights /\ req \in Request
  BY DEF Init
<1>3. sent \in Seq(Event)
  BY DEF Init
<1> QED
  BY <1>1, <1>2, <1>3 DEF Init, TypeOK, Wrapper, Labels, Id, Text

\* Every step keeps the types.
LEMMA TypeNext == TypeOK /\ [Next]_vars => TypeOK'
<1> SUFFICES ASSUME TypeOK, [Next]_vars PROVE TypeOK'
  OBVIOUS
<1> USE DEF argVars, envVars, execVars, outVars
<1>0. TypeOK /\ <<>> \in Seq(Event)
  BY DEF Event
<1>e. RequestError \/ ModelError => TypeOK'
  <2>1. SUFFICES ASSUME RequestError \/ ModelError PROVE TypeOK'
    OBVIOUS
  <2>2. OutTyped /\ UNCHANGED <<argVars, envVars, rid, execVars>>
    BY <1>0, <2>1, ErrorEffect, AnswerTyped
  <2> QED
    BY <2>2 DEF OutTyped, Wrapper, TypeOK
<1>t. Traceback => TypeOK'
  BY DEF Traceback, TypeOK, Labels
<1>g. ASSUME NEW l \in Labels, Goto(l) PROVE TypeOK'
  BY <1>g DEF Goto, TypeOK
<1>1. CASE Arguments
  <2>1. CASE stream /\ preflight /\ req.file # "unparsable"
    <3>1. ReadableId \in Id
      BY DEF ReadableId, Id
    <3>2. PICK a \in Wrapper : Answer(<<>>, a) /\ UNCHANGED <<argVars, envVars, rid, execVars>>
      BY <1>1, <2>1, <3>1, ErrorTyped DEF Arguments, Status
    <3>3. OutTyped
      BY <1>0, <3>2, AnswerTyped
    <3> QED
      BY <3>2, <3>3 DEF OutTyped, Wrapper, TypeOK
  <2> QED
    BY <1>1, <2>1, <1>g, <1>t DEF Arguments, Labels
<1>2. CASE ReadRequest
  BY <1>2, <1>e, <1>t DEF ReadRequest, ReadableId, TypeOK, Labels, Id
<1>3. CASE Validate
  BY <1>3, <1>e, <1>t, <1>g DEF Validate, Labels
<1>4. CASE Catalog
  <2>1. CASE RunFake
    <3>1. rid \in Id /\ <<"start", "chunk">> \in Seq(Event)
      BY DEF TypeOK, Event
    <3>2. OutTyped
      BY <2>1, <3>1, FakeTyped, AnswerTyped DEF RunFake
    <3> QED
      BY <2>1, <3>2 DEF RunFake, OutTyped, Wrapper, TypeOK
  <2> QED
    BY <1>4, <2>1, <1>e, <1>g DEF Catalog, Labels
<1>5. CASE WeightsExist
  BY <1>5, <1>e, <1>g DEF WeightsExist, Labels
<1>6. CASE Verify
  <2>1. CASE Verified
    BY <2>1 DEF Verified, TypeOK, Labels
  <2> QED
    BY <1>6, <2>1, <1>e, <1>t DEF Verify, OsError
<1>7. CASE ResolveBinary
  <2>1. CASE path = {}
    BY <1>7, <2>1, <1>e DEF ResolveBinary
  <2>2. CASE path # {}
    <3>1. Found \in Binary
      BY <2>2, FoundIsBinary DEF TypeOK
    <3>2. CASE preflight
      <4>1. rid \in Id /\ "ok" \in Status /\ <<"start">> \in Seq(Event)
        BY DEF TypeOK, Status, Event
      <4>2. OutTyped
        BY <1>7, <2>2, <3>2, <4>1, ErrorTyped, AnswerTyped DEF ResolveBinary
      <4> QED
        BY <1>7, <2>2, <3>1, <4>2 DEF ResolveBinary, OutTyped, Wrapper, TypeOK
    <3>3. CASE ~preflight
      BY <1>7, <2>2, <3>1, <3>3 DEF ResolveBinary, TypeOK, Labels
    <3> QED
      BY <3>2, <3>3
  <2> QED
    BY <2>1, <2>2
<1>8. CASE Probe
  BY <1>8 DEF Probe, TypeOK, Labels
<1>x. ASSUME NEW b \in Binary \cup {"none"}, Execute(b) PROVE TypeOK'
  <2>1. CASE RequestError \/ OsError
    BY <2>1, <1>e, <1>t DEF OsError
  <2>2. CASE ~(RequestError \/ OsError)
    <3>1. sent' \in Seq(Event)
      BY <1>x, <2>2 DEF Execute, TypeOK, Event
    <3> QED
      BY <1>x, <2>2, <3>1 DEF Execute, TypeOK, Labels
  <2> QED
    BY <2>1, <2>2
<1>9. CASE Run
  <2>1. CASE stream
    <3>1. Execute(binary) /\ binary \in Binary \cup {"none"}
      BY <1>9, <2>1 DEF Run, TypeOK
    <3> QED
      BY <3>1, <1>x
  <2>2. CASE ~stream
    BY <1>9, <2>2, <1>x, <1>t, FoundIsBinary DEF Run, TypeOK
  <2> QED
    BY <2>1, <2>2
<1>10. CASE Running
  <2>1. sent' \in Seq(Event)
    BY <1>10 DEF Running, TypeOK, Event
  <2> QED
    BY <1>10, <2>1 DEF Running, TypeOK, Labels, Text
<1>11. CASE BudgetOverflows
  BY <1>11, <1>t DEF BudgetOverflows
<1>12. CASE Assemble
  <2>1. PICK a \in Wrapper : Answer(<<>>, a) /\ UNCHANGED <<argVars, envVars, rid, execVars>>
    BY <1>12, AssembledTyped DEF Assemble, Reported
  <2>2. OutTyped
    BY <1>0, <2>1, AnswerTyped
  <2> QED
    BY <2>1, <2>2 DEF OutTyped, Wrapper, TypeOK
<1>13. CASE WorldMoves
  BY <1>13 DEF WorldMoves, TypeOK
<1>14. CASE UNCHANGED vars
  BY <1>14 DEF vars, TypeOK
<1> QED
  BY <1>1, <1>2, <1>3, <1>4, <1>5, <1>6, <1>7, <1>8, <1>9, <1>10, <1>11, <1>12, <1>13, <1>14
  DEF Next

\* Type correctness of a call.
THEOREM InferTypeCorrect == Spec => []TypeOK
<1> QED
  BY TypeInit, TypeNext, PTL DEF Spec

-----------------------------------------------------------------------------
(* The inductive invariant.                                                *)

Ended == pc \in {"exited", "traceback"}
Early == {"args", "read", "validate", "catalog", "exists", "verify"}

\* Only a real runner has weights; past the verification it has succeeded; past
\* the resolution of the binary it is no preflight.
Gated ==
  /\ pc \in {"exists", "verify", "binary", "probe", "run", "running", "assemble"} =>
       req.profile = "llama"
  /\ pc \in {"binary", "probe", "run", "running", "assemble"} => verified
  /\ pc \in {"probe", "run", "running", "assemble"} => ~preflight

\* Where the spawns stand to the position of the call, and to the status.
Spawned ==
  /\ pc \in Early \cup {"binary", "probe"} => spawned = {}
  /\ pc = "run" => "model" \notin spawned
  /\ pc = "running" => "model" \in spawned
  /\ pc = "assemble" =>
       /\ status # "none"
       /\ status = "ok" => "model" \in spawned

\* Where the events stand to it.
Streamed ==
  /\ ~stream => sent = <<>>
  /\ ~Ended => Open(sent)
  /\ pc \in Early \cup {"binary", "probe", "run"} => sent = <<>>
  /\ stream /\ pc = "running" => sent # <<>>
  /\ stream /\ pc = "exited" => Closed(sent)

\* The id is known from the reading on.
IdRead ==
  /\ pc \in {"args", "read"} => rid = "none"
  /\ ~Ended /\ pc \notin {"args", "read"} => rid = ReadableId

\* There is one answer, at the end, and the exit code is its.
Answered ==
  /\ pc # "exited" => answer = NoAnswer
  /\ pc = "exited" => answer.status # "none" /\ exit = ExitCode(answer.status)

\* The version is that of the binary resolved first, which a stream runs.
Probed ==
  /\ pc \in Early \cup {"binary", "probe"} => probed = "none"
  /\ stream => probed \in {"none", binary}

IInv ==
  /\ TypeOK /\ Gated /\ Spawned /\ Streamed /\ IdRead /\ Answered /\ Probed
  /\ OnlyVerifiedModelsRun /\ OkIsEarned /\ IdIsEchoed

\* The invariant holds initially.
LEMMA InvInit == Init => IInv
<1> SUFFICES ASSUME Init PROVE IInv
  OBVIOUS
<1>1. TypeOK
  BY TypeInit
<1>2. Gated /\ Spawned /\ IdRead /\ Answered /\ Probed
  BY DEF Init, Gated, Spawned, IdRead, Answered, Probed, Early, Ended
<1>3. Streamed
  BY OpenSteps DEF Init, Streamed, Early, Ended
<1>4. OnlyVerifiedModelsRun /\ OkIsEarned /\ IdIsEchoed
  BY DEF Init, OnlyVerifiedModelsRun, OkIsEarned, IdIsEchoed, NoAnswer
<1> QED
  BY <1>1, <1>2, <1>3, <1>4 DEF IInv

\* An answer keeps it, if its status, its id and its mark are true of the call.
LEMMA InvAnswer ==
  ASSUME IInv, TypeOK', ~Ended, NEW events, NEW a \in Wrapper, Answer(events, a),
         Open(events), sent = <<>> \/ events = <<>>,
         UNCHANGED <<argVars, verified, spawned>>,
         "model" \in spawned \/ probed # "none" => binary' = binary, probed' = probed,
         a.status # "none", a.id = ReadableId,
         a.status = "model_error" => spawned = {},
         a.status = "request_error" => "model" \notin spawned,
         a.status = "ok" /\ ~preflight => (a.fake <=> "model" \notin spawned)
  PROVE  IInv'
<1> USE DEF argVars
<1>1. pc' = "exited" /\ answer' = a /\ exit' = ExitCode(a.status)
  BY AnswerEffect
<1>2. Gated' /\ Spawned' /\ IdRead' /\ Answered' /\ Probed'
  BY <1>1 DEF IInv, Gated, Spawned, IdRead, Answered, Probed, Early, Ended
<1>3. Streamed'
  <2>1. CASE stream
    <3>1. sent' = sent \o (events \o <<"final">>)
      BY <2>1, AnswerEffect
    <3>2. Closed(sent')
      BY <3>1, FinalCloses DEF IInv, Streamed
    <3> QED
      BY <1>1, <2>1, <3>2 DEF Streamed, Early, Ended
  <2>2. CASE ~stream
    <3>1. sent' = <<>> \o <<>>
      BY <2>2, AnswerEffect DEF IInv, Streamed
    <3>2. sent' = <<>>
      BY <3>1
    <3> QED
      BY <1>1, <2>2, <3>2 DEF Streamed, Early, Ended
  <2> QED
    BY <2>1, <2>2
<1>4. OnlyVerifiedModelsRun'
  BY <1>1 DEF IInv, OnlyVerifiedModelsRun
<1>5. OkIsEarned'
  <2>1. stream' => probed' \in {"none", binary'}
    BY <1>2 DEF Probed
  <2> QED
    BY <1>1, <2>1, Zenon DEF OkIsEarned, Wrapper
<1>6. IdIsEchoed'
  BY <1>1 DEF IdIsEchoed, ReadableId
<1> QED
  BY <1>2, <1>3, <1>4, <1>5, <1>6 DEF IInv

\* So does an error, before anything was spawned, or a request error at the gates.
LEMMA InvError ==
  ASSUME IInv, TypeOK', rid = ReadableId,
         \/ pc \in Early \cup {"binary"} /\ (RequestError \/ ModelError)
         \/ pc = "run" /\ RequestError
  PROVE  IInv'
<1>1. PICK a \in Wrapper :
        /\ \/ a.status = "request_error"
           \/ a.status = "model_error" /\ pc # "run"
        /\ a.id = rid /\ Answer(<<>>, a)
        /\ UNCHANGED <<argVars, envVars, rid, execVars>>
  <2>1. rid \in Id /\ {"request_error", "model_error"} \subseteq Status
    BY DEF IInv, TypeOK, Status
  <2> QED
    BY <2>1, ErrorTyped DEF RequestError, ModelError, Early
<1>2. ~Ended /\ "model" \notin spawned /\ (pc # "run" => spawned = {})
  BY DEF IInv, Spawned, Ended, Early
<1> QED
  BY <1>1, <1>2, InvAnswer, OpenSteps DEF execVars

\* And an exception.
LEMMA InvTraceback == IInv /\ TypeOK' /\ ~Ended /\ Traceback => IInv'
<1> SUFFICES ASSUME IInv, TypeOK', ~Ended, Traceback PROVE IInv'
  OBVIOUS
<1> USE DEF argVars, execVars
<1>1. Gated' /\ Spawned' /\ Streamed' /\ IdRead' /\ Answered' /\ Probed'
  BY DEF Traceback, IInv, Gated, Spawned, Streamed, IdRead, Answered, Probed, Early, Ended
<1>2. OnlyVerifiedModelsRun' /\ OkIsEarned' /\ IdIsEchoed'
  BY DEF Traceback, IInv, OnlyVerifiedModelsRun, OkIsEarned, IdIsEchoed
<1> QED
  BY <1>1, <1>2 DEF IInv

\* And a check that passes, where nothing was spawned yet.
LEMMA InvGoto ==
  ASSUME IInv, TypeOK', NEW l, Goto(l),
         \/ pc = "args" /\ l = "read"
         \/ pc = "validate" /\ l = "catalog"
         \/ pc = "catalog" /\ l = "exists" /\ req.profile = "llama"
         \/ pc = "exists" /\ l = "verify"
  PROVE  IInv'
<1> USE DEF argVars, execVars, outVars
<1>1. Gated' /\ Spawned' /\ Streamed' /\ IdRead' /\ Answered' /\ Probed'
  BY DEF Goto, IInv, Gated, Spawned, Streamed, IdRead, Answered, Probed, Early, Ended, ReadableId
<1>2. OnlyVerifiedModelsRun' /\ OkIsEarned' /\ IdIsEchoed'
  BY DEF Goto, IInv, OnlyVerifiedModelsRun, OkIsEarned, IdIsEchoed
<1> QED
  BY <1>1, <1>2 DEF IInv

\* The request is read and checked.
LEMMA InvRequest == IInv /\ (Arguments \/ ReadRequest \/ Validate) => IInv'
<1> SUFFICES ASSUME IInv, Arguments \/ ReadRequest \/ Validate PROVE IInv'
  OBVIOUS
<1> USE DEF argVars, execVars, outVars
<1>0. TypeOK /\ TypeOK'
  BY TypeNext DEF Next, IInv
<1>1. CASE Arguments
  <2>1. CASE stream /\ preflight /\ req.file # "unparsable"
    <3>1. ReadableId \in Id
      BY DEF ReadableId, Id
    <3> DEFINE a == [NoAnswer EXCEPT !.status = "request_error", !.id = ReadableId]
    <3>2. a \in Wrapper /\ a.status = "request_error" /\ a.id = ReadableId
      BY <3>1 DEF NoAnswer, Wrapper, Status, Text
    <3>3. Answer(<<>>, a) /\ UNCHANGED <<argVars, envVars, rid, execVars>>
      BY <1>1, <2>1 DEF Arguments
    <3> HIDE DEF a
    <3>4. ~Ended /\ spawned = {}
      BY <1>1 DEF Arguments, IInv, Spawned, Ended, Early
    <3> QED
      BY <1>0, <3>2, <3>3, <3>4, InvAnswer, OpenSteps
  <2>2. pc = "args" /\ ~Ended
    BY <1>1 DEF Arguments, Ended
  <2> QED
    BY <1>0, <1>1, <2>1, <2>2, InvGoto, InvTraceback DEF Arguments
<1>2. CASE ReadRequest
  <2>1. CASE req.file \notin {"unreadable", "unparsable"}
    <3>1. Gated' /\ Spawned' /\ Streamed' /\ IdRead' /\ Answered' /\ Probed'
      BY <1>2, <2>1
      DEF ReadRequest, IInv, Gated, Spawned, Streamed, IdRead, Answered, Probed, Early, Ended,
          ReadableId
    <3>2. OnlyVerifiedModelsRun' /\ OkIsEarned' /\ IdIsEchoed'
      BY <1>2, <2>1 DEF ReadRequest, IInv, OnlyVerifiedModelsRun, OkIsEarned, IdIsEchoed
    <3> QED
      BY <1>0, <3>1, <3>2 DEF IInv
  <2>2. CASE req.file = "unreadable"
    <3>1. pc \in Early /\ rid = ReadableId
      BY <1>2, <2>2 DEF ReadRequest, IInv, IdRead, ReadableId, Early
    <3> QED
      BY <1>0, <1>2, <2>2, <3>1, InvError DEF ReadRequest
  <2>3. CASE req.file = "unparsable"
    BY <1>0, <1>2, <2>3, InvTraceback DEF ReadRequest, Ended
  <2> QED
    BY <2>1, <2>2, <2>3
<1>3. CASE Validate
  <2>1. pc = "validate" /\ pc \in Early /\ ~Ended /\ rid = ReadableId
    BY <1>3 DEF Validate, IInv, IdRead, Early, Ended
  <2> QED
    BY <1>0, <1>3, <2>1, InvError, InvTraceback, InvGoto DEF Validate
<1> QED
  BY <1>1, <1>2, <1>3

\* The profile is looked up; a fake one answers at once.
LEMMA InvCatalog == IInv /\ Catalog => IInv'
<1> SUFFICES ASSUME IInv, Catalog PROVE IInv'
  OBVIOUS
<1> USE DEF argVars, execVars, outVars
<1>0. TypeOK /\ TypeOK'
  BY TypeNext DEF Next, IInv
<1>1. pc = "catalog" /\ pc \in Early /\ ~Ended /\ rid = ReadableId /\ spawned = {} /\ sent = <<>>
  BY DEF Catalog, IInv, IdRead, Spawned, Streamed, Early, Ended
<1>2. CASE RunFake
  <2>1. /\ FakeOk \in Wrapper /\ FakeOk.status = "ok" /\ FakeOk.id = rid /\ FakeOk.fake = TRUE
        /\ Answer(<<"start", "chunk">>, FakeOk)
        /\ UNCHANGED <<argVars, envVars, rid, execVars>>
    BY <1>0, <1>2, FakeTyped DEF RunFake, TypeOK
  <2> QED
    BY <1>0, <1>1, <2>1, InvAnswer, OpenSteps
<1> QED
  BY <1>0, <1>1, <1>2, InvError, InvGoto DEF Catalog

\* The weights are found and verified.
LEMMA InvVerify == IInv /\ (WeightsExist \/ Verify) => IInv'
<1> SUFFICES ASSUME IInv, WeightsExist \/ Verify PROVE IInv'
  OBVIOUS
<1> USE DEF argVars, execVars, outVars
<1>0. TypeOK /\ TypeOK'
  BY TypeNext DEF Next, IInv
<1>1. pc \in {"exists", "verify"} /\ pc \in Early /\ ~Ended /\ rid = ReadableId
  BY DEF WeightsExist, Verify, IInv, IdRead, Early, Ended
<1>2. CASE Verified /\ Verify
  <2>1. Gated' /\ Spawned' /\ Streamed' /\ IdRead' /\ Answered' /\ Probed'
    BY <1>2
    DEF Verified, Verify, IInv, Gated, Spawned, Streamed, IdRead, Answered, Probed, Early, Ended,
        ReadableId
  <2>2. OnlyVerifiedModelsRun' /\ OkIsEarned' /\ IdIsEchoed'
    BY <1>2 DEF Verified, IInv, OnlyVerifiedModelsRun, OkIsEarned, IdIsEchoed
  <2> QED
    BY <1>0, <2>1, <2>2 DEF IInv
<1> QED
  BY <1>0, <1>1, <1>2, InvError, InvTraceback, InvGoto DEF WeightsExist, Verify, OsError

\* The binary is resolved, where a preflight ends, and probed for its version.
LEMMA InvBinary == IInv /\ (ResolveBinary \/ Probe) => IInv'
<1> SUFFICES ASSUME IInv, ResolveBinary \/ Probe PROVE IInv'
  OBVIOUS
<1> USE DEF argVars, execVars, outVars
<1>0. TypeOK /\ TypeOK'
  BY TypeNext DEF Next, IInv
<1>1. spawned = {} /\ probed = "none" /\ ~Ended /\ rid = ReadableId /\ sent = <<>>
  BY DEF ResolveBinary, Probe, IInv, Spawned, Streamed, IdRead, Probed, Early, Ended
<1>2. CASE ResolveBinary /\ path = {}
  BY <1>0, <1>1, <1>2, InvError DEF ResolveBinary
<1>3. CASE ResolveBinary /\ path # {} /\ preflight
  <2> DEFINE a == [NoAnswer EXCEPT !.status = "ok", !.id = rid]
  <2>1. a \in Wrapper /\ a.status = "ok" /\ a.id = rid
    BY <1>0, ErrorTyped DEF Status, TypeOK
  <2>2. Answer(<<"start">>, a) /\ UNCHANGED <<argVars, verified, spawned, probed>>
    BY <1>3 DEF ResolveBinary
  <2> HIDE DEF a
  <2> QED
    BY <1>0, <1>1, <1>3, <2>1, <2>2, InvAnswer, OpenSteps
<1>4. CASE ResolveBinary /\ path # {} /\ ~preflight
  <2>1. Gated' /\ Spawned' /\ Streamed' /\ IdRead' /\ Answered' /\ Probed'
    BY <1>4
    DEF ResolveBinary, IInv, Gated, Spawned, Streamed, IdRead, Answered, Probed, Early, Ended,
        ReadableId
  <2>2. OnlyVerifiedModelsRun' /\ OkIsEarned' /\ IdIsEchoed'
    BY <1>1, <1>4 DEF ResolveBinary, IInv, OnlyVerifiedModelsRun, OkIsEarned, IdIsEchoed
  <2> QED
    BY <1>0, <2>1, <2>2 DEF IInv
<1>5. CASE Probe
  <2>1. Gated' /\ Spawned' /\ Streamed' /\ IdRead' /\ Answered' /\ Probed'
    BY <1>1, <1>5
    DEF Probe, IInv, Gated, Spawned, Streamed, IdRead, Answered, Probed, Early, Ended,
        ReadableId
  <2>2. spawned' # {} => binary \in req.allowed /\ spawned' = {"probe"}
    BY <1>1, <1>5 DEF Probe
  <2>3. verified /\ ~preflight /\ req.profile = "llama" /\ answer = NoAnswer /\ answer' = NoAnswer
    BY <1>5 DEF Probe, IInv, Gated, Answered
  <2>4. OnlyVerifiedModelsRun'
    BY <1>5, <2>2, <2>3 DEF Probe, OnlyVerifiedModelsRun, NoAnswer
  <2>5. OkIsEarned' /\ IdIsEchoed'
    BY <1>5, <2>3 DEF Probe, OkIsEarned, IdIsEchoed, NoAnswer
  <2> QED
    BY <1>0, <2>1, <2>4, <2>5 DEF IInv
<1> QED
  BY <1>2, <1>3, <1>4, <1>5

\* A model is started only if its name is allowed.
LEMMA InvExecute ==
  ASSUME IInv, TypeOK', pc = "run", NEW b, stream => b = binary, Execute(b)
  PROVE  IInv'
<1>a. CASE RequestError
  BY <1>a, InvError DEF IInv, IdRead, Ended
<1>b. CASE OsError
  BY <1>b, InvError, InvTraceback DEF OsError, IInv, IdRead, Ended
<1>c. SUFFICES ASSUME ~RequestError, ~OsError PROVE IInv'
  BY <1>a, <1>b
<1> USE DEF argVars, execVars, outVars
<1>1. /\ verified /\ ~preflight /\ req.profile = "llama" /\ rid = ReadableId
      /\ "model" \notin spawned /\ sent = <<>> /\ answer = NoAnswer
  BY DEF IInv, Gated, Spawned, Streamed, IdRead, Answered, Probed, Early, Ended
<1>f. /\ pc' \in {"assemble", "running"} /\ binary' = b
      /\ stream' = stream /\ preflight' = preflight /\ req' = req
      /\ rid' = rid /\ verified' = verified /\ probed' = probed /\ answer' = answer
  BY <1>c DEF Execute
<1>2. Gated' /\ IdRead' /\ Answered' /\ Probed'
  BY <1>1, <1>f DEF IInv, Gated, IdRead, Answered, Probed, Early, Ended, ReadableId
<1>3. Spawned'
  BY <1>1, <1>c DEF Execute, Spawned, Early
<1>4. Streamed'
  <2>1. pc' \in {"assemble", "running"}
    BY <1>f
  <2>2. stream /\ pc' = "running" => sent' = Append(<<>>, "start")
    BY <1>1, <1>c DEF Execute
  <2>3. CASE sent' = <<>>
    BY <1>1, <1>f, <2>1, <2>3, <2>2, OpenSteps DEF Streamed, Early, Ended
  <2>4. CASE stream /\ sent' = Append(<<>>, "start")
    BY <1>1, <1>f, <2>1, <2>4, OpenSteps DEF Streamed, Early, Ended
  <2> QED
    BY <1>1, <1>c, <2>3, <2>4 DEF Execute
<1>5. OnlyVerifiedModelsRun'
  <2>1. answer' = NoAnswer /\ binary' = b
    BY <1>1, <1>c DEF Execute
  <2>2. spawned' # {} => req.allowed # {}
    BY <1>c DEF Execute, IInv, OnlyVerifiedModelsRun
  <2>3. "model" \in spawned' => b \in req.allowed
    BY <1>1, <1>c DEF Execute
  <2> QED
    BY <1>1, <1>f, <2>1, <2>2, <2>3 DEF OnlyVerifiedModelsRun, NoAnswer
<1>6. OkIsEarned' /\ IdIsEchoed'
  BY <1>1, <1>f DEF OkIsEarned, IdIsEchoed, NoAnswer
<1> QED
  BY <1>2, <1>3, <1>4, <1>5, <1>6 DEF IInv

\* A run, its end, and the answer made of it.
LEMMA InvRun == IInv /\ (Run \/ Running \/ BudgetOverflows \/ Assemble) => IInv'
<1> SUFFICES ASSUME IInv, Run \/ Running \/ BudgetOverflows \/ Assemble PROVE IInv'
  OBVIOUS
<1> USE DEF argVars, execVars, outVars
<1>0. TypeOK /\ TypeOK'
  BY TypeNext DEF Next, IInv
<1>1. CASE Run
  <2>1. pc = "run" /\ ~Ended
    BY <1>1 DEF Run, Ended
  <2> QED
    BY <1>0, <1>1, <2>1, InvExecute, InvTraceback DEF Run
<1>2. CASE Running
  <2>1. "model" \in spawned /\ Open(sent) /\ (stream => sent # <<>>) /\ (~stream => sent = <<>>)
    BY <1>2 DEF Running, IInv, Spawned, Streamed, Ended
  <2>2. Gated' /\ Spawned' /\ IdRead' /\ Answered' /\ Probed'
    BY <1>2, <2>1
    DEF Running, IInv, Gated, Spawned, IdRead, Answered, Probed, Early, Ended,
        ReadableId
  <2>3. Streamed'
    <3>1. Open(sent') /\ (~stream => sent' = <<>>) /\ pc' = "assemble" /\ stream' = stream
      BY <1>2, <2>1, OpenSteps DEF Running
    <3> QED
      BY <3>1 DEF Streamed, Early, Ended
  <2>4. OnlyVerifiedModelsRun' /\ OkIsEarned' /\ IdIsEchoed'
    BY <1>2 DEF Running, IInv, OnlyVerifiedModelsRun, OkIsEarned, IdIsEchoed
  <2> QED
    BY <1>0, <2>2, <2>3, <2>4 DEF IInv
<1>3. CASE BudgetOverflows
  BY <1>0, <1>3, InvTraceback DEF BudgetOverflows, Ended
<1>4. CASE Assemble
  <2>1. ~Ended /\ rid = ReadableId /\ status # "none" /\ (status = "ok" => "model" \in spawned)
    BY <1>4 DEF Assemble, IInv, IdRead, Spawned, Ended
  <2>2. PICK a \in Wrapper :
          /\ Answer(<<>>, a) /\ UNCHANGED <<argVars, envVars, rid, execVars>>
          /\ a.status = Reported /\ a.id = rid /\ a.fake = FALSE
    BY <1>0, <1>4, AssembledTyped DEF Assemble, Reported
  <2>3. /\ a.status \notin {"none", "request_error", "model_error"}
        /\ a.status = "ok" => "model" \in spawned
    BY <1>0, <2>1, <2>2, ReportedTyped
  <2> QED
    BY <1>0, <2>1, <2>2, <2>3, InvAnswer, OpenSteps
<1> QED
  BY <1>1, <1>2, <1>3, <1>4

\* What moves outside changes no part of it.
LEMMA InvWorld == IInv /\ (WorldMoves \/ UNCHANGED vars) => IInv'
<1> SUFFICES ASSUME IInv, WorldMoves \/ UNCHANGED vars PROVE IInv'
  OBVIOUS
<1>0. TypeOK'
  BY TypeNext DEF Next, IInv
<1>1. UNCHANGED <<argVars, pc, rid, execVars, outVars>>
  BY DEF WorldMoves, vars
<1>2. Gated' /\ Spawned' /\ Streamed' /\ IdRead' /\ Answered' /\ Probed'
  BY <1>1
  DEF argVars, execVars, outVars, IInv, Gated, Spawned, Streamed, IdRead, Answered, Probed, Early, Ended,
      ReadableId
<1>3. OnlyVerifiedModelsRun' /\ OkIsEarned' /\ IdIsEchoed'
  BY <1>1
  DEF argVars, execVars, outVars, IInv, OnlyVerifiedModelsRun, OkIsEarned, IdIsEchoed,
      ReadableId
<1> QED
  BY <1>0, <1>2, <1>3 DEF IInv

\* The inductive invariant holds throughout.
THEOREM Invariant == Spec => []IInv
<1>1. IInv /\ [Next]_vars => IInv'
  BY InvRequest, InvCatalog, InvVerify, InvBinary, InvRun, InvWorld DEF Next
<1> QED
  BY <1>1, InvInit, PTL DEF Spec

-----------------------------------------------------------------------------
(* What follows from it.                                                   *)

\* A call that ends in order has answered once, at the end of its stream, and its
\* exit code is that of its answer.
THEOREM AnswersOnce == Spec => []OneAnswer
<1>1. IInv => OneAnswer
  <2> SUFFICES ASSUME IInv, pc = "exited" PROVE OneAnswer
    BY DEF OneAnswer
  <2>1. answer.status # "none" /\ exit = ExitCode(answer.status)
    BY DEF IInv, Answered
  <2>2. /\ exit = "0" <=> answer.status = "ok"
        /\ exit = "1" <=> answer.status = "generation_error"
        /\ exit = "124" <=> answer.status = "timeout"
    BY <2>1, ExitCodeTyped
  <2>3. stream => Closed(sent)
    BY DEF IInv, Streamed
  <2> QED
    BY <2>1, <2>2, <2>3, ClosedCounts, Zenon DEF OneAnswer
<1> QED
  BY <1>1, Invariant, PTL

\* A runner is spawned only past the verification and the gates, whatever the
\* candidates, and no error is reported of a model that ran.
THEOREM GatesHold == Spec => []OnlyVerifiedModelsRun
<1>1. IInv => OnlyVerifiedModelsRun
  BY DEF IInv
<1> QED
  BY <1>1, Invariant, PTL

\* An ok answer comes from a model that ran, or is marked, and a stream names the
\* version of that model's binary.
THEOREM OkEarned == Spec => []OkIsEarned
<1>1. IInv => OkIsEarned
  BY DEF IInv
<1> QED
  BY <1>1, Invariant, PTL

\* The id of the request comes back.
THEOREM IdEchoed == Spec => []IdIsEchoed
<1>1. IInv => IdIsEchoed
  BY DEF IInv
<1> QED
  BY <1>1, Invariant, PTL
=============================================================================
