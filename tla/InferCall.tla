----------------------------- MODULE InferCall -----------------------------
(***************************************************************************)
(* One call of `bls infer`, buffered or streaming: cmd_infer and           *)
(* _cmd_infer_stream of cli.py around run_infer_request of infer.py, from  *)
(* the request file to the process exit, while the weight file and the     *)
(* binaries on PATH may change under it.                                   *)
(*                                                                         *)
(* Verification (ModelCache), the buffered execution (BufferedRun) and the *)
(* relay (StreamRelay) are steps here; text is told apart only by whether  *)
(* the absolute path of the weights occurs in it.                          *)
(***************************************************************************)
EXTENDS Naturals, Sequences, FiniteSets

CONSTANT Candidates   \* CANDIDATE_BINARIES, in order

ASSUME CandidatesAssumption == Candidates \in Seq(STRING)

Binary     == {Candidates[i] : i \in DOMAIN Candidates}
Event      == {"start", "chunk", "final"}
Text       == {"none", "plain", "path", "label"}
Status     == {"request_error", "model_error", "denied", "spawn_error",
               "ok", "generation_error", "timeout"}
Weights    == {"good", "bad", "unreadable", "absent"}
Id         == {"none", "id"}

\* What the request file holds.  An unparsable one makes json.loads raise an
\* exception of another class than it documents (a nesting too deep, an integer
\* too long).  A mistyped request_id makes a request invalid; a mistyped
\* working_dir is found out by the gate that uses it.
Request == {r \in [file : {"parsed", "unreadable", "unparsable"}, valid : BOOLEAN,
                   id : {"none", "id", "mistyped"},
                   profile : {"invalid", "fake", "llama"}, allowFake : BOOLEAN,
                   fits : BOOLEAN, allowed : SUBSET Binary,
                   workdir : {"unset", "set", "mistyped"}] :
              r.id = "mistyped" => ~r.valid}

NoAnswer == [status |-> "none", id |-> "none", text |-> "none", fake |-> FALSE]

VARIABLES stream, preflight, req,  \* the arguments and the request
          weights, path,           \* the weight file; the binaries on PATH
          pc,
          rid,                     \* request_id, once read
          verified,                \* resolve_and_verify has succeeded
          binary,                  \* runner_binary of the model block
          probed,                  \* the binary runner_version comes from
          spawned,                 \* history: what was spawned
          status, text,            \* ExecResult: status and stdout
          sent,                    \* the events on stdout
          answer,                  \* the wrapper emitted, or printed
          exit                     \* the exit code of the process

argVars  == <<stream, preflight, req>>
envVars  == <<weights, path>>
execVars == <<verified, binary, probed, spawned, status, text>>
outVars  == <<sent, answer, exit>>
vars == <<argVars, envVars, pc, rid, execVars, outVars>>

Labels == {"args", "read", "validate", "catalog", "exists", "verify", "binary",
           "probe", "run", "running", "assemble", "exited", "traceback"}

Init ==
  /\ stream \in BOOLEAN
  /\ preflight \in BOOLEAN
  /\ req \in Request
  /\ weights \in Weights
  /\ path \in SUBSET Binary
  /\ pc = "args"
  /\ rid = "none"
  /\ verified = FALSE
  /\ binary = "none"
  /\ probed = "none"
  /\ spawned = {}
  /\ status = "none"
  /\ text = "none"
  /\ sent = <<>>
  /\ answer = NoAnswer
  /\ exit = "none"

-----------------------------------------------------------------------------
(* How a call ends.                                                        *)

\* INFER_STATUS_EXIT, and 2 for a request_error.
ExitCode(s) == CASE s = "ok" -> "0"
                 [] s = "generation_error" -> "1"
                 [] s = "timeout" -> "124"
                 [] OTHER -> "2"

\* Mutant: the wrapper is returned without going through _finalize.
AnswerUnsent(events, a) ==
  /\ sent' = sent \o (IF stream /\ a.status # "model_error" THEN events \o <<"final">> ELSE <<>>)
  /\ answer' = a
  /\ exit' = ExitCode(a.status)
  /\ pc' = "exited"

\* The wrapper, preceded by these events, is the final event of a stream or
\* all that is printed; the exit code follows from its status.
Answer(events, a) ==
  /\ sent' = sent \o (IF stream THEN events \o <<"final">> ELSE <<>>)
  /\ answer' = a
  /\ exit' = ExitCode(a.status)
  /\ pc' = "exited"

RequestError ==
  /\ Answer(<<>>, [NoAnswer EXCEPT !.status = "request_error", !.id = rid])
  /\ UNCHANGED <<argVars, envVars, rid, execVars>>

ModelError ==
  /\ Answer(<<>>, [NoAnswer EXCEPT !.status = "model_error", !.id = rid])
  /\ UNCHANGED <<argVars, envVars, rid, execVars>>

\* An exception no handler of cli.py names.
Traceback ==
  /\ exit' = "1"
  /\ pc' = "traceback"
  /\ UNCHANGED <<argVars, envVars, rid, execVars, sent, answer>>

Goto(l) ==
  /\ pc' = l
  /\ UNCHANGED <<argVars, envVars, rid, execVars, outVars>>

-----------------------------------------------------------------------------
(* Reading and validating.                                                 *)

\* The id a request file gives: only a string counts.
ReadableId == IF req.file = "parsed" /\ req.id = "id" THEN "id" ELSE "none"

\* --stream excludes --preflight; the id is read for the answer.
Arguments ==
  /\ pc = "args"
  /\ \/ ~(stream /\ preflight) /\ Goto("read")
     \/ stream /\ preflight /\ req.file = "unparsable" /\ Traceback
     \/ /\ stream /\ preflight /\ req.file # "unparsable"
        /\ Answer(<<>>, [NoAnswer EXCEPT !.status = "request_error", !.id = ReadableId])
        /\ UNCHANGED <<argVars, envVars, rid, execVars>>

\* Mutant: the id is taken up once the request is known to be valid.
ReadRequestLate ==
  /\ pc = "read"
  /\ IF req.file = "unreadable" THEN RequestError
     ELSE IF req.file = "unparsable" THEN Traceback
     ELSE /\ rid' = IF req.valid THEN ReadableId ELSE "none"
          /\ pc' = "validate"
          /\ UNCHANGED <<argVars, envVars, execVars, outVars>>

ReadRequest ==
  /\ pc = "read"
  /\ IF req.file = "unreadable" THEN RequestError
     ELSE IF req.file = "unparsable" THEN Traceback
     ELSE /\ rid' = ReadableId
          /\ pc' = "validate"
          /\ UNCHANGED <<argVars, envVars, execVars, outVars>>

\* InferRequestError or PolicyError, before any event; or what no handler names,
\* when math.isfinite refuses an integer.
Validate ==
  /\ pc = "validate"
  /\ \/ req.valid /\ Goto("catalog")
     \/ ~req.valid /\ RequestError
     \/ ~req.valid /\ Traceback

\* Mutant: a fake completion is not marked.
FakeOkUnmarked == [NoAnswer EXCEPT !.status = "ok", !.id = rid, !.text = "plain"]

FakeOk == [NoAnswer EXCEPT !.status = "ok", !.id = rid, !.fake = TRUE,
                           !.text = IF preflight THEN "none" ELSE "plain"]

\* _run_fake runs in the process: start, the text, final.
RunFake ==
  /\ Answer(<<"start", "chunk">>, FakeOk)
  /\ UNCHANGED <<argVars, envVars, rid, execVars>>

\* The profile, the context length, the runner family and the fake gate.
Catalog ==
  /\ pc = "catalog"
  /\ \/ req.profile = "invalid" /\ ModelError
     \/ req.profile # "invalid" /\ ~req.fits /\ RequestError
     \/ req.profile = "fake" /\ req.fits /\ ~req.allowFake /\ ModelError
     \/ req.profile = "fake" /\ req.fits /\ req.allowFake /\ RunFake
     \/ req.profile = "llama" /\ req.fits /\ Goto("exists")

-----------------------------------------------------------------------------
(* The model and the runner.                                               *)

WeightsExist ==
  /\ pc = "exists"
  /\ IF weights = "absent" THEN ModelError ELSE Goto("verify")

\* An OSError past the reading is for cmd_infer an unreadable request, and
\* _cmd_infer_stream does not catch it.
OsError == IF stream THEN Traceback ELSE RequestError

Verified ==
  /\ verified' = TRUE
  /\ pc' = "binary"
  /\ UNCHANGED <<argVars, envVars, rid, binary, probed, spawned, status, text, outVars>>

\* An OSError of os.stat or open is no ModelCacheError; an unreadable file passes
\* only by its sidecar.
Verify ==
  /\ pc = "verify"
  /\ \/ weights \in {"absent", "unreadable"} /\ OsError
     \/ weights = "bad" /\ ModelError
     \/ weights \in {"good", "unreadable"} /\ Verified

\* The first candidate found.
Found ==
  Candidates[CHOOSE i \in DOMAIN Candidates :
               Candidates[i] \in path /\ \A j \in 1..(i - 1) : Candidates[j] \notin path]

\* Mutant: a preflight goes on like a call.
ResolveBinaryAlways ==
  /\ pc = "binary"
  /\ IF path = {} THEN ModelError
     ELSE /\ binary' = Found
          /\ pc' = "probe"
          /\ UNCHANGED <<argVars, envVars, rid, verified, probed, spawned, status, text, outVars>>

\* resolve_binary; a preflight ends here.
ResolveBinary ==
  /\ pc = "binary"
  /\ IF path = {} THEN ModelError
     ELSE /\ binary' = Found
          /\ UNCHANGED <<argVars, envVars, rid, verified, probed, spawned, status, text>>
          /\ IF preflight THEN Answer(<<"start">>, [NoAnswer EXCEPT !.status = "ok", !.id = rid])
                          ELSE pc' = "probe" /\ UNCHANGED outVars

\* probe_version: `binary --version` under the same gates; a failure of any kind
\* is no version, and never an error.
Probe ==
  /\ pc = "probe"
  /\ \/ UNCHANGED <<spawned, probed>>
     \/ /\ binary \in req.allowed /\ req.workdir # "mistyped"
        /\ spawned' = spawned \cup {"probe"}
        /\ probed' \in {"none", binary}
  /\ pc' = "run"
  /\ UNCHANGED <<argVars, envVars, rid, verified, binary, status, text, outVars>>

-----------------------------------------------------------------------------
(* The execution.                                                          *)

\* The gates and the spawn, of binary b: it is denied, working_dir raises in its
\* gate (a TypeError, or an OSError of is_dir), it cannot be started (GatedRun has
\* the reasons), or it runs.
Execute(b) ==
  \/ /\ b \notin req.allowed
     /\ status' = "denied"
     /\ binary' = b
     /\ pc' = "assemble"
     /\ UNCHANGED <<argVars, envVars, rid, verified, probed, spawned, text, outVars>>
  \/ b \in req.allowed /\ req.workdir = "mistyped" /\ RequestError
  \/ b \in req.allowed /\ req.workdir = "set" /\ OsError
  \/ /\ b \in req.allowed /\ req.workdir # "mistyped"
     /\ status' = "spawn_error"
     /\ binary' = b
     /\ pc' = "assemble"
     /\ UNCHANGED <<argVars, envVars, rid, verified, probed, spawned, text, outVars>>
  \/ /\ b \in req.allowed /\ req.workdir # "mistyped"
     /\ spawned' = spawned \cup {"model"}
     /\ sent' = IF stream THEN Append(sent, "start") ELSE sent
     /\ binary' = b
     /\ pc' = "running"
     /\ UNCHANGED <<argVars, envVars, rid, verified, probed, status, text, answer, exit>>

\* run_llama_stream takes the binary resolved before; run_llama resolves it
\* again, and its RunnerError escapes.
Run ==
  /\ pc = "run"
  /\ IF stream THEN Execute(binary)
     ELSE IF path = {} THEN Traceback ELSE Execute(Found)

\* The relay sends what the child writes as it is.
Running ==
  /\ pc = "running"
  /\ text' \in {"none", "plain", "path"}
  /\ sent' = IF stream /\ text' # "none" THEN Append(sent, "chunk") ELSE sent
  /\ status' \in {"ok", "exit_nonzero", "timeout"}
  /\ pc' = "assemble"
  /\ UNCHANGED <<argVars, envVars, rid, verified, binary, probed, spawned, answer, exit>>

\* A buffered run whose budget is beyond the range of the selector: BufferedRun's
\* OverflowError, which no handler names. The model is left running.
BudgetOverflows ==
  /\ pc = "running"
  /\ ~stream
  /\ Traceback

\* _scrub: the path is replaced by its ${...} label.
Scrub(t) == IF t = "path" THEN "label" ELSE t

\* Mutant: the ExecResult status is passed on.
AssembleUnmapped ==
  /\ pc = "assemble"
  /\ Answer(<<>>, [NoAnswer EXCEPT !.status = status, !.id = rid, !.text = Scrub(text)])
  /\ UNCHANGED <<argVars, envVars, rid, execVars>>

\* _EXEC_STATUS_MAP, the scrub, the wrapper.
Assemble ==
  /\ pc = "assemble"
  /\ Answer(<<>>, [NoAnswer EXCEPT
       !.status = IF status = "exit_nonzero" THEN "generation_error" ELSE status,
       !.id = rid, !.text = Scrub(text)])
  /\ UNCHANGED <<argVars, envVars, rid, execVars>>

\* Files come and go, on disk and on PATH.
WorldMoves ==
  /\ pc \notin {"exited", "traceback"}
  /\ \/ weights' \in Weights /\ UNCHANGED path
     \/ path' \in SUBSET Binary /\ UNCHANGED weights
  /\ UNCHANGED <<argVars, pc, rid, execVars, outVars>>

Next ==
  \/ Arguments \/ ReadRequest \/ Validate \/ Catalog
  \/ WeightsExist \/ Verify \/ ResolveBinary \/ Probe \/ Run \/ Running
  \/ BudgetOverflows \/ Assemble
  \/ WorldMoves

Spec == Init /\ [][Next]_vars

-----------------------------------------------------------------------------
(* Properties.                                                             *)

Count(e) == Cardinality({i \in DOMAIN sent : sent[i] = e})

\* Every variable has its type.
TypeOK ==
  /\ <<stream, preflight>> \in BOOLEAN \X BOOLEAN
  /\ req \in Request
  /\ weights \in Weights
  /\ path \subseteq Binary
  /\ pc \in Labels
  /\ rid \in Id
  /\ verified \in BOOLEAN
  /\ {binary, probed} \subseteq Binary \cup {"none"}
  /\ spawned \subseteq {"probe", "model"}
  /\ status \in {"none", "denied", "spawn_error", "ok", "exit_nonzero", "timeout"}
  /\ text \in Text \ {"label"}
  /\ sent \in Seq(Event)
  /\ answer \in [status : Status \cup {"none"}, id : Id, text : Text, fake : BOOLEAN]
  /\ exit \in {"none", "0", "1", "2", "124"}

\* A call that ends in order has answered once: a stream has one final, its
\* last event, at most one start, its first, and no chunk without a start; and
\* the exit code tells an ok, a failed generation and a timeout from each other
\* and from all that is refused.
OneAnswer ==
  pc = "exited" =>
    /\ answer.status # "none"
    /\ (exit = "0") = (answer.status = "ok")
    /\ (exit = "1") = (answer.status = "generation_error")
    /\ (exit = "124") = (answer.status = "timeout")
    /\ stream => /\ Count("final") = 1 /\ sent[Len(sent)] = "final"
                 /\ Count("start") <= 1
                 /\ Count("start") = 1 \/ Count("chunk") > 0 => sent[1] = "start"

\* A runner is spawned only past every gate: the weights were verified, in this
\* call, its name is allowed, and it is no preflight and no fake profile; an
\* answer that reports a model error comes before any spawn, and one that reports
\* a request error (a working_dir may raise after the probe) before the model's.
OnlyVerifiedModelsRun ==
  /\ spawned # {} => verified /\ ~preflight /\ req.profile = "llama" /\ req.allowed # {}
  /\ "model" \in spawned => binary \in req.allowed
  /\ answer.status = "model_error" => spawned = {}
  /\ answer.status = "request_error" => "model" \notin spawned

\* An ok answer is never taken for more than it is: without a preflight it
\* comes from a spawned model or is marked fake, and not both; and in a stream its
\* runner_version is that of the binary that ran (a buffered call may have resolved
\* another one since the probe).
OkIsEarned ==
  answer.status = "ok" /\ ~preflight =>
    /\ answer.fake = ("model" \notin spawned)
    /\ stream => probed \in {"none", binary}

\* The answer carries the id of the request whenever the file has one, however
\* late or early the call fails.
IdIsEchoed ==
  pc = "exited" => answer.id = ReadableId

-----------------------------------------------------------------------------
(* What the documentation says and the code does not do.                   *)

\* A stream that breaks off without a final has at least begun (cli.py): a
\* failure before the first event is a final.
EarlyFailureIsAFinal == pc = "traceback" /\ stream => sent # <<>>
=============================================================================
