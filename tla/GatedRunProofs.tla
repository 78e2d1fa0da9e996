--------------------------- MODULE GatedRunProofs ---------------------------
(***************************************************************************)
(* Proofs about GatedRun, for any environment names and any sets of them   *)
(* that are proxies or secrets: what runs, what it sees of the environment, *)
(* and how a call ends.                                                    *)
(***************************************************************************)
EXTENDS GatedRun, TLAPS

-----------------------------------------------------------------------------
(* The operators.                                                          *)

\* build_child_env gives each variable it passes to the child a value of the
\* caller's or its own.
LEMMA ScrubTyped ==
  ASSUME NEW s \in Scrub
  PROVE  \E S \in SUBSET Var : BuildChildEnv(s) \in [S -> {"caller", "sandbox"}]
<1> DEFINE kept == IF s.network = "offline" THEN Kept(s) \ Proxy ELSE Kept(s)
           ours == IF s.network = "offline" THEN NoProxy \cup {"SANDBOX_NETWORK"}
                                            ELSE {"SANDBOX_NETWORK"}
<1>1. BuildChildEnv(s) = [n \in kept \cup ours |-> IF n \in ours THEN "sandbox" ELSE "caller"]
  BY DEF BuildChildEnv
<1>2. kept \cup ours \in SUBSET Var
  BY EnvAssumption DEF Scrub, Kept
<1> HIDE DEF kept, ours
<1>3. BuildChildEnv(s) \in [kept \cup ours -> {"caller", "sandbox"}]
  BY <1>1
<1> QED
  BY <1>2, <1>3

\* What the child gets of the caller is named, no secret unless the policy opts
\* in, and offline no proxy; the variables of the sandbox are its own, whatever
\* the policy names.
LEMMA ScrubSafe ==
  ASSUME NEW s \in Scrub, NEW n
  PROVE  LET env == BuildChildEnv(s)
             caller == {m \in DOMAIN env : env[m] = "caller"} IN
         /\ n \in caller => n \in s.named /\ (n \in Secret => s.secrets)
         /\ n = "SANDBOX_NETWORK" => n \in DOMAIN env \ caller
         /\ s.network = "offline" => n \notin caller \cap Proxy
         /\ s.network = "offline" /\ n \in NoProxy => n \in DOMAIN env \ caller
<1> DEFINE kept == IF s.network = "offline" THEN Kept(s) \ Proxy ELSE Kept(s)
           ours == IF s.network = "offline" THEN NoProxy \cup {"SANDBOX_NETWORK"}
                                            ELSE {"SANDBOX_NETWORK"}
           env  == [m \in kept \cup ours |-> IF m \in ours THEN "sandbox" ELSE "caller"]
<1>1. BuildChildEnv(s) = env
  BY DEF BuildChildEnv
<1>2. /\ n \in kept => n \in s.named /\ (n \in Secret => s.secrets)
      /\ s.network = "offline" => n \notin kept \cap Proxy
      /\ n = "SANDBOX_NETWORK" => n \in ours
      /\ s.network = "offline" /\ n \in NoProxy => n \in ours
  BY DEF Kept
<1> HIDE DEF kept, ours
<1>3. /\ DOMAIN env = kept \cup ours
      /\ n \in ours => n \in DOMAIN env /\ env[n] = "sandbox"
      /\ n \in DOMAIN env /\ env[n] = "caller" => n \in kept
  OBVIOUS
<1> HIDE DEF env
<1> QED
  BY <1>1, <1>2, <1>3

\* A place is neither the absence of a file nor that of a report.
LEMMA PlacesAreFiles ==
  ASSUME NEW p \in Place
  PROVE  /\ p # None /\ p # Missing
         /\ \E d \in Dir, from \in {"here", "there"} : p = At(d, from)
BY DEF Place, At, None, Missing

\* What `which` has named and what exec then starts are the same file, but for a
\* file that exec refuses and for a relative directory.
LEMMA LookupsAgree ==
  ASSUME NEW named, Which(named), NEW found \in Place, Resolves(found),
         "PATH" \in DOMAIN childEnv, found # named, files \in [Place -> File]
  PROVE  \/ named # Missing /\ files[named] = "refused"
         \/ cwd = "set" /\ \/ found \in Relative \X {"there"}
                           \/ named \in Relative \X {"here"}
<1> DEFINE from == IF cwd = "set" THEN "there" ELSE "here"
<1> SUFFICES ASSUME ~(cwd = "set" /\ found \in Relative \X {"there"}),
                    ~(cwd = "set" /\ named \in Relative \X {"here"})
             PROVE  named # Missing /\ files[named] = "refused"
  OBVIOUS
<1>0. DOMAIN Path = 1..Len(Path) /\ Len(Path) \in Nat /\ \A i \in 1..Len(Path) : Path[i] \in Dir
  BY PathAssumption
<1>1. PICK k \in 1..Len(Path) : FirstHit(k, Path, from, {"program"}) /\ found = At(Path[k], from)
  BY <1>0 DEF Resolves
<1>2. found = At(Path[k], "here") /\ files[At(Path[k], "here")] = "program"
  <2>1. files[At(Path[k], from)] = "program"
    BY <1>1 DEF FirstHit
  <2>2. CASE cwd # "set"
    BY <1>1, <2>1, <2>2
  <2>3. CASE cwd = "set" /\ Path[k] \notin Relative
    BY <1>1, <2>1, <2>3 DEF At
  <2>4. CASE cwd = "set" /\ Path[k] \in Relative
    BY <1>1, <2>4 DEF At
  <2> QED
    BY <2>2, <2>3, <2>4
<1>3. PICK i \in 1..Len(Path) : /\ FirstHit(i, Path, "here", {"refused", "program"})
                               /\ named = At(Path[i], "here")
  BY <1>0, <1>2 DEF Which
<1>4. named \in Place
  BY <1>0, <1>3 DEF Place
<1>5. i < k
  <2>1. ~(k < i)
    BY <1>2, <1>3 DEF FirstHit
  <2>2. i # k
    BY <1>2, <1>3
  <2> QED
    BY <2>1, <2>2
<1>6. named = At(Path[i], from)
  BY <1>3 DEF At
<1>7. files[named] # "program"
  BY <1>1, <1>5, <1>6 DEF FirstHit
<1> QED
  BY <1>3, <1>4, <1>7, PlacesAreFiles DEF FirstHit

\* The statuses, and the exit codes they give.
Outcome == {"denied", "spawn_error", "request_error", "ok", "exit_nonzero", "timeout"}

\* 0 is ok, and 2 is that nothing was started.
LEMMA ExitTyped ==
  ASSUME NEW s \in Outcome
  PROVE  /\ ExitFor(s) \in {"0", "1", "2", "124"}
         /\ ExitFor(s) = "0" <=> s = "ok"
         /\ ExitFor(s) = "2" <=> s \in {"denied", "spawn_error", "request_error"}
BY DEF ExitFor, Outcome

\* What every end of a call leaves.
LEMMA AnswerEffect ==
  ASSUME NEW s \in Outcome, Answer(s)
  PROVE  /\ pc' = "exited" /\ answer'.status = s /\ answer'.id = rid
         /\ exit' \in {"0", "1", "2", "124"}
         /\ exit' = "0" <=> s = "ok"
         /\ exit' = "2" <=> s \in {"denied", "spawn_error", "request_error"}
BY ExitTyped DEF Answer

\* An exception that a broker answers leaves `run`.
LEMMA RaiseEffect ==
  ASSUME Raise
  PROVE  \/ command = "broker-run" /\ Answer("request_error")
         \/ command # "broker-run" /\ Traceback
BY DEF Raise

-----------------------------------------------------------------------------
(* Types.                                                                  *)

\* The initial states are well typed.
LEMMA TypeInit == Init => TypeOK
BY DEF Init, TypeOK, None, Cwd, Fault

\* Every step keeps the types.
LEMMA TypeNext == TypeOK /\ [Next]_vars => TypeOK'
<1> SUFFICES ASSUME TypeOK, [Next]_vars PROVE TypeOK'
  OBVIOUS
<1> USE DEF inputVars, policyVars, worldVars, runVars, outVars
<1> DEFINE OutTyped == /\ pc' \in {"exited", "traceback"}
                       /\ answer'.status \in Outcome \cup {"none"}
                       /\ exit' \in {"none", "0", "1", "2", "124"}
<1>a. ASSUME NEW s \in Outcome, Answer(s) PROVE OutTyped
  BY <1>a, AnswerEffect
<1>t. Traceback => OutTyped
  BY DEF Traceback, TypeOK, Outcome
<1>r. Raise => OutTyped
  BY <1>a, <1>t, RaiseEffect DEF Outcome
<1>1. CASE Preflight
  BY <1>1 DEF Preflight, TypeOK
<1>2. CASE LoadRun
  BY <1>2, <1>a, <1>r DEF LoadRun, TypeOK, Outcome, Gates, Cwd, Budget
<1>3. CASE ReadRequest
  BY <1>3, <1>r, <1>t DEF ReadRequest, ReadableId, TypeOK, Outcome
<1>4. CASE LoadRequest
  BY <1>4, <1>t, <1>r DEF LoadRequest, TypeOK, Outcome, Gates, Cwd, Budget
<1>5. CASE CheckGates
  BY <1>5, <1>a, <1>r DEF CheckGates, TypeOK, Outcome
<1>6. CASE Prepare
  <2>1. \E S \in SUBSET Var : childEnv' \in [S -> {"caller", "sandbox"}]
    BY <1>6, ScrubTyped DEF Prepare
  <2> QED
    BY <1>6, <2>1 DEF Prepare, TypeOK
<1>7. CASE Spawn
  <2>1. executed' \in Place \cup {None}
    BY <1>7 DEF Spawn, TypeOK
  <2> QED
    BY <1>7, <2>1, <1>a, <1>t DEF Spawn, TypeOK, Outcome
<1>8. CASE Communicate
  BY <1>8, <1>a, <1>t DEF Communicate, TypeOK, Outcome
<1>9. CASE WorldMoves
  BY <1>9 DEF WorldMoves, TypeOK
<1>10. CASE UNCHANGED vars
  BY <1>10 DEF vars, TypeOK
<1> QED
  BY <1>1, <1>2, <1>3, <1>4, <1>5, <1>6, <1>7, <1>8, <1>9, <1>10 DEF Next

\* Type correctness of a gated call.
THEOREM GatedTypeCorrect == Spec => []TypeOK
<1> QED
  BY TypeInit, TypeNext, PTL DEF Spec

-----------------------------------------------------------------------------
(* The inductive invariant.                                                *)

\* Past the validation the input was good, and a broker's limit was validated.
Loaded ==
  /\ pc \in {"gates", "prepare", "spawn", "communicate"} =>
       /\ fault = "none" /\ gates \in Gates /\ budget \in Budget
       /\ command = "broker-run" => budget \in Valid
  /\ pc = "validate" => command = "broker-run" /\ fault \notin {"unreadable", "unparsable"}
  /\ ~argv.passable => command = "broker-run"

\* Past the gates the command is allowed, and nothing was started before them.
Passed ==
  /\ pc \in {"prepare", "spawn", "communicate"} => Allowed
  /\ executed # None => pc \in {"communicate", "exited", "traceback"}
  /\ pc = "communicate" => executed # None

\* What the child sees is what the scrub has made of the caller's environment.
Scrubbed == childEnv # None => scrub \in Scrub /\ childEnv = BuildChildEnv(scrub)

\* The id is read first; `run` has none.
IdRead ==
  /\ pc = "start" => rid = "none"
  /\ pc # "start" => rid = ReadableId
  /\ command = "run" => id = "none"

\* A report speaks of the files as they are.
ReportIsCurrent == report # None => Which(report)

IInv ==
  /\ TypeOK /\ Loaded /\ Passed /\ Scrubbed /\ IdRead /\ ReportIsCurrent
  /\ NothingRunsUnlessAllowed /\ AnswerIsTrue /\ TracebacksAreKnown /\ PreflightNamesTheFile

\* The invariant holds initially.
LEMMA InvInit == Init => IInv
<1> SUFFICES ASSUME Init PROVE IInv
  OBVIOUS
<1>1. TypeOK
  BY TypeInit
<1>2. Loaded /\ Passed /\ Scrubbed /\ IdRead /\ ReportIsCurrent
  BY DEF Init, Loaded, Passed, Scrubbed, IdRead, ReportIsCurrent, None
<1>3. NothingRunsUnlessAllowed /\ AnswerIsTrue /\ TracebacksAreKnown /\ PreflightNamesTheFile
  BY DEF Init, NothingRunsUnlessAllowed, AnswerIsTrue, TracebacksAreKnown, PreflightNamesTheFile
<1> QED
  BY <1>1, <1>2, <1>3 DEF IInv

\* A preflight only reports.
LEMMA InvPreflight == IInv /\ Preflight => IInv'
<1> SUFFICES ASSUME IInv, Preflight PROVE IInv'
  OBVIOUS
<1> USE DEF inputVars, runVars, outVars, IInv
<1>0. TypeOK'
  BY TypeNext DEF Next
<1>1. executed = None
  BY DEF Preflight, Passed
<1>2. Loaded' /\ Passed' /\ Scrubbed' /\ IdRead'
  BY <1>1 DEF Preflight, Loaded, Passed, Scrubbed, IdRead, ReadableId
<1>3. ReportIsCurrent'
  BY DEF Preflight, ReportIsCurrent, Which, FirstHit
<1>4. NothingRunsUnlessAllowed' /\ AnswerIsTrue' /\ TracebacksAreKnown' /\ PreflightNamesTheFile'
  BY <1>1 DEF Preflight, NothingRunsUnlessAllowed, AnswerIsTrue, TracebacksAreKnown,
     PreflightNamesTheFile
<1> QED
  BY <1>0, <1>2, <1>3, <1>4

\* An answer is true if its status says whether a file was started.
LEMMA AnswerTrue ==
  ASSUME NEW s \in Outcome, Answer(s), UNCHANGED <<id, fault>>, rid = ReadableId,
         s \in {"denied", "spawn_error", "request_error"} <=> executed' = None
  PROVE  AnswerIsTrue'
<1>1. exit' = "2" <=> executed' = None
  BY AnswerEffect
<1>2. exit' = "0" <=> answer'.status = "ok"
  BY AnswerEffect
<1>3. answer'.id = ReadableId'
  BY AnswerEffect DEF ReadableId
<1> QED
  BY <1>1, <1>2, <1>3, Zenon DEF AnswerIsTrue

\* `run` loads its policy: an error ends the call; what goes on to the gates is
\* valid, but for the options.
LEMMA InvLoadRun == IInv /\ LoadRun => IInv'
<1> SUFFICES ASSUME IInv, LoadRun PROVE IInv'
  OBVIOUS
<1> USE DEF inputVars, worldVars, runVars, outVars, IInv
<1>0. TypeOK /\ TypeOK'
  BY TypeNext DEF Next
<1>1. executed = None /\ executed' = None
  BY DEF LoadRun, Passed
<1>2. /\ command = "run" /\ rid = ReadableId
      /\ pc' \in {"gates", "exited", "traceback"}
  BY AnswerEffect DEF LoadRun, Raise, Traceback, IdRead, ReadableId, Outcome
<1>3. Loaded'
  BY <1>0, <1>1, <1>2, AnswerEffect
  DEF LoadRun, Raise, Traceback, Loaded, Outcome, TypeOK, Gates, Budget
<1>4. Passed' /\ Scrubbed' /\ IdRead' /\ ReportIsCurrent'
  BY <1>1, <1>2 DEF LoadRun, Passed, Scrubbed, IdRead, ReportIsCurrent, Which, FirstHit, ReadableId
<1>5. NothingRunsUnlessAllowed' /\ PreflightNamesTheFile'
  BY <1>1 DEF NothingRunsUnlessAllowed, PreflightNamesTheFile
<1>6. AnswerIsTrue'
  <2>1. CASE argv.name = "empty"
    BY <1>1, <1>2, <2>1, AnswerTrue DEF LoadRun, Outcome
  <2>2. CASE argv.name # "empty"
    BY <1>2, <2>2 DEF LoadRun, Raise, Traceback, AnswerIsTrue
  <2> QED
    BY <2>1, <2>2
<1>7. TracebacksAreKnown'
  BY <1>1, <1>2, AnswerEffect DEF LoadRun, TracebacksAreKnown, Outcome
<1> QED
  BY <1>0, <1>3, <1>4, <1>5, <1>6, <1>7

\* A request is read, its id first.
LEMMA InvReadRequest == IInv /\ ReadRequest => IInv'
<1> SUFFICES ASSUME IInv, ReadRequest PROVE IInv'
  OBVIOUS
<1> USE DEF inputVars, policyVars, worldVars, runVars, outVars, IInv
<1>0. TypeOK /\ TypeOK'
  BY TypeNext DEF Next
<1>1. /\ executed = None /\ executed' = None /\ command = "broker-run"
      /\ pc' \in {"validate", "exited", "traceback"}
      /\ pc' = "traceback" => fault = "unparsable"
      /\ rid' = ReadableId'
  BY AnswerEffect DEF ReadRequest, Raise, Traceback, Passed, Outcome, ReadableId
<1>2. Loaded' /\ Passed' /\ Scrubbed' /\ IdRead' /\ ReportIsCurrent'
  <2>1. Loaded'
    BY <1>1, AnswerEffect DEF ReadRequest, Raise, Traceback, Loaded, Outcome
  <2>2. Passed' /\ Scrubbed' /\ IdRead' /\ ReportIsCurrent'
    BY <1>1 DEF ReadRequest, Passed, Scrubbed, IdRead, ReportIsCurrent, Which, FirstHit
  <2> QED
    BY <2>1, <2>2
<1>3. NothingRunsUnlessAllowed' /\ PreflightNamesTheFile' /\ TracebacksAreKnown'
  BY <1>1 DEF ReadRequest, NothingRunsUnlessAllowed, PreflightNamesTheFile, TracebacksAreKnown
<1>4. AnswerIsTrue'
  <2>1. CASE fault = "unreadable"
    <3>1. rid = ReadableId
      BY <2>1 DEF ReadRequest, IdRead, ReadableId
    <3> QED
      BY <1>1, <2>1, <3>1, AnswerTrue DEF ReadRequest, Raise, Outcome
  <2>2. CASE fault # "unreadable"
    BY <2>2 DEF ReadRequest, Traceback, AnswerIsTrue
  <2> QED
    BY <2>1, <2>2
<1> QED
  BY <1>0, <1>2, <1>3, <1>4

\* A request is validated, its overrides with it.
LEMMA InvLoadRequest == IInv /\ LoadRequest => IInv'
<1> SUFFICES ASSUME IInv, LoadRequest PROVE IInv'
  OBVIOUS
<1> USE DEF inputVars, worldVars, runVars, outVars, IInv
<1>0. TypeOK /\ TypeOK'
  BY TypeNext DEF Next
<1>1. /\ executed = None /\ executed' = None /\ command = "broker-run" /\ rid = ReadableId
      /\ pc' \in {"gates", "exited", "traceback"}
  BY AnswerEffect DEF LoadRequest, Raise, Traceback, Passed, Loaded, IdRead, Outcome
<1>2. Loaded'
  BY <1>0, <1>1, AnswerEffect
  DEF LoadRequest, Raise, Traceback, Loaded, Outcome, TypeOK, Gates, Budget, Fault
<1>3. Passed' /\ Scrubbed' /\ IdRead' /\ ReportIsCurrent'
  BY <1>1 DEF LoadRequest, Passed, Scrubbed, IdRead, ReportIsCurrent, Which, FirstHit, ReadableId
<1>4. NothingRunsUnlessAllowed' /\ PreflightNamesTheFile'
  BY <1>1 DEF NothingRunsUnlessAllowed, PreflightNamesTheFile
<1>5. AnswerIsTrue'
  <2>1. CASE Raise
    BY <1>1, <2>1, AnswerTrue DEF LoadRequest, Raise, Outcome
  <2>2. CASE ~Raise
    BY <2>2 DEF LoadRequest, Traceback, AnswerIsTrue
  <2> QED
    BY <2>1, <2>2
<1>6. TracebacksAreKnown'
  BY <1>1, AnswerEffect DEF LoadRequest, Raise, TracebacksAreKnown, Outcome
<1> QED
  BY <1>0, <1>2, <1>3, <1>4, <1>5, <1>6

\* The gates end the call or let it pass.
LEMMA InvCheckGates == IInv /\ CheckGates => IInv'
<1> SUFFICES ASSUME IInv, CheckGates PROVE IInv'
  OBVIOUS
<1> USE DEF inputVars, policyVars, worldVars, runVars, outVars, IInv
<1>0. TypeOK /\ TypeOK'
  BY TypeNext DEF Next
<1>1. /\ executed = None /\ executed' = None /\ rid = ReadableId
      /\ pc' \in {"prepare", "exited", "traceback"}
  BY AnswerEffect DEF CheckGates, Raise, Traceback, Passed, IdRead, Outcome
<1>2. pc' = "prepare" => Allowed
  BY AnswerEffect DEF CheckGates, Raise, Traceback, Outcome
<1>3. Loaded' /\ Passed' /\ Scrubbed' /\ IdRead' /\ ReportIsCurrent'
  BY <1>1, <1>2
  DEF CheckGates, Loaded, Passed, Scrubbed, IdRead, ReportIsCurrent, Which, FirstHit, Allowed,
      ReadableId
<1>4. NothingRunsUnlessAllowed' /\ PreflightNamesTheFile'
  BY <1>1 DEF NothingRunsUnlessAllowed, PreflightNamesTheFile
<1>5. AnswerIsTrue'
  <2>1. ASSUME NEW s \in {"denied", "spawn_error", "request_error"}, Answer(s)
        PROVE  AnswerIsTrue'
    BY <1>1, <2>1, AnswerTrue DEF CheckGates, Outcome
  <2>2. CASE pc' # "exited"
    BY <2>2 DEF AnswerIsTrue
  <2> QED
    BY <2>1, <2>2 DEF CheckGates, Raise, Traceback
<1>6. TracebacksAreKnown'
  BY <1>0, <1>1, AnswerEffect
  DEF CheckGates, Workdir, Raise, TracebacksAreKnown, Loaded, Outcome, TypeOK
<1> QED
  BY <1>0, <1>3, <1>4, <1>5, <1>6

\* The environment is built.
LEMMA InvPrepare == IInv /\ Prepare => IInv'
<1> SUFFICES ASSUME IInv, Prepare PROVE IInv'
  OBVIOUS
<1> USE DEF inputVars, worldVars, outVars, IInv
<1>0. TypeOK'
  BY TypeNext DEF Next
<1>1. executed = None /\ executed' = None /\ pc' = "spawn"
  BY DEF Prepare, Passed
<1>2. Loaded' /\ Passed' /\ IdRead' /\ ReportIsCurrent'
  BY <1>1 DEF Prepare, Loaded, Passed, IdRead, ReportIsCurrent, Which, FirstHit, Allowed, ReadableId
<1>3. Scrubbed'
  BY DEF Prepare, Scrubbed
<1>4. NothingRunsUnlessAllowed' /\ AnswerIsTrue' /\ TracebacksAreKnown' /\ PreflightNamesTheFile'
  BY <1>1 DEF NothingRunsUnlessAllowed, AnswerIsTrue, TracebacksAreKnown, PreflightNamesTheFile
<1> QED
  BY <1>0, <1>2, <1>3, <1>4

\* A child is started past every gate, and it is the file that was named.
LEMMA InvSpawn == IInv /\ Spawn => IInv'
<1> SUFFICES ASSUME IInv, Spawn PROVE IInv'
  OBVIOUS
<1> USE DEF inputVars, policyVars, worldVars, outVars, IInv
<1>0. TypeOK /\ TypeOK'
  BY TypeNext DEF Next
<1>1. /\ executed = None /\ rid = ReadableId /\ Allowed /\ fault = "none"
      /\ pc' \in {"communicate", "exited", "traceback"}
      /\ executed' # None <=> pc' = "communicate"
      /\ executed' # None => argv.passable /\ executed' \in Place /\ Resolves(executed')
  BY <1>0, AnswerEffect, PlacesAreFiles
  DEF Spawn, Traceback, Passed, IdRead, Loaded, TypeOK, Outcome
<1>2. Loaded' /\ Passed' /\ Scrubbed' /\ IdRead' /\ ReportIsCurrent'
  BY <1>1
  DEF Spawn, Loaded, Passed, Scrubbed, IdRead, ReportIsCurrent, Which, FirstHit, Allowed,
      ReadableId
<1>3. NothingRunsUnlessAllowed'
  BY <1>0, <1>1 DEF Spawn, NothingRunsUnlessAllowed, Allowed, Loaded, TypeOK
<1>4. PreflightNamesTheFile'
  <2>1. SUFFICES ASSUME report # None, executed' # None, "PATH" \in DOMAIN childEnv,
                        executed' # report
                 PROVE  \/ report # Missing /\ files[report] = "refused"
                        \/ cwd = "set" /\ \/ executed' \in Relative \X {"there"}
                                          \/ report \in Relative \X {"here"}
    BY DEF Spawn, PreflightNamesTheFile
  <2>2. Which(report) /\ executed' \in Place /\ Resolves(executed')
    BY <1>1, <2>1 DEF ReportIsCurrent
  <2>3. files \in [Place -> File]
    BY <1>0 DEF TypeOK
  <2> QED
    BY <2>1, <2>2, <2>3, LookupsAgree
<1>5. AnswerIsTrue'
  <2>1. CASE Answer("spawn_error")
    BY <1>1, <2>1, AnswerTrue, AnswerEffect DEF Spawn, Outcome
  <2>2. CASE pc' # "exited"
    BY <2>2 DEF AnswerIsTrue
  <2> QED
    BY <2>1, <2>2 DEF Spawn, Traceback
<1>6. TracebacksAreKnown'
  BY <1>1, AnswerEffect DEF Spawn, TracebacksAreKnown, Loaded, Outcome
<1> QED
  BY <1>0, <1>2, <1>3, <1>4, <1>5, <1>6

\* The execution ends in a result, or in an exception for its time limit.
LEMMA InvCommunicate == IInv /\ Communicate => IInv'
<1> SUFFICES ASSUME IInv, Communicate PROVE IInv'
  OBVIOUS
<1> USE DEF inputVars, policyVars, worldVars, outVars, IInv
<1>0. TypeOK /\ TypeOK'
  BY TypeNext DEF Next
<1>1. /\ executed # None /\ executed' = executed /\ rid = ReadableId
      /\ pc' \in {"exited", "traceback"}
  BY AnswerEffect DEF Communicate, Traceback, Passed, IdRead, Outcome
<1>2. Loaded' /\ Passed' /\ Scrubbed' /\ IdRead' /\ ReportIsCurrent'
  BY <1>1 DEF Communicate, Loaded, Passed, Scrubbed, IdRead, ReportIsCurrent, Which, FirstHit, ReadableId
<1>3. NothingRunsUnlessAllowed' /\ PreflightNamesTheFile'
  BY <1>1 DEF Communicate, NothingRunsUnlessAllowed, PreflightNamesTheFile
<1>4. AnswerIsTrue'
  <2>1. ASSUME NEW s \in {"ok", "exit_nonzero", "timeout"}, Answer(s)
        PROVE  AnswerIsTrue'
    BY <1>1, <2>1, AnswerTrue DEF Communicate, Outcome
  <2>2. CASE pc' # "exited"
    BY <2>2 DEF AnswerIsTrue
  <2> QED
    BY <2>1, <2>2 DEF Communicate, Traceback
<1>5. TracebacksAreKnown'
  BY <1>0, <1>1, AnswerEffect
  DEF Communicate, TracebacksAreKnown, Loaded, Valid, Outcome, TypeOK
<1> QED
  BY <1>0, <1>2, <1>3, <1>4, <1>5

\* What moves outside makes a report out of date.
LEMMA InvWorld == IInv /\ (WorldMoves \/ UNCHANGED vars) => IInv'
<1> SUFFICES ASSUME IInv, WorldMoves \/ UNCHANGED vars PROVE IInv'
  OBVIOUS
<1> USE DEF inputVars, policyVars, worldVars, runVars, outVars, IInv
<1>0. TypeOK'
  BY TypeNext DEF Next
<1>1. CASE WorldMoves
  BY <1>0, <1>1
  DEF WorldMoves, Loaded, Passed, Scrubbed, IdRead, ReportIsCurrent, Allowed, ReadableId,
      NothingRunsUnlessAllowed, AnswerIsTrue, TracebacksAreKnown, PreflightNamesTheFile
<1>2. CASE UNCHANGED vars
  BY <1>0, <1>2
  DEF vars, Loaded, Passed, Scrubbed, IdRead, ReportIsCurrent, Which, FirstHit, Allowed, ReadableId,
      NothingRunsUnlessAllowed, AnswerIsTrue, TracebacksAreKnown, PreflightNamesTheFile
<1> QED
  BY <1>1, <1>2

\* The inductive invariant holds throughout.
THEOREM Invariant == Spec => []IInv
<1>1. IInv /\ [Next]_vars => IInv'
  BY InvPreflight, InvLoadRun, InvReadRequest, InvLoadRequest, InvCheckGates, InvPrepare,
     InvSpawn, InvCommunicate, InvWorld DEF Next
<1> QED
  BY <1>1, InvInit, PTL DEF Spec

-----------------------------------------------------------------------------
(* What follows from it.                                                   *)

\* A file is started only past every gate of a valid policy.
THEOREM GatesHold == Spec => []NothingRunsUnlessAllowed
<1>1. IInv => NothingRunsUnlessAllowed
  BY DEF IInv
<1> QED
  BY <1>1, Invariant, PTL

\* The child sees of the caller's environment what the policy names, and offline
\* neither a proxy nor another's word on NO_PROXY: for any names.
THEOREM EnvironmentScrubbed == Spec => []ChildEnvIsScrubbed
<1>1. IInv => ChildEnvIsScrubbed
  <2> SUFFICES ASSUME IInv, childEnv # None PROVE ChildEnvIsScrubbed
    BY DEF ChildEnvIsScrubbed
  <2>1. scrub \in Scrub /\ childEnv = BuildChildEnv(scrub)
    BY DEF IInv, Scrubbed
  <2> QED
    BY <2>1, ScrubSafe DEF ChildEnvIsScrubbed
<1> QED
  BY <1>1, Invariant, PTL

\* The exit code, the status and the id of an answer are true of the call.
THEOREM AnswersAreTrue == Spec => []AnswerIsTrue
<1>1. IInv => AnswerIsTrue
  BY DEF IInv
<1> QED
  BY <1>1, Invariant, PTL

\* An exception leaves a call for the listed reasons only.
THEOREM CrashesAreKnown == Spec => []TracebacksAreKnown
<1>1. IInv => TracebacksAreKnown
  BY DEF IInv
<1> QED
  BY <1>1, Invariant, PTL

\* What runs with PATH passed on is what a preflight has named, for any search path,
\* but for a file that exec refuses and for a relative directory seen from
\* working_dir, while the files stay as they are.
THEOREM PreflightIsRight == Spec => []PreflightNamesTheFile
<1>1. IInv => PreflightNamesTheFile
  BY DEF IInv
<1> QED
  BY <1>1, Invariant, PTL
=============================================================================
