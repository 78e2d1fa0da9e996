------------------------------ MODULE GatedRun ------------------------------
(***************************************************************************)
(* One call of `bls run` or `bls broker-run`, perhaps after a preflight of *)
(* the same policy: validation and overrides, the gates, the scrubbed      *)
(* environment, the resolution of argv[0], and how every failure is        *)
(* answered, while files come and go.                                      *)
(*                                                                         *)
(* BufferedRun models the execution; here it is one step with the outcomes *)
(* its budget allows.  A time limit is told apart by what communicate does *)
(* with it, an environment variable by what the scrub does to it.          *)
(***************************************************************************)
EXTENDS Naturals, Sequences

CONSTANTS Var,       \* the names of environment variables
          Proxy,     \* _PROXY_VARS
          Secret,    \* the names that SECRET_NAME_RE matches
          Dir,       \* directories, as a search path names them
          Relative,  \* the relative ones
          Path,      \* PATH of the caller, which is not the empty string
          DefPath    \* os.defpath

\* What tells a runner to stay offline.
NoProxy == {"NO_PROXY", "no_proxy"}

ASSUME EnvAssumption ==
  Proxy \cup Secret \cup NoProxy \cup {"PATH", "SANDBOX_NETWORK"} \subseteq Var

ASSUME PathAssumption ==
  Relative \subseteq Dir /\ Path \in Seq(Dir) /\ DefPath \in Seq(Dir)

\* What __post_init__ accepts is finite and positive; "oversized" is beyond the
\* range of the selector.
Valid  == {"usual", "oversized"}
Budget == Valid \cup {"nonpositive", "not_finite"}
Cwd    == {"unset", "set", "mistyped"}

\* A validated policy, in two halves: what the gates read, and the scrub (the
\* names that the allowlist or a prefix lets through).  allow_exec and
\* allow_secret_env are not type-checked: allowExec and secrets say whether the
\* value is truthy, which the string "false" is.
Gates == [allowExec : BOOLEAN, lists : BOOLEAN, budget : Valid, cwd : Cwd]
Scrub == [named : SUBSET Var, secrets : BOOLEAN, network : {"offline", "online"}]

\* argv[0], and whether exec can take every element (no NUL, no lone surrogate:
\* what the system passes to `run` always can be taken).
Argv == [name : {"empty", "bare", "path"}, passable : BOOLEAN]

\* "unparsable" and "overflow" are what json.loads and math.isfinite refuse by an
\* exception of another class: a nesting too deep, an integer too long.
Fault == {"none", "unreadable", "unparsable", "shape", "policy", "overflow"}

\* A directory as it is seen from the caller's working directory, "here", or from
\* the child's, "there": an absolute one is the same from both.
At(d, from) == <<d, IF d \in Relative THEN from ELSE "here">>
Place == {At(d, from) : d \in Dir, from \in {"here", "there"}}

\* A file of argv[0]'s name: an executable one that exec refuses (ENOEXEC, an
\* interpreter that is gone), or one that it can start.
File == {"absent", "refused", "program"}

None    == <<>>
Missing == <<"missing">>

VARIABLES command, pc,
          fault,          \* what is wrong with the policy file or the request
          id, rid,        \* request_id in the request; what was read of it
          argv,
          gates, scrub,   \* the policy, each half chosen when it is first read
          budget, cwd,    \* timeout_seconds and working_dir as run() finds them
          files,          \* what each place holds under argv[0]'s name
          dir,            \* the directory that working_dir names
          report,         \* what a preflight of this policy and these files found
          childEnv,       \* name -> who gave it its value
          executed,       \* history: where the file was that was started
          status,         \* of the ExecResult
          answer, exit

\* "unreachable": stat fails, but not because nothing is there (a parent that may
\* not be searched, a name too long).
DirState == {"present", "absent", "unreachable"}

inputVars  == <<command, fault, id, argv>>
policyVars == <<gates, scrub, budget, cwd>>
worldVars  == <<files, dir, report>>
runVars    == <<childEnv, executed, status>>
outVars    == <<answer, exit>>
vars == <<inputVars, pc, rid, policyVars, worldVars, runVars, outVars>>

Init ==
  /\ command \in {"run", "broker-run"}
  /\ pc = "start"
  /\ fault \in Fault
  /\ id \in (IF command = "run" THEN {"none"} ELSE {"none", "id", "mistyped"})
  /\ id = "mistyped" => fault \in {"unreadable", "unparsable", "shape"}
  /\ rid = "none"
  /\ argv \in Argv
  /\ ~argv.passable => command = "broker-run" /\ argv.name = "bare"
  /\ gates = None
  /\ scrub = None
  /\ budget = "none"
  /\ cwd = "unset"
  /\ files \in [Place -> File]
  /\ dir \in DirState
  /\ report = None
  /\ childEnv = None
  /\ executed = None
  /\ status = "none"
  /\ answer = [status |-> "none", id |-> "none"]
  /\ exit = "none"

-----------------------------------------------------------------------------
(* How a call ends.                                                        *)

\* _exit_for_result_status, and 2 for a request_error.
ExitFor(s) == CASE s = "ok" -> "0"
                [] s \in {"denied", "spawn_error", "request_error"} -> "2"
                [] s = "timeout" -> "124"
                [] OTHER -> "1"

Answer(s) ==
  /\ answer' = [status |-> s, id |-> rid]
  /\ exit' = ExitFor(s)
  /\ pc' = "exited"

\* An exception no handler names.
Traceback ==
  /\ exit' = "1"
  /\ pc' = "traceback"
  /\ UNCHANGED answer

\* An exception of the classes that cmd_broker_run names; cmd_run names none.
Raise == IF command = "broker-run" THEN Answer("request_error") ELSE Traceback

-----------------------------------------------------------------------------
(* The policy and the request.                                             *)

\* The i-th directory of a search path is the first that holds one of these.
FirstHit(i, dirs, from, wanted) ==
  /\ files[At(dirs[i], from)] \in wanted
  /\ \A j \in 1..(i - 1) : files[At(dirs[j], from)] \notin wanted

\* Mutant of Which: a later directory goes before an earlier one.
WhichLast(found) ==
  LET Hits == {i \in DOMAIN Path : files[At(Path[i], "here")] # "absent"}
  IN  \/ \E i \in Hits : found = At(Path[i], "here") /\ \A j \in Hits : j <= i
      \/ Hits = {} /\ found = Missing

\* What shutil.which finds on the PATH of the caller, who may execute it.
Which(found) ==
  \/ \E i \in DOMAIN Path : /\ FirstHit(i, Path, "here", {"refused", "program"})
                            /\ found = At(Path[i], "here")
  \/ /\ \A i \in DOMAIN Path : files[At(Path[i], "here")] = "absent"
     /\ found = Missing

\* `bls preflight` beforehand: nothing is run.
Preflight ==
  /\ pc = "start"
  /\ command = "run" /\ fault = "none"
  /\ gates' \in (IF gates = None THEN Gates ELSE {gates})
  /\ report' \in Place \cup {Missing, None}
  /\ IF gates'.lists THEN Which(report') ELSE report' = None
  /\ UNCHANGED <<inputVars, pc, rid, scrub, budget, cwd, files, dir, runVars, outVars>>

\* cmd_run: --timeout and --cwd replace what was validated.
LoadRun ==
  /\ pc = "start"
  /\ command = "run"
  /\ IF argv.name = "empty" THEN Answer("denied") /\ UNCHANGED <<gates, budget, cwd>>
     ELSE IF fault # "none" THEN Raise /\ UNCHANGED <<gates, budget, cwd>>
     ELSE /\ gates' \in (IF gates = None THEN Gates ELSE {gates})
          /\ budget' \in {gates'.budget} \cup Budget
          /\ cwd' \in {gates'.cwd, "set"}
          /\ pc' = "gates"
          /\ UNCHANGED outVars
  /\ UNCHANGED <<inputVars, rid, scrub, worldVars, runVars>>

\* Mutant of ReadableId: the id is echoed whatever its type.
ReadableIdOfAnyType == IF fault \notin {"unreadable", "unparsable"} THEN id ELSE "none"

ReadableId == IF fault \notin {"unreadable", "unparsable"} /\ id = "id" THEN "id" ELSE "none"

\* Mutant of ReadRequest: the id is read with the rest of a valid request.
ReadRequestLate ==
  /\ pc = "start"
  /\ command = "broker-run"
  /\ rid' = IF fault = "none" THEN id ELSE "none"
  /\ IF fault = "unreadable" THEN Raise
     ELSE IF fault = "unparsable" THEN Traceback
     ELSE pc' = "validate" /\ UNCHANGED outVars
  /\ UNCHANGED <<inputVars, policyVars, worldVars, runVars>>

\* cmd_broker_run reads the request.
ReadRequest ==
  /\ pc = "start"
  /\ command = "broker-run"
  /\ rid' = ReadableId
  /\ IF fault = "unreadable" THEN Raise
     ELSE IF fault = "unparsable" THEN Traceback
     ELSE pc' = "validate" /\ UNCHANGED outVars
  /\ UNCHANGED <<inputVars, policyVars, worldVars, runVars>>

\* Mutant of LoadRequest: the overrides replace what was validated.
LoadRequestUnvalidated ==
  /\ pc = "validate"
  /\ IF fault \in {"shape", "policy"} \/ argv.name = "empty"
       THEN Raise /\ UNCHANGED <<gates, budget, cwd>>
     ELSE IF fault = "overflow" THEN Traceback /\ UNCHANGED <<gates, budget, cwd>>
       ELSE /\ gates' \in Gates
            /\ budget' \in Budget
            /\ cwd' \in {gates'.cwd, "set"}
            /\ pc' = "gates"
            /\ UNCHANGED outVars
  /\ UNCHANGED <<inputVars, rid, scrub, worldVars, runVars>>

\* run_broker_request: the overrides of the request are part of what is
\* validated.
LoadRequest ==
  /\ pc = "validate"
  /\ IF fault \in {"shape", "policy"} \/ argv.name = "empty"
       THEN Raise /\ UNCHANGED <<gates, budget, cwd>>
     ELSE IF fault = "overflow" THEN Traceback /\ UNCHANGED <<gates, budget, cwd>>
       ELSE /\ gates' \in Gates
            /\ budget' = gates'.budget
            /\ cwd' = gates'.cwd
            /\ pc' = "gates"
            /\ UNCHANGED outVars
  /\ UNCHANGED <<inputVars, rid, scrub, worldVars, runVars>>

-----------------------------------------------------------------------------
(* SafeExecutor.run.                                                       *)

\* Mutant of Allowed: the base name of argv[0] is looked up.
AllowedByBasename == gates.allowExec /\ gates.lists

\* The gates on the policy and argv[0].
Allowed == gates.allowExec /\ argv.name = "bare" /\ gates.lists

\* Where the child would start, if it is set.
Workdir == IF cwd = "set" THEN dir ELSE "present"

\* is_dir raises for an unreachable directory up to Python 3.13; later it is no
\* directory.
CheckGates ==
  /\ pc = "gates"
  /\ \/ ~Allowed /\ Answer("denied")
     \/ Allowed /\ cwd = "mistyped" /\ Raise
     \/ Allowed /\ Workdir = "unreachable" /\ Raise
     \/ Allowed /\ Workdir # "present" /\ Answer("spawn_error")
     \/ Allowed /\ cwd # "mistyped" /\ Workdir = "present" /\ pc' = "prepare" /\ UNCHANGED outVars
  /\ UNCHANGED <<inputVars, rid, policyVars, worldVars, runVars>>

\* What survives the filter of names.
Kept(s) == {n \in s.named : s.secrets \/ n \notin Secret}

\* Mutant of BuildChildEnv: the variables of the sandbox are set first.
BuildChildEnvFirst(s) ==
  LET kept == IF s.network = "offline" THEN Kept(s) \ Proxy ELSE Kept(s)
      ours == {"SANDBOX_NETWORK"} \cup IF s.network = "offline" THEN NoProxy ELSE {}
  IN  [n \in kept \cup ours |-> IF n \in kept THEN "caller" ELSE "sandbox"]

\* build_child_env, for a caller that has every variable.
BuildChildEnv(s) ==
  LET kept == IF s.network = "offline" THEN Kept(s) \ Proxy ELSE Kept(s)
      ours == {"SANDBOX_NETWORK"} \cup IF s.network = "offline" THEN NoProxy ELSE {}
  IN  [n \in kept \cup ours |-> IF n \in ours THEN "sandbox" ELSE "caller"]

Prepare ==
  /\ pc = "prepare"
  /\ scrub' \in Scrub
  /\ childEnv' = BuildChildEnv(scrub')
  /\ pc' = "spawn"
  /\ UNCHANGED <<inputVars, rid, gates, budget, cwd, worldVars, executed, status, outVars>>

\* Popen tries every directory of the child's PATH or, without one, of the default
\* path, after the change to working_dir: the first file that can be started is.
Resolves(found) ==
  LET dirs == IF "PATH" \in DOMAIN childEnv THEN Path ELSE DefPath
      from == IF cwd = "set" THEN "there" ELSE "here"
  IN  \E i \in DOMAIN dirs : FirstHit(i, dirs, from, {"program"}) /\ found = At(dirs[i], from)

\* ValueError, which no handler names; else spawn_error (also for a limit
\* above the hard one), or a child.
Spawn ==
  /\ pc = "spawn"
  /\ \/ /\ ~argv.passable
        /\ Traceback
        /\ UNCHANGED executed
     \/ /\ argv.passable
        /\ Answer("spawn_error")
        /\ UNCHANGED executed
     \/ /\ argv.passable /\ Workdir = "present"
        /\ executed' \in Place /\ Resolves(executed')
        /\ pc' = "communicate"
        /\ UNCHANGED outVars
  /\ UNCHANGED <<inputVars, rid, policyVars, worldVars, childEnv, status>>

\* BufferedRun: a limit that has passed is a timeout; one that the selector
\* cannot take raises, and the child is left.
Communicate ==
  /\ pc = "communicate"
  /\ IF budget \in {"oversized", "not_finite"} THEN Traceback /\ UNCHANGED status
     ELSE /\ status' \in (IF budget = "nonpositive" THEN {"timeout"}
                          ELSE {"ok", "exit_nonzero", "timeout"})
          /\ Answer(status')
  /\ UNCHANGED <<inputVars, rid, policyVars, worldVars, childEnv, executed>>

\* Files and the working directory come and go, as long as anybody looks; a report
\* is then out of date.
WorldMoves ==
  /\ pc \notin {"communicate", "exited", "traceback"}
  /\ \/ \E p \in Place, f \in File : files' = [files EXCEPT ![p] = f] /\ UNCHANGED dir
     \/ dir' \in DirState /\ UNCHANGED files
  /\ report' = None
  /\ UNCHANGED <<inputVars, pc, rid, policyVars, runVars, outVars>>

Next ==
  \/ Preflight \/ LoadRun \/ ReadRequest \/ LoadRequest
  \/ CheckGates \/ Prepare \/ Spawn \/ Communicate
  \/ WorldMoves

Spec == Init /\ [][Next]_vars

-----------------------------------------------------------------------------
(* Properties.                                                             *)

\* Every variable has its type.
TypeOK ==
  /\ command \in {"run", "broker-run"}
  /\ pc \in {"start", "validate", "gates", "prepare", "spawn", "communicate",
             "exited", "traceback"}
  /\ fault \in Fault
  /\ id \in {"none", "id", "mistyped"}
  /\ rid \in {"none", "id"}
  /\ argv \in Argv
  /\ gates \in Gates \cup {None}
  /\ scrub \in Scrub \cup {None}
  /\ budget \in Budget \cup {"none"}
  /\ cwd \in Cwd
  /\ files \in [Place -> File]
  /\ dir \in DirState
  /\ report \in Place \cup {Missing, None}
  /\ childEnv = None \/ \E S \in SUBSET Var : childEnv \in [S -> {"caller", "sandbox"}]
  /\ executed \in Place \cup {None}
  /\ status \in {"none", "ok", "exit_nonzero", "timeout"}
  /\ answer.status \in {"none", "denied", "spawn_error", "request_error", "ok", "exit_nonzero",
                        "timeout"}
  /\ exit \in {"none", "0", "1", "2", "124"}

\* A file is started only past every gate, whatever was overridden: by a valid
\* policy that allows execution and lists this bare name, with a time limit that
\* was validated or, in `run`, given as an option.
NothingRunsUnlessAllowed ==
  executed # None =>
    /\ fault = "none" /\ gates.allowExec /\ gates.lists
    /\ argv.name = "bare" /\ argv.passable
    /\ budget \in Valid \/ command = "run"

\* The child sees of the caller what the policy names and nothing else: no secret
\* unless the policy opts in; offline no proxy, and the variables that tell a
\* runner to stay offline are the sandbox's even if the policy names them.
ChildEnvIsScrubbed ==
  childEnv # None =>
    LET caller == {n \in DOMAIN childEnv : childEnv[n] = "caller"} IN
      /\ caller \subseteq scrub.named
      /\ caller \cap Secret # {} => scrub.secrets
      /\ "SANDBOX_NETWORK" \in DOMAIN childEnv \ caller
      /\ scrub.network = "offline" =>
           caller \cap Proxy = {} /\ NoProxy \subseteq DOMAIN childEnv \ caller

\* A call that ends in order tells by its exit code whether a file was started
\* and how that went, and a broker gets its id back however early the call failed.
AnswerIsTrue ==
  pc = "exited" =>
    /\ (exit = "2") = (executed = None)
    /\ (exit = "0") = (answer.status = "ok")
    /\ answer.id = ReadableId

\* Up to the writing of its answer, an exception leaves a call for these reasons
\* only, and leaves a child behind for the last of them only: `run` without a good
\* policy or with a working_dir that stat refuses, a broker's request that Python
\* or exec cannot take, or a time limit that communicate cannot.
TracebacksAreKnown ==
  pc = "traceback" =>
    \/ executed = None /\ command = "run"
         /\ (fault # "none" \/ cwd = "mistyped" \/ (cwd = "set" /\ dir = "unreachable"))
    \/ executed = None /\ command = "broker-run"
         /\ (fault \in {"unparsable", "overflow"} \/ ~argv.passable)
    \/ executed # None /\ (budget = "oversized" \/ (command = "run" /\ budget = "not_finite"))

\* With PATH passed to the child and no file come or gone in between, a run starts
\* the file that a preflight of the same policy has named, but for two reasons:
\* exec refuses that file and goes on, or a relative directory of PATH is another
\* one from working_dir. Nothing else is started, and nothing in place of a command
\* reported missing, but from such a directory.
PreflightNamesTheFile ==
  report # None /\ executed # None /\ "PATH" \in DOMAIN childEnv /\ executed # report =>
    \/ report # Missing /\ files[report] = "refused"
    \/ cwd = "set" /\ \/ executed \in Relative \X {"there"}
                      \/ report \in Relative \X {"here"}

-----------------------------------------------------------------------------
(* What the documentation says and the code does not do.                   *)

\* broker-run never ends in a crash (README, MANUAL).
BrokerNeverCrashes == command = "broker-run" => pc # "traceback"
=============================================================================
