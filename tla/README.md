# broker-lane-sandbox in TLA+

A verification development kept beside the code of `broker-lane-sandbox`: TLA+
modules of its core, TLC runs on small instances, and theorems that TLAPS
checks for every value of the constants. Paths below are relative to the
repository; `PK` is `src/broker_lane_sandbox`. `PROJECT.json` names the source
lines of every definition, and the hazards each property is for.

    tlc -workers 2 -config MCStreamRelay_safety.cfg MCStreamRelay    # one run
    tlapm StreamRelayProofs.tla                                      # proofs

## 1. The system

The program runs one untrusted command, or one local model runner, per call: a
policy and environment gate, a child in its own session with resource limits, a
wall-clock budget enforced by killing the process group, capped output, and a
JSON result. `bls infer` puts model verification in front of it and may stream.

| component | code | state | operations |
|---|---|---|---|
| streaming relay and watchdog | `PK/streaming.py` `run_llama_stream` | decoded prefix, pending text, overage, warning flag, stderr tail; `deadline_hit`; a `threading.Timer` | spawn, start, pump (select, read, decode, flush, warn), wait, kill, grace pump, tail, reap, status |
| event emitter | `PK/streaming.py` `StreamEmitter` | `seq`, `_started`, `_finalized` | start, chunk, warning, final; each a blocking write |
| process tree | `PK/executor.py` `spawn_child`, `_kill_tree`; `PK/limits.py` | child, descendants, process group, two pipes | spawn in a new session, kill the group, read, reap |
| buffered executor | `PK/executor.py` `SafeExecutor.run`, `_drain_after_kill` | what `communicate` has read, `timed_out` | gates, communicate, kill, drain, last wait, assemble |
| model cache | `PK/modelcache.py` | the weight file and its `.blsverify.json` sidecar, shared by all processes | resolve, stat, sidecar lookup, hash, compare, sidecar write |
| infer pipeline | `PK/infer.py` | request id, model block, the events sent | `run_infer_request`, `_run_fake`, the terminal router |
| runners | `PK/runners/*.py` | none | resolve the binary, probe its version, run |
| command line | `PK/cli.py` | exit code | `infer`, `infer --stream`; `run`, `broker-run`, `preflight`, `models`, `version` |
| policy and environment gates | `PK/policy.py`, `envscrub.py`, `preflight.py`, `executor.py` `check_gates` | the policy; its `timeout_seconds` and `working_dir` may be overridden | validate, gate, scrub the environment, resolve `argv[0]` |
| broker seam | `PK/broker_run.py` | the request id, once read | validate a request with its overrides, run it, answer |
| catalog lister, result vocabulary | `PK/catalog.py`, `result.py` | none | read, project, serialise |
| artifact guard | `scripts/check_model_artifacts.py` | the git index and work tree, read only | list (staged or tracked), measure, refuse |

**Interactions.** `cli` reads a request and calls `run_infer_request`, which
calls the model cache, a runner and, through the gates, either `SafeExecutor.run`
or `run_llama_stream`; both use `spawn_child` and `_kill_tree`. The relay writes
to a consumer through the emitter, and shares the child and `deadline_hit` with
its timer thread. `bls run` and `bls broker-run` go through the gates to
`SafeExecutor.run`. Calls share no memory: they meet only in the cache directory.
The guard runs in a git hook, beside whatever edits and stages files, and in CI.

**What is hard.** The relay, its timer, the child, a descendant and the consumer
are five independent actors: the timer kills and records the kill in two steps,
races `cancel()`, and must act while the relay is blocked in a write; pipes can
be held open by a process no kill reaches; text passes a decoder, a pending
buffer and a cap. The sidecar is written without a lock by several processes,
any of which may die half way, while the file it describes is replaced. A call
of `infer` has some fifteen exits in two modes, all of which owe one answer.
The files that the gates, the preflight and the spawn look up may change between
them, and an override may replace what was validated. The guard lists the index,
measures the work tree, and git then commits an index it reads again.

**What makes it correct**, per component: no character lost, repeated or
miscounted, and a status that tells the truth (relay, executor); one start, at
most one final, nothing after it (emitter); signals only after the deadline, to
the whole group, and no live child on return (tree); every call returns (relay,
executor); no acceptance of bytes that do not have the pinned digest (cache);
one answer, earned, with the right id and exit code (pipeline); denied means not
run, and the child sees of the environment what the policy names (gates); an
answer for every request (broker seam); no artifact in a commit, and no clean
commit refused (guard).

## 2. Modules

| module | models | built on |
|---|---|---|
| `ChildTree` | child, one descendant, the group, two bounded pipes, `SIGKILL` pending and delivered, reaping | |
| `StreamEmitter` | `StreamEmitter`: the four events, their guards, the wire to the consumer | |
| `StreamRelay` | `run_llama_stream`: relay, watchdog, tree and consumer interleaved | `StreamEmitter`, `ChildTree` |
| `StreamProtocol` | abstract: what a consumer of the stream may rely on | |
| `Execution` | abstract: what an execution promises its caller, in either mode | |
| `BufferedRun` | `SafeExecutor.run`, `_drain_after_kill` | `ChildTree` |
| `ModelCache` | `resolve_and_verify` by several processes, and the disk | |
| `InferCall` | `cmd_infer`, `_cmd_infer_stream`, `run_infer_request`, `_run_fake`, binary resolution and probe | |
| `GatedRun` | `cmd_run`, `cmd_broker_run`, `run_broker_request`, the policy's validation, `check_gates`, `build_child_env`, the command resolution of preflight and run | |
| `ArtifactGuard` | `scripts/check_model_artifacts.py`, `--staged` and `--tracked`, with git around it | |
| `MC*` | instances for TLC | |
| `ChildTreeProofs` | lemmas about the tree, shared | `ChildTree` |
| `StreamRelayProofs`, `StreamResultProofs`, `BufferedRunProofs`, `ModelCacheProofs`, `InferCallProofs`, `GatedRunProofs`, `ArtifactGuardProofs` | theorems, one module or two for each component | the component |

`StreamRelay` and `BufferedRun` instantiate `Execution`, and `StreamRelay` also
`StreamProtocol`, with a refinement mapping; the parity that the manual promises
between the two modes is that both implement the one `Execution`.

**State and code.** In `StreamRelay`, `pc` is the relay thread's position, and
`kept`, `overage`, `pending`, `capWarned`, `errKept`, `errTotal`, `deadlineHit`
are the locals of `run_llama_stream`; `held` is the state of the incremental
decoder; `wd` is the timer (`firing`, `killed` and `fired` separate the kill from
the setting of `deadline_hit`); `late` and `graceOver` say only that a time limit
has passed: no clock is modelled. An action is a stretch of code no other actor
can observe or separate: one look at the clock (`Poll`), one `select`, which may
return past the deadline, one read with its decoding and cap arithmetic, one
emit, one kill. An emit waits while the wire is full and raises
when the consumer has gone (`WriteRaises`, then the `finally` clause `Unwind`).
In `ChildTree` the processes do anything a program may do (write, fork, close,
exit, leave the group if `MayEscape`), bounded by an output budget.
In `BufferedRun`, `communicate` is modelled by what the standard library
documents: it reads both pipes to their end, then waits; on expiry it raises and
a second call continues. In `ModelCache` each caller's locals are functions on
`Caller`; a file has two blocks, so a write can overtake a running hash. In
`InferCall` verification and execution are single steps with the outcomes the
other modules allow, and the weight file and `PATH` change at any moment;
`probed` is the binary the reported version comes from, `binary` the one that ran.
In `GatedRun` the policy is a record of what the gates and the scrub tell apart,
chosen when it is first read; `budget` and `cwd` are its two overridable fields
as `run` finds them. `Path` and `DefPath` are sequences of directories; a relative
one is another place from the caller's directory ("here") than from `working_dir`
("there"). `files` gives for each place what lies there under `argv[0]`'s name:
nothing, an executable that `exec` refuses, or a program; `dir` is what stat says
of `working_dir`, and `report` the place a preflight has named. Preflight (`Which`,
for `shutil.which`) takes the first executable on `Path` from here; the spawn
(`Resolves`, for `Popen`) the first file it can start on the child's path from the
child's directory. An exception that no handler of `cli.py` names is the position
`traceback`.
In `ArtifactGuard` `work`, `index` and `head` map names to size classes; one
`Look` is one pass of the loop of `_violations`; `renamed` and `stale` record
what a run could not see. Git is external: what `--diff-filter=ACM` lists, how
names are quoted and when renames are paired is modelled as documented by git
and as the script relies on it.

**Data.** Text is counted in characters; a prompt, a path or a message is left
out, or is one of a few values. A digest is the pair of blocks that were read; a
time limit is the way `communicate` takes it; a path is a class of names.

## 3. Runs

Passing runs:

| run | asks | bounds |
|---|---|---|
| `stream_safety` | Do the accounting, the warning, the truth of the result, the kill discipline, the consumer's protocol and the promises of `Execution` survive every interleaving, with a consumer that leaves, a prompt that cannot be encoded and a descendant that escapes? | cap 3, reads of 2, chunks of 2, 4 characters of stdout, pipe of 2, one unread event |
| `stream_liveness` | Does the deadline stop the child while the relay is blocked, does the call return, does stderr drain? | 1 of each: a pipe and a wire that are full after one write |
| `buffered` | Is the buffered result complete and true, is the group dead after a timeout, does the call return where `SIGKILL` may never be delivered, does it implement `Execution`? | cap 2, 3 + 2 characters, reads and pipe of 2 |
| `cache_safety` | Can any order of two verifications, writes, removals, torn or failing sidecar writes and crashes make bad bytes pass? | 2 callers with 2 calls, 2 pins that differ in one block, 2 writes |
| `infer` | Does each of the calls, in both modes, end in one truthful answer? | the code's two candidate binaries; every request class (a `working_dir` that raises in its gate among them), flag and state of the world |
| `gates` | Can anything run that the policy does not allow, or see more of the environment than it names? Is every answer true, and are the exceptions that leave a call known? When does a run start another file than the one a preflight has named? | one proxy variable, one secret, `PATH` and the three names the sandbox sets; a search path of a relative and an absolute directory, the default path of the absolute one; every policy, override, fault, content of the places and state of `working_dir` |
| `guard` | By which ways does an artifact enter a commit that the hook has passed? Is a commit refused only for a reason? Does the audit find what the hook let in? | 3 names: weights under a name git quotes, a cache further down, a plain one; 5 edits |

*Why they suffice.* In `stream_safety` cap 3 with reads of 2 puts the cap inside
a read, at its end (after a read shortened by the pipe or the decoder) and past
the output; 4 characters exceed the cap; a kept prefix of 3 needs two chunks.
`MaxWarnings` is the code's `MAX_WARNINGS`, never reached since
`WarningFollowsTheWholePrefix` holds. Liveness does not
depend on how much is written, only on whether a buffer is full, which one
character decides. In `cache_safety` two writes of the file give: none, one
before or during a hash, and one before and one during it; two calls of each
caller let a second call read the sidecar that the first wrote or tore. The
callers are interchangeable (symmetry; no liveness is checked there). In `guard`
five edits are enough to bring in a file, remove it, add another in its place
(a rename), change one while the hook runs and repair it afterwards; the names
are looked at one by one, so one of each class shows what there is, and the
theorems hold for any number. `gates` and `infer` bound nothing but their
constants: a name is looked at by itself, so one of each kind shows what there
is; a relative directory before an absolute one lets the two lookups part in each
of their ways (a refused file, another working directory, the default path); the
theorems hold for any names, any search path and any list of candidates. The one
character of stderr in `stream_safety` is below the cap: that truncated counts a
cut stderr is shown by the theorems `Accounting` and `CleanComplete`, not by TLC. Deadlock checking is off everywhere because a call
ends.

Every property has a mutant in `PROJECT.json`: a plausible bug in the code,
written beside the definition it changes, under which the property fails.

**Fairness.** `StreamRelay`: the relay and the timer thread are scheduled (weak
fairness of each as a whole), a bounded wait ends, and the kernel delivers a
pending `SIGKILL`. Nothing is assumed of the child, its descendant, the consumer,
or of when or whether the deadline comes: `CallReturns` speaks of calls whose
deadline has passed, and allows for a consumer that stalls for ever.
`BufferedRun`: the call is scheduled and its time limits pass; not even the
delivery of `SIGKILL` is assumed, as `_drain_after_kill` claims. The other
modules state no liveness: a call there is a sequence of steps with no wait.

**Disagreements** between the code and what its documents, comments or tests
say; each is one run whose counterexample shows it:

| run | what is said | what happens |
|---|---|---|
| `stream_warned` | the relay warns once when it stops emitting (`docs/MANUAL.md:322`) | a read that ends exactly at the cap leaves no rest; later reads take the branch that only counts, and no warning is sent |
| `stream_killed` | a killed child is a `timeout` (`PK/result.py:25`) | the timer kills, then sets `deadline_hit`; the relay may decide in between and report `exit_nonzero` |
| `stream_disconnect` | the child is killed at the budget whatever the relay does (`PK/streaming.py:16`) | a write error ends the call and cancels the timer, or precedes it: nothing stops the child |
| `infer_early` | a failure before the first event is a `final` (`PK/cli.py:163`) | an `OSError` of the weight file is caught by `cmd_infer` only, an `OverflowError` or `RecursionError` of the validation by neither; the stream has no event at all |
| `broker_crash` | a malformed request is never a crash (`README.md:196`) | an integer too long, a nesting too deep, an `argv` with a NUL and a time limit beyond the selector's range end in a traceback; after the last the child runs on |

**Known limits**, which the models show but no run claims against:

- A consumer that stalls for ever blocks the call in its write; the child is
  stopped all the same (`DeadlineStopsTheChild`, `CallReturns`).
- The timer is cancelled after the tail was sent: if it fires meanwhile, a
  complete result is a `timeout`. `Execution` promises no more than that a
  timeout is past the deadline.
- The final text of a stream is scrubbed of the weight path, its chunks are not.
- `bls run` writes `--timeout` and `--cwd` into the policy after its validation:
  `NothingRunsUnlessAllowed` claims a valid limit for the broker only, and
  `TracebacksAreKnown` names the limit that is not finite.
- A `working_dir` that stat refuses (a parent that may not be searched, a name too
  long) raises in its gate up to Python 3.13 (`PK/executor.py:74`), and a mistyped
  one always: `bls run` ends in a traceback, though `docs/MANUAL.md:167` promises a
  `spawn_error` for a bad cwd; `bls broker-run` and a buffered `bls infer` answer a
  `request_error`. `TracebacksAreKnown` names both.
- Preflight may name another file than the one that runs, in two ways that
  `PreflightNamesTheFile` names: `exec` goes on past a file it refuses, and a
  relative directory of `PATH` is looked up from `working_dir`. Without `PATH` in
  the child's environment the default path is searched, and nothing is claimed.
- `allow_exec` and `allow_secret_env` are not type-checked (`PK/policy.py:90`,
  `:96`): the string `"false"` is truthy and passes. The fields of the model say
  whether the value is truthy.
- A buffered `bls infer` resolves its binary again after the probe, and may report
  the version of another; a stream may not (`OkIsEarned`).
- The buffered run reads in text mode, which turns CRLF into LF before the cap is
  applied (`PK/executor.py:114`), the relay does not: equal bytes may be truncated
  at different places. `Execution` speaks of characters as each mode counts them.
- Writing the answer itself may fail (a closed or full stdout): a traceback in
  every command, outside the models of `GatedRun` and `InferCall`.
- The hook lets artifacts in by three gaps, named in `ArtifactsEnterByKnownGaps`:
  a name that git quotes, a file git takes for a renamed one, and a work tree
  that is not the index (what is staged while the hook runs, or changed since).
  The audit closes the last two. The policy says that even `git add -f` is
  refused (`docs/model-cache-policy.md:48`).

## 4. Proofs

`StreamRelayProofs`, for every cap, pipe size, read size, chunk size, output
budget, fault set and escape behaviour, from `EmitterAssumption`,
`TreeAssumption` and `RelayAssumption`:

- `TypeCorrect`: `Spec => []TypeOK`. Inductive as it stands.
- `Accounting`: `Spec => []EveryCharacterIsAccounted`. Inductive with `TypeOK`:
  each equation is kept by a read (the pipe loses what decoder, prefix and
  overage gain), a flush (pending becomes chunks), or the final decode.
- `Discipline`: `Spec => []KillDiscipline`. Needed because the theorems below
  are not inductive: they hold only since whoever acts on the deadline (the
  relay at `kill`, the timer past `firing`) does so after it, and past the pump
  the child was reaped or the deadline has passed.
- `NoEarlyKill`: `Spec => KillOnlyPastTheDeadline`, an action property: the only
  two actions that signal need `late`, by `KillDiscipline`.
- `ChildIsWatched`: `Spec => []RunningChildIsWatched`, inductive with
  `KillDiscipline`: the timer is armed before the pump, past the pump the child
  does not run, and a timer that has fired has killed it. This is the safety that
  `DeadlineStopsTheChild` rests on: from here on only the scheduling of the timer
  and the delivery of the signal are left to fairness. It names the three places
  where the child is in nobody's care: before the start event is sent, before the
  prompt is encoded, and after an exception (see `stream_disconnect`).

`StreamResultProofs`, from the same assumptions and the invariants above, with
one more invariant, `IInv`, whose parts are `Warned` (where the warning stands to
the prefix), `Sent` (where the events stand to the relay's position), `ChildEnd`
(the child, its exit code and its group), `Ended` (a pipe that was closed is
empty and has no writer; what `select` returned stays readable), `Position` (past
the pump, unless the deadline was acted on, both pipes are at their end and the
child is reaped) and `Reported` (what a clean result was made from):

- `WarnedOnce`: `Spec => []WarningFollowsTheWholePrefix`. Needs that a flush
  towards the warning is one that crossed the cap, and that the counter moves
  before a write that raises.
- `GroupKilled`: `Spec => []KillTakesTheGroup`.
- `CleanComplete`: `Spec => []CleanResultIsComplete`. From `Position` and `Ended`
  at the moment the result is assembled; afterwards no one can write.
- `Follows`: `Spec => FollowsProtocol`, a refinement: `SendStart`, `FlushChunk`,
  `WarnCap` and `SendFinal` are the events of `StreamProtocol`, every other step
  is a stutter. That a chunk keeps within the cap is the accounting.
- `Implements`: `Spec => ImplementsExecution`, a refinement: each step is one of
  `Execution` or changes nothing it sees; the kill needs `KillDiscipline`, the
  result `Position`, a late write `Reported`.

`BufferedRunProofs`, for any cap, pipe size, read size, output budgets and escape
behaviour, from `TreeAssumption` and `RunAssumption`:

- `TypeCorrect`; then with an invariant `IInv` of the parts `Counted` (what was
  read and what lies in the pipe is what was written), `Ended`, `ChildExit`,
  `Position` and `Reported`: `Completeness`, `Truth`, `GroupKilled`, the action
  property `NoEarlySignal`, and `Implements`.
- None of these is inductive: `StatusIsTheTruth` holds since a signal is sent
  only once `timed_out` is set, `OutputIsComplete` since a pipe leaves the
  selector at its end and cannot get a writer again, and `TimeoutKillsTheGroup`
  since from the kill on only an escaped descendant runs unsignalled.

`ModelCacheProofs`, for any set of callers, blocks and pins and any number of
calls and writes, from `CacheAssumption`:

- `CacheTypeCorrect`, then with the invariant `IInv`: `SidecarTrustworthy`,
  `AcceptanceSound`, `RecordsAreMatches` and the action property
  `WritersHaveVerified`.
- The argument: mtimes only grow, so a write makes every stat result taken
  before it stale. `IInv` says, for each call that has stat'ed the file
  (`CallSound`) and for the sidecar (`SidecarSound`), that its mtime is not in
  the future and that either its stat result is not current, or what was hashed
  is what is on disk. A write or a removal establishes the first alternative, a
  hash the second; `Lookup` carries the sidecar's claim over to the call.
  `AcceptedBytesArePinned` alone is not inductive: it says nothing of a call
  that has hashed and not yet compared, nor of the sidecar it may trust.

`ArtifactGuardProofs`, for any sets of names, cache directories and quoted names
and any number of edits, from `GuardAssumption`:

- `GuardTypeCorrect`; then with an invariant that adds that what is listed and
  not yet looked at is staged (`ListedIsStaged`), and that an artifact the commit
  would bring in is listed, found, or in one of the gaps (`NothingSlips`):
  `NoFalseRefusal`, `AuditExact`, and the action property `GapsAreKnown`, which
  is about the step that commits and so needs what the whole loop has left.

`InferCallProofs`, for any list of candidate binaries, from
`CandidatesAssumption`:

- `InferTypeCorrect`; then with an invariant `IInv`: `AnswersOnce`, `GatesHold`,
  `OkEarned`, `IdEchoed`.
- The parts of `IInv` say what the position of a call has established: `Gated`
  (past the verification the weights were verified, past the resolution of the
  binary it is no preflight), `Spawned` (what was spawned so far, and that an ok
  is of a model), `Probed` (in a stream, the binary stays the one probed),
  `Streamed` (the events sent so far), `IdRead` and `Answered`.
- None of the four is inductive. `OneAnswer` speaks of the end of a call; on the
  way the events are an `Open` stream, which a start or a chunk keeps open and a
  final turns into a `Closed` one (`OpenSteps`, `FinalCloses`), and `ClosedCounts`
  derives the counts from that. `OkIsEarned` needs that `assemble` is not reached
  with an ok but by a run.
- `FoundIsFirst`: of the candidates on `PATH`, `resolve_binary` takes the first.

`GatedRunProofs`, for any sets of variables, proxies and names of secrets, any
search paths and any set of relative directories, from `EnvAssumption` and
`PathAssumption`:

- `GatedTypeCorrect`; then with an invariant `IInv`: `GatesHold`,
  `EnvironmentScrubbed`, `AnswersAreTrue`, `CrashesAreKnown`, `PreflightIsRight`.
- The parts of `IInv`: `Loaded` (past the validation the input had no fault, and
  a broker's limit is valid, overridden or not), `Passed` (past the gates the
  command is allowed, and nothing was started before), `Scrubbed` (what the child
  has is `BuildChildEnv` of the policy's scrub), `IdRead`, and `ReportIsCurrent`
  (what a preflight named is what `which` finds, until a file comes or goes).
- `PreflightNamesTheFile` rests on `LookupsAgree`: two searches of one path that
  look at the same places, the one for the first executable and the other for the
  first program, end at the same file unless the first hit is refused. Where the
  two places of a directory differ, it is a relative one and there is a
  `working_dir`, which is the property's second exception.
- `ScrubSafe` is a lemma about `BuildChildEnv` alone; the theorem adds that the
  policy the child was built for is the one that is in force. `TracebacksAreKnown`
  holds since an unhandled fault is raised by the validation, and a limit that
  `communicate` cannot take is met there only after the spawn.

**Only model-checked.** Every invariant, action property and refinement that a
run checks is a theorem. What stays with TLC is the liveness, since fairness is
out of the prover's reach: `DeadlineStopsTheChild`, `CallReturns` and
`StderrNeverWedges` of `StreamRelay`, and `RunReturns` of `BufferedRun`. The
violation runs are counterexamples and have nothing to prove.

## 5. What is not modelled

- *Relay*: the stdin writer thread, except for the encoding of the prompt; a
  decoder that holds more than one character; spurious readiness; the streaming
  preflight, which the command line excludes; the text of messages.
- *Tree*: more than one descendant; an escape before the fork returns; reuse of
  a reaped pid (a late kill is a no-op here); resource limits (a child that hits
  one is a child that exits).
- *Buffered run*: the feeding of stdin; the text that marks abandoned output.
- *Cache*: a file put back with the size and mtime it had, or changed within the
  granularity of its mtime, which the sidecar does not claim to notice
  (`PK/modelcache.py:18`); catalog and profile validation, which enter as their
  outcome.
- *Pipeline*: the opening of the weights by the runner, after the verification;
  a lone surrogate in the prompt (modelled in `StreamRelay`).
- *Gates*: resource limits, YAML, the warnings of a preflight; a `PATH` that is the
  empty string, which `shutil.which` and `exec` do not read alike. Which names are
  secrets is a constant; names that are listed and names that match a listed
  prefix are one set.
- *Guard*: symbolic links and submodules, so also a change of type between them
  and a regular file (status T, which `--diff-filter=ACM` leaves out: one more way
  past the hook); names that are nothing but blanks, which the listing drops; sizes
  of blobs other than the two classes.
- *Left out*: the catalog lister, `bls models`, `bls version` and the
  serialisation of results: a read and a projection, with no state, which a test
  reaches in full.

## 6. Plan

Done, in this order, the most important behaviour first: `ChildTree`,
`StreamEmitter`, `StreamRelay`, `StreamProtocol`, `ModelCache`, `BufferedRun`,
`InferCall`, `Execution` with the two refinements, `GatedRun`, `ArtifactGuard`;
theorems for all of them, down to every safety property that a run checks.

What is left:

1. The reuse of a reaped pid in `ChildTree`, for the late kill of the watchdog.
2. The stdin writer of the relay and the feeding of stdin by `communicate`: a
   child that does not read its prompt.
3. `InferCall` shown to use `Execution` for its running step, so that its
   composition with the two executions is a refinement as well.
4. Catalog and profile validation against a reference definition.
5. For `RunReturns` and `CallReturns`, the safety half as theorems: a measure that
   every step of the call decreases, so that fairness is all that is left.
