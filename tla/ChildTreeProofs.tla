--------------------------- MODULE ChildTreeProofs ---------------------------
(***************************************************************************)
(* Lemmas about the process tree, for both executions that run over it.    *)
(***************************************************************************)
EXTENDS ChildTree, TLAPS

\* A tree that has not been started has its types.
LEMMA TreeTypeInit == TreeInit => TreeTypeOK
<1> SUFFICES ASSUME TreeInit PROVE TreeTypeOK
  OBVIOUS
<1>1. proc \in [Process -> ProcState] /\ holds \in [Process -> SUBSET Stream]
  BY DEF TreeInit, ProcState
<1>2. escaped \in BOOLEAN
  BY Zenon DEF TreeInit
<1>3. buf \in [Stream -> 0..PipeCap] /\ written \in [Stream -> Nat]
  BY TreeAssumption DEF TreeInit
<1> QED
  BY <1>1, <1>2, <1>3 DEF TreeInit, TreeTypeOK, ExitCode

\* The steps of the processes keep the types of the tree.
LEMMA TreeTypeStep == TreeTypeOK /\ TreeStep => TreeTypeOK'
<1> USE TreeAssumption
<1> SUFFICES ASSUME TreeTypeOK, TreeStep PROVE TreeTypeOK'
  OBVIOUS
<1> USE DEF TreeTypeOK, ProcState, ExitCode, ioVars
<1>1. CASE Fork
  BY <1>1 DEF Fork, Process
<1>2. ASSUME NEW p \in Process, Exit(p) PROVE TreeTypeOK'
  BY <1>2 DEF Exit
<1>3. ASSUME NEW p \in Process, Die(p) PROVE TreeTypeOK'
  BY <1>3 DEF Die
<1>4. ASSUME NEW p \in Process, NEW s \in Stream, Write(p, s) PROVE TreeTypeOK'
  BY <1>4 DEF Write
<1>5. ASSUME NEW p \in Process, NEW s \in Stream, Close(p, s) PROVE TreeTypeOK'
  BY <1>5 DEF Close
<1> QED BY <1>1, <1>2, <1>3, <1>4, <1>5 DEF TreeStep

\* So do the calls of the program on the tree.
LEMMA TreeTypeCall ==
  ASSUME TreeTypeOK,
         \/ Spawn \/ KillTree \/ Reap
         \/ \E s \in Stream : \E n \in 0..buf[s] : Take(s, n)
         \/ UNCHANGED treeVars
  PROVE  TreeTypeOK'
<1> USE TreeAssumption
<1> USE DEF TreeTypeOK, ProcState, ioVars
<1>1. CASE Spawn
  BY <1>1 DEF Spawn, Process, Stream
<1>2. CASE KillTree
  BY <1>2 DEF KillTree, Process
<1>3. CASE Reap
  BY <1>3 DEF Reap, Process
<1>4. ASSUME NEW s \in Stream, NEW n \in 0..buf[s], Take(s, n) PROVE TreeTypeOK'
  BY <1>4 DEF Take
<1>5. CASE UNCHANGED treeVars
  BY <1>5 DEF treeVars
<1> QED BY <1>1, <1>2, <1>3, <1>4, <1>5

\* A pipe whose write ends are all gone gets no more characters and no writer.
LEMMA ClosedStaysClosed ==
  ASSUME TreeTypeOK, TreeStep, NEW s \in Stream, Closed(s)
  PROVE  Closed(s)' /\ buf'[s] = buf[s]
<1> USE DEF TreeTypeOK, Process, Closed, ioVars
<1>1. CASE Fork
  BY <1>1 DEF Fork
<1>2. ASSUME NEW p \in Process, Exit(p) PROVE Closed(s)' /\ buf'[s] = buf[s]
  BY <1>2 DEF Exit
<1>3. ASSUME NEW p \in Process, Die(p) PROVE Closed(s)' /\ buf'[s] = buf[s]
  BY <1>3 DEF Die
<1>4. ASSUME NEW p \in Process, NEW t \in Stream, Write(p, t)
      PROVE  Closed(s)' /\ buf'[s] = buf[s]
  BY <1>4 DEF Write
<1>5. ASSUME NEW p \in Process, NEW t \in Stream, Close(p, t)
      PROVE  Closed(s)' /\ buf'[s] = buf[s]
  BY <1>5 DEF Close
<1> QED
  BY <1>1, <1>2, <1>3, <1>4, <1>5 DEF TreeStep

\* The child and its exit code: it has one once it has ended, and a descendant
\* only after it was started.
ChildEnd ==
  /\ proc["child"] \in {"none", "running", "doomed"} <=> exitCode = "none"
  /\ proc["child"] = "none" => proc["desc"] = "none"
  /\ proc["child"] = "doomed" \/ exitCode = "sigkill" =>
       (proc["desc"] = "running" => escaped)

\* The processes and the program keep that; a child is started once.
LEMMA ChildEndStep ==
  ASSUME TreeTypeOK, ChildEnd,
         \/ TreeStep
         \/ proc["child"] = "none" /\ Spawn
         \/ KillTree \/ Reap
         \/ UNCHANGED <<proc, escaped, exitCode>>
  PROVE  ChildEnd'
<1> USE DEF TreeTypeOK, ChildEnd, Process, ProcState, ioVars
<1>1. CASE Fork
  BY <1>1 DEF Fork
<1>2. ASSUME NEW p \in Process, Exit(p) PROVE ChildEnd'
  BY <1>2 DEF Exit
<1>3. ASSUME NEW p \in Process, Die(p) PROVE ChildEnd'
  BY <1>3 DEF Die
<1>4. ASSUME NEW p \in Process, NEW s \in Stream, Write(p, s) \/ Close(p, s) PROVE ChildEnd'
  BY <1>4 DEF Write, Close
<1>5. CASE proc["child"] = "none" /\ Spawn
  BY <1>5 DEF Spawn
<1>6. CASE KillTree
  BY <1>6 DEF KillTree, InGroup
<1>7. CASE Reap
  BY <1>7 DEF Reap
<1>8. CASE UNCHANGED <<proc, escaped, exitCode>>
  BY <1>8
<1> QED BY <1>1, <1>2, <1>3, <1>4, <1>5, <1>6, <1>7, <1>8 DEF TreeStep
=============================================================================
