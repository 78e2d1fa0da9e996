----------------------------- MODULE ChildTree -----------------------------
(***************************************************************************)
(* The process tree a call runs: the child started by spawn_child in its   *)
(* own session (limits.py, setsid), one descendant the child may fork, and *)
(* the stdout and stderr pipes both may hold.  What the program does to    *)
(* the tree (spawn, read, kill the group, reap) is translated from         *)
(* executor.py; what the processes do by themselves is any behaviour a     *)
(* program may have.                                                       *)
(*                                                                         *)
(* Output is counted: buf[s] characters lie in pipe s and written[s] were  *)
(* written so far, at most PipeCap and Budget(s).                          *)
(***************************************************************************)
EXTENDS Naturals

CONSTANTS PipeCap,    \* characters a pipe holds before a writer blocks
          OutBudget,  \* characters the tree writes to stdout at most
          ErrBudget,  \* characters the tree writes to stderr at most
          MayEscape   \* a descendant may leave the process group (setsid)

ASSUME TreeAssumption ==
  /\ PipeCap \in Nat \ {0}
  /\ OutBudget \in Nat
  /\ ErrBudget \in Nat
  /\ MayEscape \in BOOLEAN

Process   == {"child", "desc"}
Stream    == {"out", "err"}
Budget(s) == IF s = "out" THEN OutBudget ELSE ErrBudget

\* "doomed": SIGKILL is pending.  "reaped": wait() has returned it.
ProcState == {"none", "running", "doomed", "dead", "reaped"}
ExitCode  == {"none", "zero", "nonzero", "sigkill"}

VARIABLES proc,      \* state of each process
          holds,     \* the write ends each process holds
          escaped,   \* the descendant has left the process group
          exitCode,  \* how the child ended
          buf,       \* characters in each pipe
          written    \* history: characters written to each pipe

treeVars == <<proc, holds, escaped, exitCode, buf, written>>
ioVars   == <<buf, written>>

TreeInit ==
  /\ proc = [p \in Process |-> "none"]
  /\ holds = [p \in Process |-> {}]
  /\ escaped = FALSE
  /\ exitCode = "none"
  /\ buf = [s \in Stream |-> 0]
  /\ written = [s \in Stream |-> 0]

TreeTypeOK ==
  /\ proc \in [Process -> ProcState]
  /\ holds \in [Process -> SUBSET Stream]
  /\ escaped \in BOOLEAN
  /\ exitCode \in ExitCode
  /\ buf \in [Stream -> 0..PipeCap]
  /\ written \in [Stream -> Nat]

-----------------------------------------------------------------------------
(* What the program does to the tree.                                      *)

Spawn ==
  /\ proc' = [proc EXCEPT !["child"] = "running"]
  /\ holds' = [holds EXCEPT !["child"] = Stream]
  /\ UNCHANGED <<escaped, exitCode, ioVars>>

InGroup(p) == p = "child" \/ ~escaped

\* Mutant of KillTree: the signal reaches nobody.
KillTreeNobody == UNCHANGED treeVars

\* Mutant of KillTree: the child alone is killed.
KillTreeChildOnly ==
  /\ proc' = IF proc["child"] = "running" THEN [proc EXCEPT !["child"] = "doomed"] ELSE proc
  /\ UNCHANGED <<holds, escaped, exitCode, ioVars>>

\* _kill_tree: SIGKILL to every process of the child's group.  Once the child
\* is reaped getpgid fails and Popen.kill does nothing.
KillTree ==
  /\ proc' = IF proc["child"] = "reaped" THEN proc
             ELSE [p \in Process |->
                     IF proc[p] = "running" /\ InGroup(p) THEN "doomed" ELSE proc[p]]
  /\ UNCHANGED <<holds, escaped, exitCode, ioVars>>

Reap ==
  /\ proc["child"] = "dead"
  /\ proc' = [proc EXCEPT !["child"] = "reaped"]
  /\ UNCHANGED <<holds, escaped, exitCode, ioVars>>

\* Every holder of the write end is gone.
Closed(s)   == \A p \in Process : s \notin holds[p]
Readable(s) == buf[s] > 0 \/ Closed(s)

\* read(2) takes n characters out of pipe s.
Take(s, n) ==
  /\ buf' = [buf EXCEPT ![s] = @ - n]
  /\ UNCHANGED <<proc, holds, escaped, exitCode, written>>

-----------------------------------------------------------------------------
(* What the processes do by themselves.                                    *)

Write(p, s) ==
  /\ proc[p] = "running"
  /\ s \in holds[p]
  /\ buf[s] < PipeCap
  /\ written[s] < Budget(s)
  /\ buf' = [buf EXCEPT ![s] = @ + 1]
  /\ written' = [written EXCEPT ![s] = @ + 1]
  /\ UNCHANGED <<proc, holds, escaped, exitCode>>

Close(p, s) ==
  /\ proc[p] = "running"
  /\ s \in holds[p]
  /\ holds' = [holds EXCEPT ![p] = @ \ {s}]
  /\ UNCHANGED <<proc, escaped, exitCode, ioVars>>

Fork ==
  /\ proc["child"] = "running"
  /\ proc["desc"] = "none"
  /\ proc' = [proc EXCEPT !["desc"] = "running"]
  /\ holds' = [holds EXCEPT !["desc"] = holds["child"]]
  /\ escaped' \in (IF MayEscape THEN BOOLEAN ELSE {FALSE})
  /\ UNCHANGED <<exitCode, ioVars>>

Exit(p) ==
  /\ proc[p] = "running"
  /\ proc' = [proc EXCEPT ![p] = "dead"]
  /\ holds' = [holds EXCEPT ![p] = {}]
  /\ exitCode' \in (IF p = "child" THEN {"zero", "nonzero"} ELSE {exitCode})
  /\ UNCHANGED <<escaped, ioVars>>

\* The kernel delivers a pending SIGKILL.
Die(p) ==
  /\ proc[p] = "doomed"
  /\ proc' = [proc EXCEPT ![p] = "dead"]
  /\ holds' = [holds EXCEPT ![p] = {}]
  /\ exitCode' = IF p = "child" THEN "sigkill" ELSE exitCode
  /\ UNCHANGED <<escaped, ioVars>>

TreeStep ==
  \/ Fork
  \/ \E p \in Process : Exit(p) \/ Die(p)
  \/ \E p \in Process, s \in Stream : Write(p, s) \/ Close(p, s)
=============================================================================
