-------------------------- MODULE ArtifactGuardProofs -------------------------
(***************************************************************************)
(* Proofs about ArtifactGuard, for any names of any classes and any number *)
(* of edits: what the hook refuses, what it lets in, and what CI finds.    *)
(***************************************************************************)
EXTENDS ArtifactGuard, TLAPS

\* Every variable has its type, for any set of names.
LEMMA TypeInit == Init => TypeOK
BY GuardAssumption DEF Init, TypeOK, Content

\* Every step keeps the types.
LEMMA TypeNext == TypeOK /\ [Next]_vars => TypeOK'
<1> SUFFICES ASSUME TypeOK, [Next]_vars PROVE TypeOK'
  OBVIOUS
<1> USE DEF TypeOK, trees, hookVars
<1>1. ASSUME NEW n \in Name, NEW c \in Content, Edit(n, c) PROVE TypeOK'
  BY <1>1, GuardAssumption DEF Edit
<1>2. ASSUME NEW n \in Name, Stage(n) PROVE TypeOK'
  BY <1>2 DEF Stage
<1>3. ASSUME NEW n \in Name, Look(n) PROVE TypeOK'
  BY <1>3 DEF Look
<1>4. CASE CommitUnguarded
  BY <1>4 DEF CommitUnguarded
<1>5. CASE StartHook
  <2>1. PICK R \in Renames, M \in SUBSET Kept :
          paths' = StagedFiles(R, M) /\ renamed' = R
    BY <1>5 DEF StartHook
  <2>2. StagedFiles(R, M) \subseteq Name /\ R \subseteq Name
    BY DEF StagedFiles, Renames, Added, Kept
  <2> QED
    BY <1>5, <2>1, <2>2 DEF StartHook
<1>6. CASE GitFails
  BY <1>6 DEF GitFails
<1>7. CASE Finish
  BY <1>7 DEF Finish
<1>8. CASE Audit
  BY <1>8 DEF Audit
<1>9. CASE UNCHANGED vars
  BY <1>9 DEF vars
<1> QED
  BY <1>1, <1>2, <1>3, <1>4, <1>5, <1>6, <1>7, <1>8, <1>9 DEF Next

\* Type correctness of the guard and of the trees around it.
THEOREM GuardTypeCorrect == Spec => []TypeOK
<1> QED
  BY TypeInit, TypeNext, PTL DEF Spec

-----------------------------------------------------------------------------
(* The inductive invariant.                                                *)

\* What is still to be looked at is in the index, unless it was unstaged since.
ListedIsStaged == pc = "look" => \A n \in paths \ stale : index[n] # "none"

\* What this run was shown as it is, and has not found, it has yet to look at.
Seen(n) == n \notin Quoted \cup renamed \cup stale
NothingSlips ==
  pc = "look" =>
    \A n \in Name : index[n] # head[n] /\ Artifact(n, index[n]) /\ Seen(n)
                      => n \in paths \cup found

IInv == TypeOK /\ ListedIsStaged /\ RefusalsAreDeserved /\ NothingSlips /\ AuditIsExact

\* A look refuses every artifact that it is shown as it is, and those only.
LEMMA LookIsExact ==
  ASSUME TypeOK, NEW n \in Name, work[n] = index[n], index[n] # "none"
  PROVE  /\ NameRefused(n) \/ SizeRefused(n, work) => Artifact(n, index[n])
         /\ Artifact(n, index[n]) /\ n \notin Quoted => NameRefused(n) \/ SizeRefused(n, work)
BY DEF NameRefused, SizeRefused, Artifact, Forbidden

\* The listing has what the commit would change, but for the renames.
LEMMA ListingIsComplete ==
  ASSUME TypeOK, StartHook
  PROVE  /\ \A n \in paths' : index[n] # "none"
         /\ \A n \in Name : index[n] # head[n] /\ index[n] # "none" /\ n \notin renamed'
                              => n \in paths'
<1>1. PICK R \in Renames, M \in SUBSET Kept :
        /\ {n \in Kept : index[n] # head[n]} \subseteq M
        /\ paths' = StagedFiles(R, M)
        /\ renamed' = R
  BY DEF StartHook
<1> QED
  BY <1>1 DEF StagedFiles, Added, Kept

\* The invariant holds initially.
LEMMA InvInit == Init => IInv
<1> SUFFICES ASSUME Init PROVE IInv
  OBVIOUS
<1>1. TypeOK
  BY TypeInit
<1> QED
  BY <1>1 DEF Init, IInv, ListedIsStaged, RefusalsAreDeserved, NothingSlips, AuditIsExact

\* Every step of the hook keeps it.
LEMMA InvHook ==
  IInv /\ (StartHook \/ GitFails \/ Finish \/ \E n \in Name : Look(n)) => IInv'
<1> SUFFICES ASSUME IInv, StartHook \/ GitFails \/ Finish \/ \E n \in Name : Look(n)
             PROVE  IInv'
  OBVIOUS
<1> USE DEF trees, hookVars
<1>0. TypeOK /\ TypeOK'
  BY TypeNext DEF IInv, Next
<1>1. CASE StartHook
  <2>1. ListedIsStaged' /\ NothingSlips'
    BY <1>0, <1>1, ListingIsComplete DEF StartHook, ListedIsStaged, NothingSlips, Artifact, Seen
  <2>2. RefusalsAreDeserved'
    BY <1>0, <1>1 DEF StartHook, RefusalsAreDeserved, TypeOK
  <2>3. AuditIsExact'
    BY <1>1 DEF IInv, StartHook, AuditIsExact
  <2> QED
    BY <1>0, <2>1, <2>2, <2>3 DEF IInv
<1>2. CASE GitFails
  BY <1>0, <1>2 DEF GitFails, IInv, ListedIsStaged, RefusalsAreDeserved, NothingSlips, Seen,
     AuditIsExact
<1>3. CASE Finish
  <2>1. AuditIsExact'
    BY <1>3 DEF IInv, Finish, AuditIsExact
  <2> QED
    BY <1>0, <1>3, <2>1 DEF Finish, IInv, ListedIsStaged, RefusalsAreDeserved, NothingSlips
<1>4. ASSUME NEW n \in Name, Look(n) PROVE IInv'
  <2>1. /\ pc = "look" /\ pc' = pc /\ n \in paths /\ paths' = paths \ {n}
        /\ found' = IF NameRefused(n) \/ SizeRefused(n, work) THEN found \cup {n} ELSE found
        /\ stale' = IF work[n] = index[n] THEN stale ELSE stale \cup {n}
        /\ UNCHANGED <<index, head, audit, renamed>>
    BY <1>4 DEF Look
  <2>2. CASE work[n] = index[n] /\ n \notin stale
    <3>1. index[n] # "none"
      BY <2>1, <2>2 DEF IInv, ListedIsStaged
    <3>2. n \in found' => Artifact(n, index[n]) \/ n \in found
      BY <1>0, <2>1, <2>2, <3>1, LookIsExact
    <3>3. Artifact(n, index[n]) /\ n \notin Quoted => n \in found'
      BY <1>0, <2>1, <2>2, <3>1, LookIsExact
    <3>4. RefusalsAreDeserved'
      BY <2>1, <2>2, <3>2 DEF IInv, RefusalsAreDeserved, Artifact
    <3>5. ListedIsStaged' /\ NothingSlips'
      BY <2>1, <2>2, <3>3 DEF IInv, ListedIsStaged, NothingSlips, Seen, Artifact
    <3> QED
      BY <1>0, <2>1, <3>4, <3>5 DEF IInv, AuditIsExact, Artifact
  <2>3. CASE n \in stale'
    BY <1>0, <2>1, <2>3
    DEF IInv, ListedIsStaged, RefusalsAreDeserved, NothingSlips, Seen, AuditIsExact, Artifact
  <2> QED
    BY <2>1, <2>2, <2>3
<1> QED
  BY <1>1, <1>2, <1>3, <1>4

\* So does every step around it.
LEMMA InvWorld ==
  ASSUME IInv,
         \/ \E n \in Name : Stage(n) \/ \E c \in Content : Edit(n, c)
         \/ CommitUnguarded \/ Audit \/ UNCHANGED vars
  PROVE  IInv'
<1> USE DEF trees, hookVars
<1>0. TypeOK /\ TypeOK'
  BY TypeNext DEF IInv, Next
<1>1. ASSUME NEW n \in Name, NEW c \in Content, Edit(n, c) PROVE IInv'
  BY <1>0, <1>1
  DEF Edit, IInv, ListedIsStaged, RefusalsAreDeserved, NothingSlips, Seen, AuditIsExact
<1>2. ASSUME NEW n \in Name, Stage(n) PROVE IInv'
  <2>1. /\ \A m \in Name \ {n} : index'[m] = index[m]
        /\ pc = "look" => stale' = stale \cup {n}
        /\ UNCHANGED <<head, audit, pc, paths, found, renamed>>
    BY <1>0, <1>2 DEF Stage, TypeOK
  <2>2. pc = "look" => paths \cup found \subseteq Name
    BY <1>0 DEF TypeOK
  <2> QED
    BY <1>0, <2>1, <2>2
    DEF IInv, ListedIsStaged, RefusalsAreDeserved, NothingSlips, Seen, AuditIsExact, Artifact
<1>3. CASE CommitUnguarded
  BY <1>0, <1>3
  DEF CommitUnguarded, IInv, ListedIsStaged, RefusalsAreDeserved, NothingSlips, AuditIsExact
<1>4. CASE Audit
  <2>1. AuditIsExact'
    BY <1>4 DEF Audit, AuditIsExact, NameRefused, SizeRefused, Artifact, Forbidden
  <2> QED
    BY <1>0, <1>4, <2>1
    DEF Audit, IInv, ListedIsStaged, RefusalsAreDeserved, NothingSlips, Seen
<1>5. CASE UNCHANGED vars
  BY <1>0, <1>5
  DEF vars, IInv, ListedIsStaged, RefusalsAreDeserved, NothingSlips, Seen, AuditIsExact
<1> QED
  BY <1>1, <1>2, <1>3, <1>4, <1>5

\* The inductive invariant holds throughout.
THEOREM Invariant == Spec => []IInv
<1>1. IInv /\ [Next]_vars => IInv'
  BY InvHook, InvWorld DEF Next
<1> QED
  BY <1>1, InvInit, PTL DEF Spec

-----------------------------------------------------------------------------
(* What follows from it.                                                   *)

\* No name is refused but for an artifact the commit would bring in or keep.
THEOREM NoFalseRefusal == Spec => []RefusalsAreDeserved
<1>1. IInv => RefusalsAreDeserved
  BY DEF IInv
<1> QED
  BY <1>1, Invariant, PTL

\* CI finds every artifact in head, but under quoted names, and nothing else.
THEOREM AuditExact == Spec => []AuditIsExact
<1>1. IInv => AuditIsExact
  BY DEF IInv
<1> QED
  BY <1>1, Invariant, PTL

\* An artifact enters head in a guarded commit by the known gaps only.
THEOREM GapsAreKnown == Spec => ArtifactsEnterByKnownGaps
<1>1. IInv /\ [Next]_vars =>
        [GuardedCommit =>
           \A n \in Name : head'[n] # head[n] /\ Artifact(n, head'[n])
                             => n \in Quoted \cup renamed \cup stale]_vars
  <2> SUFFICES ASSUME IInv, Next, GuardedCommit, NEW n \in Name,
                      head'[n] # head[n], Artifact(n, head'[n])
               PROVE  n \in Quoted \cup renamed \cup stale
    OBVIOUS
  <2>1. Finish
    BY DEF Next, GuardedCommit, Edit, Stage, Look, CommitUnguarded, StartHook, GitFails, Audit,
           trees, hookVars
  <2>2. found = {} /\ paths = {} /\ head' = index
    BY <2>1 DEF Finish, GuardedCommit
  <2> QED
    BY <2>2 DEF IInv, NothingSlips, Seen, GuardedCommit
<1> QED
  BY <1>1, Invariant, PTL DEF Spec, ArtifactsEnterByKnownGaps
=============================================================================
