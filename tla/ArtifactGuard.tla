---------------------------- MODULE ArtifactGuard ----------------------------
(***************************************************************************)
(* The model-artifact guard: scripts/check_model_artifacts.py, run by the  *)
(* pre-commit hook (--staged) while files are edited and staged around it, *)
(* and by CI on a fresh checkout (--tracked).                              *)
(*                                                                         *)
(* A file is a name, and its content is its size class.  Git is external:  *)
(* git commit reads the index again after the hook; a listing quotes names *)
(* with unusual characters, and pairs an added name with a deleted one of  *)
(* similar content as a rename.                                            *)
(***************************************************************************)
EXTENDS Naturals, FiniteSets

CONSTANTS Weight,    \* names with an extension of FORBIDDEN_EXT
          TopCache,  \* names in a cache directory at the root
          SubCache,  \* names in a cache directory further down
          Plain,     \* other names
          Quoted,    \* the names git quotes
          MaxEdits   \* edits of the work tree (bound)

Forbidden == Weight \cup TopCache \cup SubCache
Name      == Forbidden \cup Plain
Content   == {"none", "small", "big"}

ASSUME GuardAssumption ==
  /\ Quoted \subseteq Name
  /\ Plain \cap Forbidden = {}
  /\ MaxEdits \in Nat

VARIABLES work, index, head,  \* the content of each name in the three trees
          edits,
          pc,                 \* where the run of the hook is
          paths,              \* names listed, not looked at yet
          found,              \* names with a violation
          code,               \* exit code of the last run
          audit,              \* what CI says of head
          renamed,            \* history: names this run's listing left out as renames
          stale               \* history: names whose staged blob this run did not see

trees    == <<work, index, head>>
hookVars == <<pc, paths, found, code, renamed, stale>>
vars     == <<trees, edits, audit, hookVars>>

Init ==
  /\ work = [n \in Name |-> "none"]
  /\ index = work
  /\ head = work
  /\ edits = 0
  /\ pc = "idle"
  /\ paths = {}
  /\ found = {}
  /\ code = "none"
  /\ audit = "none"
  /\ renamed = {}
  /\ stale = {}

-----------------------------------------------------------------------------
(* Git and the operator.                                                   *)

\* A file is written, truncated or removed.
Edit(n, c) ==
  /\ edits < MaxEdits
  /\ work[n] # c
  /\ work' = [work EXCEPT ![n] = c]
  /\ edits' = edits + 1
  /\ UNCHANGED <<index, head, audit, hookVars>>

\* git add -f, git rm --cached; perhaps while the hook runs.
Stage(n) ==
  /\ index[n] # work[n]
  /\ index' = [index EXCEPT ![n] = work[n]]
  /\ stale' = IF pc = "idle" THEN stale ELSE stale \cup {n}
  /\ UNCHANGED <<work, head, edits, audit, pc, paths, found, code, renamed>>

Added   == {n \in Name : head[n] = "none" /\ index[n] # "none"}
Deleted == {n \in Name : head[n] # "none" /\ index[n] = "none"}
Kept    == {n \in Name : head[n] # "none" /\ index[n] # "none"}

\* Each deleted name can make one added name a rename.
Renames == {R \in SUBSET Added : Cardinality(R) <= Cardinality(Deleted)}

\* A commit the hook has not seen: --no-verify, a merge, a clone without it.
CommitUnguarded ==
  /\ pc = "idle"
  /\ index # head
  /\ head' = index
  /\ audit' = "none"
  /\ UNCHANGED <<work, index, edits, hookVars>>

-----------------------------------------------------------------------------
(* The guard.                                                              *)

\* Mutant of NameRefused: a cache directory is a prefix of the path.
NameRefusedByPrefix(n) == n \in (Weight \cup TopCache) \ Quoted

\* Quotes are taken for part of the name: of its extension, and of its first
\* directory.
NameRefused(n) == n \in SubCache \/ n \in (Weight \cup TopCache) \ Quoted

\* os.path.getsize, or 0 for a name that is not there.
SizeRefused(n, tree) == n \notin Quoted /\ tree[n] = "big"

\* Mutant of StagedFiles: the listing has every status but R.
StagedFilesOfAnyStatus(R, M) == (Added \ R) \cup Deleted \cup M

\* --diff-filter=ACM, if R are the renames and M the modified names.  (No entry
\* changes its type here: the filter would leave out that one as well.)
StagedFiles(R, M) == (Added \ R) \cup M

StartHook ==
  /\ pc = "idle"
  /\ index # head
  /\ \E R \in Renames, M \in SUBSET Kept :
       /\ {n \in Kept : index[n] # head[n]} \subseteq M
       /\ paths' = StagedFiles(R, M)
       /\ renamed' = R
  /\ stale' = {}
  /\ pc' = "look"
  /\ UNCHANGED <<trees, edits, audit, found, code>>

\* Mutant of GitFails: the failure is taken for an empty listing.
GitFailsOpen ==
  /\ pc = "idle"
  /\ index # head
  /\ pc' = "look"
  /\ renamed' = {}
  /\ stale' = {}
  /\ UNCHANGED <<trees, edits, audit, paths, found, code>>

\* GuardError: exit 2, and no commit.
GitFails ==
  /\ pc = "idle"
  /\ index # head
  /\ code' = "2"
  /\ UNCHANGED <<trees, edits, audit, pc, paths, found, renamed, stale>>

\* One pass of the loop of _violations.  The file is looked at in the work tree.
Look(n) ==
  /\ pc = "look"
  /\ n \in paths
  /\ paths' = paths \ {n}
  /\ found' = IF NameRefused(n) \/ SizeRefused(n, work) THEN found \cup {n} ELSE found
  /\ stale' = IF work[n] = index[n] THEN stale ELSE stale \cup {n}
  /\ UNCHANGED <<trees, edits, audit, pc, code, renamed>>

\* Mutant of Finish: the names found are kept for the next run.
FinishKeepsFound ==
  /\ pc = "look"
  /\ paths = {}
  /\ head' = IF found = {} THEN index ELSE head
  /\ audit' = IF found = {} THEN "none" ELSE audit
  /\ code' = IF found = {} THEN "0" ELSE "5"
  /\ pc' = "idle"
  /\ UNCHANGED <<work, index, edits, paths, found, renamed, stale>>

\* Exit 0: the commit is made, from the index as it now is.  Exit 5: it is not.
Finish ==
  /\ pc = "look"
  /\ paths = {}
  /\ head' = IF found = {} THEN index ELSE head
  /\ audit' = IF found = {} THEN "none" ELSE audit
  /\ code' = IF found = {} THEN "0" ELSE "5"
  /\ pc' = "idle"
  /\ found' = {}
  /\ renamed' = {}
  /\ stale' = {}
  /\ UNCHANGED <<work, index, edits, paths>>

\* --tracked in a checkout of head: every tracked name, sizes as committed.
Audit ==
  /\ audit = "none"
  /\ audit' = IF \E n \in Name : head[n] # "none" /\ (NameRefused(n) \/ SizeRefused(n, head))
              THEN "refused" ELSE "clean"
  /\ UNCHANGED <<trees, edits, hookVars>>

Next ==
  \/ \E n \in Name, c \in Content : Edit(n, c)
  \/ \E n \in Name : Stage(n) \/ Look(n)
  \/ CommitUnguarded \/ StartHook \/ GitFails \/ Finish \/ Audit

Spec == Init /\ [][Next]_vars

-----------------------------------------------------------------------------
(* Properties.                                                             *)

\* Every variable has its type; nothing is left of a run that is over.
TypeOK ==
  /\ {work, index, head} \subseteq [Name -> Content]
  /\ edits \in 0..MaxEdits
  /\ pc \in {"idle", "look"}
  /\ code \in {"none", "0", "2", "5"}
  /\ audit \in {"none", "clean", "refused"}
  /\ {paths, found, renamed, stale} \subseteq SUBSET Name
  /\ paths \cup found # {} => pc = "look"

Artifact(n, c) == c # "none" /\ (n \in Forbidden \/ c = "big")

GuardedCommit == pc = "look" /\ head' # head

\* The gaps of the hook are these and no others: an artifact enters head in a
\* guarded commit only under a quoted name, as a rename, or if the work tree
\* the guard looked at was not what the index held then or at the commit.
\* Editing, staging and failures of git in any order open no other.
ArtifactsEnterByKnownGaps ==
  [][GuardedCommit =>
       \A n \in Name : head'[n] # head[n] /\ Artifact(n, head'[n])
                       => n \in Quoted \cup renamed \cup stale]_vars

\* The hook refuses a commit for an artifact it would bring in or keep, unless
\* the file changed meanwhile: above all, the deletion of one is never refused.
RefusalsAreDeserved ==
  pc = "look" => \A n \in found \ stale : Artifact(n, index[n])

\* CI catches what the hook let in, except under quoted names; and it refuses no
\* clean head.
AuditIsExact ==
  /\ audit = "clean" => \A n \in Name : Artifact(n, head[n]) => n \in Quoted
  /\ audit = "refused" => \E n \in Name : Artifact(n, head[n])
=============================================================================
