-------------------------- MODULE ModelCacheProofs -------------------------
(***************************************************************************)
(* Proofs about ModelCache, for any set of callers and pins and any number *)
(* of writes and calls: the sidecar vouches only for bytes that were       *)
(* hashed, and an accepted file is the pinned one.                         *)
(***************************************************************************)
EXTENDS ModelCache, TLAPS

\* The constants that stand for nothing have their types.
LEMMA Defaults ==
  /\ NoPin \in Pins
  /\ NoData \in Digest
  /\ NoStat \in Stat
  /\ NoFile \in File
  /\ NoCar \in Sidecar
  /\ TornCar \in Sidecar
<1>1. NoPin \in Pins /\ \A p \in Pins : p \in Digest
  BY CacheAssumption DEF NoPin
<1>2. NoData \in Digest
  BY <1>1 DEF NoData
<1>3. 0 \in 0..MaxTime
  BY CacheAssumption
<1>4. NoStat \in Stat
  BY <1>3 DEF NoStat, Stat
<1> QED
  BY <1>1, <1>2, <1>3, <1>4 DEF NoFile, File, NoCar, TornCar, Sidecar

\* The initial state is well typed.
LEMMA TypeInit == Init => TypeOK
<1> SUFFICES ASSUME Init PROVE TypeOK
  OBVIOUS
<1>1. disk \in File /\ sidecar \in Sidecar /\ clock \in 0..MaxTime
  BY Defaults, CacheAssumption DEF Init
<1>2. pin \in [Caller -> Pins] /\ st \in [Caller -> Stat] /\ read \in [Caller -> Digest]
  BY Defaults DEF Init
<1>3. pc \in [Caller -> Labels] /\ outcome \in [Caller -> Outcome]
  BY DEF Init, Labels, Outcome
<1>4. calls \in [Caller -> 0..MaxCalls]
  BY CacheAssumption DEF Init
<1>5. full \in [Caller -> BOOLEAN]
  BY DEF Init
<1> QED
  BY <1>1, <1>2, <1>3, <1>4, <1>5 DEF TypeOK

\* Leaving a label, and ending a call, keep the types.
LEMMA GotoType ==
  ASSUME TypeOK, NEW c \in Caller, NEW l \in Labels, Goto(c, l)
  PROVE  pc' \in [Caller -> Labels]
BY DEF TypeOK, Goto

\* The same for a call that ends.
LEMMA EndType ==
  ASSUME TypeOK, NEW c \in Caller, NEW o \in Outcome, End(c, o)
  PROVE  pc' \in [Caller -> Labels] /\ outcome' \in [Caller -> Outcome]
<1>1. "returned" \in Labels
  BY DEF Labels
<1> QED
  BY <1>1, GotoType DEF TypeOK, End

\* Every step keeps the types.
LEMMA TypeNext == TypeOK /\ [Next]_vars => TypeOK'
<1> SUFFICES ASSUME TypeOK, [Next]_vars PROVE TypeOK'
  OBVIOUS
<1> USE DEF diskVars, callVars
<1>1. ASSUME NEW c \in Caller, Call(c) PROVE TypeOK'
  <2>1. calls[c] + 1 \in 0..MaxCalls
    BY <1>1, CacheAssumption DEF Call, TypeOK
  <2>2. calls' \in [Caller -> 0..MaxCalls]
    BY <1>1, <2>1 DEF Call, TypeOK
  <2>3. CASE Goto(c, "isfile") /\ UNCHANGED outcome
               /\ \E p \in Pins, f \in BOOLEAN :
                    pin' = [pin EXCEPT ![c] = p] /\ full' = [full EXCEPT ![c] = f]
    <3>1. pc' \in [Caller -> Labels]
      BY <2>3, GotoType DEF Labels
    <3>2. pin' \in [Caller -> Pins] /\ full' \in [Caller -> BOOLEAN]
      BY <2>3 DEF TypeOK
    <3> QED
      BY <1>1, <2>2, <2>3, <3>1, <3>2 DEF Call, TypeOK
  <2>4. CASE (End(c, "model_dir_unset") \/ End(c, "catalog_invalid")) /\ UNCHANGED <<pin, full>>
    <3>1. pc' \in [Caller -> Labels] /\ outcome' \in [Caller -> Outcome]
      BY <2>4, EndType DEF Outcome
    <3> QED
      BY <1>1, <2>2, <2>4, <3>1 DEF Call, TypeOK
  <2> QED
    BY <1>1, <2>3, <2>4 DEF Call
<1>2. ASSUME NEW c \in Caller, IsFile(c) PROVE TypeOK'
  <2>1. pc' \in [Caller -> Labels] /\ outcome' \in [Caller -> Outcome]
    BY <1>2, GotoType, EndType DEF IsFile, Labels, Outcome, TypeOK
  <2> QED
    BY <1>2, <2>1 DEF IsFile, TypeOK
<1>3. ASSUME NEW c \in Caller, StatFile(c) PROVE TypeOK'
  <2>1. pc' \in [Caller -> Labels] /\ outcome' \in [Caller -> Outcome]
    BY <1>3, GotoType, EndType DEF StatFile, Labels, Outcome, TypeOK
  <2>2. [short |-> Short(disk.data), mtime |-> disk.mtime] \in Stat
    BY DEF TypeOK, File, Stat, Short
  <2>3. st' \in [Caller -> Stat]
    BY <1>3, <2>2 DEF StatFile, TypeOK
  <2> QED
    BY <1>3, <2>1, <2>3 DEF StatFile, TypeOK
<1>4. ASSUME NEW c \in Caller, Lookup(c) PROVE TypeOK'
  <2>1. pc' \in [Caller -> Labels] /\ outcome' \in [Caller -> Outcome]
    BY <1>4, GotoType, EndType DEF Lookup, Labels, Outcome, TypeOK
  <2> QED
    BY <1>4, <2>1 DEF Lookup, TypeOK
<1>5. ASSUME NEW c \in Caller, HashFirst(c) PROVE TypeOK'
  <2>1. pc' \in [Caller -> Labels] /\ outcome' \in [Caller -> Outcome]
    BY <1>5, GotoType, EndType DEF HashFirst, Labels, Outcome, TypeOK
  <2>2. read' \in [Caller -> Digest]
    BY <1>5 DEF HashFirst, TypeOK, File
  <2> QED
    BY <1>5, <2>1, <2>2 DEF HashFirst, TypeOK
<1>6. ASSUME NEW c \in Caller, HashSecond(c) PROVE TypeOK'
  <2>1. pc' \in [Caller -> Labels]
    BY <1>6, GotoType DEF HashSecond, Labels
  <2>2. [first |-> read[c].first, second |-> disk.data.second] \in Digest
    BY DEF TypeOK, File, Digest
  <2>3. read' \in [Caller -> Digest]
    BY <1>6, <2>2 DEF HashSecond, TypeOK
  <2> QED
    BY <1>6, <2>1, <2>3 DEF HashSecond, TypeOK
<1>7. ASSUME NEW c \in Caller, Compare(c) PROVE TypeOK'
  <2>1. pc' \in [Caller -> Labels] /\ outcome' \in [Caller -> Outcome]
    BY <1>7, GotoType, EndType DEF Compare, Labels, Outcome, TypeOK
  <2> QED
    BY <1>7, <2>1 DEF Compare, TypeOK
<1>8. ASSUME NEW c \in Caller, Truncate(c) PROVE TypeOK'
  <2>1. pc' \in [Caller -> Labels] /\ outcome' \in [Caller -> Outcome]
    BY <1>8, GotoType, EndType DEF Truncate, Labels, Outcome, TypeOK
  <2>2. sidecar' \in Sidecar
    BY <1>8, Defaults DEF Truncate, TypeOK
  <2> QED
    BY <1>8, <2>1, <2>2 DEF Truncate, TypeOK
<1>9. ASSUME NEW c \in Caller, WriteSidecar(c) PROVE TypeOK'
  <2>1. pc' \in [Caller -> Labels] /\ outcome' \in [Caller -> Outcome]
    BY <1>9, EndType DEF WriteSidecar, Outcome
  <2>2. sidecar' \in Sidecar
    BY <1>9, Defaults DEF WriteSidecar, Record, TypeOK, Sidecar
  <2> QED
    BY <1>9, <2>1, <2>2 DEF WriteSidecar, TypeOK
<1>10. ASSUME NEW c \in Caller, Forget(c) PROVE TypeOK'
  <2>1. pc' \in [Caller -> Labels]
    BY <1>10, GotoType DEF Forget, Labels
  <2>2. outcome' \in [Caller -> Outcome]
    BY <1>10 DEF Forget, TypeOK, Outcome
  <2>3. pin' \in [Caller -> Pins] /\ st' \in [Caller -> Stat] /\ read' \in [Caller -> Digest]
    BY <1>10, Defaults DEF Forget, TypeOK
  <2>4. full' \in [Caller -> BOOLEAN]
    BY <1>10 DEF Forget, TypeOK
  <2> QED
    BY <1>10, <2>1, <2>2, <2>3, <2>4 DEF Forget, TypeOK
<1>11. ASSUME WriteFile PROVE TypeOK'
  <2>1. clock + 1 \in 0..MaxTime
    BY <1>11, CacheAssumption DEF WriteFile, TypeOK
  <2> QED
    BY <1>11, <2>1 DEF WriteFile, TypeOK, File
<1>12. ASSUME RemoveFile PROVE TypeOK'
  BY <1>12, Defaults DEF RemoveFile, TypeOK
<1>13. ASSUME LoseSidecar PROVE TypeOK'
  BY <1>13, Defaults DEF LoseSidecar, TypeOK
<1>14. ASSUME UNCHANGED vars PROVE TypeOK'
  BY <1>14 DEF vars, TypeOK
<1> QED
  BY <1>1, <1>2, <1>3, <1>4, <1>5, <1>6, <1>7, <1>8, <1>9, <1>10, <1>11, <1>12, <1>13, <1>14
  DEF Next, Step, Leave, Crash

\* Every reachable state is well typed.
THEOREM CacheTypeCorrect == Spec => []TypeOK
BY TypeInit, TypeNext, PTL DEF Spec

-----------------------------------------------------------------------------
(* Soundness.  mtimes only grow, so a write makes every stat result taken  *)
(* before it stale: what a call or the sidecar knows of a file it has      *)
(* stat'ed holds of the bytes on disk, or the stat result is not current.  *)

\* The labels after a stat result was taken and its size compared, after the
\* hash was opened, and after the digest was compared.
Sized   == {"lookup", "hash1", "hash2", "compare", "truncate", "write"}
Hashing == {"hash2", "compare", "truncate", "write"}
Matched == {"truncate", "write"}

\* What call c knows.
CallSound(c) ==
  /\ st[c].mtime <= clock
  /\ pc[c] \in Sized => ~st[c].short
  /\ pc[c] \in Hashing => (Current(st[c]) => read[c] = disk.data)
  /\ pc[c] \in Matched => read[c] = pin[c]
  /\ pc[c] = "returned" /\ outcome[c] \in {"full", "cached"}
       => (Current(st[c]) => disk.data = pin[c])

\* What the sidecar says.
SidecarSound ==
  sidecar.state = "valid" =>
    /\ sidecar.stat.mtime <= clock
    /\ ~sidecar.stat.short
    /\ sidecar.sha \in Pins
    /\ Current(sidecar.stat) => disk.data = sidecar.sha

IInv ==
  /\ TypeOK
  /\ disk.mtime <= clock
  /\ SidecarSound
  /\ \A c \in Caller : CallSound(c)

\* It holds at the start: nothing has been stat'ed or recorded.
LEMMA SoundInit == Init => IInv
<1> SUFFICES ASSUME Init PROVE IInv
  OBVIOUS
<1>1. TypeOK
  BY TypeInit
<1>2. disk.mtime <= clock
  BY DEF Init, NoFile
<1>3. SidecarSound
  BY DEF Init, NoCar, SidecarSound
<1>4. ASSUME NEW c \in Caller PROVE CallSound(c)
  <2>1. pc[c] = "idle" /\ st[c] = NoStat /\ clock = 0
    BY DEF Init
  <2> QED
    BY <2>1 DEF CallSound, NoStat, Sized, Hashing, Matched
<1> QED
  BY <1>1, <1>2, <1>3, <1>4 DEF IInv

\* While the file stays as it is, the calls a step leaves alone stay sound.
LEMMA OthersSound ==
  ASSUME IInv, NEW d \in Caller, UNCHANGED diskVars,
         pc'[d] = pc[d], pin'[d] = pin[d], st'[d] = st[d],
         read'[d] = read[d], outcome'[d] = outcome[d]
  PROVE  CallSound(d)'
BY DEF IInv, CallSound, Current, diskVars

\* While file and sidecar stay as they are, so does what the sidecar says.
LEMMA SameSidecarSound ==
  ASSUME IInv, UNCHANGED <<diskVars, sidecar>>
  PROVE  SidecarSound'
BY DEF IInv, SidecarSound, Current, diskVars

\* A step of caller c keeps the sidecar sound: what it records is a digest
\* that matched its pin, of a file it had stat'ed before it hashed it.
LEMMA SidecarStep ==
  ASSUME IInv, NEW c \in Caller, Step(c)
  PROVE  SidecarSound'
<1> USE DEF diskVars, callVars
<1>1. CASE UNCHANGED <<diskVars, sidecar>>
  BY <1>1, SameSidecarSound
<1>2. CASE Truncate(c) /\ sidecar' = TornCar
  BY <1>2 DEF SidecarSound, TornCar
<1>3. CASE WriteSidecar(c) /\ sidecar' = TornCar
  BY <1>3 DEF SidecarSound, TornCar
<1>4. CASE WriteSidecar(c) /\ sidecar' = Record(c)
  <2>1. UNCHANGED disk /\ clock' = clock
    BY <1>4 DEF WriteSidecar
  <2>2. /\ sidecar'.stat = st[c]
        /\ sidecar'.sha = read[c]
    BY <1>4 DEF Record
  <2>3. /\ st[c].mtime <= clock
        /\ ~st[c].short
        /\ Current(st[c]) => read[c] = disk.data
        /\ read[c] = pin[c]
    BY <1>4 DEF WriteSidecar, IInv, CallSound, Sized, Hashing, Matched
  <2>4. pin[c] \in Pins
    BY DEF IInv, TypeOK
  <2> QED
    BY <2>1, <2>2, <2>3, <2>4 DEF SidecarSound, Current
<1> QED
  BY <1>1, <1>2, <1>3, <1>4
  DEF Step, Call, IsFile, StatFile, Lookup, HashFirst, HashSecond, Compare, Truncate,
      WriteSidecar, Leave, Crash, Forget

\* A step of caller c keeps its own call sound.
LEMMA OwnStep ==
  ASSUME IInv, NEW c \in Caller, Step(c), TypeOK'
  PROVE  CallSound(c)'
<1> USE DEF Goto, End
<1>1. /\ UNCHANGED diskVars
      /\ c \in DOMAIN pc /\ c \in DOMAIN pin /\ c \in DOMAIN st
      /\ c \in DOMAIN read /\ c \in DOMAIN outcome
  BY DEF Step, Call, IsFile, StatFile, Lookup, HashFirst, HashSecond, Compare, Truncate,
         WriteSidecar, Leave, Crash, Forget, IInv, TypeOK
<1>2. CallSound(c) /\ TypeOK /\ disk.mtime <= clock /\ SidecarSound
  BY DEF IInv
<1> USE DEF CallSound, Current, diskVars, Sized, Hashing, Matched
<1>3. CASE Call(c)
  BY <1>1, <1>2, <1>3 DEF Call
<1>4. CASE IsFile(c)
  BY <1>1, <1>2, <1>4 DEF IsFile
<1>5. CASE StatFile(c)
  BY <1>1, <1>2, <1>5 DEF StatFile
<1>6. CASE Lookup(c)
  BY <1>1, <1>2, <1>6 DEF Lookup, Trusted, SidecarSound
<1>7. CASE HashFirst(c)
  BY <1>1, <1>2, <1>7 DEF HashFirst
<1>8. CASE HashSecond(c)
  <2>1. disk.data \in Digest
    BY <1>2 DEF TypeOK, File
  <2>2. disk.data = [first |-> disk.data.first, second |-> disk.data.second]
    BY <2>1 DEF Digest
  <2>3. \/ read'[c] = read[c]
        \/ read'[c] = [first |-> read[c].first, second |-> disk.data.second]
    BY <1>1, <1>8 DEF HashSecond
  <2>4. Current(st[c]) => read'[c] = disk.data
    BY <1>2, <1>8, <2>2, <2>3 DEF HashSecond
  <2> QED
    BY <1>1, <1>2, <1>8, <2>4 DEF HashSecond
<1>9. CASE Compare(c)
  BY <1>1, <1>2, <1>9 DEF Compare
<1>10. CASE Truncate(c)
  BY <1>1, <1>2, <1>10 DEF Truncate
<1>11. CASE WriteSidecar(c)
  BY <1>1, <1>2, <1>11 DEF WriteSidecar
<1>12. CASE Leave(c) \/ Crash(c)
  <2>1. clock \in Nat
    BY <1>2, CacheAssumption DEF TypeOK
  <2>2. pc'[c] = "idle" /\ st'[c] = NoStat
    BY <1>1, <1>12 DEF Leave, Crash, Forget
  <2> QED
    BY <1>1, <2>1, <2>2 DEF NoStat
<1> QED
  BY <1>3, <1>4, <1>5, <1>6, <1>7, <1>8, <1>9, <1>10, <1>11, <1>12 DEF Step

\* A new version of the file, or none, leaves no older stat result current.
LEMMA DiskStep ==
  ASSUME IInv, WriteFile \/ RemoveFile
  PROVE  /\ SidecarSound'
         /\ \A c \in Caller : CallSound(c)'
         /\ disk'.mtime <= clock'
<1>1. /\ UNCHANGED <<sidecar, callVars>>
      /\ clock \in Nat /\ clock' \in Nat /\ clock <= clock'
      /\ ~disk'.present \/ disk'.mtime > clock
      /\ disk'.mtime <= clock'
  BY CacheAssumption DEF IInv, TypeOK, WriteFile, RemoveFile, NoFile
<1>2. ASSUME NEW s \in Stat, s.mtime <= clock
      PROVE  ~Current(s)' /\ s.mtime <= clock'
  <2>1. s.mtime \in Nat
    BY CacheAssumption DEF Stat
  <2> QED
    BY <1>1, <1>2, <2>1 DEF Current
<1>3. SidecarSound'
  <2>1. CASE sidecar.state = "valid"
    <3>1. sidecar.stat \in Stat /\ sidecar.stat.mtime <= clock
      BY <2>1 DEF IInv, TypeOK, Sidecar, SidecarSound
    <3>2. ~Current(sidecar.stat)' /\ sidecar.stat.mtime <= clock'
      BY <1>1, <1>2, <3>1 DEF Current
    <3> QED
      BY <1>1, <2>1, <3>2 DEF SidecarSound, IInv
  <2> QED
    BY <1>1, <2>1 DEF SidecarSound
<1>4. ASSUME NEW c \in Caller PROVE CallSound(c)'
  <2>1. CallSound(c) /\ st[c] \in Stat /\ st[c].mtime <= clock
    BY DEF IInv, TypeOK, CallSound
  <2>2. ~Current(st[c])' /\ st[c].mtime <= clock'
    BY <1>1, <1>2, <2>1 DEF Current, callVars
  <2> QED
    BY <1>1, <2>1, <2>2 DEF CallSound, callVars
<1> QED
  BY <1>1, <1>3, <1>4

\* Every step keeps the invariant.
LEMMA SoundNext == IInv /\ [Next]_vars => IInv'
<1> SUFFICES ASSUME IInv, [Next]_vars PROVE IInv'
  OBVIOUS
<1>1. TypeOK'
  BY TypeNext DEF IInv
<1>2. ASSUME NEW c \in Caller, Step(c) PROVE IInv'
  <2>1. ASSUME NEW d \in Caller, d # c PROVE CallSound(d)'
    <3>1. /\ UNCHANGED diskVars
          /\ pc'[d] = pc[d] /\ pin'[d] = pin[d] /\ st'[d] = st[d]
          /\ read'[d] = read[d] /\ outcome'[d] = outcome[d]
      BY <1>2, <2>1 DEF Step, Call, IsFile, StatFile, Lookup, HashFirst, HashSecond, Compare,
         Truncate, WriteSidecar, Leave, Crash, Forget, Goto, End, IInv, TypeOK
    <3> QED
      BY <3>1, OthersSound
  <2>2. CallSound(c)'
    BY <1>1, <1>2, OwnStep
  <2>3. SidecarSound'
    BY <1>2, SidecarStep
  <2>4. UNCHANGED diskVars
    BY <1>2 DEF Step, Call, IsFile, StatFile, Lookup, HashFirst, HashSecond, Compare,
       Truncate, WriteSidecar, Leave, Crash, Forget
  <2> QED
    BY <1>1, <2>1, <2>2, <2>3, <2>4 DEF IInv, diskVars
<1>3. CASE WriteFile \/ RemoveFile
  BY <1>1, <1>3, DiskStep DEF IInv
<1>4. CASE LoseSidecar
  <2>1. SidecarSound'
    BY <1>4 DEF LoseSidecar, SidecarSound, TornCar, NoCar
  <2>2. UNCHANGED diskVars /\ \A c \in Caller : CallSound(c)'
    BY <1>4, OthersSound DEF LoseSidecar, callVars
  <2> QED
    BY <1>1, <2>1, <2>2 DEF IInv, diskVars
<1>5. CASE UNCHANGED vars
  <2>1. SidecarSound'
    BY <1>5, SameSidecarSound DEF vars
  <2>2. \A c \in Caller : CallSound(c)'
    BY <1>5, OthersSound DEF vars, callVars
  <2> QED
    BY <1>1, <1>5, <2>1, <2>2 DEF IInv, vars, diskVars
<1> QED
  BY <1>2, <1>3, <1>4, <1>5 DEF Next

\* The invariant holds in every reachable state.
LEMMA Sound == Spec => []IInv
BY SoundInit, SoundNext, PTL DEF Spec

\* The sidecar vouches only for bytes that were hashed: no interleaving of
\* hashes, writes of the file, sidecar writes and crashes makes a later call
\* trust bytes nobody verified.
THEOREM SidecarTrustworthy == Spec => []SidecarVouchesForTheBytes
<1>1. IInv => SidecarVouchesForTheBytes
  BY DEF IInv, SidecarSound, SidecarVouchesForTheBytes
<1> QED
  BY <1>1, Sound, PTL

\* A call that accepts the file, by the full hash or by the sidecar, accepts
\* the pinned bytes.
THEOREM AcceptanceSound == Spec => []AcceptedBytesArePinned
<1>1. IInv => AcceptedBytesArePinned
  BY DEF IInv, CallSound, AcceptedBytesArePinned
<1> QED
  BY <1>1, Sound, PTL

\* Every record carries a pinned digest and the stat result of a full file.
THEOREM RecordsAreMatches == Spec => []OnlyMatchesAreRecorded
<1>1. IInv => OnlyMatchesAreRecorded
  BY DEF IInv, SidecarSound, OnlyMatchesAreRecorded
<1> QED
  BY <1>1, Sound, PTL

\* Only a call whose own hash matched its own pin changes the sidecar while
\* it moves on: the action property follows from the same invariant.
THEOREM WritersHaveVerified == Spec => OnlyAVerifiedCallWrites
<1>1. ASSUME IInv, [Next]_vars
      PROVE  [\A c \in Caller :
                pc[c] # pc'[c] /\ sidecar' # sidecar => read[c] = pin[c] /\ ~st[c].short]_vars
  <2> SUFFICES ASSUME NEW c \in Caller, pc[c] # pc'[c], sidecar' # sidecar
               PROVE  read[c] = pin[c] /\ ~st[c].short
    OBVIOUS
  <2>1. PICK d \in Caller : Step(d)
    BY <1>1 DEF Next, WriteFile, RemoveFile, LoseSidecar, callVars, vars
  <2>2. c = d
    BY <1>1, <2>1 DEF Step, Call, IsFile, StatFile, Lookup, HashFirst, HashSecond, Compare,
       Truncate, WriteSidecar, Leave, Crash, Forget, Goto, End, IInv, TypeOK
  <2>3. pc[c] \in Matched
    BY <2>1, <2>2 DEF Step, Call, IsFile, StatFile, Lookup, HashFirst, HashSecond, Compare,
       Truncate, WriteSidecar, Leave, Crash, Forget, Matched
  <2> QED
    BY <1>1, <2>3 DEF IInv, CallSound, Matched, Sized
<1> QED
  BY <1>1, Sound, PTL DEF Spec, OnlyAVerifiedCallWrites
=============================================================================
