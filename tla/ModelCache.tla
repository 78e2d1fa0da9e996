----------------------------- MODULE ModelCache ----------------------------
(***************************************************************************)
(* Verification of a weight file against its catalog pin, with the         *)
(* <weight>.blsverify.json sidecar as a cache: resolve_and_verify of       *)
(* modelcache.py, run by several callers at once (processes of `bls        *)
(* infer`) while an operator installs, overwrites or removes the file.     *)
(*                                                                         *)
(* A file has two blocks, so that a streaming hash can be overtaken by a   *)
(* write; its digest is the pair of what was read (sha256 without          *)
(* collisions).  Every write gives the file a fresh mtime: the sidecar     *)
(* takes an equal size and mtime for an unchanged file, so a file put back *)
(* with the mtime it had is outside what it promises, and this model.      *)
(***************************************************************************)
EXTENDS Naturals

CONSTANTS Caller,     \* concurrent calls of resolve_and_verify
          Block,      \* contents of one block
          Eof,        \* in place of the second block of a short file
          Pins,       \* digests the catalogs pin
          MaxTime,    \* bound: mtimes given out
          MaxCalls    \* bound: calls of each caller

Digest == [first : Block, second : Block \cup {Eof}]

\* size_bytes of the profile is the full size; a partial download is short.
Short(d) == d.second = Eof

ASSUME CacheAssumption ==
  /\ Pins \subseteq Digest
  /\ \A p \in Pins : ~Short(p)
  /\ Pins # {}
  /\ MaxTime \in Nat
  /\ MaxCalls \in Nat

File == [present : BOOLEAN, data : Digest, mtime : 0..MaxTime]
Stat == [short : BOOLEAN, mtime : 0..MaxTime]

\* "torn": truncated by open("w"), or garbage: not a well-typed mapping.
Sidecar == [state : {"absent", "torn", "valid"}, stat : Stat, sha : Digest]

VARIABLES disk,      \* the weight file
          clock,     \* the last mtime given out
          sidecar,   \* the sidecar file
          pc, calls, \* of each caller: where it is, calls made
          pin, full, \* its catalog's sha256, and verify_full
          st,        \* its os.stat result
          read,      \* the blocks its hash has read
          outcome    \* how its last call ended

diskVars == <<disk, clock>>
callVars == <<pc, calls, pin, full, st, read, outcome>>
vars == <<diskVars, sidecar, callVars>>

Labels == {"idle", "isfile", "stat", "lookup", "hash1", "hash2", "compare",
           "truncate", "write", "returned"}
Outcome == {"none", "full", "cached", "model_dir_unset", "catalog_invalid",
            "model_missing", "size_mismatch", "checksum_mismatch", "os_error"}

NoData  == CHOOSE d \in Digest : TRUE
NoPin   == CHOOSE p \in Pins : TRUE
NoStat  == [short |-> TRUE, mtime |-> 0]
NoFile  == [present |-> FALSE, data |-> NoData, mtime |-> 0]
NoCar   == [state |-> "absent", stat |-> NoStat, sha |-> NoData]
TornCar == [state |-> "torn", stat |-> NoStat, sha |-> NoData]

Init ==
  /\ disk = NoFile
  /\ clock = 0
  /\ sidecar = NoCar
  /\ pc = [c \in Caller |-> "idle"]
  /\ calls = [c \in Caller |-> 0]
  /\ pin = [c \in Caller |-> NoPin]
  /\ full = [c \in Caller |-> FALSE]
  /\ st = [c \in Caller |-> NoStat]
  /\ read = [c \in Caller |-> NoData]
  /\ outcome = [c \in Caller |-> "none"]

Goto(c, l) == pc' = [pc EXCEPT ![c] = l]
End(c, o)  == outcome' = [outcome EXCEPT ![c] = o] /\ Goto(c, "returned")

-----------------------------------------------------------------------------
(* One call.                                                               *)

\* A call with the pin its catalog has now; the environment variable may be
\* unset and the path may resolve outside the root.
Call(c) ==
  /\ pc[c] = "idle"
  /\ calls[c] < MaxCalls
  /\ calls' = [calls EXCEPT ![c] = @ + 1]
  /\ \/ /\ Goto(c, "isfile")
        /\ \E p \in Pins, f \in BOOLEAN : /\ pin' = [pin EXCEPT ![c] = p]
                                         /\ full' = [full EXCEPT ![c] = f]
        /\ UNCHANGED outcome
     \/ /\ End(c, "model_dir_unset") \/ End(c, "catalog_invalid")
        /\ UNCHANGED <<pin, full>>
  /\ UNCHANGED <<diskVars, sidecar, st, read>>

IsFile(c) ==
  /\ pc[c] = "isfile"
  /\ IF disk.present THEN Goto(c, "stat") /\ UNCHANGED outcome
                     ELSE End(c, "model_missing")
  /\ UNCHANGED <<diskVars, sidecar, calls, pin, full, st, read>>

\* Mutant: the size is not compared with the catalog's.
StatFileAnySize(c) ==
  /\ pc[c] = "stat"
  /\ IF ~disk.present THEN End(c, "os_error") /\ UNCHANGED st
     ELSE /\ st' = [st EXCEPT ![c] = [short |-> Short(disk.data), mtime |-> disk.mtime]]
          /\ Goto(c, IF full[c] THEN "hash1" ELSE "lookup")
          /\ UNCHANGED outcome
  /\ UNCHANGED <<diskVars, sidecar, calls, pin, full, read>>

\* os.stat raises if the file has gone meanwhile.
StatFile(c) ==
  /\ pc[c] = "stat"
  /\ IF ~disk.present THEN End(c, "os_error") /\ UNCHANGED st
     ELSE /\ st' = [st EXCEPT ![c] = [short |-> Short(disk.data), mtime |-> disk.mtime]]
          /\ IF Short(disk.data) THEN End(c, "size_mismatch")
             ELSE /\ Goto(c, IF full[c] THEN "hash1" ELSE "lookup")
                  /\ UNCHANGED outcome
  /\ UNCHANGED <<diskVars, sidecar, calls, pin, full, read>>

\* Mutant: a sidecar that agrees with the file is trusted whatever the pin.
TrustedForAnyPin(c) == sidecar.state = "valid" /\ sidecar.stat = st[c]

\* The sidecar is trusted only if it is well-typed and agrees with the stat
\* result and with the catalog.
Trusted(c) ==
  /\ sidecar.state = "valid"
  /\ sidecar.stat = st[c]
  /\ sidecar.sha = pin[c]

Lookup(c) ==
  /\ pc[c] = "lookup"
  /\ IF Trusted(c) THEN End(c, "cached")
                   ELSE Goto(c, "hash1") /\ UNCHANGED outcome
  /\ UNCHANGED <<diskVars, sidecar, calls, pin, full, st, read>>

\* _sha256_file opens the file and reads it block by block.  The open raises for
\* a file that is gone, or that may not be read; one unlinked later is read on.
HashFirst(c) ==
  /\ pc[c] = "hash1"
  /\ \/ /\ disk.present
        /\ read' = [read EXCEPT ![c] = disk.data]
        /\ Goto(c, "hash2")
        /\ UNCHANGED outcome
     \/ End(c, "os_error") /\ UNCHANGED read
  /\ UNCHANGED <<diskVars, sidecar, calls, pin, full, st>>

\* The second block: of the file that was opened, or as overwritten since.
HashSecond(c) ==
  /\ pc[c] = "hash2"
  /\ \/ UNCHANGED read
     \/ disk.present /\ read' = [read EXCEPT ![c] = [first |-> @.first, second |-> disk.data.second]]
  /\ Goto(c, "compare")
  /\ UNCHANGED <<diskVars, sidecar, calls, pin, full, st, outcome>>

\* Mutant: the digest is recorded before it is compared.
CompareNothing(c) ==
  /\ pc[c] = "compare"
  /\ Goto(c, "truncate")
  /\ UNCHANGED <<diskVars, sidecar, calls, pin, full, st, read, outcome>>

Compare(c) ==
  /\ pc[c] = "compare"
  /\ IF read[c] = pin[c] THEN Goto(c, "truncate") /\ UNCHANGED outcome
                         ELSE End(c, "checksum_mismatch")
  /\ UNCHANGED <<diskVars, sidecar, calls, pin, full, st, read>>

\* open(sidecar, "w") truncates; a read-only directory is not an error.
Truncate(c) ==
  /\ pc[c] = "truncate"
  /\ \/ /\ sidecar' = TornCar
        /\ Goto(c, "write")
        /\ UNCHANGED outcome
     \/ UNCHANGED sidecar /\ End(c, "full")
  /\ UNCHANGED <<diskVars, calls, pin, full, st, read>>

\* Mutant: the file is stat'ed again for the record, after the hash.
RecordOfANewStat(c) ==
  [state |-> "valid", sha |-> read[c],
   stat |-> [short |-> Short(disk.data), mtime |-> disk.mtime]]

\* Mutant: the record has no sha256.
RecordOfTheStat(c) == [state |-> "valid", stat |-> st[c]]

Record(c) == [state |-> "valid", stat |-> st[c], sha |-> read[c]]

\* The record is written over what the file holds: on a file another caller
\* has written since, a shorter record leaves garbage behind.  A failing
\* write leaves the file torn.
WriteSidecar(c) ==
  /\ pc[c] = "write"
  /\ \/ sidecar' = Record(c)
     \/ sidecar' = TornCar
  /\ End(c, "full")
  /\ UNCHANGED <<diskVars, calls, pin, full, st, read>>

\* The locals of a call end with it: it returns, or its process is killed.
Forget(c) ==
  /\ Goto(c, "idle")
  /\ pin' = [pin EXCEPT ![c] = NoPin]
  /\ full' = [full EXCEPT ![c] = FALSE]
  /\ st' = [st EXCEPT ![c] = NoStat]
  /\ read' = [read EXCEPT ![c] = NoData]
  /\ outcome' = [outcome EXCEPT ![c] = "none"]
  /\ UNCHANGED <<diskVars, sidecar, calls>>

Leave(c) == pc[c] = "returned" /\ Forget(c)
Crash(c) == pc[c] \notin {"idle", "returned"} /\ Forget(c)

Step(c) ==
  \/ Call(c) \/ IsFile(c) \/ StatFile(c) \/ Lookup(c) \/ HashFirst(c)
  \/ HashSecond(c) \/ Compare(c) \/ Truncate(c) \/ WriteSidecar(c)
  \/ Leave(c) \/ Crash(c)

-----------------------------------------------------------------------------
(* The operator and the disk, outside this repository.                     *)

\* A download, a replacement or a write in place: new data, fresh mtime.
WriteFile ==
  /\ clock < MaxTime
  /\ clock' = clock + 1
  /\ \E d \in Digest : disk' = [present |-> TRUE, data |-> d, mtime |-> clock + 1]
  /\ UNCHANGED <<sidecar, callVars>>

RemoveFile ==
  /\ disk.present
  /\ disk' = NoFile
  /\ UNCHANGED <<clock, sidecar, callVars>>

\* The sidecar is removed, or corrupted.
LoseSidecar ==
  /\ sidecar.state = "valid"
  /\ sidecar' \in {TornCar, NoCar}
  /\ UNCHANGED <<diskVars, callVars>>

Next ==
  \/ \E c \in Caller : Step(c)
  \/ WriteFile \/ RemoveFile \/ LoseSidecar

Spec == Init /\ [][Next]_vars

-----------------------------------------------------------------------------
(* Properties.                                                             *)

\* Every variable has its type.
TypeOK ==
  /\ disk \in File
  /\ clock \in 0..MaxTime
  /\ sidecar \in Sidecar
  /\ pc \in [Caller -> Labels]
  /\ calls \in [Caller -> 0..MaxCalls]
  /\ pin \in [Caller -> Pins]
  /\ full \in [Caller -> BOOLEAN]
  /\ st \in [Caller -> Stat]
  /\ read \in [Caller -> Digest]
  /\ outcome \in [Caller -> Outcome]

\* The file a stat result describes is the one on disk now.
Current(s) == disk.present /\ Short(disk.data) = s.short /\ disk.mtime = s.mtime

\* A well-typed sidecar that matches the file's size and mtime vouches for
\* its bytes: no interleaving of hashes, writes in place, torn or concurrent
\* sidecar writes and crashes leaves a record the file does not deserve.
SidecarVouchesForTheBytes ==
  sidecar.state = "valid" /\ Current(sidecar.stat) => disk.data = sidecar.sha

\* A call that accepts the file returns a model whose bytes are the pinned
\* ones for as long as the file is not modified, by whichever path.
AcceptedBytesArePinned ==
  \A c \in Caller :
    /\ pc[c] = "returned"
    /\ outcome[c] \in {"full", "cached"}
    /\ Current(st[c])
    => disk.data = pin[c]

\* A record is only ever written after a match: it never carries a digest no
\* catalog pins, nor the stat result of a short file.
OnlyMatchesAreRecorded ==
  sidecar.state = "valid" => sidecar.sha \in Pins /\ ~sidecar.stat.short

\* A call changes the sidecar only after its own hash has matched its own pin:
\* a mismatch or a cached answer leaves another call's record alone.
OnlyAVerifiedCallWrites ==
  [][\A c \in Caller :
       pc[c] # pc'[c] /\ sidecar' # sidecar => read[c] = pin[c] /\ ~st[c].short]_vars
=============================================================================
