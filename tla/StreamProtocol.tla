-------------------------- MODULE StreamProtocol ---------------------------
(***************************************************************************)
(* What a consumer of the stream may rely on: at most one start, then      *)
(* chunks of at most MaxText characters that make up at most Cap, then, if *)
(* text was discarded, one warning after which no chunk comes, then one    *)
(* final event whose text is the concatenation of the chunks.  A stream    *)
(* may also consist of a final alone, or break off without one.            *)
(***************************************************************************)
EXTENDS Naturals

CONSTANTS MaxText, Cap

VARIABLES phase,      \* silent, open, capped, closed
          delivered,  \* characters in the chunks so far
          final       \* characters of generation text in the final event

protocolVars == <<phase, delivered, final>>

Init == phase = "silent" /\ delivered = 0 /\ final = 0

Start ==
  /\ phase = "silent"
  /\ phase' = "open"
  /\ UNCHANGED <<delivered, final>>

Chunk ==
  /\ phase = "open"
  /\ \E n \in 1..MaxText : delivered' = delivered + n
  /\ delivered' <= Cap
  /\ UNCHANGED <<phase, final>>

Warning ==
  /\ phase = "open"
  /\ delivered = Cap
  /\ phase' = "capped"
  /\ UNCHANGED <<delivered, final>>

Final ==
  /\ phase # "closed"
  /\ phase' = "closed"
  /\ final' = delivered
  /\ UNCHANGED delivered

Next == Start \/ Chunk \/ Warning \/ Final

Spec == Init /\ [][Next]_protocolVars
=============================================================================
