--------------------------- MODULE StreamEmitter ---------------------------
(***************************************************************************)
(* The producer side of `bls infer --stream`: class StreamEmitter of       *)
(* streaming.py, and the pipe to the consumer its write and flush go to.   *)
(*                                                                         *)
(* An event is one line.  Its text is abstracted to a number of            *)
(* characters: chars is the length of the concatenation of the chunk       *)
(* events that reached the pipe.  The pipe holds WireCap events; a write   *)
(* to a full pipe blocks (the action is disabled), a write after the       *)
(* reader has gone raises BrokenPipeError.                                 *)
(***************************************************************************)
EXTENDS Naturals

CONSTANTS MaxText,      \* MAX_EVENT_TEXT_CHARS
          MaxWarnings,  \* MAX_WARNINGS
          WireCap       \* events the consumer's pipe holds unread

ASSUME EmitterAssumption ==
  /\ MaxText \in Nat \ {0}
  /\ MaxWarnings \in Nat \ {0}
  /\ WireCap \in Nat \ {0}

VARIABLES seq,        \* _seq: the number of the next event
          started,    \* _started
          finalSent,  \* _final
          warnings,   \* _warnings
          chars,      \* history: characters of chunk text on the wire
          unread,     \* events in the pipe the consumer has not read
          gone        \* the consumer has closed its end

emitterVars  == <<seq, started, finalSent, warnings, chars>>
consumerVars == <<unread, gone>>

EmitterInit ==
  /\ seq = 0
  /\ started = FALSE
  /\ finalSent = FALSE
  /\ warnings = 0
  /\ chars = 0
  /\ unread = 0
  /\ gone = FALSE

EmitterTypeOK ==
  /\ seq \in Nat
  /\ started \in BOOLEAN
  /\ finalSent \in BOOLEAN
  /\ warnings \in 0..MaxWarnings
  /\ chars \in Nat
  /\ unread \in 0..WireCap
  /\ gone \in BOOLEAN

-----------------------------------------------------------------------------
\* _line: one event reaches the pipe.  Nothing may follow `final`.
Line ==
  /\ ~finalSent
  /\ ~gone
  /\ unread < WireCap
  /\ seq' = seq + 1
  /\ unread' = unread + 1
  /\ UNCHANGED gone

EmitStart ==
  /\ ~started
  /\ seq = 0
  /\ Line
  /\ started' = TRUE
  /\ UNCHANGED <<finalSent, warnings, chars>>

EmitChunk(n) ==
  /\ Line
  /\ chars' = chars + n
  /\ UNCHANGED <<started, finalSent, warnings>>

EmitWarning ==
  /\ warnings < MaxWarnings
  /\ Line
  /\ warnings' = warnings + 1
  /\ UNCHANGED <<started, finalSent, chars>>

EmitFinal ==
  /\ Line
  /\ finalSent' = TRUE
  /\ UNCHANGED <<started, warnings, chars>>

\* A call that finds the pipe broken: start() and warning() have already
\* updated their own field when _line raises, seq has not moved.
EmitRaises(call) ==
  /\ gone
  /\ call = "warning" => warnings < MaxWarnings
  /\ started' = (started \/ call = "start")
  /\ warnings' = IF call = "warning" THEN warnings + 1 ELSE warnings
  /\ UNCHANGED <<seq, finalSent, chars, consumerVars>>

-----------------------------------------------------------------------------
\* The consumer, outside this repository: it reads at its own pace, or leaves.
ConsumerRead ==
  /\ unread > 0
  /\ ~gone
  /\ unread' = unread - 1
  /\ UNCHANGED <<emitterVars, gone>>

ConsumerLeave ==
  /\ ~gone
  /\ gone' = TRUE
  /\ UNCHANGED <<emitterVars, unread>>
=============================================================================
