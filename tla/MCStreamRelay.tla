--------------------------- MODULE MCStreamRelay ---------------------------
(* StreamRelay on the small instances given in the MCStreamRelay_*.cfg.    *)
EXTENDS StreamRelay
=============================================================================
