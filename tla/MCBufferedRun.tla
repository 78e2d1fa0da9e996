--------------------------- MODULE MCBufferedRun ---------------------------
(* BufferedRun on a small instance; the cfg gives the constants.           *)
EXTENDS BufferedRun
=============================================================================
