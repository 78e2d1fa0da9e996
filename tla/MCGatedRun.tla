----------------------------- MODULE MCGatedRun -----------------------------
(* Every call of bls run and broker-run, with one proxy variable and one   *)
(* secret, and a PATH of a relative and an absolute directory, the second  *)
(* of which is the default path.                                           *)
EXTENDS GatedRun

MCPath    == <<"bin", "/usr/bin">>
MCDefPath == <<"/usr/bin">>
=============================================================================
