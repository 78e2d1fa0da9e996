---------------------------- MODULE MCInferCall ----------------------------
(* Every call of bls infer, with the two binaries of llama_cpp.py.         *)
EXTENDS InferCall

MCCandidates == <<"llama-completion", "llama-cli">>
=============================================================================
