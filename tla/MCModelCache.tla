---------------------------- MODULE MCModelCache ---------------------------
(* ModelCache with two block contents; the catalogs pin two digests that   *)
(* differ in one block.  The callers are interchangeable.                  *)
EXTENDS ModelCache, TLC

CONSTANTS x, y

MCPins == {[first |-> x, second |-> x], [first |-> x, second |-> y]}
Callers == Permutations(Caller)
=============================================================================
