--------------------------- MODULE MCArtifactGuard ---------------------------
(* ArtifactGuard on a small instance; the cfg gives the constants.         *)
EXTENDS ArtifactGuard
=============================================================================
