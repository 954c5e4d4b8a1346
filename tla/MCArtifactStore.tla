-------------------------- MODULE MCArtifactStore --------------------------
(* Small instances of ArtifactStore for TLC.                               *)
EXTENDS ArtifactStore, TLC

CONSTANTS api, worker, a1, a2

MCSaver == [a \in Artifacts |-> IF a = a1 THEN api ELSE worker]
=============================================================================
