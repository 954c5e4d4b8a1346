---------------------------- MODULE MCDeployment ----------------------------
(* Four deployments of an API and a worker for TLC: the second brings a    *)
(* migration, the third comes from before it.                              *)
EXTENDS Deployment

CONSTANTS api, worker

MCServices == {api, worker}
MCSchemaOf == [b \in Builds |-> CASE b = 2 -> 2 [] b = 3 -> 1 [] OTHER -> b]
=============================================================================
