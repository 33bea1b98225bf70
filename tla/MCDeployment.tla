---------------------------- MODULE MCDeployment ----------------------------
(***************************************************************************)
(* Two terminals, two dumps that share a record and a binary database.     *)
(***************************************************************************)
EXTENDS Deployment, TLC

CONSTANTS delta, modern, full

MCRecs == delta :> {1, 2} @@ modern :> {2} @@ full :> {3}

Symmetric == Permutations(Terminals)
=============================================================================
