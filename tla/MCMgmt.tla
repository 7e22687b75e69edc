------------------------------- MODULE MCMgmt -------------------------------
(* Instances of MgmtCommit for TLC. *)
EXTENDS MgmtCommit, TLC

CONSTANTS b1, b2, i1, i2

\* b1 subscribed to both nodes, b2 to one of them.
MCInterest == b1 :> {i1, i2} @@ b2 :> {i2}

\* A first commit creates both nodes, another one deletes a node of both.
MCTargets == {{i1, i2}, {i1}}

\* Two commits of an earlier life of mgmtd.
MCRecords == <<{i1, i2}, {i1}>>
=============================================================================
