--------------------------- MODULE MCRemoteTarget ----------------------------
(***************************************************************************)
(* Instances of RemoteTarget.                                              *)
(***************************************************************************)
EXTENDS RemoteTarget

CONSTANTS laptop, ci, worker, b1, b2, o1

Shared == (b1 :> {o1}) @@ (b2 :> {o1})
LaptopDeploys == (laptop :> {b1, b2}) @@ (ci :> {})
CiMaintains == (laptop :> {}) @@ (ci :> {"prune", "rollback"})

=============================================================================
