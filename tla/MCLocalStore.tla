---------------------------- MODULE MCLocalStore -----------------------------
(***************************************************************************)
(* Instances of LocalStore.  b1 and b2 share an object, so removing one    *)
(* must leave what the other needs.  A server reads and serves Studio      *)
(* while two command lines build, import, activate and prune.              *)
(***************************************************************************)
EXTENDS LocalStore, TLC

CONSTANTS server, cli, other, b1, b2, o1, o2

TwoBodies == (b1 :> {o1, o2}) @@ (b2 :> {o2})

Roles == [p \in Process |->
  CASE p = server -> {"read", "studio"}
    [] p = cli -> {"build", "prune", "activate"}
    [] p = other -> {"build", "prune", "import"}]

=============================================================================
