---------------------------- MODULE MCProjectLock ----------------------------
(***************************************************************************)
(* Instances of ProjectLock.  p1 and p2 run one after the other under the  *)
(* same pid, so a waiter can meet a pid that changed hands; far runs on    *)
(* another machine that shares the directory.                              *)
(***************************************************************************)
EXTENDS ProjectLockInv

CONSTANTS p1, p2, p3, far

TwoHosts == [p \in Process |-> IF p = far THEN "there" ELSE "here"]

SharedPid == [p \in Process |-> IF p \in {p1, p2} THEN 1 ELSE IF p = p3 THEN 2 ELSE 3]

=============================================================================
