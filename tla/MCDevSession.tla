---------------------------- MODULE MCDevSession ----------------------------
(***************************************************************************)
(* Instances of DevSession.  The requests are interchangeable.             *)
(***************************************************************************)
EXTENDS DevSession, TLC

CONSTANTS a, b, r1, r2

Symmetric == Permutations(Request)

=============================================================================
