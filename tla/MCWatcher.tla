----------------------------- MODULE MCWatcher -----------------------------
(***************************************************************************)
(* Instances of Watcher: the sources may hold two or three values.         *)
(***************************************************************************)
EXTENDS Watcher

CONSTANTS a, b, c

=============================================================================
