---------------------------- MODULE ExclusiveLock ----------------------------
(***************************************************************************)
(* What a lock of .lore promises whoever runs under it, without files,     *)
(* pids or tombstones: a lock that is recorded for one process at a time,  *)
(* which lets it in, and which is taken from it only once it is gone.      *)
(***************************************************************************)
EXTENDS TLAPS

CONSTANT Process

VARIABLES
  holder,  \* whom the lock is recorded for: one process, or none
  inside,  \* the processes between acquire() and release()
  gone     \* the processes that do not run any more

vars == <<holder, inside, gone>>

Init == holder = {} /\ inside = {} /\ gone = {}

Take(p) ==
  /\ holder = {} /\ p \notin gone
  /\ holder' = {p}
  /\ inside' = inside \cup {p}
  /\ UNCHANGED gone

Release(p) ==
  /\ p \in inside
  /\ holder = {p} /\ holder' = {}
  /\ inside' = inside \ {p}
  /\ UNCHANGED gone

\* Who is gone is not inside; the lock may stay recorded for it for a while.
Die(p) ==
  /\ gone' = gone \cup {p}
  /\ inside' = inside \ {p}
  /\ holder' \in {holder, holder \ {p}}

\* Only a lock of somebody who is gone is ever taken away.
Break ==
  /\ holder \subseteq gone
  /\ holder' = {}
  /\ UNCHANGED <<inside, gone>>

Next ==
  \/ Break
  \/ \E p \in Process : Take(p) \/ Release(p) \/ Die(p)

Spec == Init /\ [][Next]_vars

-----------------------------------------------------------------------------
\* Nobody is inside but the holder, of which there is one at most and which runs.
Exclusive ==
  /\ inside \subseteq holder \ gone
  /\ \A p, q \in holder : p = q

\* What such a lock is for: two processes are never inside together.
THEOREM OneInside == Spec => []Exclusive
<1>1. Init => Exclusive
  BY DEF Init, Exclusive
<1>2. Exclusive /\ [Next]_vars => Exclusive'
  <2> SUFFICES ASSUME Exclusive, [Next]_vars
               PROVE  Exclusive'
    OBVIOUS
  <2> USE DEF Exclusive
  <2>1. ASSUME NEW p \in Process, Take(p)
        PROVE  Exclusive'
    BY <2>1 DEF Take
  <2>2. ASSUME NEW p \in Process, Release(p)
        PROVE  Exclusive'
    BY <2>2 DEF Release
  <2>3. ASSUME NEW p \in Process, Die(p)
        PROVE  Exclusive'
    BY <2>3 DEF Die
  <2>4. CASE Break
    BY <2>4 DEF Break
  <2>5. CASE UNCHANGED vars
    BY <2>5 DEF vars
  <2> QED
    BY <2>1, <2>2, <2>3, <2>4, <2>5 DEF Next
<1> QED
  BY <1>1, <1>2, PTL DEF Spec

=============================================================================
