---------------------------- MODULE BuildRegistry ----------------------------
(***************************************************************************)
(* What a place that keeps builds promises its readers and operators,      *)
(* without files, locks, requests or crashes: a set of retained builds     *)
(* that can be served, one pointer among them, a generation that moves     *)
(* with the pointer, and readers that pin the build they read.             *)
(***************************************************************************)
EXTENDS Naturals, TLAPS

CONSTANTS Process, Build, None

VARIABLES
  retained,   \* builds that can be served in full
  active,     \* the build that is live
  generation, \* counts activations
  pinned      \* what each process is reading

vars == <<retained, active, generation, pinned>>

Init ==
  /\ retained = {}
  /\ active = None
  /\ generation = 0
  /\ pinned = [p \in Process |-> None]

Publish(b) ==
  /\ retained' = retained \cup {b}
  /\ UNCHANGED <<active, generation, pinned>>

\* Only a build that can be served goes live, and every move is a new number.
Point(b) ==
  /\ b \in retained
  /\ active' = b
  /\ generation' = generation + 1
  /\ UNCHANGED <<retained, pinned>>

\* Several builds can go at once, but none that is live or being read.
Retire(gone) ==
  /\ \A b \in gone : b # active /\ \A p \in Process : pinned[p] # b
  /\ retained' = retained \ gone
  /\ UNCHANGED <<active, generation, pinned>>

Pin(p, b) ==
  /\ pinned[p] = None
  /\ b \in retained
  /\ pinned' = [pinned EXCEPT ![p] = b]
  /\ UNCHANGED <<retained, active, generation>>

Unpin(p) ==
  /\ pinned' = [pinned EXCEPT ![p] = None]
  /\ UNCHANGED <<retained, active, generation>>

Next ==
  \/ \E b \in Build : Publish(b) \/ Point(b)
  \/ \E gone \in SUBSET retained : Retire(gone)
  \/ \E p \in Process : Unpin(p) \/ \E b \in Build : Pin(p, b)

Spec == Init /\ [][Next]_vars

-----------------------------------------------------------------------------
\* What is live, and what anybody reads, can be served in full: a reader that has
\* found a build never has to expect that a part of it is missing.
LiveAndReadServe ==
  /\ active # None => active \in retained
  /\ \A p \in Process : pinned[p] # None => pinned[p] \in retained

\* Inductive, and true of every registry: a build is retained before it goes live or
\* is read, and is retired only when neither.
THEOREM LiveAndReadAlwaysServe == Spec => []LiveAndReadServe
<1> DEFINE Inv == LiveAndReadServe /\ DOMAIN pinned = Process
<1>1. Init => Inv
  BY DEF Init, LiveAndReadServe
<1>2. Inv /\ [Next]_vars => Inv'
  <2> SUFFICES ASSUME Inv, [Next]_vars
               PROVE  Inv'
    OBVIOUS
  <2> USE DEF LiveAndReadServe
  <2>1. ASSUME NEW b \in Build, Publish(b)
        PROVE  Inv'
    BY <2>1 DEF Publish
  <2>2. ASSUME NEW b \in Build, Point(b)
        PROVE  Inv'
    BY <2>2 DEF Point
  <2>3. ASSUME NEW gone \in SUBSET retained, Retire(gone)
        PROVE  Inv'
    BY <2>3 DEF Retire
  <2>4. ASSUME NEW p \in Process, Unpin(p)
        PROVE  Inv'
    BY <2>4 DEF Unpin
  <2>5. ASSUME NEW p \in Process, NEW b \in Build, Pin(p, b)
        PROVE  Inv'
    BY <2>5 DEF Pin
  <2>6. CASE UNCHANGED vars
    BY <2>6 DEF vars
  <2> QED
    BY <2>1, <2>2, <2>3, <2>4, <2>5, <2>6 DEF Next
<1> QED
  BY <1>1, <1>2, PTL DEF Spec

=============================================================================
