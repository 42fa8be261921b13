-------------------------- MODULE ProjectLock_proofs --------------------------
(***************************************************************************)
(* Proofs about ProjectLock: its type invariant under any faults, and      *)
(* mutual exclusion and sound reclamation in a quiet environment.          *)
(***************************************************************************)
EXTENDS ProjectLockInv, TLAPS

\* A judgement leaves a waiter waiting, or with the identity it is to reclaim.
LEMMA JudgingIsTyped ==
  ASSUME TypeOK, NEW p \in Process, NEW i \in Identity,
         Keep(p) \/ Stale(p, i)
  PROVE  /\ pc' \in [Process -> States]
         /\ identity' \in [Process -> Identity \cup {NoIdentity}]
         /\ \A q \in Process : pc'[q] \in Reclaiming => identity'[q] \in Identity
<1>1. CASE Keep(p)
  BY <1>1 DEF Keep, TypeOK, States, Reclaiming
<1>2. CASE Stale(p, i)
  BY <1>2 DEF Stale, TypeOK, States, Reclaiming
<1>3. QED
  BY <1>1, <1>2

\* A process that moves on has an identity if it is in a reclaim then.
LEMMA MovingIsTyped ==
  ASSUME TypeOK, NEW p \in Process, NEW to \in States,
         pc' = [pc EXCEPT ![p] = to],
         \/ UNCHANGED identity
         \/ identity' = [identity EXCEPT ![p] = NoIdentity],
         to \in Reclaiming => pc[p] \in Reclaiming /\ UNCHANGED identity
  PROVE  /\ pc' \in [Process -> States]
         /\ identity' \in [Process -> Identity \cup {NoIdentity}]
         /\ \A q \in Process : pc'[q] \in Reclaiming => identity'[q] \in Identity
<1>1. pc' \in [Process -> States] /\ identity' \in [Process -> Identity \cup {NoIdentity}]
  BY DEF TypeOK
<1>2. ASSUME NEW q \in Process, pc'[q] \in Reclaiming PROVE identity'[q] \in Identity
  <2>1. CASE q = p
    BY <1>2, <2>1 DEF TypeOK
  <2>2. CASE q # p
    BY <1>2, <2>2 DEF TypeOK
  <2>3. QED
    BY <2>1, <2>2
<1>3. QED
  BY <1>1, <1>2

\* Writing markers only adds some of the named directories to those marked, and
\* every one whose marker can be written.
LEMMA MarkersAreAdded ==
  ASSUME NEW ns, WriteMarkers(ns)
  PROVE  /\ marked \subseteq marked' /\ marked' \subseteq marked \cup ns
         /\ \A n \in ns : ~ MarkerMayFail(n) => n \in marked'
BY DEF WriteMarkers

\* What a read of the record at the lock path yields names a created directory.
LEMMA RecordIsTyped ==
  ASSUME TypeOK, NEW found \in {0, Record}
  PROVE  found \in 0..created
BY ConstantsAssumption DEF Record, TypeOK, Lock

\* Every variable keeps a value of its kind through every step of the lock
\* protocol, whatever the environment does.
LEMMA TypeStep ==
  ASSUME TypeOK, [Next]_vars
  PROVE  TypeOK'
<1> USE ConstantsAssumption
<1>1. ASSUME Age PROVE TypeOK'
  BY <1>1 DEF Age, TypeOK, procVars
<1>2. ASSUME NEW p \in Process, Spawn(p) PROVE TypeOK'
  BY <1>2 DEF Spawn, TypeOK, dirVars
<1>3. ASSUME NEW p \in Process, Exit(p) PROVE TypeOK'
  BY <1>3 DEF Exit, TypeOK, dirVars, States, Reclaiming, NoIdentity, NoProbes
<1>4. ASSUME NEW p \in Process, BeginAcquire(p) PROVE TypeOK'
  BY <1>4 DEF BeginAcquire, Goto, TypeOK, dirVars, procVars, States, Reclaiming
<1>5. ASSUME NEW p \in Process, MakeDirectory(p) PROVE TypeOK'
  BY <1>5 DEF MakeDirectory, TypeOK, States, Reclaiming, Lock
<1>6. ASSUME NEW p \in Process, LockExists(p) PROVE TypeOK'
  BY <1>6 DEF LockExists, Goto, TypeOK, dirVars, procVars, States, Reclaiming
<1>7. ASSUME NEW p \in Process, WriteOwner(p) PROVE TypeOK'
  <2>1. tombstone' \in [Identity -> 0..created]
    BY <1>7 DEF WriteOwner, Sweep, TypeOK
  <2>2. marked' \subseteq 1..created
    <3>1. WriteMarkers(Unmarked) /\ Unmarked \subseteq 1..created
      BY <1>7 DEF WriteOwner, Sweep, Unmarked
    <3>2. QED
      BY <3>1, MarkersAreAdded DEF TypeOK
  <2>3. starts' \in [Process -> [Pid -> Process \cup {"unasked", "unknown"}]]
    BY <1>7 DEF WriteOwner, TypeOK, NoProbes
  <2>4. owner' \in [Lock -> 0..created]
    BY <1>7 DEF WriteOwner, TypeOK, Lock
  <2>5. QED
    <3>1. pc' = [pc EXCEPT ![p] = "held"] /\ UNCHANGED identity
      BY <1>7 DEF WriteOwner, Goto
    <3>2. "held" \in States /\ "held" \notin Reclaiming
      BY DEF States, Reclaiming
    <3>3. UNCHANGED <<life, mine, seen, created, creator, lock, aged>>
      BY <1>7 DEF WriteOwner
    <3>4. QED
      BY <2>1, <2>2, <2>3, <2>4, <3>1, <3>2, <3>3, MovingIsTyped DEF TypeOK
<1>8. ASSUME NEW p \in Process, WriteFails(p) \/ WriteRefused(p) PROVE TypeOK'
  <2>1. pc' = [pc EXCEPT ![p] = "idle"] /\ UNCHANGED identity
    BY <1>8 DEF WriteFails, WriteRefused, Goto
  <2>2. "idle" \in States /\ "idle" \notin Reclaiming
    BY DEF States, Reclaiming
  <2>3. starts' \in [Process -> [Pid -> Process \cup {"unasked", "unknown"}]]
    <3>1. starts' = [starts EXCEPT ![p] = NoProbes]
      BY <1>8 DEF WriteFails, WriteRefused
    <3>2. QED
      BY <3>1 DEF TypeOK, NoProbes
  <2>4. mine' \in [Process -> 0..created] /\ UNCHANGED <<life, seen, dirVars>>
    <3>1. mine' = [mine EXCEPT ![p] = 0] /\ UNCHANGED <<life, seen, dirVars>>
      BY <1>8 DEF WriteFails, WriteRefused
    <3>2. QED
      BY <3>1 DEF TypeOK
  <2>5. QED
    BY <2>1, <2>2, <2>3, <2>4, MovingIsTyped DEF TypeOK, dirVars
<1>9. ASSUME NEW p \in Process, Observe(p) PROVE TypeOK'
  <2>1. PICK found \in {0, Record} : seen' = [seen EXCEPT ![p] = found]
    BY <1>9 DEF Observe
  <2>2. seen' \in [Process -> 0..created]
    <3>1. found \in 0..created
      BY RecordIsTyped
    <3>2. QED
      BY <2>1, <3>1 DEF TypeOK
  <2>3. pc' = [pc EXCEPT ![p] = "judge"] /\ UNCHANGED identity
    BY <1>9 DEF Observe, Goto
  <2>4. "judge" \in States /\ "judge" \notin Reclaiming
    BY DEF States, Reclaiming
  <2>5. UNCHANGED <<life, mine, starts, dirVars>>
    BY <1>9 DEF Observe
  <2>6. QED
    BY <2>2, <2>3, <2>4, <2>5, MovingIsTyped DEF TypeOK, dirVars
<1>10. ASSUME NEW p \in Process, JudgeRecord(p) PROVE TypeOK'
  <2> DEFINE o == creator[seen[p]]
             i == <<"token", seen[p]>>
  <2>1. UNCHANGED <<life, mine, dirVars>> /\ seen' = [seen EXCEPT ![p] = 0]
    BY <1>10 DEF JudgeRecord
  <2>2. seen[p] \in 1..created /\ o \in Process /\ PidOf[o] \in Pid
    BY <1>10 DEF JudgeRecord, TypeOK
  <2>3. i \in Identity
    BY <2>2 DEF Identity, Lock, TypeOK
  <2>4. Keep(p) \/ Stale(p, i)
    BY <1>10 DEF JudgeRecord
  <2>5. /\ pc' \in [Process -> States]
        /\ identity' \in [Process -> Identity \cup {NoIdentity}]
        /\ \A q \in Process : pc'[q] \in Reclaiming => identity'[q] \in Identity
    BY <2>3, <2>4, JudgingIsTyped
  <2>6. starts' \in [Process -> [Pid -> Process \cup {"unasked", "unknown"}]]
    <3>1. CASE UNCHANGED starts
      BY <3>1 DEF TypeOK
    <3>2. CASE ~ UNCHANGED starts
      <4> DEFINE k == PidOf[o]
      <4>1. PICK start \in IF starts[p][k] = "unasked" THEN Probe(p, k) ELSE {starts[p][k]} :
              starts' = [starts EXCEPT ![p][k] = start]
        BY <1>10, <3>2 DEF JudgeRecord
      <4>2. start \in Process \cup {"unasked", "unknown"}
        BY <4>1, <2>2 DEF Probe, TypeOK
      <4>3. QED
        BY <4>1, <4>2, <2>2 DEF TypeOK
    <3>3. QED
      BY <3>1, <3>2
  <2>7. seen' \in [Process -> 0..created] /\ UNCHANGED <<life, mine>>
    BY <2>1 DEF TypeOK
  <2>8. UNCHANGED <<created, creator, lock, owner, tombstone, marked, aged>>
    BY <2>1 DEF dirVars
  <2>9. QED
    BY <2>5, <2>6, <2>7, <2>8 DEF TypeOK
<1>11. ASSUME NEW p \in Process, JudgeUnreadable(p) PROVE TypeOK'
  <2>1. UNCHANGED <<life, mine, seen, starts, dirVars>>
    BY <1>11 DEF JudgeUnreadable
  <2>2. lock \in aged => <<"inode", lock>> \in Identity
    BY DEF TypeOK, Identity, Lock
  <2>3. Keep(p) \/ (lock \in aged /\ Stale(p, <<"inode", lock>>))
    BY <1>11 DEF JudgeUnreadable
  <2>4. /\ pc' \in [Process -> States]
        /\ identity' \in [Process -> Identity \cup {NoIdentity}]
        /\ \A q \in Process : pc'[q] \in Reclaiming => identity'[q] \in Identity
    <3>1. CASE Keep(p)
      BY <3>1 DEF Keep, TypeOK, States, Reclaiming
    <3>2. CASE lock \in aged /\ Stale(p, <<"inode", lock>>)
      BY <3>2, <2>2, JudgingIsTyped
    <3>3. QED
      BY <2>3, <3>1, <3>2
  <2>5. QED
    BY <2>1, <2>4 DEF TypeOK, dirVars
<1>12. ASSUME NEW p \in Process, Rename(p) PROVE TypeOK'
  <2>1. lock \in 1..created
    BY <1>12 DEF Rename, CanRename, TypeOK
  <2>2. tombstone' \in [Identity -> 0..created]
    BY <1>12 DEF Rename, TypeOK
  <2>3. marked' \subseteq 1..created
    <3>1. UNCHANGED marked \/ WriteMarkers({lock})
      BY <1>12 DEF Rename
    <3>2. marked \subseteq 1..created
      BY DEF TypeOK
    <3>3. marked' \subseteq marked \cup {lock}
      BY <3>1, MarkersAreAdded
    <3>4. QED
      BY <2>1, <3>2, <3>3
  <2>4. lock' \in 0..created
    BY <1>12 DEF Rename, TypeOK
  <2>5. PICK to \in {"mark", "verify"} : pc' = [pc EXCEPT ![p] = to]
    BY <1>12 DEF Rename, Goto
  <2>6. to \in States /\ pc[p] \in Reclaiming
    BY <1>12 DEF Rename, States, Reclaiming
  <2>7. UNCHANGED <<life, mine, seen, identity, starts, created, creator, owner, aged>>
    BY <1>12 DEF Rename, procVars
  <2>8. QED
    BY <2>2, <2>3, <2>4, <2>5, <2>6, <2>7, MovingIsTyped DEF TypeOK
<1>13. ASSUME NEW p \in Process, RenameFails(p) PROVE TypeOK'
  BY <1>13 DEF RenameFails, Goto, TypeOK, dirVars, States, Reclaiming
<1>14. ASSUME NEW p \in Process, Mark(p) PROVE TypeOK'
  <2>1. pc[p] = "mark" /\ pc' = [pc EXCEPT ![p] = "verify"] /\ UNCHANGED identity
    BY <1>14 DEF Mark, Goto, procVars
  <2>2. pc[p] \in Reclaiming /\ "verify" \in States
    BY <2>1 DEF States, Reclaiming
  <2>3. identity[p] \in Identity
    BY <2>2 DEF TypeOK
  <2>4. tombstone[identity[p]] \in 0..created
    BY <2>3 DEF TypeOK
  <2>5. marked' \subseteq 1..created
    <3>1. marked' \subseteq marked \cup ({tombstone[identity[p]]} \ {0})
      BY <1>14, MarkersAreAdded DEF Mark
    <3>2. marked \subseteq 1..created /\ created \in Nat
      BY DEF TypeOK
    <3>3. tombstone[identity[p]] # 0 => tombstone[identity[p]] \in 1..created
      BY <2>4, <3>2
    <3>4. QED
      BY <3>1, <3>2, <3>3
  <2>6. UNCHANGED <<life, mine, seen, starts, created, creator, lock, owner, tombstone, aged>>
    BY <1>14 DEF Mark, procVars
  <2>7. QED
    BY <2>1, <2>2, <2>5, <2>6, MovingIsTyped DEF TypeOK
<1>15. ASSUME NEW p \in Process, Verify(p) PROVE TypeOK'
  <2>1. /\ pc[p] = "verify" /\ UNCHANGED <<life, mine, seen, starts, dirVars>>
        /\ \/ pc' = [pc EXCEPT ![p] = "remkdir"] /\ identity' = [identity EXCEPT ![p] = NoIdentity]
           \/ pc' = [pc EXCEPT ![p] = "putback"] /\ UNCHANGED identity
    BY <1>15 DEF Verify
  <2>2. QED
    BY <2>1 DEF TypeOK, dirVars, States, Reclaiming
<1>16. ASSUME NEW p \in Process, PutBack(p) PROVE TypeOK'
  <2>1. /\ pc[p] = "putback" /\ pc' = [pc EXCEPT ![p] = "wait"]
        /\ identity' = [identity EXCEPT ![p] = NoIdentity]
    BY <1>16 DEF PutBack, Goto
  <2>2. pc[p] \in Reclaiming /\ "wait" \in States /\ "wait" \notin Reclaiming
    BY <2>1 DEF States, Reclaiming
  <2>3. identity[p] \in Identity
    BY <2>2 DEF TypeOK
  <2>4. tombstone[identity[p]] \in 0..created
    BY <2>3 DEF TypeOK
  <2>5. lock' \in 0..created /\ tombstone' \in [Identity -> 0..created]
    <3>1. \/ UNCHANGED <<lock, tombstone>>
          \/ /\ lock' = tombstone[identity[p]]
             /\ tombstone' = [tombstone EXCEPT ![identity[p]] = 0]
      BY <1>16 DEF PutBack
    <3>2. lock \in 0..created /\ tombstone \in [Identity -> 0..created] /\ created \in Nat
      BY DEF TypeOK
    <3>3. 0 \in 0..created
      BY <3>2
    <3>4. QED
      BY <2>4, <3>1, <3>2, <3>3
  <2>6. UNCHANGED <<life, mine, seen, starts, created, creator, owner, marked, aged>>
    BY <1>16 DEF PutBack
  <2>7. QED
    BY <2>1, <2>2, <2>5, <2>6, MovingIsTyped DEF TypeOK
<1>17. ASSUME NEW p \in Process, Retry(p) PROVE TypeOK'
  BY <1>17 DEF Retry, Goto, TypeOK, dirVars, procVars, States, Reclaiming
<1>18. ASSUME NEW p \in Process, GiveUp(p) PROVE TypeOK'
  BY <1>18 DEF GiveUp, Goto, TypeOK, dirVars, States, Reclaiming, NoProbes
<1>19. ASSUME NEW p \in Process, Release(p) PROVE TypeOK'
  <2>1. /\ pc' = [pc EXCEPT ![p] = "idle"] /\ mine' = [mine EXCEPT ![p] = 0]
        /\ lock' \in {0, lock}
        /\ UNCHANGED <<life, seen, identity, starts, created, creator, owner, tombstone,
                       marked, aged>>
    BY <1>19 DEF Release, Goto
  <2>2. "idle" \in States /\ "idle" \notin Reclaiming
    BY DEF States, Reclaiming
  <2>3. mine' \in [Process -> 0..created] /\ lock' \in 0..created
    BY <2>1 DEF TypeOK
  <2>4. QED
    BY <2>1, <2>2, <2>3, MovingIsTyped DEF TypeOK
<1>20. CASE UNCHANGED vars
  BY <1>20 DEF vars, TypeOK
<1>21. QED
  BY <1>1, <1>2, <1>3, <1>4, <1>5, <1>6, <1>7, <1>8, <1>9, <1>10, <1>11, <1>12,
     <1>13, <1>14, <1>15, <1>16, <1>17, <1>18, <1>19, <1>20 DEF Next, Step

\* A fresh project has no lock, no process and no tombstone.
LEMMA TypeInit ==
  ASSUME Init
  PROVE  TypeOK
BY ConstantsAssumption DEF Init, TypeOK, States, NoProbes, Reclaiming, Lock

\* Under any faults, every variable always holds a value of its kind and names
\* only directories that acquire() has created.
THEOREM TypeCorrect == Spec => []TypeOK
<1>1. Init => TypeOK
  BY TypeInit
<1>2. TypeOK /\ [Next]_vars => TypeOK'
  BY TypeStep
<1>3. QED
  BY <1>1, <1>2, PTL DEF Spec

-----------------------------------------------------------------------------
(* The invariant, one conjunct at a time.                                  *)

\* A waiter's probes stay true of whatever runs under their pids, because no pid
\* is handed on while a waiter still holds what it probed there.
LEMMA PidsStep ==
  ASSUME IInv, QuietEnvironment, Next
  PROVE  PidsAreOwned'
<1> USE ConstantsAssumption
<1> USE DEF IInv
<1>1. ASSUME NEW p \in Process, Spawn(p) PROVE PidsAreOwned'
  <2>1. UNCHANGED starts /\ life' = [life EXCEPT ![p] = "running"] /\ life[p] = "unborn"
    BY <1>1 DEF Spawn
  <2>2. \A q \in Process : Running(q) /\ SameHost(p, q) => PidOf[q] # PidOf[p]
    BY <1>1 DEF Spawn
  <2>3. \A w \in Process : SameHost(w, p) => starts[w][PidOf[p]] = "unasked"
    BY <1>1 DEF Spawn, QuietEnvironment
  <2>4. \A q \in Process : Running(q)' <=> Running(q) \/ q = p
    BY <2>1 DEF Running, TypeOK
  <2>5. \A a, b \in Process :
          Running(a)' /\ Running(b)' /\ SameHost(a, b) /\ PidOf[a] = PidOf[b] => a = b
    BY <2>2, <2>4 DEF PidsAreOwned, SameHost
  <2>6. \A w, q \in Process :
          Running(q)' /\ SameHost(w, q) /\ starts[w][PidOf[q]] \notin {"unasked", "unknown"}
          => starts[w][PidOf[q]] = q
    BY <2>3, <2>4 DEF PidsAreOwned
  <2>7. QED
    BY <2>1, <2>5, <2>6 DEF PidsAreOwned, SameHost
<1>2. ASSUME NEW p \in Process, Exit(p) PROVE PidsAreOwned'
  BY <1>2 DEF Exit, PidsAreOwned, Running, SameHost, TypeOK, NoProbes
<1>3. ASSUME NEW p \in Process,
             WriteOwner(p) \/ WriteFails(p) \/ WriteRefused(p) \/ GiveUp(p)
      PROVE  PidsAreOwned'
  <2>1. UNCHANGED life /\ starts' = [starts EXCEPT ![p] = NoProbes]
    BY <1>3 DEF WriteOwner, WriteFails, WriteRefused, GiveUp
  <2>2. \A w, q \in Process :
          starts'[w][PidOf[q]] = starts[w][PidOf[q]] \/ starts'[w][PidOf[q]] = "unasked"
    BY <2>1 DEF NoProbes, TypeOK
  <2>3. QED
    BY <2>1, <2>2 DEF PidsAreOwned, Running, SameHost
<1>4. ASSUME NEW p \in Process, JudgeRecord(p) PROVE PidsAreOwned'
  <2> DEFINE k == PidOf[creator[seen[p]]]
  <2>1. UNCHANGED life
    BY <1>4 DEF JudgeRecord
  <2>2. k \in Pid
    BY <1>4 DEF JudgeRecord, TypeOK
  <2>3. \/ UNCHANGED starts
        \/ \E start \in Probe(p, k) : starts' = [starts EXCEPT ![p][k] = start]
        \/ starts' = [starts EXCEPT ![p][k] = starts[p][k]]
    BY <1>4 DEF JudgeRecord
  <2>4. CASE UNCHANGED starts \/ starts' = [starts EXCEPT ![p][k] = starts[p][k]]
    BY <2>1, <2>2, <2>4 DEF PidsAreOwned, Running, SameHost, TypeOK
  <2>5. ASSUME NEW start \in Probe(p, k), starts' = [starts EXCEPT ![p][k] = start]
        PROVE  PidsAreOwned'
    BY <2>1, <2>2, <2>5 DEF PidsAreOwned, Probe, Running, SameHost, TypeOK
  <2>6. QED
    BY <2>3, <2>4, <2>5
<1>5. ASSUME UNCHANGED <<life, starts>> PROVE PidsAreOwned'
  BY <1>5 DEF PidsAreOwned, Running, SameHost
<1>6. ASSUME NEW p \in Process, Step(p), ~ WriteOwner(p), ~ WriteFails(p), ~ JudgeRecord(p)
      PROVE  UNCHANGED <<life, starts>>
  BY <1>6 DEF Step, MakeDirectory, LockExists, Observe, JudgeUnreadable, Rename,
              RenameFails, Mark, Verify, PutBack, Retry, Release, procVars
<1>7. ASSUME NEW p \in Process, BeginAcquire(p) PROVE UNCHANGED <<life, starts>>
  BY <1>7 DEF BeginAcquire, procVars
<1>8. Age => UNCHANGED <<life, starts>>
  BY DEF Age, procVars
<1>9. QED
  BY <1>1, <1>2, <1>3, <1>4, <1>5, <1>6, <1>7, <1>8 DEF Next

\* A tombstone that holds the directory it is named for passes the check of
\* #reclaim: nothing has to be put back.
LEMMA CaughtIsVerified ==
  ASSUME TombstonesAreSound, NEW i \in Identity, tombstone[i] = i[2]
  PROVE  IdentityAt(tombstone[i]) = i
<1> USE ConstantsAssumption
<1>1. i = <<i[1], i[2]>> /\ i[1] \in {"token", "inode"} /\ i[2] # 0
  BY DEF Identity, Lock
<1>2. owner[i[2]] = IF i[1] = "token" THEN i[2] ELSE 0
  BY <1>1 DEF TombstonesAreSound
<1>3. QED
  BY <1>1, <1>2 DEF IdentityAt

\* Every step keeps ProcessesAreSound; the one that could not is Verify, were the
\* directory a process moved ever another than the one it judged.
LEMMA ProcessesStep ==
  ASSUME IInv, QuietEnvironment, Next
  PROVE  ProcessesAreSound'
<1> USE ConstantsAssumption
<1>a. TypeOK /\ ProcessesAreSound
  BY DEF IInv
<1>1. ASSUME NEW p \in Process, NEW to \in States,
             pc[p] # "idle" \/ Running(p),
             pc' = [pc EXCEPT ![p] = to],
             to # "putback",
             UNCHANGED <<life, creator>>,
             \/ mine' = [mine EXCEPT ![p] = 0]
             \/ UNCHANGED mine /\ (to = "held" \/ pc[p] \notin {"write", "held"})
      PROVE  ProcessesAreSound'
  <2>1. Running(p) /\ \A q \in Process : Running(q)' = Running(q)
    BY <1>a, <1>1 DEF ProcessesAreSound, Running
  <2>2. \A q \in Process : q # p => pc'[q] = pc[q] /\ mine'[q] = mine[q]
    BY <1>a, <1>1 DEF TypeOK
  <2>3. pc'[p] = to /\ (mine'[p] = 0 \/ (mine'[p] = mine[p] /\ to = "held"))
    BY <1>a, <1>1 DEF TypeOK, ProcessesAreSound
  <2>4. creator' = creator /\ to # "putback"
    BY <1>1
  <2>5. ASSUME NEW q \in Process
        PROVE  /\ pc'[q] # "idle" => Running(q)'
               /\ pc'[q] # "putback"
               /\ mine'[q] # 0 => pc'[q] \in {"write", "held"} /\ creator'[mine'[q]] = q
    <3>1. CASE q = p
      <4>1. mine[p] # 0 => pc[p] \in {"write", "held"} /\ creator[mine[p]] = p
        BY <1>a DEF ProcessesAreSound
      <4>2. QED
        BY <2>1, <2>3, <2>4, <3>1, <4>1
    <3>2. CASE q # p
      BY <1>a, <2>1, <2>2, <2>4, <3>2 DEF ProcessesAreSound
    <3>3. QED
      BY <3>1, <3>2
  <2>6. QED
    BY <2>5 DEF ProcessesAreSound
<1>2. ASSUME NEW p \in Process, Spawn(p) PROVE ProcessesAreSound'
  BY <1>a, <1>2 DEF Spawn, dirVars, ProcessesAreSound, Running, TypeOK
<1>3. ASSUME NEW p \in Process, Exit(p) PROVE ProcessesAreSound'
  BY <1>a, <1>3 DEF Exit, dirVars, ProcessesAreSound, Running, TypeOK
<1>4. ASSUME NEW p \in Process, MakeDirectory(p) PROVE ProcessesAreSound'
  <2>1. /\ pc[p] \in {"mkdir", "remkdir"} /\ UNCHANGED life
        /\ pc' = [pc EXCEPT ![p] = "write"]
        /\ mine' = [mine EXCEPT ![p] = created + 1]
        /\ creator' = [n \in 1..(created + 1) |-> IF n = created + 1 THEN p ELSE creator[n]]
    BY <1>4 DEF MakeDirectory
  <2>2. Running(p) /\ created \in Nat
    BY <1>a, <2>1 DEF ProcessesAreSound, TypeOK
  <2>3. \A q \in Process : Running(q)' = Running(q)
    BY <2>1 DEF Running
  <2>4. creator'[created + 1] = p /\ \A n \in 1..created : creator'[n] = creator[n]
    BY <2>1, <2>2
  <2>5. \A q \in Process : q # p => /\ pc'[q] = pc[q] /\ mine'[q] = mine[q]
                                    /\ mine[q] # 0 => mine[q] \in 1..created
    BY <1>a, <2>1, <2>2 DEF TypeOK
  <2>6. pc'[p] = "write" /\ mine'[p] = created + 1
    BY <1>a, <2>1 DEF TypeOK
  <2>7. QED
    BY <1>a, <2>2, <2>3, <2>4, <2>5, <2>6 DEF ProcessesAreSound
<1>5. ASSUME NEW p \in Process, BeginAcquire(p) PROVE ProcessesAreSound'
  BY <1>1, <1>5 DEF BeginAcquire, Goto, procVars, dirVars, States
<1>6. ASSUME NEW p \in Process, LockExists(p) \/ Observe(p) \/ Retry(p) \/ GiveUp(p)
      PROVE  ProcessesAreSound'
  BY <1>1, <1>6 DEF LockExists, Observe, Retry, GiveUp, Goto, procVars, dirVars, States
<1>7. ASSUME NEW p \in Process, WriteOwner(p) PROVE ProcessesAreSound'
  BY <1>1, <1>7 DEF WriteOwner, Goto, States
<1>8. ASSUME NEW p \in Process, WriteFails(p) \/ WriteRefused(p) PROVE ProcessesAreSound'
  BY <1>1, <1>8 DEF WriteFails, WriteRefused, Goto, dirVars, States
<1>9. ASSUME NEW p \in Process, JudgeRecord(p) \/ JudgeUnreadable(p)
      PROVE  ProcessesAreSound'
  <2>1. pc' = [pc EXCEPT ![p] = "wait"] \/ pc' = [pc EXCEPT ![p] = "rename"]
    BY <1>9 DEF JudgeRecord, JudgeUnreadable, Keep, Stale
  <2>2. pc[p] = "judge" /\ UNCHANGED <<life, creator, mine>>
    BY <1>9 DEF JudgeRecord, JudgeUnreadable, dirVars
  <2>3. QED
    BY <1>1, <2>1, <2>2 DEF States
<1>10. ASSUME NEW p \in Process, Rename(p) PROVE ProcessesAreSound'
  <2>1. PICK to \in {"mark", "verify"} : pc[p] = "rename" /\ pc' = [pc EXCEPT ![p] = to]
    BY <1>10 DEF Rename, Goto
  <2>2. UNCHANGED <<life, creator, mine>>
    BY <1>10 DEF Rename, procVars
  <2>3. QED
    BY <1>1, <2>1, <2>2 DEF States
<1>11. ASSUME NEW p \in Process, RenameFails(p) PROVE ProcessesAreSound'
  BY <1>1, <1>11 DEF RenameFails, Goto, dirVars, States
<1>12. ASSUME NEW p \in Process, Mark(p) \/ PutBack(p) PROVE ProcessesAreSound'
  <2>1. ~ PutBack(p)
    BY <1>a DEF PutBack, Goto, ProcessesAreSound
  <2>2. QED
    BY <1>1, <1>12, <2>1 DEF Mark, Goto, procVars, States
<1>13. ASSUME NEW p \in Process, Verify(p) PROVE ProcessesAreSound'
  <2>1. pc[p] = "verify" /\ UNCHANGED <<life, creator, mine>>
    BY <1>13 DEF Verify, dirVars
  <2>2. IdentityAt(tombstone[identity[p]]) = identity[p]
    BY <2>1, CaughtIsVerified DEF IInv, ReclaimsAreSound, ReclaimIsSound
  <2>3. pc' = [pc EXCEPT ![p] = "remkdir"]
    BY <1>13, <2>2 DEF Verify, FoundAt, QuietEnvironment
  <2>4. QED
    BY <1>1, <2>1, <2>3 DEF States
<1>14. ASSUME NEW p \in Process, Release(p) PROVE ProcessesAreSound'
  BY <1>1, <1>14 DEF Release, Goto, States
<1>15. Age => ProcessesAreSound'
  BY <1>a DEF Age, procVars, ProcessesAreSound, Running
<1>16. QED
  BY <1>2, <1>3, <1>4, <1>5, <1>6, <1>7, <1>8, <1>9, <1>10, <1>11, <1>12, <1>13,
     <1>14, <1>15 DEF Next, Step

\* Who is about to write its record, or holds the lock, is running, and the
\* directory at the lock path is the one it created.
LEMMA OwnersRun ==
  ASSUME IInv, NEW p \in Process, pc[p] \in {"write", "held"}
  PROVE  /\ lock = mine[p] /\ lock \in 1..created /\ lock \in Lock
         /\ creator[lock] = p
         /\ Running(p) /\ ~ Gone(lock) /\ ~ Left(lock)
<1> USE ConstantsAssumption
<1>1. lock = mine[p] /\ mine[p] # 0
  BY DEF IInv, OwnersAreInPlace
<1>2. lock \in 1..created /\ lock \in Lock
  BY <1>1 DEF IInv, TypeOK, Lock
<1>3. creator[lock] = p /\ Running(p)
  BY <1>1 DEF IInv, ProcessesAreSound
<1>4. QED
  BY <1>1, <1>2, <1>3 DEF Gone, Left, Running

\* Who is gone holds nothing.
LEMMA GoneHasLeft ==
  ASSUME IInv, NEW n \in 1..created, Gone(n)
  PROVE  Left(n)
<1>1. creator[n] \in Process /\ n # 0
  BY DEF IInv, TypeOK
<1>2. ~ Running(creator[n])
  BY DEF Gone, Running
<1>3. mine[creator[n]] = 0
  BY <1>1, <1>2 DEF IInv, ProcessesAreSound
<1>4. QED
  BY <1>1, <1>3 DEF Left

\* So at most one process is there at a time.
LEMMA OneOwner ==
  ASSUME IInv, NEW p \in Process, NEW q \in Process,
         pc[p] \in {"write", "held"}, pc[q] \in {"write", "held"}
  PROVE  p = q
BY OwnersRun

\* A rename that succeeds moves the directory that was judged, onto a name that
\* holds nothing.
LEMMA RenameMovesTheJudged ==
  ASSUME IInv, NEW p \in Process, Rename(p)
  PROVE  /\ identity[p] \in Identity
         /\ lock = identity[p][2] /\ lock \in 1..created
         /\ tombstone[identity[p]] = 0
         /\ Left(lock)
         /\ owner[lock] = IF identity[p][1] = "token" THEN lock ELSE 0
<1> USE ConstantsAssumption
<1> DEFINE i == identity[p]
<1>1. pc[p] = "rename" /\ lock # 0 /\ (tombstone[i] = 0 \/ Empty(tombstone[i]))
  BY DEF Rename, CanRename
<1>2. Judged(i) /\ Caught(i)
  BY <1>1 DEF IInv, ReclaimsAreSound, ReclaimIsSound
<1>3. i \in Identity /\ i[2] \in 1..MaxLocks
  BY <1>2 DEF Judged, Identity, Lock
<1>4. tombstone[i] = 0
  <2>1. tombstone[i] # 0 => /\ tombstone[i] = i[2] /\ (i[1] = "inode" => i[2] \in marked)
                            /\ owner[i[2]] = IF i[1] = "token" THEN i[2] ELSE 0
    BY <1>3 DEF IInv, TombstonesAreSound
  <2>2. i[2] # 0 /\ i[1] \in {"token", "inode"}
    BY <1>3 DEF Identity
  <2>3. QED
    BY <1>1, <2>1, <2>2 DEF Empty
<1>5. lock = i[2]
  BY <1>2, <1>3, <1>4 DEF Caught
<1>6. lock \in 1..created
  BY <1>1 DEF IInv, TypeOK
<1>7. QED
  BY <1>2, <1>3, <1>4, <1>5, <1>6 DEF Judged

\* Every step keeps OwnersAreInPlace: only its owner removes a lock, and a rename
\* only moves one that its owner has left.
LEMMA OwnersStep ==
  ASSUME IInv, QuietEnvironment, Next
  PROVE  OwnersAreInPlace'
<1> USE ConstantsAssumption
<1>a. TypeOK /\ OwnersAreInPlace
  BY DEF IInv
<1>1. ASSUME NEW p \in Process, NEW to \in States \ {"write", "held"},
             pc' = [pc EXCEPT ![p] = to],
             UNCHANGED <<lock, owner>>,
             mine' = [mine EXCEPT ![p] = 0] \/ UNCHANGED mine
      PROVE  OwnersAreInPlace'
  <2>1. \A q \in Process : q # p => pc'[q] = pc[q] /\ mine'[q] = mine[q]
    BY <1>a, <1>1 DEF TypeOK
  <2>2. pc'[p] \notin {"write", "held"}
    BY <1>a, <1>1 DEF TypeOK
  <2>3. lock' = lock /\ owner' = owner
    BY <1>1
  <2>4. QED
    BY <1>a, <2>1, <2>2, <2>3 DEF OwnersAreInPlace
<1>2. ASSUME UNCHANGED <<pc, mine, lock, owner>> PROVE OwnersAreInPlace'
  BY <1>a, <1>2 DEF OwnersAreInPlace
<1>3. ASSUME NEW p \in Process, Spawn(p) PROVE OwnersAreInPlace'
  BY <1>2, <1>3 DEF Spawn, dirVars
<1>4. ASSUME NEW p \in Process, MakeDirectory(p) PROVE OwnersAreInPlace'
  <2>1. \A q \in Process : pc[q] \notin {"write", "held"}
    BY <1>4, OwnersRun DEF MakeDirectory
  <2>2. /\ pc' = [pc EXCEPT ![p] = "write"] /\ mine' = [mine EXCEPT ![p] = created + 1]
        /\ lock' = created + 1 /\ owner' = owner
        /\ created < MaxLocks
    BY <1>4 DEF MakeDirectory
  <2>3. created \in Nat /\ created + 1 \in Lock
    BY <1>a, <2>2 DEF TypeOK, Lock
  <2>4. owner[created + 1] = 0
    BY <2>3 DEF IInv, DirectoriesAreSound
  <2>5. \A q \in Process : q # p => pc'[q] \notin {"write", "held"}
    BY <1>a, <2>1, <2>2 DEF TypeOK
  <2>6. pc'[p] = "write" /\ mine'[p] = created + 1 /\ created + 1 # 0
    BY <1>a, <2>2, <2>3 DEF TypeOK
  <2>7. QED
    BY <2>2, <2>4, <2>5, <2>6 DEF OwnersAreInPlace
<1>5. ASSUME NEW p \in Process, WriteOwner(p) PROVE OwnersAreInPlace'
  <2>1. /\ pc[p] = "write" /\ pc' = [pc EXCEPT ![p] = "held"] /\ UNCHANGED <<mine, lock>>
        /\ owner' = [owner EXCEPT ![lock] = mine[p]]
    BY <1>5 DEF WriteOwner, Goto
  <2>2. lock = mine[p] /\ lock \in Lock /\ mine[p] # 0
    BY <2>1, OwnersRun DEF Lock
  <2>3. owner'[lock] = lock
    BY <1>a, <2>1, <2>2 DEF TypeOK
  <2>4. \A q \in Process : q # p => pc'[q] \notin {"write", "held"}
    BY <1>a, <2>1, OneOwner DEF TypeOK
  <2>5. pc'[p] = "held"
    BY <1>a, <2>1 DEF TypeOK
  <2>6. QED
    BY <2>1, <2>2, <2>3, <2>4, <2>5 DEF OwnersAreInPlace
<1>6. ASSUME NEW p \in Process, Rename(p) \/ Release(p) PROVE OwnersAreInPlace'
  <2>1. \A q \in Process : q # p => pc[q] \notin {"write", "held"}
    <3>1. CASE Rename(p)
      <4>1. Left(lock)
        BY <3>1, RenameMovesTheJudged
      <4>2. QED
        BY <4>1, OwnersRun
    <3>2. CASE Release(p)
      BY <3>2, OneOwner DEF Release, Goto
    <3>3. QED
      BY <1>6, <3>1, <3>2
  <2>2. \E to \in {"idle", "mark", "verify"} : pc' = [pc EXCEPT ![p] = to]
    BY <1>6 DEF Rename, Release, Goto
  <2>3. \A q \in Process : pc'[q] \notin {"write", "held"}
    BY <1>a, <2>1, <2>2 DEF TypeOK
  <2>4. QED
    BY <2>3 DEF OwnersAreInPlace
<1>7. ASSUME NEW p \in Process, Exit(p) \/ WriteFails(p) \/ WriteRefused(p)
      PROVE  OwnersAreInPlace'
  BY <1>1, <1>7 DEF Exit, WriteFails, WriteRefused, Goto, dirVars, States
<1>8. ASSUME NEW p \in Process,
             BeginAcquire(p) \/ LockExists(p) \/ Observe(p) \/ Retry(p) \/ GiveUp(p)
      PROVE  OwnersAreInPlace'
  BY <1>1, <1>8 DEF BeginAcquire, LockExists, Observe, Retry, GiveUp, Goto, procVars,
                    dirVars, States
<1>9. ASSUME NEW p \in Process, JudgeRecord(p) \/ JudgeUnreadable(p) \/ RenameFails(p)
                                \/ Verify(p)
      PROVE  OwnersAreInPlace'
  <2>1. UNCHANGED <<lock, owner, mine>>
    BY <1>9 DEF JudgeRecord, JudgeUnreadable, RenameFails, Verify, dirVars
  <2>2. \E to \in {"wait", "rename", "remkdir", "putback"} : pc' = [pc EXCEPT ![p] = to]
    BY <1>9 DEF JudgeRecord, JudgeUnreadable, Keep, Stale, RenameFails, Goto, Verify
  <2>3. QED
    BY <1>1, <2>1, <2>2 DEF States
<1>10. ASSUME NEW p \in Process, Mark(p) \/ PutBack(p) PROVE OwnersAreInPlace'
  <2>1. ~ PutBack(p)
    BY DEF PutBack, Goto, IInv, ProcessesAreSound
  <2>2. QED
    BY <1>1, <1>10, <2>1 DEF Mark, Goto, procVars, States
<1>11. Age => UNCHANGED <<pc, mine, lock, owner>>
  BY DEF Age, procVars
<1>12. QED
  BY <1>2, <1>3, <1>4, <1>5, <1>6, <1>7, <1>8, <1>9, <1>10, <1>11 DEF Next, Step

\* What a step leaves of a directory that exists: its creator, and that the
\* creator is gone, or has left it, once it is so.
LEMMA GoneForever ==
  ASSUME IInv, Next, NEW n \in 1..created
  PROVE  /\ n \in 1..created' /\ creator'[n] = creator[n] /\ creator[n] \in Process
         /\ life[creator[n]] # "unborn" /\ life'[creator[n]] # "unborn"
         /\ Gone(n) => Gone(n)'
         /\ Left(n) => Left(n)'
<1> USE ConstantsAssumption
<1>1. TypeOK /\ n \in Lock /\ created \in Nat
  BY DEF IInv, TypeOK, Lock
<1>2. creator[n] \in Process /\ life[creator[n]] # "unborn"
  BY <1>1 DEF IInv, DirectoriesAreSound, TypeOK
<1>3. n \in 1..created' /\ creator'[n] = creator[n]
  <2>1. \/ UNCHANGED <<created, creator>>
        \/ /\ created' = created + 1
           /\ \E p \in Process :
                creator' = [m \in 1..created' |-> IF m = created' THEN p ELSE creator[m]]
    <3>1. ASSUME NEW p \in Process, Step(p), ~ MakeDirectory(p)
          PROVE  UNCHANGED <<created, creator>>
      BY <3>1 DEF Step, LockExists, WriteOwner, WriteFails, Observe, JudgeRecord,
             JudgeUnreadable, Rename, RenameFails, Mark, Verify, PutBack, Retry, Release,
             dirVars
    <3>2. QED
      BY <3>1 DEF Next, Age, Spawn, Exit, BeginAcquire, WriteRefused, GiveUp, MakeDirectory,
             dirVars
  <2>2. QED
    BY <1>1, <2>1
<1>4. \/ UNCHANGED life
      \/ \E p \in Process : life[p] = "unborn" /\ life' = [life EXCEPT ![p] = "running"]
      \/ \E p \in Process : life' = [life EXCEPT ![p] = "gone"]
  BY DEF Next, Age, Spawn, Exit, BeginAcquire, Step, MakeDirectory, LockExists,
         WriteOwner, WriteFails, WriteRefused, Observe, JudgeRecord, JudgeUnreadable,
         Rename, RenameFails, Mark, Verify, PutBack, Retry, GiveUp, Release, procVars
<1>5. life'[creator[n]] # "unborn" /\ (Gone(n) => life'[creator[n]] = "gone")
  BY <1>1, <1>2, <1>4 DEF Gone, TypeOK
<1>6. \A p \in Process : mine'[p] = mine[p] \/ mine'[p] = 0 \/ mine'[p] = created + 1
  <2>1. \/ UNCHANGED mine
        \/ \E p \in Process : mine' = [mine EXCEPT ![p] = 0]
        \/ \E p \in Process : mine' = [mine EXCEPT ![p] = created + 1]
    BY DEF Next, Age, Spawn, Exit, BeginAcquire, Step, MakeDirectory, LockExists,
           WriteOwner, WriteFails, WriteRefused, Observe, JudgeRecord, JudgeUnreadable,
           Rename, RenameFails, Mark, Verify, PutBack, Retry, GiveUp, Release, procVars
  <2>2. QED
    BY <1>1, <2>1 DEF TypeOK
<1>7. Left(n) => mine'[creator[n]] # n
  BY <1>1, <1>2, <1>6 DEF Left
<1>8. QED
  BY <1>2, <1>3, <1>5, <1>7 DEF Gone, Left

\* Every step keeps DirectoriesAreSound: records are written by the directory's
\* creator, and a directory ages only when its creator has left it.
LEMMA DirectoriesStep ==
  ASSUME IInv, QuietEnvironment, Next
  PROVE  DirectoriesAreSound'
<1> USE ConstantsAssumption
<1>a. TypeOK /\ DirectoriesAreSound /\ created \in Nat /\ aged \subseteq 1..created
  BY DEF IInv, TypeOK
<1>b. \A n \in 1..created : n \in Lock /\ n <= created /\ ~ (n > created)
  BY <1>a DEF TypeOK, Lock
<1>c. \A n \in 1..created : /\ creator'[n] = creator[n] /\ life'[creator[n]] # "unborn"
                            /\ Left(n) => Left(n)'
  BY GoneForever
<1>1. ASSUME UNCHANGED <<created, owner, aged>>
      PROVE  DirectoriesAreSound'
  <2>1. ASSUME NEW n \in Lock, n <= created
        PROVE  life'[creator'[n]] # "unborn"
    BY <1>a, <1>c, <2>1 DEF Lock
  <2>2. ASSUME NEW n \in aged PROVE owner[n] = 0 /\ Left(n)'
    BY <1>a, <1>b, <1>c, <2>2 DEF DirectoriesAreSound
  <2>3. QED
    BY <1>a, <1>1, <2>1, <2>2 DEF DirectoriesAreSound
<1>2. CASE Age
  <2>1. /\ UNCHANGED <<life, pc, mine, created, creator, owner>> /\ aged' = aged \cup {lock}
        /\ lock # 0 /\ owner[lock] = 0
        /\ ~ \E p \in Process : pc[p] = "write" /\ mine[p] = lock
    BY <1>2 DEF Age, procVars, QuietEnvironment
  <2>2. lock \in 1..created /\ lock \in Lock
    BY <1>a, <2>1 DEF TypeOK, Lock
  <2>3. Left(lock)
    <3>1. SUFFICES ASSUME mine[creator[lock]] = lock PROVE FALSE
      BY DEF Left
    <3>2. creator[lock] \in Process
      BY <1>a, <2>2 DEF TypeOK
    <3>3. pc[creator[lock]] = "held"
      BY <2>1, <2>2, <3>1, <3>2 DEF IInv, ProcessesAreSound
    <3>4. owner[lock] = lock
      BY <3>2, <3>3 DEF IInv, OwnersAreInPlace
    <3>5. QED
      BY <2>1, <3>4
  <2>4. QED
    BY <1>a, <2>1, <2>3 DEF DirectoriesAreSound, Left
<1>3. ASSUME NEW p \in Process, MakeDirectory(p) PROVE DirectoriesAreSound'
  <2>1. /\ pc[p] \in {"mkdir", "remkdir"} /\ UNCHANGED <<life, owner, aged>>
        /\ created' = created + 1
        /\ creator' = [n \in 1..(created + 1) |-> IF n = created + 1 THEN p ELSE creator[n]]
    BY <1>3 DEF MakeDirectory
  <2>2. creator'[created + 1] = p /\ life'[p] # "unborn"
    BY <1>a, <2>1 DEF IInv, ProcessesAreSound, Running
  <2>3. ASSUME NEW n \in Lock
        PROVE  /\ owner'[n] \in {0, n}
               /\ n > created' => owner'[n] = 0
               /\ n <= created' => life'[creator'[n]] # "unborn"
               /\ n \in aged' => owner'[n] = 0 /\ Left(n)'
    <3>1. owner'[n] = owner[n] /\ owner[n] \in {0, n} /\ (n > created => owner[n] = 0)
      BY <1>a, <2>1 DEF DirectoriesAreSound
    <3>2. n > created' => n > created
      BY <1>a, <2>1 DEF Lock
    <3>3. n <= created' => n \in 1..created \/ n = created + 1
      BY <1>a, <2>1 DEF Lock
    <3>4. n \in aged' => owner[n] = 0 /\ Left(n)'
      BY <1>a, <1>c, <2>1 DEF DirectoriesAreSound
    <3>5. QED
      BY <1>c, <2>2, <3>1, <3>2, <3>3, <3>4
  <2>4. QED
    BY <2>3 DEF DirectoriesAreSound
<1>4. ASSUME NEW p \in Process, WriteOwner(p) PROVE DirectoriesAreSound'
  <2>1. /\ pc[p] = "write" /\ UNCHANGED <<life, mine, created, creator, lock, aged>>
        /\ owner' = [owner EXCEPT ![lock] = mine[p]]
    BY <1>4 DEF WriteOwner, Goto
  <2>2. lock = mine[p] /\ lock \in 1..created /\ lock \in Lock /\ ~ Left(lock)
    BY <2>1, OwnersRun
  <2>3. \A n \in Lock : owner'[n] = IF n = lock THEN lock ELSE owner[n]
    BY <1>a, <2>1, <2>2 DEF TypeOK
  <2>4. lock # 0 /\ ~ (lock > created) /\ lock \notin aged
    BY <1>a, <1>b, <2>2 DEF DirectoriesAreSound
  <2>5. \A n \in Lock : Left(n)' = Left(n)
    BY <2>1 DEF Left
  <2>6. QED
    BY <1>a, <2>1, <2>3, <2>4, <2>5 DEF DirectoriesAreSound
<1>5. ASSUME NEW p \in Process, \/ Spawn(p) \/ Exit(p) \/ BeginAcquire(p) \/ LockExists(p)
                                \/ WriteFails(p) \/ WriteRefused(p) \/ Observe(p)
                                \/ JudgeRecord(p) \/ JudgeUnreadable(p) \/ Release(p)
      PROVE  UNCHANGED <<created, owner, aged>>
  BY <1>5 DEF Spawn, Exit, BeginAcquire, LockExists, WriteFails, WriteRefused, Observe,
              JudgeRecord, JudgeUnreadable, Release, procVars, dirVars
<1>6. ASSUME NEW p \in Process, \/ Rename(p) \/ RenameFails(p) \/ Mark(p) \/ Verify(p)
                                \/ PutBack(p) \/ Retry(p) \/ GiveUp(p)
      PROVE  UNCHANGED <<created, owner, aged>>
  BY <1>6 DEF Rename, RenameFails, Mark, Verify, PutBack, Retry, GiveUp, procVars, dirVars
<1>7. QED
  BY <1>1, <1>2, <1>3, <1>4, <1>5, <1>6 DEF Next, Step

\* Every step keeps TombstonesAreSound: a rename adds a tombstone under the name
\* of the directory it moves, and a sweep only removes some.
LEMMA TombstonesStep ==
  ASSUME IInv, QuietEnvironment, Next
  PROVE  TombstonesAreSound'
<1> USE ConstantsAssumption
<1>a. TypeOK /\ TombstonesAreSound
  BY DEF IInv
<1>b. \A i \in Identity : tombstone[i] # 0 => i[2] \in 1..created /\ i[2] \in Lock
  BY <1>a DEF TypeOK, TombstonesAreSound, Identity, Lock
<1>c. \A n \in 1..created : Left(n) => Left(n)'
  BY GoneForever
<1>1. ASSUME UNCHANGED <<tombstone, owner>>, marked \subseteq marked'
      PROVE  TombstonesAreSound'
  BY <1>a, <1>b, <1>c, <1>1 DEF TombstonesAreSound
<1>2. ASSUME NEW p \in Process, WriteOwner(p) PROVE TombstonesAreSound'
  <2>1. /\ pc[p] = "write" /\ UNCHANGED lock /\ owner' = [owner EXCEPT ![lock] = mine[p]]
        /\ Sweep
    BY <1>2 DEF WriteOwner, Goto
  <2>2. ~ Left(lock)
    BY <2>1, OwnersRun
  <2>3. marked \subseteq marked'
    BY <2>1, MarkersAreAdded DEF Sweep
  <2>4. \A i \in Identity : tombstone'[i] \in {0, tombstone[i]}
    BY <2>1 DEF Sweep
  <2>5. \A n \in Lock : n # lock => owner'[n] = owner[n]
    BY <1>a, <2>1 DEF TypeOK
  <2>6. ASSUME NEW i \in Identity, tombstone'[i] # 0
        PROVE  /\ tombstone'[i] = i[2]
               /\ Left(i[2])' /\ (i[1] = "inode" => i[2] \in marked')
               /\ owner'[i[2]] = IF i[1] = "token" THEN i[2] ELSE 0
    <3>1. tombstone'[i] = tombstone[i] /\ tombstone[i] # 0
      BY <2>4, <2>6
    <3>2. /\ tombstone[i] = i[2] /\ Left(i[2]) /\ (i[1] = "inode" => i[2] \in marked)
          /\ owner[i[2]] = IF i[1] = "token" THEN i[2] ELSE 0
      BY <1>a, <3>1 DEF TombstonesAreSound
    <3>3. Left(i[2])' /\ i[2] # lock /\ i[2] \in Lock
      BY <1>b, <1>c, <2>2, <3>1, <3>2
    <3>4. QED
      BY <2>3, <2>5, <3>1, <3>2, <3>3
  <2>7. QED
    BY <2>6 DEF TombstonesAreSound
<1>3. ASSUME NEW p \in Process, Rename(p) PROVE TombstonesAreSound'
  <2>0. PICK i \in Identity, n \in 1..created : i = identity[p] /\ n = lock
    BY <1>3, RenameMovesTheJudged
  <2>1. n = i[2] /\ Left(n) /\ owner[n] = IF i[1] = "token" THEN n ELSE 0
    BY <1>3, <2>0, RenameMovesTheJudged
  <2>2. tombstone' = [tombstone EXCEPT ![i] = n] /\ UNCHANGED owner
    BY <1>3, <2>0 DEF Rename
  <2>3. Left(n)' /\ marked \subseteq marked' /\ (i[1] = "inode" => n \in marked')
    <3>1. Left(n)'
      BY <1>c, <2>1
    <3>2. WriteMarkers({n}) \/ (owner[n] # 0 /\ UNCHANGED marked)
      BY <1>3, <2>0 DEF Rename, QuietEnvironment
    <3>3. marked \subseteq marked' /\ (owner[n] = 0 => n \in marked')
      BY <3>2, MarkersAreAdded DEF MarkerMayFail, QuietEnvironment
    <3>4. QED
      BY <2>1, <3>1, <3>3 DEF Identity
  <2>4. ASSUME NEW j \in Identity, tombstone'[j] # 0
        PROVE  /\ tombstone'[j] = j[2]
               /\ Left(j[2])' /\ (j[1] = "inode" => j[2] \in marked')
               /\ owner'[j[2]] = IF j[1] = "token" THEN j[2] ELSE 0
    <3>1. CASE j = i
      <4>1. tombstone'[i] = n
        BY <1>a, <2>1, <2>2 DEF TypeOK
      <4>2. QED
        BY <2>1, <2>2, <2>3, <3>1, <4>1
    <3>2. CASE j # i
      <4>1. tombstone'[j] = tombstone[j]
        BY <1>a, <2>2, <3>2 DEF TypeOK
      <4>2. QED
        BY <1>a, <1>b, <1>c, <2>2, <2>3, <2>4, <4>1 DEF TombstonesAreSound
    <3>3. QED
      BY <3>1, <3>2
  <2>5. QED
    BY <2>4 DEF TombstonesAreSound
<1>4. ASSUME NEW p \in Process, Mark(p) \/ PutBack(p) PROVE TombstonesAreSound'
  <2>1. ~ PutBack(p)
    BY DEF PutBack, Goto, IInv, ProcessesAreSound
  <2>2. QED
    BY <1>1, <1>4, <2>1, MarkersAreAdded DEF Mark
<1>5. ASSUME NEW p \in Process,
             Spawn(p) \/ Exit(p) \/ BeginAcquire(p) \/ WriteRefused(p) \/ GiveUp(p)
      PROVE  UNCHANGED <<tombstone, marked, owner>>
  BY <1>5 DEF Spawn, Exit, BeginAcquire, WriteRefused, GiveUp, dirVars
<1>6. ASSUME NEW p \in Process,
             Step(p), ~ WriteOwner(p), ~ Rename(p), ~ Mark(p), ~ PutBack(p)
      PROVE  UNCHANGED <<tombstone, marked, owner>>
  BY <1>6 DEF Step, MakeDirectory, LockExists, WriteFails, Observe, JudgeRecord,
              JudgeUnreadable, RenameFails, Verify, Retry, Release, dirVars
<1>7. Age => UNCHANGED <<tombstone, marked, owner>>
  BY DEF Age
<1>8. QED
  BY <1>1, <1>2, <1>3, <1>4, <1>5, <1>6, <1>7 DEF Next

\* A judgement of "stale" is right: the process it names is gone.
LEMMA StaleIsGone ==
  ASSUME IInv, NEW p \in Process, JudgeRecord(p), ~ Keep(p)
  PROVE  /\ Stale(p, <<"token", seen[p]>>)
         /\ Gone(seen[p])
         /\ SameHost(p, creator[seen[p]])
<1> USE ConstantsAssumption
<1> DEFINE o == creator[seen[p]]
           k == PidOf[o]
<1>1. pc[p] = "judge" /\ seen[p] \in 1..created /\ seen[p] \in Lock /\ seen[p] <= created
  BY DEF JudgeRecord, IInv, TypeOK, Lock
<1>2. o \in Process /\ life[o] # "unborn" /\ life[o] \in {"unborn", "running", "gone"}
  BY <1>1 DEF IInv, TypeOK, DirectoriesAreSound
<1>3. Stale(p, <<"token", seen[p]>>) /\ SameHost(p, o)
  BY DEF JudgeRecord
<1>4. Running(p)
  BY <1>1 DEF IInv, ProcessesAreSound
<1>5. ~ Running(o)
  <2>1. CASE k = PidOf[p] /\ o # p
    BY <1>2, <1>3, <1>4, <2>1 DEF IInv, PidsAreOwned
  <2>2. CASE ~ Alive(p, k)
    BY <1>2, <1>3, <2>2 DEF Alive
  <2>3. ASSUME Running(o),
               NEW start \in IF starts[p][k] = "unasked" THEN Probe(p, k)
                             ELSE {starts[p][k]},
               start \notin {"unknown", o}
        PROVE  FALSE
    <3>1. CASE starts[p][k] = "unasked"
      <4>1. start \in Process /\ Running(start) /\ SameHost(p, start) /\ PidOf[start] = k
        BY <2>3, <3>1 DEF Probe
      <4>2. QED
        BY <1>2, <1>3, <2>3, <4>1 DEF IInv, PidsAreOwned, SameHost
    <3>2. CASE starts[p][k] # "unasked"
      BY <1>2, <1>3, <2>3, <3>2 DEF IInv, PidsAreOwned
    <3>3. QED
      BY <3>1, <3>2
  <2>4. \/ k = PidOf[p] /\ o # p
        \/ ~ Alive(p, k)
        \/ \E start \in IF starts[p][k] = "unasked" THEN Probe(p, k) ELSE {starts[p][k]} :
             start \notin {"unknown", o}
    BY DEF JudgeRecord
  <2>5. QED
    BY <2>1, <2>2, <2>3, <2>4
<1>6. QED
  BY <1>2, <1>3, <1>5 DEF Gone, Running

\* What two waiters reclaim is one identity if it is one directory.
LEMMA OneIdentity ==
  ASSUME NEW i \in Identity, NEW j \in Identity, i[2] = j[2],
         owner[i[2]] = IF i[1] = "token" THEN i[2] ELSE 0,
         owner[j[2]] = IF j[1] = "token" THEN j[2] ELSE 0
  PROVE  i = j
<1>1. i[2] # 0 /\ i = <<i[1], i[2]>> /\ j = <<j[1], j[2]>>
  BY ConstantsAssumption DEF Identity, Lock
<1>2. i[1] \in {"token", "inode"} /\ j[1] \in {"token", "inode"}
  BY DEF Identity
<1>3. QED
  BY <1>1, <1>2

\* A reclaim stays sound through a step that leaves it and the directories it
\* has to do with alone.
LEMMA ReclaimFrame ==
  ASSUME IInv, Next, NEW q \in Process,
         pc'[q] = pc[q], seen'[q] = seen[q], identity'[q] = identity[q],
         \A n \in 1..created :
           pc[q] = "judge" /\ seen[q] = n /\ owner[n] = n /\ Gone(n)' => Gone(n) \/ lock = n,
         \A n \in 1..created : Left(n) \/ owner[n] = n => owner'[n] = owner[n],
         \A i \in Identity :
           /\ i[2] \in 1..created /\ InReclaim(i) /\ Caught(i) /\ (Left(i[2]) \/ Gone(i[2])')
           /\ owner[i[2]] = IF i[1] = "token" THEN i[2] ELSE 0
           => Caught(i)',
         \A i \in Identity :
           /\ pc[q] \in {"mark", "verify"} /\ identity[q] = i /\ tombstone[i] = i[2]
           => tombstone'[i] = i[2]
  PROVE  ReclaimIsSound(q)'
<1> USE ConstantsAssumption
<1>0. ReclaimIsSound(q) /\ TypeOK
  BY DEF IInv, ReclaimsAreSound
<1>1. CASE pc[q] = "judge" /\ seen[q] # 0
  <2>1. PICK n \in 1..created : n = seen[q] /\ n \in Lock
    <3>1. seen[q] \in 0..created /\ created \in 0..MaxLocks
      BY ONLY <1>0, q \in Process DEF TypeOK
    <3>2. seen[q] \in 1..created /\ seen[q] \in Lock
      BY ONLY <1>1, <3>1, MaxLocks \in Nat DEF Lock
    <3>3. QED
      BY <3>2
  <2>2. owner[n] = n /\ (Gone(n) => Caught(<<"token", n>>))
    BY <1>0, <1>1, <2>1 DEF ReclaimIsSound
  <2>3. owner'[n] = n
    BY <2>2
  <2>4. <<"token", n>> \in Identity /\ InReclaim(<<"token", n>>)
    BY <1>1, <2>1 DEF Identity, InReclaim
  <2>5. ASSUME Gone(n)' PROVE Caught(<<"token", n>>)'
    <3>1. Caught(<<"token", n>>)
      BY <1>1, <2>1, <2>2, <2>5 DEF Caught
    <3>2. QED
      BY <2>2, <2>4, <2>5, <3>1
  <2>6. QED
    BY <1>1, <2>1, <2>3, <2>5 DEF ReclaimIsSound
<1>2. CASE pc[q] = "rename"
  <2>1. PICK i \in Identity : i = identity[q]
    BY <1>0, <1>2 DEF TypeOK, Reclaiming
  <2>2. /\ Judged(i) /\ Caught(i)
        /\ i[1] = "token" => Gone(i[2]) /\ SameHost(q, creator[i[2]])
    BY <1>0, <1>2, <2>1 DEF ReclaimIsSound
  <2>3. i[2] \in 1..created /\ InReclaim(i)
    BY <1>0, <1>2, <2>1, <2>2 DEF InReclaim, Judged, Identity, Lock, TypeOK, Reclaiming
  <2>4. /\ Left(i[2])' /\ creator'[i[2]] = creator[i[2]] /\ i[2] \in 1..created'
        /\ Gone(i[2]) => Gone(i[2])'
    BY <2>2, <2>3, GoneForever DEF Judged
  <2>5. Caught(i)' /\ owner'[i[2]] = owner[i[2]]
    BY <2>2, <2>3, <2>4 DEF Judged
  <2>6. Judged(i)'
    BY <2>2, <2>4, <2>5 DEF Judged
  <2>7. QED
    BY <1>2, <2>1, <2>2, <2>4, <2>5, <2>6 DEF ReclaimIsSound, SameHost
<1>3. CASE pc[q] \in {"mark", "verify"}
  BY <1>0, <1>3 DEF ReclaimIsSound
<1>4. QED
  BY <1>1, <1>2, <1>3 DEF ReclaimIsSound

\* Every step keeps ReclaimsAreSound: what a waiter has read or judged stays where
\* it was, or is moved under its own tombstone by another waiter.
LEMMA ReclaimsStep ==
  ASSUME IInv, QuietEnvironment, Next
  PROVE  ReclaimsAreSound'
<1> USE ConstantsAssumption
<1>a. TypeOK /\ ReclaimsAreSound /\ TombstonesAreSound
  BY DEF IInv
<1>1. ASSUME NEW p \in Process, NEW to \in States, pc' = [pc EXCEPT ![p] = to],
             to \notin {"judge", "rename", "mark", "verify"}
      PROVE  ReclaimIsSound(p)'
  <2>1. pc'[p] = to
    BY <1>a, <1>1 DEF TypeOK
  <2>2. QED
    BY <1>1, <2>1 DEF ReclaimIsSound
<1>2. ASSUME NEW q \in Process,
             UNCHANGED <<life, mine, created, creator, lock, owner, tombstone>>,
             pc'[q] = pc[q], seen'[q] = seen[q], identity'[q] = identity[q]
      PROVE  ReclaimIsSound(q)'
  BY <1>a, <1>2 DEF ReclaimsAreSound, ReclaimIsSound, Gone, Left, Caught, Judged, SameHost
<1>3. ASSUME NEW p \in Process, Spawn(p) PROVE ReclaimsAreSound'
  <2>1. /\ UNCHANGED <<pc, seen, identity, created, creator, lock, owner, tombstone>>
        /\ life' = [life EXCEPT ![p] = "running"]
    BY <1>3 DEF Spawn, dirVars
  <2>2. \A n \in 1..created : Gone(n)' => Gone(n)
    BY <1>a, <2>1 DEF Gone, TypeOK
  <2>3. \A i \in Identity : Caught(i)' = Caught(i)
    BY <2>1 DEF Caught
  <2>4. \A q \in Process : ReclaimIsSound(q)'
    BY <2>1, <2>2, <2>3, ReclaimFrame
  <2>5. QED
    BY <2>4 DEF ReclaimsAreSound
<1>4. ASSUME NEW p \in Process, Exit(p) PROVE ReclaimsAreSound'
  <2>1. /\ UNCHANGED <<created, creator, lock, owner, tombstone>>
        /\ life' = [life EXCEPT ![p] = "gone"] /\ pc' = [pc EXCEPT ![p] = "idle"]
        /\ seen' = [seen EXCEPT ![p] = 0] /\ identity' = [identity EXCEPT ![p] = NoIdentity]
        /\ ~ Probed(p)
    BY <1>4 DEF Exit, dirVars, QuietEnvironment
  <2>2. ASSUME NEW q \in Process, NEW n \in 1..created,
               pc[q] = "judge" /\ seen[q] = n /\ owner[n] = n /\ Gone(n)', ~ Gone(n)
        PROVE  lock = n
    <3>1. creator[n] = p
      BY <1>a, <2>1, <2>2 DEF Gone, TypeOK
    <3>2. Record = n /\ n # 0
      BY <2>1, <2>2, <3>1 DEF Probed
    <3>3. lock # 0 /\ owner[lock] = n /\ lock \in Lock
      BY <1>a, <3>2 DEF Record, TypeOK, Lock
    <3>4. owner[lock] \in {0, lock}
      BY <3>3 DEF IInv, DirectoriesAreSound
    <3>5. QED
      BY <3>2, <3>3, <3>4
  <2>3. \A i \in Identity : Caught(i)' = Caught(i)
    BY <2>1 DEF Caught
  <2>4. ASSUME NEW q \in Process, q # p PROVE ReclaimIsSound(q)'
    <3>1. pc'[q] = pc[q] /\ seen'[q] = seen[q] /\ identity'[q] = identity[q]
      BY <1>a, <2>1, <2>4 DEF TypeOK
    <3>2. QED
      BY <2>1, <2>2, <2>3, <3>1, ReclaimFrame
  <2>5. ReclaimIsSound(p)'
    BY <1>1, <2>1 DEF States
  <2>6. QED
    BY <2>4, <2>5 DEF ReclaimsAreSound
<1>5. ASSUME NEW p \in Process, MakeDirectory(p) PROVE ReclaimsAreSound'
  <2>1. /\ UNCHANGED <<life, seen, identity, owner, tombstone>>
        /\ lock = 0 /\ pc' = [pc EXCEPT ![p] = "write"]
    BY <1>5 DEF MakeDirectory
  <2>2. \A n \in 1..created : Gone(n)' => Gone(n)
    BY <2>1, GoneForever DEF Gone
  <2>3. \A i \in Identity : i[2] \in 1..created /\ Caught(i) => Caught(i)'
    BY <1>a, <2>1 DEF Caught, TypeOK
  <2>4. ASSUME NEW q \in Process, q # p PROVE ReclaimIsSound(q)'
    <3>1. pc'[q] = pc[q]
      BY <1>a, <2>1, <2>4 DEF TypeOK
    <3>2. QED
      BY <2>1, <2>2, <2>3, <3>1, ReclaimFrame
  <2>5. ReclaimIsSound(p)'
    BY <1>1, <2>1 DEF States
  <2>6. QED
    BY <2>4, <2>5 DEF ReclaimsAreSound
<1>6. ASSUME NEW p \in Process, WriteOwner(p) PROVE ReclaimsAreSound'
  <2>1. /\ UNCHANGED <<life, seen, identity, created, creator, lock>> /\ Sweep
        /\ pc[p] = "write" /\ pc' = [pc EXCEPT ![p] = "held"]
        /\ owner' = [owner EXCEPT ![lock] = mine[p]]
    BY <1>6 DEF WriteOwner, Goto
  <2>2. lock = mine[p] /\ ~ Left(lock)
    BY <2>1, OwnersRun
  <2>3. \A n \in 1..created : Left(n) \/ owner[n] = n => owner'[n] = owner[n]
    BY <1>a, <2>1, <2>2 DEF TypeOK, Lock
  <2>4. \A i \in Identity : InReclaim(i) => tombstone'[i] = tombstone[i]
    BY <2>1 DEF Sweep, QuietEnvironment
  <2>5. \A i \in Identity : InReclaim(i) /\ Caught(i) => Caught(i)'
    BY <2>1, <2>4 DEF Caught
  <2>6. \A n \in 1..created : Gone(n)' => Gone(n)
    BY <2>1 DEF Gone
  <2>7. ASSUME NEW q \in Process, q # p PROVE ReclaimIsSound(q)'
    <3>1. pc'[q] = pc[q]
      BY <1>a, <2>1, <2>7 DEF TypeOK
    <3>2. \A i \in Identity : pc[q] \in {"mark", "verify"} /\ identity[q] = i => InReclaim(i)
      BY DEF InReclaim, Reclaiming
    <3>3. QED
      BY <2>1, <2>3, <2>4, <2>5, <2>6, <3>1, <3>2, ReclaimFrame
  <2>8. ReclaimIsSound(p)'
    BY <1>1, <2>1 DEF States
  <2>9. QED
    BY <2>7, <2>8 DEF ReclaimsAreSound
<1>7. ASSUME NEW p \in Process, WriteFails(p) \/ PutBack(p) PROVE FALSE
  BY <1>7, OwnersRun DEF WriteFails, PutBack, Goto, IInv, ProcessesAreSound
<1>8. ASSUME NEW p \in Process, Observe(p) PROVE ReclaimsAreSound'
  <2>1. /\ UNCHANGED <<life, mine, identity, created, creator, lock, owner, tombstone>>
        /\ pc' = [pc EXCEPT ![p] = "judge"] /\ seen' = [seen EXCEPT ![p] = Record]
    BY <1>8 DEF Observe, ReadRecord, Goto, dirVars, QuietEnvironment
  <2>2. pc'[p] = "judge" /\ seen'[p] = Record
    BY <1>a, <2>1 DEF TypeOK
  <2>3. Record # 0 => Record = lock /\ owner[lock] = lock
    <3>1. lock # 0 => lock \in Lock
      BY <1>a DEF TypeOK, Lock
    <3>2. lock # 0 => owner[lock] \in {0, lock}
      BY <3>1 DEF IInv, DirectoriesAreSound
    <3>3. QED
      BY <3>2 DEF Record
  <2>4. ReclaimIsSound(p)'
    BY <2>1, <2>2, <2>3 DEF ReclaimIsSound, Caught
  <2>5. ASSUME NEW q \in Process, q # p PROVE ReclaimIsSound(q)'
    BY <1>2, <1>a, <2>1, <2>5 DEF TypeOK
  <2>6. QED
    BY <2>4, <2>5 DEF ReclaimsAreSound
<1>9. ASSUME NEW p \in Process, JudgeRecord(p) PROVE ReclaimsAreSound'
  <2>1. /\ UNCHANGED <<life, mine, created, creator, lock, owner, tombstone>>
        /\ pc[p] = "judge" /\ seen[p] # 0 /\ seen' = [seen EXCEPT ![p] = 0]
        /\ \/ Keep(p)
           \/ /\ Stale(p, <<"token", seen[p]>>) /\ Gone(seen[p])
              /\ SameHost(p, creator[seen[p]])
    BY <1>9, StaleIsGone DEF JudgeRecord, dirVars
  <2>2. CASE Keep(p)
    <3>1. ReclaimIsSound(p)'
      BY <1>1, <2>2 DEF Keep, States
    <3>2. ASSUME NEW q \in Process, q # p PROVE ReclaimIsSound(q)'
      BY <1>2, <1>a, <2>1, <2>2, <3>2 DEF TypeOK, Keep
    <3>3. QED
      BY <3>1, <3>2 DEF ReclaimsAreSound
  <2>3. CASE ~ Keep(p)
    <3>1. PICK n \in 1..created : n = seen[p] /\ n \in Lock
      BY <1>a, <2>1 DEF TypeOK, Lock
    <3>2. /\ pc' = [pc EXCEPT ![p] = "rename"]
          /\ identity' = [identity EXCEPT ![p] = <<"token", n>>]
          /\ Gone(n) /\ SameHost(p, creator[n])
      BY <2>1, <2>3, <3>1 DEF Stale
    <3>3. owner[n] = n /\ Caught(<<"token", n>>)
      BY <1>a, <2>1, <3>1, <3>2 DEF ReclaimsAreSound, ReclaimIsSound
    <3>4. <<"token", n>> \in Identity /\ n <= created /\ Left(n)
      BY <3>1, <3>2, GoneHasLeft DEF Identity
    <3>5. /\ Judged(<<"token", n>>)' /\ Caught(<<"token", n>>)'
          /\ Gone(n)' /\ SameHost(p, creator'[n])
      BY <2>1, <3>2, <3>3, <3>4 DEF Judged, Caught, Gone, Left, SameHost
    <3>6. pc'[p] = "rename" /\ identity'[p] = <<"token", n>>
      BY <1>a, <3>2 DEF TypeOK
    <3>7. ReclaimIsSound(p)'
      BY <3>5, <3>6 DEF ReclaimIsSound, SameHost
    <3>8. ASSUME NEW q \in Process, q # p PROVE ReclaimIsSound(q)'
      BY <1>2, <1>a, <2>1, <3>2, <3>8 DEF TypeOK
    <3>9. QED
      BY <3>7, <3>8 DEF ReclaimsAreSound
  <2>4. QED
    BY <2>2, <2>3
<1>10. ASSUME NEW p \in Process, JudgeUnreadable(p) PROVE ReclaimsAreSound'
  <2>1. /\ UNCHANGED <<life, mine, seen, created, creator, lock, owner, tombstone>>
        /\ Keep(p) \/ (lock \in aged /\ Stale(p, <<"inode", lock>>))
    BY <1>10 DEF JudgeUnreadable, dirVars
  <2>2. CASE Keep(p)
    <3>1. ReclaimIsSound(p)'
      BY <1>1, <2>2 DEF Keep, States
    <3>2. ASSUME NEW q \in Process, q # p PROVE ReclaimIsSound(q)'
      BY <1>2, <1>a, <2>1, <2>2, <3>2 DEF TypeOK, Keep
    <3>3. QED
      BY <3>1, <3>2 DEF ReclaimsAreSound
  <2>3. CASE lock \in aged /\ Stale(p, <<"inode", lock>>)
    <3>1. PICK n \in 1..created : n = lock /\ n \in Lock
      BY <1>a, <2>3 DEF TypeOK, Lock
    <3>2. /\ pc' = [pc EXCEPT ![p] = "rename"]
          /\ identity' = [identity EXCEPT ![p] = <<"inode", n>>]
      BY <2>3, <3>1 DEF Stale
    <3>3. owner[n] = 0 /\ Left(n)
      BY <2>3, <3>1 DEF IInv, DirectoriesAreSound
    <3>4. <<"inode", n>> \in Identity /\ n <= created
      BY <3>1 DEF Identity
    <3>5. Judged(<<"inode", n>>)' /\ Caught(<<"inode", n>>)'
      BY <2>1, <3>1, <3>3, <3>4 DEF Judged, Caught, Left
    <3>6. pc'[p] = "rename" /\ identity'[p] = <<"inode", n>>
      BY <1>a, <3>2 DEF TypeOK
    <3>7. ReclaimIsSound(p)'
      BY <3>5, <3>6 DEF ReclaimIsSound
    <3>8. ASSUME NEW q \in Process, q # p PROVE ReclaimIsSound(q)'
      BY <1>2, <1>a, <2>1, <3>2, <3>8 DEF TypeOK
    <3>9. QED
      BY <3>7, <3>8 DEF ReclaimsAreSound
  <2>4. QED
    BY <2>1, <2>2, <2>3
<1>11. ASSUME NEW p \in Process, Rename(p) PROVE ReclaimsAreSound'
  <2>0. PICK i \in Identity, n \in 1..created : i = identity[p] /\ n = lock
    BY <1>11, RenameMovesTheJudged
  <2>1. /\ n = i[2] /\ tombstone[i] = 0
        /\ owner[n] = IF i[1] = "token" THEN n ELSE 0
    BY <1>11, <2>0, RenameMovesTheJudged
  <2>2. /\ \E to \in {"mark", "verify"} : pc' = [pc EXCEPT ![p] = to]
        /\ tombstone' = [tombstone EXCEPT ![i] = n]
        /\ UNCHANGED <<life, seen, identity, created, creator, owner>>
    BY <1>11, <2>0 DEF Rename, Goto, procVars
  <2>3. tombstone'[i] = n /\ pc'[p] \in {"mark", "verify"}
    BY <1>a, <2>2 DEF TypeOK
  <2>4. ReclaimIsSound(p)'
    BY <2>0, <2>1, <2>2, <2>3 DEF ReclaimIsSound
  <2>5. ASSUME NEW j \in Identity, j[2] \in 1..created, Caught(j),
               owner[j[2]] = IF j[1] = "token" THEN j[2] ELSE 0
        PROVE  Caught(j)'
    <3>1. CASE j[2] = n
      <4>1. j = i
        BY <2>1, <2>5, <3>1, OneIdentity
      <4>2. QED
        BY <2>1, <2>3, <4>1 DEF Caught
    <3>2. CASE j[2] # n
      <4>1. tombstone[j] = j[2] /\ j # i
        BY <2>0, <2>1, <2>5, <3>2 DEF Caught
      <4>2. QED
        BY <1>a, <2>2, <4>1 DEF Caught, TypeOK
    <3>3. QED
      BY <3>1, <3>2
  <2>6. \A j \in Identity : tombstone[j] = j[2] => tombstone'[j] = j[2]
    BY <1>a, <2>1, <2>2, <2>3 DEF TypeOK
  <2>7. \A m \in 1..created : Gone(m)' => Gone(m)
    BY <2>2 DEF Gone
  <2>8. ASSUME NEW q \in Process, q # p PROVE ReclaimIsSound(q)'
    <3>1. pc'[q] = pc[q]
      BY <1>a, <2>2, <2>8 DEF TypeOK
    <3>2. QED
      BY <2>2, <2>5, <2>6, <2>7, <3>1, ReclaimFrame
  <2>9. QED
    BY <2>4, <2>8 DEF ReclaimsAreSound
<1>12. ASSUME NEW p \in Process, Release(p) PROVE ReclaimsAreSound'
  <2>1. /\ UNCHANGED <<life, seen, identity, created, creator, owner, tombstone>>
        /\ pc[p] = "held" /\ pc' = [pc EXCEPT ![p] = "idle"]
    BY <1>12 DEF Release, Goto
  <2>2. ~ Gone(lock) /\ ~ Left(lock)
    BY <2>1, OwnersRun
  <2>3. \A n \in 1..created : Gone(n)' => Gone(n)
    BY <2>1 DEF Gone
  <2>4. \A i \in Identity :
          i[2] \in 1..created /\ Caught(i) /\ (Left(i[2]) \/ Gone(i[2])') => Caught(i)'
    BY <2>1, <2>2, <2>3 DEF Caught
  <2>5. ASSUME NEW q \in Process, q # p PROVE ReclaimIsSound(q)'
    <3>1. pc'[q] = pc[q]
      BY <1>a, <2>1, <2>5 DEF TypeOK
    <3>2. QED
      BY <2>1, <2>3, <2>4, <3>1, ReclaimFrame
  <2>6. ReclaimIsSound(p)'
    BY <1>1, <2>1 DEF States
  <2>7. QED
    BY <2>5, <2>6 DEF ReclaimsAreSound
<1>13. ASSUME NEW p \in Process, BeginAcquire(p) \/ LockExists(p) \/ Retry(p) \/ GiveUp(p)
                                 \/ RenameFails(p)
       PROVE  ReclaimsAreSound'
  <2>1. /\ UNCHANGED <<life, mine, seen, created, creator, lock, owner, tombstone>>
        /\ \E to \in {"mkdir", "observe", "wait", "idle"} : pc' = [pc EXCEPT ![p] = to]
        /\ UNCHANGED identity \/ identity' = [identity EXCEPT ![p] = NoIdentity]
    BY <1>13 DEF BeginAcquire, LockExists, Retry, GiveUp, RenameFails, Goto, procVars,
                 dirVars
  <2>2. ReclaimIsSound(p)'
    BY <1>1, <2>1 DEF States
  <2>3. ASSUME NEW q \in Process, q # p PROVE ReclaimIsSound(q)'
    <3>1. pc'[q] = pc[q] /\ identity'[q] = identity[q]
      BY <1>a, <2>1, <2>3 DEF TypeOK
    <3>2. QED
      BY <1>2, <2>1, <3>1
  <2>4. QED
    BY <2>2, <2>3 DEF ReclaimsAreSound
<1>14. ASSUME NEW p \in Process, Verify(p) PROVE ReclaimsAreSound'
  <2>1. /\ UNCHANGED <<life, mine, seen, created, creator, lock, owner, tombstone>>
        /\ \E to \in {"remkdir", "putback"} : pc' = [pc EXCEPT ![p] = to]
        /\ UNCHANGED identity \/ identity' = [identity EXCEPT ![p] = NoIdentity]
    BY <1>14 DEF Verify, dirVars
  <2>2. ReclaimIsSound(p)'
    BY <1>1, <2>1 DEF States
  <2>3. ASSUME NEW q \in Process, q # p PROVE ReclaimIsSound(q)'
    <3>1. pc'[q] = pc[q] /\ identity'[q] = identity[q]
      BY <1>a, <2>1, <2>3 DEF TypeOK
    <3>2. QED
      BY <1>2, <2>1, <3>1
  <2>4. QED
    BY <2>2, <2>3 DEF ReclaimsAreSound
<1>15. Age => ReclaimsAreSound'
  <2>1. Age => UNCHANGED <<life, mine, pc, seen, identity, created, creator, lock, owner, tombstone>>
    BY DEF Age, procVars
  <2>2. QED
    BY <1>2, <2>1 DEF ReclaimsAreSound
<1>16. ASSUME NEW p \in Process, WriteRefused(p) PROVE ReclaimsAreSound'
  <2>1. /\ UNCHANGED <<life, seen, identity, created, creator, lock, owner, tombstone>>
        /\ pc' = [pc EXCEPT ![p] = "idle"]
    BY <1>16 DEF WriteRefused, Goto, dirVars
  <2>2. \A n \in 1..created : Gone(n)' => Gone(n)
    BY <2>1 DEF Gone
  <2>3. \A i \in Identity : Caught(i)' = Caught(i)
    BY <2>1 DEF Caught
  <2>4. ASSUME NEW q \in Process, q # p PROVE ReclaimIsSound(q)'
    <3>1. pc'[q] = pc[q]
      BY <1>a, <2>1, <2>4 DEF TypeOK
    <3>2. QED
      BY <2>1, <2>2, <2>3, <3>1, ReclaimFrame
  <2>5. ReclaimIsSound(p)'
    BY <1>1, <2>1 DEF States
  <2>6. QED
    BY <2>4, <2>5 DEF ReclaimsAreSound
<1>17. ASSUME NEW p \in Process, Mark(p) PROVE ReclaimsAreSound'
  <2>1. /\ UNCHANGED <<life, mine, seen, identity, created, creator, lock, owner, tombstone>>
        /\ pc[p] = "mark" /\ pc' = [pc EXCEPT ![p] = "verify"]
    BY <1>17 DEF Mark, Goto, procVars
  <2>2. ReclaimIsSound(p)'
    BY <1>a, <2>1 DEF ReclaimsAreSound, ReclaimIsSound, TypeOK
  <2>3. ASSUME NEW q \in Process, q # p PROVE ReclaimIsSound(q)'
    BY <1>2, <1>a, <2>1, <2>3 DEF TypeOK
  <2>4. QED
    BY <2>2, <2>3 DEF ReclaimsAreSound
<1>18. QED
  BY <1>3, <1>4, <1>5, <1>6, <1>7, <1>8, <1>9, <1>10, <1>11, <1>12, <1>13, <1>14, <1>15,
     <1>16, <1>17
     DEF Next, Step

-----------------------------------------------------------------------------

\* The invariant of ProjectLockInv is inductive in a quiet environment.
LEMMA InvariantStep ==
  ASSUME IInv, QuietEnvironment, [Next]_vars
  PROVE  IInv'
<1>0. TypeOK'
  BY TypeStep DEF IInv
<1>1. CASE Next
  BY <1>0, <1>1, PidsStep, ProcessesStep, OwnersStep, DirectoriesStep, TombstonesStep,
     ReclaimsStep DEF IInv
<1>2. CASE UNCHANGED vars
  <2>1. UNCHANGED <<life, pc, mine, seen, identity, starts, created, creator, lock, owner,
                    tombstone, marked, aged>>
    BY <1>2 DEF vars
  <2>2. PidsAreOwned'
    BY <2>1 DEF IInv, PidsAreOwned, Running, SameHost
  <2>3. ProcessesAreSound' /\ OwnersAreInPlace'
    BY <2>1 DEF IInv, ProcessesAreSound, OwnersAreInPlace, Running
  <2>4. DirectoriesAreSound' /\ TombstonesAreSound'
    BY <2>1 DEF IInv, DirectoriesAreSound, TombstonesAreSound, Left
  <2>5. ReclaimsAreSound'
    BY <2>1 DEF IInv, ReclaimsAreSound, ReclaimIsSound, Judged, Caught, Gone, Left, SameHost
  <2>6. QED
    BY <1>0, <2>2, <2>3, <2>4, <2>5 DEF IInv
<1>3. QED
  BY <1>1, <1>2

\* The invariant holds before any process runs.
LEMMA InvariantInit ==
  ASSUME Init
  PROVE  IInv
<1> USE ConstantsAssumption
<1>1. PidsAreOwned
  BY DEF Init, PidsAreOwned, Running, NoProbes
<1>2. ProcessesAreSound /\ OwnersAreInPlace
  BY DEF Init, ProcessesAreSound, OwnersAreInPlace
<1>3. DirectoriesAreSound
  BY DEF Init, DirectoriesAreSound, Lock
<1>4. TombstonesAreSound /\ ReclaimsAreSound
  BY DEF Init, TombstonesAreSound, ReclaimsAreSound, ReclaimIsSound
<1>5. QED
  BY <1>1, <1>2, <1>3, <1>4, TypeInit DEF IInv

\* A process enters a reclaim's marking or checking only by its own rename.
LEMMA OnlyRenameMoves ==
  ASSUME TypeOK, Next, NEW p \in Process, pc[p] = "rename", pc'[p] \in {"mark", "verify"}
  PROVE  Rename(p)
<1>1. ASSUME NEW q \in Process, q # p, NEW to \in States, pc' = [pc EXCEPT ![q] = to]
      PROVE  FALSE
  BY <1>1 DEF TypeOK
<1>2. UNCHANGED pc => FALSE
  OBVIOUS
<1>3. ASSUME NEW q \in Process, Step(q), q # p PROVE FALSE
  <2>1. \E to \in States : pc' = [pc EXCEPT ![q] = to]
    BY <1>3 DEF Step, MakeDirectory, LockExists, WriteOwner, WriteFails, Observe,
           JudgeRecord, JudgeUnreadable, Keep, Stale, Rename, RenameFails, Mark, Verify,
           PutBack, Retry, Release, Goto, States
  <2>2. QED
    BY <1>1, <1>3, <2>1
<1>4. ASSUME Step(p) PROVE Rename(p)
  BY <1>4 DEF Step, MakeDirectory, LockExists, WriteOwner, WriteFails, Observe, JudgeRecord,
       JudgeUnreadable, RenameFails, Mark, Verify, PutBack, Retry, Release, Goto, TypeOK
<1>5. ASSUME NEW q \in Process,
             BeginAcquire(q) \/ Exit(q) \/ WriteRefused(q) \/ GiveUp(q)
      PROVE  FALSE
  <2>1. pc' = [pc EXCEPT ![q] = "mkdir"] \/ pc' = [pc EXCEPT ![q] = "idle"]
    BY <1>5 DEF BeginAcquire, Exit, WriteRefused, GiveUp, Goto
  <2>2. QED
    BY <2>1 DEF TypeOK
<1>6. QED
  BY <1>2, <1>3, <1>4, <1>5 DEF Next, Age, Spawn

\* ProjectLock keeps the invariant of ProjectLockInv when no pid is recycled under
\* a waiter, no owner exits inside a probe, the rename of a lock without a record and
\* its marker are not split and the marker is written, a record that is there is read,
\* and no process is suspended past the retention times.
THEOREM Inductive ==
  ASSUME QuietEnvironment
  PROVE  Spec => []IInv
<1>1. Init => IInv
  BY InvariantInit
<1>2. IInv /\ [Next]_vars => IInv'
  BY InvariantStep
<1>3. QED
  BY <1>1, <1>2, PTL DEF Spec

\* Then no two processes are ever between acquire() and release(), however many
\* processes, pids, machines and kills there are and whichever records of fresh locks
\* cannot be written.
THEOREM Exclusion ==
  ASSUME QuietEnvironment
  PROVE  Spec => []MutualExclusion
<1>1. IInv => MutualExclusion
  BY OneOwner DEF MutualExclusion
<1>2. QED
  BY <1>1, Inductive, PTL

\* Then #reclaim moves only the lock it judged, which its creator has left, and one
\* that has a record only if it records a process of this machine that is gone.
THEOREM SoundReclamation ==
  ASSUME QuietEnvironment
  PROVE  Spec => OnlyAbandonedLocksMoved
<1> DEFINE Moves ==
      \A p \in Process :
        pc[p] = "rename" /\ pc'[p] \in {"mark", "verify"} =>
          /\ IdentityAt(lock) = identity[p]
          /\ mine[creator[lock]] # lock
          /\ Record # 0 => ~ Running(creator[lock]) /\ SameHost(p, creator[lock])
<1>1. ASSUME IInv, Next, NEW p \in Process, pc[p] = "rename", pc'[p] \in {"mark", "verify"}
      PROVE  /\ IdentityAt(lock) = identity[p]
             /\ mine[creator[lock]] # lock
             /\ Record # 0 => ~ Running(creator[lock]) /\ SameHost(p, creator[lock])
  <2> DEFINE i == identity[p]
  <2>1. Rename(p)
    BY <1>1, OnlyRenameMoves DEF IInv
  <2>2. /\ i \in Identity /\ lock = i[2] /\ lock \in 1..created /\ Left(lock)
        /\ owner[lock] = IF i[1] = "token" THEN lock ELSE 0
    BY <1>1, <2>1, RenameMovesTheJudged
  <2>3. i = <<i[1], lock>> /\ i[1] \in {"token", "inode"} /\ lock # 0
    BY <2>2, ConstantsAssumption DEF Identity, Lock
  <2>4. i[1] = "token" => Gone(lock) /\ SameHost(p, creator[lock])
    BY <1>1, <2>2 DEF IInv, ReclaimsAreSound, ReclaimIsSound
  <2>5. QED
    BY <2>2, <2>3, <2>4 DEF IdentityAt, Record, Gone, Left, Running
<1>2. IInv /\ [Next]_vars => [Moves]_vars
  BY <1>1
<1>3. QED
  BY <1>2, Inductive, PTL DEF Spec, OnlyAbandonedLocksMoved

(***************************************************************************)
(* The lock as ExclusiveLock states it.                                    *)
(***************************************************************************)
Holder == IF Record = 0 THEN {} ELSE {creator[Record]}
Inside == {p \in Process : pc[p] = "held"}
GoneProcesses == {p \in Process : life[p] = "gone"}

\* Of a lock that is free or has no record, nobody is the holder; one that has a
\* record is held for its creator.
LEMMA HolderIsCreator ==
  ASSUME IInv
  PROVE  Holder = IF lock = 0 THEN {} ELSE IF owner[lock] = 0 THEN {} ELSE {creator[lock]}
<1>1. lock # 0 => lock \in Lock
  BY ConstantsAssumption DEF IInv, TypeOK, Lock
<1>2. lock # 0 => owner[lock] \in {0, lock}
  BY <1>1 DEF IInv, DirectoriesAreSound
<1>3. QED
  BY <1>2 DEF Holder, Record

\* A step between other points of acquire() leaves the contract's state as it is.
LEMMA UnseenStep ==
  ASSUME IInv, NEW p \in Process, NEW to \in States,
         pc[p] # "held", to # "held", pc' = [pc EXCEPT ![p] = to],
         UNCHANGED <<life, creator, lock, owner>>
  PROVE  UNCHANGED Contract!vars
<1>1. Inside' = Inside
  BY DEF Inside, IInv, TypeOK
<1>2. Holder' = Holder /\ GoneProcesses' = GoneProcesses
  BY DEF Holder, Record, GoneProcesses
<1>3. QED
  BY <1>1, <1>2 DEF Contract!vars, Holder, Inside, GoneProcesses

LEMMA ContractStep ==
  ASSUME IInv, IInv', QuietEnvironment, [Next]_vars
  PROVE  [Contract!Next]_(Contract!vars)
<1> USE DEF Holder, Inside, GoneProcesses
<1>a. /\ pc \in [Process -> States] /\ life \in [Process -> {"unborn", "running", "gone"}]
      /\ lock \in 0..created /\ created \in 0..MaxLocks
  BY DEF IInv, TypeOK
<1>b. Holder = IF lock = 0 THEN {} ELSE IF owner[lock] = 0 THEN {} ELSE {creator[lock]}
  BY HolderIsCreator
<1>1. ASSUME NEW p \in Process,
             \/ BeginAcquire(p) \/ LockExists(p) \/ WriteFails(p) \/ WriteRefused(p)
             \/ Observe(p) \/ JudgeRecord(p) \/ JudgeUnreadable(p) \/ RenameFails(p)
             \/ Mark(p) \/ Verify(p) \/ Retry(p) \/ GiveUp(p)
      PROVE  UNCHANGED Contract!vars
  <2>1. UNCHANGED <<life, creator, lock, owner>>
    BY <1>1 DEF BeginAcquire, LockExists, WriteFails, WriteRefused, Observe, JudgeRecord,
         JudgeUnreadable, RenameFails, Mark, Verify, Retry, GiveUp, procVars, dirVars
  <2>2. \E to \in States : to # "held" /\ pc[p] # "held" /\ pc' = [pc EXCEPT ![p] = to]
    BY <1>1 DEF BeginAcquire, LockExists, WriteFails, WriteRefused, Observe, JudgeRecord,
         JudgeUnreadable, RenameFails, Mark, Verify, Retry, GiveUp, Goto, Keep, Stale, States
  <2>3. QED
    BY <2>1, <2>2, UnseenStep
<1>2. CASE Age
  BY <1>2 DEF Age, procVars, Contract!vars, Record
<1>3. ASSUME NEW p \in Process, Spawn(p) PROVE UNCHANGED Contract!vars
  <2>1. GoneProcesses' = GoneProcesses
    BY <1>3, <1>a DEF Spawn
  <2>2. UNCHANGED <<pc, creator, lock, owner>>
    BY <1>3 DEF Spawn, dirVars
  <2>3. QED
    BY <2>1, <2>2 DEF Contract!vars, Record
<1>4. ASSUME NEW p \in Process, MakeDirectory(p) PROVE UNCHANGED Contract!vars
  <2>1. Holder = {} /\ Holder' = {}
    <3>1. lock = 0 /\ lock' = created + 1 /\ owner' = owner /\ lock' \in Lock
      BY <1>4, <1>a, ConstantsAssumption DEF MakeDirectory, Lock
    <3>2. owner[lock'] = 0
      BY <3>1, <1>a DEF IInv, DirectoriesAreSound, Lock
    <3>3. QED
      BY <1>b, <3>1, <3>2 DEF Record
  <2>2. Inside' = Inside /\ GoneProcesses' = GoneProcesses
    BY <1>4, <1>a DEF MakeDirectory
  <2>3. QED
    BY <2>1, <2>2 DEF Contract!vars
<1>5. ASSUME NEW p \in Process, WriteOwner(p) PROVE Contract!Take(p)
  <2>1. pc[p] = "write" /\ pc' = [pc EXCEPT ![p] = "held"] /\ lock # 0 /\ lock' = lock
        /\ owner' = [owner EXCEPT ![lock] = mine[p]] /\ creator' = creator /\ life' = life
    BY <1>5 DEF WriteOwner, Goto
  <2>2. lock = mine[p] /\ lock \in Lock /\ creator[lock] = p /\ owner[lock] = 0
    BY <2>1, OwnersRun DEF IInv, OwnersAreInPlace
  <2>3. owner'[lock] = lock
    BY <2>1, <2>2 DEF IInv, TypeOK
  <2>4. Holder = {} /\ Holder' = {p}
    BY <1>b, <2>1, <2>2, <2>3 DEF Record
  <2>5. Inside' = Inside \cup {p}
    BY <1>a, <2>1
  <2>6. life[p] = "running"
    BY <2>1 DEF IInv, ProcessesAreSound, Running
  <2>7. p \notin GoneProcesses /\ GoneProcesses' = GoneProcesses
    BY <2>1, <2>6
  <2>8. QED
    BY <2>4, <2>5, <2>7 DEF Contract!Take
<1>6. ASSUME NEW p \in Process, Rename(p) PROVE [Contract!Next]_(Contract!vars)
  <2>1. lock' = 0 /\ lock # 0 /\ UNCHANGED <<life, creator, owner>>
    BY <1>6 DEF Rename, CanRename, procVars
  <2>2. Inside' = Inside /\ GoneProcesses' = GoneProcesses
    BY <1>6, <1>a, <2>1 DEF Rename, Goto
  <2>3. Holder' = {}
    BY <2>1 DEF Record
  <2>4. Holder \subseteq GoneProcesses
    <3> DEFINE i == identity[p]
    <3>1. i \in Identity /\ lock = i[2] /\ lock \in 1..created
          /\ owner[lock] = IF i[1] = "token" THEN lock ELSE 0
      BY <1>6, RenameMovesTheJudged
    <3>2. i[1] = "token" => Gone(lock)
      BY <1>6, <3>1 DEF Rename, IInv, ReclaimsAreSound, ReclaimIsSound
    <3>3. creator[lock] \in Process
      BY <3>1 DEF IInv, TypeOK
    <3>4. QED
      BY <1>b, <2>1, <3>1, <3>2, <3>3 DEF Gone
  <2>5. Contract!Break
    BY <2>2, <2>3, <2>4 DEF Contract!Break
  <2>6. QED
    BY <2>5 DEF Contract!Next
<1>7. ASSUME NEW p \in Process, Release(p) PROVE Contract!Release(p)
  <2>1. pc[p] = "held" /\ pc' = [pc EXCEPT ![p] = "idle"] /\ UNCHANGED <<life, creator, owner>>
        /\ lock' = IF Record = mine[p] THEN 0 ELSE lock
    BY <1>7 DEF Release, ReadRecord, Goto, QuietEnvironment
  <2>2. lock = mine[p] /\ lock # 0 /\ creator[lock] = p /\ owner[lock] = lock
    BY <2>1, OwnersRun DEF IInv, OwnersAreInPlace, Lock
  <2>3. lock' = 0
    BY <2>1, <2>2 DEF Record
  <2>4. Holder = {p} /\ Holder' = {}
    BY <1>b, <2>2, <2>3 DEF Record
  <2>5. p \in Inside /\ Inside' = Inside \ {p} /\ GoneProcesses' = GoneProcesses
    BY <1>a, <2>1
  <2>6. QED
    BY <2>4, <2>5 DEF Contract!Release
<1>8. ASSUME NEW p \in Process, Exit(p) PROVE Contract!Die(p)
  <2>1. Holder' = Holder
    BY <1>8 DEF Exit, dirVars, Record
  <2>2. Inside' = Inside \ {p} /\ GoneProcesses' = GoneProcesses \cup {p}
    BY <1>8, <1>a DEF Exit
  <2>3. QED
    BY <2>1, <2>2 DEF Contract!Die
<1>9. ASSUME NEW p \in Process, PutBack(p) PROVE FALSE
  BY <1>9 DEF PutBack, Goto, IInv, ProcessesAreSound
<1>10. CASE UNCHANGED vars
  BY <1>10 DEF vars, Contract!vars, Record
<1>11. QED
  BY <1>1, <1>2, <1>3, <1>4, <1>5, <1>6, <1>7, <1>8, <1>9, <1>10 DEF Next, Step, Contract!Next

\* So whoever works under the lock may take it to be an ExclusiveLock: recorded for
\* one process at a time, which alone is let in, and taken only from one that is gone.
THEOREM LockKeepsContract ==
  ASSUME QuietEnvironment
  PROVE  Spec => KeepsContract
<1>1. Init => Contract!Init
  BY DEF Init, Contract!Init, Record
<1>2. IInv /\ IInv' /\ [Next]_vars => [Contract!Next]_(Contract!vars)
  BY ContractStep
<1>3. QED
  BY <1>1, <1>2, Inductive, PTL DEF Spec, KeepsContract, Contract!Spec

\* Nor does a reclaim in such an environment ever move the lock of an owner that has
\* replaced the one it judged.
THEOREM ReplacementsNeverMoved ==
  ASSUME QuietEnvironment
  PROVE  Spec => ReplacementNeverMoved
<1> DEFINE MovesJudged(p) == IdentityAt(lock) = identity[p]
           LeftOnly == \A p \in Process :
             pc[p] = "rename" /\ pc'[p] \in {"mark", "verify"} =>
               /\ MovesJudged(p)
               /\ mine[creator[lock]] # lock
               /\ Record # 0 => ~ Running(creator[lock]) /\ SameHost(p, creator[lock])
           NoReplacement == \A p \in Process :
             pc[p] = "rename" /\ pc'[p] \in {"mark", "verify"} =>
               MovesJudged(p) \/ mine[creator[lock]] # lock
<1>1. [LeftOnly]_vars => [NoReplacement]_vars
  OBVIOUS
<1>2. [][LeftOnly]_vars => [][NoReplacement]_vars
  BY <1>1, PTL
<1>3. QED
  BY <1>2, SoundReclamation DEF OnlyAbandonedLocksMoved, ReplacementNeverMoved

===============================================================================
