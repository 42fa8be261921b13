-------------------------- MODULE RemoteTarget_proofs --------------------------
(***************************************************************************)
(* Proofs about RemoteTarget: the mutation guard of the catalog lets one   *)
(* machine write at a time, whoever is killed and whichever answers are    *)
(* lost, for any number of machines, builds and failures.                  *)
(***************************************************************************)
EXTENDS RemoteTarget, TLAPS

(***************************************************************************)
(* What a machine asks for, and what that does to the guard.               *)
(***************************************************************************)
Projections == {"metadata", "search", "tables", "archive", "objects"}
GuardedOps == Projections \cup {"free", "mark", "claim", "delete", "dropArchive", "dropObject",
                                "unclaim"}
Ops == GuardedOps \cup {"own", "switch", "stamp"}

\* How far a deployment is when it writes; an apply has the stages up to Written
\* to do.
CommandsAreSound ==
  /\ pc \in [Machine -> Steps]
  /\ DOMAIN task = Machine /\ DOMAIN done = Machine /\ DOMAIN deployed = Machine
  /\ \A m \in Machine :
       /\ pc[m] = "idle" => task[m] = "none" /\ done[m] = 0
       /\ pc[m] = "own" \/ Owning(m) => task[m] \in {"deploy", "prune"}
       /\ pc[m] \in {"inspect", "project"} => task[m] = "deploy"
       /\ pc[m] = "inspect" => done[m] < Projected
       /\ pc[m] = "project" => done[m] < Written
       /\ task[m] = "deploy" => done[m] \in 0..Activated
       /\ deployed[m] = None \/ deployed[m].done \in 0..Activated

\* A write by its kind: which ones a machine sends where.
LEMMA RequestsAreKnown ==
  ASSUME CommandsAreSound, NEW m \in Machine, NEW w \in Requests(m)
  PROVE  /\ w.by = m /\ w.op \in Ops
         /\ w.op = "own" <=> pc[m] = "own"
         /\ w.op = "free" <=> pc[m] = "free"
         /\ w.op \in GuardedOps <=> Owning(m)
<1> USE DEF Request, Ops, GuardedOps, Projections, Owning
<1>1. CASE pc[m] = "project"
  <2>1. w \in StageRequests(m)
    BY <1>1 DEF Requests
  <2>2. done[m] \in 0..4
    BY <1>1 DEF CommandsAreSound, Written, Activated
  <2>3. Stage(m) \in Projections
    BY <2>2 DEF Stage, Stages
  <2>4. CASE Stage(m) = "archive"
    BY <1>1, <2>1, <2>4 DEF StageRequests
  <2>5. CASE Stage(m) = "objects"
    BY <1>1, <2>1, <2>5 DEF StageRequests
  <2>6. CASE Stage(m) \notin {"archive", "objects"}
    BY <1>1, <2>1, <2>3, <2>6 DEF StageRequests
  <2>7. QED
    BY <2>4, <2>5, <2>6
<1>2. CASE pc[m] = "rows"
  <2>1. w.op = "delete" /\ w.by = m
    BY <1>2 DEF Requests, Deletions
  <2>2. QED
    BY <1>2, <2>1
<1>3. CASE pc[m] = "switch"
  BY <1>3 DEF Requests, Switch
<1>4. CASE pc[m] = "own"
  BY <1>4 DEF Requests
<1>5. CASE pc[m] \in {"mark", "stamp"}
  BY <1>5 DEF Requests
<1>6. CASE pc[m] \in {"claim", "unclaim"}
  BY <1>6 DEF Requests
<1>7. CASE pc[m] = "archives"
  BY <1>7 DEF Requests
<1>8. CASE pc[m] = "objects"
  BY <1>8 DEF Requests
<1>9. CASE pc[m] = "free"
  BY <1>9 DEF Requests
<1>10. CASE pc[m] \notin {"own", "project", "mark", "stamp", "switch", "claim", "unclaim", "rows",
                         "archives", "objects", "free"}
  BY <1>10 DEF Requests
<1>11. QED
  BY <1>1, <1>2, <1>3, <1>4, <1>5, <1>6, <1>7, <1>8, <1>9, <1>10

\* Only an INSERT of the guard and a DELETE by its owner change it.
LEMMA LandingKeepsGuard ==
  ASSUME NEW r, "guard" \in DOMAIN r, NEW w, w.op \in Ops
  PROVE  /\ "guard" \in DOMAIN Landed(r, w)
         /\ w.op = "own" =>
              Landed(r, w).guard = IF r.guard = Free
                                     THEN [kind |-> w.what, build |-> w.build, by |-> w.by]
                                     ELSE r.guard
         /\ w.op = "free" => Landed(r, w).guard = IF r.guard.by = w.by THEN Free ELSE r.guard
         /\ w.op \notin {"own", "free"} => Landed(r, w).guard = r.guard
<1> USE DEF Landed
<1>1. CASE w.op = "own"
  BY <1>1 DEF Own
<1>2. CASE w.op = "free"
  BY <1>2 DEF Release
<1>3. CASE w.op = "metadata"
  BY <1>3 DEF ProjectMetadata
<1>4. CASE w.op \in {"search", "tables"}
  BY <1>4 DEF ProjectPart
<1>5. CASE w.op = "archive"
  BY <1>5 DEF PutArchive
<1>6. CASE w.op = "objects"
  BY <1>6 DEF PutObject
<1>7. CASE w.op \in {"mark", "stamp"}
  BY <1>7 DEF MarkVerified
<1>8. CASE w.op = "switch"
  BY <1>8 DEF MovePointer
<1>9. CASE w.op = "claim"
  BY <1>9 DEF InsertClaim
<1>10. CASE w.op = "delete"
  BY <1>10 DEF DeletePart
<1>11. CASE w.op = "dropArchive"
  BY <1>11 DEF DeleteArchive
<1>12. CASE w.op = "dropObject"
  BY <1>12 DEF DeleteObject
<1>13. CASE w.op = "unclaim"
  BY <1>13 DEF DeleteClaim
<1>14. QED
  BY <1>1, <1>2, <1>3, <1>4, <1>5, <1>6, <1>7, <1>8, <1>9, <1>10, <1>11, <1>12, <1>13
     DEF Ops, GuardedOps, Projections


LEMMA CommandsStep ==
  ASSUME CommandsAreSound, [Next]_vars
  PROVE  CommandsAreSound'
<1> USE ConstantsAssumption
    DEF CommandsAreSound, Owning, Steps, Written, Projected, Verified, Activated
<1>1. ASSUME NEW m \in Machine, NEW b \in Build, Deploy(m, b) PROVE CommandsAreSound'
  BY <1>1 DEF Deploy, Start, Go, machineVars, receipts
<1>2. ASSUME NEW m \in Machine, NEW b \in Build, RollbackTo(m, b) PROVE CommandsAreSound'
  BY <1>2 DEF RollbackTo, Start, Go, machineVars, receipts
<1>3. ASSUME NEW m \in Machine, ResumeDeploy(m) PROVE CommandsAreSound'
  BY <1>3 DEF ResumeDeploy, Start, Go, machineVars, receipts
<1>4. ASSUME NEW m \in Machine, RollbackToPrevious(m) PROVE CommandsAreSound'
  BY <1>4 DEF RollbackToPrevious, Start, Go, machineVars, receipts
<1>5. ASSUME NEW m \in Machine, Prune(m) PROVE CommandsAreSound'
  BY <1>5 DEF Prune, Start, Go, machineVars, receipts
<1>6. ASSUME NEW m \in Machine, ResumePrune(m) PROVE CommandsAreSound'
  BY <1>6 DEF ResumePrune, Start, Go, machineVars, receipts
<1>7. ASSUME NEW m \in Machine, Refused(m) PROVE CommandsAreSound'
  BY <1>7 DEF Refused, SaveError, SaveDeploy, SaveCleanup, Stop, Go, At, machineVars, receipts
<1>8. ASSUME NEW m \in Machine, Acquire(m) PROVE CommandsAreSound'
  BY <1>8 DEF Acquire, Go, At, Phase, machineVars, receipts
<1>9. ASSUME NEW m \in Machine, Inspect(m) PROVE CommandsAreSound'
  BY <1>9 DEF Inspect, Go, At, machineVars, receipts
<1>10. ASSUME NEW m \in Machine, Project(m) PROVE CommandsAreSound'
  BY <1>10 DEF Project, Advance, Go, At, machineVars, receipts
<1>11. ASSUME NEW m \in Machine, Skip(m) PROVE CommandsAreSound'
  BY <1>11 DEF Skip, Advance, Go, At, machineVars, receipts
<1>12. ASSUME NEW m \in Machine, Smoke(m) PROVE CommandsAreSound'
  BY <1>12 DEF Smoke, Go, At, machineVars, receipts
<1>13. ASSUME NEW m \in Machine, Mark(m) PROVE CommandsAreSound'
  BY <1>13 DEF Mark, Go, At, machineVars, receipts
<1>14. ASSUME NEW m \in Machine, FreeGuard(m) PROVE CommandsAreSound'
  <2>1. CASE failed[m] # "no"
    BY <1>14, <2>1 DEF FreeGuard, SaveError, SaveDeploy, SaveCleanup, Stop, Go, receipts
  <2>2. CASE failed[m] = "no" /\ task[m] = "prune"
    BY <1>14, <2>2 DEF FreeGuard, SaveApplied, Stop, Go
  <2>3. CASE failed[m] = "no" /\ task[m] # "prune"
    <3> DEFINE reached == IF done[m] = Written THEN Projected ELSE Verified
    <3>1. /\ done' = [done EXCEPT ![m] = reached]
          /\ deployed' = [deployed EXCEPT ![m] = [build |-> target[m], done |-> done'[m]]]
          /\ pc' = [pc EXCEPT ![m] = IF done[m] = Written THEN "own" ELSE "pointer"]
          /\ UNCHANGED task
      BY <1>14, <2>3 DEF FreeGuard, SaveDeploy, Go
    <3>2. done'[m] = reached /\ reached \in 0..Activated
      BY <3>1
    <3>3. deployed'[m].done = reached
      BY <3>1, <3>2
    <3>4. task[m] = "deploy"
      BY <1>14, <2>3 DEF FreeGuard, At
    <3>5. QED
      BY <3>1, <3>2, <3>3, <3>4
  <2>4. QED
    BY <2>1, <2>2, <2>3
<1>15. ASSUME NEW m \in Machine, ReadPointer(m) PROVE CommandsAreSound'
  BY <1>15 DEF ReadPointer, Stop, Go, At, machineVars, receipts
<1>16. ASSUME NEW m \in Machine, MoveTo(m) PROVE CommandsAreSound'
  BY <1>16 DEF MoveTo, Stop, Go, At, machineVars, receipts
<1>17. ASSUME NEW m \in Machine, Stamp(m) PROVE CommandsAreSound'
  BY <1>17 DEF Stamp, SaveDeploy, Stop, Go, At, machineVars, receipts
<1>18. ASSUME NEW m \in Machine, Claim(m) PROVE CommandsAreSound'
  BY <1>18 DEF Claim, At, machineVars, receipts
<1>19. ASSUME NEW m \in Machine, Narrow(m) PROVE CommandsAreSound'
  BY <1>19 DEF Narrow, Go, At, machineVars, receipts
<1>20. ASSUME NEW m \in Machine, DeleteRows(m) PROVE CommandsAreSound'
  BY <1>20 DEF DeleteRows, At, machineVars, receipts
<1>21. ASSUME NEW m \in Machine, RowsGone(m) PROVE CommandsAreSound'
  BY <1>21 DEF RowsGone, Go, At, CatalogGone, machineVars, receipts
<1>22. ASSUME NEW m \in Machine, Recheck(m) PROVE CommandsAreSound'
  BY <1>22 DEF Recheck, Go, At, machineVars, receipts
<1>23. ASSUME NEW m \in Machine, DeleteKeys(m) PROVE CommandsAreSound'
  BY <1>23 DEF DeleteKeys, machineVars, receipts
<1>24. ASSUME NEW m \in Machine, KeysGone(m) PROVE CommandsAreSound'
  BY <1>24 DEF KeysGone, Go, At, ArchivesGone, ObjectsGone, machineVars, receipts
<1>25. ASSUME NEW m \in Machine, Unclaim(m) PROVE CommandsAreSound'
  BY <1>25 DEF Unclaim, At, machineVars, receipts
<1>26. ASSUME NEW m \in Machine, Unclaimed(m) PROVE CommandsAreSound'
  BY <1>26 DEF Unclaimed, Go, At, machineVars, receipts
<1>27. ASSUME NEW m \in Machine, Kill(m) PROVE CommandsAreSound'
  BY <1>27 DEF Kill, Stop, Go, machineVars, receipts
<1>28. ASSUME NEW m \in Machine, LoseAnswer(m) PROVE CommandsAreSound'
  BY <1>28 DEF LoseAnswer, SaveError, SaveDeploy, SaveCleanup, Stop, Go, machineVars, receipts
<1>29. ASSUME NEW m \in Machine, FailRead(m) PROVE CommandsAreSound'
  BY <1>29 DEF FailRead, Go, At, machineVars, receipts
<1>30. ASSUME LateWriteLands PROVE CommandsAreSound'
  BY <1>30 DEF LateWriteLands, machineVars, receipts
<1>31. ASSUME LateWriteIsLost PROVE CommandsAreSound'
  BY <1>31 DEF LateWriteIsLost, machineVars, receipts
<1>32. ASSUME OperatorFreesGuard PROVE CommandsAreSound'
  BY <1>32 DEF OperatorFreesGuard, machineVars, receipts
<1>33. ASSUME NEW r \in Reader, NEW b \in Build, StartRead(r, b) PROVE CommandsAreSound'
  BY <1>33 DEF StartRead, machineVars, receipts
<1>34. ASSUME NEW r \in Reader, EndRead(r) PROVE CommandsAreSound'
  BY <1>34 DEF EndRead, machineVars, receipts
<1>35. CASE UNCHANGED vars
  BY <1>35 DEF vars, machineVars, receipts
<1>36. QED
  BY <1>1, <1>2, <1>3, <1>4, <1>5, <1>6, <1>7, <1>8, <1>9, <1>10, <1>11, <1>12, <1>13, <1>14,
     <1>15, <1>16, <1>17, <1>18, <1>19, <1>20, <1>21, <1>22, <1>23, <1>24, <1>25, <1>26, <1>27,
     <1>28, <1>29, <1>30, <1>31, <1>32, <1>33, <1>34, <1>35 DEF Next, Command, Step, Trouble

(***************************************************************************)
(* The guard.                                                              *)
(***************************************************************************)
Guarded(w) == w.op \in GuardedOps

\* Whoever owns the guard has its row; of the writes without an answer that need
\* it there is at most one, its owner's, who does not write any more.
GuardIsSound ==
  /\ "guard" \in DOMAIN remote
  /\ remote.guard = Free \/ remote.guard.by \in Machine
  /\ \A m \in Machine : Owning(m) => remote.guard.by = m
  /\ \A w \in late : w.op \in Ops /\ w.by \in Machine
  /\ \A w \in late : Guarded(w) => remote.guard.by = w.by /\ ~Owning(w.by)
  /\ \A v, w \in late : Guarded(v) /\ Guarded(w) => v = w

\* A step of one machine that writes nothing but what leaves the guard alone.
LEMMA OwnersStay ==
  ASSUME GuardIsSound, "guard" \in DOMAIN remote', remote'.guard = remote.guard, late' \subseteq late,
         \A m \in Machine : Owning(m)' <=> Owning(m)
  PROVE  GuardIsSound'
BY DEF GuardIsSound, Guarded

\* The requests of the owner leave the guard alone, but for its release.
LEMMA OwnersWrites ==
  ASSUME CommandsAreSound, GuardIsSound, NEW m \in Machine, pc[m] \notin {"own", "free"},
         \E w \in Requests(m) : Send(w)
  PROVE  "guard" \in DOMAIN remote' /\ remote'.guard = remote.guard
<1>1. PICK w \in Requests(m) : Send(w)
  OBVIOUS
<1>2. w.op \in Ops /\ w.op \notin {"own", "free"}
  BY RequestsAreKnown
<1>3. "guard" \in DOMAIN remote
  BY DEF GuardIsSound
<1>4. "guard" \in DOMAIN Landed(remote, w) /\ Landed(remote, w).guard = remote.guard
  BY <1>2, <1>3, LandingKeepsGuard
<1>5. QED
  BY <1>1, <1>4 DEF Send

\* A machine that stops, leaving at most one of its requests behind.
LEMMA StoppingIsSound ==
  ASSUME CommandsAreSound, GuardIsSound, NEW m \in Machine, UNCHANGED remote,
         pc' = [pc EXCEPT ![m] = "idle"],
         late' = late \/ \E w \in Requests(m) : late' = late \cup {w}
  PROVE  GuardIsSound'
<1>1. ~Owning(m)' /\ \A q \in Machine : q # m => (Owning(q)' <=> Owning(q))
  BY DEF CommandsAreSound, Owning
<1>2. CASE late' = late
  BY <1>1, <1>2 DEF GuardIsSound, Guarded
<1>3. ASSUME NEW w \in Requests(m), late' = late \cup {w} PROVE GuardIsSound'
  <2>1. w.by = m /\ w.op \in Ops /\ (Guarded(w) <=> Owning(m))
    BY RequestsAreKnown DEF Guarded
  <2>2. Guarded(w) => remote.guard.by = m /\ \A v \in late : ~Guarded(v)
    BY <2>1 DEF GuardIsSound
  <2>3. QED
    BY <1>1, <1>3, <2>1, <2>2 DEF GuardIsSound, Guarded
<1>4. QED
  BY <1>2, <1>3

LEMMA GuardStep ==
  ASSUME CommandsAreSound, GuardIsSound, [Next]_vars
  PROVE  GuardIsSound'
<1> USE ConstantsAssumption
<1>1. ASSUME NEW m \in Machine, NEW b \in Build, Deploy(m, b) PROVE GuardIsSound'
  <2>1. UNCHANGED <<remote, late>> /\ \A q \in Machine : Owning(q)' <=> Owning(q)
    BY <1>1 DEF Deploy, Start, Go, Owning, CommandsAreSound, machineVars
  <2>2. QED
    BY <2>1, OwnersStay DEF GuardIsSound
<1>2. ASSUME NEW m \in Machine, NEW b \in Build, RollbackTo(m, b) PROVE GuardIsSound'
  <2>1. UNCHANGED <<remote, late>> /\ \A q \in Machine : Owning(q)' <=> Owning(q)
    BY <1>2 DEF RollbackTo, Start, Go, Owning, CommandsAreSound, machineVars
  <2>2. QED
    BY <2>1, OwnersStay DEF GuardIsSound
<1>3. ASSUME NEW m \in Machine, ResumeDeploy(m) PROVE GuardIsSound'
  <2>1. UNCHANGED <<remote, late>> /\ \A q \in Machine : Owning(q)' <=> Owning(q)
    BY <1>3 DEF ResumeDeploy, Start, Go, Owning, CommandsAreSound, machineVars
  <2>2. QED
    BY <2>1, OwnersStay DEF GuardIsSound
<1>4. ASSUME NEW m \in Machine, RollbackToPrevious(m) PROVE GuardIsSound'
  <2>1. UNCHANGED <<remote, late>> /\ \A q \in Machine : Owning(q)' <=> Owning(q)
    BY <1>4 DEF RollbackToPrevious, Start, Go, Owning, CommandsAreSound, machineVars
  <2>2. QED
    BY <2>1, OwnersStay DEF GuardIsSound
<1>5. ASSUME NEW m \in Machine, Prune(m) PROVE GuardIsSound'
  <2>1. UNCHANGED <<remote, late>> /\ \A q \in Machine : Owning(q)' <=> Owning(q)
    BY <1>5 DEF Prune, Start, Go, Owning, CommandsAreSound, machineVars
  <2>2. QED
    BY <2>1, OwnersStay DEF GuardIsSound
<1>6. ASSUME NEW m \in Machine, ResumePrune(m) PROVE GuardIsSound'
  <2>1. UNCHANGED <<remote, late>> /\ \A q \in Machine : Owning(q)' <=> Owning(q)
    BY <1>6 DEF ResumePrune, Start, Go, Owning, CommandsAreSound, machineVars
  <2>2. QED
    BY <2>1, OwnersStay DEF GuardIsSound
<1>7. ASSUME NEW m \in Machine, Refused(m) PROVE GuardIsSound'
  <2>1. UNCHANGED <<remote, late>> /\ \A q \in Machine : Owning(q)' <=> Owning(q)
    BY <1>7 DEF Refused, SaveError, SaveDeploy, SaveCleanup, Stop, Go, At, Owning,
       CommandsAreSound, machineVars
  <2>2. QED
    BY <2>1, OwnersStay DEF GuardIsSound
<1>8. ASSUME NEW m \in Machine, Acquire(m) PROVE GuardIsSound'
  <2>1. pc[m] = "own" /\ remote.guard = Free /\ UNCHANGED late
    BY <1>8 DEF Acquire, At
  <2>2. remote'.guard.by = m /\ "guard" \in DOMAIN remote'
    <3>1. PICK w \in Requests(m) : Send(w)
      BY <1>8 DEF Acquire
    <3>2. w.by = m /\ w.op = "own" /\ w.op \in Ops
      BY <2>1, <3>1, RequestsAreKnown
    <3>3. QED
      <4>1. /\ "guard" \in DOMAIN Landed(remote, w)
            /\ Landed(remote, w).guard = [kind |-> w.what, build |-> w.build, by |-> w.by]
        BY <2>1, <3>2, LandingKeepsGuard DEF GuardIsSound
      <4>2. QED
        BY <3>1, <3>2, <4>1 DEF Send
  <2>3. /\ \A q \in Machine : ~Owning(q)
        /\ \A w \in late : ~Guarded(w)
    BY <2>1, ConstantsAssumption DEF GuardIsSound, Free
  <2>4. \A q \in Machine : q # m => pc'[q] = pc[q]
    BY <1>8 DEF Acquire, Go, CommandsAreSound
  <2>5. \A q \in Machine : q # m => ~Owning(q)'
    BY <2>3, <2>4 DEF Owning
  <2>6. QED
    BY <2>1, <2>2, <2>3, <2>5 DEF GuardIsSound, Guarded
<1>9. ASSUME NEW m \in Machine, Inspect(m) PROVE GuardIsSound'
  <2>1. UNCHANGED <<remote, late>> /\ \A q \in Machine : Owning(q)' <=> Owning(q)
    BY <1>9 DEF Inspect, Go, At, Owning, CommandsAreSound, machineVars
  <2>2. QED
    BY <2>1, OwnersStay DEF GuardIsSound
<1>10. ASSUME NEW m \in Machine, Project(m) PROVE GuardIsSound'
  <2>1. UNCHANGED late /\ \A q \in Machine : Owning(q)' <=> Owning(q)
    BY <1>10 DEF Project, Advance, Go, At, Owning, CommandsAreSound, machineVars
  <2>2. pc[m] \notin {"own", "free"} /\ \E w \in Requests(m) : Send(w)
    BY <1>10 DEF Project, At
  <2>3. QED
    BY <2>1, <2>2, OwnersStay, OwnersWrites
<1>11. ASSUME NEW m \in Machine, Skip(m) PROVE GuardIsSound'
  <2>1. UNCHANGED <<remote, late>> /\ \A q \in Machine : Owning(q)' <=> Owning(q)
    BY <1>11 DEF Skip, Advance, Go, At, Owning, CommandsAreSound, machineVars
  <2>2. QED
    BY <2>1, OwnersStay DEF GuardIsSound
<1>12. ASSUME NEW m \in Machine, Smoke(m) PROVE GuardIsSound'
  <2>1. UNCHANGED <<remote, late>> /\ \A q \in Machine : Owning(q)' <=> Owning(q)
    BY <1>12 DEF Smoke, Go, At, Owning, CommandsAreSound, machineVars
  <2>2. QED
    BY <2>1, OwnersStay DEF GuardIsSound
<1>13. ASSUME NEW m \in Machine, Mark(m) PROVE GuardIsSound'
  <2>1. UNCHANGED late /\ \A q \in Machine : Owning(q)' <=> Owning(q)
    BY <1>13 DEF Mark, Go, At, Owning, CommandsAreSound, machineVars
  <2>2. pc[m] \notin {"own", "free"} /\ \E w \in Requests(m) : Send(w)
    BY <1>13 DEF Mark, At
  <2>3. QED
    BY <2>1, <2>2, OwnersStay, OwnersWrites
<1>14. ASSUME NEW m \in Machine, FreeGuard(m) PROVE GuardIsSound'
  <2>1. pc[m] = "free" /\ UNCHANGED late
    BY <1>14 DEF FreeGuard, At
  <2>2. remote.guard.by = m
    BY <2>1 DEF GuardIsSound, Owning
  <2>3. remote'.guard = Free /\ "guard" \in DOMAIN remote'
    <3>1. PICK w \in Requests(m) : Send(w)
      BY <1>14 DEF FreeGuard
    <3>2. w.by = m /\ w.op = "free" /\ w.op \in Ops
      BY <2>1, <3>1, RequestsAreKnown
    <3>3. QED
      <4>1. "guard" \in DOMAIN Landed(remote, w) /\ Landed(remote, w).guard = Free
        <5>1. "guard" \in DOMAIN remote
          BY DEF GuardIsSound
        <5>2. "guard" \in DOMAIN Landed(remote, w)
          BY <3>2, <5>1, LandingKeepsGuard
        <5>3. w.op = "free" =>
                Landed(remote, w).guard = IF remote.guard.by = w.by THEN Free ELSE remote.guard
          BY <3>2, <5>1, LandingKeepsGuard
        <5>4. QED
          BY <2>2, <3>2, <5>2, <5>3
      <4>2. QED
        BY <3>1, <4>1 DEF Send
  <2>4. \A w \in late : ~Guarded(w)
    BY <2>1, <2>2 DEF GuardIsSound, Owning
  <2>5. \A q \in Machine : ~Owning(q)'
    <3>1. pc' = [pc EXCEPT ![m] = pc'[m]] /\ pc'[m] \in {"idle", "own", "pointer"}
      BY <1>14 DEF FreeGuard, Stop, Go, CommandsAreSound
    <3>2. QED
      BY <2>2, <3>1 DEF GuardIsSound, Owning, CommandsAreSound
  <2>6. QED
    BY <2>1, <2>3, <2>4, <2>5 DEF GuardIsSound, Guarded
<1>15. ASSUME NEW m \in Machine, ReadPointer(m) PROVE GuardIsSound'
  <2>1. UNCHANGED <<remote, late>> /\ \A q \in Machine : Owning(q)' <=> Owning(q)
    BY <1>15 DEF ReadPointer, Stop, Go, At, Owning, CommandsAreSound, machineVars
  <2>2. QED
    BY <2>1, OwnersStay DEF GuardIsSound
<1>16. ASSUME NEW m \in Machine, MoveTo(m) PROVE GuardIsSound'
  <2>1. UNCHANGED late /\ \A q \in Machine : Owning(q)' <=> Owning(q)
    BY <1>16 DEF MoveTo, Stop, Go, At, Owning, CommandsAreSound
  <2>2. Switch(m) \in Requests(m) /\ pc[m] = "switch"
    BY <1>16 DEF MoveTo, At, Requests
  <2>3. QED
    BY <1>16, <2>1, <2>2, OwnersStay, OwnersWrites DEF MoveTo
<1>17. ASSUME NEW m \in Machine, Stamp(m) PROVE GuardIsSound'
  <2>1. UNCHANGED late /\ \A q \in Machine : Owning(q)' <=> Owning(q)
    BY <1>17 DEF Stamp, SaveDeploy, Stop, Go, At, Owning, CommandsAreSound, machineVars
  <2>2. pc[m] \notin {"own", "free"} /\ \E w \in Requests(m) : Send(w)
    BY <1>17 DEF Stamp, At
  <2>3. QED
    BY <2>1, <2>2, OwnersStay, OwnersWrites
<1>18. ASSUME NEW m \in Machine, Claim(m) PROVE GuardIsSound'
  <2>1. UNCHANGED late /\ \A q \in Machine : Owning(q)' <=> Owning(q)
    BY <1>18 DEF Claim, At, Owning, CommandsAreSound, machineVars
  <2>2. pc[m] \notin {"own", "free"} /\ \E w \in Requests(m) : Send(w)
    BY <1>18 DEF Claim, At
  <2>3. QED
    BY <2>1, <2>2, OwnersStay, OwnersWrites
<1>19. ASSUME NEW m \in Machine, Narrow(m) PROVE GuardIsSound'
  <2>1. UNCHANGED <<remote, late>> /\ \A q \in Machine : Owning(q)' <=> Owning(q)
    BY <1>19 DEF Narrow, Go, At, Owning, CommandsAreSound, machineVars
  <2>2. QED
    BY <2>1, OwnersStay DEF GuardIsSound
<1>20. ASSUME NEW m \in Machine, DeleteRows(m) PROVE GuardIsSound'
  <2>1. UNCHANGED late /\ \A q \in Machine : Owning(q)' <=> Owning(q)
    BY <1>20 DEF DeleteRows, At, Owning, CommandsAreSound, machineVars
  <2>2. pc[m] \notin {"own", "free"} /\ \E w \in Requests(m) : Send(w)
    BY <1>20 DEF DeleteRows, At
  <2>3. QED
    BY <2>1, <2>2, OwnersStay, OwnersWrites
<1>21. ASSUME NEW m \in Machine, RowsGone(m) PROVE GuardIsSound'
  <2>1. UNCHANGED <<remote, late>> /\ \A q \in Machine : Owning(q)' <=> Owning(q)
    BY <1>21 DEF RowsGone, Go, At, Owning, CommandsAreSound, machineVars
  <2>2. QED
    BY <2>1, OwnersStay DEF GuardIsSound
<1>22. ASSUME NEW m \in Machine, Recheck(m) PROVE GuardIsSound'
  <2>1. UNCHANGED <<remote, late>> /\ \A q \in Machine : Owning(q)' <=> Owning(q)
    BY <1>22 DEF Recheck, Go, At, Owning, CommandsAreSound, machineVars
  <2>2. QED
    BY <2>1, OwnersStay DEF GuardIsSound
<1>23. ASSUME NEW m \in Machine, DeleteKeys(m) PROVE GuardIsSound'
  <2>1. UNCHANGED late /\ \A q \in Machine : Owning(q)' <=> Owning(q)
    BY <1>23 DEF DeleteKeys, Owning, CommandsAreSound, machineVars
  <2>2. pc[m] \notin {"own", "free"} /\ \E w \in Requests(m) : Send(w)
    BY <1>23 DEF DeleteKeys, At
  <2>3. QED
    BY <2>1, <2>2, OwnersStay, OwnersWrites
<1>24. ASSUME NEW m \in Machine, KeysGone(m) PROVE GuardIsSound'
  <2>1. UNCHANGED <<remote, late>> /\ \A q \in Machine : Owning(q)' <=> Owning(q)
    BY <1>24 DEF KeysGone, Go, At, Owning, CommandsAreSound, machineVars
  <2>2. QED
    BY <2>1, OwnersStay DEF GuardIsSound
<1>25. ASSUME NEW m \in Machine, Unclaim(m) PROVE GuardIsSound'
  <2>1. UNCHANGED late /\ \A q \in Machine : Owning(q)' <=> Owning(q)
    BY <1>25 DEF Unclaim, At, Owning, CommandsAreSound, machineVars
  <2>2. pc[m] \notin {"own", "free"} /\ \E w \in Requests(m) : Send(w)
    BY <1>25 DEF Unclaim, At
  <2>3. QED
    BY <2>1, <2>2, OwnersStay, OwnersWrites
<1>26. ASSUME NEW m \in Machine, Unclaimed(m) PROVE GuardIsSound'
  <2>1. UNCHANGED <<remote, late>> /\ \A q \in Machine : Owning(q)' <=> Owning(q)
    BY <1>26 DEF Unclaimed, Go, At, Owning, CommandsAreSound, machineVars
  <2>2. QED
    BY <2>1, OwnersStay DEF GuardIsSound
<1>27. ASSUME NEW m \in Machine, Kill(m) PROVE GuardIsSound'
  <2>1. pc' = [pc EXCEPT ![m] = "idle"] /\ UNCHANGED remote
    BY <1>27 DEF Kill, Stop, Go
  <2>2. late' = late \/ \E w \in Requests(m) : late' = late \cup {w}
    BY <1>27 DEF Kill, MayLandLate
  <2>3. QED
    BY <2>1, <2>2, StoppingIsSound
<1>28. ASSUME NEW m \in Machine, LoseAnswer(m) PROVE GuardIsSound'
  <2>1. pc' = [pc EXCEPT ![m] = "idle"] /\ UNCHANGED remote
    BY <1>28 DEF LoseAnswer, Stop, Go
  <2>2. late' = late \/ \E w \in Requests(m) : late' = late \cup {w}
    BY <1>28 DEF LoseAnswer
  <2>3. QED
    BY <2>1, <2>2, StoppingIsSound
<1>29. ASSUME NEW m \in Machine, FailRead(m) PROVE GuardIsSound'
  <2>1. UNCHANGED <<remote, late>> /\ \A q \in Machine : Owning(q)' <=> Owning(q)
    BY <1>29 DEF FailRead, Go, At, Owning, CommandsAreSound, machineVars
  <2>2. QED
    BY <2>1, OwnersStay DEF GuardIsSound
<1>30. ASSUME LateWriteLands PROVE GuardIsSound'
  <2>1. PICK w \in late : Send(w) /\ late' = late \ {w} /\ UNCHANGED machineVars
    BY <1>30 DEF LateWriteLands
  <2>2. /\ w.op \in Ops /\ w.by \in Machine /\ "guard" \in DOMAIN remote'
        /\ w.op = "own" =>
             remote'.guard = IF remote.guard = Free
                               THEN [kind |-> w.what, build |-> w.build, by |-> w.by]
                               ELSE remote.guard
        /\ w.op = "free" =>
             remote'.guard = IF remote.guard.by = w.by THEN Free ELSE remote.guard
        /\ w.op \notin {"own", "free"} => remote'.guard = remote.guard
        /\ \A m \in Machine : Owning(m)' <=> Owning(m)
    <3>1. w.op \in Ops /\ w.by \in Machine /\ "guard" \in DOMAIN remote
      BY <2>1 DEF GuardIsSound
    <3>2. /\ "guard" \in DOMAIN Landed(remote, w)
          /\ w.op = "own" =>
               Landed(remote, w).guard = IF remote.guard = Free
                                           THEN [kind |-> w.what, build |-> w.build, by |-> w.by]
                                           ELSE remote.guard
          /\ w.op = "free" =>
               Landed(remote, w).guard = IF remote.guard.by = w.by THEN Free ELSE remote.guard
          /\ w.op \notin {"own", "free"} => Landed(remote, w).guard = remote.guard
      BY <3>1, LandingKeepsGuard
    <3>3. remote' = Landed(remote, w)
      BY <2>1 DEF Send
    <3>4. \A m \in Machine : Owning(m)' <=> Owning(m)
      BY <2>1 DEF machineVars, Owning
    <3>5. QED
      BY <3>1, <3>2, <3>3, <3>4
  <2>3. CASE w.op = "own" /\ remote.guard = Free
    <3>1. remote'.guard = [kind |-> w.what, build |-> w.build, by |-> w.by]
      BY <2>2, <2>3
    <3>2. /\ \A m \in Machine : ~Owning(m)
          /\ \A v \in late : ~Guarded(v)
      BY <2>3, ConstantsAssumption DEF GuardIsSound, Free
    <3>3. QED
      BY <2>1, <2>2, <3>1, <3>2 DEF GuardIsSound, Guarded
  <2>4. CASE w.op = "free"
    <3>1. remote'.guard = Free /\ Guarded(w) /\ remote.guard.by = w.by /\ ~Owning(w.by)
      <4>1. Guarded(w)
        BY <2>4 DEF Guarded, GuardedOps
      <4>2. remote.guard.by = w.by /\ ~Owning(w.by)
        BY <2>1, <4>1 DEF GuardIsSound
      <4>3. QED
        BY <2>2, <2>4, <4>1, <4>2
    <3>2. /\ \A m \in Machine : ~Owning(m)
          /\ \A v \in late' : ~Guarded(v)
      BY <2>1, <3>1 DEF GuardIsSound
    <3>3. QED
      BY <2>1, <2>2, <3>1, <3>2 DEF GuardIsSound, Guarded
  <2>5. CASE w.op # "free" /\ ~(w.op = "own" /\ remote.guard = Free)
    <3>1. remote'.guard = remote.guard
      BY <2>2, <2>5
    <3>2. QED
      BY <2>1, <2>2, <3>1, OwnersStay
  <2>6. QED
    BY <2>3, <2>4, <2>5
<1>31. ASSUME LateWriteIsLost PROVE GuardIsSound'
  BY <1>31, OwnersStay DEF LateWriteIsLost, GuardIsSound, machineVars, Owning
<1>32. ASSUME OperatorFreesGuard PROVE GuardIsSound'
  <2>1. \A m \in Machine : ~Owning(m)
    BY <1>32 DEF OperatorFreesGuard, GuardIsSound
  <2>2. /\ late' = {} /\ "guard" \in DOMAIN remote' /\ remote'.guard = Free
        /\ \A m \in Machine : ~Owning(m)'
    BY <1>32, <2>1 DEF OperatorFreesGuard, GuardIsSound, machineVars, Owning
  <2>3. QED
    BY <2>2 DEF GuardIsSound
<1>33. ASSUME NEW r \in Reader, NEW b \in Build, StartRead(r, b) PROVE GuardIsSound'
  BY <1>33, OwnersStay DEF StartRead, GuardIsSound, machineVars, Owning
<1>34. ASSUME NEW r \in Reader, EndRead(r) PROVE GuardIsSound'
  BY <1>34, OwnersStay DEF EndRead, GuardIsSound, machineVars, Owning
<1>35. CASE UNCHANGED vars
  BY <1>35 DEF vars, machineVars, Owning, GuardIsSound, Guarded
<1>36. QED
  BY <1>1, <1>2, <1>3, <1>4, <1>5, <1>6, <1>7, <1>8, <1>9, <1>10, <1>11, <1>12, <1>13, <1>14,
     <1>15, <1>16, <1>17, <1>18, <1>19, <1>20, <1>21, <1>22, <1>23, <1>24, <1>25, <1>26, <1>27,
     <1>28, <1>29, <1>30, <1>31, <1>32, <1>33, <1>34, <1>35 DEF Next, Command, Step, Trouble

LEMMA WriterInvariance == Spec => [](CommandsAreSound /\ GuardIsSound)
<1>1. Init => CommandsAreSound
  BY DEF Init, CommandsAreSound, Owning, Steps, Activated
<1>2. Init => GuardIsSound
  BY DEF Init, GuardIsSound, Owning
<1>3. CommandsAreSound /\ GuardIsSound /\ [Next]_vars => (CommandsAreSound /\ GuardIsSound)'
  BY CommandsStep, GuardStep
<1>4. QED
  BY <1>1, <1>2, <1>3, PTL DEF Spec

\* The row that INSERT OR IGNORE puts into the catalog and only its owner, or an
\* operator, deletes lets one machine write at a time; a write that lost its
\* answer keeps everybody else out, however many machines are killed meanwhile.
THEOREM OneRemoteWriterAlways == Spec => []OneRemoteWriter
<1>1. GuardIsSound => OneRemoteWriter
  BY DEF GuardIsSound, OneRemoteWriter, Guarded, Ops
<1>2. QED
  BY <1>1, WriterInvariance, PTL

=============================================================================
