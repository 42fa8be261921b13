------------------------- MODULE RemoteRetention_proofs -------------------------
(***************************************************************************)
(* Proofs about RemoteTarget: what may go live or be read is whole, a      *)
(* deploy receipt never says more than what happened, and the target       *)
(* implements BuildRegistry, for any number of machines, builds, objects   *)
(* and failures.                                                           *)
(***************************************************************************)
EXTENDS RemoteTarget_proofs

(***************************************************************************)
(* Types: what a write carries, and what a command has at hand where.      *)
(***************************************************************************)
OfBuilds == {"metadata", "search", "tables", "archive", "mark", "stamp", "switch", "claim",
             "delete", "dropArchive", "unclaim"}

WriteTyped(w) ==
  /\ w.op \in Ops /\ w.by \in Machine
  /\ w.op \in OfBuilds => w.build \in Build
  /\ w.op = "own" => w.what \in {"apply", "verify", "cleanup"} /\ w.build \in Build \cup {None}
  /\ w.op \in {"search", "tables"} => w.what = w.op
  /\ w.op = "delete" => w.what \in Parts
  /\ w.op \in {"objects", "dropObject"} => w.what \in Object
  /\ w.op = "switch" => /\ w.what.from \in Pointer /\ w.what.from.generation < MaxGeneration
                        /\ Faults = {} => w.what.verified

Cleaning == {"claim", "rows", "recheck", "archives", "objects", "unclaim"}

DeployReceipt == [build : Build, done : 0..Activated]
CleanupReceipt == [plan : Plan, done : 0..ObjectsGone]

LateTyped == \A w \in late : WriteTyped(w)

MemoryIsSound ==
  \A m \in Machine :
    /\ task[m] \in {"deploy", "rollback"} => target[m] \in Build
    /\ pc[m] \in {"pointer", "switch", "stamp"} => task[m] \in {"deploy", "rollback"}
    /\ pc[m] \in {"smoke", "mark"} => task[m] = "deploy"
    /\ pc[m] \in Cleaning => task[m] = "prune"
    /\ task[m] = "prune" => cleanup[m] \in CleanupReceipt /\ done[m] \in 0..ObjectsGone
    /\ pc[m] = "switch" => from[m].generation < MaxGeneration
    /\ failed[m] = "midway" => task[m] = "prune"

\* TypeOK without the target, which only writes change.
MemoryTyped ==
  /\ reads \in [Reader -> Build \cup {None}]
  /\ pc \in [Machine -> Steps]
  /\ task \in [Machine -> {"none", "deploy", "prune", "rollback"}]
  /\ target \in [Machine -> Build \cup {None}]
  /\ done \in [Machine -> 0..Activated]
  /\ failed \in [Machine -> {"no", "early", "midway"}]
  /\ from \in [Machine -> Pointer]
  /\ queue \in [Machine -> SUBSET Build]
  /\ doomed \in [Machine -> Plan]
  /\ DOMAIN deployed = Machine /\ DOMAIN cleanup = Machine
  /\ \A m \in Machine :
       /\ deployed[m] = None \/ deployed[m] \in DeployReceipt
       /\ cleanup[m] = None \/ cleanup[m] \in CleanupReceipt
  /\ trouble \in 0..MaxTrouble

TypeInv == TypeOK /\ MemoryTyped /\ LateTyped /\ CommandsAreSound /\ MemoryIsSound

(***************************************************************************)
(* What holds without faults.                                              *)
(***************************************************************************)
\* What a deploy receipt, or a running deploy, may say of a build of target r.
Tells(r, b, n) ==
  (b \in Build /\ "row" \in r.rows[b] /\ b \notin r.claims) =>
    /\ n >= 2 => "search" \in r.rows[b]
    /\ n >= 3 => "tables" \in r.rows[b]
    /\ n >= 4 => b \in r.archives
    /\ n >= 5 => Body[b] \subseteq r.objects
    /\ n >= Verified => b \in r.verified

Told(b, n) == Tells(remote, b, n)

\* What is live or read is retained, what is retained is whole, and only a
\* build that a cleanup has claimed lacks its artifacts.
StoreIsSound ==
  /\ RetainedBuildsAreWhole
  /\ \A b \in Rows \ remote.claims : "artifacts" \in remote.rows[b]
  /\ remote.pointer.build # None => remote.pointer.build \in remote.verified \ remote.claims
  /\ \A r \in Reader : reads[r] # None => reads[r] \in remote.verified \ remote.claims

DeployIsSound(m) ==
  /\ deployed[m] # None =>
       deployed[m].build \in Candidates[m] /\ Told(deployed[m].build, deployed[m].done)
  /\ task[m] = "deploy" =>
       /\ deployed[m] \in DeployReceipt /\ deployed[m].build = target[m]
       /\ target[m] \in Candidates[m]
       /\ deployed[m].done <= done[m] /\ Told(target[m], done[m])
       /\ pc[m] = "own" => done[m] <= Projected
       /\ pc[m] = "project" /\ done[m] < 3 => target[m] \notin remote.verified
       /\ pc[m] \in {"smoke", "mark"} => done[m] = Projected
       /\ pc[m] = "free" /\ failed[m] = "no" => done[m] \in {Written, Projected}
       /\ pc[m] = "free" /\ failed[m] = "no" /\ done[m] = Projected => Told(target[m], Verified)
       /\ pc[m] \in {"pointer", "switch", "stamp"} => done[m] >= Verified

CleanupIsSound(m) ==
  /\ pc[m] \in {"claim", "rows"} => doomed[m].remove \subseteq remote.claims
  /\ pc[m] \in {"archives", "objects"} =>
       doomed[m].archives \cap Rows = {} /\ doomed[m].objects \cap Hashes(Build) = {}

DeploysAreSound == \A m \in Machine : DeployIsSound(m)
CleanupsAreSound == \A m \in Machine : CleanupIsSound(m)

\* A receipt that a new projection of its build would belie.
Unsaid(w) ==
  /\ w.build \in Candidates[w.by] /\ w.build \notin remote.verified
  /\ deployed[w.by] # None /\ deployed[w.by].build = w.build => deployed[w.by].done = 0
  /\ task[w.by] = "deploy" /\ target[w.by] = w.build => done[w.by] = 0

\* What has to hold when a write lands.
Harmless(w) ==
  /\ w.op = "metadata" => Unsaid(w)
  /\ w.op = "mark" => Told(w.build, Projected)
  /\ w.op = "stamp" => w.build \in remote.verified \/ w.build \notin Rows
  /\ w.op = "delete" => w.build \in remote.claims
  /\ w.op = "dropArchive" => w.build \notin Rows
  /\ w.op = "dropObject" => w.what \notin Hashes(Build)

LateAreSound == \A w \in late : w.op # "stamp" /\ Harmless(w)

RetentionInv == StoreIsSound /\ DeploysAreSound /\ CleanupsAreSound /\ LateAreSound

(***************************************************************************)
(* Types.                                                                  *)
(***************************************************************************)
LEMMA RequestsAreTyped ==
  ASSUME TypeOK, CommandsAreSound, MemoryIsSound, NEW m \in Machine, NEW w \in Requests(m)
  PROVE  WriteTyped(w)
<1> USE DEF Request, OfBuilds, Parts
<1>a. w.by = m /\ w.op \in Ops
  BY RequestsAreKnown
<1>b. /\ task[m] \in {"deploy", "rollback"} => target[m] \in Build
      /\ target[m] \in Build \cup {None} /\ queue[m] \subseteq Build
      /\ doomed[m].remove \subseteq Build /\ doomed[m].archives \subseteq Build
      /\ doomed[m].objects \subseteq Object /\ from[m] \in Pointer
  BY DEF TypeOK, MemoryIsSound, Plan
<1>1. CASE pc[m] = "project"
  <2>1. w \in StageRequests(m)
    BY <1>1 DEF Requests
  <2>2. target[m] \in Build
    BY <1>1, <1>b DEF CommandsAreSound
  <2>3. CASE Stage(m) = "archive"
    BY <1>a, <2>1, <2>2, <2>3 DEF StageRequests, WriteTyped
  <2>4. CASE Stage(m) = "objects"
    <3>1. Body[target[m]] \subseteq Object
      BY <2>2, ConstantsAssumption
    <3>2. QED
      BY <1>a, <2>1, <2>4, <3>1 DEF StageRequests, WriteTyped, MissingObjects
  <2>5. CASE Stage(m) \notin {"archive", "objects"}
    <3>1. done[m] \in 0..4
      BY <1>1 DEF CommandsAreSound, Written, Activated
    <3>2. Stage(m) \in Projections
      BY <3>1 DEF Stage, Stages, Projections
    <3>3. w = Request(m, Stage(m), target[m], Stage(m))
      BY <2>1, <2>5 DEF StageRequests
    <3>4. QED
      BY <1>a, <2>2, <2>5, <3>2, <3>3 DEF Projections, WriteTyped
  <2>6. QED
    BY <2>3, <2>4, <2>5
<1>2. CASE pc[m] = "rows"
  <2>1. \E b \in doomed[m].remove, p \in Parts : w = Request(m, "delete", b, p)
    BY <1>2 DEF Requests, Deletions, NextPart
  <2>2. QED
    BY <1>a, <1>b, <2>1 DEF WriteTyped
<1>3. CASE pc[m] = "switch"
  <2>1. w = Switch(m)
    BY <1>3 DEF Requests
  <2>2. from[m].generation < MaxGeneration /\ target[m] \in Build
    BY <1>3, <1>b DEF MemoryIsSound
  <2>3. /\ w.op = "switch" /\ w.build = target[m] /\ w.what.from = from[m]
        /\ w.what.verified <=> (task[m] = "deploy" \/ "unfinishedRollback" \notin Faults)
    BY <2>1 DEF Switch
  <2>4. Faults = {} => w.what.verified
    BY <2>3
  <2>5. QED
    BY <1>a, <1>b, <2>2, <2>3, <2>4 DEF WriteTyped
<1>4. CASE pc[m] = "own"
  BY <1>4, <1>a, <1>b DEF Requests, WriteTyped, Phase
<1>5. CASE pc[m] \in {"mark", "stamp"}
  <2>1. target[m] \in Build
    BY <1>5, <1>b DEF MemoryIsSound
  <2>2. QED
    BY <1>5, <1>a, <2>1 DEF Requests, WriteTyped
<1>6. CASE pc[m] \in {"claim", "unclaim"}
  BY <1>6, <1>a, <1>b DEF Requests, WriteTyped
<1>7. CASE pc[m] = "archives"
  BY <1>7, <1>a, <1>b DEF Requests, WriteTyped
<1>8. CASE pc[m] = "objects"
  BY <1>8, <1>a, <1>b DEF Requests, WriteTyped
<1>9. CASE pc[m] = "free"
  BY <1>9, <1>a DEF Requests, WriteTyped
<1>10. CASE pc[m] \notin {"own", "project", "mark", "stamp", "switch", "claim", "unclaim", "rows",
                         "archives", "objects", "free"}
  BY <1>10 DEF Requests
<1>11. QED
  BY <1>1, <1>2, <1>3, <1>4, <1>5, <1>6, <1>7, <1>8, <1>9, <1>10

CatalogTyped(r) ==
  r \in Catalog /\ \A b \in r.verified : "row" \in r.rows[b]

LEMMA PointingIsTyped ==
  ASSUME NEW r, CatalogTyped(r), NEW p \in Pointer, NEW b \in Build \cup {None}
  PROVE  CatalogTyped([r EXCEPT !.pointer = p, !.previous = b])
BY DEF CatalogTyped, Catalog

LEMMA DeletingIsTyped ==
  ASSUME NEW r, CatalogTyped(r), NEW b \in Build, NEW p \in Parts, NEW v \in SUBSET r.verified,
         p = "row" => b \notin v
  PROVE  CatalogTyped([r EXCEPT !.rows[b] = @ \ {p}, !.verified = v])
<1> DEFINE s == [r EXCEPT !.rows[b] = @ \ {p}, !.verified = v]
<1>1. r \in Catalog /\ r.rows \in [Build -> SUBSET Parts] /\ v \in SUBSET Build
  BY DEF CatalogTyped, Catalog
<1>2. s.verified = v /\ s.rows = [r.rows EXCEPT ![b] = @ \ {p}]
  BY <1>1 DEF Catalog
<1>3. s \in Catalog
  BY <1>1 DEF Catalog
<1>4. \A c \in v : "row" \in r.rows[c] /\ c \in Build
  BY <1>1 DEF CatalogTyped
<1>5. \A c \in v : "row" \in s.rows[c]
  BY <1>1, <1>2, <1>4
<1>6. QED
  BY <1>2, <1>3, <1>5 DEF CatalogTyped

LEMMA LandingIsTyped ==
  ASSUME NEW r, CatalogTyped(r), NEW w, WriteTyped(w)
  PROVE  CatalogTyped(Landed(r, w))
<1> USE DEF Landed, CatalogTyped, Catalog, OfBuilds, WriteTyped
<1>1. CASE w.op = "own"
  BY <1>1 DEF Own, Guard
<1>2. CASE w.op = "free"
  BY <1>2 DEF Release, Free, Guard
<1>3. CASE w.op = "metadata"
  BY <1>3 DEF ProjectMetadata, Parts
<1>4. CASE w.op \in {"search", "tables"}
  BY <1>4 DEF ProjectPart, Parts
<1>5. CASE w.op = "archive"
  BY <1>5 DEF PutArchive
<1>6. CASE w.op = "objects"
  BY <1>6 DEF PutObject
<1>7. CASE w.op \in {"mark", "stamp"}
  BY <1>7 DEF MarkVerified
<1>8. CASE w.op = "switch"
  <2>1. CASE Moves(r, w) /\ r.pointer.build # w.build
    <3>1. r.pointer \in Pointer /\ r.pointer.generation < MaxGeneration
      BY <1>8, <2>1 DEF Moves
    <3>2. [build |-> w.build, generation |-> r.pointer.generation + 1] \in Pointer
      BY <1>8, <3>1, ConstantsAssumption DEF Pointer
    <3>3. r.pointer.build \in Build \cup {None}
      BY <3>1 DEF Pointer
    <3>4. CatalogTyped([r EXCEPT !.pointer = [build |-> w.build,
                                             generation |-> r.pointer.generation + 1],
                                 !.previous = r.pointer.build])
      BY <3>2, <3>3, PointingIsTyped
    <3>5. QED
      BY <1>8, <2>1, <3>4 DEF MovePointer
  <2>2. CASE ~(Moves(r, w) /\ r.pointer.build # w.build)
    BY <1>8, <2>2 DEF MovePointer
  <2>3. QED
    BY <2>1, <2>2
<1>9. CASE w.op = "claim"
  BY <1>9 DEF InsertClaim
<1>10. CASE w.op = "delete"
  <2> DEFINE v == IF w.what = "row" THEN r.verified \ {w.build} ELSE r.verified
  <2>1. v \in SUBSET r.verified /\ (w.what = "row" => w.build \notin v)
    OBVIOUS
  <2>2. w.build \in Build /\ w.what \in Parts
    BY <1>10
  <2> HIDE DEF CatalogTyped, Catalog, WriteTyped, v
  <2>3. CatalogTyped([r EXCEPT !.rows[w.build] = @ \ {w.what}, !.verified = v])
    BY <2>1, <2>2, DeletingIsTyped
  <2>4. QED
    BY <1>10, <2>3 DEF DeletePart, v
<1>11. CASE w.op = "dropArchive"
  BY <1>11 DEF DeleteArchive
<1>12. CASE w.op = "dropObject"
  BY <1>12 DEF DeleteObject
<1>13. CASE w.op = "unclaim"
  BY <1>13 DEF DeleteClaim
<1>14. QED
  BY <1>1, <1>2, <1>3, <1>4, <1>5, <1>6, <1>7, <1>8, <1>9, <1>10, <1>11, <1>12, <1>13
     DEF Ops, GuardedOps, Projections

LEMMA PreviewTyped == \A keep : Preview(keep) \in Plan
<1>1. \A builds \in SUBSET Build : Hashes(builds) \subseteq Object
  BY ConstantsAssumption DEF Hashes
<1>2. \A keep : Rows \ keep \in SUBSET Build
  BY DEF Rows
<1>3. QED
  BY <1>1, <1>2 DEF Preview, Plan

LEMMA PlansNarrow ==
  ASSUME NEW p \in Plan, NEW builds, NEW keys
  PROVE  [p EXCEPT !.archives = @ \ builds, !.objects = @ \ keys] \in Plan
BY DEF Plan

LEMMA PlansGrow ==
  ASSUME NEW p \in Plan, NEW b \in Build
  PROVE  [p EXCEPT !.remove = p.remove \cup {b}] \in Plan
BY DEF Plan

\* What a command has at hand depends on where it is, not on the target.
LEMMA MemoryStep ==
  ASSUME TypeOK, MemoryTyped, CommandsAreSound, MemoryIsSound, [Next]_vars
  PROVE  MemoryTyped' /\ MemoryIsSound'
<1> USE ConstantsAssumption
    DEF MemoryTyped, MemoryIsSound, Steps, Cleaning, Written, Projected, Verified, Activated,
        CatalogGone, ArchivesGone, ObjectsGone, DeployReceipt, CleanupReceipt
<1>a. NoPointer \in Pointer /\ NoPlan \in Plan /\ remote.pointer \in Pointer
  BY DEF NoPointer, NoPlan, Pointer, Plan, TypeOK, Catalog
<1>b. /\ \A m \in Machine : pc[m] = "project" => task[m] = "deploy" /\ done[m] < Written
      /\ \A m \in Machine : pc[m] = "inspect" => task[m] = "deploy"
      /\ \A m \in Machine : pc[m] = "idle" => task[m] = "none" /\ done[m] = 0
      /\ \A m \in Machine : pc[m] = "own" => task[m] \in {"deploy", "prune"}
      /\ \A m \in Machine : pc[m] = "free" => task[m] \in {"deploy", "prune"}
  BY DEF CommandsAreSound, Owning
<1> USE <1>a, <1>b
<1> DEFINE Saved(m) ==
      /\ DOMAIN deployed' = Machine /\ DOMAIN cleanup' = Machine
      /\ \A q \in Machine : /\ deployed'[q] = None \/ deployed'[q] \in DeployReceipt
                            /\ cleanup'[q] = None \/ cleanup'[q] \in CleanupReceipt
                            /\ q # m => cleanup'[q] = cleanup[q]
<1>c. ASSUME NEW m \in Machine, Stop(m), UNCHANGED reads, trouble' \in 0..MaxTrouble, Saved(m)
      PROVE  MemoryTyped' /\ MemoryIsSound'
  <2>1. MemoryTyped'
    BY <1>c DEF Stop, Go
  <2>2. MemoryIsSound'
    BY <1>c DEF Stop, Go
  <2>3. QED
    BY <2>1, <2>2
<1>d. ASSUME NEW m \in Machine, NEW n \in 0..Activated, task[m] = "deploy", SaveDeploy(m, n)
      PROVE  Saved(m)
  BY <1>d DEF SaveDeploy
<1>e. ASSUME NEW m \in Machine, task[m] = "prune", SaveCleanup(m, done[m])
      PROVE  Saved(m)
  <2>1. [cleanup[m] EXCEPT !.done = done[m]] \in CleanupReceipt
    BY <1>e
  <2>2. cleanup' = [cleanup EXCEPT ![m] = [cleanup[m] EXCEPT !.done = done[m]]] /\ UNCHANGED deployed
    BY <1>e DEF SaveCleanup
  <2>3. QED
    BY <2>1, <2>2
<1>f. ASSUME NEW m \in Machine, NEW midway \in BOOLEAN, midway => task[m] = "prune",
             SaveError(m, midway)
      PROVE  Saved(m)
  <2>1. CASE task[m] = "deploy" /\ done[m] <= Written
    <3>1. SaveDeploy(m, done[m]) /\ done[m] \in 0..Activated
      BY <1>f, <2>1 DEF SaveError
    <3>2. QED
      BY <2>1, <3>1, <1>d
  <2>2. CASE ~(task[m] = "deploy" /\ done[m] <= Written) /\ midway
    <3>1. SaveCleanup(m, done[m]) /\ task[m] = "prune"
      BY <1>f, <2>2 DEF SaveError
    <3>2. QED
      BY <3>1, <1>e
  <2>3. CASE ~(task[m] = "deploy" /\ done[m] <= Written) /\ ~midway
    BY <1>f, <2>3 DEF SaveError, receipts
  <2>4. QED
    BY <2>1, <2>2, <2>3
<1>1. ASSUME NEW m \in Machine, NEW b \in Build, Deploy(m, b) PROVE MemoryTyped' /\ MemoryIsSound'
  BY <1>1 DEF Deploy, Start, Go, machineVars, receipts
<1>2. ASSUME NEW m \in Machine, NEW b \in Build, RollbackTo(m, b)
      PROVE MemoryTyped' /\ MemoryIsSound'
  BY <1>2 DEF RollbackTo, Start, Go, machineVars, receipts
<1>3. ASSUME NEW m \in Machine, ResumeDeploy(m) PROVE MemoryTyped' /\ MemoryIsSound'
  BY <1>3 DEF ResumeDeploy, Start, Go, machineVars, receipts
<1>4. ASSUME NEW m \in Machine, RollbackToPrevious(m) PROVE MemoryTyped' /\ MemoryIsSound'
  BY <1>4 DEF RollbackToPrevious, Rows, Start, Go, machineVars, receipts
<1>5. ASSUME NEW m \in Machine, Prune(m) PROVE MemoryTyped' /\ MemoryIsSound'
  <2>1. MemoryTyped'
    BY <1>5, PreviewTyped DEF Prune, Start, Go, machineVars, receipts
  <2>2. MemoryIsSound'
    BY <1>5, PreviewTyped DEF Prune, Start, Go, machineVars, receipts
  <2>3. QED
    BY <2>1, <2>2
<1>6. ASSUME NEW m \in Machine, ResumePrune(m) PROVE MemoryTyped' /\ MemoryIsSound'
  BY <1>6 DEF ResumePrune, Start, Go, machineVars, receipts
<1>7. ASSUME NEW m \in Machine, Refused(m) PROVE MemoryTyped' /\ MemoryIsSound'
  BY <1>7, <1>c, <1>f DEF Refused
<1>8. ASSUME NEW m \in Machine, Acquire(m) PROVE MemoryTyped' /\ MemoryIsSound'
  <2>1. MemoryTyped'
    <3>1. CASE Phase(m) = "cleanup"
      <4>1. cleanup[m].plan \in Plan /\ cleanup[m].plan.remove \in SUBSET Build
        BY <1>8, <3>1 DEF Acquire, At, Phase, Plan
      <4>2. QED
        BY <1>8, <3>1, <4>1 DEF Acquire, Go, At, receipts
    <3>2. CASE Phase(m) # "cleanup"
      BY <1>8, <3>2 DEF Acquire, Go, At, Phase, receipts
    <3>3. QED
      BY <3>1, <3>2
  <2>2. MemoryIsSound'
    BY <1>8 DEF Acquire, Go, At, Phase, machineVars, receipts
  <2>3. QED
    BY <2>1, <2>2
<1>9. ASSUME NEW m \in Machine, Inspect(m) PROVE MemoryTyped' /\ MemoryIsSound'
  BY <1>9 DEF Inspect, Go, At, machineVars, receipts
<1>10. ASSUME NEW m \in Machine, Project(m) PROVE MemoryTyped' /\ MemoryIsSound'
  <2>1. MemoryTyped'
    BY <1>10 DEF Project, Advance, Go, At, machineVars, receipts
  <2>2. MemoryIsSound'
    BY <1>10 DEF Project, Advance, Go, At, machineVars, receipts
  <2>3. QED
    BY <2>1, <2>2
<1>11. ASSUME NEW m \in Machine, Skip(m) PROVE MemoryTyped' /\ MemoryIsSound'
  BY <1>11 DEF Skip, Advance, Go, At, machineVars, receipts
<1>12. ASSUME NEW m \in Machine, Smoke(m) PROVE MemoryTyped' /\ MemoryIsSound'
  BY <1>12 DEF Smoke, Go, At, machineVars, receipts
<1>13. ASSUME NEW m \in Machine, Mark(m) PROVE MemoryTyped' /\ MemoryIsSound'
  BY <1>13 DEF Mark, Go, At, machineVars, receipts
<1>14. ASSUME NEW m \in Machine, FreeGuard(m) PROVE MemoryTyped' /\ MemoryIsSound'
  <2>1. CASE failed[m] # "no"
    BY <1>14, <2>1, <1>c, <1>f DEF FreeGuard
  <2>2. CASE failed[m] = "no" /\ task[m] = "prune"
    <3>1. Saved(m)
      BY <1>14, <2>2 DEF FreeGuard, SaveApplied
    <3>2. QED
      BY <1>14, <2>2, <3>1, <1>c DEF FreeGuard
  <2>3. CASE failed[m] = "no" /\ task[m] # "prune"
    <3>1. task[m] = "deploy" /\ done'[m] \in 0..Activated /\ done' \in [Machine -> 0..Activated]
      BY <1>14, <2>3 DEF FreeGuard, At
    <3>2. Saved(m)
      BY <1>14, <2>3, <3>1, <1>d DEF FreeGuard
    <3>3. MemoryTyped'
      BY <1>14, <2>3, <3>1, <3>2 DEF FreeGuard, Go
    <3>4. MemoryIsSound'
      BY <1>14, <2>3, <3>1, <3>2 DEF FreeGuard, Go, At
    <3>5. QED
      BY <3>3, <3>4
  <2>4. QED
    BY <2>1, <2>2, <2>3
<1>15. ASSUME NEW m \in Machine, ReadPointer(m) PROVE MemoryTyped' /\ MemoryIsSound'
  <2>1. CASE task[m] = "deploy" => target[m] \in remote.verified
    <3>1. from' = [from EXCEPT ![m] = remote.pointer] /\ remote.pointer.generation < MaxGeneration
      BY <1>15, <2>1 DEF ReadPointer
    <3>2. from' \in [Machine -> Pointer] /\ from'[m].generation < MaxGeneration
      BY <3>1
    <3>3. MemoryTyped'
      BY <1>15, <2>1, <3>2 DEF ReadPointer, Go, receipts
    <3>4. MemoryIsSound'
      BY <1>15, <2>1, <3>1, <3>2 DEF ReadPointer, Go, At, receipts
    <3>5. QED
      BY <3>3, <3>4
  <2>2. CASE ~(task[m] = "deploy" => target[m] \in remote.verified)
    BY <1>15, <2>2, <1>c DEF ReadPointer, receipts
  <2>3. QED
    BY <2>1, <2>2
<1>16. ASSUME NEW m \in Machine, MoveTo(m) PROVE MemoryTyped' /\ MemoryIsSound'
  <2>1. CASE Moves(remote, Switch(m))
    <3>1. MemoryTyped'
      BY <1>16, <2>1 DEF MoveTo, Go, receipts
    <3>2. MemoryIsSound'
      BY <1>16, <2>1 DEF MoveTo, Go, At, receipts
    <3>3. QED
      BY <3>1, <3>2
  <2>2. CASE ~Moves(remote, Switch(m))
    BY <1>16, <2>2, <1>c DEF MoveTo, receipts
  <2>3. QED
    BY <2>1, <2>2
<1>17. ASSUME NEW m \in Machine, Stamp(m) PROVE MemoryTyped' /\ MemoryIsSound'
  <2>1. Saved(m)
    <3>1. CASE task[m] = "deploy"
      BY <1>17, <3>1, <1>d DEF Stamp
    <3>2. CASE task[m] # "deploy"
      BY <1>17, <3>2 DEF Stamp, receipts
    <3>3. QED
      BY <3>1, <3>2
  <2>2. QED
    BY <1>17, <2>1, <1>c DEF Stamp
<1>18. ASSUME NEW m \in Machine, Claim(m) PROVE MemoryTyped' /\ MemoryIsSound'
  <2>1. MemoryTyped'
    <3>1. PICK w \in Requests(m) :
            /\ queue' = [queue EXCEPT ![m] = @ \ {w.build}]
            /\ doomed' = [doomed EXCEPT ![m].remove =
                 IF Claimable(remote, w.build) THEN @ \cup {w.build} ELSE @]
      BY <1>18 DEF Claim
    <3>2. w.build \in queue[m]
      BY <1>18 DEF Claim, At, Requests, Request
    <3>3. doomed[m] \in Plan /\ w.build \in Build
      BY <3>2
    <3>4. [doomed[m] EXCEPT !.remove = doomed[m].remove \cup {w.build}] \in Plan
      BY <3>3, PlansGrow
    <3>5. doomed' \in [Machine -> Plan]
      <4>1. CASE Claimable(remote, w.build)
        BY <3>1, <3>4, <4>1
      <4>2. CASE ~Claimable(remote, w.build)
        BY <3>1, <3>3, <4>2 DEF Plan
      <4>3. QED
        BY <4>1, <4>2
    <3>6. QED
      BY <1>18, <3>1, <3>5 DEF Claim, receipts
  <2>2. MemoryIsSound'
    BY <1>18 DEF Claim, At, machineVars, receipts
  <2>3. QED
    BY <2>1, <2>2
<1>19. ASSUME NEW m \in Machine, Narrow(m) PROVE MemoryTyped' /\ MemoryIsSound'
  <2>1. MemoryTyped'
    <3>1. \A builds \in SUBSET Build : Hashes(builds) \subseteq Object
      BY DEF Hashes
    <3>2. doomed[m].remove \in SUBSET Build
      BY DEF Plan
    <3>3. doomed' \in [Machine -> Plan]
      BY <1>19, <3>1, <3>2 DEF Narrow, Plan
    <3>4. QED
      BY <1>19, <3>3 DEF Narrow, Go, At, receipts
  <2>2. MemoryIsSound'
    BY <1>19 DEF Narrow, Go, At, machineVars, receipts
  <2>3. QED
    BY <2>1, <2>2
<1>20. ASSUME NEW m \in Machine, DeleteRows(m) PROVE MemoryTyped' /\ MemoryIsSound'
  BY <1>20 DEF DeleteRows, At, machineVars, receipts
<1>21. ASSUME NEW m \in Machine, RowsGone(m) PROVE MemoryTyped' /\ MemoryIsSound'
  BY <1>21 DEF RowsGone, Go, At, machineVars, receipts
<1>22. ASSUME NEW m \in Machine, Recheck(m) PROVE MemoryTyped' /\ MemoryIsSound'
  <2>1. MemoryTyped'
    <3>1. [doomed[m] EXCEPT !.archives = @ \ Rows, !.objects = @ \ Hashes(Build)] \in Plan
      <4>1. doomed[m] \in Plan
        OBVIOUS
      <4>2. QED
        BY <4>1, PlansNarrow
    <3>2. doomed' = [doomed EXCEPT ![m] =
            [doomed[m] EXCEPT !.archives = @ \ Rows, !.objects = @ \ Hashes(Build)]]
      BY <1>22 DEF Recheck
    <3>3. doomed' \in [Machine -> Plan] /\ doomed[m].remove \in SUBSET Build
      BY <3>1, <3>2 DEF Plan
    <3>4. queue' \in [Machine -> SUBSET Build]
      <4>1. queue' = [queue EXCEPT ![m] = doomed[m].remove]
        BY <1>22 DEF Recheck
      <4>2. QED
        BY <3>3, <4>1
    <3>5. QED
      BY <1>22, <3>3, <3>4 DEF Recheck, Go, At, receipts
  <2>2. MemoryIsSound'
    BY <1>22 DEF Recheck, Go, At, machineVars, receipts
  <2>3. QED
    BY <2>1, <2>2
<1>23. ASSUME NEW m \in Machine, DeleteKeys(m) PROVE MemoryTyped' /\ MemoryIsSound'
  BY <1>23 DEF DeleteKeys, machineVars, receipts
<1>24. ASSUME NEW m \in Machine, KeysGone(m) PROVE MemoryTyped' /\ MemoryIsSound'
  BY <1>24 DEF KeysGone, Go, At, machineVars, receipts
<1>25. ASSUME NEW m \in Machine, Unclaim(m) PROVE MemoryTyped' /\ MemoryIsSound'
  BY <1>25 DEF Unclaim, At, machineVars, receipts
<1>26. ASSUME NEW m \in Machine, Unclaimed(m) PROVE MemoryTyped' /\ MemoryIsSound'
  BY <1>26 DEF Unclaimed, Go, At, machineVars, receipts
<1>27. ASSUME NEW m \in Machine, Kill(m) PROVE MemoryTyped' /\ MemoryIsSound'
  BY <1>27 DEF Kill, Stop, Go, machineVars, receipts
<1>28. ASSUME NEW m \in Machine, LoseAnswer(m) PROVE MemoryTyped' /\ MemoryIsSound'
  <2>1. Midway(m) \in BOOLEAN /\ (Midway(m) => task[m] = "prune")
    BY DEF Midway
  <2>2. Saved(m)
    BY <1>28, <2>1, <1>f DEF LoseAnswer
  <2>3. QED
    BY <1>28, <2>2, <1>c DEF LoseAnswer
<1>29. ASSUME NEW m \in Machine, FailRead(m) PROVE MemoryTyped' /\ MemoryIsSound'
  BY <1>29 DEF FailRead, Go, At, Midway, machineVars, receipts
<1>30. ASSUME LateWriteLands PROVE MemoryTyped' /\ MemoryIsSound'
  BY <1>30 DEF LateWriteLands, machineVars, receipts
<1>31. ASSUME LateWriteIsLost PROVE MemoryTyped' /\ MemoryIsSound'
  BY <1>31 DEF LateWriteIsLost, machineVars, receipts
<1>32. ASSUME OperatorFreesGuard PROVE MemoryTyped' /\ MemoryIsSound'
  BY <1>32 DEF OperatorFreesGuard, machineVars, receipts
<1>33. ASSUME NEW r \in Reader, NEW b \in Build, StartRead(r, b)
       PROVE MemoryTyped' /\ MemoryIsSound'
  BY <1>33 DEF StartRead, machineVars, receipts
<1>34. ASSUME NEW r \in Reader, EndRead(r) PROVE MemoryTyped' /\ MemoryIsSound'
  BY <1>34 DEF EndRead, machineVars, receipts
<1>35. CASE UNCHANGED vars
  BY <1>35 DEF vars, machineVars, receipts
<1>36. QED
  BY <1>1, <1>2, <1>3, <1>4, <1>5, <1>6, <1>7, <1>8, <1>9, <1>10, <1>11, <1>12, <1>13, <1>14,
     <1>15, <1>16, <1>17, <1>18, <1>19, <1>20, <1>21, <1>22, <1>23, <1>24, <1>25, <1>26, <1>27,
     <1>28, <1>29, <1>30, <1>31, <1>32, <1>33, <1>34, <1>35 DEF Next, Command, Step, Trouble

Acts(m) == Command(m) \/ Step(m) \/ Trouble(m)
Memory(m) == <<pc[m], task[m], target[m], done[m], failed[m], doomed[m], deployed[m]>>

\* What a machine does to the target is a request, what may land late is one, and
\* no machine knows what another does.
LEMMA ActsOfMachines ==
  ASSUME MemoryTyped, NEW m \in Machine, Acts(m)
  PROVE  /\ UNCHANGED reads
         /\ \/ UNCHANGED remote
            \/ (pc[m] = "stamp" => InTime(m)) /\ \E w \in Requests(m) : Send(w)
         /\ \A w \in late' : w \in late \/ w \in MayLandLate(m)
         /\ \A q \in Machine \ {m} : UNCHANGED Memory(q)
<1> DEFINE Sent == /\ UNCHANGED reads
                   /\ \/ UNCHANGED remote
                      \/ (pc[m] = "stamp" => InTime(m)) /\ \E w \in Requests(m) : Send(w)
                   /\ \A w \in late' : w \in late \/ w \in MayLandLate(m)
<1> DEFINE Alone == \A q \in Machine \ {m} : UNCHANGED Memory(q)
<1> USE DEF MemoryTyped, Memory
<1>1. ASSUME NEW b \in Build, Deploy(m, b) PROVE Sent /\ Alone
  <2>1. Sent
    BY <1>1 DEF Deploy, At
  <2>2. Alone
    BY <1>1 DEF Deploy, Start, Go, SaveCleanup, machineVars, receipts
  <2>3. QED
    BY <2>1, <2>2
<1>2. ASSUME NEW b \in Build, RollbackTo(m, b) PROVE Sent /\ Alone
  <2>1. Sent
    BY <1>2 DEF RollbackTo, At
  <2>2. Alone
    BY <1>2 DEF RollbackTo, Start, Go, SaveCleanup, machineVars, receipts
  <2>3. QED
    BY <2>1, <2>2
<1>3. ASSUME ResumeDeploy(m) PROVE Sent /\ Alone
  <2>1. Sent
    BY <1>3 DEF ResumeDeploy, At
  <2>2. Alone
    BY <1>3 DEF ResumeDeploy, Start, Go, SaveCleanup, machineVars, receipts
  <2>3. QED
    BY <2>1, <2>2
<1>4. ASSUME RollbackToPrevious(m) PROVE Sent /\ Alone
  <2>1. Sent
    BY <1>4 DEF RollbackToPrevious, At
  <2>2. Alone
    BY <1>4 DEF RollbackToPrevious, Start, Go, SaveCleanup, machineVars, receipts
  <2>3. QED
    BY <2>1, <2>2
<1>5. ASSUME Prune(m) PROVE Sent /\ Alone
  <2>1. Sent
    BY <1>5 DEF Prune, At
  <2>2. Alone
    BY <1>5 DEF Prune, Start, Go, SaveCleanup, machineVars, receipts
  <2>3. QED
    BY <2>1, <2>2
<1>6. ASSUME ResumePrune(m) PROVE Sent /\ Alone
  <2>1. Sent
    BY <1>6 DEF ResumePrune, At
  <2>2. Alone
    BY <1>6 DEF ResumePrune, Start, Go, SaveCleanup, machineVars, receipts
  <2>3. QED
    BY <2>1, <2>2
<1>7. ASSUME Refused(m) PROVE Sent /\ Alone
  <2>1. Sent
    BY <1>7 DEF Refused, At
  <2>2. Alone
    BY <1>7 DEF Refused, SaveError, SaveDeploy, Stop, Go, At, SaveCleanup, machineVars, receipts
  <2>3. QED
    BY <2>1, <2>2
<1>8. ASSUME Acquire(m) PROVE Sent /\ Alone
  <2>1. Sent
    BY <1>8 DEF Acquire, At
  <2>2. Alone
    BY <1>8 DEF Acquire, Go, At, SaveCleanup, machineVars, receipts
  <2>3. QED
    BY <2>1, <2>2
<1>9. ASSUME Inspect(m) PROVE Sent /\ Alone
  <2>1. Sent
    BY <1>9 DEF Inspect, At
  <2>2. Alone
    BY <1>9 DEF Inspect, Go, At, SaveCleanup, machineVars, receipts
  <2>3. QED
    BY <2>1, <2>2
<1>10. ASSUME Project(m) PROVE Sent /\ Alone
  <2>1. Sent
    BY <1>10 DEF Project, At
  <2>2. Alone
    BY <1>10 DEF Project, Advance, Go, At, SaveCleanup, machineVars, receipts
  <2>3. QED
    BY <2>1, <2>2
<1>11. ASSUME Skip(m) PROVE Sent /\ Alone
  <2>1. Sent
    BY <1>11 DEF Skip, At
  <2>2. Alone
    BY <1>11 DEF Skip, Advance, Go, At, SaveCleanup, machineVars, receipts
  <2>3. QED
    BY <2>1, <2>2
<1>12. ASSUME Smoke(m) PROVE Sent /\ Alone
  <2>1. Sent
    BY <1>12 DEF Smoke, At
  <2>2. Alone
    BY <1>12 DEF Smoke, Go, At, SaveCleanup, machineVars, receipts
  <2>3. QED
    BY <2>1, <2>2
<1>13. ASSUME Mark(m) PROVE Sent /\ Alone
  <2>1. Sent
    BY <1>13 DEF Mark, At
  <2>2. Alone
    BY <1>13 DEF Mark, Go, At, SaveCleanup, machineVars, receipts
  <2>3. QED
    BY <2>1, <2>2
<1>14. ASSUME FreeGuard(m) PROVE Sent /\ Alone
  <2>1. Sent
    BY <1>14 DEF FreeGuard, At
  <2>2. Alone
    BY <1>14 DEF FreeGuard, SaveError, SaveDeploy, SaveApplied, Stop, Go, At, SaveCleanup,
       machineVars, receipts
  <2>3. QED
    BY <2>1, <2>2
<1>15. ASSUME ReadPointer(m) PROVE Sent /\ Alone
  <2>1. Sent
    BY <1>15 DEF ReadPointer, At
  <2>2. Alone
    BY <1>15 DEF ReadPointer, Stop, Go, At, SaveCleanup, machineVars, receipts
  <2>3. QED
    BY <2>1, <2>2
<1>16. ASSUME MoveTo(m) PROVE Sent /\ Alone
  <2>1. Sent
    BY <1>16 DEF MoveTo, At, Requests
  <2>2. Alone
    BY <1>16 DEF MoveTo, Stop, Go, At, SaveCleanup, machineVars, receipts
  <2>3. QED
    BY <2>1, <2>2
<1>17. ASSUME Stamp(m) PROVE Sent /\ Alone
  <2>1. Sent
    BY <1>17 DEF Stamp, At
  <2>2. Alone
    BY <1>17 DEF Stamp, SaveDeploy, Stop, Go, At, SaveCleanup, machineVars, receipts
  <2>3. QED
    BY <2>1, <2>2
<1>18. ASSUME Claim(m) PROVE Sent /\ Alone
  <2>1. Sent
    BY <1>18 DEF Claim, At
  <2>2. Alone
    BY <1>18 DEF Claim, At, SaveCleanup, machineVars, receipts
  <2>3. QED
    BY <2>1, <2>2
<1>19. ASSUME Narrow(m) PROVE Sent /\ Alone
  <2>1. Sent
    BY <1>19 DEF Narrow, At
  <2>2. Alone
    BY <1>19 DEF Narrow, Go, At, SaveCleanup, machineVars, receipts
  <2>3. QED
    BY <2>1, <2>2
<1>20. ASSUME DeleteRows(m) PROVE Sent /\ Alone
  <2>1. Sent
    BY <1>20 DEF DeleteRows, At
  <2>2. Alone
    BY <1>20 DEF DeleteRows, At, SaveCleanup, machineVars, receipts
  <2>3. QED
    BY <2>1, <2>2
<1>21. ASSUME RowsGone(m) PROVE Sent /\ Alone
  <2>1. Sent
    BY <1>21 DEF RowsGone, At
  <2>2. Alone
    BY <1>21 DEF RowsGone, Go, At, SaveCleanup, machineVars, receipts
  <2>3. QED
    BY <2>1, <2>2
<1>22. ASSUME Recheck(m) PROVE Sent /\ Alone
  <2>1. Sent
    BY <1>22 DEF Recheck, At
  <2>2. Alone
    BY <1>22 DEF Recheck, Go, At, SaveCleanup, machineVars, receipts
  <2>3. QED
    BY <2>1, <2>2
<1>23. ASSUME DeleteKeys(m) PROVE Sent /\ Alone
  <2>1. Sent
    BY <1>23 DEF DeleteKeys, At
  <2>2. Alone
    BY <1>23 DEF DeleteKeys, SaveCleanup, machineVars, receipts
  <2>3. QED
    BY <2>1, <2>2
<1>24. ASSUME KeysGone(m) PROVE Sent /\ Alone
  <2>1. Sent
    BY <1>24 DEF KeysGone, At
  <2>2. Alone
    BY <1>24 DEF KeysGone, Go, At, SaveCleanup, machineVars, receipts
  <2>3. QED
    BY <2>1, <2>2
<1>25. ASSUME Unclaim(m) PROVE Sent /\ Alone
  <2>1. Sent
    BY <1>25 DEF Unclaim, At
  <2>2. Alone
    BY <1>25 DEF Unclaim, At, SaveCleanup, machineVars, receipts
  <2>3. QED
    BY <2>1, <2>2
<1>26. ASSUME Unclaimed(m) PROVE Sent /\ Alone
  <2>1. Sent
    BY <1>26 DEF Unclaimed, At
  <2>2. Alone
    BY <1>26 DEF Unclaimed, Go, At, SaveCleanup, machineVars, receipts
  <2>3. QED
    BY <2>1, <2>2
<1>27. ASSUME Kill(m) PROVE Sent /\ Alone
  <2>1. Sent
    BY <1>27 DEF Kill, At
  <2>2. Alone
    BY <1>27 DEF Kill, Stop, Go, SaveCleanup, machineVars, receipts
  <2>3. QED
    BY <2>1, <2>2
<1>28. ASSUME LoseAnswer(m) PROVE Sent /\ Alone
  <2>1. Sent
    BY <1>28 DEF LoseAnswer, At
  <2>2. Alone
    BY <1>28 DEF LoseAnswer, SaveError, SaveDeploy, Stop, Go, SaveCleanup, machineVars, receipts
  <2>3. QED
    BY <2>1, <2>2
<1>29. ASSUME FailRead(m) PROVE Sent /\ Alone
  <2>1. Sent
    BY <1>29 DEF FailRead, At
  <2>2. Alone
    BY <1>29 DEF FailRead, Go, At, SaveCleanup, machineVars, receipts
  <2>3. QED
    BY <2>1, <2>2
<1>30. QED
  BY <1>1, <1>2, <1>3, <1>4, <1>5, <1>6, <1>7, <1>8, <1>9, <1>10, <1>11, <1>12, <1>13, <1>14,
     <1>15, <1>16, <1>17, <1>18, <1>19, <1>20, <1>21, <1>22, <1>23, <1>24, <1>25, <1>26, <1>27,
     <1>28, <1>29 DEF Acts, Command, Step, Trouble

LEMMA WritesOfSteps ==
  ASSUME MemoryTyped, [Next]_vars
  PROVE  /\ \/ UNCHANGED remote
            \/ \E m \in Machine :
                 (pc[m] = "stamp" => InTime(m)) /\ \E w \in Requests(m) : Send(w)
            \/ \E w \in late : Send(w)
            \/ remote' = [remote EXCEPT !.guard = Free]
         /\ \A w \in late' : w \in late \/ \E m \in Machine : w \in Requests(m)
<1>1. CASE \E m \in Machine : Acts(m)
  BY <1>1, ActsOfMachines DEF MayLandLate
<1>2. CASE LateWriteLands
  BY <1>2 DEF LateWriteLands
<1>3. CASE LateWriteIsLost
  BY <1>3 DEF LateWriteIsLost
<1>4. CASE OperatorFreesGuard
  BY <1>4 DEF OperatorFreesGuard
<1>5. CASE \E r \in Reader : EndRead(r) \/ \E b \in Build : StartRead(r, b)
  BY <1>5 DEF EndRead, StartRead
<1>6. CASE UNCHANGED vars
  BY <1>6 DEF vars
<1>7. QED
  BY <1>1, <1>2, <1>3, <1>4, <1>5, <1>6 DEF Next, Acts

LEMMA TypeInvariance == Spec => []TypeInv
<1> USE DEF TypeInv
<1>1. Init => TypeInv
  <2> SUFFICES ASSUME Init PROVE TypeInv
    OBVIOUS
  <2>1. NoPointer \in Pointer /\ NoPlan \in Plan /\ Free \in Guard
    BY ConstantsAssumption DEF NoPointer, NoPlan, Free, Pointer, Plan, Guard
  <2>2. remote \in Catalog /\ remote.verified = {}
    BY <2>1 DEF Init, Catalog
  <2>3. MemoryTyped
    BY <2>1, ConstantsAssumption DEF Init, MemoryTyped, Steps, Activated
  <2>4. TypeOK
    BY <2>2, <2>3 DEF MemoryTyped, TypeOK, DeployReceipt, CleanupReceipt
  <2>5. LateTyped /\ CommandsAreSound /\ MemoryIsSound
    BY DEF Init, LateTyped, CommandsAreSound, MemoryIsSound, Owning, Steps, Activated, Cleaning
  <2>6. QED
    BY <2>3, <2>4, <2>5
<1>2. TypeInv /\ [Next]_vars => TypeInv'
  <2> SUFFICES ASSUME TypeInv, [Next]_vars PROVE TypeInv'
    OBVIOUS
  <2>1. MemoryTyped' /\ MemoryIsSound' /\ CommandsAreSound'
    BY MemoryStep, CommandsStep
  <2>2. \A m \in Machine : \A w \in Requests(m) : WriteTyped(w)
    BY RequestsAreTyped
  <2>3. LateTyped'
    <3>1. \A w \in late' : w \in late \/ \E m \in Machine : w \in Requests(m)
      BY WritesOfSteps
    <3>2. \A w \in late' : WriteTyped(w)
      BY <2>2, <3>1 DEF LateTyped
    <3>3. QED
      BY <3>2 DEF LateTyped, WriteTyped
  <2>4. CatalogTyped(remote)
    BY DEF TypeOK, CatalogTyped, Rows
  <2>5. CatalogTyped(remote')
    <3>1. ASSUME NEW w, WriteTyped(w), Send(w) PROVE CatalogTyped(remote')
      BY <2>4, <3>1, LandingIsTyped DEF Send
    <3>2. CASE remote' = [remote EXCEPT !.guard = Free]
      BY <2>4, <3>2 DEF CatalogTyped, Catalog, Free, Guard
    <3>3. CASE remote' = remote
      BY <2>4, <3>3
    <3>4. CASE \E m \in Machine : \E w \in Requests(m) : Send(w)
      BY <2>2, <3>1, <3>4
    <3>5. CASE \E w \in late : Send(w)
      BY <3>1, <3>5 DEF LateTyped
    <3>6. QED
      BY <3>2, <3>3, <3>4, <3>5, WritesOfSteps
  <2>6. remote' \in Catalog /\ \A b \in remote'.verified : "row" \in remote'.rows[b] /\ b \in Build
    BY <2>5 DEF CatalogTyped, Catalog
  <2>7. TypeOK'
    BY <2>1, <2>6 DEF MemoryTyped, TypeOK, DeployReceipt, CleanupReceipt, Rows
  <2>8. QED
    BY <2>1, <2>3, <2>7
<1>3. QED
  BY <1>1, <1>2, PTL DEF Spec

\* Every value the target, a command or a receipt can hold is of its kind, and
\* what is verified has a row, for any number of machines, builds and failures.
THEOREM TypeCorrect == Spec => []TypeOK
<1>1. TypeInv => TypeOK
  BY DEF TypeInv
<1>2. QED
  BY <1>1, TypeInvariance, PTL

(***************************************************************************)
(* What a write that lands leaves true.                                    *)
(***************************************************************************)
\* Field by field, what a write does to a target r that then is s.
Effects(r, w, s) ==
  /\ w.op \notin {"metadata", "search", "tables", "delete"} => s.rows = r.rows
  /\ w.op = "metadata" =>
       s.rows = [r.rows EXCEPT ![w.build] = @ \cup {"row", "artifacts"}]
  /\ w.op \in {"search", "tables"} => s.rows = [r.rows EXCEPT ![w.build] = @ \cup {w.op}]
  /\ w.op = "delete" => s.rows = [r.rows EXCEPT ![w.build] = @ \ {w.what}]
  /\ w.op \notin {"metadata", "mark", "stamp", "delete"} => s.verified = r.verified
  /\ w.op = "metadata" => s.verified = r.verified \ {w.build}
  /\ w.op \in {"mark", "stamp"} =>
       s.verified = IF "row" \in r.rows[w.build] THEN r.verified \cup {w.build}
                                                 ELSE r.verified
  /\ w.op = "delete" =>
       s.verified = IF w.what = "row" THEN r.verified \ {w.build} ELSE r.verified
  /\ w.op \notin {"claim", "unclaim"} => s.claims = r.claims
  /\ w.op = "claim" =>
       s.claims = IF Claimable(r, w.build) THEN r.claims \cup {w.build} ELSE r.claims
  /\ w.op = "unclaim" =>
       s.claims = IF "row" \in r.rows[w.build] THEN r.claims ELSE r.claims \ {w.build}
  /\ w.op \notin {"archive", "dropArchive"} => s.archives = r.archives
  /\ w.op = "archive" => s.archives = r.archives \cup {w.build}
  /\ w.op = "dropArchive" => s.archives = r.archives \ {w.build}
  /\ w.op \notin {"objects", "dropObject"} => s.objects = r.objects
  /\ w.op = "objects" => s.objects = r.objects \cup {w.what}
  /\ w.op = "dropObject" => s.objects = r.objects \ {w.what}
  /\ w.op # "switch" => s.pointer = r.pointer
  /\ w.op = "switch" => \/ s.pointer = r.pointer
                        \/ /\ Moves(r, w) /\ r.pointer.build # w.build
                           /\ s.pointer = [build |-> w.build,
                                           generation |-> r.pointer.generation + 1]

LEMMA EffectsOfWrites ==
  ASSUME NEW r \in Catalog, NEW w, WriteTyped(w), NEW s, s = Landed(r, w)
  PROVE  Effects(r, w, s)
<1> USE DEF Effects, Landed, Catalog, WriteTyped, OfBuilds
<1>1. CASE w.op = "own"
  BY <1>1 DEF Own
<1>2. CASE w.op = "free"
  BY <1>2 DEF Release
<1>3. CASE w.op = "metadata"
  BY <1>3 DEF ProjectMetadata
<1>4. CASE w.op \in {"search", "tables"}
  BY <1>4 DEF ProjectPart
<1>5. CASE w.op = "archive"
  BY <1>5 DEF PutArchive
<1>6. CASE w.op = "objects"
  BY <1>6 DEF PutObject
<1>7. CASE w.op \in {"mark", "stamp"}
  BY <1>7 DEF MarkVerified
<1>8. CASE w.op = "switch"
  BY <1>8 DEF MovePointer
<1>9. CASE w.op = "claim"
  BY <1>9 DEF InsertClaim
<1>10. CASE w.op = "delete"
  BY <1>10 DEF DeletePart
<1>11. CASE w.op = "dropArchive"
  BY <1>11 DEF DeleteArchive
<1>12. CASE w.op = "dropObject"
  BY <1>12 DEF DeleteObject
<1>13. CASE w.op = "unclaim"
  BY <1>13 DEF DeleteClaim
<1>14. QED
  BY <1>1, <1>2, <1>3, <1>4, <1>5, <1>6, <1>7, <1>8, <1>9, <1>10, <1>11, <1>12, <1>13
     DEF Ops, GuardedOps, Projections

LEMMA LandingTells ==
  ASSUME TypeOK, StoreIsSound, NEW w, WriteTyped(w), Harmless(w), Send(w),
         NEW b \in Build, NEW n \in 0..Activated, Told(b, n),
         w.op = "metadata" /\ w.build = b => n = 0
  PROVE  Told(b, n)'
<1>a. Effects(remote, w, remote') /\ remote \in Catalog
  BY EffectsOfWrites DEF Send, TypeOK
<1>b. /\ remote.rows \in [Build -> SUBSET Parts] /\ remote.verified \subseteq Rows
      /\ remote.verified \subseteq Build
  BY <1>a DEF Catalog, TypeOK
<1> SUFFICES ASSUME b \in (Rows \ remote.claims)'
             PROVE  /\ n >= 2 => "search" \in remote'.rows[b]
                    /\ n >= 3 => "tables" \in remote'.rows[b]
                    /\ n >= 4 => b \in remote'.archives
                    /\ n >= 5 => Body[b] \subseteq remote'.objects
                    /\ n >= Verified => b \in remote'.verified
  BY DEF Told, Tells, Rows
<1> USE <1>a, <1>b DEF Effects, Rows, Told, Tells, WriteTyped, OfBuilds, Harmless, Verified,
        Activated, Parts
<1>1. CASE w.op = "own"
  BY <1>1
<1>2. CASE w.op = "free"
  BY <1>2
<1>3. CASE w.op = "metadata"
  BY <1>3
<1>4. CASE w.op \in {"search", "tables"}
  BY <1>4
<1>5. CASE w.op = "archive"
  BY <1>5
<1>6. CASE w.op = "objects"
  BY <1>6
<1>7. CASE w.op \in {"mark", "stamp"}
  BY <1>7
<1>8. CASE w.op = "switch"
  BY <1>8
<1>9. CASE w.op = "claim"
  BY <1>9
<1>10. CASE w.op = "delete"
  BY <1>10
<1>11. CASE w.op = "dropArchive"
  BY <1>11
<1>12. CASE w.op = "dropObject"
  <2>1. b \in Rows \ remote.claims /\ "artifacts" \in remote.rows[b]
    BY <1>12 DEF StoreIsSound
  <2>2. Body[b] \subseteq Hashes(Build)
    BY <2>1 DEF Hashes
  <2>3. QED
    BY <1>12, <2>1, <2>2
<1>13. CASE w.op = "unclaim"
  BY <1>13
<1>14. QED
  BY <1>1, <1>2, <1>3, <1>4, <1>5, <1>6, <1>7, <1>8, <1>9, <1>10, <1>11, <1>12, <1>13
     DEF Ops, GuardedOps, Projections

LEMMA LandingKeepsStore ==
  ASSUME TypeOK, StoreIsSound, NEW w, WriteTyped(w), Harmless(w), Send(w), UNCHANGED reads,
         w.op = "switch" => w.what.verified
  PROVE  StoreIsSound'
<1>a. Effects(remote, w, remote') /\ remote \in Catalog
  BY EffectsOfWrites DEF Send, TypeOK
<1>b. /\ remote.rows \in [Build -> SUBSET Parts] /\ remote.verified \subseteq Rows
      /\ remote.verified \subseteq Build /\ remote.claims \subseteq Build
  BY <1>a DEF Catalog, TypeOK
<1> DEFINE retained == remote.verified \ remote.claims
<1>1. ASSUME NEW b \in retained, ~(w.op = "claim" /\ w.build = b /\ Claimable(remote, b))
      PROVE  b \in (remote.verified \ remote.claims)'
  <2>1. w.op = "metadata" => w.build # b
    BY DEF Harmless, Unsaid
  <2>2. w.op = "delete" => w.build # b
    BY DEF Harmless
  <2>3. "row" \in remote.rows[b]
    BY <1>b DEF Rows
  <2>4. b \in remote'.verified
    BY <1>a, <2>1, <2>2 DEF Effects
  <2>5. b \notin remote'.claims
    BY <1>a, <1>1 DEF Effects
  <2>6. QED
    BY <2>4, <2>5
<1>2. ASSUME NEW b \in (remote.verified \ remote.claims)'
      PROVE  /\ b \in Build /\ b \in Rows \ remote.claims
             /\ b \notin remote.verified => w.op \in {"mark", "stamp"} /\ w.build = b
  BY <1>a, <1>b DEF Effects, Rows, WriteTyped, OfBuilds
<1>3. ASSUME NEW b \in (remote.verified \ remote.claims)' PROVE Whole(b)'
  <2>1. b \in Build /\ b \in Rows \ remote.claims /\ "artifacts" \in remote.rows[b]
    BY <1>2, <1>3 DEF StoreIsSound
  <2>2. Whole(b)
    <3>1. CASE b \in remote.verified
      BY <2>1, <3>1 DEF StoreIsSound, RetainedBuildsAreWhole
    <3>2. CASE b \notin remote.verified
      <4>1. w.op = "mark" /\ w.build = b
        BY <1>2, <1>3, <2>1, <3>2 DEF Harmless
      <4>2. /\ "search" \in remote.rows[b] /\ "tables" \in remote.rows[b]
            /\ b \in remote.archives /\ Body[b] \subseteq remote.objects
        BY <2>1, <4>1 DEF Harmless, Told, Tells, Rows, Projected
      <4>3. QED
        BY <1>b, <2>1, <4>2 DEF Whole, Rows, Parts
    <3>3. QED
      BY <3>1, <3>2
  <2>3. Told(b, Written)
    BY <2>2 DEF Told, Tells, Rows, Whole, Parts, Written, Verified
  <2>4. w.op = "metadata" => w.build # b
    <3>1. w.op = "metadata" => w.build \notin remote'.verified
      BY <1>a DEF Effects
    <3>2. QED
      BY <1>3, <3>1
  <2>5. Told(b, Written)'
    <3>1. Written \in 0..Activated
      BY DEF Written, Activated
    <3>2. QED
      BY <2>1, <2>3, <2>4, <3>1, LandingTells
  <2>6. remote'.rows[b] = Parts
    BY <1>a, <1>b, <2>1, <2>2 DEF Effects, Whole, Harmless, Parts, WriteTyped, OfBuilds
  <2>7. b \in Rows' /\ b \notin remote'.claims
    BY <1>3, <2>1, <2>6 DEF Rows, Parts
  <2>8. QED
    BY <2>5, <2>6, <2>7 DEF Told, Tells, Rows, Whole, Written
<1>4. ASSUME NEW b \in (Rows \ remote.claims)' PROVE "artifacts" \in remote'.rows[b]
  <2>1. b \in Build /\ "row" \in remote'.rows[b]
    BY <1>4 DEF Rows
  <2>2. CASE w.op = "metadata"
    BY <1>a, <1>b, <1>4, <2>1, <2>2 DEF Effects, Rows, StoreIsSound, WriteTyped, OfBuilds
  <2>3. CASE w.op = "delete"
    BY <1>a, <1>b, <1>4, <2>1, <2>3 DEF Effects, Rows, StoreIsSound, Harmless, WriteTyped,
       OfBuilds
  <2>4. CASE w.op \notin {"metadata", "delete"}
    <3>1. b \in Rows
      BY <1>a, <1>b, <2>1, <2>4 DEF Effects, Rows, WriteTyped, OfBuilds
    <3>2. b \notin remote.claims
      BY <1>a, <1>4, <2>4, <3>1 DEF Effects, Rows
    <3>3. QED
      BY <1>a, <1>b, <2>1, <2>4, <3>1, <3>2 DEF Effects, StoreIsSound, WriteTyped, OfBuilds
  <2>5. QED
    BY <2>2, <2>3, <2>4
<1>5. ASSUME remote'.pointer.build # None
      PROVE  remote'.pointer.build \in (remote.verified \ remote.claims)'
  <2>1. CASE remote'.pointer = remote.pointer
    <3>1. remote.pointer.build \in retained
      BY <1>5, <2>1 DEF StoreIsSound
    <3>2. QED
      BY <1>1, <2>1, <3>1 DEF Claimable
  <2>2. CASE w.op = "switch" /\ Moves(remote, w) /\ remote'.pointer.build = w.build
    <3>1. w.build \in retained
      BY <2>2 DEF Moves
    <3>2. QED
      BY <1>1, <2>2, <3>1
  <2>3. QED
    BY <1>a, <2>1, <2>2 DEF Effects
<1>6. ASSUME NEW r \in Reader, reads[r] # None
      PROVE  reads[r] \in (remote.verified \ remote.claims)'
  <2>1. reads[r] \in retained
    BY <1>6 DEF StoreIsSound
  <2>2. ~Claimable(remote, reads[r])
    BY DEF Claimable, LiveRead
  <2>3. QED
    BY <1>1, <2>1, <2>2
<1>7. QED
  BY <1>3, <1>4, <1>5, <1>6 DEF StoreIsSound, RetainedBuildsAreWhole

(***************************************************************************)
(* What a machine sends is harmless when it is sent.                       *)
(***************************************************************************)
LEMMA RequestsAreHarmless ==
  ASSUME Faults = {}, TypeInv, RetentionInv, NEW m \in Machine, NEW w \in Requests(m),
         pc[m] = "stamp" => InTime(m)
  PROVE  Harmless(w) /\ (w.op = "switch" => w.what.verified)
<1>a. /\ TypeOK /\ CommandsAreSound /\ MemoryIsSound
      /\ DeployIsSound(m) /\ CleanupIsSound(m)
  BY DEF TypeInv, RetentionInv, DeploysAreSound, CleanupsAreSound
<1>b. w.by = m /\ w.op \in Ops /\ WriteTyped(w)
  BY <1>a, RequestsAreKnown, RequestsAreTyped
<1>c. w.op = "switch" => w.what.verified
  BY <1>b DEF WriteTyped
<1> USE DEF Request
<1>1. CASE pc[m] = "project"
  <2>1. w \in StageRequests(m) /\ task[m] = "deploy" /\ done[m] \in 0..4
    BY <1>a, <1>1 DEF Requests, CommandsAreSound, Written, Activated
  <2>2. Stage(m) \in Projections /\ (Stage(m) = "metadata" => done[m] = 0)
    BY <2>1 DEF Stage, Stages, Projections
  <2>3. w.op = Stage(m) /\ (w.op = "metadata" => w.build = target[m])
    <3>1. CASE Stage(m) = "archive"
      BY <2>1, <3>1 DEF StageRequests
    <3>2. CASE Stage(m) = "objects"
      BY <2>1, <3>2 DEF StageRequests
    <3>3. CASE Stage(m) \notin {"archive", "objects"}
      BY <2>1, <3>3 DEF StageRequests
    <3>4. QED
      BY <3>1, <3>2, <3>3
  <2>4. w.op = "metadata" => Unsaid(w)
    <3>1. /\ deployed[m] \in DeployReceipt /\ deployed[m].build = target[m]
          /\ deployed[m].done <= done[m] /\ target[m] \in Candidates[m]
          /\ done[m] < 3 => target[m] \notin remote.verified
      BY <1>a, <1>1, <2>1, ConstantsAssumption DEF DeployIsSound, DeployReceipt
    <3>2. QED
      BY <1>b, <2>1, <2>2, <2>3, <3>1 DEF Unsaid, DeployReceipt
  <2>5. QED
    BY <1>c, <2>2, <2>3, <2>4 DEF Harmless, Projections
<1>2. CASE pc[m] = "rows"
  <2>1. w.op = "delete" /\ w.build \in doomed[m].remove
    BY <1>2 DEF Requests, Deletions
  <2>2. w.build \in remote.claims
    BY <1>a, <1>2, <2>1 DEF CleanupIsSound
  <2>3. QED
    BY <1>c, <2>1, <2>2 DEF Harmless
<1>3. CASE pc[m] = "switch"
  <2>1. w.op = "switch"
    BY <1>3 DEF Requests, Switch
  <2>2. QED
    BY <1>c, <2>1 DEF Harmless
<1>4. CASE pc[m] \in {"own", "claim", "unclaim", "free"}
  <2>1. w.op = pc[m]
    BY <1>4 DEF Requests
  <2>2. QED
    BY <1>c, <1>4, <2>1 DEF Harmless
<1>5. CASE pc[m] = "mark"
  <2>1. w.op = "mark" /\ w.build = target[m]
    BY <1>5 DEF Requests
  <2>2. task[m] = "deploy" /\ done[m] = Projected /\ Told(target[m], done[m])
    BY <1>a, <1>5 DEF DeployIsSound, MemoryIsSound
  <2>3. QED
    BY <1>c, <2>1, <2>2 DEF Harmless
<1>6. CASE pc[m] = "stamp"
  <2>1. w.op = "stamp" /\ w.build = target[m]
    BY <1>6 DEF Requests
  <2>2. QED
    BY <1>6, <1>c, <2>1 DEF Harmless, InTime
<1>7. CASE pc[m] = "archives"
  <2>1. w.op = "dropArchive" /\ w.build \in doomed[m].archives
    BY <1>7 DEF Requests
  <2>2. QED
    BY <1>a, <1>c, <1>7, <2>1 DEF Harmless, CleanupIsSound
<1>8. CASE pc[m] = "objects"
  <2>1. w.op = "dropObject" /\ w.what \in doomed[m].objects
    BY <1>8 DEF Requests
  <2>2. QED
    BY <1>a, <1>c, <1>8, <2>1 DEF Harmless, CleanupIsSound
<1>9. CASE pc[m] \notin {"own", "project", "mark", "stamp", "switch", "claim", "unclaim", "rows",
                         "archives", "objects", "free"}
  BY <1>9 DEF Requests
<1>10. QED
  BY <1>1, <1>2, <1>3, <1>4, <1>5, <1>6, <1>7, <1>8, <1>9

\* A write that needs no guard leaves what is stored alone.
LEMMA QuietWrites ==
  ASSUME TypeOK, NEW w, WriteTyped(w), Harmless(w), Send(w), ~Guarded(w)
  PROVE  UNCHANGED <<remote.rows, remote.verified, remote.claims, remote.archives, remote.objects>>
<1>1. Effects(remote, w, remote') /\ w.op \in {"own", "switch", "stamp"}
  BY EffectsOfWrites DEF Send, TypeOK, Guarded, WriteTyped, Ops
<1>2. w.op = "stamp" => remote'.verified = remote.verified
  BY <1>1 DEF Effects, Harmless, Rows, WriteTyped, OfBuilds
<1>3. QED
  BY <1>1, <1>2 DEF Effects

(***************************************************************************)
(* The steps of the store, of cleanups and of deploys.                     *)
(***************************************************************************)
\* What lands may be counted on: it is harmless, and whoever else owns the guard
\* is not disturbed.
Fair(w) ==
  /\ WriteTyped(w) /\ Harmless(w)
  /\ w.op = "switch" => w.what.verified
  /\ Guarded(w) => \A q \in Machine : Owning(q) => q = w.by

LEMMA WritesAreFair ==
  ASSUME Faults = {}, TypeInv, GuardIsSound, RetentionInv
  PROVE  /\ \A m \in Machine : (pc[m] = "stamp" => InTime(m)) => \A w \in Requests(m) : Fair(w)
         /\ \A w \in late : Fair(w)
<1>a. ASSUME NEW m \in Machine, NEW w \in Requests(m), pc[m] = "stamp" => InTime(m)
      PROVE  Fair(w)
  <2>1. Harmless(w) /\ (w.op = "switch" => w.what.verified)
    BY <1>a, RequestsAreHarmless
  <2>2. WriteTyped(w)
    BY RequestsAreTyped DEF TypeInv
  <2>3. w.by = m /\ (Guarded(w) <=> Owning(m))
    BY RequestsAreKnown DEF TypeInv, Guarded
  <2>4. QED
    BY <2>1, <2>2, <2>3 DEF GuardIsSound, Fair
<1>b. ASSUME NEW w \in late PROVE Fair(w)
  <2>1. WriteTyped(w) /\ Harmless(w)
    BY DEF TypeInv, LateTyped, RetentionInv, LateAreSound
  <2>2. Guarded(w) => \A q \in Machine : Owning(q) => q = w.by
    BY <2>1, ConstantsAssumption DEF WriteTyped, GuardIsSound
  <2>3. QED
    BY <2>1, <2>2 DEF WriteTyped, Fair
<1>c. QED
  BY <1>a, <1>b

LEMMA FairWrites ==
  ASSUME Faults = {}, TypeInv, GuardIsSound, RetentionInv, [Next]_vars
  PROVE  \/ UNCHANGED remote
         \/ remote' = [remote EXCEPT !.guard = Free]
         \/ \E w : Fair(w) /\ Send(w)
<1>1. CASE \E m \in Machine : (pc[m] = "stamp" => InTime(m)) /\ \E w \in Requests(m) : Send(w)
  BY <1>1, WritesAreFair
<1>2. CASE \E w \in late : Send(w)
  BY <1>2, WritesAreFair
<1>3. QED
  BY <1>1, <1>2, WritesOfSteps DEF TypeInv

\* Reads come and go without a write.
LEMMA ReadsOfSteps ==
  ASSUME MemoryTyped, [Next]_vars
  PROVE  \/ UNCHANGED reads
         \/ \E r \in Reader, b \in Build : StartRead(r, b)
         \/ \E r \in Reader : EndRead(r)
<1>1. CASE \E m \in Machine : Acts(m)
  BY <1>1, ActsOfMachines
<1>2. CASE LateWriteLands \/ LateWriteIsLost \/ OperatorFreesGuard
  BY <1>2 DEF LateWriteLands, LateWriteIsLost, OperatorFreesGuard
<1>3. CASE UNCHANGED vars
  BY <1>3 DEF vars
<1>4. QED
  BY <1>1, <1>2, <1>3 DEF Next, Acts

LEMMA StoreStep ==
  ASSUME Faults = {}, TypeInv, GuardIsSound, RetentionInv, [Next]_vars
  PROVE  StoreIsSound'
<1>a. StoreIsSound /\ TypeOK
  BY DEF RetentionInv, TypeInv
<1>1. CASE UNCHANGED reads
  <2>1. CASE \E w : Fair(w) /\ Send(w)
    <3>1. PICK w : Fair(w) /\ Send(w)
      BY <2>1
    <3>2. QED
      BY <1>a, <1>1, <3>1, LandingKeepsStore DEF Fair
  <2>2. CASE UNCHANGED remote
    BY <1>a, <1>1, <2>2 DEF StoreIsSound, RetainedBuildsAreWhole, Whole, Rows
  <2>3. CASE remote' = [remote EXCEPT !.guard = Free]
    <3>1. UNCHANGED <<remote.rows, remote.verified, remote.claims, remote.archives, remote.objects,
                      remote.pointer>>
      BY <1>a, <2>3 DEF TypeOK, Catalog
    <3>2. QED
      BY <1>a, <1>1, <3>1 DEF StoreIsSound, RetainedBuildsAreWhole, Whole, Rows
  <2>4. QED
    BY <2>1, <2>2, <2>3, FairWrites
<1>2. ASSUME NEW r \in Reader, NEW b \in Build, StartRead(r, b) PROVE StoreIsSound'
  <2>1. UNCHANGED remote /\ reads' = [reads EXCEPT ![r] = b]
    BY <1>2 DEF StartRead
  <2>2. b \in remote.verified \ remote.claims
    BY <1>a, <1>2, ConstantsAssumption DEF StartRead, StoreIsSound
  <2>3. \A q \in Reader : reads'[q] # None => reads'[q] \in remote.verified \ remote.claims
    BY <1>a, <2>1, <2>2 DEF StoreIsSound, TypeOK
  <2>4. QED
    BY <1>a, <2>1, <2>3 DEF StoreIsSound, RetainedBuildsAreWhole, Whole, Rows
<1>3. ASSUME NEW r \in Reader, EndRead(r) PROVE StoreIsSound'
  <2>1. UNCHANGED remote /\ reads' = [reads EXCEPT ![r] = None]
    BY <1>3 DEF EndRead
  <2>2. \A q \in Reader : reads'[q] # None => reads'[q] \in remote.verified \ remote.claims
    BY <1>a, <2>1 DEF StoreIsSound, TypeOK
  <2>3. QED
    BY <1>a, <2>1, <2>2 DEF StoreIsSound, RetainedBuildsAreWhole, Whole, Rows
<1>4. QED
  BY <1>1, <1>2, <1>3, ReadsOfSteps DEF TypeInv

LEMMA CleanupOfMachine ==
  ASSUME TypeInv, NEW m \in Machine, CleanupIsSound(m), Acts(m)
  PROVE  CleanupIsSound(m)'
<1>a. TypeOK /\ CommandsAreSound /\ MemoryIsSound
  BY DEF TypeInv
<1>b. ASSUME NEW w \in Requests(m), Send(w) PROVE Effects(remote, w, remote') /\ WriteTyped(w)
  BY <1>a, <1>b, RequestsAreTyped, EffectsOfWrites DEF Send, TypeOK
<1>c. /\ pc \in [Machine -> Steps] /\ doomed \in [Machine -> Plan]
      /\ done \in [Machine -> 0..Activated] /\ remote.claims \subseteq Build
  BY <1>a DEF TypeOK, Catalog
<1> USE <1>c DEF CleanupIsSound
<1>1. ASSUME NEW b \in Build, Deploy(m, b) PROVE CleanupIsSound(m)'
  BY <1>1 DEF Deploy, Start, Go, machineVars
<1>2. ASSUME NEW b \in Build, RollbackTo(m, b) PROVE CleanupIsSound(m)'
  BY <1>2 DEF RollbackTo, Start, Go, machineVars
<1>3. ASSUME ResumeDeploy(m) PROVE CleanupIsSound(m)'
  BY <1>3 DEF ResumeDeploy, Start, Go, machineVars
<1>4. ASSUME RollbackToPrevious(m) PROVE CleanupIsSound(m)'
  BY <1>4 DEF RollbackToPrevious, Start, Go, machineVars
<1>5. ASSUME Prune(m) PROVE CleanupIsSound(m)'
  BY <1>5 DEF Prune, Start, Go, machineVars
<1>6. ASSUME ResumePrune(m) PROVE CleanupIsSound(m)'
  BY <1>6 DEF ResumePrune, Start, Go, machineVars
<1>7. ASSUME Refused(m) PROVE CleanupIsSound(m)'
  BY <1>7 DEF Refused, Stop, Go, At, machineVars
<1>8. ASSUME Acquire(m) PROVE CleanupIsSound(m)'
  <2>1. /\ pc'[m] \in {"inspect", "smoke", "claim", "recheck"}
        /\ pc'[m] = "claim" => Phase(m) = "cleanup" /\ done[m] < CatalogGone
    BY <1>8 DEF Acquire, At, Go, Phase
  <2>2. pc'[m] = "claim" => doomed'[m] = NoPlan
    BY <1>8, <2>1 DEF Acquire
  <2>3. QED
    BY <2>1, <2>2 DEF NoPlan
<1>9. ASSUME Inspect(m) PROVE CleanupIsSound(m)'
  BY <1>9 DEF Inspect, Go, At, machineVars
<1>10. ASSUME Project(m) PROVE CleanupIsSound(m)'
  BY <1>10 DEF Project, Advance, Go, At, machineVars
<1>11. ASSUME Skip(m) PROVE CleanupIsSound(m)'
  BY <1>11 DEF Skip, Advance, Go, At, machineVars
<1>12. ASSUME Smoke(m) PROVE CleanupIsSound(m)'
  BY <1>12 DEF Smoke, Go, At, machineVars
<1>13. ASSUME Mark(m) PROVE CleanupIsSound(m)'
  BY <1>13 DEF Mark, Go, At, machineVars
<1>14. ASSUME FreeGuard(m) PROVE CleanupIsSound(m)'
  BY <1>14 DEF FreeGuard, Stop, At, Go
<1>15. ASSUME ReadPointer(m) PROVE CleanupIsSound(m)'
  BY <1>15 DEF ReadPointer, Stop, Go, At, machineVars
<1>16. ASSUME MoveTo(m) PROVE CleanupIsSound(m)'
  BY <1>16 DEF MoveTo, Stop, Go, At, machineVars
<1>17. ASSUME Stamp(m) PROVE CleanupIsSound(m)'
  BY <1>17 DEF Stamp, Stop, Go, At, machineVars
<1>18. ASSUME Claim(m) PROVE CleanupIsSound(m)'
  <2>1. PICK w \in Requests(m) :
          /\ Send(w)
          /\ doomed' = [doomed EXCEPT ![m].remove =
               IF Claimable(remote, w.build) THEN @ \cup {w.build} ELSE @]
    BY <1>18 DEF Claim
  <2>2. w.op = "claim"
    BY <1>18 DEF Claim, At, Requests, Request
  <2>3. doomed'[m].remove = IF Claimable(remote, w.build) THEN doomed[m].remove \cup {w.build}
                                                         ELSE doomed[m].remove
    BY <2>1 DEF Plan
  <2>4. remote'.claims = IF Claimable(remote, w.build) THEN remote.claims \cup {w.build}
                                                      ELSE remote.claims
    BY <1>b, <2>1, <2>2 DEF Effects
  <2>5. pc[m] = "claim" /\ UNCHANGED pc
    BY <1>18 DEF Claim, At
  <2>6. QED
    BY <2>3, <2>4, <2>5
<1>19. ASSUME Narrow(m) PROVE CleanupIsSound(m)'
  BY <1>19 DEF Narrow, Go, At, machineVars
<1>20. ASSUME DeleteRows(m) PROVE CleanupIsSound(m)'
  <2>1. PICK w \in Requests(m) : Send(w)
    BY <1>20 DEF DeleteRows
  <2>2. pc[m] = "rows" /\ UNCHANGED <<pc, doomed>>
    BY <1>20 DEF DeleteRows, At, machineVars
  <2>3. w.op = "delete"
    BY <2>2 DEF Requests, Deletions, Request
  <2>4. remote'.claims = remote.claims
    BY <1>b, <2>1, <2>3 DEF Effects
  <2>5. QED
    BY <2>2, <2>4
<1>21. ASSUME RowsGone(m) PROVE CleanupIsSound(m)'
  BY <1>21 DEF RowsGone, Go, At, machineVars
<1>22. ASSUME Recheck(m) PROVE CleanupIsSound(m)'
  <2>1. pc[m] = "recheck" /\ UNCHANGED remote /\ pc'[m] \in {"archives", "objects", "unclaim"}
    BY <1>22 DEF Recheck, At, Go
  <2>2. /\ doomed'[m].archives = doomed[m].archives \ Rows
        /\ doomed'[m].objects = doomed[m].objects \ Hashes(Build)
    BY <1>22 DEF Recheck, Plan
  <2>3. QED
    BY <2>1, <2>2 DEF Rows, Hashes
<1>23. ASSUME DeleteKeys(m) PROVE CleanupIsSound(m)'
  <2>1. PICK w \in Requests(m) : Send(w)
    BY <1>23 DEF DeleteKeys
  <2>2. pc[m] \in {"archives", "objects"} /\ UNCHANGED <<pc, doomed>>
    BY <1>23 DEF DeleteKeys, machineVars
  <2>3. w.op \in {"dropArchive", "dropObject"}
    BY <2>2 DEF Requests, Request
  <2>4. remote'.rows = remote.rows
    BY <1>b, <2>1, <2>3 DEF Effects
  <2>5. QED
    BY <2>2, <2>4 DEF Rows, Hashes
<1>24. ASSUME KeysGone(m) PROVE CleanupIsSound(m)'
  BY <1>24 DEF KeysGone, At, Go, Rows, Hashes
<1>25. ASSUME Unclaim(m) PROVE CleanupIsSound(m)'
  BY <1>25 DEF Unclaim, At, machineVars
<1>26. ASSUME Unclaimed(m) PROVE CleanupIsSound(m)'
  BY <1>26 DEF Unclaimed, Go, At, machineVars
<1>27. ASSUME Kill(m) PROVE CleanupIsSound(m)'
  BY <1>27 DEF Kill, Stop, Go, machineVars
<1>28. ASSUME LoseAnswer(m) PROVE CleanupIsSound(m)'
  BY <1>28 DEF LoseAnswer, Stop, Go, Midway, machineVars
<1>29. ASSUME FailRead(m) PROVE CleanupIsSound(m)'
  BY <1>29 DEF FailRead, Go, At, Midway, machineVars
<1>30. QED
  BY <1>1, <1>2, <1>3, <1>4, <1>5, <1>6, <1>7, <1>8, <1>9, <1>10, <1>11, <1>12, <1>13, <1>14,
     <1>15, <1>16, <1>17, <1>18, <1>19, <1>20, <1>21, <1>22, <1>23, <1>24, <1>25, <1>26, <1>27,
     <1>28, <1>29 DEF Acts, Command, Step, Trouble

\* Who does not act remembers, and who owns the guard is not disturbed.
LEMMA WaitingMachines ==
  ASSUME Faults = {}, TypeInv, GuardIsSound, RetentionInv, [Next]_vars, NEW q \in Machine, ~Acts(q)
  PROVE  /\ UNCHANGED Memory(q)
         /\ Owning(q) => UNCHANGED <<remote.rows, remote.verified, remote.claims,
                                     remote.archives, remote.objects>>
<1>a. MemoryTyped
  BY DEF TypeInv
<1>b. ASSUME NEW w, Fair(w), Send(w), w.by # q \/ w \in late, Owning(q)
      PROVE  UNCHANGED <<remote.rows, remote.verified, remote.claims, remote.archives,
                         remote.objects>>
  <2>1. ~Guarded(w)
    BY <1>b DEF Fair, GuardIsSound
  <2>2. QED
    BY <1>b, <2>1, QuietWrites DEF Fair, TypeInv
<1>1. CASE \E m \in Machine : Acts(m)
  <2>1. PICK m \in Machine : Acts(m)
    BY <1>1
  <2>2. UNCHANGED Memory(q)
    BY <1>a, <2>1, ActsOfMachines
  <2>3. UNCHANGED remote \/ \E w : Fair(w) /\ Send(w) /\ w.by = m
    BY <1>a, <2>1, ActsOfMachines, WritesAreFair, RequestsAreKnown DEF TypeInv
  <2>4. QED
    BY <1>b, <2>1, <2>2, <2>3
<1>2. CASE LateWriteLands
  <2>1. PICK w \in late : Send(w)
    BY <1>2 DEF LateWriteLands
  <2>2. Fair(w)
    BY WritesAreFair
  <2>3. UNCHANGED Memory(q)
    BY <1>2 DEF LateWriteLands, Memory, machineVars, receipts
  <2>4. QED
    BY <1>b, <2>1, <2>2, <2>3
<1>3. CASE LateWriteIsLost
  BY <1>3 DEF LateWriteIsLost, Memory, machineVars, receipts
<1>4. CASE OperatorFreesGuard
  BY <1>4 DEF OperatorFreesGuard, Memory, machineVars, receipts, TypeInv, TypeOK, Catalog
<1>5. CASE \E r \in Reader : EndRead(r) \/ \E b \in Build : StartRead(r, b)
  BY <1>5 DEF EndRead, StartRead, Memory, machineVars, receipts
<1>6. CASE UNCHANGED vars
  BY <1>6 DEF vars, Memory, machineVars, receipts
<1>7. QED
  BY <1>1, <1>2, <1>3, <1>4, <1>5, <1>6 DEF Next, Acts

LEMMA CleanupsStep ==
  ASSUME Faults = {}, TypeInv, GuardIsSound, RetentionInv, [Next]_vars
  PROVE  CleanupsAreSound'
<1>1. ASSUME NEW q \in Machine PROVE CleanupIsSound(q)'
  <2>1. CleanupIsSound(q)
    BY DEF RetentionInv, CleanupsAreSound
  <2>2. CASE Acts(q)
    BY <2>1, <2>2, CleanupOfMachine
  <2>3. CASE ~Acts(q)
    <3>1. UNCHANGED Memory(q)
      BY <2>3, WaitingMachines
    <3>2. Owning(q) => UNCHANGED <<remote.rows, remote.claims>>
      BY <2>3, WaitingMachines
    <3>3. pc[q] \in {"claim", "rows", "archives", "objects"} => Owning(q)
      BY DEF Owning
    <3>4. QED
      BY <2>1, <3>1, <3>2, <3>3 DEF CleanupIsSound, Memory, Rows, Hashes
  <2>4. QED
    BY <2>2, <2>3
<1>2. QED
  BY <1>1 DEF CleanupsAreSound

\* What a deploy receipt or a running deploy says stays true, whatever lands.
LEMMA TellingSurvives ==
  ASSUME Faults = {}, TypeInv, GuardIsSound, RetentionInv, [Next]_vars, NEW q \in Machine
  PROVE  /\ deployed[q] # None => Tells(remote', deployed[q].build, deployed[q].done)
         /\ task[q] = "deploy" => Tells(remote', target[q], done[q])
         /\ task[q] = "deploy" /\ pc[q] = "free" /\ failed[q] = "no" /\ done[q] = Projected
              => Tells(remote', target[q], Verified)
<1>a. TypeOK /\ StoreIsSound /\ DeployIsSound(q)
  BY DEF TypeInv, RetentionInv, DeploysAreSound
<1>b. ASSUME NEW w, Fair(w), Send(w), NEW b \in Build, NEW n \in 0..Activated, Tells(remote, b, n),
             w.op = "metadata" /\ w.build = b => n = 0
      PROVE  Tells(remote', b, n)
  BY <1>a, <1>b, LandingTells DEF Fair, Told
<1>c. /\ deployed[q] # None => /\ deployed[q].build \in Build /\ deployed[q].done \in 0..Activated
                               /\ deployed[q].build \in Candidates[q]
                               /\ Tells(remote, deployed[q].build, deployed[q].done)
      /\ task[q] = "deploy" => /\ target[q] \in Build /\ done[q] \in 0..Activated
                               /\ target[q] \in Candidates[q]
                               /\ Tells(remote, target[q], done[q])
      /\ task[q] = "deploy" /\ pc[q] = "free" /\ failed[q] = "no" /\ done[q] = Projected
           => Tells(remote, target[q], Verified)
  BY <1>a, ConstantsAssumption DEF DeployIsSound, Told, TypeOK
<1>1. CASE \E w : Fair(w) /\ Send(w)
  <2>1. PICK w : Fair(w) /\ Send(w)
    BY <1>1
  <2>2. ASSUME w.op = "metadata", w.build \in Candidates[q]
        PROVE  /\ deployed[q] # None /\ deployed[q].build = w.build => deployed[q].done = 0
               /\ task[q] = "deploy" /\ target[q] = w.build => done[q] = 0
    <3>1. w.build \in Candidates[w.by] /\ Unsaid(w) /\ w.by \in Machine
      BY <2>1, <2>2 DEF Fair, Harmless, Unsaid, WriteTyped
    <3>2. w.by = q
      BY <2>2, <3>1, ConstantsAssumption
    <3>3. QED
      BY <3>1, <3>2 DEF Unsaid
  <2>3. deployed[q] # None => Tells(remote', deployed[q].build, deployed[q].done)
    BY <1>b, <1>c, <2>1, <2>2
  <2>4. task[q] = "deploy" => Tells(remote', target[q], done[q])
    BY <1>b, <1>c, <2>1, <2>2
  <2>5. task[q] = "deploy" /\ pc[q] = "free" /\ failed[q] = "no" /\ done[q] = Projected
              => Tells(remote', target[q], Verified)
    <3>1. Verified \in 0..Activated /\ Projected # 0
      BY DEF Verified, Activated, Projected
    <3>2. QED
      BY <1>b, <1>c, <2>1, <2>2, <3>1
  <2>6. QED
    BY <2>3, <2>4, <2>5
<1>2. CASE UNCHANGED remote
  BY <1>c, <1>2
<1>3. CASE remote' = [remote EXCEPT !.guard = Free]
  BY <1>a, <1>c, <1>3 DEF Tells, TypeOK, Catalog
<1>4. QED
  BY <1>1, <1>2, <1>3, FairWrites

LEMMA DeployOfMachine ==
  ASSUME TypeInv, StoreIsSound, NEW m \in Machine, DeployIsSound(m), Acts(m),
         deployed[m] # None => Tells(remote', deployed[m].build, deployed[m].done),
         task[m] = "deploy" => Tells(remote', target[m], done[m]),
         task[m] = "deploy" /\ pc[m] = "free" /\ failed[m] = "no" /\ done[m] = Projected
           => Tells(remote', target[m], Verified)
  PROVE  DeployIsSound(m)'
<1>a. TypeOK /\ CommandsAreSound /\ MemoryIsSound
  BY DEF TypeInv
<1>b. ASSUME NEW w \in Requests(m), Send(w)
      PROVE  Effects(remote, w, remote') /\ WriteTyped(w) /\ remote' \in Catalog
  <2>1. CatalogTyped(remote)
    BY <1>a DEF TypeOK, CatalogTyped, Rows
  <2>2. WriteTyped(w) /\ Effects(remote, w, remote')
    BY <1>a, <1>b, RequestsAreTyped, EffectsOfWrites DEF Send, TypeOK
  <2>3. CatalogTyped(remote')
    BY <1>b, <2>1, <2>2, LandingIsTyped DEF Send
  <2>4. QED
    BY <2>2, <2>3 DEF CatalogTyped
<1>c. /\ pc \in [Machine -> Steps] /\ failed \in [Machine -> {"no", "early", "midway"}]
      /\ task \in [Machine -> {"none", "deploy", "prune", "rollback"}]
      /\ target \in [Machine -> Build \cup {None}] /\ done \in [Machine -> 0..Activated]
      /\ DOMAIN deployed = Machine
      /\ deployed[m] = None \/ deployed[m] \in DeployReceipt
      /\ task[m] = "deploy" => target[m] \in Build
      /\ pc[m] = "idle" => task[m] = "none" /\ done[m] = 0
      /\ pc[m] \in {"inspect", "project", "smoke", "mark"} => task[m] = "deploy"
      /\ pc[m] \in Cleaning => task[m] = "prune"
      /\ pc[m] = "inspect" => done[m] < Projected
      /\ pc[m] = "project" => done[m] < Written
  BY <1>a DEF TypeOK, CommandsAreSound, MemoryIsSound, DeployReceipt
<1> USE <1>c DEF DeployIsSound, Told, Written, Projected, Verified, Activated, DeployReceipt, Cleaning
<1>s. ASSUME Stop(m), \/ deployed'[m] = deployed[m]
                      \/ /\ task[m] = "deploy"
                         /\ deployed'[m] = [build |-> target[m], done |-> done[m]]
      PROVE  DeployIsSound(m)'
  <2>1. task'[m] = "none"
    BY <1>s DEF Stop
  <2>2. deployed'[m] # None =>
          deployed'[m].build \in Candidates[m] /\ Tells(remote', deployed'[m].build, deployed'[m].done)
    BY <1>s
  <2>3. QED
    BY <2>1, <2>2
<1>e. ASSUME NEW midway, SaveError(m, midway)
      PROVE  \/ deployed'[m] = deployed[m]
             \/ task[m] = "deploy" /\ deployed'[m] = [build |-> target[m], done |-> done[m]]
  BY <1>e DEF SaveError, SaveDeploy, SaveCleanup, receipts
<1>1. ASSUME NEW b \in Build, Deploy(m, b) PROVE DeployIsSound(m)'
  <2>1. Tells(remote', b, 0)
    BY DEF Tells
  <2>2. QED
    BY <1>1, <2>1 DEF Deploy, Start, Go
<1>2. ASSUME NEW b \in Build, RollbackTo(m, b) PROVE DeployIsSound(m)'
  BY <1>2 DEF RollbackTo, Start, Go, machineVars, receipts
<1>3. ASSUME ResumeDeploy(m) PROVE DeployIsSound(m)'
  BY <1>3 DEF ResumeDeploy, Start, Go, machineVars, receipts
<1>4. ASSUME RollbackToPrevious(m) PROVE DeployIsSound(m)'
  BY <1>4 DEF RollbackToPrevious, Start, Go, machineVars, receipts
<1>5. ASSUME Prune(m) PROVE DeployIsSound(m)'
  BY <1>5 DEF Prune, Start, Go, machineVars, receipts
<1>6. ASSUME ResumePrune(m) PROVE DeployIsSound(m)'
  BY <1>6 DEF ResumePrune, Start, Go, machineVars, receipts
<1>7. ASSUME Refused(m) PROVE DeployIsSound(m)'
  BY <1>7, <1>s, <1>e DEF Refused
<1>8. ASSUME Acquire(m) PROVE DeployIsSound(m)'
  <2>1. pc[m] = "own" /\ UNCHANGED <<task, target, done, failed, deployed>>
    BY <1>8 DEF Acquire, At, receipts
  <2>2. CASE task[m] = "deploy"
    <3>1. /\ pc'[m] \in {"inspect", "smoke"}
          /\ pc'[m] = "smoke" => done[m] = Projected
      BY <1>8, <2>1, <2>2 DEF Acquire, Phase, Go
    <3>2. QED
      BY <2>1, <2>2, <3>1
  <2>3. CASE task[m] # "deploy"
    BY <2>1, <2>3
  <2>4. QED
    BY <2>2, <2>3
<1>9. ASSUME Inspect(m) PROVE DeployIsSound(m)'
  <2>1. /\ pc[m] = "inspect" /\ UNCHANGED <<remote, task, target, deployed>>
        /\ task[m] = "deploy"
    BY <1>9 DEF Inspect, At, receipts
  <2>2. CASE Writable(m)
    <3>1. /\ done'[m] = IF target[m] \in remote.verified /\ done[m] < 3 THEN 3 ELSE done[m]
          /\ pc'[m] = IF done[m] = Written THEN "free" ELSE "project"
      BY <1>9, <2>2 DEF Inspect, Go
    <3>2. Tells(remote', target[m], done'[m])
      <4>1. CASE target[m] \in remote.verified /\ done[m] < 3
        <5>1. target[m] \notin remote.claims => Whole(target[m])
          BY <4>1 DEF StoreIsSound, RetainedBuildsAreWhole
        <5>2. QED
          BY <2>1, <3>1, <4>1, <5>1 DEF Tells, Whole, Parts
      <4>2. CASE ~(target[m] \in remote.verified /\ done[m] < 3)
        BY <2>1, <3>1, <4>2
      <4>3. QED
        BY <4>1, <4>2
    <3>3. QED
      BY <2>1, <3>1, <3>2
  <2>3. CASE ~Writable(m)
    BY <1>9, <2>1, <2>3 DEF Inspect, Go
  <2>4. QED
    BY <2>2, <2>3
<1>10. ASSUME Project(m) PROVE DeployIsSound(m)'
  <2>1. /\ pc[m] = "project" /\ task[m] = "deploy" /\ done[m] \in 0..4
        /\ UNCHANGED <<task, target, failed, deployed>>
    BY <1>10 DEF Project, At, receipts
  <2>2. PICK w \in Requests(m) : Send(w)
    BY <1>10 DEF Project
  <2>3. /\ Effects(remote, w, remote') /\ remote \in Catalog /\ remote' \in Catalog
        /\ w \in StageRequests(m)
    BY <1>a, <1>b, <2>1, <2>2 DEF TypeOK, Requests
  <2>4. CASE Stage(m) = "objects"
    <3>1. UNCHANGED <<pc, done>> /\ done[m] = 4
      BY <1>10, <2>1, <2>4 DEF Project, Stage, Stages
    <3>2. QED
      BY <2>1, <3>1
  <2>5. CASE Stage(m) # "objects"
    <3>1. /\ done[m] \in 0..3 /\ done'[m] = done[m] + 1
          /\ pc'[m] = "project"
      BY <1>10, <2>1, <2>5 DEF Project, Advance, Go, Stage, Stages
    <3>2. w.op = Stage(m) /\ w.build = target[m]
      <4>1. CASE Stage(m) = "archive"
        BY <2>3, <4>1 DEF StageRequests, Request
      <4>2. CASE Stage(m) # "archive"
        BY <2>3, <2>5, <4>2 DEF StageRequests, Request
      <4>3. QED
        BY <4>1, <4>2
    <3>3. /\ Stage(m) = "metadata" <=> done[m] = 0
          /\ Stage(m) = "search" <=> done[m] = 1
          /\ Stage(m) = "tables" <=> done[m] = 2
          /\ Stage(m) = "archive" <=> done[m] = 3
      BY <3>1 DEF Stage, Stages
    <3>4. Tells(remote', target[m], done[m] + 1)
      <4>a. remote.rows \in [Build -> SUBSET Parts] /\ target[m] \in Build
        BY <2>1, <2>3 DEF Catalog
      <4>1. done[m] \in {1, 2} => remote'.rows[target[m]] = remote.rows[target[m]] \cup {Stage(m)}
        <5>1. done[m] \in {1, 2} =>
                remote'.rows = [remote.rows EXCEPT ![target[m]] = @ \cup {Stage(m)}]
          BY <2>3, <3>2, <3>3 DEF Effects
        <5>2. QED
          BY <4>a, <5>1
      <4>2. /\ done[m] = 1 => "search" \in remote'.rows[target[m]]
            /\ done[m] = 2 => "tables" \in remote'.rows[target[m]]
        BY <3>3, <4>1
      <4>3. done[m] = 3 => target[m] \in remote'.archives
        BY <2>3, <3>2, <3>3 DEF Effects, Catalog
      <4>4. QED
        BY <2>1, <3>1, <4>2, <4>3 DEF Tells
    <3>5. done[m] < 2 => target[m] \notin remote'.verified
      BY <2>1, <2>3, <3>2, <3>3 DEF Effects
    <3>6. QED
      BY <2>1, <3>1, <3>4, <3>5
  <2>6. QED
    BY <2>4, <2>5
<1>11. ASSUME Skip(m) PROVE DeployIsSound(m)'
  <2>1. /\ pc[m] = "project" /\ task[m] = "deploy" /\ done[m] \in 0..4
        /\ UNCHANGED <<remote, task, target, failed, deployed>> /\ StageRequests(m) = {}
    BY <1>11 DEF Skip, At, receipts, Requests
  <2>2. done'[m] = done[m] + 1 /\ pc'[m] = IF done[m] = 4 THEN "free" ELSE "project"
    BY <1>11, <2>1 DEF Skip, Advance, Go
  <2>3. \/ Stage(m) = "archive" /\ done[m] = 3 /\ target[m] \in remote.archives
        \/ Stage(m) = "objects" /\ done[m] = 4 /\ Body[target[m]] \subseteq remote.objects
    <3>1. CASE Stage(m) = "archive"
      <4>1. target[m] \in remote.archives
        BY <2>1, <3>1 DEF StageRequests
      <4>2. done[m] = 3
        BY <2>1, <3>1 DEF Stage, Stages
      <4>3. QED
        BY <3>1, <4>1, <4>2
    <3>2. CASE Stage(m) = "objects"
      <4>1. MissingObjects(target[m]) = {}
        BY <2>1, <3>2 DEF StageRequests
      <4>2. done[m] = 4
        BY <2>1, <3>2 DEF Stage, Stages
      <4>3. QED
        BY <3>2, <4>1, <4>2 DEF MissingObjects
    <3>3. CASE Stage(m) \notin {"archive", "objects"}
      BY <2>1, <3>3 DEF StageRequests
    <3>4. QED
      BY <3>1, <3>2, <3>3
  <2>4. Tells(remote', target[m], done[m] + 1)
    BY <2>1, <2>3 DEF Tells
  <2>5. QED
    BY <2>1, <2>2, <2>3, <2>4
<1>12. ASSUME Smoke(m) PROVE DeployIsSound(m)'
  BY <1>12 DEF Smoke, Go, At, machineVars, receipts
<1>13. ASSUME Mark(m) PROVE DeployIsSound(m)'
  <2>1. /\ pc[m] = "mark" /\ task[m] = "deploy" /\ done[m] = Projected /\ pc'[m] = "free"
        /\ UNCHANGED <<task, target, done, failed, deployed>>
    BY <1>13 DEF Mark, At, Go, receipts
  <2>2. PICK w \in Requests(m) : Send(w)
    BY <1>13 DEF Mark
  <2>3. w.op = "mark" /\ w.build = target[m] /\ Effects(remote, w, remote')
    BY <1>b, <2>1, <2>2 DEF Requests, Request
  <2>4. "row" \in remote'.rows[target[m]] => target[m] \in remote'.verified
    BY <2>3 DEF Effects
  <2>5. Tells(remote', target[m], Verified)
    BY <2>1, <2>4 DEF Tells
  <2>6. QED
    BY <2>1, <2>5
<1>14. ASSUME FreeGuard(m) PROVE DeployIsSound(m)'
  <2>1. CASE failed[m] # "no"
    BY <1>14, <2>1, <1>s, <1>e DEF FreeGuard
  <2>2. CASE failed[m] = "no" /\ task[m] = "prune"
    BY <1>14, <2>2, <1>s DEF FreeGuard, SaveApplied
  <2>3. CASE failed[m] = "no" /\ task[m] # "prune"
    <3>1. pc[m] = "free" /\ task[m] = "deploy"
      BY <1>a, <1>14, <2>3 DEF FreeGuard, At, CommandsAreSound, Owning
    <3>2. /\ done[m] \in {Written, Projected} /\ UNCHANGED <<task, target, failed>>
          /\ done'[m] = IF done[m] = Written THEN Projected ELSE Verified
          /\ deployed'[m] = [build |-> target[m], done |-> done'[m]]
          /\ pc'[m] = IF done[m] = Written THEN "own" ELSE "pointer"
      BY <1>14, <2>3, <3>1 DEF FreeGuard, SaveDeploy, Go
    <3>3. Tells(remote', target[m], done'[m])
      BY <2>3, <3>1, <3>2 DEF Tells
    <3>4. QED
      BY <2>3, <3>1, <3>2, <3>3
  <2>4. QED
    BY <2>1, <2>2, <2>3
<1>15. ASSUME ReadPointer(m) PROVE DeployIsSound(m)'
  <2>1. CASE task[m] = "deploy" => target[m] \in remote.verified
    BY <1>15, <2>1 DEF ReadPointer, At, Go, receipts
  <2>2. CASE ~(task[m] = "deploy" => target[m] \in remote.verified)
    BY <1>15, <2>2, <1>s DEF ReadPointer, receipts
  <2>3. QED
    BY <2>1, <2>2
<1>16. ASSUME MoveTo(m) PROVE DeployIsSound(m)'
  <2>1. CASE Moves(remote, Switch(m))
    BY <1>16, <2>1 DEF MoveTo, At, Go, receipts
  <2>2. CASE ~Moves(remote, Switch(m))
    BY <1>16, <2>2, <1>s DEF MoveTo, receipts
  <2>3. QED
    BY <2>1, <2>2
<1>17. ASSUME Stamp(m) PROVE DeployIsSound(m)'
  <2>1. CASE task[m] = "deploy"
    <3>1. /\ pc[m] = "stamp" /\ task'[m] = "none"
          /\ deployed'[m] = [build |-> target[m], done |-> Activated]
      BY <1>17, <2>1 DEF Stamp, At, Stop, SaveDeploy
    <3>2. Tells(remote', target[m], Activated)
      BY <2>1, <3>1 DEF Tells
    <3>3. QED
      BY <2>1, <3>1, <3>2
  <2>2. CASE task[m] # "deploy"
    BY <1>17, <2>2, <1>s DEF Stamp, receipts
  <2>3. QED
    BY <2>1, <2>2
<1>18. ASSUME Claim(m) PROVE DeployIsSound(m)'
  BY <1>18 DEF Claim, At, machineVars, receipts
<1>19. ASSUME Narrow(m) PROVE DeployIsSound(m)'
  BY <1>19 DEF Narrow, Go, At, machineVars, receipts
<1>20. ASSUME DeleteRows(m) PROVE DeployIsSound(m)'
  BY <1>20 DEF DeleteRows, At, machineVars, receipts
<1>21. ASSUME RowsGone(m) PROVE DeployIsSound(m)'
  BY <1>21 DEF RowsGone, Go, At, machineVars, receipts
<1>22. ASSUME Recheck(m) PROVE DeployIsSound(m)'
  BY <1>22 DEF Recheck, Go, At, machineVars, receipts
<1>23. ASSUME DeleteKeys(m) PROVE DeployIsSound(m)'
  BY <1>23 DEF DeleteKeys, machineVars, receipts
<1>24. ASSUME KeysGone(m) PROVE DeployIsSound(m)'
  BY <1>24 DEF KeysGone, Go, At, machineVars, receipts
<1>25. ASSUME Unclaim(m) PROVE DeployIsSound(m)'
  BY <1>25 DEF Unclaim, At, machineVars, receipts
<1>26. ASSUME Unclaimed(m) PROVE DeployIsSound(m)'
  BY <1>26 DEF Unclaimed, Go, At, machineVars, receipts
<1>27. ASSUME Kill(m) PROVE DeployIsSound(m)'
  BY <1>27, <1>s DEF Kill, receipts
<1>28. ASSUME LoseAnswer(m) PROVE DeployIsSound(m)'
  BY <1>28, <1>s, <1>e DEF LoseAnswer
<1>29. ASSUME FailRead(m) PROVE DeployIsSound(m)'
  BY <1>29 DEF FailRead, Go, At, Midway, machineVars, receipts
<1>30. QED
  BY <1>1, <1>2, <1>3, <1>4, <1>5, <1>6, <1>7, <1>8, <1>9, <1>10, <1>11, <1>12, <1>13, <1>14,
     <1>15, <1>16, <1>17, <1>18, <1>19, <1>20, <1>21, <1>22, <1>23, <1>24, <1>25, <1>26, <1>27,
     <1>28, <1>29 DEF Acts, Command, Step, Trouble

LEMMA DeploysStep ==
  ASSUME Faults = {}, TypeInv, GuardIsSound, RetentionInv, [Next]_vars
  PROVE  DeploysAreSound'
<1>1. ASSUME NEW q \in Machine PROVE DeployIsSound(q)'
  <2>1. DeployIsSound(q) /\ StoreIsSound
    BY DEF RetentionInv, DeploysAreSound
  <2>2. /\ deployed[q] # None => Tells(remote', deployed[q].build, deployed[q].done)
        /\ task[q] = "deploy" => Tells(remote', target[q], done[q])
        /\ task[q] = "deploy" /\ pc[q] = "free" /\ failed[q] = "no" /\ done[q] = Projected
             => Tells(remote', target[q], Verified)
    BY TellingSurvives
  <2>3. CASE Acts(q)
    BY <2>1, <2>2, <2>3, DeployOfMachine
  <2>4. CASE ~Acts(q)
    <3>1. UNCHANGED Memory(q)
      BY <2>4, WaitingMachines
    <3>2. pc[q] = "project" => remote'.verified = remote.verified
      BY <2>4, WaitingMachines DEF Owning
    <3>3. QED
      BY <2>1, <2>2, <3>1, <3>2 DEF DeployIsSound, Told, Memory
  <2>5. QED
    BY <2>3, <2>4
<1>2. QED
  BY <1>1 DEF DeploysAreSound

(***************************************************************************)
(* The writes that land late.                                              *)
(***************************************************************************)
\* As long as a projection of u may land, no receipt says anything of u:
\* the guard that projection holds keeps its machine out as well.
LEMMA SilenceStays ==
  ASSUME TypeInv, NEW m \in Machine, DeployIsSound(m), Acts(m), ~Owning(m), remote.guard # Free,
         NEW u,
         deployed[m] # None /\ deployed[m].build = u => deployed[m].done = 0,
         task[m] = "deploy" /\ target[m] = u => done[m] = 0
  PROVE  /\ deployed'[m] # None /\ deployed'[m].build = u => deployed'[m].done = 0
         /\ task'[m] = "deploy" /\ target'[m] = u => done'[m] = 0
<1> DEFINE Silent == /\ deployed'[m] # None /\ deployed'[m].build = u => deployed'[m].done = 0
                     /\ task'[m] = "deploy" /\ target'[m] = u => done'[m] = 0
<1>a. /\ DOMAIN task = Machine /\ DOMAIN target = Machine /\ DOMAIN done = Machine
      /\ DOMAIN deployed = Machine
      /\ deployed[m] = None \/ deployed[m] \in DeployReceipt
      /\ pc[m] = "idle" => done[m] = 0
      /\ task[m] = "deploy" /\ pc[m] = "stamp" => done[m] > 0
  BY DEF TypeInv, TypeOK, CommandsAreSound, DeployReceipt, DeployIsSound, Verified
<1>b. pc[m] \notin {"inspect", "project", "smoke", "mark", "claim", "rows", "recheck", "archives",
                   "objects", "unclaim", "free"}
  BY DEF Owning
<1> USE <1>a, <1>b
<1>1. ASSUME NEW b \in Build, Deploy(m, b) PROVE Silent
  BY <1>1 DEF Deploy, Start, Go, receipts
<1>2. ASSUME NEW b \in Build, RollbackTo(m, b) PROVE Silent
  BY <1>2 DEF RollbackTo, Start, Go, receipts
<1>3. ASSUME ResumeDeploy(m) PROVE Silent
  BY <1>3 DEF ResumeDeploy, Start, Go, receipts
<1>4. ASSUME RollbackToPrevious(m) PROVE Silent
  BY <1>4 DEF RollbackToPrevious, Start, Go, receipts
<1>5. ASSUME Prune(m) PROVE Silent
  BY <1>5 DEF Prune, Start, Go, receipts
<1>6. ASSUME ResumePrune(m) PROVE Silent
  BY <1>6 DEF ResumePrune, Start, Go, receipts
<1>7. ASSUME Refused(m) PROVE Silent
  BY <1>7 DEF Refused, SaveError, SaveDeploy, SaveCleanup, Stop, Go, At, receipts
<1>8. ASSUME Acquire(m) PROVE Silent
  BY <1>8 DEF Acquire, At
<1>9. ASSUME Inspect(m) PROVE Silent
  BY <1>9 DEF Inspect, At
<1>10. ASSUME Project(m) PROVE Silent
  BY <1>10 DEF Project, At
<1>11. ASSUME Skip(m) PROVE Silent
  BY <1>11 DEF Skip, At
<1>12. ASSUME Smoke(m) PROVE Silent
  BY <1>12 DEF Smoke, At
<1>13. ASSUME Mark(m) PROVE Silent
  BY <1>13 DEF Mark, At
<1>14. ASSUME FreeGuard(m) PROVE Silent
  BY <1>14 DEF FreeGuard, At
<1>15. ASSUME ReadPointer(m) PROVE Silent
  BY <1>15 DEF ReadPointer, Stop, Go, At, receipts
<1>16. ASSUME MoveTo(m) PROVE Silent
  BY <1>16 DEF MoveTo, Stop, Go, At, receipts
<1>17. ASSUME Stamp(m) PROVE Silent
  BY <1>17 DEF Stamp, SaveDeploy, Stop, Go, At, receipts
<1>18. ASSUME Claim(m) PROVE Silent
  BY <1>18 DEF Claim, At
<1>19. ASSUME Narrow(m) PROVE Silent
  BY <1>19 DEF Narrow, At
<1>20. ASSUME DeleteRows(m) PROVE Silent
  BY <1>20 DEF DeleteRows, At
<1>21. ASSUME RowsGone(m) PROVE Silent
  BY <1>21 DEF RowsGone, At
<1>22. ASSUME Recheck(m) PROVE Silent
  BY <1>22 DEF Recheck, At
<1>23. ASSUME DeleteKeys(m) PROVE Silent
  BY <1>23 DEF DeleteKeys
<1>24. ASSUME KeysGone(m) PROVE Silent
  BY <1>24 DEF KeysGone
<1>25. ASSUME Unclaim(m) PROVE Silent
  BY <1>25 DEF Unclaim, At
<1>26. ASSUME Unclaimed(m) PROVE Silent
  BY <1>26 DEF Unclaimed, At
<1>27. ASSUME Kill(m) PROVE Silent
  BY <1>27 DEF Kill, Stop, Go, receipts
<1>28. ASSUME LoseAnswer(m) PROVE Silent
  BY <1>28 DEF LoseAnswer, SaveError, SaveDeploy, SaveCleanup, Stop, Go, receipts
<1>29. ASSUME FailRead(m) PROVE Silent
  BY <1>29 DEF FailRead, Go, receipts
<1>30. QED
  BY <1>1, <1>2, <1>3, <1>4, <1>5, <1>6, <1>7, <1>8, <1>9, <1>10, <1>11, <1>12, <1>13, <1>14,
     <1>15, <1>16, <1>17, <1>18, <1>19, <1>20, <1>21, <1>22, <1>23, <1>24, <1>25, <1>26, <1>27,
     <1>28, <1>29 DEF Acts, Command, Step, Trouble

\* What a machine leaves behind when it stops without an answer.
LEMMA LeftBehind ==
  ASSUME Faults = {}, TypeInv, RetentionInv, NEW m \in Machine, Acts(m),
         NEW w \in late', w \notin late
  PROVE  w.op # "stamp" /\ Harmless(w)'
<1>a. /\ MemoryTyped /\ CommandsAreSound /\ DeployIsSound(m)
      /\ w \in Requests(m) /\ w.op # "stamp" /\ w.by = m
  <2>1. MemoryTyped /\ CommandsAreSound /\ DeployIsSound(m)
    BY DEF TypeInv, RetentionInv, DeploysAreSound
  <2>2. w \in MayLandLate(m)
    BY <2>1, ActsOfMachines
  <2>3. QED
    BY <2>1, <2>2, RequestsAreKnown DEF MayLandLate
<1>b. pc[m] # "stamp"
  BY <1>a DEF Requests, Request
<1>c. Harmless(w)
  BY <1>a, <1>b, RequestsAreHarmless
<1>d. Kill(m) \/ LoseAnswer(m)
<2>1. ASSUME NEW b \in Build, Deploy(m, b) PROVE Kill(m) \/ LoseAnswer(m)
  BY <2>1 DEF Deploy
<2>2. ASSUME NEW b \in Build, RollbackTo(m, b) PROVE Kill(m) \/ LoseAnswer(m)
  BY <2>2 DEF RollbackTo
<2>3. ASSUME ResumeDeploy(m) PROVE Kill(m) \/ LoseAnswer(m)
  BY <2>3 DEF ResumeDeploy
<2>4. ASSUME RollbackToPrevious(m) PROVE Kill(m) \/ LoseAnswer(m)
  BY <2>4 DEF RollbackToPrevious
<2>5. ASSUME Prune(m) PROVE Kill(m) \/ LoseAnswer(m)
  BY <2>5 DEF Prune
<2>6. ASSUME ResumePrune(m) PROVE Kill(m) \/ LoseAnswer(m)
  BY <2>6 DEF ResumePrune
<2>7. ASSUME Refused(m) PROVE Kill(m) \/ LoseAnswer(m)
  BY <2>7 DEF Refused
<2>8. ASSUME Acquire(m) PROVE Kill(m) \/ LoseAnswer(m)
  BY <2>8 DEF Acquire
<2>9. ASSUME Inspect(m) PROVE Kill(m) \/ LoseAnswer(m)
  BY <2>9 DEF Inspect
<2>10. ASSUME Project(m) PROVE Kill(m) \/ LoseAnswer(m)
  BY <2>10 DEF Project
<2>11. ASSUME Skip(m) PROVE Kill(m) \/ LoseAnswer(m)
  BY <2>11 DEF Skip
<2>12. ASSUME Smoke(m) PROVE Kill(m) \/ LoseAnswer(m)
  BY <2>12 DEF Smoke
<2>13. ASSUME Mark(m) PROVE Kill(m) \/ LoseAnswer(m)
  BY <2>13 DEF Mark
<2>14. ASSUME FreeGuard(m) PROVE Kill(m) \/ LoseAnswer(m)
  BY <2>14 DEF FreeGuard
<2>15. ASSUME ReadPointer(m) PROVE Kill(m) \/ LoseAnswer(m)
  BY <2>15 DEF ReadPointer
<2>16. ASSUME MoveTo(m) PROVE Kill(m) \/ LoseAnswer(m)
  BY <2>16 DEF MoveTo
<2>17. ASSUME Stamp(m) PROVE Kill(m) \/ LoseAnswer(m)
  BY <2>17 DEF Stamp
<2>18. ASSUME Claim(m) PROVE Kill(m) \/ LoseAnswer(m)
  BY <2>18 DEF Claim
<2>19. ASSUME Narrow(m) PROVE Kill(m) \/ LoseAnswer(m)
  BY <2>19 DEF Narrow
<2>20. ASSUME DeleteRows(m) PROVE Kill(m) \/ LoseAnswer(m)
  BY <2>20 DEF DeleteRows
<2>21. ASSUME RowsGone(m) PROVE Kill(m) \/ LoseAnswer(m)
  BY <2>21 DEF RowsGone
<2>22. ASSUME Recheck(m) PROVE Kill(m) \/ LoseAnswer(m)
  BY <2>22 DEF Recheck
<2>23. ASSUME DeleteKeys(m) PROVE Kill(m) \/ LoseAnswer(m)
  BY <2>23 DEF DeleteKeys
<2>24. ASSUME KeysGone(m) PROVE Kill(m) \/ LoseAnswer(m)
  BY <2>24 DEF KeysGone
<2>25. ASSUME Unclaim(m) PROVE Kill(m) \/ LoseAnswer(m)
  BY <2>25 DEF Unclaim
<2>26. ASSUME Unclaimed(m) PROVE Kill(m) \/ LoseAnswer(m)
  BY <2>26 DEF Unclaimed
<2>27. ASSUME Kill(m) PROVE Kill(m) \/ LoseAnswer(m)
  BY <2>27
<2>28. ASSUME LoseAnswer(m) PROVE Kill(m) \/ LoseAnswer(m)
  BY <2>28
<2>29. ASSUME FailRead(m) PROVE Kill(m) \/ LoseAnswer(m)
  BY <2>29 DEF FailRead
<2>30. QED
  BY <2>1, <2>2, <2>3, <2>4, <2>5, <2>6, <2>7, <2>8, <2>9, <2>10, <2>11, <2>12, <2>13, <2>14,
     <2>15, <2>16, <2>17, <2>18, <2>19, <2>20, <2>21, <2>22, <2>23, <2>24, <2>25, <2>26, <2>27,
     <2>28, <2>29 DEF Acts, Command, Step, Trouble
<1>e. /\ UNCHANGED remote /\ task'[m] = "none"
      /\ \/ deployed'[m] = deployed[m]
         \/ task[m] = "deploy" /\ deployed'[m] = [build |-> target[m], done |-> done[m]]
  <2>1. CASE Kill(m)
    BY <1>a, <2>1 DEF Kill, Stop, receipts, MemoryTyped
  <2>2. CASE LoseAnswer(m)
    BY <1>a, <2>2 DEF LoseAnswer, Stop, SaveError, SaveDeploy, SaveCleanup, receipts, MemoryTyped
  <2>3. QED
    BY <1>d, <2>1, <2>2
<1>f. w.op = "metadata" => Unsaid(w)'
  <2>1. w.op = "metadata" => Unsaid(w)
    BY <1>c DEF Harmless
  <2>2. QED
    BY <1>a, <1>e, <2>1 DEF Unsaid
<1>g. QED
  BY <1>a, <1>c, <1>e, <1>f DEF Harmless, Told, Tells, Rows, Hashes

LEMMA LateStep ==
  ASSUME Faults = {}, TypeInv, GuardIsSound, RetentionInv, [Next]_vars
  PROVE  LateAreSound'
<1>a. MemoryTyped /\ LateAreSound /\ DeploysAreSound
  BY DEF TypeInv, RetentionInv
<1>1. ASSUME NEW w \in late, w \in late' PROVE w.op # "stamp" /\ Harmless(w)'
  <2>a. w.op # "stamp" /\ Harmless(w) /\ w.op \in Ops /\ w.by \in Machine
    BY <1>a DEF LateAreSound, GuardIsSound
  <2>1. CASE ~Guarded(w)
    BY <2>a, <2>1 DEF Harmless, Guarded, Ops, GuardedOps
  <2>2. CASE Guarded(w)
    <3>1. remote.guard.by = w.by /\ ~Owning(w.by) /\ \A q \in Machine : ~Owning(q)
      BY <2>2 DEF GuardIsSound
    <3>2. remote.guard # Free
      BY <2>a, <3>1, ConstantsAssumption DEF Free
    <3>3. UNCHANGED <<remote.rows, remote.verified, remote.claims, remote.archives, remote.objects>>
      <4>1. ASSUME NEW v, Fair(v), Send(v), ~Guarded(v)
            PROVE  UNCHANGED <<remote.rows, remote.verified, remote.claims, remote.archives,
                               remote.objects>>
        BY <4>1, QuietWrites DEF Fair, TypeInv
      <4>2. CASE \E m \in Machine : Acts(m)
        <5>1. PICK m \in Machine : Acts(m)
          BY <4>2
        <5>2. UNCHANGED remote \/ \E v \in Requests(m) : Fair(v) /\ Send(v)
          BY <1>a, <5>1, ActsOfMachines, WritesAreFair
        <5>3. \A v \in Requests(m) : ~Guarded(v)
          BY <3>1, RequestsAreKnown DEF Guarded, TypeInv
        <5>4. QED
          BY <4>1, <5>2, <5>3
      <4>3. CASE LateWriteLands
        <5>1. PICK v \in late : Send(v) /\ late' = late \ {v}
          BY <4>3 DEF LateWriteLands
        <5>2. ~Guarded(v) /\ Fair(v)
          BY <1>1, <2>2, <5>1, WritesAreFair DEF GuardIsSound
        <5>3. QED
          BY <4>1, <5>1, <5>2
      <4>4. CASE OperatorFreesGuard
        BY <4>4 DEF OperatorFreesGuard
      <4>5. CASE UNCHANGED remote
        BY <4>5
      <4>6. QED
        BY <4>2, <4>3, <4>4, <4>5 DEF Next, Acts, LateWriteIsLost, EndRead, StartRead, vars
    <3>4. w.op = "metadata" => Unsaid(w)'
      <4>1. CASE Acts(w.by)
        <5>1. DeployIsSound(w.by)
          BY <1>a, <2>a DEF DeploysAreSound
        <5>2. w.op = "metadata" => Unsaid(w)
          BY <2>a DEF Harmless
        <5>3. QED
          BY <2>a, <3>1, <3>2, <3>3, <4>1, <5>1, <5>2, SilenceStays DEF Unsaid
      <4>2. CASE ~Acts(w.by)
        <5>1. UNCHANGED Memory(w.by)
          BY <2>a, <4>2, WaitingMachines
        <5>2. QED
          BY <2>a, <3>3, <5>1 DEF Harmless, Unsaid, Memory
      <4>3. QED
        BY <4>1, <4>2
    <3>5. QED
      BY <2>a, <3>3, <3>4 DEF Harmless, Told, Tells, Rows, Hashes
  <2>3. QED
    BY <2>1, <2>2
<1>2. ASSUME NEW w \in late', w \notin late PROVE w.op # "stamp" /\ Harmless(w)'
  <2>1. \E m \in Machine : Acts(m)
    BY <1>2 DEF Next, Acts, LateWriteLands, LateWriteIsLost, OperatorFreesGuard, EndRead,
       StartRead,
       vars
  <2>2. QED
    BY <1>2, <2>1, LeftBehind
<1>3. QED
  BY <1>1, <1>2 DEF LateAreSound

(***************************************************************************)
(* What the target keeps.                                                  *)
(***************************************************************************)
LEMMA RetentionInvariance ==
  ASSUME Faults = {}
  PROVE  Spec => [](TypeInv /\ RetentionInv)
<1>1. Init => RetentionInv
  <2> SUFFICES ASSUME Init PROVE RetentionInv
    OBVIOUS
  <2>1. /\ Rows = {} /\ remote.verified = {} /\ remote.claims = {} /\ remote.pointer.build = None
        /\ late = {}
    BY DEF Init, Rows, NoPointer
  <2>2. StoreIsSound
    BY <2>1 DEF Init, StoreIsSound, RetainedBuildsAreWhole
  <2>3. DeploysAreSound /\ CleanupsAreSound
    BY DEF Init, DeploysAreSound, DeployIsSound, CleanupsAreSound, CleanupIsSound
  <2>4. QED
    BY <2>1, <2>2, <2>3 DEF RetentionInv, LateAreSound
<1>2. TypeInv /\ GuardIsSound /\ RetentionInv /\ [Next]_vars => RetentionInv'
  BY StoreStep, DeploysStep, CleanupsStep, LateStep DEF RetentionInv
<1>3. QED
  BY <1>1, <1>2, TypeInvariance, WriterInvariance, PTL DEF Spec

\* Whatever machines deploy, verify, prune, leave unfinished and resume, a build
\* that is verified and not claimed has its rows, its archive and its objects.
THEOREM RetainedBuildsAlwaysWhole ==
  ASSUME Faults = {}
  PROVE  Spec => []RetainedBuildsAreWhole
<1>1. RetentionInv => RetainedBuildsAreWhole
  BY DEF RetentionInv, StoreIsSound
<1>2. QED
  BY <1>1, RetentionInvariance, PTL

\* A deploy that is resumed may rely on what its receipt lists: it was done, and
\* has not been undone as long as the build is there and not claimed.
THEOREM ReceiptsAlwaysTellTheTruth ==
  ASSUME Faults = {}
  PROVE  Spec => []ReceiptsTellTheTruth
<1>1. TypeInv /\ RetentionInv => ReceiptsTellTheTruth
  BY DEF TypeInv, TypeOK, RetentionInv, DeploysAreSound, DeployIsSound, Told, Tells, Rows,
     ReceiptsTellTheTruth
<1>2. QED
  BY <1>1, RetentionInvariance, PTL

LEMMA WritesServe ==
  ASSUME TypeOK, StoreIsSound, NEW w, Fair(w), Send(w), UNCHANGED reads
  PROVE  [Serving!Next]_(Serving!vars)
<1>a. Effects(remote, w, remote') /\ remote \in Catalog /\ WriteTyped(w) /\ Harmless(w)
  BY EffectsOfWrites DEF Send, TypeOK, Fair
<1>b. remote.verified \subseteq Rows /\ remote.verified \subseteq Build
  BY <1>a DEF Catalog, TypeOK
<1> DEFINE retained == remote.verified \ remote.claims
<1>1. CASE UNCHANGED <<remote.verified, remote.claims, remote.pointer>>
  BY <1>1 DEF Serving!vars
<1>2. CASE w.op \in {"mark", "stamp"}
  <2>1. UNCHANGED <<remote.claims, remote.pointer>> /\ w.build \in Build
    BY <1>a, <1>2 DEF Effects, WriteTyped, OfBuilds
  <2>2. retained' = retained \/ retained' = retained \cup {w.build}
    BY <1>a, <1>2, <2>1 DEF Effects
  <2>3. retained' = retained \/ Serving!Publish(w.build)
    BY <2>1, <2>2 DEF Serving!Publish
  <2>4. QED
    BY <2>1, <2>3 DEF Serving!Next, Serving!vars
<1>3. CASE w.op = "claim" /\ Claimable(remote, w.build)
  <2>1. UNCHANGED <<remote.verified, remote.pointer>> /\ retained' = retained \ {w.build}
    BY <1>a, <1>3 DEF Effects
  <2>2. \A b \in retained \cap {w.build} :
          b # remote.pointer.build /\ \A r \in Reader : reads[r] # b
    BY <1>3 DEF Claimable, LiveRead
  <2>3. Serving!Retire(retained \cap {w.build})
    BY <2>1, <2>2 DEF Serving!Retire
  <2>4. QED
    BY <2>3 DEF Serving!Next
<1>4. CASE w.op = "unclaim"
  <2>1. UNCHANGED <<remote.verified, remote.pointer>>
    BY <1>a, <1>4 DEF Effects
  <2>2. retained' = retained
    BY <1>a, <1>b, <1>4, <2>1 DEF Effects, Rows
  <2>3. QED
    BY <2>1, <2>2 DEF Serving!vars
<1>5. CASE w.op = "delete"
  <2>1. UNCHANGED <<remote.claims, remote.pointer>> /\ w.build \in remote.claims
    BY <1>a, <1>5 DEF Effects, Harmless
  <2>2. retained' = retained
    BY <1>a, <1>5, <2>1 DEF Effects
  <2>3. QED
    BY <2>1, <2>2 DEF Serving!vars
<1>6. CASE w.op = "metadata"
  <2>1. UNCHANGED <<remote.verified, remote.claims, remote.pointer>>
    BY <1>a, <1>6 DEF Effects, Harmless, Unsaid
  <2>2. QED
    BY <1>1, <2>1
<1>7. CASE w.op = "switch" /\ remote'.pointer # remote.pointer
  <2>1. /\ Moves(remote, w) /\ w.what.verified
        /\ remote'.pointer = [build |-> w.build, generation |-> remote.pointer.generation + 1]
        /\ UNCHANGED <<remote.verified, remote.claims>>
    BY <1>a, <1>7 DEF Effects, Fair
  <2>2. w.build \in retained /\ w.build \in Build
    BY <1>b, <2>1 DEF Moves
  <2>3. Serving!Point(w.build)
    BY <2>1, <2>2 DEF Serving!Point
  <2>4. QED
    BY <2>2, <2>3 DEF Serving!Next
<1>8. CASE /\ w.op \notin {"mark", "stamp", "unclaim", "delete", "metadata"}
           /\ ~(w.op = "claim" /\ Claimable(remote, w.build))
           /\ ~(w.op = "switch" /\ remote'.pointer # remote.pointer)
  <2>1. UNCHANGED <<remote.verified, remote.claims, remote.pointer>>
    BY <1>a, <1>8 DEF Effects
  <2>2. QED
    BY <1>1, <2>1
<1>9. QED
  BY <1>2, <1>3, <1>4, <1>5, <1>6, <1>7, <1>8

\* Every run of the target is a run of BuildRegistry: a verification publishes, a
\* claim retires, the UPDATE of the pointer moves it among what is retained, and
\* the Workers' rows pin what they read.
THEOREM TargetImplementsRegistry ==
  ASSUME Faults = {}
  PROVE  Spec => ServesWholeBuilds
<1>1. Init => Serving!Init
  BY DEF Init, NoPointer, Serving!Init
<1>2. TypeInv /\ GuardIsSound /\ RetentionInv /\ [Next]_vars => [Serving!Next]_(Serving!vars)
  <2> SUFFICES ASSUME TypeInv, GuardIsSound, RetentionInv, [Next]_vars
               PROVE  [Serving!Next]_(Serving!vars)
    OBVIOUS
  <2>a. TypeOK /\ StoreIsSound /\ MemoryTyped
    BY DEF TypeInv, RetentionInv
  <2>1. CASE UNCHANGED reads
    <3>1. CASE UNCHANGED remote
      BY <2>1, <3>1 DEF Serving!vars
    <3>2. CASE remote' = [remote EXCEPT !.guard = Free]
      <4>1. UNCHANGED <<remote.verified, remote.claims, remote.pointer>>
        BY <2>a, <3>2 DEF TypeOK, Catalog
      <4>2. QED
        BY <2>1, <4>1 DEF Serving!vars
    <3>3. CASE \E w : Fair(w) /\ Send(w)
      BY <2>a, <2>1, <3>3, WritesServe
    <3>4. QED
      BY <3>1, <3>2, <3>3, FairWrites
  <2>2. ASSUME NEW r \in Reader, NEW b \in Build, StartRead(r, b)
        PROVE  [Serving!Next]_(Serving!vars)
    <3>1. UNCHANGED remote /\ reads[r] = None /\ reads' = [reads EXCEPT ![r] = b]
      BY <2>2 DEF StartRead
    <3>2. b \in remote.verified \ remote.claims
      BY <2>a, <2>2, ConstantsAssumption DEF StartRead, StoreIsSound
    <3>3. Serving!Pin(r, b)
      BY <3>1, <3>2 DEF Serving!Pin
    <3>4. QED
      BY <3>3 DEF Serving!Next
  <2>3. ASSUME NEW r \in Reader, EndRead(r) PROVE [Serving!Next]_(Serving!vars)
    <3>1. UNCHANGED remote /\ reads' = [reads EXCEPT ![r] = None]
      BY <2>3 DEF EndRead
    <3>2. Serving!Unpin(r)
      BY <3>1 DEF Serving!Unpin
    <3>3. QED
      BY <3>2 DEF Serving!Next
  <2>4. QED
    BY <2>a, <2>1, <2>2, <2>3, ReadsOfSteps
<1>3. QED
  BY <1>1, <1>2, RetentionInvariance, WriterInvariance, PTL DEF Spec, ServesWholeBuilds,
     Serving!Spec

\* What the registry promises its readers and what is retained being whole together:
\* the live build, and every build a Worker reads, has its rows, archive and objects.
THEOREM ServedBuildsAreAlwaysWhole ==
  ASSUME Faults = {}
  PROVE  Spec => []ServedBuildIsWhole
<1>1. ServesWholeBuilds => []Serving!LiveAndReadServe
  BY Serving!LiveAndReadAlwaysServe DEF ServesWholeBuilds
<1>2. Serving!LiveAndReadServe /\ RetainedBuildsAreWhole => ServedBuildIsWhole
  BY DEF Serving!LiveAndReadServe, RetainedBuildsAreWhole, ServedBuildIsWhole
<1>3. QED
  BY <1>1, <1>2, TargetImplementsRegistry, RetainedBuildsAlwaysWhole, PTL

=============================================================================
