---------------------------- MODULE RemoteTarget -----------------------------
(***************************************************************************)
(* The Cloudflare target of a project: a D1 catalog and an R2 bucket that  *)
(* several command lines deploy to, prune and roll back, while Workers     *)
(* read.  Nothing locks the catalog as a whole.  One row of it, the        *)
(* mutation guard, keeps apply, verify and cleanup apart; one UPDATE moves *)
(* the pointer; claims and read owners keep cleanup and reads apart.       *)
(*                                                                         *)
(* One action is one request of one machine, or one request of a Worker.   *)
(* A request that writes may get no answer: the machine gives up without   *)
(* freeing the guard, and the write lands later or never.  What a machine  *)
(* knows after that is what its receipt files say.                         *)
(***************************************************************************)
EXTENDS Integers, Sequences, SequencesExt, FiniteSets, FiniteSetsExt

CONSTANTS
  Machine,        \* command lines, each with receipts of its own
  Reader,         \* Worker requests
  Build,
  Object,
  Body,           \* the objects each build refers to
  Candidates,     \* the builds each machine may deploy
  Commands,       \* what else each machine may do
  KeepPrevious,   \* prune --keep
  Faults,         \* schedules a run includes
  None,
  MaxGeneration,  \* bound: how often the pointer moves
  MaxTrouble      \* bound: kills, lost answers and failed reads

ASSUME ConstantsAssumption ==
  /\ Body \in [Build -> SUBSET Object]
  /\ Candidates \in [Machine -> SUBSET Build]
  /\ Commands \in [Machine -> SUBSET {"prune", "rollback"}]
  /\ Faults \subseteq {"unfinishedRollback", "lateStamp", "sharedCandidate"}
  /\ "sharedCandidate" \notin Faults =>
       \A m, n \in Machine : m # n => Candidates[m] \cap Candidates[n] = {}
  /\ KeepPrevious \in Nat /\ MaxGeneration \in Nat /\ MaxTrouble \in Nat
  /\ None \notin Build \cup Machine

VARIABLES
  remote,    \* the catalog and the bucket
  reads,     \* the Workers' rows in runtime_read_owners
  late,      \* writes whose answer was lost and that may still land
  pc,        \* where each machine is in its command
  task,      \* the command it runs
  target,    \* the build a deploy or a rollback is about
  done,      \* stages the running command knows to be done
  failed,    \* whether it met an error and only has the guard left to free
  from,      \* the pointer it read before moving it
  queue,     \* builds a cleanup still has to claim, or to release
  doomed,    \* what a cleanup is going to remove
  deployed,  \* the deploy receipt on its disk
  cleanup,   \* the prune receipt on its disk, while it is not applied
  trouble

machineVars == <<pc, task, target, done, failed, from, queue, doomed>>
receipts == <<deployed, cleanup>>
vars == <<remote, reads, late, machineVars, receipts, trouble>>

Free == [kind |-> "free", build |-> None, by |-> None]
NoPointer == [build |-> None, generation |-> 0]
NoPlan == [remove |-> {}, archives |-> {}, objects |-> {}]

\* What of a build is in the catalog: its projected_builds row with the
\* manifest, its artifacts, its nodes, chunks and index, its tables.
Parts == {"row", "artifacts", "search", "tables"}

\* A deploy receipt lists what is done in this order.
Stages == <<"metadata", "search", "tables", "archive", "objects",
            "project", "verify", "activate">>
Written == 5      \* apply has written everything
Projected == 6    \* and freed the guard
Verified == 7
Activated == 8

\* And a prune receipt in this one: catalog, archives, objects.
CatalogGone == 1
ArchivesGone == 2
ObjectsGone == 3

Hashes(builds) ==
  UNION {Body[b] : b \in {c \in builds : "artifacts" \in remote.rows[c]}}
Rows == {b \in Build : "row" \in remote.rows[b]}
LiveRead(b) == \E r \in Reader : reads[r] = b

Plan == [remove : SUBSET Build, archives : SUBSET Build, objects : SUBSET Object]
Pointer == [build : Build \cup {None}, generation : 0..MaxGeneration]
Guard == [kind : {"free", "apply", "verify", "cleanup"},
          build : Build \cup {None}, by : Machine \cup {None}]
Catalog == [guard : Guard, rows : [Build -> SUBSET Parts], verified : SUBSET Build,
            pointer : Pointer, previous : Build \cup {None}, claims : SUBSET Build,
            archives : SUBSET Build, objects : SUBSET Object]
Steps == {"idle", "own", "inspect", "project", "smoke", "mark", "pointer", "switch",
          "stamp", "claim", "rows", "recheck", "archives", "objects",
          "unclaim", "free"}

\* Every variable holds a value of its kind, and what is verified has a row.
TypeOK ==
  /\ remote \in Catalog /\ remote.verified \subseteq Rows
  /\ reads \in [Reader -> Build \cup {None}]
  /\ pc \in [Machine -> Steps]
  /\ task \in [Machine -> {"none", "deploy", "prune", "rollback"}]
  /\ target \in [Machine -> Build \cup {None}]
  /\ done \in [Machine -> 0..Activated]
  /\ failed \in [Machine -> {"no", "early", "midway"}]
  /\ from \in [Machine -> Pointer]
  /\ queue \in [Machine -> SUBSET Build]
  /\ doomed \in [Machine -> Plan]
  /\ \A m \in Machine :
       /\ deployed[m] = None \/ deployed[m] \in [build : Build, done : 0..Activated]
       /\ cleanup[m] = None \/ cleanup[m] \in [plan : Plan, done : 0..ObjectsGone]
  /\ trouble \in 0..MaxTrouble

Init ==
  /\ remote = [guard |-> Free, rows |-> [b \in Build |-> {}], verified |-> {},
               pointer |-> NoPointer, previous |-> None, claims |-> {},
               archives |-> {}, objects |-> {}]
  /\ reads = [r \in Reader |-> None]
  /\ late = {}
  /\ pc = [m \in Machine |-> "idle"]
  /\ task = [m \in Machine |-> "none"]
  /\ target = [m \in Machine |-> None]
  /\ done = [m \in Machine |-> 0]
  /\ failed = [m \in Machine |-> "no"]
  /\ from = [m \in Machine |-> NoPointer]
  /\ queue = [m \in Machine |-> {}]
  /\ doomed = [m \in Machine |-> NoPlan]
  /\ deployed = [m \in Machine |-> None]
  /\ cleanup = [m \in Machine |-> None]
  /\ trouble = 0

-----------------------------------------------------------------------------
(***************************************************************************)
(* What each write does to the target when it lands.                       *)
(***************************************************************************)

Own(r, w) ==
  IF r.guard = Free THEN [r EXCEPT !.guard = [kind |-> w.what, build |-> w.build, by |-> w.by]]
                    ELSE r

Release(r, w) == IF r.guard.by = w.by THEN [r EXCEPT !.guard = Free] ELSE r

\* The rows of a candidate are replaced, so what a verification said of the
\* old ones is gone with them.
ProjectMetadata(r, w) ==
  [r EXCEPT !.rows[w.build] = @ \cup {"row", "artifacts"},
            !.verified = @ \ {w.build}]

ProjectPart(r, w) == [r EXCEPT !.rows[w.build] = @ \cup {w.what}]

PutArchive(r, w) == [r EXCEPT !.archives = @ \cup {w.build}]

PutObject(r, w) == [r EXCEPT !.objects = @ \cup {w.what}]

\* Wrong on purpose: an upsert, which also verifies a build that is gone.
MarkVerifiedUpsert(r, w) == [r EXCEPT !.verified = @ \cup {w.build}]

MarkVerified(r, w) ==
  IF "row" \in r.rows[w.build] THEN [r EXCEPT !.verified = @ \cup {w.build}] ELSE r

Claimable(r, b) == "row" \in r.rows[b] /\ r.pointer.build # b /\ ~LiveRead(b)

InsertClaim(r, w) ==
  IF Claimable(r, w.build) THEN [r EXCEPT !.claims = @ \cup {w.build}] ELSE r

DeletePart(r, w) ==
  [r EXCEPT !.rows[w.build] = @ \ {w.what},
            !.verified = IF w.what = "row" THEN @ \ {w.build} ELSE @]

DeleteArchive(r, w) == [r EXCEPT !.archives = @ \ {w.build}]

DeleteObject(r, w) == [r EXCEPT !.objects = @ \ {w.what}]

DeleteClaim(r, w) ==
  IF "row" \in r.rows[w.build] THEN r ELSE [r EXCEPT !.claims = @ \ {w.build}]

\* Wrong on purpose: the UPDATE does not look for a claim.
MovesOntoClaims(r, w) ==
  /\ r.pointer = w.what.from
  /\ "row" \in r.rows[w.build]
  /\ w.what.verified => w.build \in r.verified
  /\ ~(r.guard.kind = "apply" /\ r.guard.build = w.build)

\* The UPDATE compares the pointer the caller read, and looks for a row, a
\* claim and an apply of the build in the same statement.  A trigger records
\* the move, which is where a bare rollback finds the build before.
Moves(r, w) ==
  /\ r.pointer = w.what.from
  /\ "row" \in r.rows[w.build]
  /\ w.what.verified => w.build \in r.verified
  /\ w.build \notin r.claims
  /\ ~(r.guard.kind = "apply" /\ r.guard.build = w.build)

MovePointer(r, w) ==
  IF Moves(r, w) /\ r.pointer.build # w.build
    THEN [r EXCEPT !.pointer = [build |-> w.build, generation |-> @.generation + 1],
                   !.previous = r.pointer.build]
    ELSE r

Landed(r, w) ==
  CASE w.op = "own" -> Own(r, w)
    [] w.op = "free" -> Release(r, w)
    [] w.op = "metadata" -> ProjectMetadata(r, w)
    [] w.op \in {"search", "tables"} -> ProjectPart(r, w)
    [] w.op = "archive" -> PutArchive(r, w)
    [] w.op = "objects" -> PutObject(r, w)
    [] w.op \in {"mark", "stamp"} -> MarkVerified(r, w)
    [] w.op = "switch" -> MovePointer(r, w)
    [] w.op = "claim" -> InsertClaim(r, w)
    [] w.op = "delete" -> DeletePart(r, w)
    [] w.op = "dropArchive" -> DeleteArchive(r, w)
    [] w.op = "dropObject" -> DeleteObject(r, w)
    [] w.op = "unclaim" -> DeleteClaim(r, w)

-----------------------------------------------------------------------------
(***************************************************************************)
(* The requests of a machine, by where it is.                              *)
(***************************************************************************)

Phase(m) ==
  IF task[m] = "prune" THEN "cleanup" ELSE IF done[m] < Projected THEN "apply" ELSE "verify"

Request(m, op, build, what) == [op |-> op, build |-> build, what |-> what, by |-> m]

\* What is left to do of a stage of apply: nothing, if the bucket has it.
Stage(m) == Stages[done[m] + 1]
MissingObjects(b) == Body[b] \ remote.objects
StageRequests(m) ==
  LET b == target[m] IN
  CASE Stage(m) = "archive" ->
         IF b \in remote.archives THEN {} ELSE {Request(m, "archive", b, None)}
    [] Stage(m) = "objects" -> {Request(m, "objects", b, o) : o \in MissingObjects(b)}
    [] OTHER -> {Request(m, Stage(m), b, Stage(m))}

\* Physical tables go first, for every build.  Then build by build what is
\* searched, the artifacts and, last, the row that makes it a build.
NextPart(b) ==
  IF "search" \in remote.rows[b] THEN "search"
  ELSE IF "artifacts" \in remote.rows[b] THEN "artifacts" ELSE "row"
Deletions(m) ==
  LET tables == {b \in doomed[m].remove : "tables" \in remote.rows[b]}
      rows == {b \in doomed[m].remove : remote.rows[b] # {}}
  IN IF tables # {} THEN {Request(m, "delete", b, "tables") : b \in tables}
                    ELSE {Request(m, "delete", b, NextPart(b)) : b \in rows}

\* "unfinishedRollback": a rollback meets a build whose projection was never
\* verified, because it was removed and is being deployed again.
Switch(m) ==
  Request(m, "switch", target[m],
    [from |-> from[m],
     verified |-> (task[m] = "deploy" \/ "unfinishedRollback" \notin Faults)])

\* The writes a machine may send next.
Requests(m) ==
  CASE pc[m] = "own" ->
         {Request(m, "own", IF task[m] = "prune" THEN None ELSE target[m], Phase(m))}
    [] pc[m] = "project" -> StageRequests(m)
    [] pc[m] \in {"mark", "stamp"} -> {Request(m, pc[m], target[m], None)}
    [] pc[m] = "switch" -> {Switch(m)}
    [] pc[m] \in {"claim", "unclaim"} -> {Request(m, pc[m], b, None) : b \in queue[m]}
    [] pc[m] = "rows" -> Deletions(m)
    [] pc[m] = "archives" ->
         {Request(m, "dropArchive", b, None) : b \in doomed[m].archives \cap remote.archives}
    [] pc[m] = "objects" ->
         {Request(m, "dropObject", None, o) : o \in doomed[m].objects \cap remote.objects}
    [] pc[m] = "free" -> {Request(m, "free", None, None)}
    [] OTHER -> {}

At(m, step) == pc[m] = step
Go(m, step) == pc' = [pc EXCEPT ![m] = step]
Send(w) == remote' = Landed(remote, w)

Stop(m) ==
  /\ Go(m, "idle")
  /\ task' = [task EXCEPT ![m] = "none"]
  /\ target' = [target EXCEPT ![m] = None]
  /\ done' = [done EXCEPT ![m] = 0]
  /\ failed' = [failed EXCEPT ![m] = "no"]
  /\ from' = [from EXCEPT ![m] = NoPointer]
  /\ queue' = [queue EXCEPT ![m] = {}]
  /\ doomed' = [doomed EXCEPT ![m] = NoPlan]

SaveDeploy(m, stage) ==
  /\ deployed' = [deployed EXCEPT ![m] = [build |-> target[m], done |-> stage]]
  /\ UNCHANGED cleanup

SaveCleanup(m, stage) ==
  /\ cleanup' = [cleanup EXCEPT ![m].done = stage]
  /\ UNCHANGED deployed

SaveApplied(m) ==
  /\ cleanup' = [cleanup EXCEPT ![m] = None]
  /\ UNCHANGED deployed

\* Wrong on purpose: the stage that failed is reported with those before it.
SaveErrorOneTooFar(m, midway) ==
  IF task[m] = "deploy" /\ done[m] < Written THEN SaveDeploy(m, done[m] + 1)
  ELSE IF midway THEN SaveCleanup(m, done[m])
  ELSE UNCHANGED receipts

\* What an error leaves in the receipt files.  Apply reports how far it got,
\* cleanup only what fails after its claims and before it returns them.
SaveError(m, midway) ==
  IF task[m] = "deploy" /\ done[m] <= Written THEN SaveDeploy(m, done[m])
  ELSE IF midway THEN SaveCleanup(m, done[m])
  ELSE UNCHANGED receipts

Midway(m) == task[m] = "prune" /\ pc[m] \in {"rows", "recheck", "archives", "objects"}

-----------------------------------------------------------------------------
(***************************************************************************)
(* deploy                                                                  *)
(***************************************************************************)

Start(m, command, step) ==
  /\ pc[m] = "idle"
  /\ Go(m, step)
  /\ task' = [task EXCEPT ![m] = command]

Deploy(m, b) ==
  /\ b \in Candidates[m]
  /\ Start(m, "deploy", "own")
  /\ target' = [target EXCEPT ![m] = b]
  /\ deployed' = [deployed EXCEPT ![m] = [build |-> b, done |-> 0]]
  /\ UNCHANGED <<remote, reads, late, done, failed, from, queue, doomed, cleanup, trouble>>

\* --resume: what the receipt says is done is not done again.
ResumeDeploy(m) ==
  /\ deployed[m] # None
  /\ Start(m, "deploy", IF deployed[m].done >= Verified THEN "pointer" ELSE "own")
  /\ target' = [target EXCEPT ![m] = deployed[m].build]
  /\ done' = [done EXCEPT ![m] = deployed[m].done]
  /\ UNCHANGED <<remote, reads, late, failed, from, queue, doomed, receipts, trouble>>

\* INSERT OR IGNORE: the row is there already, whoever it belongs to.
Refused(m) ==
  /\ At(m, "own") /\ remote.guard # Free
  /\ SaveError(m, FALSE)
  /\ Stop(m)
  /\ UNCHANGED <<remote, reads, late, trouble>>

Acquire(m) ==
  /\ At(m, "own") /\ remote.guard = Free
  /\ \E w \in Requests(m) : Send(w)
  /\ Go(m, CASE Phase(m) = "apply" -> "inspect"
              [] Phase(m) = "verify" -> "smoke"
              [] Phase(m) = "cleanup" -> IF done[m] < CatalogGone THEN "claim" ELSE "recheck")
  /\ IF Phase(m) = "cleanup"
       THEN LET plan == cleanup[m].plan IN
            /\ queue' = [queue EXCEPT ![m] = IF done[m] < CatalogGone THEN plan.remove ELSE {}]
            /\ doomed' = [doomed EXCEPT ![m] = IF done[m] < CatalogGone THEN NoPlan ELSE plan]
       ELSE UNCHANGED <<queue, doomed>>
  /\ UNCHANGED <<reads, late, task, target, done, failed, from, receipts, trouble>>

\* A candidate under deletion, or one that expired under its receipt, or one
\* that somebody reads unverified, is not written to.
Writable(m) ==
  LET b == target[m] IN
  /\ b \notin remote.claims
  /\ done[m] >= 1 => b \in Rows
  /\ b \in remote.verified \/ (remote.pointer.build # b /\ ~LiveRead(b))

\* Verified rows are reused, whatever the receipt says of them.
Inspect(m) ==
  /\ At(m, "inspect")
  /\ IF Writable(m)
       THEN /\ done' = [done EXCEPT ![m] = IF target[m] \in remote.verified /\ @ < 3 THEN 3 ELSE @]
            /\ Go(m, IF done[m] = Written THEN "free" ELSE "project")
            /\ UNCHANGED failed
       ELSE /\ Go(m, "free")
            /\ failed' = [failed EXCEPT ![m] = "early"]
            /\ UNCHANGED done
  /\ UNCHANGED <<remote, reads, late, task, target, from, queue, doomed, receipts, trouble>>

Advance(m) ==
  /\ done' = [done EXCEPT ![m] = @ + 1]
  /\ Go(m, IF done'[m] = Written THEN "free" ELSE "project")

\* The next write of a stage; the stage is over when nothing of it is left.
Project(m) ==
  /\ At(m, "project")
  /\ \E w \in Requests(m) : Send(w)
  /\ IF Stage(m) = "objects"
       THEN UNCHANGED <<pc, done>>
       ELSE Advance(m)
  /\ UNCHANGED <<reads, late, task, target, failed, from, queue, doomed, receipts, trouble>>

\* Nothing to put: the bucket has it, and what it has was read back and compared.
Skip(m) ==
  /\ At(m, "project") /\ Requests(m) = {}
  /\ Advance(m)
  /\ UNCHANGED <<remote, reads, late, task, target, failed, from, queue, doomed, receipts, trouble>>

\* Verification searches the candidate, reads the source of the first hit and
\* queries its first table, if it lists one.
Smoke(m) ==
  /\ At(m, "smoke")
  /\ \E o \in Body[target[m]] :
       IF {"row", "artifacts", "search"} \subseteq remote.rows[target[m]] /\ o \in remote.objects
         THEN Go(m, "mark") /\ UNCHANGED failed
         ELSE Go(m, "free") /\ failed' = [failed EXCEPT ![m] = "early"]
  /\ UNCHANGED <<remote, reads, late, task, target, done, from, queue, doomed, receipts, trouble>>

Mark(m) ==
  /\ At(m, "mark")
  /\ \E w \in Requests(m) : Send(w)
  /\ Go(m, "free")
  /\ UNCHANGED <<reads, late, task, target, done, failed, from, queue, doomed, receipts, trouble>>

\* The guard goes; the command goes on to its next phase or ends.
FreeGuard(m) ==
  /\ At(m, "free")
  /\ \E w \in Requests(m) : Send(w)
  /\ IF failed[m] # "no" THEN SaveError(m, failed[m] = "midway") /\ Stop(m)
     ELSE IF task[m] = "prune" THEN SaveApplied(m) /\ Stop(m)
     ELSE /\ done' = [done EXCEPT ![m] = IF @ = Written THEN Projected ELSE Verified]
          /\ SaveDeploy(m, done'[m])
          /\ Go(m, IF done[m] = Written THEN "own" ELSE "pointer")
          /\ UNCHANGED <<task, target, failed, from, queue, doomed>>
  /\ UNCHANGED <<reads, late, trouble>>

\* Activation reads the pointer, and refuses a build nobody verified.
ReadPointer(m) ==
  /\ At(m, "pointer")
  /\ remote.pointer.generation < MaxGeneration
  /\ IF task[m] = "deploy" => target[m] \in remote.verified
       THEN /\ Go(m, "switch")
            /\ from' = [from EXCEPT ![m] = remote.pointer]
            /\ UNCHANGED <<task, target, done, failed, queue, doomed>>
       ELSE Stop(m)
  /\ UNCHANGED <<remote, reads, late, receipts, trouble>>

MoveTo(m) ==
  /\ At(m, "switch")
  /\ Send(Switch(m))
  /\ IF Moves(remote, Switch(m))
       THEN Go(m, "stamp") /\ UNCHANGED <<task, target, done, failed, from, queue, doomed>>
       ELSE Stop(m)
  /\ UNCHANGED <<reads, late, receipts, trouble>>

\* "lateStamp": the row that a stamp meets is not the one it was sent for,
\* which was removed since the pointer moved, and written anew.
InTime(m) ==
  \/ Faults \cap {"lateStamp", "unfinishedRollback"} # {}
  \/ target[m] \in remote.verified \/ target[m] \notin Rows

\* The pointer has moved.  When it did is recorded afterwards, under no guard.
Stamp(m) ==
  /\ At(m, "stamp") /\ InTime(m)
  /\ \E w \in Requests(m) : Send(w)
  /\ IF task[m] = "deploy" THEN SaveDeploy(m, Activated) ELSE UNCHANGED receipts
  /\ Stop(m)
  /\ UNCHANGED <<reads, late, trouble>>

-----------------------------------------------------------------------------
(***************************************************************************)
(* rollback                                                                *)
(***************************************************************************)

\* Without a build id: to the build the pointer came from, from the pointer
\* read in the same query.
RollbackToPrevious(m) ==
  /\ "rollback" \in Commands[m]
  /\ remote.previous \in Rows
  /\ remote.pointer.generation < MaxGeneration
  /\ Start(m, "rollback", "switch")
  /\ target' = [target EXCEPT ![m] = remote.previous]
  /\ from' = [from EXCEPT ![m] = remote.pointer]
  /\ UNCHANGED <<remote, reads, late, done, failed, queue, doomed, receipts, trouble>>

\* With one: from whatever the pointer is when it comes to that.
RollbackTo(m, b) ==
  /\ "rollback" \in Commands[m]
  /\ b \in Rows
  /\ Start(m, "rollback", "pointer")
  /\ target' = [target EXCEPT ![m] = b]
  /\ UNCHANGED <<remote, reads, late, done, failed, from, queue, doomed, receipts, trouble>>

-----------------------------------------------------------------------------
(***************************************************************************)
(* prune                                                                   *)
(***************************************************************************)

\* The live build, what is being read, and some of the other verified builds:
\* the newest by the clocks of the machines that verified them, which nothing
\* keeps together.
Keeps ==
  LET others == remote.verified \ {remote.pointer.build} IN
  {{remote.pointer.build} \cup {b \in Build : LiveRead(b)} \cup newest :
     newest \in kSubset(Min({KeepPrevious, Cardinality(others)}), others)}

Preview(keep) ==
  LET remove == Rows \ keep IN
  [remove |-> remove, archives |-> remove,
   objects |-> Hashes(remove) \ Hashes(Rows \ remove)]

\* The plan is shown and saved before anything is owned.  An operator with an
\* unfinished cleanup resumes it before starting another.
Prune(m) ==
  /\ "prune" \in Commands[m]
  /\ cleanup[m] = None
  /\ Start(m, "prune", "own")
  /\ \E keep \in Keeps :
       /\ Preview(keep).remove # {}
       /\ cleanup' = [cleanup EXCEPT ![m] = [plan |-> Preview(keep), done |-> 0]]
  /\ UNCHANGED <<remote, reads, late, target, done, failed, from, queue, doomed, deployed, trouble>>

ResumePrune(m) ==
  /\ cleanup[m] # None
  /\ Start(m, "prune", "own")
  /\ done' = [done EXCEPT ![m] = cleanup[m].done]
  /\ UNCHANGED <<remote, reads, late, target, failed, from, queue, doomed, receipts, trouble>>

\* One INSERT per build of the plan, which takes it only if it still can go.
Claim(m) ==
  /\ At(m, "claim")
  /\ \E w \in Requests(m) :
       /\ Send(w)
       /\ queue' = [queue EXCEPT ![m] = @ \ {w.build}]
       /\ doomed' = [doomed EXCEPT ![m].remove =
            IF Claimable(remote, w.build) THEN @ \cup {w.build} ELSE @]
  /\ UNCHANGED <<reads, late, pc, task, target, done, failed, from, receipts, trouble>>

\* What goes is what was claimed, and the objects only that referred to.
Narrow(m) ==
  /\ At(m, "claim") /\ queue[m] = {}
  /\ LET remove == doomed[m].remove IN
     /\ doomed' = [doomed EXCEPT ![m] =
          [remove |-> remove, archives |-> remove,
           objects |-> Hashes(remove) \ Hashes(Rows \ remove)]]
     /\ Go(m, IF remove = {} THEN "free" ELSE "rows")
  /\ UNCHANGED <<remote, reads, late, task, target, done, failed, from, queue, receipts, trouble>>

\* BEGIN and COMMIT bound nothing here: every count read between them sends
\* the deletions before it.
DeleteRows(m) ==
  /\ At(m, "rows")
  /\ \E w \in Requests(m) : Send(w)
  /\ UNCHANGED <<reads, late, machineVars, receipts, trouble>>

RowsGone(m) ==
  /\ At(m, "rows") /\ Requests(m) = {}
  /\ Go(m, "recheck")
  /\ done' = [done EXCEPT ![m] = CatalogGone]
  /\ UNCHANGED <<remote, reads, late, task, target, failed, from, queue, doomed, receipts, trouble>>

\* Wrong on purpose: the keys of the plan go as they were planned.
RecheckNothing(m) ==
  /\ At(m, "recheck")
  /\ Go(m, IF done[m] < ArchivesGone THEN "archives"
            ELSE IF done[m] < ObjectsGone THEN "objects" ELSE "unclaim")
  /\ queue' = [queue EXCEPT ![m] = doomed[m].remove]
  /\ UNCHANGED <<remote, reads, late, task, target, done, failed, from, doomed, receipts, trouble>>

\* Keys a projected build needs by now stay, whatever the plan says.
Recheck(m) ==
  /\ At(m, "recheck")
  /\ doomed' = [doomed EXCEPT ![m].archives = @ \ Rows, ![m].objects = @ \ Hashes(Build)]
  /\ Go(m, IF done[m] < ArchivesGone THEN "archives"
            ELSE IF done[m] < ObjectsGone THEN "objects" ELSE "unclaim")
  /\ queue' = [queue EXCEPT ![m] = doomed[m].remove]
  /\ UNCHANGED <<remote, reads, late, task, target, done, failed, from, receipts, trouble>>

DeleteKeys(m) ==
  /\ pc[m] \in {"archives", "objects"}
  /\ \E w \in Requests(m) : Send(w)
  /\ UNCHANGED <<reads, late, machineVars, receipts, trouble>>

KeysGone(m) ==
  /\ pc[m] \in {"archives", "objects"} /\ Requests(m) = {}
  /\ Go(m, IF At(m, "archives") THEN "objects" ELSE "unclaim")
  /\ done' = [done EXCEPT ![m] = IF At(m, "archives") THEN ArchivesGone ELSE ObjectsGone]
  /\ UNCHANGED <<remote, reads, late, task, target, failed, from, queue, doomed, receipts, trouble>>

Unclaim(m) ==
  /\ At(m, "unclaim")
  /\ \E w \in Requests(m) :
       Send(w) /\ queue' = [queue EXCEPT ![m] = @ \ {w.build}]
  /\ UNCHANGED <<reads, late, pc, task, target, done, failed, from, doomed, receipts, trouble>>

Unclaimed(m) ==
  /\ At(m, "unclaim") /\ queue[m] = {}
  /\ Go(m, "free")
  /\ UNCHANGED <<remote, reads, late, task, target, done, failed, from, queue, doomed,
                 receipts, trouble>>

-----------------------------------------------------------------------------
(***************************************************************************)
(* What goes wrong, and the Workers                                        *)
(***************************************************************************)

\* "lateStamp" again: the same statement, without an answer.
MayLandLate(m) == {w \in Requests(m) : w.op = "stamp" => "lateStamp" \in Faults}

\* A kill saves nothing and frees nothing.  Its last write may be on its way.
Kill(m) ==
  /\ trouble < MaxTrouble /\ trouble' = trouble + 1
  /\ pc[m] # "idle"
  /\ \/ UNCHANGED late
     \/ \E w \in MayLandLate(m) : late' = late \cup {w}
  /\ Stop(m)
  /\ UNCHANGED <<remote, reads, receipts>>

\* Wrong on purpose: the guard is freed whatever the error was.
LoseAnswerAndGuard(m) ==
  /\ trouble < MaxTrouble /\ trouble' = trouble + 1
  /\ \E w \in Requests(m) : late' = late \cup ({w} \cap MayLandLate(m))
  /\ remote' = Release(remote, Request(m, "free", None, None))
  /\ SaveError(m, Midway(m))
  /\ Stop(m)
  /\ UNCHANGED reads

\* A write without an answer: nobody knows whether it will land, so nothing
\* more is sent, the release of the guard included.
LoseAnswer(m) ==
  /\ trouble < MaxTrouble /\ trouble' = trouble + 1
  /\ \E w \in Requests(m) : late' = late \cup ({w} \cap MayLandLate(m))
  /\ SaveError(m, Midway(m))
  /\ Stop(m)
  /\ UNCHANGED <<remote, reads>>

\* A read that failed wrote nothing: the guard is freed.
FailRead(m) ==
  /\ trouble < MaxTrouble /\ trouble' = trouble + 1
  /\ \/ pc[m] \in {"inspect", "smoke", "rows", "recheck", "archives", "objects"}
     \/ At(m, "project") /\ Stage(m) \in {"tables", "archive", "objects"}
     \/ At(m, "claim") /\ queue[m] = {}
  /\ failed' = [failed EXCEPT ![m] = IF Midway(m) THEN "midway" ELSE "early"]
  /\ Go(m, "free")
  /\ UNCHANGED <<remote, reads, late, task, target, done, from, queue, doomed, receipts>>

LateWriteLands ==
  \E w \in late :
    /\ Send(w)
    /\ late' = late \ {w}
    /\ UNCHANGED <<reads, machineVars, receipts, trouble>>

LateWriteIsLost ==
  \E w \in late :
    /\ late' = late \ {w}
    /\ UNCHANGED <<remote, reads, machineVars, receipts, trouble>>

\* The guard is m's from the INSERT to the DELETE.
Owning(m) ==
  pc[m] \in {"inspect", "project", "smoke", "mark", "claim", "rows", "recheck",
            "archives", "objects", "unclaim", "free"}

\* By hand, once the owner has stopped and its writes have landed or cannot.
OperatorFreesGuard ==
  /\ remote.guard # Free /\ ~Owning(remote.guard.by)
  /\ late = {}
  /\ remote' = [remote EXCEPT !.guard = Free]
  /\ UNCHANGED <<reads, late, machineVars, receipts, trouble>>

\* One INSERT finds the build, checks it and registers the read.
StartRead(r, b) ==
  /\ reads[r] = None
  /\ b \in Rows /\ b \notin remote.claims
  /\ b = remote.pointer.build \/ b \in remote.verified
  /\ reads' = [reads EXCEPT ![r] = b]
  /\ UNCHANGED <<remote, late, machineVars, receipts, trouble>>

\* The row is deleted, or its five minutes are over and it protects nothing
\* any more: a read that ends later finds that out from its DELETE and throws
\* its result away.
EndRead(r) ==
  /\ reads[r] # None
  /\ reads' = [reads EXCEPT ![r] = None]
  /\ UNCHANGED <<remote, late, machineVars, receipts, trouble>>

-----------------------------------------------------------------------------
Command(m) ==
  \/ \E b \in Build : Deploy(m, b) \/ RollbackTo(m, b)
  \/ ResumeDeploy(m) \/ RollbackToPrevious(m) \/ Prune(m) \/ ResumePrune(m)

Step(m) ==
  \/ Refused(m) \/ Acquire(m) \/ Inspect(m) \/ Project(m) \/ Skip(m)
  \/ Smoke(m) \/ Mark(m) \/ FreeGuard(m) \/ ReadPointer(m) \/ MoveTo(m) \/ Stamp(m)
  \/ Claim(m) \/ Narrow(m) \/ DeleteRows(m) \/ RowsGone(m) \/ Recheck(m)
  \/ DeleteKeys(m) \/ KeysGone(m) \/ Unclaim(m) \/ Unclaimed(m)

Trouble(m) == Kill(m) \/ LoseAnswer(m) \/ FailRead(m)

Next ==
  \/ \E m \in Machine : Command(m) \/ Step(m) \/ Trouble(m)
  \/ LateWriteLands \/ LateWriteIsLost \/ OperatorFreesGuard
  \/ \E r \in Reader : EndRead(r) \/ \E b \in Build : StartRead(r, b)

Spec == Init /\ [][Next]_vars

-----------------------------------------------------------------------------
Whole(b) ==
  /\ remote.rows[b] = Parts
  /\ Body[b] \subseteq remote.objects
  /\ b \in remote.archives

\* A verified build that no cleanup has claimed is all there, rows, archive
\* and objects: what may go live or be read is never half a build, whatever
\* other machines deploy, remove or leave unfinished (the guard, the claims
\* and the recheck of keys before R2 deletions).
RetainedBuildsAreWhole == \A b \in remote.verified \ remote.claims : Whole(b)

\* A write under the guard that is being sent, or that was sent and may still
\* land, is the guard owner's: a machine that does not know whether its last
\* write landed keeps everybody else out until somebody does.
OneRemoteWriter ==
  /\ \A m \in Machine : Owning(m) => remote.guard.by = m
  /\ \A w \in late :
       w.op \in {"own", "switch", "stamp"} \/ (remote.guard.by = w.by /\ ~Owning(w.by))

\* A deploy receipt never says more than what happened: as long as its
\* candidate is there and nobody is deleting it, every stage it lists is done.
ReceiptsTellTheTruth ==
  \A m \in Machine :
    (deployed[m] # None /\ deployed[m].build \in Rows \ remote.claims)
      => LET b == deployed[m].build  n == deployed[m].done IN
         /\ n >= 2 => "search" \in remote.rows[b]
         /\ n >= 3 => "tables" \in remote.rows[b]
         /\ n >= 4 => b \in remote.archives
         /\ n >= 5 => Body[b] \subseteq remote.objects
         /\ n >= Verified => b \in remote.verified

\* A claim goes when the cleanup it belongs to is over: as long as there is
\* one without its build, somebody has a prune receipt to finish (the last
\* thing a cleanup does is to return its claims).
ClaimsEndWithCleanup ==
  \A b \in remote.claims :
    \/ b \in Rows
    \/ \E m \in Machine : cleanup[m] # None /\ b \in cleanup[m].plan.remove

\* The build the pointer names is all there, whichever command moved it, and so is
\* every build a Worker reads.
ServedBuildIsWhole ==
  \A b \in ({remote.pointer.build} \cup {reads[r] : r \in Reader}) \ {None} : Whole(b)

\* What the target promises its readers is what a local store promises:
\* builds that can be served in full, a pointer that only moves among them,
\* one generation per move, and no build removed while it is live or read.
Serving == INSTANCE BuildRegistry WITH
  Process <- Reader,
  retained <- remote.verified \ remote.claims,
  active <- remote.pointer.build,
  generation <- remote.pointer.generation,
  pinned <- reads

ServesWholeBuilds == Serving!Spec

=============================================================================
