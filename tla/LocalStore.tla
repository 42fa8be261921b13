----------------------------- MODULE LocalStore -----------------------------
(***************************************************************************)
(* The .lore directory of one project on one machine, shared by every      *)
(* process that works on it: sealed builds, the content-addressed objects  *)
(* they refer to, state.sqlite (records, active pointer, activation        *)
(* history), the read registrations, and the operations that change them:  *)
(* build, import, activate, rollback, Studio activation, prune and reads.  *)
(*                                                                         *)
(* One action is one durable effect: an object written, a file of a        *)
(* directory removed, a rename, a transaction.  A process can be killed    *)
(* between any two.  The two lock directories are taken and freed as       *)
(* ProjectLock shows they can be: one holder at a time, and free again     *)
(* once the holder is gone.                                                *)
(***************************************************************************)
EXTENDS Integers, FiniteSets

CONSTANTS
  Process,
  Build,          \* build ids, derived from content
  Object,         \* object hashes
  Body,           \* the objects each build's catalog refers to
  Commands,       \* what each process may be asked to do
  KeepPrevious,   \* prune --keep
  None,
  MaxGeneration,  \* bound: how many activations there ever are
  MaxDamage       \* bound: how often something outside Lorepack removes files

CommandNames == {"build", "import", "prune", "activate", "studio", "read"}

ASSUME ConstantsAssumption ==
  /\ Body \in [Build -> SUBSET Object]
  /\ Commands \in [Process -> SUBSET CommandNames]
  /\ KeepPrevious \in Nat
  /\ MaxGeneration \in Nat
  /\ MaxDamage \in Nat
  /\ None \notin Build \cup Process

VARIABLES
  life,        \* running or gone; a process that is gone never comes back
  pc,          \* where each process is in its operation
  target,      \* the build the operation is about
  importing,   \* processes whose operation is an import
  expect,      \* Studio: the build that was live when the plan was rendered
  preview,     \* prune: the plan shown, computed without a lock
  doomed,      \* prune: what is left of it under the locks
  projectLock, \* who holds .lore/lock
  readLock,    \* who holds .lore/read-lock
  recorded,    \* the builds that have a record
  newer,       \* pairs of them, the one with the later createdAt first
  active,      \* active_build.build_id
  generation,  \* active_build.generation
  lastEvent,   \* the newest row of activation_events
  activeRows,  \* records whose state column is 'active'
  files,       \* what is in builds/<id>; {}: no such directory
  objects,     \* the objects on disk
  candidates,  \* builds with a candidate directory under tmp/
  refs,        \* each process's file under readers/, by the build it names
  damage       \* how often files were removed from outside

local == <<target, importing, expect, preview, doomed>>
locks == <<projectLock, readLock>>
pointer == <<active, generation, lastEvent>>
records == <<recorded, newer>>
database == <<records, activeRows, pointer>>
disk == <<files, objects, candidates, refs, damage>>
vars == <<life, pc, local, locks, database, disk>>

Steps == {"idle", "put", "clear", "candidate", "seal", "record", "activate",
          "apply", "lockReaders", "directories", "objects",
          "select", "register", "reading", "closed", "check", "move"}

\* "dir" is the directory entry itself; the rest is what it holds.
Complete == {"dir", "catalog", "manifest", "reports"}
Plan == [builds : SUBSET Build, objects : SUBSET Object]
NoPlan == [builds |-> {}, objects |-> {}]
Event == [generation : 1..MaxGeneration, previous : Build \cup {None}, build : Build]

ASSUME NoneAssumption == None \notin Event

\* Every variable holds a value of its kind, a directory has an entry if it has
\* a file, and of two builds with a record one is the newer.
TypeOK ==
  /\ life \in [Process -> {"running", "gone"}]
  /\ pc \in [Process -> Steps]
  /\ target \in [Process -> Build \cup {None}]
  /\ importing \subseteq Process
  /\ expect \in [Process -> Build \cup {None}]
  /\ preview \in [Process -> Plan]
  /\ doomed \in [Process -> Plan]
  /\ projectLock \in Process \cup {None}
  /\ readLock \in Process \cup {None}
  /\ recorded \subseteq Build
  /\ newer \subseteq recorded \X recorded
  /\ \A b, c \in recorded : <<b, c>> \in newer <=> b # c /\ <<c, b>> \notin newer
  /\ active \in Build \cup {None}
  /\ generation \in 0..MaxGeneration
  /\ lastEvent \in Event \cup {None}
  /\ activeRows \subseteq recorded
  /\ files \in [Build -> SUBSET Complete]
  /\ \A b \in Build : files[b] # {} => "dir" \in files[b]
  /\ objects \subseteq Object
  /\ candidates \subseteq Build
  /\ refs \in [Process -> Build \cup {None}]
  /\ damage \in 0..MaxDamage

Init ==
  /\ life = [p \in Process |-> "running"]
  /\ pc = [p \in Process |-> "idle"]
  /\ target = [p \in Process |-> None]
  /\ importing = {}
  /\ expect = [p \in Process |-> None]
  /\ preview = [p \in Process |-> NoPlan]
  /\ doomed = [p \in Process |-> NoPlan]
  /\ projectLock = None /\ readLock = None
  /\ recorded = {} /\ newer = {} /\ activeRows = {}
  /\ active = None /\ generation = 0 /\ lastEvent = None
  /\ files = [b \in Build |-> {}]
  /\ objects = {} /\ candidates = {}
  /\ refs = [p \in Process |-> None]
  /\ damage = 0

-----------------------------------------------------------------------------
Running(p) == life[p] = "running"
Goto(p, from, to) == pc[p] = from /\ pc' = [pc EXCEPT ![p] = to]
Begin(p, command, to) == Running(p) /\ command \in Commands[p] /\ Goto(p, "idle", to)

\* Leaving an operation: its memory is forgotten.
Forget(p) ==
  /\ target' = [target EXCEPT ![p] = None]
  /\ importing' = importing \ {p}
  /\ expect' = [expect EXCEPT ![p] = None]
  /\ preview' = [preview EXCEPT ![p] = NoPlan]
  /\ doomed' = [doomed EXCEPT ![p] = NoPlan]

Finish(p) == pc' = [pc EXCEPT ![p] = "idle"] /\ Forget(p)

Free(holder, p) == IF holder = p THEN None ELSE holder

\* isBuildReadable: the catalog opens and the manifest parses.
Readable(b) == {"catalog", "manifest"} \subseteq files[b]

\* assertActivatable: readable, and every object the catalog names is there.
Activatable(b) == Readable(b) /\ Body[b] \subseteq objects

\* objectHashesIn: a directory without a catalog refers to nothing.
Hashes(b) == IF "catalog" \in files[b] THEN Body[b] ELSE {}

\* Wrong on purpose: a build nobody recorded can go live.
PointToUnrecorded(b) ==
  /\ generation < MaxGeneration
  /\ active' = b
  /\ generation' = generation + 1
  /\ lastEvent' = IF b = active THEN lastEvent
                  ELSE [generation |-> generation + 1, previous |-> active, build |-> b]
  /\ activeRows' = {b}
  /\ UNCHANGED records

\* Wrong on purpose: activating the live build again records a transition too.
PointToLogged(b) ==
  /\ b \in recorded
  /\ generation < MaxGeneration
  /\ active' = b
  /\ generation' = generation + 1
  /\ lastEvent' = [generation |-> generation + 1, previous |-> active, build |-> b]
  /\ activeRows' = {b}
  /\ UNCHANGED records

\* activate(): one transaction, with the trigger that records a transition.
PointTo(b) ==
  /\ b \in recorded
  /\ generation < MaxGeneration
  /\ active' = b
  /\ generation' = generation + 1
  /\ lastEvent' = IF b = active THEN lastEvent
                  ELSE [generation |-> generation + 1, previous |-> active, build |-> b]
  /\ activeRows' = {b}
  /\ UNCHANGED records

\* One step of a recursive rmSync: a file, and last the directory itself.
RemoveFileOf(b) ==
  \E f \in files[b] :
    /\ f = "dir" => files[b] = {"dir"}
    /\ files' = [files EXCEPT ![b] = @ \ {f}]

-----------------------------------------------------------------------------
(* runBuild and importArchive, under the project lock.                     *)

\* The sources and the lockfile decide the id; a killed build's candidate goes.
BeginBuild(p, b) ==
  /\ Begin(p, "build", "put")
  /\ projectLock = None
  /\ projectLock' = p
  /\ target' = [target EXCEPT ![p] = b]
  /\ candidates' = {}
  /\ UNCHANGED <<life, importing, expect, preview, doomed, readLock, database,
                 files, objects, refs, damage>>

\* Import refuses an id that has a directory, recorded or not.
BeginImport(p, b) ==
  /\ Begin(p, "import", "put")
  /\ projectLock = None
  /\ files[b] = {}
  /\ projectLock' = p
  /\ target' = [target EXCEPT ![p] = b]
  /\ importing' = importing \cup {p}
  /\ UNCHANGED <<life, expect, preview, doomed, readLock, database, disk>>

\* An object that exists is kept, any other is written.
PutObject(p) ==
  /\ pc[p] = "put"
  /\ \E o \in Body[target[p]] \ objects : objects' = objects \cup {o}
  /\ UNCHANGED <<life, pc, local, locks, database, files, candidates, refs, damage>>

HasObjects(p) == pc[p] = "put" /\ Body[target[p]] \subseteq objects

\* The id is known: a readable recorded build is reused.
Reuse(p) ==
  LET b == target[p] IN
  /\ HasObjects(p) /\ p \notin importing
  /\ b \in recorded /\ Readable(b)
  /\ \/ b # active /\ PointTo(b)
     \/ UNCHANGED database
  /\ Finish(p)
  /\ projectLock' = None
  /\ UNCHANGED <<life, readLock, disk>>

\* Wrong on purpose: the damaged directory is left where it is.
IdentifyWithoutClearing(p) ==
  LET b == target[p] IN
  /\ HasObjects(p) /\ p \notin importing
  /\ ~ (b \in recorded /\ Readable(b))
  /\ Goto(p, "put", "candidate")
  /\ UNCHANGED <<life, local, locks, database, disk>>

\* A recorded build that cannot be read is cleared and compiled again.
Identify(p) ==
  LET b == target[p] IN
  /\ HasObjects(p) /\ p \notin importing
  /\ ~ (b \in recorded /\ Readable(b))
  /\ Goto(p, "put", IF b \in recorded THEN "clear" ELSE "candidate")
  /\ UNCHANGED <<life, local, locks, database, disk>>

Clear(p) ==
  LET b == target[p] IN
  /\ pc[p] = "clear"
  /\ IF files[b] = {}
     THEN Goto(p, "clear", "candidate") /\ UNCHANGED files
     ELSE RemoveFileOf(b) /\ UNCHANGED pc
  /\ UNCHANGED <<life, local, locks, database, objects, candidates, refs, damage>>

\* Indexed, validated (every object present), manifest and reports written.
WriteCandidate(p) ==
  /\ Goto(p, "candidate", "seal")
  /\ Body[target[p]] \subseteq objects
  /\ candidates' = candidates \cup {target[p]}
  /\ UNCHANGED <<life, local, locks, database, files, objects, refs, damage>>

\* sealCandidateDirectory: the rename replaces nothing but an empty directory.
Seal(p) ==
  LET b == target[p] IN
  /\ Goto(p, "seal", "record")
  /\ \/ files[b] \subseteq {"dir"} /\ files' = [files EXCEPT ![b] = Complete]
     \/ ~ files[b] \subseteq {"dir"} /\ Readable(b) /\ UNCHANGED files
  /\ candidates' = candidates \ {b}
  /\ UNCHANGED <<life, local, locks, database, objects, refs, damage>>

\* Not sealed, and what is there cannot be read: the build throws.
SealRefused(p) ==
  LET b == target[p] IN
  /\ pc[p] = "seal"
  /\ ~ files[b] \subseteq {"dir"} /\ ~ Readable(b)
  /\ candidates' = candidates \ {b}
  /\ Finish(p)
  /\ projectLock' = None
  /\ UNCHANGED <<life, readLock, database, files, objects, refs, damage>>

\* Cancelled, or failed in discovery, parsing, clearing, indexing, validation,
\* recording or activation; what is sealed by then stays.
BuildFails(p) ==
  /\ pc[p] \in {"put", "clear", "candidate", "seal", "record", "activate"}
  /\ candidates' = IF pc[p] = "seal" THEN candidates \ {target[p]} ELSE candidates
  /\ Finish(p)
  /\ projectLock' = None
  /\ UNCHANGED <<life, readLock, database, files, objects, refs, damage>>

\* The staged directory is renamed to an id that was checked to be absent.
InstallImport(p) ==
  /\ HasObjects(p) /\ p \in importing
  /\ Goto(p, "put", "record")
  /\ files' = IF files[target[p]] \subseteq {"dir"}
              THEN [files EXCEPT ![target[p]] = Complete] ELSE files
  /\ UNCHANGED <<life, local, locks, database, objects, candidates, refs, damage>>

\* The row of b comes after those of later, whatever came before them included,
\* and before the others.
Insert(b, later) ==
  /\ \A c \in later, d \in recorded : <<d, c>> \in newer => d \in later
  /\ recorded' = recorded \cup {b}
  /\ newer' = newer \cup (later \X {b}) \cup ({b} \X (recorded \ later))

Recording(p) ==
  /\ activeRows' = activeRows \ {target[p]}
  /\ IF p \in importing
     THEN Finish(p) /\ projectLock' = None
     ELSE Goto(p, "record", "activate") /\ UNCHANGED <<local, projectLock>>
  /\ UNCHANGED <<life, readLock, pointer, disk>>

\* Wrong on purpose: a build that has a record gets a second one.
RecordAgain(p) ==
  /\ pc[p] = "record"
  /\ \E later \in SUBSET recorded : Insert(target[p], later)
  /\ Recording(p)

\* recordBuild(): createdAt of a build is read before it waits for the lock, so
\* a new record can land anywhere in the order; an old one only changes state.
Record(p) ==
  /\ pc[p] = "record"
  /\ IF target[p] \in recorded THEN UNCHANGED records
     ELSE \E later \in SUBSET recorded : Insert(target[p], later)
  /\ Recording(p)

\* With --no-activate, or without.
FinishBuild(p) ==
  /\ pc[p] = "activate"
  /\ PointTo(target[p]) \/ UNCHANGED database
  /\ Finish(p)
  /\ projectLock' = None
  /\ UNCHANGED <<life, readLock, disk>>

-----------------------------------------------------------------------------
(* activate, rollback, and Studio's activation.                            *)

\* switchTo(): chosen, checked and moved under one hold of the lock.
Switch(p, b) ==
  /\ Running(p) /\ pc[p] = "idle" /\ "activate" \in Commands[p]
  /\ projectLock = None
  /\ Activatable(b) /\ b # active
  /\ PointTo(b)
  /\ UNCHANGED <<life, pc, local, locks, disk>>

Activate(p) == \E b \in Build : Switch(p, b)

\* previousActivation(): the newest event must describe the active pointer.
Rollback(p) ==
  /\ lastEvent # None
  /\ lastEvent.build = active /\ lastEvent.generation <= generation
  /\ lastEvent.previous # None
  /\ Switch(p, lastEvent.previous)

\* The page renders a plan: serving moves from the build live now to b.
StudioPlan(p, b) ==
  /\ Begin(p, "studio", "check")
  /\ b \in recorded
  /\ target' = [target EXCEPT ![p] = b]
  /\ expect' = [expect EXCEPT ![p] = active]
  /\ UNCHANGED <<life, importing, preview, doomed, locks, database, disk>>

\* The request arrives: everything but the expectation is checked here.
StudioCheck(p) ==
  LET b == target[p] IN
  /\ pc[p] = "check"
  /\ IF b \in recorded /\ Activatable(b) /\ b # active
     THEN Goto(p, "check", "move") /\ UNCHANGED local
     ELSE Finish(p)
  /\ UNCHANGED <<life, locks, database, disk>>

StudioMove(p) ==
  /\ pc[p] = "move"
  /\ projectLock = None
  /\ IF expect[p] = active /\ target[p] \in recorded
     THEN PointTo(target[p]) ELSE UNCHANGED database
  /\ Finish(p)
  /\ UNCHANGED <<life, locks, disk>>

-----------------------------------------------------------------------------
(* prune                                                                   *)

\* Wrong on purpose: registrations are not looked at.
NoProtectedReads == {}

\* protectedReadBuilds: registrations whose process is still running.
ProtectedReads == {refs[p] : p \in {q \in Process : Running(q)}} \ {None}

\* planRetention: the active build, the newest KeepPrevious others, and what is
\* being read are kept.
Kept ==
  LET others == recorded \ {active}
      newest == {b \in others : Cardinality({c \in others : <<c, b>> \in newer}) < KeepPrevious}
  IN  ({active} \ {None}) \cup newest \cup ProtectedReads

RetentionPlan ==
  LET remove == recorded \ Kept IN
  [builds  |-> remove,
   objects |-> (UNION {Hashes(b) : b \in remove}) \ (UNION {Hashes(b) : b \in Kept})]

\* Wrong on purpose: only recorded builds are asked what they refer to.
ReferencedByRecords(removing) ==
  (UNION {Hashes(b) : b \in recorded \ removing}) \cup (UNION {Body[b] : b \in candidates})

\* Wrong on purpose: builds that stay are not asked what they refer to.
ReferencedByCandidates(removing) ==
  UNION {Body[b] : b \in candidates \ removing}

\* What a candidate left under tmp/, and every directory that is not being
\* removed, recorded or not, still refers to.
Referenced(removing) ==
  (UNION {Hashes(b) : b \in Build \ removing}) \cup (UNION {Body[b] : b \in candidates})

\* Wrong on purpose: the plan under the locks replaces the one that was shown.
ReconciledAfresh(shown) ==
  LET remove == RetentionPlan.builds \ {active}
  IN  [builds |-> remove, objects |-> RetentionPlan.objects \ Referenced(remove)]

\* Wrong on purpose: what was shown is removed without looking again.
ReconciledNever(shown) ==
  [builds |-> shown.builds, objects |-> shown.objects \ Referenced(shown.builds)]

\* reconcileRetention: what the preview and a fresh plan both remove.
Reconciled(shown) ==
  LET remove == (shown.builds \cap RetentionPlan.builds) \ {active}
  IN  [builds |-> remove, objects |-> shown.objects \ Referenced(remove)]

Preview(p) ==
  /\ Begin(p, "prune", "apply")
  /\ preview' = [preview EXCEPT ![p] = RetentionPlan]
  /\ UNCHANGED <<life, target, importing, expect, doomed, locks, database, disk>>

LockForPrune(p) ==
  /\ Goto(p, "apply", "lockReaders")
  /\ projectLock = None
  /\ projectLock' = p
  /\ UNCHANGED <<life, local, readLock, database, disk>>

\* Under both locks: registrations of processes that are gone are removed, the
\* plan is re-derived, and its records are forgotten in one transaction.
Reconcile(p) ==
  LET plan == Reconciled(preview[p]) IN
  /\ Goto(p, "lockReaders", "directories")
  /\ readLock = None
  /\ readLock' = p
  /\ refs' = [q \in Process |-> IF Running(q) THEN refs[q] ELSE None]
  /\ doomed' = [doomed EXCEPT ![p] = plan]
  /\ recorded' = recorded \ plan.builds
  /\ newer' = newer \cap (recorded' \X recorded')
  /\ activeRows' = activeRows \ plan.builds
  /\ UNCHANGED <<life, target, importing, expect, preview, projectLock, pointer,
                 files, objects, candidates, damage>>

\* applyRetention: first every directory, in any order, then the objects.
RemoveDirectory(p) ==
  /\ pc[p] = "directories"
  /\ IF \A b \in doomed[p].builds : files[b] = {}
     THEN Goto(p, "directories", "objects") /\ UNCHANGED files
     ELSE (\E b \in doomed[p].builds : RemoveFileOf(b)) /\ UNCHANGED pc
  /\ UNCHANGED <<life, local, locks, database, objects, candidates, refs, damage>>

RemoveObject(p) ==
  /\ pc[p] = "objects"
  /\ \E o \in doomed[p].objects \cap objects : objects' = objects \ {o}
  /\ UNCHANGED <<life, pc, local, locks, database, files, candidates, refs, damage>>

FinishPrune(p) ==
  /\ pc[p] = "objects"
  /\ doomed[p].objects \cap objects = {}
  /\ Finish(p)
  /\ projectLock' = None /\ readLock' = None
  /\ UNCHANGED <<life, database, disk>>

\* Wrong on purpose: a prune that waited for readers in vain keeps the project lock.
GiveUpHolding(p) ==
  /\ pc[p] \in {"apply", "lockReaders", "move"}
  /\ Finish(p)
  /\ UNCHANGED <<life, projectLock, readLock, database, disk>>

\* A lock was not free before the deadline: the command reports it as held.
GiveUp(p) ==
  /\ pc[p] \in {"apply", "lockReaders", "move"}
  /\ Finish(p)
  /\ projectLock' = Free(projectLock, p)
  /\ UNCHANGED <<life, readLock, database, disk>>

-----------------------------------------------------------------------------
(* Reads: LocalActiveBuildProvider.acquire and release.                    *)

\* wanted is a build selected by id, or None for the active one.
BeginRead(p, wanted) ==
  /\ Begin(p, "read", "select")
  /\ readLock = None
  /\ readLock' = p
  /\ target' = [target EXCEPT ![p] = wanted]
  /\ UNCHANGED <<life, importing, expect, preview, doomed, projectLock, database, disk>>

Select(p) ==
  LET b == IF target[p] = None THEN active ELSE target[p]
      found == /\ b # None /\ "catalog" \in files[b]
               /\ target[p] # None => b \in recorded
  IN
  /\ pc[p] = "select"
  /\ \/ /\ found
        /\ Goto(p, "select", "register")
        /\ target' = [target EXCEPT ![p] = b]
        /\ UNCHANGED <<importing, expect, preview, doomed, readLock>>
     \/ /\ ~ found
        /\ Finish(p)
        /\ readLock' = None
  /\ UNCHANGED <<life, projectLock, database, disk>>

Register(p) ==
  /\ Goto(p, "register", "reading")
  /\ refs' = [refs EXCEPT ![p] = target[p]]
  /\ readLock' = None
  /\ UNCHANGED <<life, local, projectLock, database, files, objects, candidates, damage>>

\* release(): the catalog closes before its registration is removed.
CloseCatalog(p) ==
  /\ Goto(p, "reading", "closed")
  /\ UNCHANGED <<life, local, locks, database, disk>>

Unregister(p) ==
  /\ pc[p] = "closed"
  /\ refs' = [refs EXCEPT ![p] = None]
  /\ Finish(p)
  /\ UNCHANGED <<life, locks, database, files, objects, candidates, damage>>

-----------------------------------------------------------------------------
(* The environment.                                                        *)

\* Killed, or the machine stops: what is on disk stays, and its locks can be
\* taken from it.
Crash(p) ==
  /\ Running(p)
  /\ life' = [life EXCEPT ![p] = "gone"]
  /\ Finish(p)
  /\ projectLock' = Free(projectLock, p)
  /\ readLock' = Free(readLock, p)
  /\ UNCHANGED <<database, disk>>

\* A disk, a sync tool or an ignore rule removes files of a build.
Damage(b) ==
  /\ damage < MaxDamage
  /\ damage' = damage + 1
  /\ \E lost \in SUBSET files[b] :
       /\ lost # {}
       /\ "dir" \in lost => lost = files[b]
       /\ files' = [files EXCEPT ![b] = @ \ lost]
  /\ UNCHANGED <<life, pc, local, locks, database, objects, candidates, refs>>

Step(p) ==
  \/ PutObject(p) \/ Reuse(p) \/ Identify(p) \/ Clear(p) \/ WriteCandidate(p)
  \/ Seal(p) \/ SealRefused(p) \/ InstallImport(p) \/ Record(p) \/ FinishBuild(p)
  \/ StudioCheck(p) \/ StudioMove(p)
  \/ LockForPrune(p) \/ Reconcile(p) \/ RemoveDirectory(p) \/ RemoveObject(p)
  \/ FinishPrune(p) \/ GiveUp(p)
  \/ Select(p) \/ Register(p) \/ CloseCatalog(p) \/ Unregister(p)

Start(p) ==
  \/ \E b \in Build : BeginBuild(p, b) \/ BeginImport(p, b) \/ StudioPlan(p, b)
  \/ \E wanted \in Build \cup {None} : BeginRead(p, wanted)
  \/ Activate(p) \/ Rollback(p) \/ Preview(p)

Next ==
  \/ \E p \in Process : Start(p) \/ Step(p) \/ BuildFails(p) \/ Crash(p)
  \/ \E b \in Build : Damage(b)

Spec == Init /\ [][Next]_vars

\* A process that is running goes on with its operation; nothing has to start,
\* to fail or to be killed.
FairSpec == Spec /\ \A p \in Process : WF_vars(Step(p))

-----------------------------------------------------------------------------
(* What the store promises.                                                *)

\* A record never names a build that cannot open or has lost an object, however
\* far a prune got before it was killed (files removed from outside excepted).
RecordedBuildsOpen == \A b \in recorded : Activatable(b)

\* Wherever there is a catalog, recorded or half removed, the objects it names
\* are on disk: a build that reuses an object never has to write it again.
ObjectsOutliveCatalogs == \A b \in Build : Hashes(b) \subseteq objects

\* The pointer names a recorded build, the newest activation event describes
\* that pointer (or rollback would refuse), and no other record is 'active'.  The
\* live one may read 'verified' after it was damaged and compiled again.
PointerAgreesWithHistory ==
  /\ active # None => active \in recorded
  /\ (lastEvent = None) = (active = None)
  /\ lastEvent # None =>
       /\ lastEvent.build = active /\ lastEvent.previous # active
       /\ lastEvent.generation <= generation
  /\ activeRows \subseteq {active}

\* A prune removes only builds and objects its preview showed, never a build
\* that is live or being read by then, and never an object a directory that
\* stays, a leftover candidate or the live build refers to.
OnlyShownIsRemoved ==
  [][\A p \in Process :
       pc[p] \in {"lockReaders", "directories", "objects"} /\ pc'[p] # "idle" =>
         /\ \A b \in recorded \ recorded' :
              /\ b \in preview[p].builds /\ b # active
              /\ \A q \in Process : target[q] = b => pc[q] \notin {"register", "reading"}
         /\ projectLock = p => objects \ objects' \subseteq
              preview[p].objects \ Referenced({})]_vars

\* A recorded build whose files were damaged can be rebuilt under its own id:
\* nothing is left in the way when the new candidate is sealed.
DamagedBuildIsReplaced ==
  \A p \in Process :
    pc[p] = "seal" /\ target[p] \in recorded => files[target[p]] \subseteq {"dir"}

\* A directory that is already there when a build seals is the same build,
\* complete: sealing an id that exists is a no-op.
ExistingBuildIsCorrect ==
  \A p \in Process :
    pc[p] = "seal" => files[target[p]] \subseteq {"dir"} \/ files[target[p]] = Complete

\* Whoever takes the project lock lets go of it: a prune that holds it while
\* waiting for the read lock, and a reader, cannot block each other for good.
ProjectLockIsFreed ==
  \A p \in Process : projectLock = p ~> projectLock # p

(***************************************************************************)
(* The locks this relies on, as ProjectLock keeps them.                    *)
(***************************************************************************)
Locking == {"put", "clear", "candidate", "seal", "record", "activate",
            "lockReaders", "directories", "objects"}
LockingReads == {"directories", "objects", "select", "register"}

GoneProcesses == {p \in Process : ~ Running(p)}

ProjectLocking == INSTANCE ExclusiveLock WITH
  holder <- {projectLock} \ {None},
  inside <- {p \in Process : pc[p] \in Locking},
  gone <- GoneProcesses

ReadLocking == INSTANCE ExclusiveLock WITH
  holder <- {readLock} \ {None},
  inside <- {p \in Process : pc[p] \in LockingReads},
  gone <- GoneProcesses

\* Everything that compiles, records, moves the pointer or removes takes both locks
\* as their contract allows, and lets go of them on every way out.
UsesLocksAsPromised == ProjectLocking!Spec /\ ReadLocking!Spec

(***************************************************************************)
(* The abstract registry this implements.                                  *)
(***************************************************************************)
Usable == {b \in recorded : Activatable(b)}
Pinned == [p \in Process |-> IF pc[p] \in {"register", "reading"} THEN target[p] ELSE None]

Registry == INSTANCE BuildRegistry WITH retained <- Usable, pinned <- Pinned

RegistrySpec == Registry!Spec

\* The live build, and every build that a read has chosen and not closed, opens
\* with all its objects, whatever is pruned, rebuilt or killed meanwhile.
LiveAndReadBuildsServe == Registry!LiveAndReadServe

=============================================================================
