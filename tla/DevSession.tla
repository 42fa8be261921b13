----------------------------- MODULE DevSession -----------------------------
(***************************************************************************)
(* A development session, `lorepack dev`: one process that watches, builds *)
(* and serves, while commands of other processes activate, roll back and   *)
(* prune.  The watcher and the reads share the pointer and the builds; a   *)
(* build of the session and a prune of another process exclude each other  *)
(* by the project lock, a prune and the start of a read by the read lock.  *)
(*                                                                         *)
(* The watcher and the reads run in one thread: what is one turn of it,    *)
(* nothing of its own interrupts.  The build runs in a worker thread.      *)
(***************************************************************************)
EXTENDS Watcher, FiniteSets

CONSTANTS
  Request,      \* requests of the session's clients
  MaxRefusals,  \* bound: registrations that cannot be removed at once
  MaxCleanups   \* bound: prunes

ASSUME DevAssumption ==
  /\ IsFiniteSet(Request) /\ {None, "build", "cleanup"} \cap Request = {}
  /\ None \notin {"build", "cleanup"}
  /\ MaxRefusals \in Nat /\ MaxCleanups \in Nat

VARIABLES
  refs, phase, held, picked, registered, readers, readLock, doomed, open, refusals,
  accepting,    \* the server takes connections
  projectLock,  \* who has the project lock: the build, "cleanup" or nobody
  crossed,      \* history: reads without an envelope yet, since whose
                \* registration another process moved the pointer
  cleanups

Reads == INSTANCE ReadHandles

readVars == <<refs, phase, held, picked, registered, readers, readLock, doomed, open,
              refusals>>
server == <<accepting, projectLock, crossed, cleanups>>
vars == <<watchVars, readVars, server>>

\* Every variable holds a value of its kind.
SessionTypeOK ==
  /\ TypeOK
  /\ Reads!ReadTypeOK(Content)
  /\ accepting \in BOOLEAN
  /\ projectLock \in {"build", "cleanup", None}
  /\ crossed \subseteq Request
  /\ cleanups \in 0..MaxCleanups

SessionInit ==
  /\ Init
  /\ Reads!ReadInit(Content)
  /\ accepting = TRUE /\ projectLock = None /\ crossed = {} /\ cleanups = 0

\* Between its registration and its envelope a read does not let go of the
\* thread.
Reading == \A r \in Request : phase[r] # "holding"

-----------------------------------------------------------------------------
(* The watcher and its builds.                                             *)

Watch ==
  /\ \/ Reading /\ (Wake \/ Start \/ Stable \/ Observe \/ Compare \/ Decide \/ CheckFails \/ Close)
     \/ Reading /\ Report
     \/ \E c \in Content \cup {Unreadable} : Edit(c)
  /\ UNCHANGED <<readVars, server>>

\* The worker takes the project lock to build, and gives it back when it has
\* activated or failed.
WorkerBuilds ==
  /\ projectLock = None /\ projectLock' = "build"
  /\ BuildReads
  /\ UNCHANGED <<readVars, accepting, crossed, cleanups>>

WorkerActivates ==
  /\ BuildActivates
  /\ projectLock' = None
  /\ UNCHANGED <<readVars, accepting, crossed, cleanups>>

WorkerFails ==
  /\ Reading
  /\ BuildFails
  /\ projectLock' = IF step = "activate" THEN None ELSE projectLock
  /\ UNCHANGED <<readVars, accepting, crossed, cleanups>>

\* A command of another process moves the pointer, with the project lock, whatever the
\* thread of the session is at.
OtherMoves ==
  /\ projectLock = None
  /\ \E b \in Content : MoveElsewhere(b)
  /\ crossed' = crossed \cup {r \in Request : phase[r] = "holding"}
  /\ UNCHANGED <<readVars, accepting, projectLock, cleanups>>

-----------------------------------------------------------------------------
(* The reads.                                                              *)

Quietly == UNCHANGED <<watchVars, server>>

Acquire(r) == accepting /\ Reads!AcquireLock(r) /\ Quietly

Register(r) == Turn /\ Reading /\ (\E b \in Content : Reads!Register(r, b)) /\ Quietly

FindActive(r) == Turn /\ Reads!FindActive(r) /\ Quietly

\* A read that names a build which is not active is not told about the sources.
SourceState(r) == IF r \in picked THEN "unknown" ELSE Answer

Envelope(r) ==
  /\ Turn
  /\ Reads!Envelope(r)
  /\ IF r \in picked THEN UNCHANGED watchVars ELSE Ask
  /\ crossed' = crossed \ {r}
  /\ UNCHANGED <<accepting, projectLock, cleanups>>

Serve(r) ==
  \/ FindActive(r) \/ Envelope(r)
  \/ /\ Turn /\ Reading /\ Quietly
     /\ Reads!Release(r) \/ Reads!AcquireFails(r) \/ Reads!Unregister(r)

Unremoved(r) == Turn /\ Reading /\ Reads!UnregisterFails(r) /\ Quietly

-----------------------------------------------------------------------------
(* Stopping: the watcher first, with its chain; then the server, with its  *)
(* requests; then the databases.                                           *)

StopAccepting ==
  /\ closed /\ step = "idle" /\ chain = <<>>
  /\ accepting /\ accepting' = FALSE
  /\ UNCHANGED <<watchVars, readVars, projectLock, crossed, cleanups>>

Stop ==
  /\ ~accepting /\ \A r \in Request : phase[r] = "idle"
  /\ Reads!CloseBackend
  /\ Quietly

-----------------------------------------------------------------------------
(* A prune by another process: the read lock inside the project lock.      *)

LockForCleanup ==
  /\ cleanups < MaxCleanups /\ cleanups' = cleanups + 1
  /\ projectLock = None /\ projectLock' = "cleanup"
  /\ UNCHANGED <<watchVars, readVars, accepting, crossed>>

\* The KeepPrevious newest of the builds that are not active, or all there are.
Newest ==
  LET others == built \ {active}
  IN  {newest \in SUBSET others :
         Cardinality(newest) = KeepPrevious
           \/ (Cardinality(newest) < KeepPrevious /\ newest = others)}

Cleanup ==
  /\ projectLock = "cleanup"
  /\ \/ /\ \E newest \in Newest : Reads!PlanCleanup(newest)
        /\ UNCHANGED <<active, built, projectLock>>
     \/ (\E b \in Content : Reads!RemoveBuild(b)) /\ UNCHANGED <<active, projectLock>>
     \/ Reads!FinishCleanup /\ UNCHANGED <<active, built>> /\ projectLock' = None
  /\ UNCHANGED <<sources, moves, session, trouble, accepting, crossed, cleanups>>

-----------------------------------------------------------------------------
SessionNext ==
  \/ Watch \/ WorkerBuilds \/ WorkerActivates \/ WorkerFails \/ OtherMoves
  \/ \E r \in Request : Acquire(r) \/ Register(r) \/ Serve(r) \/ Unremoved(r)
  \/ StopAccepting \/ Stop
  \/ LockForCleanup \/ Cleanup

SessionSpec == SessionInit /\ [][SessionNext]_vars

-----------------------------------------------------------------------------
\* What the session does to its sources, its pointer and its builds is what its
\* watcher and the commands of other processes do: no read, no envelope, no stop
\* and no step of a prune inside the locks is anything the watcher does not
\* reckon with.
WatchesAsItsWatcher == Spec

\* A catalog that is open has its build below it: a prune does not take it
\* away while any read of this process holds it, however many share it and
\* whichever of them ends first.
OpenCatalogsExist == \A b \in Content : refs[b] > 0 => b \in built

\* A catalog is open as long as a read holds it, and no longer: not closed
\* under a read by another that ends or fails to start, and not left open.
CatalogsServeTheirReads ==
  \A b \in Content : open => refs[b] = Cardinality({r \in Request : held[r] = b})

\* The envelope of a read, if it says clean, says it of the build it names.
ToldOfItsBuild(r) ==
  (phase[r] = "holding" /\ phase'[r] = "reading" /\ SourceState(r) = "clean")
    => described = held[r]

\* An envelope that says the sources are clean says it of the build it names, whatever
\* the session itself builds and however its reads overlap, unless another process
\* moved the pointer after the read had its build and before its envelope was written.
EnvelopeTellsOfItsBuild == [][\A r \in Request \ crossed : ToldOfItsBuild(r)]_vars

\* A session that stopped in order holds no catalog, and no request met a closed one.
\* A registration stays on disk only if its removal failed twice: as its read ended,
\* and when all that were left were to go; it is then one the process knew of.
StopsCleanly ==
  ~open => /\ \A r \in Request : held[r] = None
           /\ \A r \in Request : registered[r] # None => r \in readers /\ refusals > 1
           /\ \A b \in Content : refs[b] = 0

=============================================================================
