----------------------------- MODULE ReadHandles -----------------------------
(***************************************************************************)
(* The reads of one serving process.  Reads of a build share one open      *)
(* catalog, counted by the handles on it; every handle has a registration  *)
(* of its own on disk, which keeps the build from a cleanup by another     *)
(* process.  Opening and registering happen under the lock that cleanup    *)
(* holds while it removes builds.                                          *)
(***************************************************************************)
EXTENDS Integers

CONSTANTS
  Request,     \* reads
  None,
  MaxRefusals  \* bound: registrations that cannot be removed at once

VARIABLES
  active,      \* the active build
  built,       \* the builds that are retained
  refs,        \* handles on each open catalog; a build without one is closed
  phase,       \* how far each read is
  held,        \* the build it has a handle on
  picked,      \* reads that named a build which they did not find active yet
  registered,  \* registrations on disk
  readers,     \* registrations the process still has to remove
  readLock,    \* who has the lock: a read, "cleanup" or nobody
  doomed,      \* what a cleanup removes
  open,        \* whether the process still serves from this backend
  refusals

readVars == <<refs, phase, held, picked, registered, readers, readLock, doomed, open, refusals>>

Phases == {"idle", "opening", "holding", "reading", "closing"}

\* Every variable holds a value of its kind.
ReadTypeOK(Build) ==
  /\ refs \in [Build -> Nat]
  /\ phase \in [Request -> Phases]
  /\ held \in [Request -> Build \cup {None}]
  /\ picked \subseteq Request
  /\ registered \in [Request -> Build \cup {None}]
  /\ readers \subseteq Request
  /\ readLock \in Request \cup {"cleanup", None}
  /\ doomed \subseteq Build
  /\ open \in BOOLEAN /\ refusals \in 0..MaxRefusals

ReadInit(Build) ==
  /\ refs = [b \in Build |-> 0]
  /\ phase = [r \in Request |-> "idle"]
  /\ held = [r \in Request |-> None]
  /\ registered = [r \in Request |-> None]
  /\ picked = {} /\ readers = {} /\ readLock = None /\ doomed = {}
  /\ open = TRUE /\ refusals = 0

Go(r, from, to) == phase[r] = from /\ phase' = [phase EXCEPT ![r] = to]

-----------------------------------------------------------------------------
\* Acquisitions of one process wait for each other, and for a cleanup.
AcquireLock(r) ==
  /\ Go(r, "idle", "opening")
  /\ registered[r] = None
  /\ open
  /\ readLock = None /\ readLock' = r
  /\ UNCHANGED <<refs, held, picked, registered, readers, doomed, open, refusals>>

\* Wrong on purpose: one registration for each catalog that is opened.
RegisterOnce(r, b) ==
  /\ Go(r, "opening", "holding")
  /\ open
  /\ b \in built
  /\ \E named \in BOOLEAN :
       /\ b # active => named
       /\ picked' = IF named THEN picked \cup {r} ELSE picked
  /\ held' = [held EXCEPT ![r] = b]
  /\ refs' = [refs EXCEPT ![b] = @ + 1]
  /\ registered' = IF refs[b] = 0 THEN [registered EXCEPT ![r] = b] ELSE registered
  /\ readers' = readers \cup {r}
  /\ readLock' = None
  /\ UNCHANGED <<doomed, open, refusals>>

\* Under the lock, in one turn: a build that is retained, its catalog, a
\* registration.
Register(r, b) ==
  /\ Go(r, "opening", "holding")
  /\ open
  /\ b \in built
  /\ \E named \in BOOLEAN :
       /\ b # active => named
       /\ picked' = IF named THEN picked \cup {r} ELSE picked
  /\ held' = [held EXCEPT ![r] = b]
  /\ refs' = [refs EXCEPT ![b] = @ + 1]
  /\ registered' = [registered EXCEPT ![r] = b]
  /\ readers' = readers \cup {r}
  /\ readLock' = None
  /\ UNCHANGED <<doomed, open, refusals>>

\* Wrong on purpose: the catalog is closed, also when other reads have it.
AcquireFailsClosing(r) ==
  /\ Go(r, "opening", "idle")
  /\ readLock' = None
  /\ refs' = [refs EXCEPT ![active] = 0]
  /\ UNCHANGED <<held, picked, registered, readers, doomed, open, refusals>>

\* The build named is not retained, its catalog does not open, or the
\* registration cannot be written: a catalog opened for this read alone is
\* closed again.
AcquireFails(r) ==
  /\ Go(r, "opening", "idle")
  /\ readLock' = None
  /\ UNCHANGED <<refs, held, picked, registered, readers, doomed, open, refusals>>

\* A read that named its build looks whether that is the active one.  If it is, its
\* envelope is like those of the reads that named none.
FindActive(r) ==
  /\ phase[r] = "holding" /\ r \in picked /\ held[r] = active
  /\ picked' = picked \ {r}
  /\ UNCHANGED <<refs, phase, held, registered, readers, readLock, doomed, open, refusals>>

\* The envelope is written before the body runs.
Envelope(r) ==
  /\ Go(r, "holding", "reading")
  /\ r \in picked => held[r] # active
  /\ picked' = picked \ {r}
  /\ UNCHANGED <<refs, held, registered, readers, readLock, doomed, open, refusals>>

\* release(): the last handle closes the catalog, unless the backend closed it.
Release(r) ==
  /\ Go(r, "reading", "closing")
  /\ refs' = IF open THEN [refs EXCEPT ![held[r]] = @ - 1] ELSE refs
  /\ held' = [held EXCEPT ![r] = None]
  /\ UNCHANGED <<picked, registered, readers, readLock, doomed, open, refusals>>

\* And then its registration goes.
Unregister(r) ==
  /\ Go(r, "closing", "idle")
  /\ registered' = [registered EXCEPT ![r] = None]
  /\ readers' = readers \ {r}
  /\ UNCHANGED <<refs, held, picked, readLock, doomed, open, refusals>>

\* Wrong on purpose: the read is forgotten before its registration is gone.
UnregisterForgets(r) ==
  /\ Go(r, "closing", "idle")
  /\ refusals < MaxRefusals /\ refusals' = refusals + 1
  /\ readers' = readers \ {r}
  /\ UNCHANGED <<refs, held, picked, registered, readLock, doomed, open>>

\* Or it cannot be removed: it is the process's to remove when it stops.
UnregisterFails(r) ==
  /\ Go(r, "closing", "idle")
  /\ refusals < MaxRefusals /\ refusals' = refusals + 1
  /\ UNCHANGED <<refs, held, picked, registered, readers, readLock, doomed, open>>

\* closeAll(): every catalog, then one registration after the other.  One that cannot
\* be removed ends it: what is left stays on disk, and nobody tries again.
CloseBackend ==
  /\ open /\ open' = FALSE
  /\ refs' = [b \in DOMAIN refs |-> 0]
  /\ \E removed \in SUBSET readers :
       /\ registered' = [r \in Request |-> IF r \in removed THEN None ELSE registered[r]]
       /\ IF removed = readers
            THEN readers' = {} /\ UNCHANGED refusals
            ELSE refusals < MaxRefusals /\ refusals' = refusals + 1 /\ UNCHANGED readers
  /\ UNCHANGED <<phase, held, picked, readLock, doomed>>

-----------------------------------------------------------------------------
(* A cleanup by another process.                                           *)

\* Wrong on purpose: an active build that nobody reads goes too.
PlanEverything(newest) ==
  /\ readLock = None /\ readLock' = "cleanup"
  /\ doomed' = built \ (newest \cup {registered[r] : r \in Request})
  /\ UNCHANGED <<built, refs, phase, held, picked, registered, readers, open, refusals>>

\* With the lock: everything but the active build, the newest others and what is
\* registered.
PlanCleanup(newest) ==
  /\ readLock = None /\ readLock' = "cleanup"
  /\ doomed' = built \ ({active} \cup newest \cup {registered[r] : r \in Request})
  /\ UNCHANGED <<built, refs, phase, held, picked, registered, readers, open, refusals>>

RemoveBuild(b) ==
  /\ b \in doomed
  /\ doomed' = doomed \ {b}
  /\ built' = built \ {b}
  /\ UNCHANGED <<refs, phase, held, picked, registered, readers, readLock, open, refusals>>

FinishCleanup ==
  /\ readLock = "cleanup" /\ doomed = {}
  /\ readLock' = None
  /\ UNCHANGED <<built, refs, phase, held, picked, registered, readers, doomed, open, refusals>>

=============================================================================
