-------------------------- MODULE DevSession_proofs --------------------------
(***************************************************************************)
(* Proofs about DevSession: its types, and that open catalogs exist, serve *)
(* their reads and end with the session; what envelopes tell; and that a   *)
(* session does what its watcher does.                                     *)
(***************************************************************************)
EXTENDS DevSession, Watcher_proofs, FiniteSetTheorems

(* A read has a handle from its registration to its release.  Its          *)
(* registration is on disk before and after, names a build that is         *)
(* retained, and is the process's to remove.                               *)
HandlesAreRegistered ==
  \A r \in Request :
    /\ phase[r] \in {"holding", "reading"} <=> held[r] # None
    /\ held[r] # None => registered[r] = held[r]
    /\ registered[r] # None => r \in readers /\ registered[r] \in built
    /\ phase[r] = "opening" <=> readLock = r

(* A prune removes builds inside both locks; a build of the session moves  *)
(* the pointer inside the project lock.  So what a prune has decided to    *)
(* remove is neither active nor read.                                      *)
RemovalIsExclusive ==
  /\ doomed # {} => readLock = "cleanup"
  /\ readLock = "cleanup" => projectLock = "cleanup"
  /\ projectLock = "build" <=> step = "activate"
  /\ active \notin doomed
  /\ \A r \in Request : registered[r] \notin doomed

Holders(b) == {r \in Request : held[r] = b}

CountsAreExact ==
  \A b \in Content : refs[b] = IF open THEN Cardinality(Holders(b)) ELSE 0

(* A registration that outlives its read could not be removed when that    *)
(* ended, and one that outlives the backend not then either.               *)
StoppedIsEmpty ==
  /\ \A r \in Request :
       phase[r] \in {"idle", "opening"} /\ registered[r] # None => refusals > 0
  /\ ~open => \A r \in Request :
                phase[r] = "idle" /\ (registered[r] # None => refusals > 1)

SessionInv ==
  /\ Typed /\ SessionTypeOK
  /\ HandlesAreRegistered /\ RemovalIsExclusive /\ CountsAreExact /\ StoppedIsEmpty

(* A read that did not name its build, or found it active, has the active  *)
(* one until its envelope.  Otherwise the session's build moved the        *)
(* pointer in between, and the session does not say clean until it has     *)
(* heard of that; or another process did.                                  *)
EnvelopesAreSound ==
  /\ step \in {"build", "activate", "report"} => state # "clean"
  /\ \A r \in Request :
       phase[r] = "holding" /\ r \notin picked => held[r] = active \/ step = "report" \/ r \in crossed

-----------------------------------------------------------------------------
LEMMA SessionStarts == SessionInit => SessionInv
<1> SUFFICES ASSUME SessionInit PROVE SessionInv
  OBVIOUS
<1> USE WatcherAssumption, DevAssumption DEF SessionInit, Reads!ReadInit
<1>1. Typed
  BY TypedInit
<1>2. \A b \in Content : Holders(b) = {}
  BY DEF Holders
<1>3. CountsAreExact
  BY <1>2, FS_EmptySet DEF CountsAreExact
<1>4. refs \in [Content -> Nat]
  OBVIOUS
<1>5. SessionTypeOK
  <2>1. /\ phase \in [Request -> Reads!Phases]
        /\ held \in [Request -> Content \cup {None}]
        /\ registered \in [Request -> Content \cup {None}]
    BY DEF Reads!Phases
  <2>2. picked \subseteq Request /\ readers \subseteq Request /\ doomed \subseteq Content
    OBVIOUS
  <2>3. readLock \in Request \cup {"cleanup", None} /\ refusals \in 0..MaxRefusals
        /\ crossed \subseteq Request
        /\ projectLock \in {"build", "cleanup", None} /\ cleanups \in 0..MaxCleanups
    OBVIOUS
  <2>4. open \in BOOLEAN /\ accepting \in BOOLEAN
    OBVIOUS
  <2>5. TypeOK
    BY <1>1 DEF Typed
  <2> HIDE DEF SessionInit, Reads!ReadInit
  <2>6. Reads!ReadTypeOK(Content)
    BY <1>4, <2>1, <2>2, <2>3, <2>4 DEF Reads!ReadTypeOK
  <2>7. QED
    BY <2>3, <2>4, <2>5, <2>6 DEF SessionTypeOK
<1>6. HandlesAreRegistered
  BY DEF HandlesAreRegistered
<1>7. RemovalIsExclusive
  BY DEF RemovalIsExclusive, Init
<1>8. QED
  BY <1>1, <1>3, <1>5, <1>6, <1>7 DEF SessionInv, StoppedIsEmpty

-----------------------------------------------------------------------------
(* What the reads keep.                                                    *)

\* Steps that leave the reads alone and remove no build leave what is said of
\* them as it is.
LEMMA ReadsAreLeftAlone ==
  ASSUME SessionInv, UNCHANGED readVars, built \subseteq built',
         Typed', accepting' \in BOOLEAN,
         projectLock' \in {"build", "cleanup", None}, cleanups' \in 0..MaxCleanups,
         crossed' \subseteq Request, RemovalIsExclusive'
  PROVE  SessionInv'
<1>1. HandlesAreRegistered'
  BY DEF SessionInv, HandlesAreRegistered, readVars
<1>2. CountsAreExact' /\ StoppedIsEmpty'
  BY DEF SessionInv, CountsAreExact, StoppedIsEmpty, Holders, readVars
<1>3. Reads!ReadTypeOK(Content)'
  BY DEF SessionInv, SessionTypeOK, Reads!ReadTypeOK, Reads!Phases, readVars
<1>4. SessionTypeOK'
  BY <1>3 DEF SessionTypeOK, Typed
<1>5. QED
  BY <1>1, <1>2, <1>4 DEF SessionInv

\* The watcher's turns and the edits.
LEMMA WatchStep ==
  ASSUME SessionInv, Watch
  PROVE  SessionInv'
<1>1. /\ Next /\ UNCHANGED <<readVars, server>>
      /\ UNCHANGED <<active, built>>
      /\ step' = "activate" <=> step = "activate"
  BY DEF Watch, Next, Environment, Wake, Work, Ready, Debounced, WatcherError, Sweep, Start, Stable,
     Observe, Compare, Decide, CheckFails, Close, Report, Edit, Finish, Goto, builds, work
<1>2. Typed'
  BY <1>1, TypedStep DEF SessionInv
<1>3. RemovalIsExclusive'
  BY <1>1 DEF SessionInv, RemovalIsExclusive, readVars, server
<1>4. QED
  BY <1>1, <1>2, <1>3, ReadsAreLeftAlone DEF SessionInv, SessionTypeOK, server

\* The worker's steps, and the commands of other processes.
LEMMA BuildStep ==
  ASSUME SessionInv, WorkerBuilds \/ WorkerActivates \/ WorkerFails \/ OtherMoves
  PROVE  SessionInv'
<1> USE WatcherAssumption, DevAssumption
<1>1. Next /\ UNCHANGED <<readVars, accepting, cleanups>> /\ built \subseteq built'
      /\ projectLock' \in {"build", "cleanup", None} /\ crossed' \subseteq Request
  <2>1. CASE WorkerBuilds
    BY <2>1 DEF WorkerBuilds, BuildReads, Next, Work, builds, SessionInv, SessionTypeOK
  <2>2. CASE WorkerActivates
    BY <2>2 DEF WorkerActivates, BuildActivates, Next, Work, SessionInv, SessionTypeOK
  <2>3. CASE WorkerFails
    BY <2>3 DEF WorkerFails, BuildFails, Next, Work, builds, SessionInv, SessionTypeOK
  <2>4. CASE OtherMoves
    BY <2>4 DEF OtherMoves, MoveElsewhere, Next, Environment, SessionInv, SessionTypeOK
  <2>5. QED
    BY <2>1, <2>2, <2>3, <2>4
<1>2. Typed'
  BY <1>1, TypedStep DEF SessionInv
<1>3. RemovalIsExclusive'
  <2>1. UNCHANGED <<readLock, doomed, registered>>
    BY <1>1 DEF readVars
  <2>2. CASE WorkerBuilds
    <3>1. projectLock = None /\ projectLock' = "build" /\ step' = "activate" /\ active' = active
      BY <2>2 DEF WorkerBuilds, BuildReads, Goto, builds
    <3>2. QED
      BY <2>1, <3>1 DEF SessionInv, RemovalIsExclusive
  <2>3. CASE WorkerActivates
    <3>1. step = "activate" /\ step' = "report" /\ projectLock' = None
      BY <2>3 DEF WorkerActivates, BuildActivates, Goto
    <3>2. doomed = {} /\ readLock # "cleanup"
      BY <3>1 DEF SessionInv, RemovalIsExclusive
    <3>3. QED
      BY <2>1, <3>1, <3>2 DEF SessionInv, RemovalIsExclusive
  <2>4. CASE WorkerFails
    <3>1. /\ step \in {"build", "activate", "report"} /\ step' = "idle" /\ active' = active
          /\ projectLock' = IF step = "activate" THEN None ELSE projectLock
      BY <2>4 DEF WorkerFails, BuildFails, Finish, builds
    <3>2. QED
      BY <2>1, <3>1 DEF SessionInv, RemovalIsExclusive
  <2>5. CASE OtherMoves
    <3>1. projectLock = None /\ UNCHANGED <<projectLock, step>>
      BY <2>5 DEF OtherMoves, MoveElsewhere, session, work
    <3>2. doomed = {} /\ readLock # "cleanup"
      BY <3>1 DEF SessionInv, RemovalIsExclusive
    <3>3. QED
      BY <2>1, <3>1, <3>2 DEF SessionInv, RemovalIsExclusive
  <2>6. QED
    BY <2>2, <2>3, <2>4, <2>5
<1>4. QED
  BY <1>1, <1>2, <1>3, ReadsAreLeftAlone DEF SessionInv, SessionTypeOK

\* The holders of a build are finitely many.
LEMMA HoldersAreFinite ==
  ASSUME NEW b
  PROVE  /\ IsFiniteSet(Holders(b)) /\ Cardinality(Holders(b)) \in Nat
         /\ IsFiniteSet(Holders(b)') /\ Cardinality(Holders(b)') \in Nat
<1>1. Holders(b) \in SUBSET Request /\ Holders(b)' \in SUBSET Request
  BY DEF Holders
<1>2. QED
  BY <1>1, DevAssumption, FS_Subset, FS_CardinalityType

\* A handle more on a build.
LEMMA OneHolderMore ==
  ASSUME SessionInv, NEW r \in Request, NEW b \in Content, open, open',
         held[r] = None, held' = [held EXCEPT ![r] = b], refs' = [refs EXCEPT ![b] = @ + 1]
  PROVE  CountsAreExact' /\ refs' \in [Content -> Nat]
<1> USE WatcherAssumption
<1>1. held \in [Request -> Content \cup {None}] /\ refs \in [Content -> Nat]
  <2>1. Reads!ReadTypeOK(Content)
    BY DEF SessionInv, SessionTypeOK
  <2>2. QED
    BY <2>1 DEF Reads!ReadTypeOK
<1>2. Holders(b)' = Holders(b) \cup {r} /\ r \notin Holders(b)
  BY <1>1 DEF Holders
<1>3. Cardinality(Holders(b)') = Cardinality(Holders(b)) + 1
  <2>1. IsFiniteSet(Holders(b))
    BY HoldersAreFinite
  <2>2. Cardinality(Holders(b) \cup {r}) =
          IF r \in Holders(b) THEN Cardinality(Holders(b)) ELSE Cardinality(Holders(b)) + 1
    BY ONLY <2>1, FS_AddElement
  <2>3. QED
    BY <1>2, <2>2
<1>4. refs'[b] = Cardinality(Holders(b)') /\ refs'[b] \in Nat
  BY <1>1, <1>3, HoldersAreFinite DEF SessionInv, CountsAreExact
<1>5. ASSUME NEW c \in Content, c # b PROVE Holders(c)' = Holders(c) /\ refs'[c] = refs[c]
  BY <1>1, <1>5 DEF Holders
<1>6. CountsAreExact'
  BY <1>4, <1>5 DEF SessionInv, CountsAreExact
<1>7. QED
  BY <1>1, <1>4, <1>6

\* A handle less.
LEMMA OneHolderLess ==
  ASSUME SessionInv, NEW r \in Request, NEW b \in Content, open, open',
         held[r] = b, held' = [held EXCEPT ![r] = None], refs' = [refs EXCEPT ![b] = @ - 1]
  PROVE  CountsAreExact' /\ refs' \in [Content -> Nat]
<1> USE WatcherAssumption
<1>1. held \in [Request -> Content \cup {None}] /\ refs \in [Content -> Nat]
  <2>1. Reads!ReadTypeOK(Content)
    BY DEF SessionInv, SessionTypeOK
  <2>2. QED
    BY <2>1 DEF Reads!ReadTypeOK
<1>2. Holders(b)' = Holders(b) \ {r} /\ r \in Holders(b)
  BY <1>1 DEF Holders
<1>3. Cardinality(Holders(b)') = Cardinality(Holders(b)) - 1
  <2>1. IsFiniteSet(Holders(b))
    BY HoldersAreFinite
  <2>2. Cardinality(Holders(b) \ {r}) =
          IF r \in Holders(b) THEN Cardinality(Holders(b)) - 1 ELSE Cardinality(Holders(b))
    BY ONLY <2>1, FS_RemoveElement
  <2>3. QED
    BY <1>2, <2>2
<1>4. refs'[b] = Cardinality(Holders(b)') /\ refs'[b] \in Nat
  BY <1>1, <1>3, HoldersAreFinite DEF SessionInv, CountsAreExact
<1>5. ASSUME NEW c \in Content, c # b PROVE Holders(c)' = Holders(c) /\ refs'[c] = refs[c]
  BY <1>1, <1>5 DEF Holders
<1>6. CountsAreExact'
  BY <1>4, <1>5 DEF SessionInv, CountsAreExact
<1>7. QED
  BY <1>1, <1>4, <1>6

\* When no handle changes, the counts do not.
LEMMA HoldersStay ==
  ASSUME SessionInv, UNCHANGED <<refs, held, open>>
  PROVE  CountsAreExact' /\ refs' \in [Content -> Nat]
<1>1. Reads!ReadTypeOK(Content)
  BY DEF SessionInv, SessionTypeOK
<1>2. refs' \in [Content -> Nat]
  BY <1>1 DEF Reads!ReadTypeOK
<1>3. QED
  BY <1>2 DEF SessionInv, CountsAreExact, Holders

\* The steps of a read, but for what they do to the watcher.
LEMMA ReadSteps ==
  ASSUME SessionInv, NEW r \in Request,
         \/ Reads!AcquireLock(r) \/ (\E b \in Content : Reads!Register(r, b))
         \/ Reads!AcquireFails(r) \/ Reads!FindActive(r) \/ Reads!Envelope(r) \/ Reads!Release(r)
         \/ Reads!Unregister(r) \/ Reads!UnregisterFails(r),
         UNCHANGED <<active, built, step, projectLock>>
  PROVE  /\ HandlesAreRegistered' /\ RemovalIsExclusive' /\ CountsAreExact' /\ StoppedIsEmpty'
         /\ Reads!ReadTypeOK(Content)'
<1> USE WatcherAssumption, DevAssumption
<1> DEFINE Goal == /\ HandlesAreRegistered' /\ RemovalIsExclusive' /\ CountsAreExact'
                   /\ StoppedIsEmpty' /\ Reads!ReadTypeOK(Content)'
<1>1. Reads!ReadTypeOK(Content)
  BY DEF SessionInv, SessionTypeOK
<1>2. CASE Reads!AcquireLock(r)
  <2>1. /\ phase[r] = "idle" /\ phase' = [phase EXCEPT ![r] = "opening"]
        /\ open /\ readLock = None /\ readLock' = r
        /\ UNCHANGED <<refs, held, picked, registered, readers, doomed, open, refusals>>
    BY <1>2 DEF Reads!AcquireLock, Reads!Go
  <2>2. HandlesAreRegistered'
    BY <1>1, <2>1 DEF SessionInv, HandlesAreRegistered, Reads!ReadTypeOK
  <2>3. RemovalIsExclusive'
    BY <2>1 DEF SessionInv, RemovalIsExclusive
  <2>4. Reads!ReadTypeOK(Content)'
    BY <1>1, <2>1 DEF Reads!ReadTypeOK, Reads!Phases
  <2>5. StoppedIsEmpty'
    BY <1>1, <2>1 DEF SessionInv, StoppedIsEmpty, Reads!ReadTypeOK
  <2>6. QED
    BY <2>1, <2>2, <2>3, <2>4, <2>5, HoldersStay
<1>3. ASSUME NEW b \in Content, Reads!Register(r, b) PROVE Goal
  <2>1. /\ phase[r] = "opening" /\ phase' = [phase EXCEPT ![r] = "holding"]
        /\ open /\ b \in built /\ readLock' = None
        /\ held' = [held EXCEPT ![r] = b] /\ registered' = [registered EXCEPT ![r] = b]
        /\ refs' = [refs EXCEPT ![b] = @ + 1] /\ readers' = readers \cup {r}
        /\ UNCHANGED <<doomed, open, refusals>>
    BY <1>3 DEF Reads!Register, Reads!Go
  <2>2. picked' \subseteq Request
    BY <1>1, <1>3 DEF Reads!Register, Reads!ReadTypeOK
  <2>3. readLock = r /\ held[r] = None /\ doomed = {}
    BY <2>1 DEF SessionInv, HandlesAreRegistered, RemovalIsExclusive
  <2>4. HandlesAreRegistered'
    BY <1>1, <2>1, <2>3 DEF SessionInv, HandlesAreRegistered, Reads!ReadTypeOK
  <2>5. RemovalIsExclusive'
    BY <2>1, <2>3 DEF SessionInv, RemovalIsExclusive
  <2>6. CountsAreExact' /\ refs' \in [Content -> Nat]
    BY <2>1, <2>3, OneHolderMore
  <2>7. Reads!ReadTypeOK(Content)'
    <3>1. /\ phase' \in [Request -> Reads!Phases]
          /\ held' \in [Request -> Content \cup {None}]
          /\ registered' \in [Request -> Content \cup {None}]
          /\ readers' \subseteq Request
      BY <1>1, <2>1 DEF Reads!ReadTypeOK, Reads!Phases
    <3>2. readLock' = None /\ UNCHANGED <<doomed, open, refusals>>
      BY <2>1
    <3>3. QED
      BY <1>1, <2>2, <2>6, <3>1, <3>2 DEF Reads!ReadTypeOK
  <2>8. StoppedIsEmpty'
    BY <1>1, <2>1 DEF SessionInv, StoppedIsEmpty, Reads!ReadTypeOK
  <2>9. QED
    BY <2>4, <2>5, <2>6, <2>7, <2>8
<1>4. CASE Reads!AcquireFails(r)
  <2>1. /\ phase[r] = "opening" /\ phase' = [phase EXCEPT ![r] = "idle"] /\ readLock' = None
        /\ UNCHANGED <<refs, held, picked, registered, readers, doomed, open, refusals>>
    BY <1>4 DEF Reads!AcquireFails, Reads!Go
  <2>2. readLock = r /\ doomed = {} /\ open
    BY <2>1 DEF SessionInv, HandlesAreRegistered, RemovalIsExclusive, StoppedIsEmpty
  <2>3. HandlesAreRegistered'
    BY <1>1, <2>1, <2>2 DEF SessionInv, HandlesAreRegistered, Reads!ReadTypeOK
  <2>4. RemovalIsExclusive'
    BY <2>1, <2>2 DEF SessionInv, RemovalIsExclusive
  <2>5. Reads!ReadTypeOK(Content)'
    BY <1>1, <2>1 DEF Reads!ReadTypeOK, Reads!Phases
  <2>6. StoppedIsEmpty'
    BY <1>1, <2>1, <2>2 DEF SessionInv, StoppedIsEmpty, Reads!ReadTypeOK
  <2>7. QED
    BY <2>1, <2>3, <2>4, <2>5, <2>6, HoldersStay
<1>5. CASE Reads!Envelope(r)
  <2>1. /\ phase[r] = "holding" /\ phase' = [phase EXCEPT ![r] = "reading"]
        /\ picked' = picked \ {r}
        /\ UNCHANGED <<refs, held, registered, readers, readLock, doomed, open, refusals>>
    BY <1>5 DEF Reads!Envelope, Reads!Go
  <2>2. HandlesAreRegistered'
    BY <1>1, <2>1 DEF SessionInv, HandlesAreRegistered, Reads!ReadTypeOK
  <2>3. RemovalIsExclusive'
    BY <2>1 DEF SessionInv, RemovalIsExclusive
  <2>4. Reads!ReadTypeOK(Content)'
    BY <1>1, <2>1 DEF Reads!ReadTypeOK, Reads!Phases
  <2>5. StoppedIsEmpty'
    BY <1>1, <2>1 DEF SessionInv, StoppedIsEmpty, Reads!ReadTypeOK
  <2>6. QED
    BY <2>1, <2>2, <2>3, <2>4, <2>5, HoldersStay
<1>6. CASE Reads!Release(r)
  <2>1. open
    BY <1>6 DEF Reads!Release, Reads!Go, SessionInv, StoppedIsEmpty
  <2>2. /\ phase[r] = "reading" /\ phase' = [phase EXCEPT ![r] = "closing"]
        /\ refs' = [refs EXCEPT ![held[r]] = @ - 1]
        /\ held' = [held EXCEPT ![r] = None]
        /\ UNCHANGED <<picked, registered, readers, readLock, doomed, open, refusals>>
    BY <1>6, <2>1 DEF Reads!Release, Reads!Go
  <2>3. held[r] \in Content
    BY <1>1, <2>2 DEF SessionInv, HandlesAreRegistered, Reads!ReadTypeOK
  <2>4. HandlesAreRegistered'
    BY <1>1, <2>2 DEF SessionInv, HandlesAreRegistered, Reads!ReadTypeOK
  <2>5. RemovalIsExclusive'
    BY <2>2 DEF SessionInv, RemovalIsExclusive
  <2>6. CountsAreExact' /\ refs' \in [Content -> Nat]
    BY <2>1, <2>2, <2>3, OneHolderLess
  <2>7. Reads!ReadTypeOK(Content)'
    <3>1. phase' \in [Request -> Reads!Phases] /\ held' \in [Request -> Content \cup {None}]
      BY <1>1, <2>2 DEF Reads!ReadTypeOK, Reads!Phases
    <3>2. UNCHANGED <<picked, registered, readers, readLock, doomed, open, refusals>>
      BY <2>2
    <3>3. QED
      BY <1>1, <2>6, <3>1, <3>2 DEF Reads!ReadTypeOK
  <2>8. StoppedIsEmpty'
    BY <1>1, <2>1, <2>2 DEF SessionInv, StoppedIsEmpty, Reads!ReadTypeOK
  <2>9. QED
    BY <2>4, <2>5, <2>6, <2>7, <2>8
<1>7. CASE Reads!Unregister(r)
  <2>1. open
    BY <1>7 DEF Reads!Unregister, Reads!Go, SessionInv, StoppedIsEmpty
  <2>2. /\ phase[r] = "closing" /\ phase' = [phase EXCEPT ![r] = "idle"]
        /\ registered' = [registered EXCEPT ![r] = None] /\ readers' = readers \ {r}
        /\ UNCHANGED <<refs, held, picked, readLock, doomed, open, refusals>>
    BY <1>7 DEF Reads!Unregister, Reads!Go
  <2>3. held[r] = None
    BY <2>2 DEF SessionInv, HandlesAreRegistered
  <2>4. HandlesAreRegistered'
    BY <1>1, <2>2, <2>3 DEF SessionInv, HandlesAreRegistered, Reads!ReadTypeOK
  <2>5. RemovalIsExclusive'
    BY <1>1, <2>2 DEF SessionInv, RemovalIsExclusive, Reads!ReadTypeOK
  <2>6. Reads!ReadTypeOK(Content)'
    BY <1>1, <2>2 DEF Reads!ReadTypeOK, Reads!Phases
  <2>7. StoppedIsEmpty'
    BY <1>1, <2>1, <2>2 DEF SessionInv, StoppedIsEmpty, Reads!ReadTypeOK
  <2>8. QED
    BY <2>2, <2>4, <2>5, <2>6, <2>7, HoldersStay
<1>8. CASE Reads!UnregisterFails(r)
  <2>1. open
    BY <1>8 DEF Reads!UnregisterFails, Reads!Go, SessionInv, StoppedIsEmpty
  <2>2. /\ phase[r] = "closing" /\ phase' = [phase EXCEPT ![r] = "idle"]
        /\ UNCHANGED <<refs, held, picked, registered, readers, readLock, doomed, open>>
    BY <1>8 DEF Reads!UnregisterFails, Reads!Go
  <2>3. refusals \in Nat /\ refusals' = refusals + 1 /\ refusals' \in 0..MaxRefusals
    BY <1>1, <1>8 DEF Reads!UnregisterFails, Reads!ReadTypeOK
  <2>4. HandlesAreRegistered'
    BY <1>1, <2>2 DEF SessionInv, HandlesAreRegistered, Reads!ReadTypeOK
  <2>5. RemovalIsExclusive'
    BY <2>2 DEF SessionInv, RemovalIsExclusive
  <2>6. Reads!ReadTypeOK(Content)'
    BY <1>1, <2>2, <2>3 DEF Reads!ReadTypeOK, Reads!Phases
  <2>7. StoppedIsEmpty'
    BY <1>1, <2>1, <2>2, <2>3 DEF SessionInv, StoppedIsEmpty, Reads!ReadTypeOK
  <2>8. QED
    BY <2>2, <2>4, <2>5, <2>6, <2>7, HoldersStay
<1>9. CASE Reads!FindActive(r)
  <2>1. /\ picked' = picked \ {r}
        /\ UNCHANGED <<refs, phase, held, registered, readers, readLock, doomed, open, refusals>>
    BY <1>9 DEF Reads!FindActive
  <2>2. HandlesAreRegistered' /\ RemovalIsExclusive' /\ StoppedIsEmpty'
    BY <2>1 DEF SessionInv, HandlesAreRegistered, RemovalIsExclusive, StoppedIsEmpty
  <2>3. Reads!ReadTypeOK(Content)'
    BY <1>1, <2>1 DEF Reads!ReadTypeOK, Reads!Phases
  <2>4. QED
    BY <2>1, <2>2, <2>3, HoldersStay
<1>10. QED
  BY <1>2, <1>3, <1>4, <1>5, <1>6, <1>7, <1>8, <1>9

\* The requests: a read, and what its envelope makes the watcher do.
LEMMA RequestStep ==
  ASSUME SessionInv, NEW r \in Request, Acquire(r) \/ Register(r) \/ Serve(r) \/ Unremoved(r)
  PROVE  SessionInv'
<1>1. /\ \/ Reads!AcquireLock(r) \/ (\E b \in Content : Reads!Register(r, b))
         \/ Reads!AcquireFails(r) \/ Reads!FindActive(r) \/ Reads!Envelope(r) \/ Reads!Release(r)
         \/ Reads!Unregister(r) \/ Reads!UnregisterFails(r)
      /\ UNCHANGED watchVars \/ Ask
      /\ UNCHANGED <<accepting, projectLock, cleanups>> /\ crossed' \subseteq crossed
  BY DEF Acquire, Register, FindActive, Serve, Envelope, Unremoved, Quietly, server
<1>2. [Next]_watchVars /\ UNCHANGED <<active, built, step>>
  BY <1>1 DEF Next, Ask, watchVars, builds, session, work
<1>3. UNCHANGED <<accepting, projectLock, cleanups>> /\ crossed' \subseteq Request
  BY <1>1 DEF SessionInv, SessionTypeOK
<1>4. /\ HandlesAreRegistered' /\ RemovalIsExclusive' /\ CountsAreExact' /\ StoppedIsEmpty'
      /\ Reads!ReadTypeOK(Content)'
  BY <1>1, <1>2, <1>3, ReadSteps
<1>5. Typed'
  BY <1>2, TypedStep DEF SessionInv
<1>6. SessionTypeOK'
  BY <1>3, <1>4, <1>5 DEF SessionInv, SessionTypeOK, Typed
<1>7. QED
  BY <1>4, <1>5, <1>6 DEF SessionInv

\* The session stops: every read has ended, so what registrations are left are of ends
\* that failed.
LEMMA StopStep ==
  ASSUME SessionInv, StopAccepting \/ Stop
  PROVE  SessionInv'
<1> USE WatcherAssumption, DevAssumption
<1>1. UNCHANGED <<watchVars, projectLock, crossed, cleanups>> /\ accepting' \in BOOLEAN
  BY DEF StopAccepting, Stop, Quietly, server, SessionInv, SessionTypeOK
<1>2. Typed' /\ UNCHANGED <<active, built, step>>
  BY <1>1, TypedStep DEF SessionInv, watchVars, builds, session, work
<1>3. CASE StopAccepting
  <2>1. UNCHANGED readVars /\ projectLock' \in {"build", "cleanup", None}
        /\ cleanups' \in 0..MaxCleanups /\ crossed' \subseteq Request
    BY <1>3 DEF StopAccepting, SessionInv, SessionTypeOK
  <2>2. RemovalIsExclusive'
    BY <1>1, <1>2, <2>1 DEF SessionInv, RemovalIsExclusive, readVars
  <2>3. QED
    BY <1>1, <1>2, <2>1, <2>2, ReadsAreLeftAlone
<1>4. CASE Stop
  <2>1. /\ \A r \in Request : phase[r] = "idle"
        /\ open /\ open' = FALSE
        /\ refs' = [b \in DOMAIN refs |-> 0]
        /\ UNCHANGED <<phase, held, picked, readLock, doomed>>
    BY <1>4 DEF Stop, Reads!CloseBackend
  <2>2. Reads!ReadTypeOK(Content)
    BY DEF SessionInv, SessionTypeOK
  <2>3. PICK removed \in SUBSET readers :
          /\ registered' = [r \in Request |-> IF r \in removed THEN None ELSE registered[r]]
          /\ IF removed = readers
               THEN readers' = {} /\ UNCHANGED refusals
               ELSE refusals < MaxRefusals /\ refusals' = refusals + 1 /\ UNCHANGED readers
    BY <1>4 DEF Stop, Reads!CloseBackend
  <2>4. \A r \in Request :
          registered'[r] # None => registered'[r] = registered[r] /\ readers' = readers
                                     /\ refusals' = refusals + 1
    BY <2>3 DEF SessionInv, HandlesAreRegistered
  <2>5. \A r \in Request : held[r] = None
    BY <2>1 DEF SessionInv, HandlesAreRegistered
  <2>6. HandlesAreRegistered'
    BY <1>2, <2>1, <2>4, <2>5 DEF SessionInv, HandlesAreRegistered
  <2>7. refs' = [b \in Content |-> 0]
    BY <2>1, <2>2 DEF Reads!ReadTypeOK
  <2>8. CountsAreExact'
    BY <2>1, <2>7 DEF CountsAreExact
  <2>9. StoppedIsEmpty'
    BY <2>1, <2>2, <2>4 DEF SessionInv, StoppedIsEmpty, Reads!ReadTypeOK
  <2>10. None \notin doomed
    BY <2>2 DEF Reads!ReadTypeOK
  <2>11. RemovalIsExclusive'
    BY <1>1, <1>2, <2>1, <2>4, <2>10 DEF SessionInv, RemovalIsExclusive
  <2>12. Reads!ReadTypeOK(Content)'
    <3>1. refs' \in [Content -> Nat] /\ registered' \in [Request -> Content \cup {None}]
      BY <2>2, <2>3, <2>7 DEF Reads!ReadTypeOK
    <3>2. open' \in BOOLEAN /\ readers' \subseteq Request
      BY <2>1, <2>2, <2>3 DEF Reads!ReadTypeOK
    <3>3. refusals \in 0..MaxRefusals
      BY <2>2 DEF Reads!ReadTypeOK
    <3>4. refusals' = refusals \/ (refusals < MaxRefusals /\ refusals' = refusals + 1)
      BY <2>3
    <3>5. refusals' \in 0..MaxRefusals
      BY <3>3, <3>4
    <3>6. UNCHANGED <<phase, held, picked, readLock, doomed>>
      BY <2>1
    <3>7. QED
      BY <2>2, <3>1, <3>2, <3>5, <3>6 DEF Reads!ReadTypeOK, Reads!Phases
  <2>13. SessionTypeOK'
    BY <1>1, <1>2, <2>12 DEF SessionInv, SessionTypeOK, Typed
  <2>14. QED
    BY <1>2, <2>6, <2>8, <2>9, <2>11, <2>13 DEF SessionInv
<1>5. QED
  BY <1>3, <1>4

\* A prune: what it removes is neither active nor registered.
LEMMA CleanupStep ==
  ASSUME SessionInv, LockForCleanup \/ Cleanup
  PROVE  SessionInv'
<1> USE WatcherAssumption, DevAssumption
<1>1. Reads!ReadTypeOK(Content)
  BY DEF SessionInv, SessionTypeOK
<1>2. CASE LockForCleanup
  <2>1. /\ UNCHANGED <<watchVars, readVars, accepting, crossed>>
        /\ projectLock = None /\ projectLock' = "cleanup" /\ cleanups' \in 0..MaxCleanups
    BY <1>2 DEF LockForCleanup, SessionInv, SessionTypeOK
  <2>2. Typed' /\ UNCHANGED <<active, built, step>>
    BY <2>1, TypedStep DEF SessionInv, watchVars, builds, session, work
  <2>3. RemovalIsExclusive'
    BY <2>1, <2>2 DEF SessionInv, RemovalIsExclusive, readVars
  <2>4. QED
    BY <2>1, <2>2, <2>3, ReadsAreLeftAlone DEF SessionInv, SessionTypeOK
<1>3. CASE Cleanup
  <2>1. /\ projectLock = "cleanup"
        /\ UNCHANGED <<sources, active, moves, session, trouble, accepting, crossed, cleanups>>
        /\ UNCHANGED <<refs, phase, held, picked, registered, readers, open, refusals>>
    BY <1>3 DEF Cleanup, Reads!PlanCleanup, Reads!RemoveBuild, Reads!FinishCleanup
  <2>2. /\ doomed' \subseteq Content /\ built' \subseteq built
        /\ built' = built \/ (\E b \in doomed : built' = built \ {b})
        /\ readLock' \in {"cleanup", None} /\ projectLock' \in {"cleanup", None}
    BY <1>1, <1>3, <2>1 DEF Cleanup, Reads!PlanCleanup, Reads!RemoveBuild, Reads!FinishCleanup,
         Reads!ReadTypeOK, SessionInv, Typed, TypeOK, RemovalIsExclusive
  <2>3. \A r \in Request : phase[r] # "opening" /\ readLock' # r
    BY <1>1, <1>3, <2>1, <2>2 DEF Cleanup, Reads!PlanCleanup, Reads!RemoveBuild,
         Reads!FinishCleanup, SessionInv, HandlesAreRegistered, RemovalIsExclusive
  <2>4. active \in built' /\ \A r \in Request : registered[r] \in built => registered[r] \in built'
    BY <2>2 DEF SessionInv, Typed, TypeOK, RemovalIsExclusive
  <2>5. Typed'
    BY <2>1, <2>2, <2>4 DEF SessionInv, Typed, TypeOK, sources, session, answer, work
  <2>6. HandlesAreRegistered'
    BY <2>1, <2>3, <2>4 DEF SessionInv, HandlesAreRegistered
  <2>7. RemovalIsExclusive'
    <3>1. step # "activate" /\ step' = step
      BY <2>1 DEF SessionInv, RemovalIsExclusive, session, work
    <3>2. /\ doomed' # {} => readLock' = "cleanup"
          /\ readLock' = "cleanup" => projectLock' = "cleanup"
      BY <1>3, <2>1 DEF Cleanup, Reads!PlanCleanup, Reads!RemoveBuild, Reads!FinishCleanup,
           SessionInv, RemovalIsExclusive
    <3>3. active \notin doomed' /\ \A r \in Request : registered[r] \notin doomed'
      BY <1>3 DEF Cleanup, Reads!PlanCleanup, Reads!RemoveBuild, Reads!FinishCleanup, SessionInv,
           RemovalIsExclusive
    <3>4. QED
      BY <2>1, <2>2, <3>1, <3>2, <3>3 DEF RemovalIsExclusive
  <2>8. CountsAreExact' /\ StoppedIsEmpty'
    BY <2>1 DEF SessionInv, CountsAreExact, StoppedIsEmpty, Holders
  <2>9. Reads!ReadTypeOK(Content)'
    BY <1>1, <2>1, <2>2 DEF Reads!ReadTypeOK, Reads!Phases
  <2>10. SessionTypeOK'
    BY <2>1, <2>2, <2>5, <2>9 DEF SessionInv, SessionTypeOK, Typed
  <2>11. QED
    BY <2>5, <2>6, <2>7, <2>8, <2>10 DEF SessionInv
<1>4. QED
  BY <1>2, <1>3

LEMMA SessionStep ==
  ASSUME SessionInv, [SessionNext]_vars
  PROVE  SessionInv'
<1>1. CASE UNCHANGED vars
  <2>1. UNCHANGED <<watchVars, readVars, server>>
    BY <1>1 DEF vars
  <2>2. Typed' /\ UNCHANGED <<active, built, step>>
    BY <2>1, TypedStep DEF SessionInv, watchVars, builds, session, work
  <2>3. RemovalIsExclusive'
    BY <2>1, <2>2 DEF SessionInv, RemovalIsExclusive, readVars, server
  <2>4. QED
    BY <2>1, <2>2, <2>3, ReadsAreLeftAlone DEF SessionInv, SessionTypeOK, server
<1>2. QED
  BY <1>1, WatchStep, BuildStep, RequestStep, StopStep, CleanupStep DEF SessionNext

LEMMA SessionInvariant == SessionSpec => []SessionInv
  BY SessionStarts, SessionStep, PTL DEF SessionSpec

-----------------------------------------------------------------------------
\* Every variable of the session always holds a value of its kind.
THEOREM SessionTypeCorrect == SessionSpec => []SessionTypeOK
<1>1. SessionInv => SessionTypeOK
  BY DEF SessionInv
<1>2. QED
  BY <1>1, SessionInvariant, PTL

\* No prune takes away a build whose catalog this process has open.
THEOREM OpenCatalogsAlwaysExist == SessionSpec => []OpenCatalogsExist
<1>1. SessionInv => OpenCatalogsExist
  <2> SUFFICES ASSUME SessionInv, NEW b \in Content, refs[b] > 0 PROVE b \in built
    BY DEF OpenCatalogsExist
  <2>1. Cardinality(Holders(b)) > 0
    BY DEF SessionInv, CountsAreExact
  <2>2. Holders(b) # {}
    BY <2>1, FS_EmptySet
  <2>3. PICK r \in Request : held[r] = b
    BY <2>2 DEF Holders
  <2>4. QED
    BY <2>3, WatcherAssumption DEF SessionInv, HandlesAreRegistered
<1>2. QED
  BY <1>1, SessionInvariant, PTL

\* A catalog is open as long as some read holds it, and no longer.
THEOREM CatalogsAlwaysServe == SessionSpec => []CatalogsServeTheirReads
<1>1. SessionInv => CatalogsServeTheirReads
  BY DEF SessionInv, CountsAreExact, CatalogsServeTheirReads, Holders
<1>2. QED
  BY <1>1, SessionInvariant, PTL

\* A session that has stopped holds no catalog, and left a registration only if its
\* removal failed both as its read ended and as the session stopped.
THEOREM SessionsStopCleanly == SessionSpec => []StopsCleanly
<1>1. SessionInv => StopsCleanly
  BY DEF SessionInv, StopsCleanly, StoppedIsEmpty, HandlesAreRegistered, CountsAreExact
<1>2. QED
  BY <1>1, SessionInvariant, PTL

-----------------------------------------------------------------------------
(* The session and its watcher.                                            *)

(* What a prune keeps while it removes the rest: the newest, if there is   *)
(* anything to remove.                                                     *)
NewestAreKept ==
  doomed # {} =>
    \E newest \in SUBSET (built \ ({active} \cup doomed)) : Cardinality(newest) = KeepPrevious

LEMMA NewestStayKept ==
  ASSUME SessionInv, NewestAreKept, [SessionNext]_vars
  PROVE  NewestAreKept'
<1> USE WatcherAssumption, DevAssumption
<1>1. CASE doomed = {} /\ doomed' = doomed
  BY <1>1 DEF NewestAreKept
<1>2. CASE UNCHANGED <<active, built, doomed>>
  BY <1>2 DEF NewestAreKept
<1>3. CASE Cleanup
  <2>1. UNCHANGED active
    BY <1>3 DEF Cleanup
  <2>2. ASSUME NEW newest \in Newest, Reads!PlanCleanup(newest), UNCHANGED built
        PROVE  NewestAreKept'
    <3>1. UNCHANGED built
      BY <2>2
    <3>2. doomed' = built \ ({active} \cup newest \cup {registered[r] : r \in Request})
      BY <2>2 DEF Reads!PlanCleanup
    <3>3. /\ newest \subseteq built \ {active}
          /\ Cardinality(newest) = KeepPrevious \/ newest = built \ {active}
      BY DEF Newest
    <3>4. newest # built \ {active} \/ doomed' = {}
      BY <3>2
    <3>5. newest \in SUBSET (built' \ ({active'} \cup doomed'))
      BY <2>1, <3>1, <3>2, <3>3
    <3>6. QED
      BY <3>3, <3>4, <3>5 DEF NewestAreKept
  <2>3. ASSUME NEW b \in Content, Reads!RemoveBuild(b) PROVE NewestAreKept'
    <3>1. doomed' = doomed \ {b} /\ built' = built \ {b} /\ b \in doomed
      BY <2>3 DEF Reads!RemoveBuild
    <3>2. PICK newest \in SUBSET (built \ ({active} \cup doomed)) :
            Cardinality(newest) = KeepPrevious
      BY <3>1 DEF NewestAreKept
    <3>3. newest \in SUBSET (built' \ ({active'} \cup doomed'))
      BY <2>1, <3>1
    <3>4. QED
      BY <3>2, <3>3 DEF NewestAreKept
  <2>4. CASE Reads!FinishCleanup
    BY <2>4 DEF Reads!FinishCleanup, NewestAreKept
  <2>5. QED
    BY <1>3, <2>2, <2>3, <2>4 DEF Cleanup
<1>4. CASE UNCHANGED vars
  BY <1>2, <1>4 DEF vars, watchVars, builds, readVars
<1>5. CASE Watch
  BY <1>2, <1>5 DEF Watch, readVars, Wake, Ready, Debounced, WatcherError, Sweep, Start, Stable,
     Observe, Compare, Decide, CheckFails, Close, Report, Edit, builds
<1>6. CASE WorkerBuilds \/ WorkerFails
  BY <1>2, <1>6 DEF WorkerBuilds, WorkerFails, BuildReads, BuildFails, readVars, builds
<1>7. CASE WorkerActivates
  <2>1. step = "activate" /\ UNCHANGED doomed
    BY <1>7 DEF WorkerActivates, BuildActivates, Goto, readVars
  <2>2. QED
    BY <1>1, <2>1 DEF SessionInv, RemovalIsExclusive
<1>8. CASE OtherMoves
  <2>1. projectLock = None /\ UNCHANGED doomed
    BY <1>8 DEF OtherMoves, readVars
  <2>2. QED
    BY <1>1, <2>1 DEF SessionInv, RemovalIsExclusive
<1>9. ASSUME NEW r \in Request, Acquire(r) \/ Register(r) \/ Serve(r) \/ Unremoved(r)
      PROVE  UNCHANGED <<active, built, doomed>>
  <2>1. UNCHANGED watchVars \/ Ask
    BY <1>9 DEF Acquire, Register, FindActive, Serve, Envelope, Unremoved, Quietly
  <2>2. UNCHANGED doomed
    BY <1>9 DEF Acquire, Register, FindActive, Serve, Envelope, Unremoved,
       Reads!AcquireLock, Reads!Register, Reads!AcquireFails, Reads!FindActive, Reads!Envelope,
       Reads!Release, Reads!Unregister, Reads!UnregisterFails
  <2>3. QED
    BY <2>1, <2>2 DEF watchVars, builds, Ask
<1>10. CASE StopAccepting \/ Stop \/ LockForCleanup
  BY <1>2, <1>10 DEF StopAccepting, Stop, LockForCleanup, Quietly, Reads!CloseBackend, watchVars,
     readVars, builds
<1>11. QED
  BY <1>2, <1>3, <1>4, <1>5, <1>6, <1>7, <1>8, <1>9, <1>10 DEF SessionNext

\* Every step of the session is one of its watcher, or leaves the watcher as it is.
LEMMA SessionStepIsAWatchStep ==
  ASSUME SessionInv, NewestAreKept, [SessionNext]_vars
  PROVE  [Next]_watchVars
<1> USE WatcherAssumption, DevAssumption
<1>1. CASE UNCHANGED vars
  BY <1>1 DEF vars
<1>2. CASE Watch
  BY <1>2 DEF Watch, Next, Environment, Wake, Work
<1>3. CASE WorkerBuilds \/ WorkerActivates \/ WorkerFails
  BY <1>3 DEF WorkerBuilds, WorkerActivates, WorkerFails, Next, Work
<1>4. CASE OtherMoves
  BY <1>4 DEF OtherMoves, Next, Environment
<1>5. ASSUME NEW r \in Request, Acquire(r) \/ Register(r) \/ Serve(r) \/ Unremoved(r)
      PROVE  [Next]_watchVars
  BY <1>5 DEF Acquire, Register, FindActive, Serve, Envelope, Unremoved, Quietly, Next
<1>6. CASE StopAccepting \/ Stop \/ LockForCleanup
  BY <1>6 DEF StopAccepting, Stop, LockForCleanup, Quietly
<1>7. CASE Cleanup
  <2>1. UNCHANGED <<sources, active, moves, session, trouble>>
    BY <1>7 DEF Cleanup
  <2>2. CASE UNCHANGED built
    BY <2>1, <2>2 DEF watchVars, builds
  <2>3. ASSUME NEW b \in Content, Reads!RemoveBuild(b), built' # built PROVE PruneElsewhere(b)
    <3>1. b \in doomed /\ b \in built /\ built' = built \ {b}
      BY <2>3 DEF Reads!RemoveBuild
    <3>2. step # "activate" /\ b # active
      BY <3>1 DEF SessionInv, RemovalIsExclusive
    <3>3. PICK newest \in SUBSET (built \ ({active} \cup doomed)) :
            Cardinality(newest) = KeepPrevious
      BY <3>1 DEF NewestAreKept
    <3>4. newest \in SUBSET (built \ {active, b})
      BY <3>1
    <3>5. QED
      BY <2>1, <3>1, <3>2, <3>3, <3>4 DEF PruneElsewhere
  <2>4. QED
    BY <1>7, <2>2, <2>3 DEF Cleanup, Next, Environment
<1>8. QED
  BY <1>1, <1>2, <1>3, <1>4, <1>5, <1>6, <1>7 DEF SessionNext

\* To its sources, its pointer and its builds a session does what its watcher and
\* the commands of other processes do, also a prune step by step.
THEOREM SessionImplementsWatcher == SessionSpec => WatchesAsItsWatcher
<1>1. SessionInit => Init /\ NewestAreKept
  BY DEF SessionInit, Reads!ReadInit, NewestAreKept
<1>2. QED
  BY <1>1, SessionInvariant, NewestStayKept, SessionStepIsAWatchStep, PTL
     DEF SessionSpec, WatchesAsItsWatcher, Spec

\* So a session that serves reads, prunes and stops never reports a source clean
\* that differs from the active build once it has settled, unless a move of the pointer
\* overtook its answer.
THEOREM SessionsQuietCleanIsTrueUnlessOvertaken ==
  ASSUME Faults = {}
  PROVE  SessionSpec => []QuietCleanUnlessOvertaken
<1>1. Spec => []QuietCleanUnlessOvertaken
  BY QuietCleanIsTrueUnlessOvertaken
<1>2. QED
  BY <1>1, SessionImplementsWatcher DEF WatchesAsItsWatcher

\* And it does not build over what another command rolled back to.
THEOREM SessionsLeaveRollbacks == SessionSpec => RollbackStays
  BY SessionImplementsWatcher, RollbacksStay DEF WatchesAsItsWatcher

-----------------------------------------------------------------------------
(* Envelopes.                                                              *)

LEMMA EnvelopesStep ==
  ASSUME SessionInv, EnvelopesAreSound, [SessionNext]_vars
  PROVE  EnvelopesAreSound'
<1> USE WatcherAssumption, DevAssumption
<1>1. Reads!ReadTypeOK(Content)
  BY DEF SessionInv, SessionTypeOK
<1>2. CASE Watch
  <2>1. UNCHANGED <<readVars, active, crossed>>
    BY <1>2 DEF Watch, Wake, Ready, Debounced, WatcherError, Sweep, Start, Stable, Observe, Compare,
         Decide, CheckFails, Close, Report, Edit, builds, server
  <2>2. step' \in {"build", "activate", "report"} => state' # "clean"
    <3>1. CASE Ready \/ Debounced \/ WatcherError \/ Sweep
      BY <3>1 DEF Ready, Debounced, WatcherError, Sweep, answer, work, EnvelopesAreSound
    <3>2. CASE Close \/ \E c \in Content \cup {Unreadable} : Edit(c)
      BY <3>2 DEF Close, Edit, answer, work, EnvelopesAreSound
    <3>3. CASE Start \/ Stable \/ Observe \/ Compare
      BY <3>3 DEF Start, Stable, Observe, Compare, Finish, Goto
    <3>4. CASE Decide \/ CheckFails \/ Report
      BY <3>4 DEF Decide, CheckFails, Report, Finish, Record
    <3>5. QED
      BY <1>2, <3>1, <3>2, <3>3, <3>4 DEF Watch, Wake
  <2>3. CASE Reading
    BY <2>1, <2>2, <2>3 DEF Reading, EnvelopesAreSound, readVars
  <2>4. CASE \E c \in Content \cup {Unreadable} : Edit(c)
    <3>1. step' = step
      BY <2>4 DEF Edit, work
    <3>2. QED
      BY <2>1, <2>2, <3>1 DEF EnvelopesAreSound, readVars
  <2>5. QED
    BY <1>2, <2>3, <2>4 DEF Watch
<1>3. CASE WorkerBuilds
  BY <1>3 DEF WorkerBuilds, BuildReads, Goto, EnvelopesAreSound, readVars, answer, builds
<1>4. CASE WorkerActivates
  BY <1>4 DEF WorkerActivates, BuildActivates, Goto, EnvelopesAreSound, readVars, answer
<1>5. CASE WorkerFails
  BY <1>5 DEF WorkerFails, BuildFails, Finish, Record, Reading, EnvelopesAreSound, readVars
<1>6. CASE OtherMoves
  BY <1>6 DEF OtherMoves, MoveElsewhere, EnvelopesAreSound, readVars, session, answer, work
<1>7. ASSUME NEW r \in Request, Acquire(r) \/ Register(r) \/ Serve(r) \/ Unremoved(r)
      PROVE  EnvelopesAreSound'
  <2>1. /\ UNCHANGED watchVars \/ Ask
        /\ \/ Reads!AcquireLock(r) \/ (\E b \in Content : Reads!Register(r, b))
           \/ Reads!AcquireFails(r) \/ Reads!FindActive(r) \/ Reads!Envelope(r) \/ Reads!Release(r)
           \/ Reads!Unregister(r) \/ Reads!UnregisterFails(r)
        /\ crossed' = crossed \/ (Reads!Envelope(r) /\ crossed' = crossed \ {r})
    BY <1>7 DEF Acquire, Register, FindActive, Serve, Envelope, Unremoved, Quietly, server
  <2>2. UNCHANGED <<active, step>> /\ (state' = "clean" => state = "clean")
    BY <2>1 DEF Ask, Record, watchVars, builds, session, answer, work
  <2>3. \A q \in crossed : q \in crossed' \/ (q = r /\ phase'[q] = "reading")
    BY <1>1, <2>1 DEF Reads!Envelope, Reads!Go, Reads!ReadTypeOK, SessionInv, SessionTypeOK
  <2>4. ASSUME NEW q \in Request, phase'[q] = "holding", q \notin picked'
        PROVE  held'[q] = active \/ step = "report" \/ q \in crossed'
    <3>1. CASE Reads!AcquireLock(r)
      BY <1>1, <2>3, <2>4, <3>1 DEF Reads!AcquireLock, Reads!Go, Reads!ReadTypeOK, EnvelopesAreSound
    <3>2. ASSUME NEW b \in Content, Reads!Register(r, b)
          PROVE  held'[q] = active \/ step = "report" \/ q \in crossed'
      <4>1. CASE q = r
        BY <1>1, <2>3, <2>4, <3>2, <4>1 DEF Reads!Register, Reads!ReadTypeOK
      <4>2. CASE q # r
        BY <1>1, <2>3, <2>4, <3>2, <4>2 DEF Reads!Register, Reads!Go, Reads!ReadTypeOK,
             EnvelopesAreSound
      <4>3. QED
        BY <4>1, <4>2
    <3>3. CASE Reads!AcquireFails(r)
      BY <1>1, <2>3, <2>4, <3>3 DEF Reads!AcquireFails, Reads!Go, Reads!ReadTypeOK,
           EnvelopesAreSound
    <3>4. CASE Reads!Envelope(r)
      BY <1>1, <2>3, <2>4, <3>4 DEF Reads!Envelope, Reads!Go, Reads!ReadTypeOK, EnvelopesAreSound
    <3>5. CASE Reads!Release(r)
      BY <1>1, <2>3, <2>4, <3>5 DEF Reads!Release, Reads!Go, Reads!ReadTypeOK, EnvelopesAreSound
    <3>6. CASE Reads!Unregister(r)
      BY <1>1, <2>3, <2>4, <3>6 DEF Reads!Unregister, Reads!Go, Reads!ReadTypeOK, EnvelopesAreSound
    <3>7. CASE Reads!UnregisterFails(r)
      BY <1>1, <2>3, <2>4, <3>7 DEF Reads!UnregisterFails, Reads!Go, Reads!ReadTypeOK,
           EnvelopesAreSound
    <3>8. CASE Reads!FindActive(r)
      BY <1>1, <2>3, <2>4, <3>8 DEF Reads!FindActive, Reads!ReadTypeOK, EnvelopesAreSound
    <3>9. QED
      BY <2>1, <3>1, <3>2, <3>3, <3>4, <3>5, <3>6, <3>7, <3>8
  <2>5. QED
    BY <2>2, <2>4 DEF EnvelopesAreSound
<1>8. CASE StopAccepting
  BY <1>8 DEF StopAccepting, EnvelopesAreSound, readVars, watchVars, builds, session, answer, work
<1>9. CASE Stop
  BY <1>9 DEF Stop, Reads!CloseBackend, Quietly, EnvelopesAreSound, watchVars, builds, session,
       answer, work, server
<1>10. CASE LockForCleanup
  BY <1>10 DEF LockForCleanup, EnvelopesAreSound, readVars, watchVars, builds, session, answer, work
<1>11. CASE Cleanup
  BY <1>11 DEF Cleanup, Reads!PlanCleanup, Reads!RemoveBuild, Reads!FinishCleanup,
       EnvelopesAreSound, session, answer, work
<1>12. CASE UNCHANGED vars
  BY <1>12 DEF vars, EnvelopesAreSound, readVars, watchVars, builds, session, answer, work, server
<1>13. QED
  BY <1>2, <1>3, <1>4, <1>5, <1>6, <1>7, <1>8, <1>9, <1>10, <1>11, <1>12 DEF SessionNext

\* An envelope that says the sources are clean says it of the build it names, unless
\* another process moved the pointer since the read has its build.
THEOREM EnvelopesTellOfTheirBuild == SessionSpec => EnvelopeTellsOfItsBuild
<1> DEFINE Told == \A r \in Request \ crossed : ToldOfItsBuild(r)
<1>1. SessionInit => EnvelopesAreSound
  BY DEF SessionInit, Init, Reads!ReadInit, EnvelopesAreSound
<1>2. SessionInv /\ EnvelopesAreSound => Told
  <2> SUFFICES ASSUME SessionInv, EnvelopesAreSound, NEW r \in Request \ crossed,
                      phase[r] = "holding", SourceState(r) = "clean"
               PROVE  described = held[r]
    BY DEF ToldOfItsBuild
  <2>1. r \notin picked /\ active = described /\ state = "clean"
    BY DEF SourceState, Answer
  <2>2. held[r] = active
    BY <2>1 DEF EnvelopesAreSound
  <2>3. QED
    BY <2>1, <2>2
<1>3. QED
  BY <1>1, <1>2, SessionInvariant, EnvelopesStep, PTL DEF SessionSpec, EnvelopeTellsOfItsBuild

=============================================================================
