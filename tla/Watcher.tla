------------------------------- MODULE Watcher -------------------------------
(***************************************************************************)
(* The watcher of a development session: it turns what it hears of the     *)
(* sources into builds, and answers whether the sources are what the       *)
(* active build was made from.                                             *)
(*                                                                         *)
(* A build is known by the sources it was built from, so a build and the   *)
(* contents it holds are one value here.  The watcher's own work runs one  *)
(* piece at a time, on a chain of promises; a build runs in a worker       *)
(* thread; edits, and the commands of other processes that activate, roll  *)
(* back or build, come at any moment.                                      *)
(***************************************************************************)
EXTENDS Integers, Sequences, FiniteSets

CONSTANTS
  Content,      \* what the sources may hold
  First,        \* what they held when the session started and built
  Older,        \* earlier builds that are still there
  Unreadable,   \* sources that cannot be read
  None,
  KeepPrevious, \* prune --keep
  Faults,       \* schedules a run includes
  MaxEdits,     \* bound: edits
  MaxMoves,     \* bound: activations by other processes
  MaxTrouble,   \* bound: failed builds, failed checks, watcher errors
  MaxQueue      \* bound: pieces of work waiting on the chain

ASSUME WatcherAssumption ==
  /\ First \in Content /\ Older \subseteq Content /\ {Unreadable, None} \cap Content = {}
  /\ Faults \subseteq {"flicker", "unseenEdit"}
  /\ KeepPrevious \in Nat
  /\ MaxEdits \in Nat /\ MaxMoves \in Nat /\ MaxTrouble \in Nat /\ MaxQueue \in Nat \ {0}

VARIABLES
  disk,       \* the sources, and a stamp for their sizes and modification times
  active,     \* the active build
  built,      \* the builds that are retained
  state,      \* the cached answer: clean, dirty or unknown
  described,  \* the build it is recorded for
  overtaken,  \* history: that is another than the one it was found for
  known,      \* inputFingerprint: the contents last built or found clean
  signature,  \* the stamp the next sweep compares with
  timer,      \* an event came in and the debounce timer runs
  chain,      \* work that waits
  job,        \* the work that runs
  step,       \* how far it is
  seen,       \* the contents it read
  verdict,    \* what it made of them
  against,    \* history: the build it compared them with
  aborted,    \* the build was told to stop
  ready, closed,
  edits, moves, trouble

sources == <<disk, edits>>
builds == <<active, built, moves>>
answer == <<state, described, overtaken>>
work == <<job, step, seen, verdict, against, aborted>>
session == <<answer, known, signature, timer, chain, work, ready, closed>>
watchVars == <<sources, builds, session, trouble>>

NoSignature == -1
Unscannable == 0
Stamp(d) == IF d.content = Unreadable THEN Unscannable ELSE d.stamp

States == {"clean", "dirty", "unknown"}
Jobs == {"settle", "reestablish"}

\* Every variable holds a value of its kind; the active build is retained.
TypeOK ==
  /\ disk \in [content : Content \cup {Unreadable}, stamp : 1..(MaxEdits + 1)]
  /\ active \in built /\ built \subseteq Content
  /\ state \in States /\ verdict \in States
  /\ described \in Content /\ overtaken \in BOOLEAN
  /\ against \in Content \cup {None}
  /\ known \in Content \cup {None}
  /\ signature \in NoSignature..(MaxEdits + 1)
  /\ timer \in BOOLEAN /\ ready \in BOOLEAN /\ closed \in BOOLEAN /\ aborted \in BOOLEAN
  /\ chain \in Seq(Jobs) /\ Len(chain) <= MaxQueue
  /\ job \in Jobs \cup {None}
  /\ step \in {"idle", "stable", "observe", "compare", "record", "build", "activate", "report"}
  /\ seen \in Content \cup {Unreadable, None}
  /\ edits \in 0..MaxEdits /\ moves \in 0..MaxMoves /\ trouble \in 0..MaxTrouble

\* The session built before it started to watch.
Init ==
  /\ disk = [content |-> First, stamp |-> 1] /\ edits = 0
  /\ active = First /\ moves = 0
  /\ built = Older \cup {First}
  /\ state = "clean" /\ described = First /\ overtaken = FALSE
  /\ known = None /\ signature = NoSignature
  /\ timer = FALSE /\ chain = <<>>
  /\ job = None /\ step = "idle" /\ seen = None /\ verdict = "unknown"
  /\ against = None /\ aborted = FALSE
  /\ ready = FALSE /\ closed = FALSE
  /\ trouble = 0

\* Reading the active build and recording the answer are one turn of the
\* process: nothing of its own comes between.
Turn == step # "record"

Goto(from, to) == step = from /\ step' = to

Finish ==
  /\ job' = None /\ step' = "idle"
  /\ seen' = None /\ verdict' = "unknown" /\ against' = None /\ aborted' = FALSE

\* What contents are to the build that was made from others.
Freshness(c, b) == IF c = Unreadable THEN "unknown" ELSE IF c = b THEN "clean" ELSE "dirty"

\* record(): an answer goes with the build that is active by now, not with the one,
\* found, for which it was found; None for an answer that is about no build.
Record(next, found) ==
  /\ state' = next /\ described' = active
  /\ overtaken' = (found \notin {None, active})

Enqueue(next) == Len(chain) < MaxQueue /\ chain' = Append(chain, next)

-----------------------------------------------------------------------------
(* What wakes the watcher.                                                 *)

\* Another process, or the session's own Studio, moves the pointer.  Only while the
\* session's build holds the project lock does nobody; that ends before the session
\* hears of its build.
MoveElsewhere(b) ==
  /\ moves < MaxMoves /\ moves' = moves + 1
  /\ b \in (built \cup {disk.content}) \ {Unreadable, active}
  /\ step # "activate"
  /\ active' = b
  /\ built' = built \cup {b}
  /\ UNCHANGED <<sources, session, trouble>>

\* A prune of another process removes a build that is not active, and keeps the
\* newest KeepPrevious others.  It holds the project lock, so no build of the
\* session is about to activate.
PruneElsewhere(b) ==
  /\ b \in built \ {active}
  /\ \E newest \in SUBSET (built \ {active, b}) : Cardinality(newest) = KeepPrevious
  /\ step # "activate"
  /\ built' = built \ {b}
  /\ UNCHANGED <<sources, active, moves, session, trouble>>

\* An event may come of an edit, or not; sizes and modification times may move with
\* it, or not.  "unseenEdit": neither.  "flicker": sources that could not be read,
\* and can now, cannot again before a sweep has told the two apart, which it cannot
\* later either.
Edit(c) ==
  /\ edits < MaxEdits /\ edits' = edits + 1
  /\ (c = Unreadable /\ signature = Unscannable /\ disk.content # Unreadable)
        => "flicker" \in Faults
  /\ \E stamp \in {disk.stamp, disk.stamp + 1}, heard \in {timer, ~closed} :
       /\ stamp = disk.stamp => heard \/ closed \/ "unseenEdit" \in Faults
       /\ disk' = [content |-> c, stamp |-> stamp]
       /\ timer' = heard
  /\ UNCHANGED <<builds, answer, known, signature, chain, work, ready, closed, trouble>>

\* The startup reconciliation.
Ready ==
  /\ Turn /\ ~ready /\ ~closed
  /\ ready' = TRUE
  /\ Enqueue("settle")
  /\ UNCHANGED <<sources, builds, answer, known, signature, timer, work, closed, trouble>>

Debounced ==
  /\ Turn /\ timer /\ ~closed
  /\ timer' = FALSE
  /\ Enqueue("settle")
  /\ UNCHANGED <<sources, builds, answer, known, signature, work, ready, closed, trouble>>

WatcherError ==
  /\ Turn /\ ~closed
  /\ trouble < MaxTrouble /\ trouble' = trouble + 1
  /\ Enqueue("settle")
  /\ UNCHANGED <<sources, builds, answer, known, signature, timer, work, ready, closed>>

\* Wrong on purpose: an answer that could not be found is left at that.
SweepForChanges ==
  /\ Turn /\ ~closed
  /\ Stamp(disk) # signature
  /\ signature' = Stamp(disk)
  /\ IF signature = NoSignature THEN UNCHANGED chain ELSE Enqueue("settle")
  /\ UNCHANGED <<sources, builds, answer, known, timer, work, ready, closed, trouble>>

\* Every interval.  The first sweep only takes the stamp, unless the answer is
\* unknown.
Sweep ==
  /\ Turn /\ ~closed
  /\ Stamp(disk) # signature \/ state = "unknown"
  /\ signature' = Stamp(disk)
  /\ IF signature = NoSignature /\ state # "unknown"
       THEN UNCHANGED chain
       ELSE Enqueue("settle")
  /\ UNCHANGED <<sources, builds, answer, known, timer, work, ready, closed, trouble>>

\* Wrong on purpose: the cached answer, whatever is active by now.
AnswerFromCache == state

Answer == IF active = described THEN state ELSE "unknown"

\* freshness(): an answer about a build that is no longer active is not given.
Ask ==
  /\ Turn
  /\ IF active = described
       THEN UNCHANGED <<answer, chain>>
       ELSE Record("unknown", None) /\ Enqueue("reestablish")
  /\ UNCHANGED <<sources, builds, known, signature, timer, work, ready, closed, trouble>>

\* The timers stop and the build that runs is told to.
Close ==
  /\ Turn /\ ~closed
  /\ closed' = TRUE
  /\ timer' = FALSE
  /\ aborted' = (step \in {"build", "activate", "report"})
  /\ UNCHANGED <<sources, builds, answer, known, signature, chain, job, step, seen, verdict,
                 against, ready, trouble>>

-----------------------------------------------------------------------------
(* The work on the chain.                                                  *)

\* Wrong on purpose: a closed session leaves its work where it is.
StartWhileOpen ==
  /\ step = "idle" /\ chain # <<>> /\ ~closed
  /\ chain' = Tail(chain)
  /\ job' = Head(chain) /\ step' = IF Head(chain) = "settle" THEN "stable" ELSE "observe"
  /\ UNCHANGED <<sources, builds, answer, known, signature, timer, seen, verdict, against,
                 aborted, ready, closed, trouble>>

Start ==
  /\ step = "idle" /\ chain # <<>>
  /\ chain' = Tail(chain)
  /\ IF closed
       THEN UNCHANGED <<job, step>>
       ELSE job' = Head(chain) /\ step' = IF Head(chain) = "settle" THEN "stable" ELSE "observe"
  /\ UNCHANGED <<sources, builds, answer, known, signature, timer, seen, verdict, against,
                 aborted, ready, closed, trouble>>

\* The files hold still: from here on, what a sweep sees is measured anew.
Stable ==
  /\ step = "stable"
  /\ IF closed
       THEN Finish /\ UNCHANGED signature
       ELSE /\ step' = "observe"
            /\ signature' = Stamp(disk)
            /\ UNCHANGED <<job, seen, verdict, against, aborted>>
  /\ UNCHANGED <<sources, builds, answer, known, timer, chain, ready, closed, trouble>>

\* The contents are read and hashed.
Observe ==
  /\ Goto("observe", "compare")
  /\ seen' = disk.content
  /\ UNCHANGED <<sources, builds, answer, known, signature, timer, chain, job, verdict, against,
                 aborted, ready, closed, trouble>>

\* Wrong on purpose: the sweep is told of sources that were not read.
CompareAndStamp ==
  /\ Goto("compare", "record")
  /\ verdict' = Freshness(seen, active) /\ against' = active
  /\ signature' = Stamp(disk)
  /\ UNCHANGED <<sources, builds, answer, known, timer, chain, job, seen, aborted, ready, closed,
                 trouble>>

\* And compared with the active build.
Compare ==
  /\ Goto("compare", "record")
  /\ verdict' = Freshness(seen, active) /\ against' = active
  /\ UNCHANGED <<sources, builds, answer, known, signature, timer, chain, job, seen, aborted,
                 ready, closed, trouble>>

\* Wrong on purpose: whatever differs from the active build is built.
DecideToBuild ==
  /\ step = "record"
  /\ Record(verdict, against)
  /\ IF verdict = "dirty"
       THEN /\ step' = "build" /\ against' = None
            /\ UNCHANGED <<known, job, seen, verdict, aborted>>
       ELSE /\ known' = IF job = "settle" /\ verdict # "unknown" THEN seen ELSE known
            /\ Finish
  /\ UNCHANGED <<sources, builds, signature, timer, chain, ready, closed, trouble>>

\* Contents that were not built yet are built; anything else is only an answer.
Decide ==
  /\ step = "record"
  /\ Record(verdict, against)
  /\ IF job = "settle" /\ verdict = "dirty" /\ seen # known
       THEN /\ step' = "build" /\ against' = None
            /\ UNCHANGED <<known, job, seen, verdict, aborted>>
       ELSE /\ known' = IF job = "settle" /\ verdict # "unknown" THEN seen ELSE known
            /\ Finish
  /\ UNCHANGED <<sources, builds, signature, timer, chain, ready, closed, trouble>>

\* The state database was busy, or something else no check of sources explains.
CheckFails ==
  /\ step \in {"observe", "compare"}
  /\ trouble < MaxTrouble /\ trouble' = trouble + 1
  /\ IF closed THEN UNCHANGED answer ELSE Record("unknown", None)
  /\ Finish
  /\ UNCHANGED <<sources, builds, known, signature, timer, chain, ready, closed>>

-----------------------------------------------------------------------------
(* The build, in its worker.                                               *)

\* It has the project lock, and reads the sources for itself.
BuildReads ==
  /\ Goto("build", "activate")
  /\ disk.content # Unreadable
  /\ seen' = disk.content
  /\ UNCHANGED <<sources, builds, answer, known, signature, timer, chain, job, verdict, against,
                 aborted, ready, closed, trouble>>

\* Wrong on purpose: the pointer moves to a build without a record.
ActivateUnrecorded ==
  /\ Goto("activate", "report")
  /\ active' = seen
  /\ UNCHANGED <<sources, moves, built, answer, known, signature, timer, chain, job, seen, verdict,
                 against, aborted, ready, closed, trouble>>

BuildActivates ==
  /\ Goto("activate", "report")
  /\ active' = seen
  /\ built' = built \cup {seen}
  /\ UNCHANGED <<sources, moves, answer, known, signature, timer, chain, job, seen, verdict, against,
                 aborted, ready, closed, trouble>>

\* The worker has released the lock and ended; the session hears of it and reads the
\* manifest of its build, which is clean, whatever is active by then.
Report ==
  /\ step = "report" /\ seen \in built
  /\ known' = seen
  /\ Record("clean", seen)
  /\ Finish
  /\ UNCHANGED <<sources, builds, signature, timer, chain, ready, closed, trouble>>

\* What a build fails of besides trouble: it was told to stop, the sources cannot be
\* read, or what it built and activated has been rolled back and pruned since.
Hindered ==
  \/ step \in {"build", "activate"} /\ aborted
  \/ step = "build" /\ disk.content = Unreadable
  \/ step = "report" /\ seen \notin built

\* After a last look at whether it was told to stop, it activates all the same.
BuildFails ==
  /\ step \in {"build", "activate", "report"}
  /\ IF Hindered THEN UNCHANGED trouble ELSE trouble < MaxTrouble /\ trouble' = trouble + 1
  /\ Record("dirty", None)
  /\ Finish
  /\ UNCHANGED <<sources, builds, known, signature, timer, chain, ready, closed>>

-----------------------------------------------------------------------------
Environment ==
  \/ \E b \in Content : MoveElsewhere(b) \/ PruneElsewhere(b)
  \/ \E c \in Content \cup {Unreadable} : Edit(c)

Wake == Ready \/ Debounced \/ WatcherError \/ Sweep

Work ==
  \/ Start \/ Stable \/ Observe \/ Compare \/ Decide \/ CheckFails
  \/ BuildReads \/ BuildActivates \/ Report \/ BuildFails

Next == Environment \/ Wake \/ Ask \/ Close \/ Work

Spec == Init /\ [][Next]_watchVars

\* Timers fire, the chain goes on, somebody asks now and then.
FairSpec ==
  /\ Spec
  /\ WF_watchVars(Ready) /\ WF_watchVars(Debounced) /\ WF_watchVars(Sweep)
  /\ WF_watchVars(Ask) /\ WF_watchVars(Work)

-----------------------------------------------------------------------------
Truth == Freshness(disk.content, active)

\* Nothing is under way or about to be: no work, no event, nothing for a sweep.
Quiet ==
  /\ step = "idle" /\ chain = <<>> /\ ~timer /\ ready
  /\ signature = Stamp(disk)

\* When the session has settled, a source that differs from the active build is
\* never reported clean.
QuietCleanIsTrue == (Quiet /\ ~closed /\ Answer = "clean") => Truth = "clean"

\* So it is, whatever was edited, built, activated or rolled back and whichever events
\* were lost, as long as the answer was recorded for the build it was found for:
\* nobody moved the pointer between the check, or the end of the session's own
\* build, and the record of what came of it.
QuietCleanUnlessOvertaken == ~overtaken => QuietCleanIsTrue

\* A build that another command activated or rolled back to stays active: the
\* session, having once found or built what the sources hold, does not build
\* over it while nobody edits, although every check then says dirty.
RollbackStays ==
  [][(edits = 0 /\ known # None /\ moves' = moves) => active' = active]_watchVars

\* Once the sources and the pointer leave it alone, the session finds the right answer
\* and keeps it, or after a failed build one that claims too little; and if nothing
\* failed and nobody else moved the pointer, it serves what is on disk.  Excepted is an
\* answer that a move of the pointer overtook, which nothing corrects.
Converges ==
  <>[](closed \/ overtaken
         \/ (/\ Answer = Truth \/ (Answer = "dirty" /\ trouble > 0)
             /\ (moves = 0 /\ trouble = 0) => Truth # "dirty"))

\* A session that was told to stop comes to the end of its work, the build
\* that runs included, so that the server can drain after it.
ClosingDrains == closed ~> (step = "idle" /\ chain = <<>>)

=============================================================================
