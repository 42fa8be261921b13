--------------------------- MODULE Watcher_proofs ---------------------------
(***************************************************************************)
(* Proofs about Watcher: its types and RollbackStays whatever happens, and *)
(* QuietCleanUnlessOvertaken when neither of the two excluded schedules    *)
(* does.                                                                   *)
(***************************************************************************)
EXTENDS Watcher, TLAPS

(* The strengthened type invariant: an edit takes at most one new stamp,   *)
(* and what is built, or found clean or dirty, are contents that could be  *)
(* read, compared with some build.                                         *)
Typed ==
  /\ TypeOK
  /\ disk.stamp <= edits + 1
  /\ step = "record" => against \in Content
  /\ step \in {"compare", "record"} => seen \in Content \cup {Unreadable}
  /\ step \in {"activate", "report"} => seen \in Content
  /\ step = "record" /\ seen = Unreadable => verdict = "unknown"

LEMMA TypedInit == Init => Typed
<1> SUFFICES ASSUME Init PROVE Typed
  OBVIOUS
<1> USE WatcherAssumption DEF Init
<1>1. chain \in Seq(Jobs) /\ Len(chain) <= MaxQueue
  OBVIOUS
<1>2. signature \in NoSignature..(MaxEdits + 1)
  BY DEF NoSignature
<1>3. disk \in [content : Content \cup {Unreadable}, stamp : 1..(MaxEdits + 1)]
  OBVIOUS
<1>4. active \in built /\ built \subseteq Content /\ described \in Content
  OBVIOUS
<1>5. /\ edits \in 0..MaxEdits /\ moves \in 0..MaxMoves /\ trouble \in 0..MaxTrouble
      /\ disk.stamp <= edits + 1
  OBVIOUS
<1>6. state \in States /\ verdict \in States
  BY DEF States
<1>7. /\ timer \in BOOLEAN /\ ready \in BOOLEAN /\ closed \in BOOLEAN /\ aborted \in BOOLEAN
      /\ overtaken \in BOOLEAN
  OBVIOUS
<1>8. QED
  BY <1>1, <1>2, <1>3, <1>4, <1>5, <1>6, <1>7 DEF Typed, TypeOK

\* Appending keeps the chain one of jobs.
LEMMA Enqueued ==
  ASSUME Typed, NEW j \in Jobs, Enqueue(j)
  PROVE  chain' \in Seq(Jobs) /\ Len(chain') <= MaxQueue
<1>1. Len(chain') = Len(chain) + 1 /\ chain' \in Seq(Jobs)
  BY DEF Typed, TypeOK, Enqueue
<1>2. QED
  BY <1>1, WatcherAssumption DEF Enqueue, Typed, TypeOK

LEMMA StampIsTyped ==
  ASSUME Typed
  PROVE  Stamp(disk) \in 0..(MaxEdits + 1) /\ Stamp(disk) <= disk.stamp
BY WatcherAssumption DEF Typed, TypeOK, Stamp, Unscannable

\* Every variable keeps a value of its kind through every step.
LEMMA TypedStep ==
  ASSUME Typed, [Next]_watchVars
  PROVE  Typed'
<1> USE WatcherAssumption
<1>1. ASSUME NEW b \in Content, MoveElsewhere(b) PROVE Typed'
  BY <1>1 DEF MoveElsewhere, Typed, TypeOK, sources, session, answer, work
<1>2. ASSUME NEW c \in Content \cup {Unreadable}, Edit(c) PROVE Typed'
  <2>1. PICK stamp \in {disk.stamp, disk.stamp + 1}, heard \in {timer, ~closed} :
          disk' = [content |-> c, stamp |-> stamp] /\ timer' = heard
    BY <1>2 DEF Edit
  <2>2. timer' \in BOOLEAN
    BY <2>1, Zenon DEF Typed, TypeOK
  <2>3. edits < MaxEdits /\ edits' = edits + 1
    BY <1>2 DEF Edit
  <2>4. /\ disk' \in [content : Content \cup {Unreadable}, stamp : 1..(MaxEdits + 1)]
        /\ disk'.stamp <= edits' + 1 /\ edits' \in 0..MaxEdits
    BY <2>1, <2>3 DEF Typed, TypeOK
  <2>5. UNCHANGED <<builds, answer, known, signature, chain, work, ready, closed, trouble>>
    BY <1>2 DEF Edit
  <2>6. /\ UNCHANGED <<active, built, moves, state, described, overtaken, known, signature>>
        /\ UNCHANGED <<chain, job, step, seen, verdict, against, aborted, ready, closed, trouble>>
    BY <2>5 DEF builds, answer, work
  <2>7. QED
    BY <2>2, <2>4, <2>6 DEF Typed, TypeOK
<1>3. CASE Ready
  <2>1. chain' \in Seq(Jobs) /\ Len(chain') <= MaxQueue
    BY <1>3, Enqueued DEF Ready, Jobs
  <2>2. UNCHANGED <<disk, edits, active, built, moves, state, described, overtaken, known,
                    signature, timer, job, step, seen, verdict, against, aborted, closed, trouble>>
    BY <1>3 DEF Ready, sources, builds, answer, work
  <2>3. ready' \in BOOLEAN
    BY <1>3 DEF Ready
  <2>4. QED
    BY <2>1, <2>2, <2>3 DEF Typed, TypeOK
<1>4. CASE Debounced
  <2>1. chain' \in Seq(Jobs) /\ Len(chain') <= MaxQueue
    BY <1>4, Enqueued DEF Debounced, Jobs
  <2>2. UNCHANGED <<disk, edits, active, built, moves, state, described, overtaken, known,
                    signature, job, step, seen, verdict, against, aborted, ready, closed, trouble>>
    BY <1>4 DEF Debounced, sources, builds, answer, work
  <2>3. timer' \in BOOLEAN
    BY <1>4 DEF Debounced
  <2>4. QED
    BY <2>1, <2>2, <2>3 DEF Typed, TypeOK
<1>5. CASE WatcherError
  <2>1. chain' \in Seq(Jobs) /\ Len(chain') <= MaxQueue
    BY <1>5, Enqueued DEF WatcherError, Jobs
  <2>2. QED
    BY <1>5, <2>1 DEF WatcherError, Typed, TypeOK, sources, builds, answer, work
<1>6. CASE Sweep
  <2>1. signature' \in NoSignature..(MaxEdits + 1)
    BY <1>6, StampIsTyped DEF Sweep, NoSignature
  <2>2. chain' \in Seq(Jobs) /\ Len(chain') <= MaxQueue
    BY <1>6, Enqueued DEF Sweep, Typed, TypeOK, Jobs
  <2>3. QED
    BY <1>6, <2>1, <2>2 DEF Sweep, Typed, TypeOK, sources, builds, answer, work
<1>7. CASE Ask
  <2>1. chain' \in Seq(Jobs) /\ Len(chain') <= MaxQueue
    BY <1>7, Enqueued DEF Ask, Typed, TypeOK, Jobs
  <2>2. state' \in States /\ described' \in Content /\ overtaken' \in BOOLEAN
    BY <1>7 DEF Ask, Record, Typed, TypeOK, States, answer
  <2>3. QED
    BY <1>7, <2>1, <2>2 DEF Ask, Typed, TypeOK, sources, builds, work
<1>8. CASE Close
  <2>1. aborted' \in BOOLEAN
    <3>1. aborted' = (step \in {"build", "activate", "report"})
      BY <1>8 DEF Close
    <3>2. (step \in {"build", "activate", "report"}) \in BOOLEAN
      OBVIOUS
    <3>3. QED
      BY <3>1, <3>2, Zenon
  <2>2. /\ closed' = TRUE /\ timer' = FALSE
        /\ UNCHANGED <<sources, builds, answer, known, signature, chain, job, step, seen, verdict,
                       against, ready, trouble>>
    BY <1>8 DEF Close
  <2>3. /\ UNCHANGED <<disk, edits, active, built, moves, state, described, overtaken>>
        /\ UNCHANGED <<known, signature, chain, job, step, seen, verdict, against, ready, trouble>>
    BY <2>2 DEF sources, builds, answer
  <2>4. QED
    BY <2>1, <2>2, <2>3 DEF Typed, TypeOK
<1>9. CASE Start
  <2>1. chain' \in Seq(Jobs) /\ Len(chain') <= MaxQueue
    BY <1>9 DEF Start, Typed, TypeOK
  <2>2. job' \in Jobs \cup {None} /\ step' \in {"idle", "stable", "observe"}
    <3>1. Head(chain) \in Jobs
      BY <1>9 DEF Start, Typed, TypeOK
    <3>2. QED
      BY <1>9, <3>1 DEF Start, Typed, TypeOK
  <2>3. QED
    BY <1>9, <2>1, <2>2 DEF Start, Typed, TypeOK, sources, builds, answer
<1>10. CASE Stable
  <2>1. signature' \in NoSignature..(MaxEdits + 1)
    BY <1>10, StampIsTyped DEF Stable, Typed, TypeOK, NoSignature
  <2>2. /\ job' \in {job, None} /\ step' \in {"idle", "observe"}
        /\ seen' \in {seen, None} /\ verdict' \in {verdict, "unknown"}
        /\ against' \in {against, None} /\ aborted' \in {aborted, FALSE}
    BY <1>10 DEF Stable, Finish
  <2>3. UNCHANGED <<disk, edits, active, built, moves, state, described, overtaken, known,
                    timer, chain, ready, closed, trouble>>
    BY <1>10 DEF Stable, sources, builds, answer
  <2>4. aborted' \in BOOLEAN
    BY <2>2 DEF Typed, TypeOK
  <2>5. QED
    BY <2>1, <2>2, <2>3, <2>4 DEF Typed, TypeOK, States
<1>11. CASE Observe
  BY <1>11 DEF Observe, Goto, Typed, TypeOK, sources, builds, answer
<1>12. CASE Compare
  BY <1>12 DEF Compare, Freshness, Goto, Typed, TypeOK, States, sources, builds, answer
<1>13. CASE Decide
  BY <1>13 DEF Decide, Record, Finish, Typed, TypeOK, States, sources, builds
<1>14. CASE CheckFails
  <2>1. trouble' \in 0..MaxTrouble
    BY <1>14 DEF CheckFails, Typed, TypeOK
  <2>2. state' \in States /\ described' \in Content /\ overtaken' \in BOOLEAN
    BY <1>14 DEF CheckFails, Record, Typed, TypeOK, States, answer
  <2>3. QED
    BY <1>14, <2>1, <2>2 DEF CheckFails, Finish, Typed, TypeOK, States, sources, builds
<1>15. CASE BuildReads
  BY <1>15 DEF BuildReads, Goto, Typed, TypeOK, sources, builds, answer
<1>16. CASE BuildActivates
  BY <1>16 DEF BuildActivates, Goto, Typed, TypeOK, sources, answer
<1>17. CASE Report
  BY <1>17 DEF Report, Record, Finish, Typed, TypeOK, States, sources, builds
<1>18. CASE BuildFails
  <2>1. trouble' \in 0..MaxTrouble
    BY <1>18 DEF BuildFails, Typed, TypeOK
  <2>2. state' \in States /\ described' \in Content /\ overtaken' \in BOOLEAN
    BY <1>18 DEF BuildFails, Record, Typed, TypeOK, States
  <2>3. QED
    BY <1>18, <2>1, <2>2 DEF BuildFails, Finish, Typed, TypeOK, States, sources, builds
<1>19. CASE UNCHANGED watchVars
  BY <1>19 DEF watchVars, Typed, TypeOK, sources, builds, session, answer, work
<1>20. ASSUME NEW b \in Content, PruneElsewhere(b) PROVE Typed'
  BY <1>20 DEF PruneElsewhere, Typed, TypeOK, sources, session, answer, work
<1>21. QED
  BY <1>1, <1>2, <1>3, <1>4, <1>5, <1>6, <1>7, <1>8, <1>9, <1>10, <1>11, <1>12, <1>13, <1>14,
     <1>15, <1>16, <1>17, <1>18, <1>19, <1>20 DEF Next, Environment, Wake, Work

\* Every variable of the watcher always holds a value of its kind.
THEOREM TypeCorrect == Spec => []TypeOK
<1>1. Typed => TypeOK
  BY DEF Typed
<1>2. QED
  BY <1>1, TypedInit, TypedStep, PTL DEF Spec

(* While nobody edits, the sources hold what the session built first, so   *)
(* what is being built is that, and nothing was built or found before.     *)
Unedited ==
  edits = 0 =>
    /\ disk.content = First
    /\ known \in {None, First}
    /\ step \in {"compare", "record", "activate", "report"} => seen = First
    /\ step \in {"build", "activate", "report"} => known = None

LEMMA UneditedStep ==
  ASSUME Typed, Unedited, [Next]_watchVars
  PROVE  Unedited'
<1> USE WatcherAssumption
<1>1. ASSUME NEW b \in Content, MoveElsewhere(b) PROVE Unedited'
  BY <1>1 DEF MoveElsewhere, Unedited, sources, session, work
<1>2. ASSUME NEW c \in Content \cup {Unreadable}, Edit(c) PROVE Unedited'
  BY <1>2 DEF Edit, Typed, TypeOK, Unedited
<1>3. CASE Ready \/ Debounced \/ WatcherError \/ Sweep \/ Ask \/ Close
  BY <1>3 DEF Ready, Debounced, WatcherError, Sweep, Ask, Close, Unedited, sources, work
<1>4. CASE Start
  BY <1>4 DEF Start, Unedited, sources
<1>5. CASE Stable
  BY <1>5 DEF Stable, Finish, Unedited, sources
<1>6. CASE Observe
  BY <1>6 DEF Observe, Goto, Unedited, sources
<1>7. CASE Compare
  BY <1>7 DEF Compare, Goto, Unedited, sources
<1>8. CASE Decide
  BY <1>8 DEF Decide, Finish, Unedited, sources
<1>9. CASE CheckFails \/ BuildFails
  BY <1>9 DEF CheckFails, BuildFails, Finish, Unedited, sources
<1>10. CASE BuildReads
  BY <1>10 DEF BuildReads, Goto, Unedited, sources
<1>11. CASE BuildActivates
  BY <1>11 DEF BuildActivates, Goto, Unedited, sources
<1>12. CASE Report
  BY <1>12 DEF Report, Finish, Unedited, sources
<1>13. CASE UNCHANGED watchVars
  BY <1>13 DEF watchVars, Unedited, sources, session, work
<1>14. ASSUME NEW b \in Content, PruneElsewhere(b) PROVE Unedited'
  BY <1>14 DEF PruneElsewhere, Unedited, sources, session, work
<1>15. QED
  BY <1>1, <1>2, <1>3, <1>4, <1>5, <1>6, <1>7, <1>8, <1>9, <1>10, <1>11, <1>12, <1>13, <1>14
     DEF Next, Environment, Wake, Work

\* The session does not build over a build that another command activated or
\* rolled back to while nobody edits, once it has built or found what the sources
\* hold.
THEOREM RollbacksStay == Spec => RollbackStays
<1>1. Init => Unedited
  BY DEF Init, Unedited
<1>2. Typed /\ Unedited /\ [Next]_watchVars
        => ((edits = 0 /\ known # None /\ moves' = moves) => active' = active)
  <2> SUFFICES ASSUME Typed, Unedited, [Next]_watchVars, edits = 0, known # None, moves' = moves
               PROVE  active' = active
    OBVIOUS
  <2>1. ASSUME NEW b \in Content, MoveElsewhere(b) PROVE FALSE
    BY <2>1 DEF MoveElsewhere, Typed, TypeOK
  <2>2. CASE BuildActivates
    BY <2>2 DEF BuildActivates, Goto, Unedited
  <2>3. CASE \E c \in Content \cup {Unreadable} : Edit(c)
    BY <2>3 DEF Edit, builds
  <2>4. CASE Wake \/ Ask \/ Close
    BY <2>4 DEF Wake, Ready, Debounced, WatcherError, Sweep, Ask, Close, builds
  <2>5. CASE Work /\ ~BuildActivates
    BY <2>5 DEF Work, Start, Stable, Observe, Compare, Decide, CheckFails, BuildReads, Report,
         BuildFails, builds
  <2>6. CASE UNCHANGED watchVars
    BY <2>6 DEF watchVars, builds
  <2>7. ASSUME NEW b \in Content, PruneElsewhere(b) PROVE active' = active
    BY <2>7 DEF PruneElsewhere
  <2>8. QED
    BY <2>1, <2>2, <2>3, <2>4, <2>5, <2>6, <2>7 DEF Next, Environment
<1>3. QED
  BY <1>1, <1>2, TypedInit, TypedStep, UneditedStep, PTL DEF Spec, RollbackStays

(* A settle that waits or runs will look at the sources anew.              *)
SettleQueued == \E i \in 1..Len(chain) : chain[i] = "settle"
SettleDue == SettleQueued \/ (job = "settle" /\ step # "idle")

(* The stamp of the last sweep is one the sources have or had, and while   *)
(* there is none yet the reconciliation of the start is due.               *)
SignaturesAreSound ==
  /\ signature <= disk.stamp
  /\ step = "stable" => job = "settle"
  /\ job = "settle" /\ step \notin {"idle", "stable"} => signature # NoSignature
  /\ ready /\ signature = NoSignature => SettleDue

(* A look at sources that have the stamp the sweep compares with is a look *)
(* at what they hold, unless an event says otherwise.                      *)
Looking ==
  /\ step \in {"compare", "record", "activate", "report"}
  /\ ready \/ job = "settle"
  /\ signature = Stamp(disk) /\ ~SettleQueued /\ ~timer

LooksAreSound ==
  /\ Looking => seen = disk.content
  /\ step = "record" /\ verdict = "clean" => seen = against

(* And so is an answer, as long as nothing is due, if it was recorded for  *)
(* the build it was found for.                                             *)
AnswersAreSound ==
  ready /\ ~timer /\ ~SettleDue /\ signature = Stamp(disk) /\ state = "clean" /\ ~overtaken
    => described = disk.content

Settled == closed \/ (SignaturesAreSound /\ LooksAreSound /\ AnswersAreSound)

\* What is appended is queued, and nothing leaves the queue by it.
LEMMA EnqueueKeeps ==
  ASSUME Typed, NEW j \in Jobs, Enqueue(j)
  PROVE  /\ SettleQueued => SettleQueued'
         /\ j = "settle" => SettleQueued'
         /\ j # "settle" => (SettleQueued' => SettleQueued)
<1>1. /\ Len(chain') = Len(chain) + 1 /\ Len(chain) \in Nat
      /\ \A i \in 1..Len(chain) : chain'[i] = chain[i]
      /\ chain'[Len(chain) + 1] = j
  BY DEF Typed, TypeOK, Enqueue
<1>2. QED
  BY <1>1 DEF SettleQueued

\* What a start takes from the queue is its first piece of work.
LEMMA StartTakesOne ==
  ASSUME Typed, Start, ~closed
  PROVE  /\ step = "idle"
         /\ job' = "settle" => step' = "stable" /\ SettleQueued
         /\ job' # "settle" => step' = "observe" /\ (SettleQueued => SettleQueued')
         /\ SettleQueued' => SettleQueued
<1>1. chain # <<>> /\ chain' = Tail(chain) /\ chain \in Seq(Jobs)
  BY DEF Start, Typed, TypeOK
<1>2. /\ Len(chain) \in Nat /\ Len(chain') = Len(chain) - 1
      /\ \A i \in 1..Len(chain') : chain'[i] = chain[i + 1]
      /\ Head(chain) = chain[1]
  BY <1>1
<1>3. job' = chain[1] /\ step = "idle"
      /\ step' = IF chain[1] = "settle" THEN "stable" ELSE "observe"
  BY <1>2 DEF Start
<1>4. ASSUME SettleQueued, chain[1] # "settle" PROVE SettleQueued'
  <2>1. PICK i \in 1..Len(chain) : chain[i] = "settle"
    BY <1>4 DEF SettleQueued
  <2>2. i - 1 \in 1..Len(chain')
    BY <1>2, <1>4, <2>1
  <2>3. chain'[i - 1] = "settle"
    BY <1>2, <2>1, <2>2
  <2>4. QED
    BY <2>2, <2>3 DEF SettleQueued
<1>5. ASSUME SettleQueued' PROVE SettleQueued
  <2>1. PICK i \in 1..Len(chain') : chain'[i] = "settle"
    BY <1>5 DEF SettleQueued
  <2>2. i + 1 \in 1..Len(chain) /\ chain[i + 1] = "settle"
    BY <1>2, <2>1
  <2>3. QED
    BY <2>2 DEF SettleQueued
<1>6. chain[1] = "settle" => SettleQueued
  BY <1>1, <1>2 DEF SettleQueued
<1>7. QED
  BY <1>3, <1>4, <1>5, <1>6

\* An edit that neither a sweep nor an event tells of is one of sources that could
\* not be read before and cannot now.
LEMMA EditsAreSeen ==
  ASSUME Typed, signature <= disk.stamp, Faults = {}, ~closed,
         NEW c \in Content \cup {Unreadable}, Edit(c),
         signature = Stamp(disk'), ~timer'
  PROVE  signature = Stamp(disk) /\ disk'.content = disk.content /\ ~timer
<1>1. PICK stamp \in {disk.stamp, disk.stamp + 1}, heard \in {timer, ~closed} :
        /\ stamp = disk.stamp => heard
        /\ disk' = [content |-> c, stamp |-> stamp] /\ timer' = heard
  BY DEF Edit
<1>2. ~heard /\ stamp = disk.stamp + 1 /\ disk.stamp \in Nat \ {0}
  BY <1>1 DEF Typed, TypeOK
<1>3. ~timer
  BY <1>1, <1>2
<1>4. c = Unreadable /\ signature = Unscannable
  BY <1>1, <1>2 DEF Typed, TypeOK, NoSignature, Stamp
<1>5. disk.content = Unreadable
  BY <1>4 DEF Edit
<1>6. QED
  BY <1>1, <1>3, <1>4, <1>5 DEF Stamp

\* Every step keeps Settled, when neither excluded schedule happens.
LEMMA SettledStep ==
  ASSUME Typed, Settled, [Next]_watchVars, Faults = {}
  PROVE  Settled'
<1> USE WatcherAssumption DEF Settled
<1>1. CASE closed'
  BY <1>1
<1> SUFFICES ASSUME ~closed' PROVE (SignaturesAreSound /\ LooksAreSound /\ AnswersAreSound)'
  BY <1>1
<1>2. ~closed
  BY DEF Next, Environment, MoveElsewhere, PruneElsewhere, Edit, Wake, Ready, Debounced, WatcherError,
      Sweep, Ask, Close, Work, Start, Stable, Observe, Compare, Decide, CheckFails, BuildReads, BuildActivates,
      Report, BuildFails, watchVars, session
<1> USE <1>2
<1>3. ASSUME NEW b \in Content, MoveElsewhere(b)
      PROVE  (SignaturesAreSound /\ LooksAreSound /\ AnswersAreSound)'
  BY <1>3 DEF MoveElsewhere, SignaturesAreSound, LooksAreSound, Looking, AnswersAreSound,
       SettleDue, SettleQueued, Stamp, sources, session, answer, work
<1>4. ASSUME NEW c \in Content \cup {Unreadable}, Edit(c)
      PROVE  (SignaturesAreSound /\ LooksAreSound /\ AnswersAreSound)'
  <2>1. SignaturesAreSound'
    BY <1>4 DEF Edit, SignaturesAreSound, SettleDue, SettleQueued, Typed, TypeOK, NoSignature, work
  <2>2. signature' = Stamp(disk)' /\ ~timer'
          => signature = Stamp(disk) /\ disk'.content = disk.content /\ ~timer
    BY <1>4, EditsAreSeen DEF SignaturesAreSound, Edit, Stamp
  <2>3. QED
    BY <1>4, <2>1, <2>2 DEF Edit, LooksAreSound, Looking, AnswersAreSound, SettleDue, SettleQueued,
         builds, answer, work
<1>5. CASE Ready
  <2>1. SettleQueued'
    BY <1>5, EnqueueKeeps DEF Ready, Jobs
  <2>2. QED
    BY <1>5, <2>1 DEF Ready, SignaturesAreSound, LooksAreSound, Looking, AnswersAreSound, SettleDue,
         Turn, sources, builds, answer, work
<1>6. CASE Debounced
  <2>1. SettleQueued'
    BY <1>6, EnqueueKeeps DEF Debounced, Jobs
  <2>2. QED
    BY <1>6, <2>1 DEF Debounced, SignaturesAreSound, LooksAreSound, Looking, AnswersAreSound,
         SettleDue, sources, builds, answer, work
<1>7. CASE WatcherError
  <2>1. SettleQueued'
    BY <1>7, EnqueueKeeps DEF WatcherError, Jobs
  <2>2. QED
    BY <1>7, <2>1 DEF WatcherError, SignaturesAreSound, LooksAreSound, Looking, AnswersAreSound,
         SettleDue, sources, builds, answer, work
<1>8. CASE Sweep
  <2>1. signature' = Stamp(disk) /\ Stamp(disk) \in 0..(MaxEdits + 1) /\ Stamp(disk) <= disk.stamp
    BY <1>8, StampIsTyped DEF Sweep
  <2>2. UNCHANGED <<disk, state, described, overtaken, timer, job, step, seen, verdict, against,
                    ready>>
    BY <1>8 DEF Sweep, sources, builds, answer, work
  <2>3. SettleQueued => SettleQueued'
    BY <1>8, EnqueueKeeps DEF Sweep, SettleQueued, Jobs
  <2>4. SignaturesAreSound'
    BY <2>1, <2>2 DEF SignaturesAreSound, NoSignature
  <2>5. CASE SettleQueued'
    BY <2>2, <2>4, <2>5 DEF LooksAreSound, Looking, AnswersAreSound, SettleDue
  <2>6. CASE ~SettleQueued'
    <3>1. signature = NoSignature /\ ~SettleQueued
      BY <1>8, <2>3, <2>6, EnqueueKeeps DEF Sweep, Jobs
    <3>2. ready => job = "settle" /\ step = "stable"
      BY <3>1 DEF SignaturesAreSound, SettleDue
    <3>3. job = "settle" => step \in {"idle", "stable"}
      BY <3>1 DEF SignaturesAreSound
    <3>4. QED
      BY <2>2, <2>4, <3>2, <3>3 DEF LooksAreSound, Looking, AnswersAreSound, SettleDue
  <2>7. QED
    BY <2>5, <2>6
<1>9. CASE Ask
  <2>1. SettleQueued => SettleQueued'
    BY <1>9, EnqueueKeeps DEF Ask, SettleQueued, Jobs
  <2>2. UNCHANGED <<disk, signature, timer, job, step, seen, verdict, against, ready>>
    BY <1>9 DEF Ask, sources, builds, work
  <2>3. SignaturesAreSound' /\ LooksAreSound'
    BY <2>1, <2>2 DEF SignaturesAreSound, SettleDue, LooksAreSound, Looking, Stamp
  <2>4. AnswersAreSound'
    <3>1. CASE active = described
      BY <1>9, <2>2, <3>1 DEF Ask, AnswersAreSound, SettleDue, SettleQueued, Stamp, answer
    <3>2. CASE active # described
      BY <1>9, <3>2 DEF Ask, Record, AnswersAreSound
    <3>3. QED
      BY <3>1, <3>2
  <2>5. QED
    BY <2>3, <2>4
<1>10. CASE Close
  BY <1>10 DEF Close
<1>11. CASE Start
  <2>1. UNCHANGED <<disk, state, described, overtaken, signature, timer, ready>>
    BY <1>11 DEF Start, sources, builds, answer
  <2>2. SettleDue <=> SettleDue'
    BY <1>11, StartTakesOne DEF SettleDue
  <2>3. step' \in {"stable", "observe"} /\ (job' = "settle" <=> step' = "stable")
    BY <1>11, StartTakesOne
  <2>4. QED
    BY <2>1, <2>2, <2>3 DEF SignaturesAreSound, LooksAreSound, Looking, AnswersAreSound, Stamp
<1>12. CASE Stable
  <2>1. signature' = Stamp(disk) /\ Stamp(disk) \in 0..(MaxEdits + 1) /\ Stamp(disk) <= disk.stamp
    BY <1>12, StampIsTyped DEF Stable
  <2>2. step = "stable" /\ step' = "observe"
        /\ UNCHANGED <<disk, state, described, overtaken, timer, job, chain, ready>>
    BY <1>12 DEF Stable, sources, builds, answer
  <2>3. QED
    BY <2>1, <2>2 DEF SignaturesAreSound, LooksAreSound, Looking, AnswersAreSound, SettleDue,
         SettleQueued, Stamp, NoSignature
<1>13. CASE Observe
  BY <1>13 DEF Observe, Goto, SignaturesAreSound, LooksAreSound, Looking, AnswersAreSound,
       SettleDue, SettleQueued, Stamp, sources, builds, answer
<1>14. CASE Compare
  <2>1. verdict' = "clean" => seen = against'
    BY <1>14 DEF Compare, Freshness
  <2>2. step = "compare" /\ step' = "record"
        /\ UNCHANGED <<disk, state, described, overtaken, signature, timer, chain, job, seen, ready>>
    BY <1>14 DEF Compare, Goto, sources, builds, answer
  <2>3. QED
    BY <2>1, <2>2 DEF SignaturesAreSound, LooksAreSound, Looking, AnswersAreSound, SettleDue,
         SettleQueued, Stamp
<1>15. CASE Decide
  <2>1. /\ step = "record" /\ step' \in {"build", "idle"}
        /\ state' = verdict /\ described' = active
        /\ step' = "build" => job' = job /\ job = "settle"
        /\ UNCHANGED <<disk, signature, timer, chain, ready>>
    BY <1>15 DEF Decide, Record, Finish, sources
  <2>2. SignaturesAreSound'
    BY <2>1 DEF SignaturesAreSound, SettleDue, SettleQueued, NoSignature
  <2>3. LooksAreSound'
    BY <2>1 DEF LooksAreSound, Looking
  <2>4. ~overtaken' => against = active
    BY <1>15, <2>1 DEF Decide, Record, Typed
  <2>5. AnswersAreSound'
    BY <2>1, <2>4 DEF AnswersAreSound, LooksAreSound, Looking, SettleDue, SettleQueued, Stamp
  <2>6. QED
    BY <2>2, <2>3, <2>5
<1>16. CASE CheckFails \/ BuildFails
  <2>1. /\ step \in {"observe", "compare", "build", "activate", "report"} /\ step' = "idle"
        /\ state' \in {"unknown", "dirty"}
        /\ UNCHANGED <<disk, signature, chain, ready>>
    BY <1>16 DEF CheckFails, BuildFails, Record, Finish, sources
  <2>2. QED
    BY <2>1 DEF SignaturesAreSound, LooksAreSound, Looking, AnswersAreSound, SettleDue, SettleQueued
<1>17. CASE BuildReads
  BY <1>17 DEF BuildReads, Goto, SignaturesAreSound, LooksAreSound, Looking, AnswersAreSound,
       SettleDue, SettleQueued, Stamp, sources, builds, answer
<1>18. CASE BuildActivates
  BY <1>18 DEF BuildActivates, Goto, SignaturesAreSound, LooksAreSound, Looking, AnswersAreSound,
       SettleDue, SettleQueued, Stamp, sources, answer
<1>19. CASE Report
  <2>1. /\ step = "report" /\ step' = "idle"
        /\ described' = active
        /\ UNCHANGED <<disk, signature, timer, chain, ready>>
    BY <1>19 DEF Report, Record, Finish, sources
  <2>2. ~overtaken' => seen = active
    BY <1>19, <2>1 DEF Report, Record, Typed
  <2>3. QED
    BY <2>1, <2>2 DEF SignaturesAreSound, LooksAreSound, Looking, AnswersAreSound, SettleDue,
         SettleQueued, Stamp
<1>20. CASE UNCHANGED watchVars
  BY <1>20 DEF watchVars, SignaturesAreSound, LooksAreSound, Looking, AnswersAreSound, SettleDue,
       SettleQueued, Stamp, sources, builds, session, answer, work
<1>21. ASSUME NEW b \in Content, PruneElsewhere(b)
       PROVE  (SignaturesAreSound /\ LooksAreSound /\ AnswersAreSound)'
  BY <1>21 DEF PruneElsewhere, SignaturesAreSound, LooksAreSound, Looking, AnswersAreSound,
       SettleDue, SettleQueued, Stamp, sources, session, answer, work
<1>22. QED
  BY <1>3, <1>4, <1>5, <1>6, <1>7, <1>8, <1>9, <1>10, <1>11, <1>12, <1>13, <1>14, <1>15, <1>16,
     <1>17, <1>18, <1>19, <1>20, <1>21 DEF Next, Environment, Wake, Work

\* When nothing is under way or due, a clean answer is the truth, whatever was
\* edited, built, activated or rolled back, and whichever events were lost, unless the
\* pointer was moved between the check or the build it came of and its record.
THEOREM QuietCleanIsTrueUnlessOvertaken ==
  ASSUME Faults = {}
  PROVE  Spec => []QuietCleanUnlessOvertaken
<1>1. Init => Settled
  BY WatcherAssumption DEF Init, Settled, SignaturesAreSound, LooksAreSound, Looking,
     AnswersAreSound, NoSignature
<1>2. Typed /\ Settled => QuietCleanUnlessOvertaken
  <2> SUFFICES ASSUME Typed, Settled, Quiet, ~closed, ~overtaken, Answer = "clean"
               PROVE  Truth = "clean"
    BY DEF QuietCleanUnlessOvertaken, QuietCleanIsTrue
  <2>1. ~SettleDue
    BY DEF Quiet, SettleDue, SettleQueued
  <2>2. state = "clean" /\ active = described
    BY DEF Answer
  <2>3. described = disk.content
    BY <2>1, <2>2 DEF Settled, AnswersAreSound, Quiet
  <2>4. QED
    BY <2>2, <2>3, WatcherAssumption DEF Truth, Freshness, Typed, TypeOK
<1>3. QED
  BY <1>1, <1>2, TypedInit, TypedStep, SettledStep, PTL DEF Spec

=============================================================================
