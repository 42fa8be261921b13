----------------------------- MODULE ProjectLock -----------------------------
(***************************************************************************)
(* The project lock: a directory, .lore/lock, taken with mkdir, holding a  *)
(* record of its owner, and taken away from an owner that is no longer     *)
(* running by renaming it to a tombstone.  The read lock, .lore/read-lock, *)
(* is the same class on another path.                                      *)
(*                                                                         *)
(* A Process is one run of one program: it is spawned once and never comes *)
(* back, so it is its own start identity (process-start.ts), and a pid     *)
(* names different processes over time.  A lock directory is known by its  *)
(* number, which stands for its inode and for the token of the process     *)
(* that created it, both unique.                                           *)
(***************************************************************************)
EXTENDS Naturals

CONSTANTS
  Process,
  Pid,      \* the pids the operating systems hand out
  PidOf,    \* the pid each process runs under
  HostOf,   \* the machine each process runs on
  Faults,   \* the schedules, of FaultKinds, that the environment may produce
  ProbeMayFail, \* whether a probe of a live process may find no start
  MaxLocks  \* bound: how many lock directories are ever created

(***************************************************************************)
(* Schedules the code does not rule out and that decide what it promises:  *)
(*   recycled     a pid is given to a new process while a waiter still     *)
(*                holds the start it read for the previous one             *)
(*   probeWindow  an owner releases and exits between a waiter's read of   *)
(*                its record and the waiter's liveness check               *)
(*   splitMark    another process runs, or the process is killed, between  *)
(*                the rename of a lock without a record onto a tombstone   *)
(*                and the marker written into it                           *)
(*   longPause    a process is suspended past staleAfterMs or past         *)
(*                TOMBSTONE_RETENTION_MS                                   *)
(*   recordRefused  the record of a lock cannot be written, for want of    *)
(*                space or of a descriptor, and its process goes on        *)
(*   markerRefused  nor can the marker of a lock moved without a record,   *)
(*                which #markTombstone passes over                         *)
(*   failedRead   a record that is there cannot be read, for want of a     *)
(*                descriptor or by an I/O error                            *)
(* The promises depend on each of them but recordRefused.                  *)
(***************************************************************************)
FaultKinds == {"recycled", "probeWindow", "splitMark", "longPause", "recordRefused",
               "markerRefused", "failedRead"}

ASSUME ConstantsAssumption ==
  /\ PidOf \in [Process -> Pid]
  /\ DOMAIN HostOf = Process
  /\ Faults \subseteq FaultKinds
  /\ ProbeMayFail \in BOOLEAN
  /\ MaxLocks \in Nat
  /\ \A p \in Process : p \notin {"unasked", "unknown"}

Lock == 1..MaxLocks
Identity == {"token", "inode"} \X Lock

VARIABLES
  life,      \* unborn, running or gone
  pc,        \* where each process is in acquire() and release()
  mine,      \* the directory a process created, which is its token; 0: none
  seen,      \* the token a waiter read from the record; 0: unreadable
  identity,  \* what a waiter judged stale
  starts,    \* the starts one acquire() has probed, per pid
  created,   \* how many lock directories have been created
  creator,   \* who created each
  lock,      \* the directory at the lock path; 0: none
  owner,     \* the token in each directory's owner.json; 0: no record
  tombstone, \* the directory each tombstone name holds; 0: none
  marked,    \* directories that hold a reclaimed-at marker
  aged       \* directories that have been there for longer than staleAfterMs

vars == <<life, pc, mine, seen, identity, starts, created, creator, lock, owner,
          tombstone, marked, aged>>

procVars == <<life, mine, seen, identity, starts>>
dirVars == <<created, creator, lock, owner, tombstone, marked, aged>>

States == {"idle", "mkdir", "write", "held", "observe", "judge", "rename", "mark",
           "verify", "putback", "remkdir", "wait"}
NoProbes == [k \in Pid |-> "unasked"]
NoIdentity == <<"none", 0>>

\* The steps of #reclaim, which have an identity to reclaim.
Reclaiming == {"rename", "mark", "verify", "putback"}

\* Every variable holds a value of its kind, and every directory a variable
\* names has been created.
TypeOK ==
  /\ life \in [Process -> {"unborn", "running", "gone"}]
  /\ pc \in [Process -> States]
  /\ created \in 0..MaxLocks
  /\ mine \in [Process -> 0..created]
  /\ seen \in [Process -> 0..created]
  /\ identity \in [Process -> Identity \cup {NoIdentity}]
  /\ \A p \in Process : pc[p] \in Reclaiming => identity[p] \in Identity
  /\ starts \in [Process -> [Pid -> Process \cup {"unasked", "unknown"}]]
  /\ creator \in [1..created -> Process]
  /\ lock \in 0..created
  /\ owner \in [Lock -> 0..created]
  /\ tombstone \in [Identity -> 0..created]
  /\ marked \subseteq 1..created
  /\ aged \subseteq 1..created

Init ==
  /\ life = [p \in Process |-> "unborn"]
  /\ pc = [p \in Process |-> "idle"]
  /\ mine = [p \in Process |-> 0]
  /\ seen = [p \in Process |-> 0]
  /\ identity = [p \in Process |-> NoIdentity]
  /\ starts = [p \in Process |-> NoProbes]
  /\ created = 0
  /\ creator = [n \in {} |-> 0]
  /\ lock = 0
  /\ owner = [n \in Lock |-> 0]
  /\ tombstone = [i \in Identity |-> 0]
  /\ marked = {}
  /\ aged = {}

-----------------------------------------------------------------------------
Running(p) == life[p] = "running"
SameHost(p, q) == HostOf[p] = HostOf[q]
Goto(p, from, to) == pc[p] = from /\ pc' = [pc EXCEPT ![p] = to]

\* The token in the record at the lock path; 0 when there is none to read.
Record == IF lock = 0 THEN 0 ELSE owner[lock]

\* A directory with no file in it, onto which POSIX rename may move another.
Empty(n) == n # 0 /\ owner[n] = 0 /\ n \notin marked

\* A waiter's picture of p's record is about to be checked against p.
Probed(p) == \E w \in Process : /\ pc[w] = "judge"
                                /\ seen[w] # 0
                                /\ creator[seen[w]] = p
                                /\ Record # seen[w]

\* Some process is between reading the lock and finishing a reclaim of i.
InReclaim(i) == \E p \in Process :
  \/ pc[p] \in Reclaiming /\ identity[p] = i
  \/ pc[p] = "judge" /\ i = <<"token", seen[p]>>

-----------------------------------------------------------------------------
(* The processes around the lock.                                          *)

Spawn(p) ==
  /\ life[p] = "unborn"
  /\ \A q \in Process : Running(q) /\ SameHost(p, q) => PidOf[q] # PidOf[p]
  /\ "recycled" \notin Faults =>
       \A w \in Process : SameHost(w, p) => starts[w][PidOf[p]] = "unasked"
  /\ life' = [life EXCEPT ![p] = "running"]
  /\ UNCHANGED <<pc, mine, seen, identity, starts, dirVars>>

\* A normal exit, or a kill at any point: memory is lost, directories stay.
Exit(p) ==
  /\ Running(p)
  /\ Probed(p) => "probeWindow" \in Faults
  /\ life' = [life EXCEPT ![p] = "gone"]
  /\ pc' = [pc EXCEPT ![p] = "idle"]
  /\ mine' = [mine EXCEPT ![p] = 0]
  /\ seen' = [seen EXCEPT ![p] = 0]
  /\ identity' = [identity EXCEPT ![p] = NoIdentity]
  /\ starts' = [starts EXCEPT ![p] = NoProbes]
  /\ UNCHANGED dirVars

\* Time: the directory at the lock path is older than staleAfterMs, which only a
\* lock without a record is asked.  Its creator writes the record right after mkdir,
\* so unless it was suspended in between it is no longer there.  A lock that has a
\* record may well be held that long, and is asked its age if the record is not read.
Age ==
  /\ lock \notin aged \cup {0}
  /\ "longPause" \notin Faults =>
       /\ owner[lock] = 0 \/ "failedRead" \in Faults
       /\ ~ \E p \in Process : pc[p] = "write" /\ mine[p] = lock
  /\ aged' = aged \cup {lock}
  /\ UNCHANGED <<pc, procVars, created, creator, lock, owner, tombstone, marked>>

-----------------------------------------------------------------------------
(* acquire()                                                               *)

BeginAcquire(p) ==
  /\ Running(p)
  /\ Goto(p, "idle", "mkdir")
  /\ UNCHANGED <<procVars, dirVars>>

MakeDirectory(p) ==
  /\ pc[p] \in {"mkdir", "remkdir"}
  /\ lock = 0
  /\ created < MaxLocks
  /\ created' = created + 1
  /\ lock' = created'
  /\ creator' = [n \in 1..created' |-> IF n = created' THEN p ELSE creator[n]]
  /\ mine' = [mine EXCEPT ![p] = created']
  /\ pc' = [pc EXCEPT ![p] = "write"]
  /\ UNCHANGED <<life, seen, identity, starts, owner, tombstone, marked, aged>>

\* EEXIST: the first attempt of a round looks at the lock, the second, after a
\* reclaim, goes on to the deadline.
LockExists(p) ==
  /\ lock # 0
  /\ \/ Goto(p, "mkdir", "observe")
     \/ Goto(p, "remkdir", "wait")
  /\ UNCHANGED <<procVars, dirVars>>

\* #markTombstone passes over a write that fails: a directory with a record in it is
\* then only swept later, one without a record stays open to a rename onto it.
MarkerMayFail(n) == owner[n] # 0 \/ "markerRefused" \in Faults

\* #markTombstone of each of the directories ns.
WriteMarkers(ns) ==
  \E failed \in SUBSET {n \in ns : MarkerMayFail(n)} : marked' = marked \cup (ns \ failed)

Unmarked == {n \in 1..created \ marked : \E i \in Identity : tombstone[i] = n}

\* Wrong on purpose: a sweep that does not wait out the retention time.
HastySweep ==
  /\ \E expired \in SUBSET {i \in Identity : tombstone[i] \in marked} :
       tombstone' = [i \in Identity |-> IF i \in expired THEN 0 ELSE tombstone[i]]
  /\ WriteMarkers(Unmarked)

\* #sweepTombstones: removes tombstones past retention and marks the unmarked.
Sweep ==
  /\ \E expired \in SUBSET {i \in Identity :
                              /\ tombstone[i] \in marked
                              /\ "longPause" \in Faults \/ ~ InReclaim(i)} :
       tombstone' = [i \in Identity |-> IF i \in expired THEN 0 ELSE tombstone[i]]
  /\ WriteMarkers(Unmarked)

\* The record is written by path, into whatever directory is there by then.
WriteOwner(p) ==
  /\ lock # 0
  /\ Goto(p, "write", "held")
  /\ owner' = [owner EXCEPT ![lock] = mine[p]]
  /\ starts' = [starts EXCEPT ![p] = NoProbes]
  /\ Sweep
  /\ UNCHANGED <<life, mine, seen, identity, created, creator, lock, aged>>

\* The directory is gone: the write throws out of acquire().
WriteFails(p) ==
  /\ lock = 0
  /\ Goto(p, "write", "idle")
  /\ mine' = [mine EXCEPT ![p] = 0]
  /\ starts' = [starts EXCEPT ![p] = NoProbes]
  /\ UNCHANGED <<life, seen, identity, dirVars>>

\* The record cannot be created, for want of space or of a descriptor: the write
\* throws as well, of a process that goes on, and the directory stays without one.
WriteRefused(p) ==
  /\ "recordRefused" \in Faults
  /\ lock # 0
  /\ Goto(p, "write", "idle")
  /\ mine' = [mine EXCEPT ![p] = 0]
  /\ starts' = [starts EXCEPT ![p] = NoProbes]
  /\ UNCHANGED <<life, seen, identity, dirVars>>

\* #observe and #readOwner take a read that fails for a lock without a record.
ReadRecord(found) == found = Record \/ (found = 0 /\ "failedRead" \in Faults)

Observe(p) ==
  /\ Goto(p, "observe", "judge")
  /\ \E found \in {0, Record} : ReadRecord(found) /\ seen' = [seen EXCEPT ![p] = found]
  /\ UNCHANGED <<life, mine, identity, starts, dirVars>>

\* What asking for the start of pid k finds: the process running under it.
Probe(p, k) ==
  LET found == {q \in Process : Running(q) /\ SameHost(p, q) /\ PidOf[q] = k}
  IN  found \cup (IF ProbeMayFail THEN {"unknown"} ELSE {})

Alive(p, k) == \E q \in Process : Running(q) /\ SameHost(p, q) /\ PidOf[q] = k

\* What judging leaves of a round: the identity to reclaim, or nothing.
Stale(p, i) ==
  /\ pc' = [pc EXCEPT ![p] = "rename"]
  /\ identity' = [identity EXCEPT ![p] = i]

Keep(p) ==
  /\ pc' = [pc EXCEPT ![p] = "wait"]
  /\ UNCHANGED identity

\* #staleIdentity for a readable record: #ownerIsGone of the process o in it.
JudgeRecord(p) ==
  LET o == creator[seen[p]]
      k == PidOf[o]
      i == <<"token", seen[p]>>
  IN
  /\ pc[p] = "judge" /\ seen[p] # 0
  /\ \/ ~ SameHost(p, o) /\ Keep(p) /\ UNCHANGED starts
     \/ SameHost(p, o) /\ k = PidOf[p] /\ o = p /\ Keep(p) /\ UNCHANGED starts
     \/ SameHost(p, o) /\ k = PidOf[p] /\ o # p /\ Stale(p, i) /\ UNCHANGED starts
     \/ SameHost(p, o) /\ k # PidOf[p] /\ ~ Alive(p, k) /\ Stale(p, i) /\ UNCHANGED starts
     \/ /\ SameHost(p, o) /\ k # PidOf[p] /\ Alive(p, k)
        /\ \E start \in IF starts[p][k] = "unasked" THEN Probe(p, k) ELSE {starts[p][k]} :
             /\ starts' = [starts EXCEPT ![p][k] = start]
             /\ IF start \in {"unknown", o} THEN Keep(p) ELSE Stale(p, i)
  /\ seen' = [seen EXCEPT ![p] = 0]
  /\ UNCHANGED <<life, mine, dirVars>>

\* Wrong on purpose: a lock that is not there counts as one that is too old.
JudgeMissingAsAged(p) ==
  /\ pc[p] = "judge" /\ seen[p] = 0
  /\ IF lock \in aged \cup {0} THEN Stale(p, <<"inode", lock>>) ELSE Keep(p)
  /\ UNCHANGED <<life, mine, seen, starts, dirVars>>

\* Wrong on purpose: a lock without a record is never judged stale.
JudgeUnreadableKeeps(p) ==
  /\ pc[p] = "judge" /\ seen[p] = 0
  /\ Keep(p)
  /\ UNCHANGED <<life, mine, seen, starts, dirVars>>

\* #staleIdentity without a record: the age of the directory there by now.
JudgeUnreadable(p) ==
  /\ pc[p] = "judge" /\ seen[p] = 0
  /\ IF lock \in aged THEN Stale(p, <<"inode", lock>>) ELSE Keep(p)
  /\ UNCHANGED <<life, mine, seen, starts, dirVars>>

-----------------------------------------------------------------------------
(* #reclaim(identity)                                                      *)

\* Wrong on purpose: a tombstone that is in the way is removed first.
CanAlwaysRename(i) == lock # 0 /\ i \in Identity

CanRename(i) == lock # 0 /\ (tombstone[i] = 0 \/ Empty(tombstone[i]))

Rename(p) ==
  /\ pc[p] = "rename"
  /\ CanRename(identity[p])
  /\ tombstone' = [tombstone EXCEPT ![identity[p]] = lock]
  /\ lock' = 0
  /\ \/ /\ owner[lock] # 0 \/ "splitMark" \in Faults
        /\ Goto(p, "rename", "mark")
        /\ UNCHANGED marked
     \/ /\ owner[lock] = 0
        /\ Goto(p, "rename", "verify")
        /\ WriteMarkers({lock})
  /\ UNCHANGED <<procVars, created, creator, owner, aged>>

RenameFails(p) ==
  /\ Goto(p, "rename", "wait")
  /\ ~ CanRename(identity[p])
  /\ identity' = [identity EXCEPT ![p] = NoIdentity]
  /\ UNCHANGED <<life, mine, seen, starts, dirVars>>

Mark(p) ==
  /\ Goto(p, "mark", "verify")
  /\ WriteMarkers({tombstone[identity[p]]} \ {0})
  /\ UNCHANGED <<procVars, created, creator, lock, owner, tombstone, aged>>

\* #identityAt: the identity of what was really moved.
IdentityAt(n) ==
  IF n = 0 THEN NoIdentity
  ELSE IF owner[n] # 0 THEN <<"token", owner[n]>> ELSE <<"inode", n>>

\* What it finds when the record may not be read.
FoundAt(n) ==
  {IdentityAt(n)} \cup (IF "failedRead" \in Faults /\ n # 0 THEN {<<"inode", n>>} ELSE {})

Verify(p) ==
  /\ pc[p] = "verify"
  /\ \E found \in FoundAt(tombstone[identity[p]]) :
       IF found = identity[p]
       THEN /\ pc' = [pc EXCEPT ![p] = "remkdir"]
            /\ identity' = [identity EXCEPT ![p] = NoIdentity]
       ELSE /\ pc' = [pc EXCEPT ![p] = "putback"]
            /\ UNCHANGED identity
  /\ UNCHANGED <<life, mine, seen, starts, dirVars>>

\* The moved directory was not the one judged: it goes back to the lock path,
\* over an empty directory if another process has just created one.
PutBack(p) ==
  LET n == tombstone[identity[p]] IN
  /\ Goto(p, "putback", "wait")
  /\ IF n # 0 /\ (lock = 0 \/ Empty(lock))
     THEN /\ lock' = n
          /\ tombstone' = [tombstone EXCEPT ![identity[p]] = 0]
     ELSE UNCHANGED <<lock, tombstone>>
  /\ identity' = [identity EXCEPT ![p] = NoIdentity]
  /\ UNCHANGED <<life, mine, seen, starts, created, creator, owner, marked, aged>>

Retry(p) ==
  /\ Goto(p, "wait", "mkdir")
  /\ UNCHANGED <<procVars, dirVars>>

\* The deadline: acquire() throws LORE_E_LOCK_HELD.
GiveUp(p) ==
  /\ Goto(p, "wait", "idle")
  /\ starts' = [starts EXCEPT ![p] = NoProbes]
  /\ UNCHANGED <<life, mine, seen, identity, dirVars>>

-----------------------------------------------------------------------------
\* Wrong on purpose: the token of a lock that was released is not forgotten.
ReleaseKeepsToken(p) ==
  /\ Goto(p, "held", "idle")
  /\ lock' = IF Record = mine[p] THEN 0 ELSE lock
  /\ UNCHANGED <<life, mine, seen, identity, starts, created, creator, owner, tombstone,
                 marked, aged>>

\* release(): only a lock that still records this process's token is removed.
Release(p) ==
  /\ Goto(p, "held", "idle")
  /\ \E found \in {0, Record} : ReadRecord(found) /\ lock' = IF found = mine[p] THEN 0 ELSE lock
  /\ mine' = [mine EXCEPT ![p] = 0]
  /\ UNCHANGED <<life, seen, identity, starts, created, creator, owner, tombstone,
                 marked, aged>>

Step(p) ==
  \/ MakeDirectory(p) \/ LockExists(p) \/ WriteOwner(p) \/ WriteFails(p)
  \/ Observe(p) \/ JudgeRecord(p) \/ JudgeUnreadable(p)
  \/ Rename(p) \/ RenameFails(p) \/ Mark(p) \/ Verify(p) \/ PutBack(p)
  \/ Retry(p) \/ Release(p)

Next ==
  \/ Age
  \/ \E p \in Process :
       \/ Spawn(p) \/ Exit(p) \/ BeginAcquire(p) \/ Step(p) \/ WriteRefused(p) \/ GiveUp(p)

Spec == Init /\ [][Next]_vars

(***************************************************************************)
(* A running process keeps executing, time passes, and commands keep being *)
(* started; nothing obliges a process to exit, to be spawned or to give up *)
(* before its deadline.                                                    *)
(***************************************************************************)
Fairness ==
  /\ WF_vars(Age)
  /\ \A p \in Process : WF_vars(Step(p)) /\ WF_vars(BeginAcquire(p))

FairSpec == Spec /\ Fairness

-----------------------------------------------------------------------------
(* What the lock promises.                                                 *)

\* Two processes never both believe they hold the lock (withLock runs a build,
\* an activation or a prune between acquire and release).
MutualExclusion ==
  \A p, q \in Process : pc[p] = "held" /\ pc[q] = "held" => p = q

\* A reclaim moves aside only the lock it judged, never one that its creator is
\* still writing or holding, and, if it has a record, only that of a process of
\* the same machine which is no longer running.
OnlyAbandonedLocksMoved ==
  [][\A p \in Process :
       pc[p] = "rename" /\ pc'[p] \in {"mark", "verify"} =>
         /\ IdentityAt(lock) = identity[p]
         /\ mine[creator[lock]] # lock
         /\ Record # 0 => ~ Running(creator[lock]) /\ SameHost(p, creator[lock])]_vars

\* A late reclaimer never moves a replacement owner's lock: what a reclaim
\* renames is the lock it judged, or the lock of a process that is gone too.
ReplacementNeverMoved ==
  [][\A p \in Process :
       pc[p] = "rename" /\ pc'[p] \in {"mark", "verify"} =>
         IdentityAt(lock) = identity[p] \/ mine[creator[lock]] # lock]_vars

\* Whom a waiter takes the lock to belong to.
Owner(n) == IF owner[n] = 0 THEN creator[n] ELSE creator[owner[n]]

\* Nobody is going to release it: its owner is gone, or could not record itself.
Abandoned(n) == ~ Running(Owner(n)) \/ (owner[n] = 0 /\ mine[creator[n]] # n)

\* A lock left behind by a process that was killed, or that failed to write its
\* record, does not stay: while some process of that machine keeps asking, one
\* of them takes it away.
AbandonedLockIsFreed ==
  \A n \in Lock :
    (lock = n /\ Abandoned(n))
      ~> (lock # n \/ \A q \in Process : SameHost(q, Owner(n)) => ~ Running(q))

(***************************************************************************)
(* The lock this implements for whoever runs under it.                     *)
(***************************************************************************)
Contract == INSTANCE ExclusiveLock WITH
  holder <- IF Record = 0 THEN {} ELSE {creator[Record]},
  inside <- {p \in Process : pc[p] = "held"},
  gone <- {p \in Process : life[p] = "gone"}

\* A process is let in only when the lock is recorded for nobody, stays recorded for
\* it until it releases, and loses the lock only when it is gone.
KeepsContract == Contract!Spec

=============================================================================
