---------------------------- MODULE ProjectLockInv ----------------------------
(***************************************************************************)
(* Why the project lock excludes: an inductive invariant of ProjectLock    *)
(* in a quiet environment.  MutualExclusion and OnlyAbandonedLocksMoved     *)
(* follow from it; neither is inductive alone, because a reclaim decides   *)
(* in one step and renames in another.                                     *)
(***************************************************************************)
EXTENDS ProjectLock

\* None of the schedules happens that the promises of the lock depend on.
QuietEnvironment == Faults \subseteq {"recordRefused"}

Gone(n) == life[creator[n]] = "gone"

\* Nobody writes or holds it any more: its creator is gone or gave it up.
Left(n) == mine[creator[n]] # n

\* A pid names one process at a time, and what a waiter has probed is still
\* what runs under that pid, if anything does.
PidsAreOwned ==
  /\ \A p, q \in Process :
       Running(p) /\ Running(q) /\ SameHost(p, q) /\ PidOf[p] = PidOf[q] => p = q
  /\ \A p, q \in Process :
       /\ Running(q) /\ SameHost(p, q)
       /\ starts[p][PidOf[q]] \notin {"unasked", "unknown"}
       => starts[p][PidOf[q]] = q

\* Only running processes are inside acquire() or hold, no rename is put back,
\* and a directory belongs to who created it.
ProcessesAreSound ==
  \A p \in Process :
    /\ pc[p] # "idle" => Running(p)
    /\ pc[p] # "putback"
    /\ mine[p] # 0 => pc[p] \in {"write", "held"} /\ creator[mine[p]] = p

\* Who is writing its record, or holds, has its directory at the lock path.
OwnersAreInPlace ==
  \A p \in Process :
    /\ pc[p] = "write" => mine[p] # 0 /\ lock = mine[p] /\ owner[lock] = 0
    /\ pc[p] = "held" => mine[p] # 0 /\ lock = mine[p] /\ owner[lock] = lock

\* A directory records its own token or none, and only one that was left without a
\* record ages.
DirectoriesAreSound ==
  \A n \in Lock :
    /\ owner[n] \in {0, n}
    /\ n > created => owner[n] = 0
    /\ n <= created => life[creator[n]] # "unborn"
    /\ n \in aged => owner[n] = 0 /\ Left(n)

\* A tombstone holds the directory it is named for, which was left by its process
\* and is not empty; so no later rename onto that name succeeds.
TombstonesAreSound ==
  \A i \in Identity :
    tombstone[i] # 0 =>
      /\ tombstone[i] = i[2]
      /\ Left(i[2]) /\ (i[1] = "inode" => i[2] \in marked)
      /\ owner[i[2]] = IF i[1] = "token" THEN i[2] ELSE 0

\* The directory a waiter has read, judged or moved: once its creator is gone
\* or gave it up it is at the lock path or under its own tombstone, and nowhere else.
Caught(i) == lock = i[2] \/ tombstone[i] = i[2]

Judged(i) ==
  /\ i \in Identity
  /\ i[2] <= created
  /\ Left(i[2])
  /\ owner[i[2]] = IF i[1] = "token" THEN i[2] ELSE 0

ReclaimIsSound(p) ==
  /\ pc[p] = "judge" /\ seen[p] # 0 =>
       /\ owner[seen[p]] = seen[p]
       /\ Gone(seen[p]) => Caught(<<"token", seen[p]>>)
  /\ pc[p] = "rename" =>
       /\ Judged(identity[p])
       /\ Caught(identity[p])
       /\ identity[p][1] = "token" =>
            Gone(identity[p][2]) /\ SameHost(p, creator[identity[p][2]])
  /\ pc[p] \in {"mark", "verify"} =>
       identity[p] \in Identity /\ tombstone[identity[p]] = identity[p][2]

ReclaimsAreSound == \A p \in Process : ReclaimIsSound(p)

IInv ==
  /\ TypeOK
  /\ PidsAreOwned
  /\ ProcessesAreSound
  /\ OwnersAreInPlace
  /\ DirectoriesAreSound
  /\ TombstonesAreSound
  /\ ReclaimsAreSound

=============================================================================
