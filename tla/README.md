# Lorepack, specified

TLA+ modules that model the parts of Lorepack whose correctness depends on the order of steps of
several processes, the TLC configurations that check them on small instances, and TLAPS proofs of
what matters most. Paths are relative to the root of the repository.

    tlasany M.tla                    parse a module
    tlc -config X.cfg M              check a run (section 3 names the module of each)
    tlapm ProjectLock_proofs.tla     check proofs; likewise LocalStore_proofs, Watcher_proofs,
                                     DevSession_proofs, RemoteTarget_proofs,
                                     RemoteRetention_proofs, BuildRegistry and ExclusiveLock

## 1. The system

Lorepack compiles a directory of documents into immutable *builds*: a SQLite catalog, a manifest,
reports, and content-addressed objects. A build's id is derived from its content. Everything lives
under `.lore/` of a project. Any number of processes work on one project at once: command lines
(`build`, `import`, `activate`, `rollback`, `prune`), a long-lived server (`serve`, `mcp`, Studio),
a development session (`dev`), and readers. There is no daemon: they meet only through files, one
SQLite database and two lock directories. Any of them can be killed between any two system calls.

A build can also be deployed: its rows go into a D1 catalog and its objects into an R2 bucket on
Cloudflare, from which Workers answer. Several machines may deploy to one target. They share no lock
and no clock, and a request may take effect although its answer is lost.

### Inventory

| Component | State | Operations | Meets others through |
| --- | --- | --- | --- |
| Project lock (`backend-local/src/lock.ts`, `process-start.ts`) | `.lore/lock/owner.json`, tombstones beside it, `reclaimed-at` markers; per wait: token, probed starts | `acquire`, `#staleIdentity`, `#reclaim`, `#sweepTombstones`, `release` | mkdir and rename on one path; pids of the machine |
| Builds and objects (`atomic.ts`, `object-store.ts`, `state-store.ts`) | `builds/<id>/`, `tmp/<id>/`, `objects/`; `builds`, `active_build`, `activation_events` tables | put, seal, `recordBuild`, `activate`, `previousActivation`, `forgetBuilds` | every command of the project |
| Build pipeline (`cli/src/services/build.ts`) | the build in progress | `runBuild`: reuse, clear, compile, seal, record, activate | project lock; store |
| Retention and prune (`retention.ts`, `commands/prune.ts`) | the plan shown, the plan reconciled | preview, lock, reconcile, forget, remove | project lock, then read lock; store; registrations |
| Activation (`commands/activate.ts`, `studio-mutations.ts`, `builds.ts`) | Studio: the build that was live when a plan was rendered | activate, rollback, Studio plan, check and move | project lock; store |
| Read registrations (`read_references.ts`) | one file per read under `readers/` | register, remove, sweep of dead ones | read lock; prune |
| Archive import (`importing.ts`) | a staged directory | install, record | project lock; store |
| Watcher (`watch.ts`, `background_build.ts`, `build_worker.ts`) | signature, freshness, last built contents, debounce timer, chain of work | sweep, settle, reestablish, rebuild, freshness, close | file system events; project lock; the pointer |
| Shared catalogs (`runtime-backend.ts`, `state-store.ts`) | counted open catalogs of one process, registrations it still has to remove | acquire, release, `closeAll` | callers of one process; read lock |
| Development session (`commands/dev.ts`, `serving.ts`, `dev-session.ts`) | whether it accepts requests; `.lore/dev.json` | start, envelope of an answer, ordered stop | the two above; prunes and moves by others |
| Remote target (`deploy-cloudflare/src`, `cli/src/services/deploy.ts`, `commands/prune.ts`) | D1: builds, pointer, activation events, mutation guard, retention claims, read owners; R2: archives, objects; on each machine deploy and prune receipts | deploy, resume, verify, activate, roll back, prune, resume, read | SQL statements and R2 requests, each atomic, that may land late or without an answer |
| Parser isolation (`parsers/src/isolation.ts`) | a child process with a deadline | run, time out, kill | messages of the child |
| Compiler, runtime, HTTP, MCP, SDK, Studio pages | none that outlives a call | pure functions over documents and one acquired read | - |

### What is hard, and what makes each part correct

*Project lock.* Mutual exclusion has to survive a holder that was killed, so a waiter must be able
to take a lock away; it decides from a record it read some steps ago, and renames a path that may by
then name another lock. Correct means: one holder at a time; a reclaim moves only the lock it judged,
left by a dead process of the same machine, or one that could not record itself; such a lock is taken
in the end. Writing the record, writing a marker and reading a record can each fail on their own.

*Store.* Every operation is several durable effects, and a kill can fall between any two. Correct
means: a recorded build can be opened and has all its objects; the pointer names a recorded build and
agrees with the activation history that rollback reads; damage can be repaired by compiling again.

*Prune.* The plan a person confirms is computed without a lock. Correct means: what is removed was
shown, is not live and not read by the time it is removed, and no object goes that anything remaining
refers to, whether or not that has a record.

*Reads.* A read chooses a build, then registers, then closes before unregistering. Correct means: a
build that is chosen is not removed until its catalog is closed.

*Two locks.* Prune takes the read lock inside the project lock. Correct means: whoever has the
project lock lets go of it.

*Watcher.* Events are lost or come late, sources change while they are read and while a build of them
runs, and other processes, or the session's own Studio, move the pointer without telling. Correct
means: a session at rest that says *clean* is right, which holds unless a move overtook the record of
that answer (finding 5); it finds the right answer without any event; it does not build over a
rollback while nobody edits; closing it drains its work.

*Shared catalogs.* Reads of one build share one catalog, and registering, opening and removing can
each fail. Correct means: a catalog is open exactly as long as a read holds it, it never loses its
build to a prune, and a stopped session leaves nothing behind but registrations that could not be
removed twice.

*Session.* The answer and the freshness printed with it come from different moments. Correct means:
an envelope that says *clean* says it of the build it names, which holds unless another process moved
the pointer in between.

*Remote target.* There is no transaction over D1 and R2, the guard has no expiry, and nobody knows
whether a write without an answer will still land. Correct means: what may go live or be read is
whole, rows and objects; one machine writes at a time under the guard; a receipt never claims more
than happened; a pointer moves only from where the caller read it; a cleanup neither takes what a
read, a deployment or an activation needs nor leaves its claims behind.

## 2. The modules

| Module | What it is |
| --- | --- |
| `ProjectLock` | `lock.ts` and `process-start.ts`: processes, pids, directories, tombstones |
| `ProjectLockInv` | the inductive invariant `IInv` of `ProjectLock` in a quiet environment |
| `ExclusiveLock` | what a lock promises whoever runs under it, without files, pids or tombstones |
| `LocalStore` | `.lore/` and the operations that change it |
| `BuildRegistry` | what a place that keeps builds promises, without files, locks, requests or crashes |
| `RemoteTarget` | the Cloudflare target, the machines that change it and the Workers that read it |
| `Watcher` | the watcher of a session, its builds, and what others do to sources and pointer |
| `ReadHandles` | the reads of one process and a prune by another |
| `DevSession` | `Watcher` and `ReadHandles` in one process, with the stop sequence |
| `*_proofs` | lemmas and theorems about the module before the underscore; `RemoteRetention_proofs` goes on from `RemoteTarget_proofs` |
| `MC*` | instances for TLC |

How they fit together:

* `ExclusiveLock` is the contract between the lock and its users, and both sides are shown to keep it.
  `ProjectLock` implements it (`KeepsContract`): the holder is whom `owner.json` names. `LocalStore`
  takes the two locks as one variable each, and uses each as the contract says
  (`UsesLocksAsPromised`): free before it is taken, given back on every way out, taken away only from
  whoever is gone. That it is given back, and freed of the dead, are `ProjectLockIsFreed` and
  `AbandonedLockIsFreed`.
* `LocalStore` and `RemoteTarget` both implement `BuildRegistry`. The store's mapping is `retained
  <- Usable` (recorded builds that open and have their objects) and `pinned <- Pinned` (what a
  process has chosen and not yet closed); the target's is `retained <- remote.verified \
  remote.claims` and `pinned <- reads`. One abstract promise covers both: only what is retained goes
  live, one generation per move, and nothing is retired while it is live or read. What follows from it
  is proved there once (`LiveAndReadServe`: the live build and whatever is read is retained) and holds
  in both for what it means in each.
* `DevSession` extends `Watcher` and instantiates `ReadHandles`; they share the pointer and the set of
  builds. It adds what the composition changes: the one thread of the process (`Turn`, `Reading`), the
  project lock between the session's build and a prune, envelopes, and the order of stopping. It
  implements `Watcher` (`WatchesAsItsWatcher`): what `Watcher` lets the environment do, `MoveElsewhere`
  and `PruneElsewhere`, includes what the rest of the session and the commands of others really do.

### ProjectLock

A *process* is one run of one program: it is spawned at most once and never comes back, so it stands
for the pair (pid, start time) that `owner.json` records, and `PidOf` may give several processes the
same pid. A *lock directory* is known by its number, the order of its creation, which stands for its
inode and for the token of its creator, both unique. A tombstone name is derived from what a waiter
judged (`lock.ts:259-263`): `<<"token", n>>` for a readable record, `<<"inode", n>>` for a directory
without one.

| Code | Action |
| --- | --- |
| `mkdirSync(path)`, EEXIST | `MakeDirectory`, `LockExists` |
| `writeFileSync(owner.json)`, then `#sweepTombstones` | `WriteOwner` with `Sweep`; ENOENT: `WriteFails`; no space or descriptor left: `WriteRefused` |
| `#readOwner`, of a record that may not be readable | `ReadRecord` in `Observe`, `Release` and `FoundAt` |
| `#ownerIsGone`, memoised start | `JudgeRecord` with `Probe`, `Alive` |
| no readable record, `mtime` older than `staleAfterMs` | `JudgeUnreadable` with `Age` |
| `renameSync(path, tombstone)` | `Rename`, `RenameFails` (POSIX: only onto nothing or an empty directory) |
| marker, whose write may fail; `#identityAt`; `renameSync` back | `WriteMarkers` in `Rename`, `Mark` and `Sweep`; `Verify` with `FoundAt`; `PutBack` |
| poll, deadline | `Retry`, `GiveUp` |
| `release()` | `Release` |
| normal exit or kill at any step | `Exit` |

Each action is at most one file-system effect that other processes can see, with two groupings.
`WriteOwner` includes the sweep that follows it, whose own expiry is a nondeterministic choice. The
marker of a tombstone is written in the step of the rename if the lock had no record, unless the
fault `splitMark` is allowed; the tombstone of a lock with a record is not empty, so its marker may
come later. A marker that cannot be written is passed over (`lock.ts:295`): in a directory with a
record that may always happen, in one without only with the fault `markerRefused`. Where a write is
refused, no file is left; one that is left truncated makes its directory non-empty, which is the
easier case.

### LocalStore

`builds/<id>` is the set of its parts still there (`"dir"`, catalog, manifest, reports), so a removal
that is interrupted leaves any subset. An object is present or not. `recorded` and `newer` are the
`builds` table and the order in which retention reads it. One action is one durable effect.

| Code | Actions |
| --- | --- |
| `runBuild` | `BeginBuild`, `PutObject`, `Reuse`, `Identify`, `Clear`, `WriteCandidate`, `Seal`, `SealRefused`, `Record`, `FinishBuild`, `BuildFails` |
| `importArchive` | `BeginImport`, `PutObject`, `InstallImport`, `Record` |
| `switchTo`, `activate`, `rollback` | `Switch`, `Activate`, `Rollback` |
| Studio's plan, check, locked move | `StudioPlan`, `StudioCheck`, `StudioMove` |
| `prune` | `Preview`, `LockForPrune`, `Reconcile`, `RemoveDirectory`, `RemoveObject`, `FinishPrune`, `GiveUp` |
| `LocalActiveBuildProvider.acquire`, `release` | `BeginRead`, `Select`, `Register`, `CloseCatalog`, `Unregister` |
| kill, loss of files from outside | `Crash`, `Damage` |

`Switch` is one action because choosing, checking and moving happen under one hold of the lock and
make one durable change; Studio's is three because its check comes before the lock.

### RemoteTarget

`remote` is the catalog and the bucket: what of each build is there (`Parts`), the verified builds,
the pointer with its generation and the build before, the guard, the claims, archives and objects.
Everything else belongs to a machine, and what survives its command is only its two receipts: that
of its last deployment, and that of a cleanup which is not finished (a finished one is only reported
again). The model keeps no older ones, so nobody resumes a deployment before the last. One action is
one request; each request is one SQL statement or one R2 operation, and `Landed` says what it does
when it arrives. Which verified builds are the newest, and so kept by a prune, is decided by time
stamps of unrelated clocks; `Keeps` takes any. Requests make a lost answer expressible: `LoseAnswer`
and `Kill` may put the request in `late`, from where it lands at any later time or never.

| Code | Actions |
| --- | --- |
| `acquireRemoteMutationGuard` and its release | `Acquire`, `Refused`, `FreeGuard`; by hand: `OperatorFreesGuard` |
| `deploy`, `--resume` | `Deploy`, `ResumeDeploy` |
| apply: what is there, then `project-*.ts` stage by stage | `Inspect`, `Project`, `Skip` |
| verify | `Smoke`, `Mark` |
| activate: pointer read, compare-and-set, time stamp | `ReadPointer`, `MoveTo` with `Moves`, `Stamp` |
| `rollbackProjectedBuild` with and without a build id | `RollbackTo`, `RollbackToPrevious` |
| `planRemoteRetention`, `pruneRemote`, `resumeRemotePrune` | `Prune` with `Keeps`, `Preview`; `ResumePrune` |
| `applyOwnedRemoteRetentionPlan` | `Claim`, `Narrow`, `DeleteRows`, `RowsGone`, `Recheck`, `DeleteKeys`, `KeysGone`, `Unclaim`, `Unclaimed` |
| what an error leaves in a receipt | `SaveError` in `Refused`, `FreeGuard`, `LoseAnswer` |
| a read that fails | `FailRead`: it wrote nothing, so the guard is freed |
| a Worker's read | `StartRead`, `EndRead`; `EndRead` is also what the expiry of its row amounts to |

### Watcher

A build is known by the contents it was made from, so whether the sources are what the active build
holds is one comparison. `disk.stamp` stands for sizes and modification times. An edit may leave it as
it was, and its event may be lost, but not both (that is the fault `unseenEdit`). Sources that cannot
be read all have the stamp `Unscannable`, as in `watch.ts:514`.

The pointer is moved by others at any moment except while the session's build holds the project lock
(step `activate`). In particular it may move between the comparison and `watch.ts:274`, which reads it
again to say which build the answer is about, and between the end of the session's build in its worker
(`build.ts:756-759` releases the lock) and the record at `watch.ts:378`, for which the main thread
first has to hear of the worker's exit (`background_build.ts:93`). Two history variables, which no
action reads, say when that happened: `against` is the build a comparison was made with, and
`overtaken` that the present answer is recorded for another build than the one it was found for.

| Code | Actions |
| --- | --- |
| chokidar's `ready`, an event and its debounce, `error` | `Ready`, `Edit` then `Debounced`, `WatcherError` |
| the interval sweep | `Sweep` |
| the promise chain | `chain`, `Start` |
| `settle`: hold still, hash, compare, record, build | `Stable`, `Observe`, `Compare`, `Decide`; `CheckFails` |
| `reestablish` | the same from `Observe` on, without building |
| the build in its worker, its report, its failure or abort | `BuildReads`, `BuildActivates`, `Report`, `BuildFails` |
| `freshness()` | `Answer`, `Ask` |
| `close()` | `Close` |
| `activate`, `rollback`, `prune` of another process, a move by the session's own Studio | `MoveElsewhere`, `PruneElsewhere` |

### ReadHandles and DevSession

| Code | Actions |
| --- | --- |
| `acquire` under the read lock | `AcquireLock`, `Register`, `AcquireFails` |
| the envelope of a response; of a read that named its build, after a look at whether that is active | `FindActive`, `Envelope` |
| `release()`, then the registration | `Release`, `Unregister`, `UnregisterFails` |
| `closeAll()`, which stops at the first registration it cannot remove | `CloseBackend` |
| a prune by another process | `LockForCleanup`, `PlanCleanup` with `Newest`, `RemoveBuild`, `FinishCleanup` |
| stop: watcher, then server, then databases | `Close`, `StopAccepting`, `Stop` |

Reads and watcher run in one thread: code between two awaits is one step, which is why `Register`
does several things and why nothing of the session comes between `Compare` and what `Decide` records.
Other processes are not bound by it: `OtherMoves` may come anywhere outside the project lock. The
history variable `crossed` holds the reads that have their build and no envelope yet while that
happened. `CloseBackend` removes any subset of the registrations that are left, as a removal that throws
ends the loop and nobody tries again; what stays names a process that will be gone, and the next prune
removes it (`read_references.ts:97-99`). That SQLite closes a handle is taken for granted.

### Faults that a run may exclude

Each specification has a constant `Faults` naming schedules the code does not exclude and that decide
what it promises. A run or a theorem says which it allows.

| Fault | Schedule |
| --- | --- |
| `recycled` (lock) | a pid changes hands while a waiter still holds the start it probed for it |
| `probeWindow` (lock) | an owner releases and exits between a waiter's read of its record and `kill(pid, 0)` |
| `splitMark` (lock) | another process runs, or the process is killed, between the rename of a lock without a record onto a tombstone and its marker |
| `longPause` (lock) | a process is suspended past `staleAfterMs` or the one-hour tombstone retention |
| `recordRefused` (lock) | `owner.json` cannot be written and the process goes on, which leaves a directory without a record. The promises do not depend on it: the theorems include it. `LockLive` allows it, `LockSafe` leaves it out for size |
| `markerRefused` (lock) | nor can the marker of a lock without a record that was moved aside, so that its tombstone stays empty |
| `failedRead` (lock) | a record that is there cannot be read, for want of a descriptor or by an I/O error, and counts as none (`lock.ts:187`) |
| `flicker` (watcher) | sources become unreadable, readable and unreadable again between two sweeps; both times have the same stamp (`watch.ts:514`) |
| `unseenEdit` (watcher) | an edit leaves sizes and modification times as they were (`watch.ts:495`), and its event is lost too |
| `unfinishedRollback` (remote) | a rollback names a build whose projection was not verified (finding 4) |
| `lateStamp` (remote) | the statement that records when a build went live (`target.ts:1007`), sent under no guard, lands after that build was removed and written anew: a lost answer, or just a slow one |
| `sharedCandidate` (remote) | two machines deploy the same build, so that a receipt of one can be about a projection that was since removed and begun again by the other |

`LocalStore` has `MaxDamage` instead: how often something outside Lorepack removes files.

Operators whose comment starts with "Wrong on purpose" are not part of any specification: each is the
definition that follows it with one plausible mistake in it, and `PROJECT.json` says which property
TLC must then find violated. They show that the properties depend on the code.

## 3. The runs

| Run | Instance | Shows |
| --- | --- | --- |
| `LockSafe` | four processes, p1 and p2 under one pid, one on another machine; three lock directories; no fault; probes may fail | `TypeOK`, `MutualExclusion`, `IInv`, `OnlyAbandonedLocksMoved`, and `ExclusiveLock` as `KeepsContract` |
| `LockProbeWindow` | three processes, fault `probeWindow` | `ReplacementNeverMoved` is violated (finding 1) |
| `LockLive` | three processes, faults `probeWindow`, `splitMark` and `recordRefused`, fair | `AbandonedLockIsFreed` |
| `StoreSafe` | server, two command lines, two builds that share an object, three activations | `RecordedBuildsOpen`, `ObjectsOutliveCatalogs`, `PointerAgreesWithHistory`, `OnlyShownIsRemoved`, `LiveAndReadBuildsServe`, `BuildRegistry` as `RegistrySpec`, `ExclusiveLock` twice as `UsesLocksAsPromised` |
| `StoreDamaged` | server, one command line, two activations, one loss of files, fair | `TypeOK`, `DamagedBuildIsReplaced`, `PointerAgreesWithHistory`, `ObjectsOutliveCatalogs`, `OnlyShownIsRemoved`, `ProjectLockIsFreed` |
| `StoreInterrupted` | as `StoreSafe` | `ExistingBuildIsCorrect` is violated (finding 2) |
| `RemoteSafe` | a laptop that deploys two builds sharing an object, a machine that prunes and rolls back, a Worker; three moves of the pointer; one kill, lost answer or failed read | `TypeOK`, `RetainedBuildsAreWhole`, `OneRemoteWriter`, `ReceiptsTellTheTruth`, `ServedBuildIsWhole`, and `BuildRegistry` as `ServesWholeBuilds` |
| `RemoteStranded` | a cleanup that is stopped and resumed | `ClaimsEndWithCleanup` is violated (finding 3) |
| `RemoteRollback` | a deployment that is killed, a rollback by id; fault `unfinishedRollback` | `ServedBuildIsWhole` is violated (finding 4) |
| `WatchLive` | two contents, two edits, one move and any prunes by others, one failure, fair | `TypeOK`, `QuietCleanUnlessOvertaken`, `RollbackStays`, `Converges`, `ClosingDrains` |
| `WatchOvertaken` | three contents, one edit, one move by others | `QuietCleanIsTrue` is violated (finding 5) |
| `DevSession` | two contents, two requests, one edit, one move, one prune, two registrations that cannot be removed | `SessionTypeOK`, `OpenCatalogsExist`, `CatalogsServeTheirReads`, `StopsCleanly`, `EnvelopeTellsOfItsBuild` |

### Bounds, and why they are enough

* `MaxLocks = 3`: the judged lock, the lock that replaces it, and one more. The known ways to break
  the protocol need a late reclaimer and one replacement; a third directory lets it happen twice, and
  lets `PutBack` meet an empty directory. What is checked with these bounds is proved without them.
* Three processes on one machine: an owner, a late reclaimer and the one that overtakes it. Two share
  a pid, so that a waiter can meet a pid that names someone else. The fourth, elsewhere, can hold a
  lock nobody here may judge.
* Two builds with bodies `{o1, o2}` and `{o2}`: the shared object must outlive one of its builds, the
  other one need not. Two command lines: what one previews, the other can change before it is applied.
  One of them imports. The server reads and serves Studio at different times. In `RemoteSafe` both
  builds have the same object, which a cleanup of one must leave to the other.
* `MaxGeneration`: three activations are two transitions and a return, what rollback needs. It is a
  guard of `PointTo` and `ReadPointer`, so an operation that would go past it waits or ends without
  activating. `StoreDamaged` needs only a build that is live and one that was.
* `KeepPrevious = 0` makes every build that is not live a candidate for removal, which is the case
  with the most to go wrong.
* `MaxDamage = 1`: one loss takes any subset of the parts of one directory. Objects are not lost.
* `MaxTrouble = 1` in `RemoteSafe`: one kill, lost answer or failed read, at any request of any
  command, after which the receipt is resumed, others go on, and a lost write lands at any later time.
  With it the run has 1.0 million states. The proofs have no such bound, nor one on machines.
* `WatchLive`: one content for the start and one for an older build, which a prune can make into
  something new, so that an edit can go back to what is active, to what was built, or to neither; a
  second edit comes while the first is hashed or built. A move by another process is a rollback, an
  activation or a build. `MaxQueue = 1` is one piece of work that waits behind the one that runs. 427
  thousand states. Three contents passed with one edit and two moves at `MaxQueue = 2` (655 thousand
  states) and with two edits and one move at `MaxQueue = 1` (1.1 million); the safety properties also
  with two edits and one move at `MaxQueue = 2` (2.4 million).
* `DevSession`: two requests are one that shares the catalog and one that ends first, or one on the
  old build and one on the new. `MaxRefusals = 2` is what it takes for a registration to stay: its read
  fails to remove it, and so does the end of the session. The watcher's failures are in `WatchLive`;
  here `MaxTrouble = 0` and `MaxQueue = 1`, and 2.4 million states remain (4.3 million passed with
  `MaxQueue = 2`). Its requests are symmetric: they differ in nothing, and only
  invariants and an action property are checked there. `WatchesAsItsWatcher` is not among its
  properties, since it would nearly double the time; TLC found it kept when it was added once, and
  it is proved. No other run uses symmetry, since the processes, machines and builds of an instance
  differ in what they may do.
* `CHECK_DEADLOCK FALSE` throughout: the system may stop, since every process can exit, commands need
  not be given, and the bounds stop it too.

### Fairness

`FairSpec` of `ProjectLock` and `LocalStore` asks for weak fairness of the steps inside an operation
(`Step(p)`), which the operating system's scheduling of a running process gives; a process that is
killed has no enabled step. In `ProjectLock` it also asks that time passes (`Age`) and that processes
that can ask for the lock keep doing so (`BeginAcquire`), without which nobody would be there to take
an abandoned lock. Nothing obliges a process to exit, to be spawned, to give up before its deadline,
to fail or to start an operation of the store.

`FairSpec` of `Watcher` asks that timers fire (`Ready`, `Debounced`, `Sweep`), that the chain and the
worker go on (`Work`), and that somebody asks now and then (`Ask`): the answer is only checked when it
is wanted. Nothing obliges an event to come of an edit, anyone to edit, close or move the pointer, or
anything to fail.

## 4. Findings

1. **The tombstone does not protect a replacement that nobody reclaimed for**
   (`LockProbeWindow`, `lock.ts:257-265`). If the owner releases and exits between the waiter's read
   of its record and the liveness check, no tombstone of that token exists, so the rename moves
   whatever is at the path. The move is detected and undone unless someone takes the path first. With
   a fourth process on the machine TLC also finds `MutualExclusion` violated this way.
2. **An interrupted prune can leave a directory that stops a build** (`StoreInterrupted`,
   `prune.ts:128`). `local-storage.md:51-53` says an existing directory is already correct. A prune
   killed between forgetting a record and finishing `rmSync` leaves a partial one without a record;
   `runBuild` clears damage only of recorded builds. Without a readable catalog the next build of the
   same content fails each time; with only its reports missing it is recorded as sealed.
3. **A resumed cleanup can finish without doing what is left** (`RemoteStranded`,
   `retention.ts:259`). `deployment.md:207` says claims remain until all stages of a cleanup complete,
   and `target.ts:268` tells whoever meets a claim to finish the cleanup. A cleanup that stops after
   the rows of its builds are gone and before its receipt says so claims again when it is resumed, by
   an INSERT that selects from those rows; it gets nothing and reports that it is applied. The R2 keys
   of the plan and the claim stay, no receipt is left to finish, and that build cannot be deployed
   again.
4. **A rollback by id does not ask whether the build was ever complete** (`RemoteRollback`,
   `target.ts:872`). `deployment.md:43` says that nothing is activated that was not verified, and
   exempts rollback because it returns to a build that already served. The rollback only looks for a
   row in `projected_builds`, which a deployment writes first. Killed after that, with its guard freed
   by hand, it leaves a build that a rollback makes live without chunks or objects.
5. **An answer can be recorded for another build than it was found for** (`WatchOvertaken`,
   `watch.ts:274`). `watch.ts:271` says that freshness and the build it describes are written together
   so that they cannot drift apart, and `watch.ts:377` that after a build *clean* is recorded against
   the build that is now active. What is written together was not found together: the comparison is
   with the pointer as `status.ts` read it, the record with the pointer as it is by then. A move in
   between makes the session say *clean* of a build the sources differ from, and since nothing changes
   the sources' metadata afterwards, no sweep corrects it. `staying-current.md:72` promises that clean
   means the build matches the sources. TLC's trace is a move between comparison and record. The window
   after a build of the session is longer: its worker has released the project lock, and whoever waited
   for it, the session's own Studio included (`studio-mutations.ts:113` and `139`), moves the pointer
   before the main thread hears that the worker ended. `QuietCleanUnlessOvertaken` is what remains
   true, and `Converges` makes the same exception.

`longPause` also breaks exclusion, and ADR 0002 says so itself under *Consequences*. So does
`splitMark`, once there are five processes. p1 is killed before it writes its record; p2 and p3 both
judge its directory stale. p2 renames it, and before the marker is there p4 makes a directory of its
own, which p3 renames onto the tombstone: the name is taken, but what it names is empty. p5 makes a
third directory, p3 cannot put the second one back, p4 writes its record by path, into the third, p5
writes its own over it, and both hold. TLC finds this when each process is given its part.
`lock.ts:257-260` says that every later rename fails because the tombstone is not empty, which is so
for a lock with a record, and for one without from the marker on. It is listed as a hazard: it takes
a kill, and two processes within a few statements of a third.

If that marker cannot be written at all (`markerRefused`, beside `recordRefused`), three processes of
one machine, each under its own pid, are enough. p1 cannot write its record; p1, in a second attempt,
and p2 judge the directory stale. p1 renames it, its marker is refused, and p1 takes a new lock, which
p2 renames onto the empty tombstone; p3 takes a third, and p1 and p3 both hold. The comment at
`lock.ts:296`, that an unmarked tombstone only delays its removal, is not so then. With `failedRead`,
TLC finds that a lock held for longer than `staleAfterMs` is taken from its owner, since a record that
cannot be read counts as none. `recycled` breaks exclusion as well: the start of a pid is probed once
per wait (`lock.ts:331` and `227`) and compared with every record read during it, so when the pid is
given to a process that takes the lock during the same wait, the waiter concludes that the live owner
is gone. `threat-model.md:59` says of a reused pid that liveness checks the start time as well. These
need a machine out of descriptors or space, or a pid that comes round within one wait; they are listed
as hazards.

In a session, a read chooses its build when it registers and is told about the sources at
`runtime.ts:399`. If another process moves the pointer to the build a read takes, and back before that,
the envelope names the first build and says *clean* of the second: TLC finds this in eight states when
`EnvelopeTellsOfItsBuild` is asked of the reads in `crossed` too, with two moves.

With `flicker` or `unseenEdit` allowed, TLC finds `QuietCleanUnlessOvertaken` and `Converges` violated,
with `lateStamp` or `sharedCandidate` `RetainedBuildsAreWhole`. They are listed as hazards and not as
findings. No document promises that the first three cannot happen, and their schedules are narrow.
`lateStamp` needs no failure once there are three machines: a rollback to b1 has moved the pointer and
its time stamp is slow, meanwhile the laptop activates b2 again, the third machine prunes b1, the
laptop begins to deploy b1 anew, and the statement marks those first rows verified.

The fourth is wider. A laptop has written a build but not verified it; a cleanup elsewhere removes it;
the second machine deploys it again, is killed among its objects, and its guard is freed by hand. When
the laptop resumes, it meets a projection row, so the answer "expired candidate" (`target.ts:278`) is
not given; its receipt says that the objects are there, so they are not sent; verification reads one
search hit, one source and one table. The build is marked verified without all of its objects.
`docs/adr/0012-remote-read-retention-ownership.md:47-48` refuses a candidate whose metadata
disappeared, and this one's came back. To see it, allow `sharedCandidate` with two machines that deploy
one build of two objects, one of which also prunes, `MaxGeneration = 1` and `MaxTrouble = 1`.

Not findings, but worth knowing. Compiling a damaged live build again without activating it leaves
its row's state at `verified` (`state-store.ts:139`). Every reader of that column treats `verified`
and `active` alike, so `PointerAgreesWithHistory` only asks that no *other* row says `active`. And a
build of the session is never superseded by a later edit: the chain runs one piece of work at a time,
so the branch at `watch.ts:357` is not reached. Nor does a session that is closed keep the build that
runs from activating once it has passed its last look at the signal.

## 5. What is proved

All of it for any number of processes, machines, requests, builds, objects and contents, any value of
the bounds, and kills at any step. What each theorem assumes beyond the constants' own assumptions is
in its row.

| Module | Theorem | Statement | Assumes |
| --- | --- | --- | --- |
| `ProjectLock` | `TypeCorrect` | `[]TypeOK` | |
| | `Inductive`, `Exclusion` | `[]IInv`, `[]MutualExclusion` | `QuietEnvironment` |
| | `SoundReclamation` | `OnlyAbandonedLocksMoved` | `QuietEnvironment` |
| | `ReplacementsNeverMoved` | `ReplacementNeverMoved` | `QuietEnvironment` |
| | `LockKeepsContract` | `KeepsContract` | `QuietEnvironment` |
| `ExclusiveLock` | `OneInside` | `[]Exclusive` | |
| `BuildRegistry` | `LiveAndReadAlwaysServe` | `[]LiveAndReadServe` | |
| `LocalStore` | `TypeCorrect` | `[]TypeOK` | |
| | `PointerAlwaysAgrees` | `[]PointerAgreesWithHistory` | |
| | `ObjectsAlwaysOutliveCatalogs` | `[]ObjectsOutliveCatalogs` | |
| | `DamagedBuildsAreReplaced` | `[]DamagedBuildIsReplaced` | |
| | `PrunesTakeWhatTheyShowed` | `OnlyShownIsRemoved` | |
| | `RecordedBuildsAlwaysOpen` | `[]RecordedBuildsOpen` | `MaxDamage = 0` |
| | `StoreImplementsRegistry` | `RegistrySpec` | `MaxDamage = 0` |
| | `LiveAndReadBuildsAlwaysServe` | `[]LiveAndReadBuildsServe` | `MaxDamage = 0` |
| | `LocksUsedAsPromised` | `UsesLocksAsPromised` | |
| `Watcher` | `TypeCorrect` | `[]TypeOK` | |
| | `RollbacksStay` | `RollbackStays` | |
| | `QuietCleanIsTrueUnlessOvertaken` | `[]QuietCleanUnlessOvertaken` | `Faults = {}` |
| `DevSession` | `SessionTypeCorrect` | `[]SessionTypeOK` | |
| | `OpenCatalogsAlwaysExist` | `[]OpenCatalogsExist` | |
| | `CatalogsAlwaysServe` | `[]CatalogsServeTheirReads` | |
| | `SessionsStopCleanly` | `[]StopsCleanly` | |
| | `EnvelopesTellOfTheirBuild` | `EnvelopeTellsOfItsBuild` | |
| | `SessionImplementsWatcher` | `WatchesAsItsWatcher` | |
| | `SessionsQuietCleanIsTrueUnlessOvertaken` | `[]QuietCleanUnlessOvertaken` of a session | `Faults = {}` |
| | `SessionsLeaveRollbacks` | `RollbackStays` of a session | |
| `RemoteTarget` | `OneRemoteWriterAlways` | `[]OneRemoteWriter` | |
| | `TypeCorrect` | `[]TypeOK` | |
| | `RetainedBuildsAlwaysWhole` | `[]RetainedBuildsAreWhole` | `Faults = {}` |
| | `ReceiptsAlwaysTellTheTruth` | `[]ReceiptsTellTheTruth` | `Faults = {}` |
| | `TargetImplementsRegistry` | `ServesWholeBuilds` | `Faults = {}` |
| | `ServedBuildsAreAlwaysWhole` | `[]ServedBuildIsWhole` | `Faults = {}` |

`Faults = {}` is the assumption that none of the excluded schedules happens; section 4 shows where
it cannot be dropped. `QuietEnvironment` says the same of the lock, but for records that cannot be
written, which may happen: none of the other faults, neither a marker of a lock without a record that
cannot be written nor a read that fails. `MaxDamage = 0` says that nothing outside Lorepack removes
files, without which a record can of course name a build that does not open.

### The arguments

*ProjectLock.* `MutualExclusion` is not inductive: two processes could hold if one were about to
rename the lock of the other. The invariant follows a directory through its life.
`OwnersAreInPlace`: who is writing its record or holds has its directory at the lock path, which
alone gives exclusion, since there is one path. To keep it, every rename must move a directory its
creator has *left*: it is gone, or it failed to write its record and gave up. A waiter decides in
one step and renames in another, so `ReclaimsAreSound` says of what it decided that the creator has
left it, is gone if there is a record, and that the directory is *caught*: at the lock path, or
under its own tombstone and nowhere else. In the first case the rename moves what was judged; in the
second `TombstonesAreSound` says the tombstone holds that directory with its record or its marker,
so it is not empty and the rename fails. That is where a marker that cannot be written, or a record
that cannot be read, would break the argument. This is the code's argument for deriving the tombstone's
name from the judged lock, made exact. `PidsAreOwned` supports the judgement: what runs under a pid,
and what was probed for it, are the same process. `DirectoriesAreSound` supports the case without a
record: only a directory that was left without one ages. `ProcessesAreSound` ties tokens to program
counters.

*ExclusiveLock.* Under that invariant a step of the lock is one of its contract or changes neither
who is recorded, who is inside nor who is gone. `WriteOwner` is `Take`: the directory it writes into
is the one it made, so nobody was recorded. `Rename` is `Break`, since a record that is moved names a
process that is gone (`HolderIsCreator`: it is the creator's own); of a directory without a record it
is invisible. `Exit` is `Die`. In the store the
argument is that a step does to a lock only what `LockStep` lists (`LocksMove`), and that a program
counter is in `Locking` only while its process has the lock, which `LocksAreHeld` already says.

*LocalStore.* That objects outlive catalogs depends on who is in the middle of what, so `StoreInv`
says of each program counter what its process can rely on. `LocksAreHeld`: which steps run under which
lock, so that at most one process compiles, moves the pointer or removes. `CompilersHaveObjects`: a
process about to write a candidate has all its objects on disk, which holds because a prune that could
take them would need the lock it has. `RemovalsAreSafe`: what is left of a prune's plan is without a
record, not live, not referred to by any directory that stays, and contained in what was shown.
`ReadsAreRegistered`: a read that has chosen a build holds the read lock or has its registration on
disk, so reconciliation, which holds that lock, sees it. `RepairsAreClear`: what is in the way of a
build with a record was cleared before it is sealed. All of this holds whatever is damaged. Without
damage, `Intact` adds that what is recorded, and what is about to be, opens with all its objects; then
`Usable` is the set of recorded builds and each step is one of `BuildRegistry` or a stutter. That the
live build and those being read are whole follows from the registry's own theorem, with no new
induction over the store; likewise for the remote target.

*Watcher.* `QuietCleanUnlessOvertaken` speaks of a session at rest, and the argument is about how it
got there. `SignaturesAreSound`: the stamp a sweep compares with is one the sources have or had.
`LooksAreSound`: as long as it is the present one and no work is queued, what the running work read
is what the sources hold; an edit changes the stamp, is heard of, or comes before the read. And what
it made of it, it made of the build in `against`. `AnswersAreSound`: therefore a recorded *clean* is
about contents that are still there and, unless it was overtaken, about the build it is recorded
for; and since the pointer is read again when an answer is given, about the active build.
`RollbacksStay` has a simpler one: while nobody edits, the sources hold what the session built
first, so nothing it finds is new to it (`Unedited`).

*DevSession.* `HandlesAreRegistered`: a read has its registration on disk from before it gets a
handle until after it gives it back. `RemovalIsExclusive`: a prune removes inside both locks, and a
build of the session activates inside one of them, so what a prune decided to remove stays neither
active nor registered. `CountsAreExact` is a count over a finite set of requests that changes by
one. `EnvelopesAreSound`: a read that did not name its build has the active one until its envelope,
or is in `crossed`, or the session's own build has just moved the pointer and the session does not
say *clean* until it has heard of that. That the session implements its watcher needs one fact more:
while a prune removes the rest, the newest `KeepPrevious` are there (`NewestAreKept`), so that each
removal is one `PruneElsewhere` allows; that it comes neither at the active build nor during an
activation is `RemovalIsExclusive`. What was proved of the watcher alone then holds in the session,
for any reads and prunes.

*RemoteTarget.* `OneRemoteWriter` is about writes that were sent as much as about who writes. The
strengthening, `GuardIsSound`, adds that of the writes still under way and under the guard there is at
most one: a machine that lost an answer stops, keeping the guard from everyone else, itself included.
So a release that lands late frees the guard when nothing else is out, and a late INSERT finds it
taken or free. `CommandsAreSound` says which writes belong to which point of a command.

That what is retained is whole is an argument about each write when it lands, which may be long after
it was sent. `Harmless` says what has to be true then: rows are only deleted of claimed builds, keys
only if no projected build needs them, a verification only marks what is written in full, and a
projection starts over only a build of which no receipt says anything (`Unsaid`). A harmless write
keeps `StoreIsSound`: what is live or read is retained, and what is retained has all its parts. A
request is harmless when it is sent, by what the machine knows at that point (`DeployIsSound`,
`CleanupIsSound`). It is still harmless when it lands late (`LateAreSound`), because until then its
machine has stopped and nobody can take the guard, so the only other writes are a pointer move and a
time stamp that changes nothing. Receipts are the reason why candidates may not be shared: the
`metadata` stage of one machine would belie what the other's receipt says. The refinement follows
from the same facts: `mark` publishes, `claim` retires what is neither live nor read, and the UPDATE
of the pointer, which asks for a verified row without a claim, points at something retained.

Each conjunct of an invariant is proved step by step, one action at a time. The runs of section 3
check the properties before the proofs; for `ProjectLock`, `LockSafe` checks the invariant itself.

## 6. What is only model-checked

* Liveness (`AbandonedLockIsFreed`, `ProjectLockIsFreed`, `Converges`, `ClosingDrains`): liveness
  under fairness and `ENABLED` are out of reach of the proof system version used. So is induction over
  data; no module uses a recursive operator.
* That a lock is given back and freed of the dead, which the contract, a safety property, does not
  say. The contract itself, as far as `LocalStore` and `DevSession` rely on it, is proved under
  `QuietEnvironment`.
* The violations of section 4 are found by TLC on instances; nothing is proved of them.

## 7. What comes next

1. Orphan tables and migrations of the catalog, and setting up a target (`cli/commands/target.ts`),
   whose steps also survive a crash by looking at what is there.
2. The lockfile of `runBuild`; what a session and a prune of the same project promise together when the
   store's steps, and not only its effects, are in the session.
3. Parser isolation, if there is something to say that a test cannot.

## 8. What is not modelled, and why

* In the lock: the Windows retry of `mkdir`, which is platform-specific. A read of a half-written
  record counts as unreadable, which `Observe` before `WriteOwner` covers; one that fails for another
  reason is the fault `failedRead`. A failed listing or removal in a sweep only leaves a tombstone.
* In the store: discovery, parsing and indexing are one step, because only their durable effects and
  their failure matter to the others; identity rows and migrations run once; the lockfile is a copy
  that no operation reads back.
* In the session: the counters and texts of `status()`, how long files must hold still, ports, the
  receipt `.lore/dev.json` and the limit of ten seconds on stopping.
* In the remote target: creating and migrating it, tables that lost their build, capability checks,
  the smoke check of the deployed endpoint, Worker authentication, and how rows are batched into
  statements (a stage of rows is one request). A read whose row expires just stops protecting its
  build; that it then discards its result is a check of its own DELETE.
* Parser isolation: a child per document, of which nothing outlives the call.
* The compiler, the runtime's queries, HTTP, MCP, SDK and Studio pages are functions of a request and
  one build. They keep nothing between calls that could be reordered.
* Most of the repository's lines are of that last kind, or test support, acceptance scripts and
  release tooling. The modules cover the parts where several processes, threads or machines meet
  durable state; they stand for a small share of the lines and for most of what can go wrong between
  steps.
* Generated code, fixtures, examples and assets.
