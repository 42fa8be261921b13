-------------------------- MODULE LocalStore_proofs --------------------------
(***************************************************************************)
(* Proofs about LocalStore: its types, its pointer, its objects and what a *)
(* prune removes, whatever happens to the files of a build; and, as long   *)
(* as nothing outside Lorepack removes files, that what is recorded opens  *)
(* and that the store implements BuildRegistry.                            *)
(***************************************************************************)
EXTENDS LocalStore, TLAPS

(* Steps that know which build they are about.                             *)
Naming == {"put", "clear", "candidate", "seal", "record", "activate", "check", "move",
           "register", "reading"}

Named == \A p \in Process : pc[p] \in Naming => target[p] \in Build

Typed == TypeOK /\ Named

(* What a process remembers of its operation.                              *)
MemoryTyped ==
  /\ pc \in [Process -> Steps]
  /\ target \in [Process -> Build \cup {None}]
  /\ importing \subseteq Process
  /\ expect \in [Process -> Build \cup {None}]
  /\ preview \in [Process -> Plan]
  /\ doomed \in [Process -> Plan]

RecordsTyped ==
  /\ recorded \subseteq Build
  /\ newer \subseteq recorded \X recorded
  /\ \A b, c \in recorded : <<b, c>> \in newer <=> b # c /\ <<c, b>> \notin newer
  /\ activeRows \subseteq recorded

PointerTyped ==
  /\ active \in Build \cup {None}
  /\ generation \in 0..MaxGeneration
  /\ lastEvent \in Event \cup {None}

FilesTyped ==
  /\ files \in [Build -> SUBSET Complete]
  /\ \A b \in Build : files[b] # {} => "dir" \in files[b]

RestTyped ==
  /\ life \in [Process -> {"running", "gone"}]
  /\ projectLock \in Process \cup {None}
  /\ readLock \in Process \cup {None}
  /\ objects \subseteq Object
  /\ candidates \subseteq Build
  /\ refs \in [Process -> Build \cup {None}]
  /\ damage \in 0..MaxDamage

LEMMA TypeParts ==
  TypeOK <=> MemoryTyped /\ RecordsTyped /\ PointerTyped /\ FilesTyped /\ RestTyped
BY DEF TypeOK, MemoryTyped, RecordsTyped, PointerTyped, FilesTyped, RestTyped

LEMMA NextTypeParts ==
  MemoryTyped' /\ RecordsTyped' /\ PointerTyped' /\ FilesTyped' /\ RestTyped' => TypeOK'
BY DEF TypeOK, MemoryTyped, RecordsTyped, PointerTyped, FilesTyped, RestTyped

LEMMA PlansAreTyped ==
  ASSUME TypeOK
  PROVE  /\ RetentionPlan \in Plan
         /\ \A shown \in Plan : Reconciled(shown) \in Plan
<1>1. \A b \in Build : Hashes(b) \subseteq Object
  BY ConstantsAssumption DEF Hashes
<1>2. RetentionPlan.builds \subseteq Build /\ RetentionPlan.objects \subseteq Object
  BY <1>1 DEF RetentionPlan, TypeOK
<1>3. RetentionPlan \in Plan
  BY <1>2 DEF RetentionPlan, Plan
<1>4. ASSUME NEW shown \in Plan PROVE Reconciled(shown) \in Plan
  BY <1>2 DEF Reconciled, Plan
<1>5. QED
  BY <1>3, <1>4

\* A process that finishes its operation remembers nothing.
LEMMA FinishIsTyped ==
  ASSUME Typed, NEW p \in Process, Finish(p)
  PROVE  MemoryTyped' /\ Named'
<1>1. NoPlan \in Plan /\ "idle" \in Steps /\ "idle" \notin Naming
  BY DEF NoPlan, Plan, Steps, Naming
<1>2. MemoryTyped'
  BY <1>1 DEF Typed, TypeOK, MemoryTyped, Finish, Forget
<1>3. Named'
  BY <1>1 DEF Typed, TypeOK, Named, Finish, Forget
<1>4. QED
  BY <1>2, <1>3

\* One that goes on has the build it needs.
LEMMA GoingIsTyped ==
  ASSUME Typed, NEW p \in Process, NEW to \in Steps, pc' = [pc EXCEPT ![p] = to], UNCHANGED local,
         to \in Naming => pc[p] \in Naming
  PROVE  MemoryTyped' /\ Named'
BY DEF Typed, TypeOK, MemoryTyped, Named, local

LEMMA BeginningIsTyped ==
  ASSUME Typed, NEW p \in Process, NEW to \in Steps, NEW b \in Build \cup {None},
         pc' = [pc EXCEPT ![p] = to], target' = [target EXCEPT ![p] = b],
         to \in Naming => b \in Build,
         importing' \subseteq Process, expect' \in [Process -> Build \cup {None}],
         UNCHANGED <<preview, doomed>>
  PROVE  MemoryTyped' /\ Named'
BY DEF Typed, TypeOK, MemoryTyped, Named

LEMMA PointingIsTyped ==
  ASSUME Typed, NEW b, PointTo(b)
  PROVE  RecordsTyped' /\ PointerTyped'
<1>1. b \in Build /\ generation' \in 1..MaxGeneration
  BY ConstantsAssumption DEF Typed, TypeOK, PointTo
<1>2. lastEvent' \in Event \cup {None}
  BY <1>1 DEF Typed, TypeOK, PointTo, Event
<1>3. QED
  BY <1>1, <1>2 DEF Typed, TypeOK, PointTo, RecordsTyped, PointerTyped, records

LEMMA RemovingIsTyped ==
  ASSUME Typed, NEW b \in Build, RemoveFileOf(b)
  PROVE  FilesTyped'
BY DEF Typed, TypeOK, RemoveFileOf, FilesTyped

LEMMA InsertingIsTyped ==
  ASSUME Typed, NEW b \in Build, NEW later \in SUBSET recorded, Insert(b, later), b \notin recorded,
         activeRows' \subseteq recorded
  PROVE  RecordsTyped'
BY DEF Typed, TypeOK, Insert, RecordsTyped

LEMMA TypeStep ==
  ASSUME Typed, [Next]_vars
  PROVE  Typed'
<1> USE ConstantsAssumption, TypeParts, NextTypeParts DEF Typed
<1>1. ASSUME NEW p \in Process, NEW b \in Build, BeginBuild(p, b) PROVE Typed'
  <2>1. MemoryTyped' /\ Named'
    BY <1>1, BeginningIsTyped DEF BeginBuild, Begin, Goto, Steps, Naming, Typed, TypeOK
  <2>2. RecordsTyped' /\ PointerTyped'
    BY <1>1 DEF BeginBuild, RecordsTyped, PointerTyped, pointer, records, database
  <2>3. FilesTyped'
    BY <1>1 DEF BeginBuild, FilesTyped, pointer, records, database
  <2>4. RestTyped'
    BY <1>1 DEF BeginBuild, RestTyped, pointer, records, database
  <2>5. QED
    BY <2>1, <2>2, <2>3, <2>4
<1>2. ASSUME NEW p \in Process, NEW b \in Build, BeginImport(p, b) PROVE Typed'
  <2>1. MemoryTyped' /\ Named'
    <3>1. importing' \subseteq Process /\ expect' \in [Process -> Build \cup {None}]
      BY <1>2 DEF BeginImport, TypeOK
    <3>2. QED
      BY <1>2, <3>1, BeginningIsTyped DEF BeginImport, Begin, Goto, Steps, Naming
  <2>2. RecordsTyped' /\ PointerTyped'
    BY <1>2 DEF BeginImport, RecordsTyped, PointerTyped, pointer, records, database, disk
  <2>3. FilesTyped'
    BY <1>2 DEF BeginImport, FilesTyped, pointer, records, database, disk
  <2>4. RestTyped'
    BY <1>2 DEF BeginImport, RestTyped, pointer, records, database, disk
  <2>5. QED
    BY <2>1, <2>2, <2>3, <2>4
<1>3. ASSUME NEW p \in Process, NEW b \in Build, StudioPlan(p, b) PROVE Typed'
  <2>1. MemoryTyped' /\ Named'
    BY <1>3, BeginningIsTyped DEF StudioPlan, Begin, Goto, Steps, Naming, Typed, TypeOK
  <2>2. RecordsTyped' /\ PointerTyped'
    BY <1>3 DEF StudioPlan, RecordsTyped, PointerTyped, locks, pointer, records, database, disk
  <2>3. FilesTyped'
    BY <1>3 DEF StudioPlan, FilesTyped, locks, pointer, records, database, disk
  <2>4. RestTyped'
    BY <1>3 DEF StudioPlan, RestTyped, locks, pointer, records, database, disk
  <2>5. QED
    BY <2>1, <2>2, <2>3, <2>4
<1>4. ASSUME NEW p \in Process, NEW b \in Build \cup {None}, BeginRead(p, b) PROVE Typed'
  <2>1. MemoryTyped' /\ Named'
    <3>1. importing' \subseteq Process /\ expect' \in [Process -> Build \cup {None}]
      BY <1>4 DEF BeginRead, TypeOK
    <3>2. QED
      BY <1>4, <3>1, BeginningIsTyped DEF BeginRead, Begin, Goto, Steps, Naming
  <2>2. RecordsTyped' /\ PointerTyped'
    BY <1>4 DEF BeginRead, RecordsTyped, PointerTyped, pointer, records, database, disk
  <2>3. FilesTyped'
    BY <1>4 DEF BeginRead, FilesTyped, pointer, records, database, disk
  <2>4. RestTyped'
    BY <1>4 DEF BeginRead, RestTyped, pointer, records, database, disk
  <2>5. QED
    BY <2>1, <2>2, <2>3, <2>4
<1>5. ASSUME NEW p \in Process, Activate(p) PROVE Typed'
  <2>1. MemoryTyped' /\ Named'
    BY <1>5 DEF Activate, Switch, MemoryTyped, Named, local
  <2>2. RecordsTyped' /\ PointerTyped'
    BY <1>5, PointingIsTyped DEF Activate, Switch, RecordsTyped, PointerTyped, local, locks, disk
  <2>3. FilesTyped'
    BY <1>5 DEF Activate, Switch, FilesTyped, local, locks, disk
  <2>4. RestTyped'
    BY <1>5 DEF Activate, Switch, RestTyped, local, locks, disk
  <2>5. QED
    BY <2>1, <2>2, <2>3, <2>4
<1>6. ASSUME NEW p \in Process, Rollback(p) PROVE Typed'
  <2>1. MemoryTyped' /\ Named'
    BY <1>6 DEF Rollback, Switch, MemoryTyped, Named, local
  <2>2. RecordsTyped' /\ PointerTyped'
    BY <1>6, PointingIsTyped DEF Rollback, Switch, RecordsTyped, PointerTyped, local, locks, disk
  <2>3. FilesTyped'
    BY <1>6 DEF Rollback, Switch, FilesTyped, local, locks, disk
  <2>4. RestTyped'
    BY <1>6 DEF Rollback, Switch, RestTyped, local, locks, disk
  <2>5. QED
    BY <2>1, <2>2, <2>3, <2>4
<1>7. ASSUME NEW p \in Process, Preview(p) PROVE Typed'
  <2>1. MemoryTyped' /\ Named'
    BY <1>7, PlansAreTyped DEF Preview, Begin, Goto, Steps, Naming, TypeOK, MemoryTyped, Named
  <2>2. RecordsTyped' /\ PointerTyped'
    BY <1>7 DEF Preview, RecordsTyped, PointerTyped, locks, pointer, records, database, disk
  <2>3. FilesTyped'
    BY <1>7 DEF Preview, FilesTyped, locks, pointer, records, database, disk
  <2>4. RestTyped'
    BY <1>7 DEF Preview, RestTyped, locks, pointer, records, database, disk
  <2>5. QED
    BY <2>1, <2>2, <2>3, <2>4
<1>8. ASSUME NEW p \in Process, PutObject(p) PROVE Typed'
  <2>1. MemoryTyped' /\ Named'
    BY <1>8 DEF PutObject, MemoryTyped, Named, local, locks, pointer, records, database
  <2>2. RecordsTyped' /\ PointerTyped'
    BY <1>8 DEF PutObject, RecordsTyped, PointerTyped, local, locks, pointer, records, database
  <2>3. FilesTyped'
    BY <1>8 DEF PutObject, FilesTyped, local, locks, pointer, records, database
  <2>4. RestTyped'
    BY <1>8 DEF PutObject, Named, Naming, TypeOK, RestTyped, local, locks, pointer, records,
       database
  <2>5. QED
    BY <2>1, <2>2, <2>3, <2>4
<1>9. ASSUME NEW p \in Process, Reuse(p) PROVE Typed'
  <2>1. MemoryTyped' /\ Named'
    BY <1>9, FinishIsTyped DEF Reuse
  <2>2. RecordsTyped' /\ PointerTyped'
    BY <1>9, PointingIsTyped DEF Reuse, RecordsTyped, PointerTyped, pointer, records, database,
       disk
  <2>3. FilesTyped'
    BY <1>9 DEF Reuse, FilesTyped, pointer, records, database, disk
  <2>4. RestTyped'
    BY <1>9 DEF Reuse, RestTyped, pointer, records, database, disk
  <2>5. QED
    BY <2>1, <2>2, <2>3, <2>4
<1>10. ASSUME NEW p \in Process, Identify(p) PROVE Typed'
  <2>1. MemoryTyped' /\ Named'
    BY <1>10, GoingIsTyped DEF Identify, HasObjects, Goto, Steps, Naming
  <2>2. RecordsTyped' /\ PointerTyped'
    BY <1>10 DEF Identify, RecordsTyped, PointerTyped, local, locks, pointer, records, database,
       disk
  <2>3. FilesTyped'
    BY <1>10 DEF Identify, FilesTyped, local, locks, pointer, records, database, disk
  <2>4. RestTyped'
    BY <1>10 DEF Identify, RestTyped, local, locks, pointer, records, database, disk
  <2>5. QED
    BY <2>1, <2>2, <2>3, <2>4
<1>11. ASSUME NEW p \in Process, Clear(p) PROVE Typed'
  <2>1. MemoryTyped' /\ Named'
    BY <1>11, GoingIsTyped DEF Clear, Goto, Steps, Naming, MemoryTyped, Named, local
  <2>2. RecordsTyped' /\ PointerTyped'
    BY <1>11 DEF Clear, RecordsTyped, PointerTyped, local, locks, pointer, records, database
  <2>3. FilesTyped'
    BY <1>11, RemovingIsTyped DEF Clear, Named, Naming, FilesTyped
  <2>4. RestTyped'
    BY <1>11 DEF Clear, RestTyped, local, locks, pointer, records, database
  <2>5. QED
    BY <2>1, <2>2, <2>3, <2>4
<1>12. ASSUME NEW p \in Process, WriteCandidate(p) PROVE Typed'
  <2>1. MemoryTyped' /\ Named'
    BY <1>12, GoingIsTyped DEF WriteCandidate, Goto, Steps, Naming
  <2>2. RecordsTyped' /\ PointerTyped'
    BY <1>12 DEF WriteCandidate, RecordsTyped, PointerTyped, local, locks, pointer, records,
       database
  <2>3. FilesTyped'
    BY <1>12 DEF WriteCandidate, FilesTyped, local, locks, pointer, records, database
  <2>4. RestTyped'
    BY <1>12 DEF WriteCandidate, Goto, Named, Naming, RestTyped, local, locks, pointer, records,
       database
  <2>5. QED
    BY <2>1, <2>2, <2>3, <2>4
<1>13. ASSUME NEW p \in Process, Seal(p) PROVE Typed'
  <2>1. MemoryTyped' /\ Named'
    BY <1>13, GoingIsTyped DEF Seal, Goto, Steps, Naming
  <2>2. RecordsTyped' /\ PointerTyped'
    BY <1>13 DEF Seal, RecordsTyped, PointerTyped, local, locks, pointer, records, database
  <2>3. FilesTyped'
    BY <1>13 DEF Seal, Goto, Named, Naming, FilesTyped, Complete
  <2>4. RestTyped'
    BY <1>13 DEF Seal, RestTyped, local, locks, pointer, records, database
  <2>5. QED
    BY <2>1, <2>2, <2>3, <2>4
<1>14. ASSUME NEW p \in Process, SealRefused(p) PROVE Typed'
  <2>1. MemoryTyped' /\ Named'
    BY <1>14, FinishIsTyped DEF SealRefused
  <2>2. RecordsTyped' /\ PointerTyped'
    BY <1>14 DEF SealRefused, RecordsTyped, PointerTyped, pointer, records, database
  <2>3. FilesTyped'
    BY <1>14 DEF SealRefused, FilesTyped, pointer, records, database
  <2>4. RestTyped'
    BY <1>14 DEF SealRefused, RestTyped, pointer, records, database
  <2>5. QED
    BY <2>1, <2>2, <2>3, <2>4
<1>15. ASSUME NEW p \in Process, InstallImport(p) PROVE Typed'
  <2>1. MemoryTyped' /\ Named'
    BY <1>15, GoingIsTyped DEF InstallImport, HasObjects, Goto, Steps, Naming
  <2>2. RecordsTyped' /\ PointerTyped'
    BY <1>15 DEF InstallImport, RecordsTyped, PointerTyped, local, locks, pointer, records,
       database
  <2>3. FilesTyped'
    BY <1>15 DEF InstallImport, HasObjects, Named, Naming, FilesTyped, Complete
  <2>4. RestTyped'
    BY <1>15 DEF InstallImport, RestTyped, local, locks, pointer, records, database
  <2>5. QED
    BY <2>1, <2>2, <2>3, <2>4
<1>16. ASSUME NEW p \in Process, Record(p) PROVE Typed'
  <2>1. pc[p] = "record" /\ target[p] \in Build
    BY <1>16 DEF Record, Named, Naming
  <2>2. RecordsTyped'
    <3>1. CASE target[p] \in recorded
      BY <1>16, <3>1 DEF Record, Recording, RecordsTyped, records
    <3>2. CASE target[p] \notin recorded
      BY <1>16, <2>1, <3>2, InsertingIsTyped DEF Record, Recording, RecordsTyped
    <3>3. QED
      BY <3>1, <3>2
  <2>3. MemoryTyped' /\ Named'
    BY <1>16, FinishIsTyped, GoingIsTyped DEF Record, Recording, Goto, Steps, Naming
  <2>4. PointerTyped' /\ FilesTyped' /\ RestTyped'
    BY <1>16 DEF Record, Recording, PointerTyped, FilesTyped, RestTyped, pointer, disk
  <2>5. QED
    BY <2>2, <2>3, <2>4
<1>17. ASSUME NEW p \in Process, FinishBuild(p) PROVE Typed'
  <2>1. MemoryTyped' /\ Named'
    BY <1>17, FinishIsTyped DEF FinishBuild
  <2>2. RecordsTyped' /\ PointerTyped'
    BY <1>17, PointingIsTyped DEF FinishBuild, RecordsTyped, PointerTyped, pointer, records,
       database, disk
  <2>3. FilesTyped'
    BY <1>17 DEF FinishBuild, FilesTyped, pointer, records, database, disk
  <2>4. RestTyped'
    BY <1>17 DEF FinishBuild, RestTyped, pointer, records, database, disk
  <2>5. QED
    BY <2>1, <2>2, <2>3, <2>4
<1>18. ASSUME NEW p \in Process, StudioCheck(p) PROVE Typed'
  <2>1. MemoryTyped' /\ Named'
    BY <1>18, FinishIsTyped, GoingIsTyped DEF StudioCheck, Goto, Steps, Naming
  <2>2. RecordsTyped' /\ PointerTyped'
    BY <1>18 DEF StudioCheck, RecordsTyped, PointerTyped, local, locks, pointer, records,
       database, disk
  <2>3. FilesTyped'
    BY <1>18 DEF StudioCheck, FilesTyped, local, locks, pointer, records, database, disk
  <2>4. RestTyped'
    BY <1>18 DEF StudioCheck, RestTyped, local, locks, pointer, records, database, disk
  <2>5. QED
    BY <2>1, <2>2, <2>3, <2>4
<1>19. ASSUME NEW p \in Process, StudioMove(p) PROVE Typed'
  <2>1. MemoryTyped' /\ Named'
    BY <1>19, FinishIsTyped DEF StudioMove
  <2>2. RecordsTyped' /\ PointerTyped'
    BY <1>19, PointingIsTyped DEF StudioMove, RecordsTyped, PointerTyped, locks, pointer, records,
       database, disk
  <2>3. FilesTyped'
    BY <1>19 DEF StudioMove, FilesTyped, locks, pointer, records, database, disk
  <2>4. RestTyped'
    BY <1>19 DEF StudioMove, RestTyped, locks, pointer, records, database, disk
  <2>5. QED
    BY <2>1, <2>2, <2>3, <2>4
<1>20. ASSUME NEW p \in Process, LockForPrune(p) PROVE Typed'
  <2>1. MemoryTyped' /\ Named'
    BY <1>20, GoingIsTyped DEF LockForPrune, Goto, Steps, Naming
  <2>2. RecordsTyped' /\ PointerTyped'
    BY <1>20 DEF LockForPrune, RecordsTyped, PointerTyped, local, pointer, records, database, disk
  <2>3. FilesTyped'
    BY <1>20 DEF LockForPrune, FilesTyped, local, pointer, records, database, disk
  <2>4. RestTyped'
    BY <1>20 DEF LockForPrune, RestTyped, local, pointer, records, database, disk
  <2>5. QED
    BY <2>1, <2>2, <2>3, <2>4
<1>21. ASSUME NEW p \in Process, Reconcile(p) PROVE Typed'
  <2>1. Reconciled(preview[p]) \in Plan
    BY <1>21, PlansAreTyped DEF TypeOK
  <2>2. MemoryTyped' /\ Named'
    BY <1>21, <2>1 DEF Reconcile, Goto, Steps, Naming, MemoryTyped, Named
  <2>3. RecordsTyped'
    BY <1>21 DEF Reconcile, RecordsTyped
  <2>4. PointerTyped' /\ FilesTyped'
    BY <1>21 DEF Reconcile, PointerTyped, FilesTyped, pointer
  <2>5. RestTyped'
    BY <1>21 DEF Reconcile, RestTyped
  <2>6. QED
    BY <2>2, <2>3, <2>4, <2>5
<1>22. ASSUME NEW p \in Process, RemoveDirectory(p) PROVE Typed'
  <2>1. MemoryTyped' /\ Named'
    BY <1>22, GoingIsTyped DEF RemoveDirectory, Goto, Steps, Naming, MemoryTyped, Named, local
  <2>2. RecordsTyped' /\ PointerTyped'
    BY <1>22 DEF RemoveDirectory, RecordsTyped, PointerTyped, local, locks, pointer, records,
       database
  <2>3. FilesTyped'
    BY <1>22, RemovingIsTyped DEF RemoveDirectory, FilesTyped, TypeOK, Plan
  <2>4. RestTyped'
    BY <1>22 DEF RemoveDirectory, RestTyped, local, locks, pointer, records, database
  <2>5. QED
    BY <2>1, <2>2, <2>3, <2>4
<1>23. ASSUME NEW p \in Process, RemoveObject(p) PROVE Typed'
  <2>1. MemoryTyped' /\ Named'
    BY <1>23 DEF RemoveObject, MemoryTyped, Named, local, locks, pointer, records, database
  <2>2. RecordsTyped' /\ PointerTyped'
    BY <1>23 DEF RemoveObject, RecordsTyped, PointerTyped, local, locks, pointer, records,
       database
  <2>3. FilesTyped'
    BY <1>23 DEF RemoveObject, FilesTyped, local, locks, pointer, records, database
  <2>4. RestTyped'
    BY <1>23 DEF RemoveObject, RestTyped, local, locks, pointer, records, database
  <2>5. QED
    BY <2>1, <2>2, <2>3, <2>4
<1>24. ASSUME NEW p \in Process, FinishPrune(p) PROVE Typed'
  <2>1. MemoryTyped' /\ Named'
    BY <1>24, FinishIsTyped DEF FinishPrune
  <2>2. RecordsTyped' /\ PointerTyped'
    BY <1>24 DEF FinishPrune, RecordsTyped, PointerTyped, pointer, records, database, disk
  <2>3. FilesTyped'
    BY <1>24 DEF FinishPrune, FilesTyped, pointer, records, database, disk
  <2>4. RestTyped'
    BY <1>24 DEF FinishPrune, RestTyped, pointer, records, database, disk
  <2>5. QED
    BY <2>1, <2>2, <2>3, <2>4
<1>25. ASSUME NEW p \in Process, GiveUp(p) PROVE Typed'
  <2>1. MemoryTyped' /\ Named'
    BY <1>25, FinishIsTyped DEF GiveUp
  <2>2. RecordsTyped' /\ PointerTyped'
    BY <1>25 DEF GiveUp, RecordsTyped, PointerTyped, pointer, records, database, disk
  <2>3. FilesTyped'
    BY <1>25 DEF GiveUp, FilesTyped, pointer, records, database, disk
  <2>4. RestTyped'
    BY <1>25 DEF GiveUp, Free, RestTyped, pointer, records, database, disk
  <2>5. QED
    BY <2>1, <2>2, <2>3, <2>4
<1>26. ASSUME NEW p \in Process, Select(p) PROVE Typed'
  <2>1. MemoryTyped' /\ Named'
    <3>1. CASE Finish(p)
      BY <3>1, FinishIsTyped
    <3>2. CASE ~Finish(p)
      <4> DEFINE b == IF target[p] = None THEN active ELSE target[p]
      <4>1. /\ b \in Build /\ pc' = [pc EXCEPT ![p] = "register"]
            /\ target' = [target EXCEPT ![p] = b]
            /\ UNCHANGED <<importing, expect, preview, doomed>>
        BY <1>26, <3>2 DEF Select, Goto, TypeOK
      <4>2. QED
        BY <4>1, BeginningIsTyped DEF Steps, TypeOK
    <3>3. QED
      BY <3>1, <3>2
  <2>2. RecordsTyped' /\ PointerTyped' /\ FilesTyped' /\ RestTyped'
    BY <1>26 DEF Select, RecordsTyped, PointerTyped, FilesTyped, RestTyped, pointer, records,
       database, disk
  <2>3. QED
    BY <2>1, <2>2
<1>27. ASSUME NEW p \in Process, Register(p) PROVE Typed'
  <2>1. MemoryTyped' /\ Named'
    BY <1>27, GoingIsTyped DEF Register, Goto, Steps, Naming
  <2>2. RecordsTyped' /\ PointerTyped'
    BY <1>27 DEF Register, RecordsTyped, PointerTyped, local, pointer, records, database
  <2>3. FilesTyped'
    BY <1>27 DEF Register, FilesTyped, local, pointer, records, database
  <2>4. RestTyped'
    BY <1>27 DEF Register, TypeOK, RestTyped, local, pointer, records, database
  <2>5. QED
    BY <2>1, <2>2, <2>3, <2>4
<1>28. ASSUME NEW p \in Process, CloseCatalog(p) PROVE Typed'
  <2>1. MemoryTyped' /\ Named'
    BY <1>28, GoingIsTyped DEF CloseCatalog, Goto, Steps, Naming
  <2>2. RecordsTyped' /\ PointerTyped'
    BY <1>28 DEF CloseCatalog, RecordsTyped, PointerTyped, local, locks, pointer, records,
       database, disk
  <2>3. FilesTyped'
    BY <1>28 DEF CloseCatalog, FilesTyped, local, locks, pointer, records, database, disk
  <2>4. RestTyped'
    BY <1>28 DEF CloseCatalog, RestTyped, local, locks, pointer, records, database, disk
  <2>5. QED
    BY <2>1, <2>2, <2>3, <2>4
<1>29. ASSUME NEW p \in Process, Unregister(p) PROVE Typed'
  <2>1. MemoryTyped' /\ Named'
    BY <1>29, FinishIsTyped DEF Unregister
  <2>2. RecordsTyped' /\ PointerTyped'
    BY <1>29 DEF Unregister, RecordsTyped, PointerTyped, locks, pointer, records, database
  <2>3. FilesTyped'
    BY <1>29 DEF Unregister, FilesTyped, locks, pointer, records, database
  <2>4. RestTyped'
    BY <1>29 DEF Unregister, RestTyped, locks, pointer, records, database
  <2>5. QED
    BY <2>1, <2>2, <2>3, <2>4
<1>30. ASSUME NEW p \in Process, BuildFails(p) PROVE Typed'
  <2>1. MemoryTyped' /\ Named'
    BY <1>30, FinishIsTyped DEF BuildFails
  <2>2. RecordsTyped' /\ PointerTyped'
    BY <1>30 DEF BuildFails, RecordsTyped, PointerTyped, pointer, records, database
  <2>3. FilesTyped'
    BY <1>30 DEF BuildFails, FilesTyped, pointer, records, database
  <2>4. RestTyped'
    BY <1>30 DEF BuildFails, RestTyped, pointer, records, database
  <2>5. QED
    BY <2>1, <2>2, <2>3, <2>4
<1>31. ASSUME NEW p \in Process, Crash(p) PROVE Typed'
  <2>1. MemoryTyped' /\ Named'
    BY <1>31, FinishIsTyped DEF Crash
  <2>2. RecordsTyped' /\ PointerTyped'
    BY <1>31 DEF Crash, RecordsTyped, PointerTyped, pointer, records, database, disk
  <2>3. FilesTyped'
    BY <1>31 DEF Crash, FilesTyped, pointer, records, database, disk
  <2>4. RestTyped'
    BY <1>31 DEF Crash, Free, RestTyped, pointer, records, database, disk
  <2>5. QED
    BY <2>1, <2>2, <2>3, <2>4
<1>32. ASSUME NEW b \in Build, Damage(b) PROVE Typed'
  <2>1. MemoryTyped' /\ Named'
    BY <1>32 DEF Damage, MemoryTyped, Named, local, locks, pointer, records, database
  <2>2. RecordsTyped' /\ PointerTyped'
    BY <1>32 DEF Damage, RecordsTyped, PointerTyped, local, locks, pointer, records, database
  <2>3. FilesTyped'
    BY <1>32 DEF Damage, FilesTyped, local, locks, pointer, records, database
  <2>4. RestTyped'
    BY <1>32 DEF Damage, RestTyped, local, locks, pointer, records, database
  <2>5. QED
    BY <2>1, <2>2, <2>3, <2>4
<1>33. CASE UNCHANGED vars
  BY <1>33 DEF vars, MemoryTyped, RecordsTyped, PointerTyped, FilesTyped, RestTyped, Named, local,
     locks, pointer, records, database, disk
<1>34. QED
  BY <1>1, <1>2, <1>3, <1>4, <1>5, <1>6, <1>7, <1>8, <1>9, <1>10, <1>11, <1>12, <1>13, <1>14,
     <1>15, <1>16, <1>17, <1>18, <1>19, <1>20, <1>21, <1>22, <1>23, <1>24, <1>25, <1>26, <1>27,
     <1>28, <1>29, <1>30, <1>31, <1>32, <1>33 DEF Next, Start, Step

(***************************************************************************)
(* Who holds which lock.                                                   *)
(***************************************************************************)
\* A lock is held exactly by who is at a step that needs it, and only a process
\* that is running is at a step.
LocksAreHeld ==
  \A p \in Process :
    /\ projectLock = p <=> pc[p] \in Locking
    /\ readLock = p <=> pc[p] \in LockingReads
    /\ pc[p] # "idle" => Running(p)
    /\ p \in importing => pc[p] \in {"put", "record"}

LEMMA LocksStep ==
  ASSUME Typed, LocksAreHeld, [Next]_vars
  PROVE  LocksAreHeld'
<1> USE ConstantsAssumption DEF Typed, TypeOK, LocksAreHeld, Locking, LockingReads, Running
<1>1. ASSUME NEW p \in Process, NEW b \in Build, BeginBuild(p, b) PROVE LocksAreHeld'
  BY <1>1 DEF BeginBuild, Begin, Goto, pointer, records, database
<1>2. ASSUME NEW p \in Process, NEW b \in Build, BeginImport(p, b) PROVE LocksAreHeld'
  BY <1>2 DEF BeginImport, Begin, Goto, pointer, records, database, disk
<1>3. ASSUME NEW p \in Process, NEW b \in Build, StudioPlan(p, b) PROVE LocksAreHeld'
  BY <1>3 DEF StudioPlan, Begin, Goto, locks, pointer, records, database, disk
<1>4. ASSUME NEW p \in Process, NEW wanted \in Build \cup {None}, BeginRead(p, wanted)
      PROVE  LocksAreHeld'
  BY <1>4 DEF BeginRead, Begin, Goto, pointer, records, database, disk
<1>5. ASSUME NEW p \in Process, PutObject(p) PROVE LocksAreHeld'
  BY <1>5 DEF PutObject, local, locks, pointer, records, database
<1>6. ASSUME NEW p \in Process, Reuse(p) PROVE LocksAreHeld'
  BY <1>6 DEF Reuse, Finish, Forget, HasObjects, pointer, records, database, disk
<1>7. ASSUME NEW p \in Process, Identify(p) PROVE LocksAreHeld'
  BY <1>7 DEF Identify, Goto, HasObjects, local, locks, pointer, records, database, disk
<1>8. ASSUME NEW p \in Process, Clear(p) PROVE LocksAreHeld'
  BY <1>8 DEF Clear, Goto, local, locks, pointer, records, database
<1>9. ASSUME NEW p \in Process, WriteCandidate(p) PROVE LocksAreHeld'
  BY <1>9 DEF WriteCandidate, Goto, local, locks, pointer, records, database
<1>10. ASSUME NEW p \in Process, Seal(p) PROVE LocksAreHeld'
  BY <1>10 DEF Seal, Goto, local, locks, pointer, records, database
<1>11. ASSUME NEW p \in Process, SealRefused(p) PROVE LocksAreHeld'
  BY <1>11 DEF SealRefused, Finish, Forget, pointer, records, database
<1>12. ASSUME NEW p \in Process, InstallImport(p) PROVE LocksAreHeld'
  BY <1>12 DEF InstallImport, Goto, HasObjects, local, locks, pointer, records, database
<1>13. ASSUME NEW p \in Process, Record(p) PROVE LocksAreHeld'
  BY <1>13 DEF Record, Recording, Goto, Finish, Forget, local, pointer, records, disk
<1>14. ASSUME NEW p \in Process, FinishBuild(p) PROVE LocksAreHeld'
  BY <1>14 DEF FinishBuild, Finish, Forget, pointer, records, database, disk
<1>15. ASSUME NEW p \in Process, StudioCheck(p) PROVE LocksAreHeld'
  BY <1>15 DEF StudioCheck, Goto, Finish, Forget, local, locks, pointer, records, database, disk
<1>16. ASSUME NEW p \in Process, StudioMove(p) PROVE LocksAreHeld'
  BY <1>16 DEF StudioMove, Finish, Forget, locks, pointer, records, database, disk
<1>17. ASSUME NEW p \in Process, LockForPrune(p) PROVE LocksAreHeld'
  BY <1>17 DEF LockForPrune, Goto, local, pointer, records, database, disk
<1>18. ASSUME NEW p \in Process, Reconcile(p) PROVE LocksAreHeld'
  BY <1>18 DEF Reconcile, Goto, pointer
<1>19. ASSUME NEW p \in Process, RemoveDirectory(p) PROVE LocksAreHeld'
  BY <1>19 DEF RemoveDirectory, Goto, local, locks, pointer, records, database
<1>20. ASSUME NEW p \in Process, RemoveObject(p) PROVE LocksAreHeld'
  BY <1>20 DEF RemoveObject, local, locks, pointer, records, database
<1>21. ASSUME NEW p \in Process, FinishPrune(p) PROVE LocksAreHeld'
  BY <1>21 DEF FinishPrune, Finish, Forget, pointer, records, database, disk
<1>22. ASSUME NEW p \in Process, GiveUp(p) PROVE LocksAreHeld'
  BY <1>22 DEF GiveUp, Finish, Forget, Free, pointer, records, database, disk
<1>23. ASSUME NEW p \in Process, Select(p) PROVE LocksAreHeld'
  BY <1>23 DEF Select, Goto, Finish, Forget, pointer, records, database, disk
<1>24. ASSUME NEW p \in Process, Register(p) PROVE LocksAreHeld'
  BY <1>24 DEF Register, Goto, local, pointer, records, database
<1>25. ASSUME NEW p \in Process, CloseCatalog(p) PROVE LocksAreHeld'
  BY <1>25 DEF CloseCatalog, Goto, local, locks, pointer, records, database, disk
<1>26. ASSUME NEW p \in Process, Unregister(p) PROVE LocksAreHeld'
  BY <1>26 DEF Unregister, Finish, Forget, locks, pointer, records, database
<1>27. ASSUME NEW p \in Process, Activate(p) PROVE LocksAreHeld'
  BY <1>27 DEF Activate, Switch, local, locks, disk
<1>28. ASSUME NEW p \in Process, Rollback(p) PROVE LocksAreHeld'
  BY <1>28 DEF Rollback, Switch, local, locks, disk
<1>29. ASSUME NEW p \in Process, Preview(p) PROVE LocksAreHeld'
  BY <1>29 DEF Preview, Begin, Goto, locks, pointer, records, database, disk
<1>30. ASSUME NEW p \in Process, BuildFails(p) PROVE LocksAreHeld'
  BY <1>30 DEF BuildFails, Finish, Forget, pointer, records, database
<1>31. ASSUME NEW p \in Process, Crash(p) PROVE LocksAreHeld'
  BY <1>31 DEF Crash, Finish, Forget, Free, pointer, records, database, disk
<1>32. ASSUME NEW b \in Build, Damage(b) PROVE LocksAreHeld'
  BY <1>32 DEF Damage, local, locks, pointer, records, database
<1>33. CASE UNCHANGED vars
  BY <1>33 DEF vars, local, locks, pointer, records, database, disk
<1>34. QED
  BY <1>1, <1>2, <1>3, <1>4, <1>5, <1>6, <1>7, <1>8, <1>9, <1>10, <1>11, <1>12, <1>13, <1>14,
     <1>15, <1>16, <1>17, <1>18, <1>19, <1>20, <1>21, <1>22, <1>23, <1>24, <1>25, <1>26, <1>27,
     <1>28, <1>29, <1>30, <1>31, <1>32, <1>33 DEF Next, Start, Step

(***************************************************************************)
(* The pointer, and reads.                                                 *)
(***************************************************************************)
\* Moving the pointer keeps it and its history together.
LEMMA PointingAgrees ==
  ASSUME Typed, PointerAgreesWithHistory, NEW b, PointTo(b)
  PROVE  PointerAgreesWithHistory'
<1>1. b \in Build /\ b # None /\ recorded' = recorded
  BY ConstantsAssumption DEF Typed, TypeOK, PointTo, records
<1>2. CASE b = active
  BY <1>1, <1>2 DEF Typed, TypeOK, PointTo, PointerAgreesWithHistory, Event
<1>3. CASE b # active
  <2>1. lastEvent' = [generation |-> generation + 1, previous |-> active, build |-> b]
    BY <1>3 DEF PointTo
  <2>2. lastEvent' # None
    BY <2>1, <1>1, NoneAssumption, ConstantsAssumption DEF Event, Typed, TypeOK, PointTo
  <2>3. QED
    BY <1>1, <1>3, <2>1, <2>2 DEF Typed, TypeOK, PointTo, PointerAgreesWithHistory
<1>4. QED
  BY <1>2, <1>3

LEMMA PointerStep ==
  ASSUME Typed, PointerAgreesWithHistory, [Next]_vars
  PROVE  PointerAgreesWithHistory'
<1> USE ConstantsAssumption DEF PointerAgreesWithHistory
<1>1. ASSUME NEW p \in Process, NEW b \in Build, BeginBuild(p, b) PROVE PointerAgreesWithHistory'
  BY <1>1 DEF BeginBuild, Begin, Goto, pointer, records, database
<1>2. ASSUME NEW p \in Process, NEW b \in Build, BeginImport(p, b) PROVE PointerAgreesWithHistory'
  BY <1>2 DEF BeginImport, Begin, Goto, pointer, records, database, disk
<1>3. ASSUME NEW p \in Process, NEW b \in Build, StudioPlan(p, b) PROVE PointerAgreesWithHistory'
  BY <1>3 DEF StudioPlan, Begin, Goto, locks, pointer, records, database, disk
<1>4. ASSUME NEW p \in Process, NEW wanted \in Build \cup {None}, BeginRead(p, wanted)
      PROVE  PointerAgreesWithHistory'
  BY <1>4 DEF BeginRead, Begin, Goto, pointer, records, database, disk
<1>5. ASSUME NEW p \in Process, PutObject(p) PROVE PointerAgreesWithHistory'
  BY <1>5 DEF PutObject, local, locks, pointer, records, database
<1>6. ASSUME NEW p \in Process, Reuse(p) PROVE PointerAgreesWithHistory'
  BY <1>6, PointingAgrees DEF Reuse, Finish, Forget, HasObjects, pointer, records, database, disk
<1>7. ASSUME NEW p \in Process, Identify(p) PROVE PointerAgreesWithHistory'
  BY <1>7 DEF Identify, Goto, HasObjects, local, locks, pointer, records, database, disk
<1>8. ASSUME NEW p \in Process, Clear(p) PROVE PointerAgreesWithHistory'
  BY <1>8 DEF Clear, Goto, local, locks, pointer, records, database
<1>9. ASSUME NEW p \in Process, WriteCandidate(p) PROVE PointerAgreesWithHistory'
  BY <1>9 DEF WriteCandidate, Goto, local, locks, pointer, records, database
<1>10. ASSUME NEW p \in Process, Seal(p) PROVE PointerAgreesWithHistory'
  BY <1>10 DEF Seal, Goto, local, locks, pointer, records, database
<1>11. ASSUME NEW p \in Process, SealRefused(p) PROVE PointerAgreesWithHistory'
  BY <1>11 DEF SealRefused, Finish, Forget, pointer, records, database
<1>12. ASSUME NEW p \in Process, InstallImport(p) PROVE PointerAgreesWithHistory'
  BY <1>12 DEF InstallImport, Goto, HasObjects, local, locks, pointer, records, database
<1>13. ASSUME NEW p \in Process, Record(p) PROVE PointerAgreesWithHistory'
  <2>1. UNCHANGED pointer /\ recorded \subseteq recorded' /\ activeRows' \subseteq activeRows
    BY <1>13 DEF Record, Recording, Insert, records
  <2>2. QED
    BY <2>1 DEF pointer
<1>14. ASSUME NEW p \in Process, FinishBuild(p) PROVE PointerAgreesWithHistory'
  BY <1>14, PointingAgrees DEF FinishBuild, Finish, Forget, pointer, records, database, disk
<1>15. ASSUME NEW p \in Process, StudioCheck(p) PROVE PointerAgreesWithHistory'
  BY <1>15 DEF StudioCheck, Goto, Finish, Forget, local, locks, pointer, records, database, disk
<1>16. ASSUME NEW p \in Process, StudioMove(p) PROVE PointerAgreesWithHistory'
  BY <1>16, PointingAgrees DEF StudioMove, Finish, Forget, locks, pointer, records, database, disk
<1>17. ASSUME NEW p \in Process, LockForPrune(p) PROVE PointerAgreesWithHistory'
  BY <1>17 DEF LockForPrune, Goto, local, pointer, records, database, disk
<1>18. ASSUME NEW p \in Process, Reconcile(p) PROVE PointerAgreesWithHistory'
  BY <1>18 DEF Reconcile, Goto, Reconciled, pointer
<1>19. ASSUME NEW p \in Process, RemoveDirectory(p) PROVE PointerAgreesWithHistory'
  BY <1>19 DEF RemoveDirectory, Goto, local, locks, pointer, records, database
<1>20. ASSUME NEW p \in Process, RemoveObject(p) PROVE PointerAgreesWithHistory'
  BY <1>20 DEF RemoveObject, local, locks, pointer, records, database
<1>21. ASSUME NEW p \in Process, FinishPrune(p) PROVE PointerAgreesWithHistory'
  BY <1>21 DEF FinishPrune, Finish, Forget, pointer, records, database, disk
<1>22. ASSUME NEW p \in Process, GiveUp(p) PROVE PointerAgreesWithHistory'
  BY <1>22 DEF GiveUp, Finish, Forget, Free, pointer, records, database, disk
<1>23. ASSUME NEW p \in Process, Select(p) PROVE PointerAgreesWithHistory'
  BY <1>23 DEF Select, Goto, Finish, Forget, pointer, records, database, disk
<1>24. ASSUME NEW p \in Process, Register(p) PROVE PointerAgreesWithHistory'
  BY <1>24 DEF Register, Goto, local, pointer, records, database
<1>25. ASSUME NEW p \in Process, CloseCatalog(p) PROVE PointerAgreesWithHistory'
  BY <1>25 DEF CloseCatalog, Goto, local, locks, pointer, records, database, disk
<1>26. ASSUME NEW p \in Process, Unregister(p) PROVE PointerAgreesWithHistory'
  BY <1>26 DEF Unregister, Finish, Forget, locks, pointer, records, database
<1>27. ASSUME NEW p \in Process, Activate(p) PROVE PointerAgreesWithHistory'
  BY <1>27, PointingAgrees DEF Activate, Switch, local, locks, disk
<1>28. ASSUME NEW p \in Process, Rollback(p) PROVE PointerAgreesWithHistory'
  BY <1>28, PointingAgrees DEF Rollback, Switch, local, locks, disk
<1>29. ASSUME NEW p \in Process, Preview(p) PROVE PointerAgreesWithHistory'
  BY <1>29 DEF Preview, Begin, Goto, locks, pointer, records, database, disk
<1>30. ASSUME NEW p \in Process, BuildFails(p) PROVE PointerAgreesWithHistory'
  BY <1>30 DEF BuildFails, Finish, Forget, pointer, records, database
<1>31. ASSUME NEW p \in Process, Crash(p) PROVE PointerAgreesWithHistory'
  BY <1>31 DEF Crash, Finish, Forget, Free, pointer, records, database, disk
<1>32. ASSUME NEW b \in Build, Damage(b) PROVE PointerAgreesWithHistory'
  BY <1>32 DEF Damage, local, locks, pointer, records, database
<1>33. CASE UNCHANGED vars
  BY <1>33 DEF vars, local, locks, pointer, records, database, disk
<1>34. QED
  BY <1>1, <1>2, <1>3, <1>4, <1>5, <1>6, <1>7, <1>8, <1>9, <1>10, <1>11, <1>12, <1>13, <1>14,
     <1>15, <1>16, <1>17, <1>18, <1>19, <1>20, <1>21, <1>22, <1>23, <1>24, <1>25, <1>26, <1>27,
     <1>28, <1>29, <1>30, <1>31, <1>32, <1>33 DEF Next, Start, Step

\* Who reads has registered the build it reads.
ReadsAreRegistered ==
  \A p \in Process : pc[p] = "reading" => refs[p] = target[p]

LEMMA ReadsStep ==
  ASSUME Typed, LocksAreHeld, ReadsAreRegistered, [Next]_vars
  PROVE  ReadsAreRegistered'
<1> USE ConstantsAssumption DEF Typed, TypeOK, LocksAreHeld, ReadsAreRegistered, Running
<1>1. ASSUME NEW p \in Process, NEW b \in Build, BeginBuild(p, b) PROVE ReadsAreRegistered'
  BY <1>1 DEF BeginBuild, Begin, Goto, pointer, records, database
<1>2. ASSUME NEW p \in Process, NEW b \in Build, BeginImport(p, b) PROVE ReadsAreRegistered'
  BY <1>2 DEF BeginImport, Begin, Goto, pointer, records, database, disk
<1>3. ASSUME NEW p \in Process, NEW b \in Build, StudioPlan(p, b) PROVE ReadsAreRegistered'
  BY <1>3 DEF StudioPlan, Begin, Goto, locks, pointer, records, database, disk
<1>4. ASSUME NEW p \in Process, NEW wanted \in Build \cup {None}, BeginRead(p, wanted)
      PROVE  ReadsAreRegistered'
  BY <1>4 DEF BeginRead, Begin, Goto, pointer, records, database, disk
<1>5. ASSUME NEW p \in Process, PutObject(p) PROVE ReadsAreRegistered'
  BY <1>5 DEF PutObject, local, locks, pointer, records, database
<1>6. ASSUME NEW p \in Process, Reuse(p) PROVE ReadsAreRegistered'
  BY <1>6 DEF Reuse, Finish, Forget, HasObjects, pointer, records, database, disk
<1>7. ASSUME NEW p \in Process, Identify(p) PROVE ReadsAreRegistered'
  BY <1>7 DEF Identify, Goto, HasObjects, local, locks, pointer, records, database, disk
<1>8. ASSUME NEW p \in Process, Clear(p) PROVE ReadsAreRegistered'
  BY <1>8 DEF Clear, Goto, local, locks, pointer, records, database
<1>9. ASSUME NEW p \in Process, WriteCandidate(p) PROVE ReadsAreRegistered'
  BY <1>9 DEF WriteCandidate, Goto, local, locks, pointer, records, database
<1>10. ASSUME NEW p \in Process, Seal(p) PROVE ReadsAreRegistered'
  BY <1>10 DEF Seal, Goto, local, locks, pointer, records, database
<1>11. ASSUME NEW p \in Process, SealRefused(p) PROVE ReadsAreRegistered'
  BY <1>11 DEF SealRefused, Finish, Forget, pointer, records, database
<1>12. ASSUME NEW p \in Process, InstallImport(p) PROVE ReadsAreRegistered'
  BY <1>12 DEF InstallImport, Goto, HasObjects, local, locks, pointer, records, database
<1>13. ASSUME NEW p \in Process, Record(p) PROVE ReadsAreRegistered'
  BY <1>13 DEF Record, Recording, Goto, Finish, Forget, local, pointer, records, disk
<1>14. ASSUME NEW p \in Process, FinishBuild(p) PROVE ReadsAreRegistered'
  BY <1>14 DEF FinishBuild, Finish, Forget, pointer, records, database, disk
<1>15. ASSUME NEW p \in Process, StudioCheck(p) PROVE ReadsAreRegistered'
  BY <1>15 DEF StudioCheck, Goto, Finish, Forget, local, locks, pointer, records, database, disk
<1>16. ASSUME NEW p \in Process, StudioMove(p) PROVE ReadsAreRegistered'
  BY <1>16 DEF StudioMove, Finish, Forget, locks, pointer, records, database, disk
<1>17. ASSUME NEW p \in Process, LockForPrune(p) PROVE ReadsAreRegistered'
  BY <1>17 DEF LockForPrune, Goto, local, pointer, records, database, disk
<1>18. ASSUME NEW p \in Process, Reconcile(p) PROVE ReadsAreRegistered'
  BY <1>18 DEF Reconcile, Goto, pointer
<1>19. ASSUME NEW p \in Process, RemoveDirectory(p) PROVE ReadsAreRegistered'
  BY <1>19 DEF RemoveDirectory, Goto, local, locks, pointer, records, database
<1>20. ASSUME NEW p \in Process, RemoveObject(p) PROVE ReadsAreRegistered'
  BY <1>20 DEF RemoveObject, local, locks, pointer, records, database
<1>21. ASSUME NEW p \in Process, FinishPrune(p) PROVE ReadsAreRegistered'
  BY <1>21 DEF FinishPrune, Finish, Forget, pointer, records, database, disk
<1>22. ASSUME NEW p \in Process, GiveUp(p) PROVE ReadsAreRegistered'
  BY <1>22 DEF GiveUp, Finish, Forget, Free, pointer, records, database, disk
<1>23. ASSUME NEW p \in Process, Select(p) PROVE ReadsAreRegistered'
  BY <1>23 DEF Select, Goto, Finish, Forget, pointer, records, database, disk
<1>24. ASSUME NEW p \in Process, Register(p) PROVE ReadsAreRegistered'
  BY <1>24 DEF Register, Goto, local, pointer, records, database
<1>25. ASSUME NEW p \in Process, CloseCatalog(p) PROVE ReadsAreRegistered'
  BY <1>25 DEF CloseCatalog, Goto, local, locks, pointer, records, database, disk
<1>26. ASSUME NEW p \in Process, Unregister(p) PROVE ReadsAreRegistered'
  BY <1>26 DEF Unregister, Finish, Forget, locks, pointer, records, database
<1>27. ASSUME NEW p \in Process, Activate(p) PROVE ReadsAreRegistered'
  BY <1>27 DEF Activate, Switch, local, locks, disk
<1>28. ASSUME NEW p \in Process, Rollback(p) PROVE ReadsAreRegistered'
  BY <1>28 DEF Rollback, Switch, local, locks, disk
<1>29. ASSUME NEW p \in Process, Preview(p) PROVE ReadsAreRegistered'
  BY <1>29 DEF Preview, Begin, Goto, locks, pointer, records, database, disk
<1>30. ASSUME NEW p \in Process, BuildFails(p) PROVE ReadsAreRegistered'
  BY <1>30 DEF BuildFails, Finish, Forget, pointer, records, database
<1>31. ASSUME NEW p \in Process, Crash(p) PROVE ReadsAreRegistered'
  BY <1>31 DEF Crash, Finish, Forget, Free, pointer, records, database, disk
<1>32. ASSUME NEW b \in Build, Damage(b) PROVE ReadsAreRegistered'
  BY <1>32 DEF Damage, local, locks, pointer, records, database
<1>33. CASE UNCHANGED vars
  BY <1>33 DEF vars, local, locks, pointer, records, database, disk
<1>34. QED
  BY <1>1, <1>2, <1>3, <1>4, <1>5, <1>6, <1>7, <1>8, <1>9, <1>10, <1>11, <1>12, <1>13, <1>14,
     <1>15, <1>16, <1>17, <1>18, <1>19, <1>20, <1>21, <1>22, <1>23, <1>24, <1>25, <1>26, <1>27,
     <1>28, <1>29, <1>30, <1>31, <1>32, <1>33 DEF Next, Start, Step

(***************************************************************************)
(* Objects, and the directories that refer to them.                        *)
(***************************************************************************)
\* Whoever compiles has all the objects of the build.
CompilersHaveObjects ==
  \A p \in Process : pc[p] \in {"clear", "candidate", "seal"} => Body[target[p]] \subseteq objects

\* A reconciled plan spares what directories outside it and candidates refer to.
LEMMA PlansSpare ==
  ASSUME Typed, NEW p \in Process
  PROVE  LET plan == Reconciled(preview[p]) IN
         /\ plan.builds \subseteq Build \ {active}
         /\ plan.builds \subseteq preview[p].builds \cap (recorded \ Kept)
         /\ plan.objects \subseteq preview[p].objects
         /\ \A b \in Build \ plan.builds : plan.objects \cap Hashes(b) = {}
         /\ \A b \in candidates : plan.objects \cap Body[b] = {}
<1> DEFINE plan == Reconciled(preview[p])
<1>1. plan.builds = (preview[p].builds \cap (recorded \ Kept)) \ {active}
  BY DEF Reconciled, RetentionPlan
<1>2. plan.objects = preview[p].objects \ Referenced(plan.builds)
  BY DEF Reconciled
<1>3. recorded \subseteq Build
  BY DEF Typed, TypeOK
<1> HIDE DEF plan
<1>4. \A b \in Build \ plan.builds : plan.objects \cap Hashes(b) = {}
  BY <1>2 DEF Referenced
<1>5. \A b \in candidates : plan.objects \cap Body[b] = {}
  BY <1>2 DEF Referenced
<1>6. QED
  BY <1>1, <1>2, <1>3, <1>4, <1>5 DEF plan

\* A prune past its preview removes no recorded build, and no object that a
\* directory outside its plan or a candidate refers to; it reaches the objects
\* when the directories of its plan are gone.
RemovalsAreSafe ==
  \A p \in Process : pc[p] \in {"directories", "objects"} =>
    /\ doomed[p].builds \cap recorded = {}
    /\ doomed[p].objects \subseteq preview[p].objects
    /\ \A b \in Build \ doomed[p].builds : doomed[p].objects \cap Hashes(b) = {}
    /\ \A b \in candidates : doomed[p].objects \cap Body[b] = {}
    /\ pc[p] = "objects" => \A b \in doomed[p].builds : files[b] = {}

LEMMA CatalogsStep ==
  ASSUME Typed, LocksAreHeld, ObjectsOutliveCatalogs, CompilersHaveObjects,
         RemovalsAreSafe, [Next]_vars
  PROVE  ObjectsOutliveCatalogs'
<1> USE ConstantsAssumption, TypeParts DEF Typed, ObjectsOutliveCatalogs, Hashes
<1>1. ASSUME NEW p \in Process, NEW b \in Build, BeginBuild(p, b) PROVE ObjectsOutliveCatalogs'
  BY <1>1 DEF BeginBuild, Begin, Goto, pointer, records, database
<1>2. ASSUME NEW p \in Process, NEW b \in Build, BeginImport(p, b) PROVE ObjectsOutliveCatalogs'
  BY <1>2 DEF BeginImport, Begin, Goto, pointer, records, database, disk
<1>3. ASSUME NEW p \in Process, NEW b \in Build, StudioPlan(p, b) PROVE ObjectsOutliveCatalogs'
  BY <1>3 DEF StudioPlan, Begin, Goto, locks, pointer, records, database, disk
<1>4. ASSUME NEW p \in Process, NEW wanted \in Build \cup {None}, BeginRead(p, wanted)
      PROVE  ObjectsOutliveCatalogs'
  BY <1>4 DEF BeginRead, Begin, Goto, pointer, records, database, disk
<1>5. ASSUME NEW p \in Process, PutObject(p) PROVE ObjectsOutliveCatalogs'
  BY <1>5 DEF PutObject, local, locks, pointer, records, database
<1>6. ASSUME NEW p \in Process, Reuse(p) PROVE ObjectsOutliveCatalogs'
  BY <1>6 DEF Reuse, Finish, Forget, HasObjects, pointer, records, database, disk
<1>7. ASSUME NEW p \in Process, Identify(p) PROVE ObjectsOutliveCatalogs'
  BY <1>7 DEF Identify, Goto, HasObjects, local, locks, pointer, records, database, disk
<1>8. ASSUME NEW p \in Process, Clear(p) PROVE ObjectsOutliveCatalogs'
  BY <1>8 DEF Clear, Goto, RemoveFileOf, FilesTyped, Named, Naming, local, locks, pointer,
     records, database
<1>9. ASSUME NEW p \in Process, WriteCandidate(p) PROVE ObjectsOutliveCatalogs'
  BY <1>9 DEF WriteCandidate, Goto, local, locks, pointer, records, database
<1>10. ASSUME NEW p \in Process, Seal(p) PROVE ObjectsOutliveCatalogs'
  BY <1>10 DEF Seal, Goto, CompilersHaveObjects, Readable, FilesTyped, local, locks, pointer,
     records, database
<1>11. ASSUME NEW p \in Process, SealRefused(p) PROVE ObjectsOutliveCatalogs'
  BY <1>11 DEF SealRefused, Finish, Forget, pointer, records, database
<1>12. ASSUME NEW p \in Process, InstallImport(p) PROVE ObjectsOutliveCatalogs'
  BY <1>12 DEF InstallImport, Goto, HasObjects, Named, Naming, FilesTyped, local, locks, pointer,
     records, database
<1>13. ASSUME NEW p \in Process, Record(p) PROVE ObjectsOutliveCatalogs'
  BY <1>13 DEF Record, Recording, Goto, Finish, Forget, local, pointer, records, disk
<1>14. ASSUME NEW p \in Process, FinishBuild(p) PROVE ObjectsOutliveCatalogs'
  BY <1>14 DEF FinishBuild, Finish, Forget, pointer, records, database, disk
<1>15. ASSUME NEW p \in Process, StudioCheck(p) PROVE ObjectsOutliveCatalogs'
  BY <1>15 DEF StudioCheck, Goto, Finish, Forget, local, locks, pointer, records, database, disk
<1>16. ASSUME NEW p \in Process, StudioMove(p) PROVE ObjectsOutliveCatalogs'
  BY <1>16 DEF StudioMove, Finish, Forget, locks, pointer, records, database, disk
<1>17. ASSUME NEW p \in Process, LockForPrune(p) PROVE ObjectsOutliveCatalogs'
  BY <1>17 DEF LockForPrune, Goto, local, pointer, records, database, disk
<1>18. ASSUME NEW p \in Process, Reconcile(p) PROVE ObjectsOutliveCatalogs'
  BY <1>18 DEF Reconcile, Goto, pointer
<1>19. ASSUME NEW p \in Process, RemoveDirectory(p) PROVE ObjectsOutliveCatalogs'
  BY <1>19 DEF RemoveDirectory, Goto, RemoveFileOf, FilesTyped, MemoryTyped, Plan, local, locks,
     pointer, records, database
<1>20. ASSUME NEW p \in Process, RemoveObject(p) PROVE ObjectsOutliveCatalogs'
  BY <1>20 DEF RemoveObject, RemovalsAreSafe, FilesTyped, MemoryTyped, Plan, local, locks,
     pointer, records, database
<1>21. ASSUME NEW p \in Process, FinishPrune(p) PROVE ObjectsOutliveCatalogs'
  BY <1>21 DEF FinishPrune, Finish, Forget, pointer, records, database, disk
<1>22. ASSUME NEW p \in Process, GiveUp(p) PROVE ObjectsOutliveCatalogs'
  BY <1>22 DEF GiveUp, Finish, Forget, Free, pointer, records, database, disk
<1>23. ASSUME NEW p \in Process, Select(p) PROVE ObjectsOutliveCatalogs'
  BY <1>23 DEF Select, Goto, Finish, Forget, pointer, records, database, disk
<1>24. ASSUME NEW p \in Process, Register(p) PROVE ObjectsOutliveCatalogs'
  BY <1>24 DEF Register, Goto, local, pointer, records, database
<1>25. ASSUME NEW p \in Process, CloseCatalog(p) PROVE ObjectsOutliveCatalogs'
  BY <1>25 DEF CloseCatalog, Goto, local, locks, pointer, records, database, disk
<1>26. ASSUME NEW p \in Process, Unregister(p) PROVE ObjectsOutliveCatalogs'
  BY <1>26 DEF Unregister, Finish, Forget, locks, pointer, records, database
<1>27. ASSUME NEW p \in Process, Activate(p) PROVE ObjectsOutliveCatalogs'
  BY <1>27 DEF Activate, Switch, local, locks, disk
<1>28. ASSUME NEW p \in Process, Rollback(p) PROVE ObjectsOutliveCatalogs'
  BY <1>28 DEF Rollback, Switch, local, locks, disk
<1>29. ASSUME NEW p \in Process, Preview(p) PROVE ObjectsOutliveCatalogs'
  BY <1>29 DEF Preview, Begin, Goto, locks, pointer, records, database, disk
<1>30. ASSUME NEW p \in Process, BuildFails(p) PROVE ObjectsOutliveCatalogs'
  BY <1>30 DEF BuildFails, Finish, Forget, pointer, records, database
<1>31. ASSUME NEW p \in Process, Crash(p) PROVE ObjectsOutliveCatalogs'
  BY <1>31 DEF Crash, Finish, Forget, Free, pointer, records, database, disk
<1>32. ASSUME NEW b \in Build, Damage(b) PROVE ObjectsOutliveCatalogs'
  BY <1>32 DEF Damage, FilesTyped, local, locks, pointer, records, database
<1>33. CASE UNCHANGED vars
  BY <1>33 DEF vars, local, locks, pointer, records, database, disk
<1>34. QED
  BY <1>1, <1>2, <1>3, <1>4, <1>5, <1>6, <1>7, <1>8, <1>9, <1>10, <1>11, <1>12, <1>13, <1>14,
     <1>15, <1>16, <1>17, <1>18, <1>19, <1>20, <1>21, <1>22, <1>23, <1>24, <1>25, <1>26, <1>27,
     <1>28, <1>29, <1>30, <1>31, <1>32, <1>33 DEF Next, Start, Step

LEMMA CompilersStep ==
  ASSUME Typed, LocksAreHeld, CompilersHaveObjects, [Next]_vars
  PROVE  CompilersHaveObjects'
<1> USE ConstantsAssumption, TypeParts DEF Typed, MemoryTyped, CompilersHaveObjects
<1>1. ASSUME NEW p \in Process, NEW b \in Build, BeginBuild(p, b) PROVE CompilersHaveObjects'
  BY <1>1 DEF BeginBuild, Begin, Goto, pointer, records, database
<1>2. ASSUME NEW p \in Process, NEW b \in Build, BeginImport(p, b) PROVE CompilersHaveObjects'
  BY <1>2 DEF BeginImport, Begin, Goto, pointer, records, database, disk
<1>3. ASSUME NEW p \in Process, NEW b \in Build, StudioPlan(p, b) PROVE CompilersHaveObjects'
  BY <1>3 DEF StudioPlan, Begin, Goto, locks, pointer, records, database, disk
<1>4. ASSUME NEW p \in Process, NEW wanted \in Build \cup {None}, BeginRead(p, wanted)
      PROVE  CompilersHaveObjects'
  BY <1>4 DEF BeginRead, Begin, Goto, pointer, records, database, disk
<1>5. ASSUME NEW p \in Process, PutObject(p) PROVE CompilersHaveObjects'
  BY <1>5 DEF PutObject, local, locks, pointer, records, database
<1>6. ASSUME NEW p \in Process, Reuse(p) PROVE CompilersHaveObjects'
  BY <1>6 DEF Reuse, Finish, Forget, HasObjects, pointer, records, database, disk
<1>7. ASSUME NEW p \in Process, Identify(p) PROVE CompilersHaveObjects'
  BY <1>7 DEF Identify, Goto, HasObjects, local, locks, pointer, records, database, disk
<1>8. ASSUME NEW p \in Process, Clear(p) PROVE CompilersHaveObjects'
  BY <1>8 DEF Clear, Goto, local, locks, pointer, records, database
<1>9. ASSUME NEW p \in Process, WriteCandidate(p) PROVE CompilersHaveObjects'
  BY <1>9 DEF WriteCandidate, Goto, local, locks, pointer, records, database
<1>10. ASSUME NEW p \in Process, Seal(p) PROVE CompilersHaveObjects'
  BY <1>10 DEF Seal, Goto, local, locks, pointer, records, database
<1>11. ASSUME NEW p \in Process, SealRefused(p) PROVE CompilersHaveObjects'
  BY <1>11 DEF SealRefused, Finish, Forget, pointer, records, database
<1>12. ASSUME NEW p \in Process, InstallImport(p) PROVE CompilersHaveObjects'
  BY <1>12 DEF InstallImport, Goto, HasObjects, local, locks, pointer, records, database
<1>13. ASSUME NEW p \in Process, Record(p) PROVE CompilersHaveObjects'
  BY <1>13 DEF Record, Recording, Goto, Finish, Forget, local, pointer, records, disk
<1>14. ASSUME NEW p \in Process, FinishBuild(p) PROVE CompilersHaveObjects'
  BY <1>14 DEF FinishBuild, Finish, Forget, pointer, records, database, disk
<1>15. ASSUME NEW p \in Process, StudioCheck(p) PROVE CompilersHaveObjects'
  BY <1>15 DEF StudioCheck, Goto, Finish, Forget, local, locks, pointer, records, database, disk
<1>16. ASSUME NEW p \in Process, StudioMove(p) PROVE CompilersHaveObjects'
  BY <1>16 DEF StudioMove, Finish, Forget, locks, pointer, records, database, disk
<1>17. ASSUME NEW p \in Process, LockForPrune(p) PROVE CompilersHaveObjects'
  BY <1>17 DEF LockForPrune, Goto, local, pointer, records, database, disk
<1>18. ASSUME NEW p \in Process, Reconcile(p) PROVE CompilersHaveObjects'
  BY <1>18 DEF Reconcile, Goto, pointer
<1>19. ASSUME NEW p \in Process, RemoveDirectory(p) PROVE CompilersHaveObjects'
  BY <1>19 DEF RemoveDirectory, Goto, local, locks, pointer, records, database
<1>20. ASSUME NEW p \in Process, RemoveObject(p) PROVE CompilersHaveObjects'
  BY <1>20 DEF RemoveObject, LocksAreHeld, Locking, local, locks, pointer, records, database
<1>21. ASSUME NEW p \in Process, FinishPrune(p) PROVE CompilersHaveObjects'
  BY <1>21 DEF FinishPrune, Finish, Forget, pointer, records, database, disk
<1>22. ASSUME NEW p \in Process, GiveUp(p) PROVE CompilersHaveObjects'
  BY <1>22 DEF GiveUp, Finish, Forget, Free, pointer, records, database, disk
<1>23. ASSUME NEW p \in Process, Select(p) PROVE CompilersHaveObjects'
  BY <1>23 DEF Select, Goto, Finish, Forget, pointer, records, database, disk
<1>24. ASSUME NEW p \in Process, Register(p) PROVE CompilersHaveObjects'
  BY <1>24 DEF Register, Goto, local, pointer, records, database
<1>25. ASSUME NEW p \in Process, CloseCatalog(p) PROVE CompilersHaveObjects'
  BY <1>25 DEF CloseCatalog, Goto, local, locks, pointer, records, database, disk
<1>26. ASSUME NEW p \in Process, Unregister(p) PROVE CompilersHaveObjects'
  BY <1>26 DEF Unregister, Finish, Forget, locks, pointer, records, database
<1>27. ASSUME NEW p \in Process, Activate(p) PROVE CompilersHaveObjects'
  BY <1>27 DEF Activate, Switch, local, locks, disk
<1>28. ASSUME NEW p \in Process, Rollback(p) PROVE CompilersHaveObjects'
  BY <1>28 DEF Rollback, Switch, local, locks, disk
<1>29. ASSUME NEW p \in Process, Preview(p) PROVE CompilersHaveObjects'
  BY <1>29 DEF Preview, Begin, Goto, locks, pointer, records, database, disk
<1>30. ASSUME NEW p \in Process, BuildFails(p) PROVE CompilersHaveObjects'
  BY <1>30 DEF BuildFails, Finish, Forget, pointer, records, database
<1>31. ASSUME NEW p \in Process, Crash(p) PROVE CompilersHaveObjects'
  BY <1>31 DEF Crash, Finish, Forget, Free, pointer, records, database, disk
<1>32. ASSUME NEW b \in Build, Damage(b) PROVE CompilersHaveObjects'
  BY <1>32 DEF Damage, local, locks, pointer, records, database
<1>33. CASE UNCHANGED vars
  BY <1>33 DEF vars, local, locks, pointer, records, database, disk
<1>34. QED
  BY <1>1, <1>2, <1>3, <1>4, <1>5, <1>6, <1>7, <1>8, <1>9, <1>10, <1>11, <1>12, <1>13, <1>14,
     <1>15, <1>16, <1>17, <1>18, <1>19, <1>20, <1>21, <1>22, <1>23, <1>24, <1>25, <1>26, <1>27,
     <1>28, <1>29, <1>30, <1>31, <1>32, <1>33 DEF Next, Start, Step

LEMMA RemovalsStep ==
  ASSUME Typed, LocksAreHeld, RemovalsAreSafe, [Next]_vars
  PROVE  RemovalsAreSafe'
<1> USE ConstantsAssumption, TypeParts
        DEF Typed, MemoryTyped, LocksAreHeld, Locking, RemovalsAreSafe, Hashes
<1>1. ASSUME NEW p \in Process, NEW b \in Build, BeginBuild(p, b) PROVE RemovalsAreSafe'
  BY <1>1 DEF BeginBuild, Begin, Goto, pointer, records, database
<1>2. ASSUME NEW p \in Process, NEW b \in Build, BeginImport(p, b) PROVE RemovalsAreSafe'
  BY <1>2 DEF BeginImport, Begin, Goto, pointer, records, database, disk
<1>3. ASSUME NEW p \in Process, NEW b \in Build, StudioPlan(p, b) PROVE RemovalsAreSafe'
  BY <1>3 DEF StudioPlan, Begin, Goto, locks, pointer, records, database, disk
<1>4. ASSUME NEW p \in Process, NEW wanted \in Build \cup {None}, BeginRead(p, wanted)
      PROVE  RemovalsAreSafe'
  BY <1>4 DEF BeginRead, Begin, Goto, pointer, records, database, disk
<1>5. ASSUME NEW p \in Process, PutObject(p) PROVE RemovalsAreSafe'
  BY <1>5 DEF PutObject, local, locks, pointer, records, database
<1>6. ASSUME NEW p \in Process, Reuse(p) PROVE RemovalsAreSafe'
  BY <1>6 DEF Reuse, Finish, Forget, HasObjects, pointer, records, database, disk
<1>7. ASSUME NEW p \in Process, Identify(p) PROVE RemovalsAreSafe'
  BY <1>7 DEF Identify, Goto, HasObjects, local, locks, pointer, records, database, disk
<1>8. ASSUME NEW p \in Process, Clear(p) PROVE RemovalsAreSafe'
  BY <1>8 DEF Clear, Goto, local, locks, pointer, records, database
<1>9. ASSUME NEW p \in Process, WriteCandidate(p) PROVE RemovalsAreSafe'
  BY <1>9 DEF WriteCandidate, Goto, local, locks, pointer, records, database
<1>10. ASSUME NEW p \in Process, Seal(p) PROVE RemovalsAreSafe'
  BY <1>10 DEF Seal, Goto, local, locks, pointer, records, database
<1>11. ASSUME NEW p \in Process, SealRefused(p) PROVE RemovalsAreSafe'
  BY <1>11 DEF SealRefused, Finish, Forget, pointer, records, database
<1>12. ASSUME NEW p \in Process, InstallImport(p) PROVE RemovalsAreSafe'
  BY <1>12 DEF InstallImport, Goto, HasObjects, local, locks, pointer, records, database
<1>13. ASSUME NEW p \in Process, Record(p) PROVE RemovalsAreSafe'
  BY <1>13 DEF Record, Recording, Goto, Finish, Forget, local, pointer, records, disk
<1>14. ASSUME NEW p \in Process, FinishBuild(p) PROVE RemovalsAreSafe'
  BY <1>14 DEF FinishBuild, Finish, Forget, pointer, records, database, disk
<1>15. ASSUME NEW p \in Process, StudioCheck(p) PROVE RemovalsAreSafe'
  BY <1>15 DEF StudioCheck, Goto, Finish, Forget, local, locks, pointer, records, database, disk
<1>16. ASSUME NEW p \in Process, StudioMove(p) PROVE RemovalsAreSafe'
  BY <1>16 DEF StudioMove, Finish, Forget, locks, pointer, records, database, disk
<1>17. ASSUME NEW p \in Process, LockForPrune(p) PROVE RemovalsAreSafe'
  BY <1>17 DEF LockForPrune, Goto, local, pointer, records, database, disk
<1>18. ASSUME NEW p \in Process, Reconcile(p) PROVE RemovalsAreSafe'
  <2> DEFINE plan == Reconciled(preview[p])
  <2>1. /\ plan.builds \subseteq Build
        /\ plan.objects \subseteq preview[p].objects
        /\ \A b \in Build \ plan.builds : plan.objects \cap Hashes(b) = {}
        /\ \A b \in candidates : plan.objects \cap Body[b] = {}
    BY PlansSpare
  <2>2. /\ doomed' = [doomed EXCEPT ![p] = plan] /\ pc' = [pc EXCEPT ![p] = "directories"]
        /\ recorded' = recorded \ plan.builds
        /\ UNCHANGED <<preview, files, candidates, projectLock>> /\ pc[p] = "lockReaders"
    BY <1>18 DEF Reconcile, Goto
  <2>3. \A q \in Process : q # p => pc'[q] \notin {"directories", "objects"}
    BY <2>2
  <2>4. doomed'[p] = plan /\ pc'[p] = "directories"
    BY <2>2
  <2>5. \A b \in Build : Hashes(b)' = Hashes(b)
    BY <2>2
  <2> HIDE DEF plan
  <2>6. QED
    BY <2>1, <2>2, <2>3, <2>4, <2>5
<1>19. ASSUME NEW p \in Process, RemoveDirectory(p) PROVE RemovalsAreSafe'
  <2>1. /\ \A b \in Build : files'[b] \subseteq files[b]
        /\ pc'[p] = "objects" => pc[p] = "objects" \/ \A b \in doomed[p].builds : files'[b] = {}
        /\ \A q \in Process : q # p => pc'[q] = pc[q]
    BY <1>19 DEF RemoveDirectory, RemoveFileOf, FilesTyped, Plan, Goto
  <2>2. /\ UNCHANGED <<doomed, preview, recorded, candidates>>
        /\ pc[p] = "directories"
    BY <1>19 DEF RemoveDirectory, local, locks, database, records
  <2>3. \A q \in Process :
          pc'[q] \in {"directories", "objects"} => pc[q] \in {"directories", "objects"}
    BY <2>1, <2>2 DEF RemoveDirectory
  <2>4. \A b \in Build : Hashes(b)' \subseteq Hashes(b)
    BY <2>1
  <2>5. \A q \in Process : pc'[q] = "objects" => \A b \in doomed[q].builds : files'[b] = {}
    BY <2>1, <2>2, <2>3 DEF Plan
  <2>6. QED
    BY <2>2, <2>3, <2>4, <2>5
<1>20. ASSUME NEW p \in Process, RemoveObject(p) PROVE RemovalsAreSafe'
  BY <1>20 DEF RemoveObject, local, locks, pointer, records, database
<1>21. ASSUME NEW p \in Process, FinishPrune(p) PROVE RemovalsAreSafe'
  BY <1>21 DEF FinishPrune, Finish, Forget, pointer, records, database, disk
<1>22. ASSUME NEW p \in Process, GiveUp(p) PROVE RemovalsAreSafe'
  BY <1>22 DEF GiveUp, Finish, Forget, Free, pointer, records, database, disk
<1>23. ASSUME NEW p \in Process, Select(p) PROVE RemovalsAreSafe'
  BY <1>23 DEF Select, Goto, Finish, Forget, pointer, records, database, disk
<1>24. ASSUME NEW p \in Process, Register(p) PROVE RemovalsAreSafe'
  BY <1>24 DEF Register, Goto, local, pointer, records, database
<1>25. ASSUME NEW p \in Process, CloseCatalog(p) PROVE RemovalsAreSafe'
  BY <1>25 DEF CloseCatalog, Goto, local, locks, pointer, records, database, disk
<1>26. ASSUME NEW p \in Process, Unregister(p) PROVE RemovalsAreSafe'
  BY <1>26 DEF Unregister, Finish, Forget, locks, pointer, records, database
<1>27. ASSUME NEW p \in Process, Activate(p) PROVE RemovalsAreSafe'
  BY <1>27 DEF Activate, Switch, local, locks, disk
<1>28. ASSUME NEW p \in Process, Rollback(p) PROVE RemovalsAreSafe'
  BY <1>28 DEF Rollback, Switch, local, locks, disk
<1>29. ASSUME NEW p \in Process, Preview(p) PROVE RemovalsAreSafe'
  BY <1>29 DEF Preview, Begin, Goto, locks, pointer, records, database, disk
<1>30. ASSUME NEW p \in Process, BuildFails(p) PROVE RemovalsAreSafe'
  BY <1>30 DEF BuildFails, Finish, Forget, pointer, records, database
<1>31. ASSUME NEW p \in Process, Crash(p) PROVE RemovalsAreSafe'
  BY <1>31 DEF Crash, Finish, Forget, Free, pointer, records, database, disk
<1>32. ASSUME NEW b \in Build, Damage(b) PROVE RemovalsAreSafe'
  BY <1>32 DEF Damage, local, locks, pointer, records, database
<1>33. CASE UNCHANGED vars
  BY <1>33 DEF vars, local, locks, pointer, records, database, disk
<1>34. QED
  BY <1>1, <1>2, <1>3, <1>4, <1>5, <1>6, <1>7, <1>8, <1>9, <1>10, <1>11, <1>12, <1>13, <1>14,
     <1>15, <1>16, <1>17, <1>18, <1>19, <1>20, <1>21, <1>22, <1>23, <1>24, <1>25, <1>26, <1>27,
     <1>28, <1>29, <1>30, <1>31, <1>32, <1>33 DEF Next, Start, Step

\* What is left of a damaged build is out of the way of its repair.
RepairsAreClear ==
  \A p \in Process :
    pc[p] \in {"candidate", "seal"} /\ target[p] \in recorded => files[target[p]] \subseteq {"dir"}

LEMMA RepairsStep ==
  ASSUME Typed, LocksAreHeld, RepairsAreClear, [Next]_vars
  PROVE  RepairsAreClear'
<1> USE ConstantsAssumption, TypeParts
        DEF Typed, MemoryTyped, FilesTyped, LocksAreHeld, Locking, RepairsAreClear
<1>1. ASSUME NEW p \in Process, NEW b \in Build, BeginBuild(p, b) PROVE RepairsAreClear'
  BY <1>1 DEF BeginBuild, Begin, Goto, pointer, records, database
<1>2. ASSUME NEW p \in Process, NEW b \in Build, BeginImport(p, b) PROVE RepairsAreClear'
  BY <1>2 DEF BeginImport, Begin, Goto, pointer, records, database, disk
<1>3. ASSUME NEW p \in Process, NEW b \in Build, StudioPlan(p, b) PROVE RepairsAreClear'
  BY <1>3 DEF StudioPlan, Begin, Goto, locks, pointer, records, database, disk
<1>4. ASSUME NEW p \in Process, NEW wanted \in Build \cup {None}, BeginRead(p, wanted)
      PROVE  RepairsAreClear'
  BY <1>4 DEF BeginRead, Begin, Goto, pointer, records, database, disk
<1>5. ASSUME NEW p \in Process, PutObject(p) PROVE RepairsAreClear'
  BY <1>5 DEF PutObject, local, locks, pointer, records, database
<1>6. ASSUME NEW p \in Process, Reuse(p) PROVE RepairsAreClear'
  BY <1>6 DEF Reuse, Finish, Forget, HasObjects, PointTo, records, pointer, database, disk
<1>7. ASSUME NEW p \in Process, Identify(p) PROVE RepairsAreClear'
  BY <1>7 DEF Identify, Goto, HasObjects, local, locks, pointer, records, database, disk
<1>8. ASSUME NEW p \in Process, Clear(p) PROVE RepairsAreClear'
  BY <1>8 DEF Clear, Goto, RemoveFileOf, local, locks, pointer, records, database
<1>9. ASSUME NEW p \in Process, WriteCandidate(p) PROVE RepairsAreClear'
  BY <1>9 DEF WriteCandidate, Goto, local, locks, pointer, records, database
<1>10. ASSUME NEW p \in Process, Seal(p) PROVE RepairsAreClear'
  BY <1>10 DEF Seal, Goto, local, locks, pointer, records, database
<1>11. ASSUME NEW p \in Process, SealRefused(p) PROVE RepairsAreClear'
  BY <1>11 DEF SealRefused, Finish, Forget, pointer, records, database
<1>12. ASSUME NEW p \in Process, InstallImport(p) PROVE RepairsAreClear'
  BY <1>12 DEF InstallImport, Goto, HasObjects, local, locks, pointer, records, database
<1>13. ASSUME NEW p \in Process, Record(p) PROVE RepairsAreClear'
  BY <1>13 DEF Record, Recording, Goto, Finish, Forget, records, Insert, local, pointer, disk
<1>14. ASSUME NEW p \in Process, FinishBuild(p) PROVE RepairsAreClear'
  BY <1>14 DEF FinishBuild, Finish, Forget, PointTo, records, pointer, database, disk
<1>15. ASSUME NEW p \in Process, StudioCheck(p) PROVE RepairsAreClear'
  BY <1>15 DEF StudioCheck, Goto, Finish, Forget, local, locks, pointer, records, database, disk
<1>16. ASSUME NEW p \in Process, StudioMove(p) PROVE RepairsAreClear'
  BY <1>16 DEF StudioMove, Finish, Forget, PointTo, records, locks, pointer, database, disk
<1>17. ASSUME NEW p \in Process, LockForPrune(p) PROVE RepairsAreClear'
  BY <1>17 DEF LockForPrune, Goto, local, pointer, records, database, disk
<1>18. ASSUME NEW p \in Process, Reconcile(p) PROVE RepairsAreClear'
  BY <1>18 DEF Reconcile, Goto, pointer
<1>19. ASSUME NEW p \in Process, RemoveDirectory(p) PROVE RepairsAreClear'
  BY <1>19 DEF RemoveDirectory, Goto, RemoveFileOf, local, locks, pointer, records, database
<1>20. ASSUME NEW p \in Process, RemoveObject(p) PROVE RepairsAreClear'
  BY <1>20 DEF RemoveObject, local, locks, pointer, records, database
<1>21. ASSUME NEW p \in Process, FinishPrune(p) PROVE RepairsAreClear'
  BY <1>21 DEF FinishPrune, Finish, Forget, pointer, records, database, disk
<1>22. ASSUME NEW p \in Process, GiveUp(p) PROVE RepairsAreClear'
  BY <1>22 DEF GiveUp, Finish, Forget, Free, pointer, records, database, disk
<1>23. ASSUME NEW p \in Process, Select(p) PROVE RepairsAreClear'
  BY <1>23 DEF Select, Goto, Finish, Forget, pointer, records, database, disk
<1>24. ASSUME NEW p \in Process, Register(p) PROVE RepairsAreClear'
  BY <1>24 DEF Register, Goto, local, pointer, records, database
<1>25. ASSUME NEW p \in Process, CloseCatalog(p) PROVE RepairsAreClear'
  BY <1>25 DEF CloseCatalog, Goto, local, locks, pointer, records, database, disk
<1>26. ASSUME NEW p \in Process, Unregister(p) PROVE RepairsAreClear'
  BY <1>26 DEF Unregister, Finish, Forget, locks, pointer, records, database
<1>27. ASSUME NEW p \in Process, Activate(p) PROVE RepairsAreClear'
  BY <1>27 DEF Activate, Switch, PointTo, records, local, locks, disk
<1>28. ASSUME NEW p \in Process, Rollback(p) PROVE RepairsAreClear'
  BY <1>28 DEF Rollback, Switch, PointTo, records, local, locks, disk
<1>29. ASSUME NEW p \in Process, Preview(p) PROVE RepairsAreClear'
  BY <1>29 DEF Preview, Begin, Goto, locks, pointer, records, database, disk
<1>30. ASSUME NEW p \in Process, BuildFails(p) PROVE RepairsAreClear'
  BY <1>30 DEF BuildFails, Finish, Forget, pointer, records, database
<1>31. ASSUME NEW p \in Process, Crash(p) PROVE RepairsAreClear'
  BY <1>31 DEF Crash, Finish, Forget, Free, pointer, records, database, disk
<1>32. ASSUME NEW b \in Build, Damage(b) PROVE RepairsAreClear'
  BY <1>32 DEF Damage, local, locks, pointer, records, database
<1>33. CASE UNCHANGED vars
  BY <1>33 DEF vars, local, locks, pointer, records, database, disk
<1>34. QED
  BY <1>1, <1>2, <1>3, <1>4, <1>5, <1>6, <1>7, <1>8, <1>9, <1>10, <1>11, <1>12, <1>13, <1>14,
     <1>15, <1>16, <1>17, <1>18, <1>19, <1>20, <1>21, <1>22, <1>23, <1>24, <1>25, <1>26, <1>27,
     <1>28, <1>29, <1>30, <1>31, <1>32, <1>33 DEF Next, Start, Step

(***************************************************************************)
(* A store nothing outside Lorepack takes files from.                      *)
(***************************************************************************)
\* What is recorded, or about to be, can be served; nothing has to be cleared,
\* and an import finds its id free.
Intact ==
  /\ RecordedBuildsOpen
  /\ \A p \in Process :
       /\ pc[p] # "clear"
       /\ pc[p] = "record" => Activatable(target[p])
       /\ pc[p] = "put" /\ p \in importing => files[target[p]] = {}

\* A build the removal of a prune does not name keeps all it has.
LEMMA RemovalSpares ==
  ASSUME Typed, RemovalsAreSafe, NEW p \in Process, RemoveDirectory(p) \/ RemoveObject(p),
         NEW b \in Build \ doomed[p].builds, Activatable(b)
  PROVE  Activatable(b)'
<1> USE ConstantsAssumption, TypeParts DEF Typed, MemoryTyped, FilesTyped, Plan
<1>1. CASE RemoveDirectory(p)
  <2>1. files'[b] = files[b] /\ objects' = objects
    BY <1>1 DEF RemoveDirectory, RemoveFileOf
  <2>2. QED
    BY <2>1 DEF Activatable, Readable
<1>2. CASE RemoveObject(p)
  <2>1. files' = files /\ \E o \in doomed[p].objects : objects' = objects \ {o}
    BY <1>2 DEF RemoveObject
  <2>2. pc[p] = "objects"
    BY <1>2 DEF RemoveObject
  <2>3. doomed[p].objects \cap Body[b] = {}
    BY <2>2 DEF RemovalsAreSafe, Hashes, Activatable, Readable
  <2>4. QED
    BY <2>1, <2>3 DEF Activatable, Readable
<1>3. QED
  BY <1>1, <1>2

LEMMA IntactStep ==
  ASSUME Typed, LocksAreHeld, CompilersHaveObjects, RemovalsAreSafe, Intact, MaxDamage =
         0, [Next]_vars
  PROVE  Intact'
<1> USE ConstantsAssumption, TypeParts DEF Typed, MemoryTyped, Intact
<1>1. ASSUME NEW p \in Process, NEW b \in Build, BeginBuild(p, b) PROVE Intact'
  BY <1>1 DEF BeginBuild, Begin, Goto, LocksAreHeld, pointer, records, database,
     RecordedBuildsOpen, Activatable, Readable
<1>2. ASSUME NEW p \in Process, NEW b \in Build, BeginImport(p, b) PROVE Intact'
  BY <1>2 DEF BeginImport, Begin, Goto, pointer, records, database, disk, RecordedBuildsOpen,
     Activatable, Readable
<1>3. ASSUME NEW p \in Process, NEW b \in Build, StudioPlan(p, b) PROVE Intact'
  BY <1>3 DEF StudioPlan, Begin, Goto, locks, pointer, records, database, disk,
     RecordedBuildsOpen, Activatable, Readable
<1>4. ASSUME NEW p \in Process, NEW wanted \in Build \cup {None}, BeginRead(p, wanted) PROVE Intact'
  BY <1>4 DEF BeginRead, Begin, Goto, pointer, records, database, disk, RecordedBuildsOpen,
     Activatable, Readable
<1>5. ASSUME NEW p \in Process, PutObject(p) PROVE Intact'
  BY <1>5 DEF PutObject, LocksAreHeld, Locking, local, locks, pointer, records, database,
     RecordedBuildsOpen, Activatable, Readable
<1>6. ASSUME NEW p \in Process, Reuse(p) PROVE Intact'
  BY <1>6 DEF Reuse, Finish, Forget, HasObjects, PointTo, records, pointer, database, disk,
     RecordedBuildsOpen, Activatable, Readable
<1>7. ASSUME NEW p \in Process, Identify(p) PROVE Intact'
  BY <1>7 DEF Identify, Goto, HasObjects, local, locks, pointer, records, database, disk,
     RecordedBuildsOpen, Activatable, Readable
<1>8. ASSUME NEW p \in Process, Clear(p) PROVE Intact'
  BY <1>8 DEF Clear, Goto, local, locks, pointer, records, database, RecordedBuildsOpen,
     Activatable, Readable
<1>9. ASSUME NEW p \in Process, WriteCandidate(p) PROVE Intact'
  BY <1>9 DEF WriteCandidate, Goto, local, locks, pointer, records, database, RecordedBuildsOpen,
     Activatable, Readable
<1>10. ASSUME NEW p \in Process, Seal(p) PROVE Intact'
  <2>1. target[p] \in Build /\ Body[target[p]] \subseteq objects
    BY <1>10 DEF Seal, Goto, Named, Naming, CompilersHaveObjects
  <2>2. UNCHANGED <<recorded, objects, target, importing>>
    BY <1>10 DEF Seal, local, database, records
  <2>3. /\ \A b \in Build : files[b] \subseteq files'[b]
        /\ Readable(target[p])'
    <3>1. CASE files' = [files EXCEPT ![target[p]] = Complete]
      BY <2>1, <2>2, <3>1 DEF FilesTyped, Readable, Complete
    <3>2. CASE Readable(target[p]) /\ files' = files
      BY <2>2, <3>2 DEF Readable
    <3>3. QED
      BY <1>10, <3>1, <3>2 DEF Seal
  <2>4. /\ pc' = [pc EXCEPT ![p] = "record"]
        /\ \A q \in Process : q # p => pc[q] \notin {"record", "put"}
    BY <1>10 DEF Seal, Goto, LocksAreHeld, Locking
  <2>5. \A b \in recorded : Activatable(b)'
    BY <2>2, <2>3 DEF RecordedBuildsOpen, Activatable, Readable, RecordsTyped
  <2>6. QED
    BY <2>1, <2>2, <2>3, <2>4, <2>5 DEF RecordedBuildsOpen, Activatable, MemoryTyped
<1>11. ASSUME NEW p \in Process, SealRefused(p) PROVE Intact'
  BY <1>11 DEF SealRefused, Finish, Forget, pointer, records, database, RecordedBuildsOpen,
     Activatable, Readable
<1>12. ASSUME NEW p \in Process, InstallImport(p) PROVE Intact'
  <2>1. target[p] \in Build /\ Body[target[p]] \subseteq objects
    BY <1>12 DEF InstallImport, HasObjects, Named, Naming
  <2>2. files' = [files EXCEPT ![target[p]] = Complete]
    BY <1>12 DEF InstallImport, HasObjects
  <2>3. UNCHANGED <<recorded, objects, target, importing>>
    BY <1>12 DEF InstallImport, local, database, records
  <2>4. /\ pc' = [pc EXCEPT ![p] = "record"]
        /\ \A q \in Process : q # p => pc[q] \notin {"record", "put"}
    BY <1>12 DEF InstallImport, HasObjects, Goto, LocksAreHeld, Locking
  <2>5. /\ \A b \in Build : files[b] \subseteq files'[b]
        /\ files'[target[p]] = Complete
    BY <2>1, <2>2 DEF FilesTyped
  <2>6. \A b \in recorded : Activatable(b)'
    BY <2>3, <2>5 DEF RecordedBuildsOpen, Activatable, Readable, RecordsTyped
  <2>7. QED
    BY <2>1, <2>3, <2>4, <2>5, <2>6 DEF RecordedBuildsOpen, Activatable, Readable, Complete,
       MemoryTyped
<1>13. ASSUME NEW p \in Process, Record(p) PROVE Intact'
  BY <1>13 DEF Record, Recording, Goto, Finish, Forget, Insert, records, local, pointer, disk,
     RecordedBuildsOpen, Activatable, Readable
<1>14. ASSUME NEW p \in Process, FinishBuild(p) PROVE Intact'
  BY <1>14 DEF FinishBuild, Finish, Forget, PointTo, records, pointer, database, disk,
     RecordedBuildsOpen, Activatable, Readable
<1>15. ASSUME NEW p \in Process, StudioCheck(p) PROVE Intact'
  BY <1>15 DEF StudioCheck, Goto, Finish, Forget, local, locks, pointer, records, database, disk,
     RecordedBuildsOpen, Activatable, Readable
<1>16. ASSUME NEW p \in Process, StudioMove(p) PROVE Intact'
  BY <1>16 DEF StudioMove, Finish, Forget, PointTo, records, locks, pointer, database, disk,
     RecordedBuildsOpen, Activatable, Readable
<1>17. ASSUME NEW p \in Process, LockForPrune(p) PROVE Intact'
  BY <1>17 DEF LockForPrune, Goto, local, pointer, records, database, disk, RecordedBuildsOpen,
     Activatable, Readable
<1>18. ASSUME NEW p \in Process, Reconcile(p) PROVE Intact'
  BY <1>18 DEF Reconcile, Goto, pointer, RecordedBuildsOpen, Activatable, Readable
<1>19. ASSUME NEW p \in Process, RemoveDirectory(p) PROVE Intact'
  <2>1. \A b \in recorded : Activatable(b)'
    BY <1>19, RemovalSpares DEF RemovalsAreSafe, RecordsTyped, RecordedBuildsOpen, RemoveDirectory
  <2>2. /\ recorded' = recorded
        /\ \A q \in Process : pc'[q] \notin {"clear", "record", "put"}
    BY <1>19 DEF RemoveDirectory, Goto, LocksAreHeld, Locking, MemoryTyped, locks, database,
       records
  <2>3. QED
    BY <2>1, <2>2 DEF RecordedBuildsOpen
<1>20. ASSUME NEW p \in Process, RemoveObject(p) PROVE Intact'
  <2>1. \A b \in recorded : Activatable(b)'
    BY <1>20, RemovalSpares DEF RemovalsAreSafe, RecordsTyped, RecordedBuildsOpen, RemoveObject
  <2>2. /\ recorded' = recorded
        /\ \A q \in Process : pc'[q] \notin {"clear", "record", "put"}
    BY <1>20 DEF RemoveObject, Goto, LocksAreHeld, Locking, MemoryTyped, locks, database, records
  <2>3. QED
    BY <2>1, <2>2 DEF RecordedBuildsOpen
<1>21. ASSUME NEW p \in Process, FinishPrune(p) PROVE Intact'
  BY <1>21 DEF FinishPrune, Finish, Forget, pointer, records, database, disk, RecordedBuildsOpen,
     Activatable, Readable
<1>22. ASSUME NEW p \in Process, GiveUp(p) PROVE Intact'
  BY <1>22 DEF GiveUp, Finish, Forget, Free, pointer, records, database, disk, RecordedBuildsOpen,
     Activatable, Readable
<1>23. ASSUME NEW p \in Process, Select(p) PROVE Intact'
  BY <1>23 DEF Select, Goto, Finish, Forget, pointer, records, database, disk, RecordedBuildsOpen,
     Activatable, Readable
<1>24. ASSUME NEW p \in Process, Register(p) PROVE Intact'
  BY <1>24 DEF Register, Goto, local, pointer, records, database, RecordedBuildsOpen, Activatable,
     Readable
<1>25. ASSUME NEW p \in Process, CloseCatalog(p) PROVE Intact'
  BY <1>25 DEF CloseCatalog, Goto, local, locks, pointer, records, database, disk,
     RecordedBuildsOpen, Activatable, Readable
<1>26. ASSUME NEW p \in Process, Unregister(p) PROVE Intact'
  BY <1>26 DEF Unregister, Finish, Forget, locks, pointer, records, database, RecordedBuildsOpen,
     Activatable, Readable
<1>27. ASSUME NEW p \in Process, Activate(p) PROVE Intact'
  BY <1>27 DEF Activate, Switch, PointTo, records, local, locks, disk, RecordedBuildsOpen,
     Activatable, Readable
<1>28. ASSUME NEW p \in Process, Rollback(p) PROVE Intact'
  BY <1>28 DEF Rollback, Switch, PointTo, records, local, locks, disk, RecordedBuildsOpen,
     Activatable, Readable
<1>29. ASSUME NEW p \in Process, Preview(p) PROVE Intact'
  BY <1>29 DEF Preview, Begin, Goto, locks, pointer, records, database, disk, RecordedBuildsOpen,
     Activatable, Readable
<1>30. ASSUME NEW p \in Process, BuildFails(p) PROVE Intact'
  BY <1>30 DEF BuildFails, Finish, Forget, pointer, records, database, RecordedBuildsOpen,
     Activatable, Readable
<1>31. ASSUME NEW p \in Process, Crash(p) PROVE Intact'
  BY <1>31 DEF Crash, Finish, Forget, Free, pointer, records, database, disk, RecordedBuildsOpen,
     Activatable, Readable
<1>32. ASSUME NEW b \in Build, Damage(b) PROVE Intact'
  BY <1>32 DEF Damage, RestTyped, local, locks, pointer, records, database, RecordedBuildsOpen,
     Activatable, Readable
<1>33. CASE UNCHANGED vars
  BY <1>33 DEF vars, local, locks, pointer, records, database, disk, RecordedBuildsOpen,
     Activatable, Readable
<1>34. QED
  BY <1>1, <1>2, <1>3, <1>4, <1>5, <1>6, <1>7, <1>8, <1>9, <1>10, <1>11, <1>12, <1>13, <1>14,
     <1>15, <1>16, <1>17, <1>18, <1>19, <1>20, <1>21, <1>22, <1>23, <1>24, <1>25, <1>26, <1>27,
     <1>28, <1>29, <1>30, <1>31, <1>32, <1>33 DEF Next, Start, Step

(***************************************************************************)
(* What a prune removes.                                                   *)
(***************************************************************************)
\* A prune forgets only builds it showed, none of them live or being read.
LEMMA OnlyUnreadAreForgotten ==
  ASSUME Typed, LocksAreHeld, ReadsAreRegistered, NEW p \in Process, Reconcile(p),
         NEW b \in recorded \ recorded'
  PROVE  /\ b \in preview[p].builds /\ b # active
         /\ \A q \in Process : target[q] = b => pc[q] \notin {"register", "reading"}
<1> DEFINE plan == Reconciled(preview[p])
<1>1. b \in plan.builds
  BY DEF Reconcile
<1>2. b \in preview[p].builds /\ b # active /\ b \notin Kept
  BY <1>1, PlansSpare
<1>3. b # None
  BY ConstantsAssumption DEF Typed, TypeOK
<1>4. ASSUME NEW q \in Process, target[q] = b, pc[q] = "register" PROVE FALSE
  BY <1>4, ConstantsAssumption DEF Reconcile, LocksAreHeld, LockingReads
<1>5. ASSUME NEW q \in Process, target[q] = b, pc[q] = "reading" PROVE FALSE
  <2>1. refs[q] = b /\ Running(q)
    BY <1>5 DEF ReadsAreRegistered, LocksAreHeld
  <2>2. b \in ProtectedReads
    BY <2>1, <1>3 DEF ProtectedReads
  <2>3. QED
    BY <1>2, <2>2 DEF Kept
<1>6. QED
  BY <1>2, <1>4, <1>5

\* Records and objects are lost to prunes only.
LEMMA OnlyPrunesRemove ==
  ASSUME [Next]_vars
  PROVE  /\ recorded \subseteq recorded' \/ \E p \in Process : Reconcile(p)
         /\ objects \subseteq objects' \/ \E p \in Process : RemoveObject(p)
<1>1. CASE \E p \in Process : Reconcile(p) \/ RemoveObject(p)
  BY <1>1 DEF Reconcile, RemoveObject, database, records
<1>2. CASE ~ \E p \in Process : Reconcile(p) \/ RemoveObject(p)
  BY <1>2 DEF Next, Start, Step, vars, disk, database, records, pointer, PointTo, Insert,
     Recording, Switch, BeginBuild, BeginImport, StudioPlan, BeginRead, PutObject, Reuse,
     Identify, Clear, WriteCandidate, Seal, SealRefused, InstallImport, Record, FinishBuild,
     StudioCheck, StudioMove, LockForPrune, RemoveDirectory, FinishPrune, GiveUp, Select,
     Register, CloseCatalog, Unregister, Activate, Rollback, Preview, BuildFails, Crash, Damage
<1>3. QED
  BY <1>1, <1>2

LEMMA OnlyShownStep ==
  ASSUME Typed, LocksAreHeld, ReadsAreRegistered, RemovalsAreSafe, [Next]_vars, NEW p \in Process,
         pc[p] \in {"lockReaders", "directories", "objects"}
  PROVE  /\ \A b \in recorded \ recorded' :
              /\ b \in preview[p].builds /\ b # active
              /\ \A q \in Process : target[q] = b => pc[q] \notin {"register", "reading"}
         /\ objects \ objects' \subseteq preview[p].objects \ Referenced({})
<1>1. projectLock = p
  BY DEF LocksAreHeld, Locking
<1>2. ASSUME NEW q \in Process, Reconcile(q) PROVE q = p
  BY <1>1, <1>2 DEF Reconcile, Goto, LocksAreHeld, Locking
<1>3. ASSUME NEW q \in Process, RemoveObject(q) PROVE q = p
  BY <1>1, <1>3 DEF RemoveObject, LocksAreHeld, Locking
<1>4. ASSUME NEW b \in recorded \ recorded'
      PROVE  /\ b \in preview[p].builds /\ b # active
             /\ \A q \in Process : target[q] = b => pc[q] \notin {"register", "reading"}
  BY <1>2, <1>4, OnlyPrunesRemove, OnlyUnreadAreForgotten
<1>5. ASSUME NEW o \in objects \ objects' PROVE o \in preview[p].objects \ Referenced({})
  <2>1. RemoveObject(p)
    BY <1>3, <1>5, OnlyPrunesRemove
  <2>2. pc[p] = "objects" /\ o \in doomed[p].objects
    BY <1>5, <2>1 DEF RemoveObject
  <2>3. \A b \in Build : o \notin Hashes(b)
    BY <2>2 DEF RemovalsAreSafe, Hashes
  <2>4. \A b \in candidates : o \notin Body[b]
    BY <2>2 DEF RemovalsAreSafe
  <2>5. o \notin Referenced({})
    BY <2>3, <2>4 DEF Referenced
  <2>6. QED
    BY <2>2, <2>5 DEF RemovalsAreSafe
<1>6. QED
  BY <1>4, <1>5

(***************************************************************************)
(* The store implements the registry.                                      *)
(***************************************************************************)
\* A step that moves the pointer, or leaves it.
LEMMA PointingImplements ==
  ASSUME Typed, Usable = recorded, Usable' = recorded', Pinned' = Pinned,
         (\E b \in Build : PointTo(b)) \/ UNCHANGED database
  PROVE  [Registry!Next]_(Registry!vars)
BY DEF PointTo, database, records, pointer, Registry!Next, Registry!Point, Registry!vars

\* A process is pinned to nothing before and after.
LEMMA PinsStay ==
  ASSUME Typed,
         \A q \in Process :
           /\ pc'[q] \in {"register", "reading"} <=> pc[q] \in {"register", "reading"}
           /\ pc[q] \in {"register", "reading"} => target'[q] = target[q]
  PROVE  Pinned' = Pinned
BY DEF Pinned

LEMMA RegistryStep ==
  ASSUME Typed, LocksAreHeld, ReadsAreRegistered, PointerAgreesWithHistory, [Next]_vars,
         Usable = recorded, Usable' = recorded'
  PROVE  [Registry!Next]_(Registry!vars)
<1> DEFINE RegistryMoves == [Registry!Next]_(Registry!vars)
<1> USE ConstantsAssumption, TypeParts DEF Typed
<1>1. ASSUME NEW p \in Process, NEW b \in Build, BeginBuild(p, b) PROVE RegistryMoves
  BY <1>1, PinsStay DEF BeginBuild, Begin, Goto, local, locks, pointer, records, database, disk,
     Registry!vars, MemoryTyped
<1>2. ASSUME NEW p \in Process, NEW b \in Build, BeginImport(p, b) PROVE RegistryMoves
  BY <1>2, PinsStay DEF BeginImport, Begin, Goto, local, locks, pointer, records, database, disk,
     Registry!vars, MemoryTyped
<1>3. ASSUME NEW p \in Process, NEW b \in Build, StudioPlan(p, b) PROVE RegistryMoves
  BY <1>3, PinsStay DEF StudioPlan, Begin, Goto, local, locks, pointer, records, database, disk,
     Registry!vars, MemoryTyped
<1>4. ASSUME NEW p \in Process, NEW wanted \in Build \cup {None}, BeginRead(p, wanted)
      PROVE  RegistryMoves
  BY <1>4, PinsStay DEF BeginRead, Begin, Goto, local, locks, pointer, records, database, disk,
     Registry!vars, MemoryTyped
<1>5. ASSUME NEW p \in Process, PutObject(p) PROVE RegistryMoves
  BY <1>5, PinsStay DEF PutObject, local, locks, pointer, records, database, disk, Registry!vars,
     MemoryTyped
<1>6. ASSUME NEW p \in Process, Reuse(p) PROVE RegistryMoves
  <2>1. Pinned' = Pinned
    BY <1>6, PinsStay DEF Reuse, Finish, Forget, HasObjects, MemoryTyped
  <2>2. (\E b \in Build : PointTo(b)) \/ UNCHANGED database
    BY <1>6 DEF Reuse, Finish, Forget, HasObjects, Named, Naming, RecordsTyped, PointTo
  <2>3. QED
    BY <2>1, <2>2, PointingImplements
<1>7. ASSUME NEW p \in Process, Identify(p) PROVE RegistryMoves
  BY <1>7, PinsStay DEF Identify, Goto, HasObjects, local, locks, pointer, records, database,
     disk, Registry!vars, MemoryTyped
<1>8. ASSUME NEW p \in Process, Clear(p) PROVE RegistryMoves
  BY <1>8, PinsStay DEF Clear, Goto, local, locks, pointer, records, database, disk,
     Registry!vars, MemoryTyped
<1>9. ASSUME NEW p \in Process, WriteCandidate(p) PROVE RegistryMoves
  BY <1>9, PinsStay DEF WriteCandidate, Goto, local, locks, pointer, records, database, disk,
     Registry!vars, MemoryTyped
<1>10. ASSUME NEW p \in Process, Seal(p) PROVE RegistryMoves
  BY <1>10, PinsStay DEF Seal, Goto, local, locks, pointer, records, database, disk,
     Registry!vars, MemoryTyped
<1>11. ASSUME NEW p \in Process, SealRefused(p) PROVE RegistryMoves
  BY <1>11, PinsStay DEF SealRefused, Finish, Forget, local, locks, pointer, records, database,
     disk, Registry!vars, MemoryTyped
<1>12. ASSUME NEW p \in Process, InstallImport(p) PROVE RegistryMoves
  BY <1>12, PinsStay DEF InstallImport, Goto, HasObjects, local, locks, pointer, records,
     database, disk, Registry!vars, MemoryTyped
<1>13. ASSUME NEW p \in Process, Record(p) PROVE RegistryMoves
  <2>1. Pinned' = Pinned
    BY <1>13, PinsStay DEF Record, Recording, Goto, Finish, Forget, MemoryTyped, local
  <2>2. UNCHANGED pointer /\ target[p] \in Build
    BY <1>13 DEF Record, Recording, Named, Naming
  <2>3. recorded' = recorded \/ recorded' = recorded \cup {target[p]}
    BY <1>13 DEF Record, Insert, records
  <2>4. QED
    BY <2>1, <2>2, <2>3 DEF pointer, Registry!Next, Registry!Publish, Registry!vars
<1>14. ASSUME NEW p \in Process, FinishBuild(p) PROVE RegistryMoves
  <2>1. Pinned' = Pinned
    BY <1>14, PinsStay DEF FinishBuild, Finish, Forget, MemoryTyped
  <2>2. (\E b \in Build : PointTo(b)) \/ UNCHANGED database
    BY <1>14 DEF FinishBuild, Finish, Forget, Named, Naming, RecordsTyped, PointTo
  <2>3. QED
    BY <2>1, <2>2, PointingImplements
<1>15. ASSUME NEW p \in Process, StudioCheck(p) PROVE RegistryMoves
  BY <1>15, PinsStay DEF StudioCheck, Goto, Finish, Forget, local, locks, pointer, records,
     database, disk, Registry!vars, MemoryTyped
<1>16. ASSUME NEW p \in Process, StudioMove(p) PROVE RegistryMoves
  <2>1. Pinned' = Pinned
    BY <1>16, PinsStay DEF StudioMove, Finish, Forget, MemoryTyped
  <2>2. (\E b \in Build : PointTo(b)) \/ UNCHANGED database
    BY <1>16 DEF StudioMove, Finish, Forget, Named, Naming, RecordsTyped, PointTo
  <2>3. QED
    BY <2>1, <2>2, PointingImplements
<1>17. ASSUME NEW p \in Process, LockForPrune(p) PROVE RegistryMoves
  BY <1>17, PinsStay DEF LockForPrune, Goto, local, locks, pointer, records, database, disk,
     Registry!vars, MemoryTyped
<1>18. ASSUME NEW p \in Process, Reconcile(p) PROVE RegistryMoves
  <2>1. Pinned' = Pinned
    BY <1>18, PinsStay DEF Reconcile, Goto, MemoryTyped
  <2> DEFINE gone == recorded \ recorded'
  <2>2. recorded' = recorded \ gone /\ UNCHANGED pointer
    BY <1>18 DEF Reconcile
  <2>3. \A b \in gone : b # active /\ \A q \in Process : Pinned[q] # b
    BY <1>18, OnlyUnreadAreForgotten DEF Pinned, RecordsTyped
  <2>4. Registry!Retire(gone)
    BY <2>1, <2>2, <2>3 DEF Registry!Retire, pointer
  <2>5. QED
    BY <2>4 DEF Registry!Next
<1>19. ASSUME NEW p \in Process, RemoveDirectory(p) PROVE RegistryMoves
  BY <1>19, PinsStay DEF RemoveDirectory, Goto, local, locks, pointer, records, database, disk,
     Registry!vars, MemoryTyped
<1>20. ASSUME NEW p \in Process, RemoveObject(p) PROVE RegistryMoves
  BY <1>20, PinsStay DEF RemoveObject, local, locks, pointer, records, database, disk,
     Registry!vars, MemoryTyped
<1>21. ASSUME NEW p \in Process, FinishPrune(p) PROVE RegistryMoves
  BY <1>21, PinsStay DEF FinishPrune, Finish, Forget, local, locks, pointer, records, database,
     disk, Registry!vars, MemoryTyped
<1>22. ASSUME NEW p \in Process, GiveUp(p) PROVE RegistryMoves
  BY <1>22, PinsStay DEF GiveUp, Finish, Forget, Free, local, locks, pointer, records, database,
     disk, Registry!vars, MemoryTyped
<1>23. ASSUME NEW p \in Process, Select(p) PROVE RegistryMoves
  <2>1. UNCHANGED <<recorded, pointer>> /\ pc[p] = "select"
    BY <1>23 DEF Select, database, records
  <2>2. CASE Finish(p)
    BY <1>23, <2>1, <2>2, PinsStay DEF Finish, Forget, MemoryTyped, pointer, Registry!vars
  <2>3. CASE ~Finish(p)
    <3> DEFINE b == IF target[p] = None THEN active ELSE target[p]
    <3>1. /\ b # None /\ (target[p] # None => b \in recorded)
          /\ pc' = [pc EXCEPT ![p] = "register"] /\ target' = [target EXCEPT ![p] = b]
      BY <1>23, <2>3 DEF Select, Goto
    <3>2. b \in recorded
      BY <3>1 DEF PointerAgreesWithHistory
    <3>3. Pinned[p] = None /\ Pinned' = [Pinned EXCEPT ![p] = b]
      BY <2>1, <3>1 DEF Pinned, MemoryTyped
    <3> HIDE DEF b
    <3>4. Registry!Pin(p, b) /\ b \in Build
      BY <2>1, <3>2, <3>3 DEF Registry!Pin, pointer, RecordsTyped
    <3>5. QED
      BY <3>4 DEF Registry!Next
  <2>4. QED
    BY <2>2, <2>3
<1>24. ASSUME NEW p \in Process, Register(p) PROVE RegistryMoves
  BY <1>24, PinsStay DEF Register, Goto, local, locks, pointer, records, database, disk,
     Registry!vars, MemoryTyped
<1>25. ASSUME NEW p \in Process, CloseCatalog(p) PROVE RegistryMoves
  <2>1. Pinned' = [Pinned EXCEPT ![p] = None]
    BY <1>25 DEF CloseCatalog, Goto, Pinned, MemoryTyped, local
  <2>2. UNCHANGED <<recorded, pointer>>
    BY <1>25 DEF CloseCatalog, database, records
  <2>3. Registry!Unpin(p)
    BY <2>1, <2>2 DEF Registry!Unpin, pointer
  <2>4. QED
    BY <2>3 DEF Registry!Next
<1>26. ASSUME NEW p \in Process, Unregister(p) PROVE RegistryMoves
  BY <1>26, PinsStay DEF Unregister, Finish, Forget, local, locks, pointer, records, database,
     disk, Registry!vars, MemoryTyped
<1>27. ASSUME NEW p \in Process, Activate(p) PROVE RegistryMoves
  <2>1. Pinned' = Pinned
    BY <1>27, PinsStay DEF Activate, Switch, MemoryTyped, local
  <2>2. (\E b \in Build : PointTo(b)) \/ UNCHANGED database
    BY <1>27 DEF Activate, Switch, Named, Naming, RecordsTyped, PointTo
  <2>3. QED
    BY <2>1, <2>2, PointingImplements
<1>28. ASSUME NEW p \in Process, Rollback(p) PROVE RegistryMoves
  <2>1. Pinned' = Pinned
    BY <1>28, PinsStay DEF Rollback, Switch, MemoryTyped, local
  <2>2. (\E b \in Build : PointTo(b)) \/ UNCHANGED database
    BY <1>28 DEF Rollback, Switch, Named, Naming, RecordsTyped, PointTo
  <2>3. QED
    BY <2>1, <2>2, PointingImplements
<1>29. ASSUME NEW p \in Process, Preview(p) PROVE RegistryMoves
  BY <1>29, PinsStay DEF Preview, Begin, Goto, local, locks, pointer, records, database, disk,
     Registry!vars, MemoryTyped
<1>30. ASSUME NEW p \in Process, BuildFails(p) PROVE RegistryMoves
  BY <1>30, PinsStay DEF BuildFails, Finish, Forget, local, locks, pointer, records, database,
     disk, Registry!vars, MemoryTyped
<1>31. ASSUME NEW p \in Process, Crash(p) PROVE RegistryMoves
  <2>1. Pinned' = [Pinned EXCEPT ![p] = None]
    BY <1>31 DEF Crash, Finish, Forget, Pinned, MemoryTyped
  <2>2. UNCHANGED <<recorded, pointer>>
    BY <1>31 DEF Crash, database, records
  <2>3. Registry!Unpin(p)
    BY <2>1, <2>2 DEF Registry!Unpin, pointer
  <2>4. QED
    BY <2>3 DEF Registry!Next
<1>32. ASSUME NEW b \in Build, Damage(b) PROVE RegistryMoves
  BY <1>32, PinsStay DEF Damage, local, locks, pointer, records, database, disk, Registry!vars,
     MemoryTyped
<1>33. CASE UNCHANGED vars
  BY <1>33 DEF vars, local, locks, pointer, records, database, disk, Pinned, Registry!vars
<1>34. QED
  BY <1>1, <1>2, <1>3, <1>4, <1>5, <1>6, <1>7, <1>8, <1>9, <1>10, <1>11, <1>12, <1>13, <1>14,
     <1>15, <1>16, <1>17, <1>18, <1>19, <1>20, <1>21, <1>22, <1>23, <1>24, <1>25, <1>26, <1>27,
     <1>28, <1>29, <1>30, <1>31, <1>32, <1>33 DEF Next, Start, Step

(***************************************************************************)
(* The theorems.                                                           *)
(***************************************************************************)
\* Holds whatever happens to the files of a build.
StoreInv ==
  /\ Typed
  /\ LocksAreHeld
  /\ PointerAgreesWithHistory
  /\ ReadsAreRegistered
  /\ ObjectsOutliveCatalogs
  /\ CompilersHaveObjects
  /\ RemovalsAreSafe
  /\ RepairsAreClear

LEMMA InitEstablishes ==
  ASSUME Init
  PROVE  StoreInv /\ Intact
<1> USE ConstantsAssumption DEF Init
<1>1. Typed
  BY DEF Typed, TypeOK, Named, Naming, Steps, Plan, NoPlan
<1>2. LocksAreHeld
  BY DEF LocksAreHeld, Locking, LockingReads
<1>3. PointerAgreesWithHistory /\ ReadsAreRegistered
  BY DEF PointerAgreesWithHistory, ReadsAreRegistered
<1>4. ObjectsOutliveCatalogs /\ CompilersHaveObjects /\ RemovalsAreSafe /\ RepairsAreClear
  BY DEF ObjectsOutliveCatalogs, Hashes, CompilersHaveObjects, RemovalsAreSafe, RepairsAreClear
<1>5. Intact
  BY DEF Intact, RecordedBuildsOpen
<1>6. QED
  BY <1>1, <1>2, <1>3, <1>4, <1>5 DEF StoreInv

LEMMA InvStep ==
  ASSUME StoreInv, [Next]_vars
  PROVE  StoreInv'
BY TypeStep, LocksStep, PointerStep, ReadsStep, CatalogsStep, CompilersStep, RemovalsStep,
   RepairsStep DEF StoreInv

LEMMA StoreInvariance == Spec => []StoreInv
<1>1. Init => StoreInv
  BY InitEstablishes
<1>2. StoreInv /\ [Next]_vars => StoreInv'
  BY InvStep
<1>3. QED
  BY <1>1, <1>2, PTL DEF Spec

LEMMA IntactInvariance ==
  ASSUME MaxDamage = 0
  PROVE  Spec => [](StoreInv /\ Intact)
<1>1. Init => StoreInv /\ Intact
  BY InitEstablishes
<1>2. StoreInv /\ Intact /\ [Next]_vars => (StoreInv /\ Intact)'
  BY InvStep, IntactStep DEF StoreInv
<1>3. QED
  BY <1>1, <1>2, PTL DEF Spec

\* Every variable of the store keeps its type (LocalStore.TypeOK), a record is
\* never inserted twice, and records and active rows stay consistent, over every
\* interleaving of builds, imports, activations, prunes, reads and kills.
THEOREM TypeCorrect == Spec => []TypeOK
<1>1. StoreInv => TypeOK
  BY DEF StoreInv, Typed
<1>2. QED
  BY <1>1, StoreInvariance, PTL

\* active_build, the newest activation event and the 'active' records describe
\* one build, whatever interleaves with activate(), recordBuild() and forgetBuilds().
THEOREM PointerAlwaysAgrees == Spec => []PointerAgreesWithHistory
<1>1. StoreInv => PointerAgreesWithHistory
  BY DEF StoreInv
<1>2. QED
  BY <1>1, StoreInvariance, PTL

\* applyRetention removes no object a catalog on disk still names, however far
\* it got before it was killed and whatever is built next to it.
THEOREM ObjectsAlwaysOutliveCatalogs == Spec => []ObjectsOutliveCatalogs
<1>1. StoreInv => ObjectsOutliveCatalogs
  BY DEF StoreInv
<1>2. QED
  BY <1>1, StoreInvariance, PTL

\* The directory of a recorded build that cannot be read is out of the way when
\* the build that replaces it is sealed.
THEOREM DamagedBuildsAreReplaced == Spec => []DamagedBuildIsReplaced
<1>1. StoreInv => DamagedBuildIsReplaced
  BY DEF StoreInv, RepairsAreClear, DamagedBuildIsReplaced
<1>2. QED
  BY <1>1, StoreInvariance, PTL

\* reconcileRetention and applyRetention take only what the preview showed, and
\* nothing that is live, read or still referred to by the time they run.
THEOREM PrunesTakeWhatTheyShowed == Spec => OnlyShownIsRemoved
<1>1. StoreInv /\ [Next]_vars =>
        [\A p \in Process :
          pc[p] \in {"lockReaders", "directories", "objects"} /\ pc'[p] # "idle" =>
            /\ \A b \in recorded \ recorded' :
                 /\ b \in preview[p].builds /\ b # active
                 /\ \A q \in Process : target[q] = b => pc[q] \notin {"register", "reading"}
            /\ projectLock = p => objects \ objects' \subseteq
                 preview[p].objects \ Referenced({})]_vars
  BY OnlyShownStep DEF StoreInv
<1>2. QED
  BY <1>1, StoreInvariance, PTL DEF Spec, OnlyShownIsRemoved

\* As long as nothing outside Lorepack removes files, a record names a build that
\* opens with all its objects: recordBuild() comes after the seal, and prune
\* forgets a record before it touches the directory.
THEOREM RecordedBuildsAlwaysOpen ==
  ASSUME MaxDamage = 0
  PROVE  Spec => []RecordedBuildsOpen
<1>1. Intact => RecordedBuildsOpen
  BY DEF Intact
<1>2. QED
  BY <1>1, IntactInvariance, PTL

\* Under the same condition every run of the store is a run of BuildRegistry:
\* only retained builds go live, and none is retired while it is live or read.
THEOREM StoreImplementsRegistry ==
  ASSUME MaxDamage = 0
  PROVE  Spec => RegistrySpec
<1>1. StoreInv /\ Intact => Usable = recorded
  BY DEF Intact, RecordedBuildsOpen, Usable
<1>2. Init => Registry!Init
  BY DEF Init, Registry!Init, Usable, Pinned
<1>3. StoreInv /\ Intact /\ (StoreInv /\ Intact)' /\ [Next]_vars => [Registry!Next]_(Registry!vars)
  <2>1. SUFFICES ASSUME StoreInv /\ Intact, (StoreInv /\ Intact)', [Next]_vars
                 PROVE  [Registry!Next]_(Registry!vars)
    OBVIOUS
  <2>2. Usable = recorded
    BY <2>1, <1>1
  <2>3. Usable' = recorded'
    BY <2>1 DEF Intact, RecordedBuildsOpen, Usable
  <2>4. QED
    BY <2>1, <2>2, <2>3, RegistryStep DEF StoreInv
<1>4. QED
  BY <1>2, <1>3, IntactInvariance, PTL DEF Spec, RegistrySpec, Registry!Spec

\* Whoever reads the store can rely on what the registry promises: what is live, and
\* what is being read, opens with all its objects.
THEOREM LiveAndReadBuildsAlwaysServe ==
  ASSUME MaxDamage = 0
  PROVE  Spec => []LiveAndReadBuildsServe
<1>1. RegistrySpec => []LiveAndReadBuildsServe
  BY Registry!LiveAndReadAlwaysServe DEF RegistrySpec, LiveAndReadBuildsServe
<1>2. QED
  BY <1>1, StoreImplementsRegistry

(***************************************************************************)
(* The locks, as ExclusiveLock states them.                                *)
(***************************************************************************)
\* What a step does to a lock that was free or held and is now: it leaves it alone, a
\* running process takes it, its holder frees it, or a process dies and frees it.
LockStep(was, is) ==
  \/ is = was /\ life' = life
  \/ \E p \in Process : was = None /\ is = p /\ Running(p) /\ life' = life
  \/ is = None /\ life' = life
  \/ \E p \in Process : is = Free(was, p) /\ life' = [life EXCEPT ![p] = "gone"]

LEMMA LocksMove ==
  ASSUME LocksAreHeld, [Next]_vars
  PROVE  LockStep(projectLock, projectLock') /\ LockStep(readLock, readLock')
<1> DEFINE Moves == LockStep(projectLock, projectLock') /\ LockStep(readLock, readLock')
<1> USE DEF LockStep, locks
<1>1. ASSUME NEW p \in Process, NEW b \in Build, BeginBuild(p, b) \/ BeginImport(p, b)
      PROVE  Moves
  BY <1>1 DEF BeginBuild, BeginImport, Begin
<1>2. ASSUME NEW p \in Process, NEW b \in Build, StudioPlan(p, b) PROVE Moves
  BY <1>2 DEF StudioPlan
<1>3. ASSUME NEW p \in Process, NEW wanted \in Build \cup {None}, BeginRead(p, wanted)
      PROVE  Moves
  BY <1>3 DEF BeginRead, Begin
<1>4. ASSUME NEW p \in Process,
             PutObject(p) \/ Identify(p) \/ Clear(p) \/ WriteCandidate(p) \/ Seal(p)
      PROVE  Moves
  BY <1>4 DEF PutObject, Identify, Clear, WriteCandidate, Seal
<1>5. ASSUME NEW p \in Process, Reuse(p) \/ SealRefused(p) \/ FinishBuild(p) \/ BuildFails(p)
      PROVE  Moves
  BY <1>5 DEF Reuse, SealRefused, FinishBuild, BuildFails
<1>6. ASSUME NEW p \in Process, InstallImport(p) \/ StudioCheck(p) \/ StudioMove(p)
      PROVE  Moves
  BY <1>6 DEF InstallImport, StudioCheck, StudioMove
<1>7. ASSUME NEW p \in Process, Record(p) PROVE Moves
  BY <1>7 DEF Record, Recording
<1>8. ASSUME NEW p \in Process, LockForPrune(p) PROVE Moves
  BY <1>8 DEF LockForPrune, Goto, LocksAreHeld
<1>9. ASSUME NEW p \in Process, Reconcile(p) PROVE Moves
  BY <1>9 DEF Reconcile, Goto, LocksAreHeld
<1>10. ASSUME NEW p \in Process, RemoveDirectory(p) \/ RemoveObject(p) \/ FinishPrune(p)
       PROVE  Moves
  BY <1>10 DEF RemoveDirectory, RemoveObject, FinishPrune
<1>11. ASSUME NEW p \in Process, GiveUp(p) PROVE Moves
  BY <1>11 DEF GiveUp, Free
<1>12. ASSUME NEW p \in Process, Select(p) \/ Register(p) \/ CloseCatalog(p) \/ Unregister(p)
       PROVE  Moves
  BY <1>12 DEF Select, Register, CloseCatalog, Unregister
<1>13. ASSUME NEW p \in Process, Activate(p) \/ Rollback(p) \/ Preview(p) PROVE Moves
  BY <1>13 DEF Activate, Rollback, Switch, Preview
<1>14. ASSUME NEW p \in Process, Crash(p) PROVE Moves
  BY <1>14 DEF Crash
<1>15. ASSUME NEW b \in Build, Damage(b) PROVE Moves
  BY <1>15 DEF Damage
<1>16. CASE UNCHANGED vars
  BY <1>16 DEF vars
<1>17. QED
  BY <1>1, <1>2, <1>3, <1>4, <1>5, <1>6, <1>7, <1>8, <1>9, <1>10, <1>11, <1>12, <1>13, <1>14,
     <1>15, <1>16 DEF Next, Start, Step

LEMMA ProjectLockingStep ==
  ASSUME Typed, Typed', LocksAreHeld, LocksAreHeld', LockStep(projectLock, projectLock')
  PROVE  [ProjectLocking!Next]_(ProjectLocking!vars)
<1> DEFINE inside == {q \in Process : pc[q] \in Locking}
           holder == {projectLock} \ {None}
<1>1. inside = holder /\ inside' = holder'
  BY ConstantsAssumption DEF Typed, TypeOK, LocksAreHeld
<1>2. CASE projectLock' = projectLock /\ life' = life
  <2>1. inside' = inside /\ holder' = holder /\ GoneProcesses' = GoneProcesses
    BY <1>1, <1>2 DEF GoneProcesses, Running
  <2>2. QED
    BY <2>1 DEF ProjectLocking!vars
<1>3. ASSUME NEW p \in Process, projectLock = None, projectLock' = p, Running(p), life' = life
      PROVE  ProjectLocking!Take(p)
  <2>1. holder = {} /\ holder' = {p} /\ p \notin GoneProcesses
    BY <1>3, ConstantsAssumption DEF GoneProcesses
  <2>2. inside' = inside \cup {p} /\ GoneProcesses' = GoneProcesses
    BY <1>1, <1>3, <2>1 DEF GoneProcesses, Running
  <2>3. QED
    BY <2>1, <2>2 DEF ProjectLocking!Take
<1>4. ASSUME NEW p \in Process, projectLock = p, projectLock' = None, life' = life
      PROVE  ProjectLocking!Release(p)
  <2>1. holder = {p} /\ holder' = {}
    BY <1>4, ConstantsAssumption
  <2>2. p \in inside /\ inside' = inside \ {p} /\ GoneProcesses' = GoneProcesses
    BY <1>1, <1>4, <2>1 DEF GoneProcesses, Running
  <2>3. QED
    BY <2>1, <2>2 DEF ProjectLocking!Release
<1>5. ASSUME NEW p \in Process, projectLock' = Free(projectLock, p), life' = [life EXCEPT ![p] = "gone"]
      PROVE  ProjectLocking!Die(p)
  <2>1. GoneProcesses' = GoneProcesses \cup {p}
    BY <1>5 DEF GoneProcesses, Running, Typed, TypeOK
  <2>2. holder' = holder \ {p}
    BY <1>5, ConstantsAssumption DEF Free
  <2>3. inside' = inside \ {p}
    BY <1>1, <2>2
  <2>4. QED
    BY <2>1, <2>2, <2>3 DEF ProjectLocking!Die
<1>6. projectLock \in Process \cup {None}
  BY DEF Typed, TypeOK
<1>7. QED
  BY <1>2, <1>3, <1>4, <1>5, <1>6 DEF LockStep, ProjectLocking!Next

LEMMA ReadLockingStep ==
  ASSUME Typed, Typed', LocksAreHeld, LocksAreHeld', LockStep(readLock, readLock')
  PROVE  [ReadLocking!Next]_(ReadLocking!vars)
<1> DEFINE inside == {q \in Process : pc[q] \in LockingReads}
           holder == {readLock} \ {None}
<1>1. inside = holder /\ inside' = holder'
  BY ConstantsAssumption DEF Typed, TypeOK, LocksAreHeld
<1>2. CASE readLock' = readLock /\ life' = life
  <2>1. inside' = inside /\ holder' = holder /\ GoneProcesses' = GoneProcesses
    BY <1>1, <1>2 DEF GoneProcesses, Running
  <2>2. QED
    BY <2>1 DEF ReadLocking!vars
<1>3. ASSUME NEW p \in Process, readLock = None, readLock' = p, Running(p), life' = life
      PROVE  ReadLocking!Take(p)
  <2>1. holder = {} /\ holder' = {p} /\ p \notin GoneProcesses
    BY <1>3, ConstantsAssumption DEF GoneProcesses
  <2>2. inside' = inside \cup {p} /\ GoneProcesses' = GoneProcesses
    BY <1>1, <1>3, <2>1 DEF GoneProcesses, Running
  <2>3. QED
    BY <2>1, <2>2 DEF ReadLocking!Take
<1>4. ASSUME NEW p \in Process, readLock = p, readLock' = None, life' = life
      PROVE  ReadLocking!Release(p)
  <2>1. holder = {p} /\ holder' = {}
    BY <1>4, ConstantsAssumption
  <2>2. p \in inside /\ inside' = inside \ {p} /\ GoneProcesses' = GoneProcesses
    BY <1>1, <1>4, <2>1 DEF GoneProcesses, Running
  <2>3. QED
    BY <2>1, <2>2 DEF ReadLocking!Release
<1>5. ASSUME NEW p \in Process, readLock' = Free(readLock, p), life' = [life EXCEPT ![p] = "gone"]
      PROVE  ReadLocking!Die(p)
  <2>1. GoneProcesses' = GoneProcesses \cup {p}
    BY <1>5 DEF GoneProcesses, Running, Typed, TypeOK
  <2>2. holder' = holder \ {p}
    BY <1>5, ConstantsAssumption DEF Free
  <2>3. inside' = inside \ {p}
    BY <1>1, <2>2
  <2>4. QED
    BY <2>1, <2>2, <2>3 DEF ReadLocking!Die
<1>6. readLock \in Process \cup {None}
  BY DEF Typed, TypeOK
<1>7. QED
  BY <1>2, <1>3, <1>4, <1>5, <1>6 DEF LockStep, ReadLocking!Next

\* The store uses its two locks within the contract: whatever interleaves, fails or
\* is killed, a process is at a step that needs a lock exactly while it holds it.
THEOREM LocksUsedAsPromised == Spec => UsesLocksAsPromised
<1>1. Init => ProjectLocking!Init /\ ReadLocking!Init
  BY DEF Init, ProjectLocking!Init, ReadLocking!Init, Locking, LockingReads, GoneProcesses, Running
<1>2. StoreInv /\ StoreInv' /\ [Next]_vars =>
        [ProjectLocking!Next]_(ProjectLocking!vars) /\ [ReadLocking!Next]_(ReadLocking!vars)
  BY LocksMove, ProjectLockingStep, ReadLockingStep DEF StoreInv
<1>3. QED
  BY <1>1, <1>2, StoreInvariance, PTL DEF Spec, UsesLocksAsPromised, ProjectLocking!Spec,
     ReadLocking!Spec

=============================================================================
