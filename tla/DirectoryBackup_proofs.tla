----------------------- MODULE DirectoryBackup_proofs -----------------------
(***************************************************************************)
(* Proofs about DirectoryBackup, for any destinations, entries and bounds. *)
(***************************************************************************)
EXTENDS DirectoryBackup, SequenceTheorems, FiniteSetTheorems, WellFoundedInduction, TLAPS

Busy == Positions \ {"idle", "take", "returning"}
AtDestination == {"remove", "copy", "compress", "strip", "clean"}

(* The worker's position tells what it holds.                              *)
Placed ==
  /\ pc \in Busy => job \in Jobs
  /\ pc \in AtDestination => at \in 1 .. Len(job.to)

IInv == TypeOK /\ Placed /\ WorkerOwnsQueue

LEMMA DestType ==
  ASSUME TypeOK, job \in Jobs, at <= Len(job.to)
  PROVE  Dest \in Destinations
BY JobsAssumption DEF TypeOK, Dest, JobType

LEMMA DiskUpdate ==
  ASSUME TypeOK, NEW d \in Destinations, NEW i, NEW c \in Content
  PROVE  [disk EXCEPT ![d][i] = c] \in [Destinations -> [Items -> Content]]
BY DEF TypeOK

LEMMA ItemNames ==
  ASSUME NEW t \in Times
  PROVE  /\ Copy(t) \in Items /\ Archive(t) \in Items
         /\ Copy(t) < Archive(t) /\ Copy(t) # Archive(t)
BY BoundsAssumption DEF Times, Items, Copy, Archive

LEMMA Fresh == 0 \in Times /\ 0 \in 0 .. Files /\ <<>> \in Seq(Jobs)
BY BoundsAssumption, EmptySeq DEF Times

LEMMA IInvInit == Init => IInv
<1> SUFFICES ASSUME Init PROVE IInv
  OBVIOUS
<1>1. TypeOK
  <2>1. pending \in Seq(Jobs) /\ name \in Times /\ copied \in 0 .. Files
    BY Fresh DEF Init
  <2>2. /\ disk \in [Destinations -> [Items -> Content]]
        /\ staging \in [Destinations -> SUBSET Times]
    BY DEF Init, Content
  <2>3. running \in BOOLEAN /\ cancelled \in BOOLEAN /\ failed \in BOOLEAN
    BY DEF Init
  <2>. QED
    BY <2>1, <2>2, <2>3 DEF Init, TypeOK, Positions
<1>2. Placed
  BY DEF Init, Placed, Busy, AtDestination
<1>3. WorkerOwnsQueue
  BY DEF Init, WorkerOwnsQueue
<1>. QED
  BY <1>1, <1>2, <1>3 DEF IInv

LEMMA IInvStep == IInv /\ [Next]_vars => IInv'
<1> SUFFICES ASSUME IInv, [Next]_vars PROVE IInv'
  OBVIOUS
<1> USE JobsAssumption, BoundsAssumption
        DEF IInv, TypeOK, Placed, WorkerOwnsQueue, Busy, AtDestination,
            Positions, Content
<1>1. ASSUME NEW j \in Jobs, BackupFile(j) PROVE IInv'
  <2>1. pending' \in Seq(Jobs)
    BY <1>1, AppendProperties DEF BackupFile
  <2>2. TypeOK'
    BY <1>1, <2>1 DEF BackupFile, files
  <2>3. Placed'
    BY <1>1 DEF BackupFile
  <2>4. WorkerOwnsQueue'
    BY <1>1 DEF BackupFile
  <2>. QED
    BY <2>2, <2>3, <2>4
<1>2. CASE RequestCancel
  BY <1>2 DEF RequestCancel, worker, files
<1>3. CASE DestroyCancel
  BY <1>3 DEF DestroyCancel, worker, files
<1>4. CASE DestroyClear
  BY <1>4 DEF DestroyClear, worker, files
<1>5. CASE DestroyJoin
  BY <1>5 DEF DestroyJoin, worker, files
<1>6. CASE Restart
  <2>1. TypeOK'
    <3>1. pending' \in Seq(Jobs) /\ name' \in Times /\ copied' \in 0 .. Files
      BY <1>6, Fresh DEF Restart
    <3>2. running' \in BOOLEAN /\ cancelled' \in BOOLEAN /\ failed' \in BOOLEAN
      BY <1>6 DEF Restart
    <3>. QED
      BY <1>6, <3>1, <3>2 DEF Restart, files
  <2>2. Placed' /\ WorkerOwnsQueue'
    BY <1>6 DEF Restart
  <2>. QED
    BY <2>1, <2>2
<1>7. CASE TakeNext
  <2>1. CASE pending = <<>>
    BY <1>7, <2>1 DEF TakeNext, files
  <2>2. CASE pending # <<>>
    <3>1. Head(pending) \in Jobs /\ Tail(pending) \in Seq(Jobs)
      BY <2>2, HeadTailProperties
    <3>2. TypeOK'
      <4>1. name' \in Times /\ copied' \in 0 .. Files
        BY <1>7, <2>2, Fresh DEF TakeNext
      <4>2. failed' \in BOOLEAN
        BY <1>7, <2>2 DEF TakeNext
      <4>3. /\ pending' \in Seq(Jobs) /\ job' \in Jobs /\ pc' = "begin"
            /\ at' = 1 /\ report' = "none"
            /\ UNCHANGED <<object, running, cancelled, doomed, kept, files, starts>>
        BY <1>7, <2>2, <3>1 DEF TakeNext
      <4>. QED
        BY <4>1, <4>2, <4>3 DEF files
    <3>3. Placed' /\ WorkerOwnsQueue'
      BY <1>7, <2>2, <3>1 DEF TakeNext
    <3>. QED
      BY <3>2, <3>3
  <2>. QED
    BY <2>1, <2>2
<1>8. CASE WorkerReturns
  BY <1>8 DEF WorkerReturns, files
<1>9. CASE BeginBackup
  BY <1>9 DEF BeginBackup, files
<1>10. CASE RotateDestination
  <2>1. Dest \in Destinations
    BY <1>10, DestType DEF RotateDestination
  <2>2. RotationCandidates(Dest, job.max) \subseteq Items
    BY DEF RotationCandidates, Owned
  <2>3. /\ staging' \in [Destinations -> SUBSET Times] /\ doomed' \subseteq Items
        /\ kept' \subseteq Destinations \X Items
    <3>1. PICK left \in SUBSET staging[Dest] :
            staging' = [staging EXCEPT ![Dest] = left]
      BY <1>10 DEF RotateDestination
    <3>2. left \subseteq Times
      BY <2>1, <3>1
    <3>3. staging' \in [Destinations -> SUBSET Times]
      BY <3>1, <3>2
    <3>4. doomed' \subseteq Items /\ kept' \subseteq Destinations \X Items
      BY <1>10, <2>1, <2>2 DEF RotateDestination
    <3>. QED
      BY <3>3, <3>4
  <2>4. TypeOK'
    BY <1>10, <2>3 DEF RotateDestination
  <2>5. Placed' /\ WorkerOwnsQueue'
    BY <1>10 DEF RotateDestination, JobType
  <2>. QED
    BY <2>4, <2>5
<1>11. CASE RemoveCandidate
  <2>1. Dest \in Destinations
    BY <1>11, DestType DEF RemoveCandidate
  <2>2. disk' \in [Destinations -> [Items -> Content]]
    <3>1. PICK i \in doomed :
            \/ disk' = [disk EXCEPT ![Dest][i] = "partial"]
            \/ disk' = [disk EXCEPT ![Dest][i] = "absent"]
            \/ disk' = disk
      BY <1>11 DEF RemoveCandidate
    <3>. QED
      BY <2>1, <3>1, DiskUpdate
  <2>3. doomed' \subseteq Items /\ kept' \subseteq Destinations \X Items
    BY <1>11, <2>1 DEF RemoveCandidate
  <2>4. TypeOK'
    BY <1>11, <2>2, <2>3 DEF RemoveCandidate
  <2>5. Placed' /\ WorkerOwnsQueue'
    BY <1>11 DEF RemoveCandidate
  <2>. QED
    BY <2>4, <2>5
<1>12. CASE NextRotation
  BY <1>12 DEF NextRotation, files
<1>13. CASE NameBackup
  BY <1>13 DEF NameBackup, files
<1>14. CASE SkipDestination
  BY <1>14 DEF SkipDestination, files
<1>15. CASE OpenStaging
  <2>1. TypeOK'
    BY <1>15, Fresh DEF OpenStaging
  <2>2. Placed' /\ WorkerOwnsQueue'
    BY <1>15 DEF OpenStaging, JobType
  <2>. QED
    BY <2>1, <2>2
<1>16. CASE CopyFile
  BY <1>16 DEF CopyFile, files
<1>17. CASE AbandonCopy
  BY <1>17 DEF AbandonCopy, files
<1>18. CASE Publish
  <2>1. Dest \in Destinations
    BY <1>18, DestType DEF Publish
  <2>2. disk' \in [Destinations -> [Items -> Content]]
    <3>1. CASE UNCHANGED disk
      BY <3>1
    <3>2. CASE disk' # disk
      <4>1. PICK c \in Content : disk' = [disk EXCEPT ![Dest][Copy(name)] = c]
        BY <1>18, <3>2 DEF Publish, files
      <4>. QED
        BY <2>1, <4>1, DiskUpdate
    <3>. QED
      BY <3>1, <3>2
  <2>3. TypeOK'
    BY <1>18, <2>2 DEF Publish, files
  <2>4. Placed' /\ WorkerOwnsQueue'
    BY <1>18 DEF Publish
  <2>. QED
    BY <2>3, <2>4
<1>19. CASE Compress
  <2>1. Dest \in Destinations
    BY <1>19, DestType DEF Compress
  <2>2. disk' \in [Destinations -> [Items -> Content]]
    BY <1>19, <2>1, DiskUpdate DEF Compress, CompressionType
  <2>3. TypeOK'
    BY <1>19, <2>2 DEF Compress
  <2>4. Placed' /\ WorkerOwnsQueue'
    BY <1>19 DEF Compress
  <2>. QED
    BY <2>3, <2>4
<1>20. CASE StripCopy
  <2>1. Dest \in Destinations
    BY <1>20, DestType DEF StripCopy
  <2>2. disk' \in [Destinations -> [Items -> Content]]
    <3>1. \A c \in Content : [disk EXCEPT ![Dest][Copy(name)] = c]
                               \in [Destinations -> [Items -> Content]]
      BY <2>1, DiskUpdate
    <3>. QED
      BY <1>20, <3>1 DEF StripCopy
  <2>3. TypeOK'
    BY <1>20, <2>2 DEF StripCopy
  <2>4. Placed' /\ WorkerOwnsQueue'
    BY <1>20 DEF StripCopy
  <2>. QED
    BY <2>3, <2>4
<1>21. CASE CleanStaging
  BY <1>21 DEF CleanStaging
<1>22. CASE Finish
  BY <1>22 DEF Finish, files
<1>23. CASE UNCHANGED vars
  BY <1>23 DEF vars, worker, files
<1>24. CASE DoBackupThrows
  <2>1. name' \in Times /\ copied' \in 0 .. Files
    BY <1>24, Fresh DEF DoBackupThrows
  <2>2. TypeOK'
    <3>1. /\ failed' \in BOOLEAN
          /\ pc' = "take" /\ at' = 1 /\ report' = "none"
          /\ kept' = {}
          /\ UNCHANGED <<object, pending, running, cancelled, job, doomed,
                         disk, staging, starts>>
      BY <1>24 DEF DoBackupThrows, files
    <3>. QED
      BY <2>1, <3>1
  <2>3. Placed' /\ WorkerOwnsQueue'
    BY <1>24 DEF DoBackupThrows
  <2>. QED
    BY <2>2, <2>3
<1>. QED
  BY <1>1, <1>2, <1>3, <1>4, <1>5, <1>6, <1>7, <1>8, <1>9, <1>10, <1>11,
     <1>12, <1>13, <1>14, <1>15, <1>16, <1>17, <1>18, <1>19, <1>20, <1>21,
     <1>22, <1>23, <1>24
  DEF Next, Worker, Destructor

LEMMA Invariance == Spec => []IInv
BY IInvInit, IInvStep, PTL DEF Spec

(* Only rotation, publication and compression touch finished backups.      *)
LEMMA DiskChanges ==
  ASSUME [Next]_vars
  PROVE  disk' = disk \/ RemoveCandidate \/ Publish \/ Compress \/ StripCopy
BY DEF Next, Worker, Destructor, vars, worker, files, BackupFile,
      RequestCancel, DestroyCancel, DestroyClear, DestroyJoin, Restart,
      TakeNext, WorkerReturns, BeginBackup, RotateDestination, NextRotation,
      NameBackup, SkipDestination, OpenStaging, CopyFile, AbandonCopy,
      CleanStaging, Finish, DoBackupThrows

(* Every variable keeps its type, for all constants.                       *)
THEOREM TypeCorrect == Spec => []TypeOK
BY Invariance, PTL DEF IInv

(* A queued backup always has a worker that will look at the queue again.  *)
THEOREM QueueIsOwned == Spec => []WorkerOwnsQueue
BY Invariance, PTL DEF IInv

-----------------------------------------------------------------------------
(***************************************************************************)
(* A destination never loses its last complete backup.  The argument: what *)
(* is partial always lies below something complete in name order, and what *)
(* rotation is about to delete lies below something complete it keeps.     *)
(***************************************************************************)
TopComplete ==
  \A d \in Destinations, i \in Items :
    disk[d][i] = "partial" =>
      \E k \in Items : k > i /\ disk[d][k] = "complete"

DoomedBelowComplete ==
  pc = "remove" =>
    \A i \in doomed :
      \E k \in Items \ doomed : k > i /\ disk[Dest][k] = "complete"

ArchiveMade ==
  pc = "strip" => disk[Dest][Archive(name)] = "complete"

Retained == TopComplete /\ DoomedBelowComplete /\ ArchiveMade

(* The entries and the compressor this holds for.                          *)
Keeping ==
  /\ \A j \in Jobs : j.max # 1
  /\ Compressions \subseteq {"archived", "refused"}

(* A nonempty set of names has a largest one.                              *)
LEMMA LargestItem ==
  ASSUME NEW S \in SUBSET Items, S # {}
  PROVE  \E m \in S : \A k \in S : k <= m
<1> DEFINE N == 2 * LastSecond + 1
           T == {n \in Nat : \E k \in S : n = N - k}
<1>1. N \in Nat /\ Items = 0 .. N
  BY BoundsAssumption DEF Items
<1> HIDE DEF N
<1>2. T \subseteq Nat /\ \A k \in S : N - k \in T
  BY <1>1
<1>3. PICK x \in T : \A y \in T : ~ (<<y, x>> \in OpToRel(<, Nat))
  <2> HIDE DEF T
  <2>. QED
    BY <1>2, NatLessThanWellFounded, WFMin, Zenon
<1>4. \A y \in T : ~ (y < x)
  BY <1>2, <1>3 DEF OpToRel
<1>5. PICK m \in S : x = N - m
  BY <1>3
<1>6. ASSUME NEW k \in S PROVE k <= m
  <2>1. ~ (N - k < N - m)
    BY <1>2, <1>4, <1>5
  <2>. QED
    BY <1>1, <2>1
<1>. QED
  BY <1>6

(* Rotation keeps the largest owned name of a destination.                 *)
LEMMA LargestIsKept ==
  ASSUME NEW d \in Destinations, NEW max \in Nat \ {1},
         NEW m \in Owned(d), \A k \in Owned(d) : k <= m
  PROVE  m \notin RotationCandidates(d, max)
<1>1. {k \in Owned(d) : k > m} = {}
  BY BoundsAssumption DEF Owned, Items
<1>2. Cardinality({k \in Owned(d) : k > m}) = 0
  BY <1>1, FS_EmptySet
<1>. QED
  BY <1>2 DEF RotationCandidates

(* The conjuncts of Retained that a step with the same disk keeps.         *)
LEMMA RetainedInit == Init => Retained
<1> SUFFICES ASSUME Init PROVE Retained
  OBVIOUS
<1>. QED
  BY DEF Init, Retained, TopComplete, DoomedBelowComplete, ArchiveMade

LEMMA RetainedStep ==
  Keeping /\ IInv /\ Retained /\ [Next]_vars => Retained'
<1> SUFFICES ASSUME Keeping, IInv, Retained, [Next]_vars PROVE Retained'
  OBVIOUS
<1> USE DEF Retained, TopComplete, DoomedBelowComplete, ArchiveMade
<1>0. TypeOK /\ Placed
  BY DEF IInv
<1>1. CASE \E j \in Jobs : BackupFile(j)
  <2>1. disk' = disk /\ doomed' = doomed /\ Dest' = Dest /\ name' = name
        /\ (pc' = pc \/ pc' = "take")
    BY <1>1 DEF BackupFile, files, Dest
  <2>. QED
    BY <2>1
<1>2. CASE RequestCancel
  BY <1>2 DEF RequestCancel, worker, files, Dest
<1>3. CASE DestroyCancel
  BY <1>3 DEF DestroyCancel, worker, files, Dest
<1>4. CASE DestroyClear
  BY <1>4 DEF DestroyClear, worker, files, Dest
<1>5. CASE DestroyJoin
  BY <1>5 DEF DestroyJoin, worker, files, Dest
<1>6. CASE Restart
  BY <1>6 DEF Restart, files
<1>7. CASE TakeNext
  BY <1>7 DEF TakeNext, files
<1>8. CASE WorkerReturns
  BY <1>8 DEF WorkerReturns, files
<1>9. CASE BeginBackup
  BY <1>9 DEF BeginBackup, files
<1>10. CASE RotateDestination
  <2>1. Dest \in Destinations /\ Dest' = Dest /\ job.max \in Nat \ {1}
    <3>1. job \in Jobs /\ at <= Len(job.to)
      BY <1>0, <1>10 DEF RotateDestination, Placed, Busy, Positions
    <3>. QED
      BY <1>0, <1>10, <3>1, DestType, JobsAssumption
      DEF RotateDestination, Dest, JobType, Keeping
  <2>2. ASSUME NEW i \in RotationCandidates(Dest, job.max)
        PROVE  \E k \in Items \ RotationCandidates(Dest, job.max) :
                 k > i /\ disk[Dest][k] = "complete"
    <3>1. i \in Owned(Dest) /\ Owned(Dest) \subseteq Items
      BY DEF RotationCandidates, Owned
    <3>2. PICK m \in Owned(Dest) : \A k \in Owned(Dest) : k <= m
      BY <3>1, LargestItem
    <3>3. m \notin RotationCandidates(Dest, job.max)
      BY <2>1, <3>2, LargestIsKept
    <3>4. m > i
      BY <3>1, <3>2, <3>3, BoundsAssumption DEF Items
    <3>5. disk[Dest][m] # "partial"
      BY <2>1, <3>1, <3>2, BoundsAssumption DEF Owned, Items
    <3>6. disk[Dest][m] = "complete"
      BY <1>0, <2>1, <3>1, <3>2, <3>5 DEF TypeOK, Owned, Content
    <3>. QED
      BY <3>1, <3>2, <3>3, <3>4, <3>6
  <2>. QED
    BY <1>10, <2>1, <2>2 DEF RotateDestination
<1>11. CASE RemoveCandidate
  <2>1. PICK i \in doomed :
          \/ /\ disk' = [disk EXCEPT ![Dest][i] = "partial"]
             /\ doomed' = doomed
          \/ /\ disk' = [disk EXCEPT ![Dest][i] = "absent"]
             /\ disk[Dest][i] = "partial"
             /\ doomed' = doomed \ {i}
          \/ /\ disk' = disk
             /\ doomed' = doomed \ {i}
    BY <1>11 DEF RemoveCandidate
  <2>2. Dest \in Destinations /\ Dest' = Dest /\ i \in Items /\ pc' = "remove"
    BY <1>0, <1>11, DestType
    DEF RemoveCandidate, Dest, TypeOK, Placed, Busy, AtDestination, Positions
  <2>3. pc = "remove"
    BY <1>11 DEF RemoveCandidate
  <2>4. TopComplete'
    <3>. SUFFICES ASSUME NEW d \in Destinations, NEW p \in Items,
                         disk'[d][p] = "partial"
                  PROVE  \E k \in Items : k > p /\ disk'[d][k] = "complete"
      OBVIOUS
    <3>1. PICK k \in Items : k > p /\ disk[d][k] = "complete"
      BY <1>0, <2>1, <2>2, <2>3 DEF TypeOK
    <3>2. CASE d = Dest /\ k = i
      <4>1. PICK l \in Items \ doomed : l > i /\ disk[Dest][l] = "complete"
        BY <2>3
      <4>2. l > p
        BY <3>1, <3>2, <4>1, BoundsAssumption DEF Items
      <4>. QED
        BY <1>0, <2>1, <2>2, <3>2, <4>1, <4>2 DEF TypeOK
    <3>3. CASE ~ (d = Dest /\ k = i)
      BY <1>0, <2>1, <2>2, <3>1, <3>3 DEF TypeOK
    <3>. QED
      BY <3>2, <3>3
  <2>5. DoomedBelowComplete'
    BY <1>0, <2>1, <2>2, <2>3 DEF TypeOK
  <2>. QED
    BY <2>2, <2>4, <2>5
<1>12. CASE NextRotation
  BY <1>12 DEF NextRotation, files
<1>13. CASE NameBackup
  BY <1>13 DEF NameBackup, files
<1>14. CASE SkipDestination
  BY <1>14 DEF SkipDestination, files
<1>15. CASE OpenStaging
  BY <1>15 DEF OpenStaging
<1>16. CASE CopyFile
  BY <1>16 DEF CopyFile, files
<1>17. CASE AbandonCopy
  BY <1>17 DEF AbandonCopy, files
<1>18. CASE Publish
  <2>1. \/ disk' = [disk EXCEPT ![Dest][Copy(name)] = "complete"]
        \/ disk' = disk
    BY <1>18 DEF Publish, files
  <2>2. pc' \in {"compress", "clean"}
    BY <1>18 DEF Publish
  <2>. QED
    BY <1>0, <2>1, <2>2 DEF TypeOK
<1>19. CASE Compress
  <2>1. Dest \in Destinations /\ Archive(name) \in Items
    BY <1>0, <1>19, DestType, ItemNames
    DEF Compress, TypeOK, Placed, Busy, AtDestination, Positions
  <2>2. \/ /\ disk' = [disk EXCEPT ![Dest][Archive(name)] = "complete"]
           /\ pc' = "strip"
        \/ /\ disk' = [disk EXCEPT ![Dest][Archive(name)] = @]
           /\ pc' = "clean"
    BY <1>19 DEF Compress, Keeping
  <2>3. Dest' = Dest /\ name' = name
    BY <1>19 DEF Compress, Dest
  <2>4. CASE /\ disk' = [disk EXCEPT ![Dest][Archive(name)] = "complete"]
             /\ pc' = "strip"
    <3>1. ArchiveMade' /\ DoomedBelowComplete'
      BY <1>0, <2>1, <2>3, <2>4 DEF TypeOK
    <3>2. TopComplete'
      BY <1>0, <2>1, <2>4 DEF TypeOK
    <3>. QED
      BY <3>1, <3>2
  <2>5. CASE /\ disk' = [disk EXCEPT ![Dest][Archive(name)] = @]
             /\ pc' = "clean"
    <3>1. disk' = disk
      BY <1>0, <2>5 DEF TypeOK
    <3>. QED
      BY <2>5, <3>1
  <2>. QED
    BY <2>2, <2>4, <2>5
<1>20. CASE StripCopy
  <2>1. /\ Dest \in Destinations /\ Dest' = Dest /\ name' = name
        /\ Copy(name) \in Items /\ Archive(name) \in Items
        /\ Copy(name) < Archive(name) /\ Copy(name) # Archive(name)
    BY <1>0, <1>20, DestType, ItemNames
    DEF StripCopy, Dest, TypeOK, Placed, Busy, AtDestination, Positions
  <2>2. disk[Dest][Archive(name)] = "complete" /\ pc' \in {"strip", "clean"}
    BY <1>20 DEF StripCopy
  <2>3. \E c \in {"partial", "absent"} :
          disk' = [disk EXCEPT ![Dest][Copy(name)] = c] \/ disk' = disk
    BY <1>20 DEF StripCopy
  <2>4. ArchiveMade'
    BY <1>0, <2>1, <2>2, <2>3 DEF TypeOK
  <2>5. TopComplete'
    <3>. SUFFICES ASSUME NEW d \in Destinations, NEW p \in Items,
                         disk'[d][p] = "partial"
                  PROVE  \E k \in Items : k > p /\ disk'[d][k] = "complete"
      OBVIOUS
    <3>1. CASE d = Dest /\ p < Archive(name)
      BY <1>0, <2>1, <2>2, <2>3, <3>1 DEF TypeOK
    <3>2. CASE ~ (d = Dest /\ p < Archive(name))
      <4>1. disk[d][p] = "partial"
        BY <1>0, <2>1, <2>3, <3>2 DEF TypeOK
      <4>2. PICK k \in Items : k > p /\ disk[d][k] = "complete"
        BY <4>1
      <4>3. ~ (d = Dest /\ k = Copy(name))
        BY <2>1, <3>2, <4>2, BoundsAssumption DEF Items
      <4>. QED
        BY <1>0, <2>1, <2>3, <4>2, <4>3 DEF TypeOK
    <3>. QED
      BY <3>1, <3>2
  <2>. QED
    BY <2>2, <2>4, <2>5
<1>21. CASE CleanStaging
  BY <1>21 DEF CleanStaging
<1>22. CASE Finish
  BY <1>22 DEF Finish, files
<1>23. CASE UNCHANGED vars
  BY <1>23 DEF vars, worker, files, Dest
<1>24. CASE DoBackupThrows
  BY <1>24 DEF DoBackupThrows, files
<1>. QED
  BY <1>1, <1>2, <1>3, <1>4, <1>5, <1>6, <1>7, <1>8, <1>9, <1>10, <1>11,
     <1>12, <1>13, <1>14, <1>15, <1>16, <1>17, <1>18, <1>19, <1>20, <1>21,
     <1>22, <1>23, <1>24
  DEF Next, Worker, Destructor

LEMMA RetainedAlways == ASSUME Keeping PROVE Spec => []Retained
BY Invariance, RetainedInit, RetainedStep, PTL DEF Spec

LEMMA CompleteStays ==
  ASSUME Keeping, IInv, Retained, [Next]_vars,
         NEW d \in Destinations, HasComplete(d)
  PROVE  HasComplete(d)'
<1> USE DEF HasComplete
<1>0. TypeOK /\ Placed
  BY DEF IInv
<1>1. CASE RemoveCandidate
  <2>1. PICK i \in doomed : \/ \E c \in {"partial", "absent"} :
                                 disk' = [disk EXCEPT ![Dest][i] = c]
                            \/ disk' = disk
    BY <1>1 DEF RemoveCandidate
  <2>2. PICK k \in Items \ doomed : disk[Dest][k] = "complete"
    BY <1>1 DEF RemoveCandidate, Retained, DoomedBelowComplete
  <2>3. CASE d = Dest
    BY <1>0, <2>1, <2>2, <2>3 DEF TypeOK
  <2>4. CASE d # Dest
    BY <1>0, <2>1, <2>4 DEF TypeOK
  <2>. QED
    BY <2>3, <2>4
<1>2. CASE StripCopy
  <2>1. /\ Archive(name) \in Items /\ Copy(name) # Archive(name)
        /\ Dest \in Destinations
    BY <1>0, <1>2, DestType, ItemNames, BoundsAssumption
    DEF StripCopy, TypeOK, Items, Times, Copy, Archive, Placed, Busy,
        AtDestination, Positions
  <2>2. disk[Dest][Archive(name)] = "complete"
    BY <1>2 DEF StripCopy, Retained, ArchiveMade
  <2>3. \/ \E c \in {"partial", "absent"} :
             disk' = [disk EXCEPT ![Dest][Copy(name)] = c]
        \/ disk' = disk
    BY <1>2 DEF StripCopy
  <2>4. CASE d = Dest
    BY <1>0, <2>1, <2>2, <2>3, <2>4 DEF TypeOK
  <2>5. CASE d # Dest
    BY <1>0, <2>3, <2>5 DEF TypeOK
  <2>. QED
    BY <2>4, <2>5
<1>3. CASE Publish
  BY <1>0, <1>3 DEF Publish, files, TypeOK
<1>4. CASE Compress
  <2>1. PICK outcome \in {"archived", "refused"} :
          disk' = [disk EXCEPT ![Dest][Archive(name)] =
                     IF outcome = "archived" THEN "complete"
                     ELSE IF outcome = "spoilt" THEN "partial" ELSE @]
    BY <1>4 DEF Compress, Keeping
  <2>. QED
    BY <1>0, <2>1 DEF TypeOK
<1>5. ASSUME disk' = disk PROVE HasComplete(d)'
  BY <1>5
<1>. QED
  BY <1>1, <1>2, <1>3, <1>4, <1>5, DiskChanges

(* When no entry keeps a single backup and a failed compressor leaves no   *)
(* spoilt archive, no step of the system - rotation, a failing run, a      *)
(* failed removal, a kill - takes a destination's last complete backup.    *)
THEOREM CompleteIsKept ==
  ASSUME Keeping
  PROVE  Spec => KeepsAComplete
<1>1. IInv /\ Retained /\ [Next]_vars
        => [\A d \in Destinations : HasComplete(d) => HasComplete(d)']_vars
  BY CompleteStays
<1>. QED
  BY <1>1, Invariance, RetainedAlways, PTL DEF Spec, KeepsAComplete
-----------------------------------------------------------------------------
(***************************************************************************)
(* What shows up under a finished backup's name.                           *)
(***************************************************************************)
LEMMA Appearance ==
  ASSUME "spoilt" \notin Compressions, IInv, [Next]_vars,
         NEW d \in Destinations, NEW i \in Items,
         disk[d][i] = "absent", disk'[d][i] # "absent"
  PROVE  disk'[d][i] = "complete"
<1>0. TypeOK
  BY DEF IInv
<1>1. CASE RemoveCandidate
  <2>1. PICK k \in doomed :
          \/ disk[Dest][k] = "complete" /\ disk' = [disk EXCEPT ![Dest][k] = "partial"]
          \/ disk' = [disk EXCEPT ![Dest][k] = "absent"]
          \/ disk' = disk
    BY <1>1 DEF RemoveCandidate
  <2>. QED
    BY <1>0, <2>1 DEF TypeOK
<1>2. CASE Publish
  <2>1. \/ disk' = [disk EXCEPT ![Dest][Copy(name)] = "complete"]
        \/ disk' = disk
    BY <1>2 DEF Publish, files
  <2>. QED
    BY <1>0, <2>1 DEF TypeOK
<1>3. CASE Compress
  <2>1. \/ disk' = [disk EXCEPT ![Dest][Archive(name)] = "complete"]
        \/ disk' = [disk EXCEPT ![Dest][Archive(name)] = @]
    BY <1>3 DEF Compress
  <2>. QED
    BY <1>0, <2>1 DEF TypeOK
<1>4. CASE StripCopy
  <2>1. \/ /\ disk[Dest][Copy(name)] = "complete"
           /\ disk' = [disk EXCEPT ![Dest][Copy(name)] = "partial"]
        \/ disk' = [disk EXCEPT ![Dest][Copy(name)] = "absent"]
        \/ disk' = disk
    BY <1>4 DEF StripCopy
  <2>. QED
    BY <1>0, <2>1 DEF TypeOK
<1>5. disk' # disk
  OBVIOUS
<1>. QED
  BY <1>1, <1>2, <1>3, <1>4, <1>5, DiskChanges

(* Unless the compressor leaves a spoilt archive, nothing shows up under a *)
(* finished backup's name before it is complete, whatever fails and        *)
(* whenever the process is killed (the staging directory and the rename).  *)
THEOREM OnlyCompleteAppears ==
  ASSUME "spoilt" \notin Compressions
  PROVE  Spec => AppearsComplete
<1>1. IInv /\ [Next]_vars
        => [\A d \in Destinations, i \in Items :
              disk[d][i] = "absent" /\ disk'[d][i] # "absent"
                => disk'[d][i] = "complete"]_vars
  BY Appearance
<1>. QED
  BY <1>1, Invariance, PTL DEF Spec, AppearsComplete

-----------------------------------------------------------------------------
(***************************************************************************)
(* A success is true: no destination that the run has passed is without    *)
(* its backup, unless the run has failed.                                  *)
(***************************************************************************)
Done(d) == disk[d][Copy(name)] = "complete" \/ disk[d][Archive(name)] = "complete"
Copying == {"dest", "copy", "compress", "strip", "clean"}

Reached == pc = "dest" => at <= Len(job.to) + 1

PassedDone ==
  (pc \in Copying /\ ~failed) => \A k \in 1 .. Len(job.to) : k < at => Done(job.to[k])

CopyMade ==
  /\ pc = "compress" => disk[Dest][Copy(name)] = "complete"
  /\ pc = "clean" /\ ~failed => Done(Dest)

ReportDone ==
  report = "success" =>
    /\ pc \in {"take", "returning", "idle"}
    /\ \A k \in 1 .. Len(job.to) : Done(job.to[k])

Truthful == Reached /\ PassedDone /\ CopyMade /\ ArchiveMade /\ ReportDone

LEMMA TruthfulInit == Init => Truthful
BY DEF Init, Truthful, Reached, PassedDone, CopyMade, ArchiveMade, ReportDone, Copying

(* Where the worker copies, its destination and the names are what they    *)
(* should be.                                                              *)
LEMMA AtWork ==
  ASSUME IInv, pc \in AtDestination
  PROVE  /\ job \in Jobs /\ at \in 1 .. Len(job.to) /\ Dest \in Destinations
         /\ Copy(name) \in Items /\ Archive(name) \in Items
         /\ Copy(name) # Archive(name) /\ at \in Nat /\ Len(job.to) \in Nat
<1>1. job \in Jobs /\ at \in 1 .. Len(job.to)
  BY DEF IInv, Placed, AtDestination, Busy, Positions
<1>2. job.to \in Seq(Destinations)
  BY <1>1, JobsAssumption DEF JobType
<1>3. Dest \in Destinations
  BY <1>1, <1>2 DEF Dest
<1>. QED
  BY <1>1, <1>2, <1>3, ItemNames DEF IInv, TypeOK

(* A step that leaves the disk, the entry and the name alone leaves done   *)
(* what is done.                                                           *)
LEMMA DoneStays ==
  ASSUME UNCHANGED <<disk, name>>, NEW d
  PROVE  Done(d)' <=> Done(d)
BY DEF Done

LEMMA TruthfulStep ==
  IInv /\ Truthful /\ [Next]_vars => Truthful'
<1> SUFFICES ASSUME IInv, Truthful, [Next]_vars PROVE Truthful'
  OBVIOUS
<1> USE DEF Truthful, Reached, PassedDone, CopyMade, ArchiveMade, ReportDone, Copying
<1>0. TypeOK
  BY DEF IInv
<1>1. CASE \/ \E j \in Jobs : BackupFile(j)
           \/ RequestCancel \/ DestroyCancel \/ DestroyClear \/ DestroyJoin
           \/ UNCHANGED vars
  <2>1. /\ UNCHANGED <<job, at, name, copied, failed, report, disk>>
        /\ pc' = pc \/ (pc = "idle" /\ pc' = "take")
    BY <1>1 DEF BackupFile, RequestCancel, DestroyCancel, DestroyClear, DestroyJoin,
         vars, worker, files
  <2>. QED
    BY <2>1 DEF Done, Dest
<1>2. CASE Restart
  BY <1>2 DEF Restart, files
<1>3. CASE TakeNext
  BY <1>3 DEF TakeNext, files, Done
<1>4. CASE WorkerReturns
  BY <1>4 DEF WorkerReturns, files, Done
<1>5. CASE BeginBackup
  BY <1>5 DEF BeginBackup, files, Done
<1>6. CASE RotateDestination \/ NextRotation
  BY <1>6 DEF RotateDestination, NextRotation, files
<1>7. CASE RemoveCandidate
  BY <1>7 DEF RemoveCandidate
<1>8. CASE NameBackup
  <2>1. /\ pc = "rotate" /\ pc' = "dest" /\ at' = 1
        /\ UNCHANGED <<job, report, disk>> /\ report # "success"
    BY <1>8 DEF NameBackup, files
  <2>2. Len(job.to) \in Nat
    BY <1>8, JobsAssumption DEF NameBackup, IInv, Placed, Busy, Positions, JobType
  <2>. QED
    BY <2>1, <2>2
<1>9. CASE SkipDestination
  <2>1. /\ pc' = "dest" /\ at' = at + 1 /\ failed' = TRUE /\ at <= Len(job.to)
        /\ UNCHANGED <<job, report>> /\ report # "success"
    BY <1>9 DEF SkipDestination
  <2>2. Len(job.to) \in Nat
    BY <1>9, JobsAssumption DEF SkipDestination, IInv, Placed, Busy, Positions, JobType
  <2>. QED
    BY <1>0, <2>1, <2>2 DEF TypeOK
<1>10. CASE OpenStaging \/ CopyFile
  <2>1. /\ pc \in {"dest", "copy"} /\ pc' = "copy"
        /\ UNCHANGED <<job, at, name, failed, report, disk>>
    BY <1>10 DEF OpenStaging, CopyFile, files
  <2>. QED
    BY <2>1 DEF Done
<1>11. CASE AbandonCopy
  BY <1>11 DEF AbandonCopy
<1>12. CASE Publish
  <2>1. /\ pc = "copy" /\ UNCHANGED <<job, at, name, report>> /\ report # "success"
        /\ Dest' = Dest
    BY <1>12 DEF Publish, Dest
  <2>2. \/ /\ disk' = [disk EXCEPT ![Dest][Copy(name)] = "complete"]
           /\ failed' = failed /\ pc' \in {"compress", "clean"}
        \/ failed' = TRUE /\ pc' = "clean"
    BY <1>12 DEF Publish
  <2>3. CASE failed' = TRUE /\ pc' = "clean"
    BY <2>1, <2>3
  <2>4. CASE /\ disk' = [disk EXCEPT ![Dest][Copy(name)] = "complete"]
             /\ failed' = failed /\ pc' \in {"compress", "clean"}
    <3>1. /\ Dest \in Destinations /\ Copy(name) \in Items
          /\ Copy(name)' = Copy(name) /\ Archive(name)' = Archive(name)
      BY <2>1, AtWork DEF AtDestination
    <3>2. disk'[Dest][Copy(name)] = "complete"
      BY <1>0, <2>4, <3>1 DEF TypeOK
    <3>3. \A d : Done(d) => Done(d)'
      BY <1>0, <2>4, <3>1 DEF TypeOK, Done
    <3>. QED
      BY <2>1, <2>4, <3>1, <3>2, <3>3 DEF Done
  <2>. QED
    BY <2>2, <2>3, <2>4
<1>13. CASE Compress
  <2>1. /\ pc = "compress" /\ UNCHANGED <<job, at, name, report>> /\ report # "success"
        /\ Dest' = Dest
    BY <1>13 DEF Compress, Dest
  <2>2. \/ /\ disk' = [disk EXCEPT ![Dest][Archive(name)] = "complete"]
           /\ failed' = failed /\ pc' = "strip"
        \/ failed' = TRUE /\ pc' = "clean"
    <3>1. PICK outcome \in Compressions :
            /\ disk' = [disk EXCEPT ![Dest][Archive(name)] =
                     IF outcome = "archived" THEN "complete"
                     ELSE IF outcome = "spoilt" THEN "partial" ELSE @]
            /\ failed' = (failed \/ outcome # "archived")
            /\ pc' = IF outcome = "archived" THEN "strip" ELSE "clean"
      BY <1>13 DEF Compress
    <3>2. failed' = failed \/ failed' = TRUE
      BY <1>0, <3>1 DEF TypeOK
    <3>3. CASE outcome = "archived"
      <4>1. failed' = failed
        BY <1>0, <3>1, <3>3 DEF TypeOK
      <4>. QED
        BY <3>1, <3>3, <4>1
    <3>4. CASE outcome # "archived"
      BY <3>1, <3>4
    <3>. QED
      BY <3>3, <3>4
  <2>3. CASE failed' = TRUE /\ pc' = "clean"
    BY <2>1, <2>3
  <2>4. CASE /\ disk' = [disk EXCEPT ![Dest][Archive(name)] = "complete"]
             /\ failed' = failed /\ pc' = "strip"
    <3>1. /\ Dest \in Destinations /\ Archive(name) \in Items
          /\ Copy(name)' = Copy(name) /\ Archive(name)' = Archive(name)
      BY <2>1, AtWork DEF AtDestination
    <3>2. disk'[Dest][Archive(name)] = "complete"
      BY <1>0, <2>4, <3>1 DEF TypeOK
    <3>3. \A d : Done(d) => Done(d)'
      BY <1>0, <2>4, <3>1 DEF TypeOK, Done
    <3>. QED
      BY <2>1, <2>4, <3>1, <3>2, <3>3
  <2>. QED
    BY <2>2, <2>3, <2>4
<1>14. CASE StripCopy
  <2>1. /\ pc = "strip" /\ UNCHANGED <<job, at, name, report>> /\ report # "success"
        /\ Dest' = Dest /\ pc' \in {"strip", "clean"}
    BY <1>14 DEF StripCopy, Dest
  <2>2. \/ /\ \E c \in {"partial", "absent"} :
                disk' = [disk EXCEPT ![Dest][Copy(name)] = c]
           /\ failed' = failed
        \/ failed' = TRUE /\ pc' = "clean" /\ disk' = disk
    BY <1>14 DEF StripCopy
  <2>3. CASE failed' = TRUE /\ pc' = "clean" /\ disk' = disk
    BY <2>1, <2>3
  <2>4. CASE /\ \E c \in {"partial", "absent"} :
                  disk' = [disk EXCEPT ![Dest][Copy(name)] = c]
             /\ failed' = failed
    <3>1. /\ Dest \in Destinations /\ Archive(name) \in Items
          /\ Copy(name) \in Items /\ Copy(name) # Archive(name)
          /\ Copy(name)' = Copy(name) /\ Archive(name)' = Archive(name)
      BY <2>1, AtWork DEF AtDestination
    <3>2. disk'[Dest][Archive(name)] = "complete"
      BY <1>0, <2>1, <2>4, <3>1 DEF TypeOK
    <3>3. Done(Dest)'
      BY <2>1, <3>1, <3>2 DEF Done
    <3>4. ASSUME NEW d, d # Dest, Done(d) PROVE Done(d)'
      BY <1>0, <2>4, <3>1, <3>4 DEF TypeOK, Done
    <3>5. \A k \in 1 .. Len(job.to) : Done(job.to[k]) => Done(job.to[k])'
      BY <2>1, <3>3, <3>4
    <3>. QED
      BY <2>1, <2>4, <3>2, <3>3, <3>5
  <2>. QED
    BY <2>2, <2>3, <2>4
<1>15. CASE CleanStaging
  <2>1. /\ pc = "clean" /\ pc' = "dest" /\ at' = at + 1 /\ report # "success"
        /\ UNCHANGED <<job, name, failed, report, disk>>
    BY <1>15 DEF CleanStaging
  <2>2. at \in 1 .. Len(job.to) /\ at \in Nat /\ Len(job.to) \in Nat
    BY <2>1, AtWork DEF AtDestination
  <2>3. \A k \in 1 .. Len(job.to) : k < at + 1 => k < at \/ k = at
    BY <2>2
  <2>. QED
    BY <2>1, <2>2, <2>3, DoneStays DEF Dest
<1>16. CASE Finish
  <2>1. /\ pc = "dest" /\ at > Len(job.to) /\ pc' = "take"
        /\ report' = IF ~failed /\ ~cancelled THEN "success" ELSE "failure"
        /\ UNCHANGED <<job, at, name, failed, disk>>
    BY <1>16 DEF Finish, files
  <2>2. Len(job.to) \in Nat
    BY <2>1, JobsAssumption DEF IInv, Placed, Busy, Positions, JobType
  <2>3. ~failed => \A k \in 1 .. Len(job.to) : Done(job.to[k])
    BY <1>0, <2>1, <2>2 DEF TypeOK
  <2>. QED
    BY <2>1, <2>3, DoneStays
<1>17. CASE DoBackupThrows
  BY <1>17 DEF DoBackupThrows
<1>. QED
  BY <1>1, <1>2, <1>3, <1>4, <1>5, <1>6, <1>7, <1>8, <1>9, <1>10, <1>11,
     <1>12, <1>13, <1>14, <1>15, <1>16, <1>17
  DEF Next, Worker, Destructor

(* A run that reports success has left a complete backup of its name, copy *)
(* or archive, in every destination of its entry (DoBackup's summary).     *)
THEOREM SuccessIsTrue == Spec => []ReportIsTrue
<1>1. Truthful => ReportIsTrue
  BY DEF Truthful, ReportDone, ReportIsTrue, Done
<1>. QED
  BY <1>1, Invariance, TruthfulInit, TruthfulStep, PTL DEF Spec

-----------------------------------------------------------------------------
(***************************************************************************)
(* Rotation makes room.  What it keeps of a destination is at most max - 1 *)
(* names: the smallest name that is kept has fewer than max - 1 above it.  *)
(***************************************************************************)

(* An entry that lists a destination twice fills it with its own backup    *)
(* before it comes to it again.                                            *)
DistinctDestinations ==
  \A j \in Jobs : \A k, l \in 1 .. Len(j.to) : j.to[k] = j.to[l] => k = l

Roomy(d) == Cardinality(Owned(d) \ KeptByError(d)) < job.max

RotatedBefore ==
  pc \in {"rotate", "remove"} => \A k \in 1 .. Len(job.to) : k < at => Roomy(job.to[k])

RoomAfterRemoval ==
  pc = "remove" =>
    Cardinality((Owned(Dest) \ KeptByError(Dest)) \ doomed) < job.max

RoomAhead ==
  /\ pc \in {"dest", "copy"} =>
       \A k \in 1 .. Len(job.to) : k >= at => Roomy(job.to[k])
  /\ pc \in {"compress", "strip", "clean"} =>
       \A k \in 1 .. Len(job.to) : k > at => Roomy(job.to[k])

BeginsFirst == pc = "begin" => at = 1

Spacious ==
  /\ BeginsFirst
  /\ job.max > 0 => RotatedBefore /\ RoomAfterRemoval /\ RoomAhead

LEMMA ItemsFinite == IsFiniteSet(Items)
<1>1. 0 \in Int /\ 2 * LastSecond + 1 \in Int
  BY BoundsAssumption
<1>. QED
  BY <1>1, FS_Interval DEF Items

LEMMA OwnedFinite ==
  ASSUME NEW d
  PROVE  /\ IsFiniteSet(Owned(d)) /\ Cardinality(Owned(d)) \in Nat
         /\ \A S \in SUBSET Owned(d) : /\ IsFiniteSet(S) /\ Cardinality(S) \in Nat
                                       /\ Cardinality(S) <= Cardinality(Owned(d))
<1>1. Owned(d) \subseteq Items
  BY DEF Owned
<1>2. IsFiniteSet(Owned(d))
  BY <1>1, ItemsFinite, FS_Subset
<1>. QED
  BY <1>2, FS_Subset, FS_CardinalityType

(* A nonempty set of names has a smallest one.                             *)
LEMMA SmallestItem ==
  ASSUME NEW S \in SUBSET Items, S # {}
  PROVE  \E m \in S : \A k \in S : m <= k
<1>1. S \subseteq Nat
  BY BoundsAssumption DEF Items
<1>2. PICK m \in S : \A k \in S : ~ (<<k, m>> \in OpToRel(<, Nat))
  BY <1>1, NatLessThanWellFounded, WFMin, Zenon
<1>3. \A k \in S : ~ (k < m)
  BY <1>1, <1>2 DEF OpToRel
<1>. QED
  BY <1>1, <1>3

LEMMA RotationMakesRoom ==
  ASSUME NEW d, NEW max \in Nat, max > 0
  PROVE  Cardinality(Owned(d) \ RotationCandidates(d, max)) < max
<1> DEFINE Above(i) == {k \in Owned(d) : k > i}
           K == Owned(d) \ RotationCandidates(d, max)
<1>1. /\ K \subseteq Owned(d) /\ K \subseteq Items
      /\ \A i \in K : ~ (Cardinality(Above(i)) >= max - 1)
  BY DEF RotationCandidates, Owned
<1>2. \A i \in Owned(d) : Above(i) \subseteq Owned(d)
  OBVIOUS
<1> HIDE DEF K
<1>3. CASE K = {}
  BY <1>3, FS_EmptySet DEF K
<1>4. CASE K # {}
  <2>1. PICK m \in K : \A k \in K : m <= k
    BY <1>1, <1>4, SmallestItem
  <2>2. K \subseteq Above(m) \cup {m}
    BY <1>1, <2>1, BoundsAssumption DEF Items
  <2>3. /\ IsFiniteSet(Above(m)) /\ Cardinality(Above(m)) \in Nat
        /\ Cardinality(Above(m)) < max - 1
    BY <1>1, <1>2, <2>1, OwnedFinite
  <2> HIDE DEF Above
  <2>4. /\ IsFiniteSet(Above(m) \cup {m})
        /\ Cardinality(Above(m) \cup {m}) <= Cardinality(Above(m)) + 1
    BY <2>3, FS_AddElement
  <2>5. Cardinality(K) <= Cardinality(Above(m) \cup {m})
    BY <2>2, <2>4, FS_Subset
  <2>6. Cardinality(K) \in Nat /\ Cardinality(Above(m) \cup {m}) \in Nat
    BY <1>1, <2>4, OwnedFinite, FS_CardinalityType
  <2>. QED
    BY <2>3, <2>4, <2>5, <2>6 DEF K
<1>. QED
  BY <1>3, <1>4

(* What errors keep or steps remove leaves a destination its room.         *)
LEMMA RoomStays ==
  ASSUME NEW d, Owned(d)' \subseteq Owned(d), KeptByError(d) \subseteq KeptByError(d)',
         UNCHANGED job, Roomy(d), job.max \in Nat
  PROVE  Roomy(d)'
<1> DEFINE Before == Owned(d) \ KeptByError(d)
           After == Owned(d)' \ KeptByError(d)'
<1>1. IsFiniteSet(Before) /\ Cardinality(Before) \in Nat
  BY OwnedFinite
<1>2. After \subseteq Before
  OBVIOUS
<1> HIDE DEF Before, After
<1>3. Cardinality(After) \in Nat /\ Cardinality(After) <= Cardinality(Before)
  BY <1>1, <1>2, FS_Subset, FS_CardinalityType
<1>4. Cardinality(Before) < job.max
  BY DEF Roomy, Before
<1>5. Cardinality(After) < job.max
  BY <1>1, <1>3, <1>4
<1>. QED
  BY <1>5 DEF Roomy, After

LEMMA SpaciousInit == Init => Spacious
BY DEF Init, Spacious, BeginsFirst, RotatedBefore, RoomAfterRemoval, RoomAhead

LEMMA SpaciousStep ==
  DistinctDestinations /\ IInv /\ Spacious /\ [Next]_vars => Spacious'
<1>a. ASSUME BeginsFirst, [Next]_vars
      PROVE  BeginsFirst'
  BY <1>a DEF BeginsFirst, Next, Worker, Destructor, vars, worker, files, BackupFile,
      RequestCancel, DestroyCancel, DestroyClear, DestroyJoin, Restart,
      TakeNext, WorkerReturns, BeginBackup, RotateDestination, RemoveCandidate,
      NextRotation, NameBackup, SkipDestination, OpenStaging, CopyFile, AbandonCopy,
      Publish, Compress, StripCopy, CleanStaging, Finish, DoBackupThrows
<1> SUFFICES ASSUME DistinctDestinations, IInv, Spacious, [Next]_vars, job'.max > 0
             PROVE  RotatedBefore' /\ RoomAfterRemoval' /\ RoomAhead'
  BY <1>a DEF Spacious
<1> USE DEF RotatedBefore, RoomAfterRemoval, RoomAhead
<1>0. /\ TypeOK
      /\ pc \in Busy => /\ job \in Jobs /\ job.max \in Nat /\ Len(job.to) \in Nat
                        /\ at \in Nat
                        /\ \A k \in 1 .. Len(job.to) : job.to[k] \in Destinations
                        /\ \A k, l \in 1 .. Len(job.to) : job.to[k] = job.to[l] => k = l
  <2>1. pc \in Busy => job \in Jobs
    BY DEF IInv, Placed
  <2>2. \A j \in Jobs : j.max \in Nat /\ j.to \in Seq(Destinations)
    BY JobsAssumption DEF JobType
  <2>. QED
    BY <2>1, <2>2 DEF IInv, TypeOK, DistinctDestinations
<1>1. CASE \/ \E j \in Jobs : BackupFile(j)
           \/ RequestCancel \/ DestroyCancel \/ DestroyClear \/ DestroyJoin
           \/ UNCHANGED vars
  <2>1. /\ UNCHANGED <<job, at, doomed, kept, disk>>
        /\ pc' = pc \/ (pc = "idle" /\ pc' = "take")
    BY <1>1 DEF BackupFile, RequestCancel, DestroyCancel, DestroyClear, DestroyJoin,
         vars, worker, files
  <2>. QED
    BY <2>1 DEF Spacious, Roomy, Owned, KeptByError, Dest
<1>2. CASE \/ Restart \/ TakeNext \/ WorkerReturns \/ Finish \/ DoBackupThrows
  <2>1. pc' \in {"idle", "take", "begin", "returning"}
    BY <1>2 DEF Restart, TakeNext, WorkerReturns, Finish, DoBackupThrows
  <2>. QED
    BY <2>1
<1>3. CASE BeginBackup
  <2>1. pc' \in {"take", "rotate"} /\ at' = at /\ pc = "begin" /\ job' = job
    BY <1>3 DEF BeginBackup
  <2>2. at' = 1
    BY <2>1 DEF Spacious, BeginsFirst
  <2>. QED
    BY <2>1, <2>2
<1>4. CASE RotateDestination
  <2>1. /\ pc = "rotate" /\ pc' = "remove" /\ at \in 1 .. Len(job.to)
        /\ UNCHANGED <<job, at, disk>> /\ Dest' = Dest /\ kept \subseteq kept'
    BY <1>0, <1>4 DEF RotateDestination, Dest, TypeOK, Busy, Positions
  <2>2. \A i \in RotationCandidates(Dest, job.max) : i \in doomed' \/ i \in KeptByError(Dest)'
    BY <1>4, <2>1 DEF RotateDestination, KeptByError, RotationCandidates, Owned
  <2>3. job.max \in Nat /\ job.max > 0
    BY <1>0, <2>1 DEF Busy, Positions
  <2>4. \A d : Owned(d)' = Owned(d) /\ KeptByError(d) \subseteq KeptByError(d)'
    BY <2>1 DEF Owned, KeptByError
  <2>5. RoomAfterRemoval'
    <3> DEFINE Kept == Owned(Dest) \ RotationCandidates(Dest, job.max)
               Left == (Owned(Dest)' \ KeptByError(Dest)') \ doomed'
    <3>1. Cardinality(Kept) < job.max
      BY <2>3, RotationMakesRoom
    <3>2. IsFiniteSet(Kept) /\ Cardinality(Kept) \in Nat
      BY OwnedFinite
    <3>3. Left \subseteq Kept
      BY <2>1, <2>2, <2>4
    <3> HIDE DEF Kept, Left
    <3>4. Cardinality(Left) < job.max
      BY <2>3, <3>1, <3>2, <3>3, FS_Subset, FS_CardinalityType
    <3>. QED
      BY <2>1, <3>4 DEF Left
  <2>6. RotatedBefore'
    <3>1. \A k \in 1 .. Len(job.to) : k < at => Roomy(job.to[k])
      BY <2>1, <2>3 DEF Spacious
    <3>2. \A k \in 1 .. Len(job.to) : Roomy(job.to[k]) => Roomy(job.to[k])'
      BY <2>1, <2>3, <2>4, RoomStays
    <3>. QED
      BY <2>1, <3>1, <3>2
  <2>. QED
    BY <2>1, <2>5, <2>6
<1>5. CASE RemoveCandidate
  <2>1. /\ pc = "remove" /\ pc' = "remove" /\ UNCHANGED <<job, at>>
        /\ Dest' = Dest /\ kept \subseteq kept'
    BY <1>5 DEF RemoveCandidate, Dest
  <2>2. job.max \in Nat /\ job.max > 0 /\ Dest \in Destinations
    BY <1>0, <2>1, AtWork DEF Busy, Positions, AtDestination
  <2>3. PICK i \in doomed :
          \/ /\ disk[Dest][i] = "complete" /\ disk' = [disk EXCEPT ![Dest][i] = "partial"]
             /\ doomed' = doomed
          \/ /\ disk' = [disk EXCEPT ![Dest][i] = "absent"]
             /\ doomed' = doomed \ {i}
          \/ /\ disk' = disk /\ doomed' = doomed \ {i}
             /\ kept' = kept \cup {<<Dest, i>>}
    BY <1>5 DEF RemoveCandidate
  <2>4. i \in Items
    BY <1>0 DEF TypeOK
  <2>5. \A d \in Destinations : Owned(d)' \subseteq Owned(d)
    BY <1>0, <2>2, <2>3, <2>4 DEF Owned, TypeOK
  <2>6. \A d : KeptByError(d) \subseteq KeptByError(d)'
    BY <2>1 DEF KeptByError
  <2> DEFINE Left == (Owned(Dest) \ KeptByError(Dest)) \ doomed
             After == (Owned(Dest)' \ KeptByError(Dest)') \ doomed'
  <2>7. After \subseteq Left
    <3>1. CASE doomed' = doomed
      BY <2>1, <2>2, <2>5, <2>6, <3>1
    <3>2. CASE disk' = [disk EXCEPT ![Dest][i] = "absent"] /\ doomed' = doomed \ {i}
      <4>1. i \notin Owned(Dest)'
        BY <1>0, <2>1, <2>2, <2>4, <3>2 DEF Owned, TypeOK
      <4>. QED
        BY <2>1, <2>2, <2>5, <2>6, <3>2, <4>1
    <3>3. CASE doomed' = doomed \ {i} /\ kept' = kept \cup {<<Dest, i>>}
      <4>1. i \in KeptByError(Dest)'
        BY <2>1, <2>4, <3>3 DEF KeptByError
      <4>. QED
        BY <2>1, <2>2, <2>5, <2>6, <3>3, <4>1
    <3>. QED
      BY <2>3, <3>1, <3>2, <3>3
  <2>8. RoomAfterRemoval'
    <3> SUFFICES Cardinality(After) < job.max
      BY <2>1
    <3>1. Cardinality(Left) < job.max
      BY <2>1, <2>2 DEF Spacious
    <3>2. IsFiniteSet(Left) /\ Cardinality(Left) \in Nat
      BY OwnedFinite
    <3> HIDE DEF Left, After
    <3>3. Cardinality(After) <= Cardinality(Left) /\ IsFiniteSet(After)
      BY <2>7, <3>2, FS_Subset
    <3>. QED
      BY <2>2, <3>1, <3>2, <3>3, FS_CardinalityType
  <2>9. RotatedBefore'
    <3>1. \A k \in 1 .. Len(job.to) : k < at => Roomy(job.to[k])
      BY <2>1, <2>2 DEF Spacious
    <3>2. \A k \in 1 .. Len(job.to) : Roomy(job.to[k]) => Roomy(job.to[k])'
      BY <1>0, <2>1, <2>2, <2>5, <2>6, RoomStays DEF Busy, Positions
    <3>. QED
      BY <2>1, <3>1, <3>2
  <2>. QED
    BY <2>1, <2>8, <2>9
<1>6. CASE NextRotation
  <2>1. /\ pc = "remove" /\ pc' = "rotate" /\ doomed = {} /\ at' = at + 1
        /\ UNCHANGED <<job, kept, disk>>
    BY <1>6 DEF NextRotation, files
  <2>2. job.max > 0 /\ at \in 1 .. Len(job.to) /\ at \in Nat /\ Len(job.to) \in Nat
    BY <2>1, AtWork DEF AtDestination
  <2>3. Roomy(Dest)
    <3>1. (Owned(Dest) \ KeptByError(Dest)) \ doomed = Owned(Dest) \ KeptByError(Dest)
      BY <2>1
    <3>. QED
      BY <2>1, <2>2, <3>1 DEF Spacious, Roomy
  <2>4. \A k \in 1 .. Len(job.to) : k < at + 1 => Roomy(job.to[k])
    BY <2>1, <2>2, <2>3 DEF Spacious, Dest
  <2>5. \A d : Roomy(d)' <=> Roomy(d)
    BY <2>1 DEF Roomy, Owned, KeptByError
  <2>. QED
    BY <2>1, <2>4, <2>5
<1>7. CASE NameBackup
  <2>1. /\ pc = "rotate" /\ pc' = "dest" /\ at > Len(job.to)
        /\ UNCHANGED <<job, kept, disk>>
    BY <1>7 DEF NameBackup, files
  <2>2. \A d : Roomy(d)' <=> Roomy(d)
    BY <2>1 DEF Roomy, Owned, KeptByError
  <2>3. \A k \in 1 .. Len(job.to) : k < at
    BY <1>0, <2>1 DEF TypeOK, Busy, Positions
  <2>. QED
    BY <2>1, <2>2, <2>3 DEF Spacious
<1>8. CASE SkipDestination \/ OpenStaging \/ CopyFile \/ AbandonCopy \/ CleanStaging
  <2>1. /\ \/ pc \in {"dest", "copy"} /\ pc' \in {"dest", "copy"} /\ at' \in {at, at + 1}
           \/ pc = "copy" /\ pc' = "clean" /\ at' = at
           \/ pc = "clean" /\ pc' = "dest" /\ at' = at + 1
        /\ UNCHANGED <<job, kept, disk>>
    BY <1>8 DEF SkipDestination, OpenStaging, CopyFile, AbandonCopy, CleanStaging,
       files
  <2>2. \A d : Roomy(d)' <=> Roomy(d)
    BY <2>1 DEF Roomy, Owned, KeptByError
  <2>3. at \in Nat
    BY <1>0 DEF TypeOK
  <2>4. job.max > 0 /\ Len(job.to) \in Nat
    BY <1>0, <2>1 DEF Busy, Positions
  <2>. QED
    BY <2>1, <2>2, <2>3, <2>4 DEF Spacious
<1>9. CASE Publish \/ Compress \/ StripCopy
  <2>1. /\ pc \in {"copy", "compress", "strip"} /\ pc' \in {"compress", "strip", "clean"}
        /\ UNCHANGED <<job, at, kept>>
    BY <1>9 DEF Publish, Compress, StripCopy
  <2>2. /\ at \in 1 .. Len(job.to) /\ at \in Nat /\ job.max > 0 /\ job \in Jobs
        /\ Len(job.to) \in Nat
    BY <2>1, AtWork DEF AtDestination
  <2>3. \A d \in Destinations : d # Dest => disk'[d] = disk[d]
    BY <1>0, <1>9 DEF Publish, Compress, StripCopy, TypeOK, files
  <2>4. \A k \in 1 .. Len(job.to) : k > at => job.to[k] \in Destinations /\ job.to[k] # Dest
    BY <1>0, <2>1, <2>2 DEF Dest, Busy, Positions
  <2>5. \A k \in 1 .. Len(job.to) : k > at => Roomy(job.to[k])
    BY <2>1, <2>2 DEF Spacious
  <2>6. \A k \in 1 .. Len(job.to) : k > at => Roomy(job.to[k])'
    BY <2>1, <2>3, <2>4, <2>5 DEF Roomy, Owned, KeptByError
  <2>. QED
    BY <2>1, <2>6
<1>. QED
  BY <1>1, <1>2, <1>3, <1>4, <1>5, <1>6, <1>7, <1>8, <1>9
  DEF Next, Worker, Destructor

(* If no entry lists a destination twice, every destination has room for   *)
(* the new backup when it is copied, but for the names that an error kept  *)
(* there: those whose own removal failed, and all that were due where the  *)
(* directory could not be listed.  Whatever names the clock, earlier runs  *)
(* and kills have left, and whatever errors other names and other          *)
(* destinations have met (BackupRotation before CopyToDestinations).       *)
THEOREM RotationRoom ==
  ASSUME DistinctDestinations
  PROVE  Spec => []RoomForNew
<1>1. IInv /\ Spacious => RoomForNew
  <2> SUFFICES ASSUME IInv, Spacious, pc \in {"dest", "copy"}, job.max > 0,
                      NEW k \in at .. Len(job.to)
               PROVE  Cardinality(Owned(job.to[k]) \ KeptByError(job.to[k])) < job.max
    BY DEF RoomForNew
  <2>1. k \in 1 .. Len(job.to) /\ k >= at
    <3>1. at \in Nat \ {0}
      BY DEF IInv, TypeOK
    <3>. QED
      BY <3>1
  <2>. QED
    BY <2>1 DEF Spacious, RoomAhead, Roomy
<1>. QED
  BY <1>1, Invariance, SpaciousInit, SpaciousStep, PTL DEF Spec
=============================================================================
