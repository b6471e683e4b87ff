--------------------------- MODULE DirectoryBackup ---------------------------
(***************************************************************************)
(* The backup subsystem: DirectoryBackup.cpp (queue, worker, cancellation, *)
(* destructor) over DirectoryBackupCore.cpp (rotation, staged copy,        *)
(* publication by rename, compression).  All jobs back up the same source  *)
(* directory, so their backups share names and compete for retention.      *)
(*                                                                         *)
(* A backup name is the second at which it was made (the default time      *)
(* format is rotatable and sorts by time).  Local time may jump either way *)
(* (DST, clock correction), so a run may be given any second.              *)
(***************************************************************************)
EXTENDS Naturals, Sequences, FiniteSets

CONSTANTS
  Destinations,  \* destination directories
  Jobs,          \* the configured entries, [to, max, compress]
  NoJob,         \* stands for "the worker holds no entry"
  LastSecond,    \* bound: backup names are the seconds 0..LastSecond
  Files,         \* bound: files in the source directory
  MaxPending,    \* bound: length of m_PendingBackups
  MaxStarts,     \* bound: how often the process is started
  Compressions,  \* what a compressor may do, see Compress
  DiskErrors     \* may a std::filesystem call report an error?

Times == 0 .. LastSecond
Items == 0 .. (2 * LastSecond + 1)
Copy(t) == 2 * t          \* the directory  <source><t>
Archive(t) == 2 * t + 1   \* the file       <source><t>.7z, next in name order

JobType == [to : Seq(Destinations), max : Nat, compress : BOOLEAN]
CompressionType == {"archived", "refused", "spoilt"}

ASSUME JobsAssumption == Jobs \subseteq JobType /\ NoJob \notin Jobs
ASSUME BoundsAssumption == /\ LastSecond \in Nat
                           /\ Files \in Nat
                           /\ MaxPending \in Nat
                           /\ MaxStarts \in Nat
                           /\ DiskErrors \in BOOLEAN
                           /\ Compressions \subseteq CompressionType

VARIABLES
  object,    \* "live", then the destructor: "cancelled", "cleared", "gone"
  pending,   \* m_PendingBackups
  running,   \* m_WorkerRunning
  cancelled, \* m_IsCancelled
  pc,        \* where RunQueuedBackups is
  job,       \* the entry DoBackup works on
  at,        \* index of the destination it has reached
  doomed,    \* what RotationCandidates returned and is not yet removed
  kept,      \* history: <<d, i>> that an error has kept from rotation in this run
  name,      \* the second in backup_name
  copied,    \* files that have reached the staging directory
  failed,    \* some DestinationResult is not a success
  report,    \* BackupSummary::success as reported for this entry
  disk,      \* disk[d][i]: what destination d holds under name i
  staging,   \* staging[d]: seconds whose ".incomplete" directory exists in d
  starts     \* process starts so far

worker == <<pc, job, at, doomed, kept, name, copied, failed, report>>
files == <<disk, staging>>
vars == <<object, pending, running, cancelled, worker, files, starts>>

Content == {"absent", "partial", "complete"}
Positions == {"idle", "take", "begin", "rotate", "remove", "dest", "copy",
              "compress", "strip", "clean", "returning"}

Owned(d) == {i \in Items : disk[d][i] # "absent"}

(* Mutant of RotationCandidates: the names are sorted the wrong way round. *)
KeepSmallestNames(d, max) ==
  {i \in Owned(d) :
     max > 0 /\ Cardinality({k \in Owned(d) : k < i}) >= max - 1}

(* RotationCandidates: everything but the max - 1 largest names.  Zero     *)
(* means unlimited.                                                        *)
RotationCandidates(d, max) ==
  {i \in Owned(d) :
     max > 0 /\ Cardinality({k \in Owned(d) : k > i}) >= max - 1}

Dest == job.to[at]

-----------------------------------------------------------------------------
Init ==
  /\ object = "live" /\ pending = <<>> /\ running = FALSE /\ cancelled = FALSE
  /\ pc = "idle" /\ job = NoJob /\ at = 1 /\ doomed = {}
  /\ kept = {}
  /\ name = 0 /\ copied = 0 /\ failed = FALSE /\ report = "none"
  /\ disk = [d \in Destinations |-> [i \in Items |-> "absent"]]
  /\ staging = [d \in Destinations |-> {}]
  /\ starts = 1

-----------------------------------------------------------------------------
(* The caller's threads.                                                   *)

(* Mutant of BackupFile: rather than wait for the old thread it leaves.    *)
BackupFileUnlessReturning(j) ==
  /\ object = "live"
  /\ Len(pending) < MaxPending
  /\ pending' = Append(pending, j)
  /\ \/ (running \/ pc # "idle") /\ UNCHANGED <<running, pc>>
     \/ ~running /\ pc = "idle" /\ running' = TRUE /\ pc' = "take"
  /\ UNCHANGED <<object, cancelled, job, at, doomed, kept, name, copied,
                 failed, report, files, starts>>

(* BackupFile queues a copy of the entry.  When no worker runs it reaps    *)
(* the old thread (m_WorkerMutex is held meanwhile) and launches one.      *)
BackupFile(j) ==
  /\ object = "live"
  /\ Len(pending) < MaxPending
  /\ pending' = Append(pending, j)
  /\ \/ running /\ UNCHANGED <<running, pc>>
     \/ ~running /\ pc = "idle" /\ running' = TRUE /\ pc' = "take"
  /\ UNCHANGED <<object, cancelled, job, at, doomed, kept, name, copied,
                 failed, report, files, starts>>

RequestCancel ==
  /\ object = "live"
  /\ cancelled' = TRUE
  /\ UNCHANGED <<object, pending, running, worker, files, starts>>

(* ~DirectoryBackup: RequestCancel, clear the queue, wait for the worker.  *)
DestroyCancel ==
  /\ object = "live"
  /\ object' = "cancelled"
  /\ cancelled' = TRUE
  /\ UNCHANGED <<pending, running, worker, files, starts>>

DestroyClear ==
  /\ object = "cancelled"
  /\ object' = "cleared"
  /\ pending' = <<>>
  /\ UNCHANGED <<running, cancelled, worker, files, starts>>

DestroyJoin ==
  /\ object = "cleared"
  /\ pc = "idle"
  /\ object' = "gone"
  /\ UNCHANGED <<pending, running, cancelled, worker, files, starts>>

(* The process ends, in order or killed at any point, and starts again:    *)
(* only the disk survives.                                                 *)
Restart ==
  /\ starts < MaxStarts
  /\ starts' = starts + 1
  /\ object' = "live" /\ pending' = <<>> /\ running' = FALSE /\ cancelled' = FALSE
  /\ pc' = "idle" /\ job' = NoJob /\ at' = 1 /\ doomed' = {}
  /\ kept' = {}
  /\ name' = 0 /\ copied' = 0 /\ failed' = FALSE /\ report' = "none"
  /\ UNCHANGED files

-----------------------------------------------------------------------------
(* RunQueuedBackups.                                                       *)

(* The locals of the last DoBackup are gone when the next entry is taken.  *)
TakeNext ==
  /\ pc = "take"
  /\ \/ /\ pending = <<>>
        /\ running' = FALSE
        /\ pc' = "returning"
        /\ UNCHANGED <<pending, job, at, name, copied, failed, report>>
     \/ /\ pending # <<>>
        /\ job' = Head(pending)
        /\ pending' = Tail(pending)
        /\ pc' = "begin"
        /\ at' = 1 /\ name' = 0 /\ copied' = 0
        /\ failed' = FALSE /\ report' = "none"
        /\ UNCHANGED running
  /\ UNCHANGED <<object, cancelled, doomed, kept, files, starts>>

WorkerReturns ==
  /\ pc = "returning"
  /\ pc' = "idle"
  /\ UNCHANGED <<object, pending, running, cancelled, job, at, doomed,
                 kept, name, copied, failed, report, files, starts>>

(* The head of DoBackup: give up on an invalid source, or clear the        *)
(* cancellation flag and start rotating.                                   *)
BeginBackup ==
  /\ pc = "begin"
  /\ \/ pc' = "take" /\ UNCHANGED <<cancelled, failed>>
     \/ /\ pc' = "rotate"
        /\ cancelled' = FALSE
        /\ failed' = (job.to = <<>>)
  /\ UNCHANGED <<object, pending, running, job, at, doomed, kept, name,
                 copied, report, files, starts>>

-----------------------------------------------------------------------------
(* BackupRotation, once per destination before anything is copied.         *)

(* Sweep the ".incomplete" scrap, then list the candidates.  What cannot   *)
(* be removed or listed stays.  A directory that cannot be listed has no   *)
(* candidates and counts as rotated: all that was due for removal is kept, *)
(* the backup is made nevertheless, and nobody is told.                    *)
RotateDestination ==
  /\ pc = "rotate"
  /\ at <= Len(job.to)
  /\ \E left \in SUBSET staging[Dest] :
       /\ left # {} => DiskErrors
       /\ staging' = [staging EXCEPT ![Dest] = left]
  /\ LET due == RotationCandidates(Dest, job.max)
     IN  \/ doomed' = due /\ UNCHANGED kept
         \/ DiskErrors /\ doomed' = {} /\ kept' = kept \cup ({Dest} \X due)
  /\ pc' = "remove"
  /\ UNCHANGED <<object, pending, running, cancelled, job, at, name,
                 copied, failed, report, disk, starts>>

(* Mutant of RemoveCandidate: the loop ends at the first error.            *)
GiveUpOnError ==
  /\ pc = "remove"
  /\ \E i \in doomed :
       /\ \A k \in doomed : i <= k
       /\ \/ /\ disk[Dest][i] = "complete"
             /\ disk' = [disk EXCEPT ![Dest][i] = "partial"]
             /\ UNCHANGED <<doomed, kept>>
          \/ /\ disk[Dest][i] = "partial"
             /\ disk' = [disk EXCEPT ![Dest][i] = "absent"]
             /\ doomed' = doomed \ {i}
             /\ UNCHANGED kept
          \/ /\ DiskErrors
             /\ doomed' = {}
             /\ kept' = kept \cup {<<Dest, i>>}
             /\ UNCHANGED disk
  /\ UNCHANGED <<object, pending, running, cancelled, pc, job, at, name,
                 copied, failed, report, staging, starts>>

(* remove_all on the smallest remaining candidate: some of it goes, then   *)
(* the rest.  An error leaves what is there and goes on to the next one.   *)
RemoveCandidate ==
  /\ pc = "remove"
  /\ \E i \in doomed :
       /\ \A k \in doomed : i <= k
       /\ \/ /\ disk[Dest][i] = "complete"
             /\ disk' = [disk EXCEPT ![Dest][i] = "partial"]
             /\ UNCHANGED <<doomed, kept>>
          \/ /\ disk[Dest][i] = "partial"
             /\ disk' = [disk EXCEPT ![Dest][i] = "absent"]
             /\ doomed' = doomed \ {i}
             /\ UNCHANGED kept
          \/ /\ DiskErrors
             /\ doomed' = doomed \ {i}
             /\ kept' = kept \cup {<<Dest, i>>}
             /\ UNCHANGED disk
  /\ UNCHANGED <<object, pending, running, cancelled, pc, job, at, name,
                 copied, failed, report, staging, starts>>

NextRotation ==
  /\ pc = "remove"
  /\ doomed = {}
  /\ at' = at + 1
  /\ pc' = "rotate"
  /\ UNCHANGED <<object, pending, running, cancelled, job, doomed, kept,
                 name, copied, failed, report, files, starts>>

(* The name is made of the local time after every rotation is done.        *)
NameBackup ==
  /\ pc = "rotate"
  /\ at > Len(job.to)
  /\ name' \in Times
  /\ at' = 1
  /\ pc' = "dest"
  /\ UNCHANGED <<object, pending, running, cancelled, job, doomed, kept,
                 copied, failed, report, files, starts>>

-----------------------------------------------------------------------------
(* CopyToDestinations, one destination after the other.                    *)

(* Mutant of SkipDestination: a skipped destination is not a failure.      *)
SkipSilently ==
  /\ pc = "dest"
  /\ at <= Len(job.to)
  /\ cancelled \/ disk[Dest][Copy(name)] # "absent" \/ DiskErrors
  /\ at' = at + 1
  /\ UNCHANGED <<object, pending, running, cancelled, pc, job, doomed,
                 kept, name, copied, failed, report, files, starts>>

(* Cancelled, an existing backup of this name, a destination inside the    *)
(* source, a staging directory that cannot be made: the destination is     *)
(* skipped and counted as a failure.                                       *)
SkipDestination ==
  /\ pc = "dest"
  /\ at <= Len(job.to)
  /\ \/ cancelled
     \/ disk[Dest][Copy(name)] # "absent"
     \/ DiskErrors
  /\ failed' = TRUE
  /\ at' = at + 1
  /\ UNCHANGED <<object, pending, running, cancelled, pc, job, doomed,
                 kept, name, copied, report, files, starts>>

(* Mutant of OpenStaging: the copy is made under its final name.           *)
OpenInPlace ==
  /\ pc = "dest"
  /\ at <= Len(job.to)
  /\ ~cancelled
  /\ disk[Dest][Copy(name)] = "absent"
  /\ disk' = [disk EXCEPT ![Dest][Copy(name)] = "partial"]
  /\ copied' = 0
  /\ pc' = "copy"
  /\ UNCHANGED <<object, pending, running, cancelled, job, at, doomed,
                 kept, name, failed, report, staging, starts>>

OpenStaging ==
  /\ pc = "dest"
  /\ at <= Len(job.to)
  /\ ~cancelled
  /\ disk[Dest][Copy(name)] = "absent"
  /\ staging' = [staging EXCEPT ![Dest] = @ \cup {name}]
  /\ copied' = 0
  /\ pc' = "copy"
  /\ UNCHANGED <<object, pending, running, cancelled, job, at, doomed,
                 kept, name, failed, report, disk, starts>>

(* Mutant of CopyFile: the loop runs past the end of the source.           *)
CopyPastEnd ==
  /\ pc = "copy"
  /\ copied <= Files
  /\ ~cancelled
  /\ copied' = copied + 1
  /\ UNCHANGED <<object, pending, running, cancelled, pc, job, at, doomed,
                 kept, name, failed, report, files, starts>>

CopyFile ==
  /\ pc = "copy"
  /\ copied < Files
  /\ ~cancelled
  /\ copied' = copied + 1
  /\ UNCHANGED <<object, pending, running, cancelled, pc, job, at, doomed,
                 kept, name, failed, report, files, starts>>

(* Mutant of AbandonCopy: a cancelled loop continues instead of breaking.  *)
SpinWhenCancelled ==
  /\ pc = "copy"
  /\ copied < Files
  /\ ~cancelled /\ DiskErrors
  /\ failed' = TRUE
  /\ pc' = "clean"
  /\ UNCHANGED <<object, pending, running, cancelled, job, at, doomed,
                 kept, name, copied, report, files, starts>>

(* The copy loop ends early on a cancellation, a failed call or a hash     *)
(* mismatch.                                                               *)
AbandonCopy ==
  /\ pc = "copy"
  /\ copied < Files
  /\ cancelled \/ DiskErrors
  /\ failed' = TRUE
  /\ pc' = "clean"
  /\ UNCHANGED <<object, pending, running, cancelled, job, at, doomed,
                 kept, name, copied, report, files, starts>>

(* After the last file, with no further look at the cancellation flag:     *)
(* rename(staging, destination).  What was staged becomes the backup.      *)
Publish ==
  /\ pc = "copy"
  /\ copied = Files
  /\ \/ /\ staging' = [staging EXCEPT ![Dest] = @ \ {name}]
        /\ disk' = [disk EXCEPT ![Dest][Copy(name)] =
                      IF copied = Files THEN "complete" ELSE "partial"]
        /\ pc' = IF job.compress THEN "compress" ELSE "clean"
        /\ UNCHANGED failed
     \/ /\ DiskErrors
        /\ failed' = TRUE
        /\ pc' = "clean"
        /\ UNCHANGED files
  /\ UNCHANGED <<object, pending, running, cancelled, job, at, doomed,
                 kept, name, copied, report, starts>>

(* The compressor is an external program.  It makes the archive, or fails  *)
(* and leaves what was there, or (7z finishing with warnings) fails and    *)
(* leaves an archive that lacks files.  After a failure the copy is kept.  *)
Compress ==
  /\ pc = "compress"
  /\ \E outcome \in Compressions :
       /\ disk' = [disk EXCEPT ![Dest][Archive(name)] =
                     IF outcome = "archived" THEN "complete"
                     ELSE IF outcome = "spoilt" THEN "partial" ELSE @]
       /\ failed' = (failed \/ outcome # "archived")
       /\ pc' = IF outcome = "archived" THEN "strip" ELSE "clean"
  /\ UNCHANGED <<object, pending, running, cancelled, job, at, doomed,
                 kept, name, copied, report, staging, starts>>

(* remove_all(destination) once the archive exists, in two parts.          *)
StripCopy ==
  /\ pc = "strip"
  /\ \/ /\ disk[Dest][Copy(name)] = "complete"
        /\ disk' = [disk EXCEPT ![Dest][Copy(name)] = "partial"]
        /\ UNCHANGED <<pc, failed>>
     \/ /\ disk[Dest][Copy(name)] = "partial"
        /\ disk' = [disk EXCEPT ![Dest][Copy(name)] = "absent"]
        /\ pc' = "clean"
        /\ UNCHANGED failed
     \/ /\ DiskErrors
        /\ failed' = TRUE
        /\ pc' = "clean"
        /\ UNCHANGED disk
  /\ UNCHANGED <<object, pending, running, cancelled, job, at, doomed,
                 kept, name, copied, report, staging, starts>>

(* The closing remove_all(staging); its error is ignored.                  *)
CleanStaging ==
  /\ pc = "clean"
  /\ \/ staging' = [staging EXCEPT ![Dest] = @ \ {name}]
     \/ DiskErrors /\ UNCHANGED staging
  /\ at' = at + 1
  /\ copied' = 0
  /\ pc' = "dest"
  /\ UNCHANGED <<object, pending, running, cancelled, job, doomed, kept,
                 name, failed, report, disk, starts>>

(* OnBackupFinished(summary).                                              *)
Finish ==
  /\ pc = "dest"
  /\ at > Len(job.to)
  /\ report' = IF ~failed /\ ~cancelled THEN "success" ELSE "failure"
  /\ pc' = "take"
  /\ kept' = {}
  /\ UNCHANGED <<object, pending, running, cancelled, job, at, doomed,
                 name, copied, failed, files, starts>>

(* A call without an error code throws: the directory iterators, exists,   *)
(* popen for the compressor.  RunQueuedBackups catches it, reports nothing *)
(* and goes on with the next entry.                                        *)
DoBackupThrows ==
  /\ DiskErrors
  /\ \/ pc \in {"rotate", "dest"} /\ at <= Len(job.to)
     \/ pc = "compress"
  /\ pc' = "take"
  /\ at' = 1 /\ kept' = {} /\ name' = 0 /\ copied' = 0
  /\ failed' = FALSE /\ report' = "none"
  /\ UNCHANGED <<object, pending, running, cancelled, job, doomed, files,
                 starts>>

-----------------------------------------------------------------------------
Worker ==
  \/ TakeNext \/ WorkerReturns \/ BeginBackup
  \/ RotateDestination \/ RemoveCandidate \/ NextRotation \/ NameBackup
  \/ SkipDestination \/ OpenStaging \/ CopyFile \/ AbandonCopy
  \/ Publish \/ Compress \/ StripCopy \/ CleanStaging
  \/ Finish \/ DoBackupThrows

Destructor == DestroyClear \/ DestroyJoin

Next ==
  \/ \E j \in Jobs : BackupFile(j)
  \/ RequestCancel
  \/ DestroyCancel
  \/ Destructor
  \/ Restart
  \/ Worker

(* The worker is an operating system thread and the destructor runs to its *)
(* end once entered; nobody has to ask for a backup, cancel or shut down.  *)
Spec == Init /\ [][Next]_vars /\ WF_vars(Worker) /\ WF_vars(Destructor)

-----------------------------------------------------------------------------
TypeOK ==
  /\ object \in {"live", "cancelled", "cleared", "gone"}
  /\ pending \in Seq(Jobs)
  /\ running \in BOOLEAN
  /\ cancelled \in BOOLEAN
  /\ pc \in Positions
  /\ job \in Jobs \cup {NoJob}
  /\ at \in Nat \ {0}
  /\ doomed \subseteq Items
  /\ kept \subseteq Destinations \X Items
  /\ name \in Times
  /\ copied \in 0 .. Files
  /\ failed \in BOOLEAN
  /\ report \in {"none", "success", "failure"}
  /\ disk \in [Destinations -> [Items -> Content]]
  /\ staging \in [Destinations -> SUBSET Times]
  /\ starts \in Nat

(* A queued backup always has a worker that will look at the queue again,  *)
(* and once m_WorkerRunning is false the worker has nothing left to do, so *)
(* that BackupFile's wait on the old future never lasts for a backup       *)
(* (BackupFile and RunQueuedBackups agree under m_WorkerMutex).            *)
WorkerOwnsQueue ==
  /\ pending # <<>> => running
  /\ running <=> pc \notin {"idle", "returning"}

KeptByError(d) == {i \in Items : <<d, i>> \in kept}

(* Before the new backup is copied, every destination has room for it, but *)
(* for the names that an error has kept there: it holds at most max - 1    *)
(* others, whatever the clock, earlier runs and kills left behind.  A      *)
(* failed removal and a directory that cannot be listed keep neither other *)
(* names of the destination nor the destinations after it from being       *)
(* rotated (RotateOwnedBackups and BackupRotation go on).                  *)
RoomForNew ==
  (pc \in {"dest", "copy"} /\ job.max > 0) =>
    \A k \in at .. Len(job.to) :
      Cardinality(Owned(job.to[k]) \ KeptByError(job.to[k])) < job.max

(* A run reported as a success has left a complete backup of its name in   *)
(* every destination (BackupSummary::success in DoBackup), despite         *)
(* cancellations, failed calls and compression on the way.                 *)
ReportIsTrue ==
  (pc \in {"take", "returning"} /\ report = "success") =>
    \A k \in 1 .. Len(job.to) :
      \/ disk[job.to[k]][Copy(name)] = "complete"
      \/ disk[job.to[k]][Archive(name)] = "complete"

HasComplete(d) == \E i \in Items : disk[d][i] = "complete"

(* As long as no entry keeps a single backup, a destination that holds a   *)
(* complete backup never ends up without one: not by rotation over names   *)
(* in any order, a run that then fails, a failed removal or a kill.        *)
KeepsAComplete ==
  [][\A d \in Destinations : HasComplete(d) => HasComplete(d)']_vars

(* Nothing shows up under a finished backup's name unless it is complete   *)
(* (staging and rename in CopyToDestinations).                             *)
AppearsComplete ==
  [][\A d \in Destinations, i \in Items :
       disk[d][i] = "absent" /\ disk'[d][i] # "absent"
         => disk'[d][i] = "complete"]_vars

(* The destructor returns: the worker stops or finishes whatever it does   *)
(* (DirectoryBackup.cpp:156; a restart stands for the process being killed *)
(* meanwhile).                                                             *)
DestructorReturns == object = "cancelled" ~> object \in {"gone", "live"}

(* A queued backup is started, unless the object is destroyed or the       *)
(* process killed first: no request is forgotten between the last look at  *)
(* the queue and the worker's end.                                         *)
QueuedBackupStarts ==
  pending # <<>> ~> (pc = "begin" \/ object # "live" \/ pending = <<>>)

(* DirectoryBackup.hpp says the destructor "Cancels and joins a running    *)
(* backup": once it has cancelled and emptied the queue, no destination is *)
(* opened for copying any more.                                            *)
DestructorCancels ==
  [][object = "cleared" => ~(pc = "dest" /\ pc' = "copy")]_vars
=============================================================================
