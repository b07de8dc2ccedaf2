---------------------------- MODULE ImportCleanup ----------------------------
(***************************************************************************)
(* How an import ends: the scheduled cleanup of import-cleanup.service.ts  *)
(* (expiry, the sweep of recorded files, retirement of the metadata, the   *)
(* sweep of orphan directories), the device's acknowledgement, and the two *)
(* that may still be publishing files meanwhile, an upload request, which  *)
(* is fenced by the assembly lease, and the OCR worker, which is not.      *)
(*                                                                         *)
(* One job, one file per upload, one scheduler (runScheduled never         *)
(* overlaps itself).  Time is kept as ages that stop growing when nothing  *)
(* can depend on them any more.                                            *)
(***************************************************************************)
EXTENDS Naturals

CONSTANTS
    Image,        \* question images of the worker's round
    Upload,       \* the file of the upload request
    TTL,          \* age at which the job expires
    Grace,        \* graceMs
    MaxFailures   \* bound on the file operations that fail

File == Image \cup {Upload}

ASSUME CleanupAssumption ==
    /\ Upload \notin Image
    /\ File \cap {"request", "worker"} = {}
    /\ TTL \in Nat /\ Grace \in Nat \ {0} /\ MaxFailures \in Nat

VARIABLES
    status,      \* of the job; "open" is every status before review
    jobAge,      \* since createdAt
    rows,        \* manifest rows: parts and artifacts
    checkpoint,  \* import_cleanup_checkpoints: no row, or the age of missingSince; retired
    acked,       \* acknowledgedAt is set
    lease,       \* who holds a live assembly lease: "request" or "none"
    dir,         \* the job's directory: does it exist, and how old is its mtime
    entries,     \* its entries: files, and the staging files of "request" and "worker"
    uploader,    \* the upload request
    worker,      \* the worker's publication
    device,      \* the acknowledgement request
    sweeper,     \* the scheduled run
    failures,    \* file operations that have failed
    history      \* auxiliary: images published, an acknowledgement begun

jobVars == <<status, jobAge, rows, checkpoint, acked>>
volume == <<dir, entries>>
actors == <<uploader, worker, device, sweeper>>
cleanupVars == <<jobVars, lease, volume, actors, failures, history>>

Terminal == {"confirmed", "cancelled", "expired"}  \* TERMINAL_CLEANUP_STATUSES
MaxJobAge == TTL + Grace
AtRest == [pc |-> "idle", todo |-> {}]

CleanupInit ==
    /\ status = "open" /\ jobAge = 0 /\ rows = {} /\ acked = FALSE
    /\ checkpoint = [row |-> FALSE, age |-> 0, retired |-> FALSE]
    /\ lease = "none"
    /\ dir = [exists |-> FALSE, age |-> 0] /\ entries = {}
    /\ uploader = "idle"
    /\ worker = AtRest
    /\ device = AtRest
    /\ sweeper = AtRest
    /\ failures = 0
    /\ history = [published |-> {}, acking |-> FALSE]

-----------------------------------------------------------------------------
(* The directory and the clock.                                            *)

SetEntries(names) ==
    /\ entries' = names
    /\ dir' = IF names = entries THEN dir ELSE [exists |-> TRUE, age |-> 0]

MakeDirectory ==
    /\ dir' = IF dir.exists THEN dir ELSE [exists |-> TRUE, age |-> 0]
    /\ UNCHANGED entries

\* rmdir, unless a name is left.
LeaveOrRemove(left) ==
    /\ entries' = left
    /\ dir' = IF left = {} THEN [exists |-> FALSE, age |-> 0]
              ELSE IF left = entries THEN dir ELSE [exists |-> TRUE, age |-> 0]

\* deleteStorageKey.
Delete(f) == IF f \in entries THEN LeaveOrRemove(entries \ {f}) ELSE UNCHANGED volume

\* A run reads the clock once and is short: the clock does not move during it.
Tick ==
    /\ sweeper.pc = "idle"
    /\ jobAge' = IF jobAge < MaxJobAge THEN jobAge + 1 ELSE jobAge
    /\ checkpoint' = [checkpoint EXCEPT !.age = IF checkpoint.row /\ @ < Grace THEN @ + 1 ELSE @]
    /\ dir' = [dir EXCEPT !.age = IF dir.exists /\ @ < Grace THEN @ + 1 ELSE @]
    /\ UNCHANGED <<status, rows, acked, lease, entries, actors, failures, history>>

Overdue == jobAge >= TTL      \* expiresAt <= now
PastExpiry == jobAge > TTL    \* expiresAt < now

-----------------------------------------------------------------------------
(* Decisions about the job.                                                *)

Cancel ==
    /\ status \in {"open", "review"}
    /\ status' = "cancelled"
    /\ UNCHANGED <<jobAge, rows, checkpoint, acked, lease, volume, actors, failures, history>>

Confirm ==
    /\ status = "review"
    /\ ~Overdue
    /\ status' = "confirmed"
    /\ UNCHANGED <<jobAge, rows, checkpoint, acked, lease, volume, actors, failures, history>>

-----------------------------------------------------------------------------
(* The upload request: lease, row, staging file, fence, link, last check.  *)

Upstream(pc) == uploader' = pc /\ UNCHANGED <<worker, device, sweeper>>

\* The lease is taken and the row recorded; the steps between are ImportAssembly's.
RecordUpload ==
    /\ uploader = "idle"
    /\ status = "open"
    /\ lease' = "request"
    /\ rows' = rows \cup {Upload}
    /\ Upstream("enter")
    /\ UNCHANGED <<status, jobAge, checkpoint, acked, volume, failures, history>>

LeaseRunsOut ==
    /\ lease = "request"
    /\ lease' = "none"
    /\ UNCHANGED <<jobVars, volume, actors, failures, history>>

EnterUpload ==
    /\ uploader = "enter"
    /\ MakeDirectory
    /\ Upstream("stage")
    /\ UNCHANGED <<jobVars, lease, failures, history>>

StageUpload ==
    /\ uploader = "stage"
    /\ IF dir.exists THEN SetEntries(entries \cup {"request"}) /\ Upstream("fence")
                     ELSE Upstream("release") /\ UNCHANGED volume
    /\ UNCHANGED <<jobVars, lease, failures, history>>

FenceUpload ==
    /\ uploader = "fence"
    /\ \/ lease = "request" /\ Upstream("link") /\ UNCHANGED volume
       \/ lease # "request" /\ Upstream("release") /\ SetEntries(entries \ {"request"})
    /\ UNCHANGED <<jobVars, lease, failures, history>>

LinkUpload ==
    /\ uploader = "link"
    /\ IF "request" \in entries
       THEN SetEntries((entries \ {"request"}) \cup {Upload}) /\ Upstream("published")
       ELSE Upstream("release") /\ UNCHANGED volume
    /\ UNCHANGED <<jobVars, lease, failures, history>>

CheckUpload ==
    /\ uploader = "published"
    /\ IF lease = "request" THEN UNCHANGED volume ELSE Delete(Upload)
    /\ Upstream("release")
    /\ UNCHANGED <<jobVars, lease, failures, history>>

ReleaseUpload ==
    /\ uploader = "release"
    /\ lease' = "none"
    /\ Upstream("done")
    /\ UNCHANGED <<jobVars, volume, failures, history>>

RequestStep ==
    RecordUpload \/ EnterUpload \/ StageUpload \/ FenceUpload \/ LinkUpload \/ CheckUpload
        \/ ReleaseUpload

-----------------------------------------------------------------------------
(* The worker: rows and review in one transaction, then image after image. *)

Working(next) == worker' = next /\ UNCHANGED <<uploader, device, sweeper>>

WriteDraft ==
    /\ worker.pc = "idle"
    /\ status = "open"
    /\ status' = "review"
    /\ rows' = rows \cup Image
    /\ Working([pc |-> "enter", todo |-> Image])
    /\ UNCHANGED <<jobAge, checkpoint, acked, lease, volume, failures, history>>

\* _job_directory makes the directory if it has to.
EnterImage ==
    /\ worker.pc = "enter"
    /\ worker.todo # {}
    /\ MakeDirectory
    /\ Working([worker EXCEPT !.pc = "stage"])
    /\ UNCHANGED <<jobVars, lease, failures, history>>

StageImage ==
    /\ worker.pc = "stage"
    /\ IF dir.exists
       THEN SetEntries(entries \cup {"worker"}) /\ Working([worker EXCEPT !.pc = "link"])
       ELSE Working([pc |-> "done", todo |-> {}]) /\ UNCHANGED volume
    /\ UNCHANGED <<jobVars, lease, failures, history>>

LinkImage ==
    /\ worker.pc = "link"
    /\ IF "worker" \in entries
       THEN \E i \in worker.todo :
               /\ SetEntries((entries \ {"worker"}) \cup {i})
               /\ Working([pc |-> "enter", todo |-> worker.todo \ {i}])
               /\ history' = [history EXCEPT !.published = @ \cup {i}]
       ELSE Working([pc |-> "done", todo |-> {}]) /\ UNCHANGED <<volume, history>>
    /\ UNCHANGED <<jobVars, lease, failures>>

WorkerStep == WriteDraft \/ EnterImage \/ StageImage \/ LinkImage

-----------------------------------------------------------------------------
(* ackArtifacts: delete what is recorded, then the directory, then mark.   *)
(* A failure is answered ARTIFACT_CLEANUP_RETRY.                           *)

Acking(next) == device' = next /\ UNCHANGED <<uploader, worker, sweeper>>

\* The device has downloaded, or given up on, every image of its bank.
PrepareAck ==
    /\ device.pc = "idle"
    /\ status = "confirmed"
    /\ ~Overdue
    /\ ~acked
    /\ Acking([pc |-> "unlink", todo |-> rows])
    /\ history' = [history EXCEPT !.acking = TRUE]
    /\ UNCHANGED <<jobVars, lease, volume, failures>>

AckUnlink ==
    /\ device.pc = "unlink"
    /\ \/ \E f \in device.todo :
             Delete(f) /\ Acking([device EXCEPT !.todo = @ \ {f}]) /\ UNCHANGED failures
       \/ /\ device.todo = {}
          /\ Acking([pc |-> "sweep", todo |-> entries])
          /\ UNCHANGED <<volume, failures>>
       \/ /\ device.todo # {}
          /\ failures < MaxFailures
          /\ failures' = failures + 1
          /\ Acking(AtRest)
          /\ UNCHANGED volume
    /\ UNCHANGED <<jobVars, lease, history>>

AckSweep ==
    /\ device.pc = "sweep"
    /\ IF dir.exists THEN LeaveOrRemove(entries \ device.todo) ELSE UNCHANGED volume
    /\ Acking([pc |-> "exists", todo |-> {}])
    /\ UNCHANGED <<jobVars, lease, failures, history>>

\* The directory may still, or again, be there.
AckExists ==
    /\ device.pc = "exists"
    /\ Acking(IF dir.exists THEN AtRest ELSE [pc |-> "mark", todo |-> {}])
    /\ UNCHANGED <<jobVars, lease, volume, failures, history>>

MarkAcknowledged ==
    /\ device.pc = "mark"
    /\ acked' = (acked \/ (status = "confirmed" /\ ~Overdue))
    /\ Acking(AtRest)
    /\ UNCHANGED <<status, jobAge, rows, checkpoint, lease, volume, failures, history>>

DeviceStep == PrepareAck \/ AckUnlink \/ AckSweep \/ AckExists \/ MarkAcknowledged

-----------------------------------------------------------------------------
(* The scheduled run: expire, sweep the candidate, sweep orphans.          *)

Sweeping(pc, todo) ==
    sweeper' = [pc |-> pc, todo |-> todo] /\ UNCHANGED <<uploader, worker, device>>

Expire ==
    /\ sweeper.pc = "idle"
    /\ status' = IF PastExpiry /\ status \in {"open", "review"} THEN "expired" ELSE status
    /\ Sweeping("select", {})
    /\ UNCHANGED <<jobAge, rows, checkpoint, acked, lease, volume, failures, history>>

\* Fault: a confirmed job is swept without waiting for its device.
CandidateOnceConfirmed == status \in Terminal /\ ~checkpoint.retired

Candidate ==
    /\ status \in {"cancelled", "expired"} \/ (status = "confirmed" /\ (Overdue \/ acked))
    /\ ~checkpoint.retired

Select ==
    /\ sweeper.pc = "select"
    /\ IF Candidate THEN Sweeping("unlink", rows) ELSE Sweeping("orphan", {})
    /\ UNCHANGED <<jobVars, lease, volume, failures, history>>

\* A failed deletion ends the candidate's sweep, not the run.
SweepUnlink ==
    /\ sweeper.pc = "unlink"
    /\ \/ \E f \in sweeper.todo :
             Delete(f) /\ Sweeping("unlink", sweeper.todo \ {f}) /\ UNCHANGED failures
       \/ /\ sweeper.todo = {}
          /\ Sweeping("sweep", entries)
          /\ UNCHANGED <<volume, failures>>
       \/ /\ sweeper.todo # {}
          /\ failures < MaxFailures
          /\ failures' = failures + 1
          /\ Sweeping("orphan", {})
          /\ UNCHANGED volume
    /\ UNCHANGED <<jobVars, lease, history>>

\* deleteJobDirectory, with the entries it has read; then jobDirectoryExists.
SweepDirectory ==
    /\ sweeper.pc = "sweep"
    /\ IF dir.exists THEN LeaveOrRemove(entries \ sweeper.todo) ELSE UNCHANGED volume
    /\ Sweeping("exists", {})
    /\ UNCHANGED <<jobVars, lease, failures, history>>

SweepExists ==
    /\ sweeper.pc = "exists"
    /\ Sweeping(IF dir.exists THEN "orphan" ELSE "note", {})
    /\ UNCHANGED <<jobVars, lease, volume, failures, history>>

\* Fault: the metadata goes although a request is still at work.
MayRetireDespiteLease == Overdue

MayRetire == Overdue /\ lease = "none"

\* Fault: the first observation already forgets the rows.
ForgetAtOnce ==
    /\ sweeper.pc = "note"
    /\ IF ~MayRetire THEN UNCHANGED <<checkpoint, rows>>
       ELSE IF ~checkpoint.row
       THEN checkpoint' = [row |-> TRUE, age |-> 0, retired |-> FALSE] /\ rows' = {}
       ELSE IF checkpoint.age < Grace THEN UNCHANGED <<checkpoint, rows>>
       ELSE checkpoint' = [checkpoint EXCEPT !.retired = TRUE] /\ rows' = {}
    /\ Sweeping("orphan", {})
    /\ UNCHANGED <<status, jobAge, acked, lease, volume, failures, history>>

\* noteCleanupMissing: the second observation, Grace after the first, retires.
NoteMissing ==
    /\ sweeper.pc = "note"
    /\ IF ~MayRetire THEN UNCHANGED <<checkpoint, rows>>
       ELSE IF ~checkpoint.row
       THEN checkpoint' = [row |-> TRUE, age |-> 0, retired |-> FALSE] /\ UNCHANGED rows
       ELSE IF checkpoint.age < Grace THEN UNCHANGED <<checkpoint, rows>>
       ELSE checkpoint' = [checkpoint EXCEPT !.retired = TRUE] /\ rows' = {}
    /\ Sweeping("orphan", {})
    /\ UNCHANGED <<status, jobAge, acked, lease, volume, failures, history>>

\* Fault: retired jobs are never looked at again.
OrphanUnlessRetired ==
    /\ dir.exists /\ dir.age >= Grace
    /\ status \in Terminal /\ jobAge >= TTL + Grace
    /\ lease = "none" /\ ~checkpoint.retired

\* The directory's mtime, then canDeleteOrphan.
Orphan ==
    /\ dir.exists /\ dir.age >= Grace
    /\ status \in Terminal /\ jobAge >= TTL + Grace
    /\ lease = "none"

ApproveOrphan ==
    /\ sweeper.pc = "orphan"
    /\ IF Orphan THEN Sweeping("reclaim", entries) ELSE Sweeping("idle", {})
    /\ UNCHANGED <<jobVars, lease, volume, failures, history>>

ReclaimOrphan ==
    /\ sweeper.pc = "reclaim"
    /\ IF dir.exists THEN LeaveOrRemove(entries \ sweeper.todo) ELSE UNCHANGED volume
    /\ Sweeping("idle", {})
    /\ UNCHANGED <<jobVars, lease, failures, history>>

SweeperStep ==
    Expire \/ Select \/ SweepUnlink \/ SweepDirectory \/ SweepExists \/ NoteMissing
        \/ ApproveOrphan \/ ReclaimOrphan

-----------------------------------------------------------------------------
CleanupNext ==
    \/ Tick \/ Cancel \/ Confirm \/ LeaseRunsOut
    \/ RequestStep \/ WorkerStep \/ DeviceStep \/ SweeperStep

CleanupSpec == CleanupInit /\ [][CleanupNext]_cleanupVars

-----------------------------------------------------------------------------
\* While the metadata lasts, every file has a row that leads a sweep to it.
RowsCoverFiles == checkpoint.retired \/ entries \cap File \subseteq rows

\* Until the import expires, is cancelled or is acknowledged, nothing takes
\* away an image the worker has published for the device.
ImagesKept ==
    status \in {"review", "confirmed"} /\ ~Overdue /\ ~history.acking
        => history.published \subseteq entries

\* Once the rows are gone, no upload request brings its file back, whatever
\* its pace: the metadata outlives everyone the lease can fence.
NoUploadAfterRetirement ==
    [][checkpoint.retired /\ Upload \notin entries => Upload \notin entries']_cleanupVars

\* The import volume is reclaimed for good, also when a worker publishes after
\* the sweep, and when the import's device never acknowledges.
EventuallyGone == <>[](~dir.exists)
=============================================================================
