--------------------------- MODULE ImportAssembly ---------------------------
(***************************************************************************)
(* One import's upload: the concurrent uploadPart, complete and cancel     *)
(* requests of import.service.ts, the assembly lease they queue for, the   *)
(* manifest rows they write before any file, and the job's directory in    *)
(* the import volume.  A request awaits at every step, so every database   *)
(* statement and every file operation is an action.                        *)
(*                                                                         *)
(* The lease is a row with an expiry.  Its holder renews it before every   *)
(* step that matters (assertOwned) and from a heartbeat; it runs out when  *)
(* the holder is dead or is paused for longer than the TTL.  A behaviour   *)
(* says from the start whether a live request can be that slow (slow).     *)
(***************************************************************************)
EXTENDS Naturals

CONSTANTS
    Request,    \* requests, each with a lease token and a staging file of its own
    Part,       \* the parts of the upload
    Source,     \* source.pdf
    NoRequest   \* there is no lease row

File == Part \cup {Source}  \* canonical files, and the manifest rows that cover them

ASSUME ConstantAssumption ==
    /\ Source \notin Part
    /\ File \cap Request = {}
    /\ NoRequest \notin Request

VARIABLES
    slow,     \* auxiliary, never changes: a live request may outlive its lease
    status,   \* of the import_jobs row; "processing" stands for the worker's and
              \* the review's statuses, which the requests treat alike
    rows,     \* manifest rows: import_upload_parts and the source_pdf artifact
    dir,      \* the job's directory exists
    entries,  \* what is in it: canonical files, and staging files by request
    lease,    \* import_job_leases
    req,      \* what every request is doing
    history   \* auxiliary: parts of which an upload was answered 204, and whether a
              \* cancellation has seen the directory gone

vars == <<slow, status, rows, dir, entries, lease, req, history>>
disk == <<dir, entries>>

Idle == [pc |-> "idle", kind |-> "none", file |-> Source, todo |-> {}, ok |-> FALSE]
Dead == [Idle EXCEPT !.pc = "dead"]

Completed == {"queued", "processing", "confirmed"}
Cancellable == {"uploading", "queued", "processing"}

Init ==
    /\ slow \in BOOLEAN
    /\ status = "uploading"
    /\ rows = {}
    /\ dir = FALSE
    /\ entries = {}
    /\ lease = [token |-> NoRequest, live |-> FALSE]
    /\ req = [r \in Request |-> Idle]
    /\ history = [acked |-> {}, torn |-> FALSE]

-----------------------------------------------------------------------------
(* The lease.                                                              *)

Goto(r, pc) == req' = [req EXCEPT ![r].pc = pc]
At(r, pc) == req[r].pc = pc
Working(r) == req[r].pc \notin {"idle", "waiting", "dead"}

Start(r, kind, file) ==
    /\ At(r, "idle")
    /\ req' = [req EXCEPT ![r] = [Idle EXCEPT !.pc = "waiting", !.kind = kind, !.file = file]]
    /\ UNCHANGED <<status, rows, disk, lease, history>>

\* The client went away, the wait passed its deadline, or the database failed.
GiveUp(r) ==
    /\ At(r, "waiting")
    /\ req' = [req EXCEPT ![r] = Idle]
    /\ UNCHANGED <<status, rows, disk, lease, history>>

\* Fault: a waiting request takes the lease of a live one.
AcquirableAnyway == TRUE

Acquirable == ~lease.live  \* no row, or expiresAt <= now

\* tryAcquireAssemblyLease: insert, or take over an expired row.
Acquire(r) ==
    /\ At(r, "waiting")
    /\ Acquirable
    /\ lease' = [token |-> r, live |-> TRUE]
    /\ Goto(r, "read")
    /\ UNCHANGED <<status, rows, disk, history>>

Owns(r) == lease.token = r /\ lease.live

\* expiresAt passes.  A heartbeat cannot bring an expired lease back.
LeaseRunsOut ==
    /\ lease.live
    /\ slow \/ At(lease.token, "dead")
    /\ lease' = [lease EXCEPT !.live = FALSE]
    /\ UNCHANGED <<status, rows, disk, req, history>>

\* assertOwned: renews the lease, or fails for good when it is lost, when the
\* heartbeat has failed before, or when the database does not answer.
AssertOwned(r, next, otherwise) ==
    /\ \/ Owns(r) /\ Goto(r, next)
       \/ Goto(r, otherwise)
    /\ UNCHANGED <<status, rows, disk, lease, history>>

\* The end of runWithOwnedLease.  The answer is a 204 only if nothing failed, the
\* heartbeat and the release included, and the lease row was still this request's.
Release(r) ==
    /\ At(r, "release")
    /\ lease' = IF lease.token = r THEN [token |-> NoRequest, live |-> FALSE] ELSE lease
    /\ \/ UNCHANGED history
       \/ /\ req[r].kind = "upload" /\ req[r].ok /\ lease.token = r
          /\ history' = [history EXCEPT !.acked = @ \cup {req[r].file}]
    /\ req' = [req EXCEPT ![r] = Idle]
    /\ UNCHANGED <<status, rows, disk>>

\* The API process is killed: the lease row and the staging file stay.  If a
\* request may be slow without bound, a dead one is one that never goes on.
Die(r) ==
    /\ ~slow
    /\ Working(r)
    /\ req' = [req EXCEPT ![r] = Dead]
    /\ UNCHANGED <<status, rows, disk, lease, history>>

-----------------------------------------------------------------------------
(* The directory.                                                          *)

\* deleteStorageKey: unlink, then rmdir if that left the directory empty.
Remove(names) ==
    /\ entries' = entries \ names
    /\ dir' = IF names \cap entries # {} THEN entries' # {} ELSE dir

\* removeGeneratedFile: the staging file only.
DropStaging(r) ==
    /\ entries' = entries \ {r}
    /\ UNCHANGED dir

-----------------------------------------------------------------------------
(* What a request does under the lease, up to publication.                 *)

\* The job row is read again: what it allows decides what the request does.
Read(r) ==
    /\ At(r, "read")
    /\ Goto(r, CASE req[r].kind = "upload" /\ status = "uploading" -> "record"
                 [] req[r].kind = "complete" /\ status = "uploading" -> "own"
                 [] req[r].kind = "complete" /\ status \in Completed -> "ownRecords"
                 [] req[r].kind = "cancel" /\ status = "cancelled" -> "ownRecords"
                 [] req[r].kind = "cancel" /\ status \in Cancellable -> "own"
                 [] OTHER -> "release")
    /\ UNCHANGED <<status, rows, disk, lease, history>>

\* Fault: the row is left to be written after the file.
WriteRowLater(r, next) ==
    /\ Goto(r, IF status = "uploading" THEN next ELSE "release")
    /\ UNCHANGED <<status, rows, disk, lease, history>>

\* recordPart and prepareSource lock a row that must still be uploading.
WriteRow(r, next) ==
    /\ IF status = "uploading"
       THEN rows' = rows \cup {req[r].file} /\ Goto(r, next)
       ELSE Goto(r, "release") /\ UNCHANGED rows
    /\ UNCHANGED <<status, disk, lease, history>>

RecordPart(r) == At(r, "record") /\ WriteRow(r, "own")

PrepareSource(r) == At(r, "prepare") /\ WriteRow(r, "enter")

Own(r) ==
    /\ At(r, "own")
    /\ AssertOwned(r, CASE req[r].kind = "upload" -> "enter"
                        [] req[r].kind = "complete" -> "prepare"
                        [] req[r].kind = "cancel" -> "cancel", "release")

\* writePart and mergeParts: make the directory; an existing file is taken as it is.
Enter(r) ==
    /\ At(r, "enter")
    /\ dir' = TRUE
    /\ Goto(r, IF req[r].file \in entries THEN "published" ELSE "stage")
    /\ UNCHANGED <<status, rows, entries, lease, history>>

\* The staging file: the disk may be full, or the directory removed meanwhile.
Stage(r) ==
    /\ At(r, "stage")
    /\ \/ /\ dir
          /\ entries' = entries \cup {r}
          /\ req' = [req EXCEPT ![r].pc = IF req[r].kind = "complete" THEN "merge" ELSE "fence",
                                ![r].todo = IF req[r].kind = "complete" THEN Part ELSE {}]
       \/ Goto(r, "release") /\ UNCHANGED entries
    /\ UNCHANGED <<status, rows, dir, lease, history>>

\* One part is copied; a missing one ends the request.
Merge(r) ==
    /\ At(r, "merge")
    /\ \E p \in req[r].todo :
          \/ /\ p \in entries
             /\ req' = [req EXCEPT ![r].todo = @ \ {p},
                                   ![r].pc = IF req[r].todo = {p} THEN "fence" ELSE "merge"]
             /\ UNCHANGED disk
          \/ Goto(r, "release") /\ DropStaging(r)
    /\ UNCHANGED <<status, rows, lease, history>>

-----------------------------------------------------------------------------
(* Publication: fence, hard link, and the check that comes too late.       *)

\* Fault: the last check before the link is skipped.
FenceSkipped(r) == At(r, "fence") /\ Goto(r, "link") /\ UNCHANGED <<status, rows, disk, lease, history>>

Fence(r) == At(r, "fence") /\ AssertOwned(r, "link", "abandon")

Abandon(r) ==
    /\ At(r, "abandon")
    /\ DropStaging(r)
    /\ Goto(r, "release")
    /\ UNCHANGED <<status, rows, lease, history>>

\* link(2) fails if a sweep has taken the staging file.
Link(r) ==
    /\ At(r, "link")
    /\ \/ /\ r \in entries
          /\ entries' = (entries \ {r}) \cup {req[r].file}
          /\ Goto(r, "published")
          /\ UNCHANGED dir
       \/ DropStaging(r) /\ Goto(r, "release")
    /\ UNCHANGED <<status, rows, lease, history>>

\* Owned: the part is stored, or the source can be queued.  Lost: the file is
\* deleted, whether this request created it or found it there.
Published(r) ==
    /\ At(r, "published")
    /\ \/ /\ Owns(r)
          /\ req' = [req EXCEPT ![r].pc = IF req[r].kind = "upload" THEN "release" ELSE "queue",
                                ![r].ok = TRUE]
       \/ Goto(r, "undo")
    /\ UNCHANGED <<status, rows, disk, lease, history>>

Undo(r) ==
    /\ At(r, "undo")
    /\ Remove({req[r].file})
    /\ Goto(r, "release")
    /\ UNCHANGED <<status, rows, lease, history>>

\* Fault: the parts are cleaned up before the row is queued.
CleanUpFirst(r) ==
    /\ At(r, "queue")
    /\ Goto(r, "ownRecords")
    /\ UNCHANGED <<status, rows, disk, lease, history>>

\* queueCompletedUpload: the row is fenced by its status, not by the lease.
Queue(r) ==
    /\ At(r, "queue")
    /\ IF status = "uploading" /\ Source \in rows
       THEN status' = "queued" /\ Goto(r, "ownRecords")
       ELSE Goto(r, "release") /\ UNCHANGED status
    /\ UNCHANGED <<rows, disk, lease, history>>

CancelOwned(r) ==
    /\ At(r, "cancel")
    /\ IF status \in Cancellable \cup {"cancelled"}
       THEN status' = "cancelled" /\ Goto(r, "ownRecords")
       ELSE Goto(r, "release") /\ UNCHANGED status
    /\ UNCHANGED <<rows, disk, lease, history>>

-----------------------------------------------------------------------------
(* cleanupRecordedFiles: 'parts' after completion, 'all' after a cancel.   *)

\* Fault: completion cleans up every recorded file.
EveryRecord(kind) == rows

Recorded(kind) == IF kind = "complete" THEN rows \ {Source} ELSE rows

\* Every assertOwned of the cleanup, each before the step it is named for.
OwnCleanup(r) ==
    \/ At(r, "ownRecords") /\ AssertOwned(r, "records", "release")
    \/ At(r, "ownUnlink") /\ AssertOwned(r, "unlink", "release")
    \/ At(r, "ownList") /\ AssertOwned(r, "list", "release")

AfterRecords(r, todo) ==
    IF todo # {} THEN "ownUnlink" ELSE IF req[r].kind = "cancel" THEN "ownList" ELSE "release"

ListRecords(r) ==
    /\ At(r, "records")
    /\ LET todo == Recorded(req[r].kind) IN
       IF req[r].kind = "cancel" => status = "cancelled"
       THEN req' = [req EXCEPT ![r].todo = todo, ![r].pc = AfterRecords(r, todo)]
       ELSE Goto(r, "release")
    /\ UNCHANGED <<status, rows, disk, lease, history>>

\* A file that cannot be deleted is left to a later cleanup.
Unlink(r) ==
    /\ At(r, "unlink")
    /\ \E f \in req[r].todo :
          /\ Remove({f}) \/ UNCHANGED disk
          /\ req' = [req EXCEPT ![r].todo = @ \ {f}, ![r].pc = AfterRecords(r, req[r].todo \ {f})]
    /\ UNCHANGED <<status, rows, lease, history>>

\* deleteJobDirectory: read the directory, unlink what was there, rmdir if empty.
ListDirectory(r) ==
    /\ At(r, "list")
    /\ req' = [req EXCEPT ![r].todo = entries, ![r].pc = IF dir THEN "sweep" ELSE "release"]
    /\ history' = [history EXCEPT !.torn = @ \/ ~dir]
    /\ UNCHANGED <<status, rows, disk, lease>>

Sweep(r) ==
    /\ At(r, "sweep")
    /\ entries' = entries \ req[r].todo
    /\ dir' = (dir /\ entries' # {})
    /\ history' = [history EXCEPT !.torn = @ \/ ~dir']
    /\ req' = [req EXCEPT ![r].pc = "release", ![r].todo = {}]
    /\ UNCHANGED <<status, rows, lease>>

-----------------------------------------------------------------------------
\* What else happens to the job: the worker's round, confirmation, expiry.
JobMovesOn ==
    /\ \/ status = "queued" /\ status' = "processing"
       \/ status = "processing" /\ status' = "confirmed"
       \/ status \in Cancellable /\ status' = "expired"
    /\ UNCHANGED <<rows, disk, lease, req, history>>

RequestStep(r) ==
    \/ \E p \in Part : Start(r, "upload", p)
    \/ \E kind \in {"complete", "cancel"} : Start(r, kind, Source)
    \/ GiveUp(r) \/ Acquire(r) \/ Read(r) \/ RecordPart(r) \/ PrepareSource(r) \/ Own(r)
    \/ Enter(r) \/ Stage(r) \/ Merge(r) \/ Fence(r) \/ Abandon(r) \/ Link(r)
    \/ Published(r) \/ Undo(r) \/ Queue(r) \/ CancelOwned(r)
    \/ OwnCleanup(r) \/ ListRecords(r) \/ Unlink(r) \/ ListDirectory(r) \/ Sweep(r)
    \/ Release(r) \/ Die(r)

Next ==
    /\ LeaseRunsOut \/ JobMovesOn \/ \E r \in Request : RequestStep(r)
    /\ UNCHANGED slow

Spec == Init /\ [][Next]_vars

-----------------------------------------------------------------------------
\* Manifest first: whatever is lost or late, no canonical file is ever on disk
\* without the row that tells a cleanup about it.
RowsCoverFiles == entries \cap File \subseteq rows

\* "Once the directory is gone, a late hard-link publish fails with ENOENT and
\* can never materialize a file": among the requests of the API, that is so.
TornDownStaysEmpty == history.torn => entries \cap File = {}

\* If no live request outlives its lease, at most one is past the lease.
OneAtATime == ~slow => \A r, s \in Request : Working(r) /\ Working(s) => r = s

\* The source of a queued import is there for the worker to read
\* (import.service.spec.ts:1007): a slow request may delete it.
QueuedHasSource == status \in {"queued", "processing"} => Source \in entries

\* If no live request outlives its lease, the source of a queued import stays.
PunctualQueuedHasSource == ~slow => QueuedHasSource

\* While an import takes uploads, nobody takes a part away but an upload of that
\* very part whose last check failed (uploadPart): no completion, no cancellation
\* and no upload of another part, whatever their pace.
PartsGoWithTheirUpload ==
    [][\A p \in Part : p \in entries /\ p \notin entries' /\ status' = "uploading" =>
          \E r \in Request : At(r, "undo") /\ req[r].kind = "upload" /\ req[r].file = p]_vars

\* A part that was answered 204 is there as long as the import takes uploads
\* (PdfImportProgressPage.ets:173).  An upload of the same part that fails late
\* deletes it, although no request outlives its lease.
AckedPartsKept == ~slow /\ status = "uploading" => history.acked \subseteq entries
=============================================================================
