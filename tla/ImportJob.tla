------------------------------ MODULE ImportJob ------------------------------
(***************************************************************************)
(* The import_jobs row and everything that moves it: the API's             *)
(* transactions (import.repository.ts), the scheduled expiry, and the OCR  *)
(* workers, which share nothing with the API but MySQL and the import      *)
(* volume (worker/job_store.py, worker/main.py).                           *)
(*                                                                         *)
(* Every database transaction locks the job row it is about, so it is one  *)
(* action; a worker's round is many, and a worker may die between any two. *)
(***************************************************************************)
EXTENDS Naturals

CONSTANTS
    Job,        \* job ids
    Worker,     \* OCR worker processes
    Image,      \* question images a round may crop
    Pages,      \* pages of every job's range
    Clock,      \* readings of the workers' clocks, in ms; they may go back
    TTL,        \* life of a job, in ticks of the API's clock (24 h)
    MaxTime     \* bound on the API's clock

MaxRetries == 2  \* MAX_AUTOMATIC_RETRIES

ASSUME ConstantAssumption ==
    /\ Pages \in Nat \ {0}
    /\ Clock \subseteq Nat \ {0}
    /\ TTL \in Nat
    /\ MaxTime \in Nat

VARIABLES
    job,      \* the rows of import_jobs
    draft,    \* jobs with rows in import_draft_questions
    rows,     \* question_image rows of import_artifacts, by job
    files,    \* question image files in the import volume, by job
    banks,    \* question banks confirmImport has created, by job
    worker,   \* what every worker process is doing
    apiNow,   \* the API's clock
    history   \* auxiliary: rounds started on a job and the last token issued

apiVars == <<banks, apiNow>>
vars == <<job, draft, rows, files, banks, worker, apiNow, history>>

NoToken == 0   \* claimedAt IS NULL
Idle == [pc |-> "idle"]

Status == {"none", "uploading", "queued", "processing", "review",
           "confirmed", "failed", "cancelled", "expired"}

Row == [status : Status, claimedAt : Nat, retryCount : Nat,
        progress : 0..Pages, createdAt : Nat]

Reading == [pc : {"reading"}, job : Job, token : Nat \ {0}, page : 0..Pages]
Publishing == [pc : {"publishing"}, job : Job, token : Nat \ {0}, todo : SUBSET Image]

Busy(w) == worker[w].pc # "idle"
ExpiresAt(j) == job[j].createdAt + TTL

Init ==
    /\ job = [j \in Job |-> [status |-> "none", claimedAt |-> NoToken, retryCount |-> 0,
                             progress |-> 0, createdAt |-> 0]]
    /\ draft = {}
    /\ rows = [j \in Job |-> {}]
    /\ files = [j \in Job |-> {}]
    /\ banks = [j \in Job |-> 0]
    /\ worker = [w \in Worker |-> Idle]
    /\ apiNow = 0
    /\ history = [j \in Job |-> [rounds |-> 0, lastToken |-> NoToken]]

-----------------------------------------------------------------------------
(* The API: upload, cancellation, confirmation and expiry.                 *)

\* createJob; the bound leaves the clock room to run past expiresAt.
Create(j) ==
    /\ job[j].status = "none"
    /\ apiNow + TTL < MaxTime
    /\ job' = [job EXCEPT ![j].status = "uploading", ![j].createdAt = apiNow]
    /\ UNCHANGED <<draft, rows, files, worker, history, apiVars>>

\* queueCompletedUpload: it does not look at expiresAt.
CompleteUpload(j) ==
    /\ job[j].status = "uploading"
    /\ job' = [job EXCEPT ![j].status = "queued", ![j].claimedAt = NoToken]
    /\ UNCHANGED <<draft, rows, files, worker, history, apiVars>>

\* Fault: a confirmed import can still be cancelled.
CancellableOnceConfirmed == {"uploading", "queued", "processing", "review", "failed", "confirmed"}

Cancellable == {"uploading", "queued", "processing", "review", "failed"}

\* Fault: a claimed job is left to its worker.
ExpirableUnlessClaimed == {"uploading", "queued", "review", "failed"}

Expirable == {"uploading", "queued", "processing", "review", "failed"}

Cancel(j) ==
    /\ job[j].status \in Cancellable
    /\ job' = [job EXCEPT ![j].status = "cancelled"]
    /\ UNCHANGED <<draft, rows, files, worker, history, apiVars>>

\* One batch of expireBefore: the overdue rows no other transaction has locked.
Expire(batch) ==
    /\ batch # {}
    /\ \A j \in batch : job[j].status \in Expirable /\ ExpiresAt(j) < apiNow
    /\ job' = [j \in Job |-> IF j \in batch THEN [job[j] EXCEPT !.status = "expired"] ELSE job[j]]
    /\ UNCHANGED <<draft, rows, files, worker, history, apiVars>>

\* confirmImport, first request: the sync operations of the new bank, the
\* confirmation and the status commit together.  A replayed request is
\* answered from the stored confirmation and writes nothing.
Confirm(j) ==
    /\ banks[j] = 0
    /\ job[j].status = "review"
    /\ ExpiresAt(j) > apiNow
    /\ j \in draft
    /\ banks' = [banks EXCEPT ![j] = @ + 1]
    /\ job' = [job EXCEPT ![j].status = "confirmed", ![j].claimedAt = NoToken]
    /\ UNCHANGED <<draft, rows, files, worker, history, apiNow>>

Tick ==
    /\ apiNow < MaxTime
    /\ apiNow' = apiNow + 1
    /\ UNCHANGED <<job, draft, rows, files, banks, worker, history>>

-----------------------------------------------------------------------------
(* The worker: one round of run_once.                                      *)

\* Fault: a claim also takes over the round of a worker that looks dead.
QueuedOrProcessing == {j \in Job : job[j].status \in {"queued", "processing"}}

Queued == {j \in Job : job[j].status = "queued"}

\* Fault: the token is the clock's reading, as it is.
NextTokenUnbumped(claimedAt, now) == now

\* claim_next: a claim never reuses a token, even if the clock went back.
NextToken(claimedAt, now) == IF claimedAt >= now THEN claimedAt + 1 ELSE now

\* The oldest queued row, past the rows other transactions have locked.
Claim(w, locked) ==
    /\ ~Busy(w)
    /\ \E j \in Queued \ locked, now \in Clock :
          LET token == NextToken(job[j].claimedAt, now) IN
          /\ \A k \in Queued \ locked : job[j].createdAt <= job[k].createdAt
          /\ job' = [job EXCEPT ![j].status = "processing", ![j].claimedAt = token]
          /\ worker' = [worker EXCEPT ![w] =
                [pc |-> "reading", job |-> j, token |-> token, page |-> 0]]
          /\ history' = [history EXCEPT ![j] = [rounds |-> @.rounds + 1, lastToken |-> token]]
    /\ UNCHANGED <<draft, rows, files, apiVars>>

\* Fault: the token alone fences a write; cancelling a job does not revoke it.
HoldsTokenInAnyStatus(w, statuses) == job[worker[w].job].claimedAt = worker[w].token

\* The condition every worker statement repeats in its WHERE clause.
HoldsToken(w, statuses) ==
    /\ job[worker[w].job].status \in statuses
    /\ job[worker[w].job].claimedAt = worker[w].token

\* A JobStoreError or a crash: the round is over and the row is as it was.
Abandon(w) ==
    /\ worker' = [worker EXCEPT ![w] = Idle]
    /\ UNCHANGED <<job, draft, rows, files, history, apiVars>>

\* update_progress after every page.  The driver counts the rows an UPDATE
\* changed, not the rows it matched, and a claim does not reset the progress.
ProgressRowcount(w, page) ==
    IF HoldsToken(w, {"processing"}) /\ job[worker[w].job].progress # page THEN 1 ELSE 0

\* range(job.page_start, job.page_end + 1)
PageLeft(w) == worker[w].pc = "reading" /\ worker[w].page < Pages

ReportPage(w) ==
    /\ PageLeft(w)
    /\ LET page == worker[w].page + 1 IN
       \/ /\ ProgressRowcount(w, page) = 1
          /\ job' = [job EXCEPT ![worker[w].job].progress = page]
          /\ worker' = [worker EXCEPT ![w].page = page]
          /\ UNCHANGED <<draft, rows, files, history, apiVars>>
       \/ /\ ProgressRowcount(w, page) # 1
          /\ Abandon(w)

\* Fault: the last retry is granted too.
RequeuesOffByOne(retryable, retryCount) == retryable /\ retryCount <= MaxRetries

Requeues(retryable, retryCount) == retryable /\ retryCount < MaxRetries

\* JobStore.fail: one transaction, processing -> failed (-> queued).
Fail(w, retryable) ==
    LET j == worker[w].job
        retryCount == job[j].retryCount + 1
    IN \/ /\ HoldsToken(w, {"processing"})
          /\ retryCount <= MaxRetries
          /\ job' = [job EXCEPT ![j].retryCount = retryCount,
                ![j].status = IF Requeues(retryable, retryCount) THEN "queued" ELSE "failed"]
          /\ worker' = [worker EXCEPT ![w] = Idle]
          /\ UNCHANGED <<draft, rows, files, history, apiVars>>
       \/ /\ ~(HoldsToken(w, {"processing"}) /\ retryCount <= MaxRetries)
          /\ Abandon(w)

\* PipelineError or RetryablePipelineError before the draft is written.
PipelineFails(w, retryable) == worker[w].pc = "reading" /\ Fail(w, retryable)

\* replace_draft: draft and image rows, then review, in one transaction.  Its
\* final UPDATE must change the row, so a job already in review rolls back.
ReplaceDraft(w, images) ==
    /\ worker[w].pc = "reading"
    /\ worker[w].page = Pages
    /\ LET j == worker[w].job IN
       \/ /\ HoldsToken(w, {"processing"})
          /\ draft' = draft \cup {j}
          /\ rows' = [rows EXCEPT ![j] = images]
          /\ job' = [job EXCEPT ![j].status = "review"]
          /\ worker' = [worker EXCEPT ![w] =
                [pc |-> "publishing", job |-> j, token |-> worker[w].token, todo |-> images]]
          /\ UNCHANGED <<files, history, apiVars>>
       \/ /\ ~HoldsToken(w, {"processing"})
          /\ Abandon(w)

\* Fault: the image file is published before its row is committed.
PublishBeforeRows(w) ==
    /\ worker[w].pc = "reading"
    /\ \E i \in Image : files' = [files EXCEPT ![worker[w].job] = @ \cup {i}]
    /\ UNCHANGED <<job, draft, rows, worker, history, apiVars>>

\* publish_artifact: hard-links one image, whatever became of the job.
Publish(w) ==
    /\ worker[w].pc = "publishing"
    /\ \E i \in worker[w].todo :
          /\ files' = [files EXCEPT ![worker[w].job] = @ \cup {i}]
          /\ worker' = [worker EXCEPT ![w].todo = @ \ {i}]
    /\ UNCHANGED <<job, draft, rows, history, apiVars>>

\* ImportWriterError: run_once calls fail(retryable=True).
PublishFails(w) ==
    /\ worker[w].pc = "publishing"
    /\ worker[w].todo # {}
    /\ Fail(w, TRUE)

FinishRound(w) ==
    /\ worker[w].pc = "publishing"
    /\ worker[w].todo = {}
    /\ Abandon(w)

\* Killed, or an error run_once does not classify: an engine failure, a lost
\* connection, a document with no questions.
Die(w) == Busy(w) /\ Abandon(w)

-----------------------------------------------------------------------------
ApiStep ==
    \/ \E j \in Job : Create(j) \/ CompleteUpload(j) \/ Cancel(j) \/ Confirm(j)
    \/ \E batch \in SUBSET Job : Expire(batch)

WorkerStep(w) ==
    \/ \E locked \in SUBSET Queued : Claim(w, locked)
    \/ ReportPage(w)
    \/ \E retryable \in BOOLEAN : PipelineFails(w, retryable)
    \/ \E images \in SUBSET Image : ReplaceDraft(w, images)
    \/ Publish(w)
    \/ PublishFails(w)
    \/ FinishRound(w)
    \/ Die(w)

Next == ApiStep \/ Tick \/ \E w \in Worker : WorkerStep(w)

Spec == Init /\ [][Next]_vars

\* Time passes and the sweep runs every five minutes; nothing is assumed of
\* the devices and the workers, which may stop for good.
FairSpec == Spec /\ WF_vars(Tick) /\ WF_vars(\E batch \in SUBSET Job : Expire(batch))

-----------------------------------------------------------------------------
\* Every variable holds a value of its kind.
TypeOK ==
    /\ job \in [Job -> Row]
    /\ draft \in SUBSET Job
    /\ rows \in [Job -> SUBSET Image]
    /\ files \in [Job -> SUBSET Image]
    /\ banks \in [Job -> Nat]
    /\ worker \in [Worker -> {Idle} \cup Reading \cup Publishing]
    /\ apiNow \in Nat
    /\ history \in [Job -> [rounds : Nat, lastToken : Nat]]

\* Two workers are never inside a round of the same job, although the token
\* and not a lock is all that a round leaves behind once it has committed.
SingleRound ==
    \A v, w \in Worker : Busy(v) /\ Busy(w) /\ worker[v].job = worker[w].job => v = w

\* As long as the job is in a status a worker may write to, the worker inside
\* its round is the one whose token the row carries.
RoundHoldsToken ==
    \A w \in Worker : Busy(w) =>
        LET row == job[worker[w].job] IN
        row.status \in {"processing", "review"} => row.claimedAt = worker[w].token

\* A job is processed at most twice, whatever fails and in whichever order.
RetryBudget == \A j \in Job : history[j].rounds <= MaxRetries

\* Only confirmation creates a bank, exactly one, and never from a job whose
\* draft was not written.
OneBankPerImport ==
    \A j \in Job :
        /\ banks[j] = IF job[j].status = "confirmed" THEN 1 ELSE 0
        /\ job[j].status \in {"review", "confirmed"} => j \in draft

\* Manifest first: no image file without the row that lets cleanup find it.
ManifestFirst == \A j \in Job : files[j] \subseteq rows[j]

\* The inductive invariant behind the five above.  A worker inside a round is
\* the reason its job cannot be queued, so the next claim finds nobody there;
\* the token survives a requeue, so the next one is later.
RoundStatus ==
    \A w \in Worker :
        /\ worker[w].pc = "reading" =>
              job[worker[w].job].status \in {"processing", "cancelled", "expired"}
        /\ worker[w].pc = "publishing" =>
              /\ job[worker[w].job].status \in {"review", "confirmed", "cancelled", "expired"}
              /\ worker[w].todo \subseteq rows[worker[w].job]

AccountingOf(j) ==
    /\ job[j].status # "confirmed" => history[j].lastToken = job[j].claimedAt
    /\ job[j].status \in {"none", "uploading"} =>
          history[j] = [rounds |-> 0, lastToken |-> NoToken] /\ job[j].retryCount = 0
    /\ job[j].status = "queued" =>
          job[j].retryCount < MaxRetries /\ history[j].rounds = job[j].retryCount
    /\ job[j].status = "processing" =>
          job[j].retryCount < MaxRetries /\ history[j].rounds = job[j].retryCount + 1
    /\ job[j].status \in {"none", "uploading", "queued", "processing", "failed"} => files[j] = {}

Accounting == \A j \in Job : AccountingOf(j)

IInv ==
    /\ TypeOK
    /\ SingleRound
    /\ RoundHoldsToken
    /\ RoundStatus
    /\ Accounting
    /\ RetryBudget
    /\ OneBankPerImport
    /\ ManifestFirst

\* A claim's token is new for the job: later than every token of an earlier
\* round, also when the claiming worker's clock is behind.
FreshTokens ==
    [][\A j \in Job : history'[j].rounds > history[j].rounds
          => job'[j].claimedAt > history[j].lastToken]_vars

\* A worker that outlives its job changes nothing of it but image files: the
\* row, the draft and the image rows of a settled job stay as they are.
LateRoundIsHarmless ==
    [][\A j \in Job : job[j].status \in {"confirmed", "cancelled", "expired"}
          => /\ job'[j] = job[j]
             /\ (j \in draft') <=> (j \in draft)
             /\ rows'[j] = rows[j]]_vars

Lifecycle == INSTANCE ImportLifecycle WITH status <- [j \in Job |-> job[j].status]

\* The rows implement the transition table of the contract.
ImplementsLifecycle == Lifecycle!Spec

\* Every import ends, also when its device never returns and its worker dies.
EventuallySettled ==
    \A j \in Job : job[j].status # "none"
        ~> job[j].status \in {"confirmed", "cancelled", "expired"}

-----------------------------------------------------------------------------
(* Statements of the code's own comments that the code does not keep.      *)

\* main.py: "transient OCR/storage errors requeue it".  The rows and the move
\* to review commit before publication, and fail() wants processing.
StorageErrorRequeues ==
    [][\A w \in Worker :
          PublishFails(w) /\ HoldsToken(w, {"processing", "review"})
              => job'[worker[w].job].status \in {"queued", "failed"}]_vars

\* update_progress: "returns False when the token no longer owns the job".
ProgressRefusedOnlyIfLost ==
    [][\A w \in Worker :
          ReportPage(w) /\ ~Busy(w)' => ~HoldsToken(w, {"processing"})]_vars
=============================================================================
