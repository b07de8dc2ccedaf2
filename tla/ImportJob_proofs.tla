--------------------------- MODULE ImportJob_proofs ---------------------------
(***************************************************************************)
(* Proofs about ImportJob, for every set of jobs and workers, any number   *)
(* of pages and images, and any behaviour of the clocks.                   *)
(***************************************************************************)
EXTENDS ImportJob, TLAPS

\* Before the first import every variable has its type.
LEMMA TypeInit == Init => TypeOK
BY ConstantAssumption DEF Init, TypeOK, Row, Status, Idle, NoToken

\* Every UPDATE of a row leaves a row.
LEMMA RowTypes ==
  ASSUME NEW row \in Row, NEW s \in Status, NEW n \in Nat
  PROVE  /\ [row EXCEPT !.status = s] \in Row
         /\ [row EXCEPT !.status = s, !.claimedAt = n] \in Row
         /\ [row EXCEPT !.status = s, !.createdAt = n] \in Row
         /\ [row EXCEPT !.retryCount = n, !.status = s] \in Row
BY DEF Row

\* So does an update of the progress within the range.
LEMMA ProgressType ==
  ASSUME NEW row \in Row, NEW page \in 0..Pages
  PROVE  [row EXCEPT !.progress = page] \in Row
BY DEF Row

\* The numbers that fences and retries compare.
LEMMA RowNumbers ==
  ASSUME NEW row \in Row
  PROVE  row.claimedAt \in Nat /\ row.retryCount \in Nat
BY DEF Row

\* The statuses that statements write.
LEMMA StatusNames ==
  /\ "uploading" \in Status /\ "queued" \in Status /\ "processing" \in Status
  /\ "review" \in Status /\ "confirmed" \in Status /\ "failed" \in Status
  /\ "cancelled" \in Status /\ "expired" \in Status
BY DEF Status

\* A step of the API keeps the types.
LEMMA TypeApi == TypeOK /\ ApiStep => TypeOK'
<1> SUFFICES ASSUME TypeOK, ApiStep PROVE TypeOK'
  OBVIOUS
<1> USE StatusNames DEF NoToken
<1>0. job \in [Job -> Row]
  BY DEF TypeOK
<1>1. ASSUME NEW j \in Job, Create(j) PROVE TypeOK'
  <2>1. /\ job' = [job EXCEPT ![j].status = "uploading", ![j].createdAt = apiNow]
        /\ apiNow \in Nat
    BY <1>1 DEF Create, TypeOK
  <2>2. job' \in [Job -> Row]
    BY <1>0, <2>1, RowTypes
  <2> QED
    BY <1>1, <2>2 DEF Create, apiVars, TypeOK
<1>2. ASSUME NEW j \in Job, CompleteUpload(j) PROVE TypeOK'
  <2>1. job' = [job EXCEPT ![j].status = "queued", ![j].claimedAt = 0]
    BY <1>2 DEF CompleteUpload
  <2>2. job' \in [Job -> Row]
    BY <1>0, <2>1, RowTypes
  <2> QED
    BY <1>2, <2>2 DEF CompleteUpload, apiVars, TypeOK
<1>3. ASSUME NEW j \in Job, Cancel(j) PROVE TypeOK'
  <2>1. job' = [job EXCEPT ![j].status = "cancelled"]
    BY <1>3 DEF Cancel
  <2>2. job' \in [Job -> Row]
    BY <1>0, <2>1, RowTypes
  <2> QED
    BY <1>3, <2>2 DEF Cancel, apiVars, TypeOK
<1>4. ASSUME NEW j \in Job, Confirm(j) PROVE TypeOK'
  <2>1. job' = [job EXCEPT ![j].status = "confirmed", ![j].claimedAt = 0]
    BY <1>4 DEF Confirm
  <2>2. job' \in [Job -> Row]
    BY <1>0, <2>1, RowTypes
  <2>3. banks' \in [Job -> Nat]
    BY <1>4 DEF Confirm, TypeOK
  <2> QED
    BY <1>4, <2>2, <2>3 DEF Confirm, TypeOK
<1>5. ASSUME NEW batch \in SUBSET Job, Expire(batch) PROVE TypeOK'
  <2>1. job' \in [Job -> Row]
    BY <1>0, <1>5, RowTypes DEF Expire
  <2> QED
    BY <1>5, <2>1 DEF Expire, apiVars, TypeOK
<1> QED
  BY <1>1, <1>2, <1>3, <1>4, <1>5 DEF ApiStep

\* A busy worker names a job and a token, and its record has the right fields.
LEMMA BusyType ==
  ASSUME TypeOK, NEW w \in Worker
  PROVE  /\ worker[w].pc = "reading" => worker[w] \in Reading
         /\ worker[w].pc = "publishing" => worker[w] \in Publishing
         /\ Busy(w) => worker[w].pc \in {"reading", "publishing"}
         /\ Busy(w) => worker[w].job \in Job /\ worker[w].token \in Nat \ {0}
<1>1. worker[w] \in {Idle} \cup Reading \cup Publishing
  BY DEF TypeOK
<1> QED
  BY <1>1 DEF Idle, Reading, Publishing, Busy

\* A new token is a number, later than the one the row carries.
LEMMA TokenType ==
  ASSUME NEW c \in Nat, NEW now \in Clock
  PROVE  NextToken(c, now) \in Nat \ {0} /\ NextToken(c, now) > c
BY ConstantAssumption DEF NextToken

\* Going idle keeps the types.
LEMMA TypeAbandon ==
  ASSUME TypeOK, NEW w \in Worker, Abandon(w)
  PROVE  TypeOK'
BY DEF TypeOK, Abandon, apiVars

\* A reported failure leaves a row, queued or failed, and an idle worker.
LEMMA TypeFail ==
  ASSUME TypeOK, NEW w \in Worker, Busy(w), NEW r \in BOOLEAN, Fail(w, r)
  PROVE  TypeOK'
<1>1. CASE Abandon(w)
  BY <1>1, TypeAbandon
<1>2. CASE ~Abandon(w)
  <2>1. worker[w].job \in Job
    BY BusyType
  <2> DEFINE row == job[worker[w].job]
             next == IF r /\ row.retryCount + 1 < MaxRetries THEN "queued" ELSE "failed"
  <2>2. /\ job' = [job EXCEPT ![worker[w].job].retryCount = row.retryCount + 1,
                             ![worker[w].job].status = next]
        /\ worker' = [worker EXCEPT ![w] = Idle]
        /\ UNCHANGED <<draft, rows, files, history, apiVars>>
    BY <1>2 DEF Fail, Requeues
  <2>3. next \in Status /\ row \in Row
    BY <2>1, StatusNames DEF TypeOK
  <2> HIDE DEF next
  <2>4. job' \in [Job -> Row]
    <3>1. row.retryCount + 1 \in Nat /\ job \in [Job -> Row]
      BY <2>3, RowNumbers DEF TypeOK
    <3> QED
      BY <2>1, <2>2, <2>3, <3>1, RowTypes
  <2>5. worker' \in [Worker -> {Idle} \cup Reading \cup Publishing]
    BY <2>2 DEF TypeOK
  <2> QED
    BY <2>2, <2>4, <2>5 DEF TypeOK, apiVars
<1> QED
  BY <1>1, <1>2

\* A worker's step keeps the types.
LEMMA TypeWorker ==
  ASSUME TypeOK, NEW w \in Worker, WorkerStep(w)
  PROVE  TypeOK'
<1>1. ASSUME NEW locked \in SUBSET Queued, Claim(w, locked) PROVE TypeOK'
  <2>1. PICK j \in Queued \ locked, now \in Clock :
          LET token == NextToken(job[j].claimedAt, now) IN
          /\ job' = [job EXCEPT ![j].status = "processing", ![j].claimedAt = token]
          /\ worker' = [worker EXCEPT ![w] =
                [pc |-> "reading", job |-> j, token |-> token, page |-> 0]]
          /\ history' = [history EXCEPT ![j] = [rounds |-> @.rounds + 1, lastToken |-> token]]
    BY <1>1 DEF Claim
  <2> DEFINE token == NextToken(job[j].claimedAt, now)
  <2>2. j \in Job /\ job \in [Job -> Row] /\ job[j].claimedAt \in Nat
    BY <2>1, RowNumbers DEF Queued, TypeOK
  <2>3. token \in Nat \ {0}
    BY <2>2, TokenType
  <2>4. job' \in [Job -> Row]
    <3>1. job' = [job EXCEPT ![j].status = "processing", ![j].claimedAt = token]
      BY <2>1
    <3> HIDE DEF token
    <3> QED
      BY <2>2, <2>3, <3>1, StatusNames, RowTypes
  <2> HIDE DEF token
  <2>5. [pc |-> "reading", job |-> j, token |-> token, page |-> 0] \in Reading
    BY <2>2, <2>3, ConstantAssumption DEF Reading
  <2>6. worker' \in [Worker -> {Idle} \cup Reading \cup Publishing]
    BY <2>1, <2>5 DEF TypeOK, token
  <2>7. history' \in [Job -> [rounds : Nat, lastToken : Nat]]
    BY <2>1, <2>2, <2>3 DEF TypeOK, token
  <2> QED
    BY <1>1, <2>4, <2>6, <2>7 DEF Claim, TypeOK, apiVars
<1>2. ASSUME ReportPage(w) PROVE TypeOK'
  <2>1. CASE Abandon(w)
    BY <2>1, TypeAbandon
  <2>2. CASE ~Abandon(w)
    <3>1. worker[w] \in Reading /\ Busy(w)
      BY <1>2, BusyType DEF PageLeft, ReportPage, Busy
    <3>2. worker[w].job \in Job /\ worker[w].page + 1 \in 0..Pages
      BY <1>2, <3>1, ConstantAssumption DEF Reading, PageLeft, ReportPage
    <3>3. [worker[w] EXCEPT !.page = worker[w].page + 1] \in Reading
      BY <3>1, <3>2 DEF Reading
    <3>4. job' = [job EXCEPT ![worker[w].job].progress = worker[w].page + 1]
          /\ worker' = [worker EXCEPT ![w].page = worker[w].page + 1]
          /\ UNCHANGED <<draft, rows, files, history, apiVars>>
      BY <1>2, <2>2 DEF PageLeft, ReportPage
    <3>5. job' \in [Job -> Row]
      BY <3>2, <3>4, ProgressType DEF TypeOK
    <3>6. worker' \in [Worker -> {Idle} \cup Reading \cup Publishing]
      BY <3>3, <3>4 DEF TypeOK
    <3> QED
      BY <3>4, <3>5, <3>6 DEF TypeOK, apiVars
  <2> QED
    BY <2>1, <2>2
<1>3. ASSUME NEW r \in BOOLEAN, PipelineFails(w, r) PROVE TypeOK'
  BY <1>3, TypeFail DEF PipelineFails, Busy
<1>4. ASSUME NEW images \in SUBSET Image, ReplaceDraft(w, images) PROVE TypeOK'
  <2>1. CASE Abandon(w)
    BY <2>1, TypeAbandon
  <2>2. CASE ~Abandon(w)
    <3>1. worker[w].job \in Job /\ worker[w].token \in Nat \ {0}
      BY <1>4, BusyType DEF ReplaceDraft, Busy
    <3> DEFINE next == [pc |-> "publishing", job |-> worker[w].job,
                        token |-> worker[w].token, todo |-> images]
    <3>2. next \in Publishing
      BY <3>1 DEF Publishing
    <3>3. /\ draft' = draft \cup {worker[w].job}
          /\ rows' = [rows EXCEPT ![worker[w].job] = images]
          /\ job' = [job EXCEPT ![worker[w].job].status = "review"]
          /\ worker' = [worker EXCEPT ![w] = next]
          /\ UNCHANGED <<files, history, apiVars>>
      BY <1>4, <2>2 DEF ReplaceDraft
    <3> HIDE DEF next
    <3>4. worker' \in [Worker -> {Idle} \cup Reading \cup Publishing]
      BY <3>2, <3>3 DEF TypeOK
    <3>5. job' \in [Job -> Row]
      BY <3>1, <3>3, StatusNames, RowTypes DEF TypeOK
    <3> QED
      BY <3>1, <3>3, <3>4, <3>5 DEF TypeOK, apiVars
  <2> QED
    BY <2>1, <2>2
<1>5. ASSUME Publish(w) PROVE TypeOK'
  <2>1. worker[w] \in Publishing /\ worker[w].job \in Job
    BY <1>5, BusyType DEF Publish, Busy
  <2>2. PICK i \in worker[w].todo :
          /\ files' = [files EXCEPT ![worker[w].job] = @ \cup {i}]
          /\ worker' = [worker EXCEPT ![w].todo = @ \ {i}]
    BY <1>5 DEF Publish
  <2>3. i \in Image /\ [worker[w] EXCEPT !.todo = @ \ {i}] \in Publishing
    BY <2>1, <2>2 DEF Publishing
  <2>4. worker' \in [Worker -> {Idle} \cup Reading \cup Publishing]
    BY <2>2, <2>3 DEF TypeOK
  <2>5. files' \in [Job -> SUBSET Image]
    BY <2>1, <2>2, <2>3 DEF TypeOK
  <2> QED
    BY <1>5, <2>4, <2>5 DEF TypeOK, Publish, apiVars
<1>6. ASSUME PublishFails(w) PROVE TypeOK'
  BY <1>6, TypeFail DEF PublishFails, Busy
<1>7. ASSUME FinishRound(w) \/ Die(w) PROVE TypeOK'
  BY <1>7, TypeAbandon DEF FinishRound, Die
<1> QED
  BY <1>1, <1>2, <1>3, <1>4, <1>5, <1>6, <1>7 DEF WorkerStep

\* Every step keeps the types, the clock and stuttering included.
LEMMA TypeNext == TypeOK /\ [Next]_vars => TypeOK'
<1>1. TypeOK /\ Tick => TypeOK'
  BY DEF Tick, TypeOK
<1>2. TypeOK /\ UNCHANGED vars => TypeOK'
  BY DEF vars, apiVars, TypeOK
<1> QED
  BY <1>1, <1>2, TypeApi, TypeWorker DEF Next

\* Every variable keeps its type: a row's progress stays within its page range
\* and a round always carries a token that is not NULL.
THEOREM TypeCorrect == Spec => []TypeOK
<1>1. Init => TypeOK
  BY TypeInit
<1>2. TypeOK /\ [Next]_vars => TypeOK'
  BY TypeNext
<1> QED
  BY <1>1, <1>2, PTL DEF Spec

-----------------------------------------------------------------------------
(* The inductive invariant.                                                *)

Safe ==
    /\ SingleRound
    /\ RoundHoldsToken
    /\ RoundStatus
    /\ Accounting
    /\ RetryBudget
    /\ OneBankPerImport
    /\ ManifestFirst

\* Nothing has been claimed, written or confirmed yet.
LEMMA SafeInit == Init => Safe
BY DEF Init, Safe, SingleRound, RoundHoldsToken, RoundStatus, Accounting, AccountingOf, RetryBudget,
       OneBankPerImport, ManifestFirst, Busy, Idle, NoToken, MaxRetries

\* Moving rows of import_jobs while the workers are inside their rounds: what a
\* step of the API must respect to keep the invariant.
LEMMA SafeApi == TypeOK /\ Safe /\ ApiStep => Safe'
<1> SUFFICES ASSUME TypeOK, Safe, ApiStep PROVE Safe'
  OBVIOUS
<1> USE DEF Safe, NoToken, MaxRetries, apiVars, Busy
<1>0. \A w \in Worker : Busy(w) => worker[w].job \in Job /\ worker[w].pc \in {"reading", "publishing"}
  BY BusyType
<1>1. ASSUME NEW j \in Job, Create(j) PROVE Safe'
  BY <1>0, <1>1 DEF Create, SingleRound, RoundHoldsToken, RoundStatus, Accounting, AccountingOf, RetryBudget,
     OneBankPerImport, ManifestFirst, TypeOK, Row
<1>2. ASSUME NEW j \in Job, CompleteUpload(j) PROVE Safe'
  <2>1. /\ job[j].status = "uploading" /\ job[j] \in Row
        /\ job' = [job EXCEPT ![j].status = "queued", ![j].claimedAt = 0]
        /\ UNCHANGED <<draft, rows, files, worker, history, banks>>
    BY <1>2 DEF CompleteUpload, TypeOK
  <2>2. /\ job'[j].status = "queued" /\ job'[j].claimedAt = 0
        /\ job'[j].retryCount = job[j].retryCount
        /\ \A k \in Job \ {j} : job'[k] = job[k]
    BY <2>1 DEF TypeOK, Row
  <2>3. SingleRound' /\ RetryBudget' /\ ManifestFirst'
    BY <2>1 DEF SingleRound, RetryBudget, ManifestFirst
  <2>4. \A w \in Worker : Busy(w) => worker[w].job \in Job \ {j}
    BY <1>0, <2>1 DEF RoundStatus
  <2>5. \A w \in Worker : Busy(w) => job'[worker[w].job] = job[worker[w].job]
    BY <2>2, <2>4
  <2>6. RoundHoldsToken'
    BY <2>1, <2>5 DEF RoundHoldsToken
  <2>7. RoundStatus'
    BY <2>1, <2>5 DEF RoundStatus
  <2>8. history[j] = [rounds |-> 0, lastToken |-> 0] /\ job[j].retryCount = 0 /\ files[j] = {}
    BY <2>1 DEF Accounting, AccountingOf
  <2>9. Accounting'
    <3> SUFFICES ASSUME NEW k \in Job PROVE AccountingOf(k)'
      BY DEF Accounting
    <3>0. files' = files /\ history' = history
      BY <2>1
    <3>1. CASE k = j
      BY <2>2, <2>8, <3>0, <3>1 DEF AccountingOf
    <3>2. CASE k # j
      BY <2>2, <3>0, <3>2 DEF Accounting, AccountingOf
    <3> QED
      BY <3>1, <3>2
  <2>10. OneBankPerImport'
    BY <2>1, <2>2 DEF OneBankPerImport
  <2> QED
    BY <2>3, <2>6, <2>7, <2>9, <2>10
<1>3. ASSUME NEW j \in Job, Cancel(j) PROVE Safe'
  BY <1>0, <1>3 DEF Cancel, Cancellable, SingleRound, RoundHoldsToken, RoundStatus, Accounting, AccountingOf,
     RetryBudget, OneBankPerImport, ManifestFirst, TypeOK, Row
<1>4. ASSUME NEW j \in Job, Confirm(j) PROVE Safe'
  <2>1. /\ job[j].status = "review" /\ j \in draft /\ banks[j] = 0
        /\ job' = [job EXCEPT ![j].status = "confirmed", ![j].claimedAt = 0]
        /\ banks' = [banks EXCEPT ![j] = banks[j] + 1]
        /\ UNCHANGED <<draft, rows, files, worker, history>>
    BY <1>4 DEF Confirm
  <2>2. /\ job'[j].status = "confirmed" /\ banks'[j] = 1
        /\ \A k \in Job \ {j} : job'[k] = job[k] /\ banks'[k] = banks[k]
    BY <2>1 DEF TypeOK, Row
  <2>3. SingleRound' /\ RetryBudget' /\ ManifestFirst'
    BY <2>1 DEF SingleRound, RetryBudget, ManifestFirst
  <2>4. \A w \in Worker : Busy(w) =>
          \/ worker[w].job # j /\ job'[worker[w].job] = job[worker[w].job]
          \/ worker[w].job = j /\ worker[w].pc = "publishing" /\ job'[worker[w].job].status = "confirmed"
    BY <1>0, <2>1, <2>2 DEF RoundStatus
  <2>5. worker' = worker /\ rows' = rows
    BY <2>1
  <2>6. RoundHoldsToken' /\ RoundStatus'
    <3>1. RoundHoldsToken'
      BY <2>4, <2>5 DEF RoundHoldsToken
    <3>2. ASSUME NEW w \in Worker, worker[w].pc = "reading"
          PROVE  job'[worker[w].job].status \in {"processing", "cancelled", "expired"}
      BY <2>4, <3>2 DEF RoundStatus
    <3>3. ASSUME NEW w \in Worker, worker[w].pc = "publishing"
          PROVE  /\ job'[worker[w].job].status \in {"review", "confirmed", "cancelled", "expired"}
                 /\ worker[w].todo \subseteq rows[worker[w].job]
      BY <2>4, <3>3 DEF RoundStatus
    <3> QED
      BY <2>5, <3>1, <3>2, <3>3 DEF RoundStatus
  <2>7. Accounting'
    <3> SUFFICES ASSUME NEW k \in Job PROVE AccountingOf(k)'
      BY DEF Accounting
    <3>0. files' = files /\ history' = history
      BY <2>1
    <3>1. CASE k = j
      BY <2>2, <3>1 DEF AccountingOf
    <3>2. CASE k # j
      BY <2>2, <3>0, <3>2 DEF Accounting, AccountingOf
    <3> QED
      BY <3>1, <3>2
  <2>8. OneBankPerImport'
    BY <2>1, <2>2 DEF OneBankPerImport
  <2> QED
    BY <2>3, <2>6, <2>7, <2>8
<1>5. ASSUME NEW batch \in SUBSET Job, Expire(batch) PROVE Safe'
  <2>1. /\ \A j \in batch : job[j].status \in Expirable
        /\ UNCHANGED <<draft, rows, files, worker, history, banks>>
    BY <1>5 DEF Expire
  <2>2. \A j \in Job :
          /\ job'[j].status = IF j \in batch THEN "expired" ELSE job[j].status
          /\ job'[j].claimedAt = job[j].claimedAt
          /\ job'[j].retryCount = job[j].retryCount
    BY <1>5 DEF Expire, TypeOK, Row
  <2>3. SingleRound' /\ RetryBudget' /\ ManifestFirst'
    BY <2>1 DEF SingleRound, RetryBudget, ManifestFirst
  <2>4. RoundHoldsToken' /\ RoundStatus'
    BY <1>0, <2>1, <2>2 DEF RoundHoldsToken, RoundStatus
  <2>5. Accounting' /\ OneBankPerImport'
    BY <2>1, <2>2 DEF Accounting, AccountingOf, OneBankPerImport, Expirable
  <2> QED
    BY <2>3, <2>4, <2>5
<1> QED
  BY <1>1, <1>2, <1>3, <1>4, <1>5 DEF ApiStep

\* A round that ends without touching the database keeps everything.
LEMMA SafeAbandon ==
  ASSUME TypeOK, Safe, NEW w \in Worker, Abandon(w)
  PROVE  Safe'
<1>1. /\ \A v \in Worker : Busy(v)' => worker'[v] = worker[v] /\ Busy(v)
      /\ UNCHANGED <<job, draft, rows, files, history, banks>>
  BY DEF Abandon, Busy, Idle, TypeOK, apiVars
<1>2. \A v \in Worker : worker'[v].pc \in {"reading", "publishing"} => Busy(v)' 
  BY DEF Busy
<1> QED
  BY <1>1, <1>2 DEF Safe, SingleRound, RoundHoldsToken, RoundStatus, Accounting, AccountingOf, RetryBudget,
     OneBankPerImport, ManifestFirst

\* Only the round that owns the job moves it to failed or back to queued, and
\* it is over when it does: nobody is inside a round of a queued job.
LEMMA SafeFail ==
  ASSUME TypeOK, Safe, NEW w \in Worker, Busy(w), NEW r \in BOOLEAN, Fail(w, r)
  PROVE  Safe'
<1>1. CASE Abandon(w)
  BY <1>1, SafeAbandon
<1>2. CASE ~Abandon(w)
  <2> DEFINE j == worker[w].job
  <2>1. j \in Job /\ job[j] \in Row
    BY BusyType DEF TypeOK
  <2>2. /\ job[j].status = "processing" /\ job[j].retryCount + 1 <= MaxRetries
        /\ job' = [job EXCEPT ![j].retryCount = job[j].retryCount + 1,
              ![j].status = IF r /\ job[j].retryCount + 1 < MaxRetries THEN "queued" ELSE "failed"]
        /\ worker' = [worker EXCEPT ![w] = Idle]
        /\ UNCHANGED <<draft, rows, files, history, banks>>
    BY <1>2 DEF Fail, Requeues, HoldsToken, apiVars
  <2> HIDE DEF j
  <2>3. /\ job'[j].retryCount = job[j].retryCount + 1 /\ job'[j].claimedAt = job[j].claimedAt
        /\ job'[j].status = "queued" \/ job'[j].status = "failed"
        /\ job'[j].status = "queued" => job'[j].retryCount < MaxRetries
        /\ \A k \in Job \ {j} : job'[k] = job[k]
    BY <2>1, <2>2 DEF TypeOK, Row
  <2>4. \A v \in Worker : Busy(v)' =>
          worker'[v] = worker[v] /\ Busy(v) /\ v # w /\ worker[v].job \in Job \ {j}
    BY <2>2, BusyType DEF Busy, Idle, TypeOK, Safe, SingleRound, j
  <2>5. SingleRound' /\ RetryBudget' /\ ManifestFirst'
    BY <2>2, <2>4 DEF Safe, SingleRound, RetryBudget, ManifestFirst
  <2>6. RoundHoldsToken' /\ RoundStatus'
    <3>1. \A v \in Worker : Busy(v)' => job'[worker'[v].job] = job[worker[v].job]
      BY <2>3, <2>4
    <3>2. \A v \in Worker : worker'[v].pc \in {"reading", "publishing"} => Busy(v)'
      BY DEF Busy
    <3>3. rows' = rows
      BY <2>2
    <3>4. RoundHoldsToken'
      BY <2>4, <3>1 DEF Safe, RoundHoldsToken
    <3>5. RoundStatus'
      BY <2>4, <3>1, <3>2, <3>3 DEF Safe, RoundStatus
    <3> QED
      BY <3>4, <3>5
  <2>7. files' = files /\ history' = history /\ draft' = draft /\ banks' = banks
    BY <2>2
  <2>8. Accounting'
    <3> SUFFICES ASSUME NEW k \in Job PROVE AccountingOf(k)'
      BY DEF Accounting
    <3>1. CASE k = j
      BY <2>2, <2>3, <2>7, <3>1 DEF Safe, Accounting, AccountingOf
    <3>2. CASE k # j
      BY <2>3, <2>7, <3>2 DEF Safe, Accounting, AccountingOf
    <3> QED
      BY <3>1, <3>2
  <2>9. OneBankPerImport'
    BY <2>1, <2>2, <2>3, <2>7 DEF Safe, OneBankPerImport
  <2> QED
    BY <2>5, <2>6, <2>8, <2>9 DEF Safe
<1> QED
  BY <1>1, <1>2

\* A claimed job was queued, so nobody was inside a round of it, and its new
\* token is later than every one it carried before.
LEMMA SafeClaim ==
  ASSUME TypeOK, Safe, NEW w \in Worker, NEW locked \in SUBSET Queued, Claim(w, locked)
  PROVE  Safe'
<1>1. PICK j \in Queued \ locked, now \in Clock :
        LET token == NextToken(job[j].claimedAt, now) IN
        /\ job' = [job EXCEPT ![j].status = "processing", ![j].claimedAt = token]
        /\ worker' = [worker EXCEPT ![w] =
              [pc |-> "reading", job |-> j, token |-> token, page |-> 0]]
        /\ history' = [history EXCEPT ![j] = [rounds |-> @.rounds + 1, lastToken |-> token]]
  BY DEF Claim
<1> DEFINE token == NextToken(job[j].claimedAt, now)
<1>2. j \in Job /\ job[j].status = "queued" /\ job[j] \in Row
  BY <1>1 DEF Queued, TypeOK
<1>3. /\ job' = [job EXCEPT ![j].status = "processing", ![j].claimedAt = token]
      /\ worker' = [worker EXCEPT ![w] =
              [pc |-> "reading", job |-> j, token |-> token, page |-> 0]]
      /\ history' = [history EXCEPT ![j] = [rounds |-> history[j].rounds + 1, lastToken |-> token]]
      /\ UNCHANGED <<draft, rows, files, banks>>
  BY <1>1 DEF Claim, apiVars
<1> HIDE DEF token
<1>3a. files' = files /\ rows' = rows /\ draft' = draft /\ banks' = banks
  BY <1>3
<1>4. /\ job'[j].status = "processing" /\ job'[j].claimedAt = token
      /\ job'[j].retryCount = job[j].retryCount
      /\ \A k \in Job \ {j} : job'[k] = job[k]
  BY <1>2, <1>3 DEF TypeOK, Row
<1>5. \A v \in Worker : Busy(v) => worker[v].job \in Job \ {j}
  BY <1>2, BusyType DEF Safe, RoundStatus
<1>6. /\ worker'[w] = [pc |-> "reading", job |-> j, token |-> token, page |-> 0]
      /\ \A v \in Worker \ {w} : worker'[v] = worker[v] /\ (Busy(v)' <=> Busy(v))
  BY <1>3 DEF TypeOK, Busy
<1>7. \A v \in Worker \ {w} : Busy(v) => job'[worker'[v].job] = job[worker[v].job]
  BY <1>4, <1>5, <1>6
<1>8. SingleRound'
  BY <1>5, <1>6 DEF Safe, SingleRound
<1>9. RoundHoldsToken'
  BY <1>4, <1>6, <1>7 DEF Safe, RoundHoldsToken
<1>10. RoundStatus'
  <2>1. worker'[w].pc = "reading" /\ worker'[w].job = j
    BY <1>6
  <2>2. \A v \in Worker \ {w} : worker[v].pc \in {"reading", "publishing"} => Busy(v)
    BY DEF Busy
  <2> SUFFICES ASSUME NEW v \in Worker
               PROVE  /\ worker'[v].pc = "reading" =>
                           job'[worker'[v].job].status \in {"processing", "cancelled", "expired"}
                      /\ worker'[v].pc = "publishing" =>
                           /\ job'[worker'[v].job].status \in
                                 {"review", "confirmed", "cancelled", "expired"}
                           /\ worker'[v].todo \subseteq rows'[worker'[v].job]
    BY DEF RoundStatus
  <2>3. CASE v = w
    BY <1>4, <2>1, <2>3
  <2>4. CASE v # w
    <3>1. worker'[v] = worker[v]
      BY <1>6, <2>4
    <3>2. Busy(v) => job'[worker'[v].job] = job[worker[v].job]
      BY <1>7, <2>4
    <3> QED
      BY <1>3a, <2>2, <2>4, <3>1, <3>2 DEF Safe, RoundStatus
  <2> QED
    BY <2>3, <2>4
<1>11. /\ history'[j] = [rounds |-> job[j].retryCount + 1, lastToken |-> token]
       /\ job[j].retryCount < MaxRetries /\ files[j] = {}
       /\ \A k \in Job \ {j} : history'[k] = history[k]
  BY <1>2, <1>3 DEF Safe, Accounting, AccountingOf, TypeOK
<1>12. Accounting'
  <2> SUFFICES ASSUME NEW k \in Job PROVE AccountingOf(k)'
    BY DEF Accounting
  <2>1. CASE k = j
    BY <1>3a, <1>4, <1>11, <2>1 DEF AccountingOf
  <2>2. CASE k # j
    BY <1>3a, <1>4, <1>11, <2>2 DEF Safe, Accounting, AccountingOf
  <2> QED
    BY <2>1, <2>2
<1>13. RetryBudget'
  <2>1. job[j].retryCount \in Nat
    BY <1>2 DEF Row
  <2>2. history'[j].rounds <= MaxRetries
    BY <1>11, <2>1 DEF MaxRetries
  <2> QED
    BY <1>11, <2>2 DEF Safe, RetryBudget
<1>14. OneBankPerImport' /\ ManifestFirst'
  <2>1. \A k \in Job : job'[k].status # job[k].status => k = j
    BY <1>4
  <2>2. job[j].status # "confirmed" /\ job'[j].status \notin {"review", "confirmed"}
    BY <1>2, <1>4
  <2> QED
    BY <1>2, <1>3a, <2>1, <2>2 DEF Safe, OneBankPerImport, ManifestFirst
<1> QED
  BY <1>8, <1>9, <1>10, <1>12, <1>13, <1>14 DEF Safe

\* Progress changes nothing that the invariant speaks of.
LEMMA SafeReportPage ==
  ASSUME TypeOK, Safe, NEW w \in Worker, ReportPage(w)
  PROVE  Safe'
<1>1. CASE Abandon(w)
  BY <1>1, SafeAbandon
<1>2. CASE ~Abandon(w)
  <2>1. /\ worker[w].pc = "reading" /\ worker[w] \in Reading /\ worker[w].job \in Job
        /\ worker[w] \in [pc : {"reading"}, job : Job, token : Nat \ {0}, page : 0..Pages]
    BY BusyType DEF PageLeft, ReportPage, Busy, Reading
  <2>2. /\ job' = [job EXCEPT ![worker[w].job].progress = worker[w].page + 1]
        /\ worker' = [worker EXCEPT ![w].page = worker[w].page + 1]
        /\ UNCHANGED <<draft, rows, files, history, banks>>
    BY <1>2 DEF PageLeft, ReportPage, apiVars
  <2>3. \A k \in Job :
          /\ job'[k].status = job[k].status /\ job'[k].claimedAt = job[k].claimedAt
          /\ job'[k].retryCount = job[k].retryCount
    BY <2>1, <2>2 DEF TypeOK, Row
  <2>4. \A v \in Worker :
          /\ worker'[v].pc = worker[v].pc
          /\ Busy(v) => worker'[v].job = worker[v].job /\ worker'[v].token = worker[v].token
          /\ worker[v].pc = "publishing" => worker'[v] = worker[v]
    BY <2>1, <2>2 DEF TypeOK, Busy
  <2>5. \A v \in Worker : Busy(v)' <=> Busy(v)
    BY <2>4 DEF Busy
  <2>6. SingleRound' /\ RoundHoldsToken'
    BY <2>3, <2>4, <2>5, BusyType DEF Safe, SingleRound, RoundHoldsToken
  <2>7. RoundStatus'
    BY <2>2, <2>3, <2>4, BusyType DEF Safe, RoundStatus, Busy
  <2>8. Accounting' /\ RetryBudget' /\ OneBankPerImport' /\ ManifestFirst'
    BY <2>2, <2>3 DEF Safe, Accounting, AccountingOf, RetryBudget, OneBankPerImport, ManifestFirst
  <2> QED
    BY <2>6, <2>7, <2>8 DEF Safe
<1> QED
  BY <1>1, <1>2

\* The draft, its image rows and review appear together, and before any file.
LEMMA SafeReplaceDraft ==
  ASSUME TypeOK, Safe, NEW w \in Worker, NEW images \in SUBSET Image, ReplaceDraft(w, images)
  PROVE  Safe'
<1>1. CASE Abandon(w)
  BY <1>1, SafeAbandon
<1>2. CASE ~Abandon(w)
  <2> DEFINE j == worker[w].job
  <2>1. /\ worker[w].pc = "reading" /\ Busy(w) /\ j \in Job
        /\ job[j].status = "processing" /\ job[j].claimedAt = worker[w].token
        /\ draft' = draft \cup {j}
        /\ rows' = [rows EXCEPT ![j] = images]
        /\ job' = [job EXCEPT ![j].status = "review"]
        /\ worker' = [worker EXCEPT ![w] =
              [pc |-> "publishing", job |-> j, token |-> worker[w].token, todo |-> images]]
        /\ UNCHANGED <<files, history, banks>>
    BY <1>2, BusyType DEF ReplaceDraft, HoldsToken, Busy, apiVars
  <2>2. \A v \in Worker \ {w} : Busy(v) => worker[v].job \in Job \ {j}
    BY <2>1, BusyType DEF Safe, SingleRound
  <2>3. /\ worker'[w] = [pc |-> "publishing", job |-> j, token |-> worker[w].token, todo |-> images]
        /\ \A v \in Worker \ {w} : worker'[v] = worker[v] /\ (Busy(v)' <=> Busy(v))
    BY <2>1 DEF TypeOK, Busy
  <2> HIDE DEF j
  <2>4. /\ job'[j].status = "review" /\ job'[j].claimedAt = worker[w].token
        /\ job'[j].retryCount = job[j].retryCount
        /\ \A k \in Job \ {j} : job'[k] = job[k]
        /\ rows'[j] = images /\ \A k \in Job \ {j} : rows'[k] = rows[k]
    BY <2>1 DEF TypeOK, Row
  <2>5. \A v \in Worker \ {w} : Busy(v) =>
          job'[worker'[v].job] = job[worker[v].job] /\ rows'[worker'[v].job] = rows[worker[v].job]
    BY <2>2, <2>3, <2>4
  <2>6. SingleRound'
    BY <2>2, <2>3 DEF Safe, SingleRound
  <2>7. RoundHoldsToken'
    BY <2>3, <2>4, <2>5 DEF Safe, RoundHoldsToken
  <2>8. RoundStatus'
    BY <2>3, <2>4, <2>5 DEF Safe, RoundStatus, Busy
  <2>9. files[j] = {} /\ banks[j] = 0 /\ history[j].lastToken = worker[w].token
    BY <2>1 DEF Safe, Accounting, AccountingOf, OneBankPerImport
  <2>10. Accounting' /\ RetryBudget' /\ OneBankPerImport'
    BY <2>1, <2>4, <2>9 DEF Safe, Accounting, AccountingOf, RetryBudget, OneBankPerImport
  <2>11. ManifestFirst'
    BY <2>1, <2>4, <2>9 DEF Safe, ManifestFirst
  <2> QED
    BY <2>6, <2>7, <2>8, <2>10, <2>11 DEF Safe
<1> QED
  BY <1>1, <1>2

\* The image that is published is one of those the rows were written for.
LEMMA SafePublish ==
  ASSUME TypeOK, Safe, NEW w \in Worker, Publish(w)
  PROVE  Safe'
<1> DEFINE j == worker[w].job
<1>1. worker[w].pc = "publishing" /\ Busy(w) /\ worker[w] \in Publishing /\ j \in Job
  BY BusyType DEF Publish, Busy
<1>2. PICK i \in worker[w].todo :
        /\ files' = [files EXCEPT ![j] = files[j] \cup {i}]
        /\ worker' = [worker EXCEPT ![w].todo = worker[w].todo \ {i}]
  BY DEF Publish
<1>3. UNCHANGED <<job, draft, rows, history, banks>>
  BY DEF Publish, apiVars
<1>4. \A v \in Worker :
        /\ worker'[v].pc = worker[v].pc
        /\ Busy(v) => worker'[v].job = worker[v].job /\ worker'[v].token = worker[v].token
        /\ worker[v].pc = "publishing" => worker'[v].todo \subseteq worker[v].todo
  BY <1>1, <1>2 DEF TypeOK, Busy, Publishing
<1>5. \A v \in Worker : Busy(v)' <=> Busy(v)
  BY <1>4 DEF Busy
<1>6. SingleRound' /\ RoundHoldsToken'
  BY <1>3, <1>4, <1>5, BusyType DEF Safe, SingleRound, RoundHoldsToken
<1>7. RoundStatus'
  BY <1>3, <1>4, BusyType DEF Safe, RoundStatus, Busy
<1>8. /\ job[j].status \notin {"none", "uploading", "queued", "processing", "failed"}
      /\ i \in rows[j]
  BY <1>1, <1>2 DEF Safe, RoundStatus
<1>9. Accounting'
  <2> SUFFICES ASSUME NEW k \in Job PROVE AccountingOf(k)'
    BY DEF Accounting
  <2>1. k # j => files'[k] = files[k]
    BY <1>2 DEF TypeOK
  <2> QED
    BY <1>3, <1>8, <2>1 DEF Safe, Accounting, AccountingOf
<1>10. ManifestFirst'
  BY <1>1, <1>2, <1>3, <1>8 DEF Safe, ManifestFirst, TypeOK
<1>11. RetryBudget' /\ OneBankPerImport'
  BY <1>3 DEF Safe, RetryBudget, OneBankPerImport
<1> QED
  BY <1>6, <1>7, <1>9, <1>10, <1>11 DEF Safe

\* The invariant, step by step.
LEMMA SafeNext == TypeOK /\ Safe /\ [Next]_vars => Safe'
<1> SUFFICES ASSUME TypeOK, Safe, [Next]_vars PROVE Safe'
  OBVIOUS
<1>1. CASE ApiStep
  BY <1>1, SafeApi
<1>2. ASSUME NEW w \in Worker, WorkerStep(w) PROVE Safe'
  <2>1. ASSUME NEW locked \in SUBSET Queued, Claim(w, locked) PROVE Safe'
    BY <2>1, SafeClaim
  <2>2. CASE ReportPage(w)
    BY <2>2, SafeReportPage
  <2>3. ASSUME NEW r \in BOOLEAN, PipelineFails(w, r) PROVE Safe'
    BY <2>3, SafeFail DEF PipelineFails, Busy
  <2>4. ASSUME NEW images \in SUBSET Image, ReplaceDraft(w, images) PROVE Safe'
    BY <2>4, SafeReplaceDraft
  <2>5. CASE Publish(w)
    BY <2>5, SafePublish
  <2>6. CASE PublishFails(w)
    BY <2>6, SafeFail DEF PublishFails, Busy
  <2>7. CASE FinishRound(w) \/ Die(w)
    BY <2>7, SafeAbandon DEF FinishRound, Die
  <2> QED
    BY <1>2, <2>1, <2>2, <2>3, <2>4, <2>5, <2>6, <2>7 DEF WorkerStep
<1>3. CASE Tick \/ UNCHANGED vars
  BY <1>3 DEF Tick, vars, apiVars, Safe, SingleRound, RoundHoldsToken, RoundStatus, Accounting,
     AccountingOf, RetryBudget, OneBankPerImport, ManifestFirst, Busy
<1> QED
  BY <1>1, <1>2, <1>3 DEF Next

\* The inductive invariant holds: rounds of a job never overlap, the round in
\* progress holds the row's token, a job is processed at most twice, it creates
\* one bank when and only when it is confirmed, and files never precede rows.
THEOREM InductiveInvariant == Spec => []IInv
<1>1. Init => TypeOK /\ Safe
  BY TypeInit, SafeInit
<1>2. TypeOK /\ Safe /\ [Next]_vars => TypeOK' /\ Safe'
  BY TypeNext, SafeNext
<1>3. TypeOK /\ Safe => IInv
  BY DEF IInv, Safe
<1> QED
  BY <1>1, <1>2, <1>3, PTL DEF Spec

\* Two workers are never inside a round of the same job.
THEOREM RoundsDoNotOverlap == Spec => []SingleRound
<1>1. IInv => SingleRound
  BY DEF IInv
<1> QED
  BY <1>1, InductiveInvariant, PTL

\* A job is processed at most twice.
THEOREM RoundsAreBounded == Spec => []RetryBudget
<1>1. IInv => RetryBudget
  BY DEF IInv
<1> QED
  BY <1>1, InductiveInvariant, PTL

\* Confirmation, and only confirmation, creates a bank, and just one.
THEOREM BanksAreExact == Spec => []OneBankPerImport
<1>1. IInv => OneBankPerImport
  BY DEF IInv
<1> QED
  BY <1>1, InductiveInvariant, PTL

\* Every image file is covered by a row.
THEOREM FilesAreCovered == Spec => []ManifestFirst
<1>1. IInv => ManifestFirst
  BY DEF IInv
<1> QED
  BY <1>1, InductiveInvariant, PTL

-----------------------------------------------------------------------------
(* Action properties and the contract's transition table.                  *)

\* What one step may do to one job's row.  Every action below is an instance.
RowStep(j) ==
    \/ job'[j] = job[j] /\ banks'[j] = banks[j]
    \/ /\ job'[j].status = job[j].status \/ Lifecycle!CanTransition(job[j].status, job'[j].status)
          \/ Lifecycle!CanRequeue(job[j].status, job'[j].status)
       /\ job[j].status \notin {"confirmed", "cancelled", "expired"}
       /\ IF job'[j].status = "confirmed" THEN banks'[j] = banks[j] + 1 ELSE banks'[j] = banks[j]

\* A step of the API follows the contract's table in every row.
LEMMA ApiRowStep ==
  ASSUME TypeOK, ApiStep, NEW k \in Job
  PROVE  RowStep(k)
<1> USE DEF RowStep, Lifecycle!CanTransition, Lifecycle!CanRequeue, Lifecycle!Transitions
<1>0. job \in [Job -> Row] /\ banks \in [Job -> Nat]
  BY DEF TypeOK
<1>1. ASSUME NEW j \in Job, Create(j) PROVE RowStep(k)
  BY <1>0, <1>1 DEF Create, apiVars, Row
<1>2. ASSUME NEW j \in Job, CompleteUpload(j) PROVE RowStep(k)
  BY <1>0, <1>2 DEF CompleteUpload, apiVars, Row
<1>3. ASSUME NEW j \in Job, Cancel(j) PROVE RowStep(k)
  BY <1>0, <1>3 DEF Cancel, Cancellable, apiVars, Row
<1>4. ASSUME NEW j \in Job, Confirm(j) PROVE RowStep(k)
  BY <1>0, <1>4 DEF Confirm, apiVars, Row
<1>5. ASSUME NEW batch \in SUBSET Job, Expire(batch) PROVE RowStep(k)
  BY <1>0, <1>5 DEF Expire, Expirable, apiVars, Row
<1> QED
  BY <1>1, <1>2, <1>3, <1>4, <1>5 DEF ApiStep

\* A failure is the edge to failed, or the two edges of a requeue.
LEMMA FailRowStep ==
  ASSUME TypeOK, Safe, NEW w \in Worker, Busy(w), NEW r \in BOOLEAN, Fail(w, r), NEW k \in Job
  PROVE  RowStep(k)
<1>1. CASE Abandon(w)
  BY <1>1 DEF Abandon, apiVars, RowStep
<1>2. CASE ~Abandon(w)
  <2> DEFINE j == worker[w].job
             next == IF r /\ job[j].retryCount + 1 < MaxRetries THEN "queued" ELSE "failed"
  <2>1. /\ j \in Job /\ job[j].status = "processing" /\ UNCHANGED banks
        /\ job' = [job EXCEPT ![j].retryCount = job[j].retryCount + 1, ![j].status = next]
    BY <1>2, BusyType DEF Fail, Requeues, HoldsToken, apiVars
  <2>2. next \in {"queued", "failed"}
    OBVIOUS
  <2> HIDE DEF j, next
  <2>3. job'[j].status = next /\ \A i \in Job \ {j} : job'[i] = job[i]
    BY <2>1 DEF TypeOK, Row
  <2>4. CASE k = j
    BY <2>1, <2>2, <2>3, <2>4 DEF RowStep, Lifecycle!CanTransition, Lifecycle!CanRequeue,
       Lifecycle!Transitions
  <2>5. CASE k # j
    BY <2>1, <2>3, <2>5 DEF RowStep
  <2> QED
    BY <2>4, <2>5
<1> QED
  BY <1>1, <1>2

\* So does a worker's step, and it creates no bank.
LEMMA WorkerRowStep ==
  ASSUME TypeOK, Safe, NEW w \in Worker, WorkerStep(w), NEW k \in Job
  PROVE  RowStep(k)
<1> USE DEF Lifecycle!CanTransition, Lifecycle!CanRequeue, Lifecycle!Transitions
<1>0. Abandon(w) => RowStep(k)
  BY DEF Abandon, apiVars, RowStep
<1>1. ASSUME NEW locked \in SUBSET Queued, Claim(w, locked) PROVE RowStep(k)
  <2>1. PICK j \in Queued, t \in Nat :
          job' = [job EXCEPT ![j].status = "processing", ![j].claimedAt = t]
    <3>1. \A j \in Queued, now \in Clock : NextToken(job[j].claimedAt, now) \in Nat
      BY TokenType DEF Queued, TypeOK, Row
    <3> QED
      BY <1>1, <3>1 DEF Claim
  <2>2. job[j].status = "queued" /\ j \in Job /\ UNCHANGED banks
    BY <1>1, <2>1 DEF Queued, Claim, apiVars
  <2>3. job'[j].status = "processing" /\ \A i \in Job \ {j} : job'[i] = job[i]
    BY <2>1, <2>2 DEF TypeOK, Row
  <2> QED
    BY <2>2, <2>3 DEF RowStep
<1>2. ASSUME ReportPage(w) PROVE RowStep(k)
  <2>1. CASE ~Abandon(w)
    <3>1. /\ worker[w].job \in Job /\ UNCHANGED banks
          /\ job[worker[w].job].status = "processing"
          /\ job' = [job EXCEPT ![worker[w].job].progress = worker[w].page + 1]
      BY <1>2, <2>1, BusyType DEF PageLeft, ReportPage, Busy, apiVars, ProgressRowcount, HoldsToken
    <3> QED
      BY <3>1 DEF RowStep, TypeOK, Row
  <2> QED
    BY <1>0, <2>1
<1>3. ASSUME NEW r \in BOOLEAN, PipelineFails(w, r) PROVE RowStep(k)
  BY <1>3, FailRowStep DEF PipelineFails, Busy
<1>4. ASSUME NEW images \in SUBSET Image, ReplaceDraft(w, images) PROVE RowStep(k)
  <2>1. CASE ~Abandon(w)
    <3>1. /\ worker[w].job \in Job /\ UNCHANGED banks
          /\ job[worker[w].job].status = "processing"
          /\ job' = [job EXCEPT ![worker[w].job].status = "review"]
      BY <1>4, <2>1, BusyType DEF ReplaceDraft, Busy, apiVars, HoldsToken
    <3> QED
      BY <3>1 DEF RowStep, TypeOK, Row
  <2> QED
    BY <1>0, <2>1
<1>5. ASSUME Publish(w) PROVE RowStep(k)
  BY <1>5 DEF Publish, apiVars, RowStep
<1>6. ASSUME PublishFails(w) PROVE RowStep(k)
  BY <1>6, FailRowStep DEF PublishFails, Busy
<1>7. ASSUME FinishRound(w) \/ Die(w) PROVE RowStep(k)
  BY <1>0, <1>7 DEF FinishRound, Die
<1> QED
  BY <1>1, <1>2, <1>3, <1>4, <1>5, <1>6, <1>7 DEF WorkerStep

\* Every step, seen from every row.
LEMMA NextRowStep ==
  ASSUME TypeOK, Safe, [Next]_vars, NEW k \in Job
  PROVE  RowStep(k)
<1>1. Tick \/ UNCHANGED vars => RowStep(k)
  BY DEF Tick, vars, apiVars, RowStep
<1> QED
  BY <1>1, ApiRowStep, WorkerRowStep DEF Next

\* The rows of import_jobs follow IMPORT_TRANSITIONS and create a bank in the
\* step that confirms, never in another: ImportJob implements ImportLifecycle.
THEOREM Refinement == Spec => ImplementsLifecycle
<1>1. Init => Lifecycle!Init
  BY DEF Init, Lifecycle!Init
<1>2. TypeOK /\ Safe /\ TypeOK' /\ [Next]_vars => [Lifecycle!Next]_Lifecycle!lifecycleVars
  <2> SUFFICES ASSUME TypeOK, Safe, TypeOK', [Next]_vars PROVE Lifecycle!Next
    OBVIOUS
  <2>1. DOMAIN [j \in Job |-> job[j].status]' = Job /\ DOMAIN banks' = Job
    BY DEF TypeOK
  <2>2. ASSUME NEW j \in Job PROVE Lifecycle!Step(j)
    BY NextRowStep DEF RowStep, Lifecycle!Step, Lifecycle!CanTransition, Lifecycle!CanRequeue
  <2> QED
    BY <2>1, <2>2 DEF Lifecycle!Next
<1>3. Init => TypeOK /\ Safe
  BY TypeInit, SafeInit
<1>4. TypeOK /\ Safe /\ [Next]_vars => TypeOK' /\ Safe'
  BY TypeNext, SafeNext
<1> QED
  BY <1>1, <1>2, <1>3, <1>4, PTL DEF Spec, ImplementsLifecycle, Lifecycle!Spec

\* What one step may do to a job's history and draft.
LEMMA HistoryStep ==
  ASSUME TypeOK, Safe, [Next]_vars, NEW k \in Job
  PROVE  /\ \/ history'[k] = history[k]
            \/ history[k].lastToken < job'[k].claimedAt
         /\ \/ (k \in draft' <=> k \in draft) /\ rows'[k] = rows[k]
            \/ job[k].status = "processing"
<1> DEFINE Goal == /\ \/ history'[k] = history[k]
                      \/ history[k].lastToken < job'[k].claimedAt
                   /\ \/ (k \in draft' <=> k \in draft) /\ rows'[k] = rows[k]
                      \/ job[k].status = "processing"
<1>1. UNCHANGED <<draft, rows, history>> => Goal
  OBVIOUS
<1>2. ASSUME NEW w \in Worker, NEW locked \in SUBSET Queued, Claim(w, locked) PROVE Goal
  <2>1. PICK j \in Queued, now \in Clock :
          /\ job' = [job EXCEPT ![j].status = "processing",
                                ![j].claimedAt = NextToken(job[j].claimedAt, now)]
          /\ history' = [history EXCEPT ![j] = [rounds |-> history[j].rounds + 1,
                                lastToken |-> NextToken(job[j].claimedAt, now)]]
    BY <1>2 DEF Claim
  <2>2. j \in Job /\ job[j].status = "queued" /\ job[j].claimedAt \in Nat
    BY DEF Queued, TypeOK, Row
  <2>3. NextToken(job[j].claimedAt, now) > job[j].claimedAt /\ history[j].lastToken = job[j].claimedAt
    BY <2>2, TokenType DEF Safe, Accounting, AccountingOf
  <2>4. job'[j].claimedAt = NextToken(job[j].claimedAt, now)
    BY <2>1, <2>2 DEF TypeOK, Row
  <2>5. k # j => history'[k] = history[k]
    BY <2>1 DEF TypeOK
  <2>6. NextToken(job[j].claimedAt, now) \in Nat
    BY <2>2, TokenType
  <2>7. history[j].lastToken < job'[j].claimedAt
    BY <2>2, <2>3, <2>4, <2>6
  <2> QED
    BY <1>2, <2>5, <2>7 DEF Claim
<1>3. ASSUME NEW w \in Worker, NEW images \in SUBSET Image, ReplaceDraft(w, images) PROVE Goal
  <2>1. CASE Abandon(w)
    BY <1>1, <2>1 DEF Abandon
  <2>2. CASE ~Abandon(w)
    BY <1>3, <2>2, BusyType DEF ReplaceDraft, HoldsToken, Busy, TypeOK
  <2> QED
    BY <2>1, <2>2
<1>4. ApiStep \/ Tick \/ UNCHANGED vars => Goal
  <2>1. ApiStep => UNCHANGED <<draft, rows, history>>
    BY DEF ApiStep, Create, CompleteUpload, Cancel, Confirm, Expire
  <2> QED
    BY <1>1, <2>1 DEF Tick, vars
<1>5. ASSUME NEW w \in Worker,
             \/ ReportPage(w) \/ Publish(w) \/ PublishFails(w) \/ FinishRound(w) \/ Die(w)
             \/ \E r \in BOOLEAN : PipelineFails(w, r)
      PROVE  Goal
  BY <1>1, <1>5 DEF PageLeft, ReportPage, Publish, PublishFails, FinishRound, Die, PipelineFails, Fail, Abandon
<1> QED
  BY <1>2, <1>3, <1>4, <1>5 DEF Next, WorkerStep

\* A claim's token is later than every token the job carried before, whatever
\* the claiming worker's clock says.
THEOREM TokensAreFresh == Spec => FreshTokens
<1>1. ASSUME TypeOK, Safe, [Next]_vars
      PROVE  \A j \in Job : history'[j].rounds > history[j].rounds
                => job'[j].claimedAt > history[j].lastToken
  <2> SUFFICES ASSUME NEW j \in Job, history'[j].rounds > history[j].rounds
               PROVE  job'[j].claimedAt > history[j].lastToken
    OBVIOUS
  <2>1. TypeOK'
    BY <1>1, TypeNext
  <2>2. history[j].rounds \in Nat /\ history[j].lastToken \in Nat /\ job'[j].claimedAt \in Nat
    BY <1>1, <2>1 DEF TypeOK, Row
  <2>3. history'[j] # history[j]
    BY <2>2
  <2> QED
    BY <1>1, <2>2, <2>3, HistoryStep
<1>2. IInv => TypeOK /\ Safe
  BY DEF IInv, Safe
<1> QED
  BY <1>1, <1>2, InductiveInvariant, PTL DEF Spec, FreshTokens

\* Whatever a worker still does for a job that was confirmed, cancelled or
\* expired, the row, the draft and the image rows stay as they are.
THEOREM LateRoundsAreHarmless == Spec => LateRoundIsHarmless
<1>1. ASSUME TypeOK, Safe, [Next]_vars
      PROVE  \A j \in Job : job[j].status \in {"confirmed", "cancelled", "expired"}
                => /\ job'[j] = job[j]
                   /\ (j \in draft') <=> (j \in draft)
                   /\ rows'[j] = rows[j]
  <2> SUFFICES ASSUME NEW j \in Job, job[j].status \in {"confirmed", "cancelled", "expired"}
               PROVE  /\ job'[j] = job[j]
                      /\ (j \in draft') <=> (j \in draft)
                      /\ rows'[j] = rows[j]
    OBVIOUS
  <2>1. job'[j] = job[j]
    BY <1>1, NextRowStep DEF RowStep
  <2> QED
    BY <1>1, <2>1, HistoryStep
<1>2. IInv => TypeOK /\ Safe
  BY DEF IInv, Safe
<1> QED
  BY <1>1, <1>2, InductiveInvariant, PTL DEF Spec, LateRoundIsHarmless
=============================================================================
