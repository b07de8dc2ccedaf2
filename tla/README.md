# A verification project for wrong_question_collection

The repository is a HarmonyOS application that keeps a student's wrong
questions, and the server behind it: an API (NestJS, MySQL), an OCR worker
(Python) and a volume that the two share. This directory holds TLA+ models of
the parts where state is shared between processes, requests, calls and devices
or survives a crash, the TLC runs that check them on small instances, and proofs
of the main results for every instance.

## 1. The system

### Components, their state and how they meet

| Component | State | Operations | Meets |
|---|---|---|---|
| Import job rows (`server/src/imports/import.repository.ts`) | `import_jobs`, `import_draft_questions`, `import_artifacts`, `import_upload_parts`, `import_job_leases`, `import_confirmations`, `import_cleanup_checkpoints` | create, queue, cancel, expire, confirm, claim a lease, note a missing directory | API requests, worker and scheduler through MySQL row locks |
| OCR worker (`server/worker`) | none of its own between rounds; a round holds a job id and its `claimedAt` token | `claim_next`, `update_progress`, `fail`, `replace_draft`, `publish_artifact` | MySQL and the import volume only, never the API |
| Upload and assembly (`import.service.ts`) | request-local; the assembly lease | `uploadPart`, `complete`, `cancel` | other requests through the lease, the volume |
| Upload admission (`import-upload-admission.service.ts`, `import.controller.ts`, counters in `import.service.ts`) | upload slots, assembly counters in all and per job, the open file of a download | admit, finish, close, enter, leave, stream | the HTTP connections of the clients |
| Import volume (`import-storage.service.ts`, `import_writer.py`) | one directory per job: parts, `source.pdf`, images, staging files | stage, hard link, unlink, sweep, rmdir | requests, worker, scheduler |
| Scheduled cleanup (`import-cleanup.service.ts`) | checkpoints in MySQL | expire, sweep candidates, retire metadata, reclaim orphans | everyone above |
| Sync store (`typeorm-sync.store.ts`) | `sync_operations` with one AUTO_INCREMENT `serverSequence`, projections | push (also from the confirmation of an import), pull | devices |
| Cloud cache on the device (`CloudQuestionRepository.ets`, `CloudCacheService.ets`) | cached rows and a cursor per account | refresh, mutations, bank creation, replace, clear | the sync store; sign-out |
| Accounts and device sessions (`server/src/auth`, `typeorm-device-session.store.ts`) | a `devices` row with a session generation, `sessions` rows of refresh tokens | login, refresh, logout, the guard of every authorized request | the device |
| Account session on the device (`AccountSessionService.ets`) | stored credential and metadata, access token in memory, a lane of account operations | sign in, refresh, sign out | the server's sessions; the cloud cache |
| Review and save (`PdfReviewSession.ets`, `AiImportSaveService.ets`, `DeviceImageStore.ets`, `PdfImportReviewPage.ets`) | a session in memory, its checkpoint in the preferences and on disk, images in the cache and at their place | load, edit, save, abandon, recover | the sync store; the device's image rows |
| Legacy migration (`LegacyCloudMigrationService.ets`) | a persisted state of stages and banks | claim, upload, verify, write the cache, rebind images | sync store, cloud cache |
| Client import (`CloudImportService.ets`) | upload and polling state | upload, poll, read the draft and the images | the import API |
| PDF pipeline, HTTP layer, pages, local database services | no shared state | | |

An import goes once around: the device creates a job and uploads its parts; the
API merges them into `source.pdf` under the lease and queues the job; a worker
claims it, reads the pages, commits draft and image rows with the move to
`review`, and then publishes the images; the device reviews and confirms, which
appends the new bank to the user's sync log in the same transaction; the device
downloads the images and acknowledges; the scheduler expires, sweeps, retires and
reclaims whatever is left, in whatever state it was left.

### What is hard

* The worker is fenced by a token and by statuses, not by a lock. It may be
  slow, it may die, and its clock may go back.
* MySQL and the volume are two systems without a common transaction. The
  discipline is "manifest first": the row before the file, the file before the
  row's deletion.
* The assembly lease is renewed, but a request may be paused past its expiry and
  continue; "assert, then act" always leaves a window.
* Slots, counters and file handles are given back by callbacks of a connection
  that may close before, between and after them.
* `serverSequence` is handed out before commit; a cursor protocol over it is only
  sound because of a lock on the user's row.
* The handlers of login, refresh and logout overlap, since a client that gives a
  request up leaves its handler running, and a refresh token may be used once.
* On the device most of it is not locked: every `await` of a refresh or of a
  mutation is a place where another one, or a sign-out, runs. What is locked (the
  account lane, the lane of a review session) is held across calls to the server.
* The app is killed at any step. Saves and migrations go on from what was
  flushed, and repeat a push whose answer they do not know.

`PROJECT.json` lists each hazard at its line with the properties for it.

### What makes each component correct

* Job rows: statuses follow the contract's table; a bank is created exactly when
  the import is confirmed; every import is settled.
* Worker: no two rounds of one job at a time, fresh tokens, bounded retries, late
  rounds change nothing of a settled job, rows before files.
* Assembly: one request at work as long as leases hold; whatever the pace, rows
  before files, nothing after a teardown, and a stored part goes only with an upload of
  that part; a queued import has its source.
* Admission: what is taken is what open connections and running requests hold.
* Cleanup: rows lead to all files until they are retired, images live until they
  are acknowledged, everything is reclaimed in the end.
* Sync: nobody's cursor passes over an operation, an operation is one event.
* Cache: shows only what the server accepted; never goes back; a device that only
  reads has the banks and questions of the log's reduction up to its cursor, which agrees
  with the server's own tables, and nothing else unless a refresh was overtaken by another.
* Sessions: one live token, each used once, a logout is final, a refused
  generation stays refused; the device's credential is the one that is accepted, and its
  access token is of the same session.
* Review and save: what can be edited is not saved yet; what is saved keeps its
  images or can get them; an image row leads to a file; a save is finished.
* Migration: the text goes to the claimant's log and its cache, completely, before the
  legacy data is retired; no failure is a dead end.

## 2. Modules

| Module | Models | Extends / instance of |
|---|---|---|
| `ImportLifecycle` | abstract: the transition table of `import.contracts.ts` and the one bank per confirmation | |
| `ImportJob` | the job row under all its transactions, and the rounds of the workers | implements `ImportLifecycle` |
| `ImportAssembly` | the concurrent upload, complete and cancel requests of one import, lease and directory | |
| `ImportCleanup` | sweeps and acknowledgement of one import, with a late request and a late worker | |
| `UploadAdmission` | slots, assembly counters and the file handle of a download, call by call | |
| `OperationLog` | abstract: an append-only log and the devices that pull it | |
| `SyncStore` | push transactions and pulls | implements `OperationLog` |
| `CloudCache` | one device's cache over that log, and the server's tables of the same operations | |
| `DeviceSession` | the server's login, refresh and logout handlers for one device | |
| `AccountSession` | the app's session, its lane, and the two together | extends `DeviceSession` |
| `ReviewSave` | one review session from draft to saved bank, with page, recovery and kills | |
| `LegacyMigration` | claim and runs of the migration, with the account's log | |
| `*_proofs` | theorems about the module of that name; `ApiRequests_proofs` is about `UploadAdmission` and `SyncStore` | that module, `TLAPS` |
| `MC*` | values and symmetry for TLC | the module of that name |
| `MCTasks` | five parts that share no state, `UploadAdmission`, `SyncStore`, `ReviewSave`, `LegacyMigration` and `ImportCleanup`, with the fairness of the last three; each behaviour runs one | all five |

The three import modules are views of one system at three resolutions. `ImportJob`
has every status and every worker but one step per transaction and an image that is
published in one step. `ImportAssembly` takes the part of the row that upload
requests can tell apart and opens their steps up to single file operations.
`ImportCleanup` does the same for the end of the import and reduces the upload
request to the path that ends in a file. `SyncStore` and `CloudCache` meet in the
log: `CloudCache` may use positions in a sequence instead of `serverSequence`
because `SyncStore` implements `OperationLog`, and gaps are invisible to a cursor
that is only compared. `ImportJob!Confirm` is, on the sync side, one more push, and
so are `ReviewSave!Push` and `LegacyMigration!PushBatch`.

### State and actions

* **ImportJob.** `job` is `import_jobs` (status, `claimedAt`, `retryCount`,
  `progressCurrent`, age); `draft` and `rows` are the draft rows and the
  `question_image` rows; `files` the published images; `banks` counts what
  `confirmImport` has created; `worker` is the local state of a round. Every
  transaction locks the job row it is about and is one action: `Create`,
  `CompleteUpload`, `Cancel`, `Confirm`, `Expire` (one batch, skipping locked
  rows), `Claim`, `ReportPage`, `Fail` (as `PipelineFails` and `PublishFails`),
  `ReplaceDraft`; `Publish` is one hard link; `Die` is a crash or any exception
  that `run_once` does not classify. `history` is auxiliary: rounds and last
  token. The driver counts the rows an UPDATE changed, since the worker does not
  ask MySQL for matched rows (`ProgressRowcount`).
* **ImportAssembly.** `req` is what each request is doing; its `pc` values are the
  statements between awaits of `runWithOwnedLease` and its callbacks. `AssertOwned`
  is the renewal that precedes each step that matters. `slow` is chosen at the
  start and never changes: TRUE lets a live request go on after its lease ran out,
  FALSE lets only dead ones lose it. `JobMovesOn` is what the worker, the
  confirmation and the expiry do to the row, as far as requests can tell.
  `history.acked` is auxiliary: the parts that were ever answered 204.
* **ImportCleanup.** `jobAge`, `checkpoint.age` and `dir.age` are clocks capped
  where nothing more is compared. `SweeperStep` is one run of `runOnce`, statement
  by statement; `RequestStep` (whose state is `uploader`), `WorkerStep` and `DeviceStep`
  are those who may be late.
* **UploadAdmission.** `call` is an HTTP call: where its handler stands, whether the
  connection is open, what it has taken. `Close` is the response's `close` event,
  which may come at every step; `Enter` and `Leave` are the counters around
  `runWithOwnedLease`; `OpenFile`, `Deliver` and `StreamEnds` are the download, whose
  file is opened while the client may already have gone (`StillThere`).
* **SyncStore.** `request` are transactions, `lock` the `FOR UPDATE` on the user's
  row, `counter` the AUTO_INCREMENT that rollbacks do not give back.
* **CloudCache.** `rows` holds for each row the `serverVersion` it carries, which is
  enough to know its content from the log; `tables` are the rows that `materialize`
  writes in the transaction of a push, which are marked deleted and never removed;
  `task` are the calls of the repository, with what they have read so far.
  `LoadBanks`, `LoadQuestions` and `LoadWrong` are the separate reads of
  `loadSnapshot`, `Save` the transaction of `replacePage`. `pushed` and `overtaken` are
  auxiliary: whether the device has written, and whether a page was ever saved whose
  operations were not the ones that follow the cursor it replaced.
* **DeviceSession.** `device` is the `devices` row, `session` the rows of the refresh
  tokens, `req` the handlers. A request is named by its number, and so are the token
  and the generation it issues. `registerDevice` is not a transaction: it finds,
  inserts or loads, and updates (`FindDevice` to `UpdateDevice`); TypeORM's `save`
  reads once more and writes only what differs, which `LoadDevice` keeps.
  `rotateRefreshToken` and the logout lock their row and are one action each.
* **AccountSession.** `cred` is the asset store, `named` the metadata, `access` the
  token in memory, `lane` the operations of `accountOperationTail`, of which the
  first one runs; `call` and `login` are the requests whose answers are awaited. Each
  store that is written between two awaits is a step of its own. A login is `ClearMemory`,
  `SaveLogin`, `NameAccount`, `FinishLogin`; a refresh `PostRefresh`,
  `RotateCredential`, `FinishRefresh`, or after a 401 `RefreshRefused`, `ForgetAccount`,
  `FinishRefused`; a sign-out `PostLogout`, `ForgetCredential`, `ClearMemory`,
  `FinishSignOut`. So the old access token is in memory beside the new credential for a
  while, and the credential is gone before the access token is. `LoginFails`,
  `RefreshLost` and `SignOutFails` are a store or a call that throws at any of these
  steps and leave what was done; `RefreshLost`, `LoginLost` and
  `ForgetCredential` may go on without the answer while the handler still runs.
  `ForgetAccess` is `accessToken` for somebody who is not signed in. `upset` is
  auxiliary: whether something failed since the last undisturbed login.
* **ReviewSave.** `mem` is the session in `PdfReviewSessionStore`, `prefs` the
  checkpoint as the process sees it and `disk` as the next process will; they differ
  after a flush that failed (`flaky` behaviours only). `cache`, `final` and `mapped`
  are the images' three places. `lane` is `runSessionExclusive`; `proc` the two who
  enter it, the page's call and the recovery. Each stage of `saveLifecycleExclusive`
  is a step: `Keep` and `Note` store a stage durably and in memory, `Push` is
  `createBankWithIds`, `Copy` and `Map` the images, `Clean`, `Forget` and `Done` the
  end. `Fault` throws at any step, `Crash` kills the app.
* **LegacyMigration.** `saved` is the persisted state, `run` the run in flight with
  its own copy of it and the one `markFailed` would be given. `cloud` is, for each
  account and bank, the batches whose text the log holds as this device sent it;
  `version`, `wholeAt` and `cursor` relate log and cache, and `held` says of each batch
  whether its rows are cached, ahead of the cursor, or missed: behind it and not in the
  cache. `Refresh` caches what is ahead, `Mutate` (a `pushOne` of something else) passes
  over it, and `WriteCache` caches everything unless `replacePage` refuses. `Throw` ends a
  run with `markFailed`, `Interrupt` without it.

In every module a definition whose comment begins with "Fault:" is not part of the
model: it is a form that a plausible mistake would give the definition after it.
Each property of a passing run is violated under one of them.

## 3. Runs

| Run | Bounds | Distinct states | Shows |
|---|---|---|---|
| `job` | 2 jobs, 2 workers, 1 image, 1 page, clock readings {1, 2}, TTL 1, time to 3 | 532,170 | all properties of `ImportJob` |
| `job_storage_error` | 1 job, 1 worker, 2 pages | | violation, see 6 |
| `job_progress` | 1 job, 1 worker, 2 pages | | violation, see 6 |
| `assembly` | 3 requests, 1 part, slow or punctual per behaviour, crashes | 3,497,223 | rows before files, nothing after teardown, parts go only with their upload; punctual: mutual exclusion, source kept |
| `assembly_duplicate` | as `assembly` | | violation, see 6 |
| `assembly_overrun` | as `assembly` | | violation, see 6 |
| `cloud_cache` | 1 bank, 1 question, 2 tasks (one may mutate), pages of 2, pushes of 1, log of 4 (of 2 with a sign-out, of 3 with a mutation), 1 sign-out | 4,422,018 | the cache against the log and against the server's tables |
| `cloud_cache_overtaken` | as `cloud_cache`, no mutation, no sign-out | | violation, see 6 |
| `cloud_cache_agreement` | as `cloud_cache`, log of 3, no sign-out | | violation, see 6 |
| `cloud_cache_signout` | as `cloud_cache`, log of 3 | | violation, see 6 |
| `device_session` | 4 requests of any kind | 1,444,257 | the server's sessions, the app's credential and access token |
| `tasks` | 2 calls on 2 jobs, limits 1, 2 and 1; 1 edit, 2 troubles; 2 accounts, 2 banks of 2 batches, 2 faults, 1 edit by another device or mutation of this one; 2 users, 2 operations, 2 transactions, pages of 2, counter to 4; 1 image, TTL 1, grace 1, 1 failed deletion | 625,574 | admission, review and save, migration; of the store: no gap, no duplicate, refinement; of the cleanup: safety and reclaim of the volume |

Why the bounds are enough for what the runs claim:

* Two clock readings make a clock that goes back, and the third token that a
  requeued job may get already comes from the bump. Two workers and two jobs are the
  least at which claims race and skip each other's locks. Retries are exhausted
  (`MaxRetries` is the code's own 2).
* Three requests are the least at which a lost holder, a new holder and a waiting
  third interact. The request set is symmetric, no liveness is checked there. One
  part is enough for a part and the source to differ; what a second part adds is
  covered by the proofs of 4, which hold for any number of both.
* TTL and grace of one tick still distinguish before, at and after each limit, and
  the clock runs on past `TTL + Grace`.
* With 2 transactions and 2 operations, one user's pushes contend for the lock, another
  user's pushes and the rollbacks make gaps in a counter that goes to 4, and an operation
  may be pushed again by the other transaction.
* A log of 4 with pages of 2 makes a refresh take two or three pages; two tasks are the
  least that race. Four operations are the least at which the replay of an overtaken
  refresh does not end where the log does (finding 6): a bank and its question, the
  bank's deletion, and one by which the slower refresh is ahead. More banks and questions add rows that behave
  alike; one of each already has the cascade of a deleted bank over its question and
  wrong question. What the constraint of `cloud_cache` leaves out is covered by the
  proofs of 4, which bound neither the log nor the calls.
* Four requests of any kind are, for example, two logins that race, a refresh that
  overlaps both and a logout; a token that is presented twice needs three.
* Limits of 1 with two calls are reached and exceeded. One edit makes a version that
  differs from the first; two troubles are a lost answer and a crash after it. Two
  batches make a bank that is half in the log, two banks a state that is half
  acknowledged, and two faults a failed run after a failed run. The accounts of the
  migration are alike, so one of them is the one that claims; and where the account may
  change under a run, nothing that edits and mutations touch is claimed, so there are
  none (`MigrationCases`). The proofs of 4 need neither restriction.

Deadlock is not checked where the system may stop: in `ImportJob` when the bounded
clock has run out and every job is settled, in `ImportAssembly` when every request
has died, and in `AccountSession` when all the requests have been made. It is
checked in all others.

### Fairness

* `ImportJob!FairSpec`: weak fairness of time and of the expiry batch. The cleanup service starts
  its five-minute timer with the API (`onModuleInit`, `import-cleanup.service.ts:49`). Nothing is assumed of
  devices, requests or workers, so `EventuallySettled` is the promise that holds when
  all of them have gone.
* `MCTasks!CleanupFairness`: weak fairness of the scheduled run and of lease expiry
  (a lease not renewed runs out), and strong fairness of the clock, which the model
  holds still during a run; runs are short against their period. Again nothing is
  assumed of request, worker and device.
* `AccountSession!Spec`: weak fairness of `LaneStep`: a queued operation is run by the
  event loop, and a call without an answer times out (`ApiHttpClient.ets:48-49` sets both
  timeouts). Nothing is assumed of the server or the user.
* `MCTasks!SaveFairness`: weak fairness of the lane's steps, and of `Foreground`: the
  user comes back to the app, which is when `EntryAbility` resumes what is pending. The
  bound on trouble says that failures end; without it a save may fail for ever.
* `MCTasks!MigrationFairness`: weak fairness of the run's steps and of `Run`: the
  user tries again, as the page offers after a failure.

## 4. Proofs

All theorems hold for every value of the constants under the modules' assumptions.

**`ImportJob_proofs`.** `TypeCorrect` gives the types. `InductiveInvariant` proves
`IInv`, the conjunction of the checked safety properties with two facts they need:

* `RoundStatus`: while a worker is inside a round, its job is processing (before the
  draft) or in review (after it), or was settled under it. It is never queued, which
  is why `Claim` finds nobody there: `SingleRound` is not inductive without it.
* `Accounting`: how `retryCount`, the number of rounds and the status belong
  together, and that the row still carries the last token whenever it can be claimed
  again. `RetryBudget` and `FreshTokens` rest on it, and that image files exist only
  once the draft is written is what keeps `ManifestFirst` when the rows are replaced.

The proof has one lemma for the API's actions and one for each of the worker's, with
one step per conjunct it can disturb; `RoundsDoNotOverlap`, `RoundsAreBounded`,
`BanksAreExact` and `FilesAreCovered` follow. `TokensAreFresh` and
`LateRoundsAreHarmless` are action properties proved from the same invariant.
`Refinement` shows that every step is a step of `ImportLifecycle` or a stutter, job by
job (`NextRowStep`), with `OneBankPerImport` to know that a bank is new.

**`ImportAssembly_proofs`.** Two arguments in one invariant (`AInv`). Whatever the
pace: a request has its row before it enters the directory (`RowFirst`), hence
`FilesHaveRows`; and a cancellation deletes only after it owned the lease with the row
cancelled, so from then on nobody who could still publish holds the lease or can get
it (`NobodyPublishes`), which with "no names without a directory" gives
`TeardownIsFinal`. While leases hold: everyone past the lease is its live holder
(`Exclusive`), so what a request has seen of the row and the files is still so when it
acts on it (`StatusFits`, `FileFits`); `LeaseExcludes` and `SourceIsKept`
follow. `PartsAreSafe` needs no such condition: a completion is past `Queue` before it
cleans up (`CompletedFirst`), a cancellation has left "uploading", and what is left is an
upload that undoes its own part (`OnlyUndoRemoves`). That a part answered 204
stays, and `QueuedHasSource` without the condition, are findings of 6.

**`ImportCleanup_proofs`.** `RowsLeadToFiles` and `ImagesWait` need that a row precedes
every publisher (`RowsFirst`) and that no deletion begins before it is due
(`DeletionsAreDue`). `RetirementIsFinal` is about the two observations of
`noteCleanupMissing` (`RequestFenced`): at the first the lease is free, and the request
takes it only once; so at the second, which again finds the directory gone, whatever
passed a fence before the first has lost its staging file, and nothing passes one later.

**`ApiRequests_proofs`.** The two components whose state is the API's requests in flight.
Of the store (`StoreInvariant`): only the holder of the user's row has
sequences that are not committed (`LockHeld`); every sequence is below the counter
(`BelowCounter`), so what the holder gets next exceeds all that is committed for
that user (`OwnIsNew`); therefore a commit only adds at the end, and a cursor that
is one of the committed sequences (or 0) has nothing below it still to come.
`NothingIsSkipped`, `PushesAreIdempotent` and the refinement `StoreImplementsLog` follow.
Of the admission (`AInv`): what a call was admitted to it still holds exactly while its
connection is open, and the counters are the cardinalities of the sets of such calls.
It takes the calls to be finitely many, which the run's are.

**`AccountSession_proofs`.** `ServerInvariant` is about `DeviceSession` alone, for any
number of requests: requests not yet made are idle, rows exist only of requests that
were answered, a handler carries the generation of its own login or of the token it
was given, and a token that was used is revoked. `AppIsAClient` shows that whatever the
app does is a step of the server or none, so `OneLiveSession`, `TokensAreUsedOnce`,
`LogoutEndsSession` and `RefusedForGood` hold of the two together. `AccessToken` says
that the token in memory and the stored credential, where there are both, are of one
session (`AccessIsOfSession`): a rotation keeps the session, a login clears the memory
before it saves, and what a refresh installs is what it has stored. `CredentialStaysLive` relates both sides. Its invariant (`AppInvariant`) has
two layers. Whatever fails (`AppInv`): the call that is awaited is the one of the operation
at the head of the lane, no operation is queued twice, a sign-out leaves nothing behind it,
and the token of a login is presented by nobody until the login is installed
(`NotPresented`); so a logout still in flight is never of a generation that is yet to be
stored. While nothing has failed (`Undisturbed`): every handler that runs is awaited, hence
only the awaited call can rotate the stored credential, and each login that waits in the
lane, or whose answer is awaited, has a live token of the device's own generation. The
property is not inductive because what becomes the credential is decided by requests that
end before it is stored.

**`CloudCache_proofs`.** Two invariants. `Base` (`CacheInvariant`) holds whatever fails and
whoever writes or signs out: a row's version is a position of the log at or before the
cursor, and the operation there is the row's upsert; the same holds of the rows that a
call has read, and where it pulls is inside the log; and the server's banks are those of
the replayed log, its questions and marks at least those. `NoSpeculativeRow` and
`RefreshesGoForward` follow.
`ReaderFollows` (`ReaderInvariant`) is about a device that only reads: a refresh began at a
cursor `s`, and what it has read since was read at cursors from `s` to the one that is now
saved, possibly a different one for the banks, the questions and the wrong questions
(`Snapshot`). Applying the page from `s` to such a mixture gives the banks and the
questions that replaying the log gives and possibly more, and exactly the same rows when
the saved cursor is still `s`; a question or a mark that is left over was live somewhere in
the page and no deletion of it came later, so it is live in the server's tables. `ReadersAreConsistent` and `ReadersShowTheServer` follow. The log's reduction is a
recursive function. What it computes is proved by induction over the set of the positions
at which it is true, which has no least exception (`UpFrom`, from `WFMin`), since the
library's own induction theorem takes an operator; the existence of these functions is
proved in the same way (`Chained`). An earlier form of `ReaderIsConsistent` said that the
rows equal the reduction. Its proof failed at `Save`, for the reason that is now
finding 6; TLC, with a log one operation longer than before, found the behaviour.

**`ReviewSave_proofs`.** The three properties follow from one invariant (`SInv`). Its parts:
who is in the lane (there are two callers, so the lane has at most two, and one
call begins at a time); what each stage says of images, mapping and checkpoint
(`StagesMean`, `CopiesFirst`: a copy is made before the row that names it, and the
cache goes only after the mapping); what nobody has begun to save, which has neither a
checkpoint nor a version (`DraftIsUntouched`); and that the page's picture of the
session is one a call left behind (`PageAgrees`). The properties alone are not
inductive: a call acts on a session it read before it waited in the lane, and the
invariant has to say what that session still means.
`EditingIsSafe`, `ImagesAreReachable` and `RowsHaveFiles` are the results.

**`LegacyMigration_proofs`.** `MInv` says that a run is the claimant's and works on what was
saved (`RunIsTheClaimants`), that others have nothing (`OnlyTheClaimant`), and that a verified
bank was whole in the claimant's log at or before the pull's end, which the cursor, if it
stands, is not behind (`VerifiedIsWhole`, `LogAgrees`). The last is what the comparison with
the snapshot buys: with it left out the step of `Verify` has no proof. `CacheFollows`
(`CacheInvariant`) is about the rows: what the log has held is ahead of the cursor, cached or
missed, nothing is missed while this device has not mutated, and so a bank that was whole at
or before the cursor has every row in the cache, also where `replacePage` refused because a
refresh had come first. `MigrationIsWhole` follows. That some unfinished bank comes first is from the well-foundedness of `<` on
`Nat`. All hold for any number of accounts, banks and batches.

**Left to TLC.** `EventuallySettled`, `EventuallyGone`, `SignOutEnds`, `EventuallySaved`
and `EventuallyMigrated` are liveness under fairness, which the prover does not do, nor
`ENABLED`. Every other property of a passing run is stated by a theorem. The properties of
the violation runs are refuted, of course, and not proved. No module uses a RECURSIVE
operator.

## 5. What is abstracted, and what is not modelled

* Contents: hashes, sizes, text, images and file names are members of small sets; a
  refused validation is a step that fails.
* `ImportJob` does not model the wait for a row lock: `Claim` and `Expire` skip what is
  locked (`SKIP LOCKED`), the others would wait and then run.
* `ImportAssembly`: the directory sweep of a cancellation deletes everything it has
  listed; single failed deletions are in `Unlink` and in `ImportCleanup`. The caps on
  concurrent requests are in `UploadAdmission`.
* `ImportCleanup`: one import, one upload request, one worker; the run's batch over
  many jobs is one job's turn.
* `SyncStore`: `materialize` may refuse (a rollback); what it writes is in `CloudCache`,
  except for review records. Several devices of a user are one, since pulls do not
  interact.
* `CloudCache`: one account; `review_record` operations, which the client ignores, and
  the loss of the session through a failed token refresh are left out.
* `ImportCleanup!RowsCoverFiles` promises rows until the metadata is retired; that no file is
  brought back afterwards, or that it is reclaimed, is `NoUploadAfterRetirement` and
  `EventuallyGone`.
* `DeviceSession` and `AccountSession`: one user and one device. `accessToken` reads the
  state before it clears the memory, so it may clear a token that a login has installed
  in between; the next call asks for a refresh. The expiry of an access
  token is left out (a request that finds it expired asks for a refresh like any other);
  the expiry of a refresh token is a step.
* `ReviewSave`: one session; the images of a session are one unit, present or not; a
  draft is its version number. The ids of bank and questions are chosen before the
  push, which is why repeating it is one version in `accepted`.
* `LegacyMigration`: the scan of the legacy tables is the constant plan; another device's
  edit replaces one batch of a bank.
* Not modelled, with the reasons in `PROJECT.json`: the client's import service and its
  review adapter, on-device AI import, the outbox that the cloud-text design replaced,
  the parsers, HTTP routing and user interface. `CloudImportService.cancel` has no caller.

## 6. Where code and documents disagree

Each of the seven violation runs checks one sentence of the repository:

1. `StorageErrorRequeues`. A storage error after the draft was committed does not
   requeue the job; it stays in review without its images (`worker/main.py:65`).
2. `ProgressRefusedOnlyIfLost`. A retried round that repeats a stored progress is
   told that it lost the job and gives up (`worker/job_store.py:250`).
3. `QueuedHasSource`, with slow requests. A completion that lost its lease deletes the
   source of an import already queued (`import.service.ts:368`).
4. `RefreshedDeviceAgrees`. A mutation moves the cursor over other devices'
   operations (`CloudQuestionRepository.ets:516`).
5. `SignedOutCacheStaysEmpty`. A refresh that spans a sign-out writes the rows back
   (`CloudQuestionRepository.ets:218`).
6. `RefreshedDeviceAgrees`, for a device that never writes. A refresh fixes its cursor
   before it pulls and loads its snapshot afterwards (`CloudQuestionRepository.ets:199`, 216).
   If another refresh saves in between, old operations are replayed onto newer rows. The
   deletion of a bank does nothing when the bank is already gone (`applyBank`, 592-594), so
   a question that went with it is put back, and stays until a later operation
   removes it. Marks come back in the same way.

7. `AckedPartsKept`, with punctual requests. An upload of a part that is already stored
   takes the file as it is (`import-storage.service.ts:128-129`). If its last ownership
   check then fails, for which an error of the database is enough, it deletes the file
   (`import.service.ts:285-290`) that an earlier upload was answered 204 for. The part
   stays recorded, and the completion fails until the client sends it once more, against
   `PdfImportProgressPage.ets:173` and the tests of idempotent parts.

Met while modelling, with no run of its own:

* The worker makes a removed job directory again (`worker/import_writer.py:117`), against
  `import-storage.service.ts:315-316`; the orphan sweep reclaims it, which
  `EventuallyGone` covers.
* A login that the client gave up may still write its generation over a newer login's,
  whose device is then refused; a logout that races a login may be answered as refused.
  `CredentialIsLive` is stated for undisturbed logins for that reason.
* A deleted bank leaves its questions live in the server's tables while the client
  removes them; `ReaderShowsServerRows` is one-sided for questions for that reason, and
  promises that no question of a deleted bank is shown only while no refresh was overtaken.
* An upload whose client has closed gives its slot back while its body is still held.
  A download whose client left before the listeners were bound is noticed only by the
  check after the file was opened.
* If the flush of the preferences fails and the app is then killed, a review session may
  lose its checkpoint, or find an old one. If the account check at the end of a recovery
  fails, the page's save that waits behind it finds the session saved without a
  checkpoint and reports it missing, although all is saved. An abandon that fails
  half-way leaves a draft without its images.
* The migration pushes with the token of whoever is signed in
  (`LegacyCloudMigrationService.ets:330`). If the account changes under a run, the text
  goes to the other account's log, against
  `docs/superpowers/specs/2026-08-26-server-pdf-processing-cloud-text-design.md:169`; `LegacyTextIsTheClaimants` leaves
  these behaviours (`wandering`) out. It repeats a lost push under new operation ids, which
  overwrites later edits; an edit by another device after a bank was acknowledged
  makes the comparison fail for good; and
  `markFailed` drops what the phase had acknowledged, while a crash keeps it.
* The migration does not look at the result of `replacePage`
  (`LegacyCloudMigrationService.ets:478`). After a mutation of this device the cursor
  may be at the log's end although the pushed banks were never applied; the page is then
  refused in silence and the migration completes on a cache without them.
  `LegacyTextIsTheClaimants` holds while `mutations = 0`; without that condition TLC
  finds this behaviour. The cause is that of finding 4.

## 7. Plan

Done, in this order: the job row and the worker with its contract and proofs; the
assembly lease; cleanup; the sync store with its log and proofs; the cloud cache; the
sessions with proofs; admission with proofs; review and save; the migration; the proofs
for assembly, cleanup, review and save, and the migration; the proofs for the cloud cache
and for the device's credential.

Next, most important first:

1. `ClientImport`: upload with resume, poll, confirm and acknowledge over
   `ImportLifecycle`, with lost answers; the 404 of an image not yet published
   (`CloudPdfReviewAdapter.ets:574`).
2. `SyncStore` with review records and several devices of one user.
