---------------------------- MODULE LegacyMigration ----------------------------
(***************************************************************************)
(* The one-time upload of the banks that an old version left on the device *)
(* (LegacyCloudMigrationService): one account claims them, a run pushes    *)
(* every bank in batches, pulls the account's log back, compares, replaces *)
(* the text cache and rebinds the images, and saves its progress after     *)
(* every bank.  The app may be killed, an answer lost, another device may  *)
(* edit what is there already, this one may write something of its own,    *)
(* and the user may change the account.                                    *)
(***************************************************************************)
EXTENDS Naturals

CONSTANTS
    Account,
    Banks,      \* the plan's banks are 1 .. Banks, in this order
    Batches,    \* the PUSH_BATCH_LIMIT-sized pushes of a bank are 1 .. Batches
    MaxFaults,      \* bound: failures, lost answers, crashes, and sign-outs during a run
    MaxMutations    \* bound: edits by another device, and mutations of this one

ASSUME PlanAssumption == {Banks, Batches} \subseteq Nat \ {0}
ASSUME FaultAssumption == {MaxFaults, MaxMutations} \subseteq Nat

Bank == 1 .. Banks
Batch == 1 .. Batches
Nobody == "nobody"

ASSUME AccountAssumption == Nobody \notin Account

VARIABLES
    user,       \* the account that is signed in
    wandering,  \* may the user change the account during a run?
    saved,      \* the persisted LegacyMigrationState
    run,        \* the run in flight
    cloud,      \* the batches whose text the account's log holds unedited
    version,    \* the sequence that the account's log has reached
    wholeAt,    \* the sequence at which the log first held the whole bank
    cursor,     \* the cursor of the account's text cache, 0 without one
    held,       \* where a batch's rows are: not in the log ("none"), "ahead" of that
                \* cursor, "cached", or "missed": behind it and not in the cache
    bound,      \* the banks whose images are mapped for the account
    faults, edits, mutations

migrationVars == <<user, wandering, saved, run, cloud, version, wholeAt, cursor, held,
                   bound, faults, edits, mutations>>
log == <<cloud, version, wholeAt>>
textCache == <<cursor, held>>
mutators == <<edits, mutations>>

Unclaimed ==
    [owner |-> Nobody, stage |-> "unclaimed", acked |-> {}, verified |-> {}, rebound |-> {}]

\* st is the run's state; base is the one that markFailed would be given.
Waiting == [at |-> "idle", st |-> Unclaimed, base |-> Unclaimed, batch |-> 1, snap |-> {}, end |-> 0]

MigrationInit ==
    /\ user = Nobody /\ wandering \in BOOLEAN
    /\ saved = Unclaimed /\ run = Waiting
    /\ cloud = [a \in Account |-> [b \in Bank |-> {}]]
    /\ version = [a \in Account |-> 0]
    /\ wholeAt = [a \in Account |-> [b \in Bank |-> 0]]
    /\ cursor = [a \in Account |-> 0]
    /\ held = [a \in Account |-> [b \in Bank |-> [k \in Batch |-> "none"]]]
    /\ bound = [a \in Account |-> {}]
    /\ faults = 0 /\ edits = 0 /\ mutations = 0

\* The first bank that is not done yet.
Undone(done) == Bank \ done
First(set) == CHOOSE b \in set : \A other \in set : b <= other

Faulty == faults < MaxFaults /\ faults' = faults + 1

-----------------------------------------------------------------------------
(* The user.                                                               *)

\* MigrationPolicy.canClaim: a claim by another account is refused.
Claim ==
    /\ user # Nobody /\ saved.owner = Nobody
    /\ saved' = [Unclaimed EXCEPT !.owner = user, !.stage = "uploading"]
    /\ UNCHANGED <<user, wandering, run, log, textCache, bound, faults, mutators>>

Runnable == user # Nobody /\ saved.owner = user

Run ==
    /\ run.at = "idle"
    /\ Runnable /\ saved.owner # Nobody /\ saved.stage # "completed"
    /\ run' = [Waiting EXCEPT !.at = "upload", !.st = saved, !.base = saved]
    /\ UNCHANGED <<user, wandering, saved, log, textCache, bound, faults, mutators>>

\* What happens to the rows of an account's batches.
Become(a, from, to) ==
    [held EXCEPT ![a] = [b \in Bank |-> [k \in Batch |-> IF @[b][k] \in from THEN to ELSE @[b][k]]]]

\* Signing out clears the account's text cache.
SignOut ==
    /\ user # Nobody
    /\ \/ run.at = "idle" /\ UNCHANGED faults
       \/ run.at # "idle" /\ wandering /\ Faulty
    /\ user' = Nobody
    /\ cursor' = [cursor EXCEPT ![user] = 0]
    /\ held' = Become(user, {"cached", "missed"}, "ahead")
    /\ UNCHANGED <<wandering, saved, run, log, bound, mutators>>

SignIn ==
    /\ user = Nobody /\ user' \in Account
    /\ UNCHANGED <<wandering, saved, run, log, textCache, bound, faults, mutators>>

\* A refresh applies what comes after the cursor.
Refresh ==
    /\ user # Nobody
    /\ cursor' = [cursor EXCEPT ![user] = version[user]]
    /\ held' = Become(user, {"ahead"}, "cached")
    /\ UNCHANGED <<user, wandering, saved, run, log, bound, faults, mutators>>

\* pushOne, of something else than the plan's banks: the cursor goes on to the
\* mutation's own sequence, and nothing that came before it is applied.
Mutate ==
    /\ user # Nobody
    /\ edits + mutations < MaxMutations /\ mutations' = mutations + 1
    /\ version' = [version EXCEPT ![user] = @ + 1]
    /\ cursor' = [cursor EXCEPT ![user] = version'[user]]
    /\ held' = Become(user, {"ahead"}, "missed")
    /\ UNCHANGED <<user, wandering, saved, run, cloud, wholeAt, bound, faults, edits>>

-----------------------------------------------------------------------------
(* The run.                                                                *)

To(at) == run' = [run EXCEPT !.at = at] /\ UNCHANGED saved
SaveState(st, at) == saved' = st /\ run' = [run EXCEPT !.at = at, !.st = st]

\* markFailed: the state of the phase's beginning is saved as failed.
MarkFailed == saved' = [run.base EXCEPT !.stage = "failed"] /\ run' = Waiting

\* Fault: a bank counts as uploaded with its first batch.
FirstBatch(batch) == batch = 1

LastBatch(batch) == batch = Batches

\* pushBatch, with the token of whoever is signed in now.
PushBatch ==
    /\ run.at = "upload" /\ Undone(run.st.acked) # {} /\ user # Nobody
    /\ LET b == First(Undone(run.st.acked)) IN
       /\ cloud' = [cloud EXCEPT ![user][b] = @ \cup {run.batch}]
       /\ version' = [version EXCEPT ![user] = @ + 1]
       /\ wholeAt' = IF cloud'[user][b] = Batch /\ wholeAt[user][b] = 0
                     THEN [wholeAt EXCEPT ![user][b] = version'[user]] ELSE wholeAt
       /\ held' = [held EXCEPT ![user][b][run.batch] = IF @ = "cached" THEN @ ELSE "ahead"]
       /\ \/ /\ IF LastBatch(run.batch)
                THEN run' = [run EXCEPT !.at = "ack"] ELSE run' = [run EXCEPT !.batch = @ + 1]
             /\ UNCHANGED <<saved, faults>>
          \/ Faulty /\ MarkFailed
    /\ UNCHANGED <<user, wandering, cursor, bound, mutators>>

Acknowledge ==
    /\ run.at = "ack"
    /\ LET st == [run.st EXCEPT !.acked = @ \cup {First(Undone(@))}] IN
       saved' = st /\ run' = [run EXCEPT !.at = "upload", !.st = st, !.batch = 1]
    /\ UNCHANGED <<user, wandering, log, textCache, bound, faults, mutators>>

Uploaded ==
    /\ run.at = "upload" /\ Undone(run.st.acked) = {}
    /\ LET st == [run.st EXCEPT !.stage = "verifying"] IN
       saved' = st /\ run' = [run EXCEPT !.at = "pull", !.st = st, !.base = st]
    /\ UNCHANGED <<user, wandering, log, textCache, bound, faults, mutators>>

\* pullAuthoritativeSnapshot, from 0, again with the token of whoever is signed in.
Pull ==
    /\ run.at = "pull" /\ user # Nobody
    /\ run' = [run EXCEPT !.at = "verify", !.end = version[user],
                          !.snap = {b \in Bank : cloud[user][b] = Batch}]
    /\ UNCHANGED <<user, wandering, saved, log, textCache, bound, faults, mutators>>

\* Fault: a bank that is there is taken for a bank that is the same.
Present(b) == cloud[run.st.owner][b] # {}

SameText(b) == b \in run.snap

Verify ==
    /\ run.at = "verify" /\ Undone(run.st.verified) # {}
    /\ LET b == First(Undone(run.st.verified)) IN
       IF SameText(b)
       THEN SaveState([run.st EXCEPT !.verified = @ \cup {b}], "verify")
       ELSE MarkFailed
    /\ UNCHANGED <<user, wandering, log, textCache, bound, faults, mutators>>

\* replacePage of the claimant's cache, with every bank of the plan; it refuses a
\* page that is not ahead of the cursor in silence.
WriteCache ==
    /\ run.at = "verify" /\ Undone(run.st.verified) = {}
    /\ IF run.end > cursor[run.st.owner]
       THEN /\ cursor' = [cursor EXCEPT ![run.st.owner] = run.end]
            /\ held' = Become(run.st.owner, {"none", "ahead", "missed"}, "cached")
       ELSE UNCHANGED textCache
    /\ To("rebind")
    /\ UNCHANGED <<user, wandering, log, bound, faults, mutators>>

Rebind ==
    /\ run.at = "rebind" /\ Undone(run.st.rebound) # {}
    /\ LET b == First(Undone(run.st.rebound)) IN
       /\ bound' = [bound EXCEPT ![run.st.owner] = @ \cup {b}]
       /\ SaveState([run.st EXCEPT !.rebound = @ \cup {b}], "rebind")
    /\ UNCHANGED <<user, wandering, log, textCache, faults, mutators>>

\* canRetireLegacy holds: every set is full.
Complete ==
    /\ run.at = "rebind" /\ Undone(run.st.rebound) = {}
    /\ saved' = [run.st EXCEPT !.stage = "completed"] /\ run' = Waiting
    /\ UNCHANGED <<user, wandering, log, textCache, bound, faults, mutators>>

-----------------------------------------------------------------------------
(* What goes wrong.                                                        *)

\* Nobody is signed in any more when a token is wanted.
NoToken ==
    /\ run.at \in {"upload", "pull"} /\ user = Nobody
    /\ run.at = "upload" => Undone(run.st.acked) # {}
    /\ MarkFailed
    /\ UNCHANGED <<user, wandering, log, textCache, bound, faults, mutators>>

\* A call, a query or a file operation throws.
Throw ==
    /\ run.at # "idle" /\ Faulty /\ MarkFailed
    /\ UNCHANGED <<user, wandering, log, textCache, bound, mutators>>

\* The app is killed between two steps; what was saved stays.
Interrupt ==
    /\ run.at # "idle" /\ Faulty /\ run' = Waiting
    /\ UNCHANGED <<user, wandering, saved, log, textCache, bound, mutators>>

OtherDeviceEdits(a, b, batch) ==
    /\ edits + mutations < MaxMutations /\ edits' = edits + 1
    /\ batch \in cloud[a][b]
    /\ cloud' = [cloud EXCEPT ![a][b] = @ \ {batch}]
    /\ version' = [version EXCEPT ![a] = @ + 1]
    /\ UNCHANGED <<user, wandering, saved, run, wholeAt, textCache, bound, faults, mutations>>

-----------------------------------------------------------------------------
RunStep ==
    \/ PushBatch \/ Acknowledge \/ Uploaded \/ Pull \/ Verify \/ WriteCache \/ Rebind \/ Complete
    \/ NoToken

MigrationNext ==
    \/ Claim \/ Run \/ SignOut \/ SignIn \/ Refresh \/ Mutate
    \/ RunStep \/ Throw \/ Interrupt
    \/ \E a \in Account, b \in Bank, batch \in Batch : OtherDeviceEdits(a, b, batch)

MigrationSpec == MigrationInit /\ [][MigrationNext]_migrationVars

-----------------------------------------------------------------------------
Whole(a, b) ==
    /\ wholeAt[a][b] # 0 /\ b \in bound[a]
    /\ cursor[a] = 0 \/ \A batch \in Batch : held[a][b][batch] = "cached"

(* Images are bound for the claimant only.  As long as the account does not *)
(* change under a run, no other account's log receives the legacy text, and *)
(* a completed migration means that the claimant's log has held every bank *)
(* whole, and that its cache, if it has one, has every row of it, unless    *)
(* this device has written something else meanwhile (claim, performRun,     *)
(* verifyPhase, writeCloudCache), whatever was lost, repeated or edited     *)
(* elsewhere on the way.                                                    *)
LegacyTextIsTheClaimants ==
    /\ \A a \in Account : bound[a] # {} => a = saved.owner
    /\ (~wandering /\ saved.owner # Nobody) =>
          /\ \A a \in Account \ {saved.owner} : \A b \in Bank : cloud[a][b] = {}
          /\ saved.stage = "completed" /\ mutations = 0 => \A b \in Bank : Whole(saved.owner, b)

(* While the claimant stays and nothing is edited elsewhere, retries bring *)
(* the migration to its end: no saved stage, and no order of lost answers  *)
(* and crashes, is a dead end (markFailed, acknowledgedState).             *)
EventuallyMigrated ==
    (~wandering /\ [](edits = 0) /\ <>[](saved.owner # Nobody /\ user = saved.owner))
        => <>(saved.stage = "completed")
=============================================================================
