------------------------------- MODULE MCTasks -------------------------------
(* Small instances of five parts that share no state: the review session    *)
(* and the legacy migration on the device, the calls that the API admits,  *)
(* the transactions of the sync store, and the cleanup of an import.       *)
(* Every behaviour runs one.                                               *)
EXTENDS UploadAdmission, ReviewSave, LegacyMigration, SyncStore, ImportCleanup

VARIABLE task

deviceVars == <<saveVars, migrationVars>>
apiVars == <<admissionVars, storeVars>>
vars == <<task, deviceVars, apiVars, cleanupVars>>

Init ==
    /\ task \in {"admission", "save", "migration", "store", "cleanup"}
    /\ AdmissionInit /\ SaveInit /\ MigrationInit /\ StoreInit /\ CleanupInit
    /\ flaky => task = "save"
    /\ wandering => task = "migration"
    /\ task # "store" => \A r \in Request : request[r].user = CHOOSE u \in User : TRUE

\* The accounts are alike: whichever claims, it is this one.  Where the account
\* may change under a run, nothing is claimed of what edits and mutations touch.
Claimant == CHOOSE a \in Account : TRUE
MigrationCases ==
    /\ saved'.owner \in {Nobody, Claimant}
    /\ wandering => edits' + mutations' = 0

Running(name) == task = name /\ UNCHANGED task
Admitting(A) == Running("admission") /\ A /\ UNCHANGED <<deviceVars, storeVars, cleanupVars>>
Storing(A) == Running("store") /\ A /\ UNCHANGED <<deviceVars, admissionVars, cleanupVars>>
Saving(A) == Running("save") /\ A /\ UNCHANGED <<apiVars, migrationVars, cleanupVars>>
Migrating(A) == Running("migration") /\ A /\ UNCHANGED <<apiVars, saveVars, cleanupVars>>
Cleaning(A) == Running("cleanup") /\ A /\ UNCHANGED <<deviceVars, apiVars>>

Next ==
    \/ Admitting(AdmissionNext)
    \/ Storing(StoreNext)
    \/ Saving(SaveNext)
    \/ Migrating(MigrationNext) /\ MigrationCases
    \/ Cleaning(CleanupNext)

\* The lane goes on, and the user comes back to the app.
SaveFairness == WF_vars(Saving(\E p \in Proc : LaneStep(p))) /\ WF_vars(Saving(Foreground))

\* A run goes on, and the user tries again while it is not completed.
MigrationFairness == WF_vars(Migrating(RunStep)) /\ WF_vars(Migrating(Run))

\* Time passes between the five-minute runs (strong fairness: a run holds the
\* clock still), the runs come round, and no request heartbeats for ever.
\* Nothing is assumed of the request, the worker and the device.
CleanupFairness ==
    /\ SF_vars(Cleaning(Tick))
    /\ WF_vars(Cleaning(SweeperStep))
    /\ WF_vars(Cleaning(LeaseRunsOut))

Spec == Init /\ [][Next]_vars /\ SaveFairness /\ MigrationFairness /\ CleanupFairness
=============================================================================
