--------------------------- MODULE ImportLifecycle ---------------------------
(***************************************************************************)
(* What an import job promises, independently of who moves it: its status  *)
(* only follows the edges of IMPORT_TRANSITIONS (import.contracts.ts), and *)
(* it puts one question bank into the user's collection, in the very step  *)
(* that confirms it.  ImportJob implements this specification.             *)
(***************************************************************************)
EXTENDS Naturals

CONSTANT Job

VARIABLES
    status,  \* the status column, "none" before the job exists
    banks    \* question banks the job has put into the user's collection

lifecycleVars == <<status, banks>>

Transitions ==
    [none       |-> {"uploading"},
     uploading  |-> {"queued", "cancelled", "expired"},
     queued     |-> {"processing", "cancelled", "expired"},
     processing |-> {"review", "failed", "cancelled", "expired"},
     review     |-> {"confirmed", "cancelled", "expired"},
     confirmed  |-> {},
     failed     |-> {"queued", "cancelled", "expired"},
     cancelled  |-> {},
     expired    |-> {}]

Status == DOMAIN Transitions
Settled == {s \in Status : Transitions[s] = {}}

CanTransition(from, to) == to \in Transitions[from]

\* A retryable failure is two edges in one transaction: failed is never seen.
CanRequeue(from, to) == CanTransition(from, "failed") /\ CanTransition("failed", to) /\ to = "queued"

Step(j) ==
    \/ status'[j] = status[j] /\ banks'[j] = banks[j]
    \/ /\ \/ CanTransition(status[j], status'[j])
          \/ CanRequeue(status[j], status'[j])
       /\ banks'[j] = IF status'[j] = "confirmed" THEN banks[j] + 1 ELSE banks[j]

Init ==
    /\ status = [j \in Job |-> "none"]
    /\ banks = [j \in Job |-> 0]

\* Jobs are rows of their own; one transaction may move several (expiry).
Next ==
    /\ DOMAIN status' = Job /\ DOMAIN banks' = Job
    /\ \A j \in Job : Step(j)

Spec == Init /\ [][Next]_lifecycleVars
=============================================================================
