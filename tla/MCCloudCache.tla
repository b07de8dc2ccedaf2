---------------------------- MODULE MCCloudCache ----------------------------
(* One bank with one question, and two calls, of which one may be a mutation. *)
EXTENDS CloudCache, TLC

CONSTANTS b1, q1

MCBankOf == q1 :> b1

\* Longer logs are left to sessions that last, the longest to devices that only read.
Reading == ~pushed /\ \A t \in Task : task[t].pc # "pushing"
LongLogsAreRead ==
    /\ Len(log) >= MaxLog - 1 => signOuts = 0
    /\ Len(log) = MaxLog => Reading
=============================================================================
