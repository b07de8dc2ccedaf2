---------------------------- MODULE OperationLog ----------------------------
(***************************************************************************)
(* What the synchronization service promises a device: the user's accepted *)
(* operations form a log that only grows at its end, no operation is in it *)
(* twice, and whoever pulls past a cursor has been given everything up to  *)
(* it.  SyncStore implements this; the devices of CloudCache rely on it.   *)
(***************************************************************************)
EXTENDS Naturals

CONSTANTS User, Operation

VARIABLES
    log,     \* by user, the accepted operations with their serverSequence
    cursor,  \* by user, how far a device that pulls has come
    seen     \* what it has been given

logVars == <<log, cursor, seen>>

Event == [operation : Operation, sequence : Nat]

Init ==
    /\ log = [u \in User |-> {}]
    /\ cursor = [u \in User |-> 0]
    /\ seen = [u \in User |-> {}]

Others(u) == User \ {u}

\* Another accepted push: all of it at once, after all that is there.
Push(u) ==
    /\ log' \in [User -> SUBSET Event]
    /\ \A v \in Others(u) : log'[v] = log[v]
    /\ log[u] \subseteq log'[u]
    /\ \A e \in log'[u] \ log[u] :
          /\ \A f \in log[u] : f.sequence < e.sequence /\ f.operation # e.operation
          /\ \A f \in log'[u] \ log[u] :
                f.sequence = e.sequence \/ f.operation = e.operation => f = e
    /\ UNCHANGED <<cursor, seen>>

\* A device is brought up to some later point of the log.
Pull(u) ==
    /\ cursor' \in [User -> Nat]
    /\ cursor[u] <= cursor'[u]
    /\ \A v \in Others(u) : cursor'[v] = cursor[v]
    /\ seen' = [seen EXCEPT ![u] = {e \in log[u] : e.sequence <= cursor'[u]}]
    /\ UNCHANGED log

Next == \E u \in User : Push(u) \/ Pull(u)

Spec == Init /\ [][Next]_logVars
=============================================================================
