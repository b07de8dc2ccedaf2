------------------------------ MODULE SyncStore ------------------------------
(***************************************************************************)
(* POST /v1/sync/push and GET /v1/sync/pull over typeorm-sync.store.ts:    *)
(* concurrent transactions that append to sync_operations, whose           *)
(* serverSequence one AUTO_INCREMENT counter hands out to all users before *)
(* the transactions commit, and the devices that pull past their cursors.  *)
(***************************************************************************)
EXTENDS Naturals, FiniteSets

CONSTANTS
    User,
    Operation,    \* operation ids, chosen by the clients
    Request,      \* push requests; a client may send a batch again
    NoRequest,    \* nobody holds the lock of the user's row
    Limit,        \* events in a page
    MaxSequence   \* bound on the counter

ASSUME StoreAssumption ==
    /\ NoRequest \notin Request
    /\ Limit \in Nat \ {0}
    /\ MaxSequence \in Nat

VARIABLES
    counter,      \* the next serverSequence; a rollback does not give it back
    events,       \* committed rows of sync_operations, by user
    lock,         \* who has the user's row FOR UPDATE
    request,      \* the transactions
    deviceCursor, \* by user, the cursor of a device that pulls
    seen          \* the events that device has been given

storeVars == <<counter, events, lock, request, deviceCursor, seen>>

Event == [operation : Operation, sequence : Nat]
Phase == {"idle", "waiting", "applying"}

StoreInit ==
    /\ counter = 1
    /\ events = [u \in User |-> {}]
    /\ lock = [u \in User |-> NoRequest]
    /\ request \in [Request -> [pc : {"idle"}, user : User, todo : {{}}, own : {{}}]]
    /\ deviceCursor = [u \in User |-> 0]
    /\ seen = [u \in User |-> {}]

-----------------------------------------------------------------------------
(* SyncStore.apply.                                                        *)

\* A batch names no operation twice; their order tells nothing apart here.
BeginPush(r) ==
    /\ request[r].pc = "idle"
    /\ \E u \in User, batch \in SUBSET Operation :
          request' = [request EXCEPT ![r] =
                [pc |-> "waiting", user |-> u, todo |-> batch, own |-> {}]]
    /\ UNCHANGED <<counter, events, lock, deviceCursor, seen>>

\* Fault: the user's row is read without a lock.
Unlocked(u) == TRUE

CanLock(u) == lock[u] = NoRequest

LockUser(r) ==
    /\ request[r].pc = "waiting"
    /\ CanLock(request[r].user)
    /\ lock' = [lock EXCEPT ![request[r].user] = r]
    /\ request' = [request EXCEPT ![r].pc = "applying"]
    /\ UNCHANGED <<counter, events, deviceCursor, seen>>

\* Fault: a repeated operation is only noticed within its own batch.
KnownInBatch(r, op) == \E e \in request[r].own : e.operation = op

Known(r, op) ==
    \E e \in events[request[r].user] \cup request[r].own : e.operation = op

\* A known operation is answered with the stored event; another one gets the
\* next sequence, which no other transaction can get.
Apply(r, op) ==
    /\ request[r].pc = "applying"
    /\ op \in request[r].todo
    /\ \/ /\ Known(r, op)
          /\ request' = [request EXCEPT ![r].todo = @ \ {op}]
          /\ UNCHANGED counter
       \/ /\ ~Known(r, op)
          /\ counter < MaxSequence
          /\ counter' = counter + 1
          /\ request' = [request EXCEPT ![r].todo = @ \ {op},
                ![r].own = @ \cup {[operation |-> op, sequence |-> counter]}]
    /\ UNCHANGED <<events, lock, deviceCursor, seen>>

\* The transaction ends and with it the lock of its row.
EndTransaction(r) ==
    /\ lock' = [u \in User |-> IF lock[u] = r THEN NoRequest ELSE lock[u]]
    /\ request' = [request EXCEPT ![r] = [@ EXCEPT !.pc = "idle", !.todo = {}, !.own = {}]]

Commit(r) ==
    /\ request[r].pc = "applying"
    /\ request[r].todo = {}
    /\ events' = [events EXCEPT ![request[r].user] = @ \cup request[r].own]
    /\ EndTransaction(r)
    /\ UNCHANGED <<counter, deviceCursor, seen>>

\* Refused by materialize, chosen as a deadlock victim, or cut off.
Rollback(r) ==
    /\ request[r].pc # "idle"
    /\ EndTransaction(r)
    /\ UNCHANGED <<counter, events, deviceCursor, seen>>

-----------------------------------------------------------------------------
(* SyncStore.pull.                                                         *)

Later(u) == {e \in events[u] : e.sequence > deviceCursor[u]}

UpTo(u, last) == {e \in Later(u) : e.sequence <= last.sequence}

\* The page that ends with last is full, or nothing is left after it.
EndsPage(u, last) ==
    \/ Cardinality(UpTo(u, last)) = Limit
    \/ Cardinality(UpTo(u, last)) < Limit /\ UpTo(u, last) = Later(u)

\* An empty page leaves the device where it was.
PullPage(u) ==
    /\ \E last \in Later(u) :
          /\ EndsPage(u, last)
          /\ deviceCursor' = [deviceCursor EXCEPT ![u] = last.sequence]
          /\ seen' = [seen EXCEPT ![u] = @ \cup UpTo(u, last)]
    /\ UNCHANGED <<counter, events, lock, request>>

-----------------------------------------------------------------------------
StoreNext ==
    \/ \E r \in Request :
          \/ BeginPush(r) \/ LockUser(r) \/ Commit(r) \/ Rollback(r)
          \/ \E op \in Operation : Apply(r, op)
    \/ \E u \in User : PullPage(u)

StoreSpec == StoreInit /\ [][StoreNext]_storeVars

-----------------------------------------------------------------------------
\* Every variable holds a value of its kind.
StoreTypeOK ==
    /\ counter \in Nat
    /\ events \in [User -> SUBSET Event]
    /\ lock \in [User -> Request \cup {NoRequest}]
    /\ request \in [Request ->
          [pc : Phase, user : User, todo : SUBSET Operation, own : SUBSET Event]]
    /\ deviceCursor \in [User -> Nat]
    /\ seen \in [User -> SUBSET Event]

\* A device that has pulled up to its cursor has been given every event up to
\* it and none that is not in the log: no transaction commits a sequence
\* smaller than one that was already handed out (the FOR UPDATE of
\* applyInTransaction).
NoEventSkipped ==
    \A u \in User : seen[u] = {e \in events[u] : e.sequence <= deviceCursor[u]}

\* However often a batch is sent again, and by however many requests at once,
\* one operation is one event.
OncePerOperation ==
    \A u \in User : \A e, f \in events[u] :
        e.operation = f.operation \/ e.sequence = f.sequence => e = f

Log == INSTANCE OperationLog WITH log <- events, cursor <- deviceCursor

\* The transactions behind the counter and the pages implement the log.
ImplementsLog == Log!Spec

-----------------------------------------------------------------------------
(* Why it holds.                                                           *)

\* Only the holder of the user's row has events that are not committed yet.
LockHeld ==
    \A r \in Request :
        /\ request[r].pc = "applying" => lock[request[r].user] = r
        /\ request[r].pc # "applying" => request[r].own = {}

\* Sequences come from the counter, and a cursor is 0 or one of them.
BelowCounter ==
    /\ counter > 0
    /\ \A u \in User : \A e \in events[u] : e.sequence < counter
    /\ \A r \in Request : \A e \in request[r].own : 0 < e.sequence /\ e.sequence < counter
    /\ \A u \in User : deviceCursor[u] = 0 \/ \E e \in events[u] : e.sequence = deviceCursor[u]

\* What the holder is about to commit comes after all that is committed.
OwnIsNew ==
    \A r \in Request : \A e \in request[r].own :
        /\ \A f \in events[request[r].user] :
              f.sequence < e.sequence /\ f.operation # e.operation
        /\ \A f \in request[r].own :
              e.operation = f.operation \/ e.sequence = f.sequence => e = f

StoreInv ==
    /\ StoreTypeOK
    /\ LockHeld
    /\ BelowCounter
    /\ OwnIsNew
    /\ NoEventSkipped
    /\ OncePerOperation
=============================================================================
