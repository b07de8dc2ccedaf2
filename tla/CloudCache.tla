----------------------------- MODULE CloudCache -----------------------------
(***************************************************************************)
(* One device's read-only cache of the account's banks, questions and      *)
(* wrong questions (CloudQuestionRepository, CloudCacheService), under     *)
(* refreshes and mutations that interleave at every await: pages refresh   *)
(* when they are shown, while an edit or another page's refresh is still   *)
(* running.  The log is SyncStore's; sequences are positions in it.  Other *)
(* devices appear as operations that the log gets from elsewhere.          *)
(***************************************************************************)
EXTENDS Naturals, Sequences, FiniteSets

CONSTANTS
    Bank, Question,
    BankOf,       \* the bank of a question, named by every upsert of it
    Task,         \* calls into the repository
    Pusher,       \* the calls that may be mutations
    PullLimit,    \* operations in a page
    BatchLimit,   \* operations in a push
    MaxLog,       \* bound on the log
    MaxSignOuts   \* bound on sign-outs

ASSUME ConstantAssumption ==
    /\ BankOf \in [Question -> Bank]
    /\ IsFiniteSet(Question)
    /\ Pusher \subseteq Task
    /\ {PullLimit, BatchLimit} \subseteq Nat \ {0}
    /\ {MaxLog, MaxSignOuts} \subseteq Nat

VARIABLES
    log,       \* the account's accepted operations
    tables,    \* question_banks, questions and wrong_questions on the server
    rows,      \* the cached rows, by the serverVersion they carry; 0 is no row
    cursor,    \* cloud_cache_state.cursor; 0 when there is none
    session,   \* of this account on this device
    task,
    signOuts,
    pushed,    \* auxiliary: a mutation of this device was once accepted
    overtaken  \* auxiliary: a page was once replaced by other operations than
               \* those that follow its cursor

vars == <<log, tables, rows, cursor, session, task, signOuts, pushed, overtaken>>

Operation ==
    [kind : {"bank"}, id : Bank, delete : BOOLEAN] \cup
    [kind : {"question", "wrong"}, id : Question, delete : BOOLEAN]

Upsert(kind, id) == [kind |-> kind, id |-> id, delete |-> FALSE]
Delete(kind, id) == [kind |-> kind, id |-> id, delete |-> TRUE]

NoRows ==
    [bank |-> [b \in Bank |-> 0], question |-> [q \in Question |-> 0],
     wrong |-> [q \in Question |-> 0]]

NoTables ==
    [bank |-> [b \in Bank |-> "none"], question |-> [q \in Question |-> "none"],
     wrong |-> [q \in Question |-> "none"]]

Idle ==
    [pc |-> "idle", upTo |-> 0, got |-> {}, todo |-> <<>>, exclusive |-> FALSE,
     left |-> {}, loaded |-> NoRows]

Init ==
    /\ log = <<>>
    /\ tables = NoTables
    /\ rows = NoRows
    /\ cursor = 0
    /\ session = "in"
    /\ task = [t \in Task |-> Idle]
    /\ signOuts = 0
    /\ pushed = FALSE
    /\ overtaken = FALSE

Becomes(t, state) == task' = [task EXCEPT ![t] = state]

-----------------------------------------------------------------------------
(* applyOperation, by kind.  An upsert sets the row whatever was there.    *)

ApplyBank(r, op, version) ==
    IF ~op.delete THEN [r EXCEPT !.bank[op.id] = version]
    ELSE IF r.bank[op.id] = 0 THEN r
    ELSE LET gone == {q \in Question : BankOf[q] = op.id /\ r.question[q] # 0} IN
         [bank     |-> [r.bank EXCEPT ![op.id] = 0],
          question |-> [q \in Question |-> IF q \in gone THEN 0 ELSE r.question[q]],
          wrong    |-> [q \in Question |-> IF q \in gone THEN 0 ELSE r.wrong[q]]]

ApplyQuestion(r, op, version) ==
    IF ~op.delete THEN [r EXCEPT !.question[op.id] = version]
    ELSE IF r.question[op.id] = 0 THEN r
    ELSE [r EXCEPT !.question[op.id] = 0, !.wrong[op.id] = 0]

ApplyWrongQuestion(r, op, version) ==
    [r EXCEPT !.wrong[op.id] = IF op.delete THEN 0 ELSE version]

ApplyOperation(r, op, version) ==
    CASE op.kind = "bank"     -> ApplyBank(r, op, version)
      [] op.kind = "question" -> ApplyQuestion(r, op, version)
      [] op.kind = "wrong"    -> ApplyWrongQuestion(r, op, version)

\* The operations at these positions of the log, applied in its order.
ApplyOrdered(r, positions) ==
    LET upTo[n \in 0..Len(log)] ==
          IF n = 0 THEN r
          ELSE IF n \in positions THEN ApplyOperation(upTo[n - 1], log[n], n)
          ELSE upTo[n - 1]
    IN  upTo[Len(log)]

-----------------------------------------------------------------------------
(* POST /v1/sync/push: each operation of the batch is materialized in the  *)
(* server's own tables, whose rows are marked deleted and never removed.   *)

\* Fault: an upsert does not clear deletedAt.
MarkedForGood(row, op) ==
    IF row = "none" THEN IF op.delete THEN "none" ELSE "live"
    ELSE IF op.delete THEN "deleted" ELSE row

\* A row becomes live whatever it was; a delete leaves alone what is not there.
Marked(row, op) ==
    IF ~op.delete THEN "live" ELSE IF row = "none" THEN "none" ELSE "deleted"

MaterializeBank(t, op) == [t EXCEPT !.bank[op.id] = Marked(@, op)]
MaterializeQuestion(t, op) == [t EXCEPT !.question[op.id] = Marked(@, op)]
MaterializeWrongQuestion(t, op) == [t EXCEPT !.wrong[op.id] = Marked(@, op)]

Materialize(t, op) ==
    CASE op.kind = "bank"     -> MaterializeBank(t, op)
      [] op.kind = "question" -> MaterializeQuestion(t, op)
      [] op.kind = "wrong"    -> MaterializeWrongQuestion(t, op)

Materialized(t, batch) ==
    LET upTo[n \in 0..Len(batch)] == IF n = 0 THEN t ELSE Materialize(upTo[n - 1], batch[n])
    IN  upTo[Len(batch)]

\* materializeQuestion refuses a question whose bank is not there.
Accepted(t, op) ==
    op.kind = "question" /\ ~op.delete => t.bank[BankOf[op.id]] = "live"

\* One transaction: the whole batch, in its order, or nothing.
Accept(batch) ==
    /\ Len(log) + Len(batch) <= MaxLog
    /\ \A i \in DOMAIN batch : Accepted(Materialized(tables, SubSeq(batch, 1, i - 1)), batch[i])
    /\ log' = log \o batch
    /\ tables' = Materialized(tables, batch)

\* Another device's mutation.
OtherDevice ==
    /\ \E op \in Operation : Accept(<<op>>)
    /\ UNCHANGED <<rows, cursor, session, task, signOuts, pushed, overtaken>>

-----------------------------------------------------------------------------
(* refresh.                                                                *)

StartRefresh(t) ==
    /\ task[t].pc = "idle"
    /\ session = "in"
    /\ Becomes(t, [Idle EXCEPT !.pc = "pulling", !.upTo = cursor])
    /\ UNCHANGED <<log, tables, rows, cursor, session, signOuts, pushed, overtaken>>

PageEnd(from) == IF Len(log) - from > PullLimit THEN from + PullLimit ELSE Len(log)

\* Nothing new leaves the cache alone; otherwise the last page ends the pull.
Pull(t) ==
    /\ task[t].pc = "pulling"
    /\ LET last == PageEnd(task[t].upTo)
           got  == task[t].got \cup (task[t].upTo + 1..last)
           next == [task[t] EXCEPT !.got = got, !.upTo = last]
       IN  Becomes(t, IF last < Len(log) THEN next
                      ELSE IF got = {} THEN Idle
                      ELSE [next EXCEPT !.pc = "banks"])
    /\ UNCHANGED <<log, tables, rows, cursor, session, signOuts, pushed, overtaken>>

-----------------------------------------------------------------------------
(* pushOne, clearWrongQuestions, createBankWithIds.                        *)

\* deleteBank, updateQuestion and setWrongState act on what the pages show.
Edits ==
    {Delete("bank", b) : b \in {b \in Bank : rows.bank[b] # 0}} \cup
    UNION {{Upsert("question", q), Upsert("wrong", q), Delete("wrong", q)} :
           q \in {q \in Question : rows.question[q] # 0}}

\* One wrong question after the other, and a bank with one of its questions.
Clears == {Delete("wrong", q) : q \in {q \in Question : rows.wrong[q] # 0}}

Orders(ops) ==
    {s \in [1..Cardinality(ops) -> ops] : \A i, j \in DOMAIN s : s[i] = s[j] => i = j}

Mutations ==
    {<<op>> : op \in Edits} \cup (IF Clears = {} THEN {} ELSE Orders(Clears))

NewBanks == {<<Upsert("bank", BankOf[q]), Upsert("question", q)>> : q \in Question}

\* Fault: the row is shown before the server has accepted it.
WriteAhead(ops) == rows' = ApplyOperation(rows, Head(ops), Len(log) + 1)

\* The cache waits for the server's answer.
AwaitAnswer(ops) == UNCHANGED rows

StartPush(t) ==
    /\ t \in Pusher
    /\ task[t].pc = "idle"
    /\ session = "in"
    /\ \E ops \in Mutations \cup NewBanks :
          /\ AwaitAnswer(ops)
          /\ Becomes(t, [Idle EXCEPT !.pc = "pushing", !.todo = ops,
                                     !.exclusive = ops \in NewBanks])
    /\ UNCHANGED <<log, tables, cursor, session, signOuts, pushed, overtaken>>

\* The cursor that will be saved is that of the last own operation.
Push(t) ==
    /\ task[t].pc = "pushing"
    /\ LET todo  == task[t].todo
           size  == IF Len(todo) < BatchLimit THEN Len(todo) ELSE BatchLimit
           batch == SubSeq(todo, 1, size)
           rest  == SubSeq(todo, size + 1, Len(todo))
       IN  /\ Accept(batch)
           /\ Becomes(t, [task[t] EXCEPT
                 !.pc = IF rest = <<>> THEN "banks" ELSE "pushing",
                 !.todo = rest,
                 !.got = @ \cup (Len(log) + 1..Len(log')),
                 !.upTo = Len(log')])
    /\ pushed' = TRUE
    /\ UNCHANGED <<rows, cursor, session, signOuts, overtaken>>

-----------------------------------------------------------------------------
(* loadSnapshot, then saveSnapshot: a read at a time, then replacePage in  *)
(* one transaction.  createBankWithIds does this within the account's      *)
(* exclusive section, so no sign-out comes between.                        *)

LoadBanks(t) ==
    /\ task[t].pc = "banks"
    /\ task[t].exclusive => session = "in"
    /\ Becomes(t, [task[t] EXCEPT !.pc = "questions", !.loaded.bank = rows.bank,
                                  !.left = {b \in Bank : rows.bank[b] # 0}])
    /\ UNCHANGED <<log, tables, rows, cursor, session, signOuts, pushed, overtaken>>

\* Only the questions of a bank that was read are read.
LoadQuestions(t) ==
    /\ task[t].pc = "questions"
    /\ \/ /\ task[t].left = {}
          /\ Becomes(t, [task[t] EXCEPT !.pc = "wrong"])
       \/ \E b \in task[t].left :
             Becomes(t, [task[t] EXCEPT !.left = @ \ {b},
                   !.loaded.question = [q \in Question |->
                       IF BankOf[q] = b THEN rows.question[q] ELSE @[q]]])
    /\ UNCHANGED <<log, tables, rows, cursor, session, signOuts, pushed, overtaken>>

LoadWrong(t) ==
    /\ task[t].pc = "wrong"
    /\ Becomes(t, [task[t] EXCEPT !.pc = "saving", !.loaded.wrong = rows.wrong])
    /\ UNCHANGED <<log, tables, rows, cursor, session, signOuts, pushed, overtaken>>

\* Fault: whoever comes last replaces the page.
AlwaysReplace(current, incoming) == TRUE

ShouldReplace(current, incoming) == current < incoming

Save(t) ==
    /\ task[t].pc = "saving"
    /\ IF ShouldReplace(cursor, task[t].upTo)
       THEN /\ rows' = ApplyOrdered(task[t].loaded, task[t].got)
            /\ cursor' = task[t].upTo
            /\ overtaken' = (overtaken \/ task[t].got # cursor + 1..task[t].upTo)
       ELSE UNCHANGED <<rows, cursor, overtaken>>
    /\ Becomes(t, Idle)
    /\ UNCHANGED <<log, tables, session, signOuts, pushed>>

\* A request refused or its answer lost, or the database not readable.
Fail(t) ==
    /\ task[t].pc # "idle"
    /\ Becomes(t, Idle)
    /\ UNCHANGED <<log, tables, rows, cursor, session, signOuts, pushed, overtaken>>

-----------------------------------------------------------------------------
(* performSignOutExclusive, and a later sign-in to the same account.       *)

InExclusive(t) == task[t].exclusive /\ task[t].pc \in {"questions", "wrong", "saving"}

SignOut ==
    /\ session = "in"
    /\ signOuts < MaxSignOuts
    /\ ~\E t \in Task : InExclusive(t)
    /\ session' = "leaving"
    /\ signOuts' = signOuts + 1
    /\ UNCHANGED <<log, tables, rows, cursor, task, pushed, overtaken>>

ClearAccountTextCache ==
    /\ session = "leaving"
    /\ rows' = NoRows
    /\ cursor' = 0
    /\ session' = "out"
    /\ UNCHANGED <<log, tables, task, signOuts, pushed, overtaken>>

\* The metadata goes even if the rows could not be deleted.
ClearFails ==
    /\ session = "leaving"
    /\ session' = "kept"
    /\ UNCHANGED <<log, tables, rows, cursor, task, signOuts, pushed, overtaken>>

SignIn ==
    /\ session \in {"out", "kept"}
    /\ session' = "in"
    /\ UNCHANGED <<log, tables, rows, cursor, task, signOuts, pushed, overtaken>>

-----------------------------------------------------------------------------
Next ==
    \/ OtherDevice
    \/ \E t \in Task :
          \/ StartRefresh(t) \/ Pull(t) \/ StartPush(t) \/ Push(t)
          \/ LoadBanks(t) \/ LoadQuestions(t) \/ LoadWrong(t) \/ Save(t) \/ Fail(t)
    \/ SignOut \/ ClearAccountTextCache \/ ClearFails \/ SignIn

Spec == Init /\ [][Next]_vars

-----------------------------------------------------------------------------
\* No speculative row: what the cache shows is an upsert the server accepted,
\* under the version it was accepted at, whatever failed in between.
RowsAreAccepted ==
    LET Shows(version, op) ==
          version # 0 => version <= Len(log) /\ log[version] = op
    IN  /\ \A b \in Bank : Shows(rows.bank[b], Upsert("bank", b))
        /\ \A q \in Question :
              /\ Shows(rows.question[q], Upsert("question", q))
              /\ Shows(rows.wrong[q], Upsert("wrong", q))

\* A refresh that started early and ends late never takes the cache back.
CursorNeverRetreats ==
    [][session # "leaving" => cursor' >= cursor]_vars

\* A device that only reads misses nothing, however many refreshes race: it has
\* the banks of the log up to its cursor, and the questions, under the versions
\* they have there.  Unless a refresh was overtaken by another one while it ran,
\* it has nothing else either (ShouldReplace, applyBank).
ReaderIsConsistent ==
    signOuts = 0 /\ ~pushed =>
        LET Current == ApplyOrdered(NoRows, 1..cursor) IN
        /\ rows.bank = Current.bank
        /\ \A q \in Question :
              Current.question[q] # 0 => rows.question[q] = Current.question[q]
        /\ ~overtaken => rows = Current

\* The cache applies the log by other rules than the server does (applyOperation
\* takes a bank's questions with it, materialize does not), yet a reader that is
\* up to date shows the server's live banks and no question or wrong question
\* that is not live; a bank that is gone leaves none behind unless a refresh was
\* overtaken.
ReaderShowsServerRows ==
    signOuts = 0 /\ ~pushed /\ cursor = Len(log) =>
        /\ \A b \in Bank : rows.bank[b] # 0 <=> tables.bank[b] = "live"
        /\ \A q \in Question :
              /\ rows.question[q] # 0 =>
                    /\ tables.question[q] = "live"
                    /\ ~overtaken => tables.bank[BankOf[q]] = "live"
              /\ rows.wrong[q] # 0 => tables.wrong[q] = "live"

\* What a refreshed device promises (the multi-device acceptance test): once
\* a refresh finds nothing new, the device shows what the log says.
RefreshedDeviceAgrees ==
    signOuts = 0 /\ cursor = Len(log) => rows = ApplyOrdered(NoRows, 1..cursor)

\* What signing out promises: the account's rows stay deleted.
SignedOutCacheStaysEmpty ==
    session = "out" => rows = NoRows
=============================================================================
