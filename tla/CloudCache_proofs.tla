--------------------------- MODULE CloudCache_proofs ---------------------------
(***************************************************************************)
(* For every log, page size, number of calls and of sign-outs: no cached   *)
(* row is speculative, and a device that only reads keeps what the log     *)
(* says.  What the recursive definitions compute is proved by induction    *)
(* over the set of the positions for which it is true.                     *)
(***************************************************************************)
EXTENDS CloudCache, FiniteSetTheorems, SequenceTheorems, WellFoundedInduction, TLAPS

-----------------------------------------------------------------------------
(* Induction over an interval, and the functions it defines.               *)

\* What holds at a and is kept from each position to the next holds up to b.
LEMMA UpFrom ==
    ASSUME NEW a \in Nat, NEW b \in Nat, NEW S, a \in S,
           \A n \in a + 1..b : n - 1 \in S => n \in S
    PROVE  a..b \subseteq S
  <1>. DEFINE R == {ss \in Nat \X Nat : ss[1] < ss[2]}
  <1>. DEFINE T == {n \in a..b : n \notin S}
  <1>1. IsWellFoundedOn(R, Nat)
    BY NatLessThanWellFounded DEF OpToRel
  <1>2. \A x \in Nat, y \in Nat : <<y, x>> \in R <=> y < x
    OBVIOUS
  <1>3. T \subseteq Nat
    OBVIOUS
  <1>. HIDE DEF R
  <1>4. SUFFICES ASSUME T # {} PROVE FALSE
    OBVIOUS
  <1>5. PICK x \in T : \A y \in T : <<y, x>> \notin R
    BY <1>1, <1>3, <1>4, WFMin
  <1>6. x # a /\ x \in a + 1..b /\ x - 1 \in a..b /\ x - 1 < x
    OBVIOUS
  <1>7. x - 1 \notin S
    BY <1>6
  <1>8. x - 1 \in T
    BY <1>6, <1>7
  <1>. QED BY <1>2, <1>3, <1>5, <1>6, <1>8

\* Steps on the values V, and what they lead to from v.
Steps(V, m) == [1..m -> [V -> V]]
Chains(V, v, m, F) ==
    {f \in [0..m -> V] : f[0] = v /\ \A n \in 1..m : f[n] = F[n][f[n - 1]]}

\* Steps on a set of values can be chained.
LEMMA Chained ==
    ASSUME NEW V, NEW v \in V, NEW m \in Nat, NEW F \in Steps(V, m)
    PROVE  Chains(V, v, m, F) # {}
  <1>. USE DEF Steps
  <1>. DEFINE Upto(k) == {f \in [0..k -> V] : f[0] = v /\ \A n \in 1..k : f[n] = F[n][f[n - 1]]}
              S == {k \in 0..m : Upto(k) # {}}
  <1>1. 0 \in S
    <2>1. [n \in 0..0 |-> v] \in Upto(0)
      OBVIOUS
    <2>. QED BY <2>1
  <1>2. ASSUME NEW k \in 1..m, k - 1 \in S PROVE k \in S
    <2>1. PICK f \in Upto(k - 1) : TRUE
      BY <1>2
    <2>. DEFINE g == [n \in 0..k |-> IF n = k THEN F[k][f[k - 1]] ELSE f[n]]
    <2>2. f \in [0..k - 1 -> V] /\ k - 1 \in 0..k - 1 /\ F[k] \in [V -> V]
      BY <2>1
    <2>3. F[k][f[k - 1]] \in V
      BY <2>2
    <2>4. g \in [0..k -> V]
      BY <2>2, <2>3
    <2>5. g[0] = v
      BY <2>1
    <2>6. ASSUME NEW n \in 1..k PROVE g[n] = F[n][g[n - 1]]
      <3>1. CASE n = k
        BY <3>1, <2>2
      <3>2. CASE n # k
        BY <3>2, <2>1
      <3>. QED BY <3>1, <3>2
    <2>7. g \in Upto(k)
      BY <2>4, <2>5, <2>6
    <2>. HIDE DEF Upto
    <2>8. Upto(k) # {} /\ k \in 0..m
      BY <2>7
    <2>. QED BY <2>8
  <1>. HIDE DEF S
  <1>3. 0..m \subseteq S
    <2>1. \A n \in 0 + 1..m : n - 1 \in S => n \in S
      BY <1>2
    <2>. QED BY <1>1, <2>1, UpFrom
  <1>4. m \in S
    BY <1>3
  <1>. QED BY <1>4 DEF S, Chains

-----------------------------------------------------------------------------
(* What one operation does to the rows.                                    *)

RowsT == [bank : [Bank -> Nat], question : [Question -> Nat], wrong : [Question -> Nat]]

\* No rows are rows.
LEMMA NoRowsType == NoRows \in RowsT
  BY DEF NoRows, RowsT

\* An operation has one of three kinds.
LEMMA Kinds ==
    ASSUME NEW op \in Operation
    PROVE  /\ op.delete \in BOOLEAN
           /\ \/ op.kind = "bank" /\ op.id \in Bank
                 /\ op \in {Upsert("bank", op.id), Delete("bank", op.id)}
              \/ op.kind = "question" /\ op.id \in Question
                 /\ op \in {Upsert("question", op.id), Delete("question", op.id)}
              \/ op.kind = "wrong" /\ op.id \in Question
                 /\ op \in {Upsert("wrong", op.id), Delete("wrong", op.id)}
  BY DEF Operation, Upsert, Delete

\* Rows stay rows.
LEMMA ApplyType ==
    ASSUME NEW r \in RowsT, NEW op \in Operation, NEW v \in Nat
    PROVE  ApplyOperation(r, op, v) \in RowsT
  <1>1. CASE op.kind = "bank"
    <2>1. op.id \in Bank /\ ApplyOperation(r, op, v) = ApplyBank(r, op, v)
      BY <1>1 DEF ApplyOperation, Operation
    <2>. QED BY <2>1 DEF ApplyBank, RowsT
  <1>2. CASE op.kind = "question"
    <2>1. op.id \in Question /\ ApplyOperation(r, op, v) = ApplyQuestion(r, op, v)
      BY <1>2 DEF ApplyOperation, Operation
    <2>2. [r EXCEPT !.question[op.id] = v] \in RowsT
      BY <2>1 DEF RowsT
    <2>3. [r EXCEPT !.question[op.id] = 0, !.wrong[op.id] = 0] \in RowsT
      BY <2>1 DEF RowsT
    <2>. QED BY <2>1, <2>2, <2>3 DEF ApplyQuestion
  <1>3. CASE op.kind = "wrong"
    <2>1. op.id \in Question /\ ApplyOperation(r, op, v) = ApplyWrongQuestion(r, op, v)
      BY <1>3 DEF ApplyOperation, Operation
    <2>. QED BY <2>1 DEF ApplyWrongQuestion, RowsT
  <1>. QED BY <1>1, <1>2, <1>3, Kinds

\* A bank's row follows the operations on that bank alone.
LEMMA BankEffect ==
    ASSUME NEW r \in RowsT, NEW op \in Operation, NEW v \in Nat, NEW b \in Bank
    PROVE  LET x == ApplyOperation(r, op, v) IN
           /\ op = Upsert("bank", b) => x.bank[b] = v
           /\ op = Delete("bank", b) => x.bank[b] = 0
           /\ op \notin {Upsert("bank", b), Delete("bank", b)} => x.bank[b] = r.bank[b]
  <1>1. CASE op.kind = "bank"
    <2>1. /\ op.id \in Bank /\ op.delete \in BOOLEAN
          /\ ApplyOperation(r, op, v) = ApplyBank(r, op, v)
          /\ op \in {Upsert("bank", op.id), Delete("bank", op.id)}
      BY <1>1 DEF ApplyOperation, Operation, Upsert, Delete
    <2>. QED BY <2>1 DEF ApplyBank, RowsT, Upsert, Delete
  <1>2. CASE op.kind = "question"
    <2>1. ApplyOperation(r, op, v).bank = r.bank
      BY <1>2 DEF ApplyOperation, ApplyQuestion, RowsT
    <2>. QED BY <1>2, <2>1 DEF Upsert, Delete
  <1>3. CASE op.kind = "wrong"
    <2>1. ApplyOperation(r, op, v).bank = r.bank
      BY <1>3 DEF ApplyOperation, ApplyWrongQuestion, RowsT
    <2>. QED BY <1>3, <2>1 DEF Upsert, Delete
  <1>. QED BY <1>1, <1>2, <1>3, Kinds

\* A question's row follows the operations on it, and goes with its bank.
LEMMA QuestionEffect ==
    ASSUME NEW r \in RowsT, NEW op \in Operation, NEW v \in Nat, NEW q \in Question
    PROVE  LET x    == ApplyOperation(r, op, v)
               gone == op = Delete("bank", BankOf[q]) /\ r.bank[BankOf[q]] # 0
           IN
           /\ op = Upsert("question", q) => x.question[q] = v
           /\ op = Delete("question", q) \/ gone => x.question[q] = 0
           /\ op \notin {Upsert("question", q), Delete("question", q)} /\ ~gone
                 => x.question[q] = r.question[q]
  <1>1. CASE op.kind = "bank"
    <2>1. /\ op.id \in Bank /\ op.delete \in BOOLEAN
          /\ ApplyOperation(r, op, v) = ApplyBank(r, op, v)
          /\ op.delete => op = Delete("bank", op.id)
          /\ ~op.delete => op = Upsert("bank", op.id)
      BY <1>1 DEF ApplyOperation, Operation, Upsert, Delete
    <2>2. op \notin {Upsert("question", q), Delete("question", q)}
      BY <1>1 DEF Upsert, Delete
    <2>3. Delete("bank", BankOf[q]).delete /\ ~Upsert("bank", op.id).delete
          /\ Delete("bank", BankOf[q]).id = BankOf[q]
      BY DEF Upsert, Delete
    <2>4. op = Delete("bank", BankOf[q]) <=> op.delete /\ op.id = BankOf[q]
      BY <2>1, <2>3
    <2>5. ~op.delete => ApplyBank(r, op, v).question = r.question
      BY <2>1 DEF ApplyBank, RowsT
    <2>6. op.delete => ApplyBank(r, op, v).question[q]
                          = IF r.bank[op.id] # 0 /\ BankOf[q] = op.id THEN 0 ELSE r.question[q]
      BY <2>1 DEF ApplyBank, RowsT
    <2>. QED BY <2>1, <2>2, <2>4, <2>5, <2>6
  <1>2. CASE op.kind = "question"
    <2>1. /\ op.id \in Question /\ op.delete \in BOOLEAN
          /\ ApplyOperation(r, op, v) = ApplyQuestion(r, op, v)
          /\ op.delete => op = Delete("question", op.id)
          /\ ~op.delete => op = Upsert("question", op.id)
      BY <1>2 DEF ApplyOperation, Operation, Upsert, Delete
    <2>2. op # Delete("bank", BankOf[q])
      BY <1>2 DEF Upsert, Delete
    <2>3. Upsert("question", q).id = q /\ Delete("question", q).id = q
          /\ ~Upsert("question", q).delete /\ Delete("question", q).delete
      BY DEF Upsert, Delete
    <2>4. ~op.delete => ApplyQuestion(r, op, v).question[q]
                           = IF op.id = q THEN v ELSE r.question[q]
      BY <2>1 DEF ApplyQuestion, RowsT
    <2>5. op.delete => ApplyQuestion(r, op, v).question[q]
                          = IF op.id = q THEN 0 ELSE r.question[q]
      BY <2>1 DEF ApplyQuestion, RowsT
    <2>. QED BY <2>1, <2>2, <2>3, <2>4, <2>5
  <1>3. CASE op.kind = "wrong"
    <2>1. ApplyOperation(r, op, v).question = r.question
      BY <1>3 DEF ApplyOperation, ApplyWrongQuestion, RowsT
    <2>. QED BY <1>3, <2>1 DEF Upsert, Delete
  <1>. QED BY <1>1, <1>2, <1>3, Kinds

\* A wrong question's row follows the operations on it, and may go with others.
LEMMA WrongEffect ==
    ASSUME NEW r \in RowsT, NEW op \in Operation, NEW v \in Nat, NEW q \in Question
    PROVE  LET x == ApplyOperation(r, op, v) IN
           /\ op = Upsert("wrong", q) => x.wrong[q] = v
           /\ op = Delete("wrong", q) => x.wrong[q] = 0
           /\ op # Upsert("wrong", q) => x.wrong[q] \in {0, r.wrong[q]}
  <1>1. CASE op.kind = "bank"
    <2>1. ApplyOperation(r, op, v).wrong[q] \in {0, r.wrong[q]}
      BY <1>1 DEF ApplyOperation, ApplyBank, RowsT
    <2>. QED BY <1>1, <2>1 DEF Upsert, Delete
  <1>2. CASE op.kind = "question"
    <2>0. op.id \in Question
      BY <1>2 DEF Operation
    <2>1. ApplyOperation(r, op, v).wrong[q] \in {0, r.wrong[q]}
      BY <1>2, <2>0 DEF ApplyOperation, ApplyQuestion, RowsT
    <2>. QED BY <1>2, <2>1 DEF Upsert, Delete
  <1>3. CASE op.kind = "wrong"
    <2>1. /\ op.id \in Question /\ op.delete \in BOOLEAN
          /\ ApplyOperation(r, op, v) = ApplyWrongQuestion(r, op, v)
          /\ op.delete => op = Delete("wrong", op.id)
          /\ ~op.delete => op = Upsert("wrong", op.id)
      BY <1>3 DEF ApplyOperation, Operation, Upsert, Delete
    <2>2. Upsert("wrong", q).id = q /\ Delete("wrong", q).id = q
          /\ ~Upsert("wrong", q).delete /\ Delete("wrong", q).delete
      BY DEF Upsert, Delete
    <2>3. ApplyWrongQuestion(r, op, v).wrong[q]
             = IF op.id # q THEN r.wrong[q] ELSE IF op.delete THEN 0 ELSE v
      BY <2>1 DEF ApplyWrongQuestion, RowsT
    <2>. QED BY <2>1, <2>2, <2>3
  <1>. QED BY <1>1, <1>2, <1>3, Kinds

-----------------------------------------------------------------------------
(* The rows after each position: f[n] are r with the operations of l at    *)
(* the positions of P up to n applied.                                     *)

Applies(f, r, P, l) ==
    /\ f \in [0..Len(l) -> RowsT] /\ f[0] = r
    /\ \A n \in 1..Len(l) :
          f[n] = IF n \in P THEN ApplyOperation(f[n - 1], l[n], n) ELSE f[n - 1]

\* There is such a function for every rows, positions and log.
LEMMA SomeApplies ==
    ASSUME NEW r \in RowsT, NEW P, NEW l \in Seq(Operation)
    PROVE  \E f : Applies(f, r, P, l)
  <1>. DEFINE m == Len(l)
              F == [n \in 1..m |-> [x \in RowsT |->
                       IF n \in P THEN ApplyOperation(x, l[n], n) ELSE x]]
  <1>1. m \in Nat
    OBVIOUS
  <1>2. ASSUME NEW n \in 1..m, NEW x \in RowsT
        PROVE  (IF n \in P THEN ApplyOperation(x, l[n], n) ELSE x) \in RowsT
    <2>1. n \in Nat /\ l[n] \in Operation
      OBVIOUS
    <2>. QED BY <2>1, ApplyType
  <1>3. F \in Steps(RowsT, m)
    BY <1>2 DEF Steps
  <1>4. \A n \in 1..m, x \in RowsT :
           F[n][x] = IF n \in P THEN ApplyOperation(x, l[n], n) ELSE x
    OBVIOUS
  <1>. HIDE DEF F
  <1>5. PICK f \in Chains(RowsT, r, m, F) : TRUE
    BY <1>1, <1>3, Chained
  <1>7. f \in [0..m -> RowsT] /\ f[0] = r /\ \A n \in 1..m : f[n] = F[n][f[n - 1]]
    BY <1>5 DEF Chains
  <1>6. ASSUME NEW n \in 1..m
        PROVE  f[n] = IF n \in P THEN ApplyOperation(f[n - 1], l[n], n) ELSE f[n - 1]
    <2>1. n - 1 \in 0..m
      BY <1>1
    <2>2. f[n - 1] \in RowsT
      BY <1>7, <2>1
    <2>. QED BY <1>4, <1>7, <2>2
  <1>. QED BY <1>7, <1>6 DEF Applies

\* The positions up to m hold the same, and count the same.
Agree(l, P, k, Q, m) == \A n \in 1..m : l[n] = k[n] /\ (n \in P <=> n \in Q)

\* It depends on the log and on the positions up to there alone.
LEMMA SamePrefix ==
    ASSUME NEW r, NEW P, NEW Q, NEW l \in Seq(Operation), NEW k \in Seq(Operation),
           NEW f, NEW g, Applies(f, r, P, l), Applies(g, r, Q, k),
           NEW m \in 0..Len(l), m <= Len(k),
           Agree(l, P, k, Q, m)
    PROVE  \A n \in 0..m : f[n] = g[n]
  <1>. USE DEF Agree
  <1>. DEFINE S == {n \in 0..m : f[n] = g[n]}
  <1>1. m \in Nat /\ Len(l) \in Nat /\ Len(k) \in Nat /\ m <= Len(l)
    OBVIOUS
  <1>2. 0 \in S
    BY <1>1 DEF Applies
  <1>3. ASSUME NEW n \in 0 + 1..m, n - 1 \in S PROVE n \in S
    <2>1. n \in 1..m /\ n \in 1..Len(l) /\ n \in 1..Len(k) /\ n \in 0..m
      BY <1>1
    <2>2. f[n - 1] = g[n - 1] /\ l[n] = k[n] /\ (n \in P <=> n \in Q)
      BY <1>3, <2>1
    <2>3. f[n] = g[n]
      BY <2>1, <2>2 DEF Applies
    <2>. QED BY <2>1, <2>3
  <1>. HIDE DEF S
  <1>4. 0..m \subseteq S
    BY <1>1, <1>2, <1>3, UpFrom
  <1>. QED BY <1>4 DEF S

\* applyOrdered computes it.
LEMMA AppliedInOrder ==
    ASSUME log \in Seq(Operation), NEW r \in RowsT, NEW P, NEW f, Applies(f, r, P, log)
    PROVE  ApplyOrdered(r, P) = f[Len(log)]
  <1>. DEFINE Defines(g) == g = [n \in 0..Len(log) |->
                  IF n = 0 THEN r
                  ELSE IF n \in P THEN ApplyOperation(g[n - 1], log[n], n)
                  ELSE g[n - 1]]
              upTo == CHOOSE g : Defines(g)
  <1>1. Len(log) \in Nat
    OBVIOUS
  <1>2. Defines(f)
    <2>1. f \in [0..Len(log) -> RowsT]
      BY DEF Applies
    <2>2. ASSUME NEW n \in 0..Len(log)
          PROVE  f[n] = IF n = 0 THEN r
                        ELSE IF n \in P THEN ApplyOperation(f[n - 1], log[n], n)
                        ELSE f[n - 1]
      <3>1. n = 0 \/ n \in 1..Len(log)
        BY <1>1
      <3>. QED BY <3>1 DEF Applies
    <2>. QED BY <2>1, <2>2
  <1>3. Defines(upTo)
    BY <1>2
  <1>4. ApplyOrdered(r, P) = upTo[Len(log)]
    BY DEF ApplyOrdered
  <1>. HIDE DEF upTo
  <1>. DEFINE S == {n \in 0..Len(log) : upTo[n] = f[n]}
  <1>5. 0 \in S
    BY <1>1, <1>2, <1>3
  <1>6. ASSUME NEW n \in 0 + 1..Len(log), n - 1 \in S PROVE n \in S
    <2>1. n # 0 /\ n \in 0..Len(log) /\ upTo[n - 1] = f[n - 1]
      BY <1>6, <1>1
    <2>2. upTo[n] = IF n \in P THEN ApplyOperation(upTo[n - 1], log[n], n) ELSE upTo[n - 1]
      BY <1>3, <2>1
    <2>3. f[n] = IF n \in P THEN ApplyOperation(f[n - 1], log[n], n) ELSE f[n - 1]
      BY <1>2, <2>1
    <2>. QED BY <2>1, <2>2, <2>3
  <1>. HIDE DEF S
  <1>7. 0..Len(log) \subseteq S
    BY <1>1, <1>5, <1>6, UpFrom
  <1>8. Len(log) \in S
    BY <1>1, <1>7
  <1>. QED BY <1>4, <1>8 DEF S

\* The rows a device has that applied the log in its order, by position.
Replay(l) == CHOOSE f : Applies(f, NoRows, 1..Len(l), l)

\* They start empty and follow the log.
LEMMA ReplayIs ==
    ASSUME NEW l \in Seq(Operation)
    PROVE  /\ Applies(Replay(l), NoRows, 1..Len(l), l)
           /\ Replay(l) \in [0..Len(l) -> RowsT] /\ Replay(l)[0] = NoRows
           /\ \A n \in 1..Len(l) : Replay(l)[n] = ApplyOperation(Replay(l)[n - 1], l[n], n)
  <1>1. \E f : Applies(f, NoRows, 1..Len(l), l)
    BY NoRowsType, SomeApplies
  <1>2. Applies(Replay(l), NoRows, 1..Len(l), l)
    BY <1>1 DEF Replay
  <1>. QED BY <1>2 DEF Applies

\* A longer log leaves them as they were.
LEMMA ReplayGrows ==
    ASSUME NEW l \in Seq(Operation), NEW k \in Seq(Operation), Len(l) <= Len(k),
           \A n \in 1..Len(l) : l[n] = k[n]
    PROVE  \A n \in 0..Len(l) : Replay(k)[n] = Replay(l)[n]
  <1>. DEFINE P == 1..Len(l)
              Q == 1..Len(k)
              m == Len(l)
  <1>1. Applies(Replay(l), NoRows, P, l) /\ Applies(Replay(k), NoRows, Q, k)
    BY ReplayIs
  <1>2. m \in 0..Len(l) /\ m <= Len(k) /\ Len(k) \in Nat
    OBVIOUS
  <1>3. Agree(l, P, k, Q, m)
    BY <1>2 DEF Agree
  <1>. HIDE DEF P, Q, m
  <1>4. \A n \in 0..m : Replay(l)[n] = Replay(k)[n]
    BY <1>1, <1>2, <1>3, SamePrefix
  <1>. QED BY <1>4 DEF m

\* What a refresh from scratch would show at a cursor.
LEMMA Current ==
    ASSUME log \in Seq(Operation), NEW c \in 0..Len(log)
    PROVE  ApplyOrdered(NoRows, 1..c) = Replay(log)[c]
  <1>. DEFINE P == 1..c
              N == Len(log)
  <1>1. PICK f : Applies(f, NoRows, P, log)
    BY NoRowsType, SomeApplies
  <1>2. ApplyOrdered(NoRows, P) = f[N]
    BY <1>1, NoRowsType, AppliedInOrder
  <1>3. N \in Nat /\ c \in Nat /\ c <= N
    OBVIOUS
  <1>4. f[c] = Replay(log)[c]
    <2>1. Applies(Replay(log), NoRows, 1..N, log)
      BY ReplayIs
    <2>2. Agree(log, P, log, 1..N, c)
      BY <1>3 DEF Agree
    <2>3. \A n \in 0..c : f[n] = Replay(log)[n]
      BY <1>1, <1>3, <2>1, <2>2, SamePrefix
    <2>. QED BY <1>3, <2>3
  <1>. DEFINE S == {n \in c..N : f[n] = f[c]}
  <1>5. c \in S
    BY <1>3
  <1>6. ASSUME NEW n \in c + 1..N, n - 1 \in S PROVE n \in S
    <2>1. n \in 1..N /\ n \notin P /\ n \in c..N
      BY <1>3
    <2>2. f[n] = f[n - 1]
      BY <1>1, <2>1 DEF Applies
    <2>. QED BY <1>6, <2>1, <2>2
  <1>. HIDE DEF S
  <1>7. c..N \subseteq S
    BY <1>3, <1>5, <1>6, UpFrom
  <1>8. N \in S
    BY <1>3, <1>7
  <1>. QED BY <1>2, <1>4, <1>8 DEF S

-----------------------------------------------------------------------------
(* A log that is longer.                                                   *)

Extends(l, k) == Len(l) <= Len(k) /\ \A n \in 1..Len(l) : l[n] = k[n]

\* Up to a position: there was an upsert of the row, and no delete since.
Lives(l, kind, id, n) ==
    \E m \in 1..n : l[m] = Upsert(kind, id) /\ \A k \in m + 1..n : l[k] # Delete(kind, id)

\* The operation at a position decides.
LEMMA LivesOn ==
    ASSUME NEW l, NEW kind, NEW id, NEW n \in Nat
    PROVE  /\ ~Lives(l, kind, id, 0)
           /\ Lives(l, kind, id, n + 1) <=>
                 \/ l[n + 1] = Upsert(kind, id)
                 \/ Lives(l, kind, id, n) /\ l[n + 1] # Delete(kind, id)
  <1>1. Upsert(kind, id) # Delete(kind, id)
    BY DEF Upsert, Delete
  <1>2. ASSUME Lives(l, kind, id, n + 1), l[n + 1] # Upsert(kind, id)
        PROVE  Lives(l, kind, id, n) /\ l[n + 1] # Delete(kind, id)
    <2>1. PICK m \in 1..n + 1 : /\ l[m] = Upsert(kind, id)
                                /\ \A k \in m + 1..n + 1 : l[k] # Delete(kind, id)
      BY <1>2 DEF Lives
    <2>2. m \in 1..n
      BY <1>2, <2>1
    <2>. QED BY <2>1, <2>2 DEF Lives
  <1>3. ASSUME l[n + 1] = Upsert(kind, id) PROVE Lives(l, kind, id, n + 1)
    <2>1. n + 1 \in 1..n + 1 /\ n + 1 + 1..n + 1 = {}
      OBVIOUS
    <2>. QED BY <1>3, <2>1 DEF Lives
  <1>4. ASSUME Lives(l, kind, id, n), l[n + 1] # Delete(kind, id)
        PROVE  Lives(l, kind, id, n + 1)
    <2>1. PICK m \in 1..n : /\ l[m] = Upsert(kind, id)
                            /\ \A k \in m + 1..n : l[k] # Delete(kind, id)
      BY <1>4 DEF Lives
    <2>2. m \in 1..n + 1
      OBVIOUS
    <2>3. ASSUME NEW k \in m + 1..n + 1 PROVE l[k] # Delete(kind, id)
      <3>1. k = n + 1 \/ k \in m + 1..n
        OBVIOUS
      <3>. QED BY <1>4, <2>1, <3>1
    <2>. QED BY <2>1, <2>2, <2>3 DEF Lives
  <1>5. ~Lives(l, kind, id, 0)
    BY DEF Lives
  <1>6. l[n + 1] = Upsert(kind, id) => l[n + 1] # Delete(kind, id)
    BY <1>1
  <1>. QED BY <1>2, <1>3, <1>4, <1>5, <1>6

\* What comes later does not matter.
LEMMA LivesStays ==
    ASSUME NEW l \in Seq(Operation), NEW k, Extends(l, k), NEW kind, NEW id, NEW n \in 0..Len(l)
    PROVE  Lives(k, kind, id, n) <=> Lives(l, kind, id, n)
  <1>1. \A m \in 1..n : k[m] = l[m] /\ \A i \in m + 1..n : k[i] = l[i]
    BY DEF Extends
  <1>. QED BY <1>1 DEF Lives

\* Nor for the rows up to there.
LEMMA ReplayStays ==
    ASSUME NEW l \in Seq(Operation), NEW k \in Seq(Operation), Extends(l, k)
    PROVE  \A n \in 0..Len(l) : Replay(k)[n] = Replay(l)[n]
  BY ReplayGrows DEF Extends

-----------------------------------------------------------------------------
(* What the server accepts.                                                *)

Marks == {"none", "live", "deleted"}
Tables == [bank : [Bank -> Marks], question : [Question -> Marks], wrong : [Question -> Marks]]

\* An upsert makes its row live and a delete ends that; other rows stay.
LEMMA MaterializeEffect ==
    ASSUME NEW t \in Tables, NEW op \in Operation
    PROVE  LET x == Materialize(t, op)
               Follows(new, old, kind, id) ==
                  new = "live" <=> \/ op = Upsert(kind, id)
                                   \/ old = "live" /\ op # Delete(kind, id)
           IN  /\ x \in Tables
               /\ \A b \in Bank : Follows(x.bank[b], t.bank[b], "bank", b)
               /\ \A q \in Question : Follows(x.question[q], t.question[q], "question", q)
               /\ \A q \in Question : Follows(x.wrong[q], t.wrong[q], "wrong", q)
  <1>. DEFINE m(row) == Marked(row, op)
  <1>1. \A row \in Marks : /\ m(row) \in Marks
                           /\ op.delete => m(row) # "live"
                           /\ ~op.delete => m(row) = "live"
    BY DEF Marked, Marks
  <1>2. \A kind, id : /\ Upsert(kind, id).kind = kind /\ Upsert(kind, id).id = id
                      /\ Delete(kind, id).kind = kind /\ Delete(kind, id).id = id
                      /\ ~Upsert(kind, id).delete /\ Delete(kind, id).delete
    BY DEF Upsert, Delete
  <1>3. /\ op.delete => op = Delete(op.kind, op.id)
        /\ ~op.delete => op = Upsert(op.kind, op.id)
    BY DEF Upsert, Delete, Operation
  <1>4. CASE op.kind = "bank"
    <2>1. op.id \in Bank /\ Materialize(t, op) = [t EXCEPT !.bank[op.id] = m(t.bank[op.id])]
      BY <1>4 DEF Materialize, MaterializeBank, Operation
    <2>2. m(t.bank[op.id]) \in Marks
      BY <1>1, <2>1 DEF Tables
    <2>. HIDE DEF m
    <2>3. /\ Materialize(t, op) \in Tables
          /\ Materialize(t, op).question = t.question /\ Materialize(t, op).wrong = t.wrong
          /\ \A b \in Bank : Materialize(t, op).bank[b]
                                = IF b = op.id THEN m(t.bank[op.id]) ELSE t.bank[b]
      BY <2>1, <2>2 DEF Tables
    <2>4. t.bank[op.id] \in Marks
      BY <2>1 DEF Tables
    <2>. QED BY <1>1, <1>2, <1>3, <1>4, <2>1, <2>3, <2>4
  <1>5. CASE op.kind = "question"
    <2>1. op.id \in Question
          /\ Materialize(t, op) = [t EXCEPT !.question[op.id] = m(t.question[op.id])]
      BY <1>5 DEF Materialize, MaterializeQuestion, Operation
    <2>2. m(t.question[op.id]) \in Marks
      BY <1>1, <2>1 DEF Tables
    <2>. HIDE DEF m
    <2>3. /\ Materialize(t, op) \in Tables
          /\ Materialize(t, op).bank = t.bank /\ Materialize(t, op).wrong = t.wrong
          /\ \A q \in Question : Materialize(t, op).question[q]
                                = IF q = op.id THEN m(t.question[op.id]) ELSE t.question[q]
      BY <2>1, <2>2 DEF Tables
    <2>4. t.question[op.id] \in Marks
      BY <2>1 DEF Tables
    <2>. QED BY <1>1, <1>2, <1>3, <1>5, <2>1, <2>3, <2>4
  <1>6. CASE op.kind = "wrong"
    <2>1. op.id \in Question /\ Materialize(t, op) = [t EXCEPT !.wrong[op.id] = m(t.wrong[op.id])]
      BY <1>6 DEF Materialize, MaterializeWrongQuestion, Operation
    <2>2. m(t.wrong[op.id]) \in Marks
      BY <1>1, <2>1 DEF Tables
    <2>. HIDE DEF m
    <2>3. /\ Materialize(t, op) \in Tables
          /\ Materialize(t, op).bank = t.bank /\ Materialize(t, op).question = t.question
          /\ \A q \in Question : Materialize(t, op).wrong[q]
                                = IF q = op.id THEN m(t.wrong[op.id]) ELSE t.wrong[q]
      BY <2>1, <2>2 DEF Tables
    <2>4. t.wrong[op.id] \in Marks
      BY <2>1 DEF Tables
    <2>. QED BY <1>1, <1>2, <1>3, <1>6, <2>1, <2>3, <2>4
  <1>. QED BY <1>4, <1>5, <1>6, Kinds

\* The tables after each operation of a batch.
Writes(f, t, batch) ==
    /\ f \in [0..Len(batch) -> Tables] /\ f[0] = t
    /\ \A n \in 1..Len(batch) : f[n] = Materialize(f[n - 1], batch[n])

\* There are such tables.
LEMMA SomeWrites ==
    ASSUME NEW t \in Tables, NEW batch \in Seq(Operation)
    PROVE  \E f : Writes(f, t, batch)
  <1>. DEFINE m == Len(batch)
              F == [n \in 1..m |-> [x \in Tables |-> Materialize(x, batch[n])]]
  <1>1. m \in Nat
    OBVIOUS
  <1>2. ASSUME NEW n \in 1..m, NEW x \in Tables PROVE Materialize(x, batch[n]) \in Tables
    <2>1. batch[n] \in Operation
      OBVIOUS
    <2>. QED BY <2>1, MaterializeEffect
  <1>3. F \in Steps(Tables, m)
    BY <1>2 DEF Steps
  <1>4. \A n \in 1..m, x \in Tables : F[n][x] = Materialize(x, batch[n])
    OBVIOUS
  <1>. HIDE DEF F
  <1>5. PICK f \in Chains(Tables, t, m, F) : TRUE
    BY <1>1, <1>3, Chained
  <1>6. f \in [0..m -> Tables] /\ f[0] = t /\ \A n \in 1..m : f[n] = F[n][f[n - 1]]
    BY <1>5 DEF Chains
  <1>7. ASSUME NEW n \in 1..m PROVE f[n] = Materialize(f[n - 1], batch[n])
    <2>1. n - 1 \in 0..m
      BY <1>1
    <2>2. f[n - 1] \in Tables
      BY <1>6, <2>1
    <2>. QED BY <1>4, <1>6, <2>2
  <1>. QED BY <1>6, <1>7 DEF Writes

\* A beginning of the batch leads to them.
LEMMA MaterializedIs ==
    ASSUME NEW t \in Tables, NEW batch \in Seq(Operation), NEW f, Writes(f, t, batch),
           NEW b \in Seq(Operation), Extends(b, batch)
    PROVE  Materialized(t, b) = f[Len(b)]
  <1>. DEFINE k == Len(b)
              Defines(g) == g = [n \in 0..Len(b) |->
                               IF n = 0 THEN t ELSE Materialize(g[n - 1], b[n])]
              upTo == CHOOSE g : Defines(g)
              h == [n \in 0..k |-> f[n]]
  <1>1. k \in Nat /\ Len(batch) \in Nat /\ k <= Len(batch)
    BY DEF Extends
  <1>2. \A n \in 1..k : b[n] = batch[n]
    BY DEF Extends
  <1>3. Defines(h)
    <2>1. ASSUME NEW n \in 0..k
          PROVE  h[n] = IF n = 0 THEN t ELSE Materialize(h[n - 1], b[n])
      <3>1. CASE n = 0
        BY <3>1 DEF Writes
      <3>2. CASE n # 0
        <4>1. n \in 1..k /\ n \in 1..Len(batch) /\ n - 1 \in 0..k
          BY <1>1, <3>2
        <4>2. f[n] = Materialize(f[n - 1], batch[n])
          BY <4>1 DEF Writes
        <4>. QED BY <1>2, <3>2, <4>1, <4>2
      <3>. QED BY <3>1, <3>2
    <2>. QED BY <2>1
  <1>4. Defines(upTo)
    BY <1>3
  <1>5. Materialized(t, b) = upTo[k]
    BY DEF Materialized
  <1>. HIDE DEF upTo
  <1>. DEFINE S == {n \in 0..k : upTo[n] = h[n]}
  <1>6. 0 \in S
    <2>1. h[0] = t
      BY <1>1 DEF Writes
    <2>2. upTo[0] = t
      BY <1>1, <1>4
    <2>. QED BY <1>1, <2>1, <2>2
  <1>7. ASSUME NEW n \in 0 + 1..k, n - 1 \in S PROVE n \in S
    <2>1. n # 0 /\ n \in 0..k /\ upTo[n - 1] = h[n - 1]
      BY <1>7, <1>1
    <2>2. upTo[n] = Materialize(upTo[n - 1], b[n])
      BY <1>4, <2>1
    <2>. HIDE DEF h
    <2>3. h[n] = Materialize(h[n - 1], b[n])
      BY <1>3, <2>1
    <2>. QED BY <2>1, <2>2, <2>3
  <1>. HIDE DEF S
  <1>8. 0..k \subseteq S
    BY <1>1, <1>6, <1>7, UpFrom
  <1>9. k \in S /\ k \in 0..k
    BY <1>1, <1>8
  <1>. QED BY <1>5, <1>9 DEF S

-----------------------------------------------------------------------------
(* What holds whatever the device does: every row is accepted, every page  *)
(* has been pulled, and the server's tables follow the log.                *)

Pcs == {"idle", "pulling", "pushing", "banks", "questions", "wrong", "saving"}
Calls == [pc : Pcs, upTo : Nat, got : SUBSET Nat, todo : Seq(Operation),
          exclusive : BOOLEAN, left : SUBSET Bank, loaded : RowsT]

CacheTypeOK ==
    /\ log \in Seq(Operation) /\ tables \in Tables
    /\ rows \in RowsT /\ cursor \in Nat
    /\ session \in {"in", "leaving", "out", "kept"}
    /\ task \in [Task -> Calls]
    /\ signOuts \in Nat /\ pushed \in BOOLEAN /\ overtaken \in BOOLEAN

Shows(l, version, op) == version # 0 => version <= Len(l) /\ l[version] = op

AcceptedRows(r, l) ==
    /\ \A b \in Bank : Shows(l, r.bank[b], Upsert("bank", b))
    /\ \A q \in Question : /\ Shows(l, r.question[q], Upsert("question", q))
                           /\ Shows(l, r.wrong[q], Upsert("wrong", q))

\* A call saves what the log has.
Pulled(c, l) == c.upTo <= Len(l) /\ AcceptedRows(c.loaded, l)

\* What the server shows is what a device would that replayed the log, but for
\* the questions of a deleted bank.
ServerAt(l, t, n) ==
    /\ \A b \in Bank : t.bank[b] = "live" <=> Replay(l)[n].bank[b] # 0
    /\ \A q \in Question : /\ Lives(l, "question", q, n) => t.question[q] = "live"
                           /\ Lives(l, "wrong", q, n) => t.wrong[q] = "live"
    /\ \A m \in 0..n, q \in Question :
          Replay(l)[m].question[q] # 0 => Replay(l)[m].bank[BankOf[q]] # 0

Base ==
    /\ CacheTypeOK
    /\ cursor <= Len(log) /\ AcceptedRows(rows, log)
    /\ \A t \in Task : Pulled(task[t], log)
    /\ signOuts = 0 => session = "in"
    /\ ServerAt(log, tables, Len(log))

\* An accepted row stays accepted as the log grows.
LEMMA AcceptedStays ==
    ASSUME NEW l \in Seq(Operation), NEW k \in Seq(Operation), Extends(l, k),
           NEW r \in RowsT, AcceptedRows(r, l)
    PROVE  AcceptedRows(r, k)
  <1>1. ASSUME NEW version \in Nat, NEW op, Shows(l, version, op) PROVE Shows(k, version, op)
    <2>1. SUFFICES ASSUME version # 0 PROVE version <= Len(k) /\ k[version] = op
      BY DEF Shows
    <2>2. version <= Len(l) /\ l[version] = op /\ version \in 1..Len(l)
      BY <1>1, <2>1 DEF Shows
    <2>. QED BY <2>2 DEF Extends
  <1>2. /\ \A b \in Bank : r.bank[b] \in Nat
        /\ \A q \in Question : r.question[q] \in Nat /\ r.wrong[q] \in Nat
    BY DEF RowsT
  <1>. QED BY <1>1, <1>2 DEF AcceptedRows

\* An operation of the log leaves accepted rows accepted.
LEMMA AcceptedApplied ==
    ASSUME NEW l \in Seq(Operation), NEW n \in 1..Len(l), NEW r \in RowsT, AcceptedRows(r, l)
    PROVE  AcceptedRows(ApplyOperation(r, l[n], n), l)
  <1>. DEFINE x == ApplyOperation(r, l[n], n)
  <1>1. l[n] \in Operation /\ n \in Nat /\ n <= Len(l)
    OBVIOUS
  <1>2. \A op : Shows(l, 0, op) /\ (op = l[n] => Shows(l, n, op))
    BY <1>1 DEF Shows
  <1>. HIDE DEF x
  <1>3. ASSUME NEW b \in Bank PROVE Shows(l, x.bank[b], Upsert("bank", b))
    <2>1. x.bank[b] \in {0, r.bank[b]} \/ (l[n] = Upsert("bank", b) /\ x.bank[b] = n)
      BY <1>1, BankEffect DEF x
    <2>. QED BY <1>2, <2>1 DEF AcceptedRows
  <1>4. ASSUME NEW q \in Question PROVE Shows(l, x.question[q], Upsert("question", q))
    <2>1. x.question[q] \in {0, r.question[q]}
          \/ (l[n] = Upsert("question", q) /\ x.question[q] = n)
      BY <1>1, QuestionEffect DEF x
    <2>. QED BY <1>2, <2>1 DEF AcceptedRows
  <1>5. ASSUME NEW q \in Question PROVE Shows(l, x.wrong[q], Upsert("wrong", q))
    <2>1. x.wrong[q] \in {0, r.wrong[q]} \/ (l[n] = Upsert("wrong", q) /\ x.wrong[q] = n)
      BY <1>1, WrongEffect DEF x
    <2>. QED BY <1>2, <2>1 DEF AcceptedRows
  <1>. QED BY <1>3, <1>4, <1>5 DEF AcceptedRows, x

\* Nor do any of its operations, in its order.
LEMMA AcceptedReplaced ==
    ASSUME log \in Seq(Operation), NEW r \in RowsT, NEW P, AcceptedRows(r, log)
    PROVE  ApplyOrdered(r, P) \in RowsT /\ AcceptedRows(ApplyOrdered(r, P), log)
  <1>. DEFINE N == Len(log)
  <1>1. PICK f : Applies(f, r, P, log)
    BY SomeApplies
  <1>. DEFINE S == {n \in 0..N : AcceptedRows(f[n], log)}
  <1>2. N \in Nat
    OBVIOUS
  <1>3. 0 \in S
    BY <1>1, <1>2 DEF Applies
  <1>4. ASSUME NEW n \in 0 + 1..N, n - 1 \in S PROVE n \in S
    <2>1. n \in 1..N /\ n - 1 \in 0..N /\ n \in 0..N
      BY <1>2
    <2>2. f[n - 1] \in RowsT /\ AcceptedRows(f[n - 1], log)
      BY <1>1, <1>4, <2>1 DEF Applies
    <2>3. AcceptedRows(ApplyOperation(f[n - 1], log[n], n), log)
      BY <2>1, <2>2, AcceptedApplied
    <2>4. f[n] = ApplyOperation(f[n - 1], log[n], n) \/ f[n] = f[n - 1]
      BY <1>1, <2>1 DEF Applies
    <2>. QED BY <2>1, <2>2, <2>3, <2>4
  <1>. HIDE DEF S
  <1>5. 0..N \subseteq S
    BY <1>2, <1>3, <1>4, UpFrom
  <1>6. N \in S /\ f[N] \in RowsT
    BY <1>1, <1>2, <1>5 DEF Applies
  <1>7. ApplyOrdered(r, P) = f[N]
    BY <1>1, AppliedInOrder
  <1>. QED BY <1>6, <1>7 DEF S

\* What a call wants to push is a sequence of operations.
LEMMA MutationsType ==
    ASSUME rows \in RowsT
    PROVE  \A ops \in Mutations \cup NewBanks : ops \in Seq(Operation)
  <1>1. /\ \A b \in Bank : Upsert("bank", b) \in Operation /\ Delete("bank", b) \in Operation
        /\ \A q \in Question :
              /\ Upsert("question", q) \in Operation
              /\ Upsert("wrong", q) \in Operation /\ Delete("wrong", q) \in Operation
    BY DEF Upsert, Delete, Operation
  <1>2. Edits \subseteq Operation
    BY <1>1 DEF Edits
  <1>3. Clears \subseteq Operation
    BY <1>1 DEF Clears
  <1>4. Cardinality(Clears) \in Nat
    <2>. DEFINE f == [op \in Clears |-> op.id]
    <2>1. \A op \in Clears : op.id \in Question /\ op = Delete("wrong", op.id)
      BY DEF Clears, Delete
    <2>2. f \in Injection(Clears, Question)
      BY <2>1 DEF Injection, IsInjective
    <2>3. IsFiniteSet(Clears)
      BY <2>2, FS_Injection, ConstantAssumption DEF ConstantAssumption
    <2>. QED BY <2>3, FS_CardinalityType
  <1>5. ASSUME NEW s \in Orders(Clears) PROVE s \in Seq(Operation)
    <2>1. s \in [1..Cardinality(Clears) -> Clears]
      BY DEF Orders
    <2>2. s \in [1..Cardinality(Clears) -> Operation]
      BY <1>3, <2>1
    <2>. QED BY <1>4, <2>2
  <1>6. \A op \in Edits : <<op>> \in Seq(Operation)
    BY <1>2
  <1>7. ASSUME NEW s \in NewBanks PROVE s \in Seq(Operation)
    <2>1. PICK q \in Question : s = <<Upsert("bank", BankOf[q]), Upsert("question", q)>>
      BY DEF NewBanks
    <2>2. BankOf[q] \in Bank
      BY ConstantAssumption DEF ConstantAssumption
    <2>3. Upsert("bank", BankOf[q]) \in Operation /\ Upsert("question", q) \in Operation
      BY <1>1, <2>2
    <2>. QED BY <2>1, <2>3
  <1>8. ASSUME NEW ops \in Mutations PROVE ops \in Seq(Operation)
    <2>1. (\E op \in Edits : ops = <<op>>) \/ ops \in Orders(Clears)
      BY DEF Mutations
    <2>. QED BY <1>5, <1>6, <2>1
  <1>. QED BY <1>7, <1>8

\* The server's tables still follow a log that has one more operation.
LEMMA ServerSteps ==
    ASSUME NEW l \in Seq(Operation), NEW t \in Tables, NEW n \in Nat, n + 1 <= Len(l),
           ServerAt(l, t, n), Accepted(t, l[n + 1])
    PROVE  ServerAt(l, Materialize(t, l[n + 1]), n + 1)
  <1>. DEFINE op == l[n + 1]
              x  == Materialize(t, op)
              R  == Replay(l)
  <1>0. /\ n + 1 \in 1..Len(l) /\ n \in 0..Len(l) /\ n + 1 # 0 /\ n + 1 \in Nat
        /\ op \in Operation
    OBVIOUS
  <1>1. R[n] \in RowsT /\ R[n + 1] = ApplyOperation(R[n], op, n + 1)
    BY <1>0, ReplayIs
  <1>2. \A kind, id : Upsert(kind, id) # Delete(kind, id)
    BY DEF Upsert, Delete
  <1>3. \A q \in Question : BankOf[q] \in Bank
    BY ConstantAssumption DEF ConstantAssumption
  <1>. HIDE DEF op, x, R
  <1>4. \A b \in Bank : R[n + 1].bank[b] # 0 <=>
           \/ op = Upsert("bank", b)
           \/ R[n].bank[b] # 0 /\ op # Delete("bank", b)
    BY <1>0, <1>1, <1>2, BankEffect
  <1>5. \A b \in Bank : x.bank[b] = "live" <=> R[n + 1].bank[b] # 0
    BY <1>0, <1>4, MaterializeEffect DEF ServerAt, x, R
  <1>6. \A q \in Question :
           /\ Lives(l, "question", q, n + 1) => x.question[q] = "live"
           /\ Lives(l, "wrong", q, n + 1) => x.wrong[q] = "live"
    BY <1>0, LivesOn, MaterializeEffect DEF ServerAt, x, op
  <1>7. ASSUME NEW q \in Question, R[n + 1].question[q] # 0
        PROVE  R[n + 1].bank[BankOf[q]] # 0
    <2>1. CASE op = Upsert("question", q)
      <3>1. op.kind = "question" /\ ~op.delete /\ op.id = q
        BY <2>1 DEF Upsert
      <3>2. t.bank[BankOf[q]] = "live"
        BY <3>1 DEF Accepted, op
      <3>3. R[n].bank[BankOf[q]] # 0
        BY <1>3, <3>2 DEF ServerAt, R
      <3>4. op # Delete("bank", BankOf[q])
        BY <3>1 DEF Delete
      <3>. QED BY <1>3, <1>4, <3>3, <3>4
    <2>2. CASE op # Upsert("question", q)
      <3>1. /\ R[n].question[q] # 0
            /\ ~(op = Delete("bank", BankOf[q]) /\ R[n].bank[BankOf[q]] # 0)
        BY <1>0, <1>1, <1>7, <2>2, QuestionEffect
      <3>2. n \in 0..n
        BY <1>0
      <3>3. R[n].bank[BankOf[q]] # 0
        BY <3>1, <3>2 DEF ServerAt, R
      <3>. QED BY <1>3, <1>4, <3>1, <3>3
    <2>. QED BY <2>1, <2>2
  <1>8. ASSUME NEW m \in 0..n + 1, NEW q \in Question, R[m].question[q] # 0
        PROVE  R[m].bank[BankOf[q]] # 0
    <2>1. m = n + 1 \/ m \in 0..n
      BY <1>0
    <2>. QED BY <1>7, <1>8, <2>1 DEF ServerAt, R
  <1>. QED BY <1>5, <1>6, <1>8 DEF ServerAt, x, op, R

\* What it says of a log it says of a longer one.
LEMMA ServerStays ==
    ASSUME NEW l \in Seq(Operation), NEW k \in Seq(Operation), Extends(l, k), NEW t,
           ServerAt(l, t, Len(l))
    PROVE  ServerAt(k, t, Len(l))
  <1>. DEFINE N == Len(l)
  <1>1. \A m \in 0..N : Replay(k)[m] = Replay(l)[m]
    BY ReplayStays
  <1>2. N \in 0..N
    OBVIOUS
  <1>3. \A kind, id : Lives(k, kind, id, N) <=> Lives(l, kind, id, N)
    BY <1>2, LivesStays
  <1>. HIDE DEF N
  <1>. QED BY <1>1, <1>2, <1>3 DEF ServerAt, N

\* A batch is accepted whole: the log is longer, and the tables follow it.
LEMMA Accepting ==
    ASSUME Base, NEW batch \in Seq(Operation), Accept(batch)
    PROVE  /\ log' \in Seq(Operation) /\ Extends(log, log')
           /\ Len(log') = Len(log) + Len(batch)
           /\ tables' \in Tables /\ ServerAt(log', tables', Len(log'))
  <1>. DEFINE N == Len(log)
              k == Len(batch)
  <1>1. /\ log \in Seq(Operation) /\ tables \in Tables /\ ServerAt(log, tables, N)
        /\ N \in Nat /\ k \in Nat
    BY DEF Base, CacheTypeOK
  <1>2. /\ log' = log \o batch
        /\ tables' = Materialized(tables, batch)
        /\ \A i \in 1..k : Accepted(Materialized(tables, SubSeq(batch, 1, i - 1)), batch[i])
    BY DEF Accept
  <1>3. /\ log' \in Seq(Operation) /\ Len(log') = N + k /\ Extends(log, log')
        /\ \A i \in 1..k : log'[N + i] = batch[i]
    BY <1>1, <1>2 DEF Extends
  <1>4. PICK f : Writes(f, tables, batch)
    BY <1>1, SomeWrites
  <1>5. ASSUME NEW i \in 1..k PROVE Materialized(tables, SubSeq(batch, 1, i - 1)) = f[i - 1]
    <2>. DEFINE b == SubSeq(batch, 1, i - 1)
    <2>1. b \in Seq(Operation) /\ Len(b) = i - 1 /\ Extends(b, batch)
      BY <1>1 DEF Extends
    <2>. HIDE DEF b
    <2>2. Materialized(tables, b) = f[Len(b)]
      BY <1>1, <1>4, <2>1, MaterializedIs
    <2>. QED BY <2>1, <2>2 DEF b
  <1>6. Materialized(tables, batch) = f[k]
    <2>1. Extends(batch, batch)
      BY <1>1 DEF Extends
    <2>. QED BY <1>1, <1>4, <2>1, MaterializedIs
  <1>. DEFINE S == {n \in 0..k : ServerAt(log', f[n], N + n)}
  <1>7. 0 \in S
    <2>1. f[0] = tables /\ N + 0 = N
      BY <1>1, <1>4 DEF Writes
    <2>2. ServerAt(log', tables, N)
      BY <1>1, <1>3, ServerStays
    <2>. QED BY <1>1, <2>1, <2>2
  <1>8. ASSUME NEW n \in 0 + 1..k, n - 1 \in S PROVE n \in S
    <2>. DEFINE p == N + (n - 1)
    <2>1. /\ n \in 1..k /\ n - 1 \in 0..k /\ p \in Nat /\ p + 1 = N + n /\ p + 1 <= Len(log')
          /\ n \in 0..k
      BY <1>1, <1>3
    <2>2. f[n - 1] \in Tables /\ f[n] = Materialize(f[n - 1], batch[n])
      BY <1>4, <2>1 DEF Writes
    <2>3. ServerAt(log', f[n - 1], p) /\ log'[p + 1] = batch[n]
      BY <1>3, <1>8, <2>1
    <2>4. Accepted(f[n - 1], batch[n])
      BY <1>2, <1>5, <2>1
    <2>. HIDE DEF p
    <2>5. ServerAt(log', Materialize(f[n - 1], log'[p + 1]), p + 1)
      BY <1>3, <2>1, <2>2, <2>3, <2>4, ServerSteps
    <2>. QED BY <2>1, <2>2, <2>3, <2>5
  <1>. HIDE DEF S
  <1>9. 0..k \subseteq S
    BY <1>1, <1>7, <1>8, UpFrom
  <1>10. k \in S /\ f[k] \in Tables
    BY <1>1, <1>4, <1>9 DEF Writes
  <1>. QED BY <1>2, <1>3, <1>6, <1>10 DEF S

\* A device that has done nothing.
LEMMA IdleType == Idle \in Calls /\ \A l : Len(l) \in Nat => Pulled(Idle, l)
  <1>1. Idle \in Calls
    BY NoRowsType DEF Idle, Calls, Pcs
  <1>2. \A l : Len(l) \in Nat => Pulled(Idle, l)
    BY DEF Idle, Pulled, AcceptedRows, NoRows, Shows
  <1>. QED BY <1>1, <1>2

\* A step of a call that leaves the log alone.
LEMMA CallSteps ==
    ASSUME Base, NEW t \in Task, NEW c \in Calls, Pulled(c, log), Becomes(t, c)
    PROVE  /\ task' \in [Task -> Calls] /\ \A u \in Task : Pulled(task'[u], log)
           /\ task'[t] = c /\ \A u \in Task \ {t} : task'[u] = task[u]
  <1>1. task \in [Task -> Calls] /\ task' = [task EXCEPT ![t] = c]
    BY DEF Base, CacheTypeOK, Becomes
  <1>. QED BY <1>1 DEF Base

\* A step that leaves the log, the rows and the session alone.
LEMMA BaseSteps ==
    ASSUME Base, NEW t \in Task, NEW c \in Calls, Pulled(c, log), Becomes(t, c),
           UNCHANGED <<log, tables, rows, cursor, session, signOuts, pushed, overtaken>>
    PROVE  Base'
  <1>1. task' \in [Task -> Calls] /\ \A u \in Task : Pulled(task'[u], log)
    BY CallSteps
  <1>. QED BY <1>1 DEF Base, CacheTypeOK

\* The end of a page lies in the log, at the cursor or behind it.
LEMMA PageEnds ==
    ASSUME log \in Seq(Operation), NEW from \in Nat, from <= Len(log)
    PROVE  PageEnd(from) \in Nat /\ from <= PageEnd(from) /\ PageEnd(from) <= Len(log)
  BY ConstantAssumption DEF PageEnd, ConstantAssumption

LEMMA BaseStartRefresh ==
    ASSUME Base, NEW t \in Task, StartRefresh(t)
    PROVE  Base'
  <1>. DEFINE c == [Idle EXCEPT !.pc = "pulling", !.upTo = cursor]
  <1>1. cursor \in Nat /\ cursor <= Len(log) /\ log \in Seq(Operation)
    BY DEF Base, CacheTypeOK
  <1>2. c \in Calls
    BY <1>1, IdleType DEF Calls, Pcs
  <1>3. c.upTo = cursor /\ c.loaded = Idle.loaded
    BY DEF Idle
  <1>4. Pulled(c, log)
    BY <1>1, <1>3, IdleType DEF Pulled
  <1>. QED BY <1>2, <1>4, BaseSteps DEF StartRefresh

LEMMA BasePull ==
    ASSUME Base, NEW t \in Task, Pull(t)
    PROVE  Base'
  <1>. DEFINE last == PageEnd(task[t].upTo)
              got  == task[t].got \cup (task[t].upTo + 1..last)
              next == [task[t] EXCEPT !.got = got, !.upTo = last]
              c    == IF last < Len(log) THEN next
                      ELSE IF got = {} THEN Idle
                      ELSE [next EXCEPT !.pc = "banks"]
  <1>1. /\ task[t] \in Calls /\ Pulled(task[t], log) /\ log \in Seq(Operation)
        /\ task[t].upTo \in Nat /\ task[t].upTo <= Len(log) /\ task[t].got \subseteq Nat
    BY DEF Base, CacheTypeOK, Calls, Pulled
  <1>2. last \in Nat /\ last <= Len(log)
    BY <1>1, PageEnds
  <1>3. got \in SUBSET Nat
    BY <1>1, <1>2
  <1>. HIDE DEF last, got
  <1>4. next \in Calls /\ Pulled(next, log)
    BY <1>1, <1>2, <1>3 DEF Calls, Pulled
  <1>5. [next EXCEPT !.pc = "banks"] \in Calls /\ Pulled([next EXCEPT !.pc = "banks"], log)
    BY <1>1, <1>2, <1>3 DEF Calls, Pulled, Pcs
  <1>6. c \in Calls /\ Pulled(c, log)
    BY <1>1, <1>4, <1>5, IdleType
  <1>7. Becomes(t, c)
    BY DEF Pull, last, got
  <1>. HIDE DEF c
  <1>. QED BY <1>6, <1>7, BaseSteps DEF Pull

LEMMA BaseStartPush ==
    ASSUME Base, NEW t \in Task, StartPush(t)
    PROVE  Base'
  <1>1. PICK ops \in Mutations \cup NewBanks :
           /\ AwaitAnswer(ops)
           /\ Becomes(t, [Idle EXCEPT !.pc = "pushing", !.todo = ops,
                                      !.exclusive = ops \in NewBanks])
    BY DEF StartPush
  <1>. DEFINE exclusive == ops \in NewBanks
              c == [Idle EXCEPT !.pc = "pushing", !.todo = ops, !.exclusive = exclusive]
  <1>0. exclusive \in BOOLEAN
    OBVIOUS
  <1>2. ops \in Seq(Operation) /\ log \in Seq(Operation)
    BY MutationsType DEF Base, CacheTypeOK
  <1>6. Becomes(t, c)
    BY <1>1
  <1>. HIDE DEF exclusive
  <1>3. c \in Calls
    BY <1>0, <1>2, IdleType DEF Calls, Pcs
  <1>4. c.upTo = Idle.upTo /\ c.loaded = Idle.loaded
    BY DEF Idle
  <1>5. Pulled(c, log)
    BY <1>2, <1>4, IdleType DEF Pulled
  <1>. QED BY <1>1, <1>3, <1>5, <1>6, BaseSteps DEF StartPush, AwaitAnswer

LEMMA BaseLoadBanks ==
    ASSUME Base, NEW t \in Task, LoadBanks(t)
    PROVE  Base'
  <1>. DEFINE c == [task[t] EXCEPT !.pc = "questions", !.loaded.bank = rows.bank,
                                   !.left = {b \in Bank : rows.bank[b] # 0}]
  <1>1. /\ task[t] \in Calls /\ Pulled(task[t], log) /\ rows \in RowsT
        /\ AcceptedRows(rows, log)
    BY DEF Base, CacheTypeOK
  <1>2. c \in Calls
    BY <1>1 DEF Calls, Pcs, RowsT
  <1>3. Pulled(c, log)
    BY <1>1 DEF Pulled, AcceptedRows, Calls, RowsT
  <1>. QED BY <1>2, <1>3, BaseSteps DEF LoadBanks

LEMMA BaseLoadQuestions ==
    ASSUME Base, NEW t \in Task, LoadQuestions(t)
    PROVE  Base'
  <1>1. /\ task[t] \in Calls /\ Pulled(task[t], log) /\ rows \in RowsT
        /\ AcceptedRows(rows, log)
    BY DEF Base, CacheTypeOK
  <1>2. CASE Becomes(t, [task[t] EXCEPT !.pc = "wrong"])
    <2>1. /\ [task[t] EXCEPT !.pc = "wrong"] \in Calls
          /\ Pulled([task[t] EXCEPT !.pc = "wrong"], log)
      BY <1>1 DEF Calls, Pcs, Pulled
    <2>. QED BY <1>2, <2>1, BaseSteps DEF LoadQuestions
  <1>3. ASSUME NEW b \in task[t].left,
               Becomes(t, [task[t] EXCEPT !.left = @ \ {b},
                   !.loaded.question = [q \in Question |->
                       IF BankOf[q] = b THEN rows.question[q] ELSE @[q]]])
        PROVE  Base'
    <2>. DEFINE c == [task[t] EXCEPT !.left = @ \ {b},
                   !.loaded.question = [q \in Question |->
                       IF BankOf[q] = b THEN rows.question[q] ELSE @[q]]]
    <2>1. c \in Calls
      BY <1>1 DEF Calls, RowsT
    <2>2. Pulled(c, log)
      BY <1>1 DEF Pulled, AcceptedRows, Calls, RowsT
    <2>. QED BY <1>3, <2>1, <2>2, BaseSteps DEF LoadQuestions
  <1>. QED BY <1>2, <1>3 DEF LoadQuestions

LEMMA BaseLoadWrong ==
    ASSUME Base, NEW t \in Task, LoadWrong(t)
    PROVE  Base'
  <1>. DEFINE c == [task[t] EXCEPT !.pc = "saving", !.loaded.wrong = rows.wrong]
  <1>1. /\ task[t] \in Calls /\ Pulled(task[t], log) /\ rows \in RowsT
        /\ AcceptedRows(rows, log)
    BY DEF Base, CacheTypeOK
  <1>2. c \in Calls
    BY <1>1 DEF Calls, Pcs, RowsT
  <1>3. Pulled(c, log)
    BY <1>1 DEF Pulled, AcceptedRows, Calls, RowsT
  <1>. QED BY <1>2, <1>3, BaseSteps DEF LoadWrong

LEMMA BaseFail ==
    ASSUME Base, NEW t \in Task, Fail(t)
    PROVE  Base'
  <1>1. log \in Seq(Operation)
    BY DEF Base, CacheTypeOK
  <1>. QED BY <1>1, IdleType, BaseSteps DEF Fail

LEMMA BaseSave ==
    ASSUME Base, NEW t \in Task, Save(t)
    PROVE  Base'
  <1>1. /\ task[t] \in Calls /\ Pulled(task[t], log) /\ log \in Seq(Operation)
        /\ task[t].upTo \in Nat /\ task[t].upTo <= Len(log)
        /\ task[t].loaded \in RowsT /\ AcceptedRows(task[t].loaded, log)
    BY DEF Base, CacheTypeOK, Calls, Pulled
  <1>2. task' \in [Task -> Calls] /\ \A u \in Task : Pulled(task'[u], log)
    BY <1>1, IdleType, CallSteps DEF Save
  <1>3. /\ rows' \in RowsT /\ AcceptedRows(rows', log)
        /\ cursor' \in Nat /\ cursor' <= Len(log) /\ overtaken' \in BOOLEAN
    <2>1. CASE ShouldReplace(cursor, task[t].upTo)
      BY <1>1, <2>1, AcceptedReplaced DEF Save, Base, CacheTypeOK
    <2>2. CASE ~ShouldReplace(cursor, task[t].upTo)
      BY <2>2 DEF Save, Base, CacheTypeOK
    <2>. QED BY <2>1, <2>2
  <1>. QED BY <1>2, <1>3 DEF Save, Base, CacheTypeOK

\* A log that grew: rows and calls stay grounded in it.
LEMMA BaseGrows ==
    ASSUME Base, NEW batch \in Seq(Operation), Accept(batch),
           UNCHANGED <<rows, cursor, session, signOuts, overtaken>>,
           pushed' \in BOOLEAN, task' \in [Task -> Calls],
           \A u \in Task : task'[u].loaded = task[u].loaded /\ task'[u].upTo <= Len(log')
    PROVE  Base'
  <1>1. /\ log' \in Seq(Operation) /\ Extends(log, log') /\ Len(log) <= Len(log')
        /\ tables' \in Tables /\ ServerAt(log', tables', Len(log'))
    BY Accepting DEF Extends
  <1>2. log \in Seq(Operation) /\ rows \in RowsT /\ AcceptedRows(rows, log) /\ cursor <= Len(log)
        /\ cursor \in Nat
    BY DEF Base, CacheTypeOK
  <1>3. AcceptedRows(rows, log')
    BY <1>1, <1>2, AcceptedStays
  <1>4. ASSUME NEW u \in Task PROVE Pulled(task'[u], log')
    <2>1. task[u].loaded \in RowsT /\ AcceptedRows(task[u].loaded, log)
      BY DEF Base, CacheTypeOK, Calls, Pulled
    <2>2. AcceptedRows(task[u].loaded, log')
      BY <1>1, <1>2, <2>1, AcceptedStays
    <2>. QED BY <2>2 DEF Pulled
  <1>5. cursor' <= Len(log')
    BY <1>1, <1>2
  <1>. QED BY <1>1, <1>2, <1>3, <1>4, <1>5 DEF Base, CacheTypeOK

LEMMA BaseOtherDevice ==
    ASSUME Base, OtherDevice
    PROVE  Base'
  <1>1. PICK op \in Operation : Accept(<<op>>)
    BY DEF OtherDevice
  <1>2. <<op>> \in Seq(Operation)
    OBVIOUS
  <1>3. Len(log) <= Len(log') /\ log \in Seq(Operation) /\ Len(log') \in Nat
    <2>1. log' \in Seq(Operation) /\ Extends(log, log') /\ log \in Seq(Operation)
      BY <1>1, <1>2, Accepting DEF Base, CacheTypeOK
    <2>. QED BY <2>1 DEF Extends
  <1>4. \A u \in Task : task[u].upTo <= Len(log) /\ task[u].upTo \in Nat
    BY DEF Base, CacheTypeOK, Pulled, Calls
  <1>5. \A u \in Task : task'[u].loaded = task[u].loaded /\ task'[u].upTo <= Len(log')
    BY <1>3, <1>4 DEF OtherDevice
  <1>6. task' \in [Task -> Calls] /\ pushed' \in BOOLEAN
    BY DEF OtherDevice, Base, CacheTypeOK
  <1>. QED BY <1>1, <1>2, <1>5, <1>6, BaseGrows DEF OtherDevice

LEMMA BasePush ==
    ASSUME Base, NEW t \in Task, Push(t)
    PROVE  Base' /\ pushed'
  <1>. DEFINE todo  == task[t].todo
              size  == IF Len(todo) < BatchLimit THEN Len(todo) ELSE BatchLimit
              batch == SubSeq(todo, 1, size)
              rest  == SubSeq(todo, size + 1, Len(todo))
              got   == task[t].got \cup (Len(log) + 1..Len(log'))
              c     == [task[t] EXCEPT !.pc = IF rest = <<>> THEN "banks" ELSE "pushing",
                                       !.todo = rest, !.got = got, !.upTo = Len(log')]
  <1>1. Accept(batch) /\ Becomes(t, c)
    BY DEF Push
  <1>2. /\ task[t] \in Calls /\ todo \in Seq(Operation) /\ Len(todo) \in Nat
        /\ task \in [Task -> Calls] /\ log \in Seq(Operation)
    BY DEF Base, CacheTypeOK, Calls
  <1>3. size \in Nat /\ size <= Len(todo)
    BY <1>2, ConstantAssumption DEF ConstantAssumption
  <1>. HIDE DEF size
  <1>4. batch \in Seq(Operation) /\ rest \in Seq(Operation)
    BY <1>2, <1>3
  <1>. HIDE DEF todo, batch, rest
  <1>5. log' \in Seq(Operation) /\ Len(log) <= Len(log') /\ Len(log') \in Nat
    <2>1. log' \in Seq(Operation) /\ Extends(log, log')
      BY <1>1, <1>4, Accepting
    <2>. QED BY <2>1 DEF Extends
  <1>6. c \in Calls
    <2>1. got \in SUBSET Nat
      BY <1>2, <1>5 DEF Calls
    <2>2. (IF rest = <<>> THEN "banks" ELSE "pushing") \in Pcs
      BY DEF Pcs
    <2>. HIDE DEF got
    <2>. QED BY <1>2, <1>4, <1>5, <2>1, <2>2 DEF Calls
  <1>7. c.loaded = task[t].loaded /\ c.upTo = Len(log')
    BY <1>2 DEF Calls
  <1>. HIDE DEF c
  <1>8. task' \in [Task -> Calls] /\ task'[t] = c /\ \A u \in Task \ {t} : task'[u] = task[u]
    BY <1>1, <1>2, <1>6 DEF Becomes
  <1>9. \A u \in Task : task[u].upTo <= Len(log) /\ task[u].upTo \in Nat
    BY DEF Base, CacheTypeOK, Pulled, Calls
  <1>10. \A u \in Task : task'[u].loaded = task[u].loaded /\ task'[u].upTo <= Len(log')
    BY <1>2, <1>5, <1>7, <1>8, <1>9
  <1>11. pushed' /\ pushed' \in BOOLEAN
    BY DEF Push
  <1>. QED BY <1>1, <1>4, <1>8, <1>10, <1>11, BaseGrows DEF Push

\* An empty log has no rows, and the server no tables.
LEMMA BaseInit == Init => Base
  <1>. SUFFICES ASSUME Init PROVE Base
    OBVIOUS
  <1>1. log = <<>> /\ log \in Seq(Operation) /\ Len(log) = 0
    BY DEF Init
  <1>2. task \in [Task -> Calls] /\ \A t \in Task : Pulled(task[t], log)
    BY <1>1, IdleType DEF Init
  <1>3. tables \in Tables
    BY DEF Init, NoTables, Tables, Marks
  <1>4. AcceptedRows(rows, log) /\ rows \in RowsT
    BY NoRowsType DEF Init, AcceptedRows, NoRows, Shows
  <1>5. Replay(log)[0] = NoRows
    BY <1>1, ReplayIs
  <1>6. \A kind, id : ~Lives(log, kind, id, 0)
    BY DEF Lives
  <1>7. ServerAt(log, tables, 0)
    BY <1>5, <1>6 DEF ServerAt, Init, NoTables, NoRows
  <1>8. CacheTypeOK
    BY <1>1, <1>2, <1>3, <1>4 DEF Init, CacheTypeOK
  <1>9. cursor <= Len(log) /\ session = "in"
    BY <1>1 DEF Init
  <1>. QED BY <1>1, <1>2, <1>4, <1>7, <1>8, <1>9 DEF Base

\* Every step keeps it.
LEMMA BaseNext == Base /\ [Next]_vars => Base'
  <1>. SUFFICES ASSUME Base, [Next]_vars PROVE Base'
    OBVIOUS
  <1>1. CASE UNCHANGED vars
    BY <1>1 DEF vars, Base, CacheTypeOK
  <1>2. ASSUME NEW t \in Task,
               \/ StartRefresh(t) \/ Pull(t) \/ StartPush(t) \/ Push(t)
               \/ LoadBanks(t) \/ LoadQuestions(t) \/ LoadWrong(t) \/ Save(t) \/ Fail(t)
        PROVE  Base'
    BY <1>2, BaseStartRefresh, BasePull, BaseStartPush, BasePush, BaseLoadBanks,
       BaseLoadQuestions, BaseLoadWrong, BaseSave, BaseFail
  <1>3. CASE SignOut
    <2>1. signOuts \in Nat /\ signOuts' = signOuts + 1
      BY <1>3 DEF SignOut, Base, CacheTypeOK
    <2>. QED BY <1>3, <2>1 DEF SignOut, Base, CacheTypeOK
  <1>4. CASE ClearAccountTextCache
    <2>1. NoRows \in RowsT /\ AcceptedRows(NoRows, log) /\ Len(log) \in Nat
      BY NoRowsType DEF AcceptedRows, NoRows, Shows, Base, CacheTypeOK
    <2>. QED BY <1>4, <2>1 DEF ClearAccountTextCache, Base, CacheTypeOK
  <1>5. CASE ClearFails
    BY <1>5 DEF ClearFails, Base, CacheTypeOK
  <1>6. CASE SignIn
    BY <1>6 DEF SignIn, Base, CacheTypeOK
  <1>. QED BY <1>1, <1>2, <1>3, <1>4, <1>5, <1>6, BaseOtherDevice DEF Next

\* Whatever fails and whoever signs out: types, and rows and tables that follow
\* the log.
THEOREM CacheInvariant == Spec => []Base
  BY BaseInit, BaseNext, PTL DEF Spec

\* No row is shown that the server has not accepted, under its version
\* (applyOrdered, pushOne, replacePage).
THEOREM NoSpeculativeRow == Spec => []RowsAreAccepted
  <1>1. Base => RowsAreAccepted
    BY DEF Base, AcceptedRows, Shows, RowsAreAccepted
  <1>. QED BY <1>1, CacheInvariant, PTL

\* A page that started early never takes the cursor back, but for the deletion
\* of the cache at the sign-out (shouldReplace).
THEOREM RefreshesGoForward == Spec => CursorNeverRetreats
  <1>1. Base /\ [Next]_vars => [session # "leaving" => cursor' >= cursor]_vars
    <2>. SUFFICES ASSUME Base, Next, session # "leaving" PROVE cursor' >= cursor
      OBVIOUS
    <2>1. cursor \in Nat
      BY DEF Base, CacheTypeOK
    <2>2. ASSUME NEW t \in Task, Save(t) PROVE cursor' >= cursor
      <3>1. task[t].upTo \in Nat
        BY DEF Base, CacheTypeOK, Calls
      <3>. QED BY <2>1, <2>2, <3>1 DEF Save, ShouldReplace
    <2>3. ~ClearAccountTextCache
      BY DEF ClearAccountTextCache
    <2>4. (\E t \in Task : Save(t)) \/ cursor' = cursor
      BY <2>3 DEF Next, OtherDevice, StartRefresh, Pull, StartPush, Push, LoadBanks,
                  LoadQuestions, LoadWrong, Fail, SignOut, ClearFails, SignIn
    <2>. QED BY <2>1, <2>2, <2>4
  <1>. QED BY <1>1, CacheInvariant, PTL DEF Spec, CursorNeverRetreats

-----------------------------------------------------------------------------
(* A page that is applied to a snapshot.                                   *)

\* The operations after s, up to u, are applied to r, each once and in order.
Continues(f, r, s, u, l) ==
    /\ f \in [0..Len(l) -> RowsT] /\ f[s] = r
    /\ \A n \in s + 1..u : f[n] = ApplyOperation(f[n - 1], l[n], n)

\* applyOrdered does that to a page that follows s.
LEMMA PageContinues ==
    ASSUME log \in Seq(Operation), NEW r \in RowsT, NEW s \in Nat, NEW u \in Nat,
           s <= u, u <= Len(log)
    PROVE  \E f : Continues(f, r, s, u, log) /\ ApplyOrdered(r, s + 1..u) = f[u]
  <1>. DEFINE N == Len(log)
              P == s + 1..u
  <1>0. N \in Nat /\ u <= N /\ s <= N
    OBVIOUS
  <1>1. PICK f : Applies(f, r, P, log)
    BY SomeApplies
  <1>2. \A n \in 1..N : f[n] = IF n \in P THEN ApplyOperation(f[n - 1], log[n], n) ELSE f[n - 1]
    BY <1>1 DEF Applies
  <1>3. ApplyOrdered(r, P) = f[N]
    BY <1>1, AppliedInOrder
  <1>4. f[s] = r
    <2>. DEFINE S == {n \in 0..s : f[n] = r}
    <2>1. 0 \in S
      BY <1>1 DEF Applies
    <2>2. ASSUME NEW n \in 0 + 1..s, n - 1 \in S PROVE n \in S
      <3>1. n \in 1..N /\ n \notin P /\ n \in 0..s
        BY <1>0
      <3>. QED BY <1>2, <2>2, <3>1
    <2>. HIDE DEF S
    <2>3. 0..s \subseteq S
      BY <2>1, <2>2, UpFrom
    <2>4. s \in S
      BY <2>3
    <2>. QED BY <2>4 DEF S
  <1>5. f[N] = f[u]
    <2>. DEFINE S == {n \in u..N : f[n] = f[u]}
    <2>1. u \in S
      BY <1>0
    <2>2. ASSUME NEW n \in u + 1..N, n - 1 \in S PROVE n \in S
      <3>1. n \in 1..N /\ n \notin P /\ n \in u..N
        BY <1>0
      <3>. QED BY <1>2, <2>2, <3>1
    <2>. HIDE DEF S
    <2>3. u..N \subseteq S
      BY <1>0, <2>1, <2>2, UpFrom
    <2>4. N \in S
      BY <1>0, <2>3
    <2>. QED BY <2>4 DEF S
  <1>6. ASSUME NEW n \in s + 1..u PROVE f[n] = ApplyOperation(f[n - 1], log[n], n)
    <2>1. n \in 1..N /\ n \in P
      BY <1>0
    <2>. QED BY <1>2, <2>1
  <1>7. f \in [0..Len(log) -> RowsT]
    BY <1>1 DEF Applies
  <1>. QED BY <1>3, <1>4, <1>5, <1>6, <1>7 DEF Continues

\* A row of which the replay and the page agree somewhere agrees where both end:
\* a bank's row, of which the snapshot was taken after the page began.
LEMMA BanksSaved ==
    ASSUME NEW l \in Seq(Operation), NEW r \in RowsT, NEW s \in Nat, NEW u \in Nat,
           s <= u, u <= Len(l), NEW f, Continues(f, r, s, u, l),
           NEW b \in Bank, NEW m \in s..u, r.bank[b] = Replay(l)[m].bank[b]
    PROVE  f[u].bank[b] = Replay(l)[u].bank[b]
  <1>. DEFINE R == Replay(l)
              Still(n) == f[n].bank[b] = r.bank[b] /\ \A k \in s..n : R[k].bank[b] = R[s].bank[b]
              S == {n \in s..u : f[n].bank[b] = R[n].bank[b] \/ Still(n)}
  <1>1. s \in S
    BY DEF Continues
  <1>2. ASSUME NEW n \in s + 1..u, n - 1 \in S PROVE n \in S
    <2>1. /\ n \in 1..Len(l) /\ n \in Nat /\ n - 1 \in 0..Len(l) /\ n - 1 \in s..u /\ n \in s..u
          /\ l[n] \in Operation
      OBVIOUS
    <2>2. /\ f[n - 1] \in RowsT /\ f[n] = ApplyOperation(f[n - 1], l[n], n)
          /\ R[n - 1] \in RowsT /\ R[n] = ApplyOperation(R[n - 1], l[n], n)
      BY <2>1, ReplayIs DEF Continues
    <2>. HIDE DEF R
    <2>3. CASE l[n] \in {Upsert("bank", b), Delete("bank", b)}
      <3>1. f[n].bank[b] = R[n].bank[b]
        BY <2>1, <2>2, <2>3, BankEffect
      <3>. QED BY <2>1, <3>1
    <2>4. CASE l[n] \notin {Upsert("bank", b), Delete("bank", b)}
      <3>1. f[n].bank[b] = f[n - 1].bank[b] /\ R[n].bank[b] = R[n - 1].bank[b]
        BY <2>1, <2>2, <2>4, BankEffect
      <3>2. \A k \in s..n : k = n \/ k \in s..n - 1
        BY <2>1
      <3>3. Still(n - 1) => Still(n)
        BY <2>1, <3>1, <3>2
      <3>4. f[n - 1].bank[b] = R[n - 1].bank[b] \/ Still(n - 1)
        BY <1>2
      <3>5. f[n].bank[b] = R[n].bank[b] \/ Still(n)
        BY <3>1, <3>3, <3>4
      <3>. QED BY <2>1, <3>5
    <2>. QED BY <2>3, <2>4
  <1>. HIDE DEF S
  <1>3. s..u \subseteq S
    BY <1>1, <1>2, UpFrom
  <1>4. u \in S
    BY <1>3
  <1>. QED BY <1>4 DEF S

\* The replay has the question from s to e, under one version.
Steady(l, q, s, e) ==
    /\ Replay(l)[s].question[q] # 0
    /\ \A m \in s..e : Replay(l)[m].question[q] = Replay(l)[s].question[q]

\* It has no question without its bank.
Banked(l, q) ==
    \A n \in 0..Len(l) : Replay(l)[n].question[q] # 0 => Replay(l)[n].bank[BankOf[q]] # 0

\* A question that the replay has is in the page, or was in the snapshot.
LEMMA QuestionsSaved ==
    ASSUME NEW l \in Seq(Operation), NEW r \in RowsT, NEW s \in Nat, NEW u \in Nat,
           s <= u, u <= Len(l), NEW f, Continues(f, r, s, u, l),
           NEW q \in Question, NEW e \in s..u,
           Banked(l, q), Steady(l, q, s, e) => r.question[q] = Replay(l)[s].question[q],
           Replay(l)[u].question[q] # 0
    PROVE  f[u].question[q] = Replay(l)[u].question[q]
  <1>. DEFINE R == Replay(l)
              Still(n) == /\ f[n].question[q] = r.question[q]
                          /\ \A k \in s..n : R[k].question[q] = R[s].question[q]
              S == {n \in s..u : R[n].question[q] # 0 =>
                                    f[n].question[q] = R[n].question[q] \/ Still(n)}
  <1>1. s \in S
    BY DEF Continues
  <1>2. ASSUME NEW n \in s + 1..u, n - 1 \in S PROVE n \in S
    <2>1. /\ n \in 1..Len(l) /\ n \in Nat /\ n - 1 \in 0..Len(l) /\ n - 1 \in s..u /\ n \in s..u
          /\ l[n] \in Operation
      OBVIOUS
    <2>2. /\ f[n - 1] \in RowsT /\ f[n] = ApplyOperation(f[n - 1], l[n], n)
          /\ R[n - 1] \in RowsT /\ R[n] = ApplyOperation(R[n - 1], l[n], n)
      BY <2>1, ReplayIs DEF Continues
    <2>0. R[n - 1].question[q] # 0 => R[n - 1].bank[BankOf[q]] # 0
      BY <2>1 DEF Banked
    <2>. HIDE DEF R
    <2>. SUFFICES ASSUME R[n].question[q] # 0
                  PROVE  f[n].question[q] = R[n].question[q] \/ Still(n)
      BY <2>1
    <2>3. CASE l[n] = Upsert("question", q)
      BY <2>1, <2>2, <2>3, QuestionEffect
    <2>4. CASE l[n] # Upsert("question", q)
      <3>1. /\ R[n - 1].question[q] = R[n].question[q] /\ l[n] # Delete("question", q)
            /\ ~(l[n] = Delete("bank", BankOf[q]) /\ R[n - 1].bank[BankOf[q]] # 0)
        BY <2>1, <2>2, <2>4, QuestionEffect
      <3>2. l[n] # Delete("bank", BankOf[q])
        BY <2>0, <3>1
      <3>3. f[n].question[q] = f[n - 1].question[q]
        BY <2>1, <2>2, <2>4, <3>1, <3>2, QuestionEffect
      <3>4. \A k \in s..n : k = n \/ k \in s..n - 1
        BY <2>1
      <3>5. Still(n - 1) => Still(n)
        BY <2>1, <3>1, <3>3, <3>4
      <3>6. f[n - 1].question[q] = R[n - 1].question[q] \/ Still(n - 1)
        BY <1>2, <3>1
      <3>. QED BY <3>1, <3>3, <3>5, <3>6
    <2>. QED BY <2>3, <2>4
  <1>. HIDE DEF S
  <1>3. s..u \subseteq S
    BY <1>1, <1>2, UpFrom
  <1>4. u \in S
    BY <1>3
  <1>5. SUFFICES ASSUME Still(u) PROVE f[u].question[q] = R[u].question[q]
    BY <1>4 DEF S
  <1>6. R[u].question[q] = R[s].question[q] /\ Steady(l, q, s, e)
    BY <1>5 DEF Steady
  <1>. QED BY <1>5, <1>6

\* A row that a page leaves is live where the page ends, if what the snapshot
\* had of it was live somewhere in the page.
LEMMA OnlyLiveSaved ==
    ASSUME NEW l \in Seq(Operation), NEW r \in RowsT, NEW s \in Nat, NEW u \in Nat,
           s <= u, u <= Len(l), NEW f, Continues(f, r, s, u, l), NEW q \in Question
    PROVE  /\ (r.question[q] # 0 => \E m \in s..u : Lives(l, "question", q, m))
              => (f[u].question[q] # 0 => Lives(l, "question", q, u))
           /\ (r.wrong[q] # 0 => \E m \in s..u : Lives(l, "wrong", q, m))
              => (f[u].wrong[q] # 0 => Lives(l, "wrong", q, u))
  <1>0. ASSUME NEW n \in s + 1..u
        PROVE  /\ n \in Nat /\ l[n] \in Operation /\ f[n - 1] \in RowsT
               /\ f[n] = ApplyOperation(f[n - 1], l[n], n)
    BY DEF Continues
  <1>1. ASSUME r.question[q] # 0 => \E m \in s..u : Lives(l, "question", q, m)
        PROVE  f[u].question[q] # 0 => Lives(l, "question", q, u)
    <2>. DEFINE S == {n \in s..u : f[n].question[q] # 0 => Lives(l, "question", q, n)}
    <2>1. PICK a \in s..u : a \in S
      <3>1. CASE r.question[q] = 0
        BY <3>1 DEF Continues
      <3>2. CASE r.question[q] # 0
        <4>1. PICK m \in s..u : Lives(l, "question", q, m)
          BY <1>1, <3>2
        <4>2. m \in S
          BY <4>1
        <4>. HIDE DEF S
        <4>. QED BY <4>2
      <3>. HIDE DEF S
      <3>. QED BY <3>1, <3>2
    <2>5. a \in Nat /\ a <= u
      OBVIOUS
    <2>2. ASSUME NEW n \in a + 1..u, n - 1 \in S PROVE n \in S
      <3>1. n \in s + 1..u /\ n \in s..u /\ n - 1 \in Nat /\ n - 1 + 1 = n
        OBVIOUS
      <3>2. f[n].question[q] # 0 => \/ l[n] = Upsert("question", q)
                                    \/ f[n - 1].question[q] # 0 /\ l[n] # Delete("question", q)
        BY <1>0, <3>1, QuestionEffect
      <3>3. Lives(l, "question", q, n) <=>
               \/ l[n] = Upsert("question", q)
               \/ Lives(l, "question", q, n - 1) /\ l[n] # Delete("question", q)
        <4>. DEFINE p == n - 1
        <4>1. p \in Nat /\ p + 1 = n
          BY <3>1
        <4>. HIDE DEF p
        <4>2. Lives(l, "question", q, p + 1) <=>
                 \/ l[p + 1] = Upsert("question", q)
                 \/ Lives(l, "question", q, p) /\ l[p + 1] # Delete("question", q)
          BY <4>1, LivesOn
        <4>. QED BY <4>1, <4>2 DEF p
      <3>. QED BY <2>2, <3>1, <3>2, <3>3
    <2>. HIDE DEF S
    <2>3. a..u \subseteq S
      BY <2>1, <2>2, <2>5, UpFrom
    <2>4. u \in S
      BY <2>3, <2>5
    <2>. QED BY <2>4 DEF S
  <1>2. ASSUME r.wrong[q] # 0 => \E m \in s..u : Lives(l, "wrong", q, m)
        PROVE  f[u].wrong[q] # 0 => Lives(l, "wrong", q, u)
    <2>. DEFINE S == {n \in s..u : f[n].wrong[q] # 0 => Lives(l, "wrong", q, n)}
    <2>1. PICK a \in s..u : a \in S
      <3>1. CASE r.wrong[q] = 0
        BY <3>1 DEF Continues
      <3>2. CASE r.wrong[q] # 0
        <4>1. PICK m \in s..u : Lives(l, "wrong", q, m)
          BY <1>2, <3>2
        <4>2. m \in S
          BY <4>1
        <4>. HIDE DEF S
        <4>. QED BY <4>2
      <3>. HIDE DEF S
      <3>. QED BY <3>1, <3>2
    <2>5. a \in Nat /\ a <= u
      OBVIOUS
    <2>2. ASSUME NEW n \in a + 1..u, n - 1 \in S PROVE n \in S
      <3>1. n \in s + 1..u /\ n \in s..u /\ n - 1 \in Nat /\ n - 1 + 1 = n
        OBVIOUS
      <3>2. f[n].wrong[q] # 0 => \/ l[n] = Upsert("wrong", q)
                                 \/ f[n - 1].wrong[q] # 0 /\ l[n] # Delete("wrong", q)
        BY <1>0, <3>1, WrongEffect
      <3>3. Lives(l, "wrong", q, n) <=>
               \/ l[n] = Upsert("wrong", q)
               \/ Lives(l, "wrong", q, n - 1) /\ l[n] # Delete("wrong", q)
        <4>. DEFINE p == n - 1
        <4>1. p \in Nat /\ p + 1 = n
          BY <3>1
        <4>. HIDE DEF p
        <4>2. Lives(l, "wrong", q, p + 1) <=>
                 \/ l[p + 1] = Upsert("wrong", q)
                 \/ Lives(l, "wrong", q, p) /\ l[p + 1] # Delete("wrong", q)
          BY <4>1, LivesOn
        <4>. QED BY <4>1, <4>2 DEF p
      <3>. QED BY <2>2, <3>1, <3>2, <3>3
    <2>. HIDE DEF S
    <2>3. a..u \subseteq S
      BY <2>1, <2>2, <2>5, UpFrom
    <2>4. u \in S
      BY <2>3, <2>5
    <2>. QED BY <2>4 DEF S
  <1>. QED BY <1>1, <1>2

\* A page applied to the rows it follows is the replay.
LEMMA AllSaved ==
    ASSUME NEW l \in Seq(Operation), NEW r \in RowsT, NEW s \in Nat, NEW u \in Nat,
           s <= u, u <= Len(l), NEW f, Continues(f, r, s, u, l), r = Replay(l)[s]
    PROVE  f[u] = Replay(l)[u]
  <1>. DEFINE S == {n \in s..u : f[n] = Replay(l)[n]}
  <1>1. s \in S
    BY DEF Continues
  <1>2. ASSUME NEW n \in s + 1..u, n - 1 \in S PROVE n \in S
    <2>1. n \in 1..Len(l) /\ n \in s..u
      OBVIOUS
    <2>. QED BY <1>2, <2>1, ReplayIs DEF Continues
  <1>. HIDE DEF S
  <1>3. s..u \subseteq S
    BY <1>1, <1>2, UpFrom
  <1>4. u \in S
    BY <1>3
  <1>. QED BY <1>4 DEF S

-----------------------------------------------------------------------------
(* A device that only reads, and has never signed out.  A call began at a   *)
(* cursor s, and everything it has read since was read at a cursor from s   *)
(* to the one saved now: its banks are those of some position in between,   *)
(* and a question that the replay had all the while is in the snapshot, or  *)
(* still to be read.                                                        *)

RowsAt(r, l, n) ==
    /\ r.bank = Replay(l)[n].bank
    /\ \A q \in Question :
          /\ Replay(l)[n].question[q] # 0 => r.question[q] = Replay(l)[n].question[q]
          /\ r.question[q] # 0 => Lives(l, "question", q, n)
          /\ r.wrong[q] # 0 => Lives(l, "wrong", q, n)

Window(c, s) == s <= c.upTo /\ c.got = s + 1..c.upTo

Unread(c, q) == c.pc = "questions" /\ BankOf[q] \in c.left

LoadedBanks(c, s, e, l) ==
    \A b \in Bank : \E m \in s..e : c.loaded.bank[b] = Replay(l)[m].bank[b]

LoadedQuestions(c, s, e, l) ==
    \A q \in Question :
       Steady(l, q, s, e) => Unread(c, q) \/ c.loaded.question[q] = Replay(l)[s].question[q]

LoadedLive(c, s, e, l) ==
    \A q \in Question :
       /\ c.loaded.question[q] # 0 => \E m \in s..e : Lives(l, "question", q, m)
       /\ c.loaded.wrong[q] # 0 => \E m \in s..e : Lives(l, "wrong", q, m)

LoadedNow(c, r) ==
    /\ c.loaded.bank = r.bank
    /\ \A q \in Question : Unread(c, q) \/ c.loaded.question[q] = r.question[q]
    /\ c.pc = "saving" => c.loaded.wrong = r.wrong

Snapshot(c, s, e, l, r, o) ==
    /\ LoadedBanks(c, s, e, l) /\ LoadedQuestions(c, s, e, l) /\ LoadedLive(c, s, e, l)
    /\ ~o /\ e = s => LoadedNow(c, r)

CallAt(c, s, e, l, r, o) ==
    /\ Window(c, s)
    /\ c.pc \in {"pulling", "banks"} => c.loaded = NoRows
    /\ c.pc \in {"questions", "wrong", "saving"} => Snapshot(c, s, e, l, r, o)

Reading == {"pulling", "banks", "questions", "wrong", "saving"}
CallFollows(c, e, l, r, o) == c.pc \in Reading => \E s \in 0..e : CallAt(c, s, e, l, r, o)

ReaderState ==
    /\ RowsAt(rows, log, cursor)
    /\ ~overtaken => rows = Replay(log)[cursor]
    /\ \A t \in Task : CallFollows(task[t], cursor, log, rows, overtaken)

ReaderFollows == signOuts = 0 /\ ~pushed => ReaderState

\* A step of a call that leaves the log, the rows and the cursor alone.
LEMMA ReaderSteps ==
    ASSUME Base, ReaderState, NEW t \in Task, NEW c, Becomes(t, c),
           UNCHANGED <<log, rows, cursor, overtaken>>,
           CallFollows(c, cursor, log, rows, overtaken)
    PROVE  ReaderState'
  <1>1. task'[t] = c /\ \A u \in Task \ {t} : task'[u] = task[u]
    BY DEF Base, CacheTypeOK, Becomes
  <1>2. \A u \in Task : CallFollows(task'[u], cursor, log, rows, overtaken)
    BY <1>1 DEF ReaderState
  <1>. QED BY <1>2 DEF ReaderState

LEMMA ReaderEnds ==
    ASSUME Base, ReaderState, NEW t \in Task, Becomes(t, Idle),
           UNCHANGED <<log, rows, cursor, overtaken>>
    PROVE  ReaderState'
  <1>1. CallFollows(Idle, cursor, log, rows, overtaken)
    BY DEF CallFollows, Reading, Idle
  <1>. QED BY <1>1, ReaderSteps

LEMMA ReaderStartRefresh ==
    ASSUME Base, ReaderState, NEW t \in Task, StartRefresh(t)
    PROVE  ReaderState'
  <1>. DEFINE c == [Idle EXCEPT !.pc = "pulling", !.upTo = cursor]
  <1>1. /\ c.pc = "pulling" /\ c.upTo = cursor /\ c.got = {} /\ c.loaded = NoRows
        /\ cursor \in Nat
    BY DEF Idle, Base, CacheTypeOK
  <1>. HIDE DEF c
  <1>2. CallAt(c, cursor, cursor, log, rows, overtaken)
    BY <1>1 DEF CallAt, Window
  <1>3. CallFollows(c, cursor, log, rows, overtaken)
    BY <1>1, <1>2 DEF CallFollows
  <1>. QED BY <1>3, ReaderSteps DEF StartRefresh, c

LEMMA ReaderPull ==
    ASSUME Base, ReaderState, NEW t \in Task, Pull(t)
    PROVE  ReaderState'
  <1>. DEFINE last == PageEnd(task[t].upTo)
              got  == task[t].got \cup (task[t].upTo + 1..last)
              next == [task[t] EXCEPT !.got = got, !.upTo = last]
              on   == [next EXCEPT !.pc = "banks"]
              c    == IF last < Len(log) THEN next
                      ELSE IF got = {} THEN Idle
                      ELSE on
  <1>1. /\ task[t] \in Calls /\ log \in Seq(Operation)
        /\ task[t].upTo \in Nat /\ task[t].upTo <= Len(log) /\ cursor \in Nat
    BY DEF Base, CacheTypeOK, Calls, Pulled
  <1>2. last \in Nat /\ task[t].upTo <= last
    BY <1>1, PageEnds
  <1>3. task[t].pc = "pulling"
    BY DEF Pull
  <1>4. PICK s \in 0..cursor : CallAt(task[t], s, cursor, log, rows, overtaken)
    BY <1>3 DEF ReaderState, CallFollows, Reading
  <1>5. s <= last /\ got = s + 1..last /\ task[t].loaded = NoRows
    BY <1>1, <1>2, <1>3, <1>4 DEF CallAt, Window
  <1>6. Becomes(t, c)
    BY DEF Pull
  <1>. HIDE DEF last, got
  <1>7. /\ next.pc = "pulling" /\ next.upTo = last /\ next.got = got /\ next.loaded = NoRows
        /\ on.pc = "banks" /\ on.upTo = last /\ on.got = got /\ on.loaded = NoRows
    BY <1>1, <1>3, <1>5 DEF Calls
  <1>. HIDE DEF next, on
  <1>8. /\ CallAt(next, s, cursor, log, rows, overtaken)
        /\ CallAt(on, s, cursor, log, rows, overtaken)
    BY <1>5, <1>7 DEF CallAt, Window
  <1>9. Idle.pc \notin Reading
    BY DEF Idle, Reading
  <1>10. CallFollows(c, cursor, log, rows, overtaken)
    BY <1>8, <1>9 DEF CallFollows
  <1>. HIDE DEF c
  <1>. QED BY <1>6, <1>10, ReaderSteps DEF Pull

LEMMA ReaderStartPush ==
    ASSUME Base, ReaderState, NEW t \in Task, StartPush(t)
    PROVE  ReaderState'
  <1>1. PICK ops \in Mutations \cup NewBanks :
           /\ AwaitAnswer(ops)
           /\ Becomes(t, [Idle EXCEPT !.pc = "pushing", !.todo = ops,
                                      !.exclusive = ops \in NewBanks])
    BY DEF StartPush
  <1>. DEFINE c == [Idle EXCEPT !.pc = "pushing", !.todo = ops, !.exclusive = ops \in NewBanks]
  <1>2. c.pc \notin Reading
    BY DEF Reading, Idle
  <1>. HIDE DEF c
  <1>3. CallFollows(c, cursor, log, rows, overtaken)
    BY <1>2 DEF CallFollows
  <1>. QED BY <1>1, <1>3, ReaderSteps DEF StartPush, AwaitAnswer, c

\* The rows are those of the cursor: so is what is read of them.
LEMMA ReaderLoadBanks ==
    ASSUME Base, ReaderState, NEW t \in Task, LoadBanks(t)
    PROVE  ReaderState'
  <1>. DEFINE c == [task[t] EXCEPT !.pc = "questions", !.loaded.bank = rows.bank,
                                   !.left = {b \in Bank : rows.bank[b] # 0}]
              R == Replay(log)
  <1>1. /\ task[t] \in Calls /\ log \in Seq(Operation) /\ cursor \in Nat /\ cursor <= Len(log)
        /\ rows \in RowsT /\ task[t].pc = "banks"
    BY DEF Base, CacheTypeOK, LoadBanks
  <1>2. PICK s \in 0..cursor : CallAt(task[t], s, cursor, log, rows, overtaken)
    BY <1>1 DEF ReaderState, CallFollows, Reading
  <1>3. Window(task[t], s) /\ task[t].loaded = NoRows
    BY <1>1, <1>2 DEF CallAt
  <1>4. /\ c.pc = "questions" /\ c.upTo = task[t].upTo /\ c.got = task[t].got
        /\ c.loaded.bank = rows.bank
        /\ c.left = {b \in Bank : rows.bank[b] # 0}
        /\ \A q \in Question : c.loaded.question[q] = 0 /\ c.loaded.wrong[q] = 0
    BY <1>1, <1>3 DEF Calls, NoRows
  <1>. HIDE DEF c
  <1>5. \A q \in Question : R[cursor].question[q] # 0 => Unread(c, q)
    <2>1. \A q \in Question : BankOf[q] \in Bank
      BY ConstantAssumption DEF ConstantAssumption
    <2>2. cursor \in 0..Len(log)
      BY <1>1
    <2>3. \A q \in Question : R[cursor].question[q] # 0 => R[cursor].bank[BankOf[q]] # 0
      BY <2>2 DEF Base, ServerAt
    <2>4. rows.bank = R[cursor].bank
      BY DEF ReaderState, RowsAt
    <2>. HIDE DEF R
    <2>. QED BY <1>4, <2>1, <2>3, <2>4 DEF Unread
  <1>6. cursor \in s..cursor
    BY <1>1
  <1>7. LoadedBanks(c, s, cursor, log)
    BY <1>4, <1>6 DEF LoadedBanks, ReaderState, RowsAt
  <1>8. LoadedQuestions(c, s, cursor, log)
    BY <1>5, <1>6 DEF LoadedQuestions, Steady
  <1>9. LoadedLive(c, s, cursor, log)
    BY <1>4 DEF LoadedLive
  <1>10. ~overtaken => LoadedNow(c, rows)
    <2>1. ~overtaken => \A q \in Question : Unread(c, q) \/ c.loaded.question[q] = rows.question[q]
      BY <1>1, <1>4, <1>5 DEF ReaderState, RowsT
    <2>. QED BY <1>4, <2>1 DEF LoadedNow
  <1>11. CallAt(c, s, cursor, log, rows, overtaken)
    BY <1>3, <1>4, <1>7, <1>8, <1>9, <1>10 DEF CallAt, Window, Snapshot
  <1>12. CallFollows(c, cursor, log, rows, overtaken)
    BY <1>11 DEF CallFollows
  <1>. QED BY <1>12, ReaderSteps DEF LoadBanks, c

LEMMA ReaderLoadQuestions ==
    ASSUME Base, ReaderState, NEW t \in Task, LoadQuestions(t)
    PROVE  ReaderState'
  <1>. DEFINE R == Replay(log)
  <1>1. /\ task[t] \in Calls /\ log \in Seq(Operation) /\ cursor \in Nat /\ cursor <= Len(log)
        /\ rows \in RowsT /\ task[t].pc = "questions"
    BY DEF Base, CacheTypeOK, LoadQuestions
  <1>2. PICK s \in 0..cursor : CallAt(task[t], s, cursor, log, rows, overtaken)
    BY <1>1 DEF ReaderState, CallFollows, Reading
  <1>3. Window(task[t], s) /\ Snapshot(task[t], s, cursor, log, rows, overtaken)
    BY <1>1, <1>2 DEF CallAt
  <1>4. ASSUME task[t].left = {}, Becomes(t, [task[t] EXCEPT !.pc = "wrong"])
        PROVE  ReaderState'
    <2>. DEFINE c == [task[t] EXCEPT !.pc = "wrong"]
    <2>1. /\ c.pc = "wrong" /\ c.upTo = task[t].upTo /\ c.got = task[t].got
          /\ c.loaded = task[t].loaded
      BY <1>1 DEF Calls
    <2>. HIDE DEF c
    <2>2. \A q \in Question : ~Unread(task[t], q)
      BY <1>4 DEF Unread
    <2>3. /\ LoadedBanks(c, s, cursor, log) /\ LoadedQuestions(c, s, cursor, log)
          /\ LoadedLive(c, s, cursor, log)
      BY <1>3, <2>1, <2>2 DEF Snapshot, LoadedBanks, LoadedQuestions, LoadedLive
    <2>4. LoadedNow(task[t], rows) => LoadedNow(c, rows)
      BY <2>1, <2>2 DEF LoadedNow
    <2>5. CallAt(c, s, cursor, log, rows, overtaken)
      BY <1>3, <2>1, <2>3, <2>4 DEF CallAt, Window, Snapshot
    <2>6. CallFollows(c, cursor, log, rows, overtaken)
      BY <2>5 DEF CallFollows
    <2>. QED BY <1>4, <2>6, ReaderSteps DEF LoadQuestions, c
  <1>5. ASSUME NEW b \in task[t].left,
               Becomes(t, [task[t] EXCEPT !.left = @ \ {b},
                   !.loaded.question = [q \in Question |->
                       IF BankOf[q] = b THEN rows.question[q] ELSE @[q]]])
        PROVE  ReaderState'
    <2>. DEFINE c == [task[t] EXCEPT !.left = @ \ {b},
                   !.loaded.question = [q \in Question |->
                       IF BankOf[q] = b THEN rows.question[q] ELSE @[q]]]
    <2>1. /\ c.pc = "questions" /\ c.upTo = task[t].upTo /\ c.got = task[t].got
          /\ c.loaded.bank = task[t].loaded.bank /\ c.loaded.wrong = task[t].loaded.wrong
          /\ c.left = task[t].left \ {b}
          /\ \A q \in Question : c.loaded.question[q]
                = IF BankOf[q] = b THEN rows.question[q] ELSE task[t].loaded.question[q]
      BY <1>1 DEF Calls, RowsT
    <2>. HIDE DEF c
    <2>2. \A q \in Question : BankOf[q] # b => (Unread(c, q) <=> Unread(task[t], q))
      BY <1>1, <2>1 DEF Unread
    <2>3. cursor \in s..cursor /\ s \in Nat
      BY <1>1
    <2>4. LoadedBanks(c, s, cursor, log)
      BY <1>3, <2>1 DEF Snapshot, LoadedBanks
    <2>5. LoadedQuestions(c, s, cursor, log)
      <3>1. SUFFICES ASSUME NEW q \in Question, R[s].question[q] # 0,
                            \A m \in s..cursor : R[m].question[q] = R[s].question[q]
                     PROVE  Unread(c, q) \/ c.loaded.question[q] = R[s].question[q]
        BY DEF LoadedQuestions, Steady
      <3>2. CASE BankOf[q] = b
        <4>1. R[cursor].question[q] = R[s].question[q]
          BY <2>3, <3>1
        <4>2. rows.question[q] = R[s].question[q]
          BY <3>1, <4>1 DEF ReaderState, RowsAt
        <4>. QED BY <2>1, <3>2, <4>2
      <3>3. CASE BankOf[q] # b
        <4>1. Unread(task[t], q) \/ task[t].loaded.question[q] = R[s].question[q]
          BY <1>3, <3>1 DEF Snapshot, LoadedQuestions, Steady
        <4>. QED BY <2>1, <2>2, <3>3, <4>1
      <3>. QED BY <3>2, <3>3
    <2>6. LoadedLive(c, s, cursor, log)
      <3>1. ASSUME NEW q \in Question, c.loaded.question[q] # 0
            PROVE  \E m \in s..cursor : Lives(log, "question", q, m)
        <4>1. CASE BankOf[q] = b
          <5>1. Lives(log, "question", q, cursor)
            BY <2>1, <3>1, <4>1 DEF ReaderState, RowsAt
          <5>. QED BY <2>3, <5>1
        <4>2. CASE BankOf[q] # b
          BY <1>3, <2>1, <3>1, <4>2 DEF Snapshot, LoadedLive
        <4>. QED BY <4>1, <4>2
      <3>. QED BY <1>3, <2>1, <3>1 DEF Snapshot, LoadedLive
    <2>7. LoadedNow(task[t], rows) => LoadedNow(c, rows)
      BY <2>1, <2>2 DEF LoadedNow
    <2>8. CallAt(c, s, cursor, log, rows, overtaken)
      BY <1>3, <2>1, <2>4, <2>5, <2>6, <2>7 DEF CallAt, Window, Snapshot
    <2>9. CallFollows(c, cursor, log, rows, overtaken)
      BY <2>8 DEF CallFollows
    <2>. QED BY <1>5, <2>9, ReaderSteps DEF LoadQuestions, c
  <1>. QED BY <1>4, <1>5 DEF LoadQuestions

LEMMA ReaderLoadWrong ==
    ASSUME Base, ReaderState, NEW t \in Task, LoadWrong(t)
    PROVE  ReaderState'
  <1>. DEFINE c == [task[t] EXCEPT !.pc = "saving", !.loaded.wrong = rows.wrong]
  <1>1. /\ task[t] \in Calls /\ cursor \in Nat /\ rows \in RowsT /\ task[t].pc = "wrong"
    BY DEF Base, CacheTypeOK, LoadWrong
  <1>2. PICK s \in 0..cursor : CallAt(task[t], s, cursor, log, rows, overtaken)
    BY <1>1 DEF ReaderState, CallFollows, Reading
  <1>3. Window(task[t], s) /\ Snapshot(task[t], s, cursor, log, rows, overtaken)
    BY <1>1, <1>2 DEF CallAt
  <1>4. /\ c.pc = "saving" /\ c.upTo = task[t].upTo /\ c.got = task[t].got
        /\ c.loaded.bank = task[t].loaded.bank /\ c.loaded.question = task[t].loaded.question
        /\ c.loaded.wrong = rows.wrong
    BY <1>1 DEF Calls, RowsT
  <1>. HIDE DEF c
  <1>5. cursor \in s..cursor
    BY <1>1
  <1>6. \A q \in Question : ~Unread(task[t], q)
    BY <1>1 DEF Unread
  <1>7. LoadedBanks(c, s, cursor, log) /\ LoadedQuestions(c, s, cursor, log)
    BY <1>3, <1>4, <1>6 DEF Snapshot, LoadedBanks, LoadedQuestions
  <1>8. LoadedLive(c, s, cursor, log)
    BY <1>3, <1>4, <1>5 DEF Snapshot, LoadedLive, ReaderState, RowsAt
  <1>9. LoadedNow(task[t], rows) => LoadedNow(c, rows)
    BY <1>4, <1>6 DEF LoadedNow
  <1>10. CallAt(c, s, cursor, log, rows, overtaken)
    BY <1>3, <1>4, <1>7, <1>8, <1>9 DEF CallAt, Window, Snapshot
  <1>11. CallFollows(c, cursor, log, rows, overtaken)
    BY <1>10 DEF CallFollows
  <1>. QED BY <1>11, ReaderSteps DEF LoadWrong, c

\* What the device has is of positions that a longer log leaves as they were.
LEMMA ReaderOtherDevice ==
    ASSUME Base, ReaderState, OtherDevice
    PROVE  ReaderState'
  <1>. DEFINE R == Replay(log)
  <1>1. PICK op \in Operation : Accept(<<op>>)
    BY DEF OtherDevice
  <1>2. log \in Seq(Operation) /\ log' \in Seq(Operation) /\ Extends(log, log')
    <2>1. <<op>> \in Seq(Operation)
      OBVIOUS
    <2>. QED BY <1>1, <2>1, Accepting DEF Base, CacheTypeOK
  <1>3. cursor \in 0..Len(log) /\ cursor \in Nat
    BY DEF Base, CacheTypeOK
  <1>4. \A m \in 0..cursor : Replay(log')[m] = R[m]
    BY <1>2, <1>3, ReplayStays
  <1>5. \A m \in 0..cursor : \A kind, id : Lives(log', kind, id, m) <=> Lives(log, kind, id, m)
    BY <1>2, <1>3, LivesStays
  <1>. HIDE DEF R
  <1>6. cursor \in 0..cursor
    BY <1>3
  <1>7. RowsAt(rows, log', cursor)
    BY <1>4, <1>5, <1>6 DEF RowsAt, ReaderState, R
  <1>8. ~overtaken => rows = Replay(log')[cursor]
    BY <1>4, <1>6 DEF ReaderState, R
  <1>9. ASSUME NEW u \in Task PROVE CallFollows(task[u], cursor, log', rows, overtaken)
    <2>. DEFINE c == task[u]
    <2>. HIDE DEF c
    <2>1. SUFFICES ASSUME c.pc \in Reading
                   PROVE  \E s \in 0..cursor : CallAt(c, s, cursor, log', rows, overtaken)
      BY DEF CallFollows, c
    <2>2. PICK s \in 0..cursor : CallAt(c, s, cursor, log, rows, overtaken)
      BY <2>1 DEF ReaderState, CallFollows, c
    <2>3. \A m \in s..cursor : m \in 0..cursor
      BY <1>3
    <2>4. s \in s..cursor
      BY <1>3
    <2>5. LoadedBanks(c, s, cursor, log) => LoadedBanks(c, s, cursor, log')
      BY <1>4, <2>3 DEF LoadedBanks, R
    <2>6. LoadedQuestions(c, s, cursor, log) => LoadedQuestions(c, s, cursor, log')
      BY <1>4, <2>3, <2>4 DEF LoadedQuestions, Steady, R
    <2>7. LoadedLive(c, s, cursor, log) => LoadedLive(c, s, cursor, log')
      BY <1>5, <2>3 DEF LoadedLive
    <2>8. CallAt(c, s, cursor, log', rows, overtaken)
      BY <2>2, <2>5, <2>6, <2>7 DEF CallAt, Snapshot
    <2>. QED BY <2>8
  <1>. QED BY <1>7, <1>8, <1>9 DEF ReaderState, OtherDevice

\* A page that ends behind the cursor is applied to a snapshot of rows between
\* its beginning and the cursor, and leaves the rows of its end.
LEMMA ReaderSave ==
    ASSUME Base, ReaderState, NEW t \in Task, Save(t)
    PROVE  ReaderState'
  <1>. DEFINE R == Replay(log)
              c == task[t]
              u == task[t].upTo
  <1>1. /\ c \in Calls /\ log \in Seq(Operation) /\ cursor \in Nat /\ cursor <= Len(log)
        /\ c.loaded \in RowsT /\ u \in Nat /\ u <= Len(log) /\ c.pc = "saving" /\ rows \in RowsT
    BY DEF Base, CacheTypeOK, Pulled, Calls, Save
  <1>2. CASE ~ShouldReplace(cursor, u)
    BY <1>2, ReaderEnds DEF Save
  <1>3. CASE ShouldReplace(cursor, u)
    <2>1. /\ cursor < u /\ cursor' = u /\ rows' = ApplyOrdered(c.loaded, c.got)
          /\ overtaken' = (overtaken \/ c.got # cursor + 1..u) /\ log' = log
          /\ Becomes(t, Idle)
      BY <1>3 DEF Save, ShouldReplace
    <2>2. PICK s \in 0..cursor : CallAt(c, s, cursor, log, rows, overtaken)
      BY <1>1 DEF ReaderState, CallFollows, Reading
    <2>3. s <= u /\ c.got = s + 1..u /\ Snapshot(c, s, cursor, log, rows, overtaken)
      BY <1>1, <2>2 DEF CallAt, Window
    <2>4. /\ s \in Nat /\ s <= cursor /\ cursor \in s..u /\ u \in 0..Len(log)
          /\ \A m \in s..cursor : m \in s..u
      BY <1>1, <2>1
    <2>. HIDE DEF R, c, u
    <2>5. PICK f : Continues(f, c.loaded, s, u, log) /\ rows' = f[u]
      <3>1. PICK f : /\ Continues(f, c.loaded, s, u, log)
                     /\ ApplyOrdered(c.loaded, s + 1..u) = f[u]
        BY <1>1, <2>3, <2>4, PageContinues
      <3>. QED BY <2>1, <2>3, <3>1
    <2>6. f[u] \in RowsT /\ R[u] \in RowsT
      BY <1>1, <2>4, <2>5, ReplayIs DEF Continues, R
    <2>7. f[u].bank = R[u].bank
      <3>1. ASSUME NEW b \in Bank PROVE f[u].bank[b] = R[u].bank[b]
        <4>1. PICK m \in s..u : c.loaded.bank[b] = Replay(log)[m].bank[b]
          BY <2>3, <2>4 DEF Snapshot, LoadedBanks
        <4>. QED BY <1>1, <2>3, <2>4, <2>5, <4>1, BanksSaved DEF R
      <3>. QED BY <2>6, <3>1 DEF RowsT
    <2>8. ASSUME NEW q \in Question, R[u].question[q] # 0
          PROVE  f[u].question[q] = R[u].question[q]
      <3>1. Banked(log, q)
        BY DEF Base, ServerAt, Banked
      <3>2. ~Unread(c, q)
        BY <1>1 DEF Unread
      <3>3. Steady(log, q, s, cursor) => c.loaded.question[q] = Replay(log)[s].question[q]
        BY <2>3, <3>2 DEF Snapshot, LoadedQuestions
      <3>4. Replay(log)[u].question[q] # 0
        BY <2>8 DEF R
      <3>. QED BY <1>1, <2>3, <2>4, <2>5, <3>1, <3>3, <3>4, QuestionsSaved DEF R
    <2>9. ASSUME NEW q \in Question
          PROVE  /\ f[u].question[q] # 0 => Lives(log, "question", q, u)
                 /\ f[u].wrong[q] # 0 => Lives(log, "wrong", q, u)
      <3>1. /\ c.loaded.question[q] # 0 => \E m \in s..u : Lives(log, "question", q, m)
            /\ c.loaded.wrong[q] # 0 => \E m \in s..u : Lives(log, "wrong", q, m)
        BY <2>3, <2>4 DEF Snapshot, LoadedLive
      <3>. QED BY <1>1, <2>3, <2>4, <2>5, <3>1, OnlyLiveSaved
    <2>10. RowsAt(f[u], log, u)
      BY <2>7, <2>8, <2>9 DEF RowsAt, R
    <2>11. ASSUME ~overtaken' PROVE f[u] = R[u]
      <3>1. ~overtaken /\ s + 1..u = cursor + 1..u
        BY <2>1, <2>3, <2>11
      <3>2. s + 1 \in s + 1..u
        BY <1>1, <2>1, <2>4
      <3>3. cursor = s
        BY <1>1, <2>4, <3>1, <3>2
      <3>4. LoadedNow(c, rows)
        BY <2>3, <3>1, <3>3 DEF Snapshot
      <3>5. \A q \in Question : ~Unread(c, q)
        BY <1>1 DEF Unread
      <3>6. c.loaded = rows
        <4>1. /\ c.loaded.bank = rows.bank /\ c.loaded.wrong = rows.wrong
              /\ \A q \in Question : c.loaded.question[q] = rows.question[q]
          BY <1>1, <3>4, <3>5 DEF LoadedNow
        <4>2. c.loaded.question = rows.question
          BY <1>1, <4>1 DEF RowsT
        <4>3. /\ c.loaded = [bank |-> c.loaded.bank, question |-> c.loaded.question,
                             wrong |-> c.loaded.wrong]
              /\ rows = [bank |-> rows.bank, question |-> rows.question, wrong |-> rows.wrong]
          BY <1>1 DEF RowsT
        <4>. QED BY <4>1, <4>2, <4>3
      <3>7. c.loaded = Replay(log)[s]
        BY <3>1, <3>3, <3>6 DEF ReaderState
      <3>. QED BY <1>1, <2>3, <2>4, <2>5, <3>7, AllSaved DEF R
    <2>12. ASSUME NEW v \in Task PROVE CallFollows(task'[v], u, log, rows', overtaken')
      <3>1. task'[t] = Idle /\ \A w \in Task \ {t} : task'[w] = task[w]
        BY <2>1 DEF Base, CacheTypeOK, Becomes
      <3>2. CASE v = t
        BY <3>1, <3>2 DEF CallFollows, Reading, Idle
      <3>3. CASE v # t
        <4>. DEFINE d == task[v]
        <4>1. task'[v] = d /\ CallFollows(d, cursor, log, rows, overtaken)
          BY <3>1, <3>3 DEF ReaderState
        <4>. HIDE DEF d
        <4>2. SUFFICES ASSUME d.pc \in Reading
                       PROVE  \E i \in 0..u : CallAt(d, i, u, log, rows', overtaken')
          BY <4>1 DEF CallFollows
        <4>3. PICK i \in 0..cursor : CallAt(d, i, cursor, log, rows, overtaken)
          BY <4>1, <4>2 DEF CallFollows
        <4>4. i \in 0..u /\ u # i /\ \A m \in i..cursor : m \in i..u
          BY <1>1, <2>1
        <4>5. LoadedBanks(d, i, cursor, log) => LoadedBanks(d, i, u, log)
          BY <4>4 DEF LoadedBanks
        <4>6. LoadedQuestions(d, i, cursor, log) => LoadedQuestions(d, i, u, log)
          BY <4>4 DEF LoadedQuestions, Steady
        <4>7. LoadedLive(d, i, cursor, log) => LoadedLive(d, i, u, log)
          BY <4>4 DEF LoadedLive
        <4>8. CallAt(d, i, u, log, rows', overtaken')
          BY <4>3, <4>4, <4>5, <4>6, <4>7 DEF CallAt, Snapshot
        <4>. QED BY <4>4, <4>8
      <3>. QED BY <3>2, <3>3
    <2>. QED BY <2>1, <2>5, <2>10, <2>11, <2>12 DEF ReaderState, R
  <1>. QED BY <1>2, <1>3

\* A device without rows, at the beginning of an empty log.
LEMMA ReaderInit == Init => ReaderFollows
  <1>. SUFFICES ASSUME Init PROVE ReaderState
    BY DEF ReaderFollows
  <1>1. log \in Seq(Operation) /\ cursor = 0 /\ rows = NoRows
    BY DEF Init
  <1>2. Replay(log)[0] = NoRows
    BY <1>1, ReplayIs
  <1>3. RowsAt(rows, log, cursor)
    BY <1>1, <1>2 DEF RowsAt, NoRows
  <1>4. \A t \in Task : CallFollows(task[t], cursor, log, rows, overtaken)
    BY DEF Init, CallFollows, Reading, Idle
  <1>. QED BY <1>1, <1>2, <1>3, <1>4 DEF ReaderState

\* A mutation or a sign-out ends the reading; every other step keeps it.
LEMMA ReaderNext == Base /\ ReaderFollows /\ [Next]_vars => ReaderFollows'
  <1>. SUFFICES ASSUME Base, ReaderFollows, [Next]_vars, signOuts' = 0, ~pushed'
                PROVE  ReaderState'
    BY DEF ReaderFollows
  <1>1. CASE UNCHANGED vars
    <2>1. ReaderState
      BY <1>1 DEF vars, ReaderFollows
    <2>. QED BY <1>1, <2>1 DEF vars, ReaderState
  <1>2. ASSUME NEW t \in Task,
               \/ StartRefresh(t) \/ Pull(t) \/ StartPush(t)
               \/ LoadBanks(t) \/ LoadQuestions(t) \/ LoadWrong(t) \/ Save(t) \/ Fail(t)
        PROVE  ReaderState'
    <2>1. ReaderState
      BY <1>2 DEF ReaderFollows, StartRefresh, Pull, StartPush, LoadBanks, LoadQuestions,
                  LoadWrong, Save, Fail
    <2>2. Fail(t) => ReaderState'
      BY <2>1, ReaderEnds DEF Fail
    <2>. QED BY <1>2, <2>1, <2>2, ReaderStartRefresh, ReaderPull, ReaderStartPush,
             ReaderLoadBanks, ReaderLoadQuestions, ReaderLoadWrong, ReaderSave
  <1>3. \A t \in Task : ~Push(t)
    BY DEF Push
  <1>4. CASE OtherDevice
    BY <1>4, ReaderOtherDevice DEF OtherDevice, ReaderFollows
  <1>5. ~SignOut
    BY DEF SignOut, Base, CacheTypeOK
  <1>6. ~ClearAccountTextCache /\ ~ClearFails /\ ~SignIn
    <2>1. signOuts' = signOuts => session = "in"
      BY DEF Base
    <2>. QED BY <2>1 DEF ClearAccountTextCache, ClearFails, SignIn
  <1>. QED BY <1>1, <1>2, <1>3, <1>4, <1>5, <1>6 DEF Next

\* Whatever refreshes race: the invariant of a device that only reads.
THEOREM ReaderInvariant == Spec => [](Base /\ ReaderFollows)
  BY BaseInit, BaseNext, ReaderInit, ReaderNext, PTL DEF Spec

\* Such a device has every bank and every question of the log up to its cursor,
\* and nothing else unless a refresh was overtaken (refresh, replacePage).
THEOREM ReadersAreConsistent == Spec => []ReaderIsConsistent
  <1>1. ASSUME Base, ReaderFollows PROVE ReaderIsConsistent
    <2>1. log \in Seq(Operation) /\ cursor \in 0..Len(log)
      BY <1>1 DEF Base, CacheTypeOK
    <2>2. ApplyOrdered(NoRows, 1..cursor) = Replay(log)[cursor]
      BY <2>1, Current
    <2>. QED BY <1>1, <2>2 DEF ReaderIsConsistent, ReaderFollows, ReaderState, RowsAt
  <1>. QED BY <1>1, ReaderInvariant, PTL

\* Up to date, it shows the server's banks, and no row that the server deleted
\* (applyOperation on the device, materialize on the server).
THEOREM ReadersShowTheServer == Spec => []ReaderShowsServerRows
  <1>1. ASSUME Base, ReaderFollows PROVE ReaderShowsServerRows
    <2>1. SUFFICES ASSUME signOuts = 0, ~pushed, cursor = Len(log)
                   PROVE  /\ \A b \in Bank : rows.bank[b] # 0 <=> tables.bank[b] = "live"
                          /\ \A q \in Question :
                                /\ rows.question[q] # 0 =>
                                      /\ tables.question[q] = "live"
                                      /\ ~overtaken => tables.bank[BankOf[q]] = "live"
                                /\ rows.wrong[q] # 0 => tables.wrong[q] = "live"
      BY DEF ReaderShowsServerRows
    <2>2. /\ ReaderState /\ ServerAt(log, tables, cursor) /\ cursor \in 0..cursor
      BY <1>1, <2>1 DEF Base, CacheTypeOK, ReaderFollows
    <2>3. \A q \in Question : BankOf[q] \in Bank
      BY ConstantAssumption DEF ConstantAssumption
    <2>. QED BY <2>2, <2>3 DEF ReaderState, RowsAt, ServerAt
  <1>. QED BY <1>1, ReaderInvariant, PTL
=============================================================================
