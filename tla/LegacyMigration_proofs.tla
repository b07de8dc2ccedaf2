------------------------ MODULE LegacyMigration_proofs ------------------------
(***************************************************************************)
(* For every set of accounts, every plan and any number of faults and of   *)
(* edits elsewhere: the legacy text reaches the claimant's log only, and a *)
(* completed migration is whole.                                           *)
(***************************************************************************)
EXTENDS LegacyMigration, WellFoundedInduction, TLAPS

(* The types.                                                              *)
Owner == Account \cup {Nobody}
States == [owner : Owner, stage : {"unclaimed", "uploading", "verifying", "failed",
               "completed"},
           acked : SUBSET Bank, verified : SUBSET Bank, rebound : SUBSET Bank]
Runs == [at : {"idle", "upload", "ack", "pull", "verify", "rebind"}, st : States, base : States,
         batch : Nat, snap : SUBSET Bank, end : Nat]

MigrationTypeOK ==
    /\ user \in Owner /\ wandering \in BOOLEAN
    /\ saved \in States /\ run \in Runs
    /\ cloud \in [Account -> [Bank -> SUBSET Batch]]
    /\ version \in [Account -> Nat]
    /\ wholeAt \in [Account -> [Bank -> Nat]]
    /\ cursor \in [Account -> Nat]
    /\ bound \in [Account -> SUBSET Bank]
    /\ faults \in Nat /\ edits \in Nat

(* A run is the claimant's, and works on what was saved.                   *)
RunIsTheClaimants ==
    /\ run.at # "idle" =>
          /\ saved.owner # Nobody /\ run.st = saved /\ run.base.owner = saved.owner
          /\ saved.stage # "completed"
          /\ run.base.rebound \subseteq saved.rebound
          /\ run.base.verified \subseteq saved.verified
          /\ ~wandering => user = saved.owner
    /\ run.at = "upload" => run.batch \in Batch
    /\ run.at = "ack" => Undone(saved.acked) # {}
    /\ run.at = "rebind" => saved.verified = Bank

(* The log's sequences: a bank that is whole has been whole.               *)
LogAgrees ==
    \A a \in Account, b \in Bank :
        /\ cloud[a][b] = Batch => wholeAt[a][b] # 0
        /\ wholeAt[a][b] <= version[a]

(* Who is not the claimant has nothing.                                    *)
OnlyTheClaimant ==
    \A a \in Account : a # saved.owner =>
        /\ bound[a] = {}
        /\ ~wandering \/ saved.owner = Nobody => \A b \in Bank : cloud[a][b] = {}

(* What is verified was whole in the claimant's log at the pull, and the   *)
(* cache is not behind it once it is written.                              *)
Covered(a, seq) == \A b \in Bank : wholeAt[a][b] <= seq
CacheCovers(a) == cursor[a] = 0 \/ Covered(a, cursor[a])
VerifiedIsWhole ==
    saved.owner # Nobody /\ ~wandering =>
        /\ \A b \in saved.verified : wholeAt[saved.owner][b] # 0
        /\ run.at = "verify" =>
              /\ \A b \in run.snap : wholeAt[saved.owner][b] # 0
              /\ Covered(saved.owner, run.end)
        /\ run.at = "rebind" \/ saved.stage = "completed" => CacheCovers(saved.owner)

(* What is rebound is bound, and all of it in the end.                     *)
ReboundIsBound ==
    saved.owner # Nobody =>
        /\ saved.rebound \subseteq bound[saved.owner]
        /\ saved.stage = "completed" => saved.rebound = Bank /\ saved.verified = Bank

(* The inductive invariant.                                                *)
MInv ==
    /\ MigrationTypeOK
    /\ RunIsTheClaimants
    /\ LogAgrees
    /\ OnlyTheClaimant
    /\ VerifiedIsWhole
    /\ ReboundIsBound
-----------------------------------------------------------------------------

\* The first bank of some is one of them.
LEMMA FirstOfSome ==
    ASSUME NEW set, set \subseteq Bank, set # {}
    PROVE  First(set) \in set
  <1>1. set \subseteq Nat
    BY DEF Bank
  <1>. DEFINE R == {ss \in Nat \X Nat : ss[1] < ss[2]}
  <1>2. IsWellFoundedOn(R, Nat)
    BY NatLessThanWellFounded DEF OpToRel
  <1>3. \A x \in Nat, y \in Nat : <<y, x>> \in R <=> y < x
    OBVIOUS
  <1>. HIDE DEF R
  <1>4. PICK x \in set : \A y \in set : <<y, x>> \notin R
    BY <1>1, <1>2, WFMin
  <1>5. ASSUME NEW y \in set PROVE x <= y
    <2>1. x \in Nat /\ y \in Nat
      BY <1>1
    <2>2. ~(y < x)
      BY <1>3, <1>4, <2>1, Zenon
    <2>. QED BY <2>1, <2>2
  <1>. QED BY <1>5 DEF First

\* There is a state before the claim, and a run that waits.
LEMMA Beginnings ==
    /\ Unclaimed \in States /\ Waiting \in Runs /\ Waiting.at = "idle" /\ Waiting.batch = 1
    /\ Unclaimed.owner = Nobody /\ Unclaimed.stage = "unclaimed"
    /\ Unclaimed.verified = {} /\ Unclaimed.rebound = {}
    /\ Nobody \notin Account /\ Batch # {} /\ 1 \in Batch
  <1>1. Unclaimed \in States
    BY DEF Unclaimed, States, Owner
  <1>2. Waiting \in Runs /\ Waiting.at = "idle" /\ Waiting.batch = 1
    BY <1>1 DEF Waiting, Runs
  <1>3. Batch # {} /\ 1 \in Batch
    BY PlanAssumption DEF Batch
  <1>. QED BY <1>1, <1>2, <1>3, AccountAssumption DEF Unclaimed

\* The two ways a run ends before it is complete.
LEMMA EndsEarly ==
    ASSUME MInv, run.at # "idle", run' = Waiting,
           \/ saved' = [run.base EXCEPT !.stage = "failed"]
           \/ saved' = saved
    PROVE  /\ saved' \in States /\ run' \in Runs /\ run'.at = "idle"
           /\ saved'.owner = saved.owner /\ saved.owner # Nobody
           /\ saved'.stage # "completed"
           /\ saved'.verified \subseteq saved.verified
           /\ saved'.rebound \subseteq saved.rebound
  BY Beginnings DEF MInv, MigrationTypeOK, RunIsTheClaimants, Runs, States
-----------------------------------------------------------------------------

\* Each action keeps the invariant, from the claim to the completion.
\* Claim keeps it.
LEMMA ClaimKeeps ==
    ASSUME MInv, Claim
    PROVE  MInv'
  <1>1. /\ user # Nobody /\ saved.owner = Nobody
        /\ saved' = [Unclaimed EXCEPT !.owner = user, !.stage = "uploading"]
        /\ UNCHANGED <<user, wandering, run, cloud, version, wholeAt, cursor, bound, faults,
                       edits>>
    BY DEF Claim, log, textCache, mutators
  <1>2. /\ saved' \in States /\ saved'.owner = user /\ saved'.stage = "uploading"
        /\ saved'.verified = {} /\ saved'.rebound = {}
    BY <1>1, Beginnings DEF MInv, MigrationTypeOK, States, Unclaimed
  <1>3. MigrationTypeOK'
    BY <1>1, <1>2, Beginnings DEF MInv, MigrationTypeOK, States, Runs, Owner
  <1>4. RunIsTheClaimants'
    BY <1>1, <1>2, Beginnings DEF MInv, RunIsTheClaimants
  <1>5. LogAgrees'
    BY <1>1, <1>2, Beginnings DEF MInv, LogAgrees
  <1>6. OnlyTheClaimant'
    BY <1>1, <1>2, Beginnings DEF MInv, OnlyTheClaimant, MigrationTypeOK, Owner
  <1>7. VerifiedIsWhole'
    BY <1>1, <1>2, Beginnings DEF MInv, VerifiedIsWhole, CacheCovers, Covered, RunIsTheClaimants
  <1>8. ReboundIsBound'
    BY <1>1, <1>2, Beginnings DEF MInv, ReboundIsBound
  <1>. QED BY <1>3, <1>4, <1>5, <1>6, <1>7, <1>8 DEF MInv

\* Run keeps it.
LEMMA RunKeeps ==
    ASSUME MInv, Run
    PROVE  MInv'
  <1>1. /\ run.at = "idle" /\ user = saved.owner /\ saved.owner # Nobody
        /\ saved.stage # "completed"
        /\ run' = [Waiting EXCEPT !.at = "upload", !.st = saved, !.base = saved]
        /\ UNCHANGED <<user, wandering, saved, cloud, version, wholeAt, cursor, bound, faults,
                       edits>>
    BY DEF Run, Runnable, log, textCache, mutators
  <1>2. /\ run' \in Runs /\ run'.at = "upload" /\ run'.st = saved /\ run'.base = saved
        /\ run'.batch \in Batch
    BY <1>1, Beginnings DEF MInv, MigrationTypeOK, Runs, Waiting
  <1>3. MigrationTypeOK'
    BY <1>1, <1>2 DEF MInv, MigrationTypeOK, States, Runs, Owner
  <1>4. RunIsTheClaimants'
    BY <1>1, <1>2 DEF MInv, RunIsTheClaimants
  <1>5. LogAgrees'
    BY <1>1, <1>2 DEF MInv, LogAgrees
  <1>6. OnlyTheClaimant'
    BY <1>1, <1>2 DEF MInv, OnlyTheClaimant
  <1>7. VerifiedIsWhole'
    BY <1>1, <1>2 DEF MInv, VerifiedIsWhole, CacheCovers, Covered
  <1>8. ReboundIsBound'
    BY <1>1, <1>2 DEF MInv, ReboundIsBound
  <1>. QED BY <1>3, <1>4, <1>5, <1>6, <1>7, <1>8 DEF MInv

\* SignOut keeps it.
LEMMA SignOutKeeps ==
    ASSUME MInv, SignOut
    PROVE  MInv'
  <1>1. /\ user # Nobody /\ user' = Nobody /\ (run.at = "idle" \/ wandering)
        /\ cursor' = [cursor EXCEPT ![user] = 0] /\ faults' \in Nat
        /\ UNCHANGED <<wandering, saved, run, cloud, version, wholeAt, bound, edits>>
    BY DEF SignOut, Faulty, MInv, MigrationTypeOK, log, textCache, mutators
  <1>2. /\ cursor' \in [Account -> Nat]
        /\ \A a \in Account : cursor'[a] = cursor[a] \/ cursor'[a] = 0
    BY <1>1 DEF MInv, MigrationTypeOK
  <1>3. MigrationTypeOK'
    BY <1>1, <1>2, Beginnings DEF MInv, MigrationTypeOK, States, Runs, Owner
  <1>4. RunIsTheClaimants'
    BY <1>1, <1>2, Beginnings DEF MInv, RunIsTheClaimants
  <1>5. LogAgrees'
    BY <1>1, <1>2, Beginnings DEF MInv, LogAgrees
  <1>6. OnlyTheClaimant'
    BY <1>1, <1>2, Beginnings DEF MInv, OnlyTheClaimant
  <1>7. VerifiedIsWhole'
    BY <1>1, <1>2, Beginnings DEF MInv, VerifiedIsWhole, CacheCovers, Covered, MigrationTypeOK,
       Owner, States
  <1>8. ReboundIsBound'
    BY <1>1, <1>2, Beginnings DEF MInv, ReboundIsBound
  <1>. QED BY <1>3, <1>4, <1>5, <1>6, <1>7, <1>8 DEF MInv

\* SignIn keeps it.
LEMMA SignInKeeps ==
    ASSUME MInv, SignIn
    PROVE  MInv'
  <1>1. /\ user = Nobody /\ user' \in Account
        /\ UNCHANGED <<wandering, saved, run, cloud, version, wholeAt, cursor, bound, faults,
                       edits>>
    BY DEF SignIn, log, textCache, mutators
  <1>2. MigrationTypeOK'
    BY <1>1, Beginnings DEF MInv, MigrationTypeOK, States, Runs, Owner
  <1>3. RunIsTheClaimants'
    BY <1>1, Beginnings DEF MInv, RunIsTheClaimants
  <1>4. LogAgrees'
    BY <1>1, Beginnings DEF MInv, LogAgrees
  <1>5. OnlyTheClaimant'
    BY <1>1, Beginnings DEF MInv, OnlyTheClaimant
  <1>6. VerifiedIsWhole'
    BY <1>1, Beginnings DEF MInv, VerifiedIsWhole, CacheCovers, Covered
  <1>7. ReboundIsBound'
    BY <1>1, Beginnings DEF MInv, ReboundIsBound
  <1>. QED BY <1>2, <1>3, <1>4, <1>5, <1>6, <1>7 DEF MInv

\* Refresh keeps it.
LEMMA RefreshKeeps ==
    ASSUME MInv, Refresh
    PROVE  MInv'
  <1>1. /\ user # Nobody /\ cursor' = [cursor EXCEPT ![user] = version[user]]
        /\ UNCHANGED <<user, wandering, saved, run, cloud, version, wholeAt, bound, faults,
                       edits>>
    BY DEF Refresh, log, textCache, mutators
  <1>2. /\ cursor' \in [Account -> Nat]
        /\ \A a \in Account : cursor'[a] = cursor[a] \/ cursor'[a] = version[a]
    BY <1>1, Beginnings DEF MInv, MigrationTypeOK, Owner
  <1>3. MigrationTypeOK'
    BY <1>1, <1>2, Beginnings DEF MInv, MigrationTypeOK, States, Runs, Owner
  <1>4. RunIsTheClaimants'
    BY <1>1, <1>2, Beginnings DEF MInv, RunIsTheClaimants
  <1>5. LogAgrees'
    BY <1>1, <1>2, Beginnings DEF MInv, LogAgrees
  <1>6. OnlyTheClaimant'
    BY <1>1, <1>2, Beginnings DEF MInv, OnlyTheClaimant
  <1>7. VerifiedIsWhole'
    BY <1>1, <1>2, Beginnings DEF MInv, VerifiedIsWhole, CacheCovers, Covered, MigrationTypeOK,
       Owner, States, LogAgrees
  <1>8. ReboundIsBound'
    BY <1>1, <1>2, Beginnings DEF MInv, ReboundIsBound
  <1>. QED BY <1>3, <1>4, <1>5, <1>6, <1>7, <1>8 DEF MInv

\* Mutate keeps it.
LEMMA MutateKeeps ==
    ASSUME MInv, Mutate
    PROVE  MInv'
  <1>1. /\ user # Nobody
        /\ version' = [version EXCEPT ![user] = @ + 1]
        /\ cursor' = [cursor EXCEPT ![user] = version'[user]]
        /\ UNCHANGED <<user, wandering, saved, run, cloud, wholeAt, bound, faults, edits>>
    BY DEF Mutate
  <1>2. /\ version' \in [Account -> Nat] /\ cursor' \in [Account -> Nat]
        /\ \A a \in Account : /\ version'[a] >= version[a]
                              /\ cursor'[a] = cursor[a] \/ cursor'[a] = version'[a]
    BY <1>1, Beginnings DEF MInv, MigrationTypeOK, Owner
  <1>3. MigrationTypeOK'
    BY <1>1, <1>2 DEF MInv, MigrationTypeOK, States, Runs, Owner
  <1>4. RunIsTheClaimants'
    BY <1>1, <1>2 DEF MInv, RunIsTheClaimants
  <1>5. LogAgrees'
    BY <1>1, <1>2 DEF MInv, LogAgrees, MigrationTypeOK
  <1>6. OnlyTheClaimant'
    BY <1>1, <1>2 DEF MInv, OnlyTheClaimant
  <1>7. VerifiedIsWhole'
    <2>1. ASSUME NEW a \in Account, CacheCovers(a) PROVE CacheCovers(a)'
      BY <1>1, <1>2, <1>5, <2>1 DEF LogAgrees, CacheCovers, Covered
    <2>2. saved.owner # Nobody => saved.owner \in Account
      BY DEF MInv, MigrationTypeOK, States, Owner
    <2>. QED BY <1>1, <2>1, <2>2 DEF MInv, VerifiedIsWhole, Covered
  <1>8. ReboundIsBound'
    BY <1>1, <1>2 DEF MInv, ReboundIsBound
  <1>. QED BY <1>3, <1>4, <1>5, <1>6, <1>7, <1>8 DEF MInv

\* OtherDeviceEdits keeps it.
LEMMA OtherDeviceEditsKeeps ==
    ASSUME MInv, NEW a \in Account, NEW b \in Bank, NEW batch \in Batch,
           OtherDeviceEdits(a, b, batch)
    PROVE  MInv'
  <1>1. /\ edits' = edits + 1
        /\ cloud' = [cloud EXCEPT ![a][b] = @ \ {batch}]
        /\ version' = [version EXCEPT ![a] = @ + 1]
        /\ UNCHANGED <<user, wandering, saved, run, wholeAt, cursor, bound, faults>>
    BY DEF OtherDeviceEdits, textCache
  <1>2. /\ cloud' \in [Account -> [Bank -> SUBSET Batch]] /\ version' \in [Account -> Nat]
        /\ \A c \in Account, d \in Bank : cloud'[c][d] \in {cloud[c][d], cloud[c][d] \ {batch}}
        /\ \A c \in Account : version'[c] >= version[c]
    BY <1>1 DEF MInv, MigrationTypeOK
  <1>3. MigrationTypeOK'
    BY <1>1, <1>2 DEF MInv, MigrationTypeOK, States, Runs, Owner
  <1>4. RunIsTheClaimants'
    BY <1>1, <1>2 DEF MInv, RunIsTheClaimants
  <1>5. LogAgrees'
    BY <1>1, <1>2 DEF MInv, LogAgrees, MigrationTypeOK
  <1>6. OnlyTheClaimant'
    BY <1>1, <1>2 DEF MInv, OnlyTheClaimant
  <1>7. VerifiedIsWhole'
    BY <1>1, <1>2 DEF MInv, VerifiedIsWhole, CacheCovers, Covered
  <1>8. ReboundIsBound'
    BY <1>1, <1>2 DEF MInv, ReboundIsBound
  <1>. QED BY <1>3, <1>4, <1>5, <1>6, <1>7, <1>8 DEF MInv

\* NoToken keeps it.
LEMMA NoTokenKeeps ==
    ASSUME MInv, NoToken
    PROVE  MInv'
  <1>1. /\ run.at # "idle" /\ run' = Waiting /\ faults' \in Nat
        /\ saved' = [run.base EXCEPT !.stage = "failed"] \/ saved' = saved
        /\ UNCHANGED <<user, wandering, cloud, version, wholeAt, cursor, bound, edits>>
    BY DEF NoToken, MarkFailed, Faulty, MInv, MigrationTypeOK, log, textCache, mutators
  <1>2. /\ saved' \in States /\ run' \in Runs /\ run'.at = "idle"
        /\ saved'.owner = saved.owner /\ saved.owner # Nobody
        /\ saved'.stage # "completed"
        /\ saved'.verified \subseteq saved.verified
        /\ saved'.rebound \subseteq saved.rebound
    BY <1>1, EndsEarly
  <1>3. MigrationTypeOK'
    BY <1>1, <1>2 DEF MInv, MigrationTypeOK, States, Runs, Owner
  <1>4. RunIsTheClaimants'
    BY <1>1, <1>2 DEF MInv, RunIsTheClaimants
  <1>5. LogAgrees'
    BY <1>1, <1>2 DEF MInv, LogAgrees
  <1>6. OnlyTheClaimant'
    BY <1>1, <1>2 DEF MInv, OnlyTheClaimant
  <1>7. VerifiedIsWhole'
    BY <1>1, <1>2 DEF MInv, VerifiedIsWhole, CacheCovers, Covered, MigrationTypeOK
  <1>8. ReboundIsBound'
    BY <1>1, <1>2 DEF MInv, ReboundIsBound
  <1>. QED BY <1>3, <1>4, <1>5, <1>6, <1>7, <1>8 DEF MInv

\* Throw keeps it.
LEMMA ThrowKeeps ==
    ASSUME MInv, Throw
    PROVE  MInv'
  <1>1. /\ run.at # "idle" /\ run' = Waiting /\ faults' \in Nat
        /\ saved' = [run.base EXCEPT !.stage = "failed"] \/ saved' = saved
        /\ UNCHANGED <<user, wandering, cloud, version, wholeAt, cursor, bound, edits>>
    BY DEF Throw, MarkFailed, Faulty, MInv, MigrationTypeOK, log, textCache, mutators
  <1>2. /\ saved' \in States /\ run' \in Runs /\ run'.at = "idle"
        /\ saved'.owner = saved.owner /\ saved.owner # Nobody
        /\ saved'.stage # "completed"
        /\ saved'.verified \subseteq saved.verified
        /\ saved'.rebound \subseteq saved.rebound
    BY <1>1, EndsEarly
  <1>3. MigrationTypeOK'
    BY <1>1, <1>2 DEF MInv, MigrationTypeOK, States, Runs, Owner
  <1>4. RunIsTheClaimants'
    BY <1>1, <1>2 DEF MInv, RunIsTheClaimants
  <1>5. LogAgrees'
    BY <1>1, <1>2 DEF MInv, LogAgrees
  <1>6. OnlyTheClaimant'
    BY <1>1, <1>2 DEF MInv, OnlyTheClaimant
  <1>7. VerifiedIsWhole'
    BY <1>1, <1>2 DEF MInv, VerifiedIsWhole, CacheCovers, Covered, MigrationTypeOK
  <1>8. ReboundIsBound'
    BY <1>1, <1>2 DEF MInv, ReboundIsBound
  <1>. QED BY <1>3, <1>4, <1>5, <1>6, <1>7, <1>8 DEF MInv

\* Interrupt keeps it.
LEMMA InterruptKeeps ==
    ASSUME MInv, Interrupt
    PROVE  MInv'
  <1>1. /\ run.at # "idle" /\ run' = Waiting /\ faults' \in Nat
        /\ saved' = [run.base EXCEPT !.stage = "failed"] \/ saved' = saved
        /\ UNCHANGED <<user, wandering, cloud, version, wholeAt, cursor, bound, edits>>
    BY DEF Interrupt, MarkFailed, Faulty, MInv, MigrationTypeOK, log, textCache, mutators
  <1>2. /\ saved' \in States /\ run' \in Runs /\ run'.at = "idle"
        /\ saved'.owner = saved.owner /\ saved.owner # Nobody
        /\ saved'.stage # "completed"
        /\ saved'.verified \subseteq saved.verified
        /\ saved'.rebound \subseteq saved.rebound
    BY <1>1, EndsEarly
  <1>3. MigrationTypeOK'
    BY <1>1, <1>2 DEF MInv, MigrationTypeOK, States, Runs, Owner
  <1>4. RunIsTheClaimants'
    BY <1>1, <1>2 DEF MInv, RunIsTheClaimants
  <1>5. LogAgrees'
    BY <1>1, <1>2 DEF MInv, LogAgrees
  <1>6. OnlyTheClaimant'
    BY <1>1, <1>2 DEF MInv, OnlyTheClaimant
  <1>7. VerifiedIsWhole'
    BY <1>1, <1>2 DEF MInv, VerifiedIsWhole, CacheCovers, Covered, MigrationTypeOK
  <1>8. ReboundIsBound'
    BY <1>1, <1>2 DEF MInv, ReboundIsBound
  <1>. QED BY <1>3, <1>4, <1>5, <1>6, <1>7, <1>8 DEF MInv

\* PushBatch keeps it.
LEMMA PushBatchKeeps ==
    ASSUME MInv, PushBatch
    PROVE  MInv'
  <1>. DEFINE b == First(Undone(run.st.acked))
  <1>1. /\ run.at = "upload" /\ Undone(run.st.acked) # {} /\ user # Nobody
        /\ cloud' = [cloud EXCEPT ![user][b] = @ \cup {run.batch}]
        /\ version' = [version EXCEPT ![user] = @ + 1]
        /\ wholeAt' = IF cloud'[user][b] = Batch /\ wholeAt[user][b] = 0
                      THEN [wholeAt EXCEPT ![user][b] = version'[user]] ELSE wholeAt
        /\ UNCHANGED <<user, wandering, cursor, bound, edits>>
    BY DEF PushBatch, mutators
  <1>2. b \in Bank /\ user \in Account
    BY <1>1, FirstOfSome DEF MInv, MigrationTypeOK, Owner, Undone
  <1>. HIDE DEF b
  <1>3. run.batch \in Batch
    BY <1>1 DEF MInv, RunIsTheClaimants
  <1>4. /\ cloud' \in [Account -> [Bank -> SUBSET Batch]]
        /\ \A a \in Account, d \in Bank : a # user \/ d # b => cloud'[a][d] = cloud[a][d]
    BY <1>1, <1>2, <1>3 DEF MInv, MigrationTypeOK
  <1>5. /\ version' \in [Account -> Nat] /\ version'[user] = version[user] + 1
        /\ \A a \in Account : version'[a] >= version[a]
    BY <1>1, <1>2 DEF MInv, MigrationTypeOK
  <1>6. /\ wholeAt' \in [Account -> [Bank -> Nat]]
        /\ \A a \in Account, d \in Bank :
              wholeAt'[a][d] = wholeAt[a][d] \/ (wholeAt[a][d] = 0 /\ wholeAt'[a][d] = version'[a])
        /\ cloud'[user][b] = Batch => wholeAt'[user][b] # 0
    BY <1>1, <1>2, <1>5 DEF MInv, MigrationTypeOK
  <1>7. \A a \in Account, d \in Bank : cloud'[a][d] = Batch => wholeAt'[a][d] # 0
    <2>. SUFFICES ASSUME NEW a \in Account, NEW d \in Bank, cloud'[a][d] = Batch
                  PROVE  wholeAt'[a][d] # 0
      OBVIOUS
    <2>1. CASE a = user /\ d = b
      BY <1>6, <2>1
    <2>2. CASE a # user \/ d # b
      <3>1. cloud[a][d] = Batch
        BY <1>4, <2>2
      <3>2. wholeAt[a][d] # 0
        BY <3>1 DEF MInv, LogAgrees
      <3>. QED BY <1>6, <3>2
    <2>. QED BY <2>1, <2>2
  <1>8. \/ /\ saved' = saved /\ faults' = faults
           /\ \/ run' = [run EXCEPT !.at = "ack"]
              \/ run' = [run EXCEPT !.batch = @ + 1] /\ run.batch # Batches
        \/ /\ faults' = faults + 1 /\ run' = Waiting
           /\ saved' = [run.base EXCEPT !.stage = "failed"]
    BY <1>1 DEF PushBatch, MarkFailed, Faulty, LastBatch
  <1>9. /\ saved' \in States /\ run' \in Runs /\ run'.at \in {"idle", "upload", "ack"}
        /\ saved'.owner = saved.owner /\ saved.owner # Nobody /\ saved'.stage # "completed"
        /\ saved'.verified \subseteq saved.verified /\ saved'.rebound \subseteq saved.rebound
        /\ run'.at # "idle" => saved' = saved /\ run'.st = run.st /\ run'.base = run.base
        /\ run'.at = "upload" => run'.batch \in Batch
        /\ faults' \in Nat
    <2>1. CASE run' = Waiting
      BY <1>1, <1>8, <2>1, EndsEarly, Beginnings DEF MInv, MigrationTypeOK, Runs
    <2>2. CASE run' # Waiting
      <3>1. /\ saved' = saved /\ faults' = faults
            /\ \/ run' = [run EXCEPT !.at = "ack"]
               \/ run' = [run EXCEPT !.batch = @ + 1] /\ run.batch # Batches
        BY <1>8, <2>2
      <3>2. run \in Runs /\ saved \in States /\ faults \in Nat
        BY DEF MInv, MigrationTypeOK
      <3>3. /\ run' \in Runs /\ run'.at \in {"upload", "ack"}
            /\ run'.st = run.st /\ run'.base = run.base
            /\ run'.at = "upload" => run'.batch \in Batch
        BY <1>1, <1>3, <3>1, <3>2, PlanAssumption DEF Runs, Batch
      <3>. QED BY <1>1, <3>1, <3>2, <3>3 DEF MInv, RunIsTheClaimants
    <2>. QED BY <2>1, <2>2
  <1>10. MigrationTypeOK'
    BY <1>1, <1>2, <1>4, <1>5, <1>6, <1>9 DEF MInv, MigrationTypeOK, States, Runs, Owner
  <1>11. RunIsTheClaimants'
    BY <1>1, <1>2, <1>4, <1>5, <1>6, <1>9 DEF MInv, RunIsTheClaimants
  <1>12. LogAgrees'
    <2>1. \A a \in Account, d \in Bank : wholeAt'[a][d] <= version'[a]
      <3>. SUFFICES ASSUME NEW a \in Account, NEW d \in Bank
                    PROVE  wholeAt'[a][d] <= version'[a]
        OBVIOUS
      <3>1. /\ wholeAt[a][d] \in Nat /\ version[a] \in Nat /\ version'[a] \in Nat
            /\ wholeAt[a][d] <= version[a] /\ version'[a] >= version[a]
        BY <1>5 DEF MInv, MigrationTypeOK, LogAgrees
      <3>. QED BY <1>6, <3>1
    <2>. QED BY <1>7, <2>1 DEF LogAgrees
  <1>13. OnlyTheClaimant'
    BY <1>1, <1>2, <1>4, <1>5, <1>6, <1>9 DEF MInv, OnlyTheClaimant, RunIsTheClaimants
  <1>14. VerifiedIsWhole'
    BY <1>1, <1>2, <1>4, <1>5, <1>6, <1>9 DEF MInv, VerifiedIsWhole, CacheCovers, Covered,
       MigrationTypeOK, RunIsTheClaimants
  <1>15. ReboundIsBound'
    BY <1>1, <1>2, <1>4, <1>5, <1>6, <1>9 DEF MInv, ReboundIsBound
  <1>. QED BY <1>10, <1>11, <1>12, <1>13, <1>14, <1>15 DEF MInv

\* Acknowledge keeps it.
LEMMA AcknowledgeKeeps ==
    ASSUME MInv, Acknowledge
    PROVE  MInv'
  <1>0. run \in Runs /\ saved \in States
    BY DEF MInv, MigrationTypeOK
  <1>. DEFINE st == [run.st EXCEPT !.acked = @ \cup {First(Undone(@))}]
  <1>1. /\ run.at = "ack" /\ saved' = st
        /\ run' = [run EXCEPT !.at = "upload", !.st = st, !.batch = 1]
        /\ UNCHANGED <<user, wandering, cloud, version, wholeAt, cursor, bound, faults, edits>>
    BY DEF Acknowledge, log, textCache, mutators
  <1>2. run.st = saved /\ 1 \in Batch
    BY <1>1, PlanAssumption DEF MInv, RunIsTheClaimants, Batch
  <1>3. st.owner = saved.owner /\ st.stage = saved.stage /\ st.verified = saved.verified
        /\ st.rebound = saved.rebound /\ st \in States
    <2>1. First(Undone(run.st.acked)) \in Bank
      BY <1>1, <1>2, FirstOfSome DEF MInv, RunIsTheClaimants, Undone
    <2>. QED BY <1>0, <1>2, <2>1 DEF States
  <1>. HIDE DEF st
  <1>4. /\ run' \in Runs /\ run'.at = "upload" /\ run'.st = st /\ run'.base = run.base
        /\ run'.batch = 1
    BY <1>0, <1>1, <1>3 DEF Runs
  <1>5. MigrationTypeOK'
    BY <1>0, <1>1, <1>2, <1>3, <1>4 DEF MInv, MigrationTypeOK, States, Runs, Owner
  <1>6. RunIsTheClaimants'
    BY <1>0, <1>1, <1>2, <1>3, <1>4 DEF MInv, RunIsTheClaimants
  <1>7. LogAgrees'
    BY <1>0, <1>1, <1>2, <1>3, <1>4 DEF MInv, LogAgrees
  <1>8. OnlyTheClaimant'
    BY <1>0, <1>1, <1>2, <1>3, <1>4 DEF MInv, OnlyTheClaimant
  <1>9. VerifiedIsWhole'
    BY <1>0, <1>1, <1>2, <1>3, <1>4 DEF MInv, VerifiedIsWhole, CacheCovers, Covered,
       MigrationTypeOK, RunIsTheClaimants
  <1>10. ReboundIsBound'
    BY <1>0, <1>1, <1>2, <1>3, <1>4 DEF MInv, ReboundIsBound
  <1>. QED BY <1>5, <1>6, <1>7, <1>8, <1>9, <1>10 DEF MInv

\* Uploaded keeps it.
LEMMA UploadedKeeps ==
    ASSUME MInv, Uploaded
    PROVE  MInv'
  <1>0. run \in Runs /\ saved \in States
    BY DEF MInv, MigrationTypeOK
  <1>. DEFINE st == [run.st EXCEPT !.stage = "verifying"]
  <1>1. /\ run.at = "upload" /\ saved' = st
        /\ run' = [run EXCEPT !.at = "pull", !.st = st, !.base = st]
        /\ UNCHANGED <<user, wandering, cloud, version, wholeAt, cursor, bound, faults, edits>>
    BY DEF Uploaded, log, textCache, mutators
  <1>2. run.st = saved
    BY <1>1 DEF MInv, RunIsTheClaimants
  <1>3. st.owner = saved.owner /\ st.stage = "verifying" /\ st.verified = saved.verified
        /\ st.rebound = saved.rebound /\ st \in States
    BY <1>0, <1>2 DEF States
  <1>. HIDE DEF st
  <1>4. /\ run' \in Runs /\ run'.at = "pull" /\ run'.st = st /\ run'.base = st
    BY <1>0, <1>1, <1>3 DEF Runs
  <1>5. MigrationTypeOK'
    BY <1>0, <1>1, <1>2, <1>3, <1>4 DEF MInv, MigrationTypeOK, States, Runs, Owner
  <1>6. RunIsTheClaimants'
    BY <1>0, <1>1, <1>2, <1>3, <1>4 DEF MInv, RunIsTheClaimants
  <1>7. LogAgrees'
    BY <1>0, <1>1, <1>2, <1>3, <1>4 DEF MInv, LogAgrees
  <1>8. OnlyTheClaimant'
    BY <1>0, <1>1, <1>2, <1>3, <1>4 DEF MInv, OnlyTheClaimant
  <1>9. VerifiedIsWhole'
    BY <1>0, <1>1, <1>2, <1>3, <1>4 DEF MInv, VerifiedIsWhole, CacheCovers, Covered,
       MigrationTypeOK, RunIsTheClaimants
  <1>10. ReboundIsBound'
    BY <1>0, <1>1, <1>2, <1>3, <1>4 DEF MInv, ReboundIsBound
  <1>. QED BY <1>5, <1>6, <1>7, <1>8, <1>9, <1>10 DEF MInv

\* Pull keeps it.
LEMMA PullKeeps ==
    ASSUME MInv, Pull
    PROVE  MInv'
  <1>0. run \in Runs /\ saved \in States
    BY DEF MInv, MigrationTypeOK
  <1>1. /\ run.at = "pull" /\ user # Nobody
        /\ run' = [run EXCEPT !.at = "verify", !.end = version[user],
                              !.snap = {b \in Bank : cloud[user][b] = Batch}]
        /\ UNCHANGED <<user, wandering, saved, cloud, version, wholeAt, cursor, bound, faults,
                       edits>>
    BY DEF Pull, log, textCache, mutators
  <1>2. user \in Account /\ version[user] \in Nat
    BY <1>1 DEF MInv, MigrationTypeOK, Owner
  <1>3. /\ run' \in Runs /\ run'.at = "verify" /\ run'.st = run.st /\ run'.base = run.base
        /\ run'.end = version[user] /\ run'.snap = {b \in Bank : cloud[user][b] = Batch}
    BY <1>0, <1>1, <1>2 DEF Runs
  <1>4. \A b \in run'.snap : wholeAt[user][b] # 0
    BY <1>2, <1>3 DEF MInv, LogAgrees
  <1>5. Covered(user, run'.end)
    BY <1>2, <1>3 DEF MInv, LogAgrees, Covered
  <1>6. MigrationTypeOK'
    BY <1>0, <1>1, <1>2, <1>3, <1>4, <1>5 DEF MInv, MigrationTypeOK, States, Runs, Owner
  <1>7. RunIsTheClaimants'
    BY <1>0, <1>1, <1>2, <1>3, <1>4, <1>5 DEF MInv, RunIsTheClaimants
  <1>8. LogAgrees'
    BY <1>0, <1>1, <1>2, <1>3, <1>4, <1>5 DEF MInv, LogAgrees
  <1>9. OnlyTheClaimant'
    BY <1>0, <1>1, <1>2, <1>3, <1>4, <1>5 DEF MInv, OnlyTheClaimant
  <1>10. VerifiedIsWhole'
    BY <1>0, <1>1, <1>2, <1>3, <1>4, <1>5 DEF MInv, VerifiedIsWhole, CacheCovers, Covered,
       MigrationTypeOK, RunIsTheClaimants
  <1>11. ReboundIsBound'
    BY <1>0, <1>1, <1>2, <1>3, <1>4, <1>5 DEF MInv, ReboundIsBound
  <1>. QED BY <1>6, <1>7, <1>8, <1>9, <1>10, <1>11 DEF MInv

\* Verify keeps it.
LEMMA VerifyKeeps ==
    ASSUME MInv, Verify
    PROVE  MInv'
  <1>0. run \in Runs /\ saved \in States
    BY DEF MInv, MigrationTypeOK
  <1>. DEFINE b == First(Undone(run.st.verified))
  <1>. DEFINE st == [run.st EXCEPT !.verified = @ \cup {b}]
  <1>1. /\ run.at = "verify" /\ Undone(run.st.verified) # {}
        /\ IF b \in run.snap THEN saved' = st /\ run' = [run EXCEPT !.at = "verify", !.st = st]
           ELSE saved' = [run.base EXCEPT !.stage = "failed"] /\ run' = Waiting
        /\ UNCHANGED <<user, wandering, cloud, version, wholeAt, cursor, bound, faults, edits>>
    BY DEF Verify, SameText, SaveState, MarkFailed, log, textCache, mutators
  <1>2. run.st = saved /\ b \in Bank
    BY <1>1, FirstOfSome DEF MInv, RunIsTheClaimants, Undone
  <1>3. CASE b \notin run.snap
    <2>1. /\ saved' \in States /\ run' \in Runs /\ run'.at = "idle"
          /\ saved'.owner = saved.owner /\ saved.owner # Nobody
          /\ saved'.stage # "completed"
          /\ saved'.verified \subseteq saved.verified
          /\ saved'.rebound \subseteq saved.rebound
      BY <1>1, <1>3, EndsEarly
    <2>. QED BY <1>1, <2>1 DEF MInv, MigrationTypeOK, RunIsTheClaimants, LogAgrees,
         OnlyTheClaimant, VerifiedIsWhole, CacheCovers, Covered, ReboundIsBound
  <1>4. CASE b \in run.snap
    <2>1. st.owner = saved.owner /\ st.stage = saved.stage /\ st.verified = saved.verified \cup {b}
          /\ st.rebound = saved.rebound /\ st \in States
      BY <1>0, <1>2 DEF States
    <2>2. saved' = st /\ run' = [run EXCEPT !.at = "verify", !.st = st]
      BY <1>1, <1>4
    <2>. HIDE DEF st, b
    <2>3. /\ run' \in Runs /\ run'.at = "verify" /\ run'.st = st /\ run'.base = run.base
          /\ run'.snap = run.snap /\ run'.end = run.end
      BY <1>0, <2>1, <2>2 DEF Runs
    <2>4. MigrationTypeOK' /\ LogAgrees' /\ OnlyTheClaimant'
      BY <1>1, <2>1, <2>2, <2>3 DEF MInv, MigrationTypeOK, LogAgrees, OnlyTheClaimant
    <2>5. RunIsTheClaimants' /\ ReboundIsBound'
      BY <1>1, <1>2, <2>1, <2>2, <2>3 DEF MInv, RunIsTheClaimants, ReboundIsBound
    <2>6. VerifiedIsWhole'
      BY <1>1, <1>2, <1>4, <2>1, <2>2, <2>3 DEF MInv, RunIsTheClaimants, VerifiedIsWhole,
         CacheCovers, Covered
    <2>. QED BY <2>4, <2>5, <2>6 DEF MInv
  <1>. QED BY <1>3, <1>4

\* WriteCache keeps it.
LEMMA WriteCacheKeeps ==
    ASSUME MInv, WriteCache
    PROVE  MInv'
  <1>0. run \in Runs /\ saved \in States
    BY DEF MInv, MigrationTypeOK
  <1>1. /\ run.at = "verify" /\ Undone(run.st.verified) = {}
        /\ cursor' = IF run.end > cursor[run.st.owner]
                     THEN [cursor EXCEPT ![run.st.owner] = run.end] ELSE cursor
        /\ run' = [run EXCEPT !.at = "rebind"]
        /\ UNCHANGED <<user, wandering, saved, cloud, version, wholeAt, bound, faults, edits>>
    BY DEF WriteCache, To, log, textCache, mutators
  <1>2. run.st = saved /\ saved.owner \in Account /\ saved.verified = Bank
    BY <1>0, <1>1 DEF MInv, RunIsTheClaimants, States, Owner, Undone
  <1>3. /\ run' \in Runs /\ run'.at = "rebind" /\ run'.st = run.st /\ run'.base = run.base
    BY <1>0, <1>1 DEF Runs
  <1>4. cursor' \in [Account -> Nat] /\ run.end \in Nat /\ cursor'[saved.owner] >= run.end
    BY <1>0, <1>1, <1>2 DEF MInv, MigrationTypeOK, Runs
  <1>5. ~wandering => CacheCovers(saved.owner)'
    <2>1. ASSUME ~wandering,
                   NEW b \in Bank PROVE wholeAt[saved.owner][b] <= cursor'[saved.owner]
      <3>1. wholeAt[saved.owner][b] <= run.end
        BY <1>1, <1>2, <2>1 DEF MInv, RunIsTheClaimants, VerifiedIsWhole, Covered
      <3>2. wholeAt[saved.owner][b] \in Nat /\ cursor'[saved.owner] \in Nat
        BY <1>2, <1>4 DEF MInv, MigrationTypeOK
      <3>. QED BY <1>4, <3>1, <3>2
    <2>. QED BY <1>1, <2>1 DEF CacheCovers, Covered
  <1>6. MigrationTypeOK'
    BY <1>0, <1>1, <1>2, <1>3, <1>4, <1>5 DEF MInv, MigrationTypeOK, States, Runs, Owner
  <1>7. RunIsTheClaimants'
    BY <1>0, <1>1, <1>2, <1>3, <1>4, <1>5 DEF MInv, RunIsTheClaimants
  <1>8. LogAgrees'
    BY <1>0, <1>1, <1>2, <1>3, <1>4, <1>5 DEF MInv, LogAgrees
  <1>9. OnlyTheClaimant'
    BY <1>0, <1>1, <1>2, <1>3, <1>4, <1>5 DEF MInv, OnlyTheClaimant
  <1>10. VerifiedIsWhole'
    BY <1>1, <1>3, <1>5 DEF MInv, VerifiedIsWhole
  <1>11. ReboundIsBound'
    BY <1>0, <1>1, <1>2, <1>3, <1>4, <1>5 DEF MInv, ReboundIsBound
  <1>. QED BY <1>6, <1>7, <1>8, <1>9, <1>10, <1>11 DEF MInv

\* Rebind keeps it.
LEMMA RebindKeeps ==
    ASSUME MInv, Rebind
    PROVE  MInv'
  <1>0. run \in Runs /\ saved \in States
    BY DEF MInv, MigrationTypeOK
  <1>. DEFINE b == First(Undone(run.st.rebound))
  <1>. DEFINE st == [run.st EXCEPT !.rebound = @ \cup {b}]
  <1>1. /\ run.at = "rebind" /\ Undone(run.st.rebound) # {}
        /\ bound' = [bound EXCEPT ![run.st.owner] = @ \cup {b}]
        /\ saved' = st /\ run' = [run EXCEPT !.at = "rebind", !.st = st]
        /\ UNCHANGED <<user, wandering, cloud, version, wholeAt, cursor, faults, edits>>
    BY DEF Rebind, SaveState, log, textCache, mutators
  <1>2. run.st = saved /\ saved.owner \in Account /\ b \in Bank
    BY <1>0, <1>1, FirstOfSome DEF MInv, RunIsTheClaimants, States, Owner, Undone
  <1>3. st.owner = saved.owner /\ st.stage = saved.stage /\ st.verified = saved.verified
        /\ st.rebound = saved.rebound \cup {b} /\ st \in States
    BY <1>0, <1>2 DEF States
  <1>. HIDE DEF st, b
  <1>4. /\ run' \in Runs /\ run'.at = "rebind" /\ run'.st = st /\ run'.base = run.base
    BY <1>0, <1>1, <1>3 DEF Runs
  <1>5. /\ bound' \in [Account -> SUBSET Bank]
        /\ bound'[saved.owner] = bound[saved.owner] \cup {b}
        /\ \A a \in Account : a # saved.owner => bound'[a] = bound[a]
    BY <1>1, <1>2 DEF MInv, MigrationTypeOK
  <1>6. MigrationTypeOK'
    BY <1>0, <1>1, <1>2, <1>3, <1>4, <1>5 DEF MInv, MigrationTypeOK, States, Runs, Owner
  <1>7. RunIsTheClaimants'
    BY <1>0, <1>1, <1>2, <1>3, <1>4, <1>5 DEF MInv, RunIsTheClaimants
  <1>8. LogAgrees'
    BY <1>0, <1>1, <1>2, <1>3, <1>4, <1>5 DEF MInv, LogAgrees
  <1>9. OnlyTheClaimant'
    BY <1>0, <1>1, <1>2, <1>3, <1>4, <1>5 DEF MInv, OnlyTheClaimant
  <1>10. VerifiedIsWhole'
    BY <1>0, <1>1, <1>2, <1>3, <1>4, <1>5 DEF MInv, VerifiedIsWhole, CacheCovers, Covered,
       RunIsTheClaimants
  <1>11. ReboundIsBound'
    BY <1>0, <1>1, <1>2, <1>3, <1>4, <1>5 DEF MInv, ReboundIsBound
  <1>. QED BY <1>6, <1>7, <1>8, <1>9, <1>10, <1>11 DEF MInv

\* Complete keeps it.
LEMMA CompleteKeeps ==
    ASSUME MInv, Complete
    PROVE  MInv'
  <1>0. run \in Runs /\ saved \in States
    BY DEF MInv, MigrationTypeOK
  <1>1. /\ run.at = "rebind" /\ Undone(run.st.rebound) = {}
        /\ saved' = [run.st EXCEPT !.stage = "completed"] /\ run' = Waiting
        /\ UNCHANGED <<user, wandering, cloud, version, wholeAt, cursor, bound, faults, edits>>
    BY DEF Complete, log, textCache, mutators
  <1>2. /\ run.st = saved /\ saved.owner # Nobody /\ saved.rebound = Bank
        /\ saved.verified = Bank
    BY <1>0, <1>1 DEF MInv, RunIsTheClaimants, States, Undone
  <1>3. /\ saved' \in States /\ saved'.owner = saved.owner /\ saved'.stage = "completed"
        /\ saved'.verified = saved.verified /\ saved'.rebound = saved.rebound
        /\ run' \in Runs /\ run'.at = "idle"
    BY <1>0, <1>1, <1>2, Beginnings DEF States
  <1>4. MigrationTypeOK'
    BY <1>0, <1>1, <1>2, <1>3 DEF MInv, MigrationTypeOK, States, Runs, Owner
  <1>5. RunIsTheClaimants'
    BY <1>0, <1>1, <1>2, <1>3 DEF MInv, RunIsTheClaimants
  <1>6. LogAgrees'
    BY <1>0, <1>1, <1>2, <1>3 DEF MInv, LogAgrees
  <1>7. OnlyTheClaimant'
    BY <1>0, <1>1, <1>2, <1>3 DEF MInv, OnlyTheClaimant
  <1>8. VerifiedIsWhole'
    BY <1>0, <1>1, <1>2, <1>3 DEF MInv, VerifiedIsWhole, CacheCovers, Covered
  <1>9. ReboundIsBound'
    BY <1>0, <1>1, <1>2, <1>3 DEF MInv, ReboundIsBound
  <1>. QED BY <1>4, <1>5, <1>6, <1>7, <1>8, <1>9 DEF MInv

-----------------------------------------------------------------------------
\* It holds at the start ...
LEMMA InitOK == MigrationInit => MInv
  <1>. SUFFICES ASSUME MigrationInit PROVE MInv
    OBVIOUS
  <1>. USE DEF MigrationInit
  <1>1. MigrationTypeOK
    BY Beginnings DEF MigrationTypeOK, Owner
  <1>2. RunIsTheClaimants /\ OnlyTheClaimant /\ VerifiedIsWhole /\ ReboundIsBound
    BY Beginnings DEF RunIsTheClaimants, OnlyTheClaimant, VerifiedIsWhole, ReboundIsBound
  <1>3. LogAgrees
    BY Beginnings DEF LogAgrees
  <1>. QED BY <1>1, <1>2, <1>3 DEF MInv

\* ... and after every step.
LEMMA NextOK == MInv /\ [MigrationNext]_migrationVars => MInv'
  <1>. SUFFICES ASSUME MInv, [MigrationNext]_migrationVars PROVE MInv'
    OBVIOUS
  <1>1. CASE UNCHANGED migrationVars
    BY <1>1 DEF migrationVars, MInv, MigrationTypeOK, RunIsTheClaimants, LogAgrees,
       OnlyTheClaimant, VerifiedIsWhole, CacheCovers, Covered, ReboundIsBound
  <1>2. CASE Claim \/ Run \/ SignOut \/ SignIn \/ Refresh \/ Mutate \/ Throw
                \/ Interrupt
    BY <1>2, ClaimKeeps, RunKeeps, SignOutKeeps, SignInKeeps, RefreshKeeps, MutateKeeps,
       ThrowKeeps, InterruptKeeps
  <1>3. CASE RunStep
    BY <1>3, PushBatchKeeps, AcknowledgeKeeps, UploadedKeeps, PullKeeps, VerifyKeeps,
       WriteCacheKeeps, RebindKeeps, CompleteKeeps, NoTokenKeeps DEF RunStep
  <1>4. ASSUME NEW a \in Account, NEW b \in Bank, NEW batch \in Batch,
               OtherDeviceEdits(a, b, batch)
        PROVE  MInv'
    BY <1>4, OtherDeviceEditsKeeps
  <1>. QED BY <1>1, <1>2, <1>3, <1>4 DEF MigrationNext

\* The inductive invariant holds in every reachable state.
THEOREM InductiveInvariant == MigrationSpec => []MInv
  BY InitOK, NextOK, PTL DEF MigrationSpec

-----------------------------------------------------------------------------
(* The cache follows the log: a row that is in the log has its place, and, *)
(* as long as this device does not mutate, nothing behind the cursor is    *)
(* missed and a bank that was whole at the cursor is in the cache.         *)
Standings == {"none", "ahead", "cached", "missed"}
Placed == \A a \in Account, b \in Bank, k \in Batch :
              k \in cloud[a][b] \/ wholeAt[a][b] # 0 => held[a][b][k] # "none"
NothingMissed == mutations = 0 =>
    \A a \in Account, b \in Bank, k \in Batch : held[a][b][k] # "missed"
Behind == ~wandering =>
    /\ \A a \in Account : cursor[a] <= version[a]
    /\ run.at = "verify" => run.end <= version[saved.owner]
InCache == ~wandering /\ mutations = 0 =>
    \A a \in Account, b \in Bank, k \in Batch :
        wholeAt[a][b] # 0 /\ wholeAt[a][b] <= cursor[a] => held[a][b][k] = "cached"
CacheFollows ==
    /\ held \in [Account -> [Bank -> [Batch -> Standings]]] /\ mutations \in Nat
    /\ Placed /\ NothingMissed /\ Behind /\ InCache

\* What a change of an account's rows makes of each of them.
LEMMA Becoming ==
    ASSUME NEW a \in Account, NEW from, NEW to \in Standings,
           held \in [Account -> [Bank -> [Batch -> Standings]]], held' = Become(a, from, to)
    PROVE  /\ held' \in [Account -> [Bank -> [Batch -> Standings]]]
           /\ \A c \in Account \ {a} : held'[c] = held[c]
           /\ \A b \in Bank, k \in Batch :
                 held'[a][b][k] = IF held[a][b][k] \in from THEN to ELSE held[a][b][k]
  <1>. DEFINE rows == [b \in Bank |-> [k \in Batch |->
                          IF held[a][b][k] \in from THEN to ELSE held[a][b][k]]]
  <1>1. held' = [held EXCEPT ![a] = rows]
    BY DEF Become
  <1>2. \A b \in Bank, k \in Batch : held[a][b][k] \in Standings
    OBVIOUS
  <1>3. rows \in [Bank -> [Batch -> Standings]]
    BY <1>2
  <1>4. \A b \in Bank, k \in Batch :
            rows[b][k] = IF held[a][b][k] \in from THEN to ELSE held[a][b][k]
    OBVIOUS
  <1>. HIDE DEF rows
  <1>5. held'[a] = rows /\ held' \in [Account -> [Bank -> [Batch -> Standings]]]
        /\ \A c \in Account \ {a} : held'[c] = held[c]
    BY <1>1, <1>3
  <1>. QED BY <1>4, <1>5

\* Rows that keep their place, wherever it is, stay placed.
LEMMA StayPlaced ==
    ASSUME Placed, NEW a \in Account, cloud' = cloud, wholeAt' = wholeAt,
           \A c \in Account \ {a} : held'[c] = held[c],
           \A b \in Bank, k \in Batch : held[a][b][k] # "none" => held'[a][b][k] # "none"
    PROVE  Placed'
  <1>. SUFFICES ASSUME NEW c \in Account, NEW b \in Bank, NEW k \in Batch,
                       k \in cloud[c][b] \/ wholeAt[c][b] # 0
                PROVE  held'[c][b][k] # "none"
    BY DEF Placed
  <1>1. held[c][b][k] # "none"
    BY DEF Placed
  <1>2. CASE c = a
    BY <1>1, <1>2
  <1>3. CASE c # a
    BY <1>1, <1>3
  <1>. QED BY <1>2, <1>3

\* And nothing is missed that was not missed before.
LEMMA StayUnmissed ==
    ASSUME NothingMissed, NEW a \in Account, mutations' = mutations,
           \A c \in Account \ {a} : held'[c] = held[c],
           \A b \in Bank, k \in Batch : held[a][b][k] # "missed" => held'[a][b][k] # "missed"
    PROVE  NothingMissed'
  <1>. SUFFICES ASSUME mutations = 0, NEW c \in Account, NEW b \in Bank, NEW k \in Batch
                PROVE  held'[c][b][k] # "missed"
    BY DEF NothingMissed
  <1>1. held[c][b][k] # "missed"
    BY DEF NothingMissed
  <1>2. CASE c = a
    BY <1>1, <1>2
  <1>3. CASE c # a
    BY <1>1, <1>3
  <1>. QED BY <1>2, <1>3

\* The steps that leave log and cache alone.
LEMMA OthersFollow ==
    ASSUME MInv, CacheFollows, UNCHANGED <<log, textCache, mutations, wandering>>,
           run'.at = "verify" => run.at = "verify" /\ run'.end = run.end /\ saved'.owner = saved.owner
    PROVE  CacheFollows'
  BY DEF log, textCache, CacheFollows, Placed, NothingMissed, Behind, InCache

\* Signing out, a refresh and a mutation.
LEMMA UserFollows ==
    ASSUME MInv, CacheFollows, SignOut \/ Refresh \/ Mutate
    PROVE  CacheFollows'
  <1>. USE DEF MInv, MigrationTypeOK, CacheFollows
  <1>1. user \in Account /\ wandering' = wandering /\ cloud' = cloud /\ wholeAt' = wholeAt
        /\ run' = run /\ saved' = saved
    BY DEF SignOut, Refresh, Mutate, Owner, log
  <1>2. /\ \A a \in Account : version[a] \in Nat /\ cursor[a] \in Nat
        /\ \A a \in Account, b \in Bank : wholeAt[a][b] \in Nat /\ wholeAt[a][b] <= version[a]
    BY DEF LogAgrees
  <1>3. CASE SignOut
    <2>1. /\ cursor' = [cursor EXCEPT ![user] = 0] /\ held' = Become(user, {"cached", "missed"}, "ahead")
          /\ version' = version /\ mutations' = mutations
      BY <1>3 DEF SignOut, log, mutators
    <2>2. /\ held' \in [Account -> [Bank -> [Batch -> Standings]]]
          /\ \A c \in Account \ {user} : held'[c] = held[c]
          /\ \A b \in Bank, k \in Batch : held'[user][b][k] =
                IF held[user][b][k] \in {"cached", "missed"} THEN "ahead" ELSE held[user][b][k]
      BY <1>1, <2>1, Becoming DEF Standings
    <2>3. \A c \in Account : cursor'[c] = IF c = user THEN 0 ELSE cursor[c]
      BY <1>1, <2>1
    <2>4. Placed' /\ NothingMissed'
      <3>1. \A b \in Bank, k \in Batch :
                /\ held[user][b][k] # "none" => held'[user][b][k] # "none"
                /\ held[user][b][k] # "missed" => held'[user][b][k] # "missed"
        BY <2>2
      <3>2. Placed /\ NothingMissed
        OBVIOUS
      <3>. HIDE DEF MInv, MigrationTypeOK, CacheFollows
      <3>3. Placed'
        BY <1>1, <2>2, <3>1, <3>2, StayPlaced
      <3>4. NothingMissed'
        BY <1>1, <2>1, <2>2, <3>1, <3>2, StayUnmissed
      <3>. QED BY <3>3, <3>4
    <2>5. Behind'
      BY <1>1, <1>2, <2>1, <2>3 DEF Behind
    <2>6. InCache'
      BY <1>1, <1>2, <2>1, <2>2, <2>3 DEF InCache
    <2>. QED BY <2>1, <2>2, <2>4, <2>5, <2>6
  <1>4. CASE Refresh
    <2>1. /\ cursor' = [cursor EXCEPT ![user] = version[user]] /\ held' = Become(user, {"ahead"}, "cached")
          /\ version' = version /\ mutations' = mutations
      BY <1>4 DEF Refresh, log, mutators
    <2>2. /\ held' \in [Account -> [Bank -> [Batch -> Standings]]]
          /\ \A c \in Account \ {user} : held'[c] = held[c]
          /\ \A b \in Bank, k \in Batch : held'[user][b][k] =
                IF held[user][b][k] \in {"ahead"} THEN "cached" ELSE held[user][b][k]
      BY <1>1, <2>1, Becoming DEF Standings
    <2>3. \A c \in Account : cursor'[c] = IF c = user THEN version[c] ELSE cursor[c]
      BY <1>1, <2>1
    <2>4. Placed' /\ NothingMissed'
      <3>1. \A b \in Bank, k \in Batch :
                /\ held[user][b][k] # "none" => held'[user][b][k] # "none"
                /\ held[user][b][k] # "missed" => held'[user][b][k] # "missed"
        BY <2>2
      <3>2. Placed /\ NothingMissed
        OBVIOUS
      <3>. HIDE DEF MInv, MigrationTypeOK, CacheFollows
      <3>3. Placed'
        BY <1>1, <2>2, <3>1, <3>2, StayPlaced
      <3>4. NothingMissed'
        BY <1>1, <2>1, <2>2, <3>1, <3>2, StayUnmissed
      <3>. QED BY <3>3, <3>4
    <2>5. Behind'
      BY <1>1, <1>2, <2>1, <2>3 DEF Behind
    <2>6. InCache'
      <3>. SUFFICES ASSUME ~wandering, mutations = 0, NEW a \in Account, NEW b \in Bank, NEW k \in Batch,
                           wholeAt[a][b] # 0, wholeAt[a][b] <= cursor'[a]
                    PROVE  held'[a][b][k] = "cached"
        BY <1>1, <2>1 DEF InCache
      <3>1. CASE a # user
        BY <2>2, <2>3, <3>1 DEF InCache
      <3>2. CASE a = user
        <4>1. held[a][b][k] \in Standings /\ held[a][b][k] # "none" /\ held[a][b][k] # "missed"
          BY DEF Placed, NothingMissed
        <4>. QED BY <2>2, <3>2, <4>1 DEF Standings
      <3>. QED BY <3>1, <3>2
    <2>. QED BY <2>1, <2>2, <2>4, <2>5, <2>6
  <1>5. CASE Mutate
    <2>1. /\ version' = [version EXCEPT ![user] = @ + 1] /\ mutations' = mutations + 1
          /\ cursor' = [cursor EXCEPT ![user] = version'[user]]
          /\ held' = Become(user, {"ahead"}, "missed")
      BY <1>5 DEF Mutate
    <2>2. /\ held' \in [Account -> [Bank -> [Batch -> Standings]]]
          /\ \A c \in Account \ {user} : held'[c] = held[c]
          /\ \A b \in Bank, k \in Batch : held'[user][b][k] =
                IF held[user][b][k] \in {"ahead"} THEN "missed" ELSE held[user][b][k]
      BY <1>1, <2>1, Becoming DEF Standings
    <2>3. \A c \in Account : /\ cursor'[c] = IF c = user THEN version'[c] ELSE cursor[c]
                             /\ version'[c] = IF c = user THEN version[c] + 1 ELSE version[c]
      BY <1>1, <2>1
    <2>4. mutations' # 0 /\ mutations' \in Nat
      BY <2>1
    <2>5. Placed'
      <3>1. \A b \in Bank, k \in Batch : held[user][b][k] # "none" => held'[user][b][k] # "none"
        BY <2>2
      <3>2. Placed
        OBVIOUS
      <3>. HIDE DEF MInv, MigrationTypeOK, CacheFollows
      <3>. QED BY <1>1, <2>2, <3>1, <3>2, StayPlaced
    <2>6. NothingMissed' /\ InCache'
      BY <2>4 DEF NothingMissed, InCache
    <2>7. Behind'
      <3>1. run.at = "verify" => saved.owner \in Account /\ run.end \in Nat
        BY DEF RunIsTheClaimants, States, Owner, Runs
      <3>2. \A c \in Account : version'[c] \in Nat /\ version'[c] >= version[c]
        BY <1>2, <2>3
      <3>3. ~wandering => \A c \in Account : cursor'[c] <= version'[c]
        BY <1>2, <2>3, <3>2 DEF Behind
      <3>4. ~wandering /\ run.at = "verify" => run.end <= version'[saved.owner]
        BY <1>2, <3>1, <3>2 DEF Behind
      <3>. QED BY <1>1, <3>3, <3>4 DEF Behind
    <2>. QED BY <2>2, <2>4, <2>5, <2>6, <2>7
  <1>. QED BY <1>3, <1>4, <1>5

\* A push puts its batch ahead of the cursor, unless the row is there already.
LEMMA PushFollows ==
    ASSUME MInv, CacheFollows, PushBatch, MInv'
    PROVE  CacheFollows'
  <1>. USE DEF MigrationTypeOK, CacheFollows
  <1>. DEFINE b == First(Undone(run.st.acked))
  <1>1. /\ user # Nobody /\ run.at = "upload" /\ Undone(run.st.acked) # {}
        /\ cloud' = [cloud EXCEPT ![user][b] = @ \cup {run.batch}]
        /\ version' = [version EXCEPT ![user] = @ + 1]
        /\ wholeAt' = IF cloud'[user][b] = Batch /\ wholeAt[user][b] = 0
                      THEN [wholeAt EXCEPT ![user][b] = version'[user]] ELSE wholeAt
        /\ held' = [held EXCEPT ![user][b][run.batch] = IF @ = "cached" THEN @ ELSE "ahead"]
        /\ cursor' = cursor /\ mutations' = mutations /\ wandering' = wandering
        /\ run'.at # "verify"
    BY Beginnings DEF PushBatch, mutators, MarkFailed, MInv, Runs
  <1>2. b \in Bank /\ user \in Account /\ run.batch \in Batch
    BY <1>1, FirstOfSome DEF MInv, Owner, Undone, RunIsTheClaimants
  <1>. HIDE DEF b
  <1>. DEFINE k == run.batch
  <1>3. /\ held' \in [Account -> [Bank -> [Batch -> Standings]]]
        /\ \A c \in Account, d \in Bank, j \in Batch :
              held'[c][d][j] = IF c = user /\ d = b /\ j = k
                               THEN IF held[c][d][j] = "cached" THEN "cached" ELSE "ahead"
                               ELSE held[c][d][j]
    <2>1. held[user][b][k] \in Standings
      BY <1>2
    <2>. QED BY <1>1, <1>2, <2>1 DEF Standings
  <1>4. \A c \in Account, d \in Bank :
            cloud'[c][d] = IF c = user /\ d = b THEN cloud[c][d] \cup {k} ELSE cloud[c][d]
    BY <1>1, <1>2 DEF MInv
  <1>5. \A c \in Account : /\ version[c] \in Nat /\ cursor[c] \in Nat
                           /\ version'[c] = IF c = user THEN version[c] + 1 ELSE version[c]
    BY <1>1, <1>2 DEF MInv
  <1>6. \A c \in Account, d \in Bank :
            /\ wholeAt[c][d] \in Nat
            /\ wholeAt'[c][d] # wholeAt[c][d] =>
                  c = user /\ d = b /\ cloud'[c][d] = Batch /\ wholeAt'[c][d] = version'[c]
    BY <1>1, <1>2, <1>5 DEF MInv
  <1>7. Placed'
    <2>. SUFFICES ASSUME NEW c \in Account, NEW d \in Bank, NEW j \in Batch,
                         j \in cloud'[c][d] \/ wholeAt'[c][d] # 0
                  PROVE  held'[c][d][j] # "none"
      BY DEF Placed
    <2>1. CASE c = user /\ d = b /\ j = k
      BY <1>3, <2>1
    <2>2. CASE ~(c = user /\ d = b /\ j = k)
      <3>1. j \in cloud[c][d] \/ wholeAt[c][d] # 0
        <4>1. CASE j \in cloud'[c][d]
          BY <1>4, <2>2, <4>1
        <4>2. CASE j \notin cloud'[c][d]
          BY <1>6, <4>2
        <4>. QED BY <4>1, <4>2
      <3>. QED BY <1>3, <2>2, <3>1 DEF Placed
    <2>. QED BY <2>1, <2>2
  <1>8. NothingMissed'
    BY <1>1, <1>3 DEF NothingMissed
  <1>9. Behind'
    BY <1>1, <1>5 DEF Behind
  <1>10. InCache'
    <2>. SUFFICES ASSUME ~wandering, mutations = 0, NEW c \in Account, NEW d \in Bank, NEW j \in Batch,
                         wholeAt'[c][d] # 0, wholeAt'[c][d] <= cursor[c]
                  PROVE  held'[c][d][j] = "cached"
      BY <1>1 DEF InCache
    <2>1. wholeAt'[c][d] = wholeAt[c][d]
      BY <1>5, <1>6 DEF Behind
    <2>2. held[c][d][j] = "cached"
      BY <2>1 DEF InCache
    <2>. QED BY <1>3, <2>2
  <1>. QED BY <1>1, <1>3, <1>7, <1>8, <1>9, <1>10

\* The pull ends where the log does; the page that is saved has every bank.
LEMMA PageFollows ==
    ASSUME MInv, CacheFollows, Pull \/ WriteCache
    PROVE  CacheFollows'
  <1>. USE DEF MInv, MigrationTypeOK, CacheFollows
  <1>0. run \in Runs /\ saved \in States
    OBVIOUS
  <1>1. CASE Pull
    <2>1. /\ run'.end = version[user] /\ run.at = "pull" /\ saved' = saved /\ user # Nobody
          /\ UNCHANGED <<log, textCache, mutations, wandering>>
      BY <1>0, <1>1 DEF Pull, mutators, Runs
    <2>2. ~wandering => user = saved.owner
      BY <2>1 DEF RunIsTheClaimants
    <2>3. user \in Account /\ version[user] \in Nat
      BY <2>1 DEF Owner
    <2>4. Behind'
      BY <2>1, <2>2, <2>3 DEF Behind, log, textCache
    <2>. QED BY <2>1, <2>4 DEF log, textCache, Placed, NothingMissed, InCache
  <1>2. CASE WriteCache
    <2>1. /\ run.at = "verify" /\ run'.at = "rebind" /\ run.st = saved /\ saved.owner \in Account
          /\ UNCHANGED <<log, mutations, wandering>>
      BY <1>0, <1>2 DEF WriteCache, To, mutators, Runs, RunIsTheClaimants, States, Owner
    <2>2. CASE UNCHANGED textCache
      BY <2>1, <2>2, OthersFollow
    <2>3. CASE /\ run.end > cursor[saved.owner]
               /\ cursor' = [cursor EXCEPT ![saved.owner] = run.end]
               /\ held' = Become(saved.owner, {"none", "ahead", "missed"}, "cached")
      <3>1. /\ held' \in [Account -> [Bank -> [Batch -> Standings]]]
            /\ \A c \in Account \ {saved.owner} : held'[c] = held[c]
            /\ \A b \in Bank, k \in Batch : held'[saved.owner][b][k] =
                  IF held[saved.owner][b][k] \in {"none", "ahead", "missed"} THEN "cached"
                  ELSE held[saved.owner][b][k]
        BY <2>1, <2>3, Becoming DEF Standings
      <3>2. \A b \in Bank, k \in Batch : held'[saved.owner][b][k] = "cached"
        BY <2>1, <3>1 DEF Standings
      <3>3. \A c \in Account : cursor'[c] = IF c = saved.owner THEN run.end ELSE cursor[c]
        BY <2>1, <2>3
      <3>4. Placed' /\ NothingMissed'
        BY <2>1, <3>1, <3>2, StayPlaced, StayUnmissed DEF log
      <3>5. InCache'
        <4>. SUFFICES ASSUME ~wandering, mutations = 0,
                             NEW c \in Account, NEW b \in Bank, NEW k \in Batch,
                             wholeAt[c][b] # 0, wholeAt[c][b] <= cursor'[c]
                      PROVE  held'[c][b][k] = "cached"
          BY <2>1 DEF log, InCache
        <4>1. CASE c = saved.owner
          BY <3>2, <4>1
        <4>2. CASE c # saved.owner
          BY <3>1, <3>3, <4>2 DEF InCache
        <4>. QED BY <4>1, <4>2
      <3>6. Behind'
        BY <2>1, <3>3 DEF log, Behind
      <3>. QED BY <2>1, <3>1, <3>4, <3>5, <3>6
    <2>. QED BY <1>2, <2>1, <2>2, <2>3 DEF WriteCache
  <1>. QED BY <1>1, <1>2

\* An edit elsewhere comes after the cursor.
LEMMA EditFollows ==
    ASSUME MInv, CacheFollows, NEW a \in Account, NEW b \in Bank, NEW batch \in Batch,
           OtherDeviceEdits(a, b, batch)
    PROVE  CacheFollows'
  <1>. USE DEF MInv, MigrationTypeOK, CacheFollows
  <1>1. /\ cloud' = [cloud EXCEPT ![a][b] = @ \ {batch}]
        /\ version' = [version EXCEPT ![a] = @ + 1]
        /\ UNCHANGED <<wandering, saved, run, wholeAt, cursor, held, mutations>>
    BY DEF OtherDeviceEdits, textCache
  <1>2. /\ \A c \in Account, d \in Bank : cloud'[c][d] \subseteq cloud[c][d]
        /\ \A c \in Account : version[c] \in Nat /\ version'[c] \in Nat /\ version'[c] >= version[c]
    BY <1>1
  <1>3. Placed' /\ NothingMissed' /\ InCache'
    BY <1>1, <1>2 DEF Placed, NothingMissed, InCache
  <1>4. Behind'
    <2>1. run.at = "verify" => saved.owner \in Account /\ run.end \in Nat
      BY DEF RunIsTheClaimants, States, Owner, Runs
    <2>. QED BY <1>1, <1>2, <2>1 DEF Behind
  <1>. QED BY <1>1, <1>3, <1>4

\* The cache follows the log through every step.
LEMMA FollowsStep ==
    ASSUME MInv, MInv', CacheFollows, [MigrationNext]_migrationVars
    PROVE  CacheFollows'
  <1>0. run \in Runs /\ run' \in Runs
    BY DEF MInv, MigrationTypeOK
  <1>1. CASE UNCHANGED migrationVars
    BY <1>1, OthersFollow DEF migrationVars, log, textCache
  <1>2. CASE Claim \/ Run \/ SignIn \/ Throw \/ Interrupt \/ NoToken
    <2>1. UNCHANGED <<log, textCache, mutations, wandering>>
      BY <1>2 DEF Claim, Run, SignIn, Throw, Interrupt, NoToken, mutators
    <2>2. run'.at = "verify" => SignIn \/ (Claim /\ run' = run)
      BY <1>2, Beginnings DEF Claim, Run, Throw, Interrupt, NoToken, MarkFailed, Waiting
    <2>3. Claim => run.at = "idle"
      BY DEF Claim, MInv, RunIsTheClaimants
    <2>. QED BY <2>1, <2>2, <2>3, OthersFollow DEF SignIn
  <1>3. CASE Acknowledge \/ Uploaded \/ Verify \/ Rebind \/ Complete
    <2>1. UNCHANGED <<log, textCache, mutations, wandering>>
      BY <1>3 DEF Acknowledge, Uploaded, Verify, Rebind, Complete, mutators
    <2>2. Acknowledge \/ Uploaded \/ Rebind \/ Complete => run'.at # "verify"
      BY <1>0, Beginnings DEF Acknowledge, Uploaded, Rebind, SaveState, Complete, Runs
    <2>3. Verify /\ run'.at = "verify" => run.at = "verify" /\ run'.end = run.end
      BY <1>0, Beginnings DEF Verify, SaveState, MarkFailed, Runs
    <2>4. Verify /\ run'.at = "verify" => saved'.owner = saved.owner
      BY <1>0, Beginnings DEF Verify, SaveState, MarkFailed, MInv, RunIsTheClaimants, Runs, States
    <2>. QED BY <1>3, <2>1, <2>2, <2>3, <2>4, OthersFollow
  <1>4. CASE SignOut \/ Refresh \/ Mutate
    BY <1>4, UserFollows
  <1>5. CASE PushBatch
    BY <1>5, PushFollows
  <1>6. CASE Pull \/ WriteCache
    BY <1>6, PageFollows
  <1>7. ASSUME NEW a \in Account, NEW b \in Bank, NEW batch \in Batch,
               OtherDeviceEdits(a, b, batch)
        PROVE  CacheFollows'
    BY <1>7, EditFollows
  <1>. QED BY <1>1, <1>2, <1>3, <1>4, <1>5, <1>6, <1>7 DEF MigrationNext, RunStep

\* The cache follows the log in every reachable state.
THEOREM CacheInvariant == MigrationSpec => []CacheFollows
  <1>1. MigrationInit => CacheFollows
    BY Beginnings DEF MigrationInit, CacheFollows, Standings, Placed, NothingMissed, Behind, InCache
  <1>2. MInv /\ MInv' /\ CacheFollows /\ [MigrationNext]_migrationVars => CacheFollows'
    BY FollowsStep
  <1>. QED BY <1>1, <1>2, InductiveInvariant, PTL DEF MigrationSpec

\* LegacyTextIsTheClaimants: images are bound for the claimant only; while the account
\* does not change under a run, no other log receives legacy text, and a completed
\* migration was whole in the claimant's log and is in its cache, if that was not
\* cleared and this device has mutated nothing meanwhile (verifyPhase, writeCloudCache).
THEOREM MigrationIsWhole == MigrationSpec => []LegacyTextIsTheClaimants
  <1>1. ASSUME MInv, CacheFollows PROVE LegacyTextIsTheClaimants
    <2>1. \A a \in Account : bound[a] # {} => a = saved.owner
      BY <1>1 DEF MInv, OnlyTheClaimant
    <2>2. ASSUME ~wandering, saved.owner # Nobody
          PROVE  \A a \in Account \ {saved.owner} : \A b \in Bank : cloud[a][b] = {}
      BY <1>1, <2>2 DEF MInv, OnlyTheClaimant
    <2>3. ASSUME ~wandering, saved.owner # Nobody, saved.stage = "completed", mutations = 0,
                 NEW b \in Bank
          PROVE  Whole(saved.owner, b)
      <3>1. wholeAt[saved.owner][b] # 0 /\ b \in bound[saved.owner]
        BY <1>1, <2>3 DEF MInv, VerifiedIsWhole, ReboundIsBound
      <3>2. cursor[saved.owner] = 0 \/ wholeAt[saved.owner][b] <= cursor[saved.owner]
        BY <1>1, <2>3 DEF MInv, VerifiedIsWhole, CacheCovers, Covered
      <3>3. saved.owner \in Account
        BY <1>1, <2>3 DEF MInv, MigrationTypeOK, States, Owner
      <3>. QED BY <1>1, <2>3, <3>1, <3>2, <3>3 DEF CacheFollows, InCache, Whole
    <2>. QED BY <2>1, <2>2, <2>3 DEF LegacyTextIsTheClaimants
  <1>. QED BY <1>1, InductiveInvariant, CacheInvariant, PTL
=============================================================================
