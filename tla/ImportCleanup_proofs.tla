------------------------- MODULE ImportCleanup_proofs -------------------------
(***************************************************************************)
(* For every set of images, all limits and any number of failed deletions: *)
(* rows lead to all files, images wait for their device, and no upload     *)
(* comes back after the metadata is retired.                               *)
(***************************************************************************)
EXTENDS ImportCleanup, TLAPS

(* The types.                                                              *)
Name == File \cup {"request", "worker"}
CleanupTypeOK ==
    /\ status \in {"open", "review"} \cup Terminal
    /\ jobAge \in Nat
    /\ rows \subseteq File
    /\ checkpoint \in [row : BOOLEAN, age : Nat, retired : BOOLEAN]
    /\ acked \in BOOLEAN
    /\ lease \in {"none", "request"}
    /\ dir \in [exists : BOOLEAN, age : Nat]
    /\ entries \subseteq Name
    /\ uploader \in {"idle", "enter", "stage", "fence", "link", "published", "release", "done"}
    /\ worker \in [pc : {"idle", "enter", "stage", "link", "done"}, todo : SUBSET Image]
    /\ device \in [pc : {"idle", "unlink", "sweep", "exists", "mark"}, todo : SUBSET Name]
    /\ sweeper \in [pc : {"idle", "select", "unlink", "sweep", "exists", "note", "orphan", "reclaim"},
                    todo : SUBSET Name]
    /\ failures \in Nat
    /\ history \in [published : SUBSET Image, acking : BOOLEAN]

(* There are names only in a directory, nothing is published before the    *)
(* draft, and whoever may still publish has its row, while there are rows. *)
RowsFirst ==
    /\ ~dir.exists => entries = {}
    /\ worker.pc = "idle" => history.published = {}
    /\ checkpoint.retired => checkpoint.row
    /\ ~checkpoint.retired =>
          /\ uploader \in {"enter", "stage", "fence", "link", "published"} => Upload \in rows
          /\ worker.todo \subseteq rows

(* What a deletion has waited for.                                         *)
DeletionsAreDue ==
    /\ acked => history.acking
    /\ device.pc # "idle" => history.acking
    /\ sweeper.pc \in {"unlink", "sweep", "exists", "note"} =>
          status \in {"cancelled", "expired"} \/ (status = "confirmed" /\ (Overdue \/ acked))
    /\ sweeper.pc = "reclaim" => Overdue

(* The first observation of a missing directory finds the lease free, and  *)
(* the request never gets it again.  The second finds the directory gone,  *)
(* with everything that passed a fence before the first.                   *)
LateUpload == uploader = "link" /\ "request" \in entries
RequestFenced ==
    /\ checkpoint.row => status \in Terminal /\ lease = "none"
    /\ checkpoint.row /\ sweeper.pc = "note" => ~LateUpload
    /\ checkpoint.retired => ~LateUpload

(* The inductive invariant.                                                *)
CInv ==
    /\ CleanupTypeOK
    /\ RowsFirst
    /\ RowsCoverFiles
    /\ DeletionsAreDue
    /\ ImagesKept
    /\ RequestFenced

\* The directory; four operators change it.
DiskTypeOK == dir \in [exists : BOOLEAN, age : Nat] /\ entries \subseteq Name

\* Each of them, from names that are names.
LEMMA DirectoryTypes ==
    ASSUME DiskTypeOK, NEW names \in SUBSET Name
    PROVE  /\ SetEntries(names) \/ LeaveOrRemove(names) \/ MakeDirectory \/ UNCHANGED volume => DiskTypeOK'
           /\ \A f \in Name : Delete(f) => DiskTypeOK'
  <1>1. /\ [exists |-> TRUE, age |-> 0] \in [exists : BOOLEAN, age : Nat]
        /\ [exists |-> FALSE, age |-> 0] \in [exists : BOOLEAN, age : Nat]
    OBVIOUS
  <1>2. ASSUME NEW left \in SUBSET Name, LeaveOrRemove(left) PROVE DiskTypeOK'
    BY <1>1, <1>2 DEF DiskTypeOK, LeaveOrRemove
  <1>. QED BY <1>1, <1>2 DEF DiskTypeOK, SetEntries, MakeDirectory, Delete, volume

\* Every step keeps the type of the directory ...
LEMMA DiskTypeStep ==
    ASSUME CleanupTypeOK, CleanupNext
    PROVE  DiskTypeOK'
  <1>. USE CleanupAssumption DEF DiskTypeOK, CleanupTypeOK, Name, File, jobVars, actors
  <1>1. CASE Tick
    BY <1>1, DirectoryTypes DEF Tick, MaxJobAge
  <1>2. CASE Cancel \/ Confirm
    BY <1>2, DirectoryTypes DEF Cancel, Confirm
  <1>3. CASE LeaseRunsOut
    BY <1>3, DirectoryTypes DEF LeaseRunsOut
  <1>4. CASE RecordUpload \/ ReleaseUpload
    BY <1>4, DirectoryTypes DEF RecordUpload, ReleaseUpload, Upstream
  <1>5. CASE EnterUpload \/ StageUpload
    BY <1>5, DirectoryTypes DEF EnterUpload, StageUpload, Upstream
  <1>6. CASE FenceUpload \/ LinkUpload
    BY <1>6, DirectoryTypes DEF FenceUpload, LinkUpload, Upstream
  <1>7. CASE CheckUpload
    BY <1>7, DirectoryTypes DEF CheckUpload, Upstream
  <1>8. CASE WriteDraft \/ EnterImage
    BY <1>8, DirectoryTypes DEF WriteDraft, EnterImage, Working
  <1>9. CASE StageImage
    BY <1>9, DirectoryTypes DEF StageImage, Working
  <1>10. CASE LinkImage
    <2>1. \A i \in Image : (entries \ {"worker"}) \cup {i} \in SUBSET Name
      OBVIOUS
    <2>2. CASE \E i \in worker.todo : SetEntries((entries \ {"worker"}) \cup {i})
      BY <2>1, <2>2, DirectoryTypes
    <2>3. CASE UNCHANGED volume
      BY <2>3, DirectoryTypes
    <2>. QED BY <1>10, <2>2, <2>3 DEF LinkImage
  <1>11. CASE PrepareAck
    BY <1>11, DirectoryTypes DEF PrepareAck, Acking
  <1>12. CASE AckUnlink
    BY <1>12, DirectoryTypes DEF AckUnlink, Acking, AtRest
  <1>13. CASE AckSweep
    BY <1>13, DirectoryTypes DEF AckSweep, Acking
  <1>14. CASE AckExists \/ MarkAcknowledged
    BY <1>14, DirectoryTypes DEF AckExists, MarkAcknowledged, Acking, AtRest
  <1>15. CASE Expire \/ Select
    BY <1>15, DirectoryTypes DEF Expire, Select, Sweeping
  <1>16. CASE SweepUnlink
    BY <1>16, DirectoryTypes DEF SweepUnlink, Sweeping
  <1>17. CASE SweepDirectory \/ SweepExists
    BY <1>17, DirectoryTypes DEF SweepDirectory, SweepExists, Sweeping
  <1>18. CASE NoteMissing
    BY <1>18, DirectoryTypes DEF NoteMissing, Sweeping
  <1>19. CASE ApproveOrphan \/ ReclaimOrphan
    BY <1>19, DirectoryTypes DEF ApproveOrphan, ReclaimOrphan, Sweeping
  <1>. QED BY <1>1, <1>2, <1>3, <1>4, <1>5, <1>6, <1>7, <1>8, <1>9, <1>10, <1>11, <1>12,
      <1>13, <1>14, <1>15, <1>16, <1>17, <1>18, <1>19 DEF CleanupNext, RequestStep, WorkerStep,
      DeviceStep, SweeperStep

\* ... and of everything else.
LEMMA RestTypeStep ==
    ASSUME CleanupTypeOK, DiskTypeOK', CleanupNext
    PROVE  CleanupTypeOK'
  <1>. USE CleanupAssumption DEF CleanupTypeOK, Terminal, File, jobVars, volume, actors, Name,
      DiskTypeOK
  <1>1. CASE Tick
    BY <1>1 DEF Tick, MaxJobAge
  <1>2. CASE Cancel \/ Confirm
    BY <1>2 DEF Cancel, Confirm
  <1>3. CASE LeaseRunsOut
    BY <1>3 DEF LeaseRunsOut
  <1>4. CASE RecordUpload \/ ReleaseUpload
    BY <1>4 DEF RecordUpload, ReleaseUpload, Upstream
  <1>5. CASE EnterUpload \/ StageUpload
    BY <1>5 DEF EnterUpload, StageUpload, Upstream
  <1>6. CASE FenceUpload \/ LinkUpload
    BY <1>6 DEF FenceUpload, LinkUpload, Upstream
  <1>7. CASE CheckUpload
    BY <1>7 DEF CheckUpload, Upstream
  <1>8. CASE WriteDraft \/ EnterImage
    BY <1>8 DEF WriteDraft, EnterImage, Working
  <1>9. CASE StageImage
    BY <1>9 DEF StageImage, Working
  <1>10. CASE LinkImage
    <2>1. CASE "worker" \in entries
      <3>1. PICK i \in worker.todo :
               /\ worker' = [pc |-> "enter", todo |-> worker.todo \ {i}]
               /\ history' = [history EXCEPT !.published = history.published \cup {i}]
        BY <1>10, <2>1 DEF LinkImage, Working
      <3>2. /\ history.published \cup {i} \in SUBSET Image /\ history.acking \in BOOLEAN
            /\ worker.todo \ {i} \in SUBSET Image
        OBVIOUS
      <3>3. history' = [published |-> history.published \cup {i}, acking |-> history.acking]
        BY <3>1
      <3>. QED BY <1>10, <3>1, <3>2, <3>3 DEF LinkImage, Working
    <2>2. CASE "worker" \notin entries
      <3>1. [pc |-> "done", todo |-> {}] \in [pc : {"idle", "enter", "stage", "link", "done"}, todo : SUBSET Image]
        OBVIOUS
      <3>. QED BY <1>10, <2>2, <3>1 DEF LinkImage, Working
    <2>. QED BY <2>1, <2>2
  <1>11. CASE PrepareAck
    <2>1. [history EXCEPT !.acking = TRUE] \in [published : SUBSET Image, acking : BOOLEAN]
      OBVIOUS
    <2>2. [pc |-> "unlink", todo |-> rows] \in [pc : {"idle", "unlink", "sweep", "exists", "mark"}, todo : SUBSET Name]
      OBVIOUS
    <2>. QED BY <1>11, <2>1, <2>2 DEF PrepareAck, Acking
  <1>12. CASE AckUnlink
    BY <1>12 DEF AckUnlink, Acking, AtRest
  <1>13. CASE AckSweep
    BY <1>13 DEF AckSweep, Acking
  <1>14. CASE AckExists \/ MarkAcknowledged
    <2>1. \A pc \in {"idle", "mark"} :
             [pc |-> pc, todo |-> {}] \in [pc : {"idle", "unlink", "sweep", "exists", "mark"}, todo : SUBSET Name]
      OBVIOUS
    <2>2. CASE AckExists
      BY <2>1, <2>2 DEF AckExists, Acking, AtRest
    <2>3. CASE MarkAcknowledged
      BY <2>1, <2>3 DEF MarkAcknowledged, Acking, AtRest
    <2>. QED BY <1>14, <2>2, <2>3
  <1>15. CASE Expire \/ Select
    BY <1>15 DEF Expire, Select, Sweeping
  <1>16. CASE SweepUnlink
    BY <1>16 DEF SweepUnlink, Sweeping
  <1>17. CASE SweepDirectory \/ SweepExists
    BY <1>17 DEF SweepDirectory, SweepExists, Sweeping
  <1>18. CASE NoteMissing
    <2>1. /\ [row |-> TRUE, age |-> 0, retired |-> FALSE] \in [row : BOOLEAN, age : Nat, retired : BOOLEAN]
          /\ [checkpoint EXCEPT !.retired = TRUE] \in [row : BOOLEAN, age : Nat, retired : BOOLEAN]
      OBVIOUS
    <2>2. checkpoint' \in [row : BOOLEAN, age : Nat, retired : BOOLEAN] /\ rows' \subseteq File
      BY <1>18, <2>1 DEF NoteMissing
    <2>. QED BY <1>18, <2>2 DEF NoteMissing, Sweeping
  <1>19. CASE ApproveOrphan \/ ReclaimOrphan
    BY <1>19 DEF ApproveOrphan, ReclaimOrphan, Sweeping
  <1>. QED BY <1>1, <1>2, <1>3, <1>4, <1>5, <1>6, <1>7, <1>8, <1>9, <1>10, <1>11, <1>12,
      <1>13, <1>14, <1>15, <1>16, <1>17, <1>18, <1>19 DEF CleanupNext, RequestStep, WorkerStep,
      DeviceStep, SweeperStep

\* Rows come before files, and all of them go at once, with the retirement.
LEMMA RowsStep ==
    ASSUME CInv, CleanupTypeOK', CleanupNext
    PROVE  RowsFirst' /\ RowsCoverFiles'
  <1>. USE CleanupAssumption DEF CInv, CleanupTypeOK, Terminal, File, jobVars, volume, actors,
      RowsFirst, RowsCoverFiles
  <1>1. CASE Tick
    BY <1>1 DEF Tick, MaxJobAge
  <1>2. CASE Cancel \/ Confirm
    BY <1>2 DEF Cancel, Confirm
  <1>3. CASE LeaseRunsOut
    BY <1>3 DEF LeaseRunsOut
  <1>4. CASE RecordUpload
    BY <1>4 DEF RecordUpload, Upstream
  <1>5. CASE EnterUpload
    BY <1>5 DEF EnterUpload, Upstream, MakeDirectory
  <1>6. CASE StageUpload
    BY <1>6 DEF StageUpload, Upstream, SetEntries
  <1>7. CASE FenceUpload
    BY <1>7 DEF FenceUpload, Upstream, SetEntries
  <1>8. CASE LinkUpload
    BY <1>8 DEF LinkUpload, Upstream, SetEntries
  <1>9. CASE CheckUpload
    BY <1>9 DEF CheckUpload, Upstream, Delete, LeaveOrRemove
  <1>10. CASE ReleaseUpload
    BY <1>10 DEF ReleaseUpload, Upstream
  <1>11. CASE WriteDraft
    BY <1>11 DEF WriteDraft, Working
  <1>12. CASE EnterImage
    BY <1>12 DEF EnterImage, Working, MakeDirectory
  <1>13. CASE StageImage
    BY <1>13 DEF StageImage, Working, SetEntries
  <1>14. CASE LinkImage
    BY <1>14 DEF LinkImage, Working, SetEntries
  <1>15. CASE PrepareAck
    BY <1>15 DEF PrepareAck, Acking
  <1>16. CASE AckUnlink
    BY <1>16 DEF AckUnlink, Acking, Delete, LeaveOrRemove, AtRest
  <1>17. CASE AckSweep
    BY <1>17 DEF AckSweep, Acking, LeaveOrRemove
  <1>18. CASE AckExists
    BY <1>18 DEF AckExists, Acking, AtRest
  <1>19. CASE MarkAcknowledged
    BY <1>19 DEF MarkAcknowledged, Acking, AtRest
  <1>20. CASE Expire
    BY <1>20 DEF Expire, Sweeping, PastExpiry
  <1>21. CASE Select
    BY <1>21 DEF Select, Sweeping, Candidate
  <1>22. CASE SweepUnlink
    BY <1>22 DEF SweepUnlink, Sweeping, Delete, LeaveOrRemove
  <1>23. CASE SweepDirectory
    BY <1>23 DEF SweepDirectory, Sweeping, LeaveOrRemove
  <1>24. CASE SweepExists
    BY <1>24 DEF SweepExists, Sweeping
  <1>25. CASE NoteMissing
    BY <1>25 DEF NoteMissing, Sweeping, MayRetire
  <1>26. CASE ApproveOrphan
    BY <1>26 DEF ApproveOrphan, Sweeping, Orphan
  <1>27. CASE ReclaimOrphan
    BY <1>27 DEF ReclaimOrphan, Sweeping, LeaveOrRemove
  <1>. QED BY <1>1, <1>2, <1>3, <1>4, <1>5, <1>6, <1>7, <1>8, <1>9, <1>10, <1>11, <1>12,
      <1>13, <1>14, <1>15, <1>16, <1>17, <1>18, <1>19, <1>20, <1>21, <1>22, <1>23, <1>24,
      <1>25, <1>26, <1>27 DEF CleanupNext, RequestStep, WorkerStep, DeviceStep, SweeperStep

\* Nobody begins to delete before it is due, and what is due stays due.
LEMMA DueStep ==
    ASSUME CInv, CleanupTypeOK', CleanupNext
    PROVE  DeletionsAreDue'
  <1>. USE CleanupAssumption DEF CInv, CleanupTypeOK, Terminal, File, jobVars, volume, actors,
      DeletionsAreDue, Overdue
  <1>1. CASE Tick
    BY <1>1 DEF Tick, MaxJobAge
  <1>2. CASE Cancel \/ Confirm
    BY <1>2 DEF Cancel, Confirm
  <1>3. CASE LeaseRunsOut
    BY <1>3 DEF LeaseRunsOut
  <1>4. CASE RecordUpload
    BY <1>4 DEF RecordUpload, Upstream
  <1>5. CASE EnterUpload
    BY <1>5 DEF EnterUpload, Upstream, MakeDirectory
  <1>6. CASE StageUpload
    BY <1>6 DEF StageUpload, Upstream, SetEntries
  <1>7. CASE FenceUpload
    BY <1>7 DEF FenceUpload, Upstream, SetEntries
  <1>8. CASE LinkUpload
    BY <1>8 DEF LinkUpload, Upstream, SetEntries
  <1>9. CASE CheckUpload
    BY <1>9 DEF CheckUpload, Upstream, Delete, LeaveOrRemove
  <1>10. CASE ReleaseUpload
    BY <1>10 DEF ReleaseUpload, Upstream
  <1>11. CASE WriteDraft
    BY <1>11 DEF WriteDraft, Working
  <1>12. CASE EnterImage
    BY <1>12 DEF EnterImage, Working, MakeDirectory
  <1>13. CASE StageImage
    BY <1>13 DEF StageImage, Working, SetEntries
  <1>14. CASE LinkImage
    BY <1>14 DEF LinkImage, Working, SetEntries
  <1>15. CASE PrepareAck
    BY <1>15 DEF PrepareAck, Acking
  <1>16. CASE AckUnlink
    BY <1>16 DEF AckUnlink, Acking, Delete, LeaveOrRemove, AtRest
  <1>17. CASE AckSweep
    BY <1>17 DEF AckSweep, Acking, LeaveOrRemove
  <1>18. CASE AckExists
    BY <1>18 DEF AckExists, Acking, AtRest
  <1>19. CASE MarkAcknowledged
    BY <1>19 DEF MarkAcknowledged, Acking, AtRest
  <1>20. CASE Expire
    BY <1>20 DEF Expire, Sweeping, PastExpiry
  <1>21. CASE Select
    BY <1>21 DEF Select, Sweeping, Candidate
  <1>22. CASE SweepUnlink
    BY <1>22 DEF SweepUnlink, Sweeping, Delete, LeaveOrRemove
  <1>23. CASE SweepDirectory
    BY <1>23 DEF SweepDirectory, Sweeping, LeaveOrRemove
  <1>24. CASE SweepExists
    BY <1>24 DEF SweepExists, Sweeping
  <1>25. CASE NoteMissing
    BY <1>25 DEF NoteMissing, Sweeping, MayRetire
  <1>26. CASE ApproveOrphan
    BY <1>26 DEF ApproveOrphan, Sweeping, Orphan
  <1>27. CASE ReclaimOrphan
    BY <1>27 DEF ReclaimOrphan, Sweeping, LeaveOrRemove
  <1>. QED BY <1>1, <1>2, <1>3, <1>4, <1>5, <1>6, <1>7, <1>8, <1>9, <1>10, <1>11, <1>12,
      <1>13, <1>14, <1>15, <1>16, <1>17, <1>18, <1>19, <1>20, <1>21, <1>22, <1>23, <1>24,
      <1>25, <1>26, <1>27 DEF CleanupNext, RequestStep, WorkerStep, DeviceStep, SweeperStep

\* Hence no deletion reaches an image that is still waited for.
LEMMA ImagesStep ==
    ASSUME CInv, CleanupTypeOK', CleanupNext
    PROVE  ImagesKept'
  <1>. USE CleanupAssumption DEF CInv, CleanupTypeOK, Terminal, File, jobVars, volume, actors,
      Name, RowsFirst, DeletionsAreDue, ImagesKept, Overdue
  <1>1. CASE Tick
    BY <1>1 DEF Tick, MaxJobAge
  <1>2. CASE Cancel \/ Confirm
    BY <1>2 DEF Cancel, Confirm
  <1>3. CASE LeaseRunsOut
    BY <1>3 DEF LeaseRunsOut
  <1>4. CASE RecordUpload
    BY <1>4 DEF RecordUpload, Upstream
  <1>5. CASE EnterUpload
    BY <1>5 DEF EnterUpload, Upstream, MakeDirectory
  <1>6. CASE StageUpload
    BY <1>6 DEF StageUpload, Upstream, SetEntries
  <1>7. CASE FenceUpload
    BY <1>7 DEF FenceUpload, Upstream, SetEntries
  <1>8. CASE LinkUpload
    BY <1>8 DEF LinkUpload, Upstream, SetEntries
  <1>9. CASE CheckUpload
    BY <1>9 DEF CheckUpload, Upstream, Delete, LeaveOrRemove
  <1>10. CASE ReleaseUpload
    BY <1>10 DEF ReleaseUpload, Upstream
  <1>11. CASE WriteDraft
    BY <1>11 DEF WriteDraft, Working
  <1>12. CASE EnterImage
    BY <1>12 DEF EnterImage, Working, MakeDirectory
  <1>13. CASE StageImage
    BY <1>13 DEF StageImage, Working, SetEntries
  <1>14. CASE LinkImage
    BY <1>14 DEF LinkImage, Working, SetEntries
  <1>15. CASE PrepareAck
    BY <1>15 DEF PrepareAck, Acking
  <1>16. CASE AckUnlink
    BY <1>16 DEF AckUnlink, Acking, Delete, LeaveOrRemove, AtRest
  <1>17. CASE AckSweep
    BY <1>17 DEF AckSweep, Acking, LeaveOrRemove
  <1>18. CASE AckExists
    BY <1>18 DEF AckExists, Acking, AtRest
  <1>19. CASE MarkAcknowledged
    BY <1>19 DEF MarkAcknowledged, Acking, AtRest
  <1>20. CASE Expire
    BY <1>20 DEF Expire, Sweeping, PastExpiry
  <1>21. CASE Select
    BY <1>21 DEF Select, Sweeping, Candidate
  <1>22. CASE SweepUnlink
    BY <1>22 DEF SweepUnlink, Sweeping, Delete, LeaveOrRemove
  <1>23. CASE SweepDirectory
    BY <1>23 DEF SweepDirectory, Sweeping, LeaveOrRemove
  <1>24. CASE SweepExists
    BY <1>24 DEF SweepExists, Sweeping
  <1>25. CASE NoteMissing
    BY <1>25 DEF NoteMissing, Sweeping, MayRetire
  <1>26. CASE ApproveOrphan
    BY <1>26 DEF ApproveOrphan, Sweeping, Orphan
  <1>27. CASE ReclaimOrphan
    BY <1>27 DEF ReclaimOrphan, Sweeping, LeaveOrRemove
  <1>. QED BY <1>1, <1>2, <1>3, <1>4, <1>5, <1>6, <1>7, <1>8, <1>9, <1>10, <1>11, <1>12,
      <1>13, <1>14, <1>15, <1>16, <1>17, <1>18, <1>19, <1>20, <1>21, <1>22, <1>23, <1>24,
      <1>25, <1>26, <1>27 DEF CleanupNext, RequestStep, WorkerStep, DeviceStep, SweeperStep

\* Neither observation can be passed by a request that still gets through.
LEMMA FencedStep ==
    ASSUME CInv, CleanupTypeOK', CleanupNext
    PROVE  RequestFenced'
  <1>. USE CleanupAssumption DEF CInv, CleanupTypeOK, Terminal, File, jobVars, volume, actors,
      RowsFirst, DeletionsAreDue, RequestFenced, LateUpload
  <1>1. CASE Tick
    BY <1>1 DEF Tick, MaxJobAge
  <1>2. CASE Cancel \/ Confirm
    BY <1>2 DEF Cancel, Confirm
  <1>3. CASE LeaseRunsOut
    BY <1>3 DEF LeaseRunsOut
  <1>4. CASE RecordUpload
    BY <1>4 DEF RecordUpload, Upstream
  <1>5. CASE EnterUpload
    BY <1>5 DEF EnterUpload, Upstream, MakeDirectory
  <1>6. CASE StageUpload
    BY <1>6 DEF StageUpload, Upstream, SetEntries
  <1>7. CASE FenceUpload
    BY <1>7 DEF FenceUpload, Upstream, SetEntries
  <1>8. CASE LinkUpload
    BY <1>8 DEF LinkUpload, Upstream, SetEntries
  <1>9. CASE CheckUpload
    BY <1>9 DEF CheckUpload, Upstream, Delete, LeaveOrRemove
  <1>10. CASE ReleaseUpload
    BY <1>10 DEF ReleaseUpload, Upstream
  <1>11. CASE WriteDraft
    BY <1>11 DEF WriteDraft, Working
  <1>12. CASE EnterImage
    BY <1>12 DEF EnterImage, Working, MakeDirectory
  <1>13. CASE StageImage
    BY <1>13 DEF StageImage, Working, SetEntries
  <1>14. CASE LinkImage
    BY <1>14 DEF LinkImage, Working, SetEntries
  <1>15. CASE PrepareAck
    BY <1>15 DEF PrepareAck, Acking
  <1>16. CASE AckUnlink
    BY <1>16 DEF AckUnlink, Acking, Delete, LeaveOrRemove, AtRest
  <1>17. CASE AckSweep
    BY <1>17 DEF AckSweep, Acking, LeaveOrRemove
  <1>18. CASE AckExists
    BY <1>18 DEF AckExists, Acking, AtRest
  <1>19. CASE MarkAcknowledged
    BY <1>19 DEF MarkAcknowledged, Acking, AtRest
  <1>20. CASE Expire
    BY <1>20 DEF Expire, Sweeping, PastExpiry
  <1>21. CASE Select
    BY <1>21 DEF Select, Sweeping, Candidate
  <1>22. CASE SweepUnlink
    BY <1>22 DEF SweepUnlink, Sweeping, Delete, LeaveOrRemove
  <1>23. CASE SweepDirectory
    BY <1>23 DEF SweepDirectory, Sweeping, LeaveOrRemove
  <1>24. CASE SweepExists
    BY <1>24 DEF SweepExists, Sweeping
  <1>25. CASE NoteMissing
    BY <1>25 DEF NoteMissing, Sweeping, MayRetire
  <1>26. CASE ApproveOrphan
    BY <1>26 DEF ApproveOrphan, Sweeping, Orphan
  <1>27. CASE ReclaimOrphan
    BY <1>27 DEF ReclaimOrphan, Sweeping, LeaveOrRemove
  <1>. QED BY <1>1, <1>2, <1>3, <1>4, <1>5, <1>6, <1>7, <1>8, <1>9, <1>10, <1>11, <1>12,
      <1>13, <1>14, <1>15, <1>16, <1>17, <1>18, <1>19, <1>20, <1>21, <1>22, <1>23, <1>24,
      <1>25, <1>26, <1>27 DEF CleanupNext, RequestStep, WorkerStep, DeviceStep, SweeperStep

\* Every step keeps the invariant.
LEMMA InvariantStep == CInv /\ [CleanupNext]_cleanupVars => CInv'
  <1>. SUFFICES ASSUME CInv, [CleanupNext]_cleanupVars PROVE CInv'
    OBVIOUS
  <1>1. CASE CleanupNext
    <2>1. DiskTypeOK'
      BY <1>1, DiskTypeStep DEF CInv
    <2>2. CleanupTypeOK'
      BY <1>1, <2>1, RestTypeStep DEF CInv
    <2>. QED BY <1>1, <2>2, RowsStep, DueStep, ImagesStep, FencedStep DEF CInv
  <1>2. CASE UNCHANGED cleanupVars
    BY <1>2 DEF cleanupVars, jobVars, volume, actors, CInv, CleanupTypeOK, RowsFirst, RowsCoverFiles,
       DeletionsAreDue, Overdue, ImagesKept, RequestFenced, LateUpload
  <1>. QED BY <1>1, <1>2

(* The invariant of an import's end, whoever is late.                      *)
THEOREM InductiveInvariant == CleanupSpec => []CInv
  <1>1. CleanupInit => CInv
    <2>. SUFFICES ASSUME CleanupInit PROVE CInv
      OBVIOUS
    <2>1. CleanupTypeOK
      BY DEF CleanupInit, AtRest, CleanupTypeOK
    <2>2. RowsFirst /\ RowsCoverFiles /\ DeletionsAreDue /\ ImagesKept /\ RequestFenced
      BY DEF CleanupInit, AtRest, RowsFirst, RowsCoverFiles, DeletionsAreDue, ImagesKept, RequestFenced
    <2>. QED BY <2>1, <2>2 DEF CInv
  <1>. QED BY <1>1, InvariantStep, PTL DEF CleanupSpec

(* While the metadata lasts, a sweep is led to every file.                 *)
THEOREM RowsLeadToFiles == CleanupSpec => []RowsCoverFiles
  BY InductiveInvariant, PTL DEF CInv

(* A published image waits for the device, up to the import's expiry.      *)
THEOREM ImagesWait == CleanupSpec => []ImagesKept
  BY InductiveInvariant, PTL DEF CInv

(* A file appears only when the request links its staging file.            *)
LEMMA OnlyLinkAdds ==
    ASSUME CInv, CleanupNext, checkpoint.retired, Upload \notin entries
    PROVE  Upload \notin entries'
  <1>. USE CleanupAssumption DEF CInv, CleanupTypeOK, Terminal, File, jobVars, volume, actors
  <1>1. CASE LinkUpload
    BY <1>1 DEF LinkUpload, Upstream, RequestFenced, LateUpload
  <1>2. CASE Tick \/ Cancel \/ Confirm \/ LeaseRunsOut \/ RecordUpload \/ ReleaseUpload \/ WriteDraft
    BY <1>2 DEF Tick, Cancel, Confirm, LeaseRunsOut, RecordUpload, ReleaseUpload, WriteDraft
  <1>3. CASE EnterUpload \/ StageUpload \/ FenceUpload \/ CheckUpload
    BY <1>3 DEF EnterUpload, StageUpload, FenceUpload, CheckUpload, MakeDirectory, SetEntries,
        Delete, LeaveOrRemove
  <1>4. CASE EnterImage \/ StageImage \/ LinkImage
    <2>1. CASE EnterImage \/ StageImage
      BY <1>4, <2>1 DEF EnterImage, StageImage, MakeDirectory, SetEntries
    <2>2. CASE LinkImage
      <3>1. \A i \in worker.todo : i # Upload
        OBVIOUS
      <3>2. entries' = entries \/ \E i \in worker.todo : entries' = (entries \ {"worker"}) \cup {i}
        BY <2>2 DEF LinkImage, SetEntries
      <3>. QED BY <3>1, <3>2
    <2>. QED BY <1>4, <2>1, <2>2
  <1>5. CASE DeviceStep
    BY <1>5 DEF DeviceStep, PrepareAck, AckUnlink, AckSweep, AckExists, MarkAcknowledged, Delete,
        LeaveOrRemove
  <1>6. CASE Expire \/ Select \/ SweepUnlink \/ SweepDirectory \/ SweepExists
    BY <1>6 DEF Expire, Select, SweepUnlink, SweepDirectory, SweepExists, Delete, LeaveOrRemove
  <1>7. CASE NoteMissing \/ ApproveOrphan \/ ReclaimOrphan
    BY <1>7 DEF NoteMissing, ApproveOrphan, ReclaimOrphan, LeaveOrRemove
  <1>. QED BY <1>1, <1>2, <1>3, <1>4, <1>5, <1>6, <1>7 DEF CleanupNext, RequestStep, WorkerStep,
      SweeperStep

(* Once the metadata is gone, no upload brings its file back.              *)
THEOREM RetirementIsFinal == CleanupSpec => NoUploadAfterRetirement
  <1>1. CInv /\ [CleanupNext]_cleanupVars =>
           [checkpoint.retired /\ Upload \notin entries => Upload \notin entries']_cleanupVars
    BY OnlyLinkAdds
  <1>. QED BY <1>1, InductiveInvariant, PTL DEF CleanupSpec, NoUploadAfterRetirement
=============================================================================
