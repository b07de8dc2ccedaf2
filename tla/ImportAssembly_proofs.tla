------------------------ MODULE ImportAssembly_proofs ------------------------
(***************************************************************************)
(* For every set of requests and parts: manifest first and the finality of *)
(* a teardown whatever the pace of the requests, and, while no live        *)
(* request outlives its lease, mutual exclusion and what it protects.      *)
(***************************************************************************)
EXTENDS ImportAssembly, TLAPS

(* The statements, kinds and names that requests and the disk can have.    *)
Pc == {"idle", "waiting", "dead", "read", "record", "own", "prepare", "enter", "stage", "merge",
       "fence", "abandon", "link", "published", "undo", "queue", "cancel", "release",
       "ownRecords", "records", "ownUnlink", "unlink", "ownList", "list", "sweep"}
Kind == {"none", "upload", "complete", "cancel"}
Entry == File \cup Request
Activity == [pc : Pc, kind : Kind, file : File, todo : SUBSET Entry, ok : BOOLEAN]

AssemblyTypeOK ==
    /\ slow \in BOOLEAN
    /\ status \in Completed \cup Cancellable \cup {"cancelled", "expired"}
    /\ rows \subseteq File
    /\ dir \in BOOLEAN
    /\ entries \subseteq Entry
    /\ lease \in [token : Request \cup {NoRequest}, live : BOOLEAN]
    /\ req \in [Request -> Activity]
    /\ history \in [acked : SUBSET File, torn : BOOLEAN]

(* What a request is for, and which statements it reaches.                 *)
KindsMatch ==
    \A r \in Request :
        /\ req[r].kind = "upload" => req[r].file \in Part
        /\ req[r].kind \in {"complete", "cancel"} => req[r].file = Source
        /\ req[r].pc \notin {"idle", "dead"} => req[r].kind # "none"
        /\ req[r].kind = "upload" /\ req[r].ok => At(r, "release")
        /\ At(r, "record") => req[r].kind = "upload"
        /\ req[r].pc \in {"prepare", "merge", "queue"} => req[r].kind = "complete"
        /\ req[r].pc \in {"cancel", "ownList", "list", "sweep"} => req[r].kind = "cancel"
        /\ req[r].pc \in {"enter", "stage", "fence", "abandon", "link", "published", "undo"}
              => req[r].kind \in {"upload", "complete"}
        /\ req[r].pc \in {"ownRecords", "records", "ownUnlink", "unlink"}
              => req[r].kind \in {"complete", "cancel"}

(* A request that is about to make its file has its row.                   *)
Writing == {"enter", "stage", "merge", "fence", "abandon", "link", "published", "undo", "queue"}
RowFirst ==
    \A r \in Request :
        /\ req[r].pc \in Writing => req[r].file \in rows
        /\ At(r, "own") /\ req[r].kind = "upload" => req[r].file \in rows

(* Once a cancellation has begun to delete, nobody who could still publish *)
(* holds the lease, and the row lets nobody begin.                         *)
Publishing == {"record", "own", "prepare", "enter", "stage", "merge", "fence"}
Deleting == {"records", "ownUnlink", "unlink", "ownList", "list", "sweep"}
NobodyPublishes ==
    /\ status = "cancelled"
    /\ \A r \in Request :
          req[r].pc \in Publishing /\ req[r].kind \in {"upload", "complete"} => lease.token # r
TeardownFences ==
    /\ \A r \in Request :
          /\ req[r].kind = "cancel" /\ At(r, "ownRecords") => status = "cancelled"
          /\ req[r].kind = "cancel" /\ req[r].pc \in Deleting => NobodyPublishes
    /\ history.torn =>
          /\ NobodyPublishes
          /\ \A r \in Request : At(r, "link") => r \notin entries
    /\ ~dir => entries = {}

(* Punctual requests have the lease to themselves ...                      *)
Exclusive == ~slow => \A r \in Request : Working(r) => lease = [token |-> r, live |-> TRUE]

(* ... and what they have done stays done until they are through.          *)
BeforeQueued == {"own", "prepare", "enter", "stage", "merge", "fence", "abandon", "link",
                 "published", "undo", "queue"}
AfterQueued == {"ownRecords", "records", "ownUnlink", "unlink"}
StatusFits(r) ==
    req[r].kind = "complete" =>
        /\ req[r].pc \in BeforeQueued => status \in {"uploading", "expired"}
        /\ req[r].pc \in AfterQueued => status # "uploading"
        /\ req[r].pc \in {"ownUnlink", "unlink"} => Source \notin req[r].todo
FileFits(r) ==
    req[r].pc \in {"published", "queue"} => req[r].file \in entries
Intact == ~slow => \A r \in Request : StatusFits(r) /\ FileFits(r)

(* Whatever the pace, a completion cleans up only what has been queued.    *)
CompletedFirst ==
    \A r \in Request :
        req[r].kind = "complete" /\ req[r].pc \in AfterQueued => status # "uploading"

(* The inductive invariant.                                                *)
AInv ==
    /\ AssemblyTypeOK
    /\ KindsMatch
    /\ RowFirst
    /\ RowsCoverFiles
    /\ TeardownFences
    /\ TornDownStaysEmpty
    /\ Exclusive
    /\ Intact
    /\ PunctualQueuedHasSource
    /\ CompletedFirst

\* Every update of a request's record leaves a record of that type.
LEMMA ActivityTypes ==
    ASSUME NEW a \in Activity, NEW pc \in Pc, NEW todo \in SUBSET Entry
    PROVE  /\ [a EXCEPT !.pc = pc] \in Activity
           /\ [a EXCEPT !.pc = pc, !.todo = todo] \in Activity
           /\ [a EXCEPT !.todo = todo, !.pc = pc] \in Activity
           /\ [a EXCEPT !.pc = pc, !.ok = TRUE] \in Activity
  BY DEF Activity

\* So are the records a request begins and ends with.
LEMMA FreshTypes ==
    /\ Idle \in Activity /\ Dead \in Activity
    /\ \A kind \in Kind, file \in File :
          [Idle EXCEPT !.pc = "waiting", !.kind = kind, !.file = file] \in Activity
  BY DEF Idle, Dead, Activity, Pc, Kind, File, Entry

\* A step of a request replaces its own record by one of the type.
LEMMA RequestRecord ==
    ASSUME NEW r \in Request, RequestStep(r), AssemblyTypeOK, KindsMatch
    PROVE  \E a \in Activity : req' = [req EXCEPT ![r] = a]
  <1>. USE ActivityTypes, FreshTypes DEF AssemblyTypeOK, Goto
  <1>0. req[r] \in Activity /\ req[r].todo \in SUBSET Entry
    BY DEF Activity
  <1>1. CASE \E p \in Part : Start(r, "upload", p)
    BY <1>1 DEF Start, Kind, File
  <1>2. CASE \E kind \in {"complete", "cancel"} : Start(r, kind, Source)
    BY <1>2 DEF Start, Kind, File
  <1>3. CASE GiveUp(r) \/ Release(r) \/ Die(r)
    BY <1>3 DEF GiveUp, Release, Die
  <1>4. CASE \E pc \in Pc : Goto(r, pc)
    BY <1>0, <1>4
  <1>5. CASE \E pc \in Pc, todo \in SUBSET Entry : 
         req' = [req EXCEPT ![r].pc = pc, ![r].todo = todo] \/ req' = [req EXCEPT ![r].todo = todo, ![r].pc = pc]
    BY <1>0, <1>5
  <1>6. CASE \E pc \in Pc : req' = [req EXCEPT ![r].pc = pc, ![r].ok = TRUE] 
    BY <1>0, <1>6
  <1>. HIDE ActivityTypes, FreshTypes
  <1>. USE DEF Pc
  <1>7. Acquire(r) \/ Read(r) => <1>4!1
    BY DEF Acquire, Read
  <1>8. RecordPart(r) \/ PrepareSource(r) \/ Fence(r) \/ OwnCleanup(r) => <1>4!1
    BY DEF RecordPart, PrepareSource, WriteRow, Fence, OwnCleanup, AssertOwned
  <1>own. Own(r) => <1>4!1
    <2>1. At(r, "own") => req[r].kind \in {"upload", "complete", "cancel"}
      BY <1>0 DEF KindsMatch, At, Activity, Kind
    <2>. QED BY <2>1 DEF Own, AssertOwned
  <1>9. Enter(r) \/ Abandon(r) \/ Link(r) \/ Undo(r) \/ Queue(r) \/ CancelOwned(r) => <1>4!1
    BY DEF Enter, Abandon, Link, Undo, Queue, CancelOwned
  <1>10. Stage(r) => <1>4!1 \/ <1>5!1
    BY DEF Stage, Entry, File
  <1>11. Merge(r) => <1>4!1 \/ <1>5!1
    BY <1>0 DEF Merge
  <1>12. Published(r) => <1>4!1 \/ <1>6!1
    BY DEF Published
  <1>13. ListRecords(r) => <1>4!1 \/ <1>5!1
    BY DEF ListRecords, Recorded, AfterRecords, Entry
  <1>14. Unlink(r) => <1>5!1
    BY <1>0 DEF Unlink, AfterRecords
  <1>15. ListDirectory(r) \/ Sweep(r) => <1>5!1
    BY DEF ListDirectory, Sweep
  <1>. QED BY <1>1, <1>2, <1>3, <1>4, <1>5, <1>6, <1>7, <1>8, <1>9, <1>10, <1>11, <1>12,
      <1>13, <1>14, <1>15, <1>own DEF RequestStep

\* It keeps all types and touches no other request's record.
LEMMA OneRequest ==
    ASSUME NEW r \in Request, RequestStep(r), AssemblyTypeOK, KindsMatch, slow' = slow
    PROVE  /\ AssemblyTypeOK'
           /\ \A s \in Request \ {r} : req'[s] = req[s]
  <1>1. /\ req' \in [Request -> Activity]
        /\ \A s \in Request \ {r} : req'[s] = req[s]
    BY RequestRecord DEF AssemblyTypeOK
  <1>2. /\ entries' \subseteq Entry /\ dir' \in BOOLEAN
        /\ rows' \subseteq File
        /\ lease' \in [token : Request \cup {NoRequest}, live : BOOLEAN]
        /\ history' \in [acked : SUBSET File, torn : BOOLEAN]
        /\ status' \in Completed \cup Cancellable \cup {"cancelled", "expired"}
    <2>. USE DEF AssemblyTypeOK, Entry, Activity, disk
    <2>1. CASE (\E p \in Part : Start(r, "upload", p)) \/ (\E kind \in {"complete", "cancel"} : Start(r, kind, Source))
      BY <2>1 DEF Start
    <2>2. CASE GiveUp(r) \/ Read(r)
      BY <2>2 DEF GiveUp, Read
    <2>acquire. CASE Acquire(r)
      <3>1. [token |-> r, live |-> TRUE] \in [token : Request \cup {NoRequest}, live : BOOLEAN]
        OBVIOUS
      <3>. QED BY <2>acquire, <3>1 DEF Acquire
    <2>3. CASE RecordPart(r) \/ PrepareSource(r)
      BY <2>3 DEF RecordPart, PrepareSource, WriteRow
    <2>4. CASE Own(r) \/ Fence(r) \/ OwnCleanup(r)
      BY <2>4 DEF Own, Fence, OwnCleanup, AssertOwned
    <2>5. CASE Enter(r) \/ Stage(r) \/ Merge(r) \/ Abandon(r) \/ Link(r)
      BY <2>5 DEF Enter, Stage, Merge, Abandon, Link, DropStaging
    <2>6. CASE Published(r) \/ Undo(r)
      BY <2>6 DEF Published, Undo, Remove
    <2>7. CASE Queue(r) \/ CancelOwned(r)
      BY <2>7 DEF Queue, CancelOwned, Completed, Cancellable
    <2>8. CASE ListRecords(r) \/ Unlink(r)
      BY <2>8 DEF ListRecords, Unlink, Remove
    <2>9. CASE ListDirectory(r) \/ Sweep(r)
      BY <2>9 DEF ListDirectory, Sweep
    <2>10. CASE Release(r) \/ Die(r)
      <3>1. PICK acked \in SUBSET File : history' = [history EXCEPT !.acked = acked]
        <4>1. history.acked \cup {req[r].file} \in SUBSET File
          OBVIOUS
        <4>2. history' = [history EXCEPT !.acked = history.acked]
                 \/ history' = [history EXCEPT !.acked = history.acked \cup {req[r].file}]
          BY <2>10 DEF Release, Die
        <4>. QED BY <4>1, <4>2
      <3>2. lease' \in [token : Request \cup {NoRequest}, live : BOOLEAN]
        <4>1. [token |-> NoRequest, live |-> FALSE] \in [token : Request \cup {NoRequest}, live : BOOLEAN]
          OBVIOUS
        <4>. QED BY <2>10, <4>1 DEF Release, Die
      <3>. QED BY <2>10, <3>1, <3>2 DEF Release, Die
    <2>. QED BY <2>1, <2>2, <2>3, <2>4, <2>5, <2>6, <2>7, <2>8, <2>9, <2>10, <2>acquire DEF
        RequestStep
  <1>. QED BY <1>1, <1>2 DEF AssemblyTypeOK

\* The renewal before the first step: only the owner goes on.
LEMMA OwnFrame ==
    ASSUME NEW r \in Request, Own(r), AssemblyTypeOK, KindsMatch
    PROVE  \E next \in {"enter", "prepare", "cancel", "release"} :
              /\ At(r, "own") /\ req' = [req EXCEPT ![r].pc = next]
              /\ next = "enter" => req[r].kind = "upload"
              /\ next = "prepare" => req[r].kind = "complete"
              /\ next = "cancel" => req[r].kind = "cancel"
              /\ next # "release" => Owns(r)
              /\ UNCHANGED <<status, rows, dir, entries, lease, history>>
  <1>1. req[r].kind \in {"upload", "complete", "cancel"}
    BY DEF Own, KindsMatch, At, AssemblyTypeOK, Activity, Kind
  <1>. QED BY <1>1 DEF Own, AssertOwned, Goto, disk

\* One recorded file is deleted, or not; nothing else disappears.
LEMMA UnlinkFrame ==
    ASSUME NEW r \in Request, Unlink(r), AssemblyTypeOK, KindsMatch, TeardownFences
    PROVE  \E f \in req[r].todo :
              /\ At(r, "unlink") /\ req'[r].pc \in {"ownUnlink", "ownList", "release"}
              /\ req'[r].pc = "ownList" => req[r].kind = "cancel"
              /\ req'[r].kind = req[r].kind /\ req'[r].file = req[r].file /\ req'[r].ok = req[r].ok
              /\ req'[r].todo = req[r].todo \ {f}
              /\ entries \ {f} \subseteq entries' /\ entries' \subseteq entries
              /\ ~dir' => entries' = {}
              /\ UNCHANGED <<status, rows, lease, history>>
  <1>1. PICK f \in req[r].todo :
          /\ Remove({f}) \/ UNCHANGED disk
          /\ req' = [req EXCEPT ![r].todo = @ \ {f}, ![r].pc = AfterRecords(r, req[r].todo \ {f})]
    BY DEF Unlink
  <1>2. AfterRecords(r, req[r].todo \ {f}) \in {"ownUnlink", "ownList", "release"}
    BY DEF AfterRecords
  <1>3. AfterRecords(r, req[r].todo \ {f}) = "ownList" => req[r].kind = "cancel"
    BY DEF AfterRecords
  <1>4. /\ entries \ {f} \subseteq entries' /\ entries' \subseteq entries
        /\ ~dir' => entries' = {}
    BY <1>1 DEF Remove, disk, TeardownFences
  <1>5. /\ req'[r].pc = AfterRecords(r, req[r].todo \ {f})
        /\ req'[r].kind = req[r].kind /\ req'[r].file = req[r].file /\ req'[r].ok = req[r].ok
        /\ req'[r].todo = req[r].todo \ {f}
    BY <1>1 DEF AssemblyTypeOK, Activity
  <1>. QED BY <1>2, <1>3, <1>4, <1>5 DEF Unlink

\* A request stays on the statements of its kind.
LEMMA KindsStep ==
    ASSUME NEW r \in Request, RequestStep(r), slow' = slow,
           AInv, AssemblyTypeOK', \A s \in Request \ {r} : req'[s] = req[s]
    PROVE  KindsMatch'
  <1>. USE ConstantAssumption DEF AInv, AssemblyTypeOK, Activity, File, Cancellable, At, disk,
      KindsMatch
  <1>1. CASE \E p \in Part : Start(r, "upload", p)
    BY <1>1 DEF Start, Idle
  <1>2. CASE \E kind \in {"complete", "cancel"} : Start(r, kind, Source)
    BY <1>2 DEF Start, Idle
  <1>3. CASE GiveUp(r) \/ Acquire(r)
    BY <1>3 DEF GiveUp, Idle, Acquire, Acquirable, Goto
  <1>4. CASE Read(r)
    BY <1>4 DEF Read, Goto
  <1>5. CASE RecordPart(r) \/ PrepareSource(r)
    BY <1>5 DEF RecordPart, PrepareSource, WriteRow, Goto
  <1>6. CASE Own(r)
    BY <1>6, OwnFrame DEF Owns
  <1>7. CASE Fence(r)
    BY <1>7 DEF Fence, AssertOwned, Owns, Goto
  <1>8. CASE OwnCleanup(r)
    BY <1>8 DEF OwnCleanup, AssertOwned, Owns, Goto
  <1>9. CASE Enter(r)
    BY <1>9 DEF Enter, Goto
  <1>10. CASE Stage(r)
    BY <1>10 DEF Stage, Goto
  <1>11. CASE Merge(r)
    BY <1>11 DEF Merge, DropStaging, Goto
  <1>12. CASE Abandon(r)
    BY <1>12 DEF Abandon, DropStaging, Goto
  <1>13. CASE Link(r)
    BY <1>13 DEF Link, DropStaging, Goto
  <1>14. CASE Published(r)
    BY <1>14 DEF Published, Owns, Goto
  <1>15. CASE Undo(r)
    BY <1>15 DEF Undo, Remove, Goto
  <1>own. CASE Queue(r) \/ CancelOwned(r)
    BY <1>own DEF Queue, CancelOwned, Goto
  <1>17. CASE ListRecords(r)
    BY <1>17 DEF ListRecords, Recorded, AfterRecords, Goto
  <1>18. CASE Unlink(r)
    BY <1>18, UnlinkFrame
  <1>19. CASE ListDirectory(r)
    BY <1>19 DEF ListDirectory
  <1>20. CASE Sweep(r)
    BY <1>20 DEF Sweep
  <1>21. CASE Release(r)
    BY <1>21 DEF Release, Idle
  <1>22. CASE Die(r)
    BY <1>22 DEF Die, Idle, Dead
  <1>. QED BY <1>1, <1>2, <1>3, <1>4, <1>5, <1>6, <1>7, <1>8, <1>9, <1>10, <1>11, <1>12,
      <1>13, <1>14, <1>15, <1>own, <1>17, <1>18, <1>19, <1>20, <1>21, <1>22 DEF RequestStep

\* Rows are written before Enter and never deleted, and only Link adds a file.
LEMMA RowFirstStep ==
    ASSUME NEW r \in Request, RequestStep(r), slow' = slow,
           AInv, AssemblyTypeOK', \A s \in Request \ {r} : req'[s] = req[s]
    PROVE  RowFirst' /\ RowsCoverFiles'
  <1>. USE ConstantAssumption DEF AInv, AssemblyTypeOK, Activity, File, Cancellable, At, disk,
      KindsMatch, RowFirst, RowsCoverFiles, Writing
  <1>1. CASE \E p \in Part : Start(r, "upload", p)
    BY <1>1 DEF Start, Idle
  <1>2. CASE \E kind \in {"complete", "cancel"} : Start(r, kind, Source)
    BY <1>2 DEF Start, Idle
  <1>3. CASE GiveUp(r) \/ Acquire(r)
    BY <1>3 DEF GiveUp, Idle, Acquire, Acquirable, Goto
  <1>4. CASE Read(r)
    BY <1>4 DEF Read, Goto
  <1>5. CASE RecordPart(r) \/ PrepareSource(r)
    BY <1>5 DEF RecordPart, PrepareSource, WriteRow, Goto
  <1>6. CASE Own(r)
    BY <1>6, OwnFrame DEF Owns
  <1>7. CASE Fence(r)
    BY <1>7 DEF Fence, AssertOwned, Owns, Goto
  <1>8. CASE OwnCleanup(r)
    BY <1>8 DEF OwnCleanup, AssertOwned, Owns, Goto
  <1>9. CASE Enter(r)
    BY <1>9 DEF Enter, Goto
  <1>10. CASE Stage(r)
    BY <1>10 DEF Stage, Goto
  <1>11. CASE Merge(r)
    BY <1>11 DEF Merge, DropStaging, Goto
  <1>12. CASE Abandon(r)
    BY <1>12 DEF Abandon, DropStaging, Goto
  <1>13. CASE Link(r)
    BY <1>13 DEF Link, DropStaging, Goto
  <1>14. CASE Published(r)
    BY <1>14 DEF Published, Owns, Goto
  <1>15. CASE Undo(r)
    BY <1>15 DEF Undo, Remove, Goto
  <1>own. CASE Queue(r) \/ CancelOwned(r)
    BY <1>own DEF Queue, CancelOwned, Goto
  <1>17. CASE ListRecords(r)
    BY <1>17 DEF ListRecords, Recorded, AfterRecords, Goto
  <1>18. CASE Unlink(r)
    BY <1>18, UnlinkFrame
  <1>19. CASE ListDirectory(r)
    BY <1>19 DEF ListDirectory
  <1>20. CASE Sweep(r)
    BY <1>20 DEF Sweep
  <1>21. CASE Release(r)
    BY <1>21 DEF Release, Idle
  <1>22. CASE Die(r)
    BY <1>22 DEF Die, Idle, Dead
  <1>. QED BY <1>1, <1>2, <1>3, <1>4, <1>5, <1>6, <1>7, <1>8, <1>9, <1>10, <1>11, <1>12,
      <1>13, <1>14, <1>15, <1>own, <1>17, <1>18, <1>19, <1>20, <1>21, <1>22 DEF RequestStep

\* A publisher passes its fence only as the owner; a cancellation deletes only
\* after it was the owner itself, with the row cancelled.
LEMMA TeardownStep ==
    ASSUME NEW r \in Request, RequestStep(r), slow' = slow,
           AInv, AssemblyTypeOK', \A s \in Request \ {r} : req'[s] = req[s]
    PROVE  TeardownFences' /\ TornDownStaysEmpty'
  <1>. USE ConstantAssumption DEF AInv, AssemblyTypeOK, Activity, File, Cancellable, At, disk,
      Completed, KindsMatch, TeardownFences, NobodyPublishes, Publishing, Deleting,
      TornDownStaysEmpty
  <1>1. CASE \E p \in Part : Start(r, "upload", p)
    BY <1>1 DEF Start, Idle
  <1>2. CASE \E kind \in {"complete", "cancel"} : Start(r, kind, Source)
    BY <1>2 DEF Start, Idle
  <1>3. CASE GiveUp(r) \/ Acquire(r)
    BY <1>3 DEF GiveUp, Idle, Acquire, Acquirable, Goto
  <1>4. CASE Read(r)
    BY <1>4 DEF Read, Goto
  <1>5. CASE RecordPart(r) \/ PrepareSource(r)
    BY <1>5 DEF RecordPart, PrepareSource, WriteRow, Goto
  <1>6. CASE Own(r)
    BY <1>6, OwnFrame DEF Owns
  <1>7. CASE Fence(r)
    BY <1>7 DEF Fence, AssertOwned, Owns, Goto
  <1>8. CASE OwnCleanup(r)
    BY <1>8 DEF OwnCleanup, AssertOwned, Owns, Goto
  <1>9. CASE Enter(r)
    BY <1>9 DEF Enter, Goto
  <1>10. CASE Stage(r)
    BY <1>10 DEF Stage, Goto
  <1>11. CASE Merge(r)
    BY <1>11 DEF Merge, DropStaging, Goto
  <1>12. CASE Abandon(r)
    BY <1>12 DEF Abandon, DropStaging, Goto
  <1>13. CASE Link(r)
    <2>1. /\ At(r, "link") /\ UNCHANGED <<status, rows, dir, lease, history>>
          /\ entries' = entries \ {r} \/ (r \in entries /\ entries' = (entries \ {r}) \cup {req[r].file})
          /\ req' = [req EXCEPT ![r].pc = "published"] \/ req' = [req EXCEPT ![r].pc = "release"]
      BY <1>13 DEF Link, DropStaging, Goto
    <2>2. history.torn => r \notin entries /\ entries' = entries \ {r}
      BY <2>1
    <2>3. NobodyPublishes => NobodyPublishes'
      BY <2>1
    <2>4. \A s \in Request : At(s, "link")' /\ s \in entries' => At(s, "link") /\ s \in entries
      BY <2>1
    <2>. QED BY <2>1, <2>2, <2>3, <2>4
  <1>14. CASE Published(r)
    BY <1>14 DEF Published, Owns, Goto
  <1>15. CASE Undo(r)
    BY <1>15 DEF Undo, Remove, Goto
  <1>own. CASE Queue(r) \/ CancelOwned(r)
    BY <1>own DEF Queue, CancelOwned, Goto
  <1>17. CASE ListRecords(r)
    BY <1>17 DEF ListRecords, Recorded, AfterRecords, Goto
  <1>18. CASE Unlink(r)
    BY <1>18, UnlinkFrame
  <1>19. CASE ListDirectory(r)
    BY <1>19 DEF ListDirectory
  <1>20. CASE Sweep(r)
    BY <1>20 DEF Sweep
  <1>21. CASE Release(r)
    BY <1>21 DEF Release, Idle
  <1>22. CASE Die(r)
    BY <1>22 DEF Die, Idle, Dead
  <1>. QED BY <1>1, <1>2, <1>3, <1>4, <1>5, <1>6, <1>7, <1>8, <1>9, <1>10, <1>11, <1>12,
      <1>13, <1>14, <1>15, <1>own, <1>17, <1>18, <1>19, <1>20, <1>21, <1>22 DEF RequestStep

\* A punctual lease is taken only when nobody is past it.
LEMMA ExclusiveStep ==
    ASSUME NEW r \in Request, RequestStep(r), slow' = slow,
           AInv, AssemblyTypeOK', \A s \in Request \ {r} : req'[s] = req[s]
    PROVE  Exclusive'
  <1>. USE ConstantAssumption DEF AInv, AssemblyTypeOK, Activity, File, Cancellable, At, disk,
      Exclusive, Working
  <1>1. CASE \E p \in Part : Start(r, "upload", p)
    BY <1>1 DEF Start, Idle
  <1>2. CASE \E kind \in {"complete", "cancel"} : Start(r, kind, Source)
    BY <1>2 DEF Start, Idle
  <1>3. CASE GiveUp(r) \/ Acquire(r)
    BY <1>3 DEF GiveUp, Idle, Acquire, Acquirable, Goto
  <1>4. CASE Read(r)
    BY <1>4 DEF Read, Goto
  <1>5. CASE RecordPart(r) \/ PrepareSource(r)
    BY <1>5 DEF RecordPart, PrepareSource, WriteRow, Goto
  <1>6. CASE Own(r)
    BY <1>6, OwnFrame DEF Owns
  <1>7. CASE Fence(r)
    BY <1>7 DEF Fence, AssertOwned, Owns, Goto
  <1>8. CASE OwnCleanup(r)
    BY <1>8 DEF OwnCleanup, AssertOwned, Owns, Goto
  <1>9. CASE Enter(r)
    BY <1>9 DEF Enter, Goto
  <1>10. CASE Stage(r)
    BY <1>10 DEF Stage, Goto
  <1>11. CASE Merge(r)
    BY <1>11 DEF Merge, DropStaging, Goto
  <1>12. CASE Abandon(r)
    BY <1>12 DEF Abandon, DropStaging, Goto
  <1>13. CASE Link(r)
    BY <1>13 DEF Link, DropStaging, Goto
  <1>14. CASE Published(r)
    BY <1>14 DEF Published, Owns, Goto
  <1>15. CASE Undo(r)
    BY <1>15 DEF Undo, Remove, Goto
  <1>own. CASE Queue(r) \/ CancelOwned(r)
    BY <1>own DEF Queue, CancelOwned, Goto
  <1>17. CASE ListRecords(r)
    BY <1>17 DEF ListRecords, Recorded, AfterRecords, Goto
  <1>18. CASE Unlink(r)
    BY <1>18, UnlinkFrame
  <1>19. CASE ListDirectory(r)
    BY <1>19 DEF ListDirectory
  <1>20. CASE Sweep(r)
    BY <1>20 DEF Sweep
  <1>21. CASE Release(r)
    BY <1>21 DEF Release, Idle
  <1>22. CASE Die(r)
    BY <1>22 DEF Die, Idle, Dead
  <1>. QED BY <1>1, <1>2, <1>3, <1>4, <1>5, <1>6, <1>7, <1>8, <1>9, <1>10, <1>11, <1>12,
      <1>13, <1>14, <1>15, <1>own, <1>17, <1>18, <1>19, <1>20, <1>21, <1>22 DEF RequestStep

\* A punctual completion is alone with a row that is uploading until it queues
\* it, or that has expired.
LEMMA StatusStep ==
    ASSUME NEW r \in Request, RequestStep(r), slow' = slow,
           AInv, AssemblyTypeOK', \A s \in Request \ {r} : req'[s] = req[s],
           ~slow, \A s \in Request \ {r} : Working(r) => ~Working(s)
    PROVE  StatusFits(r)'
  <1>. USE ConstantAssumption DEF AInv, AssemblyTypeOK, Activity, File, Cancellable, At, disk,
      StatusFits, Completed, KindsMatch, Intact, Working, BeforeQueued, AfterQueued
  <1>1. CASE \E p \in Part : Start(r, "upload", p)
    BY <1>1 DEF Start, Idle
  <1>2. CASE \E kind \in {"complete", "cancel"} : Start(r, kind, Source)
    BY <1>2 DEF Start, Idle
  <1>3. CASE GiveUp(r) \/ Acquire(r)
    BY <1>3 DEF GiveUp, Idle, Acquire, Acquirable, Goto
  <1>4. CASE Read(r)
    BY <1>4 DEF Read, Goto
  <1>5. CASE RecordPart(r) \/ PrepareSource(r)
    BY <1>5 DEF RecordPart, PrepareSource, WriteRow, Goto
  <1>6. CASE Own(r)
    BY <1>6, OwnFrame DEF Owns
  <1>7. CASE Fence(r)
    BY <1>7 DEF Fence, AssertOwned, Owns, Goto
  <1>8. CASE OwnCleanup(r)
    BY <1>8 DEF OwnCleanup, AssertOwned, Owns, Goto
  <1>9. CASE Enter(r)
    BY <1>9 DEF Enter, Goto
  <1>10. CASE Stage(r)
    BY <1>10 DEF Stage, Goto
  <1>11. CASE Merge(r)
    BY <1>11 DEF Merge, DropStaging, Goto
  <1>12. CASE Abandon(r)
    BY <1>12 DEF Abandon, DropStaging, Goto
  <1>13. CASE Link(r)
    BY <1>13 DEF Link, DropStaging, Goto
  <1>14. CASE Published(r)
    BY <1>14 DEF Published, Owns, Goto
  <1>15. CASE Undo(r)
    BY <1>15 DEF Undo, Remove, Goto
  <1>own. CASE Queue(r) \/ CancelOwned(r)
    BY <1>own DEF Queue, CancelOwned, Goto
  <1>17. CASE ListRecords(r)
    BY <1>17 DEF ListRecords, Recorded, AfterRecords, Goto
  <1>18. CASE Unlink(r)
    BY <1>18, UnlinkFrame
  <1>19. CASE ListDirectory(r)
    BY <1>19 DEF ListDirectory
  <1>20. CASE Sweep(r)
    BY <1>20 DEF Sweep
  <1>21. CASE Release(r)
    BY <1>21 DEF Release, Idle
  <1>22. CASE Die(r)
    BY <1>22 DEF Die, Idle, Dead
  <1>. QED BY <1>1, <1>2, <1>3, <1>4, <1>5, <1>6, <1>7, <1>8, <1>9, <1>10, <1>11, <1>12,
      <1>13, <1>14, <1>15, <1>own, <1>17, <1>18, <1>19, <1>20, <1>21, <1>22 DEF RequestStep

\* A punctual request finds its file where it put it.
LEMMA FileStep ==
    ASSUME NEW r \in Request, RequestStep(r), slow' = slow,
           AInv, AssemblyTypeOK', \A s \in Request \ {r} : req'[s] = req[s],
           ~slow, \A s \in Request \ {r} : Working(r) => ~Working(s)
    PROVE  FileFits(r)'
  <1>. USE ConstantAssumption DEF AInv, AssemblyTypeOK, Activity, File, Cancellable, At, disk,
      FileFits, KindsMatch, Intact, Exclusive, Working
  <1>1. CASE \E p \in Part : Start(r, "upload", p)
    BY <1>1 DEF Start, Idle
  <1>2. CASE \E kind \in {"complete", "cancel"} : Start(r, kind, Source)
    BY <1>2 DEF Start, Idle
  <1>3. CASE GiveUp(r) \/ Acquire(r)
    BY <1>3 DEF GiveUp, Idle, Acquire, Acquirable, Goto
  <1>4. CASE Read(r)
    BY <1>4 DEF Read, Goto
  <1>5. CASE RecordPart(r) \/ PrepareSource(r)
    BY <1>5 DEF RecordPart, PrepareSource, WriteRow, Goto
  <1>6. CASE Own(r)
    BY <1>6, OwnFrame DEF Owns
  <1>7. CASE Fence(r)
    BY <1>7 DEF Fence, AssertOwned, Owns, Goto
  <1>8. CASE OwnCleanup(r)
    BY <1>8 DEF OwnCleanup, AssertOwned, Owns, Goto
  <1>9. CASE Enter(r)
    BY <1>9 DEF Enter, Goto
  <1>10. CASE Stage(r)
    BY <1>10 DEF Stage, Goto
  <1>11. CASE Merge(r)
    BY <1>11 DEF Merge, DropStaging, Goto
  <1>12. CASE Abandon(r)
    BY <1>12 DEF Abandon, DropStaging, Goto
  <1>13. CASE Link(r)
    BY <1>13 DEF Link, DropStaging, Goto
  <1>14. CASE Published(r)
    BY <1>14 DEF Published, Owns, Goto
  <1>15. CASE Undo(r)
    BY <1>15 DEF Undo, Remove, Goto
  <1>own. CASE Queue(r) \/ CancelOwned(r)
    BY <1>own DEF Queue, CancelOwned, Goto
  <1>17. CASE ListRecords(r)
    BY <1>17 DEF ListRecords, Recorded, AfterRecords, Goto
  <1>18. CASE Unlink(r)
    BY <1>18, UnlinkFrame
  <1>19. CASE ListDirectory(r)
    BY <1>19 DEF ListDirectory
  <1>20. CASE Sweep(r)
    BY <1>20 DEF Sweep
  <1>21. CASE Release(r)
    BY <1>21 DEF Release, Idle
  <1>22. CASE Die(r)
    BY <1>22 DEF Die, Idle, Dead
  <1>. QED BY <1>1, <1>2, <1>3, <1>4, <1>5, <1>6, <1>7, <1>8, <1>9, <1>10, <1>11, <1>12,
      <1>13, <1>14, <1>15, <1>own, <1>17, <1>18, <1>19, <1>20, <1>21, <1>22 DEF RequestStep

\* Only a completion queues, with its source in place, and nobody who comes
\* later deletes the source of a queued import.
LEMMA SourceStep ==
    ASSUME NEW r \in Request, RequestStep(r), slow' = slow,
           AInv, AssemblyTypeOK', \A s \in Request \ {r} : req'[s] = req[s]
    PROVE  PunctualQueuedHasSource'
  <1>. USE ConstantAssumption DEF AInv, AssemblyTypeOK, Activity, File, Cancellable, At, disk,
      KindsMatch, TeardownFences, NobodyPublishes, Intact, StatusFits, FileFits, BeforeQueued,
      AfterQueued, PunctualQueuedHasSource, QueuedHasSource, Exclusive, Working, Writing,
      Deleting
  <1>1. CASE \E p \in Part : Start(r, "upload", p)
    BY <1>1 DEF Start, Idle
  <1>2. CASE \E kind \in {"complete", "cancel"} : Start(r, kind, Source)
    BY <1>2 DEF Start, Idle
  <1>3. CASE GiveUp(r) \/ Acquire(r)
    BY <1>3 DEF GiveUp, Idle, Acquire, Acquirable, Goto
  <1>4. CASE Read(r)
    BY <1>4 DEF Read, Goto
  <1>5. CASE RecordPart(r) \/ PrepareSource(r)
    BY <1>5 DEF RecordPart, PrepareSource, WriteRow, Goto
  <1>6. CASE Own(r)
    BY <1>6, OwnFrame DEF Owns
  <1>7. CASE Fence(r)
    BY <1>7 DEF Fence, AssertOwned, Owns, Goto
  <1>8. CASE OwnCleanup(r)
    BY <1>8 DEF OwnCleanup, AssertOwned, Owns, Goto
  <1>9. CASE Enter(r)
    BY <1>9 DEF Enter, Goto
  <1>10. CASE Stage(r)
    BY <1>10 DEF Stage, Goto
  <1>11. CASE Merge(r)
    BY <1>11 DEF Merge, DropStaging, Goto
  <1>12. CASE Abandon(r)
    BY <1>12 DEF Abandon, DropStaging, Goto
  <1>13. CASE Link(r)
    BY <1>13 DEF Link, DropStaging, Goto
  <1>14. CASE Published(r)
    BY <1>14 DEF Published, Owns, Goto
  <1>15. CASE Undo(r)
    BY <1>15 DEF Undo, Remove, Goto
  <1>own. CASE Queue(r) \/ CancelOwned(r)
    BY <1>own DEF Queue, CancelOwned, Goto
  <1>17. CASE ListRecords(r)
    BY <1>17 DEF ListRecords, Recorded, AfterRecords, Goto
  <1>18. CASE Unlink(r)
    BY <1>18, UnlinkFrame
  <1>19. CASE ListDirectory(r)
    BY <1>19 DEF ListDirectory
  <1>20. CASE Sweep(r)
    BY <1>20 DEF Sweep
  <1>21. CASE Release(r)
    BY <1>21 DEF Release, Idle
  <1>22. CASE Die(r)
    BY <1>22 DEF Die, Idle, Dead
  <1>. QED BY <1>1, <1>2, <1>3, <1>4, <1>5, <1>6, <1>7, <1>8, <1>9, <1>10, <1>11, <1>12,
      <1>13, <1>14, <1>15, <1>own, <1>17, <1>18, <1>19, <1>20, <1>21, <1>22 DEF RequestStep

\* The row is queued before the completion's cleanup, and never uploading again.
LEMMA CompletedStep ==
    ASSUME NEW r \in Request, RequestStep(r), slow' = slow,
           AInv, AssemblyTypeOK', \A s \in Request \ {r} : req'[s] = req[s]
    PROVE  CompletedFirst'
  <1>. USE ConstantAssumption DEF AInv, AssemblyTypeOK, Activity, File, Cancellable, Completed,
      At, disk, KindsMatch, AfterQueued, CompletedFirst
  <1>1. CASE \E p \in Part : Start(r, "upload", p)
    BY <1>1 DEF Start, Idle
  <1>2. CASE \E kind \in {"complete", "cancel"} : Start(r, kind, Source)
    BY <1>2 DEF Start, Idle
  <1>3. CASE GiveUp(r) \/ Acquire(r)
    BY <1>3 DEF GiveUp, Idle, Acquire, Acquirable, Goto
  <1>4. CASE Read(r)
    BY <1>4 DEF Read, Goto
  <1>5. CASE RecordPart(r) \/ PrepareSource(r)
    BY <1>5 DEF RecordPart, PrepareSource, WriteRow, Goto
  <1>6. CASE Own(r)
    BY <1>6, OwnFrame DEF Owns
  <1>7. CASE Fence(r)
    BY <1>7 DEF Fence, AssertOwned, Owns, Goto
  <1>8. CASE OwnCleanup(r)
    BY <1>8 DEF OwnCleanup, AssertOwned, Owns, Goto
  <1>9. CASE Enter(r)
    BY <1>9 DEF Enter, Goto
  <1>10. CASE Stage(r)
    BY <1>10 DEF Stage, Goto
  <1>11. CASE Merge(r)
    BY <1>11 DEF Merge, DropStaging, Goto
  <1>12. CASE Abandon(r)
    BY <1>12 DEF Abandon, DropStaging, Goto
  <1>13. CASE Link(r)
    BY <1>13 DEF Link, DropStaging, Goto
  <1>14. CASE Published(r)
    BY <1>14 DEF Published, Owns, Goto
  <1>15. CASE Undo(r)
    BY <1>15 DEF Undo, Remove, Goto
  <1>own. CASE Queue(r) \/ CancelOwned(r)
    BY <1>own DEF Queue, CancelOwned, Goto
  <1>17. CASE ListRecords(r)
    BY <1>17 DEF ListRecords, Recorded, AfterRecords, Goto
  <1>18. CASE Unlink(r)
    BY <1>18, UnlinkFrame
  <1>19. CASE ListDirectory(r)
    BY <1>19 DEF ListDirectory
  <1>20. CASE Sweep(r)
    BY <1>20 DEF Sweep
  <1>21. CASE Release(r)
    BY <1>21 DEF Release, Idle
  <1>22. CASE Die(r)
    BY <1>22 DEF Die, Idle, Dead
  <1>. QED BY <1>1, <1>2, <1>3, <1>4, <1>5, <1>6, <1>7, <1>8, <1>9, <1>10, <1>11, <1>12,
      <1>13, <1>14, <1>15, <1>own, <1>17, <1>18, <1>19, <1>20, <1>21, <1>22 DEF RequestStep

\* While the row is uploading, only the undoing of a part's own upload removes it.
LEMMA OnlyUndoRemoves ==
    ASSUME NEW r \in Request, RequestStep(r), AInv, NEW p \in Part,
           p \in entries, p \notin entries', status' = "uploading"
    PROVE  At(r, "undo") /\ req[r].kind = "upload" /\ req[r].file = p
  <1>. USE ConstantAssumption DEF AInv, AssemblyTypeOK, File, At, disk, KindsMatch
  <1>1. CASE Stage(r) \/ Merge(r) \/ Abandon(r) \/ Link(r)
    BY <1>1 DEF Stage, Merge, Abandon, Link, DropStaging
  <1>2. CASE Undo(r)
    BY <1>2 DEF Undo, Remove
  <1>3. CASE Unlink(r)
    BY <1>3, UnlinkFrame DEF CompletedFirst, AfterQueued, TeardownFences, NobodyPublishes, Deleting
  <1>4. CASE Sweep(r)
    BY <1>4 DEF Sweep, TeardownFences, NobodyPublishes, Deleting
  <1>5. CASE Queue(r) \/ CancelOwned(r) \/ Release(r) \/ Die(r)
    BY <1>5 DEF Queue, CancelOwned, Release, Die
  <1>6. CASE (\E q \in Part : Start(r, "upload", q))
                \/ (\E kind \in {"complete", "cancel"} : Start(r, kind, Source))
                \/ GiveUp(r) \/ Acquire(r) \/ Read(r) \/ Own(r) \/ Fence(r) \/ OwnCleanup(r)
    BY <1>6 DEF Start, GiveUp, Acquire, Read, Own, Fence, OwnCleanup, AssertOwned
  <1>7. CASE RecordPart(r) \/ PrepareSource(r) \/ Enter(r) \/ Published(r)
                \/ ListRecords(r) \/ ListDirectory(r)
    BY <1>7 DEF RecordPart, PrepareSource, WriteRow, Enter, Published, ListRecords, ListDirectory
  <1>. QED BY <1>1, <1>2, <1>3, <1>4, <1>5, <1>6, <1>7 DEF RequestStep

(* A step of a request keeps the invariant.                                *)
LEMMA RequestKeeps ==
    ASSUME AInv, slow' = slow, NEW r \in Request, RequestStep(r)
    PROVE  AInv'
  <1>1. AssemblyTypeOK' /\ \A s \in Request \ {r} : req'[s] = req[s]
    BY OneRequest DEF AInv
  <1>2. KindsMatch' /\ RowFirst' /\ RowsCoverFiles' /\ TeardownFences' /\ TornDownStaysEmpty' /\ Exclusive'
    BY <1>1, KindsStep, RowFirstStep, TeardownStep, ExclusiveStep
  <1>3. PunctualQueuedHasSource' /\ CompletedFirst'
    BY <1>1, SourceStep, CompletedStep
  <1>4. Intact'
    <2>. SUFFICES ASSUME ~slow PROVE \A s \in Request : StatusFits(s)' /\ FileFits(s)'
      BY DEF Intact
    <2>1. \A s \in Request \ {r} : Working(r) => ~Working(s)
      BY DEF AInv, Exclusive
    <2>2. StatusFits(r)' /\ FileFits(r)'
      BY <1>1, <2>1, StatusStep, FileStep
    <2>3. ASSUME NEW s \in Request \ {r} PROVE StatusFits(s)' /\ FileFits(s)'
      <3>1. CASE Working(r)
        BY <1>1, <2>1, <2>3, <3>1 DEF StatusFits, FileFits, Working, BeforeQueued, AfterQueued, At
      <3>2. CASE ~Working(r)
        <4>1. status' = status /\ entries' = entries
          BY <3>2, ConstantAssumption DEF RequestStep, Working, disk, At, Start, GiveUp, Acquire,
              Read,
             RecordPart, PrepareSource, Own, Enter, Stage, Merge, Fence, Abandon, Link, Published, Undo,
             Queue, CancelOwned, OwnCleanup, ListRecords, Unlink, ListDirectory, Sweep, Release, Die
        <4>. QED BY <1>1, <2>3, <4>1 DEF AInv, Intact, StatusFits, FileFits, At
      <3>. QED BY <3>1, <3>2
    <2>. QED BY <2>2, <2>3
  <1>. QED BY <1>1, <1>2, <1>3, <1>4 DEF AInv

(* So do the clock, and whatever else happens to the job.                  *)
LEMMA OthersKeep ==
    ASSUME AInv, slow' = slow, LeaseRunsOut \/ JobMovesOn
    PROVE  AInv'
  <1>. USE DEF AInv, AssemblyTypeOK, At, disk
  <1>1. CASE LeaseRunsOut
    <2>. USE <1>1 DEF LeaseRunsOut
    <2>1. AssemblyTypeOK'
      OBVIOUS
    <2>2. KindsMatch' /\ RowFirst' /\ RowsCoverFiles' /\ TornDownStaysEmpty'
      BY DEF KindsMatch, RowFirst, RowsCoverFiles, TornDownStaysEmpty
    <2>3. TeardownFences'
      BY DEF TeardownFences, NobodyPublishes
    <2>4. Exclusive'
      BY DEF Exclusive, Working
    <2>5. Intact' /\ PunctualQueuedHasSource' /\ CompletedFirst'
      BY DEF Intact, StatusFits, FileFits, PunctualQueuedHasSource, QueuedHasSource,
          CompletedFirst, Working
    <2>. QED BY <2>1, <2>2, <2>3, <2>4, <2>5
  <1>2. CASE JobMovesOn
    <2>. USE <1>2 DEF JobMovesOn, Completed, Cancellable
    <2>1. AssemblyTypeOK'
      OBVIOUS
    <2>2. KindsMatch' /\ RowFirst' /\ RowsCoverFiles' /\ TornDownStaysEmpty'
      BY DEF KindsMatch, RowFirst, RowsCoverFiles, TornDownStaysEmpty
    <2>3. TeardownFences'
      BY DEF TeardownFences, NobodyPublishes
    <2>4. Exclusive'
      BY DEF Exclusive, Working
    <2>5. Intact'
      BY DEF Intact, StatusFits, FileFits
    <2>6. PunctualQueuedHasSource' /\ CompletedFirst'
      BY DEF PunctualQueuedHasSource, QueuedHasSource, CompletedFirst, Working
    <2>. QED BY <2>1, <2>2, <2>3, <2>4, <2>5, <2>6
  <1>. QED BY <1>1, <1>2

(* The invariant of every import's upload, whatever the pace of its requests. *)
THEOREM InductiveInvariant == Spec => []AInv
  <1>1. Init => AInv
    <2>. SUFFICES ASSUME Init PROVE AInv
      OBVIOUS
    <2>1. AssemblyTypeOK
      BY FreshTypes DEF Init, AssemblyTypeOK, Completed, Cancellable
    <2>2. KindsMatch /\ RowFirst /\ RowsCoverFiles /\ TornDownStaysEmpty
      BY DEF Init, Idle, At, KindsMatch, RowFirst, Writing, RowsCoverFiles, TornDownStaysEmpty
    <2>3. TeardownFences /\ Exclusive
      BY DEF Init, Idle, At, TeardownFences, Deleting, Exclusive, Working
    <2>4. Intact /\ PunctualQueuedHasSource /\ CompletedFirst
      BY DEF Init, Idle, At, Intact, StatusFits, FileFits, BeforeQueued, AfterQueued,
             PunctualQueuedHasSource, QueuedHasSource, CompletedFirst
    <2>. QED BY <2>1, <2>2, <2>3, <2>4 DEF AInv
  <1>2. AInv /\ [Next]_vars => AInv'
    <2>. SUFFICES ASSUME AInv, [Next]_vars PROVE AInv'
      OBVIOUS
    <2>1. CASE Next
      BY <2>1, RequestKeeps, OthersKeep DEF Next
    <2>2. CASE UNCHANGED vars
      BY <2>2 DEF vars, AInv, AssemblyTypeOK, KindsMatch, RowFirst, RowsCoverFiles, TeardownFences,
         NobodyPublishes, TornDownStaysEmpty, Exclusive, Working, Intact, StatusFits, FileFits,
         PunctualQueuedHasSource, QueuedHasSource, CompletedFirst, At
    <2>. QED BY <2>1, <2>2
  <1>. QED BY <1>1, <1>2, PTL DEF Spec

(* Manifest first: no canonical file is ever on disk without its row.      *)
THEOREM FilesHaveRows == Spec => []RowsCoverFiles
  BY InductiveInvariant, PTL DEF AInv

(* After a cancellation has seen the directory gone, no request, however   *)
(* late, publishes into it.                                                *)
THEOREM TeardownIsFinal == Spec => []TornDownStaysEmpty
  BY InductiveInvariant, PTL DEF AInv

(* While leases hold, one request at a time is past the lease.             *)
THEOREM LeaseExcludes == Spec => []OneAtATime
  <1>1. AInv => OneAtATime
    BY ConstantAssumption DEF AInv, Exclusive, OneAtATime
  <1>. QED BY <1>1, InductiveInvariant, PTL

(* While leases hold, the source of a queued import is not deleted.        *)
THEOREM SourceIsKept == Spec => []PunctualQueuedHasSource
  BY InductiveInvariant, PTL DEF AInv

(* While an import takes uploads, no completion, no cancellation and no     *)
(* upload of another part takes a part away, at whatever pace.              *)
THEOREM PartsAreSafe == Spec => PartsGoWithTheirUpload
  <1>. DEFINE Safe == \A p \in Part : p \in entries /\ p \notin entries' /\ status' = "uploading" =>
                 \E r \in Request : At(r, "undo") /\ req[r].kind = "upload" /\ req[r].file = p
  <1>1. AInv /\ [Next]_vars => Safe
    <2>. SUFFICES ASSUME AInv, [Next]_vars, NEW p \in Part,
                         p \in entries, p \notin entries', status' = "uploading"
                  PROVE  \E r \in Request : At(r, "undo") /\ req[r].kind = "upload" /\ req[r].file = p
      OBVIOUS
    <2>1. PICK r \in Request : RequestStep(r)
      BY DEF Next, vars, LeaseRunsOut, JobMovesOn, disk
    <2>. QED BY <2>1, OnlyUndoRemoves DEF AInv
  <1>. QED BY <1>1, InductiveInvariant, PTL DEF Spec, Safe, PartsGoWithTheirUpload
=============================================================================
