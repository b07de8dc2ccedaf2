------------------------------ MODULE ReviewSave ------------------------------
(***************************************************************************)
(* One review session of an AI import on the device: the review page, its  *)
(* copy in PdfReviewSessionStore, the checkpoint in the preferences and on *)
(* disk, the question images, and the save lifecycle that takes the text   *)
(* to the server and the images to their place.  The page and the recovery *)
(* that EntryAbility starts in the foreground share one lane per session;  *)
(* the app may be killed between any two steps.                            *)
(***************************************************************************)
EXTENDS Naturals, Sequences

CONSTANTS
    MaxEdits,   \* bound: edits of the draft
    MaxTrouble  \* bound: faults, lost answers and crashes

ASSUME SaveBoundsAssumption == {MaxEdits, MaxTrouble} \subseteq Nat

VARIABLES
    owner,     \* is the session's account the one that is signed in?
    flaky,     \* may a flush of the preferences fail?
    page,      \* the review page
    mem,       \* the session in PdfReviewSessionStore
    prefs,     \* its checkpoint as this process sees it
    disk,      \* its checkpoint as the next process will see it
    cache,     \* are the session's image files in the cache?
    final,     \* are their copies in the account's directory?
    mapped,    \* do device_question_image rows lead to the copies?
    accepted,  \* the versions of the text that the server accepted
    lane,      \* runSessionExclusive: who holds it, and who waits
    proc,      \* what the page's call and the recovery are doing
    trouble    \* faults left

saveVars == <<owner, flaky, page, mem, prefs, disk, cache, final, mapped, accepted,
              lane, proc, trouble>>

Version == 1 .. MaxEdits + 1
Proc == {"page", "recovery"}

\* A session is its stage and the version of its text.
Session(stage, ver) == [stage |-> stage, ver |-> ver]
None == Session("none", 0)

Work == [op |-> "none", at |-> "idle", snap |-> None, work |-> None, fresh |-> FALSE]

SaveInit ==
    /\ owner = TRUE /\ flaky \in BOOLEAN
    /\ page = [at |-> "closed", shown |-> None, doubt |-> TRUE]
    /\ mem = Session("draft", 1)
    /\ prefs = None /\ disk = None
    /\ cache = TRUE /\ final = FALSE /\ mapped = FALSE
    /\ accepted = {}
    /\ lane = <<>>
    /\ proc = [p \in Proc |-> Work]
    /\ trouble = MaxTrouble

\* PdfReviewSessionStore.assertAllowedUpdate
Allowed(next) ==
    mem.stage \in {"none", "draft"} \/
    (mem.ver = next.ver /\ <<mem.stage, next.stage>> \in
        {<<"saving", "saving">>, <<"saving", "saved">>, <<"saved", "saved">>,
         <<"saved", "complete">>, <<"complete", "complete">>})

images == <<cache, final, mapped>>
stores == <<mem, prefs, disk>>

-----------------------------------------------------------------------------
(* The lane, and how a call ends.                                          *)

\* Runs(p, at): p holds the lane and has come to that step.
Runs(p, at) == lane # <<>> /\ Head(lane) = p /\ proc[p].at = at

Goto(p, at) == proc' = [proc EXCEPT ![p].at = at] /\ UNCHANGED <<page, lane>>
With(p, at, work) ==
    proc' = [proc EXCEPT ![p].at = at, ![p].work = work] /\ UNCHANGED <<page, lane>>

\* Every call begins with the checkpoint.
Begun(op, snap) == [Work EXCEPT !.op = op, !.at = "load", !.snap = snap]

Queue(p, op, snap) ==
    /\ proc' = [proc EXCEPT ![p] = Begun(op, snap)]
    /\ lane' = Append(lane, p)

\* Fault: a save that failed leaves the page with its working copy.
ShowSnapshot(p) ==
    /\ page' = [page EXCEPT !.at = "idle", !.shown = proc[p].snap]
    /\ proc' = [proc EXCEPT ![p] = Work]
    /\ lane' = Tail(lane)

\* reconcileReviewState: load again, after whoever waits for the lane.
Reconcile(p) ==
    /\ proc' = [proc EXCEPT ![p] = Begun("load", None)]
    /\ lane' = Append(Tail(lane), p)
    /\ page' = [page EXCEPT !.doubt = TRUE]

\* The call throws: a page that cannot load again stays in doubt.
Fail(p) ==
    CASE proc[p].op = "save" -> Reconcile(p)
      [] proc[p].op \in {"load", "abandon"} ->
            /\ page' = [page EXCEPT !.at = "idle"]
            /\ proc' = [proc EXCEPT ![p] = Work] /\ lane' = Tail(lane)
      [] proc[p].op = "recover" ->
            /\ proc' = [proc EXCEPT ![p] = Work] /\ lane' = Tail(lane)
            /\ UNCHANGED page

\* The call returns, to a page that applies what it is given.
Return(p, result) ==
    /\ proc' = [proc EXCEPT ![p] = Work] /\ lane' = Tail(lane)
    /\ page' = IF p = "recovery" THEN page
               ELSE [at |-> "idle", shown |-> result, doubt |-> FALSE]

-----------------------------------------------------------------------------
(* The review page.                                                        *)

Idle == page.at = "idle"
CanEdit == Idle /\ ~page.doubt /\ page.shown.stage = "draft"

\* onPageShow, or the reload that a page in doubt asks for.
Load ==
    /\ page.at = "closed" \/ (Idle /\ page.doubt)
    /\ Queue("page", "load", None)
    /\ page' = [page EXCEPT !.at = "busy", !.doubt = TRUE]
    /\ UNCHANGED <<owner, flaky, stores, images, accepted, trouble>>

Edit ==
    /\ CanEdit /\ page.shown.ver < MaxEdits + 1
    /\ Allowed(page.shown)
    /\ page' = [page EXCEPT !.shown.ver = @ + 1]
    /\ mem' = page'.shown
    /\ UNCHANGED <<owner, flaky, prefs, disk, images, accepted, lane, proc, trouble>>

\* saveReview: the edits go to the store, the account is looked at, the call queues.
Save ==
    /\ Idle /\ ~page.doubt
    /\ owner /\ (page.shown.stage = "draft" => Allowed(page.shown))
    /\ mem' = IF page.shown.stage = "draft" THEN page.shown ELSE mem
    /\ Queue("page", "save", page.shown)
    /\ page' = [page EXCEPT !.at = "busy"]
    /\ UNCHANGED <<owner, flaky, prefs, disk, images, accepted, trouble>>

\* Refused before the lane: the page loads the state again.
SaveRefused ==
    /\ Idle /\ ~page.doubt
    /\ ~owner \/ (page.shown.stage = "draft" /\ ~Allowed(page.shown))
    /\ Queue("page", "load", None)
    /\ page' = [page EXCEPT !.at = "busy", !.doubt = TRUE]
    /\ UNCHANGED <<owner, flaky, stores, images, accepted, trouble>>

Abandon ==
    /\ CanEdit
    /\ Queue("page", "abandon", page.shown)
    /\ page' = [page EXCEPT !.at = "busy"]
    /\ UNCHANGED <<owner, flaky, stores, images, accepted, trouble>>

\* The way back to the import page is open once the text is on its way.
LeavePage ==
    /\ Idle /\ ~page.doubt /\ page.shown.stage # "draft"
    /\ page' = [page EXCEPT !.at = "closed"]
    /\ UNCHANGED <<owner, flaky, stores, images, accepted, lane, proc, trouble>>

\* resumePendingAiImports: one recovery at a time, for a checkpoint it finds.
Foreground ==
    /\ proc["recovery"].at = "idle"
    /\ owner /\ prefs # None
    /\ Queue("recovery", "recover", None)
    /\ UNCHANGED <<owner, flaky, page, stores, images, accepted, trouble>>

-----------------------------------------------------------------------------
(* Loading the checkpoint, the first step of every call.                   *)

Restore(p) ==
    /\ Runs(p, "load") /\ proc[p].op = "load"
    /\ LET found == IF prefs # None THEN prefs ELSE mem IN
       IF owner /\ found # None /\ Allowed(found)
       THEN Return(p, found) /\ mem' = found
       ELSE Fail(p) /\ mem' = mem
    /\ UNCHANGED <<owner, flaky, prefs, disk, images, accepted, trouble>>

\* Fault: the recovery does not bring the session in memory up to the checkpoint.
NotPut == mem' = mem

PutFound == mem' = prefs

Recover(p) ==
    /\ Runs(p, "load") /\ proc[p].op = "recover" /\ proc[p].snap = None
    /\ IF prefs = None THEN Return(p, None) /\ mem' = mem
       ELSE IF ~owner \/ ~Allowed(prefs) THEN Fail(p) /\ mem' = mem
       ELSE PutFound /\ proc' = [proc EXCEPT ![p].snap = prefs] /\ UNCHANGED <<page, lane>>
    /\ UNCHANGED <<owner, flaky, prefs, disk, images, accepted, trouble>>

\* Where a session of this stage goes on.
After(stage) ==
    CASE stage = "saving" -> "push" [] stage = "saved" -> "copy" [] stage = "complete" -> "again"

\* Fault: the text goes to the server before there is a checkpoint.
PushFirst == "push"

FirstStep == "keep"

\* saveSessionExclusive up to its first stage.
Begin(p) ==
    /\ Runs(p, "load")
    /\ proc[p].op = "save" \/ (proc[p].op = "recover" /\ proc[p].snap # None)
    /\ LET snap == proc[p].snap IN
       CASE ~owner -> Fail(p)
         [] owner /\ prefs # None -> With(p, After(prefs.stage), prefs)
         [] owner /\ prefs = None /\ mem.stage = "complete" -> With(p, "again", mem)
         [] owner /\ prefs = None /\ mem.stage # "complete" /\ snap.stage = "complete" ->
                With(p, "again", snap)
         [] owner /\ prefs = None /\ mem.stage # "complete" /\ snap.stage = "draft" /\ cache ->
                With(p, FirstStep, Session("saving", snap.ver))
         [] OTHER -> Fail(p)
    /\ UNCHANGED <<owner, flaky, stores, images, accepted, trouble>>

-----------------------------------------------------------------------------
(* The stages of the save.                                                 *)

\* put and flush of the preferences; a flush that fails leaves the disk behind.
Stored(p, session, at) ==
    /\ prefs' = session
    /\ \/ disk' = session /\ Goto(p, at) /\ UNCHANGED trouble
       \/ flaky /\ trouble > 0 /\ trouble' = trouble - 1 /\ disk' = disk /\ Fail(p)

Refused(p) == Fail(p) /\ UNCHANGED <<prefs, disk, trouble>>

\* checkpoint.save, in the account's section
Keep(p) ==
    /\ Runs(p, "keep")
    /\ IF owner /\ Allowed(proc[p].work) THEN Stored(p, proc[p].work, "note") ELSE Refused(p)
    /\ UNCHANGED <<owner, flaky, mem, images, accepted>>

Note(p) ==
    /\ Runs(p, "note")
    /\ IF owner /\ Allowed(proc[p].work)
       THEN mem' = proc[p].work /\ Goto(p, After(proc[p].work.stage))
       ELSE mem' = mem /\ Fail(p)
    /\ UNCHANGED <<owner, flaky, prefs, disk, images, accepted, trouble>>

\* createBankWithIds; the answer may be lost after the server has accepted.
Push(p) ==
    /\ Runs(p, "push")
    /\ \/ /\ owner /\ cache
          /\ accepted' = accepted \cup {proc[p].work.ver}
          /\ \/ With(p, "keep", Session("saved", proc[p].work.ver)) /\ UNCHANGED trouble
             \/ trouble > 0 /\ trouble' = trouble - 1 /\ Fail(p)
       \/ ~(owner /\ cache) /\ Fail(p) /\ UNCHANGED <<accepted, trouble>>
    /\ UNCHANGED <<owner, flaky, stores, images>>

\* prepareImageBatch reuses a copy that is already there.
Copy(p) ==
    /\ Runs(p, "copy")
    /\ IF owner /\ cache
       THEN /\ final' = TRUE
            /\ proc' = [proc EXCEPT ![p].at = "map", ![p].fresh = ~final]
            /\ UNCHANGED <<page, lane>>
       ELSE final' = final /\ Fail(p)
    /\ UNCHANGED <<owner, flaky, stores, cache, mapped, accepted, trouble>>

\* Fault: an outcome that is not known is cleaned up like a rolled-back one.
CleanUpAlways(p, outcome) == proc[p].fresh

ShouldCleanUp(p, outcome) == proc[p].fresh /\ outcome = "rolled_back"

\* DeviceImageStore.saveBatch and the handler of its error.
Map(p) ==
    /\ Runs(p, "map")
    /\ \/ /\ mapped' = TRUE
          /\ With(p, "keep", Session("complete", proc[p].work.ver))
          /\ UNCHANGED <<final, trouble>>
       \/ /\ trouble > 0 /\ trouble' = trouble - 1
          /\ \E outcome \in {"rolled_back", "unknown"} :
                /\ mapped' \in IF outcome = "unknown" THEN {mapped, TRUE} ELSE {mapped}
                /\ final' = IF ShouldCleanUp(p, outcome) THEN FALSE ELSE final
          /\ Fail(p)
    /\ UNCHANGED <<owner, flaky, stores, cache, accepted>>

-----------------------------------------------------------------------------
(* The end of the lifecycle: cache, checkpoint, memory.                    *)

Again(p) ==
    /\ Runs(p, "again")
    /\ IF ~owner THEN Fail(p)
       ELSE Goto(p, IF prefs = None THEN "done" ELSE "clean")
    /\ UNCHANGED <<owner, flaky, stores, images, accepted, trouble>>

CleanCache(p, at) ==
    /\ IF owner THEN cache' = FALSE /\ Goto(p, at) ELSE cache' = cache /\ Fail(p)
    /\ UNCHANGED <<owner, flaky, stores, final, mapped, accepted, trouble>>

Clean(p) == Runs(p, "clean") /\ CleanCache(p, "forget")

Forget(p) ==
    /\ Runs(p, "forget")
    /\ IF owner THEN Stored(p, None, "done") ELSE Refused(p)
    /\ UNCHANGED <<owner, flaky, mem, images, accepted>>

\* putCleanupResult
Done(p) ==
    /\ Runs(p, "done")
    /\ IF owner THEN mem' = proc[p].work /\ Return(p, proc[p].work)
       ELSE mem' = mem /\ Fail(p)
    /\ UNCHANGED <<owner, flaky, prefs, disk, images, accepted, trouble>>

-----------------------------------------------------------------------------
(* Abandoning a draft.                                                     *)

BeginAbandon(p) ==
    /\ Runs(p, "load") /\ proc[p].op = "abandon"
    /\ IF owner /\ prefs = None THEN Goto(p, "empty") ELSE Fail(p)
    /\ UNCHANGED <<owner, flaky, stores, images, accepted, trouble>>

EmptyCache(p) == Runs(p, "empty") /\ CleanCache(p, "drop")

Drop(p) ==
    /\ Runs(p, "drop")
    /\ IF owner
       THEN /\ mem' = None
            /\ page' = [page EXCEPT !.at = "gone"]
            /\ proc' = [proc EXCEPT ![p] = Work] /\ lane' = Tail(lane)
       ELSE mem' = mem /\ Fail(p)
    /\ UNCHANGED <<owner, flaky, prefs, disk, images, accepted, trouble>>

-----------------------------------------------------------------------------
(* Trouble.                                                                *)

Trouble == trouble > 0 /\ trouble' = trouble - 1

\* A step throws before it has changed anything, or with the cache half removed.
Fault(p) ==
    /\ lane # <<>> /\ Head(lane) = p
    /\ Trouble
    /\ cache' \in IF proc[p].at \in {"clean", "empty"} THEN {cache, FALSE} ELSE {cache}
    /\ Fail(p)
    /\ UNCHANGED <<owner, flaky, stores, final, mapped, accepted>>

\* The app is killed: what was not flushed is gone, and so is the way to the page.
Crash ==
    /\ Trouble
    /\ page' = [page EXCEPT !.at = "gone"]
    /\ mem' = None /\ prefs' = disk
    /\ lane' = <<>> /\ proc' = [p \in Proc |-> Work]
    /\ UNCHANGED <<owner, flaky, disk, images, accepted>>

\* The user signs out, or in with another account, or back.
SwitchAccount ==
    /\ owner' = ~owner
    /\ UNCHANGED <<flaky, page, stores, images, accepted, lane, proc, trouble>>

-----------------------------------------------------------------------------
LaneStep(p) ==
    \/ Restore(p) \/ Recover(p) \/ Begin(p)
    \/ Keep(p) \/ Note(p) \/ Push(p) \/ Copy(p) \/ Map(p)
    \/ Again(p) \/ Clean(p) \/ Forget(p) \/ Done(p)
    \/ BeginAbandon(p) \/ EmptyCache(p) \/ Drop(p)

SaveNext ==
    \/ Load \/ Edit \/ Save \/ SaveRefused \/ Abandon \/ LeavePage \/ Foreground
    \/ \E p \in Proc : LaneStep(p) \/ Fault(p)
    \/ Crash \/ SwitchAccount

SaveSpec == SaveInit /\ [][SaveNext]_saveVars

-----------------------------------------------------------------------------
(* What the page lets the user edit or abandon has not been saved, nor     *)
(* started to be: no checkpoint would bring another version back, and the  *)
(* server has none (PdfImportReviewPage.canEdit, reconcileReviewState).    *)
EditableIsUnsaved == CanEdit => prefs = None /\ disk = None /\ accepted = {}

(* Once the server has the text, the images are mapped or can still be:    *)
(* the cache is kept and, unless a flush failed, so is the checkpoint that *)
(* a new process starts from (saveSessionExclusive, saveLifecycleExclusive).*)
SavedIsRecoverable ==
    accepted # {} => mapped \/ (cache /\ (flaky \/ disk # None))

(* A row of device_question_image leads to a file, whatever saveBatch said *)
(* and whenever the app was killed (shouldCleanupPreparedFinals).          *)
MappedHasFile == mapped => final

(* A save that has begun is finished, by the page or by the recovery, once *)
(* the account stays signed in; only a flush that fails before the app is  *)
(* killed can stop it, for the cache may be gone (recoverPendingForAccount).*)
EventuallySaved == (~flaky /\ <>[]owner) => []<>(prefs = None)
=============================================================================
