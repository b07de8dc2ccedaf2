--------------------------- MODULE UploadAdmission ---------------------------
(***************************************************************************)
(* The in-process resources that the API's HTTP calls take and must give   *)
(* back: the upload slots of ImportUploadAdmissionService, the counters of *)
(* withAssemblyLeaseRetry, and the file handle of an artifact download.    *)
(* The client may drop the connection at any step; the handler goes on.    *)
(***************************************************************************)
EXTENDS Naturals, FiniteSets

CONSTANTS
    Call,           \* the calls that may be under way at one time
    Job,
    MaxConcurrent,  \* ImportUploadAdmissionService.maxConcurrent
    MaxActive,      \* MAX_ACTIVE_ASSEMBLY_REQUESTS
    MaxPerJob       \* MAX_ACTIVE_ASSEMBLY_REQUESTS_PER_JOB

ASSUME CallAssumption == IsFiniteSet(Call)
ASSUME JobAssumption == Job # {}
ASSUME LimitAssumption == {MaxConcurrent, MaxActive, MaxPerJob} \subseteq Nat \ {0}

VARIABLES
    activeUploads,   \* slots taken
    activeAssembly,  \* activeAssemblyRequests
    byJob,           \* activeAssemblyRequestsByJob, 0 for a missing key
    call             \* what every call is doing

admissionVars == <<activeUploads, activeAssembly, byJob, call>>

Kind == {"part", "confirm", "complete", "cancel", "download"}

\* The routes with a body parser of their own, and the ones under the lease.
Limited == {"part", "confirm"}
Assembled == {"part", "complete", "cancel"}

Stage == {"idle", "auth", "body", "handler", "assembly", "lookup", "revalidate",
          "stream", "answer", "thrown"}
CallState ==
    [at : Stage, kind : Kind, job : Job, conn : {"open", "finished", "closed"},
     admitted : BOOLEAN, released : BOOLEAN, handle : BOOLEAN, gone : BOOLEAN]

\* A call whose request and response objects are new.
Fresh(stage, kind, job, conn) ==
    [at |-> stage, kind |-> kind, job |-> job, conn |-> conn,
     admitted |-> FALSE, released |-> FALSE, handle |-> FALSE, gone |-> FALSE]
NoCall == Fresh("idle", "part", CHOOSE j \in Job : TRUE, "closed")

AdmissionInit ==
    /\ activeUploads = 0 /\ activeAssembly = 0
    /\ byJob = [j \in Job |-> 0]
    /\ call = [c \in Call |-> NoCall]

At(c, stage) == call[c].at = stage
MoveTo(c, stage) == call' = [call EXCEPT ![c].at = stage]
Counters == <<activeUploads, activeAssembly, byJob>>

Arrive(c, kind, job) ==
    /\ At(c, "idle")
    /\ call' = [call EXCEPT ![c] =
                  Fresh(IF kind \in Limited THEN "auth" ELSE "handler", kind, job, "open")]
    /\ UNCHANGED Counters

-----------------------------------------------------------------------------
(* The admission middleware and the body parser behind it.                 *)

\* 401, 500 or 415: the token, the session or the encoding is refused.
Refuse(c) == At(c, "auth") /\ MoveTo(c, "answer") /\ UNCHANGED Counters

\* The client left while the session was looked up.
Forsake(c) ==
    At(c, "auth") /\ call[c].conn = "closed" /\ MoveTo(c, "answer") /\ UNCHANGED Counters

Full == activeUploads >= MaxConcurrent

TurnAway(c) ==
    At(c, "auth") /\ call[c].conn = "open" /\ Full /\ MoveTo(c, "answer") /\ UNCHANGED Counters

Alive(c) == call[c].conn = "open"

Admit(c) ==
    /\ At(c, "auth") /\ Alive(c) /\ ~Full
    /\ activeUploads' = activeUploads + 1
    /\ call' = [call EXCEPT ![c].at = "body", ![c].admitted = TRUE]
    /\ UNCHANGED <<activeAssembly, byJob>>

\* next() throws: the slot is given back at once, the listeners stay.
AdmitThrows(c) ==
    /\ At(c, "auth") /\ Alive(c) /\ ~Full
    /\ call' = [call EXCEPT ![c].at = "thrown", ![c].admitted = TRUE, ![c].released = TRUE]
    /\ UNCHANGED Counters

ReadBody(c) == At(c, "body") /\ MoveTo(c, "handler") /\ UNCHANGED Counters

\* 413 or 400: too large, malformed, or cut off.
RefuseBody(c) == At(c, "body") /\ MoveTo(c, "answer") /\ UNCHANGED Counters

-----------------------------------------------------------------------------
(* The slot follows the response, whatever the handler is doing.           *)

\* Fault: both events of one response give the slot back.
HoldsOnce(c) == call[c].admitted

Holds(c) == call[c].admitted /\ ~call[c].released

Release(c, conn) ==
    /\ activeUploads' = IF Holds(c) THEN activeUploads - 1 ELSE activeUploads
    /\ call' = [call EXCEPT ![c].conn = conn, ![c].released = @ \/ call[c].admitted,
                            ![c].gone = @ \/ (conn = "closed" /\ call[c].at \in {"lookup", "revalidate"})]
    /\ UNCHANGED <<activeAssembly, byJob>>

Finish(c) == At(c, "answer") /\ call[c].conn = "open" /\ Release(c, "finished")

\* The end of a finished response, or a client that goes away at any time.
Close(c) == ~At(c, "idle") /\ call[c].conn # "closed" /\ Release(c, "closed")

Retire(c) ==
    /\ call[c].at \in {"answer", "thrown"} /\ call[c].conn = "closed"
    /\ call' = [call EXCEPT ![c] = NoCall]
    /\ UNCHANGED Counters

-----------------------------------------------------------------------------
(* The handlers.                                                           *)

\* A guard, a validation or a look at the import refuses; or a confirmation is done.
Respond(c) == At(c, "handler") /\ MoveTo(c, "answer") /\ UNCHANGED Counters

Busy(j) == activeAssembly >= MaxActive \/ byJob[j] >= MaxPerJob

Enter(c) ==
    /\ At(c, "handler") /\ call[c].kind \in Assembled
    /\ ~Busy(call[c].job)
    /\ activeAssembly' = activeAssembly + 1
    /\ byJob' = [byJob EXCEPT ![call[c].job] = @ + 1]
    /\ MoveTo(c, "assembly")
    /\ UNCHANGED activeUploads

\* leaveAssemblyRequest
LeftAssembly(j) ==
    /\ activeAssembly' = activeAssembly - 1
    /\ byJob' = [byJob EXCEPT ![j] = IF @ <= 1 THEN 0 ELSE @ - 1]

\* Fault: the refusal takes the same way out as the request that was let in.
LeftOnBusy(c) == LeftAssembly(call[c].job)

NotEntered(c) == UNCHANGED <<activeAssembly, byJob>>

\* 429 from enterAssemblyRequest, which stands before the try.
RefuseBusy(c) ==
    /\ At(c, "handler") /\ call[c].kind \in Assembled
    /\ Busy(call[c].job)
    /\ NotEntered(c)
    /\ MoveTo(c, "answer")
    /\ UNCHANGED activeUploads

\* The operation ends, the wait is over, or the client's absence was noticed.
Leave(c) ==
    /\ At(c, "assembly")
    /\ LeftAssembly(call[c].job)
    /\ MoveTo(c, "answer")
    /\ UNCHANGED activeUploads

-----------------------------------------------------------------------------
(* An artifact download.                                                   *)

LookUp(c) ==
    At(c, "handler") /\ call[c].kind = "download" /\ MoveTo(c, "lookup") /\ UNCHANGED Counters

NotFound(c) == At(c, "lookup") /\ MoveTo(c, "answer") /\ UNCHANGED Counters

OpenFile(c) ==
    /\ At(c, "lookup")
    /\ call' = [call EXCEPT ![c].at = "revalidate", ![c].handle = TRUE]
    /\ UNCHANGED Counters

CloseFile(c) == call' = [call EXCEPT ![c].at = "answer", ![c].handle = FALSE]

\* The row was acknowledged or expired while the file was opened.
Revoked(c) == At(c, "revalidate") /\ CloseFile(c) /\ UNCHANGED Counters

\* Fault: only the listener closes, and it had no handle to close.
StreamedAnyway(c) == TRUE

StillThere(c) == ~call[c].gone

Deliver(c) ==
    /\ At(c, "revalidate")
    /\ IF StillThere(c) THEN MoveTo(c, "stream") ELSE CloseFile(c)
    /\ UNCHANGED Counters

StreamEnds(c) == At(c, "stream") /\ CloseFile(c) /\ UNCHANGED Counters

-----------------------------------------------------------------------------
AdmissionStep(c) ==
    \/ \E kind \in Kind, job \in Job : Arrive(c, kind, job)
    \/ Refuse(c) \/ Forsake(c) \/ TurnAway(c) \/ Admit(c) \/ AdmitThrows(c)
    \/ ReadBody(c) \/ RefuseBody(c)
    \/ Finish(c) \/ Close(c) \/ Retire(c)
    \/ Respond(c) \/ Enter(c) \/ RefuseBusy(c) \/ Leave(c)
    \/ LookUp(c) \/ NotFound(c) \/ OpenFile(c) \/ Revoked(c) \/ Deliver(c) \/ StreamEnds(c)

AdmissionNext == \E c \in Call : AdmissionStep(c)

AdmissionSpec == AdmissionInit /\ [][AdmissionNext]_admissionVars

-----------------------------------------------------------------------------
Connected == {c \in Call : call[c].admitted /\ call[c].conn = "open" /\ call[c].at # "thrown"}
InAssembly == {c \in Call : call[c].at = "assembly"}
InAssemblyOf(j) == {c \in InAssembly : call[c].job = j}

(* A slot is taken exactly while an admitted call's response is open: no    *)
(* order of finish, close and an exception frees it twice or never         *)
(* (ImportUploadAdmissionService.middleware).                              *)
SlotsFollowConnections ==
    activeUploads = Cardinality(Connected) /\ activeUploads <= MaxConcurrent

(* The counters are the calls between enterAssemblyRequest and             *)
(* leaveAssemblyRequest, in all and per import, whichever way they leave:  *)
(* nothing is left over that would turn later requests away for good.      *)
CountersFollowRequests ==
    /\ activeAssembly = Cardinality(InAssembly)
    /\ \A j \in Job : byJob[j] = Cardinality(InAssemblyOf(j)) /\ byJob[j] <= MaxPerJob

(* A download that has ended, or whose client went away while its file was *)
(* being opened, keeps no file open (ImportController.downloadArtifact).   *)
NoHandleLeft ==
    \A c \in Call : call[c].handle =>
        At(c, "revalidate") \/ (At(c, "stream") /\ ~call[c].gone)

AdmissionTypeOK ==
    /\ activeUploads \in Nat /\ activeAssembly \in Nat
    /\ byJob \in [Job -> Nat]
    /\ call \in [Call -> CallState]
=============================================================================
