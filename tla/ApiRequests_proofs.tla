-------------------------- MODULE ApiRequests_proofs --------------------------
(***************************************************************************)
(* The two components whose state is the API's requests in flight.         *)
(*                                                                         *)
(* UploadAdmission, for every finite set of calls and all limits: the      *)
(* slots, the assembly counters and the file handles come back.            *)
(*                                                                         *)
(* SyncStore, for any number of users, operations and requests: the log a  *)
(* device pulls has no gap that is filled later, and no operation in it    *)
(* twice.  StoreInv says why: whoever holds the user's row is the only one *)
(* with sequences that are not committed, and those exceed all committed   *)
(* ones.                                                                   *)
(***************************************************************************)
EXTENDS UploadAdmission, SyncStore, FiniteSetTheorems, TLAPS

-----------------------------------------------------------------------------
(* UploadAdmission.                                                        *)

(* What an admitted call has not given back is what it holds, a call that   *)
(* was never routed through the admission holds nothing, and a handle is   *)
(* open only inside a download.                                            *)
HoldsWhileConnected ==
    \A c \in Call :
        /\ Holds(c) <=> c \in Connected
        /\ call[c].admitted => call[c].at # "auth"
        /\ call[c].at = "idle" => call[c].conn = "closed"

AInv ==
    /\ AdmissionTypeOK
    /\ HoldsWhileConnected
    /\ SlotsFollowConnections
    /\ CountersFollowRequests
    /\ NoHandleLeft

-----------------------------------------------------------------------------
(* A finite set that gains, loses or keeps one element counts accordingly. *)
LEMMA CountOfJoined ==
    ASSUME NEW S, NEW T, NEW c, IsFiniteSet(S), c \notin S, T = S \cup {c}
    PROVE  Cardinality(T) = Cardinality(S) + 1 /\ Cardinality(S) \in Nat
  BY FS_AddElement, FS_CardinalityType

(* The other way round.                                                    *)
LEMMA CountOfLeft ==
    ASSUME NEW S, NEW T, NEW c, IsFiniteSet(S), c \in S, T = S \ {c}
    PROVE  Cardinality(T) = Cardinality(S) - 1 /\ Cardinality(S) \in Nat /\ Cardinality(S) >= 1
  <1>1. IsFiniteSet(T) /\ c \notin T /\ S = T \cup {c}
    BY FS_Subset
  <1>. QED BY <1>1, CountOfJoined, FS_CardinalityType

(* The sets that are counted are sets of calls, hence finite.              *)
LEMMA CountedAreFinite ==
    /\ IsFiniteSet(Connected) /\ IsFiniteSet(InAssembly)
    /\ \A j \in Job : IsFiniteSet(InAssemblyOf(j))
  BY CallAssumption, FS_Subset DEF Connected, InAssembly, InAssemblyOf

-----------------------------------------------------------------------------
(* A step of one call changes its record and no other, and stays in type.  *)
LEMMA OneCall ==
    ASSUME AdmissionTypeOK, NEW c \in Call, AdmissionStep(c)
    PROVE  /\ call' \in [Call -> CallState]
           /\ \A d \in Call \ {c} : call'[d] = call[d]
  <1>. USE DEF AdmissionTypeOK, CallState, Stage, Kind, Counters, MoveTo, CloseFile
  <1>1. CASE \E kind \in Kind, job \in Job : Arrive(c, kind, job)
    BY <1>1 DEF Arrive, Fresh
  <1>2. CASE Refuse(c) \/ Forsake(c) \/ TurnAway(c) \/ Admit(c) \/ AdmitThrows(c)
    BY <1>2 DEF Refuse, Forsake, TurnAway, Admit, AdmitThrows
  <1>3. CASE ReadBody(c) \/ RefuseBody(c)
    BY <1>3 DEF ReadBody, RefuseBody
  <1>4. CASE Finish(c) \/ Close(c)
    BY <1>4 DEF Finish, Close, Release
  <1>5. CASE Retire(c)
    <2>1. NoCall \in CallState
      BY JobAssumption DEF NoCall, Fresh
    <2>. QED BY <1>5, <2>1 DEF Retire
  <1>6. CASE Respond(c) \/ Enter(c) \/ RefuseBusy(c) \/ Leave(c)
    BY <1>6 DEF Respond, Enter, RefuseBusy, Leave
  <1>7. CASE LookUp(c) \/ NotFound(c) \/ OpenFile(c)
    BY <1>7 DEF LookUp, NotFound, OpenFile
  <1>8. CASE Revoked(c) \/ Deliver(c) \/ StreamEnds(c)
    BY <1>8 DEF Revoked, Deliver, StreamEnds
  <1>. QED BY <1>1, <1>2, <1>3, <1>4, <1>5, <1>6, <1>7, <1>8 DEF AdmissionStep

(* What a call holds follows its connection through every step.            *)
LEMMA HoldsStep ==
    ASSUME AInv, NEW c \in Call, AdmissionStep(c)
    PROVE  HoldsWhileConnected'
  <1>. USE DEF AInv, AdmissionTypeOK, CallState, Stage, Kind, HoldsWhileConnected,
               Connected, Holds, Counters, MoveTo, CloseFile, At
  <1>1. ASSUME NEW d \in Call, d # c
        PROVE  /\ Holds(d)' <=> d \in Connected'
               /\ call'[d].admitted => call'[d].at # "auth"
               /\ call'[d].at = "idle" => call'[d].conn = "closed"
    BY <1>1, OneCall
  <1>2. /\ Holds(c)' <=> c \in Connected'
        /\ call'[c].admitted => call'[c].at # "auth"
        /\ call'[c].at = "idle" => call'[c].conn = "closed"
    <2>1. CASE \E kind \in Kind, job \in Job : Arrive(c, kind, job)
      BY <2>1 DEF Arrive, Fresh, Limited
    <2>2. CASE Refuse(c) \/ Forsake(c) \/ TurnAway(c) \/ Admit(c) \/ AdmitThrows(c)
      BY <2>2 DEF Refuse, Forsake, TurnAway, Admit, AdmitThrows, Alive
    <2>3. CASE ReadBody(c) \/ RefuseBody(c)
      BY <2>3 DEF ReadBody, RefuseBody
    <2>4. CASE Finish(c) \/ Close(c)
      BY <2>4 DEF Finish, Close, Release
    <2>5. CASE Retire(c)
      BY <2>5 DEF Retire, NoCall, Fresh
    <2>6. CASE Respond(c) \/ Enter(c) \/ RefuseBusy(c) \/ Leave(c)
      BY <2>6 DEF Respond, Enter, RefuseBusy, Leave
    <2>7. CASE LookUp(c) \/ NotFound(c) \/ OpenFile(c) \/ Revoked(c) \/ Deliver(c) \/ StreamEnds(c)
      BY <2>7 DEF LookUp, NotFound, OpenFile, Revoked, Deliver, StreamEnds
    <2>. QED BY <2>1, <2>2, <2>3, <2>4, <2>5, <2>6, <2>7 DEF AdmissionStep
  <1>. QED BY <1>1, <1>2

(* The slots are counted right after every step.                           *)
LEMMA SlotsStep ==
    ASSUME AInv, NEW c \in Call, AdmissionStep(c)
    PROVE  SlotsFollowConnections' /\ activeUploads' \in Nat
  <1>. USE DEF AInv, AdmissionTypeOK, CallState, Stage, Kind, HoldsWhileConnected,
               SlotsFollowConnections
  <1>f. /\ IsFiniteSet(Connected) /\ MaxConcurrent \in Nat
        /\ activeUploads = Cardinality(Connected) /\ activeUploads <= MaxConcurrent
        /\ activeUploads \in Nat
        /\ \A d \in Call \ {c} : call'[d] = call[d]
        /\ call' \in [Call -> CallState]
    BY CountedAreFinite, OneCall, LimitAssumption
  <1>g. \A d \in Call \ {c} : d \in Connected' <=> d \in Connected
    BY <1>f DEF Connected
  <1>k. ASSUME activeUploads' = activeUploads, c \in Connected' <=> c \in Connected
        PROVE  SlotsFollowConnections' /\ activeUploads' \in Nat
    <2>1. Connected' = Connected
      BY <1>g, <1>k DEF Connected
    <2>. QED BY <2>1, <1>f, <1>k
  <1>1. CASE Admit(c)
    <2>1. /\ c \notin Connected /\ c \in Connected'
          /\ activeUploads' = activeUploads + 1 /\ activeUploads < MaxConcurrent
      BY <1>1, <1>f DEF Admit, Alive, Full, At, Connected
    <2>2. Connected' = Connected \cup {c}
      BY <1>g, <2>1 DEF Connected
    <2>3. Cardinality(Connected') = Cardinality(Connected) + 1
      BY <1>f, <2>1, <2>2, CountOfJoined
    <2>. QED BY <2>1, <2>3, <1>f
  <1>2. CASE Finish(c) \/ Close(c)
    <2>1. /\ c \notin Connected'
          /\ activeUploads' = IF c \in Connected THEN activeUploads - 1 ELSE activeUploads
      BY <1>2, <1>f DEF Finish, Close, Release, At, Connected
    <2>2. CASE c \in Connected
      <3>1. Connected' = Connected \ {c}
        BY <1>g, <2>1, <2>2 DEF Connected
      <3>2. /\ Cardinality(Connected') = Cardinality(Connected) - 1
            /\ Cardinality(Connected) \in Nat /\ Cardinality(Connected) >= 1
        BY <1>f, <2>2, <3>1, CountOfLeft
      <3>. QED BY <2>1, <2>2, <3>2, <1>f
    <2>. QED BY <2>1, <2>2, <1>k
  <1>3. CASE \E kind \in Kind, job \in Job : Arrive(c, kind, job)
    BY <1>3, <1>k DEF Arrive, Fresh, Connected, At, Counters
  <1>4. CASE Refuse(c) \/ Forsake(c) \/ TurnAway(c) \/ AdmitThrows(c) \/ ReadBody(c) \/ RefuseBody(c)
    BY <1>4, <1>k DEF Refuse, Forsake, TurnAway, AdmitThrows, ReadBody, RefuseBody,
                      Connected, At, MoveTo, Counters
  <1>5. CASE Retire(c)
    BY <1>5, <1>k DEF Retire, NoCall, Fresh, Connected, Counters
  <1>6. CASE Respond(c) \/ Enter(c) \/ RefuseBusy(c) \/ Leave(c)
    BY <1>6, <1>k DEF Respond, Enter, RefuseBusy, Leave, Connected, At, MoveTo, Counters
  <1>7. CASE LookUp(c) \/ NotFound(c) \/ OpenFile(c) \/ Revoked(c) \/ Deliver(c) \/ StreamEnds(c)
    BY <1>7, <1>k DEF LookUp, NotFound, OpenFile, Revoked, Deliver, StreamEnds,
                      CloseFile, Connected, At, MoveTo, Counters
  <1>. QED BY <1>1, <1>2, <1>3, <1>4, <1>5, <1>6, <1>7 DEF AdmissionStep

(* The counters of requests under the lease are right after every step.    *)
LEMMA CountersStep ==
    ASSUME AInv, NEW c \in Call, AdmissionStep(c)
    PROVE  CountersFollowRequests' /\ activeAssembly' \in Nat /\ byJob' \in [Job -> Nat]
  <1>. USE DEF AInv, AdmissionTypeOK, CallState, Stage, Kind, CountersFollowRequests
  <1>f. /\ IsFiniteSet(InAssembly) /\ MaxPerJob \in Nat
        /\ \A j \in Job : IsFiniteSet(InAssemblyOf(j))
        /\ activeAssembly = Cardinality(InAssembly) /\ activeAssembly \in Nat
        /\ \A j \in Job : byJob[j] = Cardinality(InAssemblyOf(j)) /\ byJob[j] <= MaxPerJob
        /\ byJob \in [Job -> Nat]
        /\ \A d \in Call \ {c} : call'[d] = call[d]
        /\ call' \in [Call -> CallState] /\ call \in [Call -> CallState]
    BY CountedAreFinite, OneCall, LimitAssumption
  <1>g. \A d \in Call \ {c} :
          /\ d \in InAssembly' <=> d \in InAssembly
          /\ \A j \in Job : d \in InAssemblyOf(j)' <=> d \in InAssemblyOf(j)
    BY <1>f DEF InAssembly, InAssemblyOf
  <1>k. ASSUME UNCHANGED <<activeAssembly, byJob>>, call[c].at # "assembly", call'[c].at # "assembly"
        PROVE  CountersFollowRequests' /\ activeAssembly' \in Nat /\ byJob' \in [Job -> Nat]
    <2>1. InAssembly' = InAssembly
      BY <1>g, <1>k DEF InAssembly
    <2>2. ASSUME NEW j \in Job PROVE InAssemblyOf(j)' = InAssemblyOf(j)
      BY <1>f, <1>k, <2>1 DEF InAssemblyOf, InAssembly
    <2>. QED BY <1>f, <1>k, <2>1, <2>2
  <1>c. ASSUME call[c].at = "assembly", call'[c] = call[c], UNCHANGED <<activeAssembly, byJob>>
        PROVE  CountersFollowRequests' /\ activeAssembly' \in Nat /\ byJob' \in [Job -> Nat]
    <2>1. InAssembly' = InAssembly
      BY <1>g, <1>c DEF InAssembly
    <2>2. ASSUME NEW j \in Job PROVE InAssemblyOf(j)' = InAssemblyOf(j)
      BY <1>f, <1>c, <2>1 DEF InAssemblyOf, InAssembly
    <2>. QED BY <1>f, <1>c, <2>1, <2>2
  <1>1. CASE Enter(c)
    <2>. DEFINE job == call[c].job
    <2>1. /\ c \notin InAssembly /\ c \in InAssembly' /\ job \in Job /\ call'[c].job = job
          /\ activeAssembly' = activeAssembly + 1
          /\ byJob' = [byJob EXCEPT ![job] = @ + 1] /\ byJob[job] < MaxPerJob
      BY <1>1, <1>f DEF Enter, Busy, At, MoveTo, InAssembly
    <2>2. InAssembly' = InAssembly \cup {c}
      BY <1>g, <2>1 DEF InAssembly
    <2>3. Cardinality(InAssembly') = Cardinality(InAssembly) + 1
      BY <1>f, <2>1, <2>2, CountOfJoined
    <2>4. ASSUME NEW j \in Job PROVE byJob'[j] = Cardinality(InAssemblyOf(j)') /\ byJob'[j] <= MaxPerJob
      <3>1. CASE j = job
        <4>1. InAssemblyOf(j)' = InAssemblyOf(j) \cup {c} /\ c \notin InAssemblyOf(j)
          BY <1>g, <2>1, <3>1 DEF InAssemblyOf, InAssembly
        <4>2. Cardinality(InAssemblyOf(j)') = Cardinality(InAssemblyOf(j)) + 1
          BY <1>f, <4>1, CountOfJoined
        <4>. QED BY <1>f, <2>1, <3>1, <4>2
      <3>2. CASE j # job
        <4>1. InAssemblyOf(j)' = InAssemblyOf(j)
          BY <1>g, <2>1, <3>2 DEF InAssemblyOf, InAssembly
        <4>. QED BY <1>f, <2>1, <3>2, <4>1
      <3>. QED BY <3>1, <3>2
    <2>. QED BY <1>f, <2>1, <2>3, <2>4
  <1>2. CASE Leave(c)
    <2>. DEFINE job == call[c].job
    <2>1. /\ c \in InAssembly /\ c \notin InAssembly' /\ job \in Job /\ c \in InAssemblyOf(job)
          /\ activeAssembly' = activeAssembly - 1
          /\ byJob' = [byJob EXCEPT ![job] = IF @ <= 1 THEN 0 ELSE @ - 1]
      BY <1>2, <1>f DEF Leave, LeftAssembly, At, MoveTo, InAssembly, InAssemblyOf
    <2>2. InAssembly' = InAssembly \ {c}
      BY <1>g, <2>1 DEF InAssembly
    <2>3. /\ Cardinality(InAssembly') = Cardinality(InAssembly) - 1
          /\ Cardinality(InAssembly) \in Nat /\ Cardinality(InAssembly) >= 1
      BY <1>f, <2>1, <2>2, CountOfLeft
    <2>4. ASSUME NEW j \in Job PROVE byJob'[j] = Cardinality(InAssemblyOf(j)') /\ byJob'[j] <= MaxPerJob
      <3>1. CASE j = job
        <4>1. InAssemblyOf(j)' = InAssemblyOf(j) \ {c}
          BY <1>g, <2>1, <3>1 DEF InAssemblyOf, InAssembly
        <4>2. /\ Cardinality(InAssemblyOf(j)') = Cardinality(InAssemblyOf(j)) - 1
              /\ Cardinality(InAssemblyOf(j)) \in Nat /\ Cardinality(InAssemblyOf(j)) >= 1
          BY <1>f, <2>1, <3>1, <4>1, CountOfLeft
        <4>3. byJob'[j] = byJob[j] - 1
          BY <1>f, <2>1, <3>1, <4>2
        <4>. QED BY <1>f, <4>2, <4>3
      <3>2. CASE j # job
        <4>1. InAssemblyOf(j)' = InAssemblyOf(j)
          BY <1>g, <2>1, <3>2 DEF InAssemblyOf, InAssembly
        <4>. QED BY <1>f, <2>1, <3>2, <4>1
      <3>. QED BY <3>1, <3>2
    <2>5. byJob' \in [Job -> Nat]
      BY <1>f, <2>1
    <2>. QED BY <1>f, <2>1, <2>3, <2>4, <2>5
  <1>3. CASE Finish(c) \/ Close(c)
    <2>1. /\ UNCHANGED <<activeAssembly, byJob>>
          /\ call'[c].at = call[c].at /\ call'[c].job = call[c].job
      BY <1>3, <1>f DEF Finish, Close, Release
    <2>2. InAssembly' = InAssembly
      BY <1>g, <2>1 DEF InAssembly
    <2>3. ASSUME NEW j \in Job PROVE InAssemblyOf(j)' = InAssemblyOf(j)
      BY <1>f, <2>1, <2>2 DEF InAssemblyOf, InAssembly
    <2>. QED BY <1>f, <2>1, <2>2, <2>3
  <1>4. CASE \E kind \in Kind, job \in Job : Arrive(c, kind, job)
    BY <1>4, <1>k DEF Arrive, Fresh, At, Counters
  <1>5. CASE Refuse(c) \/ Forsake(c) \/ TurnAway(c) \/ Admit(c) \/ AdmitThrows(c)
    BY <1>5, <1>k DEF Refuse, Forsake, TurnAway, Admit, AdmitThrows, At, MoveTo, Counters
  <1>6. CASE ReadBody(c) \/ RefuseBody(c) \/ Respond(c) \/ RefuseBusy(c) \/ Retire(c)
    BY <1>6, <1>k DEF ReadBody, RefuseBody, Respond, RefuseBusy, NotEntered, Retire, NoCall, Fresh,
                      At, MoveTo, Counters
  <1>7. CASE LookUp(c) \/ NotFound(c) \/ OpenFile(c) \/ Revoked(c) \/ Deliver(c) \/ StreamEnds(c)
    BY <1>7, <1>k DEF LookUp, NotFound, OpenFile, Revoked, Deliver, StreamEnds,
                      CloseFile, At, MoveTo, Counters
  <1>. QED BY <1>1, <1>2, <1>3, <1>4, <1>5, <1>6, <1>7 DEF AdmissionStep

(* No step leaves a handle behind.                                         *)
LEMMA HandleStep ==
    ASSUME AInv, NEW c \in Call, AdmissionStep(c)
    PROVE  NoHandleLeft'
  <1>. USE DEF AInv, AdmissionTypeOK, CallState, Stage, Kind, NoHandleLeft, Counters, MoveTo, CloseFile, At
  <1>1. ASSUME NEW d \in Call, d # c
        PROVE  call'[d].handle => At(d, "revalidate")' \/ (At(d, "stream")' /\ ~call'[d].gone)
    BY <1>1, OneCall
  <1>2. call'[c].handle => At(c, "revalidate")' \/ (At(c, "stream")' /\ ~call'[c].gone)
    <2>1. CASE \E kind \in Kind, job \in Job : Arrive(c, kind, job)
      BY <2>1 DEF Arrive, Fresh
    <2>2. CASE Refuse(c) \/ Forsake(c) \/ TurnAway(c) \/ Admit(c) \/ AdmitThrows(c)
      BY <2>2 DEF Refuse, Forsake, TurnAway, Admit, AdmitThrows
    <2>3. CASE ReadBody(c) \/ RefuseBody(c) \/ Retire(c)
      BY <2>3 DEF ReadBody, RefuseBody, Retire, NoCall, Fresh
    <2>4. CASE Finish(c) \/ Close(c)
      BY <2>4 DEF Finish, Close, Release
    <2>5. CASE Respond(c) \/ Enter(c) \/ RefuseBusy(c) \/ Leave(c)
      BY <2>5 DEF Respond, Enter, RefuseBusy, Leave
    <2>6. CASE LookUp(c) \/ NotFound(c) \/ OpenFile(c) \/ Revoked(c) \/ Deliver(c) \/ StreamEnds(c)
      BY <2>6 DEF LookUp, NotFound, OpenFile, Revoked, Deliver, StillThere, StreamEnds
    <2>. QED BY <2>1, <2>2, <2>3, <2>4, <2>5, <2>6 DEF AdmissionStep
  <1>. QED BY <1>1, <1>2

-----------------------------------------------------------------------------
(* The inductive invariant: every counter counts, in every reachable state *)
(* of every number of concurrent calls under any limits.                   *)
LEMMA AdmissionInvariant == AdmissionSpec => []AInv
  <1>1. AdmissionInit => AInv
    <2>. SUFFICES ASSUME AdmissionInit PROVE AInv
      OBVIOUS
    <2>1. AdmissionTypeOK
      BY JobAssumption DEF AdmissionInit, AdmissionTypeOK, NoCall, Fresh, CallState, Stage, Kind
    <2>2. HoldsWhileConnected /\ NoHandleLeft
      BY DEF AdmissionInit, HoldsWhileConnected, NoHandleLeft, Holds, Connected, NoCall, Fresh, At
    <2>3. /\ Connected = {} /\ InAssembly = {} /\ \A j \in Job : InAssemblyOf(j) = {}
      BY DEF AdmissionInit, Connected, InAssembly, InAssemblyOf, NoCall, Fresh
    <2>4. SlotsFollowConnections /\ CountersFollowRequests
      BY <2>3, FS_EmptySet, LimitAssumption
         DEF AdmissionInit, SlotsFollowConnections, CountersFollowRequests
    <2>. QED BY <2>1, <2>2, <2>4 DEF AInv
  <1>2. AInv /\ [AdmissionNext]_admissionVars => AInv'
    <2>. SUFFICES ASSUME AInv, [AdmissionNext]_admissionVars PROVE AInv'
      OBVIOUS
    <2>1. ASSUME NEW c \in Call, AdmissionStep(c) PROVE AInv'
      BY <2>1, OneCall, HoldsStep, SlotsStep, CountersStep, HandleStep DEF AInv, AdmissionTypeOK
    <2>2. CASE UNCHANGED admissionVars
      BY <2>2 DEF AInv, admissionVars, AdmissionTypeOK, HoldsWhileConnected, Holds, Connected,
                  SlotsFollowConnections, CountersFollowRequests, InAssembly, InAssemblyOf,
                  NoHandleLeft, At
    <2>. QED BY <2>1, <2>2 DEF AdmissionNext
  <1>. QED BY <1>1, <1>2, PTL DEF AdmissionSpec

(* Upload slots are exactly the open responses of admitted calls.          *)
THEOREM SlotsComeBack == AdmissionSpec => []SlotsFollowConnections
  <1>1. AInv => SlotsFollowConnections
    BY DEF AInv
  <1>. QED BY <1>1, AdmissionInvariant, PTL

(* The assembly counters are exactly the requests under way.               *)
THEOREM CountersComeBack == AdmissionSpec => []CountersFollowRequests
  <1>1. AInv => CountersFollowRequests
    BY DEF AInv
  <1>. QED BY <1>1, AdmissionInvariant, PTL

(* Every file that a download opened is closed again.                      *)
THEOREM HandlesComeBack == AdmissionSpec => []NoHandleLeft
  <1>1. AInv => NoHandleLeft
    BY DEF AInv
  <1>. QED BY <1>1, AdmissionInvariant, PTL

-----------------------------------------------------------------------------
(* SyncStore.                                                              *)

USE StoreAssumption DEF Event, Phase

\* Initially nothing is locked, handed out or pulled.
LEMMA InitiallyFree == StoreInit => StoreInv
  BY DEF StoreInit, StoreInv, StoreTypeOK, LockHeld, BelowCounter, OwnIsNew, NoEventSkipped,
         OncePerOperation

\* A request that starts holds nothing.
LEMMA BeginPushKeeps == ASSUME StoreInv, NEW r \in Request, BeginPush(r) PROVE StoreInv'
  <1>1. StoreTypeOK' BY DEF BeginPush, StoreInv, StoreTypeOK
  <1>2. LockHeld' BY DEF BeginPush, StoreInv, StoreTypeOK, LockHeld
  <1>3. BelowCounter' BY DEF BeginPush, StoreInv, StoreTypeOK, BelowCounter
  <1>4. OwnIsNew' BY DEF BeginPush, StoreInv, StoreTypeOK, OwnIsNew
  <1>5. NoEventSkipped' BY DEF BeginPush, StoreInv, NoEventSkipped
  <1>6. OncePerOperation' BY DEF BeginPush, StoreInv, OncePerOperation
  <1> QED BY <1>1, <1>2, <1>3, <1>4, <1>5, <1>6 DEF StoreInv

\* The row was free, so no other request has events of this user.
LEMMA LockUserKeeps == ASSUME StoreInv, NEW r \in Request, LockUser(r) PROVE StoreInv'
  <1>1. StoreTypeOK' BY DEF LockUser, StoreInv, StoreTypeOK
  <1>2. LockHeld' BY DEF LockUser, CanLock, StoreInv, StoreTypeOK, LockHeld
  <1>3. BelowCounter' BY DEF LockUser, StoreInv, StoreTypeOK, BelowCounter
  <1>4. OwnIsNew' BY DEF LockUser, StoreInv, StoreTypeOK, OwnIsNew
  <1>5. NoEventSkipped' BY DEF LockUser, StoreInv, NoEventSkipped
  <1>6. OncePerOperation' BY DEF LockUser, StoreInv, OncePerOperation
  <1> QED BY <1>1, <1>2, <1>3, <1>4, <1>5, <1>6 DEF StoreInv

\* The new sequence exceeds everything handed out before it.
LEMMA ApplyKeeps ==
  ASSUME StoreInv, NEW r \in Request, NEW op \in Operation, Apply(r, op) PROVE StoreInv'
  <1>1. StoreTypeOK'
    <2> DEFINE Row == [pc : Phase, user : User, todo : SUBSET Operation, own : SUBSET Event]
               new == [operation |-> op, sequence |-> counter]
    <2>1. request \in [Request -> Row] /\ counter \in Nat /\ new \in Event
      BY DEF StoreInv, StoreTypeOK
    <2>2. request[r] \in Row BY <2>1
    <2>3. counter' \in Nat BY <2>1 DEF Apply
    <2>4. request' \in [Request -> Row]
      <3>1. CASE request' = [request EXCEPT ![r].todo = @ \ {op}]
        BY <2>1, <2>2, <3>1
      <3>2. CASE request' = [request EXCEPT ![r].todo = @ \ {op}, ![r].own = @ \cup {new}]
        BY <2>1, <2>2, <3>2
      <3> QED BY <3>1, <3>2 DEF Apply
    <2>5. UNCHANGED <<events, lock, deviceCursor, seen>> BY DEF Apply
    <2> QED BY <2>3, <2>4, <2>5 DEF StoreInv, StoreTypeOK
  <1>2. LockHeld' BY DEF Apply, StoreInv, StoreTypeOK, LockHeld
  <1>3. BelowCounter' BY DEF Apply, StoreInv, StoreTypeOK, BelowCounter
  <1>4. OwnIsNew'
    <2>1. CASE Known(r, op) BY <2>1 DEF Apply, StoreInv, StoreTypeOK, OwnIsNew
    <2>2. CASE ~Known(r, op)
      <3> DEFINE new == [operation |-> op, sequence |-> counter]
      <3>1. /\ request' = [request EXCEPT ![r].todo = @ \ {op}, ![r].own = @ \cup {new}]
            /\ events' = events
        BY <2>2 DEF Apply
      <3>2. SUFFICES ASSUME NEW q \in Request, NEW e \in request'[q].own
                     PROVE  /\ \A f \in events[request[q].user] :
                                  f.sequence < e.sequence /\ f.operation # e.operation
                            /\ \A f \in request'[q].own :
                                  e.operation = f.operation \/ e.sequence = f.sequence => e = f
        BY <3>1 DEF OwnIsNew, StoreInv, StoreTypeOK
      <3>3. CASE q # r BY <3>1, <3>3 DEF StoreInv, StoreTypeOK, OwnIsNew
      <3>4. CASE q = r
        <4>1. request'[r].own = request[r].own \cup {new}
          BY <3>1 DEF StoreInv, StoreTypeOK
        <4>2. \A f \in events[request[r].user] : f.sequence < counter /\ f.operation # op
          BY <2>2 DEF StoreInv, StoreTypeOK, BelowCounter, Known
        <4>3. \A f \in request[r].own : f.sequence < counter /\ f.operation # op
          BY <2>2 DEF StoreInv, StoreTypeOK, BelowCounter, Known
        <4>4. /\ request[r].own \subseteq Event
              /\ counter \in Nat
          BY DEF StoreInv, StoreTypeOK
        <4> QED BY <3>4, <4>1, <4>2, <4>3, <4>4 DEF StoreInv, OwnIsNew
      <3> QED BY <3>3, <3>4
    <2> QED BY <2>1, <2>2
  <1>5. NoEventSkipped' BY DEF Apply, StoreInv, NoEventSkipped
  <1>6. OncePerOperation' BY DEF Apply, StoreInv, OncePerOperation
  <1> QED BY <1>1, <1>2, <1>3, <1>4, <1>5, <1>6 DEF StoreInv

\* Only the request that ends loses its lock and its own events.
LEMMA EndTransactionKeeps ==
  ASSUME StoreInv, NEW r \in Request, EndTransaction(r)
  PROVE  /\ lock' \in [User -> Request \cup {NoRequest}]
         /\ request' \in [Request ->
              [pc : Phase, user : User, todo : SUBSET Operation, own : SUBSET Event]]
         /\ LockHeld'
         /\ request'[r].own = {}
         /\ \A q \in Request \ {r} : request'[q] = request[q]
         /\ \A q \in Request : request'[q].user = request[q].user
  <1> DEFINE Row == [pc : Phase, user : User, todo : SUBSET Operation, own : SUBSET Event]
             ended == [request[r] EXCEPT !.pc = "idle", !.todo = {}, !.own = {}]
  <1>1. request \in [Request -> Row] /\ lock \in [User -> Request \cup {NoRequest}]
    BY DEF StoreInv, StoreTypeOK
  <1>2. /\ lock' = [u \in User |-> IF lock[u] = r THEN NoRequest ELSE lock[u]]
        /\ request' = [request EXCEPT ![r] = ended]
    BY DEF EndTransaction
  <1>3. ended \in Row /\ ended.own = {} /\ ended.pc = "idle" /\ ended.user = request[r].user
    <2>1. request[r] \in Row BY <1>1
    <2> QED BY <2>1
  <1> HIDE DEF ended
  <1>4. request' \in [Request -> Row] /\ lock' \in [User -> Request \cup {NoRequest}]
    BY <1>1, <1>2, <1>3
  <1>5. request'[r] = ended /\ \A q \in Request \ {r} : request'[q] = request[q]
    BY <1>1, <1>2
  <1>6. LockHeld'
    <2>1. SUFFICES ASSUME NEW q \in Request
                   PROVE  /\ request'[q].pc = "applying" => lock'[request'[q].user] = q
                          /\ request'[q].pc # "applying" => request'[q].own = {}
      BY DEF LockHeld
    <2>2. CASE q = r BY <1>3, <1>5, <2>2
    <2>3. CASE q # r
      <3>1. request'[q] = request[q] /\ request[q].user \in User BY <1>1, <1>5, <2>3
      <3> QED BY <1>2, <2>3, <3>1 DEF StoreInv, LockHeld
    <2> QED BY <2>2, <2>3
  <1> QED BY <1>3, <1>4, <1>5, <1>6

\* Another request that has events of the same user would hold the same lock.
LEMMA OneHolder ==
  ASSUME StoreInv, NEW r \in Request, NEW q \in Request, r # q,
         request[r].pc = "applying", request[q].own # {}
  PROVE  request[q].user # request[r].user
  BY DEF StoreInv, LockHeld

\* What is committed comes after all that was, and after every cursor.
LEMMA CommitKeeps == ASSUME StoreInv, NEW r \in Request, Commit(r) PROVE StoreInv'
  <1> DEFINE u == request[r].user
  <1>1. /\ request[r].pc = "applying"
        /\ events' = [events EXCEPT ![u] = @ \cup request[r].own]
        /\ EndTransaction(r)
        /\ counter' = counter /\ deviceCursor' = deviceCursor /\ seen' = seen
    BY DEF Commit
  <1>2. /\ u \in User
        /\ request[r].own \subseteq Event
        /\ events \in [User -> SUBSET Event]
        /\ events'[u] = events[u] \cup request[r].own
        /\ \A v \in User \ {u} : events'[v] = events[v]
        /\ counter \in Nat /\ deviceCursor \in [User -> Nat]
    BY <1>1 DEF StoreInv, StoreTypeOK
  <1>3. StoreTypeOK' BY <1>1, <1>2, EndTransactionKeeps DEF StoreInv, StoreTypeOK
  <1>4. LockHeld' BY <1>1, EndTransactionKeeps
  <1>5. BelowCounter'
    <2>1. \A v \in User : \A e \in events'[v] : e.sequence < counter
      BY <1>2 DEF StoreInv, BelowCounter
    <2>2. \A q \in Request : \A e \in request'[q].own : 0 < e.sequence /\ e.sequence < counter
      BY <1>1, EndTransactionKeeps DEF StoreInv, BelowCounter
    <2>3. \A v \in User : deviceCursor[v] = 0 \/ \E e \in events'[v] : e.sequence = deviceCursor[v]
      BY <1>2 DEF StoreInv, BelowCounter
    <2>4. counter > 0 BY DEF StoreInv, BelowCounter
    <2>5. counter' = counter /\ deviceCursor' = deviceCursor BY <1>1
    <2> QED BY ONLY <2>1, <2>2, <2>3, <2>4, <2>5 DEF BelowCounter
  <1>6. OwnIsNew'
    <2>1. SUFFICES ASSUME NEW q \in Request, NEW e \in request'[q].own
                   PROVE  /\ \A f \in events'[request'[q].user] :
                                f.sequence < e.sequence /\ f.operation # e.operation
                          /\ \A f \in request'[q].own :
                                e.operation = f.operation \/ e.sequence = f.sequence => e = f
      BY DEF OwnIsNew
    <2>2. q # r /\ request'[q] = request[q] BY <1>1, EndTransactionKeeps
    <2>3. request[q].user # u BY <1>1, <2>2, OneHolder
    <2>4. request[q].user \in User BY DEF StoreInv, StoreTypeOK
    <2>5. events'[request[q].user] = events[request[q].user] BY <1>2, <2>3, <2>4
    <2> QED BY <2>2, <2>5 DEF StoreInv, OwnIsNew
  <1>7. NoEventSkipped'
    <2>1. \A e \in request[r].own : deviceCursor[u] < e.sequence
      <3>1. SUFFICES ASSUME NEW e \in request[r].own PROVE deviceCursor[u] < e.sequence OBVIOUS
      <3>2. CASE deviceCursor[u] = 0 BY <3>2 DEF StoreInv, BelowCounter
      <3>3. CASE \E f \in events[u] : f.sequence = deviceCursor[u] BY <3>3 DEF StoreInv, OwnIsNew
      <3> QED BY <1>2, <3>2, <3>3 DEF StoreInv, BelowCounter
    <2>2. {e \in events'[u] : e.sequence <= deviceCursor[u]} =
             {e \in events[u] : e.sequence <= deviceCursor[u]}
      BY <1>2, <2>1
    <2> QED BY <1>1, <1>2, <2>2 DEF StoreInv, NoEventSkipped
  <1>8. OncePerOperation'
    <2>1. \A e, f \in events'[u] : e.operation = f.operation \/ e.sequence = f.sequence => e = f
      BY <1>2 DEF StoreInv, OwnIsNew, OncePerOperation
    <2> QED BY <1>2, <2>1 DEF StoreInv, OncePerOperation
  <1> QED BY <1>3, <1>4, <1>5, <1>6, <1>7, <1>8 DEF StoreInv

\* A sequence that was handed out and not committed is never used again.
LEMMA RollbackKeeps == ASSUME StoreInv, NEW r \in Request, Rollback(r) PROVE StoreInv'
  <1>1. /\ EndTransaction(r)
        /\ counter' = counter /\ events' = events /\ deviceCursor' = deviceCursor /\ seen' = seen
    BY DEF Rollback
  <1>2. StoreTypeOK' BY <1>1, EndTransactionKeeps DEF StoreInv, StoreTypeOK
  <1>3. LockHeld' BY <1>1, EndTransactionKeeps
  <1>4. BelowCounter' BY <1>1, EndTransactionKeeps DEF StoreInv, BelowCounter
  <1>5. OwnIsNew' BY <1>1, EndTransactionKeeps DEF StoreInv, OwnIsNew
  <1>6. NoEventSkipped' BY <1>1 DEF StoreInv, NoEventSkipped
  <1>7. OncePerOperation' BY <1>1 DEF StoreInv, OncePerOperation
  <1> QED BY <1>2, <1>3, <1>4, <1>5, <1>6, <1>7 DEF StoreInv

\* A page has everything between the old cursor and the new one.
LEMMA PullKeeps == ASSUME StoreInv, NEW u \in User, PullPage(u) PROVE StoreInv'
  <1>1. PICK last \in Later(u) :
          /\ deviceCursor' = [deviceCursor EXCEPT ![u] = last.sequence]
          /\ seen' = [seen EXCEPT ![u] = @ \cup UpTo(u, last)]
    BY DEF PullPage
  <1>2. counter' = counter /\ events' = events /\ lock' = lock /\ request' = request
    BY DEF PullPage
  <1>3. /\ last \in events[u] /\ last \in Event /\ deviceCursor[u] < last.sequence
        /\ events[u] \subseteq Event /\ deviceCursor[u] \in Nat
    BY DEF Later, StoreInv, StoreTypeOK
  <1>4. StoreTypeOK' BY <1>1, <1>2, <1>3 DEF UpTo, Later, StoreInv, StoreTypeOK
  <1>5. LockHeld' BY <1>2 DEF StoreInv, LockHeld
  <1>6. BelowCounter' BY <1>1, <1>2, <1>3 DEF StoreInv, StoreTypeOK, BelowCounter
  <1>7. OwnIsNew' BY <1>2 DEF StoreInv, OwnIsNew
  <1>8. NoEventSkipped'
    <2>1. seen[u] \cup UpTo(u, last) = {e \in events[u] : e.sequence <= last.sequence}
      BY <1>3 DEF UpTo, Later, StoreInv, NoEventSkipped
    <2> QED BY <1>1, <1>2, <2>1 DEF StoreInv, StoreTypeOK, NoEventSkipped
  <1>9. OncePerOperation' BY <1>2 DEF StoreInv, OncePerOperation
  <1> QED BY <1>4, <1>5, <1>6, <1>7, <1>8, <1>9 DEF StoreInv

\* The strengthening holds in every reachable state.
THEOREM StoreInvariant == StoreSpec => []StoreInv
  <1>1. StoreInv /\ [StoreNext]_storeVars => StoreInv'
    <2>1. CASE UNCHANGED storeVars
      BY <2>1 DEF storeVars, StoreInv, StoreTypeOK, LockHeld, BelowCounter, OwnIsNew, NoEventSkipped,
                  OncePerOperation
    <2>2. CASE StoreNext
      BY <2>2, BeginPushKeeps, LockUserKeeps, ApplyKeeps, CommitKeeps, RollbackKeeps, PullKeeps
      DEF StoreNext
    <2> QED BY <2>1, <2>2
  <1> QED BY InitiallyFree, <1>1, PTL DEF StoreSpec

\* A device that pulls past a cursor has been given everything up to it.
THEOREM NothingIsSkipped == StoreSpec => []NoEventSkipped
  BY StoreInvariant, PTL DEF StoreInv

\* A batch that is sent again, even at the same time, is applied once.
THEOREM PushesAreIdempotent == StoreSpec => []OncePerOperation
  BY StoreInvariant, PTL DEF StoreInv

\* InitiallyFree the log is empty.
LEMMA InitRefines == StoreInit => Log!Init
  BY DEF StoreInit, Log!Init

\* Every step of the store is a step of the log, or none.
LEMMA StepRefines ==
  ASSUME StoreInv, StoreInv', [StoreNext]_storeVars PROVE [Log!Next]_(Log!logVars)
  <1>1. CASE \E r \in Request : Commit(r)
    <2>1. PICK r \in Request : Commit(r) BY <1>1
    <2> DEFINE u == request[r].user
    <2>2. /\ u \in User
          /\ request[r].own \subseteq Event
          /\ events' = [events EXCEPT ![u] = @ \cup request[r].own]
          /\ deviceCursor' = deviceCursor /\ seen' = seen
      BY <2>1 DEF Commit, StoreInv, StoreTypeOK
    <2>3. /\ events' \in [User -> SUBSET Event]
          /\ \A v \in User \ {u} : events'[v] = events[v]
          /\ events[u] \subseteq events'[u]
          /\ events'[u] \ events[u] \subseteq request[r].own
      BY <2>2 DEF StoreInv, StoreTypeOK
    <2>4. \A e \in events'[u] \ events[u] :
             /\ \A f \in events[u] : f.sequence < e.sequence /\ f.operation # e.operation
             /\ \A f \in events'[u] \ events[u] :
                   f.sequence = e.sequence \/ f.operation = e.operation => f = e
      BY <2>3 DEF StoreInv, OwnIsNew
    <2>5. Log!Push(u) BY <2>2, <2>3, <2>4 DEF Log!Push, Log!Others, Log!Event
    <2>6. Log!Next BY <2>2, <2>5 DEF Log!Next
    <2> QED BY <2>6
  <1>2. CASE \E u \in User : PullPage(u)
    <2>1. PICK u \in User : PullPage(u) BY <1>2
    <2>2. PICK last \in Later(u) :
            /\ deviceCursor' = [deviceCursor EXCEPT ![u] = last.sequence]
            /\ seen' = [seen EXCEPT ![u] = @ \cup UpTo(u, last)]
      BY <2>1 DEF PullPage
    <2>3. events' = events BY <2>1 DEF PullPage
    <2>4. deviceCursor' \in [User -> Nat] /\ deviceCursor[u] <= deviceCursor'[u]
          /\ \A v \in User \ {u} : deviceCursor'[v] = deviceCursor[v]
      BY <2>2 DEF Later, StoreInv, StoreTypeOK
    <2>5. seen'[u] = {e \in events[u] : e.sequence <= deviceCursor'[u]}
      BY <2>3 DEF StoreInv, NoEventSkipped
    <2>6. seen' = [seen EXCEPT ![u] = {e \in events[u] : e.sequence <= deviceCursor'[u]}]
      BY <2>2, <2>5 DEF StoreInv, StoreTypeOK
    <2>7. Log!Pull(u) BY <2>3, <2>4, <2>6 DEF Log!Pull, Log!Others
    <2>8. Log!Next BY <2>7 DEF Log!Next
    <2> QED BY <2>8
  <1>3. CASE UNCHANGED <<events, deviceCursor, seen>>
    BY <1>3 DEF Log!logVars
  <1>4. \/ \E r \in Request : Commit(r)
        \/ \E u \in User : PullPage(u)
        \/ UNCHANGED <<events, deviceCursor, seen>>
    BY DEF StoreNext, storeVars, BeginPush, LockUser, Apply, Rollback
  <1> QED BY <1>1, <1>2, <1>3, <1>4

\* Concurrent transactions behind one counter implement the append-only log.
THEOREM StoreImplementsLog == StoreSpec => ImplementsLog
  <1> QED BY StoreInvariant, InitRefines, StepRefines, PTL DEF StoreSpec, ImplementsLog, Log!Spec
=============================================================================
