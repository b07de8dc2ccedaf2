--------------------------- MODULE AccountSession ---------------------------
(***************************************************************************)
(* The client's side of the session (AccountSessionService.ets) against    *)
(* DeviceSession: the stored credential, the access token in memory, the   *)
(* single refresh in flight, sign-out, and the lane in which whatever      *)
(* changes the account runs one after the other.                           *)
(*                                                                         *)
(* Every call may fail: the request is not sent, its answer is lost or     *)
(* late, the server fails, a store throws between two steps.  The app may  *)
(* be killed at any time; the credential and the metadata survive.         *)
(***************************************************************************)
EXTENDS DeviceSession, Sequences

VARIABLES
    cred,        \* the refresh token in the asset store
    named,       \* the account's metadata is in the preferences
    access,      \* the token whose access token is in memory
    lane,        \* accountOperationTail: the operations queued, the first one runs
    call,        \* the request whose answer the first operation awaits
    login,       \* the login whose answer the login page awaits
    refreshing,  \* refreshInFlight is set
    signOut,     \* "none", or how far signOut is
    upset        \* auxiliary: a call failed or the app was killed, and no login has
                 \* begun since that found nothing of it left over

clientVars == <<cred, named, access, lane, call, login, refreshing, signOut, upset>>
vars == <<serverVars, clientVars>>

Init ==
    /\ ServerInit
    /\ cred = None /\ access = None /\ call = None /\ login = None
    /\ named = FALSE /\ refreshing = FALSE /\ upset = FALSE
    /\ lane = <<>>
    /\ signOut = "none"

Operation == [op : {"install", "refresh", "signOut"}, token : Request \cup {None}]
SignedIn == cred # None /\ named
Runs(op) == lane # <<>> /\ Head(lane).op = op
Queue(op, token) == Append(lane, [op |-> op, token |-> token])
Installing == \E i \in 1 .. Len(lane) : lane[i].op = "install"
Answered(r) == r # None /\ req[r].pc \in {"ok", "refused", "failed"}

-----------------------------------------------------------------------------
(* The login page: exchange, then installLogin in the lane.                *)

BeginLogin ==
    /\ login = None
    /\ \E r \in Request : Login(r) /\ login' = r
    /\ upset' = (upset /\ (Installing \/ \E r \in Request : Running(r)))
    /\ UNCHANGED <<cred, named, access, lane, call, refreshing, signOut>>

\* installLogin refuses while the account signs out; nobody has the tokens then.
EndLogin ==
    /\ Answered(login)
    /\ lane' = IF At(login, "ok") /\ signOut = "none" THEN Queue("install", login) ELSE lane
    /\ upset' = (upset \/ ~(At(login, "ok") /\ signOut = "none"))
    /\ login' = None
    /\ UNCHANGED <<serverVars, cred, named, access, call, refreshing, signOut>>

\* The page's request times out; its handler goes on.
LoginLost ==
    /\ login # None
    /\ login' = None
    /\ upset' = TRUE
    /\ UNCHANGED <<serverVars, cred, named, access, lane, call, refreshing, signOut>>

\* Fault: the access token of the session before is left in memory.
ClearedLater == TRUE

Cleared == access = None

\* clearMemory: first of all for a login, after clearSession for a sign-out.
ClearMemory ==
    /\ access # None
    /\ \/ Runs("install") /\ cred # Head(lane).token
       \/ Runs("signOut") /\ cred = None
    /\ access' = None
    /\ UNCHANGED <<serverVars, cred, named, lane, call, login, refreshing, signOut, upset>>

SaveLogin ==
    /\ Runs("install") /\ Cleared
    /\ cred # Head(lane).token
    /\ cred' = Head(lane).token
    /\ UNCHANGED <<serverVars, named, access, lane, call, login, refreshing, signOut, upset>>

\* The metadata; the device belongs to an account from here on.
NameAccount ==
    /\ Runs("install") /\ cred = Head(lane).token
    /\ ~named /\ named' = TRUE
    /\ UNCHANGED <<serverVars, cred, access, lane, call, login, refreshing, signOut, upset>>

\* installTokens, which finds the credential that was saved.
FinishLogin ==
    /\ Runs("install") /\ cred = Head(lane).token /\ named
    /\ access' = cred
    /\ lane' = Tail(lane)
    /\ UNCHANGED <<serverVars, cred, named, call, login, refreshing, signOut, upset>>

\* The asset store or the preferences throw; what was done stays.
LoginFails ==
    /\ Runs("install") /\ Cleared
    /\ lane' = Tail(lane)
    /\ upset' = TRUE
    /\ UNCHANGED <<serverVars, cred, named, access, call, login, refreshing, signOut>>

-----------------------------------------------------------------------------
(* The refresh, of which there is one at a time.                           *)

\* Any caller of refresh: joins the one in flight, or queues one.
BeginRefresh ==
    /\ signOut = "none"
    /\ ~refreshing
    /\ refreshing' = TRUE
    /\ lane' = Queue("refresh", None)
    /\ UNCHANGED <<serverVars, cred, named, access, call, login, signOut, upset>>

\* performRefreshExclusive posts the stored credential.
PostRefresh ==
    /\ Runs("refresh")
    /\ call = None
    /\ SignedIn
    /\ \E r \in Request : Present(r, "refresh", cred) /\ call' = r
    /\ UNCHANGED <<cred, named, access, lane, login, refreshing, signOut, upset>>

\* Fault: the flight of a failed refresh is not ended.
LandedIfOk == call # None /\ At(call, "ok")

Landed == TRUE

LeaveRefresh ==
    /\ lane' = Tail(lane)
    /\ refreshing' = ~Landed
    /\ call' = None
    /\ UNCHANGED <<serverVars, login, signOut>>

RefreshSignedOut ==
    /\ Runs("refresh")
    /\ call = None /\ ~SignedIn
    /\ access' = None
    /\ LeaveRefresh
    /\ UNCHANGED <<cred, named, upset>>

\* The new credential is stored; the access token in memory is still the old one's.
RotateCredential ==
    /\ Runs("refresh")
    /\ call # None /\ At(call, "ok") /\ cred # call
    /\ cred' = call
    /\ UNCHANGED <<serverVars, named, access, lane, call, login, refreshing, signOut, upset>>

\* Fault: the tokens are installed, and the credential is not saved.
SavedOrNot == call # None /\ At(call, "ok")

Saved == call # None /\ cred = call

\* installTokens.
FinishRefresh ==
    /\ Runs("refresh")
    /\ Saved
    /\ access' = call
    /\ LeaveRefresh
    /\ UNCHANGED <<cred, named, upset>>

\* A 401 ends the session: clearSession first ...
RefreshRefused ==
    /\ Runs("refresh")
    /\ call # None /\ At(call, "refused") /\ cred # None
    /\ cred' = None
    /\ UNCHANGED <<serverVars, named, access, lane, call, login, refreshing, signOut, upset>>

\* ... then the metadata, unless a sign-out waits, to which it is left ...
ForgetAccount ==
    /\ Runs("refresh")
    /\ call # None /\ cred = None
    /\ named /\ signOut = "none"
    /\ named' = FALSE
    /\ UNCHANGED <<serverVars, cred, access, lane, call, login, refreshing, signOut, upset>>

\* ... and the access token last.
FinishRefused ==
    /\ Runs("refresh")
    /\ call # None /\ cred = None
    /\ ~named \/ signOut # "none"
    /\ access' = None
    /\ LeaveRefresh
    /\ UNCHANGED <<cred, named, upset>>

\* Not sent, not answered in time, or answered with another error; or a store
\* throws after that.  What was done stays, the access token too.
RefreshLost ==
    /\ Runs("refresh")
    /\ SignedIn \/ call # None
    /\ LeaveRefresh
    /\ upset' = TRUE
    /\ UNCHANGED <<cred, named, access>>

-----------------------------------------------------------------------------
(* Sign-out: after the refresh in flight, then in the lane.                *)

BeginSignOut ==
    /\ signOut = "none"
    /\ signOut' = "waits"
    /\ UNCHANGED <<serverVars, cred, named, access, lane, call, login, refreshing, upset>>

\* Fault: the refresh in flight is not waited for.
RefreshOver == ~refreshing

QueueSignOut ==
    /\ signOut = "waits"
    /\ RefreshOver
    /\ signOut' = "queued"
    /\ lane' = Queue("signOut", None)
    /\ UNCHANGED <<serverVars, cred, named, access, call, login, refreshing, upset>>

PostLogout ==
    /\ Runs("signOut")
    /\ call = None
    /\ SignedIn
    /\ \E r \in Request : Present(r, "logout", cred) /\ call' = r
    /\ UNCHANGED <<cred, named, access, lane, login, refreshing, signOut, upset>>

\* Whatever the answer is, and if there is none, the device forgets the session:
\* the credential, then what is in memory (ClearMemory), then cache and metadata.
ForgetCredential ==
    /\ Runs("signOut")
    /\ cred # None
    /\ cred' = None
    /\ call' = None
    /\ UNCHANGED <<serverVars, named, access, lane, login, refreshing, signOut, upset>>

LeaveSignOut ==
    /\ lane' = Tail(lane)
    /\ signOut' = "none"
    /\ call' = None
    /\ UNCHANGED <<serverVars, cred, access, login, refreshing>>

FinishSignOut ==
    /\ Runs("signOut")
    /\ cred = None /\ Cleared
    /\ named' = FALSE
    /\ LeaveSignOut
    /\ UNCHANGED upset

\* A store throws: the credential is still there, or the metadata is.
SignOutFails ==
    /\ Runs("signOut")
    /\ cred # None \/ Cleared
    /\ LeaveSignOut
    /\ upset' = TRUE
    /\ UNCHANGED named

-----------------------------------------------------------------------------
\* Whoever asks for the access token while nobody is signed in clears it.
ForgetAccess ==
    /\ signOut = "none" /\ ~SignedIn /\ access # None
    /\ access' = None
    /\ UNCHANGED <<serverVars, cred, named, lane, call, login, refreshing, signOut, upset>>

\* The app is killed and started again.
Kill ==
    /\ access' = None
    /\ lane' = <<>>
    /\ call' = None
    /\ login' = None
    /\ refreshing' = FALSE
    /\ signOut' = "none"
    /\ upset' = TRUE
    /\ UNCHANGED <<serverVars, cred, named>>

LaneStep ==
    \/ ClearMemory \/ SaveLogin \/ NameAccount \/ FinishLogin \/ LoginFails
    \/ PostRefresh \/ RefreshSignedOut \/ RotateCredential \/ FinishRefresh
    \/ RefreshRefused \/ ForgetAccount \/ FinishRefused \/ RefreshLost
    \/ QueueSignOut \/ PostLogout \/ ForgetCredential \/ FinishSignOut \/ SignOutFails

ClientNext ==
    \/ BeginLogin \/ EndLogin \/ LoginLost \/ BeginRefresh \/ BeginSignOut
    \/ LaneStep \/ ForgetAccess \/ Kill

Next == (ServerStep /\ UNCHANGED clientVars) \/ ClientNext

\* The app runs what is queued; a call that is not answered times out.
Spec == Init /\ [][Next]_vars /\ WF_vars(LaneStep)

-----------------------------------------------------------------------------
\* Every variable of the app holds a value of its kind.
TypeOK ==
    /\ {cred, access, call, login} \subseteq Request \cup {None}
    /\ {named, refreshing, upset} \subseteq BOOLEAN
    /\ signOut \in {"none", "waits", "queued"}
    /\ lane \in Seq(Operation)

\* If no call has failed, the credential on the device is the one the server
\* would accept: a rotation, a login or a sign-out in between does not cost the
\* user the session.
CredentialIsLive ==
    SignedIn /\ ~upset /\ call = None /\ login = None /\ lane = <<>> =>
        Active(req[cred].gen) /\ session[cred] \in {"live", "expired"}

\* The access token in memory is of the session whose credential is stored, perhaps
\* of an earlier rotation of it: no token of a session that was signed out, refused
\* or replaced by a login is handed out beside the credential of another
\* (installLogin, performRefreshExclusive, performSignOutExclusive, accessToken),
\* whichever of their awaits throws, and wherever the app is killed.
AccessIsOfSession == access # None /\ cred # None => req[access].gen = req[cred].gen

\* A sign-out comes to its end, whatever it meets in the lane.
SignOutEnds == signOut # "none" ~> signOut = "none"
=============================================================================
