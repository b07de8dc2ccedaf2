--------------------------- MODULE DeviceSession ---------------------------
(***************************************************************************)
(* The server's side of the sessions of one user's device: the devices row *)
(* with its session generation, the sessions rows of the refresh tokens,   *)
(* and the login, refresh and logout handlers of auth.service.ts over      *)
(* typeorm-device-session.store.ts.  Handlers run concurrently: a client   *)
(* that gave a request up leaves its handler running.                      *)
(*                                                                         *)
(* Requests are numbered in the order they are made.  Every login and      *)
(* refresh issues one refresh token and every login one generation, both   *)
(* fresh UUIDs, so the request's number names them.                        *)
(***************************************************************************)
EXTENDS Naturals

CONSTANT MaxRequests  \* bound: requests that are ever made

ASSUME MaxRequestsAssumption == MaxRequests \in Nat

Request == 1 .. MaxRequests
None == 0  \* no devices row, no token

VARIABLES
    device,   \* the devices row: session generation, and whether revokedAt is set
    session,  \* the sessions row of every request's token
    req,      \* what every handler is doing, with the token's generation
    made      \* how many requests have been made

serverVars == <<device, session, req, made>>

Handler ==
    [pc : {"idle", "find", "insert", "load", "update", "install", "refresh", "logout",
           "ok", "refused", "failed"},
     kind : {"login", "refresh", "logout"},
     token : Request \cup {None}, gen : Request \cup {None}, seen : BOOLEAN]
Idle == [pc |-> "idle", kind |-> "login", token |-> None, gen |-> None, seen |-> FALSE]

ServerInit ==
    /\ device = [gen |-> None, revoked |-> FALSE]
    /\ session = [r \in Request |-> "none"]
    /\ req = [r \in Request |-> Idle]
    /\ made = 0

At(r, pc) == req[r].pc = pc
Goto(r, pc) == req' = [req EXCEPT ![r].pc = pc]

\* isDeviceActive, and the condition on the locked row of every transaction.
Active(gen) == device.gen = gen /\ gen # None /\ ~device.revoked

\* AccessTokenGuard: the access token that request r was answered with is let in.
Admitted(r) == Active(req[r].gen)

\* Rows whose revokedAt is NULL; an expired one still counts.
Unrevoked == {t \in Request : session[t] \in {"live", "expired"}}
Revoking(tokens) == [t \in Request |-> IF t \in tokens THEN "revoked" ELSE session[t]]

-----------------------------------------------------------------------------
(* Login: registerDevice, then replaceRefreshToken.                        *)

Made(r) == made < MaxRequests /\ r = made + 1 /\ made' = r

\* Fault: an existing device keeps its generation.
KeptGeneration(r) == IF device.gen = None THEN r ELSE device.gen

NewGeneration(r) == r

Login(r) ==
    /\ Made(r)
    /\ req' = [req EXCEPT ![r] = [Idle EXCEPT !.pc = "find", !.gen = r]]
    /\ UNCHANGED <<device, session>>

FindDevice(r) ==
    /\ At(r, "find")
    /\ Goto(r, IF device.gen = None THEN "insert" ELSE "load")
    /\ UNCHANGED <<device, session, made>>

\* uq_device_user_key refuses the second row; the row that won is read again.
InsertDevice(r) ==
    /\ At(r, "insert")
    /\ IF device.gen = None
       THEN device' = [gen |-> r, revoked |-> FALSE] /\ Goto(r, "install")
       ELSE Goto(r, "load") /\ UNCHANGED device
    /\ UNCHANGED <<session, made>>

\* save() reads the row once more, to compare: only columns that differ are written.
LoadDevice(r) ==
    /\ At(r, "load")
    /\ req' = [req EXCEPT ![r].pc = "update", ![r].seen = device.revoked]
    /\ UNCHANGED <<device, session, made>>

UpdateDevice(r) ==
    /\ At(r, "update")
    /\ device' = [gen |-> NewGeneration(r), revoked |-> device.revoked /\ ~req[r].seen]
    /\ req' = [req EXCEPT ![r].pc = "install", ![r].gen = NewGeneration(r)]
    /\ UNCHANGED <<session, made>>

\* Fault: the sessions of earlier logins are left as they are.
NothingReplaced == {}

Replaced == Unrevoked

InstallToken(r) ==
    /\ At(r, "install")
    /\ IF Active(req[r].gen)
       THEN session' = [Revoking(Replaced) EXCEPT ![r] = "live"] /\ Goto(r, "ok")
       ELSE Goto(r, "refused") /\ UNCHANGED session
    /\ UNCHANGED <<device, made>>

-----------------------------------------------------------------------------
(* Refresh and logout present a token that an earlier request was given.   *)

Present(r, kind, token) ==
    /\ Made(r)
    /\ session[token] # "none"
    /\ req' = [req EXCEPT ![r] =
          [pc |-> kind, kind |-> kind, token |-> token, gen |-> req[token].gen, seen |-> FALSE]]
    /\ UNCHANGED <<device, session>>

\* Fault: the number of rows the UPDATE changed is not looked at.
ConsumableAnyway(r) == Active(req[r].gen)

\* The device is locked and active, and the UPDATE of the session changes a row.
Consumable(r) == Active(req[r].gen) /\ session[req[r].token] = "live"

Rotate(r) ==
    /\ At(r, "refresh")
    /\ IF Consumable(r)
       THEN session' = [Revoking({req[r].token}) EXCEPT ![r] = "live"] /\ Goto(r, "ok")
       ELSE Goto(r, "refused") /\ UNCHANGED session
    /\ UNCHANGED <<device, made>>

\* Fault: the sessions are revoked, and the device is not.
ActiveDevice == device

RevokedDevice == [device EXCEPT !.revoked = TRUE]

Revoke(r) ==
    /\ At(r, "logout")
    /\ IF Consumable(r)
       THEN device' = RevokedDevice /\ session' = Revoking(Unrevoked) /\ Goto(r, "ok")
       ELSE Goto(r, "refused") /\ UNCHANGED <<device, session>>
    /\ UNCHANGED made

-----------------------------------------------------------------------------
Running(r) == req[r].pc \in {"find", "insert", "load", "update", "install", "refresh", "logout"}

\* The database fails or the process is killed; a transaction is rolled back.
HandlerFails(r) == Running(r) /\ Goto(r, "failed") /\ UNCHANGED <<device, session, made>>

\* Thirty days pass.
Expire(t) ==
    /\ session[t] = "live"
    /\ session' = [session EXCEPT ![t] = "expired"]
    /\ UNCHANGED <<device, req, made>>

HandlerStep(r) ==
    \/ FindDevice(r) \/ InsertDevice(r) \/ LoadDevice(r) \/ UpdateDevice(r) \/ InstallToken(r)
    \/ Rotate(r) \/ Revoke(r) \/ HandlerFails(r)

ServerStep == \E r \in Request : HandlerStep(r) \/ Expire(r)

\* Whoever was given a token may present it at any time, and as often as he likes.
ServerNext ==
    \/ ServerStep
    \/ \E r \in Request : Login(r)
    \/ \E r, t \in Request : \E kind \in {"refresh", "logout"} : Present(r, kind, t)

ServerSpec == ServerInit /\ [][ServerNext]_serverVars

-----------------------------------------------------------------------------
\* Every variable of the server holds a value of its kind.
ServerTypeOK ==
    /\ device \in [gen : Request \cup {None}, revoked : BOOLEAN]
    /\ session \in [Request -> {"none", "live", "expired", "revoked"}]
    /\ req \in [Request -> Handler]
    /\ made \in 0 .. MaxRequests

\* However logins, refreshes and logouts of a device overlap, at most one
\* refresh token of the device can be used (replaceRefreshToken, rotateRefreshToken).
SingleLiveSession == \A t, u \in Request : session[t] = "live" /\ session[u] = "live" => t = u

\* "allows a refresh token to be consumed only once": no two requests that
\* presented the same token succeed, whether they refresh or log out.
SingleUse ==
    \A r, s \in Request :
        /\ At(r, "ok") /\ At(s, "ok")
        /\ req[r].token = req[s].token /\ req[r].token # None
        => r = s

\* After a logout has succeeded, neither the access tokens nor the refresh
\* tokens of its generation are accepted, whatever was still running.
LogoutIsFinal ==
    \A r \in Request :
        At(r, "ok") /\ req[r].kind = "logout" =>
            /\ ~Admitted(r)
            /\ \A t \in Request : At(t, "ok") /\ req[t].gen = req[r].gen => session[t] # "live"

\* A generation that was replaced or revoked is never active again: a client
\* that was once refused is refused for good (AccessTokenGuard, rotateRefreshToken).
GenerationsDoNotReturn ==
    [][\A r \in Request :
          At(r, "ok") /\ ~Admitted(r) => ~Admitted(r)']_serverVars
=============================================================================
