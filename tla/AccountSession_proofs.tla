----------------------- MODULE AccountSession_proofs -----------------------
(***************************************************************************)
(* What holds of the sessions of a device however many requests are made.  *)
(* The server is proved against any client (ServerSpec); the app is shown  *)
(* to be such a client, so that the server's theorems are the app's too.   *)
(* Of the two together: the credential that the app stores stays live while *)
(* nothing fails, and the access token in memory is of its session.        *)
(***************************************************************************)
EXTENDS AccountSession, TLAPS

\* Requests that are not made yet are idle.
UnmadeAreIdle == \A r \in Request : r > made => req[r] = Idle

\* A token has a sessions row once its request has succeeded, and not before.
RowsAreOfAnswers == \A t \in Request : session[t] # "none" => At(t, "ok")

\* What a handler does is what its request asked for; only a login presents no token.
HandlerOfKind ==
    \A r \in Request :
        /\ req[r].pc \in {"find", "insert", "load", "update", "install"} => req[r].kind = "login"
        /\ At(r, "refresh") => req[r].kind = "refresh"
        /\ At(r, "logout") => req[r].kind = "logout"
        /\ req[r].kind = "login" <=> req[r].token = None

\* The generation a login is about to write is its own, and nobody else holds
\* it: other requests only hold generations of logins that were answered.
GenerationsAreOfLogins ==
    /\ \A r \in Request : req[r].pc \in {"find", "insert", "load", "update"} => req[r].gen = r
    /\ \A r \in Request : req[r].gen \notin {None, r} => At(req[r].gen, "ok")

\* The token that a successful refresh or logout presented is revoked.
UsedIsRevoked ==
    \A r \in Request : At(r, "ok") /\ req[r].token # None => session[req[r].token] = "revoked"

\* The inductive invariant of the server.
SInv ==
    /\ ServerTypeOK
    /\ UnmadeAreIdle /\ RowsAreOfAnswers /\ HandlerOfKind /\ GenerationsAreOfLogins
    /\ SingleLiveSession /\ UsedIsRevoked /\ SingleUse /\ LogoutIsFinal

-----------------------------------------------------------------------------
LEMMA RequestFacts == /\ \A r \in Request : r \in Nat /\ r # None
                      /\ None \notin Request
BY MaxRequestsAssumption DEF Request, None

LEMMA HandlerFacts ==
    ASSUME ServerTypeOK, NEW r \in Request
    PROVE  /\ req[r].token \in Request \cup {None}
           /\ req[r].gen \in Request \cup {None}
           /\ session[r] \in {"none", "live", "expired", "revoked"}
BY DEF ServerTypeOK, Handler

\* A handler that runs and moves on, with its kind, token and generation.
Moves(r, st) ==
    /\ Running(r)
    /\ st \in Handler
    /\ st.kind = req[r].kind /\ st.token = req[r].token /\ st.gen = req[r].gen
    /\ st.pc \in {"insert", "load", "update"} =>
          req[r].pc \in {"find", "insert", "load", "update"}
    /\ st.pc = "install" => req[r].kind = "login"
    /\ st.pc \notin {"idle", "find", "refresh", "logout"}
    /\ req' = [req EXCEPT ![r] = st]
    /\ made' = made

\* The part of the invariant that is about the handlers alone survives it.
LEMMA MoveFacts ==
    ASSUME SInv, NEW r \in Request, NEW st, Moves(r, st)
    PROVE  /\ req' \in [Request -> Handler]
           /\ UnmadeAreIdle' /\ HandlerOfKind' /\ GenerationsAreOfLogins'
           /\ ~At(r, "ok") /\ (At(r, "ok")' <=> st.pc = "ok")
           /\ \A s \in Request : s # r => (At(s, "ok")' <=> At(s, "ok"))
           /\ \A s \in Request : /\ req'[s].gen = req[s].gen /\ req'[s].token = req[s].token
                                 /\ req'[s].kind = req[s].kind
<1> USE RequestFacts DEF SInv, Moves
<1>1. req \in [Request -> Handler]
  BY DEF ServerTypeOK
<1>2. req'[r] = st /\ \A s \in Request : s # r => req'[s] = req[s]
  BY <1>1
<1>3. req' \in [Request -> Handler]
  BY <1>1
<1>4. UnmadeAreIdle'
  <2>1. \A s \in Request : s > made => s # r
    BY DEF UnmadeAreIdle, Running, Idle
  <2> QED BY <1>2, <2>1 DEF UnmadeAreIdle
<1>5. /\ ~At(r, "ok") /\ (At(r, "ok")' <=> st.pc = "ok")
      /\ \A s \in Request : s # r => (At(s, "ok")' <=> At(s, "ok"))
  BY <1>2 DEF At, Running
<1>6. \A s \in Request : /\ req'[s].gen = req[s].gen /\ req'[s].token = req[s].token
                         /\ req'[s].kind = req[s].kind
  BY <1>2
<1>7. HandlerOfKind'
  <2>1. ASSUME NEW s \in Request, s # r
        PROVE  /\ req'[s].pc \in {"find", "insert", "load", "update", "install"} =>
                     req'[s].kind = "login"
               /\ At(s, "refresh")' => req'[s].kind = "refresh"
               /\ At(s, "logout")' => req'[s].kind = "logout"
               /\ req'[s].kind = "login" <=> req'[s].token = None
    BY <1>2, <2>1 DEF HandlerOfKind, At
  <2>2. /\ req'[r].pc \in {"find", "insert", "load", "update", "install"} =>
              req'[r].kind = "login"
        /\ ~At(r, "refresh")' /\ ~At(r, "logout")'
        /\ req'[r].kind = "login" <=> req'[r].token = None
    BY <1>2 DEF HandlerOfKind, At
  <2> QED BY <2>1, <2>2 DEF HandlerOfKind
<1>8. GenerationsAreOfLogins'
  <2>1. \A s \in Request : req'[s].pc \in {"find", "insert", "load", "update"} => req'[s].gen = s
    BY <1>2 DEF GenerationsAreOfLogins
  <2>2. ASSUME NEW s \in Request, req'[s].gen \notin {None, s} PROVE At(req[s].gen, "ok")'
    <3>1. req[s].gen \in Request /\ At(req[s].gen, "ok")
      BY <1>6, <2>2, HandlerFacts DEF GenerationsAreOfLogins
    <3> QED BY <1>5, <3>1
  <2> QED BY <1>6, <2>1, <2>2 DEF GenerationsAreOfLogins
<1> QED BY <1>3, <1>4, <1>5, <1>6, <1>7, <1>8

\* A handler that moves on and answers nothing "ok" leaves the rest as it was.
LEMMA QuietStep ==
    ASSUME SInv, NEW r \in Request, NEW st, Moves(r, st), st.pc # "ok",
           UNCHANGED <<device, session>>
    PROVE  SInv'
<1> USE MoveFacts DEF SInv
<1>1. ServerTypeOK'
  BY DEF ServerTypeOK, Moves
<1>2. \A s \in Request : At(s, "ok")' <=> At(s, "ok")
  OBVIOUS
<1>3. RowsAreOfAnswers' /\ SingleLiveSession'
  BY <1>2 DEF RowsAreOfAnswers, SingleLiveSession
<1>4. UsedIsRevoked' /\ SingleUse'
  BY <1>2 DEF UsedIsRevoked, SingleUse
<1>5. LogoutIsFinal'
  BY <1>2 DEF LogoutIsFinal, Admitted, Active
<1> QED BY <1>1, <1>3, <1>4, <1>5

\* A generation that an answered request holds becomes active by no step.
LEMMA AnsweredStayRefused ==
    ASSUME SInv, NEW s \in Request, At(s, "ok"), ~Active(req[s].gen), req'[s] = req[s],
           \/ UNCHANGED device
           \/ device'.revoked
           \/ \E r \in Request : req[r].pc \in {"insert", "update"} /\ device'.gen = r
    PROVE  ~Active(req[s].gen)'
<1>1. ASSUME NEW r \in Request, req[r].pc \in {"insert", "update"}, device'.gen = r
      PROVE  req[s].gen # r
  <2>1. ~At(r, "ok") /\ r # s /\ r # None
    BY <1>1, RequestFacts DEF At
  <2> QED BY <2>1, HandlerFacts DEF SInv, GenerationsAreOfLogins
<1> QED BY <1>1 DEF Active

\* A login or a presentation: one idle handler starts.
Starts(r, st) ==
    /\ made < MaxRequests /\ r = made + 1 /\ made' = r
    /\ st \in Handler
    /\ st.pc \in {"find", "refresh", "logout"}
    /\ st.kind = IF st.pc = "find" THEN "login" ELSE st.pc
    /\ st.kind = "login" <=> st.token = None
    /\ st.gen \notin {None, r} => At(st.gen, "ok")
    /\ st.pc = "find" => st.gen = r
    /\ req' = [req EXCEPT ![r] = st]
    /\ UNCHANGED <<device, session>>

LEMMA StartStep ==
    ASSUME SInv, NEW r \in Request, NEW st, Starts(r, st)
    PROVE  SInv'
<1> USE RequestFacts DEF SInv, Starts
<1>1. req \in [Request -> Handler] /\ made \in 0 .. MaxRequests
  BY DEF ServerTypeOK
<1>2. req[r] = Idle /\ made \in Nat /\ MaxRequests \in Nat
  BY <1>1, MaxRequestsAssumption DEF UnmadeAreIdle
<1>3. req'[r] = st /\ \A s \in Request : s # r => req'[s] = req[s]
  BY <1>1
<1>4. ServerTypeOK'
  <2>1. made' \in 0 .. MaxRequests
    BY <1>2
  <2> QED BY <1>1, <2>1 DEF ServerTypeOK
<1>5. UnmadeAreIdle'
  BY <1>2, <1>3 DEF UnmadeAreIdle
<1>6. \A s \in Request : At(s, "ok")' <=> At(s, "ok")
  BY <1>2, <1>3 DEF At, Idle
<1>7. RowsAreOfAnswers' /\ SingleLiveSession'
  BY <1>6 DEF RowsAreOfAnswers, SingleLiveSession
<1>8. HandlerOfKind'
  <2>1. ASSUME NEW s \in Request, s # r
        PROVE  /\ req'[s].pc \in {"find", "insert", "load", "update", "install"} =>
                     req'[s].kind = "login"
               /\ At(s, "refresh")' => req'[s].kind = "refresh"
               /\ At(s, "logout")' => req'[s].kind = "logout"
               /\ req'[s].kind = "login" <=> req'[s].token = None
    BY <1>3, <2>1 DEF HandlerOfKind, At
  <2> QED BY <1>3, <2>1 DEF HandlerOfKind, At
<1>9. GenerationsAreOfLogins'
  <2>1. \A s \in Request : req'[s].pc \in {"find", "insert", "load", "update"} => req'[s].gen = s
    BY <1>3 DEF GenerationsAreOfLogins
  <2>2. ASSUME NEW s \in Request, req'[s].gen \notin {None, s}
        PROVE  req'[s].gen \in Request /\ At(req'[s].gen, "ok")
    <3>1. CASE s = r
      BY <1>3, <2>2, <3>1 DEF Handler
    <3>2. CASE s # r
      BY <1>3, <2>2, <3>2, HandlerFacts DEF GenerationsAreOfLogins
    <3> QED BY <3>1, <3>2
  <2>3. ASSUME NEW s \in Request, req'[s].gen \notin {None, s} PROVE At(req[s].gen, "ok")'
    <3>1. req'[req'[s].gen].pc = "ok"
      BY <1>6, <2>2, <2>3 DEF At
    <3> QED BY <3>1 DEF At
  <2> QED BY <2>1, <2>3 DEF GenerationsAreOfLogins
<1>10. UsedIsRevoked' /\ SingleUse'
  <2>1. \A s \in Request : At(s, "ok") => req'[s] = req[s]
    BY <1>2, <1>3 DEF At, Idle
  <2> QED BY <1>6, <2>1 DEF UsedIsRevoked, SingleUse
<1>11. LogoutIsFinal'
  <2>1. \A s \in Request : At(s, "ok") => req'[s] = req[s]
    BY <1>2, <1>3 DEF At, Idle
  <2> QED BY <1>6, <2>1 DEF LogoutIsFinal, Admitted, Active
<1> QED BY <1>4, <1>5, <1>7, <1>8, <1>9, <1>10, <1>11

LEMMA LoginStep ==
    ASSUME SInv, NEW r \in Request, Login(r)
    PROVE  SInv'
<1> DEFINE st == [Idle EXCEPT !.pc = "find", !.gen = r]
<1>1. st \in Handler /\ st.pc = "find" /\ st.kind = "login" /\ st.token = None /\ st.gen = r
  BY DEF Idle, Handler
<1>2. Starts(r, st)
  BY <1>1 DEF Login, Made, Starts
<1> QED BY <1>2, StartStep

LEMMA PresentStep ==
    ASSUME SInv, NEW r \in Request, NEW t \in Request, NEW kind \in {"refresh", "logout"},
           Present(r, kind, t)
    PROVE  SInv'
<1> DEFINE st == [pc |-> kind, kind |-> kind, token |-> t, gen |-> req[t].gen, seen |-> FALSE]
<1>1. st \in Handler /\ t # None
  BY HandlerFacts, RequestFacts DEF SInv, Handler
<1>2. At(t, "ok")
  BY DEF SInv, RowsAreOfAnswers, Present
<1>3. st.gen # None => At(st.gen, "ok")
  BY <1>2 DEF SInv, GenerationsAreOfLogins
<1>4. Starts(r, st)
  BY <1>1, <1>3 DEF Present, Made, Starts
<1> QED BY <1>4, StartStep

-----------------------------------------------------------------------------
(* The steps that write a row.                                             *)

\* A login writes its generation to the devices row.
LEMMA WriteDeviceStep ==
    ASSUME SInv, NEW r \in Request, req[r].pc \in {"insert", "update"},
           NEW revoked \in BOOLEAN, device' = [gen |-> r, revoked |-> revoked],
           req' = [req EXCEPT ![r] = [@ EXCEPT !.pc = "install"]], UNCHANGED <<session, made>>
    PROVE  SInv'
<1> DEFINE st == [req[r] EXCEPT !.pc = "install"]
<1>1. req[r] \in Handler
  BY DEF SInv, ServerTypeOK
<1>2. Moves(r, st)
  BY <1>1 DEF Moves, SInv, HandlerOfKind, Running, Handler
<1> USE <1>2, MoveFacts DEF SInv
<1>3. ServerTypeOK'
  BY DEF ServerTypeOK, Moves
<1>4. \A s \in Request : At(s, "ok")' <=> At(s, "ok")
  BY <1>1 DEF Handler
<1>5. RowsAreOfAnswers' /\ SingleLiveSession'
  BY <1>4 DEF RowsAreOfAnswers, SingleLiveSession
<1>6. UsedIsRevoked' /\ SingleUse'
  BY <1>4 DEF UsedIsRevoked, SingleUse
<1>7. LogoutIsFinal'
  <2>1. ASSUME NEW s \in Request, At(s, "ok"), req[s].kind = "logout"
        PROVE  ~Active(req[s].gen)'
    <3>1. req'[s] = req[s] /\ ~Active(req[s].gen)
      BY <1>1, <2>1 DEF LogoutIsFinal, Admitted, ServerTypeOK, At
    <3> QED BY <2>1, <3>1, AnsweredStayRefused
  <2>2. ASSUME NEW s \in Request, At(s, "ok")', req'[s].kind = "logout"
        PROVE  /\ ~Active(req[s].gen)'
               /\ \A t \in Request : At(t, "ok")' /\ req'[t].gen = req'[s].gen =>
                     session'[t] # "live"
    BY <1>4, <2>1, <2>2 DEF LogoutIsFinal, Admitted
  <2> QED BY <2>2 DEF LogoutIsFinal, Admitted, Active
<1> QED BY <1>3, <1>5, <1>6, <1>7

\* A request that is answered with a token of a generation that is active: the
\* token is the one that is live from then on.
LEMMA AnswerStep ==
    ASSUME SInv, NEW r \in Request, req[r].pc \in {"install", "refresh"}, Active(req[r].gen),
           NEW gone \in SUBSET Request, {t \in Request : session[t] = "live"} \subseteq gone,
           \A t \in gone : session[t] # "none",
           req[r].token # None => req[r].token \in gone /\ session[req[r].token] = "live",
           session' = [Revoking(gone) EXCEPT ![r] = "live"],
           req' = [req EXCEPT ![r].pc = "ok"], UNCHANGED <<device, made>>
    PROVE  SInv'
<1> DEFINE st == [req[r] EXCEPT !.pc = "ok"]
<1>1. req[r] \in Handler
  BY DEF SInv, ServerTypeOK
<1>2. Moves(r, st)
  BY <1>1 DEF Moves, SInv, Running, Handler
<1> USE <1>2, MoveFacts DEF SInv
<1>3. At(r, "ok")' /\ \A s \in Request : s # r => (At(s, "ok")' <=> At(s, "ok"))
  BY <1>1 DEF Handler
<1>4. /\ session[r] = "none"
      /\ session'[r] = "live"
      /\ \A t \in Request : t # r =>
            session'[t] = IF t \in gone THEN "revoked" ELSE session[t]
  BY DEF RowsAreOfAnswers, Revoking
<1>5. ServerTypeOK'
  <2>1. session' \in [Request -> {"none", "live", "expired", "revoked"}]
    BY DEF ServerTypeOK, Revoking
  <2> QED BY <2>1 DEF ServerTypeOK
<1>6. RowsAreOfAnswers'
  BY <1>3, <1>4 DEF RowsAreOfAnswers
<1>7. SingleLiveSession'
  BY <1>4 DEF SingleLiveSession
<1>8. UsedIsRevoked'
  <2>1. ASSUME NEW s \in Request, At(s, "ok")', req'[s].token # None
        PROVE  session'[req[s].token] = "revoked"
    <3>1. req[s].token \in Request /\ req[s].token # r
      BY <1>3, <1>4, <2>1, HandlerFacts DEF UsedIsRevoked
    <3> QED BY <1>3, <1>4, <2>1, <3>1 DEF UsedIsRevoked
  <2> QED BY <2>1 DEF UsedIsRevoked
<1>9. SingleUse'
  <2>1. ASSUME NEW s \in Request, s # r, At(s, "ok"), req[s].token # None
        PROVE  req[s].token # req[r].token
    BY <2>1 DEF UsedIsRevoked
  <2> QED BY <1>3, <2>1 DEF SingleUse
<1>10. LogoutIsFinal'
  <2>1. ASSUME NEW s \in Request, At(s, "ok")', req'[s].kind = "logout"
        PROVE  At(s, "ok") /\ s # r
    BY <1>3, <2>1 DEF HandlerOfKind, At
  <2>2. ASSUME NEW s \in Request, At(s, "ok")', req'[s].kind = "logout",
               NEW t \in Request, At(t, "ok")', req'[t].gen = req'[s].gen
        PROVE  session'[t] # "live"
    <3>1. ~Active(req[s].gen) /\ At(s, "ok")
      BY <2>1, <2>2 DEF LogoutIsFinal, Admitted
    <3>2. t # r
      BY <2>2, <3>1
    <3> QED BY <1>3, <1>4, <2>2, <3>1, <3>2 DEF LogoutIsFinal, Admitted
  <2>3. ASSUME NEW s \in Request, At(s, "ok")', req'[s].kind = "logout"
        PROVE  ~Active(req[s].gen)'
    <3>1. ~Active(req[s].gen)
      BY <2>1, <2>3 DEF LogoutIsFinal, Admitted
    <3> QED BY <3>1 DEF Active
  <2> QED BY <2>2, <2>3 DEF LogoutIsFinal, Admitted, Active
<1> QED BY <1>5, <1>6, <1>7, <1>8, <1>9, <1>10

LEMMA LogoutStep ==
    ASSUME SInv, NEW r \in Request, At(r, "logout"), Consumable(r),
           device' = RevokedDevice, session' = Revoking(Unrevoked),
           req' = [req EXCEPT ![r].pc = "ok"], made' = made
    PROVE  SInv'
<1> DEFINE st == [req[r] EXCEPT !.pc = "ok"]
<1>1. req[r] \in Handler /\ device \in [gen : Request \cup {None}, revoked : BOOLEAN]
  BY DEF SInv, ServerTypeOK
<1>2. Moves(r, st)
  BY <1>1 DEF Moves, SInv, Running, Handler, At
<1> USE <1>2, MoveFacts DEF SInv
<1>3. At(r, "ok")' /\ \A s \in Request : s # r => (At(s, "ok")' <=> At(s, "ok"))
  BY <1>1 DEF Handler
<1>4. /\ \A t \in Request : session'[t] # "live"
      /\ \A t \in Request : session[t] = "none" => session'[t] = "none"
      /\ \A t \in Request : session[t] \in {"revoked", "live"} => session'[t] = "revoked"
      /\ \A t \in Request : session'[t] # "none" => session[t] # "none"
  BY DEF Revoking, Unrevoked
<1>5. device'.revoked /\ ServerTypeOK'
  <2>1. session' \in [Request -> {"none", "live", "expired", "revoked"}]
    BY DEF ServerTypeOK, Revoking
  <2>2. device' \in [gen : Request \cup {None}, revoked : BOOLEAN] /\ device'.revoked
    BY <1>1 DEF RevokedDevice
  <2> QED BY <2>1, <2>2 DEF ServerTypeOK
<1>6. RowsAreOfAnswers' /\ SingleLiveSession'
  BY <1>3, <1>4 DEF RowsAreOfAnswers, SingleLiveSession
<1>7. UsedIsRevoked'
  BY <1>3, <1>4, HandlerFacts DEF UsedIsRevoked, Consumable
<1>8. SingleUse'
  <2>1. ASSUME NEW s \in Request, s # r, At(s, "ok"), req[s].token # None
        PROVE  req[s].token # req[r].token
    BY <2>1 DEF UsedIsRevoked, Consumable
  <2> QED BY <1>3, <2>1 DEF SingleUse
<1>9. LogoutIsFinal'
  BY <1>4, <1>5 DEF LogoutIsFinal, Admitted, Active
<1> QED BY <1>5, <1>6, <1>7, <1>8, <1>9

LEMMA ExpireStep ==
    ASSUME SInv, NEW t \in Request, Expire(t)
    PROVE  SInv'
<1> USE DEF SInv
<1>1. /\ session[t] = "live" /\ session'[t] = "expired"
      /\ \A u \in Request : u # t => session'[u] = session[u]
  BY DEF Expire, ServerTypeOK
<1>2. ServerTypeOK'
  BY DEF ServerTypeOK, Expire
<1>3. UnmadeAreIdle' /\ HandlerOfKind' /\ GenerationsAreOfLogins' /\ SingleUse'
  BY DEF Expire, UnmadeAreIdle, HandlerOfKind, GenerationsAreOfLogins, SingleUse, At
<1>4. RowsAreOfAnswers' /\ SingleLiveSession'
  BY <1>1 DEF Expire, RowsAreOfAnswers, SingleLiveSession, At
<1>5. UsedIsRevoked'
  BY <1>1, HandlerFacts DEF Expire, UsedIsRevoked, At
<1>6. LogoutIsFinal'
  BY <1>1 DEF Expire, LogoutIsFinal, Admitted, Active, At
<1> QED BY <1>2, <1>3, <1>4, <1>5, <1>6

-----------------------------------------------------------------------------
(* The handlers' steps, one by one.                                        *)

LEMMA HandlerStepInv ==
    ASSUME SInv, NEW r \in Request, HandlerStep(r)
    PROVE  SInv'
<1>1. req[r] \in Handler /\ req \in [Request -> Handler]
  BY DEF SInv, ServerTypeOK
<1>2. ASSUME Running(r), NEW pc \in {"insert", "load", "update", "refused", "failed"},
             pc \in {"insert", "load", "update"} => req[r].pc \in {"find", "insert", "load"},
             Goto(r, pc), UNCHANGED <<device, session, made>>
      PROVE  SInv'
  <2> DEFINE st == [req[r] EXCEPT !.pc = pc]
  <2>1. Moves(r, st) /\ st.pc # "ok"
    BY <1>1, <1>2 DEF Moves, Handler, Goto
  <2> QED BY <1>2, <2>1, QuietStep
<1>3. CASE FindDevice(r)
  BY <1>2, <1>3 DEF FindDevice, At, Running
<1>4. CASE InsertDevice(r)
  <2>1. CASE device.gen = None
    BY <1>1, <1>4, <2>1, WriteDeviceStep DEF InsertDevice, At, Goto
  <2>2. CASE device.gen # None
    BY <1>2, <1>4, <2>2 DEF InsertDevice, At, Running
  <2> QED BY <2>1, <2>2
<1>5. CASE LoadDevice(r)
  <2> DEFINE st == [req[r] EXCEPT !.pc = "update", !.seen = device.revoked]
  <2>1. device.revoked \in BOOLEAN
    BY DEF SInv, ServerTypeOK
  <2>2. Moves(r, st) /\ st.pc # "ok"
    BY <1>1, <1>5, <2>1 DEF Moves, Handler, LoadDevice, At, Running
  <2> QED BY <1>5, <2>2, QuietStep DEF LoadDevice
<1>6. CASE UpdateDevice(r)
  <2>1. req[r].gen = r
    BY <1>6 DEF UpdateDevice, At, SInv, GenerationsAreOfLogins
  <2>2. req' = [req EXCEPT ![r] = [@ EXCEPT !.pc = "install"]]
    BY <1>1, <1>6, <2>1 DEF UpdateDevice, NewGeneration, Handler
  <2> DEFINE revoked == device.revoked /\ ~req[r].seen
  <2>3. revoked \in BOOLEAN
    OBVIOUS
  <2>4. /\ req[r].pc \in {"insert", "update"}
        /\ device' = [gen |-> r, revoked |-> revoked]
        /\ UNCHANGED <<session, made>>
    BY <1>6 DEF UpdateDevice, NewGeneration, At
  <2> HIDE DEF revoked
  <2> QED BY <2>2, <2>3, <2>4, WriteDeviceStep
<1>7. CASE InstallToken(r)
  <2>1. CASE Active(req[r].gen)
    <3>1. req[r].token = None
      BY <1>7 DEF InstallToken, At, SInv, HandlerOfKind
    <3>2. /\ Replaced \subseteq Request
          /\ {t \in Request : session[t] = "live"} \subseteq Replaced
          /\ \A t \in Replaced : session[t] # "none"
      BY DEF Replaced, Unrevoked
    <3> QED BY <1>7, <2>1, <3>1, <3>2, AnswerStep DEF InstallToken, At, Goto
  <2>2. CASE ~Active(req[r].gen)
    BY <1>2, <1>7, <2>2 DEF InstallToken, At, Running
  <2> QED BY <2>1, <2>2
<1>8. CASE Rotate(r)
  <2>1. CASE Consumable(r)
    <3> DEFINE gone == {req[r].token}
    <3>1. req[r].token \in Request /\ session[req[r].token] = "live" /\ Active(req[r].gen)
      BY <1>8, <2>1, HandlerFacts DEF Consumable, Rotate, At, SInv, HandlerOfKind
    <3>2. /\ gone \subseteq Request
          /\ {t \in Request : session[t] = "live"} \subseteq gone
          /\ \A t \in gone : session[t] # "none"
      BY <3>1 DEF SInv, SingleLiveSession
    <3>3. /\ req[r].pc \in {"install", "refresh"} /\ req[r].token \in gone
          /\ session' = [Revoking(gone) EXCEPT ![r] = "live"]
          /\ req' = [req EXCEPT ![r].pc = "ok"] /\ UNCHANGED <<device, made>>
      BY <1>8, <2>1 DEF Rotate, At, Goto
    <3> HIDE DEF gone
    <3> QED BY <3>1, <3>2, <3>3, AnswerStep
  <2>2. CASE ~Consumable(r)
    BY <1>2, <1>8, <2>2 DEF Rotate, At, Running
  <2> QED BY <2>1, <2>2
<1>9. CASE Revoke(r)
  <2>1. CASE Consumable(r)
    BY <1>9, <2>1, LogoutStep DEF Revoke, Goto
  <2>2. CASE ~Consumable(r)
    BY <1>2, <1>9, <2>2 DEF Revoke, At, Running
  <2> QED BY <2>1, <2>2
<1>10. CASE HandlerFails(r)
  BY <1>2, <1>10 DEF HandlerFails
<1> QED BY <1>3, <1>4, <1>5, <1>6, <1>7, <1>8, <1>9, <1>10 DEF HandlerStep

-----------------------------------------------------------------------------
(* The server's theorems, for any client.                                  *)

LEMMA InitInv == ServerInit => SInv
<1> SUFFICES ASSUME ServerInit PROVE SInv
  OBVIOUS
<1>1. \A r \in Request : req[r] = Idle /\ session[r] = "none"
  BY DEF ServerInit
<1>2. Idle \in Handler /\ Idle.pc = "idle" /\ Idle.kind = "login"
      /\ Idle.token = None /\ Idle.gen = None
  BY DEF Idle, Handler
<1>3. ServerTypeOK
  BY <1>2, MaxRequestsAssumption DEF ServerInit, ServerTypeOK
<1>4. UnmadeAreIdle /\ RowsAreOfAnswers /\ SingleLiveSession
  BY <1>1 DEF UnmadeAreIdle, RowsAreOfAnswers, SingleLiveSession
<1>5. HandlerOfKind /\ GenerationsAreOfLogins
  BY <1>1, <1>2 DEF HandlerOfKind, GenerationsAreOfLogins, At
<1>6. UsedIsRevoked /\ SingleUse /\ LogoutIsFinal
  BY <1>1, <1>2 DEF UsedIsRevoked, SingleUse, LogoutIsFinal, Admitted, At
<1> QED BY <1>3, <1>4, <1>5, <1>6 DEF SInv

LEMMA NextInv == SInv /\ [ServerNext]_serverVars => SInv'
<1> SUFFICES ASSUME SInv, [ServerNext]_serverVars PROVE SInv'
  OBVIOUS
<1>1. ASSUME NEW r \in Request, HandlerStep(r) PROVE SInv'
  BY <1>1, HandlerStepInv
<1>2. ASSUME NEW r \in Request, Expire(r) PROVE SInv'
  BY <1>2, ExpireStep
<1>3. ASSUME NEW r \in Request, Login(r) PROVE SInv'
  BY <1>3, LoginStep
<1>4. ASSUME NEW r \in Request, NEW t \in Request, NEW kind \in {"refresh", "logout"},
             Present(r, kind, t)
      PROVE  SInv'
  BY <1>4, PresentStep
<1>5. CASE UNCHANGED serverVars
  BY <1>5 DEF serverVars, SInv, ServerTypeOK, UnmadeAreIdle, RowsAreOfAnswers, HandlerOfKind,
     GenerationsAreOfLogins, SingleLiveSession, UsedIsRevoked, SingleUse, LogoutIsFinal, Admitted, At, Active
<1> QED BY <1>1, <1>2, <1>3, <1>4, <1>5 DEF ServerNext, ServerStep

\* No step makes an answered request's generation active again.
LEMMA NoReturn ==
    ASSUME SInv, [ServerNext]_serverVars, NEW s \in Request, At(s, "ok"), ~Active(req[s].gen)
    PROVE  ~Active(req[s].gen)'
<1>1. req \in [Request -> Handler]
  BY DEF SInv, ServerTypeOK
<1>2. s <= made
  BY MaxRequestsAssumption DEF SInv, ServerTypeOK, UnmadeAreIdle, Idle, At, Request
<1>3. ASSUME NEW r \in Request, HandlerStep(r) \/ Expire(r)
      PROVE  /\ req'[s] = req[s]
             /\ \/ UNCHANGED device
                \/ device'.revoked
                \/ req[r].pc \in {"insert", "update"} /\ device'.gen = r
  <2>1. CASE FindDevice(r)
    BY <1>1, <2>1 DEF FindDevice, At, Goto
  <2>2. CASE InsertDevice(r)
    BY <1>1, <2>2 DEF InsertDevice, At, Goto
  <2>3. CASE LoadDevice(r)
    BY <1>1, <2>3 DEF LoadDevice, At
  <2>4. CASE UpdateDevice(r)
    BY <1>1, <2>4 DEF UpdateDevice, At, NewGeneration
  <2>5. CASE InstallToken(r)
    BY <1>1, <2>5 DEF InstallToken, At, Goto
  <2>6. CASE Rotate(r)
    BY <1>1, <2>6 DEF Rotate, At, Goto
  <2>7. CASE Revoke(r)
    <3>1. req'[s] = req[s]
      BY <1>1, <2>7 DEF Revoke, At, Goto
    <3>2. UNCHANGED device \/ device' = [device EXCEPT !.revoked = TRUE]
      BY <2>7 DEF Revoke, RevokedDevice
    <3> QED BY <3>1, <3>2 DEF SInv, ServerTypeOK
  <2>8. CASE HandlerFails(r)
    BY <1>1, <2>8 DEF HandlerFails, Running, At, Goto
  <2>9. CASE Expire(r)
    BY <2>9 DEF Expire
  <2> QED BY <1>3, <2>1, <2>2, <2>3, <2>4, <2>5, <2>6, <2>7, <2>8, <2>9 DEF HandlerStep
<1>4. ASSUME NEW r \in Request, Login(r) PROVE req'[s] = req[s] /\ UNCHANGED device
  BY <1>1, <1>2, <1>4, MaxRequestsAssumption DEF Login, Made, SInv, ServerTypeOK
<1>5. ASSUME NEW r \in Request, NEW t \in Request, NEW kind \in {"refresh", "logout"},
             Present(r, kind, t)
      PROVE  req'[s] = req[s] /\ UNCHANGED device
  BY <1>1, <1>2, <1>5, MaxRequestsAssumption DEF Present, Made, SInv, ServerTypeOK
<1>6. CASE UNCHANGED serverVars
  BY <1>6, AnsweredStayRefused DEF serverVars
<1> QED BY <1>3, <1>4, <1>5, <1>6, AnsweredStayRefused DEF ServerNext, ServerStep

\* The invariant of the server, whoever calls it.
THEOREM ServerInvariant == ServerSpec => []SInv
BY InitInv, NextInv, PTL DEF ServerSpec

-----------------------------------------------------------------------------
(* The app is a client of that server, and what holds for any client holds *)
(* for the app.                                                            *)

LEMMA InitType == Init => TypeOK
<1>1. Init => lane = <<>> /\ <<>> \in Seq(Operation)
  BY DEF Init
<1> QED BY <1>1 DEF Init, TypeOK

\* Queueing at the lane's end and leaving at its head keep its type.
LEMMA LaneFacts ==
    ASSUME TypeOK
    PROVE  /\ \A op \in {"install", "refresh", "signOut"}, t \in Request \cup {None} :
                 Queue(op, t) \in Seq(Operation)
           /\ lane # <<>> => Tail(lane) \in Seq(Operation) /\ Head(lane).token \in Request \cup {None}
<1>1. lane \in Seq(Operation)
  BY DEF TypeOK
<1>2. ASSUME NEW op \in {"install", "refresh", "signOut"}, NEW t \in Request \cup {None}
      PROVE  Queue(op, t) \in Seq(Operation)
  <2>1. [op |-> op, token |-> t] \in Operation
    BY DEF Operation
  <2> QED BY <1>1, <2>1 DEF Queue
<1>3. ASSUME lane # <<>> PROVE Tail(lane) \in Seq(Operation) /\ Head(lane) \in Operation
  BY <1>1, <1>3
<1> QED BY <1>2, <1>3 DEF Operation

LEMMA NextType == TypeOK /\ [Next]_vars => TypeOK'
<1> SUFFICES ASSUME TypeOK, [Next]_vars PROVE TypeOK'
  OBVIOUS
<1> USE DEF TypeOK
<1>1. CASE ServerStep /\ UNCHANGED clientVars
  BY <1>1 DEF clientVars
<1>2. CASE BeginLogin
  BY <1>2 DEF BeginLogin
<1>3. CASE EndLogin
  <2>1. login \in Request \cup {None}
    OBVIOUS
  <2>2. lane' \in Seq(Operation)
    BY <1>3, <2>1, LaneFacts DEF EndLogin
  <2> QED BY <1>3, <2>2 DEF EndLogin
<1>4. CASE LoginLost
  BY <1>4 DEF LoginLost
<1>5. CASE SaveLogin \/ NameAccount \/ FinishLogin \/ LoginFails \/ ClearMemory \/ ForgetAccess
  BY <1>5, LaneFacts
     DEF SaveLogin, NameAccount, FinishLogin, LoginFails, ClearMemory, ForgetAccess, Runs
<1>6. CASE BeginRefresh \/ BeginSignOut \/ QueueSignOut
  BY <1>6, LaneFacts DEF BeginRefresh, BeginSignOut, QueueSignOut
<1>7. CASE PostRefresh \/ PostLogout
  BY <1>7 DEF PostRefresh, PostLogout
<1>8. CASE \/ RefreshSignedOut \/ RotateCredential \/ FinishRefresh \/ RefreshRefused
           \/ ForgetAccount \/ FinishRefused \/ RefreshLost
  BY <1>8, LaneFacts
     DEF RefreshSignedOut, RotateCredential, FinishRefresh, RefreshRefused, ForgetAccount,
     FinishRefused, RefreshLost, LeaveRefresh, Runs
<1>9. CASE ForgetCredential \/ FinishSignOut \/ SignOutFails
  BY <1>9, LaneFacts DEF ForgetCredential, FinishSignOut, SignOutFails, LeaveSignOut, Runs
<1>10. CASE Kill
  <2>1. <<>> \in Seq(Operation)
    OBVIOUS
  <2> QED BY <1>10, <2>1 DEF Kill
<1>11. CASE UNCHANGED vars
  BY <1>11 DEF vars, clientVars
<1> QED BY <1>1, <1>2, <1>3, <1>4, <1>5, <1>6, <1>7, <1>8, <1>9, <1>10, <1>11
        DEF Next, ClientNext, LaneStep

LEMMA AppSteps == TypeOK /\ [Next]_vars => [ServerNext]_serverVars
<1> SUFFICES ASSUME TypeOK, [Next]_vars PROVE [ServerNext]_serverVars
  OBVIOUS
<1>1. CASE ServerStep
  BY <1>1 DEF ServerNext
<1>2. CASE BeginLogin
  BY <1>2 DEF BeginLogin, ServerNext
<1>3. CASE PostRefresh \/ PostLogout
  <2>1. cred \in Request
    BY <1>3 DEF PostRefresh, PostLogout, SignedIn, TypeOK
  <2> QED BY <1>3, <2>1 DEF PostRefresh, PostLogout, ServerNext
<1>4. CASE \/ EndLogin \/ LoginLost \/ BeginRefresh \/ BeginSignOut \/ ForgetAccess \/ Kill
           \/ ClearMemory \/ SaveLogin \/ NameAccount \/ FinishLogin \/ LoginFails
           \/ RefreshSignedOut \/ RotateCredential \/ FinishRefresh \/ RefreshRefused
           \/ ForgetAccount \/ FinishRefused \/ RefreshLost
           \/ QueueSignOut \/ ForgetCredential \/ FinishSignOut \/ SignOutFails
  BY <1>4 DEF EndLogin, LoginLost, BeginRefresh, BeginSignOut, ForgetAccess, Kill,
     ClearMemory, SaveLogin, NameAccount, FinishLogin, LoginFails,
     RefreshSignedOut, RotateCredential, FinishRefresh, RefreshRefused, ForgetAccount,
     FinishRefused, RefreshLost, LeaveRefresh,
     QueueSignOut, ForgetCredential, FinishSignOut, SignOutFails, LeaveSignOut
<1>5. CASE UNCHANGED vars
  BY <1>5 DEF vars
<1> QED BY <1>1, <1>2, <1>3, <1>4, <1>5 DEF Next, ClientNext, LaneStep

\* Every behaviour of the app with the server is one the server's
\* specification allows.
THEOREM AppIsAClient == Spec => ServerSpec
<1>1. Init => ServerInit
  BY DEF Init
<1> QED BY <1>1, InitType, NextType, AppSteps, PTL DEF Spec, ServerSpec

\* At most one refresh token of the device can be used, however logins,
\* refreshes and logouts overlap (replaceRefreshToken, rotateRefreshToken).
THEOREM OneLiveSession == Spec => []SingleLiveSession
<1>1. SInv => SingleLiveSession
  BY DEF SInv
<1> QED BY <1>1, AppIsAClient, ServerInvariant, PTL

\* A refresh token is consumed by one request only (rotateRefreshToken, logout).
THEOREM TokensAreUsedOnce == Spec => []SingleUse
<1>1. SInv => SingleUse
  BY DEF SInv
<1> QED BY <1>1, AppIsAClient, ServerInvariant, PTL

\* A logout that succeeded ends its generation: no access token and no refresh
\* token of it is accepted again (revokeCurrentDevice).
THEOREM LogoutEndsSession == Spec => []LogoutIsFinal
<1>1. SInv => LogoutIsFinal
  BY DEF SInv
<1> QED BY <1>1, AppIsAClient, ServerInvariant, PTL

\* A generation that was replaced or revoked is never accepted again
\* (registerDevice, AccessTokenGuard).
THEOREM RefusedForGood == Spec => GenerationsDoNotReturn
<1>1. SInv /\ [ServerNext]_serverVars =>
        [\A r \in Request : At(r, "ok") /\ ~Admitted(r) => ~Admitted(r)']_serverVars
  BY NoReturn DEF Admitted
<1> QED BY <1>1, AppIsAClient, ServerInvariant, PTL DEF ServerSpec, GenerationsDoNotReturn

-----------------------------------------------------------------------------
(* The credential of an undisturbed app.                                   *)

\* A login holds the generation that is its own from the start.
OwnGeneration == \A r \in Request : req[r].kind = "login" /\ ~At(r, "idle") => req[r].gen = r

\* The login of the page is a login, and so are those that wait in the lane; each
\* of these was answered and waits once.
LoginKnown == login # None => login \in Request /\ req[login].kind = "login" /\ ~At(login, "idle")
InstallAt(i) == i \in 1 .. Len(lane) /\ lane[i].op = "install"
QueuedAreLogins ==
    \A i \in 1 .. Len(lane) : lane[i].op = "install" =>
        /\ lane[i].token \in Request /\ lane[i].token # login
        /\ req[lane[i].token].kind = "login" /\ At(lane[i].token, "ok")
QueuedOnce ==
    \A i, j \in 1 .. Len(lane) :
        InstallAt(i) /\ InstallAt(j) /\ lane[i].token = lane[j].token => i = j

\* Nobody has presented a token of a login that is not installed yet.
Pending(k) == k = login \/ \E i \in 1 .. Len(lane) : InstallAt(i) /\ lane[i].token = k
NotPresented == \A k, x \in Request : Pending(k) /\ x # k => req[x].gen # k

\* The stored credential was answered; if it is still to be installed, it is the
\* head of the lane that installs it.
CredKnown ==
    cred # None =>
        /\ cred \in Request /\ At(cred, "ok") /\ cred # login
        /\ \A i \in 1 .. Len(lane) : InstallAt(i) /\ lane[i].token = cred => i = 1

\* The request that the lane's head awaits presents the stored credential, until
\* a refresh has put its own in the place of it, or has been refused.
CallOfHead ==
    call # None =>
        /\ call \in Request /\ ~At(call, "idle")
        /\ \/ Runs("refresh") /\ req[call].kind = "refresh"
           \/ Runs("signOut") /\ req[call].kind = "logout"
        /\ \/ SignedIn /\ req[call].token = cred /\ req[call].gen = req[cred].gen
           \/ Runs("refresh") /\ SignedIn /\ cred = call /\ At(call, "ok")
           \/ Runs("refresh") /\ cred = None /\ At(call, "refused")

\* Nothing is queued after a sign-out.
SignOutLast ==
    \A i \in 1 .. Len(lane) : lane[i].op = "signOut" => i = Len(lane) /\ signOut = "queued"

\* What ties the app to its requests, whatever fails.
AppInv ==
    /\ OwnGeneration /\ LoginKnown /\ QueuedAreLogins /\ QueuedOnce
    /\ NotPresented /\ CredKnown /\ CallOfHead /\ SignOutLast

\* The server would accept the token.
Live(k) == Active(req[k].gen) /\ session[k] \in {"live", "expired"}

\* Only what the app waits for is running, or a logout, which is of another
\* session than the stored one unless the app waits for it.
OnlyAwaited ==
    \A x \in Request :
        /\ Running(x) => x = login \/ x = call \/ req[x].kind = "logout"
        /\ At(x, "logout") /\ x # call /\ cred # None => req[x].gen # req[cred].gen

\* The newest login is live from its answer on: while the page has it, while it
\* waits in the lane, and, once it is installed, through every rotation.
LoginLive == login # None /\ At(login, "ok") => Live(login)
LastInstall(i) == InstallAt(i) /\ \A j \in 1 .. Len(lane) : InstallAt(j) => j <= i
QueuedLive ==
    login = None => \A i \in 1 .. Len(lane) : LastInstall(i) => Live(lane[i].token)
StoredLive ==
    login = None /\ ~Installing /\ SignedIn /\ ~Runs("signOut") =>
        /\ call = None \/ At(call, "refresh") => Live(cred)
        /\ call # None /\ At(call, "ok") => Live(call)

Undisturbed == ~upset => OnlyAwaited /\ LoginLive /\ QueuedLive /\ StoredLive

\* The inductive invariant of the app with its server.
AInv == TypeOK /\ SInv /\ AppInv /\ Undisturbed

-----------------------------------------------------------------------------
LEMMA HeadFacts ==
    ASSUME TypeOK
    PROVE  /\ Len(lane) \in Nat
           /\ lane # <<>> => Len(lane) >= 1 /\ Head(lane) = lane[1]
           /\ lane = <<>> => Len(lane) = 0
BY DEF TypeOK

LEMMA QueueFacts ==
    ASSUME TypeOK, NEW op, NEW t, lane' = Queue(op, t)
    PROVE  /\ Len(lane') = Len(lane) + 1
           /\ lane'[Len(lane) + 1].op = op /\ lane'[Len(lane) + 1].token = t
           /\ \A i \in 1 .. Len(lane) : lane'[i] = lane[i]
           /\ lane' # <<>>
           /\ Head(lane').op = IF lane = <<>> THEN op ELSE Head(lane).op
<1> DEFINE e == [op |-> op, token |-> t]
<1>1. e.op = op /\ e.token = t
  OBVIOUS
<1> HIDE DEF e
<1>2. lane \in Seq(Operation) /\ lane' = Append(lane, e)
  BY DEF TypeOK, Queue, e
<1>3. lane \in Seq(Operation \cup {e}) /\ lane' \in Seq(Operation \cup {e})
  BY <1>2
<1>4. /\ Len(lane') = Len(lane) + 1 /\ lane'[Len(lane) + 1] = e
      /\ \A i \in 1 .. Len(lane) : lane'[i] = lane[i]
  BY <1>2, <1>3
<1>5. lane' # <<>> /\ Head(lane') = lane'[1]
  BY <1>3, <1>4
<1>6. CASE lane = <<>>
  BY <1>1, <1>4, <1>5, <1>6
<1>7. CASE lane # <<>>
  BY <1>1, <1>3, <1>4, <1>5, <1>7
<1> QED BY <1>1, <1>4, <1>5, <1>6, <1>7

LEMMA TailFacts ==
    ASSUME TypeOK, lane # <<>>, lane' = Tail(lane)
    PROVE  /\ Len(lane') \in Nat /\ Len(lane') + 1 = Len(lane)
           /\ \A i \in 1 .. Len(lane') : i + 1 \in 1 .. Len(lane) /\ lane'[i] = lane[i + 1]
           /\ Head(lane) = lane[1]
<1>1. lane \in Seq(Operation)
  BY DEF TypeOK
<1>2. lane' \in Seq(Operation) /\ Len(lane') + 1 = Len(lane)
  BY <1>1
<1>3. \A i \in 1 .. Len(lane') : lane'[i] = lane[i + 1]
  BY <1>1, <1>2
<1>4. Head(lane) = lane[1]
  BY <1>1
<1>5. Len(lane') \in Nat
  BY <1>2
<1>6. \A i \in 1 .. Len(lane') : i + 1 \in 1 .. Len(lane)
  <2>1. Len(lane) = Len(lane') + 1
    BY <1>2
  <2> QED BY <1>5, <2>1
<1> QED BY <1>2, <1>3, <1>4, <1>5, <1>6

\* A handler's step moves that handler on and changes nothing of what it is.
LEMMA HandlerEffect ==
    ASSUME SInv, NEW r \in Request, HandlerStep(r)
    PROVE  /\ Running(r)
           /\ \A s \in Request : s # r => req'[s] = req[s]
           /\ req'[r].kind = req[r].kind /\ req'[r].token = req[r].token
           /\ req'[r].gen = req[r].gen
           /\ req'[r].pc \notin {"idle", "refresh", "logout"}
<1>1. req \in [Request -> Handler] /\ req[r] \in Handler
  BY DEF SInv, ServerTypeOK
<1>2. CASE FindDevice(r)
  BY <1>1, <1>2 DEF FindDevice, At, Goto, Running, Handler
<1>3. CASE InsertDevice(r)
  BY <1>1, <1>3 DEF InsertDevice, At, Goto, Running, Handler
<1>4. CASE LoadDevice(r)
  BY <1>1, <1>4 DEF LoadDevice, At, Running, Handler
<1>5. CASE UpdateDevice(r)
  <2>1. req[r].gen = r
    BY <1>5 DEF UpdateDevice, At, SInv, GenerationsAreOfLogins
  <2> QED BY <1>1, <1>5, <2>1 DEF UpdateDevice, NewGeneration, At, Running, Handler
<1>6. CASE InstallToken(r)
  BY <1>1, <1>6 DEF InstallToken, At, Goto, Running, Handler
<1>7. CASE Rotate(r)
  BY <1>1, <1>7 DEF Rotate, At, Goto, Running, Handler
<1>8. CASE Revoke(r)
  BY <1>1, <1>8 DEF Revoke, At, Goto, Running, Handler
<1>9. CASE HandlerFails(r)
  BY <1>1, <1>9 DEF HandlerFails, At, Goto, Running, Handler
<1> QED BY <1>2, <1>3, <1>4, <1>5, <1>6, <1>7, <1>8, <1>9 DEF HandlerStep

\* What the app relies on of its requests is kept: what they are, and that they
\* have been made and answered.
KeptRequests ==
    \A s \in Request :
        /\ req'[s].kind = req[s].kind /\ req'[s].token = req[s].token /\ req'[s].gen = req[s].gen
        /\ At(s, "ok") => At(s, "ok")'
        /\ At(s, "refused") => At(s, "refused")'
        /\ At(s, "idle") <=> At(s, "idle")'

LEMMA ServerKeepsRequests ==
    ASSUME SInv, ServerStep
    PROVE  KeptRequests
<1>1. ASSUME NEW r \in Request, HandlerStep(r) PROVE KeptRequests
  BY <1>1, HandlerEffect DEF KeptRequests, At, Running
<1>2. ASSUME NEW t \in Request, Expire(t) PROVE KeptRequests
  BY <1>2 DEF KeptRequests, At, Expire
<1> QED BY <1>1, <1>2 DEF ServerStep

LEMMA KeptApp ==
    ASSUME AppInv, TypeOK, KeptRequests, UNCHANGED <<cred, named, lane, call, login, signOut>>
    PROVE  AppInv'
<1> USE DEF AppInv
<1>1. OwnGeneration'
  BY DEF KeptRequests, OwnGeneration
<1>2. LoginKnown'
  BY DEF KeptRequests, LoginKnown
<1>3. QueuedAreLogins'
  BY DEF KeptRequests, QueuedAreLogins
<1>4. QueuedOnce' /\ SignOutLast'
  BY DEF QueuedOnce, InstallAt, SignOutLast
<1>5. NotPresented'
  <2>1. \A k : Pending(k)' <=> Pending(k)
    BY DEF Pending, InstallAt
  <2> QED BY <2>1 DEF KeptRequests, NotPresented
<1>6. CredKnown'
  BY DEF KeptRequests, CredKnown, InstallAt
<1>7. CallOfHead'
  <2>1. cred # None => cred \in Request
    BY DEF CredKnown
  <2> QED BY <2>1 DEF KeptRequests, CallOfHead, SignedIn, Runs
<1> QED BY <1>1, <1>2, <1>3, <1>4, <1>5, <1>6, <1>7

-----------------------------------------------------------------------------
(* The app's steps keep AppInv.                                            *)

LEMMA BeginLoginApp ==
    ASSUME SInv, TypeOK, AppInv, BeginLogin
    PROVE  AppInv'
<1> USE RequestFacts DEF AppInv
<1>1. PICK r \in Request : Login(r) /\ login' = r
  BY DEF BeginLogin
<1>2. req \in [Request -> Handler] /\ made \in Nat /\ MaxRequests \in Nat
  BY MaxRequestsAssumption DEF SInv, ServerTypeOK
<1>3. req[r] = Idle /\ At(r, "idle")
  <2>1. r > made
    BY <1>1, <1>2 DEF Login, Made
  <2>2. req[r] = Idle
    BY <2>1 DEF SInv, UnmadeAreIdle
  <2> QED BY <2>2 DEF Idle, At
<1>4. /\ req'[r].kind = "login" /\ req'[r].gen = r /\ req'[r].pc = "find"
      /\ \A s \in Request : s # r => req'[s] = req[s]
  BY <1>1, <1>2 DEF Login, Idle
<1>5. OwnGeneration'
  BY <1>4 DEF OwnGeneration, At
<1>6. LoginKnown'
  BY <1>1, <1>4 DEF LoginKnown, At
<1>7. UNCHANGED <<lane, cred, named, call, signOut>> /\ login = None
  BY DEF BeginLogin
<1>8. \A s \in Request : ~At(s, "idle") => s # r
  BY <1>3
<1>9. QueuedAreLogins'
  <2>1. \A s \in Request : At(s, "ok") => s # r /\ At(s, "ok")' /\ req'[s] = req[s]
    BY <1>3, <1>4 DEF At
  <2> QED BY <1>1, <1>7, <2>1 DEF QueuedAreLogins
<1>10. QueuedOnce' /\ SignOutLast'
  BY <1>7 DEF QueuedOnce, InstallAt, SignOutLast
<1>11. NotPresented'
  <2>1. SUFFICES ASSUME NEW k \in Request, NEW x \in Request, Pending(k)', x # k
                 PROVE  req'[x].gen # k
    BY DEF NotPresented
  <2>2. k = r \/ Pending(k)
    BY <1>1, <1>7, <2>1 DEF Pending, InstallAt
  <2>3. CASE k = r
    <3>1. req[x].gen \notin {None, x} => At(req[x].gen, "ok")
      BY DEF SInv, GenerationsAreOfLogins
    <3> QED BY <1>3, <1>4, <2>1, <2>3, <3>1 DEF At
  <2>4. CASE k # r
    BY <1>4, <2>1, <2>2, <2>4 DEF NotPresented
  <2> QED BY <2>3, <2>4
<1>12. CredKnown'
  BY <1>1, <1>3, <1>4, <1>7 DEF CredKnown, InstallAt, At
<1>13. CallOfHead'
  <2>1. call # None => (cred # None => cred \in Request /\ cred # r) /\ call # r /\ call \in Request
    BY <1>3 DEF CallOfHead, SignedIn, CredKnown, At
  <2> QED BY <1>4, <1>7, <2>1 DEF CallOfHead, SignedIn, Runs, At
<1> QED BY <1>5, <1>6, <1>9, <1>10, <1>11, <1>12, <1>13

LEMMA EndLoginApp ==
    ASSUME TypeOK, AppInv, EndLogin
    PROVE  AppInv'
<1> USE RequestFacts, HeadFacts DEF AppInv
<1>1. UNCHANGED <<req, cred, named, call, signOut>> /\ login' = None /\ login # None
  BY DEF EndLogin, serverVars, Answered
<1>2. OwnGeneration' /\ LoginKnown'
  BY <1>1 DEF OwnGeneration, LoginKnown, At
<1>3. login \in Request /\ req[login].kind = "login"
  BY <1>1 DEF LoginKnown
<1>4. CASE lane' = lane
  <2>1. QueuedAreLogins' /\ QueuedOnce' /\ CredKnown' /\ SignOutLast'
    BY <1>1, <1>4 DEF QueuedAreLogins, QueuedOnce, CredKnown, SignOutLast, InstallAt, At
  <2>2. NotPresented'
    BY <1>1, <1>4 DEF NotPresented, Pending, InstallAt
  <2>3. CallOfHead'
    BY <1>1, <1>4 DEF CallOfHead, SignedIn, Runs, At
  <2> QED BY <1>2, <2>1, <2>2, <2>3
<1>5. CASE At(login, "ok") /\ signOut = "none" /\ lane' = Queue("install", login)
  <2> DEFINE n == Len(lane)
  <2>1. /\ n \in Nat /\ Len(lane') = n + 1
        /\ lane'[n + 1].op = "install" /\ lane'[n + 1].token = login
        /\ \A i \in 1 .. n : lane'[i] = lane[i]
        /\ lane' # <<>>
        /\ lane # <<>> => Head(lane').op = Head(lane).op
    BY <1>5, QueueFacts
  <2>2. \A i \in 1 .. (n + 1) : i = n + 1 \/ i \in 1 .. n
    BY <2>1
  <2> HIDE DEF n
  <2>3. QueuedAreLogins /\ \A i \in 1 .. n : lane[i].op = "install" => lane[i].token # login
    BY DEF QueuedAreLogins, n
  <2>4. QueuedAreLogins'
    <3> SUFFICES ASSUME NEW i \in 1 .. (n + 1), lane'[i].op = "install"
                 PROVE  /\ lane'[i].token \in Request /\ lane'[i].token # None
                        /\ req[lane'[i].token].kind = "login" /\ At(lane'[i].token, "ok")
      BY <1>1, <2>1 DEF QueuedAreLogins, At
    <3>1. CASE i = n + 1
      BY <1>1, <1>3, <1>5, <2>1, <3>1
    <3>2. CASE i \in 1 .. n
      BY <2>1, <3>2 DEF QueuedAreLogins, n
    <3> QED BY <2>2, <3>1, <3>2
  <2>5. QueuedOnce'
    <3> SUFFICES ASSUME NEW i \in 1 .. (n + 1), NEW j \in 1 .. (n + 1),
                        lane'[i].op = "install", lane'[j].op = "install",
                        lane'[i].token = lane'[j].token
                 PROVE  i = j
      BY <2>1 DEF QueuedOnce, InstallAt
    <3>1. CASE i \in 1 .. n /\ j \in 1 .. n
      BY <2>1, <3>1 DEF QueuedOnce, InstallAt, n
    <3> QED BY <2>1, <2>2, <2>3, <3>1
  <2>6. NotPresented'
    <3>1. \A k \in Request : Pending(k)' => Pending(k)
      <4> SUFFICES ASSUME NEW k \in Request, NEW i \in 1 .. (n + 1), lane'[i].op = "install",
                          lane'[i].token = k
                   PROVE  Pending(k)
        BY <1>1, <2>1 DEF Pending, InstallAt
      <4> QED BY <2>1, <2>2 DEF Pending, InstallAt, n
    <3> QED BY <1>1, <3>1 DEF NotPresented
  <2>7. CredKnown'
    <3> SUFFICES ASSUME cred # None, NEW i \in 1 .. (n + 1), lane'[i].op = "install",
                        lane'[i].token = cred
                 PROVE  i = 1
      BY <1>1, <2>1 DEF CredKnown, InstallAt, At
    <3>1. cred # login
      BY DEF CredKnown
    <3> QED BY <2>1, <2>2, <3>1 DEF CredKnown, InstallAt, n
  <2>8. CallOfHead'
    BY <1>1, <2>1 DEF CallOfHead, SignedIn, Runs, At
  <2>9. SignOutLast'
    <3>1. \A i \in 1 .. n : lane[i].op # "signOut"
      BY <1>5 DEF SignOutLast, n
    <3>2. \A i \in 1 .. (n + 1) : lane'[i].op # "signOut"
      BY <2>1, <2>2, <3>1
    <3> QED BY <2>1, <3>2 DEF SignOutLast
  <2> QED BY <1>2, <2>4, <2>5, <2>6, <2>7, <2>8, <2>9
<1> QED BY <1>4, <1>5 DEF EndLogin

\* What is queued behind the operation that ends stays as it is.
LEMMA ShrunkLane ==
    ASSUME TypeOK, AppInv, lane # <<>>, lane' = Tail(lane), UNCHANGED <<req, login>>
    PROVE  /\ OwnGeneration' /\ LoginKnown' /\ QueuedAreLogins' /\ QueuedOnce' /\ NotPresented'
           /\ \A i \in 1 .. Len(lane') : i + 1 \in 1 .. Len(lane) /\ i + 1 # 1
                                      /\ lane'[i] = lane[i + 1]
           /\ Head(lane) = lane[1] /\ Len(lane) \in Nat /\ Len(lane') + 1 = Len(lane)
           /\ signOut' = signOut => SignOutLast'
<1> USE DEF AppInv
<1>1. /\ Len(lane') \in Nat /\ Len(lane') + 1 = Len(lane) /\ Len(lane) \in Nat
      /\ \A i \in 1 .. Len(lane') : i + 1 \in 1 .. Len(lane) /\ lane'[i] = lane[i + 1]
      /\ Head(lane) = lane[1]
  BY TailFacts, HeadFacts
<1>2. /\ \A i, j \in 1 .. Len(lane') : i + 1 # 1 /\ (i + 1 = j + 1 => i = j)
      /\ \A i \in 1 .. Len(lane') : i + 1 = Len(lane) => i = Len(lane')
  <2> DEFINE n == Len(lane')
  <2>1. n \in Nat /\ Len(lane) = n + 1
    BY <1>1
  <2> HIDE DEF n
  <2>2. /\ \A i, j \in 1 .. n : i + 1 # 1 /\ (i + 1 = j + 1 => i = j)
        /\ \A i \in 1 .. n : i + 1 = n + 1 => i = n
    BY <2>1
  <2> QED BY <2>1, <2>2 DEF n
<1>3. OwnGeneration' /\ LoginKnown'
  BY DEF OwnGeneration, LoginKnown, At
<1>4. QueuedAreLogins'
  BY <1>1 DEF QueuedAreLogins, At
<1>5. QueuedOnce'
  <2> SUFFICES ASSUME NEW i \in 1 .. Len(lane'), NEW j \in 1 .. Len(lane'),
                      InstallAt(i)', InstallAt(j)', lane'[i].token = lane'[j].token
               PROVE  i = j
    BY DEF QueuedOnce
  <2>1. i + 1 = j + 1
    BY <1>1 DEF QueuedOnce, InstallAt
  <2> QED BY <1>2, <2>1
<1>6. NotPresented'
  <2>1. \A k \in Request : Pending(k)' => Pending(k)
    BY <1>1 DEF Pending, InstallAt
  <2> QED BY <2>1 DEF NotPresented
<1>7. ASSUME signOut' = signOut PROVE SignOutLast'
  <2> SUFFICES ASSUME NEW i \in 1 .. Len(lane'), lane'[i].op = "signOut"
               PROVE  i = Len(lane') /\ signOut = "queued"
    BY <1>7 DEF SignOutLast
  <2>1. i + 1 = Len(lane) /\ signOut = "queued"
    BY <1>1 DEF SignOutLast
  <2> QED BY <1>2, <2>1
<1> QED BY <1>1, <1>2, <1>3, <1>4, <1>5, <1>6, <1>7

\* Whatever is not a login may be queued without a word about it.
LEMMA GrownLane ==
    ASSUME TypeOK, AppInv, NEW op \in {"refresh", "signOut"}, lane' = Queue(op, None),
           UNCHANGED <<req, cred, named, call, login>>, SignOutLast'
    PROVE  AppInv'
<1> USE DEF AppInv
<1> DEFINE n == Len(lane)
<1>1. /\ n \in Nat /\ Len(lane') = n + 1 /\ lane'[n + 1].op # "install"
      /\ \A i \in 1 .. n : lane'[i] = lane[i]
      /\ lane' # <<>>
      /\ lane # <<>> => Head(lane').op = Head(lane).op
  BY QueueFacts, HeadFacts
<1> HIDE DEF n
<1>2. \A i \in 1 .. (n + 1) : i = n + 1 \/ i \in 1 .. n
  BY <1>1
<1>3. \A i : InstallAt(i)' <=> InstallAt(i)
  BY <1>1, <1>2 DEF InstallAt, n
<1>4. \A i \in 1 .. Len(lane') : InstallAt(i)' => i \in 1 .. n /\ lane'[i] = lane[i]
  BY <1>1, <1>3 DEF InstallAt, n
<1>5. OwnGeneration' /\ LoginKnown'
  BY DEF OwnGeneration, LoginKnown, At
<1>6. QueuedAreLogins'
  <2> SUFFICES ASSUME NEW i \in 1 .. Len(lane'), lane'[i].op = "install"
               PROVE  lane[i].op = "install" /\ i \in 1 .. Len(lane) /\ lane'[i] = lane[i]
    BY DEF QueuedAreLogins, At
  <2> QED BY <1>3, <1>4 DEF InstallAt, n
<1>7. QueuedOnce'
  BY <1>3, <1>4 DEF QueuedOnce, n
<1>8. NotPresented'
  <2>1. \A k \in Request : Pending(k)' => Pending(k)
    BY <1>3, <1>4 DEF Pending, n
  <2> QED BY <2>1 DEF NotPresented
<1>9. CredKnown'
  <2>1. \A i \in 1 .. Len(lane') : InstallAt(i)' /\ lane'[i].token = cred => i = 1 \/ cred = None
    BY <1>3, <1>4 DEF CredKnown, n
  <2> QED BY <2>1 DEF CredKnown, At
<1>10. CallOfHead'
  BY <1>1 DEF CallOfHead, SignedIn, Runs, At
<1> QED BY <1>5, <1>6, <1>7, <1>8, <1>9, <1>10

\* So may an operation that is no login, when it ends.
LEMMA EndedOperation ==
    ASSUME TypeOK, AppInv, lane # <<>>, Head(lane).op # "install", lane' = Tail(lane), call' = None,
           UNCHANGED <<req, cred, login>>, SignOutLast'
    PROVE  AppInv'
<1> USE RequestFacts DEF AppInv
<1>1. /\ \A i \in 1 .. Len(lane') : i + 1 \in 1 .. Len(lane) /\ i + 1 # 1
                                /\ lane'[i] = lane[i + 1]
  BY ShrunkLane
<1>2. CallOfHead'
  BY DEF CallOfHead
<1>3. CredKnown'
  <2>1. \A i \in 1 .. Len(lane') : InstallAt(i)' /\ cred # None => lane'[i].token # cred
    BY <1>1 DEF CredKnown, InstallAt
  <2> QED BY <2>1 DEF CredKnown, At
<1> QED BY <1>2, <1>3, ShrunkLane

\* A step of the operation at the head that does not end it.
LEMMA SameLane ==
    ASSUME AppInv, UNCHANGED <<req, lane, login, signOut>>, CredKnown', CallOfHead'
    PROVE  AppInv'
<1> USE DEF AppInv
<1>1. OwnGeneration' /\ LoginKnown' /\ QueuedAreLogins' /\ QueuedOnce' /\ SignOutLast'
  BY DEF OwnGeneration, LoginKnown, QueuedAreLogins, QueuedOnce, SignOutLast, InstallAt, At
<1>2. NotPresented'
  BY DEF NotPresented, Pending, InstallAt
<1> QED BY <1>1, <1>2

\* The request r presents the stored credential for the head of the lane.
Posts(r, kind) ==
    /\ Present(r, kind, cred)
    /\ SignedIn
    /\ call' = r
    /\ UNCHANGED <<cred, named, lane, login, signOut>>
    /\ \/ kind = "refresh" /\ Runs("refresh")
       \/ kind = "logout" /\ Runs("signOut")

LEMMA PostApp ==
    ASSUME SInv, TypeOK, AppInv, NEW r \in Request, NEW kind \in {"refresh", "logout"},
           Posts(r, kind)
    PROVE  AppInv' /\ At(r, "idle") /\ cred # r /\ req'[r].pc = kind
           /\ \A s \in Request : s # r => req'[s] = req[s]
<1> USE RequestFacts DEF AppInv, Posts
<1>1. req \in [Request -> Handler] /\ made \in Nat /\ MaxRequests \in Nat
  BY MaxRequestsAssumption DEF SInv, ServerTypeOK
<1>2. req[r] = Idle /\ At(r, "idle")
  <2>1. r > made
    BY <1>1 DEF Present, Made
  <2>2. req[r] = Idle
    BY <2>1 DEF SInv, UnmadeAreIdle
  <2> QED BY <2>2 DEF Idle, At
<1>3. cred \in Request /\ At(cred, "ok") /\ cred # r
  BY <1>2 DEF SignedIn, CredKnown, At
<1>4. /\ req'[r].kind = kind /\ req'[r].gen = req[cred].gen /\ req'[r].token = cred
      /\ req'[r].pc = kind
      /\ \A s \in Request : s # r => req'[s] = req[s]
  BY <1>1 DEF Present
<1>5. \A s \in Request : ~At(s, "idle") => s # r /\ req'[s] = req[s]
  BY <1>2, <1>4
<1>6. OwnGeneration'
  BY <1>4 DEF OwnGeneration, At
<1>7. LoginKnown'
  BY <1>5 DEF LoginKnown, At
<1>8. QueuedAreLogins'
  <2>1. \A s \in Request : At(s, "ok") => req'[s] = req[s]
    BY <1>5 DEF At
  <2> QED BY <2>1 DEF QueuedAreLogins, At
<1>9. QueuedOnce' /\ SignOutLast'
  BY DEF QueuedOnce, InstallAt, SignOutLast
<1>10. NotPresented'
  <2>1. SUFFICES ASSUME NEW k \in Request, NEW x \in Request, Pending(k), x # k
                 PROVE  req'[x].gen # k
    BY DEF NotPresented, Pending, InstallAt
  <2>2. CASE x = r
    <3>1. cred # k
      <4>1. lane # <<>> /\ ~InstallAt(1)
        BY HeadFacts DEF Runs, InstallAt
      <4> QED BY <1>3, <2>1, <4>1 DEF CredKnown, Pending, SignedIn
    <3> QED BY <1>3, <1>4, <2>1, <2>2, <3>1 DEF NotPresented
  <2>3. CASE x # r
    BY <1>4, <2>1, <2>3 DEF NotPresented
  <2> QED BY <2>2, <2>3
<1>11. CredKnown'
  BY <1>3, <1>4 DEF CredKnown, InstallAt, At
<1>12. CallOfHead'
  BY <1>3, <1>4 DEF CallOfHead, SignedIn, Runs, At
<1> QED BY <1>2, <1>3, <1>4, <1>6, <1>7, <1>8, <1>9, <1>10, <1>11, <1>12

LEMMA AppNext ==
    ASSUME SInv, TypeOK, AppInv, [Next]_vars
    PROVE  AppInv'
<1> USE RequestFacts
<1>1. CASE ServerStep /\ UNCHANGED clientVars
  BY <1>1, ServerKeepsRequests, KeptApp DEF clientVars
<1>2. CASE BeginLogin
  BY <1>2, BeginLoginApp
<1>3. CASE EndLogin
  BY <1>3, EndLoginApp
<1>4. CASE LoginLost
  <2>1. UNCHANGED <<req, cred, named, lane, call, signOut>> /\ login' = None
    BY <1>4 DEF LoginLost, serverVars
  <2>2. \A k \in Request : Pending(k)' => Pending(k)
    BY <2>1 DEF Pending, InstallAt
  <2>3. QueuedAreLogins'
    BY <2>1 DEF AppInv, QueuedAreLogins, At
  <2>4. CredKnown' /\ LoginKnown' /\ OwnGeneration'
    BY <2>1 DEF AppInv, CredKnown, LoginKnown, OwnGeneration, InstallAt, At
  <2>5. QueuedOnce' /\ CallOfHead' /\ SignOutLast' /\ NotPresented'
    BY <2>1, <2>2 DEF AppInv, QueuedOnce, CallOfHead, SignOutLast, NotPresented, InstallAt,
       SignedIn, Runs, At
  <2> QED BY <2>3, <2>4, <2>5 DEF AppInv
<1>5. CASE SaveLogin
  <2>1. /\ UNCHANGED <<req, named, lane, call, login, signOut>>
        /\ InstallAt(1) /\ cred' = lane[1].token
    BY <1>5, HeadFacts DEF SaveLogin, serverVars, Runs, InstallAt
  <2>2. call = None
    BY <1>5 DEF AppInv, CallOfHead, SaveLogin, Runs
  <2>3. CredKnown'
    <3>1. /\ cred' \in Request /\ cred' # login /\ At(cred', "ok")
          /\ 1 \in 1 .. Len(lane)
      BY <2>1 DEF AppInv, QueuedAreLogins, InstallAt
    <3> QED BY <2>1, <3>1 DEF AppInv, QueuedOnce, CredKnown, InstallAt, At
  <2>4. /\ QueuedAreLogins' /\ QueuedOnce' /\ SignOutLast' /\ LoginKnown' /\ OwnGeneration'
        /\ CallOfHead'
    BY <2>1, <2>2 DEF AppInv, QueuedAreLogins, QueuedOnce, SignOutLast, LoginKnown, OwnGeneration,
       CallOfHead, InstallAt, At
  <2>5. NotPresented'
    BY <2>1 DEF AppInv, NotPresented, Pending, InstallAt
  <2> QED BY <2>3, <2>4, <2>5 DEF AppInv
<1>6. CASE FinishLogin \/ LoginFails
  <2>1. /\ UNCHANGED <<req, cred, call, login, signOut>>
        /\ lane # <<>> /\ lane' = Tail(lane) /\ Runs("install")
    BY <1>6 DEF FinishLogin, LoginFails, serverVars, Runs
  <2>2. call = None
    BY <2>1 DEF AppInv, CallOfHead, Runs
  <2>3. /\ \A i \in 1 .. Len(lane') : i + 1 \in 1 .. Len(lane) /\ i + 1 # 1
                                   /\ lane'[i] = lane[i + 1]
        /\ OwnGeneration' /\ LoginKnown' /\ QueuedAreLogins' /\ QueuedOnce' /\ NotPresented'
        /\ SignOutLast'
    BY <2>1, ShrunkLane
  <2>4. CredKnown'
    BY <2>1, <2>3 DEF AppInv, CredKnown, InstallAt, At
  <2> QED BY <2>1, <2>2, <2>3, <2>4 DEF AppInv, CallOfHead
<1>7. CASE BeginRefresh
  <2>1. /\ UNCHANGED <<req, cred, named, call, login>> /\ lane' = Queue("refresh", None)
        /\ signOut = "none"
    BY <1>7 DEF BeginRefresh, serverVars
  <2>2. SignOutLast'
    <3> DEFINE n == Len(lane)
    <3>1. /\ n \in Nat /\ Len(lane') = n + 1 /\ lane'[n + 1].op = "refresh"
          /\ \A i \in 1 .. n : lane'[i] = lane[i]
      BY <2>1, QueueFacts, HeadFacts
    <3>2. \A i \in 1 .. (n + 1) : i = n + 1 \/ i \in 1 .. n
      BY <3>1
    <3>3. \A i \in 1 .. n : lane[i].op # "signOut"
      BY <2>1 DEF AppInv, SignOutLast
    <3> HIDE DEF n
    <3>4. \A i \in 1 .. (n + 1) : lane'[i].op # "signOut"
      BY <3>1, <3>2, <3>3
    <3> QED BY <3>1, <3>4 DEF SignOutLast
  <2> QED BY <2>1, <2>2, GrownLane
<1>8. CASE BeginSignOut
  <2>1. UNCHANGED <<req, cred, named, lane, call, login>> /\ signOut = "none"
    BY <1>8 DEF BeginSignOut, serverVars
  <2>2. SignOutLast'
    BY <2>1 DEF AppInv, SignOutLast
  <2>3. /\ QueuedAreLogins' /\ QueuedOnce' /\ LoginKnown' /\ OwnGeneration'
    BY <2>1 DEF AppInv, QueuedAreLogins, QueuedOnce, LoginKnown, OwnGeneration, InstallAt, At
  <2>4. NotPresented' /\ CredKnown' /\ CallOfHead'
    BY <2>1 DEF AppInv, NotPresented, CredKnown, CallOfHead, Pending, InstallAt, SignedIn, Runs, At
  <2> QED BY <2>2, <2>3, <2>4 DEF AppInv
<1>9. CASE QueueSignOut
  <2>1. /\ UNCHANGED <<req, cred, named, call, login>> /\ lane' = Queue("signOut", None)
        /\ signOut = "waits" /\ signOut' = "queued"
    BY <1>9 DEF QueueSignOut, serverVars
  <2>2. SignOutLast'
    <3> DEFINE n == Len(lane)
    <3>1. /\ n \in Nat /\ Len(lane') = n + 1
          /\ \A i \in 1 .. n : lane'[i] = lane[i]
      BY <2>1, QueueFacts, HeadFacts
    <3>2. \A i \in 1 .. (n + 1) : i = n + 1 \/ i \in 1 .. n
      BY <3>1
    <3>3. \A i \in 1 .. n : lane[i].op # "signOut"
      BY <2>1 DEF AppInv, SignOutLast
    <3> HIDE DEF n
    <3>4. \A i \in 1 .. (n + 1) : lane'[i].op = "signOut" => i = n + 1
      BY <3>1, <3>2, <3>3
    <3> QED BY <2>1, <3>1, <3>4 DEF SignOutLast
  <2> QED BY <2>1, <2>2, GrownLane
<1>10. CASE PostRefresh
  <2>1. PICK r \in Request : Posts(r, "refresh")
    BY <1>10 DEF PostRefresh, Posts
  <2> QED BY <2>1, PostApp
<1>11. CASE PostLogout
  <2>1. PICK r \in Request : Posts(r, "logout")
    BY <1>11 DEF PostLogout, Posts
  <2> QED BY <2>1, PostApp
<1>12. CASE RefreshSignedOut \/ FinishRefresh \/ FinishRefused \/ RefreshLost
  <2>1. /\ lane # <<>> /\ Head(lane).op = "refresh" /\ lane' = Tail(lane) /\ call' = None
        /\ UNCHANGED <<req, cred, login, signOut>>
    BY <1>12 DEF RefreshSignedOut, FinishRefresh, FinishRefused, RefreshLost, LeaveRefresh, Runs,
       serverVars
  <2>2. SignOutLast'
    BY <2>1, ShrunkLane
  <2> QED BY <2>1, <2>2, EndedOperation
<1>13. CASE FinishSignOut \/ SignOutFails
  <2>1. /\ lane # <<>> /\ Head(lane).op = "signOut" /\ lane' = Tail(lane) /\ call' = None
        /\ UNCHANGED <<req, cred, login>>
    BY <1>13 DEF FinishSignOut, SignOutFails, LeaveSignOut, Runs, serverVars
  <2>2. 1 \in 1 .. Len(lane) /\ lane[1].op = "signOut"
    BY <2>1, HeadFacts
  <2>3. Len(lane') = 0
    <3>1. Len(lane) = 1
      BY <2>2 DEF AppInv, SignOutLast
    <3>2. Len(lane') \in Nat /\ Len(lane') + 1 = 1
      BY <2>1, <3>1, TailFacts
    <3> QED BY <3>2
  <2>4. SignOutLast'
    BY <2>3 DEF SignOutLast
  <2> QED BY <2>1, <2>4, EndedOperation
<1>14. CASE Kill
  <2>1. UNCHANGED <<req, cred, named>> /\ Len(lane') = 0 /\ call' = None /\ login' = None
    BY <1>14 DEF Kill, serverVars
  <2>2. \A i : ~InstallAt(i)'
    BY <2>1 DEF InstallAt
  <2>3. /\ QueuedAreLogins' /\ QueuedOnce' /\ LoginKnown' /\ OwnGeneration' /\ SignOutLast'
    BY <2>1 DEF AppInv, QueuedAreLogins, QueuedOnce, LoginKnown, OwnGeneration, SignOutLast, At
  <2>4. NotPresented' /\ CredKnown' /\ CallOfHead'
    BY <2>1, <2>2 DEF AppInv, NotPresented, CredKnown, CallOfHead, Pending, At
  <2> QED BY <2>3, <2>4 DEF AppInv
<1>15. CASE UNCHANGED vars \/ ClearMemory \/ ForgetAccess
  <2>1. KeptRequests /\ UNCHANGED <<cred, named, lane, call, login, signOut>>
    BY <1>15 DEF vars, serverVars, clientVars, ClearMemory, ForgetAccess, KeptRequests, At
  <2> QED BY <2>1, KeptApp
<1>16. CASE NameAccount
  <2>1. UNCHANGED <<req, cred, lane, call, login, signOut>>
    BY <1>16 DEF NameAccount, serverVars
  <2>2. call = None
    BY <1>16 DEF AppInv, CallOfHead, NameAccount, Runs
  <2>3. CredKnown' /\ CallOfHead'
    BY <2>1, <2>2 DEF AppInv, CredKnown, CallOfHead, InstallAt, At
  <2> QED BY <2>1, <2>3, SameLane
<1>17. CASE RotateCredential
  <2>1. /\ UNCHANGED <<req, named, lane, call, login, signOut>>
        /\ Runs("refresh") /\ call # None /\ At(call, "ok") /\ cred' = call
    BY <1>17 DEF RotateCredential, serverVars
  <2>2. call \in Request /\ req[call].kind = "refresh" /\ named
    BY <2>1 DEF AppInv, CallOfHead, SignedIn, At, Runs
  <2>3. CallOfHead'
    BY <2>1, <2>2 DEF CallOfHead, SignedIn, Runs, At
  <2>4. CredKnown'
    <3>1. call # login
      BY <2>1, <2>2 DEF AppInv, LoginKnown
    <3>2. \A i \in 1 .. Len(lane) : InstallAt(i) => lane[i].token # call
      BY <2>2 DEF AppInv, QueuedAreLogins, InstallAt
    <3> QED BY <2>1, <2>2, <3>1, <3>2 DEF CredKnown, InstallAt, At
  <2> QED BY <2>1, <2>3, <2>4, SameLane
<1>18. CASE RefreshRefused \/ ForgetAccount
  <2>1. /\ UNCHANGED <<req, lane, call, login, signOut>>
        /\ Runs("refresh") /\ call # None /\ cred' = None
        /\ At(call, "refused") \/ cred = None
    BY <1>18 DEF RefreshRefused, ForgetAccount, serverVars
  <2>2. /\ call \in Request /\ ~At(call, "idle") /\ req[call].kind = "refresh"
        /\ At(call, "refused")
    BY <2>1 DEF AppInv, CallOfHead, SignedIn, Runs
  <2>3. CallOfHead'
    BY <2>1, <2>2 DEF CallOfHead, Runs, At
  <2>4. CredKnown'
    BY <2>1 DEF CredKnown
  <2> QED BY <2>1, <2>3, <2>4, SameLane
<1>19. CASE ForgetCredential
  <2>1. UNCHANGED <<req, lane, login, signOut>> /\ cred' = None /\ call' = None
    BY <1>19 DEF ForgetCredential, serverVars
  <2>2. CredKnown' /\ CallOfHead'
    BY <2>1 DEF CredKnown, CallOfHead
  <2> QED BY <2>1, <2>2, SameLane
<1> QED BY <1>1, <1>2, <1>3, <1>4, <1>5, <1>6, <1>7, <1>8, <1>9, <1>10, <1>11, <1>12, <1>13,
           <1>14, <1>15, <1>16, <1>17, <1>18, <1>19 DEF Next, ClientNext, LaneStep

-----------------------------------------------------------------------------
(* The app's steps keep Undisturbed.                                       *)

\* The installs that wait when the head of the lane leaves it.
LEMMA ShrunkInstalls ==
    ASSUME TypeOK, lane # <<>>, lane' = Tail(lane)
    PROVE  /\ \A i : LastInstall(i)' => LastInstall(i + 1) /\ lane'[i] = lane[i + 1]
           /\ ~Installing' => \A j : InstallAt(j) => j = 1
<1> DEFINE n == Len(lane')
<1>1. /\ n \in Nat /\ Len(lane) = n + 1
      /\ \A i \in 1 .. n : i + 1 \in 1 .. (n + 1) /\ lane'[i] = lane[i + 1]
  BY TailFacts
<1> HIDE DEF n
<1>2. \A j \in 1 .. (n + 1) : j = 1 \/ (j - 1 \in 1 .. n /\ (j - 1) + 1 = j)
  BY <1>1
<1>3. ASSUME NEW j, InstallAt(j), j # 1 PROVE j - 1 \in 1 .. n /\ lane'[j - 1].op = "install"
  <2>1. j \in 1 .. (n + 1) /\ lane[j].op = "install"
    BY <1>1, <1>3 DEF InstallAt
  <2>2. j - 1 \in 1 .. n /\ lane'[j - 1] = lane[j]
    BY <1>1, <1>2, <1>3, <2>1
  <2> QED BY <2>1, <2>2
<1>4. ASSUME NEW i, LastInstall(i)' PROVE LastInstall(i + 1) /\ lane'[i] = lane[i + 1]
  <2>1. i \in 1 .. n /\ lane'[i].op = "install" /\ \A k \in 1 .. n : lane'[k].op = "install" => k <= i
    BY <1>4 DEF LastInstall, InstallAt, n
  <2>2. lane'[i] = lane[i + 1] /\ i + 1 \in 1 .. (n + 1)
    BY <1>1, <2>1
  <2>3. ASSUME NEW j \in 1 .. (n + 1), InstallAt(j) PROVE j <= i + 1
    <3>1. CASE j = 1
      BY <2>1, <3>1
    <3>2. CASE j # 1
      <4>1. j - 1 <= i
        BY <1>3, <2>1, <2>3, <3>2
      <4> QED BY <1>1, <2>1, <4>1
    <3> QED BY <3>1, <3>2
  <2> QED BY <1>1, <2>1, <2>2, <2>3 DEF LastInstall, InstallAt
<1>5. ASSUME ~Installing', NEW j, InstallAt(j) PROVE j = 1
  BY <1>3, <1>5 DEF Installing, n
<1> QED BY <1>4, <1>5

\* Queueing what is no login changes none of them.
LEMMA GrownInstalls ==
    ASSUME TypeOK, NEW op \in {"refresh", "signOut"}, lane' = Queue(op, None)
    PROVE  /\ \A i : LastInstall(i)' => LastInstall(i) /\ lane'[i] = lane[i]
           /\ Installing => Installing'
           /\ Runs("signOut") => Runs("signOut")'
<1> DEFINE n == Len(lane)
<1>1. /\ n \in Nat /\ Len(lane') = n + 1 /\ lane'[n + 1].op # "install"
      /\ \A i \in 1 .. n : lane'[i] = lane[i]
      /\ lane' # <<>>
      /\ lane # <<>> => Head(lane').op = Head(lane).op
  BY QueueFacts, HeadFacts
<1> HIDE DEF n
<1>2. \A i \in 1 .. (n + 1) : i = n + 1 \/ i \in 1 .. n
  BY <1>1
<1>3. \A i \in 1 .. n : i \in 1 .. (n + 1)
  BY <1>1
<1>4. ASSUME NEW i, LastInstall(i)' PROVE LastInstall(i) /\ lane'[i] = lane[i]
  <2>1. i \in 1 .. n
    BY <1>1, <1>2, <1>4 DEF LastInstall, InstallAt
  <2>2. \A k \in 1 .. n : InstallAt(k) => k <= i
    BY <1>1, <1>3, <1>4 DEF LastInstall, InstallAt
  <2> QED BY <1>1, <1>4, <2>1, <2>2 DEF LastInstall, InstallAt, n
<1>5. ASSUME Installing PROVE Installing'
  BY <1>1, <1>3, <1>5 DEF Installing, n
<1>6. Runs("signOut") => Runs("signOut")'
  BY <1>1 DEF Runs
<1> QED BY <1>4, <1>5, <1>6

\* What the server holds of a token is as it was.
LEMMA LiveKept ==
    ASSUME NEW k, Live(k), UNCHANGED <<device, session>>, req'[k].gen = req[k].gen
    PROVE  Live(k)'
BY DEF Live, Active

\* A handler's step leaves the newest login and the rotations of it live.
LEMMA HandlerUndisturbed ==
    ASSUME SInv, TypeOK, AppInv, OnlyAwaited, LoginLive, QueuedLive, StoredLive,
           UNCHANGED clientVars, NEW r \in Request, HandlerStep(r)
    PROVE  OnlyAwaited' /\ LoginLive' /\ QueuedLive' /\ StoredLive'
<1> USE RequestFacts
<1>1. UNCHANGED <<cred, named, lane, call, login, signOut>>
  BY DEF clientVars
<1>2. /\ Running(r)
      /\ \A s \in Request : s # r => req'[s] = req[s]
      /\ req'[r].kind = req[r].kind /\ req'[r].gen = req[r].gen
      /\ req'[r].pc \notin {"idle", "refresh", "logout"}
  BY HandlerEffect
<1>3. /\ \A s \in Request : req'[s].gen = req[s].gen /\ (Running(s)' => Running(s))
      /\ \A s \in Request : ~At(s, "ok") /\ At(s, "ok")' => s = r
      /\ \A s \in Request : At(s, "refresh")' => At(s, "refresh")
      /\ \A s \in Request : At(s, "logout")' => At(s, "logout")
      /\ ~At(r, "ok")
  BY <1>2 DEF Running, At
<1>4. /\ login # None => login \in Request
      /\ cred # None => cred \in Request /\ cred # r /\ cred # login
      /\ call # None => call \in Request /\ (Runs("refresh") \/ Runs("signOut"))
      /\ call # None /\ cred # None => req[call].gen = req[cred].gen
      /\ call # None /\ Running(call) => cred # None /\ req[call].token = cred
      /\ \A i : InstallAt(i) => /\ lane[i].token \in Request /\ lane[i].token # r
                                /\ Pending(lane[i].token)
  BY <1>3 DEF AppInv, LoginKnown, CredKnown, CallOfHead, QueuedAreLogins, InstallAt, Pending,
     SignedIn, At, Running
<1>5. OnlyAwaited'
  <2>1. cred # None => req'[cred].gen = req[cred].gen
    BY <1>3, <1>4
  <2>2. \A x \in Request : req'[x].kind = req[x].kind
    BY <1>2
  <2> QED BY <1>1, <1>3, <2>1, <2>2 DEF OnlyAwaited
<1>6. \A i : LastInstall(i)' => LastInstall(i)
  BY <1>1 DEF LastInstall, InstallAt
<1>7. (Installing <=> Installing') /\ (SignedIn <=> SignedIn') /\ (Runs("signOut") <=> Runs("signOut")')
  BY <1>1 DEF Installing, SignedIn, Runs
<1>8. ASSUME UNCHANGED <<device, session>>, req'[r].pc # "ok"
      PROVE  LoginLive' /\ QueuedLive' /\ StoredLive'
  <2>1. \A s \in Request : Live(s)' <=> Live(s)
    BY <1>3, <1>8 DEF Live, Active
  <2>2. \A s \in Request : At(s, "ok")' => At(s, "ok")
    BY <1>3, <1>8 DEF At
  <2>3. LoginLive'
    BY <1>1, <1>4, <2>1, <2>2 DEF LoginLive
  <2>4. QueuedLive'
    BY <1>1, <1>4, <1>6, <2>1 DEF QueuedLive, LastInstall
  <2>5. StoredLive'
    BY <1>1, <1>3, <1>4, <1>7, <2>1, <2>2 DEF StoredLive, SignedIn
  <2> QED BY <2>3, <2>4, <2>5
<1>9. ASSUME req[r].kind = "login" PROVE r = login /\ login # None
  <2>1. r # call
    BY <1>9 DEF AppInv, CallOfHead
  <2> QED BY <1>2, <1>9, <2>1 DEF OnlyAwaited
<1>10. ASSUME req[r].kind = "login", req'[r].pc # "ok"
       PROVE  LoginLive' /\ QueuedLive' /\ StoredLive'
  BY <1>1, <1>9, <1>10 DEF LoginLive, QueuedLive, StoredLive, At
<1>11. req[r] \in Handler /\ req \in [Request -> Handler]
       /\ session \in [Request -> {"none", "live", "expired", "revoked"}]
       /\ device \in [gen : Request \cup {None}, revoked : BOOLEAN]
  BY DEF SInv, ServerTypeOK
<1>12. CASE FindDevice(r) \/ InsertDevice(r) \/ LoadDevice(r) \/ UpdateDevice(r)
  <2>1. req[r].kind = "login"
    BY <1>12 DEF SInv, HandlerOfKind, FindDevice, InsertDevice, LoadDevice, UpdateDevice, At
  <2>2. req'[r].pc # "ok"
    BY <1>11, <1>12 DEF FindDevice, InsertDevice, LoadDevice, UpdateDevice, Goto, Handler
  <2> QED BY <1>5, <1>10, <2>1, <2>2
<1>13. CASE InstallToken(r)
  <2>1. req[r].kind = "login"
    BY <1>13 DEF SInv, HandlerOfKind, InstallToken, At
  <2>2. CASE Active(req[r].gen)
    <3>1. session'[r] = "live" /\ UNCHANGED device
      BY <1>11, <1>13, <2>2 DEF InstallToken, Revoking
    <3>2. Live(r)'
      BY <1>3, <2>2, <3>1 DEF Live, Active
    <3> QED BY <1>1, <1>5, <1>9, <2>1, <3>2 DEF LoginLive, QueuedLive, StoredLive
  <2>3. CASE ~Active(req[r].gen)
    <3>1. req'[r].pc # "ok"
      BY <1>11, <1>13, <2>3 DEF InstallToken, Goto, Handler
    <3> QED BY <1>5, <1>10, <2>1, <3>1
  <2> QED BY <2>2, <2>3
<1>14. CASE Rotate(r)
  <2>1. At(r, "refresh") /\ req[r].kind = "refresh"
    BY <1>14 DEF SInv, HandlerOfKind, Rotate
  <2>2. r = call /\ call # None /\ r # login
    BY <1>2, <2>1 DEF OnlyAwaited, AppInv, LoginKnown
  <2>3. CASE Consumable(r)
    <3>1. /\ UNCHANGED device /\ session'[r] = "live" /\ Active(req[r].gen)
          /\ \A s \in Request : s # r /\ s # cred => session'[s] = session[s]
      BY <1>2, <1>4, <1>11, <1>14, <2>2, <2>3 DEF Rotate, Revoking, Consumable
    <3>2. \A s \in Request : s # r /\ s # cred /\ Live(s) => Live(s)'
      BY <1>3, <3>1 DEF Live, Active
    <3>3. LoginLive'
      BY <1>1, <1>3, <1>4, <2>2, <3>2 DEF LoginLive
    <3>4. QueuedLive'
      <4>1. \A i : InstallAt(i) => lane[i].token # cred
        <5>1. ~InstallAt(1)
          BY <1>4, <2>2, HeadFacts DEF Runs, InstallAt
        <5> QED BY <1>4, <2>2, <5>1 DEF AppInv, CredKnown, InstallAt
      <4> QED BY <1>1, <1>4, <1>6, <3>2, <4>1 DEF QueuedLive, LastInstall
    <3>5. StoredLive'
      <4>1. Live(r)'
        BY <1>3, <3>1 DEF Live, Active
      <4>2. ~At(r, "refresh")'
        BY <1>2 DEF At
      <4> QED BY <1>1, <2>2, <4>1, <4>2 DEF StoredLive
    <3> QED BY <1>5, <3>3, <3>4, <3>5
  <2>4. CASE ~Consumable(r)
    <3>1. UNCHANGED <<device, session>> /\ req'[r].pc # "ok"
      BY <1>11, <1>14, <2>4 DEF Rotate, Goto, Handler
    <3> QED BY <1>5, <1>8, <3>1
  <2> QED BY <2>3, <2>4
<1>15. CASE Revoke(r)
  <2>1. At(r, "logout") /\ req[r].kind = "logout"
    BY <1>15 DEF SInv, HandlerOfKind, Revoke
  <2>2. CASE Consumable(r)
    <3>1. device.gen = req[r].gen
      BY <2>2 DEF Consumable, Active
    <3>2. \A k \in Request : Pending(k) /\ r # k /\ req[k].kind = "login" /\ ~At(k, "idle") => ~Live(k)
      BY <3>1 DEF AppInv, NotPresented, OwnGeneration, Live, Active
    <3>3. LoginLive'
      BY <1>1, <1>3, <1>4, <2>1, <3>2 DEF LoginLive, Pending, AppInv, LoginKnown
    <3>4. QueuedLive'
      <4>1. \A i : InstallAt(i) => ~Live(lane[i].token)
        BY <1>4, <3>2 DEF AppInv, QueuedAreLogins, InstallAt, At
      <4> QED BY <1>1, <1>6, <4>1 DEF QueuedLive, LastInstall
    <3>5. StoredLive'
      <4> SUFFICES ASSUME login = None, ~Installing, SignedIn, ~Runs("signOut")
                   PROVE  ~(call = None \/ At(call, "refresh")') /\ ~(call # None /\ At(call, "ok")')
        BY <1>1, <1>7 DEF StoredLive
      <4>1. r # call
        BY <2>1 DEF AppInv, CallOfHead
      <4>2. cred # None /\ req[r].gen # req[cred].gen
        BY <2>1, <4>1 DEF OnlyAwaited, SignedIn
      <4>3. ~Live(cred) /\ (call # None => ~Live(call))
        BY <1>4, <3>1, <4>2 DEF Live, Active
      <4>4. call # None => (At(call, "refresh")' => At(call, "refresh")) /\ (At(call, "ok")' => At(call, "ok"))
        BY <1>1, <1>3, <1>4, <4>1
      <4> QED BY <1>1, <4>3, <4>4 DEF StoredLive
    <3> QED BY <1>5, <3>3, <3>4, <3>5
  <2>3. CASE ~Consumable(r)
    <3>1. UNCHANGED <<device, session>> /\ req'[r].pc # "ok"
      BY <1>11, <1>15, <2>3 DEF Revoke, Goto, Handler
    <3> QED BY <1>5, <1>8, <3>1
  <2> QED BY <2>2, <2>3
<1>16. CASE HandlerFails(r)
  <2>1. UNCHANGED <<device, session>> /\ req'[r].pc # "ok"
    BY <1>11, <1>16 DEF HandlerFails, Goto, Handler
  <2> QED BY <1>5, <1>8, <2>1
<1> QED BY <1>12, <1>13, <1>14, <1>15, <1>16 DEF HandlerStep

\* A step of the server leaves it live, an expiry too.
LEMMA ServerUndisturbed ==
    ASSUME SInv, TypeOK, AppInv, Undisturbed, ServerStep, UNCHANGED clientVars
    PROVE  Undisturbed'
<1> SUFFICES ASSUME ~upset PROVE OnlyAwaited' /\ LoginLive' /\ QueuedLive' /\ StoredLive'
  BY DEF Undisturbed, clientVars
<1>1. OnlyAwaited /\ LoginLive /\ QueuedLive /\ StoredLive
  BY DEF Undisturbed
<1>2. ASSUME NEW r \in Request, HandlerStep(r)
      PROVE  OnlyAwaited' /\ LoginLive' /\ QueuedLive' /\ StoredLive'
  BY <1>1, <1>2, HandlerUndisturbed
<1>3. ASSUME NEW t \in Request, Expire(t)
      PROVE  OnlyAwaited' /\ LoginLive' /\ QueuedLive' /\ StoredLive'
  <2>1. UNCHANGED <<device, req, cred, named, lane, call, login>>
    BY <1>3 DEF Expire, clientVars
  <2>2. \A s \in Request : session'[s] = session[s] \/ session'[s] = "expired"
    BY <1>3 DEF Expire, SInv, ServerTypeOK
  <2>3. \A s \in Request : Live(s) => Live(s)'
    BY <2>1, <2>2 DEF Live, Active
  <2>4. /\ login # None => login \in Request
        /\ cred # None => cred \in Request
        /\ call # None => call \in Request
        /\ \A i : InstallAt(i) => lane[i].token \in Request
    BY DEF AppInv, LoginKnown, CredKnown, CallOfHead, QueuedAreLogins, InstallAt
  <2>5. OnlyAwaited' /\ LoginLive'
    BY <1>1, <2>1, <2>3, <2>4 DEF OnlyAwaited, LoginLive, Running, At
  <2>6. QueuedLive'
    BY <1>1, <2>1, <2>3, <2>4 DEF QueuedLive, LastInstall, InstallAt
  <2>7. StoredLive'
    BY <1>1, <2>1, <2>3, <2>4 DEF StoredLive, SignedIn, Installing, Runs, At
  <2> QED BY <2>5, <2>6, <2>7
<1> QED BY <1>2, <1>3 DEF ServerStep

LEMMA AppUndisturbed ==
    ASSUME SInv, TypeOK, AppInv, Undisturbed, ClientNext
    PROVE  Undisturbed'
<1> SUFFICES ASSUME ~upset' PROVE OnlyAwaited' /\ LoginLive' /\ QueuedLive' /\ StoredLive'
  BY DEF Undisturbed
<1> USE RequestFacts
<1>1. ~upset => OnlyAwaited /\ LoginLive /\ QueuedLive /\ StoredLive
  BY DEF Undisturbed
<1>2. ASSUME UNCHANGED <<device, session, req>>
      PROVE  /\ \A k : Live(k) => Live(k)'
             /\ \A x, pc : At(x, pc)' <=> At(x, pc)
             /\ \A x : Running(x)' <=> Running(x)
             /\ req' = req
  BY <1>2 DEF Live, Active, At, Running
<1>3. CASE BeginLogin
  <2>1. PICK r \in Request : Login(r) /\ login' = r
    BY <1>3 DEF BeginLogin
  <2>2. /\ login = None /\ UNCHANGED <<cred, lane, call>>
        /\ upset' = (upset /\ (Installing \/ \E x \in Request : Running(x)))
    BY <1>3 DEF BeginLogin
  <2>3. req \in [Request -> Handler] /\ made \in Nat /\ MaxRequests \in Nat
    BY MaxRequestsAssumption DEF SInv, ServerTypeOK
  <2>4. /\ \A s \in Request : s # r => req'[s] = req[s]
        /\ req'[r].pc = "find"
    BY <2>1, <2>3 DEF Login, Idle
  <2>5. At(r, "idle")
    <3>1. r > made
      BY <2>1, <2>3 DEF Login, Made
    <3> QED BY <3>1 DEF SInv, UnmadeAreIdle, Idle, At
  <2>6. OnlyAwaited'
    <3>1. \A x \in Request : x # r => (Running(x)' => Running(x)) /\ (At(x, "logout")' => At(x, "logout"))
      BY <2>4 DEF Running, At
    <3>2. ~At(r, "logout")'
      BY <2>4 DEF At
    <3>3. CASE ~upset
      <4>1. cred # None => cred \in Request /\ cred # r
        BY <2>5 DEF AppInv, CredKnown, At
      <4> QED BY <1>1, <2>1, <2>2, <2>4, <3>1, <3>2, <3>3, <4>1 DEF OnlyAwaited
    <3>4. CASE \A x \in Request : ~Running(x)
      <4>1. \A x \in Request : ~At(x, "logout")
        BY <3>4 DEF At, Running
      <4> QED BY <2>1, <3>1, <3>2, <3>4, <4>1 DEF OnlyAwaited
    <3> QED BY <2>2, <3>3, <3>4
  <2>7. LoginLive' /\ QueuedLive' /\ StoredLive'
    BY <2>1, <2>4 DEF LoginLive, QueuedLive, StoredLive, At
  <2> QED BY <2>6, <2>7
<1>4. CASE EndLogin
  <2>1. /\ ~upset /\ At(login, "ok") /\ lane' = Queue("install", login)
        /\ login # None /\ login' = None /\ UNCHANGED <<device, session, req, cred, call>>
    BY <1>4 DEF EndLogin, serverVars, Answered
  <2> DEFINE n == Len(lane)
  <2>2. /\ n \in Nat /\ Len(lane') = n + 1
        /\ lane'[n + 1].op = "install" /\ lane'[n + 1].token = login
    BY <2>1, QueueFacts, HeadFacts
  <2> HIDE DEF n
  <2>3. OnlyAwaited'
    <3>1. ~Running(login)
      BY <2>1 DEF Running, At
    <3> QED BY <1>1, <1>2, <2>1, <3>1 DEF OnlyAwaited
  <2>4. QueuedLive'
    <3>1. \A i : LastInstall(i)' => i = n + 1
      BY <2>2 DEF LastInstall, InstallAt
    <3>2. PICK k : k = login
      OBVIOUS
    <3>3. Live(k)'
      BY <1>1, <1>2, <2>1, <3>2 DEF LoginLive
    <3> QED BY <2>2, <3>1, <3>2, <3>3 DEF QueuedLive
  <2>5. Installing'
    BY <2>2 DEF Installing
  <2> QED BY <2>1, <2>3, <2>4, <2>5 DEF LoginLive, StoredLive
<1>5. CASE SaveLogin
  <2>1. /\ ~upset /\ UNCHANGED <<device, session, req, call, lane, login>>
        /\ InstallAt(1) /\ cred' = lane[1].token /\ Runs("install")
    BY <1>5, HeadFacts DEF SaveLogin, serverVars, Runs, InstallAt
  <2>2. call = None
    BY <2>1 DEF AppInv, CallOfHead, Runs
  <2>3. OnlyAwaited'
    <3>1. /\ cred' \in Request /\ req[cred'].kind = "login" /\ At(cred', "ok") /\ Pending(cred')
      BY <2>1 DEF AppInv, QueuedAreLogins, InstallAt, Pending
    <3>2. req[cred'].gen = cred'
      BY <3>1 DEF AppInv, OwnGeneration, At
    <3>3. \A x \in Request : At(x, "logout") => req[x].gen # cred'
      BY <3>1 DEF AppInv, NotPresented, At
    <3> QED BY <1>1, <1>2, <2>1, <3>2, <3>3 DEF OnlyAwaited
  <2>4. Installing'
    BY <2>1 DEF Installing, InstallAt
  <2>5. \A i : LastInstall(i)' => LastInstall(i)
    BY <2>1 DEF LastInstall, InstallAt
  <2> QED BY <1>1, <1>2, <2>1, <2>3, <2>4, <2>5 DEF LoginLive, QueuedLive, StoredLive
<1>6. CASE FinishLogin
  <2>1. /\ ~upset /\ UNCHANGED <<device, session, req, call, login, cred, named>>
        /\ InstallAt(1) /\ cred = lane[1].token /\ Runs("install")
        /\ lane # <<>> /\ lane' = Tail(lane)
    BY <1>6, HeadFacts DEF FinishLogin, serverVars, Runs, InstallAt
  <2>2. call = None
    BY <2>1 DEF AppInv, CallOfHead, Runs
  <2>3. OnlyAwaited' /\ LoginLive'
    BY <1>1, <1>2, <2>1 DEF OnlyAwaited, LoginLive
  <2>4. QueuedLive'
    BY <1>1, <1>2, <2>1, ShrunkInstalls DEF QueuedLive
  <2>5. StoredLive'
    <3> SUFFICES ASSUME login = None, ~Installing' PROVE Live(cred)'
      BY <2>1, <2>2 DEF StoredLive
    <3>1. LastInstall(1)
      <4>1. \A j : InstallAt(j) => j = 1
        BY <2>1, ShrunkInstalls
      <4> QED BY <2>1, <4>1 DEF LastInstall
    <3> QED BY <1>1, <1>2, <2>1, <3>1 DEF QueuedLive
  <2> QED BY <2>3, <2>4, <2>5
<1>7. CASE BeginRefresh \/ QueueSignOut
  <2>1. /\ ~upset /\ UNCHANGED <<device, session, req, call, login, cred, named>>
        /\ \E op \in {"refresh", "signOut"} : lane' = Queue(op, None)
    BY <1>7 DEF BeginRefresh, QueueSignOut, serverVars
  <2>2. /\ \A i : LastInstall(i)' => LastInstall(i) /\ lane'[i] = lane[i]
        /\ Installing => Installing'
        /\ Runs("signOut") => Runs("signOut")'
    BY <2>1, GrownInstalls
  <2>3. OnlyAwaited' /\ LoginLive'
    BY <1>1, <1>2, <2>1 DEF OnlyAwaited, LoginLive
  <2>4. QueuedLive'
    <3>1. \A i : LastInstall(i)' => i \in 1 .. Len(lane) /\ lane'[i] = lane[i] /\ LastInstall(i)
      BY <2>2 DEF LastInstall, InstallAt
    <3>2. \A i : login = None /\ LastInstall(i)' => Live(lane[i].token)
      BY <1>1, <2>1, <3>1 DEF QueuedLive
    <3> QED BY <1>2, <2>1, <3>1, <3>2 DEF QueuedLive
  <2>5. StoredLive'
    BY <1>1, <1>2, <2>1, <2>2 DEF StoredLive, SignedIn
  <2> QED BY <2>3, <2>4, <2>5
<1>8. CASE BeginSignOut
  <2>1. ~upset /\ UNCHANGED <<device, session, req, call, login, cred, named, lane>>
    BY <1>8 DEF BeginSignOut, serverVars
  <2>2. /\ \A i : LastInstall(i)' => LastInstall(i)
        /\ Installing => Installing'
        /\ Runs("signOut") => Runs("signOut")'
    BY <2>1 DEF LastInstall, InstallAt, Installing, Runs
  <2>3. OnlyAwaited' /\ LoginLive'
    BY <1>1, <1>2, <2>1 DEF OnlyAwaited, LoginLive
  <2>4. QueuedLive'
    BY <1>1, <1>2, <2>1, <2>2 DEF QueuedLive, LastInstall, InstallAt
  <2>5. StoredLive'
    BY <1>1, <1>2, <2>1, <2>2 DEF StoredLive, SignedIn
  <2> QED BY <2>3, <2>4, <2>5
<1>9. CASE PostRefresh \/ PostLogout
  <2>1. PICK r \in Request, kind \in {"refresh", "logout"} : Posts(r, kind)
    <3>1. PostRefresh => \E r \in Request : Posts(r, "refresh")
      BY DEF PostRefresh, Posts
    <3>2. PostLogout => \E r \in Request : Posts(r, "logout")
      BY DEF PostLogout, Posts
    <3> QED BY <1>9, <3>1, <3>2
  <2>2. /\ ~upset /\ call = None /\ call' = r /\ UNCHANGED <<device, session, lane, login, cred, named>>
        /\ kind = "refresh" => ~Runs("signOut")
        /\ kind = "logout" => Runs("signOut")
        /\ SignedIn
    BY <1>9, <2>1 DEF PostRefresh, PostLogout, Posts, Present, Runs
  <2>3. /\ At(r, "idle") /\ cred # r /\ req'[r].pc = kind
        /\ \A s \in Request : s # r => req'[s] = req[s]
    BY <2>1, PostApp
  <2>4. /\ cred \in Request
        /\ login # None => login \in Request /\ login # r
        /\ \A i : InstallAt(i) => lane[i].token \in Request /\ lane[i].token # r
    BY <2>2, <2>3 DEF AppInv, CredKnown, SignedIn, LoginKnown, QueuedAreLogins, InstallAt, At
  <2>5. \A k \in Request : k # r /\ Live(k) => Live(k)'
    BY <2>2, <2>3 DEF Live, Active
  <2>6. OnlyAwaited'
    <3>1. \A x \in Request : x # r => (Running(x)' => Running(x)) /\ (At(x, "logout")' => At(x, "logout"))
      BY <2>3 DEF Running, At
    <3> QED BY <1>1, <2>2, <2>3, <2>4, <3>1 DEF OnlyAwaited
  <2>7. LoginLive'
    <3>1. login # None => (At(login, "ok")' <=> At(login, "ok"))
      BY <2>1, <2>2, <2>3, <2>4 DEF At, Posts
    <3> QED BY <1>1, <2>2, <2>4, <2>5, <3>1 DEF LoginLive
  <2>8. QueuedLive'
    <3>1. \A i : LastInstall(i)' => LastInstall(i) /\ InstallAt(i)
      BY <2>2 DEF LastInstall, InstallAt
    <3> QED BY <1>1, <2>2, <2>4, <2>5, <3>1 DEF QueuedLive
  <2>9. StoredLive'
    <3>1. /\ Installing => Installing'
          /\ Runs("signOut") => Runs("signOut")'
          /\ ~At(r, "ok")'
      BY <2>2, <2>3 DEF Installing, Runs, At
    <3>2. CASE kind = "logout"
      BY <2>2, <3>1, <3>2 DEF StoredLive
    <3>3. CASE kind = "refresh"
      <4> SUFFICES ASSUME login = None, ~Installing' PROVE Live(cred)'
        BY <2>2, <3>1 DEF StoredLive
      <4>1. Live(cred)
        BY <1>1, <2>2, <3>1, <3>3 DEF StoredLive
      <4> QED BY <2>2, <2>3, <2>4, <2>5, <4>1
    <3> QED BY <3>2, <3>3
  <2> QED BY <2>6, <2>7, <2>8, <2>9
<1>10. CASE RefreshSignedOut \/ FinishRefresh \/ FinishRefused
  <2>1. /\ ~upset /\ UNCHANGED <<device, session, req, login, cred, named>>
        /\ lane # <<>> /\ lane' = Tail(lane) /\ call' = None /\ Head(lane).op = "refresh"
    BY <1>10 DEF RefreshSignedOut, FinishRefresh, FinishRefused, LeaveRefresh, serverVars, Runs
  <2>2. /\ ~InstallAt(1)
        /\ ~Runs("signOut")
    BY <2>1, HeadFacts DEF InstallAt, Runs
  <2>3. /\ \A i : LastInstall(i)' => LastInstall(i + 1) /\ lane'[i] = lane[i + 1]
        /\ ~Installing' => ~Installing
    BY <2>1, <2>2, ShrunkInstalls DEF Installing, InstallAt
  <2>4. LoginLive' /\ QueuedLive'
    BY <1>1, <1>2, <2>1, <2>3 DEF LoginLive, QueuedLive
  <2>5. CASE RefreshSignedOut
    <3>1. call = None /\ ~SignedIn /\ ~SignedIn'
      BY <2>1, <2>5 DEF RefreshSignedOut, SignedIn
    <3>2. OnlyAwaited'
      BY <1>1, <1>2, <2>1, <3>1 DEF OnlyAwaited
    <3> QED BY <2>4, <3>1, <3>2 DEF StoredLive
  <2>6. CASE FinishRefresh
    <3>1. call # None /\ cred = call /\ At(call, "ok") /\ SignedIn
      BY <2>6 DEF FinishRefresh, Saved, AppInv, CredKnown, CallOfHead, SignedIn
    <3>2. ~Running(call) /\ ~At(call, "logout")
      BY <3>1 DEF Running, At
    <3>3. OnlyAwaited'
      BY <1>1, <1>2, <2>1, <3>1, <3>2 DEF OnlyAwaited
    <3>4. StoredLive'
      <4> SUFFICES ASSUME login = None, ~Installing' PROVE Live(cred)'
        BY <2>1, <3>1 DEF StoredLive
      <4> QED BY <1>1, <1>2, <2>1, <2>2, <2>3, <3>1 DEF StoredLive
    <3> QED BY <2>4, <3>3, <3>4
  <2>7. CASE FinishRefused
    <3>1. call # None /\ At(call, "refused") /\ cred = None
      BY <2>7 DEF FinishRefused, AppInv, CallOfHead, SignedIn
    <3>2. ~Running(call)
      BY <3>1 DEF Running, At
    <3>3. OnlyAwaited'
      BY <1>1, <1>2, <2>1, <3>1, <3>2 DEF OnlyAwaited
    <3> QED BY <2>1, <2>4, <3>1, <3>3 DEF StoredLive, SignedIn
  <2> QED BY <1>10, <2>5, <2>6, <2>7
<1>11. CASE FinishSignOut
  <2>1. /\ ~upset /\ UNCHANGED <<device, session, req, login, cred>> /\ cred = None
        /\ lane # <<>> /\ lane' = Tail(lane) /\ call' = None /\ Runs("signOut")
    BY <1>11 DEF FinishSignOut, LeaveSignOut, serverVars, Runs
  <2>2. LoginLive' /\ QueuedLive'
    BY <1>1, <1>2, <2>1, ShrunkInstalls DEF LoginLive, QueuedLive
  <2>3. OnlyAwaited'
    <3>1. call # None => req[call].kind = "logout"
      BY <2>1 DEF AppInv, CallOfHead, Runs
    <3> QED BY <1>1, <1>2, <2>1, <3>1 DEF OnlyAwaited
  <2> QED BY <2>1, <2>2, <2>3 DEF StoredLive, SignedIn
<1>12. CASE LoginLost \/ LoginFails \/ RefreshLost \/ SignOutFails \/ Kill
  BY <1>12 DEF LoginLost, LoginFails, RefreshLost, SignOutFails, Kill
<1>13. CASE \/ ClearMemory \/ ForgetAccess \/ NameAccount \/ RotateCredential
            \/ RefreshRefused \/ ForgetAccount \/ ForgetCredential
  <2>1. ~upset /\ UNCHANGED <<device, session, req, login, lane>>
    BY <1>13 DEF ClearMemory, ForgetAccess, NameAccount, RotateCredential, RefreshRefused,
       ForgetAccount, ForgetCredential, serverVars
  <2>2. /\ \A i : LastInstall(i)' => LastInstall(i)
        /\ (Installing <=> Installing') /\ (Runs("signOut") <=> Runs("signOut")')
    BY <2>1 DEF LastInstall, InstallAt, Installing, Runs
  <2>3. LoginLive' /\ QueuedLive'
    BY <1>1, <1>2, <2>1, <2>2 DEF LoginLive, QueuedLive
  <2>4. CASE ClearMemory \/ ForgetAccess
    <3>1. UNCHANGED <<cred, named, call>>
      BY <2>4 DEF ClearMemory, ForgetAccess
    <3> QED BY <1>1, <1>2, <2>1, <2>2, <2>3, <3>1 DEF OnlyAwaited, StoredLive, SignedIn
  <2>5. CASE NameAccount
    <3>1. UNCHANGED <<cred, call>> /\ Installing
      BY <2>5, HeadFacts DEF NameAccount, Installing, Runs
    <3> QED BY <1>1, <1>2, <2>1, <2>2, <2>3, <3>1 DEF OnlyAwaited, StoredLive
  <2>6. CASE RotateCredential
    <3>1. UNCHANGED <<call, named>> /\ call # None /\ At(call, "ok") /\ cred' = call
      BY <2>6 DEF RotateCredential
    <3>2. SignedIn /\ cred # None /\ req[call].gen = req[cred].gen
      BY <3>1 DEF AppInv, CallOfHead, SignedIn, At
    <3>3. OnlyAwaited'
      BY <1>1, <1>2, <2>1, <3>1, <3>2 DEF OnlyAwaited
    <3>4. StoredLive'
      <4>1. ~At(call, "refresh") /\ SignedIn'
        BY <3>1, <3>2 DEF At, SignedIn
      <4> QED BY <1>1, <1>2, <2>1, <2>2, <3>1, <3>2, <4>1 DEF StoredLive
    <3> QED BY <2>3, <3>3, <3>4
  <2>7. CASE RefreshRefused \/ ForgetAccount
    <3>1. UNCHANGED call /\ cred' = None
      BY <2>7 DEF RefreshRefused, ForgetAccount
    <3> QED BY <1>1, <1>2, <2>1, <2>3, <3>1 DEF OnlyAwaited, StoredLive, SignedIn
  <2>8. CASE ForgetCredential
    <3>1. call' = None /\ cred' = None /\ Runs("signOut")
      BY <2>8 DEF ForgetCredential
    <3>2. call # None => req[call].kind = "logout"
      BY <3>1 DEF AppInv, CallOfHead, Runs
    <3> QED BY <1>1, <1>2, <2>1, <2>3, <3>1, <3>2 DEF OnlyAwaited, StoredLive, SignedIn
  <2> QED BY <1>13, <2>4, <2>5, <2>6, <2>7, <2>8
<1> QED BY <1>3, <1>4, <1>5, <1>6, <1>7, <1>8, <1>9, <1>10, <1>11, <1>12, <1>13
        DEF ClientNext, LaneStep

LEMMA InitApp == Init => AppInv /\ Undisturbed
<1> SUFFICES ASSUME Init PROVE AppInv /\ Undisturbed
  OBVIOUS
<1>1. /\ cred = None /\ call = None /\ login = None /\ Len(lane) = 0
      /\ \A r \in Request : req[r].pc = "idle" /\ req[r].gen = None
  BY DEF Init, ServerInit, Idle
<1>2. \A i : ~InstallAt(i)
  BY <1>1 DEF InstallAt
<1>3. OwnGeneration /\ LoginKnown /\ QueuedAreLogins /\ QueuedOnce
  BY <1>1, <1>2 DEF OwnGeneration, LoginKnown, QueuedAreLogins, QueuedOnce, At
<1>4. NotPresented /\ CredKnown /\ CallOfHead /\ SignOutLast
  BY <1>1, <1>2, RequestFacts DEF NotPresented, CredKnown, CallOfHead, SignOutLast
<1>5. OnlyAwaited /\ LoginLive /\ QueuedLive /\ StoredLive
  BY <1>1 DEF OnlyAwaited, LoginLive, QueuedLive, StoredLive, SignedIn, Running, At
<1> QED BY <1>3, <1>4, <1>5 DEF AppInv, Undisturbed

\* The inductive invariant of the app with its server.
THEOREM AppInvariant == Spec => []AInv
<1>1. Init => AInv
  BY InitType, InitApp, InitInv DEF Init, AInv
<1>2. AInv /\ [Next]_vars => AInv'
  <2> SUFFICES ASSUME AInv, [Next]_vars PROVE AInv'
    OBVIOUS
  <2>1. SInv /\ TypeOK /\ AppInv /\ Undisturbed
    BY DEF AInv
  <2>2. SInv' /\ TypeOK' /\ AppInv'
    BY <2>1, NextType, AppSteps, NextInv, AppNext
  <2>3. ASSUME UNCHANGED vars PROVE Undisturbed'
    <3>1. UNCHANGED <<device, session, req, cred, named, lane, call, login, upset>>
      BY <2>3 DEF vars, serverVars, clientVars
    <3>2. OnlyAwaited' <=> OnlyAwaited
      BY <3>1 DEF OnlyAwaited, Running, At
    <3>3. LoginLive' <=> LoginLive
      BY <3>1 DEF LoginLive, Live, Active, At
    <3>4. QueuedLive' <=> QueuedLive
      BY <3>1 DEF QueuedLive, LastInstall, InstallAt, Live, Active
    <3>5. StoredLive' <=> StoredLive
      BY <3>1 DEF StoredLive, Installing, SignedIn, Runs, Live, Active, At
    <3> QED BY <2>1, <3>1, <3>2, <3>3, <3>4, <3>5 DEF Undisturbed
  <2>4. Undisturbed'
    BY <2>1, <2>3, ServerUndisturbed, AppUndisturbed DEF Next, AInv, Undisturbed
  <2> QED BY <2>2, <2>4 DEF AInv
<1> QED BY <1>1, <1>2, PTL DEF Spec

\* As long as no call fails and the app is not killed, the stored credential is
\* one the server accepts, whatever logins, refreshes and sign-outs were asked
\* for meanwhile (installLogin, performRefreshExclusive, signOut).
THEOREM CredentialStaysLive == Spec => []CredentialIsLive
<1>1. AInv => CredentialIsLive
  <2> SUFFICES ASSUME AInv, SignedIn, ~upset, call = None, login = None, lane = <<>>
               PROVE  Live(cred)
    BY DEF CredentialIsLive, Live
  <2>1. ~Installing /\ ~Runs("signOut")
    BY DEF Installing, Runs
  <2> QED BY <2>1 DEF AInv, Undisturbed, StoredLive
<1> QED BY <1>1, AppInvariant, PTL

-----------------------------------------------------------------------------
(* The access token in memory.                                             *)

\* The access token in memory was answered to a request that was made.
AccessKnown == access # None => access \in Request /\ ~At(access, "idle")

\* No step of the server, and no new request, changes the session of either token.
LEMMA SameSession ==
    ASSUME AccessKnown, AccessIsOfSession, CredKnown, UNCHANGED <<access, cred>>,
           \A s \in Request : ~At(s, "idle") => ~At(s, "idle")' /\ req'[s].gen = req[s].gen
    PROVE  AccessKnown' /\ AccessIsOfSession'
<1>1. AccessKnown'
  BY DEF AccessKnown
<1>2. cred # None => cred \in Request /\ ~At(cred, "idle")
  BY DEF CredKnown, At
<1> QED BY <1>1, <1>2 DEF AccessKnown, AccessIsOfSession

\* A step of the app: the token is cleared, or becomes the stored credential's, or
\* the credential is cleared or becomes another of the same session.
LEMMA AccessStep ==
    ASSUME AInv, AccessKnown, AccessIsOfSession, [Next]_vars
    PROVE  AccessKnown' /\ AccessIsOfSession'
<1> USE RequestFacts
<1>1. SInv /\ TypeOK /\ CredKnown /\ CallOfHead
  BY DEF AInv, AppInv
<1>2. cred # None => cred \in Request /\ At(cred, "ok")
  BY <1>1 DEF CredKnown
<1>3. CASE ServerStep /\ UNCHANGED clientVars
  <2>1. KeptRequests
    BY <1>1, <1>3, ServerKeepsRequests
  <2> QED BY <1>1, <1>3, <2>1, SameSession DEF clientVars, KeptRequests
<1>4. CASE BeginLogin
  <2>1. PICK r \in Request : Login(r)
    BY <1>4 DEF BeginLogin
  <2>2. req \in [Request -> Handler] /\ made \in Nat
    BY <1>1, MaxRequestsAssumption DEF SInv, ServerTypeOK
  <2>3. At(r, "idle") /\ \A s \in Request : s # r => req'[s] = req[s]
    <3>1. r > made
      BY <2>1, <2>2 DEF Login, Made
    <3> QED BY <1>1, <2>1, <2>2, <3>1 DEF SInv, UnmadeAreIdle, Idle, At, Login
  <2>4. \A s \in Request : ~At(s, "idle") => ~At(s, "idle")' /\ req'[s].gen = req[s].gen
    BY <2>3 DEF At
  <2> QED BY <1>1, <1>4, <2>4, SameSession DEF BeginLogin
<1>5. CASE PostRefresh \/ PostLogout
  <2>1. PICK r \in Request, kind \in {"refresh", "logout"} : Posts(r, kind)
    <3>1. PostRefresh => \E r \in Request : Posts(r, "refresh")
      BY DEF PostRefresh, Posts
    <3>2. PostLogout => \E r \in Request : Posts(r, "logout")
      BY DEF PostLogout, Posts
    <3> QED BY <1>5, <3>1, <3>2
  <2>2. At(r, "idle") /\ \A s \in Request : s # r => req'[s] = req[s]
    BY <1>1, <2>1, PostApp DEF AInv
  <2>3. \A s \in Request : ~At(s, "idle") => ~At(s, "idle")' /\ req'[s].gen = req[s].gen
    BY <2>2 DEF At
  <2> QED BY <1>1, <1>5, <2>3, SameSession DEF PostRefresh, PostLogout
<1>6. CASE \/ UNCHANGED vars \/ EndLogin \/ LoginLost \/ BeginRefresh \/ BeginSignOut
           \/ NameAccount \/ LoginFails \/ ForgetAccount \/ RefreshLost \/ QueueSignOut
           \/ FinishSignOut \/ SignOutFails
  <2>1. UNCHANGED <<req, access, cred>>
    BY <1>6 DEF vars, serverVars, clientVars, EndLogin, LoginLost, BeginRefresh, BeginSignOut,
       NameAccount, LoginFails, ForgetAccount, RefreshLost, LeaveRefresh, QueueSignOut,
       FinishSignOut, SignOutFails, LeaveSignOut
  <2> QED BY <1>1, <2>1, SameSession DEF At
<1>7. CASE ClearMemory \/ ForgetAccess \/ RefreshSignedOut \/ FinishRefused \/ SaveLogin \/ Kill
  <2>1. access' = None
    BY <1>7 DEF ClearMemory, ForgetAccess, RefreshSignedOut, FinishRefused, SaveLogin, Cleared, Kill
  <2> QED BY <2>1 DEF AccessKnown, AccessIsOfSession
<1>8. CASE RefreshRefused \/ ForgetCredential
  <2>1. UNCHANGED <<req, access>> /\ cred' = None
    BY <1>8 DEF RefreshRefused, ForgetCredential, serverVars
  <2> QED BY <2>1 DEF AccessKnown, AccessIsOfSession, At
<1>9. CASE FinishLogin \/ FinishRefresh
  <2>1. UNCHANGED <<req, cred>> /\ access' = cred
    BY <1>9 DEF FinishLogin, FinishRefresh, Saved, LeaveRefresh, serverVars
  <2> QED BY <1>2, <2>1 DEF AccessKnown, AccessIsOfSession, At
<1>10. CASE RotateCredential
  <2>1. /\ UNCHANGED <<req, access>> /\ cred' = call
        /\ call # None /\ At(call, "ok") /\ cred # call
    BY <1>10 DEF RotateCredential, serverVars
  <2>2. cred # None /\ req[call].gen = req[cred].gen
    BY <1>1, <2>1 DEF CallOfHead, SignedIn, At
  <2> QED BY <2>1, <2>2 DEF AccessKnown, AccessIsOfSession, At
<1> QED BY <1>3, <1>4, <1>5, <1>6, <1>7, <1>8, <1>9, <1>10 DEF Next, ClientNext, LaneStep

\* The access token in memory is of the session whose credential is stored, through
\* every await of a login, a refresh and a sign-out, whichever of them throws
\* (installLogin, performRefreshExclusive, performSignOutExclusive, accessToken).
THEOREM AccessToken == Spec => []AccessIsOfSession
<1>1. Init => AccessKnown /\ AccessIsOfSession
  BY DEF Init, AccessKnown, AccessIsOfSession
<1>2. AInv /\ AccessKnown /\ AccessIsOfSession /\ [Next]_vars => AccessKnown' /\ AccessIsOfSession'
  BY AccessStep
<1> QED BY <1>1, <1>2, AppInvariant, PTL DEF Spec
=============================================================================
