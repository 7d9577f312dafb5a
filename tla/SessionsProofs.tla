--------------------------- MODULE SessionsProofs ---------------------------
(***************************************************************************)
(* The safety of Sessions, for any number of requests, any lifetimes and   *)
(* tolerances, and any set of trusted keys.                                *)
(***************************************************************************)
EXTENDS Sessions, TLAPS

(* A token that is anywhere in the system was issued by the auth server:   *)
(* for one lifetime, not in the future, and not after access was revoked.  *)
Honest(t) ==
  t # NoToken =>
    /\ t.exp = t.iat + Lifetime
    /\ t.iat <= now
    /\ granted \/ t.iat <= revoked

(* A state that cannot be decrypted was sealed two secrets ago.            *)
SealedBefore ==
  /\ login.sealed <= secret
  /\ login.phase = "undecryptable" => secret >= login.sealed + 2

(* The strengthening that makes the properties inductive.                  *)
SessionsInv ==
  /\ SessionsTypeOK
  /\ Honest(cookie)
  /\ \A r \in Requests : Honest(requests[r].token) /\ Honest(requests[r].fresh)
  /\ SealedBefore

Outcomes ==
  {"none", "admitted", "CsrfMissing", "DuplicateCookie", "NoSession", "InvalidToken",
   "RefreshDenied", "ServiceUnavailable", "SessionInfo", "LoggedOut"}

(* What the assumption says of each constant.                              *)
LEMMA Bounds ==
  /\ Lifetime \in Nat
  /\ Grace \in Nat
  /\ ClockTolerance \in Nat
  /\ MaxTime \in Nat
  /\ MaxRotations \in Nat
BY SessionsAssumption

(* What the auth server issues while it lets the user in.                  *)
LEMMA IssuedIsHonest ==
  ASSUME SessionsTypeOK, granted
  PROVE  Issued \in Token /\ Honest(Issued)
BY Bounds DEF Issued, Honest, Token, SessionsTypeOK

(* It holds initially.                                                     *)
LEMMA InitInv == SessionsInit => SessionsInv
<1> SUFFICES ASSUME SessionsInit PROVE SessionsInv
  OBVIOUS
<1>1. cookie \in Cookie /\ Honest(cookie)
  BY Bounds DEF SessionsInit, Cookie, Token, Honest
<1>2. Idle \in Request
  BY DEF Idle, Request, Cookie
<1>3. SessionsTypeOK
  <2>1. now \in 0 .. MaxTime /\ revoked \in 0 .. MaxTime /\ secret \in 0 .. MaxRotations
    BY Bounds DEF SessionsInit
  <2>2. granted \in BOOLEAN /\ faulty \in BOOLEAN
    BY Zenon DEF SessionsInit
  <2>3. signing \in {"k1", "k2"}
    BY DEF SessionsInit
  <2>4. login \in [sealed : 0 .. MaxRotations,
                  phase : {"none", "authorizing", "returning", "done",
                           "undecryptable", "failed"}]
    BY Bounds DEF SessionsInit
  <2>5. requests \in [Requests -> Request]
    BY <1>2 DEF SessionsInit
  <2> QED
    BY <1>1, <2>1, <2>2, <2>3, <2>4, <2>5, Zenon DEF SessionsTypeOK
<1>4. \A r \in Requests : Honest(requests[r].token) /\ Honest(requests[r].fresh)
  BY DEF SessionsInit, Idle, Honest
<1>5. SealedBefore
  BY DEF SessionsInit, SealedBefore
<1> QED
  BY <1>1, <1>3, <1>4, <1>5 DEF SessionsInv

-----------------------------------------------------------------------------
(* A step that changes one request keeps the invariant when the tokens it  *)
(* leaves there are honest.                                                *)
LEMMA OneRequestInv ==
  ASSUME SessionsInv, NEW r \in Requests,
         requests' = [requests EXCEPT ![r] = requests'[r]],
         requests'[r] \in Request,
         Honest(requests'[r].token),
         Honest(requests'[r].fresh),
         UNCHANGED <<now, authority, secret, login, cookie>>
  PROVE  SessionsInv'
<1>1. SessionsTypeOK'
  BY DEF SessionsInv, SessionsTypeOK, authority
<1>2. \A q \in Requests \ {r} : requests'[q] = requests[q]
  BY DEF SessionsInv, SessionsTypeOK
<1> QED
  BY <1>1, <1>2 DEF SessionsInv, Honest, SealedBefore, authority

(* Every answer is such a change: it takes the token away, and brings none *)
(* or one that the auth server has just issued.                            *)
LEMMA AnsweredInv ==
  ASSUME SessionsInv, NEW r \in Requests,
         \/ \E outcome \in Outcomes, change \in {NoChange, Cleared} :
              Answered(r, outcome, change)
         \/ granted /\ \E outcome \in Outcomes : Answered(r, outcome, Fresh),
         UNCHANGED <<now, authority, secret, login, cookie>>
  PROVE  SessionsInv'
<1>1. PICK outcome \in Outcomes, sets \in {"nothing", "clear", "fresh"}, fresh \in Cookie :
        /\ Honest(fresh)
        /\ requests' = [requests EXCEPT ![r].phase = "answered", ![r].token = NoToken,
                                        ![r].outcome = outcome,
                                        ![r].sets = sets, ![r].fresh = fresh]
  <2>1. granted => Issued \in Token /\ Honest(Issued)
    BY IssuedIsHonest DEF SessionsInv
  <2>2. NoToken \in Cookie /\ Honest(NoToken) /\ Token \subseteq Cookie
    BY DEF Cookie, Honest
  <2> QED
    <3>1. CASE \E outcome \in Outcomes : Answered(r, outcome, NoChange)
      BY <2>2, <3>1 DEF Answered, NoChange
    <3>2. CASE \E outcome \in Outcomes : Answered(r, outcome, Cleared)
      BY <2>2, <3>2 DEF Answered, Cleared
    <3>3. CASE granted /\ \E outcome \in Outcomes : Answered(r, outcome, Fresh)
      BY <2>1, <2>2, <3>3 DEF Answered, Fresh
    <3> QED
      BY <3>1, <3>2, <3>3
<1>2. requests[r] \in Request
  BY DEF SessionsInv, SessionsTypeOK
<1>3. requests'[r] = [requests[r] EXCEPT !.phase = "answered", !.token = NoToken,
                                         !.outcome = outcome,
                                         !.sets = sets, !.fresh = fresh]
  BY <1>1 DEF SessionsInv, SessionsTypeOK
<1>4. requests'[r] \in Request
  BY <1>2, <1>3 DEF Request, Outcomes, Cookie
<1>5. requests'[r].token = NoToken /\ requests'[r].fresh = fresh
  BY <1>2, <1>3 DEF Request
<1>6. requests' = [requests EXCEPT ![r] = requests'[r]]
  BY <1>1 DEF SessionsInv, SessionsTypeOK
<1>7. Honest(requests'[r].token)
  BY <1>5 DEF Honest
<1> QED
  BY <1>1, <1>4, <1>5, <1>6, <1>7, OneRequestInv

(* The clock, the secret and what the auth server decides.                 *)
LEMMA AuthorityInv ==
  ASSUME SessionsInv, Revoke \/ RotateKey \/ Misconfigure \/ RotateSecret \/ Tick
  PROVE  SessionsInv'
<1>1. CASE Revoke
  BY <1>1, Bounds DEF Revoke, SessionsInv, SessionsTypeOK, Honest, SealedBefore,
       Cookie, Token, Request
<1>2. CASE RotateKey
  BY <1>2 DEF RotateKey, SessionsInv, SessionsTypeOK, Honest, SealedBefore
<1>3. CASE Misconfigure
  BY <1>3 DEF Misconfigure, SessionsInv, SessionsTypeOK, Honest, SealedBefore
<1>4. CASE RotateSecret
  BY <1>4, Bounds DEF RotateSecret, SessionsInv, SessionsTypeOK, Honest,
       SealedBefore, authority
<1>5. CASE Tick
  BY <1>5, Bounds DEF Tick, SessionsInv, SessionsTypeOK, Honest, SealedBefore,
       authority, Cookie, Token, Request
<1> QED
  BY <1>1, <1>2, <1>3, <1>4, <1>5

(* A login: its token is issued only while the user has access.            *)
LEMMA LoginInv ==
  ASSUME SessionsInv, login_handler \/ Authorize \/ callback_handler
  PROVE  SessionsInv'
<1>1. CASE login_handler
  BY <1>1, Bounds DEF login_handler, SessionsInv, SessionsTypeOK, Honest,
       SealedBefore, authority
<1>2. CASE Authorize
  BY <1>2, Bounds DEF Authorize, SessionsInv, SessionsTypeOK, Honest, SealedBefore,
       authority
<1>3. CASE callback_handler
  <2>1. PICK outcome \in exchange_code(login.sealed) :
          /\ login' = [login EXCEPT !.phase = outcome]
          /\ cookie' = IF outcome = "done" THEN Issued ELSE cookie
    BY <1>3 DEF callback_handler
  <2>2. /\ outcome \in {"done", "undecryptable", "failed"}
        /\ outcome = "done" => granted
        /\ outcome = "undecryptable" => login.sealed \notin {secret, secret - 1}
    BY DEF exchange_code, decrypt_state_with_fallback
  <2>3. UNCHANGED <<now, granted, revoked, signing, faulty, secret, requests>>
    BY <1>3 DEF callback_handler, authority
  <2>4. cookie' \in Cookie /\ Honest(cookie')
    BY <2>1, <2>2, IssuedIsHonest DEF SessionsInv, SessionsTypeOK, Cookie
  <2>5. SealedBefore'
    BY <2>1, <2>2, <2>3, Bounds DEF SessionsInv, SessionsTypeOK, SealedBefore
  <2>6. SessionsTypeOK'
    BY <2>1, <2>2, <2>3, <2>4 DEF SessionsInv, SessionsTypeOK
  <2> QED
    BY <2>3, <2>4, <2>5, <2>6 DEF SessionsInv, Honest
<1> QED
  BY <1>1, <1>2, <1>3

(* Every step of a request.                                                *)
LEMMA RequestInv ==
  ASSUME SessionsInv, NEW r \in Requests,
         \/ \E what \in Whats : Send(r, what)
         \/ session_middleware(r)
         \/ Refreshed(r)
         \/ session_handler(r)
         \/ logout_handler(r)
         \/ Arrive(r)
  PROVE  SessionsInv'
<1>1. ASSUME NEW what \in Whats, Send(r, what)
      PROVE  SessionsInv'
  BY <1>1 DEF Send, SessionsInv, SessionsTypeOK, Honest, SealedBefore, authority,
       Idle, Request, Whats, Cookie
<1>2. CASE session_middleware(r)
  <2>1. UNCHANGED <<now, authority, secret, login, cookie>>
    BY <1>2 DEF session_middleware
  <2>2. Admission(r) \in {"admitted", "CsrfMissing"}
    BY DEF Admission
  <2>3. CASE \E outcome \in {"DuplicateCookie", "NoSession", "InvalidToken", "RefreshDenied", Admission(r)},
                change \in {NoChange, Cleared} : Answered(r, outcome, change)
    BY <2>1, <2>2, <2>3, AnsweredInv DEF Outcomes
  <2>4. CASE requests' = [requests EXCEPT ![r].phase = "refreshing"]
    <3>1. requests[r] \in Request /\ requests'[r] = [requests[r] EXCEPT !.phase = "refreshing"]
      BY <2>4 DEF SessionsInv, SessionsTypeOK
    <3>2. /\ requests'[r] \in Request
          /\ requests'[r].token = requests[r].token
          /\ requests'[r].fresh = requests[r].fresh
      BY <3>1 DEF Request
    <3>3. requests' = [requests EXCEPT ![r] = requests'[r]]
      BY <2>4 DEF SessionsInv, SessionsTypeOK
    <3> QED
      BY <2>1, <3>2, <3>3, OneRequestInv DEF SessionsInv
  <2>5. CASE requests' = [requests EXCEPT ![r].phase = "renewing",
                                          ![r].outcome = Admission(r)]
    <3>1. requests[r] \in Request /\ requests'[r] = [requests[r] EXCEPT !.phase = "renewing",
                                                                  !.outcome = Admission(r)]
      BY <2>5 DEF SessionsInv, SessionsTypeOK
    <3>2. /\ requests'[r] \in Request
          /\ requests'[r].token = requests[r].token
          /\ requests'[r].fresh = requests[r].fresh
      BY <2>2, <3>1 DEF Request
    <3>3. requests' = [requests EXCEPT ![r] = requests'[r]]
      BY <2>5 DEF SessionsInv, SessionsTypeOK
    <3> QED
      BY <2>1, <3>2, <3>3, OneRequestInv DEF SessionsInv
  <2> QED
    BY <1>2, <2>3, <2>4, <2>5 DEF session_middleware
<1>3. CASE Refreshed(r)
  <2>1. UNCHANGED <<now, authority, secret, login, cookie>>
    BY <1>3 DEF Refreshed
  <2>2. PICK result \in refresh_token(requests[r].token) :
          \/ /\ requests[r].phase = "refreshing"
             /\ IF result = "Ok" THEN Answered(r, Admission(r), Fresh)
                ELSE IF is_access_denied(result) THEN Answered(r, "RefreshDenied", Cleared)
                ELSE Answered(r, "ServiceUnavailable", NoChange)
          \/ /\ requests[r].phase = "renewing"
             /\ Answered(r, requests[r].outcome, IF result = "Ok" THEN Fresh ELSE NoChange)
    BY <1>3 DEF Refreshed
  <2>3. result = "Ok" => granted
    BY DEF refresh_token, Verdicts
  <2>4. Admission(r) \in {"admitted", "CsrfMissing"}
    BY DEF Admission
  <2>5. CASE requests[r].phase = "refreshing"
    BY <2>1, <2>2, <2>3, <2>4, <2>5, AnsweredInv DEF Outcomes
  <2>6. CASE requests[r].phase = "renewing"
    BY <2>1, <2>2, <2>3, <2>6, AnsweredInv
       DEF Outcomes, SessionsInv, SessionsTypeOK, Request
  <2> QED
    BY <1>3, <2>5, <2>6 DEF Refreshed
<1>4. CASE session_handler(r)
  BY <1>4, AnsweredInv DEF session_handler, Outcomes
<1>5. CASE logout_handler(r)
  BY <1>5, AnsweredInv DEF logout_handler, Outcomes
<1>6. CASE Arrive(r)
  BY <1>6 DEF Arrive, SessionsInv, SessionsTypeOK, Honest, SealedBefore, authority,
       Idle, Request, Cookie
<1> QED
  BY <1>1, <1>2, <1>3, <1>4, <1>5, <1>6

-----------------------------------------------------------------------------
(* The invariant is inductive.                                             *)
LEMMA NextInv ==
  SessionsInv /\ [SessionsNext]_sessionVars => SessionsInv'
<1> SUFFICES ASSUME SessionsInv, [SessionsNext]_sessionVars PROVE SessionsInv'
  OBVIOUS
<1>1. CASE Revoke \/ RotateKey \/ Misconfigure \/ RotateSecret \/ Tick
  BY <1>1, AuthorityInv
<1>2. CASE login_handler \/ Authorize \/ callback_handler
  BY <1>2, LoginInv
<1>3. ASSUME NEW r \in Requests,
             \/ \E what \in Whats : Send(r, what)
             \/ session_middleware(r)
             \/ Refreshed(r)
             \/ session_handler(r)
             \/ logout_handler(r)
             \/ Arrive(r)
      PROVE  SessionsInv'
  BY <1>3, RequestInv
<1>4. CASE UNCHANGED sessionVars
  BY <1>4 DEF sessionVars, authority, SessionsInv, SessionsTypeOK, Honest, SealedBefore
<1> QED
  BY <1>1, <1>2, <1>3, <1>4 DEF SessionsNext

(* Every reachable state satisfies it.                                     *)
LEMMA Invariance == SessionsSpec => []SessionsInv
BY InitInv, NextInv, PTL DEF SessionsSpec

(* Every reachable state of the sessions is well typed.                    *)
THEOREM SessionsTypeCorrect == SessionsSpec => []SessionsTypeOK
<1>1. SessionsInv => SessionsTypeOK
  BY DEF SessionsInv
<1> QED
  BY <1>1, Invariance, PTL

(* However often the client secret is rotated, a login whose state cannot  *)
(* be decrypted any more saw at least two rotations.                       *)
THEOREM LoginSurvivesRotationAlways == SessionsSpec => []LoginSurvivesRotation
<1>1. SessionsInv => LoginSurvivesRotation
  BY DEF SessionsInv, SealedBefore, LoginSurvivesRotation
<1> QED
  BY <1>1, Invariance, PTL

-----------------------------------------------------------------------------
(* Who changes what a request carries: no step of the authority, of the    *)
(* login or of another request.                                            *)
LEMMA OneRequestMoves ==
  ASSUME SessionsInv, [SessionsNext]_sessionVars, NEW r \in Requests,
         requests'[r] # requests[r]
  PROVE  \/ \E what \in Whats : Send(r, what)
         \/ session_middleware(r)
         \/ Refreshed(r)
         \/ session_handler(r)
         \/ logout_handler(r)
         \/ Arrive(r)
<1>1. CASE \/ Revoke \/ RotateKey \/ Misconfigure \/ RotateSecret \/ Tick
           \/ login_handler \/ Authorize \/ callback_handler \/ UNCHANGED sessionVars
  BY <1>1 DEF Revoke, RotateKey, Misconfigure, RotateSecret, Tick, login_handler, Authorize,
       callback_handler, sessionVars
<1>2. ASSUME NEW q \in Requests, q # r,
             \/ \E what \in Whats : Send(q, what)
             \/ session_middleware(q)
             \/ Refreshed(q)
             \/ session_handler(q)
             \/ logout_handler(q)
             \/ Arrive(q)
      PROVE  FALSE
  BY <1>2 DEF Send, session_middleware, Refreshed, session_handler, logout_handler,
       Arrive, Answered, SessionsInv, SessionsTypeOK
<1> QED
  BY <1>1, <1>2 DEF SessionsNext

(* A token that is still valid was issued at most a lifetime and the       *)
(* tolerance ago, and never after access was revoked.                      *)
LEMMA ValidIsRecent ==
  ASSUME SessionsInv, NEW r \in Requests, requests[r].token # NoToken,
         ~is_expired(requests[r].token)
  PROVE  granted \/ now <= revoked + Lifetime + ClockTolerance
<1>1. requests[r].token \in Token
  BY DEF SessionsInv, SessionsTypeOK, Request, Cookie
<1>2. Honest(requests[r].token)
  BY DEF SessionsInv
<1> QED
  BY <1>1, <1>2, Bounds DEF Honest, Token, is_expired, SessionsInv, SessionsTypeOK

(* session_middleware is the one place that admits by a token alone, and   *)
(* Refreshed admits only what the auth server has just confirmed.          *)
LEMMA AdmissionIsTimely ==
  ASSUME SessionsInv, [SessionsNext]_sessionVars, NEW r \in Requests, Admits(r)
  PROVE  granted \/ now <= revoked + Lifetime + ClockTolerance
<1>1. requests'[r] # requests[r]
  BY DEF Admits
<1>2. ASSUME NEW what \in Whats, Send(r, what)
      PROVE  FALSE
  BY <1>2 DEF Send, Admits, Idle, SessionsInv, SessionsTypeOK
<1>3. CASE session_middleware(r)
  <2>1. CASE \/ requests[r].token = NoToken
             \/ is_expired(requests[r].token)
             \/ ~verify_token(requests[r].token)
    BY <1>3, <2>1 DEF session_middleware, Answered, Admits, SessionsInv,
         SessionsTypeOK, Request
  <2> QED
    BY <2>1, ValidIsRecent
<1>4. CASE Refreshed(r)
  <2>1. PICK result \in refresh_token(requests[r].token) :
          \/ /\ requests[r].phase = "refreshing"
             /\ IF result = "Ok" THEN Answered(r, Admission(r), Fresh)
                ELSE IF is_access_denied(result) THEN Answered(r, "RefreshDenied", Cleared)
                ELSE Answered(r, "ServiceUnavailable", NoChange)
          \/ /\ requests[r].phase = "renewing"
             /\ Answered(r, requests[r].outcome, IF result = "Ok" THEN Fresh ELSE NoChange)
    BY <1>4 DEF Refreshed
  <2>2. result = "Ok"
    BY <2>1 DEF Answered, Admits, SessionsInv, SessionsTypeOK, Request
  <2> QED
    BY <2>2 DEF refresh_token, Verdicts
<1>5. CASE session_handler(r)
  BY <1>5 DEF session_handler, Answered, Admits, SessionsInv, SessionsTypeOK, Request
<1>6. CASE logout_handler(r)
  BY <1>6 DEF logout_handler, Answered, Admits, SessionsInv, SessionsTypeOK, Request
<1>7. CASE Arrive(r)
  BY <1>7 DEF Arrive, Idle, Admits, SessionsInv, SessionsTypeOK
<1> QED
  BY <1>1, <1>2, <1>3, <1>4, <1>5, <1>6, <1>7, OneRequestMoves

(* For any number of overlapping requests: whoever lost access is admitted *)
(* no longer than a token lives and the clocks may differ.                 *)
THEOREM AccessEndsInTimeAlways == SessionsSpec => AccessEndsInTime
<1>1. SessionsInv /\ [SessionsNext]_sessionVars =>
        [\A r \in Requests : Admits(r) => \/ granted
                                          \/ now <= revoked + Lifetime + ClockTolerance]_sessionVars
  BY AdmissionIsTimely
<1> QED
  BY <1>1, Invariance, PTL DEF SessionsSpec, AccessEndsInTime

-----------------------------------------------------------------------------
(* The places that clear a cookie, and what each has found out before.     *)
LEMMA SignOutIsDenial ==
  ASSUME SessionsInv, [SessionsNext]_sessionVars, NEW r \in Requests, SignsOut(r)
  PROVE  \/ requests[r].what \in {"logout", "doubled"}
         \/ ~granted
         \/ faulty
         \/ now > requests[r].token.exp + Grace
         \/ {signing, requests[r].token.key} \ TrustedKeys # {}
<1>1. requests'[r] # requests[r]
  BY DEF SignsOut
<1>2. ASSUME NEW what \in Whats, Send(r, what)
      PROVE  FALSE
  BY <1>2 DEF Send, SignsOut, Idle, SessionsInv, SessionsTypeOK
<1>3. CASE session_middleware(r)
  <2>1. \/ requests[r].what = "doubled"
        \/ requests[r].token # NoToken /\ ~verify_token(requests[r].token)
        \/ requests[r].token # NoToken /\ ~is_within_refresh_grace(requests[r].token)
    BY <1>3 DEF session_middleware, Answered, SignsOut, NoChange, SessionsInv,
         SessionsTypeOK, Request
  <2>2. requests[r].token # NoToken => requests[r].token \in Token
    BY DEF SessionsInv, SessionsTypeOK, Request, Cookie
  <2>3. CASE ~verify_token(requests[r].token)
    BY <2>3 DEF verify_token
  <2>4. CASE requests[r].token # NoToken /\ ~is_within_refresh_grace(requests[r].token)
    BY <2>2, <2>4, Bounds DEF is_within_refresh_grace, Token, SessionsInv, SessionsTypeOK
  <2> QED
    BY <2>1, <2>3, <2>4
<1>4. CASE Refreshed(r)
  <2>1. PICK result \in refresh_token(requests[r].token) :
          \/ /\ requests[r].phase = "refreshing"
             /\ IF result = "Ok" THEN Answered(r, Admission(r), Fresh)
                ELSE IF is_access_denied(result) THEN Answered(r, "RefreshDenied", Cleared)
                ELSE Answered(r, "ServiceUnavailable", NoChange)
          \/ /\ requests[r].phase = "renewing"
             /\ Answered(r, requests[r].outcome, IF result = "Ok" THEN Fresh ELSE NoChange)
    BY <1>4 DEF Refreshed
  <2>2. result # "Ok" /\ is_access_denied(result)
    BY <2>1 DEF Answered, SignsOut, Fresh, NoChange, SessionsInv, SessionsTypeOK, Request
  <2> QED
    BY <2>2 DEF refresh_token, Verdicts, is_access_denied, verify_token, Issued
<1>5. CASE session_handler(r)
  BY <1>5 DEF session_handler, Answered, SignsOut, NoChange, SessionsInv,
       SessionsTypeOK, Request
<1>6. CASE logout_handler(r)
  BY <1>6 DEF logout_handler
<1>7. CASE Arrive(r)
  BY <1>7 DEF Arrive, Idle, SignsOut, SessionsInv, SessionsTypeOK
<1> QED
  BY <1>1, <1>2, <1>3, <1>4, <1>5, <1>6, <1>7, OneRequestMoves

(* For any lifetimes, outages and answers: nobody is signed out against    *)
(* their will without a denial, a mistake of the auth server, two cookies, *)
(* a token too old or an untrusted key.                                    *)
THEOREM OnlyDenialSignsOutAlways == SessionsSpec => OnlyDenialSignsOut
<1>1. SessionsInv /\ [SessionsNext]_sessionVars =>
        [\A r \in Requests :
           SignsOut(r) => \/ requests[r].what \in {"logout", "doubled"}
                          \/ ~granted
                          \/ faulty
                          \/ now > requests[r].token.exp + Grace
                          \/ {signing, requests[r].token.key} \ TrustedKeys # {}]_sessionVars
  BY SignOutIsDenial
<1> QED
  BY <1>1, Invariance, PTL DEF SessionsSpec, OnlyDenialSignsOut
=============================================================================
