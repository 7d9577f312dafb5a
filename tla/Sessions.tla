------------------------------ MODULE Sessions ------------------------------
(***************************************************************************)
(* Signing in to the admin interface.  The daemon keeps no sessions: the   *)
(* browser has a cookie with a token signed by the auth server, and the    *)
(* PKCE verifier of a login travels encrypted in the state parameter.  Two *)
(* requests of one browser may overlap, and their answers set the cookie   *)
(* in the order they arrive.                                               *)
(***************************************************************************)
EXTENDS Integers, FiniteSets, Sequences

CONSTANTS
  Requests,        \* the browser's connections
  NoToken,         \* no cookie
  Lifetime,        \* exp - iat of the tokens the auth server issues
  Grace,           \* how long after exp a token may still be refreshed
  ClockTolerance,  \* clock_tolerance
  TrustedKeys,     \* token_public_keys
  MaxTime,         \* bound: the clock stops here
  MaxRotations     \* bound: how often the client secret is rotated

ASSUME SessionsAssumption ==
  {Lifetime, Grace, ClockTolerance, MaxTime, MaxRotations} \subseteq Nat

VARIABLES
  now,
  granted,         \* whether the auth server lets the user in
  revoked,         \* when it stopped to
  signing,         \* the key the auth server signs with
  faulty,          \* whether it refuses the client or issues unusable tokens
  secret,          \* client_secret; the one before it is previous_client_secret
  login,           \* the login under way, with the secret that sealed its state
  cookie,          \* the browser's session cookie
  requests         \* what each connection carries

authority == <<granted, revoked, signing, faulty>>
sessionVars == <<now, authority, secret, login, cookie, requests>>

Token == [iat : 0 .. MaxTime, exp : 0 .. MaxTime + Lifetime, key : {"k0", "k1", "k2"}]
Cookie == Token \cup {NoToken}

(* What an answer does with the cookie: nothing, clear it, or set it to    *)
(* the token in fresh.                                                     *)
Idle == [phase |-> "idle", what |-> "use", token |-> NoToken,
         outcome |-> "none", sets |-> "nothing", fresh |-> NoToken]

Request ==
  [phase : {"idle", "sent", "refreshing", "renewing", "answered"},
   what : {"use", "headerless", "doubled", "session", "logout"},
   token : Cookie,
   outcome : {"none", "admitted", "CsrfMissing", "DuplicateCookie", "NoSession",
              "InvalidToken", "RefreshDenied", "ServiceUnavailable", "SessionInfo",
              "LoggedOut"},
   sets : {"nothing", "clear", "fresh"},
   fresh : Cookie]

SessionsTypeOK ==
  /\ now \in 0 .. MaxTime
  /\ granted \in BOOLEAN
  /\ revoked \in 0 .. MaxTime
  /\ signing \in {"k1", "k2"}
  /\ faulty \in BOOLEAN
  /\ secret \in 0 .. MaxRotations
  /\ login \in [sealed : 0 .. MaxRotations,
                phase : {"none", "authorizing", "returning", "done",
                         "undecryptable", "failed"}]
  /\ cookie \in Cookie
  /\ requests \in [Requests -> Request]

SessionsInit ==
  /\ now = 0
  /\ granted = TRUE
  /\ revoked = 0
  /\ signing = "k1"
  /\ faulty = FALSE
  /\ secret = 0
  /\ login = [sealed |-> 0, phase |-> "none"]
  /\ cookie \in {NoToken, [iat |-> 0, exp |-> Lifetime, key |-> "k0"]}
  /\ requests = [r \in Requests |-> Idle]

-----------------------------------------------------------------------------
(* The auth server.                                                        *)
Issued == [iat |-> now, exp |-> now + Lifetime, key |-> signing]

Revoke ==
  /\ granted
  /\ granted' = FALSE
  /\ revoked' = now
  /\ UNCHANGED <<now, signing, faulty, secret, login, cookie, requests>>

RotateKey ==
  /\ signing = "k1"
  /\ signing' = "k2"
  /\ UNCHANGED <<now, granted, revoked, faulty, secret, login, cookie, requests>>

(* A mistake made at the auth server, and its repair.                      *)
Misconfigure ==
  /\ faulty' = ~faulty
  /\ UNCHANGED <<now, granted, revoked, signing, secret, login, cookie, requests>>

(* The new secret is configured here and there, the old one becomes        *)
(* previous_client_secret, and the daemon is started again.                *)
RotateSecret ==
  /\ secret < MaxRotations
  /\ secret' = secret + 1
  /\ UNCHANGED <<now, authority, login, cookie, requests>>

Tick ==
  /\ now < MaxTime
  /\ now' = now + 1
  /\ UNCHANGED <<authority, secret, login, cookie, requests>>

-----------------------------------------------------------------------------
(* Tokens.                                                                 *)
verify_token(token) == token.key \in TrustedKeys

(* Mutant: a token counts until it can no longer be refreshed.             *)
ExpiredAfterGrace(token) == now > token.exp + Grace

is_expired(token) == now > token.exp + ClockTolerance

is_past_midpoint(token) == now > token.iat + (token.exp - token.iat) \div 2

is_within_refresh_grace(token) == now <= token.exp + Grace

(* What the auth server lets happen to a token that is brought to it.      *)
Verdicts(token) ==
  IF ~granted THEN {"AccessDenied", "SupportSessionExpired"}
  ELSE IF now > token.exp + Grace THEN {"TokenTooOld"}
  ELSE IF verify_token(Issued) THEN {"Ok"} ELSE {"TokenVerificationFailed"}

(* What the client makes of its answer, if one comes and can be read: by   *)
(* mistake the server may refuse the client itself (401 invalid_client),   *)
(* or answer 200 with a token that is malformed or issued for another.     *)
refresh_token(token) ==
  {"AuthServerUnreachable", "InvalidResponse"}
    \cup Verdicts(token)
    \cup (IF faulty THEN {"ConfigError", "TokenVerificationFailed"} ELSE {})

(* Mutant: any failed refresh ends the session.                            *)
AnyErrorIsDenial(result) == result # "Ok"

is_access_denied(result) ==
  result \in {"AccessDenied", "TokenTooOld", "SupportSessionExpired", "ConfigError",
              "TokenVerificationFailed"}

-----------------------------------------------------------------------------
(* The login.  login_handler seals a new verifier with the current secret; *)
(* the auth server posts the code and the state back through the browser.  *)
login_handler ==
  /\ login.phase \notin {"authorizing", "returning"}
  /\ login' = [sealed |-> secret, phase |-> "authorizing"]
  /\ UNCHANGED <<now, authority, secret, cookie, requests>>

Authorize ==
  /\ login.phase = "authorizing"
  /\ granted
  /\ login' = [login EXCEPT !.phase = "returning"]
  /\ UNCHANGED <<now, authority, secret, cookie, requests>>

(* Mutant: only the current secret is tried.                               *)
DecryptCurrent(sealed) == sealed = secret

decrypt_state_with_fallback(sealed) == sealed \in {secret, secret - 1}

(* The auth server may refuse the code, answer nonsense or be out of reach.*)
exchange_code(sealed) ==
  IF ~decrypt_state_with_fallback(sealed) THEN {"undecryptable"}
  ELSE {"failed"} \cup (IF granted /\ verify_token(Issued) THEN {"done"} ELSE {})

callback_handler ==
  /\ login.phase = "returning"
  /\ \E outcome \in exchange_code(login.sealed) :
       /\ login' = [login EXCEPT !.phase = outcome]
       /\ cookie' = IF outcome = "done" THEN Issued ELSE cookie
  /\ UNCHANGED <<now, authority, secret, requests>>

-----------------------------------------------------------------------------
(* Requests: of the admin API with the X-Kalatori header, without it, and  *)
(* with the session cookie in it twice; of /auth/session and /auth/logout. *)
Whats == {"use", "headerless", "doubled", "session", "logout"}

Send(r, what) ==
  /\ requests[r].phase = "idle"
  /\ requests' = [requests EXCEPT ![r] = [Idle EXCEPT !.phase = "sent", !.what = what, !.token = cookie]]
  /\ UNCHANGED <<now, authority, secret, login, cookie>>

NoChange == [sets |-> "nothing", fresh |-> NoToken]
Cleared == [sets |-> "clear", fresh |-> NoToken]
Fresh == [sets |-> "fresh", fresh |-> Issued]

Answered(r, outcome, change) ==
  requests' = [requests EXCEPT ![r].phase = "answered", ![r].token = NoToken,
                               ![r].outcome = outcome,
                               ![r].sets = change.sets, ![r].fresh = change.fresh]

(* run_with_user, and csrf_middleware behind it.                           *)
Admission(r) == IF requests[r].what = "use" THEN "admitted" ELSE "CsrfMissing"

(* session_middleware up to the first await.  A token past its midpoint    *)
(* lets the request through, and is renewed before the answer goes out.    *)
session_middleware(r) ==
  LET token == requests[r].token IN
  /\ requests[r].phase = "sent"
  /\ requests[r].what \in {"use", "headerless", "doubled"}
  /\ IF requests[r].what = "doubled" THEN Answered(r, "DuplicateCookie", Cleared)
     ELSE IF token = NoToken THEN Answered(r, "NoSession", NoChange)
     ELSE IF ~verify_token(token) THEN Answered(r, "InvalidToken", Cleared)
     ELSE IF is_expired(token)
       THEN IF is_within_refresh_grace(token)
              THEN requests' = [requests EXCEPT ![r].phase = "refreshing"]
              ELSE Answered(r, "RefreshDenied", Cleared)
     ELSE IF is_past_midpoint(token)
       THEN requests' = [requests EXCEPT ![r].phase = "renewing", ![r].outcome = Admission(r)]
     ELSE Answered(r, Admission(r), NoChange)
  /\ UNCHANGED <<now, authority, secret, login, cookie>>

(* The refresh has ended.                                                  *)
Refreshed(r) ==
  /\ requests[r].phase \in {"refreshing", "renewing"}
  /\ \E result \in refresh_token(requests[r].token) :
       \/ /\ requests[r].phase = "refreshing"
          /\ IF result = "Ok" THEN Answered(r, Admission(r), Fresh)
             ELSE IF is_access_denied(result) THEN Answered(r, "RefreshDenied", Cleared)
             ELSE Answered(r, "ServiceUnavailable", NoChange)
       \/ /\ requests[r].phase = "renewing"
          /\ Answered(r, requests[r].outcome, IF result = "Ok" THEN Fresh ELSE NoChange)
  /\ UNCHANGED <<now, authority, secret, login, cookie>>

(* session_handler does not look at exp, logout_handler always clears.     *)
session_handler(r) ==
  LET token == requests[r].token IN
  /\ requests[r].phase = "sent"
  /\ requests[r].what = "session"
  /\ Answered(r, IF token # NoToken /\ verify_token(token) THEN "SessionInfo" ELSE "NoSession", NoChange)
  /\ UNCHANGED <<now, authority, secret, login, cookie>>

logout_handler(r) ==
  /\ requests[r].phase = "sent"
  /\ requests[r].what = "logout"
  /\ Answered(r, "LoggedOut", Cleared)
  /\ UNCHANGED <<now, authority, secret, login, cookie>>

(* The answer reaches the browser.                                         *)
Arrive(r) ==
  /\ requests[r].phase = "answered"
  /\ cookie' = IF requests[r].sets = "nothing" THEN cookie ELSE requests[r].fresh
  /\ requests' = [requests EXCEPT ![r] = Idle]
  /\ UNCHANGED <<now, authority, secret, login>>

SessionsNext ==
  \/ Revoke
  \/ RotateKey
  \/ Misconfigure
  \/ RotateSecret
  \/ Tick
  \/ login_handler
  \/ Authorize
  \/ callback_handler
  \/ \E r \in Requests :
       \/ \E what \in Whats : Send(r, what)
       \/ session_middleware(r)
       \/ Refreshed(r)
       \/ session_handler(r)
       \/ logout_handler(r)
       \/ Arrive(r)

SessionsSpec ==
  SessionsInit /\ [][SessionsNext]_sessionVars

-----------------------------------------------------------------------------
Admits(r) == requests[r].outcome # "admitted" /\ requests'[r].outcome = "admitted"
SignsOut(r) == requests[r].sets # "clear" /\ requests'[r].sets = "clear"

(* The daemon asks the auth server only now and then.  Still, whoever lost *)
(* access is not admitted any more when one lifetime and the tolerance     *)
(* have gone by, whichever refreshes, outages and late answers there were. *)
AccessEndsInTime ==
  [][\A r \in Requests : Admits(r) => \/ granted
                                      \/ now <= revoked + Lifetime + ClockTolerance]_sessionVars

(* A session ends against the user's will only if the auth server said so  *)
(* or errs itself, the browser sent two cookies, the token is too old to   *)
(* be refreshed, or a signing key is not trusted: no outage of the auth    *)
(* server, no error status it does not explain and no answer that cannot   *)
(* be read signs anybody out.                                              *)
OnlyDenialSignsOut ==
  [][\A r \in Requests :
       SignsOut(r) => \/ requests[r].what \in {"logout", "doubled"}
                      \/ ~granted
                      \/ faulty
                      \/ now > requests[r].token.exp + Grace
                      \/ {signing, requests[r].token.key} \ TrustedKeys # {}]_sessionVars

(* A login that is under way survives one rotation of the client secret.   *)
LoginSurvivesRotation ==
  login.phase = "undecryptable" => secret >= login.sealed + 2
=============================================================================
