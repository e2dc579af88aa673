------------------------------ MODULE Session -------------------------------
(***************************************************************************)
(* Signing in: AuthContext and the pages that use it in one browser, the   *)
(* browser's cookie, and the sessions of the server.  Requests carry the   *)
(* cookie of the moment they are sent; answers come in any order, and the  *)
(* cookie an answer sets or clears is that of the moment it arrives.       *)
(* A session stands for its token, its cookie and its CSRF token alike.    *)
(***************************************************************************)
EXTENDS Naturals, FiniteSets

CONSTANTS
    Sids,        \* session ids
    MaxCalls,    \* bound on the requests in flight
    MaxSteps,    \* bound on what users and failures start
    None

ASSUME SessionAssumption ==
    /\ Sids # {} /\ None \notin Sids
    /\ MaxCalls \in Nat \ {0} /\ MaxSteps \in Nat

VARIABLES
    auth,        \* AuthState: isAuthenticated, isLoading, requiresTOTP, needsFirstUser
    path,        \* "app" or "login": where the router is
    token,       \* csrfToken of api/auth.ts
    cookie,      \* the browser's session cookie
    redirecting, \* the debounce flag of fetchAPI
    calls,       \* requests in flight
    sessions,    \* the server's sessions: "free", "partial" (2FA pending), "full", "gone"
    site,        \* is there a user, and does it have 2FA enabled
    calm,        \* no request has been answered under another cookie than its own
    used         \* how much of MaxSteps has been spent

sessionVars == <<auth, path, token, cookie, redirecting, calls, sessions, site, calm, used>>

Shown(a) == a.signed /\ ~a.loading /\ ~a.totp /\ ~a.first

\* ProtectedRoute and LoginRoute: where the router goes once the state is a.
Route(a) == IF a.loading THEN path ELSE IF Shown(a) THEN "app" ELSE "login"

SignedOut == [signed |-> FALSE, loading |-> FALSE, totp |-> FALSE, first |-> FALSE]
SignedIn == [SignedOut EXCEPT !.signed = TRUE]
Loading == [SignedOut EXCEPT !.loading = TRUE]

SetState(a) == auth' = a /\ path' = Route(a)

Fresh == CHOOSE i \in 1..(MaxCalls + 1) : \A c \in calls : c.id # i

Request(kind, ck) ==
    [id |-> Fresh, kind |-> kind, cookie |-> ck, csrf |-> token,
     st |-> "sent", sid |-> None, clears |-> FALSE]

\* A page load, by a newcomer or by somebody whose session still lasts.
SessionInit ==
    /\ site \in [users : BOOLEAN, totp : BOOLEAN] /\ (site.totp => site.users)
    /\ cookie \in {None, CHOOSE s \in Sids : TRUE} /\ (cookie # None => site.users)
    /\ sessions = [s \in Sids |-> IF s = cookie THEN "full" ELSE "free"]
    /\ token = None /\ redirecting = FALSE
    /\ auth = Loading /\ path = "app"
    /\ calls = {[id |-> 1, kind |-> "count", cookie |-> cookie, csrf |-> None,
                 st |-> "sent", sid |-> None, clears |-> FALSE]}
    /\ calm = TRUE /\ used = 0

-----------------------------------------------------------------------------
(* The server *)

Live(s) == s # None /\ sessions[s] \in {"partial", "full"}

\* RequireFullAuth and AuthenticatedWebSocket.
Admitted(s) == Live(s) /\ (site.totp => sessions[s] = "full")

\* NewSession: a session that has not been used.
Free == \E s \in Sids : sessions[s] = "free"
NewSession == CHOOSE s \in Sids : sessions[s] = "free"

Reply(c, st, sid, clears) ==
    calls' = (calls \ {c}) \cup {[c EXCEPT !.st = st, !.sid = sid, !.clears = clears]}

HandleUserCount(c) ==
    /\ Reply(c, IF site.users THEN "ok" ELSE "empty", None, FALSE)
    /\ UNCHANGED <<sessions, site>>

\* The password is wrong, or it is right and 2FA is to follow, or not asked
\* for (none enabled, or a trusted address).
HandleLogin(c) ==
    \/ Reply(c, "err", None, FALSE) /\ UNCHANGED <<sessions, site>>
    \/ \E grade \in {"partial", "full"} :
         /\ site.users /\ Free /\ (grade = "partial" => site.totp)
         /\ sessions' = [sessions EXCEPT ![NewSession] = grade]
         /\ Reply(c, IF grade = "full" THEN "ok" ELSE "partial", NewSession, FALSE)
         /\ UNCHANGED site

HandleRegister(c) ==
    IF site.users
    THEN Reply(c, "err", None, FALSE) /\ UNCHANGED <<sessions, site>>
    ELSE /\ Free
         /\ sessions' = [sessions EXCEPT ![NewSession] = "full"]
         /\ site' = [site EXCEPT !.users = TRUE]
         /\ Reply(c, "ok", NewSession, FALSE)

HandleVerifyTOTP(c) ==
    \/ /\ sessions' = [sessions EXCEPT ![c.cookie] = "full"]
       /\ Reply(c, "ok", c.cookie, FALSE)
       /\ UNCHANGED site
    \/ /\ sessions[c.cookie] = "partial"
       /\ Reply(c, "err", None, FALSE)
       /\ UNCHANGED <<sessions, site>>

HandleLogout(c) ==
    /\ sessions' = [sessions EXCEPT ![c.cookie] = "gone"]
    /\ Reply(c, "ok", None, TRUE)
    /\ UNCHANGED site

\* A partial session is answered too, without a user.
HandleMe(c) ==
    /\ Reply(c, IF Admitted(c.cookie) THEN "ok" ELSE "partial",
             c.cookie, FALSE)
    /\ UNCHANGED <<sessions, site>>

\* HandleTOTPVerifySetup and HandleTOTPDisable, behind CSRFProtection.
HandleTwoFactor(c) ==
    \/ /\ c.csrf = c.cookie
       /\ site' = [site EXCEPT !.totp = ~@]
       /\ Reply(c, "ok", None, FALSE)
       /\ UNCHANGED sessions
    \/ Reply(c, "err", None, FALSE) /\ UNCHANGED <<sessions, site>>

\* Any other request, answered or refused.
HandleAPI(c) ==
    /\ Reply(c, "ok", None, FALSE) \/ Reply(c, "err", None, FALSE)
    /\ UNCHANGED <<sessions, site>>

RequireAuth(c) ==
    IF ~Live(c.cookie)
    THEN Reply(c, "401", None, c.cookie # None) /\ UNCHANGED <<sessions, site>>
    ELSE \/ c.kind = "verify" /\ HandleVerifyTOTP(c)
         \/ c.kind = "logout" /\ HandleLogout(c)
         \/ c.kind \in {"me", "me0"} /\ HandleMe(c)
         \/ /\ c.kind \in {"twofa", "api"}
            /\ IF ~Admitted(c.cookie)
               THEN Reply(c, "err", None, FALSE) /\ UNCHANGED <<sessions, site>>
               ELSE \/ c.kind = "twofa" /\ HandleTwoFactor(c)
                    \/ c.kind = "api" /\ HandleAPI(c)

Serve(c) ==
    /\ c.st = "sent"
    /\ CASE c.kind = "count"    -> HandleUserCount(c)
         [] c.kind = "login"    -> HandleLogin(c)
         [] c.kind = "register" -> HandleRegister(c)
         [] OTHER               -> RequireAuth(c)
    /\ UNCHANGED <<auth, path, token, cookie, redirecting, calm, used>>

\* Expired, idle, or revoked from another browser.
SessionEnds(s) ==
    /\ Live(s) /\ used < MaxSteps
    /\ used' = used + 1
    /\ sessions' = [sessions EXCEPT ![s] = "gone"]
    /\ UNCHANGED <<auth, path, token, cookie, redirecting, calls, site, calm>>

\* Somebody else registers the first user.
OtherRegisters ==
    /\ ~site.users /\ used < MaxSteps
    /\ used' = used + 1
    /\ site' = [site EXCEPT !.users = TRUE]
    /\ UNCHANGED <<auth, path, token, cookie, redirecting, calls, sessions, calm>>

NetworkFails(c) ==
    /\ c.st = "sent" /\ used < MaxSteps
    /\ used' = used + 1
    /\ Reply(c, "err", None, FALSE)
    /\ UNCHANGED <<auth, path, token, cookie, redirecting, sessions, site, calm>>

-----------------------------------------------------------------------------
(* The browser: an answer and the code that awaited it *)

SetCookie(c) ==
    cookie' = IF c.kind \in {"login", "register"} /\ c.sid # None THEN c.sid
              ELSE IF c.clears THEN None ELSE cookie

\* Mutant: the token of the first check is not stored.
SetCSRFToken_notByMe(c) ==
    IF c.sid # None /\ c.kind # "me0" THEN c.sid ELSE token

\* login, verifyTOTP, register and getMe of api/auth.ts store the answer's token.
SetCSRFToken(c) ==
    IF c.sid # None THEN c.sid ELSE token

\* checkAuth, first await.
CheckAuthCount(c) ==
    /\ CASE c.st = "ok"    -> /\ SetState(auth)
                              /\ calls' = (calls \ {c}) \cup {Request("me0", cookie)}
         [] c.st = "empty" -> /\ SetState([auth EXCEPT !.loading = FALSE, !.first = TRUE])
                              /\ calls' = calls \ {c}
         [] c.st = "err"   -> /\ SetState([auth EXCEPT !.signed = FALSE, !.loading = FALSE, !.first = FALSE])
                              /\ calls' = calls \ {c}
    /\ UNCHANGED <<token, redirecting>>

\* checkAuth, second await: whatever getMe answered with 200 is signed in.
CheckAuthMe(c) ==
    /\ SetState(IF c.st \in {"ok", "partial"} THEN SignedIn
                ELSE [auth EXCEPT !.signed = FALSE, !.loading = FALSE, !.first = FALSE])
    /\ token' = SetCSRFToken(c)
    /\ calls' = calls \ {c}
    /\ UNCHANGED redirecting

\* Mutant: a failed login does not lower isLoading.
AfterLogin_errStays(c) ==
    CASE c.st = "ok"      -> SignedIn
      [] c.st = "partial" -> [auth EXCEPT !.loading = FALSE, !.totp = TRUE]
      [] OTHER            -> auth

AfterLogin(c) ==
    CASE c.st = "ok"      -> SignedIn
      [] c.st = "partial" -> [auth EXCEPT !.loading = FALSE, !.totp = TRUE]
      [] OTHER            -> [auth EXCEPT !.loading = FALSE]

LoginDone(c) ==
    /\ SetState(AfterLogin(c))
    /\ token' = SetCSRFToken(c)
    /\ calls' = calls \ {c}
    /\ UNCHANGED redirecting

\* verifyTOTP and register.
GrantDone(c) ==
    /\ SetState(IF c.st = "ok" THEN SignedIn ELSE [auth EXCEPT !.loading = FALSE])
    /\ token' = SetCSRFToken(c)
    /\ calls' = calls \ {c}
    /\ UNCHANGED redirecting

\* The finally of logout: also when the request failed.
LogoutDone(c) ==
    /\ SetState(SignedOut)
    /\ token' = None
    /\ calls' = calls \ {c}
    /\ UNCHANGED redirecting

RefreshUserDone(c) ==
    /\ IF c.st \in {"ok", "partial"}
       THEN SetState(auth) /\ token' = SetCSRFToken(c)
       ELSE SetState([auth EXCEPT !.signed = FALSE, !.totp = FALSE]) /\ token' = None
    /\ calls' = calls \ {c}
    /\ UNCHANGED redirecting

\* handleDisable, and TOTPSetupWizard's onComplete: then refreshUser.
TwoFactorDone(c) ==
    /\ SetState(auth)
    /\ calls' = (calls \ {c}) \cup IF c.st = "ok" THEN {Request("me", cookie)} ELSE {}
    /\ UNCHANGED <<token, redirecting>>

\* fetchAPI: the first 401 outside /login signs the page out.
FetchAPIDone(c) ==
    /\ IF c.st = "401" /\ ~redirecting /\ path # "login"
       THEN SetState(SignedOut) /\ redirecting' = TRUE
       ELSE SetState(auth) /\ UNCHANGED redirecting
    /\ calls' = calls \ {c}
    /\ UNCHANGED token

Arrive(c) ==
    /\ c.st # "sent"
    /\ SetCookie(c)
    /\ CASE c.kind = "count"  -> CheckAuthCount(c)
         [] c.kind = "me0"    -> CheckAuthMe(c)
         [] c.kind = "login"  -> LoginDone(c)
         [] c.kind \in {"verify", "register"} -> GrantDone(c)
         [] c.kind = "logout" -> LogoutDone(c)
         [] c.kind = "me"     -> RefreshUserDone(c)
         [] c.kind = "twofa"  -> TwoFactorDone(c)
         [] c.kind = "api"    -> FetchAPIDone(c)
    /\ calm' = (calm /\ (c.cookie = cookie \/ c.kind \in {"count", "login", "register"}))
    /\ UNCHANGED <<sessions, site, used>>

RedirectingReset ==
    /\ redirecting /\ redirecting' = FALSE
    /\ UNCHANGED <<auth, path, token, cookie, calls, sessions, site, calm, used>>

-----------------------------------------------------------------------------
(* The user *)

Send(kind, a) ==
    /\ used < MaxSteps /\ Cardinality(calls) < MaxCalls
    /\ used' = used + 1
    /\ auth' = a /\ path' = Route(a)
    /\ calls' = calls \cup {Request(kind, cookie)}
    /\ UNCHANGED <<token, cookie, redirecting, sessions, site, calm>>

Begin == [auth EXCEPT !.loading = TRUE]
AtLogin == path = "login" /\ ~auth.loading

\* Login.tsx shows one of three forms; each handler is one of AuthContext's.
handleVerifyTOTP == AtLogin /\ auth.totp /\ Send("verify", Begin)
handleRegister == AtLogin /\ ~auth.totp /\ auth.first /\ Send("register", Begin)
handleLogin == AtLogin /\ ~auth.totp /\ ~auth.first /\ Send("login", Begin)

handleLogout == Shown(auth) /\ Send("logout", auth)
TwoFactorSection == Shown(auth) /\ Send("twofa", auth)
CallAPI == Shown(auth) /\ Send("api", auth)

\* The page is loaded anew: what was sent has been carried out, or is lost.
Reload ==
    /\ used < MaxSteps
    /\ used' = used + 1
    /\ auth' = Loading /\ path' = path /\ token' = None /\ redirecting' = FALSE
    /\ calls' = {[id |-> 1, kind |-> "count", cookie |-> cookie, csrf |-> None,
                  st |-> "sent", sid |-> None, clears |-> FALSE]}
    /\ UNCHANGED <<cookie, sessions, site, calm>>

SessionProgress ==
    \/ \E c \in calls : Serve(c) \/ Arrive(c)
    \/ RedirectingReset

SessionNext ==
    \/ SessionProgress
    \/ \E s \in Sids : SessionEnds(s)
    \/ OtherRegisters
    \/ \E c \in calls : NetworkFails(c)
    \/ handleVerifyTOTP \/ handleRegister \/ handleLogin
    \/ handleLogout \/ TwoFactorSection \/ CallAPI
    \/ Reload

-----------------------------------------------------------------------------
\* The loading screen ends: whatever becomes of the request that raised it,
\* some setState lowers it, and no other request's answer raises it again.
SpinnerEnds == auth.loading ~> ~auth.loading

\* The page's CSRF token is that of the cookie's session whenever it shows the
\* application, also while requests are in flight, unless an answer was overtaken
\* by a change of session: protected requests of a signed-in page are not refused
\* for their token.  (A session found ended by api/auth.ts costs the cookie and
\* leaves the page as it is.)
TokenOfCookie == calm /\ Shown(auth) => cookie \in {token, None}
=============================================================================
