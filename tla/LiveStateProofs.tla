-------------------------- MODULE LiveStateProofs --------------------------
(***************************************************************************)
(* Proofs about signing in and about what lives while signed in, for any   *)
(* number of sessions, requests, publishers, guests and clones.            *)
(***************************************************************************)
EXTENDS LiveState, FiniteSetTheorems, TLAPS

Sid == Sids \cup {None}

Kind == {"count", "me0", "login", "register", "verify", "logout", "me", "twofa", "api"}

Call ==
    [id : 1..(MaxCalls + 1), kind : Kind, cookie : Sid, csrf : Sid,
     st : {"sent", "ok", "empty", "partial", "err", "401"}, sid : Sid, clears : BOOLEAN]

SessionTypeOK ==
    /\ auth \in [signed : BOOLEAN, loading : BOOLEAN, totp : BOOLEAN, first : BOOLEAN]
    /\ path \in {"app", "login"}
    /\ token \in Sid /\ cookie \in Sid
    /\ redirecting \in BOOLEAN
    /\ calls \subseteq Call
    /\ sessions \in [Sids -> {"free", "partial", "full", "gone"}]
    /\ site \in [users : BOOLEAN, totp : BOOLEAN]
    /\ calm \in BOOLEAN
    /\ used \in 0..MaxSteps

(* The bound on requests leaves an id for the next one.                    *)
IdsOK ==
    /\ IsFiniteSet(calls) /\ Cardinality(calls) <= MaxCalls
    /\ \A c, d \in calls : c.id = d.id => c = d

(* What an answer carries: the session it is about is the one of its       *)
(* cookie, except for a login or a registration, which make a new one; and *)
(* an answer that signs the page in carries one.                           *)
CallOK(c) ==
    /\ c.kind = "count" => c.st \in {"sent", "ok", "empty", "err"}
    /\ c.sid # None /\ c.kind \notin {"login", "register"} => c.sid = c.cookie
    /\ c.kind \in {"me0", "me", "login", "register", "verify"} /\ c.st = "ok" => c.sid # None
    /\ c.kind \in {"me0", "me"} /\ c.st = "partial" => c.sid # None

(* TokenOfCookie without its appeal to what is displayed: a page that was  *)
(* signed in got its token with the answer that did it.                    *)
SignedOK == calm /\ auth.signed => cookie \in {token, None}

SessionInv ==
    /\ SessionTypeOK /\ IdsOK
    /\ \A c \in calls : CallOK(c)
    /\ SignedOK

-----------------------------------------------------------------------------
(* A request is sent under an id that no other has.                        *)
LEMMA FreshId ==
    ASSUME SessionTypeOK, IdsOK
    PROVE  Fresh \in 1..(MaxCalls + 1) /\ \A c \in calls : c.id # Fresh
<1> USE SessionAssumption
<1> DEFINE used_ids == {c.id : c \in calls}
<1>1. IsFiniteSet(used_ids) /\ Cardinality(used_ids) <= Cardinality(calls)
  <2> DEFINE f == [c \in calls |-> c.id]
  <2>1. f \in Surjection(calls, used_ids)
    BY DEF Surjection
  <2>2. QED
    BY <2>1, FS_Surjection DEF IdsOK
<1>2. IsFiniteSet(1..(MaxCalls + 1)) /\ Cardinality(1..(MaxCalls + 1)) = MaxCalls + 1
  BY FS_Interval
<1>3. Cardinality(used_ids) \in Nat /\ Cardinality(calls) \in Nat
  BY <1>1, FS_CardinalityType DEF IdsOK
<1>4. used_ids \subseteq 1..(MaxCalls + 1)
  BY DEF SessionTypeOK, Call
<1>5. used_ids # 1..(MaxCalls + 1)
  <2>1. MaxCalls \in Nat /\ Cardinality(calls) <= MaxCalls
    BY DEF IdsOK
  <2> HIDE DEF used_ids
  <2>2. QED
    BY <1>1, <1>2, <1>3, <2>1
<1>6. \E i \in 1..(MaxCalls + 1) : \A c \in calls : c.id # i
  BY <1>4, <1>5
<1>7. QED
  BY <1>6 DEF Fresh

(* One request in exchange for another, or for none.                       *)
LEMMA IdsKept ==
    ASSUME SessionTypeOK, IdsOK, NEW c \in calls,
           NEW d, d.id = c.id \/ d.id = Fresh,
           calls' = calls \ {c} \/ calls' = (calls \ {c}) \cup {d}
    PROVE  IdsOK'
<1>1. /\ IsFiniteSet(calls \ {c}) /\ Cardinality(calls \ {c}) = Cardinality(calls) - 1
      /\ Cardinality(calls) \in Nat
  BY FS_RemoveElement, FS_CardinalityType DEF IdsOK
<1>2. /\ IsFiniteSet((calls \ {c}) \cup {d})
      /\ Cardinality((calls \ {c}) \cup {d}) <= Cardinality(calls)
      /\ Cardinality((calls \ {c}) \cup {d}) \in Nat
  <2>1. /\ IsFiniteSet((calls \ {c}) \cup {d})
        /\ Cardinality((calls \ {c}) \cup {d}) =
             IF d \in calls \ {c} THEN Cardinality(calls \ {c})
             ELSE Cardinality(calls \ {c}) + 1
    BY <1>1, FS_AddElement
  <2>2. Cardinality(calls \ {c}) \in Nat
    BY <1>1, FS_CardinalityType
  <2>3. QED
    BY <1>1, <2>1, <2>2
<1>3. IsFiniteSet(calls') /\ Cardinality(calls') <= MaxCalls
  <2>1. MaxCalls \in Nat /\ Cardinality(calls) <= MaxCalls
    BY SessionAssumption DEF IdsOK
  <2>2. CASE calls' = calls \ {c}
    BY <1>1, <2>1, <2>2
  <2>3. CASE calls' = (calls \ {c}) \cup {d}
    BY <1>1, <1>2, <2>1, <2>3
  <2>4. QED
    BY <2>2, <2>3
<1>4. \A x, y \in calls' : x.id = y.id => x = y
  BY FreshId DEF IdsOK
<1>5. QED
  BY <1>3, <1>4 DEF IdsOK

(* One request more, within the bound.                                     *)
LEMMA IdsAdded ==
    ASSUME SessionTypeOK, IdsOK, Cardinality(calls) < MaxCalls,
           NEW d, d.id = Fresh, calls' = calls \cup {d}
    PROVE  IdsOK'
<1>1. /\ IsFiniteSet(calls')
      /\ Cardinality(calls') =
             IF d \in calls THEN Cardinality(calls) ELSE Cardinality(calls) + 1
  BY FS_AddElement DEF IdsOK
<1>2. Cardinality(calls) \in Nat
  BY FS_CardinalityType DEF IdsOK
<1>3. \A x, y \in calls' : x.id = y.id => x = y
  BY FreshId DEF IdsOK
<1>4. QED
  BY <1>1, <1>2, <1>3, SessionAssumption DEF IdsOK

-----------------------------------------------------------------------------
AuthState == [signed : BOOLEAN, loading : BOOLEAN, totp : BOOLEAN, first : BOOLEAN]

(* The updates of AuthContext: which of them sign in and out.              *)
LEMMA AuthUpdates ==
    /\ {SignedOut, SignedIn, Loading} \subseteq AuthState
    /\ ~SignedOut.signed /\ SignedIn.signed /\ ~Loading.signed
    /\ \A a \in AuthState :
         /\ [a EXCEPT !.loading = FALSE] \in AuthState
         /\ [a EXCEPT !.loading = TRUE] \in AuthState
         /\ [a EXCEPT !.loading = FALSE].signed = a.signed
         /\ [a EXCEPT !.loading = TRUE].signed = a.signed
         /\ [a EXCEPT !.loading = FALSE, !.first = TRUE] \in AuthState
         /\ [a EXCEPT !.loading = FALSE, !.first = TRUE].signed = a.signed
         /\ [a EXCEPT !.loading = FALSE, !.totp = TRUE] \in AuthState
         /\ [a EXCEPT !.loading = FALSE, !.totp = TRUE].signed = a.signed
         /\ [a EXCEPT !.signed = FALSE, !.totp = FALSE] \in AuthState
         /\ ~[a EXCEPT !.signed = FALSE, !.totp = FALSE].signed
         /\ [a EXCEPT !.signed = FALSE, !.loading = FALSE, !.first = FALSE] \in AuthState
         /\ ~[a EXCEPT !.signed = FALSE, !.loading = FALSE, !.first = FALSE].signed
<1>1. SignedOut \in AuthState /\ ~SignedOut.signed
  BY DEF SignedOut, AuthState
<1>2. ASSUME NEW a \in AuthState, NEW b \in BOOLEAN
      PROVE  /\ [a EXCEPT !.loading = b] \in AuthState
             /\ [a EXCEPT !.loading = b].signed = a.signed
             /\ [a EXCEPT !.totp = b] \in AuthState
             /\ [a EXCEPT !.totp = b].signed = a.signed
             /\ [a EXCEPT !.first = b] \in AuthState
             /\ [a EXCEPT !.first = b].signed = a.signed
             /\ [a EXCEPT !.signed = b] \in AuthState
             /\ [a EXCEPT !.signed = b].signed = b
  BY DEF AuthState
<1>3. ASSUME NEW a \in AuthState
      PROVE  /\ [a EXCEPT !.loading = FALSE, !.first = TRUE] \in AuthState
             /\ [a EXCEPT !.loading = FALSE, !.first = TRUE].signed = a.signed
             /\ [a EXCEPT !.loading = FALSE, !.totp = TRUE] \in AuthState
             /\ [a EXCEPT !.loading = FALSE, !.totp = TRUE].signed = a.signed
  <2> DEFINE x == [a EXCEPT !.loading = FALSE]
  <2>1. x \in AuthState /\ x.signed = a.signed
    BY <1>2
  <2>2. /\ [a EXCEPT !.loading = FALSE, !.first = TRUE] = [x EXCEPT !.first = TRUE]
        /\ [a EXCEPT !.loading = FALSE, !.totp = TRUE] = [x EXCEPT !.totp = TRUE]
    OBVIOUS
  <2> HIDE DEF x
  <2>3. QED
    BY <1>2, <2>1, <2>2
<1>4. ASSUME NEW a \in AuthState
      PROVE  /\ [a EXCEPT !.signed = FALSE, !.totp = FALSE] \in AuthState
             /\ ~[a EXCEPT !.signed = FALSE, !.totp = FALSE].signed
             /\ [a EXCEPT !.signed = FALSE, !.loading = FALSE, !.first = FALSE] \in AuthState
             /\ ~[a EXCEPT !.signed = FALSE, !.loading = FALSE, !.first = FALSE].signed
  <2> DEFINE x == [a EXCEPT !.signed = FALSE]
  <2> DEFINE y == [x EXCEPT !.loading = FALSE]
  <2>1. x \in AuthState /\ ~x.signed
    BY <1>2
  <2>2. /\ [a EXCEPT !.signed = FALSE, !.totp = FALSE] = [x EXCEPT !.totp = FALSE]
        /\ [a EXCEPT !.signed = FALSE, !.loading = FALSE, !.first = FALSE]
             = [y EXCEPT !.first = FALSE]
    OBVIOUS
  <2> HIDE DEF x
  <2>3. y \in AuthState /\ ~y.signed
    BY <1>2, <2>1
  <2> HIDE DEF y
  <2>4. [x EXCEPT !.totp = FALSE] \in AuthState /\ ~[x EXCEPT !.totp = FALSE].signed
    BY <1>2, <2>1
  <2>5. [y EXCEPT !.first = FALSE] \in AuthState /\ ~[y EXCEPT !.first = FALSE].signed
    BY <1>2, <2>3
  <2>6. QED
    BY <2>2, <2>4, <2>5
<1>5. SignedIn \in AuthState /\ SignedIn.signed
  BY <1>1, <1>2 DEF SignedIn
<1>6. Loading \in AuthState /\ ~Loading.signed
  BY <1>1, <1>2 DEF Loading
<1>7. ASSUME NEW a \in AuthState
      PROVE  /\ [a EXCEPT !.loading = FALSE] \in AuthState
             /\ [a EXCEPT !.loading = TRUE] \in AuthState
             /\ [a EXCEPT !.loading = FALSE].signed = a.signed
             /\ [a EXCEPT !.loading = TRUE].signed = a.signed
  BY <1>2
<1>8. QED
  BY <1>1, <1>3, <1>4, <1>5, <1>6, <1>7, Zenon

(* Where the router goes is one of its two places.                         *)
LEMMA RouteType == SessionTypeOK => \A a : Route(a) \in {"app", "login"}
  BY DEF SessionTypeOK, Route

(* A request carries the page's token and the cookie of the moment.        *)
LEMMA RequestOK ==
    ASSUME SessionTypeOK, IdsOK, NEW k \in Kind, NEW ck \in Sid
    PROVE  /\ Request(k, ck) \in Call
           /\ Request(k, ck).id = Fresh
           /\ CallOK(Request(k, ck))
<1>1. Fresh \in 1..(MaxCalls + 1)
  BY FreshId
<1>2. QED
  BY <1>1 DEF Request, Call, CallOK, SessionTypeOK, Sid

-----------------------------------------------------------------------------
(* The server.  What a handler may answer.                                 *)
Answer(c, st, sid) ==
    /\ st \in {"ok", "empty", "partial", "err", "401"} /\ sid \in Sid
    /\ c.kind = "count" => st \in {"ok", "empty", "err"}
    /\ sid # None /\ c.kind \notin {"login", "register"} => sid = c.cookie
    /\ c.kind \in {"me0", "me", "login", "register", "verify"} /\ st = "ok" => sid # None
    /\ c.kind \in {"me0", "me"} /\ st = "partial" => sid # None

Answered(c) ==
    \E st, sid : \E clears \in BOOLEAN : Answer(c, st, sid) /\ Reply(c, st, sid, clears)

ServerType ==
    /\ sessions \in [Sids -> {"free", "partial", "full", "gone"}]
    /\ site \in [users : BOOLEAN, totp : BOOLEAN]

(* Every handler answers its request, and keeps the types of the server.   *)
LEMMA Served ==
    ASSUME SessionTypeOK, NEW c \in calls, Serve(c)
    PROVE  Answered(c) /\ ServerType'
<1> USE SessionAssumption
<1>0. c \in Call /\ ServerType
  BY DEF SessionTypeOK, ServerType
<1>n. Free => NewSession \in Sids
  BY DEF Free, NewSession
<1>1. CASE c.kind = "count"
  <2>1. HandleUserCount(c)
    BY <1>1 DEF Serve
  <2>2. QED
    BY <1>0, <1>1, <2>1 DEF HandleUserCount, Answered, Answer, ServerType, Sid
<1>2. CASE c.kind = "login"
  <2>1. HandleLogin(c)
    BY <1>2 DEF Serve
  <2>2. CASE Reply(c, "err", None, FALSE) /\ UNCHANGED <<sessions, site>>
    BY <1>0, <1>2, <2>2 DEF Answered, Answer, ServerType, Sid
  <2>3. ASSUME NEW grade \in {"partial", "full"}, Free,
               sessions' = [sessions EXCEPT ![NewSession] = grade],
               Reply(c, IF grade = "full" THEN "ok" ELSE "partial", NewSession, FALSE),
               UNCHANGED site
        PROVE  Answered(c) /\ ServerType'
    <3>1. ServerType'
      BY <1>0, <1>n, <2>3 DEF ServerType
    <3>2. Answered(c)
      BY <1>n, <1>2, <2>3 DEF Answered, Answer, Sid
    <3>3. QED
      BY <3>1, <3>2
  <2>4. QED
    BY <2>1, <2>2, <2>3 DEF HandleLogin
<1>3. CASE c.kind = "register"
  <2>1. HandleRegister(c)
    BY <1>3 DEF Serve
  <2>2. CASE Reply(c, "err", None, FALSE) /\ UNCHANGED <<sessions, site>>
    BY <1>0, <1>3, <2>2 DEF Answered, Answer, ServerType, Sid
  <2>3. CASE /\ Free /\ sessions' = [sessions EXCEPT ![NewSession] = "full"]
             /\ site' = [site EXCEPT !.users = TRUE]
             /\ Reply(c, "ok", NewSession, FALSE)
    <3>1. ServerType'
      BY <1>0, <1>n, <2>3 DEF ServerType
    <3>2. Answered(c)
      BY <1>n, <1>3, <2>3 DEF Answered, Answer, Sid
    <3>3. QED
      BY <3>1, <3>2
  <2>4. QED
    BY <2>1, <2>2, <2>3 DEF HandleRegister
<1>4. CASE c.kind \notin {"count", "login", "register"}
  <2>1. RequireAuth(c)
    BY <1>4 DEF Serve
  <2>2. CASE ~Live(c.cookie)
    <3>1. /\ Reply(c, "401", None, c.cookie # None)
          /\ UNCHANGED <<sessions, site>>
      BY <2>1, <2>2 DEF RequireAuth
    <3>2. (c.cookie # None) \in BOOLEAN
      OBVIOUS
    <3>3. QED
      BY <1>0, <1>4, <3>1, <3>2 DEF Answered, Answer, ServerType, Sid
  <2>3. CASE Live(c.cookie)
    <3>1. c.cookie \in Sids /\ c.cookie # None
      BY <1>0, <2>3 DEF Live, Call, Sid
    <3>2. CASE c.kind = "verify" /\ HandleVerifyTOTP(c)
      BY <1>0, <3>1, <3>2 DEF HandleVerifyTOTP, Answered, Answer, ServerType, Sid
    <3>3. CASE c.kind = "logout" /\ HandleLogout(c)
      BY <1>0, <3>1, <3>3 DEF HandleLogout, Answered, Answer, ServerType, Sid
    <3>4. CASE c.kind \in {"me", "me0"} /\ HandleMe(c)
      <4>1. /\ Reply(c, IF Admitted(c.cookie) THEN "ok" ELSE "partial", c.cookie, FALSE)
            /\ UNCHANGED <<sessions, site>>
        BY <3>4 DEF HandleMe
      <4>2. CASE Admitted(c.cookie)
        BY <1>0, <3>1, <3>4, <4>1, <4>2 DEF Answered, Answer, ServerType, Sid
      <4>3. CASE ~Admitted(c.cookie)
        BY <1>0, <3>1, <3>4, <4>1, <4>3 DEF Answered, Answer, ServerType, Sid
      <4>4. QED
        BY <4>2, <4>3
    <3>5. CASE /\ c.kind \in {"twofa", "api"}
               /\ \E st \in {"ok", "err"} : Reply(c, st, None, FALSE)
               /\ sessions' = sessions /\ site' \in {site, [site EXCEPT !.totp = ~@]}
      BY <1>0, <3>5 DEF Answered, Answer, ServerType, Sid
    <3>6. QED
      BY <2>1, <2>3, <3>2, <3>3, <3>4, <3>5 DEF RequireAuth, HandleTwoFactor, HandleAPI
  <2>4. QED
    BY <2>2, <2>3
<1>5. QED
  BY <1>1, <1>2, <1>3, <1>4

(* The invariant is kept when a request is answered and the page is left   *)
(* alone: by the server, and when the network fails.                       *)
LEMMA ReplyStep ==
    ASSUME SessionInv, NEW c \in calls, Answered(c), ServerType', used' \in 0..MaxSteps,
           UNCHANGED <<auth, path, token, cookie, redirecting, calm>>
    PROVE  SessionInv'
<1>0. PICK st, sid :
        \E clears \in BOOLEAN : Answer(c, st, sid) /\ Reply(c, st, sid, clears)
  BY DEF Answered
<1>1. PICK clears \in BOOLEAN : Answer(c, st, sid) /\ Reply(c, st, sid, clears)
  BY <1>0
<1> DEFINE x == [c EXCEPT !.st = st]
<1> DEFINE y == [x EXCEPT !.sid = sid]
<1> DEFINE d == [y EXCEPT !.clears = clears]
<1>2. c \in Call /\ CallOK(c)
  BY DEF SessionInv, SessionTypeOK
<1>x. /\ x \in Call /\ x.id = c.id /\ x.kind = c.kind /\ x.cookie = c.cookie
      /\ x.st = st
  BY <1>1, <1>2 DEF Call, Answer
<1>4. calls' = (calls \ {c}) \cup {d}
  BY <1>1 DEF Reply
<1> HIDE DEF x
<1>y. /\ y \in Call /\ y.id = c.id /\ y.kind = c.kind /\ y.cookie = c.cookie
      /\ y.st = st /\ y.sid = sid
  BY <1>1, <1>x DEF Call, Answer
<1> HIDE DEF y
<1>3. /\ d \in Call /\ d.id = c.id /\ d.kind = c.kind /\ d.cookie = c.cookie
      /\ d.st = st /\ d.sid = sid
  BY <1>1, <1>y DEF Call, Answer
<1>5. CallOK(d)
  BY <1>1, <1>3 DEF CallOK, Answer
<1> HIDE DEF d
<1>6. IdsOK'
  BY <1>3, <1>4, IdsKept DEF SessionInv
<1>7. SessionTypeOK'
  BY <1>3, <1>4 DEF SessionInv, SessionTypeOK, ServerType
<1>8. \A e \in calls' : CallOK(e)'
  BY <1>4, <1>5 DEF SessionInv, CallOK
<1>9. QED
  BY <1>6, <1>7, <1>8 DEF SessionInv, SignedOK

-----------------------------------------------------------------------------
(* The browser.  What the code after an await may do: remove its request   *)
(* or send the next one, and sign the page out, sign it in with the        *)
(* session of the answer, or leave that as it is.                          *)
Page(c) ==
    /\ auth' \in AuthState /\ path' \in {"app", "login"}
    /\ token' \in Sid /\ redirecting' \in BOOLEAN
    /\ calls' = calls \ {c} \/ \E k \in Kind : calls' = (calls \ {c}) \cup {Request(k, cookie)}
    /\ \/ ~auth'.signed
       \/ c.sid # None /\ token' = c.sid /\ c.kind # "count"
       \/ /\ auth'.signed = auth.signed /\ token' = token
          /\ c.kind \in {"login", "register"} => c.sid = None

(* Every continuation of api/auth.ts and AuthContext does one of these.    *)
LEMMA Arrived ==
    ASSUME SessionTypeOK, NEW c \in calls, CallOK(c), Arrive(c)
    PROVE  Page(c)
<1>0. c \in Call /\ c.sid \in Sid /\ c.st # "sent"
  BY DEF SessionTypeOK, Call, Arrive
<1>r. \A a : Route(a) \in {"app", "login"}
  BY RouteType
<1>a. auth \in AuthState /\ token \in Sid /\ redirecting \in BOOLEAN
  BY DEF SessionTypeOK, AuthState
<1>k. {"count", "me0", "me"} \subseteq Kind
  BY DEF Kind
<1>t. None \in Sid
  BY DEF Sid
<1>s. /\ SetCSRFToken(c) \in Sid
      /\ c.sid # None => SetCSRFToken(c) = c.sid
      /\ c.sid = None => SetCSRFToken(c) = token
  BY <1>0, <1>a DEF SetCSRFToken
<1> HIDE DEF Kind, Sid
<1>1. CASE c.kind = "count"
  <2>1. CheckAuthCount(c) /\ c.st \in {"ok", "empty", "err"}
    BY <1>0, <1>1 DEF Arrive, CallOK
  <2>2. CASE c.st = "ok"
    BY <1>a, <1>r, <1>k, <1>1, <2>1, <2>2 DEF CheckAuthCount, SetState, Page
  <2>3. CASE c.st = "empty"
    <3> DEFINE a == [auth EXCEPT !.loading = FALSE, !.first = TRUE]
    <3>1. a \in AuthState /\ a.signed = auth.signed
      BY <1>a, AuthUpdates
    <3>2. SetState(a) /\ calls' = calls \ {c} /\ UNCHANGED <<token, redirecting>>
      BY <2>1, <2>3 DEF CheckAuthCount
    <3> HIDE DEF a
    <3>3. QED
      BY <1>a, <1>r, <1>1, <3>1, <3>2 DEF SetState, Page
  <2>4. CASE c.st = "err"
    <3> DEFINE a == [auth EXCEPT !.signed = FALSE, !.loading = FALSE, !.first = FALSE]
    <3>1. a \in AuthState /\ ~a.signed
      BY <1>a, AuthUpdates
    <3>2. SetState(a) /\ calls' = calls \ {c} /\ UNCHANGED <<token, redirecting>>
      BY <2>1, <2>4 DEF CheckAuthCount
    <3> HIDE DEF a
    <3>3. QED
      BY <1>a, <1>r, <3>1, <3>2 DEF SetState, Page
  <2>5. QED
    BY <2>1, <2>2, <2>3, <2>4
<1>2. CASE c.kind = "me0"
  <2>1. CheckAuthMe(c)
    BY <1>2 DEF Arrive
  <2>2. CASE c.st \in {"ok", "partial"}
    <3>1. c.sid # None
      BY <1>2, <2>2 DEF CallOK
    <3>2. QED
      BY <1>a, <1>r, <1>s, <1>2, <2>1, <2>2, <3>1, AuthUpdates
      DEF CheckAuthMe, SetState, Page
  <2>3. CASE c.st \notin {"ok", "partial"}
    <3> DEFINE a == [auth EXCEPT !.signed = FALSE, !.loading = FALSE, !.first = FALSE]
    <3>1. a \in AuthState /\ ~a.signed
      BY <1>a, AuthUpdates
    <3>2. /\ SetState(a) /\ token' = SetCSRFToken(c) /\ calls' = calls \ {c}
          /\ UNCHANGED redirecting
      BY <2>1, <2>3 DEF CheckAuthMe
    <3> HIDE DEF a
    <3>3. QED
      BY <1>a, <1>r, <1>s, <3>1, <3>2 DEF SetState, Page
  <2>4. QED
    BY <2>2, <2>3
<1>3. CASE c.kind = "login"
  <2>1. LoginDone(c)
    BY <1>3 DEF Arrive
  <2>2. AfterLogin(c) \in AuthState
    BY <1>a, AuthUpdates DEF AfterLogin
  <2>3. CASE c.sid # None
    BY <1>a, <1>r, <1>s, <1>3, <2>1, <2>2, <2>3 DEF LoginDone, SetState, Page
  <2>4. CASE c.sid = None
    <3>1. c.st # "ok"
      BY <1>3, <2>4 DEF CallOK
    <3>2. AfterLogin(c).signed = auth.signed
      BY <1>a, <3>1, AuthUpdates DEF AfterLogin
    <3>3. QED
      BY <1>a, <1>r, <1>s, <1>3, <2>1, <2>2, <2>4, <3>2 DEF LoginDone, SetState, Page
  <2>5. QED
    BY <2>3, <2>4
<1>4. CASE c.kind \in {"verify", "register"}
  <2>1. GrantDone(c)
    BY <1>4 DEF Arrive
  <2>2. CASE c.sid # None
    BY <1>a, <1>r, <1>s, <1>4, <2>1, <2>2, AuthUpdates DEF GrantDone, SetState, Page
  <2>3. CASE c.sid = None
    <3>1. c.st # "ok"
      BY <1>4, <2>3 DEF CallOK
    <3>2. QED
      BY <1>a, <1>r, <1>s, <1>4, <2>1, <2>3, <3>1, AuthUpdates
      DEF GrantDone, SetState, Page
  <2>4. QED
    BY <2>2, <2>3
<1>5. CASE c.kind = "logout"
  <2>1. LogoutDone(c)
    BY <1>5 DEF Arrive
  <2>2. QED
    BY <1>a, <1>r, <1>t, <2>1, AuthUpdates DEF LogoutDone, SetState, Page
<1>6. CASE c.kind = "me"
  <2>1. RefreshUserDone(c)
    BY <1>6 DEF Arrive
  <2>2. CASE c.st \in {"ok", "partial"}
    <3>1. c.sid # None
      BY <1>6, <2>2 DEF CallOK
    <3>2. QED
      BY <1>a, <1>r, <1>s, <1>6, <2>1, <2>2, <3>1 DEF RefreshUserDone, SetState, Page
  <2>3. CASE c.st \notin {"ok", "partial"}
    <3> DEFINE a == [auth EXCEPT !.signed = FALSE, !.totp = FALSE]
    <3>1. a \in AuthState /\ ~a.signed
      BY <1>a, AuthUpdates
    <3>2. /\ SetState(a) /\ token' = None /\ calls' = calls \ {c}
          /\ UNCHANGED redirecting
      BY <2>1, <2>3 DEF RefreshUserDone
    <3> HIDE DEF a
    <3>3. QED
      BY <1>a, <1>r, <1>t, <3>1, <3>2 DEF SetState, Page
  <2>4. QED
    BY <2>2, <2>3
<1>7. CASE c.kind = "twofa"
  <2>1. TwoFactorDone(c)
    BY <1>7 DEF Arrive
  <2>2. calls' = calls \ {c} \/ calls' = (calls \ {c}) \cup {Request("me", cookie)}
    BY <2>1 DEF TwoFactorDone
  <2>3. QED
    BY <1>a, <1>r, <1>k, <1>7, <2>1, <2>2 DEF TwoFactorDone, SetState, Page
<1>8. CASE c.kind = "api"
  <2>1. FetchAPIDone(c)
    BY <1>8 DEF Arrive
  <2>2. CASE c.st = "401" /\ ~redirecting /\ path # "login"
    <3>1. SignedOut \in AuthState /\ ~SignedOut.signed
      BY AuthUpdates
    <3>2. /\ SetState(SignedOut) /\ redirecting' = TRUE /\ calls' = calls \ {c}
          /\ token' = token
      BY <2>1, <2>2 DEF FetchAPIDone
    <3>3. QED
      BY <1>a, <1>r, <3>1, <3>2 DEF SetState, Page
  <2>3. CASE ~(c.st = "401" /\ ~redirecting /\ path # "login")
    BY <1>a, <1>r, <1>8, <2>1, <2>3 DEF FetchAPIDone, SetState, Page
  <2>4. QED
    BY <2>2, <2>3
<1>9. c.kind \in Kind
  BY <1>0 DEF Call
<1>10. QED
  BY <1>1, <1>2, <1>3, <1>4, <1>5, <1>6, <1>7, <1>8, <1>9 DEF Kind

(* An answer and what follows it keep the invariant.                       *)
LEMMA ArriveStep ==
    ASSUME SessionInv, NEW c \in calls, Arrive(c)
    PROVE  SessionInv'
<1>1. Page(c) /\ c \in Call /\ CallOK(c)
  BY Arrived DEF SessionInv, SessionTypeOK
<1>2. /\ c.sid \in Sid /\ cookie \in Sid /\ None \in Sid
      /\ cookie' \in {c.sid, None, cookie}
      /\ c.kind \in {"login", "register"} /\ c.sid # None => cookie' = c.sid
      /\ c.kind \notin {"login", "register"} \/ c.sid = None => cookie' \in {None, cookie}
  BY <1>1 DEF Arrive, SetCookie, SessionInv, SessionTypeOK, Call, Sid
<1>3. /\ sessions' = sessions /\ site' = site /\ used' = used
      /\ calm' = (calm /\ (c.cookie = cookie \/ c.kind \in {"count", "login", "register"}))
  BY DEF Arrive
<1>4. /\ \A k \in Kind : /\ Request(k, cookie) \in Call
                         /\ Request(k, cookie).id = Fresh
                         /\ CallOK(Request(k, cookie))
  BY <1>2, RequestOK DEF SessionInv
<1>5. SessionTypeOK' /\ (\A d \in calls' : CallOK(d))
  <2>1. calls' \subseteq Call /\ \A d \in calls' : CallOK(d)
    BY <1>1, <1>4 DEF SessionInv, SessionTypeOK, Page
  <2>2. cookie' \in Sid /\ calm' \in BOOLEAN
    BY <1>2, <1>3 DEF SessionInv, SessionTypeOK
  <2>3. QED
    BY <1>1, <1>3, <2>1, <2>2 DEF SessionInv, SessionTypeOK, Page, AuthState
<1>6. IdsOK'
  <2>1. CASE calls' = calls \ {c}
    BY <2>1, IdsKept DEF SessionInv
  <2>2. ASSUME NEW k \in Kind, calls' = (calls \ {c}) \cup {Request(k, cookie)}
        PROVE  IdsOK'
    BY <1>4, <2>2, IdsKept DEF SessionInv
  <2>3. QED
    BY <1>1, <2>1, <2>2 DEF Page
<1>7. SignedOK'
  <2>1. SUFFICES ASSUME calm', auth'.signed PROVE cookie' \in {token', None}
    BY DEF SignedOK
  <2>2. calm /\ (c.cookie = cookie \/ c.kind \in {"count", "login", "register"})
    BY <1>3, <2>1
  <2>3. CASE c.sid # None /\ token' = c.sid /\ c.kind # "count"
    <3>1. c.kind \notin {"login", "register"} => c.sid = cookie
      BY <1>1, <2>2, <2>3 DEF CallOK
    <3>2. QED
      BY <1>2, <2>3, <3>1
  <2>4. CASE /\ auth'.signed = auth.signed /\ token' = token
             /\ c.kind \in {"login", "register"} => c.sid = None
    BY <1>2, <2>1, <2>2, <2>4 DEF SessionInv, SignedOK
  <2>5. QED
    BY <1>1, <2>1, <2>3, <2>4 DEF Page
<1>8. QED
  BY <1>5, <1>6, <1>7 DEF SessionInv, CallOK

(* A request of the user.                                                  *)
LEMMA SendStep ==
    ASSUME SessionInv, NEW k \in Kind, NEW a \in AuthState, a.signed = auth.signed,
           Send(k, a)
    PROVE  SessionInv'
<1>1. /\ used < MaxSteps /\ Cardinality(calls) < MaxCalls /\ used' = used + 1
      /\ auth' = a /\ path' = Route(a) /\ calls' = calls \cup {Request(k, cookie)}
      /\ UNCHANGED <<token, cookie, redirecting, sessions, site, calm>>
  BY DEF Send
<1>2. /\ Request(k, cookie) \in Call /\ Request(k, cookie).id = Fresh
      /\ CallOK(Request(k, cookie))
  BY RequestOK DEF SessionInv, SessionTypeOK
<1>3. IdsOK'
  BY <1>1, <1>2, IdsAdded DEF SessionInv
<1>4. used' \in 0..MaxSteps /\ path' \in {"app", "login"}
  BY <1>1, RouteType, SessionAssumption DEF SessionInv, SessionTypeOK
<1>5. SessionTypeOK'
  BY <1>1, <1>2, <1>4 DEF SessionInv, SessionTypeOK, AuthState
<1>6. \A d \in calls' : CallOK(d)
  BY <1>1, <1>2 DEF SessionInv
<1>7. SignedOK'
  BY <1>1 DEF SessionInv, SignedOK
<1>8. QED
  BY <1>3, <1>5, <1>6, <1>7 DEF SessionInv, CallOK

-----------------------------------------------------------------------------
(* Every step of signing in, of the server and of the user keeps the       *)
(* invariant.                                                              *)
LEMMA SessionStep == SessionInv /\ SessionNext => SessionInv'
<1> SUFFICES ASSUME SessionInv, SessionNext PROVE SessionInv'
  OBVIOUS
<1> USE SessionAssumption
<1>a. /\ auth \in AuthState /\ calls \subseteq Call /\ used \in 0..MaxSteps
      /\ MaxSteps \in Nat /\ ServerType
  BY DEF SessionInv, SessionTypeOK, AuthState, ServerType
<1>b. Begin \in AuthState /\ Begin.signed = auth.signed
  BY <1>a, AuthUpdates DEF Begin
<1>1. ASSUME NEW c \in calls, Serve(c) PROVE SessionInv'
  <2>1. UNCHANGED <<auth, path, token, cookie, redirecting, calm, used>>
    BY <1>1 DEF Serve
  <2>2. QED
    BY <1>1, <1>a, <2>1, Served, ReplyStep DEF SessionInv
<1>2. ASSUME NEW c \in calls, Arrive(c) PROVE SessionInv'
  BY <1>2, ArriveStep
<1>3. CASE RedirectingReset
  BY <1>3 DEF RedirectingReset, SessionInv, SessionTypeOK, IdsOK, CallOK, SignedOK
<1>4. ASSUME NEW s \in Sids, SessionEnds(s) PROVE SessionInv'
  <2>1. used' \in 0..MaxSteps
    BY <1>4, <1>a DEF SessionEnds
  <2>2. QED
    BY <1>4, <2>1 DEF SessionEnds, SessionInv, SessionTypeOK, IdsOK, CallOK, SignedOK
<1>5. CASE OtherRegisters
  <2>1. used' \in 0..MaxSteps
    BY <1>5, <1>a DEF OtherRegisters
  <2>2. QED
    BY <1>5, <2>1 DEF OtherRegisters, SessionInv, SessionTypeOK, IdsOK, CallOK, SignedOK
<1>6. ASSUME NEW c \in calls, NetworkFails(c) PROVE SessionInv'
  <2>1. used' \in 0..MaxSteps /\ ServerType'
    BY <1>6, <1>a DEF NetworkFails, ServerType
  <2>2. Answer(c, "err", None)
    BY DEF Answer, Sid
  <2>3. /\ Reply(c, "err", None, FALSE)
        /\ UNCHANGED <<auth, path, token, cookie, redirecting, calm>>
    BY <1>6 DEF NetworkFails
  <2>4. Answered(c)
    BY <2>2, <2>3 DEF Answered
  <2>5. QED
    BY <2>1, <2>3, <2>4, ReplyStep
<1>7. CASE handleVerifyTOTP \/ handleRegister \/ handleLogin
  BY <1>7, <1>b, SendStep DEF handleVerifyTOTP, handleRegister, handleLogin, Kind
<1>8. CASE handleLogout \/ TwoFactorSection \/ CallAPI
  BY <1>8, <1>a, SendStep DEF handleLogout, TwoFactorSection, CallAPI, Kind
<1>9. CASE Reload
  <2> DEFINE c == [id |-> 1, kind |-> "count", cookie |-> cookie, csrf |-> None,
                   st |-> "sent", sid |-> None, clears |-> FALSE]
  <2>1. c \in Call /\ CallOK(c)
    BY DEF Call, CallOK, Kind, Sid, SessionInv, SessionTypeOK
  <2>2. /\ used' = used + 1 /\ used < MaxSteps /\ auth' = Loading /\ path' = path
        /\ token' = None /\ redirecting' = FALSE /\ calls' = {c}
        /\ UNCHANGED <<cookie, sessions, site, calm>>
    BY <1>9 DEF Reload
  <2> HIDE DEF c
  <2>3. IdsOK'
    <3>1. IsFiniteSet({c}) /\ Cardinality({c}) = 1
      BY FS_Singleton
    <3>2. QED
      BY <2>2, <3>1 DEF IdsOK
  <2>4. SessionTypeOK'
    <3>1. used' \in 0..MaxSteps /\ None \in Sid
      BY <1>a, <2>2 DEF Sid
    <3>2. auth' \in AuthState
      BY <2>2, AuthUpdates
    <3>3. calls' \subseteq Call
      BY <2>1, <2>2
    <3> HIDE DEF Call, AuthState, Sid
    <3>4. SessionTypeOK
      BY DEF SessionInv
    <3>5. auth' \in [signed : BOOLEAN, loading : BOOLEAN, totp : BOOLEAN, first : BOOLEAN]
      BY <3>2 DEF AuthState
    <3>6. QED
      BY <2>2, <3>1, <3>3, <3>4, <3>5 DEF SessionTypeOK
  <2>5. SignedOK' /\ \A d \in calls' : CallOK(d)
    BY <2>1, <2>2, AuthUpdates DEF SignedOK
  <2>6. QED
    BY <2>3, <2>4, <2>5 DEF SessionInv, CallOK
<1>10. QED
  BY <1>1, <1>2, <1>3, <1>4, <1>5, <1>6, <1>7, <1>8, <1>9 DEF SessionNext, SessionProgress

(* A page load starts from the invariant.                                  *)
LEMMA SessionStart == SessionInit => SessionInv
<1> SUFFICES ASSUME SessionInit PROVE SessionInv
  OBVIOUS
<1> USE SessionAssumption
<1> DEFINE c == [id |-> 1, kind |-> "count", cookie |-> cookie, csrf |-> None,
                 st |-> "sent", sid |-> None, clears |-> FALSE]
<1>1. cookie \in Sid /\ None \in Sid
  BY DEF SessionInit, Sid
<1>2. c \in Call /\ CallOK(c)
  BY <1>1 DEF Call, CallOK, Kind
<1>3. calls = {c}
  BY DEF SessionInit
<1> HIDE DEF c
<1>4. IsFiniteSet({c}) /\ Cardinality({c}) = 1
  BY FS_Singleton
<1>5. SessionTypeOK
  <2>1. auth \in AuthState
    BY AuthUpdates DEF SessionInit
  <2>2. sessions \in [Sids -> {"free", "partial", "full", "gone"}]
    BY DEF SessionInit
  <2>3. /\ path \in {"app", "login"} /\ token \in Sid /\ redirecting \in BOOLEAN
        /\ calm \in BOOLEAN
    BY <1>1 DEF SessionInit
  <2>4. site \in [users : BOOLEAN, totp : BOOLEAN] /\ used \in 0..MaxSteps
    BY DEF SessionInit
  <2>5. QED
    BY <1>1, <1>2, <1>3, <2>1, <2>2, <2>3, <2>4 DEF SessionTypeOK, AuthState
<1>6. SignedOK
  BY AuthUpdates DEF SessionInit, SignedOK
<1>7. QED
  BY <1>2, <1>3, <1>4, <1>5, <1>6 DEF SessionInv, IdsOK

(* The session is the same below the live state: whatever a step does, the *)
(* invariant of signing in is kept.                                        *)
LEMMA SessionInvariant == Spec => []SessionInv
<1>1. Init => SessionInv
  BY SessionStart DEF Init
<1>2. SessionInv /\ [Next]_vars => SessionInv'
  <2> SUFFICES ASSUME SessionInv, [Next]_vars PROVE SessionInv'
    OBVIOUS
  <2>1. CASE SessionNext /\ Follow
    BY <2>1, SessionStep
  <2>2. CASE LiveUser /\ UNCHANGED exceptUsed
    <3>1. used' = used + 1 /\ used < MaxSteps
      BY <2>2 DEF LiveUser, WorldChanges, SocketDrops, startClone, openConsole, ChangeGuest,
                  ConnectView
    <3>2. used' \in 0..MaxSteps
      BY <3>1, SessionAssumption DEF SessionInv, SessionTypeOK
    <3>3. QED
      BY <2>2, <3>2 DEF exceptUsed, SessionInv, SessionTypeOK, IdsOK, CallOK, SignedOK
  <2>3. CASE UNCHANGED sessionVars
    BY <2>3 DEF sessionVars, SessionInv, SessionTypeOK, IdsOK, CallOK, SignedOK
  <2>4. QED
    BY <2>1, <2>2, <2>3 DEF Next, vars
<1>3. QED
  BY <1>1, <1>2, PTL DEF Spec

(* Whenever the page shows the application, its CSRF token is that of the  *)
(* cookie's session, or the cookie is gone, unless an answer was overtaken *)
(* by a change of session; for any number of sessions and any order of the *)
(* answers.                                                                *)
THEOREM TokenCorrect == Spec => []TokenOfCookie
<1>1. SessionInv => TokenOfCookie
  BY DEF SessionInv, SignedOK, TokenOfCookie, Shown
<1>2. QED
  BY <1>1, SessionInvariant, PTL

-----------------------------------------------------------------------------
(* What lives while signed in.                                             *)
Run == [run : Nat, at : {"ticket", "module"}]

Provider ==
    [mount : Nat, sock : {"none", "opening", "open"}, retry : BOOLEAN, conn : BOOLEAN,
     loading : BOOLEAN, ver : Nat \cup {None}]
Client == [on : BOOLEAN, q : Seq(Nat), shut : BOOLEAN]
Read == [st : {"sent", "ok"}, ver : Nat \cup {None}]
Task == {"none", "asked", "run", "ok", "bad"}
Clone ==
    [vmid : Vmids \cup {None}, mount : Nat, pve : Task,
     st : {"none", "running", "completed", "failed"}, interval : BOOLEAN]
View ==
    [on : BOOLEAN, run : Nat, vmid : Vmids \cup {None}, pending : SUBSET Run,
     conns : SUBSET Nat]

LiveTypeOK ==
    /\ prov \in Provider /\ hub \in Client /\ world \in Nat
    /\ pub \in [Publishers -> Nat \cup {None}]
    /\ reads \subseteq Read
    /\ active \subseteq Vmids
    /\ clone \in [Clones -> Clone]
    /\ polls \subseteq [id : 1..2, k : Clones, seen : Task]
    /\ view \in View

(* A message of the hub to its client comes with the socket, and signed    *)
(* out there is neither.                                                   *)
SignedOutOK == ~Shown(auth) => prov.sock = "none" /\ ~prov.retry /\ ~hub.on

(* The only connection a console may have is that of the latest run of its *)
(* effect, and that run has not asked for it any more.                     *)
ViewOK == view.conns \subseteq (IF view.on THEN {view.run} ELSE {})

LiveInv == LiveTypeOK /\ SignedOutOK /\ ViewOK

(* The fallback fetch as it is sent, and a provider that is not mounted.   *)
LEMMA FreshTypes ==
    /\ [st |-> "sent", ver |-> None] \in Read
    /\ \A n \in Nat : Unmounted(n) \in Provider
  BY DEF Read, Unmounted, Provider

(* Showing or hiding the application mounts or unmounts everything.        *)
LEMMA FollowStep == LiveInv /\ Follow => LiveInv'
<1> SUFFICES ASSUME LiveInv, Follow PROVE LiveInv'
  OBVIOUS
<1>a. LiveTypeOK /\ SignedOutOK /\ ViewOK
  BY DEF LiveInv
<1>1. CASE Shown(auth)' = Shown(auth)
  <2>1. UNCHANGED liveVars
    BY <1>1 DEF Follow
  <2>2. QED
    BY <1>a, <1>1, <2>1 DEF liveVars, LiveInv, LiveTypeOK, SignedOutOK, ViewOK
<1>2. CASE Shown(auth)' # Shown(auth) /\ Shown(auth)'
  <2>1. Mount
    BY <1>2 DEF Follow
  <2> DEFINE u == Unmounted(prov.mount + 1)
  <2>2. u \in Provider
    BY <1>a, FreshTypes DEF LiveTypeOK, Provider
  <2>3. prov' = [u EXCEPT !.sock = "opening"] /\ reads' = {[st |-> "sent", ver |-> None]}
    BY <2>1 DEF Mount
  <2> HIDE DEF u
  <2>4. prov' \in Provider
    BY <2>2, <2>3 DEF Provider
  <2>5. reads' \subseteq Read
    BY <2>3, FreshTypes
  <2>6. QED
    BY <1>a, <1>2, <2>1, <2>4, <2>5 DEF Mount, LiveInv, LiveTypeOK, SignedOutOK, ViewOK
<1>3. CASE Shown(auth)' # Shown(auth) /\ ~Shown(auth)'
  <2>1. Unmount
    BY <1>3 DEF Follow
  <2>2. /\ prov' \in Provider /\ prov'.sock = "none" /\ ~prov'.retry
        /\ hub' \in Client /\ ~hub'.on
    BY <1>a, <2>1 DEF Unmount, Unmounted, Provider, NoClient, Client, LiveTypeOK
  <2>3. clone' \in [Clones -> Clone]
    <3>1. ASSUME NEW k \in Clones
          PROVE  clone[k] \in Clone /\ [clone[k] EXCEPT !.interval = FALSE] \in Clone
      BY <1>a DEF LiveTypeOK, Clone
    <3>2. clone' = [k \in Clones |->
                     IF clone[k].mount = prov.mount
                     THEN [clone[k] EXCEPT !.interval = FALSE]
                     ELSE clone[k]]
      BY <2>1 DEF Unmount
    <3>3. QED
      BY <3>1, <3>2
  <2>4. view' \in View /\ view'.conns = {}
    BY <1>a, <2>1 DEF Unmount, CleanUpView, View, LiveTypeOK, ViewOK
  <2>5. QED
    BY <1>a, <2>1, <2>2, <2>3, <2>4 DEF Unmount, LiveInv, LiveTypeOK, SignedOutOK, ViewOK
<1>4. QED
  BY <1>1, <1>2, <1>3

(* What touches neither the socket nor the console.                        *)
Elsewhere ==
    /\ UNCHANGED <<auth, view>>
    /\ prov'.sock = prov.sock /\ prov'.retry = prov.retry /\ hub'.on = hub.on

LEMMA ElsewhereKept ==
    ASSUME LiveInv, LiveTypeOK', Elsewhere
    PROVE  LiveInv'
  BY DEF LiveInv, Elsewhere, SignedOutOK, ViewOK

(* A console, while nothing else changes.                                  *)
LEMMA ConsoleKept ==
    ASSUME LiveInv, view' \in View, ViewOK',
           UNCHANGED <<auth, prov, hub, world, pub, reads, active, clone, polls>>
    PROVE  LiveInv'
  BY DEF LiveInv, LiveTypeOK, SignedOutOK

(* The socket closes: only while there is one, that is, signed in.         *)
LEMMA CloseStep ==
    ASSUME LiveInv, prov.sock # "none" \/ hub.on, OnClose, UNCHANGED auth
    PROVE  LiveInv'
<1>1. prov' \in Provider
  <2> DEFINE x == [prov EXCEPT !.sock = "none"]
  <2> DEFINE y == [x EXCEPT !.conn = FALSE]
  <2>1. x \in Provider
    BY DEF Provider, LiveInv, LiveTypeOK
  <2>2. prov' = [y EXCEPT !.retry = TRUE]
    BY DEF OnClose, Closed
  <2> HIDE DEF x
  <2>3. y \in Provider
    BY <2>1 DEF Provider
  <2> HIDE DEF y
  <2>4. QED
    BY <2>2, <2>3 DEF Provider
<1>2. hub' \in Client
  BY DEF OnClose, NoClient, Client
<1>3. reads' \subseteq Read
  BY FreshTypes DEF OnClose, LiveInv, LiveTypeOK
<1>4. Shown(auth)
  BY DEF LiveInv, SignedOutOK
<1>5. QED
  BY <1>1, <1>2, <1>3, <1>4 DEF OnClose, LiveInv, LiveTypeOK, SignedOutOK, ViewOK

(* What the user, the cluster and the network start.                       *)
LEMMA UserStep == LiveInv /\ LiveUser /\ UNCHANGED auth => LiveInv'
<1> SUFFICES ASSUME LiveInv, LiveUser, UNCHANGED auth PROVE LiveInv'
  OBVIOUS
<1>a. LiveTypeOK /\ SignedOutOK /\ ViewOK
  BY DEF LiveInv
<1>1. CASE WorldChanges
  <2>1. LiveTypeOK'
    BY <1>1, <1>a DEF WorldChanges, LiveTypeOK
  <2>2. QED
    BY <1>1, <2>1, ElsewhereKept DEF WorldChanges, Elsewhere
<1>2. CASE SocketDrops
  BY <1>2, CloseStep DEF SocketDrops
<1>3. ASSUME NEW k \in Clones, NEW v \in Vmids, startClone(k, v) PROVE LiveInv'
  <2> DEFINE n == [NoClone EXCEPT !.vmid = v, !.mount = prov.mount, !.pve = "asked",
                                  !.st = "running"]
  <2>1. n \in Clone
    BY <1>a DEF NoClone, Clone, Task, LiveTypeOK, Provider
  <2>2. clone' = [clone EXCEPT ![k] = n] /\ active' = active \cup {v}
    BY <1>3 DEF startClone
  <2> HIDE DEF n
  <2>3. LiveTypeOK'
    BY <1>3, <1>a, <2>1, <2>2 DEF startClone, LiveTypeOK
  <2>4. QED
    BY <1>3, <2>3, ElsewhereKept DEF startClone, Elsewhere
<1>4. ASSUME NEW v \in Vmids, NEW on \in BOOLEAN, ConnectView(v, on) PROVE LiveInv'
  <2> DEFINE w == CleanUpView(view)
  <2> DEFINE p == [run |-> w.run + 1, at |-> "ticket"]
  <2>1. w \in View /\ w.conns = {}
    BY <1>a DEF CleanUpView, View, LiveTypeOK, ViewOK
  <2>2. /\ view' = [w EXCEPT !.on = TRUE, !.run = @ + 1, !.vmid = v, !.pending = @ \cup {p}]
        /\ UNCHANGED <<prov, hub, world, pub, reads, active, clone, polls>>
    BY <1>4 DEF ConnectView
  <2> HIDE DEF w
  <2>3. p \in Run
    BY <2>1 DEF Run, View
  <2> HIDE DEF p
  <2>4. view' \in View /\ view'.conns = {}
    <3> DEFINE x == [w EXCEPT !.on = TRUE]
    <3> DEFINE y == [x EXCEPT !.run = @ + 1]
    <3> DEFINE z == [y EXCEPT !.vmid = v]
    <3>1. x \in View /\ x.conns = {}
      BY <2>1 DEF View
    <3>2. view' = [z EXCEPT !.pending = @ \cup {p}]
      BY <2>2
    <3> HIDE DEF x
    <3>3. y \in View /\ y.conns = {}
      BY <3>1 DEF View
    <3> HIDE DEF y
    <3>4. z \in View /\ z.conns = {}
      BY <3>3 DEF View
    <3> HIDE DEF z
    <3>5. QED
      BY <2>3, <3>2, <3>4 DEF View
  <2>5. QED
    BY <2>2, <2>4, ConsoleKept DEF ViewOK
<1>5. QED
  BY <1>1, <1>2, <1>3, <1>4 DEF LiveUser, openConsole, ChangeGuest

(* The sockets: the hub admits, refuses or drops them.                     *)
LEMMA SocketStep == LiveInv /\ Socket /\ UNCHANGED auth => LiveInv'
<1> SUFFICES ASSUME LiveInv, Socket, UNCHANGED auth PROVE LiveInv'
  OBVIOUS
<1>a. LiveTypeOK /\ SignedOutOK /\ ViewOK
  BY DEF LiveInv
<1>1. CASE SocketOpens
  <2> DEFINE x == [prov EXCEPT !.sock = "open"]
  <2>1. x \in Provider
    BY <1>a DEF Provider, LiveTypeOK
  <2>2. prov' = [x EXCEPT !.conn = TRUE] /\ Shown(auth)
    BY <1>1, <1>a DEF SocketOpens, SignedOutOK
  <2> HIDE DEF x
  <2>3. prov' \in Provider
    BY <2>1, <2>2 DEF Provider
  <2>4. hub' \in Client
    BY <1>1, <1>a DEF SocketOpens, Client, LiveTypeOK
  <2>5. QED
    BY <1>1, <1>a, <2>2, <2>3, <2>4
    DEF SocketOpens, LiveInv, LiveTypeOK, SignedOutOK, ViewOK
<1>2. CASE SocketRefused \/ HubCloses
  BY <1>2, CloseStep DEF SocketRefused, HubCloses
<1>3. CASE Reconnect
  <2> DEFINE x == [prov EXCEPT !.retry = FALSE]
  <2>1. x \in Provider
    BY <1>a DEF Provider, LiveTypeOK
  <2>2. prov' = [x EXCEPT !.sock = "opening"] /\ Shown(auth)
    BY <1>3, <1>a DEF Reconnect, SignedOutOK
  <2> HIDE DEF x
  <2>3. prov' \in Provider
    BY <2>1, <2>2 DEF Provider
  <2>4. QED
    BY <1>3, <1>a, <2>2, <2>3 DEF Reconnect, LiveInv, LiveTypeOK, SignedOutOK, ViewOK
<1>4. QED
  BY <1>1, <1>2, <1>3 DEF Socket

(* Messages and fetches change what is displayed, not the socket.          *)
LEMMA MessageStep ==
    ASSUME LiveInv, UNCHANGED auth,
           \/ \E p \in Publishers : BuildState(p) \/ Broadcast(p)
           \/ handleMessage \/ Fetch
    PROVE  LiveInv'
<1>a. LiveTypeOK
  BY DEF LiveInv
<1>1. ASSUME NEW p \in Publishers, BuildState(p) PROVE LiveInv'
  <2>1. LiveTypeOK'
    BY <1>1, <1>a DEF BuildState, LiveTypeOK
  <2>2. QED
    BY <1>1, <2>1, ElsewhereKept DEF BuildState, Elsewhere
<1>2. ASSUME NEW p \in Publishers, Broadcast(p) PROVE LiveInv'
  <2>1. pub[p] \in Nat /\ hub.q \in Seq(Nat)
    BY <1>2, <1>a DEF Broadcast, LiveTypeOK, Client
  <2>2. Append(hub.q, pub[p]) \in Seq(Nat)
    BY <2>1
  <2>3. hub' \in Client /\ hub'.on = hub.on
    BY <1>2, <1>a, <2>2 DEF Broadcast, LiveTypeOK, Client
  <2>4. LiveTypeOK'
    BY <1>2, <1>a, <2>3 DEF Broadcast, LiveTypeOK
  <2>5. QED
    BY <1>2, <2>3, <2>4, ElsewhereKept DEF Broadcast, Elsewhere
<1>3. CASE handleMessage
  <2>1. hub.q \in Seq(Nat) /\ hub.q # <<>>
    BY <1>3, <1>a DEF handleMessage, LiveTypeOK, Client
  <2>2. Head(hub.q) \in Nat /\ Tail(hub.q) \in Seq(Nat)
    BY <2>1
  <2> DEFINE x == [prov EXCEPT !.ver = Head(hub.q)]
  <2>3. x \in Provider /\ x.sock = prov.sock /\ x.retry = prov.retry
    BY <1>a, <2>2 DEF Provider, LiveTypeOK
  <2>4. prov' = [x EXCEPT !.loading = FALSE]
    BY <1>3 DEF handleMessage
  <2> HIDE DEF x
  <2>5. prov' \in Provider /\ prov'.sock = prov.sock /\ prov'.retry = prov.retry
    BY <2>3, <2>4 DEF Provider
  <2>6. hub' \in Client /\ hub'.on = hub.on
    BY <1>3, <1>a, <2>2 DEF handleMessage, Client, LiveTypeOK
  <2>7. LiveTypeOK'
    BY <1>3, <1>a, <2>5, <2>6 DEF handleMessage, LiveTypeOK
  <2>8. QED
    BY <1>3, <2>5, <2>6, <2>7, ElsewhereKept DEF handleMessage, Elsewhere
<1>4. ASSUME NEW r \in reads, FetchServed(r) PROVE LiveInv'
  <2>1. [st |-> "ok", ver |-> world] \in Read
    BY <1>a DEF Read, LiveTypeOK
  <2>2. LiveTypeOK'
    BY <1>4, <1>a, <2>1 DEF FetchServed, LiveTypeOK
  <2>3. QED
    BY <1>4, <2>2, ElsewhereKept DEF FetchServed, Elsewhere
<1>5. ASSUME NEW r \in reads, FetchData(r) PROVE LiveInv'
  <2> DEFINE x == [prov EXCEPT !.loading = FALSE]
  <2>1. x \in Provider /\ x.sock = prov.sock /\ x.retry = prov.retry
    BY <1>a DEF Provider, LiveTypeOK
  <2>2. r.ver \in Nat \cup {None}
    BY <1>a DEF LiveTypeOK, Read
  <2>3. prov' = [x EXCEPT !.ver = r.ver] \/ prov' = x
    BY <1>5 DEF FetchData
  <2> HIDE DEF x
  <2>4. prov' \in Provider /\ prov'.sock = prov.sock /\ prov'.retry = prov.retry
    BY <2>1, <2>2, <2>3 DEF Provider
  <2>5. LiveTypeOK'
    BY <1>5, <1>a, <2>4 DEF FetchData, LiveTypeOK
  <2>6. QED
    BY <1>5, <2>4, <2>5, ElsewhereKept DEF FetchData, Elsewhere
<1>6. QED
  BY <1>1, <1>2, <1>3, <1>4, <1>5 DEF Fetch

(* Clones go on after an unmount, and touch neither socket nor console.    *)
LEMMA CloneStep ==
    ASSUME LiveInv, UNCHANGED auth,
           PollDones \/ \E k \in Clones : CloneRuns(k) \/ SafetyTimeout(k)
    PROVE  LiveInv'
<1>a. LiveTypeOK
  BY DEF LiveInv
<1>f. \A k \in Clones : Freed(k) \subseteq Vmids
  BY <1>a DEF Freed, LiveTypeOK
<1>1. ASSUME NEW k \in Clones, CloneAccepted(k) PROVE LiveInv'
  <2>1. LiveTypeOK'
    <3> DEFINE x == [clone EXCEPT ![k].pve = "run"]
    <3>1. x \in [Clones -> Clone]
      BY <1>a DEF Clone, Task, LiveTypeOK
    <3>2. clone' = [x EXCEPT ![k].interval = TRUE]
      BY <1>1 DEF CloneAccepted
    <3> HIDE DEF x
    <3>3. clone' \in [Clones -> Clone]
      BY <3>1, <3>2 DEF Clone
    <3>4. QED
      BY <1>1, <1>a, <3>3 DEF CloneAccepted, LiveTypeOK
  <2>2. QED
    BY <1>1, <2>1, ElsewhereKept DEF CloneAccepted, Elsewhere
<1>2. ASSUME NEW k \in Clones, CloneRefused(k) PROVE LiveInv'
  <2>1. LiveTypeOK'
    <3> DEFINE x == [clone EXCEPT ![k].pve = "bad"]
    <3>1. x \in [Clones -> Clone]
      BY <1>a DEF Clone, Task, LiveTypeOK
    <3>2. clone' = [x EXCEPT ![k].st = "failed"]
      BY <1>2 DEF CloneRefused
    <3> HIDE DEF x
    <3>3. clone' \in [Clones -> Clone]
      BY <3>1, <3>2 DEF Clone
    <3>4. QED
      BY <1>2, <1>a, <1>f, <3>3 DEF CloneRefused, LiveTypeOK
  <2>2. QED
    BY <1>2, <2>1, ElsewhereKept DEF CloneRefused, Elsewhere
<1>3. ASSUME NEW k \in Clones, TaskEnds(k) PROVE LiveInv'
  <2>1. clone' \in [Clones -> Clone]
    BY <1>3, <1>a DEF TaskEnds, Clone, Task, LiveTypeOK
  <2>2. LiveTypeOK'
    BY <1>3, <1>a, <2>1 DEF TaskEnds, LiveTypeOK
  <2>3. QED
    BY <1>3, <2>2, ElsewhereKept DEF TaskEnds, Elsewhere
<1>4. ASSUME NEW k \in Clones, PollTick(k) PROVE LiveInv'
  <2>1. clone[k].pve \in Task
    BY <1>a DEF LiveTypeOK, Clone
  <2>2. PICK i \in 1..2 : polls' = polls \cup {[id |-> i, k |-> k, seen |-> clone[k].pve]}
    BY <1>4 DEF PollTick
  <2>3. LiveTypeOK'
    BY <1>4, <1>a, <2>1, <2>2 DEF PollTick, LiveTypeOK
  <2>4. QED
    BY <1>4, <2>3, ElsewhereKept DEF PollTick, Elsewhere
<1>5. ASSUME NEW p \in polls, PollDone(p) PROVE LiveInv'
  <2>1. p.k \in Clones
    BY <1>a DEF LiveTypeOK
  <2> DEFINE x == [clone EXCEPT ![p.k].interval = FALSE]
  <2>2. x \in [Clones -> Clone]
    BY <1>a, <2>1 DEF Clone, LiveTypeOK
  <2>3. clone' = [x EXCEPT ![p.k].st = Outcome(p)]
    BY <1>5 DEF PollDone
  <2> HIDE DEF x
  <2>4. clone' \in [Clones -> Clone]
    BY <2>1, <2>2, <2>3 DEF Clone, Outcome
  <2>5. LiveTypeOK'
    BY <1>5, <1>a, <1>f, <2>1, <2>4 DEF PollDone, LiveTypeOK
  <2>6. QED
    BY <1>5, <2>5, ElsewhereKept DEF PollDone, Elsewhere
<1>6. ASSUME NEW k \in Clones, SafetyTimeout(k) PROVE LiveInv'
  <2>1. clone' \in [Clones -> Clone]
    <3>1. clone' = [clone EXCEPT ![k].interval = FALSE] /\ clone \in [Clones -> Clone]
      BY <1>6, <1>a DEF SafetyTimeout, LiveTypeOK
    <3>2. QED
      BY <3>1 DEF Clone
  <2>2. LiveTypeOK'
    BY <1>6, <1>a, <2>1 DEF SafetyTimeout, LiveTypeOK
  <2>3. QED
    BY <1>6, <2>2, ElsewhereKept DEF SafetyTimeout, Elsewhere
<1>7. QED
  BY <1>1, <1>2, <1>3, <1>4, <1>5, <1>6 DEF CloneRuns, PollDones

(* A run of the console's effect connects only while it is the latest, and *)
(* its cleanup takes the connection away.                                  *)
LEMMA ConsoleStep ==
    ASSUME LiveInv, UNCHANGED auth,
           closeConsole \/ ViewRuns \/ \E n \in view.conns : Disconnected(n)
    PROVE  LiveInv'
<1>a. view \in View /\ ViewOK
  BY DEF LiveInv, LiveTypeOK
<1>1. CASE closeConsole
  <2> DEFINE w == CleanUpView(view)
  <2>1. w \in View /\ w.conns = {}
    BY <1>a DEF CleanUpView, View, ViewOK
  <2>2. /\ view' = [w EXCEPT !.vmid = None]
        /\ UNCHANGED <<prov, hub, world, pub, reads, active, clone, polls>>
    BY <1>1 DEF closeConsole
  <2> HIDE DEF w
  <2>3. view' \in View /\ view'.conns = {}
    BY <2>1, <2>2 DEF View
  <2>4. QED
    BY <2>2, <2>3, ConsoleKept DEF ViewOK
<1>2. ASSUME NEW p \in view.pending, TicketDone(p) PROVE LiveInv'
  <2>1. p \in Run /\ [p EXCEPT !.at = "module"] \in Run
    BY <1>a DEF View, Run
  <2>2. \E s \in SUBSET Run : view' = [view EXCEPT !.pending = s]
    <3> DEFINE s == (view.pending \ {p})
                      \cup IF Mounted(p) THEN {[p EXCEPT !.at = "module"]} ELSE {}
    <3>1. view' = [view EXCEPT !.pending = s]
          \/ view' = [view EXCEPT !.pending = view.pending \ {p}]
      BY <1>2 DEF TicketDone
    <3>2. s \in SUBSET Run /\ view.pending \ {p} \in SUBSET Run
      BY <1>a, <2>1 DEF View
    <3> HIDE DEF s
    <3>3. QED
      BY <3>1, <3>2
  <2>3. /\ view' \in View /\ view'.conns = view.conns /\ view'.on = view.on
        /\ view'.run = view.run
    BY <1>a, <2>2 DEF View
  <2>4. UNCHANGED <<prov, hub, world, pub, reads, active, clone, polls>>
    BY <1>2 DEF TicketDone
  <2>5. QED
    BY <1>a, <2>3, <2>4, ConsoleKept DEF ViewOK
<1>3. ASSUME NEW p \in view.pending, ModuleDone(p) PROVE LiveInv'
  <2> DEFINE x == [view EXCEPT !.pending = @ \ {p}]
  <2> DEFINE s == IF Mounted(p) THEN view.conns \cup {p.run} ELSE view.conns
  <2>1. /\ x \in View /\ x.on = view.on /\ x.run = view.run /\ x.conns = view.conns
        /\ p.run \in Nat
    BY <1>a DEF View, Run
  <2>2. s \in SUBSET Nat /\ s \subseteq (IF view.on THEN {view.run} ELSE {})
    BY <1>a, <2>1 DEF View, ViewOK, Mounted
  <2>3. view' = [x EXCEPT !.conns = s]
    BY <1>3 DEF ModuleDone
  <2>4. UNCHANGED <<prov, hub, world, pub, reads, active, clone, polls>>
    BY <1>3 DEF ModuleDone
  <2> HIDE DEF x, s
  <2>5. view' \in View /\ view'.conns = s /\ view'.on = view.on /\ view'.run = view.run
    BY <2>1, <2>2, <2>3 DEF View
  <2>6. QED
    BY <2>2, <2>4, <2>5, ConsoleKept DEF ViewOK
<1>4. ASSUME NEW n \in view.conns, Disconnected(n) PROVE LiveInv'
  <2>1. /\ view' \in View /\ view'.conns \subseteq view.conns /\ view'.on = view.on
        /\ view'.run = view.run
    BY <1>4, <1>a DEF Disconnected, View
  <2>2. UNCHANGED <<prov, hub, world, pub, reads, active, clone, polls>>
    BY <1>4 DEF Disconnected
  <2>3. QED
    BY <1>a, <2>1, <2>2, ConsoleKept DEF ViewOK
<1>5. QED
  BY <1>1, <1>2, <1>3, <1>4 DEF ViewRuns

(* LiveInv is inductive: the session shows or hides the application,       *)
(* everything else happens in it or outlives it harmlessly.                *)
LEMMA LiveInvariant == Spec => []LiveInv
<1>1. Init => LiveInv
  <2> SUFFICES ASSUME LiveInit PROVE LiveInv
    BY DEF Init
  <2>1. prov \in Provider /\ prov.sock = "none" /\ ~prov.retry
    BY DEF LiveInit, Unmounted, Provider
  <2>2. hub \in Client /\ ~hub.on
    BY DEF LiveInit, NoClient, Client
  <2>3. clone \in [Clones -> Clone]
    <3>1. NoClone \in Clone
      BY DEF NoClone, Clone, Task
    <3>2. QED
      BY <3>1 DEF LiveInit
  <2>4. view \in View /\ view.conns = {}
    BY DEF LiveInit, NoView, View
  <2>5. QED
    BY <2>1, <2>2, <2>3, <2>4 DEF LiveInit, LiveInv, LiveTypeOK, SignedOutOK, ViewOK
<1>2. LiveInv /\ [Next]_vars => LiveInv'
  <2> SUFFICES ASSUME LiveInv, [Next]_vars PROVE LiveInv'
    OBVIOUS
  <2>1. CASE SessionNext /\ Follow
    BY <2>1, FollowStep
  <2>2. CASE LiveUser /\ UNCHANGED exceptUsed
    BY <2>2, UserStep DEF exceptUsed
  <2>3. CASE LiveAlone /\ UNCHANGED sessionVars
    <3>1. UNCHANGED auth
      BY <2>3 DEF sessionVars
    <3>2. QED
      BY <2>3, <3>1, SocketStep, MessageStep, CloneStep, ConsoleStep DEF LiveAlone
  <2>4. CASE UNCHANGED vars
    BY <2>4 DEF vars, sessionVars, liveVars, LiveInv, LiveTypeOK, SignedOutOK, ViewOK
  <2>5. QED
    BY <2>1, <2>2, <2>3, <2>4 DEF Next
<1>3. QED
  BY <1>1, <1>2, PTL DEF Spec

(* The page, the server's sessions and all that lives while signed in keep *)
(* their types.                                                            *)
THEOREM TypeCorrect == Spec => [](SessionTypeOK /\ LiveTypeOK)
<1>1. SessionInv => SessionTypeOK
  BY DEF SessionInv
<1>2. LiveInv => LiveTypeOK
  BY DEF LiveInv
<1>3. QED
  BY <1>1, <1>2, SessionInvariant, LiveInvariant, PTL

(* Signed out there is no socket, no reconnect timer and no console        *)
(* connection, and a console is connected for the vmid on display only,    *)
(* whatever was under way when the application went away or the guest      *)
(* changed.                                                                *)
THEOREM OutlivesCorrect == Spec => []NothingOutlives
<1>1. LiveInv => NothingOutlives
  BY DEF LiveInv, SignedOutOK, ViewOK, NothingOutlives
<1>2. QED
  BY <1>1, LiveInvariant, PTL
=============================================================================
