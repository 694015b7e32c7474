-------------------------------- MODULE Session --------------------------------
(***************************************************************************)
(* The session of one browser: a token in a cookie, which the server reads *)
(* with every request and renews or clears with the answer.                *)
(*                                                                         *)
(* The token is read when a request comes in, and the headers are made     *)
(* when it has been handled, however long that took.  Requests overlap,    *)
(* and their answers come in any order.  The cookies of token and nonce    *)
(* are always set together and are modelled as one; a nonce that does not  *)
(* match is left out.                                                      *)
(***************************************************************************)
EXTENDS Naturals, FiniteSets, Sequences

CONSTANTS User, NoUser,
          TokenExp,      \* 15 minutes
          TokenMaxLife,  \* one day
          MaxTime,       \* bound: the clock
          MaxRequests    \* bound: requests and answers on the way

\* What the constants are.
SessionAssumption ==
    /\ NoUser \notin User
    /\ TokenExp \in Nat /\ TokenMaxLife \in Nat
    /\ MaxTime \in Nat /\ MaxRequests \in Nat

VARIABLES now,       \* the clock, in steps that tell the ages of tokens apart
          cookie,    \* the browser's token
          requests,  \* requests being handled, with the sessions read for them
          answers,   \* answers on the way, with the cookies they set
          asked,     \* what the last log-in or log-out made of it
          raced,     \* that overlapped another change, or met an old token,
                     \* or one after it failed
          lapsed,    \* since then a token was cleared for its age
          entered    \* who logged in since a log-in or log-out that met no
                     \* expired token was answered with nothing else on the way

vars == <<now, cookie, requests, answers, asked, raced, lapsed, entered>>

NoToken == [user |-> NoUser, exp |-> 0]

Token == [user : User, exp : Nat]

Request == [asks : {"page", "login", "logout"}, for : User \union {NoUser},
            session : {"valid", "expired", "invalid", "error"},
            token : Token \union {NoToken}]

Answer == [to : Request, sets : Seq(Token \union {NoToken})]

TypeOK ==
    /\ now \in Nat
    /\ cookie \in Token \union {NoToken}
    /\ requests \subseteq Request
    /\ answers \subseteq Answer
    /\ asked \in User \union {NoUser}
    /\ raced \in BOOLEAN /\ lapsed \in BOOLEAN
    /\ entered \subseteq User

-----------------------------------------------------------------------------
\* The session that a token stands for.
DecodeJwt(token) ==
    CASE token = NoToken -> "error"
      [] token # NoToken /\ now > token.exp + TokenMaxLife -> "invalid"
      [] token # NoToken /\ now <= token.exp + TokenMaxLife /\ now > token.exp
            -> "expired"
      [] OTHER -> "valid"

CreateJwtForDay(user) == [user |-> user, exp |-> now + TokenMaxLife]

CreateJwt(user) == [user |-> user, exp |-> now + TokenExp]

\* The cookies an answer sets for itself ...
OwnCookies(r) ==
    CASE r.asks = "login" -> <<CreateJwt(r.for)>>
      [] r.asks = "logout" -> <<NoToken>>
      [] OTHER -> <<>>

SessionCookiesAlways(r) ==
    IF r.session \in {"valid", "expired"}
    THEN <<CreateJwt(r.token.user)>>
    ELSE IF r.session = "invalid" THEN <<NoToken>> ELSE <<>>

SessionCookiesUncleared(r) ==
    IF r.session = "expired"
    THEN <<CreateJwt(r.token.user)>> ELSE <<>>

\* ... and those that are appended for the session.
SessionCookies(r) ==
    CASE r.session = "expired" -> <<CreateJwt(r.token.user)>>
      [] r.session = "invalid" -> <<NoToken>>
      [] OTHER -> <<>>

Init ==
    /\ now = 0
    /\ cookie = NoToken
    /\ requests = {}
    /\ answers = {}
    /\ asked = NoUser
    /\ raced = FALSE
    /\ lapsed = FALSE
    /\ entered = {}

Tick ==
    /\ now < MaxTime
    /\ now' = now + 1
    /\ UNCHANGED <<cookie, requests, answers, asked, raced, lapsed, entered>>

Asks(r) == r.asks # "page"
Sets(r) == Asks(r) \/ r.session \in {"expired", "invalid"}
OnTheWay == requests \union {a.to : a \in answers}

\* The browser asks for something, and the server reads its cookie.
RouteRequest(asks, for) ==
    LET r == [asks |-> asks, for |-> for, session |-> DecodeJwt(cookie),
              token |-> cookie]
    IN  /\ Cardinality(requests) + Cardinality(answers) < MaxRequests
        /\ r \notin requests
        /\ requests' = requests \union {r}
        /\ raced' = IF Asks(r)
                    THEN \/ r.session \in {"expired", "invalid"}
                         \/ \E o \in OnTheWay : Sets(o)
                    ELSE raced \/ (Sets(r) /\ \E o \in OnTheWay : Asks(o))
        /\ UNCHANGED <<now, cookie, answers, asked, lapsed, entered>>

ModifyResponseHeaders(r) ==
    /\ requests' = requests \ {r}
    /\ answers' = answers \union
                     {[to |-> r, sets |-> OwnCookies(r) \o SessionCookies(r)]}
    /\ UNCHANGED <<now, cookie, asked, raced, lapsed, entered>>

\* An answer that is an error sets no cookies.
ToResponse(r) ==
    /\ requests' = requests \ {r}
    /\ raced' = (raced \/ Asks(r))
    /\ UNCHANGED <<now, cookie, answers, asked, lapsed, entered>>

\* The last of an answer's cookies is the one that stays.
Receive(a) ==
    /\ answers' = answers \ {a}
    /\ cookie' = IF a.sets = <<>> THEN cookie ELSE a.sets[Len(a.sets)]
    /\ asked' = IF Asks(a.to) THEN a.to.for ELSE asked
    /\ lapsed' = IF Asks(a.to) THEN FALSE
                 ELSE lapsed \/ (cookie # NoToken /\ a.sets = <<NoToken>>)
    /\ entered' = LET user == {a.to.for} \ {NoUser}
                      alone == requests = {} /\ answers = {a}
                  IN  IF ~Asks(a.to) THEN entered
                      ELSE IF alone /\ a.to.session # "expired"
                           THEN user ELSE entered \union user
    /\ UNCHANGED <<now, requests, raced>>

Next ==
    \/ Tick
    \/ RouteRequest("page", NoUser) \/ RouteRequest("logout", NoUser)
    \/ \E u \in User : RouteRequest("login", u)
    \/ \E r \in requests : ModifyResponseHeaders(r) \/ ToResponse(r)
    \/ \E a \in answers : Receive(a)

\* Somebody goes on reading pages, of which not all come to nothing; every
\* request comes to an end, and answers come.
Fairness ==
    /\ SF_vars(RouteRequest("page", NoUser))
    /\ SF_vars(\E r \in requests : r.asks = "page" /\ ModifyResponseHeaders(r))
    /\ WF_vars(\E r \in requests : ModifyResponseHeaders(r) \/ ToResponse(r))
    /\ WF_vars(\E a \in answers : Receive(a))

Spec == Init /\ [][Next]_vars

FairSpec == Spec /\ Fairness

-----------------------------------------------------------------------------
\* All tokens there are.
Tokens == {cookie} \union {r.token : r \in requests}
          \union UNION {{a.to.token} \union {a.sets[i] : i \in DOMAIN a.sets} :
                        a \in answers}

\* The token of a user who entered.
Known(t) == t # NoToken => t.user \in entered

\* No token is good for longer than one made now, none was made before the
\* clock began, a session was read from a token, and all tokens are of users
\* who entered or enter with the answer that brings them.
IInv ==
    /\ TypeOK
    /\ \A t \in Tokens \ {NoToken} : t.exp \in TokenExp .. now + TokenExp
    /\ \A r \in OnTheWay : r.session \in {"expired", "valid"} =>
          r.token # NoToken
    /\ Known(cookie) /\ \A r \in OnTheWay : Known(r.token)
    /\ \A a \in answers : \A i \in DOMAIN a.sets :
          Known(a.sets[i]) \/ a.sets[i].user = a.to.for

\* A log-in or a log-out that met no old token, and no other answer that sets
\* cookies, has the last word: no answer that comes late brings another user
\* back, or takes the user away, except for the age of the token.
AskedIsDone ==
    ~raced /\ (\A r \in OnTheWay : ~Asks(r)) =>
        /\ cookie # NoToken => cookie.user = asked
        /\ cookie = NoToken /\ asked # NoUser => lapsed

\* A token that is too old to be renewed does not stay.
OldTokenGoes ==
    [](DecodeJwt(cookie) = "invalid" => <>(DecodeJwt(cookie) # "invalid"))

\* The answer to a log-out takes the token away, unless it was asked with one
\* that has expired: that is renewed behind the clearing.
LogoutClears ==
    \A a \in answers :
        a.to.asks = "logout" /\ a.to.session # "expired" =>
            a.sets # <<>> /\ a.sets[Len(a.sets)] = NoToken

\* However answers overtake each other, and whatever tokens they met: whoever
\* is logged in did so since the last log-in or log-out that was answered with
\* nothing else on the way, those with an expired token apart.  What came
\* before never comes back.
NobodyElse == cookie # NoToken => cookie.user \in entered

\* A log-in and a log-out have the last word if they are not raced; raced, they
\* have it among those that overlapped.
LastWord == AskedIsDone /\ LogoutClears /\ NobodyElse
=============================================================================
