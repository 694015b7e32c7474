---------------------------- MODULE HandlersProofs ----------------------------
(***************************************************************************)
(* What the handlers of the server promise, for every number of users,     *)
(* requests, uploads, proposals, characters, bytes and matches.            *)
(*                                                                         *)
(* One handler runs in a behaviour, so that there is an inductive          *)
(* invariant and a preservation lemma for each of them, and the theorems   *)
(* at the end put them together.                                           *)
(***************************************************************************)
EXTENDS Handlers, Integers, FiniteSetTheorems, SequenceTheorems, TLAPS

\* Arithmetic of ticks and seconds, which the provers do not find themselves.

\* A product with a natural number keeps the order of the other factor.
LEMMA Times ==
    ASSUME NEW p \in Nat, NEW a \in Int, NEW b \in Int, a <= b
    PROVE  p * a \in Int /\ p * b \in Int /\ p * a <= p * b
<1>1. b - a \in Nat
  OBVIOUS
<1>2. p * (b - a) \in Nat
  <2>1. ASSUME NEW m \in Nat, NEW n \in Nat PROVE m * n \in Nat
    BY SMT
  <2> QED BY <1>1, <2>1
<1>3. p * (b - a) = p * b - p * a
  BY SMT
<1>4. p * a \in Int /\ p * b \in Int
  BY SMT
<1> QED
  BY <1>2, <1>3, <1>4

\* One more in the first factor adds the second.
LEMMA TimesOneMore ==
    ASSUME NEW p \in Int, NEW a \in Int
    PROVE  p * (a + 1) = p * a + p
BY SMT

\* A quotient is between ...
LEMMA Quotient ==
    ASSUME NEW p \in Nat \ {0}, NEW t \in Nat
    PROVE  /\ t \div p \in Nat
           /\ p * (t \div p) \in Int
           /\ p * (t \div p) <= t /\ t < p * (t \div p) + p
<1>1. t \div p \in Int /\ t \div p >= 0
  BY SMT
<1>2. p * (t \div p) \in Int
  BY <1>1, SMT
<1>3. p * (t \div p) <= t /\ t < p * (t \div p) + p
  BY SMT
<1> QED
  BY <1>1, <1>2, <1>3

\* A greater number has no smaller quotient.
LEMMA QuotientMonotone ==
    ASSUME NEW p \in Nat \ {0}, NEW t \in Nat, NEW u \in Nat, t <= u
    PROVE  t \div p <= u \div p
<1> DEFINE q == t \div p
           r == u \div p
<1>1. /\ q \in Nat /\ r \in Nat /\ p * q \in Int /\ p * r \in Int
      /\ p * q <= t /\ u < p * r + p
  BY Quotient
<1> HIDE DEF q, r
<1>2. ASSUME r + 1 <= q
      PROVE  FALSE
  <2>1. p * (r + 1) <= p * q
    BY <1>1, <1>2, Times
  <2>2. p * (r + 1) = p * r + p
    BY <1>1, TimesOneMore
  <2> QED
    BY <1>1, <2>1, <2>2
<1>3. q <= r
  BY <1>1, <1>2
<1> QED
  BY <1>3 DEF q, r

\* One divisor more is one more in the quotient.
LEMMA QuotientShift ==
    ASSUME NEW p \in Nat \ {0}, NEW t \in Nat
    PROVE  (t + p) \div p = t \div p + 1
<1> DEFINE q == (t + p) \div p
           r == t \div p
<1>1. /\ q \in Nat /\ r \in Nat /\ p * q \in Int /\ p * r \in Int
      /\ p * r <= t /\ t < p * r + p
      /\ p * q <= t + p /\ t + p < p * q + p
  <2>1. t + p \in Nat
    OBVIOUS
  <2> QED
    BY <2>1, Quotient
<1> HIDE DEF q, r
<1>2. ASSUME r + 2 <= q
      PROVE  FALSE
  <2>1. p * (r + 2) <= p * q
    BY <1>1, <1>2, Times
  <2>2. p * (r + 1) = p * r + p /\ p * (r + 1 + 1) = p * (r + 1) + p
    BY <1>1, TimesOneMore
  <2>3. r + 1 + 1 = r + 2
    BY <1>1
  <2> QED
    BY <1>1, <2>1, <2>2, <2>3
<1>3. ASSUME q <= r
      PROVE  FALSE
  <2>1. p * q <= p * r
    BY <1>1, <1>3, Times
  <2> QED
    BY <1>1, <2>1
<1>4. q = r + 1
  BY <1>1, <1>2, <1>3
<1> QED
  BY <1>4 DEF q, r

-----------------------------------------------------------------------------
\* The harness: one handler runs, and all that happens is a step of it.

\* The handler that runs goes on running, and what it does is a step of it.
LEMMA Moves ==
    ASSUME [Next]_vars
    PROVE  /\ UNCHANGED runs
           /\ runs = "browser" => [Browser!Next]_browserVars
           /\ runs = "videos" => [Videos!Next]_videosVars
           /\ runs = "previous" => [Previous!Next]_previousVars
           /\ runs = "targets" => [Targets!Next]_targetsVars
           /\ runs = "files" => [Files!Next]_filesVars
           /\ runs = "names" => [Names!Next]_namesVars
<1>1. CASE Next
  BY <1>1 DEF Next, OthersUnchanged
<1>2. CASE UNCHANGED vars
  BY <1>2 DEF vars
<1> QED
  BY <1>1, <1>2

\* It begins as that handler does.
LEMMA Begins ==
    ASSUME Init
    PROVE  /\ runs = "browser" => Browser!Init
           /\ runs = "videos" => Videos!Init
           /\ runs = "previous" => Previous!Init
           /\ runs = "targets" => Targets!Init
           /\ runs = "files" => Files!Init
           /\ runs = "names" => Names!Init
BY DEF Init

-----------------------------------------------------------------------------
\* Sessions.

\* The cookie an answer leaves.
Left(sets) == sets[Len(sets)]

\* What the cookies of an answer have to do with its request.
Fits(r, sets) ==
    /\ ~Browser!Sets(r) => sets = <<>>
    /\ Browser!Sets(r) => sets # <<>>
    /\ r.session = "expired" => Left(sets) # Browser!NoToken
                                /\ Left(sets).user = r.token.user
    /\ r.session = "invalid" => Left(sets) = Browser!NoToken
    /\ r.session = "invalid" /\ ~Browser!Asks(r) => sets = <<Browser!NoToken>>
    /\ r.session \notin {"expired", "invalid"} =>
          /\ r.asks = "login" =>
                Left(sets) # Browser!NoToken /\ Left(sets).user = r.for
          /\ r.asks = "logout" => Left(sets) = Browser!NoToken

\* Requests are for somebody when they log in, and a session is somebody's.
MeantFor(r) ==
    /\ r.asks = "login" <=> r.for \in sessions.User
    /\ r.session \in {"expired", "valid"} => r.token \in Browser!Token

\* A token expires no sooner than the shortest and no later than one made now.
Aged(t) == t # Browser!NoToken =>
   sessions.TokenExp <= t.exp /\ t.exp <= now + sessions.TokenExp

\* Tokens, and the cookies of answers, are as the service makes them.
Made ==
    /\ Aged(cookie)
    /\ \A r \in requests : MeantFor(r) /\ Aged(r.token)
    /\ \A a \in answers : /\ MeantFor(a.to) /\ Aged(a.to.token)
                          /\ Fits(a.to, a.sets)
                          /\ \A i \in DOMAIN a.sets : Aged(a.sets[i])

\* A log-in or log-out that has not raced met a session that sets nothing, and
\* is the only one that does.
Only ==
    /\ \A r \in Browser!OnTheWay : Browser!Asks(r) =>
          r.session \notin {"expired", "invalid"}
    /\ \A r, o \in requests : Browser!Asks(r) /\ Browser!Sets(o) => r = o
    /\ \A a, b \in answers : Browser!Asks(a.to) /\ Browser!Sets(b.to) => a = b
    /\ \A r \in requests, a \in answers : /\ Browser!Asks(r) =>
                                                ~Browser!Sets(a.to)
                                          /\ Browser!Asks(a.to) =>
                                                ~Browser!Sets(r)

\* Nothing raced, and nobody asks for a log-in or a log-out.
Calm == ~raced /\ \A r \in Browser!OnTheWay : ~Browser!Asks(r)

\* What is renewed when nothing was asked is the token of the user asked for.
SameUser ==
    /\ cookie # Browser!NoToken => cookie.user = asked
    /\ cookie = Browser!NoToken /\ asked # None => lapsed
    /\ \A r \in Browser!OnTheWay : r.session = "expired" => r.token.user = asked

\* The invariant of sessions, but for who entered.
GoodBrowser == Browser!TypeOK /\ Made /\ (~raced => Only) /\ (Calm => SameUser)

\* Tokens are of users who entered, or enter with the answer that brings them.
TokensKnown ==
    /\ Browser!Known(cookie)
    /\ \A r \in Browser!OnTheWay : Browser!Known(r.token)
    /\ \A a \in answers : \A i \in DOMAIN a.sets :
          Browser!Known(a.sets[i]) \/ a.sets[i].user = a.to.for

\* A cookie that is set for a request is for the user who logs in, or of the
\* user whose token came with it.
Whose(r, t) ==
    \/ t = Browser!NoToken
    \/ t.user = r.for
    \/ r.token # Browser!NoToken /\ t.user = r.token.user

\* The cookies of an answer, in the order in which they are set.
LEMMA Cookies ==
    ASSUME Browser!SessionAssumption, now \in Nat, NEW r \in Browser!Request,
           MeantFor(r),
           NEW sets, sets = Browser!OwnCookies(r) \o Browser!SessionCookies(r)
    PROVE  /\ sets \in Seq(Browser!Token \union {Browser!NoToken})
           /\ Fits(r, sets)
           /\ \A i \in DOMAIN sets : Aged(sets[i]) /\ Whose(r, sets[i])
<1> DEFINE All == Browser!Token \union {Browser!NoToken}
<1> DEFINE Okay(t) == t \in All /\ Aged(t) /\ Whose(r, t)
<1>1. ASSUME NEW u \in sessions.User,
             u = r.for \/ (r.token # Browser!NoToken /\ u = r.token.user)
      PROVE  /\ Browser!CreateJwt(u) \in Browser!Token
             /\ Okay(Browser!CreateJwt(u))
             /\ Browser!CreateJwt(u).user = u
             /\ Browser!CreateJwt(u) # Browser!NoToken
  BY <1>1 DEF Browser!SessionAssumption, Browser!CreateJwt, Browser!Token,
              Browser!NoToken, Aged, Whose
<1>2. Okay(Browser!NoToken)
  BY DEF Aged, Whose
<1>3. r.session \in {"expired", "valid"} =>
         r.token.user \in sessions.User /\ r.token # Browser!NoToken
  BY DEF Browser!SessionAssumption, MeantFor, Browser!Token, Browser!NoToken
<1>4. /\ r.asks \in {"page", "login", "logout"}
      /\ r.session \in {"valid", "expired", "invalid", "error"}
  BY DEF Browser!Request
<1> HIDE DEF Okay
<1>5. \/ r.asks = "page" /\ Browser!OwnCookies(r) = <<>>
      \/ r.asks = "logout" /\ Browser!OwnCookies(r) = <<Browser!NoToken>>
      \/ r.asks = "login"
         /\ Browser!OwnCookies(r) = <<Browser!CreateJwt(r.for)>>
  BY <1>4 DEF Browser!OwnCookies
<1>6. \/ /\ r.session = "expired"
         /\ Browser!SessionCookies(r) = <<Browser!CreateJwt(r.token.user)>>
      \/ r.session = "invalid"
         /\ Browser!SessionCookies(r) = <<Browser!NoToken>>
      \/ r.session \in {"valid", "error"} /\ Browser!SessionCookies(r) = <<>>
  BY <1>4 DEF Browser!SessionCookies
<1>7. ASSUME NEW s, Okay(s)
      PROVE  /\ <<s>> \in Seq(All)
             /\ <<s>> \o <<>> = <<s>> /\ <<>> \o <<s>> = <<s>>
  <2>1. s \in All
    BY <1>7 DEF Okay
  <2> QED
    BY <2>1
<1>8. ASSUME NEW s, NEW t, Okay(s), Okay(t)
       PROVE  /\ <<s>> \o <<t>> \in Seq(All) /\ Len(<<s>> \o <<t>>) = 2
              /\ (<<s>> \o <<t>>)[1] = s /\ (<<s>> \o <<t>>)[2] = t
  <2>1. s \in All /\ t \in All
    BY <1>8 DEF Okay
  <2> QED
    BY <2>1
<1>9. <<>> \o <<>> = <<>> /\ <<>> \in Seq(All)
  OBVIOUS
<1>10. CASE Browser!SessionCookies(r) = <<>>
  <2>1. r.session \in {"valid", "error"}
    BY <1>6, <1>10
  <2>2. CASE r.asks = "page"
    BY <1>5, <1>10, <1>9, <2>1, <2>2 DEF Fits, Browser!Sets, Browser!Asks
  <2>3. CASE r.asks = "logout"
    <3>1. sets = <<Browser!NoToken>> /\ sets \in Seq(All)
      BY <1>2, <1>5, <1>7, <1>10, <2>3
    <3> QED
      BY <1>2, <3>1, <2>1, <2>3 DEF Fits, Browser!Sets, Browser!Asks, Left, Okay
  <2>4. CASE r.asks = "login"
    <3>1. Okay(Browser!CreateJwt(r.for))
          /\ Browser!CreateJwt(r.for) # Browser!NoToken
          /\ Browser!CreateJwt(r.for).user = r.for
      BY <1>1, <2>4 DEF MeantFor
    <3>2. sets = <<Browser!CreateJwt(r.for)>> /\ sets \in Seq(All)
      BY <1>2, <1>5, <1>7, <1>10, <2>4, <3>1
    <3> QED
      BY <3>1, <3>2, <2>1, <2>4 DEF Fits, Browser!Sets, Browser!Asks, Left, Okay
  <2> QED
    BY <1>4, <2>2, <2>3, <2>4
<1>11. ASSUME NEW t, Browser!SessionCookies(r) = <<t>>, Okay(t),
             \/ r.session = "invalid" /\ t = Browser!NoToken
             \/ r.session = "expired" /\ t # Browser!NoToken
                /\ t.user = r.token.user
      PROVE  /\ sets \in Seq(All)
             /\ Fits(r, sets)
             /\ \A i \in DOMAIN sets : Aged(sets[i]) /\ Whose(r, sets[i])
  <2>1. CASE r.asks = "page"
    <3>1. sets = <<t>> /\ sets \in Seq(All)
      BY <1>5, <1>7, <1>11, <2>1
    <3> QED
      BY <3>1, <1>11, <2>1 DEF Fits, Browser!Sets, Browser!Asks, Left, Okay
  <2>2. CASE r.asks # "page"
    <3>1. PICK s : Okay(s) /\ Browser!OwnCookies(r) = <<s>>
      BY <1>1, <1>2, <1>5, <2>2 DEF MeantFor
    <3>2. /\ sets \in Seq(All) /\ Len(sets) = 2
          /\ sets[1] = s /\ sets[2] = t
      BY <1>8, <1>11, <3>1
    <3> QED
      BY <3>1, <3>2, <1>11, <2>2
         DEF Fits, Browser!Sets, Browser!Asks, Left, Okay
  <2> QED
    BY <2>1, <2>2
<1> QED
  BY <1>1, <1>2, <1>3, <1>6, <1>10, <1>11

\* The invariant of sessions holds at the start.
LEMMA BrowserInit ==
    ASSUME Browser!SessionAssumption, Browser!Init
    PROVE  GoodBrowser
<1> USE DEF Browser!SessionAssumption, Browser!Init
<1>1. Browser!TypeOK
  BY DEF Browser!TypeOK
<1>2. Made
  BY DEF Made, Aged
<1>3. Only /\ SameUser
  BY DEF Only, SameUser, Browser!OnTheWay
<1> QED
  BY <1>1, <1>2, <1>3 DEF GoodBrowser

-----------------------------------------------------------------------------
\* A request reads the cookie as it is.
LEMMA RouteOK ==
    ASSUME Browser!SessionAssumption, GoodBrowser, NEW asks \in {"page",
           "login", "logout"},
           NEW for \in sessions.User \union {None}, asks = "login" <=>
              for \in sessions.User,
           Browser!RouteRequest(asks, for)
    PROVE  GoodBrowser'
<1> DEFINE r == [asks |-> asks, for |-> for,
       session |-> Browser!DecodeJwt(cookie),
                 token |-> cookie]
<1>1. /\ requests' = requests \union {r}
      /\ raced' = IF Browser!Asks(r)
                  THEN \/ r.session \in {"expired", "invalid"}
                       \/ \E o \in Browser!OnTheWay : Browser!Sets(o)
                  ELSE \/ raced
                       \/ /\ Browser!Sets(r)
                          /\ \E o \in Browser!OnTheWay : Browser!Asks(o)
      /\ UNCHANGED <<now, cookie, answers, asked, lapsed, entered>>
  BY DEF Browser!RouteRequest
<1>2. r.session \in {"valid", "expired", "invalid", "error"}
  BY DEF Browser!DecodeJwt
<1>3. r.session \in {"expired", "valid"} => cookie \in Browser!Token
  BY DEF Browser!DecodeJwt, GoodBrowser, Browser!TypeOK
<1>4. /\ r \in Browser!Request /\ r.asks = asks /\ r.for = for
      /\ r.session = Browser!DecodeJwt(cookie) /\ r.token = cookie
  BY <1>2 DEF Browser!Request, GoodBrowser, Browser!TypeOK
<1>5. Browser!OnTheWay' = Browser!OnTheWay \union {r}
  BY <1>1 DEF Browser!OnTheWay
<1> HIDE DEF r
<1>6. Browser!TypeOK'
  BY <1>1, <1>4 DEF GoodBrowser, Browser!TypeOK
<1>7. Made'
  BY <1>1, <1>3, <1>4 DEF GoodBrowser, Made, MeantFor, Aged
<1>8. ASSUME ~raced'
      PROVE  Only'
  <2>1. CASE Browser!Asks(r)
    <3>1. /\ r.session \notin {"expired", "invalid"}
          /\ \A o \in Browser!OnTheWay : ~Browser!Sets(o)
      BY <1>1, <1>8, <2>1
    <3>2. \A o \in Browser!OnTheWay : ~Browser!Asks(o)
      BY <3>1 DEF Browser!Sets
    <3> QED
      BY <1>1, <1>5, <3>1, <3>2 DEF Only, Browser!OnTheWay
  <2>2. CASE ~Browser!Asks(r)
    <3>1. /\ ~raced
          /\ Browser!Sets(r) =>
                \A o \in Browser!OnTheWay : ~Browser!Asks(o)
      BY <1>1, <1>8, <2>2
    <3>2. Only
      BY <3>1 DEF GoodBrowser
    <3> QED
      BY <1>1, <1>5, <2>2, <3>1, <3>2 DEF Only, Browser!OnTheWay
  <2> QED
    BY <2>1, <2>2
<1>9. ASSUME Calm'
      PROVE  SameUser'
  <2>1. ~Browser!Asks(r) /\ Calm
    BY <1>1, <1>5, <1>9 DEF Calm
  <2>2. SameUser
    BY <2>1 DEF GoodBrowser
  <2>3. r.session = "expired" => r.token.user = asked
    BY <1>3, <1>4, <2>2
       DEF Browser!SessionAssumption, SameUser, Browser!Token, Browser!NoToken
  <2> QED
    BY <1>1, <1>5, <2>2, <2>3 DEF SameUser
<1> QED
  BY <1>6, <1>7, <1>8, <1>9 DEF GoodBrowser

\* An answer takes the place of its request.
LEMMA ModifyOK ==
    ASSUME Browser!SessionAssumption, GoodBrowser, NEW r \in requests,
           Browser!ModifyResponseHeaders(r)
    PROVE  GoodBrowser'
<1> DEFINE sets == Browser!OwnCookies(r) \o Browser!SessionCookies(r)
<1> DEFINE a == [to |-> r, sets |-> sets]
<1>1. /\ requests' = requests \ {r} /\ answers' = answers \union {a}
      /\ UNCHANGED <<now, cookie, asked, raced, lapsed, entered>>
  BY DEF Browser!ModifyResponseHeaders
<1>2. r \in Browser!Request /\ MeantFor(r) /\ Aged(r.token) /\ now \in Nat
  BY DEF GoodBrowser, Browser!TypeOK, Made
<1>3. /\ sets \in Seq(Browser!Token \union {Browser!NoToken})
      /\ Fits(r, sets)
      /\ \A i \in DOMAIN sets : Aged(sets[i])
  BY <1>2, Cookies
<1>4. a.to = r /\ a.sets = sets
  OBVIOUS
<1> HIDE DEF sets
<1>5. a \in Browser!Answer
  BY <1>2, <1>3 DEF Browser!Answer
<1> HIDE DEF a
<1>6. Browser!OnTheWay' = Browser!OnTheWay
  BY <1>1, <1>4 DEF Browser!OnTheWay
<1>7. Browser!TypeOK'
  BY <1>1, <1>5 DEF GoodBrowser, Browser!TypeOK
<1>8. Made'
  BY <1>1, <1>2, <1>3, <1>4 DEF GoodBrowser, Made, Aged
<1>9. ASSUME ~raced'
      PROVE  Only'
  <2>1. Only
    BY <1>1, <1>9 DEF GoodBrowser
  <2> QED
    BY <1>1, <1>4, <1>6, <2>1 DEF Only
<1>10. ASSUME Calm'
       PROVE  SameUser'
  <2>1. SameUser
    BY <1>1, <1>6, <1>10 DEF GoodBrowser, Calm
  <2> QED
    BY <1>1, <1>6, <2>1 DEF SameUser
<1> QED
  BY <1>7, <1>8, <1>9, <1>10 DEF GoodBrowser

\* An answer that is an error changes nothing, unless something was asked.
LEMMA ErrorOK ==
    ASSUME GoodBrowser, NEW r \in requests, Browser!ToResponse(r)
    PROVE  GoodBrowser'
<1> USE DEF Browser!ToResponse
<1>1. Browser!OnTheWay' \subseteq Browser!OnTheWay
  BY DEF Browser!OnTheWay
<1>2. Browser!TypeOK' /\ Made'
  BY DEF GoodBrowser, Browser!TypeOK, Made, Aged
<1>3. ASSUME ~raced'
      PROVE  Only'
  <2>1. Only
    BY <1>3 DEF GoodBrowser
  <2> QED
    BY <1>1, <2>1 DEF Only
<1>4. ASSUME Calm'
      PROVE  SameUser'
  <2>1. ~raced /\ ~Browser!Asks(r)
    BY <1>4 DEF Calm
  <2>2. Browser!OnTheWay \subseteq Browser!OnTheWay' \union {r}
    BY DEF Browser!OnTheWay
  <2>3. SameUser
    BY <1>4, <2>1, <2>2 DEF GoodBrowser, Calm
  <2> QED
    BY <1>1, <2>3 DEF SameUser
<1> QED
  BY <1>2, <1>3, <1>4 DEF GoodBrowser

\* An answer that comes leaves the user that was asked for last.
LEMMA ReceiveOK ==
    ASSUME Browser!SessionAssumption, GoodBrowser, NEW a \in answers,
           Browser!Receive(a)
    PROVE  GoodBrowser'
<1> USE DEF Browser!Receive
<1>1. Browser!OnTheWay' \subseteq Browser!OnTheWay
      /\ Browser!OnTheWay \subseteq Browser!OnTheWay' \union {a.to}
  BY DEF Browser!OnTheWay
<1>2. /\ a.to \in Browser!Request
      /\ a.sets \in Seq(Browser!Token \union {Browser!NoToken})
      /\ Fits(a.to, a.sets) /\ MeantFor(a.to)
      /\ \A i \in DOMAIN a.sets : Aged(a.sets[i])
      /\ a.to \in Browser!OnTheWay
  BY DEF GoodBrowser, Browser!TypeOK, Made, Browser!Answer, Browser!OnTheWay
<1>3. a.sets # <<>> =>
         /\ cookie' = Left(a.sets)
         /\ Left(a.sets) \in Browser!Token \union {Browser!NoToken}
         /\ Aged(Left(a.sets))
  <2> SUFFICES ASSUME a.sets # <<>>
               PROVE  Len(a.sets) \in DOMAIN a.sets
    BY <1>2 DEF Left
  <2> QED
    BY <1>2
<1>4. Browser!TypeOK'
  <2>1. cookie' \in Browser!Token \union {Browser!NoToken}
    BY <1>3 DEF GoodBrowser, Browser!TypeOK
  <2>2. asked' \in sessions.User \union {None}
    BY <1>2 DEF GoodBrowser, Browser!TypeOK, Browser!Request
  <2>3. lapsed' \in BOOLEAN
    BY DEF GoodBrowser, Browser!TypeOK
  <2>4. entered' \subseteq sessions.User
    BY <1>2 DEF GoodBrowser, Browser!TypeOK, Browser!Request
  <2> QED
    BY <2>1, <2>2, <2>3, <2>4 DEF GoodBrowser, Browser!TypeOK
<1>5. Made'
  <2>1. Aged(cookie)'
    BY <1>3 DEF GoodBrowser, Made, Aged
  <2> QED
    BY <2>1 DEF GoodBrowser, Made, Aged
<1>6. ASSUME ~raced'
      PROVE  Only'
  <2>1. Only
    BY <1>6 DEF GoodBrowser
  <2> QED
    BY <1>1, <2>1 DEF Only
<1>7. ASSUME Calm'
      PROVE  SameUser'
  <2>1. ~raced /\ Only
    BY <1>7 DEF GoodBrowser, Calm
  <2>2. CASE Browser!Asks(a.to)
    <3>1. \A o \in Browser!OnTheWay' : ~Browser!Sets(o)
      <4>1. \A r \in requests : ~Browser!Sets(r)
        BY <2>1, <2>2 DEF Only
      <4>2. \A b \in answers \ {a} : ~Browser!Sets(b.to)
        BY <2>1, <2>2 DEF Only
      <4> QED
        BY <4>1, <4>2 DEF Browser!OnTheWay
    <3>2. a.to.session \notin {"expired", "invalid"} /\ a.sets # <<>>
      BY <1>2, <2>1, <2>2 DEF Only, Fits, Browser!Sets
    <3>3. \A o \in Browser!OnTheWay' : o.session # "expired"
      BY <3>1 DEF Browser!Sets
    <3>4. CASE a.to.asks = "login"
      BY <1>2, <1>3, <2>2, <3>2, <3>3, <3>4 DEF SameUser, Fits
    <3>5. CASE a.to.asks = "logout"
      <4>1. a.to.for = None
        BY <1>2, <3>5 DEF MeantFor, Browser!Request
      <4> QED
        BY <1>2, <1>3, <2>2, <3>2, <3>3, <3>5, <4>1 DEF SameUser, Fits
    <3> QED
      BY <1>2, <2>2, <3>4, <3>5 DEF Browser!Asks, Browser!Request
  <2>3. CASE ~Browser!Asks(a.to)
    <3>1. SameUser
      BY <1>1, <1>7, <2>1, <2>3 DEF GoodBrowser, Calm
    <3>2. asked' = asked
      BY <2>3
    <3>3. \A o \in Browser!OnTheWay' : o.session = "expired" =>
             o.token.user = asked'
      BY <1>1, <3>1, <3>2 DEF SameUser
    <3>4. CASE a.sets = <<>>
      <4>1. cookie' = cookie /\ (lapsed => lapsed')
        BY <2>3, <3>4
      <4> QED
        BY <3>1, <3>2, <3>3, <4>1 DEF SameUser
    <3>5. CASE a.to.session = "expired"
      <4>1. cookie' = Left(a.sets) /\ Left(a.sets) # Browser!NoToken
            /\ Left(a.sets).user = a.to.token.user
        BY <1>2, <1>3, <3>5 DEF Fits, Browser!Sets
      <4>2. a.to.token.user = asked
        BY <1>2, <3>1, <3>5 DEF SameUser
      <4> QED
        BY <3>2, <3>3, <4>1, <4>2 DEF SameUser
    <3>6. CASE a.to.session = "invalid"
      <4>1. a.sets = <<Browser!NoToken>> /\ cookie' = Browser!NoToken
        BY <1>2, <1>3, <2>3, <3>6 DEF Fits, Browser!Sets
      <4>2. lapsed' = (lapsed \/ cookie # Browser!NoToken)
        BY <2>3, <4>1
      <4> QED
        BY <3>1, <3>2, <3>3, <4>1, <4>2 DEF SameUser
    <3> QED
      BY <1>2, <2>3, <3>4, <3>5, <3>6 DEF Fits, Browser!Sets
  <2> QED
    BY <2>2, <2>3
<1> QED
  BY <1>4, <1>5, <1>6, <1>7 DEF GoodBrowser

\* Every request, answer and tick of the clock keeps it.
LEMMA BrowserStep ==
    ASSUME Browser!SessionAssumption, GoodBrowser, [Browser!Next]_browserVars
    PROVE  GoodBrowser'
<1>1. CASE Browser!Tick
  <2> USE <1>1 DEF Browser!Tick
  <2>1. Browser!TypeOK' /\ Made'
    BY SMTT(60)
       DEF Browser!SessionAssumption, GoodBrowser, Browser!TypeOK, Made, Aged,
       Browser!Token, Browser!Request, Browser!Answer
  <2>2. Browser!OnTheWay' = Browser!OnTheWay
    BY DEF Browser!OnTheWay
  <2> QED
    BY <2>1, <2>2 DEF GoodBrowser, Only, Calm, SameUser
<1>2. CASE Browser!RouteRequest("page", None)
      \/ Browser!RouteRequest("logout", None)
  BY <1>2, RouteOK DEF Browser!SessionAssumption
<1>3. ASSUME NEW u \in sessions.User, Browser!RouteRequest("login", u)
      PROVE  GoodBrowser'
  BY <1>3, RouteOK
<1>4. ASSUME NEW r \in requests,
             Browser!ModifyResponseHeaders(r) \/ Browser!ToResponse(r)
      PROVE  GoodBrowser'
  BY <1>4, ModifyOK, ErrorOK
<1>5. ASSUME NEW a \in answers, Browser!Receive(a)
      PROVE  GoodBrowser'
  BY <1>5, ReceiveOK
<1>6. CASE UNCHANGED browserVars
  BY <1>6
     DEF browserVars, GoodBrowser, Browser!TypeOK, Made, Aged, Only, Calm,
         SameUser, Browser!OnTheWay
<1> QED
  BY <1>1, <1>2, <1>3, <1>4, <1>5, <1>6 DEF Browser!Next

\* A request and its answer bring no token of a user who did not enter.
LEMMA RouteKnown ==
    ASSUME TokensKnown, NEW asks, NEW for, Browser!RouteRequest(asks, for)
    PROVE  TokensKnown'
<1> DEFINE r == [asks |-> asks, for |-> for,
                 session |-> Browser!DecodeJwt(cookie), token |-> cookie]
<1>1. /\ requests' = requests \union {r} /\ r.token = cookie
      /\ UNCHANGED <<cookie, answers, entered>>
  BY DEF Browser!RouteRequest
<1> HIDE DEF r
<1>2. Browser!OnTheWay' = Browser!OnTheWay \union {r}
  BY <1>1 DEF Browser!OnTheWay
<1> QED
  BY <1>1, <1>2 DEF TokensKnown, Browser!Known

LEMMA ModifyKnown ==
    ASSUME Browser!SessionAssumption, GoodBrowser, TokensKnown,
           NEW r \in requests, Browser!ModifyResponseHeaders(r)
    PROVE  TokensKnown'
<1> DEFINE sets == Browser!OwnCookies(r) \o Browser!SessionCookies(r)
           a == [to |-> r, sets |-> sets]
<1>1. /\ requests' = requests \ {r} /\ answers' = answers \union {a}
      /\ UNCHANGED <<cookie, entered>>
  BY DEF Browser!ModifyResponseHeaders
<1>2. r \in Browser!Request /\ MeantFor(r) /\ now \in Nat
  BY DEF GoodBrowser, Browser!TypeOK, Made
<1>3. \A i \in DOMAIN sets : Whose(r, sets[i])
  BY <1>2, Cookies
<1>4. a.to = r /\ a.sets = sets
  OBVIOUS
<1> HIDE DEF sets, a
<1>5. Browser!OnTheWay' = Browser!OnTheWay
  BY <1>1, <1>4 DEF Browser!OnTheWay
<1>6. r \in Browser!OnTheWay
  BY DEF Browser!OnTheWay
<1>7. \A i \in DOMAIN sets : Browser!Known(sets[i]) \/ sets[i].user = r.for
  BY <1>3, <1>6 DEF TokensKnown, Browser!Known, Whose
<1> QED
  BY <1>1, <1>4, <1>5, <1>7 DEF TokensKnown, Browser!Known

\* An answer that leaves nobody else behind is the only one on the way.
LEMMA ReceiveKnown ==
    ASSUME Browser!SessionAssumption, GoodBrowser, TokensKnown,
           NEW a \in answers, Browser!Receive(a)
    PROVE  TokensKnown'
<1> DEFINE user == {a.to.for} \ {None}
<1>1. /\ answers' = answers \ {a} /\ requests' = requests
      /\ cookie' = IF a.sets = <<>> THEN cookie ELSE Left(a.sets)
      /\ entered' = IF ~Browser!Asks(a.to) THEN entered
                    ELSE IF requests = {} /\ answers = {a}
                            /\ a.to.session # "expired"
                         THEN user ELSE entered \union user
  BY DEF Browser!Receive, Left
<1>2. /\ a.to \in Browser!Request
      /\ a.sets \in Seq(Browser!Token \union {Browser!NoToken})
      /\ Fits(a.to, a.sets) /\ MeantFor(a.to)
  BY DEF GoodBrowser, Browser!TypeOK, Made, Browser!Answer
<1>3. a.sets # <<>> =>
         /\ Left(a.sets) \in Browser!Token \union {Browser!NoToken}
         /\ Browser!Known(Left(a.sets)) \/ Left(a.sets).user = a.to.for
  <2> SUFFICES ASSUME a.sets # <<>>
               PROVE  Len(a.sets) \in DOMAIN a.sets
    BY <1>2 DEF Left, TokensKnown
  <2> QED
    BY <1>2
<1>4. /\ Browser!Asks(a.to) \/ a.to.for = None
      /\ a.to.for \in sessions.User => a.to.for \in user
  BY <1>2 DEF Browser!SessionAssumption, MeantFor, Browser!Asks,
              Browser!Request
<1>5. Left(a.sets) \in Browser!Token /\ Left(a.sets).user = a.to.for
      => a.to.for \in sessions.User /\ Browser!Asks(a.to)
  BY <1>4 DEF Browser!SessionAssumption, Browser!Token
<1> HIDE DEF user
<1>6. CASE /\ Browser!Asks(a.to) /\ requests = {} /\ answers = {a}
           /\ a.to.session # "expired"
  <2>1. requests' = {} /\ answers' = {} /\ entered' = user
    BY <1>1, <1>6
  <2>2. a.sets # <<>> /\ cookie' = Left(a.sets)
    BY <1>1, <1>2, <1>6 DEF Fits, Browser!Sets
  <2>3. \/ Left(a.sets) = Browser!NoToken
        \/ a.to.asks = "login" /\ Left(a.sets).user = a.to.for
    BY <1>2, <1>6 DEF Fits, Browser!Asks, Browser!Request
  <2>4. Browser!Known(cookie)'
    BY <1>2, <1>4, <2>1, <2>2, <2>3 DEF Browser!Known, MeantFor
  <2> QED
    BY <2>1, <2>4 DEF TokensKnown, Browser!OnTheWay
<1>7. CASE ~(/\ Browser!Asks(a.to) /\ requests = {} /\ answers = {a}
             /\ a.to.session # "expired")
  <2>1. /\ entered \subseteq entered'
        /\ Browser!Asks(a.to) => user \subseteq entered'
    <3>1. CASE Browser!Asks(a.to)
      <4>1. entered' = entered \union user
        BY <1>1, <1>7, <3>1
      <4> QED
        BY <4>1
    <3>2. CASE ~Browser!Asks(a.to)
      <4>1. entered' = entered
        BY <1>1, <3>2
      <4> QED
        BY <3>2, <4>1
    <3> QED
      BY <3>1, <3>2
  <2>2. \A t : Browser!Known(t) => Browser!Known(t)'
    BY <2>1 DEF Browser!Known
  <2>3. Browser!OnTheWay' \subseteq Browser!OnTheWay
    BY <1>1 DEF Browser!OnTheWay
  <2>4. Browser!Known(cookie)'
    <3>1. CASE a.sets = <<>>
      BY <1>1, <2>1, <3>1 DEF TokensKnown, Browser!Known
    <3>2. CASE a.sets # <<>>
      BY <1>1, <1>3, <1>4, <1>5, <2>1, <3>2 DEF Browser!Known
    <3> QED
      BY <3>1, <3>2
  <2>5. \A r \in Browser!OnTheWay' : Browser!Known(r.token)'
    BY <2>1, <2>3 DEF TokensKnown, Browser!Known
  <2>6. \A b \in answers' : \A i \in DOMAIN b.sets :
           Browser!Known(b.sets[i])' \/ b.sets[i].user = b.to.for
    BY <1>1, <2>1 DEF TokensKnown, Browser!Known
  <2> QED
    BY <2>4, <2>5, <2>6 DEF TokensKnown, Browser!Known
<1> QED
  BY <1>6, <1>7

\* The invariant of sessions.
GoodSession == GoodBrowser /\ TokensKnown

LEMMA SessionInit ==
    ASSUME Browser!SessionAssumption, Browser!Init
    PROVE  GoodSession
<1>1. TokensKnown
  BY DEF Browser!Init, TokensKnown, Browser!Known, Browser!OnTheWay
<1> QED
  BY <1>1, BrowserInit DEF GoodSession

LEMMA SessionStep ==
    ASSUME Browser!SessionAssumption, GoodSession, [Browser!Next]_browserVars
    PROVE  GoodSession'
<1>1. GoodBrowser /\ TokensKnown /\ GoodBrowser'
  BY BrowserStep DEF GoodSession
<1>2. CASE Browser!Tick \/ UNCHANGED browserVars
  BY <1>1, <1>2
     DEF Browser!Tick, browserVars, TokensKnown, Browser!Known,
         Browser!OnTheWay, GoodSession
<1>3. CASE Browser!RouteRequest("page", None)
      \/ Browser!RouteRequest("logout", None)
  BY <1>1, <1>3, RouteKnown DEF GoodSession
<1>4. ASSUME NEW u \in sessions.User, Browser!RouteRequest("login", u)
      PROVE  GoodSession'
  BY <1>1, <1>4, RouteKnown DEF GoodSession
<1>5. ASSUME NEW r \in requests, Browser!ModifyResponseHeaders(r)
      PROVE  GoodSession'
  BY <1>1, <1>5, ModifyKnown DEF GoodSession
<1>6. ASSUME NEW r \in requests, Browser!ToResponse(r)
      PROVE  GoodSession'
  <2>1. Browser!OnTheWay' \subseteq Browser!OnTheWay
    BY <1>6 DEF Browser!ToResponse, Browser!OnTheWay
  <2> QED
    BY <1>1, <1>6, <2>1
       DEF Browser!ToResponse, TokensKnown, Browser!Known, GoodSession
<1>7. ASSUME NEW a \in answers, Browser!Receive(a)
      PROVE  GoodSession'
  BY <1>1, <1>7, ReceiveKnown DEF GoodSession
<1> QED
  BY <1>2, <1>3, <1>4, <1>5, <1>6, <1>7 DEF Browser!Next

\* It says all that the checked invariant of sessions says, and that the last
\* word is kept.
LEMMA BrowserParts ==
    ASSUME Browser!SessionAssumption, GoodSession
    PROVE  Browser!IInv /\ Browser!LastWord
<1>0. GoodBrowser /\ TokensKnown
  BY DEF GoodSession
<1>1. ASSUME NEW t \in Browser!Tokens \ {Browser!NoToken}
      PROVE  t.exp \in sessions.TokenExp .. now + sessions.TokenExp
  <2>1. t \in Browser!Token /\ Aged(t)
    <3>1. ASSUME NEW a \in answers, NEW i \in DOMAIN a.sets
          PROVE  a.sets[i] \in Browser!Token \union {Browser!NoToken}
                 /\ Aged(a.sets[i])
      BY <1>0 DEF GoodBrowser, Browser!TypeOK, Made, Browser!Answer
    <3> QED
      BY <1>0, <3>1
         DEF GoodBrowser, Browser!TypeOK, Made, Browser!Tokens,
             Browser!Request, Browser!Answer
  <2> QED
    BY <1>0, <2>1
       DEF Browser!SessionAssumption, GoodBrowser, Browser!TypeOK,
           Browser!Token, Aged
<1>2. ASSUME NEW r \in Browser!OnTheWay, r.session \in {"expired", "valid"}
      PROVE  r.token # Browser!NoToken
  <2>1. MeantFor(r)
    BY <1>0 DEF GoodBrowser, Made, Browser!OnTheWay
  <2> QED
    BY <1>2, <2>1
       DEF Browser!SessionAssumption, MeantFor, Browser!Token, Browser!NoToken
<1>3. Browser!AskedIsDone
  BY <1>0 DEF GoodBrowser, Calm, SameUser, Browser!AskedIsDone
<1>4. Browser!LogoutClears
  <2> SUFFICES ASSUME NEW a \in answers, a.to.asks = "logout",
                      a.to.session # "expired"
               PROVE  a.sets # <<>> /\ a.sets[Len(a.sets)] = Browser!NoToken
    BY DEF Browser!LogoutClears
  <2> QED
    BY <1>0 DEF GoodBrowser, Made, Fits, Browser!Sets, Browser!Asks, Left
<1>5. Browser!NobodyElse
  BY <1>0 DEF TokensKnown, Browser!Known, Browser!NobodyElse
<1> QED
  BY <1>0, <1>1, <1>2, <1>3, <1>4, <1>5
     DEF GoodBrowser, TokensKnown, Browser!IInv, Browser!LastWord

-----------------------------------------------------------------------------
\* Uploads.

\* The handlers that had a directory stay the same unless one is made.
LEMMA InStays ==
    ASSUME Videos!TypeOK, NEW a \in uploads.Upload, NEW to,
           at' = [at EXCEPT ![a] = to], tmp' = tmp,
           Videos!HasDir(a) <=> to \notin {"idle", "named", "unmade"}
    PROVE  \A s : Videos!In(s)' = Videos!In(s)
<1>1. \A u \in uploads.Upload : Videos!HasDir(u)' <=> Videos!HasDir(u)
  BY DEF Videos!TypeOK, Videos!HasDir
<1> QED
  BY <1>1 DEF Videos!In

\* What the invariant says of one upload.
LEMMA UploadTypes ==
    ASSUME Videos!UploadsAssumption, Videos!TypeOK, NEW u \in uploads.Upload
    PROVE  /\ tmp[u] \in Videos!Second /\ named[u] \in Videos!Second
           /\ at[u] \in Videos!At /\ u # None
           /\ Videos!HasDir(u) => u \in Videos!In(tmp[u])
           /\ \A s : Videos!In(s) \subseteq uploads.Upload
           /\ \A s : u \in Videos!In(s) => s = tmp[u] /\ Videos!HasDir(u)
BY DEF Videos!UploadsAssumption, Videos!TypeOK, Videos!In

\* Nothing is there at first.
LEMMA UploadsInit ==
    ASSUME Videos!UploadsAssumption, Videos!Init
    PROVE  Videos!IInv
<1> USE DEF Videos!UploadsAssumption, Videos!Init
<1>1. Videos!TypeOK
  BY DEF Videos!TypeOK, Videos!At, Videos!Second, Videos!Holder, Videos!NoDir
<1>2. \A s \in Videos!Second : dirs[s] = Videos!NoDir
  OBVIOUS
<1>3. \A u \in uploads.Upload : at[u] = "idle"
  OBVIOUS
<1> QED
  BY <1>1, <1>2, <1>3
     DEF Videos!IInv, Videos!FromDirectory, Videos!AloneFinds,
         Videos!NoDirLeft, Videos!NoDir

-----------------------------------------------------------------------------
\* The steps that only move the handler, or name its media.
LEMMA MovesOn ==
    ASSUME Videos!UploadsAssumption, Videos!IInv, NEW a \in uploads.Upload,
           \/ Videos!HandleVideoUpload(a) \/ Videos!CreateDirFails(a)
           \/ Videos!CollectBody(a) \/ Videos!BodyBreaksOff(a)
           \/ Videos!ClientGoes(a) \/ Videos!GetVideoDuration(a)
    PROVE  Videos!IInv'
<1>1. PICK to \in {"named", "unmade", "body", "broken", "gone", "probed"} :
         /\ at' = [at EXCEPT ![a] = to]
         /\ to = "named" <=> at[a] = "idle"
         /\ to = "unmade" <=> at[a] = "named"
         /\ to = "body" => at[a] = "dir"
         /\ to = "probed" => at[a] = "saved"
  BY DEF Videos!HandleVideoUpload, Videos!CreateDirFails, Videos!CollectBody,
         Videos!BodyBreaksOff, Videos!ClientGoes, Videos!GetVideoDuration,
         Videos!Goes
<1>2. /\ UNCHANGED <<second, tmp, dirs, published, preview, unremoved>>
      /\ second \in Videos!Second
      /\ \/ named' = named
         \/ to = "named" /\ named' = [named EXCEPT ![a] = second]
  BY <1>1
     DEF Videos!HandleVideoUpload, Videos!CreateDirFails, Videos!CollectBody,
         Videos!BodyBreaksOff, Videos!ClientGoes, Videos!GetVideoDuration,
         Videos!Goes, Videos!IInv, Videos!TypeOK
<1>3. Videos!TypeOK
  BY DEF Videos!IInv
<1>4. Videos!TypeOK'
  BY <1>1, <1>2, <1>3 DEF Videos!TypeOK, Videos!At
<1>5. at[a] \in {"idle", "named"} <=> to \in {"named", "unmade"}
  BY <1>1
<1>6. at[a] # "unmade"
  BY DEF Videos!HandleVideoUpload, Videos!CreateDirFails, Videos!CollectBody,
         Videos!BodyBreaksOff, Videos!ClientGoes, Videos!GetVideoDuration,
         Videos!Goes
<1>7. \A s : Videos!In(s)' = Videos!In(s)
  BY <1>1, <1>2, <1>3, <1>5, <1>6, InStays DEF Videos!HasDir
<1>8. at'[a] = to /\ \A u \in uploads.Upload \ {a} :
         at'[u] = at[u] /\ named'[u] = named[u]
  BY <1>1, <1>2, <1>3 DEF Videos!TypeOK
<1>9. Videos!FromDirectory'
  BY <1>1, <1>2, <1>7, <1>8 DEF Videos!IInv, Videos!FromDirectory
<1>10. Videos!AloneFinds'
  BY <1>1, <1>2, <1>7, <1>8 DEF Videos!IInv, Videos!AloneFinds
<1>11. Videos!NoDirLeft'
  BY <1>1, <1>2, <1>3, <1>7, <1>8, UploadTypes
     DEF Videos!IInv, Videos!NoDirLeft
<1> QED
  BY <1>2, <1>4, <1>9, <1>10, <1>11 DEF Videos!IInv, Videos!NoDir

\* The directory is made.  One that was there was another upload's too.
LEMMA MakesDir ==
    ASSUME Videos!UploadsAssumption, Videos!IInv, NEW a \in uploads.Upload,
           Videos!CreateDirAll(a)
    PROVE  Videos!IInv'
<1>1. /\ at[a] = "named" /\ at' = [at EXCEPT ![a] = "dir"]
      /\ tmp' = [tmp EXCEPT ![a] = second]
      /\ dirs' = [dirs EXCEPT ![second] =
                     IF dirs[second].there THEN dirs[second]
                                           ELSE Videos!EmptyDir]
      /\ UNCHANGED <<second, named, published, preview, unremoved>>
  BY DEF Videos!CreateDirAll, Videos!Goes
<1>2. Videos!TypeOK /\ second \in Videos!Second
  BY DEF Videos!IInv, Videos!TypeOK
<1>3. Videos!TypeOK'
  BY <1>1, <1>2
     DEF Videos!TypeOK, Videos!At, Videos!Holder, Videos!EmptyDir
<1>4. /\ at'[a] = "dir" /\ tmp'[a] = second
      /\ \A u \in uploads.Upload \ {a} : at'[u] = at[u] /\ tmp'[u] = tmp[u]
  BY <1>1, <1>2 DEF Videos!TypeOK
<1>5. /\ Videos!In(second)' = Videos!In(second) \union {a}
      /\ \A s : s # second => Videos!In(s)' = Videos!In(s)
      /\ \A s : a \notin Videos!In(s)
  BY <1>1, <1>4 DEF Videos!In, Videos!HasDir
<1>6. /\ \A s \in Videos!Second \ {second} : dirs'[s] = dirs[s]
      /\ dirs[second].there => dirs'[second] = dirs[second]
      /\ ~dirs[second].there => dirs'[second] = Videos!EmptyDir
  BY <1>1, <1>2 DEF Videos!TypeOK
<1>7. Videos!FromDirectory'
  BY <1>1, <1>4, <1>5, <1>6
     DEF Videos!IInv, Videos!FromDirectory, Videos!EmptyDir
<1>8. ASSUME NEW u \in uploads.Upload, Videos!In(tmp[u])' = {u}, u # a,
             tmp'[u] = tmp[u]
      PROVE  Videos!In(tmp[u]) = {u} /\ dirs'[tmp[u]] = dirs[tmp[u]]
  BY <1>2, <1>5, <1>6, <1>8, UploadTypes
<1>9. Videos!In(second)' = {a} => dirs'[second].there
  BY <1>2, <1>5, <1>6 DEF Videos!IInv, Videos!NoDirLeft, Videos!EmptyDir
<1>10. Videos!AloneFinds'
  <2> SUFFICES ASSUME NEW u \in uploads.Upload, Videos!In(tmp[u])' = {u}
               PROVE  /\ at'[u] \in {"dir", "body"} => dirs'[tmp'[u]].there
                      /\ at'[u] \in {"saved", "probed", "made", "imaged"} =>
                            dirs'[tmp'[u]].there /\ dirs'[tmp'[u]].file = u
                      /\ at'[u] = "imaged" => dirs'[tmp'[u]].image = u
    BY DEF Videos!AloneFinds
  <2>1. CASE u = a
    <3>1. Videos!In(second)' = {a}
      BY <1>1, <1>4, <2>1
    <3> QED
      BY <1>4, <1>9, <2>1, <3>1
  <2>2. CASE u # a
    BY <1>4, <1>8, <2>2 DEF Videos!IInv, Videos!AloneFinds
  <2> QED
    BY <2>1, <2>2
<1>11. Videos!NoDirLeft'
  <2> SUFFICES ASSUME NEW s \in Videos!Second, dirs'[s].there
               PROVE  \E u \in Videos!In(s)' :
                         \/ at'[u] \notin {"answered", "refused"}
                         \/ u \in unremoved'
    BY DEF Videos!NoDirLeft
  <2>1. CASE s = second
    BY <1>4, <1>5, <2>1
  <2>2. CASE s # second
    BY <1>1, <1>2, <1>4, <1>5, <1>6, <2>2, UploadTypes
       DEF Videos!IInv, Videos!NoDirLeft
  <2> QED
    BY <2>1, <2>2
<1>12. ASSUME NEW s \in Videos!Second, ~dirs'[s].there
       PROVE  dirs'[s] = Videos!NoDir
  <2>1. CASE s = second /\ dirs[second].there
    BY <1>6, <1>12, <2>1
  <2>2. CASE s = second /\ ~dirs[second].there
    BY <1>6, <1>12, <2>2 DEF Videos!EmptyDir
  <2>3. CASE s # second
    BY <1>6, <1>12, <2>3 DEF Videos!IInv
  <2> QED
    BY <2>1, <2>2, <2>3
<1> QED
  BY <1>3, <1>7, <1>10, <1>11, <1>12 DEF Videos!IInv, Videos!NoDir

\* Who has a directory to himself shares it with no upload that takes a step.
LEMMA AloneApart ==
    ASSUME Videos!UploadsAssumption, Videos!TypeOK, NEW a \in uploads.Upload,
           Videos!HasDir(a), NEW u \in uploads.Upload \ {a},
           Videos!In(tmp[u]) = {u}
    PROVE  tmp[u] # tmp[a]
BY UploadTypes

\* The steps that write into the directory.
LEMMA Writes ==
    ASSUME Videos!UploadsAssumption, Videos!IInv, NEW a \in uploads.Upload,
           Videos!SaveContent(a) \/ Videos!GenerateImage(a)
    PROVE  Videos!IInv'
<1> DEFINE dir == dirs[tmp[a]]
           image == published[named[a]]
<1>1. PICK to \in {"saved", "imaged"} :
         /\ at' = [at EXCEPT ![a] = to] /\ dir.there
         /\ to = "saved" => at[a] = "body"
         /\ to = "imaged" => at[a] = "made"
         /\ dirs' = [dirs EXCEPT ![tmp[a]] =
                        IF to = "saved" THEN [dir EXCEPT !.file = a]
                                        ELSE [dir EXCEPT !.image = image]]
         /\ UNCHANGED <<second, named, tmp, published, preview, unremoved>>
  BY DEF Videos!SaveContent, Videos!GenerateImage, Videos!Goes
<1>2. /\ Videos!TypeOK /\ Videos!HasDir(a)
      /\ tmp[a] \in Videos!Second /\ a \in Videos!In(tmp[a])
      /\ dir \in [there : BOOLEAN, file : Videos!Holder, image : Videos!Holder]
  BY <1>1, UploadTypes DEF Videos!IInv, Videos!TypeOK, Videos!HasDir
<1>3. to = "imaged" => image \in Videos!In(tmp[a])
  BY <1>1 DEF Videos!IInv, Videos!FromDirectory
<1>4. /\ dirs'[tmp[a]].there
      /\ to = "saved" =>
            dirs'[tmp[a]].file = a /\ dirs'[tmp[a]].image = dir.image
      /\ to = "imaged" =>
            dirs'[tmp[a]].file = dir.file /\ dirs'[tmp[a]].image = image
      /\ \A s \in Videos!Second \ {tmp[a]} : dirs'[s] = dirs[s]
  BY <1>1, <1>2 DEF Videos!TypeOK
<1>5. Videos!TypeOK'
  <2>1. a \in Videos!Holder /\ (to = "imaged" => image \in Videos!Holder)
    BY <1>2, <1>3, UploadTypes DEF Videos!Holder
  <2>2. dirs' \in [Videos!Second -> [there : BOOLEAN, file : Videos!Holder,
                                     image : Videos!Holder]]
    BY <1>1, <1>2, <2>1 DEF Videos!TypeOK
  <2> QED
    BY <1>1, <1>2, <2>2 DEF Videos!TypeOK, Videos!At
<1>6. \A s : Videos!In(s)' = Videos!In(s)
  BY <1>1, <1>2, InStays
<1>7. at'[a] = to /\ \A u \in uploads.Upload \ {a} : at'[u] = at[u]
  BY <1>1, <1>2 DEF Videos!TypeOK
<1> HIDE DEF dir, image
<1>8. Videos!FromDirectory'
  <2>1. \A s \in Videos!Second :
           /\ dirs'[s].file \in Videos!In(s) \union {None}
           /\ dirs'[s].image \in Videos!In(s) \union {None}
    BY <1>1, <1>2, <1>3, <1>4 DEF Videos!IInv, Videos!FromDirectory, dir
  <2> QED
    BY <1>1, <1>3, <1>6, <1>7, <2>1
       DEF Videos!IInv, Videos!FromDirectory, image
<1>9. Videos!AloneFinds'
  <2> SUFFICES ASSUME NEW u \in uploads.Upload, Videos!In(tmp[u]) = {u}
               PROVE  /\ at'[u] \in {"dir", "body"} => dirs'[tmp[u]].there
                      /\ at'[u] \in {"saved", "probed", "made", "imaged"} =>
                            dirs'[tmp[u]].there /\ dirs'[tmp[u]].file = u
                      /\ at'[u] = "imaged" => dirs'[tmp[u]].image = u
    BY <1>1, <1>6 DEF Videos!AloneFinds
  <2>1. CASE u = a
    BY <1>1, <1>3, <1>4, <1>7, <2>1 DEF Videos!IInv, Videos!AloneFinds, dir
  <2>2. CASE u # a
    <3>1. tmp[u] # tmp[a] /\ tmp[u] \in Videos!Second
      BY <1>2, <2>2, AloneApart, UploadTypes
    <3> QED
      BY <1>4, <1>7, <2>2, <3>1 DEF Videos!IInv, Videos!AloneFinds
  <2> QED
    BY <2>1, <2>2
<1>10. Videos!NoDirLeft'
  <2>1. \A s \in Videos!Second : dirs'[s].there => dirs[s].there
    BY <1>1, <1>4 DEF dir
  <2> QED
    BY <1>1, <1>2, <1>6, <1>7, <2>1, UploadTypes
       DEF Videos!IInv, Videos!NoDirLeft
<1> QED
  BY <1>4, <1>5, <1>8, <1>9, <1>10 DEF Videos!IInv, Videos!NoDir

\* The media are made, of the file that is in the directory.
LEMMA Publishes ==
    ASSUME Videos!UploadsAssumption, Videos!IInv, NEW a \in uploads.Upload,
           Videos!GenerateMedia(a)
    PROVE  Videos!IInv'
<1>1. /\ dirs[tmp[a]].file # None /\ published[named[a]] = None
      /\ at[a] = "probed" /\ at' = [at EXCEPT ![a] = "made"]
      /\ published' = [published EXCEPT ![named[a]] = dirs[tmp[a]].file]
      /\ UNCHANGED <<second, named, tmp, dirs, preview, unremoved>>
  BY DEF Videos!GenerateMedia, Videos!Goes
<1>2. /\ Videos!TypeOK /\ Videos!HasDir(a)
      /\ tmp[a] \in Videos!Second /\ named[a] \in Videos!Second
  BY <1>1, UploadTypes DEF Videos!IInv, Videos!HasDir
<1>3. dirs[tmp[a]].file \in Videos!In(tmp[a])
  BY <1>1, <1>2 DEF Videos!IInv, Videos!FromDirectory
<1>4. Videos!TypeOK'
  <2>1. dirs[tmp[a]].file \in Videos!Holder
    BY <1>2, <1>3, UploadTypes DEF Videos!Holder
  <2> QED
    BY <1>1, <1>2, <2>1 DEF Videos!TypeOK, Videos!At
<1>5. \A s : Videos!In(s)' = Videos!In(s)
  BY <1>1, <1>2, InStays
<1>6. /\ at'[a] = "made" /\ \A u \in uploads.Upload \ {a} : at'[u] = at[u]
      /\ published'[named[a]] = dirs[tmp[a]].file
      /\ \A s \in Videos!Second \ {named[a]} : published'[s] = published[s]
  BY <1>1, <1>2 DEF Videos!TypeOK
<1>7. Videos!FromDirectory'
  <2>1. ASSUME NEW u \in uploads.Upload \ {a},
               at[u] \in {"made", "imaged", "answered"}
        PROVE  published'[named[u]] \in Videos!In(tmp[u])
    <3>1. published[named[u]] \in Videos!In(tmp[u])
      BY <2>1 DEF Videos!IInv, Videos!FromDirectory
    <3>2. named[u] # named[a] /\ named[u] \in Videos!Second
      BY <1>1, <1>2, <3>1, UploadTypes DEF Videos!UploadsAssumption
    <3> QED
      BY <1>6, <3>1, <3>2
  <2> QED
    BY <1>1, <1>3, <1>5, <1>6, <2>1 DEF Videos!IInv, Videos!FromDirectory
<1>8. Videos!AloneFinds'
  BY <1>1, <1>5, <1>6 DEF Videos!IInv, Videos!AloneFinds
<1>9. Videos!NoDirLeft'
  BY <1>1, <1>2, <1>5, <1>6, UploadTypes DEF Videos!IInv, Videos!NoDirLeft
<1> QED
  BY <1>1, <1>4, <1>7, <1>8, <1>9 DEF Videos!IInv, Videos!NoDir

\* The upload ends, and its directory goes or stays with what is left in it.
LEMMA Ends ==
    ASSUME Videos!UploadsAssumption, Videos!IInv, NEW a \in uploads.Upload,
           Videos!Refuse(a) \/ Videos!Answer(a)
    PROVE  Videos!IInv'
<1> DEFINE dir == dirs[tmp[a]]
<1>1. PICK to \in {"refused", "answered"} :
         /\ at' = [at EXCEPT ![a] = to]
         /\ at[a] \in {"body", "saved", "probed", "made", "imaged"}
         /\ to = "refused" => preview' = preview
         /\ to = "answered" => /\ at[a] = "imaged" /\ dir.image # None
                               /\ preview' = [preview EXCEPT ![a] = dir.image]
         /\ UNCHANGED <<second, named, tmp, published>>
         /\ Videos!RemoveTempDir(a)
  BY DEF Videos!Refuse, Videos!Answer, Videos!Goes
<1>2. /\ Videos!TypeOK /\ Videos!HasDir(a)
      /\ tmp[a] \in Videos!Second /\ a \in Videos!In(tmp[a])
      /\ dir \in [there : BOOLEAN, file : Videos!Holder, image : Videos!Holder]
  BY <1>1, UploadTypes DEF Videos!IInv, Videos!TypeOK, Videos!HasDir
<1>3. PICK left : /\ dirs' = [dirs EXCEPT ![tmp[a]] = left]
                  /\ \/ left = Videos!NoDir /\ unremoved' = unremoved
                     \/ /\ unremoved' = unremoved \union {a}
                        /\ \E v \in {None, dir.file}, i \in {None, dir.image} :
                              left = [there |-> TRUE, file |-> v, image |-> i]
  BY <1>1 DEF Videos!RemoveTempDir
<1>4. /\ left \in [there : BOOLEAN, file : Videos!Holder,
                   image : Videos!Holder]
      /\ left.file \in {None, dir.file} /\ left.image \in {None, dir.image}
      /\ left.there => a \in unremoved'
      /\ ~left.there => left = Videos!NoDir
      /\ unremoved \subseteq unremoved'
      /\ unremoved' \subseteq unremoved \union {a}
  <2>1. CASE left = Videos!NoDir /\ unremoved' = unremoved
    BY <1>2, <2>1 DEF Videos!NoDir, Videos!Holder
  <2>2. ASSUME NEW v \in {None, dir.file}, NEW i \in {None, dir.image},
               left = [there |-> TRUE, file |-> v, image |-> i],
               unremoved' = unremoved \union {a}
        PROVE  /\ left \in [there : BOOLEAN, file : Videos!Holder,
                             image : Videos!Holder]
               /\ left.file \in {None, dir.file}
               /\ left.image \in {None, dir.image}
               /\ left.there /\ a \in unremoved'
    BY <1>2, <2>2 DEF Videos!Holder
  <2> QED
    BY <1>3, <2>1, <2>2
<1>5. Videos!TypeOK'
  BY <1>1, <1>2, <1>3, <1>4 DEF Videos!TypeOK, Videos!At
<1>6. \A s : Videos!In(s)' = Videos!In(s)
  BY <1>1, <1>2, InStays
<1>7. /\ at'[a] = to /\ \A u \in uploads.Upload \ {a} : at'[u] = at[u]
      /\ dirs'[tmp[a]] = left
      /\ \A s \in Videos!Second \ {tmp[a]} : dirs'[s] = dirs[s]
      /\ to = "answered" => preview'[a] = dir.image
      /\ \A u \in uploads.Upload \ {a} : preview'[u] = preview[u]
  BY <1>1, <1>2, <1>3 DEF Videos!TypeOK
<1>8. dir.file \in Videos!In(tmp[a]) \union {None}
      /\ dir.image \in Videos!In(tmp[a]) \union {None}
  BY <1>2 DEF Videos!IInv, Videos!FromDirectory
<1> HIDE DEF dir
<1>9. Videos!FromDirectory'
  <2>1. \A s \in Videos!Second :
           /\ dirs'[s].file \in Videos!In(s) \union {None}
           /\ dirs'[s].image \in Videos!In(s) \union {None}
    BY <1>4, <1>7, <1>8 DEF Videos!IInv, Videos!FromDirectory
  <2>2. \A u \in uploads.Upload :
           /\ at'[u] \in {"made", "imaged", "answered"} =>
                 published[named[u]] \in Videos!In(tmp[u])
           /\ at'[u] = "answered" => preview'[u] \in Videos!In(tmp[u])
    BY <1>1, <1>7, <1>8 DEF Videos!IInv, Videos!FromDirectory
  <2> QED
    BY <1>1, <1>6, <2>1, <2>2 DEF Videos!FromDirectory
<1>10. Videos!AloneFinds'
  <2> SUFFICES ASSUME NEW u \in uploads.Upload, Videos!In(tmp[u]) = {u}
               PROVE  /\ at'[u] \in {"dir", "body"} => dirs'[tmp[u]].there
                      /\ at'[u] \in {"saved", "probed", "made", "imaged"} =>
                            dirs'[tmp[u]].there /\ dirs'[tmp[u]].file = u
                      /\ at'[u] = "imaged" => dirs'[tmp[u]].image = u
    BY <1>1, <1>6 DEF Videos!AloneFinds
  <2>1. CASE u = a
    BY <1>1, <1>7, <2>1
  <2>2. CASE u # a
    <3>1. tmp[u] # tmp[a] /\ tmp[u] \in Videos!Second
      BY <1>2, <2>2, AloneApart, UploadTypes
    <3> QED
      BY <1>7, <2>2, <3>1 DEF Videos!IInv, Videos!AloneFinds
  <2> QED
    BY <2>1, <2>2
<1>11. Videos!NoDirLeft'
  <2> SUFFICES ASSUME NEW s \in Videos!Second, dirs'[s].there
               PROVE  \E u \in Videos!In(s) :
                         \/ at'[u] \notin {"answered", "refused"}
                         \/ u \in unremoved'
    BY <1>6 DEF Videos!NoDirLeft
  <2>1. CASE s = tmp[a]
    BY <1>2, <1>4, <1>7, <2>1
  <2>2. CASE s # tmp[a]
    <3>1. PICK u \in Videos!In(s) : \/ at[u] \notin {"answered", "refused"}
                                    \/ u \in unremoved
      BY <1>7, <2>2 DEF Videos!IInv, Videos!NoDirLeft
    <3>2. u \in uploads.Upload \ {a}
      BY <1>2, <2>2, <3>1, UploadTypes
    <3> QED
      BY <1>4, <1>7, <3>1, <3>2
  <2> QED
    BY <2>1, <2>2
<1> QED
  BY <1>4, <1>5, <1>7, <1>9, <1>10, <1>11 DEF Videos!IInv

-----------------------------------------------------------------------------
\* Every step of an upload keeps it.
LEMMA UploadsStep ==
    ASSUME Videos!UploadsAssumption, Videos!IInv, [Videos!Next]_videosVars
    PROVE  Videos!IInv'
<1>1. CASE Videos!Tick \/ UNCHANGED videosVars
  <2>1. UNCHANGED <<at, named, tmp, dirs, published, preview, unremoved>>
    BY <1>1 DEF Videos!Tick, videosVars
  <2>2. second' \in Videos!Second
    BY <1>1 DEF Videos!Tick, videosVars, Videos!IInv, Videos!TypeOK,
                Videos!Second, Videos!UploadsAssumption
  <2>3. \A s : Videos!In(s)' = Videos!In(s)
    BY <2>1 DEF Videos!In, Videos!HasDir
  <2>4. Videos!TypeOK'
    BY <2>1, <2>2 DEF Videos!IInv, Videos!TypeOK
  <2>5. Videos!FromDirectory' /\ Videos!AloneFinds' /\ Videos!NoDirLeft'
    BY <2>1, <2>3 DEF Videos!IInv, Videos!FromDirectory, Videos!AloneFinds,
                      Videos!NoDirLeft
  <2> QED
    BY <2>1, <2>4, <2>5 DEF Videos!IInv, Videos!NoDir
<1>2. ASSUME NEW a \in uploads.Upload,
             \/ Videos!HandleVideoUpload(a) \/ Videos!CreateDirAll(a)
             \/ Videos!CreateDirFails(a)
             \/ Videos!CollectBody(a) \/ Videos!BodyBreaksOff(a)
             \/ Videos!ClientGoes(a) \/ Videos!Refuse(a)
             \/ Videos!SaveContent(a) \/ Videos!GetVideoDuration(a)
             \/ Videos!GenerateMedia(a)
             \/ Videos!GenerateImage(a) \/ Videos!Answer(a)
      PROVE  Videos!IInv'
  BY <1>2, MovesOn, MakesDir, Writes, Publishes, Ends
<1> QED
  BY <1>1, <1>2 DEF Videos!Next

\* The invariant gives what OwnMedia promises.
LEMMA UploadsParts ==
    ASSUME Videos!IInv
    PROVE  Videos!OwnMedia
BY DEF Videos!IInv, Videos!FromDirectory, Videos!OwnMedia,
       Videos!OwnMediaOrSharedDir

-----------------------------------------------------------------------------
\* Previous versions.

\* Ticks of a second, and the second of a tick.
Per == proposals.PerSecond
Second(t) == t \div Per

\* The second stamped on a tick is one of those it is between.
LEMMA Stamp ==
    ASSUME Previous!PreviousVersionAssumption, NEW t \in Nat, NEW u \in Nat
    PROVE  /\ Second(t) \in Nat /\ Previous!Ceiling(t) \in Nat
           /\ Second(t) <= Previous!Ceiling(t)
           /\ Previous!Ceiling(t) <= Second(t) + 1
           /\ t <= u => /\ Second(t) <= Second(u)
                        /\ Previous!Ceiling(t) <= Previous!Ceiling(u)
           /\ t + Per <= u =>
                 /\ Second(t) + 1 <= Second(u)
                 /\ Previous!Ceiling(t) + 1 <= Previous!Ceiling(u)
<1>1. Per \in Nat \ {0}
  BY DEF Per, Previous!PreviousVersionAssumption
<1>2. \A v \in Nat : Previous!Ceiling(v) = Second(v + Per - 1)
  BY DEF Previous!Ceiling, Second, Per
<1> HIDE DEF Per
<1>3. ASSUME NEW v \in Nat, NEW w \in Nat
      PROVE  /\ Second(v) \in Nat
             /\ v <= w => Second(v) <= Second(w)
             /\ Second(v + Per) = Second(v) + 1
  BY <1>1, Quotient, QuotientMonotone, QuotientShift DEF Second
<1>4. /\ t + Per - 1 \in Nat /\ u + Per - 1 \in Nat /\ t + Per \in Nat
      /\ t <= t + Per - 1 /\ t + Per - 1 <= t + Per
      /\ t <= u => t + Per - 1 <= u + Per - 1
      /\ t + Per <= u => (t + Per - 1) + Per <= u + Per - 1
      /\ (t + Per - 1) + Per \in Nat
  BY <1>1
<1>5. Second(t) \in Nat /\ Second(t + Per - 1) \in Nat
      /\ Second(u) \in Nat /\ Second(u + Per - 1) \in Nat
  BY <1>3, <1>4
<1>6. /\ Second(t) <= Second(t + Per - 1)
      /\ Second(t + Per - 1) <= Second(t) + 1
  <2>1. Second(t + Per - 1) <= Second(t + Per)
    BY <1>3, <1>4
  <2> QED
    BY <1>3, <1>4, <2>1
<1>7. ASSUME t <= u
      PROVE  /\ Second(t) <= Second(u)
             /\ Second(t + Per - 1) <= Second(u + Per - 1)
  BY <1>3, <1>4, <1>7
<1>8. ASSUME t + Per <= u
      PROVE  /\ Second(t) + 1 <= Second(u)
             /\ Second(t + Per - 1) + 1 <= Second(u + Per - 1)
  <2>1. Second(t + Per) <= Second(u)
    BY <1>3, <1>4, <1>8
  <2>2. Second((t + Per - 1) + Per) <= Second(u + Per - 1)
    BY <1>3, <1>4, <1>8
  <2>3. /\ Second(t + Per) = Second(t) + 1
        /\ Second((t + Per - 1) + Per) = Second(t + Per - 1) + 1
    BY <1>3, <1>4
  <2> QED
    BY <2>1, <2>2, <2>3
<1> QED
  BY <1>2, <1>5, <1>6, <1>7, <1>8

\* Closings are in the order of their ticks, and proposals have their times.
GoodClosings ==
    /\ ticks \in Nat
    /\ status \in [proposals.Proposal -> {"pending", "approved", "rejected"}]
    /\ closed \in [proposals.Proposal -> Nat]
    /\ indexed \subseteq proposals.Proposal
    /\ \A p \in indexed : status[p] = "approved"
    /\ closings \in Seq([of : proposals.Proposal, tick : Nat])
    /\ \A p \in proposals.Proposal : status[p] # "pending" =>
          \E i \in DOMAIN closings : closings[i].of = p
    /\ \A i \in DOMAIN closings :
          /\ status[closings[i].of] # "pending"
          /\ closings[i].tick <= ticks
          /\ closed[closings[i].of] = Previous!Ceiling(closings[i].tick)
    /\ \A i, j \in DOMAIN closings :
          i < j => closings[i].tick <= closings[j].tick

\* What the invariant says of one closing.
LEMMA ClosingParts ==
    ASSUME GoodClosings, NEW i \in DOMAIN closings
    PROVE  /\ closings[i].of \in proposals.Proposal
           /\ closings[i].tick \in Nat
           /\ i \in Nat \ {0} /\ i <= Len(closings) /\ Len(closings) \in Nat
           /\ status[closings[i].of] # "pending"
           /\ closings[i].tick <= ticks
           /\ closed[closings[i].of] = Previous!Ceiling(closings[i].tick)
<1> DEFINE C == [of : proposals.Proposal, tick : Nat]
<1>1. closings \in Seq(C)
  BY DEF GoodClosings
<1>2. /\ Len(closings) \in Nat /\ DOMAIN closings = 1 .. Len(closings)
  BY <1>1, LenProperties
<1>3. closings[i] \in C
  BY <1>1, <1>2, ElementOfSeq
<1> HIDE DEF C
<1>4. closings[i].of \in proposals.Proposal /\ closings[i].tick \in Nat
  BY <1>3 DEF C
<1> QED
  BY SMTT(60), <1>2, <1>4 DEF GoodClosings

\* What is read of a proposal is from between two closings.
GoodRead ==
    /\ request.before \in Nat /\ request.before <= Len(closings)
    /\ request.tick \in Nat /\ request.tick <= ticks
    /\ \A i \in DOMAIN closings :
          /\ i <= request.before => closings[i].tick <= request.tick
          /\ i > request.before => closings[i].tick >= request.tick
    /\ request.pending => request.time = Second(request.tick)
    /\ ~request.pending => request.time = Previous!Ceiling(request.tick)

\* The approved ones that the query found, of those the index knew.
Found == {q \in request.known : closed[q] < request.time}

\* What is answered is the last of them, if there is one.
GoodAnswer ==
    /\ request.known \subseteq indexed
    /\ IF Found = {} THEN request.previous = None
       ELSE /\ request.previous \in Found
            /\ \A r \in Found : Previous!Precedes(request.previous, r)

\* The invariant of reading a proposal with the version before it.
GoodPrevious ==
    /\ GoodClosings
    /\ DOMAIN request = DOMAIN Previous!Idle
    /\ request.at \in {"idle", "read", "answered"}
    /\ request.at # "idle" => GoodRead
    /\ request.at = "answered" => GoodAnswer

\* Nothing is closed at the start.
LEMMA PreviousInit ==
    ASSUME Previous!PreviousVersionAssumption, Previous!Init
    PROVE  GoodPrevious
<1>1. request.at = "idle" /\ closings = <<>> /\ DOMAIN closings = {}
  BY DEF Previous!Init, Previous!Idle
<1> QED
  BY <1>1 DEF Previous!Init, GoodPrevious, GoodClosings

\* The seconds of proposals that are closed after the one that was read are
\* not before its own.
LEMMA TimeIsEarly ==
    ASSUME Previous!PreviousVersionAssumption, GoodRead,
           NEW t \in Nat, request.tick <= t
    PROVE  request.time \in Nat /\ request.time <= Previous!Ceiling(t)
<1>1. request.tick \in Nat
  BY DEF GoodRead
<1>2. /\ Second(request.tick) \in Nat /\ Previous!Ceiling(request.tick) \in Nat
      /\ Second(request.tick) <= Previous!Ceiling(request.tick)
      /\ Previous!Ceiling(request.tick) <= Previous!Ceiling(t)
      /\ Previous!Ceiling(t) \in Nat
  BY <1>1, Stamp
<1> QED
  BY <1>2 DEF GoodRead

\* A proposal is closed.
LEMMA CloseKeeps ==
    ASSUME Previous!PreviousVersionAssumption, GoodPrevious,
           NEW p \in proposals.Proposal, NEW to \in {"approved", "rejected"},
           Previous!Close(p, to)
    PROVE  GoodPrevious'
<1> DEFINE n == Len(closings)
           new == [of |-> p, tick |-> ticks]
<1>1. /\ status[p] = "pending"
      /\ status' = [status EXCEPT ![p] = to]
      /\ closed' = [closed EXCEPT ![p] = Previous!Ceiling(ticks)]
      /\ closings' = Append(closings, new)
      /\ UNCHANGED <<ticks, indexed, request>>
  BY DEF Previous!Close
<1>2. GoodClosings
  BY DEF GoodPrevious
<1>3. Previous!Ceiling(ticks) \in Nat
  BY <1>2, Stamp DEF GoodClosings
<1>4. /\ closings' \in Seq([of : proposals.Proposal, tick : Nat])
      /\ n \in Nat /\ Len(closings') = n + 1
      /\ DOMAIN closings' = DOMAIN closings \union {n + 1}
      /\ DOMAIN closings = 1 .. n
      /\ closings'[n + 1] = new
      /\ \A i \in DOMAIN closings : closings'[i] = closings[i]
  BY <1>1, <1>2 DEF GoodClosings
<1>5. \A i \in DOMAIN closings : /\ closings[i].of # p
                                 /\ closings[i].of \in proposals.Proposal
                                 /\ closings[i].tick \in Nat
  BY <1>1, <1>2, ClosingParts
<1>6. /\ new.of = p /\ new.tick = ticks
  OBVIOUS
<1> HIDE DEF n, new
<1>7. GoodClosings'
  <2>1. /\ ticks' \in Nat
        /\ status' \in
              [proposals.Proposal -> {"pending", "approved", "rejected"}]
        /\ closed' \in [proposals.Proposal -> Nat]
        /\ indexed' \subseteq proposals.Proposal
        /\ \A q \in indexed' : status'[q] = "approved"
    BY <1>1, <1>2, <1>3 DEF GoodClosings
  <2>2. \A q \in proposals.Proposal : status'[q] # "pending" =>
           \E i \in DOMAIN closings' : closings'[i].of = q
    <3>1. \A q \in proposals.Proposal : q # p => status'[q] = status[q]
      BY <1>1, <1>2 DEF GoodClosings
    <3>2. ASSUME NEW q \in proposals.Proposal, q # p, status'[q] # "pending"
          PROVE  \E i \in DOMAIN closings' : closings'[i].of = q
      <4>1. PICK i \in DOMAIN closings : closings[i].of = q
        BY <1>2, <3>1, <3>2 DEF GoodClosings
      <4> QED
        BY <1>4, <4>1
    <3>3. closings'[n + 1].of = p /\ n + 1 \in DOMAIN closings'
      BY <1>4, <1>6
    <3> QED
      BY <3>2, <3>3
  <2>3. \A i \in DOMAIN closings' :
          /\ status'[closings'[i].of] # "pending"
          /\ closings'[i].tick <= ticks'
          /\ closed'[closings'[i].of] = Previous!Ceiling(closings'[i].tick)
    <3>1. /\ status'[p] = to /\ closed'[p] = Previous!Ceiling(ticks)
          /\ \A q \in proposals.Proposal : q # p =>
                status'[q] = status[q] /\ closed'[q] = closed[q]
      BY <1>1, <1>2 DEF GoodClosings
    <3>2. ticks <= ticks' /\ ticks' = ticks
      BY <1>1, <1>2 DEF GoodClosings
    <3>3. ASSUME NEW i \in DOMAIN closings
          PROVE  /\ closings'[i] = closings[i]
                 /\ status'[closings[i].of] # "pending"
                 /\ closings[i].tick <= ticks'
                 /\ closed'[closings[i].of] =
                       Previous!Ceiling(closings[i].tick)
      BY <1>2, <1>4, <1>5, <3>1, <3>2 DEF GoodClosings
    <3>4. to # "pending"
      OBVIOUS
    <3> QED
      BY <1>4, <1>6, <3>1, <3>2, <3>3, <3>4
  <2>4. \A i, j \in DOMAIN closings' :
          i < j => closings'[i].tick <= closings'[j].tick
    <3>1. \A i \in DOMAIN closings : i \in Nat /\ i <= n
      BY <1>4
    <3>2. \A i \in DOMAIN closings : closings[i].tick <= ticks
      BY <1>2 DEF GoodClosings
    <3>3. \A i, j \in DOMAIN closings :
             i < j => closings[i].tick <= closings[j].tick
      BY <1>2 DEF GoodClosings
    <3>4. ticks <= ticks
      BY <1>2 DEF GoodClosings
    <3> QED
      BY <1>4, <1>6, <3>1, <3>2, <3>3, <3>4
  <2> QED
    BY <1>4, <2>1, <2>2, <2>3, <2>4 DEF GoodClosings
<1>8. CASE request.at = "idle"
  BY <1>1, <1>7, <1>8 DEF GoodPrevious
<1>9. CASE request.at # "idle"
  <2>1. GoodRead
    BY <1>9 DEF GoodPrevious
  <2>2. GoodRead'
    <3>1. request.before < n + 1 /\ request.before <= n + 1
      BY <1>4, <2>1 DEF GoodRead, n
    <3>2. ticks >= request.tick
      BY <1>2, <2>1 DEF GoodRead, GoodClosings
    <3>3. \A i \in DOMAIN closings' :
             /\ i <= request.before => closings'[i].tick <= request.tick
             /\ i > request.before => closings'[i].tick >= request.tick
      BY <1>4, <1>6, <2>1, <3>1, <3>2 DEF GoodRead
    <3> QED
      BY <1>1, <1>4, <2>1, <3>1, <3>3
         DEF GoodRead, Second, Per, Previous!Ceiling
  <2>4. /\ closed'[p] = Previous!Ceiling(ticks)
        /\ \A q \in proposals.Proposal : q # p =>
              status'[q] = status[q] /\ closed'[q] = closed[q]
    BY <1>1, <1>2 DEF GoodClosings
  <2>7. request.at = "answered" => GoodAnswer'
    <3> SUFFICES ASSUME request.at = "answered" PROVE GoodAnswer'
      OBVIOUS
    <3>1. GoodAnswer
      BY DEF GoodPrevious
    <3>2. \A q \in request.known : q # p /\ closed'[q] = closed[q]
      BY <1>1, <1>2, <2>4, <3>1 DEF GoodAnswer, GoodClosings
    <3>3. Found' = Found
      BY <1>1, <3>2 DEF Found
    <3>4. \A q, r \in Found :
             Previous!Precedes(q, r)' <=> Previous!Precedes(q, r)
      BY <3>2 DEF Found, Previous!Precedes
    <3> QED
      BY <1>1, <3>1, <3>3, <3>4 DEF GoodAnswer
  <2> QED
    BY <1>1, <1>7, <2>2, <2>7 DEF GoodPrevious
<1> QED
  BY <1>8, <1>9

\* Closing a proposal, reading it and looking for its previous version keep the
\* invariant.
LEMMA PreviousStep ==
    ASSUME Previous!PreviousVersionAssumption, GoodPrevious,
           [Previous!Next]_previousVars
    PROVE  GoodPrevious'
<1>1. GoodClosings
  BY DEF GoodPrevious
<1>2. CASE Previous!Tick
  <2>1. /\ UNCHANGED <<status, closed, indexed, closings, request>>
        /\ ticks' = ticks + 1
    BY <1>2 DEF Previous!Tick
  <2>2. ticks' \in Nat /\ \A t \in Nat : t <= ticks => t <= ticks'
    BY <1>1, <2>1 DEF GoodClosings
  <2>3. \A i \in DOMAIN closings : closings[i].tick \in Nat
    BY <1>1, ClosingParts
  <2>4. GoodClosings'
    <3>1. \A i \in DOMAIN closings : closings[i].tick <= ticks'
      BY <1>1, <2>2, <2>3 DEF GoodClosings
    <3> QED
      BY <1>1, <2>1, <2>2, <3>1 DEF GoodClosings, Previous!Ceiling
  <2>5. GoodRead => GoodRead'
    BY <2>1, <2>2 DEF GoodRead, Previous!Ceiling
  <2>6. GoodAnswer => GoodAnswer'
    BY <2>1 DEF GoodAnswer, Found, Previous!Precedes
  <2> QED
    BY <2>1, <2>4, <2>5, <2>6 DEF GoodPrevious
<1>3. ASSUME NEW p \in proposals.Proposal,
             Previous!Close(p, "approved") \/ Previous!Close(p, "rejected")
      PROVE  GoodPrevious'
  BY <1>3, CloseKeeps
<1>4. ASSUME NEW p \in proposals.Proposal, Previous!GetProposal(p)
      PROVE  GoodPrevious'
  <2>1. UNCHANGED <<ticks, status, closed, indexed, closings>>
    BY <1>4 DEF Previous!GetProposal
  <2>2. GoodClosings'
    BY <1>1, <2>1 DEF GoodClosings, Previous!Ceiling
  <2>3. /\ Len(closings) \in Nat /\ DOMAIN closings = 1 .. Len(closings)
        /\ ticks \in Nat
    BY <1>1 DEF GoodClosings
  <2>4. CASE /\ status[p] = "pending"
             /\ request' = [at |-> "read", proposal |-> p, previous |-> None,
                            time |-> ticks \div proposals.PerSecond,
                            pending |-> TRUE, tick |-> ticks,
                            before |-> Len(closings), known |-> {}]
    <3>1. \A i \in DOMAIN closings :
             /\ i <= Len(closings) => closings[i].tick <= ticks
             /\ ~(i > Len(closings))
      BY <1>1, <2>3 DEF GoodClosings
    <3>2. ticks <= ticks /\ Len(closings) <= Len(closings)
      BY <2>3
    <3>3. GoodRead'
      BY <2>1, <2>3, <2>4, <3>1, <3>2 DEF GoodRead, Second, Per
    <3> QED
      BY <2>2, <2>4, <3>3 DEF GoodPrevious, Previous!Idle
  <2>5. ASSUME NEW i \in DOMAIN closings, closings[i].of = p,
               request' = [at |-> "read", proposal |-> p, previous |-> None,
                           time |-> closed[p], pending |-> FALSE,
                           tick |-> closings[i].tick, before |-> i - 1,
                           known |-> {}]
        PROVE  GoodPrevious'
    <3>1. /\ i - 1 \in Nat /\ i - 1 <= Len(closings)
          /\ closings[i].tick \in Nat /\ closings[i].tick <= ticks
          /\ closed[p] = Previous!Ceiling(closings[i].tick)
      BY <1>1, <2>3, <2>5, ClosingParts
    <3>2. ASSUME NEW j \in DOMAIN closings
          PROVE  /\ j <= i - 1 => closings[j].tick <= closings[i].tick
                 /\ j > i - 1 => closings[j].tick >= closings[i].tick
      <4>1. j \in Int /\ i \in Int /\ closings[j].tick \in Nat
        BY <1>1, <2>5, ClosingParts
      <4>2. /\ j < i => closings[j].tick <= closings[i].tick
            /\ i < j => closings[i].tick <= closings[j].tick
        BY <1>1 DEF GoodClosings
      <4> QED
        BY <3>1, <4>1, <4>2
    <3>3. GoodRead'
      BY <2>1, <2>5, <3>1, <3>2 DEF GoodRead, Previous!Ceiling
    <3> QED
      BY <2>2, <2>5, <3>3 DEF GoodPrevious, Previous!Idle
  <2> QED
    BY <1>4, <2>4, <2>5 DEF Previous!GetProposal
<1>5. CASE Previous!GetLastApproved
  <2>1. /\ UNCHANGED <<ticks, status, closed, indexed, closings>>
        /\ request.at = "read"
    BY <1>5 DEF Previous!GetLastApproved
  <2>2. PICK q \in proposals.Proposal \union {None} :
           /\ IF Previous!Earlier(request.time) = {} THEN q = None
              ELSE /\ q \in Previous!Earlier(request.time)
                   /\ \A r \in Previous!Earlier(request.time) :
                         Previous!Precedes(q, r)
           /\ request' = [request EXCEPT !.at = "answered", !.previous = q,
                                         !.known = indexed]
    BY <1>5 DEF Previous!GetLastApproved
  <2>3. /\ request'.before = request.before /\ request'.tick = request.tick
        /\ request'.time = request.time /\ request'.pending = request.pending
        /\ request'.at = "answered" /\ DOMAIN request' = DOMAIN request
    BY <2>1, <2>2
  <2>4. GoodClosings'
    BY <1>1, <2>1 DEF GoodClosings, Previous!Ceiling
  <2>5. GoodRead'
    BY <2>1, <2>3 DEF GoodPrevious, GoodRead, Previous!Ceiling
  <2>6. GoodAnswer'
    <3>1. "known" \in DOMAIN request /\ "previous" \in DOMAIN request
      BY DEF GoodPrevious, Previous!Idle
    <3>2. request'.known = indexed /\ request'.previous = q
      BY <2>2, <3>1
    <3>3. Found' = Previous!Earlier(request.time)
      BY <2>1, <2>3, <3>2 DEF Found, Previous!Earlier
    <3> QED
      BY <2>1, <2>2, <3>2, <3>3 DEF GoodAnswer, Previous!Precedes
  <2> QED
    BY <2>3, <2>4, <2>5, <2>6 DEF GoodPrevious, Previous!Idle
<1>6. CASE Previous!NextRequest
  <2>1. GoodClosings'
    BY <1>1, <1>6 DEF Previous!NextRequest, GoodClosings, Previous!Ceiling
  <2> QED
    BY <1>6, <2>1 DEF Previous!NextRequest, Previous!Idle, GoodPrevious
<1>7. CASE UNCHANGED previousVars
  BY <1>7 DEF previousVars, GoodPrevious, GoodClosings, GoodRead, GoodAnswer,
              Previous!Ceiling, Found, Previous!Precedes
<1>8. ASSUME NEW p \in proposals.Proposal, Previous!Index(p)
      PROVE  GoodPrevious'
  <2>1. /\ UNCHANGED <<ticks, status, closed, closings, request>>
        /\ status[p] = "approved" /\ indexed' = indexed \union {p}
    BY <1>8 DEF Previous!Index
  <2>2. GoodClosings'
    BY <1>1, <2>1 DEF GoodClosings, Previous!Ceiling
  <2>3. GoodRead => GoodRead'
    BY <2>1 DEF GoodRead, Previous!Ceiling
  <2>4. GoodAnswer => GoodAnswer'
    BY <2>1 DEF GoodAnswer, Found, Previous!Precedes
  <2> QED
    BY <2>1, <2>2, <2>3, <2>4 DEF GoodPrevious
<1> QED
  BY <1>2, <1>3, <1>4, <1>5, <1>6, <1>7, <1>8 DEF Previous!Next

\* A proposal that the query finds was closed before.
LEMMA FoundBefore ==
    ASSUME Previous!PreviousVersionAssumption, GoodPrevious, GoodRead,
           GoodAnswer, NEW q \in Found
    PROVE  \E i \in Previous!Approvals : /\ i \in DOMAIN closings
                                         /\ closings[i].of = q
                                         /\ closed[q] =
                                            Previous!Ceiling(closings[i].tick)
<1>1. PICK i \in DOMAIN closings : closings[i].of = q
  <2>1. q \in proposals.Proposal /\ status[q] = "approved"
    BY DEF GoodPrevious, GoodClosings, GoodAnswer, Found
  <2> QED
    BY <2>1 DEF GoodPrevious, GoodClosings
<1>2. /\ closed[q] = Previous!Ceiling(closings[i].tick)
      /\ closings[i].tick \in Nat /\ i \in Nat \ {0}
  BY <1>1, ClosingParts DEF GoodPrevious
<1>3. closed[q] < request.time /\ status[q] = "approved"
      /\ closed[q] \in Nat
  BY DEF GoodPrevious, GoodClosings, GoodAnswer, Found
<1>4. i <= request.before
  <2> SUFFICES ASSUME i > request.before PROVE FALSE
    BY <1>2 DEF GoodRead
  <2>1. request.tick <= closings[i].tick
    BY <1>1, <1>2 DEF GoodRead
  <2>2. /\ request.time \in Nat
        /\ request.time <= Previous!Ceiling(closings[i].tick)
    BY <1>2, <2>1, TimeIsEarly
  <2> QED
    BY <1>2, <1>3, <2>2
<1> QED
  BY <1>1, <1>2, <1>3, <1>4 DEF Previous!Approvals, GoodRead

\* The previous version was approved before, and of the approvals the index
\* knew no other came a second or more after it.
LEMMA PreviousRight ==
    ASSUME Previous!PreviousVersionAssumption, GoodPrevious
    PROVE  Previous!PreviousIsEarlier /\ Previous!PreviousToTheSecond
<1>1. ASSUME request.at = "answered", request.previous # None
      PROVE  \E i \in Previous!Approvals : closings[i].of = request.previous
  <2>1. GoodRead /\ GoodAnswer /\ request.previous \in Found
    BY <1>1 DEF GoodPrevious, GoodAnswer
  <2> QED
    BY <2>1, FoundBefore
<1>2. ASSUME request.at = "answered", NEW k \in Previous!Approvals,
             closings[k].of \in request.known,
             closings[k].tick + (IF request.pending THEN Per + Per ELSE Per)
                <= request.tick
      PROVE  \E i \in Previous!Approvals :
                /\ closings[i].of = request.previous
                /\ closings[k].tick < closings[i].tick + Per
  <2> DEFINE tick == closings[k].tick
  <2>1. GoodClosings /\ GoodRead /\ GoodAnswer
    BY <1>2 DEF GoodPrevious
  <2>2. k \in DOMAIN closings
    BY <2>1 DEF Previous!Approvals, GoodRead, GoodClosings
  <2>3. /\ tick \in Nat /\ request.tick \in Nat /\ Per \in Nat
        /\ closed[closings[k].of] = Previous!Ceiling(tick)
    BY <2>1, <2>2, ClosingParts
       DEF GoodRead, Per, Previous!PreviousVersionAssumption
  <2>4. /\ request.pending => tick + Per + Per <= request.tick
        /\ tick + Per <= request.tick
    BY <1>2, <2>3
  <2> HIDE DEF tick
  <2>5. Previous!Ceiling(tick) < request.time
    <3>1. /\ Second(tick) \in Nat /\ Previous!Ceiling(tick) \in Nat
          /\ Previous!Ceiling(tick) <= Second(tick) + 1
          /\ Previous!Ceiling(tick) + 1 <= Previous!Ceiling(request.tick)
          /\ Previous!Ceiling(request.tick) \in Nat
      BY <2>3, <2>4, Stamp
    <3>2. CASE ~request.pending
      BY <2>1, <3>1, <3>2 DEF GoodRead
    <3>3. CASE request.pending
      <4>1. tick + Per \in Nat /\ tick + Per <= tick + Per
        BY <2>3
      <4>2. Second(tick) + 1 <= Second(tick + Per)
        BY <2>3, <4>1, Stamp
      <4>3. Second(tick + Per) + 1 <= Second(request.tick)
        BY <2>3, <2>4, <3>3, <4>1, Stamp
      <4>4. Second(tick + Per) \in Nat /\ Second(request.tick) \in Nat
        BY <2>3, <4>1, Stamp
      <4> QED
        BY <2>1, <3>1, <3>3, <4>2, <4>3, <4>4 DEF GoodRead
    <3> QED
      BY <3>2, <3>3
  <2>6. closings[k].of \in Found
    BY <1>2, <2>3, <2>5 DEF Found
  <2>7. /\ request.previous \in Found
        /\ closed[request.previous] >= Previous!Ceiling(tick)
    BY <2>1, <2>3, <2>6 DEF GoodAnswer, Previous!Precedes
  <2>8. PICK i \in Previous!Approvals :
           /\ i \in DOMAIN closings /\ closings[i].of = request.previous
           /\ closed[request.previous] = Previous!Ceiling(closings[i].tick)
    BY <2>1, <2>7, FoundBefore
  <2>9. closings[i].tick \in Nat
    BY <2>1, <2>8, ClosingParts
  <2>10. ASSUME closings[i].tick + Per <= tick
         PROVE  FALSE
    <3>1. /\ Previous!Ceiling(closings[i].tick) + 1 <= Previous!Ceiling(tick)
          /\ Previous!Ceiling(closings[i].tick) \in Nat
          /\ Previous!Ceiling(tick) \in Nat
      BY <2>3, <2>9, <2>10, Stamp
    <3> QED
      BY <2>7, <2>8, <3>1
  <2> QED
    BY <2>3, <2>8, <2>9, <2>10 DEF tick
<1>3. Previous!PreviousIsEarlier
  BY <1>1 DEF Previous!PreviousIsEarlier
<1>4. Previous!PreviousToTheSecond
  BY <1>2 DEF Previous!PreviousToTheSecond, Per
<1> QED
  BY <1>3, <1>4

-----------------------------------------------------------------------------
\* Targets of proposals.

\* The characters of two bytes among the first n of a string.
Twos(s, n) == {i \in 1 .. n : s[i] = "e2"}

\* The handler's module counts as the theorems on finite sets do.
LEMMA CountedAlike == \A S : Targets!Cardinality(S) = Cardinality(S)
BY Zenon DEF Targets!Cardinality, Cardinality

\* Among the first n characters there are finitely many of two bytes, and one
\* more where the next character is such a one.
LEMMA BytesOfNext ==
    ASSUME NEW s, NEW n \in Nat
    PROVE  /\ Targets!Bytes(s, n) \in Nat
           /\ s[n + 1] # "e2" =>
                 Targets!Bytes(s, n + 1) = Targets!Bytes(s, n) + 1
<1>1. IsFiniteSet(Twos(s, n)) /\ Cardinality(Twos(s, n)) \in Nat
  <2>1. IsFiniteSet(1 .. n)
    BY FS_Interval
  <2>2. IsFiniteSet(Twos(s, n))
    BY <2>1, FS_Subset DEF Twos
  <2> QED
    BY <2>2, FS_CardinalityType
<1>2. s[n + 1] # "e2" => Twos(s, n + 1) = Twos(s, n)
  BY DEF Twos
<1>3. /\ Targets!Bytes(s, n) = n + Cardinality(Twos(s, n))
      /\ Targets!Bytes(s, n + 1) = (n + 1) + Cardinality(Twos(s, n + 1))
  BY CountedAlike DEF Targets!Bytes, Twos
<1> QED
  BY <1>1, <1>2, <1>3

\* More characters are more bytes, by at least as many.
LEMMA BytesGrow ==
    ASSUME NEW s, NEW n \in Nat, NEW m \in Nat, n <= m
    PROVE  Targets!Bytes(s, n) + (m - n) <= Targets!Bytes(s, m)
<1>1. IsFiniteSet(Twos(s, m))
  <2>1. IsFiniteSet(1 .. m)
    BY FS_Interval
  <2> QED
    BY <2>1, FS_Subset DEF Twos
<1>2. Twos(s, n) \subseteq Twos(s, m)
  BY DEF Twos
<1>3. IsFiniteSet(Twos(s, n))
      /\ Cardinality(Twos(s, n)) <= Cardinality(Twos(s, m))
  BY <1>1, <1>2, FS_Subset
<1>4. Cardinality(Twos(s, n)) \in Nat /\ Cardinality(Twos(s, m)) \in Nat
  BY <1>1, <1>3, FS_CardinalityType
<1>5. /\ Targets!Bytes(s, n) = n + Cardinality(Twos(s, n))
      /\ Targets!Bytes(s, m) = m + Cardinality(Twos(s, m))
  BY CountedAlike DEF Targets!Bytes, Twos
<1> QED
  BY <1>3, <1>4, <1>5

\* Parent and target are strings, and the answer is the verdict on them.
GoodTarget ==
    /\ parent \in Seq(Targets!Char) /\ target \in Seq(Targets!Char)
    /\ verdict \in {"none", Targets!Verdict}

\* The characters that a target has before the name: its parent's and a dot.
Before == IF parent = <<>> THEN 0 ELSE Len(parent) + 1

\* In a target that begins with its parent, the slice begins behind the parent
\* and one more character, if it can be taken at all; it can if that character
\* is of one byte.
LEMMA CutBehindParent ==
    ASSUME GoodTarget, Targets!StartsWith(target, parent)
    PROVE  /\ \A n \in 0 .. Len(target) :
                 Targets!CutsAt(target, Targets!ParentLen, n) => n = Before
           /\ (/\ Before <= Len(target)
               /\ parent = <<>> \/ target[Before] # "e2") =>
                 Targets!CutsAt(target, Targets!ParentLen, Before)
<1> DEFINE bytes(n) == Targets!Bytes(target, n)
           L == Len(parent)
<1>1. L \in Nat /\ Len(target) \in Nat /\ L <= Len(target)
  BY LenProperties DEF GoodTarget, Targets!StartsWith
<1>2. bytes(L) = Targets!Bytes(parent, L)
  BY <1>1 DEF Targets!Bytes, Targets!StartsWith
<1>3. bytes(0) = 0
  <2>1. Twos(target, 0) = {}
    BY DEF Twos
  <2>2. Targets!Bytes(target, 0) = 0 + Cardinality(Twos(target, 0))
    BY CountedAlike DEF Targets!Bytes, Twos
  <2> QED
    BY <2>1, <2>2, FS_EmptySet
<1>4. Targets!ParentLen = IF parent = <<>> THEN bytes(0) ELSE bytes(L) + 1
  BY <1>2, <1>3 DEF Targets!ParentLen, Targets!NoParent
<1>5. parent = <<>> => L = 0
  OBVIOUS
<1>6. \A n \in Nat : bytes(n) \in Nat
  BY BytesOfNext
<1>7. \A n, m \in Nat : n <= m => bytes(n) + (m - n) <= bytes(m)
  BY BytesGrow
<1>8. target[L + 1] # "e2" => bytes(L + 1) = bytes(L) + 1
  BY <1>1, BytesOfNext
<1> HIDE DEF bytes, L
<1>9. ASSUME NEW n \in 0 .. Len(target), bytes(n) = Targets!ParentLen
      PROVE  n = Before
  <2>1. CASE parent = <<>>
    <3>1. bytes(0) + (n - 0) <= bytes(n)
      BY <1>7
    <3> QED
      BY <1>4, <1>6, <1>9, <2>1, <3>1 DEF Before
  <2>2. CASE parent # <<>>
    <3>1. bytes(n) = bytes(L) + 1
      BY <1>4, <1>9, <2>2
    <3>2. n <= L => bytes(n) + (L - n) <= bytes(L)
      BY <1>1, <1>7
    <3>3. L <= n => bytes(L) + (n - L) <= bytes(n)
      BY <1>1, <1>7
    <3>4. n = L + 1 \/ L + 1 < n \/ n <= L
      BY <1>1
    <3>6. n \in Nat /\ bytes(n) \in Nat /\ bytes(L) \in Nat
      BY <1>1, <1>6
    <3>5. n = L + 1
      BY <1>1, <3>6, <3>1, <3>2, <3>3, <3>4
    <3> QED
      BY <2>2, <3>5 DEF Before, L
  <2> QED
    BY <2>1, <2>2
<1>10. \A n : Targets!CutsAt(target, Targets!ParentLen, n) <=>
          bytes(n) = Targets!ParentLen
  BY DEF Targets!CutsAt, bytes
<1>11. ASSUME Before <= Len(target), parent = <<>> \/ target[Before] # "e2"
       PROVE  bytes(Before) = Targets!ParentLen
  BY <1>4, <1>8, <1>11 DEF Before, L
<1> QED
  BY <1>9, <1>10, <1>11

\* Parent and target are strings at the start.
LEMMA TargetsInit ==
    ASSUME Targets!TargetIdsAssumption, Targets!Init
    PROVE  GoodTarget
<1>1. \A n \in Nat : \A s \in [1 .. n -> Targets!Char] : s \in Seq(Targets!Char)
  OBVIOUS
<1>2. Targets!Targets \subseteq Seq(Targets!Char)
  BY <1>1 DEF Targets!Targets, Targets!TargetIdsAssumption
<1>3. <<>> \in Seq(Targets!Char)
  OBVIOUS
<1> QED
  BY <1>2, <1>3 DEF Targets!Init, Targets!Parents, Targets!NoParent,
     Targets!TargetIdsAssumption, GoodTarget

\* The only answer is the verdict.
LEMMA TargetsStep ==
    ASSUME GoodTarget, [Targets!Next]_targetsVars
    PROVE  GoodTarget'
<1>1. UNCHANGED <<parent, target>>
  BY DEF Targets!Next, Targets!PrepareProposal, targetsVars
<1>2. Targets!ParentLen' = Targets!ParentLen
  BY <1>1, Zenon DEF Targets!ParentLen, Targets!Bytes, Targets!NoParent
<1>3. Targets!StartsWith(target, parent)' = Targets!StartsWith(target, parent)
  BY <1>1, Zenon DEF Targets!StartsWith
<1>4. ASSUME NEW n
      PROVE  /\ Targets!CutsAt(target, Targets!ParentLen, n)' =
                    Targets!CutsAt(target, Targets!ParentLen, n)
             /\ Targets!IsMatch(target, n)' = Targets!IsMatch(target, n)
  BY <1>1, <1>2, Zenon DEF Targets!CutsAt, Targets!IsMatch, Targets!Bytes
<1>5. Targets!Verdict' = Targets!Verdict
  BY <1>1, <1>3, <1>4, Zenon DEF Targets!Verdict, Targets!NoParent
<1>6. verdict' \in {verdict, Targets!Verdict}
  BY DEF Targets!Next, Targets!PrepareProposal, targetsVars
<1> QED
  BY <1>1, <1>5, <1>6 DEF GoodTarget

\* What is taken continues its parent.
LEMMA TakenContinues ==
    ASSUME GoodTarget
    PROVE  Targets!ValidContinues
<1> SUFFICES ASSUME verdict = "valid"
             PROVE  /\ Targets!StartsWith(target, parent)
                    /\ Len(target) > Before
                    /\ \A i \in Before + 1 .. Len(target) :
                          target[i] \in Targets!WordChar
                    /\ parent # <<>> => parent \in ids.Existing
  BY DEF Targets!ValidContinues, Before, Targets!NoParent
<1>1. Targets!Verdict = "valid"
  BY DEF GoodTarget
<1>2. /\ parent # <<>> => parent \in ids.Existing
      /\ Targets!StartsWith(target, parent)
      /\ \E n \in 0 .. Len(target) :
            /\ Targets!CutsAt(target, Targets!ParentLen, n)
            /\ Targets!IsMatch(target, n)
  BY <1>1 DEF Targets!Verdict, Targets!NoParent
<1>3. Targets!IsMatch(target, Before)
  BY <1>2, CutBehindParent
<1> QED
  BY <1>2, <1>3 DEF Targets!IsMatch

\* What continues its parent with a dot and a name is taken.
LEMMA RightIsTaken ==
    ASSUME Targets!TargetIdsAssumption, GoodTarget
    PROVE  Targets!RightChainIsTaken
<1>1. ASSUME parent \in ids.Existing, NEW name \in Targets!Targets, name # <<>>,
             \A i \in DOMAIN name : name[i] \in Targets!WordChar,
             target = parent \o <<".">> \o name
      PROVE  Targets!Verdict = "valid"
  <2> DEFINE L == Len(parent)
  <2>1. name \in Seq(Targets!Char)
    BY DEF Targets!Targets, Targets!TargetIdsAssumption
  <2>2. parent # <<>> /\ parent \in Seq(Targets!Char)
    BY <1>1 DEF Targets!TargetIdsAssumption
  <2>3. L \in Nat /\ Len(name) \in Nat /\ Len(name) # 0
    BY <1>1, <2>1, <2>2, LenProperties, EmptySeq
  <2>4. /\ Len(target) = L + 1 + Len(name)
        /\ \A i \in 1 .. L : target[i] = parent[i]
        /\ target[L + 1] = "."
        /\ \A i \in 1 .. Len(name) : target[L + 1 + i] = name[i]
    <3>1. <<".">> \in Seq(Targets!Char) /\ Len(<<".">>) = 1 /\ <<".">>[1] = "."
      BY DEF Targets!Char
    <3>2. /\ parent \o <<".">> \in Seq(Targets!Char)
          /\ Len(parent \o <<".">>) = L + 1
          /\ \A i \in 1 .. L + 1 :
                (parent \o <<".">>)[i] =
                   IF i <= L THEN parent[i] ELSE <<".">>[i - L]
      BY <2>2, <2>3, <3>1, ConcatProperties
    <3>3. /\ Len(target) = L + 1 + Len(name)
          /\ \A i \in 1 .. L + 1 + Len(name) :
                target[i] = IF i <= L + 1 THEN (parent \o <<".">>)[i]
                            ELSE name[i - (L + 1)]
      BY <1>1, <2>1, <3>2, ConcatProperties
    <3> HIDE DEF L
    <3>4. \A i \in 1 .. L : target[i] = parent[i]
      BY <2>3, <3>2, <3>3
    <3>5. target[L + 1] = "."
      BY <2>3, <3>1, <3>2, <3>3
    <3>6. \A i \in 1 .. Len(name) : target[L + 1 + i] = name[i]
      BY <2>3, <3>2, <3>3
    <3> QED
      BY <3>3, <3>4, <3>5, <3>6
  <2>5. Targets!StartsWith(target, parent)
    BY <2>3, <2>4 DEF Targets!StartsWith
  <2>6. Before = L + 1 /\ Before \in 0 .. Len(target) /\ Before < Len(target)
    BY <2>2, <2>3, <2>4 DEF Before
  <2>7. Targets!CutsAt(target, Targets!ParentLen, Before)
    BY <2>4, <2>5, <2>6, CutBehindParent
  <2>8. ASSUME NEW i \in Before + 1 .. Len(target)
        PROVE  target[i] \in Targets!WordChar
    <3>1. i - (L + 1) \in 1 .. Len(name) /\ L + 1 + (i - (L + 1)) = i
      BY <2>3, <2>4, <2>6
    <3>2. DOMAIN name = 1 .. Len(name)
      BY <2>1
    <3> QED
      BY <1>1, <2>4, <3>1, <3>2
  <2>9. Targets!IsMatch(target, Before)
    BY <2>6, <2>8 DEF Targets!IsMatch
  <2> QED
    BY <1>1, <2>2, <2>5, <2>6, <2>7, <2>9 DEF Targets!Verdict, Targets!NoParent
<1>2. ASSUME Targets!Verdict = "panic"
      PROVE  target = parent \/ target[Len(parent) + 1] = "e2"
  <2>1. /\ Targets!StartsWith(target, parent)
        /\ \A n \in 0 .. Len(target) :
              ~Targets!CutsAt(target, Targets!ParentLen, n)
    BY <1>2 DEF Targets!Verdict
  <2>2. Len(parent) \in Nat /\ Len(target) \in Nat /\ Len(parent) <= Len(target)
    BY <2>1, LenProperties DEF GoodTarget, Targets!StartsWith
  <2>3. CASE Len(parent) = Len(target)
    <3>1. /\ target = [i \in 1 .. Len(target) |-> target[i]]
          /\ parent = [i \in 1 .. Len(parent) |-> parent[i]]
      BY DEF GoodTarget
    <3> QED
      BY <2>1, <2>3, <3>1, SeqEqual DEF GoodTarget, Targets!StartsWith
  <2>4. CASE Len(parent) < Len(target)
    <3>1. Before \in 0 .. Len(target)
      BY <2>2, <2>4 DEF Before
    <3>2. parent # <<>> /\ target[Before] = "e2"
      BY <2>1, <3>1, CutBehindParent
    <3> QED
      BY <3>2 DEF Before
  <2> QED
    BY <2>2, <2>3, <2>4
<1> QED
  BY <1>1, <1>2 DEF GoodTarget, Targets!RightChainIsTaken

-----------------------------------------------------------------------------
\* Files.

\* The smaller of two numbers.
LEMMA MinOfTwo ==
    ASSUME NEW a \in Int, NEW b \in Int
    PROVE  Files!Min({a, b}) = IF a <= b THEN a ELSE b
<1> DEFINE m == IF a <= b THEN a ELSE b
<1>1. m \in {a, b} /\ \A y \in {a, b} : m <= y
  OBVIOUS
<1>2. \A x \in {a, b} : (\A y \in {a, b} : x <= y) => x = m
  OBVIOUS
<1> HIDE DEF m
<1>3. (CHOOSE x \in {a, b} : \A y \in {a, b} : x <= y) = m
  BY <1>1, <1>2, Zenon
<1> QED
  BY <1>3 DEF Files!Min, m

\* Where the handler is it has what it fetched, the file or the page instead.
GoodFiles ==
    /\ file \in Files!File /\ notFound \in Files!File
    /\ range \in Files!SomeRange \union {Files!NoRange}
    /\ pc \in {"asked", "missing", "done", "failed"}
    /\ pc # "done" => answer = Files!NoAnswer
    /\ pc = "done" =>
          \/ /\ Files!Exists(file)
             /\ answer = Files!FetchFileContent(file, range,
                            IF range.asked THEN 206 ELSE 200)
          \/ /\ Files!Exists(notFound)
             /\ answer = Files!FetchFileContent(notFound, Files!NoRange, 404)

\* The file service begins with what it is asked for.
LEMMA FilesInit == Files!Init => GoodFiles
BY DEF Files!Init, GoodFiles

\* What it answers is what it fetched.
LEMMA FilesStep ==
    ASSUME GoodFiles, [Files!Next]_filesVars
    PROVE  GoodFiles'
<1>1. CASE Files!Fetch
  <2>1. /\ UNCHANGED <<file, notFound, range>> /\ pc = "asked"
    BY <1>1 DEF Files!Fetch
  <2>2. CASE Files!Exists(file)
    BY <1>1, <2>1, <2>2 DEF Files!Fetch, GoodFiles
  <2>3. CASE ~Files!Exists(file)
    BY <1>1, <2>1, <2>3 DEF Files!Fetch, GoodFiles
  <2> QED
    BY <2>2, <2>3
<1>2. CASE Files!FetchNotFound
  <2>1. /\ UNCHANGED <<file, notFound, range>> /\ pc = "missing"
    BY <1>2 DEF Files!FetchNotFound
  <2>2. CASE Files!Exists(notFound)
    BY <1>2, <2>1, <2>2 DEF Files!FetchNotFound, GoodFiles
  <2>3. CASE ~Files!Exists(notFound)
    BY <1>2, <2>1, <2>3 DEF Files!FetchNotFound, GoodFiles
  <2> QED
    BY <2>2, <2>3
<1>3. CASE UNCHANGED filesVars
  BY <1>3 DEF GoodFiles, filesVars
<1> QED
  BY <1>1, <1>2, <1>3 DEF Files!Next

\* What is read of a file that is there.
Long(f) == f[Files!Encoding(f)]
End(f, r) == IF r.asked THEN r.end ELSE Long(f)
IsFetched(a, f, r, s) ==
    /\ Long(f) \in Files!Length /\ End(f, r) \in Files!Length
    /\ r.start \in Files!Length
    /\ ~r.asked => r.start = 0
    /\ a.encoding = Files!Encoding(f)
    /\ a.encoding \in {"gzip", "identity"}
    /\ a.status = s /\ a.start = r.start
    /\ a.end = End(f, r) /\ a.length = Long(f)
    /\ a.content = [k \in 1 .. End(f, r) |->
          IF k <= files.Block /\ k <= Long(f) - r.start
          THEN r.start + k ELSE 0]
    /\ a.content \in [1 .. End(f, r) -> Files!Length]

\* What a fetch answers with: how much, of what, from where.
LEMMA Fetched ==
    ASSUME Files!FileRangeAssumption, NEW f \in Files!File, Files!Exists(f),
           NEW r \in Files!SomeRange \union {Files!NoRange}, NEW s
    PROVE  IsFetched(Files!FetchFileContent(f, r, s), f, r, s)
<1> DEFINE a == Files!FetchFileContent(f, r, s)
           long == Long(f)
           end == End(f, r)
<1> USE DEF Long, End
<1>1. long \in Files!Length /\ Files!Encoding(f) \in {"gzip", "identity"}
  <2>1. f \in [{"gzip", "identity"} -> Files!Length \union {Files!NoFile}]
    BY DEF Files!File
  <2>2. Files!Encoding(f) \in {"gzip", "identity"}
    BY DEF Files!Encoding
  <2> QED
    BY <2>1, <2>2 DEF Files!Exists
<1>2. /\ r.start \in Files!Length /\ end \in Files!Length
      /\ ~r.asked => r.start = 0
  <2>1. CASE r \in Files!SomeRange
    BY <1>1, <2>1 DEF Files!SomeRange
  <2>2. CASE r = Files!NoRange
    BY <1>1, <2>2 DEF Files!NoRange, Files!FileRangeAssumption, Files!Length
  <2> QED
    BY <2>1, <2>2
<1> DEFINE first == r.start
<1>3. /\ a.encoding = Files!Encoding(f)
      /\ a.status = s /\ a.start = first
      /\ a.end = end /\ a.length = long
      /\ a.content = Files!Read(long, first, end)
  BY DEF Files!FetchFileContent
<1> HIDE DEF first, long, end, a
<1>4. ASSUME NEW k \in 1 .. end
      PROVE  k <= Files!Min({files.Block, long - first}) <=>
                k <= files.Block /\ k <= long - first
  <2>1. /\ files.Block \in Int /\ long - first \in Int
        /\ k \in Int
    BY <1>1, <1>2 DEF Files!FileRangeAssumption, Files!Length, first
  <2>2. Files!Min({files.Block, long - first}) =
           IF files.Block <= long - first THEN files.Block ELSE long - first
    BY <2>1, MinOfTwo
  <2> QED
    BY <2>1, <2>2
<1>5. a.content = [k \in 1 .. end |->
                     IF k <= files.Block /\ k <= long - first
                     THEN first + k ELSE 0]
  BY <1>3, <1>4 DEF Files!Read
<1>6. ASSUME NEW k \in 1 .. end
      PROVE  (IF k <= files.Block /\ k <= long - first
              THEN first + k ELSE 0) \in Files!Length
  BY <1>1, <1>2 DEF Files!FileRangeAssumption, Files!Length, first
<1>7. a.content \in [1 .. end -> Files!Length]
  BY <1>5, <1>6
<1> QED
  BY <1>1, <1>2, <1>3, <1>5, <1>7 DEF first, long, end, a, IsFetched

\* The answer is of its type.
LEMMA FilesType ==
    ASSUME Files!FileRangeAssumption, GoodFiles
    PROVE  Files!TypeOK
<1>1. CASE pc # "done"
  <2>1. 0 \in Files!Length
    BY DEF Files!Length, Files!FileRangeAssumption
  <2>2. <<>> \in [1 .. 0 -> Files!Length]
    OBVIOUS
  <2>3. <<>> \in Files!Content
    BY <2>1, <2>2 DEF Files!Content
  <2> QED
    BY <1>1, <2>1, <2>3 DEF GoodFiles, Files!TypeOK, Files!NoAnswer
<1>2. ASSUME NEW f \in Files!File, Files!Exists(f),
             NEW r \in Files!SomeRange \union {Files!NoRange},
             NEW s \in {200, 206, 404}, pc = "done",
             answer = Files!FetchFileContent(f, r, s)
      PROVE  Files!TypeOK
  <2> DEFINE length1 == Long(f)
             end == End(f, r)
  <2>1. /\ length1 \in Files!Length /\ end \in Files!Length
        /\ r.start \in Files!Length
        /\ answer.encoding \in {"gzip", "identity"}
        /\ answer.status = s /\ answer.start = r.start
        /\ answer.end = end /\ answer.length = length1
        /\ answer.content \in [1 .. end -> Files!Length]
    <3>1. IsFetched(answer, f, r, s)
      BY <1>2, Fetched
    <3> QED
      BY <3>1 DEF IsFetched
  <2> HIDE DEF end, length1
  <2>2. answer.content \in Files!Content
    BY <2>1 DEF Files!Content
  <2> QED
    BY <1>2, <2>1, <2>2 DEF GoodFiles, Files!TypeOK
<1>3. (IF range.asked THEN 206 ELSE 200) \in {200, 206, 404}
      /\ Files!NoRange \in Files!SomeRange \union {Files!NoRange}
  OBVIOUS
<1> QED
  BY <1>1, <1>2, <1>3 DEF GoodFiles

\* A file of one read is whole, a range begins where it was asked to.
LEMMA FilesRight ==
    ASSUME Files!FileRangeAssumption, GoodFiles
    PROVE  Files!SmallFilesWhole /\ Files!RangeFromStart
<1> USE DEF Files!FileRangeAssumption
<1>1. ASSUME pc = "done", answer.status # 206, answer.length <= files.Block
      PROVE  /\ answer.length = Files!Source[answer.encoding]
             /\ answer.content = [k \in 1 .. answer.length |-> k]
  <2>1. PICK f \in Files!File,
             r \in Files!SomeRange \union {Files!NoRange},
             s \in {200, 404} :
           /\ Files!Exists(f) /\ answer = Files!FetchFileContent(f, r, s)
           /\ ~r.asked
           /\ f = IF s = 404 THEN notFound ELSE file
    <3>1. ~Files!NoRange.asked
      BY DEF Files!NoRange
    <3>2. CASE /\ Files!Exists(file)
               /\ answer = Files!FetchFileContent(file, range,
                              IF range.asked THEN 206 ELSE 200)
      <4>1. answer.status = IF range.asked THEN 206 ELSE 200
        BY <3>2 DEF Files!FetchFileContent
      <4>2. ~range.asked
        BY <1>1, <4>1
      <4> QED
        BY <3>2, <4>2 DEF GoodFiles
    <3>3. CASE /\ Files!Exists(notFound)
               /\ answer = Files!FetchFileContent(notFound, Files!NoRange, 404)
      BY <3>1, <3>3 DEF GoodFiles
    <3> QED
      BY <1>1, <3>2, <3>3 DEF GoodFiles
  <2> DEFINE length1 == Long(f)
  <2>2. /\ length1 \in Files!Length
        /\ r.start = 0
        /\ answer.encoding = Files!Encoding(f)
        /\ answer.status = s /\ answer.length = length1
        /\ answer.content = [k \in 1 .. length1 |->
                     IF k <= files.Block /\ k <= length1 - r.start
                     THEN r.start + k ELSE 0]
    BY <2>1, Fetched DEF IsFetched, End
  <2>3. f = Files!Source
    BY <2>1, <2>2 DEF Files!Source
  <2> HIDE DEF length1
  <2>4. \A k \in 1 .. length1 :
           (IF k <= files.Block /\ k <= length1 - r.start
                     THEN r.start + k ELSE 0) = k
    BY <1>1, <2>2 DEF Files!Length
  <2>5. answer.content = [k \in 1 .. length1 |-> k]
    BY <2>2, <2>4
  <2> QED
    BY <2>2, <2>3, <2>5 DEF length1, Long
<1>2. ASSUME pc = "done", answer.status = 206,
             NEW k \in 1 .. Len(answer.content)
      PROVE  LET here == answer.content[k]
             IN  /\ here # 0 => /\ here = range.start + k
                                /\ here <= file[answer.encoding]
                 /\ here = 0 => range.start + k > file[answer.encoding]
                                  \/ k > files.Block
  <2>1. /\ Files!Exists(file) /\ range.asked
        /\ answer = Files!FetchFileContent(file, range, 206)
    <3>1. answer # Files!FetchFileContent(notFound, Files!NoRange, 404)
      BY <1>2 DEF Files!FetchFileContent
    <3>2. /\ Files!Exists(file)
          /\ answer = Files!FetchFileContent(file, range,
                              IF range.asked THEN 206 ELSE 200)
      BY <1>2, <3>1 DEF GoodFiles
    <3>3. answer.status = IF range.asked THEN 206 ELSE 200
      BY <3>2 DEF Files!FetchFileContent
    <3> QED
      BY <1>2, <3>2, <3>3
  <2> DEFINE length1 == Long(file)
             end == range.end
  <2>2. /\ length1 \in Files!Length /\ end \in Files!Length
        /\ range.start \in Files!Length
        /\ answer.encoding = Files!Encoding(file)
        /\ answer.content = [i \in 1 .. end |->
                     IF i <= files.Block /\ i <= length1 - range.start
                     THEN range.start + i ELSE 0]
    BY <2>1, Fetched DEF GoodFiles, IsFetched, End
  <2>3. file[answer.encoding] = length1
    BY <2>2 DEF Long
  <2> HIDE DEF length1, end
  <2>4. Len(answer.content) = end
    BY <2>2 DEF Files!Length
  <2>5. answer.content[k] = IF k <= files.Block /\ k <= length1 - range.start
                     THEN range.start + k ELSE 0
    BY <2>2, <2>4
  <2>6. k \in Nat \ {0} /\ length1 \in Nat /\ range.start \in Nat
    BY <2>2, <2>4 DEF Files!Length
  <2> QED
    BY <2>3, <2>5, <2>6
<1> QED
  BY <1>1, <1>2 DEF Files!SmallFilesWhole, Files!RangeFromStart

-----------------------------------------------------------------------------
\* Names with their matches marked.

\* Which of two matches is shown before the other.
Ahead(ms, i, j) ==
    ms[i].start < ms[j].start \/ (ms[i].start = ms[j].start /\ i < j)

\* The ways to put matches in order.
Orders(ms) ==
    {p \in [1 .. Len(ms) -> 1 .. Len(ms)] :
        \A i, j \in 1 .. Len(ms) : i < j => Ahead(ms, p[i], p[j])}

\* The matches that come before the i-th, and its place behind them.
AllAhead(ms, i) == {j \in 1 .. Len(ms) : Ahead(ms, j, i)}
Place(ms, i) == Cardinality(AllAhead(ms, i)) + 1

\* Of two matches the one that comes first has the smaller place.
LEMMA PlacesDiffer ==
    ASSUME NEW ms \in Seq(Names!Match),
           NEW i \in 1 .. Len(ms), NEW j \in 1 .. Len(ms), Ahead(ms, i, j)
    PROVE  Place(ms, i) < Place(ms, j)
<1>1. \A k \in 1 .. Len(ms) : ms[k].start \in Int
  <2>1. \A k \in 1 .. Len(ms) : ms[k] \in Names!Match
    BY ElementOfSeq
  <2> QED
    BY <2>1 DEF Names!Match
<1>2. Len(ms) \in Nat
  BY LenProperties
<1>3. AllAhead(ms, i) \subseteq AllAhead(ms, j)
  BY <1>1 DEF AllAhead, Ahead
<1>4. i \in AllAhead(ms, j) /\ i \notin AllAhead(ms, i)
  BY <1>1 DEF AllAhead, Ahead
<1>5. IsFiniteSet(AllAhead(ms, j))
  <2>1. IsFiniteSet(1 .. Len(ms))
    BY <1>2, FS_Interval
  <2> QED
    BY <2>1, FS_Subset DEF AllAhead
<1>6. IsFiniteSet(AllAhead(ms, i))
      /\ Cardinality(AllAhead(ms, i)) <= Cardinality(AllAhead(ms, j))
      /\ (Cardinality(AllAhead(ms, i)) = Cardinality(AllAhead(ms, j)) =>
            AllAhead(ms, i) = AllAhead(ms, j))
  BY <1>3, <1>5, FS_Subset
<1>7. Cardinality(AllAhead(ms, i)) \in Nat
      /\ Cardinality(AllAhead(ms, j)) \in Nat
  BY <1>5, <1>6, FS_CardinalityType
<1>8. Cardinality(AllAhead(ms, i)) # Cardinality(AllAhead(ms, j))
  BY <1>4, <1>6
<1> QED
  BY <1>6, <1>7, <1>8 DEF Place

\* The place of a match is one of those there are.
LEMMA PlaceIsOne ==
    ASSUME NEW ms \in Seq(Names!Match), NEW i \in 1 .. Len(ms)
    PROVE  Place(ms, i) \in 1 .. Len(ms)
<1>1. Len(ms) \in Nat /\ i \in Nat
  BY LenProperties
<1>2. /\ IsFiniteSet(1 .. Len(ms)) /\ Cardinality(1 .. Len(ms)) = Len(ms)
  BY SMTT(60), <1>1, FS_Interval
<1>3. ms[i].start \in Int
  <2>1. ms[i] \in Names!Match
    BY ElementOfSeq
  <2> QED
    BY <2>1 DEF Names!Match
<1>4. AllAhead(ms, i) \subseteq 1 .. Len(ms) /\ i \notin AllAhead(ms, i)
  BY <1>1, <1>3 DEF AllAhead, Ahead
<1>5. /\ IsFiniteSet(AllAhead(ms, i)) /\ Cardinality(AllAhead(ms, i)) <= Len(ms)
      /\ Cardinality(AllAhead(ms, i)) # Len(ms)
  BY <1>2, <1>4, FS_Subset
<1>6. Cardinality(AllAhead(ms, i)) \in Nat
  BY <1>5, FS_CardinalityType
<1> QED
  BY <1>1, <1>5, <1>6 DEF Place

\* A function of 1 .. n that takes no value twice takes all.
LEMMA OneToOne ==
    ASSUME NEW n \in Nat, NEW f \in [1 .. n -> 1 .. n],
           \A i, j \in 1 .. n : f[i] = f[j] => i = j
    PROVE  \A k \in 1 .. n : \E i \in 1 .. n : f[i] = k
<1>1. f \in Injection(1 .. n, 1 .. n)
  BY DEF Injection, IsInjective
<1>2. IsFiniteSet(1 .. n)
  BY FS_Interval
<1>3. f \in Surjection(1 .. n, 1 .. n)
  BY <1>1, <1>2, FS_Injection
<1> QED
  BY <1>3 DEF Surjection

\* Any matches can be put in order, by their places.
LEMMA CanBeOrdered ==
    ASSUME NEW ms \in Seq(Names!Match)
    PROVE  Orders(ms) # {}
<1> DEFINE n == Len(ms)
           f == [i \in 1 .. n |-> Place(ms, i)]
           p == [k \in 1 .. n |-> CHOOSE i \in 1 .. n : f[i] = k]
<1>1. n \in Nat
  BY LenProperties
<1>2. f \in [1 .. n -> 1 .. n]
  BY PlaceIsOne
<1>3. ASSUME NEW i \in 1 .. n, NEW j \in 1 .. n
      PROVE  Ahead(ms, i, j) \/ Ahead(ms, j, i) \/ i = j
  <2>1. ms[i] \in Names!Match /\ ms[j] \in Names!Match
    BY ElementOfSeq
  <2>2. ms[i].start \in Int /\ ms[j].start \in Int
    BY <2>1 DEF Names!Match
  <2> QED
    BY <1>1, <2>2 DEF Ahead
<1>4. \A i, j \in 1 .. n : Ahead(ms, i, j) => f[i] < f[j]
  BY PlacesDiffer
<1> HIDE DEF f, n
<1>5. ASSUME NEW i \in 1 .. n, NEW j \in 1 .. n, f[i] = f[j]
      PROVE  i = j
  <2>1. f[i] \in Int /\ ~(f[i] < f[j]) /\ ~(f[j] < f[i])
    BY <1>2, <1>5
  <2> QED
    BY <1>3, <1>4, <2>1
<1>6. \A k \in 1 .. n : \E i \in 1 .. n : f[i] = k
  BY <1>1, <1>2, <1>5, OneToOne
<1>7. \A k \in 1 .. n : p[k] \in 1 .. n /\ f[p[k]] = k
  BY <1>6
<1>8. p \in [1 .. n -> 1 .. n]
  BY <1>7
<1> HIDE DEF p
<1>9. ASSUME NEW i \in 1 .. n, NEW j \in 1 .. n, i < j
      PROVE  Ahead(ms, p[i], p[j])
  <2>1. p[i] \in 1 .. n /\ p[j] \in 1 .. n /\ f[p[i]] = i /\ f[p[j]] = j
    BY <1>7
  <2>2. p[i] # p[j]
    BY <1>1, <1>9, <2>1
  <2>3. Ahead(ms, p[j], p[i]) => j < i
    BY <1>4, <2>1
  <2> QED
    BY <1>1, <1>3, <1>9, <2>1, <2>2, <2>3
<1>10. p \in Orders(ms)
  BY <1>8, <1>9 DEF Orders, n
<1> QED
  BY <1>10

\* Two lists of as many matches, each of the one in the other.
SameMatches(ss, ms) ==
    /\ \A i \in 1 .. Len(ms) : \E j \in 1 .. Len(ms) : ss[i] = ms[j]
    /\ \A j \in 1 .. Len(ms) : \E i \in 1 .. Len(ms) : ss[i] = ms[j]

\* The sorted matches are the matches, all of them, in order.
LEMMA SortedInOrder ==
    ASSUME NEW ms \in Seq(Names!Match)
    PROVE  /\ Names!Sorted(ms) \in Seq(Names!Match)
           /\ Len(Names!Sorted(ms)) = Len(ms)
           /\ SameMatches(Names!Sorted(ms), ms)
           /\ Names!NoOverlap(ms) => Names!InOrder(Names!Sorted(ms))
<1> DEFINE n == Len(ms)
<1>1. PICK p \in Orders(ms) : Names!Sorted(ms) = [i \in 1 .. n |-> ms[p[i]]]
  <2> DEFINE order == CHOOSE p \in [1 .. n -> 1 .. n] :
                         \A i, j \in 1 .. n : i < j => Ahead(ms, p[i], p[j])
  <2>1. Names!Sorted(ms) = [i \in 1 .. n |-> ms[order[i]]]
    BY Zenon DEF Names!Sorted, Ahead
  <2>2. \E p \in [1 .. n -> 1 .. n] :
           \A i, j \in 1 .. n : i < j => Ahead(ms, p[i], p[j])
    BY CanBeOrdered DEF Orders
  <2>3. order \in Orders(ms)
    BY <2>2, Zenon DEF Orders
  <2> QED
    BY <2>1, <2>3
<1>2. n \in Nat
  BY LenProperties
<1>3. /\ p \in [1 .. n -> 1 .. n]
      /\ \A i, j \in 1 .. n : i < j => Ahead(ms, p[i], p[j])
  BY DEF Orders
<1>4. \A i \in 1 .. n : /\ ms[i] \in Names!Match
                        /\ ms[i].start \in Nat /\ ms[i].end \in Nat
                        /\ ms[i].start < ms[i].end
  <2>1. \A i \in 1 .. n : ms[i] \in Names!Match
    BY ElementOfSeq
  <2> QED
    BY <2>1 DEF Names!Match
<1>5. DOMAIN ms = 1 .. n
  BY LenProperties
<1> HIDE DEF n
<1>6. \A i, j \in 1 .. n : p[i] = p[j] => i = j
  <2>1. ASSUME NEW i \in 1 .. n, NEW j \in 1 .. n, i < j
        PROVE  p[i] # p[j]
    <3>1. Ahead(ms, p[i], p[j]) /\ p[i] \in 1 .. n /\ p[j] \in 1 .. n
      BY <1>3, <2>1
    <3> QED
      BY <1>2, <1>4, <3>1 DEF Ahead
  <2> QED
    BY <1>2, <2>1
<1>7. \A k \in 1 .. n : \E i \in 1 .. n : p[i] = k
  BY <1>2, <1>3, <1>6, OneToOne
<1>8. Names!Sorted(ms) \in [1 .. n -> Names!Match]
  BY <1>1, <1>3, <1>4
<1>9. Names!Sorted(ms) \in Seq(Names!Match) /\ Len(Names!Sorted(ms)) = n
  BY <1>2, <1>8
<1>10. ASSUME Names!NoOverlap(ms)
       PROVE  Names!InOrder(Names!Sorted(ms))
  <2>1. ASSUME NEW i \in 1 .. n, NEW j \in 1 .. n, i < j
        PROVE  ms[p[i]].end <= ms[p[j]].start
    <3>1. Ahead(ms, p[i], p[j]) /\ p[i] \in 1 .. n /\ p[j] \in 1 .. n
          /\ p[i] # p[j]
      BY <1>2, <1>3, <1>6, <2>1
    <3>2. \/ ms[p[i]].end <= ms[p[j]].start
          \/ ms[p[j]].end <= ms[p[i]].start
      BY <1>5, <1>10, <3>1 DEF Names!NoOverlap
    <3> QED
      BY SMTT(60), <1>4, <3>1, <3>2 DEF Ahead
  <2>2. DOMAIN Names!Sorted(ms) = 1 .. n
    BY <1>8
  <2> QED
    BY <1>1, <2>1, <2>2 DEF Names!InOrder
<1>11. \A j \in 1 .. n : \E i \in 1 .. n : Names!Sorted(ms)[i] = ms[j]
  BY <1>1, <1>7
<1>12. \A i \in 1 .. n : \E j \in 1 .. n : Names!Sorted(ms)[i] = ms[j]
  BY <1>1, <1>3
<1> QED
  BY <1>9, <1>10, <1>11, <1>12 DEF n, SameMatches

\* What is marked are the first n matches.
Marks(ps, ms, n) ==
    \A c \in Nat :
        (\E k \in DOMAIN ps : ps[k].mark /\ ps[k].from <= c /\ c < ps[k].to)
        <=> \E j \in 1 .. n : ms[j].start <= c /\ c < ms[j].end

\* The name at hand.
AtHand ==
    /\ current <= names.Name /\ infos = Names!Sorted(found[current])
    /\ next = 1 => currentPos = 0 /\ parts = <<>>
    /\ next > 1 => currentPos = infos[next - 1].end
    /\ Names!NoOverlap(found[current]) => Names!Tile(parts, currentPos)
    /\ Marks(parts, infos, next - 1)

\* What a name that is done shows.
Done(shown) ==
    /\ Names!NoOverlap(found[shown.name]) =>
          Names!Tile(shown.parts, length[shown.name])
    /\ Marks(shown.parts, found[shown.name], Len(found[shown.name]))

\* The invariant of names.
GoodNames ==
    /\ Names!TypeOK
    /\ \A n \in 1 .. names.Name : \A i \in DOMAIN found[n] :
          found[n][i].end <= length[n]
    /\ infos # <<>> => AtHand
    /\ infos = <<>> => currentPos = 0 /\ parts = <<>> /\ next = 1
    /\ \A i \in DOMAIN result : Done(result[i])

\* What cutting off another part does.
LEMMA CutGrows ==
    ASSUME NEW ps \in Seq(Names!Part), NEW a \in Nat, NEW b \in Nat,
           NEW m \in BOOLEAN, a <= b, Names!Tile(ps, a)
    PROVE  Names!Tile(ps \o Names!Cut(a, b, m), b)
<1>1. CASE a = b
  <2>1. Names!Cut(a, b, m) = <<>>
    BY <1>1 DEF Names!Cut
  <2>2. ps \o <<>> = ps
    BY ConcatEmptySeq
  <2> QED
    BY <1>1, <2>1, <2>2
<1>2. CASE a < b
  <2> DEFINE p == [from |-> a, to |-> b, mark |-> m]
             n == Len(ps)
             new == ps \o <<p>>
  <2>1. Names!Cut(a, b, m) = <<p>>
    BY <1>2 DEF Names!Cut
  <2>2. p \in Names!Part /\ p.from = a /\ p.to = b
    BY DEF Names!Part
  <2>3. <<p>> \in Seq(Names!Part) /\ Len(<<p>>) = 1 /\ <<p>>[1] = p
    BY <2>2
  <2>4. n \in Nat /\ (ps # <<>> => n # 0)
    BY LenProperties, EmptySeq
  <2>5. /\ new \in Seq(Names!Part) /\ Len(new) = n + 1
        /\ \A i \in 1 .. n + 1 : new[i] = IF i <= n THEN ps[i] ELSE <<p>>[i - n]
    BY <2>3, ConcatProperties
  <2> HIDE DEF p, n
  <2>6. new[n + 1] = p
    BY <2>3, <2>4, <2>5
  <2>7. \A i \in 1 .. n : new[i] = ps[i]
    BY <2>4, <2>5
  <2>8. ps = <<>> => n = 0 /\ a = 0
    BY DEF Names!Tile, n
  <2>9. ps # <<>> => ps[1].from = 0 /\ ps[n].to = a
    BY DEF Names!Tile, n
  <2>10. /\ \A i \in 1 .. n : ps[i].from < ps[i].to
         /\ \A i \in 1 .. n - 1 : ps[i].to = ps[i + 1].from
    BY DEF Names!Tile, n
  <2> HIDE DEF new
  <2>11. new[1].from = 0 /\ new[n + 1].to = b
    <3>1. CASE ps = <<>>
      BY <2>2, <2>6, <2>8, <3>1
    <3>2. CASE ps # <<>>
      BY <2>2, <2>4, <2>6, <2>7, <2>9, <3>2
    <3> QED
      BY <3>1, <3>2
  <2>12. \A i \in 1 .. n + 1 : new[i].from < new[i].to
    BY <1>2, <2>2, <2>4, <2>6, <2>7, <2>10
  <2>13. \A i \in 1 .. (n + 1) - 1 : new[i].to = new[i + 1].from
    <3>1. ASSUME NEW i \in 1 .. n, i < n
          PROVE  new[i].to = new[i + 1].from
      BY <2>4, <2>7, <2>10, <3>1
    <3>2. ps # <<>> => new[n].to = new[n + 1].from
      BY <2>2, <2>4, <2>6, <2>7, <2>9
    <3>3. (n + 1) - 1 = n
      BY <2>4
    <3> QED
      BY <2>4, <2>8, <3>1, <3>2, <3>3
  <2>14. new # <<>>
    BY <2>4, <2>5, EmptySeq
  <2>15. Names!Tile(new, b)
    BY <2>5, <2>11, <2>12, <2>13, <2>14 DEF Names!Tile
  <2> QED
    BY <2>1, <2>15 DEF new
<1> QED
  BY <1>1, <1>2

\* The positions that the parts mark.
Marked(ps, c) ==
    \E k \in DOMAIN ps : ps[k].mark /\ ps[k].from <= c /\ c < ps[k].to

\* A part that is cut off adds its own positions to the marked ones, if it is
\* marked.
LEMMA CutMarks ==
    ASSUME NEW ps \in Seq(Names!Part), NEW a \in Nat, NEW b \in Nat,
           NEW m \in BOOLEAN
    PROVE  /\ ps \o Names!Cut(a, b, m) \in Seq(Names!Part)
           /\ \A c \in Nat : Marked(ps \o Names!Cut(a, b, m), c) <=>
                 Marked(ps, c) \/ (m /\ a <= c /\ c < b)
<1>1. CASE ~(a < b)
  <2>1. Names!Cut(a, b, m) = <<>>
    BY <1>1 DEF Names!Cut
  <2>2. ps \o <<>> = ps
    BY ConcatEmptySeq
  <2>3. \A c \in Nat : ~(a <= c /\ c < b)
    BY <1>1
  <2> QED
    BY <2>1, <2>2, <2>3
<1>2. CASE a < b
  <2> DEFINE p == [from |-> a, to |-> b, mark |-> m]
             n == Len(ps)
             new == ps \o <<p>>
  <2>1. Names!Cut(a, b, m) = <<p>>
    BY <1>2 DEF Names!Cut
  <2>2. p \in Names!Part /\ p.from = a /\ p.to = b /\ p.mark = m
    BY DEF Names!Part
  <2>3. <<p>> \in Seq(Names!Part) /\ Len(<<p>>) = 1 /\ <<p>>[1] = p
    BY <2>2
  <2>4. n \in Nat /\ DOMAIN ps = 1 .. n
    BY LenProperties
  <2>5. /\ new \in Seq(Names!Part) /\ Len(new) = n + 1
        /\ \A i \in 1 .. n + 1 : new[i] = IF i <= n THEN ps[i] ELSE <<p>>[i - n]
    BY <2>3, ConcatProperties
  <2>6. DOMAIN new = 1 .. n + 1
    BY <2>5, LenProperties
  <2> HIDE DEF p, n
  <2>7. new[n + 1] = p
    BY <2>3, <2>4, <2>5
  <2>8. \A i \in 1 .. n : new[i] = ps[i]
    BY <2>4, <2>5
  <2>9. 1 .. n + 1 = (1 .. n) \union {n + 1}
    BY <2>4
  <2> HIDE DEF new
  <2>10. ASSUME NEW c \in Nat
         PROVE  Marked(new, c) <=> Marked(ps, c) \/ (m /\ a <= c /\ c < b)
    <3>1. Marked(new, c) <=>
             \/ \E k \in 1 .. n : new[k].mark /\ new[k].from <= c
                /\ c < new[k].to
             \/ p.mark /\ p.from <= c /\ c < p.to
      BY <2>6, <2>7, <2>9, Zenon DEF Marked
    <3> QED
      BY <2>2, <2>4, <2>8, <3>1 DEF Marked
  <2> QED
    BY <2>1, <2>5, <2>10 DEF new
<1> QED
  BY <1>1, <1>2

\* The invariant of names holds at the start.
LEMMA NamesInit ==
    ASSUME Names!HighlightAssumption, Names!Init
    PROVE  GoodNames
<1>1. <<>> \in Seq(Names!Match) /\ <<>> \in Seq(Names!Part) /\ Len(<<>>) = 0
      /\ <<>> \in Seq([name : 1 .. names.Name, parts : Seq(Names!Part)])
  OBVIOUS
<1>2. length \in [1 .. names.Name -> Nat]
  BY DEF Names!Init, Names!HighlightAssumption
<1>3. ASSUME NEW n
      PROVE  Names!Matches(n) \subseteq Seq({m \in Names!Match : m.end <= n})
  <2>1. \A k \in 0 .. names.MaxMatches :
           [1 .. k -> {m \in Names!Match : m.end <= n}]
              \subseteq Seq({m \in Names!Match : m.end <= n})
    BY DEF Names!HighlightAssumption
  <2> QED
    BY <2>1 DEF Names!Matches
<1>4. ASSUME NEW n \in 1 .. names.Name
      PROVE  /\ found[n] \in Seq(Names!Match)
             /\ \A i \in DOMAIN found[n] : found[n][i].end <= length[n]
  <2>1. found[n] \in Seq({m \in Names!Match : m.end <= length[n]})
    BY <1>3 DEF Names!Init
  <2>2. \A i \in DOMAIN found[n] :
           found[n][i] \in {m \in Names!Match : m.end <= length[n]}
    BY <2>1, ElementOfSeq, LenProperties
  <2>3. found[n] \in Seq(Names!Match)
    BY <2>1, <2>2, LenProperties
  <2> QED
    BY <2>2, <2>3
<1>5. found \in [1 .. names.Name -> Seq(Names!Match)]
  <2>1. found = [n \in 1 .. names.Name |-> found[n]]
    BY DEF Names!Init
  <2> QED
    BY <1>4, <2>1
<1>6. 1 \in 1 .. names.Name + 1
  BY DEF Names!HighlightAssumption
<1>7. Names!TypeOK
  BY <1>1, <1>2, <1>5, <1>6 DEF Names!Init, Names!TypeOK
<1>8. DOMAIN result = {}
  BY <1>1, LenProperties DEF Names!Init
<1> QED
  BY <1>4, <1>7, <1>8 DEF Names!Init, GoodNames

\* What the types say of the name at hand.
LEMMA NamesTypes ==
    ASSUME GoodNames
    PROVE  /\ current \in 1 .. names.Name + 1 /\ next \in Nat /\ next >= 1
           /\ currentPos \in Nat
           /\ infos \in Seq(Names!Match) /\ Len(infos) \in Nat
           /\ next <= Len(infos) + 1
           /\ parts \in Seq(Names!Part)
           /\ \A n \in 1 .. names.Name :
                 /\ found[n] \in Seq(Names!Match) /\ length[n] \in Nat
           /\ \A i \in 1 .. Len(infos) :
                 /\ infos[i].start \in Nat /\ infos[i].end \in Nat
                 /\ infos[i].start < infos[i].end
<1>1. Len(infos) \in Nat /\ \A i \in 1 .. Len(infos) : infos[i] \in Names!Match
  BY ElementOfSeq, LenProperties DEF GoodNames, Names!TypeOK
<1>2. \A i \in 1 .. Len(infos) :
                 /\ infos[i].start \in Nat /\ infos[i].end \in Nat
                 /\ infos[i].start < infos[i].end
  BY <1>1 DEF Names!Match
<1>3. \A n \in 1 .. names.Name :
         found[n] \in Seq(Names!Match) /\ length[n] \in Nat
  BY DEF GoodNames, Names!TypeOK
<1>4. /\ current \in 1 .. names.Name + 1 /\ next \in 1 .. Len(infos) + 1
      /\ currentPos \in Nat
      /\ infos \in Seq(Names!Match) /\ parts \in Seq(Names!Part)
  BY DEF GoodNames, Names!TypeOK
<1> QED
  BY <1>1, <1>2, <1>3, <1>4

\* Passing over a name keeps the invariant.
LEMMA SkipOK ==
    ASSUME Names!HighlightAssumption, GoodNames, Names!SkipName
    PROVE  GoodNames'
<1>1. infos = <<>>
  <2>1. SUFFICES ASSUME infos # <<>>
                 PROVE  FALSE
    OBVIOUS
  <2>2. infos = Names!Sorted(<<>>)
    BY <2>1 DEF GoodNames, AtHand, Names!SkipName, Names!Unmatched
  <2>3. <<>> \in Seq(Names!Match) /\ Len(<<>>) = 0
    OBVIOUS
  <2>4. Len(infos) = 0
    BY <2>2, <2>3, SortedInOrder
  <2> QED
    BY <2>1, <2>4, NamesTypes, EmptySeq
<1>2. UNCHANGED <<length, found, infos, next, currentPos, parts, result>>
  BY DEF Names!SkipName
<1>3. current' \in 1 .. names.Name + 1
  BY SMTT(60), NamesTypes
     DEF Names!SkipName, Names!Unmatched, Names!HighlightAssumption
<1>4. Names!TypeOK'
  BY <1>2, <1>3 DEF GoodNames, Names!TypeOK
<1>5. \A s : Done(s)' <=> Done(s)
  BY <1>2 DEF Done
<1> QED
  BY <1>1, <1>2, <1>4, <1>5 DEF GoodNames

\* So does beginning a name, with its matches in order,
LEMMA BeginOK ==
    ASSUME Names!HighlightAssumption, GoodNames, Names!BeginName
    PROVE  GoodNames'
<1>1. /\ UNCHANGED <<length, found, current, result>>
      /\ current \in 1 .. names.Name /\ found[current] # <<>>
      /\ infos' = Names!Sorted(found[current])
      /\ next' = 1 /\ currentPos' = 0 /\ parts' = <<>>
  BY NamesTypes DEF Names!BeginName, Names!HighlightAssumption
<1>2. found[current] \in Seq(Names!Match)
  BY <1>1, NamesTypes
<1>3. infos' \in Seq(Names!Match) /\ Len(infos') = Len(found[current])
  BY <1>1, <1>2, SortedInOrder
<1>4. Len(infos') \in Nat \ {0} /\ infos' # <<>>
  BY <1>1, <1>2, <1>3, EmptySeq
<1>5. <<>> \in Seq(Names!Part) /\ Len(<<>>) = 0 /\ DOMAIN <<>> = {}
  OBVIOUS
<1>6. Names!TypeOK'
  BY <1>1, <1>3, <1>4, <1>5 DEF GoodNames, Names!TypeOK
<1>7. Names!Tile(<<>>, 0)
  BY <1>5 DEF Names!Tile
<1>8. Marks(<<>>, infos', 1 - 1)
  BY <1>5 DEF Marks
<1>9. AtHand'
  BY <1>1, <1>7, <1>8 DEF AtHand
<1>10. \A s : Done(s)' <=> Done(s)
  BY <1>1 DEF Done
<1> QED
  BY <1>1, <1>4, <1>6, <1>9, <1>10 DEF GoodNames

\* marking a match,
LEMMA MarkOK ==
    ASSUME Names!HighlightAssumption, GoodNames, Names!MarkMatch
    PROVE  GoodNames'
<1> DEFINE info == infos[next]
           before == parts \o Names!Cut(currentPos, info.start, FALSE)
<1>1. /\ UNCHANGED <<length, found, infos, current, result>>
      /\ next <= Len(infos) /\ next' = next + 1
      /\ parts' = before \o Names!Cut(info.start, info.end, TRUE)
      /\ currentPos' = info.end
  BY DEF Names!MarkMatch
<1>2. /\ next \in 1 .. Len(infos)
      /\ info.start \in Nat /\ info.end \in Nat /\ info.start < info.end
      /\ currentPos \in Nat /\ parts \in Seq(Names!Part)
  BY <1>1, NamesTypes
<1>3. infos # <<>> /\ AtHand
  BY <1>2, NamesTypes DEF GoodNames
<1>4. /\ current \in 1 .. names.Name
      /\ infos = Names!Sorted(found[current])
      /\ found[current] \in Seq(Names!Match)
  BY <1>3, NamesTypes DEF AtHand, Names!HighlightAssumption
<1> HIDE DEF info
<1>5. /\ before \in Seq(Names!Part)
      /\ parts' \in Seq(Names!Part)
      /\ \A c \in Nat : Marked(before, c) <=> Marked(parts, c)
      /\ \A c \in Nat : Marked(parts', c) <=>
            Marked(before, c) \/ (info.start <= c /\ c < info.end)
  <2>1. /\ before \in Seq(Names!Part)
        /\ \A c \in Nat : Marked(before, c) <=> Marked(parts, c)
    BY <1>2, CutMarks
  <2> HIDE DEF before
  <2> QED
    BY <1>1, <1>2, <2>1, CutMarks
<1>6. Marks(parts', infos', next' - 1)
  <2>1. ASSUME NEW c \in Nat
        PROVE  Marked(parts', c) <=>
                  \E j \in 1 .. next : infos[j].start <= c /\ c < infos[j].end
    <3>1. Marked(parts, c) <=>
             \E j \in 1 .. next - 1 : infos[j].start <= c /\ c < infos[j].end
      BY <1>3 DEF AtHand, Marks, Marked
    <3>2. 1 .. next = (1 .. next - 1) \union {next}
      BY <1>2
    <3> QED
      BY <1>5, <3>1, <3>2 DEF info
  <2>2. next' - 1 = next
    BY <1>1, <1>2
  <2> QED
    BY <1>1, <2>1, <2>2 DEF Marks, Marked
<1>7. ASSUME Names!NoOverlap(found[current])
      PROVE  Names!Tile(parts', currentPos')
  <2>1. Names!InOrder(infos) /\ DOMAIN infos = 1 .. Len(infos)
    BY <1>4, <1>7, SortedInOrder, LenProperties
  <2>2. currentPos <= info.start
    <3>1. CASE next = 1
      BY <1>2, <1>3, <3>1 DEF AtHand
    <3>2. CASE next > 1
      <4>1. currentPos = infos[next - 1].end
        BY <1>3, <3>2 DEF AtHand
      <4>2. next - 1 \in 1 .. Len(infos) /\ next - 1 < next
        BY <1>2, <3>2
      <4> QED
        BY <1>2, <2>1, <4>1, <4>2 DEF Names!InOrder, info
    <3> QED
      BY <1>2, <3>1, <3>2
  <2>3. Names!Tile(before, info.start)
    BY <1>2, <1>3, <1>7, <2>2, CutGrows DEF AtHand
  <2> HIDE DEF before
  <2>4. info.start <= info.end /\ TRUE \in BOOLEAN
    BY <1>2
  <2>5. Names!Tile(before \o Names!Cut(info.start, info.end, TRUE), info.end)
    BY <1>2, <1>5, <2>3, <2>4, CutGrows
  <2> QED
    BY <1>1, <2>5
<1>8. AtHand'
  <2>1. next' # 1 /\ next' - 1 = next
    BY <1>1, <1>2
  <2>2. currentPos' = infos[next' - 1].end
    BY <1>1, <2>1 DEF info
  <2> QED
    BY <1>1, <1>3, <1>6, <1>7, <2>1, <2>2 DEF AtHand
<1>9. Names!TypeOK'
  <2>1. next' \in 1 .. Len(infos') + 1
    BY <1>1, <1>2, NamesTypes
  <2>2. currentPos' \in Nat /\ parts' \in Seq(Names!Part)
    BY <1>1, <1>2, <1>5
  <2> QED
    BY <1>1, <2>1, <2>2 DEF GoodNames, Names!TypeOK
<1>10. \A s : Done(s)' <=> Done(s)
  BY <1>1 DEF Done
<1> QED
  BY <1>1, <1>3, <1>8, <1>9, <1>10 DEF GoodNames

\* and ending a name.
LEMMA EndOK ==
    ASSUME Names!HighlightAssumption, GoodNames, Names!EndName
    PROVE  GoodNames'
<1> DEFINE text == parts \o Names!Cut(currentPos, length[current], FALSE)
           shown == [name |-> current, parts |-> text]
<1>1. /\ UNCHANGED <<length, found>>
      /\ infos # <<>> /\ next > Len(infos)
      /\ result' = Append(result, shown)
      /\ infos' = <<>> /\ next' = 1 /\ parts' = <<>> /\ currentPos' = 0
      /\ current' = current + 1
  BY DEF Names!EndName
<1>2. AtHand
  BY <1>1 DEF GoodNames
<1>3. /\ current \in 1 .. names.Name /\ found[current] \in Seq(Names!Match)
      /\ length[current] \in Nat /\ currentPos \in Nat
         /\ parts \in Seq(Names!Part)
      /\ infos = Names!Sorted(found[current])
  BY <1>2, NamesTypes DEF AtHand, Names!HighlightAssumption
<1>4. /\ Len(infos) \in Nat \ {0} /\ next = Len(infos) + 1
      /\ Len(infos) = Len(found[current])
  BY <1>1, <1>3, NamesTypes, SortedInOrder, EmptySeq
<1>5. text \in Seq(Names!Part) /\ \A c \in Nat : Marked(text, c) <=>
         Marked(parts, c)
  BY <1>3, CutMarks
<1>6. currentPos <= length[current]
  <2>1. currentPos = infos[Len(infos)].end /\ Len(infos) \in 1 .. Len(infos)
    BY <1>2, <1>4 DEF AtHand
  <2>2. PICK j \in 1 .. Len(found[current]) :
           infos[Len(infos)] = found[current][j]
    <3>1. SameMatches(infos, found[current])
      BY <1>3, SortedInOrder
    <3> QED
      BY <1>4, <2>1, <3>1 DEF SameMatches
  <2>3. j \in DOMAIN found[current]
    BY <1>3, LenProperties
  <2> QED
    BY <1>3, <2>1, <2>2, <2>3 DEF GoodNames
<1>7. Names!NoOverlap(found[current]) => Names!Tile(text, length[current])
  BY <1>2, <1>3, <1>6, CutGrows DEF AtHand
<1> HIDE DEF text
<1>8. Marks(text, found[current], Len(found[current]))
  <2>1. ASSUME NEW c \in Nat
        PROVE  Marked(text, c) <=>
                  \E j \in 1 .. Len(found[current]) :
                     found[current][j].start <= c /\ c < found[current][j].end
    <3>1. Marked(parts, c) <=>
             \E j \in 1 .. Len(infos) : infos[j].start <= c /\ c < infos[j].end
      <4>1. next - 1 = Len(infos)
        BY <1>4
      <4> QED
        BY <1>2, <4>1 DEF AtHand, Marks, Marked
    <3>2. /\ \A i \in 1 .. Len(infos) : \E j \in 1 .. Len(infos) :
                 infos[i] = found[current][j]
          /\ \A j \in 1 .. Len(infos) : \E i \in 1 .. Len(infos) :
                 infos[i] = found[current][j]
      <4>1. SameMatches(infos, found[current])
        BY <1>3, SortedInOrder
      <4> QED
        BY <1>4, <4>1 DEF SameMatches
    <3> QED
      BY <1>4, <1>5, <3>1, <3>2
  <2> QED
    BY <2>1 DEF Marks, Marked
<1>9. Done(shown)
  BY <1>7, <1>8 DEF Done
<1>10. result \in Seq([name : 1 .. names.Name, parts : Seq(Names!Part)])
       /\ shown \in [name : 1 .. names.Name, parts : Seq(Names!Part)]
  BY <1>3, <1>5 DEF GoodNames, Names!TypeOK
<1> HIDE DEF shown
<1>11. /\ result' \in Seq([name : 1 .. names.Name, parts : Seq(Names!Part)])
       /\ \A i \in DOMAIN result' :
             \/ i \in DOMAIN result /\ result'[i] = result[i]
             \/ result'[i] = shown
  <2>1. /\ result' \in Seq([name : 1 .. names.Name, parts : Seq(Names!Part)])
        /\ Len(result') = Len(result) + 1
        /\ \A i \in 1 .. Len(result) : result'[i] = result[i]
        /\ result'[Len(result) + 1] = shown
    BY <1>1, <1>10, AppendProperties
  <2>2. /\ Len(result) \in Nat /\ DOMAIN result = 1 .. Len(result)
        /\ DOMAIN result' = 1 .. Len(result) + 1
    BY <1>10, <2>1, LenProperties
  <2> QED
    BY <2>1, <2>2
<1>12. \A s : Done(s)' <=> Done(s)
  BY <1>1 DEF Done
<1>13. <<>> \in Seq(Names!Match) /\ <<>> \in Seq(Names!Part) /\ Len(<<>>) = 0
  OBVIOUS
<1>14. current' \in 1 .. names.Name + 1
  BY <1>1, <1>3 DEF Names!HighlightAssumption
<1>15. Names!TypeOK'
  BY SMTT(60), <1>1, <1>11, <1>13, <1>14 DEF GoodNames, Names!TypeOK
<1> QED
  BY <1>1, <1>9, <1>11, <1>12, <1>15 DEF GoodNames

\* Every step keeps the invariant of names.
LEMMA NamesStep ==
    ASSUME Names!HighlightAssumption, GoodNames, [Names!Next]_namesVars
    PROVE  GoodNames'
<1>1. CASE UNCHANGED namesVars
  <2>1. \A s : Done(s)' <=> Done(s)
    BY <1>1 DEF Done, namesVars
  <2>2. AtHand' <=> AtHand
    BY <1>1 DEF AtHand, namesVars
  <2> QED
    BY <1>1, <2>1, <2>2 DEF GoodNames, Names!TypeOK, namesVars
<1> QED
  BY <1>1, SkipOK, BeginOK, MarkOK, EndOK DEF Names!Next

\* It says that text is whole, and what is marked was matched.
LEMMA NamesRight ==
    ASSUME Names!HighlightAssumption, GoodNames
    PROVE  Names!IInv /\ Names!TextIsWhole /\ Names!MarkedIsMatched
<1>1. Names!TextIsWhole
  BY DEF GoodNames, Done, Names!TextIsWhole
<1>2. Names!MarkedIsMatched
  <2> SUFFICES ASSUME NEW i \in DOMAIN result, NEW c \in 0 .. names.MaxLength
               PROVE  (\E k \in DOMAIN result[i].parts :
                          /\ result[i].parts[k].mark
                          /\ c \in result[i].parts[k].from ..
                                   result[i].parts[k].to - 1)
                      <=> \E k \in DOMAIN found[result[i].name] :
                             c \in found[result[i].name][k].start ..
                                   found[result[i].name][k].end - 1
    BY Zenon DEF Names!MarkedIsMatched
  <2>1. /\ result[i].name \in 1 .. names.Name
        /\ result[i].parts \in Seq(Names!Part)
    <3>1. result \in Seq([name : 1 .. names.Name, parts : Seq(Names!Part)])
      BY DEF GoodNames, Names!TypeOK
    <3>2. result[i] \in [name : 1 .. names.Name, parts : Seq(Names!Part)]
      BY <3>1, ElementOfSeq, LenProperties
    <3> QED
      BY <3>2
  <2> DEFINE ps == result[i].parts
             ms == found[result[i].name]
  <2>2. ms \in Seq(Names!Match)
    BY <2>1, NamesTypes
  <2>3. Marks(ps, ms, Len(ms))
    BY DEF GoodNames, Done
  <2>4. c \in Nat
    BY DEF Names!HighlightAssumption
  <2>5. DOMAIN ms = 1 .. Len(ms)
    BY <2>2, LenProperties
  <2>6. \A k \in DOMAIN ps : ps[k].from \in Nat /\ ps[k].to \in Nat
    <3>1. \A k \in DOMAIN ps : ps[k] \in Names!Part
      BY <2>1, ElementOfSeq, LenProperties
    <3> QED
      BY <3>1 DEF Names!Part
  <2>7. \A k \in DOMAIN ms : ms[k].start \in Nat /\ ms[k].end \in Nat
    <3>1. \A k \in DOMAIN ms : ms[k] \in Names!Match
      BY <2>2, ElementOfSeq, LenProperties
    <3> QED
      BY <3>1 DEF Names!Match
  <2> HIDE DEF ps, ms
  <2>8. \A k \in DOMAIN ps : c \in ps[k].from .. ps[k].to - 1 <=>
           ps[k].from <= c /\ c < ps[k].to
    BY <2>4, <2>6
  <2>9. \A k \in DOMAIN ms : c \in ms[k].start .. ms[k].end - 1 <=>
           ms[k].start <= c /\ c < ms[k].end
    BY <2>4, <2>7
  <2>10. (\E k \in DOMAIN ps : ps[k].mark /\ c \in ps[k].from .. ps[k].to - 1)
         <=> \E k \in DOMAIN ms : c \in ms[k].start .. ms[k].end - 1
    BY <2>3, <2>4, <2>5, <2>8, <2>9, Zenon DEF Marks
  <2> QED
    BY <2>10 DEF ps, ms
<1>3. ASSUME infos # <<>>
      PROVE  /\ current <= names.Name
             /\ \A i \in DOMAIN infos : infos[i].end <= length[current]
             /\ Names!NoOverlap(found[current]) =>
                   /\ Names!InOrder(infos)
                   /\ Names!Tile(parts, currentPos)
                   /\ next = 1 => currentPos = 0
                   /\ next > 1 => currentPos = infos[next - 1].end
  <2>1. AtHand /\ current \in 1 .. names.Name
    BY <1>3, NamesTypes DEF GoodNames, AtHand, Names!HighlightAssumption
  <2>2. infos = Names!Sorted(found[current])
        /\ found[current] \in Seq(Names!Match)
    BY <2>1, NamesTypes DEF AtHand
  <2>3. ASSUME NEW i \in DOMAIN infos
        PROVE  infos[i].end <= length[current]
    <3>1. DOMAIN infos = 1 .. Len(found[current])
      BY <2>2, SortedInOrder, LenProperties
    <3>2. PICK j \in 1 .. Len(found[current]) : infos[i] = found[current][j]
      <4>1. SameMatches(infos, found[current])
        BY <2>2, SortedInOrder
      <4> QED
        BY <3>1, <4>1 DEF SameMatches
    <3>3. j \in DOMAIN found[current]
      BY <2>2, LenProperties
    <3> QED
      BY <2>1, <3>2, <3>3 DEF GoodNames
  <2>4. Names!NoOverlap(found[current]) => Names!InOrder(infos)
    BY <2>2, SortedInOrder
  <2> QED
    BY <2>1, <2>3, <2>4 DEF AtHand
<1>4. Names!IInv
  BY <1>3 DEF GoodNames, Names!IInv
<1> QED
  BY <1>1, <1>2, <1>4

-----------------------------------------------------------------------------
\* The invariant of the handler that runs.
GoodHandler ==
    /\ runs = "browser" => GoodSession
    /\ runs = "videos" => Videos!IInv
    /\ runs = "previous" => GoodPrevious
    /\ runs = "targets" => GoodTarget
    /\ runs = "files" => GoodFiles
    /\ runs = "names" => GoodNames

\* It holds in every behaviour, whatever the sizes of the handlers.
LEMMA HandlersHold == Spec => []GoodHandler
<1> USE HandlersAssumption DEF HandlersAssumption
<1>1. Init => GoodHandler
  BY Begins, SessionInit, UploadsInit, PreviousInit, TargetsInit, FilesInit,
     NamesInit DEF GoodHandler
<1>2. GoodHandler /\ [Next]_vars => GoodHandler'
  <2> SUFFICES ASSUME GoodHandler, [Next]_vars
               PROVE  GoodHandler'
    OBVIOUS
  <2>1. UNCHANGED runs
    BY Moves
  <2>2. runs = "browser" => GoodSession'
    BY Moves, SessionStep DEF GoodHandler
  <2>3. runs = "videos" => Videos!IInv'
    BY Moves, UploadsStep DEF GoodHandler
  <2>4. runs = "previous" => GoodPrevious'
    BY Moves, PreviousStep DEF GoodHandler
  <2>5. runs = "targets" => GoodTarget'
    BY Moves, TargetsStep DEF GoodHandler
  <2>6. runs = "files" => GoodFiles'
    BY Moves, FilesStep DEF GoodHandler
  <2>7. runs = "names" => GoodNames'
    BY Moves, NamesStep DEF GoodHandler
  <2> QED
    BY <2>1, <2>2, <2>3, <2>4, <2>5, <2>6, <2>7 DEF GoodHandler
<1> QED
  BY <1>1, <1>2, PTL DEF Spec

\* The invariants that the handlers are checked with hold: tokens, cookies and
\* answers, the uploads' directories, the file service's answer, the name that
\* is being cut.
THEOREM HandlersConsistent == Spec => []Consistent
<1> USE HandlersAssumption DEF HandlersAssumption
<1>1. GoodHandler => Consistent
  BY BrowserParts, UploadsParts, FilesType, NamesRight
     DEF GoodHandler, Consistent
<1> QED
  BY <1>1, HandlersHold, PTL

\* A log-in or log-out that met no old token and overlapped no other answer
\* that sets cookies keeps the last word, however many requests renew tokens
\* after it; when answers do overtake each other, whoever is logged in is one of
\* those who logged in since the last change that was answered alone, and with
\* no expired token.
THEOREM LastWordHolds == Spec => []LastWord
<1> USE HandlersAssumption DEF HandlersAssumption
<1>1. GoodHandler => LastWord
  BY BrowserParts DEF GoodHandler, LastWord
<1> QED
  BY <1>1, HandlersHold, PTL

\* An upload that is answered has media and an image from the temporary
\* directory it was given, its own if no other was given that, and a directory
\* outlives all uploads in it only if a removal failed, a body broke off or a
\* client went.
THEOREM OwnMediaHolds == Spec => []OwnMedia
<1> USE HandlersAssumption DEF HandlersAssumption
<1>1. GoodHandler => OwnMedia
  BY UploadsParts DEF GoodHandler, OwnMedia
<1> QED
  BY <1>1, HandlersHold, PTL

\* Whatever the second a proposal is approved in and however far the index lags
\* behind, the length of a target, of a file or of a name: the previous version
\* was approved before, and of those the index knew it is the last to a second;
\* a target that is taken continues its parent, a file is sent from the byte it
\* was asked for, and a name's text is shown whole, its matches marked.
THEOREM AnswersAreRight == Spec => []RightAnswers
<1> USE HandlersAssumption DEF HandlersAssumption
<1>1. GoodHandler => RightAnswers
  BY PreviousRight, TakenContinues, RightIsTaken, FilesRight, NamesRight
     DEF GoodHandler, RightAnswers
<1> QED
  BY <1>1, HandlersHold, PTL
================================================================================
