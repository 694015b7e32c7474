-------------------------------- MODULE SignIn --------------------------------
(***************************************************************************)
(* Signing in: the dialogs of the application and of a page for new        *)
(* proposals, and the class that keeps the page behind a dialog from       *)
(* scrolling.                                                              *)
(*                                                                         *)
(* A page asks for a sign-in whenever it is told query parameters and      *)
(* there is no cookie.  It may be told while it asks already, and it may   *)
(* be left by the browser's buttons while it asks.  Showing and hiding     *)
(* toggle a class of the document's body, which outlives both dialogs.  A  *)
(* dialog covers everything else on the page.                              *)
(***************************************************************************)
CONSTANTS Params    \* the query parameters of a page for new proposals

Dialog == {"app", "page"}

VARIABLES at,        \* where the browser is: "out" of the page, "twitter", or
                     \* on the page with some parameters
          claims,    \* there is a cookie
          userInfo,  \* the cookie as fb-app has last seen it
          shown,     \* dialog -> shown
          agreed,    \* dialog -> the terms are agreed to
          locked,    \* the body has the class modal-open
          odd,       \* history: how often, odd or even, a dialog was shown
                     \* when it was shown already, or left open
          asked      \* the page was told parameters without a cookie

vars == <<at, claims, userInfo, shown, agreed, locked, odd, asked>>

Out == [is |-> "out", of |-> {}]
Twitter == [is |-> "twitter", of |-> {}]
Page(params) == [is |-> "page", of |-> {params}]

TypeOK ==
    /\ at \in {Out, Twitter} \union {Page(p) : p \in Params}
    /\ {claims, userInfo, locked, odd, asked} \subseteq BOOLEAN
    /\ shown \in [Dialog -> BOOLEAN] /\ agreed \in [Dialog -> BOOLEAN]

-----------------------------------------------------------------------------
AnyShown == \E d \in Dialog : shown[d]

Init ==
    /\ at = Out
    /\ claims \in BOOLEAN
    /\ userInfo = claims
    /\ shown = [d \in Dialog |-> FALSE]
    /\ agreed = [d \in Dialog |-> FALSE]
    /\ locked = FALSE
    /\ odd = FALSE
    /\ asked = FALSE

\* The cookie expires, or the user signs in in another window.
ClaimsChange ==
    /\ claims' = ~claims
    /\ UNCHANGED <<at, userInfo, shown, agreed, locked, odd, asked>>

\* The button that says "Sign In".
OnSignInClicked ==
    /\ at # Twitter /\ ~userInfo /\ ~AnyShown
    /\ shown' = [shown EXCEPT !["app"] = TRUE]
    /\ locked' = ~locked
    /\ UNCHANGED <<at, claims, userInfo, agreed, odd, asked>>

\* The page is told its parameters.
QueryParamsChangedUnseen(already) ==
    /\ shown' = [shown EXCEPT !["page"] = already]
    /\ locked' = locked
    /\ odd' = odd
    /\ asked' = ~claims

QueryParamsChanged(already) ==
    /\ shown' = [shown EXCEPT !["page"] = already \/ ~claims]
    /\ locked' = IF claims THEN locked ELSE ~locked
    /\ odd' = IF ~claims /\ already THEN ~odd ELSE odd
    /\ asked' = (asked \/ ~claims)

\* The page is opened; its dialog is new.
Open(params) ==
    /\ at = Out
    /\ at' = Page(params)
    /\ userInfo' = claims
    /\ QueryParamsChanged(FALSE)
    /\ agreed' = [agreed EXCEPT !["page"] = FALSE]
    /\ UNCHANGED claims

\* It is there and gets other parameters.
Change(params) ==
    /\ at \in {Page(p) : p \in Params \ {params}}
    /\ at' = Page(params)
    /\ QueryParamsChanged(shown["page"])
    /\ UNCHANGED <<claims, userInfo, agreed>>

\* The page goes, and its dialog with it.
Leave ==
    /\ at \notin {Out, Twitter}
    /\ at' = Out
    /\ userInfo' = claims
    /\ shown' = [shown EXCEPT !["page"] = FALSE]
    /\ odd' = IF shown["page"] THEN ~odd ELSE odd
    /\ asked' = FALSE
    /\ UNCHANGED <<claims, agreed, locked>>

Agree(d) ==
    /\ at # Twitter
    /\ shown[d]
    /\ agreed' = [agreed EXCEPT ![d] = ~@]
    /\ UNCHANGED <<at, claims, userInfo, shown, locked, odd, asked>>

OnCancelClickedKeepsLock(d) ==
    /\ at # Twitter
    /\ shown[d]
    /\ shown' = [shown EXCEPT ![d] = FALSE]
    /\ at' = IF d = "page" THEN Out ELSE at
    /\ userInfo' = IF d = "page" THEN claims ELSE userInfo
    /\ asked' = IF d = "page" THEN FALSE ELSE asked
    /\ UNCHANGED <<claims, agreed, locked, odd>>

\* A page's dialog has a cancelUrl, which leads away from the page.
OnCancelClicked(d) ==
    /\ at # Twitter
    /\ shown[d]
    /\ shown' = [shown EXCEPT ![d] = FALSE]
    /\ locked' = ~locked
    /\ at' = IF d = "page" THEN Out ELSE at
    /\ userInfo' = IF d = "page" THEN claims ELSE userInfo
    /\ asked' = IF d = "page" THEN FALSE ELSE asked
    /\ UNCHANGED <<claims, agreed, odd>>

LogIn(d) ==
    /\ at # Twitter
    /\ shown[d] /\ agreed[d]
    /\ at' = Twitter
    /\ UNCHANGED <<claims, userInfo, shown, agreed, locked, odd, asked>>

\* The application is loaded anew, signed in or not.
ComeBack ==
    /\ at = Twitter
    /\ at' = Out
    /\ claims' \in BOOLEAN
    /\ userInfo' = claims'
    /\ shown' = [d \in Dialog |-> FALSE]
    /\ agreed' = [d \in Dialog |-> FALSE]
    /\ locked' = FALSE
    /\ odd' = FALSE
    /\ asked' = FALSE

Next ==
    \/ ClaimsChange
    \/ OnSignInClicked
    \/ \E params \in Params : Open(params) \/ Change(params)
    \/ Leave
    \/ \E d \in Dialog : Agree(d) \/ OnCancelClicked(d) \/ LogIn(d)
    \/ ComeBack

Spec == Init /\ [][Next]_vars

-----------------------------------------------------------------------------
\* A page that was told parameters without a cookie has its dialog up for as
\* long as it is there, whichever way the parameters and the cookie change:
\* nobody gets at a form they may not send by cancelling.
AskedUntilLeft == asked => shown["page"]

\* The body does not scroll while one dialog is shown, and scrolls while none
\* is or both are; a dialog that is shown again or left open turns that round,
\* until the next that is, and nothing else does.
LockMatches ==
    LET one == shown["app"] # shown["page"]
    IN  locked <=> IF odd THEN ~one ELSE one

\* No dialog of a page is shown without its page.
IInv ==
    /\ TypeOK
    /\ at = Out => ~shown["page"] /\ ~asked
    /\ AskedUntilLeft
    /\ LockMatches
=============================================================================
