------------------------------ MODULE AppRouting ------------------------------
(***************************************************************************)
(* From the browser's address to the page on the screen: fb-app and the    *)
(* two sections that have pages of their own.                              *)
(*                                                                         *)
(* app-location tells fb-app the path, and after it the query parameters.  *)
(* fb-app picks the section to show, and hands the rest of the path and    *)
(* the query down; a section does the same with its pages.  An element     *)
(* under a condition is stamped or removed only when all this is done; but *)
(* a condition that has become false hands nothing down any more.  That is *)
(* why what is shown must be set "first before relative path".             *)
(***************************************************************************)
CONSTANTS Path,    \* [section, page, arg] of the paths the app may be at
          Query,   \* query parameters
          User,    \* who may be signed in
          NoUser,
          NoMatch, \* the argument of a path its section cannot read
          Nothing  \* no page, no argument

Section == {"home", "search", "documents", "proposals", "tos", "notFound"}

\* The pages of each section, and those a query is handed to.
PagesOf(section) ==
    CASE section = "documents" -> {"game", "char", "move"}
      [] section = "proposals" ->
            {"newGame", "newChar", "newMove", "viewById", "listAll",
             "listForDoc", "listForUser"}
      [] OTHER -> {}

ReadsQuery == {"newGame", "newChar", "newMove", "game", "char"}

\* What the constants are.
AppRoutingAssumption ==
    /\ \A p \in Path :
          /\ p.section \in Section
          /\ p.page \in PagesOf(p.section) \union {"notFound"}
          /\ p.arg = NoMatch => p.page = "notFound"
    /\ \A section \in Section : Nothing \notin PagesOf(section)
    /\ Nothing \notin Section
    /\ NoUser \notin User

VARIABLES address,   \* what the browser shows: path, query
          told,      \* the query app-location has told
          section,   \* what fb-app shows
          stamped,   \* the section that is stamped, with its page
          claims,    \* the user of the cookie
          userInfo,  \* the user fb-app has on display
          next       \* what comes next of a change of address

vars == <<address, told, section, stamped, claims, userInfo, next>>

NoPage == [is |-> Nothing, arg |-> Nothing, query |-> Nothing]
NoSection == [is |-> Nothing, path |-> Nothing, query |-> Nothing,
              page |-> NoPage]

TypeOK ==
    /\ address \in [path : Path, query : Query]
    /\ told \in Query
    /\ section \in Section
    /\ stamped.is \in Section \union {Nothing}
    /\ claims \in User \union {NoUser} /\ userInfo \in User \union {NoUser}
    /\ next \in {"rest", "section", "path", "query", "stamp", "stampPage"}

-----------------------------------------------------------------------------
\* The page that a section shows for its path.
PageShown(s) == IF s.path.section = s.is THEN s.path.page ELSE "notFound"

QueryFor(page, query) == IF page \in ReadsQuery THEN query ELSE Nothing

\* What a page gets if its condition still holds.
PageGetsArg(page, shown, arg) ==
    IF page.is = shown THEN [page EXCEPT !.arg = arg] ELSE page

PageGetsQuery(page, shown, query) ==
    IF page.is = shown THEN [page EXCEPT !.query = QueryFor(shown, query)]
    ELSE page

GetsPathArgFirst(s, path) ==
    [s EXCEPT !.path = path, !.page = PageGetsArg(@, @.is, path.arg)]

\* A section picks the page to show and hands it the argument.
GetsPath(s, path) ==
    LET shown == PageShown([s EXCEPT !.path = path])
    IN  [s EXCEPT !.path = path, !.page = PageGetsArg(@, shown, path.arg)]

GetsQuery(s, query) ==
    [s EXCEPT !.query = query, !.page = PageGetsQuery(@, PageShown(s), query)]

\* document-pages reads a match it does not have, and what was left to do is
\* not done: app-location does not tell the query.
Fails(s, path) == s.is = "documents" /\ path.arg = NoMatch

-----------------------------------------------------------------------------
Init ==
    /\ address \in [path : Path, query : Query]
    /\ told = address.query
    /\ section = "notFound"
    /\ stamped = NoSection
    /\ claims \in User \union {NoUser}
    /\ userInfo = NoUser
    /\ next = "section"

\* A link, or the browser's buttons.
Visit(path, query) ==
    /\ next = "rest"
    /\ [path |-> path, query |-> query] # address
    /\ address' = [path |-> path, query |-> query]
    /\ next' = IF path # address.path THEN "section" ELSE "query"
    /\ UNCHANGED <<told, section, stamped, claims, userInfo>>

\* The user signs in or out in another window, or the cookie expires.
ClaimsChange ==
    /\ next = "rest"
    /\ claims' \in (User \union {NoUser}) \ {claims}
    /\ UNCHANGED <<address, told, section, stamped, userInfo, next>>

OnRouteChanged ==
    /\ next = "section"
    /\ section' = address.path.section
    /\ userInfo' = claims
    /\ next' = "path"
    /\ UNCHANGED <<address, told, stamped, claims>>

\* _relativePath goes to the section, if it is stamped and shown.
HandDown ==
    /\ next = "path"
    /\ stamped' = IF stamped.is # section THEN stamped
                  ELSE GetsPath(stamped, address.path)
    /\ next' = IF stamped.is = section /\ Fails(stamped, address.path)
               THEN "stamp" ELSE "query"
    /\ UNCHANGED <<address, told, section, claims, userInfo>>

QueryOnlyFirst ==
    /\ next = "query"
    /\ told' = address.query
    /\ next' = "stamp"
    /\ UNCHANGED <<address, section, stamped, claims, userInfo>>

QueryChanged ==
    /\ next = "query"
    /\ told' = address.query
    /\ stamped' = IF stamped.is # section THEN stamped
                  ELSE GetsQuery(stamped, address.query)
    /\ next' = "stamp"
    /\ UNCHANGED <<address, section, claims, userInfo>>

\* A section that is not stamped yet takes the place of the one that is.  One
\* that is new reads path and query at once.
Stamp ==
    /\ next = "stamp"
    /\ stamped' = IF stamped.is = section THEN stamped
                  ELSE [is |-> section, path |-> address.path, query |-> told,
                        page |-> NoPage]
    /\ next' = "stampPage"
    /\ UNCHANGED <<address, told, section, claims, userInfo>>

\* And so with the section's page.
StampPage ==
    /\ next = "stampPage"
    /\ LET shown == PageShown(stamped)
           page == [is |-> shown, arg |-> stamped.path.arg,
                    query |-> QueryFor(shown, stamped.query)]
       IN  stamped' = [stamped EXCEPT !.page =
                          IF shown = "notFound" THEN NoPage
                          ELSE IF @.is = shown THEN @ ELSE page]
    /\ next' = "rest"
    /\ UNCHANGED <<address, told, section, claims, userInfo>>

Next ==
    \/ \E path \in Path, query \in Query : Visit(path, query)
    \/ ClaimsChange
    \/ OnRouteChanged
    \/ HandDown
    \/ QueryChanged
    \/ Stamp
    \/ StampPage

Spec == Init /\ [][Next]_vars

-----------------------------------------------------------------------------
\* Of a section: its path, its query and its page.
StampedOK ==
    /\ stamped.path \in Path /\ stamped.path.section = stamped.is
    /\ stamped.query \in Query
    /\ \/ stamped.page = NoPage
       \/ /\ stamped.page.is \in PagesOf(stamped.is)
          /\ \E p \in Path : /\ p.page = stamped.page.is
                             /\ p.arg = stamped.page.arg

\* What is on the screen follows the address: fb-app's section, then its path,
\* then its query unless it was not told it, and the page that they are handed
\* to where it is the address's.
IInv ==
    /\ TypeOK
    /\ \/ stamped = NoSection
       \/ stamped.is # Nothing /\ StampedOK
    /\ next # "section" => section = address.path.section
    /\ next = "stamp" /\ stamped.is # section => told = address.query
    /\ next \in {"stampPage", "rest"} => stamped.is = section
    /\ next \notin {"section", "path"} /\ stamped.is = section =>
          /\ stamped.path = address.path
          /\ stamped.page.is = address.path.page =>
                stamped.page.arg = address.path.arg
          /\ next # "query" =>
                /\ \/ stamped.query = address.query
                   \/ Fails(stamped, address.path)
                /\ stamped.page.is = address.path.page =>
                      stamped.page.query =
                          QueryFor(address.path.page, address.query)
    /\ next = "rest" =>
          stamped.page.is = IF address.path.page = "notFound" THEN Nothing
                            ELSE address.path.page

\* When an address has been followed the page it names is on the screen, with
\* the argument and the query of the address.
PageFollowsAddress ==
    next = "rest" =>
        /\ section = address.path.section
        /\ stamped.is = section
        /\ IF address.path.page = "notFound" THEN stamped.page = NoPage
           ELSE stamped.page = [is |-> address.path.page,
                                arg |-> address.path.arg,
                                query |-> QueryFor(address.path.page,
                                                   address.query)]

\* No page is ever handed the argument of another, a user's for a document's
\* for example, which it would ask the server for; nor a section another's.
OwnArguments ==
    stamped.is # Nothing =>
        /\ stamped.path.section = stamped.is
        /\ stamped.page # NoPage =>
              \E p \in Path : /\ p.page = stamped.page.is
                              /\ p.arg = stamped.page.arg
=============================================================================
