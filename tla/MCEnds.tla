-------------------------------- MODULE MCEnds --------------------------------
(***************************************************************************)
(* Smaller instances of the elements that wait for answers, and of the     *)
(* session of a browser, for what must come about in the end.  As in       *)
(* MCPages one of them moves; the others are at rest, with nothing in      *)
(* flight.                                                                 *)
(***************************************************************************)
EXTENDS Naturals, Sequences, TLC

CONSTANTS Nothing, Unreadable, Nobody

VARIABLES screen,
          address, page, list,                          \* Documents
          params, box, loader, asked,                   \* Search
          proposed, created, options, proposals, currentPage, stencil,
          loadError, loadMoreHidden, ajax, drift,       \* Proposals
          statuses, patches, user, path, view,          \* View
          wanted, form, posts, viewed, behind,          \* NewGame
          now, cookie, requests, answers, meant, raced, lapsed,  \* Browser
          entered

-----------------------------------------------------------------------------
\* A game with children on two pages of two, one without, and a character that
\* is not there.
Ids == {"sf5", "kof", "ryu"}
Kinds == "sf5" :> "games" @@ "kof" :> "games" @@ "ryu" :> "chars"
Lists == "sf5" :> <<"a", "b", "c">> @@ "kof" :> <<>> @@ "ryu" :> <<>>

Documents == INSTANCE DocumentPage WITH
    Id <- Ids, Kind <- {"games", "chars"}, KindOf <- Kinds,
    Published <- {"sf5", "kof"},
    Child <- {"a", "b", "c"}, Children <- Lists,
    Page <- 1 .. 2, PageSize <- 2

\* One text finds two pages of results, one none.
Search == INSTANCE SearchResults WITH
    Text <- {"", "hadoken", "typo"}, Empty <- "", Blank <- {""},
    ReadBack <- "" :> "" @@ "hadoken" :> "hadoken" @@ "typo" :> "typo",
    Target <- {Nothing},
    Doc <- {"a", "b", "c"},
    Results <- <<"", Nothing>> :> <<>> @@ <<"typo", Nothing>> :> <<>>
                 @@ <<"hadoken", Nothing>> :> <<"a", "b", "c">>,
    MaxPage <- 2, PageSize <- 2

Proposals == INSTANCE ProposalList WITH
    statuses <- proposed,
    Scope <- {1 .. 1}, MaxProposals <- 1, MaxPage <- 1, PageSize <- 1

\* One proposal, by an admin, and one that is not there.
View == INSTANCE ViewProposal WITH
    Target <- {"sf5"}, Version <- {1, 2},
    Stored <- {<<"sf5", 1>>}, AuthorOf <- <<"sf5", 1>> :> "ann",
    User <- {"ann", Nobody}, Admin <- {"ann"}, MaxPatches <- 1

\* The form for games with one game.
NewGame == INSTANCE NewProposal WITH
    params <- wanted, page <- form,
    Name <- {"sf5"}, Typed <- {"sf5"}, Padded <- {},
    Published <- {<<"sf5">>}, Parent <- {<<>>}, Target <- {<<"sf5">>},
    MaxPosts <- 1, MaxFiles <- 0

\* One user, with one request at a time.  A token is valid for one step of the
\* clock, can be renewed for one or two more, and is too old after that.
Browser == INSTANCE Session WITH
    asked <- meant,
    User <- {"ann"}, NoUser <- Nobody,
    TokenExp <- 1, TokenMaxLife <- 2, MaxTime <- 5, MaxRequests <- 1

ASSUME EndsAssumption ==
    /\ Documents!DocumentPageAssumption
    /\ Search!SearchResultsAssumption
    /\ Proposals!ProposalListAssumption
    /\ View!ViewProposalAssumption
    /\ NewGame!NewProposalAssumption
    /\ Browser!SessionAssumption

-----------------------------------------------------------------------------
\* At rest.
NoDocuments ==
    LET a == [id |-> "sf5", page |-> 1]
    IN  /\ address = Nothing
        /\ page = [Documents!StampedPage(a) EXCEPT !.ajax = {}]
        /\ list = [Documents!StampedList(a) EXCEPT !.ajax = {}]

NoSearch ==
    params = Nothing /\ box = "" /\ loader = Search!Idle /\ asked = Nothing

NoProposals ==
    /\ proposed = <<>> /\ created = <<>> /\ options = Nothing
    /\ proposals = <<>> /\ currentPage = 0
    /\ stencil = FALSE /\ loadError = FALSE /\ loadMoreHidden = TRUE
    /\ ajax = {}
    /\ drift = "none"

NoView ==
    /\ statuses = [p \in {<<"sf5", 1>>} |-> "pending"] /\ patches = <<>>
    /\ user = Nobody
    /\ path = <<"sf5", 1>>
    /\ view = [View!Loaded(<<"sf5", 1>>) EXCEPT !.getAjax = {}]

NoForm ==
    /\ wanted = [target |-> Nothing, parent |-> <<>>]
    /\ form = NewGame!Stamped([target |-> Nothing, parent |-> <<>>])
    /\ posts = <<>> /\ viewed = 0 /\ behind = {}

NoBrowser ==
    /\ now = 0 /\ cookie = Browser!NoToken
    /\ requests = {} /\ answers = {}
    /\ meant = Nobody /\ raced = FALSE /\ lapsed = FALSE /\ entered = {}

Init ==
    /\ screen \in {"documents", "search", "proposals", "view", "form",
                   "browser"}
    /\ IF screen = "documents" THEN Documents!Init ELSE NoDocuments
    /\ IF screen = "search" THEN Search!Init ELSE NoSearch
    /\ IF screen = "proposals" THEN Proposals!Init ELSE NoProposals
    /\ IF screen = "view" THEN View!Init ELSE NoView
    /\ IF screen = "form" THEN NewGame!Init ELSE NoForm
    /\ IF screen = "browser" THEN Browser!Init ELSE NoBrowser

documents == <<address, page, list>>
search == <<params, box, loader, asked>>
rows == <<proposed, created, options, proposals, currentPage, stencil,
          loadError, loadMoreHidden, ajax, drift>>
proposal == <<statuses, patches, user, path, view>>
new == <<wanted, form, posts, viewed, behind>>
browser ==
    <<now, cookie, requests, answers, meant, raced, lapsed, entered>>

vars == <<screen, documents, search, rows, proposal, new, browser>>

Next ==
    \/ /\ screen = "documents" /\ Documents!Next
       /\ UNCHANGED <<screen, search, rows, proposal, new, browser>>
    \/ /\ screen = "search" /\ Search!Next
       /\ UNCHANGED <<screen, documents, rows, proposal, new, browser>>
    \/ /\ screen = "proposals" /\ Proposals!Next
       /\ UNCHANGED <<screen, documents, search, proposal, new, browser>>
    \/ /\ screen = "view" /\ View!Next
       /\ UNCHANGED <<screen, documents, search, rows, new, browser>>
    \/ /\ screen = "form" /\ NewGame!Next
       /\ UNCHANGED <<screen, documents, search, rows, proposal, browser>>
    \/ /\ screen = "browser" /\ Browser!Next
       /\ UNCHANGED <<screen, documents, search, rows, proposal, new>>

\* The session's, where it is the browser that moves: see Session.
BrowserFairness ==
    /\ SF_browser(screen = "browser" /\ Browser!RouteRequest("page", Nobody))
    /\ SF_browser(\E r \in requests :
          r.asks = "page" /\ Browser!ModifyResponseHeaders(r))
    /\ WF_browser(\E r \in requests :
          Browser!ModifyResponseHeaders(r) \/ Browser!ToResponse(r))
    /\ WF_browser(\E a \in answers : Browser!Receive(a))

Fairness ==
    /\ Documents!Fairness
    /\ Search!Fairness
    /\ Proposals!Fairness
    /\ View!Fairness
    /\ NewGame!Fairness
    /\ BrowserFairness

Spec == Init /\ [][Next]_vars /\ Fairness

-----------------------------------------------------------------------------
\* Every wait ends: the stencils of a document and of its list, a search, the
\* spinner of a list of proposals, the buttons that are disabled while a
\* verdict or a proposal is on its way.  These are game-document-page and
\* document-list-loader, search-results-loader, proposal-list,
\* view-proposal-page and new-game-page.
EveryWaitEnds ==
    /\ Documents!StencilsEnd
    /\ Search!SearchEnds
    /\ Proposals!SpinnerEnds
    /\ View!ButtonsComeBack
    /\ NewGame!SubmitComesBack

\* A verdict that succeeded comes to be shown.
VerdictShows == View!VerdictShows

\* A token that is too old goes: the server's auth_service.
OldTokenGoes == Browser!OldTokenGoes
=============================================================================
