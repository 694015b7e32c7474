--------------------------------- MODULE Pages ---------------------------------
(***************************************************************************)
(* The elements of the client, one of which is on the screen while nothing *)
(* else of the application moves.                                          *)
(*                                                                         *)
(* The elements share no state: fb-app stamps one page at a time, and what *)
(* is on a page of what it has is told it by attributes.  A product of     *)
(* them would show nothing that each does not show alone, so the one that  *)
(* is on the screen is chosen once; the variables of the others are 0.     *)
(*                                                                         *)
(* The constants of a module are the fields of a record, named as there;   *)
(* where one module models several pages, or one with different data, the  *)
(* records are in a sequence.                                              *)
(***************************************************************************)
EXTENDS Naturals, Sequences

CONSTANTS Nothing, Unreadable, Nobody, NoMatch,
          documents,   \* the data of DocumentPage
          searches,    \* ... of SearchResults
          lists,       \* ... of ProposalList
          views,       \* ... of each ViewProposal
          forms,       \* ... of each NewProposal: characters, games
          editors,     \* ... of each FormValidity
          urls,        \* ... of AppRouting
          dialogs,     \* ... of SignIn
          videos       \* ... of Media

VARIABLES screen,  \* the element on the screen and, where its module is of
                   \* several, which of them it is
          address, page, list,                                 \* Documents
          params, box, loader, asked,                          \* Search
          proposed, created, options, proposals, currentPage,  \* Proposals
          stencil, loadError, loadMoreHidden, ajax, drift,
          statuses, patches, user, path, view,                 \* View
          wanted, form, posts, viewed, behind,                 \* New
          rows, ghosts, valid, timer, getting, content,        \* Attributes
          unsettled, haste, eased,
          url, told, section, stamped, claims, userInfo, next, \* Shell
          at, cookie, profile, shown, agreed, locked, odd,     \* Dialogs
          turned,
          fileName, sources, frames, video, detached, loaded,  \* Videos
          visible, hurried

documentsVars == <<address, page, list>>
searchVars == <<params, box, loader, asked>>
proposalsVars == <<proposed, created, options, proposals, currentPage, stencil,
                   loadError, loadMoreHidden, ajax, drift>>
viewVars == <<statuses, patches, user, path, view>>
newVars == <<wanted, form, posts, viewed, behind>>
attributesVars == <<rows, ghosts, valid, timer, getting, content, unsettled,
                    haste, eased>>
shellVars == <<url, told, section, stamped, claims, userInfo, next>>
dialogsVars == <<at, cookie, profile, shown, agreed, locked, odd, turned>>
videosVars == <<fileName, sources, frames, video, detached, loaded, visible,
                hurried>>

vars == <<screen, documentsVars, searchVars, proposalsVars, viewVars, newVars,
          attributesVars, shellVars, dialogsVars, videosVars>>

-----------------------------------------------------------------------------
Documents == INSTANCE DocumentPage WITH
    Id <- documents.Id, Kind <- documents.Kind, KindOf <- documents.KindOf,
    Published <- documents.Published,
    Child <- documents.Child, Children <- documents.Children,
    Page <- documents.Page, PageSize <- documents.PageSize

Search == INSTANCE SearchResults WITH
    Text <- searches.Text, Empty <- searches.Empty, Blank <- searches.Blank,
    ReadBack <- searches.ReadBack, Target <- searches.Target,
    Doc <- searches.Doc, Results <- searches.Results,
    MaxPage <- searches.MaxPage, PageSize <- searches.PageSize

Proposals == INSTANCE ProposalList WITH
    statuses <- proposed,
    Scope <- lists.Scope, MaxProposals <- lists.MaxProposals,
    MaxPage <- lists.MaxPage, PageSize <- lists.PageSize

View(k) == INSTANCE ViewProposal WITH
    Target <- views[k].Target, Version <- views[k].Version,
    Stored <- views[k].Stored, AuthorOf <- views[k].AuthorOf,
    User <- views[k].User, Admin <- views[k].Admin,
    MaxPatches <- views[k].MaxPatches

New(k) == INSTANCE NewProposal WITH
    params <- wanted, page <- form,
    Name <- forms[k].Name, Typed <- forms[k].Typed, Padded <- forms[k].Padded,
    Published <- forms[k].Published, Parent <- forms[k].Parent,
    Target <- forms[k].Target,
    MaxPosts <- forms[k].MaxPosts, MaxFiles <- forms[k].MaxFiles

Attributes(k) == INSTANCE FormValidity WITH
    Input <- editors[k].Input, Text <- editors[k].Text,
    Blank <- editors[k].Blank, Filled <- editors[k].Filled,
    MaxRows <- editors[k].MaxRows

Shell == INSTANCE AppRouting WITH
    address <- url,
    Path <- urls.Path, Query <- urls.Query, User <- urls.User,
    NoUser <- Nobody

Dialogs == INSTANCE SignIn WITH
    claims <- cookie, userInfo <- profile, asked <- turned,
    Params <- dialogs.Params

Videos == INSTANCE Media WITH
    File <- videos.File, None <- Nothing, MaxChanges <- videos.MaxChanges

ASSUME PagesAssumption ==
    /\ Documents!DocumentPageAssumption
    /\ Documents!Address # {}
    /\ Search!SearchResultsAssumption
    /\ Proposals!ProposalListAssumption
    /\ \A k \in DOMAIN views : View(k)!ViewProposalAssumption
    /\ \A k \in DOMAIN forms : New(k)!NewProposalAssumption
    /\ \A k \in DOMAIN editors : Attributes(k)!FormValidityAssumption
    /\ Shell!AppRoutingAssumption
    /\ Videos!MediaAssumption

-----------------------------------------------------------------------------
\* The elements that are not on the screen.
NoDocuments == address = 0 /\ page = 0 /\ list = 0
NoSearch == params = 0 /\ box = 0 /\ loader = 0 /\ asked = 0
NoProposals ==
    /\ proposed = 0 /\ created = 0 /\ options = 0 /\ proposals = 0
    /\ currentPage = 0 /\ stencil = 0 /\ loadError = 0 /\ loadMoreHidden = 0
    /\ ajax = 0 /\ drift = 0
NoView == statuses = 0 /\ patches = 0 /\ user = 0 /\ path = 0 /\ view = 0
NoNew == wanted = 0 /\ form = 0 /\ posts = 0 /\ viewed = 0 /\ behind = 0
NoAttributes ==
    /\ rows = 0 /\ ghosts = 0 /\ valid = 0 /\ timer = 0 /\ getting = 0
    /\ content = 0 /\ unsettled = 0 /\ haste = 0 /\ eased = 0
NoShell ==
    /\ url = 0 /\ told = 0 /\ section = 0 /\ stamped = 0 /\ claims = 0
    /\ userInfo = 0 /\ next = 0
NoDialogs ==
    /\ at = 0 /\ cookie = 0 /\ profile = 0 /\ shown = 0 /\ agreed = 0
    /\ locked = 0 /\ odd = 0 /\ turned = 0
NoVideos ==
    /\ fileName = 0 /\ sources = 0 /\ frames = 0 /\ video = 0 /\ detached = 0
    /\ loaded = 0 /\ visible = 0 /\ hurried = 0

\* Of the elements but one.
OthersAbsent(element) ==
    /\ IF element = "documents" THEN TRUE ELSE NoDocuments
    /\ IF element = "search" THEN TRUE ELSE NoSearch
    /\ IF element = "proposals" THEN TRUE ELSE NoProposals
    /\ IF element = "view" THEN TRUE ELSE NoView
    /\ IF element = "new" THEN TRUE ELSE NoNew
    /\ IF element = "attributes" THEN TRUE ELSE NoAttributes
    /\ IF element = "shell" THEN TRUE ELSE NoShell
    /\ IF element = "dialogs" THEN TRUE ELSE NoDialogs
    /\ IF element = "videos" THEN TRUE ELSE NoVideos

OthersUnchanged(element) ==
    /\ UNCHANGED screen
    /\ IF element = "documents" THEN TRUE ELSE UNCHANGED documentsVars
    /\ IF element = "search" THEN TRUE ELSE UNCHANGED searchVars
    /\ IF element = "proposals" THEN TRUE ELSE UNCHANGED proposalsVars
    /\ IF element = "view" THEN TRUE ELSE UNCHANGED viewVars
    /\ IF element = "new" THEN TRUE ELSE UNCHANGED newVars
    /\ IF element = "attributes" THEN TRUE ELSE UNCHANGED attributesVars
    /\ IF element = "shell" THEN TRUE ELSE UNCHANGED shellVars
    /\ IF element = "dialogs" THEN TRUE ELSE UNCHANGED dialogsVars
    /\ IF element = "videos" THEN TRUE ELSE UNCHANGED videosVars

Init ==
    \/ /\ screen = <<"documents">>
       /\ Documents!Init
       /\ OthersAbsent("documents")
    \/ /\ screen = <<"search">>
       /\ Search!Init
       /\ OthersAbsent("search")
    \/ /\ screen = <<"proposals">>
       /\ Proposals!Init
       /\ OthersAbsent("proposals")
    \/ \E k \in DOMAIN views :
          /\ screen = <<"view", k>>
          /\ View(k)!Init
          /\ OthersAbsent("view")
    \/ \E k \in DOMAIN forms :
          /\ screen = <<"new", k>>
          /\ New(k)!Init
          /\ OthersAbsent("new")
    \/ \E k \in DOMAIN editors :
          /\ screen = <<"attributes", k>>
          /\ Attributes(k)!Init
          /\ OthersAbsent("attributes")
    \/ /\ screen = <<"shell">>
       /\ Shell!Init
       /\ OthersAbsent("shell")
    \/ /\ screen = <<"dialogs">>
       /\ Dialogs!Init
       /\ OthersAbsent("dialogs")
    \/ /\ screen = <<"videos">>
       /\ Videos!Init
       /\ OthersAbsent("videos")

Next ==
    \/ /\ screen = <<"documents">>
       /\ Documents!Next
       /\ OthersUnchanged("documents")
    \/ /\ screen = <<"search">>
       /\ Search!Next
       /\ OthersUnchanged("search")
    \/ /\ screen = <<"proposals">>
       /\ Proposals!Next
       /\ OthersUnchanged("proposals")
    \/ \E k \in DOMAIN views :
          /\ screen = <<"view", k>>
          /\ View(k)!Next
          /\ OthersUnchanged("view")
    \/ \E k \in DOMAIN forms :
          /\ screen = <<"new", k>>
          /\ New(k)!Next
          /\ OthersUnchanged("new")
    \/ \E k \in DOMAIN editors :
          /\ screen = <<"attributes", k>>
          /\ Attributes(k)!Next
          /\ OthersUnchanged("attributes")
    \/ /\ screen = <<"shell">>
       /\ Shell!Next
       /\ OthersUnchanged("shell")
    \/ /\ screen = <<"dialogs">>
       /\ Dialogs!Next
       /\ OthersUnchanged("dialogs")
    \/ /\ screen = <<"videos">>
       /\ Videos!Next
       /\ OthersUnchanged("videos")

Spec == Init /\ [][Next]_vars

-----------------------------------------------------------------------------
\* The inductive invariants of the elements: what of each belongs together.
Consistent ==
    /\ screen = <<"documents">> => Documents!IInv
    /\ screen = <<"search">> => Search!IInv
    /\ screen = <<"proposals">> => Proposals!IInv
    /\ \A k \in DOMAIN views : screen = <<"view", k>> => View(k)!IInv
    /\ \A k \in DOMAIN forms : screen = <<"new", k>> => New(k)!IInv
    /\ \A k \in DOMAIN editors :
          screen = <<"attributes", k>> => Attributes(k)!IInv
    /\ screen = <<"shell">> => Shell!IInv
    /\ screen = <<"dialogs">> => Dialogs!IInv
    /\ screen = <<"videos">> => Videos!IInv

\* What the page of a document and its list of children show is of the
\* document and the page of the list in the URL, and hidden only from a user
\* who was too fast: game-document-page, document-list-loader.
RightPage == screen = <<"documents">> => Documents!RightPage

\* Results are those of the query in the URL, of one search at a time:
\* search-results-loader.  The rows of a list of proposals were all asked for
\* with the filters that are set, no page twice; with an index that is up to
\* date they are the beginning of the server's list if that stays as it is, and
\* none is shown twice if none is put back on it, but for proposals of one
\* second: proposal-list.
RightLists ==
    /\ screen = <<"search">> => Search!RightResults /\ Search!OneSearchAtATime
    /\ screen = <<"proposals">> =>
          /\ Proposals!OneQuery /\ Proposals!PagesOnce
          /\ Proposals!SteadyListExact /\ Proposals!NoneTwice

\* The proposal on its page is the one in the URL, a verdict is sent on what
\* its user saw, and a page has one in flight: view-proposal-page.
VerdictsAreMeant ==
    \A k \in DOMAIN views :
        screen = <<"view", k>> => View(k)!VerdictsAreMeant

\* A new document is stored below the parent in the URL, changes go to the
\* document there, which the form was filled from, the video is the one picked
\* last, and a form has one proposal in flight: new-character-page,
\* new-game-page, media-selector.
FormsSendWhatWasAsked ==
    \A k \in DOMAIN forms : screen = <<"new", k>> =>
        /\ New(k)!StoredWhereAsked /\ New(k)!EditsItsTarget
        /\ New(k)!LastPickedWins /\ New(k)!OnePostInFlight

\* At rest the editor of attributes judges rightly: attribute-set-editor.
CalmIsExact ==
    \A k \in DOMAIN editors :
        screen = <<"attributes", k>> => Attributes(k)!CalmIsExact

\* The page on the screen is the address's, with its argument and its query,
\* and no page is handed the argument of another: fb-app, proposal-pages and
\* document-pages.
PageFollowsAddress ==
    screen = <<"shell">> => Shell!PageFollowsAddress /\ Shell!OwnArguments

\* A form asks for a sign-in until it is left, and the page behind scrolls just
\* if not one dialog is shown, but for those shown twice or left open:
\* sign-in-dialog, modal-dialog.  The video is there for the document's name,
\* of its file if that changed once in a frame, and does not play in a hidden
\* window: document-media.
WidgetsInStep ==
    /\ screen = <<"dialogs">> => Dialogs!AskedUntilLeft /\ Dialogs!LockMatches
    /\ screen = <<"videos">> => Videos!NamedWhenCalm /\ Videos!PausedWhileHidden

\* The list of a document as a loader; on another screen it waits for ever.
SomeAddress == CHOOSE a \in Documents!Address : TRUE

Loader == INSTANCE LatestAnswer WITH
    Want <- Documents!Address,
    AnswerTo <- Documents!AnswerTo,
    Waiting <- Documents!Waiting,
    Failed <- Documents!Failed,
    wanted <- IF screen = <<"documents">> THEN address ELSE SomeAddress,
    shown <- IF screen = <<"documents">> THEN Documents!Shown
             ELSE Documents!Waiting

\* The list of a page implements LatestAnswer: it shows nothing, the answer to
\* the latest question, or that it failed, and changes its answer only when it
\* is asked anew: document-list-loader.
ImplementsLatestAnswer == Loader!Safety
=============================================================================
