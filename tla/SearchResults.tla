---------------------------- MODULE SearchResults ----------------------------
(***************************************************************************)
(* The search page: search-page, search-input and search-results-loader.   *)
(*                                                                         *)
(* The URL carries what is searched for.  The page reads it into the       *)
(* properties of the loader, which asks the server for one result more     *)
(* than it shows, to know whether there is a next page.  A query of blanks *)
(* is not searched for: the loader then leaves everything as it is, the    *)
(* request in flight included.                                             *)
(***************************************************************************)
EXTENDS Integers, Sequences, IronAjax

CONSTANTS Text,        \* what can be typed into the box
          Empty,       \* nothing typed
          Blank,       \* the texts that are nothing when trimmed
          ReadBack,    \* what is read back of a text that is put into a URL
                       \* as it is: the same, another text, or ...
          Unreadable,  \* ... nothing, the URL is malformed
          Target,      \* nothing, a game or a character to search in
          Doc,
          Results,     \* the documents found for each text and target
          MaxPage,     \* bound: the pages that URLs ask for
          PageSize,
          Nothing      \* no page, no search

Params == [query : Text, target : Target, page : 1 .. MaxPage]

\* What the constants are.
SearchResultsAssumption ==
    /\ Empty \in Blank /\ Blank \subseteq Text
    /\ ReadBack \in [Text -> Text \union {Unreadable}]
    /\ Unreadable \notin Text
    /\ Results \in [Text \X Target -> Seq(Doc)]
    /\ PageSize \in Nat \ {0}
    /\ MaxPage \in Nat \ {0}
    /\ Nothing \notin Nat \union Params

VARIABLES params,   \* what the page has read from the URL
          box,      \* the text in the box
          loader,   \* the element with the results
          asked     \* history: the last search that was asked for

vars == <<params, box, loader, asked>>

LoaderState ==
    [documents : Seq(Doc),
     stencil : BOOLEAN,
     empty : BOOLEAN,
     next : Nat \union {Nothing},
     prev : Nat \union {Nothing},
     error : BOOLEAN,
     ajax : SUBSET Request(Params)]

TypeOK ==
    /\ params \in Params
    /\ box \in Text
    /\ loader \in LoaderState
    /\ asked \in Params \union {Nothing}

-----------------------------------------------------------------------------
Searched(p) == p.query \notin Blank

\* What the loader shows: results, or that there are none, or neither.
ShowsResults == ~loader.stencil
ShowsEmptyState == loader.empty

Idle ==
    [documents |-> <<>>, stencil |-> FALSE, empty |-> FALSE, next |-> Nothing,
     prev |-> Nothing, error |-> FALSE, ajax |-> NoRequests]

ParamsChangedNoAbort(p) ==
    IF ~Searched(p) THEN loader
    ELSE [Idle EXCEPT !.stencil = TRUE,
                      !.ajax = GenerateRequest(loader.ajax, p)]

ParamsChangedKeepsError(p) ==
    IF ~Searched(p) THEN loader
    ELSE [loader EXCEPT !.documents = <<>>,
                        !.stencil = TRUE,
                        !.empty = FALSE,
                        !.next = Nothing,
                        !.prev = Nothing,
                        !.ajax = GenerateRequest(Abort(@), p)]

\* The loader's properties change.  For blanks it returns at once.
ParamsChanged(p) ==
    IF ~Searched(p) THEN loader
    ELSE [loader EXCEPT !.documents = <<>>,
                        !.stencil = TRUE,
                        !.empty = FALSE,
                        !.next = Nothing,
                        !.prev = Nothing,
                        !.error = FALSE,
                        !.ajax = GenerateRequest(Abort(@), p)]

Init ==
    /\ params \in Params
    /\ box = params.query
    /\ loader = IF Searched(params)
                THEN [Idle EXCEPT !.stencil = TRUE,
                                  !.ajax = GenerateRequest(NoRequests, params)]
                ELSE Idle
    /\ asked = IF Searched(params) THEN params ELSE Nothing

\* The URL changes to one that asks for p.  The box takes the query over if it
\* is another one.
QueryParamsChanged(p) ==
    /\ p # params
    /\ params' = p
    /\ box' = IF p.query = params.query THEN box ELSE p.query
    /\ loader' = ParamsChanged(p)
    /\ asked' = IF Searched(p) THEN p ELSE asked

Type(text) ==
    /\ text # box
    /\ box' = text
    /\ UNCHANGED <<params, loader, asked>>

\* Enter or a click on the button puts the text into the URL, with the target
\* that is searched in.
SearchInvoked ==
    /\ box # Empty
    /\ ReadBack[box] # Unreadable
    /\ QueryParamsChanged([query |-> ReadBack[box], target |-> params.target,
                           page |-> 1])

\* The links to the previous and the next page repeat the query.
FollowPagingLink(page) ==
    /\ page \in {loader.prev, loader.next} \ {Nothing}
    /\ page <= MaxPage
    /\ ReadBack[params.query] # Unreadable
    /\ QueryParamsChanged([params EXCEPT !.query = ReadBack[@], !.page = page])

\* Back, forward, or a link from elsewhere.
Arrive(p) == QueryParamsChanged(p)

-----------------------------------------------------------------------------
\* What the server finds, from an offset and up to a limit.
Found(p, limit) ==
    LET all == Results[p.query, p.target]
        offset == (p.page - 1) * PageSize
        last == offset + limit
    IN  SubSeq(all, offset + 1, IF last < Len(all) THEN last ELSE Len(all))

GetResponse(r) ==
    LET results == Found(r.of, PageSize + 1)
        more == Len(results) > PageSize
        kept == IF more THEN SubSeq(results, 1, PageSize) ELSE results
    IN  /\ r \in loader.ajax
        /\ loader' = [loader EXCEPT
              !.ajax = @ \ {r},
              !.documents = kept,
              !.stencil = FALSE,
              !.empty = params.page = 1 /\ kept = <<>>,
              !.next = IF more THEN params.page + 1 ELSE Nothing,
              !.prev = IF params.page > 1 THEN params.page - 1 ELSE Nothing]
        /\ UNCHANGED <<params, box, asked>>

GetErrorUnseen(r) ==
    /\ r \in loader.ajax
    /\ loader' = [loader EXCEPT !.ajax = @ \ {r}]
    /\ UNCHANGED <<params, box, asked>>

GetError(r) ==
    /\ r \in loader.ajax
    /\ loader' = [loader EXCEPT !.ajax = @ \ {r}, !.error = TRUE]
    /\ UNCHANGED <<params, box, asked>>

Next ==
    \/ \E text \in Text : Type(text)
    \/ SearchInvoked
    \/ \E page \in 1 .. MaxPage : FollowPagingLink(page)
    \/ \E p \in Params : Arrive(p)
    \/ \E r \in loader.ajax : GetResponse(r) \/ GetError(r)

\* The browser ends every request with a response or an error.
Fairness ==
    \A p \in Params :
        LET r == [of |-> p, last |-> TRUE]
        IN  WF_vars(GetResponse(r) \/ GetError(r))

Spec == Init /\ [][Next]_vars /\ Fairness

-----------------------------------------------------------------------------
\* The request in flight is for the last search that was asked for, which is
\* what the page searches for unless that is blanks.
IInv ==
    /\ TypeOK
    /\ loader.ajax \subseteq {[of |-> asked, last |-> TRUE]}
    /\ Searched(params) => asked = params
    /\ asked = Nothing => loader = Idle
    /\ asked # Nothing => Searched(asked)
    /\ loader.stencil => Loading(loader.ajax) \/ loader.error
    /\ Loading(loader.ajax) \/ loader.error => loader.stencil
    /\ Loading(loader.ajax) => ~loader.error

\* Results that are shown are those of the query, target and page in the URL,
\* however the user came there and whatever he had asked before; the links are
\* there just if the pages are, and emptiness is told only of the first page.
RightResults ==
    LET found == Results[params.query, params.target]
        end == params.page * PageSize
    IN  Searched(params) /\ ShowsResults =>
            /\ loader.documents = Found(params, PageSize)
            /\ loader.next # Nothing <=> Len(found) > end
            /\ loader.prev # Nothing <=> params.page > 1
            /\ ShowsEmptyState <=> found = <<>> /\ params.page = 1

\* What is shown is of one search, the last that was asked for, even when the
\* URL has no query: no mixture, and no message that belongs to another.
OneSearchAtATime ==
    /\ ShowsResults /\ asked # Nothing =>
           loader.documents = Found(asked, PageSize)
    /\ ShowsEmptyState => Found(asked, PageSize) = <<>>
    /\ loader.error => ~ShowsResults

\* A stencil ends in results or an error unless the user searches on.
SearchEnds ==
    \A p \in Params :
        params = p ~> params # p \/ ShowsResults \/ loader.error
=============================================================================
