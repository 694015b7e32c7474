----------------------------- MODULE ProposalList -----------------------------
(***************************************************************************)
(* The lists of proposals: proposal-list with its filters, as on the pages *)
(* of all proposals, of those for a document and of those by a user.       *)
(*                                                                         *)
(* A list is loaded page by page, by offset, into one growing array, while *)
(* others submit proposals and review them: what the server counts from    *)
(* the offset is not what it counted for the page before.  When a filter   *)
(* changes the list starts over.                                           *)
(*                                                                         *)
(* A list is ordered by the second in which each proposal was created,     *)
(* which is read before the proposal is stored: those of a second come in  *)
(* any order, another one for each query, and what was created first may   *)
(* be stored last.  The queries do not wait for the index, so that an      *)
(* answer may be of a list that is not up to date.                         *)
(***************************************************************************)
EXTENDS Naturals, Sequences, FiniteSets, IronAjax

CONSTANTS Scope,         \* what the pages restrict a list to, by a document,
                         \* by a user, or not at all: sets of proposals
          MaxProposals,  \* bound: proposals created
          MaxPage,       \* bound: clicks on "Load More"
          PageSize

Status == {"approved", "rejected", "pending", "cancelled"}
Sort == {"asc", "desc"}
Options == [scope : Scope, status : Status, sort : Sort]
Proposal == 1 .. MaxProposals

\* What the constants are.
ProposalListAssumption ==
    /\ MaxProposals \in Nat
    /\ MaxPage \in Nat
    /\ PageSize \in Nat \ {0}
    /\ Scope \subseteq SUBSET Proposal

VARIABLES statuses,   \* the server's: the status of each proposal so far,
                      \* which are numbered as they are created
          created,    \* the server's: the second in which each was created
          options,    \* what the user chose: filters and page
          proposals,  \* the rows, each with what it was asked for (history)
          currentPage,
          stencil, loadError, loadMoreHidden, ajax,
          drift       \* history: what became of the server's list since it was
                      \* started

shown == <<proposals, currentPage, stencil, loadError, loadMoreHidden, ajax>>
vars == <<statuses, created, options, shown, drift>>

\* Nothing; nothing that puts a proposal back that is on it, as when others go
\* or come in behind; or anything, or an answer was not up to date.
Drift == {"none", "behind", "any"}

Question == [options : Options, page : Nat]
Row == [id : Proposal, asked : Question]

TypeOK ==
    /\ statuses \in Seq(Status \union {"unstored"})
    /\ Len(statuses) <= MaxProposals
    /\ created \in Seq(Nat) /\ Len(created) = Len(statuses)
    /\ options \in Options
    /\ proposals \in Seq(Row)
    /\ currentPage \in Nat
    /\ stencil \in BOOLEAN
    /\ loadError \in BOOLEAN
    /\ loadMoreHidden \in BOOLEAN
    /\ ajax \subseteq Request(Question)
    /\ drift \in Drift

-----------------------------------------------------------------------------
\* The server's list for some options: those that are due, ...
Due(s, o) == {p \in 1 .. Len(s) : p \in o.scope /\ s[p] = o.status}

\* ... those of an earlier or a later second first, ...
Sooner(o, p, q) == IF o.sort = "asc" THEN created[p] < created[q]
                   ELSE created[p] > created[q]

InOrder(o, found) ==
    \A i, j \in DOMAIN found :
        i < j => found[i] # found[j] /\ ~Sooner(o, found[j], found[i])

\* ... and those of one second in any order.
Listed(s, o) ==
    LET due == Due(s, o)
    IN  {list \in [1 .. Cardinality(due) -> due] : InOrder(o, list)}

\* A page of a list, by offset and limit.
PageOf(list, page) ==
    LET offset == page * PageSize
        last == offset + PageSize
    IN  SubSeq(list, offset + 1, IF last < Len(list) THEN last ELSE Len(list))

\* What may be found by an index that lags: some of those that are due, as the
\* proposals themselves are read, and no more than a page.  They are counted
\* with those that were pending, and are so for the index.
Lagging(o) ==
    LET due == Due(statuses, o)
    IN  {found \in UNION {[1 .. n -> due] : n \in 0 .. PageSize} :
            InOrder(o, found)}

Counted(o) ==
    {p \in 1 .. Len(statuses) :
        /\ p \in o.scope
        /\ statuses[p] # "unstored"
        /\ o.status \in {statuses[p], "pending"}}

\* What a page starts with: its filters' defaults.
Defaults == [status : {"approved", "pending"}, sort : {"desc"}, scope : Scope]

Init ==
    /\ statuses = <<>>
    /\ created = <<>>
    /\ options \in Defaults
    /\ proposals = <<>>
    /\ currentPage = 0
    /\ stencil = TRUE
    /\ loadError = FALSE
    /\ loadMoreHidden = TRUE
    /\ ajax = GenerateRequest(NoRequests, [options |-> options, page |-> 0])
    /\ drift = "none"

-----------------------------------------------------------------------------
\* The second of a proposal is read, the next one or that of the last.
GetNowTimestamp ==
    LET last == Len(created)
    IN  /\ last < MaxProposals
        /\ \E second \in IF last = 0 THEN {0}
                         ELSE {created[last], created[last] + 1} :
              created' = Append(created, second)
        /\ statuses' = Append(statuses, "unstored")
        /\ UNCHANGED <<options, shown, drift>>

\* How many are sure to be before a proposal on a list, and how many are of its
\* second.
Ahead(s, o, p) == Cardinality({q \in Due(s, o) : Sooner(o, q, p)})
Level(s, o, p) == Cardinality({q \in Due(s, o) : created[q] = created[p]})

\* Others store a proposal, and decide on one or withdraw it.
ServerChanges(s) ==
    /\ statuses' = s
    /\ drift' = CASE Due(s, options) = Due(statuses, options) -> drift
                  [] /\ Due(s, options) # Due(statuses, options)
                     /\ drift # "any"
                     /\ \A p \in Due(statuses, options) :
                           Ahead(s, options, p) <= Ahead(statuses, options, p)
                       -> "behind"
                  [] OTHER -> "any"
    /\ UNCHANGED <<created, options, shown>>

Submit(p) ==
    /\ statuses[p] = "unstored"
    /\ ServerChanges([statuses EXCEPT ![p] = "pending"])

Close(p, status) ==
    /\ statuses[p] = "pending"
    /\ ServerChanges([statuses EXCEPT ![p] = status])

-----------------------------------------------------------------------------
\* A request for a page of the list, in place of any other.
RequestPageNoAbort(o, page) ==
    /\ loadMoreHidden' = TRUE
    /\ loadError' = FALSE
    /\ ajax' = GenerateRequest(ajax, [options |-> o, page |-> page])

RequestPageKeepsButton(o, page) ==
    /\ loadError' = FALSE
    /\ ajax' = GenerateRequest(Abort(ajax), [options |-> o, page |-> page])
    /\ UNCHANGED loadMoreHidden

RequestPage(o, page) ==
    /\ loadMoreHidden' = TRUE
    /\ loadError' = FALSE
    /\ ajax' = GenerateRequest(Abort(ajax), [options |-> o, page |-> page])

\* fetch: the list starts over.
FetchKeepsPage(o) ==
    /\ proposals' = <<>>
    /\ stencil' = TRUE
    /\ RequestPage(o, currentPage)
    /\ UNCHANGED currentPage

Fetch(o) ==
    /\ currentPage' = 0
    /\ proposals' = <<>>
    /\ stencil' = TRUE
    /\ RequestPage(o, 0)

\* The user clicks on a status or an order, or the page is given another
\* document or user.
QueryOptionsChanged(o) ==
    /\ o # options
    /\ options' = o
    /\ Fetch(o)
    /\ drift' = "none"
    /\ UNCHANGED <<statuses, created>>

OptionClicked(status) == QueryOptionsChanged([options EXCEPT !.status = status])
SortOptionClicked(sort) == QueryOptionsChanged([options EXCEPT !.sort = sort])
PageChanged(scope) == QueryOptionsChanged([options EXCEPT !.scope = scope])

LoadMoreClickedLate ==
    /\ ~loadMoreHidden
    /\ currentPage < MaxPage
    /\ currentPage' = currentPage + 1
    /\ RequestPage(options, currentPage)
    /\ UNCHANGED <<statuses, created, options, proposals, stencil, drift>>

LoadMoreClicked ==
    /\ ~loadMoreHidden
    /\ currentPage < MaxPage
    /\ currentPage' = currentPage + 1
    /\ RequestPage(options, currentPage + 1)
    /\ UNCHANGED <<statuses, created, options, proposals, stencil, drift>>

-----------------------------------------------------------------------------
\* The rows are added to those that are there.
Show(r, found, totalCount) ==
    LET rows == [i \in DOMAIN found |-> [id |-> found[i], asked |-> r.of]]
    IN  /\ r \in ajax
        /\ ajax' = ajax \ {r}
        /\ proposals' = proposals \o rows
        /\ stencil' = FALSE
        /\ loadMoreHidden' = (Len(proposals) + Len(rows) = totalCount)
        /\ UNCHANGED <<statuses, created, options, currentPage, loadError>>

\* They are of the list as it is, or ...
GetResponse(r) ==
    /\ \E list \in Listed(statuses, r.of.options) :
          Show(r, PageOf(list, r.of.page), Len(list))
    /\ UNCHANGED drift

\* ... of what the index knows, which does not know the same of both queries.
GetLaggingResponse(r) ==
    /\ \E found \in Lagging(r.of.options),
          totalCount \in 0 .. Cardinality(Counted(r.of.options)) :
          Show(r, found, totalCount)
    /\ drift' = "any"

GetErrorSpins(r) ==
    /\ r \in ajax
    /\ ajax' = ajax \ {r}
    /\ loadError' = TRUE
    /\ UNCHANGED <<statuses, created, options, proposals, currentPage, stencil,
                   loadMoreHidden, drift>>

\* The button stays hidden.
GetError(r) ==
    /\ r \in ajax
    /\ ajax' = ajax \ {r}
    /\ loadError' = TRUE
    /\ stencil' = FALSE
    /\ UNCHANGED <<statuses, created, options, proposals, currentPage,
                   loadMoreHidden, drift>>

Next ==
    \/ GetNowTimestamp
    \/ \E p \in 1 .. Len(statuses) :
          \/ Submit(p)
          \/ \E status \in Status \ {"pending"} : Close(p, status)
    \/ \E status \in Status : OptionClicked(status)
    \/ \E sort \in Sort : SortOptionClicked(sort)
    \/ \E scope \in Scope : PageChanged(scope)
    \/ LoadMoreClicked
    \/ \E r \in ajax : GetResponse(r) \/ GetLaggingResponse(r) \/ GetError(r)

\* The browser ends every request with a response or an error.
Fairness ==
    \A o \in Options, page \in 0 .. MaxPage :
        LET r == [of |-> [options |-> o, page |-> page], last |-> TRUE]
        IN  WF_vars(GetResponse(r) \/ GetLaggingResponse(r) \/ GetError(r))

Spec == Init /\ [][Next]_vars /\ Fairness

-----------------------------------------------------------------------------
\* The request in flight is for the page that is due, of the list that is
\* shown, and every row came with a page asked for that list; the button is
\* there only when nothing is in flight.
IInv ==
    /\ TypeOK
    /\ ajax \subseteq {[of |-> [options |-> options, page |-> currentPage],
                        last |-> TRUE]}
    /\ \A i \in DOMAIN proposals :
          /\ proposals[i].asked.options = options
          /\ proposals[i].asked.page <= currentPage
          /\ Loading(ajax) => proposals[i].asked.page < currentPage
    /\ \A i, j \in DOMAIN proposals :
          i < j => proposals[i].asked.page <= proposals[j].asked.page
    /\ Loading(ajax) => loadMoreHidden /\ ~loadError
    /\ loadError => loadMoreHidden
    /\ stencil => Loading(ajax)
    /\ Len(proposals) <=
          (IF Loading(ajax) THEN currentPage ELSE currentPage + 1) * PageSize

\* Every row was asked for with the filters that are set now: no answer to an
\* earlier choice reaches the list, in whatever order choices, clicks and
\* answers come.
OneQuery == \A i \in DOMAIN proposals : proposals[i].asked.options = options

\* No page is loaded twice: rows come page after page, no more than a page of
\* each, and the button cannot be clicked while a page is on its way.
PagesOnce ==
    /\ Len(proposals) <= (currentPage + 1) * PageSize
    /\ \A i, j \in DOMAIN proposals :
          i < j => proposals[i].asked.page <= proposals[j].asked.page
    /\ Loading(ajax) => loadMoreHidden

\* While the server's list stays as it was when it was started, and answers are
\* up to date, the rows are its beginning but for the order within a second,
\* and the button is there just if there are more.
SteadyListExact ==
    LET due == Due(statuses, options)
    IN  drift = "none" =>
            /\ Len(proposals) <= Cardinality(due)
            /\ \A i \in DOMAIN proposals :
                  LET p == proposals[i].id
                  IN  /\ p \in due
                      /\ i > Ahead(statuses, options, p)
                      /\ i <= Ahead(statuses, options, p)
                                + Level(statuses, options, p)
            /\ ~Loading(ajax) /\ ~loadError =>
                   (loadMoreHidden <=> Len(proposals) = Cardinality(due))

\* While proposals only go from the server's list or come in where they put none
\* back, and answers are up to date, paging by offset may miss some of it, but
\* shows none twice, unless another was created in the same second.
NoneTwice ==
    drift # "any" =>
        \A i, j \in DOMAIN proposals :
            LET p == proposals[i].id
            IN  i # j /\ p = proposals[j].id =>
                    \E q \in options.scope :
                        /\ q <= Len(created) /\ q # p
                        /\ created[q] = created[p]

\* The spinner ends unless the user chooses something else.
SpinnerEnds == \A o \in Options : options = o ~> options # o \/ ~stencil
=============================================================================
