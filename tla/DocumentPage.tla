----------------------------- MODULE DocumentPage -----------------------------
(***************************************************************************)
(* The pages of a game and of a character, with the list of child          *)
(* documents below: document-pages, game-document-page and its sibling     *)
(* character-document-page, document-list-loader and document-list.  The   *)
(* page of a move is the same without the list.                            *)
(*                                                                         *)
(* A page stays while the user moves between documents of one kind: its    *)
(* properties change, and what is in flight is aborted and asked anew.     *)
(* For another kind a new page is stamped.  The document and the list are  *)
(* loaded on their own, by a request each.                                 *)
(***************************************************************************)
EXTENDS Integers, Sequences, IronAjax

CONSTANTS Id,         \* the ids of documents in URLs
          Kind,       \* the kinds of documents
          KindOf,     \* the kind that each URL says its document is of
          Published,  \* the ids that a document is stored under
          Child,      \* the documents that lists hold
          Children,   \* those of each id, in the server's order
          Page,       \* the pages of lists that URLs ask for
          PageSize,
          Nothing     \* no document, no page

Address == [id : Id, page : Page]

\* What the constants are.
DocumentPageAssumption ==
    /\ KindOf \in [Id -> Kind]
    /\ Published \subseteq Id
    /\ Nothing \notin Id \union Nat
    /\ Children \in [Id -> Seq(Child)]
    /\ Page \subseteq Nat \ {0}
    /\ PageSize \in Nat \ {0}

VARIABLES address,    \* documentId and childPage
          page,       \* the element of the page
          list        \* the element of its list

vars == <<address, page, list>>

\* loaded and hurried are history: the last request has had its response, and
\* documentId changed while one was in flight.
PageState ==
    [section : {"content", "notFound", "error"},
     document : Published \union {Nothing},
     ajax : SUBSET Request(Id),
     loaded : BOOLEAN,
     hurried : BOOLEAN]

ListState ==
    [documents : Seq(Child),
     next : Nat \union {Nothing},
     prev : Nat \union {Nothing},
     stencil : BOOLEAN,
     error : BOOLEAN,
     ajax : SUBSET Request(Address)]

TypeOK ==
    /\ address \in Address
    /\ page \in PageState
    /\ list \in ListState

-----------------------------------------------------------------------------
\* What is not hidden: the document, the child documents, a message.
ShowsDocument == page.section = "content" /\ ~Loading(page.ajax)
ShowsMissing == page.section = "notFound"
ShowsDocuments == ~list.stencil

\* The page of a document is stamped, with its list.
StampedPage(a) ==
    [section |-> "content",
     document |-> Nothing,
     ajax |-> GenerateRequest(NoRequests, a.id),
     loaded |-> FALSE,
     hurried |-> FALSE]

StampedList(a) ==
    [documents |-> <<>>,
     next |-> Nothing,
     prev |-> Nothing,
     stencil |-> TRUE,
     error |-> FALSE,
     ajax |-> GenerateRequest(NoRequests, a)]

Init ==
    /\ address \in Address
    /\ page = StampedPage(address)
    /\ list = StampedList(address)

\* The dom-if of the old page takes it away, with its requests, and that of
\* the new page stamps it.
OpenPage(a) ==
    /\ KindOf[a.id] # KindOf[address.id]
    /\ address' = a
    /\ page' = StampedPage(a)
    /\ list' = StampedList(a)

DocumentIdChangedNoAbort(id) ==
    [page EXCEPT !.section = "content",
                 !.ajax = GenerateRequest(@, id),
                 !.loaded = FALSE,
                 !.hurried = Loading(page.ajax)]

DocumentIdChangedOnly(id) ==
    [page EXCEPT !.ajax = GenerateRequest(Abort(@), id),
                 !.loaded = FALSE,
                 !.hurried = Loading(page.ajax)]

\* documentId changes.  The request that is aborted ends with an error, whose
\* handler does not ask why.
DocumentIdChanged(id) ==
    [page EXCEPT !.section = IF Loading(page.ajax) THEN "error" ELSE "content",
                 !.ajax = GenerateRequest(Abort(@), id),
                 !.loaded = FALSE,
                 !.hurried = Loading(page.ajax)]

ParamsChangedNoAbort(a) ==
    [StampedList(a) EXCEPT !.ajax = GenerateRequest(list.ajax, a)]

ParamsChangedNoReset(a) ==
    [list EXCEPT !.stencil = FALSE,
                 !.error = FALSE,
                 !.ajax = GenerateRequest(Abort(@), a)]

\* page or fetchUrl changes.  An aborted request shows no error here.
ParamsChanged(a) ==
    [list EXCEPT !.documents = <<>>,
                 !.next = Nothing,
                 !.prev = Nothing,
                 !.stencil = TRUE,
                 !.error = FALSE,
                 !.ajax = GenerateRequest(Abort(@), a)]

\* The user follows a link to a document of the same kind, or to a page of its
\* list.
Visit(a) ==
    /\ a # address
    /\ KindOf[a.id] = KindOf[address.id]
    /\ address' = a
    /\ page' = IF a.id = address.id THEN page ELSE DocumentIdChanged(a.id)
    /\ list' = ParamsChanged(a)

-----------------------------------------------------------------------------
\* The page's request is answered.  Its section is left as it is.
GetResponse(r) ==
    /\ r \in page.ajax
    /\ r.of \in Published
    /\ page' = [page EXCEPT !.ajax = @ \ {r},
                            !.document = r.of,
                            !.loaded = TRUE]
    /\ UNCHANGED <<address, list>>

GetError(r) ==
    /\ r \in page.ajax
    /\ \E section \in {"notFound", "error"} :
          /\ section = "notFound" => r.of \notin Published
          /\ page' = [page EXCEPT !.ajax = @ \ {r}, !.section = section]
    /\ UNCHANGED <<address, list>>

\* The page of a list that the server answers with.
Slice(a) ==
    LET all == Children[a.id]
        first == (a.page - 1) * PageSize + 1
        last == a.page * PageSize
    IN  SubSeq(all, first, IF last < Len(all) THEN last ELSE Len(all))

\* The list's request is answered: the links are those of the page that the
\* element is at now.
ListResponse(r) ==
    LET at == address.page
        isLastPage == at * PageSize >= Len(Children[r.of.id])
    IN  /\ r \in list.ajax
        /\ list' = [list EXCEPT !.ajax = @ \ {r},
                                !.documents = Slice(r.of),
                                !.next = IF isLastPage THEN Nothing ELSE at + 1,
                                !.prev = IF at > 1 THEN at - 1 ELSE Nothing,
                                !.stencil = FALSE,
                                !.error = FALSE]
        /\ UNCHANGED <<address, page>>

ListErrorSilent(r) ==
    /\ r \in list.ajax
    /\ list' = [list EXCEPT !.ajax = @ \ {r}]
    /\ UNCHANGED <<address, page>>

ListError(r) ==
    /\ r \in list.ajax
    /\ list' = [list EXCEPT !.ajax = @ \ {r}, !.error = TRUE]
    /\ UNCHANGED <<address, page>>

Next ==
    \/ \E a \in Address : OpenPage(a) \/ Visit(a)
    \/ \E r \in page.ajax : GetResponse(r) \/ GetError(r)
    \/ \E r \in list.ajax : ListResponse(r) \/ ListError(r)

\* The browser ends every request with a response or an error.
Fairness ==
    /\ \A r \in Request(Id) : WF_vars(GetResponse(r) \/ GetError(r))
    /\ \A r \in Request(Address) : WF_vars(ListResponse(r) \/ ListError(r))

Spec == Init /\ [][Next]_vars /\ Fairness

-----------------------------------------------------------------------------
\* The only requests in flight are for the address that the page is at, and
\* what is shown, loading or loaded belongs together.
IInv ==
    /\ TypeOK
    /\ page.ajax \subseteq {[of |-> address.id, last |-> TRUE]}
    /\ list.ajax \subseteq {[of |-> address, last |-> TRUE]}
    /\ page.loaded => page.document = address.id /\ ~Loading(page.ajax)
    /\ page.section # "content" /\ (page.loaded \/ Loading(page.ajax)) =>
          page.hurried
    /\ ShowsDocument => page.loaded
    /\ ShowsMissing => address.id \notin Published
    /\ page.hurried => page.section # "content"
    /\ list.stencil => list.error \/ Loading(list.ajax)
    /\ list.error \/ Loading(list.ajax) => list.stencil
    /\ list.error => ~Loading(list.ajax)
    /\ ShowsDocuments =>
         /\ list.documents = Slice(address)
         /\ list.next # Nothing <=>
              address.page * PageSize < Len(Children[address.id])
         /\ list.prev # Nothing <=> address.page > 1

\* A page that shows a document without its stencil shows the document its
\* URL names, and one that says a document is missing is right, however the
\* user has moved between documents before.
RightDocument ==
    /\ ShowsDocument => page.document = address.id
    /\ ShowsMissing => address.id \notin Published

\* A list that is not a stencil holds the page of the document that the URL
\* names, and links to the pages that are there.
RightChildren ==
    ShowsDocuments =>
        /\ list.documents = Slice(address)
        /\ list.next # Nothing <=>
             address.page * PageSize < Len(Children[address.id])
        /\ list.prev # Nothing <=> address.page > 1

\* A document that has been loaded is hidden behind an error only if the user
\* came while the page's previous request was in flight: game-document-page
\* takes the abortion of that request for a failure of the new one.
HiddenOnlyInHaste ==
    page.loaded /\ ~ShowsDocument => page.hurried

\* The page of a document is that of its URL, whatever was clicked before.
RightPage == RightDocument /\ RightChildren /\ HiddenOnlyInHaste

\* The stencil of a page, and that of its list unless an error is shown with
\* it, end unless the user moves on.
StencilsEnd ==
    \A a \in Address :
        address = a ~> \/ address # a
                       \/ ~Loading(page.ajax) /\ (ShowsDocuments \/ list.error)

-----------------------------------------------------------------------------
\* The list as a loader: what is asked for is the address, and an answer is a
\* page with a link to the next one if there is more.
AnswerTo ==
    [a \in Address |->
        [is |-> "answer", documents |-> Slice(a),
         more |-> a.page * PageSize < Len(Children[a.id])]]

Waiting == [is |-> "waiting"]
Failed == [is |-> "failed"]

Shown ==
    CASE list.error -> Failed
      [] ~list.error /\ list.stencil -> Waiting
      [] OTHER -> [is |-> "answer", documents |-> list.documents,
                   more |-> list.next # Nothing]
=============================================================================
