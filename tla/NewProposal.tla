------------------------------ MODULE NewProposal ------------------------------
(***************************************************************************)
(* The pages that propose a document or changes to one: new-game-page,     *)
(* new-character-page and new-move-page, with media-selector.              *)
(*                                                                         *)
(* The URL names the document to change, or the parent of a new one.  The  *)
(* page loads the document into its form, uploads the videos that the user *)
(* picks, and posts the form.  The server looks at parent and target and   *)
(* stores the proposal, which the page then shows.  A page that is left    *)
(* forgets its requests, but they go on.                                   *)
(*                                                                         *)
(* Ids are sequences of short names, joined by dots in the code: a game's  *)
(* has one, a character's two, a move's three.                             *)
(***************************************************************************)
EXTENDS Naturals, Sequences, IronAjax

CONSTANTS Name,      \* short names of the characters that are allowed
          Padded,    \* such names with blanks around them
          Typed,     \* the names that users type
          Published, \* the ids of documents
          Parent,    \* the ids that URLs name as parents; <<>> for games
          Target,    \* the ids that URLs name as targets
          MaxPosts,  \* bound: clicks on "Submit" with a valid form
          MaxFiles,  \* bound: videos picked
          Nothing    \* no target, no document

Params == [target : {Nothing}, parent : Parent]
            \union [target : Target, parent : {<<>>}]

Id == Seq(Name \union Padded)

\* What the constants are.  A page asks the server for documents of its kind
\* alone, whose ids have one name more than those of their parents.
NewProposalAssumption ==
    /\ Name \intersect Padded = {}
    /\ Typed \subseteq Name \union Padded
    /\ Published \subseteq Id /\ Parent \subseteq Id /\ Target \subseteq Id
    /\ \A parent \in Parent, target \in Target \intersect Published :
          Len(target) = Len(parent) + 1
    /\ Nothing \notin Id
    /\ MaxPosts \in Nat
    /\ MaxFiles \in Nat

VARIABLES params,   \* what the URL asks for
          page,     \* the element of the page
          posts,    \* the proposals sent, and how far they have come
          viewed,   \* the post whose proposal is shown instead of a form, or 0
          behind    \* posts in flight of pages that were left

vars == <<params, page, posts, viewed, behind>>

\* Files are numbered as they are picked; 0 stands for the document's own.
\* basis, dropped and jumped are history: the document that the form was
\* filled from, whether the file picked last could not be uploaded or a
\* document replaced it, and whether the page has stayed while its URL changed.
PageState ==
    [section : {"stencil", "content", "error"},
     gameId : Id,
     id : Id,
     media : 0 .. MaxFiles,
     getAjax : SUBSET Request(Target),
     postAjax : SUBSET Request(1 .. MaxPosts),
     uploadAjax : SUBSET Request(1 .. MaxFiles),
     submitDisabled : BOOLEAN,
     picked : 0 .. MaxFiles,
     basis : Target \union {Nothing},
     dropped : BOOLEAN,
     jumped : BOOLEAN]

Post == [target : Id, parent : Id, media : 0 .. MaxFiles, asked : Params,
         basis : Target \union {Nothing}, jumped : BOOLEAN,
         state : {"sent", "done", "refused"}, stored : BOOLEAN]

TypeOK ==
    /\ params \in Params
    /\ page \in PageState
    /\ posts \in Seq(Post) /\ Len(posts) <= MaxPosts
    /\ viewed \in 0 .. Len(posts)
    /\ behind \subseteq 1 .. Len(posts)

-----------------------------------------------------------------------------
Stamped(p) ==
    [section |-> IF p.target = Nothing THEN "content" ELSE "stencil",
     gameId |-> p.parent,
     id |-> <<>>,
     media |-> 0,
     getAjax |-> IF p.target = Nothing THEN NoRequests
                 ELSE GenerateRequest(NoRequests, p.target),
     postAjax |-> NoRequests,
     uploadAjax |-> NoRequests,
     submitDisabled |-> FALSE,
     picked |-> 0,
     basis |-> Nothing,
     dropped |-> FALSE,
     jumped |-> FALSE]

\* The page is gone, and its requests are no longer heard of.
Gone == [Stamped(params) EXCEPT !.getAjax = NoRequests]

Init ==
    /\ params \in Params
    /\ page = Stamped(params)
    /\ posts = <<>>
    /\ viewed = 0
    /\ behind = {}

InFlight == {r.of : r \in page.postAjax}

\* The page is left and such a page is stamped anew.
Arrive(p) ==
    /\ params' = p
    /\ page' = Stamped(p)
    /\ viewed' = 0
    /\ behind' = behind \union InFlight
    /\ UNCHANGED posts

QueryParamsChangedNoAbort(p) ==
    /\ viewed = 0
    /\ p # params
    /\ params' = p
    /\ page' = [page EXCEPT
          !.section = IF p.target = Nothing THEN "content" ELSE "stencil",
          !.getAjax = IF p.target = Nothing THEN @
                      ELSE GenerateRequest(@, p.target),
          !.gameId = IF p.target = Nothing THEN p.parent ELSE @,
          !.jumped = TRUE]
    /\ UNCHANGED <<posts, viewed, behind>>

\* The user goes several entries back in the browser's history, from one such
\* URL to another: the page stays, with what its form holds.  A GET that is
\* aborted brings up the error section after all; it is aborted only if the
\* new URL has a target.
QueryParamsChanged(p) ==
    /\ viewed = 0
    /\ p # params
    /\ params' = p
    /\ page' = [page EXCEPT
          !.section = CASE p.target = Nothing -> "content"
                        [] p.target # Nothing /\ Loading(page.getAjax) -> "error"
                        [] OTHER -> "stencil",
          !.getAjax = IF p.target = Nothing THEN @
                      ELSE GenerateRequest(Abort(@), p.target),
          !.gameId = IF p.target = Nothing THEN p.parent ELSE @,
          !.jumped = TRUE]
    /\ UNCHANGED <<posts, viewed, behind>>

\* The document fills the form.
GetResponse(r) ==
    /\ r \in page.getAjax
    /\ r.of \in Published
    /\ page' = [page EXCEPT !.getAjax = @ \ {r},
                            !.gameId = SubSeq(r.of, 1, Len(r.of) - 1),
                            !.id = r.of,
                            !.media = 0,
                            !.basis = r.of,
                            !.dropped = TRUE,
                            !.section = "content"]
    /\ UNCHANGED <<params, posts, viewed, behind>>

GetError(r) ==
    /\ r \in page.getAjax
    /\ page' = [page EXCEPT !.getAjax = @ \ {r}, !.section = "error"]
    /\ UNCHANGED <<params, posts, viewed, behind>>

-----------------------------------------------------------------------------
\* The user types an id, which is disabled when the URL has a target.
TypeId(name) ==
    /\ viewed = 0
    /\ page.section = "content"
    /\ params.target = Nothing
    /\ page.id # <<name>>
    /\ page' = [page EXCEPT !.id = <<name>>]
    /\ UNCHANGED <<params, posts, viewed, behind>>

PickFileNoAbort ==
    /\ viewed = 0
    /\ page.section = "content"
    /\ page.picked < MaxFiles
    /\ page' = [page EXCEPT
          !.picked = @ + 1,
          !.dropped = FALSE,
          !.uploadAjax = GenerateRequest(@, page.picked + 1)]
    /\ UNCHANGED <<params, posts, viewed, behind>>

\* A file within the limit is picked, and takes the place of one that is being
\* uploaded.
PickFile ==
    /\ viewed = 0
    /\ page.section = "content"
    /\ page.picked < MaxFiles
    /\ page' = [page EXCEPT
          !.picked = @ + 1,
          !.dropped = FALSE,
          !.uploadAjax = GenerateRequest(Abort(@), page.picked + 1)]
    /\ UNCHANGED <<params, posts, viewed, behind>>

UploadResponse(r) ==
    /\ r \in page.uploadAjax
    /\ page' = [page EXCEPT !.uploadAjax = @ \ {r},
                            !.media = r.of,
                            !.dropped = FALSE]
    /\ UNCHANGED <<params, posts, viewed, behind>>

UploadError(r) ==
    /\ r \in page.uploadAjax
    /\ page' = [page EXCEPT !.uploadAjax = @ \ {r},
                            !.dropped = TRUE]
    /\ UNCHANGED <<params, posts, viewed, behind>>

-----------------------------------------------------------------------------
SendWithPagesPrefix ==
    [target |-> page.gameId \o page.id, parent |-> page.gameId,
     media |-> page.media, asked |-> params, basis |-> page.basis,
     jumped |-> page.jumped, state |-> "sent", stored |-> FALSE]

\* The form is sent as it is; an upload in flight is not waited for.
Send ==
    [target |-> params.parent \o page.id, parent |-> page.gameId,
     media |-> page.media, asked |-> params, basis |-> page.basis,
     jumped |-> page.jumped, state |-> "sent", stored |-> FALSE]

\* With an invalid form a click only says so.  An id is valid if it is disabled
\* or a name, with blanks around it or not.
IdValid == params.target # Nothing \/ page.id # <<>>

SubmitStaysEnabled ==
    /\ viewed = 0
    /\ page.section = "content"
    /\ ~page.submitDisabled
    /\ IdValid
    /\ Len(posts) < MaxPosts
    /\ posts' = Append(posts, Send)
    /\ page' = [page EXCEPT
          !.postAjax = GenerateRequest(Abort(@), Len(posts) + 1)]
    /\ UNCHANGED <<params, viewed, behind>>

Submit ==
    /\ viewed = 0
    /\ page.section = "content"
    /\ ~page.submitDisabled
    /\ IdValid
    /\ Len(posts) < MaxPosts
    /\ posts' = Append(posts, Send)
    /\ page' = [page EXCEPT
          !.submitDisabled = TRUE,
          !.postAjax = GenerateRequest(Abort(@), Len(posts) + 1)]
    /\ UNCHANGED <<params, viewed, behind>>

\* What the server asks of parent and target: it cuts the target after the
\* parent and a dot, and what remains must be one short name.
Accepts(post) ==
    /\ post.parent = <<>> \/ post.parent \in Published
    /\ \E name \in Name : post.target = Append(post.parent, name)

\* A post reaches the server.  It may be answered with an error, too, when the
\* user is no longer logged in or the database fails, late or early.
Receive(i) ==
    /\ posts[i].state = "sent"
    /\ \E state \in {"done", "refused"}, stored \in BOOLEAN :
          /\ stored => Accepts(posts[i])
          /\ state = "done" => stored
          /\ posts' = [posts EXCEPT ![i].state = state, ![i].stored = stored]
    /\ UNCHANGED <<params, page, viewed, behind>>

\* The page is left for the proposal.
PostResponse(r) ==
    /\ r \in page.postAjax
    /\ posts[r.of].state = "done"
    /\ viewed' = r.of
    /\ page' = Gone
    /\ behind' = behind \union (InFlight \ {r.of})
    /\ UNCHANGED <<params, posts>>

PostErrorStaysDisabled(r) ==
    /\ r \in page.postAjax
    /\ page' = [page EXCEPT !.postAjax = @ \ {r}]
    /\ UNCHANGED <<params, posts, viewed, behind>>

\* Refused, or the answer is lost.
PostError(r) ==
    /\ r \in page.postAjax
    /\ page' = [page EXCEPT !.postAjax = @ \ {r},
                            !.submitDisabled = FALSE]
    /\ UNCHANGED <<params, posts, viewed, behind>>

\* The answer to a page that was left takes the user away from where he is.
LateResponse(i) ==
    /\ i \in behind
    /\ posts[i].state = "done"
    /\ viewed' = i
    /\ page' = Gone
    /\ behind' = (behind \ {i}) \union InFlight
    /\ UNCHANGED <<params, posts>>

LateError(i) ==
    /\ i \in behind
    /\ behind' = behind \ {i}
    /\ UNCHANGED <<params, page, posts, viewed>>

Next ==
    \/ \E p \in Params : Arrive(p) \/ QueryParamsChanged(p)
    \/ \E r \in page.getAjax : GetResponse(r) \/ GetError(r)
    \/ \E name \in Typed : TypeId(name)
    \/ PickFile
    \/ \E r \in page.uploadAjax : UploadResponse(r) \/ UploadError(r)
    \/ Submit
    \/ \E i \in DOMAIN posts : Receive(i)
    \/ \E r \in page.postAjax : PostResponse(r) \/ PostError(r)
    \/ \E i \in behind : LateResponse(i) \/ LateError(i)

\* The browser ends every POST.
Fairness ==
    \A i \in 1 .. MaxPosts :
        LET r == [of |-> i, last |-> TRUE]
        IN  WF_vars(PostResponse(r) \/ PostError(r))

Spec == Init /\ [][Next]_vars /\ Fairness

-----------------------------------------------------------------------------
\* What is in flight is for the URL's target unless the page has stayed over a
\* change, for the last post and for the last file; a form that is shown for a
\* target is filled from it, one that is shown for none is of its kind.
IInv ==
    /\ TypeOK
    /\ \A r, q \in page.getAjax : r.last /\ r = q
    /\ ~page.jumped => page.getAjax \subseteq {[of |-> params.target,
                                               last |-> TRUE]}
    /\ params.target # Nothing =>
          page.getAjax \subseteq {[of |-> params.target, last |-> TRUE]}
    /\ params.target # Nothing /\ page.section = "content" =>
          page.basis = params.target /\ page.id = params.target
    /\ params.target = Nothing =>
          /\ page.basis # Nothing => page.jumped
          /\ Len(page.gameId) = Len(params.parent)
    /\ page.postAjax \subseteq {[of |-> Len(posts), last |-> TRUE]}
    /\ Loading(page.postAjax) <=> page.submitDisabled
    /\ page.uploadAjax \subseteq {[of |-> page.picked, last |-> TRUE]}
    /\ page.picked # 0 /\ ~Loading(page.uploadAjax) /\ ~page.dropped =>
          page.media = page.picked
    /\ viewed # 0 => posts[viewed].state = "done" /\ posts[viewed].stored
    /\ \A i \in DOMAIN posts :
          /\ posts[i].stored => Accepts(posts[i])
          /\ posts[i].state = "done" => posts[i].stored

\* Changes go to the document that the URL names, and the form they are made
\* in was filled from that document, however the user came to the page.
EditsItsTarget ==
    \A i \in DOMAIN posts :
        posts[i].asked.target # Nothing =>
            /\ posts[i].target = posts[i].asked.target
            /\ posts[i].basis = posts[i].asked.target

\* A new document is stored below the parent that the URL names, although the
\* id is prefixed from the URL and the parent kept by the page; and unless the
\* page has stayed over a change of the URL it was made from an empty form.
StoredWhereAsked ==
    \A i \in DOMAIN posts :
        posts[i].asked.target = Nothing =>
            /\ posts[i].stored => \E name \in Name :
                   posts[i].target = Append(posts[i].asked.parent, name)
            /\ ~posts[i].jumped => posts[i].basis = Nothing

\* A page has one proposal in flight, and "Submit" is disabled until its answer
\* is there: no proposal is sent a second time but after an error.
OnePostInFlight ==
    /\ \A r, q \in page.postAjax : r = q
    /\ Loading(page.postAjax) => page.submitDisabled
    /\ viewed # 0 => posts[viewed].stored

\* The video of the form is the one picked last, in whatever order uploads are
\* answered, unless its upload failed or is not over or the form was filled
\* anew.
LastPickedWins ==
    page.picked # 0 /\ ~Loading(page.uploadAjax) /\ ~page.dropped =>
        page.media = page.picked

\* "Submit" is enabled again, or the page is left.
SubmitComesBack == page.submitDisabled ~> ~page.submitDisabled
=============================================================================
