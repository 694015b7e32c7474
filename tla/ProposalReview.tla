---------------------------- MODULE ProposalReview ----------------------------
(***************************************************************************)
(* The life of proposals: Proposal::handle_patch_request with              *)
(* authorize_proposal_close and publish_proposal, and of the POST the      *)
(* check of the parent.  (How a POST gets its version is ProposalCreation; *)
(* here a proposal is stored in one step, under an id of its own.)         *)
(*                                                                         *)
(* Handlers run concurrently and share the buckets `proposed` and          *)
(* `published`.  A PATCH reads the proposal, decides, and when it approves *)
(* publishes the document before it closes the proposal: four awaited      *)
(* calls, any of which may be the last.  A write is a message: a handler   *)
(* that stops waiting for it (timeout, error, the client gone) leaves it   *)
(* on its way, to be applied late or never.                                *)
(***************************************************************************)
EXTENDS Naturals, SequencesExt

CONSTANTS Proposal,   \* the proposals that are ever submitted
          Review,     \* the PATCH requests; each is handled once
          Target,     \* the ids of documents
          TargetOf,   \* the document each proposal is for
          ParentOf,   \* the parent of each document
          Nothing,    \* no parent, no published version
          Person,     \* author ids; some are no user's (an import's)
          User,       \* the users who send PATCHes
          Admin,      \* those whose session says so
          Name,       \* screen names
          AuthorOf,   \* the id and name each proposal was submitted with
          Ask,        \* what PATCHes may ask: user, proposal and new status
          MaxAuthors  \* the limit given to get_latest_authors: 9

Verdict == {"approved", "rejected", "cancelled"}

Author == [id : Person, name : Name]

ASSUME ReviewAssumption ==
    /\ Nothing \notin Proposal \union Target
    /\ TargetOf \in [Proposal -> Target]
    /\ ParentOf \in [Target -> Target \union {Nothing}]
    /\ Admin \subseteq User /\ User \subseteq Person
    /\ AuthorOf \in [Proposal -> Author]
    /\ Ask \subseteq [user : User, proposal : Proposal, status : Verdict]
    /\ MaxAuthors \in Nat \ {0}

VARIABLES status,     \* of each proposal; "checked" before it is stored
          closed,     \* the second in which each was closed
          second,     \* the latest of those
          published,  \* the proposal each published document is from
          credits,    \* its latestAuthors
          past,       \* history: the proposals ever published
          pc,         \* where each PATCH handler is
          ask,        \* what its request asks
          draft,      \* the latestAuthors it has put together
          write,      \* what became of the last write it sent
          earlier     \* history: the PATCHes that were over when it came

store == <<status, closed, second, published, credits, past>>
vars == <<store, pc, ask, draft, write, earlier>>

Open == {"get", "authors", "publish", "names", "close"}

TypeOK ==
    /\ status \in [Proposal -> {"absent", "checked", "pending"} \union Verdict]
    /\ closed \in [Proposal -> Nat]
    /\ second \in Nat
    /\ published \in [Target -> Proposal \union {Nothing}]
    /\ credits \in [Target -> Seq(Author)]
    /\ past \subseteq Proposal
    /\ pc \in [Review -> {"idle", "ok", "error"} \union Open]
    /\ ask \in [Review -> Ask \union {Nothing}]
    /\ \A r \in Review : pc[r] # "idle" => ask[r] \in Ask
    /\ draft \in [Review -> Seq(Author)]
    /\ write \in [Review -> {"none", "publish", "published", "close", "closed",
                             "no row"}]
    /\ earlier \in [Review -> SUBSET Review]

Init ==
    /\ status = [p \in Proposal |-> "absent"]
    /\ closed = [p \in Proposal |-> 0]
    /\ second = 0
    /\ published = [t \in Target |-> Nothing]
    /\ credits = [t \in Target |-> <<>>]
    /\ past = {}
    /\ pc = [r \in Review |-> "idle"]
    /\ ask = [r \in Review |-> Nothing]
    /\ draft = [r \in Review |-> <<>>]
    /\ write = [r \in Review |-> "none"]
    /\ earlier = [r \in Review |-> {}]

-----------------------------------------------------------------------------
(* Submitting.                                                             *)

\* process_proposal_request: a game needs no parent; another document's must
\* be published.
CheckNothing(p) ==
    /\ status[p] = "absent"
    /\ status' = [status EXCEPT ![p] = "checked"]
    /\ UNCHANGED <<closed, second, published, credits, past>>
    /\ UNCHANGED <<pc, ask, draft, write, earlier>>

CheckParent(p) ==
    LET parent == ParentOf[TargetOf[p]]
    IN  /\ status[p] = "absent"
        /\ parent # Nothing => published[parent] # Nothing
        /\ status' = [status EXCEPT ![p] = "checked"]
        /\ UNCHANGED <<closed, second, published, credits, past>>
        /\ UNCHANGED <<pc, ask, draft, write, earlier>>

\* commit_new_proposal: it is stored as pending, whenever the store takes it.
StoreProposal(p) ==
    /\ status[p] = "checked"
    /\ status' = [status EXCEPT ![p] = "pending"]
    /\ UNCHANGED <<closed, second, published, credits, past>>
    /\ UNCHANGED <<pc, ask, draft, write, earlier>>

-----------------------------------------------------------------------------
(* The PATCH handler: each step ends at an await.                          *)

\* A PATCH is over when it is answered and no write of it is on its way.
Over(r) == pc[r] \in {"ok", "error"} /\ write[r] \notin {"publish", "close"}

Receive(r) ==
    /\ pc[r] = "idle"
    /\ earlier' = [earlier EXCEPT ![r] = {q \in Review : Over(q)}]
    /\ \E a \in Ask : ask' = [ask EXCEPT ![r] = a]
    /\ pc' = [pc EXCEPT ![r] = "get"]
    /\ UNCHANGED <<store, draft, write>>

\* authorize_proposal_close
AuthorizedLoosely(a) ==
    \/ a.user \in Admin
    \/ a.user = AuthorOf[a.proposal].id

Authorized(a) ==
    IF a.status = "cancelled" THEN a.user = AuthorOf[a.proposal].id
                              ELSE a.user \in Admin

\* The proposal is found and the user may close it; its status is not looked
\* at.  An approval publishes first, anything else sends the closing query.
GetProposalClosesFirst(r) ==
    LET a == ask[r]
    IN  /\ pc[r] = "get"
        /\ status[a.proposal] \notin {"absent", "checked"}
        /\ Authorized(a)
        /\ pc' = [pc EXCEPT ![r] = IF a.status = "approved" THEN "authors"
                                                             ELSE "close"]
        /\ write' = [write EXCEPT ![r] = "close"]
        /\ UNCHANGED <<store, ask, draft, earlier>>

GetProposal(r) ==
    LET a == ask[r]
    IN  /\ pc[r] = "get"
        /\ status[a.proposal] \notin {"absent", "checked"}
        /\ Authorized(a)
        /\ IF a.status = "approved"
           THEN /\ pc' = [pc EXCEPT ![r] = "authors"]
                /\ UNCHANGED write
           ELSE /\ pc' = [pc EXCEPT ![r] = "close"]
                /\ write' = [write EXCEPT ![r] = "close"]
        /\ UNCHANGED <<store, ask, draft, earlier>>

\* get_latest_authors.n1ql: the distinct authors of the approved proposals for
\* a document, the latest closed first, as many as the limit.  An author of
\* several is placed by one of them, and authors of one second in any order.
LatestAuthorsOfAny(t) ==
    LET listed == {p \in Proposal : TargetOf[p] = t /\ status[p] # "absent"}
        distinct == {AuthorOf[p] : p \in listed}
    IN  {s \in UNION {[1 .. n -> distinct] : n \in 0 .. MaxAuthors} :
            /\ IsInjective(s)
            /\ Len(s) = MaxAuthors \/ ToSet(s) = distinct}

LatestAuthors(t) ==
    LET approved == {p \in Proposal : TargetOf[p] = t /\ status[p] = "approved"}
        distinct == {AuthorOf[p] : p \in approved}
    IN  {s \in UNION {[1 .. n -> distinct] : n \in 0 .. MaxAuthors} :
            /\ IsInjective(s)
            /\ Len(s) = MaxAuthors \/ ToSet(s) = distinct
            /\ \E by \in [distinct -> approved] :
                  /\ \A a \in distinct : AuthorOf[by[a]] = a
                  /\ \A i, j \in DOMAIN s :
                        i < j => closed[by[s[i]]] >= closed[by[s[j]]]
                  /\ \A a \in distinct \ ToSet(s) : \A i \in DOMAIN s :
                        closed[by[s[i]]] >= closed[by[a]]}

\* Make sure the proposal's author is first on the list.
AloneOnList(a, list) == <<a>>

FirstOnList(a, list) ==
    LET same == {i \in 1 .. Len(list) : list[i].id = a.id}
    IN  <<a>> \o (IF same = {} THEN list ELSE RemoveAt(list, Min(same)))

\* The authors are known: send the document.
GetAuthors(r) ==
    LET p == ask[r].proposal
    IN  /\ pc[r] = "authors"
        /\ \E list \in LatestAuthors(TargetOf[p]) :
              draft' = [draft EXCEPT ![r] = FirstOnList(AuthorOf[p], list)]
        /\ pc' = [pc EXCEPT ![r] = "publish"]
        /\ write' = [write EXCEPT ![r] = "publish"]
        /\ UNCHANGED <<store, ask, earlier>>

\* The document is published: update the name sets (module NameSets).
Published(r) ==
    /\ pc[r] = "publish"
    /\ write[r] = "published"
    /\ pc' = [pc EXCEPT ![r] = "names"]
    /\ UNCHANGED <<store, ask, draft, write, earlier>>

\* They are up to date: send the closing query.
NamesUpdated(r) ==
    /\ pc[r] = "names"
    /\ pc' = [pc EXCEPT ![r] = "close"]
    /\ write' = [write EXCEPT ![r] = "close"]
    /\ UNCHANGED <<store, ask, draft, earlier>>

\* The closing query returned its row.
ClosedAnyhow(r) ==
    /\ pc[r] = "close"
    /\ write[r] \in {"closed", "no row"}
    /\ pc' = [pc EXCEPT ![r] = "ok"]
    /\ UNCHANGED <<store, ask, draft, write, earlier>>

Closed(r) ==
    /\ pc[r] = "close"
    /\ write[r] = "closed"
    /\ pc' = [pc EXCEPT ![r] = "ok"]
    /\ UNCHANGED <<store, ask, draft, write, earlier>>

\* Any other result ends the handler: no such proposal, a user who may not, no
\* row from the closing query, a timeout or another error of any call.  What
\* was done stays done, and a write that was sent stays on its way.
Fail(r) ==
    /\ pc[r] \in Open
    /\ pc' = [pc EXCEPT ![r] = "error"]
    /\ UNCHANGED <<store, ask, draft, write, earlier>>

-----------------------------------------------------------------------------
(* The store's side.                                                       *)

\* The upsert of the published document, with its latestAuthors.
StorePublishes(r) ==
    LET p == ask[r].proposal
    IN  /\ write[r] = "publish"
        /\ published' = [published EXCEPT ![TargetOf[p]] = p]
        /\ credits' = [credits EXCEPT ![TargetOf[p]] = draft[r]]
        /\ past' = past \union {p}
        /\ write' = [write EXCEPT ![r] = "published"]
        /\ UNCHANGED <<status, closed, second, pc, ask, draft, earlier>>

\* close.n1ql, which is atomic: a pending proposal gets its status and its
\* time, in whole seconds.
StoreClosesAgain(r) ==
    LET a == ask[r]
    IN  /\ write[r] = "close"
        /\ status' = [status EXCEPT ![a.proposal] = a.status]
        /\ second' \in {second, second + 1}
        /\ closed' = [closed EXCEPT ![a.proposal] = second']
        /\ write' = [write EXCEPT ![r] = "closed"]
        /\ UNCHANGED <<published, credits, past, pc, ask, draft, earlier>>

StoreCloses(r) ==
    LET a == ask[r]
    IN  /\ write[r] = "close"
        /\ status[a.proposal] = "pending"
        /\ status' = [status EXCEPT ![a.proposal] = a.status]
        /\ second' \in {second, second + 1}
        /\ closed' = [closed EXCEPT ![a.proposal] = second']
        /\ write' = [write EXCEPT ![r] = "closed"]
        /\ UNCHANGED <<published, credits, past, pc, ask, draft, earlier>>

\* One that is not pending is left as it is.
StoreFindsNoRow(r) ==
    /\ write[r] = "close"
    /\ status[ask[r].proposal] # "pending"
    /\ write' = [write EXCEPT ![r] = "no row"]
    /\ UNCHANGED <<store, pc, ask, draft, earlier>>

-----------------------------------------------------------------------------
Submit(p) == CheckParent(p) \/ StoreProposal(p)

Handler(r) == \/ GetProposal(r)
              \/ GetAuthors(r)
              \/ Published(r)
              \/ NamesUpdated(r)
              \/ Closed(r)
              \/ Fail(r)

Store(r) == StorePublishes(r) \/ StoreCloses(r) \/ StoreFindsNoRow(r)

\* Nothing is left to do: every PATCH answered, every write taken.
Done ==
    /\ \A r \in Review : Over(r)
    /\ UNCHANGED vars

Next == \/ \E p \in Proposal : Submit(p)
        \/ \E r \in Review : Receive(r) \/ Handler(r) \/ Store(r)
        \/ Done

Spec == Init /\ [][Next]_vars

-----------------------------------------------------------------------------
(* Properties.                                                             *)

Stored(p) == status[p] \notin {"absent", "checked"}

\* A verdict is final: the closing query of no PATCH, however late, and no
\* handler that decided on what it read earlier, changes a closed proposal or
\* the time it was closed.
VerdictFinal ==
    [][\A p \in Proposal : status[p] \in Verdict =>
          status'[p] = status[p] /\ closed'[p] = closed[p]]_vars

\* handle_patch_request publishes before it closes: at no failure point is a
\* proposal approved whose document was never published.
ApprovedWasPublished ==
    \A p \in Proposal : status[p] = "approved" => p \in past

\* Of the PATCHes that race to close a proposal one is told "ok", and the
\* verdict is the one that it asked for.
OneReviewerWins ==
    \A r \in Review : pc[r] = "ok" =>
        /\ status[ask[r].proposal] = ask[r].status
        /\ \A q \in Review :
              pc[q] = "ok" /\ ask[q].proposal = ask[r].proposal => q = r

Asked(p, v, people) ==
    \E r \in Review : /\ pc[r] # "idle"
                      /\ ask[r].proposal = p
                      /\ ask[r].status = v
                      /\ ask[r].user \in people

\* What a proposal was closed with was asked for by someone who may: its
\* author cancelled it, or an admin approved or rejected it; and what is
\* published an admin asked to approve.
Entitled ==
    /\ \A p \in Proposal :
          /\ status[p] = "cancelled" => Asked(p, "cancelled", {AuthorOf[p].id})
          /\ \A v \in {"approved", "rejected"} :
                status[p] = v => Asked(p, v, Admin)
    /\ \A t \in Target :
          published[t] # Nothing => Asked(published[t], "approved", Admin)

\* No proposal is stored, so none is published, whose parent is not published:
\* process_proposal_request checks only once, before it stores.
ParentsPublished ==
    \A p \in Proposal :
        LET parent == ParentOf[TargetOf[p]]
        IN  Stored(p) /\ parent # Nothing => published[parent] # Nothing

\* The latestAuthors of a published document start with the author of the
\* proposal it is from; the others had a proposal for it approved; there are
\* at most 10; and nobody is listed twice who has not changed names between
\* proposals for it.
CreditsDue ==
    \A t \in Target : published[t] # Nothing =>
        LET list == credits[t]
            renamed(id) == \E p, q \in Proposal :
                              /\ TargetOf[p] = t /\ TargetOf[q] = t
                              /\ AuthorOf[p].id = id /\ AuthorOf[q].id = id
                              /\ AuthorOf[p] # AuthorOf[q]
        IN  /\ list # <<>> /\ list[1] = AuthorOf[published[t]]
            /\ Len(list) <= MaxAuthors + 1
            /\ \A i \in 2 .. Len(list) : \E p \in Proposal :
                  /\ TargetOf[p] = t
                  /\ status[p] = "approved"
                  /\ AuthorOf[p] = list[i]
            /\ \A i, j \in DOMAIN list :
                  list[i].id = list[j].id => i = j \/ renamed(list[i].id)

\* When the approvals of a document come one after the other, whatever became
\* of the earlier ones, an approval answered "ok" leaves its own proposal
\* published, and every author approved so far among the latestAuthors unless
\* the list is full.  (Approvals that overlap can leave the older document and
\* lose an author.)
LastApprovalShows ==
    \A r \in Review :
        LET p == ask[r].proposal
            t == TargetOf[p]
            approvals == {q \in Review \ {r} : /\ pc[q] # "idle"
                                               /\ ask[q].status = "approved"
                                               /\ TargetOf[ask[q].proposal] = t}
            named == {credits[t][i].id : i \in DOMAIN credits[t]}
        IN  /\ pc[r] = "ok"
            /\ ask[r].status = "approved"
            /\ approvals \subseteq earlier[r]
            => /\ published[t] = p
               /\ \/ Len(credits[t]) >= MaxAuthors
                  \/ \A q \in Proposal :
                        TargetOf[q] = t /\ status[q] = "approved"
                        => AuthorOf[q].id \in named

\* data-design.md, Proposals: proposals "have not yet been approved and as a
\* result published".  Then what is published is not from a proposal that was
\* rejected or cancelled.
PublishedNotTurnedDown ==
    \A t \in Target : published[t] # Nothing =>
        status[published[t]] \notin {"rejected", "cancelled"}

\* The inductive invariant behind the properties proved: how far a PATCH has
\* come tells what must already be so of its proposal.
Admitted(r) ==
    pc[r] # "idle" /\ Stored(ask[r].proposal) /\ Authorized(ask[r])

HandlerOnCourse ==
    \A r \in Review :
        LET a == ask[r]
            approving == a.status = "approved"
        IN  /\ pc[r] \in {"idle", "get", "authors"} => write[r] = "none"
            /\ pc[r] \in (Open \ {"get"}) \union {"ok"} \/ write[r] # "none"
                  => Admitted(r)
            /\ pc[r] \in {"authors", "publish", "names"} => approving
            /\ write[r] \in {"publish", "published"} => approving
            /\ pc[r] = "names" => write[r] = "published"
            /\ write[r] \in {"published", "close", "closed"} /\ approving
                  => a.proposal \in past
            /\ write[r] = "closed" => status[a.proposal] = a.status
            /\ pc[r] = "ok" => write[r] = "closed"

OneCloses ==
    \A q, r \in Review :
        /\ write[q] = "closed"
        /\ write[r] = "closed"
        /\ ask[q].proposal = ask[r].proposal
        => q = r

ParentsStay ==
    \A p \in Proposal :
        LET parent == ParentOf[TargetOf[p]]
        IN  status[p] # "absent" /\ parent # Nothing
            => published[parent] # Nothing

IInv ==
    /\ TypeOK
    /\ HandlerOnCourse
    /\ ApprovedWasPublished
    /\ OneCloses
    /\ Entitled
    /\ ParentsStay

\* The handlers implement the ledger of reviews.
Ledger == INSTANCE ReviewLedger
              WITH verdict <- [p \in Proposal |->
                                  IF Stored(p) THEN status[p] ELSE "absent"],
                   told <- [r \in Review |->
                               IF pc[r] \in {"ok", "error"} THEN pc[r]
                                                           ELSE "none"]

ImplementsLedger == Ledger!Spec
=============================================================================
