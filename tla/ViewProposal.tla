----------------------------- MODULE ViewProposal -----------------------------
(***************************************************************************)
(* The page of a proposal, view-proposal-page, on which its author cancels *)
(* it and an admin approves or rejects it.                                 *)
(*                                                                         *)
(* The page stays while the user goes back and forward between proposals.  *)
(* It loads each with a GET, sends a verdict with a PATCH, and reloads     *)
(* itself when that succeeds.  A PATCH that the page gives up, or whose    *)
(* answer is lost, may still reach the server.  There a proposal is closed *)
(* as ReviewLedger says: once, by whom it may, whatever is answered.       *)
(***************************************************************************)
EXTENDS Naturals, Sequences, IronAjax

CONSTANTS Target,      \* the ids of documents
          Version,     \* the versions in URLs
          Stored,      \* the proposals there are: targets with a version
          AuthorOf,    \* the author of each of them
          User,        \* who has logged in, or Nobody
          Nobody,
          Admin,       \* the users who may approve
          MaxPatches,  \* bound: clicks on the buttons
          Nothing      \* no proposal

Proposal == Target \X Version
Verdict == {"approved", "rejected", "cancelled"}
Status == Verdict \union {"pending"}

\* What the constants are.
ViewProposalAssumption ==
    /\ Stored \subseteq Proposal
    /\ AuthorOf \in [Stored -> User \ {Nobody}]
    /\ Nobody \in User
    /\ Admin \subseteq User \ {Nobody}
    /\ MaxPatches \in Nat
    /\ Nothing \notin [id : Stored, status : Status]

VARIABLES statuses,  \* the server's: the status of each proposal
          patches,   \* the verdicts sent, each with the proposal that was
                     \* looked at (history) and how far it has come
          user,      \* whose cookie the page has read
          path,      \* the proposal that the URL names
          view       \* the element of the page

vars == <<statuses, patches, user, path, view>>

Patch == [of : Proposal, status : Verdict, by : User, seen : Proposal,
          state : {"sent", "done", "refused"}]

ViewState ==
    [section : {"stencil", "content", "error", "notFound"},
     proposal : [id : Stored, status : Status] \union {Nothing},
     getAjax : SUBSET Request(Proposal),
     patchAjax : SUBSET Request(Nat),
     actionsDisabled : BOOLEAN,
     inlineError : BOOLEAN,
     reloading : BOOLEAN]

TypeOK ==
    /\ statuses \in [Stored -> Status]
    /\ patches \in Seq(Patch) /\ Len(patches) <= MaxPatches
    /\ user \in User
    /\ path \in Proposal
    /\ view \in ViewState

Loaded(p) ==
    [section |-> "stencil",
     proposal |-> Nothing,
     getAjax |-> GenerateRequest(NoRequests, p),
     patchAjax |-> NoRequests,
     actionsDisabled |-> FALSE,
     inlineError |-> FALSE,
     reloading |-> FALSE]

Init ==
    /\ statuses = [p \in Stored |-> "pending"]
    /\ patches = <<>>
    /\ user \in User
    /\ path \in Proposal
    /\ view = Loaded(path)

-----------------------------------------------------------------------------
\* The server closes a proposal that is pending, for one who may.
May(u, p, status) ==
    \/ status = "cancelled" /\ u = AuthorOf[p]
    \/ status \in {"approved", "rejected"} /\ u \in Admin

\* A verdict reaches the server.  An error may be answered even so.
Receive(i) ==
    LET patch == patches[i]
        closes == /\ patch.of \in Stored
                  /\ May(patch.by, patch.of, patch.status)
                  /\ statuses[patch.of] = "pending"
    IN  /\ patch.state = "sent"
        /\ \/ /\ closes
              /\ statuses' = [statuses EXCEPT ![patch.of] = patch.status]
              /\ \E state \in {"done", "refused"} :
                    patches' = [patches EXCEPT ![i].state = state]
           \/ /\ patches' = [patches EXCEPT ![i].state = "refused"]
              /\ UNCHANGED statuses
        /\ UNCHANGED <<user, path, view>>

\* Others decide on a proposal, or its author withdraws it elsewhere.
OthersClose(p, status) ==
    /\ statuses[p] = "pending"
    /\ statuses' = [statuses EXCEPT ![p] = status]
    /\ UNCHANGED <<patches, user, path, view>>

-----------------------------------------------------------------------------
RelativePathChangedKeepsSection(p) ==
    /\ p # path
    /\ ~view.reloading
    /\ path' = p
    /\ user' \in {user, Nobody}
    /\ view' = [view EXCEPT !.getAjax = GenerateRequest(Abort(@), p)]
    /\ UNCHANGED <<statuses, patches>>

RelativePathChangedNoAbort(p) ==
    /\ p # path
    /\ ~view.reloading
    /\ path' = p
    /\ user' \in {user, Nobody}
    /\ view' = [view EXCEPT !.section = "stencil",
                            !.getAjax = GenerateRequest(@, p)]
    /\ UNCHANGED <<statuses, patches>>

\* Back or forward to another proposal: the cookie is read anew, the session
\* may have ended.  An aborted GET brings up the error section for a while.
RelativePathChanged(p) ==
    /\ p # path
    /\ ~view.reloading
    /\ path' = p
    /\ user' \in {user, Nobody}
    /\ view' = [view EXCEPT
          !.section = IF Loading(view.getAjax) THEN "error" ELSE "stencil",
          !.getAjax = GenerateRequest(Abort(@), p)]
    /\ UNCHANGED <<statuses, patches>>

GetResponse(r) ==
    /\ r \in view.getAjax
    /\ r.of \in Stored
    /\ view' = [view EXCEPT
          !.getAjax = @ \ {r},
          !.proposal = [id |-> r.of, status |-> statuses[r.of]],
          !.section = "content"]
    /\ UNCHANGED <<statuses, patches, user, path>>

GetError(r) ==
    /\ r \in view.getAjax
    /\ \E section \in {"error", "notFound"} :
          /\ section = "notFound" => r.of \notin Stored
          /\ view' = [view EXCEPT !.getAjax = @ \ {r}, !.section = section]
    /\ UNCHANGED <<statuses, patches, user, path>>

-----------------------------------------------------------------------------
\* The buttons that are there, by what is known of the proposal and the user.
CanCancel ==
    /\ view.proposal # Nothing
    /\ view.proposal.status = "pending"
    /\ user = AuthorOf[view.proposal.id]

CanApprove ==
    /\ view.proposal # Nothing
    /\ view.proposal.status = "pending"
    /\ user \in Admin

\* A click sends a verdict: on the target of the proposal that was loaded, in
\* the version that the URL names.  To abort an earlier one would enable the
\* buttons again.
MakePatchCallStaysEnabled(status) ==
    /\ Len(patches) < MaxPatches
    /\ patches' = Append(patches,
          [of |-> <<view.proposal.id[1], path[2]>>, status |-> status,
           by |-> user, seen |-> path, state |-> "sent"])
    /\ view' = [view EXCEPT
          !.patchAjax = GenerateRequest(Abort(@), Len(patches) + 1)]
    /\ UNCHANGED <<statuses, user, path>>

MakePatchCall(status) ==
    /\ Len(patches) < MaxPatches
    /\ patches' = Append(patches,
          [of |-> <<view.proposal.id[1], path[2]>>, status |-> status,
           by |-> user, seen |-> path, state |-> "sent"])
    /\ view' = [view EXCEPT
          !.actionsDisabled = ~Loading(view.patchAjax),
          !.inlineError = @ \/ Loading(view.patchAjax),
          !.patchAjax = GenerateRequest(Abort(@), Len(patches) + 1)]
    /\ UNCHANGED <<statuses, user, path>>

Click(status) ==
    /\ view.section = "content"
    /\ ~view.actionsDisabled
    /\ IF status = "cancelled" THEN CanCancel ELSE CanApprove
    /\ MakePatchCall(status)

\* The reload is under way, and the buttons are enabled until it is done.
PatchResponse(r) ==
    /\ r \in view.patchAjax
    /\ patches[r.of].state = "done"
    /\ view' = [view EXCEPT !.patchAjax = @ \ {r},
                            !.reloading = TRUE,
                            !.actionsDisabled = FALSE]
    /\ UNCHANGED <<statuses, patches, user, path>>

PatchErrorStaysDisabled(r) ==
    /\ r \in view.patchAjax
    /\ view' = [view EXCEPT !.patchAjax = @ \ {r}, !.inlineError = TRUE]
    /\ UNCHANGED <<statuses, patches, user, path>>

\* Refused, or the answer is lost.
PatchError(r) ==
    /\ r \in view.patchAjax
    /\ view' = [view EXCEPT !.patchAjax = @ \ {r},
                            !.actionsDisabled = FALSE,
                            !.inlineError = TRUE]
    /\ UNCHANGED <<statuses, patches, user, path>>

ReloadShowsCopy ==
    /\ view.reloading
    /\ view' = [view EXCEPT !.reloading = FALSE]
    /\ UNCHANGED <<statuses, patches, user, path>>

Reload ==
    /\ view.reloading
    /\ view' = Loaded(path)
    /\ UNCHANGED <<statuses, patches, user, path>>

\* The page is left and opened on a proposal, this one or another.
Arrive(p) ==
    /\ path' = p
    /\ view' = Loaded(p)
    /\ user' \in User
    /\ UNCHANGED <<statuses, patches>>

Next ==
    \/ \E i \in DOMAIN patches : Receive(i)
    \/ \E p \in Stored, status \in Verdict : OthersClose(p, status)
    \/ \E p \in Proposal : RelativePathChanged(p) \/ Arrive(p)
    \/ \E r \in view.getAjax : GetResponse(r) \/ GetError(r)
    \/ \E status \in Verdict : Click(status)
    \/ \E r \in view.patchAjax : PatchResponse(r) \/ PatchError(r)
    \/ Reload

\* The browser ends every request, and reloads when it is told to.
Fairness ==
    /\ \A p \in Proposal :
          LET r == [of |-> p, last |-> TRUE]
          IN  WF_vars(GetResponse(r) \/ GetError(r))
    /\ \A i \in 1 .. MaxPatches :
          LET r == [of |-> i, last |-> TRUE]
          IN  WF_vars(PatchResponse(r) \/ PatchError(r))
    /\ WF_vars(Reload)

Spec == Init /\ [][Next]_vars /\ Fairness

-----------------------------------------------------------------------------
\* What is in flight is for the URL's proposal and the last verdict; what is
\* shown is of that proposal; while a verdict is in flight the buttons are
\* disabled and the page is not reloading.
IInv ==
    /\ TypeOK
    /\ view.getAjax \subseteq {[of |-> path, last |-> TRUE]}
    /\ view.patchAjax \subseteq {[of |-> Len(patches), last |-> TRUE]}
    /\ Loading(view.patchAjax) => Len(patches) > 0 /\ view.actionsDisabled
    /\ view.actionsDisabled => Loading(view.patchAjax)
    /\ view.section = "content" =>
          /\ view.proposal # Nothing
          /\ view.proposal.id = path
          /\ ~Loading(view.getAjax)
    /\ view.section = "stencil" => Loading(view.getAjax)
    /\ view.section = "notFound" =>
          path \notin Stored /\ ~Loading(view.getAjax)
    /\ \A i \in DOMAIN patches :
          /\ patches[i].of = patches[i].seen
          /\ patches[i].of \in Stored
          /\ May(patches[i].by, patches[i].of, patches[i].status)
          /\ patches[i].state = "done" => statuses[patches[i].of] # "pending"

\* The proposal on the page is the one that the URL names, and is said to be
\* missing only if it is, in whatever order the user moves and answers come.
ShownIsAddressed ==
    /\ view.section = "content" =>
          view.proposal # Nothing /\ view.proposal.id = path
    /\ view.section = "notFound" => path \notin Stored

\* A verdict is sent on the proposal that the user had before his eyes when he
\* clicked, although the page takes its target from the proposal and its
\* version from the URL; and by a user who may give it.
PatchIsOfShown ==
    \A i \in DOMAIN patches :
        /\ patches[i].of = patches[i].seen
        /\ patches[i].of \in Stored
        /\ May(patches[i].by, patches[i].of, patches[i].status)

\* A page never has two verdicts in flight, and its buttons are disabled while
\* it has one: a click never aborts a verdict on its way.
OnePatchAtATime ==
    /\ \A r, q \in view.patchAjax : r = q
    /\ Loading(view.patchAjax) => view.actionsDisabled

\* What is shown is addressed, what is sent is of what is shown, and sent once.
VerdictsAreMeant == ShownIsAddressed /\ PatchIsOfShown /\ OnePatchAtATime

\* The buttons are enabled again after every verdict, whatever came of it.
ButtonsComeBack == view.actionsDisabled ~> ~view.actionsDisabled

\* After a verdict that succeeded the page comes to show the proposal closed,
\* unless it cannot be loaded or the user has gone elsewhere.
VerdictShows ==
    \A p \in Stored :
        /\ view.reloading
        /\ path = p
        /\ \E i \in DOMAIN patches :
              patches[i].of = p /\ patches[i].state = "done"
        ~> \/ path # p
           \/ view.section = "error"
           \/ /\ view.section = "content"
              /\ view.proposal.status # "pending"
=============================================================================
