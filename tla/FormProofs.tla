----------------------------- MODULE FormProofs -----------------------------
(*************************************************************************)
(* The page of a proposal with its verdicts, the forms for new           *)
(* documents, and their editor of attributes: the inductive invariants,  *)
(* kept by every step, and what the pages promise.                       *)
(*************************************************************************)
EXTENDS LoaderProofs

\* What iron-ajax does for the page of a proposal.
LEMMA ViewAjax ==
    ASSUME NEW k
    PROVE  /\ View(k)!NoRequests = NoRequests
           /\ \A inFlight : View(k)!Abort(inFlight) = Abort(inFlight)
           /\ \A inFlight, of :
                 View(k)!GenerateRequest(inFlight, of) =
                    GenerateRequest(inFlight, of)
           /\ \A inFlight : View(k)!Loading(inFlight) = Loading(inFlight)
BY DEF View!NoRequests, View!Abort, View!GenerateRequest, View!Loading,
       NoRequests, Abort, GenerateRequest, Loading

\* The parts of IInv that are about the element alone.
GoodCalls(k) ==
    /\ AtMostOne(view.getAjax, path)
    /\ AtMostOne(view.patchAjax, Len(patches))
    /\ View(k)!Loading(view.patchAjax) =>
          Len(patches) > 0 /\ view.actionsDisabled
    /\ view.actionsDisabled => View(k)!Loading(view.patchAjax)

\* The parts about what the page shows.
GoodShows(k) ==
    /\ view.section = "content" =>
          /\ view.proposal # Nothing
          /\ view.proposal.id = path
          /\ ~View(k)!Loading(view.getAjax)
    /\ view.section = "stencil" => View(k)!Loading(view.getAjax)
    /\ view.section = "notFound" =>
          path \notin views[k].Stored /\ ~View(k)!Loading(view.getAjax)

\* The part that is about the verdicts.
MeantSo(k) ==
    \A i \in DOMAIN patches :
        /\ patches[i].of = patches[i].seen
        /\ patches[i].of \in views[k].Stored
        /\ View(k)!May(patches[i].by, patches[i].of, patches[i].status)
        /\ patches[i].state = "done" => statuses[patches[i].of] # "pending"

\* The inductive invariant of the page of a proposal.
GoodView(k) == View(k)!TypeOK /\ GoodCalls(k) /\ GoodShows(k) /\ MeantSo(k)

\* IInv is its parts.
LEMMA ViewParts ==
    ASSUME NEW k
    PROVE  View(k)!IInv <=> GoodView(k)
BY DEF View!IInv, GoodView, GoodCalls, GoodShows, MeantSo, AtMostOne

\* The page as it is loaded has nothing but its GET under way.
LEMMA LoadedPage ==
    ASSUME NEW k, View(k)!ViewProposalAssumption, NEW p \in View(k)!Proposal
    PROVE  /\ View(k)!Loaded(p) \in View(k)!ViewState
           /\ AtMostOne(View(k)!Loaded(p).getAjax, p)
           /\ View(k)!Loading(View(k)!Loaded(p).getAjax)
           /\ View(k)!Loaded(p).patchAjax = View(k)!NoRequests
           /\ ~View(k)!Loaded(p).actionsDisabled
           /\ View(k)!Loaded(p).section = "stencil"
<1>1. /\ View(k)!GenerateRequest(View(k)!NoRequests, p) = {[of |-> p,
            last |-> TRUE]}
      /\ AtMostOne(View(k)!GenerateRequest(View(k)!NoRequests, p), p)
      /\ View(k)!Loading(View(k)!GenerateRequest(View(k)!NoRequests, p))
  BY AskFirst, ViewAjax
<1>2. View(k)!GenerateRequest(View(k)!NoRequests, p)
         \in SUBSET View(k)!Request(View(k)!Proposal)
  BY <1>1 DEF View!Request
<1>3. View(k)!NoRequests \in SUBSET View(k)!Request(Nat)
  BY DEF View!NoRequests
<1>4. View(k)!Loaded(p) \in View(k)!ViewState
  BY <1>2, <1>3 DEF View!Loaded, View!ViewState
<1> QED
  BY <1>1, <1>4 DEF View!Loaded

\* The page begins as the parts say.
LEMMA ViewInit ==
    ASSUME NEW k, View(k)!ViewProposalAssumption
    PROVE  View(k)!Init => GoodView(k)
<1> SUFFICES ASSUME View(k)!Init PROVE GoodView(k)
  OBVIOUS
<1> USE DEF View!Init
<1>1. /\ view \in View(k)!ViewState
      /\ AtMostOne(view.getAjax, path) /\ View(k)!Loading(view.getAjax)
      /\ view.patchAjax = View(k)!NoRequests
      /\ ~view.actionsDisabled
      /\ view.section = "stencil"
  BY LoadedPage
<1>2. View(k)!TypeOK
  <2>1. <<>> \in Seq(View(k)!Patch) /\ Len(<<>>) <= views[k].MaxPatches
    BY DEF View!ViewProposalAssumption
  <2> QED
    BY <1>1, <2>1 DEF View!TypeOK, View!Status
<1>3. GoodCalls(k)
  BY <1>1, NothingLoads, ViewAjax DEF GoodCalls, AtMostOne, View!NoRequests
<1>4. GoodShows(k)
  BY <1>1 DEF GoodShows
<1>5. MeantSo(k)
  BY DEF MeantSo
<1> QED
  BY <1>2, <1>3, <1>4, <1>5 DEF GoodView

\* The parts stay through every step.
LEMMA ViewStep ==
    ASSUME NEW k, View(k)!ViewProposalAssumption, GoodView(k),
           [View(k)!Next]_viewVars
    PROVE  GoodView(k)'
<1> USE DEF View!TypeOK
<1>0. View(k)!TypeOK /\ GoodCalls(k) /\ GoodShows(k) /\ MeantSo(k)
  BY DEF GoodView
<1>1. ASSUME NEW i \in DOMAIN patches, View(k)!Receive(i)
      PROVE  GoodView(k)'
  <2>1. /\ UNCHANGED <<user, path, view>>
        /\ patches[i].state = "sent"
        /\ patches[i] \in View(k)!Patch
    BY <1>0, <1>1 DEF View!Receive
  <2>2. PICK state \in {"done", "refused"} :
           /\ patches' = [patches EXCEPT ![i].state = state]
           /\ state = "done" =>
                /\ patches[i].of \in views[k].Stored
                /\ statuses' =
                      [statuses EXCEPT ![patches[i].of] = patches[i].status]
    BY <1>1 DEF View!Receive
  <2>3. /\ statuses' \in [views[k].Stored -> View(k)!Status]
        /\ \A p \in views[k].Stored : statuses[p] # "pending" =>
              statuses'[p] # "pending"
    <3>1. \/ UNCHANGED statuses
          \/ /\ patches[i].of \in views[k].Stored
             /\ statuses' =
                   [statuses EXCEPT ![patches[i].of] = patches[i].status]
      BY <1>1 DEF View!Receive
    <3> QED
      BY <1>0, <2>1, <3>1 DEF View!Patch, View!Status, View!Verdict
  <2>4. /\ patches' \in Seq(View(k)!Patch) /\ Len(patches') = Len(patches)
        /\ DOMAIN patches' = DOMAIN patches
    BY <1>0, <2>1, <2>2 DEF View!Patch
  <2>5. ASSUME NEW j \in DOMAIN patches
        PROVE  /\ patches'[j].of = patches[j].of
               /\ patches'[j].seen = patches[j].seen
               /\ patches'[j].by = patches[j].by
               /\ patches'[j].status = patches[j].status
               /\ patches'[j].state = "done" =>
                    \/ patches[j].state = "done"
                    \/ statuses'[patches[j].of] # "pending"
    <3>1. CASE j # i
      BY <1>0, <2>2, <3>1
    <3>2. CASE j = i
      BY <1>0, <2>1, <2>2, <3>2 DEF View!Patch, View!Verdict
    <3> QED
      BY <3>1, <3>2
  <2>6. MeantSo(k)'
    BY <1>0, <2>3, <2>4, <2>5 DEF MeantSo, View!May
  <2>7. View(k)!TypeOK' /\ GoodCalls(k)' /\ GoodShows(k)'
    BY <1>0, <2>1, <2>3, <2>4 DEF GoodCalls, GoodShows
  <2> QED
    BY <2>6, <2>7 DEF GoodView
<1>2. ASSUME NEW p \in views[k].Stored, NEW status \in View(k)!Verdict,
             View(k)!OthersClose(p, status)
      PROVE  GoodView(k)'
  <2>1. /\ UNCHANGED <<patches, user, path, view>>
        /\ statuses' = [statuses EXCEPT ![p] = status]
    BY <1>2 DEF View!OthersClose
  <2>2. View(k)!TypeOK' /\ GoodCalls(k)' /\ GoodShows(k)'
    BY <1>0, <2>1 DEF View!Status, GoodCalls, GoodShows
  <2>3. MeantSo(k)'
    BY <1>0, <2>1 DEF MeantSo, View!Verdict, View!May
  <2> QED
    BY <2>2, <2>3 DEF GoodView
<1>3. ASSUME NEW p \in View(k)!Proposal, View(k)!RelativePathChanged(p)
      PROVE  GoodView(k)'
  <2>1. /\ path' = p /\ user' \in views[k].User
        /\ UNCHANGED <<statuses, patches>>
        /\ view' = [view EXCEPT
              !.section = IF View(k)!Loading(view.getAjax) THEN "error"
                          ELSE "stencil",
              !.getAjax =
                 View(k)!GenerateRequest(View(k)!Abort(view.getAjax), p)]
    BY <1>0, <1>3 DEF View!RelativePathChanged, View!ViewProposalAssumption
  <2>2. /\ View(k)!GenerateRequest(View(k)!Abort(view.getAjax), p)
              = {[of |-> p, last |-> TRUE]}
        /\ AtMostOne(View(k)!GenerateRequest(View(k)!Abort(view.getAjax), p), p)
        /\ View(k)!Loading(
              View(k)!GenerateRequest(View(k)!Abort(view.getAjax), p))
    <3>1. AtMostOne(view.getAjax, path)
      BY <1>0 DEF GoodCalls
    <3> QED
      BY <3>1, AskAgain, ViewAjax
  <2>3. View(k)!GenerateRequest(View(k)!Abort(view.getAjax), p)
           \in SUBSET View(k)!Request(View(k)!Proposal)
    BY <2>2 DEF View!Request
  <2>4. /\ view' \in View(k)!ViewState
        /\ view'.getAjax =
              View(k)!GenerateRequest(View(k)!Abort(view.getAjax), p)
        /\ view'.patchAjax = view.patchAjax
        /\ view'.actionsDisabled = view.actionsDisabled
        /\ view'.section \in {"error", "stencil"}
    BY <1>0, <2>1, <2>3 DEF View!ViewState
  <2>5. View(k)!TypeOK'
    BY <1>0, <2>1, <2>4
  <2>6. GoodCalls(k)'
    BY <1>0, <2>1, <2>2, <2>4 DEF GoodCalls
  <2>7. GoodShows(k)'
    BY <2>2, <2>4 DEF GoodShows
  <2>8. MeantSo(k)'
    BY <1>0, <2>1 DEF MeantSo
  <2> QED
    BY <2>5, <2>6, <2>7, <2>8 DEF GoodView
<1>4. ASSUME NEW p \in View(k)!Proposal, View(k)!Arrive(p)
      PROVE  GoodView(k)'
  BY <1>4, <1>0, LoadedPage, NothingLoads, ViewAjax
     DEF GoodView, View!Arrive, GoodCalls, GoodShows, MeantSo, AtMostOne,
        View!NoRequests
<1>5. ASSUME NEW r \in view.getAjax, View(k)!GetResponse(r)
      PROVE  GoodView(k)'
  <2>1. /\ r = [of |-> path, last |-> TRUE]
        /\ view.getAjax \ {r} = View(k)!NoRequests
    BY <1>0, LastOneEnds, ViewAjax DEF GoodCalls
  <2>2. /\ r.of = path /\ path \in views[k].Stored
        /\ UNCHANGED <<statuses, patches, user, path>>
        /\ view' = [view EXCEPT
              !.getAjax = View(k)!NoRequests,
              !.proposal = [id |-> path, status |-> statuses[path]],
              !.section = "content"]
    BY <1>5, <2>1 DEF View!GetResponse
  <2>3. [id |-> path, status |-> statuses[path]]
           \in [id : views[k].Stored, status : View(k)!Status]
    BY <1>0, <2>2
  <2>4. /\ view' \in View(k)!ViewState
        /\ view'.getAjax = View(k)!NoRequests
        /\ view'.patchAjax = view.patchAjax
        /\ view'.actionsDisabled = view.actionsDisabled
        /\ view'.section = "content"
        /\ view'.proposal = [id |-> path, status |-> statuses[path]]
    BY <1>0, <2>2, <2>3 DEF View!ViewState, View!NoRequests
  <2>5. view'.proposal # Nothing
    BY <2>3, <2>4 DEF View!ViewProposalAssumption
  <2>6. View(k)!TypeOK'
    BY <1>0, <2>2, <2>4
  <2>7. GoodCalls(k)'
    BY <1>0, <2>2, <2>4 DEF GoodCalls, AtMostOne, View!NoRequests
  <2>8. GoodShows(k)'
    BY <2>2, <2>4, <2>5, NothingLoads, ViewAjax DEF GoodShows
  <2>9. MeantSo(k)'
    BY <1>0, <2>2 DEF MeantSo
  <2> QED
    BY <2>6, <2>7, <2>8, <2>9 DEF GoodView
<1>6. ASSUME NEW r \in view.getAjax, View(k)!GetError(r)
      PROVE  GoodView(k)'
  <2>1. /\ r = [of |-> path, last |-> TRUE]
        /\ view.getAjax \ {r} = View(k)!NoRequests
    BY <1>0, LastOneEnds, ViewAjax DEF GoodCalls
  <2>2. PICK to \in {"error", "notFound"} :
           /\ to = "notFound" => path \notin views[k].Stored
           /\ view' = [view EXCEPT !.getAjax = View(k)!NoRequests,
                                   !.section = to]
    BY <1>6, <2>1 DEF View!GetError
  <2>3. UNCHANGED <<statuses, patches, user, path>>
    BY <1>6 DEF View!GetError
  <2>4. /\ view' \in View(k)!ViewState
        /\ view'.getAjax = View(k)!NoRequests
        /\ view'.patchAjax = view.patchAjax
        /\ view'.actionsDisabled = view.actionsDisabled
        /\ view'.section = to
    BY <1>0, <2>2 DEF View!ViewState, View!NoRequests
  <2>5. View(k)!TypeOK'
    BY <1>0, <2>3, <2>4
  <2>6. GoodCalls(k)'
    BY <1>0, <2>3, <2>4 DEF GoodCalls, AtMostOne, View!NoRequests
  <2>7. GoodShows(k)'
    BY <2>2, <2>3, <2>4, NothingLoads, ViewAjax DEF GoodShows
  <2>8. MeantSo(k)'
    BY <1>0, <2>3 DEF MeantSo
  <2> QED
    BY <2>5, <2>6, <2>7, <2>8 DEF GoodView
<1>7. ASSUME NEW status \in View(k)!Verdict, View(k)!Click(status)
      PROVE  GoodView(k)'
  <2> DEFINE n == Len(patches) + 1
             patch == [of |-> <<view.proposal.id[1], path[2]>>,
                       status |-> status, by |-> user, seen |-> path,
                       state |-> "sent"]
  <2>1. /\ view.section = "content" /\ ~view.actionsDisabled
        /\ view.proposal # Nothing /\ view.proposal.id = path
        /\ view.proposal \in [id : views[k].Stored, status : View(k)!Status]
        /\ path \in views[k].Stored
    BY <1>0, <1>7 DEF View!Click, GoodShows, View!ViewState
  <2>2. path = <<path[1], path[2]>> /\ patch.of = path
    BY <1>0, <2>1 DEF View!Proposal
  <2>3. View(k)!May(user, path, status)
    BY <1>7, <2>1
       DEF View!Click, View!CanCancel, View!CanApprove, View!May, View!Verdict
  <2>4. patch \in View(k)!Patch
    BY <1>0, <2>2 DEF View!Patch
  <2>5. ~View(k)!Loading(view.patchAjax)
    BY <1>0, <2>1 DEF GoodCalls
  <2>6. /\ Len(patches) < views[k].MaxPatches
        /\ patches' = Append(patches, patch)
        /\ UNCHANGED <<statuses, user, path>>
        /\ view' = [view EXCEPT
              !.actionsDisabled = ~View(k)!Loading(view.patchAjax),
              !.inlineError = view.inlineError
              \/ View(k)!Loading(view.patchAjax),
              !.patchAjax = View(k)!GenerateRequest(
                               View(k)!Abort(view.patchAjax), n)]
    BY <1>7 DEF View!Click, View!MakePatchCall
  <2>7. /\ View(k)!GenerateRequest(View(k)!Abort(view.patchAjax), n)
              = {[of |-> n, last |-> TRUE]}
        /\ AtMostOne(View(k)!GenerateRequest(View(k)!Abort(view.patchAjax), n),
              n)
        /\ View(k)!Loading(
              View(k)!GenerateRequest(View(k)!Abort(view.patchAjax), n))
    <3>1. AtMostOne(view.patchAjax, Len(patches))
      BY <1>0 DEF GoodCalls
    <3> HIDE DEF n
    <3>2. /\ GenerateRequest(Abort(view.patchAjax), n)
                = {[of |-> n, last |-> TRUE]}
          /\ AtMostOne(GenerateRequest(Abort(view.patchAjax), n), n)
          /\ Loading(GenerateRequest(Abort(view.patchAjax), n))
      BY <3>1, AskAgain, Zenon
    <3> QED
      BY <3>2, ViewAjax
  <2>8. /\ patches' \in Seq(View(k)!Patch) /\ Len(patches') = n /\ n \in Nat
        /\ n <= views[k].MaxPatches /\ n > 0
        /\ DOMAIN patches' = DOMAIN patches \union {n}
        /\ patches'[n] = patch
        /\ \A j \in DOMAIN patches : patches'[j] = patches[j]
    BY <1>0, <2>4, <2>6 DEF View!ViewProposalAssumption
  <2>9. {[of |-> n, last |-> TRUE]} \in SUBSET View(k)!Request(Nat)
    BY <2>8 DEF View!Request
  <2>10. /\ view' \in View(k)!ViewState
         /\ view'.getAjax = view.getAjax
         /\ view'.patchAjax = {[of |-> n, last |-> TRUE]}
         /\ view'.section = "content"
         /\ view'.proposal = view.proposal
    BY <1>0, <2>1, <2>6, <2>7, <2>9 DEF View!ViewState
  <2>11. view'.actionsDisabled
    BY <1>0, <2>5, <2>6 DEF View!ViewState
  <2>12. View(k)!TypeOK'
    BY <1>0, <2>6, <2>8, <2>10
  <2>13. GoodCalls(k)'
    BY <1>0, <2>6, <2>7, <2>8, <2>10, <2>11 DEF GoodCalls
  <2>14. GoodShows(k)'
    BY <1>0, <2>1, <2>6, <2>10 DEF GoodShows
  <2>15. MeantSo(k)'
    <3>1. /\ patch.of = patch.seen /\ patch.of \in views[k].Stored
          /\ View(k)!May(patch.by, patch.of, patch.status)
          /\ patch.state # "done"
      BY <2>1, <2>2, <2>3
    <3> HIDE DEF patch
    <3>2. \A j \in DOMAIN patches' : patches'[j] = patch \/ j \in DOMAIN patches
      BY <2>8
    <3> QED
      BY <1>0, <2>6, <2>8, <3>1, <3>2 DEF MeantSo, View!May
  <2> QED
    BY <2>12, <2>13, <2>14, <2>15 DEF GoodView
<1>8. ASSUME NEW r \in view.patchAjax,
             View(k)!PatchResponse(r) \/ View(k)!PatchError(r)
      PROVE  GoodView(k)'
  <2>1. view.patchAjax \ {r} = View(k)!NoRequests
    BY <1>0, LastOneEnds, ViewAjax DEF GoodCalls
  <2>2. /\ UNCHANGED <<statuses, patches, user, path>>
        /\ \/ view' = [view EXCEPT !.patchAjax = View(k)!NoRequests,
                                   !.reloading = TRUE,
                                   !.actionsDisabled = FALSE]
           \/ view' = [view EXCEPT !.patchAjax = View(k)!NoRequests,
                                   !.actionsDisabled = FALSE,
                                   !.inlineError = TRUE]
    BY <1>8, <2>1 DEF View!PatchResponse, View!PatchError
  <2>3. /\ view' \in View(k)!ViewState
        /\ view'.getAjax = view.getAjax
        /\ view'.patchAjax = View(k)!NoRequests
        /\ view'.section = view.section
        /\ view'.proposal = view.proposal
    BY <1>0, <2>2 DEF View!ViewState, View!NoRequests
  <2>4. ~view'.actionsDisabled
    BY <1>0, <2>2 DEF View!ViewState
  <2>5. View(k)!TypeOK'
    BY <1>0, <2>2, <2>3
  <2>6. GoodCalls(k)'
    BY ZenonT(60), <1>0, <2>2, <2>3, <2>4, NothingLoads, ViewAjax
       DEF GoodCalls, AtMostOne, View!NoRequests
  <2>7. GoodShows(k)'
    BY <1>0, <2>2, <2>3 DEF GoodShows
  <2>8. MeantSo(k)'
    BY <1>0, <2>2 DEF MeantSo
  <2> QED
    BY <2>5, <2>6, <2>7, <2>8 DEF GoodView
<1>9. CASE View(k)!Reload
  BY ZenonT(60), <1>9, <1>0, LoadedPage, NothingLoads, ViewAjax
     DEF GoodView, View!Reload, GoodCalls, GoodShows, MeantSo, AtMostOne,
        View!NoRequests
<1>10. CASE UNCHANGED viewVars
  BY <1>10, <1>0 DEF GoodView, viewVars, GoodCalls, GoodShows, MeantSo
<1> QED
  BY <1>1, <1>2, <1>3, <1>4, <1>5, <1>6, <1>7, <1>8, <1>9, <1>10 DEF View!Next

\* So a verdict is sent on what its user saw.
LEMMA ViewMeant ==
    ASSUME NEW k, GoodView(k)
    PROVE  View(k)!IInv /\ View(k)!VerdictsAreMeant
<1>1. View(k)!TypeOK /\ GoodCalls(k) /\ GoodShows(k) /\ MeantSo(k)
  BY DEF GoodView
<1>2. View(k)!ShownIsAddressed
  BY <1>1 DEF GoodShows, View!ShownIsAddressed
<1>3. View(k)!PatchIsOfShown
  BY <1>1 DEF MeantSo, View!PatchIsOfShown
<1>4. View(k)!OnePatchAtATime
  BY <1>1 DEF GoodCalls, AtMostOne, View!OnePatchAtATime
<1> QED
  BY ViewParts, <1>2, <1>3, <1>4 DEF View!VerdictsAreMeant

-----------------------------------------------------------------------------
\* What iron-ajax does for a form.
LEMMA NewAjax ==
    ASSUME NEW k
    PROVE  /\ New(k)!NoRequests = NoRequests
           /\ \A inFlight : New(k)!Abort(inFlight) = Abort(inFlight)
           /\ \A inFlight, of :
                 New(k)!GenerateRequest(inFlight, of) =
                    GenerateRequest(inFlight, of)
           /\ \A inFlight : New(k)!Loading(inFlight) = Loading(inFlight)
BY DEF New!NoRequests, New!Abort, New!GenerateRequest, New!Loading,
       NoRequests, Abort, GenerateRequest, Loading

\* The parts of IInv that are about the GETs, the POSTs and the uploads.
GetsItsTarget(k) ==
    /\ \E a : AtMostOne(form.getAjax, a)
    /\ wanted.target # Nothing \/ ~form.jumped =>
          AtMostOne(form.getAjax, wanted.target)

\* One POST at most is in flight, and just then the button is disabled.
SendsOnce(k) ==
    /\ AtMostOne(form.postAjax, Len(posts))
    /\ New(k)!Loading(form.postAjax) <=> form.submitDisabled

\* The file in flight is the one picked last, which the form has when it ends.
KeepsPicked(k) ==
    /\ AtMostOne(form.uploadAjax, form.picked)
    /\ form.picked # 0 /\ ~New(k)!Loading(form.uploadAjax) /\ ~form.dropped =>
          form.media = form.picked

\* The parts that are about what the form is of.
FormIsOf(k) ==
    /\ wanted.target # Nothing /\ form.section = "content" =>
          form.basis = wanted.target /\ form.id = wanted.target
    /\ wanted.target = Nothing =>
          /\ form.basis # Nothing => form.jumped
          /\ Len(form.gameId) = Len(wanted.parent)

\* What each post was meant to be.
MeantToBe(k, post) ==
    /\ post.asked.target # Nothing =>
          post.target = post.asked.target /\ post.basis = post.asked.target
    /\ post.asked.target = Nothing =>
          /\ Len(post.parent) = Len(post.asked.parent)
          /\ \E id \in New(k)!Id : post.target = post.asked.parent \o id
          /\ ~post.jumped => post.basis = Nothing

\* Every post is what it was meant to be.
GoodPosts(k) ==
    /\ viewed # 0 => posts[viewed].state = "done"
    /\ \A i \in DOMAIN posts :
          /\ MeantToBe(k, posts[i])
          /\ posts[i].stored => New(k)!Accepts(posts[i])
          /\ posts[i].state = "done" => posts[i].stored

\* The inductive invariant of a form.
GoodForm(k) ==
    /\ New(k)!TypeOK
    /\ GetsItsTarget(k) /\ SendsOnce(k) /\ KeepsPicked(k)
    /\ FormIsOf(k)
    /\ GoodPosts(k)

\* A request for a thing of a kind.
LEMMA OneRequest ==
    ASSUME NEW k, NEW T, NEW a \in T
    PROVE  {[of |-> a, last |-> TRUE]} \in SUBSET New(k)!Request(T)
BY DEF New!Request

\* Sequences of names.
LEMMA IdsAre ==
    ASSUME NEW k, New(k)!NewProposalAssumption
    PROVE  /\ <<>> \in New(k)!Id /\ Len(<<>>) = 0
           /\ \A name \in forms[k].Typed : <<name>> \in New(k)!Id
           /\ Nothing \notin forms[k].Target
           /\ Nothing \notin forms[k].Published
           /\ forms[k].Target \subseteq New(k)!Id
BY DEF New!NewProposalAssumption, New!Id

\* An id below another is an id.
LEMMA IdsJoin ==
    ASSUME NEW k, NEW a \in New(k)!Id, NEW b \in New(k)!Id
    PROVE  a \o b \in New(k)!Id /\ <<>> \o a = a
BY ConcatProperties, ConcatEmptySeq DEF New!Id

\* What the URL asks for.
LEMMA ParamsAre ==
    ASSUME NEW k, New(k)!NewProposalAssumption, NEW p \in New(k)!Params
    PROVE  /\ p.parent \in New(k)!Id
           /\ p.target \in forms[k].Target \union {Nothing}
           /\ p.target # Nothing =>
                 p.target \in forms[k].Target /\ p.parent = <<>>
           /\ p.target = Nothing => p.parent \in forms[k].Parent
<1>1. \/ p \in [target : {Nothing}, parent : forms[k].Parent]
      \/ p \in [target : forms[k].Target, parent : {<<>>}]
  BY DEF New!Params
<1>2. CASE p \in [target : {Nothing}, parent : forms[k].Parent]
  BY <1>2, IdsAre DEF New!NewProposalAssumption
<1>3. CASE p \in [target : forms[k].Target, parent : {<<>>}]
  BY <1>3, IdsAre
<1> QED
  BY <1>1, <1>2, <1>3

\* The id of the parent of a document.
LEMMA GameIdOf ==
    ASSUME NEW k, New(k)!NewProposalAssumption, NEW id \in New(k)!Id
    PROVE  /\ SubSeq(id, 1, Len(id) - 1) \in New(k)!Id
           /\ Len(id) > 0 => Len(SubSeq(id, 1, Len(id) - 1)) = Len(id) - 1
<1>1. id \in Seq(forms[k].Name \union forms[k].Padded) /\ Len(id) \in Nat
  BY DEF New!Id
<1>2. Len(id) - 1 \in Int
      /\ \A i \in 1 .. Len(id) - 1 :
            id[i] \in forms[k].Name \union forms[k].Padded
  BY <1>1
<1>3. /\ SubSeq(id, 1, Len(id) - 1)
            \in Seq(forms[k].Name \union forms[k].Padded)
      /\ Len(SubSeq(id, 1, Len(id) - 1)) =
            IF 1 <= Len(id) - 1 THEN Len(id) - 1 - 1 + 1 ELSE 0
  BY <1>2, SubSeqProperties
<1>4. ASSUME NEW n \in Nat, n > 0
      PROVE  (IF 1 <= n - 1 THEN n - 1 - 1 + 1 ELSE 0) = n - 1
  BY <1>4
<1> QED
  BY <1>1, <1>3, <1>4 DEF New!Id

\* A page as it is stamped.
LEMMA StampedForm ==
    ASSUME NEW k, New(k)!NewProposalAssumption, NEW p \in New(k)!Params
    PROVE  LET s == New(k)!Stamped(p)
           IN  /\ s \in New(k)!PageState
               /\ AtMostOne(s.getAjax, p.target)
               /\ s.postAjax = New(k)!NoRequests
               /\ s.uploadAjax = New(k)!NoRequests
               /\ ~s.submitDisabled /\ s.picked = 0 /\ s.basis = Nothing
               /\ s.section = IF p.target = Nothing THEN "content"
                                ELSE "stencil"
               /\ s.gameId = p.parent
<1>1. /\ New(k)!GenerateRequest(New(k)!NoRequests, p.target) =
            {[of |-> p.target, last |-> TRUE]}
      /\ AtMostOne(New(k)!GenerateRequest(New(k)!NoRequests, p.target),
            p.target)
  BY AskFirst, NewAjax
<1>2. /\ New(k)!NoRequests = {} /\ AtMostOne(New(k)!NoRequests, p.target)
  BY NewAjax DEF New!NoRequests, AtMostOne
<1> DEFINE g == IF p.target = Nothing THEN New(k)!NoRequests
                ELSE New(k)!GenerateRequest(New(k)!NoRequests, p.target)
<1>3. g \in SUBSET New(k)!Request(forms[k].Target) /\ AtMostOne(g, p.target)
  <2>1. CASE p.target = Nothing
    BY <1>2, <2>1
  <2>2. CASE p.target # Nothing
    <3>1. p.target \in forms[k].Target
      BY <2>2, ParamsAre
    <3>2. {[of |-> p.target,
             last |-> TRUE]} \in SUBSET New(k)!Request(forms[k].Target)
      BY <3>1, OneRequest
    <3> QED
      BY <1>1, <2>2, <3>2
  <2> QED
    BY <2>1, <2>2
<1> HIDE DEF g
<1>4. /\ 0 \in 0 .. forms[k].MaxFiles
      /\ New(k)!NoRequests \in SUBSET New(k)!Request(1 .. forms[k].MaxPosts)
      /\ New(k)!NoRequests \in SUBSET New(k)!Request(1 .. forms[k].MaxFiles)
  BY <1>2 DEF New!NewProposalAssumption
<1>5. p.parent \in New(k)!Id /\ <<>> \in New(k)!Id
  BY IdsAre, ParamsAre
<1>6. New(k)!Stamped(p) =
         [section |-> IF p.target = Nothing THEN "content" ELSE "stencil",
          gameId |-> p.parent, id |-> <<>>, media |-> 0, getAjax |-> g,
          postAjax |-> New(k)!NoRequests, uploadAjax |-> New(k)!NoRequests,
          submitDisabled |-> FALSE, picked |-> 0, basis |-> Nothing,
          dropped |-> FALSE, jumped |-> FALSE]
  BY DEF New!Stamped, g
<1>7. New(k)!Stamped(p) \in New(k)!PageState
  BY <1>3, <1>4, <1>5, <1>6 DEF New!PageState
<1> QED
  BY <1>3, <1>6, <1>7

\* A page that is stamped, for whatever posts there are; its GET may be gone.
LEMMA FreshPage ==
    ASSUME NEW k, New(k)!NewProposalAssumption, NEW p \in New(k)!Params,
           NEW s \in New(k)!PageState,
           NEW n \in Nat,
           s = New(k)!Stamped(p)
           \/ s = [New(k)!Stamped(p) EXCEPT !.getAjax = New(k)!NoRequests]
    PROVE  /\ AtMostOne(s.getAjax, p.target)
           /\ AtMostOne(s.postAjax, n) /\ ~New(k)!Loading(s.postAjax)
              /\ ~s.submitDisabled
           /\ AtMostOne(s.uploadAjax, s.picked) /\ s.picked = 0
           /\ s.section = "content" => p.target = Nothing
           /\ s.basis = Nothing
           /\ s.gameId = p.parent
<1> DEFINE t == New(k)!Stamped(p)
<1>1. /\ t \in New(k)!PageState
      /\ AtMostOne(t.getAjax, p.target)
      /\ t.postAjax = New(k)!NoRequests /\ t.uploadAjax = New(k)!NoRequests
      /\ ~t.submitDisabled /\ t.picked = 0 /\ t.basis = Nothing
      /\ t.section = IF p.target = Nothing THEN "content" ELSE "stencil"
      /\ t.gameId = p.parent
  BY StampedForm
<1> HIDE DEF t
<1>2. \A a : AtMostOne(New(k)!NoRequests, a)
  BY NewAjax DEF New!NoRequests, AtMostOne
<1>3. s = t \/ s = [t EXCEPT !.getAjax = New(k)!NoRequests]
  BY DEF t
<1>4. AtMostOne(s.getAjax, p.target)
  BY <1>1, <1>2, <1>3 DEF New!PageState
<1>5. /\ s.postAjax = New(k)!NoRequests /\ s.uploadAjax = New(k)!NoRequests
      /\ ~s.submitDisabled /\ s.picked = 0 /\ s.basis = Nothing
      /\ s.section = IF p.target = Nothing THEN "content"
                                ELSE "stencil"
      /\ s.gameId = p.parent
  BY <1>1, <1>3 DEF New!PageState
<1> QED
  BY <1>2, <1>4, <1>5, NothingLoads, NewAjax

\* A page that is gone is a page.
LEMMA GoneIsAPage ==
    ASSUME NEW k, New(k)!NewProposalAssumption, New(k)!TypeOK
    PROVE  New(k)!Gone \in New(k)!PageState
<1>1. New(k)!Stamped(wanted) \in New(k)!PageState
  BY StampedForm DEF New!TypeOK
<1>2. New(k)!NoRequests \in SUBSET New(k)!Request(forms[k].Target)
  BY DEF New!NoRequests
<1> QED
  BY <1>1, <1>2 DEF New!Gone, New!PageState

\* The form begins as the parts say.
LEMMA FormInit ==
    ASSUME NEW k
    PROVE  New(k)!NewProposalAssumption /\ New(k)!Init => GoodForm(k)
<1> SUFFICES ASSUME New(k)!NewProposalAssumption, New(k)!Init PROVE GoodForm(k)
  OBVIOUS
<1>1. /\ wanted \in New(k)!Params /\ form = New(k)!Stamped(wanted)
         /\ posts = <<>>
      /\ viewed = 0 /\ behind = {}
  BY DEF New!Init
<1>2. form \in New(k)!PageState
  BY <1>1, StampedForm
<1>3. <<>> \in Seq(New(k)!Post) /\ Len(<<>>) = 0 /\ 0 \in Nat
      /\ DOMAIN <<>> = {}
  OBVIOUS
<1>4. New(k)!TypeOK
  BY <1>1, <1>2, <1>3 DEF New!TypeOK, New!NewProposalAssumption
<1>5. /\ AtMostOne(form.getAjax, wanted.target)
      /\ AtMostOne(form.postAjax, 0) /\ ~New(k)!Loading(form.postAjax)
         /\ ~form.submitDisabled
      /\ AtMostOne(form.uploadAjax, form.picked) /\ form.picked = 0
      /\ form.section = "content" => wanted.target = Nothing
      /\ form.basis = Nothing
      /\ form.gameId = wanted.parent
  BY <1>1, <1>2, <1>3, FreshPage
<1> QED
  BY <1>1, <1>3, <1>4, <1>5 DEF GoodForm, GetsItsTarget, SendsOnce, KeepsPicked,
     FormIsOf, GoodPosts

\* The posts in flight are posts.
LEMMA InFlightIsPosts ==
    ASSUME NEW k, GoodForm(k)
    PROVE  /\ Len(posts) \in Nat /\ DOMAIN posts = 1 .. Len(posts)
           /\ \A i \in DOMAIN posts : posts[i] \in New(k)!Post
           /\ New(k)!InFlight \subseteq 1 .. Len(posts)
<1>1. /\ Len(posts) \in Nat /\ DOMAIN posts = 1 .. Len(posts)
      /\ \A i \in DOMAIN posts : posts[i] \in New(k)!Post
  BY DEF GoodForm, New!TypeOK
<1>2. ASSUME NEW r \in form.postAjax
      PROVE  r.of \in 1 .. Len(posts)
  <2>1. r \in New(k)!Request(1 .. forms[k].MaxPosts)
    BY DEF GoodForm, New!TypeOK, New!PageState
  <2>2. r.of \in 1 .. forms[k].MaxPosts
    BY <2>1 DEF New!Request
  <2>3. r.of = Len(posts)
    BY LastOneEnds, NewAjax DEF GoodForm, SendsOnce
  <2> QED
    BY <1>1, <2>2, <2>3
<1> QED
  BY <1>1, <1>2 DEF New!InFlight

\* Another page takes the place of this one, with posts left behind.
LEMMA Replaced ==
    ASSUME NEW k, New(k)!NewProposalAssumption, GoodForm(k),
           NEW p \in New(k)!Params,
           wanted' = p, form' \in New(k)!PageState,
           form' = New(k)!Stamped(p)
           \/ form' = [New(k)!Stamped(p) EXCEPT !.getAjax = New(k)!NoRequests],
           UNCHANGED posts, behind' \subseteq behind \union New(k)!InFlight,
           viewed' \in 0 .. Len(posts),
           viewed' # 0 => posts[viewed'].state = "done"
    PROVE  GoodForm(k)'
<1>1. /\ Len(posts) \in Nat /\ New(k)!InFlight \subseteq 1 .. Len(posts)
  BY InFlightIsPosts
<1>2. New(k)!TypeOK'
  BY <1>1 DEF GoodForm, New!TypeOK
<1>3. /\ AtMostOne(form'.getAjax, p.target)
      /\ AtMostOne(form'.postAjax, Len(posts))
      /\ ~New(k)!Loading(form'.postAjax)
      /\ ~form'.submitDisabled
      /\ AtMostOne(form'.uploadAjax, form'.picked) /\ form'.picked = 0
      /\ form'.section = "content" => p.target = Nothing
      /\ form'.basis = Nothing
      /\ form'.gameId = p.parent
  BY <1>1, FreshPage
<1>4. GetsItsTarget(k)' /\ SendsOnce(k)' /\ KeepsPicked(k)'
  BY <1>3 DEF GetsItsTarget, SendsOnce, KeepsPicked, New!Loading, AtMostOne
<1>5. FormIsOf(k)'
  BY <1>3 DEF FormIsOf
<1>6. GoodPosts(k)'
  BY DEF GoodForm, GoodPosts, MeantToBe, New!Accepts
<1> QED
  BY <1>2, <1>4, <1>5, <1>6 DEF GoodForm

\* A step of the page alone.
LEMMA PageAlone ==
    ASSUME NEW k, GoodForm(k), form' \in New(k)!PageState, UNCHANGED <<wanted,
           posts, viewed, behind>>,
           GetsItsTarget(k)', SendsOnce(k)', KeepsPicked(k)', FormIsOf(k)'
    PROVE  GoodForm(k)'
<1>1. New(k)!TypeOK'
  BY DEF GoodForm, New!TypeOK
<1>2. GoodPosts(k)'
  BY DEF GoodForm, GoodPosts, MeantToBe, New!Accepts
<1> QED
  BY <1>1, <1>2 DEF GoodForm

\* The URL changes below the page.
LEMMA QueryParamsChangedOK ==
    ASSUME NEW k, New(k)!NewProposalAssumption, GoodForm(k),
           NEW p \in New(k)!Params, New(k)!QueryParamsChanged(p)
    PROVE  GoodForm(k)'
<1> DEFINE due == CASE p.target = Nothing -> "content"
                    [] p.target # Nothing
                    /\ New(k)!Loading(form.getAjax) -> "error"
                    [] OTHER -> "stencil"
           g == IF p.target = Nothing THEN form.getAjax
                ELSE New(k)!GenerateRequest(
                        New(k)!Abort(form.getAjax), p.target)
           gameId == IF p.target = Nothing THEN p.parent ELSE form.gameId
<1>0. New(k)!TypeOK /\ GetsItsTarget(k) /\ SendsOnce(k) /\ KeepsPicked(k)
      /\ FormIsOf(k) /\ GoodPosts(k)
  BY DEF GoodForm
<1>1. /\ viewed = 0 /\ wanted' = p /\ UNCHANGED <<posts, viewed, behind>>
      /\ form' = [form EXCEPT !.section = due, !.getAjax = g,
                              !.gameId = gameId, !.jumped = TRUE]
  BY DEF New!QueryParamsChanged
<1>2. /\ due \in {"stencil", "content", "error"}
      /\ due = "content" => p.target = Nothing
  OBVIOUS
<1>3. /\ p.parent \in New(k)!Id /\ p.target \in forms[k].Target \union {Nothing}
  BY ParamsAre
<1>4. /\ \E a : AtMostOne(g, a)
      /\ p.target # Nothing => AtMostOne(g, p.target)
      /\ g \in SUBSET New(k)!Request(forms[k].Target)
  <2>1. PICK a : AtMostOne(form.getAjax, a)
    BY <1>0 DEF GetsItsTarget
  <2>2. CASE p.target = Nothing
    <3>1. g = form.getAjax
      BY <2>2
    <3> QED
      BY <1>0, <2>1, <2>2, <3>1 DEF New!TypeOK, New!PageState
  <2>3. CASE p.target # Nothing
    <3>1. g = New(k)!GenerateRequest(New(k)!Abort(form.getAjax), p.target)
      BY <2>3
    <3>2. g = {[of |-> p.target, last |-> TRUE]} /\ AtMostOne(g, p.target)
      BY <2>1, <3>1, AskAgain, NewAjax
    <3>3. p.target \in forms[k].Target
      BY <1>3, <2>3
    <3> HIDE DEF g
    <3> QED
      BY <2>3, <3>2, <3>3, OneRequest
  <2> QED
    BY <2>2, <2>3
<1>5. gameId \in New(k)!Id /\ (p.target = Nothing => gameId = p.parent)
  BY <1>0, <1>3 DEF New!TypeOK, New!PageState
<1> HIDE DEF due, g, gameId
<1>6. /\ form' \in New(k)!PageState
      /\ form'.section = due /\ form'.getAjax = g
      /\ form'.gameId = gameId /\ form'.jumped
      /\ form'.postAjax = form.postAjax /\ form'.uploadAjax = form.uploadAjax
      /\ form'.submitDisabled = form.submitDisabled
      /\ form'.picked = form.picked /\ form'.media = form.media
      /\ form'.dropped = form.dropped
  BY <1>0, <1>1, <1>2, <1>4, <1>5 DEF New!TypeOK, New!PageState
<1>7. New(k)!TypeOK'
  BY <1>0, <1>1, <1>6 DEF New!TypeOK
<1>8. GetsItsTarget(k)'
  BY <1>1, <1>4, <1>6 DEF GetsItsTarget, AtMostOne
<1>9. SendsOnce(k)' /\ KeepsPicked(k)'
  BY <1>0, <1>1, <1>6 DEF SendsOnce, KeepsPicked, AtMostOne, New!Loading
<1>10. FormIsOf(k)'
  BY <1>1, <1>2, <1>5, <1>6 DEF FormIsOf
<1>11. GoodPosts(k)'
  BY <1>0, <1>1 DEF GoodPosts, MeantToBe, New!Accepts
<1> QED
  BY <1>7, <1>8, <1>9, <1>10, <1>11 DEF GoodForm

\* The document fills the form.
LEMMA GetResponseOK ==
    ASSUME NEW k, New(k)!NewProposalAssumption, GoodForm(k),
           NEW r \in form.getAjax, New(k)!GetResponse(r)
    PROVE  GoodForm(k)'
<1> DEFINE gameId == SubSeq(r.of, 1, Len(r.of) - 1)
<1>0. New(k)!TypeOK /\ GetsItsTarget(k) /\ SendsOnce(k) /\ KeepsPicked(k)
      /\ FormIsOf(k)
  BY DEF GoodForm
<1>1. /\ r.of \in forms[k].Published
      /\ UNCHANGED <<wanted, posts, viewed, behind>>
      /\ form' = [form EXCEPT !.getAjax = @ \ {r}, !.gameId = gameId,
            !.id = r.of,
                              !.media = 0, !.basis = r.of, !.dropped = TRUE,
                              !.section = "content"]
  BY DEF New!GetResponse
<1>2. form.getAjax \ {r} = New(k)!NoRequests
  <2>1. PICK a : AtMostOne(form.getAjax, a)
    BY <1>0 DEF GetsItsTarget
  <2> QED
    BY <2>1, LastOneEnds, NewAjax
<1>3. r.of \in forms[k].Target /\ r.of \in New(k)!Id /\ r.of # Nothing
  <2>1. r \in New(k)!Request(forms[k].Target)
    BY <1>0 DEF New!TypeOK, New!PageState
  <2> QED
    BY <1>1, <2>1, IdsAre DEF New!Request
<1>4. wanted.target # Nothing \/ ~form.jumped => r.of = wanted.target
  <2>1. ASSUME wanted.target # Nothing \/ ~form.jumped
        PROVE  r = [of |-> wanted.target, last |-> TRUE]
    BY <1>0, <2>1, LastOneEnds, NewAjax DEF GetsItsTarget
  <2> QED
    BY <2>1
<1>5. gameId \in New(k)!Id
  BY <1>3, GameIdOf
<1>6. wanted.target = Nothing => Len(gameId) = Len(wanted.parent)
  <2> SUFFICES ASSUME wanted.target = Nothing
               PROVE  Len(gameId) = Len(wanted.parent)
    OBVIOUS
  <2>1. wanted.parent \in forms[k].Parent /\ wanted.parent \in New(k)!Id
    <3>1. wanted \in New(k)!Params
      BY <1>0 DEF New!TypeOK
    <3> QED
      BY <3>1, ParamsAre
  <2>2. Len(r.of) = Len(wanted.parent) + 1
    BY <1>1, <1>3, <2>1 DEF New!NewProposalAssumption
  <2>3. Len(wanted.parent) \in Nat
    BY <2>1 DEF New!Id
  <2> QED
    BY <1>3, <2>2, <2>3, GameIdOf
<1> HIDE DEF gameId
<1>7. /\ form' \in New(k)!PageState
      /\ form'.section = "content" /\ form'.getAjax = New(k)!NoRequests
      /\ form'.gameId = gameId /\ form'.id = r.of /\ form'.basis = r.of
      /\ form'.media = 0 /\ form'.dropped /\ form'.jumped = form.jumped
      /\ form'.postAjax = form.postAjax /\ form'.uploadAjax = form.uploadAjax
      /\ form'.submitDisabled = form.submitDisabled
      /\ form'.picked = form.picked
  <2>1. 0 \in 0 .. forms[k].MaxFiles
        /\ New(k)!NoRequests \in SUBSET New(k)!Request(forms[k].Target)
    BY DEF New!NewProposalAssumption, New!NoRequests
  <2> QED
    BY <1>0, <1>1, <1>2, <1>3, <1>5, <2>1 DEF New!TypeOK, New!PageState
<1>8. GetsItsTarget(k)'
  <2>1. \A a : AtMostOne(New(k)!NoRequests, a)
    BY DEF AtMostOne, New!NoRequests
  <2> QED
    BY <1>7, <2>1 DEF GetsItsTarget, AtMostOne
<1>9. SendsOnce(k)' /\ KeepsPicked(k)'
  BY <1>0, <1>1, <1>7 DEF SendsOnce, KeepsPicked, AtMostOne, New!Loading
<1>10. FormIsOf(k)'
  BY <1>1, <1>3, <1>4, <1>6, <1>7 DEF FormIsOf
<1> QED
  BY <1>1, <1>7, <1>8, <1>9, <1>10, PageAlone

\* ... or does not.
LEMMA GetErrorOK ==
    ASSUME NEW k, New(k)!NewProposalAssumption, GoodForm(k),
           NEW r \in form.getAjax, New(k)!GetError(r)
    PROVE  GoodForm(k)'
<1>0. New(k)!TypeOK /\ GetsItsTarget(k) /\ SendsOnce(k) /\ KeepsPicked(k)
      /\ FormIsOf(k)
  BY DEF GoodForm
<1>1. /\ UNCHANGED <<wanted, posts, viewed, behind>>
      /\ form' = [form EXCEPT !.getAjax = @ \ {r}, !.section = "error"]
  BY DEF New!GetError
<1>2. form.getAjax \ {r} = New(k)!NoRequests
  <2>1. PICK a : AtMostOne(form.getAjax, a)
    BY <1>0 DEF GetsItsTarget
  <2> QED
    BY <2>1, LastOneEnds, NewAjax
<1>3. /\ form' \in New(k)!PageState
      /\ form'.section = "error" /\ form'.getAjax = New(k)!NoRequests
      /\ form'.gameId = form.gameId /\ form'.id = form.id
         /\ form'.basis = form.basis
      /\ form'.media = form.media /\ form'.dropped = form.dropped
      /\ form'.jumped = form.jumped
      /\ form'.postAjax = form.postAjax /\ form'.uploadAjax = form.uploadAjax
      /\ form'.submitDisabled = form.submitDisabled
      /\ form'.picked = form.picked
  <2>1. New(k)!NoRequests \in SUBSET New(k)!Request(forms[k].Target)
    BY DEF New!NoRequests
  <2> QED
    BY <1>0, <1>1, <1>2, <2>1 DEF New!TypeOK, New!PageState
<1>4. GetsItsTarget(k)'
  <2>1. \A a : AtMostOne(New(k)!NoRequests, a)
    BY DEF AtMostOne, New!NoRequests
  <2> QED
    BY <1>3, <2>1 DEF GetsItsTarget, AtMostOne
<1>5. SendsOnce(k)' /\ KeepsPicked(k)' /\ FormIsOf(k)'
  BY <1>0, <1>1, <1>3
     DEF SendsOnce, KeepsPicked, FormIsOf, AtMostOne, New!Loading
<1> QED
  BY <1>1, <1>3, <1>4, <1>5, PageAlone

\* The user types an id.
LEMMA TypeIdOK ==
    ASSUME NEW k, New(k)!NewProposalAssumption, GoodForm(k),
           NEW name \in forms[k].Typed, New(k)!TypeId(name)
    PROVE  GoodForm(k)'
<1>0. New(k)!TypeOK /\ GetsItsTarget(k) /\ SendsOnce(k) /\ KeepsPicked(k)
      /\ FormIsOf(k)
  BY DEF GoodForm
<1>1. /\ wanted.target = Nothing /\ UNCHANGED <<wanted, posts, viewed, behind>>
      /\ form' = [form EXCEPT !.id = <<name>>]
  BY DEF New!TypeId
<1>2. <<name>> \in New(k)!Id
  BY IdsAre
<1>3. /\ form' \in New(k)!PageState
      /\ form'.section = form.section /\ form'.getAjax = form.getAjax
      /\ form'.gameId = form.gameId /\ form'.basis = form.basis
      /\ form'.media = form.media /\ form'.dropped = form.dropped
      /\ form'.jumped = form.jumped
      /\ form'.postAjax = form.postAjax /\ form'.uploadAjax = form.uploadAjax
      /\ form'.submitDisabled = form.submitDisabled
      /\ form'.picked = form.picked
  BY <1>0, <1>1, <1>2 DEF New!TypeOK, New!PageState
<1>4. GetsItsTarget(k)' /\ SendsOnce(k)' /\ KeepsPicked(k)' /\ FormIsOf(k)'
  BY <1>0, <1>1, <1>3
     DEF GetsItsTarget, SendsOnce, KeepsPicked, FormIsOf, AtMostOne, New!Loading
<1> QED
  BY <1>1, <1>3, <1>4, PageAlone

\* A file is picked.
LEMMA PickFileOK ==
    ASSUME NEW k, New(k)!NewProposalAssumption, GoodForm(k), New(k)!PickFile
    PROVE  GoodForm(k)'
<1> DEFINE g == New(k)!GenerateRequest(
                   New(k)!Abort(form.uploadAjax), form.picked + 1)
<1>0. New(k)!TypeOK /\ GetsItsTarget(k) /\ SendsOnce(k) /\ KeepsPicked(k)
      /\ FormIsOf(k)
  BY DEF GoodForm
<1>1. /\ form.picked < forms[k].MaxFiles
      /\ UNCHANGED <<wanted, posts, viewed, behind>>
      /\ form' = [form EXCEPT !.picked = @ + 1, !.dropped = FALSE,
            !.uploadAjax = g]
  BY DEF New!PickFile
<1>2. /\ g = {[of |-> form.picked + 1, last |-> TRUE]}
      /\ AtMostOne(g, form.picked + 1) /\ New(k)!Loading(g)
  BY <1>0, AskAgain, NewAjax DEF KeepsPicked
<1>3. form.picked + 1 \in 1 .. forms[k].MaxFiles
      /\ form.picked + 1 \in 0 .. forms[k].MaxFiles
  BY <1>0, <1>1 DEF New!TypeOK, New!PageState, New!NewProposalAssumption
<1>4. g \in SUBSET New(k)!Request(1 .. forms[k].MaxFiles)
  <2>1. {[of |-> form.picked + 1,
           last |-> TRUE]} \in SUBSET New(k)!Request(1 .. forms[k].MaxFiles)
    BY <1>3, OneRequest
  <2> QED
    BY <1>2, <2>1
<1> HIDE DEF g
<1>5. /\ form' \in New(k)!PageState
      /\ form'.section = form.section /\ form'.getAjax = form.getAjax
      /\ form'.gameId = form.gameId /\ form'.id = form.id
         /\ form'.basis = form.basis
      /\ form'.jumped = form.jumped
      /\ form'.postAjax = form.postAjax /\ form'.uploadAjax = g
      /\ form'.submitDisabled = form.submitDisabled
      /\ form'.picked = form.picked + 1
  BY <1>0, <1>1, <1>3, <1>4 DEF New!TypeOK, New!PageState
<1>6. GetsItsTarget(k)' /\ SendsOnce(k)' /\ FormIsOf(k)'
  BY <1>0, <1>1, <1>5
     DEF GetsItsTarget, SendsOnce, FormIsOf, AtMostOne, New!Loading
<1>7. KeepsPicked(k)'
  BY <1>2, <1>5 DEF KeepsPicked, AtMostOne, New!Loading
<1> QED
  BY <1>1, <1>5, <1>6, <1>7, PageAlone

\* Its upload ends.
LEMMA UploadOK ==
    ASSUME NEW k, New(k)!NewProposalAssumption, GoodForm(k),
           NEW r \in form.uploadAjax,
           New(k)!UploadResponse(r) \/ New(k)!UploadError(r)
    PROVE  GoodForm(k)'
<1>0. New(k)!TypeOK /\ GetsItsTarget(k) /\ SendsOnce(k) /\ KeepsPicked(k)
      /\ FormIsOf(k)
  BY DEF GoodForm
<1>1. /\ form.uploadAjax \ {r} = New(k)!NoRequests
      /\ r = [of |-> form.picked, last |-> TRUE]
  BY <1>0, LastOneEnds, NewAjax DEF KeepsPicked
<1>2. r.of = form.picked /\ r.of \in 0 .. forms[k].MaxFiles
  BY <1>0, <1>1 DEF New!TypeOK, New!PageState
<1>3. New(k)!NoRequests \in SUBSET New(k)!Request(1 .. forms[k].MaxFiles)
  BY DEF New!NoRequests
<1>4. /\ form' \in New(k)!PageState
      /\ form'.section = form.section /\ form'.getAjax = form.getAjax
      /\ form'.gameId = form.gameId /\ form'.id = form.id
         /\ form'.basis = form.basis
      /\ form'.jumped = form.jumped
      /\ form'.postAjax = form.postAjax /\ form'.uploadAjax = New(k)!NoRequests
      /\ form'.submitDisabled = form.submitDisabled
      /\ form'.picked = form.picked
      /\ ~form'.dropped => form'.media = form.picked
      /\ UNCHANGED <<wanted, posts, viewed, behind>>
  <2>1. CASE New(k)!UploadResponse(r)
    BY <1>0, <1>1, <1>2, <1>3, <2>1
       DEF New!TypeOK, New!PageState, New!UploadResponse
  <2>2. CASE New(k)!UploadError(r)
    BY <1>0, <1>1, <1>2, <1>3, <2>2
       DEF New!TypeOK, New!PageState, New!UploadError
  <2> QED
    BY <2>1, <2>2
<1>5. GetsItsTarget(k)' /\ SendsOnce(k)' /\ FormIsOf(k)'
  BY <1>0, <1>4
     DEF GetsItsTarget, SendsOnce, FormIsOf, AtMostOne, New!Loading
<1>6. KeepsPicked(k)'
  <2>1. \A a : AtMostOne(New(k)!NoRequests, a)
    BY DEF AtMostOne, New!NoRequests
  <2> QED
    BY <1>4, <2>1 DEF KeepsPicked, AtMostOne
<1> QED
  BY <1>4, <1>5, <1>6, PageAlone

\* A post that failed may be sent anew.
LEMMA PostErrorOK ==
    ASSUME NEW k, New(k)!NewProposalAssumption, GoodForm(k),
           NEW r \in form.postAjax, New(k)!PostError(r)
    PROVE  GoodForm(k)'
<1>0. New(k)!TypeOK /\ GetsItsTarget(k) /\ SendsOnce(k) /\ KeepsPicked(k)
      /\ FormIsOf(k)
  BY DEF GoodForm
<1>1. /\ UNCHANGED <<wanted, posts, viewed, behind>>
      /\ form' = [form EXCEPT !.postAjax = @ \ {r}, !.submitDisabled = FALSE]
  BY DEF New!PostError
<1>2. form.postAjax \ {r} = New(k)!NoRequests
  BY <1>0, LastOneEnds, NewAjax DEF SendsOnce
<1>3. New(k)!NoRequests \in SUBSET New(k)!Request(1 .. forms[k].MaxPosts)
  BY DEF New!NoRequests
<1>4. /\ form' \in New(k)!PageState
      /\ form'.section = form.section /\ form'.getAjax = form.getAjax
      /\ form'.gameId = form.gameId /\ form'.id = form.id
         /\ form'.basis = form.basis
      /\ form'.jumped = form.jumped /\ form'.media = form.media
      /\ form'.dropped = form.dropped
      /\ form'.postAjax = New(k)!NoRequests
      /\ form'.uploadAjax = form.uploadAjax
      /\ form'.submitDisabled = FALSE
      /\ form'.picked = form.picked
  BY <1>0, <1>1, <1>2, <1>3 DEF New!TypeOK, New!PageState
<1>5. GetsItsTarget(k)' /\ KeepsPicked(k)' /\ FormIsOf(k)'
  BY <1>0, <1>1, <1>4
     DEF GetsItsTarget, KeepsPicked, FormIsOf, AtMostOne, New!Loading
<1>6. SendsOnce(k)'
  <2>1. \A a : AtMostOne(New(k)!NoRequests, a)
    BY DEF AtMostOne, New!NoRequests
  <2> QED
    <3>1. ~New(k)!Loading(form.postAjax)'
      BY <1>4 DEF New!NoRequests, New!Loading
    <3> QED
      BY <1>1, <1>4, <2>1, <3>1 DEF SendsOnce, AtMostOne
<1> QED
  BY <1>1, <1>4, <1>5, <1>6, PageAlone

\* What is sent is meant.
LEMMA SendIsMeant ==
    ASSUME NEW k, New(k)!NewProposalAssumption, GoodForm(k),
           form.section = "content"
    PROVE  New(k)!Send \in New(k)!Post /\ MeantToBe(k, New(k)!Send)
           /\ New(k)!Send.state = "sent" /\ ~New(k)!Send.stored
<1>0. New(k)!TypeOK /\ FormIsOf(k)
  BY DEF GoodForm
<1>1. /\ wanted \in New(k)!Params /\ form.id \in New(k)!Id
      /\ form.gameId \in New(k)!Id /\ form.media \in 0 .. forms[k].MaxFiles
      /\ form.basis \in forms[k].Target \union {Nothing}
      /\ form.jumped \in BOOLEAN
  BY <1>0 DEF New!TypeOK, New!PageState
<1>a. /\ wanted.parent \in New(k)!Id
      /\ wanted.target # Nothing => wanted.parent = <<>>
  BY <1>1, ParamsAre
<1>2. wanted.parent \o form.id \in New(k)!Id
  BY <1>1, <1>a, IdsJoin
<1>3. wanted.target # Nothing => wanted.parent \o form.id = form.id
  BY <1>1, <1>a, IdsJoin
<1> DEFINE sent == New(k)!Send
<1>4. /\ sent = [target |-> wanted.parent \o form.id, parent |-> form.gameId,
                 media |-> form.media, asked |-> wanted, basis |-> form.basis,
                 jumped |-> form.jumped, state |-> "sent", stored |-> FALSE]
  BY DEF New!Send
<1> HIDE DEF sent
<1>5. sent \in New(k)!Post /\ sent.state = "sent" /\ ~sent.stored
  BY <1>1, <1>2, <1>4 DEF New!Post
<1>6. MeantToBe(k, sent)
  <2>1. CASE wanted.target # Nothing
    BY <1>0, <1>1, <1>3, <1>4, <2>1 DEF MeantToBe, FormIsOf
  <2>2. CASE wanted.target = Nothing
    <3>1. Len(form.gameId) = Len(wanted.parent)
          /\ (~form.jumped => form.basis = Nothing)
      BY <1>0, <2>2 DEF FormIsOf
    <3> QED
      BY <1>1, <1>4, <2>2, <3>1 DEF MeantToBe
  <2> QED
    BY <2>1, <2>2
<1> QED
  BY <1>5, <1>6 DEF sent

\* The form is sent.
LEMMA SubmitOK ==
    ASSUME NEW k, New(k)!NewProposalAssumption, GoodForm(k), New(k)!Submit
    PROVE  GoodForm(k)'
<1> DEFINE g == New(k)!GenerateRequest(
                   New(k)!Abort(form.postAjax), Len(posts) + 1)
           sent == New(k)!Send
<1>0. New(k)!TypeOK /\ GetsItsTarget(k) /\ SendsOnce(k) /\ KeepsPicked(k)
      /\ FormIsOf(k) /\ GoodPosts(k)
  BY DEF GoodForm
<1>1. /\ viewed = 0 /\ form.section = "content"
         /\ Len(posts) < forms[k].MaxPosts
      /\ posts' = Append(posts, sent) /\ UNCHANGED <<wanted, viewed, behind>>
      /\ form' = [form EXCEPT !.submitDisabled = TRUE, !.postAjax = g]
  BY DEF New!Submit
<1>2. sent \in New(k)!Post /\ MeantToBe(k, sent) /\ sent.state = "sent"
      /\ ~sent.stored
  BY <1>1, SendIsMeant
<1>3. /\ g = {[of |-> Len(posts) + 1, last |-> TRUE]}
      /\ AtMostOne(g, Len(posts) + 1) /\ New(k)!Loading(g)
  <2>1. AtMostOne(form.postAjax, Len(posts))
    BY <1>0 DEF SendsOnce
  <2> QED
    <3>1. g = GenerateRequest(Abort(form.postAjax), Len(posts) + 1)
      BY ZenonT(60), NewAjax
    <3>2. New(k)!Loading(g) <=> Loading(g)
      BY NewAjax
    <3> HIDE DEF g
    <3> QED
      BY <2>1, <3>1, <3>2, AskAgain
<1>4. /\ Len(posts) \in Nat /\ DOMAIN posts = 1 .. Len(posts)
      /\ Len(posts) + 1 \in 1 .. forms[k].MaxPosts /\ posts \in Seq(New(k)!Post)
      /\ behind \subseteq 1 .. Len(posts)
  BY <1>0, <1>1, InFlightIsPosts DEF New!TypeOK, New!NewProposalAssumption
<1> HIDE DEF g, sent
<1>5. g \in SUBSET New(k)!Request(1 .. forms[k].MaxPosts)
  BY <1>3, <1>4, OneRequest
<1>6. /\ posts' \in Seq(New(k)!Post) /\ Len(posts') = Len(posts) + 1
      /\ DOMAIN posts' = 1 .. Len(posts) + 1
      /\ posts'[Len(posts) + 1] = sent
      /\ \A i \in DOMAIN posts : posts'[i] = posts[i]
  BY <1>1, <1>2, <1>4
<1>7. /\ form' \in New(k)!PageState
      /\ form'.section = form.section /\ form'.getAjax = form.getAjax
      /\ form'.gameId = form.gameId /\ form'.id = form.id
         /\ form'.basis = form.basis
      /\ form'.jumped = form.jumped /\ form'.media = form.media
      /\ form'.dropped = form.dropped
      /\ form'.postAjax = g /\ form'.uploadAjax = form.uploadAjax
      /\ form'.submitDisabled = TRUE
      /\ form'.picked = form.picked
  BY <1>0, <1>1, <1>5 DEF New!TypeOK, New!PageState
<1>8. New(k)!TypeOK'
  <2>1. /\ Len(posts') <= forms[k].MaxPosts /\ viewed' \in 0 .. Len(posts')
        /\ behind' \subseteq 1 .. Len(posts')
    BY <1>1, <1>4, <1>6
  <2> QED
    BY <1>0, <1>1, <1>6, <1>7, <2>1 DEF New!TypeOK
<1>9. GetsItsTarget(k)' /\ KeepsPicked(k)' /\ FormIsOf(k)'
  BY <1>0, <1>1, <1>7
     DEF GetsItsTarget, KeepsPicked, FormIsOf, AtMostOne, New!Loading
<1>10. SendsOnce(k)'
  BY <1>3, <1>6, <1>7 DEF SendsOnce, AtMostOne, New!Loading
<1>11. GoodPosts(k)'
  <2>1. ASSUME NEW i \in DOMAIN posts'
        PROVE  /\ MeantToBe(k, posts'[i])
               /\ posts'[i].stored => New(k)!Accepts(posts'[i])
               /\ posts'[i].state = "done" => posts'[i].stored
    <3>1. CASE i = Len(posts) + 1
      BY <1>2, <1>6, <3>1
    <3>2. CASE i # Len(posts) + 1
      <4>1. i \in DOMAIN posts
        BY <1>4, <1>6, <3>2
      <4> QED
        BY <1>0, <1>6, <4>1 DEF GoodPosts
    <3> QED
      BY <3>1, <3>2
  <2>2. viewed' = 0
    BY <1>1
  <2> QED
    BY <2>1, <2>2 DEF GoodPosts, MeantToBe, New!Accepts
<1> QED
  BY <1>8, <1>9, <1>10, <1>11 DEF GoodForm

\* A post reaches the server.
LEMMA ReceiveOK ==
    ASSUME NEW k, New(k)!NewProposalAssumption, GoodForm(k),
           NEW i \in DOMAIN posts, New(k)!Receive(i)
    PROVE  GoodForm(k)'
<1>0. New(k)!TypeOK /\ GetsItsTarget(k) /\ SendsOnce(k) /\ KeepsPicked(k)
      /\ FormIsOf(k) /\ GoodPosts(k)
  BY DEF GoodForm
<1>1. /\ posts[i].state = "sent" /\ UNCHANGED <<wanted, form, viewed, behind>>
  BY DEF New!Receive
<1>2. PICK to \in {"done", "refused"}, stored \in BOOLEAN :
         /\ stored => New(k)!Accepts(posts[i])
         /\ to = "done" => stored
         /\ posts' = [posts EXCEPT ![i].state = to, ![i].stored = stored]
  BY DEF New!Receive
<1>3. /\ Len(posts) \in Nat /\ DOMAIN posts = 1 .. Len(posts)
      /\ posts \in Seq(New(k)!Post) /\ posts[i] \in New(k)!Post
  BY <1>0, InFlightIsPosts DEF New!TypeOK
<1>a. PICK new : new = [posts[i] EXCEPT !.state = to, !.stored = stored]
  OBVIOUS
<1>4. posts' = [posts EXCEPT ![i] = new]
  BY <1>2, <1>3, <1>a
<1>b. to \in {"done", "refused"} /\ stored \in BOOLEAN
      /\ posts[i] \in New(k)!Post
  BY <1>2, <1>3
<1>5. /\ new \in New(k)!Post /\ new.state = to /\ new.stored = stored
      /\ MeantToBe(k, posts[i]) => MeantToBe(k, new)
      /\ New(k)!Accepts(posts[i]) => New(k)!Accepts(new)
  <2>1. /\ new \in New(k)!Post /\ new.state = to /\ new.stored = stored
        /\ new.target = posts[i].target /\ new.parent = posts[i].parent
        /\ new.asked = posts[i].asked /\ new.basis = posts[i].basis
        /\ new.jumped = posts[i].jumped
    BY <1>a, <1>b DEF New!Post
  <2>2. MeantToBe(k, posts[i]) => MeantToBe(k, new)
    BY <2>1 DEF MeantToBe
  <2>3. New(k)!Accepts(posts[i]) => New(k)!Accepts(new)
    BY <2>1 DEF New!Accepts
  <2> QED
    BY <2>1, <2>2, <2>3
<1>6. /\ posts' \in Seq(New(k)!Post) /\ Len(posts') = Len(posts)
      /\ DOMAIN posts' = DOMAIN posts /\ posts'[i] = new
      /\ \A j \in DOMAIN posts : j # i => posts'[j] = posts[j]
  BY <1>3, <1>4, <1>5
<1>7. New(k)!TypeOK'
  BY <1>0, <1>1, <1>6 DEF New!TypeOK
<1>8. GetsItsTarget(k)' /\ SendsOnce(k)' /\ KeepsPicked(k)' /\ FormIsOf(k)'
  BY <1>0, <1>1, <1>6
     DEF GetsItsTarget, SendsOnce, KeepsPicked, FormIsOf, AtMostOne, New!Loading
<1>9. GoodPosts(k)'
  <2>1. ASSUME NEW j \in DOMAIN posts'
        PROVE  /\ MeantToBe(k, posts'[j])
               /\ posts'[j].stored => New(k)!Accepts(posts'[j])
               /\ posts'[j].state = "done" => posts'[j].stored
    <3>1. CASE j = i
      BY <1>0, <1>2, <1>5, <1>6, <3>1 DEF GoodPosts
    <3>2. CASE j # i
      BY <1>0, <1>6, <3>2 DEF GoodPosts
    <3> QED
      BY <3>1, <3>2
  <2>2. viewed' # 0 => posts'[viewed'].state = "done"
    <3> SUFFICES ASSUME viewed # 0 PROVE posts'[viewed].state = "done"
      BY <1>1
    <3>1. viewed \in DOMAIN posts /\ posts[viewed].state = "done"
      BY <1>0, <1>3 DEF New!TypeOK, GoodPosts
    <3> QED
      BY <1>1, <1>6, <3>1
  <2> QED
    BY <2>1, <2>2 DEF GoodPosts, MeantToBe, New!Accepts
<1> QED
  BY <1>7, <1>8, <1>9 DEF GoodForm

\* The parts stay through every step.
LEMMA FormStep ==
    ASSUME NEW k, New(k)!NewProposalAssumption, GoodForm(k),
           [New(k)!Next]_newVars
    PROVE  GoodForm(k)'
<1>0. New(k)!TypeOK /\ SendsOnce(k) /\ GoodPosts(k)
  BY DEF GoodForm
<1>1. /\ Len(posts) \in Nat /\ DOMAIN posts = 1 .. Len(posts)
      /\ New(k)!InFlight \subseteq 1 .. Len(posts)
  BY InFlightIsPosts
<1>2. ASSUME NEW p \in New(k)!Params, New(k)!Arrive(p) PROVE GoodForm(k)'
  <2>1. /\ wanted' = p /\ form' = New(k)!Stamped(p) /\ UNCHANGED posts
        /\ behind' \subseteq behind \union New(k)!InFlight
        /\ viewed' = 0 /\ viewed' \in 0 .. Len(posts)
    BY <1>1, <1>2 DEF New!Arrive
  <2>2. form' \in New(k)!PageState
    BY <2>1, StampedForm
  <2> QED
    BY <2>1, <2>2, Replaced
<1>3. ASSUME NEW r \in form.postAjax, New(k)!PostResponse(r) PROVE GoodForm(k)'
  <2>1. /\ wanted' = wanted /\ form' = New(k)!Gone /\ UNCHANGED posts
        /\ behind' \subseteq behind \union New(k)!InFlight
        /\ viewed' = r.of /\ posts[r.of].state = "done"
    BY <1>3 DEF New!PostResponse
  <2>2. viewed' \in 0 .. Len(posts)
    <3>1. r.of \in New(k)!InFlight
      BY DEF New!InFlight
    <3>2. r.of \in 1 .. Len(posts)
      BY <1>1, <3>1
    <3> QED
      BY <1>1, <2>1, <3>2
  <2>3. form' \in New(k)!PageState
        /\ form' = [New(k)!Stamped(wanted) EXCEPT !.getAjax = New(k)!NoRequests]
    BY <1>0, <2>1, GoneIsAPage DEF New!Gone
  <2>4. wanted \in New(k)!Params
    BY <1>0 DEF New!TypeOK
  <2> QED
    BY <2>1, <2>2, <2>3, <2>4, Replaced
<1>4. ASSUME NEW i \in behind, New(k)!LateResponse(i) PROVE GoodForm(k)'
  <2>1. /\ wanted' = wanted /\ form' = New(k)!Gone /\ UNCHANGED posts
        /\ behind' \subseteq behind \union New(k)!InFlight
        /\ viewed' = i /\ posts[i].state = "done"
    BY <1>4 DEF New!LateResponse
  <2>2. viewed' \in 0 .. Len(posts)
    BY <1>0, <1>1, <2>1 DEF New!TypeOK
  <2>3. form' \in New(k)!PageState
        /\ form' = [New(k)!Stamped(wanted) EXCEPT !.getAjax = New(k)!NoRequests]
    BY <1>0, <2>1, GoneIsAPage DEF New!Gone
  <2>4. wanted \in New(k)!Params
    BY <1>0 DEF New!TypeOK
  <2> QED
    BY <2>1, <2>2, <2>3, <2>4, Replaced
<1>5. ASSUME NEW i \in behind, New(k)!LateError(i) PROVE GoodForm(k)'
  BY <1>5
     DEF New!LateError, GoodForm, New!TypeOK, GetsItsTarget, SendsOnce,
         KeepsPicked,
     FormIsOf, GoodPosts, MeantToBe, New!Accepts, AtMostOne, New!Loading
<1>6. CASE UNCHANGED newVars
  BY <1>6
     DEF newVars, GoodForm, New!TypeOK, GetsItsTarget, SendsOnce, KeepsPicked,
     FormIsOf, GoodPosts, MeantToBe, New!Accepts, AtMostOne, New!Loading
<1> QED
  BY <1>2, <1>3, <1>4, <1>5, <1>6, QueryParamsChangedOK, GetResponseOK,
     GetErrorOK,
     TypeIdOK, PickFileOK, UploadOK, SubmitOK, ReceiveOK,
        PostErrorOK DEF New!Next

\* A document that the server accepts below a parent of the kind that was asked
\* for is below the parent that was asked for.
LEMMA StoredBelow ==
    ASSUME NEW k, New(k)!NewProposalAssumption, NEW post \in New(k)!Post,
           MeantToBe(k, post),
           post.asked.target = Nothing, New(k)!Accepts(post)
    PROVE  \E name \in forms[k].Name :
              post.target = Append(post.asked.parent, name)
<1> DEFINE all == forms[k].Name \union forms[k].Padded
           parent == post.asked.parent
<1>1. /\ post.parent \in Seq(all) /\ parent \in Seq(all)
      /\ Len(post.parent) = Len(parent)
  <2>1. post.asked \in New(k)!Params /\ post.parent \in New(k)!Id
    BY DEF New!Post
  <2>2. parent \in New(k)!Id
    BY <2>1, ParamsAre
  <2> QED
    BY <2>1, <2>2 DEF MeantToBe, New!Id
<1>2. PICK id \in Seq(all) : post.target = parent \o id
  BY DEF MeantToBe, New!Id
<1>3. PICK name \in forms[k].Name : post.target = Append(post.parent, name)
  BY DEF New!Accepts
<1> HIDE DEF parent, all
<1>4. forms[k].Name \subseteq all
  BY DEF all
<1>5. /\ Len(post.target) = Len(parent) + 1
      /\ post.target[Len(parent) + 1] = name
      /\ Len(parent) \in Nat
  BY <1>1, <1>3, <1>4
<1>6. /\ Len(post.target) = Len(parent) + Len(id) /\ Len(id) \in Nat
      /\ post.target \in Seq(all)
      /\ \A i \in 1 .. Len(parent) : post.target[i] = parent[i]
  <2>1. /\ parent \o id \in Seq(all)
        /\ Len(parent \o id) = Len(parent) + Len(id)
        /\ \A i \in 1 .. Len(parent) + Len(id) : (parent \o id)[i] =
              IF i <= Len(parent) THEN parent[i] ELSE id[i - Len(parent)]
    BY <1>1, <1>2, ConcatProperties
  <2> QED
    BY <1>1, <1>2, <1>5, <2>1
<1>7. /\ Append(parent, name) \in Seq(all)
      /\ Len(Append(parent, name)) = Len(parent) + 1
      /\ \A i \in 1 .. Len(parent) : Append(parent, name)[i] = parent[i]
      /\ Append(parent, name)[Len(parent) + 1] = name
  BY <1>1, <1>4
<1>8. \A i \in 1 .. Len(parent) + 1 : post.target[i] = Append(parent, name)[i]
  BY <1>5, <1>6, <1>7
<1>9. post.target = Append(parent, name)
  BY <1>5, <1>6, <1>7, <1>8, SeqEqual
<1> QED
  BY <1>9 DEF parent

\* What the form promises follows.
LEMMA FormRight ==
    ASSUME NEW k, New(k)!NewProposalAssumption, GoodForm(k)
    PROVE  /\ New(k)!IInv
           /\ New(k)!StoredWhereAsked /\ New(k)!EditsItsTarget
              /\ New(k)!LastPickedWins /\ New(k)!OnePostInFlight
<1>0. New(k)!TypeOK /\ GetsItsTarget(k) /\ SendsOnce(k) /\ KeepsPicked(k)
      /\ FormIsOf(k) /\ GoodPosts(k)
  BY DEF GoodForm
<1>1. /\ Len(posts) \in Nat /\ DOMAIN posts = 1 .. Len(posts)
      /\ \A i \in DOMAIN posts : posts[i] \in New(k)!Post
  BY InFlightIsPosts
<1>2. viewed # 0 => posts[viewed].state = "done" /\ posts[viewed].stored
  BY <1>0, <1>1 DEF New!TypeOK, GoodPosts
<1>3. \A r, q \in form.postAjax : r = q
  BY <1>0 DEF SendsOnce, AtMostOne
<1>4. \A r, q \in form.getAjax : r.last /\ r = q
  <2>1. PICK a : AtMostOne(form.getAjax, a)
    BY <1>0 DEF GetsItsTarget
  <2>2. \A r \in form.getAjax : r = [of |-> a, last |-> TRUE]
    BY <2>1 DEF AtMostOne
  <2>3. \A r \in form.getAjax : r.last
    BY <2>2
  <2> QED
    BY <2>2, <2>3
<1>5. New(k)!IInv
  BY <1>0, <1>2, <1>4
     DEF New!IInv, GetsItsTarget, SendsOnce, KeepsPicked, FormIsOf, GoodPosts,
     AtMostOne
<1>6. New(k)!StoredWhereAsked
  <2>1. ASSUME NEW i \in DOMAIN posts, posts[i].asked.target = Nothing,
               posts[i].stored
        PROVE  \E name \in forms[k].Name :
                  posts[i].target = Append(posts[i].asked.parent, name)
    <3>1. posts[i] \in New(k)!Post /\ MeantToBe(k, posts[i])
          /\ New(k)!Accepts(posts[i])
      BY <1>0, <1>1, <2>1 DEF GoodPosts
    <3> QED
      BY <2>1, <3>1, StoredBelow
  <2>2. ASSUME NEW i \in DOMAIN posts, posts[i].asked.target = Nothing,
               ~posts[i].jumped
        PROVE  posts[i].basis = Nothing
    BY <1>0, <2>2 DEF GoodPosts, MeantToBe
  <2> QED
    BY <2>1, <2>2 DEF New!StoredWhereAsked
<1>7. New(k)!EditsItsTarget
  BY <1>0 DEF GoodPosts, MeantToBe, New!EditsItsTarget
<1>8. New(k)!LastPickedWins
  BY <1>0 DEF KeepsPicked, New!LastPickedWins
<1>9. New(k)!OnePostInFlight
  BY <1>0, <1>2, <1>3 DEF SendsOnce, New!OnePostInFlight
<1> QED
  BY <1>5, <1>6, <1>7, <1>8, <1>9

-----------------------------------------------------------------------------
\* An element whose timer does not run is judged rightly.
Judged(k, e) == ~e.timer => (e.valid <=> e.text \in editors[k].Filled)

\* The parts of IInv that are about the elements, and about the editor.
RowsJudged(k) == \A i \in DOMAIN rows, f \in editors[k].Input :
   Judged(k, rows[i][f])

\* What the editor looks at.
RowsValid(k) == \A i \in DOMAIN rows : Attributes(k)!RowValid(rows[i])

\* The editor is right about its rows, unless news is under way.
EditorFollows(k) ==
    ~timer /\ ~haste =>
        /\ valid => \/ RowsValid(k)
                    \/ Attributes(k)!GhostNews
                    \/ Attributes(k)!MovedNews(FALSE)
        /\ RowsValid(k) => \/ valid \/ eased
                           \/ Attributes(k)!GhostNews
                           \/ Attributes(k)!MovedNews(TRUE)

\* The inductive invariant of the editor.
GoodEditor(k) == Attributes(k)!TypeOK /\ RowsJudged(k) /\ EditorFollows(k)

\* IInv is its parts.
LEMMA EditorParts ==
    ASSUME NEW k
    PROVE  Attributes(k)!IInv <=> GoodEditor(k)
BY DEF Attributes!IInv, GoodEditor, RowsJudged, EditorFollows, Judged,
       RowsValid

\* What the rows are made of.
LEMMA RowsAre ==
    ASSUME NEW k, Attributes(k)!TypeOK
    PROVE  /\ Len(rows) \in Nat /\ DOMAIN rows = 1 .. Len(rows)
           /\ \A i \in DOMAIN rows :
                 rows[i] \in [editors[k].Input -> Attributes(k)!Element]
           /\ \A i \in DOMAIN rows, f \in editors[k].Input :
                 /\ rows[i][f] \in Attributes(k)!Element
                 /\ rows[i][f].timer \in BOOLEAN /\ rows[i][f].valid \in BOOLEAN
                 /\ rows[i][f].text \in editors[k].Text
           /\ rows # <<>> => Len(rows) > 0
<1>1. rows \in Seq([editors[k].Input -> Attributes(k)!Element])
  BY DEF Attributes!TypeOK
<1>2. /\ Len(rows) \in Nat /\ DOMAIN rows = 1 .. Len(rows)
      /\ \A i \in DOMAIN rows :
            rows[i] \in [editors[k].Input -> Attributes(k)!Element]
      /\ rows # <<>> => Len(rows) > 0
  BY <1>1
<1> QED
  BY <1>2 DEF Attributes!Element

\* What an element is that a text moves to.
LEMMA TextMoves ==
    ASSUME NEW k, NEW e \in Attributes(k)!Element, NEW text \in editors[k].Text
    PROVE  /\ Attributes(k)!WithText(e, text) \in Attributes(k)!Element
           /\ Attributes(k)!WithText(e, text).valid = e.valid
           /\ Attributes(k)!WithText(e, text).text = text
           /\ Judged(k, e) => Judged(k, Attributes(k)!WithText(e, text))
           /\ e.timer => Attributes(k)!WithText(e, text).timer
BY DEF Attributes!WithText, Attributes!Element, Judged

\* Rendering gives each text its element.
StampsRows(k, n, texts) ==
    /\ rows' \in Seq([editors[k].Input -> Attributes(k)!Element])
    /\ Len(rows') = n
    /\ DOMAIN rows' = 1 .. n
    /\ RowsJudged(k)'
    /\ \A i \in DOMAIN rows, f \in editors[k].Input :
          i <= n => rows'[i][f] =
             Attributes(k)!WithText(rows[i][f], texts[i][f])
    /\ ghosts' \subseteq Attributes(k)!Element /\ ghosts \subseteq ghosts'
    /\ \A i \in DOMAIN rows, f \in editors[k].Input :
          i > n /\ rows[i][f].timer => rows[i][f] \in ghosts'
    /\ timer' \in BOOLEAN /\ (timer => timer')
    /\ n > Len(rows) => timer'

\* So it does.
LEMMA Rendered ==
    ASSUME NEW k, Attributes(k)!FormValidityAssumption, Attributes(k)!TypeOK,
           RowsJudged(k),
           NEW n \in 0 .. editors[k].MaxRows,
              NEW texts \in [1 .. n -> [editors[k].Input -> editors[k].Text]],
           Attributes(k)!Render(texts)
    PROVE  StampsRows(k, n, texts)
<1>0. /\ n \in Nat /\ DOMAIN texts = 1 .. n /\ n <= editors[k].MaxRows
      /\ texts \in Seq([editors[k].Input -> editors[k].Text]) /\ Len(texts) = n
  BY DEF Attributes!FormValidityAssumption
<1>1. /\ Len(rows) \in Nat /\ DOMAIN rows = 1 .. Len(rows)
      /\ \A i \in DOMAIN rows, f \in editors[k].Input :
            rows[i][f] \in Attributes(k)!Element
  BY RowsAre
<1>2. ASSUME NEW i \in 1 .. n, NEW f \in editors[k].Input
      PROVE  /\ texts[i][f] \in editors[k].Text
             /\ i \in DOMAIN rows =>
                   /\ Attributes(k)!WithText(rows[i][f], texts[i][f])
                         \in Attributes(k)!Element
                   /\ Judged(k, Attributes(k)!WithText(rows[i][f], texts[i][f]))
             /\ Attributes(k)!NewElement(texts[i][f]) \in Attributes(k)!Element
             /\ Judged(k, Attributes(k)!NewElement(texts[i][f]))
  <2>1. texts[i][f] \in editors[k].Text
    BY <1>0
  <2>2. ASSUME i \in DOMAIN rows
        PROVE  /\ Attributes(k)!WithText(rows[i][f], texts[i][f])
                     \in Attributes(k)!Element
               /\ Judged(k, Attributes(k)!WithText(rows[i][f], texts[i][f]))
    BY <1>1, <2>1, <2>2, TextMoves DEF RowsJudged
  <2>3. Attributes(k)!NewElement(texts[i][f]) \in Attributes(k)!Element
        /\ Judged(k, Attributes(k)!NewElement(texts[i][f]))
    BY <2>1 DEF Attributes!NewElement, Attributes!Element, Judged
  <2> QED
    BY <2>1, <2>2, <2>3
<1>3. rows' = [i \in 1 .. n |->
                 [f \in editors[k].Input |->
                    IF i \in DOMAIN rows
                    THEN Attributes(k)!WithText(rows[i][f], texts[i][f])
                    ELSE Attributes(k)!NewElement(texts[i][f])]]
  BY <1>0 DEF Attributes!Render
<1>4. /\ DOMAIN rows' = 1 .. n
      /\ \A i \in 1 .. n :
            rows'[i] \in [editors[k].Input -> Attributes(k)!Element]
      /\ \A i \in 1 .. n, f \in editors[k].Input : Judged(k, rows'[i][f])
      /\ \A i \in DOMAIN rows, f \in editors[k].Input :
            i <= n => rows'[i][f] =
               Attributes(k)!WithText(rows[i][f], texts[i][f])
  BY <1>0, <1>1, <1>2, <1>3
<1>5. rows' \in Seq([editors[k].Input -> Attributes(k)!Element])
      /\ Len(rows') = n
  BY <1>0, <1>3, <1>4
<1>6. RowsJudged(k)'
  <2>1. ASSUME NEW i \in DOMAIN rows', NEW f \in editors[k].Input
        PROVE  Judged(k, rows'[i][f])
    BY <1>4
  <2> QED
    BY <2>1 DEF RowsJudged, Judged
<1>7. /\ ghosts' = ghosts \union
            {e \in {rows[i][f] : i \in DOMAIN rows \ DOMAIN texts,
               f \in editors[k].Input} :
                e.timer}
      /\ timer' = (timer \/ Len(texts) > Len(rows))
  BY DEF Attributes!Render
<1>8. \A i \in DOMAIN rows, f \in editors[k].Input :
         i > n /\ rows[i][f].timer => rows[i][f] \in ghosts'
  BY <1>0, <1>1, <1>7
<1>9. ghosts' \subseteq Attributes(k)!Element /\ ghosts \subseteq ghosts'
  BY <1>1, <1>7 DEF Attributes!TypeOK
<1> QED
  BY <1>0, <1>4, <1>5, <1>6, <1>7, <1>8, <1>9 DEF Attributes!TypeOK, StampsRows

\* The editor begins as the parts say.
LEMMA EditorInit ==
    ASSUME NEW k
    PROVE  Attributes(k)!FormValidityAssumption /\ Attributes(k)!Init =>
              GoodEditor(k)
<1> SUFFICES ASSUME Attributes(k)!FormValidityAssumption,
                    Attributes(k)!Init
             PROVE  GoodEditor(k)
  OBVIOUS
<1>1. [f \in editors[k].Input |-> Attributes(k)!NewElement(editors[k].Blank)]
         \in [editors[k].Input -> Attributes(k)!Element]
  BY DEF Attributes!NewElement, Attributes!Element,
     Attributes!FormValidityAssumption
<1>2. rows \in Seq([editors[k].Input -> Attributes(k)!Element])
      /\ Len(rows) = 1 /\ DOMAIN rows = {1}
  BY <1>1 DEF Attributes!Init
<1>3. Attributes(k)!TypeOK
  <2>1. Len(rows) <= editors[k].MaxRows
    BY <1>2 DEF Attributes!FormValidityAssumption
  <2>2. getting \in BOOLEAN /\ content \in BOOLEAN
    BY DEF Attributes!Init
  <2> QED
    BY <1>2, <2>1, <2>2 DEF Attributes!TypeOK, Attributes!Init
<1>4. RowsJudged(k)
  BY <1>2 DEF RowsJudged, Attributes!Init, Judged, Attributes!NewElement
<1> QED
  BY <1>3, <1>4 DEF GoodEditor, EditorFollows, Attributes!Init

\* What is remembered, unless the editor is to judge anew.
LEMMA Remembered ==
    ASSUME NEW k, NEW still, NEW typed \in BOOLEAN, NEW over \in BOOLEAN,
           Attributes(k)!Remember(still, typed, over)
    PROVE  /\ unsettled' \subseteq still
           /\ haste' \in BOOLEAN /\ eased' \in BOOLEAN
           /\ ~timer' /\ ~haste' =>
                 ~typed /\ unsettled' = still /\ eased' = over
BY DEF Attributes!Remember

\* The document's attributes take the place of those in the form.  News of a
\* row that is left over is news of an element that is gone.
LEMMA LoadOK ==
    ASSUME NEW k, Attributes(k)!FormValidityAssumption, GoodEditor(k),
           NEW n \in 0 .. editors[k].MaxRows,
           NEW texts \in [1 .. n -> [editors[k].Input -> editors[k].Filled]],
           Attributes(k)!Load(texts)
    PROVE  GoodEditor(k)'
<1>0. Attributes(k)!TypeOK /\ RowsJudged(k) /\ EditorFollows(k)
  BY DEF GoodEditor
<1> DEFINE still == {u \in unsettled : u[1] \in DOMAIN texts}
           over == eased \/ unsettled # {} \/ Len(texts) < Len(rows)
<1>1. /\ DOMAIN texts = 1 .. n /\ Len(texts) = n /\ n \in Nat
      /\ n <= editors[k].MaxRows
      /\ texts \in [1 .. n -> [editors[k].Input -> editors[k].Text]]
      /\ \A i \in 1 .. n, f \in editors[k].Input :
            /\ texts[i][f] \in editors[k].Filled
            /\ texts[i][f] \in editors[k].Text
  <2>1. DOMAIN texts = 1 .. n /\ n \in Nat /\ n <= editors[k].MaxRows
    BY DEF Attributes!FormValidityAssumption
  <2>2. ASSUME NEW i \in 1 .. n
        PROVE  texts[i] \in [editors[k].Input -> editors[k].Text]
    BY DEF Attributes!FormValidityAssumption
  <2>3. \A i \in 1 .. n, f \in editors[k].Input :
           /\ texts[i][f] \in editors[k].Filled
           /\ texts[i][f] \in editors[k].Text
    BY DEF Attributes!FormValidityAssumption
  <2>4. Len(texts) = n
    BY <2>1, <2>2
  <2>5. texts \in [1 .. n -> [editors[k].Input -> editors[k].Text]]
    BY <2>2
  <2> QED
    BY <2>1, <2>3, <2>4, <2>5
<1>2. /\ getting' = FALSE /\ content' = TRUE /\ valid' = valid
      /\ Attributes(k)!Render(texts)
      /\ Attributes(k)!Remember(still, haste, over)
  BY DEF Attributes!Load
<1>3. /\ rows' \in Seq([editors[k].Input -> Attributes(k)!Element])
      /\ Len(rows') = n
      /\ DOMAIN rows' = 1 .. n /\ RowsJudged(k)'
      /\ \A i \in DOMAIN rows, f \in editors[k].Input :
            i <= n => rows'[i][f] =
               Attributes(k)!WithText(rows[i][f], texts[i][f])
      /\ ghosts' \subseteq Attributes(k)!Element /\ ghosts \subseteq ghosts'
      /\ \A i \in DOMAIN rows, f \in editors[k].Input :
            i > n /\ rows[i][f].timer => rows[i][f] \in ghosts'
      /\ timer' \in BOOLEAN /\ (timer => timer')
      /\ n > Len(rows) => timer'
  <2>1. StampsRows(k, n, texts)
    BY <1>0, <1>1, <1>2, Rendered
  <2> QED
    BY <2>1 DEF StampsRows
<1>4. /\ Len(rows) \in Nat /\ DOMAIN rows = 1 .. Len(rows)
      /\ \A i \in DOMAIN rows, f \in editors[k].Input :
            /\ rows[i][f] \in Attributes(k)!Element
            /\ rows[i][f].timer \in BOOLEAN /\ rows[i][f].valid \in BOOLEAN
      /\ unsettled \subseteq (DOMAIN rows) \X editors[k].Input
      /\ haste \in BOOLEAN /\ over \in BOOLEAN
      /\ eased \in BOOLEAN /\ valid \in BOOLEAN /\ timer \in BOOLEAN
  <2>1. /\ unsettled \subseteq (DOMAIN rows) \X editors[k].Input
        /\ haste \in BOOLEAN /\ eased \in BOOLEAN /\ valid \in BOOLEAN
        /\ timer \in BOOLEAN
    BY <1>0 DEF Attributes!TypeOK
  <2> QED
    BY <1>0, <2>1, RowsAre
<1> HIDE DEF still, over
<1>5. /\ unsettled' \subseteq still
      /\ haste' \in BOOLEAN /\ eased' \in BOOLEAN
      /\ ~timer' /\ ~haste' =>
            ~haste /\ unsettled' = still /\ eased' = over
  BY <1>2, <1>4, Remembered
<1>6. Attributes(k)!TypeOK'
  <2>1. unsettled' \subseteq (DOMAIN rows') \X editors[k].Input
    BY <1>1, <1>3, <1>4, <1>5 DEF still
  <2> QED
    BY <1>1, <1>2, <1>3, <1>4, <1>5, <2>1 DEF Attributes!TypeOK
<1>7. ASSUME NEW i \in DOMAIN rows, NEW f \in editors[k].Input, i <= n
      PROVE  /\ rows'[i][f].valid = rows[i][f].valid
             /\ rows'[i][f].text \in editors[k].Filled
             /\ rows[i][f].timer => rows'[i][f].timer
  <2>1. i \in 1 .. n
    BY <1>1, <1>4, <1>7
  <2>2. rows[i][f] \in Attributes(k)!Element
        /\ texts[i][f] \in editors[k].Text /\ texts[i][f] \in editors[k].Filled
    BY <1>1, <1>4, <2>1
  <2>3. rows'[i][f] = Attributes(k)!WithText(rows[i][f], texts[i][f])
    BY <1>3, <1>7
  <2> QED
    BY <2>2, <2>3, TextMoves
<1>8. ASSUME ~timer', ~haste'
      PROVE  ~timer /\ ~haste /\ n <= Len(rows) /\ unsettled' = still
             /\ eased' = over
  BY <1>1, <1>3, <1>4, <1>5, <1>8
<1>9. Attributes(k)!GhostNews => Attributes(k)!GhostNews'
  BY <1>3 DEF Attributes!GhostNews, Attributes!News
<1>10. ASSUME ~timer', ~haste', valid'
       PROVE  RowsValid(k)' \/ Attributes(k)!GhostNews'
              \/ Attributes(k)!MovedNews(FALSE)'
  <2>1. RowsValid(k) \/ Attributes(k)!GhostNews
        \/ Attributes(k)!MovedNews(FALSE)
    BY <1>0, <1>2, <1>8, <1>10 DEF EditorFollows
  <2>2. CASE RowsValid(k)
    <3>1. \A i \in 1 .. n, f \in editors[k].Input :
             i \in DOMAIN rows /\ rows[i][f].valid
      BY <1>1, <1>4, <1>8, <1>10, <2>2 DEF RowsValid, Attributes!RowValid
    <3>2. \A i \in 1 .. n, f \in editors[k].Input : rows'[i][f].valid
      BY <1>1, <1>7, <3>1
    <3> QED
      BY <1>3, <3>2 DEF RowsValid, Attributes!RowValid
  <2>3. CASE Attributes(k)!MovedNews(FALSE)
    <3>1. PICK u \in unsettled :
             /\ Attributes(k)!News(rows[u[1]][u[2]])
             /\ rows[u[1]][u[2]].valid = FALSE
      BY <2>3 DEF Attributes!MovedNews
    <3>2. u[1] \in DOMAIN rows /\ u[2] \in editors[k].Input
      BY <1>4
    <3>3. CASE u[1] <= n
      <4>1. u \in unsettled'
        BY <1>1, <1>4, <1>8, <1>10, <3>2, <3>3 DEF still
      <4>2. /\ rows'[u[1]][u[2]].valid = FALSE
            /\ rows'[u[1]][u[2]].text \in editors[k].Filled
            /\ rows'[u[1]][u[2]].timer
        BY <1>7, <3>1, <3>2, <3>3 DEF Attributes!News
      <4>3. Attributes(k)!MovedNews(FALSE)'
        BY <4>1, <4>2 DEF Attributes!MovedNews, Attributes!News
      <4> QED
        BY <4>3
    <3>4. CASE u[1] > n
      <4>1. rows[u[1]][u[2]] \in ghosts'
        BY <1>3, <3>1, <3>2, <3>4 DEF Attributes!News
      <4>2. Attributes(k)!GhostNews'
        BY <3>1, <4>1 DEF Attributes!GhostNews, Attributes!News
      <4> QED
        BY <4>2
    <3>5. u[1] <= n \/ u[1] > n
      <4>1. u[1] \in Nat
        BY <1>4, <3>2
      <4> QED
        BY <1>1, <4>1
    <3> QED
      BY <3>3, <3>4, <3>5
  <2> QED
    BY <1>9, <2>1, <2>2, <2>3
<1>11. ASSUME ~timer', ~haste', RowsValid(k)'
       PROVE  valid' \/ eased' \/ Attributes(k)!GhostNews'
  <2> SUFFICES ASSUME ~eased'
               PROVE  valid' \/ Attributes(k)!GhostNews'
    OBVIOUS
  <2>1. ~eased /\ unsettled = {} /\ n = Len(rows)
    <3>1. eased' = over /\ n <= Len(rows)
      BY <1>8, <1>11
    <3>2. ~eased /\ unsettled = {} /\ ~(n < Len(rows))
      BY ZenonT(60), <1>1, <3>1 DEF over
    <3>3. n = Len(rows)
      BY <1>1, <1>4, <3>1, <3>2
    <3> QED
      BY <3>2, <3>3
  <2>2. \A i \in 1 .. n, f \in editors[k].Input : rows'[i][f].valid
    BY <1>3, <1>11 DEF RowsValid, Attributes!RowValid
  <2>3. RowsValid(k)
    BY <1>1, <1>4, <1>7, <2>1, <2>2 DEF RowsValid, Attributes!RowValid
  <2>4. valid \/ eased \/ Attributes(k)!GhostNews
        \/ Attributes(k)!MovedNews(TRUE)
    BY <1>0, <1>8, <1>11, <2>3 DEF EditorFollows
  <2>5. ~Attributes(k)!MovedNews(TRUE)
    BY <2>1 DEF Attributes!MovedNews
  <2> QED
    BY <1>2, <1>9, <2>1, <2>4, <2>5
<1>12. EditorFollows(k)'
  BY <1>10, <1>11 DEF EditorFollows
<1> QED
  BY <1>3, <1>6, <1>12 DEF GoodEditor

\* A page that changes, or whose GET fails, leaves its form alone.
LEMMA PageKeeps ==
    ASSUME NEW k, GoodEditor(k),
           UNCHANGED <<rows, ghosts, valid, timer, unsettled, haste, eased>>,
           getting' \in BOOLEAN, content' \in BOOLEAN
    PROVE  GoodEditor(k)'
<1>1. Attributes(k)!TypeOK' /\ RowsJudged(k)'
  BY DEF GoodEditor, Attributes!TypeOK, RowsJudged, Judged
<1>2. EditorFollows(k)'
  BY DEF GoodEditor, EditorFollows, RowsValid, Attributes!RowValid,
         Attributes!GhostNews, Attributes!MovedNews, Attributes!News
<1> QED
  BY <1>1, <1>2 DEF GoodEditor

\* Typing says nothing of validity.
LEMMA TypeKeeps ==
    ASSUME NEW k, Attributes(k)!FormValidityAssumption, GoodEditor(k),
           NEW i \in DOMAIN rows, NEW f \in editors[k].Input,
           NEW text \in editors[k].Text,
           Attributes(k)!Type(i, f, text)
    PROVE  GoodEditor(k)'
<1>0. Attributes(k)!TypeOK /\ RowsJudged(k) /\ EditorFollows(k)
  BY DEF GoodEditor
<1> DEFINE typed == haste \/ <<i, f>> \in unsettled
<1>1. /\ rows' =
            [rows EXCEPT ![i][f] = Attributes(k)!WithText(rows[i][f], text)]
      /\ UNCHANGED <<ghosts, valid, timer, getting, content>>
      /\ Attributes(k)!Remember(unsettled, typed, eased)
  BY DEF Attributes!Type
<1>2. /\ Len(rows) \in Nat /\ DOMAIN rows = 1 .. Len(rows)
      /\ \A a \in DOMAIN rows :
            rows[a] \in [editors[k].Input -> Attributes(k)!Element]
      /\ \A a \in DOMAIN rows, g \in editors[k].Input :
            rows[a][g] \in Attributes(k)!Element
  BY <1>0, RowsAre
<1>3. /\ Attributes(k)!WithText(rows[i][f], text) \in Attributes(k)!Element
      /\ Attributes(k)!WithText(rows[i][f], text).valid = rows[i][f].valid
      /\ Judged(k, Attributes(k)!WithText(rows[i][f], text))
  BY <1>0, <1>2, TextMoves DEF RowsJudged
<1>4. /\ rows' \in Seq([editors[k].Input -> Attributes(k)!Element])
      /\ Len(rows') = Len(rows)
      /\ DOMAIN rows' = DOMAIN rows
  BY <1>0, <1>1, <1>2, <1>3 DEF Attributes!TypeOK
<1>5. \A a \in DOMAIN rows, g \in editors[k].Input :
         /\ Judged(k, rows'[a][g])
         /\ rows'[a][g].valid = rows[a][g].valid
         /\ <<a, g>> # <<i, f>> => rows'[a][g] = rows[a][g]
  BY <1>0, <1>1, <1>2, <1>3 DEF RowsJudged
<1>6. /\ unsettled \subseteq (DOMAIN rows) \X editors[k].Input
      /\ haste \in BOOLEAN /\ eased \in BOOLEAN /\ typed \in BOOLEAN
  BY <1>0 DEF Attributes!TypeOK
<1> HIDE DEF typed
<1>7. /\ unsettled' \subseteq unsettled
      /\ haste' \in BOOLEAN /\ eased' \in BOOLEAN
      /\ ~timer' /\ ~haste' =>
            ~typed /\ unsettled' = unsettled /\ eased' = eased
  BY <1>1, <1>6, Remembered
<1>8. Attributes(k)!TypeOK'
  BY <1>0, <1>1, <1>4, <1>7 DEF Attributes!TypeOK
<1>9. RowsJudged(k)'
  BY <1>4, <1>5 DEF RowsJudged, Judged
<1>10. EditorFollows(k)'
  <2> SUFFICES ASSUME ~timer', ~haste'
               PROVE  EditorFollows(k)'
    BY DEF EditorFollows
  <2>1. ~timer /\ ~haste /\ <<i, f>> \notin unsettled
        /\ unsettled' = unsettled /\ eased' = eased
    BY <1>1, <1>7 DEF typed
  <2>2. RowsValid(k)' <=> RowsValid(k)
    BY <1>4, <1>5 DEF RowsValid, Attributes!RowValid
  <2>3. \A u \in unsettled : rows'[u[1]][u[2]] = rows[u[1]][u[2]]
    <3> SUFFICES ASSUME NEW u \in unsettled
                 PROVE  rows'[u[1]][u[2]] = rows[u[1]][u[2]]
      OBVIOUS
    <3>1. /\ u[1] \in DOMAIN rows /\ u[2] \in editors[k].Input
          /\ u = <<u[1], u[2]>>
      BY <1>6
    <3> QED
      BY <1>5, <2>1, <3>1
  <2>4. \A ok \in BOOLEAN : Attributes(k)!MovedNews(ok) =>
           Attributes(k)!MovedNews(ok)'
    BY <2>1, <2>3 DEF Attributes!MovedNews, Attributes!News
  <2>5. Attributes(k)!GhostNews => Attributes(k)!GhostNews'
    BY <1>1 DEF Attributes!GhostNews, Attributes!News
  <2> QED
    BY <1>0, <1>1, <2>1, <2>2, <2>4, <2>5 DEF EditorFollows
<1> QED
  BY <1>8, <1>9, <1>10 DEF GoodEditor

\* A new row has news to come.
LEMMA NewAttributeOK ==
    ASSUME NEW k, Attributes(k)!FormValidityAssumption, GoodEditor(k),
           Attributes(k)!NewAttribute
    PROVE  GoodEditor(k)'
<1>0. Attributes(k)!TypeOK /\ RowsJudged(k)
  BY DEF GoodEditor
<1> DEFINE n == Len(rows) + 1
           texts == Append(Attributes(k)!Texts, Attributes(k)!BlankRow)
<1>1. /\ Len(rows) < editors[k].MaxRows
         /\ Attributes(k)!Render(texts) /\ valid' = FALSE
      /\ Attributes(k)!Remember(unsettled, haste, eased)
      /\ UNCHANGED <<getting, content>>
  BY DEF Attributes!NewAttribute
<1>2. /\ Len(rows) \in Nat /\ DOMAIN rows = 1 .. Len(rows)
      /\ \A i \in DOMAIN rows, f \in editors[k].Input :
            rows[i][f].text \in editors[k].Text
  BY <1>0, RowsAre
<1>3. n \in 0 .. editors[k].MaxRows /\ n > Len(rows)
  BY <1>1, <1>2 DEF Attributes!FormValidityAssumption
<1>4. texts \in [1 .. n -> [editors[k].Input -> editors[k].Text]]
  <2>1. Attributes(k)!Texts \in Seq([editors[k].Input -> editors[k].Text])
        /\ Len(Attributes(k)!Texts) = Len(rows)
    <3>1. \A i \in 1 .. Len(rows) :
             Attributes(k)!Texts[i] \in [editors[k].Input -> editors[k].Text]
      BY <1>2 DEF Attributes!Texts
    <3>2. DOMAIN Attributes(k)!Texts = 1 .. Len(rows)
      BY <1>2 DEF Attributes!Texts
    <3>3. Attributes(k)!Texts =
             [i \in 1 .. Len(rows) |->
                 [f \in editors[k].Input |-> rows[i][f].text]]
      BY <1>2 DEF Attributes!Texts
    <3> QED
      BY <1>2, <3>1, <3>2, <3>3
  <2>2. Attributes(k)!BlankRow \in [editors[k].Input -> editors[k].Text]
    BY DEF Attributes!BlankRow, Attributes!FormValidityAssumption
  <2>3. texts \in Seq([editors[k].Input -> editors[k].Text]) /\ Len(texts) = n
    BY <1>2, <2>1, <2>2
  <2>4. n \in Nat
    BY <1>2
  <2> HIDE DEF n, texts
  <2>5. DOMAIN texts = 1 .. n
        /\ \A i \in 1 .. n : texts[i] \in [editors[k].Input -> editors[k].Text]
    BY <2>3, <2>4
  <2>6. texts = [i \in 1 .. n |-> texts[i]]
    BY <2>3, <2>4
  <2> QED
    BY <2>5, <2>6
<1> HIDE DEF n, texts
<1>5. /\ rows' \in Seq([editors[k].Input -> Attributes(k)!Element])
      /\ Len(rows') = n
      /\ RowsJudged(k)' /\ ghosts' \subseteq Attributes(k)!Element
      /\ timer' \in BOOLEAN /\ timer'
  <2>1. StampsRows(k, n, texts)
    BY <1>0, <1>1, <1>3, <1>4, Rendered
  <2> QED
    BY <1>3, <2>1 DEF StampsRows
<1>6. Attributes(k)!TypeOK' /\ EditorFollows(k)'
  <2>1. Len(rows') <= editors[k].MaxRows
    BY <1>3, <1>5 DEF Attributes!FormValidityAssumption
  <2>2. valid' \in BOOLEAN
    BY <1>1
  <2>3. unsettled' = {} /\ haste' = FALSE /\ eased' = FALSE
    BY <1>1, <1>5 DEF Attributes!Remember
  <2>4. Attributes(k)!TypeOK'
    BY <1>0, <1>1, <1>5, <2>1, <2>2, <2>3 DEF Attributes!TypeOK
  <2> QED
    BY <1>5, <2>4 DEF EditorFollows
<1> QED
  BY <1>5, <1>6 DEF GoodEditor

\* The row that is removed takes its judgement along.  Where that is not the
\* judgement of its element there is news to come: of the element, when a text
\* moved to it that is judged otherwise, or of the last one, that is gone.
LEMMA RemoveOK ==
    ASSUME NEW k, Attributes(k)!FormValidityAssumption, GoodEditor(k),
           NEW i \in DOMAIN rows,
           Attributes(k)!RemoveAttribute(i)
    PROVE  GoodEditor(k)'
<1>0. Attributes(k)!TypeOK /\ RowsJudged(k) /\ EditorFollows(k)
  BY DEF GoodEditor
<1> DEFINE n == Len(rows) - 1
           texts == Attributes(k)!TextsWithout(i)
           moved(j) == IF j < i THEN j ELSE j + 1
           still == {u \in (DOMAIN rows') \X editors[k].Input :
                        rows'[u[1]][u[2]].timer}
<1>1. /\ Attributes(k)!Render(texts)
      /\ valid' = \A j \in DOMAIN rows \ {i} : Attributes(k)!RowValid(rows[j])
      /\ Attributes(k)!Remember(still, Attributes(k)!Flattered, FALSE)
      /\ UNCHANGED <<getting, content>>
  BY DEF Attributes!RemoveAttribute
<1>2. /\ Len(rows) \in Nat /\ DOMAIN rows = 1 .. Len(rows)
      /\ \A j \in DOMAIN rows, f \in editors[k].Input :
            /\ rows[j][f] \in Attributes(k)!Element
            /\ rows[j][f].text \in editors[k].Text
            /\ rows[j][f].timer \in BOOLEAN /\ rows[j][f].valid \in BOOLEAN
  BY <1>0, RowsAre
<1>3. n \in 0 .. editors[k].MaxRows /\ n \in Nat /\ n < Len(rows)
      /\ n + 1 = Len(rows)
  BY <1>0, <1>2 DEF Attributes!TypeOK, Attributes!FormValidityAssumption
<1>4. \A j \in 1 .. n : moved(j) \in DOMAIN rows
  BY <1>2, <1>3
<1>5. /\ texts = [j \in 1 .. n |-> Attributes(k)!Texts[moved(j)]]
      /\ \A j \in DOMAIN rows :
            Attributes(k)!Texts[j] =
               [f \in editors[k].Input |-> rows[j][f].text]
  BY DEF Attributes!TextsWithout, Attributes!Texts
<1>6. /\ texts \in [1 .. n -> [editors[k].Input -> editors[k].Text]]
      /\ \A j \in 1 .. n, f \in editors[k].Input :
            texts[j][f] = rows[moved(j)][f].text
  <2> HIDE DEF moved, n, texts
  <2>1. ASSUME NEW j \in 1 .. n
        PROVE  texts[j] = [f \in editors[k].Input |-> rows[moved(j)][f].text]
    BY <1>4, <1>5
  <2>2. ASSUME NEW j \in 1 .. n
        PROVE  texts[j] \in [editors[k].Input -> editors[k].Text]
    <3>1. moved(j) \in DOMAIN rows
      BY <1>4
    <3>2. \A f \in editors[k].Input : rows[moved(j)][f].text \in editors[k].Text
      BY <1>2, <3>1
    <3> QED
      BY ZenonT(60), <2>1, <3>2
  <2>3. \A j \in 1 .. n, f \in editors[k].Input :
           texts[j][f] = rows[moved(j)][f].text
    BY ZenonT(60), <2>1
  <2> QED
    BY <1>5, <2>2, <2>3
<1> HIDE DEF texts, still
<1>7. /\ rows' \in Seq([editors[k].Input -> Attributes(k)!Element])
      /\ Len(rows') = n
      /\ DOMAIN rows' = 1 .. n /\ RowsJudged(k)'
      /\ \A j \in DOMAIN rows, f \in editors[k].Input :
            j <= n => rows'[j][f] =
               Attributes(k)!WithText(rows[j][f], texts[j][f])
      /\ ghosts' \subseteq Attributes(k)!Element /\ ghosts \subseteq ghosts'
      /\ \A j \in DOMAIN rows, f \in editors[k].Input :
            j > n /\ rows[j][f].timer => rows[j][f] \in ghosts'
      /\ timer' \in BOOLEAN
  <2> HIDE DEF n
  <2>1. StampsRows(k, n, texts)
    BY <1>0, <1>1, <1>3, <1>6, Rendered
  <2> QED
    BY <2>1 DEF StampsRows
<1>8. /\ unsettled' \subseteq still
      /\ haste' \in BOOLEAN /\ eased' \in BOOLEAN
      /\ ~timer' /\ ~haste' => ~Attributes(k)!Flattered /\ unsettled' = still
  <2>1. Attributes(k)!Flattered \in BOOLEAN
    BY DEF Attributes!Flattered
  <2> QED
    BY <1>1, <2>1, Remembered
<1>9. Attributes(k)!TypeOK'
  <2>1. unsettled' \subseteq (DOMAIN rows') \X editors[k].Input
    BY <1>8 DEF still
  <2>2. valid' \in BOOLEAN
    BY <1>1
  <2> QED
    BY <1>0, <1>1, <1>3, <1>7, <1>8, <2>1, <2>2 DEF Attributes!TypeOK
<1>10. ASSUME NEW j \in 1 .. n, NEW f \in editors[k].Input
       PROVE  /\ rows'[j][f].valid = rows[j][f].valid
              /\ rows'[j][f].text = rows[moved(j)][f].text
              /\ Judged(k, rows'[j][f])
  <2> DEFINE e == rows[j][f]
             text == rows[moved(j)][f].text
  <2>1. j \in DOMAIN rows /\ j <= n /\ e \in Attributes(k)!Element
        /\ text \in editors[k].Text
    BY SMTT(60), <1>2, <1>3, <1>4
  <2>2. rows'[j][f] = Attributes(k)!WithText(e, text)
    BY <1>6, <1>7, <2>1
  <2>3. Judged(k, e)
    BY <1>0, <2>1 DEF RowsJudged
  <2> HIDE DEF e, text
  <2>4. /\ Attributes(k)!WithText(e, text).valid = e.valid
        /\ Attributes(k)!WithText(e, text).text = text
        /\ Judged(k, Attributes(k)!WithText(e, text))
    BY <2>1, <2>3, TextMoves
  <2> QED
    BY <2>2, <2>4 DEF e, text
<1>11. ASSUME ~timer', ~haste',
              NEW j \in 1 .. n, NEW f \in editors[k].Input,
              NEW ok \in BOOLEAN, rows[j][f].valid = ok,
              ~Attributes(k)!MovedNews(ok)'
       PROVE  rows[j][f].valid <=> rows[moved(j)][f].text \in editors[k].Filled
  <2> SUFFICES ASSUME ~(rows[j][f].valid <=>
                           rows[moved(j)][f].text \in editors[k].Filled)
               PROVE  FALSE
    OBVIOUS
  <2>1. /\ rows'[j][f].timer
        /\ rows'[j][f].valid = rows[j][f].valid
        /\ ~(rows'[j][f].valid <=> rows'[j][f].text \in editors[k].Filled)
    BY <1>10 DEF Judged
  <2>2. <<j, f>> \in unsettled'
    BY <1>7, <1>8, <1>11, <2>1 DEF still
  <2>3. Attributes(k)!MovedNews(ok)'
    BY <1>11, <2>1, <2>2 DEF Attributes!MovedNews, Attributes!News
  <2> QED
    BY <1>11, <2>3
<1>12. ASSUME ~timer', ~haste', valid', ~Attributes(k)!MovedNews(FALSE)'
       PROVE  RowsValid(k)'
  <2>1. \A j \in DOMAIN rows \ {i} : Attributes(k)!RowValid(rows[j])
    BY <1>1, <1>12
  <2>2. \A j \in DOMAIN rows, f \in editors[k].Input :
           rows[j][f].valid => rows[j][f].text \in editors[k].Filled
    BY <1>8, <1>12 DEF Attributes!Flattered
  <2>3. ASSUME NEW j \in 1 .. n, NEW f \in editors[k].Input
        PROVE  rows'[j][f].valid
    <3> SUFFICES ASSUME rows[j][f].valid = FALSE
                 PROVE  FALSE
      <4>1. j \in DOMAIN rows
        BY <1>2, <1>3
      <4>2. rows[j][f].valid \in BOOLEAN
        BY <1>2, <4>1
      <4> QED
        BY <1>10, <4>2
    <3>1. j = i
      <4>1. j \in DOMAIN rows
        BY <1>2, <1>3
      <4> QED
        BY <2>1, <4>1 DEF Attributes!RowValid
    <3>2. moved(j) = j + 1 /\ j + 1 \in DOMAIN rows \ {i}
      BY <1>2, <1>3, <3>1
    <3>3. rows[j + 1][f].text \in editors[k].Filled
      BY <2>1, <2>2, <3>2 DEF Attributes!RowValid
    <3>4. FALSE <=> rows[moved(j)][f].text \in editors[k].Filled
      BY <1>11, <1>12
    <3> QED
      BY <3>2, <3>3, <3>4
  <2> QED
    BY <1>7, <2>3 DEF RowsValid, Attributes!RowValid
<1>13. ASSUME ~timer', ~haste', RowsValid(k)',
              ~Attributes(k)!MovedNews(TRUE)', ~Attributes(k)!GhostNews'
       PROVE  valid'
  <2>1. \A j \in 1 .. n, f \in editors[k].Input : rows[j][f].valid = TRUE
    <3>1. \A j \in 1 .. n, f \in editors[k].Input : rows'[j][f].valid
      BY <1>7, <1>13 DEF RowsValid, Attributes!RowValid
    <3>2. \A j \in 1 .. n, f \in editors[k].Input :
             rows[j][f].valid \in BOOLEAN
      BY <1>2, <1>3
    <3> QED
      BY <1>10, <3>1, <3>2
  <2> SUFFICES ASSUME NEW j \in DOMAIN rows \ {i}, NEW f \in editors[k].Input
               PROVE  rows[j][f].valid
    BY <1>1 DEF Attributes!RowValid
  <2>2. CASE j <= n
    BY <1>2, <2>1, <2>2
  <2>3. CASE j = n + 1
    <3>1. n \in 1 .. n /\ moved(n) = n + 1
      <4>1. i # n + 1 /\ i \in 1 .. n + 1
        BY <1>2, <1>3, <2>3
      <4>2. i <= n /\ 1 <= n /\ ~(n < i)
        BY <1>3, <4>1
      <4> QED
        BY <1>3, <4>2
    <3>2. rows[j][f].text \in editors[k].Filled
      <4>1. rows[n][f].valid = TRUE
        BY <2>1, <3>1
      <4>2. rows[n][f].valid <=> rows[moved(n)][f].text \in editors[k].Filled
        <5>1. n \in 1 .. n /\ TRUE \in BOOLEAN
              /\ ~Attributes(k)!MovedNews(TRUE)'
          BY <1>13, <3>1
        <5> QED
          BY <1>11, <1>13, <4>1, <5>1
      <4> QED
        BY <2>3, <3>1, <4>1, <4>2
    <3>3. j > n /\ Judged(k, rows[j][f])
      BY <1>0, <1>3, <2>3 DEF RowsJudged
    <3>4. ~Attributes(k)!News(rows[j][f])
      <4>1. rows[j][f].timer => rows[j][f] \in ghosts'
        BY <1>7, <3>3
      <4> QED
        BY <1>13, <4>1 DEF Attributes!GhostNews, Attributes!News
    <3> QED
      BY <3>2, <3>3, <3>4 DEF Attributes!News, Judged
  <2> QED
    BY <1>2, <1>3, <2>2, <2>3
<1>14. EditorFollows(k)'
  BY <1>12, <1>13 DEF EditorFollows
<1> QED
  BY <1>7, <1>9, <1>14 DEF GoodEditor

\* An element that judges is an element.
LEMMA FieldsSet ==
    ASSUME NEW k, NEW e \in Attributes(k)!Element, NEW ok \in BOOLEAN
    PROVE  LET new == [e EXCEPT !.valid = ok, !.timer = FALSE]
           IN  /\ new \in Attributes(k)!Element /\ new.text = e.text
               /\ new.valid = ok /\ new.timer = FALSE
BY DEF Attributes!Element

\* ... so it is judged rightly then.
LEMMA JudgesNow ==
    ASSUME NEW k, NEW e \in Attributes(k)!Element, NEW ok \in BOOLEAN,
           ok <=> e.text \in editors[k].Filled
    PROVE  LET new == [e EXCEPT !.valid = ok, !.timer = FALSE]
           IN  /\ new \in Attributes(k)!Element /\ Judged(k, new)
               /\ ~new.timer /\ (new.valid <=> ok)
BY FieldsSet DEF Judged

\* An input that judges anew either changes nothing or starts the editor.
LEMMA SetValidOK ==
    ASSUME NEW k, Attributes(k)!FormValidityAssumption, GoodEditor(k),
           NEW i \in DOMAIN rows, NEW f \in editors[k].Input,
              Attributes(k)!SetValidProperty(i, f)
    PROVE  GoodEditor(k)'
<1>0. Attributes(k)!TypeOK /\ RowsJudged(k) /\ EditorFollows(k)
  BY DEF GoodEditor
<1> DEFINE ok == rows[i][f].text \in editors[k].Filled
           new == [rows[i][f] EXCEPT !.valid = ok, !.timer = FALSE]
<1>1. /\ rows[i][f].timer
      /\ rows' = [rows EXCEPT ![i][f].valid = ok, ![i][f].timer = FALSE]
      /\ timer' = (timer \/ ok # rows[i][f].valid)
      /\ Attributes(k)!Remember(unsettled \ {<<i, f>>}, haste, eased)
      /\ UNCHANGED <<ghosts, valid, getting, content>>
  BY DEF Attributes!SetValidProperty
<1>2. /\ Len(rows) \in Nat /\ DOMAIN rows = 1 .. Len(rows)
      /\ \A a \in DOMAIN rows :
            rows[a] \in [editors[k].Input -> Attributes(k)!Element]
      /\ \A a \in DOMAIN rows, g \in editors[k].Input :
            /\ rows[a][g] \in Attributes(k)!Element
            /\ rows[a][g].timer \in BOOLEAN /\ rows[a][g].valid \in BOOLEAN
  BY <1>0, RowsAre
<1>3. /\ rows' = [rows EXCEPT ![i] = [rows[i] EXCEPT ![f] = new]]
      /\ new \in Attributes(k)!Element /\ Judged(k, new) /\ ~new.timer
         /\ (new.valid <=> ok)
  <2>1. rows' = [rows EXCEPT ![i] = [rows[i] EXCEPT ![f] = new]]
    BY <1>1, <1>2
  <2>2. ok \in BOOLEAN /\ (ok <=> rows[i][f].text \in editors[k].Filled)
    OBVIOUS
  <2> QED
    <3> HIDE DEF ok
    <3> QED
      BY <1>2, <2>1, <2>2, JudgesNow
<1> HIDE DEF new
<1>4. /\ rows' \in Seq([editors[k].Input -> Attributes(k)!Element])
      /\ Len(rows') = Len(rows)
      /\ DOMAIN rows' = DOMAIN rows
      /\ rows'[i][f] = new
      /\ \A a \in DOMAIN rows, g \in editors[k].Input :
            a # i \/ g # f => rows'[a][g] = rows[a][g]
  BY <1>0, <1>2, <1>3 DEF Attributes!TypeOK
<1>5. /\ unsettled \subseteq (DOMAIN rows) \X editors[k].Input
      /\ haste \in BOOLEAN /\ eased \in BOOLEAN /\ timer' \in BOOLEAN
  BY <1>0, <1>1 DEF Attributes!TypeOK
<1>6. /\ unsettled' \subseteq unsettled \ {<<i, f>>}
      /\ haste' \in BOOLEAN /\ eased' \in BOOLEAN
      /\ ~timer' /\ ~haste' =>
            /\ ~haste /\ eased' = eased
            /\ unsettled' = unsettled \ {<<i, f>>}
  BY <1>1, <1>5, Remembered
<1>7. Attributes(k)!TypeOK'
  BY <1>0, <1>1, <1>4, <1>5, <1>6 DEF Attributes!TypeOK
<1>8. RowsJudged(k)'
  <2>1. ASSUME NEW a \in DOMAIN rows, NEW g \in editors[k].Input
        PROVE  Judged(k, rows'[a][g])
    BY SMTT(60), <1>0, <1>3, <1>4 DEF RowsJudged
  <2> QED
    BY <1>4, <2>1 DEF RowsJudged, Judged
<1>9. EditorFollows(k)'
  <2> SUFFICES ASSUME ~timer', ~haste'
               PROVE  EditorFollows(k)'
    BY DEF EditorFollows
  <2>1. ~timer /\ (ok <=> rows[i][f].valid)
    BY <1>0, <1>1, <1>2 DEF Attributes!TypeOK
  <2>2. ~haste /\ eased' = eased /\ unsettled' = unsettled \ {<<i, f>>}
    BY <1>6
  <2>3. ASSUME NEW u \in unsettled, Attributes(k)!News(rows[u[1]][u[2]])
        PROVE  u \in unsettled' /\ rows'[u[1]][u[2]] = rows[u[1]][u[2]]
    <3>1. /\ u[1] \in DOMAIN rows /\ u[2] \in editors[k].Input
          /\ u = <<u[1], u[2]>>
      BY <1>5
    <3>2. u[1] # i \/ u[2] # f
      BY <2>1, <2>3 DEF Attributes!News
    <3> QED
      BY <1>4, <2>2, <3>1, <3>2
  <2>4. ASSUME NEW x \in BOOLEAN, Attributes(k)!MovedNews(x)
        PROVE  Attributes(k)!MovedNews(x)'
    BY <2>3, <2>4 DEF Attributes!MovedNews, Attributes!News
  <2>5. Attributes(k)!GhostNews => Attributes(k)!GhostNews'
    BY <1>1 DEF Attributes!GhostNews, Attributes!News
  <2>6. \A a \in DOMAIN rows, g \in editors[k].Input : rows'[a][g].valid <=>
           rows[a][g].valid
    BY <1>3, <1>4, <2>1
  <2>7. RowsValid(k)' <=> RowsValid(k)
    BY ZenonT(60), <1>4, <2>6 DEF RowsValid, Attributes!RowValid
  <2> QED
    BY <1>0, <1>1, <2>1, <2>2, <2>4, <2>5, <2>7 DEF EditorFollows
<1> QED
  BY <1>7, <1>8, <1>9 DEF GoodEditor

\* So does one that is gone.
LEMMA GhostOK ==
    ASSUME NEW k, GoodEditor(k), NEW g \in ghosts,
           Attributes(k)!GhostSetsValidProperty(g)
    PROVE  GoodEditor(k)'
<1>0. Attributes(k)!TypeOK /\ RowsJudged(k) /\ EditorFollows(k)
  BY DEF GoodEditor
<1>1. /\ ghosts' = ghosts \ {g}
      /\ timer' = (timer \/ (g.text \in editors[k].Filled) # g.valid)
      /\ Attributes(k)!Remember(unsettled, haste, eased)
      /\ UNCHANGED <<rows, valid, getting, content>>
  BY DEF Attributes!GhostSetsValidProperty
<1>2. /\ unsettled' \subseteq unsettled
      /\ haste' \in BOOLEAN /\ eased' \in BOOLEAN
      /\ ~timer' /\ ~haste' =>
            ~haste /\ unsettled' = unsettled /\ eased' = eased
  <2>1. haste \in BOOLEAN /\ eased \in BOOLEAN
    BY <1>0 DEF Attributes!TypeOK
  <2> QED
    BY <1>1, <2>1, Remembered
<1>3. Attributes(k)!TypeOK' /\ RowsJudged(k)'
  BY <1>0, <1>1, <1>2 DEF Attributes!TypeOK, RowsJudged, Judged
<1>4. EditorFollows(k)'
  <2> SUFFICES ASSUME ~timer', ~haste'
               PROVE  EditorFollows(k)'
    BY DEF EditorFollows
  <2>1. g \in Attributes(k)!Element /\ g.valid \in BOOLEAN
    BY <1>0 DEF Attributes!TypeOK, Attributes!Element
  <2>2. ~timer /\ ~Attributes(k)!News(g)
    BY <1>0, <1>1, <2>1 DEF Attributes!TypeOK, Attributes!News
  <2>3. Attributes(k)!GhostNews => Attributes(k)!GhostNews'
    BY <1>1, <2>2 DEF Attributes!GhostNews, Attributes!News
  <2>4. ASSUME NEW x \in BOOLEAN, Attributes(k)!MovedNews(x)
        PROVE  Attributes(k)!MovedNews(x)'
    BY <1>1, <1>2, <2>4 DEF Attributes!MovedNews, Attributes!News
  <2>5. RowsValid(k)' <=> RowsValid(k)
    BY <1>1 DEF RowsValid, Attributes!RowValid
  <2> QED
    <3>1. ~timer /\ ~haste /\ valid' = valid /\ eased' = eased
      BY <1>1, <1>2, <2>2
    <3>2. /\ Attributes(k)!MovedNews(FALSE) => Attributes(k)!MovedNews(FALSE)'
          /\ Attributes(k)!MovedNews(TRUE) => Attributes(k)!MovedNews(TRUE)'
      BY <2>4
    <3> QED
      BY <1>0, <2>3, <2>5, <3>1, <3>2 DEF EditorFollows
<1> QED
  BY <1>3, <1>4 DEF GoodEditor

\* The editor that judges has its rows right.
LEMMA JudgesRows ==
    ASSUME NEW k, GoodEditor(k), Attributes(k)!OnValidChanged
    PROVE  GoodEditor(k)'
<1>1. /\ timer' = FALSE
      /\ valid' = \A i \in DOMAIN rows : Attributes(k)!RowValid(rows[i])
      /\ Attributes(k)!Remember({}, FALSE, FALSE)
      /\ UNCHANGED <<rows, ghosts, getting, content>>
  BY DEF Attributes!OnValidChanged
<1>2. unsettled' = {} /\ haste' \in BOOLEAN /\ eased' \in BOOLEAN
  BY <1>1 DEF Attributes!Remember
<1>3. Attributes(k)!TypeOK' /\ RowsJudged(k)'
  BY <1>1, <1>2 DEF GoodEditor, Attributes!TypeOK, RowsJudged, Judged
<1>4. EditorFollows(k)'
  BY <1>1 DEF EditorFollows, RowsValid, Attributes!RowValid
<1> QED
  BY <1>3, <1>4 DEF GoodEditor

\* The parts stay through every step.
LEMMA EditorStep ==
    ASSUME NEW k, Attributes(k)!FormValidityAssumption, GoodEditor(k),
           [Attributes(k)!Next]_attributesVars
    PROVE  GoodEditor(k)'
<1>0. getting \in BOOLEAN /\ content \in BOOLEAN
  BY DEF GoodEditor, Attributes!TypeOK
<1>1. ASSUME NEW target \in BOOLEAN, Attributes(k)!QueryParamsChanged(target)
      PROVE  GoodEditor(k)'
  BY <1>0, <1>1, PageKeeps DEF Attributes!QueryParamsChanged
<1>2. CASE Attributes(k)!GetError
  BY <1>2, PageKeeps DEF Attributes!GetError
<1>3. CASE UNCHANGED attributesVars
  BY <1>0, <1>3, PageKeeps DEF attributesVars
<1> QED
  BY <1>1, <1>2, <1>3, LoadOK, TypeKeeps, SetValidOK, NewAttributeOK,
     RemoveOK, GhostOK, JudgesRows
     DEF Attributes!Next

\* What the editor promises follows.
LEMMA EditorRight ==
    ASSUME NEW k, GoodEditor(k)
    PROVE  Attributes(k)!IInv /\ Attributes(k)!CalmIsExact
<1>1. Attributes(k)!IInv
  BY EditorParts
<1>2. Attributes(k)!CalmIsExact
  <2> SUFFICES ASSUME Attributes(k)!Calm, ~haste
               PROVE  /\ valid => Attributes(k)!AllFilled
                      /\ Attributes(k)!AllFilled => valid \/ eased
    BY DEF Attributes!CalmIsExact
  <2>1. ~Attributes(k)!GhostNews /\ ~timer
    BY DEF Attributes!Calm, Attributes!GhostNews
  <2>2. ASSUME NEW x \in BOOLEAN
        PROVE  ~Attributes(k)!MovedNews(x)
    <3>1. \A u \in unsettled :
             u[1] \in DOMAIN rows /\ u[2] \in editors[k].Input
      BY DEF GoodEditor, Attributes!TypeOK
    <3> QED
      BY <3>1 DEF Attributes!MovedNews, Attributes!News, Attributes!Calm
  <2>3. (valid => RowsValid(k)) /\ (RowsValid(k) => valid \/ eased)
    BY <2>1, <2>2 DEF GoodEditor, EditorFollows
  <2>4. \A i \in DOMAIN rows, f \in editors[k].Input :
           rows[i][f].valid <=> rows[i][f].text \in editors[k].Filled
    BY DEF GoodEditor, RowsJudged, Judged, Attributes!Calm
  <2>5. RowsValid(k) <=> Attributes(k)!AllFilled
    BY <2>4 DEF RowsValid, Attributes!AllFilled, Attributes!RowValid
  <2> QED
    BY <2>3, <2>5
<1> QED
  BY <1>1, <1>2
=============================================================================
