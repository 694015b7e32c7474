------------------------- MODULE ProposalReviewProofs -------------------------
(***************************************************************************)
(* Proofs about ProposalReview, for any proposals, documents, users and    *)
(* any number of concurrent PATCHes.                                       *)
(***************************************************************************)
EXTENDS ProposalReview, WellFoundedInduction, TLAPS

\* A sequence without one of its elements is a sequence over the same set.
LEMMA RemoveAtType ==
  ASSUME NEW S, NEW s \in Seq(S), NEW i \in 1 .. Len(s)
  PROVE  RemoveAt(s, i) \in Seq(S)
BY DEF RemoveAt

\* A set of naturals that is not empty has a minimum.
LEMMA MinElement ==
  ASSUME NEW S \in SUBSET Nat, S # {}
  PROVE  Min(S) \in S
<1> DEFINE Less == {ss \in Nat \X Nat : ss[1] < ss[2]}
<1>1. IsWellFoundedOn(Less, Nat)
  BY NatLessThanWellFounded, Zenon DEF OpToRel
<1> HIDE DEF Less
<1>2. PICK m \in S : \A k \in S : ~(<<k, m>> \in Less)
  BY <1>1, WFMin
<1>3. ASSUME NEW k \in S
      PROVE  m <= k
  <2>1. <<k, m>> \in Nat \X Nat
    OBVIOUS
  <2>2. ~(k < m)
    BY <1>2, <2>1 DEF Less
  <2> QED
    BY <2>2
<1> QED
  BY <1>3 DEF Min

\* The list that publish_proposal puts together is a list of authors.
LEMMA FirstOnListType ==
  ASSUME NEW a \in Author, NEW list \in Seq(Author)
  PROVE  FirstOnList(a, list) \in Seq(Author)
<1> DEFINE same == {i \in 1 .. Len(list) : list[i].id = a.id}
<1>1. CASE same = {}
  BY <1>1 DEF FirstOnList
<1>2. CASE same # {}
  <2>1. Min(same) \in 1 .. Len(list)
    BY <1>2, MinElement, same \in SUBSET Nat
  <2>2. RemoveAt(list, Min(same)) \in Seq(Author)
    BY <2>1, RemoveAtType
  <2> QED
    BY <1>2, <2>2 DEF FirstOnList
<1> QED
  BY <1>1, <1>2

\* get_latest_authors answers with a list of authors.
LEMMA LatestAuthorsType ==
  ASSUME TypeOK, NEW t \in Target, NEW list \in LatestAuthors(t)
  PROVE  list \in Seq(Author)
<1> DEFINE approved == {p \in Proposal : TargetOf[p] = t
                                         /\ status[p] = "approved"}
           distinct == {AuthorOf[p] : p \in approved}
<1>1. PICK n \in 0 .. MaxAuthors : list \in [1 .. n -> distinct]
  BY DEF LatestAuthors
<1>2. n \in Nat /\ distinct \subseteq Author
  BY ReviewAssumption
<1> QED
  BY <1>1, <1>2

-----------------------------------------------------------------------------
(* The inductive invariant.                                                *)

USE ReviewAssumption
USE DEF Verdict, Open, Stored, Admitted, store, vars

\* The initial states satisfy the inductive invariant.
LEMMA InvInit == Init => IInv
BY DEF Init, IInv, TypeOK, HandlerOnCourse, ApprovedWasPublished, OneCloses,
       Entitled, ParentsStay

\* Every step keeps the types.  (That a handler whose write is on its way has
\* received a request is part of HandlerOnCourse.)
LEMMA TypeNext == TypeOK /\ HandlerOnCourse /\ [Next]_vars => TypeOK'
<1> SUFFICES ASSUME TypeOK, HandlerOnCourse, [Next]_vars
             PROVE  TypeOK'
  OBVIOUS
<1>1. ASSUME NEW p \in Proposal, Submit(p)
      PROVE  TypeOK'
  BY <1>1 DEF Submit, CheckParent, StoreProposal, TypeOK
<1>2. ASSUME NEW r \in Review, Receive(r)
      PROVE  TypeOK'
  <2>1. PICK a \in Ask : ask' = [ask EXCEPT ![r] = a]
    BY <1>2 DEF Receive
  <2>2. /\ ask' \in [Review -> Ask \union {Nothing}]
        /\ \A q \in Review : pc'[q] # "idle" => ask'[q] \in Ask
    BY <1>2, <2>1 DEF Receive, TypeOK
  <2>3. /\ pc' \in [Review -> {"idle", "ok", "error"} \union Open]
        /\ earlier' \in [Review -> SUBSET Review]
    BY <1>2 DEF Receive, TypeOK
  <2> QED
    BY <1>2, <2>2, <2>3 DEF Receive, TypeOK
<1>3. ASSUME NEW r \in Review, GetProposal(r)
      PROVE  TypeOK'
  BY ZenonT(60), <1>3 DEF GetProposal, TypeOK
<1>4. ASSUME NEW r \in Review, GetAuthors(r)
      PROVE  TypeOK'
  <2> DEFINE p == ask[r].proposal
  <2>1. p \in Proposal /\ TargetOf[p] \in Target /\ AuthorOf[p] \in Author
    <3>1. ask[r] \in Ask
      BY <1>4 DEF GetAuthors, TypeOK
    <3> QED
      BY <3>1
  <2>2. PICK list \in LatestAuthors(TargetOf[p]) :
           draft' = [draft EXCEPT ![r] = FirstOnList(AuthorOf[p], list)]
    BY <1>4 DEF GetAuthors
  <2>3. FirstOnList(AuthorOf[p], list) \in Seq(Author)
    BY <2>1, LatestAuthorsType, FirstOnListType
  <2>4. draft' \in [Review -> Seq(Author)]
    BY <2>2, <2>3 DEF TypeOK
  <2> QED
    BY <1>4, <2>4 DEF GetAuthors, TypeOK
<1>5. ASSUME NEW r \in Review, Published(r) \/ NamesUpdated(r)
      PROVE  TypeOK'
  BY <1>5 DEF Published, NamesUpdated, TypeOK
<1>6. ASSUME NEW r \in Review, Closed(r) \/ Fail(r)
      PROVE  TypeOK'
  BY <1>6 DEF Closed, Fail, TypeOK
<1>7. ASSUME NEW r \in Review, Store(r)
      PROVE  TypeOK'
  <2>1. ask[r] \in Ask
    BY <1>7 DEF Store, StorePublishes, StoreCloses, StoreFindsNoRow,
                HandlerOnCourse, TypeOK
  <2>2. ask[r].proposal \in Proposal /\ ask[r].status \in Verdict
    BY <2>1
  <2>3. CASE StorePublishes(r)
    BY <2>2, <2>3 DEF StorePublishes, TypeOK
  <2>4. CASE StoreCloses(r)
    <3>1. second' \in Nat
      <4>1. second \in Nat
        BY DEF TypeOK
      <4>2. second' = second \/ second' = second + 1
        BY <2>4 DEF StoreCloses
      <4> QED
        BY <4>1, <4>2
    <3>2. closed' \in [Proposal -> Nat]
      BY <2>4, <3>1 DEF StoreCloses, TypeOK
    <3>3. status' \in [Proposal -> {"absent", "checked", "pending"}
                                      \union Verdict]
      BY <2>2, <2>4 DEF StoreCloses, TypeOK
    <3> QED
      BY <2>4, <3>1, <3>2, <3>3 DEF StoreCloses, TypeOK
  <2>5. CASE StoreFindsNoRow(r)
    BY <2>5 DEF StoreFindsNoRow, TypeOK
  <2> QED
    BY <1>7, <2>3, <2>4, <2>5 DEF Store
<1>8. CASE Done \/ UNCHANGED vars
  BY <1>8 DEF Done, TypeOK
<1> QED
  BY <1>1, <1>2, <1>3, <1>4, <1>5, <1>6, <1>7, <1>8 DEF Next, Handler

\* A request that was received is never forgotten.
LEMMA RequestStays ==
  ASSUME TypeOK, [Next]_vars, NEW r \in Review, pc[r] # "idle"
  PROVE  pc'[r] # "idle" /\ ask'[r] = ask[r]
<1>1. ASSUME NEW q \in Review, Receive(q)
      PROVE  pc'[r] # "idle" /\ ask'[r] = ask[r]
  <2>1. q # r
    BY <1>1 DEF Receive
  <2> QED
    BY <1>1, <2>1 DEF Receive, TypeOK
<1>2. ASSUME NEW q \in Review, Handler(q)
      PROVE  pc'[r] # "idle" /\ ask'[r] = ask[r]
  BY ZenonT(60), <1>2
     DEF Handler, GetProposal, GetAuthors, Published, NamesUpdated,
              Closed, Fail, TypeOK
<1>3. ASSUME NEW q \in Review, Store(q)
      PROVE  pc'[r] # "idle" /\ ask'[r] = ask[r]
  BY <1>3 DEF Store, StorePublishes, StoreCloses, StoreFindsNoRow
<1>4. ASSUME NEW p \in Proposal, Submit(p)
      PROVE  pc'[r] # "idle" /\ ask'[r] = ask[r]
  BY <1>4 DEF Submit, CheckParent, StoreProposal
<1>5. CASE Done \/ UNCHANGED vars
  BY <1>5 DEF Done
<1> QED
  BY <1>1, <1>2, <1>3, <1>4, <1>5 DEF Next

\* So what was asked stays asked.
LEMMA AskedStays ==
  ASSUME TypeOK, [Next]_vars, NEW p, NEW v, NEW people, Asked(p, v, people)
  PROVE  Asked(p, v, people)'
BY RequestStays DEF Asked

\* A document that was published stays so.
LEMMA StaysPublished ==
  ASSUME TypeOK, HandlerOnCourse, [Next]_vars,
         NEW t \in Target, published[t] # Nothing
  PROVE  published'[t] # Nothing
<1>1. ASSUME NEW r \in Review, StorePublishes(r)
      PROVE  published'[t] # Nothing
  <2>1. ask[r] \in Ask
    BY <1>1 DEF StorePublishes, HandlerOnCourse, TypeOK
  <2>2. ask[r].proposal # Nothing
    BY <2>1
  <2> QED
    BY <1>1, <2>2 DEF StorePublishes, TypeOK
<1>2. CASE UNCHANGED published
  BY <1>2
<1> QED
  BY <1>1, <1>2
     DEF Next, Submit, CheckParent, StoreProposal, Receive, Handler,
         GetProposal, GetAuthors, Published, NamesUpdated, Closed, Fail, Store,
         StoreCloses, StoreFindsNoRow, Done

\* A stored proposal stays stored.
LEMMA StaysStored ==
  ASSUME TypeOK, HandlerOnCourse, [Next]_vars, NEW p \in Proposal, Stored(p)
  PROVE  Stored(p)'
<1>1. ASSUME NEW r \in Review, StoreCloses(r)
      PROVE  Stored(p)'
  <2>1. ask[r] \in Ask
    BY <1>1 DEF StoreCloses, HandlerOnCourse, TypeOK
  <2>2. ask[r].status \in Verdict
    BY <2>1
  <2> QED
    BY <1>1, <2>2 DEF StoreCloses, TypeOK
<1>2. ASSUME NEW q \in Proposal, Submit(q)
      PROVE  Stored(p)'
  BY <1>2 DEF Submit, CheckParent, StoreProposal, TypeOK
<1>3. CASE UNCHANGED status
  BY <1>3
<1> QED
  BY <1>1, <1>2, <1>3
     DEF Next, Receive, Handler, GetProposal, GetAuthors, Published,
         NamesUpdated, Closed, Fail, Store, StorePublishes, StoreFindsNoRow,
         Done

\* What HandlerOnCourse says of one PATCH.
OnCourse(r) ==
    LET a == ask[r]
        approving == a.status = "approved"
    IN  /\ pc[r] \in {"idle", "get", "authors"} => write[r] = "none"
        /\ pc[r] \in (Open \ {"get"}) \union {"ok"} \/ write[r] # "none"
              => Admitted(r)
        /\ pc[r] \in {"authors", "publish", "names"} => approving
        /\ write[r] \in {"publish", "published"} => approving
        /\ pc[r] = "names" => write[r] = "published"
        /\ write[r] \in {"published", "close", "closed"} /\ approving
              => a.proposal \in past
        /\ write[r] = "closed" => status[a.proposal] = a.status
        /\ pc[r] = "ok" => write[r] = "closed"

\* A step that is not of this PATCH leaves it on its course: what it relies on,
\* that its proposal is stored, published and closed with a verdict, stays so.
LEMMA OthersStayOnCourse ==
  ASSUME IInv, [Next]_vars, NEW r \in Review,
         pc'[r] = pc[r], write'[r] = write[r], ask'[r] = ask[r]
  PROVE  OnCourse(r)'
<1>1. OnCourse(r)
  BY DEF IInv, HandlerOnCourse, OnCourse
<1>2. pc[r] # "idle" => ask[r] \in Ask
  BY DEF IInv, TypeOK
<1>3. Admitted(r) => Admitted(r)'
  BY SMTT(60), <1>2, StaysStored DEF IInv, Authorized
<1>4. past \subseteq past'
  BY DEF Next, Submit, CheckParent, StoreProposal, Receive, Handler,
         GetProposal, GetAuthors, Published, NamesUpdated, Closed, Fail, Store,
         StorePublishes, StoreCloses, StoreFindsNoRow, Done
<1>5. write[r] = "closed" => status'[ask[r].proposal] = ask[r].status
  <2> SUFFICES ASSUME write[r] = "closed"
               PROVE  status'[ask[r].proposal] = ask[r].status
    OBVIOUS
  <2>1. /\ ask[r] \in Ask
        /\ status[ask[r].proposal] = ask[r].status
    BY <1>1, <1>2 DEF OnCourse
  <2>2. ask[r].proposal \in Proposal /\ ask[r].status \in Verdict
    BY <2>1
  <2> QED
    BY ZenonT(60), <2>1, <2>2
       DEF IInv, TypeOK, Next, Submit, CheckParent, StoreProposal, Receive,
           Handler, GetProposal, GetAuthors, Published, NamesUpdated, Closed,
           Fail, Store, StorePublishes, StoreCloses, StoreFindsNoRow, Done
<1> QED
  BY <1>1, <1>3, <1>4, <1>5 DEF OnCourse

\* A step of a PATCH keeps it on its course, and leaves the others alone.
LEMMA CourseNext == IInv /\ [Next]_vars => HandlerOnCourse'
<1> SUFFICES ASSUME IInv, [Next]_vars, NEW q \in Review
             PROVE  OnCourse(q)'
  BY DEF HandlerOnCourse, OnCourse
<1>1. OnCourse(q) /\ (pc[q] # "idle" => ask[q] \in Ask)
  BY DEF IInv, TypeOK, HandlerOnCourse, OnCourse
<1>2. Admitted(q) => Admitted(q)'
  BY <1>1, RequestStays, StaysStored DEF IInv, Authorized
<1>3. ASSUME NEW r \in Review, Receive(r), q = r
      PROVE  OnCourse(q)'
  BY <1>1, <1>3 DEF Receive, OnCourse, IInv, TypeOK
<1>4. ASSUME NEW r \in Review, GetProposal(r), q = r
      PROVE  OnCourse(q)'
  <2>1. Admitted(q)
    BY <1>4 DEF GetProposal
  <2> QED
    BY ZenonT(60), <1>1, <1>2, <1>4, <2>1
       DEF GetProposal, OnCourse, IInv, TypeOK
<1>5. ASSUME NEW r \in Review, GetAuthors(r), q = r
      PROVE  OnCourse(q)'
  BY <1>1, <1>2, <1>5 DEF GetAuthors, OnCourse, IInv, TypeOK
<1>6. ASSUME NEW r \in Review, Published(r), q = r
      PROVE  OnCourse(q)'
  BY <1>1, <1>2, <1>6 DEF Published, OnCourse, IInv, TypeOK
<1>7. ASSUME NEW r \in Review, NamesUpdated(r), q = r
      PROVE  OnCourse(q)'
  BY <1>1, <1>2, <1>7 DEF NamesUpdated, OnCourse, IInv, TypeOK
<1>8. ASSUME NEW r \in Review, Closed(r) \/ Fail(r), q = r
      PROVE  OnCourse(q)'
  BY ZenonT(60), <1>1, <1>2, <1>8 DEF Closed, Fail, OnCourse, IInv, TypeOK
<1>9. ASSUME NEW r \in Review, StorePublishes(r), q = r
      PROVE  OnCourse(q)'
  BY <1>1, <1>2, <1>9 DEF StorePublishes, OnCourse, IInv, TypeOK
<1>10. ASSUME NEW r \in Review, StoreCloses(r), q = r
       PROVE  OnCourse(q)'
  <2>1. Admitted(q) /\ ask[q].proposal \in Proposal
    BY <1>1, <1>10 DEF StoreCloses, OnCourse
  <2>2. status'[ask[q].proposal] = ask[q].status
    BY <1>10, <2>1 DEF StoreCloses, IInv, TypeOK
  <2> QED
    BY <1>1, <1>2, <1>10, <2>1, <2>2 DEF StoreCloses, OnCourse, IInv, TypeOK
<1>11. ASSUME NEW r \in Review, StoreFindsNoRow(r), q = r
       PROVE  OnCourse(q)'
  BY <1>1, <1>2, <1>11 DEF StoreFindsNoRow, OnCourse, IInv, TypeOK
<1>12. ASSUME NEW r \in Review, Receive(r) \/ Handler(r) \/ Store(r), q # r
       PROVE  OnCourse(q)'
  <2>1. pc'[q] = pc[q] /\ write'[q] = write[q] /\ ask'[q] = ask[q]
    BY ZenonT(60), <1>12
       DEF Receive, Handler, GetProposal, GetAuthors, Published, NamesUpdated,
           Closed, Fail, Store, StorePublishes, StoreCloses, StoreFindsNoRow,
           IInv, TypeOK
  <2> QED
    BY <2>1, OthersStayOnCourse
<1>13. ASSUME NEW p \in Proposal, Submit(p)
       PROVE  OnCourse(q)'
  <2>1. pc'[q] = pc[q] /\ write'[q] = write[q] /\ ask'[q] = ask[q]
    BY <1>13 DEF Submit, CheckParent, StoreProposal
  <2> QED
    BY <2>1, OthersStayOnCourse
<1>14. CASE Done \/ UNCHANGED vars
  <2>1. pc'[q] = pc[q] /\ write'[q] = write[q] /\ ask'[q] = ask[q]
    BY <1>14 DEF Done
  <2> QED
    BY <2>1, OthersStayOnCourse
<1> QED
  BY <1>3, <1>4, <1>5, <1>6, <1>7, <1>8, <1>9, <1>10, <1>11, <1>12, <1>13,
     <1>14
     DEF Next, Handler, Store
\* Only the store's own steps can disturb the rest of the invariant.
LEMMA RestNext ==
  IInv /\ [Next]_vars
     => ApprovedWasPublished' /\ OneCloses' /\ Entitled' /\ ParentsStay'
<1> SUFFICES ASSUME IInv, [Next]_vars
             PROVE  /\ ApprovedWasPublished' /\ OneCloses'
                    /\ Entitled' /\ ParentsStay'
  OBVIOUS
<1> DEFINE Rest == /\ ApprovedWasPublished' /\ OneCloses'
                   /\ Entitled' /\ ParentsStay'
<1>1. ASSUME NEW r \in Review, Receive(r) \/ Handler(r)
      PROVE  Rest
  <2>1. UNCHANGED store
    BY <1>1 DEF Receive, Handler, GetProposal, GetAuthors, Published,
                NamesUpdated, Closed, Fail
  <2>2. \A q \in Review : write'[q] = "closed" =>
           write[q] = "closed" /\ ask'[q] = ask[q]
    <3>1. CASE Receive(r)
      BY <3>1 DEF Receive, IInv, TypeOK, HandlerOnCourse
    <3>2. CASE Handler(r)
      BY ZenonT(60), <3>2
         DEF Handler, GetProposal, GetAuthors, Published, NamesUpdated,
                  Closed, Fail, IInv, TypeOK
    <3> QED
      BY <1>1, <3>1, <3>2
  <2>3. OneCloses'
    BY <2>2 DEF IInv, OneCloses
  <2>4. Entitled'
    BY <2>1, AskedStays DEF IInv, Entitled
  <2> QED
    BY <2>1, <2>3, <2>4 DEF IInv, ApprovedWasPublished, ParentsStay
<1>2. ASSUME NEW r \in Review, StorePublishes(r)
      PROVE  Rest
  <2> DEFINE p == ask[r].proposal
  <2>1. /\ Admitted(r)
        /\ ask[r] \in Ask
        /\ ask[r].status = "approved"
    BY <1>2 DEF StorePublishes, IInv, TypeOK, HandlerOnCourse
  <2>2. Asked(p, "approved", Admin)
    BY <2>1 DEF Asked, Authorized
  <2>3. p \in Proposal /\ p # Nothing
    BY <2>1
  <2>4. \A t \in Target : published'[t] = p \/ published'[t] = published[t]
    BY <1>2, <2>3 DEF StorePublishes, IInv, TypeOK
  <2>5. Entitled'
    BY <1>2, <2>2, <2>4, AskedStays DEF StorePublishes, IInv, Entitled
  <2>6. ParentsStay'
    BY <1>2, StaysPublished DEF StorePublishes, IInv, ParentsStay
  <2> QED
    BY <1>2, <2>5, <2>6
       DEF StorePublishes, IInv, TypeOK, ApprovedWasPublished, OneCloses
<1>3. ASSUME NEW r \in Review, StoreCloses(r)
      PROVE  Rest
  <2> DEFINE p == ask[r].proposal
  <2>1. Admitted(r) /\ ask[r] \in Ask
    BY <1>3 DEF StoreCloses, IInv, TypeOK, HandlerOnCourse
  <2>2. p \in Proposal /\ ask[r].status \in Verdict
    BY <2>1
  <2>3. /\ status'[p] = ask[r].status
        /\ status[p] = "pending"
        /\ \A o \in Proposal : o # p => status'[o] = status[o]
    BY <1>3, <2>2 DEF StoreCloses, IInv, TypeOK
  <2>4. ask[r].status = "approved" => p \in past
    BY <1>3 DEF StoreCloses, IInv, HandlerOnCourse
  <2>5. ApprovedWasPublished'
    BY <1>3, <2>3, <2>4 DEF StoreCloses, IInv, ApprovedWasPublished
  <2>6. OneCloses'
    <3>1. \A q \in Review : write[q] = "closed" => ask[q].proposal # p
      <4> SUFFICES ASSUME NEW q \in Review, write[q] = "closed"
                   PROVE  ask[q].proposal # p
        OBVIOUS
      <4>1. ask[q] \in Ask /\ status[ask[q].proposal] = ask[q].status
        BY DEF IInv, TypeOK, HandlerOnCourse
      <4>2. ask[q].status # "pending"
        BY <4>1
      <4> QED
        BY <2>3, <4>1, <4>2
    <3>2. \A q \in Review : write'[q] = "closed" =>
             q = r \/ write[q] = "closed"
      BY <1>3 DEF StoreCloses, IInv, TypeOK
    <3> QED
      BY <1>3, <3>1, <3>2 DEF StoreCloses, IInv, OneCloses
  <2>7. Entitled'
    <3>1. /\ ask[r].status = "cancelled" =>
                Asked(p, "cancelled", {AuthorOf[p].id})
          /\ \A v \in {"approved", "rejected"} :
                ask[r].status = v => Asked(p, v, Admin)
      BY <2>1 DEF Asked, Authorized
    <3>2. published' = published
      BY <1>3 DEF StoreCloses
    <3>3. ASSUME NEW o \in Proposal
          PROVE  /\ status'[o] = "cancelled" =>
                       Asked(o, "cancelled", {AuthorOf[o].id})'
                 /\ \A v \in {"approved", "rejected"} :
                       status'[o] = v => Asked(o, v, Admin)'
      BY <2>3, <3>1, AskedStays DEF IInv, Entitled
    <3>4. (\A t \in Target : published[t] # Nothing =>
                                Asked(published[t], "approved", Admin))'
      BY <3>2, AskedStays DEF IInv, Entitled
    <3> QED
      BY <3>2, <3>3, <3>4 DEF Entitled
  <2>8. ParentsStay'
    BY <1>3, <2>3 DEF StoreCloses, IInv, ParentsStay
  <2> QED
    BY <2>5, <2>6, <2>7, <2>8
<1>4. ASSUME NEW r \in Review, StoreFindsNoRow(r)
      PROVE  Rest
  <2>1. UNCHANGED <<store, ask>>
    BY <1>4 DEF StoreFindsNoRow
  <2>2. OneCloses'
    BY <1>4 DEF StoreFindsNoRow, IInv, TypeOK, OneCloses
  <2>3. Entitled'
    BY <2>1, AskedStays DEF IInv, Entitled
  <2> QED
    BY <2>1, <2>2, <2>3 DEF IInv, ApprovedWasPublished, ParentsStay
<1>5. ASSUME NEW p \in Proposal, Submit(p)
      PROVE  Rest
  <2>1. /\ UNCHANGED <<published, past, ask, write>>
        /\ status'[p] \in {"checked", "pending"}
        /\ \A o \in Proposal : o # p => status'[o] = status[o]
    BY <1>5 DEF Submit, CheckParent, StoreProposal, IInv, TypeOK
  <2>2. ApprovedWasPublished' /\ OneCloses'
    BY <2>1 DEF IInv, ApprovedWasPublished, OneCloses
  <2>3. Entitled'
    BY <2>1, AskedStays DEF IInv, Entitled
  <2>4. ParentsStay'
    BY <1>5, <2>1
       DEF Submit, CheckParent, StoreProposal, IInv, ParentsStay
  <2> QED
    BY <2>2, <2>3, <2>4
<1>6. CASE Done \/ UNCHANGED vars
  <2>1. UNCHANGED vars
    BY <1>6 DEF Done
  <2> QED
    BY <2>1 DEF IInv, ApprovedWasPublished, OneCloses, Entitled, Asked,
                ParentsStay
<1> QED
  BY <1>1, <1>2, <1>3, <1>4, <1>5, <1>6 DEF Next, Store
-----------------------------------------------------------------------------
(* The theorems.                                                           *)

\* In every reachable state each PATCH is on its course and what was published,
\* closed and submitted bears out what was asked (handle_patch_request).
THEOREM Invariance == Spec => []IInv
<1>1. IInv /\ [Next]_vars => IInv'
  BY TypeNext, CourseNext, RestNext DEF IInv
<1> QED
  BY InvInit, <1>1, PTL DEF Spec

\* Type correctness of the model of the review of proposals.
THEOREM TypeCorrect == Spec => []TypeOK
<1>1. IInv => TypeOK
  BY DEF IInv
<1> QED
  BY <1>1, Invariance, PTL

\* No proposal is approved whose document was never published.
THEOREM ApprovedAfterPublished == Spec => []ApprovedWasPublished
<1>1. IInv => ApprovedWasPublished
  BY DEF IInv
<1> QED
  BY <1>1, Invariance, PTL

\* Of any number of PATCHes racing to close a proposal at most one is told
\* "ok", and the verdict is the one it asked for.
THEOREM OneReviewer == Spec => []OneReviewerWins
<1>1. IInv => OneReviewerWins
  BY DEF IInv, HandlerOnCourse, OneCloses, OneReviewerWins
<1> QED
  BY <1>1, Invariance, PTL

\* Every verdict was asked for by someone who may give it, and every published
\* document by an admin (authorize_proposal_close).
THEOREM Entitlement == Spec => []Entitled
<1>1. IInv => Entitled
  BY DEF IInv
<1> QED
  BY <1>1, Invariance, PTL

\* The parent of every stored proposal is published.
THEOREM ParentsArePublished == Spec => []ParentsPublished
<1>1. IInv => ParentsPublished
  BY DEF IInv, ParentsStay, ParentsPublished
<1> QED
  BY <1>1, Invariance, PTL

\* A verdict and the time it was given never change.
THEOREM Finality == Spec => VerdictFinal
<1> DEFINE Kept == \A p \in Proposal : status[p] \in Verdict =>
                      status'[p] = status[p] /\ closed'[p] = closed[p]
<1>1. IInv /\ [Next]_vars => [Kept]_vars
  <2> SUFFICES ASSUME IInv, Next, NEW p \in Proposal, status[p] \in Verdict
               PROVE  status'[p] = status[p] /\ closed'[p] = closed[p]
    OBVIOUS
  <2>1. ASSUME NEW r \in Review, StoreCloses(r)
        PROVE  status'[p] = status[p] /\ closed'[p] = closed[p]
    <3>1. p # ask[r].proposal
      BY <2>1 DEF StoreCloses
    <3> QED
      BY <2>1, <3>1 DEF StoreCloses, IInv, TypeOK
  <2>2. ASSUME NEW q \in Proposal, Submit(q)
        PROVE  status'[p] = status[p] /\ closed'[p] = closed[p]
    <3>1. p # q
      BY <2>2 DEF Submit, CheckParent, StoreProposal
    <3> QED
      BY <2>2, <3>1 DEF Submit, CheckParent, StoreProposal, IInv, TypeOK
  <2>3. CASE UNCHANGED <<status, closed>>
    BY <2>3
  <2> QED
    BY <2>1, <2>2, <2>3
       DEF Next, Receive, Handler, GetProposal, GetAuthors, Published,
           NamesUpdated, Closed, Fail, Store, StorePublishes, StoreFindsNoRow,
           Done
<1> QED
  BY <1>1, Invariance, PTL DEF Spec, VerdictFinal

\* An initial state maps to an initial state of the ledger of reviews.
LEMMA LedgerInit == Init => Ledger!Init
BY DEF Init, Ledger!Init

\* A step maps to a step of the ledger or to none.
LEMMA LedgerNext == IInv /\ [Next]_vars => [Ledger!Next]_(Ledger!vars)
<1> DEFINE verdict == [p \in Proposal |->
                          IF Stored(p) THEN status[p] ELSE "absent"]
           told == [r \in Review |->
                       IF pc[r] \in {"ok", "error"} THEN pc[r] ELSE "none"]
<1> SUFFICES ASSUME IInv, [Next]_vars
             PROVE  \/ Ledger!Next
                    \/ UNCHANGED <<verdict, published, past, told>>
  BY DEF Ledger!vars
<1>1. ASSUME NEW p \in Proposal, CheckParent(p)
      PROVE  UNCHANGED <<verdict, published, past, told>>
  <2>1. \A o \in Proposal :
           /\ Stored(o)' = Stored(o)
           /\ Stored(o) => status'[o] = status[o]
    BY <1>1 DEF CheckParent, IInv, TypeOK
  <2>2. verdict' = verdict
    BY <2>1
  <2> QED
    BY <1>1, <2>2 DEF CheckParent
<1>2. ASSUME NEW p \in Proposal, StoreProposal(p)
      PROVE  Ledger!Submit(p)
  <2>1. verdict' = [verdict EXCEPT ![p] = "pending"] /\ verdict[p] = "absent"
    BY <1>2 DEF StoreProposal, IInv, TypeOK
  <2>2. LET parent == ParentOf[TargetOf[p]]
        IN  parent # Nothing => published[parent] # Nothing
    BY <1>2 DEF StoreProposal, IInv, ParentsStay
  <2> QED
    BY <1>2, <2>1, <2>2 DEF StoreProposal, Ledger!Submit
<1>3. ASSUME NEW r \in Review,
             \/ Receive(r) \/ GetProposal(r) \/ GetAuthors(r)
             \/ Published(r) \/ NamesUpdated(r)
      PROVE  UNCHANGED <<verdict, published, past, told>>
  <2>1. UNCHANGED store
    BY <1>3 DEF Receive, GetProposal, GetAuthors, Published, NamesUpdated
  <2>2. \A q \in Review : /\ pc'[q] \in {"ok", "error"} => pc'[q] = pc[q]
                          /\ pc[q] \in {"ok", "error"} => pc'[q] = pc[q]
    BY ZenonT(60), <1>3
       DEF Receive, GetProposal, GetAuthors, Published, NamesUpdated,
                IInv, TypeOK
  <2>3. told' = told
    BY <2>2
  <2> QED
    BY <2>1, <2>3
<1>4. ASSUME NEW r \in Review, Closed(r) \/ Fail(r)
      PROVE  Ledger!Answer(r)
  <2>1. PICK a \in {"ok", "error"} : pc' = [pc EXCEPT ![r] = a]
    BY <1>4 DEF Closed, Fail
  <2>2. told[r] = "none"
    BY <1>4 DEF Closed, Fail
  <2>3. told' = [told EXCEPT ![r] = a]
    BY <2>1 DEF IInv, TypeOK
  <2>4. UNCHANGED <<verdict, published, past>>
    BY <1>4 DEF Closed, Fail
  <2> QED
    BY <2>2, <2>3, <2>4 DEF Ledger!Answer
<1>5. ASSUME NEW r \in Review, StorePublishes(r)
      PROVE  \E p \in Proposal : Ledger!Publish(p)
  <2>1. Admitted(r) /\ ask[r] \in Ask
    BY <1>5 DEF StorePublishes, IInv, TypeOK, HandlerOnCourse
  <2>2. PICK p \in Proposal : p = ask[r].proposal /\ verdict[p] # "absent"
    BY <2>1
  <2>3. UNCHANGED <<verdict, told>>
    BY <1>5 DEF StorePublishes
  <2>4. Ledger!Publish(p)
    BY <1>5, <2>2, <2>3 DEF StorePublishes, Ledger!Publish
  <2> QED
    BY <2>2, <2>4
<1>6. ASSUME NEW r \in Review, StoreCloses(r)
      PROVE  \E p \in Proposal : \E v \in Verdict : Ledger!Close(p, v)
  <2>1. ask[r] \in Ask
    BY <1>6 DEF StoreCloses, IInv, TypeOK, HandlerOnCourse
  <2>2. PICK p \in Proposal, v \in Verdict :
           p = ask[r].proposal /\ v = ask[r].status
    BY <2>1
  <2>3. v = "approved" => p \in past
    BY <1>6, <2>2 DEF StoreCloses, IInv, HandlerOnCourse
  <2>4. verdict[p] = "pending" /\ verdict' = [verdict EXCEPT ![p] = v]
    BY <1>6, <2>2 DEF StoreCloses, IInv, TypeOK
  <2>5. UNCHANGED <<published, past, told>>
    BY <1>6 DEF StoreCloses
  <2>6. Ledger!Close(p, v)
    BY <2>3, <2>4, <2>5 DEF Ledger!Close
  <2> QED
    BY <2>6
<1>7. ASSUME NEW r \in Review, StoreFindsNoRow(r)
      PROVE  UNCHANGED <<verdict, published, past, told>>
  BY <1>7 DEF StoreFindsNoRow
<1>8. CASE Done \/ UNCHANGED vars
  BY <1>8 DEF Done
<1> QED
  BY <1>1, <1>2, <1>3, <1>4, <1>5, <1>6, <1>7, <1>8
     DEF Next, Submit, Handler, Store, Ledger!Next, Ledger!Verdict

\* handle_patch_request implements the ledger: verdicts are final, approvals
\* follow publication, and one reviewer is told "ok".
THEOREM Refinement == Spec => ImplementsLedger
BY Invariance, LedgerInit, LedgerNext, PTL
   DEF Spec, ImplementsLedger, Ledger!Spec
-----------------------------------------------------------------------------
(* Who is credited: the lists that publish_proposal puts together.         *)

\* What is left of a list when one of its elements is removed.
LEMMA RemoveAtIndex ==
  ASSUME NEW S, NEW s \in Seq(S), NEW m \in 1 .. Len(s)
  PROVE  /\ RemoveAt(s, m) \in Seq(S)
         /\ Len(RemoveAt(s, m)) = Len(s) - 1
         /\ \A k \in 1 .. Len(s) - 1 :
               RemoveAt(s, m)[k] = IF k < m THEN s[k] ELSE s[k + 1]
<1> DEFINE one == SubSeq(s, 1, m - 1)
           two == SubSeq(s, m + 1, Len(s))
<1>1. /\ one \in Seq(S) /\ Len(one) = m - 1
      /\ \A k \in 1 .. m - 1 : one[k] = s[k]
  OBVIOUS
<1>2. /\ two \in Seq(S) /\ Len(two) = Len(s) - m
      /\ \A k \in 1 .. Len(s) - m : two[k] = s[k + m]
  OBVIOUS
<1>3. RemoveAt(s, m) = one \o two
  BY DEF RemoveAt
<1> HIDE DEF one, two
<1>4. one \o two \in Seq(S) /\ Len(one \o two) = Len(s) - 1
  BY <1>1, <1>2
<1>5. ASSUME NEW k \in 1 .. Len(s) - 1
      PROVE  (one \o two)[k] = IF k < m THEN s[k] ELSE s[k + 1]
  <2>1. CASE k < m
    BY <1>1, <1>2, <2>1
  <2>2. CASE ~(k < m)
    <3>1. (one \o two)[k] = two[k - (m - 1)]
      BY <1>1, <1>2, <2>2
    <3>2. k - (m - 1) \in 1 .. Len(s) - m /\ k - (m - 1) + m = k + 1
      BY <2>2
    <3> QED
      BY <1>2, <2>2, <3>1, <3>2
  <2> QED
    BY <2>1, <2>2
<1> QED
  BY <1>3, <1>4, <1>5

\* The author put first, and the rest in its order without the author.
LEMMA FirstOnListIndex ==
  ASSUME NEW a \in Author, NEW list \in Seq(Author)
  PROVE  \E drop \in 0 .. Len(list) :
            LET new == FirstOnList(a, list)
                from(i) == IF drop = 0 \/ i - 1 < drop THEN i - 1 ELSE i
            IN  /\ new \in Seq(Author) /\ new[1] = a
                /\ Len(new) = IF drop = 0 THEN Len(list) + 1 ELSE Len(list)
                /\ \A i \in 2 .. Len(new) : new[i] = list[from(i)]
                /\ drop # 0 => list[drop].id = a.id
                /\ drop = 0 => \A k \in 1 .. Len(list) : list[k].id # a.id
<1> DEFINE same == {i \in 1 .. Len(list) : list[i].id = a.id}
<1>1. CASE same = {}
  <2>1. FirstOnList(a, list) = <<a>> \o list
    BY <1>1 DEF FirstOnList
  <2>2. /\ <<a>> \o list \in Seq(Author) /\ (<<a>> \o list)[1] = a
        /\ Len(<<a>> \o list) = Len(list) + 1
        /\ \A i \in 2 .. Len(list) + 1 : (<<a>> \o list)[i] = list[i - 1]
    OBVIOUS
  <2>3. \A k \in 1 .. Len(list) : list[k].id # a.id
    BY <1>1
  <2>4. 0 \in 0 .. Len(list)
    OBVIOUS
  <2> HIDE DEF same
  <2> QED
    BY <2>1, <2>2, <2>3, <2>4
<1>2. CASE same # {}
  <2>1. PICK m \in 1 .. Len(list) : m = Min(same) /\ list[m].id = a.id
    BY <1>2, MinElement, same \in SUBSET Nat
  <2>2. FirstOnList(a, list) = <<a>> \o RemoveAt(list, m)
    BY <1>2, <2>1 DEF FirstOnList
  <2> HIDE DEF same
  <2> DEFINE rest == RemoveAt(list, m)
  <2>3. /\ rest \in Seq(Author) /\ Len(rest) = Len(list) - 1
        /\ \A k \in 1 .. Len(list) - 1 :
              rest[k] = IF k < m THEN list[k] ELSE list[k + 1]
    BY RemoveAtIndex
  <2> HIDE DEF rest
  <2>4. /\ <<a>> \o rest \in Seq(Author) /\ (<<a>> \o rest)[1] = a
        /\ Len(<<a>> \o rest) = Len(list)
        /\ \A i \in 2 .. Len(list) : (<<a>> \o rest)[i] = rest[i - 1]
    BY <2>3
  <2>5. \A i \in 2 .. Len(list) :
           rest[i - 1] = IF i - 1 < m THEN list[i - 1] ELSE list[i]
    BY <2>3
  <2>6. m \in 0 .. Len(list) /\ m # 0
    OBVIOUS
  <2> QED
    BY <2>1, <2>2, <2>4, <2>5, <2>6 DEF rest
<1> QED
  BY <1>1, <1>2

\* CreditsDue of one list: for a document, by an author.
Renamed(t, id) ==
    \E p, q \in Proposal : /\ TargetOf[p] = t /\ TargetOf[q] = t
                           /\ AuthorOf[p].id = id /\ AuthorOf[q].id = id
                           /\ AuthorOf[p] # AuthorOf[q]

Due(st, a, list, t) ==
    /\ list # <<>> /\ list[1] = a
    /\ Len(list) <= MaxAuthors + 1
    /\ \A i \in 2 .. Len(list) : \E p \in Proposal :
          TargetOf[p] = t /\ st[p] = "approved" /\ AuthorOf[p] = list[i]
    /\ \A i, j \in DOMAIN list :
          list[i].id = list[j].id => i = j \/ Renamed(t, list[i].id)

Credited ==
    /\ \A r \in Review : write[r] = "publish" =>
          LET p == ask[r].proposal
          IN  Due(status, AuthorOf[p], draft[r], TargetOf[p])
    /\ \A t \in Target : published[t] # Nothing =>
          /\ TargetOf[published[t]] = t
          /\ Due(status, AuthorOf[published[t]], credits[t], t)

\* What get_latest_authors answers, as far as it matters here.
LEMMA LatestAuthorsFacts ==
  ASSUME TypeOK, NEW t \in Target, NEW list \in LatestAuthors(t)
  PROVE  /\ list \in Seq(Author) /\ Len(list) <= MaxAuthors
         /\ \A i \in 1 .. Len(list) : \E p \in Proposal :
               /\ TargetOf[p] = t /\ status[p] = "approved"
               /\ AuthorOf[p] = list[i]
         /\ \A i, j \in 1 .. Len(list) : list[i] = list[j] => i = j
         /\ \/ Len(list) = MaxAuthors
            \/ \A p \in Proposal : TargetOf[p] = t /\ status[p] = "approved" =>
                  \E i \in 1 .. Len(list) : list[i] = AuthorOf[p]
<1> DEFINE approved == {p \in Proposal : TargetOf[p] = t
                                         /\ status[p] = "approved"}
           distinct == {AuthorOf[p] : p \in approved}
<1>1. PICK n \in 0 .. MaxAuthors : list \in [1 .. n -> distinct]
  BY DEF LatestAuthors
<1>2. /\ IsInjective(list)
      /\ Len(list) = MaxAuthors \/ ToSet(list) = distinct
  BY DEF LatestAuthors
<1>3. n \in Nat /\ n <= MaxAuthors
  OBVIOUS
<1>4. list \in Seq(Author) /\ Len(list) = n
  <2>1. distinct \subseteq Author
    OBVIOUS
  <2> HIDE DEF distinct
  <2> QED
    BY <1>1, <1>3, <2>1
<1>5. \A i \in 1 .. n : list[i] \in distinct
  BY <1>1
<1>6. \A i, j \in 1 .. n : list[i] = list[j] => i = j
  BY <1>1, <1>2 DEF IsInjective
<1>7. ASSUME ToSet(list) = distinct
      PROVE  \A p \in approved : \E i \in 1 .. n : list[i] = AuthorOf[p]
  <2> SUFFICES ASSUME NEW p \in approved
               PROVE  \E i \in 1 .. n : list[i] = AuthorOf[p]
    OBVIOUS
  <2>1. AuthorOf[p] \in ToSet(list)
    BY <1>7
  <2> QED
    BY <1>1, <2>1 DEF ToSet
<1> QED
  BY <1>2, <1>3, <1>4, <1>5, <1>6, <1>7

\* The list for a proposal is as it should be, whatever the query answered.
LEMMA DraftDue ==
  ASSUME TypeOK, NEW p \in Proposal, NEW list \in LatestAuthors(TargetOf[p])
  PROVE  Due(status, AuthorOf[p], FirstOnList(AuthorOf[p], list), TargetOf[p])
<1> DEFINE a == AuthorOf[p]
           t == TargetOf[p]
           new == FirstOnList(a, list)
<1>0. a \in Author /\ t \in Target
  OBVIOUS
<1>1. /\ list \in Seq(Author) /\ Len(list) <= MaxAuthors
      /\ \A i \in 1 .. Len(list) : \E q \in Proposal :
            /\ TargetOf[q] = t /\ status[q] = "approved"
            /\ AuthorOf[q] = list[i]
      /\ \A i, j \in 1 .. Len(list) : list[i] = list[j] => i = j
  BY <1>0, LatestAuthorsFacts
<1>2. PICK drop \in 0 .. Len(list) :
         LET from(i) == IF drop = 0 \/ i - 1 < drop THEN i - 1 ELSE i
         IN  /\ new \in Seq(Author) /\ new[1] = a
             /\ Len(new) = IF drop = 0 THEN Len(list) + 1 ELSE Len(list)
             /\ \A i \in 2 .. Len(new) : new[i] = list[from(i)]
             /\ drop # 0 => list[drop].id = a.id
             /\ drop = 0 => \A k \in 1 .. Len(list) : list[k].id # a.id
  BY <1>0, <1>1, FirstOnListIndex
<1> DEFINE from(i) == IF drop = 0 \/ i - 1 < drop THEN i - 1 ELSE i
<1> HIDE DEF new, a, t
<1>3. \A i \in 2 .. Len(new) : /\ from(i) \in 1 .. Len(list)
                               /\ from(i) # drop /\ new[i] = list[from(i)]
  BY <1>1, <1>2
<1>4. \A i, j \in 2 .. Len(new) : from(i) = from(j) => i = j
  BY <1>1, <1>2
<1> HIDE DEF from
<1>5. ASSUME NEW i \in 1 .. Len(list), NEW j \in 1 .. Len(list),
             list[i].id = list[j].id, i # j
      PROVE  Renamed(t, list[i].id)
  BY <1>1, <1>5 DEF Renamed
<1>6. ASSUME NEW i \in 2 .. Len(new), NEW j \in 2 .. Len(new),
             new[i].id = new[j].id, i # j
      PROVE  Renamed(t, new[i].id)
  BY <1>3, <1>4, <1>5, <1>6
<1>7. ASSUME NEW j \in 2 .. Len(new), new[j].id = a.id
      PROVE  Renamed(t, a.id)
  <2>1. list[from(j)].id = a.id /\ from(j) \in 1 .. Len(list)
    BY <1>3, <1>7
  <2>2. drop # 0 /\ list[drop].id = a.id
    BY <1>2, <2>1
  <2>3. drop \in 1 .. Len(list) /\ from(j) # drop
    BY <1>1, <1>3, <2>2
  <2> QED
    BY <1>5, <2>1, <2>2, <2>3
<1>8. \A i, j \in DOMAIN new :
         new[i].id = new[j].id => i = j \/ Renamed(t, new[i].id)
  <2> SUFFICES ASSUME NEW i \in DOMAIN new, NEW j \in DOMAIN new,
                      new[i].id = new[j].id, i # j
               PROVE  Renamed(t, new[i].id)
    OBVIOUS
  <2>1. /\ i = 1 \/ i \in 2 .. Len(new)
        /\ j = 1 \/ j \in 2 .. Len(new)
    BY <1>2
  <2> QED
    BY <1>2, <1>6, <1>7, <2>1
<1>9. \A i \in 2 .. Len(new) : \E q \in Proposal :
         TargetOf[q] = t /\ status[q] = "approved" /\ AuthorOf[q] = new[i]
  BY <1>1, <1>3
<1>10. new # <<>> /\ Len(new) <= MaxAuthors + 1
  <2>1. Len(new) >= 1
    BY <1>1, <1>2
  <2> QED
    BY <1>1, <1>2, <2>1
<1> QED
  BY <1>2, <1>8, <1>9, <1>10 DEF Due, new, a, t

\* What has been approved stays approved.
LEMMA ApprovedStays ==
  ASSUME TypeOK, [Next]_vars, NEW p \in Proposal, status[p] = "approved"
  PROVE  status'[p] = "approved"
<1>1. ASSUME NEW r \in Review, StoreCloses(r)
      PROVE  status'[p] = "approved"
  <2>1. p # ask[r].proposal
    BY <1>1 DEF StoreCloses
  <2> QED
    BY <1>1, <2>1 DEF StoreCloses, TypeOK
<1>2. ASSUME NEW q \in Proposal, Submit(q)
      PROVE  status'[p] = "approved"
  BY <1>2 DEF Submit, CheckParent, StoreProposal, TypeOK
<1>3. CASE UNCHANGED status
  BY <1>3
<1> QED
  BY <1>1, <1>2, <1>3
     DEF Next, Receive, Handler, GetProposal, GetAuthors, Published,
         NamesUpdated, Closed, Fail, Store, StorePublishes, StoreFindsNoRow,
         Done

\* So a list that is as it should be stays so.
LEMMA DueStays ==
  ASSUME TypeOK, [Next]_vars, NEW a, NEW list, NEW t,
         Due(status, a, list, t)
  PROVE  Due(status', a, list, t)
<1>1. \A p \in Proposal : status[p] = "approved" => status'[p] = "approved"
  BY ApprovedStays
<1> QED
  BY <1>1 DEF Due, Renamed

\* Only get_latest_authors makes a handler send its document.
LEMMA WritesComeFrom ==
  ASSUME TypeOK, [Next]_vars, NEW r \in Review, write'[r] = "publish",
         ~GetAuthors(r)
  PROVE  write[r] = "publish" /\ draft'[r] = draft[r]
<1>1. ASSUME NEW q \in Review, GetAuthors(q)
      PROVE  write[r] = "publish" /\ draft'[r] = draft[r]
  <2>1. q # r
    BY <1>1
  <2> QED
    BY <1>1, <2>1 DEF GetAuthors, TypeOK
<1>2. ASSUME NEW q \in Review, Receive(q) \/ GetProposal(q) \/ NamesUpdated(q)
                                  \/ Published(q) \/ Closed(q) \/ Fail(q)
      PROVE  write[r] = "publish" /\ draft'[r] = draft[r]
  BY <1>2 DEF Receive, GetProposal, NamesUpdated, Published, Closed, Fail,
              TypeOK
<1>3. ASSUME NEW q \in Review, Store(q)
      PROVE  write[r] = "publish" /\ draft'[r] = draft[r]
  BY <1>3 DEF Store, StorePublishes, StoreCloses, StoreFindsNoRow, TypeOK
<1>4. CASE (\E p \in Proposal : Submit(p)) \/ Done \/ UNCHANGED vars
  BY <1>4 DEF Submit, CheckParent, StoreProposal, Done
<1> QED
  BY <1>1, <1>2, <1>3, <1>4 DEF Next, Handler

\* Only the store publishes.
LEMMA PublishedBy ==
  ASSUME TypeOK, HandlerOnCourse, [Next]_vars, NEW t \in Target
  PROVE  \/ \E r \in Review : /\ StorePublishes(r)
                              /\ TargetOf[ask[r].proposal] = t
         \/ published'[t] = published[t] /\ credits'[t] = credits[t]
<1>1. ASSUME NEW r \in Review, StorePublishes(r),
             TargetOf[ask[r].proposal] # t
      PROVE  published'[t] = published[t] /\ credits'[t] = credits[t]
  BY <1>1 DEF StorePublishes, TypeOK
<1>2. CASE UNCHANGED <<published, credits>>
  BY <1>2
<1> QED
  BY <1>1, <1>2
     DEF Next, Submit, CheckParent, StoreProposal, Receive, Handler,
         GetProposal, GetAuthors, Published, NamesUpdated, Closed, Fail,
         Store, StoreCloses, StoreFindsNoRow, Done

\* Lists are published as they were put together.
LEMMA CreditedNext ==
  ASSUME IInv, Credited, [Next]_vars
  PROVE  Credited'
<1>0. TypeOK /\ HandlerOnCourse
  BY DEF IInv
<1>1. ASSUME NEW r \in Review, write'[r] = "publish"
      PROVE  LET p == ask'[r].proposal
             IN  Due(status', AuthorOf[p], draft'[r], TargetOf[p])
  <2>1. CASE GetAuthors(r)
    <3>1. /\ ask[r].proposal \in Proposal
          /\ ask'[r] = ask[r] /\ status' = status
      <4>1. ask[r] \in Ask
        BY <1>0, <2>1 DEF GetAuthors, TypeOK
      <4>2. ask' = ask /\ status' = status
        BY <2>1 DEF GetAuthors
      <4> QED
        BY <4>1, <4>2, ReviewAssumption
    <3>2. PICK list \in LatestAuthors(TargetOf[ask[r].proposal]) :
             draft'[r] = FirstOnList(AuthorOf[ask[r].proposal], list)
      BY <1>0, <2>1 DEF GetAuthors, TypeOK
    <3> QED
      BY <1>0, <3>1, <3>2, DraftDue
  <2>2. CASE ~GetAuthors(r)
    <3>1. write[r] = "publish" /\ draft'[r] = draft[r]
      BY <1>0, <1>1, <2>2, WritesComeFrom
    <3>2. ask'[r] = ask[r]
      BY <1>0, <3>1, RequestStays DEF HandlerOnCourse
    <3> QED
      BY <1>0, <3>1, <3>2, DueStays DEF Credited
  <2> QED
    BY <2>1, <2>2
<1>2. ASSUME NEW t \in Target, published'[t] # Nothing
      PROVE  /\ TargetOf[published'[t]] = t
             /\ Due(status', AuthorOf[published'[t]], credits'[t], t)
  <2>1. ASSUME NEW r \in Review, StorePublishes(r),
               TargetOf[ask[r].proposal] = t
        PROVE  /\ TargetOf[published'[t]] = t
               /\ Due(status', AuthorOf[published'[t]], credits'[t], t)
    <3>1. /\ published'[t] = ask[r].proposal /\ credits'[t] = draft[r]
          /\ status' = status
      BY <1>0, <2>1 DEF StorePublishes, TypeOK
    <3>2. Due(status, AuthorOf[ask[r].proposal], draft[r], t)
      BY <2>1 DEF StorePublishes, Credited
    <3> QED
      BY <2>1, <3>1, <3>2
  <2>2. CASE published'[t] = published[t] /\ credits'[t] = credits[t]
    <3>1. published[t] # Nothing
      BY <1>2, <2>2
    <3>2. /\ TargetOf[published[t]] = t
          /\ Due(status, AuthorOf[published[t]], credits[t], t)
      BY <3>1 DEF Credited
    <3> QED
      BY <1>0, <2>2, <3>2, DueStays
  <2> QED
    BY <1>0, <2>1, <2>2, PublishedBy
<1> QED
  BY <1>1, <1>2 DEF Credited

\* latestAuthors begins with the author of the document, who is listed with
\* authors of approved proposals and nobody twice under one name, however
\* approvals overlap and fail (publish_proposal, get_latest_authors.n1ql).
THEOREM CreditsAreDue == Spec => []CreditsDue
<1>1. Init => Credited
  BY DEF Init, Credited
<1>2. IInv /\ Credited /\ [Next]_vars => Credited'
  BY CreditedNext
<1>3. Credited => CreditsDue
  BY DEF Credited, CreditsDue, Due, Renamed
<1> QED
  BY <1>1, <1>2, <1>3, Invariance, PTL DEF Spec
-----------------------------------------------------------------------------
(* Approvals of a document that come one after the other.                  *)

DocOf(r) == TargetOf[ask[r].proposal]

Approving(r) == pc[r] # "idle" /\ ask[r].status = "approved"

\* All other approvals of its document were over when this one came.
Unrivalled(r) ==
    \A q \in Review \ {r} :
        Approving(q) /\ DocOf(q) = DocOf(r) => q \in earlier[r]

\* Its list begins with its author and has all who were approved so far.
Complete(r) ==
    /\ draft[r] \in Seq(Author) /\ Len(draft[r]) >= 1
    /\ draft[r][1] = AuthorOf[ask[r].proposal]
    /\ \/ Len(draft[r]) >= MaxAuthors
       \/ \A p \in Proposal :
             TargetOf[p] = DocOf(r) /\ status[p] = "approved" =>
                \E i \in DOMAIN draft[r] : draft[r][i].id = AuthorOf[p].id

Shown(r) ==
    published[DocOf(r)] = ask[r].proposal /\ credits[DocOf(r)] = draft[r]

LastShows ==
    \A r \in Review :
        /\ \A q \in earlier[r] : q \in Review /\ Over(q)
        /\ Approving(r) /\ Unrivalled(r) =>
              /\ write[r] # "none" => Complete(r)
              /\ write[r] \notin {"none", "publish"} => Shown(r)

\* A list that is put together now has everybody, unless it is full.
LEMMA DraftComplete ==
  ASSUME TypeOK, NEW p \in Proposal, NEW list \in LatestAuthors(TargetOf[p])
  PROVE  LET new == FirstOnList(AuthorOf[p], list)
         IN  /\ new \in Seq(Author) /\ Len(new) >= 1 /\ new[1] = AuthorOf[p]
             /\ \/ Len(new) >= MaxAuthors
                \/ \A q \in Proposal :
                      TargetOf[q] = TargetOf[p] /\ status[q] = "approved" =>
                         \E i \in DOMAIN new : new[i].id = AuthorOf[q].id
<1> DEFINE a == AuthorOf[p]
           t == TargetOf[p]
           new == FirstOnList(a, list)
<1>0. a \in Author /\ t \in Target
  OBVIOUS
<1>1. /\ list \in Seq(Author)
      /\ \/ Len(list) = MaxAuthors
         \/ \A q \in Proposal : TargetOf[q] = t /\ status[q] = "approved" =>
               \E i \in 1 .. Len(list) : list[i] = AuthorOf[q]
  BY <1>0, LatestAuthorsFacts
<1>2. PICK drop \in 0 .. Len(list) :
         LET from(i) == IF drop = 0 \/ i - 1 < drop THEN i - 1 ELSE i
         IN  /\ new \in Seq(Author) /\ new[1] = a
             /\ Len(new) = IF drop = 0 THEN Len(list) + 1 ELSE Len(list)
             /\ \A i \in 2 .. Len(new) : new[i] = list[from(i)]
             /\ drop # 0 => list[drop].id = a.id
             /\ drop = 0 => \A k \in 1 .. Len(list) : list[k].id # a.id
  BY <1>0, <1>1, FirstOnListIndex
<1> HIDE DEF new, a, t
<1>3. Len(new) >= 1 /\ Len(new) >= Len(list)
  BY <1>1, <1>2
<1>4. ASSUME NEW k \in 1 .. Len(list)
      PROVE  \E i \in DOMAIN new : new[i].id = list[k].id
  <2>1. CASE k = drop
    <3>1. 1 \in DOMAIN new /\ new[1].id = list[k].id
      BY <1>2, <1>3, <2>1
    <3> QED
      BY <3>1
  <2>2. CASE drop = 0 \/ k < drop
    <3>1. k + 1 \in 2 .. Len(new)
      BY <1>1, <1>2, <2>2
    <3>2. new[k + 1] = list[IF drop = 0 \/ (k + 1) - 1 < drop
                              THEN (k + 1) - 1 ELSE k + 1]
      BY <1>2, <3>1
    <3>3. (k + 1) - 1 = k
      OBVIOUS
    <3>4. k + 1 \in DOMAIN new /\ new[k + 1] = list[k]
      BY <1>2, <2>2, <3>1, <3>2, <3>3
    <3> QED
      BY <3>4
  <2>3. CASE drop # 0 /\ k > drop
    <3>1. k \in DOMAIN new /\ new[k] = list[k]
      BY <1>1, <1>2, <2>3
    <3> QED
      BY <3>1
  <2> QED
    BY <1>1, <2>1, <2>2, <2>3
<1>5. ASSUME NEW q \in Proposal, TargetOf[q] = t, status[q] = "approved",
             Len(list) # MaxAuthors
      PROVE  \E i \in DOMAIN new : new[i].id = AuthorOf[q].id
  BY <1>1, <1>4, <1>5
<1> QED
  BY <1>1, <1>2, <1>3, <1>5 DEF new, a, t

\* A PATCH that is over stays over, and which were over when one came is kept.
LEMMA OverStays ==
  ASSUME TypeOK, HandlerOnCourse, [Next]_vars, NEW q \in Review, Over(q)
  PROVE  Over(q)'
<1>1. ASSUME NEW r \in Review, Receive(r) \/ Handler(r)
      PROVE  Over(q)'
  <2>1. q # r
    BY <1>1 DEF Receive, Handler, GetProposal, GetAuthors, Published,
                NamesUpdated, Closed, Fail, Over
  <2> QED
    BY ZenonT(60), <1>1, <2>1
       DEF Receive, Handler, GetProposal, GetAuthors, Published,
                      NamesUpdated, Closed, Fail, Over, TypeOK
<1>2. ASSUME NEW r \in Review, Store(r)
      PROVE  Over(q)'
  BY <1>2 DEF Store, StorePublishes, StoreCloses, StoreFindsNoRow, Over, TypeOK
<1>3. CASE (\E p \in Proposal : Submit(p)) \/ Done \/ UNCHANGED vars
  BY <1>3 DEF Submit, CheckParent, StoreProposal, Done, Over
<1> QED
  BY <1>1, <1>2, <1>3 DEF Next

LEMMA EarlierStays ==
  ASSUME TypeOK, [Next]_vars, NEW r \in Review
  PROVE  \/ Receive(r) /\ earlier'[r] = {q \in Review : Over(q)}
         \/ earlier'[r] = earlier[r] /\ ~Receive(r)
<1>1. ASSUME NEW q \in Review, Receive(q)
      PROVE  IF q = r THEN earlier'[r] = {s \in Review : Over(s)}
                      ELSE earlier'[r] = earlier[r] /\ ~Receive(r)
  <2>1. q # r => ~Receive(r)
    BY <1>1 DEF Receive, TypeOK
  <2> QED
    BY <1>1, <2>1 DEF Receive, TypeOK
<1>2. CASE UNCHANGED earlier
  BY <1>1, <1>2
<1> QED
  BY <1>1, <1>2
     DEF Next, Submit, CheckParent, StoreProposal, Handler, GetProposal,
         GetAuthors, Published, NamesUpdated, Closed, Fail, Store,
         StorePublishes, StoreCloses, StoreFindsNoRow, Done

\* The last approval may cease to be the last, but not become it.
LEMMA LastBefore ==
  ASSUME TypeOK, [Next]_vars, NEW r \in Review, pc[r] # "idle",
         Approving(r)', Unrivalled(r)'
  PROVE  /\ Approving(r) /\ Unrivalled(r)
         /\ ask'[r] = ask[r]
<1>1. \A q \in Review : pc[q] # "idle" => pc'[q] # "idle" /\ ask'[q] = ask[q]
  BY RequestStays
<1>2. earlier'[r] = earlier[r]
  BY EarlierStays DEF Receive
<1> QED
  BY <1>1, <1>2 DEF Approving, Unrivalled, DocOf

\* Nobody else has a write on its way for the document of the last approval.
LEMMA OthersAreOver ==
  ASSUME IInv, LastShows, NEW r \in Review, Unrivalled(r),
         NEW q \in Review \ {r}, write[q] \in {"publish", "close"},
         DocOf(q) = DocOf(r)
  PROVE  ask[q].status # "approved"
<1>1. pc[q] # "idle"
  BY DEF IInv, HandlerOnCourse
<1>2. ~Over(q)
  BY DEF Over
<1> QED
  BY <1>1, <1>2 DEF LastShows, Unrivalled, Approving

\* What is put together is complete, and stays so, for nobody else is approved.
LEMMA CompleteNext ==
  ASSUME IInv, LastShows, [Next]_vars, NEW r \in Review,
         pc[r] # "idle", Approving(r)', Unrivalled(r)', write'[r] # "none"
  PROVE  Complete(r)'
<1>0. TypeOK /\ HandlerOnCourse
  BY DEF IInv
<1>1. Approving(r) /\ Unrivalled(r) /\ ask'[r] = ask[r]
  BY <1>0, LastBefore
<1>2. ask[r].proposal \in Proposal /\ DocOf(r)' = DocOf(r)
  BY ZenonT(60), <1>0, <1>1 DEF TypeOK, DocOf
<1>3. CASE GetAuthors(r)
  <2>1. PICK list \in LatestAuthors(TargetOf[ask[r].proposal]) :
           draft'[r] = FirstOnList(AuthorOf[ask[r].proposal], list)
    BY <1>0, <1>3 DEF GetAuthors, TypeOK
  <2>2. status' = status
    BY <1>3 DEF GetAuthors
  <2> QED
    BY SMTT(60), <1>0, <1>1, <1>2, <2>1, <2>2, DraftComplete DEF Complete, DocOf
<1>4. CASE ~GetAuthors(r)
  <2>1. write[r] # "none" /\ draft'[r] = draft[r]
    <3>1. ASSUME NEW q \in Review, GetAuthors(q)
          PROVE  write[r] # "none" /\ draft'[r] = draft[r]
      <4>1. q # r
        BY <1>4, <3>1
      <4> QED
        BY <1>0, <3>1, <4>1 DEF GetAuthors, TypeOK
    <3>2. ASSUME NEW q \in Review, GetProposal(q)
          PROVE  write[r] # "none" /\ draft'[r] = draft[r]
      BY <1>0, <1>1, <3>2 DEF GetProposal, TypeOK, Approving
    <3>3. ASSUME NEW q \in Review, NamesUpdated(q)
          PROVE  write[r] # "none" /\ draft'[r] = draft[r]
      BY <1>0, <3>3 DEF NamesUpdated, TypeOK, HandlerOnCourse
    <3>4. ASSUME NEW q \in Review,
                 \/ Receive(q) \/ Published(q) \/ Closed(q) \/ Fail(q)
                 \/ Store(q)
          PROVE  write[r] # "none" /\ draft'[r] = draft[r]
      BY <1>0, <3>4
         DEF Receive, Published, Closed, Fail, Store, StorePublishes,
             StoreCloses, StoreFindsNoRow, TypeOK
    <3>5. CASE (\E p \in Proposal : Submit(p)) \/ Done \/ UNCHANGED vars
      BY <3>5 DEF Submit, CheckParent, StoreProposal, Done
    <3> QED
      BY <3>1, <3>2, <3>3, <3>4, <3>5 DEF Next, Handler
  <2>2. Complete(r)
    BY <1>1, <2>1 DEF LastShows
  <2>3. ASSUME NEW p \in Proposal, TargetOf[p] = DocOf(r),
               status'[p] = "approved"
        PROVE  status[p] = "approved" \/ AuthorOf[p] = draft[r][1]
    <3>1. ASSUME NEW q \in Review, StoreCloses(q), p = ask[q].proposal
          PROVE  AuthorOf[p] = draft[r][1]
      <4>1. ask[q].status = "approved"
        BY <1>0, <2>3, <3>1 DEF StoreCloses, TypeOK
      <4>2. q = r
        BY <1>1, <2>3, <3>1, <4>1, OthersAreOver DEF StoreCloses, DocOf
      <4> QED
        BY <2>2, <3>1, <4>2 DEF Complete
    <3>2. ASSUME NEW q \in Review, StoreCloses(q), p # ask[q].proposal
          PROVE  status'[p] = status[p]
      BY <1>0, <3>2 DEF StoreCloses, TypeOK
    <3>3. ASSUME NEW o \in Proposal, Submit(o)
          PROVE  status[p] = "approved"
      BY <1>0, <2>3, <3>3 DEF Submit, CheckParent, StoreProposal, TypeOK
    <3>4. CASE UNCHANGED status
      BY <2>3, <3>4
    <3> QED
      BY <2>3, <3>1, <3>2, <3>3, <3>4
         DEF Next, Receive, Handler, GetProposal, GetAuthors, Published,
             NamesUpdated, Closed, Fail, Store, StorePublishes,
             StoreFindsNoRow, Done
  <2>4. 1 \in DOMAIN draft[r]
    BY <2>2 DEF Complete
  <2> QED
    BY <1>1, <1>2, <2>1, <2>2, <2>3, <2>4 DEF Complete
<1> QED
  BY <1>3, <1>4

\* What it published stays, for nobody else publishes.
LEMMA ShownNext ==
  ASSUME IInv, LastShows, [Next]_vars, NEW r \in Review,
         pc[r] # "idle", Approving(r)', Unrivalled(r)',
         write'[r] \notin {"none", "publish"}
  PROVE  Shown(r)'
<1>0. TypeOK /\ HandlerOnCourse
  BY DEF IInv
<1>1. Approving(r) /\ Unrivalled(r) /\ ask'[r] = ask[r]
  BY <1>0, LastBefore
<1>2. DocOf(r) \in Target /\ DocOf(r)' = DocOf(r)
  <2>1. ask[r] \in Ask
    BY <1>0, <1>1 DEF TypeOK, Approving
  <2>2. ask[r].proposal \in Proposal
    BY <2>1, ReviewAssumption
  <2> QED
    BY <1>1, <2>2, ReviewAssumption DEF DocOf
<1>3. CASE StorePublishes(r)
  <2>1. /\ published'[DocOf(r)] = ask[r].proposal
        /\ credits'[DocOf(r)] = draft[r] /\ draft' = draft
    BY <1>0, <1>2, <1>3 DEF StorePublishes, TypeOK, DocOf
  <2> QED
    BY <1>1, <1>2, <2>1 DEF Shown
<1>4. CASE ~StorePublishes(r)
  <2>1. write[r] \notin {"none", "publish"} /\ draft'[r] = draft[r]
    <3>1. ASSUME NEW q \in Review, StorePublishes(q)
          PROVE  write[r] \notin {"none", "publish"} /\ draft'[r] = draft[r]
      <4>1. q # r
        BY <1>4, <3>1
      <4> QED
        BY <1>0, <3>1, <4>1 DEF StorePublishes, TypeOK
    <3>2. ASSUME NEW q \in Review, GetAuthors(q)
          PROVE  write[r] \notin {"none", "publish"} /\ draft'[r] = draft[r]
      BY <1>0, <3>2 DEF GetAuthors, TypeOK
    <3>3. ASSUME NEW q \in Review, GetProposal(q)
          PROVE  write[r] \notin {"none", "publish"} /\ draft'[r] = draft[r]
      BY <1>0, <1>1, <3>3 DEF GetProposal, TypeOK, Approving
    <3>4. ASSUME NEW q \in Review, NamesUpdated(q)
          PROVE  write[r] \notin {"none", "publish"} /\ draft'[r] = draft[r]
      BY <1>0, <3>4 DEF NamesUpdated, TypeOK, HandlerOnCourse
    <3>5. ASSUME NEW q \in Review,
                 \/ Receive(q) \/ Published(q) \/ Closed(q) \/ Fail(q)
                 \/ StoreCloses(q) \/ StoreFindsNoRow(q)
          PROVE  write[r] \notin {"none", "publish"} /\ draft'[r] = draft[r]
      BY <1>0, <3>5
         DEF Receive, Published, Closed, Fail, StoreCloses, StoreFindsNoRow,
             TypeOK
    <3>6. CASE (\E p \in Proposal : Submit(p)) \/ Done \/ UNCHANGED vars
      BY <3>6 DEF Submit, CheckParent, StoreProposal, Done
    <3> QED
      BY <3>1, <3>2, <3>3, <3>4, <3>5, <3>6 DEF Next, Handler, Store
  <2>2. Shown(r)
    BY <1>1, <2>1 DEF LastShows
  <2>3. ~ \E q \in Review : StorePublishes(q) /\ DocOf(q) = DocOf(r)
    <3> SUFFICES ASSUME NEW q \in Review, StorePublishes(q),
                        DocOf(q) = DocOf(r)
                 PROVE  FALSE
      OBVIOUS
    <3>1. q # r /\ write[q] = "publish" /\ ask[q].status = "approved"
      BY <1>0, <1>4 DEF StorePublishes, HandlerOnCourse
    <3> QED
      BY <1>1, <3>1, OthersAreOver
  <2>4. /\ published'[DocOf(r)] = published[DocOf(r)]
        /\ credits'[DocOf(r)] = credits[DocOf(r)]
    BY <1>0, <1>2, <2>3, PublishedBy DEF DocOf
  <2> QED
    BY <1>1, <1>2, <2>1, <2>2, <2>4 DEF Shown
<1> QED
  BY <1>3, <1>4

LEMMA LastShowsNext ==
  ASSUME IInv, LastShows, [Next]_vars
  PROVE  LastShows'
<1>0. TypeOK /\ HandlerOnCourse
  BY DEF IInv
<1> SUFFICES ASSUME NEW r \in Review
             PROVE  /\ \A q \in earlier'[r] : q \in Review /\ Over(q)'
                    /\ Approving(r)' /\ Unrivalled(r)' =>
                          /\ write'[r] # "none" => Complete(r)'
                          /\ write'[r] \notin {"none", "publish"} => Shown(r)'
  BY DEF LastShows
<1>1. \A q \in earlier'[r] : q \in Review /\ Over(q)'
  <2>1. \A q \in earlier'[r] : q \in Review /\ Over(q)
    BY <1>0, EarlierStays DEF LastShows
  <2> QED
    BY <1>0, <2>1, OverStays
<1>2. CASE pc[r] # "idle"
  BY <1>1, <1>2, CompleteNext, ShownNext
<1>3. CASE pc[r] = "idle"
  <2>1. write[r] = "none"
    BY SMTT(60), <1>0, <1>3 DEF HandlerOnCourse
  <2>2. write'[r] = "none"
    BY ZenonT(60), <1>0, <1>3, <2>1
       DEF Next, Submit, CheckParent, StoreProposal, Receive, Handler,
           GetProposal, GetAuthors, Published, NamesUpdated, Closed, Fail,
           Store, StorePublishes, StoreCloses, StoreFindsNoRow, Done, TypeOK
  <2> QED
    BY <1>1, <2>2
<1> QED
  BY <1>2, <1>3

\* When the approvals of a document do not overlap, the last one answered "ok"
\* is what is published, with everybody credited whose proposal was approved,
\* up to the limit (publish_proposal).
THEOREM LastApproval == Spec => []LastApprovalShows
<1>1. Init => LastShows
  BY DEF Init, LastShows, Approving
<1>2. IInv /\ LastShows /\ [Next]_vars => LastShows'
  BY LastShowsNext
<1>3. IInv /\ LastShows => LastApprovalShows
  <2> SUFFICES ASSUME IInv, LastShows, NEW r \in Review, pc[r] = "ok",
                      ask[r].status = "approved",
                      \A q \in Review \ {r} :
                         /\ pc[q] # "idle" /\ ask[q].status = "approved"
                         /\ TargetOf[ask[q].proposal] = DocOf(r)
                         => q \in earlier[r]
               PROVE  /\ published[DocOf(r)] = ask[r].proposal
                      /\ \/ Len(credits[DocOf(r)]) >= MaxAuthors
                         \/ \A q \in Proposal :
                               TargetOf[q] = DocOf(r)
                               /\ status[q] = "approved" =>
                                  \E i \in DOMAIN credits[DocOf(r)] :
                                     credits[DocOf(r)][i].id = AuthorOf[q].id
    BY DEF LastApprovalShows, DocOf
  <2>1. Approving(r) /\ Unrivalled(r)
    BY DEF Approving, Unrivalled, DocOf
  <2>2. write[r] = "closed"
    BY DEF IInv, HandlerOnCourse
  <2>3. Complete(r) /\ Shown(r)
    BY <2>1, <2>2 DEF LastShows
  <2> QED
    BY <2>3 DEF Complete, Shown
<1> QED
  BY <1>1, <1>2, <1>3, Invariance, PTL DEF Spec
=============================================================================
