---------------------------- MODULE NameSetsProofs ----------------------------
(***************************************************************************)
(* Proofs about NameSets, for any tree of games, characters and moves and  *)
(* any publications.                                                       *)
(*                                                                         *)
(* A name set is whole when its names are its own document's and its       *)
(* parents are a publication of each ancestor.  The argument: a query      *)
(* makes a name set from a document and a name set that is whole, so what  *)
(* it makes is whole; rows wait to be upserted meanwhile, and stay whole   *)
(* because the one thing wholeness says of the moment, that the parent has *)
(* a name set, cannot be undone.                                           *)
(*                                                                         *)
(* A name set is in step when it is what a query would make of its         *)
(* document now.  A publication that nothing disturbs rewrites the tree of *)
(* its document level by level.  What it upserts is neither on a level     *)
(* before, nor the parent of a document there or on the same level, so     *)
(* what is in step stays in step; and a level in step below one that is    *)
(* current is current.                                                     *)
(***************************************************************************)
EXTENDS NameSets, TLAPS

\* The documents of no publications.
LEMMA DocsOfEmpty == DocsOf(<<>>) = <<>>
BY DEF DocsOf

\* The documents of publications and one more.
LEMMA DocsOfAppend ==
    ASSUME NEW q \in Seq(Publication), NEW x \in Publication
    PROVE  DocsOf(Append(q, x)) = Append(DocsOf(q), DocOf[x])
<1> USE NameSetsAssumption
<1>1. \A i \in DOMAIN q : q[i] \in Publication
  OBVIOUS
<1>2. DocsOf(q) \in Seq(Doc) /\ Len(DocsOf(q)) = Len(q)
  BY <1>1 DEF DocsOf
<1>3. DocOf[x] \in Doc
  OBVIOUS
<1>4. Append(q, x) \in Seq(Publication) /\ Len(Append(q, x)) = Len(q) + 1
  OBVIOUS
<1>5. Append(DocsOf(q), DocOf[x]) \in Seq(Doc)
      /\ Len(Append(DocsOf(q), DocOf[x])) = Len(q) + 1
  BY <1>2, <1>3
<1>6. DocsOf(Append(q, x)) \in Seq(Doc)
      /\ Len(DocsOf(Append(q, x))) = Len(q) + 1
  <2>1. \A i \in DOMAIN Append(q, x) : Append(q, x)[i] \in Publication
    BY <1>4
  <2> QED
    BY <1>4, <2>1 DEF DocsOf
<1>7. ASSUME NEW i \in 1 .. Len(q) + 1
      PROVE  DocsOf(Append(q, x))[i] = Append(DocsOf(q), DocOf[x])[i]
  <2>1. DocsOf(Append(q, x))[i] = DocOf[Append(q, x)[i]]
    BY <1>4 DEF DocsOf
  <2>2. CASE i = Len(q) + 1
    BY <1>2, <1>3, <2>1, <2>2
  <2>3. CASE i \in 1 .. Len(q)
    <3>1. Append(q, x)[i] = q[i]
      BY <2>3
    <3>2. DocsOf(q)[i] = DocOf[q[i]]
      BY <2>3 DEF DocsOf
    <3>3. Append(DocsOf(q), DocOf[x])[i] = DocsOf(q)[i]
      BY <1>2, <1>3, <2>3
    <3> QED
      BY <2>1, <3>1, <3>2, <3>3
  <2>4. i = Len(q) + 1 \/ i \in 1 .. Len(q)
    OBVIOUS
  <2> QED
    BY <2>2, <2>3, <2>4
<1> HIDE DEF DocsOf
<1> QED
  BY <1>5, <1>6, <1>7

\* Who the ancestors of a document are.
LEMMA AncestorsOf ==
    ASSUME NEW d \in Doc
    PROVE  /\ IsGame(d) => Ancestors(d) = <<>>
           /\ ~IsGame(d) => /\ ParentOf[d] \in Doc
                            /\ Ancestors(d) =
                                   Append(Ancestors(ParentOf[d]), ParentOf[d])
<1> USE NameSetsAssumption
<1>1. IsGame(d) => Ancestors(d) = <<>>
  BY DEF Ancestors, IsChar, IsMove
<1>2. CASE IsChar(d)
  <2>1. ~IsGame(d) /\ ParentOf[d] \in Doc /\ IsGame(ParentOf[d])
    BY <1>2 DEF IsChar, IsGame
  <2>2. Ancestors(ParentOf[d]) = <<>>
    BY <2>1 DEF Ancestors, IsChar, IsMove
  <2>3. Ancestors(d) = <<ParentOf[d]>>
    BY <1>2, <2>1 DEF Ancestors, IsMove
  <2> QED
    BY <2>1, <2>2, <2>3
<1>3. CASE IsMove(d)
  <2>1. ~IsGame(d) /\ ~IsChar(d) /\ ParentOf[d] \in Doc /\ IsChar(ParentOf[d])
    BY <1>3 DEF IsMove, IsChar, IsGame
  <2>2. ~IsGame(ParentOf[d]) /\ ~IsMove(ParentOf[d])
    BY <2>1 DEF IsChar, IsMove
  <2>3. Ancestors(ParentOf[d]) = <<ParentOf[ParentOf[d]]>>
    BY <2>1, <2>2 DEF Ancestors
  <2>4. Ancestors(d) = <<ParentOf[ParentOf[d]], ParentOf[d]>>
    BY <1>3, <2>1 DEF Ancestors
  <2> QED
    BY <2>1, <2>3, <2>4
<1>4. IsGame(d) \/ IsChar(d) \/ IsMove(d)
  BY DEF IsChar, IsMove
<1> QED
  BY <1>1, <1>2, <1>3, <1>4

\* What a query makes of a document, and of its parent's name set, is whole.
LEMMA MadeWhole ==
    ASSUME IInv, NEW d \in Doc, Published(d), NEW s \in Made(d)
    PROVE  s \in NameSet /\ Whole(d, s)
<1> USE NameSetsAssumption
<1>1. docs[d] \in Publication /\ DocOf[docs[d]] = d
  BY DEF IInv, TypeOK, OwnNames, Published
<1>2. CASE IsGame(d)
  <2>1. s = [names |-> docs[d], parents |-> <<>>]
    BY <1>2 DEF Made
  <2>2. <<>> \in Seq(Publication)
    OBVIOUS
  <2> QED
    BY <1>1, <1>2, <2>1, <2>2, DocsOfEmpty, AncestorsOf DEF Whole, NameSet
<1>3. CASE ~IsGame(d)
  <2>1. PICK up : up = sets[ParentOf[d]]
    OBVIOUS
  <2>2. /\ up # Nothing
        /\ s = [names |-> docs[d], parents |-> Append(up.parents, up.names)]
    BY <1>3, <2>1 DEF Made
  <2>3. ParentOf[d] \in Doc
    BY <1>3, AncestorsOf
  <2>4. up \in NameSet /\ Whole(ParentOf[d], up)
    BY <2>1, <2>2, <2>3 DEF IInv, TypeOK, WholeAncestry
  <2>5. up.names \in Publication /\ up.parents \in Seq(Publication)
    BY <2>4 DEF NameSet
  <2>6. s \in NameSet
    BY <1>1, <2>2, <2>5 DEF NameSet
  <2>7. DocsOf(s.parents) = Append(DocsOf(up.parents), DocOf[up.names])
    BY <2>2, <2>5, DocsOfAppend
  <2>8. DocsOf(s.parents) = Ancestors(d)
    BY <1>3, <2>4, <2>7, AncestorsOf DEF Whole
  <2> QED
    BY <1>1, <2>1, <2>2, <2>6, <2>8 DEF Whole
<1> QED
  BY <1>2, <1>3

\* At first there is nothing.
LEMMA InvInit == Init => IInv
<1> SUFFICES ASSUME Init
             PROVE  IInv
  OBVIOUS
<1> USE NameSetsAssumption
<1>1. TypeOK
  <2>1. 0 \in 0 .. 3
    OBVIOUS
  <2> QED
    BY <2>1 DEF Init, TypeOK
<1>2. OwnNames /\ KeysPublished /\ ParentsThere
  BY DEF Init, OwnNames, KeysPublished, ParentsThere, Published
<1>3. MoreToSend /\ RowsWhole /\ WholeAncestry
  BY DEF Init, MoreToSend, RowsWhole, WholeAncestry
<1>4. last \notin lone /\ lone = {}
  BY DEF Init
<1>5. Undisturbed /\ RowsCurrent /\ LevelsInStep
  BY <1>4 DEF Undisturbed, RowsCurrent, LevelsInStep
<1>6. CurrentSoFar
  BY DEF Init, CurrentSoFar, Published
<1> QED
  BY <1>1, <1>2, <1>3, <1>5, <1>6 DEF IInv

\* A publication sends one to three queries.
LEMMA QueriesRange == \A d \in Doc : Queries(d) \in 1 .. 3
<1> SUFFICES ASSUME NEW d \in Doc
             PROVE  Queries(d) \in 1 .. 3
  OBVIOUS
<1>1. IsGame(d) \/ IsChar(d) \/ IsMove(d)
  BY DEF IsChar, IsMove
<1> QED
  BY <1>1 DEF Queries, IsChar, IsMove

\* What a query is to rewrite are documents.
LEMMA BelowDoc ==
    ASSUME NEW d \in Doc, NEW n \in 1 .. 3
    PROVE  Below(d, n) \subseteq Doc
<1>1. CASE n = 1
  BY <1>1 DEF Below
<1>2. CASE n = 2
  BY <1>2 DEF Below
<1>3. CASE n = 3
  BY <1>3 DEF Below
<1> QED
  BY <1>1, <1>2, <1>3

\* Where a query that starts stands.
LEMMA NextQuery ==
    ASSUME IInv, NEW r \in Publication, pc[r] = "send"
    PROVE  /\ DocOf[r] \in Doc
           /\ stage[r] + 1 \in 1 .. Queries(DocOf[r])
           /\ stage[r] + 1 \in 1 .. 3
<1> USE NameSetsAssumption
<1>1. DocOf[r] \in Doc
  OBVIOUS
<1>2. Queries(DocOf[r]) \in 1 .. 3
  BY <1>1, QueriesRange
<1>3. stage[r] \in 0 .. 3 /\ stage[r] < Queries(DocOf[r])
  BY DEF IInv, TypeOK, MoreToSend
<1> QED
  BY <1>1, <1>2, <1>3

\* What a query looks for and finds is published: the document itself, or one
\* the index knows.
LEMMA FoundPublished ==
    ASSUME IInv, NEW r \in Publication, pc[r] = "send",
           NEW k \in Below(DocOf[r], stage[r] + 1)
                       \intersect Indexed(DocOf[r], stage[r] + 1)
    PROVE  k \in Doc /\ Published(k)
<1> DEFINE n == stage[r] + 1
<1>1. DocOf[r] \in Doc /\ n \in 1 .. 3
  BY NextQuery
<1>2. k \in Doc
  BY <1>1, BelowDoc
<1>3. \A d \in docIndex : Published(d)
  BY DEF IInv, KeysPublished
<1>4. CASE n = 1
  <2>1. k = DocOf[r]
    BY <1>4 DEF Below
  <2> QED
    BY <1>2, <2>1 DEF IInv, KeysPublished
<1>5. CASE n = 2
  <2>1. k \in docIndex
    BY <1>5 DEF Indexed
  <2> QED
    BY <1>2, <1>3, <2>1
<1>6. CASE n = 3
  <2>1. k \in docIndex
    BY <1>6 DEF Indexed
  <2> QED
    BY <1>2, <1>3, <2>1
<1> QED
  BY <1>1, <1>4, <1>5, <1>6

\* Types are kept.
LEMMA TypeNext == IInv /\ [Next]_vars => TypeOK'
<1> SUFFICES ASSUME IInv, [Next]_vars
             PROVE  TypeOK'
  OBVIOUS
<1> USE NameSetsAssumption
<1>0. TypeOK
  BY DEF IInv
<1>1. ASSUME NEW r \in Publication, Publish(r)
      PROVE  TypeOK'
  <2>1. DocOf[r] \in Doc
    OBVIOUS
  <2> QED
    BY <1>0, <1>1, <2>1 DEF TypeOK, Publish
<1>2. ASSUME NEW r \in Publication, StartQuery(r)
      PROVE  TypeOK'
  <2>1. stage[r] + 1 \in 0 .. 3
    BY <1>2, NextQuery DEF StartQuery
  <2>2. Below(DocOf[r], stage[r] + 1) \intersect Indexed(DocOf[r], stage[r] + 1)
          \in SUBSET Doc
    BY <1>2, FoundPublished DEF StartQuery
  <2>3. lone' \subseteq lone
    BY <1>2 DEF StartQuery
  <2>4. /\ stage' \in [Publication -> 0 .. 3]
        /\ scan' \in [Publication -> SUBSET Doc]
    BY <1>0, <1>2, <2>1, <2>2 DEF TypeOK, StartQuery
  <2>5. pc' \in [Publication -> {"idle", "send", "query", "ok", "error"}]
    BY <1>0, <1>2 DEF TypeOK, StartQuery
  <2> QED
    BY <1>0, <1>2, <2>3, <2>4, <2>5 DEF TypeOK, StartQuery
<1>3. ASSUME NEW r \in Publication, SelectRow(r)
      PROVE  TypeOK'
  <2>1. PICK k \in scan[r] :
              /\ scan' = [scan EXCEPT ![r] = @ \ {k}]
              /\ rows' = [rows EXCEPT ![r] =
                             @ \union {[key |-> k, set |-> s] : s \in Made(k)}]
    BY <1>3 DEF SelectRow
  <2>2. k \in Doc /\ Published(k)
    BY <1>0, <2>1 DEF IInv, TypeOK, KeysPublished
  <2>3. {[key |-> k, set |-> s] : s \in Made(k)} \subseteq Row
    BY <2>2, MadeWhole DEF Row
  <2>4. /\ scan' \in [Publication -> SUBSET Doc]
        /\ rows' \in [Publication -> SUBSET Row]
    BY <1>0, <2>1, <2>3 DEF TypeOK
  <2> QED
    BY <1>0, <1>3, <2>4 DEF TypeOK, SelectRow
<1>4. ASSUME NEW r \in Publication, UpsertRow(r)
      PROVE  TypeOK'
  <2>1. PICK row \in rows[r] : /\ sets' = [sets EXCEPT ![row.key] = row.set]
                               /\ rows' = [rows EXCEPT ![r] = @ \ {row}]
    BY <1>4 DEF UpsertRow
  <2>2. row.key \in Doc /\ row.set \in NameSet
    BY <1>0, <2>1 DEF TypeOK, Row
  <2>3. sets' \in [Doc -> NameSet \union {Nothing}]
    BY <1>0, <2>1, <2>2 DEF TypeOK
  <2>4. rows' \in [Publication -> SUBSET Row]
    BY <1>0, <2>1 DEF TypeOK
  <2> QED
    BY <1>0, <1>4, <2>3, <2>4 DEF TypeOK, UpsertRow
<1>5. ASSUME NEW r \in Publication, QueryDone(r)
      PROVE  TypeOK'
  BY <1>0, <1>5 DEF TypeOK, QueryDone
<1>6. ASSUME NEW r \in Publication, Fail(r)
      PROVE  TypeOK'
  <2>1. 0 \in 0 .. 3
    OBVIOUS
  <2> QED
    BY <1>0, <1>6, <2>1 DEF TypeOK, Fail
<1>7. ASSUME NEW r \in Publication, Abandon(r)
      PROVE  TypeOK'
  BY <1>0, <1>7 DEF TypeOK, Abandon
<1>8. ASSUME NEW d \in Doc, IndexDoc(d)
      PROVE  TypeOK'
  BY <1>0, <1>8 DEF TypeOK, IndexDoc
<1>9. ASSUME NEW d \in Doc, IndexSet(d)
      PROVE  TypeOK'
  BY <1>0, <1>9 DEF TypeOK, IndexSet
<1>10. CASE UNCHANGED vars
  BY <1>0, <1>10 DEF TypeOK, vars
<1> QED
  BY <1>1, <1>2, <1>3, <1>4, <1>5, <1>6, <1>7, <1>8, <1>9, <1>10
     DEF Next, Steps, Done

\* A name set, once made, is there to stay, so what is whole stays whole.
LEMMA StaysWhole ==
    ASSUME IInv, [Next]_vars, NEW d \in Doc, NEW s, Whole(d, s)
    PROVE  Whole(d, s)'
<1> USE NameSetsAssumption
<1>1. ASSUME NEW c \in Doc, sets[c] # Nothing
      PROVE  sets'[c] # Nothing
  <2>1. CASE sets' = sets
    BY <1>1, <2>1
  <2>2. ASSUME NEW r \in Publication, UpsertRow(r)
        PROVE  sets'[c] # Nothing
    <3>1. PICK row \in rows[r] : sets' = [sets EXCEPT ![row.key] = row.set]
      BY <2>2 DEF UpsertRow
    <3>2. row.set # Nothing
      BY <3>1 DEF IInv, TypeOK, Row
    <3>3. sets \in [Doc -> NameSet \union {Nothing}]
      BY DEF IInv, TypeOK
    <3> QED
      BY <1>1, <3>1, <3>2, <3>3
  <2> QED
    BY <2>1, <2>2
       DEF Next, Steps, Done, vars, Publish, StartQuery, SelectRow, QueryDone,
           Fail, Abandon, IndexDoc, IndexSet
<1>2. ~IsGame(d) => ParentOf[d] \in Doc
  BY AncestorsOf
<1> QED
  BY <1>1, <1>2 DEF Whole

\* A document has its own names: Publish writes no other's.
LEMMA OwnNamesNext == IInv /\ [Next]_vars => OwnNames'
<1> SUFFICES ASSUME IInv, [Next]_vars
             PROVE  OwnNames'
  OBVIOUS
<1> USE NameSetsAssumption
<1>1. CASE docs' = docs
  BY <1>1 DEF IInv, OwnNames, Published
<1>2. ASSUME NEW r \in Publication, Publish(r)
      PROVE  OwnNames'
  <2>1. docs' = [docs EXCEPT ![DocOf[r]] = r]
    BY <1>2 DEF Publish
  <2> QED
    BY <2>1 DEF IInv, TypeOK, OwnNames, Published
<1> QED
  BY <1>1, <1>2
     DEF Next, Steps, Done, vars, StartQuery, SelectRow, UpsertRow, QueryDone,
         Fail, Abandon, IndexDoc, IndexSet

\* A document that is published stays so.
LEMMA StaysPublished ==
    ASSUME IInv, [Next]_vars, NEW d \in Doc, Published(d)
    PROVE  Published(d)'
<1> USE NameSetsAssumption
<1>1. CASE docs' = docs
  BY <1>1 DEF Published
<1>2. ASSUME NEW r \in Publication, Publish(r)
      PROVE  Published(d)'
  <2>1. docs' = [docs EXCEPT ![DocOf[r]] = r] /\ r # Nothing
    BY <1>2 DEF Publish
  <2> QED
    BY <2>1 DEF IInv, TypeOK, Published
<1> QED
  BY <1>1, <1>2
     DEF Next, Steps, Done, vars, StartQuery, SelectRow, UpsertRow, QueryDone,
         Fail, Abandon, IndexDoc, IndexSet

\* What queries and the index hold are documents published.
LEMMA KeysNext == IInv /\ [Next]_vars => KeysPublished'
<1> SUFFICES ASSUME IInv, [Next]_vars
             PROVE  KeysPublished'
  OBVIOUS
<1> USE NameSetsAssumption
<1>0. /\ KeysPublished
      /\ docIndex \subseteq Doc
      /\ scan \in [Publication -> SUBSET Doc]
      /\ pc \in [Publication -> {"idle", "send", "query", "ok", "error"}]
  BY DEF IInv, TypeOK
<1>1. ASSUME NEW d \in docIndex'
      PROVE  Published(d)'
  <2>1. CASE d \in docIndex
    BY <1>0, <2>1, StaysPublished DEF KeysPublished
  <2>2. CASE d \notin docIndex
    <3>1. docIndex' # docIndex
      BY <1>1, <2>2
    <3>2. \E c \in Doc : IndexDoc(c)
      BY <3>1
         DEF Next, Steps, Done, vars, Publish, StartQuery, SelectRow, UpsertRow,
             QueryDone, Fail, Abandon, IndexSet
    <3>3. d \in Doc /\ Published(d)
      BY <1>1, <2>2, <3>2 DEF IndexDoc
    <3> QED
      BY <3>3, StaysPublished
  <2> QED
    BY <2>1, <2>2
<1>2. ASSUME NEW r \in Publication, pc'[r] # "idle"
      PROVE  Published(DocOf[r])'
  <2>1. CASE pc[r] # "idle"
    BY <1>0, <2>1, StaysPublished DEF KeysPublished
  <2>2. CASE pc[r] = "idle"
    <3>1. docs' = [docs EXCEPT ![DocOf[r]] = r]
      BY <1>0, <1>2, <2>2
         DEF Next, Steps, Done, vars, Publish, StartQuery, SelectRow, UpsertRow,
             QueryDone, Fail, Abandon, IndexDoc, IndexSet
    <3> QED
      BY <3>1 DEF IInv, TypeOK, Published
  <2> QED
    BY <2>1, <2>2
<1>3. ASSUME NEW r \in Publication, NEW k \in scan'[r]
      PROVE  Published(k)'
  <2>1. CASE k \in scan[r]
    BY <1>0, <2>1, StaysPublished DEF KeysPublished
  <2>2. CASE k \notin scan[r]
    <3>1. ASSUME NEW q \in Publication, SelectRow(q) \/ Abandon(q)
          PROVE  FALSE
      BY <1>0, <1>3, <2>2, <3>1 DEF SelectRow, Abandon
    <3>2. scan' # scan
      BY <1>3, <2>2
    <3>3. \E q \in Publication : StartQuery(q)
      BY <3>1, <3>2
         DEF Next, Steps, Done, vars, Publish, UpsertRow, QueryDone, Fail,
             IndexDoc, IndexSet
    <3>4. PICK q \in Publication : StartQuery(q)
      BY <3>3
    <3>5. q = r /\ k \in Below(DocOf[r], stage[r] + 1)
                            \intersect Indexed(DocOf[r], stage[r] + 1)
      BY <1>0, <1>3, <2>2, <3>4 DEF StartQuery
    <3>6. k \in Doc /\ Published(k)
      BY <3>4, <3>5, FoundPublished DEF StartQuery
    <3> QED
      BY <3>6, StaysPublished
  <2> QED
    BY <2>1, <2>2
<1> QED
  BY <1>1, <1>2, <1>3 DEF KeysPublished

\* The parents of published documents are, as Publish sees.
LEMMA ParentsNext == IInv /\ [Next]_vars => ParentsThere'
<1> SUFFICES ASSUME IInv, [Next]_vars, NEW d \in Doc, Published(d)', ~IsGame(d)
             PROVE  Published(ParentOf[d])'
  BY DEF ParentsThere, IsGame
<1>1. ParentOf[d] \in Doc
  BY AncestorsOf
<1>2. CASE Published(d)
  <2>1. Published(ParentOf[d])
    BY <1>2 DEF IInv, ParentsThere
  <2> QED
    BY <1>1, <2>1, StaysPublished
<1>3. CASE ~Published(d)
  <2>1. docs' # docs
    BY <1>3 DEF Published
  <2>2. PICK r \in Publication : Publish(r)
    BY <2>1
       DEF Next, Steps, Done, vars, StartQuery, SelectRow, UpsertRow, QueryDone,
           Fail, Abandon, IndexDoc, IndexSet
  <2>3. DocOf[r] = d
    BY <1>3, <2>2, NameSetsAssumption DEF Publish, IInv, TypeOK, Published
  <2>4. Published(ParentOf[d])
    BY <2>2, <2>3 DEF Publish, Published
  <2> QED
    BY <1>1, <2>4, StaysPublished
<1> QED
  BY <1>2, <1>3

\* A row is whole from the fetch that made it.
LEMMA RowsNext == IInv /\ [Next]_vars => RowsWhole'
<1> SUFFICES ASSUME IInv, [Next]_vars,
                    NEW r \in Publication, NEW row \in rows'[r]
             PROVE  Whole(row.key, row.set)'
  BY DEF RowsWhole
<1>0. /\ rows \in [Publication -> SUBSET Row]
      /\ scan \in [Publication -> SUBSET Doc]
  BY DEF IInv, TypeOK
<1>1. CASE row \in rows[r]
  <2>1. row.key \in Doc /\ Whole(row.key, row.set)
    BY <1>0, <1>1 DEF IInv, RowsWhole, Row
  <2> QED
    BY <2>1, StaysWhole
<1>2. CASE row \notin rows[r]
  <2>1. /\ SelectRow(r)
        /\ row \in rows'[r]
    BY <1>0, <1>2
       DEF Next, Steps, Done, vars, Publish, StartQuery, SelectRow, UpsertRow,
           QueryDone, Fail, Abandon, IndexDoc, IndexSet
  <2>2. PICK k \in scan[r] :
              rows' = [rows EXCEPT ![r] =
                          @ \union {[key |-> k, set |-> s] : s \in Made(k)}]
    BY <2>1 DEF SelectRow
  <2>3. PICK s \in Made(k) : row = [key |-> k, set |-> s]
    BY <1>0, <1>2, <2>2
  <2>4. k \in Doc /\ Published(k)
    BY <1>0 DEF IInv, KeysPublished
  <2>5. Whole(k, s)
    BY <2>3, <2>4, MadeWhole
  <2>6. Whole(k, s)'
    BY <2>4, <2>5, StaysWhole
  <2> QED
    BY <2>3, <2>6
<1> QED
  BY <1>1, <1>2

\* A name set is whole because its row was.
LEMMA AncestryNext == IInv /\ [Next]_vars => WholeAncestry'
<1> SUFFICES ASSUME IInv, [Next]_vars, NEW d \in Doc, sets'[d] # Nothing
             PROVE  Whole(d, sets[d])'
  BY DEF WholeAncestry
<1>0. /\ sets \in [Doc -> NameSet \union {Nothing}]
      /\ rows \in [Publication -> SUBSET Row]
  BY DEF IInv, TypeOK
<1>1. CASE sets'[d] = sets[d]
  <2>1. Whole(d, sets[d])
    BY <1>1 DEF IInv, WholeAncestry
  <2>2. PICK s : s = sets[d]
    OBVIOUS
  <2>3. Whole(d, s)'
    BY <2>1, <2>2, StaysWhole
  <2> QED
    BY <1>1, <2>2, <2>3 DEF Whole
<1>2. CASE sets'[d] # sets[d]
  <2>1. \E r \in Publication : \E row \in rows[r] :
           sets' = [sets EXCEPT ![row.key] = row.set]
    BY <1>2
       DEF Next, Steps, Done, vars, Publish, StartQuery, SelectRow, UpsertRow,
           QueryDone, Fail, Abandon, IndexDoc, IndexSet
  <2>2. PICK r \in Publication : \E row \in rows[r] :
           sets' = [sets EXCEPT ![row.key] = row.set]
    BY <2>1
  <2>3. PICK row \in rows[r] : sets' = [sets EXCEPT ![row.key] = row.set]
    BY <2>2
  <2>4. row.key = d /\ sets'[d] = row.set
    BY <1>0, <1>2, <2>3
  <2>5. Whole(d, row.set)
    BY <2>4 DEF IInv, RowsWhole
  <2>6. Whole(d, row.set)'
    BY <2>5, StaysWhole
  <2> QED
    BY <2>4, <2>6 DEF Whole
<1> QED
  BY <1>1, <1>2

-----------------------------------------------------------------------------
(***************************************************************************)
(* The tree of a document, level by level.                                 *)
(***************************************************************************)
\* Only the first query may be to rewrite a game, and what the next ones are
\* to rewrite has its parent on the level before.
LEMMA LevelOf ==
    ASSUME NEW d \in Doc, NEW n \in 1 .. Queries(d), NEW k \in Below(d, n)
    PROVE  /\ k \in Doc
           /\ n = 1 => k = d
           /\ n # 1 => ~IsGame(k) /\ ParentOf[k] \in Below(d, n - 1)
<1> USE NameSetsAssumption
<1>1. Queries(d) \in 1 .. 3
  BY QueriesRange
<1>2. n = 1 \/ n = 2 \/ n = 3
  BY <1>1
<1>3. k \in Doc
  BY <1>1, BelowDoc
<1>4. CASE n = 1
  BY <1>3, <1>4 DEF Below
<1>5. CASE n = 2
  <2>1. ParentOf[k] = d
    BY <1>5 DEF Below
  <2>2. ~IsGame(k)
    BY <2>1 DEF IsGame
  <2>3. n - 1 = 1
    BY <1>5
  <2> QED
    BY <1>3, <1>5, <2>1, <2>2, <2>3 DEF Below
<1>6. CASE n = 3
  <2>1. IsMove(k) /\ ParentOf[ParentOf[k]] = d
    BY <1>6 DEF Below
  <2>2. ~IsGame(k) /\ ParentOf[k] \in Doc
    BY <1>3, <2>1 DEF IsMove, IsGame
  <2>3. n - 1 = 2
    BY <1>6
  <2>4. ParentOf[k] \in Below(d, 2)
    BY <2>1, <2>2 DEF Below
  <2> QED
    BY <1>3, <1>6, <2>2, <2>3, <2>4
<1> QED
  BY <1>2, <1>4, <1>5, <1>6

\* A level has no document of another, and no parent of a document on it or on
\* one before.
LEMMA LevelsApart ==
    ASSUME NEW d \in Doc,
           NEW n \in 1 .. Queries(d), NEW k \in Below(d, n),
           NEW m \in 1 .. Queries(d), NEW j \in Below(d, m)
    PROVE  /\ n # m => k # j
           /\ n <= m /\ ~IsGame(k) => ParentOf[k] # j
<1> USE NameSetsAssumption
<1> DEFINE Depth(e) == IF IsGame(e) THEN 0 ELSE IF IsChar(e) THEN 1 ELSE 2
<1>1. \A e \in Doc : ~IsGame(e) => /\ ParentOf[e] \in Doc
                                   /\ Depth(e) = Depth(ParentOf[e]) + 1
  <2> SUFFICES ASSUME NEW e \in Doc, ~IsGame(e)
               PROVE  /\ ParentOf[e] \in Doc
                      /\ Depth(e) = Depth(ParentOf[e]) + 1
    OBVIOUS
  <2>1. ParentOf[e] \in Doc
    BY DEF IsGame
  <2>2. CASE IsChar(e)
    <3>1. IsGame(ParentOf[e])
      BY <2>2 DEF IsChar
    <3> QED
      BY <2>1, <2>2, <3>1
  <2>3. CASE ~IsChar(e)
    <3>1. IsMove(e)
      BY <2>3 DEF IsChar, IsMove
    <3>2. IsChar(ParentOf[e]) /\ ~IsGame(ParentOf[e])
      BY <3>1 DEF IsChar, IsMove
    <3> QED
      BY <2>1, <2>3, <3>2
  <2> QED
    BY <2>2, <2>3
<1>2. \A e \in Doc : Depth(e) \in 0 .. 2
  OBVIOUS
<1> HIDE DEF Depth
<1>3. ASSUME NEW i \in 1 .. Queries(d), NEW e \in Below(d, i)
      PROVE  e \in Doc /\ Depth(e) = Depth(d) + i - 1
  <2>1. Queries(d) \in 1 .. 3
    BY QueriesRange
  <2>2. i = 1 \/ i = 2 \/ i = 3
    BY <2>1
  <2>3. e \in Doc
    BY LevelOf
  <2>4. CASE i = 1
    BY <1>2, <2>3, <2>4, LevelOf
  <2>5. CASE i = 2
    <3>1. ParentOf[e] = d
      BY <2>5 DEF Below
    <3>2. ~IsGame(e)
      BY <2>5, LevelOf
    <3> QED
      BY <1>1, <1>2, <2>3, <2>5, <3>1, <3>2
  <2>6. CASE i = 3
    <3>1. ParentOf[ParentOf[e]] = d /\ IsMove(e)
      BY <2>6 DEF Below
    <3>2. ~IsGame(e) /\ ~IsGame(ParentOf[e])
      BY <3>1 DEF IsMove
    <3>3. /\ ParentOf[e] \in Doc
          /\ Depth(e) = Depth(ParentOf[e]) + 1
          /\ Depth(ParentOf[e]) = Depth(d) + 1
      BY <1>1, <2>3, <3>1, <3>2
    <3> QED
      BY <1>2, <2>6, <2>3, <3>3
  <2> QED
    BY <2>2, <2>4, <2>5, <2>6
<1>4. Queries(d) \in 1 .. 3 /\ n \in Nat /\ m \in Nat
  BY QueriesRange
<1>5. /\ k \in Doc /\ Depth(k) = Depth(d) + n - 1
      /\ j \in Doc /\ Depth(j) = Depth(d) + m - 1
  BY <1>3
<1>6. Depth(d) \in 0 .. 2
  BY <1>2
<1>7. n # m => k # j
  BY <1>4, <1>5, <1>6
<1>8. ASSUME n <= m, ~IsGame(k)
      PROVE  ParentOf[k] # j
  <2>1. Depth(k) = Depth(ParentOf[k]) + 1 /\ Depth(ParentOf[k]) \in 0 .. 2
    BY <1>1, <1>2, <1>5, <1>8
  <2>2. Depth(ParentOf[k]) # Depth(j)
    BY <1>4, <1>5, <1>6, <1>8, <2>1
  <2> QED
    BY <2>2
<1> QED
  BY <1>7, <1>8

\* A document is in the tree of each of its ancestors, and in its own.
LEMMA InTree ==
    ASSUME NEW d \in Doc, NEW e \in Doc,
           \/ e = d
           \/ ~IsGame(e) /\ ParentOf[e] = d
           \/ IsMove(e) /\ ParentOf[ParentOf[e]] = d
    PROVE  \E n \in 1 .. Queries(d) : e \in Below(d, n)
<1> USE NameSetsAssumption
<1>1. Queries(d) \in 1 .. 3
  BY QueriesRange
<1>2. CASE e = d
  <2>1. 1 \in 1 .. Queries(d) /\ e \in Below(d, 1)
    BY <1>1, <1>2 DEF Below
  <2> QED
    BY <2>1
<1>3. CASE ~IsGame(e) /\ ParentOf[e] = d
  <2>1. ~IsMove(d)
    BY <1>3 DEF IsMove, IsChar
  <2>2. Queries(d) \in 2 .. 3
    BY <2>1 DEF Queries, IsMove, IsChar
  <2>3. 2 \in 1 .. Queries(d) /\ e \in Below(d, 2)
    BY <1>3, <2>2 DEF Below
  <2> QED
    BY <2>3
<1>4. CASE IsMove(e) /\ ParentOf[ParentOf[e]] = d
  <2>1. IsGame(d)
    BY <1>4 DEF IsMove, IsChar
  <2>2. Queries(d) = 3
    BY <2>1 DEF Queries, IsChar, IsMove
  <2>3. 3 \in 1 .. Queries(d) /\ e \in Below(d, 3)
    BY <1>4, <2>2 DEF Below
  <2> QED
    BY <2>3
<1> QED
  BY <1>2, <1>3, <1>4

-----------------------------------------------------------------------------
(***************************************************************************)
(* Who acts, and what a publication that nothing disturbs can rely on.     *)
(***************************************************************************)
\* The steps of a publication after it began.
Runs(r) == \/ StartQuery(r)
           \/ SelectRow(r)
           \/ UpsertRow(r)
           \/ QueryDone(r)
           \/ Fail(r)
           \/ Abandon(r)

\* A step begins a publication, is one of a publication, or is of an index.
LEMMA WhoActs ==
    ASSUME [Next]_vars
    PROVE  \/ \E r \in Publication : Publish(r)
           \/ \E r \in Publication : Runs(r)
           \/ UNCHANGED <<docs, sets, pc, stage, scan, rows, lone, last>>
BY DEF Next, Steps, Runs, Done, vars, IndexDoc, IndexSet

\* Only what is active runs; what has failed stays so, and running begins no
\* publication.
LEMMA RunsActive ==
    ASSUME IInv, NEW r \in Publication, Runs(r)
    PROVE  /\ Active(r)
           /\ pc[r] \in {"send", "query", "error"}
           /\ pc'[r] # "idle" /\ (pc[r] = "error" => pc'[r] = "error")
           /\ \A q \in Publication \ {r} : /\ pc'[q] = pc[q]
                                          /\ stage'[q] = stage[q]
                                          /\ scan'[q] = scan[q]
                                          /\ rows'[q] = rows[q]
           /\ docs' = docs /\ last' = last /\ lone' \subseteq lone
<1>1. /\ pc \in [Publication -> {"idle", "send", "query", "ok", "error"}]
      /\ stage \in [Publication -> 0 .. 3]
      /\ scan \in [Publication -> SUBSET Doc]
      /\ rows \in [Publication -> SUBSET Row]
  BY DEF IInv, TypeOK
<1>2. pc[r] \in {"idle", "send", "ok"} => scan[r] = {} /\ rows[r] = {}
  BY DEF IInv, MoreToSend
<1>3. CASE StartQuery(r)
  BY <1>1, <1>3 DEF StartQuery, Active
<1>4. CASE SelectRow(r)
  BY <1>1, <1>2, <1>4 DEF SelectRow, Active
<1>5. CASE UpsertRow(r)
  BY <1>1, <1>2, <1>5 DEF UpsertRow, Active
<1>6. CASE QueryDone(r)
  BY <1>1, <1>6 DEF QueryDone, Active
<1>7. CASE Fail(r)
  BY <1>1, <1>7 DEF Fail, Active
<1>8. CASE Abandon(r)
  BY <1>1, <1>8 DEF Abandon, Active
<1> QED
  BY <1>3, <1>4, <1>5, <1>6, <1>7, <1>8 DEF Runs

\* While a query is to be sent there is one left, and a publication has keys
\* and rows only while a query runs or after it failed.
LEMMA MoreToSendNext == IInv /\ [Next]_vars => MoreToSend'
<1> DEFINE Fits(p, s, keys, made, d) ==
              /\ p = "idle" => s = 0
              /\ p = "send" => s < Queries(d)
              /\ p = "query" => s \in 1 .. Queries(d)
              /\ p = "ok" => s = Queries(d)
              /\ p \in {"idle", "send", "ok"} => keys = {} /\ made = {}
<1> SUFFICES ASSUME IInv, [Next]_vars, NEW q \in Publication
             PROVE  Fits(pc'[q], stage'[q], scan'[q], rows'[q], DocOf[q])
  BY DEF MoreToSend, Queries, IsGame, IsChar, IsMove
<1> USE NameSetsAssumption
<1>0. TypeOK /\ Fits(pc[q], stage[q], scan[q], rows[q], DocOf[q])
  BY DEF IInv, MoreToSend
<1>1. Queries(DocOf[q]) \in 1 .. 3 /\ stage[q] \in 0 .. 3
  BY <1>0, QueriesRange DEF TypeOK
<1>2. ASSUME NEW r \in Publication, Publish(r)
      PROVE  Fits(pc'[q], stage'[q], scan'[q], rows'[q], DocOf[q])
  <2>1. /\ pc[r] = "idle" /\ pc' = [pc EXCEPT ![r] = "send"]
        /\ stage' = stage /\ scan' = scan /\ rows' = rows
    BY <1>2 DEF Publish
  <2>2. CASE q = r
    BY <1>0, <1>1, <2>1, <2>2 DEF TypeOK
  <2>3. CASE q # r
    BY <1>0, <2>1, <2>3 DEF TypeOK
  <2> QED
    BY <2>2, <2>3
<1>3. ASSUME NEW r \in Publication, Runs(r), q # r
      PROVE  Fits(pc'[q], stage'[q], scan'[q], rows'[q], DocOf[q])
  BY <1>0, <1>3, RunsActive
<1>4. ASSUME Runs(q)
      PROVE  Fits(pc'[q], stage'[q], scan'[q], rows'[q], DocOf[q])
  <2>1. CASE StartQuery(q)
    <3>1. pc[q] = "send" /\ pc'[q] = "query" /\ stage'[q] = stage[q] + 1
      BY <1>0, <2>1 DEF StartQuery, TypeOK
    <3> QED
      BY <1>0, <1>1, <3>1
  <2>2. CASE SelectRow(q) \/ UpsertRow(q)
    <3>1. pc' = pc /\ stage' = stage
      BY <2>2 DEF SelectRow, UpsertRow
    <3>2. scan[q] # {} \/ rows[q] # {}
      BY <2>2 DEF SelectRow, UpsertRow
    <3> QED
      BY <1>0, <3>1, <3>2
  <2>3. CASE QueryDone(q)
    <3>1. /\ pc[q] = "query" /\ stage' = stage
          /\ pc'[q] = IF stage[q] < Queries(DocOf[q]) THEN "send" ELSE "ok"
          /\ scan'[q] = {} /\ rows'[q] = {}
      BY <1>0, <2>3 DEF QueryDone, TypeOK
    <3> QED
      BY <1>0, <1>1, <3>1
  <2>4. CASE Fail(q) \/ Abandon(q)
    <3>1. pc'[q] = "error"
      BY <1>0, <2>4 DEF Fail, Abandon, TypeOK
    <3> QED
      BY <3>1
  <2> QED
    BY <1>4, <2>1, <2>2, <2>3, <2>4 DEF Runs
<1>5. CASE UNCHANGED <<docs, sets, pc, stage, scan, rows, lone, last>>
  BY <1>0, <1>5
<1> QED
  BY <1>2, <1>3, <1>4, <1>5, WhoActs

\* Nothing that was not active becomes so but by beginning.
LEMMA ActiveBefore ==
    ASSUME IInv, NEW r \in Publication, Runs(r),
           NEW q \in Publication, Active(q)'
    PROVE  Active(q)
<1>1. CASE q = r
  BY <1>1, RunsActive
<1>2. CASE q # r
  BY <1>2, RunsActive DEF Active
<1> QED
  BY <1>1, <1>2

\* A lone publication has the system for itself while it is the latest.
LEMMA UndisturbedNext == IInv /\ [Next]_vars => Undisturbed'
<1> SUFFICES ASSUME IInv, [Next]_vars
             PROVE  Undisturbed'
  OBVIOUS
<1> USE NameSetsAssumption
<1>0. Undisturbed /\ TypeOK
  BY DEF IInv
<1>1. ASSUME NEW r \in Publication, Publish(r)
      PROVE  Undisturbed'
  <2> DEFINE others == {q \in Publication \ {r} : Active(q)}
  <2>1. /\ last' = r
        /\ lone' = IF others = {} THEN lone \union {r} ELSE lone \ others
        /\ pc[r] = "idle"
        /\ pc' = [pc EXCEPT ![r] = "send"]
        /\ scan' = scan /\ rows' = rows
    BY <1>1 DEF Publish
  <2>2. \A q \in Publication \ {r} : Active(q)' <=> Active(q)
    BY <1>0, <2>1 DEF Active, TypeOK
  <2>3. ASSUME NEW q \in lone', Active(q)'
        PROVE  q = r
    BY <1>0, <2>1, <2>2, <2>3 DEF TypeOK
  <2>4. ASSUME r \in lone', NEW q \in Publication \ {r}
        PROVE  ~Active(q)'
    <3>1. others = {}
      BY <1>0, <2>1, <2>4 DEF Undisturbed
    <3> QED
      BY <2>2, <3>1
  <2>5. \A q \in lone' : pc'[q] # "idle"
    BY <1>0, <2>1 DEF Undisturbed, TypeOK
  <2> QED
    BY <2>1, <2>3, <2>4, <2>5 DEF Undisturbed
<1>2. ASSUME NEW r \in Publication, Runs(r)
      PROVE  Undisturbed'
  <2>1. last' = last /\ lone' \subseteq lone /\ lone \subseteq Publication
    BY <1>0, <1>2, RunsActive DEF TypeOK
  <2>2. \A q \in lone : pc'[q] # "idle"
    BY <1>0, <1>2, <2>1, RunsActive DEF Undisturbed
  <2> QED
    BY <1>0, <1>2, <2>1, <2>2, ActiveBefore DEF Undisturbed
<1>3. CASE UNCHANGED <<docs, sets, pc, stage, scan, rows, lone, last>>
  BY <1>0, <1>3 DEF Undisturbed, Active
<1> QED
  BY <1>1, <1>2, <1>3, WhoActs

-----------------------------------------------------------------------------
(***************************************************************************)
(* A lone publication and its tree.                                        *)
(***************************************************************************)
\* What runs while the latest publication is lone is that one.
LEMMA LoneRuns ==
    ASSUME IInv, NEW r \in Publication, Runs(r), last' \in lone'
    PROVE  r = last /\ last \in lone
<1>1. last' = last /\ lone' \subseteq lone /\ Active(r)
  BY RunsActive
<1> QED
  BY <1>1 DEF IInv, Undisturbed

\* Its query is somewhere in the tree.
LEMMA LevelRunning ==
    ASSUME IInv, NEW r \in Publication, pc[r] = "query"
    PROVE  DocOf[r] \in Doc /\ stage[r] \in 1 .. Queries(DocOf[r])
BY NameSetsAssumption DEF IInv, MoreToSend

\* A row that is upserted changes nothing of what else the query makes, nor of
\* the levels before: they have neither its document nor a child of it.
LEMMA UpsertAside ==
    ASSUME IInv, NEW row \in rows[last],
           last \in lone, pc[last] = "query",
           sets' = [sets EXCEPT ![row.key] = row.set], docs' = docs,
           NEW n \in 1 .. stage[last], NEW k \in Below(DocOf[last], n)
    PROVE  /\ k \in Doc
           /\ Made(k)' = Made(k)
           /\ Joined(k)' <=> Joined(k)
           /\ k # row.key => (InStep(k)' <=> InStep(k))
           /\ k = row.key => sets'[k] = row.set
<1> USE NameSetsAssumption
<1> DEFINE d == DocOf[last]
<1>1. last \in Publication /\ sets \in [Doc -> NameSet \union {Nothing}]
  BY DEF IInv, TypeOK
<1>2. d \in Doc /\ stage[last] \in 1 .. Queries(d)
  BY <1>1, LevelRunning
<1>3. Queries(d) \in 1 .. 3
  BY <1>2, QueriesRange
<1>4. n \in 1 .. Queries(d) /\ n <= stage[last]
  BY <1>2, <1>3
<1>5. k \in Doc
  BY <1>2, <1>4, LevelOf
<1>6. row.key \in Below(d, stage[last])
  BY DEF IInv, RowsCurrent
<1>7. row.key \in Doc
  BY <1>2, <1>6, LevelOf
<1>8. ~IsGame(k) => ParentOf[k] # row.key
  BY <1>2, <1>4, <1>6, LevelsApart
<1>9. ~IsGame(k) => sets'[ParentOf[k]] = sets[ParentOf[k]]
  <2> SUFFICES ASSUME ~IsGame(k)
               PROVE  sets'[ParentOf[k]] = sets[ParentOf[k]]
    OBVIOUS
  <2>1. ParentOf[k] \in Doc
    BY <1>5, AncestorsOf
  <2> QED
    BY <1>1, <1>8, <2>1
<1>10. Made(k)' = Made(k)
  BY <1>9 DEF Made
<1>11. Joined(k)' <=> Joined(k)
  BY <1>9 DEF Joined, Published
<1>12. k # row.key => (InStep(k)' <=> InStep(k))
  <2> SUFFICES ASSUME k # row.key
               PROVE  InStep(k)' <=> InStep(k)
    OBVIOUS
  <2>1. sets'[k] = sets[k]
    BY <1>1, <1>5
  <2> QED
    BY <1>9, <2>1 DEF InStep
<1>13. k = row.key => sets'[k] = row.set
  BY <1>1, <1>7
<1> QED
  BY <1>5, <1>10, <1>11, <1>12, <1>13

\* What a query makes of a document is in step with it when it is upserted.
LEMMA MadeInStep ==
    ASSUME IInv, NEW d \in Doc, Published(d), NEW s \in Made(d), sets[d] = s
    PROVE  InStep(d)
<1>1. s \in NameSet
  BY MadeWhole
<1>2. s # Nothing
  BY <1>1, NameSetsAssumption
<1>3. CASE IsGame(d)
  BY <1>2, <1>3 DEF Made, InStep
<1>4. CASE ~IsGame(d)
  <2>1. PICK up : up = sets[ParentOf[d]]
    OBVIOUS
  <2>2. s = [names |-> docs[d], parents |-> Append(up.parents, up.names)]
    BY <1>4, <2>1 DEF Made
  <2> QED
    BY <1>2, <1>4, <2>1, <2>2 DEF InStep
<1> QED
  BY <1>3, <1>4

\* The rows of a lone publication are those that would be made now.
LEMMA RowsCurrentNext == IInv /\ [Next]_vars => RowsCurrent'
<1> SUFFICES ASSUME IInv, [Next]_vars, last' \in lone', pc'[last'] = "query"
             PROVE  /\ scan'[last'] \subseteq Below(DocOf[last'], stage'[last'])
                    /\ \A row \in rows'[last'] :
                          /\ row.key \in Below(DocOf[last'], stage'[last'])
                          /\ row.set \in Made(row.key)'
  BY DEF RowsCurrent
<1> USE NameSetsAssumption
<1>0. TypeOK /\ RowsCurrent
  BY DEF IInv
<1>1. ASSUME NEW r \in Publication, Publish(r)
      PROVE  FALSE
  BY <1>0, <1>1 DEF TypeOK, Publish
<1>2. CASE UNCHANGED <<docs, sets, pc, stage, scan, rows, lone, last>>
  BY <1>0, <1>2 DEF RowsCurrent, Made
<1>3. ASSUME NEW r \in Publication, Runs(r)
      PROVE  /\ scan'[last'] \subseteq Below(DocOf[last'], stage'[last'])
             /\ \A row \in rows'[last'] :
                   /\ row.key \in Below(DocOf[last'], stage'[last'])
                   /\ row.set \in Made(row.key)'
  <2>1. r = last /\ last \in lone /\ last' = last /\ docs' = docs
    BY <1>3, LoneRuns, RunsActive
  <2>2. CASE StartQuery(last)
    <3>1. rows[last] = {}
      BY <2>1, <2>2 DEF StartQuery, IInv, MoreToSend
    <3>2. /\ stage'[last] = stage[last] + 1
          /\ scan'[last] = Below(DocOf[last], stage[last] + 1)
                             \intersect Indexed(DocOf[last], stage[last] + 1)
          /\ rows' = rows
      BY <1>0, <2>1, <2>2 DEF StartQuery, TypeOK
    <3> QED
      BY <2>1, <3>1, <3>2
  <2>3. CASE SelectRow(last)
    <3>1. PICK k \in scan[last] :
              /\ scan' = [scan EXCEPT ![last] = @ \ {k}]
              /\ rows' = [rows EXCEPT ![last] =
                             @ \union {[key |-> k, set |-> s] : s \in Made(k)}]
      BY <2>3 DEF SelectRow
    <3>2. pc' = pc /\ stage' = stage /\ sets' = sets
      BY <2>3 DEF SelectRow
    <3>3. /\ scan'[last] = scan[last] \ {k}
          /\ rows'[last] = rows[last]
                             \union {[key |-> k, set |-> s] : s \in Made(k)}
      BY <1>0, <2>1, <3>1 DEF TypeOK
    <3>4. \A j : Made(j)' = Made(j)
      BY <2>1, <3>2 DEF Made
    <3>5. /\ k \in Below(DocOf[last], stage[last])
          /\ scan[last] \subseteq Below(DocOf[last], stage[last])
          /\ \A row \in rows[last] :
                /\ row.key \in Below(DocOf[last], stage[last])
                /\ row.set \in Made(row.key)
      BY <1>0, <2>1, <3>2 DEF RowsCurrent
    <3> QED
      BY <2>1, <3>2, <3>3, <3>4, <3>5
  <2>4. CASE UpsertRow(last)
    <3>1. PICK row \in rows[last] :
              /\ sets' = [sets EXCEPT ![row.key] = row.set]
              /\ rows' = [rows EXCEPT ![last] = @ \ {row}]
      BY <2>4 DEF UpsertRow
    <3>2. pc' = pc /\ stage' = stage /\ scan' = scan
      BY <2>4 DEF UpsertRow
    <3>3. rows'[last] \subseteq rows[last]
      BY <1>0, <2>1, <3>1 DEF TypeOK
    <3>4. /\ scan[last] \subseteq Below(DocOf[last], stage[last])
          /\ \A w \in rows[last] :
                /\ w.key \in Below(DocOf[last], stage[last])
                /\ w.set \in Made(w.key)
      BY <1>0, <2>1, <3>2 DEF RowsCurrent
    <3>5. stage[last] \in 1 .. stage[last]
      BY <2>1, <3>2, LevelRunning, QueriesRange
    <3>6. \A k \in Below(DocOf[last], stage[last]) : Made(k)' = Made(k)
      BY <2>1, <3>1, <3>2, <3>5, UpsertAside
    <3> QED
      BY <2>1, <3>2, <3>3, <3>4, <3>6
  <2>5. CASE QueryDone(last) \/ Fail(last) \/ Abandon(last)
    <3>1. pc'[last] # "query"
      BY <1>0, <2>1, <2>5 DEF QueryDone, Fail, Abandon, TypeOK
    <3> QED
      BY <2>1, <3>1
  <2> QED
    BY <1>3, <2>1, <2>2, <2>3, <2>4, <2>5 DEF Runs
<1> QED
  BY <1>1, <1>2, <1>3, WhoActs

\* The levels done stay in step, and the level the running query rewrites gets
\* there row by row.
LEMMA LevelsNext == IInv /\ [Next]_vars => LevelsInStep'
<1> SUFFICES ASSUME IInv, [Next]_vars, last' \in lone', pc'[last'] # "error",
                    NEW n \in 1 .. stage'[last'],
                    NEW k \in Below(DocOf[last'], n), Joined(k)'
             PROVE  \/ InStep(k)'
                    \/ n = stage'[last'] /\ k \in Remaining(last)'
  BY DEF LevelsInStep, Below, IsMove, IsGame
<1> USE NameSetsAssumption
<1>0. TypeOK /\ LevelsInStep /\ MoreToSend
  BY DEF IInv
<1>1. ASSUME NEW r \in Publication, Publish(r)
      PROVE  FALSE
  <2>1. last' = r /\ stage'[r] = 0
    BY <1>0, <1>1 DEF Publish, MoreToSend
  <2> QED
    BY <2>1
<1>2. CASE UNCHANGED <<docs, sets, pc, stage, scan, rows, lone, last>>
  BY <1>0, <1>2
     DEF LevelsInStep, Joined, Published, InStep, Remaining
<1>3. ASSUME NEW r \in Publication, Runs(r)
      PROVE  \/ InStep(k)'
             \/ n = stage'[last'] /\ k \in Remaining(last)'
  <2>1. /\ r = last /\ last \in lone /\ last' = last /\ docs' = docs
        /\ pc[last] # "error" /\ last \in Publication
    BY <1>3, LoneRuns, RunsActive
  <2>2. ASSUME sets' = sets
        PROVE  /\ Joined(k)
               /\ n \in 1 .. stage[last] =>
                     \/ InStep(k)'
                     \/ n = stage[last] /\ k \in Remaining(last)
    <3>1. Joined(k)
      BY <2>1, <2>2 DEF Joined, Published
    <3> QED
      BY <1>0, <2>1, <2>2, <3>1 DEF LevelsInStep, InStep
  <2>3. CASE StartQuery(last)
    <3>1. /\ stage'[last] = stage[last] + 1
          /\ scan'[last] = Below(DocOf[last], stage[last] + 1)
                             \intersect Indexed(DocOf[last], stage[last] + 1)
          /\ sets' = sets /\ stage[last] \in Nat
      BY <1>0, <2>1, <2>3 DEF StartQuery, TypeOK
    <3>2. CASE n = stage[last] + 1
      <4>1. {j \in Below(DocOf[last], stage[last] + 1) : Published(j)}
               \subseteq Below(DocOf[last], stage[last] + 1)
                           \intersect Indexed(DocOf[last], stage[last] + 1)
        BY <2>1, <2>3 DEF StartQuery
      <4>2. Published(k)
        BY <2>2, <3>1 DEF Joined
      <4>3. k \in scan'[last]
        BY <2>1, <3>1, <3>2, <4>1, <4>2
      <4> QED
        BY <2>1, <3>1, <3>2, <4>3 DEF Remaining
    <3>3. CASE n \in 1 .. stage[last]
      <4>1. Remaining(last) = {}
        BY <1>0, <2>1, <2>3 DEF StartQuery, MoreToSend, Remaining
      <4> QED
        BY <2>2, <3>1, <3>3, <4>1
    <3> QED
      BY <2>1, <3>1, <3>2, <3>3
  <2>4. CASE SelectRow(last)
    <3>1. PICK c \in scan[last] :
              /\ scan' = [scan EXCEPT ![last] = @ \ {c}]
              /\ rows' = [rows EXCEPT ![last] =
                             @ \union {[key |-> c, set |-> s] : s \in Made(c)}]
      BY <2>4 DEF SelectRow
    <3>2. pc' = pc /\ stage' = stage /\ sets' = sets
      BY <2>4 DEF SelectRow
    <3>3. /\ scan'[last] = scan[last] \ {c}
          /\ rows'[last] = rows[last]
                             \union {[key |-> c, set |-> s] : s \in Made(c)}
      BY <1>0, <2>1, <3>1 DEF TypeOK
    <3>4. \/ InStep(k)'
          \/ n = stage[last] /\ k \in Remaining(last)
      BY <2>1, <2>2, <3>2
    <3>5. ASSUME k \in Remaining(last)
          PROVE  k \in Remaining(last)'
      <4>1. CASE k = c
        <5>1. \E s : s \in Made(k)
          BY <2>2, <3>2 DEF Joined, Made
        <5>2. PICK s : s \in Made(k)
          BY <5>1
        <5>3. [key |-> c, set |-> s] \in rows'[last]
          BY <3>3, <4>1, <5>2
        <5>4. PICK w \in rows'[last] : w.key = k
          BY <4>1, <5>3
        <5> QED
          BY <2>1, <5>4 DEF Remaining
      <4>2. CASE k # c
        BY <2>1, <3>3, <3>5, <4>2 DEF Remaining
      <4> QED
        BY <4>1, <4>2
    <3> QED
      BY <2>1, <3>2, <3>4, <3>5
  <2>5. CASE UpsertRow(last)
    <3>1. PICK row \in rows[last] :
              /\ sets' = [sets EXCEPT ![row.key] = row.set]
              /\ rows' = [rows EXCEPT ![last] = @ \ {row}]
      BY <2>5 DEF UpsertRow
    <3>2. pc' = pc /\ stage' = stage /\ scan' = scan
      BY <2>5 DEF UpsertRow
    <3>3. pc[last] = "query"
      BY <1>0, <2>1, <3>1 DEF TypeOK, MoreToSend
    <3>4. n \in 1 .. stage[last] /\ k \in Below(DocOf[last], n)
      BY <2>1, <3>2
    <3>5. /\ k \in Doc
          /\ Joined(k)' <=> Joined(k)
          /\ k # row.key => (InStep(k)' <=> InStep(k))
          /\ k = row.key => sets'[k] = row.set
          /\ Made(k)' = Made(k)
      BY <2>1, <3>1, <3>3, <3>4, UpsertAside
    <3>6. \/ InStep(k)
          \/ n = stage[last] /\ k \in Remaining(last)
      BY <1>0, <2>1, <3>4, <3>5 DEF LevelsInStep
    <3>7. CASE k = row.key
      <4>1. row.set \in Made(k)'
        BY <2>1, <3>1, <3>3, <3>5, <3>7 DEF IInv, RowsCurrent
      <4>2. Published(k)
        BY <3>5 DEF Joined
      <4>3. row.set \in NameSet
        BY <3>5, <4>1, <4>2, MadeWhole
      <4>4. sets'[k] = row.set /\ sets'[k] # Nothing
        BY <3>5, <3>7, <4>3
      <4>5. CASE IsGame(k)
        BY <4>1, <4>4, <4>5 DEF Made, InStep
      <4>6. CASE ~IsGame(k)
        <5>1. PICK up : up = sets'[ParentOf[k]]
          OBVIOUS
        <5>2. row.set = [names |-> docs'[k],
                         parents |-> Append(up.parents, up.names)]
          BY <4>1, <4>6, <5>1 DEF Made
        <5> QED
          BY SMTT(60), <4>4, <4>6, <5>1, <5>2 DEF InStep
      <4> QED
        BY <4>5, <4>6
    <3>8. CASE k # row.key
      <4>1. rows'[last] = rows[last] \ {row}
        BY <1>0, <2>1, <3>1 DEF TypeOK
      <4>2. k \in Remaining(last) => k \in Remaining(last)'
        BY <2>1, <3>2, <3>8, <4>1 DEF Remaining
      <4> QED
        BY <2>1, <3>2, <3>5, <3>6, <3>8, <4>2
    <3> QED
      BY <3>7, <3>8
  <2>6. CASE QueryDone(last)
    <3>1. stage' = stage /\ sets' = sets /\ Remaining(last) = {}
      BY <2>6 DEF QueryDone, Remaining
    <3> QED
      BY <2>1, <2>2, <3>1
  <2>7. CASE Fail(last) \/ Abandon(last)
    <3>1. pc'[last] = "error"
      BY <1>0, <2>1, <2>7 DEF Fail, Abandon, TypeOK
    <3> QED
      BY <2>1, <3>1
  <2> QED
    BY <1>3, <2>1, <2>3, <2>4, <2>5, <2>6, <2>7 DEF Runs
<1> QED
  BY <1>1, <1>2, <1>3, WhoActs

-----------------------------------------------------------------------------
(***************************************************************************)
(* A calm history.                                                         *)
(***************************************************************************)
\* What the ancestors of a document are called: what its parent's are, and the
\* parent.
LEMMA AncestryOf ==
    ASSUME NEW d \in Doc
    PROVE  /\ IsGame(d) => Ancestry(d) = <<>>
           /\ ~IsGame(d) => /\ ParentOf[d] \in Doc
                            /\ Ancestry(d) = Append(Ancestry(ParentOf[d]),
                                                    docs[ParentOf[d]])
<1> USE NameSetsAssumption
<1>1. IsGame(d) => Ancestry(d) = <<>>
  BY DEF Ancestry, IsChar, IsMove
<1>2. CASE IsChar(d)
  <2>1. ~IsGame(d) /\ ParentOf[d] \in Doc /\ IsGame(ParentOf[d])
    BY <1>2 DEF IsChar, IsGame
  <2>2. Ancestry(ParentOf[d]) = <<>>
    BY <2>1 DEF Ancestry, IsChar, IsMove
  <2>3. Ancestry(d) = <<docs[ParentOf[d]]>>
    BY <1>2, <2>1 DEF Ancestry, IsMove
  <2> QED
    BY <2>1, <2>2, <2>3
<1>3. CASE IsMove(d)
  <2>1. ~IsGame(d) /\ ~IsChar(d) /\ ParentOf[d] \in Doc /\ IsChar(ParentOf[d])
    BY <1>3 DEF IsMove, IsChar, IsGame
  <2>2. ~IsGame(ParentOf[d]) /\ ~IsMove(ParentOf[d])
    BY <2>1 DEF IsChar, IsMove
  <2>3. Ancestry(ParentOf[d]) = <<docs[ParentOf[ParentOf[d]]]>>
    BY <2>1, <2>2 DEF Ancestry
  <2>4. Ancestry(d) = <<docs[ParentOf[ParentOf[d]]], docs[ParentOf[d]]>>
    BY <1>3, <2>1 DEF Ancestry
  <2> QED
    BY <2>1, <2>3, <2>4
<1>4. IsGame(d) \/ IsChar(d) \/ IsMove(d)
  BY DEF IsChar, IsMove
<1> QED
  BY <1>1, <1>2, <1>3, <1>4

\* The names of ancestors are told by publications, as all are published.
LEMMA AncestryType ==
    ASSUME IInv, NEW d \in Doc, Published(d)
    PROVE  Ancestry(d) \in Seq(Publication)
<1> USE NameSetsAssumption
<1>1. docs \in [Doc -> Publication \union {Nothing}] /\ ParentsThere
  BY DEF IInv, TypeOK
<1>2. \A e \in Doc : Published(e) /\ ~IsGame(e) =>
          ParentOf[e] \in Doc /\ docs[ParentOf[e]] \in Publication
  BY <1>1, AncestryOf DEF ParentsThere, Published
<1>3. CASE IsGame(d)
  <2>1. <<>> \in Seq(Publication)
    OBVIOUS
  <2> QED
    BY <1>3, <2>1, AncestryOf
<1>4. CASE IsChar(d)
  <2>1. ~IsGame(d) /\ Ancestry(d) = <<docs[ParentOf[d]]>>
    BY <1>4 DEF Ancestry, IsChar, IsMove
  <2> QED
    BY <1>2, <2>1
<1>5. CASE IsMove(d)
  <2>1. /\ ~IsGame(d) /\ ~IsGame(ParentOf[d])
        /\ Ancestry(d) = <<docs[ParentOf[ParentOf[d]]], docs[ParentOf[d]]>>
    BY <1>5 DEF Ancestry, IsChar, IsMove
  <2>2. ParentOf[d] \in Doc /\ docs[ParentOf[d]] \in Publication
    BY <1>2, <2>1
  <2>3. Published(ParentOf[d])
    BY <2>2 DEF Published
  <2>4. docs[ParentOf[ParentOf[d]]] \in Publication
    BY <1>2, <2>1, <2>2, <2>3
  <2> QED
    BY <2>1, <2>2, <2>4
<1> QED
  BY <1>3, <1>4, <1>5 DEF IsChar, IsMove

\* A name set in step with one that is current is current.
LEMMA InStepCurrent ==
    ASSUME IInv, NEW d \in Doc, Published(d), InStep(d),
           ~IsGame(d) => Current(ParentOf[d])
    PROVE  Current(d)
<1>1. sets[d] \in NameSet
  BY DEF IInv, TypeOK, InStep
<1>2. sets[d] = [names |-> sets[d].names, parents |-> sets[d].parents]
  BY <1>1 DEF NameSet
<1>3. sets[d].names = docs[d]
  BY DEF InStep
<1>4. sets[d].parents = Ancestry(d)
  <2>1. CASE IsGame(d)
    BY <2>1, AncestryOf DEF InStep
  <2>2. CASE ~IsGame(d)
    <3>1. PICK up : up = sets[ParentOf[d]]
      OBVIOUS
    <3>2. up = [names |-> docs[ParentOf[d]], parents |-> Ancestry(ParentOf[d])]
      BY <2>2, <3>1 DEF Current
    <3>3. sets[d].parents = Append(up.parents, up.names)
      BY <2>2, <3>1 DEF InStep
    <3> QED
      BY <2>2, <3>2, <3>3, AncestryOf
  <2> QED
    BY <2>1, <2>2
<1> QED
  BY <1>2, <1>3, <1>4 DEF Current

\* A calm history before a publication begins: what was published is current.
LEMMA CalmBefore ==
    ASSUME IInv, NEW r \in Publication, Publish(r), Calm', NEW d \in Doc
    PROVE  Published(d) => Current(d)
<1>0. TypeOK /\ CurrentSoFar
  BY DEF IInv
<1>1. /\ last' = r /\ pc[r] = "idle"
      /\ lone' \subseteq lone \union {r}
      /\ pc' = [pc EXCEPT ![r] = "send"]
  BY DEF Publish
<1>2. ASSUME NEW q \in Publication, pc[q] # "idle"
      PROVE  q \in lone /\ pc[q] = "ok"
  <2>1. q # r /\ pc'[q] = pc[q]
    BY <1>0, <1>1, <1>2 DEF TypeOK
  <2> QED
    BY <1>1, <1>2, <2>1 DEF Calm
<1>3. Calm
  BY <1>2 DEF Calm
<1>4. ~Unfinished(d)
  BY <1>0, <1>2 DEF Unfinished, TypeOK
<1> QED
  BY <1>0, <1>3, <1>4 DEF CurrentSoFar

\* A publication puts its tree out of step, and nothing else.
LEMMA PublishCurrent ==
    ASSUME IInv, NEW r \in Publication, Publish(r)
    PROVE  CurrentSoFar'
<1> SUFFICES ASSUME Calm', NEW d \in Doc, Published(d)'
             PROVE  Unfinished(d)' \/ Current(d)'
  BY DEF CurrentSoFar
<1> USE NameSetsAssumption
<1> DEFINE e == DocOf[r]
<1>1. /\ TypeOK /\ ParentsThere /\ stage[r] = 0 /\ e \in Doc
      /\ Queries(e) \in 1 .. 3
  BY QueriesRange DEF IInv, MoreToSend, Publish
<1>2. /\ last' = r /\ stage' = stage /\ sets' = sets
      /\ pc' = [pc EXCEPT ![r] = "send"]
      /\ docs' = [docs EXCEPT ![e] = r]
  BY DEF Publish
<1>3. CASE \E n \in 1 .. Queries(e) : d \in Below(e, n)
  <2>1. PICK n \in 1 .. Queries(e) : d \in Below(e, n)
    BY <1>3
  <2>2. n \in 0 .. Queries(e) /\ n # 0
    BY <1>1, <2>1
  <2>3. pc'[r] = "send" /\ r # Nothing
    BY <1>1, <1>2 DEF TypeOK
  <2>4. /\ last' # Nothing /\ pc'[last'] \in {"send", "query"}
        /\ n \in stage'[last'] .. Queries(DocOf[last'])
        /\ n # stage'[last']
        /\ d \in Below(DocOf[last'], n)
    BY <1>1, <1>2, <2>1, <2>2, <2>3
  <2> QED
    BY <2>4 DEF Unfinished
<1>4. CASE ~ \E n \in 1 .. Queries(e) : d \in Below(e, n)
  <2>1. /\ d # e
        /\ ~IsGame(d) => ParentOf[d] # e
        /\ IsMove(d) => ParentOf[ParentOf[d]] # e
    BY <1>1, <1>4, InTree
  <2>2. docs'[d] = docs[d]
    BY <1>1, <1>2, <2>1 DEF TypeOK
  <2>3. Current(d)
    BY <2>2, CalmBefore DEF Published
  <2>4. ~IsGame(d) => docs'[ParentOf[d]] = docs[ParentOf[d]]
    BY <1>1, <1>2, <2>1, AncestorsOf DEF TypeOK
  <2>5. IsMove(d) => docs'[ParentOf[ParentOf[d]]] = docs[ParentOf[ParentOf[d]]]
    <3> SUFFICES ASSUME IsMove(d)
                 PROVE  docs'[ParentOf[ParentOf[d]]]
                           = docs[ParentOf[ParentOf[d]]]
      OBVIOUS
    <3>1. ~IsGame(d) /\ ~IsGame(ParentOf[d])
      BY DEF IsMove
    <3>2. ParentOf[d] \in Doc /\ ParentOf[ParentOf[d]] \in Doc
      BY <3>1, AncestorsOf
    <3> QED
      BY <1>1, <1>2, <2>1, <3>2 DEF TypeOK
  <2>6. Ancestry(d)' = Ancestry(d)
    <3>1. CASE IsGame(d)
      BY <3>1, AncestryOf DEF Ancestry
    <3>2. CASE IsChar(d)
      BY <2>4, <3>2 DEF Ancestry, IsChar, IsMove
    <3>3. CASE IsMove(d)
      BY <2>4, <2>5, <3>3 DEF Ancestry, IsChar, IsMove
    <3> QED
      BY <3>1, <3>2, <3>3 DEF IsChar, IsMove
  <2> QED
    BY <1>2, <2>2, <2>3, <2>6 DEF Current
<1> QED
  BY <1>3, <1>4

\* Names that stay so: of a document whose name set is not rewritten.
LEMMA StaysCurrent ==
    ASSUME NEW d \in Doc, docs' = docs, sets'[d] = sets[d], Current(d)
    PROVE  Current(d)'
BY DEF Current, Ancestry, IsGame, IsChar, IsMove

\* Queries of a calm history bring what they rewrite up to date, level by
\* level: when one is done its level is in step with the one before, which is
\* current.
LEMMA RunsCurrent ==
    ASSUME IInv, NEW r \in Publication, Runs(r)
    PROVE  CurrentSoFar'
<1> SUFFICES ASSUME Calm', NEW d \in Doc, Published(d)'
             PROVE  Unfinished(d)' \/ Current(d)'
  BY DEF CurrentSoFar
<1> USE NameSetsAssumption
<1>0. TypeOK /\ CurrentSoFar /\ MoreToSend
  BY DEF IInv
<1>1. /\ last' = last /\ lone' \subseteq lone /\ docs' = docs
      /\ pc'[r] # "idle" /\ Active(r)
      /\ pc[r] = "error" => pc'[r] = "error"
      /\ \A q \in Publication \ {r} : pc'[q] = pc[q]
  BY RunsActive
<1>2. r \in lone /\ r = last /\ pc[r] # "error" /\ pc'[r] # "error"
  BY <1>0, <1>1 DEF Calm, IInv, Undisturbed
<1>3. Calm
  BY <1>1, <1>2 DEF Calm
<1>4. Published(d) /\ (Unfinished(d) \/ Current(d))
  BY <1>0, <1>1, <1>3 DEF CurrentSoFar, Published
<1>5. stage[r] \in 0 .. 3 /\ DocOf[r] \in Doc /\ Queries(DocOf[r]) \in 1 .. 3
  BY <1>0, QueriesRange DEF TypeOK
<1>6. r # Nothing
  BY <1>0 DEF TypeOK
<1>7. CASE StartQuery(r)
  <2>1. /\ pc[r] = "send" /\ pc'[r] = "query" /\ stage'[r] = stage[r] + 1
        /\ sets' = sets
    BY <1>0, <1>7 DEF StartQuery, TypeOK
  <2>2. CASE Unfinished(d)
    <3>1. PICK n \in stage[r] .. Queries(DocOf[r]) :
              /\ n # stage[r]
              /\ d \in Below(DocOf[r], n)
      BY <1>2, <2>1, <2>2 DEF Unfinished
    <3>2. n \in stage'[r] .. Queries(DocOf[r])
      BY <1>5, <2>1, <3>1
    <3> QED
      BY <1>1, <1>2, <1>6, <2>1, <3>1, <3>2 DEF Unfinished
  <2> QED
    BY <1>1, <1>4, <2>1, <2>2, StaysCurrent
<1>8. CASE SelectRow(r)
  <2>1. pc' = pc /\ stage' = stage /\ sets' = sets
    BY <1>8 DEF SelectRow
  <2>2. Unfinished(d)' <=> Unfinished(d)
    BY <1>1, <2>1 DEF Unfinished
  <2> QED
    BY <1>1, <1>4, <2>1, <2>2, StaysCurrent
<1>9. CASE UpsertRow(r)
  <2>1. PICK row \in rows[r] : sets' = [sets EXCEPT ![row.key] = row.set]
    BY <1>9 DEF UpsertRow
  <2>2. pc' = pc /\ stage' = stage
    BY <1>9 DEF UpsertRow
  <2>3. Unfinished(d)' <=> Unfinished(d)
    BY <1>1, <2>2 DEF Unfinished
  <2>4. pc[r] = "query"
    BY <1>0, <1>2, <2>1 DEF TypeOK, MoreToSend
  <2>5. CASE d = row.key
    <3>1. d \in Below(DocOf[r], stage[r])
      BY <1>2, <2>1, <2>4, <2>5 DEF IInv, RowsCurrent
    <3>2. stage[r] \in stage[r] .. Queries(DocOf[r])
      BY <1>5, <2>4, LevelRunning
    <3>3. Unfinished(d)
      BY <1>2, <1>6, <2>4, <3>1, <3>2 DEF Unfinished
    <3> QED
      BY <2>3, <3>3
  <2>6. CASE d # row.key
    <3>1. sets'[d] = sets[d]
      BY <1>0, <2>1, <2>6 DEF TypeOK
    <3> QED
      BY <1>1, <1>4, <2>3, <3>1, StaysCurrent
  <2> QED
    BY <2>5, <2>6
<1>10. CASE QueryDone(r)
  <2>1. /\ pc[r] = "query" /\ scan[r] = {} /\ rows[r] = {}
        /\ pc'[r] = IF stage[r] < Queries(DocOf[r]) THEN "send" ELSE "ok"
        /\ stage' = stage /\ sets' = sets
    BY <1>0, <1>10 DEF QueryDone, TypeOK
  <2>2. stage[r] \in 1 .. Queries(DocOf[r])
    BY <2>1, LevelRunning
  <2>3. CASE Current(d)
    BY <1>1, <2>1, <2>3, StaysCurrent
  <2>4. CASE Unfinished(d)
    <3>1. PICK n \in stage[r] .. Queries(DocOf[r]) : d \in Below(DocOf[r], n)
      BY <1>2, <2>4 DEF Unfinished
    <3>2. CASE n # stage[r]
      <4>1. stage[r] < Queries(DocOf[r])
        BY <1>5, <3>1, <3>2
      <4>2. pc'[r] = "send"
        BY <2>1, <4>1
      <4> QED
        BY <1>1, <1>2, <1>6, <2>1, <3>1, <3>2, <4>2 DEF Unfinished
    <3>3. CASE n = stage[r]
      <4>1. d \in Below(DocOf[r], stage[r]) /\ stage[r] \in 1 .. stage[r]
        BY <1>5, <2>2, <3>1, <3>3
      <4>2. Joined(d) => InStep(d)
        <5>1. Remaining(r) = {}
          BY <2>1 DEF Remaining
        <5> QED
          BY <1>2, <4>1, <5>1 DEF IInv, LevelsInStep
      <4>3. ~IsGame(d) => Current(ParentOf[d])
        <5> SUFFICES ASSUME ~IsGame(d)
                     PROVE  Current(ParentOf[d])
          OBVIOUS
        <5>1. ParentOf[d] \in Doc
          BY AncestorsOf
        <5>2. Published(ParentOf[d])
          BY <1>4 DEF IInv, ParentsThere
        <5>3. ASSUME NEW m \in stage[r] .. Queries(DocOf[r])
              PROVE  ParentOf[d] \notin Below(DocOf[r], m)
          <6>1. m \in 1 .. Queries(DocOf[r]) /\ stage[r] <= m
            BY <1>5, <2>2, <5>3
          <6> QED
            BY <1>5, <2>2, <4>1, <6>1, LevelsApart
        <5>4. ~Unfinished(ParentOf[d])
          BY <1>2, <5>3 DEF Unfinished
        <5> QED
          BY <1>0, <1>3, <5>1, <5>2, <5>4 DEF CurrentSoFar
      <4>4. ~IsGame(d) => sets[ParentOf[d]] # Nothing
        <5> SUFFICES ASSUME ~IsGame(d)
                     PROVE  sets[ParentOf[d]] # Nothing
          OBVIOUS
        <5>1. ParentOf[d] \in Doc /\ Published(ParentOf[d])
          BY <1>4, AncestorsOf DEF IInv, ParentsThere
        <5>2. /\ Ancestry(ParentOf[d]) \in Seq(Publication)
              /\ docs[ParentOf[d]] \in Publication
          BY <1>0, <5>1, AncestryType DEF TypeOK, Published
        <5>3. sets[ParentOf[d]] \in NameSet
          BY <4>3, <5>2 DEF Current, NameSet
        <5> QED
          BY <5>3
      <4>5. InStep(d)
        BY <1>4, <4>2, <4>4 DEF Joined
      <4>6. Current(d)
        BY <1>4, <4>3, <4>5, InStepCurrent
      <4> QED
        BY <1>1, <2>1, <4>6, StaysCurrent
    <3> QED
      BY <3>2, <3>3
  <2> QED
    BY <1>4, <2>3, <2>4
<1>11. CASE Fail(r) \/ Abandon(r)
  <2>1. pc'[r] = "error"
    BY <1>0, <1>11 DEF Fail, Abandon, TypeOK
  <2> QED
    BY <1>2, <2>1
<1> QED
  BY <1>7, <1>8, <1>9, <1>10, <1>11 DEF Runs

\* A calm history keeps name sets current.
LEMMA CurrentNext == IInv /\ [Next]_vars => CurrentSoFar'
<1> SUFFICES ASSUME IInv, [Next]_vars
             PROVE  CurrentSoFar'
  OBVIOUS
<1>1. CASE UNCHANGED <<docs, sets, pc, stage, scan, rows, lone, last>>
  <2> SUFFICES ASSUME Calm', NEW d \in Doc, Published(d)'
               PROVE  Unfinished(d)' \/ Current(d)'
    BY DEF CurrentSoFar
  <2>1. Calm /\ Published(d)
    BY <1>1 DEF Calm, Published
  <2>2. Unfinished(d) \/ Current(d)
    BY <2>1 DEF IInv, CurrentSoFar
  <2>3. Unfinished(d) => Unfinished(d)'
    BY <1>1 DEF Unfinished
  <2> QED
    BY <1>1, <2>2, <2>3, StaysCurrent
<1> QED
  BY <1>1, PublishCurrent, RunsCurrent, WhoActs

\* Every step keeps the invariant.
LEMMA InvNext == IInv /\ [Next]_vars => IInv'
BY TypeNext, OwnNamesNext, KeysNext, ParentsNext, MoreToSendNext, RowsNext,
   AncestryNext, UndisturbedNext, RowsCurrentNext, LevelsNext, CurrentNext
   DEF IInv

-----------------------------------------------------------------------------
\* However publications interleave and fail and whatever the indexes know, the
\* invariant holds.
THEOREM Invariance == Spec => []IInv
BY InvInit, InvNext, PTL DEF Spec

\* update_game, update_char and update_move, racing as they may, leave no name
\* set with half an ancestry or with another document's names.
THEOREM AncestryIsWhole == Spec => []WholeAncestry
<1>1. IInv => WholeAncestry
  BY DEF IInv
<1> QED
  BY <1>1, Invariance, PTL

\* update_game, update_char and update_move, run to their end by publications
\* that nothing disturbs, leave every name set with the names that documents
\* have now.
THEOREM CalmIsCurrent == Spec => []CurrentWhenCalm
<1>1. IInv => CurrentWhenCalm
  <2> SUFFICES ASSUME IInv,
                      \A r \in Publication : pc[r] # "idle" =>
                          r \in lone /\ pc[r] = "ok",
                      NEW d \in Doc, Published(d)
               PROVE  Current(d)
    BY DEF CurrentWhenCalm
  <2>1. Calm
    BY DEF Calm
  <2>2. ~Unfinished(d)
    BY DEF Unfinished, IInv, TypeOK
  <2> QED
    BY <2>1, <2>2 DEF IInv, CurrentSoFar
<1> QED
  BY <1>1, Invariance, PTL

\* Whatever came before, the latest publication leaves the tree of its document
\* in step if nothing disturbs it: to publish again repairs.
THEOREM RepublishingRepairs == Spec => []LonePublicationRepairs
<1>1. IInv => LonePublicationRepairs
  <2> SUFFICES ASSUME IInv, last \in lone, pc[last] = "ok",
                      NEW d \in Tree(DocOf[last]), Joined(d)
               PROVE  InStep(d)
    BY DEF LonePublicationRepairs
  <2>1. last \in Publication
    BY DEF IInv, TypeOK
  <2>2. PICK n \in 1 .. Queries(DocOf[last]) : d \in Below(DocOf[last], n)
    BY DEF Tree
  <2>3. /\ stage[last] = Queries(DocOf[last])
        /\ scan[last] = {} /\ rows[last] = {}
    BY <2>1 DEF IInv, MoreToSend
  <2>4. Remaining(last) = {}
    BY <2>3 DEF Remaining
  <2> QED
    BY <2>2, <2>3, <2>4 DEF IInv, LevelsInStep
<1> QED
  BY <1>1, Invariance, PTL
=============================================================================
