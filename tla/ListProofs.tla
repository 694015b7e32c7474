----------------------------- MODULE ListProofs -----------------------------
(*************************************************************************)
(* The lists of proposals: the inductive invariant of a list that is     *)
(* loaded by offset while the server's changes, kept by every step, and  *)
(* what the list promises.                                               *)
(*                                                                       *)
(* Where a proposal is on the server's list is known but for the order   *)
(* within its second: behind all of those ahead of it, and among those   *)
(* of its level.  Lists are compared by these numbers, so that nothing   *)
(* is said by induction over a sequence.                                 *)
(*************************************************************************)
EXTENDS LoaderProofs, FiniteSetTheorems

\* What iron-ajax does for a list.
LEMMA ListAjax ==
    /\ Proposals!NoRequests = NoRequests
    /\ \A inFlight : Proposals!Abort(inFlight) = Abort(inFlight)
    /\ \A inFlight, of :
          Proposals!GenerateRequest(inFlight, of) =
             GenerateRequest(inFlight, of)
    /\ \A inFlight : Proposals!Loading(inFlight) = Loading(inFlight)
BY DEF Proposals!NoRequests, Proposals!Abort, Proposals!GenerateRequest,
       Proposals!Loading, NoRequests, Abort, GenerateRequest, Loading

\* The instance counts as the library does.
LEMMA CountedAlike == \A S : Proposals!Cardinality(S) = Cardinality(S)
BY Zenon DEF Proposals!Cardinality, Cardinality

-----------------------------------------------------------------------------
\* What is ahead of a proposal on a list, and what is of its second.
AheadOf(s, o, p) == {q \in Proposals!Due(s, o) : Proposals!Sooner(o, q, p)}
LevelOf(s, o, p) == {q \in Proposals!Due(s, o) : created[q] = created[p]}

\* The proposals of the server, some not stored yet, each with its second.
AreProposals(s) ==
    /\ s \in Seq(Proposals!Status \union {"unstored"})
    /\ Len(s) <= lists.MaxProposals
    /\ created \in Seq(Nat) /\ Len(created) = Len(s)

\* Proposals can be counted.
LEMMA UpToNat ==
    ASSUME NEW n \in Nat, NEW S, S \subseteq 1 .. n
    PROVE  IsFiniteSet(S) /\ Cardinality(S) \in Nat
<1>1. IsFiniteSet(1 .. n)
  BY FS_Interval
<1>2. IsFiniteSet(S)
  BY <1>1, FS_Subset
<1> QED
  BY <1>2, FS_CardinalityType

\* What is due is finite, and all can be counted.
LEMMA DueIsFinite ==
    ASSUME Proposals!ProposalListAssumption, NEW s, AreProposals(s), NEW o
    PROVE  /\ Proposals!Due(s, o) \subseteq 1 .. Len(s)
           /\ Proposals!Due(s, o) \subseteq Proposals!Proposal
           /\ \A p \in Proposals!Due(s, o) : created[p] \in Nat
           /\ IsFiniteSet(Proposals!Due(s, o))
           /\ Cardinality(Proposals!Due(s, o)) \in Nat
           /\ \A p : /\ IsFiniteSet(AheadOf(s, o, p))
                     /\ IsFiniteSet(LevelOf(s, o, p))
                     /\ Proposals!Ahead(s, o, p) = Cardinality(AheadOf(s, o, p))
                     /\ Proposals!Level(s, o, p) = Cardinality(LevelOf(s, o, p))
                     /\ Proposals!Ahead(s, o, p) \in Nat
                     /\ Proposals!Level(s, o, p) \in Nat
<1>1. Len(s) \in Nat /\ lists.MaxProposals \in Nat
  BY LenProperties DEF Proposals!ProposalListAssumption, AreProposals
<1>2. /\ Proposals!Due(s, o) \subseteq 1 .. Len(s)
      /\ Proposals!Due(s, o) \subseteq Proposals!Proposal
  BY <1>1 DEF Proposals!Due, Proposals!Proposal, AreProposals
<1>3. IsFiniteSet(1 .. Len(s))
  BY <1>1, FS_Interval
<1>4. IsFiniteSet(Proposals!Due(s, o))
  BY <1>2, <1>3, FS_Subset
<1>5. \A p \in Proposals!Due(s, o) : created[p] \in Nat
  BY <1>1, <1>2 DEF AreProposals
<1>6. ASSUME NEW p
      PROVE  /\ IsFiniteSet(AheadOf(s, o, p)) /\ IsFiniteSet(LevelOf(s, o, p))
             /\ Proposals!Ahead(s, o, p) = Cardinality(AheadOf(s, o, p))
             /\ Proposals!Level(s, o, p) = Cardinality(LevelOf(s, o, p))
             /\ Cardinality(AheadOf(s, o, p)) \in Nat
             /\ Cardinality(LevelOf(s, o, p)) \in Nat
  <2>1. /\ AheadOf(s, o, p) \subseteq Proposals!Due(s, o)
        /\ LevelOf(s, o, p) \subseteq Proposals!Due(s, o)
    BY DEF AheadOf, LevelOf
  <2>2. IsFiniteSet(AheadOf(s, o, p)) /\ IsFiniteSet(LevelOf(s, o, p))
    BY <1>4, <2>1, FS_Subset
  <2>3. /\ Proposals!Ahead(s, o, p) = Cardinality(AheadOf(s, o, p))
        /\ Proposals!Level(s, o, p) = Cardinality(LevelOf(s, o, p))
    BY CountedAlike DEF Proposals!Ahead, Proposals!Level, AheadOf, LevelOf
  <2> QED
    BY <2>2, <2>3, FS_CardinalityType
<1> QED
  BY <1>2, <1>4, <1>5, <1>6, FS_CardinalityType

\* A list of all of a set, of which those of A come first, those of B next, and
\* a place among these.
Sorted(D, n, all, A, B, i) ==
    /\ IsFiniteSet(D) /\ n = Cardinality(D) /\ n \in Nat
    /\ all \in [1 .. n -> D]
    /\ \A j, k \in 1 .. n : j < k => all[j] # all[k]
    /\ A \subseteq D /\ B \subseteq D /\ A \intersect B = {}
    /\ i \in 1 .. n
    /\ \A j \in 1 .. i : all[j] \in A \union B
    /\ \A j \in 1 .. n : i <= j => all[j] \notin A

\* The place is between their numbers.
LEMMA Between ==
    ASSUME NEW D, NEW n, NEW all, NEW A, NEW B, NEW i,
           Sorted(D, n, all, A, B, i)
    PROVE  Cardinality(A) < i /\ i <= Cardinality(A) + Cardinality(B)
<1> USE DEF Sorted
<1>1. /\ IsFiniteSet(A) /\ IsFiniteSet(B)
      /\ Cardinality(A) \in Nat /\ Cardinality(B) \in Nat
  BY FS_Subset, FS_CardinalityType
<1>2. \A j, k \in 1 .. n : all[j] = all[k] => j = k
  <2>1. \A j, k \in 1 .. n : j = k \/ j < k \/ k < j
    OBVIOUS
  <2> QED
    BY <2>1
<1>3. \A q \in D : \E j \in 1 .. n : all[j] = q
  <2>1. all \in Injection(1 .. n, D)
    BY <1>2 DEF Injection, IsInjective
  <2>2. Cardinality(1 .. n) = n
    BY FS_Interval
  <2>3. all \in Surjection(1 .. n, D)
    BY <2>1, <2>2, FS_Injection
  <2> QED
    BY <2>3 DEF Surjection
<1>4. Cardinality(A) < i
  <2> DEFINE place == [q \in A |-> CHOOSE j \in 1 .. n : all[j] = q]
  <2>1. \A q \in A : place[q] \in 1 .. n /\ all[place[q]] = q
    BY <1>3
  <2>2. \A q \in A : place[q] \in 1 .. i - 1
    BY <2>1
  <2>3. place \in Injection(A, 1 .. i - 1)
    <3>1. place \in [A -> 1 .. i - 1]
      BY <2>2
    <3>2. \A p, q \in A : place[p] = place[q] => p = q
      BY <2>1
    <3> QED
      BY <3>1, <3>2 DEF Injection, IsInjective
  <2> HIDE DEF place
  <2>4. IsFiniteSet(1 .. i - 1) /\ Cardinality(1 .. i - 1) = i - 1
    <3>1. PICK k \in Nat : k = i - 1
      OBVIOUS
    <3> HIDE DEF Sorted
    <3>2. IsFiniteSet(1 .. k) /\ Cardinality(1 .. k) = k
      BY FS_Interval
    <3> QED
      BY <3>1, <3>2
  <2>5. Cardinality(A) <= i - 1
    BY <2>3, <2>4, FS_Injection
  <2> QED
    BY <1>1, <2>5
<1>5. i <= Cardinality(A) + Cardinality(B)
  <2> DEFINE first == [j \in 1 .. i |-> all[j]]
  <2>1. first \in Injection(1 .. i, A \union B)
    <3>1. first \in [1 .. i -> A \union B]
      OBVIOUS
    <3>2. \A j, k \in 1 .. i : first[j] = first[k] => j = k
      BY <1>2
    <3> QED
      BY <3>1, <3>2 DEF Injection, IsInjective
  <2> HIDE DEF first
  <2>2. /\ IsFiniteSet(A \union B)
        /\ Cardinality(A \union B) = Cardinality(A) + Cardinality(B)
    <3>1. Cardinality(A \intersect B) = 0
      BY FS_EmptySet
    <3> HIDE DEF Sorted
    <3>2. /\ IsFiniteSet(A \union B)
          /\ Cardinality(A \union B) =
                Cardinality(A) + Cardinality(B) - Cardinality(A \intersect B)
      BY <1>1, FS_Union
    <3> QED
      BY <1>1, <3>1, <3>2
  <2>3. Cardinality(1 .. i) = i
    BY FS_Interval
  <2> QED
    BY <2>1, <2>2, <2>3, FS_Injection
<1> QED
  BY <1>4, <1>5

\* The list has every proposal that is due, behind those ahead of it and among
\* those of its second.
LEMMA ListedProperties ==
    ASSUME Proposals!ProposalListAssumption, NEW s, AreProposals(s),
           NEW o \in Proposals!Options, NEW all \in Proposals!Listed(s, o)
    PROVE  /\ all \in Seq(Proposals!Due(s, o))
           /\ Len(all) = Cardinality(Proposals!Due(s, o))
           /\ \A i, j \in 1 .. Len(all) : i < j => all[i] # all[j]
           /\ \A i \in 1 .. Len(all) :
                 /\ Proposals!Ahead(s, o, all[i]) < i
                 /\ i <= Proposals!Ahead(s, o, all[i])
                            + Proposals!Level(s, o, all[i])
<1> DEFINE due == Proposals!Due(s, o)
           n == Cardinality(due)
<1>1. /\ IsFiniteSet(due) /\ n \in Nat
      /\ \A p \in due : created[p] \in Nat
  BY DueIsFinite
<1>2. /\ all \in [1 .. n -> due]
      /\ \A i, j \in 1 .. n :
            i < j => all[i] # all[j] /\ ~Proposals!Sooner(o, all[j], all[i])
  <2>1. all \in [1 .. n -> due] /\ Proposals!InOrder(o, all)
    BY CountedAlike DEF Proposals!Listed
  <2> QED
    BY <2>1 DEF Proposals!InOrder
<1> HIDE DEF due, n
<1>3. all \in Seq(due) /\ Len(all) = n
  BY <1>1, <1>2
<1>4. ASSUME NEW i \in 1 .. n
      PROVE  /\ Proposals!Ahead(s, o, all[i]) < i
             /\ i <= Proposals!Ahead(s, o, all[i])
                        + Proposals!Level(s, o, all[i])
  <2> DEFINE A == AheadOf(s, o, all[i])
             B == LevelOf(s, o, all[i])
  <2>1. \A j \in 1 .. n : all[j] \in due /\ created[all[j]] \in Nat
    BY <1>1, <1>2
  <2>2. /\ A \subseteq due /\ B \subseteq due
        /\ \A q \in due : q \in A <=> Proposals!Sooner(o, q, all[i])
        /\ \A q \in due : q \in B <=> created[q] = created[all[i]]
    BY DEF AheadOf, LevelOf, due
  <2> HIDE DEF A, B
  <2>3. A \intersect B = {}
    BY <1>1, <2>2 DEF Proposals!Sooner
  <2>4. \A j \in 1 .. i : all[j] \in A \union B
    <3>1. \A j \in 1 .. i : j \in 1 .. n /\ (j < i \/ j = i)
      BY <1>1
    <3>2. \A j \in 1 .. n : j < i => all[j] \in A \union B
      BY <1>2, <2>1, <2>2 DEF Proposals!Sooner
    <3> QED
      BY <2>1, <2>2, <3>1, <3>2
  <2>5. \A j \in 1 .. n : i <= j => all[j] \notin A
    <3>1. \A j \in 1 .. n : i <= j => i < j \/ j = i
      OBVIOUS
    <3>2. all[i] \notin A
      BY <2>1, <2>2 DEF Proposals!Sooner
    <3> QED
      BY <1>2, <2>1, <2>2, <3>1, <3>2
  <2>6. Sorted(due, n, all, A, B, i)
    BY <1>1, <1>2, <2>2, <2>3, <2>4, <2>5 DEF Sorted, n
  <2>7. Cardinality(A) < i /\ i <= Cardinality(A) + Cardinality(B)
    BY <2>6, Between
  <2> QED
    BY <2>7, DueIsFinite DEF A, B
<1> QED
  BY <1>2, <1>3, <1>4 DEF n, due

\* Whose level is not his alone has his second in common with another.
LEMMA Shared ==
    ASSUME Proposals!ProposalListAssumption, NEW s, AreProposals(s),
           NEW o \in Proposals!Options, NEW p \in Proposals!Due(s, o),
           1 < Proposals!Level(s, o, p)
    PROVE  \E q \in o.scope : /\ q <= Len(created) /\ q # p
                              /\ created[q] = created[p]
<1>1. p \in LevelOf(s, o, p) /\ Cardinality(LevelOf(s, o, p)) # 1
  <2>1. Proposals!Level(s, o, p) = Cardinality(LevelOf(s, o, p))
    BY DueIsFinite
  <2> QED
    BY <2>1 DEF LevelOf
<1>2. LevelOf(s, o, p) # {p}
  BY <1>1, FS_Singleton
<1>3. PICK q \in LevelOf(s, o, p) : q # p
  BY <1>1, <1>2
<1>4. q \in 1 .. Len(s) /\ q \in o.scope
  BY <1>3 DEF LevelOf, Proposals!Due
<1> QED
  BY <1>3, <1>4, LenProperties DEF LevelOf, AreProposals

\* Where the pages of a list begin.
LEMMA PagesApart ==
    ASSUME NEW a \in Nat, NEW b \in Nat, NEW n \in Nat
    PROVE  /\ a * n \in Nat
           /\ (a + 1) * n = a * n + n
           /\ a < b => (a + 1) * n <= b * n
           /\ a = 0 => a * n = 0
<1>1. a * n \in Nat /\ (a + 1) * n = a * n + n
  BY SMT
<1>2. ASSUME a < b
      PROVE  (a + 1) * n <= b * n
  <2>1. PICK d \in Nat : b = a + 1 + d
    <3>1. b - (a + 1) \in Nat /\ b = a + 1 + (b - (a + 1))
      BY <1>2
    <3> QED
      BY <3>1
  <2>2. (a + 1 + d) * n = (a + 1) * n + d * n /\ d * n \in Nat
    BY SMT
  <2>3. (a + 1) * n \in Nat
    BY SMT
  <2> QED
    BY <2>1, <2>2, <2>3
<1>3. a = 0 => a * n = 0
  BY SMT
<1> QED
  BY <1>1, <1>2, <1>3

\* A page of the list, by offset and limit, has each proposal once, where it
\* may be on the list.
LEMMA PageProperties ==
    ASSUME Proposals!ProposalListAssumption, NEW s, AreProposals(s),
           NEW o \in Proposals!Options, NEW all \in Proposals!Listed(s, o),
           NEW nth \in Nat
    PROVE  LET found == Proposals!PageOf(all, nth)
               offset == nth * lists.PageSize
           IN  /\ found \in Seq(Proposals!Due(s, o))
               /\ all \in Seq(Proposals!Due(s, o))
               /\ Len(all) = Cardinality(Proposals!Due(s, o))
               /\ offset \in Nat
               /\ Len(found) = IF offset + lists.PageSize < Len(all)
                               THEN lists.PageSize
                               ELSE IF offset < Len(all)
                                    THEN Len(all) - offset ELSE 0
               /\ \A i, j \in 1 .. Len(found) : i < j => found[i] # found[j]
               /\ \A i \in 1 .. Len(found) :
                     /\ found[i] \in Proposals!Due(s, o)
                     /\ Proposals!Ahead(s, o, found[i]) < offset + i
                     /\ offset + i <= Proposals!Ahead(s, o, found[i])
                                         + Proposals!Level(s, o, found[i])
<1> DEFINE due == Proposals!Due(s, o)
           found == Proposals!PageOf(all, nth)
           offset == nth * lists.PageSize
<1>1. lists.PageSize \in Nat /\ offset \in Nat
  BY PagesApart DEF Proposals!ProposalListAssumption
<1>2. /\ all \in Seq(due) /\ Len(all) = Cardinality(due)
      /\ \A i, j \in 1 .. Len(all) : i < j => all[i] # all[j]
      /\ \A i \in 1 .. Len(all) :
            /\ Proposals!Ahead(s, o, all[i]) < i
            /\ i <= Proposals!Ahead(s, o, all[i])
                       + Proposals!Level(s, o, all[i])
  BY ListedProperties
<1>3. found = Window(all, offset, lists.PageSize)
  BY DEF Proposals!PageOf, Window
<1> HIDE DEF due, found, offset
<1>4. /\ found \in Seq(due)
      /\ Len(found) = IF offset + lists.PageSize < Len(all)
                      THEN lists.PageSize
                      ELSE IF offset < Len(all) THEN Len(all) - offset ELSE 0
      /\ \A i \in 1 .. Len(found) : found[i] = all[offset + i]
  <2> DEFINE w == Window(all, offset, lists.PageSize)
  <2>1. all \in Seq(due)
    BY <1>2
  <2>2. /\ w \in Seq(due)
        /\ Len(w) = IF offset + lists.PageSize < Len(all)
                    THEN lists.PageSize
                    ELSE IF offset < Len(all) THEN Len(all) - offset ELSE 0
        /\ \A i \in 1 .. Len(w) : w[i] = all[offset + i]
    BY <1>1, <2>1, WindowProperties
  <2> HIDE DEF w
  <2>3. found = w
    BY <1>3 DEF w
  <2> QED
    BY <2>2, <2>3
<1>5. Len(all) \in Nat /\ Len(found) \in Nat
  BY <1>2, <1>4, LenProperties
<1>6. \A i \in 1 .. Len(found) : offset + i \in 1 .. Len(all)
  BY <1>1, <1>4, <1>5
<1>7. \A i, j \in 1 .. Len(found) : i < j => found[i] # found[j]
  <2> SUFFICES ASSUME NEW i \in 1 .. Len(found), NEW j \in 1 .. Len(found),
                      i < j
               PROVE  found[i] # found[j]
    OBVIOUS
  <2>1. PICK k \in 1 .. Len(all) : k = offset + i
    BY <1>6
  <2>2. PICK l \in 1 .. Len(all) : l = offset + j
    BY <1>6
  <2>3. k < l /\ found[i] = all[k] /\ found[j] = all[l]
    BY <1>1, <1>4, <2>1, <2>2
  <2> QED
    BY <1>2, <2>3
<1>8. ASSUME NEW i \in 1 .. Len(found)
      PROVE  /\ found[i] \in due
             /\ Proposals!Ahead(s, o, found[i]) < offset + i
             /\ offset + i <= Proposals!Ahead(s, o, found[i])
                                 + Proposals!Level(s, o, found[i])
  <2>1. PICK k \in 1 .. Len(all) : k = offset + i
    BY <1>6
  <2>2. found[i] = all[k] /\ all[k] \in due
    BY <1>2, <1>4, <2>1
  <2> QED
    BY <1>2, <2>1, <2>2
<1> QED
  BY <1>1, <1>2, <1>4, <1>7, <1>8 DEF due, found, offset

-----------------------------------------------------------------------------
\* The parts of IInv: the rows, and what is there when nothing is in flight.
PageDue == [options |-> options, page |-> currentPage]

\* The rows: all were asked for with the options, page after page, fill no more
\* than their pages, and were due.
GoodRows ==
    /\ \A i \in DOMAIN proposals :
          /\ proposals[i].asked.options = options
          /\ proposals[i].asked.page <= currentPage
          /\ ajax # {} => proposals[i].asked.page < currentPage
          /\ proposals[i].id \in Proposals!Counted(options)
    /\ \A i, j \in DOMAIN proposals :
          i < j => proposals[i].asked.page <= proposals[j].asked.page
    /\ Len(proposals) <= currentPage * lists.PageSize
                            + (IF ajax # {} THEN 0 ELSE lists.PageSize)

\* The button is there only when nothing is under way and nothing failed.
GoodButton ==
    /\ ajax # {} => loadMoreHidden /\ ~loadError
    /\ loadError => loadMoreHidden
    /\ stencil => ajax # {}

\* A proposal is where the list may have it.
IsAt(id, i) ==
    /\ id \in Proposals!Due(proposed, options)
    /\ Proposals!Ahead(proposed, options, id) < i
    /\ i <= Proposals!Ahead(proposed, options, id)
               + Proposals!Level(proposed, options, id)

\* A list that is as it was is shown from its beginning, page after page.
SteadyRows ==
    LET all == Cardinality(Proposals!Due(proposed, options))
    IN  drift = "none" =>
            /\ Len(proposals) <= all
            /\ \A i \in DOMAIN proposals : IsAt(proposals[i].id, i)
            /\ ajax # {} => Len(proposals) = currentPage * lists.PageSize
            /\ ajax = {} /\ ~loadError =>
                  \/ Len(proposals) = all /\ loadMoreHidden
                  \/ /\ Len(proposals) =
                           currentPage * lists.PageSize + lists.PageSize
                     /\ Len(proposals) < all
                     /\ ~loadMoreHidden

\* A proposal has another of its second.
HasTwin(id) == \E q \in options.scope : /\ q <= Len(created) /\ q # id
                                        /\ created[q] = created[id]

\* On a list that puts none of its proposals back, no page that is still to come
\* begins before one that was shown and is still due, and none is shown twice
\* that is alone in its second.
NonePutBack ==
    drift # "any" =>
        /\ \A i \in DOMAIN proposals :
              proposals[i].id \in Proposals!Due(proposed, options) =>
                 Proposals!Ahead(proposed, options, proposals[i].id)
                    < proposals[i].asked.page * lists.PageSize + lists.PageSize
        /\ \A i, j \in DOMAIN proposals :
              i # j /\ proposals[i].id = proposals[j].id =>
                 HasTwin(proposals[i].id)

\* The inductive invariant of a list.
GoodList ==
    /\ Proposals!TypeOK
    /\ AtMostOne(ajax, PageDue)
    /\ GoodRows
    /\ GoodButton
    /\ SteadyRows
    /\ NonePutBack

\* The types, as facts.
LEMMA ListTypes ==
    ASSUME Proposals!ProposalListAssumption, Proposals!TypeOK
    PROVE  /\ AreProposals(proposed)
           /\ options \in Proposals!Options /\ proposals \in Seq(Proposals!Row)
           /\ currentPage \in Nat /\ lists.PageSize \in Nat
           /\ currentPage * lists.PageSize \in Nat
           /\ (currentPage + 1) * lists.PageSize =
                 currentPage * lists.PageSize + lists.PageSize
           /\ Len(proposals) \in Nat /\ DOMAIN proposals = 1 .. Len(proposals)
           /\ \A i \in DOMAIN proposals :
                 /\ proposals[i].id \in Proposals!Proposal
                 /\ proposals[i].asked.page \in Nat
           /\ Cardinality(Proposals!Due(proposed, options)) \in Nat
<1>1. /\ AreProposals(proposed)
      /\ options \in Proposals!Options /\ proposals \in Seq(Proposals!Row)
      /\ currentPage \in Nat /\ lists.PageSize \in Nat
  BY DEF Proposals!TypeOK, AreProposals, Proposals!ProposalListAssumption
<1>2. /\ currentPage * lists.PageSize \in Nat
      /\ (currentPage + 1) * lists.PageSize =
            currentPage * lists.PageSize + lists.PageSize
  BY <1>1, PagesApart
<1>3. Len(proposals) \in Nat /\ DOMAIN proposals = 1 .. Len(proposals)
  BY <1>1, LenProperties
<1>4. \A i \in DOMAIN proposals : proposals[i] \in Proposals!Row
  BY <1>1, <1>3
<1>5. \A i \in DOMAIN proposals : /\ proposals[i].id \in Proposals!Proposal
                                  /\ proposals[i].asked.page \in Nat
  BY <1>4 DEF Proposals!Row, Proposals!Question
<1> QED
  BY <1>1, <1>2, <1>3, <1>5, DueIsFinite

\* IInv and what a list promises follow.
LEMMA ListRight ==
    ASSUME Proposals!ProposalListAssumption, GoodList
    PROVE  Proposals!IInv /\ Proposals!OneQuery /\ Proposals!PagesOnce
           /\ Proposals!SteadyListExact /\ Proposals!NoneTwice
<1>1. Proposals!Loading(ajax) <=> ajax # {}
  BY LoadsIfAny, ListAjax DEF GoodList
<1>2. /\ currentPage \in Nat /\ lists.PageSize \in Nat /\ Len(proposals) \in Nat
      /\ currentPage * lists.PageSize \in Nat
      /\ (currentPage + 1) * lists.PageSize =
            currentPage * lists.PageSize + lists.PageSize
      /\ Cardinality(Proposals!Due(proposed, options)) \in Nat
  BY ListTypes DEF GoodList
<1>3. Len(proposals) <=
          (IF Proposals!Loading(ajax) THEN currentPage ELSE currentPage + 1)
             * lists.PageSize
  BY <1>1, <1>2 DEF GoodList, GoodRows
<1>4. Proposals!IInv
  BY <1>1, <1>3
     DEF GoodList, GoodRows, GoodButton, AtMostOne, PageDue, Proposals!IInv
<1>5. Proposals!OneQuery
  BY DEF GoodList, GoodRows, Proposals!OneQuery
<1>6. Proposals!PagesOnce
  BY <1>1, <1>2 DEF GoodList, GoodRows, GoodButton, Proposals!PagesOnce
<1>7. Proposals!SteadyListExact
  BY <1>1, <1>2, CountedAlike
     DEF GoodList, SteadyRows, IsAt, Proposals!SteadyListExact
<1>8. Proposals!NoneTwice
  BY DEF GoodList, NonePutBack, HasTwin, Proposals!NoneTwice
<1> QED
  BY <1>4, <1>5, <1>6, <1>7, <1>8

-----------------------------------------------------------------------------
\* What a list looks like when it was just asked for.
LEMMA Started ==
    ASSUME Proposals!ProposalListAssumption, NEW o \in Proposals!Options,
           AreProposals(proposed)',
           options' = o, proposals' = <<>>, currentPage' = 0,
           stencil' = TRUE, loadError' = FALSE, loadMoreHidden' = TRUE,
           drift' = "none",
           ajax' = {[of |-> [options |-> o, page |-> 0], last |-> TRUE]}
    PROVE  GoodList'
<1>1. /\ [options |-> o, page |-> 0] \in Proposals!Question
      /\ <<>> \in Seq(Proposals!Row) /\ Len(<<>>) = 0
  BY EmptySeq DEF Proposals!Question
<1>2. Proposals!TypeOK'
  <2>1. ajax' \subseteq Proposals!Request(Proposals!Question)
    BY <1>1 DEF Proposals!Request
  <2> QED
    BY <1>1, <2>1 DEF Proposals!TypeOK, AreProposals, Proposals!Drift
<1>3. DOMAIN proposals' = {}
  BY <1>1
<1>4. /\ 0 * lists.PageSize = 0 /\ lists.PageSize \in Nat
      /\ ajax' # {} /\ Len(proposals') = 0
  BY <1>1, PagesApart DEF Proposals!ProposalListAssumption
<1>5. AtMostOne(ajax, PageDue)'
  BY DEF AtMostOne, PageDue
<1>6. GoodRows' /\ GoodButton' /\ NonePutBack'
  BY <1>3, <1>4 DEF GoodRows, GoodButton, NonePutBack
<1>7. SteadyRows'
  <2>1. Cardinality(Proposals!Due(proposed', o)) \in Nat
    <3>1. Len(proposed') \in Nat
      BY LenProperties DEF AreProposals
    <3>2. Proposals!Due(proposed', o) \subseteq 1 .. Len(proposed')
      BY DEF Proposals!Due
    <3> QED
      BY <3>1, <3>2, UpToNat
  <2>2. Len(proposals') = currentPage' * lists.PageSize
    BY <1>4
  <2>3. Len(proposals') <= Cardinality(Proposals!Due(proposed', o))
    BY <1>4, <2>1
  <2> QED
    BY <1>3, <1>4, <2>2, <2>3 DEF SteadyRows
<1> QED
  BY <1>2, <1>5, <1>6, <1>7 DEF GoodList

\* A list begins like this.
LEMMA ListInit ==
    ASSUME Proposals!ProposalListAssumption, Proposals!Init
    PROVE  GoodList
<1>1. options \in Proposals!Options
  BY DEF Proposals!Init, Proposals!Defaults, Proposals!Options,
     Proposals!Status, Proposals!Sort
<1>2. ajax = {[of |-> [options |-> options, page |-> 0], last |-> TRUE]}
  BY AskFirst, ListAjax DEF Proposals!Init
<1>3. /\ proposed = <<>> /\ created = <<>>
      /\ proposals = <<>> /\ currentPage = 0
      /\ stencil = TRUE /\ loadError = FALSE /\ loadMoreHidden = TRUE
      /\ drift = "none"
  BY DEF Proposals!Init
<1>4. /\ <<>> \in Seq(Proposals!Status \union {"unstored"})
      /\ <<>> \in Seq(Nat) /\ <<>> \in Seq(Proposals!Row)
      /\ Len(<<>>) = 0
      /\ lists.MaxProposals \in Nat /\ lists.PageSize \in Nat
  BY EmptySeq DEF Proposals!ProposalListAssumption
<1>5. Proposals!TypeOK
  <2>1. [options |-> options, page |-> 0] \in Proposals!Question
    BY <1>1 DEF Proposals!Question
  <2>2. ajax \subseteq Proposals!Request(Proposals!Question)
    BY <1>2, <2>1 DEF Proposals!Request
  <2>3. /\ proposed \in Seq(Proposals!Status \union {"unstored"})
        /\ created \in Seq(Nat) /\ proposals \in Seq(Proposals!Row)
    BY <1>3, <1>4
  <2>4. Len(proposed) <= lists.MaxProposals /\ Len(created) = Len(proposed)
    BY <1>3, <1>4
  <2> QED
    BY <1>1, <1>3, <2>2, <2>3, <2>4 DEF Proposals!TypeOK, Proposals!Drift
<1>6. AtMostOne(ajax, PageDue)
  BY <1>2, <1>3 DEF AtMostOne, PageDue
<1>7. DOMAIN proposals = {} /\ ajax # {} /\ Len(proposals) = 0
  BY <1>2, <1>3, <1>4
<1>8. 0 * lists.PageSize = 0
  BY <1>4, PagesApart
<1>9. GoodRows /\ GoodButton /\ NonePutBack
  BY <1>3, <1>4, <1>7, <1>8 DEF GoodRows, GoodButton, NonePutBack
<1>10. SteadyRows
  <2>1. Cardinality(Proposals!Due(proposed, options)) \in Nat
    BY <1>5, ListTypes
  <2> QED
    BY <1>3, <1>7, <1>8, <2>1 DEF SteadyRows
<1> QED
  BY <1>5, <1>6, <1>9, <1>10 DEF GoodList

\* The user asks for another list.
LEMMA ChangedOK ==
    ASSUME Proposals!ProposalListAssumption, GoodList,
           NEW o \in Proposals!Options,
           Proposals!QueryOptionsChanged(o)
    PROVE  GoodList'
<1>1. ajax' = {[of |-> [options |-> o, page |-> 0], last |-> TRUE]}
  BY AskAgain, ListAjax
     DEF GoodList, Proposals!QueryOptionsChanged, Proposals!Fetch,
        Proposals!RequestPage
<1>2. AreProposals(proposed)'
  BY ListTypes DEF GoodList, AreProposals, Proposals!QueryOptionsChanged
<1> QED
  BY <1>1, <1>2, Started
     DEF Proposals!QueryOptionsChanged, Proposals!Fetch, Proposals!RequestPage

\* The server's proposals change, and what was shown is left as it was.
LEMMA ServerOK ==
    ASSUME Proposals!ProposalListAssumption, GoodList, Proposals!TypeOK',
           UNCHANGED <<options, proposals, currentPage, stencil, loadError,
                       loadMoreHidden, ajax>>,
           Len(proposed) <= Len(proposed'),
           \A q \in 1 .. Len(proposed) : created'[q] = created[q],
           Proposals!Counted(options) \subseteq Proposals!Counted(options)',
           drift' = "none" =>
              drift = "none" /\ Proposals!Due(proposed', options) =
                                   Proposals!Due(proposed, options),
           drift' # "any" =>
              /\ drift # "any"
              /\ \A p \in Proposals!Due(proposed', options) :
                    p \in Proposals!Counted(options) =>
                       /\ p \in Proposals!Due(proposed, options)
                       /\ Proposals!Ahead(proposed, options, p)' <=
                             Proposals!Ahead(proposed, options, p)
    PROVE  GoodList'
<1>1. /\ AreProposals(proposed) /\ AreProposals(proposed)'
      /\ options \in Proposals!Options
      /\ Len(proposed) \in Nat /\ Len(proposed') \in Nat
      /\ Len(created) = Len(proposed) /\ Len(created') = Len(proposed')
  BY ListTypes, LenProperties DEF GoodList, Proposals!TypeOK, AreProposals
<1>2. AtMostOne(ajax, PageDue)' /\ GoodRows' /\ GoodButton'
  BY DEF GoodList, AtMostOne, PageDue, GoodRows, GoodButton
<1>3. SteadyRows'
  <2> SUFFICES ASSUME drift' = "none"
               PROVE  SteadyRows'
    BY DEF SteadyRows
  <2>1. \A p \in Proposals!Due(proposed, options) :
           /\ Proposals!Ahead(proposed, options, p)' =
                 Proposals!Ahead(proposed, options, p)
           /\ Proposals!Level(proposed, options, p)' =
                 Proposals!Level(proposed, options, p)
    <3> SUFFICES ASSUME NEW p \in Proposals!Due(proposed, options)
                 PROVE  /\ Proposals!Ahead(proposed, options, p)' =
                              Proposals!Ahead(proposed, options, p)
                        /\ Proposals!Level(proposed, options, p)' =
                              Proposals!Level(proposed, options, p)
      OBVIOUS
    <3> DEFINE due == Proposals!Due(proposed, options)
    <3>1. \A q \in due : created'[q] = created[q]
      BY <1>1, DueIsFinite
    <3>2. Proposals!Due(proposed, options)' = due
      OBVIOUS
    <3> HIDE DEF due
    <3>3. p \in due
      BY DEF due
    <3>4. {q \in due : Proposals!Sooner(options, q, p)'} =
             {q \in due : Proposals!Sooner(options, q, p)}
      BY <3>1, <3>3 DEF Proposals!Sooner
    <3>5. {q \in due : created'[q] = created'[p]} =
             {q \in due : created[q] = created[p]}
      BY <3>1, <3>3
    <3> QED
      BY <3>2, <3>4, <3>5 DEF Proposals!Ahead, Proposals!Level, due
  <2>2. /\ drift = "none"
        /\ Proposals!Due(proposed, options)' = Proposals!Due(proposed, options)
    OBVIOUS
  <2>3. \A i \in DOMAIN proposals : IsAt(proposals[i].id, i)'
    BY <2>1, <2>2 DEF GoodList, SteadyRows, IsAt
  <2> QED
    BY <2>2, <2>3 DEF GoodList, SteadyRows
<1>4. NonePutBack'
  <2> SUFFICES ASSUME drift' # "any"
               PROVE  NonePutBack'
    BY DEF NonePutBack
  <2>1. \A i \in DOMAIN proposals :
           /\ proposals[i].id \in Proposals!Counted(options)
           /\ proposals[i].id \in 1 .. Len(proposed)
    BY DEF GoodList, GoodRows, Proposals!Counted
  <2>2. ASSUME NEW i \in DOMAIN proposals,
               proposals[i].id \in Proposals!Due(proposed', options)
        PROVE  Proposals!Ahead(proposed, options, proposals[i].id)'
                  < proposals[i].asked.page * lists.PageSize + lists.PageSize
    <3> DEFINE id == proposals[i].id
    <3>1. /\ id \in Proposals!Due(proposed, options)
          /\ Proposals!Ahead(proposed, options, id)' <=
                Proposals!Ahead(proposed, options, id)
      BY <2>1, <2>2
    <3>2. Proposals!Ahead(proposed, options, id)
             < proposals[i].asked.page * lists.PageSize + lists.PageSize
      BY <3>1 DEF GoodList, NonePutBack
    <3>3. /\ Proposals!Ahead(proposed, options, id) \in Nat
          /\ Proposals!Ahead(proposed, options, id)' \in Nat
      <4>1. \A p : Proposals!Ahead(proposed, options, p) \in Nat
        BY <1>1, DueIsFinite
      <4>2. {q \in Proposals!Due(proposed', options) :
               Proposals!Sooner(options, q, id)'} \subseteq 1 .. Len(proposed')
        BY DEF Proposals!Due
      <4>3. Cardinality({q \in Proposals!Due(proposed', options) :
                            Proposals!Sooner(options, q, id)'}) \in Nat
        BY <1>1, <4>2, UpToNat
      <4> QED
        BY <4>1, <4>3, CountedAlike DEF Proposals!Ahead
    <3>4. proposals[i].asked.page * lists.PageSize + lists.PageSize \in Nat
      <4>1. proposals[i].asked.page \in Nat /\ lists.PageSize \in Nat
        BY ListTypes DEF GoodList
      <4> QED
        BY <4>1, PagesApart
    <3> QED
      BY <3>1, <3>2, <3>3, <3>4
  <2>3. ASSUME NEW i \in DOMAIN proposals, HasTwin(proposals[i].id)
        PROVE  HasTwin(proposals[i].id)'
    <3> DEFINE id == proposals[i].id
    <3>1. PICK q \in options.scope : /\ q <= Len(created) /\ q # id
                                     /\ created[q] = created[id]
      BY <2>3 DEF HasTwin
    <3>2. q \in 1 .. lists.MaxProposals
      BY <1>1 DEF Proposals!Options, Proposals!ProposalListAssumption,
                  Proposals!Proposal
    <3>3. q \in 1 .. Len(proposed)
      BY <1>1, <3>1, <3>2
    <3>4. q <= Len(created') /\ created'[q] = created'[id]
      BY <1>1, <2>1, <3>1, <3>3
    <3> QED
      BY <3>1, <3>4 DEF HasTwin
  <2>4. \A i, j \in DOMAIN proposals :
           i # j /\ proposals[i].id = proposals[j].id =>
              HasTwin(proposals[i].id)
    BY DEF GoodList, NonePutBack
  <2> QED
    BY <2>2, <2>3, <2>4 DEF NonePutBack
<1> QED
  BY <1>2, <1>3, <1>4 DEF GoodList


\* The second of one more is read: it is not on any list yet.
LEMMA StampOK ==
    ASSUME Proposals!ProposalListAssumption, GoodList,
           Proposals!GetNowTimestamp
    PROVE  GoodList'
<1>1. /\ proposed \in Seq(Proposals!Status \union {"unstored"})
      /\ created \in Seq(Nat) /\ options \in Proposals!Options
      /\ Len(proposed) \in Nat /\ Len(created) = Len(proposed)
      /\ lists.MaxProposals \in Nat
  BY LenProperties
     DEF GoodList, Proposals!TypeOK, Proposals!ProposalListAssumption
<1>2. PICK second \in Nat : created' = Append(created, second)
  <2>1. Len(created) = 0 \/ created[Len(created)] \in Nat
    BY <1>1
  <2> QED
    BY <1>1, <2>1 DEF Proposals!GetNowTimestamp
<1>3. /\ created' \in Seq(Nat) /\ Len(created') = Len(created) + 1
      /\ \A q \in 1 .. Len(created) : created'[q] = created[q]
  BY <1>1, <1>2, AppendProperties
<1>4. /\ proposed' = Append(proposed, "unstored")
      /\ Len(created) < lists.MaxProposals
      /\ UNCHANGED <<options, proposals, currentPage, stencil, loadError,
                     loadMoreHidden, ajax, drift>>
  BY DEF Proposals!GetNowTimestamp, Proposals!shown
<1>5. /\ proposed' \in Seq(Proposals!Status \union {"unstored"})
      /\ Len(proposed') = Len(proposed) + 1
      /\ \A q \in 1 .. Len(proposed) : proposed'[q] = proposed[q]
      /\ proposed'[Len(proposed) + 1] = "unstored"
  BY <1>1, <1>4, AppendProperties
<1>6. Proposals!TypeOK'
  BY <1>1, <1>3, <1>4, <1>5 DEF GoodList, Proposals!TypeOK
<1>7. \A q \in 1 .. Len(proposed') :
         q \in 1 .. Len(proposed) \/ q = Len(proposed) + 1
  BY <1>1, <1>5
<1>8. \A q \in 1 .. Len(proposed) : q \in 1 .. Len(proposed')
  BY <1>1, <1>5
<1>9. Proposals!Due(proposed', options) = Proposals!Due(proposed, options)
  <2>1. options.status # "unstored"
    BY <1>1 DEF Proposals!Options, Proposals!Status
  <2> QED
    BY <1>5, <1>7, <1>8, <2>1 DEF Proposals!Due
<1>10. Proposals!Counted(options) \subseteq Proposals!Counted(options)'
  BY <1>4, <1>5, <1>8 DEF Proposals!Counted
<1>11. ASSUME NEW p \in Proposals!Due(proposed', options)
       PROVE  /\ p \in Proposals!Due(proposed, options)
              /\ Proposals!Ahead(proposed, options, p)' <=
                    Proposals!Ahead(proposed, options, p)
  <2> DEFINE due == Proposals!Due(proposed, options)
  <2>1. /\ p \in due /\ Proposals!Due(proposed', options') = due
        /\ AreProposals(proposed)
    BY <1>4, <1>9, <1>11, ListTypes DEF GoodList
  <2>2. \A q \in due : created'[q] = created[q]
    BY <1>1, <1>3 DEF Proposals!Due
  <2> HIDE DEF due
  <2>3. {q \in due : Proposals!Sooner(options, q, p)'} =
           {q \in due : Proposals!Sooner(options, q, p)}
    BY <1>4, <2>1, <2>2 DEF Proposals!Sooner
  <2>4. Proposals!Ahead(proposed, options, p)' =
           Proposals!Ahead(proposed, options, p)
    BY <1>4, <2>1, <2>3 DEF Proposals!Ahead, due
  <2>5. Proposals!Ahead(proposed, options, p) \in Nat
    BY <2>1, DueIsFinite
  <2> QED
    BY <2>1, <2>4, <2>5 DEF due
<1> QED
  BY <1>1, <1>3, <1>4, <1>5, <1>6, <1>9, <1>10, <1>11, ServerOK

\* One that is on a list was counted there only if it was already on it.
LEMMA DecidedOK ==
    ASSUME Proposals!ProposalListAssumption, GoodList,
           NEW s \in Seq(Proposals!Status \union {"unstored"}),
           Len(s) = Len(proposed),
           \A q \in 1 .. Len(proposed) :
              /\ q \in Proposals!Counted(options) =>
                    s[q] # "unstored" /\ options.status \in {s[q], "pending"}
              /\ q \in Proposals!Counted(options) /\ s[q] = options.status =>
                    proposed[q] = options.status,
           Proposals!ServerChanges(s)
    PROVE  GoodList'
<1>1. /\ AreProposals(proposed) /\ options \in Proposals!Options
      /\ Len(proposed) \in Nat /\ drift \in Proposals!Drift
  BY ListTypes, LenProperties DEF GoodList, Proposals!TypeOK, AreProposals
<1>2. /\ proposed' = s
      /\ UNCHANGED <<created, options, proposals, currentPage, stencil,
                     loadError, loadMoreHidden, ajax>>
  BY DEF Proposals!ServerChanges, Proposals!shown
<1>3. \/ /\ drift' = drift
         /\ Proposals!Due(s, options) = Proposals!Due(proposed, options)
      \/ /\ drift' = "behind" /\ drift # "any"
         /\ \A p \in Proposals!Due(proposed, options) :
               Proposals!Ahead(s, options, p) <=
                  Proposals!Ahead(proposed, options, p)
      \/ drift' = "any"
  BY DEF Proposals!ServerChanges
<1>4. Proposals!TypeOK'
  BY <1>1, <1>2, <1>3 DEF GoodList, Proposals!TypeOK, Proposals!Drift
<1>5. Proposals!Counted(options) \subseteq Proposals!Counted(options)'
  BY <1>2 DEF Proposals!Counted
<1>6. ASSUME NEW p \in Proposals!Due(proposed', options),
             p \in Proposals!Counted(options), drift' # "any"
      PROVE  /\ p \in Proposals!Due(proposed, options)
             /\ Proposals!Ahead(proposed, options, p)' <=
                   Proposals!Ahead(proposed, options, p)
  <2>1. p \in Proposals!Due(proposed, options)
    BY <1>2, <1>6 DEF Proposals!Due, Proposals!Counted
  <2>2. Proposals!Ahead(proposed, options, p)' = Proposals!Ahead(s, options, p)
    BY <1>2 DEF Proposals!Ahead, Proposals!Due, Proposals!Sooner
  <2>3. Proposals!Ahead(proposed, options, p) \in Nat
    BY <1>1, DueIsFinite
  <2>4. Proposals!Due(s, options) = Proposals!Due(proposed, options) =>
           Proposals!Ahead(s, options, p) =
              Proposals!Ahead(proposed, options, p)
    BY DEF Proposals!Ahead
  <2> QED
    BY <1>3, <1>6, <2>1, <2>2, <2>3, <2>4
<1>7. /\ Len(proposed) <= Len(proposed')
      /\ \A q \in 1 .. Len(proposed) : created'[q] = created[q]
      /\ drift' = "none" =>
            drift = "none" /\ Proposals!Due(proposed', options) =
                                 Proposals!Due(proposed, options)
      /\ drift' # "any" => drift # "any"
  BY <1>1, <1>2, <1>3
<1> QED
  BY <1>2, <1>4, <1>5, <1>6, <1>7, ServerOK

\* A proposal is stored: before, it was not counted.
LEMMA StoredOK ==
    ASSUME Proposals!ProposalListAssumption, GoodList,
           NEW p \in 1 .. Len(proposed), Proposals!Submit(p)
    PROVE  GoodList'
<1> DEFINE s == [proposed EXCEPT ![p] = "pending"]
<1>1. /\ proposed \in Seq(Proposals!Status \union {"unstored"})
      /\ "pending" \in Proposals!Status \union {"unstored"}
  BY DEF GoodList, Proposals!TypeOK, Proposals!Status
<1>2. /\ s \in Seq(Proposals!Status \union {"unstored"})
      /\ Len(s) = Len(proposed)
      /\ \A q \in 1 .. Len(proposed) :
            s[q] = IF q = p THEN "pending" ELSE proposed[q]
  BY <1>1, ExceptSeq
<1>3. proposed[p] = "unstored" /\ Proposals!ServerChanges(s)
  BY DEF Proposals!Submit
<1> HIDE DEF s
<1>4. \A q \in 1 .. Len(proposed) :
         q \in Proposals!Counted(options) =>
            s[q] = proposed[q] /\ s[q] # "unstored"
               /\ options.status \in {s[q], "pending"}
  BY <1>2, <1>3 DEF Proposals!Counted
<1> QED
  BY <1>2, <1>3, <1>4, DecidedOK

\* One that is decided on was pending: it leaves the list of those, and is new
\* to another.
LEMMA CloseOK ==
    ASSUME Proposals!ProposalListAssumption, GoodList,
           NEW p \in 1 .. Len(proposed),
           NEW status \in Proposals!Status \ {"pending"},
           Proposals!Close(p, status)
    PROVE  GoodList'
<1> DEFINE s == [proposed EXCEPT ![p] = status]
<1>1. /\ proposed \in Seq(Proposals!Status \union {"unstored"})
      /\ status \in Proposals!Status \union {"unstored"}
  BY DEF GoodList, Proposals!TypeOK
<1>2. /\ s \in Seq(Proposals!Status \union {"unstored"})
      /\ Len(s) = Len(proposed)
      /\ \A q \in 1 .. Len(proposed) :
            s[q] = IF q = p THEN status ELSE proposed[q]
  BY <1>1, ExceptSeq
<1>3. /\ proposed[p] = "pending" /\ status # "pending" /\ status # "unstored"
      /\ Proposals!ServerChanges(s)
  BY DEF Proposals!Close, Proposals!Status
<1> HIDE DEF s
<1>4. \A q \in 1 .. Len(proposed) :
         q \in Proposals!Counted(options) =>
            /\ s[q] # "unstored" /\ options.status \in {s[q], "pending"}
            /\ s[q] = options.status => proposed[q] = options.status
  BY <1>2, <1>3 DEF Proposals!Counted
<1> QED
  BY <1>2, <1>3, <1>4, DecidedOK

\* Where a proposal may be is the same when the server's are.
LEMMA ServerStill ==
    ASSUME UNCHANGED <<proposed, created, options>>
    PROVE  /\ Proposals!Due(proposed, options)' =
                 Proposals!Due(proposed, options)
           /\ Proposals!Counted(options)' = Proposals!Counted(options)
           /\ \A p : /\ Proposals!Ahead(proposed, options, p)' =
                           Proposals!Ahead(proposed, options, p)
                     /\ Proposals!Level(proposed, options, p)' =
                           Proposals!Level(proposed, options, p)
                     /\ HasTwin(p)' <=> HasTwin(p)
           /\ \A p, i : IsAt(p, i)' <=> IsAt(p, i)
<1>1. /\ Proposals!Due(proposed, options)' = Proposals!Due(proposed, options)
      /\ Proposals!Counted(options)' = Proposals!Counted(options)
  BY DEF Proposals!Due, Proposals!Counted
<1>2. ASSUME NEW p
      PROVE  /\ Proposals!Ahead(proposed, options, p)' =
                   Proposals!Ahead(proposed, options, p)
             /\ Proposals!Level(proposed, options, p)' =
                   Proposals!Level(proposed, options, p)
             /\ HasTwin(p)' <=> HasTwin(p)
  BY <1>1 DEF Proposals!Ahead, Proposals!Level, Proposals!Sooner, HasTwin
<1>3. \A p, i : IsAt(p, i)' <=> IsAt(p, i)
  BY <1>1, <1>2 DEF IsAt
<1> QED
  BY <1>1, <1>2, <1>3

\* The user asks for the next page.
LEMMA MoreOK ==
    ASSUME Proposals!ProposalListAssumption, GoodList, Proposals!LoadMoreClicked
    PROVE  GoodList'
<1> DEFINE q == [options |-> options, page |-> currentPage + 1]
<1>1. ajax' = {[of |-> q, last |-> TRUE]}
  BY AskAgain, ListAjax
     DEF GoodList, Proposals!LoadMoreClicked, Proposals!RequestPage
<1>2. /\ ~loadMoreHidden /\ currentPage' = currentPage + 1
      /\ loadMoreHidden' = TRUE /\ loadError' = FALSE
      /\ UNCHANGED <<proposed, created, options, proposals, stencil,
                     drift>>
  BY DEF Proposals!LoadMoreClicked, Proposals!RequestPage
<1>3. /\ ajax = {} /\ ~loadError /\ stencil = FALSE
  BY <1>2 DEF GoodList, GoodButton, Proposals!TypeOK
<1>4. /\ currentPage \in Nat /\ currentPage + 1 \in Nat
      /\ lists.PageSize \in Nat
      /\ Len(proposals) \in Nat /\ options \in Proposals!Options
      /\ currentPage * lists.PageSize \in Nat
      /\ (currentPage + 1) * lists.PageSize =
            currentPage * lists.PageSize + lists.PageSize
  BY ListTypes DEF GoodList
<1>5. ajax' \subseteq Proposals!Request(Proposals!Question) /\ ajax' # {}
  <2>1. q \in Proposals!Question
    BY <1>4 DEF Proposals!Question
  <2> QED
    BY <1>1, <2>1 DEF Proposals!Request
<1>6. AtMostOne(ajax, PageDue)'
  BY <1>1, <1>2 DEF AtMostOne, PageDue
<1>7. Proposals!TypeOK'
  BY <1>2, <1>4, <1>5 DEF GoodList, Proposals!TypeOK
<1>8. \A i \in DOMAIN proposals : proposals[i].asked.page \in Nat
  BY ListTypes DEF GoodList
<1>9. GoodRows'
  <2>1. \A i \in DOMAIN proposals :
           proposals[i].asked.page <= currentPage + 1
              /\ proposals[i].asked.page < currentPage + 1
    BY <1>4, <1>8 DEF GoodList, GoodRows
  <2>2. Len(proposals) <= (currentPage + 1) * lists.PageSize
    BY <1>3, <1>4 DEF GoodList, GoodRows
  <2> QED
    BY <1>2, <1>4, <1>5, <2>1, <2>2, ServerStill
       DEF GoodList, GoodRows
<1>10. GoodButton' /\ NonePutBack'
  <2>1. GoodButton'
    BY <1>2, <1>3, <1>5 DEF GoodList, GoodButton
  <2>2. NonePutBack'
    BY <1>2, ServerStill DEF GoodList, NonePutBack
  <2> QED
    BY <2>1, <2>2
<1>11. SteadyRows'
  <2> SUFFICES ASSUME drift = "none"
               PROVE  SteadyRows'
    BY <1>2 DEF SteadyRows
  <2>1. Len(proposals) = (currentPage + 1) * lists.PageSize
    BY <1>2, <1>3, <1>4 DEF GoodList, SteadyRows
  <2> QED
    BY <1>2, <1>5, <2>1, ServerStill DEF GoodList, SteadyRows
<1> QED
  BY <1>6, <1>7, <1>9, <1>10, <1>11 DEF GoodList

\* A request fails.
LEMMA FailedOK ==
    ASSUME Proposals!ProposalListAssumption, GoodList, NEW r \in ajax,
           Proposals!GetError(r)
    PROVE  GoodList'
<1>1. ajax' = {} /\ ajax # {}
  BY LastOneEnds, ListAjax
     DEF GoodList, Proposals!GetError, Proposals!NoRequests
<1>2. /\ loadError' = TRUE /\ stencil' = FALSE /\ loadMoreHidden
      /\ UNCHANGED <<proposed, created, options, proposals, currentPage,
                     loadMoreHidden, drift>>
  BY <1>1 DEF GoodList, GoodButton, Proposals!GetError
<1>3. Proposals!TypeOK' /\ AtMostOne(ajax, PageDue)'
  BY <1>1, <1>2 DEF GoodList, Proposals!TypeOK, AtMostOne
<1>4. /\ currentPage * lists.PageSize \in Nat /\ lists.PageSize \in Nat
      /\ Len(proposals) \in Nat
  BY ListTypes DEF GoodList
<1>5. GoodRows' /\ GoodButton'
  BY <1>1, <1>2, <1>4, ServerStill DEF GoodList, GoodRows, GoodButton
<1>6. SteadyRows' /\ NonePutBack'
  BY <1>1, <1>2, ServerStill DEF GoodList, SteadyRows, NonePutBack
<1> QED
  BY <1>3, <1>5, <1>6 DEF GoodList


\* A page arrives: rows for what was found are added to those before.
LEMMA Arrived ==
    ASSUME Proposals!ProposalListAssumption, GoodList, NEW r \in ajax,
           NEW found \in Seq(Proposals!Due(proposed, options)), NEW total,
           Proposals!Show(r, found, total)
    PROVE  LET old == Len(proposals)
           IN  /\ ajax # {} /\ ajax' = {} /\ stencil' = FALSE
               /\ UNCHANGED <<proposed, created, options, currentPage,
                              loadError>>
               /\ proposals' \in Seq(Proposals!Row)
               /\ Len(proposals') = old + Len(found)
               /\ old \in Nat /\ Len(found) \in Nat
               /\ \A i \in 1 .. old : proposals'[i] = proposals[i]
               /\ \A i \in 1 .. old + Len(found) : i > old =>
                     /\ i - old \in 1 .. Len(found)
                     /\ proposals'[i] =
                           [id |-> found[i - old], asked |-> PageDue]
               /\ loadMoreHidden' \in BOOLEAN
               /\ loadMoreHidden' <=> old + Len(found) = total
<1> DEFINE added == [i \in DOMAIN found |-> [id |-> found[i],
                                             asked |-> PageDue]]
<1>1. /\ r = [of |-> PageDue, last |-> TRUE]
      /\ ajax \ {r} = {} /\ ajax # {}
  BY LastOneEnds, ListAjax DEF GoodList, Proposals!NoRequests
<1>2. /\ AreProposals(proposed) /\ proposals \in Seq(Proposals!Row)
      /\ PageDue \in Proposals!Question
  BY ListTypes DEF GoodList, Proposals!Question, PageDue
<1>3. /\ proposals' = proposals \o added
      /\ loadMoreHidden' = (Len(proposals) + Len(added) = total)
      /\ ajax' = {} /\ stencil' = FALSE
      /\ UNCHANGED <<proposed, created, options, currentPage, loadError>>
  BY <1>1 DEF Proposals!Show
<1>4. Proposals!Due(proposed, options) \subseteq Proposals!Proposal
  BY <1>2, DueIsFinite
<1>5. /\ Len(found) \in Nat /\ DOMAIN found = 1 .. Len(found)
      /\ \A i \in 1 .. Len(found) : found[i] \in Proposals!Proposal
  BY <1>4, LenProperties
<1>6. /\ added \in Seq(Proposals!Row) /\ Len(added) = Len(found)
      /\ \A i \in 1 .. Len(found) :
            added[i] = [id |-> found[i], asked |-> PageDue]
  <2>1. \A i \in 1 .. Len(found) :
           [id |-> found[i], asked |-> PageDue] \in Proposals!Row
    BY <1>2, <1>5 DEF Proposals!Row
  <2> QED
    BY <1>5, <2>1
<1> HIDE DEF added
<1>7. /\ proposals' \in Seq(Proposals!Row)
      /\ Len(proposals') = Len(proposals) + Len(found)
      /\ \A i \in 1 .. Len(proposals) + Len(found) :
            proposals'[i] = IF i <= Len(proposals) THEN proposals[i]
                            ELSE added[i - Len(proposals)]
  <2>1. /\ proposals \o added \in Seq(Proposals!Row)
        /\ Len(proposals \o added) = Len(proposals) + Len(added)
        /\ \A i \in 1 .. Len(proposals) + Len(added) :
              (proposals \o added)[i] = IF i <= Len(proposals) THEN proposals[i]
                                       ELSE added[i - Len(proposals)]
    BY <1>2, <1>6, ConcatProperties
  <2>2. Len(added) = Len(found) /\ proposals' = proposals \o added
    BY <1>3, <1>6
  <2> QED
    BY <2>1, <2>2
<1>8. Len(proposals) \in Nat
  BY <1>2, LenProperties
<1>9. \A i \in 1 .. Len(proposals) : proposals'[i] = proposals[i]
  BY <1>5, <1>7, <1>8
<1>10. ASSUME NEW i \in 1 .. Len(proposals) + Len(found), i > Len(proposals)
       PROVE  /\ i - Len(proposals) \in 1 .. Len(found)
              /\ proposals'[i] =
                    [id |-> found[i - Len(proposals)], asked |-> PageDue]
  <2>1. i - Len(proposals) \in 1 .. Len(found)
    BY <1>5, <1>8, <1>10
  <2>2. proposals'[i] = added[i - Len(proposals)]
    BY <1>7, <1>8, <1>10
  <2>3. PICK j \in 1 .. Len(found) : j = i - Len(proposals)
    BY <2>1
  <2>4. added[j] = [id |-> found[j], asked |-> PageDue]
    BY <1>6
  <2> QED
    BY <2>1, <2>2, <2>3, <2>4
<1>11. /\ loadMoreHidden' \in BOOLEAN
       /\ loadMoreHidden' <=> Len(proposals) + Len(found) = total
  BY <1>3, <1>6
<1> QED
  BY <1>1, <1>3, <1>5, <1>7, <1>8, <1>9, <1>10, <1>11

\* They keep the rows good if they are no more than a page.
LEMMA ArrivedGood ==
    ASSUME Proposals!ProposalListAssumption, GoodList, NEW r \in ajax,
           NEW found \in Seq(Proposals!Due(proposed, options)), NEW total,
           Len(found) <= lists.PageSize, drift' \in Proposals!Drift,
           Proposals!Show(r, found, total)
    PROVE  /\ Proposals!TypeOK' /\ AtMostOne(ajax, PageDue)'
           /\ GoodRows' /\ GoodButton'
           /\ Len(proposals) <= currentPage * lists.PageSize
           /\ \A i \in 1 .. Len(proposals) :
                 /\ proposals[i].asked.page \in Nat
                 /\ proposals[i].asked.page < currentPage
           /\ \A i \in 1 .. Len(proposals) + Len(found) :
                 i > Len(proposals) => /\ proposals'[i].asked.page = currentPage
                                       /\ proposals'[i].id =
                                             found[i - Len(proposals)]
<1> DEFINE old == Len(proposals)
           offset == currentPage * lists.PageSize
<1>1. /\ ajax # {} /\ ajax' = {} /\ stencil' = FALSE
      /\ UNCHANGED <<proposed, created, options, currentPage, loadError>>
  BY Arrived
<1>2. /\ proposals' \in Seq(Proposals!Row)
      /\ Len(proposals') = old + Len(found)
      /\ old \in Nat /\ Len(found) \in Nat
      /\ \A i \in 1 .. old : proposals'[i] = proposals[i]
      /\ \A i \in 1 .. old + Len(found) : i > old =>
            /\ i - old \in 1 .. Len(found)
            /\ proposals'[i] = [id |-> found[i - old], asked |-> PageDue]
      /\ loadMoreHidden' \in BOOLEAN
  BY Arrived
<1>3. /\ AreProposals(proposed) /\ options \in Proposals!Options
      /\ currentPage \in Nat /\ lists.PageSize \in Nat /\ offset \in Nat
      /\ DOMAIN proposals = 1 .. old
      /\ \A i \in 1 .. old : proposals[i].asked.page \in Nat
  BY ListTypes DEF GoodList
<1>4. DOMAIN proposals' = 1 .. old + Len(found)
  BY <1>2
<1>5. PageDue.options = options /\ PageDue.page = currentPage
  BY DEF PageDue
<1>6. \A i \in 1 .. Len(found) :
         found[i] \in Proposals!Counted(options)
  <2>1. Proposals!Due(proposed, options) \subseteq Proposals!Counted(options)
    BY <1>3
       DEF Proposals!Due, Proposals!Counted, Proposals!Options, Proposals!Status
  <2> QED
    BY <2>1
<1> HIDE DEF old, offset
<1>7. Proposals!TypeOK'
  BY <1>1, <1>2 DEF GoodList, Proposals!TypeOK
<1>8. AtMostOne(ajax, PageDue)'
  BY <1>1 DEF AtMostOne
<1>9. \A i \in 1 .. old :
         /\ proposals[i].asked.options = options
         /\ proposals[i].asked.page < currentPage
         /\ proposals[i].id \in Proposals!Counted(options)
  BY <1>1, <1>3 DEF GoodList, GoodRows
<1>10. \A i \in 1 .. old + Len(found) : ~(i > old) =>
          i \in 1 .. old /\ proposals'[i] = proposals[i]
  <2>1. \A i \in 1 .. old + Len(found) : ~(i > old) => i \in 1 .. old
    BY <1>2
  <2> QED
    BY <1>2, <2>1
<1>11. \A i \in 1 .. old + Len(found) : i > old =>
          /\ proposals'[i].asked.page = currentPage
          /\ proposals'[i].asked.options = options
          /\ proposals'[i].id = found[i - old]
  BY SMTT(60), <1>2, <1>5
<1>12. old <= offset
  BY <1>1, <1>3 DEF GoodList, GoodRows, old, offset
<1>13. GoodRows'
  <2>1. ASSUME NEW i \in 1 .. old + Len(found)
        PROVE  /\ proposals'[i].asked.options = options
               /\ proposals'[i].asked.page <= currentPage
               /\ proposals'[i].id \in Proposals!Counted(options)
    <3>1. CASE i > old
      <4>1. /\ proposals'[i].asked.page = currentPage
            /\ proposals'[i].asked.options = options
            /\ proposals'[i].id = found[i - old]
        BY <1>11, <3>1
      <4>2. i - old \in 1 .. Len(found)
        BY <1>2, <3>1
      <4> QED
        BY <1>3, <1>6, <4>1, <4>2
    <3>2. CASE ~(i > old)
      <4>1. i \in 1 .. old /\ proposals'[i] = proposals[i]
        BY <1>10, <3>2
      <4> QED
        BY <1>3, <1>9, <4>1
    <3> QED
      BY <3>1, <3>2
  <2>2. ASSUME NEW i \in 1 .. old + Len(found),
               NEW j \in 1 .. old + Len(found), i < j
        PROVE  proposals'[i].asked.page <= proposals'[j].asked.page
    <3>1. CASE j > old
      <4>1. proposals'[j].asked.page = currentPage
        BY <1>11, <3>1
      <4> QED
        BY <2>1, <4>1
    <3>2. CASE ~(j > old)
      <4>1. /\ i \in 1 .. old /\ j \in 1 .. old
            /\ proposals'[i] = proposals[i] /\ proposals'[j] = proposals[j]
        BY <1>2, <2>2, <3>2
      <4> QED
        BY <1>3, <2>2, <4>1 DEF GoodList, GoodRows
    <3> QED
      BY <3>1, <3>2
  <2>3. Len(proposals') <= offset + lists.PageSize
    BY <1>2, <1>3, <1>12
  <2>4. Proposals!Counted(options)' = Proposals!Counted(options)
    BY <1>1, ServerStill
  <2> QED
    BY <1>1, <1>4, <2>1, <2>2, <2>3, <2>4 DEF GoodRows, offset
<1>14. GoodButton'
  BY <1>1 DEF GoodList, GoodButton
<1> QED
  BY <1>3, <1>7, <1>8, <1>9, <1>11, <1>12, <1>13, <1>14 DEF old, offset

\* An answer that is not up to date promises nothing of what is on the list.
LEMMA LaggingOK ==
    ASSUME Proposals!ProposalListAssumption, GoodList, NEW r \in ajax,
           Proposals!GetLaggingResponse(r)
    PROVE  GoodList'
<1>1. r.of.options = options
  BY LastOneEnds DEF GoodList, PageDue
<1>2. PICK found \in Proposals!Lagging(options),
           total \in 0 .. Proposals!Cardinality(Proposals!Counted(options)) :
              Proposals!Show(r, found, total)
  BY <1>1 DEF Proposals!GetLaggingResponse
<1>3. PICK n \in 0 .. lists.PageSize :
         found \in [1 .. n -> Proposals!Due(proposed, options)]
  BY DEF Proposals!Lagging
<1>4. lists.PageSize \in Nat
  BY DEF Proposals!ProposalListAssumption
<1>5. n \in Nat /\ n <= lists.PageSize
  BY <1>4
<1>6. /\ found \in Seq(Proposals!Due(proposed, options))
      /\ Len(found) <= lists.PageSize
  BY <1>3, <1>5
<1>7. drift' = "any"
  BY DEF Proposals!GetLaggingResponse
<1>8. drift' \in Proposals!Drift
  BY <1>7 DEF Proposals!Drift
<1>9. /\ Proposals!TypeOK' /\ AtMostOne(ajax, PageDue)'
      /\ GoodRows' /\ GoodButton'
  BY <1>2, <1>6, <1>8, ArrivedGood
<1>10. SteadyRows' /\ NonePutBack'
  BY <1>7 DEF SteadyRows, NonePutBack
<1> QED
  BY <1>9, <1>10 DEF GoodList

\* An answer keeps the list good: what it adds begins where the rows end, if
\* nothing changed, and is not before it, if none was put back.
LEMMA ResponseOK ==
    ASSUME Proposals!ProposalListAssumption, GoodList, NEW r \in ajax,
           Proposals!GetResponse(r)
    PROVE  GoodList'
<1>1. r.of.options = options /\ r.of.page = currentPage
  BY LastOneEnds DEF GoodList, PageDue
<1>2. PICK all \in Proposals!Listed(proposed, options) :
         Proposals!Show(r, Proposals!PageOf(all, currentPage), Len(all))
  BY <1>1 DEF Proposals!GetResponse
<1> DEFINE found == Proposals!PageOf(all, currentPage)
           due == Proposals!Due(proposed, options)
           old == Len(proposals)
           offset == currentPage * lists.PageSize
           ahead(p) == Proposals!Ahead(proposed, options, p)
           level(p) == Proposals!Level(proposed, options, p)
<1>3. /\ AreProposals(proposed) /\ options \in Proposals!Options
      /\ currentPage \in Nat /\ lists.PageSize \in Nat /\ offset \in Nat
      /\ DOMAIN proposals = 1 .. old
      /\ drift' = drift /\ drift \in Proposals!Drift
  BY ListTypes DEF GoodList, Proposals!TypeOK, Proposals!GetResponse
<1>4. /\ found \in Seq(due)
      /\ Len(all) = Cardinality(due)
      /\ Len(found) = IF offset + lists.PageSize < Len(all) THEN lists.PageSize
                      ELSE IF offset < Len(all) THEN Len(all) - offset ELSE 0
      /\ \A i, j \in 1 .. Len(found) : i < j => found[i] # found[j]
      /\ \A i \in 1 .. Len(found) :
            /\ found[i] \in due
            /\ ahead(found[i]) < offset + i
            /\ offset + i <= ahead(found[i]) + level(found[i])
  BY <1>3, PageProperties
<1>5. /\ \A p : ahead(p) \in Nat /\ level(p) \in Nat
      /\ Cardinality(due) \in Nat
  BY <1>3, DueIsFinite
<1> HIDE DEF found, ahead, level
<1>6. Len(found) <= lists.PageSize
  BY <1>3, <1>4, <1>5
<1>7. Proposals!Show(r, found, Len(all))
  BY <1>2 DEF found
<1>8. /\ ajax # {} /\ ajax' = {}
      /\ UNCHANGED <<proposed, created, options, currentPage, loadError>>
      /\ Len(proposals') = old + Len(found)
      /\ old \in Nat /\ Len(found) \in Nat
      /\ \A i \in 1 .. old : proposals'[i] = proposals[i]
      /\ loadMoreHidden' \in BOOLEAN
      /\ loadMoreHidden' <=> old + Len(found) = Len(all)
      /\ proposals' \in Seq(Proposals!Row)
  BY <1>4, <1>7, Arrived
<1>9. /\ Proposals!TypeOK' /\ AtMostOne(ajax, PageDue)'
      /\ GoodRows' /\ GoodButton'
  BY <1>3, <1>4, <1>6, <1>7, ArrivedGood
<1>10. /\ old <= offset
       /\ \A i \in 1 .. old : /\ proposals[i].asked.page \in Nat
                              /\ proposals[i].asked.page < currentPage
       /\ \A i \in 1 .. old + Len(found) :
             i > old => /\ proposals'[i].asked.page = currentPage
                        /\ proposals'[i].id = found[i - old]
  BY <1>3, <1>4, <1>6, <1>7, ArrivedGood
<1>11. DOMAIN proposals' = 1 .. old + Len(found)
  BY <1>8
<1>12. /\ Proposals!Due(proposed, options)' = due
       /\ \A p : /\ Proposals!Ahead(proposed, options, p)' = ahead(p)
                 /\ HasTwin(p)' <=> HasTwin(p)
       /\ \A p, i : IsAt(p, i)' <=> IsAt(p, i)
  BY <1>8, ServerStill DEF ahead
<1>13. \A p, i : IsAt(p, i) <=> /\ p \in due /\ ahead(p) < i
                                /\ i <= ahead(p) + level(p)
  BY DEF IsAt, ahead, level
<1>14. ASSUME NEW i \in 1 .. old + Len(found), i > old
       PROVE  \E k \in 1 .. Len(found) :
                 k = i - old /\ proposals'[i].id = found[k]
  BY <1>8, <1>10, <1>14
<1> HIDE DEF due, old, offset
<1>15. SteadyRows'
  <2> SUFFICES ASSUME drift = "none"
               PROVE  SteadyRows'
    BY <1>3 DEF SteadyRows
  <2>1. /\ old <= Cardinality(due) /\ old = offset
        /\ \A i \in 1 .. old : IsAt(proposals[i].id, i)
    BY <1>3, <1>8 DEF GoodList, SteadyRows, old, due, offset
  <2>2. ASSUME NEW i \in 1 .. old + Len(found)
        PROVE  IsAt(proposals'[i].id, i)
    <3>1. CASE i > old
      <4>1. PICK k \in 1 .. Len(found) :
               k = i - old /\ proposals'[i].id = found[k]
        BY <1>14, <3>1
      <4>2. offset + k = i
        BY <1>8, <2>1, <4>1
      <4> QED
        BY <1>4, <1>13, <4>1, <4>2
    <3>2. CASE ~(i > old)
      BY <1>8, <2>1, <3>2
    <3> QED
      BY <3>1, <3>2
  <2>3. \/ old + Len(found) = Len(all)
        \/ /\ old + Len(found) = offset + lists.PageSize
           /\ old + Len(found) < Len(all)
    BY <1>3, <1>4, <1>5, <2>1
  <2>4. old + Len(found) <= Len(all)
    BY <1>3, <1>4, <1>5, <2>1
  <2>5. Proposals!Due(proposed', options') = due
    BY <1>12
  <2>6. /\ Len(proposals') = old + Len(found) /\ Len(all) = Cardinality(due)
        /\ \A i \in DOMAIN proposals' : IsAt(proposals[i].id, i)'
    BY <1>4, <1>8, <1>11, <1>12, <2>2
  <2> QED
    BY <1>8, <2>3, <2>4, <2>5, <2>6 DEF SteadyRows, offset
<1>16. NonePutBack'
  <2> SUFFICES ASSUME drift # "any"
               PROVE  NonePutBack'
    BY <1>3 DEF NonePutBack
  <2>1. ASSUME NEW i \in 1 .. old, proposals[i].id \in due
        PROVE  /\ ahead(proposals[i].id)
                     < proposals[i].asked.page * lists.PageSize
                          + lists.PageSize
               /\ ahead(proposals[i].id) < offset
    <3>1. ahead(proposals[i].id)
             < proposals[i].asked.page * lists.PageSize + lists.PageSize
      BY <1>3, <2>1 DEF GoodList, NonePutBack, ahead, due
    <3>2. PICK a \in Nat : a = proposals[i].asked.page /\ a < currentPage
      BY <1>10
    <3>3. /\ a * lists.PageSize + lists.PageSize = (a + 1) * lists.PageSize
          /\ (a + 1) * lists.PageSize <= offset
          /\ a * lists.PageSize \in Nat
      BY <1>3, <3>2, PagesApart DEF offset
    <3> QED
      BY <1>3, <1>5, <3>1, <3>2, <3>3
  <2>2. ASSUME NEW i \in 1 .. old + Len(found), proposals'[i].id \in due
        PROVE  ahead(proposals'[i].id)
                  < proposals'[i].asked.page * lists.PageSize + lists.PageSize
    <3>1. CASE i > old
      <4>1. PICK k \in 1 .. Len(found) :
               k = i - old /\ proposals'[i].id = found[k]
        BY <1>14, <3>1
      <4>2. proposals'[i].asked.page * lists.PageSize = offset
        BY <1>10, <3>1 DEF offset
      <4>3. ahead(found[k]) < offset + k
        BY <1>4
      <4> QED
        BY <1>3, <1>5, <1>6, <1>8, <4>1, <4>2, <4>3
    <3>2. CASE ~(i > old)
      <4>1. i \in 1 .. old /\ proposals'[i] = proposals[i]
        BY <1>8, <3>2
      <4> QED
        BY <2>1, <2>2, <4>1
    <3> QED
      BY <3>1, <3>2
  <2>3. ASSUME NEW i \in 1 .. old + Len(found),
               NEW j \in 1 .. old + Len(found), i < j,
               proposals'[i].id = proposals'[j].id
        PROVE  HasTwin(proposals'[i].id)
    <3>1. CASE i > old
      <4>1. PICK k \in 1 .. Len(found) :
               k = i - old /\ proposals'[i].id = found[k]
        BY <1>14, <3>1
      <4>2. j > old
        BY <1>8, <2>3, <3>1
      <4>3. PICK l \in 1 .. Len(found) :
               l = j - old /\ proposals'[j].id = found[l]
        BY <1>14, <4>2
      <4>4. k < l
        BY <1>8, <2>3, <4>1, <4>3
      <4> QED
        BY <1>4, <2>3, <4>1, <4>3, <4>4
    <3>2. CASE ~(i > old) /\ j > old
      <4>1. i \in 1 .. old /\ proposals'[i] = proposals[i]
        BY <1>8, <3>2
      <4>2. PICK k \in 1 .. Len(found) :
               k = j - old /\ proposals'[j].id = found[k]
        BY <1>14, <3>2
      <4>3. PICK p \in due : p = found[k] /\ p = proposals[i].id
        BY <1>4, <2>3, <4>1, <4>2
      <4>4. ahead(p) < offset /\ offset + k <= ahead(p) + level(p)
        BY <1>4, <2>1, <4>1, <4>3
      <4>5. 1 < level(p)
        BY <1>3, <1>5, <4>4
      <4>6. HasTwin(p)
        BY <1>3, <4>5, Shared DEF HasTwin, level, due
      <4> QED
        BY <4>1, <4>3, <4>6
    <3>3. CASE ~(i > old) /\ ~(j > old)
      <4>1. /\ i \in 1 .. old /\ j \in 1 .. old /\ i # j
            /\ proposals'[i] = proposals[i] /\ proposals'[j] = proposals[j]
        BY <1>8, <2>3, <3>3
      <4> QED
        BY <1>3, <2>3, <4>1 DEF GoodList, NonePutBack
    <3> QED
      BY <3>1, <3>2, <3>3
  <2>4. \A i, j \in 1 .. old + Len(found) :
           i # j /\ proposals'[i].id = proposals'[j].id =>
              HasTwin(proposals'[i].id)
    <3>1. \A i, j \in 1 .. old + Len(found) : i # j => i < j \/ j < i
      BY <1>8
    <3> QED
      BY <2>3, <3>1
  <2> QED
    BY <1>11, <1>12, <2>2, <2>4 DEF NonePutBack
<1> QED
  BY <1>9, <1>15, <1>16 DEF GoodList

\* Every step keeps the list good.
LEMMA ListStep ==
    ASSUME Proposals!ProposalListAssumption, GoodList,
           [Proposals!Next]_proposalsVars
    PROVE  GoodList'
<1>1. ASSUME NEW status \in Proposals!Status, Proposals!OptionClicked(status)
      PROVE  GoodList'
  <2>1. [options EXCEPT !.status = status] \in Proposals!Options
    BY DEF GoodList, Proposals!TypeOK, Proposals!Options
  <2> QED
    BY <1>1, <2>1, ChangedOK DEF Proposals!OptionClicked
<1>2. ASSUME NEW sort \in Proposals!Sort, Proposals!SortOptionClicked(sort)
      PROVE  GoodList'
  <2>1. [options EXCEPT !.sort = sort] \in Proposals!Options
    BY DEF GoodList, Proposals!TypeOK, Proposals!Options
  <2> QED
    BY <1>2, <2>1, ChangedOK DEF Proposals!SortOptionClicked
<1>3. ASSUME NEW scope \in lists.Scope, Proposals!PageChanged(scope)
      PROVE  GoodList'
  <2>1. [options EXCEPT !.scope = scope] \in Proposals!Options
    BY DEF GoodList, Proposals!TypeOK, Proposals!Options
  <2> QED
    BY <1>3, <2>1, ChangedOK DEF Proposals!PageChanged
<1>4. CASE UNCHANGED proposalsVars
  <2>1. /\ UNCHANGED <<proposed, created, options, proposals, currentPage,
                       stencil, loadError, loadMoreHidden, ajax, drift>>
    BY <1>4 DEF proposalsVars
  <2>2. Proposals!TypeOK' /\ AtMostOne(ajax, PageDue)' /\ GoodButton'
    BY <2>1
       DEF GoodList, Proposals!TypeOK, AtMostOne, PageDue, GoodButton
  <2>3. GoodRows' /\ SteadyRows' /\ NonePutBack'
    BY <2>1, ServerStill DEF GoodList, GoodRows, SteadyRows, NonePutBack
  <2> QED
    BY <2>2, <2>3 DEF GoodList
<1> QED
  BY <1>1, <1>2, <1>3, <1>4, StampOK, StoredOK, CloseOK, MoreOK, ResponseOK,
     LaggingOK, FailedOK
     DEF Proposals!Next
=============================================================================
