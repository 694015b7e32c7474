---------------------------- MODULE LoaderProofs ----------------------------
(*************************************************************************)
(* The page of a document with its list of children, and the loader of   *)
(* search results: every step preserves their inductive invariants, what *)
(* they promise follows, and the list of children implements             *)
(* LatestAnswer.                                                         *)
(*                                                                       *)
(* The lemmas are about the elements of Pages when they are on the       *)
(* screen; PagesProofs draws the theorems from them.                     *)
(*************************************************************************)
EXTENDS Pages, IronAjax, SequenceTheorems, TLAPS

\* The requests of an element that has asked for a thing, or is done with it.
AtMostOne(inFlight, of) == inFlight \subseteq {[of |-> of, last |-> TRUE]}

\* An element that never asked has nothing in flight but what it asks for.
LEMMA AskFirst ==
    ASSUME NEW a
    PROVE  /\ GenerateRequest(NoRequests, a) = {[of |-> a, last |-> TRUE]}
           /\ AtMostOne(GenerateRequest(NoRequests, a), a)
           /\ Loading(GenerateRequest(NoRequests, a))
<1>1. GenerateRequest(NoRequests, a) = {[of |-> a, last |-> TRUE]}
  BY DEF GenerateRequest, NoRequests
<1>2. [of |-> a, last |-> TRUE].last
  OBVIOUS
<1>3. Loading({[of |-> a, last |-> TRUE]})
  BY <1>2, Zenon DEF Loading
<1> QED
  BY <1>1, <1>3 DEF AtMostOne

\* Aborting takes away the one request there may be.
LEMMA AbortOne ==
    ASSUME NEW a, NEW inFlight, AtMostOne(inFlight, a)
    PROVE  Abort(inFlight) = NoRequests
<1>1. ASSUME NEW r \in inFlight
      PROVE  r.last
  <2>1. r = [of |-> a, last |-> TRUE]
    BY DEF AtMostOne
  <2> QED
    BY <2>1
<1> QED
  BY <1>1, Zenon DEF Abort, NoRequests

\* Asking after aborting leaves the new request alone in flight.
LEMMA AskAgain ==
    ASSUME NEW a, NEW b, NEW inFlight, AtMostOne(inFlight, a)
    PROVE  /\ GenerateRequest(Abort(inFlight), b) = {[of |-> b, last |-> TRUE]}
           /\ AtMostOne(GenerateRequest(Abort(inFlight), b), b)
           /\ Loading(GenerateRequest(Abort(inFlight), b))
BY AbortOne, AskFirst

\* A request that ends is the one, and leaves nothing in flight.
LEMMA LastOneEnds ==
    ASSUME NEW a, NEW inFlight, AtMostOne(inFlight, a), NEW r \in inFlight
    PROVE  /\ r = [of |-> a, last |-> TRUE]
           /\ Loading(inFlight)
           /\ inFlight \ {r} = NoRequests
<1>1. r = [of |-> a, last |-> TRUE]
  BY DEF AtMostOne
<1>2. r.last
  BY <1>1
<1>3. Loading(inFlight)
  BY <1>2, Zenon DEF Loading
<1>4. inFlight \ {r} = NoRequests
  BY <1>1 DEF AtMostOne, NoRequests
<1> QED
  BY <1>1, <1>3, <1>4

\* Nothing is loading where nothing is in flight.
LEMMA NothingLoads == ~Loading(NoRequests)
BY DEF Loading, NoRequests

\* With one request at most the element is loading if there is one.
LEMMA LoadsIfAny ==
    ASSUME NEW a, NEW inFlight, AtMostOne(inFlight, a)
    PROVE  Loading(inFlight) <=> inFlight # {}
BY LastOneEnds DEF Loading

\* What an offset and a limit leave of a list.
Window(s, o, l) == SubSeq(s, o + 1, IF o + l < Len(s) THEN o + l ELSE Len(s))

\* A window is a list, no longer than its limit, of what follows the offset.
LEMMA WindowProperties ==
    ASSUME NEW S, NEW s \in Seq(S), NEW o \in Nat, NEW l \in Nat
    PROVE  /\ Window(s, o, l) \in Seq(S)
           /\ Len(Window(s, o, l)) = IF o + l < Len(s) THEN l
                                     ELSE IF o < Len(s) THEN Len(s) - o ELSE 0
           /\ \A i \in 1 .. Len(Window(s, o, l)) : Window(s, o, l)[i] = s[o + i]
<1> DEFINE end == IF o + l < Len(s) THEN o + l ELSE Len(s)
<1>1. Len(s) \in Nat /\ end \in Int /\ end <= Len(s) /\ o + 1 \in Int
  OBVIOUS
<1>2. \A i \in o + 1 .. end : s[i] \in S
  BY <1>1
<1>3. Window(s, o, l) = SubSeq(s, o + 1, end)
  BY DEF Window
<1>4. o + l < Len(s) => end = o + l
  OBVIOUS
<1>5. ~(o + l < Len(s)) => end = Len(s)
  OBVIOUS
<1> HIDE DEF end
<1>6. /\ SubSeq(s, o + 1, end) \in Seq(S)
      /\ Len(SubSeq(s, o + 1, end)) =
            IF o + 1 <= end THEN end - (o + 1) + 1 ELSE 0
      /\ \A i \in 1 .. end - (o + 1) + 1 :
            SubSeq(s, o + 1, end)[i] = s[o + 1 + i - 1]
  BY <1>1, <1>2, SubSeqProperties
<1>7. Len(Window(s, o, l)) = IF o + l < Len(s) THEN l
                             ELSE IF o < Len(s) THEN Len(s) - o ELSE 0
  BY <1>1, <1>3, <1>4, <1>5, <1>6
<1>8. ASSUME NEW i \in 1 .. Len(Window(s, o, l))
      PROVE  Window(s, o, l)[i] = s[o + i]
  BY <1>1, <1>3, <1>6
<1> QED
  BY <1>3, <1>6, <1>7, <1>8

\* One more than the limit is asked for, to see whether there is more.
LEMMA WindowAndOneMore ==
    ASSUME NEW S, NEW s \in Seq(S), NEW o \in Nat, NEW l \in Nat
    PROVE  LET more == Len(Window(s, o, l + 1)) > l
           IN  /\ more <=> Len(s) > o + l
               /\ Window(s, o, l) = IF more
                                    THEN SubSeq(Window(s, o, l + 1), 1, l)
                                    ELSE Window(s, o, l + 1)
<1> DEFINE w == Window(s, o, l)
           w1 == Window(s, o, l + 1)
<1>1. l + 1 \in Nat /\ Len(s) \in Nat
  OBVIOUS
<1>2. /\ w \in Seq(S)
      /\ Len(w) = IF o + l < Len(s) THEN l
                  ELSE IF o < Len(s) THEN Len(s) - o ELSE 0
      /\ \A i \in 1 .. Len(w) : w[i] = s[o + i]
  BY WindowProperties
<1>3. /\ w1 \in Seq(S)
      /\ Len(w1) = IF o + (l + 1) < Len(s) THEN l + 1
                   ELSE IF o < Len(s) THEN Len(s) - o ELSE 0
      /\ \A i \in 1 .. Len(w1) : w1[i] = s[o + i]
  BY <1>1, WindowProperties
<1> HIDE DEF w, w1
<1>4. Len(w1) > l <=> Len(s) > o + l
  BY <1>1, <1>3
<1>5. CASE Len(w1) > l
  <2>1. \A i \in 1 .. l : w1[i] \in S
    BY <1>3, <1>5
  <2>2. /\ SubSeq(w1, 1, l) \in Seq(S)
        /\ Len(SubSeq(w1, 1, l)) = l
        /\ \A i \in 1 .. l : SubSeq(w1, 1, l)[i] = w1[i]
    <3>1. /\ SubSeq(w1, 1, l) \in Seq(S)
          /\ Len(SubSeq(w1, 1, l)) = IF 1 <= l THEN l - 1 + 1 ELSE 0
          /\ \A i \in 1 .. l - 1 + 1 : SubSeq(w1, 1, l)[i] = w1[1 + i - 1]
      BY <2>1, SubSeqProperties
    <3> QED
      BY <3>1
  <2>3. Len(w) = l /\ \A i \in 1 .. l : w[i] = SubSeq(w1, 1, l)[i]
    <3>1. Len(w) = l
      BY SMTT(60), <1>1, <1>2, <1>4, <1>5
    <3>2. \A i \in 1 .. l : w[i] = s[o + i]
      BY SMTT(60), <1>2, <3>1
    <3>3. 1 .. l \subseteq 1 .. Len(w1)
      BY SMTT(60), <1>1, <1>3, <1>5
    <3>4. \A i \in 1 .. l : w1[i] = s[o + i]
      BY ZenonT(60), <1>3, <3>3
    <3> QED
      BY ZenonT(60), <2>2, <3>1, <3>2, <3>4
  <2>4. w = SubSeq(w1, 1, l)
    BY <1>2, <2>2, <2>3, SeqEqual
  <2> QED
    BY <1>4, <1>5, <2>4 DEF w, w1
<1>6. CASE ~(Len(w1) > l)
  <2>1. Len(w) = Len(w1) /\ \A i \in 1 .. Len(w) : w[i] = w1[i]
    BY <1>1, <1>2, <1>3, <1>4, <1>6
  <2>2. w = w1
    BY <1>2, <1>3, <2>1, SeqEqual
  <2> QED
    BY <1>4, <1>6, <2>2 DEF w, w1
<1> QED
  BY <1>5, <1>6

\* What iron-ajax does for the page of a document.
LEMMA DocumentsAjax ==
    /\ Documents!NoRequests = NoRequests
    /\ \A inFlight : Documents!Abort(inFlight) = Abort(inFlight)
    /\ \A inFlight, of :
          Documents!GenerateRequest(inFlight, of) =
             GenerateRequest(inFlight, of)
    /\ \A inFlight : Documents!Loading(inFlight) = Loading(inFlight)
BY DEF Documents!NoRequests, Documents!Abort, Documents!GenerateRequest,
   Documents!Loading, NoRequests, Abort, GenerateRequest, Loading
\* The parts of IInv: those of the page, and those of its list.
GoodPage ==
    /\ AtMostOne(page.ajax, address.id)
    /\ page.loaded =>
          page.document = address.id /\ ~Documents!Loading(page.ajax)
    /\ page.section # "content" /\ (page.loaded \/ Documents!Loading(page.ajax))
          => page.hurried
    /\ Documents!ShowsDocument => page.loaded
    /\ Documents!ShowsMissing => address.id \notin documents.Published
    /\ page.hurried => page.section # "content"

\* Those of the list of children.
GoodChildren ==
    /\ AtMostOne(list.ajax, address)
    /\ list.stencil => list.error \/ Documents!Loading(list.ajax)
    /\ list.error \/ Documents!Loading(list.ajax) => list.stencil
    /\ list.error => ~Documents!Loading(list.ajax)
    /\ Documents!RightChildren

\* IInv is its parts.
LEMMA DocumentsParts == Documents!IInv <=>
   Documents!TypeOK /\ GoodPage /\ GoodChildren
BY DEF Documents!IInv, GoodPage, GoodChildren, AtMostOne,
   Documents!RightChildren

\* Pages are numbers.
LEMMA PageNumber ==
    ASSUME Documents!DocumentPageAssumption, NEW a \in Documents!Address
    PROVE  a.page \in Nat \ {0} /\ documents.PageSize \in Nat
           /\ a.id \in documents.Id
<1>1. a.page \in documents.Page /\ a.id \in documents.Id
  BY DEF Documents!Address
<1> QED
  BY <1>1 DEF Documents!DocumentPageAssumption

\* A page of a list is a list.
LEMMA SliceType ==
    ASSUME Documents!DocumentPageAssumption, NEW a \in Documents!Address
    PROVE  Documents!Slice(a) \in Seq(documents.Child)
<1> DEFINE all == documents.Children[a.id]
           first == (a.page - 1) * documents.PageSize + 1
           last == a.page * documents.PageSize
           end == IF last < Len(all) THEN last ELSE Len(all)
<1>1. all \in Seq(documents.Child) /\ Len(all) \in Nat
  BY DEF Documents!DocumentPageAssumption, Documents!Address
<1>2. a.page \in Nat /\ a.page - 1 \in Nat /\ documents.PageSize \in Nat
  BY PageNumber
<1>3. /\ (a.page - 1) * documents.PageSize \in Nat
      /\ a.page * documents.PageSize \in Nat
      /\ first \in Int /\ first >= 1 /\ last \in Int
  <2>1. ASSUME NEW m \in Nat, NEW n \in Nat
        PROVE  m * n \in Nat
    BY SMT
  <2> QED
    BY <1>2, <2>1
<1> HIDE DEF all, first, last
<1>4. end \in Int /\ end <= Len(all)
  BY <1>1, <1>3
<1> HIDE DEF end
<1>5. \A i \in first .. end : all[i] \in documents.Child
  BY <1>1, <1>3, <1>4
<1>6. SubSeq(all, first, end) \in Seq(documents.Child)
  BY <1>3, <1>4, <1>5, SubSeqProperties
<1> QED
  BY <1>6 DEF Documents!Slice, all, first, last, end

\* A page that is stamped shows nothing and asks for its address.
LEMMA StampedAsks ==
    ASSUME Documents!DocumentPageAssumption, NEW a \in Documents!Address
    PROVE  /\ Documents!StampedPage(a) \in Documents!PageState
           /\ AtMostOne(Documents!StampedPage(a).ajax, a.id)
           /\ Documents!Loading(Documents!StampedPage(a).ajax)
           /\ Documents!StampedPage(a).section = "content"
           /\ ~Documents!StampedPage(a).loaded
           /\ ~Documents!StampedPage(a).hurried
           /\ Documents!StampedList(a) \in Documents!ListState
           /\ AtMostOne(Documents!StampedList(a).ajax, a)
           /\ Documents!Loading(Documents!StampedList(a).ajax)
           /\ Documents!StampedList(a).stencil
           /\ ~Documents!StampedList(a).error
<1>1. /\ Documents!GenerateRequest(Documents!NoRequests, a.id) = {[of |-> a.id,
            last |-> TRUE]}
      /\ AtMostOne(Documents!GenerateRequest(Documents!NoRequests, a.id), a.id)
      /\ Documents!Loading(
            Documents!GenerateRequest(Documents!NoRequests, a.id))
  BY AskFirst, DocumentsAjax
<1>2. /\ Documents!GenerateRequest(Documents!NoRequests, a) = {[of |-> a,
            last |-> TRUE]}
      /\ AtMostOne(Documents!GenerateRequest(Documents!NoRequests, a), a)
      /\ Documents!Loading(Documents!GenerateRequest(Documents!NoRequests, a))
  BY AskFirst, DocumentsAjax
<1>3. /\ Documents!GenerateRequest(Documents!NoRequests, a.id)
            \in SUBSET Documents!Request(documents.Id)
      /\ Documents!GenerateRequest(Documents!NoRequests, a)
            \in SUBSET Documents!Request(Documents!Address)
  BY <1>1, <1>2 DEF Documents!Request, Documents!Address
<1>4. Documents!StampedPage(a) \in Documents!PageState
  BY <1>3 DEF Documents!StampedPage, Documents!PageState
<1>5. Documents!StampedList(a) \in Documents!ListState
  BY <1>3 DEF Documents!StampedList, Documents!ListState
<1> QED
  BY <1>1, <1>2, <1>4, <1>5 DEF Documents!StampedPage, Documents!StampedList

\* IInv, part by part.
DocumentsGood == Documents!TypeOK /\ GoodPage /\ GoodChildren

\* Both parts stay through every step.
LEMMA DocumentsStep ==
    ASSUME Documents!DocumentPageAssumption, DocumentsGood,
           [Documents!Next]_documentsVars
    PROVE  DocumentsGood'
<1>0. Documents!TypeOK /\ GoodPage /\ GoodChildren
  BY DEF DocumentsGood
<1>1. ASSUME NEW a \in Documents!Address, Documents!OpenPage(a)
      PROVE  DocumentsGood'
  <2>1. address' \in Documents!Address
        /\ page' = Documents!StampedPage(address')
        /\ list' = Documents!StampedList(address')
    BY <1>1 DEF Documents!OpenPage
  <2>2. Documents!TypeOK' /\ GoodPage'
    BY <2>1, StampedAsks
       DEF Documents!TypeOK, GoodPage, Documents!ShowsDocument,
           Documents!ShowsMissing
  <2>3. GoodChildren'
    BY <2>1, StampedAsks
       DEF GoodChildren, Documents!RightChildren, Documents!ShowsDocuments
  <2> QED
    BY <2>2, <2>3 DEF DocumentsGood
<1>2. ASSUME NEW a \in Documents!Address, Documents!Visit(a)
      PROVE  DocumentsGood'
  <2>1. /\ address' = a /\ a # address
        /\ page' = IF a.id = address.id THEN page
                   ELSE Documents!DocumentIdChanged(a.id)
        /\ list' = Documents!ParamsChanged(a)
    BY <1>2 DEF Documents!Visit
  <2>2. /\ page' \in Documents!PageState
        /\ GoodPage'
    <3>1. CASE a.id = address.id
      BY <1>0, <2>1, <3>1
         DEF Documents!TypeOK, GoodPage, Documents!ShowsDocument,
             Documents!ShowsMissing
    <3>2. CASE a.id # address.id
      <4> DEFINE inFlight == Documents!GenerateRequest(
                             Documents!Abort(page.ajax), a.id)
      <4>1. /\ inFlight = {[of |-> a.id, last |-> TRUE]}
            /\ AtMostOne(inFlight, a.id) /\ Documents!Loading(inFlight)
        BY <1>0, AskAgain, DocumentsAjax DEF GoodPage
      <4>2. inFlight \in SUBSET Documents!Request(documents.Id)
        BY <4>1 DEF Documents!Request, Documents!Address
      <4> HIDE DEF inFlight
      <4>3. page' = [page EXCEPT
               !.section = IF Documents!Loading(page.ajax) THEN "error"
                           ELSE "content",
               !.ajax = inFlight,
               !.loaded = FALSE,
               !.hurried = Documents!Loading(page.ajax)]
        BY <2>1, <3>2 DEF Documents!DocumentIdChanged, inFlight
      <4>4. Documents!Loading(page.ajax) \in BOOLEAN
        BY DEF Documents!Loading
      <4>5. /\ page' \in Documents!PageState
            /\ page'.ajax = inFlight
            /\ ~page'.loaded
            /\ page'.section \in {"error", "content"}
        BY <1>0, <4>2, <4>3, <4>4 DEF Documents!TypeOK, Documents!PageState
      <4>6. page'.hurried <=> page'.section # "content"
        BY <1>0, <4>3, <4>4 DEF Documents!TypeOK, Documents!PageState
      <4> QED
        BY <2>1, <4>1, <4>5, <4>6
           DEF GoodPage, Documents!ShowsDocument, Documents!ShowsMissing
    <3> QED
      BY <3>1, <3>2
  <2>3. /\ list' \in Documents!ListState
        /\ GoodChildren'
    <3> DEFINE inFlight == Documents!GenerateRequest(
                           Documents!Abort(list.ajax), a)
    <3>1. /\ inFlight = {[of |-> a, last |-> TRUE]}
          /\ AtMostOne(inFlight, a) /\ Documents!Loading(inFlight)
      BY <1>0, AskAgain, DocumentsAjax DEF GoodChildren
    <3>2. inFlight \in SUBSET Documents!Request(Documents!Address)
      BY <3>1 DEF Documents!Request
    <3> HIDE DEF inFlight
    <3>3. list' = [list EXCEPT !.documents = <<>>,
                               !.next = Nothing,
                               !.prev = Nothing,
                               !.stencil = TRUE,
                               !.error = FALSE,
                               !.ajax = inFlight]
      BY <2>1 DEF Documents!ParamsChanged, inFlight
    <3>4. /\ list' \in Documents!ListState
          /\ list'.ajax = inFlight
      <4>1. <<>> \in Seq(documents.Child)
        OBVIOUS
      <4>2. list \in Documents!ListState
        BY <1>0 DEF Documents!TypeOK
      <4> QED
        BY <3>2, <3>3, <4>1, <4>2 DEF Documents!ListState
    <3>5. list'.stencil /\ ~list'.error
      BY <1>0, <3>3 DEF Documents!TypeOK, Documents!ListState
    <3> QED
      BY <2>1, <3>1, <3>4, <3>5
         DEF GoodChildren, Documents!RightChildren, Documents!ShowsDocuments
  <2> QED
    BY <2>1, <2>2, <2>3 DEF DocumentsGood, Documents!TypeOK
<1>3. ASSUME NEW r \in page.ajax, Documents!GetResponse(r)
      PROVE  DocumentsGood'
  <2>1. r = [of |-> address.id, last |-> TRUE]
        /\ page.ajax \ {r} = Documents!NoRequests
    BY <1>0, LastOneEnds, DocumentsAjax DEF GoodPage
  <2>2. /\ UNCHANGED <<address, list>> /\ address.id \in documents.Published
        /\ page' = [page EXCEPT !.ajax = Documents!NoRequests,
                                !.document = address.id,
                                !.loaded = TRUE]
    BY <1>3, <2>1 DEF Documents!GetResponse
  <2>3. /\ page' \in Documents!PageState
        /\ page'.ajax = Documents!NoRequests
        /\ page'.document = address.id
        /\ page'.section = page.section
        /\ page'.hurried = page.hurried
    BY <1>0, <2>2
       DEF Documents!TypeOK, Documents!PageState, Documents!NoRequests
  <2>4. page'.loaded
    BY <1>0, <2>2 DEF Documents!TypeOK, Documents!PageState
  <2>5. Documents!Loading(page.ajax)
    BY <1>0, <1>3, LastOneEnds, DocumentsAjax DEF GoodPage
  <2>6. GoodPage'
    BY <1>0, <2>2, <2>3, <2>4, <2>5, NothingLoads, DocumentsAjax
       DEF GoodPage, Documents!ShowsDocument, Documents!ShowsMissing,
          AtMostOne, Documents!NoRequests
  <2> QED
    BY <1>0, <2>2, <2>3, <2>6
       DEF DocumentsGood, Documents!TypeOK, GoodChildren,
          Documents!RightChildren, Documents!ShowsDocuments, Documents!Slice
<1>4. ASSUME NEW r \in page.ajax, Documents!GetError(r)
      PROVE  DocumentsGood'
  <2>1. /\ r = [of |-> address.id, last |-> TRUE]
        /\ page.ajax \ {r} = Documents!NoRequests
        /\ Documents!Loading(page.ajax)
    BY <1>0, LastOneEnds, DocumentsAjax DEF GoodPage
  <2>2. PICK message \in {"notFound", "error"} :
           /\ message = "notFound" => address.id \notin documents.Published
           /\ page' = [page EXCEPT !.ajax = Documents!NoRequests,
                 !.section = message]
    BY <1>4, <2>1 DEF Documents!GetError
  <2>3. UNCHANGED <<address, list>>
    BY <1>4 DEF Documents!GetError
  <2>4. /\ page' \in Documents!PageState
        /\ page'.ajax = Documents!NoRequests
        /\ page'.document = page.document
        /\ page'.section = message
        /\ page'.loaded = page.loaded
        /\ page'.hurried = page.hurried
    BY <1>0, <2>2
       DEF Documents!TypeOK, Documents!PageState, Documents!NoRequests
  <2>5. ~page.loaded
    BY <1>0, <2>1 DEF GoodPage
  <2>6. GoodPage'
    BY <1>0, <2>1, <2>2, <2>3, <2>4, <2>5, NothingLoads, DocumentsAjax
       DEF GoodPage, Documents!ShowsDocument, Documents!ShowsMissing,
          AtMostOne, Documents!NoRequests
  <2> QED
    BY <1>0, <2>3, <2>4, <2>6
       DEF DocumentsGood, Documents!TypeOK, GoodChildren,
          Documents!RightChildren, Documents!ShowsDocuments, Documents!Slice
<1>5. ASSUME NEW r \in list.ajax, Documents!ListResponse(r)
      PROVE  DocumentsGood'
  <2> DEFINE number == address.page
             more == number * documents.PageSize
                       < Len(documents.Children[address.id])
  <2>1. /\ r = [of |-> address, last |-> TRUE]
        /\ list.ajax \ {r} = Documents!NoRequests
    BY <1>0, LastOneEnds, DocumentsAjax DEF GoodChildren
  <2>2. number \in Nat /\ number + 1 \in Nat /\ number + 1 # Nothing
    BY <1>0, PageNumber DEF Documents!TypeOK, Documents!DocumentPageAssumption
  <2>3. number > 1 => number - 1 \in Nat /\ number - 1 # Nothing
    BY <2>2 DEF Documents!DocumentPageAssumption
  <2>4. number * documents.PageSize \in Int
        /\ Len(documents.Children[address.id]) \in Int
    BY <1>0, <2>2, PageNumber
       DEF Documents!TypeOK, Documents!DocumentPageAssumption
  <2>5. number * documents.PageSize >= Len(documents.Children[address.id]) <=>
           ~more
    BY <2>4
  <2>6. Documents!Slice(address) \in Seq(documents.Child)
    BY <1>0, SliceType DEF Documents!TypeOK
  <2>7. /\ UNCHANGED <<address, page>>
        /\ list' = [list EXCEPT !.ajax = Documents!NoRequests,
                                !.documents = Documents!Slice(address),
                                !.next = IF more THEN number + 1 ELSE Nothing,
                                !.prev = IF number > 1 THEN number - 1
                                         ELSE Nothing,
                                !.stencil = FALSE,
                                !.error = FALSE]
    BY <1>5, <2>1, <2>5 DEF Documents!ListResponse
  <2> HIDE DEF more, number
  <2>8. /\ list' \in Documents!ListState
        /\ list'.ajax = Documents!NoRequests
        /\ list'.documents = Documents!Slice(address)
        /\ list'.next = IF more THEN number + 1 ELSE Nothing
        /\ list'.prev = IF number > 1 THEN number - 1 ELSE Nothing
        /\ ~list'.stencil /\ ~list'.error
    BY <1>0, <2>2, <2>3, <2>6, <2>7
       DEF Documents!TypeOK, Documents!ListState, Documents!NoRequests
  <2>9. /\ list'.next # Nothing <=> more
        /\ list'.prev # Nothing <=> number > 1
    BY SMTT(60), <2>2, <2>3, <2>8
  <2>10. GoodChildren'
    BY <2>7, <2>8, <2>9, NothingLoads, DocumentsAjax
       DEF GoodChildren, Documents!RightChildren, Documents!ShowsDocuments,
          AtMostOne, Documents!NoRequests,
           Documents!Slice, more, number
  <2> QED
    BY <1>0, <2>7, <2>8, <2>10
       DEF DocumentsGood, Documents!TypeOK, GoodPage, Documents!ShowsDocument,
          Documents!ShowsMissing
<1>6. ASSUME NEW r \in list.ajax, Documents!ListError(r)
      PROVE  DocumentsGood'
  <2>1. list.ajax \ {r} = Documents!NoRequests /\ Documents!Loading(list.ajax)
    BY <1>0, LastOneEnds, DocumentsAjax DEF GoodChildren
  <2>2. /\ UNCHANGED <<address, page>>
        /\ list' = [list EXCEPT !.ajax = Documents!NoRequests, !.error = TRUE]
    BY <1>6, <2>1 DEF Documents!ListError
  <2>3. /\ list' \in Documents!ListState
        /\ list'.ajax = Documents!NoRequests
        /\ list'.error
        /\ list'.stencil = list.stencil
    BY <1>0, <2>2
       DEF Documents!TypeOK, Documents!ListState, Documents!NoRequests
  <2>4. list.stencil
    BY <1>0, <2>1 DEF GoodChildren
  <2>5. GoodChildren'
    BY <2>3, <2>4, NothingLoads, DocumentsAjax
       DEF GoodChildren, Documents!RightChildren, Documents!ShowsDocuments,
          AtMostOne, Documents!NoRequests
  <2> QED
    BY <1>0, <2>2, <2>3, <2>5
       DEF DocumentsGood, Documents!TypeOK, GoodPage, Documents!ShowsDocument,
          Documents!ShowsMissing
<1>7. CASE UNCHANGED documentsVars
  BY <1>0, <1>7
     DEF documentsVars, DocumentsGood, Documents!TypeOK, GoodPage,
         GoodChildren, Documents!RightChildren,
                    Documents!ShowsDocument, Documents!ShowsMissing,
                       Documents!ShowsDocuments, Documents!Slice
<1> QED
  BY <1>1, <1>2, <1>3, <1>4, <1>5, <1>6, <1>7 DEF Documents!Next

\* A page begins as the parts say.
LEMMA DocumentsInit ==
    ASSUME Documents!DocumentPageAssumption
    PROVE  Documents!Init => DocumentsGood
BY StampedAsks
   DEF Documents!Init, DocumentsGood, Documents!TypeOK, GoodPage, GoodChildren,
       Documents!RightChildren,
               Documents!ShowsDocument, Documents!ShowsMissing,
                  Documents!ShowsDocuments

\* So IInv stays, and says that the page is the right one.
LEMMA DocumentsRight == DocumentsGood => Documents!IInv /\ Documents!RightPage
<1> SUFFICES ASSUME DocumentsGood PROVE Documents!IInv /\ Documents!RightPage
  OBVIOUS
<1>1. Documents!IInv /\ GoodPage /\ GoodChildren
  BY DocumentsParts DEF DocumentsGood
<1>2. Documents!RightDocument /\ Documents!HiddenOnlyInHaste
  BY <1>1 DEF GoodPage, Documents!RightDocument, Documents!HiddenOnlyInHaste,
              Documents!ShowsDocument, Documents!ShowsMissing
<1> QED
  BY <1>1, <1>2 DEF GoodChildren, Documents!RightPage

\* The list of a page begins like a loader.
LEMMA LoaderInit ==
    ASSUME Documents!DocumentPageAssumption, screen = <<"documents">>,
           Documents!Init
    PROVE  Loader!Init
<1>1. list.stencil /\ ~list.error
  BY StampedAsks DEF Documents!Init
<1> QED
  BY <1>1 DEF Documents!Init, Loader!Init, Documents!Shown

\* What it does is to be asked, to answer, or nothing.
LEMMA LoaderNext ==
    ASSUME Documents!DocumentPageAssumption, DocumentsGood,
           screen = <<"documents">>, UNCHANGED screen,
           [Documents!Next]_documentsVars
    PROVE  [Loader!Next]_(Loader!vars)
<1>0. Documents!TypeOK /\ GoodPage /\ GoodChildren
  BY DEF DocumentsGood
<1>1. ASSUME NEW a \in Documents!Address,
             Documents!OpenPage(a) \/ Documents!Visit(a)
      PROVE  Loader!Ask
  <2>1. CASE Documents!OpenPage(a)
    <3>1. address' = a /\ list' = Documents!StampedList(a)
      BY <2>1 DEF Documents!OpenPage
    <3>2. list'.stencil /\ ~list'.error
      BY <3>1, StampedAsks
    <3> QED
      BY <3>1, <3>2 DEF Loader!Ask, Documents!Shown
  <2>2. CASE Documents!Visit(a)
    <3>1. address' = a /\ list' = Documents!ParamsChanged(a)
      BY <2>2 DEF Documents!Visit
    <3>2. list'.stencil /\ ~list'.error
      BY <1>0, <3>1
         DEF Documents!ParamsChanged, Documents!TypeOK, Documents!ListState
    <3> QED
      BY <3>1, <3>2 DEF Loader!Ask, Documents!Shown
  <2> QED
    BY <1>1, <2>1, <2>2
<1>2. ASSUME NEW r \in page.ajax,
             Documents!GetResponse(r) \/ Documents!GetError(r)
      PROVE  UNCHANGED Loader!vars
  BY <1>2
     DEF Documents!GetResponse, Documents!GetError, Loader!vars, Documents!Shown
<1>3. ASSUME NEW r \in list.ajax,
             Documents!ListResponse(r) \/ Documents!ListError(r)
      PROVE  Loader!Answer(address)
  <2>1. r.of = address /\ Documents!Loading(list.ajax)
    BY <1>0, LastOneEnds, DocumentsAjax DEF GoodChildren
  <2>2. Documents!Shown = Documents!Waiting
    BY <1>0, <2>1 DEF GoodChildren, Documents!Shown
  <2>3. address' = address
    BY <1>3 DEF Documents!ListResponse, Documents!ListError
  <2>4. CASE Documents!ListError(r)
    <3>1. list'.error
      BY <1>0, <2>4
         DEF Documents!ListError, Documents!TypeOK, Documents!ListState
    <3> QED
      BY <2>2, <2>3, <3>1 DEF Loader!Answer, Documents!Shown
  <2>5. CASE Documents!ListResponse(r)
    <3> DEFINE number == address.page
               more == number * documents.PageSize
                       < Len(documents.Children[address.id])
    <3>1. number \in Nat /\ number + 1 # Nothing
      BY <1>0, PageNumber DEF Documents!TypeOK, Documents!DocumentPageAssumption
    <3>2. number * documents.PageSize \in Int
          /\ Len(documents.Children[address.id]) \in Int
      BY <1>0, <3>1, PageNumber
         DEF Documents!TypeOK, Documents!DocumentPageAssumption
    <3>3. number * documents.PageSize >= Len(documents.Children[address.id])
             <=> ~more
      BY <3>2
    <3>4. list' = [list EXCEPT !.ajax = list.ajax \ {r},
                               !.documents = Documents!Slice(address),
                               !.next = IF more THEN number + 1 ELSE Nothing,
                               !.prev = IF number > 1 THEN number - 1
                                         ELSE Nothing,
                               !.stencil = FALSE,
                               !.error = FALSE]
      BY <2>1, <2>5, <3>3 DEF Documents!ListResponse
    <3>5. Documents!AnswerTo[address] =
             [is |-> "answer", documents |-> Documents!Slice(address),
                more |-> more]
      BY <1>0 DEF Documents!AnswerTo, Documents!TypeOK
    <3>6. more \in BOOLEAN
      OBVIOUS
    <3> HIDE DEF more, number
    <3>7. /\ list'.documents = Documents!Slice(address)
          /\ list'.next = IF more THEN number + 1 ELSE Nothing
      BY <1>0, <3>4 DEF Documents!TypeOK, Documents!ListState
    <3>8. ~list'.stencil /\ ~list'.error
      BY <1>0, <3>4 DEF Documents!TypeOK, Documents!ListState
    <3>9. (list'.next # Nothing) = more
      BY <3>1, <3>6, <3>7
    <3>10. Documents!Shown' = [is |-> "answer", documents |-> list'.documents,
                     more |-> list'.next # Nothing]
      BY <3>8 DEF Documents!Shown
    <3>11. Documents!Shown' = Documents!AnswerTo[address]
      BY <3>5, <3>7, <3>9, <3>10
    <3> QED
      BY <2>2, <2>3, <3>11 DEF Loader!Answer
  <2> QED
    BY <1>3, <2>4, <2>5
<1>4. CASE UNCHANGED documentsVars
  BY <1>4 DEF documentsVars, Loader!vars, Documents!Shown
<1>5. address \in Documents!Address
  BY <1>0 DEF Documents!TypeOK
<1> QED
  BY <1>1, <1>2, <1>3, <1>4, <1>5 DEF Documents!Next, Loader!Next

-----------------------------------------------------------------------------
\* What iron-ajax does for the loader of results.
LEMMA SearchAjax ==
    /\ Search!NoRequests = NoRequests
    /\ \A inFlight : Search!Abort(inFlight) = Abort(inFlight)
    /\ \A inFlight, of :
          Search!GenerateRequest(inFlight, of) = GenerateRequest(inFlight, of)
    /\ \A inFlight : Search!Loading(inFlight) = Loading(inFlight)
BY DEF Search!NoRequests, Search!Abort, Search!GenerateRequest, Search!Loading,
       NoRequests, Abort, GenerateRequest, Loading

\* What the server finds for a search, and where its page begins.
Hits(p) == searches.Results[p.query, p.target]
Offset(p) == (p.page - 1) * searches.PageSize

\* What a search is made of, and where its page begins and ends.
LEMMA SearchParts ==
    ASSUME Search!SearchResultsAssumption, NEW p \in Search!Params
    PROVE  /\ p.query \in searches.Text /\ p.target \in searches.Target
           /\ p.page \in Nat \ {0} /\ p.page \in 1 .. searches.MaxPage
           /\ searches.PageSize \in Nat \ {0}
           /\ Hits(p) \in Seq(searches.Doc)
           /\ Offset(p) \in Nat
           /\ Offset(p) + searches.PageSize = p.page * searches.PageSize
           /\ p.page = 1 => Offset(p) = 0
<1>1. /\ p.query \in searches.Text /\ p.target \in searches.Target
      /\ p.page \in 1 .. searches.MaxPage
  BY DEF Search!Params
<1>2. searches.PageSize \in Nat \ {0} /\ searches.MaxPage \in Nat \ {0}
  BY DEF Search!SearchResultsAssumption
<1>3. <<p.query, p.target>> \in searches.Text \X searches.Target
  BY <1>1
<1>4. Hits(p) \in Seq(searches.Doc)
  BY <1>3 DEF Search!SearchResultsAssumption, Hits
<1>5. ASSUME NEW m \in Nat \ {0}, NEW n \in Nat \ {0}
      PROVE  /\ (m - 1) * n \in Nat
             /\ (m - 1) * n + n = m * n
             /\ m = 1 => (m - 1) * n = 0
  <2>1. PICK j \in Nat : m = j + 1
    <3>1. m - 1 \in Nat /\ m = (m - 1) + 1
      OBVIOUS
    <3> QED
      BY <3>1
  <2>2. j * n \in Nat /\ (j + 1) * n = j * n + n
    BY SMT
  <2>3. m - 1 = j
    BY <2>1
  <2>4. j = 0 => j * n = 0
    BY SMT
  <2> QED
    BY <2>1, <2>2, <2>3, <2>4
<1>6. p.page \in Nat \ {0}
  BY <1>1, <1>2
<1>7. /\ Offset(p) \in Nat
      /\ Offset(p) + searches.PageSize = p.page * searches.PageSize
      /\ p.page = 1 => Offset(p) = 0
  <2> DEFINE m == p.page
             n == searches.PageSize
  <2>1. Offset(p) = (m - 1) * n
    BY DEF Offset
  <2>2. m \in Nat \ {0} /\ n \in Nat \ {0}
    BY <1>2, <1>6
  <2> HIDE DEF m, n
  <2>3. /\ (m - 1) * n \in Nat
        /\ (m - 1) * n + n = m * n
        /\ m = 1 => (m - 1) * n = 0
    BY <1>5, <2>2
  <2> QED
    BY <2>1, <2>3 DEF m, n
<1> QED
  BY <1>1, <1>2, <1>4, <1>6, <1>7

\* The server's answer is a window.
LEMMA FoundIsWindow ==
    ASSUME NEW p, NEW l
    PROVE  Search!Found(p, l) = Window(Hits(p), Offset(p), l)
BY DEF Search!Found, Window, Hits, Offset

\* What the loader makes of an answer: the page, whether there is another, and
\* whether there is nothing at all.
LEMMA SearchAnswer ==
    ASSUME Search!SearchResultsAssumption, NEW p \in Search!Params
    PROVE  LET results == Search!Found(p, searches.PageSize + 1)
               more == Len(results) > searches.PageSize
               kept == IF more THEN SubSeq(results, 1, searches.PageSize)
                       ELSE results
           IN  /\ kept = Search!Found(p, searches.PageSize)
               /\ kept \in Seq(searches.Doc)
               /\ more <=> Len(Hits(p)) > p.page * searches.PageSize
               /\ p.page = 1 => (kept = <<>> <=> Hits(p) = <<>>)
<1> DEFINE size == searches.PageSize
           w == Window(Hits(p), Offset(p), size)
<1>1. /\ size \in Nat \ {0} /\ Offset(p) \in Nat
      /\ Hits(p) \in Seq(searches.Doc)
      /\ Offset(p) + size = p.page * size
      /\ p.page = 1 => Offset(p) = 0
  BY SearchParts
<1>2. LET more == Len(Window(Hits(p), Offset(p), size + 1)) > size
      IN  /\ more <=> Len(Hits(p)) > Offset(p) + size
          /\ w = IF more
                 THEN SubSeq(Window(Hits(p), Offset(p), size + 1), 1, size)
                 ELSE Window(Hits(p), Offset(p), size + 1)
  BY <1>1, WindowAndOneMore
<1>3. /\ w \in Seq(searches.Doc)
      /\ Len(w) = IF Offset(p) + size < Len(Hits(p)) THEN size
                  ELSE IF Offset(p) < Len(Hits(p)) THEN Len(Hits(p)) - Offset(p)
                  ELSE 0
  <2>1. size \in Nat
    BY <1>1
  <2> HIDE DEF size
  <2> QED
    BY ZenonT(60), <1>1, <2>1, WindowProperties
<1> HIDE DEF size, w
<1>4. p.page = 1 => (w = <<>> <=> Hits(p) = <<>>)
  <2>1. p.page = 1 => (Len(w) = 0 <=> Len(Hits(p)) = 0)
    BY <1>1, <1>3
  <2> QED
    BY <1>1, <1>3, <2>1, EmptySeq
<1> DEFINE results == Search!Found(p, searches.PageSize + 1)
           more == Len(results) > searches.PageSize
           kept == IF more THEN SubSeq(results, 1, searches.PageSize)
                   ELSE results
<1>5. results = Window(Hits(p), Offset(p), size + 1)
  BY FoundIsWindow DEF size
<1>6. Search!Found(p, searches.PageSize) = w
  BY FoundIsWindow DEF w, size
<1>7. kept = w
  <2>1. SubSeq(Window(Hits(p), Offset(p), size + 1), 1, size)
           = SubSeq(results, 1, searches.PageSize)
    BY <1>5 DEF size
  <2>2. more <=> Len(Window(Hits(p), Offset(p), size + 1)) > size
    BY <1>5 DEF size
  <2> HIDE DEF results, more
  <2> QED
    BY <1>2, <1>5, <2>1, <2>2
<1>8. more <=> Len(Hits(p)) > p.page * searches.PageSize
  BY <1>1, <1>2, <1>5 DEF size
<1> HIDE DEF results, more, kept
<1>9. /\ kept = Search!Found(p, searches.PageSize)
      /\ kept \in Seq(searches.Doc)
      /\ more <=> Len(Hits(p)) > p.page * searches.PageSize
      /\ p.page = 1 => (kept = <<>> <=> Hits(p) = <<>>)
  BY <1>3, <1>4, <1>6, <1>7, <1>8
<1> QED
  BY <1>9 DEF results, more, kept

\* IInv, part by part, and what is shown.
SearchGood ==
    /\ Search!TypeOK
    /\ AtMostOne(loader.ajax, asked)
    /\ Search!Searched(params) => asked = params
    /\ asked = Nothing => loader = Search!Idle
    /\ asked # Nothing => Search!Searched(asked)
    /\ loader.stencil <=> loader.ajax # {} \/ loader.error
    /\ loader.ajax # {} => ~loader.error
    /\ loader.empty =>
          ~loader.stencil /\ asked # Nothing /\ loader.documents = <<>>
    /\ asked # Nothing /\ ~loader.stencil =>
          loader.documents = Search!Found(asked, searches.PageSize)
    /\ Search!RightResults

\* The loader when it has just been asked.
LEMMA SearchInit ==
    ASSUME Search!SearchResultsAssumption, Search!Init
    PROVE  SearchGood
<1>0. params \in Search!Params /\ params # Nothing /\ box \in searches.Text
  BY DEF Search!Init, Search!SearchResultsAssumption, Search!Params
<1>1. Search!Idle \in Search!LoaderState
  BY DEF Search!Idle, Search!LoaderState, Search!NoRequests
<1>2. CASE Search!Searched(params)
  <2> DEFINE inFlight == Search!GenerateRequest(Search!NoRequests, params)
  <2>1. inFlight = {[of |-> params, last |-> TRUE]}
    BY AskFirst, SearchAjax
  <2>2. inFlight \in SUBSET Search!Request(Search!Params)
    BY <1>0, <2>1 DEF Search!Request
  <2> HIDE DEF inFlight
  <2>3. loader = [Search!Idle EXCEPT !.stencil = TRUE, !.ajax = inFlight]
        /\ asked = params
    BY <1>2 DEF Search!Init, inFlight
  <2>4. /\ loader \in Search!LoaderState
        /\ loader.stencil /\ ~loader.error /\ ~loader.empty
        /\ loader.ajax = inFlight
    BY <1>1, <2>2, <2>3 DEF Search!Idle, Search!LoaderState
  <2> QED
    BY <1>0, <1>2, <2>1, <2>3, <2>4
       DEF SearchGood, Search!TypeOK, AtMostOne, Search!RightResults,
           Search!ShowsResults
<1>3. CASE ~Search!Searched(params)
  BY <1>0, <1>1, <1>3
     DEF Search!Init, SearchGood, Search!TypeOK, AtMostOne, Search!Idle,
         Search!NoRequests, Search!RightResults
<1> QED
  BY <1>2, <1>3

\* The URL asks for another search.
LEMMA SearchChanges ==
    ASSUME Search!SearchResultsAssumption, SearchGood,
           NEW p \in Search!Params, Search!QueryParamsChanged(p)
    PROVE  SearchGood'
<1>1. /\ params' = p /\ loader' = Search!ParamsChanged(p)
      /\ asked' = IF Search!Searched(p) THEN p ELSE asked
      /\ p # Nothing /\ box' \in searches.Text
  BY DEF Search!QueryParamsChanged, SearchGood, Search!TypeOK,
         Search!SearchResultsAssumption, Search!Params
<1>2. CASE Search!Searched(p)
  <2> DEFINE inFlight ==
               Search!GenerateRequest(Search!Abort(loader.ajax), p)
  <2>1. inFlight = {[of |-> p, last |-> TRUE]}
    BY AskAgain, SearchAjax DEF SearchGood
  <2>2. inFlight \in SUBSET Search!Request(Search!Params)
    BY <2>1 DEF Search!Request
  <2> HIDE DEF inFlight
  <2>3. loader' = [loader EXCEPT !.documents = <<>>,
                                 !.stencil = TRUE,
                                 !.empty = FALSE,
                                 !.next = Nothing,
                                 !.prev = Nothing,
                                 !.error = FALSE,
                                 !.ajax = inFlight]
    BY <1>1, <1>2 DEF Search!ParamsChanged, inFlight
  <2>4. /\ loader' \in Search!LoaderState
        /\ loader'.stencil /\ ~loader'.error /\ ~loader'.empty
        /\ loader'.ajax = inFlight
    <3>1. <<>> \in Seq(searches.Doc)
      OBVIOUS
    <3> QED
      BY <2>2, <2>3, <3>1 DEF SearchGood, Search!TypeOK, Search!LoaderState
  <2> QED
    BY <1>1, <1>2, <2>1, <2>4
       DEF SearchGood, Search!TypeOK, AtMostOne, Search!RightResults,
           Search!ShowsResults, Search!Searched
<1>3. CASE ~Search!Searched(p)
  <2>1. loader' = loader /\ asked' = asked
    BY <1>1, <1>3 DEF Search!ParamsChanged
  <2> QED
    BY <1>1, <1>3, <2>1
       DEF SearchGood, Search!TypeOK, Search!RightResults, Search!Searched,
           Search!Idle, Search!Found
<1> QED
  BY <1>2, <1>3

\* Whatever happens, the loader shows what was asked for last.
LEMMA SearchStep ==
    ASSUME Search!SearchResultsAssumption, SearchGood,
           [Search!Next]_searchVars
    PROVE  SearchGood'
<1>0. /\ params \in Search!Params /\ box \in searches.Text
      /\ loader \in Search!LoaderState
  BY DEF SearchGood, Search!TypeOK
<1>1. ASSUME NEW text \in searches.Text, Search!Type(text)
      PROVE  SearchGood'
  BY <1>1 DEF Search!Type, SearchGood, Search!TypeOK, Search!RightResults,
              Search!ShowsResults, Search!ShowsEmptyState, Search!Found,
              Search!Searched, Search!Idle
<1>2. CASE Search!SearchInvoked
  <2> DEFINE p == [query |-> searches.ReadBack[box],
                   target |-> params.target, page |-> 1]
  <2>1. searches.ReadBack[box] \in searches.Text
    BY <1>0, <1>2 DEF Search!SearchInvoked, Search!SearchResultsAssumption
  <2>2. p \in Search!Params
    <3>1. /\ params.target \in searches.Target
          /\ params.page \in Nat \ {0} /\ params.page \in 1 .. searches.MaxPage
      BY <1>0, SearchParts
    <3>2. 1 \in 1 .. searches.MaxPage
      BY DEF Search!SearchResultsAssumption
    <3> QED
      BY <2>1, <3>1, <3>2 DEF Search!Params
  <2> QED
    BY <1>2, <2>2, SearchChanges DEF Search!SearchInvoked
<1>3. ASSUME NEW number \in 1 .. searches.MaxPage,
             Search!FollowPagingLink(number)
      PROVE  SearchGood'
  <2> DEFINE p == [params EXCEPT !.query = searches.ReadBack[@],
                                 !.page = number]
  <2>1. searches.ReadBack[params.query] \in searches.Text
    BY <1>0, <1>3, SearchParts
       DEF Search!FollowPagingLink, Search!SearchResultsAssumption
  <2>2. p \in Search!Params
    BY <1>0, <2>1 DEF Search!Params
  <2> QED
    BY <1>3, <2>2, SearchChanges DEF Search!FollowPagingLink
<1>4. ASSUME NEW p \in Search!Params, Search!Arrive(p)
      PROVE  SearchGood'
  BY <1>4, SearchChanges DEF Search!Arrive
<1>5. ASSUME NEW r \in loader.ajax, Search!GetResponse(r)
      PROVE  SearchGood'
  <2> DEFINE results == Search!Found(asked, searches.PageSize + 1)
             more == Len(results) > searches.PageSize
             kept == IF more THEN SubSeq(results, 1, searches.PageSize)
                     ELSE results
  <2>1. /\ r = [of |-> asked, last |-> TRUE]
        /\ loader.ajax \ {r} = {}
        /\ ~loader.error
    BY LastOneEnds DEF SearchGood, NoRequests
  <2>2. asked \in Search!Params /\ asked # Nothing
    BY <1>5 DEF SearchGood, Search!TypeOK, Search!Idle, Search!NoRequests
  <2>3. /\ kept = Search!Found(asked, searches.PageSize)
        /\ kept \in Seq(searches.Doc)
        /\ more <=> Len(Hits(asked)) > asked.page * searches.PageSize
        /\ asked.page = 1 => (kept = <<>> <=> Hits(asked) = <<>>)
    BY <2>2, SearchAnswer
  <2>4. /\ UNCHANGED <<params, box, asked>>
        /\ loader' = [loader EXCEPT
              !.ajax = {},
              !.documents = kept,
              !.stencil = FALSE,
              !.empty = params.page = 1 /\ kept = <<>>,
              !.next = IF more THEN params.page + 1 ELSE Nothing,
              !.prev = IF params.page > 1 THEN params.page - 1 ELSE Nothing]
    BY <1>5, <2>1 DEF Search!GetResponse
  <2>5. /\ params.page \in Nat /\ params.page + 1 \in Nat
        /\ params.page + 1 # Nothing
        /\ params.page > 1 => params.page - 1 \in Nat
                              /\ params.page - 1 # Nothing
    BY <1>0, SearchParts DEF Search!SearchResultsAssumption
  <2>6. more \in BOOLEAN /\ (params.page = 1 /\ kept = <<>>) \in BOOLEAN
    OBVIOUS
  <2> HIDE DEF more, kept
  <2>7. /\ loader' \in Search!LoaderState
        /\ loader'.ajax = {}
        /\ loader'.documents = kept
        /\ loader'.empty <=> params.page = 1 /\ kept = <<>>
        /\ loader'.next = IF more THEN params.page + 1 ELSE Nothing
        /\ loader'.prev = IF params.page > 1 THEN params.page - 1 ELSE Nothing
        /\ ~loader'.stencil
        /\ loader'.error = loader.error
    BY ZenonT(60), <1>0, <2>3, <2>4, <2>5, <2>6 DEF Search!LoaderState
  <2>8. /\ loader'.next # Nothing <=> more
        /\ loader'.prev # Nothing <=> params.page > 1
    BY <2>5, <2>7
  <2>9. Search!RightResults'
    <3> SUFFICES ASSUME Search!Searched(params)
                 PROVE  Search!RightResults'
      BY <2>4 DEF Search!RightResults, Search!Searched
    <3>1. asked = params
      BY DEF SearchGood
    <3> QED
      BY <2>3, <2>4, <2>7, <2>8, <3>1
         DEF Search!RightResults, Search!ShowsEmptyState, Search!Found, Hits
  <2>10. Search!TypeOK'
    BY <2>2, <2>4, <2>7 DEF SearchGood, Search!TypeOK
  <2>11. /\ Search!Searched(params)' => asked' = params'
         /\ asked' # Nothing /\ Search!Searched(asked)'
    BY <2>2, <2>4 DEF SearchGood, Search!Searched
  <2>12. /\ loader'.empty =>
               ~loader'.stencil /\ asked' # Nothing /\ loader'.documents = <<>>
         /\ loader'.stencil <=> loader'.ajax # {} \/ loader'.error
    BY <2>1, <2>7, <2>11
  <2>13. (loader.documents = Search!Found(asked, searches.PageSize))'
    BY <2>3, <2>4, <2>7 DEF Search!Found
  <2> QED
    BY <2>7, <2>9, <2>10, <2>11, <2>12, <2>13 DEF SearchGood, AtMostOne
<1>6. ASSUME NEW r \in loader.ajax, Search!GetError(r)
      PROVE  SearchGood'
  <2>1. loader.ajax \ {r} = {}
    BY LastOneEnds DEF SearchGood, NoRequests
  <2>2. /\ UNCHANGED <<params, box, asked>>
        /\ loader' = [loader EXCEPT !.ajax = {}, !.error = TRUE]
    BY <1>6, <2>1 DEF Search!GetError
  <2>3. /\ loader' \in Search!LoaderState
        /\ loader'.ajax = {} /\ loader'.error
        /\ loader'.stencil = loader.stencil
        /\ loader'.empty = loader.empty
    BY <1>0, <2>2 DEF Search!LoaderState
  <2>4. loader.stencil /\ asked # Nothing
    BY <1>6 DEF SearchGood, Search!Idle, Search!NoRequests
  <2> QED
    BY <2>2, <2>3, <2>4
       DEF SearchGood, Search!TypeOK, AtMostOne, Search!Searched,
           Search!RightResults, Search!ShowsResults
<1>7. CASE UNCHANGED searchVars
  BY <1>7 DEF searchVars, SearchGood, Search!TypeOK, Search!RightResults,
              Search!ShowsResults, Search!ShowsEmptyState, Search!Found,
              Search!Searched, Search!Idle
<1> QED
  BY <1>1, <1>2, <1>3, <1>4, <1>5, <1>6, <1>7 DEF Search!Next

\* So its results are the right ones, of one search at a time.
LEMMA SearchRight ==
    SearchGood => Search!IInv /\ Search!RightResults /\ Search!OneSearchAtATime
<1> SUFFICES ASSUME SearchGood
             PROVE  Search!IInv /\ Search!OneSearchAtATime
  BY DEF SearchGood
<1>1. Search!Loading(loader.ajax) <=> loader.ajax # {}
  BY LoadsIfAny, SearchAjax DEF SearchGood
<1>2. Search!IInv
  BY <1>1 DEF SearchGood, Search!IInv, AtMostOne
<1>3. Search!OneSearchAtATime
  BY DEF SearchGood, Search!OneSearchAtATime, Search!ShowsResults,
         Search!ShowsEmptyState
<1> QED
  BY <1>2, <1>3
=============================================================================
