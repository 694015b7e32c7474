---------------------------- MODULE PagesProofs -----------------------------
(*************************************************************************)
(* The elements of the client keep what they promise, whichever of them  *)
(* is on the screen: the theorems at the end, for any documents,         *)
(* searches, lists, forms, addresses and files.                          *)
(*                                                                       *)
(* What is on the screen stays there and moves alone (Begins, Moves), so *)
(* each theorem is about one element. The invariants of the shell and of *)
(* the widgets are here, those of the others in the modules this one     *)
(* extends.                                                              *)
(*************************************************************************)
EXTENDS ListProofs, FormProofs, Integers, WellFoundedInduction

\* Which element is on the screen.
LEMMA Screens ==
    ASSUME NEW name \in {"documents", "search", "proposals", "shell",
           "dialogs", "videos"},
           NEW part \in {"view", "new", "attributes"}, NEW k
    PROVE  <<name>> # <<part, k>>
OBVIOUS

\* What is on the screen stays there, and what happens is a step of it.
LEMMA Moves ==
    ASSUME [Next]_vars
    PROVE  /\ UNCHANGED screen
           /\ screen = <<"documents">> => [Documents!Next]_documentsVars
           /\ screen = <<"search">> => [Search!Next]_searchVars
           /\ screen = <<"proposals">> => [Proposals!Next]_proposalsVars
           /\ \A k \in DOMAIN views :
                 screen = <<"view", k>> => [View(k)!Next]_viewVars
           /\ \A k \in DOMAIN forms :
                 screen = <<"new", k>> => [New(k)!Next]_newVars
           /\ \A k \in DOMAIN editors :
                 screen = <<"attributes", k>> =>
                    [Attributes(k)!Next]_attributesVars
           /\ screen = <<"shell">> => [Shell!Next]_shellVars
           /\ screen = <<"dialogs">> => [Dialogs!Next]_dialogsVars
           /\ screen = <<"videos">> => [Videos!Next]_videosVars
<1>1. CASE Next
  <2>0. UNCHANGED screen
    BY <1>1, Zenon DEF Next, OthersUnchanged
  <2>1. screen = <<"documents">> => Documents!Next
    BY <1>1, Screens DEF Next
  <2>2. screen = <<"search">> => Search!Next
    BY <1>1, Screens DEF Next
  <2>3. screen = <<"proposals">> => Proposals!Next
    BY <1>1, Screens DEF Next
  <2>4. ASSUME NEW k \in DOMAIN views, screen = <<"view", k>>
        PROVE  View(k)!Next
    BY <1>1, <2>4, Screens DEF Next
  <2>5. ASSUME NEW k \in DOMAIN forms, screen = <<"new", k>>
        PROVE  New(k)!Next
    BY <1>1, <2>5, Screens DEF Next
  <2>6. ASSUME NEW k \in DOMAIN editors, screen = <<"attributes", k>>
        PROVE  Attributes(k)!Next
    BY <1>1, <2>6, Screens DEF Next
  <2>7. screen = <<"shell">> => Shell!Next
    BY <1>1, Screens DEF Next
  <2>8. screen = <<"dialogs">> => Dialogs!Next
    BY <1>1, Screens DEF Next
  <2>9. screen = <<"videos">> => Videos!Next
    BY <1>1, Screens DEF Next
  <2> QED
    BY <2>0, <2>1, <2>2, <2>3, <2>4, <2>5, <2>6, <2>7, <2>8, <2>9
<1>2. CASE UNCHANGED vars
  BY <1>2 DEF vars
<1> QED
  BY <1>1, <1>2

\* It begins as that element does.
LEMMA Begins ==
    ASSUME Init
    PROVE  /\ screen = <<"documents">> => Documents!Init
           /\ screen = <<"search">> => Search!Init
           /\ screen = <<"proposals">> => Proposals!Init
           /\ \A k \in DOMAIN views : screen = <<"view", k>> => View(k)!Init
           /\ \A k \in DOMAIN forms : screen = <<"new", k>> => New(k)!Init
           /\ \A k \in DOMAIN editors :
                 screen = <<"attributes", k>> => Attributes(k)!Init
           /\ screen = <<"shell">> => Shell!Init
           /\ screen = <<"dialogs">> => Dialogs!Init
           /\ screen = <<"videos">> => Videos!Init
<1>1. screen = <<"documents">> => Documents!Init
  BY Screens DEF Init
<1>2. screen = <<"search">> => Search!Init
  BY Screens DEF Init
<1>3. screen = <<"proposals">> => Proposals!Init
  BY Screens DEF Init
<1>4. ASSUME NEW k \in DOMAIN views, screen = <<"view", k>>
      PROVE  View(k)!Init
  BY <1>4, Screens DEF Init
<1>5. ASSUME NEW k \in DOMAIN forms, screen = <<"new", k>>
      PROVE  New(k)!Init
  BY <1>5, Screens DEF Init
<1>6. ASSUME NEW k \in DOMAIN editors, screen = <<"attributes", k>>
      PROVE  Attributes(k)!Init
  BY <1>6, Screens DEF Init
<1>7. screen = <<"shell">> => Shell!Init
  BY Screens DEF Init
<1>8. screen = <<"dialogs">> => Dialogs!Init
  BY Screens DEF Init
<1>9. screen = <<"videos">> => Videos!Init
  BY Screens DEF Init
<1> QED
  BY <1>1, <1>2, <1>3, <1>4, <1>5, <1>6, <1>7, <1>8, <1>9

-----------------------------------------------------------------------------
\* Where the browser may be.
Places ==
    {Dialogs!Out, Dialogs!Twitter} \union
        {Dialogs!Page(p) : p \in dialogs.Params}

\* What IInv says, dialog by dialog.
GoodDialogs ==
    /\ at \in Places
    /\ cookie \in BOOLEAN /\ profile \in BOOLEAN /\ turned \in BOOLEAN
    /\ locked \in BOOLEAN /\ odd \in BOOLEAN
    /\ shown \in [{"app", "page"} -> BOOLEAN]
    /\ agreed \in [{"app", "page"} -> BOOLEAN]
    /\ at = Dialogs!Out => ~shown["page"] /\ ~turned
    /\ turned => shown["page"]
    /\ locked <=> IF odd THEN ~(shown["app"] # shown["page"])
                         ELSE shown["app"] # shown["page"]

\* No place is another.
LEMMA PlacesDiffer ==
    /\ Dialogs!Out # Dialogs!Twitter
    /\ \A p : Dialogs!Page(p) # Dialogs!Out /\ Dialogs!Page(p) # Dialogs!Twitter
    /\ Dialogs!Out \in Places /\ Dialogs!Twitter \in Places
    /\ \A p \in dialogs.Params : Dialogs!Page(p) \in Places
BY DEF Dialogs!Out, Dialogs!Twitter, Dialogs!Page, Places

\* The dialogs begin like this.
LEMMA DialogsInit == Dialogs!Init => GoodDialogs
BY PlacesDiffer DEF Dialogs!Init, GoodDialogs, Dialogs!Dialog

\* Every step of a dialog keeps them so.
LEMMA DialogsStep ==
    ASSUME GoodDialogs, [Dialogs!Next]_dialogsVars
    PROVE  GoodDialogs'
<1> USE PlacesDiffer DEF GoodDialogs, Dialogs!AnyShown, Dialogs!Dialog
<1>1. CASE Dialogs!ClaimsChange
  BY <1>1 DEF Dialogs!ClaimsChange
<1>2. CASE Dialogs!OnSignInClicked
  BY <1>2 DEF Dialogs!OnSignInClicked
<1>3. ASSUME NEW p \in dialogs.Params, Dialogs!Open(p)
      PROVE  GoodDialogs'
  BY <1>3 DEF Dialogs!Open, Dialogs!QueryParamsChanged
<1>4. ASSUME NEW p \in dialogs.Params, Dialogs!Change(p)
      PROVE  GoodDialogs'
  BY <1>4 DEF Dialogs!Change, Dialogs!QueryParamsChanged
<1>5. CASE Dialogs!Leave
  BY <1>5 DEF Dialogs!Leave
<1>6. ASSUME NEW d \in {"app", "page"}, Dialogs!Agree(d)
      PROVE  GoodDialogs'
  BY <1>6 DEF Dialogs!Agree
<1>7. ASSUME NEW d \in {"app", "page"}, Dialogs!OnCancelClicked(d)
      PROVE  GoodDialogs'
  BY <1>7 DEF Dialogs!OnCancelClicked
<1>8. ASSUME NEW d \in {"app", "page"}, Dialogs!LogIn(d)
      PROVE  GoodDialogs'
  BY <1>8 DEF Dialogs!LogIn
<1>9. CASE Dialogs!ComeBack
  BY <1>9 DEF Dialogs!ComeBack
<1>10. CASE UNCHANGED dialogsVars
  BY <1>10 DEF dialogsVars
<1> QED
  BY <1>1, <1>2, <1>3, <1>4, <1>5, <1>6, <1>7, <1>8, <1>9, <1>10
     DEF Dialogs!Next

\* What the dialogs promise follows.
LEMMA DialogsRight ==
    ASSUME GoodDialogs
    PROVE  Dialogs!IInv /\ Dialogs!AskedUntilLeft /\ Dialogs!LockMatches
BY DEF GoodDialogs, Places, Dialogs!IInv, Dialogs!TypeOK,
   Dialogs!AskedUntilLeft,
   Dialogs!LockMatches, Dialogs!AnyShown, Dialogs!Dialog

-----------------------------------------------------------------------------
\* Videos.

\* A set of positions that is not empty has a last one.
LEMMA LastPosition ==
    ASSUME NEW n \in Nat, NEW S \in SUBSET (0 .. n), S # {}
    PROVE  Videos!Max(S) \in S /\ \A x \in S : x <= Videos!Max(S)
<1> DEFINE Less == {s \in Nat \X Nat : s[1] < s[2]}
           gaps == {n - x : x \in S}
<1>1. IsWellFoundedOn(Less, Nat)
  BY NatLessThanWellFounded, Zenon DEF OpToRel
<1>2. gaps \subseteq Nat /\ gaps # {}
  <2>1. \A x \in S : n - x \in Nat
    OBVIOUS
  <2> QED
    BY <2>1
<1> HIDE DEF Less
<1>3. PICK m \in gaps : \A k \in gaps : ~(<<k, m>> \in Less)
  BY <1>1, <1>2, WFMin
<1>4. PICK x \in S : m = n - x
  BY <1>3
<1>5. ASSUME NEW y \in S
      PROVE  y <= x
  <2>1. n - y \in gaps
    OBVIOUS
  <2>2. ~(<<n - y, m>> \in Less) /\ n - y \in Nat /\ m \in Nat
    BY <1>2, <1>3, <2>1
  <2>3. <<n - y, m>> \in Nat \X Nat
    BY <2>2
  <2>4. ~(n - y < m)
    BY <2>2, <2>3 DEF Less
  <2> QED
    BY <1>4, <2>2, <2>4
<1>6. \E z \in S : \A y \in S : z >= y
  BY <1>5
<1>7. Videos!Max(S) \in S /\ \A y \in S : Videos!Max(S) >= y
  BY <1>6, Zenon DEF Videos!Max
<1> QED
  BY <1>7

\* The names of several callbacks stamp a video just if the last one is a name,
\* and then for a file, which is that name if there is no other.
LEMMA Stamped ==
    ASSUME NEW ns \in Seq(Videos!Name), ns # <<>>
    PROVE  IF ns[Len(ns)] = Nothing THEN Videos!StampedFor(ns) = Videos!NoVideo
           ELSE \E file \in videos.File :
                   /\ Videos!StampedFor(ns) = Videos!Stamp(file)
                   /\ Len(ns) = 1 => file = ns[Len(ns)]
<1> DEFINE nones == {i \in DOMAIN ns : ns[i] = Nothing}
           first == IF nones = {} THEN 1 ELSE Videos!Max(nones) + 1
           n == Len(ns)
<1>1. n \in Nat \ {0} /\ DOMAIN ns = 1 .. n
  BY EmptySeq, LenProperties
<1>2. Videos!StampedFor(ns) = IF first > n THEN Videos!NoVideo
                              ELSE Videos!Stamp(ns[first])
  BY DEF Videos!StampedFor
<1>3. nones \in SUBSET (0 .. n)
  BY <1>1
<1>4. /\ nones # {} => Videos!Max(nones) \in nones
      /\ \A x \in nones : x <= Videos!Max(nones)
  BY <1>1, <1>3, LastPosition
<1>5. first \in 1 .. n + 1 /\ \A x \in nones : x < first
  <2>1. CASE nones = {}
    BY <1>1, <2>1
  <2>2. CASE nones # {}
    <3>1. Videos!Max(nones) \in 1 .. n /\ first = Videos!Max(nones) + 1
      BY <1>1, <1>4, <2>2
    <3>2. \A x \in nones : x \in 1 .. n /\ x <= Videos!Max(nones)
      BY <1>1, <1>4
    <3> HIDE DEF nones, first, n
    <3>3. \A x \in nones : x < Videos!Max(nones) + 1
      BY <1>1, <3>1, <3>2
    <3> QED
      BY <1>1, <3>1, <3>3
  <2> QED
    BY <2>1, <2>2
<1>6. CASE ns[n] = Nothing
  <2>1. n \in nones
    BY <1>1, <1>6
  <2> HIDE DEF nones, first, n
  <2>2. first > n
    BY <1>1, <1>5, <2>1
  <2> QED
    BY <1>2, <1>6, <2>2 DEF n
<1>7. CASE ns[n] # Nothing
  <2>1. n \notin nones
    BY <1>7
  <2>2. first <= n
    <3>1. CASE nones = {}
      BY <1>1, <3>1
    <3>2. CASE nones # {}
      <4>1. Videos!Max(nones) \in 0 .. n /\ Videos!Max(nones) # n
        BY <1>3, <1>4, <2>1, <3>2
      <4> QED
        BY <1>1, <3>2, <4>1
    <3> QED
      BY <3>1, <3>2
  <2> HIDE DEF first
  <2>3. first \in DOMAIN ns /\ first \notin nones
    BY <1>1, <1>5, <2>2
  <2>4. ns[first] \in Videos!Name /\ ns[first] # Nothing
    BY <2>3, <1>1, ElementOfSeq
  <2>5. ns[first] \in videos.File
    BY <2>4 DEF Videos!Name
  <2>6. Videos!StampedFor(ns) = Videos!Stamp(ns[first])
    BY <1>1, <1>2, <1>5, <2>2
  <2>7. n = 1 => first = n
    BY <1>1, <1>5, <2>2
  <2> QED
    BY <1>7, <2>5, <2>6, <2>7
<1> QED
  BY <1>6, <1>7

\* What there is of a video, apart from what waits for a frame.
GoodVideo ==
    /\ video \in Videos!Video \union {Videos!NoVideo}
    /\ detached \subseteq videos.File
    /\ loaded \in BOOLEAN /\ visible \in BOOLEAN /\ hurried \in BOOLEAN
    /\ video # Videos!NoVideo => video.playing = visible

\* The names that wait for a frame end with the document's; while none waits
\* the template has the document's name, and a video if that is one, of its
\* file unless there was another name in the same frame.
GoodFrames ==
    /\ fileName \in Videos!Name
    /\ frames \in Seq(Videos!Name) /\ Len(frames) <= videos.MaxChanges
    /\ frames # <<>> => /\ sources = Nothing
                        /\ video = Videos!NoVideo
                        /\ frames[Len(frames)] = fileName
    /\ frames = <<>> => /\ sources = fileName
                        /\ video = Videos!NoVideo <=> fileName = Nothing
                        /\ ~hurried => video.of = fileName

\* The media element begins like this.
LEMMA VideosInit ==
    ASSUME Videos!MediaAssumption, Videos!Init
    PROVE  GoodVideo /\ GoodFrames
<1>1. <<>> \in Seq(Videos!Name) /\ Len(<<>>) = 0
  OBVIOUS
<1>2. GoodVideo
  BY DEF Videos!Init, GoodVideo
<1>3. /\ frames \in Seq(Videos!Name) /\ Len(frames) = 0 /\ frames = <<>>
      /\ fileName = Nothing /\ sources = Nothing /\ video = Videos!NoVideo
      /\ video.of = Nothing
  BY <1>1 DEF Videos!Init, Videos!NoVideo
<1>4. Nothing \in Videos!Name /\ 0 <= videos.MaxChanges
  BY DEF Videos!MediaAssumption, Videos!Name
<1>5. GoodFrames
  BY <1>3, <1>4 DEF GoodFrames
<1> QED
  BY <1>2, <1>5

\* No video is not a video, a stamped one is, and plays.
LEMMA AVideo ==
    ASSUME Videos!MediaAssumption
    PROVE  /\ Videos!NoVideo \notin Videos!Video
           /\ ~Videos!NoVideo.playing /\ ~Videos!NoVideo.loading
           /\ \A file \in videos.File :
                 /\ Videos!Stamp(file) \in Videos!Video
                 /\ Videos!Stamp(file).playing
                 /\ Videos!Stamp(file).of = file
           /\ Videos!NoVideo.of = Nothing
BY DEF Videos!MediaAssumption, Videos!NoVideo, Videos!Video, Videos!Stamp

\* The document's name changes.
LEMMA ChangeOK ==
    ASSUME Videos!MediaAssumption, GoodVideo, GoodFrames,
           NEW name \in Videos!Name, Videos!OnFileNameChanged(name)
    PROVE  GoodVideo' /\ GoodFrames'
<1>1. Videos!Removed \subseteq videos.File
  BY AVideo DEF Videos!Removed, GoodVideo, Videos!Video
<1>2. GoodVideo'
  BY <1>1 DEF GoodVideo, Videos!OnFileNameChanged
<1>3. frames \in Seq(Videos!Name) /\ frames' = Append(frames, name)
  BY DEF GoodFrames, Videos!OnFileNameChanged
<1>4. /\ frames' \in Seq(Videos!Name) /\ Len(frames') = Len(frames) + 1
      /\ frames'[Len(frames) + 1] = name
  BY <1>3, AppendProperties
<1>5. Len(frames) \in Nat /\ frames' # <<>>
  BY <1>3, <1>4, LenProperties, EmptySeq
<1>6. Len(frames') <= videos.MaxChanges
  BY <1>4, <1>5 DEF Videos!OnFileNameChanged, Videos!MediaAssumption
<1>7. GoodFrames'
  BY <1>4, <1>5, <1>6 DEF GoodFrames, Videos!OnFileNameChanged
<1> QED
  BY <1>2, <1>7

\* The changes of a frame are applied.
LEMMA FrameOK ==
    ASSUME Videos!MediaAssumption, GoodVideo, GoodFrames, Videos!Frame
    PROVE  GoodVideo' /\ GoodFrames'
<1>1. /\ visible /\ frames # <<>> /\ frames' = <<>>
      /\ UNCHANGED <<fileName, detached, loaded, visible>>
      /\ sources' = fileName /\ video' = Videos!StampedFor(frames)
      /\ frames[Len(frames)] = fileName /\ frames \in Seq(Videos!Name)
      /\ hurried' = (Len(frames) > 1)
  BY DEF Videos!Frame, GoodFrames
<1>2. \/ fileName = Nothing /\ video' = Videos!NoVideo
      \/ /\ fileName # Nothing
         /\ \E file \in videos.File :
               /\ video' = Videos!Stamp(file)
               /\ Len(frames) = 1 => file = fileName
  BY <1>1, Stamped
<1>3. /\ video' \in Videos!Video \union {Videos!NoVideo}
      /\ video' # Videos!NoVideo => video'.playing
      /\ video' = Videos!NoVideo <=> fileName = Nothing
      /\ Len(frames) = 1 => video'.of = fileName
  BY <1>2, AVideo
<1>4. <<>> \in Seq(Videos!Name) /\ Len(<<>>) = 0
  OBVIOUS
<1>5. GoodVideo'
  <2>1. video' # Videos!NoVideo => video'.playing = TRUE
    <3>1. CASE video' # Videos!NoVideo
      <4>1. PICK file \in videos.File : video' = Videos!Stamp(file)
        BY <1>2, <3>1
      <4> QED
        BY <4>1 DEF Videos!Stamp
    <3> QED
      BY <3>1
  <2> QED
    <3>1. hurried' \in BOOLEAN
      <4>1. hurried' = (Len(frames) > 1)
        BY <1>1
      <4> QED
        BY ONLY <4>1, SMT
    <3> QED
      BY <1>1, <1>3, <2>1, <3>1 DEF GoodVideo
<1>6. ~hurried' => video'.of = fileName
  <2>1. Len(frames) \in Nat \ {0}
    BY <1>1, LenProperties, EmptySeq
  <2>2. ~(Len(frames) > 1) => Len(frames) = 1
    BY <2>1
  <2>3. ~hurried' => ~(Len(frames) > 1)
    BY <1>1, Zenon
  <2> QED
    BY <1>3, <2>2, <2>3
<1>7. GoodFrames'
  BY <1>1, <1>3, <1>4, <1>6 DEF GoodFrames, Videos!MediaAssumption
<1> QED
  BY <1>5, <1>7

\* The video is loaded.
LEMMA LoadedOK ==
    ASSUME Videos!MediaAssumption, GoodVideo, GoodFrames, Videos!OnLoadedData
    PROVE  GoodVideo' /\ GoodFrames'
<1>1. CASE /\ video.loading
           /\ video' = [video EXCEPT !.loading = FALSE]
           /\ UNCHANGED detached
  <2>1. video \in Videos!Video
    BY <1>1, AVideo DEF GoodVideo
  <2>2. video' \in Videos!Video /\ video'.playing = video.playing
        /\ video'.of = video.of
    BY <1>1, <2>1 DEF Videos!Video
  <2> QED
    BY <1>1, <2>1, <2>2, AVideo
       DEF GoodVideo, GoodFrames, Videos!OnLoadedData
<1>2. CASE \E file \in detached : /\ detached' = detached \ {file}
                                  /\ UNCHANGED video
  BY <1>2 DEF GoodVideo, GoodFrames, Videos!OnLoadedData
<1> QED
  BY <1>1, <1>2 DEF Videos!OnLoadedData

\* The window is hidden or shown.
LEMMA HideOK ==
    ASSUME Videos!MediaAssumption, GoodVideo, GoodFrames,
           Videos!OnVisibilityChanged
    PROVE  GoodVideo' /\ GoodFrames'
<1>1. CASE video = Videos!NoVideo
  BY <1>1 DEF GoodVideo, GoodFrames, Videos!OnVisibilityChanged
<1>2. CASE video # Videos!NoVideo
  <2>1. video \in Videos!Video /\ video' = [video EXCEPT !.playing = ~visible]
    BY <1>2 DEF GoodVideo, Videos!OnVisibilityChanged
  <2>2. video' \in Videos!Video /\ video'.playing = ~visible
        /\ video'.of = video.of
    BY <2>1 DEF Videos!Video, GoodVideo
  <2> QED
    BY <1>2, <2>2, AVideo DEF GoodVideo, GoodFrames, Videos!OnVisibilityChanged
<1> QED
  BY <1>1, <1>2

\* Every step keeps the video and the frames so.
LEMMA VideosStep ==
    ASSUME Videos!MediaAssumption, GoodVideo, GoodFrames,
           [Videos!Next]_videosVars
    PROVE  GoodVideo' /\ GoodFrames'
<1>1. CASE UNCHANGED videosVars
  BY <1>1 DEF videosVars, GoodVideo, GoodFrames
<1> QED
  BY <1>1, ChangeOK, FrameOK, LoadedOK, HideOK DEF Videos!Next

\* What the media element promises follows.
LEMMA VideosRight ==
    ASSUME Videos!MediaAssumption, GoodVideo, GoodFrames
    PROVE  Videos!IInv /\ Videos!NamedWhenCalm /\ Videos!PausedWhileHidden
<1>1. Videos!TypeOK
  BY DEF GoodVideo, GoodFrames, Videos!TypeOK, Videos!Name
<1>2. Videos!IInv
  BY <1>1 DEF GoodVideo, GoodFrames, Videos!IInv
<1>3. Videos!NamedWhenCalm
  BY DEF GoodFrames, Videos!NamedWhenCalm
<1>4. Videos!PausedWhileHidden
  <2>1. ~Videos!NoVideo.playing
    BY DEF Videos!NoVideo
  <2> QED
    BY <2>1 DEF GoodVideo, Videos!PausedWhileHidden
<1> QED
  BY <1>2, <1>3, <1>4

-----------------------------------------------------------------------------
\* What may be on a page, and what a stamped section is.
Argument == {p.arg : p \in urls.Path} \union {Nothing}

\* The names a page may have.
PageName == {p.page : p \in urls.Path} \union {Nothing}

\* A page that is stamped.
StampedPage == [is : PageName, arg : Argument,
   query : urls.Query \union {Nothing}]

\* A section that is stamped, with its page.
StampedSection == [is : Shell!Section \union {Nothing},
                   path : urls.Path \union {Nothing},
                   query : urls.Query \union {Nothing},
                   page : StampedPage]

\* A section that is stamped has the path that was handed to it, and its page
\* an argument of its own.
OwnSection(s) ==
    /\ s.is # Nothing
    /\ s.path \in urls.Path /\ s.path.section = s.is
    /\ s.query \in urls.Query
    /\ \/ s.page = Shell!NoPage
       \/ /\ s.page.is \in Shell!PagesOf(s.is)
          /\ \E p \in urls.Path : p.page = s.page.is /\ p.arg = s.page.arg

\* What is on the page of a path is the path's.
PathDown(s, to) ==
    /\ s.path = to
    /\ s.page.is = to.page => s.page.arg = to.arg

\* And the query's.
QueryDown(s, to) ==
    /\ s.query = to.query \/ Shell!Fails(s, to.path)
    /\ s.page.is = to.path.page =>
          s.page.query = Shell!QueryFor(to.path.page, to.query)

\* The parts of IInv.
GoodShell ==
    /\ Shell!TypeOK
    /\ stamped \in StampedSection
    /\ stamped = Shell!NoSection \/ OwnSection(stamped)
    /\ next # "section" => section = url.path.section
    /\ next = "stamp" /\ stamped.is # section => told = url.query
    /\ next \in {"stampPage", "rest"} => stamped.is = section
    /\ next \notin {"section", "path"} /\ stamped.is = section =>
          /\ PathDown(stamped, url.path)
          /\ next # "query" => QueryDown(stamped, url)
    /\ next = "rest" =>
          stamped.page.is = IF url.path.page = "notFound" THEN Nothing
                            ELSE url.path.page

\* IInv follows.
LEMMA ShellParts ==
    ASSUME GoodShell
    PROVE  Shell!IInv
BY DEF GoodShell, Shell!IInv, Shell!StampedOK, OwnSection, PathDown, QueryDown

\* No page has the name of nothing, nor of a page that is not found.
Named(p) ==
    /\ p.section \in Shell!Section
    /\ p.page \in Shell!PagesOf(p.section) \union {"notFound"}
    /\ p.page # Nothing
    /\ p.arg = NoMatch => p.page = "notFound"

\* So it is for every path there is.
LEMMA PagesAreNamed ==
    ASSUME Shell!AppRoutingAssumption
    PROVE  /\ Nothing # "notFound" /\ Nothing \notin Shell!Section
           /\ \A s \in Shell!Section : Nothing \notin Shell!PagesOf(s)
           /\ \A s \in Shell!Section : "notFound" \notin Shell!PagesOf(s)
           /\ \A p \in urls.Path : Named(p)
<1>1. \A s \in Shell!Section : "notFound" \notin Shell!PagesOf(s)
  BY DEF Shell!PagesOf, Shell!Section
<1>2. Nothing # "notFound" /\ Nothing \notin Shell!Section
  BY DEF Shell!AppRoutingAssumption, Shell!Section
<1> QED
  BY <1>1, <1>2 DEF Shell!AppRoutingAssumption, Named

\* What is stamped before anything is.
LEMMA NoPageIs ==
    /\ Shell!NoPage \in StampedPage /\ Shell!NoPage.is = Nothing
    /\ Shell!NoSection \in StampedSection /\ Shell!NoSection.is = Nothing
    /\ Shell!NoSection.page = Shell!NoPage
<1>1. Shell!NoPage \in StampedPage /\ Shell!NoPage.is = Nothing
  BY DEF Shell!NoPage, StampedPage, PageName, Argument
<1> QED
  BY <1>1 DEF Shell!NoSection, StampedSection

\* A section is handed its path.
LEMMA GetsPathOK ==
    ASSUME Shell!AppRoutingAssumption, NEW s \in StampedSection, OwnSection(s),
           NEW to \in urls.Path, to.section = s.is
    PROVE  /\ Shell!GetsPath(s, to) \in StampedSection
           /\ OwnSection(Shell!GetsPath(s, to))
           /\ Shell!GetsPath(s, to).is = s.is
           /\ PathDown(Shell!GetsPath(s, to), to)
<1> DEFINE t == Shell!GetsPath(s, to)
           made == Shell!PageGetsArg(s.page, to.page, to.arg)
<1>0. s.page \in StampedPage /\ to.arg \in Argument
  BY DEF StampedSection, Argument
<1>1. /\ made \in StampedPage /\ made.is = s.page.is
      /\ made.is = to.page => made.arg = to.arg
      /\ made.is # to.page => made = s.page
  BY <1>0 DEF Shell!PageGetsArg, StampedPage
<1>2. Shell!PageShown([s EXCEPT !.path = to]) = to.page
  BY DEF Shell!PageShown, StampedSection
<1>3. t = [s EXCEPT !.path = to, !.page = made]
  BY <1>2 DEF Shell!GetsPath
<1> HIDE DEF made, t
<1>4. /\ t \in StampedSection /\ t.is = s.is /\ t.path = to
      /\ t.query = s.query /\ t.page = made
  BY <1>1, <1>3 DEF StampedSection
<1>5. PathDown(t, to)
  BY <1>1, <1>4 DEF PathDown
<1>6. OwnSection(t)
  <2>1. CASE made.is = to.page
    <3>1. s.page.is # Nothing
      BY <1>1, <2>1, PagesAreNamed DEF Named
    <3>2. s.page.is \in Shell!PagesOf(s.is)
      BY <3>1, NoPageIs DEF OwnSection
    <3> QED
      BY <1>1, <1>4, <2>1, <3>2 DEF OwnSection
  <2>2. CASE made.is # to.page
    BY <1>1, <1>4, <2>2 DEF OwnSection
  <2> QED
    BY <2>1, <2>2
<1> QED
  BY <1>4, <1>5, <1>6 DEF t

\* And its query.
LEMMA GetsQueryOK ==
    ASSUME Shell!AppRoutingAssumption, NEW s \in StampedSection, OwnSection(s),
           NEW to \in [path : urls.Path, query : urls.Query],
           PathDown(s, to.path)
    PROVE  /\ Shell!GetsQuery(s, to.query) \in StampedSection
           /\ OwnSection(Shell!GetsQuery(s, to.query))
           /\ Shell!GetsQuery(s, to.query).is = s.is
           /\ PathDown(Shell!GetsQuery(s, to.query), to.path)
           /\ QueryDown(Shell!GetsQuery(s, to.query), to)
<1> DEFINE t == Shell!GetsQuery(s, to.query)
           made == Shell!PageGetsQuery(s.page, to.path.page, to.query)
<1>0. /\ s.page \in StampedPage /\ to.query \in urls.Query
         /\ to.path \in urls.Path
      /\ s.path = to.path /\ s.path.section = s.is
  BY DEF StampedSection, PathDown, OwnSection
<1>1. /\ made \in StampedPage /\ made.is = s.page.is /\ made.arg = s.page.arg
      /\ made.is = to.path.page =>
            made.query = Shell!QueryFor(to.path.page, to.query)
      /\ made.is # to.path.page => made = s.page
  BY <1>0 DEF Shell!PageGetsQuery, StampedPage, Shell!QueryFor
<1>2. Shell!PageShown(s) = to.path.page
  BY <1>0 DEF Shell!PageShown
<1>3. t = [s EXCEPT !.query = to.query, !.page = made]
  BY <1>2 DEF Shell!GetsQuery
<1> HIDE DEF made, t
<1>4. /\ t \in StampedSection /\ t.is = s.is /\ t.path = s.path
      /\ t.query = to.query /\ t.page = made
  BY <1>0, <1>1, <1>3 DEF StampedSection
<1>5. PathDown(t, to.path) /\ QueryDown(t, to)
  BY <1>1, <1>4 DEF PathDown, QueryDown
<1>6. OwnSection(t)
  <2>1. CASE made.is = to.path.page
    <3>1. s.page.is # Nothing
      BY <1>0, <1>1, <2>1, PagesAreNamed DEF Named
    <3>2. s.page.is \in Shell!PagesOf(s.is)
          /\ \E p \in urls.Path : p.page = s.page.is /\ p.arg = s.page.arg
      BY <3>1, NoPageIs DEF OwnSection
    <3> QED
      BY <1>0, <1>1, <1>4, <2>1, <3>2 DEF OwnSection
  <2>2. CASE made.is # to.path.page
    BY <1>0, <1>1, <1>4, <2>2 DEF OwnSection
  <2> QED
    BY <2>1, <2>2
<1> QED
  BY <1>4, <1>5, <1>6 DEF t

\* The shell begins like this.
LEMMA ShellInit == Shell!Init => GoodShell
BY NoPageIs DEF Shell!Init, GoodShell, Shell!TypeOK, Shell!Section

\* The parts of the address.
LEMMA AddressIs ==
    ASSUME Shell!AppRoutingAssumption, Shell!TypeOK
    PROVE  url.path \in urls.Path /\ url.query \in urls.Query
           /\ url.path.section \in Shell!Section
BY PagesAreNamed DEF Named, Shell!TypeOK

\* Every step of the shell keeps its parts.
LEMMA ShellStep ==
    ASSUME Shell!AppRoutingAssumption, GoodShell, [Shell!Next]_shellVars
    PROVE  GoodShell'
<1>0. /\ Shell!TypeOK
      /\ stamped \in StampedSection
      /\ stamped = Shell!NoSection \/ OwnSection(stamped)
      /\ next # "section" => section = url.path.section
      /\ next = "stamp" /\ stamped.is # section => told = url.query
      /\ next \in {"stampPage", "rest"} => stamped.is = section
      /\ next \notin {"section", "path"} /\ stamped.is = section =>
            /\ PathDown(stamped, url.path)
            /\ next # "query" => QueryDown(stamped, url)
  BY DEF GoodShell
<1>a. /\ url.path \in urls.Path /\ url.query \in urls.Query
      /\ url.path.section \in Shell!Section
  BY <1>0, AddressIs
<1>b. stamped.is \in Shell!Section \union {Nothing}
  BY <1>0 DEF Shell!TypeOK
<1>c. stamped.is \in Shell!Section =>
         stamped # Shell!NoSection /\ OwnSection(stamped)
  BY <1>0, NoPageIs, PagesAreNamed DEF Named
<1>1. ASSUME NEW to \in urls.Path, NEW q \in urls.Query, Shell!Visit(to, q)
      PROVE  GoodShell'
  <2>1. /\ next = "rest" /\ url' = [path |-> to, query |-> q]
        /\ next' = IF to # url.path THEN "section" ELSE "query"
        /\ UNCHANGED <<told, section, stamped, claims, userInfo>>
    BY <1>1 DEF Shell!Visit
  <2>2. Shell!TypeOK'
    BY <1>0, <2>1 DEF Shell!TypeOK
  <2>3. CASE next' = "section"
    BY <1>0, <2>1, <2>2, <2>3 DEF GoodShell
  <2>4. CASE next' # "section"
    <3>1. to = url.path /\ next' = "query" /\ url'.path = url.path
      BY <2>1, <2>4
    <3> QED
      BY <1>0, <2>1, <2>2, <3>1 DEF GoodShell
  <2> QED
    BY <2>3, <2>4
<1>2. CASE Shell!ClaimsChange
  BY <1>2 DEF Shell!ClaimsChange, GoodShell, Shell!TypeOK
<1>3. CASE Shell!OnRouteChanged
  <2>1. /\ next = "section" /\ section' = url.path.section /\ next' = "path"
        /\ userInfo' = claims /\ UNCHANGED <<url, told, stamped, claims>>
    BY <1>3 DEF Shell!OnRouteChanged
  <2>2. Shell!TypeOK'
    BY <1>0, <1>a, <2>1 DEF Shell!TypeOK
  <2> QED
    BY <1>0, <2>1, <2>2 DEF GoodShell
<1>4. CASE Shell!HandDown
  <2>1. /\ next = "path" /\ UNCHANGED <<url, told, section, claims, userInfo>>
        /\ stamped' = IF stamped.is # section THEN stamped
                      ELSE Shell!GetsPath(stamped, url.path)
        /\ next' = IF stamped.is = section /\ Shell!Fails(stamped, url.path)
                   THEN "stamp" ELSE "query"
        /\ section = url.path.section
    BY <1>0, <1>4 DEF Shell!HandDown
  <2>2. CASE stamped.is # section
    <3>1. Shell!TypeOK'
      BY <1>0, <2>1, <2>2 DEF Shell!TypeOK
    <3> QED
      BY <1>0, <2>1, <2>2, <3>1 DEF GoodShell
  <2>3. CASE stamped.is = section
    <3>1. OwnSection(stamped)
      BY <1>a, <1>c, <2>1, <2>3
    <3>2. /\ stamped' \in StampedSection /\ OwnSection(stamped')
          /\ stamped'.is = stamped.is /\ PathDown(stamped', url.path)
      BY <1>0, <1>a, <2>1, <2>3, <3>1, GetsPathOK
    <3>3. Shell!TypeOK'
      BY <1>0, <2>1, <3>2 DEF Shell!TypeOK
    <3>4. ASSUME next' # "query"
          PROVE  QueryDown(stamped', url)
      <4>1. Shell!Fails(stamped, url.path)
        BY <2>1, <3>4
      <4>2. Shell!Fails(stamped', url.path) /\ url.path.page = "notFound"
        BY <1>a, <3>2, <4>1, PagesAreNamed DEF Named, Shell!Fails
      <4>3. stamped'.page.is # "notFound"
        <5>1. CASE stamped'.page = Shell!NoPage
          BY <5>1, NoPageIs, PagesAreNamed DEF Named
        <5>2. CASE stamped'.page.is \in Shell!PagesOf(stamped'.is)
          BY <1>a, <2>1, <2>3, <3>2, <5>2, PagesAreNamed DEF Named
        <5> QED
          BY <3>2, <5>1, <5>2 DEF OwnSection
      <4> QED
        BY <4>2, <4>3 DEF QueryDown
    <3> QED
      BY <2>1, <2>3, <3>2, <3>3, <3>4 DEF GoodShell
  <2> QED
    BY <2>2, <2>3
<1>5. CASE Shell!QueryChanged
  <2>1. /\ next = "query" /\ UNCHANGED <<url, section, claims, userInfo>>
        /\ told' = url.query /\ next' = "stamp"
        /\ stamped' = IF stamped.is # section THEN stamped
                      ELSE Shell!GetsQuery(stamped, url.query)
        /\ section = url.path.section
    BY <1>0, <1>5 DEF Shell!QueryChanged
  <2>2. CASE stamped.is # section
    <3>1. Shell!TypeOK'
      BY <1>0, <1>a, <2>1, <2>2 DEF Shell!TypeOK
    <3> QED
      BY <1>0, <2>1, <2>2, <3>1 DEF GoodShell
  <2>3. CASE stamped.is = section
    <3>1. OwnSection(stamped)
      BY <1>a, <1>c, <2>1, <2>3
    <3>2. url \in [path : urls.Path, query : urls.Query]
          /\ PathDown(stamped, url.path)
      BY <1>0, <2>1, <2>3 DEF Shell!TypeOK
    <3>3. /\ stamped' \in StampedSection /\ OwnSection(stamped')
          /\ stamped'.is = stamped.is /\ PathDown(stamped', url.path)
          /\ QueryDown(stamped', url)
      BY <1>0, <2>1, <2>3, <3>1, <3>2, GetsQueryOK
    <3>4. Shell!TypeOK'
      BY <1>0, <1>a, <2>1, <3>3 DEF Shell!TypeOK
    <3> QED
      BY <2>1, <2>3, <3>3, <3>4 DEF GoodShell
  <2> QED
    BY <2>2, <2>3
<1>6. CASE Shell!Stamp
  <2>1. /\ next = "stamp" /\ UNCHANGED <<url, told, section, claims, userInfo>>
        /\ next' = "stampPage"
        /\ stamped' = IF stamped.is = section THEN stamped
                      ELSE [is |-> section, path |-> url.path, query |-> told,
                            page |-> Shell!NoPage]
        /\ section = url.path.section
    BY <1>0, <1>6 DEF Shell!Stamp
  <2>2. CASE stamped.is = section
    <3>1. Shell!TypeOK'
      BY <1>0, <2>1, <2>2 DEF Shell!TypeOK
    <3> QED
      BY <1>0, <2>1, <2>2, <3>1 DEF GoodShell
  <2>3. CASE stamped.is # section
    <3>1. told = url.query /\ section # Nothing
      BY <1>0, <1>a, <2>1, <2>3, PagesAreNamed DEF Named
    <3>2. /\ stamped' \in StampedSection
          /\ stamped'.is = section /\ stamped'.path = url.path
          /\ stamped'.query = url.query /\ stamped'.page = Shell!NoPage
      BY <1>a, <2>1, <2>3, <3>1, NoPageIs DEF StampedSection
    <3>3. OwnSection(stamped')
      BY <1>a, <2>1, <3>1, <3>2 DEF OwnSection
    <3>4. PathDown(stamped', url.path) /\ QueryDown(stamped', url)
      BY <1>a, <3>2, NoPageIs, PagesAreNamed DEF Named, PathDown, QueryDown
    <3>5. Shell!TypeOK'
      BY <1>0, <1>a, <2>1, <3>2 DEF Shell!TypeOK
    <3> QED
      BY <2>1, <3>2, <3>3, <3>4, <3>5 DEF GoodShell
  <2> QED
    BY <2>2, <2>3
<1>7. CASE Shell!StampPage
  <2> DEFINE due == Shell!PageShown(stamped)
             made == [is |-> due, arg |-> stamped.path.arg,
                      query |-> Shell!QueryFor(due, stamped.query)]
             after == IF due = "notFound" THEN Shell!NoPage
                      ELSE IF stamped.page.is = due THEN stamped.page ELSE made
  <2>1. /\ next = "stampPage"
        /\ UNCHANGED <<url, told, section, claims, userInfo>>
        /\ next' = "rest" /\ stamped' = [stamped EXCEPT !.page = after]
        /\ section = url.path.section /\ stamped.is = section
    BY <1>0, <1>7 DEF Shell!StampPage
  <2>2. OwnSection(stamped) /\ PathDown(stamped, url.path)
        /\ QueryDown(stamped, url)
    BY <1>0, <1>a, <1>c, <2>1
  <2>3. stamped.path = url.path /\ due = url.path.page
    BY <2>1, <2>2 DEF PathDown, Shell!PageShown
  <2>4. stamped.page \in StampedPage
    BY <1>0 DEF StampedSection
  <2>5. /\ after \in StampedPage
        /\ after.is = IF due = "notFound" THEN Nothing ELSE due
        /\ after.is = due =>
              /\ after.arg = url.path.arg
              /\ after.query = Shell!QueryFor(due, url.query)
        /\ after = Shell!NoPage \/ (after.is = due /\ due # "notFound")
    <3>1. CASE due = "notFound"
      BY <2>3, <3>1, NoPageIs, PagesAreNamed DEF Named
    <3>2. CASE due # "notFound" /\ stamped.page.is = due
      BY <2>2, <2>3, <2>4, <3>2 DEF PathDown, QueryDown
    <3>3. CASE due # "notFound" /\ stamped.page.is # due
      <4>1. after = made
        BY <3>3
      <4>2. Shell!QueryFor(due, stamped.query) \in urls.Query \union {Nothing}
        BY <2>2 DEF Shell!QueryFor, OwnSection
      <4>3. due \in PageName /\ stamped.path.arg \in Argument
        BY <1>a, <2>3 DEF PageName, Argument
      <4>4. made \in StampedPage
        BY <4>2, <4>3 DEF StampedPage
      <4>5. ~Shell!Fails(stamped, url.path)
        BY <1>a, <2>3, <3>3, PagesAreNamed DEF Named, Shell!Fails
      <4>6. stamped.query = url.query
        BY <2>2, <4>5 DEF QueryDown
      <4> QED
        BY <2>3, <3>3, <4>1, <4>4, <4>6
    <3> QED
      BY <3>1, <3>2, <3>3
  <2> HIDE DEF after, due, made
  <2>6. /\ stamped' \in StampedSection /\ stamped'.is = stamped.is
        /\ stamped'.path = stamped.path /\ stamped'.query = stamped.query
        /\ stamped'.page = after
    BY <1>0, <2>1, <2>5 DEF StampedSection
  <2>7. PathDown(stamped', url.path) /\ QueryDown(stamped', url)
    BY <2>2, <2>3, <2>5, <2>6 DEF PathDown, QueryDown, Shell!Fails
  <2>8. OwnSection(stamped')
    <3>1. after.is = due /\ due # "notFound" =>
             due \in Shell!PagesOf(stamped.is)
      BY <1>a, <2>1, <2>3, PagesAreNamed DEF Named
    <3> QED
      BY <1>a, <2>2, <2>3, <2>5, <2>6, <3>1 DEF OwnSection
  <2>9. Shell!TypeOK'
    BY <1>0, <2>1, <2>6 DEF Shell!TypeOK
  <2> QED
    BY <2>1, <2>3, <2>5, <2>6, <2>7, <2>8, <2>9 DEF GoodShell
<1>8. CASE UNCHANGED shellVars
  BY <1>8 DEF shellVars, GoodShell, Shell!TypeOK
<1> QED
  BY <1>1, <1>2, <1>3, <1>4, <1>5, <1>6, <1>7, <1>8 DEF Shell!Next

\* What the shell promises follows.
LEMMA ShellRight ==
    ASSUME Shell!AppRoutingAssumption, GoodShell
    PROVE  Shell!IInv /\ Shell!PageFollowsAddress /\ Shell!OwnArguments
<1>1. Shell!OwnArguments
  BY NoPageIs DEF GoodShell, OwnSection, Shell!OwnArguments
<1>2. Shell!PageFollowsAddress
  <2> SUFFICES ASSUME next = "rest"
               PROVE  /\ section = url.path.section
                      /\ stamped.is = section
                      /\ IF url.path.page = "notFound"
                         THEN stamped.page = Shell!NoPage
                         ELSE stamped.page =
                                 [is |-> url.path.page,
                                  arg |-> url.path.arg,
                                  query |-> Shell!QueryFor(url.path.page,
                                                     url.query)]
    BY DEF Shell!PageFollowsAddress
  <2>1. /\ section = url.path.section /\ stamped.is = section
        /\ PathDown(stamped, url.path) /\ QueryDown(stamped, url)
        /\ stamped.page.is = IF url.path.page = "notFound" THEN Nothing
                             ELSE url.path.page
        /\ Shell!TypeOK
    BY DEF GoodShell
  <2>2. url.path \in urls.Path /\ url.path.section \in Shell!Section
    BY <2>1, AddressIs
  <2>3. OwnSection(stamped) /\ stamped.page \in StampedPage
    BY <2>1, <2>2, NoPageIs, PagesAreNamed DEF Named, GoodShell, StampedSection
  <2>4. CASE url.path.page = "notFound"
    BY <2>1, <2>2, <2>3, <2>4, PagesAreNamed DEF Named, OwnSection
  <2>5. CASE url.path.page # "notFound"
    BY <2>1, <2>3, <2>5 DEF PathDown, QueryDown, StampedPage
  <2> QED
    BY <2>1, <2>4, <2>5
<1> QED
  BY <1>1, <1>2, ShellParts

-----------------------------------------------------------------------------
\* The inductive invariants of the elements, the one on the screen's.
Good ==
    /\ screen = <<"documents">> => DocumentsGood
    /\ screen = <<"search">> => SearchGood
    /\ screen = <<"proposals">> => GoodList
    /\ \A k \in DOMAIN views : screen = <<"view", k>> => GoodView(k)
    /\ \A k \in DOMAIN forms : screen = <<"new", k>> => GoodForm(k)
    /\ \A k \in DOMAIN editors : screen = <<"attributes", k>> => GoodEditor(k)
    /\ screen = <<"shell">> => GoodShell
    /\ screen = <<"dialogs">> => GoodDialogs
    /\ screen = <<"videos">> => GoodVideo /\ GoodFrames

\* It begins good.
LEMMA GoodInit == Init => Good
<1> SUFFICES ASSUME Init
             PROVE  Good
  OBVIOUS
<1> USE PagesAssumption DEF PagesAssumption
<1>1. /\ screen = <<"documents">> => DocumentsGood
      /\ screen = <<"search">> => SearchGood
      /\ screen = <<"proposals">> => GoodList
  BY Begins, DocumentsInit, SearchInit, ListInit
<1>2. /\ screen = <<"shell">> => GoodShell
      /\ screen = <<"dialogs">> => GoodDialogs
      /\ screen = <<"videos">> => GoodVideo /\ GoodFrames
  BY Begins, ShellInit, DialogsInit, VideosInit
<1>3. ASSUME NEW k \in DOMAIN views, screen = <<"view", k>>
      PROVE  GoodView(k)
  BY <1>3, Begins, ViewInit
<1>4. ASSUME NEW k \in DOMAIN forms, screen = <<"new", k>>
      PROVE  GoodForm(k)
  BY <1>4, Begins, FormInit
<1>5. ASSUME NEW k \in DOMAIN editors, screen = <<"attributes", k>>
      PROVE  GoodEditor(k)
  BY <1>5, Begins, EditorInit
<1> QED
  BY <1>1, <1>2, <1>3, <1>4, <1>5 DEF Good

\* Every step keeps it so.
LEMMA GoodNext == Good /\ [Next]_vars => Good'
<1> SUFFICES ASSUME Good, [Next]_vars
             PROVE  Good'
  OBVIOUS
<1> USE PagesAssumption DEF PagesAssumption
<1>0. screen' = screen
  BY Moves
<1>1. ASSUME screen = <<"documents">>
      PROVE  DocumentsGood'
  BY <1>1, Moves, DocumentsStep DEF Good
<1>2. ASSUME screen = <<"search">>
      PROVE  SearchGood'
  BY <1>2, Moves, SearchStep DEF Good
<1>3. ASSUME screen = <<"proposals">>
      PROVE  GoodList'
  BY <1>3, Moves, ListStep DEF Good
<1>4. ASSUME NEW k \in DOMAIN views, screen = <<"view", k>>
      PROVE  GoodView(k)'
  BY <1>4, Moves, ViewStep DEF Good
<1>5. ASSUME NEW k \in DOMAIN forms, screen = <<"new", k>>
      PROVE  GoodForm(k)'
  BY <1>5, Moves, FormStep DEF Good
<1>6. ASSUME NEW k \in DOMAIN editors, screen = <<"attributes", k>>
      PROVE  GoodEditor(k)'
  BY <1>6, Moves, EditorStep DEF Good
<1>7. ASSUME screen = <<"shell">>
      PROVE  GoodShell'
  BY <1>7, Moves, ShellStep DEF Good
<1>8. ASSUME screen = <<"dialogs">>
      PROVE  GoodDialogs'
  BY <1>8, Moves, DialogsStep DEF Good
<1>9. ASSUME screen = <<"videos">>
      PROVE  GoodVideo' /\ GoodFrames'
  BY <1>9, Moves, VideosStep DEF Good
<1> QED
  BY <1>0, <1>1, <1>2, <1>3, <1>4, <1>5, <1>6, <1>7, <1>8, <1>9 DEF Good

\* So whatever is on the screen is good.
LEMMA GoodAlways == Spec => []Good
BY GoodInit, GoodNext, PTL DEF Spec

\* The inductive invariants of all elements hold: fb-app and what it stamps.
THEOREM PagesConsistent == Spec => []Consistent
<1>1. Good => Consistent
  <2> SUFFICES ASSUME Good
               PROVE  Consistent
    OBVIOUS
  <2> USE PagesAssumption DEF PagesAssumption
  <2>1. /\ screen = <<"documents">> => Documents!IInv
        /\ screen = <<"search">> => Search!IInv
        /\ screen = <<"proposals">> => Proposals!IInv
    BY DocumentsRight, SearchRight, ListRight DEF Good
  <2>2. /\ screen = <<"shell">> => Shell!IInv
        /\ screen = <<"dialogs">> => Dialogs!IInv
        /\ screen = <<"videos">> => Videos!IInv
    BY ShellRight, DialogsRight, VideosRight DEF Good
  <2>3. ASSUME NEW k \in DOMAIN views, screen = <<"view", k>>
        PROVE  View(k)!IInv
    BY <2>3, ViewMeant DEF Good
  <2>4. ASSUME NEW k \in DOMAIN forms, screen = <<"new", k>>
        PROVE  New(k)!IInv
    BY <2>4, FormRight DEF Good
  <2>5. ASSUME NEW k \in DOMAIN editors, screen = <<"attributes", k>>
        PROVE  Attributes(k)!IInv
    BY <2>5, EditorRight DEF Good
  <2> QED
    BY <2>1, <2>2, <2>3, <2>4, <2>5 DEF Consistent
<1> QED
  BY <1>1, GoodAlways, PTL

\* The page of a document and its list show what the URL asks for, however
\* late and in whatever order answers come: game-document-page,
\* document-list-loader.
THEOREM PagesRight == Spec => []RightPage
<1>1. Good => RightPage
  BY DocumentsRight DEF Good, RightPage
<1> QED
  BY <1>1, GoodAlways, PTL

\* Results are those of the query in the URL.  The rows of a list of proposals
\* were all asked for with the filters that are set, no page twice.  While the
\* index is up to date and the server's list stays as it is they are its
\* beginning, and none is shown twice while none is put back on the list, but
\* for proposals of one second, whose order the query leaves open:
\* search-results-loader, proposal-list, get_list_asc.n1ql.
THEOREM ListsRight == Spec => []RightLists
<1> USE PagesAssumption DEF PagesAssumption
<1>1. Good => RightLists
  BY SearchRight, ListRight DEF Good, RightLists
<1> QED
  BY <1>1, GoodAlways, PTL

\* A verdict is sent on the proposal and the status that its user saw:
\* view-proposal-page.
THEOREM VerdictsMeant == Spec => []VerdictsAreMeant
<1>1. Good => VerdictsAreMeant
  BY ViewMeant DEF Good, VerdictsAreMeant
<1> QED
  BY <1>1, GoodAlways, PTL

\* A form sends what was asked for, with the video picked last, once:
\* new-character-page, new-game-page, media-selector.
THEOREM FormsRight == Spec => []FormsSendWhatWasAsked
<1> USE PagesAssumption DEF PagesAssumption
<1>1. Good => FormsSendWhatWasAsked
  <2> SUFFICES ASSUME Good, NEW k \in DOMAIN forms, screen = <<"new", k>>
               PROVE  /\ New(k)!StoredWhereAsked /\ New(k)!EditsItsTarget
                      /\ New(k)!LastPickedWins /\ New(k)!OnePostInFlight
    BY Zenon DEF FormsSendWhatWasAsked
  <2> QED
    BY FormRight DEF Good
<1> QED
  BY <1>1, GoodAlways, PTL

\* At rest a form that the editor of attributes finds valid is filled in,
\* whatever was typed, added, removed and loaded before, unless the user was too
\* fast for a row's timers when one was removed; and a form that is filled in
\* is found valid, unless a shorter document was loaded into it or one while
\* such timers ran: attribute-set-editor.
THEOREM CalmExact == Spec => []CalmIsExact
<1>1. Good => CalmIsExact
  BY EditorRight DEF Good, CalmIsExact
<1> QED
  BY <1>1, GoodAlways, PTL

\* The page on the screen is the address's, and no page is handed the argument
\* of another: fb-app, proposal-pages and document-pages.
THEOREM ShellFollows == Spec => []PageFollowsAddress
<1> USE PagesAssumption DEF PagesAssumption
<1>1. Good => PageFollowsAddress
  BY ShellRight DEF Good, PageFollowsAddress
<1> QED
  BY <1>1, GoodAlways, PTL

\* A form asks for a sign-in until it is left.  The page behind scrolls unless
\* one dialog is shown, or the other way round since a dialog was shown again or
\* left open, until one is once more: sign-in-dialog, modal-dialog.  The video
\* is there for the document's name, of its file unless several names came in
\* one frame, and does not play in a hidden window: document-media.
THEOREM WidgetsStayInStep == Spec => []WidgetsInStep
<1> USE PagesAssumption DEF PagesAssumption
<1>1. Good => WidgetsInStep
  BY DialogsRight, VideosRight DEF Good, WidgetsInStep
<1> QED
  BY <1>1, GoodAlways, PTL

\* The list of a document implements LatestAnswer, step by step: it shows
\* nothing, the answer to the latest question, or that it failed, and changes
\* its answer only when it is asked anew: document-list-loader.
THEOREM ListImplementsLoader == Spec => ImplementsLatestAnswer
<1> USE PagesAssumption DEF PagesAssumption
<1>1. Init => Loader!Init
  <2> SUFFICES ASSUME Init
               PROVE  Loader!Init
    OBVIOUS
  <2>1. CASE screen = <<"documents">>
    BY <2>1, Begins, LoaderInit
  <2>2. CASE screen # <<"documents">>
    <3>1. SomeAddress \in Documents!Address
      BY DEF SomeAddress
    <3> QED
      BY <2>2, <3>1 DEF Loader!Init
  <2> QED
    BY <2>1, <2>2
<1>2. Good /\ [Next]_vars => [Loader!Next]_(Loader!vars)
  <2> SUFFICES ASSUME Good, [Next]_vars
               PROVE  [Loader!Next]_(Loader!vars)
    OBVIOUS
  <2>1. UNCHANGED screen
    BY Moves
  <2>2. CASE screen = <<"documents">>
    BY <2>1, <2>2, Moves, LoaderNext DEF Good
  <2>3. CASE screen # <<"documents">>
    BY <2>1, <2>3 DEF Loader!vars
  <2> QED
    BY <2>2, <2>3
<1> QED
  BY <1>1, <1>2, GoodAlways, PTL
     DEF Spec, ImplementsLatestAnswer, Loader!Safety
=============================================================================
