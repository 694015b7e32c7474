------------------------------- MODULE Handlers --------------------------------
(***************************************************************************)
(* The handlers of the server that are not part of reviewing, and the one  *)
(* algorithm of the client that is a loop.                                 *)
(*                                                                         *)
(* They share no state: sessions are in cookies, media in the uploads      *)
(* folder, the others keep nothing.  One of them runs, the one chosen at   *)
(* the start; the variables of the others are 0.  The constants of a       *)
(* module are the fields of a record, named as there.                      *)
(***************************************************************************)
EXTENDS Naturals, Sequences

CONSTANTS None,
          sessions,   \* the data of Session
          uploads,    \* ... of Uploads
          proposals,  \* ... of PreviousVersion
          ids,        \* ... of TargetIds
          files,      \* ... of FileRange
          names       \* ... of Highlight

VARIABLES runs,  \* the handler that runs
          now, cookie, requests, answers, asked, raced, lapsed,  \* Browser
          entered,
          second, at, named, tmp, dirs, published, preview,      \* Videos
          unremoved,
          ticks, status, closed, indexed, closings, request,     \* Previous
          parent, target, verdict,                               \* Targets
          file, notFound, range, pc, answer,                     \* Files
          length, found, infos, current, next, currentPos,       \* Names
          parts, result

browserVars ==
    <<now, cookie, requests, answers, asked, raced, lapsed, entered>>
videosVars ==
    <<second, at, named, tmp, dirs, published, preview, unremoved>>
previousVars == <<ticks, status, closed, indexed, closings, request>>
targetsVars == <<parent, target, verdict>>
filesVars == <<file, notFound, range, pc, answer>>
namesVars ==
    <<length, found, infos, current, next, currentPos, parts, result>>

vars == <<runs, browserVars, videosVars, previousVars, targetsVars, filesVars,
          namesVars>>

-----------------------------------------------------------------------------
Browser == INSTANCE Session WITH
    User <- sessions.User, NoUser <- None,
    TokenExp <- sessions.TokenExp, TokenMaxLife <- sessions.TokenMaxLife,
    MaxTime <- sessions.MaxTime, MaxRequests <- sessions.MaxRequests

Videos == INSTANCE Uploads WITH
    now <- second, pc <- at, target <- named,
    Upload <- uploads.Upload, MaxTime <- uploads.MaxTime

Previous == INSTANCE PreviousVersion WITH
    Proposal <- proposals.Proposal, PerSecond <- proposals.PerSecond,
    MaxTicks <- proposals.MaxTicks

Targets == INSTANCE TargetIds WITH
    answer <- verdict,
    MaxChars <- ids.MaxChars, Existing <- ids.Existing

Files == INSTANCE FileRange WITH
    MaxLength <- files.MaxLength, Block <- files.Block

Names == INSTANCE Highlight WITH
    Name <- names.Name, MaxLength <- names.MaxLength,
    MaxMatches <- names.MaxMatches

ASSUME HandlersAssumption ==
    /\ Browser!SessionAssumption
    /\ Videos!UploadsAssumption
    /\ Previous!PreviousVersionAssumption
    /\ Targets!TargetIdsAssumption
    /\ Files!FileRangeAssumption
    /\ Names!HighlightAssumption

-----------------------------------------------------------------------------
\* The handlers that do not run.
NoBrowser ==
    /\ now = 0 /\ cookie = 0 /\ requests = 0 /\ answers = 0 /\ asked = 0
    /\ raced = 0 /\ lapsed = 0 /\ entered = 0
NoVideos ==
    /\ second = 0 /\ at = 0 /\ named = 0 /\ tmp = 0 /\ dirs = 0
    /\ published = 0 /\ preview = 0 /\ unremoved = 0
NoPrevious ==
    /\ ticks = 0 /\ status = 0 /\ closed = 0 /\ indexed = 0
    /\ closings = 0 /\ request = 0
NoTargets == parent = 0 /\ target = 0 /\ verdict = 0
NoFiles == file = 0 /\ notFound = 0 /\ range = 0 /\ pc = 0 /\ answer = 0
NoNames ==
    /\ length = 0 /\ found = 0 /\ infos = 0 /\ current = 0 /\ next = 0
    /\ currentPos = 0 /\ parts = 0 /\ result = 0

\* Of the handlers but one.
OthersAbsent(handler) ==
    /\ IF handler = "browser" THEN TRUE ELSE NoBrowser
    /\ IF handler = "videos" THEN TRUE ELSE NoVideos
    /\ IF handler = "previous" THEN TRUE ELSE NoPrevious
    /\ IF handler = "targets" THEN TRUE ELSE NoTargets
    /\ IF handler = "files" THEN TRUE ELSE NoFiles
    /\ IF handler = "names" THEN TRUE ELSE NoNames

OthersUnchanged(handler) ==
    /\ UNCHANGED runs
    /\ IF handler = "browser" THEN TRUE ELSE UNCHANGED browserVars
    /\ IF handler = "videos" THEN TRUE ELSE UNCHANGED videosVars
    /\ IF handler = "previous" THEN TRUE ELSE UNCHANGED previousVars
    /\ IF handler = "targets" THEN TRUE ELSE UNCHANGED targetsVars
    /\ IF handler = "files" THEN TRUE ELSE UNCHANGED filesVars
    /\ IF handler = "names" THEN TRUE ELSE UNCHANGED namesVars

Init ==
    \/ runs = "browser" /\ Browser!Init /\ OthersAbsent("browser")
    \/ runs = "videos" /\ Videos!Init /\ OthersAbsent("videos")
    \/ runs = "previous" /\ Previous!Init /\ OthersAbsent("previous")
    \/ runs = "targets" /\ Targets!Init /\ OthersAbsent("targets")
    \/ runs = "files" /\ Files!Init /\ OthersAbsent("files")
    \/ runs = "names" /\ Names!Init /\ OthersAbsent("names")

Next ==
    \/ runs = "browser" /\ Browser!Next /\ OthersUnchanged("browser")
    \/ runs = "videos" /\ Videos!Next /\ OthersUnchanged("videos")
    \/ runs = "previous" /\ Previous!Next /\ OthersUnchanged("previous")
    \/ runs = "targets" /\ Targets!Next /\ OthersUnchanged("targets")
    \/ runs = "files" /\ Files!Next /\ OthersUnchanged("files")
    \/ runs = "names" /\ Names!Next /\ OthersUnchanged("names")

Spec == Init /\ [][Next]_vars

-----------------------------------------------------------------------------
\* The inductive invariants of the handlers, or their types.
Consistent ==
    /\ runs = "browser" => Browser!IInv
    /\ runs = "videos" => Videos!IInv
    /\ runs = "files" => Files!TypeOK
    /\ runs = "names" => Names!IInv

\* What was asked for last, a log-in or a log-out, has the last word, and a
\* log-out takes the token away: auth_service, service_router.
LastWord == runs = "browser" => Browser!LastWord

\* An upload that was answered has media and an image from its own directory,
\* its own if it shared that with none, and leaves no directory unless removing
\* it failed: upload_service.
OwnMedia == runs = "videos" => Videos!OwnMedia

\* The previous version of a proposal was approved before it, and is the last of
\* the approvals that the index knows but for those less than a second later:
\* get_last_approved.  A target that is taken continues its parent, and one of
\* the right form is taken: process_proposal_request.  A file of one read is
\* sent whole, and a range begins with the bytes it asks for: file_service.  No
\* text of a name that was matched is lost or repeated, and what is marked is
\* what was matched: document-list-item.
RightAnswers ==
    /\ runs = "previous" =>
          Previous!PreviousIsEarlier /\ Previous!PreviousToTheSecond
    /\ runs = "targets" => Targets!ValidContinues /\ Targets!RightChainIsTaken
    /\ runs = "files" => Files!SmallFilesWhole /\ Files!RangeFromStart
    /\ runs = "names" => Names!TextIsWhole /\ Names!MarkedIsMatched
=============================================================================
