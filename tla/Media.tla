--------------------------------- MODULE Media ---------------------------------
(***************************************************************************)
(* The video of a document, document-media, while the document changes.    *)
(*                                                                         *)
(* A video element keeps the sources it began with, so that the element    *)
(* is to be removed and stamped anew for a new file.  The browser calls    *)
(* for frames only while the window is visible, and runs all callbacks     *)
(* that wait in one frame; the template follows after each of them.        *)
(***************************************************************************)
EXTENDS Naturals, Sequences, FiniteSetsExt

CONSTANTS File,       \* names of uploaded videos
          None,       \* no name
          MaxChanges  \* bound: callbacks that wait for a frame

\* What the constants are.
MediaAssumption == None \notin File /\ MaxChanges \in Nat

VARIABLES fileName,   \* the name that the document gives
          sources,    \* _fileName: the name in the template
          frames,     \* the names that wait for a frame
          video,      \* the element: what it plays, and whether it does
          detached,   \* videos removed that still load
          loaded,     \* _loaded: the poster is not blurred
          visible,    \* the window is
          hurried     \* history: in the last frame there were several names

vars == <<fileName, sources, frames, video, detached, loaded, visible,
          hurried>>

Name == File \union {None}
NoVideo == [of |-> None, playing |-> FALSE, loading |-> FALSE]
Video == [of : File, playing : BOOLEAN, loading : BOOLEAN]

TypeOK ==
    /\ fileName \in Name /\ sources \in Name
    /\ frames \in Seq(Name) /\ Len(frames) <= MaxChanges
    /\ video \in Video \union {NoVideo}
    /\ detached \subseteq File
    /\ loaded \in BOOLEAN /\ visible \in BOOLEAN /\ hurried \in BOOLEAN

Stamp(name) == [of |-> name, playing |-> TRUE, loading |-> TRUE]

Removed == IF video.loading THEN detached \union {video.of} ELSE detached

Init ==
    /\ fileName = None /\ sources = None
    /\ frames = <<>>
    /\ video = NoVideo
    /\ detached = {}
    /\ loaded = FALSE
    /\ visible \in BOOLEAN
    /\ hurried = FALSE

-----------------------------------------------------------------------------
OnFileNameChangedAtOnce(name) ==
    /\ name # fileName
    /\ fileName' = name
    /\ sources' = name
    /\ loaded' = FALSE
    /\ detached' = Removed
    /\ video' = IF name = None THEN NoVideo ELSE Stamp(name)
    /\ UNCHANGED <<frames, visible, hurried>>

OnFileNameChangedOnce(name) ==
    /\ name # fileName
    /\ Len(frames) < MaxChanges
    /\ fileName' = name
    /\ sources' = None
    /\ loaded' = FALSE
    /\ detached' = Removed
    /\ video' = NoVideo
    /\ frames' = IF frames = <<>> THEN <<name>> ELSE frames
    /\ UNCHANGED <<visible, hurried>>

\* The element goes at once; the new name waits for a frame.
OnFileNameChanged(name) ==
    /\ name # fileName
    /\ Len(frames) < MaxChanges
    /\ fileName' = name
    /\ sources' = None
    /\ loaded' = FALSE
    /\ detached' = Removed
    /\ video' = NoVideo
    /\ frames' = Append(frames, name)
    /\ UNCHANGED <<visible, hurried>>

\* The video that is stamped while callbacks set these names one after the
\* other: for a name after none.  Another name only changes the sources.
StampedFor(names) ==
    LET nones == {i \in DOMAIN names : names[i] = None}
        first == IF nones = {} THEN 1 ELSE Max(nones) + 1
    IN  IF first > Len(names) THEN NoVideo ELSE Stamp(names[first])

Frame ==
    /\ visible
    /\ frames # <<>>
    /\ sources' = frames[Len(frames)]
    /\ video' = StampedFor(frames)
    /\ frames' = <<>>
    /\ hurried' = (Len(frames) > 1)
    /\ UNCHANGED <<fileName, detached, loaded, visible>>

\* A video has loaded: this one, or one that is not there any more.
OnLoadedData ==
    /\ \/ /\ video.loading
          /\ video' = [video EXCEPT !.loading = FALSE]
          /\ UNCHANGED detached
       \/ \E file \in detached :
             /\ detached' = detached \ {file}
             /\ UNCHANGED video
    /\ loaded' = TRUE
    /\ UNCHANGED <<fileName, sources, frames, visible, hurried>>

\* The video pauses when the window is hidden.
OnVisibilityChanged ==
    /\ visible' = ~visible
    /\ video' = IF video = NoVideo THEN video
                ELSE [video EXCEPT !.playing = ~visible]
    /\ UNCHANGED <<fileName, sources, frames, detached, loaded, hurried>>

Next ==
    \/ \E name \in Name : OnFileNameChanged(name)
    \/ Frame
    \/ OnLoadedData
    \/ OnVisibilityChanged

Spec == Init /\ [][Next]_vars

-----------------------------------------------------------------------------
\* While a frame is waited for there is no video, otherwise one if the template
\* has a name, which is then that of the document.
IInv ==
    /\ TypeOK
    /\ frames # <<>> => /\ sources = None
                        /\ video = NoVideo
                        /\ frames[Len(frames)] = fileName
    /\ frames = <<>> => sources = fileName
    /\ video = NoVideo \/ sources # None
    /\ sources # None => video # NoVideo
    /\ video # NoVideo => video.playing = visible
    /\ frames = <<>> /\ ~hurried => video.of = fileName

\* When no frame is waited for, the template has the document's name, and a
\* video exactly if there is one, however fast the document changes; and the
\* video is that document's, unless it changed more than once in the last frame.
NamedWhenCalm ==
    frames = <<>> =>
        /\ sources = fileName
        /\ video # NoVideo <=> fileName # None
        /\ ~hurried => video.of = fileName

\* No video plays in a window that is hidden, although a video plays as soon as
\* it is stamped, and documents come in while the window is hidden.
PausedWhileHidden == ~visible => ~video.playing
=============================================================================
