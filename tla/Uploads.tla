-------------------------------- MODULE Uploads --------------------------------
(***************************************************************************)
(* Uploads of videos: from the body of a request to the media in the       *)
(* uploads folder.                                                         *)
(*                                                                         *)
(* The names of the media and of the temporary directory are the time in   *)
(* seconds, so that uploads may share either.  A handler waits between all *)
(* steps, and is gone for good when its client goes.  ffmpeg reads the     *)
(* saved file and refuses to write media that exist.                       *)
(***************************************************************************)
EXTENDS Naturals

CONSTANTS Upload,   \* uploads, each with a video of its own
          None,     \* no upload
          MaxTime   \* bound: seconds

\* What the constants are.
UploadsAssumption == None \notin Upload /\ MaxTime \in Nat

VARIABLES now,        \* the second
          pc,         \* upload -> where its handler is
          target,     \* upload -> name of its media
          tmp,        \* upload -> name of its temporary directory
          dirs,       \* second -> the temporary directory of that name
          published,  \* second -> whose video the media of that name show
          preview,    \* upload -> whose image the answer has
          unremoved   \* history: uploads whose directory was not removed

vars == <<now, pc, target, tmp, dirs, published, preview, unremoved>>

Second == 0 .. MaxTime

Holder == Upload \union {None}

NoDir == [there |-> FALSE, file |-> None, image |-> None]
EmptyDir == [there |-> TRUE, file |-> None, image |-> None]

At == {"idle", "named", "unmade", "dir", "body", "saved", "probed", "made",
       "imaged", "answered", "refused", "broken", "gone"}

\* A handler that has had a directory, and the handlers that had this one.
HasDir(u) == pc[u] \notin {"idle", "named", "unmade"}

In(s) == {u \in Upload : HasDir(u) /\ tmp[u] = s}

TypeOK ==
    /\ now \in Second
    /\ pc \in [Upload -> At]
    /\ target \in [Upload -> Second] /\ tmp \in [Upload -> Second]
    /\ dirs \in [Second -> [there : BOOLEAN, file : Holder, image : Holder]]
    /\ published \in [Second -> Holder]
    /\ preview \in [Upload -> Holder]
    /\ unremoved \subseteq Upload

-----------------------------------------------------------------------------
Init ==
    /\ now = 0
    /\ pc = [u \in Upload |-> "idle"]
    /\ target = [u \in Upload |-> 0] /\ tmp = [u \in Upload |-> 0]
    /\ dirs = [s \in Second |-> NoDir]
    /\ published = [s \in Second |-> None]
    /\ preview = [u \in Upload |-> None]
    /\ unremoved = {}

Tick ==
    /\ now < MaxTime
    /\ now' = now + 1
    /\ UNCHANGED <<pc, target, tmp, dirs, published, preview, unremoved>>

Goes(u, from, to) == pc[u] = from /\ pc' = [pc EXCEPT ![u] = to]

HandleVideoUpload(u) ==
    /\ Goes(u, "idle", "named")
    /\ target' = [target EXCEPT ![u] = now]
    /\ UNCHANGED <<now, tmp, dirs, published, preview, unremoved>>

\* The clock is read again for the directory, which may be there.
CreateDirAll(u) ==
    /\ Goes(u, "named", "dir")
    /\ tmp' = [tmp EXCEPT ![u] = now]
    /\ dirs' = [dirs EXCEPT ![now] = IF @.there THEN @ ELSE EmptyDir]
    /\ UNCHANGED <<now, target, published, preview, unremoved>>

\* The directory cannot be made.
CreateDirFails(u) ==
    /\ Goes(u, "named", "unmade")
    /\ UNCHANGED <<now, target, tmp, dirs, published, preview, unremoved>>

CollectBody(u) ==
    /\ Goes(u, "dir", "body")
    /\ UNCHANGED <<now, target, tmp, dirs, published, preview, unremoved>>

\* The only error after which the directory is left alone.
BodyBreaksOff(u) ==
    /\ Goes(u, "dir", "broken")
    /\ UNCHANGED <<now, target, tmp, dirs, published, preview, unremoved>>

\* The client goes, and with it the handler.
ClientGoes(u) ==
    /\ pc[u] \in {"dir", "body", "saved", "probed", "made", "imaged"}
    /\ pc' = [pc EXCEPT ![u] = "gone"]
    /\ UNCHANGED <<now, target, tmp, dirs, published, preview, unremoved>>

\* The directory goes with all that is in it, or the removal fails on the way,
\* which is logged and no more.
RemoveTempDir(u) ==
    \/ /\ dirs' = [dirs EXCEPT ![tmp[u]] = NoDir]
       /\ UNCHANGED unremoved
    \/ \E file \in {None, dirs[tmp[u]].file},
          image \in {None, dirs[tmp[u]].image} :
          /\ dirs[tmp[u]].there
          /\ dirs' = [dirs EXCEPT ![tmp[u]] =
                         [there |-> TRUE, file |-> file, image |-> image]]
          /\ unremoved' = unremoved \union {u}

\* Saving, probing or making media fails: for want of space, because the file
\* is no video, because it is gone or the media are there.
Refuse(u) ==
    /\ pc[u] \in {"body", "saved", "probed", "made", "imaged"}
    /\ pc' = [pc EXCEPT ![u] = "refused"]
    /\ RemoveTempDir(u)
    /\ UNCHANGED <<now, target, tmp, published, preview>>

SaveContent(u) ==
    /\ dirs[tmp[u]].there
    /\ Goes(u, "body", "saved")
    /\ dirs' = [dirs EXCEPT ![tmp[u]].file = u]
    /\ UNCHANGED <<now, target, tmp, published, preview, unremoved>>

GetVideoDuration(u) ==
    /\ dirs[tmp[u]].file # None
    /\ Goes(u, "saved", "probed")
    /\ UNCHANGED <<now, target, tmp, dirs, published, preview, unremoved>>

GenerateMediaInTmpName(u) ==
    /\ dirs[tmp[u]].file # None
    /\ published[tmp[u]] = None
    /\ Goes(u, "probed", "made")
    /\ published' = [published EXCEPT ![tmp[u]] = dirs[tmp[u]].file]
    /\ UNCHANGED <<now, target, tmp, dirs, preview, unremoved>>

\* ffmpeg reads the file as it is then and makes the media, or ...
GenerateMedia(u) ==
    /\ dirs[tmp[u]].file # None
    /\ published[target[u]] = None
    /\ Goes(u, "probed", "made")
    /\ published' = [published EXCEPT ![target[u]] = dirs[tmp[u]].file]
    /\ UNCHANGED <<now, target, tmp, dirs, preview, unremoved>>

\* ... the image, if there is a directory for it.
GenerateImage(u) ==
    /\ dirs[tmp[u]].there
    /\ Goes(u, "made", "imaged")
    /\ dirs' = [dirs EXCEPT ![tmp[u]].image = published[target[u]]]
    /\ UNCHANGED <<now, target, tmp, published, preview, unremoved>>

AnswerUnremoved(u) ==
    /\ dirs[tmp[u]].image # None
    /\ Goes(u, "imaged", "answered")
    /\ preview' = [preview EXCEPT ![u] = dirs[tmp[u]].image]
    /\ UNCHANGED <<now, target, tmp, dirs, published, unremoved>>

\* The image goes into the answer, after the directory is removed.
Answer(u) ==
    /\ dirs[tmp[u]].image # None
    /\ Goes(u, "imaged", "answered")
    /\ preview' = [preview EXCEPT ![u] = dirs[tmp[u]].image]
    /\ RemoveTempDir(u)
    /\ UNCHANGED <<now, target, tmp, published>>

Next ==
    \/ Tick
    \/ \E u \in Upload :
          \/ HandleVideoUpload(u) \/ CreateDirAll(u) \/ CreateDirFails(u)
          \/ CollectBody(u) \/ BodyBreaksOff(u) \/ ClientGoes(u) \/ Refuse(u)
          \/ SaveContent(u) \/ GetVideoDuration(u) \/ GenerateMedia(u)
          \/ GenerateImage(u) \/ Answer(u)

Spec == Init /\ [][Next]_vars

-----------------------------------------------------------------------------
\* What is in a directory, and in the media and the answers made from it, is of
\* uploads that have had the directory.
FromDirectory ==
    /\ \A s \in Second : /\ dirs[s].file \in In(s) \union {None}
                         /\ dirs[s].image \in In(s) \union {None}
    /\ \A u \in Upload :
          /\ pc[u] \in {"made", "imaged", "answered"} =>
                published[target[u]] \in In(tmp[u])
          /\ pc[u] = "answered" => preview[u] \in In(tmp[u])

\* Whoever has a directory to himself finds in it what he left there.
AloneFinds ==
    \A u \in Upload : In(tmp[u]) = {u} =>
        LET dir == dirs[tmp[u]]
        IN  /\ pc[u] \in {"dir", "body"} => dir.there
            /\ pc[u] \in {"saved", "probed", "made", "imaged"} =>
                  dir.there /\ dir.file = u
            /\ pc[u] = "imaged" => dir.image = u

\* No temporary directory is left but that of an upload under way, whose body
\* broke off, whose client went, or whose removal of it failed.
NoDirLeft ==
    \A s \in Second : dirs[s].there =>
        \E u \in In(s) : pc[u] \notin {"answered", "refused"} \/ u \in unremoved

IInv ==
    /\ TypeOK
    /\ \A s \in Second : ~dirs[s].there => dirs[s] = NoDir
    /\ FromDirectory
    /\ AloneFinds
    /\ NoDirLeft

\* An upload that is answered has media and an image of an upload that was given
\* the same temporary directory: its own if no other was, whatever uploads have
\* the names of their media in common, fail, go away or leave behind.
OwnMediaOrSharedDir ==
    \A u \in Upload : pc[u] = "answered" =>
        published[target[u]] \in In(tmp[u]) /\ preview[u] \in In(tmp[u])

\* What is made is the upload's own, and nothing else is left of it.
OwnMedia == OwnMediaOrSharedDir /\ NoDirLeft
=============================================================================
