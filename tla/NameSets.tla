------------------------------- MODULE NameSets -------------------------------
(***************************************************************************)
(* Publishing a document and bringing name sets up to date: the second     *)
(* half of Proposal::publish_proposal and the queries of the NameSets      *)
(* adapter.                                                                *)
(*                                                                         *)
(* The name set of a document holds its own names and those of all its     *)
(* ancestors, copied from the name set of its parent.  After a document is *)
(* upserted, one to three queries rewrite its name set and those below it, *)
(* level by level: a game's, then its characters', then their moves'.  A   *)
(* query is no transaction.  It scans an index, which may lag behind the   *)
(* documents, to find the children; fetches each with the name set of its  *)
(* parent; and upserts the rows one by one, while other publications do    *)
(* the same.                                                               *)
(*                                                                         *)
(* What names a document has is told by the publication they come from.    *)
(***************************************************************************)
EXTENDS Naturals, Sequences, FiniteSets

CONSTANTS Publication,  \* the approvals that reach publish_proposal
          Doc,          \* the ids of documents
          DocOf,        \* the document each publication is of
          ParentOf,     \* the parent of each document
          Nothing,      \* no parent, no document, no name set
          MaxActive     \* bound: publications under way at a time

IsGame(d) == ParentOf[d] = Nothing
IsChar(d) == ~IsGame(d) /\ IsGame(ParentOf[d])
IsMove(d) == ~IsGame(d) /\ ~IsGame(ParentOf[d])

\* The names of a document, and those of its ancestors.
NameSet == [names : Publication, parents : Seq(Publication)]

ASSUME NameSetsAssumption ==
    /\ Nothing \notin Doc \union Publication \union NameSet
    /\ DocOf \in [Publication -> Doc]
    /\ ParentOf \in [Doc -> Doc \union {Nothing}]
    /\ \A d \in Doc : IsMove(d) => IsChar(ParentOf[d])
    /\ MaxActive \in Nat

VARIABLES docs,       \* the publication each document is from
          sets,       \* the name set of each document
          docIndex,   \* the documents the index knows
          setIndex,   \* the name sets the index knows
          pc,         \* where each publication is
          stage,      \* how many of its queries it has sent
          scan,       \* keys its running query found and has not fetched
          rows,       \* rows its running query made and has not upserted
          lone,       \* history: publications that nothing has disturbed
          last        \* history: the latest publication

vars == <<docs, sets, docIndex, setIndex, pc, stage, scan, rows, lone, last>>

Row == [key : Doc, set : NameSet]

TypeOK ==
    /\ docs \in [Doc -> Publication \union {Nothing}]
    /\ sets \in [Doc -> NameSet \union {Nothing}]
    /\ docIndex \subseteq Doc
    /\ setIndex \subseteq Doc
    /\ pc \in [Publication -> {"idle", "send", "query", "ok", "error"}]
    /\ stage \in [Publication -> 0 .. 3]
    /\ scan \in [Publication -> SUBSET Doc]
    /\ rows \in [Publication -> SUBSET Row]
    /\ lone \subseteq Publication
    /\ last \in Publication \union {Nothing}

Init ==
    /\ docs = [d \in Doc |-> Nothing]
    /\ sets = [d \in Doc |-> Nothing]
    /\ docIndex = {}
    /\ setIndex = {}
    /\ pc = [r \in Publication |-> "idle"]
    /\ stage = [r \in Publication |-> 0]
    /\ scan = [r \in Publication |-> {}]
    /\ rows = [r \in Publication |-> {}]
    /\ lone = {}
    /\ last = Nothing

-----------------------------------------------------------------------------
\* A publication is active until it is answered and its query, which may go on
\* after the answer, has nothing left to do.
Active(r) == \/ pc[r] \in {"send", "query"}
             \/ scan[r] # {}
             \/ rows[r] # {}

\* The document is upserted.  Its parent is there: process_proposal_request
\* saw it, and nothing removes documents.
Publish(r) ==
    LET d == DocOf[r]
        others == {q \in Publication \ {r} : Active(q)}
    IN  /\ pc[r] = "idle"
        /\ Cardinality(others) < MaxActive
        /\ ~IsGame(d) => docs[ParentOf[d]] # Nothing
        /\ docs' = [docs EXCEPT ![d] = r]
        /\ pc' = [pc EXCEPT ![r] = "send"]
        /\ lone' = IF others = {} THEN lone \union {r} ELSE lone \ others
        /\ last' = r
        /\ UNCHANGED <<sets, docIndex, setIndex, stage, scan, rows>>

\* The queries: update_game, update_game_chars and update_game_moves for a
\* game, update_char and update_char_moves for a character, update_move for a
\* move.
Queries(d) == CASE IsGame(d) -> 3
                [] IsChar(d) -> 2
                [] IsMove(d) -> 1

\* What the n-th of them is to rewrite, and what the indexes show of it.
Below(d, n) ==
    CASE n = 1 -> {d}
      [] n = 2 -> {c \in Doc : ParentOf[c] = d}
      [] n = 3 -> {m \in Doc : IsMove(m) /\ ParentOf[ParentOf[m]] = d}

Published(d) == docs[d] # Nothing

Indexed(d, n) ==
    CASE n = 1 -> {d}
      [] n = 2 -> docIndex
      [] n = 3 -> {m \in docIndex : ParentOf[m] \in setIndex}

\* The next query starts: it scans the index for its keys.
StartQueryNotBelow(r) ==
    LET d == DocOf[r]
        n == stage[r] + 1
    IN  /\ pc[r] = "send"
        /\ pc' = [pc EXCEPT ![r] = "query"]
        /\ stage' = [stage EXCEPT ![r] = Queries(d)]
        /\ scan' = [scan EXCEPT ![r] = Below(d, n) \intersect Indexed(d, n)]
        /\ UNCHANGED <<docs, sets, docIndex, setIndex, rows, lone, last>>

StartQuery(r) ==
    LET d == DocOf[r]
        n == stage[r] + 1
        due == {k \in Below(d, n) : Published(k)}
        keys == Below(d, n) \intersect Indexed(d, n)
    IN  /\ pc[r] = "send"
        /\ pc' = [pc EXCEPT ![r] = "query"]
        /\ stage' = [stage EXCEPT ![r] = n]
        /\ scan' = [scan EXCEPT ![r] = keys]
        /\ lone' = IF due \subseteq keys THEN lone ELSE lone \ {r}
        /\ UNCHANGED <<docs, sets, docIndex, setIndex, rows, last>>

\* The name set that the document and its parent's name set give; none if the
\* parent has none (an inner join).
MadeFromParentOnly(d) ==
    IF IsGame(d) THEN {[names |-> docs[d], parents |-> <<>>]}
    ELSE LET up == sets[ParentOf[d]]
         IN  IF up = Nothing THEN {}
             ELSE {[names |-> docs[d], parents |-> <<up.names>>]}

MadeWithoutParent(d) ==
    IF IsGame(d) \/ sets[ParentOf[d]] = Nothing
    THEN {[names |-> docs[d], parents |-> <<>>]}
    ELSE LET up == sets[ParentOf[d]]
         IN  {[names |-> docs[d], parents |-> Append(up.parents, up.names)]}

Made(d) ==
    IF IsGame(d) THEN {[names |-> docs[d], parents |-> <<>>]}
    ELSE LET up == sets[ParentOf[d]]
         IN  IF up = Nothing THEN {}
             ELSE {[names |-> docs[d],
                    parents |-> Append(up.parents, up.names)]}

\* The query fetches a document it found, with its parent's name set.
SelectRow(r) ==
    \E k \in scan[r] :
        /\ scan' = [scan EXCEPT ![r] = @ \ {k}]
        /\ rows' = [rows EXCEPT ![r] =
                       @ \union {[key |-> k, set |-> s] : s \in Made(k)}]
        /\ UNCHANGED <<docs, sets, docIndex, setIndex, pc, stage, lone, last>>

\* It upserts a row.
UpsertRow(r) ==
    \E row \in rows[r] :
        /\ sets' = [sets EXCEPT ![row.key] = row.set]
        /\ rows' = [rows EXCEPT ![r] = @ \ {row}]
        /\ UNCHANGED <<docs, docIndex, setIndex, pc, stage, scan, lone, last>>

\* The reply to a query: the next one, or the end of publish_proposal.
QueryDone(r) ==
    /\ pc[r] = "query"
    /\ scan[r] = {}
    /\ rows[r] = {}
    /\ pc' = [pc EXCEPT ![r] = IF stage[r] < Queries(DocOf[r]) THEN "send"
                                                              ELSE "ok"]
    /\ UNCHANGED <<docs, sets, docIndex, setIndex, stage, scan, rows, lone,
                   last>>

\* A query fails or times out, or the handler is gone.  Rows upserted stay,
\* and the query may still be running.
Fail(r) ==
    /\ pc[r] \in {"send", "query"}
    /\ pc' = [pc EXCEPT ![r] = "error"]
    /\ stage' = [stage EXCEPT ![r] = 0]
    /\ UNCHANGED <<docs, sets, docIndex, setIndex, scan, rows, lone, last>>

\* The server gives up a query whose caller is gone.
Abandon(r) ==
    /\ pc[r] = "error"
    /\ scan[r] # {} \/ rows[r] # {}
    /\ scan' = [scan EXCEPT ![r] = {}]
    /\ rows' = [rows EXCEPT ![r] = {}]
    /\ UNCHANGED <<docs, sets, docIndex, setIndex, pc, stage, lone, last>>

\* The index catches up with a document, or with a name set.  No query looks
\* for games, and the name sets looked for are those of characters.
IndexDoc(d) ==
    /\ Published(d)
    /\ ~IsGame(d)
    /\ d \notin docIndex
    /\ docIndex' = docIndex \union {d}
    /\ UNCHANGED <<docs, sets, setIndex, pc, stage, scan, rows, lone, last>>

IndexSet(d) ==
    /\ sets[d] # Nothing
    /\ IsChar(d)
    /\ d \notin setIndex
    /\ setIndex' = setIndex \union {d}
    /\ UNCHANGED <<docs, sets, docIndex, pc, stage, scan, rows, lone, last>>

Steps(r) == \/ Publish(r)
            \/ StartQuery(r)
            \/ SelectRow(r)
            \/ UpsertRow(r)
            \/ QueryDone(r)
            \/ Fail(r)
            \/ Abandon(r)

\* Nothing is left to do.
Done ==
    /\ \A r \in Publication : pc[r] \in {"ok", "error"} /\ ~Active(r)
    /\ UNCHANGED vars

Next == \/ \E r \in Publication : Steps(r)
        \/ \E d \in Doc : IndexDoc(d) \/ IndexSet(d)
        \/ Done

Spec == Init /\ [][Next]_vars
-----------------------------------------------------------------------------
(***************************************************************************)
(* Properties.                                                             *)
(***************************************************************************)
\* What the documents say the ancestors of d are called, root first.
Ancestry(d) == CASE IsGame(d) -> <<>>
                 [] IsChar(d) -> <<docs[ParentOf[d]]>>
                 [] IsMove(d) -> <<docs[ParentOf[ParentOf[d]]],
                                   docs[ParentOf[d]]>>

Current(d) == sets[d] = [names |-> docs[d], parents |-> Ancestry(d)]

\* Publications one after the other, each with its queries done and the
\* indexes up to date when they scan, leave every name set with the names its
\* document and its ancestors have now: the order of the queries of update_game
\* and update_char, parents before children, is right.
CurrentWhenCalm ==
    (\A r \in Publication : pc[r] # "idle" => r \in lone /\ pc[r] = "ok")
        => \A d \in Doc : Published(d) => Current(d)

\* Whatever failures, races and late writes came before: a publication that
\* then runs undisturbed to its end leaves the whole tree of its document in
\* step, each name set made of its document's names and its parent's name set.
\* To publish again is the one repair update_game and update_char know.
InStep(d) ==
    /\ sets[d] # Nothing
    /\ sets[d].names = docs[d]
    /\ IF IsGame(d)
       THEN sets[d].parents = <<>>
       ELSE LET up == sets[ParentOf[d]]
            IN  sets[d].parents = Append(up.parents, up.names)

Tree(d) == UNION {Below(d, n) : n \in 1 .. Queries(d)}

\* The queries can make a name set: their inner join finds a parent's.
Joined(d) == Published(d) /\ (~IsGame(d) => sets[ParentOf[d]] # Nothing)

LonePublicationRepairs ==
    last \in lone /\ pc[last] = "ok"
        => \A d \in Tree(DocOf[last]) : Joined(d) => InStep(d)

\* A name set is never made of half an ancestry: the joins of the queries give
\* it one publication of each ancestor, root first, and its parent has a name
\* set by then, whichever publications the rows come from.
Ancestors(d) == CASE IsGame(d) -> <<>>
                  [] IsChar(d) -> <<ParentOf[d]>>
                  [] IsMove(d) -> <<ParentOf[ParentOf[d]], ParentOf[d]>>

DocsOf(parents) == [i \in DOMAIN parents |-> DocOf[parents[i]]]

Whole(d, s) ==
    /\ DocOf[s.names] = d
    /\ DocsOf(s.parents) = Ancestors(d)
    /\ ~IsGame(d) => sets[ParentOf[d]] # Nothing

WholeAncestry == \A d \in Doc : sets[d] # Nothing => Whole(d, sets[d])

\* The inductive invariant, first of all publications: rows on their way are
\* whole too, the keys come from documents that are there, with their own names
\* and below published ones, and there are queries to send while one is to be
\* sent.
OwnNames == \A d \in Doc : Published(d) => DocOf[docs[d]] = d

KeysPublished ==
    /\ \A d \in docIndex : Published(d)
    /\ \A r \in Publication : pc[r] # "idle" => Published(DocOf[r])
    /\ \A r \in Publication : \A k \in scan[r] : Published(k)

ParentsThere ==
    \A d \in Doc : Published(d) /\ ~IsGame(d) => Published(ParentOf[d])

MoreToSend ==
    \A r \in Publication :
        /\ pc[r] = "idle" => stage[r] = 0
        /\ pc[r] = "send" => stage[r] < Queries(DocOf[r])
        /\ pc[r] = "query" => stage[r] \in 1 .. Queries(DocOf[r])
        /\ pc[r] = "ok" => stage[r] = Queries(DocOf[r])
        /\ pc[r] \in {"idle", "send", "ok"} => scan[r] = {} /\ rows[r] = {}

RowsWhole ==
    \A r \in Publication : \A row \in rows[r] : Whole(row.key, row.set)

\* Then of a lone one.  While it is the latest nothing else is active.
Undisturbed ==
    /\ \A r \in lone : pc[r] # "idle" /\ (Active(r) => r = last)
    /\ last \in lone => \A r \in Publication \ {last} : ~Active(r)

\* Its rows are those that would be made now, and what its queries so far were
\* to rewrite is in step but for what the running one still has to do.
Remaining(r) == scan[r] \union {row.key : row \in rows[r]}

RowsCurrent ==
    last \in lone /\ pc[last] = "query" =>
        LET level == Below(DocOf[last], stage[last])
        IN  /\ scan[last] \subseteq level
            /\ \A row \in rows[last] :
                   row.key \in level /\ row.set \in Made(row.key)

LevelsInStep ==
    last \in lone /\ pc[last] # "error" =>
        \A n \in 1 .. stage[last] : \A k \in Below(DocOf[last], n) :
            Joined(k) => \/ InStep(k)
                         \/ n = stage[last] /\ k \in Remaining(last)

\* Last of a calm history, where each publication was lone and only the latest
\* is not over: every name set is current but those its queries have yet to
\* rewrite.
Calm ==
    \A r \in Publication :
        pc[r] # "idle" => /\ r \in lone
                          /\ pc[r] # "error"
                          /\ pc[r] = "ok" \/ r = last

Unfinished(d) ==
    /\ last # Nothing
    /\ pc[last] \in {"send", "query"}
    /\ \E n \in stage[last] .. Queries(DocOf[last]) :
          /\ n = stage[last] => pc[last] = "query"
          /\ d \in Below(DocOf[last], n)

CurrentSoFar ==
    Calm => \A d \in Doc : Published(d) => Unfinished(d) \/ Current(d)

IInv ==
    /\ TypeOK
    /\ OwnNames
    /\ KeysPublished
    /\ ParentsThere
    /\ MoreToSend
    /\ RowsWhole
    /\ WholeAncestry
    /\ Undisturbed
    /\ RowsCurrent
    /\ LevelsInStep
    /\ CurrentSoFar

\* What data-design.md says: a name set is updated whenever a version of its
\* document or of a parent is published.  When all publications have been
\* answered with success, nothing runs and the indexes know everything, every
\* name set would have the current names.
NamesCurrent ==
    /\ \A r \in Publication : pc[r] \in {"idle", "ok"} /\ ~Active(r)
    /\ \A d \in Doc : /\ Published(d) /\ ~IsGame(d) => d \in docIndex
                      /\ sets[d] # Nothing /\ IsChar(d) => d \in setIndex
    => \A d \in Doc : Published(d) => Current(d)
=============================================================================
