------------------------------- MODULE Highlight -------------------------------
(***************************************************************************)
(* How document-list-item shows what a search has found: each name that    *)
(* was matched is cut at its matches into parts, which are put together    *)
(* again with the matches marked.                                          *)
(*                                                                         *)
(* A name is the number of its characters, a part the positions it is cut  *)
(* from.  The loop is modelled match by match.                             *)
(***************************************************************************)
EXTENDS Naturals, Sequences

CONSTANTS Name,       \* the names of a document, numbered from 1
          MaxLength,  \* bound: characters of a name
          MaxMatches  \* bound: matches in a name

\* What the constants are.
HighlightAssumption ==
    /\ Name \in Nat
    /\ MaxLength \in Nat /\ MaxMatches \in Nat

Match == {m \in [start : 0 .. MaxLength, end : 0 .. MaxLength] :
             m.start < m.end}

VARIABLES length,      \* name -> its length
          found,       \* name -> its matches, in the order they came
          infos,       \* the matches of the name at hand, by position
          current,     \* the name at hand
          next,        \* the match at hand
          currentPos,  \* the name is cut up to here
          parts,       \* what it is cut into
          result       \* the names that are done

vars == <<length, found, infos, current, next, currentPos, parts, result>>

Part == [from : Nat, to : Nat, mark : BOOLEAN]

TypeOK ==
    /\ length \in [1 .. Name -> Nat]
    /\ found \in [1 .. Name -> Seq(Match)]
    /\ infos \in Seq(Match)
    /\ current \in 1 .. Name + 1
    /\ next \in 1 .. Len(infos) + 1
    /\ currentPos \in Nat
    /\ parts \in Seq(Part)
    /\ result \in Seq([name : 1 .. Name, parts : Seq(Part)])

-----------------------------------------------------------------------------
\* A list in the order of the matches' starts; those that start together stay
\* as they were.
Sorted(matches) ==
    LET n == Len(matches)
        Before(i, j) == \/ matches[i].start < matches[j].start
                        \/ matches[i].start = matches[j].start /\ i < j
        order == CHOOSE p \in [1 .. n -> 1 .. n] :
                    \A i, j \in 1 .. n : i < j => Before(p[i], p[j])
    IN  [i \in 1 .. n |-> matches[order[i]]]

\* What the search may say of a name.
Matches(n) ==
    UNION {[1 .. k -> {m \in Match : m.end <= n}] : k \in 0 .. MaxMatches}

Init ==
    /\ length \in [1 .. Name -> 1 .. MaxLength]
    /\ found \in [1 .. Name -> Matches(MaxLength)]
    /\ \A n \in 1 .. Name : found[n] \in Matches(length[n])
    /\ infos = <<>>
    /\ current = 1
    /\ next = 1
    /\ currentPos = 0
    /\ parts = <<>>
    /\ result = <<>>

Unmatched == current <= Name /\ found[current] = <<>>

\* A name that is not matched is not shown.
SkipName ==
    /\ Unmatched
    /\ current' = current + 1
    /\ UNCHANGED <<length, found, infos, next, currentPos, parts, result>>

\* The part between two positions, if there is any.
Cut(from, to, mark) ==
    IF from < to THEN <<[from |-> from, to |-> to, mark |-> mark]>> ELSE <<>>

BeginName ==
    /\ current <= Name /\ found[current] # <<>> /\ infos = <<>>
    /\ infos' = Sorted(found[current])
    /\ next' = 1 /\ currentPos' = 0 /\ parts' = <<>>
    /\ UNCHANGED <<length, found, current, result>>

MarkMatchOnly ==
    /\ next <= Len(infos)
    /\ LET info == infos[next]
       IN  /\ parts' = parts \o Cut(info.start, info.end, TRUE)
           /\ currentPos' = info.end
    /\ next' = next + 1
    /\ UNCHANGED <<length, found, infos, current, result>>

MarkMatchShort ==
    /\ next <= Len(infos)
    /\ LET info == infos[next]
       IN  /\ parts' = parts \o Cut(currentPos, info.start, FALSE)
                             \o Cut(info.start, info.end - 1, TRUE)
           /\ currentPos' = info.end
    /\ next' = next + 1
    /\ UNCHANGED <<length, found, infos, current, result>>

\* The text before the match, and the match.
MarkMatch ==
    /\ next <= Len(infos)
    /\ LET info == infos[next]
       IN  /\ parts' = parts \o Cut(currentPos, info.start, FALSE)
                             \o Cut(info.start, info.end, TRUE)
           /\ currentPos' = info.end
    /\ next' = next + 1
    /\ UNCHANGED <<length, found, infos, current, result>>

\* The text after the last match.
EndName ==
    /\ infos # <<>> /\ next > Len(infos)
    /\ result' = Append(result, [name |-> current,
                    parts |-> parts \o Cut(currentPos, length[current], FALSE)])
    /\ infos' = <<>>
    /\ next' = 1
    /\ parts' = <<>>
    /\ currentPos' = 0
    /\ current' = current + 1
    /\ UNCHANGED <<length, found>>

Next == SkipName \/ BeginName \/ MarkMatch \/ EndName

Spec == Init /\ [][Next]_vars

-----------------------------------------------------------------------------
\* "Assuming we have no overlap across matches..."
NoOverlap(matches) ==
    \A i, j \in DOMAIN matches :
        i # j => \/ matches[i].end <= matches[j].start
                 \/ matches[j].end <= matches[i].start

\* The parts cut a name from 0 to a position, in order, nothing twice.
Tile(ps, to) ==
    /\ ps = <<>> => to = 0
    /\ ps # <<>> => ps[1].from = 0 /\ ps[Len(ps)].to = to
    /\ \A i \in 1 .. Len(ps) : ps[i].from < ps[i].to
    /\ \A i \in 1 .. Len(ps) - 1 : ps[i].to = ps[i + 1].from

\* Matches in order, each behind the one before.
InOrder(matches) ==
    \A i, j \in DOMAIN matches : i < j => matches[i].end <= matches[j].start

\* Up to where it is cut the name at hand is whole.
IInv ==
    /\ TypeOK
    /\ \A n \in 1 .. Name : \A i \in DOMAIN found[n] :
          found[n][i].end <= length[n]
    /\ infos # <<>> =>
          /\ current <= Name
          /\ \A i \in DOMAIN infos : infos[i].end <= length[current]
          /\ NoOverlap(found[current]) =>
                /\ InOrder(infos)
                /\ Tile(parts, currentPos)
                /\ next = 1 => currentPos = 0
                /\ next > 1 => currentPos = infos[next - 1].end
    /\ infos = <<>> => currentPos = 0 /\ parts = <<>> /\ next = 1

\* As long as no matches of a name overlap all of its text is shown, and
\* nothing of it twice.
TextIsWhole ==
    \A i \in DOMAIN result :
        NoOverlap(found[result[i].name]) =>
            Tile(result[i].parts, length[result[i].name])

\* What is marked is what was matched, even if matches overlap.
MarkedIsMatched ==
    \A i \in DOMAIN result : \A c \in 0 .. MaxLength :
        (\E k \in DOMAIN result[i].parts :
            LET p == result[i].parts[k] IN p.mark /\ c \in p.from .. p.to - 1)
        <=> \E k \in DOMAIN found[result[i].name] :
               LET m == found[result[i].name][k] IN c \in m.start .. m.end - 1
=============================================================================
