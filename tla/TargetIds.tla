------------------------------- MODULE TargetIds -------------------------------
(***************************************************************************)
(* The check of the target that a new proposal names: a document's id,     *)
(* which continues its parent's.                                           *)
(*                                                                         *)
(* A string is its characters.  The handler cuts it at a number of bytes,  *)
(* and the thread panics where that is past the end or within a character. *)
(***************************************************************************)
EXTENDS Naturals, Sequences, FiniteSets

CONSTANTS MaxChars,  \* bound: characters of a target
          Existing   \* the documents that may be parents, their ids in chars

\* Characters: a letter of one byte, one of two, the dot of ids, and one that
\* names may not have.
Char == {"a", "e2", ".", "!"}
WordChar == {"a", "e2"}

\* What the constants are.
TargetIdsAssumption ==
    MaxChars \in Nat /\ Existing \subseteq Seq(Char) \ {<<>>}

VARIABLES parent,  \* the parent's id, or none
          target,  \* the target asked for
          answer

vars == <<parent, target, answer>>

NoParent == <<>>
Targets == UNION {[1 .. n -> Char] : n \in 0 .. MaxChars}
Parents == Targets \union {NoParent}

\* The bytes of the first n characters of a string.
Bytes(s, n) == n + Cardinality({i \in 1 .. n : s[i] = "e2"})

Init ==
    /\ parent \in Existing \union Parents
    /\ target \in Targets
    /\ answer = "none"

-----------------------------------------------------------------------------
ParentLenWithoutDot == Bytes(parent, Len(parent))

\* The bytes to leave out: the parent's and one for the dot.
ParentLen == IF parent = NoParent THEN 0 ELSE Bytes(parent, Len(parent)) + 1

StartsWith(s, start) ==
    Len(start) <= Len(s) /\ \A i \in 1 .. Len(start) : s[i] = start[i]

\* The slice [from..] leaves out the first n characters.
CutsAt(s, from, n) == Bytes(s, n) = from

\* The characters after the n-th: ^[\w\-]+$
IsMatch(s, n) == n < Len(s) /\ \A i \in n + 1 .. Len(s) : s[i] \in WordChar

Verdict ==
    IF parent # NoParent /\ parent \notin Existing THEN "bad parent"
    ELSE IF ~StartsWith(target, parent) THEN "bad target"
    ELSE IF \A n \in 0 .. Len(target) : ~CutsAt(target, ParentLen, n)
         THEN "panic"
    ELSE IF \E n \in 0 .. Len(target) :
               CutsAt(target, ParentLen, n) /\ IsMatch(target, n)
         THEN "valid"
    ELSE "bad target"

PrepareProposal ==
    /\ answer = "none"
    /\ answer' = Verdict
    /\ UNCHANGED <<parent, target>>

Next == PrepareProposal

Spec == Init /\ [][Next]_vars

-----------------------------------------------------------------------------
\* A target that is taken is its parent's id, one more character and a name of
\* word characters that is not empty.
ValidContinues ==
    answer = "valid" =>
        LET n == IF parent = NoParent THEN 0 ELSE Len(parent) + 1
        IN  /\ StartsWith(target, parent)
            /\ Len(target) > n
            /\ \A i \in n + 1 .. Len(target) : target[i] \in WordChar
            /\ parent # NoParent => parent \in Existing

\* A target whose chain has the right form is never refused, and the handler
\* panics only when the target is its parent or continues it with a character
\* of several bytes.
RightChainIsTaken ==
    /\ (/\ parent \in Existing
        /\ \E name \in Targets :
              /\ name # <<>> /\ \A i \in DOMAIN name : name[i] \in WordChar
              /\ target = parent \o <<".">> \o name) =>
          answer \in {"none", "valid"}
    /\ answer = "panic" =>
          \/ target = parent
          \/ target[Len(parent) + 1] = "e2"
=============================================================================
