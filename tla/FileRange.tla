------------------------------- MODULE FileRange -------------------------------
(***************************************************************************)
(* A GET of a static file or an upload, with or without a Range header.    *)
(*                                                                         *)
(* A file is its length: its bytes are numbered from 1, and 0 is a byte of *)
(* an untouched buffer.  One read of the runtime's files is one block at   *)
(* most.                                                                   *)
(***************************************************************************)
EXTENDS Integers, Sequences, FiniteSetsExt

CONSTANTS MaxLength,  \* bound: bytes of a file and of a range
          Block       \* the most that one read yields

\* What the constants are.
FileRangeAssumption == MaxLength \in Nat /\ Block \in Nat \ {0}

VARIABLES file,      \* the file asked for, as "gzip" and as "identity"
          notFound,  \* the page to be shown instead, likewise
          range,     \* the range asked for
          pc,        \* where the handler is
          answer     \* what it has so far

vars == <<file, notFound, range, pc, answer>>

NoFile == -1
Length == 0 .. MaxLength
File == [gzip : Length \union {NoFile}, identity : Length \union {NoFile}]

NoRange == [asked |-> FALSE, start |-> 0, end |-> 0]
SomeRange == [asked : {TRUE}, start : Length, end : Length]

\* 0 .. MaxLength bytes, each of the file or 0.
Content == UNION {[1 .. n -> Length] : n \in Length}

NoAnswer == [status |-> 0, encoding |-> "none", start |-> 0, end |-> 0,
             length |-> 0, content |-> <<>>]

TypeOK ==
    /\ file \in File /\ notFound \in File
    /\ range \in SomeRange \union {NoRange}
    /\ pc \in {"asked", "missing", "done", "failed"}
    /\ answer.status \in {0, 200, 206, 404}
    /\ answer.encoding \in {"none", "gzip", "identity"}
    /\ answer.start \in Length /\ answer.end \in Length
    /\ answer.length \in Length
    /\ answer.content \in Content

Init ==
    /\ file \in File /\ notFound \in File
    /\ range \in SomeRange \union {NoRange}
    /\ pc = "asked"
    /\ answer = NoAnswer

-----------------------------------------------------------------------------
Encoding(f) == IF f.gzip # NoFile THEN "gzip" ELSE "identity"

Exists(f) == f[Encoding(f)] # NoFile

ReadPastEnd(length, start, end) ==
    [k \in 1 .. end |-> IF k <= Block THEN start + k ELSE 0]

\* A buffer as long as the range's end is filled from its start, by one read.
Read(length, start, end) ==
    [k \in 1 .. end |->
        IF k <= Min({Block, length - start}) THEN start + k ELSE 0]

FetchFileContent(f, r, status) ==
    LET length == f[Encoding(f)]
        start == r.start
        end == IF r.asked THEN r.end ELSE length
    IN  [status |-> status, encoding |-> Encoding(f),
         start |-> start, end |-> end, length |-> length,
         content |-> Read(length, start, end)]

Fetch ==
    /\ pc = "asked"
    /\ IF Exists(file)
       THEN /\ answer' = FetchFileContent(file, range,
                            IF range.asked THEN 206 ELSE 200)
            /\ pc' = "done"
       ELSE pc' = "missing" /\ UNCHANGED answer
    /\ UNCHANGED <<file, notFound, range>>

FetchNotFoundInRange ==
    /\ pc = "missing"
    /\ IF Exists(notFound)
       THEN answer' = FetchFileContent(notFound, range, 404) /\ pc' = "done"
       ELSE pc' = "failed" /\ UNCHANGED answer
    /\ UNCHANGED <<file, notFound, range>>

\* The page for a missing file is fetched whole, whatever range was asked for.
FetchNotFound ==
    /\ pc = "missing"
    /\ IF Exists(notFound)
       THEN answer' = FetchFileContent(notFound, NoRange, 404) /\ pc' = "done"
       ELSE pc' = "failed" /\ UNCHANGED answer
    /\ UNCHANGED <<file, notFound, range>>

Next == Fetch \/ FetchNotFound

Spec == Init /\ [][Next]_vars

-----------------------------------------------------------------------------
\* The file that an answer is made of.
Source == IF answer.status = 404 THEN notFound ELSE file

\* Without a range, and for a missing file, the content is the whole file in
\* the encoding that is named, if one read yields it.
SmallFilesWhole ==
    pc = "done" /\ answer.status # 206 /\ answer.length <= Block =>
        /\ answer.length = Source[answer.encoding]
        /\ answer.content = [k \in 1 .. answer.length |-> k]

\* What is sent for a range begins with the file's bytes from its start on, as
\* many as it has and a read yields, and no others.
RangeFromStart ==
    pc = "done" /\ answer.status = 206 =>
        \A k \in 1 .. Len(answer.content) :
            LET here == answer.content[k]
            IN  /\ here # 0 => /\ here = range.start + k
                                /\ here <= file[answer.encoding]
                /\ here = 0 => range.start + k > file[answer.encoding]
                                  \/ k > Block
=============================================================================
