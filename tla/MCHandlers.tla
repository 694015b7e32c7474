------------------------------ MODULE MCHandlers -------------------------------
(***************************************************************************)
(* Small instances of the handlers of the server for TLC.                  *)
(***************************************************************************)
EXTENDS Handlers, TLC

CONSTANTS u1, u2, u3, p1, p2, p3

-----------------------------------------------------------------------------
\* Two users of one browser, with two requests at a time.  A token is valid for
\* one step of the clock, can be renewed for two more, and is too old then.
MCSessions ==
    [User |-> {"ann", "bob"}, TokenExp |-> 1, TokenMaxLife |-> 2,
     MaxTime |-> 4, MaxRequests |-> 2]

\* Three uploads in two seconds.
MCUploads == [Upload |-> {u1, u2, u3}, MaxTime |-> 1]

\* Three proposals for one document, in three seconds of two ticks and one more.
MCProposals == [Proposal |-> {p1, p2, p3}, PerSecond |-> 2, MaxTicks |-> 6]

\* Targets of up to four characters, parents of a game and of a character,
\* with and without a letter of two bytes.
MCIds ==
    [MaxChars |-> 4,
     Existing |-> {<<"a">>, <<"e2">>, <<"a", "a">>, <<"a", ".", "a">>}]

\* Files of up to four bytes, read in blocks of three.
MCFiles == [MaxLength |-> 4, Block |-> 3]

\* Two names of up to four characters with up to two matches each.
MCNames == [Name |-> 2, MaxLength |-> 4, MaxMatches |-> 2]

\* Uploads are alike, and so are proposals.
Symmetry == Permutations({u1, u2, u3}) \union Permutations({p1, p2, p3})
=============================================================================
