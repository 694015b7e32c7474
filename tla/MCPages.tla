-------------------------------- MODULE MCPages --------------------------------
(***************************************************************************)
(* Small instances of the elements of the client for TLC.                  *)
(***************************************************************************)
EXTENDS Pages, TLC

-----------------------------------------------------------------------------
\* Two games, one with children on three pages of two, and a character that is
\* not there.
Ids == {"sf5", "kof", "ryu"}
Kinds == "sf5" :> "games" @@ "kof" :> "games" @@ "ryu" :> "chars"
Lists == "sf5" :> <<"a", "b", "c", "d", "e">> @@ "kof" :> <<>> @@ "ryu" :> <<>>

MCDocuments ==
    [Id |-> Ids, Kind |-> {"games", "chars"}, KindOf |-> Kinds,
     Published |-> {"sf5", "kof"},
     Child |-> {"a", "b", "c", "d", "e"}, Children |-> Lists,
     Page |-> 1 .. 3, PageSize |-> 2]

\* One text finds two pages of results, one none; one is blanks, one reads back
\* as the first, and one cannot be read back.
Texts == {"", "  ", "hadoken", "%", "%68adoken"}

Reads ==
    "" :> "" @@ "  " :> "  " @@ "hadoken" :> "hadoken"
        @@ "%" :> Unreadable @@ "%68adoken" :> "hadoken"

Hits ==
    [q \in Texts \X {Nothing, "ryu"} |->
        CASE q = <<"hadoken", Nothing>> -> <<"a", "b", "c">>
          [] q = <<"hadoken", "ryu">> -> <<"a", "b">>
          [] OTHER -> <<>>]

MCSearches ==
    [Text |-> Texts, Empty |-> "", Blank |-> {"", "  "}, ReadBack |-> Reads,
     Target |-> {Nothing, "ryu"}, Doc |-> {"a", "b", "c"}, Results |-> Hits,
     MaxPage |-> 2, PageSize |-> 2]

\* Three proposals, two of them for one document, in pages of one.
MCLists ==
    [Scope |-> {1 .. 3, {2, 3}}, MaxProposals |-> 3, MaxPage |-> 1,
     PageSize |-> 1]

\* A proposal each for two documents, by an admin and by another user.
TwoProposals ==
    [Target |-> {"sf5", "ryu"},
     Version |-> {1, 2},
     Stored |-> {<<"sf5", 1>>, <<"ryu", 2>>},
     AuthorOf |-> <<"sf5", 1>> :> "ann" @@ <<"ryu", 2>> :> "bob",
     User |-> {"ann", "bob", Nobody},
     Admin |-> {"ann"},
     MaxPatches |-> 1]

\* One of them, by the admin, who may try twice.
OneProposal ==
    [Target |-> {"sf5"},
     Version |-> {1, 2},
     Stored |-> {<<"sf5", 1>>},
     AuthorOf |-> <<"sf5", 1>> :> "ann",
     User |-> {"ann", Nobody},
     Admin |-> {"ann"},
     MaxPatches |-> 2]

MCViews == <<TwoProposals, OneProposal>>

\* The form for characters, with one to change, one that is not there, and a
\* game to add one to; and the form for games, with one of two to change.
CharacterForm ==
    [Name |-> {"sf5", "kof", "ryu", "ken"},
     Typed |-> {"ryu", " ryu"},
     Padded |-> {" ryu"},
     Published |-> {<<"sf5">>, <<"kof">>, <<"kof", "ken">>},
     Parent |-> {<<"sf5">>},
     Target |-> {<<"sf5", "ryu">>, <<"kof", "ken">>},
     MaxPosts |-> 1,
     MaxFiles |-> 2]

GameForm ==
    [Name |-> {"sf5", "kof"},
     Typed |-> {"sf5"},
     Padded |-> {},
     Published |-> {<<"sf5">>, <<"kof">>},
     Parent |-> {<<>>},
     Target |-> {<<"sf5">>},
     MaxPosts |-> 2,
     MaxFiles |-> 0]

MCForms == <<CharacterForm, GameForm>>

\* Two rows of attributes with a title and a value; three rows of one input;
\* and two rows of it with two texts that both fill it.
TwoInputs ==
    [Input |-> {"title", "value"},
     Text |-> {"health", ""},
     Blank |-> "",
     Filled |-> {"health"},
     MaxRows |-> 2]

ThreeRows == [TwoInputs EXCEPT !.Input = {"title"}, !.MaxRows = 3]

TwoTexts ==
    [TwoInputs EXCEPT !.Input = {"title"},
                      !.Text = {"health", "stun", ""},
                      !.Filled = {"health", "stun"}]

MCEditors == <<TwoInputs, ThreeRows, TwoTexts>>

\* Two games and a character, what there is about them and about two users,
\* and paths that lead nowhere.
PathsOf(of, to, args) ==
    {[section |-> of, page |-> to, arg |-> a] : a \in args}

AllPaths ==
    UNION {PathsOf("home", "notFound", {"-"}),
           PathsOf("search", "notFound", {"-"}),
           PathsOf("notFound", "notFound", {"-"}),
           PathsOf("documents", "game", {"sf5", "kof"}),
           PathsOf("documents", "char", {"ryu"}),
           PathsOf("documents", "notFound", {"sf5", NoMatch}),
           PathsOf("proposals", "newChar", {"-"}),
           PathsOf("proposals", "newMove", {"-"}),
           PathsOf("proposals", "viewById", {"sf5", "ryu"}),
           PathsOf("proposals", "listForDoc", {"sf5", "ryu"}),
           PathsOf("proposals", "listForUser", {"ann", "bob"}),
           PathsOf("proposals", "notFound", {"-"})}

MCUrls ==
    [Path |-> AllPaths, Query |-> {"plain", "other"}, User |-> {"ann", "bob"}]

\* A form with two sets of parameters.
MCDialogs == [Params |-> {"game", "char"}]

\* Three videos, three changes within a frame.
MCVideos == [File |-> {"f1", "f2", "f3"}, MaxChanges |-> 3]
=============================================================================
