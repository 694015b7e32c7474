# A verification development for fb-web

fb-web (framebastard) is a wiki of fighting games: games, their characters and
the characters' moves. Users propose documents and changes; admins approve or
reject them; what is approved is published and can be read and searched. This
directory models the parts of it that keep state over time, on the server and
in the browser, checks them with TLC and proves the main invariants with TLAPS.
All paths below are relative to `src/` of the repository.

## 1. The system

A Rust server (`server/src`, hyper on tokio) handles every request in a task of
its own. It keeps no state in memory: all state is in Couchbase (buckets
`proposed` and `published`), in files (uploads) and in the browsers' cookies
(sessions). A Polymer client (`client/cmps`) talks to it over HTTP.

| component | state | operations | correct when |
| --- | --- | --- | --- |
| proposal creation (`document_service/request_handlers/proposal.rs`, `database_adapters/couchbase/proposals.rs`) | counter per target, proposals | POST: check the target, read and increment the counter under CAS, upsert the proposal | a target continues its parent, versions are unique and grow, no proposal is ever overwritten, an answered one is there, the loop ends |
| proposal review (same files, `n1ql/proposals/close.n1ql`, `get_latest_authors.n1ql`) | status and closing time of proposals, published documents with `latestAuthors` | PATCH: get, authorise, publish when approved, close | a verdict is final and one reviewer's, who was entitled to it; what is approved was published; authors are credited |
| name sets (`database_adapters/couchbase/name_sets.rs`, `n1ql/name_sets`) | one name set per document: its names and its ancestors' | cascades of queries after a publication | name sets carry the current names of all ancestors |
| document and proposal reads (`request_handlers/document.rs`, `get_last_approved.n1ql`) | none | GET by id, lists with paging, a proposal with the version before it | "previous" is the version approved before, of those the index knows |
| auth service (`auth_service`), http service (`http_service`) | JWT and nonce in cookies | login, decode, renew, clear, logout | the last log-in or log-out has the last word; a token too old goes |
| upload service (`upload_service`) | temporary directories, published videos | save, probe, transcode, clean up | an upload gets media of those that share its directory, of its own alone if none does; nothing is left over unless its removal failed |
| file service (`file_service`) | none | read a file or a range of it | the bytes answered are those asked for |
| client lists and loaders (`proposal-list.js`, `document-list-loader.js`, `search-results-loader.js`) | page, items, request in flight | fetch, load more, parameters change | shows each item once, and those of the options chosen last |
| client document pages (`game-document-page.js`, `document-list-item.js`, `document-media.js`) | document, section shown, video element | the address changes, answers come, frames and visibility | shows the document of the address and its video |
| client proposal pages (`view-proposal-page.js`, `new-*-page.js`, `media-selector.js`, `attribute-set-editor.js`) | proposal shown, form, uploads, buttons | approve, reject, cancel, fill, judge, submit, upload | the page acts on what it shows, once |
| client shell (`fb-app.js`, `proposal-pages.js`, `document-pages.js`, `sign-in-dialog.js`, `modal-dialog.js`) | section, page, argument, dialogs | the address changes, sign-in | the page on the screen is the address's |
| search service, query store, start-up, database set-up | none | - | - |

How they interact: the router decodes the session and calls one service. The
document service's proposal handler calls the three Couchbase adapters one
awaited call after the other: a POST the `Documents` adapter (does the parent
exist?) and `Proposals` (counter, upsert); a PATCH `Proposals` (get, latest
authors), `Documents` (upsert), `NameSets` (one to three queries), `Proposals`
(close). There are no transactions: between any two calls other requests run,
and a handler may end at any of them (a 30 s timeout in `query_executor.rs`, the
timeouts of key-value calls, any error, the client's connection closed), in
which case the write it was waiting for may still be applied later.

In the browser `fb-app` hands the address down to one page at a time, and each
page has iron-ajax elements of its own. A page is told a new address while its
request for the old one is in flight; whether the old answer can still reach it
depends on which requests the page aborts, and when.

The hard behaviours follow from that: interleavings of handlers, checks that
are stale when acted upon, partial failure between two writes, late writes,
indexes that lag behind documents, answers that arrive after the question has
changed, cookies set by answers out of order. `PROJECT.json` lists the hazards
at the lines where they bite, with the properties that cover them.

## 2. What is modelled

### ProposalLog, ProposalCreation

`ProposalLog` is the promise: a submission enters the log at most once, under a
version no entry for the target has; told "ok", it is there; entries stay.

`ProposalCreation` is `commit_new_proposal` and `increment_counter`.

| model | code |
| --- | --- |
| `pc` | the await the handler is at: `get`, `increment`, `upsert`, answered `ok` or `error` |
| `seen` | the `CounterValue` of the loop's last read; `NoCounter` is its default, used when the document is missing |
| `counter`, `proposals` | `pcnt::<target>` and `prop::<target>::<version>` in bucket `proposed` |
| `clock` | where Couchbase draws CAS values from: each write of a counter gets a new one |
| `write` | the last write sent and what became of it |
| `GetCounter`, `Retry`, `Incremented`, `Upserted`, `Fail` | the handler's code between two awaits |
| `StoreIncrements`, `StoreRefuses`, `StoreUpserts` | the insert or guarded replace taken or refused, the blind upsert taken |

A write is sent by a handler's step and taken by a step of the store. `Fail` may
happen at any await and leaves the write under way, so a write may be taken
long after its handler ended, or never.

### ReviewLedger, ProposalReview

`ReviewLedger` is the promise: a proposal is submitted when the parent of its
document is published, closed at most once, approved only after it was
published. It does not tie publishing to the verdict: the code does not.

`ProposalReview` is the parent check of `process_proposal_request` and all of
`handle_patch_request`: `GetProposal` (found, and `authorize_proposal_close`),
`GetAuthors` (`get_latest_authors.n1ql` and the author put first), `Published`,
`NamesUpdated`, `Closed`, `Fail`; the store's `StorePublishes`, `StoreCloses`,
`StoreFindsNoRow` (`close.n1ql`, one atomic UPDATE of one document). A document
is abstracted to the proposal it is from. Storing a new proposal is one step
here: its id is its own, which is what `ProposalCreation` shows. Updating name
sets succeeds or fails here; what it does is `NameSets`.

`LatestAuthors` is the set of answers the query may give: DISTINCT over (id,
name), ordered by closing time, cut at the limit; an author of several proposals
is placed by one of them, and authors of one second in any order.

### NameSets

The second half of `publish_proposal` and `name_sets.rs`. Which names a
document has is told by the publication they come from, so "current" and "mixed"
can be told apart. `Publish` upserts the document; then `StartQuery` scans the
indexes for keys, `SelectRow` fetches one document with its parent's name set,
`UpsertRow` writes one name set, `QueryDone` goes to the next query or ends.
`Made` is the SELECT of the six queries, an inner join: no name set of the
parent, no row. `docIndex` and `setIndex` are what the indexes know; queries use
Couchbase's default consistency, which does not wait for them. `Fail` is an
error or timeout at any point: the query may go on or be given up (`Abandon`).
Each game, character or move says its type in the document itself
(`proposal["document"]["type"]`); the model takes it to agree with the place of
the document in the tree, as the client's pages send it. A row's document and
parent set are fetched at one moment. The six queries are three kinds of level
here: `Below(d, n)` are the documents that the n-th query after a publication of
`d` is to rewrite.

### The pages of the client

`IronAjax` is the request element as the pages use it: which of its requests are
in flight and which is the last. Aborting fires the error event in a microtask,
before any answer. Pages extend it; the server answers a request in flight at
any moment, from what it has then, or fails it.

| module | code | state and actions |
| --- | --- | --- |
| `LatestAnswer` | (the promise) | what is shown is nothing, the answer to the latest question, or a failure |
| `DocumentPage` | `game-document-page.js`, `character-` and `move-document-page.js`, `document-list-loader.js` | document, section, list and its page; `DocumentIdChanged`, `ParamsChanged`, an answer or error for either. The list implements `LatestAnswer` |
| `SearchResults` | `search-page.js`, `search-input.js`, `search-results-loader.js` | parameters, box, results; typing, searching, paging links, addresses that read back as another text or cannot be read |
| `ProposalList` | `proposal-list.js`, `proposal-list-filter.js`, the three list pages; the queries of `proposals.rs` behind them | filters, rows with the question they answer (history), `currentPage`, the button. Meanwhile proposals get the second of their creation (`GetNowTimestamp`), are stored in another order (`Submit`) and closed. A page is cut from any order of the list in which no second comes before an earlier one (`Listed`, `PageOf`), or is of an index that lags (`GetLaggingResponse`) |
| `ViewProposal` | `view-proposal-page.js` | the address and the proposal shown, buttons, two elements' requests; other reviewers close proposals; a success reloads the page |
| `NewProposal` | `new-game-page.js`, `new-character-page.js`, `new-move-page.js`, `media-selector.js` | form, its basis (history), uploads, posts and how far each came, requests of pages that were left |
| `FormValidity` | `attribute-set-editor.js`, `text-input.js`, and when `new-game-page.js` loads into them | rows rendered in place, one timer per input and one of the editor; inputs that are gone with their timers running; documents loaded into the rows there are (`QueryParamsChanged`, `Load`, `GetError`), any number of times |
| `AppRouting` | `fb-app.js`, `proposal-pages.js`, `document-pages.js`, `user-proposals-page.js` | address, what is told of it (path, then query), sections and pages stamped and removed, claims |
| `SignIn` | `sign-in-dialog.js`, `modal-dialog.js`, the pages' use of them | two dialogs, the class on the body that both toggle and how often it was toggled amiss, the cookie coming and going |
| `Media` | `document-media.js` | the video element and the file it plays, names waiting for a frame, several at a time too, videos removed while loading, visibility |
| `Highlight` | `document-list-item.js` | the loop that cuts names at matches, one match a step |

Iron-ajax, app-location, Polymer's templates and the browser are not under
`src/`; their parts of the models are external, taken from how the code relies on
them: templates follow property changes at once, `dom-if` after the properties
are set, an aborted request reports an error, `loading` is cleared before the
handlers run.

`Pages` puts them side by side. One element is on the screen, chosen by the
initial state, and moves while the variables of the others are 0; `Documents`,
`Search`, `Proposals`, `View(k)`, `New(k)`, `Attributes(k)`, `Shell`, `Dialogs`
and `Videos` are its INSTANCEs, the constants of each a record. Where one module
models several pages, or is checked with different data, there is a sequence of
records and `k` says which. That loses nothing: the elements share no variable,
so an interleaving of two of them is, for the properties of each, one of its own
behaviours with stutters in between.

### The handlers of the server beside reviewing

| module | code | state and actions |
| --- | --- | --- |
| `Session` | `auth_service/service.rs`, `service_router.rs` | clock, cookie, requests with the session read for them, answers with the cookies they set; `RouteRequest` reads the cookie, `ModifyResponseHeaders` makes the answer's cookies by the clock of that moment, `ToResponse` is an error, which sets none, `Receive` sets the last of an answer's cookies. Answers come in any order |
| `Uploads` | `upload_service/service.rs` | the two names an upload takes from the clock, temporary directories, media; one action per step of `handle_video_upload`, the client may go at each. `RemoveTempDir` may fail, half-way too, and the handler goes on |
| `PreviousVersion` | `combine_with_prev`, `get_last_approved.n1ql`, `close.n1ql` | a clock finer than seconds, closing times rounded up, a present rounded down, an index that learns of approvals later (`Index`) |
| `TargetIds` | the checks of `process_proposal_request` | parent and target as characters of one or two bytes |
| `FileRange` | `file_service/service.rs` | the choice between gzip and plain, seek, a buffer of `range_end` bytes, one read; the page for missing files |

`Handlers` puts these and `Highlight` side by side as `Pages` does the elements
of the client: `Browser`, `Videos`, `Previous`, `Targets`, `Files`, `Names`.

## 3. Runs

| run | instance | shows |
| --- | --- | --- |
| `creation` | 4 POSTs, 2 targets | `IInv`, `VersionsUnique`, `CounterCoversProposals`, `AnswerIsStored`, `RetryMeansProgress`, `VersionsGrow`, `NothingOverwritten`, `ImplementsLog` |
| `creation_answers` | 3 POSTs, fair handlers | `EveryPostAnswered` |
| `creation_gaps` | 2 POSTs | `VersionIsOrdinal` fails: finding 1 |
| `review` | 3 PATCHes of any kind (symmetric), a game and its character, an admin and an author | `IInv`, `ApprovedWasPublished`, `OneReviewerWins`, `Entitled`, `ParentsPublished`, `VerdictFinal`, `ImplementsLedger` |
| `review_rivals` | 3 approvals of 3 proposals for one document, `MaxAuthors` 2 | `CreditsDue`, `LastApprovalShows` |
| `review_turned_down` | 2 PATCHes | `PublishedNotTurnedDown` fails: finding 2 |
| `name_sets` | game, character, move, the game twice; 2 at a time | `IInv`, `CurrentWhenCalm`, `LonePublicationRepairs`, `WholeAncestry` |
| `name_sets_char` | the same, the character twice instead | `CurrentWhenCalm`, `LonePublicationRepairs` |
| `name_sets_stale` | as `name_sets` | `NamesCurrent` fails: finding 3 |
| `pages` | `MCPages`, thirteen instances of the client's modules | `Consistent`, `RightPage`, `RightLists`, `VerdictsAreMeant`, `FormsSendWhatWasAsked`, `CalmIsExact`, `PageFollowsAddress`, `WidgetsInStep`, `ImplementsLatestAnswer` |
| `ends` | `MCEnds`, six smaller instances, fair | `EveryWaitEnds`, `VerdictShows`, `OldTokenGoes` |
| `handlers` | `MCHandlers`, six instances; uploads and proposals symmetric | `Consistent`, `LastWord`, `OwnMedia`, `RightAnswers` |

Bounds. Each POST, PATCH and publication is handled once, so the number of them
is the only bound on behaviours, and no counter needs a cap. Three POSTs for one
target give a reader that is overtaken twice and a write that is refused twice;
the fourth is for another target. Three PATCHes give an approval that publishes
and stops, one that closes, and one that decides on what it read before.
`MaxAuthors` is 2 so that three authors reach the limit, 9 in the code.
`MaxActive` lets two publications overlap; a third would meet the same rows.
Users, statuses and proposals are all combinations the handler may be asked for.

In the last three runs one component moves at a time, chosen by the initial
state: `MCPages` and `MCHandlers` give the constants of `Pages` and `Handlers`
their values, `MCEnds` has smaller ones and fairness. A property there is the
conjunction of what is stated, with its own comment, in the components' modules.
`Consistent` is the conjunction of the components' `IInv`.

Their bounds. *Documents*: three addresses, one of nothing published, and a list
of three pages, so that an answer may be two questions late. *Search*: a blank
text, one whose results fill two pages, one that reads back as another, one that
cannot be read. *Lists*: three proposals of one second, two or three, all of
them or two for one document, in pages of one with one click: a row can move from
one page to the other both ways, be there twice, or be missed. *Proposals*: once
two proposals and one patch, once one and two, for a retry. *Forms*: two files,
so that answers to uploads swap; two posts; targets that exist or not.
*Attributes*: two rows of two inputs; three of one, so that a row moves into
another's place whose timer runs; and two of one with two texts that fill it, so
that a text may change and stay right. *Shell*: all pairs of addresses. *Video*:
three names in one frame. *Session*: two users, two requests, tokens of every
age. *Uploads*: three in two seconds, so that one may share the name of its media
with one and its directory with another. *Previous versions*: three proposals in
three seconds of two ticks and one tick more. Files and strings are of up to four
bytes or characters.

Fairness. `EveryPostAnswered` assumes weak fairness of each handler
(`FairSpec`), because every await ends, by a reply or by a timeout. The store
need not answer: then the handler fails. What the property adds is that the
retry loop cannot turn for ever. In `ends` the assumption on pages is that the
browser ends each request, with a response or an error (weak fairness per
question, nothing on which of the two), and that a page told to reload does
(`Reload` in `ViewProposal`). `OldTokenGoes` also assumes that somebody goes on
reading pages and that not all of these fail (strong fairness of asking and of
being answered without an error): nothing in the code clears a token otherwise.

Deadlock is checked in every run but `handlers`, where clocks and uploads come to
their bounds. In the first nine runs `Done` is the one way to stop, and asks that
all is answered and no write is under way.

### Findings

1. `docs/data-design.md:147` says that the fourth proposal for a document is
   version 4. The counter is incremented before the proposal is stored; a
   failure in between leaves a gap, and the fourth proposal is version 5.
2. `docs/data-design.md:121` says proposals are published as a result of
   approval. `handle_patch_request` does not look at the status before it
   publishes: an approval that comes after a rejection or a cancellation
   publishes the document and then fails to close.
3. `docs/data-design.md:150` says that name sets are updated with every version
   of a document or its parents. In the run a game and a character of it are
   published for the first time, and overlap. The character's query comes
   first: its join finds no name set of the game, so it makes none. Then the
   game's name set is upserted and the game's next query looks for characters.
   The character is published by now, but the query asks for no scan
   consistency (`name_sets.rs:30`) and the index lags behind: the query misses
   it. Both approvals are answered with success, the index catches up, and the
   character has no name set. `LonePublicationRepairs` says what puts it
   right: publishing the parent again, alone and with the indexes up to date.

### Where code and texts differ, met while modelling

Read off one or two lines, these need no run; the models follow the code.

- `auth_service/service.rs:63` says that a user must log in again after a day.
  The code counts the day from the token's last renewal (`:341`), so a user who
  asks for something each day never does.
- A log-out with an expired token clears the cookie and then renews it behind
  the clearing (`service.rs:79`, `:182`), so the user stays logged in, and a
  renewal under way while somebody logs in or out may be received after it.
  `LogoutClears` and `AskedIsDone` are about the others; `NobodyElse` is about
  all of them, and says how far back such an overtaking can lead.
- `docs/rest-api.md:79` says that the uploaded file is placed in the uploads
  folder. Of uploads in one second all but one are refused, and one may be
  answered with the video of another, because names are seconds
  (`upload_service/service.rs:112`). `OwnMedia` says that it is the video of one
  that was given the same temporary directory, so its own if no other was.
- `upload_service/service.rs:119` logs that a temporary directory could not be
  removed and answers as if it was: what is in it stays. `NoDirLeft` says that
  nothing else leaves one behind, but for clients that go and bodies that break
  off.
- `get_last_approved.n1ql:10` compares seconds strictly, `proposal.rs:364` takes
  the closing time, rounded up, or the present, rounded down: an approval in the
  same second is not "previous", and a pending proposal does not see one of the
  last second. The query asks for no scan consistency either
  (`proposals.rs:151`), so that what is "previous" may be older than the last
  approval; `PreviousToTheSecond` is about what the index knew.
- The lists of proposals are ordered by the second of creation
  (`proposals.rs:67`), and read and counted with no scan consistency:
  those of one second come in another order each time, and a page may repeat or
  skip one with no write in between. `SteadyListExact` and `NoneTwice` say what
  is right all the same.
- `proposal.rs:287` skips the separator without looking at it: `gameXchar` is
  taken as a child of `game`, against `docs/data-design.md:12`.
- `file_service/service.rs:206` takes the end of a range as a length, which is
  one too few when the range starts at 0 and too many otherwise; `:207` reads
  once, which need not fill the buffer. `SmallFilesWhole` and `RangeFromStart`
  say what is right.
- `new-game-page.js:105` allows blanks around a short name that `:110` and the
  server do not.
- `new-game-page.js:278` asks to fill in highlighted areas when a form has no
  attributes at all and nothing is highlighted.
- `attribute-set-editor.js:208` judges what is left when a row is removed by
  judgements that belong to elements, whose texts then move: typing into an
  input whose text has just been moved there, before its timer has ended, gets a
  wrong judgement until the editor judges again. `CalmIsExact` excludes just
  that haste, and only until then.
- `new-game-page.js:253` loads a document into the rows there are when the page
  stays over a change of its address. If it has fewer, the rows left over go
  with their judgements (`attribute-set-editor.js:180`), and no timer is set: a
  form with every row filled stays invalid until something is typed that changes
  a judgement. `CalmIsExact` says that a valid form has every row filled
  in any case, and the converse unless this happened since the editor last
  judged.
- `user-proposals-page.js:55` says `_observer` for `observer`: the page never has
  its own user's title.
- `modal-dialog.js:89` toggles the class, so that a dialog shown twice, or left
  open by the browser's buttons, turns the lock round, and the next that is turns
  it back. `LockMatches` keeps count of them.
- `document-media.js:202` answers for videos that are gone: the poster may be
  unblurred for a video that has not loaded.
- `document-media.js:208` sets one name after the other if the document changed
  more than once before a frame: the video is stamped for the first and given
  other sources, and plays the wrong file. `NamedWhenCalm` says that it is the
  right one if there was one name in the frame.
- `query_executor.rs:96` logs a row it cannot read and goes on: a query may
  succeed with fewer rows.

## 4. Proofs

TLAPS proves every invariant that a passing run checks, and every property of
theirs that is not about liveness, for any number of requests, people, documents,
pages and texts and any tree of documents.

| module | theorems |
| --- | --- |
| `ProposalCreationProofs` | `IInv` inductive, hence `VersionsUnique`, `CounterCoversProposals`, `AnswerIsStored`; the action properties `NothingOverwritten`, `VersionsGrow`, `RetryMeansProgress`; `ImplementsLog` |
| `ProposalReviewProofs` | `IInv` inductive, hence `ApprovedWasPublished`, `OneReviewerWins`, `Entitled`, `ParentsPublished`; `VerdictFinal`; `ImplementsLedger`; with `Credited` and `LastShows` besides it, `CreditsDue` and `LastApprovalShows` |
| `NameSetsProofs` | `IInv` inductive, hence `WholeAncestry`, `LonePublicationRepairs`, `CurrentWhenCalm` |
| `LoaderProofs` | lemmas on the request element, the document page, its list and the search page |
| `ListProofs` | lemmas on the lists of proposals |
| `FormProofs` | lemmas on the page of a proposal, the forms and the attribute editor |
| `PagesProofs` | lemmas on the shell, the dialogs and the video; for all of `Pages`: `Consistent`, `RightPage`, `RightLists`, `VerdictsAreMeant`, `FormsSendWhatWasAsked`, `CalmIsExact`, `PageFollowsAddress`, `WidgetsInStep`, `ImplementsLatestAnswer` |
| `HandlersProofs` | for all of `Handlers`: `Consistent`, `LastWord`, `OwnMedia`, `RightAnswers` |

The assumptions are those of the modules on their constants
(`TargetOfAssumption`, `ReviewAssumption`, `NameSetsAssumption` and so on):
functions have the types they should, "nothing" is not a value, a move's parent
is a character, a page of a list has room for a row. The modules that `Pages`
and `Handlers` instantiate state theirs as predicates, and `PagesAssumption` and
`HandlersAssumption` are their conjunctions (with an address to be at for the
document page). TLC evaluates all of them in the runs.

Why the invariants are what they are:

- *Creation.* Uniqueness alone is not inductive: a guarded write under way could
  be taken though the counter moved. `SeenIsPast` relates each read to the
  counter, older in CAS and value alike or current, so a guard that holds means
  nothing happened since; `ClaimsCovered` then puts every version given out at
  or below the counter, and the next one above it. `StoredWhenUpserted` ties
  each stored proposal to the one POST that wrote it, whose version is its own.
- *Review.* `HandlerOnCourse` says for each await, and for each write that may
  outlive its handler, what is already so of the proposal: an approval that may
  still close has published; one whose close was taken finds its verdict there.
  `OneCloses` holds because closing asks for pending, and pending does not come
  back. `Credited` says of every list that is published, or about to be, that
  its authors are due; it stays so because an approval is never undone. What the
  handler makes of the list it read is a lemma on indices (`FirstOnListIndex`):
  the author first, the others in their order without the first of that name.
  `LastShows` is about the approval that came when all others of its document
  were over: those stay over and have no write left (`OverStays`), so what it
  put together is complete, and nothing comes between that and its answer.
- *Name sets.* A row is whole when it is made, since the name set it is made
  from is; it stays whole while it waits, since its parent's name set can change
  but not go away (`ParentsThere`). `KeysPublished` makes sure rows are made of
  documents. A lone publication rewrites its tree level by level: `LevelsInStep`
  says that after n queries the first n levels are in step, each name set made of
  its document and its parent's name set, but for what the n-th has yet to write.
  The levels are apart, so that writing one leaves those before it alone
  (`LevelsApart`, `UpsertAside`), and `RowsCurrent` says that a row is still what
  would be made now. `Undisturbed` is what makes these hold: while a publication
  is lone nobody else is active. A name set in step below a current one is
  current (`InStepCurrent`), from which `CurrentSoFar` follows for a history of
  lone publications only: every name set is current but those that the running
  one has still to reach. `LonePublicationRepairs` needs no such history.
- *Elements of the client.* What is on the screen stays there and moves alone
  (`Begins`, `Moves`), so each theorem is about one element and its `IInv`
  (`GoodPage`, `GoodList` and so on restate its parts for the provers).
  - *Documents, searches, proposals shown.* An element has one request in flight
    at most (`AtMostOne`), it is the last one, and it is for what the address
    says now: whoever changes the address aborts first. So every answer is to the
    question that stands, and nothing has to be said about the order of answers.
    For the refinement `LatestAnswer!Ask` is the change of the parameters, and a
    stencil stands for "waiting".
  - *Lists.* A list loads by offset while proposals come and go on the server.
    Where a proposal is on the server's list is known but for the order within
    its second: behind those of a second before (`Ahead`), and no farther than
    all of its own (`Level`), in whatever order a query returns them
    (`ListedProperties`, `IsAt`). So no proof is by induction over a sequence.
    `SteadyRows` is the exactness of a list that did not change: each row is
    where the list may have it. `NonePutBack` is about lists to which nothing is
    added in front: what was shown never moves behind what is still to be
    loaded, so what is loaded twice has another of its second (`HasTwin`).
  - *Forms.* A post is what the form was filled with for the document its address
    named when it was sent (`MeantToBe`), and keeps that whatever becomes of the
    page. The form's basis is its target unless the page stayed over a change of
    address.
  - *Attributes.* What an input's element last judged is its text as soon as its
    timer has ended. A form the editor finds valid has rows that do, or news is
    on its way to it of an element that is gone or was moved to; and the other
    way round, unless a document was loaded over such elements or left rows over
    (`EditorFollows`). Loading can break the second only, since all it loads is
    filled and elements that keep their texts keep their judgements.
  - *Shell.* `next` orders the effects of a visit; each step adds one part that
    follows the address (section, path, query, page), and the parts before it
    stay.
  - *Widgets.* The class on the body toggles with each dialog, so it says whether
    the number of those shown is odd, but for the times it was toggled without
    one coming or going (`odd`). The frames that a video waits for end with the
    document's name; it is stamped for the first of them that has no `None`
    behind it, so for that one if it is alone (`Stamped`).
- *Uploads.* `FromDirectory` says that all that is in a directory, and in media
  and answers made from it, is of uploads that had it; who has one never gives it
  up, so the set of them only grows. `AloneFinds` is about directories with one
  of them, and keeps such an upload from being disturbed: whoever else takes a
  step has another directory (`AloneApart`). A directory that is there has one of
  them who has not ended or failed to remove it (`NoDirLeft`), so one that is
  made for an upload alone is empty.
- *Session.* `Only`: a log-in or log-out that has not raced is the only request
  on its way that sets cookies. `SameUser`: when none is on its way, the cookie
  and every token about to be renewed are of the user asked for last. For those
  that raced, `TokensKnown`: every token, in the cookie, in a request or in an
  answer, is of a user who entered, or of the one whom the answer brings in.
  `Cookies` and `Whose` relate an answer's cookies to its request.
- *Previous versions.* Closing times grow with the ticks they are drawn from,
  because rounding up is monotone (`QuotientMonotone`, `Stamp`), and a present
  rounded down comes after what is a second older. The answer is then right
  about what the index knew when it was asked (`known`), which is all that the
  query can see (`GoodAnswer`).
- *Targets.* What precedes a place in a text takes more bytes the farther the
  place is (`BytesGrow`), so a parent that is cut off at its length in bytes was
  cut off as a text.
- *Ranges.* What is answered is bounded by three lengths, the file's, the
  buffer's and the block's; small files lie below the last two.
- *Highlight.* Sorting puts matches that do not overlap in order
  (`SortedInOrder`: each place is taken once, `PlaceIsOne`), and the parts tile
  the name up to the match at hand.

Only model-checked, because liveness under fairness is not within reach of the
provers used here: `EveryPostAnswered` of `creation_answers`, and
`EveryWaitEnds`, `VerdictShows` and `OldTokenGoes` of `ends`. The properties of
`creation_gaps`, `review_turned_down` and `name_sets_stale` do not hold.

## 5. Not modelled

- Searching (one full-text query), the OAuth exchange with Twitter and the
  callback that ends it, the signature and nonce of tokens, the query store,
  start-up, the database set-up: stateless, or external.
- `Session::None` of `auth_service/service.rs:96`: never made, because the hash
  of an empty nonce is not empty.
- A row error in the middle of a result (`query_executor.rs:96`): the rows that
  the queries make are all of the shape that is read.
- Presentation: wording, styles, breadcrumbs, authors, the profile menu, the
  editor of aliases; an address that changes in the moment of a page's reload.
- `FormValidity` loads documents with all attributes filled: the server stores no
  others.
- The http service's table of routes, paths and mime types of files, the limit
  on the size of uploads.
- A crash of Couchbase itself, and losing data it acknowledged, is outside the
  code.

## 6. Plan

1. `Approval`, which composes `ProposalReview` with `NameSets`: an approval
   answered "ok" and nothing after it leaves the document searchable, proved from
   what is proved of the two.
2. The search page and the lists of proposals as implementations of
   `LatestAnswer`, as the list of children is.
