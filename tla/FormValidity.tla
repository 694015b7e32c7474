----------------------------- MODULE FormValidity -----------------------------
(***************************************************************************)
(* Whether a form may be submitted: the valid properties of text-input and *)
(* of attribute-set-editor on the pages for new proposals.                 *)
(*                                                                         *)
(* An input judges its text some time after the last change, and tells the *)
(* editor when its judgement changes; the editor then looks at all of them *)
(* some time later.  Meanwhile the user types, adds and removes rows.  The *)
(* rows are rendered in place: when one is removed its successors' texts   *)
(* move up, from element to element, and the last element goes, with a     *)
(* timer that may still be running and a listener that is still heard.     *)
(*                                                                         *)
(* A document is loaded into the rows there are: the page stays when its   *)
(* URL changes to another of its kind, and hides the form until it has the *)
(* document of the new one, or shows it while it still waits for the last. *)
(*                                                                         *)
(* Timers may end in any order.                                            *)
(***************************************************************************)
EXTENDS Naturals, Sequences

CONSTANTS Input,   \* the inputs of a row: title and value
          Text,    \* what the inputs may hold
          Blank,   \* an empty input, invalid like all texts ...
          Filled,  \* ... but these
          MaxRows  \* bound: rows

\* What the constants are.
FormValidityAssumption ==
    /\ Filled \subseteq Text
    /\ Blank \in Text \ Filled
    /\ MaxRows \in Nat \ {0}

VARIABLES rows,      \* the elements of each row: text, judgement, timer runs
          ghosts,    \* elements that are gone, with their timers running
          valid,     \* the editor's judgement
          timer,     \* the editor's timer is running
          getting,   \* the document is on its way
          content,   \* the form is shown
          unsettled, \* history: inputs whose timers run since a row was
                     \* removed
          haste,     \* history: something was typed into one of these, or an
                     \* input had been cleared just before the removal
          eased      \* history: a document has overwritten these, or left
                     \* rows over

vars == <<rows, ghosts, valid, timer, getting, content, unsettled, haste,
          eased>>

Element == [text : Text, valid : BOOLEAN, timer : BOOLEAN]

TypeOK ==
    /\ rows \in Seq([Input -> Element]) /\ Len(rows) <= MaxRows
    /\ ghosts \subseteq Element
    /\ valid \in BOOLEAN
    /\ timer \in BOOLEAN
    /\ getting \in BOOLEAN
    /\ content \in BOOLEAN
    /\ unsettled \subseteq (DOMAIN rows) \X Input
    /\ haste \in BOOLEAN
    /\ eased \in BOOLEAN

-----------------------------------------------------------------------------
\* An element that is stamped says it is invalid, and judges its first text
\* like any other.
NewElement(text) == [text |-> text, valid |-> FALSE, timer |-> TRUE]

\* A text that changes starts the timer anew.
WithText(element, text) ==
    IF element.text = text THEN element
    ELSE [element EXCEPT !.text = text, !.timer = TRUE]

BlankRow == [f \in Input |-> Blank]

Texts == [i \in DOMAIN rows |-> [f \in Input |-> rows[i][f].text]]

\* The rows for a list of texts: those there are, in place, and more if they
\* are not enough.  The elements that are left over go, of interest if their
\* timers run; the editor hears of the new ones.
Render(texts) ==
    /\ rows' = [i \in DOMAIN texts |-> [f \in Input |->
                   IF i \in DOMAIN rows THEN WithText(rows[i][f], texts[i][f])
                                        ELSE NewElement(texts[i][f])]]
    /\ ghosts' = ghosts \union
          {e \in {rows[i][f] : i \in DOMAIN rows \ DOMAIN texts, f \in Input} :
              e.timer}
    /\ timer' = (timer \/ Len(texts) > Len(rows))

RowValid(row) == \A f \in Input : row[f].valid

Init ==
    /\ rows = <<[f \in Input |-> NewElement(Blank)]>>
    /\ ghosts = {}
    /\ valid = FALSE
    /\ timer = TRUE
    /\ getting \in BOOLEAN
    /\ content = ~getting
    /\ unsettled = {}
    /\ haste = FALSE
    /\ eased = FALSE

\* What happened is of interest until the editor is to judge the rows anew.
Remember(moved, typed, loaded) ==
    /\ unsettled' = IF timer' \/ typed THEN {} ELSE moved
    /\ haste' = (typed /\ ~timer')
    /\ eased' = (loaded /\ ~timer' /\ ~typed)

\* The page is given another URL, for a document or for a new one; only for a
\* document it gives up on the last.
QueryParamsChanged(target) ==
    /\ getting' = (getting \/ target)
    /\ content' = ~target
    /\ UNCHANGED <<rows, ghosts, valid, timer, unsettled, haste, eased>>

\* The document's attributes take the place of those in the form.
Load(texts) ==
    /\ getting
    /\ getting' = FALSE
    /\ content' = TRUE
    /\ Render(texts)
    /\ Remember({u \in unsettled : u[1] \in DOMAIN texts}, haste,
                eased \/ unsettled # {} \/ Len(texts) < Len(rows))
    /\ UNCHANGED valid

GetError ==
    /\ getting
    /\ getting' = FALSE
    /\ content' = FALSE
    /\ UNCHANGED <<rows, ghosts, valid, timer, unsettled, haste, eased>>

Type(i, f, text) ==
    /\ content
    /\ text # rows[i][f].text
    /\ rows' = [rows EXCEPT ![i][f] = WithText(@, text)]
    /\ UNCHANGED <<ghosts, valid, timer, getting, content>>
    /\ Remember(unsettled, haste \/ <<i, f>> \in unsettled, eased)

NewAttribute ==
    /\ content
    /\ Len(rows) < MaxRows
    /\ Render(Append(Texts, BlankRow))
    /\ valid' = FALSE
    /\ Remember(unsettled, haste, eased)
    /\ UNCHANGED <<getting, content>>

\* An input that was cleared and is not judged yet.
Flattered == \E i \in DOMAIN rows, f \in Input :
                rows[i][f].valid /\ rows[i][f].text \notin Filled

TextsWithout(i) ==
    [j \in 1 .. Len(rows) - 1 |-> Texts[IF j < i THEN j ELSE j + 1]]

\* The rest is judged by what its elements say before their texts move.
RemoveAttribute(i) ==
    /\ content
    /\ Render(TextsWithout(i))
    /\ valid' = \A j \in DOMAIN rows \ {i} : RowValid(rows[j])
    /\ Remember({u \in (DOMAIN rows') \X Input : rows'[u[1]][u[2]].timer},
                Flattered, FALSE)
    /\ UNCHANGED <<getting, content>>

-----------------------------------------------------------------------------
\* An input judges its text, and the editor hears of it if that is news.
SetValidProperty(i, f) ==
    LET ok == rows[i][f].text \in Filled
    IN  /\ rows[i][f].timer
        /\ rows' = [rows EXCEPT ![i][f].valid = ok, ![i][f].timer = FALSE]
        /\ timer' = (timer \/ ok # rows[i][f].valid)
        /\ Remember(unsettled \ {<<i, f>>}, haste, eased)
        /\ UNCHANGED <<ghosts, valid, getting, content>>

GhostUnheard(g) ==
    /\ ghosts' = ghosts \ {g}
    /\ UNCHANGED <<rows, timer, valid, getting, content, unsettled, haste,
                   eased>>

\* An input that is gone does the same.
GhostSetsValidProperty(g) ==
    /\ ghosts' = ghosts \ {g}
    /\ timer' = (timer \/ (g.text \in Filled) # g.valid)
    /\ Remember(unsettled, haste, eased)
    /\ UNCHANGED <<rows, valid, getting, content>>

\* The editor judges the rows by their elements.
OnValidChanged ==
    /\ timer
    /\ timer' = FALSE
    /\ valid' = \A i \in DOMAIN rows : RowValid(rows[i])
    /\ Remember({}, FALSE, FALSE)
    /\ UNCHANGED <<rows, ghosts, getting, content>>

Next ==
    \/ \E target \in BOOLEAN : QueryParamsChanged(target)
    \/ \E n \in 0 .. MaxRows :
          \E texts \in [1 .. n -> [Input -> Filled]] : Load(texts)
    \/ GetError
    \/ \E i \in DOMAIN rows, f \in Input :
          \/ \E text \in Text : Type(i, f, text)
          \/ SetValidProperty(i, f)
    \/ NewAttribute
    \/ \E i \in DOMAIN rows : RemoveAttribute(i)
    \/ \E g \in ghosts : GhostSetsValidProperty(g)
    \/ OnValidChanged

Spec == Init /\ [][Next]_vars

-----------------------------------------------------------------------------
\* No timer is running.
Calm == /\ \A i \in DOMAIN rows, f \in Input : ~rows[i][f].timer
        /\ ghosts = {}
        /\ ~timer

AllFilled == \A i \in DOMAIN rows, f \in Input : rows[i][f].text \in Filled

\* The end of its timer will be news to the editor.
News(e) == e.timer /\ ~(e.valid <=> e.text \in Filled)

\* Such news of an input that has moved, of one that is judged so.
MovedNews(ok) ==
    \E u \in unsettled : /\ News(rows[u[1]][u[2]])
                        /\ rows[u[1]][u[2]].valid = ok

GhostNews == \E g \in ghosts : News(g)

\* Unless its timer runs an element's judgement is right.  Unless its own does,
\* or there is news to come, of an element that is gone or of one that was moved
\* to, the editor finds its rows valid only if its elements do, and does so then
\* if no document was loaded that took an invalid one away.
IInv ==
    /\ TypeOK
    /\ \A i \in DOMAIN rows, f \in Input :
          ~rows[i][f].timer => (rows[i][f].valid <=> rows[i][f].text \in Filled)
    /\ ~timer /\ ~haste =>
          LET good == \A i \in DOMAIN rows : RowValid(rows[i])
          IN  /\ valid => good \/ GhostNews \/ MovedNews(FALSE)
              /\ good => valid \/ eased \/ GhostNews \/ MovedNews(TRUE)

\* Once the timers have ended a form that the editor finds valid has no input
\* left to fill in, whatever was typed, added, removed and loaded while they
\* ran, as long as nothing is typed into an input whose text was just moved
\* there, nor was cleared just before; and it finds one valid that has none, as
\* long as no document was loaded that has fewer rows, or whose texts overwrote
\* some just moved.  Both are forgotten as soon as the editor is to look again.
CalmIsExact ==
    Calm /\ ~haste => /\ valid => AllFilled
                      /\ AllFilled => valid \/ eased
=============================================================================
