----------------------------- MODULE LatestAnswer -----------------------------
(***************************************************************************)
(* What a loader promises: whatever its user asks, and however often he    *)
(* changes his mind before the answer is there, it shows nothing, the      *)
(* answer to his latest question, or that the question failed.             *)
(***************************************************************************)
CONSTANTS Want,       \* what can be asked
          AnswerTo,   \* the answer to each question
          Waiting,    \* shown: no answer yet
          Failed      \* shown: there will be none

VARIABLES wanted, shown

vars == <<wanted, shown>>

Init ==
    /\ wanted \in Want
    /\ shown = Waiting

Ask ==
    /\ wanted' \in Want
    /\ shown' = Waiting

Answer(w) ==
    /\ wanted = w
    /\ shown = Waiting
    /\ shown' \in {AnswerTo[w], Failed}
    /\ UNCHANGED wanted

Next == Ask \/ \E w \in Want : Answer(w)

\* An answer is due as long as the question stands.
Fairness == \A w \in Want : WF_vars(Answer(w))

\* What is promised of every step, and that an answer comes.
Safety == Init /\ [][Next]_vars

Spec == Safety /\ Fairness
=============================================================================
