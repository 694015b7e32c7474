----------------------------- MODULE ProposalLog -----------------------------
(***************************************************************************)
(* What submitting proposals promises, whatever the storage does.          *)
(*                                                                         *)
(* The bucket of proposals is a log: a submitted document is entered under *)
(* an id (its target and a version) that no other proposal has, nothing    *)
(* entered is ever changed or lost, and a submitter who is told "ok" finds *)
(* its proposal in the log.  A submitter who is told "error" knows         *)
(* nothing: the entry may be there, may be missing, may still be on its    *)
(* way.  Which version an entry gets is left open.                         *)
(***************************************************************************)
EXTENDS Naturals

CONSTANTS Request,    \* the submissions, each one a POST of a document
          TargetOf    \* the document id that each submission is for

VARIABLES proposals,  \* the entries: target, version and the submission
          answer      \* what each submitter was told: "none", "ok", "error"

vars == <<proposals, answer>>

Init == /\ proposals = {}
        /\ answer = [r \in Request |-> "none"]

\* One more entry, for a submission that has none, under an id that is free.
Enter(r) ==
    /\ \A q \in proposals : q.by # r
    /\ \E p \in proposals' :
          /\ p.by = r
          /\ p.target = TargetOf[r]
          /\ p.version \in Nat \ {0}
          /\ \A q \in proposals :
                ~(q.target = p.target /\ q.version = p.version)
          /\ proposals' = proposals \union {p}
    /\ UNCHANGED answer

Accept(r) == /\ answer[r] = "none"
             /\ \E p \in proposals : p.by = r
             /\ answer' = [answer EXCEPT ![r] = "ok"]
             /\ UNCHANGED proposals

Fail(r) == /\ answer[r] = "none"
           /\ answer' = [answer EXCEPT ![r] = "error"]
           /\ UNCHANGED proposals

Next == \E r \in Request : Enter(r) \/ Accept(r) \/ Fail(r)

Spec == Init /\ [][Next]_vars
=============================================================================
