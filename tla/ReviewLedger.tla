----------------------------- MODULE ReviewLedger -----------------------------
(***************************************************************************)
(* What reviewing proposals promises.                                      *)
(*                                                                         *)
(* A proposal is submitted once and closed at most once, as approved,      *)
(* rejected or cancelled; that verdict is final.  A proposal is closed as  *)
(* approved only after its document was published, and a document with a   *)
(* parent is proposed only when a version of the parent was.  A reviewer   *)
(* who is told "ok" is the one whose verdict it is.                        *)
(*                                                                         *)
(* Publishing is not tied to the verdict: a proposal of any status may be  *)
(* published, and again.                                                   *)
(***************************************************************************)
EXTENDS Naturals

CONSTANTS Proposal,   \* the proposals: a target with a version each
          Review,     \* the requests to close one
          Target,     \* the ids of documents
          TargetOf,   \* the document each proposal is for
          ParentOf,   \* the parent of each document
          Nothing     \* no parent, no published version

VARIABLES verdict,    \* of each proposal: "absent", "pending" or a verdict
          published,  \* the proposal each document was last published from
          past,       \* the proposals that have ever been published
          told        \* what each reviewer was told: "none", "ok", "error"

vars == <<verdict, published, past, told>>

Verdict == {"approved", "rejected", "cancelled"}

Init == /\ verdict = [p \in Proposal |-> "absent"]
        /\ published = [t \in Target |-> Nothing]
        /\ past = {}
        /\ told = [r \in Review |-> "none"]

Submit(p) ==
    /\ verdict[p] = "absent"
    /\ LET parent == ParentOf[TargetOf[p]]
       IN  parent # Nothing => published[parent] # Nothing
    /\ verdict' = [verdict EXCEPT ![p] = "pending"]
    /\ UNCHANGED <<published, past, told>>

Publish(p) ==
    /\ verdict[p] # "absent"
    /\ published' = [published EXCEPT ![TargetOf[p]] = p]
    /\ past' = past \union {p}
    /\ UNCHANGED <<verdict, told>>

Close(p, v) ==
    /\ verdict[p] = "pending"
    /\ v = "approved" => p \in past
    /\ verdict' = [verdict EXCEPT ![p] = v]
    /\ UNCHANGED <<published, past, told>>

Answer(r) ==
    /\ told[r] = "none"
    /\ \E a \in {"ok", "error"} : told' = [told EXCEPT ![r] = a]
    /\ UNCHANGED <<verdict, published, past>>

Next == \/ \E p \in Proposal : \/ Submit(p)
                               \/ Publish(p)
                               \/ \E v \in Verdict : Close(p, v)
        \/ \E r \in Review : Answer(r)

Spec == Init /\ [][Next]_vars
=============================================================================
