---------------------------- MODULE PreviousVersion ----------------------------
(***************************************************************************)
(* The GET of a proposal together with the version that was approved       *)
(* before it, while proposals for the same document are closed.            *)
(*                                                                         *)
(* The handler reads the proposal, takes the time at which it was closed,  *)
(* or the present, and then asks for the approved one that was closed last *)
(* before that time.  Closing times are seconds rounded up, the present is *)
(* rounded down.  The query asks for no scan consistency: the index it     *)
(* reads may not know of the last approvals yet.                           *)
(***************************************************************************)
EXTENDS Integers, Sequences

CONSTANTS Proposal,   \* proposals for one document
          None,       \* no proposal
          PerSecond,  \* ticks of the clock in a second
          MaxTicks    \* bound: ticks

\* What the constants are.
PreviousVersionAssumption ==
    None \notin Proposal /\ PerSecond \in Nat \ {0} /\ MaxTicks \in Nat

VARIABLES ticks,     \* the clock
          status,    \* proposal -> its status
          closed,    \* proposal -> the second stamped on it
          indexed,   \* the approved ones that the index knows
          closings,  \* the proposals closed so far, in order (history)
          request    \* the GET that is served

vars == <<ticks, status, closed, indexed, closings, request>>

Ceiling(t) == (t + PerSecond - 1) \div PerSecond

\* A GET, with the tick at which its proposal was read or had been closed, the
\* number of closings before, and what the index knew (history).
Idle == [at |-> "idle", proposal |-> None, time |-> 0, previous |-> None,
         pending |-> TRUE, tick |-> 0, before |-> 0, known |-> {}]

Init ==
    /\ ticks = 0
    /\ status = [p \in Proposal |-> "pending"]
    /\ closed = [p \in Proposal |-> 0]
    /\ indexed = {}
    /\ closings = <<>>
    /\ request = Idle

Tick ==
    /\ ticks < MaxTicks
    /\ ticks' = ticks + 1
    /\ UNCHANGED <<status, closed, indexed, closings, request>>

-----------------------------------------------------------------------------
Close(p, to) ==
    /\ status[p] = "pending"
    /\ status' = [status EXCEPT ![p] = to]
    /\ closed' = [closed EXCEPT ![p] = Ceiling(ticks)]
    /\ closings' = Append(closings, [of |-> p, tick |-> ticks])
    /\ UNCHANGED <<ticks, indexed, request>>

\* The index catches up with an approval.
Index(p) ==
    /\ status[p] = "approved"
    /\ p \notin indexed
    /\ indexed' = indexed \union {p}
    /\ UNCHANGED <<ticks, status, closed, closings, request>>

\* The handler reads a proposal; of one that is pending it takes the present.
GetProposal(p) ==
    /\ request.at = "idle"
    /\ \/ /\ status[p] = "pending"
          /\ request' = [at |-> "read", proposal |-> p, previous |-> None,
                         time |-> ticks \div PerSecond, pending |-> TRUE,
                         tick |-> ticks, before |-> Len(closings),
                         known |-> {}]
       \/ \E i \in DOMAIN closings :
             /\ closings[i].of = p
             /\ request' = [at |-> "read", proposal |-> p, previous |-> None,
                            time |-> closed[p], pending |-> FALSE,
                            tick |-> closings[i].tick, before |-> i - 1,
                            known |-> {}]
    /\ UNCHANGED <<ticks, status, closed, indexed, closings>>

EarlierOrSame(time) == {q \in indexed : closed[q] <= time}

\* The approved ones that the query finds.
Earlier(time) == {q \in indexed : closed[q] < time}

OldestFirst(q, r) == closed[q] <= closed[r]

\* ORDER BY closed DESC
Precedes(q, r) == closed[q] >= closed[r]

\* The query runs when others may have been closed.
GetLastApproved ==
    LET rows == Earlier(request.time)
    IN  /\ request.at = "read"
        /\ \E q \in Proposal \union {None} :
              /\ IF rows = {} THEN q = None
                 ELSE q \in rows /\ \A r \in rows : Precedes(q, r)
              /\ request' = [request EXCEPT !.at = "answered",
                                !.previous = q, !.known = indexed]
        /\ UNCHANGED <<ticks, status, closed, indexed, closings>>

NextRequest ==
    /\ request.at = "answered"
    /\ request' = Idle
    /\ UNCHANGED <<ticks, status, closed, indexed, closings>>

Next ==
    \/ Tick
    \/ \E p \in Proposal :
          \/ Close(p, "approved") \/ Close(p, "rejected")
          \/ Index(p) \/ GetProposal(p)
    \/ GetLastApproved
    \/ NextRequest

Spec == Init /\ [][Next]_vars

-----------------------------------------------------------------------------
\* The closings of approved ones before that of the proposal, or before it was
\* read.
Approvals ==
    {i \in 1 .. request.before : status[closings[i].of] = "approved"}

\* The previous version was approved before the proposal was closed, or read:
\* it is never the proposal itself nor one that came later.
PreviousIsEarlier ==
    request.at = "answered" /\ request.previous # None =>
        \E i \in Approvals : closings[i].of = request.previous

\* Of the approvals that the index knew, the previous version is the last but
\* for seconds: none came a second or more after it, unless that was less than
\* a second before the proposal was closed, or two before a pending one was
\* read.
PreviousToTheSecond ==
    request.at = "answered" =>
        \A k \in Approvals :
            LET tick == closings[k].tick
                margin == IF request.pending THEN PerSecond + PerSecond
                                             ELSE PerSecond
            IN  /\ closings[k].of \in request.known
                /\ tick + margin <= request.tick
                => \E i \in Approvals :
                      /\ closings[i].of = request.previous
                      /\ tick < closings[i].tick + PerSecond
=============================================================================
