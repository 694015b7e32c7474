--------------------------- MODULE ProposalCreation ---------------------------
(***************************************************************************)
(* Submitting a proposal: Proposal::commit_new_proposal and the            *)
(* compare-and-set loop it calls, Proposals::increment_counter.            *)
(*                                                                         *)
(* Every POST is a handler of its own; they run concurrently and share     *)
(* only the bucket `proposed`, which holds one counter per target          *)
(* (pcnt::<target>) and the proposals (prop::<target>::<version>).  A      *)
(* handler reads the counter, writes the next value guarded by the CAS it  *)
(* read, retries when the guard refuses, and then upserts its proposal     *)
(* under the value it wrote.  The upsert is blind: only the counter keeps  *)
(* two proposals apart.                                                    *)
(*                                                                         *)
(* A write is a message: the store takes it at some later moment, and a    *)
(* handler that stops waiting (30 s timeout, any other error, the client's *)
(* connection gone) leaves its write on the way, to be applied late or     *)
(* never.                                                                  *)
(***************************************************************************)
EXTENDS Naturals

CONSTANTS Request,    \* the POSTs; each is handled once
          Target,     \* ids of the documents proposals are made for
          TargetOf    \* the target each POST names

ASSUME TargetOfAssumption == TargetOf \in [Request -> Target]

VARIABLES pc,         \* where each handler is
          seen,       \* its CounterValue: what its last read returned
          write,      \* what became of the last write it sent
          counter,    \* the counter document of each target
          clock,      \* the store's clock, from which it draws CAS values
          proposals   \* the proposal documents, with the POST each came from

vars == <<pc, seen, write, counter, clock, proposals>>

CounterValue == [cas : Nat, value : Nat]

\* CounterValue::default(): no counter document yet.  The CAS of a document
\* that exists is never 0.
NoCounter == [cas |-> 0, value |-> 0]

Open == {"get", "increment", "upsert"}

TypeOK ==
    /\ pc \in [Request -> {"idle", "ok", "error"} \union Open]
    /\ seen \in [Request -> CounterValue]
    /\ write \in [Request -> {"none", "increment", "incremented", "exists",
                              "upsert", "upserted"}]
    /\ counter \in [Target -> CounterValue]
    /\ clock \in Nat
    /\ proposals \subseteq [target : Target, version : Nat, by : Request]

Init ==
    /\ pc = [r \in Request |-> "idle"]
    /\ seen = [r \in Request |-> NoCounter]
    /\ write = [r \in Request |-> "none"]
    /\ counter = [t \in Target |-> NoCounter]
    /\ clock = 0
    /\ proposals = {}

-----------------------------------------------------------------------------
(* The handler's side: each step ends at an await.                         *)

\* A validated proposal reaches commit_new_proposal.
Begin(r) ==
    /\ pc[r] = "idle"
    /\ pc' = [pc EXCEPT ![r] = "get"]
    /\ UNCHANGED <<seen, write, counter, clock, proposals>>

\* The counter is read; one that is missing counts as the default.  The
\* handler goes on to send the next value.
GetCounterOnlyOnce(r) ==
    /\ pc[r] = "get"
    /\ seen' = IF write[r] = "none"
               THEN [seen EXCEPT ![r] = counter[TargetOf[r]]] ELSE seen
    /\ pc' = [pc EXCEPT ![r] = "increment"]
    /\ write' = [write EXCEPT ![r] = "increment"]
    /\ UNCHANGED <<counter, clock, proposals>>

GetCounter(r) ==
    /\ pc[r] = "get"
    /\ seen' = [seen EXCEPT ![r] = counter[TargetOf[r]]]
    /\ pc' = [pc EXCEPT ![r] = "increment"]
    /\ write' = [write EXCEPT ![r] = "increment"]
    /\ UNCHANGED <<counter, clock, proposals>>

\* new_value: the version this handler asks for.
Version(r) == seen[r].value + 1

\* prop::<target>::<version>, the document this handler commits.
Entry(r) == [target |-> TargetOf[r], version |-> Version(r), by |-> r]

RetryAnyError(r) ==
    /\ pc[r] = "increment"
    /\ pc' = [pc EXCEPT ![r] = "get"]
    /\ UNCHANGED <<seen, write, counter, clock, proposals>>

\* DocumentExists from the insert or the replace: go round the loop again.
Retry(r) ==
    /\ pc[r] = "increment"
    /\ write[r] = "exists"
    /\ pc' = [pc EXCEPT ![r] = "get"]
    /\ UNCHANGED <<seen, write, counter, clock, proposals>>

\* The counter took the value: send the proposal under it.
Incremented(r) ==
    /\ pc[r] = "increment"
    /\ write[r] = "incremented"
    /\ pc' = [pc EXCEPT ![r] = "upsert"]
    /\ write' = [write EXCEPT ![r] = "upsert"]
    /\ UNCHANGED <<seen, counter, clock, proposals>>

\* The upsert's reply is the reply to the POST.
UpsertedUnconfirmed(r) ==
    /\ pc[r] = "upsert"
    /\ pc' = [pc EXCEPT ![r] = "ok"]
    /\ UNCHANGED <<seen, write, counter, clock, proposals>>

Upserted(r) ==
    /\ pc[r] = "upsert"
    /\ write[r] = "upserted"
    /\ pc' = [pc EXCEPT ![r] = "ok"]
    /\ UNCHANGED <<seen, write, counter, clock, proposals>>

\* Any other result of the call awaited, a timeout among them, ends the
\* handler.  The write it may have sent stays on its way.
Fail(r) ==
    /\ pc[r] \in Open
    /\ pc' = [pc EXCEPT ![r] = "error"]
    /\ UNCHANGED <<seen, write, counter, clock, proposals>>

-----------------------------------------------------------------------------
(* The store's side.                                                       *)

\* Whether the store takes a counter write: an insert finds no document, a
\* replace finds the CAS it carries.
AcceptsAnyReplace(r) ==
    LET doc == counter[TargetOf[r]]
    IN  IF seen[r].cas = 0 THEN doc = NoCounter ELSE doc # NoCounter

Accepts(r) ==
    LET doc == counter[TargetOf[r]]
    IN  IF seen[r].cas = 0 THEN doc = NoCounter ELSE doc.cas = seen[r].cas

StoreIncrementsStale(r) ==
    /\ write[r] = "increment"
    /\ Accepts(r)
    /\ clock' = clock + 1
    /\ counter' = [counter EXCEPT ![TargetOf[r]] =
                      [cas |-> clock', value |-> seen[r].value]]
    /\ write' = [write EXCEPT ![r] = "incremented"]
    /\ UNCHANGED <<pc, seen, proposals>>

StoreIncrements(r) ==
    /\ write[r] = "increment"
    /\ Accepts(r)
    /\ clock' = clock + 1
    /\ counter' = [counter EXCEPT ![TargetOf[r]] =
                      [cas |-> clock', value |-> Version(r)]]
    /\ write' = [write EXCEPT ![r] = "incremented"]
    /\ UNCHANGED <<pc, seen, proposals>>

StoreRefuses(r) ==
    /\ write[r] = "increment"
    /\ ~Accepts(r)
    /\ write' = [write EXCEPT ![r] = "exists"]
    /\ UNCHANGED <<pc, seen, counter, clock, proposals>>

\* The upsert puts the entry in the place of whatever has its id.
StoreUpserts(r) ==
    /\ write[r] = "upsert"
    /\ proposals' = {p \in proposals : ~(/\ p.target = TargetOf[r]
                                         /\ p.version = Version(r))}
                       \union {Entry(r)}
    /\ write' = [write EXCEPT ![r] = "upserted"]
    /\ UNCHANGED <<pc, seen, counter, clock>>

-----------------------------------------------------------------------------
Handler(r) == \/ GetCounter(r)
              \/ Retry(r)
              \/ Incremented(r)
              \/ Upserted(r)
              \/ Fail(r)

Store(r) == StoreIncrements(r) \/ StoreRefuses(r) \/ StoreUpserts(r)

\* Nothing is left to do: every POST answered, every write taken.
Done ==
    /\ \A r \in Request : /\ pc[r] \in {"ok", "error"}
                          /\ write[r] \notin {"increment", "upsert"}
    /\ UNCHANGED vars

Next == (\E r \in Request : Begin(r) \/ Handler(r) \/ Store(r)) \/ Done

Spec == Init /\ [][Next]_vars

\* Every await of the handler has a 30 s timeout, so a handler that is open
\* takes its next step.
FairSpec == Spec /\ \A r \in Request : WF_vars(Handler(r))

-----------------------------------------------------------------------------
(* Properties.                                                             *)

\* The counter holds the value this POST asked for: the version is its own.
Claimed(r) == write[r] \in {"incremented", "upsert", "upserted"}

\* No two POSTs for the same target are given the same version, however the
\* reads and guarded writes of increment_counter interleave, and also when a
\* handler has long given up on the write.
VersionsUnique ==
    \A q, r \in Request :
        /\ Claimed(q)
        /\ Claimed(r)
        /\ TargetOf[q] = TargetOf[r]
        /\ Version(q) = Version(r)
        => q = r

\* A version is greater than every version given out for the target before:
\* proposals are numbered in the order the counter took them, so one that is
\* submitted after another was answered gets the greater number.
VersionsGrow ==
    [][\A q, r \in Request :
          /\ TargetOf[q] = TargetOf[r]
          /\ Claimed(q)
          /\ ~Claimed(r)
          /\ Claimed(r)'
          => Version(q) < Version(r)']_vars

\* The blind upsert of commit_new_proposal never replaces a proposal.
NothingOverwritten == [][proposals \subseteq proposals']_vars

\* The counter is never behind a proposal that is stored: the next version
\* cannot collide with one that exists.
CounterCoversProposals ==
    \A p \in proposals : p.version <= counter[p.target].value

\* A submitter told "ok" with a version finds its own proposal there, then
\* and ever after.
AnswerIsStored ==
    \A r \in Request :
        pc[r] = "ok" => Entry(r) \in proposals

\* increment_counter goes round its loop only when another write moved the
\* counter since it was read: the loop is lock-free.
RetryMeansProgress ==
    [][\A r \in Request :
          pc[r] = "increment" /\ pc'[r] = "get"
          => counter[TargetOf[r]].value > seen[r].value]_vars

\* With finitely many POSTs every handler ends, by success or by error: the
\* compare-and-set loop does not go round for ever.
EveryPostAnswered ==
    \A r \in Request : pc[r] = "get" ~> pc[r] \in {"ok", "error"}

\* data-design.md, Ids: the fourth proposal created for a document has version
\* 4.  Then, with no POST under way, the versions of a target have no gap.
Quiet == \A r \in Request : /\ pc[r] \in {"idle", "ok", "error"}
                            /\ write[r] \notin {"increment", "upsert"}

VersionIsOrdinal ==
    Quiet => \A p \in proposals : \A v \in 1 .. p.version :
                \E q \in proposals : q.target = p.target /\ q.version = v

\* The inductive invariant behind the properties above.  A counter read is a
\* past of the counter, older in CAS and value alike or else still current;
\* a claimed version is at most the counter; and a proposal is stored exactly
\* when the upsert of the POST it came from was taken.
CounterOK ==
    \A t \in Target : /\ counter[t].cas <= clock
                      /\ counter[t].cas = 0 => counter[t] = NoCounter

SeenIsPast ==
    \A r \in Request :
        LET doc == counter[TargetOf[r]]
        IN  \/ seen[r] = doc
            \/ seen[r].cas < doc.cas /\ seen[r].value < doc.value

RefusedIsBehind ==
    \A r \in Request :
        write[r] = "exists" => seen[r].value < counter[TargetOf[r]].value

ClaimsCovered ==
    \A r \in Request : Claimed(r) => Version(r) <= counter[TargetOf[r]].value

WriteFollowsHandler ==
    \A r \in Request :
        /\ pc[r] = "idle" => write[r] = "none"
        /\ pc[r] = "get" => write[r] \in {"none", "exists"}
        /\ pc[r] = "upsert" => write[r] \in {"upsert", "upserted"}
        /\ pc[r] = "ok" => write[r] = "upserted"

StoredWhenUpserted ==
    /\ \A p \in proposals : write[p.by] = "upserted" /\ p = Entry(p.by)
    /\ \A r \in Request : write[r] = "upserted" => Entry(r) \in proposals

IInv ==
    /\ TypeOK
    /\ CounterOK
    /\ SeenIsPast
    /\ RefusedIsBehind
    /\ ClaimsCovered
    /\ WriteFollowsHandler
    /\ StoredWhenUpserted
    /\ VersionsUnique

\* Submitting implements the log of proposals.
Log == INSTANCE ProposalLog
           WITH answer <-
               [r \in Request |->
                   IF pc[r] \in {"ok", "error"} THEN pc[r] ELSE "none"]

ImplementsLog == Log!Spec
=============================================================================
