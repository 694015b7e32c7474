------------------------ MODULE ProposalCreationProofs ------------------------
(***************************************************************************)
(* Proofs about ProposalCreation, for any set of POSTs and of targets.     *)
(***************************************************************************)
EXTENDS ProposalCreation, TLAPS

USE DEF CounterValue, NoCounter, Open, Version, Claimed, Entry

\* The initial states satisfy the inductive invariant.
LEMMA InvInit == Init => IInv
BY TargetOfAssumption
   DEF Init, IInv, TypeOK, CounterOK, SeenIsPast, RefusedIsBehind,
       ClaimsCovered, WriteFollowsHandler, StoredWhenUpserted, VersionsUnique

\* Every step of the handlers and of the store preserves the inductive
\* invariant.  Only StoreIncrements can disturb what relates the counter to the
\* handlers' reads of it, and only StoreUpserts what relates the proposals to
\* the POSTs.
LEMMA InvNext == IInv /\ [Next]_vars => IInv'
<1> SUFFICES ASSUME IInv, [Next]_vars
             PROVE  IInv'
  OBVIOUS
<1> USE TargetOfAssumption
<1> USE DEF IInv
<1>1. ASSUME NEW r \in Request, Begin(r)
      PROVE  IInv'
  BY <1>1 DEF Begin, TypeOK, CounterOK, SeenIsPast, RefusedIsBehind,
              ClaimsCovered, WriteFollowsHandler, StoredWhenUpserted,
              VersionsUnique
<1>2. ASSUME NEW r \in Request, GetCounter(r)
      PROVE  IInv'
  <2>1. TypeOK'
    BY <1>2 DEF GetCounter, TypeOK
  <2>2. CounterOK' /\ SeenIsPast' /\ RefusedIsBehind'
    BY <1>2 DEF GetCounter, TypeOK, CounterOK, SeenIsPast, RefusedIsBehind
  <2>3. ~Claimed(r) /\ ~Claimed(r)'
    BY <1>2 DEF GetCounter, TypeOK, WriteFollowsHandler
  <2>4. ClaimsCovered' /\ VersionsUnique'
    BY <1>2, <2>3 DEF GetCounter, TypeOK, ClaimsCovered, VersionsUnique
  <2>5. WriteFollowsHandler'
    BY <1>2 DEF GetCounter, TypeOK, WriteFollowsHandler
  <2>6. StoredWhenUpserted'
    BY <1>2, <2>3 DEF GetCounter, TypeOK, StoredWhenUpserted
  <2> QED
    BY <2>1, <2>2, <2>4, <2>5, <2>6
<1>3. ASSUME NEW r \in Request, Retry(r) \/ Upserted(r) \/ Fail(r)
      PROVE  IInv'
  <2>1. UNCHANGED <<seen, write, counter, clock, proposals>>
    BY <1>3 DEF Retry, Upserted, Fail
  <2>2. TypeOK'
    BY <1>3, <2>1 DEF Retry, Upserted, Fail, TypeOK
  <2>3. /\ CounterOK' /\ SeenIsPast' /\ RefusedIsBehind' /\ ClaimsCovered'
        /\ StoredWhenUpserted' /\ VersionsUnique'
    BY <2>1 DEF CounterOK, SeenIsPast, RefusedIsBehind, ClaimsCovered,
                StoredWhenUpserted, VersionsUnique
  <2>4. WriteFollowsHandler'
    BY <1>3 DEF Retry, Upserted, Fail, TypeOK, WriteFollowsHandler
  <2> QED
    BY <2>2, <2>3, <2>4
<1>4. ASSUME NEW r \in Request, Incremented(r)
      PROVE  IInv'
  BY <1>4 DEF Incremented, TypeOK, CounterOK, SeenIsPast, RefusedIsBehind,
              ClaimsCovered, WriteFollowsHandler, StoredWhenUpserted,
              VersionsUnique
<1>5. ASSUME NEW r \in Request, StoreIncrements(r)
      PROVE  IInv'
  <2> DEFINE t == TargetOf[r]
  <2>1. /\ t \in Target
        /\ seen[r] = counter[t]
    BY <1>5 DEF StoreIncrements, Accepts, TypeOK, CounterOK, SeenIsPast
  <2>2. /\ counter'[t] = [cas |-> clock + 1, value |-> counter[t].value + 1]
        /\ \A u \in Target : u # t => counter'[u] = counter[u]
    BY <1>5, <2>1 DEF StoreIncrements, TypeOK
  <2>3. TypeOK'
    BY <1>5 DEF StoreIncrements, TypeOK
  <2>4. CounterOK'
    BY <1>5, <2>2 DEF StoreIncrements, TypeOK, CounterOK
  <2>5. SeenIsPast'
    BY <1>5, <2>1, <2>2 DEF StoreIncrements, TypeOK, CounterOK, SeenIsPast
  <2>6. ClaimsCovered'
    BY <1>5, <2>1, <2>2 DEF StoreIncrements, TypeOK, ClaimsCovered
  <2>7. WriteFollowsHandler'
    BY <1>5 DEF StoreIncrements, TypeOK, WriteFollowsHandler
  <2>8. StoredWhenUpserted'
    BY <1>5 DEF StoreIncrements, TypeOK, StoredWhenUpserted
  <2>9. VersionsUnique'
    BY <1>5, <2>1 DEF StoreIncrements, TypeOK, ClaimsCovered, VersionsUnique
  <2>10. RefusedIsBehind'
    BY <1>5, <2>1, <2>2 DEF StoreIncrements, TypeOK, RefusedIsBehind
  <2> QED
    BY <2>3, <2>4, <2>5, <2>6, <2>7, <2>8, <2>9, <2>10
<1>6. ASSUME NEW r \in Request, StoreRefuses(r)
      PROVE  IInv'
  <2>1. ~Claimed(r) /\ ~Claimed(r)'
    BY <1>6 DEF StoreRefuses, TypeOK
  <2>2. RefusedIsBehind'
    BY <1>6 DEF StoreRefuses, Accepts, TypeOK, CounterOK, SeenIsPast,
                RefusedIsBehind
  <2>3. TypeOK' /\ CounterOK' /\ SeenIsPast' /\ WriteFollowsHandler'
    BY <1>6 DEF StoreRefuses, TypeOK, CounterOK, SeenIsPast,
                WriteFollowsHandler
  <2>4. ClaimsCovered' /\ StoredWhenUpserted' /\ VersionsUnique'
    BY <1>6, <2>1 DEF StoreRefuses, TypeOK, ClaimsCovered, StoredWhenUpserted,
                      VersionsUnique
  <2> QED
    BY <2>2, <2>3, <2>4
<1>7. ASSUME NEW r \in Request, StoreUpserts(r)
      PROVE  IInv'
  <2>1. TypeOK'
    BY <1>7 DEF StoreUpserts, TypeOK
  <2>2. /\ CounterOK' /\ SeenIsPast' /\ RefusedIsBehind' /\ ClaimsCovered'
        /\ WriteFollowsHandler' /\ VersionsUnique'
    BY <1>7 DEF StoreUpserts, TypeOK, CounterOK, SeenIsPast, RefusedIsBehind,
                ClaimsCovered, WriteFollowsHandler, VersionsUnique
  <2>3. \A p \in proposals :
           ~(p.target = TargetOf[r] /\ p.version = Version(r))
    BY <1>7 DEF StoreUpserts, TypeOK, StoredWhenUpserted, VersionsUnique
  <2>4. proposals' = proposals \union {Entry(r)}
    BY <1>7, <2>3 DEF StoreUpserts
  <2>5. StoredWhenUpserted'
    BY <1>7, <2>4 DEF StoreUpserts, TypeOK, StoredWhenUpserted
  <2> QED
    BY <2>1, <2>2, <2>5
<1>8. CASE Done \/ UNCHANGED vars
  BY <1>8 DEF Done, vars, TypeOK, CounterOK, SeenIsPast, RefusedIsBehind,
              ClaimsCovered, WriteFollowsHandler, StoredWhenUpserted,
              VersionsUnique
<1> QED
  BY <1>1, <1>2, <1>3, <1>4, <1>5, <1>6, <1>7, <1>8 DEF Next, Handler, Store

\* In every reachable state a counter read is a past of the counter, claimed
\* versions are unique and covered by it, and the stored proposals are exactly
\* those whose upsert was taken (increment_counter, commit_new_proposal).
THEOREM Invariance == Spec => []IInv
BY InvInit, InvNext, PTL DEF Spec

\* Type correctness of the model of commit_new_proposal.
THEOREM TypeCorrect == Spec => []TypeOK
<1>1. IInv => TypeOK
  BY DEF IInv
<1> QED
  BY <1>1, Invariance, PTL

\* No two POSTs for a target are ever given the same version, for any number
\* of concurrent handlers, retries and late writes.
THEOREM Uniqueness == Spec => []VersionsUnique
<1>1. IInv => VersionsUnique
  BY DEF IInv
<1> QED
  BY <1>1, Invariance, PTL

\* The counter of a target is never behind a proposal stored for it.
THEOREM CounterCovers == Spec => []CounterCoversProposals
<1>1. IInv => CounterCoversProposals
  BY DEF IInv, TypeOK, StoredWhenUpserted, ClaimsCovered,
         CounterCoversProposals
<1> QED
  BY <1>1, Invariance, PTL

\* A POST answered "ok" is stored under its version, by itself.
THEOREM AnsweredIsStored == Spec => []AnswerIsStored
<1>1. IInv => AnswerIsStored
  BY DEF IInv, WriteFollowsHandler, StoredWhenUpserted, AnswerIsStored
<1> QED
  BY <1>1, Invariance, PTL

\* The blind upsert never replaces a proposal that is stored.
THEOREM NoOverwrite == Spec => NothingOverwritten
<1>1. IInv /\ [Next]_vars => [proposals \subseteq proposals']_vars
  <2> SUFFICES ASSUME IInv, Next
               PROVE  proposals \subseteq proposals'
    OBVIOUS
  <2>1. ASSUME NEW r \in Request, StoreUpserts(r)
        PROVE  proposals \subseteq proposals'
    <3>1. \A p \in proposals :
             ~(p.target = TargetOf[r] /\ p.version = Version(r))
      BY <2>1 DEF StoreUpserts, IInv, TypeOK, StoredWhenUpserted,
                  VersionsUnique
    <3> QED
      BY <2>1, <3>1 DEF StoreUpserts
  <2>2. ASSUME NEW r \in Request, Begin(r) \/ Handler(r) \/ StoreIncrements(r)
                                           \/ StoreRefuses(r)
        PROVE  proposals \subseteq proposals'
    BY <2>2 DEF Begin, Handler, GetCounter, Retry, Incremented, Upserted, Fail,
                StoreIncrements, StoreRefuses
  <2> QED
    BY <2>1, <2>2 DEF Next, Store, Done, vars
<1> QED
  BY <1>1, Invariance, PTL DEF Spec, NothingOverwritten

\* Versions are handed out in increasing order: the counter moves only to a
\* value above every version claimed for the target.
THEOREM Growth == Spec => VersionsGrow
<1> DEFINE Grow == \A q, r \in Request :
                      /\ TargetOf[q] = TargetOf[r]
                      /\ Claimed(q)
                      /\ ~Claimed(r)
                      /\ Claimed(r)'
                      => Version(q) < Version(r)'
<1>1. IInv /\ [Next]_vars => [Grow]_vars
  <2> SUFFICES ASSUME IInv, Next,
                      NEW q \in Request, NEW r \in Request,
                      TargetOf[q] = TargetOf[r],
                      Claimed(q), ~Claimed(r), Claimed(r)'
               PROVE  Version(q) < Version(r)'
    OBVIOUS
  <2>1. StoreIncrements(r)
    BY ZenonT(60)
       DEF Next, Handler, Store, Begin, GetCounter, Retry, Incremented,
           Upserted, Fail, StoreIncrements, StoreRefuses, StoreUpserts, Done,
           vars, IInv, TypeOK
  <2>2. /\ seen[r] = counter[TargetOf[r]]
        /\ seen' = seen
    BY <2>1, TargetOfAssumption DEF StoreIncrements, Accepts, IInv, TypeOK,
                                    SeenIsPast
  <2>3. Version(q) <= counter[TargetOf[q]].value
    BY DEF IInv, ClaimsCovered
  <2> QED
    BY <2>2, <2>3, TargetOfAssumption DEF IInv, TypeOK
<1> QED
  BY <1>1, Invariance, PTL DEF Spec, VersionsGrow

\* The compare-and-set loop goes round only when the counter has moved past the
\* value it read.
THEOREM LockFree == Spec => RetryMeansProgress
<1> DEFINE Moved == \A r \in Request :
                       pc[r] = "increment" /\ pc'[r] = "get"
                       => counter[TargetOf[r]].value > seen[r].value
<1>1. IInv /\ [Next]_vars => [Moved]_vars
  <2> SUFFICES ASSUME IInv, Next, NEW r \in Request,
                      pc[r] = "increment", pc'[r] = "get"
               PROVE  counter[TargetOf[r]].value > seen[r].value
    OBVIOUS
  <2>1. Retry(r)
    BY DEF Next, Handler, Store, Begin, GetCounter, Retry, Incremented,
           Upserted, Fail, StoreIncrements, StoreRefuses, StoreUpserts, Done,
           vars, IInv, TypeOK
  <2> QED
    BY <2>1, TargetOfAssumption
       DEF Retry, IInv, TypeOK, RefusedIsBehind
<1> QED
  BY <1>1, Invariance, PTL DEF Spec, RetryMeansProgress

\* An initial state maps to an initial state of the log of proposals.
LEMMA LogInit == Init => Log!Init
BY DEF Init, Log!Init

\* A step maps to a step of the log or to none.
LEMMA LogNext == IInv /\ [Next]_vars => [Log!Next]_(Log!vars)
<1> DEFINE told == [r \in Request |->
                       IF pc[r] \in {"ok", "error"} THEN pc[r] ELSE "none"]
<1> SUFFICES ASSUME IInv, [Next]_vars
             PROVE  Log!Next \/ UNCHANGED <<proposals, told>>
  BY DEF Log!vars
<1> USE DEF IInv, TypeOK
<1>1. ASSUME NEW r \in Request,
             Begin(r) \/ GetCounter(r) \/ Retry(r) \/ Incremented(r)
      PROVE  UNCHANGED <<proposals, told>>
  BY <1>1 DEF Begin, GetCounter, Retry, Incremented
<1>2. ASSUME NEW r \in Request, Upserted(r)
      PROVE  Log!Accept(r)
  <2>1. Entry(r) \in proposals
    BY <1>2 DEF Upserted, StoredWhenUpserted
  <2>2. told' = [told EXCEPT ![r] = "ok"] /\ told[r] = "none"
    BY <1>2 DEF Upserted
  <2> QED
    BY <1>2, <2>1, <2>2 DEF Upserted, Log!Accept
<1>3. ASSUME NEW r \in Request, Fail(r)
      PROVE  Log!Fail(r)
  <2>1. told' = [told EXCEPT ![r] = "error"] /\ told[r] = "none"
    BY <1>3 DEF Fail
  <2> QED
    BY <1>3, <2>1 DEF Fail, Log!Fail
<1>4. ASSUME NEW r \in Request, StoreIncrements(r) \/ StoreRefuses(r)
      PROVE  UNCHANGED <<proposals, told>>
  BY <1>4 DEF StoreIncrements, StoreRefuses
<1>5. ASSUME NEW r \in Request, StoreUpserts(r)
      PROVE  Log!Enter(r)
  <2>1. \A p \in proposals :
           ~(p.target = Entry(r).target /\ p.version = Entry(r).version)
    BY <1>5 DEF StoreUpserts, StoredWhenUpserted, VersionsUnique
  <2>2. proposals' = proposals \union {Entry(r)}
    BY <1>5, <2>1 DEF StoreUpserts
  <2>3. \A p \in proposals : p.by # r
    BY <1>5 DEF StoreUpserts, StoredWhenUpserted
  <2>4. Entry(r).version \in Nat \ {0} /\ Entry(r) \in proposals'
    BY <2>2
  <2>5. told' = told
    BY <1>5 DEF StoreUpserts
  <2> QED
    BY <2>1, <2>2, <2>3, <2>4, <2>5 DEF Log!Enter
<1>6. CASE Done \/ UNCHANGED vars
  BY <1>6 DEF Done, vars
<1> QED
  BY <1>1, <1>2, <1>3, <1>4, <1>5, <1>6 DEF Next, Handler, Store, Log!Next

\* commit_new_proposal implements the log: each POST enters it at most once,
\* under a version of its own, and is told so only when it is there.
THEOREM Refinement == Spec => ImplementsLog
BY Invariance, LogInit, LogNext, PTL DEF Spec, ImplementsLog, Log!Spec
=============================================================================
