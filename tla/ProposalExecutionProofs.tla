------------------------ MODULE ProposalExecutionProofs ------------------------
(* Proofs about ProposalExecution for every number of proposals, callers, keys,  *)
(* budgets and approvers. Types come first; FenceInvariant is then shown         *)
(* inductive, one step per action, and the safety theorems follow from it.       *)
EXTENDS ProposalExecution, TLAPS

USE DEF vars, storeVars, proposalVars, voteVars, claimVars, reviewVars, ledgerVars, callVars,
        localVars, historyVars

\* The empty store, the idle service and an untouched ledger are typed.
LEMMA TypeInit == Init => TypeOK
BY ConstantsAssumption DEF Init, TypeOK, ProposalStates, Statuses, Outcomes, ReviewStates, Pcs, MaybeCategory

\* The connector's synchronize() leaves server, replica and unpushed writes typed.
LEMMA TypeSync ==
    ASSUME TypeOK, NEW b \in Budgets, SyncLedger(b)
    PROVE  /\ server' \in [Txs -> MaybeCategory]
           /\ replica' \in [Txs -> MaybeCategory]
           /\ pending' \in [Txs -> Proposals \cup {None}]
           /\ landed' \in SUBSET Proposals
BY ConstantsAssumption DEF TypeOK, SyncLedger, Merged, MaybeCategory

\* A running call works on a proposal of some budget.
LEMMA RunningCall ==
    ASSUME TypeOK, NEW c \in Calls, pc[c] # "idle"
    PROVE  job[c] \in Proposals /\ ckey[c] \in Keys /\ BudgetOfP(job[c]) \in Budgets
BY ConstantsAssumption DEF TypeOK, BudgetOfP

\* Stepping to a running program counter, or returning, keeps the calls typed.
LEMMA TypeGoto ==
    ASSUME TypeOK, NEW c \in Calls, pc[c] # "idle", NEW l \in Pcs, Goto(c, l), UNCHANGED <<job, ckey>>
    PROVE  /\ pc' \in [Calls -> Pcs]
           /\ \A d \in Calls : pc'[d] # "idle" => job'[d] \in Proposals /\ ckey'[d] \in Keys
BY RunningCall DEF TypeOK, Goto

\* Returning from execute() clears the call's locals to typed values.
LEMMA TypeReturn ==
    ASSUME TypeOK, NEW c \in Calls, Return(c)
    PROVE  /\ pc' \in [Calls -> Pcs]
           /\ job' \in [Calls -> Proposals \cup {None}]
           /\ ckey' \in [Calls -> Keys \cup {None}]
           /\ started' \in [Calls -> BOOLEAN]
           /\ good' \in [Calls -> BOOLEAN]
           /\ \A d \in Calls : pc'[d] # "idle" => job'[d] \in Proposals /\ ckey'[d] \in Keys
BY DEF TypeOK, Return, Pcs

\* completeIdempotencyRecord writes a status of the record's enumeration.
LEMMA TypeComplete ==
    ASSUME TypeOK, NEW p \in Proposals, NEW s \in Statuses, CompleteRecord(p, s)
    PROVE  status' \in [Proposals -> Statuses] /\ completed' \in [Proposals -> BOOLEAN]
BY ZenonT(60) DEF TypeOK, CompleteRecord

\* Every operation of the store, the service and the connector keeps the types.
LEMMA TypeStep == TypeOK /\ [Next]_vars => TypeOK'
<1> SUFFICES ASSUME TypeOK, [Next]_vars PROVE TypeOK'
  OBVIOUS
<1> USE ConstantsAssumption DEF TypeOK
<1>1. CASE UNCHANGED vars
  BY <1>1
<1>2. ASSUME NEW p \in Proposals, createProposal(p) PROVE TypeOK'
  BY <1>2 DEF createProposal, ProposalStates, MaybeCategory
<1>3. ASSUME NEW p \in Proposals, NEW a \in Approvers, createApproval(p, a) PROVE TypeOK'
  BY <1>3 DEF createApproval
<1>4. ASSUME NEW p \in Proposals, NEW a \in Approvers, LapseApproval(p, a) PROVE TypeOK'
  BY <1>4, SMTT(30) DEF LapseApproval
<1>5. ASSUME NEW p \in Proposals, LapseProposal(p) PROVE TypeOK'
  BY <1>5, SMTT(30) DEF LapseProposal, ProposalStates
<1>6. ASSUME NEW p \in Proposals, supersedeProposal(p) PROVE TypeOK'
  BY <1>6 DEF supersedeProposal, MarkSuperseded, ProposalStates
<1>7. ASSUME NEW p \in Proposals, discardProposal(p) PROVE TypeOK'
  BY <1>7 DEF discardProposal, MarkSuperseded, ProposalStates
<1>8. ASSUME NEW r \in Reviews, TouchReview(r) PROVE TypeOK'
  BY <1>8 DEF TouchReview, ReviewMoves, ReviewStates
<1>9. ASSUME NEW p \in Proposals, ExpireLease(p) PROVE TypeOK'
  BY <1>9 DEF ExpireLease
<1>10. ASSUME reconcileStrandedIdempotencyRecords PROVE TypeOK'
  BY <1>10 DEF reconcileStrandedIdempotencyRecords, Statuses
<1>11. ASSUME NEW t \in Txs, NEW x \in MaybeCategory, ExternalEdit(t, x) PROVE TypeOK'
  BY <1>11 DEF ExternalEdit
<1>12. ASSUME NEW b \in Budgets, synchronize(b) PROVE TypeOK'
  BY <1>12, TypeSync DEF synchronize
<1>13. ASSUME Crash PROVE TypeOK'
  BY <1>13 DEF Crash, Pcs
<1>14. ASSUME NEW c \in Calls, NEW p \in Proposals, NEW k \in Keys, Begin(c, p, k) PROVE TypeOK'
  BY <1>14 DEF Begin, Goto, Pcs
<1>15. ASSUME NEW c \in Calls, acquireProposalExecution(c) PROVE TypeOK'
  BY <1>15 DEF acquireProposalExecution, Goto, Pcs, Owning, PreDispatch, Statuses
<1>16. ASSUME NEW c \in Calls, ReplayOrRefuse(c) PROVE TypeOK'
  <2>1. pc[c] # "idle"
    BY <1>16 DEF ReplayOrRefuse
  <2>2. CASE Goto(c, "replay_review") /\ UNCHANGED <<job, ckey, started, good>>
    BY <1>16, <2>1, <2>2, TypeGoto DEF ReplayOrRefuse, Pcs
  <2>3. CASE Return(c)
    BY <1>16, <2>3, TypeReturn DEF ReplayOrRefuse
  <2> QED
    BY <1>16, <2>2, <2>3 DEF ReplayOrRefuse
<1>17. ASSUME NEW c \in Calls, SyncAndPlan(c) PROVE TypeOK'
  <2>1. pc[c] # "idle" /\ job[c] \in Proposals /\ BudgetOfP(job[c]) \in Budgets
    BY <1>17, RunningCall DEF SyncAndPlan
  <2>2. \E l \in {"check", "fail_record"} : Goto(c, l)
    BY <1>17 DEF SyncAndPlan
  <2>3. /\ pc' \in [Calls -> Pcs]
        /\ \A d \in Calls : pc'[d] # "idle" => job'[d] \in Proposals /\ ckey'[d] \in Keys
    BY <1>17, <2>1, <2>2, TypeGoto DEF SyncAndPlan, Pcs, Owning, PreDispatch, FailPath
  <2> QED
    BY <1>17, <2>1, <2>3, TypeSync DEF SyncAndPlan
<1>18. ASSUME NEW c \in Calls, CheckCategory(c) PROVE TypeOK'
  <2>1. pc[c] # "idle" /\ job[c] \in Proposals /\ BudgetOfP(job[c]) \in Budgets
    BY <1>18, RunningCall DEF CheckCategory
  <2>2. \E l \in {"dispatch", "fail_record"} : Goto(c, l)
    BY <1>18 DEF CheckCategory
  <2>3. /\ pc' \in [Calls -> Pcs]
        /\ \A d \in Calls : pc'[d] # "idle" => job'[d] \in Proposals /\ ckey'[d] \in Keys
    BY <1>18, <2>1, <2>2, TypeGoto DEF CheckCategory, Pcs, Owning, PreDispatch, FailPath
  <2>4. lock' \in [Budgets -> Calls \cup {None}]
    BY <1>18, <2>1 DEF CheckCategory
  <2>5. (replica[TxOf[job[c]]] = expected[job[c]]) \in BOOLEAN
    OBVIOUS
  <2>6. good' \in [Calls -> BOOLEAN]
    BY <1>18, <2>5, ZenonT(40) DEF CheckCategory
  <2> QED
    BY <1>18, <2>3, <2>4, <2>6 DEF CheckCategory
<1>19. ASSUME NEW c \in Calls, Dispatch(c) PROVE TypeOK'
  <2>1. pc[c] # "idle" /\ job[c] \in Proposals /\ BudgetOfP(job[c]) \in Budgets
    BY <1>19, RunningCall DEF Dispatch
  <2>2. \E l \in {"push", "fail_record"} : Goto(c, l)
    BY <1>19 DEF Dispatch
  <2>3. /\ pc' \in [Calls -> Pcs]
        /\ \A d \in Calls : pc'[d] # "idle" => job'[d] \in Proposals /\ ckey'[d] \in Keys
    BY <1>19, <2>1, <2>2, TypeGoto DEF Dispatch, Pcs, Owning, PostDispatch, FailPath
  <2>4. lock' \in [Budgets -> Calls \cup {None}]
    BY <1>19 DEF Dispatch, FreeLock
  <2>5. /\ replica' \in [Txs -> MaybeCategory]
        /\ pending' \in [Txs -> Proposals \cup {None}]
        /\ dispatches' \in [Proposals -> Nat]
        /\ overwrote' \in [Proposals -> MaybeCategory]
    BY <1>19, <2>1, SMTT(30) DEF Dispatch, MaybeCategory
  <2> QED
    BY <1>19, <2>3, <2>4, <2>5 DEF Dispatch
<1>20. ASSUME NEW c \in Calls, DispatchRefused(c) PROVE TypeOK'
  <2>1. pc[c] # "idle" /\ job[c] \in Proposals /\ BudgetOfP(job[c]) \in Budgets
    BY <1>20, RunningCall DEF DispatchRefused
  <2>2. /\ pc' \in [Calls -> Pcs]
        /\ \A d \in Calls : pc'[d] # "idle" => job'[d] \in Proposals /\ ckey'[d] \in Keys
    BY <1>20, <2>1, TypeGoto DEF DispatchRefused, Pcs, Owning, FailPath
  <2> QED
    BY <1>20, <2>2 DEF DispatchRefused, FreeLock
<1>21. ASSUME NEW c \in Calls, Push(c) PROVE TypeOK'
  <2>1. pc[c] # "idle" /\ job[c] \in Proposals /\ BudgetOfP(job[c]) \in Budgets
    BY <1>21, RunningCall DEF Push
  <2>2. \E l \in {"reread", "fail_record"} : Goto(c, l)
    BY <1>21 DEF Push
  <2>3. /\ pc' \in [Calls -> Pcs]
        /\ \A d \in Calls : pc'[d] # "idle" => job'[d] \in Proposals /\ ckey'[d] \in Keys
    BY <1>21, <2>1, <2>2, TypeGoto DEF Push, Pcs, Owning, PostDispatch, FailPath
  <2> QED
    BY <1>21, <2>1, <2>3, TypeSync DEF Push, FreeLock
<1>22. ASSUME NEW c \in Calls, Reread(c) PROVE TypeOK'
  <2>1. pc[c] # "idle" /\ job[c] \in Proposals /\ BudgetOfP(job[c]) \in Budgets
    BY <1>22, RunningCall DEF Reread
  <2>2. \E l \in {"complete", "fail_record"} : Goto(c, l)
    BY <1>22 DEF Reread
  <2>3. /\ pc' \in [Calls -> Pcs]
        /\ \A d \in Calls : pc'[d] # "idle" => job'[d] \in Proposals /\ ckey'[d] \in Keys
    BY <1>22, <2>1, <2>2, TypeGoto DEF Reread, Pcs, Owning, PostDispatch, FailPath
  <2>4. Verified(c) \in BOOLEAN
    BY DEF Verified
  <2>5. good' \in [Calls -> BOOLEAN]
    BY <1>22, <2>4 DEF Reread
  <2> QED
    BY <1>22, <2>1, <2>3, <2>5, TypeSync DEF Reread
<1>23. ASSUME NEW c \in Calls, CompleteResult(c) PROVE TypeOK'
  <2>1. pc[c] # "idle" /\ job[c] \in Proposals /\ BudgetOfP(job[c]) \in Budgets
    BY <1>23, RunningCall DEF CompleteResult
  <2>2. \E l \in {"review", "audit"} : Goto(c, l)
    BY <1>23 DEF CompleteResult
  <2>3. /\ pc' \in [Calls -> Pcs]
        /\ \A d \in Calls : pc'[d] # "idle" => job'[d] \in Proposals /\ ckey'[d] \in Keys
    BY <1>23, <2>1, <2>2, TypeGoto DEF CompleteResult, Pcs, Owning, PostDispatch
  <2>4. status' \in [Proposals -> Statuses] /\ completed' \in [Proposals -> BOOLEAN]
    BY <1>23, <2>1, TypeComplete DEF CompleteResult, Statuses
  <2>5. good' \in [Calls -> BOOLEAN]
    BY <1>23 DEF CompleteResult
  <2> QED
    BY <1>23, <2>3, <2>4, <2>5 DEF CompleteResult
<1>24. ASSUME NEW c \in Calls, completeVerifiedCategorizationReview(c) PROVE TypeOK'
  <2>1. pc[c] # "idle" /\ job[c] \in Proposals
    BY <1>24, RunningCall DEF completeVerifiedCategorizationReview
  <2>2. PICK ok \in BOOLEAN : AfterReview(c, ok)
    BY <1>24 DEF completeVerifiedCategorizationReview
  <2>3. /\ pc' \in [Calls -> Pcs]
        /\ job' \in [Calls -> Proposals \cup {None}]
        /\ ckey' \in [Calls -> Keys \cup {None}]
        /\ started' \in [Calls -> BOOLEAN]
        /\ good' \in [Calls -> BOOLEAN]
        /\ \A d \in Calls : pc'[d] # "idle" => job'[d] \in Proposals /\ ckey'[d] \in Keys
    <3>1. CASE Return(c)
      BY <3>1, TypeReturn
    <3>2. CASE Goto(c, "audit") /\ good' = [good EXCEPT ![c] = ok] /\ UNCHANGED <<job, ckey, started>>
      BY <2>1, <3>2, TypeGoto DEF Pcs, Owning, PostDispatch
    <3> QED
      BY <2>2, <3>1, <3>2 DEF AfterReview
  <2>4. /\ rstate' \in [Reviews -> ReviewStates]
        /\ rversion' \in [Reviews -> Nat]
        /\ corrected' \in SUBSET Proposals
    <3>1. CASE UNCHANGED <<rstate, rversion, corrected>>
      BY <3>1
    <3>2. CASE /\ rstate' = [rstate EXCEPT ![ReviewOf[job[c]]] = "applied"]
               /\ rversion' = [rversion EXCEPT ![ReviewOf[job[c]]] = @ + 1]
               /\ corrected' = corrected \cup {job[c]}
      <4> DEFINE r == ReviewOf[job[c]]
      <4>1. rstate' \in [Reviews -> ReviewStates]
        BY <3>2 DEF ReviewStates
      <4>2. rversion' \in [Reviews -> Nat]
        <5>1. CASE r \in Reviews
          BY <3>2, <5>1
        <5>2. CASE r \notin Reviews
          <6> HIDE DEF r
          <6>1. rversion' = [rversion EXCEPT ![r] = rversion[r] + 1]
            BY <3>2 DEF r
          <6>2. rversion' = rversion
            BY <5>2, <6>1
          <6> QED
            BY <6>2
        <5> QED
          BY <5>1, <5>2
      <4> QED
        BY <2>1, <3>2, <4>1, <4>2
    <3> QED
      BY <1>24, <3>1, <3>2 DEF completeVerifiedCategorizationReview, ApplyReview
  <2> QED
    BY <1>24, <2>3, <2>4 DEF completeVerifiedCategorizationReview
<1>25. ASSUME NEW c \in Calls, AppendAudit(c) PROVE TypeOK'
  BY <1>25 DEF AppendAudit, Return, Pcs, Outcomes
<1>26. ASSUME NEW c \in Calls, RecordFailure(c) PROVE TypeOK'
  <2>1. pc[c] # "idle" /\ job[c] \in Proposals /\ BudgetOfP(job[c]) \in Budgets
    BY <1>26, RunningCall DEF RecordFailure
  <2>3. /\ pc' \in [Calls -> Pcs]
        /\ \A d \in Calls : pc'[d] # "idle" => job'[d] \in Proposals /\ ckey'[d] \in Keys
    BY <1>26, <2>1, TypeGoto DEF RecordFailure, Pcs, Owning, FailPath
  <2>4. status' \in [Proposals -> Statuses] /\ completed' \in [Proposals -> BOOLEAN]
    BY <1>26, <2>1, TypeComplete DEF RecordFailure, Statuses
  <2> QED
    BY <1>26, <2>3, <2>4 DEF RecordFailure
<1>27. ASSUME NEW c \in Calls, AppendFailureAudit(c) PROVE TypeOK'
  BY <1>27 DEF AppendFailureAudit, FailureOutcome, Return, Pcs, Outcomes
<1> QED
  BY <1>1, <1>2, <1>3, <1>4, <1>5, <1>6, <1>7, <1>8, <1>9, <1>10, <1>11, <1>12, <1>13, <1>14,
     <1>15, <1>16, <1>17, <1>18, <1>19, <1>20, <1>21, <1>22, <1>23, <1>24, <1>25, <1>26, <1>27
     DEF Next, Work, Disruption, Call, Step

\* A call that owns an execution keeps owning it from one await to the next.
LEMMA OwnerMoves ==
    ASSUME TypeOK, OwnerKnowsDispatch, NEW c \in Calls, pc[c] \in Owning, NEW l \in Owning,
           Goto(c, l), l \in PreDispatch => pc[c] \in PreDispatch,
           l \in PostDispatch => pc[c] \in PostDispatch,
           UNCHANGED <<job, ckey, started, keyOf, outcome, dispatches>>
    PROVE  OwnerKnowsDispatch'
BY DEF TypeOK, OwnerKnowsDispatch, Goto, Owning, PreDispatch, PostDispatch, FailPath

\* A call that returns owns nothing; it may close the execution it owned.
LEMMA OwnerReturns ==
    ASSUME TypeOK, OwnerKnowsDispatch, NEW c \in Calls, Return(c),
           UNCHANGED <<keyOf, dispatches>>,
           \A p \in Proposals : outcome'[p] # outcome[p] => pc[c] \in Owning /\ p = job[c]
    PROVE  OwnerKnowsDispatch'
<1>1. /\ pc'[c] = "idle" /\ ~started'[c]
      /\ \A d \in Calls \ {c} : /\ pc'[d] = pc[d] /\ job'[d] = job[d]
                                /\ ckey'[d] = ckey[d] /\ started'[d] = started[d]
  BY DEF TypeOK, Return
<1>2. ASSUME NEW d \in Calls \ {c}, pc[d] \in Owning PROVE outcome'[job[d]] = outcome[job[d]]
  BY <1>2 DEF TypeOK, OwnerKnowsDispatch, Owning, PreDispatch, PostDispatch, FailPath
<1> QED
  BY <1>1, <1>2 DEF TypeOK, OwnerKnowsDispatch, Owning, PreDispatch, PostDispatch, FailPath

\* Completing an acquired record never makes it a holder it was not.
LEMMA CompleteKeeps ==
    ASSUME TypeOK, ClaimMatchesAcquisition, OneHolder, NEW p \in Proposals, keyOf[p] # None,
           NEW s \in {"succeeded", "terminal_failed"}, CompleteRecord(p, s),
           UNCHANGED <<keyOf, outcome, dispatches>>
    PROVE  ClaimMatchesAcquisition' /\ OneHolder'
<1>1. \A q \in Proposals : Holds(q)' => Holds(q)
  BY DEF TypeOK, Holds, CompleteRecord, Statuses
<1>2. ClaimMatchesAcquisition'
  BY DEF TypeOK, ClaimMatchesAcquisition, CompleteRecord
<1> QED
  BY <1>1, <1>2 DEF OneHolder

\* An empty store has no claim, no write and no holder of a budget.
LEMMA FenceInit == Init => FenceInvariant
BY DEF Init, FenceInvariant, ClaimMatchesAcquisition, OwnerKnowsDispatch, ReleaseMeansNoDispatch,
       OneHolder, DiscardedIsClosed, AtMostOneDispatch, Holds, Owning, PreDispatch, PostDispatch, FailPath

\* No operation, crash or lapse breaks the invariant of the budget write fence.
LEMMA FenceStep == TypeOK /\ FenceInvariant /\ [Next]_vars => FenceInvariant'
<1> SUFFICES ASSUME TypeOK, FenceInvariant, [Next]_vars PROVE FenceInvariant'
  OBVIOUS
<1> USE ConstantsAssumption DEF TypeOK, FenceInvariant
<1>1. CASE UNCHANGED vars
  BY <1>1 DEF ClaimMatchesAcquisition, OwnerKnowsDispatch,
     ReleaseMeansNoDispatch, OneHolder, DiscardedIsClosed, AtMostOneDispatch, Holds, Owning, PreDispatch,
     PostDispatch, FailPath
<1>2. ASSUME NEW p \in Proposals, createProposal(p) PROVE FenceInvariant'
  BY <1>2 DEF createProposal, ClaimMatchesAcquisition, OwnerKnowsDispatch,
     ReleaseMeansNoDispatch, OneHolder, DiscardedIsClosed, AtMostOneDispatch, Holds, Owning, PreDispatch,
     PostDispatch, FailPath
<1>3. ASSUME NEW p \in Proposals, NEW a \in Approvers, createApproval(p, a) PROVE FenceInvariant'
  BY <1>3 DEF createApproval, ClaimMatchesAcquisition, OwnerKnowsDispatch,
     ReleaseMeansNoDispatch, OneHolder, DiscardedIsClosed, AtMostOneDispatch, Holds, Owning, PreDispatch,
     PostDispatch, FailPath
<1>4. ASSUME NEW p \in Proposals, NEW a \in Approvers, LapseApproval(p, a) PROVE FenceInvariant'
  BY <1>4 DEF LapseApproval, ClaimMatchesAcquisition, OwnerKnowsDispatch,
     ReleaseMeansNoDispatch, OneHolder, DiscardedIsClosed, AtMostOneDispatch, Holds, Owning, PreDispatch,
     PostDispatch, FailPath
<1>5. ASSUME NEW p \in Proposals, LapseProposal(p) PROVE FenceInvariant'
  <2>1. \A q \in Proposals : pstate[q] \in {"closed", "revoked"} => pstate'[q] \in {"closed", "revoked"}
    BY <1>5 DEF LapseProposal
  <2>2. UNCHANGED <<keyOf, status, outcome, dispatches, discarded, pc, job, ckey, started>>
    BY <1>5 DEF LapseProposal
  <2> QED
    BY <2>1, <2>2 DEF ClaimMatchesAcquisition, OwnerKnowsDispatch,
     ReleaseMeansNoDispatch, OneHolder, DiscardedIsClosed, AtMostOneDispatch, Holds, Owning, PreDispatch,
     PostDispatch, FailPath
<1>6. ASSUME NEW p \in Proposals, supersedeProposal(p) PROVE FenceInvariant'
  BY <1>6 DEF supersedeProposal, MarkSuperseded, ClaimMatchesAcquisition, OwnerKnowsDispatch,
     ReleaseMeansNoDispatch, OneHolder, DiscardedIsClosed, AtMostOneDispatch, Holds, Owning, PreDispatch,
     PostDispatch, FailPath
<1>7. ASSUME NEW p \in Proposals, discardProposal(p) PROVE FenceInvariant'
  BY <1>7 DEF discardProposal, Discardable, MarkSuperseded, ClaimMatchesAcquisition, OwnerKnowsDispatch,
     ReleaseMeansNoDispatch, OneHolder, DiscardedIsClosed, AtMostOneDispatch, Holds, Owning, PreDispatch,
     PostDispatch, FailPath
<1>8. ASSUME NEW r \in Reviews, TouchReview(r) PROVE FenceInvariant'
  BY <1>8 DEF TouchReview, ClaimMatchesAcquisition, OwnerKnowsDispatch,
     ReleaseMeansNoDispatch, OneHolder, DiscardedIsClosed, AtMostOneDispatch, Holds, Owning, PreDispatch,
     PostDispatch, FailPath
<1>9. ASSUME NEW p \in Proposals, ExpireLease(p) PROVE FenceInvariant'
  BY <1>9 DEF ExpireLease, ClaimMatchesAcquisition, OwnerKnowsDispatch,
     ReleaseMeansNoDispatch, OneHolder, DiscardedIsClosed, AtMostOneDispatch, Holds, Owning, PreDispatch,
     PostDispatch, FailPath
<1>10. ASSUME reconcileStrandedIdempotencyRecords PROVE FenceInvariant'
  BY <1>10 DEF reconcileStrandedIdempotencyRecords, Stranded, ClaimMatchesAcquisition, OwnerKnowsDispatch,
     ReleaseMeansNoDispatch, OneHolder, DiscardedIsClosed, AtMostOneDispatch, Holds, Owning, PreDispatch,
     PostDispatch, FailPath
<1>11. ASSUME NEW t \in Txs, NEW x \in MaybeCategory, ExternalEdit(t, x) PROVE FenceInvariant'
  BY <1>11 DEF ExternalEdit, ClaimMatchesAcquisition, OwnerKnowsDispatch,
     ReleaseMeansNoDispatch, OneHolder, DiscardedIsClosed, AtMostOneDispatch, Holds, Owning, PreDispatch,
     PostDispatch, FailPath
<1>12. ASSUME NEW b \in Budgets, synchronize(b) PROVE FenceInvariant'
  BY <1>12 DEF synchronize, ClaimMatchesAcquisition, OwnerKnowsDispatch,
     ReleaseMeansNoDispatch, OneHolder, DiscardedIsClosed, AtMostOneDispatch, Holds, Owning, PreDispatch,
     PostDispatch, FailPath
<1>13. ASSUME Crash PROVE FenceInvariant'
  BY <1>13 DEF Crash, ClaimMatchesAcquisition, OwnerKnowsDispatch,
     ReleaseMeansNoDispatch, OneHolder, DiscardedIsClosed, AtMostOneDispatch, Holds, Owning, PreDispatch,
     PostDispatch, FailPath
<1>14. ASSUME NEW c \in Calls, NEW p \in Proposals, NEW k \in Keys, Begin(c, p, k) PROVE FenceInvariant'
  BY <1>14 DEF Begin, Goto, ClaimMatchesAcquisition, OwnerKnowsDispatch,
     ReleaseMeansNoDispatch, OneHolder, DiscardedIsClosed, AtMostOneDispatch, Holds, Owning, PreDispatch,
     PostDispatch, FailPath
<1>15. ASSUME NEW c \in Calls, acquireProposalExecution(c) PROVE FenceInvariant'
  <2> DEFINE p == job[c]
  <2>1. p \in Proposals /\ ckey[c] \in Keys /\ ckey[c] # None
    BY <1>15, RunningCall DEF acquireProposalExecution
  <2>2. /\ keyOf[p] = None /\ pstate[p] = "open"
        /\ \A q \in Proposals \ {p} : BudgetOfP(q) = BudgetOfP(p) => ~Holds(q)
    BY <1>15, <2>1 DEF acquireProposalExecution, Acquirable, Admitted, CompletedReplay, FenceFree
  <2>3. /\ keyOf' = [keyOf EXCEPT ![p] = ckey[c]]
        /\ status' = [status EXCEPT ![p] = "in_progress"]
        /\ pc' = [pc EXCEPT ![c] = "sync"]
        /\ UNCHANGED <<pstate, outcome, dispatches, discarded, job, ckey, started>>
    BY <1>15 DEF acquireProposalExecution, Goto
  <2>4. \A d \in Calls : pc[d] \in Owning => job[d] # p
    BY <2>1, <2>2, RunningCall DEF OwnerKnowsDispatch, Owning, PreDispatch, PostDispatch, FailPath
  <2>5. p \notin discarded
    BY <2>2 DEF DiscardedIsClosed
  <2>6. ClaimMatchesAcquisition' /\ ReleaseMeansNoDispatch' /\ DiscardedIsClosed' /\ AtMostOneDispatch'
    BY <2>1, <2>2, <2>3, <2>5 DEF ClaimMatchesAcquisition, ReleaseMeansNoDispatch, DiscardedIsClosed,
       AtMostOneDispatch
  <2>7. OwnerKnowsDispatch'
    <3>1. pc[c] = "acquire" /\ ~started[c] /\ outcome[p] = "none" /\ dispatches[p] = 0
      BY <1>15, <2>1, <2>2 DEF acquireProposalExecution, OwnerKnowsDispatch, ClaimMatchesAcquisition,
         PostDispatch, FailPath
    <3>2. \A d \in Calls \ {c} : pc'[d] = pc[d] /\ (pc[d] \in Owning => keyOf'[job[d]] = keyOf[job[d]])
      BY <2>1, <2>3, <2>4
    <3>3. pc'[c] = "sync" /\ keyOf'[p] = ckey[c]
      BY <2>1, <2>3
    <3> QED
      BY <2>1, <2>3, <2>4, <3>1, <3>2, <3>3 DEF OwnerKnowsDispatch, Owning, PreDispatch, PostDispatch, FailPath
  <2>8. OneHolder'
    BY <2>1, <2>2, <2>3 DEF OneHolder, Holds
  <2> QED
    BY <2>6, <2>7, <2>8
<1>16. ASSUME NEW c \in Calls, ReplayOrRefuse(c) PROVE FenceInvariant'
  <2>1. CASE Return(c)
    BY <1>16, <2>1, OwnerReturns DEF ReplayOrRefuse, ClaimMatchesAcquisition, ReleaseMeansNoDispatch, OneHolder, DiscardedIsClosed, AtMostOneDispatch, Holds
  <2>2. CASE Goto(c, "replay_review") /\ UNCHANGED <<job, ckey, started, good>>
    BY <1>16, <2>2 DEF ReplayOrRefuse, Goto, ClaimMatchesAcquisition, ReleaseMeansNoDispatch, OneHolder, DiscardedIsClosed, AtMostOneDispatch, Holds, OwnerKnowsDispatch, Owning, PreDispatch,
                       PostDispatch, FailPath
  <2> QED
    BY <1>16, <2>1, <2>2 DEF ReplayOrRefuse
<1>17. ASSUME NEW c \in Calls, SyncAndPlan(c) PROVE FenceInvariant'
  <2>1. \E l \in {"check", "fail_record"} : Goto(c, l)
    BY <1>17 DEF SyncAndPlan
  <2>2. OwnerKnowsDispatch'
    BY <1>17, <2>1, OwnerMoves DEF SyncAndPlan, Owning, PreDispatch, PostDispatch, FailPath
  <2> QED
    BY <1>17, <2>2 DEF SyncAndPlan, ClaimMatchesAcquisition, ReleaseMeansNoDispatch, OneHolder, DiscardedIsClosed, AtMostOneDispatch, Holds
<1>18. ASSUME NEW c \in Calls, CheckCategory(c) PROVE FenceInvariant'
  <2>1. \E l \in {"dispatch", "fail_record"} : Goto(c, l)
    BY <1>18 DEF CheckCategory
  <2>2. OwnerKnowsDispatch'
    BY <1>18, <2>1, OwnerMoves DEF CheckCategory, Owning, PreDispatch, PostDispatch, FailPath
  <2> QED
    BY <1>18, <2>2 DEF CheckCategory, ClaimMatchesAcquisition, ReleaseMeansNoDispatch, OneHolder, DiscardedIsClosed, AtMostOneDispatch, Holds
<1>19. ASSUME NEW c \in Calls, Dispatch(c) PROVE FenceInvariant'
  <2> DEFINE p == job[c]
  <2>0. pc[c] = "dispatch" /\ p \in Proposals /\ ckey[c] \in Keys
    BY <1>19, RunningCall DEF Dispatch
  <2>1. keyOf[p] # None /\ ~started[c] /\ dispatches[p] = 0
    BY <2>0 DEF OwnerKnowsDispatch, Owning, PreDispatch, PostDispatch, FailPath
  <2>2. /\ dispatches' = [dispatches EXCEPT ![p] = 1]
        /\ started' = [started EXCEPT ![c] = TRUE]
        /\ UNCHANGED <<pstate, keyOf, status, outcome, discarded, job, ckey>>
    BY <1>19, <2>0, <2>1 DEF Dispatch
  <2>3. PICK l \in {"push", "fail_record"} : pc' = [pc EXCEPT ![c] = l]
    BY <1>19 DEF Dispatch, Goto
  <2>4. OwnerKnowsDispatch'
    BY <2>0, <2>1, <2>2, <2>3 DEF OwnerKnowsDispatch, Owning, PreDispatch, PostDispatch, FailPath
  <2>5. outcome[p] # "no_dispatch"
    BY <2>0, <2>1 DEF OwnerKnowsDispatch, Owning, PreDispatch
  <2>6. p \notin discarded
    BY <2>1 DEF DiscardedIsClosed
  <2> QED
    BY <2>1, <2>2, <2>4, <2>5, <2>6 DEF ClaimMatchesAcquisition, ReleaseMeansNoDispatch, OneHolder, DiscardedIsClosed, AtMostOneDispatch, Holds
<1>20. ASSUME NEW c \in Calls, DispatchRefused(c) PROVE FenceInvariant'
  <2>1. \E l \in {"fail_record"} : Goto(c, l)
    BY <1>20 DEF DispatchRefused
  <2>2. OwnerKnowsDispatch'
    BY <1>20, <2>1, OwnerMoves DEF DispatchRefused, Owning, PreDispatch, PostDispatch, FailPath
  <2> QED
    BY <1>20, <2>2 DEF DispatchRefused, ClaimMatchesAcquisition, ReleaseMeansNoDispatch, OneHolder, DiscardedIsClosed, AtMostOneDispatch, Holds
<1>21. ASSUME NEW c \in Calls, Push(c) PROVE FenceInvariant'
  <2>1. \E l \in {"reread", "fail_record"} : Goto(c, l)
    BY <1>21 DEF Push
  <2>2. OwnerKnowsDispatch'
    BY <1>21, <2>1, OwnerMoves DEF Push, Owning, PreDispatch, PostDispatch, FailPath
  <2> QED
    BY <1>21, <2>2 DEF Push, ClaimMatchesAcquisition, ReleaseMeansNoDispatch, OneHolder, DiscardedIsClosed, AtMostOneDispatch, Holds
<1>22. ASSUME NEW c \in Calls, Reread(c) PROVE FenceInvariant'
  <2>1. \E l \in {"complete", "fail_record"} : Goto(c, l)
    BY <1>22 DEF Reread
  <2>2. OwnerKnowsDispatch'
    BY <1>22, <2>1, OwnerMoves DEF Reread, Owning, PreDispatch, PostDispatch, FailPath
  <2> QED
    BY <1>22, <2>2 DEF Reread, ClaimMatchesAcquisition, ReleaseMeansNoDispatch, OneHolder, DiscardedIsClosed, AtMostOneDispatch, Holds
<1>23. ASSUME NEW c \in Calls, CompleteResult(c) PROVE FenceInvariant'
  <2>1. \E l \in {"review", "audit"} : Goto(c, l)
    BY <1>23 DEF CompleteResult
  <2>2. OwnerKnowsDispatch'
    BY <1>23, <2>1, OwnerMoves DEF CompleteResult, Owning, PreDispatch, PostDispatch, FailPath
  <2>3. job[c] \in Proposals /\ keyOf[job[c]] # None
    BY <1>23, RunningCall DEF CompleteResult, OwnerKnowsDispatch, Owning, PostDispatch
  <2>4. ClaimMatchesAcquisition' /\ OneHolder'
    <3>1. CASE UNCHANGED <<status, completed>>
      BY <1>23, <3>1 DEF CompleteResult, ClaimMatchesAcquisition, OneHolder, Holds
    <3>2. CASE \E s \in {"succeeded", "terminal_failed"} : CompleteRecord(job[c], s)
      BY <1>23, <2>3, <3>2, CompleteKeeps DEF CompleteResult
    <3> QED
      BY <1>23, <3>1, <3>2 DEF CompleteResult
  <2> QED
    BY <1>23, <2>2, <2>4 DEF CompleteResult, ReleaseMeansNoDispatch, DiscardedIsClosed, AtMostOneDispatch
<1>24. ASSUME NEW c \in Calls, completeVerifiedCategorizationReview(c) PROVE FenceInvariant'
  <2>1. OwnerKnowsDispatch'
    <3>1. CASE pc[c] = "review"
      <4>1. Goto(c, "audit") /\ UNCHANGED <<job, ckey, started>>
        BY <1>24, <3>1 DEF completeVerifiedCategorizationReview, AfterReview
      <4> QED
        BY <1>24, <3>1, <4>1, OwnerMoves DEF completeVerifiedCategorizationReview, Owning,
           PreDispatch, PostDispatch, FailPath
    <3>2. CASE pc[c] = "replay_review"
      <4>1. Return(c)
        BY <1>24, <3>2 DEF completeVerifiedCategorizationReview, AfterReview
      <4> QED
        BY <1>24, <4>1, OwnerReturns DEF completeVerifiedCategorizationReview
    <3> QED
      BY <1>24, <3>1, <3>2 DEF completeVerifiedCategorizationReview
  <2> QED
    BY <1>24, <2>1 DEF completeVerifiedCategorizationReview, ClaimMatchesAcquisition, ReleaseMeansNoDispatch, OneHolder, DiscardedIsClosed, AtMostOneDispatch, Holds
<1>25. ASSUME NEW c \in Calls, AppendAudit(c) PROVE FenceInvariant'
  <2> DEFINE p == job[c]
  <2>1. /\ p \in Proposals /\ pc[c] \in Owning /\ keyOf[p] # None /\ outcome[p] = "none"
        /\ ~started[c] => dispatches[p] = 0
    BY <1>25, RunningCall DEF AppendAudit, OwnerKnowsDispatch, Owning, PostDispatch
  <2>2. \A q \in Proposals : outcome'[q] # outcome[q] =>
           /\ q = p
           /\ outcome'[q] = "no_dispatch" => dispatches[q] = 0
    BY <1>25, <2>1 DEF AppendAudit
  <2>3. OwnerKnowsDispatch'
    BY <1>25, <2>1, <2>2, OwnerReturns DEF AppendAudit
  <2>4. \A q \in Proposals : Holds(q)' => Holds(q)
    BY <1>25, <2>1, <2>2 DEF AppendAudit, Holds
  <2> QED
    BY <1>25, <2>1, <2>2, <2>3, <2>4 DEF AppendAudit, ClaimMatchesAcquisition, ReleaseMeansNoDispatch,
       OneHolder, DiscardedIsClosed, AtMostOneDispatch
<1>26. ASSUME NEW c \in Calls, RecordFailure(c) PROVE FenceInvariant'
  <2>1. OwnerKnowsDispatch'
    BY <1>26, OwnerMoves DEF RecordFailure, Owning, PreDispatch, PostDispatch, FailPath
  <2>2. job[c] \in Proposals /\ keyOf[job[c]] # None
    BY <1>26, RunningCall DEF RecordFailure, OwnerKnowsDispatch, Owning, FailPath
  <2>3. ClaimMatchesAcquisition' /\ OneHolder'
    <3>1. CASE UNCHANGED <<status, completed>>
      BY <1>26, <3>1 DEF RecordFailure, ClaimMatchesAcquisition, OneHolder, Holds
    <3>2. CASE CompleteRecord(job[c], "terminal_failed")
      BY <1>26, <2>2, <3>2, CompleteKeeps DEF RecordFailure
    <3> QED
      BY <1>26, <3>1, <3>2 DEF RecordFailure
  <2> QED
    BY <1>26, <2>1, <2>3 DEF RecordFailure, ReleaseMeansNoDispatch, DiscardedIsClosed, AtMostOneDispatch
<1>27. ASSUME NEW c \in Calls, AppendFailureAudit(c) PROVE FenceInvariant'
  <2> DEFINE p == job[c]
  <2>1. /\ p \in Proposals /\ pc[c] \in Owning /\ keyOf[p] # None /\ outcome[p] = "none"
        /\ ~started[c] => dispatches[p] = 0
    BY <1>27, RunningCall DEF AppendFailureAudit, OwnerKnowsDispatch, Owning, FailPath
  <2>2. \A q \in Proposals : outcome'[q] # outcome[q] =>
           /\ q = p
           /\ outcome'[q] = "no_dispatch" => dispatches[q] = 0
    BY <1>27, <2>1 DEF AppendFailureAudit, FailureOutcome
  <2>3. OwnerKnowsDispatch'
    BY <1>27, <2>1, <2>2, OwnerReturns DEF AppendFailureAudit
  <2>4. \A q \in Proposals : Holds(q)' => Holds(q)
    BY <1>27, <2>1, <2>2 DEF AppendFailureAudit, Holds
  <2> QED
    BY <1>27, <2>1, <2>2, <2>3, <2>4 DEF AppendFailureAudit, ClaimMatchesAcquisition, ReleaseMeansNoDispatch,
       OneHolder, DiscardedIsClosed, AtMostOneDispatch
<1> QED
  BY <1>1, <1>2, <1>3, <1>4, <1>5, <1>6, <1>7, <1>8, <1>9, <1>10, <1>11, <1>12, <1>13, <1>14, <1>15, <1>16, <1>17, <1>18, <1>19, <1>20, <1>21, <1>22, <1>23, <1>24, <1>25, <1>26, <1>27
     DEF Next, Work, Disruption, Call, Step

\* Every variable of the store, the service and the ledger keeps its type.
THEOREM TypeCorrect == Spec => []TypeOK
BY TypeInit, TypeStep, PTL DEF Spec

\* The invariant the fence rests on holds in every reachable state.
THEOREM FenceHolds == Spec => []FenceInvariant
BY TypeCorrect, FenceInit, FenceStep, PTL DEF Spec

\* An unresolved write holds its budget.
LEMMA UnresolvedHolds ==
    ASSUME TypeOK, FenceInvariant, NEW p \in Proposals, Unresolved(p)
    PROVE  Holds(p)
BY DEF TypeOK, Statuses, FenceInvariant, ClaimMatchesAcquisition, ReleaseMeansNoDispatch, Unresolved, Holds

\* No two proposals of a budget are ever both written and unresolved, for any number of
\* proposals, calls, crashes, lapses and lost audits.
THEOREM OneUnresolvedWriteAlways == Spec => []OneUnresolvedWrite
<1>1. TypeOK /\ FenceInvariant => OneUnresolvedWrite
  BY UnresolvedHolds DEF FenceInvariant, OneHolder, OneUnresolvedWrite
<1> QED
  BY <1>1, TypeCorrect, FenceHolds, PTL

\* A proposal's update is issued at most once, whatever is retried or replayed.
THEOREM AtMostOneDispatchAlways == Spec => []AtMostOneDispatch
<1>1. FenceInvariant => AtMostOneDispatch
  BY DEF FenceInvariant
<1> QED
  BY <1>1, FenceHolds, PTL

\* discardProposal and acquireProposalExecution exclude each other for good.
THEOREM DiscardedNeverDispatchedAlways == Spec => []DiscardedNeverDispatched
<1>1. TypeOK /\ FenceInvariant => DiscardedNeverDispatched
  BY DEF TypeOK, FenceInvariant, DiscardedIsClosed, ClaimMatchesAcquisition, DiscardedNeverDispatched
<1> QED
  BY <1>1, TypeCorrect, FenceHolds, PTL

\* One step of one final claim: only an acquisition writes a key or consumes approvals,
\* and it needs a proposal without a record.
LEMMA ClaimStep ==
    TypeOK /\ FenceInvariant /\ [Next]_vars =>
        \A p \in Proposals :
           /\ status[p] \in {"succeeded", "terminal_failed"} => status'[p] = status[p]
           /\ keyOf[p] # None => keyOf'[p] = keyOf[p] /\ spent'[p] = spent[p]
<1> SUFFICES ASSUME TypeOK, FenceInvariant, [Next]_vars, NEW p \in Proposals
             PROVE  /\ status[p] \in {"succeeded", "terminal_failed"} => status'[p] = status[p]
                    /\ keyOf[p] # None => keyOf'[p] = keyOf[p] /\ spent'[p] = spent[p]
  OBVIOUS
<1>1. CASE UNCHANGED <<keyOf, spent, status>>
  BY <1>1
<1>3. CASE \E c \in Calls : acquireProposalExecution(c)
  <2>1. PICK c \in Calls : acquireProposalExecution(c)
    BY <1>3
  <2>2. PICK S : spent' = [spent EXCEPT ![job[c]] = S]
    BY <2>1 DEF acquireProposalExecution
  <2>3. CASE p = job[c]
    <3>1. keyOf[p] = None /\ status[p] = "none"
      BY <2>1, <2>3 DEF acquireProposalExecution, Acquirable, FenceInvariant, ClaimMatchesAcquisition
    <3> QED
      BY <3>1
  <2>4. CASE p # job[c]
    BY <2>1, <2>2, <2>4 DEF acquireProposalExecution, TypeOK
  <2> QED
    BY <2>3, <2>4
<1>4. CASE \E c \in Calls : CompleteResult(c)
  BY <1>4 DEF CompleteResult, CompleteRecord, TypeOK
<1>5. CASE \E c \in Calls : RecordFailure(c)
  BY <1>5 DEF RecordFailure, CompleteRecord, TypeOK
<1>6. CASE reconcileStrandedIdempotencyRecords
  BY <1>6 DEF reconcileStrandedIdempotencyRecords, Stranded, TypeOK
<1> QED
  BY <1>1, <1>3, <1>4, <1>5, <1>6, ZenonT(60)
     DEF Next, Work, Disruption, Call, Step, createProposal, createApproval, LapseApproval,
         LapseProposal, supersedeProposal, discardProposal, TouchReview, ExpireLease, ExternalEdit,
         synchronize, Crash, Begin, ReplayOrRefuse, SyncAndPlan, CheckCategory, Dispatch,
         DispatchRefused, Push, Reread, completeVerifiedCategorizationReview, AppendAudit,
         AppendFailureAudit

\* A succeeded or failed record, its key and the approvals it consumed never change.
THEOREM ClaimsAreFinalAlways == Spec => ClaimsAreFinal
<1> QED
  BY ClaimStep, TypeCorrect, FenceHolds, PTL DEF Spec, ClaimsAreFinal

\* Only Dispatch issues an update, and the assertion it begins with looks at the lease,
\* the proposal, its review and the consumed approvals again.
LEMMA DispatchStep ==
    TypeOK /\ [Next]_vars =>
        \A p \in Proposals : dispatches'[p] # dispatches[p] =>
           /\ pstate[p] = "open" /\ leased[p] /\ ReviewCurrent(p)
           /\ Cardinality(spent[p] \ lapsed[p]) >= Required
<1> SUFFICES ASSUME TypeOK, [Next]_vars, NEW p \in Proposals, dispatches'[p] # dispatches[p]
             PROVE  /\ pstate[p] = "open" /\ leased[p] /\ ReviewCurrent(p)
                    /\ Cardinality(spent[p] \ lapsed[p]) >= Required
  OBVIOUS
<1>1. PICK c \in Calls : Dispatch(c)
  BY ZenonT(60) DEF Next, Work, Disruption, Call, Step, createProposal, createApproval, LapseApproval,
         LapseProposal, supersedeProposal, discardProposal, TouchReview, ExpireLease, ExternalEdit,
         synchronize, reconcileStrandedIdempotencyRecords, Crash, Begin, acquireProposalExecution,
         ReplayOrRefuse, SyncAndPlan, CheckCategory, DispatchRefused, Push, Reread, CompleteResult,
         RecordFailure, completeVerifiedCategorizationReview, AppendAudit, AppendFailureAudit
<1>2. p = job[c]
  BY <1>1 DEF Dispatch, TypeOK
<1>3. spent[p] \ lapsed[p] = spent[p]
  BY <1>1, <1>2 DEF Dispatch, ExecutionCurrent
<1> QED
  BY <1>1, <1>2, <1>3 DEF Dispatch, ExecutionCurrent

\* Whatever lapsed, moved or expired during the awaits before it, a write is issued only
\* under a current lease, proposal, review and set of approvals.
THEOREM DispatchAuthorizedAlways == Spec => DispatchAuthorized
<1> QED
  BY DispatchStep, TypeCorrect, PTL DEF Spec, DispatchAuthorized

------------------------------------------------------------------------------
\* A step is the call's own, a crash, or leaves the call where it was.
LEMMA Mover ==
    ASSUME TypeOK, [Next]_vars, NEW c \in Calls
    PROVE  \/ pc'[c] = pc[c] /\ job'[c] = job[c] /\ good'[c] = good[c]
           \/ Call(c)
           \/ Crash
<1>1. ASSUME NEW d \in Calls, d # c, Call(d)
      PROVE  pc'[c] = pc[c] /\ job'[c] = job[c] /\ good'[c] = good[c]
  <2>1. CASE \E p \in Proposals, k \in Keys : Begin(d, p, k)
    BY <1>1, <2>1 DEF TypeOK, Begin, Goto
  <2>2. CASE Step(d)
    <3>1. CASE UNCHANGED <<job, good>> /\ \E l \in Pcs : Goto(d, l)
      BY <1>1, <3>1 DEF TypeOK, Goto
    <3>2. CASE Return(d)
      BY <1>1, <3>2 DEF TypeOK, Return
    <3>3. CASE /\ UNCHANGED job /\ \E l \in Pcs : Goto(d, l)
               /\ \E v \in BOOLEAN : good' = [good EXCEPT ![d] = v]
      BY <1>1, <3>3 DEF TypeOK, Goto
    <3>4. {"sync", "check", "dispatch", "push", "reread", "complete", "review", "audit",
           "fail_record", "fail_audit", "replay_review"} \subseteq Pcs
      BY DEF Pcs, Owning, PreDispatch, PostDispatch, FailPath
    <3>5. CASE acquireProposalExecution(d)
      BY <3>1, <3>4, <3>5 DEF acquireProposalExecution
    <3>6. CASE ReplayOrRefuse(d)
      BY <3>1, <3>2, <3>4, <3>6 DEF ReplayOrRefuse
    <3>7. CASE SyncAndPlan(d)
      BY <3>1, <3>4, <3>7 DEF SyncAndPlan
    <3>8. CASE CheckCategory(d)
      <4>1. (replica[TxOf[job[d]]] = expected[job[d]]) \in BOOLEAN
        OBVIOUS
      <4> QED
        BY <3>1, <3>3, <3>4, <3>8, <4>1 DEF CheckCategory
    <3>9. CASE Dispatch(d)
      BY <3>1, <3>4, <3>9 DEF Dispatch
    <3>10. CASE DispatchRefused(d)
      BY <3>1, <3>4, <3>10 DEF DispatchRefused
    <3>11. CASE Push(d)
      BY <3>1, <3>4, <3>11 DEF Push
    <3>12. CASE Reread(d)
      <4>1. Verified(d) \in BOOLEAN
        BY DEF Verified
      <4> QED
        BY <3>1, <3>3, <3>4, <3>12, <4>1 DEF Reread
    <3>13. CASE CompleteResult(d)
      BY <3>1, <3>3, <3>4, <3>13 DEF CompleteResult
    <3>14. CASE completeVerifiedCategorizationReview(d)
      <4>1. PICK ok \in BOOLEAN : AfterReview(d, ok)
        BY <3>14 DEF completeVerifiedCategorizationReview, TypeOK
      <4> QED
        BY <3>2, <3>3, <3>4, <4>1 DEF AfterReview
    <3>15. CASE AppendAudit(d)
      BY <3>2, <3>15 DEF AppendAudit
    <3>16. CASE RecordFailure(d)
      BY <3>1, <3>4, <3>16 DEF RecordFailure
    <3>17. CASE AppendFailureAudit(d)
      BY <3>2, <3>17 DEF AppendFailureAudit
    <3> QED
      BY <2>2, <3>5, <3>6, <3>7, <3>8, <3>9, <3>10, <3>11, <3>12, <3>13, <3>14, <3>15, <3>16, <3>17
         DEF Step
  <2> QED
    BY <1>1, <2>1, <2>2 DEF Call
<1>2. CASE UNCHANGED <<pc, job, good>>
  BY <1>2
<1> QED
  BY <1>1, <1>2, ZenonT(60)
     DEF Next, Work, Disruption, createProposal, createApproval, LapseApproval, LapseProposal,
         supersedeProposal, discardProposal, TouchReview, ExpireLease, ExternalEdit, synchronize,
         reconcileStrandedIdempotencyRecords

\* A proposal that was acquired exists: acquisition admits only stored ones, and none is
\* ever deleted.
LEMMA AcquiredStep ==
    ASSUME TypeOK, AcquiredExists, [Next]_vars
    PROVE  AcquiredExists'
<1> USE DEF TypeOK, AcquiredExists
<1>1. CASE UNCHANGED <<keyOf, pstate>>
  BY <1>1
<1>2. ASSUME NEW p \in Proposals, createProposal(p) PROVE AcquiredExists'
  BY <1>2 DEF createProposal
<1>3. ASSUME NEW p \in Proposals, LapseProposal(p) PROVE AcquiredExists'
  BY <1>3 DEF LapseProposal
<1>4. ASSUME NEW p \in Proposals, supersedeProposal(p) PROVE AcquiredExists'
  BY <1>4 DEF supersedeProposal, MarkSuperseded
<1>5. ASSUME NEW p \in Proposals, discardProposal(p) PROVE AcquiredExists'
  BY <1>5 DEF discardProposal, MarkSuperseded
<1>6. ASSUME NEW c \in Calls, acquireProposalExecution(c) PROVE AcquiredExists'
  BY <1>6 DEF acquireProposalExecution, Acquirable, Admitted
<1> QED
  BY <1>1, <1>2, <1>3, <1>4, <1>5, <1>6, ZenonT(60)
     DEF Next, Work, Disruption, Call, Step, createApproval, LapseApproval, TouchReview, ExpireLease,
         ExternalEdit, synchronize, reconcileStrandedIdempotencyRecords, Crash, Begin, ReplayOrRefuse,
         SyncAndPlan, CheckCategory, Dispatch, DispatchRefused, Push, Reread, CompleteResult,
         completeVerifiedCategorizationReview, AppendAudit, RecordFailure, AppendFailureAudit

\* Only the call that holds a budget's lock frees it.
LEMMA LockStep ==
    ASSUME TypeOK, WriterHoldsLock, [Next]_vars
    PROVE  WriterHoldsLock'
<1> SUFFICES ASSUME NEW c \in Calls, pc'[c] \in {"dispatch", "push"}
             PROVE  lock'[BudgetOfP(job'[c])] = c
  BY DEF WriterHoldsLock, BudgetOfP
<1>0. lock \in [Budgets -> Calls \cup {None}] /\ None \notin Calls
  BY ConstantsAssumption DEF TypeOK
<1>1. ~Crash
  BY DEF Crash
<1>2. CASE Call(c)
  <2>0. c \in Calls /\ (pc[c] # "idle" => BudgetOfP(job[c]) \in Budgets)
    BY RunningCall
  <2>1. CASE CheckCategory(c)
    BY <1>0, <2>0, <2>1 DEF CheckCategory, Goto, TypeOK, BudgetOfP
  <2>2. CASE Dispatch(c)
    BY <2>2 DEF Dispatch, Goto, TypeOK, WriterHoldsLock, BudgetOfP
  <2>3. ASSUME NEW l, Goto(c, l), l \notin {"dispatch", "push"} PROVE FALSE
    BY <2>3 DEF Goto, TypeOK
  <2>4. ~Return(c)
    BY DEF Return, TypeOK
  <2>5. ASSUME NEW ok, AfterReview(c, ok) PROVE FALSE
    BY <2>3, <2>4, <2>5 DEF AfterReview
  <2>6. ~acquireProposalExecution(c) /\ ~ReplayOrRefuse(c) /\ ~AppendAudit(c) /\ ~RecordFailure(c)
        /\ ~AppendFailureAudit(c) /\ ~DispatchRefused(c)
    BY <2>3, <2>4 DEF acquireProposalExecution, ReplayOrRefuse, AppendAudit, RecordFailure,
       AppendFailureAudit, DispatchRefused
  <2>7. ~SyncAndPlan(c) /\ ~Push(c) /\ ~Reread(c) /\ ~CompleteResult(c)
    BY <2>3 DEF SyncAndPlan, Push, Reread, CompleteResult
  <2>8. ~completeVerifiedCategorizationReview(c)
    BY <2>5 DEF completeVerifiedCategorizationReview
  <2>9. \A p \in Proposals, k \in Keys : ~Begin(c, p, k)
    BY <2>3 DEF Begin
  <2> QED
    BY <1>2, <2>1, <2>2, <2>6, <2>7, <2>8, <2>9 DEF Call, Step
<1>3. CASE pc'[c] = pc[c] /\ job'[c] = job[c]
  <2> DEFINE B == BudgetOfP(job[c])
  <2>1. B \in Budgets /\ lock[B] = c
    BY <1>3, RunningCall DEF WriterHoldsLock
  <2>2. CASE UNCHANGED lock
    BY <1>3, <2>1, <2>2 DEF BudgetOfP
  <2>3. ASSUME NEW d \in Calls, CheckCategory(d) PROVE lock'[B] = c
    BY <1>0, <2>1, <2>3, RunningCall DEF CheckCategory
  <2>4. ASSUME NEW d \in Calls, d # c, pc[d] \in {"dispatch", "push"}, FreeLock(d)
        PROVE  lock'[B] = c
    <3>1. lock[BudgetOfP(job[d])] = d
      BY <2>4 DEF WriterHoldsLock
    <3> QED
      BY <1>0, <2>1, <2>4, <3>1 DEF FreeLock
  <2>5. ASSUME NEW d \in Calls, Dispatch(d) \/ DispatchRefused(d) \/ Push(d)
        PROVE  d # c /\ pc[d] \in {"dispatch", "push"} /\ (FreeLock(d) \/ UNCHANGED lock)
    BY <1>3, <2>5 DEF Dispatch, DispatchRefused, Push, Goto, TypeOK
  <2>6. lock'[B] = c
    BY <1>1, <2>1, <2>2, <2>3, <2>4, <2>5, ZenonT(60)
       DEF Next, Work, Disruption, Call, Step, createProposal, createApproval, LapseApproval,
           LapseProposal, supersedeProposal, discardProposal, TouchReview, ExpireLease, ExternalEdit,
           synchronize, reconcileStrandedIdempotencyRecords, Begin, acquireProposalExecution,
           ReplayOrRefuse, SyncAndPlan, Reread, CompleteResult,
           completeVerifiedCategorizationReview, AppendAudit, RecordFailure, AppendFailureAudit
  <2> QED
    BY <1>3, <2>6 DEF BudgetOfP
<1> QED
  BY <1>1, <1>2, <1>3, Mover

\* What a sync merges into the replica stays inside its budget.
LEMMA SyncElsewhere ==
    ASSUME TypeOK, NEW b \in Budgets, SyncLedger(b), NEW t \in Txs, BudgetOf[t] # b
    PROVE  replica'[t] = replica[t]
BY DEF TypeOK, SyncLedger

\* While a call stands between its check and its write, the replica's category of its
\* transaction stays: whoever would change it needs the lock.
LEMMA ReplicaKept ==
    ASSUME TypeOK, WriterHoldsLock, [Next]_vars, NEW c \in Calls,
           pc[c] = "dispatch", pc'[c] = "dispatch"
    PROVE  replica'[TxOf[job[c]]] = replica[TxOf[job[c]]]
<1> DEFINE t == TxOf[job[c]]
<1>0. /\ None \notin Calls /\ t \in Txs /\ BudgetOf[t] \in Budgets /\ lock[BudgetOf[t]] = c
      /\ pc \in [Calls -> Pcs] /\ replica \in [Txs -> MaybeCategory]
  BY ConstantsAssumption, RunningCall DEF TypeOK, WriterHoldsLock, BudgetOfP
<1>1. CASE UNCHANGED replica
  BY <1>1
<1>2. ASSUME NEW b \in Budgets, lock[b] = None, SyncLedger(b) PROVE replica'[t] = replica[t]
  BY <1>0, <1>2, SyncElsewhere
<1>3. ASSUME NEW d \in Calls, Push(d) PROVE replica'[t] = replica[t]
  <2>1. d # c /\ BudgetOfP(job[d]) \in Budgets /\ lock[BudgetOfP(job[d])] = d
    BY <1>3, RunningCall DEF Push, WriterHoldsLock
  <2>2. SyncLedger(BudgetOfP(job[d])) \/ UNCHANGED replica
    BY <1>3 DEF Push
  <2> QED
    BY <1>0, <1>1, <2>1, <2>2, SyncElsewhere
<1>4. ASSUME NEW d \in Calls, Dispatch(d) PROVE replica'[t] = replica[t]
  <2>1. d # c
    BY <1>0, <1>4 DEF Dispatch, Goto
  <2>2. TxOf[job[d]] # t
    BY <1>0, <1>4, <2>1 DEF Dispatch, WriterHoldsLock, BudgetOfP
  <2> QED
    BY <1>0, <1>4, <2>2 DEF Dispatch
<1>5. ~Crash
  BY DEF Crash
<1>6. ASSUME NEW d \in Calls, SyncAndPlan(d) \/ Reread(d) PROVE replica'[t] = replica[t]
  <2>1. BudgetOfP(job[d]) \in Budgets /\ lock[BudgetOfP(job[d])] = None
    BY <1>6, RunningCall DEF SyncAndPlan, Reread
  <2>2. SyncLedger(BudgetOfP(job[d])) \/ UNCHANGED replica
    BY <1>6 DEF SyncAndPlan, Reread
  <2> QED
    BY <1>1, <1>2, <2>1, <2>2
<1> HIDE DEF t
<1>7. replica'[t] = replica[t]
  BY <1>1, <1>2, <1>3, <1>4, <1>5, <1>6, ZenonT(60)
     DEF Next, Work, Disruption, Call, Step, createProposal, createApproval, LapseApproval,
         LapseProposal, supersedeProposal, discardProposal, TouchReview, ExpireLease,
         ExternalEdit, synchronize, reconcileStrandedIdempotencyRecords, Begin,
         acquireProposalExecution, ReplayOrRefuse, CheckCategory, DispatchRefused,
         CompleteResult, completeVerifiedCategorizationReview, AppendAudit, RecordFailure,
         AppendFailureAudit
<1> QED
  BY <1>7 DEF t

\* The category an acquired proposal replaces is fixed.
LEMMA ExpectedKept ==
    ASSUME TypeOK, AcquiredExists, [Next]_vars, NEW p \in Proposals, keyOf[p] # None
    PROVE  expected'[p] = expected[p]
<1>1. CASE UNCHANGED expected
  BY <1>1
<1>2. ASSUME NEW q \in Proposals, createProposal(q) PROVE expected'[p] = expected[p]
  BY <1>2 DEF createProposal, AcquiredExists, TypeOK
<1> QED
  BY <1>1, <1>2, ZenonT(60)
     DEF Next, Work, Disruption, Call, Step, createApproval, LapseApproval, LapseProposal,
         supersedeProposal, discardProposal, TouchReview, ExpireLease, ExternalEdit,
         synchronize, reconcileStrandedIdempotencyRecords, Crash, Begin,
         acquireProposalExecution, ReplayOrRefuse, SyncAndPlan, CheckCategory, Dispatch,
         DispatchRefused, Push, Reread, CompleteResult, completeVerifiedCategorizationReview,
         AppendAudit, RecordFailure, AppendFailureAudit

\* What was replaced and how often a proposal was dispatched change in its dispatch only.
LEMMA HistoryKept ==
    ASSUME TypeOK, [Next]_vars, NEW p \in Proposals
    PROVE  \/ overwrote'[p] = overwrote[p] /\ dispatches'[p] = dispatches[p]
           \/ \E c \in Calls : Dispatch(c) /\ job[c] = p
<1>1. CASE UNCHANGED <<overwrote, dispatches>>
  BY <1>1
<1>2. ASSUME NEW c \in Calls, Dispatch(c), job[c] # p
      PROVE  overwrote'[p] = overwrote[p] /\ dispatches'[p] = dispatches[p]
  BY <1>2 DEF Dispatch, TypeOK
<1> QED
  BY <1>1, <1>2, ZenonT(60)
     DEF Next, Work, Disruption, Call, Step, createProposal, createApproval, LapseApproval,
         LapseProposal, supersedeProposal, discardProposal, TouchReview, ExpireLease,
         ExternalEdit, synchronize, reconcileStrandedIdempotencyRecords, Crash, Begin,
         acquireProposalExecution, ReplayOrRefuse, SyncAndPlan, CheckCategory, DispatchRefused,
         Push, Reread, CompleteResult, completeVerifiedCategorizationReview, AppendAudit,
         RecordFailure, AppendFailureAudit

\* A write that was seen on the server stays one that was seen.
LEMMA LandedGrows ==
    ASSUME [Next]_vars
    PROVE  landed \subseteq landed'
<1>1. CASE UNCHANGED landed
  BY <1>1
<1>2. ASSUME NEW b, SyncLedger(b) PROVE landed \subseteq landed'
  BY <1>2 DEF SyncLedger
<1> QED
  BY <1>1, <1>2, ZenonT(60)
     DEF Next, Work, Disruption, Call, Step, createProposal, createApproval, LapseApproval,
         LapseProposal, supersedeProposal, discardProposal, TouchReview, ExpireLease,
         ExternalEdit, synchronize, reconcileStrandedIdempotencyRecords, Crash, Begin,
         acquireProposalExecution, ReplayOrRefuse, SyncAndPlan, CheckCategory, Dispatch,
         DispatchRefused, Push, Reread, CompleteResult, completeVerifiedCategorizationReview,
         AppendAudit, RecordFailure, AppendFailureAudit

\* A running owner works on an acquired proposal, and nobody else does.
LEMMA OwnerAlone ==
    ASSUME TypeOK, FenceInvariant, NEW c \in Calls, pc[c] \in Owning
    PROVE  /\ job[c] \in Proposals /\ keyOf[job[c]] # None
           /\ pc[c] \in PostDispatch => dispatches[job[c]] > 0
           /\ \A d \in Calls : pc[d] \in Owning /\ job[d] = job[c] => d = c
<1>1. pc[c] # "idle"
  BY DEF Owning, PreDispatch, PostDispatch, FailPath
<1>2. job[c] \in Proposals /\ ckey[c] \in Keys
  BY <1>1, RunningCall
<1> QED
  BY <1>2, ConstantsAssumption DEF FenceInvariant, OwnerKnowsDispatch

\* What a call knows of the category it replaces stays true from its check to its record.
LEMMA VerdictStep ==
    ASSUME TypeOK, FenceInvariant, WritesApproved, [Next]_vars, NEW c \in Calls
    PROVE  Verdict(c)'
<1> USE DEF Owning, PreDispatch, PostDispatch, FailPath
<1>0. /\ WriterHoldsLock /\ AcquiredExists /\ Verdict(c)
      /\ pc \in [Calls -> Pcs] /\ good \in [Calls -> BOOLEAN] /\ overwrote \in [Proposals -> MaybeCategory]
  BY DEF WritesApproved, TypeOK
<1>1. CASE pc'[c] \notin {"dispatch", "push", "reread", "complete"}
  BY <1>1 DEF Verdict
<1>2. CASE /\ pc'[c] \in {"dispatch", "push", "reread", "complete"}
           /\ pc'[c] = pc[c] /\ job'[c] = job[c] /\ good'[c] = good[c]
  <2>1. /\ job[c] \in Proposals /\ keyOf[job[c]] # None
        /\ \A d \in Calls : pc[d] \in Owning /\ job[d] = job[c] => d = c
    BY <1>2, OwnerAlone
  <2>2. expected'[job[c]] = expected[job[c]]
    BY <1>0, <2>1, ExpectedKept
  <2>3. overwrote'[job[c]] = overwrote[job[c]]
    <3>1. ASSUME NEW d \in Calls, Dispatch(d), job[d] = job[c] PROVE FALSE
      <4>1. d = c
        BY <2>1, <3>1 DEF Dispatch
      <4> QED
        BY <1>0, <1>2, <3>1, <4>1 DEF Dispatch, Goto
    <3> QED
      BY <2>1, <3>1, HistoryKept
  <2>4. pc[c] = "dispatch" => replica'[TxOf[job[c]]] = replica[TxOf[job[c]]]
    BY <1>0, <1>2, ReplicaKept
  <2>5. landed \subseteq landed'
    BY LandedGrows
  <2> QED
    BY <1>0, <1>2, <2>2, <2>3, <2>4, <2>5 DEF Verdict, PreconditionHolds
<1>3. CASE CheckCategory(c)
  <2>1. UNCHANGED <<replica, expected, job>>
    BY <1>3 DEF CheckCategory
  <2>2. CASE Goto(c, "fail_record")
    BY <1>0, <2>2 DEF Goto, Verdict
  <2>3. CASE /\ PreconditionHolds(job[c]) /\ Goto(c, "dispatch")
             /\ good' = [good EXCEPT ![c] = (replica[TxOf[job[c]]] = expected[job[c]])]
    BY <1>0, <2>1, <2>3 DEF Goto, Verdict, PreconditionHolds
  <2> QED
    BY <1>3, <2>2, <2>3 DEF CheckCategory
<1>4. CASE Dispatch(c)
  <2>1. job[c] \in Proposals
    BY <1>4, OwnerAlone DEF Dispatch
  <2>2. /\ UNCHANGED <<job, good, expected>> /\ overwrote'[job[c]] = replica[TxOf[job[c]]]
        /\ pc'[c] \in {"push", "fail_record"}
    BY <1>0, <1>4, <2>1 DEF Dispatch, Goto
  <2> QED
    BY <1>0, <1>4, <2>2 DEF Dispatch, Verdict
<1>5. CASE Push(c)
  BY <1>0, <1>5 DEF Push, Goto, Verdict
<1>6. CASE Reread(c)
  <2>1. CASE Goto(c, "fail_record")
    BY <1>0, <2>1 DEF Goto, Verdict
  <2>2. CASE /\ SyncLedger(BudgetOfP(job[c])) /\ Goto(c, "complete")
             /\ good' = [good EXCEPT ![c] = Verified(c)]
    <3>1. job[c] \in Proposals /\ dispatches[job[c]] > 0 /\ pc'[c] = "complete"
      BY <1>0, <1>6, <2>2, OwnerAlone DEF Reread, Goto
    <3>2. UNCHANGED <<job, expected, overwrote>> /\ good'[c] = Verified(c)
      BY <1>0, <1>6, <2>2 DEF Reread
    <3>3. Verified(c) => job[c] \in landed'
      BY <2>2, <3>1 DEF Verified, SyncLedger
    <3> QED
      BY <1>0, <1>6, <3>1, <3>2, <3>3 DEF Reread, Verdict, Verified
  <2> QED
    BY <1>6, <2>1, <2>2 DEF Reread
<1>7. ASSUME NEW l, Goto(c, l), l \notin {"dispatch", "push", "reread", "complete"} PROVE Verdict(c)'
  BY <1>0, <1>1, <1>7 DEF Goto
<1>8. CASE Return(c)
  BY <1>0, <1>1, <1>8 DEF Return
<1>9. CASE Crash
  BY <1>1, <1>9 DEF Crash
<1>10. CASE completeVerifiedCategorizationReview(c)
  BY <1>7, <1>8, <1>10 DEF completeVerifiedCategorizationReview, AfterReview
<1>11. CASE acquireProposalExecution(c) \/ ReplayOrRefuse(c) \/ SyncAndPlan(c) \/ DispatchRefused(c)
            \/ CompleteResult(c) \/ AppendAudit(c) \/ RecordFailure(c) \/ AppendFailureAudit(c)
            \/ \E p \in Proposals, k \in Keys : Begin(c, p, k)
  <2>1. CASE SyncAndPlan(c)
    <3>1. Goto(c, "check") \/ Goto(c, "fail_record")
      BY <2>1 DEF SyncAndPlan
    <3> QED
      BY <1>7, <3>1
  <2>2. CASE CompleteResult(c)
    <3>1. Goto(c, "review") \/ Goto(c, "audit")
      BY <2>2 DEF CompleteResult
    <3> QED
      BY <1>7, <3>1
  <2>3. CASE acquireProposalExecution(c) \/ DispatchRefused(c) \/ RecordFailure(c)
             \/ \E p \in Proposals, k \in Keys : Begin(c, p, k)
    <3>1. \/ Goto(c, "sync") \/ Goto(c, "fail_record") \/ Goto(c, "fail_audit")
          \/ Goto(c, "acquire")
      BY <2>3 DEF acquireProposalExecution, DispatchRefused, RecordFailure, Begin
    <3> QED
      BY <1>7, <3>1
  <2>4. CASE ReplayOrRefuse(c) \/ AppendAudit(c) \/ AppendFailureAudit(c)
    <3>1. Goto(c, "replay_review") \/ Return(c)
      BY <2>4 DEF ReplayOrRefuse, AppendAudit, AppendFailureAudit
    <3> QED
      BY <1>7, <1>8, <3>1
  <2> QED
    BY <1>11, <2>1, <2>2, <2>3, <2>4
<1> QED
  BY <1>1, <1>2, <1>3, <1>4, <1>5, <1>6, <1>9, <1>10, <1>11, Mover DEF Call, Step

\* Only a call that verified its write records a success.
LEMMA SucceedsByVerdict ==
    ASSUME TypeOK, [Next]_vars, NEW p \in Proposals, status[p] # "succeeded", status'[p] = "succeeded"
    PROVE  \E c \in Calls : CompleteResult(c) /\ good[c] /\ job[c] = p
<1>1. ~UNCHANGED status
  OBVIOUS
<1>2. ASSUME NEW c \in Calls PROVE ~RecordFailure(c) /\ ~acquireProposalExecution(c)
  BY DEF RecordFailure, CompleteRecord, acquireProposalExecution, TypeOK
<1>3. ~reconcileStrandedIdempotencyRecords
  BY DEF reconcileStrandedIdempotencyRecords
<1>4. ASSUME NEW c \in Calls, CompleteResult(c) PROVE good[c] /\ job[c] = p
  BY <1>4 DEF CompleteResult, CompleteRecord, TypeOK
<1> QED
  BY <1>1, <1>2, <1>3, <1>4, ZenonT(60)
     DEF Next, Work, Disruption, Call, Step, createProposal, createApproval, LapseApproval,
         LapseProposal, supersedeProposal, discardProposal, TouchReview, ExpireLease,
         ExternalEdit, synchronize, Crash, Begin, ReplayOrRefuse, SyncAndPlan, CheckCategory,
         Dispatch, DispatchRefused, Push, Reread, completeVerifiedCategorizationReview,
         AppendAudit, AppendFailureAudit

\* No step makes a recorded success or a write disagree with what was approved.
LEMMA WritesStep ==
    ASSUME TypeOK, FenceInvariant, WritesApproved, [Next]_vars
    PROVE  WritesApproved'
<1>0. /\ SuccessIsApprovedWrite /\ OverwritesOnlyExpected /\ WriterHoldsLock /\ AcquiredExists
      /\ \A c \in Calls : Verdict(c)
  BY DEF WritesApproved
<1>1. \A p \in Proposals : status[p] # "none" \/ dispatches[p] > 0 => keyOf[p] # None
  BY DEF TypeOK, FenceInvariant, ClaimMatchesAcquisition
<1>2. ASSUME NEW p \in Proposals, status'[p] = "succeeded"
      PROVE  p \in landed' /\ overwrote'[p] = expected'[p]
  <2>1. CASE status[p] = "succeeded"
    <3>1. expected'[p] = expected[p]
      BY <1>0, <1>1, <2>1, ExpectedKept
    <3>2. overwrote'[p] = overwrote[p]
      BY <2>1, HistoryKept DEF Dispatch, ExecutionCurrent
    <3> QED
      BY <1>0, <2>1, <3>1, <3>2, LandedGrows DEF SuccessIsApprovedWrite
  <2>2. CASE status[p] # "succeeded"
    <3>1. PICK c \in Calls : CompleteResult(c) /\ good[c] /\ job[c] = p
      BY <1>2, <2>2, SucceedsByVerdict
    <3>2. pc[c] = "complete" /\ UNCHANGED <<landed, overwrote, expected>>
      BY <3>1 DEF CompleteResult
    <3> QED
      BY <1>0, <3>1, <3>2 DEF Verdict
  <2> QED
    BY <2>1, <2>2
<1>3. ASSUME NEW p \in Proposals, dispatches'[p] > 0, expected'[p] # None
      PROVE  overwrote'[p] = expected'[p]
  <2>1. CASE overwrote'[p] = overwrote[p] /\ dispatches'[p] = dispatches[p]
    <3>1. dispatches[p] > 0 /\ expected'[p] = expected[p]
      BY <1>0, <1>1, <1>3, <2>1, ExpectedKept
    <3> QED
      BY <1>0, <1>3, <2>1, <3>1 DEF OverwritesOnlyExpected
  <2>2. CASE \E c \in Calls : Dispatch(c) /\ job[c] = p
    <3>1. PICK c \in Calls : Dispatch(c) /\ job[c] = p
      BY <2>2
    <3>2. /\ pc[c] = "dispatch" /\ UNCHANGED expected
          /\ overwrote' = [overwrote EXCEPT ![p] = replica[TxOf[p]]]
      BY <3>1 DEF Dispatch
    <3> QED
      BY <1>0, <1>3, <3>1, <3>2 DEF Verdict, PreconditionHolds, TypeOK
  <2> QED
    BY <2>1, <2>2, HistoryKept
<1>4. WriterHoldsLock' /\ AcquiredExists' /\ \A c \in Calls : Verdict(c)'
  BY <1>0, LockStep, AcquiredStep, VerdictStep
<1> QED
  BY <1>2, <1>3, <1>4 DEF WritesApproved, SuccessIsApprovedWrite, OverwritesOnlyExpected

\* A recorded success is the approved write, and no write replaces another category than
\* the one approved, whatever other calls, clients and crashes do in between.
THEOREM WritesApprovedAlways == Spec => []WritesApproved
<1>1. Init => WritesApproved
  BY ConstantsAssumption DEF Init, WritesApproved, SuccessIsApprovedWrite, OverwritesOnlyExpected,
     WriterHoldsLock, AcquiredExists, Verdict
<1> QED
  BY <1>1, WritesStep, TypeCorrect, FenceHolds, PTL DEF Spec

------------------------------------------------------------------------------
\* A call completes a review only for a proposal that came from one.
LEMMA ReviewerStep ==
    ASSUME TypeOK, ReviewAppliedOnce, [Next]_vars, NEW c \in Calls,
           pc'[c] \in {"review", "replay_review"}
    PROVE  ReviewOf[job'[c]] # None
<1>0. pc \in [Calls -> Pcs]
  BY DEF TypeOK
<1>1. CASE pc'[c] = pc[c] /\ job'[c] = job[c]
  BY <1>1 DEF ReviewAppliedOnce
<1>2. CASE CompleteResult(c) \/ ReplayOrRefuse(c)
  BY <1>0, <1>2 DEF CompleteResult, ReplayOrRefuse, Goto, Return
<1>3. ASSUME NEW l, Goto(c, l), l \notin {"review", "replay_review"} PROVE FALSE
  BY <1>0, <1>3 DEF Goto
<1>4. ~Return(c) /\ ~Crash
  BY <1>0 DEF Return, Crash
<1>5. ~completeVerifiedCategorizationReview(c)
  BY <1>3, <1>4 DEF completeVerifiedCategorizationReview, AfterReview
<1>6. ~acquireProposalExecution(c) /\ ~DispatchRefused(c) /\ ~RecordFailure(c)
  BY <1>3 DEF acquireProposalExecution, DispatchRefused, RecordFailure
<1>7. ~AppendAudit(c) /\ ~AppendFailureAudit(c)
  BY <1>4 DEF AppendAudit, AppendFailureAudit
<1>8. ~SyncAndPlan(c) /\ ~CheckCategory(c) /\ ~Dispatch(c) /\ ~Push(c) /\ ~Reread(c)
  BY <1>3 DEF SyncAndPlan, CheckCategory, Dispatch, Push, Reread
<1>9. \A p \in Proposals, k \in Keys : ~Begin(c, p, k)
  BY <1>3 DEF Begin
<1> QED
  BY <1>1, <1>2, <1>4, <1>5, <1>6, <1>7, <1>8, <1>9, Mover DEF Call, Step

\* A review that was applied stays applied or is superseded; a second proposal of the same
\* review finds it no longer open.
LEMMA ReviewStep ==
    ASSUME TypeOK, FenceInvariant, ReviewAppliedOnce, [Next]_vars
    PROVE  ReviewAppliedOnce'
<1>1. \A c \in Calls : pc'[c] \in {"review", "replay_review"} => ReviewOf[job'[c]] # None
  BY ReviewerStep
<1>2. \A p \in Proposals : status[p] = "succeeded" => status'[p] = "succeeded"
  BY ClaimStep
<1>3. CASE UNCHANGED <<corrected, rstate>>
  BY <1>1, <1>2, <1>3 DEF ReviewAppliedOnce, TypeOK
<1>4. ASSUME NEW r \in Reviews, TouchReview(r) PROVE ReviewAppliedOnce'
  <2>1. UNCHANGED corrected
    BY <1>4 DEF TouchReview
  <2>2. \A q \in Reviews : rstate[q] \in {"applied", "superseded"} => rstate'[q] \in {"applied", "superseded"}
    BY <1>4 DEF TouchReview, ReviewMoves, TypeOK, ReviewStates
  <2> QED
    BY <1>1, <1>2, <2>1, <2>2, ConstantsAssumption DEF ReviewAppliedOnce, TypeOK
<1>5. ASSUME NEW c \in Calls, completeVerifiedCategorizationReview(c), ~UNCHANGED <<corrected, rstate>>
      PROVE  ReviewAppliedOnce'
  <2> DEFINE p == job[c]
  <2>1. /\ p \in Proposals /\ ReviewOf[p] \in Reviews /\ ReviewOf[p] # None
    BY <1>5, RunningCall, ConstantsAssumption DEF completeVerifiedCategorizationReview, ReviewAppliedOnce
  <2>2. /\ status[p] = "succeeded" /\ rstate[ReviewOf[p]] = "open"
        /\ rstate' = [rstate EXCEPT ![ReviewOf[p]] = "applied"]
        /\ corrected' = corrected \cup {p}
    BY <1>5, <2>1 DEF completeVerifiedCategorizationReview, ApplyReview, ReviewCurrent
  <2>3. \A q \in corrected : ReviewOf[q] # ReviewOf[p]
    BY <2>2 DEF ReviewAppliedOnce
  <2>4. \A q \in corrected : rstate'[ReviewOf[q]] = rstate[ReviewOf[q]]
    BY <2>1, <2>2, <2>3, ConstantsAssumption DEF ReviewAppliedOnce, TypeOK
  <2>5. rstate'[ReviewOf[p]] = "applied"
    BY <2>1, <2>2 DEF TypeOK
  <2> QED
    BY <1>1, <1>2, <2>1, <2>2, <2>3, <2>4, <2>5 DEF ReviewAppliedOnce, TypeOK
<1> QED
  BY <1>3, <1>4, <1>5, ZenonT(60)
     DEF Next, Work, Disruption, Call, Step, createProposal, createApproval, LapseApproval,
         LapseProposal, supersedeProposal, discardProposal, ExpireLease, ExternalEdit,
         synchronize, reconcileStrandedIdempotencyRecords, Crash, Begin,
         acquireProposalExecution, ReplayOrRefuse, SyncAndPlan, CheckCategory, Dispatch,
         DispatchRefused, Push, Reread, CompleteResult, AppendAudit, RecordFailure,
         AppendFailureAudit

\* Retries and replays of any number of proposals apply a review once, to a recorded success.
THEOREM ReviewAppliedOnceAlways == Spec => []ReviewAppliedOnce
<1>1. Init => ReviewAppliedOnce
  BY DEF Init, ReviewAppliedOnce
<1> QED
  BY <1>1, ReviewStep, TypeCorrect, FenceHolds, PTL DEF Spec
------------------------------------------------------------------------------
(* ProposalExecution implements BudgetWriteOwner: five actions move the phase of *)
(* a proposal, all others leave the record, the closing audit and the dispatch   *)
(* count it is computed from alone.                                              *)

Map == [p \in Proposals |-> Phase(p)]

\* The mapped state changes only with a record, its closing audit or its dispatch.
LEMMA PhaseStutters ==
    ASSUME UNCHANGED <<status, outcome, dispatches>>
    PROVE  UNCHANGED Map
BY DEF Map, Phase, Holds

\* Before anything is acquired every proposal is in the abstract phase "none".
LEMMA InitMaps == Init => Owner!Init
BY DEF Init, Owner!Init, Phase

\* A step from phase x to phase y of one proposal.
LEMMA OnePhase ==
    ASSUME NEW p \in Proposals,
           \A q \in Proposals \ {p} : /\ status'[q] = status[q] /\ outcome'[q] = outcome[q]
                                      /\ dispatches'[q] = dispatches[q]
    PROVE  Map' = [Map EXCEPT ![p] = Phase(p)']
BY ZenonT(40) DEF Map, Phase, Holds

\* Each step of the store, the service and the ledger is one abstract step or a stutter.
LEMMA StepMaps ==
    TypeOK /\ FenceInvariant /\ [Next]_vars => [Owner!Next]_Map
<1> SUFFICES ASSUME TypeOK, FenceInvariant, [Next]_vars PROVE [Owner!Next]_Map
  OBVIOUS
<1>1. CASE UNCHANGED <<status, outcome, dispatches>>
  BY <1>1, PhaseStutters
<1>2. ASSUME NEW c \in Calls, acquireProposalExecution(c) PROVE Owner!Next
  <2>0. PICK p \in Proposals : p = job[c]
    BY <1>2, RunningCall DEF acquireProposalExecution
  <2>1. p \in Proposals /\ ckey[c] # None
    BY <2>0, <1>2, RunningCall, ConstantsAssumption DEF acquireProposalExecution
  <2>2. keyOf[p] = None /\ \A q \in Proposals \ {p} : BudgetOfP(q) = BudgetOfP(p) => ~Holds(q)
    BY <2>0, <1>2, <2>1 DEF acquireProposalExecution, Acquirable, FenceFree
  <2>3. status[p] = "none" /\ dispatches[p] = 0
    BY <2>0, <2>1, <2>2 DEF FenceInvariant, ClaimMatchesAcquisition
  <2>4. status' = [status EXCEPT ![p] = "in_progress"] /\ UNCHANGED <<outcome, dispatches>>
    BY <2>0, <1>2 DEF acquireProposalExecution
  <2>5. Phase(p) = "none" /\ Phase(p)' = "owned"
    BY <2>0, <2>1, <2>3, <2>4 DEF Phase, Holds, TypeOK
  <2>6. Map' = [Map EXCEPT ![p] = "owned"]
    BY <2>0, <2>1, <2>4, <2>5, OnePhase DEF TypeOK
  <2>7. \A q \in Proposals : Phase(q) \in {"owned", "dispatched"} => Holds(q)
    BY DEF Phase
  <2> QED
    BY <2>0, <2>1, <2>2, <2>5, <2>6, <2>7 DEF Owner!Next, Owner!Acquire, Owner!Owns, Map
<1>3. ASSUME NEW c \in Calls, Dispatch(c) PROVE Owner!Next
  <2>0. PICK p \in Proposals : p = job[c]
    BY <1>3, RunningCall DEF Dispatch
  <2>1. p \in Proposals /\ dispatches[p] = 0 /\ status[p] = "in_progress"
    BY <2>0, <1>3 DEF Dispatch, ExecutionCurrent, FenceInvariant, OwnerKnowsDispatch, Owning,
       PreDispatch, PostDispatch, FailPath
  <2>2. dispatches' = [dispatches EXCEPT ![p] = 1] /\ UNCHANGED <<status, outcome>>
    BY <2>0, <1>3, <2>1 DEF Dispatch, TypeOK
  <2>3. Phase(p) = "owned" /\ Phase(p)' = "dispatched"
    BY <2>0, <2>1, <2>2 DEF Phase, Holds, TypeOK
  <2>4. Map' = [Map EXCEPT ![p] = "dispatched"]
    BY <2>0, <2>1, <2>2, <2>3, OnePhase DEF TypeOK
  <2> QED
    BY <2>0, <2>1, <2>3, <2>4 DEF Owner!Next, Owner!Dispatch, Map
<1>4. ASSUME NEW c \in Calls, CompleteResult(c) PROVE [Owner!Next]_Map
  <2>0. PICK p \in Proposals : p = job[c]
    BY <1>4, RunningCall DEF CompleteResult
  <2>1. p \in Proposals /\ dispatches[p] = 1 /\ outcome[p] = "none" /\ status[p] # "none"
    BY <2>0, <1>4, RunningCall, ConstantsAssumption DEF CompleteResult, FenceInvariant, OwnerKnowsDispatch,
       ClaimMatchesAcquisition, Owning, PreDispatch, PostDispatch, FailPath
  <2>2. UNCHANGED <<outcome, dispatches>>
    BY <2>0, <1>4 DEF CompleteResult
  <2>3. CASE UNCHANGED status
    BY <2>0, <2>2, <2>3, PhaseStutters
  <2>4. ASSUME NEW s \in {"succeeded", "terminal_failed"}, status' = [status EXCEPT ![p] = s],
               status[p] \in {"in_progress", "retryable_failed"}
        PROVE  [Owner!Next]_Map
    <3>1. Phase(p) = "dispatched"
      BY <2>0, <2>1, <2>4 DEF Phase, Holds
    <3>2. Map' = [Map EXCEPT ![p] = Phase(p)']
      BY <2>0, <2>1, <2>2, <2>4, OnePhase DEF TypeOK
    <3>3. CASE s = "succeeded"
      <4>1. Phase(p)' = "succeeded"
        BY <2>0, <2>1, <2>4, <3>3 DEF Phase, TypeOK
      <4> QED
        BY <2>0, <2>1, <3>1, <3>2, <4>1 DEF Owner!Next, Owner!Succeed, Map
    <3>4. CASE s = "terminal_failed"
      <4>1. Phase(p)' = "dispatched"
        BY <2>0, <2>1, <2>2, <2>4, <3>4 DEF Phase, Holds, TypeOK
      <4> QED
        BY ZenonT(40), <2>0, <2>1, <3>1, <3>2, <4>1 DEF Map
    <3> QED
      BY <2>0, <2>4, <3>3, <3>4
  <2> QED
    BY <2>0, <1>4, <2>3, <2>4 DEF CompleteResult, CompleteRecord
<1>5. ASSUME NEW c \in Calls, RecordFailure(c) PROVE [Owner!Next]_Map
  <2>0. PICK p \in Proposals : p = job[c]
    BY <1>5, RunningCall DEF RecordFailure
  <2>1. p \in Proposals /\ outcome[p] = "none"
    BY <2>0, <1>5 DEF RecordFailure, FenceInvariant, OwnerKnowsDispatch, Owning, FailPath
  <2>2. UNCHANGED <<outcome, dispatches>>
    BY <2>0, <1>5 DEF RecordFailure
  <2>3. CASE UNCHANGED status
    BY <2>0, <2>2, <2>3, PhaseStutters
  <2>4. CASE /\ status' = [status EXCEPT ![p] = "terminal_failed"]
             /\ status[p] \in {"in_progress", "retryable_failed"}
    <3>1. Phase(p)' = Phase(p)
      BY <2>0, <2>1, <2>2, <2>4 DEF Phase, Holds, TypeOK
    <3>2. Map' = [Map EXCEPT ![p] = Phase(p)']
      BY <2>0, <2>1, <2>2, <2>4, OnePhase DEF TypeOK
    <3> QED
      BY <2>0, <2>1, <3>1, <3>2 DEF Map
  <2> QED
    BY <2>0, <1>5, <2>3, <2>4 DEF RecordFailure, CompleteRecord
<1>6. ASSUME NEW c \in Calls, AppendAudit(c) PROVE [Owner!Next]_Map
  <2>0. PICK p \in Proposals : p = job[c]
    BY <1>6, RunningCall DEF AppendAudit
  <2>1. p \in Proposals /\ outcome[p] = "none"
    BY <2>0, <1>6 DEF AppendAudit, FenceInvariant, OwnerKnowsDispatch, Owning, PostDispatch
  <2>2. \A q \in Proposals : outcome'[q] = "no_dispatch" <=> outcome[q] = "no_dispatch"
    BY <2>0, <1>6, <2>1 DEF AppendAudit, TypeOK
  <2> QED
    BY <2>0, <1>6, <2>2 DEF AppendAudit, Map, Phase, Holds
<1>7. ASSUME NEW c \in Calls, AppendFailureAudit(c) PROVE [Owner!Next]_Map
  <2>0. PICK p \in Proposals : p = job[c]
    BY <1>7, RunningCall DEF AppendFailureAudit
  <2>1. /\ p \in Proposals /\ outcome[p] = "none" /\ status[p] # "none"
        /\ ~started[c] => dispatches[p] = 0
    BY <2>0, <1>7, RunningCall, ConstantsAssumption DEF AppendFailureAudit, FenceInvariant,
       OwnerKnowsDispatch, ClaimMatchesAcquisition, Owning, FailPath
  <2>2. UNCHANGED <<status, dispatches>>
    BY <2>0, <1>7 DEF AppendFailureAudit
  <2>3. CASE \A q \in Proposals : outcome'[q] = "no_dispatch" <=> outcome[q] = "no_dispatch"
    BY <2>0, <2>2, <2>3 DEF Map, Phase, Holds
  <2>4. CASE outcome' = [outcome EXCEPT ![p] = "no_dispatch"] /\ ~started[c]
    <3>1. Map' = [Map EXCEPT ![p] = Phase(p)']
      BY <2>0, <2>1, <2>2, <2>4, OnePhase DEF TypeOK
    <3>2. CASE status[p] \in {"in_progress", "succeeded"}
      BY <2>0, <2>1, <2>2, <2>4, <3>1, <3>2 DEF Map, Phase, Holds, TypeOK
    <3>3. CASE status[p] \in {"retryable_failed", "terminal_failed"}
      <4>1. Phase(p) = "owned" /\ Phase(p)' = "released"
        BY <2>0, <2>1, <2>2, <2>4, <3>3 DEF Phase, Holds, TypeOK
      <4>2. Map' = [q \in Proposals |-> IF q \in {p} THEN "released" ELSE Map[q]]
        BY <3>1, <4>1 DEF Map
      <4>3. Owner!Release({p})
        BY <4>1, <4>2 DEF Owner!Release, Map
      <4> QED
        BY <4>3 DEF Owner!Next
    <3> QED
      BY <2>0, <2>1, <3>2, <3>3 DEF TypeOK, Statuses
  <2> QED
    BY <2>0, <1>7, <2>1, <2>3, <2>4 DEF AppendFailureAudit, FailureOutcome, TypeOK
<1>8. ASSUME reconcileStrandedIdempotencyRecords PROVE [Owner!Next]_Map
  <2> DEFINE W == {p \in Stranded : outcome[p] = "no_dispatch"}
  <2>1. UNCHANGED <<outcome, dispatches>>
    BY <1>8 DEF reconcileStrandedIdempotencyRecords
  <2>2. ASSUME NEW p \in W PROVE Phase(p) = "owned" /\ Phase(p)' = "released"
    BY <1>8, <2>1 DEF reconcileStrandedIdempotencyRecords, Stranded, Phase, Holds, FenceInvariant,
       ReleaseMeansNoDispatch
  <2>3. ASSUME NEW p \in Proposals \ W PROVE Phase(p)' = Phase(p)
    BY <1>8, <2>1 DEF reconcileStrandedIdempotencyRecords, Stranded, Phase, Holds
  <2>4. W \in SUBSET Proposals
    BY DEF Stranded
  <2>5. Map' = [p \in Proposals |-> IF p \in W THEN "released" ELSE Map[p]]
    BY <2>2, <2>3, <2>4 DEF Map
  <2>6. CASE W = {}
    BY <2>3, <2>6 DEF Map
  <2>7. CASE W # {}
    <3>1. Owner!Release(W)
      BY <2>2, <2>4, <2>5, <2>7 DEF Owner!Release, Map
    <3> QED
      BY <2>4, <3>1 DEF Owner!Next
  <2> QED
    BY <2>6, <2>7
<1> QED
  BY <1>1, <1>2, <1>3, <1>4, <1>5, <1>6, <1>7, <1>8, ZenonT(60)
     DEF Next, Work, Disruption, Call, Step, createProposal, createApproval, LapseApproval,
         LapseProposal, supersedeProposal, discardProposal, TouchReview, ExpireLease, ExternalEdit,
         synchronize, Crash, Begin, ReplayOrRefuse, SyncAndPlan, CheckCategory, DispatchRefused,
         Push, Reread, completeVerifiedCategorizationReview

\* Every execution of proposals is an execution of the abstract owner: a budget goes
\* from one proposal to the next only over a recorded success, or over an audit that
\* proves nothing was dispatched.
THEOREM ImplementsOwner == Spec => OwnerSpec
<1>1. TypeOK /\ FenceInvariant /\ [Next]_vars => [Owner!Next]_[p \in Proposals |-> Phase(p)]
  BY StepMaps DEF Map
<1> QED
  BY <1>1, InitMaps, TypeCorrect, FenceHolds, PTL DEF Spec, OwnerSpec, Owner!Spec

\* OneOwner is inductive in the abstract store: only Acquire makes a write an owner, and it
\* looks at every other write of the budget in the same transaction.
LEMMA OneOwnerStep ==
    ASSUME Owner!OneOwner, [Owner!Next]_Map
    PROVE  Owner!OneOwner'
<1> USE DEF Owner!OneOwner, Owner!Owns, Owner!Phases
<1> HIDE DEF vars
<1>1. CASE UNCHANGED Map
  BY <1>1 DEF Map
<1>2. ASSUME NEW p \in Proposals, Owner!Acquire(p) PROVE Owner!OneOwner'
  BY <1>2 DEF Owner!Acquire
<1>3. ASSUME NEW p \in Proposals, Owner!Dispatch(p) PROVE Owner!OneOwner'
  BY <1>3 DEF Owner!Dispatch
<1>4. ASSUME NEW p \in Proposals, Owner!Succeed(p) PROVE Owner!OneOwner'
  BY <1>4 DEF Owner!Succeed
<1>5. ASSUME NEW W \in SUBSET Proposals, Owner!Release(W) PROVE Owner!OneOwner'
  BY <1>5 DEF Owner!Release
<1> QED
  BY <1>1, <1>2, <1>3, <1>4, <1>5 DEF Owner!Next

\* The guarantee hasConflictingBudgetMutationOwner gives each acquisition: a budget has at
\* most one owner, so no two proposals of one budget are ever owned or dispatched together.
THEOREM OneOwnerAlways == Spec => []Owner!OneOwner
<1>1. Owner!Init => Owner!OneOwner
  BY DEF Owner!Init, Owner!OneOwner, Owner!Owns, Owner!Phases
<1>2. Owner!OneOwner /\ [Owner!Next]_[p \in Proposals |-> Phase(p)] => Owner!OneOwner'
  BY OneOwnerStep DEF Map
<1> QED
  BY <1>1, <1>2, ImplementsOwner, PTL DEF OwnerSpec, Owner!Spec
==============================================================================
