-------------------------- MODULE ProposalExecution --------------------------
(***************************************************************************)
(* Execution of an approved set_category proposal: the workflow store's    *)
(* acquisition transaction, the categorization service that runs between   *)
(* two of its awaits, and the Actual connector that carries the write.     *)
(*                                                                         *)
(* - The store (SQLite, every method one IMMEDIATE transaction) keeps the  *)
(*   proposal, its human approvals, the single execution acquisition with  *)
(*   its idempotency record and lease, the failure audit that may release  *)
(*   the budget, and the linked review item.                               *)
(* - An execute() call is a process: it starts, acquires, synchronizes and *)
(*   plans, takes the connector's budget lock, dispatches the update,      *)
(*   pushes and rereads it, then records result, review and audit. Other   *)
(*   calls, humans, clocks and crashes interleave at every await.          *)
(* - Actual keeps a local replica that a sync merges with the server; the  *)
(*   write with the latest timestamp wins.                                 *)
(***************************************************************************)
EXTENDS Integers, FiniteSets

CONSTANTS
    Proposals,      \* identities of set_category proposals
    Budgets,
    Txs,            \* ledger transactions
    BudgetOf,       \* [Txs -> Budgets]
    TxOf,           \* [Proposals -> Txs], the payload's transactionId
    Categories,
    CategoryOf,     \* [Proposals -> Categories], the payload's categoryId
    Reviews,
    ReviewOf,       \* [Proposals -> Reviews \cup {None}]
    Approvers,      \* humans who may vote
    Required,       \* approvals the governance policy asks for
    Calls,          \* concurrent execute() calls
    Actors,
    ActorOf,        \* [Calls -> Actors], the call's trusted executor
    Keys,           \* idempotency keys
    MaxReviewVersion,
    None

ASSUME ConstantsAssumption ==
    /\ IsFiniteSet(Approvers)
    /\ BudgetOf \in [Txs -> Budgets]
    /\ TxOf \in [Proposals -> Txs]
    /\ CategoryOf \in [Proposals -> Categories]
    /\ ReviewOf \in [Proposals -> Reviews \cup {None}]
    /\ ActorOf \in [Calls -> Actors]
    /\ Required \in Nat \ {0}
    /\ MaxReviewVersion \in Nat
    /\ None \notin Proposals \cup Categories \cup Reviews \cup Calls \cup Actors \cup Keys

VARIABLES
    \* ----- workflow store
    pstate,     \* action_proposals: absent, open, closed (expired or superseded), or
                \* revoked (requester, origin, space or policy no longer current)
    provenance, \* review version the proposal was created from
    expected,   \* category the approved plan replaces
    votes,      \* active, eligible approvals of each proposal
    spent,      \* approvals consumed by the acquisition
    lapsed,     \* consumed approvals whose authority has lapsed since
    keyOf,      \* acquisition and idempotency record: the key, or None
    byActor,    \* acquisition: its actor, or None
    status,     \* idempotency_status
    completed,  \* idempotency_records.completed
    leased,     \* the acquisition's lease has not run out
    outcome,    \* closing audit record of the acquired execution
    rstate,     \* review_items: open, closed, applied or superseded
    rversion,
    corrected,  \* proposals with a verified correction row
    \* ----- Actual
    server, replica,
    pending,    \* proposal whose write to the transaction is not pushed yet
    \* ----- server process
    lock,       \* connector's lock per budget
    pc, job, ckey,
    started,    \* dispatchState.dispatchStarted
    good,       \* verdict carried to the end of the call
    \* ----- history
    landed,     \* written proposals whose category a sync has seen on the server
    dispatches, \* updateTransaction calls issued for a proposal
    overwrote,  \* category the replica held when the update was issued
    discarded

proposalVars == <<pstate, provenance, expected>>
voteVars     == <<votes, spent, lapsed>>
claimVars    == <<keyOf, byActor, status, completed, leased, outcome>>
reviewVars   == <<rstate, rversion, corrected>>
ledgerVars   == <<server, replica, pending, landed>>
localVars    == <<job, ckey, started, good>>
historyVars  == <<dispatches, overwrote, discarded>>
storeVars    == <<proposalVars, voteVars, claimVars, reviewVars>>
callVars     == <<lock, pc, localVars>>
vars == <<storeVars, ledgerVars, callVars, historyVars>>

ProposalStates == {"absent", "open", "closed", "revoked"}
Statuses == {"none", "in_progress", "retryable_failed", "terminal_failed", "succeeded"}
Outcomes == {"none", "no_dispatch", "failed", "completed"}
ReviewStates == {"open", "closed", "applied", "superseded"}
PreDispatch == {"sync", "check", "dispatch"}
PostDispatch == {"push", "reread", "complete", "review", "audit"}
FailPath == {"fail_record", "fail_audit"}
Owning == PreDispatch \cup PostDispatch \cup FailPath
Pcs == {"idle", "acquire", "replay_review"} \cup Owning
MaybeCategory == Categories \cup {None}

BudgetOfP(p) == BudgetOf[TxOf[p]]

------------------------------------------------------------------------------
(* Reads of the store. *)

ReviewCurrent(p) ==
    ReviewOf[p] # None =>
        /\ rstate[ReviewOf[p]] = "open"
        /\ rversion[ReviewOf[p]] = provenance[p]

\* Variant: only a running record keeps its budget.
Holds_RunningOnly(p) == status[p] = "in_progress"

\* The record keeps its budget: it is running, or it failed and no audit proves
\* that nothing was dispatched.
Holds(p) ==
    \/ status[p] = "in_progress"
    \/ /\ status[p] \in {"retryable_failed", "terminal_failed"}
       /\ outcome[p] # "no_dispatch"

FenceFree(p) ==
    \A q \in Proposals \ {p} : BudgetOfP(q) = BudgetOfP(p) => ~Holds(q)

TerminalReplay(k) ==
    \E q \in Proposals : keyOf[q] = k /\ status[q] \in {"succeeded", "terminal_failed"}

CompletedReplay(c) ==
    LET p == job[c] IN
    keyOf[p] = ckey[c] /\ byActor[p] = ActorOf[c] /\ completed[p]

\* The checks common to fresh acquisition, replay and validation.
Admitted(c) ==
    \/ pstate[job[c]] = "open"
    \/ pstate[job[c]] = "closed" /\ CompletedReplay(c)

\* Variant: a proposal that was acquired before may be acquired again.
Acquirable_Again(c) ==
    LET p == job[c] IN
    /\ Admitted(c)
    /\ ReviewCurrent(p)
    /\ \A q \in Proposals : keyOf[q] # ckey[c]
    /\ FenceFree(p)
    /\ Cardinality(votes[p]) >= Required

Acquirable(c) ==
    LET p == job[c] IN
    /\ Admitted(c)
    /\ keyOf[p] = None
    /\ ReviewCurrent(p)
    /\ \A q \in Proposals : keyOf[q] # ckey[c]
    /\ FenceFree(p)
    /\ Cardinality(votes[p]) >= Required

Replayable(c) ==
    LET p == job[c] IN
    /\ Admitted(c)
    /\ keyOf[p] = ckey[c]
    /\ byActor[p] = ActorOf[c]
    /\ status[p] = "succeeded"

\* Variant: the consumed approvals are not looked at again.
ExecutionCurrent_TrustsApprovals(c) ==
    LET p == job[c] IN
    /\ pstate[p] = "open"
    /\ keyOf[p] = ckey[c]
    /\ byActor[p] = ActorOf[c]
    /\ ~completed[p]
    /\ status[p] = "in_progress"
    /\ leased[p]
    /\ ReviewCurrent(p)
    /\ FenceFree(p)

\* validateAcquiredProposalExecution, run by the connector right before the write.
ExecutionCurrent(c) ==
    LET p == job[c] IN
    /\ pstate[p] = "open"
    /\ keyOf[p] = ckey[c]
    /\ byActor[p] = ActorOf[c]
    /\ ~completed[p]
    /\ status[p] = "in_progress"
    /\ leased[p]
    /\ ReviewCurrent(p)
    /\ spent[p] \cap lapsed[p] = {}
    /\ Cardinality(spent[p]) >= Required
    /\ FenceFree(p)

------------------------------------------------------------------------------
Init ==
    /\ pstate = [p \in Proposals |-> "absent"]
    /\ provenance = [p \in Proposals |-> 0]
    /\ expected = [p \in Proposals |-> None]
    /\ votes = [p \in Proposals |-> {}]
    /\ spent = [p \in Proposals |-> {}]
    /\ lapsed = [p \in Proposals |-> {}]
    /\ keyOf = [p \in Proposals |-> None]
    /\ byActor = [p \in Proposals |-> None]
    /\ status = [p \in Proposals |-> "none"]
    /\ completed = [p \in Proposals |-> FALSE]
    /\ leased = [p \in Proposals |-> FALSE]
    /\ outcome = [p \in Proposals |-> "none"]
    /\ rstate = [r \in Reviews |-> "open"]
    /\ rversion = [r \in Reviews |-> 0]
    /\ corrected = {}
    /\ server = [t \in Txs |-> None]
    /\ replica = server
    /\ pending = [t \in Txs |-> None]
    /\ lock = [b \in Budgets |-> None]
    /\ pc = [c \in Calls |-> "idle"]
    /\ job = [c \in Calls |-> None]
    /\ ckey = [c \in Calls |-> None]
    /\ started = [c \in Calls |-> FALSE]
    /\ good = [c \in Calls |-> FALSE]
    /\ dispatches = [p \in Proposals |-> 0]
    /\ overwrote = [p \in Proposals |-> None]
    /\ landed = {}
    /\ discarded = {}

------------------------------------------------------------------------------
(* Proposals, approvals and reviews: what humans and clocks do. *)

\* A proposal binds the category it replaces and the review version it came from.
createProposal(p) ==
    /\ pstate[p] = "absent"
    /\ ReviewOf[p] # None => rstate[ReviewOf[p]] = "open"
    /\ pstate' = [pstate EXCEPT ![p] = "open"]
    /\ expected' = [expected EXCEPT ![p] = replica[TxOf[p]]]
    /\ provenance' = [provenance EXCEPT
                        ![p] = IF ReviewOf[p] = None THEN 0 ELSE rversion[ReviewOf[p]]]
    /\ UNCHANGED <<voteVars, claimVars, reviewVars, ledgerVars, callVars, historyVars>>

createApproval(p, a) ==
    /\ pstate[p] = "open"
    /\ a \notin votes[p]
    /\ votes' = [votes EXCEPT ![p] = @ \cup {a}]
    /\ UNCHANGED <<proposalVars, spent, lapsed, claimVars, reviewVars, ledgerVars, callVars,
                   historyVars>>

\* An approval expires, or its issuer loses the membership or capability it rests on.
LapseApproval(p, a) ==
    /\ \/ /\ a \in votes[p]
          /\ votes' = [votes EXCEPT ![p] = @ \ {a}]
          /\ UNCHANGED lapsed
       \/ /\ a \in spent[p] \ lapsed[p]
          /\ lapsed' = [lapsed EXCEPT ![p] = @ \cup {a}]
          /\ UNCHANGED votes
    /\ UNCHANGED <<proposalVars, spent, claimVars, reviewVars, ledgerVars, callVars, historyVars>>

\* The proposal's expiry passes, or what it was proposed under stops being current.
LapseProposal(p) ==
    /\ \/ /\ pstate[p] = "open"
          /\ pstate' = [pstate EXCEPT ![p] = "closed"]
       \/ /\ pstate[p] \in {"open", "closed"}
          /\ pstate' = [pstate EXCEPT ![p] = "revoked"]
    /\ UNCHANGED <<provenance, expected, voteVars, claimVars, reviewVars, ledgerVars, callVars,
                   historyVars>>

MarkSuperseded(p) ==
    /\ pstate' = [pstate EXCEPT ![p] = "closed"]
    /\ votes' = [votes EXCEPT ![p] = {}]

supersedeProposal(p) ==
    /\ pstate[p] \in {"open", "closed"}
    /\ MarkSuperseded(p)
    /\ UNCHANGED <<provenance, expected, spent, lapsed, claimVars, reviewVars,
                   ledgerVars, callVars, historyVars>>

Discardable(p) == pstate[p] \in {"open", "closed"} /\ keyOf[p] = None

\* A human discards: refused once an execution has been acquired.
discardProposal(p) ==
    /\ Discardable(p)
    /\ MarkSuperseded(p)
    /\ discarded' = discarded \cup {p}
    /\ UNCHANGED <<provenance, expected, spent, lapsed, claimVars, reviewVars,
                   ledgerVars, callVars, dispatches, overwrote>>

\* A reviewer moves the item (transition, category change, undo), or a newer item
\* supersedes it: the version moves on, as ReviewCell says.
ReviewMoves ==
    [open |-> {"open", "closed", "superseded"},
     closed |-> {"open", "closed", "applied", "superseded"},
     applied |-> {"applied", "superseded"},
     superseded |-> {"superseded"}]

TouchReview(r) ==
    /\ rversion[r] < MaxReviewVersion
    /\ rversion' = [rversion EXCEPT ![r] = @ + 1]
    /\ \E s \in ReviewMoves[rstate[r]] : rstate' = [rstate EXCEPT ![r] = s]
    /\ UNCHANGED <<proposalVars, voteVars, claimVars, corrected, ledgerVars, callVars,
                   historyVars>>

ExpireLease(p) ==
    /\ status[p] = "in_progress" /\ leased[p]
    /\ leased' = [leased EXCEPT ![p] = FALSE]
    /\ UNCHANGED <<proposalVars, voteVars, keyOf, byActor, status, completed, outcome, reviewVars,
                   ledgerVars, callVars, historyVars>>

\* Variant: a lease that ran out strands the record whatever its status.
Stranded_AnyStatus == {p \in Proposals : keyOf[p] # None /\ ~leased[p]}

Stranded == {p \in Proposals : status[p] = "in_progress" /\ ~leased[p]}

reconcileStrandedIdempotencyRecords ==
    /\ Stranded # {}
    /\ status' = [p \in Proposals |-> IF p \in Stranded THEN "retryable_failed" ELSE status[p]]
    /\ UNCHANGED <<proposalVars, voteVars, keyOf, byActor, completed, leased, outcome, reviewVars,
                   ledgerVars, callVars, historyVars>>

------------------------------------------------------------------------------
(* The Actual client: a replica per budget and a last-writer-wins merge. *)

Merged(b) ==
    [t \in Txs |-> IF BudgetOf[t] = b /\ pending[t] # None THEN replica[t] ELSE server[t]]

SyncLedger(b) ==
    /\ server' = Merged(b)
    /\ replica' = [t \in Txs |-> IF BudgetOf[t] = b THEN Merged(b)[t] ELSE replica[t]]
    /\ pending' = [t \in Txs |-> IF BudgetOf[t] = b THEN None ELSE pending[t]]
    /\ landed' = landed \cup {p \in Proposals : /\ BudgetOfP(p) = b
                                              /\ dispatches[p] > 0
                                              /\ Merged(b)[TxOf[p]] = CategoryOf[p]}

\* Another Actual client writes: newer than, so it beats, an unpushed local write.
ExternalEdit(t, x) ==
    /\ server' = [server EXCEPT ![t] = x]
    /\ pending' = [pending EXCEPT ![t] = None]
    /\ UNCHANGED <<storeVars, replica, landed, callVars, historyVars>>

\* A refresh or another reader synchronizes the selected budget.
synchronize(b) ==
    /\ lock[b] = None
    /\ SyncLedger(b)
    /\ UNCHANGED <<storeVars, callVars, historyVars>>

------------------------------------------------------------------------------
(* CategorizationMutationService.execute, one action per stretch between awaits. *)

Goto(c, l) == pc' = [pc EXCEPT ![c] = l]

\* execute() returns and its local state is gone.
Return(c) ==
    /\ pc' = [pc EXCEPT ![c] = "idle"]
    /\ job' = [job EXCEPT ![c] = None]
    /\ ckey' = [ckey EXCEPT ![c] = None]
    /\ started' = [started EXCEPT ![c] = FALSE]
    /\ good' = [good EXCEPT ![c] = FALSE]

\* Variant: the lock outlives the call that took it.
FreeLock_Leaks(c) == UNCHANGED lock

FreeLock(c) == lock' = [lock EXCEPT ![BudgetOfP(job[c])] = None]

\* Variant: a status the schema does not know.
CompleteRecord_UnknownStatus(p, s) ==
    /\ status' = [status EXCEPT ![p] = IF s = "succeeded" THEN s ELSE "failed"]
    /\ completed' = [completed EXCEPT ![p] = TRUE]

\* completeIdempotencyStmt: terminal statuses never move.
CompleteRecord(p, s) ==
    IF status[p] \in {"in_progress", "retryable_failed"}
    THEN /\ status' = [status EXCEPT ![p] = s]
         /\ completed' = [completed EXCEPT ![p] = TRUE]
    ELSE UNCHANGED <<status, completed>>

\* Load the proposal; a key with a terminal record skips the early checks.
Begin(c, p, k) ==
    /\ pc[c] = "idle"
    /\ pstate[p] # "absent"
    /\ TerminalReplay(k) \/ (pstate[p] = "open" /\ ReviewCurrent(p))
    /\ Goto(c, "acquire")
    /\ job' = [job EXCEPT ![c] = p]
    /\ ckey' = [ckey EXCEPT ![c] = k]
    /\ UNCHANGED <<storeVars, ledgerVars, lock, started, good, historyVars>>

\* The linearization point: claim the key, own the proposal, consume its approvals.
acquireProposalExecution(c) ==
    LET p == job[c] IN
    /\ pc[c] = "acquire"
    /\ Acquirable(c)
    /\ \E S \in SUBSET votes[p] :
         /\ Cardinality(S) = Required
         /\ spent' = [spent EXCEPT ![p] = S]
         /\ votes' = [votes EXCEPT ![p] = @ \ S]
    /\ keyOf' = [keyOf EXCEPT ![p] = ckey[c]]
    /\ byActor' = [byActor EXCEPT ![p] = ActorOf[c]]
    /\ status' = [status EXCEPT ![p] = "in_progress"]
    /\ leased' = [leased EXCEPT ![p] = TRUE]
    /\ Goto(c, "sync")
    /\ UNCHANGED <<proposalVars, lapsed, completed, outcome, reviewVars, ledgerVars, lock,
                   localVars, historyVars>>

\* Not the owner, or refused: a stored success may still owe its review.
ReplayOrRefuse(c) ==
    /\ pc[c] = "acquire"
    /\ ~Acquirable(c)
    /\ IF Replayable(c) /\ ReviewOf[job[c]] # None
       THEN Goto(c, "replay_review") /\ UNCHANGED <<localVars>>
       ELSE Return(c)
    /\ UNCHANGED <<storeVars, ledgerVars, lock, historyVars>>

\* The fresh plan replaces the category the approved plan replaces.
PreconditionsMatch(p) == Merged(BudgetOfP(p))[TxOf[p]] = expected[p]

\* Synchronize, find transaction and category, plan, compare with what was approved.
SyncAndPlan(c) ==
    LET p == job[c]
        b == BudgetOfP(p) IN
    /\ pc[c] = "sync"
    /\ lock[b] = None
    /\ \/ /\ SyncLedger(b)
          /\ Goto(c, IF PreconditionsMatch(p) THEN "check" ELSE "fail_record")
       \/ /\ UNCHANGED ledgerVars   \* sync_failed, stale_snapshot, missing facts, plan_failed
          /\ Goto(c, "fail_record")
    /\ UNCHANGED <<storeVars, lock, localVars, historyVars>>

\* An expected category of null accepts whatever the replica holds.
PreconditionHolds(p) == expected[p] = None \/ replica[TxOf[p]] = expected[p]

\* setTransactionCategory takes the budget lock and reads the replica.
CheckCategory(c) ==
    LET p == job[c]
        b == BudgetOfP(p) IN
    /\ pc[c] = "check"
    /\ lock[b] = None
    /\ \/ /\ PreconditionHolds(p)
          /\ lock' = [lock EXCEPT ![b] = c]
          /\ good' = [good EXCEPT ![c] = (replica[TxOf[p]] = expected[p])]
          /\ Goto(c, "dispatch")
       \/ /\ UNCHANGED <<lock, good>>   \* precondition, missing transaction or category
          /\ Goto(c, "fail_record")
    /\ UNCHANGED <<storeVars, ledgerVars, job, ckey, started, historyVars>>

\* assertExecutionCurrent and the update it guards are one synchronous stretch.
Dispatch(c) ==
    LET p == job[c]
        t == TxOf[p] IN
    /\ pc[c] = "dispatch"
    /\ ExecutionCurrent(c)
    /\ started' = [started EXCEPT ![c] = TRUE]
    /\ dispatches' = [dispatches EXCEPT ![p] = @ + 1]
    /\ overwrote' = [overwrote EXCEPT ![p] = replica[t]]
    /\ \/ /\ replica' = [replica EXCEPT ![t] = CategoryOf[p]]
          /\ pending' = [pending EXCEPT ![t] = p]
          /\ \/ Goto(c, "push") /\ UNCHANGED lock
             \/ Goto(c, "fail_record") /\ FreeLock(c)   \* threw after the write
       \/ /\ UNCHANGED <<replica, pending>>             \* threw before it
          /\ Goto(c, "fail_record")
          /\ FreeLock(c)
    /\ UNCHANGED <<storeVars, server, landed, job, ckey, good, discarded>>

\* The assertion threw, or the selected budget changed: nothing was dispatched.
DispatchRefused(c) ==
    /\ pc[c] = "dispatch"
    /\ Goto(c, "fail_record")
    /\ FreeLock(c)
    /\ UNCHANGED <<storeVars, ledgerVars, localVars, historyVars>>

\* Push and reread under the lock. A sync that reports failure may still have arrived.
Push(c) ==
    LET p == job[c]
        b == BudgetOfP(p) IN
    /\ pc[c] = "push"
    /\ \/ /\ SyncLedger(b)
          /\ Goto(c, IF Merged(b)[TxOf[p]] = CategoryOf[p] THEN "reread" ELSE "fail_record")
       \/ /\ SyncLedger(b) \/ UNCHANGED ledgerVars
          /\ Goto(c, "fail_record")
    /\ FreeLock(c)
    /\ UNCHANGED <<storeVars, localVars, historyVars>>

\* Variant: the write result is not compared with the approved plan.
Verified_LedgerOnly(c) == Merged(BudgetOfP(job[c]))[TxOf[job[c]]] = CategoryOf[job[c]]

Verified(c) == good[c] /\ Merged(BudgetOfP(job[c]))[TxOf[job[c]]] = CategoryOf[job[c]]

\* The fresh reread, Rust verifyMutation and the comparison with the write result.
Reread(c) ==
    LET p == job[c]
        b == BudgetOfP(p) IN
    /\ pc[c] = "reread"
    /\ lock[b] = None
    /\ \/ /\ SyncLedger(b)
          /\ good' = [good EXCEPT ![c] = Verified(c)]
          /\ Goto(c, "complete")
       \/ /\ SyncLedger(b) \/ UNCHANGED ledgerVars   \* reread_failed
          /\ UNCHANGED good
          /\ Goto(c, "fail_record")
    /\ UNCHANGED <<storeVars, lock, job, ckey, started, historyVars>>

\* Store the verified result, or the failed verification; the store may be unavailable.
CompleteResult(c) ==
    LET p == job[c] IN
    /\ pc[c] = "complete"
    /\ \/ /\ good[c]
          /\ CompleteRecord(p, "succeeded")
          /\ status'[p] = "succeeded"
          /\ Goto(c, IF ReviewOf[p] # None THEN "review" ELSE "audit")
          /\ UNCHANGED good
       \/ /\ ~good[c]
          /\ CompleteRecord(p, "terminal_failed")
          /\ Goto(c, "audit")
          /\ UNCHANGED good
       \/ /\ Goto(c, "audit")
          /\ good' = [good EXCEPT ![c] = FALSE]
          /\ UNCHANGED <<status, completed>>
    /\ UNCHANGED <<proposalVars, voteVars, keyOf, byActor, leased, outcome, reviewVars,
                   ledgerVars, lock, job, ckey, started, historyVars>>

\* Variant: the review's version is not compared with the proposal's provenance.
ApplyReview_AnyVersion(p) ==
    /\ rstate' = [rstate EXCEPT ![ReviewOf[p]] = "applied"]
    /\ rversion' = [rversion EXCEPT ![ReviewOf[p]] = @ + 1]
    /\ corrected' = corrected \cup {p}

\* The store part of completeVerifiedCategorizationReview: once per proposal.
ApplyReview(p) ==
    IF p \in corrected
    THEN UNCHANGED <<reviewVars>>
    ELSE /\ ReviewCurrent(p)
         /\ rstate' = [rstate EXCEPT ![ReviewOf[p]] = "applied"]
         /\ rversion' = [rversion EXCEPT ![ReviewOf[p]] = @ + 1]
         /\ corrected' = corrected \cup {p}

AfterReview(c, ok) ==
    \/ /\ pc[c] = "review"
       /\ Goto(c, "audit")
       /\ good' = [good EXCEPT ![c] = ok]
       /\ UNCHANGED <<job, ckey, started>>
    \/ pc[c] = "replay_review" /\ Return(c)

completeVerifiedCategorizationReview(c) ==
    LET p == job[c] IN
    /\ pc[c] \in {"review", "replay_review"}
    /\ \/ /\ status[p] = "succeeded"
          /\ ApplyReview(p)
          /\ AfterReview(c, good[c])
       \/ /\ AfterReview(c, FALSE)   \* provenance changed or store unavailable
          /\ UNCHANGED <<reviewVars>>
    /\ UNCHANGED <<proposalVars, voteVars, claimVars, ledgerVars, lock, historyVars>>

\* The closing audit record; an unavailable store loses it.
AppendAudit(c) ==
    /\ pc[c] = "audit"
    /\ Return(c)
    /\ \/ outcome' = [outcome EXCEPT ![job[c]] = IF good[c] THEN "completed" ELSE "failed"]
       \/ UNCHANGED outcome
    /\ UNCHANGED <<proposalVars, voteVars, keyOf, byActor, status, completed, leased, reviewVars,
                   ledgerVars, lock, historyVars>>

\* recordFailure: best effort.
RecordFailure(c) ==
    /\ pc[c] = "fail_record"
    /\ Goto(c, "fail_audit")
    /\ CompleteRecord(job[c], "terminal_failed") \/ UNCHANGED <<status, completed>>
    /\ UNCHANGED <<proposalVars, voteVars, keyOf, byActor, leased, outcome, reviewVars,
                   ledgerVars, lock, localVars, historyVars>>

\* Variant: every failure claims that nothing was dispatched.
FailureOutcome_NeverDispatched(c) == "no_dispatch"

FailureOutcome(c) == IF started[c] THEN "failed" ELSE "no_dispatch"

\* appendFailureAudit / auditFailure with the dispatch state: best effort.
AppendFailureAudit(c) ==
    /\ pc[c] = "fail_audit"
    /\ Return(c)
    /\ \/ outcome' = [outcome EXCEPT ![job[c]] = FailureOutcome(c)]
       \/ UNCHANGED outcome
    /\ UNCHANGED <<proposalVars, voteVars, keyOf, byActor, status, completed, leased, reviewVars,
                   ledgerVars, lock, historyVars>>

\* The server process dies: every call and lock is gone, the database stays, and
\* writes the replica had not pushed may be lost with it.
Crash ==
    /\ \E c \in Calls : pc[c] # "idle"
    /\ pc' = [c \in Calls |-> "idle"]
    /\ job' = [c \in Calls |-> None]
    /\ ckey' = [c \in Calls |-> None]
    /\ started' = [c \in Calls |-> FALSE]
    /\ good' = [c \in Calls |-> FALSE]
    /\ lock' = [b \in Budgets |-> None]
    /\ \/ UNCHANGED <<replica, pending>>
       \/ replica' = server /\ pending' = [t \in Txs |-> None]
    /\ UNCHANGED <<storeVars, server, landed, historyVars>>

------------------------------------------------------------------------------
\* What goes wrong, or changes, underneath a running execution.
Disruption ==
    \/ \E p \in Proposals :
         \/ LapseProposal(p) \/ supersedeProposal(p) \/ discardProposal(p) \/ ExpireLease(p)
         \/ \E a \in Approvers : LapseApproval(p, a)
    \/ \E r \in Reviews : TouchReview(r)
    \/ \E t \in Txs, x \in MaybeCategory : ExternalEdit(t, x)
    \/ Crash

\* What a started call does next, on its own.
Step(c) ==
    \/ acquireProposalExecution(c) \/ ReplayOrRefuse(c) \/ SyncAndPlan(c) \/ CheckCategory(c)
    \/ Dispatch(c) \/ DispatchRefused(c) \/ Push(c) \/ Reread(c) \/ CompleteResult(c)
    \/ completeVerifiedCategorizationReview(c) \/ AppendAudit(c)
    \/ RecordFailure(c) \/ AppendFailureAudit(c)

Call(c) == Step(c) \/ \E p \in Proposals, k \in Keys : Begin(c, p, k)

Work ==
    \/ \E p \in Proposals : createProposal(p) \/ \E a \in Approvers : createApproval(p, a)
    \/ \E b \in Budgets : synchronize(b)
    \/ reconcileStrandedIdempotencyRecords
    \/ \E c \in Calls : Call(c)

Next == Work \/ Disruption

Spec == Init /\ [][Next]_vars

\* The event loop runs every pending continuation; the ledger answers or errors.
FairSpec == Spec /\ \A c \in Calls : WF_vars(Step(c))
------------------------------------------------------------------------------
(* Properties. *)

\* Every variable keeps its type, and a call has local state exactly while it runs.
TypeOK ==
    /\ pstate \in [Proposals -> ProposalStates]
    /\ provenance \in [Proposals -> Nat]
    /\ expected \in [Proposals -> MaybeCategory]
    /\ votes \in [Proposals -> SUBSET Approvers]
    /\ spent \in [Proposals -> SUBSET Approvers]
    /\ lapsed \in [Proposals -> SUBSET Approvers]
    /\ keyOf \in [Proposals -> Keys \cup {None}]
    /\ byActor \in [Proposals -> Actors \cup {None}]
    /\ status \in [Proposals -> Statuses]
    /\ completed \in [Proposals -> BOOLEAN]
    /\ leased \in [Proposals -> BOOLEAN]
    /\ outcome \in [Proposals -> Outcomes]
    /\ rstate \in [Reviews -> ReviewStates]
    /\ rversion \in [Reviews -> Nat]
    /\ corrected \in SUBSET Proposals
    /\ server \in [Txs -> MaybeCategory]
    /\ replica \in [Txs -> MaybeCategory]
    /\ pending \in [Txs -> Proposals \cup {None}]
    /\ landed \in SUBSET Proposals
    /\ lock \in [Budgets -> Calls \cup {None}]
    /\ pc \in [Calls -> Pcs]
    /\ job \in [Calls -> Proposals \cup {None}]
    /\ ckey \in [Calls -> Keys \cup {None}]
    /\ started \in [Calls -> BOOLEAN]
    /\ good \in [Calls -> BOOLEAN]
    /\ dispatches \in [Proposals -> Nat]
    /\ overwrote \in [Proposals -> MaybeCategory]
    /\ discarded \in SUBSET Proposals
    /\ \A c \in Calls : pc[c] # "idle" => job[c] \in Proposals /\ ckey[c] \in Keys

Unresolved(p) == dispatches[p] > 0 /\ status[p] # "succeeded"

\* The budget fence: no two proposals of one budget are ever both written and
\* unresolved, whatever crashed, expired, was reconciled or lost its audit.
OneUnresolvedWrite ==
    \A p, q \in Proposals :
        p # q /\ BudgetOfP(p) = BudgetOfP(q) => ~(Unresolved(p) /\ Unresolved(q))

\* Retries, replays, reclaimed leases and concurrent calls dispatch a proposal once.
AtMostOneDispatch == \A p \in Proposals : dispatches[p] <= 1

\* A discarded proposal never reaches the ledger, not even from a call in flight.
DiscardedNeverDispatched == \A p \in discarded : dispatches[p] = 0

\* A recorded success means: after the write the Actual server held the approved
\* category, and the write replaced the category the human approved replacing.
SuccessIsApprovedWrite ==
    \A p \in Proposals : status[p] = "succeeded" =>
        p \in landed /\ overwrote[p] = expected[p]

\* A write never replaces a category other than the approved one, except where the
\* plan expected an uncategorized transaction.
OverwritesOnlyExpected ==
    \A p \in Proposals : dispatches[p] > 0 /\ expected[p] # None => overwrote[p] = expected[p]

\* Nobody else writes or syncs a budget between a call's check and its push, and what the
\* call knows of the category it replaces is still so when it records the result.
WriterHoldsLock ==
    \A c \in Calls : pc[c] \in {"dispatch", "push"} => lock[BudgetOfP(job[c])] = c

Verdict(c) ==
    /\ pc[c] = "dispatch" =>
          /\ PreconditionHolds(job[c])
          /\ good[c] => replica[TxOf[job[c]]] = expected[job[c]]
    /\ pc[c] \in {"push", "reread", "complete"} /\ good[c] => overwrote[job[c]] = expected[job[c]]
    /\ pc[c] = "complete" /\ good[c] => job[c] \in landed

AcquiredExists == \A p \in Proposals : keyOf[p] # None => pstate[p] # "absent"

\* What is recorded, approved and in the ledger agree. The last three parts make it
\* inductive.
WritesApproved ==
    /\ SuccessIsApprovedWrite /\ OverwritesOnlyExpected
    /\ WriterHoldsLock /\ AcquiredExists /\ \A c \in Calls : Verdict(c)

\* A review is applied by one verified proposal and by no other; the correction
\* never outlives or precedes the recorded success. Only a proposal that came from a
\* review completes one.
ReviewAppliedOnce ==
    /\ \A p \in corrected : /\ status[p] = "succeeded" /\ ReviewOf[p] # None
                            /\ rstate[ReviewOf[p]] \in {"applied", "superseded"}
    /\ \A p, q \in corrected : ReviewOf[p] = ReviewOf[q] => p = q
    /\ \A c \in Calls : pc[c] \in {"review", "replay_review"} => ReviewOf[job[c]] # None

\* The inductive core of the fence. A proposal has an idempotency record exactly
\* when it was acquired; a call that owns an execution is its only owner, nothing
\* has closed it, and it knows whether it dispatched; an audit that releases the
\* budget is about a proposal that never was dispatched; a budget has one holder;
\* a discarded proposal can no longer be acquired.
ClaimMatchesAcquisition ==
    \A p \in Proposals :
        /\ status[p] = "none" <=> keyOf[p] = None
        /\ keyOf[p] = None => outcome[p] = "none" /\ dispatches[p] = 0

OwnerKnowsDispatch ==
    \A c \in Calls :
        /\ pc[c] \notin PostDispatch \cup FailPath => ~started[c]
        /\ pc[c] \in PostDispatch => started[c]
        /\ pc[c] \in Owning =>
              /\ keyOf[job[c]] = ckey[c]
              /\ outcome[job[c]] = "none"
              /\ dispatches[job[c]] = IF started[c] THEN 1 ELSE 0
              /\ \A d \in Calls : d # c /\ pc[d] \in Owning => job[d] # job[c]

ReleaseMeansNoDispatch ==
    \A p \in Proposals : outcome[p] = "no_dispatch" => dispatches[p] = 0

OneHolder ==
    \A p, q \in Proposals : p # q /\ BudgetOfP(p) = BudgetOfP(q) => ~(Holds(p) /\ Holds(q))

DiscardedIsClosed ==
    \A p \in discarded : keyOf[p] = None /\ pstate[p] \in {"closed", "revoked"}

FenceInvariant ==
    /\ ClaimMatchesAcquisition
    /\ OwnerKnowsDispatch
    /\ ReleaseMeansNoDispatch
    /\ OneHolder
    /\ DiscardedIsClosed
    /\ AtMostOneDispatch

(* What BudgetWriteOwner promises, read off the store's records. *)
Phase(p) ==
    IF status[p] \in {"none", "succeeded"} THEN status[p]
    ELSE IF ~Holds(p) THEN "released"
    ELSE IF dispatches[p] = 0 THEN "owned" ELSE "dispatched"

Owner == INSTANCE BudgetWriteOwner WITH
    Writes <- Proposals,
    BudgetOfW <- [p \in Proposals |-> BudgetOfP(p)],
    phase <- [p \in Proposals |-> Phase(p)]

\* The execution of proposals implements the abstract owner: a budget passes from one
\* proposal to the next only over a recorded success or a proof of no dispatch.
OwnerSpec == Owner!Spec

\* At the instant of the write the proposal is open, its authority and review are
\* current and enough of its consumed approvals still count, although all of that
\* was checked several awaits earlier.
DispatchAuthorized ==
    [][\A p \in Proposals : dispatches'[p] # dispatches[p] =>
          /\ pstate[p] = "open" /\ leased[p] /\ ReviewCurrent(p)
          /\ Cardinality(spent[p] \ lapsed[p]) >= Required]_vars

\* A claimed record never goes back: a final status and the consumed approvals stay.
ClaimsAreFinal ==
    [][\A p \in Proposals :
          /\ status[p] \in {"succeeded", "terminal_failed"} => status'[p] = status[p]
          /\ keyOf[p] # None => keyOf'[p] = keyOf[p] /\ spent'[p] = spent[p]]_vars

\* Every execute() call returns: no two calls wait on each other's lock or claim.
CallsReturn == \A c \in Calls : pc[c] # "idle" ~> pc[c] = "idle"
==============================================================================
