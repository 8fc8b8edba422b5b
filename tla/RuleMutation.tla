----------------------------- MODULE RuleMutation -----------------------------
(***************************************************************************)
(* Executing an approved proposal that creates, switches or deletes an     *)
(* Actual rule. A rule lives in the ledger, its on/off switch (the         *)
(* override) in the local store; a deletion touches both. The call may die *)
(* anywhere, several calls may carry the same key, a person may edit the   *)
(* rule in Actual at any time, and the approvals may lapse.                *)
(***************************************************************************)
EXTENDS Naturals, FiniteSets

CONSTANTS
    Proposals,
    Op(_),        \* "create_rule", "update_rule" or "delete_rule"
    Rule(_),      \* the rule a proposal is about; a creation has one of its own
    MaxRevision   \* bound on edits of a rule by a person

RuleConstants ==
    /\ IsFiniteSet(Proposals) /\ MaxRevision \in Nat
    /\ \A p, q \in Proposals : Op(p) = "create_rule" /\ Rule(p) = Rule(q) => p = q

VARIABLES
    rules,      \* revision of each rule in the ledger, Absent when it is not there
    override,   \* the local switch of each rule and its version; version 0 is no row
    proposed,   \* stored proposals
    shown,      \* rule and override a proposal was approved against
    authorized, \* proposals whose approvals, policy, requester and lease still hold
    record,     \* idempotency record of each execution
    worker,     \* step of the call that owns each execution
    dispatched, \* number of times each proposal's rule change was sent to the ledger
    told        \* proposals some caller was told had succeeded

vars == <<rules, override, proposed, shown, authorized, record, worker, dispatched, told>>

Absent == MaxRevision + 1
Rules == {Rule(p) : p \in Proposals}
Switch == {"active", "inactive", "removed"}
NoOverride == [version |-> 0, inactive |-> "removed"]
Overrides == [version : 0..Cardinality(Proposals), inactive : Switch]

TypeOK ==
    /\ rules \in [Rules -> 0..Absent]
    /\ override \in [Rules -> Overrides]
    /\ proposed \in SUBSET Proposals /\ authorized \in SUBSET proposed
    /\ shown \in [Proposals -> [rule : 0..Absent, override : Overrides]]
    /\ record \in [Proposals -> {"none", "in_progress", "succeeded", "terminal_failed"}]
    /\ worker \in [Proposals -> {"idle", "check", "dispatch", "written", "failing",
                               "complete"}]
    /\ dispatched \in [Proposals -> 0..2]
    /\ told \in SUBSET Proposals

Init ==
    /\ rules = [r \in Rules |-> IF \E p \in Proposals : Rule(p) = r /\ Op(p) = "create_rule"
                                THEN Absent ELSE 0]
    /\ override = [r \in Rules |-> NoOverride]
    /\ proposed = {} /\ authorized = {}
    /\ shown = [p \in Proposals |-> [rule |-> Absent, override |-> NoOverride]]
    /\ record = [p \in Proposals |-> "none"]
    /\ worker = [p \in Proposals |-> "idle"]
    /\ dispatched = [p \in Proposals |-> 0]
    /\ told = {}

------------------------------------------------------------------------------
\* A proposal is stored with the rule and the switch the household saw, and approved.
createProposal(p) ==
    /\ p \notin proposed
    /\ Op(p) # "create_rule" => rules[Rule(p)] # Absent
    /\ proposed' = proposed \cup {p} /\ authorized' = authorized \cup {p}
    /\ shown' = [shown EXCEPT ![p] = [rule |-> rules[Rule(p)], override |-> override[Rule(p)]]]
    /\ UNCHANGED <<rules, override, record, worker, dispatched, told>>

\* A rule execution owns the budget while it runs and, when it failed, for good.
hasConflictingBudgetMutationOwner(p) ==
    \E q \in Proposals \ {p} : record[q] \in {"in_progress", "terminal_failed"}

ruleOverrideSnapshotMatches(p) ==
    Op(p) = "create_rule" \/ override[Rule(p)] = shown[p].override

\* Variant: a failed proposal is executed again.
acquireProposalExecution_AfterFailure(p) ==
    /\ p \in authorized /\ record[p] \in {"none", "terminal_failed"} /\ worker[p] = "idle"
    /\ ruleOverrideSnapshotMatches(p)
    /\ ~hasConflictingBudgetMutationOwner(p)
    /\ record' = [record EXCEPT ![p] = "in_progress"]
    /\ worker' = [worker EXCEPT ![p] = "check"]
    /\ UNCHANGED <<rules, override, proposed, shown, authorized, dispatched, told>>

\* One acquisition per proposal, ever: its approvals are consumed and never returned.
acquireProposalExecution(p) ==
    /\ p \in authorized /\ record[p] = "none"
    /\ ruleOverrideSnapshotMatches(p)
    /\ ~hasConflictingBudgetMutationOwner(p)
    /\ record' = [record EXCEPT ![p] = "in_progress"]
    /\ worker' = [worker EXCEPT ![p] = "check"]
    /\ UNCHANGED <<rules, override, proposed, shown, authorized, dispatched, told>>

\* Every further call with the key reads the stored outcome.
replayResult(p) ==
    /\ record[p] = "succeeded" /\ p \notin told
    /\ told' = told \cup {p}
    /\ UNCHANGED <<rules, override, proposed, shown, authorized, record, worker, dispatched>>

\* assertExecutionCurrent: the store checks the exact acquisition again.
ExecutionCurrent(p) ==
    /\ p \in authorized /\ record[p] = "in_progress"
    /\ ruleOverrideSnapshotMatches(p)
    /\ ~hasConflictingBudgetMutationOwner(p)

------------------------------------------------------------------------------
Step(p, pc) == worker' = [worker EXCEPT ![p] = pc]

\* Synchronize, then compare what the household saw with what is there: the plan and its
\* simulation for a creation, rule and override for the others.
execute(p) ==
    /\ worker[p] = "check" /\ ExecutionCurrent(p)
    /\ Op(p) # "create_rule" => rules[Rule(p)] = shown[p].rule
    /\ Step(p, "dispatch")
    /\ UNCHANGED <<rules, override, proposed, shown, authorized, record, dispatched, told>>

\* createRule of the connector: fence, then the write. The rule may be in the ledger even
\* when the call or its synchronization failed.
createRule(p) ==
    /\ worker[p] = "dispatch" /\ Op(p) = "create_rule" /\ ExecutionCurrent(p)
    /\ dispatched' = [dispatched EXCEPT ![p] = @ + 1]
    /\ \/ rules' = [rules EXCEPT ![Rule(p)] = 0] /\ (Step(p, "written") \/ Step(p, "failing"))
       \/ UNCHANGED rules /\ Step(p, "failing")
    /\ UNCHANGED <<override, proposed, shown, authorized, record, told>>

\* Fence and compare-and-set in one transaction of the store.
setRuleOverride(p) ==
    /\ worker[p] = "dispatch" /\ Op(p) = "update_rule" /\ ExecutionCurrent(p)
    /\ \E s \in {"active", "inactive"} :
           override' = [override EXCEPT ![Rule(p)] = [version |-> @.version + 1, inactive |-> s]]
    /\ dispatched' = [dispatched EXCEPT ![p] = @ + 1]
    /\ Step(p, "written")
    /\ UNCHANGED <<rules, proposed, shown, authorized, record, told>>

\* Variant: the rule is not compared with the one that was shown.
deleteRule_NotCompared(p) ==
    /\ worker[p] = "dispatch" /\ Op(p) = "delete_rule" /\ ExecutionCurrent(p)
    /\ dispatched' = [dispatched EXCEPT ![p] = @ + 1]
    /\ \/ rules' = [rules EXCEPT ![Rule(p)] = Absent] /\ (Step(p, "written") \/ Step(p, "failing"))
       \/ UNCHANGED rules /\ Step(p, "failing")
    /\ UNCHANGED <<override, proposed, shown, authorized, record, told>>

\* deleteRule of the connector reads the rule again under its cache lock and deletes only
\* what was shown. A schedule may keep the rule; a lost fence or a failed
\* synchronization afterwards does not bring it back.
deleteRule(p) ==
    /\ worker[p] = "dispatch" /\ Op(p) = "delete_rule" /\ ExecutionCurrent(p)
    /\ rules[Rule(p)] = shown[p].rule
    /\ dispatched' = [dispatched EXCEPT ![p] = @ + 1]
    /\ \/ rules' = [rules EXCEPT ![Rule(p)] = Absent] /\ (Step(p, "written") \/ Step(p, "failing"))
       \/ UNCHANGED rules /\ Step(p, "failing")
    /\ UNCHANGED <<override, proposed, shown, authorized, record, told>>

\* The re-read after the write. A deletion now also clears the local switch.
verify(p) ==
    LET r == Rule(p)
        shownVersion == shown[p].override.version
    IN /\ worker[p] = "written"
       /\ \/ /\ Op(p) = "create_rule" /\ ExecutionCurrent(p) /\ rules[r] = 0
             /\ UNCHANGED override
          \/ /\ Op(p) = "update_rule" /\ override[r].version = shownVersion + 1
             /\ UNCHANGED override
          \/ /\ Op(p) = "delete_rule" /\ ExecutionCurrent(p) /\ rules[r] = Absent
             /\ override' = IF override[r].inactive = "removed" THEN override
                            ELSE [override EXCEPT ![r] = [version |-> shownVersion + 1,
                                                          inactive |-> "removed"]]
       /\ Step(p, "complete")
       /\ UNCHANGED <<rules, proposed, shown, authorized, record, dispatched, told>>

\* The outcome is stored if the store can; the caller hears it either way.
completeIdempotencyRecord(p) ==
    /\ worker[p] = "complete"
    /\ record' \in {record, [record EXCEPT ![p] = "succeeded"]}
    /\ told' = told \cup {p}
    /\ Step(p, "idle")
    /\ UNCHANGED <<rules, override, proposed, shown, authorized, dispatched>>

\* A call, a comparison, a simulation, a fence or a re-read failed.
recordFailure(p) ==
    /\ worker[p] \in {"check", "dispatch", "written", "failing"}
    /\ record' \in {record, [record EXCEPT ![p] = "terminal_failed"]}
    /\ Step(p, "idle")
    /\ UNCHANGED <<rules, override, proposed, shown, authorized, dispatched, told>>

Crash(p) ==
    /\ worker[p] # "idle" /\ Step(p, "idle")
    /\ UNCHANGED <<rules, override, proposed, shown, authorized, record, dispatched, told>>

------------------------------------------------------------------------------
\* A person edits or deletes the rule in Actual.
EditInActual(r) ==
    /\ rules[r] # Absent
    /\ \E v \in (rules[r] + 1)..Absent : rules' = [rules EXCEPT ![r] = v]
    /\ UNCHANGED <<override, proposed, shown, authorized, record, worker, dispatched, told>>

AuthorityLost(p) ==
    /\ p \in authorized /\ authorized' = authorized \ {p}
    /\ UNCHANGED <<rules, override, proposed, shown, record, worker, dispatched, told>>

Next ==
    \/ \E p \in Proposals :
        \/ createProposal(p) \/ acquireProposalExecution(p) \/ replayResult(p)
        \/ execute(p) \/ createRule(p) \/ setRuleOverride(p) \/ deleteRule(p) \/ verify(p)
        \/ completeIdempotencyRecord(p) \/ recordFailure(p) \/ Crash(p) \/ AuthorityLost(p)
    \/ \E r \in Rules : EditInActual(r)

Spec == Init /\ [][Next]_vars

------------------------------------------------------------------------------
\* A proposal changes the ledger or the switch at most once, whatever became of the call
\* that did it and however often its key is presented (acquireProposalExecutionSync).
ChangedOnce == \A p \in Proposals : dispatched[p] <= 1

\* A caller hears success only of a change that was made, and no record says otherwise
\* (execute, replayResult).
ToldTheTruth ==
    \A p \in told : dispatched[p] = 1 /\ record[p] \in {"in_progress", "succeeded"}

\* Once a deletion succeeded its rule is gone and no switch of it is left or comes back,
\* although other proposals on the rule were approved before (executeRuleLifecycle).
DeletedWhole ==
    \A p \in Proposals :
        Op(p) = "delete_rule" /\ record[p] = "succeeded" =>
            rules[Rule(p)] = Absent /\ override[Rule(p)].inactive = "removed"

\* At most one execution is between its acquisition and its outcome.
OneOwner == Cardinality({p \in Proposals : record[p] \in {"in_progress", "terminal_failed"}}) <= 1

\* What a call knows between two of its steps, and nobody learns of it before it ends.
WorkerKnows ==
    \A p \in Proposals :
        /\ worker[p] # "idle" => record[p] = "in_progress" /\ p \notin told
        /\ worker[p] \in {"check", "dispatch"} \/ record[p] = "none" => dispatched[p] = 0
        /\ worker[p] \in {"written", "complete"} \/ record[p] = "succeeded" => dispatched[p] = 1

\* Only a rule that was there is shown to be changed. From the verification of its deletion
\* on a rule is gone, and no call is about to move its switch.
Deleted(p) == Op(p) = "delete_rule" /\ (worker[p] = "complete" \/ record[p] = "succeeded")

DeletionStands ==
    /\ \A p \in proposed : Op(p) # "create_rule" => shown[p].rule # Absent
    /\ \A p \in Proposals : Deleted(p) =>
        /\ rules[Rule(p)] = Absent /\ override[Rule(p)].inactive = "removed"
        /\ \A q \in Proposals : Rule(q) = Rule(p) => worker[q] # "dispatch"

\* A switch moves at most once per proposal: when it is set, or after the deletion is verified.
Spent == {p \in Proposals : dispatched[p] = 1 /\ (worker[p] = "written" => Op(p) # "delete_rule")}
SwitchMoves == \A r \in Rules : override[r].version <= Cardinality(Spent)

\* A rule changes at most once per proposal, and a caller is told what happened.
RulesSafe ==
    /\ TypeOK /\ ChangedOnce /\ ToldTheTruth /\ DeletedWhole /\ OneOwner
    /\ WorkerKnows /\ DeletionStands /\ SwitchMoves

\* A rule deleted by an execution, and a switch it moves, are the ones the household saw when
\* it approved: nobody's later edit is overwritten (deleteRule, setRuleOverride).
ShownStep ==
    \A p \in Proposals :
        dispatched'[p] > dispatched[p] /\ Op(p) # "create_rule" =>
            /\ override[Rule(p)] = shown[p].override
            /\ rules'[Rule(p)] # rules[Rule(p)] => rules[Rule(p)] = shown[p].rule

ChangesWhatWasShown == [][ShownStep]_vars
==============================================================================
