--------------------------- MODULE MCAuthorizedWork ---------------------------
(***************************************************************************)
(* Checks the components that carry an approved intention to the ledger:   *)
(* consequential actions, rule changes, the authority behind them and the  *)
(* connection they use; and the findings people are asked to look at. The  *)
(* first state chooses which is checked.                                   *)
(***************************************************************************)
EXTENDS Naturals, FiniteSets

CONSTANTS Actions, ActionKey(_), N,
          RuleProposals, RuleOp(_), RuleOf(_), MaxRevision,
          Humans, Owner, Agent, Nobody, MaxPeriod, MaxSerial, MaxPolicy, MaxControls,
          Managers, Budgets, Asked, MaxCalls, MaxFaults, MaxReconfigured,
          Transfers, People, Limit, MaxFindings, MaxVersion,
          None

\* Two of three actions name the same parent transaction, wallet or transfer.
ThreeActions == {"split", "splitAgain", "wallet"}
SharedKey(p) == IF p = "wallet" THEN "wallet" ELSE "split"

\* Two switches and a deletion of one rule, and the creation of another.
FourChanges == {"switch1", "switch2", "delete", "create"}
ChangeOp(p) == CASE p = "delete" -> "delete_rule" [] p = "create" -> "create_rule"
                 [] OTHER -> "update_rule"
ChangedRule(p) == IF p = "create" THEN "created" ELSE "existing"

\* Calls for the budget they know, for whichever is configured, and for another one.
TwoBudgets == {"b1", "b2"}
SevenRequests ==
    LET use(b, dispose, sync) ==
            [kind |-> "use", expected |-> b, dispose |-> dispose, synchronize |-> sync]
    IN  {use("b1", FALSE, TRUE), use("b1", TRUE, FALSE), use(None, FALSE, FALSE),
         [kind |-> "connect", budget |-> "b2"], [kind |-> "list"],
         [kind |-> "disconnect", expected |-> None], [kind |-> "remove", expected |-> "b1"]}

VARIABLES component,
          phase, effects, expired, current, eligible, worker, sent, applied,
          other,
          rules, override, proposed, shown, authorized, record, ruleWorker,
          dispatched, told,
          member, periods, grants, policy, agentStatus, delegation, credential,
          proposal, approvals, acquired, lapsed, controls,
          config, tail, owner, connected, quarantined, sdk, live, pc, manager, request,
          target, faults, reconfigured,
          transfer, findings, step, seen

Action == INSTANCE ConsequentialAction WITH Proposals <- Actions, Key <- ActionKey
ASSUME ActionInstance == Action!ActionConstants

Rule == INSTANCE RuleMutation WITH
    Proposals <- RuleProposals, Op <- RuleOp, Rule <- RuleOf, worker <- ruleWorker
ASSUME RuleInstance == Rule!RuleConstants

Authority == INSTANCE Governance
ASSUME AuthorityInstance == Authority!GovernanceConstants

Connection == INSTANCE ConnectionLifecycle WITH Requests <- Asked
ASSUME ConnectionInstance == Connection!ConnectionConstants

Attention == INSTANCE TransferFindings WITH phase <- transfer
ASSUME AttentionInstance == Attention!FindingConstants

actionVars == <<phase, effects, expired, current, eligible, worker, sent, applied, other>>
ruleVars == <<rules, override, proposed, shown, authorized, record, ruleWorker,
    dispatched, told>>
authorityVars == <<member, periods, grants, policy, agentStatus, delegation, credential,
    proposal, approvals, acquired, lapsed, controls>>
connectionVars == <<config, tail, owner, connected, quarantined, sdk, live, pc, manager,
    request, target, faults, reconfigured>>
findingVars == <<transfer, findings, step, seen>>
vars == <<component, actionVars, ruleVars, authorityVars, connectionVars, findingVars>>

\* A component that is not the one checked has no state.
actionOff ==
    /\ phase = None /\ effects = None /\ expired = None /\ current = None /\ eligible = None
    /\ worker = None /\ sent = None /\ applied = None /\ other = None

ruleOff ==
    /\ rules = None /\ override = None /\ proposed = None /\ shown = None
    /\ authorized = None /\ record = None /\ ruleWorker = None /\ dispatched = None
    /\ told = None

authorityOff ==
    /\ member = None /\ periods = None /\ grants = None /\ policy = None
    /\ agentStatus = None /\ delegation = None /\ credential = None /\ proposal = None
    /\ approvals = None /\ acquired = None /\ lapsed = None /\ controls = None

connectionOff ==
    /\ config = None /\ tail = None /\ owner = None /\ connected = None
    /\ quarantined = None /\ sdk = None /\ live = None /\ pc = None /\ manager = None
    /\ request = None /\ target = None /\ faults = None /\ reconfigured = None

findingOff == transfer = None /\ findings = None /\ step = None /\ seen = None

Init ==
    \/ /\ component = "action" /\ Action!Init
       /\ ruleOff /\ authorityOff /\ connectionOff /\ findingOff
    \/ /\ component = "rule" /\ Rule!Init
       /\ actionOff /\ authorityOff /\ connectionOff /\ findingOff
    \/ /\ component = "authority" /\ Authority!Init
       /\ actionOff /\ ruleOff /\ connectionOff /\ findingOff
    \/ /\ component = "connection" /\ Connection!Init
       /\ actionOff /\ ruleOff /\ authorityOff /\ findingOff
    \/ /\ component = "finding" /\ Attention!Init
       /\ actionOff /\ ruleOff /\ authorityOff /\ connectionOff

Next ==
    \/ /\ component = "action" /\ Action!Next
       /\ UNCHANGED <<component, ruleVars, authorityVars, connectionVars, findingVars>>
    \/ /\ component = "rule" /\ Rule!Next
       /\ UNCHANGED <<component, actionVars, authorityVars, connectionVars, findingVars>>
    \/ /\ component = "authority" /\ Authority!Next
       /\ UNCHANGED <<component, actionVars, ruleVars, connectionVars, findingVars>>
    \/ /\ component = "connection" /\ Connection!Next
       /\ UNCHANGED <<component, actionVars, ruleVars, authorityVars, findingVars>>
    \/ /\ component = "finding" /\ Attention!Next
       /\ UNCHANGED <<component, actionVars, ruleVars, authorityVars, connectionVars>>

Spec == Init /\ [][Next]_vars

\* ConsequentialAction!ActionSafe: identities reach the ledger once, results follow dispatch.
ActionSafe == component = "action" => Action!ActionSafe

\* RuleMutation!RulesSafe: a rule changes once per proposal and callers are told the truth.
RulesSafe == component = "rule" => Rule!RulesSafe

\* ConnectionLifecycle!ConnectionSafe: no connector is lost and no operation works on another
\* budget than it was given.
ConnectionSafe == component = "connection" => Connection!ConnectionSafe

\* RuleMutation!ChangesWhatWasShown: only the rule and switch the household saw are changed.
ChangesWhatWasShown == [][component = "rule" => Rule!ShownStep]_vars

\* Governance!WritesBacked: a write rests on people and delegations that held throughout.
WritesBacked ==
    [][component = "authority" => Authority!AuthorityKept' /\ Authority!BackedStep]_vars

\* TransferFindings!FindingsHeld: findings about transfers change knowingly and once.
FindingsHeld ==
    [][component = "finding" => Attention!FindingsKept' /\ Attention!FindingStep]_vars
================================================================================
