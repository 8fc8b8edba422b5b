-------------------------- MODULE SessionCompletion --------------------------
(***************************************************************************)
(* A Spend Session becomes one manual transaction of the ledger. The       *)
(* session is edited and cancelled under a version; prospective claims     *)
(* reserve its cart; a completion is admitted with a hold of its own,      *)
(* approved by other members, given a one-shot write intent under the      *)
(* budget's write fence, dispatched by the connector and finished, or      *)
(* left for reconciliation against the ledger. Everything between two      *)
(* calls of the store may happen to any other actor's call.                *)
(***************************************************************************)
EXTENDS Naturals, FiniteSets

CONSTANTS
    Members,     \* humans of the space
    Requester,   \* the member who owns the session and proposes its completion
    Attempts,    \* completion proposals of the session
    Required,    \* approvals the policy asks for
    MaxVersion,  \* bound on versions of the session
    MaxPolicy    \* bound on policy changes

\* Versions start at 1, and a policy asks for at least one approval.
CompletionConstants ==
    MaxVersion \in Nat \ {0} /\ MaxPolicy \in Nat \ {0} /\ Required \in Nat \ {0}

VARIABLES
    session,   \* version, governance version it was saved under, live: not expired or cancelled
    policy,    \* current version of the liquidity policy
    gov,       \* current version of the governance policy
    members,   \* members whose membership period is current
    granted,   \* the executor's initiation and confirmation grants
    comp,      \* each completion: phase, versions it was admitted under, expired
    apr,       \* status of each member's approval of each completion
    hold,      \* claim bundle of each completion
    claims,    \* session versions whose cart an active prospective claim reserves
    moved,     \* write intents whose recorded claim-set revision is no longer current
    exec,      \* what the process executing a completion knows
    sent,      \* completions whose transaction was handed to the ledger
    ledger,    \* completions whose transaction is in the ledger
    other      \* another mutation owns the budget's write fence

govVars == <<policy, gov, members, granted>>
runVars == <<exec, sent, ledger>>
vars == <<session, govVars, comp, apr, hold, claims, moved, runVars, other>>

Versions == 1..MaxVersion

Phases == {"none", "proposed", "approved", "write_intent", "verified", "review_required", "closed"}

Completions ==
    [phase : Phases, sver : 0..MaxVersion, pol : 0..MaxPolicy, gov : 0..MaxPolicy,
     expired : BOOLEAN]

TypeOK ==
    /\ session \in [version : Versions, gov : 1..MaxPolicy, live : BOOLEAN]
    /\ policy \in 1..MaxPolicy /\ gov \in 1..MaxPolicy
    /\ members \in SUBSET Members /\ granted \in BOOLEAN
    /\ comp \in [Attempts -> Completions]
    /\ apr \in [Attempts -> [Members -> {"none", "active", "consumed", "superseded"}]]
    /\ hold \in [Attempts -> {"none", "active", "initiated", "settled", "released"}]
    /\ claims \in SUBSET Versions
    /\ moved \in SUBSET Attempts
    /\ exec \in [Attempts -> {"idle", "begun", "candidate", "failed", "denied", "written",
                              "uncertain", "confirmed"}]
    /\ sent \in SUBSET Attempts /\ ledger \in SUBSET sent
    /\ other \in BOOLEAN

Init ==
    /\ session = [version |-> 1, gov |-> 1, live |-> TRUE]
    /\ policy = 1 /\ gov = 1 /\ members = Members /\ granted = TRUE
    /\ comp = [c \in Attempts |-> [phase |-> "none", sver |-> 0, pol |-> 0, gov |-> 0,
                                   expired |-> FALSE]]
    /\ apr = [c \in Attempts |-> [a \in Members |-> "none"]]
    /\ hold = [c \in Attempts |-> "none"]
    /\ claims = {}
    /\ moved = {}
    /\ exec = [c \in Attempts |-> "idle"]
    /\ sent = {} /\ ledger = {} /\ other = FALSE

------------------------------------------------------------------------------
Phase(c) == comp[c].phase

\* Phases in which a completion owns the budget's write fence.
Owning(c) == Phase(c) \in {"write_intent", "review_required"}

Pending(c) == Phase(c) \in {"proposed", "approved"}

\* A verified completion makes the session terminal.
hasVerifiedSessionCompletion == \E c \in Attempts : Phase(c) = "verified"

\* The claim set changed: a write intent that recorded its revision is out of date.
bump == moved' = {c \in Attempts : Phase(c) = "write_intent"}

\* Nothing expired is left in the claim set: the caller's capture swept it, and an
\* operation that would sweep more than the capture did fails its revision check.
RevisionCurrent == \A c \in Attempts : ~(hold[c] = "active" /\ comp[c].expired)

\* The requester's membership and the governance version of the proposal still hold.
proposalOrigin(c) == Requester \in members /\ gov = comp[c].gov

\* The session the completion was admitted from, unchanged and unexpired.
completionSession(c) ==
    /\ session.version = comp[c].sver /\ session.live
    /\ session.gov = gov /\ Requester \in members

\* Variant: the requester may approve.
Approvers_RequesterCounts(c, statuses) ==
    IF gov # comp[c].gov THEN {} ELSE {a \in members : apr[c][a] \in statuses}

\* Distinct members, not the requester, whose stored approval still counts.
Approvers(c, statuses) ==
    IF gov # comp[c].gov THEN {}
    ELSE {a \in members \ {Requester} : apr[c][a] \in statuses}

completionApprovals(c) == Approvers(c, {"active"})

Enough(A) == Cardinality(A) >= Required

\* Active approvals of the completions in C are superseded.
Supersede(C) ==
    [c \in Attempts |-> [a \in Members |->
        IF c \in C /\ apr[c][a] = "active" THEN "superseded" ELSE apr[c][a]]]

\* Completions without a write intent are closed and their holds given up.
closeCompletion(C) ==
    /\ comp' = [c \in Attempts |-> IF c \in C THEN [comp[c] EXCEPT !.phase = "closed"] ELSE comp[c]]
    /\ apr' = Supersede(C)
    /\ hold' = [c \in Attempts |-> IF c \in C THEN "released" ELSE hold[c]]
    /\ IF C = {} THEN UNCHANGED moved ELSE bump

\* Variant: a completion that is being written is closed too.
invalidateCompletionProposals_WriteIntentToo ==
    closeCompletion({c \in Attempts : Pending(c) \/ Phase(c) = "write_intent"})

invalidateCompletionProposals == closeCompletion({c \in Attempts : Pending(c)})

------------------------------------------------------------------------------
\* A new version of the cart. Prospective claims of the old one stay.
saveSpendSession ==
    /\ session.live /\ Requester \in members
    /\ session.version < MaxVersion
    /\ ~hasVerifiedSessionCompletion
    /\ RevisionCurrent
    /\ session' = [version |-> session.version + 1, gov |-> gov, live |-> TRUE]
    /\ invalidateCompletionProposals
    /\ UNCHANGED <<govVars, claims, runVars, other>>

cancelSpendSession ==
    /\ Requester \in members /\ session.version < MaxVersion
    /\ ~hasVerifiedSessionCompletion
    /\ session' = [session EXCEPT !.version = @ + 1, !.live = FALSE]
    /\ invalidateCompletionProposals
    /\ UNCHANGED <<govVars, claims, runVars, other>>

\* Time passes the session's expiry, and with it that of its open completions.
SessionExpires ==
    /\ session.live
    /\ session' = [session EXCEPT !.live = FALSE]
    /\ comp' = [c \in Attempts |-> IF Pending(c) THEN [comp[c] EXCEPT !.expired = TRUE] ELSE comp[c]]
    /\ UNCHANGED <<govVars, apr, hold, claims, moved, runVars, other>>

expire ==
    /\ ~session.live /\ \E c \in Attempts : Pending(c)
    /\ invalidateCompletionProposals
    /\ UNCHANGED <<session, govVars, claims, runVars, other>>

\* Every capture of the claim set expires what ran out.
claimSet ==
    /\ \E C \in SUBSET {c \in Attempts : hold[c] = "active" /\ comp[c].expired},
          V \in SUBSET claims :
        /\ C \cup V # {}
        /\ RevisionCurrent \/ C = {c \in Attempts : hold[c] = "active" /\ comp[c].expired}
        /\ hold' = [c \in Attempts |-> IF c \in C THEN "released" ELSE hold[c]]
        /\ claims' = claims \ V
    /\ bump
    /\ UNCHANGED <<session, govVars, comp, apr, runVars, other>>

\* A reservation or commitment for the current cart.
saveProspectiveClaim ==
    /\ session.live /\ Requester \in members
    /\ ~hasVerifiedSessionCompletion
    /\ session.version \notin claims
    /\ RevisionCurrent
    /\ claims' = claims \cup {session.version}
    /\ bump
    /\ UNCHANGED <<session, govVars, comp, apr, hold, runVars, other>>

releaseProspectiveClaim(v) ==
    /\ v \in claims /\ Requester \in members
    /\ RevisionCurrent
    /\ claims' = claims \ {v}
    /\ bump
    /\ UNCHANGED <<session, govVars, comp, apr, hold, runVars, other>>

------------------------------------------------------------------------------
admitSessionCompletion(c) ==
    /\ Phase(c) = "none"
    /\ session.live /\ session.gov = gov /\ Requester \in members
    /\ \A d \in Attempts : Phase(d) \in {"none", "closed"}
    /\ RevisionCurrent
    /\ comp' = [comp EXCEPT ![c] = [phase |-> "proposed", sver |-> session.version,
                                    pol |-> policy, gov |-> gov, expired |-> FALSE]]
    /\ hold' = [hold EXCEPT ![c] = "active"]
    /\ bump
    /\ UNCHANGED <<session, govVars, apr, claims, runVars, other>>

\* Guards common to approval and write intent.
completionCommand(c) ==
    /\ Pending(c) /\ ~comp[c].expired
    /\ proposalOrigin(c) /\ completionSession(c) /\ comp[c].pol = policy

approveSessionCompletion(c, a) ==
    /\ completionCommand(c) /\ a \in members
    /\ RevisionCurrent
    /\ apr' = [apr EXCEPT ![c][a] = "active"]
    /\ comp' = [comp EXCEPT ![c].phase =
                    IF Enough(completionApprovals(c) \cup ({a} \ {Requester}))
                    THEN "approved" ELSE "proposed"]
    /\ UNCHANGED <<session, govVars, hold, claims, moved, runVars, other>>

hasConflictingBudgetMutationOwner(c) == other \/ \E d \in Attempts \ {c} : Owning(d)

beginSessionCompletionWrite(c) ==
    /\ Phase(c) = "approved" /\ granted
    /\ completionCommand(c)
    /\ Enough(completionApprovals(c))
    /\ ~hasConflictingBudgetMutationOwner(c)
    /\ RevisionCurrent
    /\ comp' = [comp EXCEPT ![c].phase = "write_intent"]
    /\ apr' = [apr EXCEPT ![c] = [a \in Members |->
                   IF a \in completionApprovals(c) THEN "consumed" ELSE apr[c][a]]]
    /\ hold' = [hold EXCEPT ![c] = "initiated"]
    /\ moved' = moved \ {c}
    /\ exec' = [exec EXCEPT ![c] = "begun"]
    /\ UNCHANGED <<session, govVars, claims, sent, ledger, other>>

\* Approval or write intent meets a Card, ledger or claim set that changed.
staleError(c) ==
    /\ completionCommand(c)
    /\ Phase(c) = "approved" /\ Enough(completionApprovals(c)) => ~hasConflictingBudgetMutationOwner(c)
    /\ closeCompletion({c})
    /\ UNCHANGED <<session, govVars, claims, runVars, other>>

------------------------------------------------------------------------------
\* The connector's checks before the write: a matching import, or a failed read or check.
Preflight(c) ==
    /\ exec[c] = "begun"
    /\ exec' \in {[exec EXCEPT ![c] = r] : r \in {"candidate", "failed"}}
    /\ UNCHANGED <<session, govVars, comp, apr, hold, claims, moved, sent, ledger, other>>

\* The fence in front of the one call that writes.
validateSessionCompletionWrite(c) ==
    /\ Phase(c) = "write_intent" /\ granted /\ c \notin moved
    /\ completionSession(c) /\ comp[c].pol = policy
    /\ Enough(Approvers(c, {"active", "consumed"}))
    /\ \A a \in Approvers(c, {"active", "consumed"}) : apr[c][a] = "consumed"
    /\ \A a \in Members : apr[c][a] = "consumed" => a \in Approvers(c, {"consumed"})

createManualTransaction(c) ==
    /\ exec[c] = "begun"
    /\ IF validateSessionCompletionWrite(c)
       THEN exec' = [exec EXCEPT ![c] = "written"] /\ sent' = sent \cup {c}
       ELSE exec' = [exec EXCEPT ![c] = "denied"] /\ UNCHANGED sent
    /\ UNCHANGED <<session, govVars, comp, apr, hold, claims, moved, ledger, other>>

\* The ledger takes the transaction, possibly long after the connector gave up on it.
Land(c) ==
    /\ c \in sent \ ledger
    /\ ledger' = ledger \cup {c}
    /\ UNCHANGED <<session, govVars, comp, apr, hold, claims, moved, exec, sent, other>>

\* The re-read after the write finds the exact parent, or leaves the outcome open.
Reread(c) ==
    /\ exec[c] = "written"
    /\ \/ c \in ledger /\ exec' = [exec EXCEPT ![c] = "confirmed"]
       \/ exec' = [exec EXCEPT ![c] = "uncertain"]
    /\ UNCHANGED <<session, govVars, comp, apr, hold, claims, moved, sent, ledger, other>>

\* Evidence of the manual parent: the hold is settled and the cart's claim consumed.
Verified(c) ==
    /\ comp' = [comp EXCEPT ![c].phase = "verified"]
    /\ hold' = [hold EXCEPT ![c] = "settled"]
    /\ claims' = claims \ {comp[c].sver}
    /\ bump
    /\ UNCHANGED apr

finishSessionCompletionWrite(c) ==
    /\ Phase(c) = "write_intent" /\ exec[c] \notin {"idle", "begun", "written"}
    /\ exec[c] = "denied" \/ granted
    /\ \/ exec[c] = "confirmed" /\ Verified(c)
       \/ exec[c] = "candidate"
          /\ comp' = [comp EXCEPT ![c].phase = "closed"]
          /\ hold' = [hold EXCEPT ![c] = "released"]
          /\ apr' = Supersede({c}) /\ bump /\ UNCHANGED claims
       \/ exec[c] \in {"failed", "denied", "uncertain"}
          /\ comp' = [comp EXCEPT ![c].phase = "review_required"]
          /\ UNCHANGED <<apr, hold, claims, moved>>
    /\ exec' = [exec EXCEPT ![c] = "idle"]
    /\ UNCHANGED <<session, govVars, sent, ledger, other>>

\* The process dies, or the store refuses its result; the write intent stays.
Abandon(c) ==
    /\ exec[c] # "idle"
    /\ exec' = [exec EXCEPT ![c] = "idle"]
    /\ UNCHANGED <<session, govVars, comp, apr, hold, claims, moved, sent, ledger, other>>

\* Another read of the ledger: the exact parent settles, anything else asks for review.
reconcileSessionCompletion(c) ==
    /\ Owning(c) /\ granted /\ hold[c] = "initiated"
    /\ \/ c \in ledger /\ Verified(c)
       \/ comp' = [comp EXCEPT ![c].phase = "review_required"]
          /\ UNCHANGED <<apr, hold, claims, moved>>
    /\ UNCHANGED <<session, govVars, runVars, other>>

------------------------------------------------------------------------------
savePolicy ==
    /\ policy < MaxPolicy /\ gov < MaxPolicy
    /\ policy' = policy + 1 /\ gov' = gov + 1
    /\ invalidateCompletionProposals
    /\ UNCHANGED <<session, members, granted, claims, runVars, other>>

\* The space changes its policy on its own; nothing is invalidated.
setGovernancePolicy ==
    /\ gov < MaxPolicy
    /\ gov' = gov + 1
    /\ UNCHANGED <<session, policy, members, granted, comp, apr, hold, claims, moved, runVars, other>>

\* A membership period ends: what was approved in it never counts again.
Leave(a) ==
    /\ a \in members
    /\ members' = members \ {a}
    /\ apr' = [c \in Attempts |-> [apr[c] EXCEPT ![a] = IF @ = "none" THEN @ ELSE "superseded"]]
    /\ UNCHANGED <<session, policy, gov, granted, comp, hold, claims, moved, runVars, other>>

RevokeGrant ==
    /\ granted /\ granted' = FALSE
    /\ UNCHANGED <<session, policy, gov, members, comp, apr, hold, claims, moved, runVars, other>>

\* A categorization or consequential action takes or leaves the budget's fence.
OtherOwner ==
    /\ \/ ~other /\ \A c \in Attempts : ~Owning(c)
       \/ other
    /\ other' = ~other
    /\ UNCHANGED <<session, govVars, comp, apr, hold, claims, moved, runVars>>

Next ==
    \/ saveSpendSession \/ cancelSpendSession \/ SessionExpires \/ expire
    \/ claimSet \/ saveProspectiveClaim \/ \E v \in Versions : releaseProspectiveClaim(v)
    \/ savePolicy \/ setGovernancePolicy \/ \E a \in Members : Leave(a)
    \/ RevokeGrant \/ OtherOwner
    \/ \E c \in Attempts :
        \/ admitSessionCompletion(c) \/ \E a \in Members : approveSessionCompletion(c, a)
        \/ beginSessionCompletionWrite(c) \/ staleError(c)
        \/ Preflight(c) \/ createManualTransaction(c) \/ Land(c) \/ Reread(c)
        \/ finishSessionCompletionWrite(c) \/ Abandon(c) \/ reconcileSessionCompletion(c)

Spec == Init /\ [][Next]_vars

------------------------------------------------------------------------------
\* A write that was attempted, or whose outcome is unknown, keeps its initiated hold until
\* the transaction is seen in the ledger, whatever is edited, cancelled, expired or
\* superseded meanwhile; only then is the hold settled (closeCompletion,
\* finishSessionCompletionWrite, reconcileSessionCompletion).
HoldKept ==
    \A c \in Attempts :
        /\ Owning(c) => hold[c] = "initiated"
        /\ c \in sent => hold[c] \in {"initiated", "settled"}
        /\ hold[c] = "settled" <=> Phase(c) = "verified"
        /\ Phase(c) = "verified" => c \in ledger

\* A session reaches the ledger at most once however often it is completed again, and never
\* while another mutation owns the budget (admitSessionCompletion, the write fence).
OneWrite ==
    /\ Cardinality(sent) <= 1
    /\ Cardinality({c \in Attempts : Owning(c)}) <= 1
    /\ other => ~\E c \in Attempts : Owning(c)

\* A session has at most one completion that is neither unused nor closed.
Live(c) == Phase(c) \notin {"none", "closed"}

OneLive == \A c, d \in Attempts : Live(c) /\ Live(d) => c = d

\* Who executes a completion, or handed it to the ledger, works on one that was given its
\* write intent; what the process knows matches what it sent.
ExecutionKnown ==
    \A c \in Attempts :
        /\ exec[c] # "idle" \/ c \in sent => Owning(c) \/ Phase(c) = "verified"
        /\ exec[c] \in {"begun", "candidate"} => c \notin sent
        /\ exec[c] = "confirmed" => c \in ledger

\* A hold is kept until its write is settled, and a completion is written at most once. The
\* last two parts make it inductive.
CompletionSafe == TypeOK /\ HoldKept /\ OneWrite /\ OneLive /\ ExecutionKnown

\* What goes to the ledger is the cart, under the policies, that enough members other than
\* the requester approved and who are all still members; no claim moved since the intent
\* and nobody else owns the budget (validateSessionCompletionWrite).
DispatchStep ==
    \A c \in sent' \ sent :
        /\ session.version = comp[c].sver /\ session.live
        /\ policy = comp[c].pol /\ gov = comp[c].gov
        /\ Cardinality({a \in members \ {Requester} : apr[c][a] = "consumed"}) >= Required
        /\ hold[c] = "initiated" /\ ~other /\ sent = {}

\* A completion is dispatched only under the authority and the session that are current.
DispatchCurrent == [][DispatchStep]_vars
==============================================================================
