------------------------------ MODULE Governance ------------------------------
(***************************************************************************)
(* Who may have a change made in a shared space. Humans are members for    *)
(* periods, hold grants bound to a period, may delegate some of them to an *)
(* agent and bind a credential to that delegation. A proposal carries the  *)
(* period, the delegation and the policy version it was made under, an     *)
(* approval likewise. Between the proposal and the write any of it may be  *)
(* revoked, and given back.                                                *)
(***************************************************************************)
EXTENDS Naturals, FiniteSets

CONSTANTS
    Humans, Owner,  \* members of the space; the one who created it
    Agent,          \* an agent registered in it
    Nobody,
    MaxPeriod,      \* bound on membership periods of one human
    MaxSerial,      \* bound on delegations issued
    MaxPolicy,      \* bound on policy versions
    MaxControls     \* bound on control operations in a behaviour

GovernanceConstants ==
    /\ IsFiniteSet(Humans) /\ Owner \in Humans /\ Agent \notin Humans /\ Nobody \notin Humans
    /\ MaxPeriod \in Nat \ {0} /\ MaxSerial \in Nat /\ MaxPolicy \in Nat \ {0} /\ MaxControls \in Nat

VARIABLES
    member,      \* current membership period of each human, 0 for none
    periods,     \* membership periods each human has had
    grants,      \* capabilities granted to each period of each human
    policy,      \* current policy: version and approvers required
    agentStatus, \* active, disconnected or revoked
    delegation,  \* the latest delegation: serial, issuer, issuer's period, rights, not revoked
    credential,  \* the agent's bound key: delegation serial, not revoked
    proposal,    \* the stored proposal with its provenance
    approvals,   \* approvals of it
    acquired,    \* approvals consumed and executor, once execution is acquired
    lapsed,      \* humans whose membership ended since they proposed or approved
    controls     \* control operations so far

vars == <<member, periods, grants, policy, agentStatus, delegation, credential, proposal,
          approvals, acquired, lapsed, controls>>

Capabilities == {"manage", "propose", "approve", "execute"}
Delegable == {"propose", "execute"}
Principals == Humans \cup {Agent}
NoProposal == [by |-> Nobody, of |-> Nobody, period |-> 0, serial |-> 0, policy |-> 0,
               phase |-> "none"]
NotAcquired == [executor |-> Nobody, approvals |-> {}]
Approvals == [actor : Humans, period : 1..MaxPeriod, policy : 1..MaxPolicy]

TypeOK ==
    /\ member \in [Humans -> 0..MaxPeriod] /\ periods \in [Humans -> 0..MaxPeriod]
    /\ grants \in [Humans -> [1..MaxPeriod -> SUBSET Capabilities]]
    /\ policy \in [version : 1..MaxPolicy, required : 1..Cardinality(Humans)]
    /\ agentStatus \in {"active", "disconnected", "revoked"}
    /\ delegation \in [serial : 0..MaxSerial, issuer : Humans, period : 0..MaxPeriod,
                       rights : SUBSET Delegable, live : BOOLEAN]
    /\ credential \in [serial : 0..MaxSerial, live : BOOLEAN]
    /\ proposal \in [by : Principals \cup {Nobody}, of : Humans \cup {Nobody},
                     period : 0..MaxPeriod, serial : 0..MaxSerial, policy : 0..MaxPolicy,
                     phase : {"none", "proposed", "superseded", "acquired", "dispatched", "refused"}]
    /\ approvals \in SUBSET Approvals
    /\ acquired \in [executor : Principals \cup {Nobody}, approvals : SUBSET Approvals]
    /\ lapsed \in SUBSET Humans
    /\ controls \in 0..MaxControls

\* The owner created the space, the others were added and may propose, approve and execute.
Init ==
    /\ member = [h \in Humans |-> 1] /\ periods = [h \in Humans |-> 1]
    /\ grants = [h \in Humans |-> [n \in 1..MaxPeriod |->
                    IF n > 1 THEN {} ELSE IF h = Owner THEN Capabilities
                    ELSE Capabilities \ {"manage"}]]
    /\ policy = [version |-> 1, required |-> 1]
    /\ agentStatus = "active"
    /\ delegation = [serial |-> 0, issuer |-> Owner, period |-> 0, rights |-> {}, live |-> FALSE]
    /\ credential = [serial |-> 0, live |-> FALSE]
    /\ proposal = NoProposal /\ approvals = {} /\ acquired = NotAcquired
    /\ lapsed = {} /\ controls = 0

------------------------------------------------------------------------------
currentGrant(h, c) == member[h] # 0 /\ c \in grants[h][member[h]]

\* A delegation holds while it, its agent and the issuer's very period hold.
currentDelegation(serial) ==
    /\ serial # 0 /\ delegation.serial = serial /\ delegation.live
    /\ agentStatus = "active"
    /\ member[delegation.issuer] = delegation.period

\* The agent's key resolves to a delegation that holds, never to the human who owns it.
resolveCredentialPrincipal == credential.live /\ currentDelegation(credential.serial)

\* A human acts on grants of the current period, an agent on delegated rights that the issuer
\* still has.
authorize(x, c) ==
    IF x \in Humans THEN currentGrant(x, c)
    ELSE /\ resolveCredentialPrincipal
         /\ c \in delegation.rights /\ currentGrant(delegation.issuer, c)

------------------------------------------------------------------------------
\* Control operations: a current member with the managing grant, freshly authenticated.
requireManager(m) ==
    /\ controls < MaxControls /\ controls' = controls + 1
    /\ currentGrant(m, "manage")

OnlyControl == UNCHANGED <<proposal, approvals, acquired>>

\* A grant is given to the current period and taken from any.
setResourceGrant(m, h, c) ==
    /\ requireManager(m)
    /\ \/ member[h] # 0 /\ grants' = [grants EXCEPT ![h][member[h]] = @ \cup {c}]
       \/ \E n \in 1..periods[h] : grants' = [grants EXCEPT ![h][n] = @ \ {c}]
    /\ UNCHANGED <<member, periods, policy, agentStatus, delegation, credential, lapsed>>
    /\ OnlyControl

\* A new period starts without the grants of an earlier one.
addMembership(m, h) ==
    /\ requireManager(m) /\ member[h] = 0 /\ periods[h] < MaxPeriod
    /\ periods' = [periods EXCEPT ![h] = @ + 1]
    /\ member' = [member EXCEPT ![h] = periods[h] + 1]
    /\ UNCHANGED <<grants, policy, agentStatus, delegation, credential, lapsed>>
    /\ OnlyControl

revokeMembership(m, h) ==
    /\ requireManager(m) /\ member[h] # 0
    /\ member' = [member EXCEPT ![h] = 0]
    /\ lapsed' = IF h = proposal.of \/ \E a \in approvals : a.actor = h
                 THEN lapsed \cup {h} ELSE lapsed
    /\ UNCHANGED <<periods, grants, policy, agentStatus, delegation, credential>>
    /\ OnlyControl

setPolicy(m) ==
    /\ requireManager(m) /\ policy.version < MaxPolicy
    /\ \E n \in 1..Cardinality(Humans) :
           policy' = [version |-> policy.version + 1, required |-> n]
    /\ UNCHANGED <<member, periods, grants, agentStatus, delegation, credential, lapsed>>
    /\ OnlyControl

setAgentStatus(m) ==
    /\ requireManager(m)
    /\ \/ agentStatus' = "disconnected" /\ UNCHANGED delegation
       \/ agentStatus' = "revoked" /\ delegation' = [delegation EXCEPT !.live = FALSE]
    /\ UNCHANGED <<member, periods, grants, policy, credential, lapsed>>
    /\ OnlyControl

\* A manager delegates rights of the own current period; an earlier version is revoked.
delegate(m) ==
    /\ requireManager(m) /\ agentStatus = "active" /\ delegation.serial < MaxSerial
    /\ \E rights \in SUBSET Delegable \ {{}} :
        /\ \A c \in rights : currentGrant(m, c)
        /\ delegation' = [serial |-> delegation.serial + 1, issuer |-> m,
                          period |-> member[m], rights |-> rights, live |-> TRUE]
    /\ UNCHANGED <<member, periods, grants, policy, agentStatus, credential, lapsed>>
    /\ OnlyControl

revokeDelegation(m) ==
    /\ requireManager(m) /\ delegation.live
    /\ delegation' = [delegation EXCEPT !.live = FALSE]
    /\ UNCHANGED <<member, periods, grants, policy, agentStatus, credential, lapsed>>
    /\ OnlyControl

registerCredentialBinding(m) ==
    /\ requireManager(m) /\ currentDelegation(delegation.serial)
    /\ delegation.issuer = m /\ member[m] = delegation.period
    /\ credential' = [serial |-> delegation.serial, live |-> TRUE]
    /\ UNCHANGED <<member, periods, grants, policy, agentStatus, delegation, lapsed>>
    /\ OnlyControl

revokeCredentialBinding(m) ==
    /\ requireManager(m) /\ credential.live
    /\ credential' = [credential EXCEPT !.live = FALSE]
    /\ UNCHANGED <<member, periods, grants, policy, agentStatus, delegation, lapsed>>
    /\ OnlyControl

------------------------------------------------------------------------------
NoControl == UNCHANGED <<member, periods, grants, policy, agentStatus, delegation, credential,
                         controls>>

\* A proposal is stored with the membership that answers for it: the own, or the issuer's.
createProposal(x) ==
    /\ proposal.phase = "none" /\ authorize(x, "propose")
    /\ LET of == IF x \in Humans THEN x ELSE delegation.issuer
       IN proposal' = [by |-> x, of |-> of, period |-> member[of], policy |-> policy.version,
                       serial |-> IF x \in Humans THEN 0 ELSE delegation.serial,
                       phase |-> "proposed"]
    /\ UNCHANGED <<approvals, acquired, lapsed>> /\ NoControl

requesterMembershipCurrent ==
    /\ member[proposal.of] = proposal.period
    /\ proposal.serial # 0 => currentDelegation(proposal.serial)

proposalOriginAuthorityCurrent ==
    requesterMembershipCurrent /\ currentGrant(proposal.of, "propose")

\* One active approval per human and proposal; it is never renewed in a later period.
createApproval(h) ==
    /\ proposal.phase = "proposed" /\ proposal.policy = policy.version
    /\ proposalOriginAuthorityCurrent /\ currentGrant(h, "approve")
    /\ ~\E a \in approvals : a.actor = h
    /\ approvals' = approvals \cup {[actor |-> h, period |-> member[h], policy |-> policy.version]}
    /\ UNCHANGED <<proposal, acquired, lapsed>> /\ NoControl

\* Variant: an approval of an earlier membership period counts.
eligible_AnyPeriod(a) == a.policy = policy.version /\ currentGrant(a.actor, "approve")

\* An approval counts while its giver is in the very period it was given in.
eligible(a) ==
    a.policy = policy.version /\ member[a.actor] = a.period /\ currentGrant(a.actor, "approve")

discardProposal(h) ==
    /\ proposal.phase = "proposed" /\ currentGrant(h, "execute")
    /\ proposal' = [proposal EXCEPT !.phase = "superseded"]
    /\ approvals' = {}
    /\ UNCHANGED <<acquired, lapsed>> /\ NoControl

MayExecute(x) ==
    /\ proposal.policy = policy.version
    /\ proposalOriginAuthorityCurrent
    /\ authorize(x, "execute")
    /\ x = Agent /\ proposal.serial # 0 => credential.serial = proposal.serial

\* Consumes as many approvals as the policy asks for.
acquireProposalExecution(x) ==
    /\ proposal.phase = "proposed" /\ MayExecute(x)
    /\ \E used \in SUBSET {a \in approvals : eligible(a)} :
        /\ Cardinality(used) = policy.required
        /\ acquired' = [executor |-> x, approvals |-> used]
    /\ proposal' = [proposal EXCEPT !.phase = "acquired"]
    /\ UNCHANGED <<approvals, lapsed>> /\ NoControl

\* The fence in front of the write asks everything again.
validateAcquired ==
    /\ MayExecute(acquired.executor)
    /\ \A a \in acquired.approvals : eligible(a)
    /\ Cardinality(acquired.approvals) >= policy.required

Dispatch ==
    /\ proposal.phase = "acquired"
    /\ proposal' = [proposal EXCEPT !.phase = IF validateAcquired THEN "dispatched" ELSE "refused"]
    /\ UNCHANGED <<approvals, acquired, lapsed>> /\ NoControl

Next ==
    \/ \E m \in Humans :
        \/ \E h \in Humans, c \in Capabilities : setResourceGrant(m, h, c)
        \/ \E h \in Humans : addMembership(m, h) \/ revokeMembership(m, h)
        \/ setPolicy(m) \/ setAgentStatus(m) \/ delegate(m) \/ revokeDelegation(m)
        \/ registerCredentialBinding(m) \/ revokeCredentialBinding(m)
        \/ createApproval(m) \/ discardProposal(m)
    \/ \E x \in Principals : createProposal(x) \/ acquireProposalExecution(x)
    \/ Dispatch

Spec == Init /\ [][Next]_vars

------------------------------------------------------------------------------
\* When the write goes out, nobody it rests on has left the space since: not the human the
\* proposal answers for and not one of the approvers it consumed, even if they were taken
\* back and given the same grants (eligibleHumanApprovals, requesterMembershipCurrent).
\* As many different humans stand behind it as the policy of that moment asks.
BackedThroughout ==
    proposal.phase # "dispatched" /\ proposal'.phase = "dispatched" =>
        LET backers == {a.actor : a \in acquired.approvals}
        IN /\ Cardinality(backers) >= policy.required
           /\ (backers \cup {proposal.of}) \cap lapsed = {}
           /\ \A h \in backers : currentGrant(h, "approve")

\* An agent has a change made only within the delegation it was proposed or keyed under,
\* and only while the issuer could make it (authorizeForPurpose).
AgentsWithinIssuer ==
    proposal.phase # "dispatched" /\ proposal'.phase = "dispatched" =>
        /\ acquired.executor = Agent =>
            /\ credential.live /\ delegation.live
            /\ {"execute"} \subseteq delegation.rights \cap grants[delegation.issuer][member[delegation.issuer]]
        /\ proposal.by = Agent => delegation.serial = proposal.serial /\ delegation.live

\* What a dispatch may do: both halves of WritesBacked.
BackedStep == BackedThroughout /\ AgentsWithinIssuer

\* Provenance lies in the past: periods that were given out, one approval of a human, and
\* whoever left since they proposed or approved is never again in the period they did it in.
ProvenancePast ==
    /\ \A h \in Humans : member[h] <= periods[h]
    /\ proposal.phase = "none" => proposal = NoProposal /\ approvals = {} /\ lapsed = {}
    /\ proposal.phase # "none" => /\ proposal.of \in Humans
                                  /\ proposal.period \in 1..periods[proposal.of]
                                  /\ proposal.by = Agent => proposal.serial # 0
    /\ proposal.phase \in {"none", "proposed", "superseded"} => acquired.approvals = {}
    /\ acquired.approvals \subseteq approvals
    /\ \A a \in approvals : a.period <= periods[a.actor]
    /\ \A a \in approvals : a.actor \in lapsed => member[a.actor] # a.period
    /\ proposal.of \in lapsed => member[proposal.of] # proposal.period
    /\ proposal.phase = "proposed" =>
          \A h \in lapsed : h = proposal.of \/ \E a \in approvals : a.actor = h

AuthorityKept == TypeOK /\ ProvenancePast

\* A dispatched write rests on people and delegations whose authority held since they approved.
WritesBacked == [][AuthorityKept' /\ BackedStep]_vars
==============================================================================
