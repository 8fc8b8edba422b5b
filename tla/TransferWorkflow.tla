--------------------------- MODULE TransferWorkflow ---------------------------
(***************************************************************************)
(* Transfers between accounts that a person makes at a bank. A transfer    *)
(* reserves money when admitted, is approved by other members, reported as *)
(* initiated, and confirmed only when both sides of one bank movement,     *)
(* newer than the plan and claimed by no other transfer, are reconciled in *)
(* the ledger. Every transfer here has one leg, and all of them move the   *)
(* same amount between the same accounts: the hard case for matching.      *)
(***************************************************************************)
EXTENDS Naturals, FiniteSets

CONSTANTS
    Transfers,   \* transfer proposals
    Linked,      \* those that belong to the Spend Session
    Members,     \* humans of the space
    Requester,   \* the member who proposes the transfers
    Required,    \* approvals the policy asks for
    Movements,   \* bank movements, each with a record on the source and the destination account
    None

\* Candidate movements are counted, and no transfer is the absence of one.
TransferConstants == IsFiniteSet(Movements) /\ None \notin Transfers

VARIABLES
    phase,      \* phase of each transfer
    expired,    \* transfers whose plan ran out
    lapsed,     \* transfers whose requester left, or whose governance version changed, while pending
    apr,        \* each member's approval of each transfer; a superseded one is none
    claim,      \* claim bundle of each transfer
    baseline,   \* ledger records each plan was made with
    owner,      \* transfer_evidence: the transfer each ledger record was consumed by
    ledger,     \* records in the ledger
    fresh       \* ghost: who approved each transfer since its last failed recheck

vars == <<phase, expired, lapsed, apr, claim, baseline, owner, ledger, fresh>>

Sides == {"source", "destination"}
Records == Movements \X Sides

TypeOK ==
    /\ phase \in [Transfers -> {"none", "proposed", "awaiting_approval", "approved",
                                "initiated", "confirmed", "closed"}]
    /\ expired \in SUBSET Transfers /\ lapsed \in SUBSET Transfers
    /\ apr \in [Transfers -> [Members -> {"none", "active", "consumed"}]]
    /\ claim \in [Transfers -> {"none", "active", "initiated", "settled", "released"}]
    /\ baseline \in [Transfers -> SUBSET Records]
    /\ owner \in [Records -> Transfers \cup {None}]
    /\ ledger \in SUBSET Records
    /\ fresh \in [Transfers -> SUBSET Members]

Init ==
    /\ phase = [t \in Transfers |-> "none"]
    /\ expired = {} /\ lapsed = {}
    /\ apr = [t \in Transfers |-> [a \in Members |-> "none"]]
    /\ claim = [t \in Transfers |-> "none"]
    /\ baseline = [t \in Transfers |-> {}]
    /\ owner = [r \in Records |-> None]
    /\ ledger = {}
    /\ fresh = [t \in Transfers |-> {}]

------------------------------------------------------------------------------
Pending(t) == phase[t] \in {"proposed", "awaiting_approval", "approved"}

\* What the service read before it called the store. Accounts are read one after the
\* other and the ledger moves meanwhile: any record may be missing, and what is there
\* may or may not all have been reconciled by the person yet. (A reversed record only makes
\* the verification return an error that leaves the store as it was.)
Captures == [seen : SUBSET ledger, reconciled : BOOLEAN]

------------------------------------------------------------------------------
(* Matching the plan with the ledger.                                      *)

\* Records that can belong to this transfer: not reversed, not in the plan's baseline,
\* not consumed by another transfer.
validRecords(t, view) ==
    {r \in view.seen \ baseline[t] : owner[r] \in {None, t}}

\* Variant: both sides seen are enough, whatever movements they belong to.
settlement_ExtraCandidates(t, view) ==
    LET valid == validRecords(t, view)
    IN [evidence |-> valid,
        confirmed |-> {r[2] : r \in valid} = Sides /\ view.reconciled]

\* Candidate movements: every one of them must fit a leg of its own, and there is one leg.
settlement(t, view) ==
    LET valid == validRecords(t, view)
        events == {r[1] : r \in valid}
        error == Cardinality(events) > 1
    IN [evidence |-> IF error THEN {} ELSE valid,
        confirmed |-> /\ ~error
                      /\ Cardinality(valid) = 2
                      /\ view.reconciled]

------------------------------------------------------------------------------
\* The pending proposal's requester still holds, and the plan has not run out. A session
\* outlives the plans linked to it, and a change of it closes them.
command(t) == Pending(t) /\ t \notin lapsed
cas(t) == t \notin expired /\ phase[t] # "closed"

approvals(t) == {a \in Members \ {Requester} : apr[t][a] = "active"}
Enough(t) == Cardinality(approvals(t)) >= Required

Supersede(T) ==
    apr' = [t \in Transfers |-> [a \in Members |->
        IF t \in T /\ apr[t][a] = "active" THEN "none" ELSE apr[t][a]]]

\* An initiated transfer keeps its phase and its claim whatever closes it.
closeProposal(T) ==
    LET C == {t \in T : phase[t] # "initiated"}
    IN /\ Supersede(T)
       /\ phase' = [t \in Transfers |-> IF t \in C THEN "closed" ELSE phase[t]]
       /\ claim' = [t \in Transfers |-> IF t \in C THEN "released" ELSE claim[t]]

Open == {t \in Transfers : phase[t] \notin {"none", "confirmed", "closed"}}

invalidateProposals(T) == closeProposal(T \cap Open)

admitTransferProposal(t) ==
    /\ phase[t] = "none"
    /\ phase' = [phase EXCEPT ![t] = "proposed"]
    /\ claim' = [claim EXCEPT ![t] = "active"]
    /\ baseline' = [baseline EXCEPT ![t] = ledger]
    /\ UNCHANGED <<expired, lapsed, apr, owner, ledger, fresh>>

approveTransfer(t, a) ==
    /\ command(t) /\ cas(t)
    /\ apr' = [apr EXCEPT ![t][a] = "active"]
    /\ phase' = [phase EXCEPT ![t] =
                    IF Cardinality(approvals(t) \cup ({a} \ {Requester})) >= Required
                    THEN "approved" ELSE "awaiting_approval"]
    /\ fresh' = [fresh EXCEPT ![t] = @ \cup {a}]
    /\ UNCHANGED <<expired, lapsed, claim, baseline, owner, ledger>>

\* A recheck before instructions are shown that finds the money or the plan changed.
revalidateTransfer(t) ==
    /\ command(t) /\ cas(t)
    /\ Supersede({t})
    /\ phase' = [phase EXCEPT ![t] = "proposed"]
    /\ fresh' = [fresh EXCEPT ![t] = {}]
    /\ UNCHANGED <<expired, lapsed, claim, baseline, owner, ledger>>

\* The person has moved the money. The report stands even if the recheck fails.
reportTransferInitiated(t) ==
    /\ command(t) /\ cas(t)
    /\ phase[t] = "approved" /\ Enough(t)
    /\ apr' = [apr EXCEPT ![t] = [a \in Members |->
                    IF a \in approvals(t) THEN "consumed" ELSE apr[t][a]]]
    /\ claim' = [claim EXCEPT ![t] = "initiated"]
    /\ phase' = [phase EXCEPT ![t] = "initiated"]
    /\ UNCHANGED <<expired, lapsed, baseline, owner, ledger, fresh>>

\* Evidence is consumed as soon as one side is seen; both, reconciled, confirm.
verifyTransferSettlement(t) ==
    /\ phase[t] = "initiated"
    /\ \E view \in Captures :
        LET result == settlement(t, view)
        IN /\ owner' = [r \in Records |-> IF r \in result.evidence THEN t ELSE owner[r]]
           /\ phase' = IF result.confirmed THEN [phase EXCEPT ![t] = "confirmed"] ELSE phase
           /\ claim' = IF result.confirmed THEN [claim EXCEPT ![t] = "settled"] ELSE claim
    /\ UNCHANGED <<expired, lapsed, apr, baseline, ledger, fresh>>

cancelTransfer(t) ==
    /\ phase[t] \notin {"none", "confirmed"}
    /\ Pending(t) => t \notin lapsed
    /\ closeProposal({t})
    /\ UNCHANGED <<expired, lapsed, baseline, owner, ledger, fresh>>

\* Every list and capture first closes what ran out.
expire ==
    /\ invalidateProposals(expired)
    /\ UNCHANGED <<expired, lapsed, baseline, owner, ledger, fresh>>

\* A capture of the claim set expires a bundle on its own, without its proposal.
claimSet(t) ==
    /\ claim[t] = "active" /\ t \in expired
    /\ claim' = [claim EXCEPT ![t] = "released"]
    /\ UNCHANGED <<phase, expired, lapsed, apr, baseline, owner, ledger, fresh>>

\* The cart is edited or cancelled, or the policy of the budget replaced.
saveSpendSession ==
    /\ invalidateProposals(Linked)
    /\ UNCHANGED <<expired, lapsed, baseline, owner, ledger, fresh>>

savePolicy ==
    /\ invalidateProposals(Transfers)
    /\ UNCHANGED <<expired, lapsed, baseline, owner, ledger, fresh>>

\* A membership period ends: the member's approvals, and the requester's proposals, lapse.
Leave(a) ==
    /\ apr' = [t \in Transfers |-> [apr[t] EXCEPT ![a] = IF @ = "active" THEN "none" ELSE @]]
    /\ lapsed' = IF a = Requester THEN lapsed \cup {t \in Transfers : Pending(t)} ELSE lapsed
    /\ UNCHANGED <<phase, expired, claim, baseline, owner, ledger, fresh>>

\* Time passes: the plans of all pending transfers run out.
PlansExpire ==
    /\ expired' = expired \cup {t \in Transfers : Pending(t)}
    /\ UNCHANGED <<phase, lapsed, apr, claim, baseline, owner, ledger, fresh>>

\* The bank's records reach the ledger.
Post(r) ==
    /\ r \notin ledger
    /\ ledger' = ledger \cup {r}
    /\ UNCHANGED <<phase, expired, lapsed, apr, claim, baseline, owner, fresh>>

Next ==
    \/ \E t \in Transfers :
        \/ admitTransferProposal(t) \/ \E a \in Members : approveTransfer(t, a)
        \/ revalidateTransfer(t) \/ reportTransferInitiated(t)
        \/ verifyTransferSettlement(t)
        \/ cancelTransfer(t) \/ claimSet(t)
    \/ expire \/ PlansExpire \/ saveSpendSession \/ savePolicy
    \/ \E a \in Members : Leave(a)
    \/ \E r \in Records : Post(r)

Spec == Init /\ [][Next]_vars

------------------------------------------------------------------------------
\* A transfer that consumed its approvals keeps its reservation until it is confirmed,
\* whatever cancels, expires or supersedes it meanwhile, and a reservation is settled only
\* with its transfer (closeProposal, changeClaim, verifyTransferSettlement).
ReservationKept ==
    \A t \in Transfers :
        /\ (\E a \in Members : apr[t][a] = "consumed") => claim[t] \in {"initiated", "settled"}
        /\ phase[t] = "initiated" <=> claim[t] = "initiated"
        /\ phase[t] = "confirmed" <=> claim[t] = "settled"

\* A confirmed transfer owns both sides of one bank movement that was not in the ledger
\* when its plan was made, however many like transfers are settled from the same captures
\* (settlement, verifyTransferSettlement).
ConfirmedByOneMovement ==
    \A t \in Transfers : phase[t] = "confirmed" =>
        \E m \in Movements : \A s \in Sides :
            owner[<<m, s>>] = t /\ <<m, s>> \notin baseline[t]

\* Nobody initiates a transfer on approvals of a state that a recheck has refuted since:
\* enough members other than the requester approved it after the last failed recheck
\* (revalidateTransfer, approvals, reportTransferInitiated).
InitiatedOnFreshApprovals ==
    \A t \in Transfers : phase[t] \in {"initiated", "confirmed"} =>
        Cardinality({a \in fresh[t] \ {Requester} : apr[t][a] = "consumed"}) >= Required

\* An approval that still counts was given after the last failed recheck.
ApprovalsFresh ==
    \A t \in Transfers, a \in Members : apr[t][a] = "active" => a \in fresh[t]

\* A reservation lasts as long as its transfer, and one movement confirms one transfer.
TransfersSafe ==
    /\ TypeOK /\ ReservationKept /\ ConfirmedByOneMovement
    /\ InitiatedOnFreshApprovals /\ ApprovalsFresh
==============================================================================
