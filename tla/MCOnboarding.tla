----------------------------- MODULE MCOnboarding -----------------------------
(***************************************************************************)
(* Checks OwnerBootstrap and InvitationRedemption. The first state chooses *)
(* which of the two is checked.                                            *)
(***************************************************************************)
EXTENDS Integers, FiniteSets

CONSTANTS Emails, None, Operators, MaxBootDisruptions,
          Invites, Passwords, Requests, MaxTerm, MaxPolicy, MaxDisruptions

VARIABLES component,
          claimed, owner, owners, users, bpc, email, answer, bdisruptions,
          status, cemail, issued, past, issuer, terms, policy, members, inactive, account,
          pc, req, signed, disruptions

Bootstrap == INSTANCE OwnerBootstrap WITH
    Requests <- Operators, MaxDisruptions <- MaxBootDisruptions,
    members <- owners, pc <- bpc, disruptions <- bdisruptions
Invitation == INSTANCE InvitationRedemption

ASSUME OnboardingInstance == Bootstrap!BootstrapConstants /\ Invitation!InvitationConstants

bootstrapVars == <<claimed, owner, owners, users, bpc, email, answer, bdisruptions>>
invitationVars == <<status, cemail, issued, past, issuer, terms, policy, members, inactive,
                    account, pc, req, signed, disruptions>>
vars == <<component, bootstrapVars, invitationVars>>

\* A component that is not the one checked has no state.
bootstrapOff ==
    /\ claimed = None /\ owner = None /\ owners = None /\ users = None /\ bpc = None
    /\ email = None /\ answer = None /\ bdisruptions = None

invitationOff ==
    /\ status = None /\ cemail = None /\ issued = None /\ past = None /\ issuer = None
    /\ terms = None /\ policy = None /\ members = None /\ inactive = None /\ account = None
    /\ pc = None /\ req = None /\ signed = None /\ disruptions = None

Init ==
    \/ component = "bootstrap" /\ Bootstrap!Init /\ invitationOff
    \/ component = "invitation" /\ Invitation!Init /\ bootstrapOff

InBootstrap == component = "bootstrap" /\ UNCHANGED <<component, invitationVars>>
InInvitation == component = "invitation" /\ UNCHANGED <<component, bootstrapVars>>

Next ==
    \/ InBootstrap /\ Bootstrap!Next
    \/ InInvitation /\ Invitation!Next

\* The fairness of each component: see FairSpec there.
Spec ==
    /\ Init /\ [][Next]_vars
    /\ \A r \in Operators : WF_vars(InBootstrap /\ Bootstrap!Handle(r))
    /\ \A e \in Emails : SF_vars(InBootstrap /\ Bootstrap!Retry(e))
    /\ \A r \in Requests : WF_vars(InInvitation /\ Invitation!Handle(r))
    /\ \A i \in Invites, p \in Passwords : SF_vars(InInvitation /\ Invitation!Retry(i, p))

\* OwnerBootstrap!BootstrapSafe: whoever lost the race for the claim leaves nothing behind.
BootstrapSafe == component = "bootstrap" => Bootstrap!BootstrapSafe

\* OwnerBootstrap!ClaimAndOwnerFinal: the claim and the owner are written once.
ClaimAndOwnerFinal == [][component = "bootstrap" => Bootstrap!BootstrapStep]_vars

\* OwnerBootstrap!ClaimIsFinished: the holder of the claim becomes the owner.
ClaimIsFinished == claimed # None ~> owner # None

\* InvitationRedemption!InvitationSafe: members and accounts were invited and claimed.
InvitationSafe == component = "invitation" => Invitation!InvitationSafe

\* InvitationRedemption!InvitationSteps: authority is looked at when it is used; outcomes
\* are final.
InvitationSteps == [][component = "invitation" => Invitation!InvitationStep]_vars

\* InvitationRedemption!ClaimsAreRedeemed: a claimant's retries succeed while they may.
ClaimsAreRedeemed ==
    \A i \in Invites :
        component = "invitation" /\ Invitation!Redeeming(i)
            ~> component = "invitation" /\ ~Invitation!Redeeming(i)
================================================================================
