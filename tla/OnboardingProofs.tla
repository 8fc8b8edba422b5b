--------------------------- MODULE OnboardingProofs ---------------------------
(* How people come in: the owner's bootstrap and the redemption of invitations, *)
(* for any number of addresses, requests and invitations. Both handlers cross   *)
(* two databases without a transaction over them, so what a request did earlier *)
(* is carried in the invariants until it is used.                               *)
EXTENDS MCOnboarding, TLAPS

USE OnboardingInstance

\* A step belongs to the component that the first state chose.
LEMMA Components ==
    ASSUME [Next]_vars
    PROVE  /\ component = "bootstrap" => [Bootstrap!Next]_bootstrapVars
           /\ component = "invitation" => [Invitation!Next]_invitationVars
           /\ component' = component
  BY DEF Next, vars, InBootstrap, InInvitation

USE DEF bootstrapVars, invitationVars
------------------------------------------------------------------------------
\* An answered request is idle again.
LEMMA BootResponds ==
    ASSUME Bootstrap!TypeOK, NEW r \in Operators,
           NEW a \in {"none", "ok", "conflict", "failed"}, Bootstrap!Respond(r, a)
    PROVE  /\ bpc' \in [Operators -> Bootstrap!Pcs]
           /\ email' \in [Operators -> Emails \cup {None}]
           /\ answer' \in [Operators -> {"none", "ok", "conflict", "failed"}]
           /\ bpc'[r] = "idle" /\ answer'[r] = a
           /\ \A q \in Operators \ {r} :
                 bpc'[q] = bpc[q] /\ email'[q] = email[q] /\ answer'[q] = answer[q]
  BY DEF Bootstrap!TypeOK, Bootstrap!Respond, Bootstrap!Pcs

\* A request that goes on keeps its address.
LEMMA BootGoes ==
    ASSUME Bootstrap!TypeOK, NEW r \in Operators, NEW l \in Bootstrap!Pcs, Bootstrap!Goto(r, l)
    PROVE  /\ bpc' \in [Operators -> Bootstrap!Pcs]
           /\ bpc'[r] = l /\ email' = email /\ answer' = answer
           /\ \A q \in Operators \ {r} : bpc'[q] = bpc[q]
  BY DEF Bootstrap!TypeOK, Bootstrap!Goto

\* Every step of a bootstrap keeps the types.
LEMMA BootTypeStep ==
    ASSUME Bootstrap!BootstrapConstants, Bootstrap!TypeOK, [Bootstrap!Next]_bootstrapVars
    PROVE  Bootstrap!TypeOK'
<1> USE DEF Bootstrap!TypeOK, Bootstrap!rowVars
<1>1. {"idle", "state", "claim", "create", "list", "finalize"} \subseteq Bootstrap!Pcs
    BY DEF Bootstrap!Pcs
<1>2. ASSUME NEW r \in Operators, Bootstrap!getRegistrationState(r)
      PROVE  Bootstrap!TypeOK'
    BY <1>1, <1>2, BootResponds, BootGoes DEF Bootstrap!getRegistrationState
<1>3. ASSUME NEW r \in Operators, Bootstrap!claimBootstrap(r)
      PROVE  Bootstrap!TypeOK'
    BY <1>1, <1>3, BootResponds, BootGoes DEF Bootstrap!claimBootstrap
<1>4. ASSUME NEW r \in Operators, Bootstrap!createUser(r)
      PROVE  Bootstrap!TypeOK'
    BY <1>1, <1>4, BootResponds, BootGoes DEF Bootstrap!createUser
<1>5. ASSUME NEW r \in Operators, Bootstrap!listUsers(r)
      PROVE  Bootstrap!TypeOK'
    BY <1>1, <1>5, BootResponds, BootGoes DEF Bootstrap!listUsers
<1>6. ASSUME NEW r \in Operators, Bootstrap!finalizeBootstrap(r)
      PROVE  Bootstrap!TypeOK'
    BY <1>1, <1>6, BootResponds DEF Bootstrap!finalizeBootstrap
<1>7. ASSUME NEW r \in Operators, Bootstrap!Fault(r)
      PROVE  Bootstrap!TypeOK'
    BY <1>1, <1>7, BootResponds DEF Bootstrap!Fault, Bootstrap!BootstrapConstants
<1>8. ASSUME NEW r \in Operators, NEW e \in Emails, Bootstrap!Receive(r, e)
      PROVE  Bootstrap!TypeOK'
    BY <1>1, <1>8 DEF Bootstrap!Receive
<1>9. CASE Bootstrap!Crash
    BY <1>1, <1>9 DEF Bootstrap!Crash, Bootstrap!BootstrapConstants
<1>10. CASE UNCHANGED bootstrapVars
    BY <1>10
<1> QED
    BY <1>2, <1>3, <1>4, <1>5, <1>6, <1>7, <1>8, <1>9, <1>10 DEF Bootstrap!Next, Bootstrap!Handle

\* The claim and the owner are written once; what holds them is kept.
LEMMA BootSafeStep ==
    ASSUME Bootstrap!BootstrapConstants, Bootstrap!BootstrapSafe, [Bootstrap!Next]_bootstrapVars
    PROVE  Bootstrap!BootstrapSafe' /\ Bootstrap!BootstrapStep
<1> DEFINE Goal == Bootstrap!OnlyClaimant' /\ Bootstrap!ClaimCarried' /\ Bootstrap!BootstrapStep
<1> USE DEF Bootstrap!TypeOK, Bootstrap!rowVars, Bootstrap!BootstrapSafe, Bootstrap!OnlyClaimant,
            Bootstrap!ClaimCarried, Bootstrap!BootstrapStep
<1>0. {"idle", "state", "claim", "create", "list", "finalize"} \subseteq Bootstrap!Pcs
    BY DEF Bootstrap!Pcs
<1>1. Bootstrap!TypeOK'
    BY BootTypeStep
<1>2. ASSUME NEW r \in Operators, Bootstrap!getRegistrationState(r)
      PROVE  Goal
    BY <1>0, <1>2, BootResponds, BootGoes DEF Bootstrap!getRegistrationState
<1>3. ASSUME NEW r \in Operators, Bootstrap!claimBootstrap(r)
      PROVE  Goal
  <2>1. CASE Bootstrap!Respond(r, "conflict") /\ UNCHANGED claimed
      BY <1>0, <1>3, <2>1, BootResponds DEF Bootstrap!claimBootstrap
  <2>2. CASE /\ owner = None /\ claimed \in {None, email[r]}
             /\ claimed' = email[r] /\ Bootstrap!Goto(r, "create")
    <3>1. \A q \in Operators : bpc[q] \in {"create", "list", "finalize"} => claimed = claimed'
        BY <2>2 DEF Bootstrap!BootstrapConstants
    <3> QED
        BY <1>0, <1>3, <2>2, <3>1, BootGoes
           DEF Bootstrap!claimBootstrap, Bootstrap!BootstrapConstants
  <2> QED
      BY <1>3, <2>1, <2>2 DEF Bootstrap!claimBootstrap
<1>4. ASSUME NEW r \in Operators, Bootstrap!createUser(r)
      PROVE  Goal
    BY <1>0, <1>4, BootGoes DEF Bootstrap!createUser
<1>5. ASSUME NEW r \in Operators, Bootstrap!listUsers(r)
      PROVE  Goal
    BY <1>0, <1>5, BootResponds, BootGoes DEF Bootstrap!listUsers
<1>6. ASSUME NEW r \in Operators, Bootstrap!finalizeBootstrap(r)
      PROVE  Goal
    BY <1>0, <1>6, BootResponds DEF Bootstrap!finalizeBootstrap, Bootstrap!BootstrapConstants
<1>7. ASSUME NEW r \in Operators, Bootstrap!Fault(r)
      PROVE  Goal
    BY <1>0, <1>7, BootResponds DEF Bootstrap!Fault
<1>8. ASSUME NEW r \in Operators, NEW e \in Emails, Bootstrap!Receive(r, e)
      PROVE  Goal
    BY <1>0, <1>8 DEF Bootstrap!Receive
<1>9. CASE Bootstrap!Crash
    BY <1>0, <1>1, <1>9 DEF Bootstrap!Crash
<1>10. CASE UNCHANGED bootstrapVars
    BY <1>1, <1>10
<1> QED
    BY <1>1, <1>2, <1>3, <1>4, <1>5, <1>6, <1>7, <1>8, <1>9, <1>10 DEF Bootstrap!Next, Bootstrap!Handle

LEMMA BootInit ==
    ASSUME Bootstrap!BootstrapConstants, Bootstrap!Init
    PROVE  Bootstrap!BootstrapSafe
  BY DEF Bootstrap!Init, Bootstrap!BootstrapSafe, Bootstrap!TypeOK, Bootstrap!OnlyClaimant,
         Bootstrap!ClaimCarried, Bootstrap!Pcs, Bootstrap!BootstrapConstants

\* However many operators race, retry and die between the two databases, only the holder of
\* the claim leaves an account behind, and it alone becomes owner and member.
THEOREM BootstrapSafeAlways == Spec => []BootstrapSafe
<1>1. Init => BootstrapSafe
  <2> SUFFICES ASSUME Init, component = "bootstrap"
               PROVE  Bootstrap!BootstrapSafe
      BY DEF BootstrapSafe
  <2>1. Bootstrap!Init
      BY DEF Init
  <2> QED
      BY <2>1, BootInit
<1>2. BootstrapSafe /\ [Next]_vars => BootstrapSafe'
    BY Components, BootSafeStep DEF BootstrapSafe
<1> QED
    BY <1>1, <1>2, PTL DEF Spec

\* claimed_email and owner_user_id never change once written.
THEOREM ClaimAndOwnerFinalAlways == Spec => ClaimAndOwnerFinal
<1>1. BootstrapSafe /\ [Next]_vars => (component = "bootstrap" => Bootstrap!BootstrapStep)
    BY Components, BootSafeStep DEF BootstrapSafe
<1> QED
    BY <1>1, BootstrapSafeAlways, PTL DEF Spec, ClaimAndOwnerFinal
------------------------------------------------------------------------------
\* An answered redemption is idle again.
LEMMA RedeemResponds ==
    ASSUME Invitation!TypeOK, NEW r \in Requests, Invitation!Respond(r)
    PROVE  /\ pc' \in [Requests -> Invitation!Pcs]
           /\ req' \in [Requests -> Invitation!Inputs \cup {None}]
           /\ signed' \in [Requests -> BOOLEAN]
           /\ pc'[r] = "idle"
           /\ \A q \in Requests \ {r} : pc'[q] = pc[q] /\ req'[q] = req[q] /\ signed'[q] = signed[q]
<1>1. signed' \in [Requests -> BOOLEAN]
    BY Zenon DEF Invitation!TypeOK, Invitation!Respond
<1> QED
    BY <1>1 DEF Invitation!TypeOK, Invitation!Respond, Invitation!Pcs

\* A redemption that goes on keeps its input.
LEMMA RedeemGoes ==
    ASSUME Invitation!TypeOK, NEW r \in Requests, NEW l \in Invitation!Pcs, Invitation!Goto(r, l)
    PROVE  /\ pc' \in [Requests -> Invitation!Pcs]
           /\ pc'[r] = l /\ req' = req /\ signed' = signed
           /\ \A q \in Requests \ {r} : pc'[q] = pc[q]
  BY DEF Invitation!TypeOK, Invitation!Goto

\* One that has signed in goes on to complete.
LEMMA RedeemSigns ==
    ASSUME Invitation!TypeOK, NEW r \in Requests,
           pc' = [pc EXCEPT ![r] = "complete"], signed' = [signed EXCEPT ![r] = TRUE], req' = req
    PROVE  /\ pc' \in [Requests -> Invitation!Pcs] /\ signed' \in [Requests -> BOOLEAN]
           /\ pc'[r] = "complete" /\ signed'[r]
           /\ \A q \in Requests \ {r} : pc'[q] = pc[q] /\ signed'[q] = signed[q]
<1>1. signed' \in [Requests -> BOOLEAN]
    BY Zenon DEF Invitation!TypeOK
<1> QED
    BY <1>1 DEF Invitation!TypeOK, Invitation!Pcs

\* Every step around invitations keeps the types.
LEMMA InviteTypeStep ==
    ASSUME Invitation!InvitationConstants, Invitation!TypeOK, [Invitation!Next]_invitationVars
    PROVE  Invitation!TypeOK'
<1> USE DEF Invitation!TypeOK, Invitation!inviteVars, Invitation!spaceVars, Invitation!requestVars
<1>1. /\ {"idle", "claim", "prior", "signin", "create", "resignin", "complete"} \subseteq Invitation!Pcs
      /\ {"none", "active", "claimed", "redeemed", "revoked", "expired"} \subseteq Invitation!Statuses
    BY DEF Invitation!Pcs, Invitation!Statuses
<1>2. ASSUME NEW i \in Invites, Invitation!createInvitation(i)
      PROVE  Invitation!TypeOK'
    BY <1>1, <1>2 DEF Invitation!createInvitation
<1>3. ASSUME NEW i \in Invites, Invitation!revokeInvitation(i)
      PROVE  Invitation!TypeOK'
    BY <1>1, <1>3 DEF Invitation!revokeInvitation
<1>4. ASSUME NEW i \in Invites, Invitation!PassExpiry(i)
      PROVE  Invitation!TypeOK'
  <2>1. past' \in [Invites -> BOOLEAN]
      BY <1>4, Zenon DEF Invitation!PassExpiry
  <2> QED
      BY <1>4, <2>1 DEF Invitation!PassExpiry
<1>5. CASE Invitation!IssuerLeaves
    BY <1>5 DEF Invitation!IssuerLeaves, Invitation!InvitationConstants
<1>6. CASE Invitation!IssuerReturns
    BY <1>6 DEF Invitation!IssuerReturns, Invitation!InvitationConstants
<1>7. CASE Invitation!PolicyChanges
    BY <1>7 DEF Invitation!PolicyChanges, Invitation!InvitationConstants
<1>8. ASSUME NEW e \in Emails, Invitation!Suspend(e)
      PROVE  Invitation!TypeOK'
    BY <1>8 DEF Invitation!Suspend
<1>9. ASSUME NEW r \in Requests, pc[r] # "idle"
      PROVE  /\ req[r] \in Invitation!Inputs /\ req[r].invite \in Invites
             /\ req[r].email \in Emails /\ req[r].password \in Passwords
    BY <1>9 DEF Invitation!Inputs
<1>10. ASSUME NEW r \in Requests, Invitation!claimInvitation(r)
       PROVE  Invitation!TypeOK'
  <2> PICK i \in Invites : i = req[r].invite
      BY <1>9, <1>10 DEF Invitation!claimInvitation
  <2>1. status' \in [Invites -> Invitation!Statuses] /\ cemail' \in [Invites -> Emails \cup {None}]
      BY <1>1, <1>9, <1>10 DEF Invitation!claimInvitation
  <2>2. Invitation!Respond(r) \/ Invitation!Goto(r, "prior")
      BY <1>10 DEF Invitation!claimInvitation
  <2> QED
      BY <1>1, <1>9, <1>10, <2>1, <2>2, RedeemResponds, RedeemGoes DEF Invitation!claimInvitation
<1>11. ASSUME NEW r \in Requests, Invitation!CheckPriorSession(r)
       PROVE  Invitation!TypeOK'
    BY <1>1, <1>9, <1>11, RedeemResponds, RedeemGoes DEF Invitation!CheckPriorSession
<1>12. ASSUME NEW r \in Requests, Invitation!authenticateInvitationHuman(r)
       PROVE  Invitation!TypeOK'
  <2>1. CASE Invitation!Respond(r)
      BY <1>12, <2>1, RedeemResponds DEF Invitation!authenticateInvitationHuman
  <2>2. CASE Invitation!Goto(r, "create")
      BY <1>1, <1>9, <1>12, <2>2, RedeemGoes DEF Invitation!authenticateInvitationHuman
  <2>3. CASE /\ pc' = [pc EXCEPT ![r] = "complete"] /\ signed' = [signed EXCEPT ![r] = TRUE]
             /\ UNCHANGED req
      BY <1>9, <1>12, <2>3, RedeemSigns DEF Invitation!authenticateInvitationHuman
  <2> QED
      BY <1>12, <2>1, <2>2, <2>3 DEF Invitation!authenticateInvitationHuman
<1>13. ASSUME NEW r \in Requests, Invitation!createUser(r)
       PROVE  Invitation!TypeOK'
    BY <1>1, <1>9, <1>13, RedeemResponds, RedeemGoes DEF Invitation!createUser
<1>14. ASSUME NEW r \in Requests, Invitation!completeInvitationRedemption(r)
       PROVE  Invitation!TypeOK'
  <2>1. /\ Invitation!Respond(r) /\ pc[r] # "idle"
        /\ UNCHANGED <<cemail, issued, past, issuer, terms, policy, inactive, account, disruptions>>
        /\ \/ UNCHANGED <<members, status>>
           \/ /\ members' = members \cup {req[r].email}
              /\ status' = [status EXCEPT ![req[r].invite] = "redeemed"]
      BY <1>14 DEF Invitation!completeInvitationRedemption
  <2>2. members' \in SUBSET Emails /\ status' \in [Invites -> Invitation!Statuses]
      BY <1>1, <1>9, <2>1
  <2> QED
      BY <2>1, <2>2, RedeemResponds
<1>15. ASSUME NEW r \in Requests, Invitation!Fault(r)
       PROVE  Invitation!TypeOK'
    BY <1>1, <1>9, <1>15, RedeemResponds DEF Invitation!Fault, Invitation!InvitationConstants
<1>16. ASSUME NEW r \in Requests, NEW x \in Invitation!Inputs, Invitation!Receive(r, x)
       PROVE  Invitation!TypeOK'
    BY <1>1, <1>16 DEF Invitation!Receive
<1>17. CASE Invitation!Crash
  <2>1. signed' \in [Requests -> BOOLEAN]
      BY <1>17, Zenon DEF Invitation!Crash
  <2> QED
      BY <1>1, <1>17, <2>1 DEF Invitation!Crash, Invitation!InvitationConstants
<1>18. CASE UNCHANGED invitationVars
    BY <1>18
<1> QED
    BY <1>2, <1>3, <1>4, <1>5, <1>6, <1>7, <1>8, <1>10, <1>11, <1>12, <1>13, <1>14, <1>15, <1>16,
       <1>17, <1>18 DEF Invitation!Next, Invitation!Handle

\* The claim of an address is never passed on, so what rests on it stays true.
LEMMA ClaimsKept ==
    ASSUME Invitation!TypeOK, Invitation!AccountsWereClaimed, Invitation!MembersWereInvited,
           [Invitation!Next]_invitationVars, Invitation!OutcomesFinal
    PROVE  /\ \A e \in Emails, i \in Invites : cemail[i] = e => cemail'[i] = e
           /\ \A e \in members : \E i \in Invites : status'[i] = "redeemed" /\ cemail'[i] = e
  BY DEF Invitation!OutcomesFinal, Invitation!InvitationConstants, Invitation!TypeOK,
         Invitation!MembersWereInvited

\* A redeemed, revoked or expired invitation, a claim and a password are final.
LEMMA OutcomesStep ==
    ASSUME Invitation!InvitationConstants, Invitation!InvitationSafe, [Invitation!Next]_invitationVars
    PROVE  Invitation!OutcomesFinal
<1> USE DEF Invitation!TypeOK, Invitation!inviteVars, Invitation!spaceVars, Invitation!requestVars,
            Invitation!InvitationSafe, Invitation!OutcomesFinal
<1>1. ASSUME NEW i \in Invites,
             Invitation!createInvitation(i) \/ Invitation!revokeInvitation(i) \/ Invitation!PassExpiry(i)
      PROVE  Invitation!OutcomesFinal
    BY <1>1 DEF Invitation!createInvitation, Invitation!revokeInvitation, Invitation!PassExpiry
<1>2. ASSUME NEW r \in Requests, Invitation!claimInvitation(r)
      PROVE  Invitation!OutcomesFinal
    BY <1>2 DEF Invitation!claimInvitation
<1>3. ASSUME NEW r \in Requests, Invitation!createUser(r)
      PROVE  Invitation!OutcomesFinal
    BY <1>3 DEF Invitation!createUser
<1>4. ASSUME NEW r \in Requests, Invitation!completeInvitationRedemption(r)
      PROVE  Invitation!OutcomesFinal
    BY <1>4 DEF Invitation!completeInvitationRedemption, Invitation!Redeemable
<1>5. ASSUME NEW r \in Requests, Invitation!Fault(r)
      PROVE  Invitation!OutcomesFinal
    BY <1>5 DEF Invitation!Fault
<1>6. CASE UNCHANGED <<status, cemail, account>>
    BY <1>6
<1> QED
    BY <1>1, <1>2, <1>3, <1>4, <1>5, <1>6
       DEF Invitation!Next, Invitation!Handle, Invitation!CheckPriorSession,
           Invitation!authenticateInvitationHuman, Invitation!Receive, Invitation!Crash,
           Invitation!IssuerLeaves, Invitation!IssuerReturns, Invitation!PolicyChanges,
           Invitation!Suspend

\* A membership is granted by a completion that checks the invitation, its issuer and the
\* policy again, and that has signed in.
LEMMA GrantsStep ==
    ASSUME Invitation!InvitationConstants, Invitation!InvitationSafe, [Invitation!Next]_invitationVars
    PROVE  Invitation!GrantedUnderAuthority
<1> USE DEF Invitation!TypeOK, Invitation!inviteVars, Invitation!spaceVars, Invitation!requestVars,
            Invitation!InvitationSafe
<1> SUFFICES ASSUME NEW i \in Invites, status[i] # "redeemed", status'[i] = "redeemed"
             PROVE  /\ status[i] = "claimed" /\ ~past[i]
                    /\ issued[i] = [term |-> issuer, policy |-> policy]
                    /\ \E r \in Requests : signed[r] /\ req[r].invite = i /\ req[r].email = cemail[i]
    BY DEF Invitation!GrantedUnderAuthority
<1>1. PICK r \in Requests : Invitation!completeInvitationRedemption(r)
  <2>1. ASSUME NEW j \in Invites,
               Invitation!createInvitation(j) \/ Invitation!revokeInvitation(j) \/ Invitation!PassExpiry(j)
        PROVE  FALSE
      BY <2>1 DEF Invitation!createInvitation, Invitation!revokeInvitation, Invitation!PassExpiry
  <2>2. ASSUME NEW r \in Requests, Invitation!claimInvitation(r)
        PROVE  FALSE
      BY <2>2 DEF Invitation!claimInvitation
  <2>3. status' # status
      OBVIOUS
  <2> QED
      BY <2>1, <2>2, <2>3
         DEF Invitation!Next, Invitation!Handle, Invitation!CheckPriorSession, Invitation!Fault,
             Invitation!authenticateInvitationHuman, Invitation!Receive, Invitation!Crash,
             Invitation!IssuerLeaves, Invitation!IssuerReturns, Invitation!PolicyChanges,
             Invitation!Suspend, Invitation!createUser
<1>2. /\ Invitation!Redeemable(r) /\ pc[r] = "complete"
      /\ status' = [status EXCEPT ![req[r].invite] = "redeemed"]
    BY <1>1 DEF Invitation!completeInvitationRedemption
<1>3. i = req[r].invite
    BY <1>2
<1>4. /\ status[i] = "claimed" /\ cemail[i] = req[r].email /\ ~past[i]
      /\ issued[i].term = issuer /\ issued[i].policy = policy
    BY <1>2, <1>3 DEF Invitation!Redeemable, Invitation!invitationIssuer, Invitation!issuerCurrent
<1>5. signed[r]
    BY <1>2 DEF Invitation!AccountsWereClaimed
<1> QED
    BY <1>3, <1>4, <1>5

\* Members keep the spent invitation that let them in.
LEMMA MembersStep ==
    ASSUME Invitation!InvitationConstants, Invitation!InvitationSafe, [Invitation!Next]_invitationVars
    PROVE  Invitation!MembersWereInvited'
<1>1. /\ \A e \in Emails, i \in Invites : cemail[i] = e => cemail'[i] = e
      /\ \A e \in members : \E i \in Invites : status'[i] = "redeemed" /\ cemail'[i] = e
    BY OutcomesStep, ClaimsKept DEF Invitation!InvitationSafe
<1>2. ASSUME NEW r \in Requests, Invitation!completeInvitationRedemption(r)
      PROVE  Invitation!MembersWereInvited'
  <2>1. CASE Invitation!Redeemable(r)
    <3>1. pc[r] # "idle"
        BY <1>2 DEF Invitation!completeInvitationRedemption
    <3>2. req[r].invite \in Invites
        BY <3>1 DEF Invitation!InvitationSafe, Invitation!TypeOK, Invitation!Inputs
    <3>3. cemail'[req[r].invite] = req[r].email /\ status'[req[r].invite] = "redeemed"
        BY <1>2, <2>1, <3>2 DEF Invitation!completeInvitationRedemption, Invitation!Redeemable,
                                Invitation!InvitationSafe, Invitation!TypeOK
    <3>4. members' = members \cup {req[r].email}
        BY <1>2, <2>1 DEF Invitation!completeInvitationRedemption
    <3> QED
        BY <1>1, <3>2, <3>3, <3>4 DEF Invitation!MembersWereInvited
  <2>2. CASE ~Invitation!Redeemable(r)
      BY <1>1, <1>2, <2>2 DEF Invitation!completeInvitationRedemption, Invitation!MembersWereInvited
  <2> QED
      BY <2>1, <2>2
<1>3. CASE UNCHANGED members
    BY <1>1, <1>3 DEF Invitation!MembersWereInvited
<1> QED
    BY <1>2, <1>3
       DEF Invitation!Next, Invitation!Handle, Invitation!CheckPriorSession, Invitation!Fault,
           Invitation!authenticateInvitationHuman, Invitation!Receive, Invitation!Crash,
           Invitation!IssuerLeaves, Invitation!IssuerReturns, Invitation!PolicyChanges,
           Invitation!Suspend, Invitation!createUser, Invitation!claimInvitation,
           Invitation!createInvitation, Invitation!revokeInvitation, Invitation!PassExpiry

\* A request past the claim carries it, and so does every account.
LEMMA AccountsStep ==
    ASSUME Invitation!InvitationConstants, Invitation!InvitationSafe, [Invitation!Next]_invitationVars
    PROVE  Invitation!AccountsWereClaimed'
<1> DEFINE Carries(q) ==
              /\ pc[q] \notin {"idle", "claim"} => cemail[req[q].invite] = req[q].email
              /\ pc[q] = "complete" => signed[q]
           Backed == \A e \in Emails : account[e] # None => \E i \in Invites : cemail[i] = e
<1>0. Invitation!TypeOK
    BY DEF Invitation!InvitationSafe
<1>1. \A e \in Emails, i \in Invites : cemail[i] = e => cemail'[i] = e
    BY OutcomesStep, ClaimsKept DEF Invitation!InvitationSafe
<1>2. Backed /\ \A q \in Requests : Carries(q)
    BY DEF Invitation!InvitationSafe, Invitation!AccountsWereClaimed
<1>3. ASSUME NEW q \in Requests, pc[q] # "idle"
      PROVE  req[q].invite \in Invites /\ req[q].email \in Emails
    BY <1>0, <1>3 DEF Invitation!TypeOK, Invitation!Inputs
<1>4. ASSUME NEW q \in Requests, UNCHANGED <<pc[q], req[q], signed[q]>>
      PROVE  Carries(q)'
    BY <1>1, <1>2, <1>3, <1>4
<1>5. /\ {"idle", "claim", "prior", "signin", "create", "resignin", "complete"} \subseteq Invitation!Pcs
    BY DEF Invitation!Pcs
<1>6. ASSUME NEW r \in Requests, Invitation!Respond(r)
      PROVE  \A q \in Requests : Carries(q)'
    BY <1>0, <1>4, <1>6, RedeemResponds
<1>7. ASSUME NEW r \in Requests, NEW l \in Invitation!Pcs, Invitation!Goto(r, l),
             l # "complete", pc[r] # "idle", cemail'[req[r].invite] = req[r].email
      PROVE  \A q \in Requests : Carries(q)'
    BY <1>0, <1>4, <1>7, RedeemGoes
<1>8. ASSUME account' = account
      PROVE  Backed'
    BY <1>1, <1>2, <1>8
<1>9. ASSUME NEW r \in Requests, pc[r] = "create",
             account' = [account EXCEPT ![req[r].email] = req[r].password]
      PROVE  Backed'
  <2>1. req[r].invite \in Invites /\ cemail'[req[r].invite] = req[r].email /\ req[r].email \in Emails
      BY <1>1, <1>2, <1>3, <1>9
  <2>2. \A e \in Emails : e = req[r].email \/ account'[e] = account[e]
      BY <1>0, <1>9 DEF Invitation!TypeOK
  <2> QED
      BY <1>1, <1>2, <2>1, <2>2
<1>10. ASSUME Backed', \A q \in Requests : Carries(q)'
       PROVE  Invitation!AccountsWereClaimed'
    BY <1>10 DEF Invitation!AccountsWereClaimed
<1>11. ASSUME NEW r \in Requests, pc[r] \notin {"idle", "claim"}
       PROVE  cemail'[req[r].invite] = req[r].email
    BY <1>1, <1>2, <1>3, <1>11
<1>12. ASSUME NEW r \in Requests, Invitation!claimInvitation(r)
       PROVE  Invitation!AccountsWereClaimed'
  <2>1. CASE Invitation!Respond(r)
      BY <1>6, <1>8, <1>10, <1>12, <2>1 DEF Invitation!claimInvitation
  <2>2. CASE Invitation!Goto(r, "prior") /\ cemail' = [cemail EXCEPT ![req[r].invite] = req[r].email]
    <3>1. pc[r] # "idle" /\ account' = account
        BY <1>12 DEF Invitation!claimInvitation
    <3>2. cemail'[req[r].invite] = req[r].email
        BY <1>0, <1>3, <2>2, <3>1 DEF Invitation!TypeOK
    <3> QED
        BY <1>5, <1>7, <1>8, <1>10, <2>2, <3>1, <3>2
  <2> QED
      BY <1>12, <2>1, <2>2 DEF Invitation!claimInvitation
<1>13. ASSUME NEW r \in Requests, Invitation!CheckPriorSession(r)
       PROVE  Invitation!AccountsWereClaimed'
    BY <1>5, <1>6, <1>7, <1>8, <1>10, <1>11, <1>13 DEF Invitation!CheckPriorSession
<1>14. ASSUME NEW r \in Requests, Invitation!authenticateInvitationHuman(r)
       PROVE  Invitation!AccountsWereClaimed'
  <2>1. pc[r] \notin {"idle", "claim"} /\ account' = account
      BY <1>14 DEF Invitation!authenticateInvitationHuman
  <2>2. CASE Invitation!Respond(r) \/ Invitation!Goto(r, "create")
      BY <1>5, <1>6, <1>7, <1>8, <1>10, <1>11, <2>1, <2>2
  <2>3. CASE /\ pc' = [pc EXCEPT ![r] = "complete"] /\ signed' = [signed EXCEPT ![r] = TRUE]
             /\ UNCHANGED req
    <3>1. /\ pc'[r] = "complete" /\ signed'[r]
          /\ \A q \in Requests \ {r} : pc'[q] = pc[q] /\ signed'[q] = signed[q]
        BY <1>0, <2>3, RedeemSigns
    <3> QED
        BY <1>4, <1>8, <1>10, <1>11, <2>1, <2>3, <3>1
  <2> QED
      BY <1>14, <2>2, <2>3 DEF Invitation!authenticateInvitationHuman
<1>15. ASSUME NEW r \in Requests, Invitation!createUser(r)
       PROVE  Invitation!AccountsWereClaimed'
    BY <1>5, <1>6, <1>7, <1>8, <1>9, <1>10, <1>11, <1>15 DEF Invitation!createUser
<1>16. ASSUME NEW r \in Requests, Invitation!completeInvitationRedemption(r)
       PROVE  Invitation!AccountsWereClaimed'
    BY <1>6, <1>8, <1>10, <1>16 DEF Invitation!completeInvitationRedemption
<1>17. ASSUME NEW r \in Requests, Invitation!Fault(r)
       PROVE  Invitation!AccountsWereClaimed'
    BY <1>6, <1>8, <1>9, <1>10, <1>17 DEF Invitation!Fault
<1>18. ASSUME NEW r \in Requests, NEW x \in Invitation!Inputs, Invitation!Receive(r, x)
       PROVE  Invitation!AccountsWereClaimed'
  <2>1. /\ pc'[r] = "claim" /\ account' = account
        /\ \A q \in Requests \ {r} : UNCHANGED <<pc[q], req[q], signed[q]>>
      BY <1>0, <1>18 DEF Invitation!Receive, Invitation!TypeOK
  <2> QED
      BY <1>4, <1>8, <1>10, <2>1
<1>19. CASE Invitation!Crash
    BY <1>8, <1>10, <1>19 DEF Invitation!Crash
<1>20. CASE UNCHANGED <<pc, req, signed, account>>
    BY <1>4, <1>8, <1>10, <1>20
<1> QED
    BY <1>12, <1>13, <1>14, <1>15, <1>16, <1>17, <1>18, <1>19, <1>20
       DEF Invitation!Next, Invitation!Handle, Invitation!IssuerLeaves, Invitation!IssuerReturns,
           Invitation!PolicyChanges, Invitation!Suspend, Invitation!createInvitation,
           Invitation!revokeInvitation, Invitation!PassExpiry, Invitation!requestVars

LEMMA InviteInit ==
    ASSUME Invitation!InvitationConstants, Invitation!Init
    PROVE  Invitation!InvitationSafe
<1> USE DEF Invitation!Init, Invitation!InvitationConstants
<1>1. past \in [Invites -> BOOLEAN] /\ signed \in [Requests -> BOOLEAN]
    BY Zenon
<1>2. issued \in [Invites -> [term : 0..MaxTerm, policy : 0..MaxPolicy]]
    OBVIOUS
<1>3. Invitation!TypeOK
    BY <1>1, <1>2 DEF Invitation!TypeOK, Invitation!Statuses, Invitation!Pcs
<1> QED
    BY <1>3 DEF Invitation!InvitationSafe, Invitation!MembersWereInvited,
                Invitation!AccountsWereClaimed

\* Every member was let in by a spent invitation of his own address, and the route creates
\* accounts only for addresses that hold a claim, whatever is revoked, runs out, fails or dies
\* between the claim and the completion.
THEOREM InvitationSafeAlways == Spec => []InvitationSafe
<1>1. Init => InvitationSafe
  <2> SUFFICES ASSUME Init, component = "invitation"
               PROVE  Invitation!InvitationSafe
      BY DEF InvitationSafe
  <2>1. Invitation!Init
      BY DEF Init
  <2> QED
      BY <2>1, InviteInit
<1>2. ASSUME Invitation!InvitationSafe, [Invitation!Next]_invitationVars
      PROVE  Invitation!InvitationSafe'
  <2>1. Invitation!TypeOK'
      BY <1>2, InviteTypeStep DEF Invitation!InvitationSafe
  <2> QED
      BY <1>2, <2>1, MembersStep, AccountsStep DEF Invitation!InvitationSafe
<1>3. InvitationSafe /\ [Next]_vars => InvitationSafe'
    BY <1>2, Components DEF InvitationSafe
<1> QED
    BY <1>1, <1>3, PTL DEF Spec

\* A membership is granted only under the authority of that moment to someone who has signed
\* in, and redeemed, revoked and expired invitations, claims and passwords are final.
THEOREM InvitationStepsAlways == Spec => InvitationSteps
<1>1. InvitationSafe /\ [Next]_vars => (component = "invitation" => Invitation!InvitationStep)
    BY Components, GrantsStep, OutcomesStep DEF InvitationSafe, Invitation!InvitationStep
<1> QED
    BY <1>1, InvitationSafeAlways, PTL DEF Spec, InvitationSteps
====
