------------------------- MODULE InvitationRedemption -------------------------
(* Invitations to a space: the store's life cycle and POST /api/invitations/    *)
(* redeem, which claims an invitation in the workflow store, signs in to or     *)
(* creates an account in the authentication database, and completes the         *)
(* redemption in a second store transaction. Time, the issuer's membership, the *)
(* policy and the invitation itself move between those steps.                   *)
EXTENDS Integers, FiniteSets

CONSTANTS
    Invites,     \* invitations, each with its own token
    Emails,      \* normalized addresses
    Passwords,
    Requests,    \* redemption requests in progress at one time
    None,
    MaxTerm,     \* bound on the issuer's membership periods
    MaxPolicy,   \* bound on the versions of the space's policy
    MaxDisruptions  \* bound on server restarts and failed database or sign-in calls

\* What any instance has: None is no address, password or input.
InvitationConstants ==
    /\ None \notin Emails /\ None \notin Passwords
    /\ MaxTerm \in Nat \ {0} /\ MaxPolicy \in Nat \ {0} /\ MaxDisruptions \in Nat

VARIABLES
    status,    \* of each invitation
    cemail,    \* claimed_email
    issued,    \* the issuer's membership period and the policy version it captured
    past,      \* expires_at has gone by
    issuer,    \* the issuer's current membership period, 0 when it has none
    terms,     \* periods the issuer has had
    policy,    \* current policy version
    members,   \* accounts that joined the space by invitation
    inactive,  \* accounts whose identity is not active
    account,   \* password of each account of the authentication database
    pc, req,   \* each request's step and its input
    signed,    \* it has signed in as the invited address
    disruptions

inviteVars == <<status, cemail, issued>>
spaceVars == <<issuer, terms, policy>>
requestVars == <<pc, req, signed>>
vars == <<inviteVars, past, spaceVars, members, inactive, account, requestVars, disruptions>>

Statuses == {"none", "active", "claimed", "redeemed", "revoked", "expired"}
Pcs == {"idle", "claim", "prior", "signin", "create", "resignin", "complete"}
Inputs == [invite : Invites, email : Emails, password : Passwords, session : Emails \cup {None}]

TypeOK ==
    /\ status \in [Invites -> Statuses]
    /\ cemail \in [Invites -> Emails \cup {None}]
    /\ issued \in [Invites -> [term : 0..MaxTerm, policy : 0..MaxPolicy]]
    /\ past \in [Invites -> BOOLEAN]
    /\ issuer \in 0..MaxTerm /\ terms \in 1..MaxTerm /\ policy \in 1..MaxPolicy
    /\ members \in SUBSET Emails /\ inactive \in SUBSET Emails
    /\ account \in [Emails -> Passwords \cup {None}]
    /\ pc \in [Requests -> Pcs]
    /\ req \in [Requests -> Inputs \cup {None}]
    /\ \A r \in Requests : pc[r] # "idle" => req[r] \in Inputs
    /\ signed \in [Requests -> BOOLEAN]
    /\ disruptions \in 0..MaxDisruptions

Init ==
    /\ status = [i \in Invites |-> "none"]
    /\ cemail = [i \in Invites |-> None]
    /\ issued = [i \in Invites |-> [term |-> 0, policy |-> 0]]
    /\ past = [i \in Invites |-> FALSE]
    /\ issuer = 1 /\ terms = 1 /\ policy = 1
    /\ members = {} /\ inactive = {}
    /\ account = [e \in Emails |-> None]
    /\ pc = [r \in Requests |-> "idle"]
    /\ req = [r \in Requests |-> None]
    /\ signed = [r \in Requests |-> FALSE]
    /\ disruptions = 0

------------------------------------------------------------------------------
(* The space: issuing, revoking, and what moves by itself. *)

\* The issuer of an invitation still has the membership period it was issued under, and
\* the policy has not changed since.
issuerCurrent(i) == issued[i].term = issuer /\ issued[i].policy = policy

\* invitationIssuer throws unless the invitation is unexpired and its issuer current.
invitationIssuer(i) == ~past[i] /\ issuerCurrent(i)

\* A member who may manage memberships issues an invitation under his current period.
createInvitation(i) ==
    /\ status[i] = "none" /\ issuer # 0
    /\ status' = [status EXCEPT ![i] = "active"]
    /\ issued' = [issued EXCEPT ![i] = [term |-> issuer, policy |-> policy]]
    /\ UNCHANGED <<cemail, past, spaceVars, members, inactive, account, requestVars, disruptions>>

\* A manager revokes an invitation that is not terminal. Its claim stays on the row.
revokeInvitation(i) ==
    /\ status[i] \in {"active", "claimed"}
    /\ status' = [status EXCEPT ![i] = "revoked"]
    /\ UNCHANGED <<cemail, issued, past, spaceVars, members, inactive, account, requestVars, disruptions>>

PassExpiry(i) ==
    /\ status[i] # "none" /\ ~past[i]
    /\ past' = [past EXCEPT ![i] = TRUE]
    /\ UNCHANGED <<inviteVars, spaceVars, members, inactive, account, requestVars, disruptions>>

\* The issuer's membership is revoked; a new one is a new period.
IssuerLeaves ==
    /\ issuer # 0
    /\ issuer' = 0
    /\ UNCHANGED <<inviteVars, past, terms, policy, members, inactive, account, requestVars, disruptions>>

IssuerReturns ==
    /\ issuer = 0 /\ terms < MaxTerm
    /\ terms' = terms + 1
    /\ issuer' = terms + 1
    /\ UNCHANGED <<inviteVars, past, policy, members, inactive, account, requestVars, disruptions>>

PolicyChanges ==
    /\ policy < MaxPolicy
    /\ policy' = policy + 1
    /\ UNCHANGED <<inviteVars, past, issuer, terms, members, inactive, account, requestVars, disruptions>>

\* An account's identity is suspended.
Suspend(e) ==
    /\ account[e] # None /\ e \notin inactive
    /\ inactive' = inactive \cup {e}
    /\ UNCHANGED <<inviteVars, past, spaceVars, members, account, requestVars, disruptions>>

------------------------------------------------------------------------------
(* The redemption handler *)

Goto(r, l) == pc' = [pc EXCEPT ![r] = l] /\ UNCHANGED <<req, signed>>

\* The handler answers.
Respond(r) ==
    /\ pc' = [pc EXCEPT ![r] = "idle"]
    /\ req' = [req EXCEPT ![r] = None]
    /\ signed' = [signed EXCEPT ![r] = FALSE]

\* A request with a trusted origin and a valid body; session is who the caller is signed
\* in as already.
Receive(r, x) ==
    /\ pc[r] = "idle"
    /\ pc' = [pc EXCEPT ![r] = "claim"]
    /\ req' = [req EXCEPT ![r] = x]
    /\ UNCHANGED <<inviteVars, past, spaceVars, members, inactive, account, signed, disruptions>>

\* Variant: a claimed invitation is claimed again by whoever has the token.
claimInvitation_Reclaim(r) ==
    /\ pc[r] = "claim"
    /\ LET i == req[r].invite
       IN  IF status[i] \in {"active", "claimed"} /\ invitationIssuer(i)
           THEN /\ status' = [status EXCEPT ![i] = "claimed"]
                /\ cemail' = [cemail EXCEPT ![i] = req[r].email]
                /\ Goto(r, "prior")
           ELSE Respond(r) /\ UNCHANGED <<status, cemail>>
    /\ UNCHANGED <<issued, past, spaceVars, members, inactive, account, disruptions>>

\* The first address takes the claim, the same address gets it again. An invitation past
\* its expiry becomes 'expired', which is committed although the request is refused.
claimInvitation(r) ==
    /\ pc[r] = "claim"
    /\ LET i == req[r].invite
           open == status[i] \in {"active", "claimed"}
       IN  \/ /\ open /\ past[i]
              /\ status' = [status EXCEPT ![i] = "expired"]
              /\ Respond(r)
              /\ UNCHANGED cemail
           \/ /\ open /\ invitationIssuer(i) /\ cemail[i] \in {None, req[r].email}
              /\ status' = [status EXCEPT ![i] = "claimed"]
              /\ cemail' = [cemail EXCEPT ![i] = req[r].email]
              /\ Goto(r, "prior")
           \/ /\ ~open \/ (~past[i] /\ ~(invitationIssuer(i) /\ cemail[i] \in {None, req[r].email}))
              /\ Respond(r)
              /\ UNCHANGED <<status, cemail>>
    /\ UNCHANGED <<issued, past, spaceVars, members, inactive, account, disruptions>>

\* A caller signed in as someone else is refused; the claim has been made.
CheckPriorSession(r) ==
    /\ pc[r] = "prior"
    /\ IF req[r].session \in {None, req[r].email} THEN Goto(r, "signin") ELSE Respond(r)
    /\ UNCHANGED <<inviteVars, past, spaceVars, members, inactive, account, disruptions>>

\* Variant: an account is created without trying to sign in first.
authenticateInvitationHuman_CreateFirst(r) ==
    /\ pc[r] \in {"signin", "resignin"}
    /\ \/ /\ pc[r] = "signin" /\ Goto(r, "create")
       \/ /\ pc[r] = "resignin" /\ account[req[r].email] = req[r].password
          /\ pc' = [pc EXCEPT ![r] = "complete"]
          /\ signed' = [signed EXCEPT ![r] = TRUE]
          /\ UNCHANGED req
       \/ pc[r] = "resignin" /\ account[req[r].email] # req[r].password /\ Respond(r)
    /\ UNCHANGED <<inviteVars, past, spaceVars, members, inactive, account, disruptions>>

\* authenticateInvitationHuman, before and after an account is created. It also returns
\* null when it throttles or the sign-in call fails: see Fault.
authenticateInvitationHuman(r) ==
    /\ pc[r] \in {"signin", "resignin"}
    /\ \/ /\ account[req[r].email] = req[r].password
          /\ pc' = [pc EXCEPT ![r] = "complete"]
          /\ signed' = [signed EXCEPT ![r] = TRUE]
          /\ UNCHANGED req
       \/ /\ account[req[r].email] # req[r].password
          /\ IF pc[r] = "signin" /\ req[r].session = None THEN Goto(r, "create") ELSE Respond(r)
    /\ UNCHANGED <<inviteVars, past, spaceVars, members, inactive, account, disruptions>>

\* The account is created with the password given; a taken address is refused.
createUser(r) ==
    /\ pc[r] = "create"
    /\ IF account[req[r].email] = None
       THEN /\ account' = [account EXCEPT ![req[r].email] = req[r].password]
            /\ Goto(r, "resignin")
       ELSE Respond(r) /\ UNCHANGED account
    /\ UNCHANGED <<inviteVars, past, spaceVars, members, inactive, disruptions>>

\* Variant: the claim is taken as proof of the issuer's authority.
Redeemable_AsClaimed(r) ==
    LET i == req[r].invite
    IN  /\ status[i] = "claimed" /\ cemail[i] = req[r].email
        /\ req[r].email \notin inactive

\* Everything completeInvitationRedemption and acceptInvitedMembership look at again.
Redeemable(r) ==
    LET i == req[r].invite
    IN  /\ status[i] = "claimed" /\ cemail[i] = req[r].email
        /\ invitationIssuer(i)
        /\ req[r].email \notin inactive

\* Identity, membership, status and audit in one transaction, or nothing.
completeInvitationRedemption(r) ==
    /\ pc[r] = "complete"
    /\ IF Redeemable(r)
       THEN /\ members' = members \cup {req[r].email}
            /\ status' = [status EXCEPT ![req[r].invite] = "redeemed"]
       ELSE UNCHANGED <<members, status>>
    /\ Respond(r)
    /\ UNCHANGED <<cemail, issued, past, spaceVars, inactive, account, disruptions>>

\* A call of either database fails and the request with it; an account may have been
\* created before its answer was lost.
Fault(r) ==
    /\ pc[r] # "idle" /\ disruptions < MaxDisruptions
    /\ disruptions' = disruptions + 1
    /\ \/ UNCHANGED account
       \/ /\ pc[r] = "create" /\ account[req[r].email] = None
          /\ account' = [account EXCEPT ![req[r].email] = req[r].password]
    /\ Respond(r)
    /\ UNCHANGED <<inviteVars, past, spaceVars, members, inactive>>

Crash ==
    /\ disruptions < MaxDisruptions
    /\ disruptions' = disruptions + 1
    /\ pc' = [r \in Requests |-> "idle"]
    /\ req' = [r \in Requests |-> None]
    /\ signed' = [r \in Requests |-> FALSE]
    /\ UNCHANGED <<inviteVars, past, spaceVars, members, inactive, account>>

Handle(r) ==
    \/ claimInvitation(r) \/ CheckPriorSession(r) \/ authenticateInvitationHuman(r)
    \/ createUser(r) \/ completeInvitationRedemption(r)

Next ==
    \/ \E i \in Invites : createInvitation(i) \/ revokeInvitation(i) \/ PassExpiry(i)
    \/ IssuerLeaves \/ IssuerReturns \/ PolicyChanges \/ Crash
    \/ \E e \in Emails : Suspend(e)
    \/ \E r \in Requests : Handle(r) \/ Fault(r) \/ \E x \in Inputs : Receive(r, x)

Spec == Init /\ [][Next]_vars

\* The invited person tries again, signed out, with each password he may have used.
Retry(i, p) ==
    /\ status[i] = "claimed"
    /\ \E r \in Requests :
          Receive(r, [invite |-> i, email |-> cemail[i], password |-> p, session |-> None])

FairSpec ==
    /\ Spec
    /\ \A r \in Requests : WF_vars(Handle(r))
    /\ \A i \in Invites, p \in Passwords : SF_vars(Retry(i, p))
------------------------------------------------------------------------------
(* Properties *)

\* Every member was let in by an invitation of his own address that is spent: none is
\* used twice and none is left open behind a membership.
MembersWereInvited ==
    \A e \in members : \E i \in Invites : status[i] = "redeemed" /\ cemail[i] = e

\* The route creates an account only for an address that holds a claim, and a request is
\* past the claim only with the claim of its own address, whatever happened meanwhile; one
\* that completes has signed in.
AccountsWereClaimed ==
    /\ \A e \in Emails : account[e] # None => \E i \in Invites : cemail[i] = e
    /\ \A r \in Requests :
          /\ pc[r] \notin {"idle", "claim"} => cemail[req[r].invite] = req[r].email
          /\ pc[r] = "complete" => signed[r]

\* Members were invited, and accounts were created only for the address of the claim.
InvitationSafe == TypeOK /\ MembersWereInvited /\ AccountsWereClaimed

\* A membership is granted only while the invitation is unexpired and unrevoked, under
\* the very membership period and policy it was issued under, to someone who has signed
\* in to the invited address: authority is looked at when it is used, not when claimed.
GrantedUnderAuthority ==
    \A i \in Invites : status[i] # "redeemed" /\ status'[i] = "redeemed" =>
        /\ status[i] = "claimed" /\ ~past[i]
        /\ issued[i] = [term |-> issuer, policy |-> policy]
        /\ \E r \in Requests : signed[r] /\ req[r].invite = i /\ req[r].email = cemail[i]

\* A redeemed, revoked or expired invitation stays so, a claim is never passed on, and a
\* redemption never changes the password of an account that exists.
OutcomesFinal ==
    /\ \A i \in Invites :
          /\ status[i] \in {"redeemed", "revoked", "expired"} => status'[i] = status[i]
          /\ cemail[i] # None => cemail'[i] = cemail[i]
    /\ \A e \in Emails : account[e] # None => account'[e] = account[e]

\* What a step may never do.
InvitationStep == GrantedUnderAuthority /\ OutcomesFinal

\* A membership is granted under authority of that moment; outcomes and passwords are final.
InvitationSteps == [][InvitationStep]_vars

\* A claimed invitation is redeemed by its claimant's retries, whatever died in between,
\* unless it is revoked, runs out, its issuer's authority ends or the account is
\* suspended.
Redeeming(i) == status[i] = "claimed" /\ ~past[i] /\ issuerCurrent(i) /\ cemail[i] \notin inactive

ClaimsAreRedeemed == \A i \in Invites : Redeeming(i) ~> ~Redeeming(i)
==============================================================================
