---------------------------- MODULE OwnerBootstrap ----------------------------
(* POST /api/registration/bootstrap: the first account of an instance. The claim *)
(* and the owner live in the workflow store, the account in the authentication   *)
(* database; nothing spans the two. A request that dies between them is          *)
(* recovered by a retry with the same address, which finds the claim and the     *)
(* account.                                                                      *)
EXTENDS Integers, FiniteSets

CONSTANTS
    Emails,     \* normalized addresses operators use
    Requests,   \* requests in progress at one time
    None,
    MaxDisruptions  \* bound on server restarts and failed database or sign-in calls

\* What any instance has: None is no address.
BootstrapConstants == None \notin Emails /\ MaxDisruptions \in Nat

VARIABLES
    claimed,  \* claimed_email of the registration_state row, None when there is no row
    owner,    \* account in owner_user_id
    members,  \* accounts with an active actor membership
    users,    \* accounts of the authentication database, named by their address
    pc, email, \* of each request
    answer,   \* its last answer
    disruptions

rowVars == <<claimed, owner, members>>
vars == <<rowVars, users, pc, email, answer, disruptions>>

Pcs == {"idle", "state", "claim", "create", "list", "finalize"}

TypeOK ==
    /\ claimed \in Emails \cup {None} /\ owner \in Emails \cup {None}
    /\ members \in SUBSET Emails /\ users \in SUBSET Emails
    /\ pc \in [Requests -> Pcs]
    /\ email \in [Requests -> Emails \cup {None}]
    /\ \A r \in Requests : pc[r] # "idle" => email[r] \in Emails
    /\ answer \in [Requests -> {"none", "ok", "conflict", "failed"}]
    /\ disruptions \in 0..MaxDisruptions

Init ==
    /\ claimed = None /\ owner = None /\ members = {} /\ users = {}
    /\ pc = [r \in Requests |-> "idle"]
    /\ email = [r \in Requests |-> None]
    /\ answer = [r \in Requests |-> "none"]
    /\ disruptions = 0

------------------------------------------------------------------------------
Goto(r, l) ==
    /\ pc' = [pc EXCEPT ![r] = l]
    /\ UNCHANGED <<email, answer>>

\* The handler answers; the request's own data goes with it.
Respond(r, a) ==
    /\ pc' = [pc EXCEPT ![r] = "idle"]
    /\ email' = [email EXCEPT ![r] = None]
    /\ answer' = [answer EXCEPT ![r] = a]

\* A request whose fields, address and operator secret are valid (steps 1 to 5).
Receive(r, e) ==
    /\ pc[r] = "idle"
    /\ pc' = [pc EXCEPT ![r] = "state"]
    /\ email' = [email EXCEPT ![r] = e]
    /\ answer' = [answer EXCEPT ![r] = "none"]
    /\ UNCHANGED <<rowVars, users, disruptions>>

\* Step 6. A completed bootstrap is refused.
getRegistrationState(r) ==
    /\ pc[r] = "state"
    /\ IF owner # None THEN Respond(r, "conflict") ELSE Goto(r, "claim")
    /\ UNCHANGED <<rowVars, users, disruptions>>

\* Variant: a second address takes the claim over.
claimBootstrap_Takeover(r) ==
    /\ pc[r] = "claim"
    /\ IF owner # None
       THEN Respond(r, "conflict") /\ UNCHANGED claimed
       ELSE claimed' = email[r] /\ Goto(r, "create")
    /\ UNCHANGED <<owner, members, users, disruptions>>

\* Variant: whoever asks gets the claim that is there.
claimBootstrap_AnyAddress(r) ==
    /\ pc[r] = "claim"
    /\ IF owner # None
       THEN Respond(r, "conflict") /\ UNCHANGED claimed
       ELSE claimed' = (IF claimed = None THEN email[r] ELSE claimed) /\ Goto(r, "create")
    /\ UNCHANGED <<owner, members, users, disruptions>>

\* Step 7. One address holds the claim for good; its retries get the same claim back.
claimBootstrap(r) ==
    /\ pc[r] = "claim"
    /\ IF owner # None \/ claimed \notin {None, email[r]}
       THEN Respond(r, "conflict") /\ UNCHANGED claimed
       ELSE claimed' = email[r] /\ Goto(r, "create")
    /\ UNCHANGED <<owner, members, users, disruptions>>

\* Variant: a duplicate address is an error like any other.
createUser_NoRecovery(r) ==
    /\ pc[r] = "create"
    /\ IF email[r] \in users
       THEN Respond(r, "failed") /\ UNCHANGED users
       ELSE users' = users \cup {email[r]} /\ Goto(r, "finalize")
    /\ UNCHANGED <<rowVars, disruptions>>

\* Step 8. The account is created, or its address is taken: by an earlier attempt.
createUser(r) ==
    /\ pc[r] = "create"
    /\ IF email[r] \in users
       THEN Goto(r, "list") /\ UNCHANGED users
       ELSE users' = users \cup {email[r]} /\ Goto(r, "finalize")
    /\ UNCHANGED <<rowVars, disruptions>>

\* The recovery of step 8: listUsers finds the account of that address.
listUsers(r) ==
    /\ pc[r] = "list"
    /\ IF email[r] \in users THEN Goto(r, "finalize") ELSE Respond(r, "failed")
    /\ UNCHANGED <<rowVars, users, disruptions>>

\* Step 9. Owner, membership and audit in one transaction; a repeated finalization
\* returns the owner that is there.
finalizeBootstrap(r) ==
    /\ pc[r] = "finalize"
    /\ IF claimed # email[r]
       THEN Respond(r, "failed") /\ UNCHANGED <<owner, members>>
       ELSE /\ owner' = IF owner = None THEN email[r] ELSE owner
            /\ members' = IF owner = None THEN members \cup {email[r]} ELSE members
            /\ Respond(r, "ok")
    /\ UNCHANGED <<claimed, users, disruptions>>

\* A database refuses or loses the connection: the handler answers with an error. The
\* account may have been created although its answer was lost.
Fault(r) ==
    /\ pc[r] # "idle" /\ disruptions < MaxDisruptions
    /\ disruptions' = disruptions + 1
    /\ users' \in {users, IF pc[r] = "create" THEN users \cup {email[r]} ELSE users}
    /\ Respond(r, "failed")
    /\ UNCHANGED <<rowVars>>

\* The server dies with all its requests.
Crash ==
    /\ disruptions < MaxDisruptions
    /\ disruptions' = disruptions + 1
    /\ pc' = [r \in Requests |-> "idle"]
    /\ email' = [r \in Requests |-> None]
    /\ answer' = [r \in Requests |-> "none"]
    /\ UNCHANGED <<rowVars, users>>

Handle(r) ==
    \/ getRegistrationState(r) \/ claimBootstrap(r) \/ createUser(r) \/ listUsers(r)
    \/ finalizeBootstrap(r)

Next ==
    \/ Crash
    \/ \E r \in Requests : Handle(r) \/ Fault(r) \/ \E e \in Emails : Receive(r, e)

Spec == Init /\ [][Next]_vars

\* Whoever holds the claim tries again.
Retry(e) == claimed = e /\ \E r \in Requests : Receive(r, e)

\* A request that is received is handled.
FairSpec ==
    /\ Spec
    /\ \A r \in Requests : WF_vars(Handle(r))
    /\ \A e \in Emails : SF_vars(Retry(e))
------------------------------------------------------------------------------
(* Properties *)

\* Only the holder of the claim ever gets an account from this route; the owner is the
\* account of the claim and the one member; and who is told "ok" is told so of a finished
\* bootstrap. A request that lost the race leaves nothing behind in either database.
OnlyClaimant ==
    /\ users \subseteq {claimed}
    /\ owner # None => owner = claimed /\ owner \in users
    /\ members = IF owner = None THEN {} ELSE {owner}
    /\ \A r \in Requests : answer[r] = "ok" => owner # None

\* A request past step 7 holds the claim, and one past step 8 has an account to make the
\* owner, whatever other requests have done since.
ClaimCarried ==
    \A r \in Requests :
       /\ pc[r] \in {"create", "list", "finalize"} => claimed = email[r]
       /\ pc[r] = "finalize" => email[r] \in users

\* Only the holder of the bootstrap claim ever leaves an account or an owner behind.
BootstrapSafe == TypeOK /\ OnlyClaimant /\ ClaimCarried

\* The claim and the owner are written once.
BootstrapStep ==
    /\ claimed # None => claimed' = claimed
    /\ owner # None => owner' = owner

\* The claim and the owner are written once, whatever the retries and crashes.
ClaimAndOwnerFinal == [][BootstrapStep]_vars

\* Once an address holds the claim, its retries finish the bootstrap, at whatever step
\* earlier attempts died.
ClaimIsFinished == claimed # None ~> owner # None
==============================================================================
