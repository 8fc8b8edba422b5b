------------------------- MODULE ConsequentialAction -------------------------
(***************************************************************************)
(* A consequential action is a list of atoms (reallocations, transactions, *)
(* transfers, wallets) that a household approved as one plan. One worker   *)
(* acquires it under the budget's write fence, sends the atoms in order,   *)
(* recording what it saw of each before the next, and finishes by reading  *)
(* the ledger back. A worker that dies, or whose outcome is unknown, leaves *)
(* the action to a later recovery, which may only read.                     *)
(***************************************************************************)
EXTENDS Naturals, FiniteSets

CONSTANTS
    Proposals,   \* proposed actions
    Key(_),      \* economic identity an action holds (parent transaction, wallet, transfer)
    N            \* atoms of each action

\* A plan has at least one atom.
ActionConstants == N \in Nat \ {0}

VARIABLES
    phase,     \* stored phase of each action
    effects,   \* number of atoms whose result is stored
    expired,   \* actions whose plan ran out
    current,   \* actions made under the financial policy in force
    eligible,  \* actions with enough approvals whose givers, requester, session and claims still hold
    worker,    \* the process executing each action: step, atom, number of atoms dispatched
    sent,      \* atoms of each action handed to the ledger
    applied,   \* atoms of each action in the ledger
    other      \* another kind of mutation owns the budget's write fence

vars == <<phase, effects, expired, current, eligible, worker, sent, applied, other>>

Atoms == 1..N
Idle == [pc |-> "idle", atom |-> 0, dispatched |-> 0]

Phases == {"none", "proposed", "approved", "write_intent", "verified", "review_required",
           "invalidated_no_dispatch"}

Workers ==
    [pc : {"idle", "preflight", "dispatch", "written", "failing", "verify"},
     atom : 0..N, dispatched : 0..N]

TypeOK ==
    /\ phase \in [Proposals -> Phases]
    /\ effects \in [Proposals -> 0..N]
    /\ expired \in SUBSET Proposals /\ current \in SUBSET Proposals
    /\ eligible \in SUBSET Proposals
    /\ worker \in [Proposals -> Workers]
    /\ sent \in [Proposals -> SUBSET Atoms]
    /\ applied \in [Proposals -> SUBSET Atoms]
    /\ other \in BOOLEAN

Init ==
    /\ phase = [p \in Proposals |-> "none"]
    /\ effects = [p \in Proposals |-> 0]
    /\ expired = {} /\ current = {} /\ eligible = {}
    /\ worker = [p \in Proposals |-> Idle]
    /\ sent = [p \in Proposals |-> {}] /\ applied = [p \in Proposals |-> {}]
    /\ other = FALSE

------------------------------------------------------------------------------
Acquired(p) == phase[p] \in {"write_intent", "review_required"}
Open(p) == phase[p] \in {"proposed", "approved"}

hasConflictingBudgetMutationOwner(p) == other \/ \E q \in Proposals \ {p} : Acquired(q)

\* Actions whose economic identity is taken: acquired or verified ones for good, open ones
\* until they expire.
Holds(q) == Acquired(q) \/ phase[q] = "verified" \/ (Open(q) /\ q \notin expired)

\* A plan is admitted and stored unless its identity is held by another action.
propose(p) ==
    /\ phase[p] = "none"
    /\ ~\E q \in Proposals \ {p} : Holds(q) /\ Key(q) = Key(p)
    /\ phase' = [phase EXCEPT ![p] = "proposed"]
    /\ current' = current \cup {p}
    /\ UNCHANGED <<effects, expired, eligible, worker, sent, applied, other>>

\* The last approval that the policy asks for.
createApproval(p) ==
    /\ Open(p) /\ p \notin expired /\ p \in current /\ p \notin eligible
    /\ eligible' = eligible \cup {p}
    /\ phase' = [phase EXCEPT ![p] = "approved"]
    /\ UNCHANGED <<effects, expired, current, worker, sent, applied, other>>

\* A read of the approval summary brings the phase up to date with who may still approve.
getProposalApprovalSummary(p) ==
    /\ Open(p) /\ p \in current
    /\ phase' = [phase EXCEPT ![p] = IF p \in eligible THEN "approved" ELSE "proposed"]
    /\ UNCHANGED <<effects, expired, current, eligible, worker, sent, applied, other>>

\* The worker is at pc, with atom a and d atoms dispatched.
At(p, pc, a, d) ==
    worker' = [worker EXCEPT ![p] = [pc |-> pc, atom |-> a, dispatched |-> d]]

\* Every authority an execution depends on, as the store checks it at acquisition and again
\* in front of each write.
Authorized(p) ==
    /\ p \notin expired /\ p \in current /\ p \in eligible
    /\ ~hasConflictingBudgetMutationOwner(p)

acquireProposalExecution(p) ==
    /\ phase[p] = "approved" /\ Authorized(p)
    /\ phase' = [phase EXCEPT ![p] = "write_intent"]
    /\ At(p, "preflight", 1, 0)
    /\ UNCHANGED <<effects, expired, current, eligible, sent, applied, other>>

------------------------------------------------------------------------------
Step(p, pc) == At(p, pc, worker[p].atom, worker[p].dispatched)

\* The first capture: preconditions verified natively, or the attempt fails.
verifyPreconditions(p) ==
    /\ worker[p].pc = "preflight"
    /\ Step(p, "dispatch") \/ Step(p, "failing")
    /\ UNCHANGED <<phase, effects, expired, current, eligible, sent, applied, other>>

\* The connector checks its own preconditions, then runs the fence and writes at once.
dispatchAtom(p) ==
    /\ worker[p].pc = "dispatch"
    /\ \/ /\ phase[p] = "write_intent" /\ Authorized(p)
          /\ sent' = [sent EXCEPT ![p] = @ \cup {worker[p].atom}]
          /\ At(p, "written", worker[p].atom, worker[p].dispatched + 1)
       \/ Step(p, "failing") /\ UNCHANGED sent
    /\ UNCHANGED <<phase, effects, expired, current, eligible, applied, other>>

\* The ledger applies the write, perhaps after the connector gave up on it.
Land(p) ==
    /\ \E a \in sent[p] \ applied[p] : applied' = [applied EXCEPT ![p] = @ \cup {a}]
    /\ UNCHANGED <<phase, effects, expired, current, eligible, worker, sent, other>>

\* Variant: the result of a write is not stored before the next one.
recordConsequentialActionEffect_Skipped(p) ==
    /\ worker[p].pc = "written"
    /\ \/ /\ worker[p].atom \in applied[p]
          /\ IF worker[p].atom < N
             THEN At(p, "dispatch", worker[p].atom + 1, worker[p].dispatched)
             ELSE Step(p, "verify")
       \/ Step(p, "failing")
    /\ UNCHANGED <<phase, effects, expired, current, eligible, sent, applied, other>>

\* What was seen of the write, known or not, is stored before anything else happens. Only a
\* confirmed write goes on to the next atom, and only if the store took the result.
recordConsequentialActionEffect(p) ==
    LET stored == phase[p] = "write_intent" /\ effects[p] = worker[p].atom - 1
    IN /\ worker[p].pc = "written"
       /\ effects' = IF stored THEN [effects EXCEPT ![p] = worker[p].atom] ELSE effects
       /\ \/ /\ stored /\ worker[p].atom \in applied[p]
             /\ IF worker[p].atom < N
                THEN At(p, "dispatch", worker[p].atom + 1, worker[p].dispatched)
                ELSE Step(p, "verify")
          \/ Step(p, "failing")
       /\ UNCHANGED <<phase, expired, current, eligible, sent, applied, other>>

\* The error path of execute: nothing sent gives the action up, anything sent asks for review.
Failed(p) ==
    /\ worker[p].pc = "failing"
    /\ phase' = CASE worker[p].dispatched = 0 /\ phase[p] = "write_intent" /\ effects[p] = 0 ->
                        [phase EXCEPT ![p] = "invalidated_no_dispatch"]
                  [] worker[p].dispatched > 0 /\ Acquired(p) ->
                        [phase EXCEPT ![p] = "review_required"]
                  [] OTHER -> phase
    /\ worker' = [worker EXCEPT ![p] = Idle]
    /\ UNCHANGED <<effects, expired, current, eligible, sent, applied, other>>

\* Native verification of the plan's postconditions over a read of the ledger.
postconditions(p) == applied[p] = Atoms

finalizeConsequentialActionExecution(p) ==
    /\ worker[p].pc = "verify"
    /\ \/ /\ postconditions(p) /\ phase[p] = "write_intent" /\ Authorized(p)
          /\ phase' = [phase EXCEPT ![p] = "verified"]
       \/ phase' = IF Acquired(p) THEN [phase EXCEPT ![p] = "review_required"] ELSE phase
    /\ worker' = [worker EXCEPT ![p] = Idle]
    /\ UNCHANGED <<effects, expired, current, eligible, sent, applied, other>>

Crash(p) ==
    /\ worker[p].pc # "idle"
    /\ worker' = [worker EXCEPT ![p] = Idle]
    /\ UNCHANGED <<phase, effects, expired, current, eligible, sent, applied, other>>

\* Once the plan ran out nothing more can be sent: a read that finds every atom closes the
\* action and fills in the results the worker never stored.
recover(p) ==
    /\ Acquired(p) /\ p \in expired /\ p \in current
    /\ postconditions(p)
    /\ phase' = [phase EXCEPT ![p] = "verified"]
    /\ effects' = [effects EXCEPT ![p] = N]
    /\ UNCHANGED <<expired, current, eligible, worker, sent, applied, other>>

------------------------------------------------------------------------------
Expire(p) ==
    /\ phase[p] # "none" /\ p \notin expired
    /\ expired' = expired \cup {p}
    /\ UNCHANGED <<phase, effects, current, eligible, worker, sent, applied, other>>

\* The household replaces its financial policy: every plan made before is out of date.
savePolicy ==
    /\ current # {} /\ current' = {}
    /\ UNCHANGED <<phase, effects, expired, eligible, worker, sent, applied, other>>

\* An approver or the requester leaves, the session changes, or a claim moves.
AuthorityLost(p) ==
    /\ p \in eligible /\ eligible' = eligible \ {p}
    /\ UNCHANGED <<phase, effects, expired, current, worker, sent, applied, other>>

OtherOwner ==
    /\ other \/ ~\E p \in Proposals : Acquired(p)
    /\ other' = ~other
    /\ UNCHANGED <<phase, effects, expired, current, eligible, worker, sent, applied>>

Next ==
    \/ \E p \in Proposals :
        \/ propose(p) \/ createApproval(p) \/ getProposalApprovalSummary(p)
        \/ acquireProposalExecution(p) \/ verifyPreconditions(p) \/ dispatchAtom(p) \/ Land(p)
        \/ recordConsequentialActionEffect(p) \/ Failed(p)
        \/ finalizeConsequentialActionExecution(p) \/ Crash(p) \/ recover(p)
        \/ Expire(p) \/ AuthorityLost(p)
    \/ savePolicy \/ OtherOwner

Spec == Init /\ [][Next]_vars

------------------------------------------------------------------------------
\* One economic identity reaches the ledger through one action, however many proposals
\* named it and whatever happened to the workers of the earlier ones
\* (assertConsequentialActionAdmissionAvailable).
IdentityOnce ==
    \A p, q \in Proposals :
        p # q /\ Key(p) = Key(q) => sent[p] = {} \/ sent[q] = {}

\* An action that was given up as never dispatched was not, and stays so: its identity and
\* the write fence are free again (invalidate in execute's error path).
InvalidatedUnsent == \A p \in Proposals : phase[p] = "invalidated_no_dispatch" => sent[p] = {}

\* At most the last atom that was sent has no stored result, and atoms are sent in order:
\* recovery always knows where a dead worker stopped (recordConsequentialActionEffect).
ResultsFollowDispatch ==
    \A p \in Proposals : \E n \in 0..N : sent[p] = 1..n /\ n <= effects[p] + 1

\* A verified action is in the ledger whole (finalizeConsequentialActionExecution, recover).
VerifiedIsWhole == \A p \in Proposals : phase[p] = "verified" => applied[p] = Atoms /\ effects[p] = N

\* Two mutations never own the budget at once.
FenceHeldOnce ==
    /\ Cardinality({p \in Proposals : Acquired(p)}) <= 1
    /\ other => ~\E p \in Proposals : Acquired(p)

\* One action at a time holds an economic identity.
KeyHeldOnce == \A p, q \in Proposals : Key(p) = Key(q) /\ Holds(p) /\ Holds(q) => p = q

\* Only an acquired action was ever sent.
UnacquiredUnsent ==
    \A p \in Proposals :
        /\ phase[p] \in {"none", "proposed", "approved"} => sent[p] = {} /\ effects[p] = 0
        /\ sent[p] # {} => Acquired(p) \/ phase[p] = "verified"

\* A worker's own count is what it sent, and what it recorded before going on.
WorkerKnows ==
    \A p \in Proposals :
        /\ applied[p] \subseteq sent[p]
        /\ worker[p].pc # "idle" => /\ phase[p] \in {"write_intent", "verified"}
                                    /\ sent[p] = 1..worker[p].dispatched
                                    /\ worker[p].atom \in Atoms
        /\ worker[p].pc = "preflight" =>
              worker[p].atom = 1 /\ worker[p].dispatched = 0 /\ effects[p] = 0
        /\ worker[p].pc = "dispatch" =>
              worker[p].dispatched = worker[p].atom - 1 /\ effects[p] = worker[p].atom - 1
        /\ worker[p].pc = "written" =>
              worker[p].dispatched = worker[p].atom /\ effects[p] \in {worker[p].atom - 1, N}
        /\ worker[p].pc = "verify" => effects[p] = N

\* Every mutation of an authorized action reaches the ledger at most once, under a held fence.
\* The last three parts make it inductive.
ActionSafe ==
    /\ TypeOK /\ IdentityOnce /\ InvalidatedUnsent /\ ResultsFollowDispatch /\ VerifiedIsWhole
    /\ FenceHeldOnce /\ KeyHeldOnce /\ UnacquiredUnsent /\ WorkerKnows
==============================================================================
