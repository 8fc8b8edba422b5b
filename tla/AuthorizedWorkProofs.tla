------------------------- MODULE AuthorizedWorkProofs -------------------------
(* Approved intentions on their way to the ledger, for any actions, identities,  *)
(* atoms, rules and rule changes. What makes the invariants inductive is what a  *)
(* worker knows between two of its steps, and that one execution owns the budget. *)
EXTENDS MCAuthorizedWork, Sequences, FiniteSetTheorems, WellFoundedInduction, TLAPS

USE ActionInstance, RuleInstance, AuthorityInstance

\* A step belongs to the component that the first state chose.
LEMMA Components ==
    ASSUME [Next]_vars
    PROVE  /\ component = "action" => [Action!Next]_actionVars
           /\ component = "rule" => [Rule!Next]_ruleVars
           /\ component = "authority" => [Authority!Next]_authorityVars
           /\ component = "connection" => [Connection!Next]_connectionVars
           /\ component = "finding" => [Attention!Next]_findingVars
           /\ component' = component
  BY DEF Next, vars

USE DEF actionVars

\* The instances count as FiniteSets does.
LEMMA SameCount == ASSUME NEW S PROVE Action!Cardinality(S) = Cardinality(S)
  BY DEF Action!Cardinality, Cardinality

LEMMA SameRuleCount == ASSUME NEW S PROVE Rule!Cardinality(S) = Cardinality(S)
  BY DEF Rule!Cardinality, Cardinality

LEMMA SameAuthorityCount == ASSUME NEW S PROVE Authority!Cardinality(S) = Cardinality(S)
  BY DEF Authority!Cardinality, Cardinality

\* Sets without two different elements.
LEMMA AtMostOne ==
    ASSUME NEW S, \A c, d \in S : c = d
    PROVE  Cardinality(S) <= 1
<1>1. CASE S = {}
  BY <1>1, FS_EmptySet
<1>2. ASSUME NEW c \in S PROVE Cardinality(S) <= 1
  <2>1. S = {c}
    BY <1>2
  <2>2. Cardinality({c}) = 1
    BY FS_Singleton, Zenon
  <2> QED
    BY <2>1, <2>2
<1> QED
  BY <1>1, <1>2

\* Owners of the budget's write fence, without counting.
OneOwner ==
    /\ \A p, q \in Actions : Action!Acquired(p) /\ Action!Acquired(q) => p = q
    /\ other => \A p \in Actions : ~Action!Acquired(p)

\* What one operation has to keep.
Core ==
    /\ Action!TypeOK /\ Action!ResultsFollowDispatch /\ Action!VerifiedIsWhole
    /\ OneOwner /\ Action!KeyHeldOnce /\ Action!UnacquiredUnsent /\ Action!WorkerKnows

LEMMA CoreSuffices == Core => Action!ActionSafe
<1> SUFFICES ASSUME Core PROVE Action!IdentityOnce /\ Action!InvalidatedUnsent /\ Action!FenceHeldOnce
  BY DEF Core, Action!ActionSafe
<1>1. Action!IdentityOnce
  BY DEF Core, Action!IdentityOnce, Action!KeyHeldOnce, Action!UnacquiredUnsent, Action!Holds
<1>2. Action!InvalidatedUnsent
  BY DEF Core, Action!InvalidatedUnsent, Action!UnacquiredUnsent, Action!Acquired
<1>3. Cardinality({p \in Actions : Action!Acquired(p)}) <= 1
  BY AtMostOne DEF Core, OneOwner
<1>4. Action!Cardinality({p \in Actions : Action!Acquired(p)}) <= 1
  <2> HIDE DEF Core
  <2> QED
    BY <1>3, SameCount
<1> QED
  BY <1>1, <1>2, <1>4 DEF Core, OneOwner, Action!FenceHeldOnce

\* Before anything is proposed nothing is held, sent or known.
LEMMA CoreInit == Action!Init => Core
<1> SUFFICES ASSUME Action!Init PROVE Core
  OBVIOUS
<1>1. Action!TypeOK
  <2>1. 0 \in 0..N /\ Action!Idle \in Action!Workers
    BY DEF Action!Idle, Action!Workers, Action!ActionConstants
  <2> QED
    BY <2>1 DEF Action!Init, Action!TypeOK, Action!Phases
<1>2. Action!ResultsFollowDispatch
  <2>1. 0 \in 0..N /\ 1..0 = {}
    BY DEF Action!ActionConstants
  <2> QED
    BY <2>1 DEF Action!Init, Action!ResultsFollowDispatch
<1>3. Action!VerifiedIsWhole /\ OneOwner /\ Action!KeyHeldOnce /\ Action!UnacquiredUnsent
  BY DEF Action!Init, Action!VerifiedIsWhole, OneOwner, Action!KeyHeldOnce,
     Action!UnacquiredUnsent, Action!Acquired, Action!Holds, Action!Open
<1>4. Action!WorkerKnows
  BY DEF Action!Init, Action!WorkerKnows, Action!Idle
<1> QED
  BY <1>1, <1>2, <1>3, <1>4 DEF Core

------------------------------------------------------------------------------
Pcs == {"idle", "preflight", "dispatch", "written", "failing", "verify"}

\* Worker p is at l, working on atom a after d dispatches; the others stay.
Reached(p, l, a, d) ==
    /\ worker' \in [Actions -> Action!Workers]
    /\ worker'[p].pc = l /\ worker'[p].atom = a /\ worker'[p].dispatched = d
    /\ \A q \in Actions \ {p} : worker'[q] = worker[q]

LEMMA WorkerMoves ==
    ASSUME Action!TypeOK, NEW p \in Actions, NEW l \in Pcs, NEW a \in 0..N, NEW d \in 0..N, Action!At(p, l, a, d)
    PROVE  Reached(p, l, a, d)
BY DEF Action!TypeOK, Action!At, Reached, Pcs, Action!Workers

\* A worker that stops, by a result, an error or a crash.
LEMMA WorkerStops ==
    ASSUME Action!TypeOK, NEW p \in Actions, worker' = [worker EXCEPT ![p] = Action!Idle]
    PROVE  Reached(p, "idle", 0, 0)
BY DEF Action!ActionConstants, Action!TypeOK, Reached, Action!Idle, Action!Workers

------------------------------------------------------------------------------
\* The core, action by action.
Known(p) ==
    /\ \E n \in 0..N : sent[p] = 1..n /\ n <= effects[p] + 1
    /\ phase[p] = "verified" => applied[p] = Action!Atoms /\ effects[p] = N
    /\ phase[p] \in {"none", "proposed", "approved"} => sent[p] = {} /\ effects[p] = 0
    /\ sent[p] # {} => Action!Acquired(p) \/ phase[p] = "verified"
    /\ applied[p] \subseteq sent[p]
    /\ worker[p].pc # "idle" => /\ phase[p] \in {"write_intent", "verified"}
                                /\ sent[p] = 1..worker[p].dispatched
                                /\ worker[p].atom \in Action!Atoms
    /\ worker[p].pc = "preflight" =>
          worker[p].atom = 1 /\ worker[p].dispatched = 0 /\ effects[p] = 0
    /\ worker[p].pc = "dispatch" =>
          worker[p].dispatched = worker[p].atom - 1 /\ effects[p] = worker[p].atom - 1
    /\ worker[p].pc = "written" =>
          worker[p].dispatched = worker[p].atom /\ effects[p] \in {worker[p].atom - 1, N}
    /\ worker[p].pc = "verify" => effects[p] = N

LEMMA CoreParts ==
    Core <=> Action!TypeOK /\ OneOwner /\ Action!KeyHeldOnce /\ \A p \in Actions : Known(p)
BY DEF Core, Known, Action!ResultsFollowDispatch, Action!VerifiedIsWhole,
   Action!UnacquiredUnsent, Action!WorkerKnows

LEMMA CoreAfter ==
    Action!TypeOK' /\ OneOwner' /\ Action!KeyHeldOnce' /\ (\A p \in Actions : Known(p)') => Core'
BY DEF Core, Known, Action!ResultsFollowDispatch, Action!VerifiedIsWhole,
   Action!UnacquiredUnsent, Action!WorkerKnows

\* Nothing known of an action changes while its own state does not.
Same(p) ==
    /\ phase'[p] = phase[p] /\ effects'[p] = effects[p] /\ worker'[p] = worker[p]
    /\ sent'[p] = sent[p] /\ applied'[p] = applied[p]

LEMMA KnownKept ==
    ASSUME NEW p \in Actions, Known(p), Same(p)
    PROVE  Known(p)'
BY DEF Known, Same, Action!Acquired

\* Giving up the fence or an identity never makes two owners.
LEMMA OwnersFewer ==
    ASSUME OneOwner, Action!KeyHeldOnce, UNCHANGED other,
           \A p \in Actions : (Action!Acquired(p)' => Action!Acquired(p)) /\ (Action!Holds(p)' => Action!Holds(p))
    PROVE  OneOwner' /\ Action!KeyHeldOnce'
BY DEF OneOwner, Action!KeyHeldOnce

\* The phase of action p alone changes.
LEMMA OnePhase ==
    ASSUME Action!TypeOK, NEW p \in Actions, NEW ph \in Action!Phases, phase' = [phase EXCEPT ![p] = ph]
    PROVE  /\ phase' \in [Actions -> Action!Phases] /\ phase'[p] = ph
           /\ \A q \in Actions \ {p} : phase'[q] = phase[q]
BY DEF Action!TypeOK

\* A worker steps without touching the store.
LEMMA WorkerStep ==
    ASSUME Core, NEW p \in Actions, NEW l \in Pcs, worker[p].pc # "idle", Action!Step(p, l),
           UNCHANGED <<phase, expired, current, eligible, applied, other, sent>>,
           effects' \in [Actions -> 0..N], effects[p] <= effects'[p],
           \A q \in Actions \ {p} : effects'[q] = effects[q],
           phase[p] = "verified" => effects'[p] = effects[p],
           l \in {"failing", "idle"} \/ (l = "verify" /\ effects'[p] = N)
             \/ (l = "dispatch" /\ worker[p].pc = "preflight" /\ effects'[p] = effects[p])
    PROVE  Core'
<1>1. Action!TypeOK /\ OneOwner /\ Action!KeyHeldOnce /\ \A q \in Actions : Known(q)
  BY CoreParts
<1>2. worker[p].atom \in 0..N /\ worker[p].dispatched \in 0..N /\ effects[p] \in 0..N
  BY <1>1 DEF Action!TypeOK, Action!Workers
<1>3. Reached(p, l, worker[p].atom, worker[p].dispatched)
  BY <1>1, <1>2, WorkerMoves DEF Action!Step
<1>4. Action!TypeOK'
  BY <1>1, <1>3 DEF Action!TypeOK, Reached
<1>5. OneOwner' /\ Action!KeyHeldOnce'
  BY <1>1, OwnersFewer DEF Action!Acquired, Action!Holds, Action!Open
<1>6. Known(p)'
  <2>1. phase[p] \in {"write_intent", "verified"}
    BY <1>1 DEF Known
  <2>2. \E n \in 0..N : sent[p] = 1..n /\ n <= effects'[p] + 1
    BY <1>1, <1>2 DEF Known, Action!TypeOK
  <2> QED
    BY <1>1, <1>3, <2>1, <2>2 DEF Known, Reached, Action!Acquired
<1>7. \A q \in Actions \ {p} : Known(q)'
  BY <1>1, <1>3, KnownKept DEF Same, Reached
<1> QED
  BY <1>4, <1>5, <1>6, <1>7, CoreAfter

\* An action that is not acquired changes its phase without being acquired.
LEMMA OpenStep ==
    ASSUME Core, NEW p \in Actions, NEW ph \in {"proposed", "approved"},
           phase[p] \in {"none", "proposed", "approved"},
           phase' = [phase EXCEPT ![p] = ph],
           UNCHANGED <<effects, expired, worker, sent, applied, other>>,
           current' \in SUBSET Actions, eligible' \in SUBSET Actions,
           Action!Holds(p)' => Action!Holds(p) \/ ~\E q \in Actions \ {p} : Action!Holds(q) /\
              ActionKey(q) = ActionKey(p)
    PROVE  Core'
<1>1. Action!TypeOK /\ OneOwner /\ Action!KeyHeldOnce /\ \A q \in Actions : Known(q)
  BY CoreParts
<1>2. /\ phase' \in [Actions -> Action!Phases] /\ phase'[p] = ph
      /\ \A q \in Actions \ {p} : phase'[q] = phase[q]
  BY <1>1, OnePhase DEF Action!Phases
<1>3. Action!TypeOK'
  BY <1>1, <1>2 DEF Action!TypeOK
<1>4. \A q \in Actions : Action!Acquired(q)' <=> Action!Acquired(q)
  BY <1>2 DEF Action!Acquired
<1>5. OneOwner'
  BY <1>1, <1>4 DEF OneOwner
<1>6. \A q \in Actions \ {p} : Action!Holds(q)' <=> Action!Holds(q)
  BY <1>2 DEF Action!Holds, Action!Open, Action!Acquired
<1>7. Action!KeyHeldOnce'
  BY <1>1, <1>6 DEF Action!KeyHeldOnce
<1>8. Known(p)'
  BY <1>1, <1>2 DEF Known, Action!Acquired
<1>9. \A q \in Actions \ {p} : Known(q)'
  BY <1>1, <1>2, KnownKept DEF Same
<1> QED
  BY <1>3, <1>5, <1>7, <1>8, <1>9, CoreAfter

\* A worker that stops leaves the action in a phase that fits what it sent.
LEMMA StopStep ==
    ASSUME Core, NEW p \in Actions, worker' = [worker EXCEPT ![p] = Action!Idle],
           UNCHANGED <<effects, expired, current, eligible, sent, applied, other>>,
           \/ phase' = phase
           \/ /\ Action!Acquired(p)
              /\ \E ph \in {"invalidated_no_dispatch", "review_required", "verified"} :
                    /\ phase' = [phase EXCEPT ![p] = ph]
                    /\ ph = "invalidated_no_dispatch" => sent[p] = {}
                    /\ ph = "verified" => applied[p] = Action!Atoms /\ effects[p] = N
    PROVE  Core'
<1>1. Action!TypeOK /\ OneOwner /\ Action!KeyHeldOnce /\ \A q \in Actions : Known(q)
  BY CoreParts
<1>2. Reached(p, "idle", 0, 0)
  BY <1>1, WorkerStops
<1>3. /\ phase' \in [Actions -> Action!Phases] /\ \A q \in Actions \ {p} : phase'[q] = phase[q]
      /\ \/ phase'[p] = phase[p]
         \/ /\ Action!Acquired(p)
            /\ phase'[p] \in {"invalidated_no_dispatch", "review_required", "verified"}
      /\ phase'[p] # phase[p] /\ phase'[p] = "invalidated_no_dispatch" => sent[p] = {}
      /\ phase'[p] # phase[p] /\ phase'[p] = "verified" => applied[p] = Action!Atoms /\ effects[p] = N
  <2>1. CASE phase' = phase
    <3>1. phase'[p] = phase[p] /\ phase' \in [Actions -> Action!Phases]
      BY <1>1, <2>1 DEF Action!TypeOK
    <3> QED
      BY <2>1, <3>1
  <2>2. ASSUME Action!Acquired(p), NEW ph \in {"invalidated_no_dispatch", "review_required", "verified"},
               phase' = [phase EXCEPT ![p] = ph],
               ph = "invalidated_no_dispatch" => sent[p] = {},
               ph = "verified" => applied[p] = Action!Atoms /\ effects[p] = N
        PROVE  <1>3!:
    <3>1. /\ phase' \in [Actions -> Action!Phases] /\ phase'[p] = ph
          /\ \A q \in Actions \ {p} : phase'[q] = phase[q]
      BY <1>1, <2>2, OnePhase DEF Action!Phases
    <3> QED
      BY <2>2, <3>1
  <2> QED
    BY <2>1, <2>2
<1>4. Action!TypeOK'
  BY <1>1, <1>2, <1>3 DEF Action!TypeOK, Reached
<1>5. OneOwner' /\ Action!KeyHeldOnce'
  <2>1. \A q \in Actions : (Action!Acquired(q)' => Action!Acquired(q)) /\ (Action!Holds(q)' => Action!Holds(q))
    BY <1>3 DEF Action!Acquired, Action!Holds, Action!Open
  <2> QED
    BY <1>1, <2>1, OwnersFewer
<1>6. Known(p)'
  BY <1>1, <1>2, <1>3 DEF Known, Action!Acquired, Reached
<1>7. \A q \in Actions \ {p} : Known(q)'
  BY <1>1, <1>2, <1>3, KnownKept DEF Same, Reached
<1> QED
  BY <1>4, <1>5, <1>6, <1>7, CoreAfter

\* Time, policies and authority change nothing that was sent or is held anew.
LEMMA OutsideStep ==
    ASSUME Core, UNCHANGED <<phase, effects, worker, sent, applied, other>>,
           expired \subseteq expired', expired' \in SUBSET Actions,
           current' \in SUBSET Actions, eligible' \in SUBSET Actions
    PROVE  Core'
<1>1. Action!TypeOK /\ OneOwner /\ Action!KeyHeldOnce /\ \A q \in Actions : Known(q)
  BY CoreParts
<1>2. Action!TypeOK'
  BY <1>1 DEF Action!TypeOK
<1>3. OneOwner' /\ Action!KeyHeldOnce'
  BY <1>1, OwnersFewer DEF Action!Acquired, Action!Holds, Action!Open
<1>4. \A q \in Actions : Known(q)'
  BY <1>1, KnownKept DEF Same
<1> QED
  BY <1>2, <1>3, <1>4, CoreAfter

\* acquireProposalExecution: the only way to become an owner.
LEMMA AcquireStep ==
    ASSUME Core, NEW p \in Actions, Action!acquireProposalExecution(p)
    PROVE  Core'
<1>1. Action!TypeOK /\ OneOwner /\ Action!KeyHeldOnce /\ \A q \in Actions : Known(q)
  BY CoreParts
<1>2. /\ phase' \in [Actions -> Action!Phases] /\ phase'[p] = "write_intent"
      /\ \A q \in Actions \ {p} : phase'[q] = phase[q]
  BY <1>1, OnePhase DEF Action!acquireProposalExecution, Action!Phases
<1>3. Reached(p, "preflight", 1, 0)
  BY <1>1, WorkerMoves DEF Action!acquireProposalExecution, Pcs, Action!ActionConstants
<1>4. UNCHANGED <<effects, expired, current, eligible, sent, applied, other>>
      /\ phase[p] = "approved" /\ p \notin expired /\ ~other
      /\ \A q \in Actions \ {p} : ~Action!Acquired(q)
  BY DEF Action!acquireProposalExecution, Action!Authorized,
     Action!hasConflictingBudgetMutationOwner
<1>5. Action!TypeOK'
  BY <1>1, <1>2, <1>3, <1>4 DEF Action!TypeOK, Reached
<1>6. OneOwner'
  BY <1>2, <1>4 DEF OneOwner, Action!Acquired
<1>7. Action!Holds(p) /\ \A q \in Actions \ {p} : Action!Holds(q)' <=> Action!Holds(q)
  BY <1>2, <1>4 DEF Action!Holds, Action!Open, Action!Acquired
<1>8. Action!KeyHeldOnce'
  BY <1>1, <1>7 DEF Action!KeyHeldOnce
<1>9. Known(p)'
  <2>1. sent[p] = {} /\ effects[p] = 0 /\ applied[p] = {}
    BY <1>1, <1>4 DEF Known
  <2>2. 1..0 = {} /\ 0 \in 0..N /\ 1 \in Action!Atoms
    BY DEF Action!ActionConstants, Action!Atoms
  <2> QED
    BY <1>2, <1>3, <1>4, <2>1, <2>2 DEF Known, Reached
<1>10. \A q \in Actions \ {p} : Known(q)'
  BY <1>1, <1>2, <1>3, <1>4, KnownKept DEF Same, Reached
<1> QED
  BY <1>5, <1>6, <1>8, <1>9, <1>10, CoreAfter

\* The write of dispatchAtom: the next atom in order, at most one ahead of the results.
LEMMA SendStep ==
    ASSUME Core, NEW p \in Actions, worker[p].pc = "dispatch",
           phase[p] = "write_intent",
           sent' = [sent EXCEPT ![p] = @ \cup {worker[p].atom}],
           Action!At(p, "written", worker[p].atom, worker[p].dispatched + 1),
           UNCHANGED <<phase, effects, expired, current, eligible, applied, other>>
    PROVE  Core'
<1>1. Action!TypeOK /\ OneOwner /\ Action!KeyHeldOnce /\ \A q \in Actions : Known(q)
  BY CoreParts
<1> DEFINE a == worker[p].atom
<1>2. a \in 1..N /\ worker[p].dispatched = a - 1 /\ effects[p] = a - 1 /\ sent[p] = 1..(a - 1)
  BY <1>1 DEF Known, Action!Atoms
<1>3. a \in 0..N /\ worker[p].dispatched + 1 = a
  BY <1>2 DEF Action!ActionConstants
<1>4. Reached(p, "written", a, a)
  BY <1>1, <1>3, WorkerMoves DEF Pcs
<1>5. sent'[p] = 1..a /\ \A q \in Actions \ {p} : sent'[q] = sent[q]
  <2>1. sent'[p] = sent[p] \cup {a} /\ \A q \in Actions \ {p} : sent'[q] = sent[q]
    BY <1>1 DEF Action!TypeOK
  <2>2. 1..a = 1..(a - 1) \cup {a}
    BY <1>2 DEF Action!ActionConstants
  <2> QED
    BY <1>2, <2>1, <2>2
<1>6. Action!TypeOK'
  BY <1>1, <1>2, <1>4 DEF Action!TypeOK, Reached, Action!Atoms
<1>7. OneOwner' /\ Action!KeyHeldOnce'
  BY <1>1, OwnersFewer DEF Action!Acquired, Action!Holds, Action!Open
<1>8. Known(p)'
  <2>1. \E n \in 0..N : sent'[p] = 1..n /\ n <= effects'[p] + 1
    BY <1>2, <1>3, <1>5
  <2>2. applied'[p] \subseteq sent'[p]
    BY <1>1 DEF Known, Action!TypeOK
  <2> QED
    BY <1>1, <1>2, <1>4, <1>5, <2>1, <2>2 DEF Known, Reached, Action!Acquired, Action!Atoms
<1>9. \A q \in Actions \ {p} : Known(q)'
  BY <1>1, <1>4, <1>5, KnownKept DEF Same, Reached
<1> QED
  BY <1>6, <1>7, <1>8, <1>9, CoreAfter

\* recordConsequentialActionEffect: only a stored and confirmed result lets the worker go on.
LEMMA RecordStep ==
    ASSUME Core, NEW p \in Actions, Action!recordConsequentialActionEffect(p)
    PROVE  Core'
<1>1. Action!TypeOK /\ OneOwner /\ Action!KeyHeldOnce /\ \A q \in Actions : Known(q)
  BY CoreParts
<1> DEFINE a == worker[p].atom
           stored == phase[p] = "write_intent" /\ effects[p] = a - 1
<1>2. a \in 1..N /\ worker[p].dispatched = a /\ sent[p] = 1..a /\ worker[p].pc = "written"
      /\ effects[p] \in 0..N
  BY <1>1 DEF Action!recordConsequentialActionEffect, Known, Action!Atoms, Action!TypeOK
<1>3. /\ UNCHANGED <<phase, expired, current, eligible, sent, applied, other>>
      /\ effects' \in [Actions -> 0..N] /\ \A q \in Actions \ {p} : effects'[q] = effects[q]
      /\ stored => effects'[p] = a
      /\ ~stored => effects'[p] = effects[p]
  BY <1>1, <1>2 DEF Action!recordConsequentialActionEffect, Action!TypeOK, Action!ActionConstants
<1>4. effects[p] <= effects'[p] /\ (phase[p] = "verified" => effects'[p] = effects[p])
  BY <1>2, <1>3 DEF Action!ActionConstants
<1>5. CASE Action!Step(p, "failing")
  BY <1>2, <1>3, <1>4, <1>5, WorkerStep DEF Pcs
<1>6. CASE stored /\ ~(a < N) /\ Action!Step(p, "verify")
  <2>1. effects'[p] = N
    BY <1>2, <1>3, <1>6 DEF Action!ActionConstants
  <2> QED
    BY <1>2, <1>3, <1>4, <1>6, <2>1, WorkerStep DEF Pcs
<1>7. CASE stored /\ a < N /\ Action!At(p, "dispatch", a + 1, worker[p].dispatched)
  <2>1. a + 1 \in 0..N /\ a + 1 \in Action!Atoms /\ a \in 0..N /\ a = (a + 1) - 1
    BY <1>2, <1>7 DEF Action!ActionConstants, Action!Atoms
  <2>2. Reached(p, "dispatch", a + 1, a)
    BY <1>1, <1>2, <1>7, <2>1, WorkerMoves DEF Pcs
  <2>3. Action!TypeOK'
    BY <1>1, <1>3, <2>2 DEF Action!TypeOK, Reached
  <2>4. OneOwner' /\ Action!KeyHeldOnce'
    BY <1>1, <1>3, OwnersFewer DEF Action!Acquired, Action!Holds, Action!Open
  <2>5. Known(p)'
    <3>1. \E n \in 0..N : sent'[p] = 1..n /\ n <= effects'[p] + 1
      BY <1>2, <1>3, <1>7, <2>1
    <3> QED
      BY <1>1, <1>2, <1>3, <1>7, <2>1, <2>2, <3>1 DEF Known, Reached, Action!Acquired
  <2>6. \A q \in Actions \ {p} : Known(q)'
    BY <1>1, <1>3, <2>2, KnownKept DEF Same, Reached
  <2> QED
    BY <2>3, <2>4, <2>5, <2>6, CoreAfter
<1> QED
  BY <1>5, <1>6, <1>7 DEF Action!recordConsequentialActionEffect

\* recover: a read that finds every atom closes an expired action, whatever its worker knows.
LEMMA RecoverStep ==
    ASSUME Core, NEW p \in Actions, Action!recover(p)
    PROVE  Core'
<1>1. Action!TypeOK /\ OneOwner /\ Action!KeyHeldOnce /\ \A q \in Actions : Known(q)
  BY CoreParts
<1>2. /\ phase' \in [Actions -> Action!Phases] /\ phase'[p] = "verified"
      /\ \A q \in Actions \ {p} : phase'[q] = phase[q]
  BY <1>1, OnePhase DEF Action!recover, Action!Phases
<1>3. /\ UNCHANGED <<expired, current, eligible, worker, sent, applied, other>>
      /\ Action!Acquired(p) /\ applied[p] = Action!Atoms
      /\ effects' \in [Actions -> 0..N] /\ effects'[p] = N
      /\ \A q \in Actions \ {p} : effects'[q] = effects[q]
  BY <1>1 DEF Action!recover, Action!postconditions, Action!TypeOK, Action!ActionConstants
<1>4. Action!TypeOK'
  BY <1>1, <1>2, <1>3 DEF Action!TypeOK
<1>5. OneOwner' /\ Action!KeyHeldOnce'
  BY <1>1, <1>2, <1>3, OwnersFewer DEF Action!Acquired, Action!Holds, Action!Open
<1>6. N \in sent[p] /\ sent[p] # {}
  BY <1>1, <1>3 DEF Known, Action!Atoms, Action!ActionConstants
<1>7. worker[p].pc \notin {"preflight", "dispatch"}
  <2>1. CASE worker[p].pc = "preflight"
    BY <1>1, <1>6, <2>1 DEF Known
  <2>2. CASE worker[p].pc = "dispatch"
    BY <1>1, <1>6, <2>2 DEF Known, Action!Atoms, Action!ActionConstants
  <2> QED
    BY <2>1, <2>2
<1>8. Known(p)'
  <2>1. \E n \in 0..N : sent'[p] = 1..n /\ n <= effects'[p] + 1
    BY <1>1, <1>3 DEF Known, Action!ActionConstants
  <2> QED
    BY <1>1, <1>2, <1>3, <1>7, <2>1 DEF Known
<1>9. \A q \in Actions \ {p} : Known(q)'
  BY <1>1, <1>2, <1>3, KnownKept DEF Same
<1> QED
  BY <1>4, <1>5, <1>8, <1>9, CoreAfter

\* The ledger applies what was sent, however late.
LEMMA LandStep ==
    ASSUME Core, NEW p \in Actions, Action!Land(p)
    PROVE  Core'
<1>1. Action!TypeOK /\ OneOwner /\ Action!KeyHeldOnce /\ \A q \in Actions : Known(q)
  BY CoreParts
<1>2. PICK a \in sent[p] \ applied[p] : applied' = [applied EXCEPT ![p] = @ \cup {a}]
  BY DEF Action!Land
<1>3. UNCHANGED <<phase, effects, expired, current, eligible, worker, sent, other>>
  BY DEF Action!Land
<1>4. a \in Action!Atoms /\ applied'[p] = applied[p] \cup {a}
      /\ \A q \in Actions \ {p} : applied'[q] = applied[q]
  BY <1>1, <1>2 DEF Action!TypeOK
<1>5. Action!TypeOK'
  BY <1>1, <1>2, <1>3, <1>4 DEF Action!TypeOK
<1>6. OneOwner' /\ Action!KeyHeldOnce'
  BY <1>1, <1>3, OwnersFewer DEF Action!Acquired, Action!Holds, Action!Open
<1>7. Known(p)'
  BY <1>1, <1>3, <1>4 DEF Known, Action!Acquired
<1>8. \A q \in Actions \ {p} : Known(q)'
  BY <1>1, <1>3, <1>4, KnownKept DEF Same
<1> QED
  BY <1>5, <1>6, <1>7, <1>8, CoreAfter

\* Every operation of the store, the worker and the ledger keeps the core.
LEMMA CoreStep ==
    ASSUME Core, [Action!Next]_actionVars
    PROVE  Core'
<1>0. Action!TypeOK /\ OneOwner /\ Action!KeyHeldOnce /\ \A q \in Actions : Known(q)
  BY CoreParts
<1>1. CASE UNCHANGED actionVars
  BY <1>0, <1>1, OutsideStep DEF Action!TypeOK
<1>2. ASSUME NEW p \in Actions, Action!propose(p) PROVE Core'
  BY <1>0, <1>2, OpenStep DEF Action!propose, Action!TypeOK
<1>3. ASSUME NEW p \in Actions, Action!createApproval(p) PROVE Core'
  BY <1>0, <1>3, OpenStep DEF Action!createApproval, Action!TypeOK, Action!Open, Action!Holds
<1>4. ASSUME NEW p \in Actions, Action!getProposalApprovalSummary(p) PROVE Core'
  <2>1. PICK ph \in {"approved", "proposed"} : phase' = [phase EXCEPT ![p] = ph]
    BY <1>4 DEF Action!getProposalApprovalSummary
  <2>2. Action!Holds(p)' => Action!Holds(p)
    BY <1>0, <1>4, <2>1 DEF Action!getProposalApprovalSummary, Action!Holds, Action!Open,
       Action!Acquired, Action!TypeOK
  <2> QED
    BY <1>0, <1>4, <2>1, <2>2, OpenStep DEF Action!getProposalApprovalSummary, Action!TypeOK,
       Action!Open
<1>5. ASSUME NEW p \in Actions, Action!acquireProposalExecution(p) PROVE Core'
  BY <1>5, AcquireStep
<1>6. ASSUME NEW p \in Actions, Action!verifyPreconditions(p) PROVE Core'
  <2>1. effects[p] \in 0..N /\ effects[p] <= effects[p]
    BY <1>0 DEF Action!TypeOK, Action!ActionConstants
  <2>2. CASE Action!Step(p, "dispatch")
    BY <1>0, <1>6, <2>1, <2>2, WorkerStep DEF Action!verifyPreconditions, Pcs, Action!TypeOK
  <2>3. CASE Action!Step(p, "failing")
    BY <1>0, <1>6, <2>1, <2>3, WorkerStep DEF Action!verifyPreconditions, Pcs, Action!TypeOK
  <2> QED
    BY <1>6, <2>2, <2>3 DEF Action!verifyPreconditions
<1>7. ASSUME NEW p \in Actions, Action!dispatchAtom(p) PROVE Core'
  <2>1. effects[p] \in 0..N /\ effects[p] <= effects[p]
    BY <1>0 DEF Action!TypeOK, Action!ActionConstants
  <2>2. CASE Action!Step(p, "failing") /\ UNCHANGED sent
    BY <1>0, <1>7, <2>1, <2>2, WorkerStep DEF Action!dispatchAtom, Pcs, Action!TypeOK
  <2> QED
    BY <1>7, <2>2, SendStep DEF Action!dispatchAtom
<1>8. ASSUME NEW p \in Actions, Action!Failed(p) PROVE Core'
  <2>1. worker[p].dispatched = 0 => sent[p] = {}
    BY <1>0, <1>8 DEF Action!Failed, Known
  <2>2. /\ worker' = [worker EXCEPT ![p] = Action!Idle]
        /\ UNCHANGED <<effects, expired, current, eligible, sent, applied, other>>
    BY <1>8 DEF Action!Failed
  <2>3. CASE phase' = phase
    BY <2>2, <2>3, StopStep
  <2>4. CASE /\ Action!Acquired(p) /\ worker[p].dispatched = 0
             /\ phase' = [phase EXCEPT ![p] = "invalidated_no_dispatch"]
    BY <2>1, <2>2, <2>4, StopStep
  <2>5. CASE Action!Acquired(p) /\ phase' = [phase EXCEPT ![p] = "review_required"]
    BY <2>2, <2>5, StopStep
  <2> QED
    BY <1>8, <2>3, <2>4, <2>5 DEF Action!Failed, Action!Acquired
<1>9. ASSUME NEW p \in Actions, Action!finalizeConsequentialActionExecution(p) PROVE Core'
  <2>1. effects[p] = N
    BY <1>0, <1>9 DEF Action!finalizeConsequentialActionExecution, Known
  <2> QED
    BY <1>9, <2>1, StopStep DEF Action!finalizeConsequentialActionExecution,
       Action!postconditions, Action!Acquired
<1>10. ASSUME NEW p \in Actions, Action!Crash(p) PROVE Core'
  BY <1>10, StopStep DEF Action!Crash
<1>11. ASSUME NEW p \in Actions, Action!Expire(p) PROVE Core'
  BY <1>0, <1>11, OutsideStep DEF Action!Expire, Action!TypeOK
<1>12. ASSUME NEW p \in Actions, Action!AuthorityLost(p) PROVE Core'
  BY <1>0, <1>12, OutsideStep DEF Action!AuthorityLost, Action!TypeOK
<1>13. CASE Action!savePolicy
  BY <1>0, <1>13, OutsideStep DEF Action!savePolicy, Action!TypeOK
<1>14. CASE Action!OtherOwner
  <2>1. UNCHANGED <<phase, effects, expired, current, eligible, worker, sent, applied>>
        /\ other' \in BOOLEAN /\ (other' => \A p \in Actions : ~Action!Acquired(p))
    BY <1>14 DEF Action!OtherOwner
  <2>2. Action!TypeOK' /\ OneOwner' /\ Action!KeyHeldOnce'
    BY <1>0, <2>1 DEF Action!TypeOK, OneOwner, Action!KeyHeldOnce, Action!Acquired, Action!Holds,
       Action!Open
  <2>3. \A q \in Actions : Known(q)'
    BY <1>0, <2>1, KnownKept DEF Same
  <2> QED
    BY <2>2, <2>3, CoreAfter
<1> QED
  BY <1>1, <1>2, <1>3, <1>4, <1>5, <1>6, <1>7, <1>8, <1>9, <1>10, <1>11, <1>12, <1>13, <1>14,
     LandStep, RecordStep, RecoverStep DEF Action!Next

------------------------------------------------------------------------------
\* Rule changes. What one call has to keep, its budget's fence without counting.
Owning == {"in_progress", "terminal_failed"}
RecordStates == {"none", "in_progress", "succeeded", "terminal_failed"}
CallPcs == {"idle", "check", "dispatch", "written", "failing", "complete"}

OneRuleOwner ==
    \A p, q \in RuleProposals : record[p] \in Owning /\ record[q] \in Owning => p = q

CallKnows(p) ==
    /\ dispatched[p] \in {0, 1}
    /\ ruleWorker[p] # "idle" => record[p] = "in_progress" /\ p \notin told
    /\ ruleWorker[p] \in {"check", "dispatch"} \/ record[p] = "none" => dispatched[p] = 0
    /\ ruleWorker[p] \in {"written", "complete"} \/ record[p] = "succeeded" => dispatched[p] = 1
    /\ p \in told => dispatched[p] = 1 /\ record[p] \in {"in_progress", "succeeded"}

RuleCore ==
    /\ Rule!TypeOK /\ OneRuleOwner /\ \A p \in RuleProposals : CallKnows(p)
    /\ Rule!DeletionStands /\ Rule!SwitchMoves

\* Sets of proposals are finite, and the larger one has more elements.
LEMMA SetsOfChanges ==
    ASSUME NEW S, NEW T, S \subseteq T, T \subseteq RuleProposals
    PROVE  /\ Rule!Cardinality(S) \in Nat /\ Rule!Cardinality(T) \in Nat
           /\ Rule!Cardinality(S) <= Rule!Cardinality(T)
           /\ S # T => Rule!Cardinality(S) + 1 <= Rule!Cardinality(T)
<1>1. IsFiniteSet(RuleProposals)
  BY DEF Rule!RuleConstants, Rule!IsFiniteSet, IsFiniteSet
<1>2. IsFiniteSet(T)
  BY <1>1, FS_Subset
<1>3. IsFiniteSet(S) /\ Cardinality(S) <= Cardinality(T) /\ (Cardinality(T) = Cardinality(S) => S = T)
  BY <1>2, FS_Subset
<1>4. Cardinality(S) \in Nat /\ Cardinality(T) \in Nat
  BY <1>2, <1>3, FS_CardinalityType
<1> QED
  BY <1>3, <1>4, SameRuleCount

LEMMA RuleCoreSuffices == RuleCore => Rule!RulesSafe
<1> SUFFICES ASSUME RuleCore PROVE Rule!RulesSafe
  OBVIOUS
<1>1. Cardinality({p \in RuleProposals : record[p] \in {"in_progress", "terminal_failed"}}) <= 1
  BY AtMostOne DEF RuleCore, OneRuleOwner, Owning
<1>2. Rule!OneOwner
  <2> HIDE DEF RuleCore
  <2> QED
    BY <1>1, SameRuleCount DEF Rule!OneOwner
<1>3. Rule!ChangedOnce /\ Rule!WorkerKnows
  BY DEF RuleCore, CallKnows, Rule!ChangedOnce, Rule!WorkerKnows
<1>4. Rule!ToldTheTruth
  BY DEF RuleCore, CallKnows, Rule!ToldTheTruth, Rule!TypeOK
<1>5. Rule!DeletedWhole
  BY DEF RuleCore, Rule!DeletionStands, Rule!Deleted, Rule!DeletedWhole
<1> QED
  BY <1>2, <1>3, <1>4, <1>5 DEF RuleCore, Rule!RulesSafe

\* Nobody has asked for anything.
LEMMA RuleCoreInit == Rule!Init => RuleCore
<1> SUFFICES ASSUME Rule!Init PROVE RuleCore
  OBVIOUS
<1>1. Rule!Cardinality(RuleProposals) \in Nat /\ Rule!Cardinality(Rule!Spent) \in Nat
  BY SetsOfChanges DEF Rule!Spent
<1>2. Rule!NoOverride \in Rule!Overrides
  BY <1>1 DEF Rule!NoOverride, Rule!Overrides, Rule!Switch
<1>3. Rule!Absent \in Nat
  BY DEF Rule!RuleConstants, Rule!Absent
<1>4. Rule!TypeOK
  BY <1>2, <1>3 DEF Rule!Init, Rule!TypeOK
<1>5. OneRuleOwner /\ \A p \in RuleProposals : CallKnows(p)
  BY DEF Rule!Init, OneRuleOwner, CallKnows, Owning
<1>6. Rule!DeletionStands
  BY DEF Rule!Init, Rule!DeletionStands, Rule!Deleted
<1>7. Rule!SwitchMoves
  BY <1>1 DEF Rule!Init, Rule!SwitchMoves, Rule!NoOverride
<1> QED
  BY <1>4, <1>5, <1>6, <1>7 DEF RuleCore

\* A call is at l with its record at s; the other calls stay.
CallMoves(p, l, s) ==
    /\ ruleWorker' = [ruleWorker EXCEPT ![p] = l]
    /\ record' = [record EXCEPT ![p] = s]

LEMMA CallMoved ==
    ASSUME Rule!TypeOK, NEW p \in RuleProposals, NEW l \in CallPcs, NEW s \in RecordStates,
           CallMoves(p, l, s)
    PROVE  /\ ruleWorker' \in [RuleProposals -> CallPcs] /\ ruleWorker'[p] = l
           /\ record' \in [RuleProposals -> RecordStates] /\ record'[p] = s
           /\ \A q \in RuleProposals \ {p} : ruleWorker'[q] = ruleWorker[q] /\ record'[q] = record[q]
BY DEF Rule!TypeOK, CallMoves, CallPcs, RecordStates

\* A record that stays as it is.
LEMMA SameRecord ==
    ASSUME Rule!TypeOK, NEW p \in RuleProposals
    PROVE  record[p] \in RecordStates /\ record = [record EXCEPT ![p] = record[p]]
           /\ ruleWorker[p] \in CallPcs /\ ruleWorker = [ruleWorker EXCEPT ![p] = ruleWorker[p]]
BY DEF Rule!TypeOK, RecordStates, CallPcs

\* Deletions stand while no rule comes back, no switch is moved and nobody is about to.
LEMMA DeletionKept ==
    ASSUME Rule!DeletionStands, UNCHANGED <<proposed, shown>>,
           \A q \in RuleProposals : Rule!Deleted(q)' => Rule!Deleted(q),
           \A q \in RuleProposals : ruleWorker'[q] = "dispatch" => ruleWorker[q] = "dispatch",
           \A q \in RuleProposals : Rule!Deleted(q) =>
               rules'[RuleOf(q)] = Rule!Absent /\ override'[RuleOf(q)].inactive = "removed"
    PROVE  Rule!DeletionStands'
BY DEF Rule!DeletionStands, Rule!Absent

\* Switches stay and no proposal is spent less.
LEMMA SwitchesKept ==
    ASSUME Rule!TypeOK, Rule!SwitchMoves, UNCHANGED override,
           \A q \in RuleProposals : q \in Rule!Spent => q \in Rule!Spent'
    PROVE  Rule!SwitchMoves'
<1>1. PICK S, T : S = Rule!Spent /\ T = Rule!Spent'
  OBVIOUS
<1>2. S \subseteq T /\ T \subseteq RuleProposals
  BY <1>1 DEF Rule!Spent
<1>3. /\ Rule!Cardinality(S) \in Nat /\ Rule!Cardinality(T) \in Nat
      /\ Rule!Cardinality(S) <= Rule!Cardinality(T)
  BY <1>2, SetsOfChanges
<1>4. \A r \in Rule!Rules : override[r].version \in Nat
  BY DEF Rule!TypeOK, Rule!Overrides
<1> QED
  BY <1>1, <1>3, <1>4 DEF Rule!SwitchMoves

\* One switch moves with the proposal that is spent on it.
LEMMA SwitchMoved ==
    ASSUME Rule!TypeOK, Rule!SwitchMoves, NEW p \in RuleProposals, NEW i \in Rule!Switch,
           override' = [override EXCEPT ![RuleOf(p)] =
                          [version |-> override[RuleOf(p)].version + 1, inactive |-> i]],
           \A q \in RuleProposals : q \in Rule!Spent => q \in Rule!Spent',
           p \in Rule!Spent', p \notin Rule!Spent
    PROVE  Rule!SwitchMoves' /\ override' \in [Rule!Rules -> Rule!Overrides]
<1>1. PICK S, T : S = Rule!Spent /\ T = Rule!Spent'
  OBVIOUS
<1>2. S \subseteq T /\ T \subseteq RuleProposals /\ S # T
  BY <1>1 DEF Rule!Spent
<1>3. /\ Rule!Cardinality(S) \in Nat /\ Rule!Cardinality(T) \in Nat
      /\ Rule!Cardinality(S) + 1 <= Rule!Cardinality(T)
      /\ Rule!Cardinality(T) <= Rule!Cardinality(RuleProposals)
      /\ Rule!Cardinality(RuleProposals) \in Nat
  BY <1>2, SetsOfChanges
<1>4. RuleOf(p) \in Rule!Rules
  BY DEF Rule!Rules
<1>5. \A r \in Rule!Rules : override[r].version \in Nat /\ override[r].version <= Rule!Cardinality(S)
  BY <1>1 DEF Rule!TypeOK, Rule!Overrides, Rule!SwitchMoves
<1>6. PICK v \in Nat : v = override[RuleOf(p)].version + 1 /\ v <= Rule!Cardinality(S) + 1
  BY <1>3, <1>4, <1>5
<1>7. [version |-> v, inactive |-> i] \in Rule!Overrides
  BY <1>3, <1>6 DEF Rule!Overrides
<1>8. override' = [override EXCEPT ![RuleOf(p)] = [version |-> v, inactive |-> i]]
  BY <1>6
<1>9. override' \in [Rule!Rules -> Rule!Overrides]
  BY <1>4, <1>7, <1>8 DEF Rule!TypeOK
<1>10. ASSUME NEW r \in Rule!Rules PROVE override'[r].version <= Rule!Cardinality(T)
  <2>1. CASE r = RuleOf(p)
    BY <1>3, <1>4, <1>6, <1>8, <2>1 DEF Rule!TypeOK
  <2>2. CASE r # RuleOf(p)
    BY <1>3, <1>5, <1>8, <2>2 DEF Rule!TypeOK
  <2> QED
    BY <2>1, <2>2
<1> QED
  BY <1>1, <1>9, <1>10 DEF Rule!SwitchMoves, Rule!Rules

\* A call moves on, or ends, without changing anything: acquisition, comparison, outcome,
\* replay, failure and crash.
LEMMA CallStep ==
    ASSUME RuleCore, NEW p \in RuleProposals, NEW l \in CallPcs \ {"written"},
           NEW s \in RecordStates, CallMoves(p, l, s),
           UNCHANGED <<rules, override, proposed, shown, dispatched>>,
           authorized' \in SUBSET proposed,
           told' \in SUBSET RuleProposals, \A q \in RuleProposals \ {p} : q \in told' <=> q \in told,
           s \in Owning =>
               record[p] \in Owning \/ \A q \in RuleProposals \ {p} : record[q] \notin Owning,
           l = "dispatch" =>
               \A q \in RuleProposals : Rule!Deleted(q) => RuleOf(q) # RuleOf(p),
           l = "complete" \/ s = "succeeded" => ruleWorker[p] = "complete" \/ record[p] = "succeeded",
           CallKnows(p)'
    PROVE  RuleCore'
<1> USE DEF RuleCore
<1>1. /\ ruleWorker' \in [RuleProposals -> CallPcs] /\ ruleWorker'[p] = l
      /\ record' \in [RuleProposals -> RecordStates] /\ record'[p] = s
      /\ \A q \in RuleProposals \ {p} : ruleWorker'[q] = ruleWorker[q] /\ record'[q] = record[q]
  BY CallMoved
<1>2. Rule!TypeOK'
  BY <1>1 DEF Rule!TypeOK, CallPcs, RecordStates
<1>3. OneRuleOwner'
  BY <1>1 DEF OneRuleOwner
<1>4. \A q \in RuleProposals : CallKnows(q)'
  BY <1>1 DEF CallKnows
<1>5. Rule!DeletionStands'
  <2>1. \A q \in RuleProposals : Rule!Deleted(q)' => Rule!Deleted(q)
    BY <1>1 DEF Rule!Deleted
  <2> QED
    BY <1>1, <2>1 DEF Rule!DeletionStands, Rule!Absent
<1>6. Rule!SwitchMoves'
  BY <1>1, SwitchesKept DEF Rule!Spent
<1> QED
  BY <1>2, <1>3, <1>4, <1>5, <1>6

\* A call sends its change: createRule, setRuleOverride and deleteRule.
LEMMA ChangeStep ==
    ASSUME RuleCore, NEW p \in RuleProposals, NEW l \in {"written", "failing"},
           ruleWorker[p] = "dispatch", Rule!Step(p, l),
           dispatched' = [dispatched EXCEPT ![p] = @ + 1],
           UNCHANGED <<proposed, shown, authorized, record, told>>,
           rules' \in [Rule!Rules -> 0..Rule!Absent],
           \/ UNCHANGED override
           \/ /\ RuleOp(p) # "delete_rule"
              /\ \E i \in Rule!Switch : override' = [override EXCEPT ![RuleOf(p)] =
                     [version |-> override[RuleOf(p)].version + 1, inactive |-> i]],
           \A r \in Rule!Rules \ {RuleOf(p)} : rules'[r] = rules[r]
    PROVE  RuleCore'
<1> USE DEF RuleCore
<1>1. /\ record[p] = "in_progress" /\ dispatched[p] = 0 /\ p \notin told
      /\ \A q \in RuleProposals : Rule!Deleted(q) => RuleOf(q) # RuleOf(p)
  BY DEF CallKnows, Rule!DeletionStands
<1>2. /\ dispatched' \in [RuleProposals -> 0..2] /\ dispatched'[p] = 1
      /\ \A q \in RuleProposals \ {p} : dispatched'[q] = dispatched[q]
  BY <1>1 DEF Rule!TypeOK
<1>3. /\ ruleWorker' \in [RuleProposals -> CallPcs] /\ ruleWorker'[p] = l
      /\ \A q \in RuleProposals \ {p} : ruleWorker'[q] = ruleWorker[q]
  BY DEF Rule!TypeOK, Rule!Step, CallPcs
<1>4. \A q \in RuleProposals : q \in Rule!Spent => q \in Rule!Spent'
  BY <1>1, <1>2, <1>3 DEF Rule!Spent
<1>5. Rule!SwitchMoves' /\ override' \in [Rule!Rules -> Rule!Overrides]
  <2>1. CASE UNCHANGED override
    BY <1>4, <2>1, SwitchesKept DEF Rule!TypeOK
  <2>2. ASSUME NEW i \in Rule!Switch, RuleOp(p) # "delete_rule",
               override' = [override EXCEPT ![RuleOf(p)] =
                  [version |-> override[RuleOf(p)].version + 1, inactive |-> i]]
        PROVE  Rule!SwitchMoves' /\ override' \in [Rule!Rules -> Rule!Overrides]
    <3>1. p \in Rule!Spent' /\ p \notin Rule!Spent
      BY <1>1, <1>2, <2>2 DEF Rule!Spent
    <3> QED
      BY <1>4, <2>2, <3>1, SwitchMoved
  <2> QED
    BY <2>1, <2>2
<1>6. Rule!TypeOK'
  BY <1>2, <1>3, <1>5 DEF Rule!TypeOK, CallPcs
<1>7. OneRuleOwner' /\ \A q \in RuleProposals : CallKnows(q)'
  BY <1>1, <1>2, <1>3 DEF OneRuleOwner, CallKnows
<1>8. Rule!DeletionStands'
  <2>1. \A q \in RuleProposals : Rule!Deleted(q)' => Rule!Deleted(q)
    BY <1>1, <1>3 DEF Rule!Deleted
  <2>2. ASSUME NEW q \in RuleProposals, Rule!Deleted(q)
        PROVE  rules'[RuleOf(q)] = Rule!Absent /\ override'[RuleOf(q)].inactive = "removed"
    <3>1. RuleOf(q) \in Rule!Rules \ {RuleOf(p)} /\ RuleOf(p) \in Rule!Rules
      BY <1>1, <2>2 DEF Rule!Rules
    <3>2. rules[RuleOf(q)] = Rule!Absent /\ override[RuleOf(q)].inactive = "removed"
      BY <2>2 DEF Rule!DeletionStands
    <3>3. override'[RuleOf(q)] = override[RuleOf(q)]
      BY <3>1 DEF Rule!TypeOK
    <3> QED
      BY <3>1, <3>2, <3>3
  <2> QED
    BY <1>3, <2>1, <2>2, DeletionKept
<1> QED
  BY <1>5, <1>6, <1>7, <1>8

\* verify: what was written is found, and the switch of a deleted rule is cleared.
LEMMA VerifyStep ==
    ASSUME RuleCore, NEW p \in RuleProposals, Rule!verify(p)
    PROVE  RuleCore'
<1> USE DEF RuleCore
<1>1. /\ ruleWorker[p] = "written" /\ Rule!Step(p, "complete")
      /\ UNCHANGED <<rules, proposed, shown, authorized, record, dispatched, told>>
  BY DEF Rule!verify
<1>2. record[p] = "in_progress" /\ dispatched[p] = 1 /\ p \notin told
  BY <1>1 DEF CallKnows
<1>3. /\ ruleWorker' \in [RuleProposals -> CallPcs] /\ ruleWorker'[p] = "complete"
      /\ \A q \in RuleProposals \ {p} : ruleWorker'[q] = ruleWorker[q]
  BY <1>1 DEF Rule!TypeOK, Rule!Step, CallPcs
<1>4. \A q \in RuleProposals : q \in Rule!Spent => q \in Rule!Spent'
  BY <1>1, <1>3 DEF Rule!Spent
<1>5. OneRuleOwner' /\ \A q \in RuleProposals : CallKnows(q)'
  BY <1>1, <1>2, <1>3 DEF OneRuleOwner, CallKnows
<1>6. \A q \in RuleProposals : ruleWorker'[q] # "dispatch"
  <2>1. \A q \in RuleProposals : ruleWorker[q] = "dispatch" => q = p
    BY <1>2 DEF CallKnows, OneRuleOwner, Owning
  <2> QED
    BY <1>3, <2>1
<1>7. RuleOf(p) \in Rule!Rules
  BY DEF Rule!Rules
<1>8. /\ Rule!SwitchMoves' /\ override' \in [Rule!Rules -> Rule!Overrides]
      /\ \A r \in Rule!Rules :
            override[r].inactive = "removed" => override'[r].inactive = "removed"
      /\ RuleOp(p) = "delete_rule" =>
            rules[RuleOf(p)] = Rule!Absent /\ override'[RuleOf(p)].inactive = "removed"
  <2>1. CASE RuleOp(p) = "delete_rule" /\ override[RuleOf(p)].inactive # "removed"
    <3>1. /\ override[RuleOf(p)] = shown[p].override /\ rules[RuleOf(p)] = Rule!Absent
          /\ override' = [override EXCEPT ![RuleOf(p)] =
                [version |-> override[RuleOf(p)].version + 1, inactive |-> "removed"]]
      BY <2>1 DEF Rule!verify, Rule!ExecutionCurrent, Rule!ruleOverrideSnapshotMatches
    <3>2. p \in Rule!Spent' /\ p \notin Rule!Spent
      BY <1>1, <1>2, <1>3, <2>1 DEF Rule!Spent
    <3>3. Rule!SwitchMoves' /\ override' \in [Rule!Rules -> Rule!Overrides]
      BY <1>4, <3>1, <3>2, SwitchMoved DEF Rule!Switch
    <3>4. /\ override'[RuleOf(p)].inactive = "removed"
          /\ \A r \in Rule!Rules \ {RuleOf(p)} : override'[r] = override[r]
      BY <1>7, <3>1 DEF Rule!TypeOK
    <3> QED
      BY <3>1, <3>3, <3>4
  <2>2. CASE ~(RuleOp(p) = "delete_rule" /\ override[RuleOf(p)].inactive # "removed")
    <3>1. /\ override' = override
          /\ RuleOp(p) = "delete_rule" => rules[RuleOf(p)] = Rule!Absent
      BY <2>2 DEF Rule!verify
    <3> QED
      BY <1>4, <2>2, <3>1, SwitchesKept DEF Rule!TypeOK
  <2> QED
    BY <2>1, <2>2
<1>9. Rule!TypeOK'
  BY <1>1, <1>3, <1>8 DEF Rule!TypeOK, CallPcs
<1>10. Rule!DeletionStands'
  <2>1. ASSUME NEW q \in RuleProposals, Rule!Deleted(q)'
        PROVE  rules'[RuleOf(q)] = Rule!Absent /\ override'[RuleOf(q)].inactive = "removed"
    <3>1. CASE q = p
      BY <1>1, <1>8, <2>1, <3>1 DEF Rule!Deleted
    <3>2. CASE q # p
      <4>1. Rule!Deleted(q) /\ RuleOf(q) \in Rule!Rules
        BY <1>1, <1>3, <2>1, <3>2 DEF Rule!Deleted, Rule!Rules
      <4> QED
        BY <1>1, <1>8, <4>1 DEF Rule!DeletionStands
    <3> QED
      BY <3>1, <3>2
  <2> QED
    BY <1>1, <1>6, <2>1 DEF Rule!DeletionStands, Rule!Absent
<1> QED
  BY <1>5, <1>8, <1>9, <1>10

\* A person edits a rule that is there; a deleted one stays deleted.
LEMMA EditStep ==
    ASSUME RuleCore, NEW r \in Rule!Rules, Rule!EditInActual(r)
    PROVE  RuleCore'
<1> USE DEF RuleCore
<1>1. /\ rules[r] # Rule!Absent
      /\ UNCHANGED <<override, proposed, shown, authorized, record, ruleWorker, dispatched, told>>
  BY DEF Rule!EditInActual
<1>2. /\ rules' \in [Rule!Rules -> 0..Rule!Absent]
      /\ \A q \in Rule!Rules \ {r} : rules'[q] = rules[q]
  BY DEF Rule!EditInActual, Rule!TypeOK, Rule!Absent, Rule!RuleConstants
<1>3. Rule!TypeOK'
  BY <1>1, <1>2 DEF Rule!TypeOK
<1>4. OneRuleOwner' /\ \A q \in RuleProposals : CallKnows(q)'
  BY <1>1 DEF OneRuleOwner, CallKnows
<1>5. Rule!SwitchMoves'
  BY <1>1, SwitchesKept DEF Rule!Spent
<1>6. Rule!DeletionStands'
  <2>1. \A q \in RuleProposals : Rule!Deleted(q) => RuleOf(q) \in Rule!Rules \ {r}
    BY <1>1 DEF Rule!DeletionStands, Rule!Rules
  <2>2. \A q \in RuleProposals : Rule!Deleted(q)' => Rule!Deleted(q)
    BY <1>1 DEF Rule!Deleted
  <2>3. \A q \in RuleProposals : Rule!Deleted(q) =>
            rules'[RuleOf(q)] = Rule!Absent /\ override'[RuleOf(q)].inactive = "removed"
    BY <1>1, <1>2, <2>1 DEF Rule!DeletionStands
  <2> QED
    BY <1>1, <2>2, <2>3, DeletionKept
<1> QED
  BY <1>3, <1>4, <1>5, <1>6

\* createProposal shows a rule that is there.
LEMMA ProposeStep ==
    ASSUME RuleCore, NEW p \in RuleProposals, Rule!createProposal(p)
    PROVE  RuleCore'
<1> USE DEF RuleCore
<1>1. /\ UNCHANGED <<rules, override, record, ruleWorker, dispatched, told>>
      /\ proposed' = proposed \cup {p} /\ authorized' = authorized \cup {p}
      /\ RuleOp(p) # "create_rule" => rules[RuleOf(p)] # Rule!Absent
      /\ shown' = [shown EXCEPT ![p] = [rule |-> rules[RuleOf(p)], override |-> override[RuleOf(p)]]]
  BY DEF Rule!createProposal
<1>2. rules[RuleOf(p)] \in 0..Rule!Absent /\ override[RuleOf(p)] \in Rule!Overrides
  BY DEF Rule!TypeOK, Rule!Rules
<1>3. /\ shown' \in [RuleProposals -> [rule : 0..Rule!Absent, override : Rule!Overrides]]
      /\ shown'[p].rule = rules[RuleOf(p)]
      /\ \A q \in RuleProposals \ {p} : shown'[q] = shown[q]
  BY <1>1, <1>2 DEF Rule!TypeOK
<1>4. Rule!TypeOK'
  BY <1>1, <1>3 DEF Rule!TypeOK
<1>5. OneRuleOwner' /\ \A q \in RuleProposals : CallKnows(q)'
  BY <1>1 DEF OneRuleOwner, CallKnows
<1>6. Rule!SwitchMoves'
  BY <1>1, SwitchesKept DEF Rule!Spent
<1>7. Rule!DeletionStands'
  BY <1>1, <1>3 DEF Rule!DeletionStands, Rule!Deleted, Rule!Absent, Rule!TypeOK
<1> QED
  BY <1>4, <1>5, <1>6, <1>7

\* Every step of a call, of a person and of the ledger keeps what is known of rule changes.
LEMMA RuleStep ==
    ASSUME RuleCore, [Rule!Next]_ruleVars
    PROVE  RuleCore'
<1>0. /\ Rule!TypeOK /\ OneRuleOwner /\ Rule!DeletionStands
      /\ \A p \in RuleProposals : CallKnows(p)
  BY DEF RuleCore
<1>1. CASE UNCHANGED ruleVars
  <2>1. Rule!TypeOK' /\ OneRuleOwner' /\ \A p \in RuleProposals : CallKnows(p)'
    BY <1>0, <1>1 DEF ruleVars, Rule!TypeOK, OneRuleOwner, CallKnows
  <2>2. Rule!DeletionStands' /\ Rule!SwitchMoves'
    BY <1>0, <1>1, SwitchesKept DEF RuleCore, ruleVars, Rule!DeletionStands, Rule!Deleted,
       Rule!Absent, Rule!Spent
  <2> QED
    BY <2>1, <2>2 DEF RuleCore
<1>2. ASSUME NEW p \in RuleProposals, Rule!acquireProposalExecution(p) PROVE RuleCore'
  <2>1. /\ CallMoves(p, "check", "in_progress") /\ record[p] = "none"
        /\ UNCHANGED <<rules, override, proposed, shown, authorized, dispatched, told>>
        /\ \A q \in RuleProposals \ {p} : record[q] \notin Owning
    BY <1>2 DEF Rule!acquireProposalExecution, CallMoves, Owning,
       Rule!hasConflictingBudgetMutationOwner
  <2>2. ruleWorker'[p] = "check" /\ record'[p] = "in_progress"
    BY <1>0, <2>1, CallMoved DEF CallPcs, RecordStates
  <2>3. CallKnows(p)'
    BY <1>0, <2>1, <2>2 DEF CallKnows
  <2> QED
    BY <1>0, <2>1, <2>3, CallStep DEF CallPcs, RecordStates, Rule!TypeOK
<1>3. ASSUME NEW p \in RuleProposals, Rule!replayResult(p) PROVE RuleCore'
  <2>1. /\ CallMoves(p, ruleWorker[p], record[p]) /\ record[p] = "succeeded"
        /\ told' = told \cup {p}
        /\ UNCHANGED <<rules, override, proposed, shown, authorized, dispatched, record, ruleWorker>>
    BY <1>0, <1>3, SameRecord DEF Rule!replayResult, CallMoves
  <2>2. ruleWorker[p] = "idle" /\ CallKnows(p)'
    BY <1>0, <2>1 DEF CallKnows
  <2> QED
    BY <1>0, <2>1, <2>2, SameRecord, CallStep DEF CallPcs, Rule!TypeOK, Owning
<1>4. ASSUME NEW p \in RuleProposals, Rule!execute(p) PROVE RuleCore'
  <2>1. /\ CallMoves(p, "dispatch", record[p]) /\ record[p] = "in_progress"
        /\ ruleWorker[p] = "check" /\ p \in proposed
        /\ RuleOp(p) # "create_rule" => rules[RuleOf(p)] = shown[p].rule
        /\ UNCHANGED <<rules, override, proposed, shown, authorized, dispatched, record, told>>
    BY <1>0, <1>4, SameRecord DEF Rule!execute, Rule!ExecutionCurrent, Rule!Step, CallMoves,
       Rule!TypeOK
  <2>2. ruleWorker'[p] = "dispatch" /\ record'[p] = "in_progress"
    BY <1>0, <2>1, CallMoved DEF CallPcs, RecordStates
  <2>3. CallKnows(p)'
    BY <1>0, <2>1, <2>2 DEF CallKnows
  <2>4. \A q \in RuleProposals : Rule!Deleted(q) => RuleOf(q) # RuleOf(p)
    BY <1>0, <2>1 DEF Rule!DeletionStands, Rule!Deleted, Rule!RuleConstants
  <2> QED
    BY <1>0, <2>1, <2>3, <2>4, CallStep DEF CallPcs, RecordStates, Rule!TypeOK, Owning
<1>5. ASSUME NEW p \in RuleProposals, Rule!createRule(p) PROVE RuleCore'
  <2>1. RuleOf(p) \in Rule!Rules /\ 0 \in 0..Rule!Absent
    BY DEF Rule!Rules, Rule!Absent, Rule!RuleConstants
  <2>2. /\ rules' \in [Rule!Rules -> 0..Rule!Absent]
        /\ \A r \in Rule!Rules \ {RuleOf(p)} : rules'[r] = rules[r]
    BY <1>0, <1>5, <2>1 DEF Rule!createRule, Rule!TypeOK
  <2> QED
    BY <1>5, <2>2, ChangeStep DEF Rule!createRule
<1>6. ASSUME NEW p \in RuleProposals, Rule!setRuleOverride(p) PROVE RuleCore'
  <2>1. PICK i \in {"active", "inactive"} : override' = [override EXCEPT ![RuleOf(p)] =
            [version |-> override[RuleOf(p)].version + 1, inactive |-> i]]
    BY <1>0, <1>6 DEF Rule!setRuleOverride, Rule!TypeOK, Rule!Rules
  <2> QED
    BY <1>0, <1>6, <2>1, ChangeStep DEF Rule!setRuleOverride, Rule!TypeOK, Rule!Switch
<1>7. ASSUME NEW p \in RuleProposals, Rule!deleteRule(p) PROVE RuleCore'
  <2>1. RuleOf(p) \in Rule!Rules /\ Rule!Absent \in 0..Rule!Absent
    BY DEF Rule!Rules, Rule!Absent, Rule!RuleConstants
  <2>2. /\ rules' \in [Rule!Rules -> 0..Rule!Absent]
        /\ \A r \in Rule!Rules \ {RuleOf(p)} : rules'[r] = rules[r]
    BY <1>0, <1>7, <2>1 DEF Rule!deleteRule, Rule!TypeOK
  <2> QED
    BY <1>7, <2>2, ChangeStep DEF Rule!deleteRule
<1>8. ASSUME NEW p \in RuleProposals, Rule!completeIdempotencyRecord(p) PROVE RuleCore'
  <2>1. PICK s \in {"in_progress", "succeeded"} : record' = [record EXCEPT ![p] = s]
    BY <1>0, <1>8, SameRecord DEF Rule!completeIdempotencyRecord, CallKnows
  <2>2. /\ CallMoves(p, "idle", s) /\ ruleWorker[p] = "complete" /\ told' = told \cup {p}
        /\ UNCHANGED <<rules, override, proposed, shown, authorized, dispatched>>
    BY <1>8, <2>1 DEF Rule!completeIdempotencyRecord, CallMoves, Rule!Step
  <2>3. ruleWorker'[p] = "idle" /\ record'[p] = s
    BY <1>0, <2>2, CallMoved DEF CallPcs, RecordStates
  <2>4. CallKnows(p)' /\ record[p] = "in_progress"
    BY <1>0, <2>2, <2>3 DEF CallKnows
  <2> QED
    BY <1>0, <2>2, <2>4, CallStep DEF CallPcs, RecordStates, Rule!TypeOK, Owning
<1>9. ASSUME NEW p \in RuleProposals, Rule!recordFailure(p) PROVE RuleCore'
  <2>1. PICK s \in {"in_progress", "terminal_failed"} : record' = [record EXCEPT ![p] = s]
    BY <1>0, <1>9, SameRecord DEF Rule!recordFailure, CallKnows
  <2>2. /\ CallMoves(p, "idle", s) /\ ruleWorker[p] # "idle"
        /\ UNCHANGED <<rules, override, proposed, shown, authorized, dispatched, told>>
    BY <1>9, <2>1 DEF Rule!recordFailure, CallMoves, Rule!Step
  <2>3. ruleWorker'[p] = "idle" /\ record'[p] = s
    BY <1>0, <2>2, CallMoved DEF CallPcs, RecordStates
  <2>4. CallKnows(p)' /\ record[p] = "in_progress"
    BY <1>0, <2>2, <2>3 DEF CallKnows
  <2> QED
    BY <1>0, <2>2, <2>4, CallStep DEF CallPcs, RecordStates, Rule!TypeOK, Owning
<1>10. ASSUME NEW p \in RuleProposals, Rule!Crash(p) PROVE RuleCore'
  <2>1. /\ CallMoves(p, "idle", record[p]) /\ ruleWorker[p] # "idle" /\ record' = record
        /\ UNCHANGED <<rules, override, proposed, shown, authorized, dispatched, told>>
    BY <1>0, <1>10, SameRecord DEF Rule!Crash, CallMoves, Rule!Step
  <2>2. ruleWorker'[p] = "idle" /\ record[p] = "in_progress"
    BY <1>0, <2>1, SameRecord, CallMoved DEF CallPcs, CallKnows
  <2>3. CallKnows(p)'
    BY <1>0, <2>1, <2>2 DEF CallKnows
  <2> QED
    BY <1>0, <2>1, <2>2, <2>3, CallStep DEF CallPcs, RecordStates, Rule!TypeOK, Owning
<1>11. ASSUME NEW p \in RuleProposals, Rule!AuthorityLost(p) PROVE RuleCore'
  <2>1. /\ authorized' \in SUBSET proposed
        /\ UNCHANGED <<rules, override, proposed, shown, record, ruleWorker, dispatched, told>>
    BY <1>0, <1>11 DEF Rule!AuthorityLost, Rule!TypeOK
  <2>2. Rule!TypeOK' /\ OneRuleOwner' /\ \A q \in RuleProposals : CallKnows(q)'
    BY <1>0, <2>1 DEF Rule!TypeOK, OneRuleOwner, CallKnows
  <2>3. Rule!DeletionStands' /\ Rule!SwitchMoves'
    BY <1>0, <2>1, SwitchesKept DEF RuleCore, Rule!DeletionStands, Rule!Deleted, Rule!Absent,
       Rule!Spent
  <2> QED
    BY <2>2, <2>3 DEF RuleCore
<1> QED
  BY <1>1, <1>2, <1>3, <1>4, <1>5, <1>6, <1>7, <1>8, <1>9, <1>10, <1>11, VerifyStep, EditStep,
     ProposeStep DEF Rule!Next

\* Only the two dispatching operations on an existing rule move a proposal's count, and both
\* compare first.
LEMMA ShownBefore ==
    ASSUME Rule!TypeOK, [Rule!Next]_ruleVars
    PROVE  Rule!ShownStep
<1> SUFFICES ASSUME NEW p \in RuleProposals, dispatched'[p] > dispatched[p],
                    RuleOp(p) # "create_rule"
             PROVE  /\ override[RuleOf(p)] = shown[p].override
                    /\ rules'[RuleOf(p)] # rules[RuleOf(p)] => rules[RuleOf(p)] = shown[p].rule
  BY DEF Rule!ShownStep
<1>1. dispatched[p] \in Nat /\ dispatched' # dispatched
  BY DEF Rule!TypeOK
<1>2. PICK q \in RuleProposals :
          Rule!createRule(q) \/ Rule!setRuleOverride(q) \/ Rule!deleteRule(q)
  BY <1>1 DEF ruleVars, Rule!Next, Rule!createProposal, Rule!acquireProposalExecution,
     Rule!replayResult, Rule!execute, Rule!verify, Rule!completeIdempotencyRecord,
     Rule!recordFailure, Rule!Crash, Rule!AuthorityLost, Rule!EditInActual
<1>3. dispatched' = [dispatched EXCEPT ![q] = @ + 1] /\ Rule!ExecutionCurrent(q)
  BY <1>2 DEF Rule!createRule, Rule!setRuleOverride, Rule!deleteRule
<1>4. q = p
  BY <1>1, <1>3 DEF Rule!TypeOK
<1> QED
  BY <1>2, <1>3, <1>4 DEF Rule!createRule, Rule!setRuleOverride, Rule!deleteRule,
     Rule!ExecutionCurrent, Rule!ruleOverrideSnapshotMatches

------------------------------------------------------------------------------
\* Who may have a change made. ProvenancePast speaks of these variables only.
provenanceVars == <<member, periods, proposal, approvals, acquired, lapsed>>

\* The types, by what they speak of.
PeopleTyped ==
    /\ member \in [Humans -> 0..MaxPeriod] /\ periods \in [Humans -> 0..MaxPeriod]
    /\ lapsed \in SUBSET Humans
GrantsTyped == grants \in [Humans -> [1..MaxPeriod -> SUBSET Authority!Capabilities]]
PolicyTyped ==
    policy \in [version : 1..MaxPolicy, required : 1..Authority!Cardinality(Humans)]
ControlTyped ==
    agentStatus \in {"active", "disconnected", "revoked"} /\ controls \in 0..MaxControls
AgentTyped ==
    /\ delegation \in [serial : 0..MaxSerial, issuer : Humans, period : 0..MaxPeriod,
                       rights : SUBSET Authority!Delegable, live : BOOLEAN]
    /\ credential \in [serial : 0..MaxSerial, live : BOOLEAN]
ProposalTyped ==
    proposal \in [by : Authority!Principals \cup {Nobody}, of : Humans \cup {Nobody},
                 period : 0..MaxPeriod, serial : 0..MaxSerial, policy : 0..MaxPolicy,
                 phase : {"none", "proposed", "superseded", "acquired", "dispatched", "refused"}]
ApprovalsTyped ==
    /\ approvals \in SUBSET Authority!Approvals
    /\ acquired \in [executor : Authority!Principals \cup {Nobody},
                     approvals : SUBSET Authority!Approvals]

LEMMA TypeParts ==
    Authority!TypeOK <=> /\ PeopleTyped /\ GrantsTyped /\ PolicyTyped /\ ControlTyped
                         /\ AgentTyped /\ ProposalTyped /\ ApprovalsTyped
BY DEF Authority!TypeOK, PeopleTyped, GrantsTyped, PolicyTyped, ControlTyped, AgentTyped,
   ProposalTyped, ApprovalsTyped

LEMMA TypeAfter ==
    ASSUME PeopleTyped', GrantsTyped', PolicyTyped', ControlTyped', AgentTyped', ProposalTyped',
           ApprovalsTyped'
    PROVE  Authority!TypeOK'
BY DEF Authority!TypeOK, PeopleTyped, GrantsTyped, PolicyTyped, ControlTyped, AgentTyped,
   ProposalTyped, ApprovalsTyped

\* What no step mentions keeps its type.
LEMMA TypesKept ==
    /\ PeopleTyped /\ UNCHANGED <<member, periods, lapsed>> => PeopleTyped'
    /\ GrantsTyped /\ UNCHANGED grants => GrantsTyped'
    /\ PolicyTyped /\ UNCHANGED policy => PolicyTyped'
    /\ ControlTyped /\ UNCHANGED <<agentStatus, controls>> => ControlTyped'
    /\ AgentTyped /\ UNCHANGED <<delegation, credential>> => AgentTyped'
    /\ ProposalTyped /\ UNCHANGED proposal => ProposalTyped'
    /\ ApprovalsTyped /\ UNCHANGED <<approvals, acquired>> => ApprovalsTyped'
BY DEF PeopleTyped, GrantsTyped, PolicyTyped, ControlTyped, AgentTyped, ProposalTyped,
   ApprovalsTyped

\* A budget's policy asks for at least one of the humans, of whom there is one.
LEMMA SomeHuman == Authority!Cardinality(Humans) \in Nat \ {0}
<1>1. IsFiniteSet(Humans) /\ Humans # {}
  BY DEF Authority!GovernanceConstants, Authority!IsFiniteSet, IsFiniteSet
<1>2. Cardinality(Humans) \in Nat /\ Cardinality(Humans) # 0
  BY <1>1, FS_CardinalityType, FS_EmptySet
<1> QED
  BY <1>2, SameAuthorityCount

\* Versions, periods and people are what arithmetic needs them to be.
LEMMA Numbers ==
    ASSUME Authority!TypeOK
    PROVE  /\ \A h \in Humans : member[h] \in Nat /\ periods[h] \in Nat
           /\ \A h \in Humans : member[h] <= MaxPeriod /\ periods[h] <= MaxPeriod
           /\ policy.version \in Nat /\ policy.version >= 1 /\ policy.version <= MaxPolicy
           /\ policy.required \in Nat
           /\ delegation.serial \in Nat /\ delegation.serial <= MaxSerial
           /\ delegation.issuer \in Humans
           /\ controls \in Nat /\ MaxPeriod \in Nat /\ MaxPolicy \in Nat /\ MaxSerial \in Nat
           /\ MaxControls \in Nat
<1> USE TypeParts DEF Authority!GovernanceConstants
<1>1. MaxPeriod \in Nat /\ MaxPolicy \in Nat /\ MaxSerial \in Nat /\ MaxControls \in Nat
  OBVIOUS
<1>2. /\ \A h \in Humans : member[h] \in Nat /\ periods[h] \in Nat
      /\ \A h \in Humans : member[h] <= MaxPeriod /\ periods[h] <= MaxPeriod
  BY <1>1 DEF PeopleTyped
<1>3. /\ policy.version \in Nat /\ policy.version >= 1 /\ policy.version <= MaxPolicy
      /\ policy.required \in Nat
  BY <1>1, SomeHuman DEF PolicyTyped
<1>4. delegation.serial \in Nat /\ delegation.serial <= MaxSerial /\ delegation.issuer \in Humans
  BY <1>1 DEF AgentTyped
<1>5. controls \in Nat
  BY <1>1 DEF ControlTyped
<1> QED
  BY <1>1, <1>2, <1>3, <1>4, <1>5

LEMMA ApprovalFacts ==
    ASSUME Authority!TypeOK
    PROVE  /\ \A a \in approvals : a.actor \in Humans /\ a.period \in Nat \ {0}
           /\ acquired.approvals \subseteq Authority!Approvals
<1>1. ApprovalsTyped
  BY TypeParts
<1>2. \A a \in Authority!Approvals : a.actor \in Humans /\ a.period \in Nat \ {0}
  BY DEF Authority!Approvals, Authority!GovernanceConstants
<1> QED
  BY <1>1, <1>2 DEF ApprovalsTyped

LEMMA AuthorityInit == Authority!Init => Authority!AuthorityKept
<1> SUFFICES ASSUME Authority!Init PROVE Authority!AuthorityKept
  OBVIOUS
<1> USE DEF Authority!GovernanceConstants, Authority!Init
<1>1. /\ 1 \in 1..MaxPeriod /\ 1 \in 0..MaxPeriod /\ 0 \in 0..MaxPeriod /\ 0 \in 0..MaxSerial
      /\ 1 \in 1..MaxPolicy /\ 0 \in 0..MaxPolicy /\ 0 \in 0..MaxControls
      /\ 1 \in 1..Authority!Cardinality(Humans)
  BY SomeHuman
<1>2. Authority!TypeOK
  BY <1>1 DEF Authority!TypeOK, Authority!NoProposal, Authority!NotAcquired,
     Authority!Capabilities, Authority!Delegable
<1>3. Authority!ProvenancePast
  BY DEF Authority!ProvenancePast, Authority!NoProposal, Authority!NotAcquired
<1> QED
  BY <1>2, <1>3 DEF Authority!AuthorityKept

\* Policies, grants, delegations and credentials leave the provenance alone.
LEMMA ProvenanceKept ==
    ASSUME Authority!ProvenancePast, UNCHANGED provenanceVars
    PROVE  Authority!ProvenancePast'
BY DEF Authority!ProvenancePast, provenanceVars, Authority!NoProposal

\* Control operations that concern no membership keep the types.
LEMMA ControlStep ==
    ASSUME Authority!AuthorityKept, NEW m \in Humans,
           \/ \E h \in Humans, c \in Authority!Capabilities : Authority!setResourceGrant(m, h, c)
           \/ Authority!setPolicy(m) \/ Authority!setAgentStatus(m) \/ Authority!delegate(m)
           \/ Authority!revokeDelegation(m) \/ Authority!registerCredentialBinding(m)
           \/ Authority!revokeCredentialBinding(m)
    PROVE  Authority!AuthorityKept'
<1> USE DEF Authority!AuthorityKept
<1>1. UNCHANGED provenanceVars /\ Authority!requireManager(m)
  BY DEF provenanceVars, Authority!setResourceGrant, Authority!setPolicy, Authority!setAgentStatus,
     Authority!delegate, Authority!revokeDelegation, Authority!registerCredentialBinding,
     Authority!revokeCredentialBinding, Authority!OnlyControl
<1>0. /\ PeopleTyped /\ GrantsTyped /\ PolicyTyped /\ ControlTyped /\ AgentTyped
      /\ ProposalTyped /\ ApprovalsTyped
  BY TypeParts
<1>2. controls' \in 0..MaxControls
  BY <1>1, Numbers DEF Authority!requireManager
<1>3. Authority!ProvenancePast'
  BY <1>1, ProvenanceKept
<1> SUFFICES GrantsTyped' /\ PolicyTyped' /\ ControlTyped' /\ AgentTyped'
  <2>1. PeopleTyped' /\ ProposalTyped' /\ ApprovalsTyped'
    BY <1>0, <1>1, TypesKept DEF provenanceVars
  <2> QED
    BY <1>3, <2>1, TypeAfter
<1>4. ASSUME NEW h \in Humans, NEW c \in Authority!Capabilities, Authority!setResourceGrant(m, h, c)
      PROVE  GrantsTyped' /\ PolicyTyped' /\ ControlTyped' /\ AgentTyped'
  <2>1. PolicyTyped' /\ ControlTyped' /\ AgentTyped'
    BY <1>0, <1>2, <1>4, TypesKept DEF Authority!setResourceGrant, ControlTyped
  <2>2. ASSUME NEW n \in 1..MaxPeriod,
               \/ grants' = [grants EXCEPT ![h][n] = @ \cup {c}]
               \/ grants' = [grants EXCEPT ![h][n] = @ \ {c}]
        PROVE  GrantsTyped'
    <3>1. PICK C : C = Authority!Capabilities
      OBVIOUS
    <3>2. c \in C /\ grants \in [Humans -> [1..MaxPeriod -> SUBSET C]]
      BY <1>0, <3>1 DEF GrantsTyped
    <3>3. PICK before : before = grants[h]
      OBVIOUS
    <3>4. before \in [1..MaxPeriod -> SUBSET C] /\ before[n] \in SUBSET C
      BY <3>2, <3>3
    <3>5. PICK set \in {before[n] \cup {c}, before[n] \ {c}} :
              grants' = [grants EXCEPT ![h] = [before EXCEPT ![n] = set]]
      BY <2>2, <3>3
    <3>6. [before EXCEPT ![n] = set] \in [1..MaxPeriod -> SUBSET C]
      BY <3>2, <3>4
    <3>7. grants' \in [Humans -> [1..MaxPeriod -> SUBSET C]]
      BY <3>2, <3>5, <3>6
    <3> QED
      BY <3>1, <3>7 DEF GrantsTyped
  <2>3. member[h] # 0 => member[h] \in 1..MaxPeriod
    BY Numbers
  <2>4. 1..periods[h] \subseteq 1..MaxPeriod
    BY Numbers
  <2> QED
    BY <1>4, <2>1, <2>2, <2>3, <2>4 DEF Authority!setResourceGrant
<1>5. CASE Authority!setPolicy(m)
  <2>1. policy.version + 1 \in 1..MaxPolicy
    BY <1>5, Numbers DEF Authority!setPolicy
  <2>2. PolicyTyped'
    BY <1>5, <2>1 DEF Authority!setPolicy, PolicyTyped
  <2> QED
    BY <1>0, <1>2, <1>5, <2>2, TypesKept DEF Authority!setPolicy, ControlTyped
<1>6. CASE Authority!setAgentStatus(m)
  <2>1. AgentTyped' /\ ControlTyped'
    BY <1>0, <1>2, <1>6 DEF Authority!setAgentStatus, AgentTyped, ControlTyped
  <2> QED
    BY <1>0, <1>6, <2>1, TypesKept DEF Authority!setAgentStatus
<1>7. CASE Authority!delegate(m)
  <2>1. delegation.serial + 1 \in 0..MaxSerial /\ member[m] \in 0..MaxPeriod
    BY <1>7, Numbers DEF Authority!delegate
  <2>2. PICK rights \in SUBSET Authority!Delegable :
            delegation' = [serial |-> delegation.serial + 1, issuer |-> m,
                           period |-> member[m], rights |-> rights, live |-> TRUE]
    BY <1>7 DEF Authority!delegate
  <2>3. AgentTyped'
    BY <1>0, <1>7, <2>1, <2>2 DEF Authority!delegate, AgentTyped
  <2> QED
    BY <1>0, <1>2, <1>7, <2>3, TypesKept DEF Authority!delegate, ControlTyped
<1>8. CASE Authority!revokeDelegation(m)
  <2>1. AgentTyped'
    BY <1>0, <1>8 DEF Authority!revokeDelegation, AgentTyped
  <2> QED
    BY <1>0, <1>2, <1>8, <2>1, TypesKept DEF Authority!revokeDelegation, ControlTyped
<1>9. CASE Authority!registerCredentialBinding(m)
  <2>1. AgentTyped'
    BY <1>0, <1>9 DEF Authority!registerCredentialBinding, AgentTyped
  <2> QED
    BY <1>0, <1>2, <1>9, <2>1, TypesKept DEF Authority!registerCredentialBinding, ControlTyped
<1>10. CASE Authority!revokeCredentialBinding(m)
  <2>1. AgentTyped'
    BY <1>0, <1>10 DEF Authority!revokeCredentialBinding, AgentTyped
  <2> QED
    BY <1>0, <1>2, <1>10, <2>1, TypesKept DEF Authority!revokeCredentialBinding, ControlTyped
<1> QED
  BY <1>4, <1>5, <1>6, <1>7, <1>8, <1>9, <1>10

\* A new period is one nobody's provenance names.
LEMMA JoinStep ==
    ASSUME Authority!AuthorityKept, NEW m \in Humans, NEW h \in Humans,
           Authority!addMembership(m, h)
    PROVE  Authority!AuthorityKept'
<1> USE DEF Authority!AuthorityKept
<1>1. /\ member[h] = 0 /\ periods[h] < MaxPeriod /\ controls' \in 0..MaxControls
      /\ UNCHANGED <<grants, policy, agentStatus, delegation, credential, lapsed, proposal,
                     approvals, acquired>>
  BY Numbers DEF Authority!addMembership, Authority!requireManager, Authority!OnlyControl
<1>2. periods[h] + 1 \in 0..MaxPeriod /\ periods[h] \in Nat
  BY <1>1, Numbers
<1>3. /\ periods' \in [Humans -> 0..MaxPeriod] /\ member' \in [Humans -> 0..MaxPeriod]
      /\ periods'[h] = periods[h] + 1 /\ member'[h] = periods[h] + 1
      /\ \A g \in Humans \ {h} : periods'[g] = periods[g] /\ member'[g] = member[g]
  BY <1>2, TypeParts DEF Authority!addMembership, PeopleTyped
<1>4. Authority!TypeOK'
  <2>1. PeopleTyped' /\ ControlTyped'
    BY <1>1, <1>3, TypeParts DEF PeopleTyped, ControlTyped
  <2> QED
    BY <1>1, <2>1, TypeParts, TypesKept, TypeAfter
<1>5. \A a \in approvals : a.actor \in Humans /\ a.period \in Nat
  BY ApprovalFacts
<1>6. /\ \A g \in Humans : member'[g] <= periods'[g]
      /\ \A a \in approvals : a.period <= periods'[a.actor]
      /\ \A a \in approvals : a.actor \in lapsed => member'[a.actor] # a.period
  <2>1. \A g \in Humans : member[g] \in Nat /\ periods[g] \in Nat
    BY Numbers
  <2>2. \A g \in Humans : member'[g] <= periods'[g]
    BY <1>2, <1>3, <2>1 DEF Authority!ProvenancePast
  <2>3. ASSUME NEW a \in approvals
        PROVE  a.period <= periods'[a.actor] /\ (a.actor \in lapsed => member'[a.actor] # a.period)
    <3>1. a.period <= periods[a.actor] /\ (a.actor \in lapsed => member[a.actor] # a.period)
      BY DEF Authority!ProvenancePast
    <3>2. CASE a.actor = h
      BY <1>2, <1>3, <1>5, <3>1, <3>2
    <3>3. CASE a.actor # h
      BY <1>3, <1>5, <3>1, <3>3
    <3> QED
      BY <3>2, <3>3
  <2> QED
    BY <2>2, <2>3
<1>7. /\ proposal.phase # "none" => proposal.period \in 1..periods'[proposal.of]
      /\ proposal.of \in lapsed => member'[proposal.of] # proposal.period
  <2>1. CASE proposal.phase = "none"
    BY <2>1 DEF Authority!ProvenancePast
  <2>2. CASE proposal.phase # "none"
    <3>1. proposal.of \in Humans /\ proposal.period \in 1..periods[proposal.of]
          /\ periods[proposal.of] \in Nat
      BY <2>2, Numbers DEF Authority!ProvenancePast
    <3>2. CASE proposal.of = h
      BY <1>2, <1>3, <3>1, <3>2
    <3>3. CASE proposal.of # h
      BY <1>3, <3>1, <3>3 DEF Authority!ProvenancePast
    <3> QED
      BY <3>2, <3>3
  <2> QED
    BY <2>1, <2>2
<1>8. Authority!ProvenancePast'
  BY <1>1, <1>6, <1>7 DEF Authority!ProvenancePast, Authority!NoProposal
<1> QED
  BY <1>4, <1>8

\* Whoever leaves is in no period.
LEMMA LeaveStep ==
    ASSUME Authority!AuthorityKept, NEW m \in Humans, NEW h \in Humans,
           Authority!revokeMembership(m, h)
    PROVE  Authority!AuthorityKept'
<1> USE DEF Authority!AuthorityKept
<1>1. /\ controls' \in 0..MaxControls
      /\ UNCHANGED <<periods, grants, policy, agentStatus, delegation, credential, proposal,
                     approvals, acquired>>
      /\ \/ lapsed' = lapsed
         \/ lapsed' = lapsed \cup {h} /\ (h = proposal.of \/ \E a \in approvals : a.actor = h)
      /\ (h = proposal.of \/ \E a \in approvals : a.actor = h) => lapsed' = lapsed \cup {h}
  BY Numbers DEF Authority!revokeMembership, Authority!requireManager, Authority!OnlyControl
<1>2. /\ member' \in [Humans -> 0..MaxPeriod] /\ member'[h] = 0
      /\ \A g \in Humans \ {h} : member'[g] = member[g]
  BY TypeParts, Numbers DEF Authority!revokeMembership, PeopleTyped
<1>3. Authority!TypeOK'
  <2>1. PeopleTyped' /\ ControlTyped'
    BY <1>1, <1>2, TypeParts DEF PeopleTyped, ControlTyped
  <2> QED
    BY <1>1, <2>1, TypeParts, TypesKept, TypeAfter
<1>4. \A a \in approvals : a.actor \in Humans /\ a.period \in Nat \ {0}
  BY ApprovalFacts
<1>5. \A g \in Humans : member'[g] <= periods[g]
  BY <1>2, Numbers DEF Authority!ProvenancePast
<1>6. \A a \in approvals : a.actor \in lapsed' => member'[a.actor] # a.period
  BY <1>1, <1>2, <1>4 DEF Authority!ProvenancePast
<1>7. proposal.of \in lapsed' => member'[proposal.of] # proposal.period
  <2>1. CASE proposal.phase = "none"
    <3>1. proposal.of \notin Humans /\ lapsed' \subseteq Humans
      BY <1>1, <2>1, TypeParts DEF Authority!ProvenancePast, Authority!NoProposal,
         Authority!GovernanceConstants, PeopleTyped
    <3> QED
      BY <3>1
  <2>2. CASE proposal.phase # "none"
    <3>1. proposal.of \in Humans /\ proposal.period \in Nat \ {0}
      BY <2>2, Numbers DEF Authority!ProvenancePast
    <3> QED
      BY <1>1, <1>2, <3>1 DEF Authority!ProvenancePast
  <2> QED
    BY <2>1, <2>2
<1>8. proposal.phase = "none" => lapsed' = {}
  <2>1. proposal.phase = "none" => proposal.of # h /\ approvals = {} /\ lapsed = {}
    BY DEF Authority!ProvenancePast, Authority!NoProposal, Authority!GovernanceConstants
  <2> QED
    BY <1>1, <2>1
<1>9. Authority!ProvenancePast'
  BY <1>1, <1>5, <1>6, <1>7, <1>8 DEF Authority!ProvenancePast, Authority!NoProposal
<1> QED
  BY <1>3, <1>9

\* The numbers a proposal and an approval record.
LEMMA CurrentNumbers ==
    ASSUME Authority!TypeOK, NEW h \in Humans
    PROVE  /\ member[h] \in 0..MaxPeriod /\ periods[h] \in 0..MaxPeriod
           /\ MaxPeriod \in Nat /\ MaxPolicy \in Nat
           /\ policy.version \in 1..MaxPolicy /\ policy.version \in 0..MaxPolicy
<1>1. member[h] \in 0..MaxPeriod /\ periods[h] \in 0..MaxPeriod
  BY DEF Authority!TypeOK
<1>2. MaxPeriod \in Nat /\ MaxPolicy \in Nat
  BY DEF Authority!GovernanceConstants
<1>3. policy.version \in 1..MaxPolicy
  BY DEF Authority!TypeOK
<1> QED
  BY <1>1, <1>2, <1>3

\* createProposal names the current period of whoever answers for it.
LEMMA MakeProposalStep ==
    ASSUME Authority!AuthorityKept, NEW x \in Authority!Principals, Authority!createProposal(x)
    PROVE  Authority!AuthorityKept'
<1> USE DEF Authority!AuthorityKept
<1>1. PICK of : of = IF x \in Humans THEN x ELSE delegation.issuer
  OBVIOUS
<1>2. PICK serial : serial = IF x \in Humans THEN 0 ELSE delegation.serial
  OBVIOUS
<1>3. of \in Humans /\ serial \in 0..MaxSerial /\ member[of] # 0 /\ (x = Agent => serial # 0)
  <2>1. CASE x \in Humans
    BY <1>1, <1>2, <2>1 DEF Authority!createProposal, Authority!authorize, Authority!currentGrant,
       Authority!GovernanceConstants
  <2>2. CASE x \notin Humans
    BY <1>1, <1>2, <2>2 DEF Authority!createProposal, Authority!authorize, Authority!currentGrant,
       Authority!resolveCredentialPrincipal, Authority!currentDelegation, Authority!TypeOK
  <2> QED
    BY <2>1, <2>2
<1>4. /\ proposal' = [by |-> x, of |-> of, period |-> member[of], policy |-> policy.version,
                      serial |-> serial, phase |-> "proposed"]
      /\ UNCHANGED <<member, periods, grants, policy, agentStatus, delegation, credential,
                     controls, approvals, acquired, lapsed>>
      /\ proposal.phase = "none"
  BY <1>1, <1>2 DEF Authority!createProposal, Authority!NoControl
<1>5. /\ member[of] \in 1..MaxPeriod /\ member[of] \in 0..MaxPeriod
      /\ member[of] \in 1..periods[of] /\ policy.version \in 0..MaxPolicy
  <2>1. member[of] <= periods[of]
    BY <1>3 DEF Authority!ProvenancePast
  <2> QED
    BY <1>3, <2>1, CurrentNumbers
<1>6. Authority!TypeOK'
  BY <1>3, <1>4, <1>5 DEF Authority!TypeOK
<1>7. approvals = {} /\ lapsed = {} /\ acquired.approvals = {}
  BY <1>4 DEF Authority!ProvenancePast
<1>8. Authority!ProvenancePast'
  BY <1>3, <1>4, <1>5, <1>7 DEF Authority!ProvenancePast
<1> QED
  BY <1>6, <1>8

\* createApproval: whoever left since proposing or approving adds no approval.
LEMMA ApproveStep ==
    ASSUME Authority!AuthorityKept, NEW h \in Humans, Authority!createApproval(h)
    PROVE  Authority!AuthorityKept'
<1> USE DEF Authority!AuthorityKept
<1>1. PICK new : new = [actor |-> h, period |-> member[h], policy |-> policy.version]
  OBVIOUS
<1>2. /\ approvals' = approvals \cup {new} /\ proposal.phase = "proposed"
      /\ UNCHANGED <<member, periods, grants, policy, agentStatus, delegation, credential,
                     controls, proposal, acquired, lapsed>>
      /\ member[h] # 0 /\ member[proposal.of] = proposal.period
      /\ ~\E a \in approvals : a.actor = h
  BY <1>1 DEF Authority!createApproval, Authority!NoControl, Authority!currentGrant,
     Authority!proposalOriginAuthorityCurrent, Authority!requesterMembershipCurrent
<1>3. member[h] \in 1..MaxPeriod /\ member[h] <= periods[h] /\ policy.version \in 1..MaxPolicy
  <2>1. member[h] <= periods[h]
    BY DEF Authority!ProvenancePast
  <2> QED
    BY <1>2, <2>1, CurrentNumbers
<1>4. new \in Authority!Approvals /\ new.actor = h /\ new.period = member[h]
  BY <1>1, <1>3 DEF Authority!Approvals
<1>5. Authority!TypeOK'
  BY <1>2, <1>4 DEF Authority!TypeOK
<1>6. h \notin lapsed
  BY <1>2 DEF Authority!ProvenancePast
<1>7. Authority!ProvenancePast'
  BY <1>2, <1>3, <1>4, <1>6 DEF Authority!ProvenancePast
<1> QED
  BY <1>5, <1>7

\* Discarding, acquiring and dispatching change the phase of the proposal.
LEMMA ProposalPhaseStep ==
    ASSUME Authority!AuthorityKept,
           \/ \E h \in Humans : Authority!discardProposal(h)
           \/ \E x \in Authority!Principals : Authority!acquireProposalExecution(x)
           \/ Authority!Dispatch
    PROVE  Authority!AuthorityKept'
<1> USE DEF Authority!AuthorityKept
<1>1. /\ UNCHANGED <<member, periods, grants, policy, agentStatus, delegation, credential,
                     controls, lapsed>>
      /\ proposal.phase \in {"proposed", "acquired"}
  BY DEF Authority!discardProposal, Authority!acquireProposalExecution, Authority!Dispatch,
     Authority!NoControl
<1>2. ASSUME NEW to \in {"superseded", "acquired", "dispatched", "refused"},
             proposal' = [proposal EXCEPT !.phase = to]
      PROVE  /\ proposal' \in [by : Authority!Principals \cup {Nobody}, of : Humans \cup {Nobody},
                     period : 0..MaxPeriod, serial : 0..MaxSerial, policy : 0..MaxPolicy,
                     phase : {"none", "proposed", "superseded", "acquired", "dispatched", "refused"}]
             /\ proposal'.phase = to /\ proposal'.of = proposal.of /\ proposal'.by = proposal.by
             /\ proposal'.period = proposal.period /\ proposal'.serial = proposal.serial
  BY <1>2 DEF Authority!TypeOK
<1>3. ASSUME NEW h \in Humans, Authority!discardProposal(h) PROVE Authority!AuthorityKept'
  <2>1. /\ proposal' = [proposal EXCEPT !.phase = "superseded"] /\ approvals' = {}
        /\ acquired' = acquired /\ proposal.phase = "proposed"
    BY <1>3 DEF Authority!discardProposal
  <2>2. Authority!TypeOK'
    BY <1>1, <1>2, <2>1 DEF Authority!TypeOK
  <2>3. Authority!ProvenancePast'
    BY <1>1, <1>2, <2>1 DEF Authority!ProvenancePast
  <2> QED
    BY <2>2, <2>3
<1>4. ASSUME NEW x \in Authority!Principals, Authority!acquireProposalExecution(x)
      PROVE  Authority!AuthorityKept'
  <2>1. PICK used \in SUBSET approvals : acquired' = [executor |-> x, approvals |-> used]
    BY <1>4 DEF Authority!acquireProposalExecution
  <2>2. /\ proposal' = [proposal EXCEPT !.phase = "acquired"] /\ approvals' = approvals
        /\ proposal.phase = "proposed"
    BY <1>4 DEF Authority!acquireProposalExecution
  <2>3. Authority!TypeOK'
    BY <1>1, <1>2, <2>1, <2>2 DEF Authority!TypeOK
  <2>4. acquired'.approvals = used
    BY <2>1
  <2>5. Authority!ProvenancePast'
    BY <1>1, <1>2, <2>2, <2>4 DEF Authority!ProvenancePast
  <2> QED
    BY <2>3, <2>5
<1>5. CASE Authority!Dispatch
  <2>1. PICK to \in {"dispatched", "refused"} : proposal' = [proposal EXCEPT !.phase = to]
    BY <1>5 DEF Authority!Dispatch
  <2>2. UNCHANGED <<approvals, acquired>> /\ proposal.phase = "acquired"
    BY <1>5 DEF Authority!Dispatch
  <2>3. Authority!TypeOK'
    BY <1>1, <1>2, <2>1, <2>2 DEF Authority!TypeOK
  <2>4. Authority!ProvenancePast'
    BY <1>1, <1>2, <2>1, <2>2 DEF Authority!ProvenancePast
  <2> QED
    BY <2>3, <2>4
<1> QED
  BY <1>3, <1>4, <1>5

LEMMA AuthorityStep ==
    ASSUME Authority!AuthorityKept, [Authority!Next]_authorityVars
    PROVE  Authority!AuthorityKept'
<1>1. CASE UNCHANGED authorityVars
  <2>1. Authority!TypeOK'
    BY <1>1 DEF Authority!AuthorityKept, Authority!TypeOK, authorityVars
  <2>2. Authority!ProvenancePast'
    BY <1>1, ProvenanceKept DEF Authority!AuthorityKept, authorityVars, provenanceVars
  <2> QED
    BY <2>1, <2>2 DEF Authority!AuthorityKept
<1> QED
  BY <1>1, ControlStep, JoinStep, LeaveStep, MakeProposalStep, ApproveStep, ProposalPhaseStep
     DEF Authority!Next

\* Approvals that all count, count once for a human.
LEMMA OneEach ==
    ASSUME Authority!TypeOK, \A a \in acquired.approvals : Authority!eligible(a)
    PROVE  \A a, b \in acquired.approvals : a.actor = b.actor => a = b
<1>1. \A a \in acquired.approvals : a.policy = policy.version /\ a.period = member[a.actor]
  BY DEF Authority!eligible
<1>2. \A a \in acquired.approvals : a = [actor |-> a.actor, period |-> a.period, policy |-> a.policy]
  BY ApprovalFacts DEF Authority!Approvals
<1> QED
  BY <1>1, <1>2

\* Different approvals that all count were given by different people.
LEMMA DifferentBackers ==
    ASSUME Authority!TypeOK, \A a \in acquired.approvals : Authority!eligible(a)
    PROVE  Authority!Cardinality(acquired.approvals)
               <= Authority!Cardinality({a.actor : a \in acquired.approvals})
<1>1. PICK A : A = acquired.approvals
  OBVIOUS
<1>2. PICK B : B = {a.actor : a \in A}
  OBVIOUS
<1>3. \A a \in A : a.actor \in Humans
  BY <1>1, ApprovalFacts DEF Authority!Approvals
<1>4. \A a, b \in A : a.actor = b.actor => a = b
  BY <1>1, OneEach
<1>5. B \subseteq Humans /\ IsFiniteSet(Humans)
  BY <1>2, <1>3 DEF Authority!GovernanceConstants, Authority!IsFiniteSet, IsFiniteSet
<1>6. IsFiniteSet(B)
  BY <1>5, FS_Subset
<1>7. PICK f : f = [a \in A |-> a.actor]
  OBVIOUS
<1>8. f \in Injection(A, B)
  BY <1>2, <1>4, <1>7 DEF Injection, IsInjective
<1>9. Cardinality(A) <= Cardinality(B)
  BY <1>6, <1>8, FS_Injection
<1> QED
  BY <1>1, <1>2, <1>9, SameAuthorityCount

\* The fence in front of the write asks about everybody the write rests on.
LEMMA BackedBefore ==
    ASSUME Authority!AuthorityKept, [Authority!Next]_authorityVars
    PROVE  Authority!BackedStep
<1> SUFFICES ASSUME proposal.phase # "dispatched", proposal'.phase = "dispatched"
             PROVE  Authority!BackedStep
  BY DEF Authority!BackedStep, Authority!BackedThroughout, Authority!AgentsWithinIssuer
<1> USE DEF Authority!AuthorityKept
<1>1. Authority!Dispatch
  <2>1. proposal' # proposal
    OBVIOUS
  <2>2. ASSUME NEW x \in Authority!Principals, Authority!createProposal(x) PROVE FALSE
    BY <2>2 DEF Authority!createProposal
  <2>3. ASSUME NEW h \in Humans, Authority!discardProposal(h) PROVE FALSE
    BY <2>3 DEF Authority!discardProposal, Authority!TypeOK
  <2>4. ASSUME NEW x \in Authority!Principals, Authority!acquireProposalExecution(x) PROVE FALSE
    BY <2>4 DEF Authority!acquireProposalExecution, Authority!TypeOK
  <2> QED
    BY <2>1, <2>2, <2>3, <2>4 DEF Authority!Next, authorityVars, Authority!setResourceGrant,
       Authority!addMembership, Authority!revokeMembership, Authority!setPolicy,
       Authority!setAgentStatus, Authority!delegate, Authority!revokeDelegation,
       Authority!registerCredentialBinding, Authority!revokeCredentialBinding,
       Authority!createApproval, Authority!OnlyControl
<1>2. Authority!validateAcquired /\ proposal.phase = "acquired"
  BY <1>1 DEF Authority!Dispatch, Authority!TypeOK
<1>3. /\ \A a \in acquired.approvals : Authority!eligible(a)
      /\ Authority!Cardinality(acquired.approvals) >= policy.required
      /\ Authority!MayExecute(acquired.executor)
  BY <1>2 DEF Authority!validateAcquired
<1>4. Authority!Cardinality({a.actor : a \in acquired.approvals}) >= policy.required
  <2>1. PICK A, B : A = acquired.approvals /\ B = {a.actor : a \in A}
    OBVIOUS
  <2>2. B \subseteq Humans /\ IsFiniteSet(Humans)
    BY <2>1, ApprovalFacts DEF Authority!Approvals, Authority!GovernanceConstants,
       Authority!IsFiniteSet, IsFiniteSet
  <2>3. Authority!Cardinality(B) \in Nat
    BY <2>2, FS_Subset, FS_CardinalityType, SameAuthorityCount
  <2>4. Authority!Cardinality(A) <= Authority!Cardinality(B)
    BY <1>3, <2>1, DifferentBackers
  <2>5. Authority!Cardinality(A) \in Nat
    <3>1. \A a, b \in A : a.actor = b.actor => a = b
      BY <1>3, <2>1, OneEach
    <3>2. [a \in A |-> a.actor] \in Injection(A, B)
      BY <2>1, <3>1 DEF Injection, IsInjective
    <3>3. IsFiniteSet(B) /\ IsFiniteSet(A)
      BY <2>2, <3>2, FS_Subset, FS_Injection
    <3> QED
      BY <3>3, FS_CardinalityType, SameAuthorityCount
  <2>6. policy.required \in Nat
    BY SomeHuman DEF Authority!TypeOK
  <2> QED
    BY <1>3, <2>1, <2>3, <2>4, <2>5, <2>6
<1>5. ASSUME NEW a \in acquired.approvals PROVE a.actor \notin lapsed /\ Authority!currentGrant(a.actor, "approve")
  BY <1>3 DEF Authority!eligible, Authority!ProvenancePast
<1>6. proposal.of \notin lapsed
  BY <1>3 DEF Authority!MayExecute, Authority!proposalOriginAuthorityCurrent,
     Authority!requesterMembershipCurrent, Authority!ProvenancePast
<1>7. Authority!BackedThroughout
  BY <1>4, <1>5, <1>6 DEF Authority!BackedThroughout
<1>8. Authority!AgentsWithinIssuer
  <2>1. ASSUME acquired.executor = Agent
        PROVE  /\ credential.live /\ delegation.live
               /\ "execute" \in delegation.rights
               /\ "execute" \in grants[delegation.issuer][member[delegation.issuer]]
    BY <1>3, <2>1 DEF Authority!MayExecute, Authority!authorize, Authority!GovernanceConstants,
       Authority!resolveCredentialPrincipal, Authority!currentDelegation, Authority!currentGrant
  <2>2. ASSUME proposal.by = Agent
        PROVE  delegation.serial = proposal.serial /\ delegation.live
    BY <1>2, <1>3, <2>2 DEF Authority!ProvenancePast, Authority!MayExecute,
       Authority!proposalOriginAuthorityCurrent, Authority!requesterMembershipCurrent,
       Authority!currentDelegation
  <2> QED
    BY <2>1, <2>2 DEF Authority!AgentsWithinIssuer
<1> QED
  BY <1>7, <1>8 DEF Authority!BackedStep

------------------------------------------------------------------------------
USE AttentionInstance

\* Findings. A nonempty set of numbers up to a bound has a greatest one.
LEMMA Greatest ==
    ASSUME NEW n \in Nat, NEW S \in SUBSET (1..n), S # {}
    PROVE  \E f \in S : \A g \in S : g <= f
<1>1. PICK T : T = {n - x : x \in S}
  OBVIOUS
<1>2. T \subseteq Nat /\ T # {}
  <2>1. \A x \in S : x \in 1..n /\ n - x \in Nat
    OBVIOUS
  <2>2. PICK x \in S : TRUE
    OBVIOUS
  <2>3. n - x \in T
    BY <1>1, <2>2
  <2> QED
    BY <1>1, <2>1, <2>3
<1>3. \E y \in T : \A z \in T : ~(<<z, y>> \in OpToRel(<, Nat))
  BY <1>2, WFMin, NatLessThanWellFounded
<1>4. PICK y \in T : \A z \in T : ~(z < y)
  BY <1>2, <1>3 DEF OpToRel
<1>5. PICK f \in S : y = n - f
  BY <1>1
<1>6. ASSUME NEW g \in S PROVE g <= f
  <2>1. n - g \in T
    BY <1>1
  <2>2. ~(n - g < n - f)
    BY <1>4, <1>5, <2>1
  <2> QED
    BY <2>2
<1> QED
  BY <1>6

\* What a step finds is one of the findings about its transfer.
LEMMA FoundIsListed ==
    ASSUME Attention!TypeOK, NEW t, Attention!existing(t) # 0
    PROVE  Attention!existing(t) \in DOMAIN findings /\ findings[Attention!existing(t)].transfer = t
<1>1. Attention!Listed(t) \subseteq DOMAIN findings
  BY DEF Attention!Listed, Attention!listFindings, Attention!Newest, Attention!Kept
<1>2. Len(findings) \in Nat /\ DOMAIN findings = 1..Len(findings)
  BY DEF Attention!TypeOK
<1>3. Attention!Listed(t) # {}
  BY DEF Attention!existing
<1>4. \E f \in Attention!Listed(t) : \A g \in Attention!Listed(t) : g <= f
  BY <1>1, <1>2, <1>3, Greatest
<1>5. Attention!existing(t) \in Attention!Listed(t)
  <2>1. PICK L : L = Attention!Listed(t)
    OBVIOUS
  <2>2. Attention!existing(t) = CHOOSE f \in L : \A g \in L : g <= f
    BY <1>3, <2>1 DEF Attention!existing
  <2> QED
    BY <1>4, <2>1, <2>2
<1> QED
  BY <1>1, <1>5 DEF Attention!Listed

\* As long as the same findings are kept, the same ones are listed.
LEMMA SameListed ==
    ASSUME Attention!Kept' = Attention!Kept,
           \A f \in Attention!Kept : findings'[f].transfer = findings[f].transfer,
           NEW t
    PROVE  Attention!existing(t)' = Attention!existing(t)
<1>1. Attention!listFindings' = Attention!listFindings
  BY DEF Attention!listFindings, Attention!Newest
<1>2. Attention!listFindings \subseteq Attention!Kept
  BY DEF Attention!listFindings, Attention!Newest
<1>3. Attention!Listed(t)' = Attention!Listed(t)
  BY <1>1, <1>2 DEF Attention!Listed
<1> QED
  BY <1>3 DEF Attention!existing

\* A finding whose status moves on: the other findings stay as they are.
Revised(f, to) ==
    /\ findings' \in Seq(Attention!Rows) /\ Len(findings') = Len(findings)
    /\ findings'[f].status = to /\ findings'[f].transfer = findings[f].transfer
    /\ \A g \in DOMAIN findings \ {f} : findings'[g] = findings[g]

LEMMA IsSequence ==
    ASSUME NEW S, NEW n \in Nat, NEW s \in [1..n -> S]
    PROVE  s \in Seq(S) /\ Len(s) = n
OBVIOUS

LEMMA RowRevised ==
    ASSUME Attention!TypeOK, NEW f \in DOMAIN findings, findings[f].version < MaxVersion,
           NEW to \in Attention!Decisions \cup {"open", "expired", "deleted"},
           findings' = [findings EXCEPT ![f].status = to, ![f].version = @ + 1]
    PROVE  Revised(f, to)
<1>1. /\ findings \in Seq(Attention!Rows) /\ MaxVersion \in Nat
      /\ DOMAIN findings = 1..Len(findings) /\ Len(findings) \in Nat
  BY DEF Attention!TypeOK, Attention!FindingConstants
<1>2. findings[f] \in Attention!Rows
  BY <1>1
<1>3. PICK r : r = findings[f]
  OBVIOUS
<1>4. PICK q : q = [r EXCEPT !.status = to, !.version = @ + 1]
  OBVIOUS
<1>5. q \in Attention!Rows /\ q.status = to /\ q.transfer = r.transfer
  BY <1>1, <1>2, <1>3, <1>4 DEF Attention!Rows
<1>6. findings' = [findings EXCEPT ![f] = q]
  BY <1>3, <1>4
<1>7. findings \in [1..Len(findings) -> Attention!Rows]
  BY <1>1
<1>8. findings' \in [1..Len(findings) -> Attention!Rows] /\ findings'[f] = q
  BY <1>1, <1>5, <1>6, <1>7
<1>9. findings' \in Seq(Attention!Rows) /\ Len(findings') = Len(findings)
  <2>1. PICK n, R, h : n = Len(findings) /\ R = Attention!Rows /\ h = findings'
    OBVIOUS
  <2>2. n \in Nat /\ h \in [1..n -> R]
    BY <1>1, <1>8, <2>1
  <2>3. h \in Seq(R) /\ Len(h) = n
    BY <2>2, IsSequence
  <2> QED
    BY <2>1, <2>3
<1>10. \A g \in DOMAIN findings \ {f} : findings'[g] = findings[g]
  BY <1>6, <1>7
<1> QED
  BY <1>3, <1>5, <1>8, <1>9, <1>10 DEF Revised

\* Unless it is deleted by that, the same findings are kept.
LEMMA RevisedKeeps ==
    ASSUME Attention!TypeOK, NEW f \in DOMAIN findings, findings[f].status # "deleted",
           NEW to, to # "deleted", Revised(f, to)
    PROVE  /\ Attention!Kept' = Attention!Kept
           /\ DOMAIN findings' = DOMAIN findings
           /\ \A g \in DOMAIN findings : findings'[g].transfer = findings[g].transfer
           /\ \A t : Attention!existing(t)' = Attention!existing(t)
<1>1. DOMAIN findings' = DOMAIN findings
  BY DEF Revised, Attention!TypeOK
<1>2. Attention!Kept' = Attention!Kept
  BY <1>1 DEF Revised, Attention!Kept
<1>3. \A g \in DOMAIN findings : findings'[g].transfer = findings[g].transfer
  BY DEF Revised
<1>4. ASSUME NEW t PROVE Attention!existing(t)' = Attention!existing(t)
  BY <1>2, <1>3, SameListed DEF Attention!Kept
<1> QED
  BY <1>1, <1>2, <1>3, <1>4

LEMMA TransitionFacts ==
    ASSUME Attention!TypeOK, NEW f \in DOMAIN findings, NEW to \in Attention!Decisions,
           NEW v, Attention!transitionFinding(f, to, v)
    PROVE  \/ findings' = findings
           \/ /\ Revised(f, to) /\ findings[f].version = v
              /\ findings[f].status \notin {"superseded", "deleted"}
              /\ to = "corrected" => findings[f].status \in Attention!Open
<1> SUFFICES ASSUME findings' # findings
             PROVE  /\ Revised(f, to) /\ findings[f].version = v
                    /\ findings[f].status \notin {"superseded", "deleted"}
                    /\ to = "corrected" => findings[f].status \in Attention!Open
  OBVIOUS
<1>1. /\ to \in Attention!FINDING_TRANSITIONS(findings[f].status)
      /\ findings[f].version = v /\ v < MaxVersion
      /\ findings' = [findings EXCEPT ![f].status = to, ![f].version = @ + 1]
  BY DEF Attention!transitionFinding
<1>2. Revised(f, to)
  BY <1>1, RowRevised
<1>3. findings[f] \in Attention!Rows
  BY DEF Attention!TypeOK
<1>4. findings[f].status \in Attention!Decisions \cup {"open", "expired", "deleted"}
  BY <1>3 DEF Attention!Rows
<1> QED
  BY <1>1, <1>2, <1>4 DEF Attention!FINDING_TRANSITIONS, Attention!Open, Attention!Decisions

\* A step that leaves the findings alone.
LEMMA FindingsStill == ASSUME findings' = findings PROVE Attention!FindingStep
BY DEF Attention!FindingStep, Attention!ChangedKnowingly

\* One finding revised with knowledge, the rest as it was.
LEMMA RevisedStep ==
    ASSUME Attention!FindingsKept, NEW f \in DOMAIN findings, NEW to, to # "deleted",
           Revised(f, to), findings[f].status \notin {"superseded", "deleted"},
           Attention!ChangedKnowingly(f)
    PROVE  Attention!FindingStep
<1>1. DOMAIN findings' = DOMAIN findings
  BY RevisedKeeps DEF Attention!FindingsKept
<1>2. ASSUME NEW g \in DOMAIN findings
      PROVE  /\ Attention!ChangedKnowingly(g)
             /\ findings[g].status = "superseded" => findings'[g].status \in {"superseded", "deleted"}
             /\ findings[g].status = "deleted" => findings'[g].status = "deleted"
  <2>1. CASE g = f
    BY <2>1
  <2>2. CASE g # f
    <3>1. findings'[g] = findings[g]
      BY <2>2 DEF Revised
    <3> QED
      BY <3>1 DEF Attention!ChangedKnowingly
  <2> QED
    BY <2>1, <2>2
<1> QED
  BY <1>1, <1>2 DEF Attention!FindingStep

\* What a step and a page know stays true of findings that keep their transfers, when the
\* step stays or ends and pages stay or are left.
LEMMA KnownAfter ==
    ASSUME Attention!FindingsKept,
           findings' \in Seq(Attention!Rows), Len(findings') <= MaxFindings,
           DOMAIN findings \subseteq DOMAIN findings',
           \A g \in DOMAIN findings : findings'[g].transfer = findings[g].transfer,
           transfer' = transfer,
           \/ step' = None
           \/ /\ step' = step
              /\ \A t \in Transfers : Attention!existing(t) = 0 => Attention!existing(t)' = 0,
           seen' \in [People -> Attention!Pages \cup {None}],
           \A p \in People : seen'[p] # None => seen'[p].finding \in DOMAIN findings
    PROVE  Attention!FindingsKept'
<1>1. Attention!TypeOK'
  BY DEF Attention!FindingsKept, Attention!TypeOK
<1>2. ASSUME step' # None
      PROVE  /\ step'.settled => transfer'[step'.transfer] = "settled"
             /\ step'.found # 0 => /\ step'.found \in DOMAIN findings'
                                   /\ findings'[step'.found].transfer = step'.transfer
             /\ (step'.at = "write" /\ step'.found = 0) =>
                    Attention!existing(step.transfer)' = 0
  <2>1. step' = step /\ step.transfer \in Transfers
    BY <1>2 DEF Attention!FindingsKept, Attention!TypeOK, Attention!Steps
  <2> QED
    BY <1>2, <2>1 DEF Attention!FindingsKept, Attention!StepKnows
<1>3. Attention!StepKnows'
  BY <1>2 DEF Attention!StepKnows
<1> QED
  BY <1>1, <1>3 DEF Attention!FindingsKept

LEMMA TransferMoves ==
    ASSUME Attention!FindingsKept, NEW t \in Transfers,
           Attention!transferAction(t) \/ Attention!closeProposal(t)
    PROVE  Attention!FindingsKept' /\ Attention!FindingStep
<1> USE DEF Attention!FindingsKept
<1>1. findings' = findings /\ seen' = seen
  BY DEF Attention!transferAction, Attention!closeProposal
<1>2. \A u : Attention!existing(u)' = Attention!existing(u)
  BY <1>1 DEF Attention!existing, Attention!Listed, Attention!listFindings,
     Attention!Newest, Attention!Kept
<1>3. transfer' \in [Transfers -> {"active", "attention", "settled"}]
  BY DEF Attention!transferAction, Attention!closeProposal, Attention!TypeOK
<1>4. CASE Attention!transferAction(t)
  <2>1. PICK to \in {"attention", "settled"} :
          /\ transfer' = [transfer EXCEPT ![t] = to]
          /\ step' = [transfer |-> t, settled |-> to = "settled", at |-> "list",
                      found |-> 0, version |-> 0]
    BY <1>4 DEF Attention!transferAction
  <2>2. step' \in Attention!Steps
    BY <2>1 DEF Attention!Steps, Attention!FindingConstants
  <2>3. Attention!TypeOK'
    BY <1>1, <1>3, <2>2 DEF Attention!TypeOK
  <2>4. Attention!StepKnows'
    BY <1>1, <2>1 DEF Attention!StepKnows, Attention!TypeOK
  <2> QED
    BY <1>1, <2>3, <2>4, FindingsStill
<1>5. CASE Attention!closeProposal(t)
  <2>1. step' = step /\ transfer' = [transfer EXCEPT ![t] = "settled"]
    BY <1>5 DEF Attention!closeProposal
  <2>2. Attention!TypeOK'
    BY <1>1, <1>3, <2>1 DEF Attention!TypeOK
  <2>3. \A u \in Transfers : transfer[u] = "settled" => transfer'[u] = "settled"
    BY <2>1 DEF Attention!TypeOK
  <2>4. step # None => step.transfer \in Transfers
    BY DEF Attention!TypeOK, Attention!Steps
  <2>5. Attention!StepKnows'
    BY <1>1, <1>2, <2>1, <2>3, <2>4 DEF Attention!StepKnows
  <2> QED
    BY <1>1, <2>2, <2>5, FindingsStill
<1> QED
  BY <1>4, <1>5

LEMMA ListKnows ==
    ASSUME Attention!FindingsKept, Attention!List
    PROVE  Attention!FindingsKept' /\ Attention!FindingStep
<1> USE DEF Attention!FindingsKept
<1>1. PICK f : f = Attention!existing(step.transfer)
  OBVIOUS
<1>2. PICK v : v = IF f = 0 THEN 0 ELSE findings[f].version
  OBVIOUS
<1>3. /\ step # None /\ findings' = findings /\ seen' = seen /\ transfer' = transfer
      /\ step' = [step EXCEPT !.at = "write", !.found = f, !.version = v]
  BY <1>1, <1>2 DEF Attention!List
<1>4. \A u : Attention!existing(u)' = Attention!existing(u)
  BY <1>3 DEF Attention!existing, Attention!Listed, Attention!listFindings,
     Attention!Newest, Attention!Kept
<1>5. f # 0 => f \in DOMAIN findings /\ findings[f].transfer = step.transfer
  BY <1>1, FoundIsListed
<1>6. f \in 0..MaxFindings /\ v \in 0..MaxVersion
  <2>1. CASE f = 0
    BY <1>2, <2>1 DEF Attention!FindingConstants
  <2>2. CASE f # 0
    <3>1. findings[f] \in Attention!Rows /\ f \in 1..MaxFindings
      BY <1>5, <2>2 DEF Attention!TypeOK, Attention!FindingConstants
    <3> QED
      BY <1>2, <2>2, <3>1 DEF Attention!Rows, Attention!FindingConstants
  <2> QED
    BY <2>1, <2>2
<1>7. PICK s \in Attention!Steps : s = step
  BY <1>3 DEF Attention!TypeOK
<1>8. PICK q : q = [s EXCEPT !.at = "write", !.found = f, !.version = v]
  OBVIOUS
<1>9. /\ q \in Attention!Steps /\ q.found = f
      /\ q.transfer = s.transfer /\ q.settled = s.settled
  BY <1>6, <1>7, <1>8 DEF Attention!Steps
<1>10. step' = q
  BY <1>3, <1>7, <1>8
<1>11. Attention!TypeOK'
  BY <1>3, <1>9, <1>10 DEF Attention!TypeOK
<1>12. Attention!StepKnows'
  BY <1>1, <1>3, <1>4, <1>5, <1>7, <1>9, <1>10 DEF Attention!StepKnows
<1> QED
  BY <1>3, <1>11, <1>12, FindingsStill

\* The step creates a finding when it listed none, or corrects an open one it has seen.
LEMMA FindingWritten ==
    ASSUME Attention!FindingsKept, Attention!finding
    PROVE  Attention!FindingsKept' /\ Attention!FindingStep
<1> USE DEF Attention!FindingsKept
<1>1. /\ step # None /\ step.at = "write" /\ step' = None
      /\ transfer' = transfer /\ seen' = seen
  BY DEF Attention!finding
<1>2. /\ findings \in Seq(Attention!Rows) /\ Len(findings) <= MaxFindings
      /\ seen' \in [People -> Attention!Pages \cup {None}]
      /\ \A p \in People : seen'[p] # None => seen'[p].finding \in DOMAIN findings
      /\ step \in Attention!Steps
  BY <1>1 DEF Attention!TypeOK, Attention!StepKnows
<1>3. CASE findings' = findings
  BY <1>1, <1>2, <1>3, KnownAfter, FindingsStill
<1>4. CASE /\ ~step.settled /\ step.found = 0
           /\ Attention!createFinding(step.transfer)
  <2>1. PICK r : r = [transfer |-> step.transfer, status |-> "open", version |-> 1]
    OBVIOUS
  <2>2. r \in Attention!Rows /\ r.transfer = step.transfer
    BY <1>2, <2>1 DEF Attention!Rows, Attention!Steps, Attention!FindingConstants
  <2>3. findings' = Append(findings, r) /\ Len(findings) < MaxFindings
    BY <1>4, <2>1 DEF Attention!createFinding
  <2>4. /\ findings' \in Seq(Attention!Rows) /\ Len(findings') = Len(findings) + 1
        /\ DOMAIN findings = 1..Len(findings) /\ DOMAIN findings' = 1..(Len(findings) + 1)
        /\ \A g \in DOMAIN findings : findings'[g] = findings[g]
        /\ findings'[Len(findings) + 1] = r
    BY <1>2, <2>2, <2>3
  <2>5. Len(findings) \in Nat
    BY <1>2
  <2>6. Attention!FindingsKept'
    <3>1. Len(findings') <= MaxFindings /\ DOMAIN findings \subseteq DOMAIN findings'
      BY <2>3, <2>4, <2>5 DEF Attention!FindingConstants
    <3> QED
      BY <1>1, <1>2, <2>4, <3>1, KnownAfter
  <2>7. Attention!existing(step.transfer) = 0
    BY <1>1, <1>4 DEF Attention!StepKnows
  <2>8. \A g \in DOMAIN findings' \ DOMAIN findings : findings'[g].transfer = step.transfer
    BY <2>2, <2>4, <2>5
  <2>9. Attention!FindingStep
    BY <2>4, <2>7, <2>8 DEF Attention!FindingStep, Attention!ChangedKnowingly
  <2> QED
    BY <2>6, <2>9
<1>5. CASE /\ step.settled /\ step.found # 0 /\ findings' # findings
           /\ Attention!transitionFinding(step.found, "corrected", step.version)
  <2>1. PICK f : f = step.found
    OBVIOUS
  <2>2. /\ f \in DOMAIN findings /\ findings[f].transfer = step.transfer
        /\ transfer[step.transfer] = "settled"
    BY <1>1, <1>5, <2>1 DEF Attention!StepKnows
  <2>3. /\ Revised(f, "corrected") /\ findings[f].status \in Attention!Open
        /\ findings[f].status \notin {"superseded", "deleted"}
    BY <1>5, <2>1, <2>2, TransitionFacts DEF Attention!Decisions
  <2>4. Attention!ChangedKnowingly(f)
    BY <2>2, <2>3 DEF Attention!ChangedKnowingly, Revised
  <2>5. Attention!FindingStep
    BY <2>2, <2>3, <2>4, RevisedStep
  <2>6. Attention!FindingsKept'
    BY <1>1, <1>2, <2>2, <2>3, RevisedKeeps, KnownAfter DEF Revised
  <2> QED
    BY <2>5, <2>6
<1> QED
  BY <1>3, <1>4, <1>5 DEF Attention!finding

LEMMA PageShown ==
    ASSUME Attention!FindingsKept, NEW p \in People, Attention!Show(p)
    PROVE  Attention!FindingsKept' /\ Attention!FindingStep
<1> USE DEF Attention!FindingsKept
<1>1. PICK f \in DOMAIN findings :
        seen' = [seen EXCEPT ![p] = [finding |-> f, version |-> findings[f].version]]
  BY DEF Attention!Show
<1>2. findings' = findings /\ transfer' = transfer /\ step' = step
  BY DEF Attention!Show
<1>3. findings[f] \in Attention!Rows /\ f \in 1..MaxFindings
  BY DEF Attention!TypeOK, Attention!FindingConstants
<1>4. PICK q : q = [finding |-> f, version |-> findings[f].version]
  OBVIOUS
<1>5. q \in Attention!Pages /\ q.finding = f
  BY <1>3, <1>4 DEF Attention!Pages, Attention!Rows
<1>6. seen' \in [People -> Attention!Pages \cup {None}]
  BY <1>1, <1>4, <1>5 DEF Attention!TypeOK
<1>7. \A r \in People : seen'[r] # None => seen'[r].finding \in DOMAIN findings
  BY <1>1, <1>4, <1>5 DEF Attention!TypeOK, Attention!StepKnows
<1>8. \A u : Attention!existing(u)' = Attention!existing(u)
  BY <1>2 DEF Attention!existing, Attention!Listed, Attention!listFindings,
     Attention!Newest, Attention!Kept
<1>9. findings' \in Seq(Attention!Rows) /\ Len(findings') <= MaxFindings
  BY <1>2 DEF Attention!TypeOK
<1>10. Attention!FindingsKept'
  BY <1>2, <1>6, <1>7, <1>8, <1>9, KnownAfter
<1> QED
  BY <1>2, <1>10, FindingsStill

\* The version compared by the store is the version the page showed.
LEMMA PersonDecides ==
    ASSUME Attention!FindingsKept, NEW p \in People, Attention!Decide(p)
    PROVE  Attention!FindingsKept' /\ Attention!FindingStep
<1> USE DEF Attention!FindingsKept
<1>1. PICK f, v : f = seen[p].finding /\ v = seen[p].version
  OBVIOUS
<1>2. /\ seen[p] # None /\ transfer' = transfer /\ step' = step
      /\ seen' = [seen EXCEPT ![p] = None]
      /\ \E to \in Attention!Decisions : Attention!transitionFinding(f, to, v)
  BY <1>1 DEF Attention!Decide
<1>3. f \in DOMAIN findings
  BY <1>1, <1>2 DEF Attention!StepKnows
<1>4. seen[p] = [finding |-> f, version |-> v]
  BY <1>1, <1>2 DEF Attention!TypeOK, Attention!Pages
<1>5. /\ seen' \in [People -> Attention!Pages \cup {None}]
      /\ \A r \in People : seen'[r] # None => seen'[r].finding \in DOMAIN findings
      /\ findings \in Seq(Attention!Rows) /\ Len(findings) <= MaxFindings
  BY <1>2 DEF Attention!TypeOK, Attention!StepKnows
<1>6. CASE findings' = findings
  <2>1. \A u : Attention!existing(u)' = Attention!existing(u)
    BY <1>6 DEF Attention!existing, Attention!Listed, Attention!listFindings,
       Attention!Newest, Attention!Kept
  <2> QED
    BY <1>2, <1>5, <1>6, <2>1, KnownAfter, FindingsStill
<1>7. CASE findings' # findings
  <2>1. PICK to \in Attention!Decisions : Attention!transitionFinding(f, to, v)
    BY <1>2
  <2>2. /\ Revised(f, to) /\ findings[f].version = v
        /\ findings[f].status \notin {"superseded", "deleted"} /\ to # "deleted"
    BY <1>3, <1>7, <2>1, TransitionFacts DEF Attention!Decisions
  <2>3. Attention!ChangedKnowingly(f)
    BY <1>4, <2>2 DEF Attention!ChangedKnowingly
  <2>4. Attention!FindingStep
    BY <1>3, <2>2, <2>3, RevisedStep
  <2>5. Attention!FindingsKept'
    BY <1>2, <1>3, <1>5, <2>2, RevisedKeeps, KnownAfter DEF Revised
  <2> QED
    BY <2>4, <2>5
<1> QED
  BY <1>6, <1>7

LEMMA FindingExpires ==
    ASSUME Attention!FindingsKept, NEW f, Attention!expireFinding(f)
    PROVE  Attention!FindingsKept' /\ Attention!FindingStep
<1> USE DEF Attention!FindingsKept
<1>1. /\ f \in DOMAIN findings /\ findings[f].status \notin {"superseded", "deleted"}
      /\ findings[f].version < MaxVersion
      /\ findings' = [findings EXCEPT ![f].status = "expired", ![f].version = @ + 1]
      /\ transfer' = transfer /\ step' = step /\ seen' = seen
  BY DEF Attention!expireFinding
<1>2. Revised(f, "expired")
  BY <1>1, RowRevised
<1>3. Attention!FindingStep
  BY <1>1, <1>2, RevisedStep DEF Attention!ChangedKnowingly, Revised
<1>4. /\ seen' \in [People -> Attention!Pages \cup {None}]
      /\ \A r \in People : seen'[r] # None => seen'[r].finding \in DOMAIN findings
      /\ findings \in Seq(Attention!Rows) /\ Len(findings) <= MaxFindings
  BY <1>1 DEF Attention!TypeOK, Attention!StepKnows
<1>5. Attention!FindingsKept'
  BY <1>1, <1>2, <1>4, RevisedKeeps, KnownAfter DEF Revised
<1> QED
  BY <1>3, <1>5

\* Once the findings are deleted there is none to list.
LEMMA FindingsDeleted ==
    ASSUME Attention!FindingsKept, Attention!deleteScopeData
    PROVE  Attention!FindingsKept' /\ Attention!FindingStep
<1> USE DEF Attention!FindingsKept
<1>1. /\ findings' = [f \in DOMAIN findings |->
                        [findings[f] EXCEPT !.status = "deleted", !.version = 1]]
      /\ transfer' = transfer /\ step' = step /\ seen' = seen
  BY DEF Attention!deleteScopeData
<1>2. /\ findings \in Seq(Attention!Rows) /\ Len(findings) <= MaxFindings
      /\ DOMAIN findings = 1..Len(findings) /\ Len(findings) \in Nat
  BY DEF Attention!TypeOK
<1>3. ASSUME NEW f \in DOMAIN findings
      PROVE  /\ findings'[f] \in Attention!Rows /\ findings'[f].status = "deleted"
             /\ findings'[f].transfer = findings[f].transfer
  <2>1. PICK r \in Attention!Rows : r = findings[f]
    BY <1>2
  <2>2. PICK q : q = [r EXCEPT !.status = "deleted", !.version = 1]
    OBVIOUS
  <2>3. findings'[f] = q
    BY <1>1, <2>1, <2>2
  <2>4. 1 \in 1..MaxVersion
    BY DEF Attention!FindingConstants
  <2>5. q \in Attention!Rows /\ q.status = "deleted" /\ q.transfer = r.transfer
    BY <2>2, <2>4 DEF Attention!Rows
  <2> QED
    BY <2>1, <2>3, <2>5
<1>4. DOMAIN findings' = DOMAIN findings
  BY <1>1
<1>5. findings' \in Seq(Attention!Rows) /\ Len(findings') = Len(findings)
  <2>1. PICK n, R, h : n = Len(findings) /\ R = Attention!Rows /\ h = findings'
    OBVIOUS
  <2>2. n \in Nat /\ h \in [1..n -> R]
    BY <1>1, <1>2, <1>3, <2>1
  <2>3. h \in Seq(R) /\ Len(h) = n
    BY <2>2, IsSequence
  <2> QED
    BY <2>1, <2>3
<1>6. ASSUME NEW t PROVE Attention!existing(t)' = 0
  <2>1. Attention!Kept' = {}
    BY <1>3, <1>4 DEF Attention!Kept
  <2>2. Attention!Listed(t)' = {}
    BY <2>1 DEF Attention!Listed, Attention!listFindings, Attention!Newest
  <2> QED
    BY <2>2 DEF Attention!existing
<1>7. /\ seen' \in [People -> Attention!Pages \cup {None}]
      /\ \A r \in People : seen'[r] # None => seen'[r].finding \in DOMAIN findings
  BY <1>1 DEF Attention!TypeOK, Attention!StepKnows
<1>8. Attention!FindingsKept'
  BY <1>1, <1>2, <1>3, <1>4, <1>5, <1>6, <1>7, KnownAfter
<1>9. Attention!FindingStep
  BY <1>3, <1>4 DEF Attention!FindingStep, Attention!ChangedKnowingly
<1> QED
  BY <1>8, <1>9

LEMMA FindingsInit == Attention!Init => Attention!FindingsKept
<1> SUFFICES ASSUME Attention!Init PROVE Attention!FindingsKept
  OBVIOUS
<1>1. /\ transfer = [t \in Transfers |-> "active"] /\ findings = <<>> /\ step = None
      /\ seen = [p \in People |-> None]
  BY DEF Attention!Init
<1>2. Attention!TypeOK
  BY <1>1 DEF Attention!TypeOK, Attention!FindingConstants
<1>3. Attention!StepKnows
  BY <1>1 DEF Attention!StepKnows
<1> QED
  BY <1>2, <1>3 DEF Attention!FindingsKept

LEMMA FindingsStep ==
    ASSUME Attention!FindingsKept, [Attention!Next]_findingVars
    PROVE  Attention!FindingsKept' /\ Attention!FindingStep
<1>1. CASE UNCHANGED findingVars
  <2>1. findings' = findings /\ step' = step /\ seen' = seen /\ transfer' = transfer
    BY <1>1 DEF findingVars
  <2>2. \A u : Attention!existing(u)' = Attention!existing(u)
    BY <2>1 DEF Attention!existing, Attention!Listed, Attention!listFindings,
       Attention!Newest, Attention!Kept
  <2>3. Attention!TypeOK'
    BY <2>1 DEF Attention!FindingsKept, Attention!TypeOK
  <2>4. Attention!StepKnows'
    BY <2>1, <2>2 DEF Attention!FindingsKept, Attention!StepKnows
  <2> QED
    BY <2>1, <2>3, <2>4, FindingsStill DEF Attention!FindingsKept
<1>2. CASE Attention!Next
  BY <1>2, TransferMoves, ListKnows, FindingWritten, PageShown, PersonDecides,
     FindingExpires, FindingsDeleted DEF Attention!Next
<1> QED
  BY <1>1, <1>2

------------------------------------------------------------------------------
USE ConnectionInstance

\* Connections. A call that is at one of these steps has no turn.
Quiet == {"idle", "queued", "done"}
Opening == {"select", "keep", "cleanup"}
Busy == {"evict", "load", "sync", "drop", "open", "operate", "close", "delete"} \cup Opening

\* No two connectors are live, and each belongs to the owner or to the call that opens it.
OneLive == \A j, k \in live : j = k
Owned(k) == owner # None /\ k \in {quarantined[owner], connected[owner].connector}
Holding == Connection!HeldTyped /\ Connection!OwnerHolds /\ OneLive

Bounded ==
    /\ config \in Budgets \cup {None}
    /\ faults \in 0..MaxFaults /\ reconfigured \in 0..MaxReconfigured

ConnectionCore ==
    /\ Connection!TypeOK /\ Connection!QueueKnows /\ Connection!OwnerHolds /\ OneLive
    /\ \A k \in live : Owned(k) \/ pc[k] \in Opening
    /\ \A c \in Connection!Calls : Connection!TurnKnows(c)

LEMMA SameConnectionCount == ASSUME NEW S PROVE Connection!Cardinality(S) = Cardinality(S)
  BY DEF Connection!Cardinality, Cardinality

LEMMA ConnectionCoreSuffices == ASSUME ConnectionCore PROVE Connection!ConnectionSafe
<1>1. Connection!OperationOwnsSession
  BY DEF ConnectionCore, Connection!OperationOwnsSession, Connection!TurnKnows
<1>2. Cardinality(live) <= 1
  BY AtMostOne DEF ConnectionCore, OneLive
<1>3. Connection!Cardinality(live) <= 1
  BY <1>2, SameConnectionCount
<1>4. Connection!NothingLeaks
  BY <1>3 DEF ConnectionCore, Connection!NothingLeaks, Owned, Opening
<1> QED
  BY <1>1, <1>4 DEF ConnectionCore, Connection!ConnectionSafe

LEMMA ConnectionCoreInit == ASSUME Connection!Init PROVE ConnectionCore
<1>1. /\ config \in Budgets \cup {None} /\ tail = <<>> /\ owner = None /\ live = {}
      /\ connected = [m \in Managers |-> Connection!NoConnection]
      /\ quarantined = [m \in Managers |-> None] /\ sdk = Connection!NoConnection
      /\ pc = [c \in Connection!Calls |-> "idle"]
      /\ manager = [c \in Connection!Calls |-> None]
      /\ request = [c \in Connection!Calls |-> None]
      /\ target = None /\ faults = 0 /\ reconfigured = 0
  BY DEF Connection!Init
<1>2. Connection!NoConnection \in Connection!Connections
  BY DEF Connection!NoConnection, Connection!Connections
<1>3. 0 \in 0..MaxFaults /\ 0 \in 0..MaxReconfigured
  BY DEF Connection!ConnectionConstants
<1>4. Connection!TypeOK
  BY <1>1, <1>2, <1>3 DEF Connection!TypeOK, Connection!HeldTyped
<1>5. Connection!QueueKnows
  BY <1>1 DEF Connection!QueueKnows
<1>6. Connection!OwnerHolds
  BY <1>1 DEF Connection!OwnerHolds, Connection!NoConnection
<1>7. \A c \in Connection!Calls : Connection!TurnKnows(c)
  BY <1>1 DEF Connection!TurnKnows
<1> QED
  BY <1>1, <1>4, <1>5, <1>6, <1>7 DEF ConnectionCore, OneLive

\* The call whose turn it is is the first in the queue, and every other one waits.
HasTurn(c) ==
    /\ Len(tail) \in Nat \ {0} /\ tail[1] = c /\ DOMAIN tail = 1..Len(tail)
    /\ manager[c] \in Managers /\ request[c] \in Asked /\ request[c] \in Connection!Asks
    /\ \A d \in Connection!Calls \ {c} : pc[d] \in Quiet

LEMMA TurnTaken ==
    ASSUME ConnectionCore, NEW c \in Connection!Calls,
           pc[c] \in Busy \/ (pc[c] = "queued" /\ Head(tail) = c)
    PROVE  HasTurn(c)
<1>1. /\ tail \in Seq(Connection!Calls) /\ DOMAIN tail = 1..Len(tail) /\ Len(tail) \in Nat
      /\ \A d \in Connection!Calls : pc[d] \in Quiet \cup Busy
  BY DEF ConnectionCore, Connection!TypeOK, Quiet, Busy, Opening
<1>2. pc[c] \notin {"idle", "done"}
  BY DEF Busy, Opening
<1>3. /\ \E i \in DOMAIN tail : tail[i] = c
      /\ manager[c] \in Managers /\ request[c] \in Asked
  BY <1>2 DEF ConnectionCore, Connection!QueueKnows
<1>4. Len(tail) # 0
  BY <1>1, <1>3
<1>5. tail[1] = c
  <2>1. CASE pc[c] \in Busy
    BY <2>1 DEF ConnectionCore, Connection!QueueKnows, Busy, Opening
  <2>2. CASE Head(tail) = c
    BY <1>1, <1>4, <2>2
  <2> QED
    BY <2>1, <2>2
<1>6. \A d \in Connection!Calls \ {c} : pc[d] \in Quiet
  BY <1>1, <1>5 DEF ConnectionCore, Connection!QueueKnows, Quiet
<1>7. request[c] \in Connection!Asks
  BY <1>3 DEF Connection!ConnectionConstants
<1> QED
  BY <1>1, <1>3, <1>4, <1>5, <1>6, <1>7 DEF HasTurn

LEMMA QuietKnowsNothing ==
    ASSUME NEW c, pc'[c] \in Quiet PROVE Connection!TurnKnows(c)'
BY DEF Connection!TurnKnows, Quiet

\* The call goes on to another step.
LEMMA TurnContinues ==
    ASSUME ConnectionCore, NEW c \in Connection!Calls, HasTurn(c), pc[c] \notin {"idle", "done"},
           NEW to \in Busy, pc' = [pc EXCEPT ![c] = to],
           UNCHANGED <<tail, manager, request>>, target' \in Budgets \cup {None},
           Holding', Bounded', Connection!TurnKnows(c)',
           \A k \in live' : Owned(k)' \/ (k = c /\ to \in Opening)
    PROVE  ConnectionCore'
<1>1. /\ pc \in [Connection!Calls -> Quiet \cup Busy]
      /\ tail \in Seq(Connection!Calls)
  BY DEF ConnectionCore, Connection!TypeOK, Quiet, Busy, Opening
<1>2. pc' \in [Connection!Calls -> Quiet \cup Busy] /\ pc'[c] = to
  BY <1>1
<1>3. \A d \in Connection!Calls \ {c} : pc'[d] = pc[d] /\ pc'[d] \in Quiet
  BY <1>1 DEF HasTurn
<1>4. Connection!TypeOK'
  BY <1>2 DEF ConnectionCore, Connection!TypeOK, Quiet, Busy, Opening, Holding, Bounded
<1>5. Connection!QueueKnows'
  <2>1. \A i \in DOMAIN tail : tail[i] \in Connection!Calls
    BY <1>1
  <2>2. to \notin {"idle", "done"}
    BY DEF Busy, Opening
  <2> QED
    BY <1>2, <1>3, <2>1, <2>2 DEF ConnectionCore, Connection!QueueKnows, HasTurn, Quiet
<1>6. \A d \in Connection!Calls : Connection!TurnKnows(d)'
  BY <1>3, QuietKnowsNothing
<1>7. \A k \in live' : Owned(k)' \/ pc'[k] \in Opening
  BY <1>2
<1> QED
  BY <1>4, <1>5, <1>6, <1>7 DEF ConnectionCore, Holding

\* The call ends and the next one takes its turn.
LEMMA TurnEnds ==
    ASSUME ConnectionCore, NEW c \in Connection!Calls, HasTurn(c), pc[c] \notin {"idle", "done"},
           Connection!Release(c), Holding', Bounded', \A k \in live' : Owned(k)'
    PROVE  ConnectionCore'
<1>1. /\ pc \in [Connection!Calls -> Quiet \cup Busy]
      /\ tail \in Seq(Connection!Calls)
      /\ manager \in [Connection!Calls -> Managers \cup {None}]
      /\ request \in [Connection!Calls -> Asked \cup {None}]
  BY DEF ConnectionCore, Connection!TypeOK, Quiet, Busy, Opening
<1>2. /\ pc' = [pc EXCEPT ![c] = "done"] /\ tail' = Tail(tail) /\ target' = None
      /\ manager' = [manager EXCEPT ![c] = None] /\ request' = [request EXCEPT ![c] = None]
  BY DEF Connection!Release
<1>3. /\ pc' \in [Connection!Calls -> Quiet \cup Busy] /\ pc'[c] = "done"
      /\ manager' \in [Connection!Calls -> Managers \cup {None}]
      /\ request' \in [Connection!Calls -> Asked \cup {None}]
  BY <1>1, <1>2 DEF Quiet
<1>4. \A d \in Connection!Calls \ {c} : /\ pc'[d] = pc[d] /\ pc'[d] \in Quiet
                                        /\ manager'[d] = manager[d] /\ request'[d] = request[d]
  BY <1>1, <1>2 DEF HasTurn
<1>5. /\ tail' \in Seq(Connection!Calls) /\ Len(tail') = Len(tail) - 1
      /\ DOMAIN tail' = 1..(Len(tail) - 1)
      /\ \A i \in DOMAIN tail' : tail'[i] = tail[i + 1]
  BY <1>1, <1>2 DEF HasTurn
<1>6. Connection!TypeOK'
  BY <1>2, <1>3, <1>5 DEF ConnectionCore, Connection!TypeOK, Quiet, Busy, Opening, Holding, Bounded
<1>7. Connection!QueueKnows'
  <2>1. \A i \in DOMAIN tail' : i + 1 \in DOMAIN tail /\ tail[i + 1] \in Connection!Calls
    BY <1>1, <1>5 DEF HasTurn
  <2>2. \A i \in DOMAIN tail' : tail'[i] # c
    BY <1>5, <2>1 DEF ConnectionCore, Connection!QueueKnows, HasTurn
  <2>3. \A i, j \in DOMAIN tail' : tail'[i] = tail'[j] => i = j
    BY <1>5, <2>1 DEF ConnectionCore, Connection!QueueKnows
  <2>4. \A i \in DOMAIN tail' : pc'[tail'[i]] \notin {"idle", "done"}
    BY <1>4, <1>5, <2>1, <2>2 DEF ConnectionCore, Connection!QueueKnows
  <2>5. ASSUME NEW d \in Connection!Calls, pc'[d] \notin {"idle", "done"}
        PROVE  /\ \E i \in DOMAIN tail' : tail'[i] = d
               /\ manager'[d] \in Managers /\ request'[d] \in Asked
    <3>1. d # c
      BY <1>3, <2>5
    <3>2. pc[d] \notin {"idle", "done"}
      BY <1>4, <2>5, <3>1
    <3>3. PICK i \in DOMAIN tail : tail[i] = d
      BY <3>2 DEF ConnectionCore, Connection!QueueKnows
    <3>4. i # 1 /\ i - 1 \in DOMAIN tail' /\ tail'[i - 1] = d
      BY <1>5, <3>1, <3>3 DEF HasTurn
    <3>5. manager[d] \in Managers /\ request[d] \in Asked
      BY <3>2 DEF ConnectionCore, Connection!QueueKnows
    <3> QED
      BY <1>4, <3>1, <3>4, <3>5
  <2>6. \A d \in Connection!Calls : pc'[d] \in Quiet
    BY <1>3, <1>4 DEF Quiet
  <2> QED
    BY <2>3, <2>4, <2>5, <2>6 DEF Connection!QueueKnows, Quiet
<1>8. \A d \in Connection!Calls : Connection!TurnKnows(d)'
  BY <1>3, <1>4, QuietKnowsNothing DEF Quiet
<1> QED
  BY <1>6, <1>7, <1>8 DEF ConnectionCore, Holding

\* Outside the steps that open a connector, whatever is live is the owner's.
LEMMA LiveIsOwned ==
    ASSUME ConnectionCore, NEW c \in Connection!Calls, HasTurn(c), pc[c] \notin Opening
    PROVE  Holding /\ \A k \in live : Owned(k)
<1>1. \A k \in live : k \in Connection!Calls
  BY DEF ConnectionCore, Connection!TypeOK, Connection!HeldTyped
<1>2. \A k \in live : pc[k] \notin Opening
  BY <1>1 DEF HasTurn, Quiet, Opening
<1> QED
  BY <1>2 DEF ConnectionCore, Holding, Connection!TypeOK

LEMMA BoundsKept ==
    ASSUME Bounded, config' \in Budgets \cup {None}, reconfigured' = reconfigured,
           faults' = faults \/ Connection!Throws
    PROVE  Bounded'
BY DEF Bounded, Connection!Throws, Connection!ConnectionConstants

\* Closing everything a manager has: afterwards it has nothing, and when it was the owner,
\* or there was none, nobody has anything.
LEMMA Disconnected ==
    ASSUME Holding, \A k \in live : Owned(k), NEW m \in Managers,
           Connection!disconnectConnected(m)
    PROVE  /\ connected' \in [Managers -> Connection!Connections]
           /\ quarantined' \in [Managers -> Connection!Calls \cup {None}]
           /\ sdk' \in Connection!Connections /\ live' \in SUBSET Connection!Calls
           /\ live' \subseteq live
           /\ connected'[m] = Connection!NoConnection /\ quarantined'[m] = None
           /\ owner \in {m, None} =>
                 /\ live' = {}
                 /\ \A n \in Managers : /\ connected'[n] = Connection!NoConnection
                                        /\ quarantined'[n] = None
           /\ owner \notin {m, None} => /\ live' = live /\ sdk' = sdk
                                        /\ connected' = connected
                                        /\ quarantined' = quarantined
<1>1. /\ owner \in Managers \cup {None}
      /\ connected \in [Managers -> Connection!Connections]
      /\ quarantined \in [Managers -> Connection!Calls \cup {None}]
      /\ sdk \in Connection!Connections /\ live \in SUBSET Connection!Calls
      /\ None \notin Managers
  BY DEF Holding, Connection!HeldTyped, Connection!ConnectionConstants
<1>2. PICK K : K = {quarantined[m], connected[m].connector} \ {None}
  OBVIOUS
<1>3. /\ sdk' = IF K = {} THEN sdk ELSE Connection!NoConnection
      /\ live' = live \ K
      /\ connected' = [connected EXCEPT ![m] = Connection!NoConnection]
      /\ quarantined' = [quarantined EXCEPT ![m] = None]
  BY <1>2 DEF Connection!disconnectConnected
<1>4. Connection!NoConnection \in Connection!Connections /\ Connection!NoConnection.connector = None
  BY DEF Connection!NoConnection, Connection!Connections
<1>5. /\ connected' \in [Managers -> Connection!Connections]
      /\ quarantined' \in [Managers -> Connection!Calls \cup {None}]
      /\ sdk' \in Connection!Connections /\ live' \in SUBSET Connection!Calls
      /\ connected'[m] = Connection!NoConnection /\ quarantined'[m] = None
      /\ \A n \in Managers \ {m} : connected'[n] = connected[n] /\ quarantined'[n] = quarantined[n]
      /\ live' \subseteq live
  BY <1>1, <1>3, <1>4
<1>6. \A n \in Managers : owner = n \/ (connected[n] = Connection!NoConnection /\ quarantined[n] = None)
  BY DEF Holding, Connection!OwnerHolds
<1>7. ASSUME owner \in {m, None}
      PROVE  /\ live' = {}
             /\ \A n \in Managers : /\ connected'[n] = Connection!NoConnection
                                    /\ quarantined'[n] = None
  <2>1. \A k \in live : k \in Connection!Calls /\ k \in K
    <3>1. None \notin Connection!Calls
      BY DEF Connection!ConnectionConstants
    <3> QED
      BY <1>1, <1>2, <1>7, <3>1 DEF Owned
  <2>2. live' = {}
    BY <1>3, <2>1
  <2>3. \A n \in Managers \ {m} : owner # n
    BY <1>1, <1>7
  <2> QED
    BY <1>5, <1>6, <2>2, <2>3
<1>8. ASSUME owner \notin {m, None}
      PROVE  live' = live /\ sdk' = sdk /\ connected' = connected /\ quarantined' = quarantined
  <2>1. connected[m] = Connection!NoConnection /\ quarantined[m] = None
    BY <1>6, <1>8
  <2>2. K = {}
    BY <1>2, <1>4, <2>1
  <2> QED
    BY <1>1, <1>3, <2>1, <2>2
<1> QED
  BY <1>5, <1>7, <1>8

\* A manager that fails to close what it has is the owner and stays it.
LEMMA DisconnectFailed ==
    ASSUME Holding, \A k \in live : Owned(k), NEW m \in Managers,
           Connection!disconnectConnectedFails(m)
    PROVE  Holding' /\ (\A k \in live' : Owned(k)') /\ Connection!Throws
<1>1. /\ owner \in Managers \cup {None}
      /\ connected \in [Managers -> Connection!Connections]
      /\ quarantined \in [Managers -> Connection!Calls \cup {None}]
      /\ sdk \in Connection!Connections /\ live \in SUBSET Connection!Calls
      /\ None \notin Managers
  BY DEF Holding, Connection!HeldTyped, Connection!ConnectionConstants
<1>2. Connection!NoConnection \in Connection!Connections /\ Connection!NoConnection.connector = None
  BY DEF Connection!NoConnection, Connection!Connections
<1>3. /\ \A n \in Managers : owner = n \/ (connected[n] = Connection!NoConnection /\ quarantined[n] = None)
      /\ \A n \in Managers : connected[n].connector = None <=> connected[n].budget = None
  BY DEF Holding, Connection!OwnerHolds
<1>4. PICK k, q, o : k = connected[m].connector /\ q = quarantined[m] /\ o = owner
  OBVIOUS
<1>5. k \in Connection!Calls \cup {None} /\ q \in Connection!Calls \cup {None}
  BY <1>1, <1>4 DEF Connection!Connections
<1>6. PICK r : /\ r \in {q, k} /\ r # None /\ r \in Connection!Calls
               /\ quarantined' = [quarantined EXCEPT ![m] = r]
               /\ r = q => live' = live
               /\ r # q => live' = live \ {q}
               /\ owner' = m /\ sdk' \in {sdk, Connection!NoConnection} /\ connected' = connected
               /\ Connection!Throws
  <2>1. CASE /\ quarantined[m] # None
             /\ Connection!disconnectConnectorFails(m, quarantined[m]) /\ live' = live
    BY <1>4, <1>5, <2>1 DEF Connection!disconnectConnectorFails, Connection!disconnectConnectedFails
  <2>2. CASE /\ connected[m].connector \notin {None, quarantined[m]}
             /\ Connection!disconnectConnectorFails(m, connected[m].connector)
             /\ live' = live \ {quarantined[m]}
    BY <1>4, <1>5, <2>2 DEF Connection!disconnectConnectorFails, Connection!disconnectConnectedFails
  <2> QED
    BY <2>1, <2>2 DEF Connection!disconnectConnectedFails
<1>7. owner = m
  BY <1>2, <1>3, <1>4, <1>6
<1>8. /\ quarantined' \in [Managers -> Connection!Calls \cup {None}] /\ quarantined'[m] = r
      /\ \A n \in Managers \ {m} : quarantined'[n] = quarantined[n]
      /\ live' \subseteq live /\ sdk' \in Connection!Connections
  BY <1>1, <1>2, <1>6
<1>9. Connection!HeldTyped'
  BY <1>1, <1>6, <1>8 DEF Connection!HeldTyped
<1>10. Connection!OwnerHolds'
  BY <1>3, <1>6, <1>7, <1>8 DEF Connection!OwnerHolds
<1>11. OneLive'
  BY <1>8 DEF Holding, OneLive
<1>12. \A j \in live' : Owned(j)'
  <2>1. \A j \in live : j \in {q, k}
    BY <1>4, <1>7 DEF Owned
  <2>2. \A j \in live' : j \in {r, k}
    BY <1>6, <1>8, <2>1
  <2>3. owner' # None
    BY <1>1, <1>6
  <2> QED
    BY <1>4, <1>6, <1>8, <2>2, <2>3 DEF Owned
<1> QED
  BY <1>6, <1>9, <1>10, <1>11, <1>12 DEF Holding

\* A step that leaves the connectors alone.
LEMMA HeldSame ==
    ASSUME UNCHANGED <<owner, connected, quarantined, sdk, live>>
    PROVE  /\ Holding => Holding'
           /\ \A k \in live : Owned(k) => Owned(k)'
           /\ live' = live
BY DEF Holding, Connection!HeldTyped, Connection!OwnerHolds, OneLive, Owned

LEMMA CoreBounded == ConnectionCore => Bounded
BY DEF ConnectionCore, Bounded, Connection!TypeOK

\* A call joins the queue.
LEMMA QueueJoined ==
    ASSUME ConnectionCore, NEW c \in Connection!Calls, NEW m \in Managers, NEW r \in Asked,
           Connection!runActualLifecycleExclusive(c, m, r)
    PROVE  ConnectionCore'
<1>1. /\ pc[c] = "idle" /\ pc' = [pc EXCEPT ![c] = "queued"] /\ tail' = Append(tail, c)
      /\ manager' = [manager EXCEPT ![c] = m] /\ request' = [request EXCEPT ![c] = r]
      /\ UNCHANGED <<config, owner, connected, quarantined, sdk, live, target, faults, reconfigured>>
  BY DEF Connection!runActualLifecycleExclusive, Connection!held
<1>2. /\ pc \in [Connection!Calls -> Quiet \cup Busy]
      /\ tail \in Seq(Connection!Calls)
      /\ manager \in [Connection!Calls -> Managers \cup {None}]
      /\ request \in [Connection!Calls -> Asked \cup {None}]
      /\ live \in SUBSET Connection!Calls
  BY DEF ConnectionCore, Connection!TypeOK, Connection!HeldTyped, Quiet, Busy, Opening
<1>3. /\ pc' \in [Connection!Calls -> Quiet \cup Busy] /\ pc'[c] = "queued"
      /\ manager' \in [Connection!Calls -> Managers \cup {None}] /\ manager'[c] = m
      /\ request' \in [Connection!Calls -> Asked \cup {None}] /\ request'[c] = r
  BY <1>1, <1>2 DEF Quiet
<1>4. \A d \in Connection!Calls \ {c} : /\ pc'[d] = pc[d]
                                        /\ manager'[d] = manager[d] /\ request'[d] = request[d]
  BY <1>1, <1>2
<1>5. /\ tail' \in Seq(Connection!Calls) /\ Len(tail) \in Nat /\ Len(tail') = Len(tail) + 1
      /\ DOMAIN tail = 1..Len(tail) /\ DOMAIN tail' = 1..(Len(tail) + 1)
      /\ \A i \in DOMAIN tail : tail'[i] = tail[i]
      /\ tail'[Len(tail) + 1] = c
  BY <1>1, <1>2
<1>6. Connection!TypeOK'
  BY <1>1, <1>3, <1>5 DEF ConnectionCore, Connection!TypeOK, Connection!HeldTyped, Quiet, Busy, Opening
<1>7. \A i \in DOMAIN tail : tail[i] # c /\ tail[i] \in Connection!Calls
  BY <1>1, <1>2 DEF ConnectionCore, Connection!QueueKnows
<1>8. Connection!QueueKnows'
  <2>1. \A i, j \in DOMAIN tail' : tail'[i] = tail'[j] => i = j
    BY <1>5, <1>7 DEF ConnectionCore, Connection!QueueKnows
  <2>2. \A i \in DOMAIN tail' : pc'[tail'[i]] \notin {"idle", "done"}
    BY <1>3, <1>4, <1>5, <1>7 DEF ConnectionCore, Connection!QueueKnows
  <2>3. ASSUME NEW d \in Connection!Calls, pc'[d] \notin {"idle", "done"}
        PROVE  /\ \E i \in DOMAIN tail' : tail'[i] = d
               /\ manager'[d] \in Managers /\ request'[d] \in Asked
    <3>1. CASE d = c
      <4>1. Len(tail) + 1 \in DOMAIN tail'
        BY <1>5
      <4> QED
        BY <1>3, <1>5, <3>1, <4>1
    <3>2. CASE d # c
      <4>1. pc[d] \notin {"idle", "done"}
        BY <1>4, <2>3, <3>2
      <4>2. PICK i \in DOMAIN tail : tail[i] = d
        BY <4>1 DEF ConnectionCore, Connection!QueueKnows
      <4>3. i \in DOMAIN tail' /\ tail'[i] = d
        BY <1>5, <4>2
      <4>4. manager[d] \in Managers /\ request[d] \in Asked
        BY <4>1 DEF ConnectionCore, Connection!QueueKnows
      <4> QED
        BY <1>4, <3>2, <4>3, <4>4
    <3> QED
      BY <3>1, <3>2
  <2>4. ASSUME NEW d \in Connection!Calls, pc'[d] \notin Quiet PROVE tail'[1] = d
    <3>1. d # c /\ pc[d] \notin Quiet
      BY <1>3, <1>4, <2>4 DEF Quiet
    <3>2. tail[1] = d /\ \E i \in DOMAIN tail : tail[i] = d
      BY <3>1 DEF ConnectionCore, Connection!QueueKnows, Quiet
    <3>3. 1 \in DOMAIN tail
      BY <1>5, <3>2
    <3> QED
      BY <1>5, <3>2, <3>3
  <2> QED
    BY <2>1, <2>2, <2>3, <2>4 DEF Connection!QueueKnows, Quiet
<1>9. ASSUME NEW d \in Connection!Calls PROVE Connection!TurnKnows(d)'
  <2>1. CASE d = c
    BY <1>3, <2>1, QuietKnowsNothing DEF Quiet
  <2>2. CASE d # c
    <3>1. pc'[d] = pc[d] /\ manager'[d] = manager[d] /\ request'[d] = request[d]
      BY <1>4, <2>2
    <3>2. Connection!TurnKnows(d)
      BY DEF ConnectionCore
    <3> QED
      BY <1>1, <3>1, <3>2 DEF Connection!TurnKnows, Connection!Target
  <2> QED
    BY <2>1, <2>2
<1>10. \A k \in live' : Owned(k)' \/ pc'[k] \in Opening
  <2>1. \A k \in live : Owned(k) \/ (k # c /\ pc[k] \in Opening)
    BY <1>1 DEF ConnectionCore, Opening
  <2> QED
    BY <1>1, <1>2, <1>4, <2>1, HeldSame
<1>11. Connection!OwnerHolds' /\ OneLive'
  BY <1>1 DEF ConnectionCore, Connection!OwnerHolds, OneLive
<1> QED
  BY <1>6, <1>8, <1>9, <1>10, <1>11 DEF ConnectionCore

\* The configuration changes under a call that has read it: the call goes on with what it read.
LEMMA ConfigurationChanges ==
    ASSUME ConnectionCore, NEW b \in Budgets \cup {None},
           Connection!Reconfigure(b) \/ UNCHANGED connectionVars
    PROVE  ConnectionCore'
<1>1. /\ UNCHANGED <<tail, pc, manager, request, target, owner, connected, quarantined, sdk, live>>
      /\ Bounded'
  <2>1. CASE Connection!Reconfigure(b)
    BY <2>1, CoreBounded DEF Connection!Reconfigure, Connection!held, Bounded,
       Connection!ConnectionConstants
  <2>2. CASE UNCHANGED connectionVars
    BY <2>2, CoreBounded DEF connectionVars, Bounded
  <2> QED
    BY <2>1, <2>2
<1>2. Connection!TypeOK'
  BY <1>1 DEF ConnectionCore, Connection!TypeOK, Connection!HeldTyped, Bounded
<1>3. Connection!QueueKnows' /\ Connection!OwnerHolds' /\ OneLive'
  BY <1>1 DEF ConnectionCore, Connection!QueueKnows, Connection!OwnerHolds, OneLive
<1>4. \A k \in live' : Owned(k)' \/ pc'[k] \in Opening
  BY <1>1 DEF ConnectionCore, Owned
<1>5. ASSUME NEW c \in Connection!Calls PROVE Connection!TurnKnows(c)'
  BY <1>1 DEF ConnectionCore, Connection!TurnKnows, Connection!Target
<1> QED
  BY <1>2, <1>3, <1>4, <1>5 DEF ConnectionCore

------------------------------------------------------------------------------
\* A call goes on with the SDK its own: nobody else holds anything, and what it kept itself
\* is what is open.
LEMMA Proceeds ==
    ASSUME ConnectionCore, NEW c \in Connection!Calls, HasTurn(c),
           pc[c] \in {"queued", "evict"}, request[c].kind \in {"use", "connect", "list"},
           Connection!Proceed(c), Bounded',
           connected' \in [Managers -> Connection!Connections],
           quarantined' \in [Managers -> Connection!Calls \cup {None}],
           sdk' \in Connection!Connections, live' \in SUBSET Connection!Calls, OneLive',
           \A n \in Managers \ {manager[c]} : connected'[n] = Connection!NoConnection,
           \A n \in Managers : quarantined'[n] = None,
           \A n \in Managers : connected'[n].connector = None <=> connected'[n].budget = None,
           \/ connected'[manager[c]] = Connection!NoConnection
           \/ sdk' = connected'[manager[c]],
           \A k \in live' : k = connected'[manager[c]].connector
    PROVE  ConnectionCore'
<1>1. PICK m \in Managers : m = manager[c]
  BY DEF HasTurn
<1>2. PICK to : to = IF request[c].kind = "use" THEN "load" ELSE "drop"
  OBVIOUS
<1>3. /\ pc' = [pc EXCEPT ![c] = to] /\ UNCHANGED <<tail, manager, request, target>> /\ owner' = m
  BY <1>1, <1>2 DEF Connection!Proceed, Connection!Step
<1>4. m # None /\ to \in Busy /\ to \notin Opening
  BY <1>2 DEF Connection!ConnectionConstants, Busy, Opening
<1>5. pc'[c] = to
  BY <1>3 DEF ConnectionCore, Connection!TypeOK
<1>6. Holding'
  <2>1. Connection!HeldTyped'
    BY <1>1, <1>3 DEF Connection!HeldTyped
  <2>2. Connection!OwnerHolds'
    BY <1>1, <1>3 DEF Connection!OwnerHolds
  <2> QED
    BY <2>1, <2>2 DEF Holding
<1>7. Connection!TurnKnows(c)'
  BY <1>1, <1>2, <1>3, <1>5 DEF Connection!TurnKnows
<1>8. \A k \in live' : Owned(k)'
  BY <1>1, <1>3, <1>4 DEF Owned
<1>9. target' \in Budgets \cup {None}
  BY <1>3 DEF ConnectionCore, Connection!TypeOK
<1> QED
  BY <1>3, <1>4, <1>6, <1>7, <1>8, <1>9, TurnContinues

LEMMA LifecycleStarts ==
    ASSUME ConnectionCore, NEW c \in Connection!Calls, Connection!runWithLifecycle(c)
    PROVE  ConnectionCore'
<1>1. /\ pc[c] = "queued" /\ Head(tail) = c /\ request[c].kind \in {"use", "connect", "list"}
      /\ UNCHANGED <<config, connected, quarantined, sdk, live, faults, reconfigured>>
  BY DEF Connection!runWithLifecycle
<1>2. HasTurn(c)
  BY <1>1, TurnTaken
<1>3. Holding /\ (\A k \in live : Owned(k)) /\ Bounded'
  BY <1>1, <1>2, LiveIsOwned, CoreBounded DEF Opening, Bounded
<1>4. CASE Connection!Release(c) /\ owner' = owner
  BY <1>1, <1>2, <1>3, <1>4, HeldSame, TurnEnds
<1>5. CASE Connection!Step(c, "evict") /\ owner' = owner
  <2>1. pc' = [pc EXCEPT ![c] = "evict"] /\ UNCHANGED <<tail, manager, request, target>>
    BY <1>5 DEF Connection!Step
  <2>2. pc'[c] = "evict" /\ target' \in Budgets \cup {None}
    BY <2>1 DEF ConnectionCore, Connection!TypeOK
  <2>3. Connection!TurnKnows(c)'
    BY <1>1, <2>1, <2>2 DEF Connection!TurnKnows
  <2>4. Holding' /\ \A k \in live' : Owned(k)'
    BY <1>1, <1>3, <1>5, HeldSame
  <2> QED
    BY <1>1, <1>2, <1>3, <2>1, <2>2, <2>3, <2>4, TurnContinues DEF Busy
<1>6. CASE ~Connection!mustEvict(c) /\ Connection!Proceed(c)
  <2>1. PICK m \in Managers : m = manager[c]
    BY <1>2 DEF HasTurn
  <2>2. owner \in {None, m}
    BY <1>6, <2>1 DEF Connection!mustEvict
  <2>3. /\ connected \in [Managers -> Connection!Connections]
        /\ quarantined \in [Managers -> Connection!Calls \cup {None}]
        /\ sdk \in Connection!Connections /\ live \in SUBSET Connection!Calls /\ OneLive
        /\ None \notin Managers
    BY <1>3 DEF Holding, Connection!HeldTyped, Connection!ConnectionConstants
  <2>4. /\ \A n \in Managers : owner = n \/ (connected[n] = Connection!NoConnection /\ quarantined[n] = None)
        /\ \A n \in Managers : connected[n].connector = None <=> connected[n].budget = None
        /\ owner # None => \/ quarantined[owner] # None \/ connected[owner] = Connection!NoConnection
                           \/ sdk = connected[owner]
    BY <1>3 DEF Holding, Connection!OwnerHolds
  <2>5. \A n \in Managers : quarantined[n] = None
    BY <1>6, <2>1, <2>2, <2>3, <2>4 DEF Connection!mustEvict
  <2>6. \A n \in Managers \ {m} : connected[n] = Connection!NoConnection
    BY <2>2, <2>3, <2>4
  <2>7. connected[m] = Connection!NoConnection \/ sdk = connected[m]
    BY <2>1, <2>2, <2>3, <2>4, <2>5
  <2>8. \A k \in live : k = connected[m].connector
    <3>1. None \notin Connection!Calls
      BY DEF Connection!ConnectionConstants
    <3> QED
      BY <1>3, <2>2, <2>3, <2>5, <3>1 DEF Owned
  <2>9. OneLive'
    BY <1>1, <2>3 DEF OneLive
  <2> QED
    BY <1>1, <1>2, <1>3, <1>6, <2>1, <2>3, <2>4, <2>5, <2>6, <2>7, <2>8, <2>9, Proceeds
<1> QED
  BY <1>4, <1>5, <1>6 DEF Connection!runWithLifecycle

LEMMA OthersEvicted ==
    ASSUME ConnectionCore, NEW c \in Connection!Calls, Connection!Evict(c)
    PROVE  ConnectionCore'
<1>1. /\ pc[c] = "evict" /\ request[c].kind \in {"use", "connect", "list"}
      /\ UNCHANGED <<config, reconfigured>>
  BY DEF Connection!Evict
<1>2. HasTurn(c)
  BY <1>1, TurnTaken DEF Busy
<1>3. Holding /\ (\A k \in live : Owned(k)) /\ Bounded
  BY <1>1, <1>2, LiveIsOwned, CoreBounded DEF Opening
<1>4. PICK e : e = Connection!Evicted(c)
  OBVIOUS
<1>5. e \in Managers /\ owner \in {e, None}
  BY <1>2, <1>3, <1>4 DEF Connection!Evicted, HasTurn, Holding, Connection!HeldTyped
<1>6. config' \in Budgets \cup {None}
  BY <1>1, <1>3 DEF Bounded
<1>7. CASE Connection!disconnectConnected(e) /\ Connection!Proceed(c)
  <2>1. /\ connected' \in [Managers -> Connection!Connections]
        /\ quarantined' \in [Managers -> Connection!Calls \cup {None}]
        /\ sdk' \in Connection!Connections /\ live' \in SUBSET Connection!Calls /\ live' = {}
        /\ \A n \in Managers : connected'[n] = Connection!NoConnection /\ quarantined'[n] = None
    BY <1>3, <1>5, <1>7, Disconnected
  <2>2. Bounded'
    BY <1>1, <1>3, <1>6, <1>7, BoundsKept DEF Connection!disconnectConnected
  <2>3. manager[c] \in Managers
    BY <1>2 DEF HasTurn
  <2>4. OneLive'
    BY <2>1 DEF OneLive
  <2>5. \A n \in Managers : connected'[n].connector = None <=> connected'[n].budget = None
    BY <2>1 DEF Connection!NoConnection
  <2> QED
    BY <1>1, <1>2, <1>7, <2>1, <2>2, <2>3, <2>4, <2>5, Proceeds
<1>8. CASE Connection!disconnectConnectedFails(e) /\ Connection!Release(c)
  <2>1. Holding' /\ (\A k \in live' : Owned(k)') /\ Connection!Throws
    BY <1>3, <1>5, <1>8, DisconnectFailed
  <2>2. Bounded'
    BY <1>1, <1>3, <1>6, <2>1, BoundsKept
  <2> QED
    BY <1>1, <1>2, <1>8, <2>1, <2>2, TurnEnds
<1> QED
  BY <1>4, <1>7, <1>8 DEF Connection!Evict

LEMMA DisconnectStarts ==
    ASSUME ConnectionCore, NEW c \in Connection!Calls, Connection!disconnectCurrentConnection(c)
    PROVE  ConnectionCore'
<1>1. /\ pc[c] = "queued" /\ Head(tail) = c /\ request[c].kind \in {"disconnect", "remove"}
      /\ UNCHANGED <<config, owner, connected, quarantined, sdk, live, faults, reconfigured>>
  BY DEF Connection!disconnectCurrentConnection, Connection!held
<1>2. HasTurn(c)
  BY <1>1, TurnTaken
<1>3. Holding' /\ (\A k \in live' : Owned(k)') /\ Bounded'
  BY <1>1, <1>2, LiveIsOwned, HeldSame, CoreBounded DEF Opening, Bounded
<1>4. CASE Connection!Release(c)
  BY <1>1, <1>2, <1>3, <1>4, TurnEnds
<1>5. CASE \/ Connection!Step(c, "evict") /\ owner # None
           \/ Connection!Step(c, "close")
  <2>1. PICK to \in {"evict", "close"} : Connection!Step(c, to) /\ (to = "evict" => owner # None)
    BY <1>5
  <2>2. pc' = [pc EXCEPT ![c] = to] /\ UNCHANGED <<tail, manager, request, target>>
    BY <2>1 DEF Connection!Step
  <2>3. pc'[c] = to /\ target' \in Budgets \cup {None}
    BY <2>2 DEF ConnectionCore, Connection!TypeOK
  <2>4. Connection!TurnKnows(c)'
    BY <1>1, <2>1, <2>2, <2>3 DEF Connection!TurnKnows
  <2> QED
    BY <1>1, <1>2, <1>3, <2>2, <2>3, <2>4, TurnContinues DEF Busy
<1> QED
  BY <1>4, <1>5 DEF Connection!disconnectCurrentConnection

LEMMA OwnerEvicted ==
    ASSUME ConnectionCore, NEW c \in Connection!Calls, Connection!EvictOwner(c)
    PROVE  ConnectionCore'
<1>1. /\ pc[c] = "evict" /\ request[c].kind \in {"disconnect", "remove"}
      /\ UNCHANGED <<config, reconfigured>>
  BY DEF Connection!EvictOwner
<1>2. HasTurn(c)
  BY <1>1, TurnTaken DEF Busy
<1>3. Holding /\ (\A k \in live : Owned(k)) /\ Bounded
  BY <1>1, <1>2, LiveIsOwned, CoreBounded DEF Opening
<1>4. owner \in Managers
  BY <1>1, <1>3 DEF ConnectionCore, Connection!TurnKnows, Holding, Connection!HeldTyped
<1>5. config' \in Budgets \cup {None}
  BY <1>1, <1>3 DEF Bounded
<1>6. CASE Connection!disconnectConnected(owner) /\ owner' = None /\ Connection!Step(c, "close")
  <2>1. /\ connected' \in [Managers -> Connection!Connections]
        /\ quarantined' \in [Managers -> Connection!Calls \cup {None}]
        /\ sdk' \in Connection!Connections /\ live' \in SUBSET Connection!Calls /\ live' = {}
        /\ \A n \in Managers : connected'[n] = Connection!NoConnection /\ quarantined'[n] = None
    BY <1>3, <1>4, <1>6, Disconnected
  <2>2. Bounded'
    BY <1>1, <1>3, <1>5, <1>6, BoundsKept DEF Connection!disconnectConnected
  <2>3. Holding'
    BY <1>6, <2>1 DEF Holding, Connection!HeldTyped, Connection!OwnerHolds, OneLive,
       Connection!NoConnection
  <2>4. pc' = [pc EXCEPT ![c] = "close"] /\ UNCHANGED <<tail, manager, request, target>>
    BY <1>6 DEF Connection!Step
  <2>5. pc'[c] = "close" /\ target' \in Budgets \cup {None}
    BY <2>4 DEF ConnectionCore, Connection!TypeOK
  <2>6. Connection!TurnKnows(c)'
    BY <2>5 DEF Connection!TurnKnows
  <2> QED
    BY <1>1, <1>2, <2>1, <2>2, <2>3, <2>4, <2>5, <2>6, TurnContinues DEF Busy
<1>7. CASE Connection!disconnectConnectedFails(owner) /\ Connection!Release(c)
  <2>1. Holding' /\ (\A k \in live' : Owned(k)') /\ Connection!Throws
    BY <1>3, <1>4, <1>7, DisconnectFailed
  <2>2. Bounded'
    BY <1>1, <1>3, <1>5, <2>1, BoundsKept
  <2> QED
    BY <1>1, <1>2, <1>7, <2>1, <2>2, TurnEnds
<1> QED
  BY <1>6, <1>7 DEF Connection!EvictOwner

\* A call may stop relying on anything at any step and close what its manager has.
LEMMA TurnCloses ==
    ASSUME ConnectionCore, NEW c \in Connection!Calls, pc[c] \in Busy \ Opening,
           NEW to \in {"close", "delete"},
           Connection!Step(c, to), Holding', Bounded', \A k \in live' : Owned(k)'
    PROVE  ConnectionCore'
<1>1. HasTurn(c)
  BY TurnTaken
<1>2. pc' = [pc EXCEPT ![c] = to] /\ UNCHANGED <<tail, manager, request, target>>
  BY DEF Connection!Step
<1>3. pc'[c] = to /\ target' \in Budgets \cup {None} /\ to \in Busy
  BY <1>2 DEF ConnectionCore, Connection!TypeOK, Busy
<1>4. Connection!TurnKnows(c)'
  BY <1>3 DEF Connection!TurnKnows
<1>5. pc[c] \notin {"idle", "done"}
  BY DEF Busy, Opening
<1> QED
  BY <1>1, <1>2, <1>3, <1>4, <1>5, TurnContinues

\* restoreConfiguredBudget: what it kept for the configured budget is what the SDK has open.
LEMMA ConfigLoaded ==
    ASSUME ConnectionCore, NEW c \in Connection!Calls, Connection!loadConfig(c)
    PROVE  ConnectionCore'
<1>1. /\ pc[c] = "load"
      /\ UNCHANGED <<config, owner, connected, quarantined, sdk, live, reconfigured>>
  BY DEF Connection!loadConfig, Connection!held
<1>2. HasTurn(c)
  BY <1>1, TurnTaken DEF Busy
<1>3. /\ Holding /\ Holding' /\ \A k \in live' : Owned(k)'
  BY <1>1, <1>2, LiveIsOwned, HeldSame DEF Opening
<1>4. Bounded'
  <2>1. faults' = faults \/ Connection!Throws
    BY DEF Connection!loadConfig
  <2> QED
    BY <1>1, <2>1, CoreBounded, BoundsKept DEF Bounded
<1>5. CASE Connection!Release(c)
  BY <1>1, <1>2, <1>3, <1>4, <1>5, TurnEnds
<1>6. CASE Connection!Step(c, "close")
  BY <1>1, <1>3, <1>4, <1>6, TurnCloses DEF Busy, Opening
<1>7. CASE /\ config # None /\ Connection!Expected(c) /\ target' = config
           /\ pc' = [pc EXCEPT ![c] = IF connected[manager[c]].budget # config THEN "drop"
                                      ELSE IF request[c].synchronize THEN "sync" ELSE "operate"]
           /\ UNCHANGED <<tail, manager, request, faults>>
  <2>1. PICK m \in Managers : m = manager[c]
    BY <1>2 DEF HasTurn
  <2>2. PICK to : to = IF connected[m].budget # config THEN "drop"
                       ELSE IF request[c].synchronize THEN "sync" ELSE "operate"
    OBVIOUS
  <2>3. to \in {"drop", "sync", "operate"} /\ (to # "drop" => connected[m].budget = config)
    BY <2>2
  <2>4. pc' = [pc EXCEPT ![c] = to]
    BY <1>7, <2>1, <2>2
  <2>5. pc'[c] = to /\ target' \in Budgets
    BY <1>7, <2>4 DEF ConnectionCore, Connection!TypeOK
  <2>6. request[c].kind = "use" /\ owner = m /\ quarantined[m] = None
    BY <1>1, <2>1 DEF ConnectionCore, Connection!TurnKnows
  <2>7. request[c].expected \in {None, config}
    BY <1>7 DEF Connection!Expected
  <2>8. ASSUME to # "drop"
        PROVE  sdk = connected[m] /\ sdk.connector # None /\ sdk.budget = config
    <3>1. connected[m].budget = config /\ config # None
      BY <1>7, <2>3, <2>8
    <3>2. connected[m].connector # None
      BY <1>3, <3>1 DEF Holding, Connection!OwnerHolds
    <3>3. connected[m] # Connection!NoConnection /\ m # None
      BY <3>2 DEF Connection!NoConnection, Connection!ConnectionConstants
    <3>4. sdk = connected[m]
      BY <1>3, <2>6, <3>3 DEF Holding, Connection!OwnerHolds
    <3> QED
      BY <3>1, <3>2, <3>4
  <2>9. Connection!TurnKnows(c)'
    BY <1>1, <1>7, <2>1, <2>3, <2>5, <2>6, <2>7, <2>8 DEF Connection!TurnKnows
  <2>10. to \in Busy
    BY <2>3 DEF Busy
  <2> QED
    BY <1>1, <1>2, <1>3, <1>4, <1>7, <2>4, <2>5, <2>9, <2>10, TurnContinues
<1> QED
  BY <1>5, <1>6, <1>7 DEF Connection!loadConfig

LEMMA Synchronized ==
    ASSUME ConnectionCore, NEW c \in Connection!Calls, Connection!synchronize(c)
    PROVE  ConnectionCore'
<1>1. /\ pc[c] = "sync"
      /\ UNCHANGED <<config, owner, connected, quarantined, sdk, live, reconfigured>>
  BY DEF Connection!synchronize, Connection!held
<1>2. HasTurn(c)
  BY <1>1, TurnTaken DEF Busy
<1>3. Holding' /\ \A k \in live' : Owned(k)'
  BY <1>1, <1>2, LiveIsOwned, HeldSame DEF Opening
<1>4. Bounded'
  <2>1. faults' = faults \/ Connection!Throws
    BY DEF Connection!synchronize
  <2> QED
    BY <1>1, <2>1, CoreBounded, BoundsKept DEF Bounded
<1>5. CASE Connection!Step(c, "close")
  BY <1>1, <1>3, <1>4, <1>5, TurnCloses DEF Busy, Opening
<1>6. CASE Connection!Step(c, "operate")
  <2>1. pc' = [pc EXCEPT ![c] = "operate"] /\ UNCHANGED <<tail, manager, request, target>>
    BY <1>6 DEF Connection!Step
  <2>2. pc'[c] = "operate" /\ target' \in Budgets \cup {None}
    BY <2>1 DEF ConnectionCore, Connection!TypeOK
  <2>3. Connection!TurnKnows(c)
    BY DEF ConnectionCore
  <2>4. Connection!TurnKnows(c)'
    BY <1>1, <2>1, <2>2, <2>3 DEF Connection!TurnKnows
  <2> QED
    BY <1>1, <1>2, <1>3, <1>4, <2>1, <2>2, <2>4, TurnContinues DEF Busy
<1> QED
  BY <1>5, <1>6 DEF Connection!synchronize

LEMMA Dropped ==
    ASSUME ConnectionCore, NEW c \in Connection!Calls, Connection!Drop(c)
    PROVE  ConnectionCore'
<1>1. pc[c] = "drop" /\ UNCHANGED <<config, reconfigured>>
  BY DEF Connection!Drop
<1>2. HasTurn(c)
  BY <1>1, TurnTaken DEF Busy
<1>3. Holding /\ (\A k \in live : Owned(k)) /\ Bounded
  BY <1>1, <1>2, LiveIsOwned, CoreBounded DEF Opening
<1>4. PICK m \in Managers : m = manager[c]
  BY <1>2 DEF HasTurn
<1>5. Connection!TurnKnows(c)
  BY DEF ConnectionCore
<1>6. owner = m /\ config' \in Budgets \cup {None}
  BY <1>1, <1>3, <1>4, <1>5 DEF Connection!TurnKnows, Bounded
<1>7. CASE Connection!disconnectConnected(m) /\ owner' = m /\ Connection!Step(c, "open")
  <2>1. /\ connected' \in [Managers -> Connection!Connections]
        /\ quarantined' \in [Managers -> Connection!Calls \cup {None}]
        /\ sdk' \in Connection!Connections /\ live' \in SUBSET Connection!Calls /\ live' = {}
        /\ \A n \in Managers : connected'[n] = Connection!NoConnection /\ quarantined'[n] = None
    BY <1>3, <1>6, <1>7, Disconnected
  <2>2. Bounded'
    BY <1>1, <1>3, <1>6, <1>7, BoundsKept DEF Connection!disconnectConnected
  <2>3. Holding'
    BY <1>7, <2>1 DEF Holding, Connection!HeldTyped, Connection!OwnerHolds, OneLive,
       Connection!NoConnection
  <2>4. pc' = [pc EXCEPT ![c] = "open"] /\ UNCHANGED <<tail, manager, request, target>>
    BY <1>7 DEF Connection!Step
  <2>5. pc'[c] = "open" /\ target' \in Budgets \cup {None}
    BY <2>4 DEF ConnectionCore, Connection!TypeOK
  <2>6. Connection!TurnKnows(c)'
    BY <1>1, <1>4, <1>5, <1>7, <2>1, <2>4, <2>5 DEF Connection!TurnKnows
  <2> QED
    BY <1>1, <1>2, <2>1, <2>2, <2>3, <2>4, <2>5, <2>6, TurnContinues DEF Busy
<1>8. CASE Connection!disconnectConnectedFails(m) /\ Connection!Release(c)
  <2>1. Holding' /\ (\A k \in live' : Owned(k)') /\ Connection!Throws
    BY <1>3, <1>8, DisconnectFailed
  <2>2. Bounded'
    BY <1>1, <1>3, <1>6, <2>1, BoundsKept
  <2> QED
    BY <1>1, <1>2, <1>8, <2>1, <2>2, TurnEnds
<1> QED
  BY <1>4, <1>7, <1>8 DEF Connection!Drop

\* While a call opens a connector no manager has one.
LEMMA OpensAlone ==
    ASSUME ConnectionCore, NEW c \in Connection!Calls, pc[c] \in Opening \cup {"open"}
    PROVE  /\ HasTurn(c) /\ Holding /\ Bounded /\ Connection!TurnKnows(c)
           /\ owner = manager[c] /\ owner \in Managers /\ owner # None
           /\ \A n \in Managers : connected[n] = Connection!NoConnection /\ quarantined[n] = None
<1>1. HasTurn(c)
  BY TurnTaken DEF Busy
<1>2. Holding /\ Bounded /\ Connection!TurnKnows(c)
  BY CoreBounded DEF ConnectionCore, Holding, Connection!TypeOK
<1>3. /\ owner = manager[c] /\ quarantined[owner] = None
      /\ connected[owner] = Connection!NoConnection
  BY <1>2 DEF Connection!TurnKnows, Opening
<1>4. owner \in Managers /\ owner # None
  BY <1>1, <1>3 DEF HasTurn, Connection!ConnectionConstants
<1>5. \A n \in Managers : connected[n] = Connection!NoConnection /\ quarantined[n] = None
  BY <1>2, <1>3 DEF Holding, Connection!OwnerHolds
<1> QED
  BY <1>1, <1>2, <1>3, <1>4, <1>5

\* Whatever the SDK does meanwhile, and whoever owns it.
LEMMA NobodyHolds ==
    ASSUME \A n \in Managers : connected[n] = Connection!NoConnection /\ quarantined[n] = None,
           Holding, connected' = connected, quarantined' = quarantined,
           owner' \in Managers \cup {None}, sdk' \in Connection!Connections,
           live' \in SUBSET Connection!Calls, OneLive'
    PROVE  Holding'
BY DEF Holding, Connection!HeldTyped, Connection!OwnerHolds

LEMMA Connects ==
    ASSUME ConnectionCore, NEW c \in Connection!Calls, Connection!connect(c)
    PROVE  ConnectionCore'
<1>1. /\ pc[c] = "open"
      /\ UNCHANGED <<config, connected, quarantined, reconfigured>>
  BY DEF Connection!connect
<1>2. /\ HasTurn(c) /\ Holding /\ Bounded /\ Connection!TurnKnows(c)
      /\ owner = manager[c] /\ owner \in Managers /\ owner # None
      /\ \A n \in Managers : connected[n] = Connection!NoConnection /\ quarantined[n] = None
  BY <1>1, OpensAlone
<1>3. live = {} /\ request[c].kind \in {"use", "connect", "list"}
  BY <1>1, <1>2 DEF Connection!TurnKnows
<1>4. Bounded'
  <2>1. faults' = faults \/ Connection!Throws
    BY DEF Connection!connect
  <2> QED
    BY <1>1, <1>2, <2>1, BoundsKept DEF Bounded
<1>5. CASE /\ Connection!Release(c) /\ UNCHANGED <<sdk, live>>
           /\ owner' \in CASE request[c].kind = "list" -> {owner}
                          [] request[c].kind = "connect" -> {owner, Connection!Disowned(manager[c])}
                          [] OTHER -> {Connection!Disowned(manager[c])}
  <2>1. owner' \in Managers \cup {None}
    BY <1>2, <1>3, <1>5 DEF Connection!Disowned
  <2>2. sdk' \in Connection!Connections /\ live' \in SUBSET Connection!Calls /\ OneLive'
    BY <1>2, <1>5 DEF Holding, Connection!HeldTyped, OneLive
  <2>3. Holding'
    BY <1>1, <1>2, <2>1, <2>2, NobodyHolds
  <2> QED
    BY <1>1, <1>2, <1>3, <1>4, <1>5, <2>3, TurnEnds
<1>6. CASE /\ sdk' = [connector |-> c, budget |-> None] /\ live' = live \cup {c}
           /\ owner' = owner
           /\ \/ Connection!Step(c, IF request[c].kind = "list" THEN "cleanup" ELSE "select")
              \/ Connection!Step(c, "cleanup")
  <2>1. PICK to \in {"select", "cleanup"} :
          /\ Connection!Step(c, to) /\ (to = "select" => request[c].kind # "list")
    BY <1>6
  <2>2. pc' = [pc EXCEPT ![c] = to] /\ UNCHANGED <<tail, manager, request, target>>
    BY <2>1 DEF Connection!Step
  <2>3. pc'[c] = to /\ target' \in Budgets \cup {None}
    BY <2>2 DEF ConnectionCore, Connection!TypeOK
  <2>4. live' = {c} /\ sdk' \in Connection!Connections
    BY <1>3, <1>6 DEF Connection!Connections
  <2>5. Holding'
    <3>1. OneLive'
      BY <2>4 DEF OneLive
    <3> QED
      BY <1>1, <1>2, <1>6, <2>4, <3>1, NobodyHolds
  <2>6. Connection!TurnKnows(c)'
    BY <1>1, <1>2, <1>3, <1>6, <2>1, <2>2, <2>3, <2>4 DEF Connection!TurnKnows
  <2>7. to \in Busy /\ to \in Opening
    BY DEF Busy, Opening
  <2> QED
    BY <1>1, <1>2, <1>4, <2>2, <2>3, <2>4, <2>5, <2>6, <2>7, TurnContinues
<1> QED
  BY <1>5, <1>6 DEF Connection!connect

LEMMA TargetKnown ==
    ASSUME ConnectionCore, NEW c \in Connection!Calls, pc[c] \in {"select", "keep"}
    PROVE  /\ Connection!Target(c) \in Budgets
           /\ request[c].kind = "use" => request[c].expected \in {None, Connection!Target(c)}
<1>1. HasTurn(c) /\ Connection!TurnKnows(c)
  BY TurnTaken DEF Busy, Opening, ConnectionCore
<1>2. request[c].kind \in {"use", "connect"} /\ request[c] \in Connection!Asks
  BY <1>1 DEF Connection!TurnKnows, HasTurn
<1>3. CASE request[c].kind = "use"
  BY <1>1, <1>3 DEF Connection!TurnKnows, Connection!Target
<1>4. CASE request[c].kind = "connect"
  BY <1>2, <1>4 DEF Connection!Asks, Connection!Target
<1> QED
  BY <1>2, <1>3, <1>4

LEMMA BudgetSelected ==
    ASSUME ConnectionCore, NEW c \in Connection!Calls, Connection!selectBudget(c)
    PROVE  ConnectionCore'
<1>1. /\ pc[c] = "select"
      /\ UNCHANGED <<config, owner, connected, quarantined, live, reconfigured>>
  BY DEF Connection!selectBudget
<1>2. /\ HasTurn(c) /\ Holding /\ Bounded /\ Connection!TurnKnows(c)
      /\ owner = manager[c] /\ owner \in Managers /\ owner # None
      /\ \A n \in Managers : connected[n] = Connection!NoConnection /\ quarantined[n] = None
  BY <1>1, OpensAlone DEF Opening
<1>3. live = {c} /\ request[c].kind \in {"use", "connect"} /\ Connection!Target(c) \in Budgets
  BY <1>1, <1>2, TargetKnown DEF Connection!TurnKnows
<1>4. Bounded'
  <2>1. faults' = faults \/ Connection!Throws
    BY DEF Connection!selectBudget
  <2> QED
    BY <1>1, <1>2, <2>1, BoundsKept DEF Bounded
<1>5. PICK to \in {"keep", "cleanup"} :
        /\ Connection!Step(c, to)
        /\ to = "keep" => sdk' = [connector |-> c, budget |-> Connection!Target(c)]
        /\ to = "cleanup" => sdk' \in {sdk, Connection!NoConnection}
  BY DEF Connection!selectBudget
<1>6. pc' = [pc EXCEPT ![c] = to] /\ UNCHANGED <<tail, manager, request, target>>
  BY <1>5 DEF Connection!Step
<1>7. pc'[c] = to /\ target' \in Budgets \cup {None}
  BY <1>6 DEF ConnectionCore, Connection!TypeOK
<1>8. sdk' \in Connection!Connections
  BY <1>2, <1>3, <1>5 DEF Holding, Connection!HeldTyped, Connection!Connections,
     Connection!NoConnection
<1>9. Holding'
  <2>1. OneLive' /\ live' \in SUBSET Connection!Calls
    BY <1>1, <1>3 DEF OneLive
  <2> QED
    BY <1>1, <1>2, <1>8, <2>1, NobodyHolds
<1>10. Connection!TurnKnows(c)'
  BY <1>1, <1>2, <1>3, <1>5, <1>6, <1>7 DEF Connection!TurnKnows, Connection!Target
<1>11. to \in Busy /\ to \in Opening
  BY DEF Busy, Opening
<1> QED
  BY <1>1, <1>2, <1>3, <1>4, <1>6, <1>7, <1>9, <1>10, <1>11, TurnContinues

\* The connector just opened becomes the one its manager keeps.
LEMMA ConnectorKept ==
    ASSUME ConnectionCore, NEW c \in Connection!Calls, Connection!Keep(c)
    PROVE  ConnectionCore'
<1>1. /\ pc[c] = "keep"
      /\ UNCHANGED <<owner, quarantined, sdk, live, reconfigured>>
  BY DEF Connection!Keep
<1>2. /\ HasTurn(c) /\ Holding /\ Bounded /\ Connection!TurnKnows(c)
      /\ owner = manager[c] /\ owner \in Managers /\ owner # None
      /\ \A n \in Managers : connected[n] = Connection!NoConnection /\ quarantined[n] = None
  BY <1>1, OpensAlone DEF Opening
<1>3. PICK t : t = Connection!Target(c)
  OBVIOUS
<1>4. /\ live = {c} /\ request[c].kind \in {"use", "connect"} /\ t \in Budgets
      /\ sdk = [connector |-> c, budget |-> t]
      /\ request[c].kind = "use" => request[c].expected \in {None, t}
  BY <1>1, <1>2, <1>3, TargetKnown DEF Connection!TurnKnows
<1>5. CASE Connection!Throws /\ Connection!Step(c, "cleanup") /\ UNCHANGED <<config, connected>>
  <2>1. pc' = [pc EXCEPT ![c] = "cleanup"] /\ UNCHANGED <<tail, manager, request, target>>
    BY <1>5 DEF Connection!Step
  <2>2. pc'[c] = "cleanup" /\ target' \in Budgets \cup {None}
    BY <2>1 DEF ConnectionCore, Connection!TypeOK
  <2>3. Bounded' /\ Holding'
    BY <1>1, <1>2, <1>5, BoundsKept, HeldSame DEF Bounded
  <2>4. Connection!TurnKnows(c)'
    BY <1>1, <1>2, <1>4, <1>5, <2>1, <2>2 DEF Connection!TurnKnows
  <2> QED
    BY <1>1, <1>2, <1>4, <2>1, <2>2, <2>3, <2>4, TurnContinues DEF Busy, Opening
<1>6. CASE /\ connected' = [connected EXCEPT ![manager[c]] = [connector |-> c, budget |-> t]]
           /\ faults' = faults
           /\ \/ request[c].kind = "connect" /\ config' = t /\ Connection!Release(c)
              \/ request[c].kind = "use" /\ config' = config /\ Connection!Step(c, "operate")
  <2>1. /\ connected' \in [Managers -> Connection!Connections] /\ connected'[owner] = sdk
        /\ \A n \in Managers \ {owner} : connected'[n] = Connection!NoConnection
    BY <1>2, <1>4, <1>6 DEF Holding, Connection!HeldTyped, Connection!Connections
  <2>2. sdk.connector = c /\ sdk.budget = t /\ c # None /\ t # None
    BY <1>4 DEF Connection!ConnectionConstants
  <2>3. Holding'
    <3>1. Connection!HeldTyped' /\ OneLive'
      BY <1>1, <1>2, <2>1 DEF Holding, Connection!HeldTyped, OneLive
    <3>2. \A n \in Managers : connected'[n].connector = None <=> connected'[n].budget = None
      BY <2>1, <2>2 DEF Connection!NoConnection
    <3>3. Connection!OwnerHolds'
      BY <1>1, <1>2, <2>1, <3>2 DEF Connection!OwnerHolds
    <3> QED
      BY <3>1, <3>3 DEF Holding
  <2>4. Bounded' /\ \A k \in live' : Owned(k)'
    BY <1>1, <1>2, <1>4, <1>6, <2>1, <2>2 DEF Bounded, Owned
  <2>5. CASE Connection!Release(c)
    BY <1>1, <1>2, <2>3, <2>4, <2>5, TurnEnds
  <2>6. CASE request[c].kind = "use" /\ Connection!Step(c, "operate")
    <3>1. pc' = [pc EXCEPT ![c] = "operate"] /\ UNCHANGED <<tail, manager, request, target>>
      BY <2>6 DEF Connection!Step
    <3>2. pc'[c] = "operate" /\ target' \in Budgets \cup {None}
      BY <3>1 DEF ConnectionCore, Connection!TypeOK
    <3>3. Connection!TurnKnows(c)'
      BY <1>1, <1>2, <1>4, <2>1, <2>2, <2>6, <3>1, <3>2 DEF Connection!TurnKnows
    <3> QED
      BY <1>1, <1>2, <2>3, <2>4, <3>1, <3>2, <3>3, TurnContinues DEF Busy
  <2> QED
    BY <1>6, <2>5, <2>6
<1> QED
  BY <1>3, <1>4, <1>5, <1>6 DEF Connection!Keep

\* A connector that could not be closed is quarantined by its manager.
LEMMA CleanedUp ==
    ASSUME ConnectionCore, NEW c \in Connection!Calls, Connection!Cleanup(c)
    PROVE  ConnectionCore'
<1>1. /\ pc[c] = "cleanup" /\ Connection!Release(c)
      /\ UNCHANGED <<config, connected, reconfigured>>
  BY DEF Connection!Cleanup
<1>2. /\ HasTurn(c) /\ Holding /\ Bounded /\ Connection!TurnKnows(c)
      /\ owner = manager[c] /\ owner \in Managers /\ owner # None
      /\ \A n \in Managers : connected[n] = Connection!NoConnection /\ quarantined[n] = None
  BY <1>1, OpensAlone DEF Opening
<1>3. live = {c} /\ c # None
  BY <1>1, <1>2 DEF Connection!TurnKnows, Connection!ConnectionConstants
<1>4. Bounded'
  <2>1. faults' = faults \/ Connection!Throws
    BY DEF Connection!Cleanup, Connection!disconnectConnectorFails
  <2> QED
    BY <1>1, <1>2, <2>1, BoundsKept DEF Bounded
<1>5. Connection!NoConnection \in Connection!Connections
  BY DEF Connection!NoConnection, Connection!Connections
<1>6. CASE /\ sdk' = Connection!NoConnection /\ live' = live \ {c} /\ owner' = None
           /\ quarantined' = [quarantined EXCEPT ![manager[c]] = None]
  <2>1. live' = {} /\ quarantined' = quarantined
    BY <1>2, <1>3, <1>6 DEF Holding, Connection!HeldTyped
  <2>2. Holding'
    BY <1>1, <1>2, <1>5, <1>6, <2>1, NobodyHolds DEF OneLive
  <2> QED
    BY <1>1, <1>2, <1>4, <2>1, <2>2, TurnEnds
<1>7. CASE Connection!disconnectConnectorFails(manager[c], c) /\ live' = live
  <2>1. /\ owner' = owner /\ quarantined' = [quarantined EXCEPT ![owner] = c]
        /\ sdk' \in {sdk, Connection!NoConnection}
    BY <1>2, <1>7 DEF Connection!disconnectConnectorFails
  <2>2. /\ quarantined' \in [Managers -> Connection!Calls \cup {None}] /\ quarantined'[owner] = c
        /\ \A n \in Managers \ {owner} : quarantined'[n] = None
    BY <1>2, <2>1 DEF Holding, Connection!HeldTyped
  <2>3. Connection!HeldTyped' /\ OneLive'
    BY <1>1, <1>2, <1>5, <1>7, <2>1, <2>2 DEF Holding, Connection!HeldTyped, OneLive
  <2>4. Connection!OwnerHolds'
    BY <1>1, <1>2, <1>3, <2>1, <2>2 DEF Holding, Connection!OwnerHolds
  <2>5. \A k \in live' : Owned(k)'
    BY <1>2, <1>3, <1>7, <2>1, <2>2 DEF Owned
  <2> QED
    BY <1>1, <1>2, <1>4, <2>3, <2>4, <2>5, TurnEnds DEF Holding
<1> QED
  BY <1>6, <1>7 DEF Connection!Cleanup

LEMMA OperationEnds ==
    ASSUME ConnectionCore, NEW c \in Connection!Calls,
           Connection!operation(c) \/ Connection!removeConnection(c)
    PROVE  ConnectionCore'
<1>1. /\ pc[c] \in {"operate", "delete"}
      /\ UNCHANGED <<owner, connected, quarantined, sdk, live, reconfigured>>
      /\ config' \in {config, None} /\ (faults' = faults \/ Connection!Throws)
      /\ Connection!Step(c, "close") \/ Connection!Release(c)
  BY DEF Connection!operation, Connection!removeConnection, Connection!held
<1>2. HasTurn(c)
  BY <1>1, TurnTaken DEF Busy
<1>3. Holding' /\ \A k \in live' : Owned(k)'
  BY <1>1, <1>2, LiveIsOwned, HeldSame DEF Opening
<1>4. Bounded'
  BY <1>1, CoreBounded, BoundsKept DEF Bounded
<1>5. CASE Connection!Step(c, "close")
  BY <1>1, <1>3, <1>4, <1>5, TurnCloses DEF Busy, Opening
<1>6. CASE Connection!Release(c)
  BY <1>1, <1>2, <1>3, <1>4, <1>6, TurnEnds
<1> QED
  BY <1>1, <1>5, <1>6

LEMMA Closes ==
    ASSUME ConnectionCore, NEW c \in Connection!Calls, Connection!Close(c)
    PROVE  ConnectionCore'
<1>1. pc[c] = "close" /\ UNCHANGED <<config, reconfigured>>
  BY DEF Connection!Close
<1>2. HasTurn(c)
  BY <1>1, TurnTaken DEF Busy
<1>3. Holding /\ (\A k \in live : Owned(k)) /\ Bounded
  BY <1>1, <1>2, LiveIsOwned, CoreBounded DEF Opening
<1>4. PICK m \in Managers : m = manager[c]
  BY <1>2 DEF HasTurn
<1>5. config' \in Budgets \cup {None}
  BY <1>1, <1>3 DEF Bounded
<1>6. ASSUME Holding', Bounded', \A k \in live' : Owned(k)',
             Connection!Step(c, "delete") \/ Connection!Release(c)
      PROVE  ConnectionCore'
  <2>1. CASE Connection!Step(c, "delete")
    BY <1>1, <1>6, <2>1, TurnCloses DEF Busy, Opening
  <2>2. CASE Connection!Release(c)
    BY <1>1, <1>2, <1>6, <2>2, TurnEnds
  <2> QED
    BY <1>6, <2>1, <2>2
<1>7. CASE /\ Connection!Step(c, "delete") \/ Connection!Release(c)
           /\ UNCHANGED <<owner, connected, quarantined, sdk, live, faults>>
  BY <1>1, <1>3, <1>5, <1>6, <1>7, HeldSame, BoundsKept
<1>8. CASE /\ Connection!disconnectConnected(m) /\ owner' = Connection!OwnerAfter(m)
           /\ Connection!Step(c, "delete") \/ Connection!Release(c)
  <2>1. Bounded'
    BY <1>1, <1>3, <1>5, <1>8, BoundsKept DEF Connection!disconnectConnected
  <2>2. CASE owner \in {m, None}
    <3>1. /\ connected' \in [Managers -> Connection!Connections]
          /\ quarantined' \in [Managers -> Connection!Calls \cup {None}]
          /\ sdk' \in Connection!Connections /\ live' \in SUBSET Connection!Calls /\ live' = {}
          /\ \A n \in Managers : connected'[n] = Connection!NoConnection /\ quarantined'[n] = None
      BY <1>3, <1>8, <2>2, Disconnected
    <3>2. owner' = None
      BY <1>8, <2>2 DEF Connection!OwnerAfter, Connection!Disowned
    <3>3. Holding'
      BY <3>1, <3>2 DEF Holding, Connection!HeldTyped, Connection!OwnerHolds, OneLive,
         Connection!NoConnection
    <3> QED
      BY <1>6, <1>8, <2>1, <3>1, <3>3
  <2>3. CASE owner \notin {m, None}
    <3>1. live' = live /\ sdk' = sdk /\ connected' = connected /\ quarantined' = quarantined
      BY <1>3, <1>8, <2>3, Disconnected
    <3>2. connected[m] = Connection!NoConnection /\ quarantined[m] = None
      BY <1>3, <2>3 DEF Holding, Connection!OwnerHolds
    <3>3. owner' = owner
      BY <1>8, <2>3, <3>2 DEF Connection!OwnerAfter, Connection!Disowned, Connection!NoConnection
    <3> QED
      BY <1>3, <1>6, <1>8, <2>1, <3>1, <3>3, HeldSame
  <2> QED
    BY <2>2, <2>3
<1>9. CASE Connection!disconnectConnectedFails(m) /\ Connection!Release(c)
  <2>1. Holding' /\ (\A k \in live' : Owned(k)') /\ Connection!Throws
    BY <1>3, <1>9, DisconnectFailed
  <2>2. Bounded'
    BY <1>1, <1>3, <1>5, <2>1, BoundsKept
  <2> QED
    BY <1>6, <1>9, <2>1, <2>2
<1> QED
  BY <1>4, <1>7, <1>8, <1>9 DEF Connection!Close, Connection!held

LEMMA ConnectionStep ==
    ASSUME ConnectionCore, [Connection!Next]_connectionVars
    PROVE  ConnectionCore'
<1>1. ASSUME NEW c \in Connection!Calls, Connection!Turn(c) PROVE ConnectionCore'
  BY <1>1, LifecycleStarts, OthersEvicted, DisconnectStarts, OwnerEvicted, ConfigLoaded,
     Synchronized, Dropped, Connects, BudgetSelected, ConnectorKept, CleanedUp, OperationEnds,
     Closes DEF Connection!Turn
<1>2. CASE UNCHANGED connectionVars
  <2>1. None \in Budgets \cup {None}
    OBVIOUS
  <2> QED
    BY <1>2, <2>1, ConfigurationChanges
<1> QED
  BY <1>1, <1>2, QueueJoined, ConfigurationChanges DEF Connection!Next

------------------------------------------------------------------------------
\* For any actions and number of atoms: an economic identity reaches the ledger through one
\* action, atoms go out in order with at most the last result unrecorded, what was given up
\* was never sent, and what is verified is whole (acquireProposalExecution, dispatchAtom,
\* recordConsequentialActionEffect, finalizeConsequentialActionExecution, recover).
THEOREM ActionSafeAlways == Spec => []ActionSafe
<1> DEFINE Kept == component = "action" => Core
<1>1. Init => Kept
  BY CoreInit DEF Init
<1>2. Kept /\ [Next]_vars => Kept'
  <2> SUFFICES ASSUME Kept, [Next]_vars, component' = "action" PROVE Core'
    OBVIOUS
  <2> QED
    BY Components, CoreStep
<1>3. Kept => ActionSafe
  BY CoreSuffices DEF ActionSafe
<1> QED
  BY <1>1, <1>2, <1>3, PTL DEF Spec

\* For any finite set of rule proposals: whatever calls die, lapse or repeat and whoever edits
\* the rules meanwhile, a proposal changes its rule or switch at most once, success is told
\* only of a change that was made, and a deletion that succeeded stays whole
\* (acquireProposalExecutionSync, executeRuleLifecycle, setRuleOverride, deleteRule).
THEOREM RulesSafeAlways == Spec => []RulesSafe
<1> DEFINE Kept == component = "rule" => RuleCore
<1>1. Init => Kept
  BY RuleCoreInit DEF Init
<1>2. Kept /\ [Next]_vars => Kept'
  <2> SUFFICES ASSUME Kept, [Next]_vars, component' = "rule" PROVE RuleCore'
    OBVIOUS
  <2> QED
    BY Components, RuleStep
<1>3. Kept => RulesSafe
  BY RuleCoreSuffices DEF RulesSafe
<1> QED
  BY <1>1, <1>2, <1>3, PTL DEF Spec

\* A rule that is deleted and a switch that is moved are the ones the household saw
\* (deleteRule, setRuleOverride).
THEOREM ChangesWhatWasShownAlways == Spec => ChangesWhatWasShown
<1>1. RulesSafe /\ [Next]_vars => (component = "rule" => Rule!ShownStep)
  BY Components, ShownBefore DEF RulesSafe, Rule!RulesSafe
<1> QED
  BY <1>1, RulesSafeAlways, PTL DEF Spec, ChangesWhatWasShown

\* For any humans, periods, delegations and policies: when a write goes out, as many different
\* people as the policy asks for stand behind it, none of them left since, and an agent acts
\* within a delegation whose issuer could do it (createApproval, eligibleHumanApprovals,
\* requesterMembershipCurrent, authorizeForPurpose).
THEOREM WritesBackedAlways == Spec => WritesBacked
<1> DEFINE Kept == component = "authority" => Authority!AuthorityKept
<1>1. Init => Kept
  BY AuthorityInit DEF Init
<1>2. Kept /\ [Next]_vars =>
        Kept' /\ (component = "authority" => Authority!AuthorityKept' /\ Authority!BackedStep)
  BY Components, AuthorityStep, BackedBefore
<1> QED
  BY <1>1, <1>2, PTL DEF Spec, WritesBacked
\* For any transfers, people and number of findings listed: a decision about a finding is only
\* overturned by somebody who saw it as it is, superseded and deleted findings stay so, and a
\* transfer gets a second finding only when none about it is listed (transitionFinding,
\* createFinding, the finding a liquidity step brings up to date).
THEOREM FindingsHeldAlways == Spec => FindingsHeld
<1> DEFINE Kept == component = "finding" => Attention!FindingsKept
<1>1. Init => Kept
  BY FindingsInit DEF Init
<1>2. Kept /\ [Next]_vars =>
        Kept' /\ (component = "finding" => Attention!FindingsKept' /\ Attention!FindingStep)
  BY Components, FindingsStep
<1> QED
  BY <1>1, <1>2, PTL DEF Spec, FindingsHeld
\* For any managers, calls and requests, whichever SDK or file calls throw and whoever rewrites
\* the configuration meanwhile: an operation runs on the connector of its own manager and the
\* budget its caller was authorized for, and no connector that could not be closed is lost
\* (runActualLifecycleExclusive, withConnection, connect, listBudgets, disconnectConnector).
THEOREM ConnectionSafeAlways == Spec => []ConnectionSafe
<1> DEFINE Kept == component = "connection" => ConnectionCore
<1>1. Init => Kept
  BY ConnectionCoreInit DEF Init
<1>2. Kept /\ [Next]_vars => Kept'
  <2> SUFFICES ASSUME Kept, [Next]_vars, component' = "connection" PROVE ConnectionCore'
    OBVIOUS
  <2> QED
    BY Components, ConnectionStep
<1>3. Kept => ConnectionSafe
  BY ConnectionCoreSuffices DEF ConnectionSafe
<1> QED
  BY <1>1, <1>2, <1>3, PTL DEF Spec
==============================================================================
