---------------------------- MODULE LiquidityProofs ----------------------------
(* Session completions, transfers and the announcements about them, for any      *)
(* members, attempts, transfers, movements, calls and versions: money is held    *)
(* from the approval of a write until its outcome is known, and one movement of  *)
(* the bank settles one transfer.                                                *)
EXTENDS MCLiquidity, FiniteSetTheorems, TLAPS

USE CompletionInstance, TransferInstance

\* A step belongs to the component that the first state chose.
LEMMA Components ==
    ASSUME [Next]_vars
    PROVE  /\ component = "completion" => [Completion!Next]_completionVars
           /\ component = "transfer" => [Transfer!Next]_transferVars
           /\ component' = component
  BY DEF Next, vars

USE DEF completionVars, transferVars, Completion!govVars, Completion!runVars

\* The instances count as FiniteSets does.
LEMMA SameCounts ==
    ASSUME NEW S
    PROVE  Completion!Cardinality(S) = Cardinality(S) /\ Transfer!Cardinality(S) = Cardinality(S)
<1>1. Completion!Cardinality(S) = Cardinality(S)
  BY DEF Completion!Cardinality, Cardinality
<1>2. Transfer!Cardinality(S) = Cardinality(S)
  BY DEF Transfer!Cardinality, Cardinality
<1> QED
  BY <1>1, <1>2

\* Candidate movements are finitely many.
LEMMA FiniteMovements == IsFiniteSet(Movements)
  BY DEF Transfer!TransferConstants, Transfer!IsFiniteSet, IsFiniteSet

LEMMA TwoElements ==
    ASSUME NEW x, NEW y, x # y
    PROVE  Cardinality({x, y}) = 2
<1>1. IsFiniteSet({x}) /\ Cardinality({x}) = 1
  BY FS_Singleton, Zenon
<1>2. Cardinality({x} \cup {y}) = Cardinality({x}) + 1
  BY <1>1, FS_AddElement
<1>3. {x} \cup {y} = {x, y}
  OBVIOUS
<1> QED
  BY <1>1, <1>2, <1>3

\* A set without two different elements has at most one.
LEMMA AtMostOne ==
    ASSUME NEW S, \A c, d \in S : c = d
    PROVE  Cardinality(S) <= 1
<1>1. CASE S = {}
  BY <1>1, FS_EmptySet
<1>2. ASSUME NEW c \in S PROVE Cardinality(S) <= 1
  <2>1. S = {c}
    BY <1>2
  <2>2. Cardinality({c}) = 1
    BY FS_Singleton, Zenon
  <2> QED
    BY <2>1, <2>2
<1> QED
  BY <1>1, <1>2

\* The part of CompletionSafe that one step has to keep; OneWrite follows from it.
Core ==
    /\ Completion!TypeOK /\ Completion!HoldKept /\ Completion!OneLive /\ Completion!ExecutionKnown
    /\ other => ~\E c \in Attempts : Completion!Owning(c)

LEMMA CoreSuffices == Core => Completion!CompletionSafe
<1> SUFFICES ASSUME Core PROVE Completion!CompletionSafe
  OBVIOUS
<1>1. \A c, d \in sent : c = d
  BY DEF Core, Completion!TypeOK, Completion!ExecutionKnown, Completion!OneLive, Completion!Live,
     Completion!Owning
<1>2. \A c, d \in {e \in Attempts : Completion!Owning(e)} : c = d
  BY DEF Core, Completion!OneLive, Completion!Live, Completion!Owning
<1>3. Cardinality(sent) <= 1 /\ Cardinality({c \in Attempts : Completion!Owning(c)}) <= 1
  BY <1>1, <1>2, AtMostOne
<1>4. /\ Completion!Cardinality(sent) <= 1
      /\ Completion!Cardinality({c \in Attempts : Completion!Owning(c)}) <= 1
  <2> HIDE DEF Core
  <2> QED
    BY <1>3, SameCounts
<1> QED
  BY <1>4 DEF Core, Completion!CompletionSafe, Completion!OneWrite

\* A new session has nothing in flight.
LEMMA CoreInit == Completion!Init => Core
<1> SUFFICES ASSUME Completion!Init PROVE Core
  OBVIOUS
<1>1. Completion!TypeOK
  <2>1. 0 \in 0..MaxVersion /\ 0 \in 0..MaxPolicy /\ 1 \in Completion!Versions /\ 1 \in 1..MaxPolicy
    BY DEF Completion!CompletionConstants, Completion!Versions
  <2>2. session \in [version : Completion!Versions, gov : 1..MaxPolicy, live : BOOLEAN]
    BY <2>1 DEF Completion!Init
  <2> QED
    BY <2>1, <2>2 DEF Completion!Init, Completion!TypeOK, Completion!Completions, Completion!Phases
<1>2. \A c \in Attempts : Completion!Phase(c) = "none"
  BY DEF Completion!Init, Completion!Phase
<1>3. Completion!HoldKept /\ Completion!OneLive /\ Completion!ExecutionKnown
  BY <1>2 DEF Completion!Init, Completion!HoldKept, Completion!OneLive, Completion!Live,
     Completion!ExecutionKnown, Completion!Owning
<1> QED
  BY <1>1, <1>3 DEF Completion!Init, Core

------------------------------------------------------------------------------
(* Types. *)

\* A completion's record after its phase, or its expiry, is set.
LEMMA CompletionRecord ==
    ASSUME NEW r \in Completion!Completions, NEW ph \in Completion!Phases, NEW e \in BOOLEAN
    PROVE  /\ [r EXCEPT !.phase = ph] \in Completion!Completions /\ [r EXCEPT !.phase = ph].phase = ph
           /\ [r EXCEPT !.expired = e] \in Completion!Completions /\ [r EXCEPT !.expired = e].phase = r.phase
BY DEF Completion!Completions

\* What TypeOK says of the completions.
LEMMA CompTyped ==
    ASSUME Completion!TypeOK
    PROVE  comp \in [Attempts -> Completion!Completions] /\ \A c \in Attempts : Completion!Phase(c) \in Completion!Phases
<1>1. comp \in [Attempts -> Completion!Completions]
  BY DEF Completion!TypeOK
<1> QED
  BY <1>1 DEF Completion!Phase, Completion!Completions

\* Setting the phase of one completion.
LEMMA SetPhase ==
    ASSUME Completion!TypeOK, NEW c \in Attempts, NEW ph \in Completion!Phases, comp' = [comp EXCEPT ![c].phase = ph]
    PROVE  /\ comp' \in [Attempts -> Completion!Completions]
           /\ Completion!Phase(c)' = ph /\ \A d \in Attempts \ {c} : Completion!Phase(d)' = Completion!Phase(d)
<1>1. comp[c] \in Completion!Completions /\ comp \in [Attempts -> Completion!Completions]
  BY CompTyped
<1>2. comp' = [comp EXCEPT ![c] = [comp[c] EXCEPT !.phase = ph]]
  BY <1>1 DEF Completion!Completions
<1>3. [comp[c] EXCEPT !.phase = ph] \in Completion!Completions /\ [comp[c] EXCEPT !.phase = ph].phase = ph
  BY <1>1, CompletionRecord
<1> QED
  BY <1>1, <1>2, <1>3 DEF Completion!Phase

\* closeCompletion sets the phase of several.
LEMMA Close ==
    ASSUME Completion!TypeOK, NEW C \in SUBSET Attempts, Completion!closeCompletion(C)
    PROVE  /\ comp' \in [Attempts -> Completion!Completions]
           /\ apr' \in [Attempts -> [Members -> {"none", "active", "consumed", "superseded"}]]
           /\ hold' \in [Attempts -> {"none", "active", "initiated", "settled", "released"}]
           /\ moved' \in SUBSET Attempts
           /\ \A c \in C : Completion!Phase(c)' = "closed" /\ hold'[c] = "released"
           /\ \A c \in Attempts \ C : Completion!Phase(c)' = Completion!Phase(c) /\ hold'[c] = hold[c]
<1>1. comp \in [Attempts -> Completion!Completions]
  BY CompTyped
<1>2. \A c \in Attempts : /\ [comp[c] EXCEPT !.phase = "closed"] \in Completion!Completions
                          /\ [comp[c] EXCEPT !.phase = "closed"].phase = "closed"
  BY <1>1, CompletionRecord DEF Completion!Phases
<1>3. /\ comp' \in [Attempts -> Completion!Completions]
      /\ \A c \in C : Completion!Phase(c)' = "closed"
      /\ \A c \in Attempts \ C : Completion!Phase(c)' = Completion!Phase(c)
  BY <1>1, <1>2 DEF Completion!closeCompletion, Completion!Phase
<1>4. apr' \in [Attempts -> [Members -> {"none", "active", "consumed", "superseded"}]]
  BY DEF Completion!closeCompletion, Completion!Supersede, Completion!TypeOK
<1>5. /\ hold' \in [Attempts -> {"none", "active", "initiated", "settled", "released"}]
      /\ \A c \in C : hold'[c] = "released"
      /\ \A c \in Attempts \ C : hold'[c] = hold[c]
  BY DEF Completion!closeCompletion, Completion!TypeOK
<1>6. moved' \in SUBSET Attempts
  BY DEF Completion!closeCompletion, Completion!bump, Completion!TypeOK
<1> QED
  BY <1>3, <1>4, <1>5, <1>6

\* Every operation keeps the types.
LEMMA TypeStep ==
    ASSUME Completion!TypeOK, [Completion!Next]_completionVars
    PROVE  Completion!TypeOK'
<1> USE DEF Completion!TypeOK
<1>1. CASE UNCHANGED completionVars
  BY <1>1
<1>2. CASE Completion!saveSpendSession
  <2>1. session' \in [version : Completion!Versions, gov : 1..MaxPolicy, live : BOOLEAN]
    BY <1>2 DEF Completion!saveSpendSession, Completion!Versions, Completion!CompletionConstants
  <2> QED
    BY <1>2, <2>1, Close DEF Completion!saveSpendSession, Completion!invalidateCompletionProposals
<1>3. CASE Completion!cancelSpendSession
  <2>1. session' \in [version : Completion!Versions, gov : 1..MaxPolicy, live : BOOLEAN]
    <3>1. PICK v : v = session.version + 1
      OBVIOUS
    <3>2. v \in Completion!Versions
      BY <1>3, <3>1 DEF Completion!cancelSpendSession, Completion!Versions,
         Completion!CompletionConstants
    <3>3. session' = [session EXCEPT !.version = v, !.live = FALSE]
      BY <1>3, <3>1 DEF Completion!cancelSpendSession
    <3> QED
      BY <3>2, <3>3
  <2> QED
    BY <1>3, <2>1, Close DEF Completion!cancelSpendSession, Completion!invalidateCompletionProposals
<1>4. CASE Completion!SessionExpires
  <2>1. session' \in [version : Completion!Versions, gov : 1..MaxPolicy, live : BOOLEAN]
    BY <1>4 DEF Completion!SessionExpires
  <2>2. \A c \in Attempts : [comp[c] EXCEPT !.expired = TRUE] \in Completion!Completions
    BY CompletionRecord DEF Completion!Phases
  <2>3. comp' \in [Attempts -> Completion!Completions]
    BY <1>4, <2>2 DEF Completion!SessionExpires
  <2> QED
    BY <1>4, <2>1, <2>3 DEF Completion!SessionExpires
<1>5. CASE Completion!expire
  BY <1>5, Close DEF Completion!expire, Completion!invalidateCompletionProposals
<1>6. CASE Completion!claimSet
  BY <1>6 DEF Completion!claimSet, Completion!bump
<1>7. CASE Completion!saveProspectiveClaim
  BY <1>7 DEF Completion!saveProspectiveClaim, Completion!bump
<1>8. ASSUME NEW v \in Completion!Versions, Completion!releaseProspectiveClaim(v) PROVE Completion!TypeOK'
  BY <1>8 DEF Completion!releaseProspectiveClaim, Completion!bump
<1>9. CASE Completion!savePolicy
  BY <1>9, Close DEF Completion!savePolicy, Completion!invalidateCompletionProposals,
     Completion!CompletionConstants
<1>10. CASE Completion!setGovernancePolicy
  BY <1>10 DEF Completion!setGovernancePolicy, Completion!CompletionConstants
<1>11. ASSUME NEW a \in Members, Completion!Leave(a) PROVE Completion!TypeOK'
  <2>1. ASSUME NEW c \in Attempts
        PROVE  apr'[c] \in [Members -> {"none", "active", "consumed", "superseded"}]
    BY <1>11 DEF Completion!Leave
  <2>2. apr' = [c \in Attempts |-> apr'[c]]
    BY <1>11 DEF Completion!Leave
  <2>3. apr' \in [Attempts -> [Members -> {"none", "active", "consumed", "superseded"}]]
    BY <2>1, <2>2
  <2> QED
    BY <1>11, <2>3 DEF Completion!Leave
<1>12. CASE Completion!RevokeGrant
  BY <1>12 DEF Completion!RevokeGrant
<1>13. CASE Completion!OtherOwner
  BY <1>13 DEF Completion!OtherOwner
<1>14. ASSUME NEW c \in Attempts, Completion!admitSessionCompletion(c) PROVE Completion!TypeOK'
  <2>1. [phase |-> "proposed", sver |-> session.version, pol |-> policy, gov |-> gov,
         expired |-> FALSE] \in Completion!Completions
    BY DEF Completion!Completions, Completion!Phases, Completion!Versions,
       Completion!CompletionConstants
  <2> QED
    BY <1>14, <2>1 DEF Completion!admitSessionCompletion, Completion!bump
<1>15. ASSUME NEW c \in Attempts, NEW a \in Members, Completion!approveSessionCompletion(c, a) PROVE Completion!TypeOK'
  <2>1. comp' \in [Attempts -> Completion!Completions]
    <3>1. PICK ph \in Completion!Phases : comp' = [comp EXCEPT ![c].phase = ph]
      BY <1>15 DEF Completion!approveSessionCompletion, Completion!Phases
    <3> QED
      BY <3>1, SetPhase
  <2> QED
    BY <1>15, <2>1 DEF Completion!approveSessionCompletion
<1>16. ASSUME NEW c \in Attempts, Completion!beginSessionCompletionWrite(c) PROVE Completion!TypeOK'
  <2>1. comp' \in [Attempts -> Completion!Completions]
    BY <1>16, SetPhase DEF Completion!beginSessionCompletionWrite, Completion!Phases
  <2>2. apr' \in [Attempts -> [Members -> {"none", "active", "consumed", "superseded"}]]
    BY <1>16 DEF Completion!beginSessionCompletionWrite
  <2> QED
    BY <1>16, <2>1, <2>2 DEF Completion!beginSessionCompletionWrite
<1>17. ASSUME NEW c \in Attempts, Completion!staleError(c) PROVE Completion!TypeOK'
  BY <1>17, Close DEF Completion!staleError
<1>18. ASSUME NEW c \in Attempts, Completion!Preflight(c) PROVE Completion!TypeOK'
  BY <1>18 DEF Completion!Preflight
<1>19. ASSUME NEW c \in Attempts, Completion!createManualTransaction(c) PROVE Completion!TypeOK'
  BY <1>19 DEF Completion!createManualTransaction
<1>20. ASSUME NEW c \in Attempts, Completion!Land(c) PROVE Completion!TypeOK'
  BY <1>20 DEF Completion!Land
<1>21. ASSUME NEW c \in Attempts, Completion!Reread(c) PROVE Completion!TypeOK'
  BY <1>21 DEF Completion!Reread
<1>22. ASSUME NEW c \in Attempts, Completion!Verified(c)
       PROVE  /\ comp' \in [Attempts -> Completion!Completions]
              /\ hold' \in [Attempts -> {"none", "active", "initiated", "settled", "released"}]
              /\ claims' \in SUBSET Completion!Versions /\ moved' \in SUBSET Attempts /\ apr' = apr
  BY <1>22, SetPhase DEF Completion!Verified, Completion!bump, Completion!Phases
<1>23. ASSUME NEW c \in Attempts, Completion!finishSessionCompletionWrite(c) PROVE Completion!TypeOK'
  <2>1. UNCHANGED <<session, Completion!govVars, sent, ledger, other>>
        /\ exec' = [exec EXCEPT ![c] = "idle"]
    BY <1>23 DEF Completion!finishSessionCompletionWrite
  <2>2. CASE Completion!Verified(c)
    BY <1>22, <2>1, <2>2
  <2>3. CASE /\ comp' = [comp EXCEPT ![c].phase = "closed"]
             /\ hold' = [hold EXCEPT ![c] = "released"]
             /\ apr' = Completion!Supersede({c}) /\ Completion!bump /\ UNCHANGED claims
    <3>1. comp' \in [Attempts -> Completion!Completions]
      BY <2>3, SetPhase DEF Completion!Phases
    <3>2. apr' \in [Attempts -> [Members -> {"none", "active", "consumed", "superseded"}]]
      BY <2>3 DEF Completion!Supersede
    <3> QED
      BY <2>1, <2>3, <3>1, <3>2 DEF Completion!bump
  <2>4. CASE /\ comp' = [comp EXCEPT ![c].phase = "review_required"]
             /\ UNCHANGED <<apr, hold, claims, moved>>
    <3>1. comp' \in [Attempts -> Completion!Completions]
      BY <2>4, SetPhase DEF Completion!Phases
    <3> QED
      BY <2>1, <2>4, <3>1
  <2> QED
    BY <1>23, <2>2, <2>3, <2>4 DEF Completion!finishSessionCompletionWrite
<1>24. ASSUME NEW c \in Attempts, Completion!Abandon(c) PROVE Completion!TypeOK'
  BY <1>24 DEF Completion!Abandon
<1>25. ASSUME NEW c \in Attempts, Completion!reconcileSessionCompletion(c) PROVE Completion!TypeOK'
  <2>1. UNCHANGED <<session, Completion!govVars, Completion!runVars, other>>
    BY <1>25 DEF Completion!reconcileSessionCompletion
  <2>2. CASE Completion!Verified(c)
    BY <1>22, <2>1, <2>2
  <2>3. CASE /\ comp' = [comp EXCEPT ![c].phase = "review_required"]
             /\ UNCHANGED <<apr, hold, claims, moved>>
    <3>1. comp' \in [Attempts -> Completion!Completions]
      BY <2>3, SetPhase DEF Completion!Phases
    <3> QED
      BY <2>1, <2>3, <3>1
  <2> QED
    BY <1>25, <2>2, <2>3 DEF Completion!reconcileSessionCompletion
<1> QED
  BY <1>1, <1>2, <1>3, <1>4, <1>5, <1>6, <1>7, <1>8, <1>9, <1>10, <1>11, <1>12, <1>13, <1>14,
     <1>15, <1>16, <1>17, <1>18, <1>19, <1>20, <1>21, <1>23, <1>24, <1>25 DEF Completion!Next

------------------------------------------------------------------------------
(* The core. *)

\* The invariant without the types: what an operation may not break between two calls.
Rest ==
    /\ Completion!HoldKept /\ Completion!OneLive /\ Completion!ExecutionKnown
    /\ other => ~\E c \in Attempts : Completion!Owning(c)

LEMMA CoreParts == Core <=> Completion!TypeOK /\ Rest
BY DEF Core, Rest

\* Steps that leave the completions, their holds and their executions alone.
LEMMA RestUnchanged ==
    ASSUME Rest, UNCHANGED <<hold, exec, sent, ledger, other>>,
           \A c \in Attempts : Completion!Phase(c)' = Completion!Phase(c)
    PROVE  Rest'
BY DEF Rest, Completion!HoldKept, Completion!OneLive, Completion!Live, Completion!ExecutionKnown,
   Completion!Owning

\* Closing completions that have no write intent yet.
LEMMA CloseKeeps ==
    ASSUME Completion!TypeOK, Rest, NEW C \in SUBSET Attempts, \A c \in C : Completion!Pending(c),
           Completion!closeCompletion(C), UNCHANGED <<exec, sent, ledger, other>>
    PROVE  Rest'
<1>1. /\ \A c \in C : Completion!Phase(c)' = "closed" /\ hold'[c] = "released"
      /\ \A c \in Attempts \ C : Completion!Phase(c)' = Completion!Phase(c) /\ hold'[c] = hold[c]
  BY Close
<1> QED
  BY <1>1 DEF Rest, Completion!HoldKept, Completion!OneLive, Completion!Live,
     Completion!ExecutionKnown, Completion!Owning, Completion!Pending

\* One completion moves on; its hold and its execution move with it.
LEMMA OneMoves ==
    ASSUME Rest, NEW c \in Attempts, Completion!Live(c) \/ \A d \in Attempts : ~Completion!Live(d),
           \A d \in Attempts \ {c} : /\ Completion!Phase(d)' = Completion!Phase(d) /\ hold'[d] = hold[d]
                                     /\ exec'[d] = exec[d]
                                     /\ d \in sent' <=> d \in sent
                                     /\ d \in ledger' <=> d \in ledger,
           UNCHANGED other, other => ~Completion!Owning(c)',
           (Completion!Owning(c) => hold[c] = "initiated")',
           (c \in sent => hold[c] \in {"initiated", "settled"})',
           (hold[c] = "settled" <=> Completion!Phase(c) = "verified")',
           (Completion!Phase(c) = "verified" => c \in ledger)',
           (exec[c] # "idle" \/ c \in sent => Completion!Owning(c) \/ Completion!Phase(c) = "verified")',
           (exec[c] \in {"begun", "candidate"} => c \notin sent)',
           (exec[c] = "confirmed" => c \in ledger)'
    PROVE  Rest'
<1>1. Completion!HoldKept'
  BY DEF Rest, Completion!HoldKept, Completion!Owning
<1>2. Completion!ExecutionKnown'
  BY DEF Rest, Completion!ExecutionKnown, Completion!Owning
<1>3. Completion!OneLive'
  BY DEF Rest, Completion!OneLive, Completion!Live
<1>4. other' => ~\E d \in Attempts : Completion!Owning(d)'
  BY DEF Rest, Completion!Owning
<1> QED
  BY <1>1, <1>2, <1>3, <1>4 DEF Rest

\* Every operation keeps the core.
LEMMA RestStep ==
    ASSUME Completion!TypeOK, Rest, [Completion!Next]_completionVars
    PROVE  Rest'
<1> USE DEF Completion!Phase, Completion!Pending, Completion!Live, Completion!Owning
<1>1. CASE UNCHANGED <<comp, hold, exec, sent, ledger, other>>
  BY <1>1, RestUnchanged
<1>2. ASSUME Completion!invalidateCompletionProposals, UNCHANGED <<exec, sent, ledger, other>> PROVE Rest'
  BY <1>2, CloseKeeps DEF Completion!invalidateCompletionProposals
<1>3. CASE Completion!SessionExpires
  <2>1. \A c \in Attempts : [comp[c] EXCEPT !.expired = TRUE].phase = comp[c].phase
    BY CompTyped, CompletionRecord DEF Completion!Phases
  <2>2. \A c \in Attempts : Completion!Phase(c)' = Completion!Phase(c)
    BY <1>3, <2>1 DEF Completion!SessionExpires
  <2> QED
    BY <1>3, <2>2, RestUnchanged DEF Completion!SessionExpires
<1>4. CASE Completion!claimSet
  <2>1. \A c \in Attempts : hold'[c] = hold[c] \/ (hold[c] = "active" /\ hold'[c] = "released")
    BY <1>4 DEF Completion!claimSet, Completion!TypeOK
  <2>2. UNCHANGED <<comp, exec, sent, ledger, other>>
    BY <1>4 DEF Completion!claimSet
  <2> QED
    BY <2>1, <2>2 DEF Rest, Completion!HoldKept, Completion!OneLive, Completion!ExecutionKnown
<1>5. CASE Completion!OtherOwner
  BY <1>5 DEF Completion!OtherOwner, Rest, Completion!HoldKept, Completion!OneLive,
     Completion!ExecutionKnown, Completion!TypeOK
<1>6. ASSUME NEW c \in Attempts, Completion!admitSessionCompletion(c) PROVE Rest'
  <2>1. \A d \in Attempts : ~Completion!Live(d)
    BY <1>6 DEF Completion!admitSessionCompletion
  <2>2. Completion!Phase(c)' = "proposed" /\ hold'[c] = "active"
        /\ \A d \in Attempts \ {c} : Completion!Phase(d)' = Completion!Phase(d) /\ hold'[d] = hold[d]
    BY <1>6 DEF Completion!admitSessionCompletion, Completion!TypeOK
  <2>3. UNCHANGED <<exec, sent, ledger, other>> /\ exec[c] = "idle" /\ c \notin sent
    BY <1>6 DEF Completion!admitSessionCompletion, Rest, Completion!ExecutionKnown
  <2> QED
    BY <2>1, <2>2, <2>3, OneMoves
<1>7. ASSUME NEW c \in Attempts, NEW a \in Members, Completion!approveSessionCompletion(c, a) PROVE Rest'
  <2>1. PICK ph \in {"approved", "proposed"} : comp' = [comp EXCEPT ![c].phase = ph]
    BY <1>7 DEF Completion!approveSessionCompletion
  <2>2. Completion!Phase(c)' = ph /\ \A d \in Attempts \ {c} : Completion!Phase(d)' = Completion!Phase(d)
    BY <2>1, SetPhase DEF Completion!Phases
  <2>3. UNCHANGED <<hold, exec, sent, ledger, other>> /\ Completion!Pending(c)
    BY <1>7 DEF Completion!approveSessionCompletion, Completion!completionCommand
  <2>4. exec[c] = "idle" /\ c \notin sent /\ hold[c] # "settled"
    BY <2>3 DEF Rest, Completion!ExecutionKnown, Completion!HoldKept
  <2> QED
    BY <2>1, <2>2, <2>3, <2>4, OneMoves
<1>8. ASSUME NEW c \in Attempts, Completion!beginSessionCompletionWrite(c) PROVE Rest'
  <2>1. Completion!Phase(c)' = "write_intent" /\ \A d \in Attempts \ {c} : Completion!Phase(d)' = Completion!Phase(d)
    BY <1>8, SetPhase DEF Completion!beginSessionCompletionWrite, Completion!Phases
  <2>2. /\ hold'[c] = "initiated" /\ exec'[c] = "begun" /\ UNCHANGED <<sent, ledger, other>>
        /\ \A d \in Attempts \ {c} : hold'[d] = hold[d] /\ exec'[d] = exec[d]
    BY <1>8 DEF Completion!beginSessionCompletionWrite, Completion!TypeOK
  <2>3. Completion!Phase(c) = "approved" /\ ~other
    BY <1>8 DEF Completion!beginSessionCompletionWrite, Completion!hasConflictingBudgetMutationOwner
  <2>4. c \notin sent
    BY <2>3 DEF Rest, Completion!ExecutionKnown
  <2> QED
    BY <2>1, <2>2, <2>3, <2>4, OneMoves
<1>9. ASSUME NEW c \in Attempts, Completion!staleError(c) PROVE Rest'
  BY <1>9, CloseKeeps DEF Completion!staleError, Completion!completionCommand
<1>10. ASSUME NEW c \in Attempts, exec[c] # "idle", UNCHANGED <<comp, hold, other>>,
              sent \subseteq sent', sent' \subseteq sent \cup {c}, ledger' = ledger,
              \A d \in Attempts \ {c} : exec'[d] = exec[d],
              exec'[c] \in {"begun", "candidate"} => c \notin sent',
              exec'[c] = "confirmed" => c \in ledger
       PROVE  Rest'
  <2>1. Completion!Owning(c) \/ Completion!Phase(c) = "verified"
    BY <1>10 DEF Rest, Completion!ExecutionKnown
  <2> QED
    BY <1>10, <2>1 DEF Rest, Completion!HoldKept, Completion!OneLive, Completion!ExecutionKnown
<1>11. ASSUME NEW c \in Attempts, Completion!Preflight(c) PROVE Rest'
  <2>1. c \notin sent
    BY <1>11 DEF Completion!Preflight, Rest, Completion!ExecutionKnown
  <2> QED
    BY <1>10, <1>11, <2>1 DEF Completion!Preflight, Completion!TypeOK
<1>12. ASSUME NEW c \in Attempts, Completion!createManualTransaction(c) PROVE Rest'
  BY <1>10, <1>12 DEF Completion!createManualTransaction, Completion!TypeOK
<1>13. ASSUME NEW c \in Attempts, Completion!Land(c) PROVE Rest'
  BY <1>13 DEF Completion!Land, Rest, Completion!HoldKept, Completion!OneLive,
     Completion!ExecutionKnown
<1>14. ASSUME NEW c \in Attempts, Completion!Reread(c) PROVE Rest'
  BY <1>10, <1>14 DEF Completion!Reread, Completion!TypeOK
<1>15. ASSUME NEW c \in Attempts, Completion!Abandon(c) PROVE Rest'
  BY <1>10, <1>15 DEF Completion!Abandon, Completion!TypeOK
<1>16. ASSUME NEW c \in Attempts, Completion!Owning(c), c \in ledger, Completion!Verified(c), UNCHANGED <<sent, ledger, other>>,
              exec' = exec \/ exec' = [exec EXCEPT ![c] = "idle"]
       PROVE  Rest'
  <2>1. Completion!Phase(c)' = "verified" /\ \A d \in Attempts \ {c} : Completion!Phase(d)' = Completion!Phase(d)
    BY <1>16, SetPhase DEF Completion!Verified, Completion!Phases
  <2>2. /\ hold'[c] = "settled" /\ exec'[c] \in {"idle", exec[c]}
        /\ \A d \in Attempts \ {c} : hold'[d] = hold[d] /\ exec'[d] = exec[d]
    BY <1>16 DEF Completion!Verified, Completion!TypeOK
  <2>3. /\ exec[c] \in {"begun", "candidate"} => c \notin sent
        /\ exec[c] = "confirmed" => c \in ledger
    BY DEF Rest, Completion!ExecutionKnown
  <2> QED
    BY <1>16, <2>1, <2>2, <2>3, OneMoves
<1>17. ASSUME NEW c \in Attempts, Completion!Owning(c), comp' = [comp EXCEPT ![c].phase = "review_required"],
              UNCHANGED <<hold, sent, ledger, other>>,
              exec' = exec \/ exec' = [exec EXCEPT ![c] = "idle"]
       PROVE  Rest'
  <2>1. Completion!Phase(c)' = "review_required" /\ \A d \in Attempts \ {c} : Completion!Phase(d)' = Completion!Phase(d)
    BY <1>17, SetPhase DEF Completion!Phases
  <2>2. exec'[c] \in {"idle", exec[c]} /\ \A d \in Attempts \ {c} : exec'[d] = exec[d]
    BY <1>17 DEF Completion!TypeOK
  <2>3. /\ exec[c] \in {"begun", "candidate"} => c \notin sent
        /\ exec[c] = "confirmed" => c \in ledger
        /\ hold[c] = "initiated" /\ ~other
    BY <1>17 DEF Rest, Completion!ExecutionKnown, Completion!HoldKept
  <2> QED
    BY <1>17, <2>1, <2>2, <2>3, OneMoves
<1>18. ASSUME NEW c \in Attempts, Completion!finishSessionCompletionWrite(c) PROVE Rest'
  <2>1. /\ UNCHANGED <<sent, ledger, other>> /\ exec' = [exec EXCEPT ![c] = "idle"]
        /\ Completion!Phase(c) = "write_intent"
    BY <1>18 DEF Completion!finishSessionCompletionWrite
  <2>2. CASE exec[c] = "confirmed" /\ Completion!Verified(c)
    BY <1>16, <2>1, <2>2 DEF Rest, Completion!ExecutionKnown
  <2>3. CASE /\ exec[c] = "candidate"
             /\ comp' = [comp EXCEPT ![c].phase = "closed"]
             /\ hold' = [hold EXCEPT ![c] = "released"]
    <3>1. Completion!Phase(c)' = "closed" /\ \A d \in Attempts \ {c} : Completion!Phase(d)' = Completion!Phase(d)
      BY <2>3, SetPhase DEF Completion!Phases
    <3>2. /\ hold'[c] = "released" /\ exec'[c] = "idle"
          /\ \A d \in Attempts \ {c} : hold'[d] = hold[d] /\ exec'[d] = exec[d]
      BY <2>1, <2>3 DEF Completion!TypeOK
    <3>3. c \notin sent
      BY <2>3 DEF Rest, Completion!ExecutionKnown
    <3> QED
      BY <2>1, <3>1, <3>2, <3>3, OneMoves
  <2>4. CASE /\ comp' = [comp EXCEPT ![c].phase = "review_required"]
             /\ UNCHANGED <<apr, hold, claims, moved>>
    BY <1>17, <2>1, <2>4
  <2> QED
    BY <1>18, <2>2, <2>3, <2>4 DEF Completion!finishSessionCompletionWrite
<1>19. ASSUME NEW c \in Attempts, Completion!reconcileSessionCompletion(c) PROVE Rest'
  BY <1>16, <1>17, <1>19 DEF Completion!reconcileSessionCompletion
<1> QED
  BY <1>1, <1>2, <1>3, <1>4, <1>5, <1>6, <1>7, <1>8, <1>9, <1>11, <1>12, <1>13, <1>14, <1>15,
     <1>18, <1>19
     DEF Completion!Next, Completion!saveSpendSession, Completion!cancelSpendSession,
        Completion!expire, Completion!saveProspectiveClaim,
         Completion!releaseProspectiveClaim, Completion!savePolicy,
            Completion!setGovernancePolicy, Completion!Leave, Completion!RevokeGrant

\* What a dispatch rests on.
LEMMA DispatchStep ==
    ASSUME Completion!CompletionSafe, [Completion!Next]_completionVars
    PROVE  Completion!DispatchStep
<1> SUFFICES ASSUME Completion!CompletionSafe, Completion!Next, NEW c \in sent' \ sent
             PROVE  /\ session.version = comp[c].sver /\ session.live
                    /\ policy = comp[c].pol /\ gov = comp[c].gov
                    /\ Completion!Cardinality({a \in members \ {Requester} : apr[c][a] = "consumed"}) >= Required
                    /\ hold[c] = "initiated" /\ ~other /\ sent = {}
  BY DEF Completion!DispatchStep
<1>1. PICK d \in Attempts : Completion!createManualTransaction(d)
  BY DEF Completion!Next, Completion!saveSpendSession, Completion!cancelSpendSession,
     Completion!SessionExpires, Completion!expire, Completion!claimSet,
     Completion!saveProspectiveClaim, Completion!releaseProspectiveClaim, Completion!savePolicy,
        Completion!setGovernancePolicy, Completion!Leave,
     Completion!RevokeGrant, Completion!OtherOwner, Completion!admitSessionCompletion,
        Completion!approveSessionCompletion,
     Completion!beginSessionCompletionWrite, Completion!staleError, Completion!Preflight,
        Completion!Land, Completion!Reread,
     Completion!finishSessionCompletionWrite, Completion!Abandon,
        Completion!reconcileSessionCompletion
<1>2. c = d /\ c \in Attempts /\ exec[c] = "begun" /\ Completion!validateSessionCompletionWrite(c)
  BY <1>1 DEF Completion!createManualTransaction
<1>3. session.version = comp[c].sver /\ session.live /\ comp[c].pol = policy
      /\ Completion!Phase(c) = "write_intent"
  BY <1>2 DEF Completion!validateSessionCompletionWrite, Completion!completionSession
<1>4. hold[c] = "initiated" /\ ~other
  BY <1>2, <1>3 DEF Completion!CompletionSafe, Completion!HoldKept, Completion!OneWrite,
     Completion!Owning
<1>5. sent = {}
  <2>1. \A e \in sent : e \in Attempts /\ (Completion!Owning(e) \/ Completion!Phase(e) = "verified")
    BY DEF Completion!CompletionSafe, Completion!ExecutionKnown, Completion!TypeOK
  <2>2. \A e \in sent : e = c
    BY <1>2, <1>3, <2>1 DEF Completion!CompletionSafe, Completion!OneLive, Completion!Live,
       Completion!Owning
  <2> QED
    BY <1>2, <2>2 DEF Completion!CompletionSafe, Completion!ExecutionKnown
<1>6. gov = comp[c].gov
  <2>1. SUFFICES ASSUME gov # comp[c].gov PROVE FALSE
    OBVIOUS
  <2>2. Completion!Approvers(c, {"active", "consumed"}) = {}
    BY <2>1 DEF Completion!Approvers
  <2>3. Completion!Cardinality({}) >= Required
    BY <1>2, <2>2 DEF Completion!validateSessionCompletionWrite, Completion!Enough
  <2> QED
    BY <2>3, FS_EmptySet, SameCounts DEF Completion!CompletionConstants
<1>7. Completion!Approvers(c, {"active", "consumed"}) = {a \in members \ {Requester} : apr[c][a] = "consumed"}
  BY <1>2, <1>6 DEF Completion!Approvers, Completion!validateSessionCompletionWrite
<1>8. Completion!Cardinality({a \in members \ {Requester} : apr[c][a] = "consumed"}) >= Required
  BY <1>2, <1>7 DEF Completion!validateSessionCompletionWrite, Completion!Enough
<1> QED
  BY <1>3, <1>4, <1>5, <1>6, <1>8

------------------------------------------------------------------------------
\* What is to be kept of one transfer: its reservation, the movement that confirmed it, and
\* the approvals it was initiated on.
Held(t) ==
    /\ (\E a \in Members : tapr[t][a] = "consumed") => claim[t] \in {"initiated", "settled"}
    /\ phase[t] = "initiated" <=> claim[t] = "initiated"
    /\ phase[t] = "confirmed" <=> claim[t] = "settled"
    /\ phase[t] = "confirmed" =>
          \E m \in Movements : \A s \in Transfer!Sides :
              owner[<<m, s>>] = t /\ <<m, s>> \notin baseline[t]
    /\ phase[t] \in {"initiated", "confirmed"} =>
          Transfer!Cardinality({a \in fresh[t] \ {Requester} : tapr[t][a] = "consumed"})
              >= Required
    /\ \A a \in Members : tapr[t][a] = "active" => a \in fresh[t]

LEMMA TransfersParts == Transfer!TransfersSafe <=> Transfer!TypeOK /\ \A t \in Transfers : Held(t)
BY DEF Transfer!TransfersSafe, Held, Transfer!ReservationKept, Transfer!ConfirmedByOneMovement,
   Transfer!InitiatedOnFreshApprovals, Transfer!ApprovalsFresh

LEMMA TransfersAfter ==
    Transfer!TypeOK' /\ (\A t \in Transfers : Held(t)') => Transfer!TransfersSafe'
BY DEF Transfer!TransfersSafe, Held, Transfer!ReservationKept, Transfer!ConfirmedByOneMovement,
   Transfer!InitiatedOnFreshApprovals, Transfer!ApprovalsFresh

LEMMA TransfersInit == Transfer!Init => Transfer!TransfersSafe
<1> SUFFICES ASSUME Transfer!Init PROVE Transfer!TransfersSafe
  OBVIOUS
<1>1. Transfer!TypeOK
  BY DEF Transfer!Init, Transfer!TypeOK
<1>2. \A t \in Transfers : Held(t)
  BY DEF Transfer!Init, Held
<1> QED
  BY <1>1, <1>2, TransfersParts

\* Two records of one candidate movement are its two sides.
LEMMA OneMovement ==
    ASSUME NEW V, V \subseteq Transfer!Records,
           ~(Transfer!Cardinality({r[1] : r \in V}) > 1), Transfer!Cardinality(V) = 2
    PROVE  \E m \in Movements : \A s \in Transfer!Sides : <<m, s>> \in V
<1>1. PICK E : E = {r[1] : r \in V}
  OBVIOUS
<1>2. ~(Cardinality(E) > 1) /\ Cardinality(V) = 2
  BY <1>1, SameCounts
<1>3. E \subseteq Movements /\ \A r \in V : r[1] \in E /\ r = <<r[1], r[2]>> /\ r[2] \in Transfer!Sides
  BY <1>1 DEF Transfer!Records
<1>4. IsFiniteSet(E) /\ Cardinality(E) \in Nat
  BY <1>3, FiniteMovements, FS_Subset, FS_CardinalityType
<1>5. V # {}
  BY <1>2, FS_EmptySet
<1>6. PICK e \in V : TRUE
  BY <1>5
<1>7. ASSUME NEW r \in V PROVE r[1] = e[1]
  <2>1. SUFFICES ASSUME r[1] # e[1] PROVE FALSE
    OBVIOUS
  <2>2. PICK x, y : x = r[1] /\ y = e[1] /\ x # y /\ {x, y} \subseteq E
    BY <1>3, <1>6, <2>1
  <2>3. Cardinality({x, y}) = 2
    BY <2>2, TwoElements
  <2>4. Cardinality({x, y}) <= Cardinality(E)
    BY <1>4, <2>2, FS_Subset
  <2> QED
    BY <1>2, <1>4, <2>3, <2>4
<1>8. PICK m \in Movements : m = e[1]
  BY <1>3, <1>6
<1>9. ASSUME NEW s \in Transfer!Sides PROVE <<m, s>> \in V
  <2>1. SUFFICES ASSUME <<m, s>> \notin V PROVE FALSE
    OBVIOUS
  <2>2. \A r, q \in V : r = q
    BY <1>3, <1>7, <1>8, <2>1 DEF Transfer!Sides
  <2> QED
    BY <1>2, <2>2, AtMostOne
<1> QED
  BY <1>9

------------------------------------------------------------------------------
\* A transfer that is neither initiated nor confirmed, and does not become so.
LEMMA OpenTransfer ==
    ASSUME NEW t \in Transfers, Held(t),
           phase[t] \notin {"initiated", "confirmed"},
           phase'[t] \notin {"initiated", "confirmed"},
           claim'[t] \notin {"initiated", "settled"},
           \A a \in Members :
               /\ tapr'[t][a] = "consumed" => tapr[t][a] = "consumed"
               /\ tapr'[t][a] = "active" => a \in fresh'[t]
    PROVE  Held(t)'
BY DEF Held

\* A transfer keeps its phase while approvals of it lapse and others are settled.
LEMMA SteadyTransfer ==
    ASSUME NEW t \in Transfers, Held(t), Transfer!TypeOK,
           phase'[t] = phase[t], baseline'[t] = baseline[t], fresh'[t] = fresh[t],
           \/ claim'[t] = claim[t]
           \/ claim[t] \notin {"initiated", "settled"} /\ claim'[t] \notin {"initiated", "settled"},
           \A r \in Transfer!Records : owner[r] = t => owner'[r] = t,
           \A a \in Members : tapr'[t][a] # tapr[t][a] =>
               tapr[t][a] = "active" /\ tapr'[t][a] = "none"
    PROVE  Held(t)'
<1>1. \A a \in Members : tapr'[t][a] = "consumed" <=> tapr[t][a] = "consumed"
  OBVIOUS
<1>2. {a \in fresh'[t] \ {Requester} : tapr'[t][a] = "consumed"}
        = {a \in fresh[t] \ {Requester} : tapr[t][a] = "consumed"}
  <2>1. fresh[t] \subseteq Members
    BY DEF Transfer!TypeOK
  <2> QED
    BY <1>1, <2>1
<1>3. phase[t] = "confirmed" =>
        \E m \in Movements : \A s \in Transfer!Sides :
            owner'[<<m, s>>] = t /\ <<m, s>> \notin baseline'[t]
  BY DEF Held, Transfer!Records
<1> QED
  BY <1>1, <1>2, <1>3 DEF Held

\* closeProposal releases everything but what was initiated.
LEMMA CloseStep ==
    ASSUME Transfer!TransfersSafe, NEW T \in SUBSET Transfers, Transfer!closeProposal(T),
           \A t \in T : phase[t] # "confirmed",
           UNCHANGED <<expired, lapsed, baseline, owner, records, fresh>>
    PROVE  Transfer!TransfersSafe'
<1>1. Transfer!TypeOK /\ \A t \in Transfers : Held(t)
  BY TransfersParts
<1>2. Transfer!TypeOK'
  BY <1>1 DEF Transfer!TypeOK, Transfer!closeProposal, Transfer!Supersede
<1>3. ASSUME NEW t \in Transfers PROVE Held(t)'
  <2>1. \A a \in Members : tapr'[t][a] # tapr[t][a] =>
            tapr[t][a] = "active" /\ tapr'[t][a] = "none"
    BY <1>1 DEF Transfer!closeProposal, Transfer!Supersede
  <2>2. CASE t \in T /\ phase[t] # "initiated"
    <3>1. phase'[t] = "closed" /\ claim'[t] = "released"
      BY <2>2 DEF Transfer!closeProposal
    <3>2. \A a \in Members :
              /\ tapr'[t][a] = "consumed" => tapr[t][a] = "consumed"
              /\ tapr'[t][a] = "active" => a \in fresh'[t]
      BY <1>1, <2>1 DEF Held
    <3> QED
      BY <1>1, <2>2, <3>1, <3>2, OpenTransfer
  <2>3. CASE ~(t \in T /\ phase[t] # "initiated")
    <3>1. phase'[t] = phase[t] /\ claim'[t] = claim[t]
      BY <2>3 DEF Transfer!closeProposal
    <3> QED
      BY <1>1, <2>1, <3>1, SteadyTransfer
  <2> QED
    BY <2>2, <2>3
<1> QED
  BY <1>2, <1>3, TransfersAfter

\* approveTransfer, revalidateTransfer and admitTransferProposal: a transfer that is not
\* initiated yet.
LEMMA PlanStep ==
    ASSUME Transfer!TransfersSafe, NEW t \in Transfers,
           \/ Transfer!admitTransferProposal(t) \/ Transfer!revalidateTransfer(t)
           \/ \E a \in Members : Transfer!approveTransfer(t, a)
    PROVE  Transfer!TransfersSafe'
<1>1. Transfer!TypeOK /\ \A u \in Transfers : Held(u)
  BY TransfersParts
<1>2. CASE Transfer!admitTransferProposal(t)
  <2>1. Transfer!TypeOK'
    BY <1>1, <1>2 DEF Transfer!TypeOK, Transfer!admitTransferProposal
  <2>2. Held(t)'
    <3>1. phase'[t] = "proposed" /\ claim'[t] = "active" /\ phase[t] = "none"
      BY <1>1, <1>2 DEF Transfer!TypeOK, Transfer!admitTransferProposal
    <3>2. tapr' = tapr /\ fresh' = fresh
      BY <1>2 DEF Transfer!admitTransferProposal
    <3> QED
      BY <1>1, <3>1, <3>2, OpenTransfer DEF Held
  <2>3. ASSUME NEW u \in Transfers \ {t} PROVE Held(u)'
    BY <1>1, <1>2, SteadyTransfer DEF Transfer!TypeOK, Transfer!admitTransferProposal
  <2> QED
    BY <2>1, <2>2, <2>3, TransfersAfter
<1>3. CASE Transfer!revalidateTransfer(t)
  <2>1. Transfer!TypeOK'
    BY <1>1, <1>3 DEF Transfer!TypeOK, Transfer!revalidateTransfer, Transfer!Supersede
  <2>2. Held(t)'
    <3>1. phase'[t] = "proposed" /\ claim'[t] = claim[t]
          /\ phase[t] \notin {"initiated", "confirmed"}
      BY <1>1, <1>3 DEF Transfer!TypeOK, Transfer!revalidateTransfer, Transfer!command, Transfer!Pending
    <3>2. \A a \in Members : tapr'[t][a] # "active"
             /\ (tapr'[t][a] = "consumed" => tapr[t][a] = "consumed")
      BY <1>3 DEF Transfer!revalidateTransfer, Transfer!Supersede
    <3>3. claim'[t] \notin {"initiated", "settled"}
      BY <1>1, <3>1 DEF Held
    <3> QED
      BY <1>1, <3>1, <3>2, <3>3, OpenTransfer
  <2>3. ASSUME NEW u \in Transfers \ {t} PROVE Held(u)'
    <3>1. \A a \in Members : tapr'[u][a] = tapr[u][a]
      BY <1>3 DEF Transfer!revalidateTransfer, Transfer!Supersede
    <3>2. phase'[u] = phase[u] /\ fresh'[u] = fresh[u] /\ UNCHANGED <<claim, baseline, owner>>
      BY <1>1, <1>3 DEF Transfer!TypeOK, Transfer!revalidateTransfer
    <3> QED
      BY <1>1, <3>1, <3>2, SteadyTransfer
  <2> QED
    BY <2>1, <2>2, <2>3, TransfersAfter
<1>4. ASSUME NEW a \in Members, Transfer!approveTransfer(t, a) PROVE Transfer!TransfersSafe'
  <2>1. PICK ph \in {"approved", "awaiting_approval"} : phase' = [phase EXCEPT ![t] = ph]
    BY <1>4 DEF Transfer!approveTransfer
  <2>2. /\ phase[t] \notin {"initiated", "confirmed"}
        /\ tapr' = [tapr EXCEPT ![t][a] = "active"]
        /\ fresh' = [fresh EXCEPT ![t] = @ \cup {a}]
        /\ UNCHANGED <<expired, lapsed, claim, baseline, owner, records>>
    BY <1>4 DEF Transfer!approveTransfer, Transfer!command, Transfer!Pending
  <2>3. Transfer!TypeOK'
    BY <1>1, <2>1, <2>2 DEF Transfer!TypeOK
  <2>4. Held(t)'
    <3>1. phase'[t] = ph /\ claim'[t] = claim[t] /\ fresh'[t] = fresh[t] \cup {a}
      BY <1>1, <2>1, <2>2 DEF Transfer!TypeOK
    <3>2. tapr'[t][a] = "active" /\ \A b \in Members \ {a} : tapr'[t][b] = tapr[t][b]
      BY <1>1, <2>2 DEF Transfer!TypeOK
    <3>3. claim'[t] \notin {"initiated", "settled"}
      BY <1>1, <2>2, <3>1 DEF Held
    <3>4. \A b \in Members :
              /\ tapr'[t][b] = "consumed" => tapr[t][b] = "consumed"
              /\ tapr'[t][b] = "active" => b \in fresh'[t]
      BY <1>1, <3>1, <3>2 DEF Held
    <3> QED
      BY <1>1, <2>1, <2>2, <3>1, <3>3, <3>4, OpenTransfer
  <2>5. ASSUME NEW u \in Transfers \ {t} PROVE Held(u)'
    <3>1. tapr'[u] = tapr[u] /\ phase'[u] = phase[u] /\ fresh'[u] = fresh[u]
      BY <1>1, <2>1, <2>2 DEF Transfer!TypeOK
    <3> QED
      BY <1>1, <2>2, <3>1, SteadyTransfer
  <2> QED
    BY <2>3, <2>4, <2>5, TransfersAfter
<1> QED
  BY <1>2, <1>3, <1>4

\* reportTransferInitiated consumes exactly the approvals that count.
LEMMA InitiateStep ==
    ASSUME Transfer!TransfersSafe, NEW t \in Transfers, Transfer!reportTransferInitiated(t)
    PROVE  Transfer!TransfersSafe'
<1>1. Transfer!TypeOK /\ \A u \in Transfers : Held(u)
  BY TransfersParts
<1>2. Transfer!TypeOK'
  BY <1>1 DEF Transfer!TypeOK, Transfer!reportTransferInitiated
<1>3. /\ phase[t] = "approved" /\ phase'[t] = "initiated" /\ claim'[t] = "initiated"
      /\ fresh' = fresh
      /\ \A a \in Members : tapr'[t][a] = IF a \in Transfer!approvals(t) THEN "consumed" ELSE tapr[t][a]
  BY <1>1 DEF Transfer!TypeOK, Transfer!reportTransferInitiated
<1>4. {a \in fresh'[t] \ {Requester} : tapr'[t][a] = "consumed"} = Transfer!approvals(t)
  <2>1. fresh[t] \subseteq Members
    BY <1>1 DEF Transfer!TypeOK
  <2>2. \A a \in Members : tapr[t][a] # "consumed"
    BY <1>1, <1>3 DEF Held
  <2>3. Transfer!approvals(t) \subseteq fresh[t] \ {Requester}
    BY <1>1 DEF Transfer!approvals, Held
  <2> QED
    BY <1>3, <2>1, <2>2, <2>3
<1>5. Held(t)'
  <2>1. Transfer!Cardinality(Transfer!approvals(t)) >= Required
    BY DEF Transfer!reportTransferInitiated, Transfer!Enough
  <2>2. \A a \in Members : tapr'[t][a] = "active" => a \in fresh'[t]
    BY <1>1, <1>3 DEF Held
  <2> QED
    BY <1>3, <1>4, <2>1, <2>2 DEF Held
<1>6. ASSUME NEW u \in Transfers \ {t} PROVE Held(u)'
  <2>1. /\ phase'[u] = phase[u] /\ claim'[u] = claim[u] /\ tapr'[u] = tapr[u]
        /\ UNCHANGED <<baseline, owner, fresh>>
    BY <1>1 DEF Transfer!TypeOK, Transfer!reportTransferInitiated
  <2> QED
    BY <1>1, <2>1, SteadyTransfer
<1> QED
  BY <1>2, <1>5, <1>6, TransfersAfter

\* verifyTransferSettlement takes no record from another transfer, and confirms only with
\* both sides of a new movement.
LEMMA SettleStep ==
    ASSUME Transfer!TransfersSafe, NEW t \in Transfers, Transfer!verifyTransferSettlement(t)
    PROVE  Transfer!TransfersSafe'
<1>1. Transfer!TypeOK /\ \A u \in Transfers : Held(u)
  BY TransfersParts
<1>2. /\ phase[t] = "initiated" /\ claim[t] = "initiated"
      /\ UNCHANGED <<expired, lapsed, tapr, baseline, records, fresh>>
  BY <1>1 DEF Transfer!verifyTransferSettlement, Held
<1>3. PICK view \in Transfer!Captures :
          LET result == Transfer!settlement(t, view)
          IN  /\ owner' = [r \in Transfer!Records |-> IF r \in result.evidence THEN t ELSE owner[r]]
              /\ phase' = IF result.confirmed THEN [phase EXCEPT ![t] = "confirmed"] ELSE phase
              /\ claim' = IF result.confirmed THEN [claim EXCEPT ![t] = "settled"] ELSE claim
  BY DEF Transfer!verifyTransferSettlement
<1>4. PICK V : V = Transfer!validRecords(t, view)
  OBVIOUS
<1>5. PICK evidence : evidence = Transfer!settlement(t, view).evidence
  OBVIOUS
<1>6. PICK confirmed \in BOOLEAN : confirmed <=> Transfer!settlement(t, view).confirmed
  BY DEF Transfer!settlement
<1>7. /\ V \subseteq Transfer!Records /\ \A r \in V : r \notin baseline[t] /\ owner[r] \in {None, t}
  BY <1>1, <1>4 DEF Transfer!validRecords, Transfer!Captures, Transfer!TypeOK
<1>8. evidence \subseteq V
  BY <1>4, <1>5 DEF Transfer!settlement
<1>9. confirmed => /\ evidence = V /\ Transfer!Cardinality(V) = 2
                   /\ ~(Transfer!Cardinality({r[1] : r \in V}) > 1)
  BY <1>4, <1>5, <1>6 DEF Transfer!settlement
<1>10. /\ owner' = [r \in Transfer!Records |-> IF r \in evidence THEN t ELSE owner[r]]
       /\ confirmed => /\ phase' = [phase EXCEPT ![t] = "confirmed"]
                       /\ claim' = [claim EXCEPT ![t] = "settled"]
       /\ ~confirmed => UNCHANGED <<phase, claim>>
  BY <1>3, <1>5, <1>6
<1>11. Transfer!TypeOK'
  <2>1. owner' \in [Transfer!Records -> Transfers \cup {None}]
    BY <1>1, <1>10 DEF Transfer!TypeOK
  <2> QED
    BY <1>1, <1>2, <1>10, <2>1 DEF Transfer!TypeOK
<1>12. \A u \in Transfers, r \in Transfer!Records : owner[r] = u => owner'[r] = u
  BY <1>7, <1>8, <1>10 DEF Transfer!TransferConstants
<1>13. ASSUME NEW u \in Transfers, u # t \/ ~confirmed PROVE Held(u)'
  <2>1. phase'[u] = phase[u] /\ claim'[u] = claim[u]
    BY <1>1, <1>10, <1>13 DEF Transfer!TypeOK
  <2> QED
    BY <1>1, <1>2, <1>12, <2>1, SteadyTransfer
<1>14. CASE confirmed
  <2>1. PICK m \in Movements : \A s \in Transfer!Sides : <<m, s>> \in V
    BY <1>7, <1>9, <1>14, OneMovement
  <2>2. \A s \in Transfer!Sides : owner'[<<m, s>>] = t /\ <<m, s>> \notin baseline'[t]
    BY <1>2, <1>7, <1>9, <1>10, <1>14, <2>1
  <2>3. phase'[t] = "confirmed" /\ claim'[t] = "settled"
    BY <1>1, <1>10, <1>14 DEF Transfer!TypeOK
  <2>4. Held(t)'
    BY <1>1, <1>2, <2>2, <2>3 DEF Held
  <2> QED
    BY <1>11, <1>13, <2>4, TransfersAfter
<1> QED
  BY <1>6, <1>11, <1>13, <1>14, TransfersAfter

\* Every operation of the store and every event outside it keeps all transfers safe.
LEMMA TransferStep ==
    ASSUME Transfer!TransfersSafe, [Transfer!Next]_transferVars
    PROVE  Transfer!TransfersSafe'
<1>1. Transfer!TypeOK /\ \A t \in Transfers : Held(t)
  BY TransfersParts
<1>2. CASE /\ UNCHANGED <<phase, tapr, claim, baseline, owner, fresh>>
           /\ expired' \in SUBSET Transfers /\ lapsed' \in SUBSET Transfers
           /\ records' \in SUBSET Transfer!Records
  <2>1. Transfer!TypeOK'
    BY <1>1, <1>2 DEF Transfer!TypeOK
  <2>2. \A t \in Transfers : Held(t)'
    BY <1>1, <1>2, SteadyTransfer
  <2> QED
    BY <2>1, <2>2, TransfersAfter
<1>3. CASE UNCHANGED transferVars
  BY <1>1, <1>2, <1>3 DEF Transfer!TypeOK
<1>4. CASE Transfer!PlansExpire
  BY <1>1, <1>2, <1>4 DEF Transfer!TypeOK, Transfer!PlansExpire
<1>5. ASSUME NEW r \in Transfer!Records, Transfer!Post(r) PROVE Transfer!TransfersSafe'
  BY <1>1, <1>2, <1>5 DEF Transfer!TypeOK, Transfer!Post
<1>6. ASSUME NEW t \in Transfers, Transfer!cancelTransfer(t) PROVE Transfer!TransfersSafe'
  BY <1>6, CloseStep DEF Transfer!cancelTransfer
<1>7. CASE Transfer!expire \/ Transfer!saveSpendSession \/ Transfer!savePolicy
  BY <1>7, CloseStep DEF Transfer!expire, Transfer!saveSpendSession, Transfer!savePolicy,
     Transfer!invalidateProposals, Transfer!Open
<1>8. ASSUME NEW t \in Transfers, Transfer!claimSet(t) PROVE Transfer!TransfersSafe'
  <2>1. Transfer!TypeOK'
    BY <1>1, <1>8 DEF Transfer!TypeOK, Transfer!claimSet
  <2>2. UNCHANGED <<phase, tapr, baseline, owner, fresh>>
    BY <1>8 DEF Transfer!claimSet
  <2>3. ASSUME NEW u \in Transfers PROVE Held(u)'
    <3>1. \/ claim'[u] = claim[u]
          \/ claim[u] = "active" /\ claim'[u] = "released"
      BY <1>1, <1>8 DEF Transfer!TypeOK, Transfer!claimSet
    <3> QED
      BY <1>1, <2>2, <3>1, SteadyTransfer
  <2> QED
    BY <2>1, <2>3, TransfersAfter
<1>9. ASSUME NEW a \in Members, Transfer!Leave(a) PROVE Transfer!TransfersSafe'
  <2>1. /\ tapr' \in [Transfers -> [Members -> {"none", "active", "consumed"}]]
        /\ \A t \in Transfers, b \in Members : tapr'[t][b] # tapr[t][b] =>
              tapr[t][b] = "active" /\ tapr'[t][b] = "none"
    BY <1>1, <1>9 DEF Transfer!TypeOK, Transfer!Leave
  <2>2. lapsed' \in SUBSET Transfers /\ UNCHANGED <<phase, expired, claim, baseline, owner, records, fresh>>
    BY <1>1, <1>9 DEF Transfer!TypeOK, Transfer!Leave
  <2>3. Transfer!TypeOK'
    BY <1>1, <2>1, <2>2 DEF Transfer!TypeOK
  <2>4. \A t \in Transfers : Held(t)'
    BY <1>1, <2>1, <2>2, SteadyTransfer
  <2> QED
    BY <2>3, <2>4, TransfersAfter
<1> QED
  BY <1>3, <1>4, <1>5, <1>6, <1>7, <1>8, <1>9, PlanStep, InitiateStep, SettleStep
     DEF Transfer!Next

------------------------------------------------------------------------------
\* For any members, attempts and versions: an attempted write keeps its hold until the ledger
\* shows it, and a session is written at most once, under the budget's fence
\* (admitSessionCompletion, beginSessionCompletionWrite, finishSessionCompletionWrite,
\* reconcileSessionCompletion, closeCompletion).
THEOREM CompletionSafeAlways == Spec => []CompletionSafe
<1> DEFINE Kept == component = "completion" => Core
<1>1. Init => Kept
  BY CoreInit DEF Init
<1>2. Kept /\ [Next]_vars => Kept'
  <2> SUFFICES ASSUME Kept, [Next]_vars, component' = "completion" PROVE Core'
    OBVIOUS
  <2>1. Core /\ [Completion!Next]_completionVars
    BY Components
  <2>2. Completion!TypeOK' /\ Rest'
    BY <2>1, CoreParts, TypeStep, RestStep
  <2> QED
    BY <2>2 DEF Core, Rest
<1>3. Kept => CompletionSafe
  BY CoreSuffices DEF CompletionSafe
<1> QED
  BY <1>1, <1>2, <1>3, PTL DEF Spec

\* What goes to the ledger, goes there under the session, policies and approvals that are
\* current at that very step, and nothing of the session went before
\* (validateSessionCompletionWrite in front of createManualTransaction).
THEOREM DispatchCurrentAlways == Spec => DispatchCurrent
<1>1. CompletionSafe /\ [Next]_vars => (component = "completion" => Completion!DispatchStep)
  BY Components, DispatchStep DEF CompletionSafe
<1> QED
  BY <1>1, CompletionSafeAlways, PTL DEF Spec, DispatchCurrent

\* For any transfers, members, approvals required and movements: a reservation lasts from the
\* report that money moved until one new bank movement, owned by this transfer alone, confirms
\* it, and nobody moves money on approvals that a recheck has refuted (approveTransfer,
\* revalidateTransfer, reportTransferInitiated, verifyTransferSettlement, closeProposal).
THEOREM TransfersSafeAlways == Spec => []TransfersSafe
<1>1. Init => TransfersSafe
  BY TransfersInit DEF Init, TransfersSafe
<1>2. TransfersSafe /\ [Next]_vars => TransfersSafe'
  BY Components, TransferStep DEF TransfersSafe
<1> QED
  BY <1>1, <1>2, PTL DEF Spec
==============================================================================
