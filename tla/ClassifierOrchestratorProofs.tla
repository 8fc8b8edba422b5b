--------------------- MODULE ClassifierOrchestratorProofs ---------------------
(* The window of classify() keeps its bound until the caller aborts and leaves  *)
(* nothing armed, policy decides what a provider sees and what comes back, and  *)
(* a result is final: for any number of candidates, layers and providers.       *)
EXTENDS ClassifierOrchestrator, FiniteSetTheorems, TLAPS

USE OrchestratorAssumption

\* A window is a finite set and its bound a number.
LEMMA Windows ==
    ASSUME NEW W \in SUBSET Candidates
    PROVE  IsFiniteSet(W) /\ Cardinality(W) \in Nat /\ maxConc \in Nat
<1>1. IsFiniteSet(1..Total)
    BY FS_Interval
<1>2. IsFiniteSet(W)
    BY <1>1, FS_Subset DEF Candidates
<1>3. Cardinality(W) \in Nat
    BY <1>2, FS_CardinalityType
<1>4. maxConc \in Nat
    BY DEF maxConc
<1> QED
    BY <1>2, <1>3, <1>4

\* What FillWindow starts fits in the window and is what comes next in the queue.
LEMMA FillFits ==
    ASSUME TypeOK, FillWindow
    PROVE  \E last \in Nat :
              /\ nextIdx <= last /\ last <= Total
              /\ nextIdx' = last + 1
              /\ inFlight' = inFlight \cup (nextIdx..last)
              /\ pc' = [i \in Candidates |-> IF i \in nextIdx..last THEN "authorizing" ELSE pc[i]]
              /\ Cardinality(inFlight') <= maxConc
<1> DEFINE free == maxConc - Cardinality(inFlight)
           last == IF nextIdx + free - 1 < Total THEN nextIdx + free - 1 ELSE Total
<1>1. /\ IsFiniteSet(inFlight) /\ Cardinality(inFlight) \in Nat /\ maxConc \in Nat
    BY Windows DEF TypeOK
<1>2. /\ nextIdx \in Nat /\ nextIdx >= 1 /\ nextIdx <= Total /\ free \in Nat /\ free >= 1
    BY <1>1 DEF TypeOK, FillWindow
<1>3. last \in Nat /\ nextIdx <= last /\ last <= Total /\ last - nextIdx + 1 <= free
    BY <1>2
<1>4. IsFiniteSet(nextIdx..last) /\ Cardinality(nextIdx..last) = last - nextIdx + 1
  <2>1. /\ IsFiniteSet(nextIdx..last)
        /\ Cardinality(nextIdx..last) = IF nextIdx > last THEN 0 ELSE last - nextIdx + 1
      BY <1>2, <1>3, FS_Interval, nextIdx \in Int, last \in Int
  <2> QED
      BY <2>1, <1>2, <1>3
<1>5. /\ nextIdx' = last + 1
      /\ inFlight' = inFlight \cup (nextIdx..last)
      /\ pc' = [i \in Candidates |-> IF i \in nextIdx..last THEN "authorizing" ELSE pc[i]]
    BY DEF FillWindow
<1> HIDE DEF last
<1>6. Cardinality(inFlight \cup (nextIdx..last)) <= maxConc
  <2>1. Cardinality(inFlight \cup (nextIdx..last))
            = Cardinality(inFlight) + Cardinality(nextIdx..last)
                - Cardinality(inFlight \cap (nextIdx..last))
      BY <1>1, <1>4, FS_Union
  <2>2. Cardinality(inFlight \cap (nextIdx..last)) \in Nat
      BY <1>1, FS_Intersection, FS_CardinalityType
  <2> QED
      BY <2>1, <2>2, <1>1, <1>2, <1>3, <1>4
<1> QED
    BY <1>3, <1>5, <1>6
------------------------------------------------------------------------------
\* Every step keeps the types.
LEMMA TypeStep ==
    ASSUME TypeOK, LayersInOrder, [Next]_vars
    PROVE  TypeOK'
<1> USE DEF TypeOK
<1>1. CASE FillWindow
  <2>1. PICK last \in Nat :
              /\ nextIdx <= last /\ last <= Total
              /\ nextIdx' = last + 1
              /\ inFlight' = inFlight \cup (nextIdx..last)
              /\ pc' = [i \in Candidates |-> IF i \in nextIdx..last THEN "authorizing" ELSE pc[i]]
      BY <1>1, FillFits
  <2>2. nextIdx' \in 1..Total + 1 /\ inFlight' \in SUBSET Candidates
      BY <2>1 DEF Candidates
  <2>3. pc' \in [Candidates -> Pcs]
      BY <2>1 DEF Pcs
  <2> QED
      BY <1>1, <2>2, <2>3 DEF FillWindow, raceVars
<1>2. CASE ClassifyReturns
    BY <1>2 DEF ClassifyReturns, raceVars
<1>3. CASE CallerAborts
  <2>1. /\ aborted' \in BOOLEAN /\ timer' \in [Candidates -> BOOLEAN] /\ told' \in [Candidates -> BOOLEAN]
        /\ rejected' \in [Candidates -> BOOLEAN] /\ listener' \in [Candidates -> BOOLEAN]
      BY <1>3, Zenon DEF CallerAborts
  <2> QED
      BY <1>3, <2>1 DEF CallerAborts, loopVars
<1>4. ASSUME NEW i \in Candidates, NEW x \in Suggestions, Finish(i, x)
      PROVE  /\ results' \in [Candidates -> Suggestions \cup {None}] /\ pc' \in [Candidates -> Pcs]
             /\ inFlight' \in SUBSET Candidates /\ nextIdx' = nextIdx /\ returned' = returned
    BY <1>4 DEF Finish, Pcs
<1>5. ASSUME NEW i \in Candidates, NEW l \in Pcs, Goto(i, l)
      PROVE  /\ pc' \in [Candidates -> Pcs] /\ results' = results
             /\ inFlight' = inFlight /\ nextIdx' = nextIdx /\ returned' = returned
    BY <1>5 DEF Goto, loopVars
<1>6. ASSUME NEW i \in Candidates, Authorize(i)
      PROVE  TypeOK'
  <2>1. PICK granted \in SUBSET Categories, eligible \in BOOLEAN :
          /\ allowed' = [allowed EXCEPT ![i] = granted]
          /\ \/ granted = {} /\ Finish(i, authorizationDeniedSuggestion)
             \/ granted # {} /\ ~(eligible /\ isEnabled) /\ Finish(i, errorSuggestion("policy"))
             \/ /\ granted # {} /\ eligible /\ isEnabled
                /\ Goto(i, IF NLayers > 0 THEN "layers" ELSE "routing")
      BY <1>6 DEF Authorize
  <2>2. allowed' \in [Candidates -> SUBSET Categories]
      BY <2>1
  <2>3. /\ authorizationDeniedSuggestion \in Suggestions
        /\ errorSuggestion("policy") \in Suggestions
      BY DEF authorizationDeniedSuggestion, errorSuggestion, Suggestions
  <2>4. (IF NLayers > 0 THEN "layers" ELSE "routing") \in Pcs
      BY DEF Pcs
  <2>5. /\ results' \in [Candidates -> Suggestions \cup {None}] /\ pc' \in [Candidates -> Pcs]
        /\ inFlight' \in SUBSET Candidates /\ nextIdx' = nextIdx /\ returned' = returned
    <3>1. CASE Finish(i, authorizationDeniedSuggestion)
        BY <3>1, <2>3, <1>4
    <3>2. CASE Finish(i, errorSuggestion("policy"))
        BY <3>2, <2>3, <1>4
    <3>3. CASE Goto(i, IF NLayers > 0 THEN "layers" ELSE "routing")
        BY <3>3, <2>4, <1>5
    <3> QED
        BY <2>1, <3>1, <3>2, <3>3
  <2> QED
      BY <1>6, <2>2, <2>5 DEF Authorize, raceVars
<1>7. ASSUME NEW i \in Candidates, LayerPasses(i)
      PROVE  TypeOK'
  <2>1. layer[i] \in 1..NLayers
      BY <1>7 DEF LayerPasses, LayersInOrder
  <2>2. layer' \in [Candidates -> 1..NLayers + 1]
      BY <1>7, <2>1 DEF LayerPasses
  <2>3. (IF layer[i] = NLayers THEN "routing" ELSE "layers") \in Pcs
      BY DEF Pcs
  <2> QED
      BY <1>7, <1>5, <2>2, <2>3 DEF LayerPasses, raceVars
<1>8. ASSUME NEW i \in Candidates, LayerDecides(i)
      PROVE  TypeOK'
  <2>1. PICK s \in Suggestions : Finish(i, s)
      BY <1>8 DEF LayerDecides, Suggestions, buildLayerSuggestion, errorSuggestion,
                  buildLayerBlockedSuggestion
  <2> QED
      BY <1>8, <2>1, <1>4 DEF LayerDecides, raceVars
<1>9. ASSUME NEW i \in Candidates, NoProvider(i)
      PROVE  TypeOK'
  <2>1. errorSuggestion("policy") \in Suggestions
      BY DEF errorSuggestion, Suggestions
  <2> QED
      BY <1>9, <2>1, <1>4 DEF NoProvider, raceVars
<1>10. ASSUME NEW i \in Candidates, CallProvider(i)
       PROVE  TypeOK'
  <2>1. PICK k \in DOMAIN Registry :
          /\ sent' = [sent EXCEPT ![i] =
                [provider |-> Registry[k].id, text |-> preparedText(Registry[k])]]
          /\ rejected' = [rejected EXCEPT ![i] = aborted /\ ~Registry[k].immediate]
      BY <1>10 DEF CallProvider
  <2>2. /\ Registry[k].id \in ProviderIds
        /\ preparedText(Registry[k]) \in {"raw", "redacted"}
      BY DEF ProviderIds, preparedText
  <2>3. sent' \in [Candidates -> {NotSent} \cup [provider : ProviderIds, text : {"raw", "redacted"}]]
      BY <2>1, <2>2
  <2>4. /\ rejected' \in [Candidates -> BOOLEAN] /\ timer' \in [Candidates -> BOOLEAN]
        /\ listener' \in [Candidates -> BOOLEAN]
      BY <1>10, <2>1, Zenon DEF CallProvider
  <2>5. call' \in [Candidates -> {"none", "running", "settled"}]
      BY <1>10 DEF CallProvider
  <2>6. Goto(i, "racing") /\ "racing" \in Pcs
      BY <1>10 DEF CallProvider, Pcs
  <2> QED
      BY <1>10, <2>3, <2>4, <2>5, <2>6, <1>5 DEF CallProvider
<1>11. ASSUME NEW i \in Candidates, ClearRace(i)
       PROVE  timer' \in [Candidates -> BOOLEAN] /\ listener' \in [Candidates -> BOOLEAN]
    BY <1>11, Zenon DEF ClearRace
<1>12. ASSUME NEW i \in Candidates, ProviderAnswers(i)
       PROVE  TypeOK'
  <2>1. PICK s \in Suggestions : Finish(i, s)
      BY <1>12 DEF ProviderAnswers, Suggestions, buildSuggestion, errorSuggestion
  <2>2. ClearRace(i)
      BY <1>12 DEF ProviderAnswers
  <2> QED
      BY <1>12, <2>1, <2>2, <1>4, <1>11 DEF ProviderAnswers
<1>13. ASSUME NEW i \in Candidates, ProviderAnswersLate(i)
       PROVE  TypeOK'
    BY <1>13 DEF ProviderAnswersLate, loopVars
<1>14. ASSUME NEW i \in Candidates, Deadline(i)
       PROVE  TypeOK'
  <2>1. /\ timer' \in [Candidates -> BOOLEAN] /\ told' \in [Candidates -> BOOLEAN]
        /\ rejected' \in [Candidates -> BOOLEAN]
      BY <1>14, Zenon DEF Deadline
  <2> QED
      BY <1>14, <2>1 DEF Deadline, loopVars
<1>15. ASSUME NEW i \in Candidates, RaceLost(i)
       PROVE  TypeOK'
  <2>1. Finish(i, errorSuggestion("provider")) /\ ClearRace(i)
      BY <1>15 DEF RaceLost
  <2>2. errorSuggestion("provider") \in Suggestions
      BY DEF errorSuggestion, Suggestions
  <2> QED
      BY <1>15, <2>1, <2>2, <1>4, <1>11 DEF RaceLost
<1>16. CASE UNCHANGED vars
    BY <1>16 DEF vars, loopVars, raceVars
<1> QED
    BY <1>1, <1>2, <1>3, <1>6, <1>7, <1>8, <1>9, <1>10, <1>12, <1>13, <1>14, <1>15, <1>16
       DEF Next, Progress, Quiet
------------------------------------------------------------------------------
\* A step of one candidate, or of the provider asked about it.
StepOf(i) == Progress(i) \/ ProviderAnswers(i) \/ ProviderAnswersLate(i)

\* A candidate that moves leaves the others, the queue and the policy where they are.
LEMMA Elsewhere ==
    ASSUME TypeOK, NEW i \in Candidates, StepOf(i)
    PROVE  /\ \A j \in Candidates \ {i} :
                 /\ pc'[j] = pc[j] /\ allowed'[j] = allowed[j] /\ layer'[j] = layer[j]
                 /\ call'[j] = call[j] /\ told'[j] = told[j] /\ timer'[j] = timer[j]
                 /\ listener'[j] = listener[j] /\ rejected'[j] = rejected[j]
                 /\ sent'[j] = sent[j] /\ results'[j] = results[j]
                 /\ j \in inFlight' <=> j \in inFlight
           /\ inFlight' \subseteq inFlight
           /\ nextIdx' = nextIdx /\ returned' = returned /\ policy' = policy /\ aborted' = aborted
<1> USE DEF TypeOK
<1>1. CASE Authorize(i)
    BY <1>1 DEF Authorize, Finish, Goto, loopVars, raceVars
<1>2. CASE LayerPasses(i)
    BY <1>2 DEF LayerPasses, Goto, loopVars, raceVars
<1>3. CASE LayerDecides(i)
    BY <1>3 DEF LayerDecides, Finish, raceVars
<1>4. CASE NoProvider(i)
    BY <1>4 DEF NoProvider, Finish, raceVars
<1>5. CASE CallProvider(i)
    BY <1>5 DEF CallProvider, Goto, loopVars
<1>6. CASE Deadline(i)
    BY <1>6 DEF Deadline, loopVars
<1>7. CASE RaceLost(i)
    BY <1>7 DEF RaceLost, Finish, ClearRace
<1>8. CASE ProviderAnswers(i)
    BY <1>8 DEF ProviderAnswers, Finish, ClearRace
<1>9. CASE ProviderAnswersLate(i)
    BY <1>9 DEF ProviderAnswersLate, loopVars
<1> QED
    BY <1>1, <1>2, <1>3, <1>4, <1>5, <1>6, <1>7, <1>8, <1>9 DEF StepOf, Progress

\* FillWindow takes what it starts from the head of the queue.
LEMMA Filled ==
    ASSUME TypeOK, WindowShape, FillWindow, NEW j \in Candidates
    PROVE  \/ /\ pc[j] = "queued" /\ pc'[j] = "authorizing" /\ j \in inFlight' /\ j < nextIdx'
           \/ /\ pc'[j] = pc[j] /\ (j \in inFlight' <=> j \in inFlight)
              /\ (nextIdx' <= j <=> nextIdx <= j)
<1>1. PICK last \in Nat :
              /\ nextIdx <= last /\ last <= Total
              /\ nextIdx' = last + 1
              /\ inFlight' = inFlight \cup (nextIdx..last)
              /\ pc' = [i \in Candidates |-> IF i \in nextIdx..last THEN "authorizing" ELSE pc[i]]
    BY FillFits
<1> QED
    BY <1>1 DEF TypeOK, WindowShape, Candidates

\* The layers are asked in order.
LEMMA LayersStep ==
    ASSUME TypeOK, WindowShape, LayersInOrder, [Next]_vars
    PROVE  LayersInOrder'
<1> SUFFICES ASSUME NEW j \in Candidates
             PROVE  /\ pc'[j] \in {"queued", "authorizing"} => layer'[j] = 1
                    /\ pc'[j] = "layers" => layer'[j] <= NLayers
    BY DEF LayersInOrder
<1> USE DEF LayersInOrder, TypeOK
<1>1. CASE FillWindow
    BY <1>1, Filled DEF FillWindow
<1>2. CASE StepOf(j)
  <2>1. CASE Authorize(j)
      BY <2>1 DEF Authorize, Finish, Goto, loopVars
  <2>2. CASE LayerPasses(j)
      BY <2>2 DEF LayerPasses, Goto, loopVars
  <2>3. CASE LayerDecides(j)
      BY <2>3 DEF LayerDecides, Finish
  <2>4. CASE NoProvider(j)
      BY <2>4 DEF NoProvider, Finish
  <2>5. CASE CallProvider(j)
      BY <2>5 DEF CallProvider, Goto
  <2>6. CASE Deadline(j)
      BY <2>6 DEF Deadline
  <2>7. CASE RaceLost(j)
      BY <2>7 DEF RaceLost, Finish
  <2>8. CASE ProviderAnswers(j)
      BY <2>8 DEF ProviderAnswers, Finish
  <2>9. CASE ProviderAnswersLate(j)
      BY <2>9 DEF ProviderAnswersLate
  <2> QED
      BY <1>2, <2>1, <2>2, <2>3, <2>4, <2>5, <2>6, <2>7, <2>8, <2>9 DEF StepOf, Progress
<1>3. ASSUME NEW i \in Candidates, i # j, StepOf(i)
      PROVE  pc'[j] = pc[j] /\ layer'[j] = layer[j]
    BY <1>3, Elsewhere
<1>4. CASE UNCHANGED <<pc, layer>>
    BY <1>4
<1> QED
    BY <1>1, <1>2, <1>3, <1>4
       DEF Next, StepOf, ClassifyReturns, CallerAborts, Quiet, vars, raceVars, loopVars

\* A candidate that ends its classifyOne() is done, out of the window, and has a result.
Ends(i) ==
    /\ pc'[i] = "done" /\ i \notin inFlight'
    /\ results'[i] \in Suggestions /\ results'[i] # None

LEMMA FinishEnds ==
    ASSUME TypeOK, NEW i \in Candidates, NEW s \in Suggestions, Finish(i, s)
    PROVE  Ends(i)
  BY DEF TypeOK, Finish, Ends

\* The steps that end a classifyOne().
LEMMA Enders ==
    ASSUME TypeOK, NEW i \in Candidates
    PROVE  /\ LayerDecides(i) => Ends(i)
           /\ NoProvider(i) => Ends(i)
           /\ RaceLost(i) => Ends(i)
           /\ ProviderAnswers(i) => Ends(i)
           /\ Authorize(i) => \/ Ends(i)
                              \/ pc'[i] \in {"layers", "routing"} /\ UNCHANGED <<results, loopVars>>
<1>1. \A f \in {"denied", "policy", "layer", "provider"} : errorSuggestion(f) \in Suggestions
    BY DEF errorSuggestion, Suggestions
<1>2. \A x \in Categories : buildSuggestion(x) \in Suggestions /\ buildLayerSuggestion(x) \in Suggestions
    BY DEF buildSuggestion, buildLayerSuggestion, Suggestions
<1>3. buildLayerBlockedSuggestion \in Suggestions /\ authorizationDeniedSuggestion \in Suggestions
    BY DEF buildLayerBlockedSuggestion, authorizationDeniedSuggestion, errorSuggestion, Suggestions
<1>4. allowed[i] \subseteq Categories
    BY DEF TypeOK
<1>5. ASSUME LayerDecides(i)
      PROVE  Ends(i)
  <2>1. PICK s \in Suggestions : Finish(i, s)
      BY <1>1, <1>2, <1>3, <1>4, <1>5 DEF LayerDecides
  <2> QED
      BY <2>1, FinishEnds
<1>6. ASSUME NoProvider(i)
      PROVE  Ends(i)
    BY <1>1, <1>6, FinishEnds DEF NoProvider
<1>7. ASSUME RaceLost(i)
      PROVE  Ends(i)
    BY <1>1, <1>7, FinishEnds DEF RaceLost
<1>8. ASSUME ProviderAnswers(i)
      PROVE  Ends(i)
  <2>1. PICK s \in Suggestions : Finish(i, s)
      BY <1>1, <1>2, <1>4, <1>8 DEF ProviderAnswers
  <2> QED
      BY <2>1, FinishEnds
<1>9. ASSUME Authorize(i)
      PROVE  \/ Ends(i)
             \/ pc'[i] \in {"layers", "routing"} /\ UNCHANGED <<results, loopVars>>
  <2>1. CASE Finish(i, authorizationDeniedSuggestion)
      BY <1>3, <2>1, FinishEnds
  <2>2. CASE Finish(i, errorSuggestion("policy"))
      BY <1>1, <2>2, FinishEnds
  <2>3. CASE Goto(i, IF NLayers > 0 THEN "layers" ELSE "routing")
      BY <2>3 DEF Goto, TypeOK
  <2> QED
      BY <1>9, <2>1, <2>2, <2>3 DEF Authorize
<1> QED
    BY <1>5, <1>6, <1>7, <1>8, <1>9

\* The shape of the window is kept.
LEMMA ShapeStep ==
    ASSUME TypeOK, WindowShape, [Next]_vars
    PROVE  WindowShape'
<1> USE DEF TypeOK
<1> DEFINE Knows(j) ==
              /\ pc[j] = "queued" <=> nextIdx <= j
              /\ j \in inFlight <=> pc[j] \notin {"queued", "done"}
              /\ results[j] # None <=> pc[j] = "done"
              /\ pc[j] # "racing" => ~timer[j] /\ ~listener[j]
<1>1. CASE FillWindow
  <2>1. Cardinality(inFlight') <= maxConc
      BY <1>1, FillFits
  <2>2. ASSUME NEW j \in Candidates
        PROVE  Knows(j)'
      BY <1>1, Filled DEF FillWindow, WindowShape, raceVars
  <2>3. ~returned
      BY <1>1 DEF FillWindow, WindowShape
  <2> QED
      BY <1>1, <2>1, <2>2, <2>3 DEF WindowShape, FillWindow, maxConc
<1>2. CASE ClassifyReturns
    BY <1>2 DEF ClassifyReturns, WindowShape, raceVars, maxConc
<1>3. CASE CallerAborts
    BY <1>3 DEF CallerAborts, WindowShape, loopVars, maxConc
<1>4. ASSUME NEW i \in Candidates, StepOf(i)
      PROVE  WindowShape'
  <2>1. ASSUME NEW j \in Candidates, j # i
        PROVE  Knows(j)'
      BY <1>4, <2>1, Elsewhere DEF WindowShape
  <2>2. Cardinality(inFlight') <= maxConc
    <3>1. inFlight' \subseteq inFlight
        BY <1>4, Elsewhere
    <3>2. Cardinality(inFlight') <= Cardinality(inFlight)
        BY <3>1, Windows, FS_Subset
    <3>3. Cardinality(inFlight') \in Nat /\ Cardinality(inFlight) \in Nat /\ maxConc \in Nat
        BY <3>1, Windows
    <3> QED
        BY <3>2, <3>3 DEF WindowShape
  <2>3. returned' => nextIdx' > Total /\ inFlight' = {}
      BY <1>4, Elsewhere DEF WindowShape
  <2>4. Knows(i)'
    <3> nextIdx' = nextIdx /\ Knows(i)
        BY <1>4, Elsewhere DEF WindowShape
    <3>1. CASE Authorize(i)
      <4>1. pc[i] = "authorizing" /\ UNCHANGED <<timer, listener>>
          BY <3>1 DEF Authorize, raceVars
      <4>2. CASE Ends(i)
          BY <4>1, <4>2 DEF Ends
      <4>3. CASE pc'[i] \in {"layers", "routing"} /\ UNCHANGED <<results, loopVars>>
          BY <4>1, <4>3 DEF loopVars
      <4> QED
          BY <3>1, <4>2, <4>3, Enders
    <3>2. CASE LayerPasses(i)
        BY <3>2 DEF LayerPasses, Goto, loopVars, raceVars, WindowShape
    <3>3. CASE LayerDecides(i)
        BY <1>4, <3>3, Enders, Elsewhere DEF Ends, LayerDecides, raceVars, WindowShape
    <3>4. CASE NoProvider(i)
        BY <1>4, <3>4, Enders, Elsewhere DEF Ends, NoProvider, raceVars, WindowShape
    <3>5. CASE CallProvider(i)
        BY <3>5 DEF CallProvider, Goto, loopVars, WindowShape
    <3>6. CASE Deadline(i)
        BY <3>6 DEF Deadline, loopVars, WindowShape
    <3>7. CASE RaceLost(i)
      <4>1. pc[i] = "racing" /\ ~timer'[i] /\ ~listener'[i] /\ Ends(i)
          BY <3>7, Enders DEF RaceLost, ClearRace
      <4> QED
          BY <4>1 DEF Ends
    <3>8. CASE ProviderAnswers(i)
      <4>1. pc[i] = "racing" /\ ~timer'[i] /\ ~listener'[i] /\ Ends(i)
          BY <3>8, Enders DEF ProviderAnswers, ClearRace
      <4> QED
          BY <4>1 DEF Ends
    <3>9. CASE ProviderAnswersLate(i)
        BY <3>9 DEF ProviderAnswersLate, loopVars, WindowShape
    <3> QED
        BY <1>4, <3>1, <3>2, <3>3, <3>4, <3>5, <3>6, <3>7, <3>8, <3>9 DEF StepOf, Progress
  <2> QED
      BY <2>1, <2>2, <2>3, <2>4 DEF WindowShape, maxConc
<1>5. CASE UNCHANGED vars
    BY <1>5 DEF vars, loopVars, raceVars, WindowShape, maxConc
<1> QED
    BY <1>1, <1>2, <1>3, <1>4, <1>5 DEF Next, StepOf, Quiet

\* Until the caller aborts, a race is lost by telling its call to stop.
LEMMA LosersStep ==
    ASSUME TypeOK, WindowShape, LosersTold, [Next]_vars
    PROVE  LosersTold'
<1> SUFFICES ASSUME ~aborted', NEW j \in Candidates
             PROVE  /\ rejected'[j] => told'[j]
                    /\ call'[j] = "running" => pc'[j] = "racing" \/ told'[j]
    BY DEF LosersTold
<1> USE DEF TypeOK
<1>1. CASE FillWindow
    BY <1>1, Filled DEF FillWindow, raceVars, LosersTold
<1>2. CASE CallerAborts
    BY <1>2 DEF CallerAborts
<1>3. CASE StepOf(j)
  <2>1. ~aborted
      BY <1>3, Elsewhere
  <2>2. (rejected[j] => told[j]) /\ (call[j] = "running" => pc[j] = "racing" \/ told[j])
      BY <2>1 DEF LosersTold
  <2>3. CASE Authorize(j) \/ LayerPasses(j) \/ LayerDecides(j) \/ NoProvider(j)
      BY <2>2, <2>3 DEF Authorize, LayerPasses, LayerDecides, NoProvider, raceVars
  <2>4. CASE CallProvider(j)
      BY <2>1, <2>2, <2>4 DEF CallProvider, Goto
  <2>5. CASE Deadline(j)
      BY <2>5 DEF Deadline
  <2>6. CASE RaceLost(j)
      BY <2>2, <2>6 DEF RaceLost
  <2>7. CASE ProviderAnswers(j)
      BY <2>2, <2>7 DEF ProviderAnswers
  <2>8. CASE ProviderAnswersLate(j)
      BY <2>2, <2>8 DEF ProviderAnswersLate
  <2> QED
      BY <1>3, <2>3, <2>4, <2>5, <2>6, <2>7, <2>8 DEF StepOf, Progress
<1>4. ASSUME NEW i \in Candidates, i # j, StepOf(i)
      PROVE  /\ rejected'[j] => told'[j]
             /\ call'[j] = "running" => pc'[j] = "racing" \/ told'[j]
    BY <1>4, Elsewhere DEF LosersTold
<1>5. CASE UNCHANGED <<aborted, call, told, rejected, pc>>
    BY <1>5 DEF LosersTold
<1> QED
    BY <1>1, <1>2, <1>3, <1>4, <1>5
       DEF Next, StepOf, ClassifyReturns, Quiet, vars, raceVars, loopVars

\* Before the abort the calls nobody told to stop are races of the window, so they are
\* no more than it admits; and a classify() that returned has a done candidate everywhere.
LEMMA WindowBounds ==
    ASSUME TypeOK, WindowShape, LosersTold
    PROVE  BoundedUntilAbort /\ ReturnsClean
<1>1. ASSUME ~aborted
      PROVE  ProvidersNotFlooded
  <2>1. Burden \subseteq inFlight
      BY <1>1 DEF Burden, LosersTold, WindowShape, TypeOK
  <2>2. Cardinality(Burden) <= Cardinality(inFlight)
      BY <2>1, Windows, FS_Subset DEF TypeOK
  <2>3. Cardinality(Burden) \in Nat /\ Cardinality(inFlight) \in Nat /\ maxConc \in Nat
      BY <2>1, Windows DEF TypeOK
  <2> QED
      BY <2>2, <2>3 DEF ProvidersNotFlooded, WindowShape
<1>2. ReturnsClean
    BY DEF ReturnsClean, WindowShape, TypeOK, Candidates
<1> QED
    BY <1>1, <1>2 DEF BoundedUntilAbort

\* The first state is such a window.
LEMMA WindowInit ==
    ASSUME Init
    PROVE  TypeOK /\ WindowShape /\ LosersTold /\ LayersInOrder
<1> USE DEF Init
<1>1. TypeOK
  <2>1. /\ pc \in [Candidates -> Pcs] /\ allowed \in [Candidates -> SUBSET Categories]
        /\ layer \in [Candidates -> 1..NLayers + 1]
        /\ call \in [Candidates -> {"none", "running", "settled"}]
      BY DEF Pcs
  <2>2. /\ told \in [Candidates -> BOOLEAN] /\ timer \in [Candidates -> BOOLEAN]
        /\ listener \in [Candidates -> BOOLEAN] /\ rejected \in [Candidates -> BOOLEAN]
      BY Zenon
  <2>3. /\ sent \in [Candidates -> {NotSent} \cup [provider : ProviderIds, text : {"raw", "redacted"}]]
        /\ results \in [Candidates -> Suggestions \cup {None}]
      OBVIOUS
  <2>4. nextIdx \in 1..Total + 1
      OBVIOUS
  <2> QED
      BY <2>1, <2>2, <2>3, <2>4 DEF TypeOK
<1>2. Cardinality(inFlight) <= maxConc
  <2>1. Cardinality({}) = 0
      BY FS_EmptySet
  <2> QED
      BY <2>1, Windows DEF TypeOK
<1>3. WindowShape
    BY <1>2 DEF WindowShape, Candidates
<1> QED
    BY <1>1, <1>3 DEF LosersTold, LayersInOrder

\* At no time before the caller's abort are more provider calls in progress and not told to
\* stop than maxConcurrency admits, and a classify() that resolved left a result for every
\* candidate and no deadline or listener behind, whatever the number of candidates.
THEOREM WindowSafeAlways == Spec => []WindowSafe
<1> DEFINE Inv == TypeOK /\ WindowShape /\ LosersTold /\ LayersInOrder
<1>1. Init => Inv
    BY WindowInit
<1>2. Inv /\ [Next]_vars => Inv'
    BY TypeStep, ShapeStep, LosersStep, LayersStep
<1>3. Inv => WindowSafe
    BY WindowBounds DEF WindowSafe
<1> QED
    BY <1>1, <1>2, <1>3, PTL DEF Spec
------------------------------------------------------------------------------
\* What is sent goes to a provider the policy allows, in the form for its locality.
LEMMA SentStep ==
    ASSUME TypeOK, WindowShape, SentAsAllowed, [Next]_vars
    PROVE  SentAsAllowed'
<1> DEFINE Proper(x) == \E k \in getAllowedProviders :
                x = [provider |-> Registry[k].id, text |-> preparedText(Registry[k])]
           SentOf(j) ==
              /\ pc[j] \in {"queued", "authorizing", "layers", "routing"} => sent[j] = NotSent
              /\ pc[j] = "racing" => sent[j] # NotSent
              /\ sent[j] # NotSent => Proper(sent[j])
<1>1. \A j \in Candidates : SentOf(j)
    BY DEF SentAsAllowed
<1>2. policy' = policy
  <2>1. ASSUME NEW i \in Candidates, StepOf(i)
        PROVE  policy' = policy
      BY <2>1, Elsewhere
  <2> QED
      BY <2>1 DEF Next, StepOf, FillWindow, ClassifyReturns, CallerAborts, Quiet, vars
<1>3. getAllowedProviders' = getAllowedProviders
    BY <1>2 DEF getAllowedProviders, isEnabled
<1>4. ASSUME NEW x
      PROVE  Proper(x) <=> \E k \in getAllowedProviders' :
                x = [provider |-> Registry[k].id, text |-> preparedText(Registry[k])]
    BY <1>3
<1> SUFFICES ASSUME NEW j \in Candidates
             PROVE  /\ pc'[j] \in {"queued", "authorizing", "layers", "routing"} => sent'[j] = NotSent
                    /\ pc'[j] = "racing" => sent'[j] # NotSent
                    /\ sent'[j] # NotSent => Proper(sent'[j])
    BY <1>4 DEF SentAsAllowed
<1> HIDE DEF Proper
<1> USE DEF TypeOK
<1>5. CASE FillWindow
    BY <1>1, <1>5, Filled DEF FillWindow, raceVars
<1>6. CASE StepOf(j)
  <2>1. CASE Authorize(j)
      BY <1>1, <2>1 DEF Authorize, raceVars, Finish, Goto
  <2>2. CASE LayerPasses(j)
      BY <1>1, <2>2 DEF LayerPasses, raceVars, Goto
  <2>3. CASE LayerDecides(j)
      BY <1>1, <2>3, Enders DEF LayerDecides, raceVars, Ends
  <2>4. CASE NoProvider(j)
      BY <1>1, <2>4, Enders DEF NoProvider, raceVars, Ends
  <2>5. CASE CallProvider(j)
    <3>1. PICK k \in getAllowedProviders :
              sent' = [sent EXCEPT ![j] =
                         [provider |-> Registry[k].id, text |-> preparedText(Registry[k])]]
        BY <2>5 DEF CallProvider, IsChosen
    <3>2. sent'[j] = [provider |-> Registry[k].id, text |-> preparedText(Registry[k])]
        BY <3>1
    <3>3. Registry[k].id \in ProviderIds
        BY DEF ProviderIds, getAllowedProviders
    <3>4. Proper(sent'[j])
        BY <3>2 DEF Proper
    <3>5. sent'[j] # NotSent
        BY <3>2, <3>3 DEF NotSent
    <3> QED
        BY <2>5, <3>4, <3>5 DEF CallProvider, Goto
  <2>6. CASE Deadline(j)
      BY <1>1, <2>6 DEF Deadline
  <2>7. CASE RaceLost(j)
      BY <1>1, <2>7, Enders DEF RaceLost, Ends
  <2>8. CASE ProviderAnswers(j)
      BY <1>1, <2>8, Enders DEF ProviderAnswers, Ends
  <2>9. CASE ProviderAnswersLate(j)
      BY <1>1, <2>9 DEF ProviderAnswersLate
  <2> QED
      BY <1>6, <2>1, <2>2, <2>3, <2>4, <2>5, <2>6, <2>7, <2>8, <2>9 DEF StepOf, Progress
<1>7. ASSUME NEW i \in Candidates, i # j, StepOf(i)
      PROVE  pc'[j] = pc[j] /\ sent'[j] = sent[j]
    BY <1>7, Elsewhere
<1>8. CASE UNCHANGED <<pc, sent>>
    BY <1>1, <1>8
<1> QED
    BY <1>1, <1>5, <1>6, <1>7, <1>8
       DEF Next, StepOf, ClassifyReturns, CallerAborts, Quiet, vars, raceVars, loopVars

\* What is sent to an external provider is redacted: an id names one adapter.
LEMMA Redacted ==
    ASSUME TypeOK, SentAsAllowed
    PROVE  ExternalSeesRedacted
<1> SUFFICES ASSUME NEW i \in Candidates, NEW k \in DOMAIN Registry,
                    sent[i].provider = Registry[k].id, Registry[k].locality = "external"
             PROVE  sent[i].text = "redacted" /\ policy.state = "external-allowed"
    BY DEF ExternalSeesRedacted
<1>1. sent[i] # NotSent
    BY DEF NotSent, ProviderIds
<1>2. PICK m \in getAllowedProviders :
          sent[i] = [provider |-> Registry[m].id, text |-> preparedText(Registry[m])]
    BY <1>1 DEF SentAsAllowed
<1>3. m = k
    BY <1>2 DEF getAllowedProviders
<1>4. policy.state # "disabled" /\ policy.state # "local-only"
    BY <1>3 DEF getAllowedProviders, isEnabled
<1> QED
    BY <1>2, <1>3, <1>4 DEF preparedText, TypeOK, PolicyStates

\* Once a candidate is done, nothing about it changes but the state of a call left over.
LEMMA DoneStays ==
    ASSUME TypeOK, WindowShape, [Next]_vars, NEW j \in Candidates, results[j] # None
    PROVE  /\ results'[j] = results[j] /\ allowed'[j] = allowed[j] /\ sent'[j] = sent[j]
           /\ policy' = policy
<1>1. pc[j] = "done"
    BY DEF WindowShape
<1>2. CASE StepOf(j)
  <2>1. ProviderAnswersLate(j)
      BY <1>1, <1>2 DEF StepOf, Progress, Authorize, LayerPasses, LayerDecides, NoProvider,
                        CallProvider, Deadline, RaceLost, ProviderAnswers
  <2> QED
      BY <2>1 DEF ProviderAnswersLate
<1>3. ASSUME NEW i \in Candidates, i # j, StepOf(i)
      PROVE  /\ results'[j] = results[j] /\ allowed'[j] = allowed[j] /\ sent'[j] = sent[j]
             /\ policy' = policy
    BY <1>3, Elsewhere
<1>4. CASE UNCHANGED <<results, allowed, sent, policy>>
    BY <1>4
<1> QED
    BY <1>2, <1>3, <1>4
       DEF Next, StepOf, FillWindow, ClassifyReturns, CallerAborts, Quiet, vars, raceVars, loopVars

\* A result that appears in a step is one its author may give.
LEMMA AuthorizedStep ==
    ASSUME TypeOK, WindowShape, SentAsAllowed, SuggestionsAuthorized, [Next]_vars
    PROVE  SuggestionsAuthorized'
<1> DEFINE May(r, j) ==
              /\ r.category # None => r.category \in allowed'[j]
              /\ r.from \in {"denied", "layer"} => sent'[j] = NotSent
              /\ r.from = "provider" => sent'[j].provider \in policy'.allowlist
<1> SUFFICES ASSUME NEW j \in Candidates, results'[j] # None
             PROVE  May(results'[j], j)
    BY DEF SuggestionsAuthorized
<1>1. CASE results[j] # None
    BY <1>1, DoneStays DEF SuggestionsAuthorized
<1>2. ASSUME results[j] = None, StepOf(j)
      PROVE  May(results'[j], j)
  <2> USE DEF TypeOK, errorSuggestion
  <2>0. policy' = policy
      BY <1>2, Elsewhere
  <2>1. CASE Authorize(j)
    <3>1. sent'[j] = NotSent
        BY <2>1 DEF Authorize, raceVars, SentAsAllowed
    <3>2. CASE results'[j] = authorizationDeniedSuggestion
        BY <3>1, <3>2 DEF authorizationDeniedSuggestion
    <3>3. CASE results'[j] = errorSuggestion("policy")
        BY <3>3
    <3> QED
        BY <1>2, <2>1, <3>2, <3>3 DEF Authorize, Finish, Goto
  <2>2. CASE LayerDecides(j)
    <3>1. sent'[j] = NotSent /\ allowed' = allowed
        BY <2>2 DEF LayerDecides, raceVars, SentAsAllowed
    <3>2. ASSUME NEW x \in allowed[j], results'[j] = buildLayerSuggestion(x)
          PROVE  May(results'[j], j)
        BY <3>1, <3>2 DEF buildLayerSuggestion
    <3>3. CASE results'[j] \in {errorSuggestion("layer"), buildLayerBlockedSuggestion}
        BY <3>1, <3>3 DEF buildLayerBlockedSuggestion
    <3> QED
        BY <2>2, <3>2, <3>3 DEF LayerDecides, Finish
  <2>3. CASE NoProvider(j)
      BY <2>3 DEF NoProvider, Finish
  <2>4. ASSUME pc[j] = "racing", sent' = sent
        PROVE  sent'[j].provider \in policy'.allowlist
    <3>1. PICK k \in getAllowedProviders :
              sent[j] = [provider |-> Registry[k].id, text |-> preparedText(Registry[k])]
        BY <2>4 DEF SentAsAllowed
    <3> QED
        BY <2>0, <2>4, <3>1 DEF getAllowedProviders
  <2>5. CASE RaceLost(j)
    <3>1. results'[j] = errorSuggestion("provider") /\ pc[j] = "racing" /\ sent' = sent
        BY <2>5 DEF RaceLost, Finish
    <3> QED
        BY <3>1, <2>4
  <2>6. CASE ProviderAnswers(j)
    <3>1. pc[j] = "racing" /\ sent' = sent /\ allowed' = allowed
        BY <2>6 DEF ProviderAnswers
    <3>2. ASSUME NEW x \in allowed[j], results'[j] = buildSuggestion(x)
          PROVE  May(results'[j], j)
        BY <3>1, <3>2, <2>4 DEF buildSuggestion
    <3>3. CASE results'[j] = errorSuggestion("provider")
        BY <3>1, <3>3, <2>4
    <3> QED
        BY <2>6, <3>2, <3>3 DEF ProviderAnswers, Finish
  <2>7. CASE UNCHANGED results
      BY <1>2, <2>7
  <2> QED
      BY <1>2, <2>1, <2>2, <2>3, <2>5, <2>6, <2>7
         DEF StepOf, Progress, LayerPasses, CallProvider, Deadline, ProviderAnswersLate, Goto
<1>3. ASSUME NEW i \in Candidates, i # j, StepOf(i)
      PROVE  results'[j] = results[j]
    BY <1>3, Elsewhere
<1> QED
    BY <1>1, <1>2, <1>3
       DEF Next, StepOf, FillWindow, ClassifyReturns, CallerAborts, Quiet, vars, raceVars, loopVars

\* Whatever layers and providers answer and whenever they do: a suggestion names a category of
\* its own candidate's authorization, a provider is only asked when the policy allows it, and
\* an external one only sees redacted text.
THEOREM PolicyObeyedAlways == Spec => []PolicyObeyed
<1> DEFINE Window == TypeOK /\ WindowShape /\ LosersTold /\ LayersInOrder
           Inv == Window /\ SentAsAllowed /\ SuggestionsAuthorized
<1>1. Init => Inv
  <2> SUFFICES ASSUME Init
               PROVE  Inv
      OBVIOUS
  <2>1. Window
      BY WindowInit
  <2>2. SentAsAllowed /\ SuggestionsAuthorized
      BY DEF Init, SentAsAllowed, SuggestionsAuthorized
  <2> QED
      BY <2>1, <2>2
<1>2. Inv /\ [Next]_vars => Inv'
    BY TypeStep, ShapeStep, LosersStep, LayersStep, SentStep, AuthorizedStep
<1>3. Inv => PolicyObeyed
    BY Redacted DEF PolicyObeyed
<1> QED
    BY <1>1, <1>2, <1>3, PTL DEF Spec

\* A stored result never changes: neither a late answer, a deadline nor an abort reaches it.
THEOREM ResultsFinalAlways == Spec => ResultsFinal
<1>1. WindowSafe /\ [Next]_vars => ResultStep
    BY DoneStays DEF WindowSafe, ResultStep
<1> QED
    BY <1>1, WindowSafeAlways, PTL DEF Spec, ResultsFinal
====
