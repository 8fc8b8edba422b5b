------------------------ MODULE ClassifierOrchestrator ------------------------
(* The inference orchestrator (packages/inference/src/orchestrator.ts): one     *)
(* classify() call runs a sliding window of classifyOne() calls over its        *)
(* candidates. Each authorizes its candidate, asks the authoritative layers in  *)
(* order, and otherwise races one provider call against a deadline and the      *)
(* caller's abort signal. A provider call that loses the race goes on outside   *)
(* the window.                                                                  *)
EXTENDS Integers, Sequences, FiniteSets

CONSTANTS
    Total,           \* number of candidates given to classify()
    MaxConcurrency,  \* OrchestratorConfig.maxConcurrency, 0 when unset
    NLayers,         \* number of authoritative layers
    Categories,      \* category identifiers
    Registry,        \* the provider adapters, in registration order
    None

Providers == [id : STRING, locality : {"local", "external"}, valid : BOOLEAN,
              capable : BOOLEAN, immediate : BOOLEAN]
ProviderIds == {Registry[k].id : k \in DOMAIN Registry}
Suggestions == [category : Categories \cup {None}, from : {"denied", "policy", "layer", "provider"}]

\* An adapter is looked up by its id: no two share one.
ASSUME OrchestratorAssumption ==
    /\ Total \in Nat /\ MaxConcurrency \in Nat /\ NLayers \in Nat
    /\ None \notin Categories /\ None \notin ProviderIds /\ None \notin Suggestions
    /\ Registry \in Seq(Providers)
    /\ \A j, k \in DOMAIN Registry : Registry[j].id = Registry[k].id => j = k

Candidates == 1..Total
PolicyStates == {"disabled", "local-only", "external-allowed"}

VARIABLES
    policy,     \* the policy engine's configuration for 'classification'
    nextIdx,    \* next candidate to start
    inFlight,   \* candidates in the window
    returned,   \* classify() has resolved
    aborted,    \* the caller's AbortSignal
    pc,         \* where each classifyOne() awaits
    allowed,    \* categories of the authorized projection
    layer,      \* layer being asked
    call,       \* state of the adapter's own promise
    told,       \* the call's AbortController has been aborted
    timer,      \* deadline armed
    listener,   \* abort listener registered on the caller's signal
    rejected,   \* the deadline promise has been rejected
    sent,       \* what left the orchestrator: provider and form of the text fields
    results     \* the results array

loopVars == <<nextIdx, inFlight, returned>>
raceVars == <<call, told, timer, listener, rejected, sent>>
vars == <<policy, loopVars, aborted, pc, allowed, layer, raceVars, results>>

Pcs == {"queued", "authorizing", "layers", "routing", "racing", "done"}
NotSent == [provider |-> None, text |-> "none"]

TypeOK ==
    /\ policy \in [state : PolicyStates, allowlist : SUBSET ProviderIds, listed : BOOLEAN]
    /\ nextIdx \in 1..Total + 1 /\ inFlight \in SUBSET Candidates
    /\ returned \in BOOLEAN /\ aborted \in BOOLEAN
    /\ pc \in [Candidates -> Pcs]
    /\ allowed \in [Candidates -> SUBSET Categories]
    /\ layer \in [Candidates -> 1..NLayers + 1]
    /\ call \in [Candidates -> {"none", "running", "settled"}]
    /\ told \in [Candidates -> BOOLEAN] /\ timer \in [Candidates -> BOOLEAN]
    /\ listener \in [Candidates -> BOOLEAN] /\ rejected \in [Candidates -> BOOLEAN]
    /\ sent \in [Candidates -> {NotSent} \cup
                   [provider : ProviderIds, text : {"raw", "redacted"}]]
    /\ results \in [Candidates -> Suggestions \cup {None}]

Init ==
    /\ policy \in [state : PolicyStates, allowlist : SUBSET ProviderIds, listed : BOOLEAN]
    /\ ~policy.listed => policy.allowlist = {}
    /\ nextIdx = 1 /\ inFlight = {} /\ returned = FALSE /\ aborted = FALSE
    /\ pc = [i \in Candidates |-> "queued"]
    /\ allowed = [i \in Candidates |-> {}]
    /\ layer = [i \in Candidates |-> 1]
    /\ call = [i \in Candidates |-> "none"]
    /\ told = [i \in Candidates |-> FALSE]
    /\ timer = [i \in Candidates |-> FALSE]
    /\ listener = [i \in Candidates |-> FALSE]
    /\ rejected = [i \in Candidates |-> FALSE]
    /\ sent = [i \in Candidates |-> NotSent]
    /\ results = [i \in Candidates |-> None]

------------------------------------------------------------------------------
(* The window *)

\* maxConcurrency, 3 when unset or zero, and never more than there is to do.
maxConc ==
    LET effective == IF MaxConcurrency = 0 THEN 3 ELSE MaxConcurrency
    IN  IF effective < Total THEN effective ELSE Total

\* classify()'s loop fills the window, at the start and whenever Promise.race wakes it.
\* Each startOne() runs up to the await of its authorization.
FillWindow ==
    /\ nextIdx <= Total /\ Cardinality(inFlight) < maxConc
    /\ LET free == maxConc - Cardinality(inFlight)
           last == IF nextIdx + free - 1 < Total THEN nextIdx + free - 1 ELSE Total
           new  == nextIdx..last
       IN  /\ nextIdx' = last + 1
           /\ inFlight' = inFlight \cup new
           /\ pc' = [i \in Candidates |-> IF i \in new THEN "authorizing" ELSE pc[i]]
    /\ UNCHANGED <<policy, returned, aborted, allowed, layer, raceVars, results>>

ClassifyReturns ==
    /\ ~returned /\ nextIdx > Total /\ inFlight = {}
    /\ returned' = TRUE
    /\ UNCHANGED <<policy, nextIdx, inFlight, aborted, pc, allowed, layer, raceVars, results>>

\* classifyOne() resolves: startOne stores the result at its index and .finally leaves
\* the window.
Finish(i, suggestion) ==
    /\ results' = [results EXCEPT ![i] = suggestion]
    /\ pc' = [pc EXCEPT ![i] = "done"]
    /\ inFlight' = inFlight \ {i}
    /\ UNCHANGED <<nextIdx, returned>>

Goto(i, l) ==
    /\ pc' = [pc EXCEPT ![i] = l]
    /\ UNCHANGED <<results, loopVars>>

------------------------------------------------------------------------------
(* Suggestions. An error suggestion has an empty category and goes to manual    *)
(* review.                                                                      *)

errorSuggestion(from) == [category |-> None, from |-> from]

authorizationDeniedSuggestion == errorSuggestion("denied")

buildSuggestion(x) == [category |-> x, from |-> "provider"]

buildLayerSuggestion(x) == [category |-> x, from |-> "layer"]

buildLayerBlockedSuggestion == [category |-> None, from |-> "layer"]

------------------------------------------------------------------------------
(* classifyOne *)

isEnabled == policy.state # "disabled"

\* Variant: local-only is not applied to the list.
getAllowedProviders_AnyLocality ==
    {k \in DOMAIN Registry :
        /\ isEnabled /\ policy.listed
        /\ Registry[k].capable /\ Registry[k].id \in policy.allowlist /\ Registry[k].valid}

\* getAllowedProviders, as positions in the registry: no list denies all, external providers
\* need an endpoint and an authentication, local-only keeps the local ones.
getAllowedProviders ==
    {k \in DOMAIN Registry :
        /\ isEnabled /\ policy.listed
        /\ Registry[k].capable /\ Registry[k].id \in policy.allowlist /\ Registry[k].valid
        /\ policy.state = "local-only" => Registry[k].locality = "local"}

\* allowed[0]: the filters keep the registration order.
IsChosen(k) == k \in getAllowedProviders /\ \A j \in getAllowedProviders : k <= j

\* authorizeCandidate answers with a projection and its categories, or refuses: null,
\* no categories and an exception are the same. What follows runs without an await.
Authorize(i) ==
    /\ pc[i] = "authorizing"
    /\ \E granted \in SUBSET Categories, eligible \in BOOLEAN :
          /\ allowed' = [allowed EXCEPT ![i] = granted]
          /\ \/ granted = {} /\ Finish(i, authorizationDeniedSuggestion)
             \/ granted # {} /\ ~(eligible /\ isEnabled) /\ Finish(i, errorSuggestion("policy"))
             \/ /\ granted # {} /\ eligible /\ isEnabled
                /\ Goto(i, IF NLayers > 0 THEN "layers" ELSE "routing")
    /\ UNCHANGED <<policy, aborted, layer, raceVars>>

\* resolveLayers: a layer that is unresolved, unavailable or throws passes the candidate on.
LayerPasses(i) ==
    /\ pc[i] = "layers"
    /\ layer' = [layer EXCEPT ![i] = @ + 1]
    /\ Goto(i, IF layer[i] = NLayers THEN "routing" ELSE "layers")
    /\ UNCHANGED <<policy, aborted, allowed, raceVars>>

\* A layer resolves the candidate, to a category that must be allowed, or blocks it.
LayerDecides(i) ==
    /\ pc[i] = "layers"
    /\ \/ \E x \in Categories \cup {None} :
             Finish(i, IF x \in allowed[i] THEN buildLayerSuggestion(x) ELSE errorSuggestion("layer"))
       \/ Finish(i, buildLayerBlockedSuggestion)
    /\ UNCHANGED <<policy, aborted, allowed, layer, raceVars>>

\* The policy leaves no provider: an error suggestion, for manual review.
NoProvider(i) ==
    /\ pc[i] = "routing" /\ getAllowedProviders = {}
    /\ Finish(i, errorSuggestion("policy"))
    /\ UNCHANGED <<policy, aborted, allowed, layer, raceVars>>

\* The redactor: forExternal blanks every text field, forLocal passes them on.
preparedText(p) == IF p.locality = "external" THEN "redacted" ELSE "raw"

\* The first allowed provider is called, after the deadline and the abort listener are
\* set up. When the signal is aborted already, the deadline is cleared and its promise
\* rejected, the call's own controller is not aborted, and the provider is called all
\* the same; an adapter whose promise is settled on return wins the race even then.
CallProvider(i) ==
    /\ pc[i] = "routing"
    /\ \E k \in DOMAIN Registry :
          /\ IsChosen(k)
          /\ sent' = [sent EXCEPT ![i] =
                [provider |-> Registry[k].id, text |-> preparedText(Registry[k])]]
          /\ rejected' = [rejected EXCEPT ![i] = aborted /\ ~Registry[k].immediate]
    /\ timer' = [timer EXCEPT ![i] = ~aborted]
    /\ listener' = [listener EXCEPT ![i] = ~aborted]
    /\ call' = [call EXCEPT ![i] = "running"]
    /\ Goto(i, "racing")
    /\ UNCHANGED <<policy, aborted, allowed, layer, told>>

\* The finally block of the race.
ClearRace(i) ==
    /\ timer' = [timer EXCEPT ![i] = FALSE]
    /\ listener' = [listener EXCEPT ![i] = FALSE]

Immediate(i) ==
    \E k \in DOMAIN Registry : Registry[k].id = sent[i].provider /\ Registry[k].immediate

\* Variant: an answer is taken whenever it comes.
ProviderAnswers_Late(i) ==
    /\ call[i] = "running"
    /\ call' = [call EXCEPT ![i] = "settled"]
    /\ \E x \in Categories \cup {None} :
          Finish(i, IF x \in allowed[i] THEN buildSuggestion(x) ELSE errorSuggestion("provider"))
    /\ ClearRace(i)
    /\ UNCHANGED <<policy, aborted, allowed, layer, told, rejected, sent>>

\* The adapter's promise settles while the race is open: a category that is allowed is
\* suggested; any other, a malformed result and an error are error suggestions.
ProviderAnswers(i) ==
    /\ call[i] = "running" /\ pc[i] = "racing" /\ ~rejected[i]
    /\ call' = [call EXCEPT ![i] = "settled"]
    /\ \E x \in Categories \cup {None} :
          Finish(i, IF x \in allowed[i] THEN buildSuggestion(x) ELSE errorSuggestion("provider"))
    /\ ClearRace(i)
    /\ UNCHANGED <<policy, aborted, allowed, layer, told, rejected, sent>>

\* The promise settles after the race was lost: nobody looks at it.
ProviderAnswersLate(i) ==
    /\ call[i] = "running" /\ (rejected[i] \/ pc[i] = "done")
    /\ call' = [call EXCEPT ![i] = "settled"]
    /\ UNCHANGED <<policy, loopVars, aborted, pc, allowed, layer, told, timer, listener, rejected,
                   sent, results>>

\* Variant: the race is rejected but the adapter's controller is not aborted.
Deadline_NoAbort(i) ==
    /\ pc[i] = "racing" /\ timer[i] /\ ~rejected[i] /\ ~Immediate(i)
    /\ timer' = [timer EXCEPT ![i] = FALSE]
    /\ rejected' = [rejected EXCEPT ![i] = TRUE]
    /\ UNCHANGED <<policy, loopVars, aborted, pc, allowed, layer, call, told, listener, sent, results>>

\* The deadline fires: the controller is aborted and the race rejected.
Deadline(i) ==
    /\ pc[i] = "racing" /\ timer[i] /\ ~rejected[i] /\ ~Immediate(i)
    /\ timer' = [timer EXCEPT ![i] = FALSE]
    /\ told' = [told EXCEPT ![i] = TRUE]
    /\ rejected' = [rejected EXCEPT ![i] = TRUE]
    /\ UNCHANGED <<policy, loopVars, aborted, pc, allowed, layer, call, listener, sent, results>>

\* Variant: the abort listener leaves the race to the adapter.
CallerAborts_OnlySignals ==
    /\ ~aborted /\ ~returned
    /\ aborted' = TRUE
    /\ LET hit == {i \in Candidates : listener[i]}
       IN  /\ timer' = [i \in Candidates |-> timer[i] /\ i \notin hit]
           /\ told' = [i \in Candidates |-> told[i] \/ i \in hit]
           /\ listener' = [i \in Candidates |-> FALSE]
    /\ UNCHANGED <<policy, loopVars, pc, allowed, layer, call, rejected, sent, results>>

\* The caller aborts: every registered listener runs in the same turn.
CallerAborts ==
    /\ ~aborted /\ ~returned
    /\ aborted' = TRUE
    /\ LET hit == {i \in Candidates : listener[i]}
       IN  /\ timer' = [i \in Candidates |-> timer[i] /\ i \notin hit]
           /\ told' = [i \in Candidates |-> told[i] \/ i \in hit]
           /\ rejected' = [i \in Candidates |-> rejected[i] \/ (i \in hit /\ ~Immediate(i))]
           /\ listener' = [i \in Candidates |-> FALSE]
    /\ UNCHANGED <<policy, loopVars, pc, allowed, layer, call, sent, results>>

\* The catch block after a lost race: an error suggestion.
RaceLost(i) ==
    /\ pc[i] = "racing" /\ rejected[i]
    /\ Finish(i, errorSuggestion("provider"))
    /\ ClearRace(i)
    /\ UNCHANGED <<policy, aborted, allowed, layer, call, told, rejected, sent>>

------------------------------------------------------------------------------
\* A step of classifyOne(i) or of what it awaits, providers excepted.
Progress(i) ==
    \/ Authorize(i) \/ LayerPasses(i) \/ LayerDecides(i) \/ NoProvider(i) \/ CallProvider(i)
    \/ Deadline(i) \/ RaceLost(i)

\* classify() has resolved and no provider call is left over.
Quiet ==
    /\ returned /\ \A i \in Candidates : call[i] # "running"
    /\ UNCHANGED vars

Next ==
    \/ FillWindow \/ ClassifyReturns \/ CallerAborts \/ Quiet
    \/ \E i \in Candidates : Progress(i) \/ ProviderAnswers(i) \/ ProviderAnswersLate(i)

Spec == Init /\ [][Next]_vars

\* An adapter whose promise is settled when it returns has answered.
ImmediateAnswer(i) == Immediate(i) /\ ProviderAnswers(i)

\* The event loop runs every continuation and timer; the authorizer and the layers answer
\* or throw. Nothing is assumed of a provider that really awaits.
FairSpec ==
    /\ Spec /\ WF_vars(FillWindow) /\ WF_vars(ClassifyReturns)
    /\ \A i \in Candidates : WF_vars(Progress(i)) /\ WF_vars(ImmediateAnswer(i))
------------------------------------------------------------------------------
(* Properties *)

\* Provider calls nobody has told to stop.
Burden == {i \in Candidates : call[i] = "running" /\ ~told[i]}

\* orchestrator.ts:53 says maxConcurrency is the "Maximum concurrent classify calls to
\* providers": at no time are more calls than that in progress and not told to stop.
ProvidersNotFlooded == Cardinality(Burden) <= maxConc

\* As long as the caller has not aborted, it is: a call that lost its race to the deadline
\* leaves the window but was told to stop.
BoundedUntilAbort == ~aborted => ProvidersNotFlooded

\* When classify() resolves every candidate has its result, and nothing that could still
\* touch a race is left: no deadline armed, no listener on the caller's signal.
ReturnsClean ==
    returned => \A i \in Candidates :
                   results[i] # None /\ ~timer[i] /\ ~listener[i]

\* What the window knows of a candidate: the queue is what was not started, the window is
\* what is started and not done, and only an open race has a deadline or a listener.
WindowShape ==
    /\ Cardinality(inFlight) <= maxConc
    /\ \A i \in Candidates :
          /\ pc[i] = "queued" <=> nextIdx <= i
          /\ i \in inFlight <=> pc[i] \notin {"queued", "done"}
          /\ results[i] # None <=> pc[i] = "done"
          /\ pc[i] # "racing" => ~timer[i] /\ ~listener[i]
    /\ returned => nextIdx > Total /\ inFlight = {}

\* Before an abort, a call that is still running belongs to an open race or was told to stop.
LosersTold ==
    ~aborted => \A i \in Candidates :
       /\ rejected[i] => told[i]
       /\ call[i] = "running" => pc[i] = "racing" \/ told[i]

\* A candidate asks the layers from the first on, and not past the last.
LayersInOrder ==
    \A i \in Candidates :
       /\ pc[i] \in {"queued", "authorizing"} => layer[i] = 1
       /\ pc[i] = "layers" => layer[i] <= NLayers

\* The window keeps its bound and leaves nothing armed behind.
WindowSafe ==
    TypeOK /\ BoundedUntilAbort /\ ReturnsClean /\ WindowShape /\ LosersTold /\ LayersInOrder

\* A suggestion names a category of the candidate's own authorization, whichever layer or
\* provider named it, and a provider's suggestion comes from a provider the policy allows.
SuggestionsAuthorized ==
    \A i \in Candidates : results[i] # None =>
       /\ results[i].category # None => results[i].category \in allowed[i]
       /\ results[i].from \in {"denied", "layer"} => sent[i] = NotSent
       /\ results[i].from = "provider" => sent[i].provider \in policy.allowlist

\* What reaches an external provider is redacted and only goes out when the policy allows
\* external providers.
ExternalSeesRedacted ==
    \A i \in Candidates, k \in DOMAIN Registry :
       sent[i].provider = Registry[k].id /\ Registry[k].locality = "external"
          => sent[i].text = "redacted" /\ policy.state = "external-allowed"

\* Nothing is sent before a candidate is routed; what is sent went to a provider the policy
\* allows, in the form for its locality.
SentAsAllowed ==
    \A i \in Candidates :
       /\ pc[i] \in {"queued", "authorizing", "layers", "routing"} => sent[i] = NotSent
       /\ pc[i] = "racing" => sent[i] # NotSent
       /\ sent[i] # NotSent =>
             \E k \in getAllowedProviders :
                sent[i] = [provider |-> Registry[k].id, text |-> preparedText(Registry[k])]

\* Policy decides both what goes to a provider and what comes back from it.
PolicyObeyed == SuggestionsAuthorized /\ ExternalSeesRedacted /\ SentAsAllowed

\* A result once stored stays.
ResultStep == \A i \in Candidates : results[i] # None => results'[i] = results[i]

\* A result is final: a provider's answer that comes after the deadline or the abort
\* changes nothing.
ResultsFinal == [][ResultStep]_vars

\* classify() resolves, even if no provider ever answers and whenever the caller aborts.
ClassifyEnds == <>returned
==============================================================================
