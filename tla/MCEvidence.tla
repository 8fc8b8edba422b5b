------------------------------ MODULE MCEvidence ------------------------------
(***************************************************************************)
(* Checks EvidenceStore, ReceiptInference and MerchantResearch. The first  *)
(* state chooses which of the three is checked.                            *)
(***************************************************************************)
EXTENDS Naturals, Sequences, FiniteSets, TLC

CONSTANTS Deliveries, Tabs, None, MaxEvents,
          MaxPreviews, Cap, MaxSubject,
          Workers, Ids, SearchKey, MaxRunning, MaxWindow, MaxGen

\* Source a delivers two versions, source b the first of them as well.
TwoSources == {<<"a", "x">>, <<"a", "y">>, <<"b", "x">>}

\* All requests ask for the same merchant.
OneMerchant == [k \in Ids |-> "merchant"]

VARIABLES component,
          stored, raw, journal, proof, link, tab,
          subject, source, enabled, preview, latest, exec, quota, sends,
          attempt, cache, scope, allowed, window, backup, call, searches, floor

Store == INSTANCE EvidenceStore WITH Documents <- Deliveries
Inference == INSTANCE ReceiptInference
Research == INSTANCE MerchantResearch WITH Key <- SearchKey, sends <- searches

ASSUME EvidenceInstance ==
    /\ Store!EvidenceConstants /\ Inference!InferenceConstants /\ Research!ResearchConstants

storeVars == <<stored, raw, journal, proof, link, tab>>
inferenceVars == <<subject, source, enabled, preview, latest, exec, quota, sends>>
researchVars == <<attempt, cache, scope, allowed, window, backup, call, searches, floor>>
vars == <<component, storeVars, inferenceVars, researchVars>>

\* A component that is not the one checked has no state.
storeOff ==
    /\ stored = None /\ raw = None /\ journal = None /\ proof = None /\ link = None
    /\ tab = None

inferenceOff ==
    /\ subject = None /\ source = None /\ enabled = None /\ preview = None /\ latest = None
    /\ exec = None /\ quota = None /\ sends = None

researchOff ==
    /\ attempt = None /\ cache = None /\ scope = None /\ allowed = None /\ window = None
    /\ backup = None /\ call = None /\ searches = None /\ floor = None

Init ==
    \/ component = "store" /\ Store!Init /\ inferenceOff /\ researchOff
    \/ component = "inference" /\ Inference!Init /\ storeOff /\ researchOff
    \/ component = "research" /\ Research!Init /\ storeOff /\ inferenceOff

Next ==
    \/ /\ component = "store" /\ Store!Next
       /\ UNCHANGED <<component, inferenceVars, researchVars>>
    \/ /\ component = "inference" /\ Inference!Next
       /\ UNCHANGED <<component, storeVars, researchVars>>
    \/ /\ component = "research" /\ Research!Next
       /\ UNCHANGED <<component, storeVars, inferenceVars>>

Spec == Init /\ [][Next]_vars

Interchangeable == Permutations(Tabs) \cup Permutations(Workers) \cup Permutations(Ids)

\* EvidenceStore!EvidenceSafe: reviewed receipt histories never fork or loop.
EvidenceSafe == component = "store" => Store!EvidenceSafe

\* EvidenceStore!NothingRevives: raw content stays gone, decisions replace what they read.
NothingRevives == [][component = "store" => Store!EvidenceStep]_vars

\* ReceiptInference!InferenceSafe: one consent reaches one provider once, within the quota.
InferenceSafe == component = "inference" => Inference!InferenceSafe

\* ReceiptInference!InferenceSteps: withdrawn stays withdrawn, local answers come first.
InferenceSteps == [][component = "inference" => Inference!InferenceStep]_vars

\* MerchantResearch!ResearchSafe: paid searches stay within their limits, erased stays erased.
ResearchSafe == component = "research" => Research!ResearchSafe
================================================================================
