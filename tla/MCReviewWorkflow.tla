--------------------------- MODULE MCReviewWorkflow ---------------------------
(***************************************************************************)
(* Reviewers, synchronizations and a proposal over the items of two        *)
(* transactions. Either the transactions are classified anew while one     *)
(* request and a proposal are in flight, or two requests race over one     *)
(* item.                                                                   *)
(***************************************************************************)
EXTENDS ReviewWorkflow, TLC

VARIABLE scenario

Interchangeable ==
    Permutations(Items) \cup Permutations(Txs) \cup Permutations(Reviewers) \cup Permutations(Requests)

Named == IF scenario = "classifications" THEN Categories ELSE {CHOOSE x \in Categories : TRUE}

MayRun(q) == scenario = "requests" \/ \A r \in Requests \ {q} : request[r] = None

MCInit == Init /\ scenario \in {"classifications", "requests"}
MCNext ==
    /\ UNCHANGED scenario
    /\ \/ (scenario = "classifications" \/ Stored = {}) /\ Publish(Named)
       \/ \E q \in Requests : MayRun(q) /\ Request(q, Named)
       \/ \E p \in Proposals : scenario = "classifications" /\ Proposal(p, Named)
MCSpec == MCInit /\ [][MCNext]_<<vars, scenario>>
==============================================================================
