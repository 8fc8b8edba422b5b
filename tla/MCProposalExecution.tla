-------------------------- MODULE MCProposalExecution --------------------------
(* Two proposals that race for one budget, one transaction and one review. *)
EXTENDS ProposalExecution, TLC

CONSTANTS p1, p2, c1, c2, t1, b1, r1, x1, x2, e1,
          MaxDisruptions

VARIABLE disruptions    \* how often something went wrong, bounded

MCBudgetOf == (t1 :> b1)
MCTxOf == (p1 :> t1) @@ (p2 :> t1)
MCCategoryOf == (p1 :> x1) @@ (p2 :> x2)
MCReviewOf == (p1 :> r1) @@ (p2 :> r1)
MCNoReviewOf == [p \in Proposals |-> None]
MCActorOf == [c \in Calls |-> e1]

mcVars == <<vars, disruptions>>

MCInit == Init /\ disruptions = 0

MCNext ==
    \/ Work /\ UNCHANGED disruptions
    \/ disruptions < MaxDisruptions /\ Disruption /\ disruptions' = disruptions + 1

MCSpec == MCInit /\ [][MCNext]_mcVars

MCFairSpec == MCSpec /\ \A c \in Calls : WF_mcVars(Step(c) /\ UNCHANGED disruptions)

Interchangeable == Permutations(Calls) \cup Permutations(Keys)

==============================================================================
