---------------------------- MODULE ReviewWorkflow ----------------------------
(***************************************************************************)
(* Review items of the workflow store: published by synchronizations,      *)
(* moved by reviewers under an optimistic version, completed by verified   *)
(* categorizations.                                                        *)
(*                                                                         *)
(* Every store method is one IMMEDIATE transaction. A request reads the    *)
(* items it is about first and writes after an await, one item at a time,  *)
(* with the version it read; a proposal remembers the item it was created  *)
(* from. Items of one space, budget and connection; categories include the *)
(* empty one of a review that asks for a category.                         *)
(***************************************************************************)
EXTENDS Integers, FiniteSets

CONSTANTS
    Items,          \* identities of review items
    Txs,
    Categories,
    Classifiers,
    Revisions,      \* hashes of the source facts of a classification
    Reviewers,
    Required,       \* reviewersRequired
    Requests,       \* concurrent review requests
    Proposals,      \* set_category proposals created from a review
    MaxVersion,     \* bound on an item's version
    None

ASSUME ReviewAssumption ==
    /\ IsFiniteSet(Reviewers)
    /\ Required \in Nat \ {0}
    /\ MaxVersion \in Nat

VARIABLES
    row,        \* review_items
    request,    \* what a request read and wants, or None
    proposal,   \* review provenance of a proposal, or None
    completed   \* proposals whose verified correction is stored

vars == <<row, request, proposal, completed>>

Statuses ==
    {"discovered", "suggestion_generated", "pending_review", "approved", "applying",
     "correcting", "applied", "apply_failed", "rejected", "skipped", "superseded"}

REVIEW_TRANSITIONS ==
    [discovered |-> {"suggestion_generated", "pending_review", "superseded"},
     suggestion_generated |-> {"pending_review", "skipped", "superseded"},
     pending_review |-> {"approved", "correcting", "rejected", "skipped", "superseded"},
     approved |-> {"correcting", "applying", "pending_review", "superseded"},
     applying |-> {"applied", "apply_failed", "superseded"},
     correcting |-> {"applying", "pending_review", "superseded", "rejected", "skipped", "approved"},
     applied |-> {"superseded"},
     apply_failed |-> {"correcting", "pending_review", "superseded"},
     rejected |-> {"superseded", "pending_review"},
     skipped |-> {"superseded", "pending_review"},
     superseded |-> {}]

UNDO_SOURCES == {"approved", "correcting", "rejected", "skipped"}

\* Statuses a reviewer, or the execution of a proposal, has put an item in.
protectedStatuses ==
    {"approved", "correcting", "applying", "applied", "apply_failed", "rejected", "skipped"}

Rows ==
    [tx : Txs, classifier : Classifiers, category : Categories, revision : Revisions,
     txVersion : Nat \ {0}, status : Statuses, version : Nat \ {0},
     approvedBy : SUBSET Reviewers, supersededBy : Items \cup {None}]

\* Requests about the items in G, and the review provenance of proposals.
RequestRecords(G) ==
    [to : Statuses \cup {None}, undo : BOOLEAN, actor : Reviewers,
     category : Categories \cup {None}, read : [G -> Rows]]

ProposalRecords == [item : Items, read : Rows, category : Categories]

\* None stands for NULL and for undefined: it is no identity, row, request or proposal.
ASSUME NoneAssumption ==
    /\ None \notin Items \cup Rows \cup ProposalRecords
    /\ \A G \in SUBSET Items : None \notin RequestRecords(G)

Stored == {i \in Items : row[i] # None}
Active == {i \in Stored : row[i].status # "superseded"}

Init ==
    /\ row = [i \in Items |-> None]
    /\ request = [q \in Requests |-> None]
    /\ proposal = [p \in Proposals |-> None]
    /\ completed = {}

------------------------------------------------------------------------------
(* Publication: a synchronization classifies a transaction. *)

Superseded(r, j) ==
    [r EXCEPT !.status = "superseded", !.supersededBy = j, !.version = @ + 1]

\* Variant: a new classification reuses the newest version.
NextTxVersion_Reused(t) ==
    CHOOSE v \in {1} \cup {row[j].txVersion : j \in Stored} :
        \A j \in Stored : row[j].tx = t => row[j].txVersion <= v

\* One more than any classification of the transaction so far.
NextTxVersion(t) ==
    CHOOSE v \in {1} \cup {row[j].txVersion + 1 : j \in Stored} :
        \A j \in Stored : row[j].tx = t => row[j].txVersion < v

NewItem(t, cl, x, rv) ==
    [tx |-> t, classifier |-> cl, category |-> x, revision |-> rv,
     txVersion |-> NextTxVersion(t), status |-> "discovered", version |-> 1,
     approvedBy |-> {}, supersededBy |-> None]

\* createReviewItems for one transaction of the batch (a batch names each once): what
\* a reviewer decided is left alone, the same facts keep their item, new facts or
\* another classification get a new item that supersedes the others.
createReviewItems(i, t, cl, x, rv) ==
    LET current == {j \in Active : row[j].tx = t}
        same == {j \in current : /\ row[j].classifier = cl /\ row[j].category = x
                                 /\ row[j].revision = rv}
        Publish(new, r, old) ==
            row' = [j \in Items |-> IF j = new THEN r
                                    ELSE IF j \in old THEN Superseded(row[j], new) ELSE row[j]]
    IN
    /\ \A j \in current : row[j].status \notin protectedStatuses
    /\ \A j \in current : row[j].version < MaxVersion
    /\ \/ \E k \in same : Publish(k, row[k], current \ {k})
       \/ /\ same = {}
          /\ row[i] = None
          /\ Publish(i, NewItem(t, cl, x, rv), current)
    /\ UNCHANGED <<request, proposal, completed>>

------------------------------------------------------------------------------
(* Requests of reviewers and of the synchronization. *)

\* The handler loads the items, then awaits. A group must agree on one status that may
\* move; an undo names one item and is a move back to pending_review.
ReadItems(q, G, to, undo, a) ==
    /\ request[q] = None
    /\ G # {} /\ G \subseteq Stored
    /\ Cardinality(G) > 1 =>
          \E s \in Statuses : to \in REVIEW_TRANSITIONS[s] /\ \A i \in G : row[i].status = s
    /\ undo => Cardinality(G) = 1 /\ to = "pending_review"
    /\ request' = [request EXCEPT ![q] =
                     [to |-> to, undo |-> undo, actor |-> a, category |-> None,
                      read |-> [i \in G |-> row[i]]]]
    /\ UNCHANGED <<row, proposal, completed>>

\* updateReviewItemCategory is called with a version read before, too.
ReadForCategory(q, i, x, a) ==
    /\ request[q] = None
    /\ i \in Stored
    /\ request' = [request EXCEPT ![q] =
                     [to |-> None, undo |-> FALSE, actor |-> a, category |-> x,
                      read |-> [j \in {i} |-> row[j]]]]
    /\ UNCHANGED <<row, proposal, completed>>

Pending(q) == IF request[q] = None THEN {} ELSE DOMAIN request[q].read

\* One item of the request is answered, with an item or an error.
Answered(q, i) ==
    request' = [request EXCEPT ![q] =
                  IF Pending(q) = {i} THEN None
                  ELSE [@ EXCEPT !.read = [j \in Pending(q) \ {i} |-> request[q].read[j]]]]

\* Variant: the last writer wins.
VersionCurrent_Ignored(q, i) == TRUE

VersionCurrent(q, i) == row[i].version = request[q].read[i].version

\* Variant: the update forgets the version.
Write_SameVersion(i, r) == row' = [row EXCEPT ![i] = r]

Write(i, r) ==
    /\ row[i].version < MaxVersion
    /\ row' = [row EXCEPT ![i] = [r EXCEPT !.version = @ + 1]]

\* Enough distinct reviewers, or one more on the way there.
Approve(q, i) ==
    LET by == row[i].approvedBy \cup {request[q].actor} IN
    /\ request[q].actor \notin row[i].approvedBy
    /\ Write(i, [row[i] EXCEPT !.approvedBy = by,
                               !.status = IF Cardinality(by) < Required THEN @ ELSE "approved"])

Transition(q, i) ==
    LET to == request[q].to IN
    /\ to \in REVIEW_TRANSITIONS[row[i].status]
    /\ request[q].undo => row[i].status \in UNDO_SOURCES
    /\ VersionCurrent(q, i)
    /\ IF to = "approved" THEN Approve(q, i)
       ELSE Write(i, [row[i] EXCEPT !.status = to])

transitionReviewItem(q, i) ==
    /\ request[q] # None /\ request[q].to # None
    /\ i \in Pending(q)
    /\ Transition(q, i)
    /\ Answered(q, i)
    /\ UNCHANGED <<proposal, completed>>

updateReviewItemCategory(q, i) ==
    LET r == [row[i] EXCEPT !.category = request[q].category] IN
    /\ request[q] # None /\ request[q].category # None
    /\ i \in Pending(q)
    /\ VersionCurrent(q, i)
    /\ Write(i, r)
    /\ Answered(q, i)
    /\ UNCHANGED <<proposal, completed>>

\* Already there, already approved by this reviewer, version conflict, transition not
\* allowed, authorization denied, unique index: the item stays as it is.
RequestUnmoved(q, i) ==
    /\ i \in Pending(q)
    /\ Answered(q, i)
    /\ UNCHANGED <<row, proposal, completed>>

------------------------------------------------------------------------------
(* Proposals created from a review, and their verified completion. *)

createProposal(p, i, x) ==
    /\ proposal[p] = None
    /\ i \in Stored
    /\ row[i].status \in {"pending_review", "correcting"}
    /\ proposal' = [proposal EXCEPT ![p] = [item |-> i, read |-> row[i], category |-> x]]
    /\ UNCHANGED <<row, request, completed>>

proposalReviewProvenanceMatches(p) ==
    LET i == proposal[p].item IN
    /\ row[i].status = proposal[p].read.status
    /\ row[i].version = proposal[p].read.version
    /\ row[i].category = proposal[p].read.category

\* The status changes and the verified correction are stored together, once.
completeVerifiedCategorizationReview(p) ==
    LET i == proposal[p].item
        r == [row[i] EXCEPT !.category = proposal[p].category, !.status = "applied"] IN
    /\ proposal[p] # None /\ p \notin completed
    /\ proposalReviewProvenanceMatches(p)
    /\ Write(i, r)
    /\ completed' = completed \cup {p}
    /\ UNCHANGED <<request, proposal>>

------------------------------------------------------------------------------
\* X: the categories classifiers and reviewers name.
Publish(X) ==
    \E i \in Items, t \in Txs, cl \in Classifiers, x \in X, rv \in Revisions :
        createReviewItems(i, t, cl, x, rv)

Request(q, X) ==
    \/ \E G \in SUBSET Items, to \in Statuses, undo \in BOOLEAN, a \in Reviewers :
          ReadItems(q, G, to, undo, a)
    \/ \E i \in Items, x \in X, a \in Reviewers : ReadForCategory(q, i, x, a)
    \/ \E i \in Items : \/ transitionReviewItem(q, i)
                        \/ updateReviewItemCategory(q, i)
                        \/ RequestUnmoved(q, i)

Proposal(p, X) ==
    \/ \E i \in Items, x \in X : createProposal(p, i, x)
    \/ completeVerifiedCategorizationReview(p)

Next ==
    \/ Publish(Categories)
    \/ \E q \in Requests : Request(q, Categories)
    \/ \E p \in Proposals : Proposal(p, Categories)

Spec == Init /\ [][Next]_vars
------------------------------------------------------------------------------
(* Properties. *)

\* Rows, and what requests and proposals read of them, have the columns' types; only
\* stored items are referred to.
TypeOK ==
    /\ row \in [Items -> Rows \cup {None}]
    /\ DOMAIN request = Requests
    /\ \A q \in Requests : request[q] # None =>
          \E G \in SUBSET Stored : request[q] \in RequestRecords(G)
    /\ proposal \in [Proposals -> ProposalRecords \cup {None}]
    /\ \A p \in Proposals : proposal[p] # None => proposal[p].item \in Stored
    /\ completed \in SUBSET Proposals

\* Duplicate attention: however often a transaction is classified anew, at most one
\* item about it is not superseded.
OneAttentionPerTransaction ==
    \A i, j \in Active : row[i].tx = row[j].tx => i = j

\* An item version names one content: whoever finds the version it read finds the
\* status, category and approvals it read.
VersionNamesContent ==
    /\ \A q \in Requests : \A i \in Pending(q) :
          row[i].version = request[q].read[i].version => row[i] = request[q].read[i]
    /\ \A p \in Proposals : proposal[p] # None =>
          LET i == proposal[p].item IN
          row[i].version = proposal[p].read.version => row[i] = proposal[p].read

\* A superseded item points, if anywhere, to a newer classification: following the
\* links always ends.
SupersessionMovesForward ==
    \A i \in Stored : row[i].supersededBy # None =>
        /\ row[i].status = "superseded"
        /\ row[i].supersededBy \in Stored
        /\ row[row[i].supersededBy].txVersion > row[i].txVersion

\* An approved item was approved by enough distinct reviewers.
ApprovedByEnough ==
    \A i \in Stored : row[i].status = "approved" => Cardinality(row[i].approvedBy) >= Required

\* A version that a request or a proposal remembers is not ahead of the item's: a write
\* always leaves every remembered version behind.
ReadsAreOld ==
    /\ \A q \in Requests : \A i \in Pending(q) : request[q].read[i].version <= row[i].version
    /\ \A p \in Proposals : proposal[p] # None =>
          proposal[p].read.version <= row[proposal[p].item].version

\* A proposal was made from an item that asked for a decision (createProposal).
ProposedWhileOpen ==
    \A p \in Proposals : proposal[p] # None =>
        proposal[p].read.status \in {"pending_review", "correcting"}

\* The classifications of a transaction have a newest one, so the next has a version
\* (the MAX over the transaction's items in createReviewItems).
VersionsBounded ==
    \A t \in Txs : \E v \in {1} \cup {row[j].txVersion + 1 : j \in Stored} :
        \A j \in Stored : row[j].tx = t => row[j].txVersion < v

\* The rows are well formed, a transaction's live item is the one end of its history, and an
\* approved one was approved by enough reviewers. The last three parts make it inductive.
ItemsSafe ==
    /\ TypeOK /\ OneAttentionPerTransaction /\ SupersessionMovesForward
    /\ VersionNamesContent /\ ApprovedByEnough
    /\ ReadsAreOld /\ ProposedWhileOpen /\ VersionsBounded

\* Whoever is about to write item i read exactly what it is now.
Seen(i) ==
    \/ \E q \in Requests : i \in Pending(q) /\ request[q].read[i] = row[i]
    \/ \E p \in Proposals : /\ proposal[p] # None
                            /\ proposal[p].item = i /\ proposal[p].read = row[i]

OverturnsSeen ==
    \A i \in Stored : row[i].status \in protectedStatuses /\ row'[i] # row[i] => Seen(i)

\* Nobody overturns a decision unseen: whatever changes an item a reviewer has decided
\* on read exactly that decision first. No synchronization does.
NoBlindOverturn == [][OverturnsSeen]_vars

(* The item as ProposalExecution sees it. *)
CellState(i) ==
    IF row[i] = None THEN "closed"
    ELSE IF row[i].status \in {"pending_review", "correcting"} THEN "open"
    ELSE IF row[i].status \in {"applied", "superseded"} THEN row[i].status
    ELSE "closed"

CellVersion(i) == IF row[i] = None THEN 0 ELSE row[i].version

Cell == INSTANCE ReviewCell WITH
    Reviews <- Items,
    rstate <- [i \in Items |-> CellState(i)],
    rversion <- [i \in Items |-> CellVersion(i)]

\* Seen from a proposal, an item is a cell whose version moves by one with every change.
CellSpec == Cell!Spec
==============================================================================
