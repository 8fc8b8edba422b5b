------------------------- MODULE ReviewWorkflowProofs -------------------------
(* ItemsSafe is inductive, for any number of items, transactions, reviewers and  *)
(* requests: every write moves a version past every version somebody remembers.  *)
(* That nobody overturns a decision unseen, and that the items implement         *)
(* ReviewCell, then follows step by step.                                        *)
EXTENDS ReviewWorkflow, FiniteSetTheorems, TLAPS

\* The transition table of the store: only statuses, out of an applied item only to
\* superseded, out of a superseded one nowhere.
LEMMA Transitions ==
    ASSUME NEW s \in Statuses
    PROVE  /\ REVIEW_TRANSITIONS[s] \subseteq Statuses
           /\ s = "applied" => REVIEW_TRANSITIONS[s] = {"superseded"}
           /\ s = "superseded" => REVIEW_TRANSITIONS[s] = {}
BY DEF Statuses, REVIEW_TRANSITIONS

\* Nothing is stored before the first synchronization.
LEMMA SafeInit == Init => ItemsSafe
BY DEF Init, ItemsSafe, TypeOK, OneAttentionPerTransaction, SupersessionMovesForward,
       VersionNamesContent, ApprovedByEnough, ReadsAreOld, ProposedWhileOpen, VersionsBounded,
       Stored, Active, Pending

\* The version createReviewItems gives a classification is above all earlier ones.
LEMMA NewestVersion ==
    ASSUME TypeOK, VersionsBounded, NEW t \in Txs
    PROVE  /\ NextTxVersion(t) \in Nat \ {0}
           /\ \A j \in Stored : row[j].tx = t => row[j].txVersion < NextTxVersion(t)
<1> DEFINE V == {1} \cup {row[j].txVersion + 1 : j \in Stored}
           Above(v) == \A j \in Stored : row[j].tx = t => row[j].txVersion < v
<1>1. \E v \in V : Above(v)
  BY DEF VersionsBounded
<1>2. NextTxVersion(t) = CHOOSE v \in V : Above(v)
  BY DEF NextTxVersion
<1>3. NextTxVersion(t) \in V /\ Above(NextTxVersion(t))
  <2> HIDE DEF V, Above
  <2> QED BY <1>1, <1>2
<1>4. V \subseteq Nat \ {0}
  BY DEF TypeOK, Rows, Stored
<1> QED
  BY <1>3, <1>4

------------------------------------------------------------------------------
\* What the rows promise, apart from what requests and proposals remember of them.
RowsSafe ==
    /\ row \in [Items -> Rows \cup {None}]
    /\ OneAttentionPerTransaction /\ SupersessionMovesForward
    /\ ApprovedByEnough /\ VersionsBounded

\* What requests and proposals remember of the rows.
ReadsSafe ==
    /\ DOMAIN request = Requests
    /\ \A q \in Requests : request[q] # None =>
          \E G \in SUBSET Stored : request[q] \in RequestRecords(G)
    /\ proposal \in [Proposals -> ProposalRecords \cup {None}]
    /\ \A p \in Proposals : proposal[p] # None => proposal[p].item \in Stored
    /\ VersionNamesContent /\ ReadsAreOld /\ ProposedWhileOpen

\* The two halves and the typed set of completions make up ItemsSafe.
LEMMA Halves == ItemsSafe <=> RowsSafe /\ ReadsSafe /\ completed \in SUBSET Proposals
BY DEF ItemsSafe, TypeOK, RowsSafe, ReadsSafe

\* s is row[i] after one write of the store: the version moves on, the identity of the
\* classification stays, superseded is final, approval takes enough reviewers.
Moves(i, s) ==
    /\ i \in Stored /\ s \in Rows
    /\ s.version = row[i].version + 1
    /\ s.tx = row[i].tx /\ s.txVersion = row[i].txVersion
    /\ s.supersededBy = row[i].supersededBy
    /\ row[i].status = "superseded" => s.status = "superseded"
    /\ s.status = "approved" => Cardinality(s.approvedBy) >= Required

\* A write of one item keeps the rows' promises.
LEMMA MoveKeepsRows ==
    ASSUME RowsSafe, NEW i \in Items, NEW s, Moves(i, s), row' = [row EXCEPT ![i] = s]
    PROVE  RowsSafe' /\ Stored' = Stored
<1> USE DEF RowsSafe
<1>1. row' \in [Items -> Rows \cup {None}] /\ Stored' = Stored
  BY NoneAssumption DEF Moves, Stored
<1>2. Active' \subseteq Active /\ \A j \in Items : j \in Stored => row'[j].tx = row[j].tx
  BY <1>1 DEF Moves, Active, Stored
<1>3. OneAttentionPerTransaction'
  BY <1>1, <1>2 DEF OneAttentionPerTransaction, Active
<1>4. \A j \in Stored : /\ row'[j].txVersion = row[j].txVersion
                        /\ row'[j].supersededBy = row[j].supersededBy
                        /\ row[j].status = "superseded" => row'[j].status = "superseded"
  BY DEF Moves, Stored
<1>5. SupersessionMovesForward'
  BY <1>1, <1>4 DEF SupersessionMovesForward
<1>6. ApprovedByEnough'
  BY <1>1 DEF ApprovedByEnough, Moves, Stored
<1>7. {row'[j].txVersion + 1 : j \in Stored'} = {row[j].txVersion + 1 : j \in Stored}
  BY <1>1, <1>4
<1>8. VersionsBounded'
  BY <1>1, <1>2, <1>4, <1>7 DEF VersionsBounded, Stored
<1> QED
  BY <1>1, <1>3, <1>5, <1>6, <1>8

\* Answering one item of a request forgets what was read of it and nothing else.
LEMMA AnsweredForgets ==
    ASSUME ReadsSafe, NEW q \in Requests, NEW i \in Pending(q), Answered(q, i)
    PROVE  /\ DOMAIN request' = Requests
           /\ \A u \in Requests \ {q} : request'[u] = request[u]
           /\ request'[q] # None =>
                 /\ \E G \in SUBSET Stored : request'[q] \in RequestRecords(G)
                 /\ request[q] # None
                 /\ \A j \in Pending(q) \ {i} : request'[q].read[j] = request[q].read[j]
           /\ Pending(q)' = Pending(q) \ {i}
<1> DEFINE R == [j \in Pending(q) \ {i} |-> request[q].read[j]]
<1>1. request[q] # None
  BY DEF Pending
<1>2. PICK G \in SUBSET Stored : request[q] \in RequestRecords(G)
  BY <1>1 DEF ReadsSafe
<1>3. Pending(q) = G
  BY <1>1, <1>2 DEF Pending, RequestRecords
<1>4. [request[q] EXCEPT !.read = R] \in RequestRecords(G \ {i})
  BY <1>2, <1>3 DEF RequestRecords
<1>5. CASE Pending(q) = {i}
  BY <1>5 DEF Answered, ReadsSafe, Pending
<1>6. CASE Pending(q) # {i}
  <2>1. request' = [request EXCEPT ![q] = [request[q] EXCEPT !.read = R]]
    BY <1>6 DEF Answered
  <2>2. request'[q] = [request[q] EXCEPT !.read = R] /\ DOMAIN request' = Requests
        /\ \A u \in Requests \ {q} : request'[u] = request[u]
    BY <2>1 DEF ReadsSafe
  <2>3. request'[q] # None
    BY <2>2, <1>4, NoneAssumption DEF Stored
  <2>4. request'[q].read = R
    BY <1>2, <2>2 DEF RequestRecords
  <2>5. Pending(q)' = Pending(q) \ {i}
    BY <2>3, <2>4 DEF Pending
  <2>6. \A j \in Pending(q) \ {i} : request'[q].read[j] = request[q].read[j]
    BY <2>4
  <2>7. request'[q] \in RequestRecords(G \ {i}) /\ G \ {i} \in SUBSET Stored
    BY <1>4, <2>2
  <2> QED
    BY <1>1, <2>2, <2>5, <2>6, <2>7
<1> QED
  BY <1>5, <1>6

\* Rows only appear, or move to a later version.
RowsAdvance ==
    /\ Stored \subseteq Stored'
    /\ \A j \in Stored : /\ row'[j] \in Rows
                         /\ row'[j] = row[j] \/ row'[j].version > row[j].version

\* Requests keep, or forget, what they have read.
ReadsForgotten ==
    /\ DOMAIN request' = Requests
    /\ \A u \in Requests :
          /\ request'[u] # None => \E G \in SUBSET Stored : request'[u] \in RequestRecords(G)
          /\ Pending(u)' \subseteq Pending(u)
          /\ \A j \in Pending(u)' : request'[u].read[j] = request[u].read[j]

\* The items a request is about are stored, and what it read of them are rows.
LEMMA PendingStored ==
    ASSUME ReadsSafe, NEW q \in Requests, NEW i \in Pending(q)
    PROVE  i \in Stored /\ request[q].read[i] \in Rows
BY DEF ReadsSafe, Pending, RequestRecords

\* Whatever requests and proposals remember stays true of rows that advance.
LEMMA AdvanceKeepsReads ==
    ASSUME RowsSafe, ReadsSafe, RowsAdvance, ReadsForgotten, UNCHANGED proposal
    PROVE  ReadsSafe'
<1>1. /\ DOMAIN request' = Requests
      /\ \A q \in Requests : request'[q] # None =>
            \E G \in SUBSET Stored' : request'[q] \in RequestRecords(G)
  BY DEF RowsAdvance, ReadsForgotten
<1>2. /\ proposal' \in [Proposals -> ProposalRecords \cup {None}]
      /\ \A p \in Proposals : proposal'[p] # None => proposal'[p].item \in Stored'
      /\ ProposedWhileOpen'
  BY DEF ReadsSafe, RowsAdvance, ProposedWhileOpen
<1>3. ASSUME NEW q \in Requests, NEW i \in Pending(q)'
      PROVE  /\ request'[q].read[i].version <= row'[i].version
             /\ row'[i].version = request'[q].read[i].version => row'[i] = request'[q].read[i]
  <2>1. i \in Pending(q) /\ request'[q].read[i] = request[q].read[i]
    BY DEF ReadsForgotten
  <2>2. i \in Stored /\ request[q].read[i] \in Rows
    BY <2>1, PendingStored
  <2>3. /\ request[q].read[i].version <= row[i].version
        /\ row[i].version = request[q].read[i].version => row[i] = request[q].read[i]
    BY <2>1 DEF ReadsSafe, ReadsAreOld, VersionNamesContent
  <2>4. /\ row[i].version \in Nat /\ row'[i].version \in Nat
        /\ request[q].read[i].version \in Nat
        /\ row'[i] = row[i] \/ row'[i].version > row[i].version
    BY <2>2 DEF RowsSafe, RowsAdvance, Rows, Stored
  <2> QED
    BY <2>1, <2>3, <2>4
<1>4. ASSUME NEW p \in Proposals, proposal[p] # None
      PROVE  /\ proposal[p].read.version <= row'[proposal[p].item].version
             /\ row'[proposal[p].item].version = proposal[p].read.version =>
                   row'[proposal[p].item] = proposal[p].read
  <2>1. PICK i \in Stored : i = proposal[p].item
    BY <1>4 DEF ReadsSafe
  <2>2. /\ proposal[p].read.version <= row[i].version
        /\ row[i].version = proposal[p].read.version => row[i] = proposal[p].read
    BY <1>4, <2>1 DEF ReadsSafe, ReadsAreOld, VersionNamesContent
  <2>3. proposal[p].read \in Rows
    BY <1>4 DEF ReadsSafe, ProposalRecords
  <2>4. /\ row[i].version \in Nat /\ row'[i].version \in Nat
        /\ proposal[p].read.version \in Nat
        /\ row'[i] = row[i] \/ row'[i].version > row[i].version
    BY <2>3 DEF RowsSafe, RowsAdvance, Rows, Stored
  <2> QED
    BY <2>1, <2>2, <2>4
<1>5. VersionNamesContent' /\ ReadsAreOld'
  BY <1>3, <1>4 DEF VersionNamesContent, ReadsAreOld
<1> QED
  BY <1>1, <1>2, <1>5 DEF ReadsSafe

\* A write of the item a request is answered for keeps what the other reads are worth.
LEMMA AnsweredKeepsReads ==
    ASSUME ReadsSafe, NEW q \in Requests, NEW i \in Pending(q), Answered(q, i)
    PROVE  ReadsForgotten
<1>1. ASSUME NEW u \in Requests \ {q}
      PROVE  /\ request'[u] # None => \E G \in SUBSET Stored : request'[u] \in RequestRecords(G)
             /\ Pending(u)' \subseteq Pending(u)
             /\ \A j \in Pending(u)' : request'[u].read[j] = request[u].read[j]
  BY AnsweredForgets DEF ReadsSafe, Pending
<1>2. /\ request'[q] # None => \E G \in SUBSET Stored : request'[q] \in RequestRecords(G)
      /\ Pending(q)' \subseteq Pending(q)
      /\ request'[q] # None => \A j \in Pending(q)' : request'[q].read[j] = request[q].read[j]
  BY AnsweredForgets
<1>3. \A j \in Pending(q)' : request'[q] # None
  BY DEF Pending
<1> QED
  BY <1>1, <1>2, <1>3, AnsweredForgets DEF ReadsForgotten

\* One write of one item: the rows advance.
LEMMA MoveAdvances ==
    ASSUME RowsSafe, NEW i \in Items, NEW s, Moves(i, s), row' = [row EXCEPT ![i] = s]
    PROVE  RowsAdvance
<1>1. Stored' = Stored /\ s \in Rows /\ row[i] \in Rows
  BY MoveKeepsRows DEF Moves, RowsSafe, Stored
<1>2. row[i].version \in Nat /\ s.version = row[i].version + 1
  BY <1>1 DEF Moves, Rows
<1> QED
  BY <1>1, <1>2 DEF RowsAdvance, RowsSafe, Stored

------------------------------------------------------------------------------
\* The three writes of the store move their item.

\* The version of a written row, and nothing else, is moved on by the store.
LEMMA NextVersion ==
    ASSUME NEW r \in Rows
    PROVE  LET s == [r EXCEPT !.version = @ + 1] IN
           /\ s \in Rows /\ s.version = r.version + 1
           /\ s.tx = r.tx /\ s.txVersion = r.txVersion /\ s.supersededBy = r.supersededBy
           /\ s.status = r.status /\ s.approvedBy = r.approvedBy
BY DEF Rows

\* A sufficient set of approvals, or one more reviewer on the way there.
LEMMA ApproveMoves ==
    ASSUME RowsSafe, ReadsSafe, NEW q \in Requests, NEW i \in Pending(q), Approve(q, i),
           row[i].status # "superseded"
    PROVE  \E s : Moves(i, s) /\ row' = [row EXCEPT ![i] = s]
<1> DEFINE by == row[i].approvedBy \cup {request[q].actor}
           st == IF Cardinality(by) < Required THEN row[i].status ELSE "approved"
           r == [row[i] EXCEPT !.approvedBy = by, !.status = st]
           s == [r EXCEPT !.version = @ + 1]
<1>1. i \in Stored /\ row[i] \in Rows /\ request[q].actor \in Reviewers
  BY PendingStored DEF RowsSafe, ReadsSafe, Stored, Pending, RequestRecords
<1>2. row' = [row EXCEPT ![i] = s]
  BY DEF Approve, Write
<1>3. r \in Rows /\ r.status = st /\ r.approvedBy = by /\ r.version = row[i].version
      /\ r.tx = row[i].tx /\ r.txVersion = row[i].txVersion
      /\ r.supersededBy = row[i].supersededBy
  BY <1>1 DEF Rows, Statuses
<1>4. IsFiniteSet(by) /\ Cardinality(by) \in Nat
  BY <1>1, ReviewAssumption, FS_Subset, FS_CardinalityType DEF Rows
<1>5. IsFiniteSet(row[i].approvedBy) /\ Cardinality(row[i].approvedBy) <= Cardinality(by)
      /\ Cardinality(row[i].approvedBy) \in Nat
  BY <1>1, <1>4, FS_Subset, FS_CardinalityType DEF Rows
<1>6. s.status = "approved" => Cardinality(s.approvedBy) >= Required
  <2>1. s.status = st /\ s.approvedBy = by
    BY <1>3, NextVersion
  <2>2. row[i].status = "approved" => Cardinality(row[i].approvedBy) >= Required
    BY <1>1 DEF RowsSafe, ApprovedByEnough
  <2>3. st = "approved" => Cardinality(by) >= Required
    BY <1>4, <1>5, <2>2, ReviewAssumption
  <2> QED
    BY <2>1, <2>3
<1>7. s \in Rows /\ s.version = row[i].version + 1
      /\ s.tx = row[i].tx /\ s.txVersion = row[i].txVersion
      /\ s.supersededBy = row[i].supersededBy
  <2> HIDE DEF r
  <2> QED BY <1>3, NextVersion
<1>8. Moves(i, s)
  BY <1>1, <1>6, <1>7 DEF Moves
<1> QED
  BY <1>2, <1>8

\* Any other write of a status or a category that the approvals allow.
LEMMA WriteMoves ==
    ASSUME RowsSafe, NEW i \in Stored, NEW x \in Categories, NEW st \in Statuses,
           Write(i, [row[i] EXCEPT !.category = x, !.status = st]),
           row[i].status = "superseded" => st = "superseded",
           st = "approved" => row[i].status = "approved"
    PROVE  \E s : Moves(i, s) /\ row' = [row EXCEPT ![i] = s]
<1> DEFINE r == [row[i] EXCEPT !.category = x, !.status = st]
           s == [r EXCEPT !.version = @ + 1]
<1>1. row[i] \in Rows
  BY DEF RowsSafe, Stored
<1>2. row' = [row EXCEPT ![i] = s]
  BY DEF Write
<1>3. r \in Rows /\ r.status = st /\ r.approvedBy = row[i].approvedBy
      /\ r.version = row[i].version /\ r.tx = row[i].tx /\ r.txVersion = row[i].txVersion
      /\ r.supersededBy = row[i].supersededBy
  BY <1>1 DEF Rows
<1>4. row[i].status = "approved" => Cardinality(row[i].approvedBy) >= Required
  BY DEF RowsSafe, ApprovedByEnough
<1>5. Moves(i, s)
  BY <1>3, <1>4, NextVersion DEF Moves
<1> QED
  BY <1>2, <1>5

\* transitionReviewItem writes a status the table allows.
LEMMA TransitionMoves ==
    ASSUME RowsSafe, ReadsSafe, NEW q \in Requests, NEW i \in Pending(q), Transition(q, i)
    PROVE  \E s : Moves(i, s) /\ row' = [row EXCEPT ![i] = s]
<1> DEFINE to == request[q].to
<1>1. i \in Stored /\ row[i] \in Rows /\ row[i].status \in Statuses
  BY PendingStored DEF RowsSafe, Stored, Rows
<1>2. to \in Statuses /\ row[i].status # "superseded"
  BY <1>1, Transitions DEF Transition
<1>3. CASE to = "approved"
  BY <1>2, <1>3, ApproveMoves DEF Transition
<1>4. CASE to # "approved"
  <2>1. [row[i] EXCEPT !.status = to] = [row[i] EXCEPT !.category = row[i].category, !.status = to]
    BY <1>1 DEF Rows
  <2>2. Write(i, [row[i] EXCEPT !.category = row[i].category, !.status = to])
    BY <1>4, <2>1 DEF Transition
  <2>3. row[i].category \in Categories
    BY <1>1 DEF Rows
  <2> QED
    BY <1>1, <1>2, <1>4, <2>2, <2>3, WriteMoves
<1> QED
  BY <1>3, <1>4

\* updateReviewItemCategory leaves the status alone.
LEMMA CategoryMoves ==
    ASSUME RowsSafe, ReadsSafe, NEW q \in Requests, NEW i \in Items,
           updateReviewItemCategory(q, i)
    PROVE  i \in Pending(q) /\ \E s : Moves(i, s) /\ row' = [row EXCEPT ![i] = s]
<1> DEFINE x == request[q].category
<1>1. i \in Pending(q) /\ request[q] # None /\ x # None
  BY DEF updateReviewItemCategory
<1>2. i \in Stored /\ row[i] \in Rows /\ x \in Categories
  BY <1>1, PendingStored DEF RowsSafe, ReadsSafe, Stored, RequestRecords
<1>3. [row[i] EXCEPT !.category = x] = [row[i] EXCEPT !.category = x, !.status = row[i].status]
      /\ row[i].status \in Statuses
  BY <1>2 DEF Rows
<1>4. Write(i, [row[i] EXCEPT !.category = x, !.status = row[i].status])
  BY <1>3 DEF updateReviewItemCategory
<1> QED
  BY <1>1, <1>2, <1>3, <1>4, WriteMoves

\* completeVerifiedCategorizationReview applies the item the proposal was made from, which
\* is not superseded because it has not changed since.
LEMMA CompletionMoves ==
    ASSUME RowsSafe, ReadsSafe, NEW p \in Proposals, completeVerifiedCategorizationReview(p)
    PROVE  /\ proposal[p] # None /\ proposal[p].item \in Stored
           /\ row[proposal[p].item] = proposal[p].read
           /\ row[proposal[p].item].status \in {"pending_review", "correcting"}
           /\ \E s : Moves(proposal[p].item, s) /\ row' = [row EXCEPT ![proposal[p].item] = s]
<1>1. proposal[p] # None
  BY DEF completeVerifiedCategorizationReview
<1>2. PICK i \in Stored : i = proposal[p].item
  BY <1>1 DEF ReadsSafe
<1>3. row[i] = proposal[p].read /\ row[i].status \in {"pending_review", "correcting"}
  BY <1>1, <1>2 DEF completeVerifiedCategorizationReview, proposalReviewProvenanceMatches,
     ReadsSafe, VersionNamesContent, ProposedWhileOpen
<1>4. proposal[p].category \in Categories /\ "applied" \in Statuses
  BY <1>1 DEF ReadsSafe, ProposalRecords, Statuses
<1>5. Write(i, [row[i] EXCEPT !.category = proposal[p].category, !.status = "applied"])
  BY <1>2 DEF completeVerifiedCategorizationReview
<1>6. \E s : Moves(i, s) /\ row' = [row EXCEPT ![i] = s]
  BY <1>3, <1>4, <1>5, WriteMoves
<1> QED
  BY <1>1, <1>2, <1>3, <1>6

------------------------------------------------------------------------------
\* Publication: the live items of a transaction, and a new classification of it.
Live(t) == {j \in Active : row[j].tx = t}

Reclassified(i, t, cl, x, rv) ==
    /\ row[i] = None
    /\ \A j \in Live(t) : row[j].status \notin protectedStatuses
    /\ row' = [j \in Items |-> IF j = i THEN NewItem(t, cl, x, rv)
                              ELSE IF j \in Live(t) THEN Superseded(row[j], i) ELSE row[j]]

\* A synchronization that finds the same classification changes nothing, because it is the
\* only live one; any other supersedes the live one by a new item.
LEMMA Publication ==
    ASSUME RowsSafe, NEW i \in Items, NEW t \in Txs, NEW cl \in Classifiers,
           NEW x \in Categories, NEW rv \in Revisions, createReviewItems(i, t, cl, x, rv)
    PROVE  row' = row \/ Reclassified(i, t, cl, x, rv)
<1> DEFINE same == {j \in Live(t) : /\ row[j].classifier = cl /\ row[j].category = x
                                   /\ row[j].revision = rv}
<1>1. ASSUME NEW k \in same,
             row' = [j \in Items |-> IF j = k THEN row[k]
                       ELSE IF j \in Live(t) \ {k} THEN Superseded(row[j], k) ELSE row[j]]
      PROVE  row' = row
  <2>1. Live(t) \ {k} = {}
    BY DEF RowsSafe, OneAttentionPerTransaction, Live
  <2>2. row' = [j \in Items |-> row[j]]
    BY <1>1, <2>1
  <2> QED
    BY <2>2 DEF RowsSafe
<1>2. CASE /\ row[i] = None
           /\ row' = [j \in Items |-> IF j = i THEN NewItem(t, cl, x, rv)
                        ELSE IF j \in Live(t) THEN Superseded(row[j], i) ELSE row[j]]
  BY <1>2 DEF createReviewItems, Reclassified, Live
<1> QED
  BY <1>1, <1>2 DEF createReviewItems, Live

\* Superseding a row moves it on and ends it.
LEMMA SupersededRow ==
    ASSUME NEW r \in Rows, NEW i \in Items
    PROVE  /\ Superseded(r, i) \in Rows
           /\ Superseded(r, i).status = "superseded" /\ Superseded(r, i).supersededBy = i
           /\ Superseded(r, i).version = r.version + 1
           /\ Superseded(r, i).tx = r.tx /\ Superseded(r, i).txVersion = r.txVersion
<1> DEFINE q == [r EXCEPT !.status = "superseded", !.supersededBy = i]
<1>1. /\ q \in Rows /\ q.status = "superseded" /\ q.supersededBy = i
      /\ q.version = r.version /\ q.tx = r.tx /\ q.txVersion = r.txVersion
  BY DEF Rows, Statuses
<1>2. Superseded(r, i) = [q EXCEPT !.version = @ + 1]
  BY DEF Superseded, Rows
<1> HIDE DEF q
<1> QED
  BY <1>1, <1>2, NextVersion

\* A new classification keeps the rows' promises and leaves what was remembered behind.
LEMMA PublicationSafe ==
    ASSUME RowsSafe, TypeOK, NEW i \in Items, NEW t \in Txs, NEW cl \in Classifiers,
           NEW x \in Categories, NEW rv \in Revisions, Reclassified(i, t, cl, x, rv)
    PROVE  RowsSafe' /\ RowsAdvance
<1> DEFINE new == NewItem(t, cl, x, rv)
           w == NextTxVersion(t)
<1>1. /\ w \in Nat \ {0}
      /\ \A j \in Stored : row[j].tx = t => row[j].txVersion < w
  BY NewestVersion DEF RowsSafe
<1>2. new \in Rows /\ new.tx = t /\ new.txVersion = w /\ new.status = "discovered"
      /\ new.supersededBy = None /\ new.version = 1
  BY <1>1 DEF NewItem, Rows, Statuses
<1>3. i \notin Stored /\ Live(t) \subseteq Stored /\ Stored \subseteq Items
      /\ \A j \in Stored : row[j] \in Rows
  BY DEF Reclassified, Stored, Live, Active, RowsSafe
<1>4. row'[i] = new /\ (\A j \in Live(t) : row'[j] = Superseded(row[j], i))
      /\ \A j \in Items \ (Live(t) \cup {i}) : row'[j] = row[j]
  BY <1>3 DEF Reclassified
<1>5. \A j \in Stored : /\ row'[j] \in Rows /\ row'[j].tx = row[j].tx
                        /\ row'[j].txVersion = row[j].txVersion
                        /\ row'[j] = row[j] \/ row'[j].version = row[j].version + 1
                        /\ row[j].status = "superseded" => row'[j] = row[j]
  <2>1. \A j \in Live(t) : row[j].status # "superseded"
    BY DEF Live, Active
  <2> QED
    BY <1>3, <1>4, <2>1, SupersededRow
<1>6. row' \in [Items -> Rows \cup {None}] /\ Stored' = Stored \cup {i}
  <2>1. \A j \in Items : row'[j] \in Rows \cup {None}
    BY <1>2, <1>3, <1>4, <1>5 DEF RowsSafe
  <2>2. row' = [j \in Items |-> row'[j]]
    BY DEF Reclassified
  <2>3. row'[i] # None /\ \A j \in Stored : row'[j] # None
    BY <1>2, <1>4, <1>5, NoneAssumption
  <2>4. \A j \in Items \ (Stored \cup {i}) : row'[j] = None
    BY <1>3, <1>4 DEF Stored
  <2>5. Stored' = Stored \cup {i}
    BY <2>3, <2>4 DEF Stored
  <2> QED
    BY <2>1, <2>2, <2>5
<1>7. RowsAdvance
  <2>1. \A j \in Stored : row[j].version \in Nat
    BY <1>3 DEF Rows
  <2> QED
    BY <1>5, <1>6, <2>1 DEF RowsAdvance
<1>8. Active' = (Active \ Live(t)) \cup {i}
  <2>1. i \in Active'
    BY <1>2, <1>4, <1>6 DEF Active
  <2>2. \A j \in Live(t) : row'[j].status = "superseded"
    BY <1>3, <1>4, SupersededRow
  <2>3. \A j \in Stored \ Live(t) : row'[j] = row[j]
    BY <1>3, <1>4
  <2> QED
    BY <1>6, <2>1, <2>2, <2>3 DEF Active, Live
<1>9. OneAttentionPerTransaction'
  <2>1. \A j \in Active \ Live(t) : row'[j].tx = row[j].tx /\ row[j].tx # t
    BY <1>5 DEF Live, Active
  <2>2. row'[i].tx = t
    BY <1>2, <1>4
  <2>3. \A j, k \in Active \ Live(t) : row[j].tx = row[k].tx => j = k
    BY DEF RowsSafe, OneAttentionPerTransaction
  <2> QED
    BY <1>8, <2>1, <2>2, <2>3 DEF OneAttentionPerTransaction
<1>10. SupersessionMovesForward'
  <2>1. ASSUME NEW j \in Live(t)
        PROVE  /\ row'[j].status = "superseded" /\ row'[j].supersededBy = i
               /\ row'[i].txVersion > row'[j].txVersion
    <3>1. row[j].txVersion < w /\ row[j].txVersion \in Nat
      BY <1>1, <1>3 DEF Live, Rows
    <3> QED
      BY <1>1, <1>2, <1>3, <1>4, <3>1, SupersededRow
  <2>2. ASSUME NEW j \in Stored \ Live(t), row'[j].supersededBy # None
        PROVE  /\ row'[j].status = "superseded" /\ row'[j].supersededBy \in Stored
               /\ row'[row'[j].supersededBy].txVersion > row'[j].txVersion
    <3>1. row'[j] = row[j]
      BY <1>3, <1>4
    <3>2. PICK k \in Stored : k = row[j].supersededBy
      BY <2>2, <3>1 DEF RowsSafe, SupersessionMovesForward
    <3>3. row[j].status = "superseded" /\ row[k].txVersion > row[j].txVersion
      BY <2>2, <3>1, <3>2 DEF RowsSafe, SupersessionMovesForward
    <3> QED
      BY <1>5, <3>1, <3>2, <3>3
  <2>3. row'[i].supersededBy = None
    BY <1>2, <1>4
  <2> QED
    BY <1>6, <2>1, <2>2, <2>3 DEF SupersessionMovesForward
<1>11. ApprovedByEnough'
  <2>1. \A j \in Stored : row'[j].status = "approved" => row'[j] = row[j]
    BY <1>3, <1>4, SupersededRow
  <2> QED
    BY <1>2, <1>4, <1>6, <2>1 DEF RowsSafe, ApprovedByEnough
<1>12. VersionsBounded'
  <2> SUFFICES ASSUME NEW u \in Txs
               PROVE  \E v \in {1} \cup {row'[j].txVersion + 1 : j \in Stored'} :
                         \A j \in Stored' : row'[j].tx = u => row'[j].txVersion < v
    BY DEF VersionsBounded
  <2>1. {row[j].txVersion + 1 : j \in Stored} \subseteq {row'[j].txVersion + 1 : j \in Stored'}
    BY <1>5, <1>6
  <2>2. CASE u = t
    <3>1. w + 1 \in {row'[j].txVersion + 1 : j \in Stored'}
      BY <1>2, <1>4, <1>6
    <3>2. \A j \in Stored' : row'[j].tx = u => row'[j].txVersion < w + 1
      <4>1. \A j \in Stored : row[j].tx = t => row[j].txVersion < w + 1
        BY <1>1, <1>3 DEF Rows
      <4>2. row'[i].txVersion < w + 1
        BY <1>1, <1>2, <1>4
      <4> QED
        BY <1>5, <1>6, <2>2, <4>1, <4>2
    <3> QED
      BY <3>1, <3>2
  <2>3. CASE u # t
    <3>1. PICK v \in {1} \cup {row[j].txVersion + 1 : j \in Stored} :
                 \A j \in Stored : row[j].tx = u => row[j].txVersion < v
      BY DEF RowsSafe, VersionsBounded
    <3>2. \A j \in Stored' : row'[j].tx = u => row'[j].txVersion < v
      BY <1>2, <1>4, <1>5, <1>6, <2>3, <3>1
    <3> QED
      BY <2>1, <3>1, <3>2
  <2> QED
    BY <2>2, <2>3
<1> QED
  BY <1>6, <1>7, <1>9, <1>10, <1>11, <1>12 DEF RowsSafe

------------------------------------------------------------------------------
\* Steps that leave the rows, or the requests and proposals, alone.
LEMMA RowsUnchanged ==
    ASSUME RowsSafe, UNCHANGED row
    PROVE  RowsSafe' /\ RowsAdvance /\ Stored' = Stored
BY DEF RowsSafe, RowsAdvance, Stored, Active, OneAttentionPerTransaction, ApprovedByEnough,
       SupersessionMovesForward, VersionsBounded

LEMMA RequestsUnchanged ==
    ASSUME ReadsSafe, UNCHANGED request
    PROVE  ReadsForgotten
BY DEF ReadsSafe, ReadsForgotten, Pending

\* A request that loads stored items remembers them as they are.
LEMMA ReadKeepsReads ==
    ASSUME RowsSafe, ReadsSafe, UNCHANGED <<row, proposal>>, NEW q \in Requests,
           NEW G \in SUBSET Stored, NEW r \in RequestRecords(G), r.read = [i \in G |-> row[i]],
           request' = [request EXCEPT ![q] = r]
    PROVE  ReadsSafe'
<1>1. Stored' = Stored
  BY RowsUnchanged
<1>2. request'[q] = r /\ DOMAIN request' = Requests
      /\ \A u \in Requests \ {q} : request'[u] = request[u]
  BY DEF ReadsSafe
<1>3. \A u \in Requests : request'[u] # None =>
         \E H \in SUBSET Stored' : request'[u] \in RequestRecords(H)
  BY <1>1, <1>2 DEF ReadsSafe
<1>4. Pending(q)' = G /\ \A u \in Requests \ {q} : Pending(u)' = Pending(u)
  <2>1. r # None
    BY NoneAssumption DEF Stored
  <2> QED
    BY <1>2, <2>1 DEF Pending
<1>5. \A i \in G : row[i].version \in Nat
  BY DEF RowsSafe, Stored, Rows
<1>6. \A i \in G : request'[q].read[i] = row[i]
  BY <1>2
<1>7. VersionNamesContent' /\ ReadsAreOld'
  BY <1>2, <1>4, <1>5, <1>6 DEF ReadsSafe, VersionNamesContent, ReadsAreOld
<1> QED
  BY <1>1, <1>2, <1>3, <1>7 DEF ReadsSafe, ProposedWhileOpen

\* A proposal remembers an open item as it is.
LEMMA ProposalKeepsReads ==
    ASSUME RowsSafe, ReadsSafe, NEW p \in Proposals, NEW i \in Items, NEW x \in Categories,
           createProposal(p, i, x)
    PROVE  ReadsSafe'
<1> DEFINE r == [item |-> i, read |-> row[i], category |-> x]
<1>1. UNCHANGED <<row, request>> /\ i \in Stored
      /\ row[i].status \in {"pending_review", "correcting"}
      /\ proposal' = [proposal EXCEPT ![p] = r]
  BY DEF createProposal
<1>2. Stored' = Stored /\ row[i] \in Rows
  BY <1>1, RowsUnchanged DEF RowsSafe, Stored
<1>3. r \in ProposalRecords /\ row[i].version \in Nat
  BY <1>1, <1>2 DEF ProposalRecords, Rows
<1>4. proposal' \in [Proposals -> ProposalRecords \cup {None}] /\ proposal'[p] = r
      /\ \A u \in Proposals \ {p} : proposal'[u] = proposal[u]
  BY <1>1, <1>3 DEF ReadsSafe
<1>5. VersionNamesContent' /\ ReadsAreOld' /\ ProposedWhileOpen'
  BY <1>1, <1>3, <1>4 DEF ReadsSafe, VersionNamesContent, ReadsAreOld, ProposedWhileOpen, Pending
<1> QED
  BY <1>1, <1>2, <1>4, <1>5 DEF ReadsSafe

\* A write of item i that answers a request, or none, keeps both halves.
LEMMA MoveSafe ==
    ASSUME RowsSafe, ReadsSafe, NEW i \in Items, ReadsForgotten, UNCHANGED proposal,
           \E s : Moves(i, s) /\ row' = [row EXCEPT ![i] = s]
    PROVE  RowsSafe' /\ ReadsSafe'
<1>1. PICK s : Moves(i, s) /\ row' = [row EXCEPT ![i] = s]
  OBVIOUS
<1>2. RowsSafe' /\ RowsAdvance
  BY <1>1, MoveKeepsRows, MoveAdvances
<1> QED
  BY <1>2, AdvanceKeepsReads

\* Every operation of the store on review items keeps ItemsSafe.
LEMMA SafeStep == ItemsSafe /\ [Next]_vars => ItemsSafe'
<1> SUFFICES ASSUME RowsSafe, ReadsSafe, TypeOK, completed \in SUBSET Proposals, [Next]_vars
             PROVE  RowsSafe' /\ ReadsSafe' /\ completed' \in SUBSET Proposals
  <2>1. (RowsSafe /\ ReadsSafe /\ completed \in SUBSET Proposals)' => ItemsSafe'
    BY DEF ItemsSafe, TypeOK, RowsSafe, ReadsSafe
  <2> QED
    BY <2>1, Halves DEF ItemsSafe
<1>1. CASE UNCHANGED vars
  BY <1>1, RowsUnchanged, RequestsUnchanged, AdvanceKeepsReads DEF vars
<1>2. ASSUME NEW i \in Items, NEW t \in Txs, NEW cl \in Classifiers, NEW x \in Categories,
             NEW rv \in Revisions, createReviewItems(i, t, cl, x, rv)
      PROVE  RowsSafe' /\ ReadsSafe' /\ completed' \in SUBSET Proposals
  <2>1. UNCHANGED <<request, proposal, completed>>
    BY <1>2 DEF createReviewItems
  <2>2. RowsSafe' /\ RowsAdvance
    BY <1>2, Publication, PublicationSafe, RowsUnchanged
  <2> QED
    BY <2>1, <2>2, RequestsUnchanged, AdvanceKeepsReads
<1>3. ASSUME NEW q \in Requests, NEW G \in SUBSET Items, NEW to \in Statuses,
             NEW undo \in BOOLEAN, NEW a \in Reviewers, ReadItems(q, G, to, undo, a)
      PROVE  RowsSafe' /\ ReadsSafe' /\ completed' \in SUBSET Proposals
  <2> DEFINE r == [to |-> to, undo |-> undo, actor |-> a, category |-> None,
                   read |-> [i \in G |-> row[i]]]
  <2>1. UNCHANGED <<row, proposal, completed>> /\ G \in SUBSET Stored
        /\ request' = [request EXCEPT ![q] = r]
    BY <1>3 DEF ReadItems
  <2>2. r \in RequestRecords(G)
    BY <2>1 DEF RequestRecords, RowsSafe, Stored
  <2> QED
    BY <2>1, <2>2, RowsUnchanged, ReadKeepsReads
<1>4. ASSUME NEW q \in Requests, NEW i \in Items, NEW x \in Categories, NEW a \in Reviewers,
             ReadForCategory(q, i, x, a)
      PROVE  RowsSafe' /\ ReadsSafe' /\ completed' \in SUBSET Proposals
  <2> DEFINE r == [to |-> None, undo |-> FALSE, actor |-> a, category |-> x,
                   read |-> [j \in {i} |-> row[j]]]
  <2>1. UNCHANGED <<row, proposal, completed>> /\ {i} \in SUBSET Stored
        /\ request' = [request EXCEPT ![q] = r]
    BY <1>4 DEF ReadForCategory
  <2>2. r \in RequestRecords({i})
    BY <2>1 DEF RequestRecords, RowsSafe, Stored
  <2> QED
    BY <2>1, <2>2, RowsUnchanged, ReadKeepsReads
<1>5. ASSUME NEW q \in Requests, NEW i \in Items, transitionReviewItem(q, i)
      PROVE  RowsSafe' /\ ReadsSafe' /\ completed' \in SUBSET Proposals
  <2>1. i \in Pending(q) /\ Transition(q, i) /\ Answered(q, i) /\ UNCHANGED <<proposal, completed>>
    BY <1>5 DEF transitionReviewItem
  <2> QED
    BY <2>1, TransitionMoves, AnsweredKeepsReads, MoveSafe
<1>6. ASSUME NEW q \in Requests, NEW i \in Items, updateReviewItemCategory(q, i)
      PROVE  RowsSafe' /\ ReadsSafe' /\ completed' \in SUBSET Proposals
  <2>1. Answered(q, i) /\ UNCHANGED <<proposal, completed>>
    BY <1>6 DEF updateReviewItemCategory
  <2> QED
    BY <1>6, <2>1, CategoryMoves, AnsweredKeepsReads, MoveSafe
<1>7. ASSUME NEW q \in Requests, NEW i \in Items, RequestUnmoved(q, i)
      PROVE  RowsSafe' /\ ReadsSafe' /\ completed' \in SUBSET Proposals
  <2>1. i \in Pending(q) /\ Answered(q, i) /\ UNCHANGED <<row, proposal, completed>>
    BY <1>7 DEF RequestUnmoved
  <2> QED
    BY <2>1, RowsUnchanged, AnsweredKeepsReads, AdvanceKeepsReads
<1>8. ASSUME NEW p \in Proposals, NEW i \in Items, NEW x \in Categories, createProposal(p, i, x)
      PROVE  RowsSafe' /\ ReadsSafe' /\ completed' \in SUBSET Proposals
  <2>1. UNCHANGED <<row, completed>>
    BY <1>8 DEF createProposal
  <2> QED
    BY <1>8, <2>1, RowsUnchanged, ProposalKeepsReads
<1>9. ASSUME NEW p \in Proposals, completeVerifiedCategorizationReview(p)
      PROVE  RowsSafe' /\ ReadsSafe' /\ completed' \in SUBSET Proposals
  <2>1. UNCHANGED <<request, proposal>> /\ completed' = completed \cup {p}
    BY <1>9 DEF completeVerifiedCategorizationReview
  <2>2. ReadsForgotten
    BY <2>1, RequestsUnchanged
  <2> QED
    BY <1>9, <2>1, <2>2, CompletionMoves, MoveSafe DEF Stored
<1> QED
  BY <1>1, <1>2, <1>3, <1>4, <1>5, <1>6, <1>7, <1>8, <1>9 DEF Next, Publish, Request, Proposal

\* For any number of items, transactions, requests and proposals: a transaction has one live
\* item, supersession moves forward, an approved item has its approvals, and a version that
\* somebody remembers names the content that was read with it (createReviewItems,
\* transitionReviewItem, updateReviewItemCategory, completeVerifiedCategorizationReview).
THEOREM ItemsSafeAlways == Spec => []ItemsSafe
BY SafeInit, SafeStep, PTL DEF Spec

------------------------------------------------------------------------------
\* What one step may do to the rows: nothing, a new classification, or one write by a
\* request or a proposal that found the version it had read.
LEMMA RowSteps ==
    ASSUME ItemsSafe, [Next]_vars
    PROVE  \/ UNCHANGED row
           \/ \E i \in Items, t \in Txs, cl \in Classifiers, x \in Categories, rv \in Revisions :
                 Reclassified(i, t, cl, x, rv)
           \/ \E q \in Requests : \E i \in Pending(q) :
                 /\ VersionCurrent(q, i)
                 /\ Transition(q, i) \/ updateReviewItemCategory(q, i)
           \/ \E p \in Proposals : completeVerifiedCategorizationReview(p)
<1>1. RowsSafe
  BY Halves
<1>2. CASE UNCHANGED vars
  BY <1>2 DEF vars
<1>3. ASSUME NEW i \in Items, NEW t \in Txs, NEW cl \in Classifiers, NEW x \in Categories,
             NEW rv \in Revisions, createReviewItems(i, t, cl, x, rv)
      PROVE  UNCHANGED row \/ Reclassified(i, t, cl, x, rv)
  BY <1>1, <1>3, Publication
<1>4. ASSUME NEW q \in Requests, Request(q, Categories), ~UNCHANGED row
      PROVE  \E i \in Pending(q) : /\ VersionCurrent(q, i)
                                   /\ Transition(q, i) \/ updateReviewItemCategory(q, i)
  BY <1>4 DEF Request, ReadItems, ReadForCategory, transitionReviewItem, RequestUnmoved,
     updateReviewItemCategory, Transition
<1>5. ASSUME NEW p \in Proposals, Proposal(p, Categories), ~UNCHANGED row
      PROVE  completeVerifiedCategorizationReview(p)
  BY <1>5 DEF Proposal, createProposal
<1> QED
  BY <1>2, <1>3, <1>4, <1>5 DEF Next, Publish

\* A write touches only its own item.
LEMMA MoveIsLocal ==
    ASSUME RowsSafe, NEW i \in Items, \E s : Moves(i, s) /\ row' = [row EXCEPT ![i] = s]
    PROVE  \A j \in Items \ {i} : row'[j] = row[j]
BY DEF RowsSafe

\* Nobody overturns a decision unseen, however synchronizations, reviewers and proposals
\* interleave: whatever changes an item a reviewer has decided on had read exactly that
\* decision (the version check of transitionReviewItem, updateReviewItemCategory and
\* proposalReviewProvenanceMatches; protectedStatuses in createReviewItems).
THEOREM NoBlindOverturnAlways == Spec => NoBlindOverturn
<1>1. ItemsSafe /\ [Next]_vars => [OverturnsSeen]_vars
  <2> SUFFICES ASSUME ItemsSafe, [Next]_vars, NEW i \in Stored,
                      row[i].status \in protectedStatuses, row'[i] # row[i]
               PROVE  Seen(i)
    BY DEF OverturnsSeen
  <2>1. RowsSafe /\ ReadsSafe /\ i \in Items
    BY Halves DEF Stored
  <2>2. ASSUME NEW k \in Items, NEW t \in Txs, NEW cl \in Classifiers, NEW x \in Categories,
               NEW rv \in Revisions, Reclassified(k, t, cl, x, rv)
        PROVE  FALSE
    <3>1. k # i /\ i \notin Live(t)
      BY <2>2 DEF Reclassified, Stored
    <3> QED
      BY <2>1, <2>2, <3>1 DEF Reclassified
  <2>3. ASSUME NEW q \in Requests, NEW j \in Pending(q), VersionCurrent(q, j),
               Transition(q, j) \/ updateReviewItemCategory(q, j)
        PROVE  Seen(i)
    <3>1. j \in Items
      BY <2>1, PendingStored DEF Stored
    <3>2. \A k \in Items \ {j} : row'[k] = row[k]
      BY <2>1, <2>3, <3>1, TransitionMoves, CategoryMoves, MoveIsLocal
    <3>3. i = j
      BY <2>1, <3>2
    <3>4. request[q].read[i] = row[i]
      BY <2>1, <2>3, <3>3 DEF VersionCurrent, ReadsSafe, VersionNamesContent
    <3> QED
      BY <2>3, <3>3, <3>4 DEF Seen
  <2>4. ASSUME NEW p \in Proposals, completeVerifiedCategorizationReview(p)
        PROVE  Seen(i)
    <3>1. PICK j \in Items : j = proposal[p].item
      BY <2>1, <2>4, CompletionMoves DEF Stored
    <3>2. proposal[p] # None /\ row[j] = proposal[p].read
          /\ \E s : Moves(j, s) /\ row' = [row EXCEPT ![j] = s]
      BY <2>1, <2>4, <3>1, CompletionMoves
    <3>3. i = j
      BY <2>1, <3>2, MoveIsLocal
    <3> QED
      BY <3>1, <3>2, <3>3 DEF Seen
  <2> QED
    BY <2>2, <2>3, <2>4, RowSteps
<1> QED
  BY <1>1, ItemsSafeAlways, PTL DEF Spec, NoBlindOverturn

------------------------------------------------------------------------------
\* ReviewCell. One write is one move of its cell, if it respects the status table.
LEMMA MoveMovesCell ==
    ASSUME RowsSafe, NEW i \in Items, NEW s, Moves(i, s), row' = [row EXCEPT ![i] = s],
           row[i].status = "applied" => s.status \in {"applied", "superseded"}
    PROVE  /\ CellState(i)' \in Cell!Moves[CellState(i)]
           /\ CellVersion(i)' = CellVersion(i) + 1
           /\ \A j \in Items \ {i} : CellState(j)' = CellState(j) /\ CellVersion(j)' = CellVersion(j)
<1>1. row[i] # None /\ row[i] \in Rows /\ s \in Rows /\ s # None /\ row'[i] = s
      /\ s.version = row[i].version + 1
      /\ \A j \in Items \ {i} : row'[j] = row[j]
  BY NoneAssumption DEF Moves, RowsSafe, Stored
<1>2. CellVersion(i)' = CellVersion(i) + 1
  BY <1>1 DEF CellVersion
<1>3. CellState(i)' \in Cell!Moves[CellState(i)]
  BY <1>1 DEF CellState, Cell!Moves, Moves
<1>4. \A j \in Items \ {i} : CellState(j)' = CellState(j) /\ CellVersion(j)' = CellVersion(j)
  BY <1>1 DEF CellState, CellVersion
<1> QED
  BY <1>2, <1>3, <1>4

Cells == <<[i \in Items |-> CellState(i)], [i \in Items |-> CellVersion(i)]>>

\* The abstract step, item by item.
LEMMA CellStep ==
    ASSUME \A i \in Items : \/ CellState(i)' = CellState(i) /\ CellVersion(i)' = CellVersion(i)
                            \/ /\ CellState(i)' \in Cell!Moves[CellState(i)]
                               /\ CellVersion(i)' = CellVersion(i) + 1
    PROVE  Cell!Next
BY DEF Cell!Next, Cell!Kept, Cell!Moved

\* Each step of the store is a step of the cells, or leaves them alone.
LEMMA CellMaps == ItemsSafe /\ [Next]_vars => [Cell!Next]_Cells
<1> SUFFICES ASSUME ItemsSafe, [Next]_vars PROVE [Cell!Next]_Cells
  OBVIOUS
<1>0. RowsSafe /\ ReadsSafe /\ TypeOK
  BY Halves DEF ItemsSafe
<1>1. CASE UNCHANGED row
  BY <1>1 DEF Cells, CellState, CellVersion
<1>2. ASSUME NEW i \in Items, NEW t \in Txs, NEW cl \in Classifiers, NEW x \in Categories,
             NEW rv \in Revisions, Reclassified(i, t, cl, x, rv)
      PROVE  Cell!Next
  <2>1. ASSUME NEW j \in Live(t)
        PROVE  CellState(j)' \in Cell!Moves[CellState(j)] /\ CellVersion(j)' = CellVersion(j) + 1
    <3>1. j \in Items /\ row[j] # None /\ row[j] \in Rows /\ j # i
      BY <1>0, <1>2 DEF Live, Active, Stored, RowsSafe, Reclassified
    <3>2. row'[j] = Superseded(row[j], i)
      BY <1>2, <3>1 DEF Reclassified
    <3>3. row'[j] # None /\ row'[j].status = "superseded" /\ row'[j].version = row[j].version + 1
      BY <3>1, <3>2, SupersededRow, NoneAssumption
    <3> QED
      BY <3>1, <3>3 DEF CellState, CellVersion, Cell!Moves
  <2>2. CellState(i)' \in Cell!Moves[CellState(i)] /\ CellVersion(i)' = CellVersion(i) + 1
    <3>1. row[i] = None /\ row'[i] = NewItem(t, cl, x, rv)
      BY <1>2 DEF Reclassified
    <3>2. NextTxVersion(t) \in Nat \ {0}
      BY <1>0, NewestVersion DEF RowsSafe
    <3>3. row'[i] \in Rows /\ row'[i].status = "discovered" /\ row'[i].version = 1
      BY <3>1, <3>2 DEF NewItem, Rows, Statuses
    <3>4. row'[i] # None
      BY <3>3, NoneAssumption
    <3> QED
      BY <3>1, <3>3, <3>4 DEF CellState, CellVersion, Cell!Moves
  <2>3. ASSUME NEW j \in Items \ (Live(t) \cup {i})
        PROVE  CellState(j)' = CellState(j) /\ CellVersion(j)' = CellVersion(j)
    BY <1>2 DEF Reclassified, CellState, CellVersion
  <2> QED
    BY <2>1, <2>2, <2>3, CellStep
<1>3. ASSUME NEW i \in Items, NEW s, Moves(i, s), row' = [row EXCEPT ![i] = s],
             row[i].status = "applied" => s.status \in {"applied", "superseded"}
      PROVE  Cell!Next
  BY <1>0, <1>3, MoveMovesCell, CellStep
<1>4. ASSUME NEW q \in Requests, NEW i \in Pending(q), Transition(q, i)
      PROVE  Cell!Next
  <2>1. i \in Stored /\ i \in Items /\ row[i] \in Rows /\ row[i].status \in Statuses
    BY <1>0, PendingStored DEF RowsSafe, Stored, Rows
  <2>2. PICK s : Moves(i, s) /\ row' = [row EXCEPT ![i] = s]
    BY <1>0, <1>4, TransitionMoves
  <2>3. row[i].status = "applied" => s.status = "superseded"
    <3> SUFFICES ASSUME row[i].status = "applied" PROVE s.status = "superseded"
      OBVIOUS
    <3>1. request[q].to = "superseded"
      BY <1>4, <2>1, Transitions DEF Transition
    <3>2. Write(i, [row[i] EXCEPT !.status = "superseded"])
      BY <1>4, <3>1 DEF Transition
    <3>3. s = [[row[i] EXCEPT !.status = "superseded"] EXCEPT !.version = @ + 1]
      BY <1>0, <2>1, <2>2, <3>2 DEF Write, RowsSafe
    <3>4. [row[i] EXCEPT !.status = "superseded"] \in Rows
          /\ [row[i] EXCEPT !.status = "superseded"].status = "superseded"
      BY <2>1 DEF Rows, Statuses
    <3> QED
      BY <3>3, <3>4, NextVersion
  <2> QED
    BY <1>3, <2>1, <2>2, <2>3
<1>5. ASSUME NEW q \in Requests, NEW i \in Pending(q), updateReviewItemCategory(q, i)
      PROVE  Cell!Next
  <2>1. i \in Stored /\ i \in Items /\ row[i] \in Rows
    BY <1>0, PendingStored DEF RowsSafe, Stored
  <2>2. PICK s : Moves(i, s) /\ row' = [row EXCEPT ![i] = s]
    BY <1>0, <1>5, <2>1, CategoryMoves
  <2>3. s.status = row[i].status
    <3>1. s = [[row[i] EXCEPT !.category = request[q].category] EXCEPT !.version = @ + 1]
      BY <1>0, <1>5, <2>1, <2>2 DEF updateReviewItemCategory, Write, RowsSafe
    <3> QED
      BY <2>1, <3>1 DEF Rows
  <2> QED
    BY <1>3, <2>1, <2>2, <2>3
<1>6. ASSUME NEW p \in Proposals, completeVerifiedCategorizationReview(p)
      PROVE  Cell!Next
  <2>1. PICK i \in Items : i = proposal[p].item
    BY <1>0, <1>6, CompletionMoves DEF Stored
  <2>2. /\ row[i].status \in {"pending_review", "correcting"}
        /\ \E s : Moves(i, s) /\ row' = [row EXCEPT ![i] = s]
    BY <1>0, <1>6, <2>1, CompletionMoves
  <2> QED
    BY <1>3, <2>2
<1> QED
  BY <1>1, <1>2, <1>4, <1>5, <1>6, RowSteps

\* The review items implement ReviewCell, the item as ProposalExecution remembers it: its
\* version moves by one with every change, applied items are only superseded and superseded
\* ones are never revived.
THEOREM ImplementsCell == Spec => CellSpec
<1>1. Init => Cell!Init
  BY DEF Init, Cell!Init, CellState, CellVersion
<1>2. ItemsSafe /\ [Next]_vars
        => [Cell!Next]_<<[i \in Items |-> CellState(i)], [i \in Items |-> CellVersion(i)]>>
  BY CellMaps DEF Cells
<1> QED
  BY <1>1, <1>2, ItemsSafeAlways, PTL DEF Spec, CellSpec, Cell!Spec, Cell!cellVars
==============================================================================
