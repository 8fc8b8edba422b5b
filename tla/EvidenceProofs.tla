---------------------------- MODULE EvidenceProofs ----------------------------
(* Evidence, receipt inference and merchant research: what was erased, revoked  *)
(* or withdrawn stays so, and a paid or consented call is made once and within  *)
(* its quota, for any number of documents, tabs, previews, callers and keys.    *)
EXTENDS MCEvidence, FiniteSetTheorems, TLAPS

USE EvidenceInstance

\* A step belongs to the component that the first state chose.
LEMMA Components ==
    ASSUME [Next]_vars
    PROVE  /\ component = "store" => [Store!Next]_storeVars
           /\ component = "inference" => [Inference!Next]_inferenceVars
           /\ component = "research" => [Research!Next]_researchVars
           /\ component' = component
  BY DEF Next, vars

USE DEF storeVars, inferenceVars, researchVars

\* A set with one element more.
LEMMA AddedElement ==
    ASSUME NEW S, IsFiniteSet(S), NEW x
    PROVE  /\ IsFiniteSet(S \cup {x}) /\ Cardinality(S \cup {x}) \in Nat /\ Cardinality(S) \in Nat
           /\ Cardinality(S \cup {x}) <= Cardinality(S) + 1
           /\ x \notin S => Cardinality(S \cup {x}) = Cardinality(S) + 1
<1>1. Cardinality(S) \in Nat
    BY FS_CardinalityType
<1>2. CASE x \in S
  <2>1. S \cup {x} = S
      BY <1>2
  <2>2. Cardinality(S) <= Cardinality(S) + 1
      BY <1>1
  <2> QED
      BY <1>1, <1>2, <2>1, <2>2, Zenon
<1>3. CASE x \notin S
    BY <1>1, <1>3, FS_AddElement
<1> QED
    BY <1>2, <1>3
------------------------------------------------------------------------------
(* The evidence store *)

\* A document is its source and its content.
LEMMA DocumentPair ==
    ASSUME Store!EvidenceConstants, NEW d \in Deliveries
    PROVE  <<d[1], d[2]>> = d /\ d[1] \in Store!Sources /\ d[2] \in Store!Contents
  BY DEF Store!EvidenceConstants, Store!Sources, Store!Contents

\* A current document was delivered.
LEMMA CurrentIsKnown ==
    ASSUME Store!EvidenceConstants, Store!TypeOK
    PROVE  Store!Current \subseteq Store!Known
<1> SUFFICES ASSUME NEW d \in Deliveries, Store!isCurrent(d)
             PROVE  Store!Contains(stored[d[1]], d[2])
    BY DEF Store!Current, Store!Known
<1>1. stored[d[1]] \in Seq(Store!Contents)
    BY DocumentPair DEF Store!TypeOK
<1>2. Len(stored[d[1]]) \in 1..Len(stored[d[1]]) /\ stored[d[1]][Len(stored[d[1]])] = d[2]
    BY <1>1 DEF Store!isCurrent, Store!Last
<1> QED
    BY <1>2 DEF Store!Contains

\* What a delivery does to the documents of its source.
LEMMA Delivered ==
    ASSUME Store!EvidenceConstants, Store!TypeOK, NEW d \in Deliveries, Store!ingest(d[1], d[2])
    PROVE  /\ stored' \in [Store!Sources -> Seq(Store!Contents)]
           /\ raw' = raw \cup {d} /\ d \notin Store!Known
           /\ Store!Known \subseteq Store!Known'
           /\ Store!Current' \subseteq Store!Current \cup {d}
           /\ UNCHANGED <<journal, proof, link, tab>>
<1>1. /\ d[1] \in Store!Sources /\ d[2] \in Store!Contents /\ <<d[1], d[2]>> = d
      /\ stored \in [Store!Sources -> Seq(Store!Contents)]
    BY DocumentPair DEF Store!TypeOK
<1>2. /\ stored' = [stored EXCEPT ![d[1]] = Append(stored[d[1]], d[2])]
      /\ ~Store!Contains(stored[d[1]], d[2])
      /\ raw' = raw \cup {d} /\ UNCHANGED <<journal, proof, link, tab>>
    BY <1>1 DEF Store!ingest, Store!reviewVars
<1>3. PICK s \in Seq(Store!Contents) : s = stored[d[1]]
    BY <1>1
<1>4. /\ Append(s, d[2]) \in Seq(Store!Contents) /\ Len(Append(s, d[2])) = Len(s) + 1
      /\ \A i \in 1..Len(s) : Append(s, d[2])[i] = s[i]
      /\ Append(s, d[2])[Len(s) + 1] = d[2]
      /\ Len(s) \in Nat
    BY <1>1
<1>5. /\ stored'[d[1]] = Append(s, d[2])
      /\ \A x \in Store!Sources \ {d[1]} : stored'[x] = stored[x]
      /\ stored' \in [Store!Sources -> Seq(Store!Contents)]
    BY <1>1, <1>2, <1>3, <1>4
<1>6. ASSUME NEW x \in Deliveries, Store!Contains(stored[x[1]], x[2])
      PROVE  Store!Contains(stored[x[1]], x[2])'
  <2>1. x[1] \in Store!Sources
      BY DocumentPair
  <2>2. CASE x[1] = d[1]
    <3>1. PICK i \in 1..Len(s) : s[i] = x[2]
        BY <1>3, <1>6, <2>2 DEF Store!Contains
    <3>2. i \in 1..Len(Append(s, d[2])) /\ Append(s, d[2])[i] = x[2]
        BY <1>4, <3>1
    <3> QED
        BY <1>5, <2>2, <3>2 DEF Store!Contains
  <2>3. CASE x[1] # d[1]
      BY <1>5, <1>6, <2>1, <2>3 DEF Store!Contains
  <2> QED
      BY <2>2, <2>3
<1>7. ASSUME NEW x \in Deliveries, Store!isCurrent(x)'
      PROVE  Store!isCurrent(x) \/ x = d
  <2>1. x[1] \in Store!Sources /\ <<x[1], x[2]>> = x
      BY DocumentPair
  <2>2. CASE x[1] = d[1]
    <3>1. x[2] = d[2]
        BY <1>4, <1>5, <1>7, <2>2 DEF Store!isCurrent, Store!Last
    <3> QED
        BY <1>1, <2>1, <2>2, <3>1
  <2>3. CASE x[1] # d[1]
      BY <1>5, <1>7, <2>1, <2>3 DEF Store!isCurrent, Store!Last
  <2> QED
      BY <2>2, <2>3
<1> QED
    BY <1>2, <1>5, <1>6, <1>7 DEF Store!Known, Store!Current

\* Reviews open over a journal that exists, and a commit adds one entry to its journal.
LEMMA EnteredJournal ==
    ASSUME Store!EvidenceConstants, Store!TypeOK, NEW j \in Store!Journals, Store!Enter(j)
    PROVE  /\ journal' \in [Store!Journals -> 0..MaxEvents]
           /\ j # "decision" => journal'["decision"] = journal["decision"]
<1>1. /\ journal \in [Store!Journals -> 0..MaxEvents] /\ MaxEvents \in Nat
      /\ j \in {"decision", "proof", "link"}
      /\ {"decision", "proof", "link"} \subseteq Store!Journals
    BY DEF Store!TypeOK, Store!EvidenceConstants, Store!Journals
<1>2. /\ journal["decision"] \in Nat /\ journal["proof"] \in Nat /\ journal["link"] \in Nat
    BY <1>1
<1>3. journal[j] + 1 \in 0..MaxEvents
    BY <1>1, <1>2 DEF Store!Enter
<1> QED
    BY <1>1, <1>3 DEF Store!Enter

\* At most one document follows another when the graph was validated.
LEMMA OneSuccessor ==
    ASSUME Store!EvidenceConstants, NEW g, Store!validateReceiptVersionGraph(g), NEW d \in Deliveries
    PROVE  Cardinality(Store!Successors(g, d)) <= 1
<1>1. \A x, y \in Store!Successors(g, d) : x = y
    BY DEF Store!Successors, Store!validateReceiptVersionGraph, Store!EvidenceConstants
<1>2. CASE Store!Successors(g, d) = {}
    BY <1>2, FS_EmptySet
<1>3. CASE Store!Successors(g, d) # {}
  <2>1. PICK x : Store!Successors(g, d) = {x}
      BY <1>1, <1>3
  <2>2. Cardinality({x}) = 1 /\ 1 <= 1
      BY FS_Singleton
  <2> QED
      BY <2>1, <2>2, Zenon
<1> QED
    BY <1>2, <1>3

\* The instance counts with the same operator.
LEMMA SameStoreCount ==
    /\ \A S : Store!Cardinality(S) = Cardinality(S)
    /\ \A S : Store!IsFiniteSet(S) <=> IsFiniteSet(S)
<1>1. ASSUME NEW S PROVE Store!Cardinality(S) = Cardinality(S)
    BY DEF Store!Cardinality, Cardinality
<1>2. ASSUME NEW S PROVE Store!IsFiniteSet(S) <=> IsFiniteSet(S)
    BY DEF Store!IsFiniteSet, IsFiniteSet
<1> QED
    BY <1>1, <1>2

\* Histories stay chains when a link is validated or removed.
LEMMA Relinked ==
    ASSUME Store!EvidenceConstants, Store!TypeOK, Store!HistoriesAreChains, NEW d \in Deliveries,
           \/ Store!validateReceiptVersionGraph(link')
           \/ link' = [link EXCEPT ![d] = None]
    PROVE  Store!HistoriesAreChains'
<1>1. /\ IsFiniteSet(Deliveries) /\ None \notin Deliveries
      /\ link \in [Deliveries -> Deliveries \cup {None}]
    BY SameStoreCount DEF Store!EvidenceConstants, Store!TypeOK
<1>2. CASE Store!validateReceiptVersionGraph(link')
  <2>1. \A x \in Deliveries : Cardinality(Store!Successors(link', x)) <= 1
      BY <1>2, OneSuccessor
  <2>2. \A D \in SUBSET Deliveries : D # {} => \E x \in D : link'[x] \notin D
      BY <1>2 DEF Store!validateReceiptVersionGraph
  <2> QED
      BY <2>1, <2>2, SameStoreCount DEF Store!HistoriesAreChains, Store!Successors
<1>3. CASE link' = [link EXCEPT ![d] = None]
  <2>1. ASSUME NEW D \in SUBSET Deliveries, D # {}
        PROVE  \E x \in D : link'[x] \notin D
    <3>1. PICK x \in D : link[x] \notin D
        BY <2>1 DEF Store!HistoriesAreChains
    <3> QED
        BY <1>1, <1>3, <3>1
  <2>2. ASSUME NEW x \in Deliveries
        PROVE  Cardinality(Store!Successors(link', x)) <= 1
    <3>1. /\ Store!Successors(link', x) \subseteq Store!Successors(link, x)
          /\ Store!Successors(link, x) \subseteq Deliveries
        BY <1>1, <1>3 DEF Store!Successors
    <3>2. IsFiniteSet(Store!Successors(link, x)) /\ IsFiniteSet(Store!Successors(link', x))
        BY <1>1, <3>1, FS_Subset
    <3>3. /\ Cardinality(Store!Successors(link', x)) <= Cardinality(Store!Successors(link, x))
          /\ Cardinality(Store!Successors(link', x)) \in Nat
          /\ Cardinality(Store!Successors(link, x)) \in Nat
        BY <3>1, <3>2, FS_Subset, FS_CardinalityType
    <3>4. Cardinality(Store!Successors(link, x)) <= 1
        BY SameStoreCount DEF Store!HistoriesAreChains
    <3> QED
        BY <3>3, <3>4
  <2> QED
      BY <2>1, <2>2, SameStoreCount DEF Store!HistoriesAreChains, Store!Successors
<1> QED
    BY <1>2, <1>3

\* Nothing a proof rests on changed: it is current if it was.
LEMMA SameProofs ==
    ASSUME UNCHANGED <<stored, proof>>
    PROVE  \A p \in Deliveries : Store!currentProof(p)' => Store!currentProof(p)
  BY DEF Store!currentProof, Store!Current, Store!isCurrent, Store!Last

\* What a commit of a review may do to the journals, proofs and links.
Committed(t) ==
    /\ UNCHANGED <<stored, raw>>
    /\ journal' \in [Store!Journals -> 0..MaxEvents]
    /\ \/ UNCHANGED link
       \/ \E d \in Deliveries :
             /\ link' = [link EXCEPT ![d] = None] \/ Store!validateReceiptVersionGraph(link')
             /\ link' \in [Deliveries -> Deliveries \cup {None}]
    /\ \/ UNCHANGED proof
       \/ \E d \in Deliveries : proof' = [proof EXCEPT ![d] = {}]
       \/ /\ tab[t].kind = "attest" /\ tab[t].seen = journal["proof"]
          /\ tab[t].arg \in Deliveries /\ tab[t].docs \subseteq Store!Current
          /\ proof' = [proof EXCEPT ![tab[t].arg] = tab[t].docs]
    /\ \/ journal'["decision"] = journal["decision"]
       \/ tab[t].kind = "decide" /\ tab[t].seen = journal["decision"]

LEMMA CommitMoves ==
    ASSUME Store!EvidenceConstants, Store!TypeOK, NEW t \in Tabs, Store!commit(t)
    PROVE  Committed(t)
<1>0. UNCHANGED <<stored, raw>> /\ {"decision", "proof", "link"} \subseteq Store!Journals
    BY DEF Store!commit, Store!docVars, Store!Journals
<1>1. PICK r \in Store!Reviews : r = tab[t]
    BY DEF Store!TypeOK
<1>2. r.arg \in Deliveries \cup {None} /\ None \notin Deliveries
    BY DEF Store!Reviews, Store!EvidenceConstants
<1>3. Store!Current \subseteq Deliveries /\ Store!Known \subseteq Deliveries
    BY DEF Store!Current, Store!Known
<1>4. /\ link \in [Deliveries -> Deliveries \cup {None}]
      /\ proof \in [Deliveries -> SUBSET Deliveries]
    BY DEF Store!TypeOK
<1>5. CASE Store!saveResolutionDecision(t)
  <2>1. journal' \in [Store!Journals -> 0..MaxEvents]
      BY <1>0, <1>5, EnteredJournal DEF Store!saveResolutionDecision
  <2> QED
      BY <1>0, <1>5, <2>1 DEF Store!saveResolutionDecision, Store!fence, Store!JournalOf, Committed
<1>6. CASE Store!attest(t)
  <2>1. /\ journal' \in [Store!Journals -> 0..MaxEvents] /\ journal'["decision"] = journal["decision"]
      BY <1>0, <1>6, EnteredJournal DEF Store!attest
  <2> QED
      BY <1>0, <1>3, <1>6, <2>1 DEF Store!attest, Store!fence, Store!JournalOf, Committed
<1>7. CASE Store!revoke(t)
  <2>1. /\ journal' \in [Store!Journals -> 0..MaxEvents] /\ journal'["decision"] = journal["decision"]
      BY <1>0, <1>7, EnteredJournal DEF Store!revoke
  <2>2. proof' = [proof EXCEPT ![r.arg] = {}] /\ UNCHANGED link
      BY <1>1, <1>7 DEF Store!revoke
  <2>3. UNCHANGED proof \/ \E d \in Deliveries : proof' = [proof EXCEPT ![d] = {}]
      BY <1>2, <1>4, <2>2
  <2> QED
      BY <1>0, <2>1, <2>2, <2>3 DEF Committed
<1>8. CASE Store!unlinkVersion(t)
  <2>1. /\ journal' \in [Store!Journals -> 0..MaxEvents] /\ journal'["decision"] = journal["decision"]
      BY <1>0, <1>8, EnteredJournal DEF Store!unlinkVersion
  <2>2. link' = [link EXCEPT ![r.arg] = None] /\ UNCHANGED proof
      BY <1>1, <1>8 DEF Store!unlinkVersion
  <2>3. UNCHANGED link \/ \E d \in Deliveries : /\ link' = [link EXCEPT ![d] = None]
                                                /\ link' \in [Deliveries -> Deliveries \cup {None}]
      BY <1>2, <1>4, <2>2
  <2> QED
      BY <1>0, <2>1, <2>2, <2>3 DEF Committed
<1>9. ASSUME NEW parent \in Deliveries, Store!linkVersion(t, parent)
      PROVE  Committed(t)
  <2>1. /\ journal' \in [Store!Journals -> 0..MaxEvents] /\ journal'["decision"] = journal["decision"]
      BY <1>0, <1>9, EnteredJournal DEF Store!linkVersion
  <2>2. link' = [link EXCEPT ![r.arg] = parent] /\ UNCHANGED proof
      BY <1>1, <1>9 DEF Store!linkVersion
  <2>3. Store!validateReceiptVersionGraph(link')
      BY <1>1, <1>9, <2>2 DEF Store!linkVersion
  <2>4. link' \in [Deliveries -> Deliveries \cup {None}]
      BY <1>4, <2>2
  <2> QED
      BY <1>0, <2>1, <2>2, <2>3, <2>4 DEF Committed
<1> QED
    BY <1>5, <1>6, <1>7, <1>8, <1>9 DEF Store!commit

\* An open review is a review, and opening one changes nothing else.
LEMMA Reviewed ==
    ASSUME Store!EvidenceConstants, Store!TypeOK, NEW t \in Tabs,
           NEW kind \in {"decide", "attest", "revoke", "link", "unlink"},
           NEW arg \in Deliveries \cup {None}, Store!review(t, kind, arg)
    PROVE  tab' \in [Tabs -> Store!Reviews] /\ UNCHANGED <<stored, raw, journal, proof, link>>
<1>1. Store!JournalOf(kind) \in Store!Journals
    BY DEF Store!JournalOf, Store!Journals
<1>2. journal[Store!JournalOf(kind)] \in 0..MaxEvents
    BY <1>1 DEF Store!TypeOK
<1>3. (IF kind \in {"decide", "attest"} THEN Store!Current ELSE {}) \in SUBSET Deliveries
    BY DEF Store!Current
<1>4. PICK r \in Store!Reviews : tab' = [tab EXCEPT ![t] = r]
    BY <1>2, <1>3 DEF Store!review, Store!Reviews
<1> QED
    BY <1>4 DEF Store!review, Store!TypeOK, Store!docVars, Store!reviewVars

\* Deliveries, retention, restores and reviews in any order keep the store well formed and
\* revive nothing.
LEMMA StoreStep ==
    ASSUME Store!EvidenceConstants, Store!EvidenceSafe, [Store!Next]_storeVars
    PROVE  Store!EvidenceSafe' /\ Store!EvidenceStep
<1> DEFINE Goal == Store!EvidenceSafe' /\ Store!EvidenceStep
<1>1. Store!TypeOK /\ Store!HistoriesAreChains /\ Store!ProofsOfKnown
    BY DEF Store!EvidenceSafe
<1>2. /\ raw \in SUBSET Deliveries /\ tab \in [Tabs -> Store!Reviews]
      /\ stored \in [Store!Sources -> Seq(Store!Contents)]
      /\ journal \in [Store!Journals -> 0..MaxEvents]
      /\ proof \in [Deliveries -> SUBSET Deliveries]
      /\ link \in [Deliveries -> Deliveries \cup {None}]
      /\ Store!NoReview \in Store!Reviews
    BY <1>1 DEF Store!TypeOK, Store!EvidenceConstants, Store!NoReview, Store!Reviews
<1>3. ASSUME UNCHANGED <<stored, journal, proof, link>>, raw' \subseteq raw,
             tab' \in [Tabs -> Store!Reviews]
      PROVE  Goal
  <2>1. Store!TypeOK'
      BY <1>2, <1>3 DEF Store!TypeOK
  <2>2. Store!HistoriesAreChains' /\ Store!ProofsOfKnown'
      BY <1>1, <1>3 DEF Store!HistoriesAreChains, Store!Successors, Store!ProofsOfKnown, Store!Known,
         Store!Contains
  <2>3. Store!RawStaysGone
      BY <1>3 DEF Store!RawStaysGone
  <2>4. Store!ReviewedBeforeReplaced
    <3>1. /\ journal'["decision"] = journal["decision"] /\ "decision" \in Store!Journals
          /\ journal["decision"] \in Nat
        BY <1>2, <1>3 DEF Store!Journals
    <3> QED
        BY <1>3, <3>1, SameProofs DEF Store!ReviewedBeforeReplaced
  <2> QED
      BY <2>1, <2>2, <2>3, <2>4 DEF Store!EvidenceSafe, Store!EvidenceStep
<1>4. ASSUME NEW d \in Deliveries, Store!ingest(d[1], d[2])
      PROVE  Goal
  <2>1. /\ stored' \in [Store!Sources -> Seq(Store!Contents)]
        /\ raw' = raw \cup {d} /\ d \notin Store!Known
        /\ Store!Known \subseteq Store!Known'
        /\ Store!Current' \subseteq Store!Current \cup {d}
        /\ UNCHANGED <<journal, proof, link, tab>>
      BY <1>1, <1>4, Delivered
  <2>2. Store!TypeOK'
      BY <1>2, <2>1 DEF Store!TypeOK
  <2>3. Store!HistoriesAreChains' /\ Store!ProofsOfKnown'
    <3>1. Store!HistoriesAreChains'
        BY <1>1, <2>1 DEF Store!HistoriesAreChains, Store!Successors
    <3>2. Store!ProofsOfKnown'
        BY <1>1, <2>1 DEF Store!ProofsOfKnown
    <3> QED
        BY <3>1, <3>2
  <2>4. Store!RawStaysGone
      BY <2>1 DEF Store!RawStaysGone
  <2>5. Store!ReviewedBeforeReplaced
    <3>1. ASSUME NEW p \in Deliveries, Store!currentProof(p)'
          PROVE  Store!currentProof(p)
      <4>1. proof[p] # {} /\ proof[p] \subseteq Store!Current'
          BY <2>1, <3>1 DEF Store!currentProof
      <4>2. d \notin proof[p]
          BY <1>1, <2>1 DEF Store!ProofsOfKnown
      <4> QED
          BY <2>1, <4>1, <4>2 DEF Store!currentProof
    <3>2. /\ journal'["decision"] = journal["decision"] /\ "decision" \in Store!Journals
          /\ journal["decision"] \in Nat
        BY <1>2, <2>1 DEF Store!Journals
    <3> QED
        BY <3>1, <3>2 DEF Store!ReviewedBeforeReplaced
  <2> QED
      BY <2>2, <2>3, <2>4, <2>5 DEF Store!EvidenceSafe, Store!EvidenceStep
<1>5. ASSUME Store!quarantineRestore
      PROVE  Goal
  <2>1. PICK n \in [Store!Sources -> 0..Store!Cardinality(Store!Contents)] :
            /\ \A s \in Store!Sources : n[s] <= Len(stored[s])
            /\ stored' = [s \in Store!Sources |-> SubSeq(stored[s], 1, n[s])]
      BY <1>5 DEF Store!quarantineRestore
  <2>2. stored' \in [Store!Sources -> Seq(Store!Contents)]
    <3>1. ASSUME NEW s \in Store!Sources
          PROVE  SubSeq(stored[s], 1, n[s]) \in Seq(Store!Contents)
      <4>1. n[s] \in Int /\ n[s] >= 0 /\ n[s] <= Len(stored[s])
          BY <2>1
      <4>2. PICK q \in Seq(Store!Contents) : q = stored[s]
          BY <1>2
      <4>3. SubSeq(q, 1, n[s]) \in Seq(Store!Contents)
          BY <4>1, <4>2
      <4> QED
          BY <4>2, <4>3
    <3> QED
        BY <2>1, <3>1
  <2>3. /\ raw' = {} /\ journal' = [j \in Store!Journals |-> 0]
        /\ proof' = [d \in Deliveries |-> {}] /\ link' = [d \in Deliveries |-> None]
        /\ tab' = [t \in Tabs |-> Store!NoReview]
      BY <1>5 DEF Store!quarantineRestore
  <2>4. Store!TypeOK'
      BY <1>2, <2>2, <2>3 DEF Store!TypeOK, Store!EvidenceConstants
  <2>5. Store!HistoriesAreChains'
    <3>1. Store!validateReceiptVersionGraph(link') /\ None \notin Deliveries
        BY <2>3 DEF Store!validateReceiptVersionGraph, Store!EvidenceConstants
    <3>2. CASE Deliveries = {}
        BY <3>2 DEF Store!HistoriesAreChains
    <3>3. CASE Deliveries # {}
        BY <1>1, <3>1, <3>3, Relinked
    <3> QED
        BY <3>2, <3>3
  <2>6. Store!ProofsOfKnown'
      BY <2>3 DEF Store!ProofsOfKnown
  <2>7. Store!RawStaysGone
      BY <2>3 DEF Store!RawStaysGone
  <2>8. Store!ReviewedBeforeReplaced
    <3>1. \A p \in Deliveries : ~Store!currentProof(p)'
        BY <2>3 DEF Store!currentProof
    <3>2. /\ journal'["decision"] = 0 /\ journal["decision"] \in Nat
        BY <1>2, <2>3 DEF Store!Journals
    <3> QED
        BY <3>1, <3>2 DEF Store!ReviewedBeforeReplaced
  <2> QED
      BY <2>4, <2>5, <2>6, <2>7, <2>8 DEF Store!EvidenceSafe, Store!EvidenceStep
<1>6. ASSUME NEW t \in Tabs, Store!commit(t)
      PROVE  Goal
  <2>1. Committed(t) /\ tab' \in [Tabs -> Store!Reviews]
      BY <1>1, <1>2, <1>6, CommitMoves DEF Store!commit
  <2>2. /\ Store!Known' = Store!Known /\ Store!Current' = Store!Current
      BY <2>1 DEF Committed, Store!Known, Store!Current, Store!isCurrent, Store!Last, Store!Contains
  <2>3. link' \in [Deliveries -> Deliveries \cup {None}]
      BY <1>2, <2>1 DEF Committed
  <2> DEFINE Attested(p) == /\ tab[t].kind = "attest" /\ tab[t].seen = journal["proof"]
                            /\ tab[t].arg = p
             Proofs == /\ proof' \in [Deliveries -> SUBSET Deliveries]
                       /\ Store!ProofsOfKnown'
                       /\ \A p \in Deliveries : \/ proof'[p] = proof[p] \/ proof'[p] = {}
                                                \/ Attested(p)
  <2>4. Proofs
    <3>1. ASSUME UNCHANGED proof
          PROVE  Proofs
        BY <1>1, <1>2, <2>2, <3>1 DEF Store!ProofsOfKnown
    <3>2. ASSUME NEW d \in Deliveries, proof' = [proof EXCEPT ![d] = {}]
          PROVE  Proofs
        BY <1>1, <1>2, <2>2, <3>2 DEF Store!ProofsOfKnown
    <3>3. ASSUME tab[t].kind = "attest", tab[t].seen = journal["proof"], tab[t].arg \in Deliveries,
                 tab[t].docs \subseteq Store!Current,
                 proof' = [proof EXCEPT ![tab[t].arg] = tab[t].docs]
          PROVE  Proofs
      <4>1. Store!Current \subseteq Store!Known /\ Store!Known \subseteq Deliveries
          BY <1>1, CurrentIsKnown DEF Store!Known
      <4>2. PICK D \in SUBSET Deliveries : D = tab[t].docs
          BY <3>3, <4>1
      <4>3. PICK a \in Deliveries : a = tab[t].arg
          BY <3>3
      <4>4. proof' = [proof EXCEPT ![a] = D] /\ D \subseteq Store!Known
          BY <3>3, <4>1, <4>2, <4>3
      <4> QED
          BY <1>1, <1>2, <2>2, <3>3, <4>3, <4>4 DEF Store!ProofsOfKnown
    <3> HIDE DEF Proofs
    <3> QED
        BY <2>1, <3>1, <3>2, <3>3 DEF Committed
  <2>5. Store!TypeOK'
      BY <1>2, <2>1, <2>3, <2>4 DEF Store!TypeOK, Committed
  <2>6. Store!HistoriesAreChains'
    <3>1. CASE UNCHANGED link
        BY <1>1, <3>1 DEF Store!HistoriesAreChains, Store!Successors
    <3>2. CASE ~UNCHANGED link
        BY <1>1, <2>1, <3>2, Relinked DEF Committed
    <3> QED
        BY <3>1, <3>2
  <2>7. Store!RawStaysGone
      BY <2>1 DEF Store!RawStaysGone, Committed
  <2>8. Store!ReviewedBeforeReplaced
    <3>1. ASSUME NEW p \in Deliveries, Store!currentProof(p)', ~Store!currentProof(p)
          PROVE  Attested(p)
        BY <2>2, <2>4, <3>1 DEF Store!currentProof
    <3>2. \/ journal'["decision"] = journal["decision"]
          \/ tab[t].kind = "decide" /\ tab[t].seen = journal["decision"]
        BY <2>1 DEF Committed
    <3>3. journal["decision"] \in Nat
        BY <1>2 DEF Store!Journals
    <3> QED
        BY <3>1, <3>2, <3>3 DEF Store!ReviewedBeforeReplaced
  <2> QED
      BY <2>4, <2>5, <2>6, <2>7, <2>8 DEF Store!EvidenceSafe, Store!EvidenceStep
<1>7. ASSUME NEW d \in Deliveries, Store!erase(d)
      PROVE  Goal
    BY <1>2, <1>3, <1>7 DEF Store!erase, Store!reviewVars
<1>8. ASSUME NEW t \in Tabs, NEW kind \in {"decide", "attest", "revoke", "link", "unlink"},
             NEW arg \in Deliveries \cup {None}, Store!review(t, kind, arg)
      PROVE  Goal
  <2>1. tab' \in [Tabs -> Store!Reviews] /\ UNCHANGED <<stored, raw, journal, proof, link>>
      BY <1>1, <1>8, Reviewed
  <2> QED
      BY <1>3, <2>1
<1>9. ASSUME NEW t \in Tabs, Store!leave(t)
      PROVE  Goal
    BY <1>2, <1>3, <1>9 DEF Store!leave, Store!docVars, Store!reviewVars
<1>10. ASSUME UNCHANGED storeVars
       PROVE  Goal
    BY <1>2, <1>3, <1>10
<1>11. Store!Current \subseteq Deliveries
    BY DEF Store!Current
<1> HIDE DEF Goal
<1>12. ASSUME NEW t \in Tabs,
              \/ Store!review(t, "decide", None)
              \/ \E d \in Store!Current : Store!review(t, "attest", d) \/ Store!review(t, "link", d)
              \/ \E d \in Deliveries : Store!review(t, "revoke", d) \/ Store!review(t, "unlink", d)
       PROVE  Goal
    BY <1>8, <1>11, <1>12
<1>13. Goal
    BY <1>4, <1>5, <1>6, <1>7, <1>9, <1>10, <1>12 DEF Store!Next, Store!expireRaw, Store!deleteRaw
<1> QED
    BY <1>13 DEF Goal

LEMMA StoreInit ==
    ASSUME Store!EvidenceConstants, Store!Init
    PROVE  Store!EvidenceSafe
<1>1. /\ stored \in [Store!Sources -> Seq(Store!Contents)]
      /\ proof \in [Deliveries -> SUBSET Deliveries]
      /\ link \in [Deliveries -> Deliveries \cup {None}]
      /\ journal \in [Store!Journals -> 0..MaxEvents] /\ raw \in SUBSET Deliveries
    BY DEF Store!Init, Store!EvidenceConstants
<1>2. tab \in [Tabs -> Store!Reviews]
    BY DEF Store!Init, Store!EvidenceConstants, Store!NoReview, Store!Reviews
<1>3. Store!TypeOK
    BY <1>1, <1>2 DEF Store!TypeOK
<1>4. Store!ProofsOfKnown
    BY DEF Store!Init, Store!ProofsOfKnown
<1>5. Store!validateReceiptVersionGraph(link)
    BY DEF Store!Init, Store!validateReceiptVersionGraph, Store!EvidenceConstants
<1>6. Store!HistoriesAreChains
    BY <1>5, OneSuccessor, SameStoreCount
       DEF Store!validateReceiptVersionGraph, Store!HistoriesAreChains
<1> QED
    BY <1>3, <1>4, <1>6 DEF Store!EvidenceSafe

\* Reviewed receipt histories never fork or loop and proofs rest on delivered documents,
\* whatever is delivered, erased, restored or reviewed in other tabs before a commit.
THEOREM EvidenceSafeAlways == Spec => []EvidenceSafe
<1>1. Init => EvidenceSafe
  <2> SUFFICES ASSUME Init, component = "store"
               PROVE  Store!EvidenceSafe
      BY DEF EvidenceSafe
  <2>1. Store!Init
      BY DEF Init
  <2> QED
      BY <2>1, StoreInit
<1>2. EvidenceSafe /\ [Next]_vars => EvidenceSafe'
    BY Components, StoreStep DEF EvidenceSafe
<1> QED
    BY <1>1, <1>2, PTL DEF Spec

\* Raw content that was destroyed stays destroyed, a proof that stopped applying applies again
\* only by an attestation over the current journal, and a decision replaces the one it read.
THEOREM NothingRevivesAlways == Spec => NothingRevives
<1>1. EvidenceSafe /\ [Next]_vars => (component = "store" => Store!EvidenceStep)
    BY Components, StoreStep DEF EvidenceSafe
<1> QED
    BY <1>1, EvidenceSafeAlways, PTL DEF Spec, NothingRevives
------------------------------------------------------------------------------
(* Receipt inference *)

\* An event appended to a preview leaves the others as they are.
LEMMA Appended ==
    ASSUME Inference!InferenceConstants, Inference!TypeOK, NEW p \in Inference!Previews,
           NEW e \in [status : Inference!Statuses, loc : {"local", "external"},
                      subject : 0..MaxSubject, abstained : BOOLEAN, expired : BOOLEAN],
           Inference!append(p, e)
    PROVE  /\ preview' \in [Inference!Previews ->
                              [status : Inference!Statuses, loc : {"local", "external"},
                               subject : 0..MaxSubject, abstained : BOOLEAN, expired : BOOLEAN]]
           /\ latest' \in [{"local", "external"} -> 0..MaxPreviews]
           /\ preview'[p] = e
           /\ \A q \in Inference!Previews \ {p} : preview'[q] = preview[q]
  BY DEF Inference!InferenceConstants, Inference!TypeOK, Inference!append, Inference!Previews

\* The events of a preview.
Events == [status : Inference!Statuses, loc : {"local", "external"},
           subject : 0..MaxSubject, abstained : BOOLEAN, expired : BOOLEAN]

\* A preview with another status.
LEMMA Restatus ==
    ASSUME Inference!TypeOK, NEW p \in Inference!Previews, NEW s \in Inference!Statuses
    PROVE  /\ [preview[p] EXCEPT !.status = s] \in Events
           /\ [preview[p] EXCEPT !.status = s].status = s
<1>1. PICK r \in Events : r = preview[p]
    BY DEF Inference!TypeOK, Events
<1>2. /\ [r EXCEPT !.status = s] \in Events /\ [r EXCEPT !.status = s].status = s
    BY DEF Events
<1> QED
    BY <1>1, <1>2

\* What a step of preview p may do to it.
Moves(p) ==
    \/ /\ preview[p].status = "none" /\ UNCHANGED <<exec, sends, quota>>
    \/ /\ preview[p].status = "preview" /\ preview'[p].status = "dispatched"
       /\ exec' = [exec EXCEPT ![p] = "consumed"] /\ quota' = quota + 1 /\ UNCHANGED sends
    \/ /\ exec[p] = "consumed" /\ UNCHANGED <<preview, quota>>
       /\ exec' = [exec EXCEPT ![p] = "calling"] /\ sends' = [sends EXCEPT ![p] = @ + 1]
    \/ /\ exec[p] # "idle" /\ exec' = [exec EXCEPT ![p] = "idle"] /\ UNCHANGED <<sends, quota>>
       /\ preview'[p] = preview[p] \/ preview'[p].status \notin {"none", "preview"}
    \/ /\ UNCHANGED <<exec, sends, quota>>
       /\ \/ preview'[p].status \notin {"none", "preview"}
          \/ preview'[p].status = preview[p].status

\* Every step of the inference is one move of one preview, or changes what previews bind;
\* types are kept and a withdrawn preview stays withdrawn.
LEMMA InferenceMoves ==
    ASSUME Inference!InferenceConstants, Inference!TypeOK, [Inference!Next]_inferenceVars
    PROVE  /\ Inference!TypeOK'
           /\ Inference!WithdrawnStaysWithdrawn
           /\ \/ \E p \in Inference!Previews :
                    /\ Moves(p)
                    /\ \A q \in Inference!Previews \ {p} : preview'[q] = preview[q]
              \/ UNCHANGED <<preview, exec, sends, quota>>
<1> DEFINE Only(p) == \A q \in Inference!Previews \ {p} : preview'[q] = preview[q]
           Goal == /\ Inference!TypeOK'
                   /\ Inference!WithdrawnStaysWithdrawn
                   /\ \/ \E p \in Inference!Previews : Moves(p) /\ Only(p)
                      \/ UNCHANGED <<preview, exec, sends, quota>>
<1> USE DEF Inference!InferenceConstants
<1>1. {"none", "preview", "dispatched", "completed", "failed", "rejected", "revoked"}
          \subseteq Inference!Statuses
    BY DEF Inference!Statuses
<1>2. preview \in [Inference!Previews -> Events]
    BY DEF Inference!TypeOK, Events
<1>3. ASSUME NEW p \in Inference!Previews, NEW e \in Events, Inference!append(p, e)
      PROVE  /\ preview' \in [Inference!Previews -> Events]
             /\ latest' \in [{"local", "external"} -> 0..MaxPreviews]
             /\ preview'[p] = e /\ Only(p)
    BY <1>3, Appended DEF Events
<1>4. ASSUME preview' \in [Inference!Previews -> Events],
             latest' \in [{"local", "external"} -> 0..MaxPreviews],
             UNCHANGED <<subject, source, enabled>>,
             exec' \in [Inference!Previews -> {"idle", "consumed", "calling"}],
             quota' \in 0..Cap, sends' \in [Inference!Previews -> Nat]
      PROVE  Inference!TypeOK'
    BY <1>4 DEF Inference!TypeOK, Events
<1>5. ASSUME NEW p \in Inference!Previews, Only(p),
             \/ preview[p].status \notin {"rejected", "revoked"}
             \/ preview'[p].status = preview[p].status
      PROVE  Inference!WithdrawnStaysWithdrawn
    BY <1>5 DEF Inference!WithdrawnStaysWithdrawn
<1>6. ASSUME NEW p \in Inference!Previews, NEW loc \in {"local", "external"},
             Inference!createPreview(p, loc)
      PROVE  Goal
  <2> DEFINE e == [status |-> "preview", loc |-> loc, subject |-> subject, abstained |-> FALSE,
                   expired |-> FALSE]
  <2>1. e \in Events /\ Inference!append(p, e)
      BY <1>1, <1>6 DEF Inference!TypeOK, Inference!createPreview, Events
  <2>2. /\ preview[p].status = "none" /\ UNCHANGED <<subject, source, enabled, exec, quota, sends>>
      BY <1>6 DEF Inference!createPreview
  <2>3. Inference!TypeOK'
      BY <1>3, <1>4, <2>1, <2>2 DEF Inference!TypeOK
  <2>4. Moves(p) /\ Only(p)
      BY <1>3, <2>1, <2>2 DEF Moves
  <2> QED
      BY <1>5, <2>2, <2>3, <2>4
<1>7. ASSUME NEW p \in Inference!Previews, Inference!consumePreview(p)
      PROVE  Goal
  <2>1. PICK e \in Events : e.status = "dispatched" /\ Inference!append(p, e)
      BY <1>1, <1>7, Restatus DEF Inference!consumePreview
  <2>2. /\ preview[p].status = "preview" /\ UNCHANGED <<subject, source, enabled, sends>>
        /\ exec' = [exec EXCEPT ![p] = "consumed"] /\ quota' = quota + 1 /\ quota < Cap
      BY <1>7 DEF Inference!consumePreview
  <2>3. Inference!TypeOK'
      BY <1>3, <1>4, <2>1, <2>2 DEF Inference!TypeOK
  <2>4. Moves(p) /\ Only(p)
      BY <1>3, <2>1, <2>2 DEF Moves
  <2> QED
      BY <1>5, <2>2, <2>3, <2>4
<1>8. ASSUME NEW p \in Inference!Previews, Inference!egress(p)
      PROVE  Goal
  <2>1. /\ exec[p] = "consumed" /\ UNCHANGED <<subject, source, enabled, preview, latest, quota>>
        /\ exec' = [exec EXCEPT ![p] = "calling"] /\ sends' = [sends EXCEPT ![p] = @ + 1]
      BY <1>8 DEF Inference!egress
  <2>2. Inference!TypeOK'
      BY <2>1 DEF Inference!TypeOK
  <2>3. Moves(p) /\ Only(p)
      BY <2>1 DEF Moves
  <2> QED
      BY <1>5, <2>1, <2>2, <2>3
<1>9. ASSUME NEW p \in Inference!Previews, NEW b \in BOOLEAN, Inference!finishDispatch(p, b)
      PROVE  Goal
  <2>1. PICK e \in Events : e.status = "completed" /\ Inference!append(p, e)
    <3>1. "completed" \in Inference!Statuses
        BY <1>1
    <3>2. PICK t \in Events : t = [preview[p] EXCEPT !.status = "completed"] /\ t.status = "completed"
        BY <3>1, Restatus, Zenon
    <3>3. [t EXCEPT !.abstained = b] \in Events /\ [t EXCEPT !.abstained = b].status = "completed"
        BY <3>2 DEF Events
    <3>4. Inference!append(p, [t EXCEPT !.abstained = b])
        BY <1>9, <3>2, Zenon DEF Inference!finishDispatch
    <3> QED
        BY <3>3, <3>4, Zenon
  <2>2. /\ exec[p] = "calling" /\ UNCHANGED <<subject, source, enabled, quota, sends>>
        /\ preview[p].status = "dispatched" /\ exec' = [exec EXCEPT ![p] = "idle"]
      BY <1>9 DEF Inference!finishDispatch, Inference!readLiveDispatch
  <2>3. Inference!TypeOK'
      BY <1>3, <1>4, <2>1, <2>2 DEF Inference!TypeOK
  <2>4. Moves(p) /\ Only(p)
      BY <1>3, <2>1, <2>2 DEF Moves
  <2> QED
      BY <1>5, <2>2, <2>3, <2>4
<1>10. ASSUME NEW p \in Inference!Previews, Inference!failDispatch(p)
       PROVE  Goal
  <2>1. /\ exec[p] # "idle" /\ UNCHANGED <<subject, source, enabled, quota, sends>>
        /\ exec' = [exec EXCEPT ![p] = "idle"]
      BY <1>10 DEF Inference!failDispatch
  <2>2. CASE preview[p].status = "dispatched"
    <3>1. PICK e \in Events : e.status = "failed" /\ Inference!append(p, e)
        BY <1>1, <1>10, <2>2, Restatus DEF Inference!failDispatch
    <3>2. Inference!TypeOK'
        BY <1>3, <1>4, <3>1, <2>1 DEF Inference!TypeOK
    <3>3. Moves(p) /\ Only(p)
        BY <1>3, <3>1, <2>1 DEF Moves
    <3> QED
        BY <1>5, <2>2, <3>2, <3>3
  <2>3. CASE UNCHANGED <<preview, latest>>
    <3>1. Inference!TypeOK'
        BY <2>1, <2>3 DEF Inference!TypeOK
    <3>2. Moves(p) /\ Only(p)
        BY <2>1, <2>3 DEF Moves
    <3> QED
        BY <1>5, <2>3, <3>1, <3>2
  <2> QED
      BY <1>10, <2>2, <2>3 DEF Inference!failDispatch
<1>11. ASSUME NEW p \in Inference!Previews, NEW s \in {"rejected", "revoked"}, Inference!withdraw(p, s)
       PROVE  Goal
  <2>1. PICK e \in Events : e.status = s /\ Inference!append(p, e)
    <3> DEFINE x == [preview[p] EXCEPT !.status = s]
    <3>0. s \in Inference!Statuses
        BY <1>1
    <3>1. x \in Events /\ x.status = s
        BY <3>0, Restatus, Zenon
    <3>2. Inference!append(p, x)
        BY <1>11 DEF Inference!withdraw
    <3> HIDE DEF x
    <3> QED
        BY <3>1, <3>2
  <2>2. /\ preview[p].status \notin {"none", "rejected", "revoked"}
        /\ UNCHANGED <<subject, source, enabled, exec, quota, sends>>
      BY <1>11 DEF Inference!withdraw
  <2>3. Inference!TypeOK'
      BY <1>3, <1>4, <2>1, <2>2 DEF Inference!TypeOK
  <2>4. Moves(p) /\ Only(p)
      BY <1>3, <2>1, <2>2 DEF Moves
  <2> QED
      BY <1>5, <2>2, <2>3, <2>4
<1>12. ASSUME NEW p \in Inference!Previews, Inference!Expire(p)
       PROVE  Goal
  <2>1. PICK r \in Events : r = preview[p]
      BY <1>2
  <2>2. /\ preview' = [preview EXCEPT ![p] = [r EXCEPT !.expired = TRUE]]
        /\ UNCHANGED <<subject, source, enabled, latest, exec, quota, sends>>
      BY <1>12, <2>1 DEF Inference!Expire
  <2>3. [r EXCEPT !.expired = TRUE] \in Events /\ [r EXCEPT !.expired = TRUE].status = r.status
      BY DEF Events
  <2>4. /\ preview' \in [Inference!Previews -> Events] /\ Only(p)
        /\ preview'[p].status = preview[p].status
      BY <1>2, <2>1, <2>2, <2>3
  <2>5. Inference!TypeOK'
      BY <1>4, <2>2, <2>4 DEF Inference!TypeOK
  <2>6. Moves(p)
      BY <2>2, <2>4 DEF Moves
  <2> QED
      BY <1>5, <2>4, <2>5, <2>6
<1>13. ASSUME NEW p \in Inference!Previews, Inference!Crash(p)
       PROVE  Goal
  <2>1. /\ exec[p] # "idle" /\ exec' = [exec EXCEPT ![p] = "idle"]
        /\ UNCHANGED <<subject, source, enabled, preview, latest, quota, sends>>
      BY <1>13 DEF Inference!Crash
  <2>2. Inference!TypeOK'
      BY <2>1 DEF Inference!TypeOK
  <2>3. Moves(p) /\ Only(p)
      BY <2>1 DEF Moves
  <2> QED
      BY <1>5, <2>1, <2>2, <2>3
<1>14. ASSUME NEW l \in SUBSET {"local", "external"}, Inference!updatePolicy(l)
       PROVE  Goal
    BY <1>14 DEF Inference!updatePolicy, Inference!TypeOK, Inference!WithdrawnStaysWithdrawn
<1>15. CASE Inference!SourceDeleted
    BY <1>15 DEF Inference!SourceDeleted, Inference!TypeOK, Inference!WithdrawnStaysWithdrawn
<1>16. CASE UNCHANGED inferenceVars
    BY <1>16 DEF Inference!TypeOK, Inference!WithdrawnStaysWithdrawn
<1> QED
    BY <1>6, <1>7, <1>8, <1>9, <1>10, <1>11, <1>12, <1>13, <1>14, <1>15, <1>16 DEF Inference!Next

\* The instance counts with the same operator.
LEMMA SameCount == ASSUME NEW S PROVE Inference!Cardinality(S) = Cardinality(S)
  BY DEF Inference!Cardinality, Cardinality

\* Consent is taken with its unit, before it can be used, and used once.
LEMMA ConsentStep ==
    ASSUME Inference!InferenceConstants, Inference!InferenceSafe, [Inference!Next]_inferenceVars
    PROVE  Inference!InferenceSafe'
<1>1. Inference!TypeOK' /\ Inference!TypeOK
    BY InferenceMoves DEF Inference!InferenceSafe
<1>2. /\ IsFiniteSet(Inference!Previews)
      /\ quota \in Nat /\ sends \in [Inference!Previews -> Nat] /\ sends' \in [Inference!Previews -> Nat]
      /\ exec \in [Inference!Previews -> {"idle", "consumed", "calling"}]
  <2>1. IsFiniteSet(1..MaxPreviews)
      BY FS_Interval DEF Inference!InferenceConstants
  <2>2. IsFiniteSet(Inference!Previews)
      BY <2>1, Zenon DEF Inference!Previews
  <2> QED
      BY <2>2, <1>1 DEF Inference!TypeOK, Inference!InferenceConstants
<1>3. /\ Inference!Consumers \subseteq Inference!Previews /\ Inference!Consumers' \subseteq Inference!Previews
      /\ IsFiniteSet(Inference!Consumers) /\ Cardinality(Inference!Consumers) \in Nat
      /\ IsFiniteSet(Inference!Consumers') /\ Cardinality(Inference!Consumers') \in Nat
      /\ Cardinality(Inference!Consumers) <= quota
  <2>1. Inference!Consumers \subseteq Inference!Previews /\ Inference!Consumers' \subseteq Inference!Previews
      BY DEF Inference!Consumers, Inference!Sent
  <2>2. Cardinality(Inference!Consumers) <= quota
      BY SameCount DEF Inference!InferenceSafe, Inference!ConsentTaken
  <2> QED
      BY <1>2, <2>1, <2>2, FS_Subset, FS_CardinalityType
<1>4. ASSUME Inference!Consumers' \subseteq Inference!Consumers, quota' = quota
      PROVE  Cardinality(Inference!Consumers') <= quota'
  <2>1. Cardinality(Inference!Consumers') <= Cardinality(Inference!Consumers)
      BY <1>3, <1>4, FS_Subset
  <2> QED
      BY <1>2, <1>3, <1>4, <2>1
<1>5. ASSUME NEW p \in Inference!Previews, Inference!Consumers' \subseteq Inference!Consumers \cup {p}, quota' = quota + 1
      PROVE  Cardinality(Inference!Consumers') <= quota'
  <2>1. /\ IsFiniteSet(Inference!Consumers \cup {p}) /\ Cardinality(Inference!Consumers \cup {p}) \in Nat
        /\ Cardinality(Inference!Consumers \cup {p}) <= Cardinality(Inference!Consumers) + 1
      BY <1>3, AddedElement
  <2>2. Cardinality(Inference!Consumers') <= Cardinality(Inference!Consumers \cup {p})
      BY <1>5, <2>1, FS_Subset
  <2> QED
      BY <1>2, <1>3, <1>5, <2>1, <2>2
<1>6. ASSUME \A p \in Inference!Previews :
                /\ preview'[p].status \in {"none", "preview"} => exec'[p] = "idle" /\ sends'[p] = 0
                /\ exec'[p] = "consumed" => sends'[p] = 0
                /\ sends'[p] <= 1,
             Cardinality(Inference!Consumers') <= quota'
      PROVE  Inference!InferenceSafe'
  <2>1. Inference!Sent' \subseteq Inference!Consumers'
      BY DEF Inference!Consumers, Inference!Sent
  <2>2. Cardinality(Inference!Sent') <= Cardinality(Inference!Consumers') /\ Cardinality(Inference!Sent') \in Nat
      BY <1>3, <2>1, FS_Subset, FS_CardinalityType
  <2>3. Cardinality(Inference!Sent') <= quota'
      BY <1>1, <1>3, <1>6, <2>2 DEF Inference!TypeOK, Inference!InferenceConstants
  <2>4. Inference!ConsentSpentOnce'
      BY <1>6, <2>3, SameCount DEF Inference!ConsentSpentOnce
  <2>5. Inference!ConsentTaken'
      BY <1>6, SameCount DEF Inference!ConsentTaken
  <2> QED
      BY <1>1, <2>4, <2>5 DEF Inference!InferenceSafe
<1>7. \A p \in Inference!Previews :
          /\ preview[p].status \in {"none", "preview"} => exec[p] = "idle" /\ sends[p] = 0
          /\ exec[p] = "consumed" => sends[p] = 0
          /\ sends[p] <= 1
    BY DEF Inference!InferenceSafe, Inference!ConsentTaken, Inference!ConsentSpentOnce
<1>8. ASSUME NEW p \in Inference!Previews, Moves(p),
             \A q \in Inference!Previews \ {p} : preview'[q] = preview[q]
      PROVE  Inference!InferenceSafe'
  <2>1. CASE UNCHANGED <<exec, sends, quota>> /\ preview[p].status = "none"
    <3>1. Inference!Consumers' = Inference!Consumers
        BY <2>1 DEF Inference!Consumers
    <3> QED
        BY <1>4, <1>6, <1>7, <1>8, <2>1, <3>1
  <2>2. CASE /\ preview[p].status = "preview" /\ preview'[p].status = "dispatched"
             /\ exec' = [exec EXCEPT ![p] = "consumed"] /\ quota' = quota + 1 /\ UNCHANGED sends
    <3>1. Inference!Consumers' \subseteq Inference!Consumers \cup {p}
        BY <1>2, <2>2 DEF Inference!Consumers
    <3>2. Cardinality(Inference!Consumers') <= quota'
        BY <1>5, <2>2, <3>1
    <3> QED
        BY <1>2, <1>6, <1>7, <1>8, <2>2, <3>2
  <2>3. CASE /\ exec[p] = "consumed" /\ UNCHANGED <<preview, quota>>
             /\ exec' = [exec EXCEPT ![p] = "calling"] /\ sends' = [sends EXCEPT ![p] = @ + 1]
    <3>1. Inference!Consumers' \subseteq Inference!Consumers
        BY <1>2, <2>3 DEF Inference!Consumers
    <3>2. Cardinality(Inference!Consumers') <= quota'
        BY <1>4, <2>3, <3>1
    <3> QED
        BY <1>2, <1>6, <1>7, <2>3, <3>2
  <2>4. CASE /\ exec[p] # "idle" /\ exec' = [exec EXCEPT ![p] = "idle"] /\ UNCHANGED <<sends, quota>>
             /\ preview'[p] = preview[p] \/ preview'[p].status \notin {"none", "preview"}
    <3>1. Inference!Consumers' \subseteq Inference!Consumers
        BY <1>2, <2>4 DEF Inference!Consumers
    <3>2. Cardinality(Inference!Consumers') <= quota'
        BY <1>4, <2>4, <3>1
    <3> QED
        BY <1>2, <1>6, <1>7, <1>8, <2>4, <3>2
  <2>5. CASE /\ UNCHANGED <<exec, sends, quota>>
             /\ \/ preview'[p].status \notin {"none", "preview"}
                \/ preview'[p].status = preview[p].status
    <3>1. Inference!Consumers' = Inference!Consumers
        BY <2>5 DEF Inference!Consumers
    <3> QED
        BY <1>4, <1>6, <1>7, <1>8, <2>5, <3>1
  <2> QED
      BY <1>8, <2>1, <2>2, <2>3, <2>4, <2>5 DEF Moves
<1>9. CASE UNCHANGED <<preview, exec, sends, quota>>
  <2>1. Inference!Consumers' = Inference!Consumers
      BY <1>9 DEF Inference!Consumers
  <2> QED
      BY <1>4, <1>6, <1>7, <1>9, <2>1
<1> QED
    BY <1>1, <1>8, <1>9, InferenceMoves

\* An external call leaves only when the local model is off or its last word was no answer.
LEMMA LocalFirstStep ==
    ASSUME Inference!InferenceConstants, Inference!TypeOK, [Inference!Next]_inferenceVars
    PROVE  Inference!LocalFirst
<1> SUFFICES ASSUME NEW p \in Inference!Previews, sends'[p] > sends[p], preview[p].loc = "external",
                    NEW q \in Inference!Previews, preview[q].loc = "local",
                    Inference!lookup("local") = {q}, ~preview[q].abstained
             PROVE  FALSE
    BY DEF Inference!LocalFirst
<1>1. sends \in [Inference!Previews -> Nat]
    BY DEF Inference!TypeOK
<1>2. PICK r \in Inference!Previews : Inference!egress(r)
  <2>1. sends' # sends
      BY <1>1
  <2> QED
      BY <2>1 DEF Inference!Next, Inference!createPreview, Inference!consumePreview,
         Inference!failDispatch, Inference!finishDispatch, Inference!withdraw, Inference!Expire,
         Inference!Crash, Inference!updatePolicy, Inference!SourceDeleted
<1>3. r = p
    BY <1>1, <1>2 DEF Inference!egress
<1>4. Inference!canEscalate
    BY <1>2, <1>3 DEF Inference!egress, Inference!readLiveDispatch, Inference!assertCurrent
<1>5. /\ latest["local"] = q /\ Inference!live(q) /\ preview[q].status = "completed"
    BY DEF Inference!lookup, Inference!findEvent
<1>6. "local" \in enabled
    BY <1>5 DEF Inference!live
<1>7. PICK x \in Inference!findEvent("local") :
          \/ preview[x].status \in {"failed", "rejected"}
          \/ preview[x].status = "completed" /\ preview[x].abstained
    BY <1>4, <1>6 DEF Inference!canEscalate
<1>8. x = q
    BY <1>5, <1>7 DEF Inference!findEvent
<1> QED
    BY <1>5, <1>7, <1>8

LEMMA InferenceInit ==
    ASSUME Inference!InferenceConstants, Inference!Init
    PROVE  Inference!InferenceSafe
<1> USE DEF Inference!Init, Inference!InferenceConstants
<1>1. Inference!TypeOK
    BY DEF Inference!TypeOK, Inference!Statuses
<1>2. Inference!Sent = {} /\ Inference!Consumers = {}
    BY DEF Inference!Sent, Inference!Consumers
<1>3. Cardinality({}) = 0 /\ 0 <= quota
    BY FS_EmptySet
<1>4. Cardinality(Inference!Sent) <= quota /\ Cardinality(Inference!Consumers) <= quota
    BY <1>2, <1>3, Zenon
<1>6. \A p \in Inference!Previews :
          sends[p] <= 1 /\ exec[p] = "idle" /\ sends[p] = 0 /\ exec[p] # "consumed"
    OBVIOUS
<1> QED
    BY <1>1, <1>4, <1>6, SameCount
       DEF Inference!InferenceSafe, Inference!ConsentSpentOnce, Inference!ConsentTaken

\* A consent reaches a provider at most once and never beyond the day's quota, through failures,
\* withdrawals, policy changes and crashes between the consumption and the call.
THEOREM InferenceSafeAlways == Spec => []InferenceSafe
<1>1. Init => InferenceSafe
  <2> SUFFICES ASSUME Init, component = "inference"
               PROVE  Inference!InferenceSafe
      BY DEF InferenceSafe
  <2>1. Inference!Init
      BY DEF Init
  <2> QED
      BY <2>1, InferenceInit
<1>2. InferenceSafe /\ [Next]_vars => InferenceSafe'
    BY Components, ConsentStep DEF InferenceSafe
<1> QED
    BY <1>1, <1>2, PTL DEF Spec

\* A withdrawn preview stays withdrawn whatever its call answers later, and an external
\* provider is never asked while a local suggestion stands.
THEOREM InferenceStepsAlways == Spec => InferenceSteps
<1>1. InferenceSafe /\ [Next]_vars => (component = "inference" => Inference!InferenceStep)
    BY Components, InferenceMoves, LocalFirstStep
       DEF InferenceSafe, Inference!InferenceSafe, Inference!InferenceStep
<1> QED
    BY <1>1, InferenceSafeAlways, PTL DEF Spec, InferenceSteps

------------------------------------------------------------------------------
(* Merchant research *)

\* What sweeping, cancelling and erasing may do to a row: a reservation is given back, a
\* dispatch becomes uncertain; what an attempt that may have been sent binds stays.
Kept(a, b) ==
    /\ b.window = a.window /\ b.launched = a.launched
    /\ b.live => a.live
    /\ \/ b.phase = a.phase
       \/ a.phase = "reserved" /\ b.phase = "known_failed"
       \/ a.phase = "dispatched" /\ b.phase = "uncertain"
    /\ a.phase \in {"dispatched", "uncertain"} => b.token = a.token
    /\ a.phase # "reserved" => b.token \in {a.token, None}
    /\ b.phase = a.phase \/ a.phase = "dispatched" => b.outcome = a.outcome

LEMMA KeptTransitive ==
    ASSUME NEW a, NEW b, NEW c, Kept(a, b), Kept(b, c)
    PROVE  Kept(a, c)
  BY DEF Kept

LEMMA NotBilledKeeps ==
    ASSUME Research!ResearchConstants, NEW a \in Research!Attempt
    PROVE  /\ Research!NotBilled(a) \in Research!Attempt
           /\ Research!NotBilled(a).phase = "known_failed"
           /\ Research!NotBilled(a).token = None
           /\ Research!NotBilled(a).window = a.window
           /\ Research!NotBilled(a).launched = a.launched
           /\ Research!NotBilled(a).live = FALSE
           /\ a.phase = "reserved" => Kept(a, Research!NotBilled(a))
  BY DEF Research!NotBilled, Research!Attempt, Research!Phases, Research!ResearchConstants, Kept

LEMMA ReconcileKeeps ==
    ASSUME Research!ResearchConstants, NEW rows \in [Ids -> Research!Attempt]
    PROVE  /\ Research!reconcile(rows) \in [Ids -> Research!Attempt]
           /\ \A k \in Ids : Kept(rows[k], Research!reconcile(rows)[k])
           /\ \A k \in Ids : rows[k].live => Research!reconcile(rows)[k] = rows[k]
           /\ \A k \in Ids : rows[k].phase = "none" => Research!reconcile(rows)[k] = rows[k]
<1> DEFINE R == Research!reconcile(rows)
<1>1. ASSUME NEW k \in Ids
      PROVE  /\ R[k] \in Research!Attempt /\ Kept(rows[k], R[k])
             /\ rows[k].live => R[k] = rows[k]
             /\ rows[k].phase = "none" => R[k] = rows[k]
  <2>1. PICK a \in Research!Attempt : a = rows[k]
      OBVIOUS
  <2>2. CASE a.phase = "reserved" /\ ~a.live
    <3>1. R[k] = Research!NotBilled(a)
        BY <2>1, <2>2 DEF Research!reconcile
    <3> QED
        BY <2>1, <2>2, <3>1, NotBilledKeeps
  <2>3. CASE a.phase = "dispatched" /\ ~a.live
    <3>1. R[k] = [a EXCEPT !.phase = "uncertain"]
        BY <2>1, <2>3 DEF Research!reconcile
    <3>2. [a EXCEPT !.phase = "uncertain"] \in Research!Attempt /\ Kept(a, [a EXCEPT !.phase = "uncertain"])
        BY <2>3 DEF Research!Attempt, Research!Phases, Kept
    <3> QED
        BY <2>1, <2>3, <3>1, <3>2
  <2>4. CASE /\ ~(a.phase = "reserved" /\ ~a.live)
             /\ ~(a.phase = "dispatched" /\ ~a.live)
    <3>1. R[k] = a
        BY <2>1, <2>4 DEF Research!reconcile
    <3> QED
        BY <2>1, <3>1 DEF Kept
  <2> QED
      BY <2>2, <2>3, <2>4
<1>2. R = [k \in Ids |-> R[k]]
    BY DEF Research!reconcile
<1> QED
    BY <1>1, <1>2

LEMMA CancelKeeps ==
    ASSUME Research!ResearchConstants, NEW rows \in [Ids -> Research!Attempt]
    PROVE  /\ Research!cancel(rows) \in [Ids -> Research!Attempt]
           /\ \A k \in Ids : /\ Kept(rows[k], Research!cancel(rows)[k])
                             /\ Research!cancel(rows)[k].phase # "reserved"
<1> DEFINE R == Research!cancel(rows)
<1>1. ASSUME NEW k \in Ids
      PROVE  R[k] \in Research!Attempt /\ Kept(rows[k], R[k]) /\ R[k].phase # "reserved"
  <2>1. PICK a \in Research!Attempt : a = rows[k]
      OBVIOUS
  <2>2. R[k] = IF a.phase = "reserved" THEN Research!NotBilled(a) ELSE a
      BY <2>1 DEF Research!cancel
  <2>3. CASE a.phase = "reserved"
      BY <2>1, <2>2, <2>3, NotBilledKeeps
  <2>4. CASE a.phase # "reserved"
      BY <2>1, <2>2, <2>4 DEF Kept
  <2> QED
      BY <2>3, <2>4
<1>2. R = [k \in Ids |-> R[k]]
    BY DEF Research!cancel
<1> QED
    BY <1>1, <1>2

LEMMA EraseKeeps ==
    ASSUME Research!ResearchConstants, NEW rows \in [Ids -> Research!Attempt],
           \A k \in Ids : rows[k].phase # "reserved"
    PROVE  /\ Research!erase(rows) \in [Ids -> Research!Attempt]
           /\ \A k \in Ids : /\ Kept(rows[k], Research!erase(rows)[k])
                             /\ Research!erase(rows)[k].phase \notin {"reserved", "dispatched"}
<1> DEFINE R == Research!erase(rows)
<1>1. ASSUME NEW k \in Ids
      PROVE  /\ R[k] \in Research!Attempt /\ Kept(rows[k], R[k])
             /\ R[k].phase \notin {"reserved", "dispatched"}
  <2>1. PICK a \in Research!Attempt : a = rows[k]
      OBVIOUS
  <2>2. CASE a.phase = "none"
    <3>1. R[k] = a
        BY <2>1, <2>2 DEF Research!erase
    <3> QED
        BY <2>1, <2>2, <3>1 DEF Kept
  <2>3. CASE a.phase # "none"
    <3> DEFINE b == [a EXCEPT !.phase = IF @ = "dispatched" THEN "uncertain" ELSE @,
                             !.token = IF a.phase \in {"dispatched", "uncertain"} THEN @ ELSE None,
                             !.deleted = TRUE]
    <3>1. R[k] = b
        BY <2>1, <2>3 DEF Research!erase
    <3>2. CASE a.phase = "dispatched"
        BY <2>1, <3>1, <3>2 DEF Kept, Research!Attempt, Research!Phases
    <3>3. CASE a.phase # "dispatched"
        BY <2>1, <3>1, <3>3 DEF Kept, Research!Attempt, Research!Phases
    <3> QED
        BY <3>2, <3>3
  <2> QED
      BY <2>2, <2>3
<1>2. R = [k \in Ids |-> R[k]]
    BY DEF Research!erase
<1> QED
    BY <1>1, <1>2

\* Whether a caller may still give its attempt back unsent.
Leaving(c) == c.pc \in {"egress", "release"} \/ (c.pc = "finish" /\ c.result = "not_dispatched")

\* What a step other than a restore may do to the row of one key: keep it, let its owner
\* close it, reserve it, or launch it.
Closed(k) ==
    LET a == attempt[k]
        b == attempt'[k]
    IN /\ a.token \in Workers /\ call'[a.token].pc = "idle"
       /\ b.window = a.window /\ b.launched = a.launched /\ b.token \in {a.token, None}
       /\ \/ b.phase = "known_failed" /\ Research!Unsent(k)
          \/ /\ a.phase \in {"dispatched", "uncertain"} /\ b.outcome # "none"
             /\ b.phase \in {"uncertain", "succeeded"}

Fresh(k) ==
    /\ attempt[k].phase = "none" /\ attempt'[k].phase = "reserved" /\ attempt'[k].outcome = "none"
    /\ ~attempt'[k].launched /\ attempt'[k].window = window /\ scope.hold < window

Launched(k) ==
    LET a == attempt[k]
        b == attempt'[k]
    IN /\ a.phase = "reserved" /\ b.phase = "dispatched" /\ b.window = a.window
       /\ b.token \in Workers /\ call'[b.token].pc = "egress"

RowMoves(k) == Kept(attempt[k], attempt'[k]) \/ Closed(k) \/ Fresh(k) \/ Launched(k)

\* What such a step may do to a caller.
CallMoves(w) ==
    LET c == call[w]
        d == call'[w]
    IN /\ d.pc # "idle" => d.id \in Ids
       /\ \/ d.pc = c.pc /\ d.id = c.id /\ d.result = c.result
          \/ d.pc \in {"idle", "claim", "settle", "release", "finish"}
          \/ d.pc = "dispatch" /\ ~attempt'[d.id].launched
          \/ d.pc = "calling" /\ c.pc = "egress" /\ d.id = c.id
          \/ /\ d.pc = "egress" /\ attempt'[d.id].token = w /\ attempt'[d.id].launched
             /\ attempt'[d.id].outcome = "none" /\ attempt'[d.id].phase = "dispatched"
             /\ attempt'[d.id].window > scope.hold
       /\ Leaving(d) => d.id = c.id /\ (Leaving(c) \/ c.pc = "dispatch")

\* Owners keep what they hold.
LEMMA OwnersStep ==
    ASSUME Research!ResearchConstants, Research!ResearchSafe, Research!TypeOK', scope'.hold = scope.hold,
           \A k \in Ids : RowMoves(k), \A w \in Workers : CallMoves(w)
    PROVE  Research!OwnersHold'
<1>1. /\ Research!OwnersHold /\ Research!TypeOK /\ Research!RowsInOrder
      /\ None \notin Workers
    BY DEF Research!ResearchSafe, Research!ResearchConstants
<1> SUFFICES ASSUME NEW w \in Workers
             PROVE  /\ call'[w].pc # "idle" => call'[w].id \in Ids
                    /\ /\ call'[w].pc = "dispatch" 
                       /\ attempt'[call'[w].id].token = w
                       => ~attempt'[call'[w].id].launched
                    /\ call'[w].pc \in {"egress", "calling"} =>
                          /\ attempt'[call'[w].id].token = w /\ attempt'[call'[w].id].launched
                          /\ attempt'[call'[w].id].outcome = "none"
                          /\ attempt'[call'[w].id].phase \in {"dispatched", "uncertain"}
                          /\ attempt'[call'[w].id].window > scope'.hold
    BY DEF Research!OwnersHold, Research!Row
<1>2. CallMoves(w)
    OBVIOUS
<1>3. call'[w].pc # "idle" => call'[w].id \in Ids
    BY <1>2 DEF CallMoves
<1>4. ASSUME call'[w].pc = "dispatch", attempt'[call'[w].id].token = w
      PROVE  ~attempt'[call'[w].id].launched
  <2>1. PICK k \in Ids : k = call'[w].id
      BY <1>3, <1>4
  <2>2. CASE call'[w].pc = call[w].pc /\ call'[w].id = call[w].id
    <3>1. attempt[k].token = w => ~attempt[k].launched
        BY <1>1, <1>4, <2>1, <2>2 DEF Research!OwnersHold, Research!Row
    <3>2. attempt[k].phase = "reserved" => ~attempt[k].launched
        BY <1>1 DEF Research!RowsInOrder
    <3>3. RowMoves(k)
        OBVIOUS
    <3> QED
        BY <1>1, <1>4, <2>1, <3>1, <3>2, <3>3 DEF RowMoves, Kept, Closed, Fresh, Launched
  <2>3. CASE ~attempt'[k].launched
      BY <2>1, <2>3
  <2> QED
      BY <1>2, <1>4, <2>1, <2>2, <2>3 DEF CallMoves
<1>5. ASSUME call'[w].pc \in {"egress", "calling"}
      PROVE  /\ attempt'[call'[w].id].token = w /\ attempt'[call'[w].id].launched
             /\ attempt'[call'[w].id].outcome = "none"
             /\ attempt'[call'[w].id].phase \in {"dispatched", "uncertain"}
             /\ attempt'[call'[w].id].window > scope'.hold
  <2>1. PICK k \in Ids : k = call'[w].id
      BY <1>3, <1>5
  <2>2. CASE call'[w].id = call[w].id /\ call[w].pc \in {"egress", "calling"}
    <3>1. /\ attempt[k].token = w /\ attempt[k].launched /\ attempt[k].outcome = "none"
          /\ attempt[k].phase \in {"dispatched", "uncertain"} /\ attempt[k].window > scope.hold
        BY <1>1, <2>1, <2>2 DEF Research!OwnersHold, Research!Row
    <3>2. RowMoves(k)
        OBVIOUS
    <3>3. Kept(attempt[k], attempt'[k])
        BY <1>5, <3>1, <3>2 DEF RowMoves, Closed, Fresh, Launched
    <3> QED
        BY <2>1, <3>1, <3>3 DEF Kept
  <2>3. CASE /\ attempt'[k].token = w /\ attempt'[k].launched
             /\ attempt'[k].outcome = "none" /\ attempt'[k].phase = "dispatched"
             /\ attempt'[k].window > scope.hold
      BY <2>1, <2>3
  <2> QED
      BY <1>2, <1>5, <2>1, <2>2, <2>3 DEF CallMoves
<1> QED
    BY <1>3, <1>4, <1>5

\* An attempt that pays for a search goes on paying for it.
LEMMA PayingStep ==
    ASSUME Research!ResearchConstants, Research!ResearchSafe,
           \A k \in Ids : RowMoves(k), \A w \in Workers : CallMoves(w), NEW d \in Research!Windows
    PROVE  Research!Paying(d) \subseteq Research!Paying(d)'
<1>1. /\ Research!OwnersHold /\ Research!RowsInOrder /\ None \notin Workers
    BY DEF Research!ResearchSafe, Research!ResearchConstants
<1> SUFFICES ASSUME NEW k \in Research!Paying(d)
             PROVE  k \in Research!Paying(d)'
    OBVIOUS
<1>2. /\ k \in Ids /\ attempt[k].window = d /\ attempt[k].phase \notin {"none", "known_failed"}
      /\ attempt[k].launched /\ ~Research!Unsent(k)
    BY DEF Research!Paying, Research!Counted
<1>3. attempt[k].phase # "reserved"
    BY <1>1, <1>2 DEF Research!RowsInOrder
<1>4. RowMoves(k)
    BY <1>2
<1>5. Kept(attempt[k], attempt'[k]) \/ Closed(k)
    BY <1>2, <1>3, <1>4 DEF RowMoves, Fresh, Launched
<1>6. /\ attempt'[k].window = d /\ attempt'[k].launched
      /\ attempt'[k].phase \notin {"none", "known_failed"}
      /\ attempt'[k].token \in {attempt[k].token, None}
    BY <1>2, <1>3, <1>5 DEF Kept, Closed
<1>7. ~Research!Unsent(k)'
  <2> SUFFICES ASSUME NEW w \in Workers, call'[w].id = k, attempt'[k].token = w, Leaving(call'[w])
               PROVE  FALSE
      BY DEF Research!Unsent, Leaving
  <2>1. attempt[k].token = w
      BY <1>1, <1>6
  <2>2. call[w].id = k /\ (Leaving(call[w]) \/ call[w].pc = "dispatch")
      BY DEF CallMoves
  <2>3. CASE Leaving(call[w])
      BY <1>2, <2>1, <2>2, <2>3 DEF Research!Unsent, Leaving
  <2>4. CASE call[w].pc = "dispatch"
      BY <1>1, <1>2, <2>1, <2>2, <2>4 DEF Research!OwnersHold, Research!Row
  <2> QED
      BY <2>2, <2>3, <2>4
<1> QED
    BY <1>2, <1>6, <1>7 DEF Research!Paying, Research!Counted

\* Only a reservation adds to a window's attempts, only a launch to the running ones.
LEMMA CountedStep ==
    ASSUME Research!ResearchConstants, Research!TypeOK, Research!TypeOK', NEW k \in Ids, RowMoves(k)
    PROVE  /\ \A d \in Research!Windows : k \in Research!Counted(attempt, d)' =>
                  k \in Research!Counted(attempt, d) \/ Fresh(k)
           /\ k \in Research!Running(attempt)' => k \in Research!Running(attempt) \/ Launched(k)
<1>1. attempt[k].token = None \/ attempt[k].token \in Workers
    BY DEF Research!TypeOK, Research!Attempt
<1>2. ASSUME NEW d \in Research!Windows, k \in Research!Counted(attempt, d)', ~Fresh(k)
      PROVE  k \in Research!Counted(attempt, d)
    BY <1>2 DEF Research!Counted, RowMoves, Kept, Closed, Launched
<1>3. ASSUME k \in Research!Running(attempt)', ~Launched(k)
      PROVE  k \in Research!Running(attempt)
    BY <1>3 DEF Research!Running, RowMoves, Kept, Closed, Fresh
<1> QED
    BY <1>2, <1>3

\* The instance counts with the same operator.
LEMMA SameResearchCount ==
    /\ \A S : Research!Cardinality(S) = Cardinality(S)
    /\ \A S : Research!IsFiniteSet(S) <=> IsFiniteSet(S)
<1>1. ASSUME NEW S PROVE Research!Cardinality(S) = Cardinality(S)
    BY DEF Research!Cardinality, Cardinality
<1>2. ASSUME NEW S PROVE Research!IsFiniteSet(S) <=> IsFiniteSet(S)
    BY DEF Research!IsFiniteSet, IsFiniteSet
<1> QED
    BY <1>1, <1>2

LEMMA SizeOfIds ==
    ASSUME Research!ResearchConstants, NEW S \in SUBSET Ids, NEW T \in SUBSET Ids
    PROVE  /\ IsFiniteSet(S) /\ Cardinality(S) \in Nat /\ Cardinality(T) \in Nat
           /\ S \subseteq T => Cardinality(S) <= Cardinality(T)
<1>1. IsFiniteSet(Ids)
    BY SameResearchCount DEF Research!ResearchConstants
<1>2. IsFiniteSet(S) /\ IsFiniteSet(T)
    BY <1>1, FS_Subset
<1> QED
    BY <1>2, FS_Subset, FS_CardinalityType

\* The rows stay in order.
LEMMA RowsStep ==
    ASSUME Research!ResearchConstants, Research!ResearchSafe, Research!TypeOK', scope'.hold = scope.hold,
           window <= window', floor' <= scope'.gen, backup' = backup, \A k \in Ids : RowMoves(k)
    PROVE  Research!RowsInOrder'
<1>1. /\ Research!TypeOK /\ Research!RowsInOrder
    BY DEF Research!ResearchSafe
<1>2. /\ window \in Nat /\ window' \in Nat /\ scope.hold \in Nat
      /\ \A k \in Ids : attempt[k].window \in Nat /\ attempt'[k].window \in Nat
      /\ backup # None => \A k \in Ids : backup.attempt[k].window \in Nat
  <2>1. /\ window \in 1..MaxWindow /\ window' \in 1..MaxWindow /\ scope.hold \in 0..MaxWindow
        /\ MaxWindow \in Nat
      BY <1>1 DEF Research!TypeOK, Research!Windows, Research!ResearchConstants
  <2>2. \A a \in Research!Attempt : a.window \in Nat
      BY DEF Research!Attempt, Research!Windows, Research!ResearchConstants
  <2>3. /\ \A k \in Ids : attempt[k] \in Research!Attempt /\ attempt'[k] \in Research!Attempt
        /\ backup # None => \A k \in Ids : backup.attempt[k] \in Research!Attempt
      BY <1>1 DEF Research!TypeOK
  <2> QED
      BY <2>1, <2>2, <2>3
<1>3. ASSUME NEW k \in Ids
      PROVE  /\ attempt'[k].window <= window'
             /\ attempt'[k].phase \in {"none", "reserved"} => ~attempt'[k].launched
             /\ attempt'[k].phase = "reserved" => /\ attempt'[k].window > scope'.hold
                                                  /\ attempt'[k].outcome = "none"
  <2>1. /\ attempt[k].window <= window
        /\ attempt[k].phase \in {"none", "reserved"} => ~attempt[k].launched
        /\ attempt[k].phase = "reserved" => /\ attempt[k].window > scope.hold
                                            /\ attempt[k].outcome = "none"
      BY <1>1 DEF Research!RowsInOrder
  <2>2. RowMoves(k)
      OBVIOUS
  <2> QED
      BY <1>2, <2>1, <2>2 DEF RowMoves, Kept, Closed, Fresh, Launched
<1>4. backup' # None =>
          \A k \in Ids : /\ backup'.attempt[k].window <= window' /\ ~backup'.attempt[k].live
                         /\ backup'.attempt[k].phase \notin {"reserved", "dispatched"}
                         /\ backup'.attempt[k].phase = "none" => ~backup'.attempt[k].launched
  <2>1. backup # None =>
            \A k \in Ids : /\ backup.attempt[k].window <= window /\ ~backup.attempt[k].live
                           /\ backup.attempt[k].phase \notin {"reserved", "dispatched"}
                           /\ backup.attempt[k].phase = "none" => ~backup.attempt[k].launched
      BY <1>1 DEF Research!RowsInOrder
  <2> QED
      BY <1>2, <2>1
<1>5. scope'.hold <= window'
    BY <1>1, <1>2 DEF Research!RowsInOrder
<1> QED
    BY <1>3, <1>4, <1>5 DEF Research!RowsInOrder

\* Paid searches stay within the cap, and owners that wait for the provider are running.
LEMMA Bounded ==
    ASSUME Research!ResearchConstants, Research!ResearchSafe, Research!TypeOK', Research!OwnersHold',
           scope'.hold = scope.hold, Research!EverySendPaid',
           Cardinality(Research!Running(attempt)') <= MaxRunning,
           \A d \in Research!Windows : d <= scope.hold => searches'[d] = searches[d]
    PROVE  Research!SendsWithinCap' /\ Research!LaunchesBounded'
<1>1. /\ Research!SendsWithinCap /\ Research!TypeOK /\ Cap \in Nat /\ MaxRunning \in Nat
    BY DEF Research!ResearchSafe, Research!ResearchConstants
<1>2. ASSUME NEW d \in Research!Windows
      PROVE  searches'[d] <= Cap
  <2>1. CASE d <= scope.hold
      BY <1>1, <2>1 DEF Research!SendsWithinCap
  <2>2. CASE d > scope.hold
    <3>1. /\ searches'[d] <= Cardinality(Research!Paying(d)')
          /\ Cardinality(Research!Counted(attempt, d)') <= Cap
        BY <2>2, SameResearchCount DEF Research!EverySendPaid
    <3>2. /\ Research!Paying(d)' \subseteq Research!Counted(attempt, d)'
          /\ Research!Counted(attempt, d)' \subseteq Ids
        BY DEF Research!Paying, Research!Counted
    <3>3. /\ Cardinality(Research!Paying(d)') <= Cardinality(Research!Counted(attempt, d)')
          /\ Cardinality(Research!Paying(d)') \in Nat /\ Cardinality(Research!Counted(attempt, d)') \in Nat
        BY <3>2, SizeOfIds
    <3>4. searches'[d] \in Nat
        BY DEF Research!TypeOK
    <3> QED
        BY <1>1, <3>1, <3>3, <3>4
  <2>3. d \in Nat /\ scope.hold \in Nat
      BY <1>1 DEF Research!TypeOK, Research!Windows, Research!ResearchConstants
  <2> QED
      BY <2>1, <2>2, <2>3
<1>3. Research!Calling' \subseteq Research!Running(attempt)' /\ Research!Running(attempt)' \subseteq Ids
    BY DEF Research!Calling, Research!Running, Research!OwnersHold, Research!Row
<1>4. /\ Cardinality(Research!Calling') <= Cardinality(Research!Running(attempt)')
      /\ Cardinality(Research!Calling') \in Nat /\ Cardinality(Research!Running(attempt)') \in Nat
    BY <1>3, SizeOfIds
<1>5. Cardinality(Research!Calling') <= MaxRunning
    BY <1>1, <1>4
<1>6. Research!LaunchesBounded'
    BY <1>5, SameResearchCount DEF Research!LaunchesBounded
<1> QED
    BY <1>2, <1>6 DEF Research!SendsWithinCap

\* What was paid stays paid, and without a reservation no window's count grows.
LEMMA PaidStep ==
    ASSUME Research!ResearchConstants, Research!ResearchSafe, Research!TypeOK',
           \A k \in Ids : RowMoves(k), \A w \in Workers : CallMoves(w),
           NEW d \in Research!Windows, d > scope.hold
    PROVE  /\ searches[d] <= Cardinality(Research!Paying(d)')
           /\ (\A k \in Ids : ~Fresh(k)) => Cardinality(Research!Counted(attempt, d)') <= Cap
<1>1. /\ searches[d] <= Cardinality(Research!Paying(d)) /\ searches[d] \in Nat /\ Research!TypeOK
      /\ Cardinality(Research!Counted(attempt, d)) <= Cap /\ Cap \in Nat
    BY SameResearchCount
       DEF Research!ResearchSafe, Research!EverySendPaid, Research!TypeOK, Research!ResearchConstants
<1>2. Research!Paying(d) \subseteq Research!Paying(d)'
    BY PayingStep
<1>3. /\ Research!Paying(d) \in SUBSET Ids /\ Research!Paying(d)' \in SUBSET Ids
      /\ Research!Counted(attempt, d) \in SUBSET Ids /\ Research!Counted(attempt, d)' \in SUBSET Ids
    BY DEF Research!Paying, Research!Counted
<1>4. /\ Cardinality(Research!Paying(d)) <= Cardinality(Research!Paying(d)')
      /\ Cardinality(Research!Paying(d)) \in Nat /\ Cardinality(Research!Paying(d)') \in Nat
    BY <1>2, <1>3, SizeOfIds
<1>5. ASSUME \A k \in Ids : ~Fresh(k)
      PROVE  Cardinality(Research!Counted(attempt, d)') <= Cap
  <2>1. Research!Counted(attempt, d)' \subseteq Research!Counted(attempt, d)
      BY <1>1, <1>3, <1>5, CountedStep
  <2>2. /\ Cardinality(Research!Counted(attempt, d)') <= Cardinality(Research!Counted(attempt, d))
        /\ Cardinality(Research!Counted(attempt, d)) \in Nat
        /\ Cardinality(Research!Counted(attempt, d)') \in Nat
      BY <1>3, <2>1, SizeOfIds
  <2> QED
      BY <1>1, <2>2
<1> QED
    BY <1>1, <1>4, <1>5

\* A step that neither reserves nor launches nor sends keeps every bound.
LEMMA QuietStep ==
    ASSUME Research!ResearchConstants, Research!ResearchSafe, Research!TypeOK', scope'.hold = scope.hold,
           searches' = searches, \A k \in Ids : Kept(attempt[k], attempt'[k]) \/ Closed(k),
           \A w \in Workers : CallMoves(w), Research!RowsInOrder', Research!ErasedStaysErased'
    PROVE  Research!ResearchSafe'
<1>1. /\ Research!EverySendPaid /\ Research!TypeOK /\ Research!LaunchesBounded /\ Research!RowsInOrder
      /\ MaxRunning \in Nat /\ Cap \in Nat
    BY DEF Research!ResearchSafe, Research!ResearchConstants
<1>2. \A k \in Ids : RowMoves(k) /\ ~Fresh(k) /\ ~Launched(k)
  <2> SUFFICES ASSUME NEW k \in Ids
               PROVE  RowMoves(k) /\ ~Fresh(k) /\ ~Launched(k)
      OBVIOUS
  <2>1. RowMoves(k)
      BY DEF RowMoves
  <2>2. attempt[k].phase \in Research!Phases
      BY <1>1 DEF Research!TypeOK, Research!Attempt
  <2> QED
      BY <2>1, <2>2 DEF Kept, Closed, Fresh, Launched
<1>3. Research!OwnersHold'
    BY <1>2, OwnersStep
<1>4. Research!EverySendPaid'
    BY <1>2, PaidStep, SameResearchCount DEF Research!EverySendPaid
<1>5. Cardinality(Research!Running(attempt)') <= MaxRunning
  <2>1. Research!Running(attempt)' \in SUBSET Ids /\ Research!Running(attempt) \in SUBSET Ids
      BY DEF Research!Running
  <2>2. Research!Running(attempt)' \subseteq Research!Running(attempt)
      BY <1>1, <1>2, <2>1, CountedStep
  <2>3. /\ Cardinality(Research!Running(attempt)') <= Cardinality(Research!Running(attempt))
        /\ Cardinality(Research!Running(attempt)) \in Nat
        /\ Cardinality(Research!Running(attempt)') \in Nat
      BY <2>1, <2>2, SizeOfIds
  <2>4. Cardinality(Research!Running(attempt)) <= MaxRunning
      BY <1>1, SameResearchCount DEF Research!LaunchesBounded
  <2> QED
      BY <1>1, <2>3, <2>4
<1>6. Research!SendsWithinCap' /\ Research!LaunchesBounded'
    BY <1>3, <1>4, <1>5, Bounded
<1> QED
    BY <1>3, <1>4, <1>6 DEF Research!ResearchSafe

\* Callers that did not step, and what a step of one caller does to its own record.
LEMMA CallsStep ==
    ASSUME Research!ResearchSafe, NEW w \in Workers, CallMoves(w),
           \A v \in Workers \ {w} : /\ call'[v].pc = call[v].pc /\ call'[v].id = call[v].id
                                    /\ call'[v].result = call[v].result
    PROVE  \A v \in Workers : CallMoves(v)
<1>1. Research!OwnersHold
    BY DEF Research!ResearchSafe
<1> SUFFICES ASSUME NEW v \in Workers, v # w
             PROVE  CallMoves(v)
    OBVIOUS
<1> QED
    BY <1>1 DEF CallMoves, Leaving, Research!OwnersHold

LEMMA SameCalls ==
    ASSUME Research!ResearchSafe, call' = call
    PROVE  \A v \in Workers : CallMoves(v)
  BY DEF CallMoves, Leaving, Research!OwnersHold, Research!ResearchSafe

LEMMA Went ==
    ASSUME Research!TypeOK, NEW w \in Workers,
           NEW pc \in {"idle", "claim", "dispatch", "egress", "calling", "finish", "settle", "release"},
           Research!Goto(w, pc)
    PROVE  /\ call' \in [Workers -> Research!Call]
           /\ call'[w].pc = pc /\ call'[w].id = call[w].id /\ call'[w].result = call[w].result
           /\ \A v \in Workers \ {w} : call'[v] = call[v]
  BY DEF Research!TypeOK, Research!Goto, Research!Call

LEMMA Returned ==
    ASSUME Research!ResearchConstants, Research!TypeOK, NEW w \in Workers, Research!Return(w)
    PROVE  /\ call' \in [Workers -> Research!Call]
           /\ call'[w].pc = "idle" /\ CallMoves(w)
           /\ \A v \in Workers \ {w} : call'[v] = call[v]
<1>1. Research!Idle \in Research!Call /\ Research!Idle.pc = "idle"
    BY DEF Research!Idle, Research!Call, Research!ResearchConstants
<1>2. call' = [call EXCEPT ![w] = Research!Idle] /\ call \in [Workers -> Research!Call]
    BY DEF Research!TypeOK, Research!Return
<1>3. /\ call' \in [Workers -> Research!Call] /\ call'[w] = Research!Idle
      /\ \A v \in Workers \ {w} : call'[v] = call[v]
    BY <1>1, <1>2
<1> QED
    BY <1>1, <1>3 DEF CallMoves, Leaving

\* Rows and callers that move quietly, and nothing else.
LEMMA QuietRows ==
    ASSUME Research!ResearchConstants, Research!ResearchSafe, attempt' \in [Ids -> Research!Attempt],
           \A k \in Ids : Kept(attempt[k], attempt'[k]) \/ Closed(k),
           call' \in [Workers -> Research!Call], \A w \in Workers : CallMoves(w),
           UNCHANGED <<cache, scope, allowed, window, backup, searches, floor>>
    PROVE  Research!ResearchSafe'
<1>1. /\ Research!TypeOK /\ Research!ErasedStaysErased /\ Research!RowsInOrder
    BY DEF Research!ResearchSafe
<1>2. Research!TypeOK'
    BY <1>1 DEF Research!TypeOK
<1>3. \A k \in Ids : RowMoves(k)
    BY DEF RowMoves
<1>4. window <= window' /\ floor' <= scope'.gen
    BY <1>1 DEF Research!RowsInOrder, Research!TypeOK, Research!Windows, Research!ResearchConstants
<1>5. Research!RowsInOrder'
    BY <1>2, <1>3, <1>4, RowsStep
<1>6. Research!ErasedStaysErased'
    BY <1>1 DEF Research!ErasedStaysErased
<1> QED
    BY <1>2, <1>5, <1>6, QuietStep

\* Rows that were not touched, or only swept.
LEMMA Swept ==
    ASSUME Research!ResearchConstants, Research!TypeOK,
           attempt' = attempt \/ attempt' = Research!reconcile(attempt)
    PROVE  attempt' \in [Ids -> Research!Attempt] /\ \A k \in Ids : Kept(attempt[k], attempt'[k])
<1>1. attempt \in [Ids -> Research!Attempt]
    BY DEF Research!TypeOK
<1>2. CASE attempt' = attempt
    BY <1>1, <1>2 DEF Kept
<1>3. CASE attempt' = Research!reconcile(attempt)
    BY <1>1, <1>3, ReconcileKeeps
<1> QED
    BY <1>2, <1>3

\* One step of a caller that leaves the rows or only sweeps them.
LEMMA CallerStep ==
    ASSUME Research!ResearchConstants, Research!ResearchSafe, NEW w \in Workers,
           attempt' = attempt \/ attempt' = Research!reconcile(attempt),
           call' \in [Workers -> Research!Call], CallMoves(w),
           \A v \in Workers \ {w} : call'[v] = call[v],
           UNCHANGED <<cache, scope, allowed, window, backup, searches, floor>>
    PROVE  Research!ResearchSafe'
<1>1. Research!TypeOK
    BY DEF Research!ResearchSafe
<1> QED
    BY <1>1, Swept, CallsStep, QuietRows

\* The owner settles its attempt and returns.
LEMMA SettleStep ==
    ASSUME Research!ResearchConstants, Research!ResearchSafe, NEW w \in Workers,
           call[w].pc \in {"finish", "settle"},
           NEW phase, NEW outcome, Research!settleAttempt(w, phase, outcome),
           \/ phase \in {"uncertain", "succeeded"} /\ outcome \in {"uncertain", "charged"}
           \/ /\ phase = "known_failed" /\ outcome = "not_billed"
              /\ call[w].pc = "finish" /\ call[w].result = "not_dispatched",
           Research!Return(w),
           UNCHANGED <<cache, scope, allowed, window, backup, searches, floor>>
    PROVE  Research!ResearchSafe'
<1>1. Research!TypeOK /\ Research!OwnersHold
    BY DEF Research!ResearchSafe
<1>2. /\ call' \in [Workers -> Research!Call] /\ call'[w].pc = "idle" /\ CallMoves(w)
      /\ \A v \in Workers \ {w} : call'[v] = call[v]
    BY <1>1, Returned
<1>3. CASE attempt' = attempt
    BY <1>2, <1>3, CallerStep
<1>4. CASE attempt' # attempt
  <2>1. PICK k \in Ids : k = call[w].id
      BY <1>1 DEF Research!OwnersHold
  <2>2. /\ attempt[k].token = w /\ attempt[k].launched
        /\ attempt[k].phase \in {"dispatched", "uncertain"}
        /\ attempt' = [attempt EXCEPT ![k].phase = phase, ![k].outcome = outcome]
      BY <1>4, <2>1 DEF Research!settleAttempt, Research!Row
  <2>3. PICK a \in Research!Attempt : a = attempt[k]
      BY <1>1 DEF Research!TypeOK
  <2> DEFINE b == [a EXCEPT !.phase = phase, !.outcome = outcome]
  <2>4. /\ b \in Research!Attempt /\ b.phase = phase /\ b.outcome = outcome /\ b.window = a.window
        /\ b.launched = a.launched /\ b.token = a.token
      BY DEF Research!Attempt, Research!Phases
  <2>5. /\ attempt' = [attempt EXCEPT ![k] = b] /\ attempt \in [Ids -> Research!Attempt]
      BY <1>1, <2>2, <2>3 DEF Research!TypeOK, Research!Attempt
  <2> HIDE DEF b
  <2>6. /\ attempt' \in [Ids -> Research!Attempt] /\ attempt'[k] = b
        /\ \A j \in Ids \ {k} : attempt'[j] = attempt[j]
      BY <2>4, <2>5
  <2>7. Closed(k)
    <3>1. phase = "known_failed" => Research!Unsent(k)
        BY <2>1, <2>2 DEF Research!Unsent
    <3> QED
        BY <1>2, <2>2, <2>3, <2>4, <2>6, <3>1 DEF Closed
  <2>8. \A j \in Ids : Kept(attempt[j], attempt'[j]) \/ Closed(j)
      BY <2>6, <2>7 DEF Kept
  <2>9. \A v \in Workers : CallMoves(v)
      BY <1>2, CallsStep
  <2> QED
      BY <1>2, <2>6, <2>8, <2>9, QuietRows
<1> QED
    BY <1>3, <1>4

LEMMA ReleaseStep ==
    ASSUME Research!ResearchConstants, Research!ResearchSafe, NEW w \in Workers,
           Research!releaseUnsentAttempt(w)
    PROVE  Research!ResearchSafe'
<1>1. Research!TypeOK /\ Research!OwnersHold
    BY DEF Research!ResearchSafe
<1>2. /\ call' \in [Workers -> Research!Call] /\ call'[w].pc = "idle" /\ CallMoves(w)
      /\ \A v \in Workers \ {w} : call'[v] = call[v]
      /\ UNCHANGED <<cache, scope, allowed, window, backup, searches, floor>>
    BY <1>1, Returned DEF Research!releaseUnsentAttempt
<1>3. CASE attempt' = attempt
    BY <1>2, <1>3, CallerStep
<1>4. CASE attempt' # attempt
  <2>1. PICK k \in Ids : k = call[w].id
      BY <1>1 DEF Research!OwnersHold, Research!releaseUnsentAttempt
  <2>2. /\ attempt[k].token = w /\ attempt' = [attempt EXCEPT ![k] = Research!NotBilled(attempt[k])]
        /\ call[w].pc = "release"
      BY <1>4, <2>1 DEF Research!releaseUnsentAttempt, Research!Row
  <2>3. PICK a \in Research!Attempt : a = attempt[k]
      BY <1>1 DEF Research!TypeOK
  <2>4. /\ attempt' \in [Ids -> Research!Attempt] /\ attempt'[k] = Research!NotBilled(a)
        /\ \A j \in Ids \ {k} : attempt'[j] = attempt[j]
      BY <1>1, <2>2, <2>3, NotBilledKeeps DEF Research!TypeOK
  <2>5. Research!Unsent(k)
      BY <2>1, <2>2 DEF Research!Unsent
  <2>6. Closed(k)
      BY <1>2, <2>2, <2>3, <2>4, <2>5, NotBilledKeeps DEF Closed
  <2>7. \A j \in Ids : Kept(attempt[j], attempt'[j]) \/ Closed(j)
      BY <2>4, <2>6 DEF Kept
  <2>8. \A v \in Workers : CallMoves(v)
      BY <1>2, CallsStep
  <2> QED
      BY <1>2, <2>4, <2>7, <2>8, QuietRows
<1> QED
    BY <1>3, <1>4

\* A claim takes a live reservation for its caller, or returns.
LEMMA ClaimStep ==
    ASSUME Research!ResearchConstants, Research!ResearchSafe, NEW w \in Workers, Research!claimAttempt(w)
    PROVE  Research!ResearchSafe'
<1>1. Research!TypeOK /\ Research!OwnersHold /\ Research!RowsInOrder
    BY DEF Research!ResearchSafe
<1>2. UNCHANGED <<cache, scope, allowed, window, backup, searches, floor>> /\ call[w].pc = "claim"
    BY DEF Research!claimAttempt
<1>3. CASE Research!Return(w) /\ (attempt' = attempt \/ attempt' = Research!reconcile(attempt))
  <2>1. /\ call' \in [Workers -> Research!Call] /\ CallMoves(w)
        /\ \A v \in Workers \ {w} : call'[v] = call[v]
      BY <1>1, <1>3, Returned
  <2> QED
      BY <1>2, <1>3, <2>1, CallerStep
<1>4. CASE /\ Research!Row(w).phase = "reserved" /\ Research!Row(w).live
           /\ attempt' = [Research!reconcile(attempt) EXCEPT ![call[w].id].token = w]
           /\ Research!Goto(w, "dispatch")
  <2>1. PICK k \in Ids : k = call[w].id
      BY <1>1, <1>2 DEF Research!OwnersHold
  <2>2. PICK a \in Research!Attempt : a = attempt[k]
      BY <1>1 DEF Research!TypeOK
  <2>3. PICK rows \in [Ids -> Research!Attempt] : rows = Research!reconcile(attempt)
      BY <1>1, ReconcileKeeps DEF Research!TypeOK
  <2>4. /\ a.phase = "reserved" /\ rows[k] = a /\ \A j \in Ids : Kept(attempt[j], rows[j])
      BY <1>1, <1>4, <2>1, <2>2, <2>3, ReconcileKeeps DEF Research!TypeOK, Research!Row
  <2>5. /\ [a EXCEPT !.token = w] \in Research!Attempt /\ Kept(a, [a EXCEPT !.token = w])
        /\ [a EXCEPT !.token = w].launched = a.launched
      BY <2>4 DEF Research!Attempt, Kept
  <2>6. /\ attempt' \in [Ids -> Research!Attempt] /\ attempt'[k] = [a EXCEPT !.token = w]
        /\ \A j \in Ids \ {k} : attempt'[j] = rows[j]
    <3>1. attempt' = [rows EXCEPT ![k] = [a EXCEPT !.token = w]]
        BY <1>4, <2>1, <2>3, <2>4
    <3> QED
        BY <2>5, <3>1
  <2>7. \A j \in Ids : Kept(attempt[j], attempt'[j])
      BY <2>2, <2>4, <2>5, <2>6
  <2>8. ~attempt'[k].launched
      BY <1>1, <2>2, <2>4, <2>5, <2>6 DEF Research!RowsInOrder
  <2>9. /\ call' \in [Workers -> Research!Call] /\ \A v \in Workers \ {w} : call'[v] = call[v]
        /\ call'[w].pc = "dispatch" /\ call'[w].id = k
      BY <1>1, <1>4, <2>1, Went
  <2>10. CallMoves(w)
      BY <2>8, <2>9 DEF CallMoves, Leaving
  <2>11. \A v \in Workers : CallMoves(v)
      BY <2>9, <2>10, CallsStep
  <2> QED
      BY <1>2, <2>6, <2>7, <2>9, <2>11, QuietRows
<1> QED
    BY <1>3, <1>4 DEF Research!claimAttempt

\* What a step that reserves, launches or sends keeps beside its own bound.
LEMMA LoudStep ==
    ASSUME Research!ResearchConstants, Research!ResearchSafe, attempt' \in [Ids -> Research!Attempt],
           \A k \in Ids : RowMoves(k), call' \in [Workers -> Research!Call],
           \A w \in Workers : CallMoves(w), searches' \in [Research!Windows -> Nat],
           UNCHANGED <<cache, scope, allowed, window, backup, floor>>
    PROVE  /\ Research!TypeOK' /\ Research!OwnersHold' /\ Research!RowsInOrder'
           /\ Research!ErasedStaysErased'
           /\ /\ Research!EverySendPaid'
              /\ Cardinality(Research!Running(attempt)') <= MaxRunning
              /\ \A d \in Research!Windows : d <= scope.hold => searches'[d] = searches[d]
              => Research!ResearchSafe'
<1>1. /\ Research!TypeOK /\ Research!ErasedStaysErased /\ Research!RowsInOrder
    BY DEF Research!ResearchSafe
<1>2. Research!TypeOK'
    BY <1>1 DEF Research!TypeOK
<1>3. Research!OwnersHold'
    BY <1>2, OwnersStep
<1>4. window <= window' /\ floor' <= scope'.gen
    BY <1>1 DEF Research!RowsInOrder, Research!TypeOK, Research!Windows, Research!ResearchConstants
<1>5. Research!RowsInOrder'
    BY <1>2, <1>4, RowsStep
<1>6. Research!ErasedStaysErased'
    BY <1>1 DEF Research!ErasedStaysErased
<1>7. ASSUME Research!EverySendPaid', Cardinality(Research!Running(attempt)') <= MaxRunning,
             \A d \in Research!Windows : d <= scope.hold => searches'[d] = searches[d]
      PROVE  Research!ResearchSafe'
  <2>1. Research!SendsWithinCap' /\ Research!LaunchesBounded'
      BY <1>2, <1>3, <1>7, Bounded
  <2> QED
      BY <1>2, <1>3, <1>5, <1>6, <1>7, <2>1 DEF Research!ResearchSafe
<1> QED
    BY <1>2, <1>3, <1>5, <1>6, <1>7

\* The dispatch mark admits one more running search below the limit.
LEMMA LaunchStep ==
    ASSUME Research!ResearchConstants, Research!ResearchSafe, NEW w \in Workers,
           Research!dispatchAttempt(w)
    PROVE  Research!ResearchSafe'
<1>1. Research!TypeOK /\ Research!OwnersHold /\ Research!RowsInOrder
    BY DEF Research!ResearchSafe
<1>2. UNCHANGED <<cache, scope, allowed, window, backup, searches, floor>> /\ call[w].pc = "dispatch"
    BY DEF Research!dispatchAttempt
<1>3. PICK k \in Ids : k = call[w].id
    BY <1>1, <1>2 DEF Research!OwnersHold
<1>4. CASE Research!Goto(w, "release") /\ (attempt' = attempt \/ attempt' = Research!reconcile(attempt))
  <2>1. /\ call' \in [Workers -> Research!Call] /\ \A v \in Workers \ {w} : call'[v] = call[v]
        /\ call'[w].pc = "release" /\ call'[w].id = call[w].id
      BY <1>1, <1>4, Went
  <2>2. CallMoves(w)
      BY <1>2, <1>3, <2>1 DEF CallMoves, Leaving
  <2> QED
      BY <1>2, <1>4, <2>1, <2>2, CallerStep
<1>5. CASE /\ Research!Row(w).phase = "reserved" /\ Research!Row(w).token = w /\ Research!Row(w).live
           /\ Research!Cardinality(Research!Running(Research!reconcile(attempt))) < MaxRunning
           /\ attempt' = [Research!reconcile(attempt) EXCEPT ![call[w].id].phase = "dispatched",
                                                             ![call[w].id].launched = TRUE]
           /\ Research!Goto(w, "egress")
  <2>2. PICK a \in Research!Attempt : a = attempt[k]
      BY <1>1 DEF Research!TypeOK
  <2>3. PICK rows \in [Ids -> Research!Attempt] : rows = Research!reconcile(attempt)
      BY <1>1, ReconcileKeeps DEF Research!TypeOK
  <2>4. /\ a.phase = "reserved" /\ a.token = w /\ rows[k] = a
        /\ \A j \in Ids : Kept(attempt[j], rows[j])
      BY <1>1, <1>3, <1>5, <2>2, <2>3, ReconcileKeeps DEF Research!TypeOK, Research!Row
  <2> DEFINE b == [a EXCEPT !.phase = "dispatched", !.launched = TRUE]
  <2>5. /\ b \in Research!Attempt /\ b.phase = "dispatched" /\ b.launched /\ b.window = a.window
        /\ b.token = a.token /\ b.outcome = a.outcome
      BY DEF Research!Attempt, Research!Phases
  <2>6. attempt' = [rows EXCEPT ![k] = b]
      BY <1>3, <1>5, <2>3, <2>4 DEF Research!Attempt
  <2> HIDE DEF b
  <2>7. /\ attempt' \in [Ids -> Research!Attempt] /\ attempt'[k] = b
        /\ \A j \in Ids \ {k} : attempt'[j] = rows[j]
      BY <2>5, <2>6
  <2>8. /\ call' \in [Workers -> Research!Call] /\ \A v \in Workers \ {w} : call'[v] = call[v]
        /\ call'[w].pc = "egress" /\ call'[w].id = k
      BY <1>1, <1>3, <1>5, Went
  <2>9. a.window > scope.hold /\ a.outcome = "none"
      BY <1>1, <2>2, <2>4 DEF Research!RowsInOrder
  <2>10. Launched(k) /\ CallMoves(w)
      BY <1>2, <1>3, <2>2, <2>4, <2>5, <2>7, <2>8, <2>9 DEF Launched, CallMoves, Leaving
  <2>11. \A j \in Ids : RowMoves(j) /\ ~Fresh(j)
    <3> SUFFICES ASSUME NEW j \in Ids PROVE RowMoves(j) /\ ~Fresh(j)
        OBVIOUS
    <3>1. CASE j = k
        BY <2>2, <2>4, <2>10, <3>1 DEF RowMoves, Fresh
    <3>2. CASE j # k
        BY <2>4, <2>7, <3>2 DEF RowMoves, Fresh, Kept
    <3> QED
        BY <3>1, <3>2
  <2>12. \A v \in Workers : CallMoves(v)
      BY <2>8, <2>10, CallsStep
  <2>13. searches' \in [Research!Windows -> Nat]
      BY <1>1, <1>2 DEF Research!TypeOK
  <2>14. Research!TypeOK'
      BY <1>2, <2>7, <2>8, <2>11, <2>12, <2>13, LoudStep
  <2>15. Cardinality(Research!Running(attempt)') <= MaxRunning
    <3> DEFINE S == Research!Running(rows)
    <3>1. S \in SUBSET Ids /\ Research!Running(attempt)' \subseteq S \cup {k}
        BY <2>7 DEF Research!Running
    <3>2. Cardinality(S) < MaxRunning
        BY <1>5, <2>3, SameResearchCount
    <3> HIDE DEF S
    <3>3. /\ IsFiniteSet(S) /\ S \cup {k} \in SUBSET Ids /\ Research!Running(attempt)' \in SUBSET Ids
        BY <3>1, SizeOfIds
    <3>4. /\ Cardinality(S \cup {k}) <= Cardinality(S) + 1 /\ Cardinality(S) \in Nat
          /\ Cardinality(S \cup {k}) \in Nat
        BY <3>3, AddedElement
    <3>5. /\ Cardinality(Research!Running(attempt)') <= Cardinality(S \cup {k})
          /\ Cardinality(Research!Running(attempt)') \in Nat
        BY <3>1, <3>3, SizeOfIds
    <3> QED
        BY <3>2, <3>4, <3>5 DEF Research!ResearchConstants
  <2>16. Research!EverySendPaid'
      BY <1>2, <2>11, <2>12, <2>14, PaidStep, SameResearchCount DEF Research!EverySendPaid
  <2> QED
      BY <1>2, <2>7, <2>8, <2>11, <2>12, <2>13, <2>15, <2>16, LoudStep
<1> QED
    BY <1>4, <1>5 DEF Research!dispatchAttempt

\* The request leaves: the attempt begins to pay for it.
LEMMA SendStep ==
    ASSUME Research!ResearchConstants, Research!ResearchSafe, NEW w \in Workers, Research!egress(w)
    PROVE  Research!ResearchSafe'
<1>1. Research!TypeOK /\ Research!OwnersHold /\ None \notin Workers
    BY DEF Research!ResearchSafe, Research!ResearchConstants
<1>2. UNCHANGED <<attempt, cache, scope, allowed, window, backup, floor>> /\ call[w].pc = "egress"
    BY DEF Research!egress
<1>3. PICK k \in Ids : k = call[w].id
    BY <1>1, <1>2 DEF Research!OwnersHold
<1>4. /\ attempt[k].token = w /\ attempt[k].launched /\ attempt[k].outcome = "none"
      /\ attempt[k].phase \in {"dispatched", "uncertain"} /\ attempt[k].window > scope.hold
      /\ attempt[k].window \in Research!Windows
    BY <1>1, <1>2, <1>3 DEF Research!OwnersHold, Research!Row, Research!TypeOK, Research!Attempt
<1>5. CASE Research!Goto(w, "release") /\ UNCHANGED searches
  <2>1. /\ call' \in [Workers -> Research!Call] /\ \A v \in Workers \ {w} : call'[v] = call[v]
        /\ call'[w].pc = "release" /\ call'[w].id = call[w].id
      BY <1>1, <1>5, Went
  <2>2. CallMoves(w)
      BY <1>2, <1>3, <2>1 DEF CallMoves, Leaving
  <2> QED
      BY <1>2, <1>5, <2>1, <2>2, CallerStep
<1>6. CASE /\ call' = [call EXCEPT ![w].pc = "finish", ![w].result = "not_dispatched"]
           /\ UNCHANGED searches
  <2>1. /\ call' \in [Workers -> Research!Call] /\ \A v \in Workers \ {w} : call'[v] = call[v]
        /\ call'[w].pc = "finish" /\ call'[w].id = call[w].id
    <3>1. PICK c \in Research!Call : c = call[w]
        BY <1>1 DEF Research!TypeOK
    <3>2. /\ [c EXCEPT !.pc = "finish", !.result = "not_dispatched"] \in Research!Call
          /\ [c EXCEPT !.pc = "finish", !.result = "not_dispatched"].pc = "finish"
          /\ [c EXCEPT !.pc = "finish", !.result = "not_dispatched"].id = c.id
        BY DEF Research!Call
    <3>3. /\ call' = [call EXCEPT ![w] = [c EXCEPT !.pc = "finish", !.result = "not_dispatched"]]
          /\ call \in [Workers -> Research!Call]
        BY <1>1, <1>6, <3>1 DEF Research!TypeOK, Research!Call
    <3> QED
        BY <3>1, <3>2, <3>3
  <2>2. CallMoves(w)
      BY <1>2, <1>3, <2>1 DEF CallMoves, Leaving
  <2> QED
      BY <1>2, <1>6, <2>1, <2>2, CallerStep
<1>7. CASE /\ Research!Goto(w, "calling")
           /\ searches' = [searches EXCEPT ![attempt[k].window] = @ + 1]
  <2>1. /\ call' \in [Workers -> Research!Call] /\ \A v \in Workers \ {w} : call'[v] = call[v]
        /\ call'[w].pc = "calling" /\ call'[w].id = call[w].id
      BY <1>1, <1>7, Went
  <2>2. CallMoves(w)
      BY <1>2, <1>3, <2>1 DEF CallMoves, Leaving
  <2>3. \A v \in Workers : CallMoves(v)
      BY <2>1, <2>2, CallsStep
  <2>4. attempt' \in [Ids -> Research!Attempt] /\ \A j \in Ids : RowMoves(j) /\ ~Fresh(j)
      BY <1>1, <1>2 DEF Research!TypeOK, RowMoves, Kept, Fresh
  <2>5. PICK n \in Research!Windows : n = attempt[k].window
      BY <1>4
  <2>6. /\ searches' \in [Research!Windows -> Nat] /\ searches'[n] = searches[n] + 1
        /\ \A d \in Research!Windows \ {n} : searches'[d] = searches[d]
        /\ searches[n] \in Nat
      BY <1>1, <1>7, <2>5 DEF Research!TypeOK
  <2>7. Research!TypeOK'
      BY <1>2, <2>1, <2>3, <2>4, <2>6, LoudStep
  <2>8. searches'[n] <= Cardinality(Research!Paying(n)')
    <3>1. k \notin Research!Paying(n)
        BY <1>2, <1>3, <1>4 DEF Research!Paying, Research!Unsent
    <3>2. k \in Research!Paying(n)'
        BY <1>2, <1>4, <2>1, <2>5 DEF Research!Paying, Research!Counted, Research!Unsent
    <3>3. Research!Paying(n) \subseteq Research!Paying(n)'
        BY <2>3, <2>4, PayingStep
    <3>4. /\ Research!Paying(n) \in SUBSET Ids /\ Research!Paying(n)' \in SUBSET Ids
          /\ Research!Paying(n) \cup {k} \in SUBSET Ids
        BY DEF Research!Paying, Research!Counted
    <3>5. /\ Cardinality(Research!Paying(n) \cup {k}) = Cardinality(Research!Paying(n)) + 1
          /\ Cardinality(Research!Paying(n)) \in Nat
        BY <3>1, <3>4, SizeOfIds, AddedElement
    <3>6. /\ Cardinality(Research!Paying(n) \cup {k}) <= Cardinality(Research!Paying(n)')
          /\ Cardinality(Research!Paying(n)') \in Nat
        BY <3>2, <3>3, <3>4, SizeOfIds
    <3>7. searches[n] <= Cardinality(Research!Paying(n))
        BY <1>4, <2>5, SameResearchCount DEF Research!ResearchSafe, Research!EverySendPaid
    <3> QED
        BY <2>6, <3>5, <3>6, <3>7
  <2>9. Research!EverySendPaid'
    <3> SUFFICES ASSUME NEW d \in Research!Windows, d > scope.hold
                 PROVE  /\ searches'[d] <= Cardinality(Research!Paying(d)')
                        /\ Cardinality(Research!Counted(attempt, d)') <= Cap
        BY <1>2, SameResearchCount DEF Research!EverySendPaid
    <3>1. /\ searches[d] <= Cardinality(Research!Paying(d)')
          /\ Cardinality(Research!Counted(attempt, d)') <= Cap
        BY <2>3, <2>4, <2>7, PaidStep
    <3> QED
        BY <2>6, <2>8, <3>1
  <2>10. \A d \in Research!Windows : d <= scope.hold => searches'[d] = searches[d]
    <3>1. n > scope.hold /\ n \in Nat /\ scope.hold \in Nat
        BY <1>1, <1>4, <2>5 DEF Research!TypeOK, Research!Windows, Research!ResearchConstants
    <3> QED
        BY <2>6, <3>1
  <2>11. Cardinality(Research!Running(attempt)') <= MaxRunning
    <3>1. Research!Running(attempt)' = Research!Running(attempt)
        BY <1>2 DEF Research!Running
    <3>2. Cardinality(Research!Running(attempt)) <= MaxRunning
        BY SameResearchCount DEF Research!ResearchSafe, Research!LaunchesBounded
    <3> QED
        BY <3>1, <3>2
  <2> QED
      BY <1>2, <2>1, <2>3, <2>4, <2>6, <2>9, <2>10, <2>11, LoudStep
<1> QED
    BY <1>3, <1>5, <1>6, <1>7 DEF Research!egress, Research!Row

LEMMA BlankRow ==
    ASSUME Research!ResearchConstants
    PROVE  /\ Research!Blank \in Research!Attempt /\ ~Research!Blank.launched
           /\ Research!Blank.outcome = "none" /\ Research!Blank.phase = "none"
           /\ Research!Blank.window = 1 /\ ~Research!Blank.live
<1>1. 1 \in Research!Windows /\ 0 \in 0..MaxGen
    BY DEF Research!Windows, Research!ResearchConstants
<1> QED
    BY <1>1 DEF Research!Blank, Research!Attempt, Research!Phases

\* A request is admitted to its own attempt, or to a new one below the window's cap.
LEMMA ReserveStep ==
    ASSUME Research!ResearchConstants, Research!ResearchSafe, NEW w \in Workers, NEW k \in Ids,
           Research!research(w, k)
    PROVE  Research!ResearchSafe'
<1>1. Research!TypeOK /\ Research!RowsInOrder
    BY DEF Research!ResearchSafe
<1>2. /\ UNCHANGED <<cache, scope, allowed, window, backup, searches, floor>> /\ call[w].pc = "idle"
      /\ scope.hold < window
    BY DEF Research!research
<1> DEFINE admitted == call' = [call EXCEPT ![w] = [Research!Idle EXCEPT
                            !.pc = "claim", !.id = k, !.gen = scope.gen, !.valid = TRUE]]
<1>3. ASSUME admitted
      PROVE  /\ call' \in [Workers -> Research!Call] /\ \A v \in Workers \ {w} : call'[v] = call[v]
             /\ CallMoves(w)
  <2> DEFINE c == [Research!Idle EXCEPT !.pc = "claim", !.id = k, !.gen = scope.gen, !.valid = TRUE]
  <2>1. c \in Research!Call /\ c.pc = "claim" /\ c.id = k
    <3>1. PICK g \in 0..MaxGen : g = scope.gen
        BY <1>1 DEF Research!TypeOK
    <3>0. Research!Idle \in Research!Call
        BY DEF Research!Idle, Research!Call, Research!ResearchConstants
    <3>2. PICK i \in Research!Call : i = Research!Idle
        BY <3>0
    <3>3. /\ [i EXCEPT !.pc = "claim", !.id = k, !.gen = g, !.valid = TRUE] \in Research!Call
          /\ [i EXCEPT !.pc = "claim", !.id = k, !.gen = g, !.valid = TRUE].pc = "claim"
          /\ [i EXCEPT !.pc = "claim", !.id = k, !.gen = g, !.valid = TRUE].id = k
        BY DEF Research!Call
    <3> QED
        BY <3>1, <3>2, <3>3
  <2>2. call' = [call EXCEPT ![w] = c] /\ call \in [Workers -> Research!Call]
      BY <1>1, <1>3 DEF Research!TypeOK
  <2> HIDE DEF c
  <2> QED
      BY <2>1, <2>2 DEF CallMoves, Leaving
<1>4. CASE attempt' = Research!reconcile(attempt) /\ admitted
    BY <1>2, <1>3, <1>4, CallerStep
<1>5. CASE attempt' = Research!reconcile(attempt) /\ UNCHANGED call
  <2>1. call' \in [Workers -> Research!Call] /\ \A v \in Workers : CallMoves(v)
      BY <1>1, <1>5, SameCalls DEF Research!TypeOK
  <2> QED
      BY <1>1, <1>2, <1>5, <2>1, Swept, QuietRows
<1>6. CASE /\ attempt[k].phase = "none" /\ admitted
           /\ Research!Cardinality(Research!Counted(Research!reconcile(attempt), window)) < Cap
           /\ attempt' = [Research!reconcile(attempt) EXCEPT ![k] = [Research!Blank EXCEPT
                             !.phase = "reserved", !.live = TRUE, !.gen = scope.gen, !.window = window]]
  <2> DEFINE b == [Research!Blank EXCEPT !.phase = "reserved", !.live = TRUE, !.gen = scope.gen,
                                         !.window = window]
  <2>1. /\ b \in Research!Attempt /\ b.phase = "reserved" /\ b.window = window
        /\ ~b.launched /\ b.outcome = "none"
    <3>1. PICK g \in 0..MaxGen : g = scope.gen
        BY <1>1 DEF Research!TypeOK
    <3>2. PICK n \in Research!Windows : n = window
        BY <1>1 DEF Research!TypeOK
    <3>0. /\ Research!Blank \in Research!Attempt /\ ~Research!Blank.launched
          /\ Research!Blank.outcome = "none"
        BY BlankRow
    <3>3. PICK i \in Research!Attempt : i = Research!Blank /\ ~i.launched /\ i.outcome = "none"
        BY <3>0
    <3> DEFINE r == [i EXCEPT !.phase = "reserved", !.live = TRUE, !.gen = g, !.window = n]
    <3>4. /\ r \in Research!Attempt /\ r.phase = "reserved" /\ r.window = n
          /\ r.launched = i.launched /\ r.outcome = i.outcome
        BY DEF Research!Attempt, Research!Phases
    <3> QED
        BY <3>1, <3>2, <3>3, <3>4
  <2>2. PICK rows \in [Ids -> Research!Attempt] : rows = Research!reconcile(attempt)
      BY <1>1, ReconcileKeeps DEF Research!TypeOK
  <2>3. \A j \in Ids : Kept(attempt[j], rows[j])
      BY <1>1, <2>2, ReconcileKeeps DEF Research!TypeOK
  <2>4. attempt' = [rows EXCEPT ![k] = b]
      BY <1>6, <2>2
  <2> HIDE DEF b
  <2>5. /\ attempt' \in [Ids -> Research!Attempt] /\ attempt'[k] = b
        /\ \A j \in Ids \ {k} : attempt'[j] = rows[j]
      BY <2>1, <2>4
  <2>6. \A j \in Ids : RowMoves(j) /\ ~Launched(j)
    <3> SUFFICES ASSUME NEW j \in Ids PROVE RowMoves(j) /\ ~Launched(j)
        OBVIOUS
    <3>1. CASE j = k
        BY <1>2, <1>6, <2>1, <2>5, <3>1 DEF RowMoves, Fresh, Launched
    <3>2. CASE j # k
        BY <2>3, <2>5, <3>2 DEF RowMoves, Launched, Kept
    <3> QED
        BY <3>1, <3>2
  <2>7. /\ call' \in [Workers -> Research!Call] /\ \A v \in Workers : CallMoves(v)
    <3>1. /\ call' \in [Workers -> Research!Call] /\ \A v \in Workers \ {w} : call'[v] = call[v]
          /\ CallMoves(w)
        BY <1>3, <1>6
    <3> QED
        BY <3>1, CallsStep
  <2>8. searches' \in [Research!Windows -> Nat]
      BY <1>1, <1>2 DEF Research!TypeOK
  <2>9. Research!TypeOK'
      BY <1>2, <2>5, <2>6, <2>7, <2>8, LoudStep
  <2>10. Cardinality(Research!Running(attempt)') <= MaxRunning
    <3>1. Research!Running(attempt)' \in SUBSET Ids /\ Research!Running(attempt) \in SUBSET Ids
        BY DEF Research!Running
    <3>2. Research!Running(attempt)' \subseteq Research!Running(attempt)
        BY <1>1, <2>6, <2>9, <3>1, CountedStep
    <3>3. /\ Cardinality(Research!Running(attempt)') <= Cardinality(Research!Running(attempt))
          /\ Cardinality(Research!Running(attempt)) \in Nat
          /\ Cardinality(Research!Running(attempt)') \in Nat /\ MaxRunning \in Nat
        BY <3>1, <3>2, SizeOfIds DEF Research!ResearchConstants
    <3>4. Cardinality(Research!Running(attempt)) <= MaxRunning
        BY SameResearchCount DEF Research!ResearchSafe, Research!LaunchesBounded
    <3> QED
        BY <3>3, <3>4
  <2>11. ASSUME NEW d \in Research!Windows, d > scope.hold
         PROVE  Cardinality(Research!Counted(attempt, d)') <= Cap
    <3>0. Research!Counted(attempt, d)' \in SUBSET Ids /\ Cap \in Nat
        BY DEF Research!Counted, Research!ResearchConstants
    <3>1. CASE d = window
      <4> DEFINE S == Research!Counted(rows, window)
      <4>1. S \in SUBSET Ids /\ Research!Counted(attempt, d)' \subseteq S \cup {k}
          BY <2>5, <3>1 DEF Research!Counted
      <4>2. Cardinality(S) < Cap
          BY <1>6, <2>2, SameResearchCount
      <4> HIDE DEF S
      <4>3. IsFiniteSet(S) /\ S \cup {k} \in SUBSET Ids
          BY <4>1, SizeOfIds
      <4>4. /\ Cardinality(S \cup {k}) <= Cardinality(S) + 1 /\ Cardinality(S) \in Nat
            /\ Cardinality(S \cup {k}) \in Nat
          BY <4>3, AddedElement
      <4>5. /\ Cardinality(Research!Counted(attempt, d)') <= Cardinality(S \cup {k})
            /\ Cardinality(Research!Counted(attempt, d)') \in Nat
          BY <3>0, <4>1, <4>3, SizeOfIds
      <4> QED
          BY <3>0, <4>2, <4>4, <4>5
    <3>2. CASE d # window
      <4>1. Research!Counted(attempt, d)' \subseteq Research!Counted(attempt, d)
        <5> SUFFICES ASSUME NEW j \in Research!Counted(attempt, d)'
                     PROVE  j \in Research!Counted(attempt, d)
            OBVIOUS
        <5>1. j \in Ids /\ attempt'[j].window = d
            BY DEF Research!Counted
        <5>2. ~Fresh(j)
            BY <3>2, <5>1 DEF Fresh
        <5> QED
            BY <1>1, <2>6, <2>9, <5>1, <5>2, CountedStep
      <4>2. Research!Counted(attempt, d) \in SUBSET Ids
          BY DEF Research!Counted
      <4>3. /\ Cardinality(Research!Counted(attempt, d)') <= Cardinality(Research!Counted(attempt, d))
            /\ Cardinality(Research!Counted(attempt, d)) \in Nat
            /\ Cardinality(Research!Counted(attempt, d)') \in Nat
          BY <3>0, <4>1, <4>2, SizeOfIds
      <4>4. Cardinality(Research!Counted(attempt, d)) <= Cap
          BY <2>11, SameResearchCount DEF Research!ResearchSafe, Research!EverySendPaid
      <4> QED
          BY <3>0, <4>3, <4>4
    <3> QED
        BY <3>1, <3>2
  <2>12. Research!EverySendPaid'
    <3>1. ASSUME NEW d \in Research!Windows, d > scope.hold
          PROVE  searches'[d] <= Cardinality(Research!Paying(d)')
        BY <1>2, <2>6, <2>7, <2>9, <3>1, PaidStep
    <3> QED
        BY <1>2, <2>11, <3>1, SameResearchCount DEF Research!EverySendPaid
  <2> QED
      BY <1>2, <2>5, <2>6, <2>7, <2>8, <2>10, <2>12, LoudStep
<1> QED
    BY <1>4, <1>5, <1>6 DEF Research!research

\* The provider's answer, and what is kept of it.
LEMMA AnswerStep ==
    ASSUME Research!ResearchConstants, Research!ResearchSafe, NEW w \in Workers,
           Research!answer(w) \/ Research!Invalidate(w) \/ Research!Crash(w)
    PROVE  Research!ResearchSafe'
<1>1. Research!TypeOK /\ Research!OwnersHold
    BY DEF Research!ResearchSafe
<1>2. PICK c \in Research!Call : c = call[w]
    BY <1>1 DEF Research!TypeOK
<1>3. call \in [Workers -> Research!Call] /\ (c.pc # "idle" => c.id \in Ids)
    BY <1>1, <1>2 DEF Research!TypeOK, Research!OwnersHold
<1>4. CASE Research!answer(w)
  <2>1. PICK r \in {"ok", "uncertain"} : call' = [call EXCEPT ![w].pc = "finish", ![w].result = r]
      BY <1>4 DEF Research!answer
  <2> DEFINE e == [c EXCEPT !.pc = "finish", !.result = r]
  <2>2. e \in Research!Call /\ e.pc = "finish" /\ e.id = c.id /\ e.result = r
      BY DEF Research!Call
  <2>3. call' = [call EXCEPT ![w] = e]
      BY <1>2, <1>3, <2>1 DEF Research!Call
  <2> HIDE DEF e
  <2>4. /\ call' \in [Workers -> Research!Call] /\ call'[w] = e
        /\ \A v \in Workers \ {w} : call'[v] = call[v]
      BY <1>3, <2>2, <2>3
  <2>5. c.pc = "calling"
      BY <1>2, <1>4 DEF Research!answer
  <2>6. CallMoves(w)
      BY <1>2, <1>3, <2>2, <2>4, <2>5 DEF CallMoves, Leaving
  <2>7. attempt' = attempt /\ UNCHANGED <<cache, scope, allowed, window, backup, searches, floor>>
      BY <1>4 DEF Research!answer
  <2> QED
      BY <2>4, <2>6, <2>7, CallerStep
<1>5. CASE Research!Invalidate(w)
  <2> DEFINE e == [c EXCEPT !.valid = FALSE]
  <2>2. e \in Research!Call /\ e.pc = c.pc /\ e.id = c.id /\ e.result = c.result
      BY DEF Research!Call
  <2>3. call' = [call EXCEPT ![w] = e]
      BY <1>2, <1>3, <1>5 DEF Research!Invalidate
  <2> HIDE DEF e
  <2>4. /\ call' \in [Workers -> Research!Call] /\ call'[w] = e
        /\ \A v \in Workers \ {w} : call'[v] = call[v]
      BY <1>3, <2>2, <2>3
  <2>5. CallMoves(w)
      BY <1>2, <1>3, <2>2, <2>4 DEF CallMoves, Leaving
  <2>6. attempt' = attempt /\ UNCHANGED <<cache, scope, allowed, window, backup, searches, floor>>
      BY <1>5 DEF Research!Invalidate
  <2> QED
      BY <2>4, <2>5, <2>6, CallerStep
<1>6. CASE Research!Crash(w)
  <2>1. attempt' = attempt /\ UNCHANGED <<cache, scope, allowed, window, backup, searches, floor>>
      BY <1>6 DEF Research!Crash
  <2>2. /\ call' \in [Workers -> Research!Call] /\ CallMoves(w)
        /\ \A v \in Workers \ {w} : call'[v] = call[v]
      BY <1>1, <1>6, Returned DEF Research!Crash
  <2> QED
      BY <2>1, <2>2, CallerStep
<1> QED
    BY <1>4, <1>5, <1>6

LEMMA FinishStep ==
    ASSUME Research!ResearchConstants, Research!ResearchSafe, NEW w \in Workers,
           Research!finish(w) \/ Research!settle(w)
    PROVE  Research!ResearchSafe'
<1>1. /\ Research!TypeOK /\ Research!OwnersHold /\ Research!ErasedStaysErased /\ Research!RowsInOrder
    BY DEF Research!ResearchSafe
<1>2. CASE Research!settle(w)
    BY <1>2, SettleStep DEF Research!settle
<1>3. CASE /\ call[w].pc = "finish" /\ call[w].result = "not_dispatched"
           /\ Research!settleAttempt(w, "known_failed", "not_billed")
           /\ Research!Return(w) /\ UNCHANGED <<cache, scope, allowed, window, backup, searches, floor>>
    BY <1>3, SettleStep
<1>4. CASE /\ call[w].pc = "finish" /\ Research!settleAttempt(w, "uncertain", "uncertain")
           /\ Research!Return(w) /\ UNCHANGED <<cache, scope, allowed, window, backup, searches, floor>>
    BY <1>4, SettleStep
<1>5. CASE /\ Research!Return(w)
           /\ UNCHANGED <<attempt, cache, scope, allowed, window, backup, searches, floor>>
  <2>1. /\ call' \in [Workers -> Research!Call] /\ CallMoves(w)
        /\ \A v \in Workers \ {w} : call'[v] = call[v]
      BY <1>1, <1>5, Returned
  <2> QED
      BY <1>5, <2>1, CallerStep
<1>6. CASE /\ call[w].pc = "finish" /\ Research!putCache(w) /\ Research!Goto(w, "settle")
           /\ cache' = [cache EXCEPT ![SearchKey[call[w].id]] = call[w].gen]
           /\ UNCHANGED <<attempt, scope, allowed, window, backup, searches, floor>>
  <2>1. /\ call' \in [Workers -> Research!Call] /\ call'[w].pc = "settle" /\ call'[w].id = call[w].id
        /\ \A v \in Workers \ {w} : call'[v] = call[v]
      BY <1>1, <1>6, Went
  <2>2. CallMoves(w)
      BY <1>1, <1>6, <2>1 DEF CallMoves, Leaving, Research!OwnersHold
  <2>3. \A v \in Workers : CallMoves(v)
      BY <2>1, <2>2, CallsStep
  <2>4. PICK g \in 0..MaxGen : g = call[w].gen
      BY <1>1 DEF Research!TypeOK, Research!Call
  <2>5. /\ cache \in [Research!Keys -> 0..MaxGen]
        /\ cache' = [cache EXCEPT ![SearchKey[call[w].id]] = g]
      BY <1>1, <1>6, <2>4 DEF Research!TypeOK
  <2>6. Research!TypeOK'
    <3>1. cache' \in [Research!Keys -> 0..MaxGen]
        BY <2>5
    <3> QED
        BY <1>1, <1>6, <2>1, <3>1 DEF Research!TypeOK
  <2>7. g = scope.gen /\ floor <= g
      BY <1>1, <1>6, <2>4
         DEF Research!putCache, Research!admittedAttempt, Research!permitted, Research!RowsInOrder
  <2>8. Research!ErasedStaysErased'
    <3>1. g >= floor
        BY <1>1, <2>7 DEF Research!TypeOK, Research!ResearchConstants
    <3> QED
        BY <1>1, <1>6, <2>5, <3>1 DEF Research!ErasedStaysErased
  <2>9. \A k \in Ids : Kept(attempt[k], attempt'[k]) /\ RowMoves(k)
      BY <1>6 DEF Kept, RowMoves
  <2>10. window <= window' /\ floor' <= scope'.gen
      BY <1>1, <1>6 DEF Research!RowsInOrder, Research!TypeOK, Research!Windows, Research!ResearchConstants
  <2>11. Research!RowsInOrder'
      BY <1>6, <2>6, <2>9, <2>10, RowsStep
  <2> QED
      BY <1>6, <2>3, <2>6, <2>8, <2>9, <2>11, QuietStep
<1> QED
    BY <1>2, <1>3, <1>4, <1>5, <1>6 DEF Research!finish

\* A new policy, a deletion, a sweep, an acknowledgement, a lapsed lease and a new window.
LEMMA ScopeStep ==
    ASSUME Research!ResearchConstants, Research!ResearchSafe,
           attempt' \in [Ids -> Research!Attempt], \A k \in Ids : Kept(attempt[k], attempt'[k]),
           cache' \in [Research!Keys -> 0..MaxGen], Research!ErasedStaysErased',
           scope' \in [gen : 0..MaxGen, pending : BOOLEAN, hold : 0..MaxWindow, unresolved : BOOLEAN],
           scope'.hold = scope.hold, floor' \in 0..MaxGen, floor' <= scope'.gen,
           allowed' \in BOOLEAN, window' \in Research!Windows, window <= window',
           UNCHANGED <<backup, call, searches>>
    PROVE  Research!ResearchSafe'
<1>1. Research!TypeOK
    BY DEF Research!ResearchSafe
<1>2. Research!TypeOK'
    BY <1>1 DEF Research!TypeOK
<1>3. \A k \in Ids : RowMoves(k)
    BY DEF RowMoves
<1>4. Research!RowsInOrder'
    BY <1>2, <1>3, RowsStep
<1> QED
    BY <1>2, <1>4, SameCalls, QuietStep

LEMMA PolicyStep ==
    ASSUME Research!ResearchConstants, Research!ResearchSafe,
           \/ \E mode \in BOOLEAN : Research!setPolicy(mode)
           \/ Research!purge
    PROVE  Research!ResearchSafe'
<1>1. /\ Research!TypeOK /\ Research!ErasedStaysErased /\ Research!RowsInOrder
    BY DEF Research!ResearchSafe
<1>2. /\ attempt \in [Ids -> Research!Attempt] /\ cache \in [Research!Keys -> 0..MaxGen]
      /\ allowed \in BOOLEAN /\ window \in Research!Windows /\ floor \in 0..MaxGen
      /\ MaxGen \in Nat /\ window <= window
    BY <1>1 DEF Research!TypeOK, Research!Windows, Research!ResearchConstants
<1>3. PICK c \in [gen : 0..MaxGen, pending : BOOLEAN, hold : 0..MaxWindow, unresolved : BOOLEAN] :
          c = scope
    BY <1>1 DEF Research!TypeOK
<1>4. c.gen < MaxGen /\ scope' = [c EXCEPT !.gen = c.gen + 1] /\ UNCHANGED <<window, backup, call, searches>>
    BY <1>3 DEF Research!setPolicy, Research!purge
<1>5. /\ scope' \in [gen : 0..MaxGen, pending : BOOLEAN, hold : 0..MaxWindow, unresolved : BOOLEAN]
      /\ scope'.hold = c.hold /\ scope'.gen = c.gen + 1 /\ c.gen \in Nat
    BY <1>2, <1>4
<1>6. PICK rows \in [Ids -> Research!Attempt] : rows = Research!cancel(attempt)
    BY <1>2, CancelKeeps
<1>7. \A k \in Ids : Kept(attempt[k], rows[k]) /\ rows[k].phase # "reserved"
    BY <1>2, <1>6, CancelKeeps
<1>8. ASSUME NEW mode \in BOOLEAN, Research!setPolicy(mode)
      PROVE  Research!ResearchSafe'
  <2>1. /\ allowed' \in BOOLEAN /\ attempt' = rows /\ UNCHANGED <<cache, floor>>
      BY <1>6, <1>8 DEF Research!setPolicy
  <2>2. floor' <= scope'.gen
      BY <1>1, <1>2, <1>3, <1>5, <2>1 DEF Research!RowsInOrder
  <2>3. Research!ErasedStaysErased'
      BY <1>1, <2>1 DEF Research!ErasedStaysErased
  <2> QED
      BY <1>2, <1>3, <1>4, <1>5, <1>7, <2>1, <2>2, <2>3, ScopeStep
<1>9. CASE Research!purge
  <2>1. /\ attempt' = Research!erase(rows) /\ cache' = [x \in Research!Keys |-> 0]
        /\ floor' = c.gen + 1 /\ UNCHANGED allowed
      BY <1>3, <1>6, <1>9 DEF Research!purge
  <2>2. /\ attempt' \in [Ids -> Research!Attempt] /\ \A k \in Ids : Kept(rows[k], attempt'[k])
      BY <1>7, <2>1, EraseKeeps
  <2>3. \A k \in Ids : Kept(attempt[k], attempt'[k])
      BY <1>7, <2>2, KeptTransitive
  <2>4. floor' <= scope'.gen /\ floor' \in 0..MaxGen
      BY <1>2, <1>4, <1>5, <2>1
  <2>5. Research!ErasedStaysErased' /\ cache' \in [Research!Keys -> 0..MaxGen]
      BY <1>2, <2>1 DEF Research!ErasedStaysErased
  <2> QED
      BY <1>2, <1>3, <1>4, <1>5, <2>1, <2>2, <2>3, <2>4, <2>5, ScopeStep
<1> QED
    BY <1>8, <1>9

LEMMA TimeStep ==
    ASSUME Research!ResearchConstants, Research!ResearchSafe,
           \/ Research!prune \/ Research!acknowledgeRestore \/ Research!WindowEnds
           \/ \E k \in Ids : Research!LeaseLapses(k)
    PROVE  Research!ResearchSafe'
<1>1. /\ Research!TypeOK /\ Research!ErasedStaysErased /\ Research!RowsInOrder
    BY DEF Research!ResearchSafe
<1>2. /\ attempt \in [Ids -> Research!Attempt] /\ cache \in [Research!Keys -> 0..MaxGen]
      /\ allowed \in BOOLEAN /\ window \in Research!Windows /\ floor \in 0..MaxGen
      /\ MaxGen \in Nat /\ window <= window /\ MaxWindow \in Nat /\ floor <= scope.gen
      /\ scope \in [gen : 0..MaxGen, pending : BOOLEAN, hold : 0..MaxWindow, unresolved : BOOLEAN]
    BY <1>1 DEF Research!TypeOK, Research!Windows, Research!ResearchConstants, Research!RowsInOrder
<1>3. \A k \in Ids : Kept(attempt[k], attempt[k])
    BY DEF Kept
<1>4. cache' = cache /\ floor' = floor => Research!ErasedStaysErased'
    BY <1>1 DEF Research!ErasedStaysErased
<1>5. CASE Research!prune
  <2>1. attempt' = Research!reconcile(attempt)
        /\ UNCHANGED <<cache, scope, allowed, window, backup, call, searches, floor>>
      BY <1>5 DEF Research!prune
  <2> QED
      BY <1>1, <1>2, <1>4, <2>1, Swept, ScopeStep
<1>6. CASE Research!acknowledgeRestore
  <2>1. /\ scope' = [scope EXCEPT !.pending = FALSE]
        /\ UNCHANGED <<attempt, cache, allowed, window, backup, call, searches, floor>>
      BY <1>6 DEF Research!acknowledgeRestore
  <2>2. /\ scope' \in [gen : 0..MaxGen, pending : BOOLEAN, hold : 0..MaxWindow, unresolved : BOOLEAN]
        /\ scope'.hold = scope.hold /\ scope'.gen = scope.gen
      BY <1>2, <2>1
  <2> QED
      BY <1>2, <1>3, <1>4, <2>1, <2>2, ScopeStep
<1>7. CASE Research!WindowEnds
  <2>1. /\ window' = window + 1 /\ window < MaxWindow
        /\ UNCHANGED <<attempt, cache, scope, allowed, backup, call, searches, floor>>
      BY <1>7 DEF Research!WindowEnds
  <2>2. window' \in Research!Windows /\ window <= window'
      BY <1>2, <2>1 DEF Research!Windows
  <2> QED
      BY <1>2, <1>3, <1>4, <2>1, <2>2, ScopeStep
<1>8. ASSUME NEW k \in Ids, Research!LeaseLapses(k)
      PROVE  Research!ResearchSafe'
  <2>1. PICK a \in Research!Attempt : a = attempt[k]
      BY <1>2
  <2>2. /\ attempt' = [attempt EXCEPT ![k] = [a EXCEPT !.live = FALSE]]
        /\ UNCHANGED <<cache, scope, allowed, window, backup, call, searches, floor>>
      BY <1>2, <1>8, <2>1 DEF Research!LeaseLapses
  <2>3. [a EXCEPT !.live = FALSE] \in Research!Attempt /\ Kept(a, [a EXCEPT !.live = FALSE])
      BY DEF Research!Attempt, Kept
  <2>4. attempt' \in [Ids -> Research!Attempt] /\ \A j \in Ids : Kept(attempt[j], attempt'[j])
      BY <1>2, <1>3, <2>1, <2>2, <2>3
  <2> QED
      BY <1>2, <1>4, <2>2, <2>4, ScopeStep
<1> QED
    BY <1>5, <1>6, <1>7, <1>8

\* A copy has nothing left to run.
LEMMA BackupStep ==
    ASSUME Research!ResearchConstants, Research!ResearchSafe, Research!Backup
    PROVE  Research!ResearchSafe'
<1>1. /\ Research!TypeOK /\ Research!ErasedStaysErased /\ Research!RowsInOrder
    BY DEF Research!ResearchSafe
<1>2. /\ attempt \in [Ids -> Research!Attempt] /\ scope.gen \in 0..MaxGen
      /\ UNCHANGED <<attempt, cache, scope, allowed, window, call, searches, floor>>
    BY <1>1 DEF Research!TypeOK, Research!Backup
<1>3. PICK rows \in [Ids -> Research!Attempt] : rows = Research!cancel(attempt)
    BY <1>2, CancelKeeps
<1>4. \A k \in Ids : Kept(attempt[k], rows[k]) /\ rows[k].phase # "reserved"
    BY <1>2, <1>3, CancelKeeps
<1>5. PICK kept \in [Ids -> Research!Attempt] : kept = Research!erase(rows)
    BY <1>4, EraseKeeps
<1>6. \A k \in Ids : Kept(attempt[k], kept[k]) /\ kept[k].phase \notin {"reserved", "dispatched"}
    BY <1>4, <1>5, EraseKeeps, KeptTransitive
<1> DEFINE copy(k) == [kept[k] EXCEPT !.token = None, !.live = FALSE]
<1>7. ASSUME NEW k \in Ids
      PROVE  /\ copy(k) \in Research!Attempt /\ copy(k).window <= window /\ ~copy(k).live
             /\ copy(k).phase \notin {"reserved", "dispatched"}
             /\ copy(k).phase = "none" => ~copy(k).launched
  <2>1. PICK a \in Research!Attempt : a = kept[k]
      OBVIOUS
  <2> DEFINE b == [a EXCEPT !.token = None, !.live = FALSE]
  <2>2. /\ b \in Research!Attempt /\ b.window = a.window /\ ~b.live /\ b.phase = a.phase
        /\ b.launched = a.launched
      BY DEF Research!Attempt
  <2>3. Kept(attempt[k], a) /\ a.phase \notin {"reserved", "dispatched"}
      BY <1>6, <2>1
  <2>4. /\ attempt[k].window <= window
        /\ attempt[k].phase \in {"none", "reserved"} => ~attempt[k].launched
      BY <1>1 DEF Research!RowsInOrder
  <2>5. copy(k) = b
      BY <2>1
  <2> HIDE DEF b, copy
  <2> QED
      BY <2>2, <2>3, <2>4, <2>5 DEF Kept
<1>8. PICK u \in BOOLEAN :
          backup' = [attempt |-> [k \in Ids |-> copy(k)], gen |-> scope.gen, unresolved |-> u]
    BY <1>3, <1>5 DEF Research!Backup
<1> HIDE DEF copy
<1>9. /\ backup' \in [attempt : [Ids -> Research!Attempt], gen : 0..MaxGen, unresolved : BOOLEAN]
      /\ \A k \in Ids : backup'.attempt[k] = copy(k)
    BY <1>2, <1>7, <1>8
<1>10. Research!TypeOK'
    BY <1>1, <1>2, <1>9 DEF Research!TypeOK
<1>11. Research!RowsInOrder'
  <2>1. \A k \in Ids : /\ backup'.attempt[k].window <= window' /\ ~backup'.attempt[k].live
                       /\ backup'.attempt[k].phase \notin {"reserved", "dispatched"}
                       /\ backup'.attempt[k].phase = "none" => ~backup'.attempt[k].launched
      BY <1>2, <1>7, <1>9
  <2> QED
      BY <1>1, <1>2, <2>1 DEF Research!RowsInOrder
<1>12. Research!ErasedStaysErased'
    BY <1>1, <1>2 DEF Research!ErasedStaysErased
<1>13. \A k \in Ids : Kept(attempt[k], attempt'[k])
    BY <1>2 DEF Kept
<1> QED
    BY <1>2, <1>10, <1>11, <1>12, <1>13, SameCalls, QuietStep

\* Nothing was sent in a window that did not begin, and a restore holds the one that did.
LEMMA RestoreStep ==
    ASSUME Research!ResearchConstants, Research!ResearchSafe, Research!reconcileMerchantRestore
    PROVE  Research!ResearchSafe'
<1>1. /\ Research!TypeOK /\ Research!RowsInOrder /\ Research!EverySendPaid /\ Research!SendsWithinCap
      /\ MaxGen \in Nat /\ MaxWindow \in Nat /\ MaxRunning \in Nat /\ Cap \in Nat
    BY DEF Research!ResearchSafe, Research!ResearchConstants
<1>2. /\ backup # None /\ backup.gen < MaxGen /\ UNCHANGED <<window, searches>>
      /\ scope' = [gen |-> backup.gen + 1, pending |-> TRUE, hold |-> window,
                   unresolved |-> backup.unresolved]
      /\ attempt' = backup.attempt /\ cache' = [x \in Research!Keys |-> 0] /\ allowed' = FALSE
      /\ floor' = backup.gen + 1 /\ call' = [w \in Workers |-> Research!Idle] /\ backup' = None
    BY DEF Research!reconcileMerchantRestore
<1>3. backup \in [attempt : [Ids -> Research!Attempt], gen : 0..MaxGen, unresolved : BOOLEAN]
    BY <1>1, <1>2 DEF Research!TypeOK
<1>4. /\ attempt' \in [Ids -> Research!Attempt] /\ backup.gen + 1 \in 0..MaxGen
      /\ window \in 1..MaxWindow
    BY <1>1, <1>2, <1>3 DEF Research!TypeOK, Research!Windows
<1>5. /\ scope' \in [gen : 0..MaxGen, pending : BOOLEAN, hold : 0..MaxWindow, unresolved : BOOLEAN]
      /\ scope'.hold = window /\ scope'.gen = backup.gen + 1
    BY <1>1, <1>2, <1>3, <1>4
<1>6. Research!Idle \in Research!Call /\ Research!Idle.pc = "idle"
    BY DEF Research!Idle, Research!Call, Research!ResearchConstants
<1>7. /\ call' \in [Workers -> Research!Call] /\ \A w \in Workers : call'[w].pc = "idle"
    BY <1>2, <1>6
<1>8. Research!TypeOK'
  <2>1. cache' \in [Research!Keys -> 0..MaxGen] /\ floor' \in 0..MaxGen
      BY <1>1, <1>2, <1>4
  <2> QED
      BY <1>1, <1>2, <1>4, <1>5, <1>7, <2>1 DEF Research!TypeOK
<1>9. \A k \in Ids : /\ attempt'[k].window <= window /\ ~attempt'[k].live
                     /\ attempt'[k].phase \notin {"reserved", "dispatched"}
                     /\ attempt'[k].phase = "none" => ~attempt'[k].launched
    BY <1>1, <1>2 DEF Research!RowsInOrder
<1>10. Research!OwnersHold'
    BY <1>7 DEF Research!OwnersHold
<1>11. Research!RowsInOrder'
  <2>1. window' = window /\ window <= window /\ floor' <= scope'.gen
      BY <1>2, <1>3, <1>4, <1>5
  <2> QED
      BY <1>2, <1>5, <1>9, <2>1 DEF Research!RowsInOrder
<1>12. Research!ErasedStaysErased'
    BY <1>2 DEF Research!ErasedStaysErased
<1>13. Research!SendsWithinCap'
    BY <1>1, <1>2 DEF Research!SendsWithinCap
<1>14. Cardinality({}) = 0
    BY FS_EmptySet
<1>15. Research!LaunchesBounded'
  <2>1. Research!Calling' = {} /\ Research!Running(attempt)' = {}
      BY <1>9 DEF Research!Calling, Research!Running
  <2>2. 0 <= MaxRunning
      BY <1>1
  <2>3. Cardinality(Research!Calling') <= MaxRunning /\ Cardinality(Research!Running(attempt)') <= MaxRunning
      BY <1>14, <2>1, <2>2
  <2> QED
      BY <2>3, SameResearchCount DEF Research!LaunchesBounded
<1>16. Research!EverySendPaid'
  <2> SUFFICES ASSUME NEW d \in Research!Windows, d > window
               PROVE  /\ searches'[d] <= Cardinality(Research!Paying(d)')
                      /\ Cardinality(Research!Counted(attempt, d)') <= Cap
      BY <1>5, SameResearchCount DEF Research!EverySendPaid
  <2>1. d \in Nat /\ scope.hold \in Nat /\ scope.hold <= window /\ window \in Nat /\ searches[d] \in Nat
      BY <1>1, <1>4 DEF Research!TypeOK, Research!Windows, Research!RowsInOrder
  <2>2. Research!Paying(d) = {}
    <3>1. \A k \in Ids : attempt[k].window <= window /\ attempt[k].window \in Nat
        BY <1>1 DEF Research!RowsInOrder, Research!TypeOK, Research!Attempt, Research!Windows
    <3> QED
        BY <2>1, <3>1 DEF Research!Paying, Research!Counted
  <2>3. Research!Counted(attempt, d)' = {} /\ Research!Paying(d)' = {}
    <3>1. \A k \in Ids : attempt'[k].window <= window /\ attempt'[k].window \in Nat
        BY <1>1, <1>4, <1>9 DEF Research!Attempt, Research!Windows
    <3> QED
        BY <2>1, <3>1 DEF Research!Paying, Research!Counted
  <2>4. searches[d] <= Cardinality(Research!Paying(d))
      BY <1>1, <2>1, SameResearchCount DEF Research!EverySendPaid
  <2>5. searches'[d] = 0
      BY <1>2, <1>14, <2>1, <2>2, <2>4
  <2>6. Cardinality(Research!Counted(attempt, d)') = 0 /\ Cardinality(Research!Paying(d)') = 0
      BY <1>14, <2>3
  <2> QED
      BY <1>1, <2>5, <2>6
<1> QED
    BY <1>8, <1>10, <1>11, <1>12, <1>13, <1>15, <1>16 DEF Research!ResearchSafe

LEMMA ResearchInit ==
    ASSUME Research!ResearchConstants, Research!Init
    PROVE  Research!ResearchSafe
<1>1. /\ MaxGen \in Nat /\ MaxWindow \in Nat \ {0} /\ MaxRunning \in Nat /\ Cap \in Nat
    BY DEF Research!ResearchConstants
<1>2. Research!Idle \in Research!Call /\ Research!Idle.pc = "idle"
    BY DEF Research!Idle, Research!Call, Research!ResearchConstants
<1>3. /\ attempt \in [Ids -> Research!Attempt]
      /\ \A k \in Ids : /\ attempt[k].window = 1 /\ attempt[k].phase = "none" /\ ~attempt[k].live
                        /\ ~attempt[k].launched
    BY BlankRow DEF Research!Init
<1>4. /\ call \in [Workers -> Research!Call] /\ \A w \in Workers : call[w].pc = "idle"
    BY <1>2 DEF Research!Init
<1>5. /\ scope \in [gen : 0..MaxGen, pending : BOOLEAN, hold : 0..MaxWindow, unresolved : BOOLEAN]
      /\ scope.hold = 0 /\ scope.gen = 0 /\ window = 1 /\ floor = 0 /\ allowed = FALSE /\ backup = None
      /\ cache = [x \in Research!Keys |-> 0] /\ searches = [d \in Research!Windows |-> 0]
    BY <1>1 DEF Research!Init
<1>6. Research!TypeOK
  <2>1. /\ cache \in [Research!Keys -> 0..MaxGen] /\ searches \in [Research!Windows -> Nat]
        /\ window \in Research!Windows /\ floor \in 0..MaxGen
      BY <1>1, <1>5 DEF Research!Windows
  <2> QED
      BY <1>3, <1>4, <1>5, <2>1 DEF Research!TypeOK
<1>7. Research!OwnersHold /\ Research!ErasedStaysErased /\ Research!RowsInOrder
  <2>1. Research!OwnersHold
      BY <1>4 DEF Research!OwnersHold
  <2>2. Research!ErasedStaysErased
      BY <1>5 DEF Research!ErasedStaysErased
  <2>3. Research!RowsInOrder
      BY <1>3, <1>5 DEF Research!RowsInOrder
  <2> QED
      BY <2>1, <2>2, <2>3
<1>8. Cardinality({}) = 0
    BY FS_EmptySet
<1>9. Research!LaunchesBounded
  <2>1. Research!Calling = {} /\ Research!Running(attempt) = {}
      BY <1>3 DEF Research!Calling, Research!Running
  <2> QED
      BY <1>1, <1>8, <2>1, SameResearchCount DEF Research!LaunchesBounded
<1>10. Research!EverySendPaid /\ Research!SendsWithinCap
  <2>1. \A d \in Research!Windows : searches[d] = 0
      BY <1>5
  <2>2. \A d \in Research!Windows : Research!Paying(d) = {} /\ Research!Counted(attempt, d) = {}
      BY <1>3 DEF Research!Paying, Research!Counted
  <2>3. 0 <= Cap /\ 0 <= 0
      BY <1>1
  <2> QED
      BY <1>8, <2>1, <2>2, <2>3, SameResearchCount DEF Research!EverySendPaid, Research!SendsWithinCap
<1> QED
    BY <1>6, <1>7, <1>9, <1>10 DEF Research!ResearchSafe

LEMMA ResearchStep ==
    ASSUME Research!ResearchConstants, Research!ResearchSafe, [Research!Next]_researchVars
    PROVE  Research!ResearchSafe'
<1>1. CASE UNCHANGED researchVars
  <2>1. Research!TypeOK /\ attempt' = attempt /\ call' = call /\ call' \in [Workers -> Research!Call]
      BY <1>1 DEF Research!ResearchSafe, Research!TypeOK
  <2> QED
      BY <1>1, <2>1, Swept, SameCalls, QuietRows
<1> QED
    BY <1>1, ReserveStep, ClaimStep, LaunchStep, SendStep, AnswerStep, FinishStep, ReleaseStep,
       PolicyStep, TimeStep, BackupStep, RestoreStep DEF Research!Next

\* Every search sent in a window is paid by an attempt of its own, so no window sees more than
\* its cap and no more run at a time than the limit, and a late answer never brings back what
\* was erased: through lapsed leases, releases, deletions, crashes and restored copies.
THEOREM ResearchSafeAlways == Spec => []ResearchSafe
<1>1. Init => ResearchSafe
  <2> SUFFICES ASSUME Init, component = "research"
               PROVE  Research!ResearchSafe
      BY DEF ResearchSafe
  <2>1. Research!Init
      BY DEF Init
  <2> QED
      BY <2>1, ResearchInit
<1>2. ResearchSafe /\ [Next]_vars => ResearchSafe'
    BY Components, ResearchStep DEF ResearchSafe
<1> QED
    BY <1>1, <1>2, PTL DEF Spec
====
