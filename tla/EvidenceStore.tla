----------------------------- MODULE EvidenceStore -----------------------------
(***************************************************************************)
(* Transaction evidence of one owner: immutable documents delivered by     *)
(* sources, their encrypted raw content that retention, deletion and the   *)
(* restore of a backup destroy, and the append-only journals of human      *)
(* reviews over them: resolution decisions, wallet statement proofs and    *)
(* receipt version links. A review is shown to a human in one tab and      *)
(* committed later, when documents, reviews and raw content may have       *)
(* changed.                                                                *)
(*                                                                         *)
(* A document is a source and the content it delivered. Journals are       *)
(* compared by a hash of their fold; here by their number of entries.      *)
(***************************************************************************)
EXTENDS Naturals, Sequences, FiniteSets, SequencesExt

CONSTANTS
    Documents,  \* the documents that may be delivered: pairs of a source and a content
    Tabs,       \* places where the owner reviews evidence
    None,
    MaxEvents   \* bound on the entries of all journals

\* What any instance has: finitely many pairs, none of them None.
EvidenceConstants ==
    /\ IsFiniteSet(Documents) /\ None \notin Documents /\ MaxEvents \in Nat
    /\ \A d \in Documents : d = <<d[1], d[2]>>

Sources == {d[1] : d \in Documents}
Contents == {d[2] : d \in Documents}
Journals == {"decision", "proof", "link"}

VARIABLES
    stored,   \* contents each source delivered, oldest first: the rows of its documents
    raw,      \* documents whose ciphertext is held
    journal,  \* number of entries of each journal
    proof,    \* documents a statement proof was attested over, by its statement; {}: revoked
    link,     \* reviewed predecessor of each document
    tab       \* the review open in each tab

docVars == <<stored, raw>>
reviewVars == <<journal, proof, link>>
vars == <<docVars, reviewVars, tab>>

Reviews == [kind : {"none", "decide", "attest", "revoke", "link", "unlink"},
            arg : Documents \cup {None}, seen : 0..MaxEvents, docs : SUBSET Documents]
NoReview == [kind |-> "none", arg |-> None, seen |-> 0, docs |-> {}]

TypeOK ==
    /\ stored \in [Sources -> Seq(Contents)]
    /\ raw \in SUBSET Documents
    /\ journal \in [Journals -> 0..MaxEvents]
    /\ proof \in [Documents -> SUBSET Documents]
    /\ link \in [Documents -> Documents \cup {None}]
    /\ tab \in [Tabs -> Reviews]

Init ==
    /\ stored = [s \in Sources |-> <<>>]
    /\ raw = {}
    /\ journal = [j \in Journals |-> 0]
    /\ proof = [d \in Documents |-> {}]
    /\ link = [d \in Documents |-> None]
    /\ tab = [t \in Tabs |-> NoReview]

------------------------------------------------------------------------------
Known == {d \in Documents : Contains(stored[d[1]], d[2])}

\* Only the last document of its source is current.
isCurrent(d) == stored[d[1]] # <<>> /\ Last(stored[d[1]]) = d[2]

Current == {d \in Documents : isCurrent(d)}

\* An exact redelivery is acknowledged and changes nothing; anything else is a new document.
ingest(s, c) ==
    /\ ~Contains(stored[s], c)
    /\ stored' = [stored EXCEPT ![s] = Append(@, c)]
    /\ raw' = raw \cup {<<s, c>>}
    /\ UNCHANGED <<reviewVars, tab>>

\* Destroying ciphertext leaves the normalization and its provenance. Retention does it in
\* a sweep or before the first read of the expired document, so an expired document that
\* still holds its raw content is never observed.
erase(d) ==
    /\ d \in raw
    /\ raw' = raw \ {d}
    /\ UNCHANGED <<stored, reviewVars, tab>>

expireRaw(d) == erase(d)

deleteRaw(d) == erase(d)

\* A copy restored keeps the documents it was made with, but no raw content and no review.
quarantineRestore ==
    /\ \E n \in [Sources -> 0..Cardinality(Contents)] :
          /\ \A s \in Sources : n[s] <= Len(stored[s])
          /\ stored' = [s \in Sources |-> SubSeq(stored[s], 1, n[s])]
    /\ raw' = {}
    /\ journal' = [j \in Journals |-> 0]
    /\ proof' = [d \in Documents |-> {}]
    /\ link' = [d \in Documents |-> None]
    /\ tab' = [t \in Tabs |-> NoReview]

------------------------------------------------------------------------------
\* What a review of each kind is shown: its journal and the current documents.
JournalOf(kind) ==
    CASE kind = "decide" -> "decision"
      [] kind \in {"attest", "revoke"} -> "proof"
      [] kind \in {"link", "unlink"} -> "link"

review(t, kind, arg) ==
    /\ tab[t] = NoReview /\ Current # {}
    /\ tab' = [tab EXCEPT ![t] = [kind |-> kind, arg |-> arg, seen |-> journal[JournalOf(kind)],
                                  docs |-> IF kind \in {"decide", "attest"} THEN Current ELSE {}]]
    /\ UNCHANGED <<docVars, reviewVars>>

\* Variant: the journal may have grown since the review.
fence_Unchecked(t) == TRUE

\* The journal is the one that was reviewed.
fence(t) == journal[JournalOf(tab[t].kind)] = tab[t].seen

Enter(j) ==
    /\ journal["decision"] + journal["proof"] + journal["link"] < MaxEvents
    /\ journal' = [journal EXCEPT ![j] = @ + 1]

\* The resolution is recomputed and compared with the reviewed one, and the decision
\* stored over documents that are all still current.
saveResolutionDecision(t) ==
    /\ tab[t].kind = "decide"
    /\ fence(t)
    /\ tab[t].docs = Current
    /\ Enter("decision")
    /\ UNCHANGED <<proof, link>>

currentProof(p) == proof[p] # {} /\ proof[p] \subseteq Current

\* A statement is attested with its raw bytes at hand, over current documents.
attest(t) ==
    /\ tab[t].kind = "attest"
    /\ fence(t)
    /\ tab[t].arg \in tab[t].docs /\ tab[t].docs \subseteq Current
    /\ tab[t].arg \in raw
    /\ Enter("proof")
    /\ proof' = [proof EXCEPT ![tab[t].arg] = tab[t].docs]
    /\ UNCHANGED link

revoke(t) ==
    /\ tab[t].kind = "revoke"
    /\ fence(t)
    /\ proof[tab[t].arg] # {}
    /\ Enter("proof")
    /\ proof' = [proof EXCEPT ![tab[t].arg] = {}]
    /\ UNCHANGED link

\* Variant: cycles are not looked for.
validateReceiptVersionGraph_ForksOnly(g) ==
    \A d, e \in Documents : g[d] # None /\ g[d] = g[e] => d = e

\* Reviewed histories are chains: no document has two successors, none precedes itself.
validateReceiptVersionGraph(g) ==
    /\ \A d, e \in Documents : g[d] # None /\ g[d] = g[e] => d = e
    /\ \A D \in SUBSET Documents : D # {} => \E d \in D : g[d] \notin D

linkVersion(t, parent) ==
    /\ tab[t].kind = "link"
    /\ fence(t)
    /\ isCurrent(tab[t].arg) /\ parent \in Known \ {tab[t].arg}
    /\ validateReceiptVersionGraph([link EXCEPT ![tab[t].arg] = parent])
    /\ Enter("link")
    /\ link' = [link EXCEPT ![tab[t].arg] = parent]
    /\ UNCHANGED proof

unlinkVersion(t) ==
    /\ tab[t].kind = "unlink"
    /\ fence(t)
    /\ link[tab[t].arg] # None
    /\ Enter("link")
    /\ link' = [link EXCEPT ![tab[t].arg] = None]
    /\ UNCHANGED proof

commit(t) ==
    /\ \/ saveResolutionDecision(t) \/ attest(t) \/ revoke(t) \/ unlinkVersion(t)
       \/ \E parent \in Documents : linkVersion(t, parent)
    /\ tab' = [tab EXCEPT ![t] = NoReview]
    /\ UNCHANGED docVars

\* The review is dropped, or refused at its commit.
leave(t) ==
    /\ tab[t] # NoReview
    /\ tab' = [tab EXCEPT ![t] = NoReview]
    /\ UNCHANGED <<docVars, reviewVars>>

Next ==
    \/ \E d \in Documents : ingest(d[1], d[2]) \/ expireRaw(d) \/ deleteRaw(d)
    \/ quarantineRestore
    \/ \E t \in Tabs : \/ review(t, "decide", None)
                       \/ \E d \in Current : review(t, "attest", d) \/ review(t, "link", d)
                       \/ \E d \in Documents : \/ proof[d] # {} /\ review(t, "revoke", d)
                                               \/ link[d] # None /\ review(t, "unlink", d)
                       \/ commit(t) \/ leave(t)

Spec == Init /\ [][Next]_vars

------------------------------------------------------------------------------
\* The documents whose reviewed predecessor in g is d.
Successors(g, d) == {e \in Documents : g[e] = d}

\* The reviewed histories of receipts stay chains whatever order reviews commit in.
HistoriesAreChains ==
    /\ \A D \in (SUBSET Documents) \ {{}} : \E d \in D : link[d] \notin D
    /\ \A d \in Documents : Cardinality(Successors(link, d)) <= 1

\* A proof rests on documents that were delivered.
ProofsOfKnown == \A p \in Documents : proof[p] \subseteq Known

\* Well formed, and no order of reviews makes a receipt history fork or loop.
EvidenceSafe == TypeOK /\ HistoriesAreChains /\ ProofsOfKnown

\* Destroyed raw content never comes back, neither by redelivery nor by restoring a copy.
RawStaysGone == \A d \in raw' \ raw : d \notin Known

\* A proof that stopped applying, because it was revoked or a document it rests on was
\* replaced, applies again only by an attestation of someone who saw what ended it, and a
\* decision replaces only the decision its author was shown.
ReviewedBeforeReplaced ==
    /\ \A p \in Documents : ~currentProof(p) /\ currentProof(p)' =>
          \E t \in Tabs : /\ tab[t].kind = "attest" /\ tab[t].arg = p
                          /\ tab[t].seen = journal["proof"]
    /\ journal'["decision"] > journal["decision"] =>
          \E t \in Tabs : tab[t].kind = "decide" /\ tab[t].seen = journal["decision"]

\* What was destroyed, revoked or superseded never applies again by itself.
EvidenceStep == RawStaysGone /\ ReviewedBeforeReplaced

\* Erased raw content stays erased, and a decision replaces only the version it read (fence).
NothingRevives == [][EvidenceStep]_vars
================================================================================
