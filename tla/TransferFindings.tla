-------------------------- MODULE TransferFindings --------------------------
(***************************************************************************)
(* The findings that ask people to look at a transfer. A step of the       *)
(* liquidity service settles a transfer or reports an outcome that needs   *)
(* attention, and then brings the transfer's finding up to date, with      *)
(* awaits in between. It runs inside the connection's lock, so there is    *)
(* one such step at a time. People meanwhile acknowledge, correct,         *)
(* dismiss, reopen or supersede what their page showed them, and the       *)
(* findings of the budget can be deleted.                                  *)
(***************************************************************************)
EXTENDS Naturals, Sequences, FiniteSets

CONSTANTS
    Transfers, None,
    People,      \* those whose page shows a finding
    Limit,       \* findings listFindings returns
    MaxFindings, \* bound on findings ever created
    MaxVersion   \* bound on a finding's version

VARIABLES
    phase,    \* per transfer: "active", "attention" when it has an outcome, "settled"
    findings, \* in the order of creation: transfer, status and version
    step,     \* the service's step: its transfer, what became of it and the finding it found
    seen      \* per person: the finding and the version their page shows

vars == <<phase, findings, step, seen>>

FINDING_TRANSITIONS(status) ==
    CASE status = "open" -> {"acknowledged", "corrected", "dismissed", "superseded"}
      [] status = "acknowledged" -> {"corrected", "dismissed", "reopened", "superseded"}
      [] status = "corrected" -> {"superseded"}
      [] status = "dismissed" -> {"reopened", "superseded"}
      [] status = "reopened" -> {"acknowledged", "corrected", "dismissed", "superseded"}
      [] status = "expired" -> {"superseded"}
      [] OTHER -> {}

Open == {"open", "acknowledged", "reopened"}
Decisions == {"acknowledged", "corrected", "dismissed", "reopened", "superseded"}

Rows == [transfer : Transfers, version : 1..MaxVersion,
         status : Decisions \cup {"open", "expired", "deleted"}]
Steps == [transfer : Transfers, settled : BOOLEAN, at : {"list", "write"},
          found : 0..MaxFindings, version : 0..MaxVersion]
Pages == [finding : 1..MaxFindings, version : 1..MaxVersion]

\* What any instance has: bounds that are numbers, and None is neither a step nor a page.
FindingConstants ==
    MaxFindings \in Nat /\ MaxVersion \in Nat \ {0} /\ None \notin Steps \cup Pages

TypeOK ==
    /\ phase \in [Transfers -> {"active", "attention", "settled"}]
    /\ findings \in Seq(Rows) /\ Len(findings) <= MaxFindings
    /\ step \in Steps \cup {None}
    /\ seen \in [People -> Pages \cup {None}]

Init ==
    /\ phase = [t \in Transfers |-> "active"]
    /\ findings = <<>> /\ step = None
    /\ seen = [p \in People |-> None]

------------------------------------------------------------------------------
\* A verification, a check of preconditions or a cancellation changes the transfer; what it
\* became is what the rest of the step works with.
transferAction(t) ==
    /\ step = None /\ phase[t] # "settled"
    /\ \E to \in {"attention", "settled"} :
          /\ phase' = [phase EXCEPT ![t] = to]
          /\ step' = [transfer |-> t, settled |-> to = "settled", at |-> "list",
                      found |-> 0, version |-> 0]
    /\ UNCHANGED <<findings, seen>>

\* An edited session or policy, or time, closes the transfer without such a step.
closeProposal(t) ==
    /\ phase[t] # "settled"
    /\ phase' = [phase EXCEPT ![t] = "settled"]
    /\ UNCHANGED <<findings, step, seen>>

\* The newest findings of the budget, whatever they are about.
Kept == {f \in DOMAIN findings : findings[f].status # "deleted"}
Newest(F) == {f \in F : Cardinality({g \in F : g > f}) < Limit}
listFindings == Newest(Kept)

\* The newest of them that is about the transfer, 0 if there is none.
Listed(t) == {f \in listFindings : findings[f].transfer = t}
existing(t) ==
    IF Listed(t) = {} THEN 0 ELSE CHOOSE f \in Listed(t) : \A g \in Listed(t) : g <= f

List ==
    /\ step # None /\ step.at = "list"
    /\ LET f == existing(step.transfer) IN
       step' = [step EXCEPT !.at = "write", !.found = f,
                            !.version = IF f = 0 THEN 0 ELSE findings[f].version]
    /\ UNCHANGED <<phase, findings, seen>>

------------------------------------------------------------------------------
\* Variant: the version a caller expects is not compared.
transitionFinding_AnyVersion(f, to, expected) ==
    IF /\ to \in FINDING_TRANSITIONS(findings[f].status)
       /\ findings[f].version < MaxVersion
    THEN findings' = [findings EXCEPT ![f].status = to, ![f].version = @ + 1]
    ELSE UNCHANGED findings

\* A finding moves when the status allows it and nobody has changed it since. A finding
\* that has the status already is returned as it is; any other call throws.
transitionFinding(f, to, expected) ==
    IF /\ to \in FINDING_TRANSITIONS(findings[f].status)
       /\ findings[f].version = expected /\ expected < MaxVersion
    THEN findings' = [findings EXCEPT ![f].status = to, ![f].version = @ + 1]
    ELSE UNCHANGED findings

createFinding(t) ==
    /\ Len(findings) < MaxFindings
    /\ findings' = Append(findings, [transfer |-> t, status |-> "open", version |-> 1])

\* The step's finding is created when it has none, or corrected when the transfer settled
\* and the finding it listed was open then.
finding ==
    /\ step # None /\ step.at = "write"
    /\ \/ ~step.settled /\ step.found = 0 /\ createFinding(step.transfer)
       \/ ~step.settled /\ step.found # 0 /\ UNCHANGED findings
       \/ step.settled /\ step.found = 0 /\ UNCHANGED findings
       \/ /\ step.settled /\ step.found # 0
          /\ transitionFinding(step.found, "corrected", step.version)
    /\ step' = None
    /\ UNCHANGED <<phase, seen>>

\* A person's page shows a finding, for as long as they take.
Show(p) ==
    /\ \E f \in DOMAIN findings :
          /\ findings[f].status # "deleted"
          /\ seen' = [seen EXCEPT ![p] = [finding |-> f, version |-> findings[f].version]]
    /\ UNCHANGED <<phase, findings, step>>

\* The person decides. The route reads the finding again, the store compares the version.
Decide(p) ==
    /\ seen[p] # None
    /\ \E to \in Decisions : transitionFinding(seen[p].finding, to, seen[p].version)
    /\ seen' = [seen EXCEPT ![p] = None]
    /\ UNCHANGED <<phase, step>>

\* Time expires a finding whatever its status, a dismissed one too.
expireFinding(f) ==
    /\ f \in DOMAIN findings /\ findings[f].status \notin {"expired", "superseded", "deleted"}
    /\ findings[f].version < MaxVersion
    /\ findings' = [findings EXCEPT ![f].status = "expired", ![f].version = @ + 1]
    /\ UNCHANGED <<phase, step, seen>>

\* The findings of the budget are deleted with its connection, space or workflow data.
deleteScopeData ==
    /\ \E f \in DOMAIN findings : findings[f].status # "deleted"
    /\ findings' = [f \in DOMAIN findings |->
                      [findings[f] EXCEPT !.status = "deleted", !.version = 1]]
    /\ UNCHANGED <<phase, step, seen>>

Next ==
    \/ \E t \in Transfers : transferAction(t) \/ closeProposal(t)
    \/ List \/ finding
    \/ \E p \in People : Show(p) \/ Decide(p)
    \/ \E f \in 1..MaxFindings : expireFinding(f)
    \/ deleteScopeData

Spec == Init /\ [][Next]_vars

------------------------------------------------------------------------------
\* A finding changes by expiry, by deletion, by a person who saw it as it is, or by the
\* service, which only corrects one that is open and whose transfer has settled.
ChangedKnowingly(f) ==
    \/ findings'[f] = findings[f]
    \/ findings'[f].status \in {"expired", "deleted"}
    \/ \E p \in People : seen[p] = [finding |-> f, version |-> findings[f].version]
    \/ /\ findings[f].status \in Open /\ findings'[f].status = "corrected"
       /\ phase[findings[f].transfer] = "settled"

\* No decision about a finding is overturned by somebody who had not seen it, a superseded
\* or deleted finding stays so, and a second finding about a transfer appears only when
\* the first one is beyond what listFindings returns.
FindingStep ==
    /\ \A f \in DOMAIN findings :
          /\ ChangedKnowingly(f)
          /\ findings[f].status = "superseded" => findings'[f].status \in {"superseded", "deleted"}
          /\ findings[f].status = "deleted" => findings'[f].status = "deleted"
    /\ \A g \in DOMAIN findings' \ DOMAIN findings : existing(findings'[g].transfer) = 0

\* A step works on with what it read: its transfer stays settled, the finding it found is
\* about its transfer, and when it found none there is none listed until it writes.
StepKnows ==
    /\ step # None =>
          /\ step.settled => phase[step.transfer] = "settled"
          /\ step.found # 0 => /\ step.found \in DOMAIN findings
                               /\ findings[step.found].transfer = step.transfer
          /\ step.at = "write" /\ step.found = 0 => existing(step.transfer) = 0
    /\ \A p \in People : seen[p] # None => seen[p].finding \in DOMAIN findings

FindingsKept == TypeOK /\ StepKnows

FindingsHeld == [][FindingsKept' /\ FindingStep]_vars
================================================================================
