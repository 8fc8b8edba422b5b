--------------------------- MODULE ReceiptInference ---------------------------
(***************************************************************************)
(* Suggestions for a receipt line by a local or an external model. The     *)
(* owner previews the exact payload, consents, and the consent is consumed *)
(* with one unit of the daily quota before the provider is called; source, *)
(* policy and consent are checked again right before the call and before   *)
(* the answer is kept. The source may be replaced or deleted, a policy     *)
(* layer changed and a preview withdrawn at any point between.             *)
(*                                                                         *)
(* The journal is append-only and folded on every read: a preview is its   *)
(* latest event, and a search by subject and locality finds the preview    *)
(* with the newest event (`latest`).                                       *)
(***************************************************************************)
EXTENDS Naturals, FiniteSets

CONSTANTS
    MaxPreviews, \* bound on previews the owner creates
    Cap,         \* calls a day the tightest policy layer admits
    MaxSubject   \* bound on changes of the subject: source, policies, providers

\* What any instance has.
InferenceConstants == MaxPreviews \in Nat /\ Cap \in Nat /\ MaxSubject \in Nat \ {0}

VARIABLES
    subject,   \* the source and policy revisions a preview binds, as one version
    source,    \* the current document still holds its raw content
    enabled,   \* localities every policy layer enables
    preview,   \* the latest event of each preview
    latest,    \* of the current subject and each locality, the preview with the newest event;
               \* 0 if there is none
    exec,      \* the call running each consumed preview
    quota,     \* units of the day's quota consumed
    sends      \* calls that reached a provider, by preview

vars == <<subject, source, enabled, preview, latest, exec, quota, sends>>

Previews == 1..MaxPreviews    \* numbered as they are created

Statuses == {"none", "preview", "dispatched", "completed", "failed", "rejected", "revoked"}

TypeOK ==
    /\ subject \in 1..MaxSubject /\ source \in BOOLEAN /\ enabled \subseteq {"local", "external"}
    /\ preview \in [Previews -> [status : Statuses, loc : {"local", "external"},
                                 subject : 0..MaxSubject, abstained : BOOLEAN,
                                 expired : BOOLEAN]]
    /\ latest \in [{"local", "external"} -> 0..MaxPreviews]
    /\ exec \in [Previews -> {"idle", "consumed", "calling"}]
    /\ quota \in 0..Cap
    /\ sends \in [Previews -> Nat]

Init ==
    /\ subject = 1 /\ source = TRUE /\ enabled = {"local", "external"} /\ quota = 0
    /\ preview = [p \in Previews |-> [status |-> "none", loc |-> "local", subject |-> 0,
                                      abstained |-> FALSE, expired |-> FALSE]]
    /\ latest = [loc \in {"local", "external"} |-> 0]
    /\ exec = [p \in Previews |-> "idle"]
    /\ sends = [p \in Previews |-> 0]

------------------------------------------------------------------------------
append(p, event) ==
    /\ preview' = [preview EXCEPT ![p] = event]
    /\ latest' = IF event.subject = subject THEN [latest EXCEPT ![event.loc] = p] ELSE latest

\* The preview's source, policies and installation are the current ones.
live(p) == source /\ preview[p].loc \in enabled /\ preview[p].subject = subject

\* The newest folded event of the current subject, if it is live. The fold comes before the
\* filter: nothing older shows behind a withdrawal.
findEvent(loc) == {p \in Previews : latest[loc] = p /\ live(p)}

\* While a local model is allowed, an external one is asked only after the local one failed,
\* abstained or was rejected.
canEscalate ==
    \/ "local" \notin enabled
    \/ \E p \in findEvent("local") :
          \/ preview[p].status \in {"failed", "rejected"}
          \/ preview[p].status = "completed" /\ preview[p].abstained

assertCurrent(p) == live(p) /\ (preview[p].loc = "external" => canEscalate)

\* The cached suggestion of the subject by this locality's provider.
lookup(loc) ==
    {p \in findEvent(loc) : preview[p].status = "completed" /\ ~preview[p].expired}

createPreview(p, loc) ==
    /\ preview[p].status = "none" /\ \A q \in 1..p - 1 : preview[q].status # "none"
    /\ source /\ loc \in enabled
    /\ loc = "external" => canEscalate
    /\ lookup(loc) = {}
    /\ append(p, [status |-> "preview", loc |-> loc, subject |-> subject, abstained |-> FALSE,
                  expired |-> FALSE])
    /\ UNCHANGED <<subject, source, enabled, exec, quota, sends>>

\* Variant: the unit of the quota is not taken.
consumePreview_Uncounted(p) ==
    /\ preview[p].status = "preview" /\ ~preview[p].expired
    /\ assertCurrent(p)
    /\ quota < Cap
    /\ append(p, [preview[p] EXCEPT !.status = "dispatched"])
    /\ exec' = [exec EXCEPT ![p] = "consumed"]
    /\ UNCHANGED <<subject, source, enabled, quota, sends>>

\* Consent is spent once, together with a unit of the quota.
consumePreview(p) ==
    /\ preview[p].status = "preview" /\ ~preview[p].expired
    /\ assertCurrent(p)
    /\ quota < Cap
    /\ quota' = quota + 1
    /\ append(p, [preview[p] EXCEPT !.status = "dispatched"])
    /\ exec' = [exec EXCEPT ![p] = "consumed"]
    /\ UNCHANGED <<subject, source, enabled, sends>>

readLiveDispatch(p) ==
    /\ preview[p].status = "dispatched" /\ ~preview[p].expired
    /\ assertCurrent(p)

\* Right before the provider is called, everything is read again.
egress(p) ==
    /\ exec[p] = "consumed" /\ readLiveDispatch(p)
    /\ exec' = [exec EXCEPT ![p] = "calling"]
    /\ sends' = [sends EXCEPT ![p] = @ + 1]
    /\ UNCHANGED <<subject, source, enabled, preview, latest, quota>>

\* Variant: an answer is kept although the dispatch was withdrawn.
finishDispatch_AnyStatus(p, abstained) ==
    /\ exec[p] = "calling"
    /\ live(p) /\ preview[p].status \in {"dispatched", "revoked"}
    /\ append(p, [preview[p] EXCEPT !.status = "completed", !.abstained = abstained])
    /\ exec' = [exec EXCEPT ![p] = "idle"]
    /\ UNCHANGED <<subject, source, enabled, quota, sends>>

\* The provider answers with a category or abstains; the answer is kept while the dispatch
\* is live, unexpired and not withdrawn.
finishDispatch(p, abstained) ==
    /\ exec[p] = "calling" /\ readLiveDispatch(p)
    /\ append(p, [[preview[p] EXCEPT !.status = "completed"] EXCEPT !.abstained = abstained])
    /\ exec' = [exec EXCEPT ![p] = "idle"]
    /\ UNCHANGED <<subject, source, enabled, quota, sends>>

\* Anything else records a failure, unless the dispatch was withdrawn meanwhile: a check in
\* front of the call, no usable answer, or an answer that came too late. The quota is not
\* given back.
failDispatch(p) ==
    /\ \/ exec[p] = "consumed" /\ ~readLiveDispatch(p)
       \/ exec[p] = "calling"
    /\ IF preview[p].status = "dispatched"
       THEN append(p, [preview[p] EXCEPT !.status = "failed"])
       ELSE UNCHANGED <<preview, latest>>
    /\ exec' = [exec EXCEPT ![p] = "idle"]
    /\ UNCHANGED <<subject, source, enabled, quota, sends>>

withdraw(p, status) ==
    /\ preview[p].status \notin {"none", "rejected", "revoked"}
    /\ append(p, [preview[p] EXCEPT !.status = status])
    /\ UNCHANGED <<subject, source, enabled, exec, quota, sends>>

\* A policy layer's new revision is part of what a preview binds. (A newer document or
\* another provider list changes the subject in the same way.)
updatePolicy(localities) ==
    /\ subject < MaxSubject
    /\ subject' = subject + 1
    /\ enabled' = localities
    /\ latest' = [loc \in {"local", "external"} |-> 0]
    /\ UNCHANGED <<source, preview, exec, quota, sends>>

\* The source's raw content is deleted or expires.
SourceDeleted ==
    /\ source
    /\ source' = FALSE
    /\ UNCHANGED <<subject, enabled, preview, latest, exec, quota, sends>>

\* Five minutes pass on a preview, or the lifetime of a kept result. Time is read together
\* with live(p), which never returns.
Expire(p) ==
    /\ preview[p].status \in {"preview", "dispatched", "completed"} /\ live(p) /\ ~preview[p].expired
    /\ preview' = [preview EXCEPT ![p] = [@ EXCEPT !.expired = TRUE]]
    /\ UNCHANGED <<subject, source, enabled, latest, exec, quota, sends>>

\* The process dies: the dispatch is left as it is.
Crash(p) ==
    /\ exec[p] # "idle"
    /\ exec' = [exec EXCEPT ![p] = "idle"]
    /\ UNCHANGED <<subject, source, enabled, preview, latest, quota, sends>>

Next ==
    \/ \E p \in Previews :
          \/ \E loc \in {"local", "external"} : createPreview(p, loc)
          \/ consumePreview(p) \/ egress(p) \/ failDispatch(p)
          \/ \E abstained \in BOOLEAN : finishDispatch(p, abstained)
          \/ \E status \in {"rejected", "revoked"} : withdraw(p, status)
          \/ Expire(p) \/ Crash(p)
    \/ \E localities \in SUBSET {"local", "external"} : updatePolicy(localities)
    \/ SourceDeleted

Spec == Init /\ [][Next]_vars

------------------------------------------------------------------------------
\* The previews whose call reached a provider, and those whose consent may still.
Sent == {p \in Previews : sends[p] > 0}
Consumers == {p \in Previews : sends[p] > 0 \/ exec[p] = "consumed"}

\* One consent reaches a provider at most once and calls stay within the day's quota,
\* through failures, withdrawals and crashes.
ConsentSpentOnce ==
    /\ \A p \in Previews : sends[p] <= 1
    /\ Cardinality(Sent) <= quota

\* A call that may still reach its provider took its consent and its unit of the quota.
ConsentTaken ==
    /\ \A p \in Previews :
          /\ preview[p].status \in {"none", "preview"} => exec[p] = "idle" /\ sends[p] = 0
          /\ exec[p] = "consumed" => sends[p] = 0
    /\ Cardinality(Consumers) <= quota

\* One consent reaches one provider once, and the quota bounds what was sent.
InferenceSafe == TypeOK /\ ConsentSpentOnce /\ ConsentTaken

\* A withdrawn preview never shows a result, whatever its call in progress answers later;
\* and no external call leaves while a local suggestion for the same subject is open.
WithdrawnStaysWithdrawn ==
    \A p \in Previews :
        preview[p].status \in {"rejected", "revoked"} => preview'[p].status = preview[p].status

LocalFirst ==
    \A p \in Previews : sends'[p] > sends[p] /\ preview[p].loc = "external" =>
        ~\E q \in Previews : /\ preview[q].loc = "local" /\ preview[q].subject = preview[p].subject
                              /\ lookup("local") = {q} /\ ~preview[q].abstained

\* What a step of the inference may do: both halves of InferenceSteps.
InferenceStep == WithdrawnStaysWithdrawn /\ LocalFirst

\* A withdrawn preview stays withdrawn under late answers; the local reading comes first.
InferenceSteps == [][InferenceStep]_vars
================================================================================
