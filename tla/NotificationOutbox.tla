-------------------------- MODULE NotificationOutbox --------------------------
(***************************************************************************)
(* Delivery of notifications: the outbox rows of the workflow store and    *)
(* the runtimes that list, claim, re-authorize, send and record them.      *)
(*                                                                         *)
(* A row is claimed under a token for a limited time. A runtime sends      *)
(* between two store calls, so its claim may run out, be reclaimed by      *)
(* another runtime that had listed the row earlier, or be suppressed while *)
(* the adapter works; the runtime may also die with the claim.             *)
(***************************************************************************)
EXTENDS Naturals, FiniteSets

CONSTANTS
    Rows,           \* one per (event, channel, delivery key), as the table's UNIQUE says
    Workers,        \* running processPending, processRetries or dispatch calls
    Tokens,         \* claim tokens; random, so a new one is in use nowhere
    MaxAttempts,    \* the policy's maxRetries, stored as max_attempts
    MaxExpiries,    \* bound: claims of one row that run out
    MaxLost,        \* bound: sends of one row whose success is not recorded
    MaxReuse,       \* bound: dispatch calls of one row repeated with their token
    MaxCrashes,     \* bound
    None

ASSUME OutboxAssumption ==
    /\ MaxAttempts \in Nat \ {0}
    /\ {MaxExpiries, MaxLost, MaxReuse, MaxCrashes} \subseteq Nat
    /\ IsFiniteSet(Workers)
    /\ None \notin Tokens \cup Rows

VARIABLES
    \* ----- notification_outbox
    ostatus, token, attempts, acked,
    fresh,      \* claim_expires_at is still ahead
    retry,      \* next_attempt_at is set
    \* ----- governance
    authorized, \* the row's recipient may receive it now
    \* ----- the runtimes
    wpc, todo, cur, tok,
    \* ----- history
    sent,       \* times the channel provider accepted the row's message
    expiries, lost, reused, crashes,
    okSince     \* the recipient has been authorized since the worker's claim

rowVars    == <<ostatus, token, attempts, acked, fresh, retry>>
workerVars == <<wpc, todo, cur, tok>>
faultVars  == <<expiries, lost, reused, crashes>>
vars == <<rowVars, authorized, workerVars, faultVars, sent, okSince>>

RowStatuses == {"absent", "pending", "delivering", "delivered", "failed", "suppressed"}
InFlight == {"authorize", "send", "complete", "fail"}
WorkerPcs == {"idle", "loop"} \cup InFlight

Init ==
    /\ ostatus = [r \in Rows |-> "absent"]
    /\ token = [r \in Rows |-> None]
    /\ attempts = [r \in Rows |-> 0]
    /\ acked = [r \in Rows |-> FALSE]
    /\ fresh = [r \in Rows |-> FALSE]
    /\ retry = [r \in Rows |-> FALSE]
    /\ authorized = [r \in Rows |-> TRUE]
    /\ wpc = [w \in Workers |-> "idle"]
    /\ todo = [w \in Workers |-> {}]
    /\ cur = [w \in Workers |-> None]
    /\ tok = [w \in Workers |-> None]
    /\ sent = [r \in Rows |-> 0]
    /\ expiries = [r \in Rows |-> 0]
    /\ lost = [r \in Rows |-> 0]
    /\ reused = [r \in Rows |-> 0]
    /\ crashes = 0
    /\ okSince = [w \in Workers |-> FALSE]

------------------------------------------------------------------------------
(* The store. *)

\* A second enqueue under the same delivery key returns the row unchanged.
enqueueNotification(r) ==
    /\ ostatus[r] = "absent"
    /\ ostatus' = [ostatus EXCEPT ![r] = "pending"]
    /\ UNCHANGED <<token, attempts, acked, fresh, retry, authorized, workerVars, faultVars,
                   sent, okSince>>

\* Variant: a claim that has not run out is taken over too.
Claimable_Running(r) ==
    \/ ostatus[r] \in {"pending", "delivering"}
    \/ ostatus[r] = "failed" /\ retry[r]

Claimable(r) ==
    \/ ostatus[r] = "pending"
    \/ ostatus[r] = "delivering" /\ ~fresh[r]
    \/ ostatus[r] = "failed" /\ retry[r]

ClaimRow(r, t) ==
    /\ ostatus' = [ostatus EXCEPT ![r] = "delivering"]
    /\ token' = [token EXCEPT ![r] = t]
    /\ fresh' = [fresh EXCEPT ![r] = TRUE]
    /\ attempts' = [attempts EXCEPT ![r] = @ + 1]
    /\ retry' = [retry EXCEPT ![r] = @ /\ ostatus[r] # "failed"]
    /\ UNCHANGED acked

\* The status and token guard of completeOutbox and failOutbox.
Holds(w) == ostatus[cur[w]] = "delivering" /\ token[cur[w]] = tok[w]

completeRow(r) ==
    /\ ostatus' = [ostatus EXCEPT ![r] = "delivered"]
    /\ token' = [token EXCEPT ![r] = None]
    /\ fresh' = [fresh EXCEPT ![r] = FALSE]
    /\ UNCHANGED <<attempts, acked, retry>>

\* Variant: the retry is scheduled but the row is not taken out of delivery.
failRow_OnlySchedules(r, retryable) ==
    /\ retry' = [retry EXCEPT ![r] = @ \/ (retryable /\ attempts[r] < MaxAttempts)]
    /\ UNCHANGED <<ostatus, token, fresh, attempts, acked>>

\* failOutbox, then scheduleRetryOutbox while attempts remain.
failRow(r, retryable) ==
    /\ ostatus' = [ostatus EXCEPT ![r] = "failed"]
    /\ token' = [token EXCEPT ![r] = None]
    /\ fresh' = [fresh EXCEPT ![r] = FALSE]
    /\ retry' = [retry EXCEPT ![r] = @ \/ (retryable /\ attempts[r] < MaxAttempts)]
    /\ UNCHANGED <<attempts, acked>>

acknowledgeNotification(r) ==
    /\ ostatus[r] = "delivered"
    /\ acked' = [acked EXCEPT ![r] = TRUE]
    /\ UNCHANGED <<ostatus, token, attempts, fresh, retry, authorized, workerVars, faultVars,
                   sent, okSince>>

\* The claim and a scheduled retry stay on the suppressed row.
suppressNotification(r) ==
    /\ ostatus[r] \in {"pending", "delivering", "failed"}
    /\ ostatus' = [ostatus EXCEPT ![r] = "suppressed"]
    /\ UNCHANGED <<token, attempts, acked, fresh, retry, authorized, workerVars, faultVars,
                   sent, okSince>>

ExpireClaim(r) ==
    /\ ostatus[r] = "delivering" /\ fresh[r]
    /\ expiries[r] < MaxExpiries
    /\ fresh' = [fresh EXCEPT ![r] = FALSE]
    /\ expiries' = [expiries EXCEPT ![r] = @ + 1]
    /\ UNCHANGED <<ostatus, token, attempts, acked, retry, authorized, workerVars, lost, reused,
                   crashes, sent, okSince>>

\* The recipient loses, or regains, the capability the row needs.
ChangeAuthority(r) ==
    /\ authorized' = [authorized EXCEPT ![r] = ~@]
    /\ okSince' = [w \in Workers |-> okSince[w] \/ (cur[w] = r /\ ~authorized[r])]
    /\ UNCHANGED <<rowVars, workerVars, faultVars, sent>>

------------------------------------------------------------------------------
(* NotificationRuntime. *)

Batch(w, R) ==
    /\ wpc[w] = "idle" /\ R # {}
    /\ wpc' = [wpc EXCEPT ![w] = "loop"]
    /\ todo' = [todo EXCEPT ![w] = R]
    /\ UNCHANGED <<rowVars, authorized, cur, tok, faultVars, sent, okSince>>

processPending(w) == Batch(w, {r \in Rows : ostatus[r] = "pending"})

processRetries(w) == Batch(w, {r \in Rows : ostatus[r] = "failed" /\ retry[r]})

Unused == {t \in Tokens : (\A r \in Rows : token[r] # t) /\ (\A w \in Workers : tok[w] # t)}

\* dispatch() settled: the batch goes on, or the call that made it returns.
Settle(w, rest) ==
    /\ wpc' = [wpc EXCEPT ![w] = IF rest = {} THEN "idle" ELSE "loop"]
    /\ todo' = [todo EXCEPT ![w] = rest]
    /\ cur' = [cur EXCEPT ![w] = None]
    /\ tok' = [tok EXCEPT ![w] = None]
    /\ okSince' = [okSince EXCEPT ![w] = FALSE]

\* dispatch() rejects, and with it the batch.
Abort(w) == Settle(w, {})

Start(w, r, t) ==
    /\ wpc' = [wpc EXCEPT ![w] = "authorize"]
    /\ todo' = [todo EXCEPT ![w] = @ \ {r}]
    /\ cur' = [cur EXCEPT ![w] = r]
    /\ tok' = [tok EXCEPT ![w] = t]
    /\ okSince' = [okSince EXCEPT ![w] = authorized[r]]

\* The next row of the batch, claimed under a new token, or already someone else's.
DispatchListed(w, r) ==
    /\ wpc[w] = "loop" /\ r \in todo[w]
    /\ \/ /\ Claimable(r)
          /\ \E t \in Unused : ClaimRow(r, t) /\ Start(w, r, t)
       \/ /\ ~Claimable(r)
          /\ Settle(w, todo[w] \ {r})
          /\ UNCHANGED rowVars
    /\ UNCHANGED <<authorized, faultVars, sent>>

\* A dispatch() call with a token of its own ...
dispatch(w, r) ==
    /\ wpc[w] = "idle"
    /\ Claimable(r)
    /\ \E t \in Unused : ClaimRow(r, t) /\ Start(w, r, t)
    /\ UNCHANGED <<authorized, faultVars, sent>>

\* ... and one repeated with the token the row still carries. An expired claim is
\* renewed; otherwise selectClaimedOutbox returns the row, whatever its status.
RepeatDispatch(w, r) ==
    /\ wpc[w] = "idle"
    /\ token[r] # None
    /\ reused[r] < MaxReuse
    /\ reused' = [reused EXCEPT ![r] = @ + 1]
    /\ IF Claimable(r) THEN ClaimRow(r, token[r]) ELSE UNCHANGED rowVars
    /\ Start(w, r, token[r])
    /\ UNCHANGED <<authorized, expiries, lost, crashes, sent>>

Goto(w, l) ==
    /\ wpc' = [wpc EXCEPT ![w] = l]
    /\ UNCHANGED <<todo, cur, tok, okSince>>

\* failNotificationDelivery: a row that is no longer held makes dispatch() reject.
RecordFailure(w, retryable) ==
    \/ /\ Holds(w)
       /\ failRow(cur[w], retryable)
       /\ Settle(w, todo[w])
    \/ /\ ~Holds(w)
       /\ UNCHANGED rowVars
       /\ Abort(w)

\* Variant: the authority found at enqueue time is taken as still good.
Deliverable_AsEnqueued(r) == TRUE

Deliverable(r) == authorized[r]

\* Event, recipient, eligibility and authority are looked up again; then the adapter.
Authorize(w) ==
    /\ wpc[w] = "authorize"
    /\ \/ Deliverable(cur[w]) /\ Goto(w, "send") /\ UNCHANGED rowVars
       \/ RecordFailure(w, FALSE)   \* not authorized, no event, no adapter
       \/ RecordFailure(w, TRUE)    \* adapter unhealthy
    /\ UNCHANGED <<authorized, faultVars, sent>>

\* adapter.deliver: the message goes out or not, and the answer may be lost.
Send(w) ==
    LET r == cur[w] IN
    /\ wpc[w] = "send"
    /\ \/ /\ sent' = [sent EXCEPT ![r] = @ + 1]
          /\ Goto(w, "complete")
          /\ UNCHANGED lost
       \/ /\ sent' = [sent EXCEPT ![r] = @ + 1]
          /\ lost[r] < MaxLost
          /\ lost' = [lost EXCEPT ![r] = @ + 1]
          /\ Goto(w, "fail")
       \/ /\ Goto(w, "fail")
          /\ UNCHANGED <<sent, lost>>
    /\ UNCHANGED <<rowVars, authorized, expiries, reused, crashes>>

\* completeNotificationDelivery; when it throws, the catch records a failure.
Complete(w) ==
    LET r == cur[w] IN
    /\ wpc[w] = "complete"
    /\ \/ /\ Holds(w)
          /\ completeRow(r)
          /\ Settle(w, todo[w]) \/ Abort(w)   \* Abort: no row for the attempt
          /\ UNCHANGED lost
       \/ /\ Holds(w)                       \* the store is unavailable for a moment
          /\ lost[r] < MaxLost
          /\ lost' = [lost EXCEPT ![r] = @ + 1]
          /\ Goto(w, "fail")
          /\ UNCHANGED rowVars
       \/ /\ ~Holds(w)
          /\ Goto(w, "fail")
          /\ UNCHANGED <<rowVars, lost>>
    /\ UNCHANGED <<authorized, expiries, reused, crashes, sent>>

\* The provider's error, classified as retryable or terminal, or an exception.
Fail(w) ==
    /\ wpc[w] = "fail"
    /\ \E retryable \in BOOLEAN : RecordFailure(w, retryable)
    /\ UNCHANGED <<authorized, faultVars, sent>>

\* The process of a runtime dies; in the middle of a failure the retry is lost.
Crash(w) ==
    /\ wpc[w] # "idle"
    /\ crashes < MaxCrashes
    /\ crashes' = crashes + 1
    /\ Abort(w)
    /\ \/ UNCHANGED rowVars
       \/ wpc[w] = "fail" /\ Holds(w) /\ failRow(cur[w], FALSE)
    /\ UNCHANGED <<authorized, expiries, lost, reused, sent>>

Work(w) ==
    \/ Authorize(w) \/ Send(w) \/ Complete(w) \/ Fail(w)
    \/ \E r \in Rows : DispatchListed(w, r)

Next ==
    \/ \E r \in Rows : \/ enqueueNotification(r) \/ acknowledgeNotification(r)
                       \/ suppressNotification(r) \/ ExpireClaim(r) \/ ChangeAuthority(r)
    \/ \E w \in Workers : \/ processPending(w) \/ processRetries(w) \/ Work(w) \/ Crash(w)
                          \/ \E r \in Rows : dispatch(w, r) \/ RepeatDispatch(w, r)

Spec == Init /\ [][Next]_vars

\* Whoever schedules the two loops keeps calling them, adapters answer, time passes.
FairSpec ==
    /\ Spec
    /\ \A w \in Workers : /\ WF_vars(Work(w))
                          /\ SF_vars(processPending(w)) /\ SF_vars(processRetries(w))
    /\ \A r \in Rows : WF_vars(ExpireClaim(r))
------------------------------------------------------------------------------
(* Properties. *)

\* Every variable keeps its type; a worker has a row and a token exactly while it
\* dispatches; and a row has a live claim only while it has a token.
TypeOK ==
    /\ ostatus \in [Rows -> RowStatuses]
    /\ token \in [Rows -> Tokens \cup {None}]
    /\ attempts \in [Rows -> Nat]
    /\ acked \in [Rows -> BOOLEAN]
    /\ fresh \in [Rows -> BOOLEAN]
    /\ retry \in [Rows -> BOOLEAN]
    /\ authorized \in [Rows -> BOOLEAN]
    /\ wpc \in [Workers -> WorkerPcs]
    /\ todo \in [Workers -> SUBSET Rows]
    /\ cur \in [Workers -> Rows \cup {None}]
    /\ tok \in [Workers -> Tokens \cup {None}]
    /\ sent \in [Rows -> Nat]
    /\ expiries \in [Rows -> Nat]
    /\ lost \in [Rows -> Nat]
    /\ reused \in [Rows -> Nat]
    /\ crashes \in Nat
    /\ okSince \in [Workers -> BOOLEAN]
    /\ \A w \in Workers : wpc[w] \in InFlight <=> cur[w] # None
    /\ \A w \in Workers : wpc[w] \in InFlight <=> tok[w] # None

\* A message goes out once, plus at most once for every claim that ran out, every
\* success that was not recorded and every call repeated with its token: runtimes
\* that list, claim, retry and crash concurrently add no send of their own.
SendsAccounted ==
    \A r \in Rows : sent[r] <= 1 + expiries[r] + lost[r] + reused[r]

\* A row is attempted max_attempts times at most, not counting claims that ran out.
AttemptsBounded ==
    \A r \in Rows : attempts[r] <= MaxAttempts + expiries[r]

\* Where the next send of a row may come from: a row that can be claimed again without a
\* claim running out first, and each runtime that has yet to send or will give the row back.
Reclaimable(r) ==
    \/ ostatus[r] \in {"absent", "pending"}
    \/ ostatus[r] = "failed" /\ retry[r]
    \/ ostatus[r] = "delivering" /\ ~fresh[r]

MaySend(r) ==
    {w \in Workers : /\ cur[w] = r
                     /\ wpc[w] \in {"authorize", "send"} \/ (wpc[w] = "fail" /\ Holds(w))}

SendsReserved ==
    \A r \in Rows :
        sent[r] + (IF Reclaimable(r) THEN 1 ELSE 0) + Cardinality(MaySend(r))
            <= 1 + expiries[r] + lost[r] + reused[r]

\* A row that can be claimed has an attempt left; only a failed one waits for a retry.
AttemptsLeft ==
    \A r \in Rows :
        /\ ostatus[r] \in {"absent", "pending"} => attempts[r] = 0
        /\ retry[r] => ostatus[r] \in {"failed", "suppressed"}
        /\ Claimable(r) => attempts[r] < MaxAttempts + expiries[r]
        /\ token[r] # None => ostatus[r] \in {"delivering", "suppressed"}

\* A runtime whose recipient is authorized has seen it so, and so has one that sends.
AuthoritySeen ==
    \A w \in Workers :
        /\ wpc[w] \in InFlight /\ authorized[cur[w]] => okSince[w]
        /\ wpc[w] = "send" => okSince[w]

\* Rows and runtimes are well formed, and no send or attempt is without its cause. The
\* last three parts make it inductive.
DeliverySafe ==
    /\ TypeOK /\ SendsAccounted /\ AttemptsBounded
    /\ SendsReserved /\ AttemptsLeft /\ AuthoritySeen

\* A suppressed or delivered row stays what it is, however late an answer or a
\* failure of its claimant arrives.
OutcomeFinal ==
    \A r \in Rows : ostatus[r] \in {"suppressed", "delivered"} => ostatus'[r] = ostatus[r]

\* A message leaves only to a recipient that was authorized at some moment after the
\* row was claimed for this very attempt.
SentUnderAuthority ==
    \A w \in Workers :
        wpc[w] = "send" /\ wpc'[w] # "send" /\ cur[w] # None /\ sent'[cur[w]] # sent[cur[w]]
            => okSince[w]

\* OutcomeFinal and SentUnderAuthority: no step of dispatch, completion, failure or
\* suppression takes an outcome back or sends on an authority that was lost before the claim.
DeliverySteps == [][OutcomeFinal /\ SentUnderAuthority]_vars

\* A row that is being delivered is resolved in the end, unless a runtime dies: claims
\* that run out, lost answers and aborted batches do not leave it behind.
DeliveringEnds ==
    \A r \in Rows : ostatus[r] = "delivering" ~> ostatus[r] # "delivering" \/ crashes > 0

\* "Delivery is claim-based for crash recovery": a claim that ran out does not stay
\* that way; the row is claimed again or resolved.
ExpiredClaimEnds ==
    \A r \in Rows : ostatus[r] = "delivering" /\ ~fresh[r] ~> ostatus[r] # "delivering" \/ fresh[r]
==============================================================================
