--------------------------- MODULE MerchantResearch ---------------------------
(***************************************************************************)
(* Merchant research: a consented search at a paid external provider. A    *)
(* call reserves quota, claims the reservation, marks its dispatch, checks *)
(* its authority once more, calls the provider outside every lock and then *)
(* publishes under a fresh capture. The store's transactions are the       *)
(* atomic steps; other calls, policy changes, deletions, lapsing leases,   *)
(* crashes and the restore of a backup happen between them.                *)
(*                                                                         *)
(* One quota window stands for the UTC day and for the UTC month, which    *)
(* the code counts in the same rows; every search costs one unit.          *)
(***************************************************************************)
EXTENDS Naturals, FiniteSets

CONSTANTS
    Workers,     \* concurrent callers of the coordinator
    Ids,         \* idempotency keys, each naming one attempt
    Key,         \* the cache identity each idempotency key asks for
    None,
    Cap,         \* searches a quota bucket admits in a window
    MaxRunning,  \* searches the installation runs at a time (2 in the code)
    MaxWindow,   \* bound on windows
    MaxGen       \* bound on generations of the scope

\* What any instance has: finitely many keys, and None is neither a caller nor a copy.
ResearchConstants ==
    /\ IsFiniteSet(Ids) /\ None \notin Workers /\ None \notin Ids
    /\ Cap \in Nat /\ MaxRunning \in Nat /\ MaxWindow \in Nat \ {0} /\ MaxGen \in Nat

VARIABLES
    attempt,   \* rows of merchant_research_attempts
    cache,     \* generation of the enrichment stored under each cache identity, 0: none
    scope,     \* generation, restore_pending, billing hold (a window) and billing_unresolved
    allowed,   \* the policy's mode is external-allowed
    window,    \* current quota window
    backup,    \* a copy of the database taken earlier
    call,      \* what each caller knows
    sends,     \* requests that reached the provider, by the window they were reserved in
    floor      \* generation since which nothing was erased

vars == <<attempt, cache, scope, allowed, window, backup, call, sends, floor>>

Windows == 1..MaxWindow
Keys == {Key[k] : k \in Ids}
Phases == {"none", "reserved", "dispatched", "succeeded", "known_failed", "uncertain"}
Blank == [phase |-> "none", gen |-> 0, window |-> 1, live |-> FALSE, token |-> None,
          launched |-> FALSE, outcome |-> "none", deleted |-> FALSE]
Attempt == [phase : Phases, gen : 0..MaxGen, window : Windows, live : BOOLEAN,
            token : Workers \cup {None}, launched : BOOLEAN,
            outcome : {"none", "not_billed", "uncertain", "charged"}, deleted : BOOLEAN]
Idle == [pc |-> "idle", id |-> None, gen |-> 0, valid |-> FALSE,
         result |-> "none"]
Call == [pc : {"idle", "claim", "dispatch", "egress", "calling", "finish", "settle", "release"},
         id : Ids \cup {None}, gen : 0..MaxGen, valid : BOOLEAN,
         result : {"none", "ok", "uncertain", "not_dispatched"}]

TypeOK ==
    /\ attempt \in [Ids -> Attempt]
    /\ cache \in [Keys -> 0..MaxGen]
    /\ scope \in [gen : 0..MaxGen, pending : BOOLEAN, hold : 0..MaxWindow, unresolved : BOOLEAN]
    /\ allowed \in BOOLEAN /\ window \in Windows /\ floor \in 0..MaxGen
    /\ backup = None \/ backup \in [attempt : [Ids -> Attempt], gen : 0..MaxGen, unresolved : BOOLEAN]
    /\ call \in [Workers -> Call]
    /\ sends \in [Windows -> Nat]

Init ==
    /\ attempt = [k \in Ids |-> Blank]
    /\ cache = [x \in Keys |-> 0]
    /\ scope = [gen |-> 0, pending |-> FALSE, hold |-> 0, unresolved |-> FALSE]
    /\ allowed = FALSE /\ window = 1 /\ floor = 0 /\ backup = None
    /\ call = [w \in Workers |-> Idle]
    /\ sends = [d \in Windows |-> 0]

------------------------------------------------------------------------------
Row(w) == attempt[call[w].id]

Goto(w, pc) == call' = [call EXCEPT ![w].pc = pc]

Return(w) == call' = [call EXCEPT ![w] = Idle]

NotBilled(a) ==
    [a EXCEPT !.phase = "known_failed", !.token = None, !.outcome = "not_billed", !.live = FALSE]

\* Expired unsent reservations give their quota back; an expired dispatch is uncertain.
reconcile(rows) ==
    [k \in Ids |->
        LET a == rows[k] IN
        CASE a.phase = "reserved" /\ ~a.live -> NotBilled(a)
          [] a.phase = "dispatched" /\ ~a.live -> [a EXCEPT !.phase = "uncertain"]
          [] OTHER -> a]

cancel(rows) == [k \in Ids |-> IF rows[k].phase = "reserved" THEN NotBilled(rows[k]) ELSE rows[k]]

\* The caller's capture is still authorized and its generation current.
permitted(w) == call[w].valid /\ call[w].gen = scope.gen /\ ~scope.pending

admittedAttempt(w) == permitted(w) /\ Row(w).gen = call[w].gen /\ ~Row(w).deleted

\* Attempts that use the quota of a window: all but the ones known not to be billed.
Counted(rows, d) == {k \in Ids : rows[k].window = d /\ rows[k].phase \notin {"none", "known_failed"}}

\* An unsettled dispatch may still be executing, whatever deletion made of its phase.
Running(rows) ==
    {k \in Ids : /\ rows[k].live
                 /\ \/ rows[k].phase = "dispatched"
                    \/ rows[k].phase = "uncertain" /\ rows[k].outcome = "none"}

\* A consented request is captured and reserved: it admits at most one new attempt, and an
\* old one to its own idempotency key. A denied request leaves nothing behind.
research(w, k) ==
    LET rows == reconcile(attempt)
        pending == \E o \in Ids : /\ Key[o] = Key[k] /\ rows[o].gen = scope.gen /\ rows[o].live
                                  /\ rows[o].phase \in {"reserved", "dispatched"}
                                  /\ ~rows[o].deleted
        admitted == call' = [call EXCEPT ![w] = [Idle EXCEPT !.pc = "claim", !.id = k,
                                                             !.gen = scope.gen, !.valid = TRUE]]
    IN /\ call[w].pc = "idle"
       /\ cache[Key[k]] # scope.gen \/ scope.gen = 0
       /\ allowed /\ ~scope.pending /\ ~scope.unresolved /\ scope.hold < window
       /\ attempt[k].phase # "none" => ~attempt[k].deleted /\ attempt[k].gen = scope.gen
       /\ \/ attempt[k].phase # "none" /\ attempt' = rows /\ admitted
          \/ /\ attempt[k].phase = "none"
             /\ pending \/ Cardinality(Counted(rows, window)) >= Cap
             /\ attempt' = rows
             /\ UNCHANGED call
          \/ /\ attempt[k].phase = "none" /\ ~pending
             /\ Cardinality(Counted(rows, window)) < Cap
             /\ attempt' = [rows EXCEPT ![k] = [Blank EXCEPT !.phase = "reserved", !.live = TRUE,
                                                   !.gen = scope.gen, !.window = window]]
             /\ admitted
       /\ UNCHANGED <<cache, scope, allowed, window, backup, sends, floor>>

\* Only one caller ever owns a reservation; claiming renews its lease.
claimAttempt(w) ==
    LET k == call[w].id
        mine == /\ Row(w).phase = "reserved" /\ Row(w).live /\ Row(w).token = None /\ allowed
        rows == reconcile(attempt)
    IN /\ call[w].pc = "claim"
       /\ \/ ~admittedAttempt(w) /\ Return(w) /\ UNCHANGED attempt
          \/ admittedAttempt(w) /\ ~mine /\ attempt' = rows /\ Return(w)
          \/ /\ admittedAttempt(w) /\ mine
             /\ attempt' = [rows EXCEPT ![k].token = w]
             /\ Goto(w, "dispatch")
       /\ UNCHANGED <<cache, scope, allowed, window, backup, sends, floor>>

\* The durable mark that the provider may be called. A launch within the last second
\* of the same credential also refuses it.
dispatchAttempt(w) ==
    LET k == call[w].id
        rows == reconcile(attempt)
        ready == /\ Row(w).phase = "reserved" /\ Row(w).token = w /\ Row(w).live /\ allowed
                 /\ Row(w).window = window
                 /\ Cardinality(Running(rows)) < MaxRunning
        spaced == \E o \in Ids \ {k} : attempt[o].launched
    IN /\ call[w].pc = "dispatch"
       /\ \/ ~admittedAttempt(w) /\ Goto(w, "release") /\ UNCHANGED attempt
          \/ admittedAttempt(w) /\ (~ready \/ spaced) /\ attempt' = rows /\ Goto(w, "release")
          \/ /\ admittedAttempt(w) /\ ready
             /\ attempt' = [rows EXCEPT ![k].phase = "dispatched", ![k].launched = TRUE]
             /\ Goto(w, "egress")
       /\ UNCHANGED <<cache, scope, allowed, window, backup, sends, floor>>

\* The last check before the request leaves; from there on the search may be billed.
beforeEgress(w) ==
    /\ call[w].valid /\ call[w].gen = scope.gen
    /\ Row(w).window = window
    /\ Row(w).live

egress(w) ==
    /\ call[w].pc = "egress"
    /\ \/ ~beforeEgress(w) /\ Goto(w, "release") /\ UNCHANGED sends
       \/ beforeEgress(w) /\ Goto(w, "calling") /\ sends' = [sends EXCEPT ![Row(w).window] = @ + 1]
       \/ /\ beforeEgress(w)
          /\ call' = [call EXCEPT ![w].pc = "finish", ![w].result = "not_dispatched"]
          /\ UNCHANGED sends
    /\ UNCHANGED <<attempt, cache, scope, allowed, window, backup, floor>>

\* The provider answers, fails or times out.
answer(w) ==
    /\ call[w].pc = "calling"
    /\ \E r \in {"ok", "uncertain"} :
          call' = [call EXCEPT ![w].pc = "finish", ![w].result = r]
    /\ UNCHANGED <<attempt, cache, scope, allowed, window, backup, sends, floor>>

\* Settlement by the owner, under current authority, once.
settleAttempt(w, phase, outcome) ==
    IF /\ admittedAttempt(w) /\ Row(w).token = w /\ Row(w).launched
       /\ Row(w).outcome = "none" /\ Row(w).phase \in {"dispatched", "uncertain"}
    THEN attempt' = [attempt EXCEPT ![call[w].id].phase = phase, ![call[w].id].outcome = outcome]
    ELSE UNCHANGED attempt

\* Variant: an answer is published whatever was deleted since it was asked for.
putCache_AnyGeneration(w) ==
    /\ Row(w).token = w /\ Row(w).live /\ allowed

\* Only a live, current, undeleted dispatch of the owner may be published.
putCache(w) ==
    /\ admittedAttempt(w) /\ Row(w).phase = "dispatched" /\ Row(w).token = w
    /\ Row(w).live /\ allowed

\* The answer is settled or published under a fresh capture that equals the first one.
finish(w) ==
    /\ call[w].pc = "finish"
    /\ \/ call[w].result = "not_dispatched" /\ settleAttempt(w, "known_failed", "not_billed")
          /\ Return(w) /\ UNCHANGED cache
       \/ call[w].result = "uncertain" /\ settleAttempt(w, "uncertain", "uncertain")
          /\ Return(w) /\ UNCHANGED cache
       \/ /\ call[w].result = "ok" /\ putCache(w)
          /\ cache' = [cache EXCEPT ![Key[call[w].id]] = call[w].gen]
          /\ Goto(w, "settle") /\ UNCHANGED attempt
       \/ /\ call[w].result = "ok" /\ ~putCache(w)
          /\ Return(w) /\ UNCHANGED <<attempt, cache>>
    /\ UNCHANGED <<scope, allowed, window, backup, sends, floor>>

settle(w) ==
    /\ call[w].pc = "settle"
    /\ settleAttempt(w, "succeeded", "charged")
    /\ Return(w)
    /\ UNCHANGED <<cache, scope, allowed, window, backup, sends, floor>>

\* The owner that never called its provider gives the reservation back.
releaseUnsentAttempt(w) ==
    /\ call[w].pc = "release"
    /\ IF /\ Row(w).gen = call[w].gen /\ Row(w).token = w /\ Row(w).live
          /\ Row(w).phase \in {"reserved", "dispatched", "uncertain"}
          /\ Row(w).outcome \in {"none", "uncertain"}
       THEN attempt' = [attempt EXCEPT ![call[w].id] = NotBilled(@)]
       ELSE UNCHANGED attempt
    /\ Return(w)
    /\ UNCHANGED <<cache, scope, allowed, window, backup, sends, floor>>

------------------------------------------------------------------------------
\* A new policy opens a generation and cancels unsent reservations. Aborting the calls in
\* progress only hastens an answer their generation no longer admits.
setPolicy(mode) ==
    /\ scope.gen < MaxGen /\ ~scope.pending
    /\ scope' = [scope EXCEPT !.gen = @ + 1]
    /\ allowed' = mode
    /\ attempt' = cancel(attempt)
    /\ UNCHANGED <<cache, window, backup, call, sends, floor>>

\* Deletion erases content and keeps billing rows and the tokens of running owners.
erase(rows) ==
    [k \in Ids |->
        LET a == rows[k] IN
        IF a.phase = "none" THEN a
        ELSE [a EXCEPT !.phase = IF @ = "dispatched" THEN "uncertain" ELSE @,
                       !.token = IF a.phase \in {"dispatched", "uncertain"} THEN @ ELSE None,
                       !.deleted = TRUE]]

purge ==
    /\ scope.gen < MaxGen
    /\ scope' = [scope EXCEPT !.gen = @ + 1]
    /\ attempt' = erase(cancel(attempt))
    /\ cache' = [x \in Keys |-> 0]
    /\ floor' = scope.gen + 1
    /\ UNCHANGED <<allowed, window, backup, call, sends>>

\* Retention: sweeping leases is what it does within a window.
prune ==
    /\ attempt' = reconcile(attempt)
    /\ UNCHANGED <<cache, scope, allowed, window, backup, call, sends, floor>>

\* The installation is copied; the copy is kept as a restore of it will leave it. A copy
\* that could not be restored within MaxGen is not made.
Backup ==
    /\ backup = None /\ scope.gen < MaxGen
    /\ backup' = [attempt |-> [k \in Ids |-> [erase(cancel(attempt))[k] EXCEPT !.token = None,
                                                                              !.live = FALSE]],
                  gen |-> scope.gen,
                  unresolved |-> \E k \in Ids : attempt[k].phase \in {"dispatched", "uncertain"}]
    /\ UNCHANGED <<attempt, cache, scope, allowed, window, call, sends, floor>>

\* The copy replaces the installation, which restarts: consent is withdrawn, content gone,
\* and billing the copy cannot know of is held until the window ends.
reconcileMerchantRestore ==
    /\ backup # None /\ backup.gen < MaxGen
    /\ scope' = [gen |-> backup.gen + 1, pending |-> TRUE, hold |-> window,
                 unresolved |-> backup.unresolved]
    /\ attempt' = backup.attempt
    /\ cache' = [x \in Keys |-> 0]
    /\ allowed' = FALSE
    /\ floor' = backup.gen + 1
    /\ call' = [w \in Workers |-> Idle]
    /\ backup' = None
    /\ UNCHANGED <<window, sends>>

acknowledgeRestore ==
    /\ scope.pending
    /\ scope' = [scope EXCEPT !.pending = FALSE]
    /\ UNCHANGED <<attempt, cache, allowed, window, backup, call, sends, floor>>

\* A lease of thirty seconds passes. The lease of a closed attempt is never read again.
LeaseLapses(k) ==
    /\ attempt[k].live /\ attempt[k].phase \in {"reserved", "dispatched", "uncertain"}
    /\ attempt' = [attempt EXCEPT ![k].live = FALSE]
    /\ UNCHANGED <<cache, scope, allowed, window, backup, call, sends, floor>>

WindowEnds ==
    /\ window < MaxWindow
    /\ window' = window + 1
    /\ UNCHANGED <<attempt, cache, scope, allowed, backup, call, sends, floor>>

\* Grants, configuration, consent or source evidence of a capture stop holding.
Invalidate(w) ==
    /\ call[w].valid
    /\ call' = [call EXCEPT ![w].valid = FALSE]
    /\ UNCHANGED <<attempt, cache, scope, allowed, window, backup, sends, floor>>

\* A process dies: its call ends without its cleanup.
Crash(w) ==
    /\ call[w].pc # "idle"
    /\ Return(w)
    /\ UNCHANGED <<attempt, cache, scope, allowed, window, backup, sends, floor>>

Next ==
    \/ \E w \in Workers :
          \/ \E k \in Ids : research(w, k)
          \/ claimAttempt(w) \/ dispatchAttempt(w) \/ egress(w)
          \/ answer(w) \/ finish(w) \/ settle(w) \/ releaseUnsentAttempt(w)
          \/ Invalidate(w) \/ Crash(w)
    \/ \E mode \in BOOLEAN : setPolicy(mode)
    \/ purge \/ prune \/ Backup \/ reconcileMerchantRestore \/ acknowledgeRestore
    \/ \E k \in Ids : LeaseLapses(k)
    \/ WindowEnds

Spec == Init /\ [][Next]_vars

------------------------------------------------------------------------------
\* No window ever sees more searches at the provider than its cap, through released and
\* lapsed reservations, deletions, crashes and the restore of an older copy.
SendsWithinCap == \A d \in Windows : sends[d] <= Cap

\* Attempts whose owner waits for the provider.
Calling ==
    {k \in Ids : attempt[k].live /\ \E w \in Workers :
        call[w].pc = "calling" /\ call[w].id = k /\ attempt[k].token = w}

\* Searches in progress under a live lease stay within the installation's limit, also
\* when a deletion turned some of them uncertain.
LaunchesBounded == Cardinality(Calling) <= MaxRunning /\ Cardinality(Running(attempt)) <= MaxRunning

\* A late answer never brings back content that was erased after its request began.
ErasedStaysErased == \A x \in Keys : cache[x] # 0 => cache[x] >= floor

\* The owner of a launched attempt may still give it back unsent.
Unsent(k) ==
    \E w \in Workers :
        /\ call[w].id = k /\ attempt[k].token = w
        /\ \/ call[w].pc \in {"egress", "release"}
           \/ call[w].pc = "finish" /\ call[w].result = "not_dispatched"

\* Attempts that pay for a search of window d.
Paying(d) == {k \in Counted(attempt, d) : attempt[k].launched /\ ~Unsent(k)}

\* Since the last restore's hold, every search sent is paid by an attempt of its own, and
\* the attempts of a window stay within the cap.
EverySendPaid ==
    \A d \in Windows : d > scope.hold =>
        sends[d] <= Cardinality(Paying(d)) /\ Cardinality(Counted(attempt, d)) <= Cap

\* A caller past its dispatch owns an unsettled attempt, launched once, of a window that is
\* not held; a caller before it has not launched anything.
OwnersHold ==
    \A w \in Workers :
        /\ call[w].pc # "idle" => call[w].id \in Ids
        /\ call[w].pc = "dispatch" /\ Row(w).token = w => ~Row(w).launched
        /\ call[w].pc \in {"egress", "calling"} =>
              /\ Row(w).token = w /\ Row(w).launched /\ Row(w).outcome = "none"
              /\ Row(w).phase \in {"dispatched", "uncertain"} /\ Row(w).window > scope.hold

\* Rows belong to windows that began, a reservation is unlaunched and not of a held window,
\* and a copy has nothing left to run.
RowsInOrder ==
    /\ scope.hold <= window /\ floor <= scope.gen
    /\ \A k \in Ids :
          /\ attempt[k].window <= window
          /\ attempt[k].phase \in {"none", "reserved"} => ~attempt[k].launched
          /\ attempt[k].phase = "reserved" => /\ attempt[k].window > scope.hold
                                              /\ attempt[k].outcome = "none"
    /\ backup # None =>
          \A k \in Ids : LET a == backup.attempt[k] IN
             /\ a.window <= window /\ ~a.live /\ a.phase \notin {"reserved", "dispatched"}
             /\ a.phase = "none" => ~a.launched

\* The provider is paid within the quota, within the concurrency limit, and what it
\* answered is kept only while nothing erased it.
ResearchSafe ==
    /\ TypeOK /\ SendsWithinCap /\ LaunchesBounded /\ ErasedStaysErased
    /\ EverySendPaid /\ OwnersHold /\ RowsInOrder
================================================================================
