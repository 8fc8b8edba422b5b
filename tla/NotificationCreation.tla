------------------------- MODULE NotificationCreation -------------------------
(***************************************************************************)
(* Creation of notifications. create() re-authorizes each recipient,       *)
(* stores an immutable event bound to the recipient's current membership   *)
(* period and enqueues one outbox row per channel, with awaits in between. *)
(* Calls of one runtime for the same decision and recipient share one      *)
(* creation; calls of different runtimes meet in the store. The delivery   *)
(* protocol of the rows is NotificationOutbox; here it is one step.        *)
(***************************************************************************)
EXTENDS Naturals, FiniteSets

CONSTANTS
    Calls,       \* create() calls, each made once
    Runtimes,    \* processes with a NotificationRuntime
    Keys,        \* dedup keys of decisions
    Recipients,  \* the recipients of the policy
    Channels,    \* their enabled channels
    Limit,       \* rateLimitPerMinute of a channel
    MaxPeriod,   \* bound on membership periods of a recipient
    MaxChanges,  \* bound on changes of memberships and grants
    None

VARIABLES
    member,    \* current membership period of each recipient, 0 for none
    periods,   \* membership periods each recipient has had
    granted,   \* recipients whose current period has the required capability
    changes,   \* changes of memberships and grants so far
    events,    \* notification_events
    rows,      \* notification_outbox: event and channel
    settled,   \* rows that were delivered or terminally failed
    call,      \* what each create() call knows
    inFlight,  \* inFlightCreations of each runtime: the calls that own an entry
    used,      \* calls the rate limiter of each runtime counts, per channel
    withheld,  \* event and channel suppressed by quiet hours or the rate limit
    delivered, \* history: rows handed to their recipient
    gone       \* history: events whose recipient was no member, or left, since

userVars == <<member, periods, granted, changes>>
storeVars == <<events, rows, settled>>
vars == <<userVars, storeVars, call, inFlight, used, withheld, delivered, gone>>

\* A keyed event has one identity; one without a key belongs to the call that made it.
Events == [key : Keys \cup {None}, by : Calls \cup {None}, to : Recipients, period : 0..MaxPeriod]

Fresh == [pc |-> "idle", rt |-> None, key |-> None, to |-> None, queue |-> {}, at |-> None,
          event |-> None, channels |-> {}, result |-> {}, owner |-> None]

Running == {"screen", "authorize", "persist", "enqueue", "joined"}

TypeOK ==
    /\ member \in [Recipients -> 0..MaxPeriod] /\ periods \in [Recipients -> 0..MaxPeriod]
    /\ granted \subseteq Recipients /\ changes \in 0..MaxChanges
    /\ events \subseteq Events /\ gone \subseteq events
    /\ rows \subseteq events \X Channels /\ withheld \subseteq events \X Channels
    /\ settled \subseteq rows /\ delivered \subseteq settled
    /\ \A c \in Calls :
        /\ call[c].pc \in Running \cup {"idle", "returned", "failed", "dead"}
        /\ call[c].result \subseteq events
        /\ call[c].pc = "enqueue" => call[c].event \in events /\ call[c].channels # {}
    /\ inFlight \in [Runtimes -> SUBSET Calls]
    /\ used \in [Runtimes -> [Channels -> 0..Limit]]

Init ==
    /\ member = [r \in Recipients |-> 1] /\ periods = member /\ granted = Recipients /\ changes = 0
    /\ events = {} /\ rows = {} /\ settled = {}
    /\ call = [c \in Calls |-> Fresh]
    /\ inFlight = [t \in Runtimes |-> {}]
    /\ used = [t \in Runtimes |-> [ch \in Channels |-> 0]]
    /\ withheld = {} /\ delivered = {} /\ gone = {}

------------------------------------------------------------------------------
(* Membership and grants. A period that ends takes its grants along; a new one *)
(* may begin with some, as a redeemed invitation does.                         *)

Change == changes < MaxChanges /\ changes' = changes + 1

Leave(r) ==
    /\ Change
    /\ member[r] # 0
    /\ member' = [member EXCEPT ![r] = 0]
    /\ granted' = granted \ {r}
    /\ gone' = gone \cup {e \in events : e.to = r}
    /\ UNCHANGED <<periods, storeVars, call, inFlight, used, withheld, delivered>>

Rejoin(r) ==
    /\ Change
    /\ member[r] = 0 /\ periods[r] < MaxPeriod
    /\ periods' = [periods EXCEPT ![r] = @ + 1]
    /\ member' = [member EXCEPT ![r] = periods[r] + 1]
    /\ granted' \in {granted, granted \cup {r}}
    /\ UNCHANGED <<storeVars, call, inFlight, used, withheld, delivered, gone>>

setResourceGrant(r) ==
    /\ Change
    /\ member[r] # 0
    /\ granted' = (granted \cup {r}) \ (granted \cap {r})
    /\ UNCHANGED <<member, periods, storeVars, call, inFlight, used, withheld, delivered, gone>>

------------------------------------------------------------------------------
(* create() *)

storeBackedReAuth(r) == r \in granted

\* The creation settles, for its own caller and out of the map.
Settle(c, pc, result) ==
    /\ call' = [call EXCEPT ![c] = [Fresh EXCEPT !.pc = pc, !.result = result]]
    /\ inFlight' = [inFlight EXCEPT ![call[c].rt] = @ \ {c}]

\* The recipient c is at is done; `result` are the events c made so far.
Proceed(c, result) ==
    IF call[c].queue = {} /\ result = {} THEN Settle(c, "failed", {})  \* nobody is authorized
    ELSE IF call[c].queue = {} THEN Settle(c, "returned", result)
    ELSE
        /\ \E r \in call[c].queue :
            call' = [call EXCEPT ![c] = [@ EXCEPT !.pc = "screen", !.result = result, !.at = r,
                        !.queue = @ \ {r}, !.event = None, !.channels = {}]]
        /\ UNCHANGED inFlight

\* create: a keyed call joins the creation its runtime has in progress for the same key
\* and recipient, or starts one; without a recipient it asks for all of the policy's.
create(c, t, k, to) ==
    LET same == {d \in inFlight[t] : call[d].key = k /\ call[d].to = to}
        start == [Fresh EXCEPT !.rt = t, !.key = k, !.to = to]
    IN /\ call[c].pc = "idle"
       /\ \/ /\ k # None /\ same # {}
             /\ \E d \in same : call' = [call EXCEPT ![c] = [start EXCEPT !.pc = "joined", !.owner = d]]
             /\ UNCHANGED inFlight
          \/ /\ k = None \/ same = {}
             /\ \E r \in IF to = None THEN Recipients ELSE {to} :
                  call' = [call EXCEPT ![c] = [start EXCEPT !.at = r,
                             !.pc = IF to = None THEN "screen" ELSE "authorize",
                             !.queue = IF to = None THEN Recipients \ {r} ELSE {}]]
             /\ inFlight' = [inFlight EXCEPT ![t] = IF k = None THEN @ ELSE @ \cup {c}]
       /\ UNCHANGED <<userVars, storeVars, used, withheld, delivered, gone>>

\* A joined call gets what the creation it shares gave its owner.
Join(c) ==
    LET d == call[c].owner IN
    /\ call[c].pc = "joined" /\ call[d].pc \in {"returned", "failed"}
    /\ call' = [call EXCEPT ![c] = [Fresh EXCEPT !.pc = call[d].pc, !.result = call[d].result]]
    /\ UNCHANGED <<userVars, storeVars, inFlight, used, withheld, delivered, gone>>

\* A call to all recipients passes over those who are not authorized ...
Screen(c) ==
    /\ call[c].pc = "screen"
    /\ \/ /\ storeBackedReAuth(call[c].at)
          /\ call' = [call EXCEPT ![c].pc = "authorize"]
          /\ UNCHANGED inFlight
       \/ ~storeBackedReAuth(call[c].at) /\ Proceed(c, call[c].result)
    /\ UNCHANGED <<userVars, storeVars, used, withheld, delivered, gone>>

\* ... but a recipient who no longer is when its own creation asks again fails the call.
Authorize(c) ==
    /\ call[c].pc = "authorize"
    /\ \/ /\ storeBackedReAuth(call[c].at)
          /\ call' = [call EXCEPT ![c].pc = "persist"]
          /\ UNCHANGED inFlight
       \/ ~storeBackedReAuth(call[c].at) /\ Settle(c, "failed", {})
    /\ UNCHANGED <<userVars, storeVars, used, withheld, delivered, gone>>

\* createOrGetNotificationEvent inserts unless the identity exists and returns the row
\* of that identity; createNotificationEvent always inserts.
Identity(c, r) ==
    [key |-> call[c].key, by |-> IF call[c].key = None THEN c ELSE None, to |-> r,
     period |-> member[r]]

\* The membership period is read with the insert, after the await of the authorization.
\* In quiet hours nothing is enqueued.
Persist(c) ==
    LET r == call[c].at
        e == Identity(c, r)
    IN /\ call[c].pc = "persist"
       /\ events' = events \cup {e}
       /\ gone' = IF e \in events \/ member[r] # 0 THEN gone ELSE gone \cup {e}
       /\ \/ /\ call' = [call EXCEPT ![c] = [@ EXCEPT !.pc = "enqueue", !.event = e,
                                                      !.channels = Channels]]
             /\ UNCHANGED <<inFlight, withheld>>
          \/ /\ withheld' = withheld \cup ({e} \X Channels)
             /\ Proceed(c, call[c].result \cup {e})
       /\ UNCHANGED <<userVars, rows, settled, used, delivered>>

\* The next channel: counted by the limiter and enqueued, a row that is there already kept;
\* or suppressed.
enqueueNotification(c, ch) ==
    LET e == call[c].event
        t == call[c].rt
    IN /\ call[c].pc = "enqueue" /\ ch \in call[c].channels
       /\ IF used[t][ch] < Limit
          THEN /\ used' = [used EXCEPT ![t][ch] = @ + 1]
               /\ rows' = rows \cup {<<e, ch>>}
               /\ UNCHANGED withheld
          ELSE withheld' = withheld \cup {<<e, ch>>} /\ UNCHANGED <<used, rows>>
       /\ IF call[c].channels = {ch}
          THEN Proceed(c, call[c].result \cup {e})
          ELSE call' = [call EXCEPT ![c].channels = @ \ {ch}] /\ UNCHANGED inFlight
       /\ UNCHANGED <<userVars, events, settled, delivered, gone>>

\* A store call throws, and create() with it.
StoreFails(c) ==
    /\ call[c].pc \in {"persist", "enqueue"}
    /\ Settle(c, "failed", {})
    /\ UNCHANGED <<userVars, storeVars, used, withheld, delivered, gone>>

\* A minute passes for one call the limiter counted.
WindowSlides(t, ch) ==
    /\ used[t][ch] > 0
    /\ used' = [used EXCEPT ![t][ch] = @ - 1]
    /\ UNCHANGED <<userVars, storeVars, call, inFlight, withheld, delivered, gone>>

\* A process dies with its calls, its creations in flight and its limiter.
Crash(t) ==
    /\ \E c \in Calls : call[c].rt = t /\ call[c].pc \in Running
    /\ call' = [c \in Calls |-> IF call[c].rt = t /\ call[c].pc \in Running
                                THEN [Fresh EXCEPT !.pc = "dead"] ELSE call[c]]
    /\ inFlight' = [inFlight EXCEPT ![t] = {}]
    /\ used' = [used EXCEPT ![t] = [ch \in Channels |-> 0]]
    /\ UNCHANGED <<userVars, storeVars, withheld, delivered, gone>>

------------------------------------------------------------------------------
(* Delivery, as one step: see NotificationOutbox. *)

\* Variant: any current membership of the recipient will do.
authorizationAllows_AnyPeriod(e) == member[e.to] # 0 /\ e.to \in granted

\* The event's own membership period is the current one and has the capability.
authorizationAllows(e) == e.period # 0 /\ member[e.to] = e.period /\ e.to \in granted

dispatch(e, ch) ==
    /\ <<e, ch>> \in rows \ settled
    /\ settled' = settled \cup {<<e, ch>>}
    /\ delivered' = IF authorizationAllows(e) THEN delivered \cup {<<e, ch>>} ELSE delivered
    /\ UNCHANGED <<userVars, events, rows, call, inFlight, used, withheld, gone>>

Next ==
    \/ \E r \in Recipients : Leave(r) \/ Rejoin(r) \/ setResourceGrant(r)
    \/ \E c \in Calls :
        \/ \E t \in Runtimes, k \in Keys \cup {None}, to \in Recipients \cup {None} : create(c, t, k, to)
        \/ Join(c) \/ Screen(c) \/ Authorize(c) \/ Persist(c) \/ StoreFails(c)
        \/ \E ch \in Channels : enqueueNotification(c, ch)
    \/ \E t \in Runtimes : Crash(t) \/ \E ch \in Channels : WindowSlides(t, ch)
    \/ \E e \in events, ch \in Channels : dispatch(e, ch)

Spec == Init /\ [][Next]_vars

------------------------------------------------------------------------------
\* A decision is announced to a person at most once per channel and membership period,
\* whichever processes create it, retry it after a failure or share a creation.
AnnouncedOnce ==
    \A x, y \in delivered :
        /\ x[1].key # None /\ x[1].key = y[1].key
        /\ x[1].to = y[1].to /\ x[1].period = y[1].period /\ x[2] = y[2]
        => x = y

\* A caller that is told of an event finds a row of it on every channel, or quiet hours or
\* the rate limit withheld it: also when it retried a creation that stopped half way or shared another's.
ToldOfWhole ==
    \A c \in Calls : call[c].pc = "returned" =>
        /\ call[c].result # {}
        /\ call[c].result \X Channels \subseteq rows \cup withheld

\* Well formed, and announcements are whole and made once.
CreationSafe == TypeOK /\ AnnouncedOnce /\ ToldOfWhole

\* An announcement made for a membership that ended since, or that had ended when the event
\* was stored, is not delivered, although the person is a member with the same rights again.
NotToFormerMembers == \A x \in delivered' \ delivered : x[1] \notin gone

\* Announcements are whole, made once, and reach only those they were made for.
AnnouncementsHeld == [][CreationSafe' /\ NotToFormerMembers]_vars
==============================================================================
