----------------------------- MODULE MCLiquidity -----------------------------
(***************************************************************************)
(* Checks SessionCompletion and TransferWorkflow, and NotificationCreation *)
(* through which the liquidity service tells people of a transfer: calls   *)
(* of two processes about one person, or of one process about two. The     *)
(* first state chooses which of them is checked.                           *)
(***************************************************************************)
EXTENDS Naturals, FiniteSets, TLC

CONSTANTS Members, Requester, Required, None,
          Attempts, MaxVersion, MaxPolicy,
          Transfers, Linked, Movements,
          Calls, Runtimes, Process, Keys, Person, People, Channels, Limit, MaxPeriod

VARIABLES component,
          session, policy, gov, members, granted, comp, apr, hold, claims,
          moved, exec, sent, ledger, other,
          phase, expired, lapsed, tapr, claim, baseline, owner, records, fresh,
          member, periods, entitled, changes, events, rows, settled, call, inFlight, used,
          withheld, delivered, gone

Completion == INSTANCE SessionCompletion
Transfer == INSTANCE TransferWorkflow WITH apr <- tapr, ledger <- records
Creation == INSTANCE NotificationCreation WITH
    granted <- entitled, Recipients <- {Person}, MaxChanges <- 3
Broadcast == INSTANCE NotificationCreation WITH
    granted <- entitled, Recipients <- People, Runtimes <- {Process}, MaxChanges <- 1

ASSUME CompletionInstance == Completion!CompletionConstants
ASSUME TransferInstance == Transfer!TransferConstants

completionVars == <<session, policy, gov, members, granted, comp, apr, hold, claims,
    moved, exec, sent, ledger, other>>
transferVars == <<phase, expired, lapsed, tapr, claim, baseline, owner, records, fresh>>
creationVars == <<member, periods, entitled, changes, events, rows, settled, call, inFlight,
    used, withheld, delivered, gone>>
vars == <<component, completionVars, transferVars, creationVars>>

\* A component that is not the one checked has no state.
completionOff ==
    /\ session = None /\ policy = None /\ gov = None /\ members = None /\ granted = None
    /\ comp = None /\ apr = None /\ hold = None /\ claims = None /\ moved = None
    /\ exec = None /\ sent = None /\ ledger = None /\ other = None

transferOff ==
    /\ phase = None /\ expired = None /\ lapsed = None /\ tapr = None /\ claim = None
    /\ baseline = None /\ owner = None /\ records = None /\ fresh = None

creationOff ==
    /\ member = None /\ periods = None /\ entitled = None /\ changes = None /\ events = None
    /\ rows = None /\ settled = None /\ call = None /\ inFlight = None /\ used = None
    /\ withheld = None /\ delivered = None /\ gone = None

Init ==
    \/ component = "completion" /\ Completion!Init /\ transferOff /\ creationOff
    \/ component = "transfer" /\ Transfer!Init /\ completionOff /\ creationOff
    \/ component = "creation" /\ Creation!Init /\ completionOff /\ transferOff
    \/ component = "broadcast" /\ Broadcast!Init /\ completionOff /\ transferOff

Next ==
    \/ /\ component = "completion" /\ Completion!Next
       /\ UNCHANGED <<component, transferVars, creationVars>>
    \/ /\ component = "transfer" /\ Transfer!Next
       /\ UNCHANGED <<component, completionVars, creationVars>>
    \/ /\ component = "creation" /\ Creation!Next
       /\ UNCHANGED <<component, completionVars, transferVars>>
    \/ /\ component = "broadcast" /\ Broadcast!Next
       /\ UNCHANGED <<component, completionVars, transferVars>>

Spec == Init /\ [][Next]_vars

\* The configuration gives Calls, People and Runtimes the names of Attempts, Transfers and
\* Movements, which no behaviour mixes: the same permutations are symmetries of each component.
Interchangeable == Permutations(Attempts) \cup Permutations(Transfers) \cup Permutations(Movements)

\* SessionCompletion!CompletionSafe: a hold is kept until its write is settled, written once.
CompletionSafe == component = "completion" => Completion!CompletionSafe

\* SessionCompletion!DispatchCurrent: a completion is written under current authority only.
DispatchCurrent == [][component = "completion" => Completion!DispatchStep]_vars

\* TransferWorkflow!TransfersSafe: reservations last, one movement confirms one transfer.
TransfersSafe == component = "transfer" => Transfer!TransfersSafe

\* NotificationCreation!AnnouncementsHeld: announcements are whole, made once and reach only
\* those they were made for.
AnnouncementsHeld ==
    [][/\ component = "creation" => Creation!CreationSafe' /\ Creation!NotToFormerMembers
       /\ component = "broadcast" => Broadcast!CreationSafe' /\ Broadcast!NotToFormerMembers]_vars
================================================================================
