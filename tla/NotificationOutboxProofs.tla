----------------------- MODULE NotificationOutboxProofs -----------------------
(* Proofs about NotificationOutbox for every number of rows, runtimes, tokens,   *)
(* attempts, expiries, lost answers and crashes. Types and the three parts that  *)
(* make DeliverySafe inductive are each shown to survive every action.           *)
EXTENDS NotificationOutbox, FiniteSetTheorems, TLAPS

USE DEF vars, rowVars, workerVars, faultVars

\* No row, no runtime at work, nothing sent.
LEMMA TypeInit == Init => TypeOK
BY OutboxAssumption DEF Init, TypeOK, RowStatuses, WorkerPcs, InFlight

\* A runtime that works on a row has one, and the token it claimed it under.
LEMMA Claimant ==
    ASSUME TypeOK, NEW w \in Workers, wpc[w] \in InFlight
    PROVE  cur[w] \in Rows /\ tok[w] \in Tokens
BY DEF TypeOK

\* The columns of the rows, and the state a runtime has of its own.
TypedRows ==
    /\ ostatus \in [Rows -> RowStatuses] /\ token \in [Rows -> Tokens \cup {None}]
    /\ attempts \in [Rows -> Nat] /\ acked \in [Rows -> BOOLEAN]
    /\ fresh \in [Rows -> BOOLEAN] /\ retry \in [Rows -> BOOLEAN]

TypedWorkers ==
    /\ wpc \in [Workers -> WorkerPcs] /\ todo \in [Workers -> SUBSET Rows]
    /\ cur \in [Workers -> Rows \cup {None}] /\ tok \in [Workers -> Tokens \cup {None}]
    /\ okSince \in [Workers -> BOOLEAN]
    /\ \A v \in Workers : wpc[v] \in InFlight <=> cur[v] # None
    /\ \A v \in Workers : wpc[v] \in InFlight <=> tok[v] # None

USE DEF TypedRows, TypedWorkers

\* Claiming, completing and failing keep the columns of a row typed.
LEMMA TypeRow ==
    ASSUME TypeOK, NEW r \in Rows,
           \/ UNCHANGED rowVars \/ completeRow(r)
           \/ \E t \in Tokens : ClaimRow(r, t)
           \/ \E b \in BOOLEAN : failRow(r, b)
    PROVE  TypedRows'
<1> USE DEF TypeOK, RowStatuses
<1>1. CASE UNCHANGED rowVars
  BY <1>1
<1>2. CASE completeRow(r)
  BY <1>2 DEF completeRow
<1>3. ASSUME NEW t \in Tokens, ClaimRow(r, t) PROVE TypedRows'
  <2>1. (retry[r] /\ ostatus[r] # "failed") \in BOOLEAN
    OBVIOUS
  <2>2. retry' \in [Rows -> BOOLEAN]
    BY <1>3, <2>1 DEF ClaimRow
  <2> QED
    BY <1>3, <2>2 DEF ClaimRow
<1>4. ASSUME NEW b \in BOOLEAN, failRow(r, b) PROVE TypedRows'
  <2>1. (retry[r] \/ (b /\ attempts[r] < MaxAttempts)) \in BOOLEAN
    OBVIOUS
  <2>2. retry' \in [Rows -> BOOLEAN]
    BY <1>4, <2>1 DEF failRow
  <2> QED
    BY <1>4, <2>2 DEF failRow
<1> QED
  BY <1>1, <1>2, <1>3, <1>4

\* Starting, moving on and settling keep a runtime's own state typed.
LEMMA TypeWorker ==
    ASSUME TypeOK, NEW w \in Workers,
           \/ \E r \in Rows, t \in Tokens : Start(w, r, t)
           \/ \E R \in SUBSET Rows : Settle(w, R)
           \/ wpc[w] \in InFlight /\ \E l \in InFlight : Goto(w, l)
    PROVE  TypedWorkers'
<1> USE OutboxAssumption DEF TypeOK, WorkerPcs, InFlight
<1>1. ASSUME NEW r \in Rows, NEW t \in Tokens, Start(w, r, t) PROVE TypedWorkers'
  BY <1>1 DEF Start
<1>2. ASSUME NEW R \in SUBSET Rows, Settle(w, R) PROVE TypedWorkers'
  <2>1. PICK l \in {"idle", "loop"} : wpc' = [wpc EXCEPT ![w] = l]
    BY <1>2 DEF Settle
  <2> QED
    BY <1>2, <2>1 DEF Settle
<1>3. ASSUME NEW l \in InFlight, wpc[w] \in InFlight, Goto(w, l) PROVE TypedWorkers'
  BY <1>3 DEF Goto
<1> QED
  BY <1>1, <1>2, <1>3

\* Every operation of the store and the runtimes keeps the types.
LEMMA TypeStep == TypeOK /\ [Next]_vars => TypeOK'
<1> SUFFICES ASSUME TypeOK, [Next]_vars PROVE TypeOK'
  OBVIOUS
<1> USE OutboxAssumption DEF InFlight
<1>1. CASE UNCHANGED vars
  BY <1>1 DEF TypeOK
<1>2. ASSUME NEW r \in Rows, enqueueNotification(r) PROVE TypeOK'
  BY <1>2 DEF TypeOK, enqueueNotification, RowStatuses
<1>3. ASSUME NEW r \in Rows, acknowledgeNotification(r) PROVE TypeOK'
  BY <1>3 DEF TypeOK, acknowledgeNotification
<1>4. ASSUME NEW r \in Rows, suppressNotification(r) PROVE TypeOK'
  BY <1>4 DEF TypeOK, suppressNotification, RowStatuses
<1>5. ASSUME NEW r \in Rows, ExpireClaim(r) PROVE TypeOK'
  BY <1>5 DEF TypeOK, ExpireClaim
<1>6. ASSUME NEW r \in Rows, ChangeAuthority(r) PROVE TypeOK'
  <2>1. authorized' \in [Rows -> BOOLEAN]
    BY <1>6 DEF TypeOK, ChangeAuthority
  <2>2. \A w \in Workers : (okSince[w] \/ (cur[w] = r /\ ~authorized[r])) \in BOOLEAN
    OBVIOUS
  <2>3. okSince' \in [Workers -> BOOLEAN]
    BY <1>6, <2>2 DEF TypeOK, ChangeAuthority
  <2> QED
    BY <1>6, <2>1, <2>3 DEF TypeOK, ChangeAuthority
<1>7. ASSUME NEW w \in Workers, NEW R \in SUBSET Rows, Batch(w, R) PROVE TypeOK'
  BY <1>7 DEF TypeOK, Batch, WorkerPcs
<1>8. ASSUME NEW w \in Workers, NEW r \in Rows, DispatchListed(w, r) PROVE TypeOK'
  <2>1. UNCHANGED <<authorized, faultVars, sent>> /\ todo[w] \ {r} \in SUBSET Rows
    BY <1>8 DEF DispatchListed, TypeOK
  <2>2. CASE \E t \in Unused : ClaimRow(r, t) /\ Start(w, r, t)
    BY <2>1, <2>2, TypeRow, TypeWorker DEF TypeOK, Unused
  <2>3. CASE Settle(w, todo[w] \ {r}) /\ UNCHANGED rowVars
    BY <2>1, <2>3, TypeRow, TypeWorker DEF TypeOK
  <2> QED
    BY <1>8, <2>2, <2>3 DEF DispatchListed
<1>9. ASSUME NEW w \in Workers, NEW r \in Rows, dispatch(w, r) PROVE TypeOK'
  BY <1>9, TypeRow, TypeWorker DEF TypeOK, dispatch, Unused
<1>10. ASSUME NEW w \in Workers, NEW r \in Rows, RepeatDispatch(w, r) PROVE TypeOK'
  <2>1. token[r] \in Tokens /\ Start(w, r, token[r])
    BY <1>10 DEF RepeatDispatch, TypeOK
  <2>2. UNCHANGED rowVars \/ ClaimRow(r, token[r])
    BY <1>10 DEF RepeatDispatch
  <2>3. reused' \in [Rows -> Nat]
    BY <1>10 DEF RepeatDispatch, TypeOK
  <2> QED
    BY <1>10, <2>1, <2>2, <2>3, TypeRow, TypeWorker DEF TypeOK, RepeatDispatch
<1>11. ASSUME NEW w \in Workers, wpc[w] \in InFlight, NEW b \in BOOLEAN, RecordFailure(w, b),
              UNCHANGED <<authorized, faultVars, sent>>
       PROVE  TypeOK'
  <2>1. cur[w] \in Rows /\ todo[w] \in SUBSET Rows /\ {} \in SUBSET Rows
    BY <1>11, Claimant DEF TypeOK
  <2>2. \E R \in SUBSET Rows : Settle(w, R)
    BY <1>11, <2>1 DEF RecordFailure, Abort
  <2>3. UNCHANGED rowVars \/ failRow(cur[w], b)
    BY <1>11 DEF RecordFailure
  <2> QED
    BY <1>11, <2>1, <2>2, <2>3, TypeRow, TypeWorker DEF TypeOK
<1>12. ASSUME NEW w \in Workers, Authorize(w) PROVE TypeOK'
  <2>1. CASE Goto(w, "send") /\ UNCHANGED rowVars
    BY <1>12, <2>1, TypeWorker DEF TypeOK, Authorize
  <2> QED
    BY <1>11, <1>12, <2>1 DEF Authorize
<1>13. ASSUME NEW w \in Workers, Send(w) PROVE TypeOK'
  <2>1. cur[w] \in Rows /\ wpc[w] = "send"
    BY <1>13, Claimant DEF Send
  <2>2. Goto(w, "complete") \/ Goto(w, "fail")
    BY <1>13 DEF Send
  <2>3. sent' \in [Rows -> Nat] /\ lost' \in [Rows -> Nat]
    BY <1>13, <2>1 DEF Send, TypeOK
  <2> QED
    BY <1>13, <2>1, <2>2, <2>3, TypeWorker DEF TypeOK, Send
<1>14. ASSUME NEW w \in Workers, Complete(w) PROVE TypeOK'
  <2>1. /\ cur[w] \in Rows /\ wpc[w] = "complete"
        /\ todo[w] \in SUBSET Rows /\ {} \in SUBSET Rows
    BY <1>14, Claimant DEF Complete, TypeOK
  <2>2. \/ \E R \in SUBSET Rows : Settle(w, R)
        \/ Goto(w, "fail")
    BY <1>14, <2>1 DEF Complete, Abort
  <2>3. UNCHANGED rowVars \/ completeRow(cur[w])
    BY <1>14 DEF Complete
  <2>4. lost' \in [Rows -> Nat]
    BY <1>14, <2>1 DEF Complete, TypeOK
  <2> QED
    BY <1>14, <2>1, <2>2, <2>3, <2>4, TypeRow, TypeWorker DEF TypeOK, Complete
<1>15. ASSUME NEW w \in Workers, Fail(w) PROVE TypeOK'
  BY <1>11, <1>15 DEF Fail
<1>16. ASSUME NEW w \in Workers, Crash(w) PROVE TypeOK'
  <2>1. Settle(w, {}) /\ {} \in SUBSET Rows
    BY <1>16 DEF Crash, Abort
  <2>2. CASE UNCHANGED rowVars
    BY <1>16, <2>1, <2>2, TypeWorker DEF TypeOK, Crash
  <2>3. CASE wpc[w] = "fail" /\ failRow(cur[w], FALSE)
    <3>1. cur[w] \in Rows /\ \E b \in BOOLEAN : failRow(cur[w], b)
      BY <2>3, Claimant
    <3> QED
      BY <1>16, <2>1, <3>1, TypeRow, TypeWorker DEF TypeOK, Crash
  <2> QED
    BY <1>16, <2>2, <2>3 DEF Crash
<1>17. ASSUME NEW w \in Workers, processPending(w) \/ processRetries(w) PROVE TypeOK'
  <2>1. \E R \in SUBSET Rows : Batch(w, R)
    BY <1>17 DEF processPending, processRetries
  <2> QED
    BY <1>7, <2>1
<1> QED
  BY <1>1, <1>2, <1>3, <1>4, <1>5, <1>6, <1>8, <1>9, <1>10, <1>12, <1>13, <1>14, <1>15, <1>16, <1>17
     DEF Next, Work

------------------------------------------------------------------------------
\* How a step treats the rows: it leaves them, or one row is enqueued, acknowledged,
\* suppressed, claimed while it may be, run out, or settled by a runtime that holds it.
RowStep(r) ==
    \/ enqueueNotification(r) \/ suppressNotification(r) \/ ExpireClaim(r)
    \/ /\ UNCHANGED expiries
       /\ \/ Claimable(r) /\ \E t \in Tokens : ClaimRow(r, t)
          \/ ostatus[r] = "delivering" /\ completeRow(r)
          \/ ostatus[r] = "delivering" /\ \E b \in BOOLEAN : failRow(r, b)

RowsMove ==
    \/ UNCHANGED <<ostatus, token, attempts, fresh, retry, expiries>>
    \/ \E r \in Rows : RowStep(r)

USE DEF RowsMove

\* Every action is one of them.
LEMMA RowSteps ==
    ASSUME TypeOK, [Next]_vars
    PROVE  RowsMove
<1> USE DEF InFlight
<1>1. CASE UNCHANGED <<ostatus, token, attempts, fresh, retry, expiries>>
  BY <1>1
<1>2. ASSUME NEW w \in Workers, wpc[w] \in InFlight, NEW b \in BOOLEAN, RecordFailure(w, b),
             UNCHANGED expiries
      PROVE  RowsMove
  <2>1. cur[w] \in Rows
    BY <1>2, Claimant
  <2> QED
    BY <1>2, <2>1 DEF RecordFailure, RowStep, Holds
<1>3. ASSUME NEW w \in Workers, Complete(w) PROVE RowsMove
  <2>1. cur[w] \in Rows /\ UNCHANGED expiries
    BY <1>3, Claimant DEF Complete
  <2> QED
    BY <1>3, <2>1 DEF Complete, RowStep, Holds
<1>4. ASSUME NEW w \in Workers, Authorize(w) PROVE RowsMove
  <2>1. wpc[w] \in InFlight /\ UNCHANGED expiries /\ TRUE \in BOOLEAN /\ FALSE \in BOOLEAN
    BY <1>4 DEF Authorize
  <2> QED
    BY <1>1, <1>2, <1>4, <2>1 DEF Authorize
<1>5. ASSUME NEW w \in Workers, Fail(w) PROVE RowsMove
  <2>1. wpc[w] \in InFlight /\ UNCHANGED expiries
    BY <1>5 DEF Fail
  <2> QED
    BY <1>2, <1>5, <2>1 DEF Fail
<1>6. ASSUME NEW w \in Workers, Crash(w) PROVE RowsMove
  <2>1. UNCHANGED expiries
    BY <1>6 DEF Crash
  <2>2. CASE wpc[w] = "fail" /\ Holds(w) /\ failRow(cur[w], FALSE)
    <3>1. cur[w] \in Rows /\ FALSE \in BOOLEAN
      BY <2>2, Claimant
    <3> QED
      BY <2>1, <2>2, <3>1 DEF RowStep, Holds
  <2> QED
    BY <1>1, <1>6, <2>1, <2>2 DEF Crash
<1>7. ASSUME NEW w \in Workers, NEW r \in Rows,
             DispatchListed(w, r) \/ dispatch(w, r) \/ RepeatDispatch(w, r)
      PROVE  RowsMove
  <2>1. UNCHANGED expiries
    BY <1>7 DEF DispatchListed, dispatch, RepeatDispatch
  <2>2. \/ UNCHANGED rowVars
        \/ Claimable(r) /\ \E t \in Tokens : ClaimRow(r, t)
    <3>1. CASE RepeatDispatch(w, r)
      <4>1. token[r] \in Tokens
        BY <3>1 DEF RepeatDispatch, TypeOK
      <4> QED
        BY <3>1, <4>1 DEF RepeatDispatch
    <3> QED
      BY <1>7, <3>1 DEF DispatchListed, dispatch, Unused
  <2> QED
    BY <1>1, <2>1, <2>2 DEF RowStep
<1>8. ASSUME NEW r \in Rows, enqueueNotification(r) \/ suppressNotification(r) \/ ExpireClaim(r)
      PROVE  RowsMove
  BY <1>8 DEF RowStep
<1> QED
  BY <1>1, <1>3, <1>4, <1>5, <1>6, <1>7, <1>8, ZenonT(60)
     DEF Next, Work, acknowledgeNotification, ChangeAuthority, processPending, processRetries, Batch,
         Send

\* No row is claimed without an attempt left, unless its claim ran out before.
LEMMA AttemptsStep ==
    ASSUME TypeOK, AttemptsLeft, AttemptsBounded, [Next]_vars
    PROVE  AttemptsLeft' /\ AttemptsBounded'
<1> USE OutboxAssumption DEF AttemptsLeft, AttemptsBounded, Claimable
<1>1. CASE UNCHANGED <<ostatus, token, attempts, fresh, retry, expiries>>
  BY <1>1
<1>2. ASSUME NEW r \in Rows, RowStep(r) PROVE AttemptsLeft' /\ AttemptsBounded'
  <2>0. /\ \A q \in Rows : attempts[q] \in Nat /\ expiries[q] \in Nat
        /\ ostatus \in [Rows -> RowStatuses] /\ token \in [Rows -> Tokens \cup {None}]
        /\ attempts \in [Rows -> Nat] /\ fresh \in [Rows -> BOOLEAN] /\ retry \in [Rows -> BOOLEAN]
        /\ expiries \in [Rows -> Nat]
    BY DEF TypeOK
  <2>1. \A q \in Rows \ {r} :
           /\ ostatus'[q] = ostatus[q] /\ token'[q] = token[q] /\ attempts'[q] = attempts[q]
           /\ fresh'[q] = fresh[q] /\ retry'[q] = retry[q] /\ expiries'[q] = expiries[q]
    BY <1>2, <2>0 DEF RowStep, enqueueNotification, suppressNotification, ExpireClaim, ClaimRow,
       completeRow, failRow
  <2>2. /\ ostatus'[r] \in {"absent", "pending"} => attempts'[r] = 0
        /\ retry'[r] => ostatus'[r] \in {"failed", "suppressed"}
        /\ Claimable(r)' => attempts'[r] < MaxAttempts + expiries'[r]
        /\ token'[r] # None => ostatus'[r] \in {"delivering", "suppressed"}
        /\ attempts'[r] <= MaxAttempts + expiries'[r]
    <3>1. CASE enqueueNotification(r)
      BY <2>0, <3>1 DEF enqueueNotification
    <3>2. CASE suppressNotification(r)
      BY <2>0, <3>2 DEF suppressNotification
    <3>3. CASE ExpireClaim(r)
      BY <2>0, <3>3 DEF ExpireClaim
    <3>4. ASSUME Claimable(r), UNCHANGED expiries, NEW t \in Tokens, ClaimRow(r, t) PROVE <2>2!:
      <4>1. ~retry'[r]
        BY <2>0, <3>4 DEF ClaimRow
      <4> QED
        BY <2>0, <3>4, <4>1 DEF ClaimRow
    <3>5. ASSUME ostatus[r] = "delivering", UNCHANGED expiries, completeRow(r) PROVE <2>2!:
      BY <2>0, <3>5 DEF completeRow
    <3>6. ASSUME ostatus[r] = "delivering", UNCHANGED expiries, NEW b \in BOOLEAN, failRow(r, b)
          PROVE  <2>2!:
      <4>1. retry'[r] => attempts[r] < MaxAttempts
        BY <2>0, <3>6 DEF failRow
      <4> QED
        BY <2>0, <3>6, <4>1 DEF failRow
    <3> QED
      BY <1>2, <3>1, <3>2, <3>3, <3>4, <3>5, <3>6 DEF RowStep
  <2> QED
    BY <2>1, <2>2
<1> QED
  BY <1>1, <1>2, RowSteps

------------------------------------------------------------------------------
\* Sets of runtimes are finite.
LEMMA Count ==
    ASSUME NEW S \in SUBSET Workers
    PROVE  IsFiniteSet(S) /\ Cardinality(S) \in Nat
BY OutboxAssumption, FS_Subset, FS_CardinalityType

\* Fewer runtimes, no larger count.
LEMMA CountKept ==
    ASSUME NEW S \in SUBSET Workers, NEW T \in SUBSET S
    PROVE  Cardinality(T) <= Cardinality(S)
BY Count, FS_Subset

\* One more runtime at most.
LEMMA CountPlus ==
    ASSUME NEW S \in SUBSET Workers, NEW w \in Workers, NEW T \in SUBSET (S \cup {w})
    PROVE  Cardinality(T) <= Cardinality(S) + 1
<1>1. S \cup {w} \in SUBSET Workers
  OBVIOUS
<1>2. Cardinality(T) <= Cardinality(S \cup {w})
  BY <1>1, CountKept
<1>3. Cardinality(S \cup {w}) <= Cardinality(S) + 1
  BY Count, FS_AddElement
<1> QED
  BY <1>1, <1>2, <1>3, Count

\* One runtime less at least.
LEMMA CountMinus ==
    ASSUME NEW S \in SUBSET Workers, NEW w \in S, NEW T \in SUBSET (S \ {w})
    PROVE  Cardinality(T) + 1 <= Cardinality(S)
<1>1. Cardinality(T) <= Cardinality(S \ {w})
  BY CountKept
<1>2. Cardinality(S \ {w}) = Cardinality(S) - 1
  BY Count, FS_RemoveElement
<1> QED
  BY <1>1, <1>2, Count

\* What may still be sent of a row is covered by its first send and the faults so far.
Paid(r) ==
    sent[r] + (IF Reclaimable(r) THEN 1 ELSE 0) + Cardinality(MaySend(r))
        <= 1 + expiries[r] + lost[r] + reused[r]

\* The parts of the state that a step of runtime w on row r leaves alone.
OnlyWorker(w) ==
    \A v \in Workers \ {w} : wpc'[v] = wpc[v] /\ cur'[v] = cur[v] /\ tok'[v] = tok[v]

SameRow(q) ==
    /\ ostatus'[q] = ostatus[q] /\ token'[q] = token[q] /\ fresh'[q] = fresh[q] /\ retry'[q] = retry[q]

SameHistory(q) ==
    /\ sent'[q] = sent[q] /\ expiries'[q] = expiries[q] /\ lost'[q] = lost[q] /\ reused'[q] = reused[q]

\* The counters of a row, before and after a step.
LEMMA Counters ==
    ASSUME TypeOK, TypeOK', NEW q \in Rows
    PROVE  /\ {sent[q], expiries[q], lost[q], reused[q], sent'[q], expiries'[q], lost'[q], reused'[q]}
                 \subseteq Nat
           /\ Cardinality(MaySend(q)) \in Nat /\ Cardinality(MaySend(q)') \in Nat
           /\ MaySend(q) \in SUBSET Workers /\ MaySend(q)' \in SUBSET Workers
<1>1. MaySend(q) \in SUBSET Workers /\ MaySend(q)' \in SUBSET Workers
  BY DEF MaySend
<1> QED
  BY <1>1, Count DEF TypeOK

\* Nothing new to pay for.
LEMMA PaidKept ==
    ASSUME TypeOK, TypeOK', NEW q \in Rows, Paid(q), MaySend(q)' \subseteq MaySend(q),
           Reclaimable(q)' => Reclaimable(q), SameHistory(q)
    PROVE  Paid(q)'
<1>1. Cardinality(MaySend(q)') <= Cardinality(MaySend(q))
  BY Counters, CountKept
<1> QED
  BY <1>1, Counters DEF Paid, SameHistory

\* A step of a runtime that has row r, or no row, leaves the other rows paid.
LEMMA OthersPaid ==
    ASSUME TypeOK, TypeOK', NEW w \in Workers, NEW r, OnlyWorker(w), cur[w] \in {r, None},
           cur'[w] \in {r, None}, NEW q \in Rows \ {r}, Paid(q), SameRow(q), SameHistory(q)
    PROVE  Paid(q)'
<1>1. MaySend(q)' \subseteq MaySend(q)
  BY OutboxAssumption DEF MaySend, Holds, OnlyWorker, SameRow
<1>2. Reclaimable(q)' => Reclaimable(q)
  BY DEF Reclaimable, SameRow
<1> QED
  BY <1>1, <1>2, PaidKept

\* A runtime that starts, moves on or settles touches no other runtime.
LEMMA WorkerAlone ==
    ASSUME TypeOK, NEW w \in Workers,
           \/ \E r, t : Start(w, r, t)
           \/ \E R : Settle(w, R)
           \/ \E l : Goto(w, l)
    PROVE  OnlyWorker(w)
BY DEF TypeOK, OnlyWorker, Start, Settle, Goto

\* Claiming, completing or failing a row touches no other row.
LEMMA RowAlone ==
    ASSUME TypeOK, NEW r \in Rows,
           \/ UNCHANGED rowVars \/ completeRow(r)
           \/ \E t : ClaimRow(r, t)
           \/ \E b : failRow(r, b)
    PROVE  \A q \in Rows \ {r} : SameRow(q)
BY DEF TypeOK, SameRow, completeRow, ClaimRow, failRow

\* A claim spends what made the row claimable: the new claimant is paid for.
LEMMA ClaimPaid ==
    ASSUME TypeOK, TypeOK', AttemptsLeft, \A q \in Rows : Paid(q), NEW w \in Workers, NEW r \in Rows,
           cur[w] = None, NEW t \in Tokens, t = token[r] \/ t \in Unused, Claimable(r), ClaimRow(r, t),
           Start(w, r, t), UNCHANGED <<sent, expiries, lost>>,
           UNCHANGED reused \/ reused' = [reused EXCEPT ![r] = @ + 1]
    PROVE  \A q \in Rows : Paid(q)'
<1>1. OnlyWorker(w) /\ cur'[w] = r /\ tok'[w] = t
  BY WorkerAlone DEF Start, TypeOK
<1>2. ASSUME NEW q \in Rows \ {r} PROVE Paid(q)'
  <2>1. SameRow(q) /\ SameHistory(q)
    BY <1>2, RowAlone DEF SameHistory, TypeOK
  <2> QED
    BY <1>1, <1>2, <2>1, OthersPaid
<1>3. ostatus'[r] = "delivering" /\ token'[r] = t /\ fresh'[r]
  BY DEF ClaimRow, TypeOK
<1>4. MaySend(r)' \subseteq MaySend(r) \cup {w}
  <2>1. ASSUME NEW v \in Workers \ {w}, tok[v] = t PROVE ostatus[r] = "delivering" /\ token[r] = t
    <3>1. t # None /\ t = token[r]
      BY <2>1, OutboxAssumption DEF Unused
    <3> QED
      BY <3>1 DEF AttemptsLeft, Claimable
  <2> QED
    BY <1>1, <1>3, <2>1 DEF MaySend, Holds, OnlyWorker
<1>5. Cardinality(MaySend(r)') <= Cardinality(MaySend(r)) + 1
  BY <1>4, Counters, CountPlus
<1>6. Reclaimable(r) /\ ~Reclaimable(r)'
  BY <1>3 DEF Claimable, Reclaimable
<1>7. reused'[r] >= reused[r]
  BY DEF TypeOK
<1>8. Paid(r)'
  BY <1>5, <1>6, <1>7, Counters DEF Paid
<1> QED
  BY <1>2, <1>8

\* A runtime that settles and leaves the rows alone owes nothing more.
LEMMA SettlePaid ==
    ASSUME TypeOK, TypeOK', \A q \in Rows : Paid(q), NEW w \in Workers, NEW R, Settle(w, R),
           UNCHANGED <<rowVars, sent, expiries, lost, reused>>
    PROVE  \A q \in Rows : Paid(q)'
<1>1. OnlyWorker(w) /\ cur'[w] = None
  BY WorkerAlone DEF Settle, TypeOK
<1> SUFFICES ASSUME NEW q \in Rows PROVE Paid(q)'
  OBVIOUS
<1>2. MaySend(q)' \subseteq MaySend(q) /\ (Reclaimable(q)' => Reclaimable(q)) /\ SameHistory(q)
  BY <1>1, OutboxAssumption DEF MaySend, Holds, OnlyWorker, Reclaimable, SameHistory
<1> QED
  BY <1>2, PaidKept

\* A runtime that gives its row back for a retry leaves its own share to the next claimant.
LEMMA FailPaid ==
    ASSUME TypeOK, TypeOK', \A q \in Rows : Paid(q), NEW w \in Workers, wpc[w] \in {"authorize", "fail"},
           Holds(w), NEW b, failRow(cur[w], b), NEW R, Settle(w, R),
           UNCHANGED <<sent, expiries, lost, reused>>
    PROVE  \A q \in Rows : Paid(q)'
<1>0. PICK r \in Rows : r = cur[w]
  BY Claimant DEF InFlight
<1>1. OnlyWorker(w) /\ cur'[w] = None
  BY WorkerAlone DEF Settle, TypeOK
<1>2. ASSUME NEW q \in Rows \ {r} PROVE Paid(q)'
  <2>1. SameRow(q) /\ SameHistory(q)
    BY <1>0, <1>2, RowAlone DEF SameHistory
  <2> QED
    BY <1>0, <1>1, <1>2, <2>1, OthersPaid
<1>3. ostatus'[r] = "failed"
  BY <1>0 DEF failRow, TypeOK
<1>4. w \in MaySend(r) /\ MaySend(r)' \subseteq MaySend(r) \ {w}
  BY <1>0, <1>1, <1>3, OutboxAssumption DEF MaySend, Holds, OnlyWorker
<1>5. Cardinality(MaySend(r)') + 1 <= Cardinality(MaySend(r))
  BY <1>0, <1>4, Counters, CountMinus
<1>6. Paid(r)'
  BY <1>0, <1>5, Counters DEF Paid
<1> QED
  BY <1>2, <1>6

\* failNotificationDelivery, with the claim or without it.
LEMMA RecordPaid ==
    ASSUME TypeOK, TypeOK', \A q \in Rows : Paid(q), NEW w \in Workers, wpc[w] \in {"authorize", "fail"},
           NEW b, RecordFailure(w, b), UNCHANGED <<sent, expiries, lost, reused>>
    PROVE  \A q \in Rows : Paid(q)'
BY SettlePaid, FailPaid DEF RecordFailure, Abort

\* A runtime that goes on with its row: it may send, lose the answer or find its claim gone.
LEMMA SendPaid ==
    ASSUME TypeOK, TypeOK', \A q \in Rows : Paid(q), NEW w \in Workers, Send(w)
    PROVE  \A q \in Rows : Paid(q)'
<1>0. PICK r \in Rows : r = cur[w] /\ wpc[w] = "send"
  BY Claimant DEF InFlight, Send
<1>1. /\ OnlyWorker(w) /\ UNCHANGED <<cur, tok>> /\ UNCHANGED rowVars
      /\ wpc'[w] \in {"complete", "fail"}
  BY WorkerAlone DEF Send, Goto, TypeOK
<1>2. ASSUME NEW q \in Rows \ {r} PROVE Paid(q)'
  <2>1. SameRow(q) /\ SameHistory(q)
    BY <1>0, <1>1, <1>2 DEF SameRow, SameHistory, Send, TypeOK
  <2> QED
    BY <1>0, <1>1, <1>2, <2>1, OthersPaid
<1>3. w \in MaySend(r) /\ MaySend(r)' \subseteq MaySend(r)
  BY <1>0, <1>1 DEF MaySend, Holds, OnlyWorker
<1>4. Cardinality(MaySend(r)') <= Cardinality(MaySend(r))
  BY <1>0, <1>3, Counters, CountKept
<1>5. Reclaimable(r)' <=> Reclaimable(r)
  BY <1>1 DEF Reclaimable
<1>6. CASE Goto(w, "complete") /\ sent' = [sent EXCEPT ![r] = @ + 1] /\ UNCHANGED lost
  <2>1. MaySend(r)' \subseteq MaySend(r) \ {w}
    BY <1>0, <1>1, <1>3, <1>6 DEF MaySend, Goto, TypeOK
  <2>2. Cardinality(MaySend(r)') + 1 <= Cardinality(MaySend(r))
    BY <1>0, <1>3, <2>1, Counters, CountMinus
  <2>3. sent'[r] = sent[r] + 1 /\ UNCHANGED <<lost, expiries, reused>>
    BY <1>0, <1>6 DEF Send, TypeOK
  <2> QED
    BY <1>0, <1>2, <1>5, <2>2, <2>3, Counters DEF Paid
<1>7. CASE sent' = [sent EXCEPT ![r] = @ + 1] /\ lost' = [lost EXCEPT ![r] = @ + 1]
  <2>1. sent'[r] = sent[r] + 1 /\ lost'[r] = lost[r] + 1 /\ UNCHANGED <<expiries, reused>>
    BY <1>0, <1>7 DEF Send, TypeOK
  <2>2. Paid(r)'
    BY <1>0, <1>4, <1>5, <2>1, Counters DEF Paid
  <2> QED
    BY <1>2, <2>2
<1>8. CASE UNCHANGED <<sent, lost>>
  <2>1. SameHistory(r)
    BY <1>8 DEF SameHistory, Send
  <2>2. Paid(r)'
    BY <1>0, <1>3, <1>5, <2>1, PaidKept
  <2> QED
    BY <1>2, <2>2
<1> QED
  BY <1>0, <1>6, <1>7, <1>8 DEF Send

\* The answer is stored, or lost, or comes too late.
LEMMA CompletePaid ==
    ASSUME TypeOK, TypeOK', \A q \in Rows : Paid(q), NEW w \in Workers, Complete(w)
    PROVE  \A q \in Rows : Paid(q)'
<1>0. PICK r \in Rows : r = cur[w] /\ wpc[w] = "complete" /\ UNCHANGED <<expiries, reused, sent>>
  BY Claimant DEF InFlight, Complete
<1>1. OnlyWorker(w) /\ cur'[w] \in {r, None}
  BY <1>0, WorkerAlone DEF Complete, Goto, Abort, Settle, TypeOK
<1>2. ASSUME NEW q \in Rows \ {r} PROVE Paid(q)'
  <2>1. SameRow(q)
    BY <1>0, <1>2, RowAlone DEF Complete
  <2>2. SameHistory(q)
    BY <1>0, <1>2 DEF SameHistory, Complete, TypeOK
  <2> QED
    BY <1>0, <1>1, <1>2, <2>1, <2>2, OthersPaid
<1>3. CASE completeRow(r) /\ UNCHANGED lost /\ \E R : Settle(w, R)
  <2>1. ostatus'[r] = "delivered" /\ cur'[w] = None
    BY <1>0, <1>3 DEF completeRow, Settle, TypeOK
  <2>2. MaySend(r)' \subseteq MaySend(r) /\ ~Reclaimable(r)' /\ SameHistory(r)
    BY <1>0, <1>1, <1>3, <2>1, OutboxAssumption
       DEF MaySend, Holds, OnlyWorker, Reclaimable, SameHistory
  <2> QED
    BY <1>0, <1>2, <2>2, PaidKept
<1>4. CASE lost' = [lost EXCEPT ![r] = @ + 1] /\ Goto(w, "fail") /\ UNCHANGED rowVars
  <2>1. MaySend(r)' \subseteq MaySend(r) \cup {w} /\ (Reclaimable(r)' <=> Reclaimable(r))
    BY <1>0, <1>1, <1>4 DEF MaySend, Holds, OnlyWorker, Reclaimable
  <2>2. Cardinality(MaySend(r)') <= Cardinality(MaySend(r)) + 1
    BY <1>0, <2>1, Counters, CountPlus
  <2>3. lost'[r] = lost[r] + 1
    BY <1>0, <1>4 DEF TypeOK
  <2>4. Paid(r)'
    BY <1>0, <2>1, <2>2, <2>3, Counters DEF Paid
  <2> QED
    BY <1>2, <2>4
<1>5. CASE ~Holds(w) /\ Goto(w, "fail") /\ UNCHANGED <<rowVars, lost>>
  <2>1. MaySend(r)' \subseteq MaySend(r) /\ (Reclaimable(r)' => Reclaimable(r)) /\ SameHistory(r)
    BY <1>0, <1>1, <1>5 DEF MaySend, Holds, OnlyWorker, Reclaimable, SameHistory, Goto
  <2> QED
    BY <1>0, <1>2, <2>1, PaidKept
<1> QED
  BY <1>0, <1>3, <1>4, <1>5 DEF Complete, Abort

\* What happens to rows and recipients outside a dispatch leaves every row paid.
LEMMA OutsidePaid ==
    ASSUME TypeOK, TypeOK', \A q \in Rows : Paid(q), UNCHANGED <<wpc, cur, tok, sent, lost, reused>>,
           \/ UNCHANGED <<ostatus, token, fresh, retry, expiries>>
           \/ \E r \in Rows : enqueueNotification(r) \/ suppressNotification(r) \/ ExpireClaim(r)
    PROVE  \A q \in Rows : Paid(q)'
<1>1. ASSUME NEW q \in Rows, MaySend(q)' \subseteq MaySend(q), Reclaimable(q)' => Reclaimable(q),
             UNCHANGED expiries
      PROVE  Paid(q)'
  BY <1>1, PaidKept DEF SameHistory
<1>2. CASE UNCHANGED <<ostatus, token, fresh, retry, expiries>>
  <2>1. \A q \in Rows : MaySend(q)' \subseteq MaySend(q) /\ (Reclaimable(q)' => Reclaimable(q))
    BY <1>2 DEF MaySend, Holds, Reclaimable
  <2> QED
    BY <1>1, <1>2, <2>1
<1>3. ASSUME NEW r \in Rows, enqueueNotification(r) \/ suppressNotification(r)
      PROVE  \A q \in Rows : Paid(q)'
  <2>1. /\ UNCHANGED <<token, fresh, retry, expiries>>
        /\ \A q \in Rows : ostatus'[q] = "delivering" => ostatus[q] = "delivering"
        /\ \A q \in Rows : Reclaimable(q)' => Reclaimable(q)
    BY <1>3 DEF enqueueNotification, suppressNotification, Reclaimable, TypeOK
  <2>2. \A q \in Rows : MaySend(q)' \subseteq MaySend(q)
    BY <2>1 DEF MaySend, Holds
  <2> QED
    BY <1>1, <2>1, <2>2
<1>4. ASSUME NEW r \in Rows, ExpireClaim(r) PROVE \A q \in Rows : Paid(q)'
  <2>1. UNCHANGED <<ostatus, token, retry>>
    BY <1>4 DEF ExpireClaim
  <2>2. \A q \in Rows : MaySend(q)' \subseteq MaySend(q)
    BY <2>1 DEF MaySend, Holds
  <2>3. \A q \in Rows \ {r} : (Reclaimable(q)' => Reclaimable(q)) /\ SameHistory(q)
    BY <1>4, <2>1 DEF ExpireClaim, Reclaimable, SameHistory, TypeOK
  <2>4. ASSUME NEW q \in Rows \ {r} PROVE Paid(q)'
    BY <2>2, <2>3, <2>4, PaidKept
  <2>5. Cardinality(MaySend(r)') <= Cardinality(MaySend(r))
    BY <2>2, Counters, CountKept
  <2>6. expiries'[r] = expiries[r] + 1
    BY <1>4 DEF ExpireClaim, TypeOK
  <2>7. Paid(r)'
    BY <2>5, <2>6, Counters DEF Paid
  <2> QED
    BY <2>4, <2>7
<1> QED
  BY <1>2, <1>3, <1>4

\* A repeated call that only gets the row back is a cause of its own.
LEMMA RepeatPaid ==
    ASSUME TypeOK, TypeOK', \A q \in Rows : Paid(q), NEW w \in Workers, NEW r \in Rows, cur[w] = None,
           NEW t, Start(w, r, t), UNCHANGED <<rowVars, sent, expiries, lost>>,
           reused' = [reused EXCEPT ![r] = @ + 1]
    PROVE  \A q \in Rows : Paid(q)'
<1>1. OnlyWorker(w) /\ cur'[w] = r
  BY WorkerAlone DEF Start, TypeOK
<1>2. ASSUME NEW q \in Rows \ {r} PROVE Paid(q)'
  <2>1. SameRow(q) /\ SameHistory(q)
    BY <1>2 DEF SameRow, SameHistory, TypeOK
  <2> QED
    BY <1>1, <1>2, <2>1, OthersPaid
<1>3. MaySend(r)' \subseteq MaySend(r) \cup {w} /\ (Reclaimable(r)' <=> Reclaimable(r))
  BY <1>1 DEF MaySend, Holds, OnlyWorker, Reclaimable
<1>4. Cardinality(MaySend(r)') <= Cardinality(MaySend(r)) + 1
  BY <1>3, Counters, CountPlus
<1>5. reused'[r] = reused[r] + 1
  BY DEF TypeOK
<1>6. Paid(r)'
  BY <1>3, <1>4, <1>5, Counters DEF Paid
<1> QED
  BY <1>2, <1>6

\* No interleaving of runtimes, claims, retries and crashes sends without a cause.
LEMMA SendsStep ==
    ASSUME TypeOK, TypeOK', AttemptsLeft, SendsReserved, [Next]_vars
    PROVE  SendsReserved'
<1>0. \A q \in Rows : Paid(q)
  BY DEF SendsReserved, Paid
<1> DEFINE AllPaid == \A q \in Rows : Paid(q)'
<1>1. ASSUME UNCHANGED vars PROVE AllPaid
  BY <1>0, <1>1, OutsidePaid
<1>2. ASSUME NEW r \in Rows,
             \/ enqueueNotification(r) \/ acknowledgeNotification(r) \/ suppressNotification(r)
             \/ ExpireClaim(r) \/ ChangeAuthority(r)
      PROVE  AllPaid
  <2>1. UNCHANGED <<wpc, cur, tok, sent, lost, reused>>
    BY <1>2 DEF enqueueNotification, acknowledgeNotification, suppressNotification, ExpireClaim,
       ChangeAuthority
  <2>2. CASE acknowledgeNotification(r) \/ ChangeAuthority(r)
    <3>1. UNCHANGED <<ostatus, token, fresh, retry, expiries>>
      BY <2>2 DEF acknowledgeNotification, ChangeAuthority
    <3> QED
      BY <1>0, <2>1, <3>1, OutsidePaid
  <2> QED
    BY <1>0, <1>2, <2>1, <2>2, OutsidePaid
<1>3. ASSUME NEW w \in Workers, processPending(w) \/ processRetries(w) PROVE AllPaid
  <2>1. wpc[w] = "idle" /\ wpc' = [wpc EXCEPT ![w] = "loop"] /\ UNCHANGED <<rowVars, cur, tok, faultVars, sent>>
    BY <1>3 DEF processPending, processRetries, Batch
  <2>2. \A q \in Rows : MaySend(q)' \subseteq MaySend(q) /\ (Reclaimable(q)' => Reclaimable(q))
                        /\ SameHistory(q)
    BY <2>1 DEF MaySend, Holds, Reclaimable, SameHistory, TypeOK
  <2> QED
    BY <1>0, <2>2, PaidKept
<1>4. ASSUME NEW w \in Workers, NEW r \in Rows, wpc[w] \in {"idle", "loop"}, Claimable(r),
             NEW t \in Unused, ClaimRow(r, t), Start(w, r, t), UNCHANGED <<faultVars, sent>>
      PROVE  AllPaid
  <2>1. cur[w] = None /\ t \in Tokens
    BY <1>4 DEF TypeOK, InFlight, Unused
  <2> QED
    BY <1>0, <1>4, <2>1, ClaimPaid
<1>5. ASSUME NEW w \in Workers, NEW r \in Rows, DispatchListed(w, r) PROVE AllPaid
  <2>1. CASE Settle(w, todo[w] \ {r}) /\ UNCHANGED rowVars
    BY <1>0, <1>5, <2>1, SettlePaid DEF DispatchListed
  <2> QED
    BY <1>4, <1>5, <2>1 DEF DispatchListed
<1>6. ASSUME NEW w \in Workers, NEW r \in Rows, dispatch(w, r) PROVE AllPaid
  BY <1>4, <1>6 DEF dispatch
<1>7. ASSUME NEW w \in Workers, NEW r \in Rows, RepeatDispatch(w, r) PROVE AllPaid
  <2>1. /\ cur[w] = None /\ token[r] \in Tokens /\ Start(w, r, token[r])
        /\ UNCHANGED <<sent, expiries, lost>> /\ reused' = [reused EXCEPT ![r] = @ + 1]
    BY <1>7 DEF RepeatDispatch, TypeOK, InFlight
  <2>2. CASE Claimable(r) /\ ClaimRow(r, token[r])
    BY <1>0, <2>1, <2>2, ClaimPaid
  <2>3. CASE UNCHANGED rowVars
    BY <1>0, <2>1, <2>3, RepeatPaid
  <2> QED
    BY <1>7, <2>2, <2>3 DEF RepeatDispatch
<1>8. ASSUME NEW w \in Workers, Authorize(w) PROVE AllPaid
  <2>1. wpc[w] = "authorize" /\ UNCHANGED <<sent, expiries, lost, reused>>
    BY <1>8 DEF Authorize
  <2>2. CASE Goto(w, "send") /\ UNCHANGED rowVars
    <3>1. wpc' = [wpc EXCEPT ![w] = "send"] /\ UNCHANGED <<cur, tok>>
      BY <2>2 DEF Goto
    <3>2. \A q \in Rows : MaySend(q)' \subseteq MaySend(q) /\ (Reclaimable(q)' => Reclaimable(q))
                          /\ SameHistory(q)
      BY <2>1, <2>2, <3>1 DEF MaySend, Holds, Reclaimable, SameHistory, TypeOK
    <3> QED
      BY <1>0, <3>2, PaidKept
  <2> QED
    BY <1>0, <1>8, <2>1, <2>2, RecordPaid DEF Authorize
<1>9. ASSUME NEW w \in Workers, Send(w) PROVE AllPaid
  BY <1>0, <1>9, SendPaid
<1>10. ASSUME NEW w \in Workers, Complete(w) PROVE AllPaid
  BY <1>0, <1>10, CompletePaid
<1>11. ASSUME NEW w \in Workers, Fail(w) PROVE AllPaid
  BY <1>0, <1>11, RecordPaid DEF Fail
<1>12. ASSUME NEW w \in Workers, Crash(w) PROVE AllPaid
  BY <1>0, <1>12, SettlePaid, FailPaid DEF Crash, Abort
<1>13. AllPaid
  BY <1>1, <1>2, <1>3, <1>5, <1>6, <1>7, <1>8, <1>9, <1>10, <1>11, <1>12 DEF Next, Work
<1> QED
  BY <1>13 DEF SendsReserved, Paid

------------------------------------------------------------------------------
\* A runtime that stands before its send has seen its recipient authorized since the claim.
LEMMA AuthorityStep ==
    ASSUME TypeOK, AuthoritySeen, [Next]_vars
    PROVE  AuthoritySeen'
<1> USE DEF InFlight, AuthoritySeen
<1>1. CASE UNCHANGED <<authorized, wpc, cur, okSince>>
  BY <1>1
<1>2. ASSUME NEW r \in Rows, ChangeAuthority(r) PROVE AuthoritySeen'
  <2>1. /\ UNCHANGED <<wpc, cur>> /\ authorized' = [authorized EXCEPT ![r] = ~authorized[r]]
        /\ \A w \in Workers : okSince'[w] = (okSince[w] \/ (cur[w] = r /\ ~authorized[r]))
    BY <1>2 DEF ChangeAuthority
  <2>2. \A w \in Workers : wpc[w] \in InFlight => cur[w] \in Rows
    BY Claimant
  <2> QED
    BY <2>1, <2>2 DEF TypeOK
<1>3. ASSUME NEW w \in Workers, NEW R, Settle(w, R), UNCHANGED authorized PROVE AuthoritySeen'
  BY <1>3 DEF Settle, TypeOK
<1>4. ASSUME NEW w \in Workers, NEW r, NEW t, Start(w, r, t), UNCHANGED authorized PROVE AuthoritySeen'
  BY <1>4 DEF Start, TypeOK
<1>5. ASSUME NEW w \in Workers, NEW l \in {"complete", "fail"}, wpc[w] \in InFlight, Goto(w, l),
             UNCHANGED authorized
      PROVE  AuthoritySeen'
  BY <1>5 DEF Goto, TypeOK
<1>6. ASSUME NEW w \in Workers, Authorize(w) PROVE AuthoritySeen'
  <2>1. CASE Deliverable(cur[w]) /\ Goto(w, "send")
    BY <1>6, <2>1 DEF Authorize, Deliverable, Goto, TypeOK
  <2> QED
    BY <1>3, <1>6, <2>1 DEF Authorize, RecordFailure, Abort
<1>7. ASSUME NEW w \in Workers, NEW R, Batch(w, R) PROVE AuthoritySeen'
  BY <1>7 DEF Batch, TypeOK
<1>8. ASSUME NEW w \in Workers, Send(w) \/ Complete(w) PROVE AuthoritySeen'
  <2>1. wpc[w] \in InFlight /\ UNCHANGED authorized
    BY <1>8 DEF Send, Complete
  <2>2. \/ Goto(w, "complete") \/ Goto(w, "fail")
        \/ \E R : Settle(w, R)
    BY <1>8 DEF Send, Complete, Abort
  <2> QED
    BY <1>3, <1>5, <2>1, <2>2
<1>9. ASSUME NEW w \in Workers, Fail(w) \/ Crash(w) PROVE AuthoritySeen'
  BY <1>3, <1>9 DEF Fail, Crash, RecordFailure, Abort
<1>10. ASSUME NEW w \in Workers, NEW r \in Rows,
              DispatchListed(w, r) \/ dispatch(w, r) \/ RepeatDispatch(w, r)
       PROVE  AuthoritySeen'
  BY <1>3, <1>4, <1>10 DEF DispatchListed, dispatch, RepeatDispatch
<1> QED
  BY <1>1, <1>2, <1>6, <1>7, <1>8, <1>9, <1>10, ZenonT(60)
     DEF Next, Work, processPending, processRetries, enqueueNotification, acknowledgeNotification,
         suppressNotification, ExpireClaim

\* Rows that can send no more than they are paid for have not sent more.
LEMMA ReservedAccounted ==
    ASSUME TypeOK, SendsReserved
    PROVE  SendsAccounted
<1> SUFFICES ASSUME NEW r \in Rows PROVE sent[r] <= 1 + expiries[r] + lost[r] + reused[r]
  BY DEF SendsAccounted
<1>1. MaySend(r) \in SUBSET Workers
  BY DEF MaySend
<1>2. /\ Cardinality(MaySend(r)) \in Nat
      /\ sent[r] \in Nat /\ expiries[r] \in Nat /\ lost[r] \in Nat /\ reused[r] \in Nat
  BY <1>1, Count DEF TypeOK
<1> QED
  BY <1>2 DEF SendsReserved

\* The empty outbox.
LEMMA SafeInit == Init => DeliverySafe
<1> SUFFICES ASSUME Init PROVE DeliverySafe
  OBVIOUS
<1>1. TypeOK
  BY TypeInit
<1>2. AttemptsLeft /\ AttemptsBounded /\ AuthoritySeen
  BY OutboxAssumption DEF Init, AttemptsLeft, AttemptsBounded, AuthoritySeen, Claimable, InFlight
<1>3. SendsReserved
  <2>1. \A r \in Rows : MaySend(r) = {}
    BY OutboxAssumption DEF Init, MaySend
  <2> QED
    BY <2>1, FS_EmptySet DEF Init, SendsReserved
<1> QED
  BY <1>1, <1>2, <1>3, ReservedAccounted DEF DeliverySafe

\* Every send and every attempt of a row has its cause, for any number of runtimes that
\* list, claim, send, retry, repeat and die, and any bound on the faults.
THEOREM DeliverySafeAlways == Spec => []DeliverySafe
<1>1. DeliverySafe /\ [Next]_vars => DeliverySafe'
  <2> SUFFICES ASSUME DeliverySafe, [Next]_vars PROVE DeliverySafe'
    OBVIOUS
  <2>0. TypeOK /\ AttemptsLeft /\ AttemptsBounded /\ SendsReserved /\ AuthoritySeen
    BY DEF DeliverySafe
  <2>1. TypeOK'
    BY <2>0, TypeStep
  <2>2. AttemptsLeft' /\ AttemptsBounded'
    BY <2>0, AttemptsStep
  <2>3. SendsReserved'
    BY <2>0, <2>1, SendsStep
  <2>4. AuthoritySeen'
    BY <2>0, AuthorityStep
  <2>5. SendsAccounted'
    <3> SUFFICES ASSUME NEW r \in Rows
                 PROVE  sent'[r] <= 1 + expiries'[r] + lost'[r] + reused'[r]
      BY DEF SendsAccounted
    <3> QED
      BY <2>0, <2>1, <2>3, Counters DEF SendsReserved
  <2> QED
    BY <2>1, <2>2, <2>3, <2>4, <2>5 DEF DeliverySafe
<1> QED
  BY <1>1, SafeInit, PTL DEF Spec

\* Nothing takes an outcome back: claims and failures need a row in delivery.
LEMMA OutcomeStep ==
    ASSUME TypeOK, [Next]_vars
    PROVE  OutcomeFinal
<1>1. CASE UNCHANGED <<ostatus, token, attempts, fresh, retry, expiries>>
  BY <1>1 DEF OutcomeFinal
<1>2. ASSUME NEW r \in Rows, RowStep(r) PROVE OutcomeFinal
  <2>1. ostatus[r] \notin {"suppressed", "delivered"}
    BY <1>2 DEF RowStep, enqueueNotification, suppressNotification, ExpireClaim, Claimable
  <2>2. \A q \in Rows \ {r} : ostatus'[q] = ostatus[q]
    BY <1>2 DEF RowStep, enqueueNotification, suppressNotification, ExpireClaim, ClaimRow,
       completeRow, failRow, TypeOK
  <2> QED
    BY <2>1, <2>2 DEF OutcomeFinal
<1> QED
  BY <1>1, <1>2, RowSteps

\* A late answer never reopens a delivered or suppressed row, and a message leaves only to a
\* recipient that was authorized after its row was claimed.
THEOREM DeliveryStepsAlways == Spec => DeliverySteps
<1>1. DeliverySafe /\ [Next]_vars => OutcomeFinal /\ SentUnderAuthority
  BY OutcomeStep DEF DeliverySafe, AuthoritySeen, SentUnderAuthority
<1> QED
  BY <1>1, DeliverySafeAlways, PTL DEF Spec, DeliverySteps
==============================================================================
