-------------------------- MODULE BookingsProofs --------------------------
(***************************************************************************)
(* Proofs about Bookings for any number of bookings, slots, requests and   *)
(* workers: the tables keep their types; a booking and its lock agree, and *)
(* a booking that left pending keeps its seats, whatever the interleaving  *)
(* of requests, webhooks, sweeps and crashes.                              *)
(*                                                                         *)
(* The capacity view never counts more seats than a slot has, bookings     *)
(* revived by a payment apart.  Three ideas:                               *)
(*                                                                         *)
(*  - a set of seats is finite, grows with the set of its bookings, and    *)
(*    one booking adds at most its party to it;                            *)
(*  - no step but a commit of a request that holds the slot row gives a    *)
(*    booking seats that it did not have;                                  *)
(*  - so the room such a request found, once, is still there at its        *)
(*    commit, which takes no more than that.                               *)
(*                                                                         *)
(* Bookings implements SeatLedger for the same reasons: a step in which    *)
(* nobody takes seats is GiveBack of whoever is not seated any more, and   *)
(* the room that such a commit found is the room that Take asks for.       *)
(***************************************************************************)
EXTENDS Bookings, FiniteSetTheorems, TLAPS


-----------------------------------------------------------------------------
(* Type correctness *)

(* Every step of a request on its own record keeps the record's type.      *)
LEMMA RequestsTyped ==
    ASSUME TypeOK, NEW c \in Requests, NEW t \in Request,
           tx' = [tx EXCEPT ![c] = t]
    PROVE  tx' \in [Requests -> Request]
BY DEF TypeOK

LEMMA IdleTyped == Idle \in Request /\ NoBooking \in BookingRow /\ NoLock \in LockRow
BY ConstantsAssumption
   DEF Idle, Request, Statuses, Capturing, NoBooking, BookingRow, NoLock, LockRow

(* The steps that only write a request's record: opening a transaction or  *)
(* a read, taking the slot row, and ending.                                *)
LEMMA TypeStart ==
    ASSUME TypeOK, NEW c \in Requests, StartRequest(c)
    PROVE  TypeOK'
<1>1. ASSUME NEW t \in Request, Open(c, t) PROVE TypeOK'
  BY <1>1, RequestsTyped DEF Open, TypeOK
<1>2. ASSUME NEW op \in {"cancel", "checkin"}, NEW b \in Bookings
      PROVE  Reading(op, b) \in Request
  BY ConstantsAssumption DEF Reading, Request, TypeOK, BookingRow
<1>3. ASSUME NEW op \in Capturing, NEW b \in Bookings, NEW s \in Slots,
             NEW q \in Quantities, NEW k \in Keys \cup {Null}
      PROVE  Seating(op, b, s, q, k) \in Request
  BY ConstantsAssumption
     DEF Seating, Request, TypeOK, Quantities, Capturing, Statuses
<1>4. ASSUME NEW b \in Bookings, CancelRead(c, b) PROVE TypeOK'
  BY <1>1, <1>2, <1>4 DEF CancelRead
<1>5. ASSUME NEW b \in Bookings, CheckInRead(c, b) PROVE TypeOK'
  BY <1>1, <1>2, <1>5 DEF CheckInRead
<1>6. ASSUME NEW b \in Bookings, NEW s \in Slots, NEW q \in Quantities,
             \/ StartUpdate(c, b, s, q)
             \/ StartAgent(c, b, s, q)
             \/ \E k \in Keys \cup {Null} : StartCreate(c, b, s, q, k)
      PROVE TypeOK'
  BY <1>1, <1>3, <1>6 DEF StartUpdate, StartAgent, StartCreate, Capturing
<1> QED
  BY <1>4, <1>5, <1>6 DEF StartRequest

(* Writing one row keeps the table's type.                                 *)
LEMMA RowsTyped ==
    ASSUME TypeOK, NEW b \in Bookings
    PROVE  /\ booking[b] \in BookingRow /\ lock[b] \in LockRow
           /\ \A row \in BookingRow :
                 [booking EXCEPT ![b] = row] \in [Bookings -> BookingRow]
           /\ \A row \in LockRow :
                 [lock EXCEPT ![b] = row] \in [Bookings -> LockRow]
BY DEF TypeOK

(* A step of an open request.                                              *)
LEMMA TypeRequestStep ==
    ASSUME TypeOK, RequestsWellFormed, NEW c \in Requests, RequestStep(c) \/ Abort(c)
    PROVE  TypeOK'
<1> DEFINE t == tx[c]
<1> USE ConstantsAssumption
<1>1. t \in Request /\ Idle \in Request /\ NoBooking \in BookingRow
  BY IdleTyped DEF TypeOK
<1>2. Finish(c) => tx' \in [Requests -> Request]
  BY <1>1, RequestsTyped DEF Finish
<1>3. \A consumed \in BOOLEAN : NewLock(t, consumed) \in LockRow
  BY <1>1 DEF NewLock, LockRow, Request
<1>4. t.op # "idle" => t.b \in Bookings
  BY DEF RequestsWellFormed
<1>5. CASE LockSlotCapacity(c)
  <2>1. CalculateExpiry \in Nat
    BY DEF CalculateExpiry, TypeOK
  <2>2. [t EXCEPT !.holds = TRUE, !.expiry = CalculateExpiry] \in Request
    BY <1>1, <2>1 DEF Request
  <2>3. tx' = [tx EXCEPT ![c] = [t EXCEPT !.holds = TRUE, !.expiry = CalculateExpiry]]
    BY <1>5 DEF LockSlotCapacity, TypeOK
  <2> QED
    BY <1>5, <2>2, <2>3, RequestsTyped DEF LockSlotCapacity, TypeOK
<1>6. CASE RejectCapacity(c) \/ RejectKey(c) \/ Abort(c)
  BY <1>2, <1>6 DEF RejectCapacity, RejectKey, Abort, TypeOK
<1>7. CASE CommitCreate(c)
  <2> DEFINE row == [NoBooking EXCEPT !.status = "pending", !.slot = t.slot, !.qty = t.qty,
                                      !.expires_at = t.expiry, !.key = t.key]
  <2>1. t.b \in Bookings
    BY <1>4, <1>7 DEF CommitCreate
  <2>2. row \in BookingRow
    BY <1>1 DEF BookingRow, NoBooking, Request, Statuses
  <2>3. booking' = [booking EXCEPT ![t.b] = row] /\ lock' = [lock EXCEPT ![t.b] = NewLock(t, FALSE)]
    BY <1>7 DEF CommitCreate
  <2>4. booking' \in [Bookings -> BookingRow] /\ lock' \in [Bookings -> LockRow]
    <3> HIDE DEF row, t
    <3> QED
      BY <1>3, <2>1, <2>2, <2>3, RowsTyped
  <2> QED
    BY <1>2, <1>7, <2>4 DEF CommitCreate, TypeOK
<1>8. CASE CommitAgent(c)
  <2> DEFINE row == [NoBooking EXCEPT !.status = "confirmed", !.source = "bng",
                                      !.slot = t.slot, !.qty = t.qty]
  <2>1. t.b \in Bookings
    BY <1>4, <1>8 DEF CommitAgent
  <2>2. row \in BookingRow
    BY <1>1 DEF BookingRow, NoBooking, Request, Statuses
  <2>3. booking' = [booking EXCEPT ![t.b] = row] /\ lock' = [lock EXCEPT ![t.b] = NewLock(t, TRUE)]
    BY <1>8 DEF CommitAgent
  <2>4. booking' \in [Bookings -> BookingRow] /\ lock' \in [Bookings -> LockRow]
    <3> HIDE DEF row, t
    <3> QED
      BY <1>3, <2>1, <2>2, <2>3, RowsTyped
  <2> QED
    BY <1>2, <1>8, <2>4 DEF CommitAgent, TypeOK
<1>9. CASE CommitUpdate(c)
  <2> DEFINE row == [booking[t.b] EXCEPT !.slot = t.slot, !.qty = t.qty, !.expires_at = t.expiry]
  <2>1. t.b \in Bookings
    BY <1>4, <1>9 DEF CommitUpdate
  <2>2. row \in BookingRow
    BY <1>1, <2>1, RowsTyped DEF BookingRow, Request
  <2>3. booking' = [booking EXCEPT ![t.b] = row] /\ lock' = [lock EXCEPT ![t.b] = NewLock(t, FALSE)]
    BY <1>9, <2>1 DEF CommitUpdate, TypeOK
  <2>4. booking' \in [Bookings -> BookingRow] /\ lock' \in [Bookings -> LockRow]
    <3> HIDE DEF row, t
    <3> QED
      BY <1>3, <2>1, <2>2, <2>3, RowsTyped
  <2> QED
    BY <1>2, <1>9, <2>4 DEF CommitUpdate, TypeOK
<1>10. CASE CancelWrite(c)
  <2> DEFINE row == [booking[t.b] EXCEPT !.status = "cancelled"]
  <2>1. t.b \in Bookings
    BY <1>4, <1>10 DEF CancelWrite
  <2>2. row \in BookingRow
    BY <2>1, RowsTyped DEF BookingRow, Statuses
  <2>3. ReleaseLock(lock[t.b], t.seen) \in LockRow
    BY <2>1, RowsTyped DEF ReleaseLock, LockRow
  <2>4. /\ booking' = [booking EXCEPT ![t.b] = row]
        /\ lock' = [lock EXCEPT ![t.b] = ReleaseLock(lock[t.b], t.seen)]
    BY <1>10, <2>1 DEF CancelWrite, TypeOK
  <2>5. booking' \in [Bookings -> BookingRow] /\ lock' \in [Bookings -> LockRow]
    <3> HIDE DEF row, t
    <3> QED
      BY <2>1, <2>2, <2>3, <2>4, RowsTyped
  <2> QED
    BY <1>2, <1>10, <2>5 DEF CancelWrite, TypeOK
<1>11. CASE CheckInWrite(c)
  <2> DEFINE row == [booking[t.b] EXCEPT !.checked_in = TRUE]
  <2>1. t.b \in Bookings
    BY <1>4, <1>11 DEF CheckInWrite
  <2>2. row \in BookingRow
    <3>1. \A r \in BookingRow : [r EXCEPT !.checked_in = TRUE] \in BookingRow
      BY DEF BookingRow
    <3> QED
      BY <2>1, <3>1, RowsTyped
  <2>3. booking' = [booking EXCEPT ![t.b] = row]
    BY <1>11, <2>1 DEF CheckInWrite, TypeOK
  <2>4. booking' \in [Bookings -> BookingRow]
    <3> HIDE DEF row, t
    <3> QED
      BY <2>1, <2>2, <2>3, RowsTyped
  <2> QED
    BY <1>2, <1>11, <2>4 DEF CheckInWrite, TypeOK
<1> QED
  BY <1>5, <1>6, <1>7, <1>8, <1>9, <1>10, <1>11 DEF RequestStep

(* An operation on one existing booking.                                   *)
LEMMA TypeBookingStep ==
    ASSUME TypeOK, NEW b \in Bookings, BookingStep(b)
    PROVE  TypeOK'
<1> USE ConstantsAssumption
<1>1. lock' = [lock EXCEPT ![b] = [lock[b] EXCEPT !.consumed = TRUE]]
  BY DEF BookingStep, ConfirmPending, CancelPending, ConfirmBookingPayment,
         ReconcileConfirm, Consume, TypeOK
<1>2. lock' \in [Bookings -> LockRow]
  <2>1. [lock[b] EXCEPT !.consumed = TRUE] \in LockRow
    BY RowsTyped DEF LockRow
  <2> QED
    BY <1>1, <2>1, RowsTyped
<1>3. \A s \in Statuses, e \in Nat \cup {Null} :
         [booking[b] EXCEPT !.status = s, !.expires_at = e] \in BookingRow
  BY RowsTyped DEF BookingRow
<1>4. \A s \in Statuses : [booking[b] EXCEPT !.status = s] \in BookingRow
  BY RowsTyped DEF BookingRow
<1>5. \A row \in BookingRow :
         booking' = [booking EXCEPT ![b] = row] => booking' \in [Bookings -> BookingRow]
  BY RowsTyped
<1>6. Revive(b) => revived' \subseteq Bookings
  BY DEF Revive, TypeOK
<1>7. CASE ConfirmPending(b)
  BY <1>2, <1>3, <1>5, <1>6, <1>7 DEF ConfirmPending, TypeOK, Statuses
<1>8. CASE CancelPending(b)
  BY <1>2, <1>3, <1>5, <1>8 DEF CancelPending, TypeOK, Statuses
<1>9. CASE ConfirmBookingPayment(b)
  <2>1. booking' = [booking EXCEPT ![b] = [booking[b] EXCEPT !.status = "confirmed"]]
    BY <1>9 DEF ConfirmBookingPayment, TypeOK
  <2> QED
    BY <1>2, <1>4, <1>5, <1>6, <1>9, <2>1 DEF ConfirmBookingPayment, TypeOK, Statuses
<1>10. CASE ReconcileConfirm(b)
  <2> DEFINE new == IF booking[b].status = "pending" THEN "confirmed" ELSE booking[b].status
  <2>1. new \in Statuses
    BY RowsTyped DEF BookingRow, Statuses
  <2>2. booking' = [booking EXCEPT ![b] = [booking[b] EXCEPT !.status = new]]
    BY <1>10 DEF ReconcileConfirm, TypeOK
  <2> HIDE DEF new
  <2> QED
    BY <1>2, <1>4, <1>5, <1>10, <2>1, <2>2 DEF ReconcileConfirm, TypeOK
<1> QED
  BY <1>7, <1>8, <1>9, <1>10 DEF BookingStep

(* A step of the expiry worker.                                            *)
LEMMA TypeWorkerStep ==
    ASSUME TypeOK, NEW w \in Workers, WorkerStep(w)
    PROVE  TypeOK'
<1>1. \A s \in {"idle", "apply", "locks"}, S \in SUBSET Bookings :
         [step |-> s, batch |-> S] \in Sweep
  BY DEF Sweep
<1>2. sweep[w] \in Sweep /\ [sweep[w] EXCEPT !.step = "locks"] \in Sweep
  BY DEF TypeOK, Sweep
<1>3. CASE ExpireScan(w)
  <2>1. StaleBookings \subseteq Bookings
    BY DEF StaleBookings
  <2> QED
    BY <1>1, <1>3, <2>1 DEF ExpireScan, TypeOK
<1>4. CASE ExpireApply(w)
  <2>1. \A b \in Bookings :
           [booking[b] EXCEPT !.status = "expired", !.expires_at = now] \in BookingRow
    <3>1. \A r \in BookingRow, n \in Nat :
             [r EXCEPT !.status = "expired", !.expires_at = n] \in BookingRow
      BY DEF BookingRow, Statuses
    <3> QED
      BY <3>1, RowsTyped DEF TypeOK
  <2>2. booking' \in [Bookings -> BookingRow]
    BY <1>4, <2>1 DEF ExpireApply, TypeOK
  <2>3. sweep' = [sweep EXCEPT ![w] = [sweep[w] EXCEPT !.step = "locks"]]
    BY <1>4 DEF ExpireApply, TypeOK
  <2> QED
    BY <1>2, <1>4, <2>2, <2>3 DEF ExpireApply, TypeOK
<1>5. CASE ExpireLocks(w)
  <2>1. \A b \in Bookings : [lock[b] EXCEPT !.consumed = TRUE] \in LockRow
    BY RowsTyped DEF LockRow
  <2> QED
    BY <1>1, <1>5, <2>1 DEF ExpireLocks, TypeOK
<1>6. CASE WorkerCrash(w)
  BY <1>1, <1>6 DEF WorkerCrash, TypeOK
<1> QED
  BY <1>3, <1>4, <1>5, <1>6 DEF WorkerStep

(* The record of a request stays well formed: only an opened request has   *)
(* an operation, and it keeps its booking, slot and party to the end.      *)
LEMMA RequestsStayWellFormed ==
    ASSUME TypeOK, RequestsWellFormed, [Next]_vars
    PROVE  RequestsWellFormed'
<1> DEFINE Sound(t, n) ==
        /\ t.op # "idle" => t.b \in Bookings
        /\ t.op \in Capturing => t.slot \in Slots /\ t.qty \in Quantities /\ t.began <= n
        /\ t.holds => t.op \in Capturing
<1>1. \A c \in Requests : Sound(tx[c], now)
  BY DEF RequestsWellFormed
<1>2. Sound(Idle, now)
  BY DEF Idle, Capturing
<1>3. SUFFICES ASSUME NEW d \in Requests PROVE Sound(tx'[d], now')
  BY DEF RequestsWellFormed
<1>4. now' \in Nat /\ now <= now'
  <2>1. now \in Nat
    BY DEF TypeOK
  <2>2. CASE now' = now
    BY <2>1, <2>2
  <2>3. CASE Tick
    BY <2>1, <2>3 DEF Tick
  <2>4. ASSUME NEW c \in Requests, StartRequest(c) \/ RequestStep(c) \/ Abort(c)
        PROVE  now' = now
    <3>1. StartRequest(c) => now' = now
      BY DEF StartRequest, CancelRead, CheckInRead, StartUpdate, StartAgent, StartCreate, Open
    <3>2. RequestStep(c) => now' = now
      BY DEF RequestStep, LockSlotCapacity, RejectCapacity, RejectKey, CommitCreate,
             CommitAgent, CommitUpdate, CancelWrite, CheckInWrite
    <3> QED
      BY <2>4, <3>1, <3>2 DEF Abort
  <2>5. CASE \E b \in Bookings : BookingStep(b)
    BY <2>2, <2>5 DEF BookingStep, ConfirmPending, CancelPending, ConfirmBookingPayment,
         ReconcileConfirm
  <2>6. CASE \E w \in Workers : WorkerStep(w)
    BY <2>2, <2>6 DEF WorkerStep, ExpireScan, ExpireApply, ExpireLocks, WorkerCrash
  <2> QED
    BY <2>2, <2>3, <2>4, <2>5, <2>6 DEF Next, vars
<1>5. tx[d] \in Request
  BY DEF TypeOK
<1>6. CASE tx' = tx
  BY <1>1, <1>4, <1>5, <1>6 DEF Request, TypeOK
<1>7. ASSUME NEW c \in Requests, StartRequest(c) PROVE Sound(tx'[d], now')
  <2>1. now' = now
    BY <1>7 DEF StartRequest, CancelRead, CheckInRead, StartUpdate, StartAgent,
               StartCreate, Open
  <2>2. \E t : Sound(t, now) /\ tx' = [tx EXCEPT ![c] = t]
    BY <1>7 DEF StartRequest, CancelRead, CheckInRead, StartUpdate, StartAgent,
               StartCreate, Open, Reading, Seating, Capturing, TypeOK
  <2> HIDE DEF Sound
  <2> QED
    BY <1>1, <2>1, <2>2 DEF TypeOK
<1>8. ASSUME NEW c \in Requests, RequestStep(c) \/ Abort(c) PROVE Sound(tx'[d], now')
  <2>1. now' = now
    BY <1>8 DEF RequestStep, Abort, LockSlotCapacity, RejectCapacity, RejectKey, CommitCreate,
               CommitAgent, CommitUpdate, CancelWrite, CheckInWrite
  <2>2. CASE tx' = [tx EXCEPT ![c] = Idle]
    BY <1>1, <1>2, <2>1, <2>2 DEF TypeOK
  <2>3. CASE LockSlotCapacity(c)
    BY <1>1, <1>5, <2>1, <2>3 DEF LockSlotCapacity, TypeOK, Request
  <2> QED
    BY <1>8, <2>2, <2>3 DEF RequestStep, Abort, Finish, RejectCapacity, RejectKey, CommitCreate,
               CommitAgent, CommitUpdate, CancelWrite, CheckInWrite
<1>9. ASSUME NEW b \in Bookings, BookingStep(b) PROVE tx' = tx
  BY <1>9 DEF BookingStep, ConfirmPending, CancelPending, ConfirmBookingPayment,
             ReconcileConfirm
<1>10. ASSUME NEW w \in Workers, WorkerStep(w) PROVE tx' = tx
  BY <1>10 DEF WorkerStep, ExpireScan, ExpireApply, ExpireLocks, WorkerCrash
<1> QED
  BY <1>6, <1>7, <1>8, <1>9, <1>10 DEF Next, Tick, vars

TypedRequests == TypeOK /\ RequestsWellFormed

LEMMA TypeInit == Init => TypedRequests
BY IdleTyped, ConstantsAssumption
   DEF Init, TypedRequests, TypeOK, RequestsWellFormed, Idle, Capturing, Sweep

LEMMA TypeNext == TypedRequests /\ [Next]_vars => TypedRequests'
<1> SUFFICES ASSUME TypeOK, RequestsWellFormed, [Next]_vars PROVE TypeOK'
  BY RequestsStayWellFormed DEF TypedRequests
<1>1. CASE Tick
  BY <1>1 DEF Tick, TypeOK
<1>2. CASE UNCHANGED vars
  BY <1>2 DEF vars, TypeOK
<1> QED
  BY <1>1, <1>2, TypeStart, TypeRequestStep, TypeBookingStep, TypeWorkerStep DEF Next

(* The tables and the records of the requests and workers keep their       *)
(* types: in particular every booking the sweep and the webhooks write     *)
(* stays one of the five statuses the schema's enum has or is absent.      *)
THEOREM TypeCorrect == Spec => []TypeOK
<1>1. Spec => []TypedRequests
  BY TypeInit, TypeNext, PTL DEF Spec
<1>2. TypedRequests => TypeOK
  BY DEF TypedRequests
<1> QED
  BY <1>1, <1>2, PTL

-----------------------------------------------------------------------------
(* The lock of a booking follows it. *)

Settled(row) == row.status \notin {"absent", "pending"}

RowAgrees(row, its) ==
    /\ row.slot = its.slot
    /\ row.qty = its.quantity
    /\ row.status = "pending" => ~its.consumed /\ ~its.released
    /\ row.status = "confirmed" => its.consumed
    /\ row.status = "cancelled" => its.consumed \/ its.released

(* The row a request means is the one it will write: a new one is not      *)
(* there yet, one to be updated is pending, one that was read exists.      *)
FitsRow(t, rows) ==
    /\ t.op \in {"create", "agent"} => rows[t.b].status = "absent"
    /\ t.op = "update" => rows[t.b].status = "pending"
    /\ t.op \in {"cancel", "checkin"} => rows[t.b].status # "absent"

RequestsFitRows ==
    /\ \A c \in Requests : FitsRow(tx[c], booking)
    /\ \A c, d \in Requests :
          c # d /\ tx[c].op \in Capturing /\ tx[d].op \in Capturing => tx[c].b # tx[d].b

(* A sweep picked rows that exist, and left none of them pending.          *)
SweepsFitRows ==
    \A w \in Workers : \A b \in sweep[w].batch :
        /\ sweep[w].step = "apply" => booking[b].status # "absent"
        /\ sweep[w].step = "locks" => Settled(booking[b])

LockInvariant ==
    /\ \A b \in Bookings : RowAgrees(booking[b], lock[b])
    /\ RequestsFitRows
    /\ SweepsFitRows

(* What no step does to a row.                                             *)
RowsSettle ==
    \A b \in Bookings :
        /\ booking[b].status # "absent" => booking'[b].status # "absent"
        /\ Settled(booking[b]) =>
              /\ Settled(booking'[b])
              /\ booking'[b].slot = booking[b].slot /\ booking'[b].qty = booking[b].qty

(* A step that writes no row and no lock.                                  *)
LEMMA StartsFit ==
    ASSUME TypedRequests, LockInvariant, UNCHANGED <<booking, lock, sweep>>,
           NEW c \in Requests, NEW t, tx' = [tx EXCEPT ![c] = t], FitsRow(t, booking),
           t.op \in Capturing => \A d \in Requests \ {c} :
                                    tx[d].op \in Capturing => tx[d].b # t.b
    PROVE  LockInvariant' /\ RowsSettle
<1>1. tx'[c] = t /\ \A d \in Requests \ {c} : tx'[d] = tx[d]
  BY DEF TypedRequests, TypeOK
<1>2. \A d \in Requests : FitsRow(tx'[d], booking')
  BY <1>1 DEF LockInvariant, RequestsFitRows
<1>3. ASSUME NEW a \in Requests, NEW d \in Requests, a # d,
             tx'[a].op \in Capturing, tx'[d].op \in Capturing
      PROVE  tx'[a].b # tx'[d].b
  <2>1. CASE a # c /\ d # c
    BY <1>1, <1>3, <2>1 DEF LockInvariant, RequestsFitRows
  <2>2. CASE a = c \/ d = c
    BY <1>1, <1>3, <2>2
  <2> QED
    BY <2>1, <2>2
<1>4. RequestsFitRows'
  BY <1>2, <1>3 DEF RequestsFitRows, Capturing
<1>5. SweepsFitRows'
  BY DEF LockInvariant, SweepsFitRows
<1> QED
  BY <1>4, <1>5 DEF LockInvariant, RowsSettle

(* A request that is done means no row.                                    *)
LEMMA IdleFits == \A rows : FitsRow(Idle, rows) /\ Idle.op \notin Capturing
BY DEF FitsRow, Idle, Capturing

(* What a row may become, given its lock, so that the others still fit.    *)
LEMMA WritesFit ==
    ASSUME TypedRequests, LockInvariant, NEW b \in Bookings, NEW row, NEW its,
           booking' = [booking EXCEPT ![b] = row], lock' = [lock EXCEPT ![b] = its],
           RowAgrees(row, its), row.status # "absent", UNCHANGED sweep,
           Settled(booking[b]) =>
              Settled(row) /\ row.slot = booking[b].slot /\ row.qty = booking[b].qty,
           \/ tx' = tx
           \/ \E c \in Requests : Finish(c),
           booking[b].status = "pending" /\ row.status # "pending" => RowFree(b),
           \A d \in Requests : tx'[d].op \in {"create", "agent"} => tx'[d].b # b
    PROVE  LockInvariant' /\ RowsSettle
<1>1. /\ booking'[b] = row /\ \A o \in Bookings \ {b} : booking'[o] = booking[o]
      /\ lock'[b] = its /\ \A o \in Bookings \ {b} : lock'[o] = lock[o]
  BY DEF TypedRequests, TypeOK
<1>2. RowsSettle
  BY <1>1 DEF RowsSettle
<1>3. \A o \in Bookings : RowAgrees(booking'[o], lock'[o])
  BY <1>1 DEF LockInvariant
<1>4. \A d \in Requests : tx'[d] = tx[d] \/ tx'[d] = Idle
  BY DEF Finish, TypedRequests, TypeOK
<1>5. ASSUME NEW d \in Requests PROVE FitsRow(tx'[d], booking')
  <2>1. CASE tx'[d] = Idle
    BY <2>1, IdleFits
  <2>2. CASE tx'[d] = tx[d]
    <3>1. FitsRow(tx[d], booking) /\ (tx[d].op # "idle" => tx[d].b \in Bookings)
      BY DEF LockInvariant, RequestsFitRows, TypedRequests, RequestsWellFormed
    <3>2. CASE tx[d].b # b
      BY <1>1, <2>2, <3>1, <3>2 DEF FitsRow
    <3>3. CASE tx[d].b = b
      <4>1. tx[d].op = "update" => row.status = "pending"
        BY <3>1, <3>3 DEF FitsRow, RowFree
      <4> QED
        BY <1>1, <2>2, <3>3, <4>1 DEF FitsRow
    <3> QED
      BY <3>2, <3>3
  <2> QED
    BY <1>4, <2>1, <2>2
<1>6. RequestsFitRows'
  BY <1>4, <1>5, IdleFits DEF LockInvariant, RequestsFitRows, Capturing
<1>7. SweepsFitRows'
  <2>1. \A w \in Workers : sweep[w].batch \subseteq Bookings
    BY DEF TypedRequests, TypeOK, Sweep
  <2> QED
    BY <1>2, <2>1 DEF LockInvariant, SweepsFitRows, RowsSettle, Settled
<1> QED
  BY <1>2, <1>3, <1>6, <1>7 DEF LockInvariant

(* A request starts: Fresh and RowFree keep it apart from the others.      *)
LEMMA LockStart ==
    ASSUME TypedRequests, LockInvariant, NEW c \in Requests, StartRequest(c)
    PROVE  LockInvariant' /\ RowsSettle
<1>1. ASSUME NEW op \in {"cancel", "checkin"}, NEW b \in Bookings,
             booking[b].status # "absent", Open(c, Reading(op, b))
      PROVE  LockInvariant' /\ RowsSettle
  <2>1. FitsRow(Reading(op, b), booking) /\ Reading(op, b).op \notin Capturing
    BY <1>1 DEF FitsRow, Reading, Capturing
  <2>2. tx' = [tx EXCEPT ![c] = Reading(op, b)] /\ UNCHANGED <<booking, lock, sweep>>
    BY <1>1 DEF Open
  <2> QED
    BY <2>1, <2>2, StartsFit
<1>2. ASSUME NEW b \in Bookings, CancelRead(c, b) \/ CheckInRead(c, b)
      PROVE  LockInvariant' /\ RowsSettle
  BY <1>1, <1>2 DEF CancelRead, CheckInRead
<1>3. ASSUME NEW op \in Capturing, NEW b \in Bookings, NEW s \in Slots, NEW q \in Quantities,
             NEW k \in Keys \cup {Null}, Open(c, Seating(op, b, s, q, k)),
             FitsRow(Seating(op, b, s, q, k), booking),
             \A d \in Requests \ {c} : tx[d].op \in Capturing => tx[d].b # b
      PROVE  LockInvariant' /\ RowsSettle
  <2> DEFINE t == Seating(op, b, s, q, k)
  <2>1. t.b = b
    BY DEF Seating
  <2>2. tx' = [tx EXCEPT ![c] = t] /\ UNCHANGED <<booking, lock, sweep>>
    BY <1>3 DEF Open
  <2> HIDE DEF t
  <2> QED
    BY <1>3, <2>1, <2>2, StartsFit DEF t
<1>4. ASSUME NEW b \in Bookings, NEW s \in Slots, NEW q \in Quantities, StartUpdate(c, b, s, q)
      PROVE  LockInvariant' /\ RowsSettle
  <2>1. \A d \in Requests \ {c} : tx[d].op \in Capturing => tx[d].b # b
    BY <1>4 DEF StartUpdate, RowFree, LockInvariant, RequestsFitRows, FitsRow, Capturing
  <2>2. FitsRow(Seating("update", b, s, q, Null), booking)
    BY <1>4 DEF StartUpdate, FitsRow, Seating
  <2> QED
    BY <1>3, <1>4, <2>1, <2>2 DEF StartUpdate, Capturing
<1>5. ASSUME NEW op \in {"create", "agent"}, NEW b \in Bookings, NEW s \in Slots,
             NEW q \in Quantities, NEW k \in Keys \cup {Null}, Fresh(b),
             Open(c, Seating(op, b, s, q, k))
      PROVE  LockInvariant' /\ RowsSettle
  <2>1. FitsRow(Seating(op, b, s, q, k), booking)
    BY <1>5 DEF Fresh, FitsRow, Seating
  <2> QED
    BY <1>3, <1>5, <2>1 DEF Fresh, Capturing
<1>6. ASSUME NEW b \in Bookings, NEW s \in Slots, NEW q \in Quantities, StartAgent(c, b, s, q)
      PROVE  LockInvariant' /\ RowsSettle
  BY <1>5, <1>6 DEF StartAgent
<1>7. ASSUME NEW b \in Bookings, NEW s \in Slots, NEW q \in Quantities,
             NEW k \in Keys \cup {Null}, StartCreate(c, b, s, q, k)
      PROVE  LockInvariant' /\ RowsSettle
  BY <1>5, <1>7 DEF StartCreate
<1> QED
  BY <1>2, <1>4, <1>6, <1>7 DEF StartRequest

(* A step of an open request.                                              *)
LEMMA LockRequest ==
    ASSUME TypedRequests, LockInvariant, NEW c \in Requests, RequestStep(c) \/ Abort(c)
    PROVE  LockInvariant' /\ RowsSettle
<1> DEFINE t == tx[c]
           b == tx[c].b
<1>1. /\ t \in Request /\ FitsRow(t, booking)
      /\ t.op # "idle" => /\ b \in Bookings
                          /\ booking[b] \in BookingRow /\ lock[b] \in LockRow
                          /\ RowAgrees(booking[b], lock[b])
  BY DEF TypedRequests, TypeOK, RequestsWellFormed, LockInvariant, RequestsFitRows
<1>2. Finish(c) => \A d \in Requests \ {c} : tx'[d] = tx[d]
  BY DEF Finish, TypedRequests, TypeOK
<1>3. Finish(c) => tx'[c].op = "idle"
  BY DEF Finish, TypedRequests, TypeOK, Idle
<1>4. ASSUME Finish(c), UNCHANGED <<booking, lock, sweep>>
      PROVE  LockInvariant' /\ RowsSettle
  BY <1>4, IdleFits, StartsFit DEF Finish
<1>5. CASE RejectCapacity(c) \/ RejectKey(c) \/ Abort(c)
  BY <1>4, <1>5 DEF RejectCapacity, RejectKey, Abort
<1>6. CASE LockSlotCapacity(c)
  <2> DEFINE u == [t EXCEPT !.holds = TRUE, !.expiry = CalculateExpiry]
  <2>1. u.op = t.op /\ u.b = t.b
    BY <1>1 DEF Request
  <2>2. tx' = [tx EXCEPT ![c] = u] /\ UNCHANGED <<booking, lock, sweep>>
    BY <1>6 DEF LockSlotCapacity, TypedRequests, TypeOK
  <2>3. \A d \in Requests \ {c} :
           t.op \in Capturing /\ tx[d].op \in Capturing => tx[d].b # t.b
    BY DEF LockInvariant, RequestsFitRows
  <2> HIDE DEF u
  <2>4. FitsRow(u, booking)
    BY <1>1, <2>1 DEF FitsRow
  <2> QED
    BY <2>1, <2>2, <2>3, <2>4, StartsFit
<1>7. ASSUME Finish(c), t.op \in Capturing
      PROVE  \A d \in Requests : tx'[d].op \in {"create", "agent"} => tx'[d].b # b
  BY <1>2, <1>3, <1>7 DEF LockInvariant, RequestsFitRows, Capturing
<1>8. CASE CommitCreate(c)
  <2> DEFINE row == [NoBooking EXCEPT !.status = "pending", !.slot = t.slot, !.qty = t.qty,
                                      !.expires_at = t.expiry, !.key = t.key]
             its == NewLock(t, FALSE)
  <2>1. RowAgrees(row, its) /\ row.status = "pending"
    BY DEF RowAgrees, NoBooking, NewLock
  <2>2. /\ booking' = [booking EXCEPT ![b] = row] /\ lock' = [lock EXCEPT ![b] = its]
        /\ Finish(c) /\ UNCHANGED sweep
    BY <1>8 DEF CommitCreate
  <2>3. b \in Bookings /\ booking[b].status = "absent" /\ t.op \in Capturing
    BY <1>1, <1>8 DEF CommitCreate, FitsRow, Capturing
  <2> HIDE DEF row, its, b, t
  <2> QED
    BY <1>7, <2>1, <2>2, <2>3, WritesFit DEF Settled
<1>9. CASE CommitAgent(c)
  <2> DEFINE row == [NoBooking EXCEPT !.status = "confirmed", !.source = "bng",
                                      !.slot = t.slot, !.qty = t.qty]
             its == NewLock(t, TRUE)
  <2>1. RowAgrees(row, its) /\ row.status = "confirmed"
    BY DEF RowAgrees, NoBooking, NewLock
  <2>2. /\ booking' = [booking EXCEPT ![b] = row] /\ lock' = [lock EXCEPT ![b] = its]
        /\ Finish(c) /\ UNCHANGED sweep
    BY <1>9 DEF CommitAgent
  <2>3. b \in Bookings /\ booking[b].status = "absent" /\ t.op \in Capturing
    BY <1>1, <1>9 DEF CommitAgent, FitsRow, Capturing
  <2> HIDE DEF row, its, b, t
  <2> QED
    BY <1>7, <2>1, <2>2, <2>3, WritesFit DEF Settled
<1>10. CASE CommitUpdate(c)
  <2> DEFINE row == [booking[b] EXCEPT !.slot = t.slot, !.qty = t.qty, !.expires_at = t.expiry]
             its == NewLock(t, FALSE)
  <2>1. b \in Bookings /\ booking[b].status = "pending" /\ t.op \in Capturing
    BY <1>1, <1>10 DEF CommitUpdate, FitsRow, Capturing
  <2>2. booking[b] \in BookingRow
    BY <2>1 DEF TypedRequests, TypeOK
  <2>3. RowAgrees(row, its) /\ row.status = "pending"
    BY <2>1, <2>2 DEF RowAgrees, BookingRow, NewLock
  <2>4. /\ booking' = [booking EXCEPT ![b] = row] /\ lock' = [lock EXCEPT ![b] = its]
        /\ Finish(c) /\ UNCHANGED sweep
    BY <1>10 DEF CommitUpdate, TypedRequests, TypeOK
  <2> HIDE DEF row, its, b, t
  <2> QED
    BY <1>7, <2>1, <2>3, <2>4, WritesFit DEF Settled
<1>11. ASSUME Finish(c), t.op \in {"cancel", "checkin"}
       PROVE  \A d \in Requests : tx'[d].op \in {"create", "agent"} => tx'[d].b # b
  BY <1>1, <1>2, <1>3, <1>11 DEF LockInvariant, RequestsFitRows, FitsRow
<1>12. CASE CancelWrite(c)
  <2> DEFINE row == [booking[b] EXCEPT !.status = "cancelled"]
             its == ReleaseLock(lock[b], t.seen)
  <2>1. /\ b \in Bookings /\ RowFree(b) /\ t.op = "cancel"
        /\ booking[b] \in BookingRow /\ lock[b] \in LockRow /\ RowAgrees(booking[b], lock[b])
    BY <1>1, <1>12 DEF CancelWrite
  <2>2. row.slot = booking[b].slot /\ row.qty = booking[b].qty /\ row.status = "cancelled"
    BY <2>1 DEF BookingRow
  <2>3. /\ its.slot = lock[b].slot /\ its.quantity = lock[b].quantity
        /\ its.consumed \/ its.released
    BY <2>1 DEF ReleaseLock, LockRow
  <2>4. /\ booking' = [booking EXCEPT ![b] = row] /\ lock' = [lock EXCEPT ![b] = its]
        /\ Finish(c) /\ UNCHANGED sweep
    BY <1>12 DEF CancelWrite, TypedRequests, TypeOK
  <2> HIDE DEF row, its, b, t
  <2>5. RowAgrees(row, its) /\ Settled(row) /\ row.status # "absent"
    BY <2>1, <2>2, <2>3 DEF RowAgrees, Settled
  <2>6. \A d \in Requests : tx'[d].op \in {"create", "agent"} => tx'[d].b # b
    BY <1>11, <2>1, <2>4
  <2> QED
    BY <2>1, <2>2, <2>4, <2>5, <2>6, WritesFit
<1>13. CASE CheckInWrite(c)
  <2> DEFINE row == [booking[b] EXCEPT !.checked_in = TRUE]
             its == lock[b]
  <2>1. /\ b \in Bookings /\ t.op = "checkin" /\ booking[b].status # "absent"
        /\ booking[b] \in BookingRow /\ RowAgrees(booking[b], lock[b])
    BY <1>1, <1>13 DEF CheckInWrite, FitsRow
  <2>2. row.slot = booking[b].slot /\ row.qty = booking[b].qty /\ row.status = booking[b].status
    BY <2>1 DEF BookingRow
  <2>3. /\ booking' = [booking EXCEPT ![b] = row] /\ lock' = [lock EXCEPT ![b] = its]
        /\ Finish(c) /\ UNCHANGED sweep
    BY <1>13 DEF CheckInWrite, TypedRequests, TypeOK
  <2> HIDE DEF row, its, b, t
  <2>4. RowAgrees(row, its) /\ row.status # "absent"
    BY <2>1, <2>2 DEF RowAgrees, its
  <2>5. \A d \in Requests : tx'[d].op \in {"create", "agent"} => tx'[d].b # b
    BY <1>11, <2>1, <2>3
  <2> QED
    BY <2>1, <2>2, <2>3, <2>4, <2>5, WritesFit DEF Settled
<1> QED
  BY <1>5, <1>6, <1>8, <1>9, <1>10, <1>12, <1>13 DEF RequestStep

(* An operation on one existing booking: the lock is consumed with it, and *)
(* a row that leaves pending is not being updated.                         *)
LEMMA LockBooking ==
    ASSUME TypedRequests, LockInvariant, NEW b \in Bookings, BookingStep(b)
    PROVE  LockInvariant' /\ RowsSettle
<1> DEFINE its == [lock[b] EXCEPT !.consumed = TRUE]
<1>1. /\ booking[b] \in BookingRow /\ lock[b] \in LockRow /\ RowAgrees(booking[b], lock[b])
      /\ booking \in [Bookings -> BookingRow] /\ lock \in [Bookings -> LockRow]
  BY DEF TypedRequests, TypeOK, LockInvariant
<1>2. /\ its.slot = lock[b].slot /\ its.quantity = lock[b].quantity /\ its.consumed
  BY <1>1 DEF LockRow
<1>3. lock' = [lock EXCEPT ![b] = its] /\ UNCHANGED <<tx, sweep>>
  BY <1>1 DEF BookingStep, ConfirmPending, CancelPending, ConfirmBookingPayment,
              ReconcileConfirm, Consume
<1>4. RowFree(b) /\ booking[b].status # "absent"
  BY DEF BookingStep, ConfirmPending, CancelPending, ConfirmBookingPayment,
         ReconcileConfirm, Exists
<1> DEFINE Settling == \E row :
                          /\ booking' = [booking EXCEPT ![b] = row]
                          /\ row.slot = booking[b].slot /\ row.qty = booking[b].qty
                          /\ Settled(row)
<1>5. Settling
  <2>1. ASSUME NEW s \in {"confirmed", "cancelled"}, NEW e,
               booking' = [booking EXCEPT ![b] =
                             [booking[b] EXCEPT !.status = s, !.expires_at = e]]
        PROVE  Settling
    <3> DEFINE row == [booking[b] EXCEPT !.status = s, !.expires_at = e]
    <3>1. row.slot = booking[b].slot /\ row.qty = booking[b].qty /\ Settled(row)
      BY <1>1 DEF BookingRow, Settled
    <3> QED
      BY <2>1, <3>1
  <2>2. ASSUME NEW s \in Statuses \ {"absent", "pending"},
               booking' = [booking EXCEPT ![b] = [booking[b] EXCEPT !.status = s]]
        PROVE  Settling
    <3> DEFINE row == [booking[b] EXCEPT !.status = s]
    <3>1. row.slot = booking[b].slot /\ row.qty = booking[b].qty /\ Settled(row)
      BY <1>1 DEF BookingRow, Settled
    <3> QED
      BY <2>2, <3>1
  <2>3. CASE ConfirmPending(b) \/ CancelPending(b)
    <3>1. \/ booking' = [booking EXCEPT ![b] =
                           [booking[b] EXCEPT !.status = "confirmed", !.expires_at = Null]]
          \/ booking' = [booking EXCEPT ![b] =
                           [booking[b] EXCEPT !.status = "cancelled", !.expires_at = now]]
      BY <1>1, <2>3 DEF ConfirmPending, CancelPending
    <3> HIDE DEF Settling
    <3> QED
      BY <2>1, <3>1
  <2>4. CASE ConfirmBookingPayment(b)
    <3>1. booking' = [booking EXCEPT ![b] = [booking[b] EXCEPT !.status = "confirmed"]]
      BY <1>1, <2>4 DEF ConfirmBookingPayment
    <3> QED
      BY <2>2, <3>1 DEF Statuses
  <2>5. CASE ReconcileConfirm(b)
    <3> DEFINE new == IF booking[b].status = "pending" THEN "confirmed" ELSE booking[b].status
    <3>1. new \in Statuses \ {"absent", "pending"}
      BY <1>1, <1>4 DEF BookingRow, Statuses
    <3>2. booking' = [booking EXCEPT ![b] = [booking[b] EXCEPT !.status = new]]
      BY <1>1, <2>5 DEF ReconcileConfirm
    <3> HIDE DEF new
    <3> QED
      BY <2>2, <3>1, <3>2
  <2> QED
    BY <2>3, <2>4, <2>5 DEF BookingStep
<1>6. PICK row :
         /\ booking' = [booking EXCEPT ![b] = row]
         /\ row.slot = booking[b].slot /\ row.qty = booking[b].qty
         /\ Settled(row)
  BY <1>5
<1> HIDE DEF its
<1>7. RowAgrees(row, its) /\ row.status # "absent"
  BY <1>1, <1>2, <1>6 DEF RowAgrees, Settled
<1>8. \A d \in Requests : tx'[d].op \in {"create", "agent"} => tx'[d].b # b
  BY <1>3, <1>4 DEF LockInvariant, RequestsFitRows, FitsRow
<1> QED
  BY <1>3, <1>4, <1>6, <1>7, <1>8, WritesFit

(* A step of the expiry worker: the picked rows exist, those it overwrote  *)
(* are not pending when it consumes their locks.                           *)
LEMMA LockWorker ==
    ASSUME TypedRequests, LockInvariant, NEW w \in Workers, WorkerStep(w)
    PROVE  LockInvariant' /\ RowsSettle
<1>1. /\ booking \in [Bookings -> BookingRow] /\ lock \in [Bookings -> LockRow]
      /\ \A v \in Workers : sweep[v].batch \subseteq Bookings
      /\ sweep \in [Workers -> Sweep]
  BY DEF TypedRequests, TypeOK, Sweep
<1>2. \A b \in Bookings : RowAgrees(booking[b], lock[b])
  BY DEF LockInvariant
<1>3. UNCHANGED tx
  <2>1. ExpireScan(w) => UNCHANGED tx
    BY DEF ExpireScan
  <2>2. ExpireApply(w) => UNCHANGED tx
    BY DEF ExpireApply, TypedRequests, TypeOK
  <2>3. ExpireLocks(w) \/ WorkerCrash(w) => UNCHANGED tx
    BY DEF ExpireLocks, WorkerCrash
  <2> QED
    BY <2>1, <2>2, <2>3 DEF WorkerStep
<1>4. CASE ExpireScan(w) \/ WorkerCrash(w)
  <2>1. UNCHANGED <<booking, lock>>
    BY <1>4 DEF ExpireScan, WorkerCrash
  <2>2. PICK s \in {"apply", "idle"}, S \in SUBSET StaleBookings :
           sweep' = [sweep EXCEPT ![w] = [step |-> s, batch |-> S]]
    BY <1>4 DEF ExpireScan, WorkerCrash
  <2>3. \A b \in S : booking[b].status = "pending"
    BY DEF StaleBookings, Stale
  <2>4. SweepsFitRows'
    BY <1>1, <2>1, <2>2, <2>3 DEF LockInvariant, SweepsFitRows
  <2> QED
    BY <1>3, <2>1, <2>4 DEF LockInvariant, RequestsFitRows, RowsSettle
<1>5. CASE ExpireApply(w)
  <2> DEFINE S == sweep[w].batch
  <2> DEFINE Overwritten(row) == [row EXCEPT !.status = "expired", !.expires_at = now]
  <2>a. /\ sweep[w].step = "apply" /\ \A b \in S : RowFree(b)
        /\ booking' = [b \in Bookings |-> IF b \in S THEN Overwritten(booking[b]) ELSE booking[b]]
        /\ sweep' = [sweep EXCEPT ![w] = [sweep[w] EXCEPT !.step = "locks"]]
        /\ UNCHANGED lock
    BY <1>5 DEF ExpireApply, TypedRequests, TypeOK
  <2>b. ASSUME NEW row \in BookingRow
        PROVE  /\ Overwritten(row).slot = row.slot /\ Overwritten(row).qty = row.qty
               /\ Overwritten(row).status = "expired"
    BY DEF BookingRow
  <2> HIDE DEF Overwritten
  <2>1. \A b \in S : RowFree(b) /\ booking[b].status # "absent" /\ b \in Bookings
    BY <1>1, <2>a DEF LockInvariant, SweepsFitRows
  <2>2. ASSUME NEW b \in Bookings
        PROVE  /\ booking'[b].slot = booking[b].slot /\ booking'[b].qty = booking[b].qty
               /\ b \in S => booking'[b].status = "expired"
               /\ b \notin S => booking'[b] = booking[b]
    BY <1>1, <2>a, <2>b
  <2>3. RowsSettle
    BY <2>2 DEF RowsSettle, Settled
  <2>4. \A b \in Bookings : RowAgrees(booking'[b], lock'[b])
    BY <1>2, <2>a, <2>2 DEF RowAgrees
  <2>5. ASSUME NEW c \in Requests PROVE FitsRow(tx[c], booking')
    <3>1. FitsRow(tx[c], booking) /\ (tx[c].op # "idle" => tx[c].b \in Bookings)
      BY DEF LockInvariant, RequestsFitRows, TypedRequests, RequestsWellFormed
    <3> QED
      BY <2>1, <2>2, <3>1 DEF FitsRow, RowFree
  <2>6. RequestsFitRows'
    BY <1>3, <2>5 DEF LockInvariant, RequestsFitRows
  <2>7. /\ \A v \in Workers \ {w} : sweep'[v] = sweep[v]
        /\ sweep'[w].step = "locks" /\ sweep'[w].batch = S
    BY <1>1, <2>a DEF Sweep
  <2>8. SweepsFitRows'
    BY <1>1, <2>2, <2>3, <2>7 DEF LockInvariant, SweepsFitRows, RowsSettle, Settled
  <2> QED
    BY <2>3, <2>4, <2>6, <2>8 DEF LockInvariant
<1>6. CASE ExpireLocks(w)
  <2> DEFINE S == sweep[w].batch
  <2>1. UNCHANGED booking /\ \A b \in S : Settled(booking[b])
    BY <1>6 DEF ExpireLocks, LockInvariant, SweepsFitRows
  <2>2. ASSUME NEW b \in Bookings
        PROVE  /\ lock'[b].slot = lock[b].slot /\ lock'[b].quantity = lock[b].quantity
               /\ b \in S => lock'[b].consumed
               /\ b \notin S => lock'[b] = lock[b]
    BY <1>1, <1>6 DEF ExpireLocks, LockRow
  <2>3. \A b \in Bookings : RowAgrees(booking'[b], lock'[b])
    BY <1>2, <2>1, <2>2 DEF RowAgrees, Settled
  <2>4. sweep' = [sweep EXCEPT ![w] = [step |-> "idle", batch |-> {}]]
    BY <1>6 DEF ExpireLocks
  <2>5. SweepsFitRows'
    BY <1>1, <2>1, <2>4 DEF LockInvariant, SweepsFitRows
  <2> QED
    BY <1>3, <2>1, <2>3, <2>5 DEF LockInvariant, RequestsFitRows, RowsSettle
<1> QED
  BY <1>4, <1>5, <1>6 DEF WorkerStep

(* The invariant holds at the start.                                       *)
LEMMA LockInit == Init => LockInvariant
BY IdleFits DEF Init, LockInvariant, RowAgrees, NoBooking, NoLock, RequestsFitRows, SweepsFitRows

(* Every step keeps it, and no row takes back that it is settled.          *)
LEMMA LockNext == TypedRequests /\ LockInvariant /\ [Next]_vars => LockInvariant' /\ RowsSettle
<1> SUFFICES ASSUME TypedRequests, LockInvariant, [Next]_vars
             PROVE  LockInvariant' /\ RowsSettle
  OBVIOUS
<1>1. CASE UNCHANGED <<booking, lock, tx, sweep>>
  BY <1>1 DEF LockInvariant, RequestsFitRows, SweepsFitRows, RowsSettle
<1>2. CASE Next
  BY <1>1, <1>2, LockStart, LockRequest, LockBooking, LockWorker DEF Next, Tick
<1> QED
  BY <1>1, <1>2 DEF vars

(* The two tables agree, whatever webhook, request, sweep and crash did to *)
(* the booking, in any order, from however old a read.                     *)
THEOREM LockTheorem == Spec => []LockFollowsBooking
<1>1. LockInvariant => LockFollowsBooking
  BY DEF LockInvariant, RowAgrees, LockFollowsBooking
<1> QED
  BY <1>1, TypeInit, TypeNext, LockInit, LockNext, PTL DEF Spec

(* A booking that left pending stays out of it and keeps its seats: an     *)
(* update that had read it as pending holds its row.                       *)
THEOREM SettledTheorem == Spec => SettledKeepsItsSeats
<1>1. TypedRequests /\ LockInvariant /\ [Next]_vars =>
        [\A b \in Bookings :
            booking[b].status \notin {"absent", "pending"} =>
               /\ booking'[b].status \notin {"absent", "pending"}
               /\ booking'[b].slot = booking[b].slot
               /\ booking'[b].qty = booking[b].qty]_vars
  BY LockNext DEF RowsSettle, Settled
<1> QED
  BY <1>1, TypeInit, TypeNext, LockInit, LockNext, PTL DEF Spec, SettledKeepsItsSeats

-----------------------------------------------------------------------------
(* Counting seats *)

LEMMA SeatsFinite ==
    ASSUME NEW s, NEW B
    PROVE  IsFiniteSet(Seats(s, B)) /\ Cardinality(Seats(s, B)) \in Nat
<1>1. IsFiniteSet(Bookings \X Quantities)
  <2>1. IsFiniteSet(Bookings)
    BY ConstantsAssumption
  <2>2. 1 \in Int /\ MaxQty \in Int
    BY ConstantsAssumption
  <2>3. IsFiniteSet(Quantities)
    BY <2>2, FS_Interval DEF Quantities
  <2> QED
    BY <2>1, <2>3, FS_Product
<1>2. Seats(s, B) \subseteq Bookings \X Quantities
  BY DEF Seats
<1> QED
  BY <1>1, <1>2, FS_Subset, FS_CardinalityType

LEMMA FewerSeats ==
    ASSUME NEW S, NEW T, IsFiniteSet(T), S \subseteq T
    PROVE  /\ Cardinality(S) \in Nat /\ Cardinality(T) \in Nat
           /\ Cardinality(S) <= Cardinality(T)
BY FS_Subset, FS_CardinalityType

(* A booking of q travellers adds at most q seats.                         *)
LEMMA SeatsAdded ==
    ASSUME NEW S, NEW T, IsFiniteSet(T), NEW b, NEW q \in Nat,
           S \subseteq T \cup ({b} \X (1 .. q))
    PROVE  Cardinality(S) \in Nat /\ Cardinality(S) <= Cardinality(T) + q
<1> DEFINE P == {b} \X (1 .. q)
<1>1. IsFiniteSet({b}) /\ Cardinality({b}) = 1
  BY FS_Singleton
<1>2. IsFiniteSet(1 .. q) /\ Cardinality(1 .. q) = q
  BY FS_Interval
<1>3. IsFiniteSet(P) /\ Cardinality(P) = q
  <2>1. IsFiniteSet(P) /\ Cardinality(P) = Cardinality({b}) * Cardinality(1 .. q)
    BY <1>1, <1>2, FS_Product
  <2>2. 1 * q = q
    OBVIOUS
  <2> QED
    BY <1>1, <1>2, <2>1, <2>2
<1> HIDE DEF P
<1>4. /\ IsFiniteSet(T \cup P)
      /\ Cardinality(T \cup P) = Cardinality(T) + Cardinality(P) - Cardinality(T \cap P)
  BY <1>3, FS_Union
<1>5. Cardinality(T \cap P) \in Nat /\ Cardinality(T) \in Nat
  BY <1>3, FS_Intersection, FS_CardinalityType
<1>6. Cardinality(S) <= Cardinality(T \cup P) /\ Cardinality(S) \in Nat
  BY <1>4, FewerSeats DEF P
<1> QED
  BY <1>3, <1>4, <1>5, <1>6

(* The view counts fewer bookings at a later time.                         *)
LEMMA ActiveShrinks ==
    ASSUME TypeOK, NEW t \in Nat, NEW u \in Nat, t <= u
    PROVE  Active(u) \subseteq Active(t)
<1> SUFFICES ASSUME NEW b \in Bookings, Counted(booking[b], u)
             PROVE  Counted(booking[b], t)
  BY DEF Active
<1>1. booking[b].expires_at \in Nat \cup {Null}
  BY RowsTyped DEF BookingRow
<1> QED
  BY <1>1 DEF Counted

-----------------------------------------------------------------------------
(* Which steps give a booking seats *)

\* After the step b takes no seat that it did not take before.
TakesNothing(b) ==
    b \in Checked' =>
        /\ b \in Checked
        /\ booking'[b].slot = booking[b].slot
        /\ booking'[b].qty = booking[b].qty

LEMMA NothingTaken ==
    ASSUME \A b \in Bookings : TakesNothing(b), NEW s
    PROVE  /\ Cardinality(CheckedSeats(s))' \in Nat
           /\ Cardinality(CheckedSeats(s)) \in Nat
           /\ Cardinality(CheckedSeats(s))' <= Cardinality(CheckedSeats(s))
<1>1. Seats(s, Checked)' \subseteq Seats(s, Checked)
  BY DEF Seats, TakesNothing
<1> QED
  BY <1>1, SeatsFinite, FewerSeats DEF CheckedSeats

(* One booking b may take q seats of slot s, and no other one any.         *)
LEMMA OneTakes ==
    ASSUME NEW b \in Bookings, NEW s, NEW q \in Nat,
           \A o \in Bookings \ {b} : TakesNothing(o),
           booking'[b].slot = s, booking'[b].qty = q,
           NEW r
    PROVE  /\ Cardinality(CheckedSeats(r))' \in Nat
           /\ Cardinality(CheckedSeats(r)) \in Nat
           /\ r # s => Cardinality(CheckedSeats(r))' <= Cardinality(CheckedSeats(r))
           /\ Cardinality(CheckedSeats(r))' <= Cardinality(CheckedSeats(r)) + q
<1>1. Seats(r, Checked)' \subseteq Seats(r, Checked) \cup ({b} \X (1 .. q))
  <2> SUFFICES ASSUME NEW o \in Bookings, NEW i \in Quantities, o \in Checked',
                      booking'[o].slot = r, i <= booking'[o].qty
               PROVE  <<o, i>> \in Seats(r, Checked) \cup ({b} \X (1 .. q))
    BY DEF Seats
  <2>1. CASE o = b
    BY <2>1 DEF Quantities
  <2>2. CASE o # b
    BY <2>2 DEF Seats, TakesNothing
  <2> QED
    BY <2>1, <2>2
<1>2. r # s => Seats(r, Checked)' \subseteq Seats(r, Checked)
  BY DEF Seats, TakesNothing
<1>3. IsFiniteSet(Seats(r, Checked)) /\ Cardinality(Seats(r, Checked)) \in Nat
  BY SeatsFinite
<1>4. /\ Cardinality(Seats(r, Checked)') \in Nat
      /\ Cardinality(Seats(r, Checked)') <= Cardinality(Seats(r, Checked)) + q
  BY <1>1, <1>3, SeatsAdded
<1>5. r # s => Cardinality(Seats(r, Checked)') <= Cardinality(Seats(r, Checked))
  BY <1>2, <1>3, FewerSeats
<1> QED
  BY <1>3, <1>4, <1>5 DEF CheckedSeats

(* A booking whose row stays as it is takes nothing while time passes.     *)
LEMMA UnchangedTakesNothing ==
    ASSUME TypeOK, now' \in Nat, now <= now', NEW b \in Bookings,
           booking'[b] = booking[b], b \in revived => b \in revived'
    PROVE  TakesNothing(b)
<1>1. booking[b].expires_at \in Nat \cup {Null} /\ now \in Nat
  BY RowsTyped DEF BookingRow, TypeOK
<1>2. Counted(booking'[b], now') => Counted(booking[b], now)
  BY <1>1 DEF Counted
<1> QED
  BY <1>2 DEF TakesNothing, Checked, Active

(* Nor does one that the view does not count after the step.               *)
LEMMA UncountedTakesNothing ==
    ASSUME NEW b \in Bookings, ~Counted(booking'[b], now')
    PROVE  TakesNothing(b)
BY DEF TakesNothing, Checked, Active

LEMMA RowFields ==
    ASSUME NEW row \in BookingRow, NEW s, NEW e
    PROVE  /\ [row EXCEPT !.status = s].status = s
           /\ [row EXCEPT !.status = s].slot = row.slot
           /\ [row EXCEPT !.status = s].qty = row.qty
           /\ [row EXCEPT !.status = s].expires_at = row.expires_at
           /\ [row EXCEPT !.status = s, !.expires_at = e].status = s
           /\ [row EXCEPT !.status = s, !.expires_at = e].slot = row.slot
           /\ [row EXCEPT !.status = s, !.expires_at = e].qty = row.qty
BY DEF BookingRow

(* A payment or a confirmation gives no seats to a booking the view        *)
(* counted already, and marks as revived one that it counts from now on.   *)
LEMMA BookingStepTakesNothing ==
    ASSUME TypeOK, NEW b \in Bookings, BookingStep(b), NEW o \in Bookings
    PROVE  TakesNothing(o)
<1>1. now' = now /\ now \in Nat /\ revived \subseteq revived'
  BY DEF BookingStep, ConfirmPending, CancelPending, ConfirmBookingPayment,
         ReconcileConfirm, Revive, TypeOK
<1>2. CASE o # b
  <2>1. booking'[o] = booking[o]
    BY <1>2 DEF BookingStep, ConfirmPending, CancelPending, ConfirmBookingPayment,
           ReconcileConfirm, TypeOK
  <2> QED
    BY <1>1, <2>1, UnchangedTakesNothing
<1>3. CASE o = b
  <2> SUFFICES TakesNothing(b)
    BY <1>3
  <2>1. booking[b] \in BookingRow
    BY RowsTyped
  <2>2. ASSUME booking'[b].slot = booking[b].slot, booking'[b].qty = booking[b].qty, Revive(b)
        PROVE  TakesNothing(b)
    BY <1>1, <2>2 DEF TakesNothing, Checked, Active, Revive
  <2>3. CASE ConfirmPending(b)
    <3>1. booking'[b] = [booking[b] EXCEPT !.status = "confirmed", !.expires_at = Null]
      BY <2>3 DEF ConfirmPending, TypeOK
    <3> QED
      BY <2>1, <2>2, <2>3, <3>1, RowFields DEF ConfirmPending
  <2>4. CASE ConfirmBookingPayment(b)
    <3>1. booking'[b] = [booking[b] EXCEPT !.status = "confirmed"]
      BY <2>4 DEF ConfirmBookingPayment, TypeOK
    <3> QED
      BY <2>1, <2>2, <2>4, <3>1, RowFields DEF ConfirmBookingPayment
  <2>5. CASE CancelPending(b)
    <3>1. booking'[b] = [booking[b] EXCEPT !.status = "cancelled", !.expires_at = now]
      BY <2>5 DEF CancelPending, TypeOK
    <3>2. booking'[b].status = "cancelled"
      BY <2>1, <3>1, RowFields
    <3> QED
      BY <3>2, UncountedTakesNothing DEF Counted
  <2>6. CASE ReconcileConfirm(b)
    <3> DEFINE new == IF booking[b].status = "pending" THEN "confirmed" ELSE booking[b].status
    <3>1. booking'[b] = [booking[b] EXCEPT !.status = new] /\ revived' = revived
      BY <2>6 DEF ReconcileConfirm, TypeOK
    <3>2. /\ booking'[b].slot = booking[b].slot /\ booking'[b].qty = booking[b].qty
          /\ booking'[b].expires_at = booking[b].expires_at /\ booking'[b].status = new
      BY <2>1, <3>1, RowFields
    <3> QED
      BY <1>1, <3>1, <3>2 DEF TakesNothing, Checked, Active, Counted
  <2> QED
    BY <1>3, <2>3, <2>4, <2>5, <2>6 DEF BookingStep
<1> QED
  BY <1>2, <1>3

(* The sweep only takes seats away.                                        *)
LEMMA WorkerStepTakesNothing ==
    ASSUME TypeOK, NEW w \in Workers, WorkerStep(w), NEW o \in Bookings
    PROVE  TakesNothing(o)
<1>1. now' = now /\ now \in Nat /\ revived' = revived
  BY DEF WorkerStep, ExpireScan, ExpireApply, ExpireLocks, WorkerCrash, TypeOK
<1>2. booking'[o] = booking[o] \/ booking'[o].status = "expired"
  <2>1. CASE ExpireApply(w)
    <3>1. booking[o] \in BookingRow
      BY RowsTyped
    <3> QED
      BY <2>1, <3>1 DEF ExpireApply, BookingRow
  <2> QED
    BY <2>1 DEF WorkerStep, ExpireScan, ExpireLocks, WorkerCrash
<1> QED
  BY <1>1, <1>2, UnchangedTakesNothing, UncountedTakesNothing DEF Counted

(* Nor does a request that starts, is refused or gives up, finds room, or  *)
(* writes a cancellation or a check-in ...                                 *)
Commits(c) == CommitCreate(c) \/ CommitAgent(c) \/ CommitUpdate(c)

LEMMA RequestTakesNothing ==
    ASSUME TypeOK, RequestsWellFormed, NEW c \in Requests,
           StartRequest(c) \/ RequestStep(c) \/ Abort(c), ~Commits(c), NEW b \in Bookings
    PROVE  TakesNothing(b)
<1>1. now' = now /\ now \in Nat /\ revived' = revived
  BY DEF StartRequest, CancelRead, CheckInRead, StartUpdate, StartAgent, StartCreate, Open,
         RequestStep, LockSlotCapacity, RejectCapacity, RejectKey, CancelWrite, CheckInWrite,
         Commits, Abort, TypeOK
<1>2. booking[b] \in BookingRow
  BY RowsTyped
<1>3. CASE booking'[b] = booking[b]
  BY <1>1, <1>3, UnchangedTakesNothing
<1>4. CASE CancelWrite(c) /\ b = tx[c].b
  <2>1. booking'[b] = [booking[b] EXCEPT !.status = "cancelled"]
    BY <1>4 DEF CancelWrite, TypeOK
  <2>2. booking'[b].status = "cancelled"
    BY <1>2, <2>1, RowFields
  <2> QED
    BY <2>2, UncountedTakesNothing DEF Counted
<1>5. CASE CheckInWrite(c) /\ b = tx[c].b
  <2>1. booking'[b] = [booking[b] EXCEPT !.checked_in = TRUE]
    BY <1>5 DEF CheckInWrite, TypeOK
  <2>2. \A r \in BookingRow :
           LET n == [r EXCEPT !.checked_in = TRUE]
           IN  n.status = r.status /\ n.slot = r.slot /\ n.qty = r.qty
                   /\ n.expires_at = r.expires_at
    BY DEF BookingRow
  <2> QED
    BY <1>1, <1>2, <2>1, <2>2 DEF TakesNothing, Checked, Active, Counted
<1>6. booking'[b] = booking[b] \/ ((CancelWrite(c) \/ CheckInWrite(c)) /\ b = tx[c].b)
  BY DEF StartRequest, CancelRead, CheckInRead, StartUpdate, StartAgent, StartCreate, Open,
         RequestStep, LockSlotCapacity, RejectCapacity, RejectKey, CancelWrite, CheckInWrite,
         Commits, Abort, TypeOK
<1> QED
  BY <1>3, <1>4, <1>5, <1>6

(* ... and one that commits takes the seats it asked for, for one booking. *)
LEMMA CommitWrites ==
    ASSUME TypeOK, RequestsWellFormed, NEW c \in Requests, Commits(c)
    PROVE  /\ tx[c].holds /\ Finish(c)
           /\ now' = now /\ now \in Nat /\ revived' = revived
           /\ tx[c].b \in Bookings /\ tx[c].slot \in Slots /\ tx[c].qty \in Quantities
           /\ booking'[tx[c].b].slot = tx[c].slot /\ booking'[tx[c].b].qty = tx[c].qty
           /\ \A b \in Bookings \ {tx[c].b} : booking'[b] = booking[b]
<1>1. tx[c].holds /\ Finish(c) /\ now' = now /\ now \in Nat /\ revived' = revived
  BY DEF Commits, CommitCreate, CommitAgent, CommitUpdate, TypeOK
<1>2. tx[c].b \in Bookings /\ tx[c].slot \in Slots /\ tx[c].qty \in Quantities
  BY <1>1 DEF RequestsWellFormed, Capturing
<1>3. \A b \in Bookings \ {tx[c].b} : booking'[b] = booking[b]
  BY DEF Commits, CommitCreate, CommitAgent, CommitUpdate, TypeOK
<1>4. booking'[tx[c].b].slot = tx[c].slot /\ booking'[tx[c].b].qty = tx[c].qty
  <2>1. booking[tx[c].b] \in BookingRow
    BY <1>2, RowsTyped
  <2>2. CASE CommitCreate(c)
    BY <1>2, <2>2 DEF CommitCreate, TypeOK, NoBooking
  <2>3. CASE CommitAgent(c)
    BY <1>2, <2>3 DEF CommitAgent, TypeOK, NoBooking
  <2>4. CASE CommitUpdate(c)
    BY <1>2, <2>1, <2>4 DEF CommitUpdate, TypeOK, BookingRow
  <2> QED
    BY <2>2, <2>3, <2>4 DEF Commits
<1> QED
  BY <1>1, <1>2, <1>3, <1>4

-----------------------------------------------------------------------------
(* The invariant *)

\* What a step leaves of the slot rows held: nobody gets one.
NoNewHolder ==
    \A c \in Requests :
        tx'[c].holds =>
            tx[c].holds /\ tx'[c].slot = tx[c].slot /\ tx'[c].qty = tx[c].qty

RoomInvariant == HoldersExclusive /\ HoldersHaveRoom /\ CapacityRespected

LEMMA CapacityTyped ==
    ASSUME RequestsWellFormed, NEW c \in Requests, tx[c].op \in Capturing
    PROVE  /\ tx[c].slot \in Slots /\ tx[c].qty \in Nat /\ tx[c].qty \in Quantities
           /\ Capacity[tx[c].slot] \in Nat
BY ConstantsAssumption DEF RequestsWellFormed, Quantities

(* A step in which nobody takes a seat or a slot row.                      *)
LEMMA QuietStep ==
    ASSUME RequestsWellFormed, RoomInvariant, NoNewHolder,
           \A b \in Bookings : TakesNothing(b)
    PROVE  RoomInvariant'
<1>1. HoldersExclusive'
  BY DEF RoomInvariant, HoldersExclusive, NoNewHolder
<1>2. HoldersHaveRoom'
  <2> SUFFICES ASSUME NEW c \in Requests, tx'[c].holds, NEW r, r = tx[c].slot
               PROVE  Cardinality(CheckedSeats(r))' + tx[c].qty <= Capacity[r]
    BY DEF HoldersHaveRoom, NoNewHolder, CheckedSeats, Seats
  <2>1. tx[c].op \in Capturing /\ tx[c].holds
    BY DEF NoNewHolder, RequestsWellFormed
  <2>2. Cardinality(CheckedSeats(r)) + tx[c].qty <= Capacity[r]
    BY <2>1 DEF RoomInvariant, HoldersHaveRoom
  <2> QED
    BY <2>1, <2>2, NothingTaken, CapacityTyped
<1>3. CapacityRespected'
  BY NothingTaken, ConstantsAssumption DEF RoomInvariant, CapacityRespected
<1> QED
  BY <1>1, <1>2, <1>3 DEF RoomInvariant

(* The commit of a request that holds its slot row: it takes what was left *)
(* for it, and no other request holds that row.                            *)
LEMMA CommitStep ==
    ASSUME RequestsWellFormed, RoomInvariant, NoNewHolder,
           NEW c \in Requests, tx[c].holds, tx'[c].holds = FALSE,
           booking'[tx[c].b].slot = tx[c].slot, booking'[tx[c].b].qty = tx[c].qty,
           \A b \in Bookings \ {tx[c].b} : TakesNothing(b)
    PROVE  RoomInvariant'
<1> DEFINE s == tx[c].slot
<1> DEFINE q == tx[c].qty
<1>1. tx[c].op \in Capturing /\ tx[c].b \in Bookings
  BY DEF RequestsWellFormed, Capturing
<1>2. s \in Slots /\ q \in Nat /\ Capacity[s] \in Nat
  BY <1>1, CapacityTyped
<1>3. Cardinality(CheckedSeats(s)) + q <= Capacity[s]
  BY DEF RoomInvariant, HoldersHaveRoom
<1>4. \A r : /\ Cardinality(CheckedSeats(r))' \in Nat /\ Cardinality(CheckedSeats(r)) \in Nat
             /\ r # s => Cardinality(CheckedSeats(r))' <= Cardinality(CheckedSeats(r))
             /\ Cardinality(CheckedSeats(r))' <= Cardinality(CheckedSeats(r)) + q
  BY <1>1, <1>2, OneTakes
<1>5. HoldersExclusive'
  BY DEF RoomInvariant, HoldersExclusive, NoNewHolder
<1>6. HoldersHaveRoom'
  <2> SUFFICES ASSUME NEW d \in Requests, tx'[d].holds, NEW r, r = tx[d].slot
               PROVE  Cardinality(CheckedSeats(r))' + tx[d].qty <= Capacity[r]
    BY DEF HoldersHaveRoom, NoNewHolder, CheckedSeats, Seats
  <2>1. tx[d].op \in Capturing /\ tx[d].holds /\ d # c
    BY DEF NoNewHolder, RequestsWellFormed
  <2>2. tx[d].slot # s
    BY <2>1 DEF RoomInvariant, HoldersExclusive
  <2>3. Cardinality(CheckedSeats(r)) + tx[d].qty <= Capacity[r]
    BY <2>1 DEF RoomInvariant, HoldersHaveRoom
  <2> QED
    BY <1>4, <2>1, <2>2, <2>3, CapacityTyped
<1>7. CapacityRespected'
  <2> SUFFICES ASSUME NEW r \in Slots
               PROVE  Cardinality(CheckedSeats(r))' <= Capacity[r]
    BY DEF CapacityRespected
  <2>1. Capacity[r] \in Nat /\ Cardinality(CheckedSeats(r)) <= Capacity[r]
    BY ConstantsAssumption DEF RoomInvariant, CapacityRespected
  <2> QED
    BY <1>2, <1>3, <1>4, <2>1
<1> QED
  BY <1>5, <1>6, <1>7 DEF RoomInvariant

(* Taking the slot row: it was free, and the room the view showed when the *)
(* transaction began is still there, since time only drops bookings.       *)
LEMMA LockStep ==
    ASSUME TypeOK, RequestsWellFormed, RoomInvariant,
           NEW c \in Requests, LockSlotCapacity(c)
    PROVE  RoomInvariant'
<1> DEFINE s == tx[c].slot
<1>1. tx[c] \in Request /\ tx[c].op \in Capturing /\ SlotFree(s)
  BY DEF TypeOK, LockSlotCapacity
<1>2. /\ s \in Slots /\ tx[c].qty \in Nat /\ Capacity[s] \in Nat
      /\ tx[c].began \in Nat /\ now \in Nat /\ tx[c].began <= now
  BY <1>1, CapacityTyped DEF RequestsWellFormed, Request, TypeOK
<1>3. UNCHANGED <<now, booking, revived>>
  BY DEF LockSlotCapacity
<1>4. \A d \in Requests :
         /\ tx'[d].slot = tx[d].slot /\ tx'[d].qty = tx[d].qty
         /\ d # c => tx'[d].holds = tx[d].holds
  BY <1>1 DEF LockSlotCapacity, TypeOK, Request
<1>5. Cardinality(CheckedSeats(s)) + tx[c].qty <= Capacity[s]
  <2> DEFINE Then == Seats(s, Active(tx[c].began))
  <2>1. Active(now) \subseteq Active(tx[c].began)
    BY <1>2, ActiveShrinks
  <2>2. CheckedSeats(s) \subseteq Then
    BY <2>1 DEF CheckedSeats, Checked, Seats
  <2>3. IsFiniteSet(Then) /\ Cardinality(Then) \in Nat
    BY SeatsFinite
  <2>4. Cardinality(CheckedSeats(s)) <= Cardinality(Then) /\ Cardinality(CheckedSeats(s)) \in Nat
    BY <2>2, <2>3, FewerSeats
  <2>5. Capacity[s] - Cardinality(Then) - tx[c].qty >= 0
    BY DEF LockSlotCapacity, Remaining
  <2> QED
    BY <1>2, <2>3, <2>4, <2>5
<1>6. \A r : CheckedSeats(r)' = CheckedSeats(r)
  BY <1>3 DEF CheckedSeats, Seats, Checked, Active
<1>7. HoldersExclusive'
  BY <1>1, <1>4 DEF RoomInvariant, HoldersExclusive, SlotFree
<1>8. HoldersHaveRoom'
  <2> SUFFICES ASSUME NEW d \in Requests, tx'[d].holds, NEW r, r = tx[d].slot
               PROVE  Cardinality(CheckedSeats(r))' + tx[d].qty <= Capacity[r]
    BY <1>4 DEF HoldersHaveRoom, CheckedSeats, Seats
  <2>1. Cardinality(CheckedSeats(r))' = Cardinality(CheckedSeats(r))
    BY <1>6
  <2>2. Cardinality(CheckedSeats(r)) + tx[d].qty <= Capacity[r]
    BY <1>4, <1>5 DEF RoomInvariant, HoldersHaveRoom
  <2> QED
    BY <2>1, <2>2
<1>9. CapacityRespected'
  BY <1>6 DEF RoomInvariant, CapacityRespected
<1> QED
  BY <1>7, <1>8, <1>9 DEF RoomInvariant

(* Every other step of a request.                                          *)
LEMMA RequestStepKeepsRoom ==
    ASSUME TypeOK, RequestsWellFormed, RoomInvariant, NEW c \in Requests,
           StartRequest(c) \/ RequestStep(c) \/ Abort(c)
    PROVE  RoomInvariant'
<1>1. ASSUME NEW t, tx' = [tx EXCEPT ![c] = t], t.holds = FALSE
      PROVE  NoNewHolder /\ tx'[c].holds = FALSE
  BY <1>1 DEF NoNewHolder, TypeOK
<1>2. Idle.holds = FALSE
  BY DEF Idle
<1>3. ASSUME Finish(c) PROVE NoNewHolder /\ tx'[c].holds = FALSE
  BY <1>1, <1>2, <1>3 DEF Finish
<1>4. CASE StartRequest(c)
  <2>1. \E t : tx' = [tx EXCEPT ![c] = t] /\ t.holds = FALSE
    <3>1. /\ \A op, b : Reading(op, b).holds = FALSE
          /\ \A op, b, s, q, k : Seating(op, b, s, q, k).holds = FALSE
      BY DEF Reading, Seating
    <3>2. ASSUME NEW t, Open(c, t), t.holds = FALSE
          PROVE  \E u : tx' = [tx EXCEPT ![c] = u] /\ u.holds = FALSE
      BY <3>2 DEF Open
    <3>3. ASSUME NEW b, CancelRead(c, b) \/ CheckInRead(c, b)
          PROVE  \E op : Open(c, Reading(op, b))
      BY <3>3 DEF CancelRead, CheckInRead
    <3>4. ASSUME NEW b, NEW s, NEW q,
                 \/ StartUpdate(c, b, s, q) \/ StartAgent(c, b, s, q)
                 \/ \E k \in Keys \cup {Null} : StartCreate(c, b, s, q, k)
          PROVE  \E op, k : Open(c, Seating(op, b, s, q, k))
      BY <3>4 DEF StartUpdate, StartAgent, StartCreate
    <3>5. \E t : Open(c, t) /\ t.holds = FALSE
      BY <1>4, <3>1, <3>3, <3>4 DEF StartRequest
    <3> QED
      BY <3>2, <3>5
  <2>2. ~Commits(c)
    <3>1. ASSUME NEW t, Open(c, t) PROVE tx[c].op = "idle"
      BY <3>1 DEF Open, Idle
    <3>2. tx[c].op = "idle"
      BY <1>4, <3>1 DEF StartRequest, CancelRead, CheckInRead, StartUpdate, StartAgent,
             StartCreate
    <3> QED
      BY <3>2 DEF Commits, CommitCreate, CommitAgent, CommitUpdate
  <2> QED
    BY <1>1, <1>4, <2>1, <2>2, RequestTakesNothing, QuietStep
<1>5. CASE ~Commits(c) /\ (RejectCapacity(c) \/ RejectKey(c) \/ Abort(c) \/ CancelWrite(c) \/ CheckInWrite(c))
  <2>1. Finish(c) /\ (RequestStep(c) \/ Abort(c))
    BY <1>5 DEF RejectCapacity, RejectKey, Abort, CancelWrite, CheckInWrite, RequestStep
  <2> QED
    BY <1>3, <1>5, <2>1, RequestTakesNothing, QuietStep
<1>6. CASE Commits(c)
  <2>1. now \in Nat /\ now <= now' /\ now' \in Nat /\ revived \subseteq revived'
    BY <1>6, CommitWrites
  <2>2. \A b \in Bookings \ {tx[c].b} : TakesNothing(b)
    BY <1>6, <2>1, CommitWrites, UnchangedTakesNothing
  <2> QED
    BY <1>3, <1>6, <2>2, CommitWrites, CommitStep
<1> QED
  BY <1>4, <1>5, <1>6, LockStep DEF RequestStep, Commits

LEMMA RoomNext ==
    TypeOK /\ RequestsWellFormed /\ RoomInvariant /\ [Next]_vars => RoomInvariant'
<1> SUFFICES ASSUME TypeOK, RequestsWellFormed, RoomInvariant, [Next]_vars
             PROVE  RoomInvariant'
  OBVIOUS
<1>1. ASSUME tx' = tx PROVE NoNewHolder
  BY <1>1 DEF NoNewHolder
<1>2. ASSUME NEW b \in Bookings, BookingStep(b) PROVE RoomInvariant'
  <2>1. tx' = tx
    BY <1>2 DEF BookingStep, ConfirmPending, CancelPending, ConfirmBookingPayment,
           ReconcileConfirm
  <2> QED
    BY <1>1, <1>2, <2>1, BookingStepTakesNothing, QuietStep
<1>3. ASSUME NEW w \in Workers, WorkerStep(w) PROVE RoomInvariant'
  <2>1. tx' = tx
    BY <1>3 DEF WorkerStep, ExpireScan, ExpireApply, ExpireLocks, WorkerCrash
  <2> QED
    BY <1>1, <1>3, <2>1, WorkerStepTakesNothing, QuietStep
<1>4. CASE Tick \/ UNCHANGED vars
  <2>1. /\ now' \in Nat /\ now <= now'
        /\ tx' = tx /\ booking' = booking /\ revived' = revived
    BY <1>4 DEF Tick, vars, TypeOK
  <2>2. \A b \in Bookings : TakesNothing(b)
    BY <2>1, UnchangedTakesNothing
  <2> QED
    BY <1>1, <2>1, <2>2, QuietStep
<1> QED
  BY <1>2, <1>3, <1>4, RequestStepKeepsRoom DEF Next

LEMMA RoomInit == Init => RoomInvariant
<1> SUFFICES ASSUME Init PROVE RoomInvariant
  OBVIOUS
<1>1. \A c \in Requests : ~tx[c].holds
  BY DEF Init, Idle
<1>2. \A s : CheckedSeats(s) = {}
  BY DEF Init, CheckedSeats, Seats, Checked, Active, Counted, NoBooking
<1>3. CapacityRespected
  BY <1>2, FS_EmptySet, ConstantsAssumption DEF CapacityRespected
<1> QED
  BY <1>1, <1>3 DEF RoomInvariant, HoldersExclusive, HoldersHaveRoom

(* The inductive invariant: whoever holds a slot row holds it alone, and   *)
(* the room it found is there until it commits.                            *)
THEOREM CapacityInductive == Spec => []CapacityInvariant
<1>1. Init => TypedRequests /\ RoomInvariant
  BY TypeInit, RoomInit
<1>2. TypedRequests /\ RoomInvariant /\ [Next]_vars => (TypedRequests /\ RoomInvariant)'
  BY TypeNext, RoomNext DEF TypedRequests
<1>3. TypedRequests /\ RoomInvariant => CapacityInvariant
  BY DEF TypedRequests, RoomInvariant, CapacityInvariant
<1> QED
  BY <1>1, <1>2, <1>3, PTL DEF Spec

(* The seats the capacity view counts in a slot never exceed its capacity, *)
(* bookings confirmed while the view did not count them left out, whatever *)
(* the number of concurrent create, update and agent transactions: the     *)
(* lock that lockSlotCapacity takes on the slot row is enough.             *)
THEOREM CapacityTheorem == Spec => []CapacityRespected
<1>1. CapacityInvariant => CapacityRespected
  BY DEF CapacityInvariant
<1> QED
  BY <1>1, CapacityInductive, PTL

-----------------------------------------------------------------------------
(* The ledger                                                              *)

\* The parties of Bookings, as SeatLedger sees them.
Parties == [b \in Bookings |-> Party(b)]

(* The seats taken in the ledger are the checked seats.                    *)
LEMMA TakenIsChecked ==
    ASSUME NEW s \in Slots
    PROVE  Ledger!Taken(s) = CheckedSeats(s)
<1>1. s # Null
  BY ConstantsAssumption
<1>2. ASSUME NEW b \in Bookings, NEW i \in 1 .. MaxQty
      PROVE  (Party(b).slot = s /\ i <= Party(b).qty)
               <=> (b \in Checked /\ booking[b].slot = s /\ i <= booking[b].qty)
  BY <1>1, <1>2 DEF Party
<1> QED
  BY <1>2 DEF Ledger!Taken, CheckedSeats, Seats, Quantities

(* SeatLedger counts with its own instance of FiniteSets.                  *)
LEMMA SameCardinality == \A S : Ledger!Cardinality(S) = Cardinality(S)
BY DEF Ledger!Cardinality, Cardinality

(* Whoever is not seated any more gave all they had back.                  *)
LEMMA SeatedStay ==
    ASSUME \A b \in Bookings : TakesNothing(b)
    PROVE  Ledger!GiveBack(Bookings \ Checked')
<1>1. ASSUME NEW b \in Bookings
      PROVE  Party(b)' = IF b \in Checked' THEN Party(b) ELSE Ledger!Nowhere
  BY <1>1 DEF Party, TakesNothing, Ledger!Nowhere
<1> QED
  BY <1>1 DEF Ledger!GiveBack

LEMMA QuietLedger ==
    ASSUME \A b \in Bookings : TakesNothing(b)
    PROVE  Ledger!Next
BY SeatedStay DEF Ledger!Next

(* A commit takes seats, unless its booking's time ran out before it.      *)
LEMMA CommitLedger ==
    ASSUME TypeOK, RequestsWellFormed, RoomInvariant, NEW c \in Requests, Commits(c)
    PROVE  Ledger!Next
<1> DEFINE t == tx[c]
<1>1. /\ t.holds /\ now' = now /\ now \in Nat /\ revived' = revived
      /\ t.b \in Bookings /\ t.slot \in Slots /\ t.qty \in Quantities
      /\ booking'[t.b].slot = t.slot /\ booking'[t.b].qty = t.qty
      /\ \A b \in Bookings \ {t.b} : booking'[b] = booking[b]
  BY CommitWrites
<1>2. CASE t.b \in Checked'
  <2>1. Cardinality(Ledger!Taken(t.slot)) + t.qty <= Capacity[t.slot]
    BY <1>1, TakenIsChecked DEF RoomInvariant, HoldersHaveRoom
  <2>2. \A b \in Bookings : Party(b)' = IF b = t.b THEN [slot |-> t.slot, qty |-> t.qty]
                                                 ELSE Party(b)
    BY <1>1, <1>2 DEF Party, Checked, Active, Counted
  <2>3. [b \in Bookings |-> Party(b)]' =
           [[b \in Bookings |-> Party(b)] EXCEPT ![t.b] = [slot |-> t.slot, qty |-> t.qty]]
    BY <1>1, <2>2
  <2>4. Ledger!Take(t.b, t.slot, t.qty)
    BY <2>1, <2>3, SameCardinality DEF Ledger!Take
  <2> QED
    BY <1>1, <2>4 DEF Ledger!Next, Quantities
<1>3. CASE t.b \notin Checked'
  <2>1. TakesNothing(t.b)
    BY <1>3 DEF TakesNothing
  <2>2. now <= now' /\ now' \in Nat /\ revived \subseteq revived'
    BY <1>1
  <2>3. \A b \in Bookings \ {t.b} : TakesNothing(b)
    BY <1>1, <2>2, UnchangedTakesNothing
  <2> QED
    BY <2>1, <2>3, QuietLedger
<1> QED
  BY <1>2, <1>3

LEMMA LedgerInit == Init => Ledger!Init
<1> SUFFICES ASSUME Init PROVE Ledger!Init
  OBVIOUS
<1>1. \A b \in Bookings : b \notin Checked
  BY DEF Init, Checked, Active, Counted, NoBooking
<1> QED
  BY <1>1 DEF Ledger!Init, Ledger!Nowhere, Party

LEMMA LedgerNext ==
    TypeOK /\ RequestsWellFormed /\ RoomInvariant /\ [Next]_vars => Ledger!Next
<1> SUFFICES ASSUME TypeOK, RequestsWellFormed, RoomInvariant, [Next]_vars
             PROVE  Ledger!Next
  OBVIOUS
<1>1. ASSUME NEW c \in Requests, StartRequest(c) \/ RequestStep(c) \/ Abort(c)
      PROVE  Ledger!Next
  <2>1. CASE Commits(c)
    BY <2>1, CommitLedger
  <2>2. CASE ~Commits(c)
    BY <1>1, <2>2, RequestTakesNothing, QuietLedger
  <2> QED
    BY <2>1, <2>2
<1>2. ASSUME NEW b \in Bookings, BookingStep(b) PROVE Ledger!Next
  BY <1>2, BookingStepTakesNothing, QuietLedger
<1>3. ASSUME NEW w \in Workers, WorkerStep(w) PROVE Ledger!Next
  BY <1>3, WorkerStepTakesNothing, QuietLedger
<1>4. CASE Tick \/ UNCHANGED vars
  <2>1. /\ now' \in Nat /\ now <= now'
        /\ booking' = booking /\ revived' = revived
    BY <1>4 DEF Tick, vars, TypeOK
  <2> QED
    BY <2>1, UnchangedTakesNothing, QuietLedger
<1> QED
  BY <1>1, <1>2, <1>3, <1>4 DEF Next

(* The booking core implements the seat ledger: whatever its transactions, *)
(* webhooks and sweeps do, seats are taken one booking at a time and only  *)
(* when there is room, and otherwise given back.                           *)
THEOREM LedgerTheorem == Spec => ImplementsLedger
<1>1. Init => TypedRequests /\ RoomInvariant
  BY TypeInit, RoomInit
<1>2. TypedRequests /\ RoomInvariant /\ [Next]_vars => (TypedRequests /\ RoomInvariant)'
  BY TypeNext, RoomNext DEF TypedRequests
<1>3. TypedRequests /\ RoomInvariant /\ [Next]_vars => [Ledger!Next]_Parties
  BY LedgerNext DEF TypedRequests
<1> QED
  BY <1>1, <1>2, <1>3, LedgerInit, PTL DEF Spec, ImplementsLedger, Ledger!Spec, Parties

-----------------------------------------------------------------------------
(* The life of a booking *)

SameSeats(b) == booking'[b].slot = booking[b].slot /\ booking'[b].qty = booking[b].qty

(* What the other components see of a row that keeps its status and seats. *)
Same(b) == booking'[b].status = booking[b].status /\ SameSeats(b)

LEMMA LifeSame ==
    ASSUME \A b \in Bookings : Same(b)
    PROVE  UNCHANGED Life!life
<1>1. \A b \in Bookings : Place(b)' = Place(b)
  BY DEF Same, SameSeats, Place, Exists
<1> QED
  BY <1>1 DEF Life!life, Same

(* Some bookings that exist get a status, and are for what they were for.  *)
LEMMA LifeBecomes ==
    ASSUME NEW B \in SUBSET Bookings, NEW s, s # "absent",
           \A b \in B : Exists(b) /\ booking'[b].status = s /\ SameSeats(b),
           \A b \in Bookings \ B : Same(b)
    PROVE  Life!Become(B, s)
<1>1. \A b \in Bookings : Place(b)' = Place(b)
  BY DEF Same, SameSeats, Place, Exists
<1>2. \A b \in Bookings : booking'[b].status = IF b \in B THEN s ELSE booking[b].status
  BY DEF Same
<1>3. \A b \in B : booking[b].status # "absent"
  BY DEF Exists
<1> QED
  BY <1>1, <1>2, <1>3 DEF Life!Become, Life!Exists

(* A step on the row of one booking.                                       *)
LEMMA LifeBooking ==
    ASSUME TypeOK, NEW b \in Bookings, BookingStep(b)
    PROVE  [Life!Next]_(Life!life)
<1>1. booking[b] \in BookingRow /\ {b} \in SUBSET Bookings
  BY RowsTyped
<1>2. \A o \in Bookings \ {b} : Same(o)
  BY DEF BookingStep, ConfirmPending, CancelPending, ConfirmBookingPayment,
         ReconcileConfirm, TypeOK, Same, SameSeats
<1>3. ASSUME NEW s, s # "absent", Exists(b), booking'[b].status = s, SameSeats(b)
      PROVE  Life!Become({b}, s)
  BY <1>1, <1>2, <1>3, LifeBecomes
<1>4. ASSUME NEW s \in {"confirmed", "cancelled"}, booking[b].status = "pending",
             booking'[b].status = s, SameSeats(b)
      PROVE  Life!Next
  <2>1. Life!Become({b}, s)
    BY <1>3, <1>4 DEF Exists
  <2>2. Life!Decide(b, s)
    BY <1>4, <2>1 DEF Life!Decide
  <2> QED
    BY <2>2 DEF Life!Next, Life!Alone
<1>5. CASE ConfirmPending(b)
  <2>1. booking'[b] = [booking[b] EXCEPT !.status = "confirmed", !.expires_at = Null]
    BY <1>5 DEF ConfirmPending, TypeOK
  <2>2. booking'[b].status = "confirmed" /\ SameSeats(b)
    BY <1>1, <2>1, RowFields DEF SameSeats
  <2> QED
    BY <1>4, <1>5, <2>2 DEF ConfirmPending
<1>6. CASE CancelPending(b)
  <2>1. booking'[b] = [booking[b] EXCEPT !.status = "cancelled", !.expires_at = now]
    BY <1>6 DEF CancelPending, TypeOK
  <2>2. booking'[b].status = "cancelled" /\ SameSeats(b)
    BY <1>1, <2>1, RowFields DEF SameSeats
  <2> QED
    BY <1>4, <1>6, <2>2 DEF CancelPending
<1>7. CASE ConfirmBookingPayment(b)
  <2>1. booking'[b] = [booking[b] EXCEPT !.status = "confirmed"]
    BY <1>7 DEF ConfirmBookingPayment, TypeOK
  <2>2. booking'[b].status = "confirmed" /\ SameSeats(b)
    BY <1>1, <2>1, RowFields DEF SameSeats
  <2>3. Life!Pay(b)
    BY <1>3, <1>7, <2>2 DEF ConfirmBookingPayment, Life!Pay
  <2> QED
    BY <2>3 DEF Life!Next, Life!Paying
<1>8. CASE ReconcileConfirm(b)
  <2> DEFINE new == IF booking[b].status = "pending" THEN "confirmed" ELSE booking[b].status
  <2>1. booking'[b] = [booking[b] EXCEPT !.status = new]
    BY <1>8 DEF ReconcileConfirm, TypeOK
  <2>2. booking'[b].status = new /\ SameSeats(b)
    BY <1>1, <2>1, RowFields DEF SameSeats
  <2>3. CASE booking[b].status = "pending"
    BY <1>4, <2>2, <2>3
  <2>4. CASE booking[b].status # "pending"
    <3>1. Same(b)
      BY <2>2, <2>4 DEF Same
    <3> QED
      BY <1>2, <3>1, LifeSame
  <2> QED
    BY <2>3, <2>4
<1> QED
  BY <1>5, <1>6, <1>7, <1>8 DEF BookingStep

(* The sweep: the statement that expires its batch.                        *)
LEMMA LifeWorker ==
    ASSUME TypedRequests, LockInvariant, NEW w \in Workers, WorkerStep(w)
    PROVE  [Life!Next]_(Life!life)
<1>1. CASE ExpireApply(w)
  <2>0. sweep[w].batch \in SUBSET Bookings /\ \A b \in sweep[w].batch : Exists(b)
    BY <1>1 DEF ExpireApply, TypedRequests, TypeOK, Sweep, LockInvariant, SweepsFitRows, Exists
  <2>1. PICK S \in SUBSET Bookings : S = sweep[w].batch /\ \A b \in S : Exists(b)
    BY <2>0
  <2>2. \A b \in Bookings : booking[b] \in BookingRow
    BY RowsTyped DEF TypedRequests
  <2>3. \A b \in S : booking'[b] = [booking[b] EXCEPT !.status = "expired", !.expires_at = now]
    BY <1>1, <2>1 DEF ExpireApply
  <2>4. ASSUME NEW b \in S PROVE booking'[b].status = "expired" /\ SameSeats(b)
    <3>1. booking[b] \in BookingRow
      BY <2>1, <2>2
    <3>2. booking'[b] = [booking[b] EXCEPT !.status = "expired", !.expires_at = now]
      BY <2>3
    <3> QED
      BY <3>1, <3>2, RowFields DEF SameSeats
  <2>5. \A b \in Bookings \ S : Same(b)
    BY <1>1, <2>1 DEF ExpireApply, Same, SameSeats
  <2>6. Life!Expire(S)
    BY <2>1, <2>4, <2>5, LifeBecomes DEF Life!Expire
  <2> QED
    BY <2>6 DEF Life!Next, Life!Alone
<1>2. CASE ExpireScan(w) \/ ExpireLocks(w) \/ WorkerCrash(w)
  BY <1>2, LifeSame DEF ExpireScan, ExpireLocks, WorkerCrash, Same, SameSeats
<1> QED
  BY <1>1, <1>2 DEF WorkerStep

(* A commit enters a booking, or changes one that is still pending.        *)
LEMMA LifeCommit ==
    ASSUME TypedRequests, LockInvariant, NEW c \in Requests, Commits(c)
    PROVE  Life!Next
<1> DEFINE b == tx[c].b
           p == [slot |-> tx[c].slot, qty |-> tx[c].qty]
<1>1. /\ b \in Bookings /\ tx[c].slot \in Slots /\ tx[c].qty \in Quantities
      /\ booking'[b].slot = tx[c].slot /\ booking'[b].qty = tx[c].qty
      /\ \A o \in Bookings \ {b} : booking'[o] = booking[o]
  BY CommitWrites DEF TypedRequests
<1>2. p \in [slot : Slots, qty : Quantities]
  BY <1>1
<1>3. FitsRow(tx[c], booking)
  BY DEF LockInvariant, RequestsFitRows
<1>4. ASSUME booking'[b].status # "absent"
      PROVE  [o \in Bookings |-> Place(o)]' = [[o \in Bookings |-> Place(o)] EXCEPT ![b] = p]
  BY <1>1, <1>4 DEF Place, Exists
<1>5. ASSUME NEW s \in {"pending", "confirmed"}, booking[b].status = "absent",
             booking'[b].status = s
      PROVE  Life!Next
  <2>1. [o \in Bookings |-> booking[o].status]'
           = [[o \in Bookings |-> booking[o].status] EXCEPT ![b] = s]
    BY <1>1, <1>5
  <2>2. Life!Enter(b, p, s)
    BY <1>1, <1>4, <1>5, <2>1 DEF Life!Enter, Life!Exists
  <2> QED
    BY <1>1, <1>2, <2>2 DEF Life!Next, Life!Alone
<1>6. CASE CommitCreate(c)
  <2>1. booking[b].status = "absent" /\ booking'[b].status = "pending"
    BY <1>1, <1>3, <1>6 DEF CommitCreate, FitsRow, TypedRequests, TypeOK, NoBooking
  <2> QED
    BY <1>5, <2>1
<1>7. CASE CommitAgent(c)
  <2>1. booking[b].status = "absent" /\ booking'[b].status = "confirmed"
    BY <1>1, <1>3, <1>7 DEF CommitAgent, FitsRow, TypedRequests, TypeOK, NoBooking
  <2> QED
    BY <1>5, <2>1
<1>8. CASE CommitUpdate(c)
  <2>1. booking[b].status = "pending" /\ booking[b] \in BookingRow
    BY <1>1, <1>3, <1>8, RowsTyped DEF CommitUpdate, FitsRow, TypedRequests
  <2>2. booking'[b].status = "pending"
    BY <1>1, <1>8, <2>1 DEF CommitUpdate, TypedRequests, TypeOK, BookingRow
  <2>3. [o \in Bookings |-> booking[o].status]' = [o \in Bookings |-> booking[o].status]
    BY <1>1, <2>1, <2>2
  <2>4. Life!Change(b, p)
    BY <1>1, <1>4, <2>1, <2>2, <2>3 DEF Life!Change
  <2> QED
    BY <1>1, <1>2, <2>4 DEF Life!Next, Life!Alone
<1> QED
  BY <1>6, <1>7, <1>8 DEF Commits

(* The other steps of a request: only a cancellation is seen.              *)
LEMMA LifeRequest ==
    ASSUME TypedRequests, LockInvariant, NEW c \in Requests,
           StartRequest(c) \/ RequestStep(c) \/ Abort(c), ~Commits(c)
    PROVE  [Life!Next]_(Life!life)
<1>1. \A b \in Bookings : booking[b] \in BookingRow
  BY RowsTyped DEF TypedRequests
<1>2. CASE CancelWrite(c)
  <2>0. tx[c].b \in Bookings /\ Exists(tx[c].b)
    BY <1>2 DEF CancelWrite, TypedRequests, RequestsWellFormed, LockInvariant,
                RequestsFitRows, FitsRow, Exists
  <2>1. PICK b \in Bookings : b = tx[c].b /\ Exists(b)
    BY <2>0
  <2>2. booking'[b] = [booking[b] EXCEPT !.status = "cancelled"]
    BY <1>2, <2>1 DEF CancelWrite, TypedRequests, TypeOK
  <2>3. booking'[b].status = "cancelled" /\ SameSeats(b)
    BY <1>1, <2>1, <2>2, RowFields DEF SameSeats
  <2>4. \A o \in Bookings \ {b} : Same(o)
    BY <1>2, <2>1 DEF CancelWrite, TypedRequests, TypeOK, Same, SameSeats
  <2>5. Life!Cancel(b)
    BY <2>1, <2>3, <2>4, LifeBecomes DEF Life!Cancel
  <2> QED
    BY <2>5 DEF Life!Next, Life!Cancelling
<1>3. CASE CheckInWrite(c)
  <2>1. \A r \in BookingRow :
           LET n == [r EXCEPT !.checked_in = TRUE]
           IN  n.status = r.status /\ n.slot = r.slot /\ n.qty = r.qty
    BY DEF BookingRow
  <2>2. \A b \in Bookings :
           booking'[b] = booking[b] \/ booking'[b] = [booking[b] EXCEPT !.checked_in = TRUE]
    BY <1>3 DEF CheckInWrite, TypedRequests, TypeOK
  <2>3. \A b \in Bookings : Same(b)
    BY <1>1, <2>1, <2>2 DEF Same, SameSeats
  <2> QED
    BY <2>3, LifeSame
<1>4. CASE booking' = booking
  BY <1>4, LifeSame DEF Same, SameSeats
<1>5. booking' = booking \/ CancelWrite(c) \/ CheckInWrite(c)
  BY DEF StartRequest, CancelRead, CheckInRead, StartUpdate, StartAgent, StartCreate, Open,
         RequestStep, LockSlotCapacity, RejectCapacity, RejectKey, Commits, Abort
<1> QED
  BY <1>2, <1>3, <1>4, <1>5

LEMMA LifeInit == Init => Life!Init
BY DEF Init, Life!Init, Place, Exists, NoBooking

LEMMA LifeNext ==
    TypedRequests /\ LockInvariant /\ [Next]_vars => [Life!Next]_(Life!life)
<1> SUFFICES ASSUME TypedRequests, LockInvariant, [Next]_vars
             PROVE  [Life!Next]_(Life!life)
  OBVIOUS
<1>1. ASSUME NEW c \in Requests, StartRequest(c) \/ RequestStep(c) \/ Abort(c)
      PROVE  [Life!Next]_(Life!life)
  BY <1>1, LifeCommit, LifeRequest
<1>2. ASSUME NEW b \in Bookings, BookingStep(b) PROVE [Life!Next]_(Life!life)
  BY <1>2, LifeBooking DEF TypedRequests
<1>3. ASSUME NEW w \in Workers, WorkerStep(w) PROVE [Life!Next]_(Life!life)
  BY <1>3, LifeWorker
<1>4. CASE Tick \/ UNCHANGED vars
  BY <1>4, LifeSame DEF Tick, vars, Same, SameSeats
<1> QED
  BY <1>1, <1>2, <1>3, <1>4 DEF Next

(* The booking core implements BookingLife: whatever its requests read and *)
(* however late they write, a booking that left pending does not get back  *)
(* to it, and only a pending one changes what it is for.                   *)
THEOREM LifeTheorem == Spec => ImplementsLife
<1>1. Init => TypedRequests /\ LockInvariant
  BY TypeInit, LockInit
<1>2. TypedRequests /\ LockInvariant /\ [Next]_vars => (TypedRequests /\ LockInvariant)'
  BY TypeNext, LockNext
<1> QED
  BY <1>1, <1>2, LifeInit, LifeNext, PTL DEF Spec, ImplementsLife, Life!Spec, Life!Steps

=============================================================================
