------------------------------ MODULE Bookings ------------------------------
(***************************************************************************)
(* The booking core: the rows of `bookings` and `inventory_locks`, the     *)
(* slot row that serialises capacity checks, the transactions of           *)
(* BookingsService, the two payment paths that confirm a booking, and the  *)
(* booking-expiry worker.  PostgreSQL runs at READ COMMITTED, so only a    *)
(* row lock (FOR UPDATE, or an UPDATE's own) orders two transactions:      *)
(*                                                                         *)
(*  - a transaction that touches one booking row and commits is one step;  *)
(*  - create, update and agent bookings are several steps, since they hold *)
(*    a row lock while other transactions commit;                          *)
(*  - an operation that reads without a lock and writes later (cancel,     *)
(*    check-in, the worker's sweep) is a read step and a write step.       *)
(***************************************************************************)
EXTENDS Integers, FiniteSets

CONSTANTS
    Bookings,   \* ids of the booking rows
    Slots,      \* ids of the availability slots
    Capacity,   \* availability_slots.capacity of every slot
    Requests,   \* the API requests that can be in flight at once
    Workers,    \* the instances of the expiry worker
    Keys,       \* values of the Idempotency-Key header
    MaxQty,     \* adults + children of one booking, at most
    Ttl,        \* BOOKING_PENDING_TTL_MINUTES, in ticks
    BatchSize,  \* LIMIT of the expiry sweep
    MaxTime,    \* bound on the clock
    Null        \* SQL NULL

ASSUME ConstantsAssumption ==
    /\ IsFiniteSet(Bookings)
    /\ Capacity \in [Slots -> Nat]
    /\ MaxQty \in Nat \ {0}
    /\ Ttl \in Nat \ {0}
    /\ BatchSize \in Nat \ {0}
    /\ MaxTime \in Nat
    /\ Null \notin Bookings \cup Slots \cup Keys \cup Nat

VARIABLES
    now,        \* the database clock
    booking,    \* the bookings table
    lock,       \* the inventory_locks row of each booking
    tx,         \* what each request is in the middle of
    sweep,      \* what each expiry worker is in the middle of
    revived     \* history: bookings that took seats without a capacity check

vars == <<now, booking, lock, tx, sweep, revived>>

-----------------------------------------------------------------------------
(* Rows and requests *)

Statuses == {"absent", "pending", "confirmed", "cancelled", "expired"}
Quantities == 1 .. MaxQty

NoBooking == [status |-> "absent", source |-> "app", slot |-> Null, qty |-> 0,
              expires_at |-> Null, key |-> Null, checked_in |-> FALSE]

BookingRow == [status : Statuses, source : {"app", "bng"},
               slot : Slots \cup {Null}, qty : 0 .. MaxQty,
               expires_at : Nat \cup {Null}, key : Keys \cup {Null},
               checked_in : BOOLEAN]

NoLock == [slot |-> Null, quantity |-> 0, consumed |-> FALSE, released |-> FALSE]

LockRow == [slot : Slots \cup {Null}, quantity : 0 .. MaxQty,
            consumed : BOOLEAN, released : BOOLEAN]

\* holds: the request's transaction has locked its slot row and found room.
Idle == [op |-> "idle", b |-> Null, slot |-> Null, qty |-> 0, key |-> Null,
         began |-> 0, expiry |-> 0, holds |-> FALSE, seen |-> "absent"]

Capturing == {"create", "update", "agent"}   \* operations that take seats

Request == [op : {"idle", "cancel", "checkin"} \cup Capturing,
            b : Bookings \cup {Null}, slot : Slots \cup {Null},
            qty : 0 .. MaxQty, key : Keys \cup {Null}, began : Nat,
            expiry : Nat, holds : BOOLEAN, seen : Statuses]

Sweep == [step : {"idle", "apply", "locks"}, batch : SUBSET Bookings]

TypeOK ==
    /\ now \in Nat
    /\ booking \in [Bookings -> BookingRow]
    /\ lock \in [Bookings -> LockRow]
    /\ tx \in [Requests -> Request]
    /\ sweep \in [Workers -> Sweep]
    /\ revived \subseteq Bookings

Init ==
    /\ now = 0
    /\ booking = [b \in Bookings |-> NoBooking]
    /\ lock = [b \in Bookings |-> NoLock]
    /\ tx = [c \in Requests |-> Idle]
    /\ sweep = [w \in Workers |-> [step |-> "idle", batch |-> {}]]
    /\ revived = {}

-----------------------------------------------------------------------------
(* The capacity view and the row locks *)

\* v_slot_remaining counts a booking at time t.  Its second term, locks with
\* no booking, is always zero: every lock is inserted with its booking's id.
Counted(row, t) ==
    /\ row.status \in {"pending", "confirmed"}
    /\ row.expires_at = Null \/ row.expires_at > t

Active(t) == {b \in Bookings : Counted(booking[b], t)}

\* The seats the bookings of B take in slot s, one pair per traveller, so
\* that SUM(adults + children) is the number of pairs.
Seats(s, B) ==
    {seat \in Bookings \X Quantities :
        /\ seat[1] \in B
        /\ booking[seat[1]].slot = s
        /\ seat[2] <= booking[seat[1]].qty}

Remaining(s, t) == Capacity[s] - Cardinality(Seats(s, Active(t)))

\* Mutation: the slot row is read without FOR UPDATE.
SlotNeverLocked(s) == TRUE

\* No other transaction has the slot row FOR UPDATE.
SlotFree(s) == \A c \in Requests : ~(tx[c].holds /\ tx[c].slot = s)

\* No transaction in progress has the booking row FOR UPDATE.
RowFree(b) == \A c \in Requests : ~(tx[c].op = "update" /\ tx[c].b = b)

EnsureIdempotency(k) == k = Null \/ \A b \in Bookings : booking[b].key # k

UniqueKey(k) == k = Null \/ \A b \in Bookings : booking[b].key # k

\* An id for a new row: unused, and not the id another request will insert.
Fresh(b) ==
    /\ booking[b].status = "absent"
    /\ \A c \in Requests : tx[c].b # b

Exists(b) == booking[b].status # "absent"

\* Mutation: the time to live is taken off instead of added.
ExpiryInThePast == now - Ttl

CalculateExpiry == now + Ttl

Finish(c) == tx' = [tx EXCEPT ![c] = Idle]

-----------------------------------------------------------------------------
(* Operations that take seats: createPendingBooking, updatePendingBooking, *)
(* createAgentBooking.  Each opens a transaction, locks the slot row and   *)
(* reads the view, then writes the booking and its lock and commits.       *)

Open(c, t) ==
    /\ tx[c] = Idle
    /\ tx' = [tx EXCEPT ![c] = t]
    /\ UNCHANGED <<now, booking, lock, sweep, revived>>

Seating(op, b, s, q, k) ==
    [op |-> op, b |-> b, slot |-> s, qty |-> q, key |-> k,
     began |-> now, expiry |-> 0, holds |-> FALSE, seen |-> "absent"]

StartCreate(c, b, s, q, k) ==
    Fresh(b) /\ EnsureIdempotency(k) /\ Open(c, Seating("create", b, s, q, k))

StartAgent(c, b, s, q) ==
    Fresh(b) /\ Open(c, Seating("agent", b, s, q, Null))

\* Mutation: the status of the booking is not checked.
StartUpdateUnchecked(c, b, s, q) ==
    Exists(b) /\ RowFree(b) /\ Open(c, Seating("update", b, s, q, Null))

\* The booking row stays locked until the transaction ends.
StartUpdate(c, b, s, q) ==
    /\ booking[b].status = "pending"
    /\ RowFree(b)
    /\ Open(c, Seating("update", b, s, q, Null))

\* lockSlotCapacity: the view's now() is the time the transaction began.
LockSlotCapacity(c) ==
    /\ tx[c].op \in Capturing
    /\ ~tx[c].holds
    /\ SlotFree(tx[c].slot)
    /\ Remaining(tx[c].slot, tx[c].began) - tx[c].qty >= 0
    /\ tx' = [tx EXCEPT ![c].holds = TRUE, ![c].expiry = CalculateExpiry]
    /\ UNCHANGED <<now, booking, lock, sweep, revived>>

RejectCapacity(c) ==
    /\ tx[c].op \in Capturing
    /\ ~tx[c].holds
    /\ SlotFree(tx[c].slot)
    /\ Remaining(tx[c].slot, tx[c].began) - tx[c].qty < 0
    /\ Finish(c)
    /\ UNCHANGED <<now, booking, lock, sweep, revived>>

NewLock(t, consumed) ==
    [slot |-> t.slot, quantity |-> t.qty, consumed |-> consumed, released |-> FALSE]

CommitCreate(c) ==
    LET t == tx[c] IN
    /\ t.op = "create"
    /\ t.holds
    /\ UniqueKey(t.key)
    /\ booking' = [booking EXCEPT ![t.b] =
            [NoBooking EXCEPT !.status = "pending", !.slot = t.slot, !.qty = t.qty,
                              !.expires_at = t.expiry, !.key = t.key]]
    /\ lock' = [lock EXCEPT ![t.b] = NewLock(t, FALSE)]
    /\ Finish(c)
    /\ UNCHANGED <<now, sweep, revived>>

\* The unique index on idempotency_key refuses the row: 23505, rolled back.
RejectKey(c) ==
    /\ tx[c].op = "create"
    /\ tx[c].holds
    /\ ~UniqueKey(tx[c].key)
    /\ Finish(c)
    /\ UNCHANGED <<now, booking, lock, sweep, revived>>

CommitAgent(c) ==
    LET t == tx[c] IN
    /\ t.op = "agent"
    /\ t.holds
    /\ booking' = [booking EXCEPT ![t.b] =
            [NoBooking EXCEPT !.status = "confirmed", !.source = "bng",
                              !.slot = t.slot, !.qty = t.qty]]
    /\ lock' = [lock EXCEPT ![t.b] = NewLock(t, TRUE)]
    /\ Finish(c)
    /\ UNCHANGED <<now, sweep, revived>>

\* The old lock is deleted and a new one inserted.
CommitUpdate(c) ==
    LET t == tx[c] IN
    /\ t.op = "update"
    /\ t.holds
    /\ booking' = [booking EXCEPT ![t.b] =
            [@ EXCEPT !.slot = t.slot, !.qty = t.qty, !.expires_at = t.expiry]]
    /\ lock' = [lock EXCEPT ![t.b] = NewLock(t, FALSE)]
    /\ Finish(c)
    /\ UNCHANGED <<now, sweep, revived>>

\* Any other error on the way (children not allowed, no exchange rate, refund
\* refused, a lost connection, the API process stopping) ends the request and
\* rolls its transaction back.
Abort(c) ==
    /\ tx[c] # Idle
    /\ Finish(c)
    /\ UNCHANGED <<now, booking, lock, sweep, revived>>

-----------------------------------------------------------------------------
(* Operations on one existing booking *)

\* A status written to a booking the view did not count may count it again.
Revive(b) ==
    revived' = IF b \notin Active(now) /\ Counted(booking'[b], now)
               THEN revived \cup {b} ELSE revived

Consume(b) == lock' = [lock EXCEPT ![b].consumed = TRUE]

\* PATCH :id/confirm.  The row is locked and must be pending; whether it is
\* still within its time to live is not looked at.
ConfirmPending(b) ==
    /\ RowFree(b)
    /\ booking[b].status = "pending"
    /\ booking' = [booking EXCEPT ![b] =
            [@ EXCEPT !.status = "confirmed", !.expires_at = Null]]
    /\ Consume(b)
    /\ Revive(b)
    /\ UNCHANGED <<now, tx, sweep>>

\* PATCH :id/cancel.
CancelPending(b) ==
    /\ RowFree(b)
    /\ booking[b].status = "pending"
    /\ booking' = [booking EXCEPT ![b] =
            [@ EXCEPT !.status = "cancelled", !.expires_at = now]]
    /\ Consume(b)
    /\ UNCHANGED <<now, tx, sweep, revived>>

\* A paid webhook: the status is overwritten whatever it was, and expires_at
\* is left as it is.
ConfirmBookingPayment(b) ==
    /\ RowFree(b)
    /\ Exists(b)
    /\ booking[b].source = "app"
    /\ booking' = [booking EXCEPT ![b].status = "confirmed"]
    /\ Consume(b)
    /\ Revive(b)
    /\ UNCHANGED <<now, tx, sweep>>

\* The reconciliation worker finds a payment the provider has as paid.
ReconcileConfirm(b) ==
    /\ RowFree(b)
    /\ Exists(b)
    /\ booking[b].source = "app"
    /\ booking' = [booking EXCEPT ![b].status = IF @ = "pending" THEN "confirmed" ELSE @]
    /\ Consume(b)
    /\ UNCHANGED <<now, tx, sweep, revived>>

Reading(op, b) ==
    [op |-> op, b |-> b, slot |-> Null, qty |-> 0, key |-> Null,
     began |-> 0, expiry |-> 0, holds |-> FALSE, seen |-> booking[b].status]

\* POST :id/cancel reads the booking without a lock, settles its payment
\* (Abort when the refund is refused), and then overwrites the row.
CancelRead(c, b) ==
    /\ booking[b].status \notin {"absent", "cancelled"}
    /\ Open(c, Reading("cancel", b))

\* Mutation: consumed_at is reset but released_at is not set.
ReleaseWithoutMark(row, seen) ==
    IF seen = "confirmed" THEN [row EXCEPT !.consumed = FALSE]
                          ELSE [row EXCEPT !.released = TRUE]

ReleaseLock(row, seen) ==
    CASE seen = "confirmed" -> [row EXCEPT !.consumed = FALSE, !.released = TRUE]
      [] seen = "pending"   -> [row EXCEPT !.released = @ \/ ~row.consumed]
      [] OTHER              -> [row EXCEPT !.released = TRUE]

CancelWrite(c) ==
    LET b == tx[c].b IN
    /\ tx[c].op = "cancel"
    /\ RowFree(b)
    /\ booking' = [booking EXCEPT ![b].status = "cancelled"]
    /\ lock' = [lock EXCEPT ![b] = ReleaseLock(@, tx[c].seen)]
    /\ Finish(c)
    /\ UNCHANGED <<now, sweep, revived>>

\* markCheckIn: read, then an UPDATE that does not look at the status again.
CheckInRead(c, b) ==
    /\ booking[b].status = "confirmed"
    /\ ~booking[b].checked_in
    /\ Open(c, Reading("checkin", b))

CheckInWrite(c) ==
    LET b == tx[c].b IN
    /\ tx[c].op = "checkin"
    /\ RowFree(b)
    /\ booking' = [booking EXCEPT ![b].checked_in = TRUE]
    /\ Finish(c)
    /\ UNCHANGED <<now, lock, sweep, revived>>

-----------------------------------------------------------------------------
(* The expiry worker: one UPDATE whose subquery picks the rows from its    *)
(* snapshot, then a second statement, in no common transaction.            *)

Stale(row) == row.status = "pending" /\ row.expires_at # Null /\ row.expires_at < now

\* Mutation: expires_at IS NULL for expires_at IS NOT NULL.
NeverStale == {b \in Bookings : booking[b].status = "pending" /\ booking[b].expires_at = Null}

StaleBookings == {b \in Bookings : Stale(booking[b])}

\* ORDER BY expires_at ASC LIMIT BatchSize.
IsBatch(S) ==
    /\ S \subseteq StaleBookings
    /\ Cardinality(S) = IF Cardinality(StaleBookings) < BatchSize
                        THEN Cardinality(StaleBookings) ELSE BatchSize
    /\ \A b \in S, o \in StaleBookings \ S :
            booking[b].expires_at <= booking[o].expires_at

ExpireScan(w) ==
    /\ sweep[w].step = "idle"
    /\ \E S \in SUBSET StaleBookings :
            /\ S # {}
            /\ IsBatch(S)
            /\ sweep' = [sweep EXCEPT ![w] = [step |-> "apply", batch |-> S]]
    /\ UNCHANGED <<now, booking, lock, tx, revived>>

\* The UPDATE waits for the row locks.  Its WHERE only says that the id is one
\* of the picked ids, so a row that changed meanwhile is overwritten.
ExpireApply(w) ==
    LET S == sweep[w].batch IN
    /\ sweep[w].step = "apply"
    /\ \A b \in S : RowFree(b)
    /\ booking' = [b \in Bookings |->
            IF b \in S THEN [booking[b] EXCEPT !.status = "expired", !.expires_at = now]
                       ELSE booking[b]]
    /\ sweep' = [sweep EXCEPT ![w].step = "locks"]
    /\ UNCHANGED <<now, lock, tx, revived>>

ExpireLocks(w) ==
    /\ sweep[w].step = "locks"
    /\ lock' = [b \in Bookings |->
            IF b \in sweep[w].batch THEN [lock[b] EXCEPT !.consumed = TRUE] ELSE lock[b]]
    /\ sweep' = [sweep EXCEPT ![w] = [step |-> "idle", batch |-> {}]]
    /\ UNCHANGED <<now, booking, tx, revived>>

\* The worker stops, or its second statement fails, and it starts over.
WorkerCrash(w) ==
    /\ sweep[w].step = "locks"
    /\ sweep' = [sweep EXCEPT ![w] = [step |-> "idle", batch |-> {}]]
    /\ UNCHANGED <<now, booking, lock, tx, revived>>

Tick ==
    /\ now < MaxTime
    /\ now' = now + 1
    /\ UNCHANGED <<booking, lock, tx, sweep, revived>>

-----------------------------------------------------------------------------

RequestStep(c) ==
    \/ LockSlotCapacity(c) \/ RejectCapacity(c) \/ RejectKey(c)
    \/ CommitCreate(c) \/ CommitAgent(c) \/ CommitUpdate(c)
    \/ CancelWrite(c) \/ CheckInWrite(c)

StartRequest(c) ==
    \E b \in Bookings :
        \/ CancelRead(c, b)
        \/ CheckInRead(c, b)
        \/ \E s \in Slots, q \in Quantities :
              \/ StartUpdate(c, b, s, q)
              \/ StartAgent(c, b, s, q)
              \/ \E k \in Keys \cup {Null} : StartCreate(c, b, s, q, k)

BookingStep(b) ==
    \/ ConfirmPending(b) \/ CancelPending(b)
    \/ ConfirmBookingPayment(b) \/ ReconcileConfirm(b)

WorkerStep(w) ==
    ExpireScan(w) \/ ExpireApply(w) \/ ExpireLocks(w) \/ WorkerCrash(w)

Next ==
    \/ \E c \in Requests : StartRequest(c) \/ RequestStep(c) \/ Abort(c)
    \/ \E b \in Bookings : BookingStep(b)
    \/ \E w \in Workers : WorkerStep(w)
    \/ Tick

Spec == Init /\ [][Next]_vars

(* A request runs to its end; row locks are granted in the order they were *)
(* asked for, so a step that keeps finding its lock free again is taken;   *)
(* the worker's timer fires for ever and the clock moves on.               *)
Fairness ==
    /\ \A c \in Requests : SF_vars(RequestStep(c))
    /\ \A w \in Workers : /\ WF_vars(ExpireScan(w))
                          /\ SF_vars(ExpireApply(w))
                          /\ WF_vars(ExpireLocks(w))
    /\ WF_vars(Tick)

FairSpec == Spec /\ Fairness

-----------------------------------------------------------------------------
(* What must hold *)

\* Every booking the view counts has passed a capacity check, save those that
\* were confirmed while the view did not count them.
Checked == Active(now) \ revived

CheckedSeats(s) == Seats(s, Checked)

(* The seats the capacity view counts in a slot never exceed its capacity, *)
(* leaving out the bookings that were confirmed while the view did not     *)
(* count them.  It is what SELECT ... FOR UPDATE on the slot row in        *)
(* lockSlotCapacity has to ensure between the view's read and the commit.  *)
CapacityRespected ==
    \A s \in Slots : Cardinality(CheckedSeats(s)) <= Capacity[s]

(* A request that is not idle has the booking, slot and party it came with. *)
RequestsWellFormed ==
    \A c \in Requests :
        /\ tx[c].op # "idle" => tx[c].b \in Bookings
        /\ tx[c].op \in Capturing =>
               tx[c].slot \in Slots /\ tx[c].qty \in Quantities /\ tx[c].began <= now
        /\ tx[c].holds => tx[c].op \in Capturing

(* No two requests hold the same slot row.                                 *)
HoldersExclusive ==
    \A c, d \in Requests :
        tx[c].holds /\ tx[d].holds /\ tx[c].slot = tx[d].slot => c = d

(* The room a request found is still there until it commits.               *)
HoldersHaveRoom ==
    \A c \in Requests :
        tx[c].holds =>
            Cardinality(CheckedSeats(tx[c].slot)) + tx[c].qty <= Capacity[tx[c].slot]

(* Why capacity is respected: a request that found room owns the slot row, *)
(* so no other request can commit seats there, and whatever webhooks, the  *)
(* sweep and cancellations do meanwhile, the room is there at the commit.  *)
CapacityInvariant ==
    RequestsWellFormed /\ HoldersExclusive /\ HoldersHaveRoom /\ CapacityRespected

(* The two tables agree: a pending booking has a live lock for its slot    *)
(* and its travellers, a confirmed booking's lock is consumed, a cancelled *)
(* booking's is consumed or released.  Every path writes the two tables    *)
(* with statements of its own, some of them from a stale read.             *)
LockFollowsBooking ==
    \A b \in Bookings :
        /\ booking[b].slot = lock[b].slot
        /\ booking[b].qty = lock[b].quantity
        /\ booking[b].status = "pending" => ~lock[b].consumed /\ ~lock[b].released
        /\ booking[b].status = "confirmed" => lock[b].consumed
        /\ booking[b].status = "cancelled" => lock[b].consumed \/ lock[b].released

(* A booking that left pending, the one state in which a request may still *)
(* change its slot and its travellers, never gets back to it, and keeps    *)
(* both.                                                                   *)
SettledKeepsItsSeats ==
    [][\A b \in Bookings :
          booking[b].status \notin {"absent", "pending"} =>
              /\ booking'[b].status \notin {"absent", "pending"}
              /\ booking'[b].slot = booking[b].slot
              /\ booking'[b].qty = booking[b].qty]_vars

(* Every pending booking past its time to live is eventually expired,      *)
(* cancelled, confirmed or given a new one: the sweep reaches it whatever  *)
(* the batch size.                                                         *)
StaleBookingsSettle ==
    \A b \in Bookings : Stale(booking[b]) ~> ~Stale(booking[b])

(* Every step takes seats for one booking that there is room for, or gives *)
(* back those of some bookings, or neither: the create, update and agent   *)
(* transactions, the sweep, webhooks and cancellations together implement  *)
(* the ledger of SeatLedger.                                               *)
Party(b) == IF b \in Checked THEN [slot |-> booking[b].slot, qty |-> booking[b].qty]
                             ELSE [slot |-> Null, qty |-> 0]

Ledger == INSTANCE SeatLedger WITH party <- [b \in Bookings |-> Party(b)]

ImplementsLedger == Ledger!Spec

(* A booking enters pending, or confirmed by an agent; only while it is    *)
(* pending do its slot and its travellers change; it never gets back to    *)
(* pending; and it is settled one at a time, or a batch at once by the     *)
(* sweep: what the other components rely on, the life of BookingLife.      *)
Place(b) == IF Exists(b) THEN [slot |-> booking[b].slot, qty |-> booking[b].qty] ELSE Null

Life == INSTANCE BookingLife WITH
    status <- [b \in Bookings |-> booking[b].status],
    place <- [b \in Bookings |-> Place(b)],
    Places <- [slot : Slots, qty : Quantities]

ImplementsLife == Life!Spec

-----------------------------------------------------------------------------
(* What the documentation says and the code does not keep *)

Occupying ==
    {b \in Bookings : booking[b].status = "confirmed" \/ b \in Active(now)}

(* "Esta integracion garantiza que no haya sobreventa": the travellers of  *)
(* confirmed and live pending bookings fit the slot.                       *)
NoOversell ==
    \A s \in Slots : Cardinality(Seats(s, Occupying)) <= Capacity[s]

=============================================================================
