------------------------------ MODULE Payments ------------------------------
(***************************************************************************)
(* Payments of bookings: the rows of `payments`, `refunds`,                *)
(* `webhook_events` and `agent_commissions`, PaymentsService, the          *)
(* settlement inside BookingsService.cancelBooking, the reconciliation     *)
(* worker, and, outside the repository, what PayPal and Wompi keep.        *)
(*                                                                         *)
(* A call to a provider is made between two statements of ours, so every   *)
(* operation is a few steps, and what it read before the call may be old   *)
(* when it writes.  A transaction whose writes are together at its end is  *)
(* one step from its last read on: others see nothing of it before.        *)
(***************************************************************************)
EXTENDS Integers, FiniteSets

CONSTANTS
    Bookings,     \* ids of the bookings
    MaxPayments,  \* number of payment rows; ids are in the order of creation
    Wompi,        \* the payments made through Wompi; the others use PayPal
    Orders,       \* ids of PayPal orders and Wompi transactions
    Refunds,      \* ids of refunds
    Calls,        \* requests, webhook deliveries and workers at work at once
    Keys,         \* values of the Idempotency-Key header
    Price,        \* amount_cents of every payment
    Agents,       \* bookings whose agent earns a commission
    Null          \* SQL NULL

Payments == 1 .. MaxPayments
Events == [kind : {"approved", "captured", "declined"}, id : Orders]
              \cup [kind : {"refunded"}, id : Refunds]

ASSUME ConstantsAssumption ==
    /\ MaxPayments \in Nat
    /\ Wompi \subseteq Payments
    /\ IsFiniteSet(Refunds)
    /\ Price \in Nat \ {0}
    /\ Agents \subseteq Bookings
    /\ Null \notin Bookings \cup Payments \cup Orders \cup Refunds \cup Keys \cup Events

VARIABLES
    booking,     \* bookings.status
    payment,     \* the payments table
    refund,      \* the refunds table
    commission,  \* the bookings with a row in agent_commissions
    log,         \* the webhook_events table: the status of each event
    reconciled,  \* payments of a day that has its payment_reconciliations row
    call,        \* what each call is in the middle of
    order,       \* at the providers: orders and transactions
    repaid,      \* at the providers: refunds
    sent,        \* at the providers: events to deliver
    capturing    \* at PayPal: orders it was asked to capture

vars == <<booking, payment, refund, commission, log, reconciled, call,
          order, repaid, sent, capturing>>
tables == <<booking, payment, refund, commission, log, reconciled>>
provider == <<order, repaid, sent, capturing>>

-----------------------------------------------------------------------------
(* Rows and calls *)

BookingStatuses == {"absent", "pending", "confirmed", "cancelled", "expired"}

PaymentStatuses == {"absent", "pending", "authorized", "paid", "failed", "expired", "cancelled"}

NoPayment == [status |-> "absent", booking |-> Null, key |-> Null,
              order |-> Null, capture |-> Null]

PaymentRow == [status : PaymentStatuses, booking : Bookings \cup {Null},
               key : Keys \cup {Null}, order : Orders \cup {Null},
               capture : Orders \cup {Null}]

NoRefund == [status |-> "absent", payment |-> Null, amount |-> 0]

RefundRow == [status : {"absent", "pending", "processed", "failed"},
              payment : Payments \cup {Null}, amount : 0 .. Price]

Idle == [at |-> "idle", b |-> Null, p |-> Null, o |-> Null, e |-> Null, r |-> Null,
         key |-> Null, amount |-> 0, seen |-> "absent", got |-> "absent"]

Steps == {"idle", "insert", "ask", "store", "fail",       \* createPayment
          "register", "apply",                            \* processWebhook
          "refund", "void", "unbind", "cancel", "close",  \* cancelBooking, cancelPayment
          "repay", "record",                              \* createRefund
          "inquire", "correct"}                           \* the reconciliation

Call == [at : Steps, b : Bookings \cup {Null}, p : Payments \cup {Null},
         o : Orders \cup {Null}, e : Events \cup {Null}, r : Refunds \cup {Null},
         key : Keys \cup {Null}, amount : 0 .. Price,
         seen : PaymentStatuses, got : PaymentStatuses \cup {"processed"}]

\* The capture of an order may be held before it is captured or declined; a
\* Wompi transaction that was captured and repaid is reversed.
NoOrder == [state |-> "none", payment |-> Null]
Order == [state : {"none", "created", "approved", "held", "captured", "declined",
                   "voided", "reversed"},
          payment : Payments \cup {Null}]

NotRepaid == [state |-> "none", order |-> Null, amount |-> 0]
Repaid == [state : {"none", "pending", "completed", "failed"},
           order : Orders \cup {Null}, amount : 0 .. Price]

TypeOK ==
    /\ booking \in [Bookings -> BookingStatuses]
    /\ payment \in [Payments -> PaymentRow]
    /\ refund \in [Refunds -> RefundRow]
    /\ commission \subseteq Agents
    /\ log \in [Events -> {"none", "validated", "processed", "ignored"}]
    /\ reconciled \subseteq Payments
    /\ call \in [Calls -> Call]
    /\ order \in [Orders -> Order]
    /\ repaid \in [Refunds -> Repaid]
    /\ sent \subseteq Events
    /\ capturing \subseteq Orders

Init ==
    /\ booking = [b \in Bookings |-> "absent"]
    /\ payment = [p \in Payments |-> NoPayment]
    /\ refund = [r \in Refunds |-> NoRefund]
    /\ commission = {}
    /\ log = [e \in Events |-> "none"]
    /\ reconciled = {}
    /\ call = [c \in Calls |-> Idle]
    /\ order = [o \in Orders |-> NoOrder]
    /\ repaid = [r \in Refunds |-> NotRepaid]
    /\ sent = {}
    /\ capturing = {}

-----------------------------------------------------------------------------

Exists(p) == payment[p].status # "absent"
Goto(c, t) == call' = [call EXCEPT ![c] = t]
Step(c, step) == Goto(c, [call[c] EXCEPT !.at = step])
Finish(c) == Goto(c, Idle)
SetStatus(p, s) == payment' = [payment EXCEPT ![p] = [@ EXCEPT !.status = s]]

\* The next row of the table.
NextPayment(p) == /\ ~Exists(p)
                  /\ \A q \in Payments : q < p => Exists(q)

\* ORDER BY p.created_at DESC LIMIT 1, or none.
IsLatestPayment(p, b) ==
    LET mine == {q \in Payments : Exists(q) /\ payment[q].booking = b} IN
    \/ p = Null /\ mine = {}
    \/ p \in mine /\ \A q \in mine : q <= p

-----------------------------------------------------------------------------
(* createPayment: check, insert, ask the provider, store what it answered. *)
(* The booking is read without a lock.                                     *)

KeyUsed(k) == k # Null /\ \E p \in Payments : Exists(p) /\ payment[p].key = k

\* The unique index on payments.idempotency_key.
KeyTaken(k) == k # Null /\ \E p \in Payments : Exists(p) /\ payment[p].key = k

CheckPayment(c, b, k) ==
    /\ call[c] = Idle
    /\ booking[b] = "pending"
    /\ ~KeyUsed(k)
    /\ \A p \in Payments :
            payment[p].booking = b => payment[p].status \notin {"paid", "authorized"}
    /\ Goto(c, [Idle EXCEPT !.at = "insert", !.b = b, !.key = k])
    /\ UNCHANGED <<tables, provider>>

\* A payment with the key exists: it goes to the provider again, whatever its
\* status and whichever its booking.
RetryPayment(c, b, k, p) ==
    /\ call[c] = Idle
    /\ booking[b] = "pending"
    /\ k # Null
    /\ Exists(p) /\ payment[p].key = k
    /\ Goto(c, [Idle EXCEPT !.at = "ask", !.p = p])
    /\ UNCHANGED <<tables, provider>>

InsertPayment(c, p) ==
    /\ call[c].at = "insert"
    /\ ~KeyTaken(call[c].key)
    /\ NextPayment(p)
    /\ payment' = [payment EXCEPT ![p] =
            [NoPayment EXCEPT !.status = "pending", !.booking = call[c].b, !.key = call[c].key]]
    /\ Goto(c, [Idle EXCEPT !.at = "ask", !.p = p])
    /\ UNCHANGED <<booking, refund, commission, log, reconciled, provider>>

\* The provider makes an order; its answer may get lost on the way.
ProviderCreates(c, o) ==
    /\ call[c].at = "ask"
    /\ order[o] = NoOrder
    /\ order' = [order EXCEPT ![o] = [state |-> "created", payment |-> call[c].p]]
    /\ \/ Goto(c, [call[c] EXCEPT !.at = "store", !.o = o])
       \/ Step(c, "fail")
    /\ UNCHANGED <<tables, repaid, sent, capturing>>

ProviderRefuses(c) ==
    /\ call[c].at = "ask"
    /\ Step(c, "fail")
    /\ UNCHANGED <<tables, provider>>

StoreOrder(c) ==
    /\ call[c].at = "store"
    /\ payment' = [payment EXCEPT ![call[c].p] = [@ EXCEPT !.order = call[c].o]]
    /\ Finish(c)
    /\ UNCHANGED <<booking, refund, commission, log, reconciled, provider>>

MarkFailed(c) ==
    /\ call[c].at = "fail"
    /\ SetStatus(call[c].p, "failed")
    /\ Finish(c)
    /\ UNCHANGED <<booking, refund, commission, log, reconciled, provider>>

-----------------------------------------------------------------------------
(* processWebhook: look the event up, register it, read the payment, then  *)
(* write and commit.                                                       *)

Deliver(c, e) ==
    /\ call[c] = Idle
    /\ e \in sent
    /\ log[e] = "none"
    /\ Goto(c, [Idle EXCEPT !.at = "register", !.e = e])
    /\ UNCHANGED <<tables, provider>>

\* PayPal is found by the order's id, an approval also by the reference in
\* its payload; Wompi by the reference, which is the payment's id.
Finds(e, p) ==
    LET o == e.id IN
    /\ Exists(p)
    /\ \/ p \notin Wompi /\ payment[p].order = o
       \/ p \in Wompi /\ order[o].payment = p
       \/ /\ e.kind = "approved" /\ order[o].payment = p
          /\ \A q \in Payments : payment[q].order # o

\* Mutation: no UNIQUE(provider, provider_event_id).
RegisteredTwice(e) == TRUE

\* UNIQUE(provider, provider_event_id): a second insert waits for the first
\* one's transaction and fails if that committed.
RegisteredOnce(e) ==
    /\ log[e] = "none"
    /\ \A d \in Calls : ~(call[d].at = "apply" /\ call[d].e = e)

Register(c, p) ==
    LET e == call[c].e IN
    /\ call[c].at = "register"
    /\ RegisteredOnce(e)
    /\ e.kind # "refunded"
    /\ \/ p # Null /\ Finds(e, p)
       \/ p = Null /\ \A q \in Payments : ~Finds(e, q)
    /\ Goto(c, [call[c] EXCEPT !.at = "apply", !.p = p,
                    !.seen = IF p = Null THEN "absent" ELSE payment[p].status])
    /\ UNCHANGED <<tables, provider>>

\* mapWompiStatus and validateWebhook of the two providers.
StatusOf(kind) ==
    CASE kind = "approved" -> "authorized"
      [] kind = "captured" -> "paid"
      [] kind = "declined" -> "failed"

\* Mutation: the webhook confirms nothing.
ConfirmNothing(b) == booking' = booking /\ commission' = commission

\* confirmBookingPayment, whatever the booking's status is.  A second
\* commission for the booking would break its unique index.
ConfirmBooking(b) ==
    /\ b \notin commission
    /\ booking' = [booking EXCEPT ![b] = "confirmed"]
    /\ commission' = commission \cup ({b} \cap Agents)

Ignore(c) ==
    /\ call[c].at = "apply"
    /\ call[c].p = Null
    /\ log' = [log EXCEPT ![call[c].e] = "ignored"]
    /\ Finish(c)
    /\ UNCHANGED <<booking, payment, refund, commission, reconciled, provider>>

NoChange(c) ==
    /\ call[c].at = "apply"
    /\ call[c].p # Null
    /\ call[c].seen = StatusOf(call[c].e.kind)
    /\ log' = [log EXCEPT ![call[c].e] = "processed"]
    /\ Finish(c)
    /\ UNCHANGED <<booking, payment, refund, commission, reconciled, provider>>

\* The payment's status becomes the event's, whatever it was; a payment that
\* becomes paid confirms its booking in the same transaction.
Apply(c) ==
    LET e == call[c].e
        p == call[c].p
        new == StatusOf(e.kind)
        capture == IF e.kind = "captured" /\ p \notin Wompi THEN e.id ELSE payment[p].capture
    IN
    /\ call[c].at = "apply"
    /\ p # Null
    /\ call[c].seen # new
    /\ payment' = [payment EXCEPT ![p] = [@ EXCEPT !.status = new, !.capture = capture]]
    /\ IF new = "paid" THEN ConfirmBooking(payment[p].booking)
                       ELSE UNCHANGED <<booking, commission>>
    /\ log' = [log EXCEPT ![e] = "processed"]
    /\ capturing' = IF new = "authorized" THEN capturing \cup {e.id} ELSE capturing
    /\ Finish(c)
    /\ UNCHANGED <<refund, reconciled, order, repaid, sent>>

\* The capture was asked for, then the transaction failed.
CaptureOnly(c) ==
    /\ call[c].at = "apply"
    /\ call[c].p # Null
    /\ call[c].seen # "authorized"
    /\ StatusOf(call[c].e.kind) = "authorized"
    /\ capturing' = capturing \cup {call[c].e.id}
    /\ Finish(c)
    /\ UNCHANGED <<tables, order, repaid, sent>>

\* handleRefundWebhook finds the refund by the provider's id for it, which a
\* refund still in its transaction does not have.  A Wompi event carries no
\* PayPal refund id.  The event stays validated when the refund is found.
RefundWebhook(c) ==
    LET e == call[c].e
        r == e.id
        found == refund[r].status # "absent" /\ refund[r].payment \notin Wompi
    IN
    /\ call[c].at = "register"
    /\ e.kind = "refunded"
    /\ RegisteredOnce(e)
    /\ refund' = IF found THEN [refund EXCEPT ![r] = [@ EXCEPT !.status = "processed"]]
                          ELSE refund
    /\ log' = [log EXCEPT ![e] = IF found THEN "validated" ELSE "ignored"]
    /\ Finish(c)
    /\ UNCHANGED <<booking, payment, commission, reconciled, provider>>

-----------------------------------------------------------------------------
(* cancelBooking reads the booking and its latest payment, settles the     *)
(* payment, and then cancels the booking.                                  *)

CancelBooking(c, b, p) ==
    LET seen == IF p = Null THEN "absent" ELSE payment[p].status IN
    /\ call[c] = Idle
    /\ booking[b] \notin {"absent", "cancelled"}
    /\ IsLatestPayment(p, b)
    /\ Goto(c, [Idle EXCEPT !.b = b, !.p = p, !.seen = seen,
                    !.at = CASE seen = "paid" -> "refund"
                             [] seen \in {"pending", "authorized"} -> "void"
                             [] OTHER -> "close"])
    /\ UNCHANGED <<tables, provider>>

\* cancelPayment reads the payment again.  A refusal is caught and the
\* booking is cancelled all the same.  Only PayPal can be asked to cancel.
CancelPayment(c) ==
    LET p == call[c].p IN
    /\ call[c].at = "void"
    /\ Goto(c, [call[c] EXCEPT !.o = payment[p].order,
                    !.at = CASE payment[p].status \notin {"pending", "authorized"} -> "close"
                             [] p \in Wompi \/ payment[p].order = Null -> "cancel"
                             [] OTHER -> "unbind"])
    /\ UNCHANGED <<tables, provider>>

\* What PayPal calls COMPLETED: it was asked for the capture, whatever became
\* of that.
Completed == {"held", "captured", "declined"}

\* PayPal voids the order, or says that an order of this kind cannot be voided
\* and will expire, which counts as success, or the request fails.  A completed
\* order is refused, and one already voided needs nothing.
ProviderVoids(c) ==
    LET o == call[c].o IN
    /\ call[c].at = "unbind"
    /\ \/ order[o].state \notin Completed /\ Step(c, "cancel") /\ UNCHANGED order
       \/ /\ order[o].state \in {"created", "approved"}
          /\ Step(c, "cancel")
          /\ order' = [order EXCEPT ![o].state = "voided"]
       \/ Step(c, "close") /\ UNCHANGED order
    /\ UNCHANGED <<tables, repaid, sent, capturing>>

WriteCancelled(c) ==
    /\ call[c].at = "cancel"
    /\ SetStatus(call[c].p, "cancelled")
    /\ Step(c, "close")
    /\ UNCHANGED <<booking, refund, commission, log, reconciled, provider>>

CloseBooking(c) ==
    /\ call[c].at = "close"
    /\ booking' = [booking EXCEPT ![call[c].b] = "cancelled"]
    /\ Finish(c)
    /\ UNCHANGED <<payment, refund, commission, log, reconciled, provider>>

-----------------------------------------------------------------------------
(* createRefund and executeRefund: a transaction around the call to the    *)
(* provider, whose row nobody sees before it commits.                      *)

\* The cents of payment p that its refunds with a status in S have taken.
RefundCents(p, S) ==
    {cent \in Refunds \X (1 .. Price) :
        /\ refund[cent[1]].payment = p
        /\ refund[cent[1]].status \in S
        /\ cent[2] <= refund[cent[1]].amount}

Refundable(p, amount) ==
    /\ payment[p].status = "paid"
    /\ p \in Wompi \/ payment[p].capture # Null
    /\ Cardinality(RefundCents(p, {"processed"})) + amount <= Price

\* What the provider is asked to repay: a PayPal capture, a Wompi transaction.
Repayable(p) == IF p \in Wompi THEN payment[p].order ELSE payment[p].capture

FreshRefund(r) ==
    /\ refund[r] = NoRefund /\ repaid[r] = NotRepaid
    /\ \A c \in Calls : call[c].r # r

StartRefund(c, p, amount, r) ==
    /\ call[c] = Idle
    /\ Refundable(p, amount)
    /\ FreshRefund(r)
    /\ Goto(c, [Idle EXCEPT !.at = "repay", !.p = p, !.o = Repayable(p),
                    !.amount = amount, !.r = r])
    /\ UNCHANGED <<tables, provider>>

\* For cancelBooking, of the whole amount.  When it is refused or fails the
\* error ends cancelBooking too.
RefundForCancel(c, r) ==
    /\ call[c].at = "refund"
    /\ Refundable(call[c].p, Price)
    /\ FreshRefund(r)
    /\ Goto(c, [call[c] EXCEPT !.at = "repay", !.o = Repayable(call[c].p),
                    !.amount = Price, !.r = r])
    /\ UNCHANGED <<tables, provider>>

\* The cents of order o that the provider has repaid or is about to.
RepaidCents(o) ==
    {cent \in Refunds \X (1 .. Price) :
        /\ repaid[cent[1]].order = o
        /\ repaid[cent[1]].state \in {"pending", "completed"}
        /\ cent[2] <= repaid[cent[1]].amount}

\* PayPal repays part of a capture, and no more than is left of it; Wompi
\* voids the transaction, whatever the amount.
CanRepay(o, amount) ==
    /\ order[o].state = "captured"
    /\ Cardinality(RepaidCents(o)) + amount <= Price

\* Mutation: PayPal's word for the state goes into the column as it is.
RowStatusUnmapped(state) == state

\* Mutation: a refund that PayPal has accepted counts as done.
RowStatusHasty(state) == IF state = "failed" THEN "failed" ELSE "processed"

RowStatus(state) ==
    CASE state = "completed" -> "processed"
      [] state = "pending" -> "pending"
      [] state = "failed" -> "failed"

\* A refund of a Wompi transaction is a void of it.
Reverse(o) ==
    order' = IF order[o].payment \in Wompi THEN [order EXCEPT ![o].state = "reversed"]
                                           ELSE order

\* The answer may get lost; then the transaction is rolled back.
ProviderRepays(c, state) ==
    LET r == call[c].r
        o == call[c].o
        amount == IF call[c].p \in Wompi THEN Price ELSE call[c].amount
    IN
    /\ call[c].at = "repay"
    /\ o # Null
    /\ state = "failed" \/ CanRepay(o, amount)
    /\ repaid' = [repaid EXCEPT ![r] = [state |-> state, order |-> o, amount |-> amount]]
    /\ IF state = "completed"
       THEN sent' = sent \cup {[kind |-> "refunded", id |-> r]} /\ Reverse(o)
       ELSE UNCHANGED <<sent, order>>
    /\ \/ Goto(c, [call[c] EXCEPT !.at = "record", !.got = RowStatus(state)])
       \/ Finish(c)
    /\ UNCHANGED <<tables, capturing>>

\* Mutation: cancelBooking goes on when the refund is refused.
RefundFailsSoftly(c) ==
    /\ call[c].at \in {"refund", "repay"}
    /\ Goto(c, [call[c] EXCEPT !.at = IF call[c].b = Null THEN "idle" ELSE "close"])
    /\ UNCHANGED <<tables, provider>>

\* The refund is not eligible or the provider refuses it.  The row is marked
\* failed inside the transaction that the error rolls back.
RefundFails(c) ==
    /\ call[c].at \in {"refund", "repay"}
    /\ Finish(c)
    /\ UNCHANGED <<tables, provider>>

RecordRefund(c) ==
    /\ call[c].at = "record"
    /\ refund' = [refund EXCEPT ![call[c].r] =
            [status |-> call[c].got, payment |-> call[c].p, amount |-> call[c].amount]]
    /\ IF call[c].b = Null THEN Finish(c) ELSE Step(c, "close")
    /\ UNCHANGED <<booking, payment, commission, log, reconciled, provider>>

-----------------------------------------------------------------------------
(* The reconciliation worker reads yesterday's payments that are pending   *)
(* or authorized, asks for the status of each, and writes it.  Each payment*)
(* goes through these steps alone, although a day's payments share a       *)
(* transaction.                                                            *)

\* Mutation: an order the payer approved counts as paid.
PayPalStatusHasty(o) ==
    CASE order[o].state \in Completed \cup {"approved"} -> "paid"
      [] order[o].state = "voided" -> "failed"
      [] OTHER -> "pending"

\* getPaymentStatus of PayPal: the status of the order says nothing of its
\* capture.
PayPalStatus(o) ==
    CASE order[o].state = "approved" -> "authorized"
      [] order[o].state \in Completed -> "paid"
      [] order[o].state = "voided" -> "failed"
      [] OTHER -> "pending"

\* getPaymentStatus of Wompi: a transaction that was repaid counts as expired.
WompiStatus(o) ==
    CASE order[o].state = "captured" -> "paid"
      [] order[o].state = "declined" -> "failed"
      [] order[o].state = "reversed" -> "expired"
      [] OTHER -> "pending"

OrderStatus(o) == IF order[o].payment \in Wompi THEN WompiStatus(o) ELSE PayPalStatus(o)

SelectPayment(c, p) ==
    /\ call[c] = Idle
    /\ payment[p].status \in {"pending", "authorized"}
    /\ payment[p].order # Null
    /\ p \notin reconciled
    /\ Goto(c, [Idle EXCEPT !.at = "inquire", !.p = p, !.o = payment[p].order,
                    !.seen = payment[p].status])
    /\ UNCHANGED <<tables, provider>>

\* An error of the provider leaves the payment as it is; its day is done all
\* the same.
Inquire(c) ==
    /\ call[c].at = "inquire"
    /\ \E got \in {OrderStatus(call[c].o), call[c].seen} :
          Goto(c, [call[c] EXCEPT !.at = "correct", !.got = got])
    /\ UNCHANGED <<tables, provider>>

Correct(c) ==
    LET p == call[c].p
        b == payment[p].booking
        differs == call[c].got # call[c].seen
    IN
    /\ call[c].at = "correct"
    /\ payment' = IF differs THEN [payment EXCEPT ![p] = [@ EXCEPT !.status = call[c].got]]
                             ELSE payment
    /\ booking' = IF differs /\ call[c].got = "paid" /\ booking[b] = "pending"
                  THEN [booking EXCEPT ![b] = "confirmed"] ELSE booking
    /\ reconciled' = reconciled \cup {p}
    /\ Finish(c)
    /\ UNCHANGED <<refund, commission, log, provider>>

-----------------------------------------------------------------------------
(* Everything else *)

\* An error or a crash: what is not committed is rolled back.  It also ends a
\* payment request refused by the unique index, a webhook that is a duplicate
\* and one whose second commission is refused.
Abort(c) ==
    /\ call[c] # Idle
    /\ Finish(c)
    /\ UNCHANGED <<tables, provider>>

\* The bookings as the rest of the system sees them; payments do not look at
\* what a booking is for.
Life == INSTANCE BookingLife WITH
    status <- booking, place <- [b \in Bookings |-> Null], Places <- {Null}

\* What the booking core does without a payment: bookings are made, decided by
\* their owner, and expired by the sweep, whose read may be old.
BookingMoves ==
    /\ Life!Alone
    /\ UNCHANGED <<payment, refund, commission, log, reconciled, call, provider>>

Move(o, from, to, kind) ==
    /\ order[o].state = from
    /\ order' = [order EXCEPT ![o].state = to]
    /\ sent' = sent \cup {[kind |-> kind, id |-> o]}
    /\ UNCHANGED <<tables, call, repaid, capturing>>

\* No event says that a capture is held which the webhook knows.
HoldCapture(o) ==
    /\ o \in capturing
    /\ order[o].state = "approved"
    /\ order' = [order EXCEPT ![o].state = "held"]
    /\ UNCHANGED <<tables, call, repaid, sent, capturing>>

\* The payer approves a PayPal order, which we then have to capture; a Wompi
\* transaction is approved or declined at once.
ProviderMoves(o) ==
    \/ order[o].payment \notin Wompi /\ Move(o, "created", "approved", "approved")
    \/ order[o].payment \in Wompi /\ Move(o, "created", "captured", "captured")
    \/ order[o].payment \in Wompi /\ Move(o, "created", "declined", "declined")
    \/ o \in capturing /\ Move(o, "approved", "captured", "captured")
    \/ o \in capturing /\ Move(o, "approved", "declined", "declined")
    \/ Move(o, "held", "captured", "captured")
    \/ Move(o, "held", "declined", "declined")
    \/ HoldCapture(o)

RefundEnds(r) ==
    /\ repaid[r].state = "pending"
    /\ \/ /\ repaid' = [repaid EXCEPT ![r].state = "completed"]
          /\ sent' = sent \cup {[kind |-> "refunded", id |-> r]}
          /\ Reverse(repaid[r].order)
       \/ /\ repaid' = [repaid EXCEPT ![r].state = "failed"]
          /\ UNCHANGED <<sent, order>>
    /\ UNCHANGED <<tables, call, capturing>>

PaymentStep(c) ==
    \/ \E b \in Bookings, k \in Keys \cup {Null} :
          CheckPayment(c, b, k) \/ \E p \in Payments : RetryPayment(c, b, k, p)
    \/ \E p \in Payments : InsertPayment(c, p)
    \/ \E o \in Orders : ProviderCreates(c, o)
    \/ ProviderRefuses(c) \/ StoreOrder(c) \/ MarkFailed(c)

WebhookStep(c) ==
    \/ \E e \in Events : Deliver(c, e)
    \/ \E p \in Payments \cup {Null} : Register(c, p)
    \/ Ignore(c) \/ NoChange(c) \/ Apply(c) \/ CaptureOnly(c) \/ RefundWebhook(c)

CancelStep(c) ==
    \/ \E b \in Bookings, p \in Payments \cup {Null} : CancelBooking(c, b, p)
    \/ CancelPayment(c) \/ ProviderVoids(c) \/ WriteCancelled(c) \/ CloseBooking(c)

RefundStep(c) ==
    \/ \E p \in Payments, amount \in 1 .. Price, r \in Refunds : StartRefund(c, p, amount, r)
    \/ \E r \in Refunds : RefundForCancel(c, r)
    \/ \E state \in {"pending", "completed", "failed"} : ProviderRepays(c, state)
    \/ RefundFails(c) \/ RecordRefund(c)

ReconcileStep(c) ==
    \/ \E p \in Payments : SelectPayment(c, p)
    \/ Inquire(c) \/ Correct(c)

Next ==
    \/ \E c \in Calls :
          \/ PaymentStep(c) \/ WebhookStep(c) \/ CancelStep(c)
          \/ RefundStep(c) \/ ReconcileStep(c) \/ Abort(c)
    \/ BookingMoves
    \/ \E o \in Orders : ProviderMoves(o)
    \/ \E r \in Refunds : RefundEnds(r)

Spec == Init /\ [][Next]_vars

-----------------------------------------------------------------------------
(* What must hold *)

(* A payment that says paid was collected: the provider has captured an    *)
(* order of that payment, whichever of webhook and reconciliation wrote it *)
(* and however late.  The one exception is a PayPal payment that the       *)
(* reconciliation has been at: it takes a completed order for a payment,   *)
(* although its capture may be held or declined.                           *)
PaidWasCollected ==
    \A p \in Payments :
        payment[p].status = "paid" =>
            \E o \in Orders :
                /\ order[o].payment = p
                /\ \/ order[o].state \in {"captured", "reversed"}
                   \/ p \in reconciled \ Wompi /\ order[o].state \in Completed

(* A booking with a paid payment is not pending any more: the webhook and  *)
(* the reconciliation confirm it in the transaction that marks the payment.*)
PaidBookingLeftPending ==
    \A p \in Payments : payment[p].status = "paid" => booking[payment[p].booking] # "pending"

(* An event is applied by one delivery at a time, and by none once it is   *)
(* in webhook_events, although several deliveries pass the first look-up.  *)
EventAppliedOnce ==
    \A c \in Calls :
        call[c].at = "apply" =>
            /\ log[call[c].e] = "none"
            /\ \A d \in Calls \ {c} : call[d].at = "apply" => call[d].e # call[c].e

(* A refund row says no more than what the provider did: a pending refund  *)
(* is known to the provider and a processed one was completed, for the     *)
(* payment's own order.                                                    *)
RefundRowsAreBacked ==
    \A r \in Refunds :
        /\ refund[r].status = "pending" => repaid[r].state # "none"
        /\ refund[r].status = "processed" => repaid[r].state = "completed"
        /\ refund[r].status # "absent" /\ repaid[r].order # Null =>
               order[repaid[r].order].payment = refund[r].payment

(* cancelBooking, when it found the payment paid, closes the booking only  *)
(* after the refund is on record: an error of the refund is its own error. *)
(* docs/REFUND_IMPLEMENTATION.md (83-87, 489-491, 509, 519) wants it       *)
(* otherwise: the booking is to be cancelled even if the refund fails.     *)
ClosedAfterRefund ==
    \A c \in Calls :
        call[c].at = "close" /\ call[c].seen = "paid" =>
            \E r \in Refunds : refund[r].payment = call[c].p

-----------------------------------------------------------------------------
(* What the documentation says and the code does not keep *)

(* cancelBooking cancels the payment before the booking, and "this ensures *)
(* the user is not charged later for a cancelled booking".                 *)
NotChargedAfterCancel ==
    [][\A o \in Orders :
          order[o].state # "captured" /\ order'[o].state = "captured" =>
              LET p == order[o].payment IN
              ~(payment[p].status = "cancelled" /\ booking[payment[p].booking] = "cancelled")]_vars

=============================================================================
