-------------------------- MODULE PaymentsProofs --------------------------
(***************************************************************************)
(* Proofs about Payments for any number of bookings, payments, orders,     *)
(* refunds and calls: the tables keep their types, a payment that says     *)
(* paid was collected, and its booking is not pending any more; an event   *)
(* is applied once; a refund row says what the provider did, and a booking *)
(* whose payment was paid is closed after its refund.                      *)
(***************************************************************************)
EXTENDS Payments, TLAPS

-----------------------------------------------------------------------------
(* What a call carries in each of its steps. *)

OfAPayment == {"ask", "store", "fail", "refund", "void", "unbind", "cancel",
               "repay", "record", "inquire", "correct"}

CarriesItsIds(t) ==
    /\ t.at \in OfAPayment => t.p \in Payments
    /\ t.at \in {"register", "apply"} => t.e \in Events
    /\ t.at = "apply" => t.e.kind # "refunded"
    /\ t.at \in {"repay", "record"} => t.r \in Refunds
    /\ t.at = "record" => t.got \in {"pending", "processed", "failed"}
    /\ t.at = "inquire" => t.seen \in {"pending", "authorized"}
    /\ t.at = "correct" => t.got \in PaymentStatuses \ {"absent"}

CallsCarryIds == \A c \in Calls : CarriesItsIds(call[c])

TypeInvariant == TypeOK /\ CallsCarryIds

(* A call that goes to a well-formed step leaves all calls well formed.    *)
LEMMA GotoTyped ==
    ASSUME TypeInvariant, NEW c \in Calls, NEW t \in Call, CarriesItsIds(t), Goto(c, t)
    PROVE  call' \in [Calls -> Call] /\ CallsCarryIds'
<1>1. call \in [Calls -> Call] /\ call' = [call EXCEPT ![c] = t]
  BY DEF TypeInvariant, TypeOK, Goto
<1>2. ASSUME NEW d \in Calls PROVE call'[d] = t \/ call'[d] = call[d]
  BY <1>1
<1> QED
  BY <1>1, <1>2 DEF TypeInvariant, CallsCarryIds, CarriesItsIds

(* A call that is not at work is well formed.                              *)
LEMMA IdleTyped == Idle \in Call /\ CarriesItsIds(Idle)
BY ConstantsAssumption DEF Idle, Call, CarriesItsIds, OfAPayment, Steps, PaymentStatuses

(* A call that ends leaves all calls well formed.                          *)
LEMMA FinishTyped ==
    ASSUME TypeInvariant, NEW c \in Calls, Finish(c)
    PROVE  call' \in [Calls -> Call] /\ CallsCarryIds'
BY IdleTyped, GotoTyped DEF Finish

(* A call keeps its type when one of its fields changes within its own.    *)
LEMMA CallTyped ==
    \A t \in Call :
        /\ \A s \in Steps : [t EXCEPT !.at = s] \in Call
        /\ \A b \in Bookings \cup {Null} : [t EXCEPT !.b = b] \in Call
        /\ \A p \in Payments \cup {Null} : [t EXCEPT !.p = p] \in Call
        /\ \A o \in Orders \cup {Null} : [t EXCEPT !.o = o] \in Call
        /\ \A e \in Events \cup {Null} : [t EXCEPT !.e = e] \in Call
        /\ \A r \in Refunds \cup {Null} : [t EXCEPT !.r = r] \in Call
        /\ \A k \in Keys \cup {Null} : [t EXCEPT !.key = k] \in Call
        /\ \A n \in 0 .. Price : [t EXCEPT !.amount = n] \in Call
        /\ \A s \in PaymentStatuses : [t EXCEPT !.seen = s] \in Call
        /\ \A s \in PaymentStatuses \cup {"processed"} : [t EXCEPT !.got = s] \in Call
BY DEF Call

(* A call that only moves to its next step keeps its type and its payment. *)
LEMMA StepTyped ==
    ASSUME NEW t \in Call, NEW s \in Steps
    PROVE  /\ [t EXCEPT !.at = s] \in Call
           /\ [t EXCEPT !.at = s].at = s
           /\ [t EXCEPT !.at = s].p = t.p
BY DEF Call

(* A row of payments that changes within its type.                         *)
LEMMA PaymentTyped ==
    ASSUME TypeInvariant, NEW p, NEW row, p \in Payments => row \in PaymentRow,
           payment' = [payment EXCEPT ![p] = row]
    PROVE  payment' \in [Payments -> PaymentRow]
BY DEF TypeInvariant, TypeOK

(* SetStatus keeps the type of the payments table.                         *)
LEMMA StatusTyped ==
    ASSUME TypeInvariant, NEW p, NEW s \in PaymentStatuses, SetStatus(p, s)
    PROVE  payment' \in [Payments -> PaymentRow]
<1>1. payment \in [Payments -> PaymentRow]
  BY DEF TypeInvariant, TypeOK
<1>2. payment' = [payment EXCEPT ![p] = [payment[p] EXCEPT !.status = s]]
  BY DEF SetStatus
<1>3. p \in Payments => [payment[p] EXCEPT !.status = s] \in PaymentRow
  BY <1>1 DEF PaymentRow
<1> QED
  BY <1>2, <1>3, PaymentTyped

(* A refund of a Wompi transaction reverses it, and nothing else moves.    *)
LEMMA ReverseMoves ==
    ASSUME order \in [Orders -> Order], NEW o, Reverse(o) \/ UNCHANGED order
    PROVE  /\ order' \in [Orders -> Order]
           /\ \A q \in Orders :
                 /\ order'[q].payment = order[q].payment
                 /\ \/ order'[q].state = order[q].state
                    \/ order[q].payment \in Wompi /\ order'[q].state = "reversed"
<1>1. CASE order' = order
  BY <1>1
<1>2. CASE /\ order[o].payment \in Wompi
           /\ order' = [order EXCEPT ![o] = [order[o] EXCEPT !.state = "reversed"]]
  <2>1. \A q \in Orders : [order[q] EXCEPT !.state = "reversed"] \in Order
    BY DEF Order
  <2>2. \A q \in Orders :
           order'[q] = IF q = o THEN [order[q] EXCEPT !.state = "reversed"] ELSE order[q]
    BY <1>2
  <2>3. \A q \in Orders : order[q] \in Order
    OBVIOUS
  <2> QED
    BY <1>2, <2>1, <2>2, <2>3 DEF Order
<1> QED
  BY <1>1, <1>2 DEF Reverse

-----------------------------------------------------------------------------
(* Type correctness, one lemma for each group of operations. *)

(* A step of createPayment keeps the types.                                *)
LEMMA TypePayment ==
    ASSUME TypeInvariant, NEW c \in Calls, PaymentStep(c)
    PROVE  TypeInvariant'
<1>1. call[c] \in Call /\ Idle \in Call
  BY IdleTyped DEF TypeInvariant, TypeOK
<1>2a. call[c].at \in OfAPayment => call[c].p \in Payments
  BY DEF TypeInvariant, CallsCarryIds, CarriesItsIds
<1>2. ASSUME NEW b \in Bookings, NEW k \in Keys \cup {Null}, CheckPayment(c, b, k)
      PROVE  TypeInvariant'
  <2> DEFINE t == [Idle EXCEPT !.at = "insert", !.b = b, !.key = k]
  <2>1. t \in Call
    BY <1>1, CallTyped DEF Steps
  <2>2. CarriesItsIds(t)
    BY DEF CarriesItsIds, OfAPayment, Idle
  <2>3. call' \in [Calls -> Call] /\ CallsCarryIds'
    BY <1>2, <2>1, <2>2, GotoTyped DEF CheckPayment
  <2> QED
    BY <1>2, <2>3 DEF CheckPayment, TypeInvariant, TypeOK, tables, provider
<1>3. ASSUME NEW b \in Bookings, NEW k \in Keys \cup {Null}, NEW p \in Payments,
             RetryPayment(c, b, k, p)
      PROVE  TypeInvariant'
  <2> DEFINE t == [Idle EXCEPT !.at = "ask", !.p = p]
  <2>1. t \in Call /\ CarriesItsIds(t)
    <3>1. t \in Call
      BY <1>1, CallTyped DEF Steps
    <3>2. t.at = "ask" /\ t.p = p
      BY DEF Idle
    <3> QED
      BY <3>1, <3>2 DEF CarriesItsIds, OfAPayment
  <2>2. call' \in [Calls -> Call] /\ CallsCarryIds'
    BY <1>3, <2>1, GotoTyped DEF RetryPayment
  <2> QED
    BY <1>3, <2>2 DEF RetryPayment, TypeInvariant, TypeOK, tables, provider
<1>4. ASSUME NEW p \in Payments, InsertPayment(c, p) PROVE TypeInvariant'
  <2> DEFINE t == [Idle EXCEPT !.at = "ask", !.p = p]
             row == [NoPayment EXCEPT !.status = "pending", !.booking = call[c].b,
                                      !.key = call[c].key]
  <2>1. t \in Call /\ CarriesItsIds(t)
    <3>1. t \in Call
      BY <1>1, CallTyped DEF Steps
    <3>2. t.at = "ask" /\ t.p = p
      BY DEF Idle
    <3> QED
      BY <3>1, <3>2 DEF CarriesItsIds, OfAPayment
  <2>2. row \in PaymentRow
    BY <1>1 DEF Call, PaymentRow, NoPayment, PaymentStatuses
  <2>3. payment' \in [Payments -> PaymentRow]
    BY <1>4, <2>2, PaymentTyped DEF InsertPayment
  <2>4. call' \in [Calls -> Call] /\ CallsCarryIds'
    BY <1>4, <2>1, GotoTyped DEF InsertPayment
  <2> QED
    BY <1>4, <2>3, <2>4 DEF InsertPayment, TypeInvariant, TypeOK, provider
<1>5. ASSUME NEW o \in Orders, ProviderCreates(c, o) PROVE TypeInvariant'
  <2> DEFINE t == [call[c] EXCEPT !.at = "store", !.o = o]
             u == [call[c] EXCEPT !.at = "fail"]
  <2>1. t \in Call /\ CarriesItsIds(t)
    <3>1. t.at = "store" /\ t.p = call[c].p
      BY <1>1 DEF Call
    <3>2. t \in Call
      BY <1>1 DEF Call, Steps
    <3> QED
      BY <1>5, <1>2a, <3>1, <3>2 DEF ProviderCreates, CarriesItsIds, OfAPayment
  <2>2. u \in Call /\ CarriesItsIds(u)
    <3>1. "fail" \in Steps
      BY DEF Steps
    <3>2. u \in Call /\ u.at = "fail" /\ u.p = call[c].p
      BY <1>1, <3>1, StepTyped
    <3> QED
      BY <1>2a, <1>5, <3>2 DEF ProviderCreates, CarriesItsIds, OfAPayment
  <2>3. call' \in [Calls -> Call] /\ CallsCarryIds'
    BY <1>5, <2>1, <2>2, GotoTyped DEF ProviderCreates, Step
  <2>4. [state |-> "created", payment |-> call[c].p] \in Order
    BY <1>1 DEF Call, Order
  <2>5. order' \in [Orders -> Order]
    BY <1>5, <2>4 DEF ProviderCreates, TypeInvariant, TypeOK
  <2> QED
    BY <1>5, <2>3, <2>5 DEF ProviderCreates, TypeInvariant, TypeOK, tables
<1>6. CASE ProviderRefuses(c)
  <2> DEFINE u == [call[c] EXCEPT !.at = "fail"]
  <2>1. u \in Call /\ CarriesItsIds(u)
    <3>1. "fail" \in Steps
      BY DEF Steps
    <3>2. u \in Call /\ u.at = "fail" /\ u.p = call[c].p
      BY <1>1, <3>1, StepTyped
    <3> QED
      BY <1>2a, <1>6, <3>2 DEF ProviderRefuses, CarriesItsIds, OfAPayment
  <2>2. call' \in [Calls -> Call] /\ CallsCarryIds'
    BY <1>6, <2>1, GotoTyped DEF ProviderRefuses, Step
  <2> QED
    BY <1>6, <2>2 DEF ProviderRefuses, TypeInvariant, TypeOK, tables, provider
<1>7. CASE StoreOrder(c)
  <2> DEFINE p == call[c].p
  <2>1. p \in Payments => [payment[p] EXCEPT !.order = call[c].o] \in PaymentRow
    <3>1. call[c].o \in Orders \cup {Null}
      BY <1>1 DEF Call
    <3>2. p \in Payments => payment[p] \in PaymentRow
      BY DEF TypeInvariant, TypeOK
    <3> QED
      BY <3>1, <3>2 DEF PaymentRow
  <2>2. payment' \in [Payments -> PaymentRow]
    BY <1>7, <2>1, PaymentTyped DEF StoreOrder
  <2> QED
    BY <1>7, <2>2, FinishTyped DEF StoreOrder, TypeInvariant, TypeOK, provider
<1>8. CASE MarkFailed(c)
  <2>1. payment' \in [Payments -> PaymentRow]
    BY <1>8, StatusTyped DEF MarkFailed, PaymentStatuses
  <2> QED
    BY <1>8, <2>1, FinishTyped DEF MarkFailed, TypeInvariant, TypeOK, provider
<1> QED
  BY <1>2, <1>3, <1>4, <1>5, <1>6, <1>7, <1>8 DEF PaymentStep

(* A step of processWebhook keeps the types.                               *)
LEMMA TypeWebhook ==
    ASSUME TypeInvariant, NEW c \in Calls, WebhookStep(c)
    PROVE  TypeInvariant'
<1> DEFINE e == call[c].e
           p == call[c].p
<1>1. call[c] \in Call /\ Idle \in Call
  BY IdleTyped DEF TypeInvariant, TypeOK
<1>2. ASSUME NEW d \in Events, Deliver(c, d) PROVE TypeInvariant'
  <2> DEFINE t == [Idle EXCEPT !.at = "register", !.e = d]
  <2>1. t \in Call /\ CarriesItsIds(t)
    <3>1. t \in Call
      BY <1>1, CallTyped DEF Steps
    <3>2. t.at = "register"
      BY DEF Idle
    <3> QED
      BY <3>1, <3>2 DEF CarriesItsIds, OfAPayment
  <2>2. call' \in [Calls -> Call] /\ CallsCarryIds'
    BY <1>2, <2>1, GotoTyped DEF Deliver
  <2> QED
    BY <1>2, <2>2 DEF Deliver, TypeInvariant, TypeOK, tables, provider
<1>3. ASSUME NEW q \in Payments \cup {Null}, Register(c, q) PROVE TypeInvariant'
  <2> DEFINE seen == IF q = Null THEN "absent" ELSE payment[q].status
             t == [call[c] EXCEPT !.at = "apply", !.p = q, !.seen = seen]
  <2>1. seen \in PaymentStatuses
    BY DEF TypeInvariant, TypeOK, PaymentRow, PaymentStatuses
  <2>2. call[c].e \in Events /\ call[c].e.kind # "refunded"
    BY <1>3 DEF Register, TypeInvariant, CallsCarryIds, CarriesItsIds
  <2>3. t \in Call /\ CarriesItsIds(t)
    <3> HIDE DEF seen
    <3>1. t \in Call
      BY <1>1, <2>1, CallTyped DEF Steps
    <3>2. t.e = call[c].e /\ t.at = "apply"
      BY <1>1 DEF Call
    <3> QED
      BY <2>2, <3>1, <3>2 DEF CarriesItsIds, OfAPayment
  <2>4. call' \in [Calls -> Call] /\ CallsCarryIds'
    BY <1>3, <2>3, GotoTyped DEF Register
  <2> QED
    BY <1>3, <2>4 DEF Register, TypeInvariant, TypeOK, tables, provider
<1>4. CASE Ignore(c) \/ NoChange(c)
  <2>1. log' \in [Events -> {"none", "validated", "processed", "ignored"}]
    BY <1>4 DEF Ignore, NoChange, TypeInvariant, TypeOK
  <2> QED
    BY <1>4, <2>1, FinishTyped DEF Ignore, NoChange, TypeInvariant, TypeOK, provider
<1>5. call[c].at = "apply" => /\ e \in Events
                              /\ e.id \in Orders
                              /\ StatusOf(e.kind) \in {"authorized", "paid", "failed"}
  <2>1. call[c].at = "apply" => e \in Events /\ e.kind # "refunded"
    BY DEF TypeInvariant, CallsCarryIds, CarriesItsIds
  <2> QED
    BY <2>1 DEF Events, StatusOf
<1>6. CASE Apply(c)
  <2> DEFINE new == StatusOf(e.kind)
             capture == IF e.kind = "captured" /\ p \notin Wompi
                        THEN e.id ELSE payment[p].capture
             row == [payment[p] EXCEPT !.status = new, !.capture = capture]
  <2>1. new \in PaymentStatuses /\ e.id \in Orders
    BY <1>5, <1>6 DEF Apply, PaymentStatuses
  <2>2. p \in Payments => row \in PaymentRow
    <3>1. p \in Payments => payment[p] \in PaymentRow
      BY DEF TypeInvariant, TypeOK
    <3>2. p \in Payments => capture \in Orders \cup {Null}
      BY <2>1, <3>1 DEF PaymentRow
    <3> HIDE DEF new, capture
    <3> QED
      BY <2>1, <3>1, <3>2 DEF PaymentRow
  <2>3. payment' = [payment EXCEPT ![p] = row]
    BY <1>6 DEF Apply
  <2>4. payment' \in [Payments -> PaymentRow]
    <3> HIDE DEF row
    <3> QED
      BY <2>2, <2>3, PaymentTyped
  <2>5. /\ booking' \in [Bookings -> BookingStatuses]
        /\ commission' \subseteq Agents
    BY <1>6 DEF Apply, ConfirmBooking, TypeInvariant, TypeOK, BookingStatuses
  <2>6. /\ log' \in [Events -> {"none", "validated", "processed", "ignored"}]
        /\ capturing' \subseteq Orders
    BY <1>6, <2>1 DEF Apply, TypeInvariant, TypeOK
  <2>7. Finish(c) /\ UNCHANGED <<refund, reconciled, order, repaid, sent>>
    BY <1>6 DEF Apply
  <2> QED
    BY <2>4, <2>5, <2>6, <2>7, FinishTyped DEF TypeInvariant, TypeOK
<1>7. CASE CaptureOnly(c)
  <2>1. capturing' \subseteq Orders
    BY <1>5, <1>7 DEF CaptureOnly, TypeInvariant, TypeOK
  <2> QED
    BY <1>7, <2>1, FinishTyped DEF CaptureOnly, TypeInvariant, TypeOK, tables
<1>8. CASE RefundWebhook(c)
  <2>1. e \in Events /\ e.kind = "refunded"
    BY <1>8 DEF RefundWebhook, TypeInvariant, CallsCarryIds, CarriesItsIds
  <2>2. e.id \in Refunds
    BY <2>1 DEF Events
  <2>3. [refund[e.id] EXCEPT !.status = "processed"] \in RefundRow
    BY <2>2 DEF TypeInvariant, TypeOK, RefundRow
  <2>4. refund' \in [Refunds -> RefundRow]
    BY <1>8, <2>2, <2>3 DEF RefundWebhook, TypeInvariant, TypeOK
  <2>5. log' \in [Events -> {"none", "validated", "processed", "ignored"}]
    BY <1>8 DEF RefundWebhook, TypeInvariant, TypeOK
  <2>6. Finish(c) /\ UNCHANGED <<booking, payment, commission, reconciled, provider>>
    BY <1>8 DEF RefundWebhook
  <2> QED
    BY <2>4, <2>5, <2>6, FinishTyped DEF TypeInvariant, TypeOK, provider
<1> QED
  BY <1>2, <1>3, <1>4, <1>6, <1>7, <1>8 DEF WebhookStep

(* A step of cancelBooking and cancelPayment keeps the types.              *)
LEMMA TypeCancel ==
    ASSUME TypeInvariant, NEW c \in Calls, CancelStep(c)
    PROVE  TypeInvariant'
<1>1. call[c] \in Call /\ Idle \in Call
  BY IdleTyped DEF TypeInvariant, TypeOK
<1>2a. call[c].at \in OfAPayment => call[c].p \in Payments
  BY DEF TypeInvariant, CallsCarryIds, CarriesItsIds
<1>2. ASSUME NEW b \in Bookings, NEW p \in Payments \cup {Null}, CancelBooking(c, b, p)
      PROVE  TypeInvariant'
  <2> DEFINE seen == IF p = Null THEN "absent" ELSE payment[p].status
             step == CASE seen = "paid" -> "refund"
                       [] seen \in {"pending", "authorized"} -> "void"
                       [] OTHER -> "close"
             t == [Idle EXCEPT !.b = b, !.p = p, !.seen = seen, !.at = step]
  <2>1. seen \in PaymentStatuses
    BY DEF TypeInvariant, TypeOK, PaymentRow, PaymentStatuses
  <2>2. /\ step \in {"refund", "void", "close"}
        /\ step # "close" => p \in Payments
    OBVIOUS
  <2>3. t \in Call /\ CarriesItsIds(t)
    <3> HIDE DEF seen, step
    <3>1. t \in Call
      BY <1>1, <2>1, <2>2, CallTyped DEF Steps
    <3>2. t.at = step /\ t.p = p
      BY <1>1 DEF Idle
    <3> QED
      BY <2>2, <3>1, <3>2 DEF CarriesItsIds, OfAPayment
  <2>4. call' \in [Calls -> Call] /\ CallsCarryIds'
    BY <1>2, <2>3, GotoTyped DEF CancelBooking
  <2> QED
    BY <1>2, <2>4 DEF CancelBooking, TypeInvariant, TypeOK, tables, provider
<1>3. CASE CancelPayment(c)
  <2> DEFINE p == call[c].p
             step == CASE payment[p].status \notin {"pending", "authorized"} -> "close"
                       [] p \in Wompi \/ payment[p].order = Null -> "cancel"
                       [] OTHER -> "unbind"
             t == [call[c] EXCEPT !.o = payment[p].order, !.at = step]
  <2>1. payment[p].order \in Orders \cup {Null}
    BY <1>3, <1>2a DEF CancelPayment, OfAPayment, TypeInvariant, TypeOK, PaymentRow
  <2>2. step \in {"close", "cancel", "unbind"}
    OBVIOUS
  <2>3. t \in Call /\ CarriesItsIds(t)
    <3> HIDE DEF step
    <3>1. t \in Call
      BY <1>1, <2>1, <2>2, CallTyped DEF Steps
    <3>2. t.at = step /\ t.p = p
      BY <1>1 DEF Call
    <3> QED
      BY <1>2a, <1>3, <2>2, <3>1, <3>2 DEF CancelPayment, CarriesItsIds, OfAPayment
  <2>4. call' \in [Calls -> Call] /\ CallsCarryIds'
    BY <1>3, <2>3, GotoTyped DEF CancelPayment
  <2> QED
    BY <1>3, <2>4 DEF CancelPayment, TypeInvariant, TypeOK, tables, provider
<1>4. CASE ProviderVoids(c)
  <2>1. \E s \in {"cancel", "close"} : Step(c, s)
    BY <1>4 DEF ProviderVoids
  <2>2. call' \in [Calls -> Call] /\ CallsCarryIds'
    <3>1. PICK s \in {"cancel", "close"} : Step(c, s)
      BY <2>1
    <3> DEFINE t == [call[c] EXCEPT !.at = s]
    <3>2. t \in Call /\ t.at = s /\ t.p = call[c].p
      <4>1. s \in Steps
        BY DEF Steps
      <4> QED
        BY <1>1, <4>1, StepTyped
    <3>3. Goto(c, t)
      BY <3>1 DEF Step
    <3> HIDE DEF t
    <3>4. CarriesItsIds(t)
      BY <1>2a, <1>4, <3>1, <3>2 DEF ProviderVoids, CarriesItsIds, OfAPayment
    <3> QED
      BY <3>2, <3>3, <3>4, GotoTyped
  <2>3. ASSUME NEW o \in Orders PROVE [order[o] EXCEPT !.state = "voided"] \in Order
    BY DEF TypeInvariant, TypeOK, Order
  <2>4. order' \in [Orders -> Order]
    BY <1>4, <2>3 DEF ProviderVoids, TypeInvariant, TypeOK
  <2> QED
    BY <1>4, <2>2, <2>4 DEF ProviderVoids, TypeInvariant, TypeOK, tables
<1>5. CASE WriteCancelled(c)
  <2>1. call' \in [Calls -> Call] /\ CallsCarryIds'
    BY <1>1, <1>5, StepTyped, GotoTyped
       DEF WriteCancelled, Step, CarriesItsIds, OfAPayment, Steps
  <2>2. payment' \in [Payments -> PaymentRow]
    BY <1>5, StatusTyped DEF WriteCancelled, PaymentStatuses
  <2> QED
    BY <1>5, <2>1, <2>2 DEF WriteCancelled, TypeInvariant, TypeOK, provider
<1>6. CASE CloseBooking(c)
  <2>1. booking' \in [Bookings -> BookingStatuses]
    BY <1>6 DEF CloseBooking, TypeInvariant, TypeOK, BookingStatuses
  <2> QED
    BY <1>6, <2>1, FinishTyped DEF CloseBooking, TypeInvariant, TypeOK, provider
<1> QED
  BY <1>2, <1>3, <1>4, <1>5, <1>6 DEF CancelStep

(* A step of createRefund keeps the types.                                 *)
LEMMA TypeRefund ==
    ASSUME TypeInvariant, NEW c \in Calls, RefundStep(c)
    PROVE  TypeInvariant'
<1>1. call[c] \in Call /\ Idle \in Call
  BY IdleTyped DEF TypeInvariant, TypeOK
<1>2a. call[c].at \in OfAPayment => call[c].p \in Payments
  BY DEF TypeInvariant, CallsCarryIds, CarriesItsIds
<1>2. ASSUME NEW p \in Payments PROVE Repayable(p) \in Orders \cup {Null}
  BY DEF Repayable, TypeInvariant, TypeOK, PaymentRow
<1>3. ASSUME NEW p \in Payments, NEW amount \in 1 .. Price, NEW r \in Refunds,
             StartRefund(c, p, amount, r)
      PROVE  TypeInvariant'
  <2> DEFINE t == [Idle EXCEPT !.at = "repay", !.p = p, !.o = Repayable(p),
                               !.amount = amount, !.r = r]
  <2>1. t \in Call
    <3>1. "repay" \in Steps /\ amount \in 0 .. Price
      BY ConstantsAssumption DEF Steps
    <3> QED
      BY <1>1, <1>2, <3>1, CallTyped
  <2>2. t.at = "repay" /\ t.r = r /\ t.p = p
    BY DEF Idle
  <2>3. call' \in [Calls -> Call] /\ CallsCarryIds'
    BY <1>3, <2>1, <2>2, GotoTyped DEF StartRefund, CarriesItsIds, OfAPayment
  <2> QED
    BY <1>3, <2>3 DEF StartRefund, TypeInvariant, TypeOK, tables, provider
<1>4. ASSUME NEW r \in Refunds, RefundForCancel(c, r) PROVE TypeInvariant'
  <2> DEFINE t == [call[c] EXCEPT !.at = "repay", !.o = Repayable(call[c].p),
                                  !.amount = Price, !.r = r]
  <2>1. Repayable(call[c].p) \in Orders \cup {Null}
    BY <1>2, <1>2a, <1>4 DEF RefundForCancel, OfAPayment
  <2>2. t \in Call
    <3>1. "repay" \in Steps /\ Price \in 0 .. Price
      BY ConstantsAssumption DEF Steps
    <3> QED
      BY <1>1, <2>1, <3>1, CallTyped
  <2>3. t.at = "repay" /\ t.r = r /\ t.p = call[c].p
    BY <1>1 DEF Call
  <2>4. call' \in [Calls -> Call] /\ CallsCarryIds'
    BY <1>2a, <1>4, <2>2, <2>3, GotoTyped DEF RefundForCancel, CarriesItsIds, OfAPayment
  <2> QED
    BY <1>4, <2>4 DEF RefundForCancel, TypeInvariant, TypeOK, tables, provider
<1>5. ASSUME NEW state \in {"pending", "completed", "failed"}, ProviderRepays(c, state)
      PROVE  TypeInvariant'
  <2> DEFINE r == call[c].r
             t == [call[c] EXCEPT !.at = "record", !.got = RowStatus(state)]
             amount == IF call[c].p \in Wompi THEN Price ELSE call[c].amount
             row == [state |-> state, order |-> call[c].o, amount |-> amount]
  <2>1. r \in Refunds
    BY <1>5 DEF ProviderRepays, TypeInvariant, CallsCarryIds, CarriesItsIds
  <2>2. RowStatus(state) \in {"pending", "processed", "failed"}
    BY DEF RowStatus
  <2>3. t \in Call
    <3>1. "record" \in Steps /\ RowStatus(state) \in PaymentStatuses \cup {"processed"}
      BY <2>2 DEF Steps, PaymentStatuses
    <3> QED
      BY <1>1, <3>1, CallTyped
  <2>4. t.at = "record" /\ t.got = RowStatus(state) /\ t.r = r /\ t.p = call[c].p
    BY <1>1 DEF Call
  <2>5. CarriesItsIds(t)
    BY <1>2a, <1>5, <2>1, <2>2, <2>4 DEF ProviderRepays, CarriesItsIds, OfAPayment
  <2>6. call' \in [Calls -> Call] /\ CallsCarryIds'
    BY <1>5, <2>3, <2>5, GotoTyped, FinishTyped DEF ProviderRepays
  <2>7. amount \in 0 .. Price /\ call[c].o \in Orders \cup {Null}
    BY <1>1, ConstantsAssumption DEF Call
  <2>8. row \in Repaid
    <3> HIDE DEF amount
    <3> QED
      BY <2>7 DEF Repaid
  <2>9. repaid' = [repaid EXCEPT ![r] = row]
    BY <1>5 DEF ProviderRepays
  <2>10. repaid' \in [Refunds -> Repaid]
    BY <2>1, <2>8, <2>9 DEF TypeInvariant, TypeOK
  <2>11. sent' \subseteq Events
    BY <1>5, <2>1 DEF ProviderRepays, TypeInvariant, TypeOK, Events
  <2>12. order' \in [Orders -> Order]
    BY <1>5, ReverseMoves DEF ProviderRepays, TypeInvariant, TypeOK
  <2> QED
    BY <1>5, <2>6, <2>10, <2>11, <2>12 DEF ProviderRepays, TypeInvariant, TypeOK, tables
<1>6. CASE RefundFails(c)
  BY <1>6, FinishTyped DEF RefundFails, TypeInvariant, TypeOK, tables, provider
<1>7. CASE RecordRefund(c)
  <2> DEFINE row == [status |-> call[c].got, payment |-> call[c].p, amount |-> call[c].amount]
  <2>1. call[c].got \in {"pending", "processed", "failed"}
    BY <1>7 DEF RecordRefund, TypeInvariant, CallsCarryIds, CarriesItsIds
  <2>2. row \in RefundRow
    BY <1>1, <2>1 DEF Call, RefundRow
  <2>3. refund' \in [Refunds -> RefundRow]
    BY <1>7, <2>2 DEF RecordRefund, TypeInvariant, TypeOK
  <2>4. call' \in [Calls -> Call] /\ CallsCarryIds'
    BY <1>1, <1>7, StepTyped, GotoTyped, FinishTyped
       DEF RecordRefund, Step, CarriesItsIds, OfAPayment, Steps
  <2> QED
    BY <1>7, <2>3, <2>4 DEF RecordRefund, TypeInvariant, TypeOK, provider
<1> QED
  BY <1>3, <1>4, <1>5, <1>6, <1>7 DEF RefundStep

(* A step of the reconciliation keeps the types.                           *)
LEMMA TypeReconcile ==
    ASSUME TypeInvariant, NEW c \in Calls, ReconcileStep(c)
    PROVE  TypeInvariant'
<1>1. call[c] \in Call /\ Idle \in Call
  BY IdleTyped DEF TypeInvariant, TypeOK
<1>2. ASSUME NEW p \in Payments, SelectPayment(c, p) PROVE TypeInvariant'
  <2> DEFINE t == [Idle EXCEPT !.at = "inquire", !.p = p, !.o = payment[p].order,
                               !.seen = payment[p].status]
  <2>1. payment[p].status \in PaymentStatuses /\ payment[p].order \in Orders \cup {Null}
    BY DEF TypeInvariant, TypeOK, PaymentRow
  <2>2. payment[p].status \in {"pending", "authorized"}
    BY <1>2 DEF SelectPayment
  <2>3. t \in Call
    BY <1>1, <2>1, CallTyped DEF Steps
  <2>4. CarriesItsIds(t)
    BY <2>2 DEF CarriesItsIds, OfAPayment, Idle
  <2>5. call' \in [Calls -> Call] /\ CallsCarryIds'
    BY <1>2, <2>3, <2>4, GotoTyped DEF SelectPayment
  <2> QED
    BY <1>2, <2>5 DEF SelectPayment, TypeInvariant, TypeOK, tables, provider
<1>4. CASE Inquire(c)
  <2>1. call[c].p \in Payments /\ call[c].seen \in {"pending", "authorized"}
    BY <1>4 DEF Inquire, TypeInvariant, CallsCarryIds, CarriesItsIds, OfAPayment
  <2>2. PICK got \in {OrderStatus(call[c].o), call[c].seen} :
           Goto(c, [call[c] EXCEPT !.at = "correct", !.got = got])
    BY <1>4 DEF Inquire
  <2> DEFINE t == [call[c] EXCEPT !.at = "correct", !.got = got]
  <2>3. got \in PaymentStatuses \ {"absent"}
    BY <2>1, <2>2 DEF OrderStatus, PayPalStatus, WompiStatus, PaymentStatuses
  <2>4. t \in Call
    BY <1>1, <2>3, CallTyped DEF Steps
  <2>5. t.at = "correct" /\ t.got = got /\ t.p = call[c].p
    BY <1>1 DEF Call
  <2> HIDE DEF t
  <2>6. CarriesItsIds(t)
    BY <2>1, <2>3, <2>5 DEF CarriesItsIds, OfAPayment
  <2>7. Goto(c, t)
    BY <2>2 DEF t
  <2>8. call' \in [Calls -> Call] /\ CallsCarryIds'
    BY <2>4, <2>6, <2>7, GotoTyped
  <2> QED
    BY <1>4, <2>8 DEF Inquire, TypeInvariant, TypeOK, tables, provider
<1>3. CASE Correct(c)
  <2> DEFINE p == call[c].p
             got == call[c].got
  <2>1. got \in PaymentStatuses
    BY <1>3 DEF Correct, TypeInvariant, CallsCarryIds, CarriesItsIds
  <2>2. payment' = payment \/ SetStatus(p, got)
    BY <1>3 DEF Correct, SetStatus
  <2>3. payment' \in [Payments -> PaymentRow]
    BY <2>1, <2>2, StatusTyped DEF TypeInvariant, TypeOK
  <2>4. booking' \in [Bookings -> BookingStatuses]
    BY <1>3 DEF Correct, TypeInvariant, TypeOK, BookingStatuses
  <2>5. reconciled' \subseteq Payments
    BY <1>3 DEF Correct, TypeInvariant, TypeOK, CallsCarryIds, CarriesItsIds, OfAPayment
  <2> QED
    BY <1>3, <2>3, <2>4, <2>5, FinishTyped DEF Correct, TypeInvariant, TypeOK, provider
<1> QED
  BY <1>2, <1>3, <1>4 DEF ReconcileStep

(* What the booking core does without a payment takes back no booking, and *)
(* only a new one starts to be pending.                                    *)
LEMMA AloneMoves ==
    ASSUME TypeInvariant, BookingMoves
    PROVE  /\ booking' \in [Bookings -> BookingStatuses]
           /\ \A b \in Bookings :
                 booking[b] # "absent" =>
                    /\ booking'[b] # "absent"
                    /\ booking'[b] = "pending" => booking[b] = "pending"
<1> DEFINE Kept == /\ booking' \in [Bookings -> BookingStatuses]
                   /\ \A b \in Bookings :
                         booking[b] # "absent" =>
                            /\ booking'[b] # "absent"
                            /\ booking'[b] = "pending" => booking[b] = "pending"
<1>1. booking \in [Bookings -> BookingStatuses]
  BY DEF TypeInvariant, TypeOK
<1>2. ASSUME NEW b \in Bookings, NEW s \in {"pending", "confirmed"}, Life!Enter(b, Null, s)
      PROVE  Kept
  BY <1>1, <1>2 DEF Life!Enter, Life!Exists, BookingStatuses
<1>3. ASSUME NEW B \in SUBSET Bookings, NEW s \in {"confirmed", "cancelled", "expired"},
             Life!Become(B, s)
      PROVE  Kept
  BY <1>1, <1>3 DEF Life!Become, BookingStatuses
<1>4. ASSUME NEW b \in Bookings, Life!Change(b, Null) PROVE Kept
  BY <1>1, <1>4 DEF Life!Change
<1>5. ASSUME NEW b \in Bookings, NEW s \in {"confirmed", "cancelled"}, Life!Decide(b, s)
      PROVE  Kept
  BY <1>3, <1>5 DEF Life!Decide
<1>6. ASSUME NEW B \in SUBSET Bookings, Life!Expire(B) PROVE Kept
  BY <1>3, <1>6 DEF Life!Expire
<1>7. Life!Alone
  BY DEF BookingMoves
<1> HIDE DEF Kept
<1>8. Kept
  BY <1>2, <1>4, <1>5, <1>6, <1>7 DEF Life!Alone
<1> QED
  BY <1>8 DEF Kept

(* What the users, the sweep and the providers do.                         *)
LEMMA TypeOutside ==
    ASSUME TypeInvariant,
           \/ \E c \in Calls : Abort(c)
           \/ BookingMoves
           \/ \E o \in Orders : ProviderMoves(o)
           \/ \E r \in Refunds : RefundEnds(r)
    PROVE  TypeInvariant'
<1>1. ASSUME NEW c \in Calls, Abort(c) PROVE TypeInvariant'
  BY <1>1, FinishTyped DEF Abort, TypeInvariant, TypeOK, tables, provider
<1>2. ASSUME BookingMoves PROVE TypeInvariant'
  BY <1>2, AloneMoves DEF BookingMoves, TypeInvariant, TypeOK, provider, CallsCarryIds
<1>3. ASSUME NEW o \in Orders, ProviderMoves(o) PROVE TypeInvariant'
  <2>1. PICK to \in {"approved", "held", "captured", "declined"} :
           /\ order' = [order EXCEPT ![o] = [order[o] EXCEPT !.state = to]]
           /\ sent' = sent \/ (to # "held" /\ sent' = sent \cup {[kind |-> to, id |-> o]})
    <3>1. ASSUME NEW from, NEW to \in {"approved", "captured", "declined"}, Move(o, from, to, to)
          PROVE  /\ order' = [order EXCEPT ![o] = [order[o] EXCEPT !.state = to]]
                 /\ to # "held" /\ sent' = sent \cup {[kind |-> to, id |-> o]}
      BY <3>1 DEF Move
    <3>2. CASE HoldCapture(o)
      BY <3>2 DEF HoldCapture
    <3> QED
      BY <1>3, <3>1, <3>2 DEF ProviderMoves
  <2>2. [order[o] EXCEPT !.state = to] \in Order
    BY DEF TypeInvariant, TypeOK, Order
  <2>3. order' \in [Orders -> Order]
    BY <2>1, <2>2 DEF TypeInvariant, TypeOK
  <2>4. sent' \subseteq Events
    BY <2>1 DEF TypeInvariant, TypeOK, Events
  <2> QED
    BY <1>3, <2>3, <2>4
       DEF ProviderMoves, Move, HoldCapture, TypeInvariant, TypeOK, tables, CallsCarryIds
<1>4. ASSUME NEW r \in Refunds, RefundEnds(r) PROVE TypeInvariant'
  <2>1. \A s \in {"completed", "failed"} : [repaid[r] EXCEPT !.state = s] \in Repaid
    BY DEF TypeInvariant, TypeOK, Repaid
  <2>2. repaid' \in [Refunds -> Repaid]
    BY <1>4, <2>1 DEF RefundEnds, TypeInvariant, TypeOK
  <2>3. sent' \subseteq Events
    BY <1>4 DEF RefundEnds, TypeInvariant, TypeOK, Events
  <2>4. order' \in [Orders -> Order]
    BY <1>4, ReverseMoves DEF RefundEnds, TypeInvariant, TypeOK
  <2> QED
    BY <1>4, <2>2, <2>3, <2>4 DEF RefundEnds, TypeInvariant, TypeOK, tables, CallsCarryIds
<1> QED
  BY <1>1, <1>2, <1>3, <1>4

(* The initial tables are well formed.                                     *)
LEMMA TypeInit == Init => TypeInvariant
<1> SUFFICES ASSUME Init PROVE TypeInvariant
  OBVIOUS
<1>1. NoPayment \in PaymentRow
  BY DEF NoPayment, PaymentRow, PaymentStatuses
<1>2. NoRefund \in RefundRow
  BY ConstantsAssumption DEF NoRefund, RefundRow
<1>3. NoOrder \in Order /\ NotRepaid \in Repaid
  BY ConstantsAssumption DEF NoOrder, Order, NotRepaid, Repaid
<1> QED
  BY <1>1, <1>2, <1>3, IdleTyped, ConstantsAssumption
     DEF Init, TypeInvariant, TypeOK, CallsCarryIds, BookingStatuses

(* Every step keeps the types.                                             *)
LEMMA TypeNext == TypeInvariant /\ [Next]_vars => TypeInvariant'
<1> SUFFICES ASSUME TypeInvariant, [Next]_vars PROVE TypeInvariant'
  OBVIOUS
<1>1. CASE UNCHANGED vars
  BY <1>1 DEF vars, TypeInvariant, TypeOK, CallsCarryIds
<1>2. CASE Next
  BY <1>2, TypePayment, TypeWebhook, TypeCancel, TypeRefund, TypeReconcile, TypeOutside
     DEF Next
<1> QED
  BY <1>1, <1>2

(* The tables, the calls and what the providers keep have their types.     *)
THEOREM TypeCorrect == Spec => []TypeOK
<1>1. TypeInvariant => TypeOK
  BY DEF TypeInvariant
<1> QED
  BY <1>1, TypeInit, TypeNext, PTL DEF Spec

-----------------------------------------------------------------------------
(* What is paid was collected, and its booking knows. *)

\* The states of an order whose money was taken.
Taken == {"captured", "reversed"}

\* An order of p was collected, or completed when p is one of these payments.
Backed(p, ords, these) ==
    \E o \in Orders :
        /\ ords[o].payment = p
        /\ ords[o].state \in Taken \/ (p \in these \ Wompi /\ ords[o].state \in Completed)

(* What a call knows of the payments, the orders and the events.           *)
Knows(t, rows, ords, events) ==
    /\ t.at = "insert" => t.b \in Bookings
    /\ t.at \in OfAPayment => rows[t.p].status # "absent"
    /\ t.at \in {"register", "apply"} => t.e \in events
    /\ t.at = "apply" /\ t.p # Null =>
          /\ t.p \in Payments /\ rows[t.p].status # "absent"
          /\ t.e.kind = "captured" => ords[t.e.id].payment = t.p
    /\ t.at \in {"store", "inquire"} => t.o \in Orders /\ ords[t.o].payment = t.p
    /\ t.at = "correct" /\ t.got = "paid" => Backed(t.p, ords, Payments)

RowsHold ==
    \A p \in Payments :
        /\ payment[p].status # "absent" => payment[p].booking \in Bookings
        /\ payment[p].order # Null => order[payment[p].order].payment = p
        /\ payment[p].status = "paid" =>
              Backed(p, order, reconciled) /\ booking[payment[p].booking] # "pending"

EventsHold ==
    \A o \in Orders : [kind |-> "captured", id |-> o] \in sent => order[o].state \in Taken

MoneyInvariant ==
    /\ RowsHold
    /\ EventsHold
    /\ \A c \in Calls : Knows(call[c], payment, order, sent)

(* What no step takes back: an event, a reconciled payment, an order's     *)
(* payment, its capture or completion, and a row; and no booking becomes   *)
(* pending again.                                                          *)
Grows ==
    /\ sent \subseteq sent'
    /\ reconciled \subseteq reconciled'
    /\ \A o \in Orders :
          /\ order[o].payment # Null => order'[o].payment = order[o].payment
          /\ order[o].state \in Taken => order'[o].state \in Taken
          /\ order[o].state \in Completed =>
                 order'[o].state \in Completed \/ order[o].payment \in Wompi
    /\ \A p \in Payments : payment[p].status # "absent" => payment'[p].status # "absent"
    /\ \A b \in Bookings : booking'[b] = "pending" => booking[b] = "pending"

(* How a row of payments may change.                                       *)
RowAdvances(p) ==
    \/ payment'[p] = payment[p]
    \/ /\ payment'[p].booking \in Bookings
       /\ \/ payment'[p].order = payment[p].order
          \/ payment'[p].order = Null
          \/ order'[payment'[p].order].payment = p
       /\ payment'[p].status = "paid" =>
             \/ payment[p].status = "paid" /\ payment'[p].booking = payment[p].booking
             \/ Backed(p, order', reconciled') /\ booking'[payment'[p].booking] # "pending"

(* An order that was captured or completed stays so, and of its payment.   *)
LEMMA BackedStays ==
    ASSUME Grows, NEW p \in Payments, NEW these, Backed(p, order, these)
    PROVE  Backed(p, order', these)
BY ConstantsAssumption DEF Grows, Backed

(* A payment stays backed when more payments are reconciled.               *)
LEMMA BackedMore ==
    ASSUME NEW p, NEW ords, NEW these, NEW more, these \subseteq more, Backed(p, ords, these)
    PROVE  Backed(p, ords, more)
BY DEF Backed

(* What a call knows stays true while it waits.                            *)
LEMMA KnowsStays ==
    ASSUME Grows, NEW t \in Call, CarriesItsIds(t), Knows(t, payment, order, sent)
    PROVE  Knows(t, payment', order', sent')
<1>1. t.at \in OfAPayment => t.p \in Payments
  BY DEF CarriesItsIds
<1>2. t.at \in OfAPayment => payment'[t.p].status # "absent"
  BY <1>1 DEF Knows, Grows
<1>3. t.at \in {"register", "apply"} => t.e \in sent'
  BY DEF Knows, Grows
<1>4. ASSUME t.at = "apply", t.p # Null
      PROVE  /\ t.p \in Payments /\ payment'[t.p].status # "absent"
             /\ t.e.kind = "captured" => order'[t.e.id].payment = t.p
  <2>1. t.e \in Events /\ t.e.kind # "refunded"
    BY <1>4 DEF CarriesItsIds
  <2>2. t.e.id \in Orders
    BY <2>1 DEF Events
  <2> QED
    BY <1>4, <2>2 DEF Knows, Grows
<1>5. t.at \in {"store", "inquire"} => t.o \in Orders /\ order'[t.o].payment = t.p
  BY <1>1, ConstantsAssumption DEF Knows, Grows, OfAPayment
<1>6. t.at = "correct" /\ t.got = "paid" => Backed(t.p, order', Payments)
  BY <1>1, BackedStays DEF Knows, OfAPayment
<1> QED
  BY <1>2, <1>3, <1>4, <1>5, <1>6 DEF Knows

(* Rows that advance keep what the table says of the money.                *)
LEMMA RowsStay ==
    ASSUME TypeInvariant, RowsHold, Grows, \A p \in Payments : RowAdvances(p)
    PROVE  RowsHold'
<1> SUFFICES ASSUME NEW p \in Payments
    PROVE  /\ payment'[p].status # "absent" => payment'[p].booking \in Bookings
           /\ payment'[p].order # Null => order'[payment'[p].order].payment = p
           /\ payment'[p].status = "paid" =>
                 Backed(p, order', reconciled') /\ booking'[payment'[p].booking] # "pending"
  BY DEF RowsHold, Backed
<1>1. payment[p].order \in Orders \cup {Null}
  BY DEF TypeInvariant, TypeOK, PaymentRow
<1>2. payment[p].order # Null => order'[payment[p].order].payment = p
  BY <1>1, ConstantsAssumption DEF RowsHold, Grows
<1>3. payment[p].status = "paid" =>
         Backed(p, order', reconciled') /\ booking'[payment[p].booking] # "pending"
  BY BackedStays, BackedMore DEF RowsHold, Grows
<1> QED
  BY <1>2, <1>3 DEF RowsHold, RowAdvances

(* A step keeps the invariant if the rows advance, the events stay true    *)
(* and the call that moves knows what it should.                           *)
LEMMA Keeps ==
    ASSUME TypeInvariant, MoneyInvariant, Grows,
           \A p \in Payments : RowAdvances(p),
           EventsHold',
           \/ call' = call
           \/ \E c \in Calls, t \in Call : Goto(c, t) /\ Knows(t, payment', order', sent')
    PROVE  MoneyInvariant'
<1>1. ASSUME NEW d \in Calls PROVE Knows(call[d], payment', order', sent')
  BY KnowsStays DEF MoneyInvariant, TypeInvariant, TypeOK, CallsCarryIds
<1>2. ASSUME NEW d \in Calls PROVE Knows(call'[d], payment', order', sent')
  <2>1. CASE call' = call
    BY <1>1, <2>1
  <2>2. ASSUME NEW c \in Calls, NEW t \in Call, Goto(c, t), Knows(t, payment', order', sent')
        PROVE  Knows(call'[d], payment', order', sent')
    <3>1. call'[d] = t \/ call'[d] = call[d]
      BY <2>2 DEF Goto, TypeInvariant, TypeOK
    <3> QED
      BY <1>1, <2>2, <3>1
  <2> QED
    BY <2>1, <2>2
<1>3. (\A d \in Calls : Knows(call[d], payment, order, sent))'
  BY <1>2 DEF Knows, Backed
<1> QED
  BY <1>3, RowsStay DEF MoneyInvariant

(* A call that is not at work claims nothing.                              *)
LEMMA IdleKnows == Knows(Idle, payment', order', sent')
BY DEF Knows, Idle, OfAPayment

(* A step that only moves a call.                                          *)
LEMMA KeepsTables ==
    ASSUME TypeInvariant, MoneyInvariant, UNCHANGED <<payment, order, sent>>,
           reconciled \subseteq reconciled',
           \A b \in Bookings : booking'[b] = "pending" => booking[b] = "pending",
           \/ call' = call
           \/ \E c \in Calls, t \in Call : Goto(c, t) /\ Knows(t, payment, order, sent)
    PROVE  MoneyInvariant'
<1>1. Grows /\ \A p \in Payments : RowAdvances(p)
  BY DEF Grows, RowAdvances
<1>2. EventsHold'
  BY DEF MoneyInvariant, EventsHold
<1>3. \/ call' = call
      \/ \E c \in Calls, t \in Call : Goto(c, t) /\ Knows(t, payment', order', sent')
  OBVIOUS
<1> QED
  BY <1>1, <1>2, <1>3, Keeps

(* A row whose status alone changes, and not to paid.                      *)
LEMMA StatusAdvances ==
    ASSUME TypeInvariant, MoneyInvariant, NEW p \in Payments, payment[p].status # "absent",
           NEW s \in PaymentStatuses \ {"paid", "absent"}, SetStatus(p, s),
           UNCHANGED <<booking, order, sent>>, reconciled \subseteq reconciled'
    PROVE  Grows /\ \A q \in Payments : RowAdvances(q)
<1>1. payment[p] \in PaymentRow
  BY DEF TypeInvariant, TypeOK
<1>2. /\ payment'[p].status = s /\ payment'[p].order = payment[p].order
      /\ payment'[p].booking = payment[p].booking
      /\ \A q \in Payments \ {p} : payment'[q] = payment[q]
  BY <1>1 DEF SetStatus, PaymentRow, TypeInvariant, TypeOK
<1>3. payment[p].booking \in Bookings
  BY DEF MoneyInvariant, RowsHold
<1> QED
  BY <1>2, <1>3 DEF Grows, RowAdvances

(* A refund that ends: orders are reversed at most, and its event is sent. *)
OrdersReverse ==
    \A q \in Orders :
        /\ order'[q].payment = order[q].payment
        /\ \/ order'[q].state = order[q].state
           \/ order[q].payment \in Wompi /\ order'[q].state = "reversed"

LEMMA ReversalGrows ==
    ASSUME MoneyInvariant, OrdersReverse, UNCHANGED <<payment, booking>>,
           reconciled \subseteq reconciled', NEW r,
           sent' = sent \/ sent' = sent \cup {[kind |-> "refunded", id |-> r]}
    PROVE  Grows /\ (\A q \in Payments : RowAdvances(q)) /\ EventsHold'
<1>1. Grows
  BY DEF Grows, OrdersReverse, Taken, Completed
<1>2. \A q \in Payments : RowAdvances(q)
  BY DEF RowAdvances
<1>3. \A o \in Orders : [kind |-> "captured", id |-> o] # [kind |-> "refunded", id |-> r]
  OBVIOUS
<1>4. \A o \in Orders : [kind |-> "captured", id |-> o] \in sent' =>
                           [kind |-> "captured", id |-> o] \in sent
  BY <1>3
<1>5. EventsHold'
  BY <1>1, <1>4 DEF MoneyInvariant, EventsHold, Grows
<1> QED
  BY <1>1, <1>2, <1>5

(* A step of createPayment keeps the invariant.                            *)
LEMMA MoneyPayment ==
    ASSUME TypeInvariant, TypeInvariant', MoneyInvariant, NEW c \in Calls, PaymentStep(c),
           reconciled \subseteq reconciled'
    PROVE  MoneyInvariant'
<1>1. call[c] \in Call /\ call' \in [Calls -> Call] /\ CarriesItsIds(call[c])
  BY DEF TypeInvariant, TypeOK, CallsCarryIds
<1>2. Knows(call[c], payment, order, sent)
  BY DEF MoneyInvariant
<1>3. ASSUME NEW t, Goto(c, t) PROVE t \in Call
  BY <1>1, <1>3 DEF Goto, TypeInvariant, TypeOK
<1>4. ASSUME NEW b \in Bookings, NEW k \in Keys \cup {Null}, CheckPayment(c, b, k)
      PROVE  MoneyInvariant'
  <2> DEFINE t == [Idle EXCEPT !.at = "insert", !.b = b, !.key = k]
  <2>1. Goto(c, t) /\ Knows(t, payment, order, sent)
    BY <1>4 DEF CheckPayment, Knows, OfAPayment, Idle
  <2>2. UNCHANGED <<payment, order, sent, booking>>
    BY <1>4 DEF CheckPayment, tables, provider
  <2> HIDE DEF t
  <2> QED
    BY <1>3, <2>1, <2>2, KeepsTables
<1>5. ASSUME NEW b \in Bookings, NEW k \in Keys \cup {Null}, NEW p \in Payments,
             RetryPayment(c, b, k, p)
      PROVE  MoneyInvariant'
  <2> DEFINE t == [Idle EXCEPT !.at = "ask", !.p = p]
  <2>1. Goto(c, t) /\ Knows(t, payment, order, sent)
    BY <1>5 DEF RetryPayment, Exists, Knows, OfAPayment, Idle
  <2>2. UNCHANGED <<payment, order, sent, booking>>
    BY <1>5 DEF RetryPayment, tables, provider
  <2> HIDE DEF t
  <2> QED
    BY <1>3, <2>1, <2>2, KeepsTables
<1>6. ASSUME NEW p \in Payments, InsertPayment(c, p) PROVE MoneyInvariant'
  <2> DEFINE t == [Idle EXCEPT !.at = "ask", !.p = p]
             row == [NoPayment EXCEPT !.status = "pending", !.booking = call[c].b,
                                      !.key = call[c].key]
  <2>1. payment' = [payment EXCEPT ![p] = row] /\ payment[p].status = "absent"
    BY <1>6 DEF InsertPayment, NextPayment, Exists
  <2>2. call[c].b \in Bookings
    BY <1>2, <1>6 DEF InsertPayment, Knows
  <2>3. row.status = "pending" /\ row.order = Null /\ row.booking \in Bookings
    BY <2>2 DEF NoPayment
  <2>4. payment'[p] = row /\ \A q \in Payments \ {p} : payment'[q] = payment[q]
    BY <2>1 DEF TypeInvariant, TypeOK
  <2>5. UNCHANGED <<booking, order, sent>> /\ Goto(c, t)
    BY <1>6 DEF InsertPayment, provider
  <2>6. Grows /\ \A q \in Payments : RowAdvances(q)
    BY <2>1, <2>3, <2>4, <2>5 DEF Grows, RowAdvances
  <2>7. Knows(t, payment', order', sent')
    BY <2>3, <2>4 DEF Knows, OfAPayment, Idle
  <2>8. EventsHold'
    BY <2>5 DEF MoneyInvariant, EventsHold
  <2> HIDE DEF t
  <2> QED
    BY <1>3, <2>5, <2>6, <2>7, <2>8, Keeps
<1>7. ASSUME NEW o \in Orders, ProviderCreates(c, o) PROVE MoneyInvariant'
  <2> DEFINE p == call[c].p
             t == [call[c] EXCEPT !.at = "store", !.o = o]
             u == [call[c] EXCEPT !.at = "fail"]
  <2>1. p \in Payments /\ payment[p].status # "absent"
    BY <1>1, <1>2, <1>7 DEF ProviderCreates, CarriesItsIds, Knows, OfAPayment
  <2>2. order[o] = NoOrder /\ order' = [order EXCEPT ![o] = [state |-> "created", payment |-> p]]
    BY <1>7 DEF ProviderCreates
  <2>3. /\ order[o].payment = Null /\ order[o].state = "none"
        /\ order'[o].payment = p
        /\ \A q \in Orders \ {o} : order'[q] = order[q]
    BY <2>2 DEF NoOrder, TypeInvariant, TypeOK
  <2>4. UNCHANGED <<booking, payment, sent>> /\ (Goto(c, t) \/ Goto(c, u))
    BY <1>7 DEF ProviderCreates, Step, tables
  <2>5. Grows /\ \A q \in Payments : RowAdvances(q)
    BY <2>3, <2>4 DEF Grows, RowAdvances, Taken, Completed
  <2>6. EventsHold'
    BY <2>3, <2>4 DEF MoneyInvariant, EventsHold, Taken
  <2>7. t.at = "store" /\ t.p = p /\ t.o = o /\ u.at = "fail" /\ u.p = p
    BY <1>1 DEF Call
  <2>8. Knows(t, payment', order', sent') /\ Knows(u, payment', order', sent')
    <3> HIDE DEF t, u
    <3> QED
      BY <2>1, <2>3, <2>4, <2>7 DEF Knows
  <2> HIDE DEF t, u
  <2> QED
    BY <1>3, <2>4, <2>5, <2>6, <2>8, Keeps
<1>8. CASE ProviderRefuses(c)
  <2> DEFINE u == [call[c] EXCEPT !.at = "fail"]
  <2>1. u.at = "fail" /\ u.p = call[c].p
    BY <1>1 DEF Call
  <2>2. Goto(c, u) /\ UNCHANGED <<payment, order, sent, booking>>
    BY <1>8 DEF ProviderRefuses, Step, tables, provider
  <2> HIDE DEF u
  <2>3. Knows(u, payment, order, sent)
    BY <1>2, <1>8, <2>1 DEF ProviderRefuses, Knows, OfAPayment
  <2> QED
    BY <1>3, <2>2, <2>3, KeepsTables
<1>9. CASE StoreOrder(c)
  <2> DEFINE p == call[c].p
  <2>1. p \in Payments /\ payment[p].status # "absent" /\ order[call[c].o].payment = p
    BY <1>1, <1>2, <1>9 DEF StoreOrder, CarriesItsIds, Knows, OfAPayment
  <2>2. payment' = [payment EXCEPT ![p] = [payment[p] EXCEPT !.order = call[c].o]]
    BY <1>9 DEF StoreOrder
  <2>3. payment[p] \in PaymentRow
    BY <2>1 DEF TypeInvariant, TypeOK
  <2>4. /\ payment'[p].status = payment[p].status /\ payment'[p].booking = payment[p].booking
        /\ payment'[p].order = call[c].o
        /\ \A q \in Payments \ {p} : payment'[q] = payment[q]
    BY <2>1, <2>2, <2>3 DEF PaymentRow, TypeInvariant, TypeOK
  <2>5. UNCHANGED <<booking, order, sent>> /\ Goto(c, Idle)
    BY <1>9 DEF StoreOrder, Finish, provider
  <2>6. Grows /\ \A q \in Payments : RowAdvances(q)
    BY <2>1, <2>4, <2>5 DEF Grows, RowAdvances, MoneyInvariant, RowsHold
  <2>7. EventsHold'
    BY <2>5 DEF MoneyInvariant, EventsHold
  <2> QED
    BY <1>3, <2>5, <2>6, <2>7, IdleKnows, Keeps
<1>10. CASE MarkFailed(c)
  <2>1. call[c].p \in Payments /\ payment[call[c].p].status # "absent"
    BY <1>1, <1>2, <1>10 DEF MarkFailed, CarriesItsIds, Knows, OfAPayment
  <2>2. Grows /\ \A q \in Payments : RowAdvances(q)
    BY <1>10, <2>1, StatusAdvances DEF MarkFailed, provider, PaymentStatuses
  <2>3. EventsHold' /\ Goto(c, Idle)
    BY <1>10 DEF MarkFailed, Finish, provider, MoneyInvariant, EventsHold
  <2> QED
    BY <1>3, <2>2, <2>3, IdleKnows, Keeps
<1> QED
  BY <1>4, <1>5, <1>6, <1>7, <1>8, <1>9, <1>10 DEF PaymentStep

(* A step of processWebhook keeps the invariant.                           *)
LEMMA MoneyWebhook ==
    ASSUME TypeInvariant, TypeInvariant', MoneyInvariant, NEW c \in Calls, WebhookStep(c),
           reconciled \subseteq reconciled'
    PROVE  MoneyInvariant'
<1> DEFINE e == call[c].e
           p == call[c].p
<1>1. call[c] \in Call /\ call' \in [Calls -> Call] /\ CarriesItsIds(call[c])
  BY DEF TypeInvariant, TypeOK, CallsCarryIds
<1>2. Knows(call[c], payment, order, sent)
  BY DEF MoneyInvariant
<1>3. ASSUME NEW t, Goto(c, t) PROVE t \in Call
  BY <1>1, <1>3 DEF Goto, TypeInvariant, TypeOK
<1>4. Knows(Idle, payment, order, sent)
  BY DEF Knows, Idle, OfAPayment
<1>5. ASSUME NEW d \in Events, Deliver(c, d) PROVE MoneyInvariant'
  <2> DEFINE t == [Idle EXCEPT !.at = "register", !.e = d]
  <2>1. Goto(c, t) /\ Knows(t, payment, order, sent)
    BY <1>5 DEF Deliver, Knows, OfAPayment, Idle
  <2>2. UNCHANGED <<payment, order, sent, booking>>
    BY <1>5 DEF Deliver, tables, provider
  <2> HIDE DEF t
  <2> QED
    BY <1>3, <2>1, <2>2, KeepsTables
<1>6. ASSUME NEW q \in Payments \cup {Null}, Register(c, q) PROVE MoneyInvariant'
  <2> DEFINE seen == IF q = Null THEN "absent" ELSE payment[q].status
             t == [call[c] EXCEPT !.at = "apply", !.p = q, !.seen = seen]
  <2>1. Goto(c, t) /\ UNCHANGED <<payment, order, sent, booking>>
    BY <1>6 DEF Register, tables, provider
  <2>2. t.at = "apply" /\ t.p = q /\ t.e = e
    BY <1>1 DEF Call
  <2>3. e \in sent /\ e \in Events
    BY <1>1, <1>2, <1>6 DEF Register, Knows, CarriesItsIds
  <2>4. ASSUME q # Null
        PROVE  q \in Payments /\ payment[q].status # "absent" /\ Finds(e, q)
    BY <1>6, <2>4 DEF Register, Finds, Exists
  <2>5. ASSUME q # Null, e.kind = "captured" PROVE order[e.id].payment = q
    <3>1. e.id \in Orders
      BY <2>3, <2>5 DEF Events
    <3> QED
      BY <2>4, <2>5, <3>1, ConstantsAssumption DEF Finds, MoneyInvariant, RowsHold
  <2>6. Knows(t, payment, order, sent)
    <3> HIDE DEF t, e
    <3> QED
      BY <2>2, <2>3, <2>4, <2>5 DEF Knows, OfAPayment
  <2> HIDE DEF t
  <2> QED
    BY <1>3, <2>1, <2>6, KeepsTables
<1>7. CASE Ignore(c) \/ NoChange(c) \/ CaptureOnly(c) \/ RefundWebhook(c)
  <2>1. Goto(c, Idle) /\ UNCHANGED <<payment, order, sent, booking>>
    BY <1>7 DEF Ignore, NoChange, CaptureOnly, RefundWebhook, Finish, tables, provider
  <2> QED
    BY <1>3, <1>4, <2>1, KeepsTables
<1>8. CASE Apply(c)
  <2> DEFINE new == StatusOf(e.kind)
             b == payment[p].booking
             capture == IF e.kind = "captured" /\ p \notin Wompi
                        THEN e.id ELSE payment[p].capture
  <2>1. /\ p \in Payments /\ payment[p].status # "absent"
        /\ e \in sent /\ e \in Events /\ e.kind # "refunded"
        /\ e.kind = "captured" => order[e.id].payment = p
    BY <1>1, <1>2, <1>8 DEF Apply, Knows, CarriesItsIds
  <2>2. b \in Bookings /\ payment[p] \in PaymentRow
    BY <2>1 DEF MoneyInvariant, RowsHold, TypeInvariant, TypeOK
  <2>3. new = "paid" => e.kind = "captured"
    BY <2>1 DEF Events, StatusOf
  <2>4. new = "paid" => Backed(p, order, reconciled')
    <3> SUFFICES ASSUME new = "paid" PROVE Backed(p, order, reconciled')
      OBVIOUS
    <3>1. e.id \in Orders /\ e = [kind |-> "captured", id |-> e.id]
      BY <2>1, <2>3 DEF Events
    <3>2. order[e.id].state \in Taken
      BY <2>1, <3>1 DEF MoneyInvariant, EventsHold
    <3> QED
      BY <2>1, <2>3, <3>1, <3>2 DEF Backed
  <2>5. new \in {"authorized", "paid", "failed"}
    BY <2>1 DEF Events, StatusOf
  <2>6. payment' = [payment EXCEPT ![p] = [payment[p] EXCEPT !.status = new, !.capture = capture]]
    BY <1>8 DEF Apply
  <2>7. /\ payment'[p].status = new /\ payment'[p].booking = b
        /\ payment'[p].order = payment[p].order
        /\ \A q \in Payments \ {p} : payment'[q] = payment[q]
    <3> HIDE DEF new, capture
    <3> QED
      BY <2>1, <2>2, <2>6 DEF PaymentRow, TypeInvariant, TypeOK
  <2>8. UNCHANGED <<order, sent>> /\ Goto(c, Idle)
    BY <1>8 DEF Apply, Finish
  <2>9. booking' = booking \/ booking' = [booking EXCEPT ![b] = "confirmed"]
    BY <1>8 DEF Apply, ConfirmBooking
  <2>10. new = "paid" => booking'[b] = "confirmed"
    BY <1>8, <2>2 DEF Apply, ConfirmBooking, TypeInvariant, TypeOK
  <2>11. \A d \in Bookings : booking'[d] = "pending" => booking[d] = "pending"
    BY <2>9 DEF TypeInvariant, TypeOK
  <2>12. Grows /\ \A q \in Payments : RowAdvances(q)
    <3> HIDE DEF new, p, b
    <3> QED
      BY <2>2, <2>4, <2>5, <2>7, <2>8, <2>10, <2>11 DEF Grows, RowAdvances
  <2>13. EventsHold'
    BY <2>8 DEF MoneyInvariant, EventsHold
  <2> QED
    BY <1>3, <2>8, <2>12, <2>13, IdleKnows, Keeps
<1> QED
  BY <1>5, <1>6, <1>7, <1>8 DEF WebhookStep

(* A step of cancelBooking and cancelPayment keeps the invariant.          *)
LEMMA MoneyCancel ==
    ASSUME TypeInvariant, TypeInvariant', MoneyInvariant, NEW c \in Calls, CancelStep(c),
           reconciled \subseteq reconciled'
    PROVE  MoneyInvariant'
<1>1. call[c] \in Call /\ call' \in [Calls -> Call] /\ CarriesItsIds(call[c])
  BY DEF TypeInvariant, TypeOK, CallsCarryIds
<1>2. Knows(call[c], payment, order, sent)
  BY DEF MoneyInvariant
<1>3. ASSUME NEW t, Goto(c, t) PROVE t \in Call
  BY <1>1, <1>3 DEF Goto, TypeInvariant, TypeOK
<1>4. ASSUME NEW b \in Bookings, NEW p \in Payments \cup {Null}, CancelBooking(c, b, p)
      PROVE  MoneyInvariant'
  <2> DEFINE seen == IF p = Null THEN "absent" ELSE payment[p].status
             step == CASE seen = "paid" -> "refund"
                       [] seen \in {"pending", "authorized"} -> "void"
                       [] OTHER -> "close"
             t == [Idle EXCEPT !.b = b, !.p = p, !.seen = seen, !.at = step]
  <2>1. Goto(c, t) /\ UNCHANGED <<payment, order, sent, booking>>
    BY <1>4 DEF CancelBooking, tables, provider
  <2>2. /\ step \in {"refund", "void", "close"}
        /\ step # "close" => payment[p].status # "absent"
    OBVIOUS
  <2>3. t.at = step /\ t.p = p
    BY DEF Idle
  <2>4. Knows(t, payment, order, sent)
    <3> HIDE DEF t, step
    <3> QED
      BY <2>2, <2>3 DEF Knows, OfAPayment
  <2> HIDE DEF t
  <2> QED
    BY <1>3, <2>1, <2>4, KeepsTables
<1>5. CASE CancelPayment(c)
  <2> DEFINE p == call[c].p
             step == CASE payment[p].status \notin {"pending", "authorized"} -> "close"
                       [] p \in Wompi \/ payment[p].order = Null -> "cancel"
                       [] OTHER -> "unbind"
             t == [call[c] EXCEPT !.o = payment[p].order, !.at = step]
  <2>1. Goto(c, t) /\ UNCHANGED <<payment, order, sent, booking>>
    BY <1>5 DEF CancelPayment, tables, provider
  <2>2. step \in {"close", "cancel", "unbind"}
    OBVIOUS
  <2>3. t.at = step /\ t.p = p
    BY <1>1 DEF Call
  <2>4. payment[p].status # "absent"
    BY <1>2, <1>5 DEF CancelPayment, Knows, OfAPayment
  <2>5. Knows(t, payment, order, sent)
    <3> HIDE DEF t, step, p
    <3> QED
      BY <2>2, <2>3, <2>4 DEF Knows, OfAPayment
  <2> HIDE DEF t
  <2> QED
    BY <1>3, <2>1, <2>5, KeepsTables
<1>6. CASE ProviderVoids(c)
  <2>1. PICK s \in {"cancel", "close"} : Step(c, s)
    BY <1>6 DEF ProviderVoids
  <2> DEFINE o == call[c].o
             t == [call[c] EXCEPT !.at = s]
  <2>2. t.at = s /\ t.p = call[c].p
    BY <1>1 DEF Call
  <2>3. UNCHANGED <<booking, payment, sent>> /\ Goto(c, t)
    BY <1>6, <2>1 DEF ProviderVoids, Step, tables
  <2>4. ASSUME NEW q \in Orders
        PROVE  /\ order'[q].payment = order[q].payment
               /\ order[q].state \in Taken => order'[q].state \in Taken
               /\ order[q].state \in Completed => order'[q].state \in Completed
    <3>1. order[q] \in Order
      BY DEF TypeInvariant, TypeOK
    <3>2. \/ order' = order
          \/ /\ order' = [order EXCEPT ![o] = [order[o] EXCEPT !.state = "voided"]]
             /\ order[o].state \in {"created", "approved"}
      BY <1>6 DEF ProviderVoids
    <3> QED
      BY <3>1, <3>2 DEF Order, TypeInvariant, TypeOK, Taken, Completed
  <2>5. Grows /\ (\A q \in Payments : RowAdvances(q)) /\ EventsHold'
    BY <2>3, <2>4 DEF Grows, RowAdvances, MoneyInvariant, EventsHold
  <2>6. Knows(t, payment', order', sent')
    <3> HIDE DEF t
    <3> QED
      BY <1>2, <1>6, <2>2, <2>3 DEF ProviderVoids, Knows, OfAPayment
  <2> HIDE DEF t
  <2> QED
    BY <1>3, <2>3, <2>5, <2>6, Keeps
<1>7. CASE WriteCancelled(c)
  <2> DEFINE p == call[c].p
             t == [call[c] EXCEPT !.at = "close"]
  <2>1. p \in Payments /\ payment[p].status # "absent"
    BY <1>1, <1>2, <1>7 DEF WriteCancelled, CarriesItsIds, Knows, OfAPayment
  <2>2. Grows /\ \A q \in Payments : RowAdvances(q)
    BY <1>7, <2>1, StatusAdvances DEF WriteCancelled, provider, PaymentStatuses
  <2>3. EventsHold' /\ Goto(c, t)
    BY <1>7 DEF WriteCancelled, Step, provider, MoneyInvariant, EventsHold
  <2>4. t.at = "close"
    BY <1>1 DEF Call
  <2> HIDE DEF t
  <2>5. Knows(t, payment', order', sent')
    BY <2>4 DEF Knows, OfAPayment
  <2> QED
    BY <1>3, <2>2, <2>3, <2>5, Keeps
<1>8. CASE CloseBooking(c)
  <2>1. Goto(c, Idle) /\ UNCHANGED <<payment, order, sent>>
    BY <1>8 DEF CloseBooking, Finish, provider
  <2>2. \A b \in Bookings : booking'[b] = "pending" => booking[b] = "pending"
    BY <1>8 DEF CloseBooking, TypeInvariant, TypeOK
  <2>3. Knows(Idle, payment, order, sent)
    BY DEF Knows, Idle, OfAPayment
  <2> QED
    BY <1>3, <2>1, <2>2, <2>3, KeepsTables
<1> QED
  BY <1>4, <1>5, <1>6, <1>7, <1>8 DEF CancelStep

(* A step of createRefund keeps the invariant.                             *)
LEMMA MoneyRefund ==
    ASSUME TypeInvariant, TypeInvariant', MoneyInvariant, NEW c \in Calls, RefundStep(c),
           reconciled \subseteq reconciled'
    PROVE  MoneyInvariant'
<1>1. call[c] \in Call /\ call' \in [Calls -> Call] /\ CarriesItsIds(call[c])
  BY DEF TypeInvariant, TypeOK, CallsCarryIds
<1>2. Knows(call[c], payment, order, sent)
  BY DEF MoneyInvariant
<1>3. ASSUME NEW t, Goto(c, t) PROVE t \in Call
  BY <1>1, <1>3 DEF Goto, TypeInvariant, TypeOK
<1>4. ASSUME NEW p \in Payments, NEW amount \in 1 .. Price, NEW r \in Refunds,
             StartRefund(c, p, amount, r)
      PROVE  MoneyInvariant'
  <2> DEFINE t == [Idle EXCEPT !.at = "repay", !.p = p, !.o = Repayable(p),
                               !.amount = amount, !.r = r]
  <2>1. Goto(c, t) /\ UNCHANGED <<payment, order, sent, booking>>
    BY <1>4 DEF StartRefund, tables, provider
  <2>2. t.at = "repay" /\ t.p = p
    BY DEF Idle
  <2>3. payment[p].status = "paid"
    BY <1>4 DEF StartRefund, Refundable
  <2> HIDE DEF t
  <2>4. Knows(t, payment, order, sent)
    BY <2>2, <2>3 DEF Knows, OfAPayment
  <2> QED
    BY <1>3, <2>1, <2>4, KeepsTables
<1>5. ASSUME NEW r \in Refunds, RefundForCancel(c, r) PROVE MoneyInvariant'
  <2> DEFINE t == [call[c] EXCEPT !.at = "repay", !.o = Repayable(call[c].p),
                                  !.amount = Price, !.r = r]
  <2>1. Goto(c, t) /\ UNCHANGED <<payment, order, sent, booking>>
    BY <1>5 DEF RefundForCancel, tables, provider
  <2>2. t.at = "repay" /\ t.p = call[c].p
    BY <1>1 DEF Call
  <2>3. payment[call[c].p].status = "paid"
    BY <1>5 DEF RefundForCancel, Refundable
  <2> HIDE DEF t
  <2>4. Knows(t, payment, order, sent)
    BY <2>2, <2>3 DEF Knows, OfAPayment
  <2> QED
    BY <1>3, <2>1, <2>4, KeepsTables
<1>6. ASSUME NEW state \in {"pending", "completed", "failed"}, ProviderRepays(c, state)
      PROVE  MoneyInvariant'
  <2> DEFINE t == [call[c] EXCEPT !.at = "record", !.got = RowStatus(state)]
  <2>1. (Goto(c, t) \/ Goto(c, Idle)) /\ UNCHANGED <<payment, booking>>
    BY <1>6 DEF ProviderRepays, Finish, tables
  <2>7. Reverse(call[c].o) \/ UNCHANGED order
    BY <1>6 DEF ProviderRepays
  <2>2. t.at = "record" /\ t.p = call[c].p
    BY <1>1 DEF Call
  <2>3. sent' = sent \/ sent' = sent \cup {[kind |-> "refunded", id |-> call[c].r]}
    BY <1>6 DEF ProviderRepays
  <2>8. OrdersReverse
    BY <2>7, ReverseMoves DEF OrdersReverse, TypeInvariant, TypeOK
  <2>4. Grows /\ (\A q \in Payments : RowAdvances(q)) /\ EventsHold'
    BY <2>1, <2>3, <2>8, ReversalGrows
  <2> HIDE DEF t
  <2>6. Knows(t, payment', order', sent')
    BY <1>2, <1>6, <2>1, <2>2 DEF ProviderRepays, Knows, OfAPayment
  <2> QED
    BY <1>3, <2>1, <2>4, <2>6, IdleKnows, Keeps
<1>7. CASE RefundFails(c)
  <2>1. Goto(c, Idle) /\ UNCHANGED <<payment, order, sent, booking>>
    BY <1>7 DEF RefundFails, Finish, tables, provider
  <2>2. Knows(Idle, payment, order, sent)
    BY DEF Knows, Idle, OfAPayment
  <2> QED
    BY <1>3, <2>1, <2>2, KeepsTables
<1>8. CASE RecordRefund(c)
  <2> DEFINE t == [call[c] EXCEPT !.at = "close"]
  <2>1. (Goto(c, t) \/ Goto(c, Idle)) /\ UNCHANGED <<payment, order, sent, booking>>
    BY <1>8 DEF RecordRefund, Finish, Step, provider
  <2>2. t.at = "close"
    BY <1>1 DEF Call
  <2> HIDE DEF t
  <2>3. Knows(t, payment, order, sent) /\ Knows(Idle, payment, order, sent)
    BY <2>2 DEF Knows, OfAPayment, Idle
  <2> QED
    BY <1>3, <2>1, <2>3, KeepsTables
<1> QED
  BY <1>4, <1>5, <1>6, <1>7, <1>8 DEF RefundStep

(* A step of the reconciliation keeps the invariant.                       *)
LEMMA MoneyReconcile ==
    ASSUME TypeInvariant, TypeInvariant', MoneyInvariant, NEW c \in Calls, ReconcileStep(c),
           reconciled \subseteq reconciled'
    PROVE  MoneyInvariant'
<1>1. call[c] \in Call /\ call' \in [Calls -> Call] /\ CarriesItsIds(call[c])
  BY DEF TypeInvariant, TypeOK, CallsCarryIds
<1>2. Knows(call[c], payment, order, sent)
  BY DEF MoneyInvariant
<1>3. ASSUME NEW t, Goto(c, t) PROVE t \in Call
  BY <1>1, <1>3 DEF Goto, TypeInvariant, TypeOK
<1>4. ASSUME NEW p \in Payments, SelectPayment(c, p) PROVE MoneyInvariant'
  <2> DEFINE t == [Idle EXCEPT !.at = "inquire", !.p = p, !.o = payment[p].order,
                               !.seen = payment[p].status]
  <2>1. Goto(c, t) /\ UNCHANGED <<payment, order, sent, booking>>
    BY <1>4 DEF SelectPayment, tables, provider
  <2>2. t.at = "inquire" /\ t.p = p /\ t.o = payment[p].order
    BY DEF Idle
  <2>3. /\ payment[p].status # "absent"
        /\ payment[p].order \in Orders
        /\ order[payment[p].order].payment = p
    BY <1>4 DEF SelectPayment, MoneyInvariant, RowsHold, TypeInvariant, TypeOK, PaymentRow
  <2> HIDE DEF t
  <2>4. Knows(t, payment, order, sent)
    BY <2>2, <2>3 DEF Knows, OfAPayment
  <2> QED
    BY <1>3, <2>1, <2>4, KeepsTables
<1>6. CASE Inquire(c)
  <2>1. PICK got \in {OrderStatus(call[c].o), call[c].seen} :
           Goto(c, [call[c] EXCEPT !.at = "correct", !.got = got])
    BY <1>6 DEF Inquire
  <2> DEFINE o == call[c].o
             t == [call[c] EXCEPT !.at = "correct", !.got = got]
  <2>2. /\ call[c].p \in Payments /\ call[c].seen \in {"pending", "authorized"}
        /\ payment[call[c].p].status # "absent"
        /\ o \in Orders /\ order[o].payment = call[c].p
    BY <1>1, <1>2, <1>6 DEF Inquire, CarriesItsIds, Knows, OfAPayment
  <2>3. got = "paid" =>
           order[o].state \in Taken \/ (call[c].p \notin Wompi /\ order[o].state \in Completed)
    BY <2>1, <2>2 DEF OrderStatus, PayPalStatus, WompiStatus, Taken
  <2>4. got = "paid" => Backed(call[c].p, order, Payments)
    BY <2>2, <2>3 DEF Backed
  <2>5. t.at = "correct" /\ t.got = got /\ t.p = call[c].p
    BY <1>1 DEF Call
  <2>6. Goto(c, t) /\ UNCHANGED <<payment, order, sent, booking>>
    BY <1>6, <2>1 DEF Inquire, tables, provider
  <2> HIDE DEF t
  <2>7. Knows(t, payment, order, sent)
    BY <2>2, <2>4, <2>5 DEF Knows, OfAPayment
  <2> QED
    BY <1>3, <2>6, <2>7, KeepsTables
<1>5. CASE Correct(c)
  <2> DEFINE p == call[c].p
             got == call[c].got
             b == payment[p].booking
  <2>1. p \in Payments /\ payment[p].status # "absent" /\ got \in PaymentStatuses
    BY <1>1, <1>2, <1>5 DEF Correct, CarriesItsIds, Knows, OfAPayment
  <2>2. b \in Bookings /\ payment[p] \in PaymentRow
    BY <2>1 DEF MoneyInvariant, RowsHold, TypeInvariant, TypeOK
  <2>3. UNCHANGED <<order, sent>> /\ Goto(c, Idle)
    BY <1>5 DEF Correct, Finish, provider
  <2>4. \A d \in Bookings : booking'[d] = "pending" => booking[d] = "pending"
    BY <1>5 DEF Correct, TypeInvariant, TypeOK
  <2>5. got # "absent"
    BY <1>1, <1>5 DEF Correct, CarriesItsIds
  <2>6. CASE got = call[c].seen
    <3>1. payment' = payment /\ booking' = booking
      BY <1>5, <2>6 DEF Correct
    <3> QED
      BY <1>3, <2>3, <3>1, KeepsTables, IdleKnows
  <2>7. CASE got # call[c].seen
    <3>1. payment' = [payment EXCEPT ![p] = [payment[p] EXCEPT !.status = got]]
      BY <1>5, <2>7 DEF Correct
    <3>2. /\ payment'[p].status = got /\ payment'[p].booking = b
          /\ payment'[p].order = payment[p].order
          /\ \A q \in Payments \ {p} : payment'[q] = payment[q]
      <4> HIDE DEF got
      <4> QED
        BY <2>1, <2>2, <3>1 DEF PaymentRow, TypeInvariant, TypeOK
    <3>5. got = "paid" => booking'[b] # "pending"
      BY <1>5, <2>2, <2>7 DEF Correct, TypeInvariant, TypeOK
    <3>6. p \in reconciled'
      BY <1>5 DEF Correct
    <3>7. got = "paid" => Backed(p, order', Payments)
      BY <1>2, <1>5, <2>3 DEF Correct, Knows
    <3>3. got = "paid" => Backed(p, order', reconciled') /\ booking'[b] # "pending"
      <4> HIDE DEF p, b, got
      <4> QED
        BY <3>5, <3>6, <3>7 DEF Backed
    <3>4. Grows /\ (\A q \in Payments : RowAdvances(q))
      <4> HIDE DEF p, b, got
      <4> QED
        BY <2>2, <2>3, <2>4, <2>5, <3>2, <3>3 DEF Grows, RowAdvances
    <3>8. EventsHold'
      BY <2>3 DEF MoneyInvariant, EventsHold
    <3> QED
      BY <1>3, <2>3, <3>4, <3>8, IdleKnows, Keeps
  <2> QED
    BY <2>6, <2>7
<1> QED
  BY <1>4, <1>5, <1>6 DEF ReconcileStep

-----------------------------------------------------------------------------
(* The bookings that payments and calls are about have been made. *)

OfABooking == {"insert", "refund", "void", "unbind", "cancel", "close"}

Serves(t, books) ==
    /\ t.b # Null => books[t.b] # "absent"
    /\ t.at \in OfABooking => t.b # Null

Made ==
    /\ \A p \in Payments :
          payment[p].status # "absent" => booking[payment[p].booking] # "absent"
    /\ \A c \in Calls : Serves(call[c], booking)

\* A row stays of its booking, or is a new one of a booking there is.
KeepsItsBooking(p) ==
    payment'[p].status # "absent" =>
        \/ payment[p].status # "absent" /\ payment'[p].booking = payment[p].booking
        \/ booking[payment'[p].booking] # "absent"

BookingsStay == \A b \in Bookings : booking[b] # "absent" => booking'[b] # "absent"

\* What payments themselves do to a booking: they confirm it or cancel it.
Lives == [Life!Cancelling \/ Life!Paying]_(Life!life)

\* Everything that happens to a booking here.
Happens == [BookingMoves \/ Life!Cancelling \/ Life!Paying]_(Life!life)

(* Nothing lives or dies while the bookings stay as they are.              *)
LEMMA SameLife == UNCHANGED booking => Lives /\ BookingsStay
BY DEF Lives, Life!life, BookingsStay

(* A paid webhook and a finished cancellation are steps of a booking's     *)
(* life.                                                                   *)
LEMMA BecomesLife ==
    ASSUME TypeInvariant, NEW b \in Bookings, booking[b] # "absent",
           NEW s \in {"confirmed", "cancelled"}, booking' = [booking EXCEPT ![b] = s]
    PROVE  Lives /\ BookingsStay
<1>1. booking \in [Bookings -> BookingStatuses]
  BY DEF TypeInvariant, TypeOK
<1>2. Life!Become({b}, s)
  BY <1>1 DEF Life!Become, Life!Exists
<1>3. Life!Cancelling \/ Life!Paying
  BY <1>2 DEF Life!Paying, Life!Pay, Life!Cancelling, Life!Cancel
<1> QED
  BY <1>1, <1>3 DEF Lives, BookingsStay

(* A step keeps the invariant if no booking is taken back, the rows keep   *)
(* their bookings and the call that moves serves one.                      *)
LEMMA StaysMade ==
    ASSUME TypeInvariant, MoneyInvariant, Made, BookingsStay,
           \A p \in Payments : KeepsItsBooking(p),
           \A p \in Payments : payment'[p].status # "absent" => payment'[p].booking \in Bookings,
           \/ call' = call
           \/ \E c \in Calls, t \in Call : Goto(c, t) /\ Serves(t, booking)
    PROVE  Made'
<1>1. ASSUME NEW p \in Payments, payment'[p].status # "absent"
      PROVE  booking'[payment'[p].booking] # "absent"
  <2>1. payment[p].status # "absent" => booking[payment[p].booking] # "absent"
    BY DEF Made
  <2>2. payment'[p].booking \in Bookings /\ booking[payment'[p].booking] # "absent"
    BY <1>1, <2>1 DEF KeepsItsBooking
  <2> QED
    BY <2>2 DEF BookingsStay
<1>2. ASSUME NEW t \in Call, Serves(t, booking) PROVE Serves(t, booking')
  <2>1. t.b \in Bookings \cup {Null}
    BY DEF Call
  <2> QED
    BY <1>2, <2>1 DEF Serves, BookingsStay
<1>3. ASSUME NEW d \in Calls PROVE Serves(call'[d], booking')
  <2>1. Serves(call[d], booking) /\ call \in [Calls -> Call]
    BY DEF Made, TypeInvariant, TypeOK
  <2>2. call'[d] \in Call /\ Serves(call'[d], booking)
    BY <2>1 DEF Goto
  <2> QED
    BY <1>2, <2>2
<1>4. (\A d \in Calls : Serves(call[d], booking))'
  BY <1>3 DEF Serves
<1> QED
  BY <1>1, <1>4 DEF Made

(* The rows stay as they are, and so do the bookings.                      *)
LEMMA OnlyCallsMade ==
    ASSUME TypeInvariant, MoneyInvariant, Made, UNCHANGED <<booking, payment>>,
           \/ call' = call
           \/ \E c \in Calls, t \in Call : Goto(c, t) /\ Serves(t, booking)
    PROVE  Made' /\ Lives
<1>1. /\ \A p \in Payments : KeepsItsBooking(p)
      /\ \A p \in Payments : payment'[p].status # "absent" => payment'[p].booking \in Bookings
  BY DEF KeepsItsBooking, MoneyInvariant, RowsHold
<1> QED
  BY <1>1, SameLife, StaysMade

(* One row changes and keeps its booking.                                  *)
LEMMA RowKept ==
    ASSUME TypeInvariant, MoneyInvariant, NEW p \in Payments, payment[p].status # "absent",
           NEW row, row.booking = payment[p].booking, payment' = [payment EXCEPT ![p] = row]
    PROVE  /\ \A q \in Payments : KeepsItsBooking(q)
           /\ \A q \in Payments : payment'[q].status # "absent" => payment'[q].booking \in Bookings
<1>1. /\ payment'[p] = row
      /\ \A q \in Payments \ {p} : payment'[q] = payment[q]
  BY DEF TypeInvariant, TypeOK
<1> QED
  BY <1>1 DEF KeepsItsBooking, MoneyInvariant, RowsHold

(* A status alone changes.                                                 *)
LEMMA StatusKept ==
    ASSUME TypeInvariant, MoneyInvariant, NEW p \in Payments, payment[p].status # "absent",
           NEW s, SetStatus(p, s)
    PROVE  /\ \A q \in Payments : KeepsItsBooking(q)
           /\ \A q \in Payments : payment'[q].status # "absent" => payment'[q].booking \in Bookings
<1>1. payment[p] \in PaymentRow
  BY DEF TypeInvariant, TypeOK
<1>2. [payment[p] EXCEPT !.status = s].booking = payment[p].booking
  BY <1>1 DEF PaymentRow
<1> QED
  BY <1>2, RowKept DEF SetStatus

(* A call moves on in what it is doing, for the booking it serves.         *)
LEMMA StepServes ==
    ASSUME TypeInvariant, Made, NEW c \in Calls, NEW s \in Steps,
           s \in OfABooking => call[c].at \in OfABooking \/ call[c].b # Null
    PROVE  [call[c] EXCEPT !.at = s] \in Call /\ Serves([call[c] EXCEPT !.at = s], booking)
<1> DEFINE t == [call[c] EXCEPT !.at = s]
<1>1. call[c] \in Call /\ Serves(call[c], booking)
  BY DEF TypeInvariant, TypeOK, Made
<1>2. t \in Call /\ t.at = s /\ t.b = call[c].b
  BY <1>1 DEF Call
<1> HIDE DEF t
<1>3. t \in Call /\ Serves(t, booking)
  BY <1>1, <1>2 DEF Serves
<1> QED
  BY <1>3 DEF t

(* A call that is not at work serves nobody.                               *)
LEMMA IdleServes == Idle \in Call /\ Serves(Idle, booking)
BY IdleTyped DEF Serves, Idle, OfABooking

(* A step of createPayment.                                                *)
LEMMA MadePayment ==
    ASSUME TypeInvariant, TypeInvariant', MoneyInvariant, Made, NEW c \in Calls, PaymentStep(c)
    PROVE  Made' /\ Lives
<1>1. call[c] \in Call /\ call' \in [Calls -> Call] /\ CarriesItsIds(call[c])
  BY DEF TypeInvariant, TypeOK, CallsCarryIds
<1>2. Knows(call[c], payment, order, sent) /\ Serves(call[c], booking)
  BY DEF MoneyInvariant, Made
<1>3. ASSUME NEW t, Goto(c, t) PROVE t \in Call
  BY <1>1, <1>3 DEF Goto, TypeInvariant, TypeOK
<1>4. ASSUME NEW b \in Bookings, NEW k \in Keys \cup {Null}, CheckPayment(c, b, k)
      PROVE  Made' /\ Lives
  <2> DEFINE t == [Idle EXCEPT !.at = "insert", !.b = b, !.key = k]
  <2>1. t.at = "insert" /\ t.b = b
    BY DEF Idle
  <2>2. Goto(c, t) /\ booking[b] = "pending" /\ UNCHANGED <<payment, booking>>
    BY <1>4 DEF CheckPayment, tables
  <2> HIDE DEF t
  <2>3. Serves(t, booking)
    BY <2>1, <2>2, ConstantsAssumption DEF Serves
  <2> QED
    BY <1>3, <2>2, <2>3, OnlyCallsMade
<1>5. ASSUME NEW p \in Payments PROVE Serves([Idle EXCEPT !.at = "ask", !.p = p], booking)
  BY DEF Idle, Serves, OfABooking
<1>6. ASSUME NEW b \in Bookings, NEW k \in Keys \cup {Null}, NEW p \in Payments,
             RetryPayment(c, b, k, p)
      PROVE  Made' /\ Lives
  <2> DEFINE t == [Idle EXCEPT !.at = "ask", !.p = p]
  <2>1. Goto(c, t) /\ UNCHANGED <<payment, booking>> /\ Serves(t, booking)
    BY <1>5, <1>6 DEF RetryPayment, tables
  <2> HIDE DEF t
  <2> QED
    BY <1>3, <2>1, OnlyCallsMade
<1>7. ASSUME NEW p \in Payments, InsertPayment(c, p) PROVE Made' /\ Lives
  <2> DEFINE t == [Idle EXCEPT !.at = "ask", !.p = p]
             row == [NoPayment EXCEPT !.status = "pending", !.booking = call[c].b,
                                      !.key = call[c].key]
  <2>1. payment' = [payment EXCEPT ![p] = row] /\ call[c].at = "insert"
    BY <1>7 DEF InsertPayment
  <2>2. call[c].b \in Bookings /\ booking[call[c].b] # "absent"
    BY <1>2, <2>1 DEF Knows, Serves, OfABooking
  <2>3. row.booking = call[c].b
    BY DEF NoPayment
  <2>4. payment'[p] = row /\ \A q \in Payments \ {p} : payment'[q] = payment[q]
    BY <2>1 DEF TypeInvariant, TypeOK
  <2>5. /\ \A q \in Payments : KeepsItsBooking(q)
        /\ \A q \in Payments : payment'[q].status # "absent" => payment'[q].booking \in Bookings
    <3> HIDE DEF row
    <3> QED
      BY <2>2, <2>3, <2>4 DEF KeepsItsBooking, MoneyInvariant, RowsHold
  <2>6. UNCHANGED booking /\ Goto(c, t) /\ Serves(t, booking)
    BY <1>5, <1>7 DEF InsertPayment
  <2> HIDE DEF t
  <2> QED
    BY <1>3, <2>5, <2>6, SameLife, StaysMade
<1>8. ASSUME NEW o \in Orders, ProviderCreates(c, o) PROVE Made' /\ Lives
  <2> DEFINE t == [call[c] EXCEPT !.at = "store", !.o = o]
  <2>1. t.at = "store" /\ t.b = call[c].b
    BY <1>1 DEF Call
  <2>2. UNCHANGED <<payment, booking>> /\ (Goto(c, t) \/ Step(c, "fail"))
    BY <1>8 DEF ProviderCreates, tables
  <2> HIDE DEF t
  <2>3. Serves(t, booking)
    BY <1>2, <2>1 DEF Serves, OfABooking
  <2>4. CASE Step(c, "fail")
    BY <2>2, <2>4, StepServes, OnlyCallsMade DEF Step, Steps, OfABooking
  <2> QED
    BY <1>3, <2>2, <2>3, <2>4, OnlyCallsMade
<1>9. CASE ProviderRefuses(c)
  BY <1>9, StepServes, OnlyCallsMade DEF ProviderRefuses, Step, Steps, OfABooking, tables
<1>10. CASE StoreOrder(c) \/ MarkFailed(c)
  <2> DEFINE p == call[c].p
  <2>1. p \in Payments /\ payment[p].status # "absent"
    BY <1>1, <1>2, <1>10 DEF StoreOrder, MarkFailed, CarriesItsIds, Knows, OfAPayment
  <2>2. payment[p] \in PaymentRow
    BY <2>1 DEF TypeInvariant, TypeOK
  <2>3. [payment[p] EXCEPT !.order = call[c].o].booking = payment[p].booking
    BY <2>2 DEF PaymentRow
  <2>4. SetStatus(p, "failed") \/ payment' = [payment EXCEPT ![p] = [payment[p] EXCEPT !.order = call[c].o]]
    BY <1>10 DEF StoreOrder, MarkFailed
  <2>5. /\ \A q \in Payments : KeepsItsBooking(q)
        /\ \A q \in Payments : payment'[q].status # "absent" => payment'[q].booking \in Bookings
    <3> HIDE DEF p
    <3> QED
      BY <2>1, <2>3, <2>4, RowKept, StatusKept
  <2>6. UNCHANGED booking /\ Goto(c, Idle)
    BY <1>10 DEF StoreOrder, MarkFailed, Finish
  <2> QED
    BY <2>5, <2>6, IdleServes, SameLife, StaysMade
<1> QED
  BY <1>4, <1>6, <1>7, <1>8, <1>9, <1>10 DEF PaymentStep

(* A step of processWebhook: paid confirms the payment's booking.          *)
LEMMA MadeWebhook ==
    ASSUME TypeInvariant, TypeInvariant', MoneyInvariant, Made, NEW c \in Calls, WebhookStep(c)
    PROVE  Made' /\ Lives
<1> DEFINE p == call[c].p
<1>1. call[c] \in Call /\ call' \in [Calls -> Call] /\ CarriesItsIds(call[c])
  BY DEF TypeInvariant, TypeOK, CallsCarryIds
<1>2. Knows(call[c], payment, order, sent) /\ Serves(call[c], booking)
  BY DEF MoneyInvariant, Made
<1>3. ASSUME NEW t, Goto(c, t) PROVE t \in Call
  BY <1>1, <1>3 DEF Goto, TypeInvariant, TypeOK
<1>4. ASSUME NEW d \in Events, Deliver(c, d) PROVE Made' /\ Lives
  <2> DEFINE t == [Idle EXCEPT !.at = "register", !.e = d]
  <2>1. Goto(c, t) /\ UNCHANGED <<payment, booking>> /\ Serves(t, booking)
    BY <1>4 DEF Deliver, tables, Idle, Serves, OfABooking
  <2> HIDE DEF t
  <2> QED
    BY <1>3, <2>1, OnlyCallsMade
<1>5. ASSUME NEW q \in Payments \cup {Null}, Register(c, q) PROVE Made' /\ Lives
  <2> DEFINE t == [call[c] EXCEPT !.at = "apply", !.p = q,
                        !.seen = IF q = Null THEN "absent" ELSE payment[q].status]
  <2>1. t.at = "apply" /\ t.b = call[c].b
    BY <1>1 DEF Call
  <2>2. Goto(c, t) /\ UNCHANGED <<payment, booking>>
    BY <1>5 DEF Register, tables
  <2> HIDE DEF t
  <2>3. Serves(t, booking)
    BY <1>2, <2>1 DEF Serves, OfABooking
  <2> QED
    BY <1>3, <2>2, <2>3, OnlyCallsMade
<1>6. CASE Ignore(c) \/ NoChange(c) \/ CaptureOnly(c) \/ RefundWebhook(c)
  <2>1. Goto(c, Idle) /\ UNCHANGED <<payment, booking>>
    BY <1>6 DEF Ignore, NoChange, CaptureOnly, RefundWebhook, Finish, tables
  <2> QED
    BY <2>1, IdleServes, OnlyCallsMade
<1>7. CASE Apply(c)
  <2> DEFINE new == StatusOf(call[c].e.kind)
             b == payment[p].booking
             capture == IF call[c].e.kind = "captured" /\ p \notin Wompi
                        THEN call[c].e.id ELSE payment[p].capture
             row == [payment[p] EXCEPT !.status = new, !.capture = capture]
  <2>1. p \in Payments /\ payment[p].status # "absent"
    BY <1>2, <1>7 DEF Apply, Knows
  <2>2. payment[p] \in PaymentRow /\ b \in Bookings /\ booking[b] # "absent"
    BY <2>1 DEF TypeInvariant, TypeOK, MoneyInvariant, RowsHold, Made
  <2>3. payment' = [payment EXCEPT ![p] = row] /\ Goto(c, Idle)
    BY <1>7 DEF Apply, Finish
  <2>4. row.booking = b
    <3> HIDE DEF new, capture
    <3> QED
      BY <2>2 DEF PaymentRow
  <2>5. booking' = booking \/ booking' = [booking EXCEPT ![b] = "confirmed"]
    BY <1>7 DEF Apply, ConfirmBooking
  <2>6. Lives /\ BookingsStay
    BY <2>2, <2>5, SameLife, BecomesLife
  <2>7. /\ \A q \in Payments : KeepsItsBooking(q)
        /\ \A q \in Payments : payment'[q].status # "absent" => payment'[q].booking \in Bookings
    <3> HIDE DEF row, p
    <3> QED
      BY <2>1, <2>3, <2>4, RowKept
  <2> QED
    BY <2>3, <2>6, <2>7, IdleServes, StaysMade
<1> QED
  BY <1>4, <1>5, <1>6, <1>7 DEF WebhookStep

(* A step of cancelBooking: at its end the booking is cancelled.           *)
LEMMA MadeCancel ==
    ASSUME TypeInvariant, TypeInvariant', MoneyInvariant, Made, NEW c \in Calls, CancelStep(c)
    PROVE  Made' /\ Lives
<1>1. call[c] \in Call /\ call' \in [Calls -> Call] /\ CarriesItsIds(call[c])
  BY DEF TypeInvariant, TypeOK, CallsCarryIds
<1>2. Knows(call[c], payment, order, sent) /\ Serves(call[c], booking)
  BY DEF MoneyInvariant, Made
<1>3. ASSUME NEW t, Goto(c, t) PROVE t \in Call
  BY <1>1, <1>3 DEF Goto, TypeInvariant, TypeOK
<1>4. ASSUME NEW b \in Bookings, NEW p \in Payments \cup {Null}, CancelBooking(c, b, p)
      PROVE  Made' /\ Lives
  <2> DEFINE seen == IF p = Null THEN "absent" ELSE payment[p].status
             t == [Idle EXCEPT !.b = b, !.p = p, !.seen = seen,
                       !.at = CASE seen = "paid" -> "refund"
                                [] seen \in {"pending", "authorized"} -> "void"
                                [] OTHER -> "close"]
  <2>1. t.b = b
    BY DEF Idle
  <2>2. Goto(c, t) /\ booking[b] # "absent" /\ UNCHANGED <<payment, booking>>
    BY <1>4 DEF CancelBooking, tables
  <2> HIDE DEF t
  <2>3. Serves(t, booking)
    BY <2>1, <2>2, ConstantsAssumption DEF Serves
  <2> QED
    BY <1>3, <2>2, <2>3, OnlyCallsMade
<1>5. CASE CancelPayment(c)
  <2> DEFINE p == call[c].p
             t == [call[c] EXCEPT !.o = payment[p].order,
                       !.at = CASE payment[p].status \notin {"pending", "authorized"} -> "close"
                                [] p \in Wompi \/ payment[p].order = Null -> "cancel"
                                [] OTHER -> "unbind"]
  <2>1. t.b = call[c].b
    BY <1>1 DEF Call
  <2>2. Goto(c, t) /\ call[c].at = "void" /\ UNCHANGED <<payment, booking>>
    BY <1>5 DEF CancelPayment, tables
  <2> HIDE DEF t
  <2>3. Serves(t, booking)
    BY <1>2, <2>1, <2>2 DEF Serves, OfABooking
  <2> QED
    BY <1>3, <2>2, <2>3, OnlyCallsMade
<1>6. CASE ProviderVoids(c)
  <2>1. PICK s \in {"cancel", "close"} : Step(c, s)
    BY <1>6 DEF ProviderVoids
  <2>2. UNCHANGED <<payment, booking>> /\ call[c].at = "unbind"
    BY <1>6 DEF ProviderVoids, tables
  <2> QED
    BY <2>1, <2>2, StepServes, OnlyCallsMade DEF Step, Steps, OfABooking
<1>7. CASE WriteCancelled(c)
  <2>1. call[c].p \in Payments /\ payment[call[c].p].status # "absent"
    BY <1>1, <1>2, <1>7 DEF WriteCancelled, CarriesItsIds, Knows, OfAPayment
  <2>2. /\ \A q \in Payments : KeepsItsBooking(q)
        /\ \A q \in Payments : payment'[q].status # "absent" => payment'[q].booking \in Bookings
    BY <1>7, <2>1, StatusKept DEF WriteCancelled
  <2>3. UNCHANGED booking /\ Step(c, "close") /\ call[c].at = "cancel"
    BY <1>7 DEF WriteCancelled
  <2>4. \E t \in Call : Goto(c, t) /\ Serves(t, booking)
    BY <2>3, StepServes DEF Step, Steps, OfABooking
  <2> QED
    BY <2>2, <2>3, <2>4, SameLife, StaysMade
<1>8. CASE CloseBooking(c)
  <2>1. PICK b \in Bookings : b = call[c].b /\ booking[b] # "absent"
    BY <1>1, <1>2, <1>8 DEF CloseBooking, Serves, OfABooking, Call
  <2>2. booking' = [booking EXCEPT ![b] = "cancelled"] /\ Goto(c, Idle) /\ UNCHANGED payment
    BY <1>8, <2>1 DEF CloseBooking, Finish
  <2>3. Lives /\ BookingsStay
    BY <2>1, <2>2, BecomesLife
  <2>4. /\ \A q \in Payments : KeepsItsBooking(q)
        /\ \A q \in Payments : payment'[q].status # "absent" => payment'[q].booking \in Bookings
    BY <2>2 DEF KeepsItsBooking, MoneyInvariant, RowsHold
  <2> QED
    BY <2>2, <2>3, <2>4, IdleServes, StaysMade
<1> QED
  BY <1>4, <1>5, <1>6, <1>7, <1>8 DEF CancelStep

(* A step of createRefund: it closes a booking only for cancelBooking.     *)
LEMMA MadeRefund ==
    ASSUME TypeInvariant, TypeInvariant', MoneyInvariant, Made, NEW c \in Calls, RefundStep(c)
    PROVE  Made' /\ Lives
<1>1. call[c] \in Call /\ call' \in [Calls -> Call]
  BY DEF TypeInvariant, TypeOK
<1>2. Serves(call[c], booking)
  BY DEF Made
<1>3. ASSUME NEW t, Goto(c, t) PROVE t \in Call
  BY <1>1, <1>3 DEF Goto, TypeInvariant, TypeOK
<1>4. ASSUME NEW q \in Payments, NEW amount \in 1 .. Price, NEW r \in Refunds,
             StartRefund(c, q, amount, r)
      PROVE  Made' /\ Lives
  <2> DEFINE t == [Idle EXCEPT !.at = "repay", !.p = q, !.o = Repayable(q),
                               !.amount = amount, !.r = r]
  <2>1. Goto(c, t) /\ UNCHANGED <<payment, booking>>
    BY <1>4 DEF StartRefund, tables
  <2>2. t.at = "repay" /\ t.b = Null
    BY DEF Idle
  <2> HIDE DEF t
  <2>3. Serves(t, booking)
    BY <2>2 DEF Serves, OfABooking
  <2> QED
    BY <1>3, <2>1, <2>3, OnlyCallsMade
<1>5. ASSUME NEW r \in Refunds, RefundForCancel(c, r) PROVE Made' /\ Lives
  <2> DEFINE t == [call[c] EXCEPT !.at = "repay", !.o = Repayable(call[c].p),
                                  !.amount = Price, !.r = r]
  <2>1. Goto(c, t) /\ UNCHANGED <<payment, booking>>
    BY <1>5 DEF RefundForCancel, tables
  <2>2. t.at = "repay" /\ t.b = call[c].b
    BY <1>1 DEF Call
  <2> HIDE DEF t
  <2>3. Serves(t, booking)
    BY <1>2, <2>2 DEF Serves, OfABooking
  <2> QED
    BY <1>3, <2>1, <2>3, OnlyCallsMade
<1>6. ASSUME NEW state \in {"pending", "completed", "failed"}, ProviderRepays(c, state)
      PROVE  Made' /\ Lives
  <2> DEFINE t == [call[c] EXCEPT !.at = "record", !.got = RowStatus(state)]
  <2>1. (Goto(c, t) \/ Goto(c, Idle)) /\ UNCHANGED <<payment, booking>>
    BY <1>6 DEF ProviderRepays, Finish, tables
  <2>2. t.at = "record" /\ t.b = call[c].b
    BY <1>1 DEF Call
  <2> HIDE DEF t
  <2>3. Serves(t, booking)
    BY <1>2, <2>2 DEF Serves, OfABooking
  <2> QED
    BY <1>3, <2>1, <2>3, IdleServes, OnlyCallsMade
<1>7. CASE RefundFails(c)
  BY <1>7, IdleServes, OnlyCallsMade DEF RefundFails, Finish, tables
<1>8. CASE RecordRefund(c)
  <2>1. UNCHANGED <<payment, booking>>
    BY <1>8 DEF RecordRefund
  <2>2. CASE call[c].b = Null
    BY <1>8, <2>1, <2>2, IdleServes, OnlyCallsMade DEF RecordRefund, Finish
  <2>3. CASE call[c].b # Null
    BY <1>8, <2>1, <2>3, StepServes, OnlyCallsMade DEF RecordRefund, Step, Steps
  <2> QED
    BY <2>2, <2>3
<1> QED
  BY <1>4, <1>5, <1>6, <1>7, <1>8 DEF RefundStep

(* A step of the reconciliation: it confirms a pending booking.            *)
LEMMA MadeReconcile ==
    ASSUME TypeInvariant, TypeInvariant', MoneyInvariant, Made, NEW c \in Calls,
           ReconcileStep(c)
    PROVE  Made' /\ Lives
<1>1. call[c] \in Call /\ call' \in [Calls -> Call] /\ CarriesItsIds(call[c])
  BY DEF TypeInvariant, TypeOK, CallsCarryIds
<1>2. Knows(call[c], payment, order, sent)
  BY DEF MoneyInvariant
<1>3. ASSUME NEW t, Goto(c, t) PROVE t \in Call
  BY <1>1, <1>3 DEF Goto, TypeInvariant, TypeOK
<1>7. Serves(call[c], booking)
  BY DEF Made
<1>4. ASSUME NEW q \in Payments, SelectPayment(c, q) PROVE Made' /\ Lives
  <2> DEFINE t == [Idle EXCEPT !.at = "inquire", !.p = q, !.o = payment[q].order,
                               !.seen = payment[q].status]
  <2>1. Goto(c, t) /\ UNCHANGED <<payment, booking>>
    BY <1>4 DEF SelectPayment, tables
  <2>2. t.at = "inquire" /\ t.b = Null
    BY DEF Idle
  <2> HIDE DEF t
  <2>3. Serves(t, booking)
    BY <2>2 DEF Serves, OfABooking
  <2> QED
    BY <1>3, <2>1, <2>3, OnlyCallsMade
<1>6. CASE Inquire(c)
  <2>1. PICK got : Goto(c, [call[c] EXCEPT !.at = "correct", !.got = got])
    BY <1>6 DEF Inquire
  <2> DEFINE t == [call[c] EXCEPT !.at = "correct", !.got = got]
  <2>2. t.at = "correct" /\ t.b = call[c].b /\ Goto(c, t) /\ UNCHANGED <<payment, booking>>
    BY <1>1, <1>6, <2>1 DEF Inquire, Call, tables
  <2> HIDE DEF t
  <2>3. Serves(t, booking)
    BY <1>7, <2>2 DEF Serves, OfABooking
  <2> QED
    BY <1>3, <2>2, <2>3, OnlyCallsMade
<1>5. CASE Correct(c)
  <2> DEFINE p == call[c].p
             got == call[c].got
             b == payment[p].booking
  <2>1. p \in Payments /\ payment[p].status # "absent"
    BY <1>1, <1>2, <1>5 DEF Correct, CarriesItsIds, Knows, OfAPayment
  <2>2. b \in Bookings /\ booking[b] # "absent"
    BY <2>1 DEF MoneyInvariant, RowsHold, Made
  <2>3. booking' = booking \/ booking' = [booking EXCEPT ![b] = "confirmed"]
    BY <1>5 DEF Correct
  <2>4. Lives /\ BookingsStay
    BY <2>2, <2>3, SameLife, BecomesLife
  <2>5. payment' = payment \/ SetStatus(p, got)
    BY <1>5 DEF Correct, SetStatus
  <2>6. /\ \A q \in Payments : KeepsItsBooking(q)
        /\ \A q \in Payments : payment'[q].status # "absent" => payment'[q].booking \in Bookings
    <3>1. CASE payment' = payment
      BY <3>1 DEF KeepsItsBooking, MoneyInvariant, RowsHold
    <3>2. CASE SetStatus(p, got)
      <4> HIDE DEF p, got
      <4> QED
        BY <2>1, <3>2, StatusKept
    <3> QED
      BY <2>5, <3>1, <3>2
  <2>7. Goto(c, Idle)
    BY <1>5 DEF Correct, Finish
  <2> QED
    BY <2>4, <2>6, <2>7, IdleServes, StaysMade
<1> QED
  BY <1>4, <1>5, <1>6 DEF ReconcileStep

(* What the users, the sweep and the providers do.                         *)
LEMMA MadeOutside ==
    ASSUME TypeInvariant, MoneyInvariant, Made,
           \/ \E c \in Calls : Abort(c)
           \/ BookingMoves
           \/ \E o \in Orders : ProviderMoves(o)
           \/ \E r \in Refunds : RefundEnds(r)
    PROVE  Made' /\ Happens
<1>1. ASSUME NEW c \in Calls, Abort(c) PROVE Made' /\ Lives
  BY <1>1, IdleServes, OnlyCallsMade DEF Abort, Finish, tables
<1>2. ASSUME BookingMoves PROVE Made' /\ Happens
  <2>1. BookingsStay /\ UNCHANGED <<payment, call>>
    BY <1>2, AloneMoves DEF BookingMoves, BookingsStay
  <2>2. /\ \A p \in Payments : KeepsItsBooking(p)
        /\ \A p \in Payments : payment'[p].status # "absent" => payment'[p].booking \in Bookings
    BY <2>1 DEF KeepsItsBooking, MoneyInvariant, RowsHold
  <2> QED
    BY <1>2, <2>1, <2>2, StaysMade DEF Happens
<1>3. ASSUME NEW o \in Orders, ProviderMoves(o) PROVE UNCHANGED <<booking, payment, call>>
  BY <1>3 DEF ProviderMoves, Move, HoldCapture, tables
<1>4. ASSUME NEW r \in Refunds, RefundEnds(r) PROVE UNCHANGED <<booking, payment, call>>
  BY <1>4 DEF RefundEnds, tables
<1>5. UNCHANGED <<booking, payment, call>> => Made' /\ Lives
  BY OnlyCallsMade
<1>6. Lives => Happens
  BY DEF Lives, Happens
<1> QED
  BY <1>1, <1>2, <1>3, <1>4, <1>5, <1>6

(* At the start there is no booking, and nobody is at work for one.        *)
LEMMA MadeInit == Init => Made
BY DEF Init, Made, NoPayment, Serves, Idle, OfABooking

(* Every step keeps the invariant, and is a step of the bookings' life or  *)
(* none of theirs.                                                         *)
LEMMA MadeNext ==
    ASSUME TypeInvariant, TypeInvariant', MoneyInvariant, Made, [Next]_vars
    PROVE  Made' /\ Happens
<1>1. Lives => Happens
  BY DEF Lives, Happens
<1>2. CASE UNCHANGED vars
  BY <1>1, <1>2, OnlyCallsMade DEF vars
<1>3. CASE Next
  BY <1>1, <1>3, MadePayment, MadeWebhook, MadeCancel, MadeRefund, MadeReconcile, MadeOutside
     DEF Next
<1> QED
  BY <1>2, <1>3

-----------------------------------------------------------------------------
(* What the users, the sweep and the providers do keeps the invariant.     *)
LEMMA MoneyOutside ==
    ASSUME TypeInvariant, TypeInvariant', MoneyInvariant, Made,
           \/ \E c \in Calls : Abort(c)
           \/ BookingMoves
           \/ \E o \in Orders : ProviderMoves(o)
           \/ \E r \in Refunds : RefundEnds(r),
           reconciled \subseteq reconciled'
    PROVE  MoneyInvariant'
<1>1. ASSUME NEW c \in Calls, Abort(c) PROVE MoneyInvariant'
  <2>1. Goto(c, Idle) /\ UNCHANGED <<payment, order, sent, booking>>
    BY <1>1 DEF Abort, Finish, tables, provider
  <2>2. Idle \in Call /\ Knows(Idle, payment, order, sent)
    BY IdleTyped DEF Knows, Idle, OfAPayment
  <2> QED
    BY <2>1, <2>2, KeepsTables
<1>2. ASSUME BookingMoves PROVE MoneyInvariant'
  <2>1. UNCHANGED <<payment, order, sent, call, reconciled>>
    BY <1>2 DEF BookingMoves, provider
  <2>2. ASSUME NEW p \in Payments, payment[p].status = "paid"
        PROVE  booking'[payment[p].booking] # "pending"
    <3>1. /\ payment[p].booking \in Bookings
          /\ booking[payment[p].booking] \notin {"pending", "absent"}
      BY <2>2 DEF MoneyInvariant, RowsHold, Made
    <3> QED
      BY <1>2, <3>1, AloneMoves
  <2>3. RowsHold'
    BY <2>1, <2>2 DEF MoneyInvariant, RowsHold, Backed
  <2> QED
    BY <2>1, <2>3 DEF MoneyInvariant, EventsHold, Knows, Backed
<1>3. ASSUME NEW o \in Orders, ProviderMoves(o) PROVE MoneyInvariant'
  <2>1. PICK from \in {"created", "approved", "held"},
             to \in {"approved", "held", "captured", "declined"} :
           /\ order[o].state = from
           /\ from = "held" => to \in Completed
           /\ order' = [order EXCEPT ![o] = [order[o] EXCEPT !.state = to]]
           /\ sent' = sent \/ sent' = sent \cup {[kind |-> to, id |-> o]}
    BY <1>3 DEF ProviderMoves, Move, HoldCapture, Completed
  <2>2. UNCHANGED <<booking, payment, call>>
    BY <1>3 DEF ProviderMoves, Move, HoldCapture, tables
  <2>3. /\ order'[o].payment = order[o].payment /\ order'[o].state = to
        /\ \A q \in Orders \ {o} : order'[q] = order[q]
    BY <2>1 DEF Order, TypeInvariant, TypeOK
  <2>4. Grows /\ (\A q \in Payments : RowAdvances(q))
    BY <2>1, <2>2, <2>3 DEF Grows, RowAdvances, Taken, Completed
  <2>5. ASSUME NEW q \in Orders, [kind |-> "captured", id |-> q] \in sent'
        PROVE  order'[q].state \in Taken
    <3>1. \/ [kind |-> "captured", id |-> q] \in sent
          \/ [kind |-> "captured", id |-> q] = [kind |-> to, id |-> o]
      BY <2>1, <2>5
    <3>2. [kind |-> "captured", id |-> q] = [kind |-> to, id |-> o] => q = o /\ to = "captured"
      OBVIOUS
    <3> QED
      BY <2>3, <2>4, <3>1, <3>2 DEF MoneyInvariant, EventsHold, Grows, Taken
  <2>6. EventsHold'
    BY <2>5 DEF EventsHold
  <2> QED
    BY <2>2, <2>4, <2>6, Keeps
<1>4. ASSUME NEW r \in Refunds, RefundEnds(r) PROVE MoneyInvariant'
  <2>1. /\ sent' = sent \/ sent' = sent \cup {[kind |-> "refunded", id |-> r]}
        /\ UNCHANGED <<booking, payment, call>>
    BY <1>4 DEF RefundEnds, tables
  <2>2. OrdersReverse
    BY <1>4, ReverseMoves DEF RefundEnds, OrdersReverse, TypeInvariant, TypeOK
  <2>3. Grows /\ (\A q \in Payments : RowAdvances(q)) /\ EventsHold'
    BY <2>1, <2>2, ReversalGrows
  <2> QED
    BY <2>1, <2>3, Keeps
<1> QED
  BY <1>1, <1>2, <1>3, <1>4

(* The invariant holds at the start.                                       *)
LEMMA MoneyInit == Init => MoneyInvariant
<1> SUFFICES ASSUME Init PROVE MoneyInvariant
  OBVIOUS
<1>1. \A c \in Calls : Knows(call[c], payment, order, sent)
  BY DEF Init, Knows, Idle, OfAPayment
<1>2. RowsHold
  BY DEF Init, RowsHold, NoPayment
<1>3. EventsHold
  BY DEF Init, EventsHold
<1> QED
  BY <1>1, <1>2, <1>3 DEF MoneyInvariant

(* No day is reconciled a second time.                                     *)
LEMMA DaysStay == [Next]_vars => reconciled \subseteq reconciled'
<1> SUFFICES ASSUME [Next]_vars PROVE reconciled \subseteq reconciled'
  OBVIOUS
<1>1. ASSUME NEW c \in Calls, PaymentStep(c) PROVE UNCHANGED reconciled
  BY <1>1 DEF PaymentStep, CheckPayment, RetryPayment, InsertPayment, ProviderCreates,
              ProviderRefuses, StoreOrder, MarkFailed, tables
<1>2. ASSUME NEW c \in Calls, WebhookStep(c) PROVE UNCHANGED reconciled
  BY <1>2 DEF WebhookStep, Deliver, Register, Ignore, NoChange, Apply, CaptureOnly,
              RefundWebhook, tables
<1>3. ASSUME NEW c \in Calls, CancelStep(c) PROVE UNCHANGED reconciled
  BY <1>3 DEF CancelStep, CancelBooking, CancelPayment, ProviderVoids, WriteCancelled,
              CloseBooking, tables
<1>4. ASSUME NEW c \in Calls, RefundStep(c) PROVE UNCHANGED reconciled
  BY <1>4 DEF RefundStep, StartRefund, RefundForCancel, ProviderRepays, RefundFails,
              RecordRefund, tables
<1>5. ASSUME NEW c \in Calls, ReconcileStep(c) PROVE reconciled \subseteq reconciled'
  BY <1>5 DEF ReconcileStep, SelectPayment, Inquire, Correct, tables
<1>6. ASSUME NEW c \in Calls, Abort(c) PROVE UNCHANGED reconciled
  BY <1>6 DEF Abort, tables
<1>7. ASSUME BookingMoves PROVE UNCHANGED reconciled
  BY <1>7 DEF BookingMoves
<1>8. ASSUME NEW o \in Orders, ProviderMoves(o) PROVE UNCHANGED reconciled
  BY <1>8 DEF ProviderMoves, Move, HoldCapture, tables
<1>9. ASSUME NEW r \in Refunds, RefundEnds(r) PROVE UNCHANGED reconciled
  BY <1>9 DEF RefundEnds, tables
<1>10. CASE UNCHANGED vars
  BY <1>10 DEF vars
<1> QED
  BY <1>1, <1>2, <1>3, <1>4, <1>5, <1>6, <1>7, <1>8, <1>9, <1>10 DEF Next

(* Every step keeps the invariant.                                         *)
LEMMA MoneyNext ==
    TypeInvariant /\ TypeInvariant' /\ MoneyInvariant /\ Made /\ [Next]_vars => MoneyInvariant'
<1> SUFFICES ASSUME TypeInvariant, TypeInvariant', MoneyInvariant, Made, [Next]_vars
             PROVE  MoneyInvariant'
  OBVIOUS
<1>1. CASE UNCHANGED vars
  BY <1>1, KeepsTables DEF vars
<1>2. CASE Next
  BY <1>2, DaysStay, MoneyPayment, MoneyWebhook, MoneyCancel, MoneyRefund, MoneyReconcile,
     MoneyOutside DEF Next
<1> QED
  BY <1>1, <1>2

(* The invariant behind the next two theorems: no payment, order, event or *)
(* call says more of the money than is so.                                 *)
THEOREM MoneyInductive == Spec => []MoneyInvariant
<1>1. TypeInvariant /\ TypeInvariant' /\ MoneyInvariant /\ Made /\ [Next]_vars => Made'
  BY MadeNext
<1> QED
  BY <1>1, TypeInit, TypeNext, MoneyInit, MoneyNext, MadeInit, PTL DEF Spec

(* All that happens to a booking while payments are at work: the core moves *)
(* it, or a settled cancellation cancels or a payment confirms one that was *)
(* made.  Payments start no booking, expire none and make none pending.    *)
THEOREM HappensTheorem ==
    Spec => [][BookingMoves \/ Life!Cancelling \/ Life!Paying]_(Life!life)
<1>1. TypeInvariant /\ TypeInvariant' /\ MoneyInvariant /\ Made /\ [Next]_vars
         => Made' /\ [BookingMoves \/ Life!Cancelling \/ Life!Paying]_(Life!life)
  BY MadeNext DEF Happens
<1> QED
  BY <1>1, TypeInit, TypeNext, MoneyInit, MoneyNext, MadeInit, PTL DEF Spec

(* So the bookings keep to the life that module Bookings implements, and   *)
(* what payments assume of the core comes true when they are put together. *)
THEOREM LifeTheorem == Spec => Life!Spec
<1>1. Init => Life!Init
  BY DEF Init, Life!Init
<1>2. [BookingMoves \/ Life!Cancelling \/ Life!Paying]_(Life!life) => [Life!Next]_(Life!life)
  BY DEF BookingMoves, Life!Next
<1> QED
  BY <1>1, <1>2, HappensTheorem, PTL DEF Spec, Life!Spec, Life!Steps

(* A payment that says paid was collected: no webhook writes paid for an   *)
(* order that was not captured, and the reconciliation only for a PayPal   *)
(* order that was completed.                                               *)
THEOREM PaidTheorem == Spec => []PaidWasCollected
<1>1. MoneyInvariant => PaidWasCollected
  BY DEF MoneyInvariant, RowsHold, PaidWasCollected, Backed, Taken
<1> QED
  BY <1>1, MoneyInductive, PTL

(* The booking of a paid payment is not pending any more.                  *)
THEOREM PaidBookingTheorem == Spec => []PaidBookingLeftPending
<1>1. MoneyInvariant => PaidBookingLeftPending
  BY DEF MoneyInvariant, RowsHold, PaidBookingLeftPending
<1> QED
  BY <1>1, MoneyInductive, PTL

-----------------------------------------------------------------------------
(* An event is applied by one delivery. *)

(* Nobody starts or ends an application when a call goes to another step   *)
(* and the log stays.                                                      *)
LEMMA ElsewhereApplied ==
    ASSUME TypeInvariant, EventAppliedOnce, NEW c \in Calls, NEW t,
           Goto(c, t), t.at # "apply", UNCHANGED log
    PROVE  EventAppliedOnce'
<1>1. call \in [Calls -> Call] /\ call' = [call EXCEPT ![c] = t]
  BY DEF TypeInvariant, TypeOK, Goto
<1>2. ASSUME NEW d \in Calls, call'[d].at = "apply" PROVE d # c /\ call'[d] = call[d]
  BY <1>1, <1>2
<1> QED
  BY <1>1, <1>2 DEF EventAppliedOnce

(* Likewise when the call only moves to a step that is named.              *)
LEMMA StepApplied ==
    ASSUME TypeInvariant, EventAppliedOnce, NEW c \in Calls, NEW s \in Steps,
           Step(c, s), s # "apply", UNCHANGED log
    PROVE  EventAppliedOnce'
<1>1. call[c] \in Call
  BY DEF TypeInvariant, TypeOK
<1> QED
  BY <1>1, StepTyped, ElsewhereApplied DEF Step

(* And when it ends.                                                       *)
LEMMA FinishApplied ==
    ASSUME TypeInvariant, EventAppliedOnce, NEW c \in Calls, Finish(c), UNCHANGED log
    PROVE  EventAppliedOnce'
<1>1. Idle.at # "apply"
  BY DEF Idle
<1> QED
  BY <1>1, ElsewhereApplied DEF Finish

(* A call that logs its own event ends, and no other call applies it.      *)
LEMMA LoggedApplied ==
    ASSUME TypeInvariant, EventAppliedOnce, NEW c \in Calls, NEW s,
           \A d \in Calls \ {c} : call[d].at = "apply" => call[d].e # call[c].e,
           log' = [log EXCEPT ![call[c].e] = s], Finish(c)
    PROVE  EventAppliedOnce'
<1>1. call \in [Calls -> Call] /\ call' = [call EXCEPT ![c] = Idle]
  BY DEF TypeInvariant, TypeOK, Finish, Goto
<1>2. Idle.at # "apply"
  BY DEF Idle
<1>3. ASSUME NEW d \in Calls, call'[d].at = "apply"
      PROVE  d # c /\ call'[d] = call[d] /\ call[d].e \in Events
  BY <1>1, <1>2, <1>3 DEF TypeInvariant, CallsCarryIds, CarriesItsIds
<1>4. log \in [Events -> {"none", "validated", "processed", "ignored"}]
  BY DEF TypeInvariant, TypeOK
<1>5. ASSUME NEW d \in Calls, call'[d].at = "apply" PROVE log'[call'[d].e] = "none"
  <2>1. d # c /\ call'[d] = call[d] /\ call[d].e \in Events
    BY <1>3, <1>5
  <2>2. log[call[d].e] = "none" /\ call[d].e # call[c].e
    BY <1>5, <2>1 DEF EventAppliedOnce
  <2> QED
    BY <1>4, <2>1, <2>2
<1> QED
  BY <1>3, <1>5 DEF EventAppliedOnce

(* A step of a delivery: it begins to apply its event only when no other   *)
(* delivery is applying it and none has logged it.                         *)
LEMMA AppliedWebhook ==
    ASSUME TypeInvariant, EventAppliedOnce, NEW c \in Calls, WebhookStep(c)
    PROVE  EventAppliedOnce'
<1>1. call \in [Calls -> Call]
  BY DEF TypeInvariant, TypeOK
<1>2. ASSUME NEW d \in Events, Deliver(c, d) PROVE EventAppliedOnce'
  <2>1. [Idle EXCEPT !.at = "register", !.e = d].at # "apply"
    BY DEF Idle
  <2> QED
    BY <1>2, <2>1, ElsewhereApplied DEF Deliver, tables
<1>3. ASSUME NEW p \in Payments \cup {Null}, Register(c, p) PROVE EventAppliedOnce'
  <2> DEFINE seen == IF p = Null THEN "absent" ELSE payment[p].status
             t == [call[c] EXCEPT !.at = "apply", !.p = p, !.seen = seen]
  <2>1. t.at = "apply" /\ t.e = call[c].e
    BY <1>1 DEF Call
  <2>2. call' = [call EXCEPT ![c] = t] /\ log' = log /\ RegisteredOnce(call[c].e)
    BY <1>3 DEF Register, Goto, tables
  <2> HIDE DEF t
  <2>3. /\ call'[c].e = call[c].e
        /\ \A d \in Calls \ {c} : call'[d] = call[d]
    BY <1>1, <2>1, <2>2
  <2> QED
    BY <2>2, <2>3 DEF RegisteredOnce, EventAppliedOnce
<1>4. CASE Ignore(c) \/ NoChange(c) \/ Apply(c)
  <2>1. PICK s \in {"ignored", "processed"} : log' = [log EXCEPT ![call[c].e] = s]
    BY <1>4 DEF Ignore, NoChange, Apply
  <2>2. call[c].at = "apply" /\ Finish(c)
    BY <1>4 DEF Ignore, NoChange, Apply
  <2> QED
    BY <2>1, <2>2, LoggedApplied DEF EventAppliedOnce
<1>5. CASE CaptureOnly(c)
  BY <1>5, FinishApplied DEF CaptureOnly, tables
<1>6. CASE RefundWebhook(c)
  <2>1. PICK s \in {"ignored", "validated"} : log' = [log EXCEPT ![call[c].e] = s]
    BY <1>6 DEF RefundWebhook
  <2>2. Finish(c) /\ RegisteredOnce(call[c].e)
    BY <1>6 DEF RefundWebhook
  <2> QED
    BY <2>1, <2>2, LoggedApplied DEF RegisteredOnce
<1> QED
  BY <1>2, <1>3, <1>4, <1>5, <1>6 DEF WebhookStep

(* createPayment applies no event.                                         *)
LEMMA AppliedPayment ==
    ASSUME TypeInvariant, EventAppliedOnce, NEW c \in Calls, PaymentStep(c)
    PROVE  EventAppliedOnce'
<1>1. call[c] \in Call
  BY DEF TypeInvariant, TypeOK
<1>2. ASSUME NEW b \in Bookings, NEW k \in Keys \cup {Null}, CheckPayment(c, b, k)
      PROVE  EventAppliedOnce'
  <2> DEFINE t == [Idle EXCEPT !.at = "insert", !.b = b, !.key = k]
  <2>1. t.at # "apply"
    BY <1>1 DEF Idle, Call
  <2>2. Goto(c, t) /\ UNCHANGED log
    BY <1>2 DEF CheckPayment, tables
  <2> QED
    BY <2>1, <2>2, ElsewhereApplied
<1>3. ASSUME NEW b \in Bookings, NEW k \in Keys \cup {Null}, NEW p \in Payments,
             RetryPayment(c, b, k, p)
      PROVE  EventAppliedOnce'
  <2> DEFINE t == [Idle EXCEPT !.at = "ask", !.p = p]
  <2>1. t.at # "apply"
    BY <1>1 DEF Idle, Call
  <2>2. Goto(c, t) /\ UNCHANGED log
    BY <1>3 DEF RetryPayment, tables
  <2> QED
    BY <2>1, <2>2, ElsewhereApplied
<1>4. ASSUME NEW p \in Payments, InsertPayment(c, p) PROVE EventAppliedOnce'
  <2> DEFINE t == [Idle EXCEPT !.at = "ask", !.p = p]
  <2>1. t.at # "apply"
    BY <1>1 DEF Idle, Call
  <2>2. Goto(c, t) /\ UNCHANGED log
    BY <1>4 DEF InsertPayment, tables
  <2> QED
    BY <2>1, <2>2, ElsewhereApplied
<1>5. ASSUME NEW o \in Orders, ProviderCreates(c, o) PROVE EventAppliedOnce'
  <2>1. CASE Goto(c, [call[c] EXCEPT !.at = "store", !.o = o])
    <3> DEFINE t == [call[c] EXCEPT !.at = "store", !.o = o]
    <3>1. t.at # "apply" /\ Goto(c, t) /\ UNCHANGED log
      BY <1>1, <1>5, <2>1 DEF ProviderCreates, Call, tables
    <3> QED
      BY <3>1, ElsewhereApplied
  <2>2. CASE Step(c, "fail")
    BY <1>5, <2>2, StepApplied DEF ProviderCreates, Steps, tables
  <2> QED
    BY <1>5, <2>1, <2>2 DEF ProviderCreates
<1>6. CASE ProviderRefuses(c)
  BY <1>6, StepApplied DEF ProviderRefuses, Steps, tables
<1>7. CASE StoreOrder(c) \/ MarkFailed(c)
  BY <1>7, FinishApplied DEF StoreOrder, MarkFailed, tables
<1> QED
  BY <1>2, <1>3, <1>4, <1>5, <1>6, <1>7 DEF PaymentStep

(* Nor does cancelBooking.                                                 *)
LEMMA AppliedCancel ==
    ASSUME TypeInvariant, EventAppliedOnce, NEW c \in Calls, CancelStep(c)
    PROVE  EventAppliedOnce'
<1>1. call[c] \in Call
  BY DEF TypeInvariant, TypeOK
<1>2. ASSUME NEW b \in Bookings, NEW p \in Payments \cup {Null}, CancelBooking(c, b, p)
      PROVE  EventAppliedOnce'
  <2> DEFINE seen == IF p = Null THEN "absent" ELSE payment[p].status
             at == CASE seen = "paid" -> "refund"
                     [] seen \in {"pending", "authorized"} -> "void"
                     [] OTHER -> "close"
             t == [Idle EXCEPT !.b = b, !.p = p, !.seen = seen, !.at = at]
  <2>1. at # "apply"
    OBVIOUS
  <2>2. t.at = at
    BY DEF Idle
  <2>3. Goto(c, t) /\ UNCHANGED log
    BY <1>2 DEF CancelBooking, tables
  <2> QED
    BY <2>1, <2>2, <2>3, ElsewhereApplied
<1>3. CASE CancelPayment(c)
  <2> DEFINE p == call[c].p
             at == CASE payment[p].status \notin {"pending", "authorized"} -> "close"
                     [] p \in Wompi \/ payment[p].order = Null -> "cancel"
                     [] OTHER -> "unbind"
             t == [call[c] EXCEPT !.o = payment[p].order, !.at = at]
  <2>1. at # "apply"
    OBVIOUS
  <2>2. t.at = at
    BY <1>1 DEF Call
  <2>3. Goto(c, t) /\ UNCHANGED log
    BY <1>3 DEF CancelPayment, tables
  <2> QED
    BY <2>1, <2>2, <2>3, ElsewhereApplied
<1>4. CASE ProviderVoids(c)
  <2>1. UNCHANGED log /\ \E s \in {"cancel", "close"} : Step(c, s)
    BY <1>4 DEF ProviderVoids, tables
  <2> QED
    BY <2>1, StepApplied DEF Steps
<1>5. CASE WriteCancelled(c)
  BY <1>5, StepApplied DEF WriteCancelled, Steps, tables
<1>6. CASE CloseBooking(c)
  BY <1>6, FinishApplied DEF CloseBooking, tables
<1> QED
  BY <1>2, <1>3, <1>4, <1>5, <1>6 DEF CancelStep

(* Nor does createRefund.                                                  *)
LEMMA AppliedRefund ==
    ASSUME TypeInvariant, EventAppliedOnce, NEW c \in Calls, RefundStep(c)
    PROVE  EventAppliedOnce'
<1>1. call[c] \in Call
  BY DEF TypeInvariant, TypeOK
<1>2. ASSUME NEW p \in Payments, NEW amount \in 1 .. Price, NEW r \in Refunds,
             StartRefund(c, p, amount, r)
      PROVE  EventAppliedOnce'
  <2> DEFINE t == [Idle EXCEPT !.at = "repay", !.p = p, !.o = Repayable(p),
                         !.amount = amount, !.r = r]
  <2>1. t.at # "apply"
    BY <1>1 DEF Idle, Call
  <2>2. Goto(c, t) /\ UNCHANGED log
    BY <1>2 DEF StartRefund, tables
  <2> QED
    BY <2>1, <2>2, ElsewhereApplied
<1>3. ASSUME NEW r \in Refunds, RefundForCancel(c, r) PROVE EventAppliedOnce'
  <2> DEFINE t == [call[c] EXCEPT !.at = "repay", !.o = Repayable(call[c].p),
                            !.amount = Price, !.r = r]
  <2>1. t.at # "apply"
    BY <1>1 DEF Idle, Call
  <2>2. Goto(c, t) /\ UNCHANGED log
    BY <1>3 DEF RefundForCancel, tables
  <2> QED
    BY <2>1, <2>2, ElsewhereApplied
<1>4. ASSUME NEW state \in {"pending", "completed", "failed"}, ProviderRepays(c, state)
      PROVE  EventAppliedOnce'
  <2> DEFINE t == [call[c] EXCEPT !.at = "record", !.got = RowStatus(state)]
  <2>1. t.at # "apply"
    BY <1>1 DEF Call
  <2>2. UNCHANGED log /\ (Goto(c, t) \/ Finish(c))
    BY <1>4 DEF ProviderRepays, tables
  <2> QED
    BY <2>1, <2>2, ElsewhereApplied, FinishApplied
<1>5. CASE RefundFails(c)
  BY <1>5, FinishApplied DEF RefundFails, tables
<1>6. CASE RecordRefund(c)
  <2>1. UNCHANGED log /\ (Finish(c) \/ Step(c, "close"))
    BY <1>6 DEF RecordRefund
  <2> QED
    BY <2>1, FinishApplied, StepApplied DEF Steps
<1> QED
  BY <1>2, <1>3, <1>4, <1>5, <1>6 DEF RefundStep

(* Nor does the reconciliation.                                            *)
LEMMA AppliedReconcile ==
    ASSUME TypeInvariant, EventAppliedOnce, NEW c \in Calls, ReconcileStep(c)
    PROVE  EventAppliedOnce'
<1>1. call[c] \in Call
  BY DEF TypeInvariant, TypeOK
<1>2. CASE Correct(c)
  BY <1>2, FinishApplied DEF Correct, tables
<1>3. ASSUME NEW p \in Payments, SelectPayment(c, p) PROVE EventAppliedOnce'
  <2> DEFINE t == [Idle EXCEPT !.at = "inquire", !.p = p, !.o = payment[p].order,
                               !.seen = payment[p].status]
  <2>1. t.at # "apply"
    BY <1>1 DEF Idle, Call
  <2>2. Goto(c, t) /\ UNCHANGED log
    BY <1>3 DEF SelectPayment, tables
  <2> QED
    BY <2>1, <2>2, ElsewhereApplied
<1>4. CASE Inquire(c)
  <2>1. PICK got : Goto(c, [call[c] EXCEPT !.at = "correct", !.got = got])
    BY <1>4 DEF Inquire
  <2> DEFINE t == [call[c] EXCEPT !.at = "correct", !.got = got]
  <2>2. t.at # "apply" /\ Goto(c, t) /\ UNCHANGED log
    BY <1>1, <1>4, <2>1 DEF Inquire, Call, tables
  <2> QED
    BY <2>2, ElsewhereApplied
<1> QED
  BY <1>2, <1>3, <1>4 DEF ReconcileStep

(* Every step keeps it.                                                    *)
LEMMA AppliedNext == TypeInvariant /\ EventAppliedOnce /\ [Next]_vars => EventAppliedOnce'
<1> SUFFICES ASSUME TypeInvariant, EventAppliedOnce, [Next]_vars
             PROVE  EventAppliedOnce'
  OBVIOUS
<1>1. CASE UNCHANGED vars
  BY <1>1 DEF vars, EventAppliedOnce
<1>2. CASE Next
  <2>1. ASSUME UNCHANGED <<call, log>> PROVE EventAppliedOnce'
    BY <2>1 DEF EventAppliedOnce
  <2>2. ASSUME BookingMoves PROVE UNCHANGED <<call, log>>
    BY <2>2 DEF BookingMoves
  <2>3. ASSUME NEW o \in Orders, ProviderMoves(o) PROVE UNCHANGED <<call, log>>
    BY <2>3 DEF ProviderMoves, Move, HoldCapture, tables
  <2>4. ASSUME NEW r \in Refunds, RefundEnds(r) PROVE UNCHANGED <<call, log>>
    BY <2>4 DEF RefundEnds, tables
  <2>5. ASSUME NEW c \in Calls, Abort(c) PROVE EventAppliedOnce'
    BY <2>5, FinishApplied DEF Abort, tables
  <2> QED
    BY <1>2, <2>1, <2>2, <2>3, <2>4, <2>5, AppliedPayment, AppliedWebhook, AppliedCancel,
       AppliedRefund, AppliedReconcile DEF Next
<1> QED
  BY <1>1, <1>2

(* An event is applied by one delivery at a time, and by none once it is   *)
(* logged: the unique index decides, and not the look-up before it.        *)
THEOREM EventTheorem == Spec => []EventAppliedOnce
<1>1. Init => EventAppliedOnce
  BY DEF Init, Idle, EventAppliedOnce
<1> QED
  BY <1>1, TypeInit, TypeNext, AppliedNext, PTL DEF Spec

-----------------------------------------------------------------------------
(* Refund rows say what the provider did, and a booking whose payment was  *)
(* paid is closed after its refund. *)

Repaying(t) == t.at \in {"repay", "record"}

(* What a call that cancels or refunds relies on; done: the refunds at the *)
(* provider.                                                               *)
FitsRefund(t, rows, done, ords) ==
    /\ t.at \in {"void", "unbind", "cancel"} => t.seen # "paid"
    /\ Repaying(t) => rows[t.r] = NoRefund
    /\ t.at = "repay" => /\ done[t.r] = NotRepaid
                         /\ t.o # Null => ords[t.o].payment = t.p
    /\ t.at = "record" =>
          /\ done[t.r].order # Null /\ ords[done[t.r].order].payment = t.p
          /\ t.got = "pending" => done[t.r].state # "none"
          /\ t.got = "processed" => done[t.r].state = "completed"
    /\ t.at = "close" /\ t.seen = "paid" =>
          \E r \in Refunds : rows[r].status # "absent" /\ rows[r].payment = t.p

RefundTables ==
    /\ RefundRowsAreBacked
    /\ \A r \in Refunds :
          /\ refund[r].status # "absent" => refund[r].payment \in Payments
          /\ [kind |-> "refunded", id |-> r] \in sent => repaid[r].state = "completed"
    /\ \A p \in Payments :
          payment[p].capture # Null => order[payment[p].capture].payment = p

Apart ==
    \A c, d \in Calls :
        c # d /\ Repaying(call[c]) /\ Repaying(call[d]) => call[c].r # call[d].r

RefundCalls == \A c \in Calls : FitsRefund(call[c], refund, repaid, order)

RefundInvariant == RefundTables /\ RefundCalls /\ Apart

(* What no step takes back: an order's payment, and a refund's.            *)
OrdersKeep ==
    \A o \in Orders : order[o].payment # Null => order'[o].payment = order[o].payment

RefundsKeep ==
    \A r \in Refunds :
        refund[r].status # "absent" =>
            refund'[r].status # "absent" /\ refund'[r].payment = refund[r].payment

(* Nobody else writes a refund; the provider may complete it.              *)
LeftAlone(r) ==
    /\ refund'[r] = refund[r]
    /\ \/ repaid'[r] = repaid[r]
       \/ /\ repaid[r].state = "pending" /\ repaid'[r].state \in {"completed", "failed"}
          /\ repaid'[r].order = repaid[r].order

(* How a payment's capture may change.                                     *)
CapturesAdvance ==
    \A p \in Payments :
        \/ payment'[p].capture \in {payment[p].capture, Null}
        \/ order'[payment'[p].capture].payment = p

(* What a call relies on stays so while it waits.                          *)
LEMMA FitStays ==
    ASSUME TypeInvariant, OrdersKeep, RefundsKeep,
           NEW t \in Call, CarriesItsIds(t), FitsRefund(t, refund, repaid, order),
           Repaying(t) => LeftAlone(t.r)
    PROVE  FitsRefund(t, refund', repaid', order')
<1>1. Repaying(t) => t.r \in Refunds /\ t.p \in Payments
  BY DEF CarriesItsIds, Repaying, OfAPayment
<1>2. Repaying(t) => refund'[t.r] = NoRefund
  BY DEF FitsRefund, LeftAlone
<1>3. ASSUME t.at = "repay"
      PROVE  repaid'[t.r] = NotRepaid /\ (t.o # Null => order'[t.o].payment = t.p)
  <2>1. repaid'[t.r] = NotRepaid
    BY <1>3 DEF FitsRefund, LeftAlone, Repaying, NotRepaid
  <2>2. t.o \in Orders \cup {Null}
    BY DEF Call
  <2> QED
    BY <1>1, <1>3, <2>1, <2>2, ConstantsAssumption DEF FitsRefund, OrdersKeep, Repaying
<1>4. ASSUME t.at = "record"
      PROVE  /\ repaid'[t.r].order # Null /\ order'[repaid'[t.r].order].payment = t.p
             /\ t.got = "pending" => repaid'[t.r].state # "none"
             /\ t.got = "processed" => repaid'[t.r].state = "completed"
  <2>1. repaid[t.r].order \in Orders \cup {Null}
    BY <1>1, <1>4 DEF TypeInvariant, TypeOK, Repaid, Repaying
  <2>2. repaid'[t.r].order = repaid[t.r].order
    BY <1>4 DEF LeftAlone, Repaying
  <2>3. t.p \in Payments
    BY <1>1, <1>4 DEF Repaying
  <2>4. order'[repaid'[t.r].order].payment = t.p
    BY <1>4, <2>1, <2>2, <2>3, ConstantsAssumption DEF FitsRefund, OrdersKeep
  <2> QED
    BY <1>4, <2>2, <2>4 DEF FitsRefund, LeftAlone, Repaying
<1>5. t.at = "close" /\ t.seen = "paid" =>
        \E r \in Refunds : refund'[r].status # "absent" /\ refund'[r].payment = t.p
  BY DEF FitsRefund, RefundsKeep
<1> QED
  BY <1>2, <1>3, <1>4, <1>5 DEF FitsRefund

(* The calls fit when one moves and its fellows' refunds are left alone.   *)
LEMMA CallsKeepFit ==
    ASSUME TypeInvariant, RefundInvariant, OrdersKeep, RefundsKeep,
           NEW c \in Calls, NEW t, Goto(c, t), FitsRefund(t, refund', repaid', order'),
           \A d \in Calls \ {c} :
              Repaying(call[d]) =>
                 LeftAlone(call[d].r) /\ (Repaying(t) => call[d].r # t.r)
    PROVE  RefundCalls' /\ Apart'
<1>1. call'[c] = t /\ \A d \in Calls \ {c} : call'[d] = call[d]
  BY DEF Goto, TypeInvariant, TypeOK
<1>2. ASSUME NEW d \in Calls \ {c} PROVE FitsRefund(call[d], refund', repaid', order')
  <2>1. call[d] \in Call /\ CarriesItsIds(call[d]) /\ FitsRefund(call[d], refund, repaid, order)
    BY DEF TypeInvariant, TypeOK, CallsCarryIds, RefundInvariant, RefundCalls
  <2> QED
    BY <2>1, FitStays
<1>3. \A d \in Calls : FitsRefund(call'[d], refund', repaid', order')
  BY <1>1, <1>2
<1>4. RefundCalls'
  BY <1>3 DEF RefundCalls
<1>5. Apart'
  <2> SUFFICES ASSUME NEW a \in Calls, NEW d \in Calls, a # d,
                      Repaying(call'[a]), Repaying(call'[d])
               PROVE  call'[a].r # call'[d].r
    BY DEF Apart, Repaying
  <2>1. CASE a # c /\ d # c
    BY <1>1, <2>1 DEF RefundInvariant, Apart
  <2>2. CASE a = c \/ d = c
    BY <1>1, <2>2
  <2> QED
    BY <2>1, <2>2
<1> QED
  BY <1>4, <1>5

(* The tables hold when neither refunds nor their events change.           *)
LEMMA TablesKeep ==
    ASSUME TypeInvariant, RefundInvariant, OrdersKeep, CapturesAdvance,
           UNCHANGED <<refund, repaid>>,
           \A r \in Refunds : [kind |-> "refunded", id |-> r] \in sent' =>
                                  [kind |-> "refunded", id |-> r] \in sent
    PROVE  RefundTables'
<1>1. RefundTables
  BY DEF RefundInvariant
<1>2. ASSUME NEW r \in Refunds, refund[r].status # "absent", repaid[r].order # Null
      PROVE  order'[repaid[r].order].payment = refund[r].payment
  <2>1. repaid[r].order \in Orders
    BY <1>2 DEF TypeInvariant, TypeOK, Repaid
  <2>2. refund[r].payment # Null /\ order[repaid[r].order].payment = refund[r].payment
    BY <1>1, <1>2, ConstantsAssumption DEF RefundTables, RefundRowsAreBacked
  <2> QED
    BY <2>1, <2>2 DEF OrdersKeep
<1>3. RefundRowsAreBacked'
  BY <1>1, <1>2 DEF RefundTables, RefundRowsAreBacked
<1>4. ASSUME NEW p \in Payments, payment'[p].capture # Null
      PROVE  order'[payment'[p].capture].payment = p
  <2>1. payment[p].capture \in Orders \cup {Null}
    BY DEF TypeInvariant, TypeOK, PaymentRow
  <2> QED
    BY <1>1, <1>4, <2>1, ConstantsAssumption DEF RefundTables, CapturesAdvance, OrdersKeep
<1> QED
  BY <1>1, <1>3, <1>4 DEF RefundTables

(* A call goes on, and writes no refund.                                   *)
LEMMA MovesOn ==
    ASSUME TypeInvariant, RefundInvariant, OrdersKeep, CapturesAdvance,
           UNCHANGED <<refund, repaid, sent>>, NEW c \in Calls, NEW t,
           Goto(c, t), FitsRefund(t, refund, repaid, order'),
           Repaying(t) => \A d \in Calls \ {c} : Repaying(call[d]) => call[d].r # t.r
    PROVE  RefundInvariant'
<1>1. RefundsKeep /\ \A r : LeftAlone(r)
  BY DEF RefundsKeep, LeftAlone
<1>2. FitsRefund(t, refund', repaid', order')
  OBVIOUS
<1>3. RefundCalls' /\ Apart'
  BY <1>1, <1>2, CallsKeepFit
<1>4. RefundTables'
  BY TablesKeep
<1> QED
  BY <1>3, <1>4 DEF RefundInvariant

(* It goes to a step that relies on nothing.                               *)
Plain == {"idle", "insert", "ask", "store", "fail", "register", "apply", "refund",
          "inquire", "correct"}

LEMMA MovesPlainly ==
    ASSUME TypeInvariant, RefundInvariant, OrdersKeep, CapturesAdvance,
           UNCHANGED <<refund, repaid, sent>>, NEW c \in Calls, NEW t,
           Goto(c, t), t.at \in Plain
    PROVE  RefundInvariant'
<1>1. ~Repaying(t) /\ FitsRefund(t, refund, repaid, order')
  BY DEF Plain, Repaying, FitsRefund
<1> QED
  BY <1>1, MovesOn

(* Or ends.                                                                *)
LEMMA EndsPlainly ==
    ASSUME TypeInvariant, RefundInvariant, OrdersKeep, CapturesAdvance,
           UNCHANGED <<refund, repaid, sent>>, NEW c \in Calls, Finish(c)
    PROVE  RefundInvariant'
<1>1. Idle.at \in Plain
  BY DEF Idle, Plain
<1> QED
  BY <1>1, MovesPlainly DEF Finish

(* Or only moves to another step.                                          *)
LEMMA StepsPlainly ==
    ASSUME TypeInvariant, RefundInvariant, OrdersKeep, CapturesAdvance,
           UNCHANGED <<refund, repaid, sent>>, NEW c \in Calls,
           NEW s \in Plain, Step(c, s)
    PROVE  RefundInvariant'
<1>1. call[c] \in Call /\ s \in Steps
  BY DEF TypeInvariant, TypeOK, Plain, Steps
<1> QED
  BY <1>1, StepTyped, MovesPlainly DEF Step

(* Nothing is written to the payments or the orders.                       *)
LEMMA Same ==
    ASSUME UNCHANGED <<payment, order>> PROVE OrdersKeep /\ CapturesAdvance
BY DEF OrdersKeep, CapturesAdvance

(* A payment changes but for its capture.                                  *)
LEMMA CaptureSame ==
    ASSUME TypeInvariant, NEW p \in Payments, NEW row, payment' = [payment EXCEPT ![p] = row],
           row.capture \in {payment[p].capture, Null}, UNCHANGED order
    PROVE  OrdersKeep /\ CapturesAdvance
<1>1. payment'[p] = row /\ \A q \in Payments \ {p} : payment'[q] = payment[q]
  BY DEF TypeInvariant, TypeOK
<1> QED
  BY <1>1 DEF OrdersKeep, CapturesAdvance

(* Only its status changes.                                                *)
LEMMA StatusSame ==
    ASSUME TypeInvariant, NEW p \in Payments, NEW s, SetStatus(p, s), UNCHANGED order
    PROVE  OrdersKeep /\ CapturesAdvance
<1>1. payment[p] \in PaymentRow
  BY DEF TypeInvariant, TypeOK
<1>2. [payment[p] EXCEPT !.status = s].capture = payment[p].capture
  BY <1>1 DEF PaymentRow
<1>3. payment' = [payment EXCEPT ![p] = [payment[p] EXCEPT !.status = s]]
  BY DEF SetStatus
<1> QED
  BY <1>2, <1>3, CaptureSame

(* createPayment.                                                          *)
LEMMA RefundsPayment ==
    ASSUME TypeInvariant, RefundInvariant, NEW c \in Calls, PaymentStep(c)
    PROVE  RefundInvariant'
<1>1. call[c] \in Call /\ CarriesItsIds(call[c])
  BY DEF TypeInvariant, TypeOK, CallsCarryIds
<1>2. ASSUME NEW b \in Bookings, NEW k \in Keys \cup {Null}, CheckPayment(c, b, k)
      PROVE  RefundInvariant'
  <2> DEFINE t == [Idle EXCEPT !.at = "insert", !.b = b, !.key = k]
  <2>1. t.at \in Plain
    BY DEF Idle, Plain
  <2>2. Goto(c, t) /\ UNCHANGED <<payment, order, refund, repaid, sent>>
    BY <1>2 DEF CheckPayment, tables, provider
  <2> QED
    BY <2>1, <2>2, Same, MovesPlainly
<1>3. ASSUME NEW b \in Bookings, NEW k \in Keys \cup {Null}, NEW p \in Payments,
             RetryPayment(c, b, k, p)
      PROVE  RefundInvariant'
  <2> DEFINE t == [Idle EXCEPT !.at = "ask", !.p = p]
  <2>1. t.at \in Plain
    BY DEF Idle, Plain
  <2>2. Goto(c, t) /\ UNCHANGED <<payment, order, refund, repaid, sent>>
    BY <1>3 DEF RetryPayment, tables, provider
  <2> QED
    BY <2>1, <2>2, Same, MovesPlainly
<1>4. ASSUME NEW p \in Payments, InsertPayment(c, p) PROVE RefundInvariant'
  <2> DEFINE t == [Idle EXCEPT !.at = "ask", !.p = p]
             row == [NoPayment EXCEPT !.status = "pending", !.booking = call[c].b,
                        !.key = call[c].key]
  <2>1. t.at \in Plain /\ row.capture = Null
    BY DEF Idle, Plain, NoPayment
  <2>2. Goto(c, t) /\ UNCHANGED <<order, refund, repaid, sent>>
    BY <1>4 DEF InsertPayment, provider
  <2>3. payment' = [payment EXCEPT ![p] = row]
    BY <1>4 DEF InsertPayment
  <2> QED
    BY <2>1, <2>2, <2>3, CaptureSame, MovesPlainly
<1>5. ASSUME NEW o \in Orders, ProviderCreates(c, o) PROVE RefundInvariant'
  <2>1. OrdersKeep /\ CapturesAdvance /\ UNCHANGED <<refund, repaid, sent>>
    <3>1. order[o].payment = Null /\ \A q \in Orders \ {o} : order'[q] = order[q]
      BY <1>5 DEF ProviderCreates, NoOrder, TypeInvariant, TypeOK
    <3> QED
      BY <1>5, <3>1 DEF ProviderCreates, OrdersKeep, CapturesAdvance, tables
  <2>2. CASE Goto(c, [call[c] EXCEPT !.at = "store", !.o = o])
    <3> DEFINE t == [call[c] EXCEPT !.at = "store", !.o = o]
    <3>1. t.at \in Plain
      BY <1>1 DEF Call, Plain
    <3> QED
      BY <2>1, <2>2, <3>1, MovesPlainly
  <2>3. CASE Step(c, "fail")
    BY <2>1, <2>3, StepsPlainly DEF Plain
  <2> QED
    BY <1>5, <2>2, <2>3 DEF ProviderCreates
<1>6. CASE ProviderRefuses(c)
  <2>1. Step(c, "fail") /\ UNCHANGED <<payment, order, refund, repaid, sent>>
    BY <1>6 DEF ProviderRefuses, tables, provider
  <2> QED
    BY <2>1, Same, StepsPlainly DEF Plain
<1>7. CASE StoreOrder(c)
  <2> DEFINE p == call[c].p
             row == [payment[p] EXCEPT !.order = call[c].o]
  <2>1. p \in Payments
    BY <1>1, <1>7 DEF StoreOrder, CarriesItsIds, OfAPayment
  <2>2. row.capture = payment[p].capture
    BY <2>1 DEF TypeInvariant, TypeOK, PaymentRow
  <2>3. payment' = [payment EXCEPT ![p] = row] /\ Finish(c) /\ UNCHANGED <<order, refund, repaid, sent>>
    BY <1>7 DEF StoreOrder, provider
  <2> QED
    BY <2>1, <2>2, <2>3, CaptureSame, EndsPlainly
<1>8. CASE MarkFailed(c)
  <2>1. call[c].p \in Payments
    BY <1>1, <1>8 DEF MarkFailed, CarriesItsIds, OfAPayment
  <2>2. SetStatus(call[c].p, "failed") /\ Finish(c) /\ UNCHANGED <<order, refund, repaid, sent>>
    BY <1>8 DEF MarkFailed, provider
  <2> QED
    BY <2>1, <2>2, StatusSame, EndsPlainly
<1> QED
  BY <1>2, <1>3, <1>4, <1>5, <1>6, <1>7, <1>8 DEF PaymentStep

(* processWebhook: a processed refund was completed at the provider, which *)
(* sent the event.                                                         *)
LEMMA RefundsWebhook ==
    ASSUME TypeInvariant, MoneyInvariant, RefundInvariant, NEW c \in Calls, WebhookStep(c)
    PROVE  RefundInvariant'
<1>1. /\ call[c] \in Call /\ CarriesItsIds(call[c])
      /\ Knows(call[c], payment, order, sent)
  BY DEF TypeInvariant, TypeOK, CallsCarryIds, MoneyInvariant
<1>2. ASSUME NEW e \in Events, Deliver(c, e) PROVE RefundInvariant'
  <2> DEFINE t == [Idle EXCEPT !.at = "register", !.e = e]
  <2>1. t.at \in Plain
    BY DEF Idle, Plain
  <2>2. Goto(c, t) /\ UNCHANGED <<payment, order, refund, repaid, sent>>
    BY <1>2 DEF Deliver, tables, provider
  <2> QED
    BY <2>1, <2>2, Same, MovesPlainly
<1>3. ASSUME NEW p \in Payments \cup {Null}, Register(c, p) PROVE RefundInvariant'
  <2> DEFINE seen == IF p = Null THEN "absent" ELSE payment[p].status
             t == [call[c] EXCEPT !.at = "apply", !.p = p, !.seen = seen]
  <2>1. t.at \in Plain
    BY <1>1 DEF Call, Plain
  <2>2. Goto(c, t) /\ UNCHANGED <<payment, order, refund, repaid, sent>>
    BY <1>3 DEF Register, tables, provider
  <2> QED
    BY <2>1, <2>2, Same, MovesPlainly
<1>4. CASE Ignore(c) \/ NoChange(c) \/ CaptureOnly(c)
  <2>1. Finish(c) /\ UNCHANGED <<payment, order, refund, repaid, sent>>
    BY <1>4 DEF Ignore, NoChange, CaptureOnly, tables, provider
  <2> QED
    BY <2>1, Same, EndsPlainly
<1>5. CASE Apply(c)
  <2> DEFINE e == call[c].e
             p == call[c].p
             capture == IF e.kind = "captured" /\ p \notin Wompi
                        THEN e.id ELSE payment[p].capture
             row == [payment[p] EXCEPT !.status = StatusOf(e.kind), !.capture = capture]
  <2>1. p \in Payments /\ (e.kind = "captured" => order[e.id].payment = p)
    BY <1>1, <1>5 DEF Apply, Knows
  <2>2. Finish(c) /\ UNCHANGED <<order, refund, repaid, sent>>
    BY <1>5 DEF Apply
  <2>3. payment' = [payment EXCEPT ![p] = row]
    BY <1>5 DEF Apply
  <2>4. row.capture = capture
    BY <2>1 DEF TypeInvariant, TypeOK, PaymentRow
  <2>5. payment'[p].capture = capture /\ \A q \in Payments \ {p} : payment'[q] = payment[q]
    <3> HIDE DEF row
    <3> QED
      BY <2>1, <2>3, <2>4 DEF TypeInvariant, TypeOK
  <2>6. OrdersKeep /\ CapturesAdvance
    BY <2>1, <2>2, <2>5 DEF OrdersKeep, CapturesAdvance
  <2> QED
    BY <2>2, <2>6, EndsPlainly
<1>6. CASE RefundWebhook(c)
  <2> DEFINE r == call[c].e.id
  <2>1. call[c].e \in Events /\ call[c].e \in sent /\ call[c].e.kind = "refunded"
    BY <1>1, <1>6 DEF RefundWebhook, CarriesItsIds, Knows
  <2>2. r \in Refunds /\ call[c].e = [kind |-> "refunded", id |-> r]
    BY <2>1 DEF Events
  <2>3. repaid[r].state = "completed"
    BY <2>1, <2>2 DEF RefundInvariant, RefundTables
  <2>4. Finish(c) /\ UNCHANGED <<payment, order, repaid, sent>>
    BY <1>6 DEF RefundWebhook, provider
  <2>5. OrdersKeep /\ CapturesAdvance
    BY <2>4, Same
  <2>6. /\ refund[r] \in RefundRow
        /\ \/ refund' = refund
           \/ /\ refund[r].status # "absent"
              /\ refund' = [refund EXCEPT ![r] = [refund[r] EXCEPT !.status = "processed"]]
    BY <1>6, <2>2 DEF RefundWebhook, TypeInvariant, TypeOK
  <2>7. CASE refund' = refund
    BY <2>4, <2>5, <2>7, EndsPlainly
  <2>8. CASE /\ refund[r].status # "absent"
             /\ refund' = [refund EXCEPT ![r] = [refund[r] EXCEPT !.status = "processed"]]
    <3>1. /\ refund'[r].status = "processed" /\ refund'[r].payment = refund[r].payment
          /\ \A q \in Refunds \ {r} : refund'[q] = refund[q]
      BY <2>2, <2>6, <2>8 DEF RefundRow, TypeInvariant, TypeOK
    <3>2. RefundsKeep
      BY <3>1 DEF RefundsKeep
    <3>3. ASSUME NEW d \in Calls \ {c}, Repaying(call[d]) PROVE LeftAlone(call[d].r)
      <4>1. call[d].r \in Refunds /\ refund[call[d].r] = NoRefund
        BY <3>3 DEF TypeInvariant, CallsCarryIds, CarriesItsIds, RefundInvariant, RefundCalls,
           FitsRefund, Repaying
      <4>2. call[d].r # r
        BY <2>8, <4>1 DEF NoRefund
      <4> QED
        BY <2>4, <3>1, <4>1, <4>2 DEF LeftAlone
    <3>4. FitsRefund(Idle, refund', repaid', order') /\ ~Repaying(Idle)
      BY DEF FitsRefund, Idle, Repaying
    <3>5. RefundCalls' /\ Apart'
      BY <2>4, <2>5, <3>2, <3>3, <3>4, CallsKeepFit DEF Finish
    <3>6. RefundTables'
      BY <2>3, <2>4, <2>8, <3>1 DEF RefundInvariant, RefundTables, RefundRowsAreBacked
    <3> QED
      BY <3>5, <3>6 DEF RefundInvariant
  <2> QED
    BY <2>6, <2>7, <2>8
<1> QED
  BY <1>2, <1>3, <1>4, <1>5, <1>6 DEF WebhookStep

(* cancelBooking: when it goes the way of a payment that is not paid, it   *)
(* did not find it paid.                                                   *)
LEMMA RefundsCancel ==
    ASSUME TypeInvariant, RefundInvariant, NEW c \in Calls, CancelStep(c)
    PROVE  RefundInvariant'
<1>1. /\ call[c] \in Call /\ CarriesItsIds(call[c])
      /\ FitsRefund(call[c], refund, repaid, order)
  BY DEF TypeInvariant, TypeOK, CallsCarryIds, RefundInvariant, RefundCalls
<1>2. ASSUME NEW b \in Bookings, NEW p \in Payments \cup {Null}, CancelBooking(c, b, p)
      PROVE  RefundInvariant'
  <2> DEFINE seen == IF p = Null THEN "absent" ELSE payment[p].status
             at == CASE seen = "paid" -> "refund"
                     [] seen \in {"pending", "authorized"} -> "void"
                     [] OTHER -> "close"
             t == [Idle EXCEPT !.b = b, !.p = p, !.seen = seen, !.at = at]
  <2>1. t.at = at /\ t.seen = seen
    BY DEF Idle
  <2>2. at = "refund" \/ (at \in {"void", "close"} /\ seen # "paid")
    OBVIOUS
  <2>3. Goto(c, t) /\ UNCHANGED <<payment, order, refund, repaid, sent>>
    BY <1>2 DEF CancelBooking, tables, provider
  <2> HIDE DEF t, at, seen
  <2>4. FitsRefund(t, refund, repaid, order') /\ ~Repaying(t)
    BY <2>1, <2>2 DEF FitsRefund, Repaying
  <2> QED
    BY <2>3, <2>4, Same, MovesOn
<1>3. CASE CancelPayment(c)
  <2> DEFINE p == call[c].p
             at == CASE payment[p].status \notin {"pending", "authorized"} -> "close"
                     [] p \in Wompi \/ payment[p].order = Null -> "cancel"
                     [] OTHER -> "unbind"
             t == [call[c] EXCEPT !.o = payment[p].order, !.at = at]
  <2>1. t.at = at /\ t.seen = call[c].seen
    BY <1>1 DEF Call
  <2>2. at \in {"close", "cancel", "unbind"}
    OBVIOUS
  <2>3. Goto(c, t) /\ UNCHANGED <<payment, order, refund, repaid, sent>>
    BY <1>3 DEF CancelPayment, tables, provider
  <2>4. call[c].seen # "paid"
    BY <1>1, <1>3 DEF CancelPayment, FitsRefund
  <2> HIDE DEF t, at
  <2>5. FitsRefund(t, refund, repaid, order') /\ ~Repaying(t)
    BY <2>1, <2>2, <2>4 DEF FitsRefund, Repaying
  <2> QED
    BY <2>3, <2>5, Same, MovesOn
<1>4. ASSUME NEW s \in {"cancel", "close"}, Step(c, s), call[c].at \in {"unbind", "cancel"},
             OrdersKeep, CapturesAdvance, UNCHANGED <<refund, repaid, sent>>
      PROVE  RefundInvariant'
  <2> DEFINE t == [call[c] EXCEPT !.at = s]
  <2>1. t.at = s /\ t.seen = call[c].seen /\ Goto(c, t)
    BY <1>1, <1>4 DEF Call, Step
  <2>2. call[c].seen # "paid"
    BY <1>1, <1>4 DEF FitsRefund
  <2> HIDE DEF t
  <2>3. FitsRefund(t, refund, repaid, order') /\ ~Repaying(t)
    BY <2>1, <2>2 DEF FitsRefund, Repaying
  <2> QED
    BY <1>4, <2>1, <2>3, MovesOn
<1>5. CASE ProviderVoids(c)
  <2> DEFINE o == call[c].o
  <2>1. \E s \in {"cancel", "close"} : Step(c, s)
    BY <1>5 DEF ProviderVoids
  <2>2. UNCHANGED <<payment, refund, repaid, sent>> /\ call[c].at = "unbind"
    BY <1>5 DEF ProviderVoids, tables
  <2>3. order' = order \/ order' = [order EXCEPT ![o] = [order[o] EXCEPT !.state = "voided"]]
    BY <1>5 DEF ProviderVoids
  <2>4. OrdersKeep
    BY <2>3 DEF OrdersKeep, TypeInvariant, TypeOK, Order
  <2>5. CapturesAdvance
    BY <2>2 DEF CapturesAdvance
  <2> QED
    BY <1>4, <2>1, <2>2, <2>4, <2>5
<1>6. CASE WriteCancelled(c)
  <2>1. call[c].at = "cancel" /\ call[c].p \in Payments
    BY <1>1, <1>6 DEF WriteCancelled, CarriesItsIds, OfAPayment
  <2>2. /\ SetStatus(call[c].p, "cancelled") /\ Step(c, "close")
        /\ UNCHANGED <<order, refund, repaid, sent>>
    BY <1>6 DEF WriteCancelled, provider
  <2> QED
    BY <1>4, <2>1, <2>2, StatusSame
<1>7. CASE CloseBooking(c)
  <2>1. Finish(c) /\ UNCHANGED <<payment, order, refund, repaid, sent>>
    BY <1>7 DEF CloseBooking, provider
  <2> QED
    BY <2>1, Same, EndsPlainly
<1> QED
  BY <1>2, <1>3, <1>5, <1>6, <1>7 DEF CancelStep

(* Starting a refund: of an order of the payment, with an id of its own.   *)
LEMMA RefundStarts ==
    ASSUME TypeInvariant, MoneyInvariant, RefundInvariant, NEW c \in Calls, NEW t,
           NEW p \in Payments, NEW r \in Refunds, Goto(c, t), FreshRefund(r),
           t.at = "repay", t.p = p, t.o = Repayable(p), t.r = r,
           UNCHANGED <<payment, order, refund, repaid, sent>>
    PROVE  RefundInvariant'
<1>1. t.o # Null => order[t.o].payment = p
  BY DEF Repayable, MoneyInvariant, RowsHold, RefundInvariant, RefundTables
<1>2. FitsRefund(t, refund, repaid, order')
  BY <1>1 DEF FitsRefund, FreshRefund, Repaying
<1>3. \A d \in Calls \ {c} : call[d].r # t.r
  BY DEF FreshRefund
<1> QED
  BY <1>2, <1>3, Same, MovesOn

(* createRefund and executeRefund.                                         *)
LEMMA RefundsRefund ==
    ASSUME TypeInvariant, MoneyInvariant, RefundInvariant, NEW c \in Calls, RefundStep(c)
    PROVE  RefundInvariant'
<1>1. /\ call[c] \in Call /\ CarriesItsIds(call[c])
      /\ FitsRefund(call[c], refund, repaid, order)
  BY DEF TypeInvariant, TypeOK, CallsCarryIds, RefundInvariant, RefundCalls
<1>2. ASSUME NEW p \in Payments, NEW amount \in 1 .. Price, NEW r \in Refunds,
             StartRefund(c, p, amount, r)
      PROVE  RefundInvariant'
  <2> DEFINE t == [Idle EXCEPT !.at = "repay", !.p = p, !.o = Repayable(p),
                               !.amount = amount, !.r = r]
  <2>1. t.at = "repay" /\ t.p = p /\ t.o = Repayable(p) /\ t.r = r
    BY DEF Idle
  <2>2. Goto(c, t) /\ FreshRefund(r) /\ UNCHANGED <<payment, order, refund, repaid, sent>>
    BY <1>2 DEF StartRefund, tables, provider
  <2> HIDE DEF t
  <2> QED
    BY <2>1, <2>2, RefundStarts
<1>3. ASSUME NEW r \in Refunds, RefundForCancel(c, r) PROVE RefundInvariant'
  <2> DEFINE p == call[c].p
             t == [call[c] EXCEPT !.at = "repay", !.o = Repayable(p), !.amount = Price, !.r = r]
  <2>1. t.at = "repay" /\ t.p = p /\ t.o = Repayable(p) /\ t.r = r
    BY <1>1 DEF Call
  <2>2. Goto(c, t) /\ FreshRefund(r) /\ UNCHANGED <<payment, order, refund, repaid, sent>>
    BY <1>3 DEF RefundForCancel, tables, provider
  <2>3. p \in Payments
    BY <1>1, <1>3 DEF RefundForCancel, CarriesItsIds, OfAPayment
  <2> HIDE DEF t, p
  <2> QED
    BY <2>1, <2>2, <2>3, RefundStarts
<1>4. Repaying(call[c]) =>
        /\ call[c].r \in Refunds /\ call[c].p \in Payments
        /\ refund[call[c].r] = NoRefund
        /\ \A d \in Calls \ {c} : Repaying(call[d]) => call[d].r # call[c].r
  BY <1>1 DEF CarriesItsIds, OfAPayment, Repaying, FitsRefund, RefundInvariant, Apart
<1>5. ASSUME NEW state \in {"pending", "completed", "failed"}, ProviderRepays(c, state)
      PROVE  RefundInvariant'
  <2> DEFINE r == call[c].r
             o == call[c].o
             amount == IF call[c].p \in Wompi THEN Price ELSE call[c].amount
             row == [state |-> state, order |-> o, amount |-> amount]
             event == [kind |-> "refunded", id |-> r]
             t == [call[c] EXCEPT !.at = "record", !.got = RowStatus(state)]
  <2>1. /\ call[c].at = "repay" /\ o # Null
        /\ repaid' = [repaid EXCEPT ![r] = row]
        /\ sent' = IF state = "completed" THEN sent \cup {event} ELSE sent
        /\ Goto(c, t) \/ Finish(c)
        /\ UNCHANGED <<payment, refund>>
    BY <1>5 DEF ProviderRepays, tables
  <2>11. OrdersReverse
    <3>1. Reverse(o) \/ UNCHANGED order
      BY <1>5 DEF ProviderRepays
    <3> QED
      BY <3>1, ReverseMoves DEF OrdersReverse, TypeInvariant, TypeOK
  <2>2. /\ r \in Refunds /\ refund[r] = NoRefund /\ repaid[r] = NotRepaid
        /\ \A d \in Calls \ {c} : Repaying(call[d]) => call[d].r # r
        /\ order'[o].payment = call[c].p
    <3>1. o \in Orders
      BY <1>1, <2>1 DEF Call
    <3> QED
      BY <1>1, <1>4, <2>1, <2>11, <3>1 DEF Repaying, FitsRefund, OrdersReverse
  <2>3. /\ repaid'[r] = row /\ row.state = state /\ row.order = o
        /\ \A q \in Refunds \ {r} : repaid'[q] = repaid[q]
    <3> HIDE DEF row
    <3>1. repaid'[r] = row /\ \A q \in Refunds \ {r} : repaid'[q] = repaid[q]
      BY <2>1, <2>2 DEF TypeInvariant, TypeOK
    <3> QED
      BY <3>1 DEF row
  <2>4. t.at = "record" /\ t.r = r /\ t.p = call[c].p /\ t.got = RowStatus(state)
    BY <1>1 DEF Call
  <2> HIDE DEF t, row
  <2>5. FitsRefund(t, refund', repaid', order')
    <3>1. /\ RowStatus(state) = "pending" => state = "pending"
          /\ RowStatus(state) = "processed" => state = "completed"
      BY DEF RowStatus
    <3> QED
      BY <2>1, <2>2, <2>3, <2>4, <3>1 DEF FitsRefund, Repaying
  <2>6. FitsRefund(Idle, refund', repaid', order') /\ ~Repaying(Idle)
    BY DEF FitsRefund, Idle, Repaying
  <2>7. OrdersKeep /\ RefundsKeep
    BY <2>1, <2>11 DEF OrdersKeep, OrdersReverse, RefundsKeep
  <2>8. ASSUME NEW d \in Calls \ {c}, Repaying(call[d]) PROVE LeftAlone(call[d].r)
    <3>1. call[d].r \in Refunds
      BY <2>8 DEF TypeInvariant, CallsCarryIds, CarriesItsIds, Repaying
    <3> QED
      BY <2>1, <2>2, <2>3, <2>8, <3>1 DEF LeftAlone
  <2>9. RefundCalls' /\ Apart'
    <3>1. CASE Goto(c, t)
      BY <2>2, <2>4, <2>5, <2>7, <2>8, <3>1, CallsKeepFit
    <3>2. CASE Finish(c)
      BY <2>6, <2>7, <2>8, <3>2, CallsKeepFit DEF Finish
    <3> QED
      BY <2>1, <3>1, <3>2
  <2>10. RefundTables'
    <3>1. RefundTables /\ refund[r].status = "absent" /\ repaid[r].state = "none"
      BY <2>2 DEF RefundInvariant, NoRefund, NotRepaid
    <3>2. ASSUME NEW q \in Refunds, [kind |-> "refunded", id |-> q] \in sent'
          PROVE  repaid'[q].state = "completed"
      <4>1. CASE q = r
        BY <2>1, <2>3, <3>1, <3>2, <4>1 DEF RefundTables
      <4>2. CASE q # r
        <5>1. [kind |-> "refunded", id |-> q] # event
          BY <4>2
        <5> QED
          BY <2>1, <2>3, <3>1, <3>2, <4>2, <5>1 DEF RefundTables
      <4> QED
        BY <4>1, <4>2
    <3>3. RefundRowsAreBacked'
      <4>1. \A q \in Refunds : repaid[q].order \in Orders \cup {Null}
        BY DEF TypeInvariant, TypeOK, Repaid
      <4> QED
        BY <2>1, <2>3, <2>11, <3>1, <4>1 DEF RefundTables, RefundRowsAreBacked, OrdersReverse
    <3>4. \A p \in Payments : payment[p].capture \in Orders \cup {Null}
      BY DEF TypeInvariant, TypeOK, PaymentRow
    <3> QED
      BY <2>1, <2>11, <3>1, <3>2, <3>3, <3>4 DEF RefundTables, OrdersReverse
  <2> QED
    BY <2>9, <2>10 DEF RefundInvariant
<1>6. CASE RefundFails(c)
  <2>1. Finish(c) /\ UNCHANGED <<payment, order, refund, repaid, sent>>
    BY <1>6 DEF RefundFails, tables, provider
  <2> QED
    BY <2>1, Same, EndsPlainly
<1>7. CASE RecordRefund(c)
  <2> DEFINE r == call[c].r
             row == [status |-> call[c].got, payment |-> call[c].p, amount |-> call[c].amount]
             t == [call[c] EXCEPT !.at = "close"]
  <2>1. /\ call[c].at = "record"
        /\ refund' = [refund EXCEPT ![r] = row]
        /\ Goto(c, t) \/ Finish(c)
        /\ UNCHANGED <<payment, order, repaid, sent>>
    BY <1>7 DEF RecordRefund, Step, provider
  <2>2. /\ r \in Refunds /\ refund[r] = NoRefund /\ call[c].p \in Payments
        /\ call[c].got \in {"pending", "processed", "failed"}
        /\ \A d \in Calls \ {c} : Repaying(call[d]) => call[d].r # r
    BY <1>1, <1>4, <2>1 DEF Repaying, CarriesItsIds
  <2>3. /\ row.status = call[c].got /\ row.payment = call[c].p
        /\ refund'[r] = row /\ \A q \in Refunds \ {r} : refund'[q] = refund[q]
    <3> HIDE DEF row
    <3>1. refund'[r] = row /\ \A q \in Refunds \ {r} : refund'[q] = refund[q]
      BY <2>1, <2>2 DEF TypeInvariant, TypeOK
    <3> QED
      BY <3>1 DEF row
  <2>4. t.at = "close" /\ t.p = call[c].p
    BY <1>1 DEF Call
  <2> HIDE DEF t, row
  <2>5. refund[r].status = "absent" /\ refund'[r].status \in {"pending", "processed", "failed"}
    BY <2>2, <2>3 DEF NoRefund
  <2>6. /\ FitsRefund(t, refund', repaid', order') /\ ~Repaying(t)
        /\ FitsRefund(Idle, refund', repaid', order') /\ ~Repaying(Idle)
    BY <2>2, <2>3, <2>4, <2>5 DEF FitsRefund, Idle, Repaying
  <2>7. OrdersKeep /\ RefundsKeep
    BY <2>1, <2>3, <2>5, Same DEF RefundsKeep
  <2>8. ASSUME NEW d \in Calls \ {c}, Repaying(call[d]) PROVE LeftAlone(call[d].r)
    <3>1. call[d].r \in Refunds
      BY <2>8 DEF TypeInvariant, CallsCarryIds, CarriesItsIds, Repaying
    <3> QED
      BY <2>1, <2>2, <2>3, <2>8, <3>1 DEF LeftAlone
  <2>9. RefundCalls' /\ Apart'
    <3>1. CASE Goto(c, t)
      BY <2>6, <2>7, <2>8, <3>1, CallsKeepFit
    <3>2. CASE Finish(c)
      BY <2>6, <2>7, <2>8, <3>2, CallsKeepFit DEF Finish
    <3> QED
      BY <2>1, <3>1, <3>2
  <2>10. RefundTables'
    <3>1. RefundTables
      BY DEF RefundInvariant
    <3>2. /\ call[c].got = "pending" => repaid[r].state # "none"
          /\ call[c].got = "processed" => repaid[r].state = "completed"
          /\ order[repaid[r].order].payment = call[c].p
      BY <1>1, <2>1 DEF FitsRefund
    <3>3. RefundRowsAreBacked'
      BY <2>1, <2>3, <3>1, <3>2 DEF RefundTables, RefundRowsAreBacked
    <3> QED
      BY <2>1, <2>2, <2>3, <3>1, <3>3 DEF RefundTables
  <2> QED
    BY <2>9, <2>10 DEF RefundInvariant
<1> QED
  BY <1>2, <1>3, <1>5, <1>6, <1>7 DEF RefundStep

(* The reconciliation, and a call that is broken off.                      *)
LEMMA RefundsReconcile ==
    ASSUME TypeInvariant, RefundInvariant, NEW c \in Calls, ReconcileStep(c) \/ Abort(c)
    PROVE  RefundInvariant'
<1>1. CASE Abort(c)
  <2>1. Finish(c) /\ UNCHANGED <<payment, order, refund, repaid, sent>>
    BY <1>1 DEF Abort, tables, provider
  <2> QED
    BY <2>1, Same, EndsPlainly
<1>2. ASSUME NEW p \in Payments, SelectPayment(c, p) PROVE RefundInvariant'
  <2> DEFINE t == [Idle EXCEPT !.at = "inquire", !.p = p, !.o = payment[p].order,
                               !.seen = payment[p].status]
  <2>1. t.at \in Plain
    BY DEF Idle, Plain
  <2>2. Goto(c, t) /\ UNCHANGED <<payment, order, refund, repaid, sent>>
    BY <1>2 DEF SelectPayment, tables, provider
  <2> QED
    BY <2>1, <2>2, Same, MovesPlainly
<1>4. CASE Inquire(c)
  <2>1. call[c] \in Call
    BY DEF TypeInvariant, TypeOK
  <2>2. PICK got : Goto(c, [call[c] EXCEPT !.at = "correct", !.got = got])
    BY <1>4 DEF Inquire
  <2> DEFINE t == [call[c] EXCEPT !.at = "correct", !.got = got]
  <2>3. t.at \in Plain
    BY <2>1 DEF Call, Plain
  <2>4. Goto(c, t) /\ UNCHANGED <<payment, order, refund, repaid, sent>>
    BY <1>4, <2>2 DEF Inquire, tables, provider
  <2> QED
    BY <2>3, <2>4, Same, MovesPlainly
<1>3. CASE Correct(c)
  <2> DEFINE p == call[c].p
  <2>1. p \in Payments
    BY <1>3 DEF Correct, TypeInvariant, CallsCarryIds, CarriesItsIds, OfAPayment
  <2>2. /\ payment' = payment \/ SetStatus(p, call[c].got)
        /\ Finish(c) /\ UNCHANGED <<order, refund, repaid, sent>>
    BY <1>3 DEF Correct, SetStatus, provider
  <2>3. OrdersKeep /\ CapturesAdvance
    BY <2>1, <2>2, Same, StatusSame
  <2> QED
    BY <2>2, <2>3, EndsPlainly
<1> QED
  BY <1>1, <1>2, <1>3, <1>4 DEF ReconcileStep

(* What the users, the sweep and the providers do.                         *)
LEMMA RefundsOutside ==
    ASSUME TypeInvariant, RefundInvariant,
           \/ BookingMoves
           \/ \E o \in Orders : ProviderMoves(o)
           \/ \E r \in Refunds : RefundEnds(r)
    PROVE  RefundInvariant'
<1>1. ASSUME call' = call, OrdersKeep, RefundsKeep, \A r \in Refunds : LeftAlone(r)
      PROVE  RefundCalls' /\ Apart'
  <2>1. ASSUME NEW d \in Calls PROVE FitsRefund(call[d], refund', repaid', order')
    <3>1. call[d] \in Call /\ CarriesItsIds(call[d]) /\ FitsRefund(call[d], refund, repaid, order)
      BY DEF TypeInvariant, TypeOK, CallsCarryIds, RefundInvariant, RefundCalls
    <3>2. Repaying(call[d]) => LeftAlone(call[d].r)
      BY <1>1, <3>1 DEF CarriesItsIds, Repaying
    <3> QED
      BY <1>1, <3>1, <3>2, FitStays
  <2>2. \A d \in Calls : FitsRefund(call'[d], refund', repaid', order')
    BY <1>1, <2>1
  <2> QED
    BY <1>1, <2>2 DEF RefundCalls, RefundInvariant, Apart
<1>2. ASSUME call' = call, OrdersKeep, UNCHANGED <<payment, refund, repaid>>,
             \A r \in Refunds : [kind |-> "refunded", id |-> r] \in sent' =>
                                    [kind |-> "refunded", id |-> r] \in sent
      PROVE  RefundInvariant'
  <2>1. CapturesAdvance /\ RefundsKeep /\ \A r \in Refunds : LeftAlone(r)
    BY <1>2 DEF CapturesAdvance, RefundsKeep, LeftAlone
  <2> QED
    BY <1>1, <1>2, <2>1, TablesKeep DEF RefundInvariant
<1>3. ASSUME BookingMoves PROVE RefundInvariant'
  <2>1. UNCHANGED <<call, payment, order, refund, repaid, sent>>
    BY <1>3 DEF BookingMoves, provider
  <2> QED
    BY <1>2, <2>1, Same
<1>4. ASSUME NEW o \in Orders, ProviderMoves(o) PROVE RefundInvariant'
  <2>1. PICK to \in {"approved", "held", "captured", "declined"} :
           /\ order' = [order EXCEPT ![o] = [order[o] EXCEPT !.state = to]]
           /\ sent' = sent \/ sent' = sent \cup {[kind |-> to, id |-> o]}
    BY <1>4 DEF ProviderMoves, Move, HoldCapture
  <2>2. OrdersKeep
    BY <2>1 DEF OrdersKeep, TypeInvariant, TypeOK, Order
  <2>3. UNCHANGED <<call, payment, refund, repaid>>
    BY <1>4 DEF ProviderMoves, Move, HoldCapture, tables
  <2>4. \A r \in Refunds : [kind |-> "refunded", id |-> r] # [kind |-> to, id |-> o]
    OBVIOUS
  <2>5. \A r \in Refunds : [kind |-> "refunded", id |-> r] \in sent' =>
                                [kind |-> "refunded", id |-> r] \in sent
    BY <2>1, <2>4
  <2> QED
    BY <1>2, <2>2, <2>3, <2>5
<1>5. ASSUME NEW r \in Refunds, RefundEnds(r) PROVE RefundInvariant'
  <2>1. UNCHANGED <<call, payment, refund>> /\ repaid[r].state = "pending"
    BY <1>5 DEF RefundEnds, tables
  <2>9. OrdersReverse
    BY <1>5, ReverseMoves DEF RefundEnds, OrdersReverse, TypeInvariant, TypeOK
  <2>2. PICK s \in {"completed", "failed"} :
           /\ repaid' = [repaid EXCEPT ![r] = [repaid[r] EXCEPT !.state = s]]
           /\ sent' \subseteq sent \cup {[kind |-> "refunded", id |-> r]}
           /\ s = "failed" => sent' = sent
    BY <1>5 DEF RefundEnds
  <2>3. /\ repaid'[r].state = s /\ repaid'[r].order = repaid[r].order
        /\ \A q \in Refunds \ {r} : repaid'[q] = repaid[q]
    BY <2>2 DEF TypeInvariant, TypeOK, Repaid
  <2>4. OrdersKeep /\ RefundsKeep /\ \A q \in Refunds : LeftAlone(q)
    BY <2>1, <2>3, <2>9 DEF OrdersKeep, OrdersReverse, RefundsKeep, LeftAlone
  <2>5. RefundTables
    BY DEF RefundInvariant
  <2>6. ASSUME NEW q \in Refunds, [kind |-> "refunded", id |-> q] \in sent'
        PROVE  repaid'[q].state = "completed"
    <3>1. CASE q = r
      BY <2>1, <2>2, <2>3, <2>5, <2>6, <3>1 DEF RefundTables
    <3>2. CASE q # r
      <4>1. [kind |-> "refunded", id |-> q] # [kind |-> "refunded", id |-> r]
        BY <3>2
      <4> QED
        BY <2>2, <2>3, <2>5, <2>6, <3>2, <4>1 DEF RefundTables
    <3> QED
      BY <3>1, <3>2
  <2>7. RefundRowsAreBacked'
    <3>1. \A q \in Refunds : repaid[q].order \in Orders \cup {Null}
      BY DEF TypeInvariant, TypeOK, Repaid
    <3> QED
      BY <2>1, <2>3, <2>5, <2>9, <3>1 DEF RefundTables, RefundRowsAreBacked, OrdersReverse
  <2>8. RefundTables'
    <3>1. \A p \in Payments : payment[p].capture \in Orders \cup {Null}
      BY DEF TypeInvariant, TypeOK, PaymentRow
    <3> QED
      BY <2>1, <2>5, <2>6, <2>7, <2>9, <3>1 DEF RefundTables, OrdersReverse
  <2> QED
    BY <1>1, <2>1, <2>4, <2>8 DEF RefundInvariant
<1> QED
  BY <1>3, <1>4, <1>5

(* The invariant holds at the start.                                       *)
LEMMA RefundInit == Init => RefundInvariant
<1> SUFFICES ASSUME Init PROVE RefundInvariant
  OBVIOUS
<1>1. RefundTables
  BY DEF Init, RefundTables, RefundRowsAreBacked, NoRefund, NoPayment
<1>2. RefundCalls /\ Apart
  BY DEF Init, RefundCalls, Apart, FitsRefund, Repaying, Idle
<1> QED
  BY <1>1, <1>2 DEF RefundInvariant

(* Every step keeps the invariant.                                         *)
LEMMA RefundNext ==
    TypeInvariant /\ MoneyInvariant /\ RefundInvariant /\ [Next]_vars => RefundInvariant'
<1> SUFFICES ASSUME TypeInvariant, MoneyInvariant, RefundInvariant, [Next]_vars
             PROVE  RefundInvariant'
  OBVIOUS
<1>1. CASE UNCHANGED vars
  <2>1. RefundTables'
    BY <1>1, Same, TablesKeep DEF vars
  <2> QED
    BY <1>1, <2>1 DEF vars, RefundInvariant, RefundCalls, Apart, FitsRefund
<1>2. CASE Next
  BY <1>2, RefundsPayment, RefundsWebhook, RefundsCancel, RefundsRefund, RefundsReconcile,
     RefundsOutside DEF Next
<1> QED
  BY <1>1, <1>2

(* No refund row, event or call claims more of a refund than the provider  *)
(* did.                                                                    *)
THEOREM RefundInductive == Spec => []RefundInvariant
BY TypeInit, TypeNext, MoneyInductive, RefundInit, RefundNext, PTL DEF Spec

(* A pending refund is known to the provider and a processed one was       *)
(* completed, for an order of the payment: late and lost answers, events   *)
(* that overtake the row and concurrent refunds included.                  *)
THEOREM BackedTheorem == Spec => []RefundRowsAreBacked
<1>1. RefundInvariant => RefundRowsAreBacked
  BY DEF RefundInvariant, RefundTables
<1> QED
  BY <1>1, RefundInductive, PTL

(* cancelBooking closes a booking that it found paid only after the        *)
(* payment's refund is on record.                                          *)
THEOREM ClosedTheorem == Spec => []ClosedAfterRefund
<1>1. RefundInvariant => ClosedAfterRefund
  BY DEF RefundInvariant, RefundCalls, FitsRefund, ClosedAfterRefund
<1> QED
  BY <1>1, RefundInductive, PTL
=============================================================================
