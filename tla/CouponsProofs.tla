--------------------------- MODULE CouponsProofs ---------------------------
(***************************************************************************)
(* Coupons keeps its promises for any number of coupons, codes, bookings   *)
(* and calls, and whatever the offers are worth.  What each step makes of  *)
(* its call and of the bookings comes first, then the invariants, each     *)
(* from what a call that has got so far knows of the tables.               *)
(***************************************************************************)
EXTENDS Coupons, FiniteSetTheorems, TLAPS

Pricing == {"vip", "price", "charge", "record", "count"}
Joining == {"subscribe", "spend"}
Reading == {"vip", "price", "charge"}

\* What a call has seen to, and no other call can undo.
Fits(r) ==
    /\ r.at \in Pricing \cup Confirming => r.booking \in Bookings /\ Exists(r.booking)
    /\ r.at \in Reading \cup {"book"} => r.place \in Places
    /\ r.at = "book" => r.offer \in Codes /\ code[r.offer] # Null
    /\ r.at \in Joining => r.offer \in VipCoupons
    /\ r.at = "vip" => r.priced = {}
    /\ r.at = "price" => \A k \in r.asked \cap r.priced \cap Codes : code[k] # Null
    /\ r.at \in {"charge", "record", "count"} => \A k \in r.asked \cap Codes : code[k] # Null
    /\ r.at = "charge" => r.asked \subseteq r.priced
    /\ r.at = "count" => r.offer \in Codes /\ r.offer \notin r.asked /\ code[r.offer] # Null
    /\ r.at = "mark" => r.asked \subseteq Coupons

CallsFit == \A c \in Calls : Fits(call[c])

\* A booking is for something, once it is there.
Placed ==
    \A b \in Bookings : IF Exists(b) THEN booking[b].place \in Places ELSE booking[b] = NoBooking

Typed == TypeOK /\ CallsFit /\ Placed

Moves(c, r) == call' = [call EXCEPT ![c] = r]

-----------------------------------------------------------------------------
(* Calls *)

LEMMA CallFields ==
    ASSUME NEW r \in Call
    PROVE  /\ r.at \in Steps /\ r.booking \in Opt(Bookings) /\ r.place \in Opt(Places)
           /\ r.asked \subseteq Offers
           /\ r.priced \subseteq Offers \cup {Vip} /\ r.discount \in Nat
           /\ r.offer \in Opt(Offers)
BY DEF Call

LEMMA NoCallTyped ==
    /\ NoCall \in Call
    /\ NoCall.at = "idle" /\ NoCall.booking = Null /\ NoCall.place = Null
    /\ NoCall.asked = {} /\ NoCall.priced = {}
    /\ NoCall.discount = 0 /\ NoCall.offer = Null
BY DEF NoCall, Call, Steps, Opt

(* A call keeps its type when one of its fields changes within its own.    *)
LEMMA CallTyped ==
    \A r \in Call :
        /\ \A v \in Steps : [r EXCEPT !.at = v] \in Call
        /\ \A v \in Opt(Bookings) : [r EXCEPT !.booking = v] \in Call
        /\ \A v \in Opt(Places) : [r EXCEPT !.place = v] \in Call
        /\ \A v \in SUBSET Offers : [r EXCEPT !.asked = v] \in Call
        /\ \A v \in SUBSET (Offers \cup {Vip}) : [r EXCEPT !.priced = v] \in Call
        /\ \A v \in Nat : [r EXCEPT !.discount = v] \in Call
        /\ \A v \in Opt(Offers) : [r EXCEPT !.offer = v] \in Call
BY DEF Call

LEMMA Moved ==
    ASSUME TypeOK, NEW c \in Calls, NEW r \in Call, Moves(c, r)
    PROVE  /\ call' \in [Calls -> Call] /\ call'[c] = r
           /\ \A d \in Calls \ {c} : call'[d] = call[d]
BY DEF Moves, TypeOK

LEMMA DiscountTyped == \A k \in Offers \cup {Vip} : \A p \in Places : Discount(k, p) \in Nat
<1> SUFFICES ASSUME NEW k \in Offers \cup {Vip}, NEW p \in Places PROVE Discount(k, p) \in Nat
  OBVIOUS
<1> DEFINE t == Terms[k]
<1>1. /\ t.percentage \in BOOLEAN /\ t.value \in Nat /\ t.cap \in Nat
      /\ Guests[p] \in Nat /\ Fee[p] \in Nat
  BY CouponsAssumption DEF Term
<1>2. t.value * Guests[p] \in Nat /\ Fee[p] * t.value \in Nat
  BY <1>1
<1>3. (Fee[p] * t.value) \div 10000 \in Nat
  BY <1>2
<1> QED
  BY <1>1, <1>2, <1>3 DEF Discount

-----------------------------------------------------------------------------
(* What each step makes of its call *)

LEMMA ApplyMoves ==
    ASSUME Typed, NEW c \in Calls, NEW b \in Bookings, NEW asked \in SUBSET Offers,
           Apply(c, b, asked)
    PROVE  /\ Exists(b) /\ booking[b].place \in Places
           /\ \E r \in Call : /\ Moves(c, r) /\ r.at = "vip" /\ r.booking = b
                              /\ r.place = booking[b].place
                              /\ r.asked = asked /\ r.priced = {}
<1> DEFINE p == booking[b].place
           r == [NoCall EXCEPT !.at = "vip", !.booking = b, !.place = p, !.asked = asked]
<1>1. Exists(b) /\ p \in Places
  BY DEF Apply, Exists, Typed, Placed
<1>2. r \in Call
  BY <1>1, NoCallTyped, CallTyped DEF Steps, Opt
<1>3. r.at = "vip" /\ r.booking = b /\ r.place = p /\ r.asked = asked /\ r.priced = {}
  BY DEF NoCall
<1>4. Moves(c, r)
  BY DEF Apply, Moves
<1> QED
  BY <1>1, <1>2, <1>3, <1>4

LEMMA PricedMoves ==
    ASSUME NEW r \in Call, r.place \in Places, NEW k \in Offers \cup {Vip}, NEW n \in Nat
    PROVE  /\ Priced(r, k, n) \in Call
           /\ Priced(r, k, n).at = r.at /\ Priced(r, k, n).booking = r.booking
           /\ Priced(r, k, n).asked = r.asked /\ Priced(r, k, n).place = r.place
           /\ Priced(r, k, n).priced = r.priced \cup {k}
<1> DEFINE d == Discount(k, r.place)
<1>1. d \in Nat
  BY DiscountTyped
<1>2. n * d \in Nat
  BY <1>1
<1>3. r.discount + n * d \in Nat /\ r.priced \cup {k} \in SUBSET (Offers \cup {Vip})
  BY <1>2, CallFields
<1> HIDE DEF d
<1>4. Priced(r, k, n) \in Call
  BY <1>3, CallTyped DEF Priced, d
<1> QED
  BY <1>3, <1>4 DEF Priced, Call

LEMMA CheckVipMoves ==
    ASSUME Typed, NEW c \in Calls, CheckVip(c)
    PROVE  \E r \in Call : /\ Moves(c, r) /\ r.at = "price" /\ r.booking = call[c].booking
                           /\ r.asked = call[c].asked /\ r.place = call[c].place
                           /\ r.priced \subseteq {Vip}
<1> DEFINE q == [call[c] EXCEPT !.at = "price"]
<1>1. call[c] \in Call /\ call[c].priced = {} /\ call[c].place \in Places
  BY DEF Typed, TypeOK, CallsFit, Fits, CheckVip, At, Reading
<1>2. q \in Call
  BY <1>1, CallTyped DEF Steps
<1>3. /\ q.at = "price" /\ q.booking = call[c].booking /\ q.asked = call[c].asked
      /\ q.place = call[c].place /\ q.priced = {}
  BY <1>1 DEF Call
<1>4. Moves(c, Priced(q, Vip, 1)) \/ Moves(c, q)
  BY DEF CheckVip, Moves
<1> HIDE DEF q
<1> QED
  BY <1>1, <1>2, <1>3, <1>4, PricedMoves

LEMMA PriceMoves ==
    ASSUME Typed, NEW c \in Calls, NEW k \in Offers, NEW fresh \in BOOLEAN,
           NEW n \in 1 .. MaxNamed, Price(c, k, fresh, n)
    PROVE  \/ Moves(c, NoCall)
           \/ /\ k \in Codes => Usable(k)
              /\ \E r \in Call : /\ Moves(c, r) /\ r.at = "price"
                                 /\ r.booking = call[c].booking /\ r.asked = call[c].asked
                                 /\ r.place = call[c].place
                                 /\ r.priced = call[c].priced \cup {k}
<1>1. call[c] \in Call /\ call[c].at = "price" /\ call[c].place \in Places /\ n \in Nat
  BY CouponsAssumption DEF Typed, TypeOK, Price, At, CallsFit, Fits, Reading
<1>2. \/ Moves(c, NoCall)
      \/ Moves(c, Priced(call[c], k, n)) /\ (k \in Codes => Usable(k))
  BY CouponsAssumption DEF Price, Moves, ValidCode
<1> QED
  BY <1>1, <1>2, PricedMoves

(* A call that goes from one step to the next, with a field changed or not. *)
LEMMA StepMoves ==
    ASSUME Typed, NEW c \in Calls, NEW s \in Steps, call' = [call EXCEPT ![c].at = s]
    PROVE  \E r \in Call :
              /\ Moves(c, r) /\ r.at = s /\ r.booking = call[c].booking
              /\ r.asked = call[c].asked /\ r.priced = call[c].priced
              /\ r.place = call[c].place /\ r.offer = call[c].offer
<1> DEFINE n == [call[c] EXCEPT !.at = s]
<1>1. call[c] \in Call
  BY DEF Typed, TypeOK
<1>2. n \in Call
  BY <1>1, CallTyped
<1>3. /\ n.at = s /\ n.booking = call[c].booking /\ n.asked = call[c].asked
      /\ n.priced = call[c].priced /\ n.place = call[c].place /\ n.offer = call[c].offer
  BY <1>1 DEF Call
<1>4. Moves(c, n)
  BY DEF Moves
<1> HIDE DEF n
<1> QED
  BY <1>2, <1>3, <1>4

LEMMA ReadCouponsMoves ==
    ASSUME Typed, NEW c \in Calls, ReadCoupons(c)
    PROVE  \E r \in Call :
              /\ Moves(c, r) /\ r.at = "mark" /\ r.booking = call[c].booking
              /\ r.asked = applied[call[c].booking]
<1> DEFINE n == [call[c] EXCEPT !.at = "mark", !.asked = applied[call[c].booking]]
<1>1. call[c] \in Call /\ call[c].booking \in Bookings
  BY DEF Typed, TypeOK, CallsFit, Fits, ReadCoupons, At, Confirming
<1>2. applied[call[c].booking] \in SUBSET Offers
  BY <1>1 DEF Typed, TypeOK, Offers
<1>3. n \in Call
  BY <1>1, <1>2, CallTyped DEF Steps, Confirming
<1>4. n.at = "mark" /\ n.booking = call[c].booking /\ n.asked = applied[call[c].booking]
  BY <1>1 DEF Call
<1>5. Moves(c, n)
  BY DEF ReadCoupons, Moves
<1> HIDE DEF n
<1> QED
  BY <1>3, <1>4, <1>5

LEMMA MarkFailsMoves ==
    ASSUME Typed, NEW c \in Calls, MarkFails(c)
    PROVE  \E r \in Call :
              /\ Moves(c, r) /\ r.at = "commit" /\ r.booking = call[c].booking
              /\ r.asked = {}
<1> DEFINE n == [call[c] EXCEPT !.at = "commit", !.asked = {}]
<1>1. call[c] \in Call
  BY DEF Typed, TypeOK
<1>2. {} \in SUBSET Offers
  OBVIOUS
<1>3. n \in Call
  BY <1>1, <1>2, CallTyped DEF Steps, Confirming
<1>4. n.at = "commit" /\ n.booking = call[c].booking /\ n.asked = {}
  BY <1>1 DEF Call
<1>5. Moves(c, n)
  BY DEF MarkFails, Moves
<1> HIDE DEF n
<1> QED
  BY <1>3, <1>4, <1>5

LEMMA CountUseMoves ==
    ASSUME Typed, NEW c \in Calls, CountUse(c)
    PROVE  \E r \in Call :
              /\ Moves(c, r) /\ r.at = "record" /\ r.booking = call[c].booking
              /\ r.asked = call[c].asked
<1> DEFINE n == [call[c] EXCEPT !.at = "record", !.offer = Null]
<1>1. call[c] \in Call
  BY DEF Typed, TypeOK
<1>2. n \in Call
  BY <1>1, CallTyped DEF Steps, Opt
<1>3. n.at = "record" /\ n.booking = call[c].booking /\ n.asked = call[c].asked
  BY <1>1 DEF Call
<1>4. Moves(c, n)
  BY DEF CountUse, Moves
<1> HIDE DEF n
<1> QED
  BY <1>2, <1>3, <1>4

LEMMA ChargeMoves ==
    ASSUME Typed, NEW c \in Calls, Charge(c)
    PROVE  \E r \in Call : /\ Moves(c, r) /\ r.at = "record" /\ r.booking = call[c].booking
                           /\ r.asked = call[c].asked
<1> DEFINE n == [call[c] EXCEPT !.at = "record", !.place = Null, !.priced = {}, !.discount = 0]
<1>1. call[c] \in Call
  BY DEF Typed, TypeOK
<1>2. n \in Call
  BY <1>1, CallTyped DEF Steps, Opt
<1>3. n.at = "record" /\ n.booking = call[c].booking /\ n.asked = call[c].asked
  BY <1>1 DEF Call
<1>4. Moves(c, n)
  BY DEF Charge, Moves
<1> HIDE DEF n
<1> QED
  BY <1>2, <1>3, <1>4

LEMMA RecordMoves ==
    ASSUME Typed, NEW c \in Calls, NEW k \in Offers, Record(c, k)
    PROVE  \E r \in Call : /\ Moves(c, r) /\ r.booking = call[c].booking
                           /\ r.asked = call[c].asked \ {k}
                           /\ r.at = IF k \in Codes THEN "count" ELSE "record"
                           /\ k \in Codes => r.offer = k
<1> DEFINE q == call[c]
           s == IF k \in Codes THEN "count" ELSE "record"
           o == IF k \in Codes THEN k ELSE Null
           n == [q EXCEPT !.asked = @ \ {k}, !.at = s, !.offer = o]
<1>1. q \in Call
  BY DEF Typed, TypeOK
<1>2. q.asked \ {k} \in SUBSET Offers /\ s \in Steps /\ o \in Opt(Offers)
  BY <1>1, CallFields DEF Steps, Opt
<1>3. Moves(c, n)
  BY DEF Record, Moves
<1> HIDE DEF s, o
<1>4. n \in Call
  BY <1>1, <1>2, CallTyped
<1>5. n.at = s /\ n.booking = q.booking /\ n.asked = q.asked \ {k} /\ n.offer = o
  BY <1>1 DEF Call
<1> HIDE DEF n
<1> QED
  BY <1>3, <1>4, <1>5 DEF s, o

LEMMA BookWithCodeMoves ==
    ASSUME Typed, NEW c \in Calls, NEW p \in Places, NEW k \in Codes, BookWithCode(c, p, k)
    PROVE  \E r \in Call : /\ Moves(c, r) /\ r.at = "book" /\ r.place = p /\ r.offer = k
                           /\ r.booking = Null
<1> DEFINE n == [NoCall EXCEPT !.at = "book", !.place = p, !.offer = k]
<1>1. n \in Call
  BY NoCallTyped, CallTyped DEF Steps, Opt, Offers
<1>2. n.at = "book" /\ n.place = p /\ n.offer = k /\ n.booking = Null
  BY DEF NoCall
<1>3. Moves(c, n)
  BY DEF BookWithCode, Moves
<1> QED
  BY <1>1, <1>2, <1>3

LEMMA ConfirmBookingMoves ==
    ASSUME Typed, NEW c \in Calls, NEW b \in Bookings, ConfirmBooking(c, b)
    PROVE  \E r \in Call : Moves(c, r) /\ r.at = "ids" /\ r.booking = b
<1> DEFINE n == [NoCall EXCEPT !.at = "ids", !.booking = b]
<1>1. n \in Call
  BY NoCallTyped, CallTyped DEF Steps, Confirming, Opt
<1>2. n.at = "ids" /\ n.booking = b
  BY DEF NoCall
<1>3. Moves(c, n)
  BY DEF ConfirmBooking, Moves
<1> QED
  BY <1>1, <1>2, <1>3

LEMMA ActivateVipMoves ==
    ASSUME Typed, NEW c \in Calls, NEW k \in VipCoupons, ActivateVip(c, k)
    PROVE  \E r \in Call : Moves(c, r) /\ r.at = "subscribe" /\ r.offer = k /\ r.booking = Null
<1> DEFINE n == [NoCall EXCEPT !.at = "subscribe", !.offer = k]
<1>1. n \in Call
  BY NoCallTyped, CallTyped, CouponsAssumption DEF Steps, Opt, Offers
<1>2. n.at = "subscribe" /\ n.offer = k /\ n.booking = Null
  BY DEF NoCall
<1>3. Moves(c, n)
  BY DEF ActivateVip, Moves
<1> QED
  BY <1>1, <1>2, <1>3

-----------------------------------------------------------------------------
(* What a step makes of a booking *)

Closed == {"confirmed", "cancelled", "expired"}

\* The booking is, or would be, paid for as a new one is.
AtFullPrice(n) ==
    n.quote = n.place /\ n.commission = Fee[n.place] /\ n.total = n.commission + Net[n.place]

Charged(q, r, n) ==
    /\ n.status = q.status /\ n.place = q.place /\ n.paid = q.paid
    /\ n.priced = r.priced \cap Coupons
    /\ n.quote = r.place /\ n.commission \in 0 .. Fee[r.place]
    /\ n.total = n.commission + Net[r.place]

Entered(n) ==
    /\ n.status # "absent" /\ n.place \in Places /\ n.priced = {} /\ ~n.paid
    /\ AtFullPrice(n) \/ (n.quote = Null /\ n.commission = 0)

Changed(q, n) ==
    /\ q.status = "pending" /\ n.status = "pending" /\ n.place \in Places
    /\ n.priced = q.priced /\ n.paid = q.paid
    /\ AtFullPrice(n)

Ended(q, n) ==
    /\ n.status \in Closed /\ n.place = q.place /\ (q.paid => n.paid)
    /\ n.commission = q.commission /\ n.total = q.total /\ n.quote = q.quote
    /\ n.priced = q.priced

Written(b) ==
    \/ booking'[b] = booking[b]
    \/ \E c \in Calls : /\ Charge(c) /\ call[c].booking = b /\ Exists(b)
                        /\ Charged(booking[b], call[c], booking'[b])
    \/ ~Exists(b) /\ Entered(booking'[b])
    \/ \E p \in Places : UpdateBooking(b, p) /\ Changed(booking[b], booking'[b])
    \/ Exists(b) /\ Ended(booking[b], booking'[b])

BookingsWritten == booking' \in [Bookings -> Booking] /\ \A b \in Bookings : Written(b)

LEMMA BookingFields ==
    ASSUME NEW r \in Booking
    PROVE  /\ r.status \in Statuses /\ r.place \in Opt(Places) /\ r.commission \in Nat
           /\ r.total \in Nat /\ r.quote \in Opt(Places) /\ r.priced \subseteq Coupons
           /\ r.paid \in BOOLEAN
BY DEF Booking

LEMMA NoBookingTyped ==
    /\ NoBooking \in Booking
    /\ NoBooking.status = "absent" /\ NoBooking.place = Null /\ NoBooking.commission = 0
    /\ NoBooking.quote = Null /\ NoBooking.priced = {} /\ NoBooking.paid = FALSE
BY DEF NoBooking, Booking, Statuses, Opt

LEMMA ReducedTyped ==
    \A fee \in Nat : \A d \in Nat : Reduced(fee, d) \in Nat /\ Reduced(fee, d) <= fee
BY DEF Reduced

(* A row written into the table.                                           *)
LEMMA RowWritten ==
    ASSUME Typed, NEW b \in Bookings, NEW n \in Booking, booking' = [booking EXCEPT ![b] = n]
    PROVE  /\ booking' \in [Bookings -> Booking]
           /\ booking'[b] = n
           /\ \A d \in Bookings \ {b} : booking'[d] = booking[d]
BY DEF Typed, TypeOK

LEMMA QuotedWrites ==
    ASSUME NEW q \in Booking, NEW p \in Places
    PROVE  /\ Quoted(q, p) \in Booking /\ AtFullPrice(Quoted(q, p))
           /\ Quoted(q, p).place = p /\ Quoted(q, p).status = q.status
           /\ Quoted(q, p).priced = q.priced /\ Quoted(q, p).paid = q.paid
<1> DEFINE n == [q EXCEPT !.place = p, !.quote = p, !.commission = Fee[p], !.total = Fee[p] + Net[p]]
<1>1. Fee[p] \in Nat /\ Net[p] \in Nat /\ Fee[p] + Net[p] \in Nat /\ p \in Opt(Places)
  BY CouponsAssumption DEF Opt
<1>2. n \in Booking
  BY <1>1 DEF Booking
<1>3. /\ n.place = p /\ n.quote = p /\ n.commission = Fee[p] /\ n.total = Fee[p] + Net[p]
      /\ n.status = q.status /\ n.priced = q.priced /\ n.paid = q.paid
  BY DEF Booking
<1>4. Quoted(q, p) = n
  BY DEF Quoted
<1> HIDE DEF n
<1> QED
  BY <1>2, <1>3, <1>4 DEF AtFullPrice

LEMMA AskedWrites ==
    ASSUME NEW p \in Places
    PROVE  Asked(p) \in Booking /\ Entered(Asked(p))
<1> DEFINE q == [NoBooking EXCEPT !.status = "pending"]
<1>1. q \in Booking /\ q.status = "pending" /\ q.priced = {} /\ q.paid = FALSE
  BY NoBookingTyped DEF Booking, Statuses
<1>2. Asked(p) = Quoted(q, p)
  BY DEF Asked
<1> HIDE DEF q
<1> QED
  BY <1>1, <1>2, QuotedWrites DEF Entered

LEMMA ByAgentWrites ==
    ASSUME NEW p \in Places
    PROVE  ByAgent(p) \in Booking /\ Entered(ByAgent(p))
<1> DEFINE n == [NoBooking EXCEPT !.status = "confirmed", !.place = p, !.total = Fee[p] + Net[p]]
<1>1. Fee[p] + Net[p] \in Nat /\ p \in Opt(Places)
  BY CouponsAssumption DEF Opt
<1>2. n \in Booking
  BY <1>1, NoBookingTyped DEF Booking, Statuses
<1>3. /\ n.status = "confirmed" /\ n.place = p /\ n.priced = {} /\ n.paid = FALSE
      /\ n.quote = Null /\ n.commission = 0
  BY NoBookingTyped DEF Booking
<1>4. ByAgent(p) = n
  BY DEF ByAgent
<1> HIDE DEF n
<1> QED
  BY <1>2, <1>3, <1>4 DEF Entered

LEMMA ChargeWrites ==
    ASSUME Typed, NEW c \in Calls, Charge(c)
    PROVE  \E n \in Booking :
              /\ call[c].booking \in Bookings /\ Exists(call[c].booking)
              /\ call[c].place \in Places
              /\ booking' = [booking EXCEPT ![call[c].booking] = n]
              /\ Charged(booking[call[c].booking], call[c], n)
<1> DEFINE b == call[c].booking
           p == call[c].place
           m == Reduced(Fee[p], call[c].discount)
           q == booking[b]
           n == [q EXCEPT !.commission = m, !.total = m + Net[p], !.quote = p,
                          !.priced = call[c].priced \cap Coupons]
<1>1. call[c] \in Call /\ b \in Bookings /\ Exists(b) /\ p \in Places /\ q \in Booking
  BY DEF Typed, TypeOK, CallsFit, Fits, Charge, At, Pricing, Reading
<1>2. m \in 0 .. Fee[p] /\ m \in Nat /\ m + Net[p] \in Nat /\ p \in Opt(Places)
  <2>1. Fee[p] \in Nat /\ Net[p] \in Nat /\ call[c].discount \in Nat
    BY <1>1, CallFields, CouponsAssumption
  <2>2. m \in Nat /\ m <= Fee[p]
    BY <2>1, ReducedTyped
  <2> HIDE DEF m
  <2> QED
    BY <1>1, <2>1, <2>2 DEF Opt
<1>3. booking' = [booking EXCEPT ![b] = n]
  BY DEF Charge
<1> HIDE DEF m, q
<1>4. n \in Booking
  BY <1>1, <1>2 DEF Booking
<1>5. /\ n.status = q.status /\ n.place = q.place /\ n.paid = q.paid
      /\ n.priced = call[c].priced \cap Coupons
      /\ n.commission = m /\ n.total = m + Net[p] /\ n.quote = p
  BY <1>1 DEF Booking
<1> HIDE DEF n
<1>6. Charged(q, call[c], n)
  BY <1>2, <1>5 DEF Charged
<1> QED
  BY <1>1, <1>3, <1>4, <1>6 DEF q

LEMMA EndedWrites ==
    ASSUME NEW q \in Booking, NEW s \in Closed
    PROVE  LET n == [q EXCEPT !.status = s] IN
           n \in Booking /\ Ended(q, n) /\ n.status = s /\ n.paid = q.paid
<1> DEFINE n == [q EXCEPT !.status = s]
<1>1. n \in Booking
  BY DEF Booking, Statuses, Closed
<1>2. /\ n.status = s /\ n.place = q.place /\ n.paid = q.paid /\ n.commission = q.commission
      /\ n.total = q.total /\ n.quote = q.quote /\ n.priced = q.priced
  BY DEF Booking
<1> HIDE DEF n
<1>3. Ended(q, n)
  BY <1>2 DEF Ended
<1> QED
  BY <1>1, <1>2, <1>3 DEF n

LEMMA BecomeWrites ==
    ASSUME Typed, NEW B \in SUBSET Bookings, NEW s \in Closed, Become(B, s)
    PROVE  BookingsWritten
<1> DEFINE n(b) == IF b \in B THEN [booking[b] EXCEPT !.status = s] ELSE booking[b]
<1>1. booking \in [Bookings -> Booking]
  BY DEF Typed, TypeOK
<1>2. booking' = [b \in Bookings |-> n(b)]
  BY DEF Become
<1>3. ASSUME NEW b \in Bookings
      PROVE  n(b) \in Booking /\ (n(b) = booking[b] \/ (b \in B /\ Ended(booking[b], n(b))))
  BY <1>1, EndedWrites
<1> HIDE DEF n
<1>4. ASSUME NEW b \in Bookings PROVE Written(b)
  <2>1. booking'[b] = n(b) /\ (b \in B => Exists(b))
    BY <1>2 DEF Become
  <2> QED
    BY <1>3, <2>1 DEF Written
<1> QED
  BY <1>2, <1>3, <1>4 DEF BookingsWritten

LEMMA CommitWrites ==
    ASSUME Typed, NEW c \in Calls, Commit(c)
    PROVE  \E n \in Booking :
              /\ call[c].booking \in Bookings /\ Exists(call[c].booking)
              /\ booking' = [booking EXCEPT ![call[c].booking] = n]
              /\ Ended(booking[call[c].booking], n) /\ n.status = "confirmed" /\ n.paid
<1> DEFINE b == call[c].booking
           q == booking[b]
           n == [q EXCEPT !.status = "confirmed", !.paid = TRUE]
<1>1. b \in Bookings /\ Exists(b) /\ q \in Booking
  BY DEF Typed, TypeOK, CallsFit, Fits, Commit, At, Confirming
<1>2. booking' = [booking EXCEPT ![b] = n]
  BY <1>1 DEF Commit, Typed, TypeOK
<1> HIDE DEF q
<1>3. n \in Booking
  BY <1>1 DEF Booking, Statuses
<1>4. /\ n.status = "confirmed" /\ n.place = q.place /\ n.paid = TRUE
      /\ n.commission = q.commission /\ n.total = q.total /\ n.quote = q.quote
      /\ n.priced = q.priced
  BY <1>1 DEF Booking
<1> HIDE DEF n
<1>5. Ended(q, n)
  BY <1>4 DEF Ended, Closed
<1> QED
  BY <1>1, <1>2, <1>3, <1>4, <1>5 DEF q

(* The kinds of steps.                                                     *)

ApplyStep(c) ==
    \/ \E b \in Bookings : \E asked \in SUBSET Offers : Apply(c, b, asked)
    \/ CheckVip(c) \/ Clear(c) \/ Charge(c) \/ CountUse(c) \/ Applied(c)
    \/ \E k \in Offers : Record(c, k)
    \/ \E k \in Offers : \E fresh \in BOOLEAN : \E n \in 1 .. MaxNamed : Price(c, k, fresh, n)

BookStep(c) ==
    \/ \E p \in Places : \E k \in Codes : BookWithCode(c, p, k)
    \/ \E b \in Bookings : InsertBooking(c, b)

ConfirmStep(c) ==
    \/ \E b \in Bookings : ConfirmBooking(c, b)
    \/ ReadCoupons(c) \/ MarkUsed(c) \/ MarkFails(c) \/ Commit(c)

VipStep(c) ==
    \/ \E k \in VipCoupons : ActivateVip(c, k)
    \/ Subscribe(c) \/ SpendVipCoupon(c)

CallStep(c) == ApplyStep(c) \/ BookStep(c) \/ ConfirmStep(c) \/ VipStep(c) \/ Crash(c)

\* The rest of the system has to do with a booking.
BookingStep ==
    \/ \E b \in Bookings : \E p \in Places : \E s \in {"pending", "confirmed"} :
          MakeBooking(b, p, s)
    \/ \E b \in Bookings : \E p \in Places : UpdateBooking(b, p)
    \/ \E B \in SUBSET Bookings : \E s \in Closed : Become(B, s)

LEMMA StepKinds ==
    Next => \/ \E c \in Calls : CallStep(c)
            \/ BookingStep
            \/ \E k \in Codes : CreateReferralCode(k)
<1>1. ASSUME NEW b \in Bookings, NEW s \in {"confirmed", "cancelled"}, DecideBooking(b, s)
      PROVE  BookingStep
  BY <1>1 DEF DecideBooking, BookingStep, Closed
<1>2. ASSUME NEW B \in SUBSET Bookings, ExpireBookings(B) PROVE BookingStep
  BY <1>2 DEF ExpireBookings, BookingStep, Closed
<1>3. ASSUME NEW b \in Bookings, CancelBooking(b) PROVE BookingStep
  BY <1>3 DEF CancelBooking, BookingStep, Closed
<1>4. ASSUME NEW c \in Calls, Step(c) PROVE CallStep(c)
  BY <1>4 DEF Step, CallStep, ApplyStep, BookStep, ConfirmStep, VipStep
<1> QED
  BY <1>1, <1>2, <1>3, <1>4 DEF Next, BookingStep

LEMMA OneRow ==
    ASSUME Typed, NEW b \in Bookings, NEW n \in Booking, booking' = [booking EXCEPT ![b] = n],
           booking'[b] = n => Written(b)
    PROVE  BookingsWritten
BY RowWritten DEF BookingsWritten, Written

(* No step does anything else to a booking.                                *)
LEMMA BookingWrites ==
    ASSUME Typed, Next
    PROVE  BookingsWritten
<1>1. UNCHANGED booking => BookingsWritten
  BY DEF BookingsWritten, Written, Typed, TypeOK
<1>2. ASSUME NEW c \in Calls, ApplyStep(c) PROVE BookingsWritten
  <2>1. CASE Charge(c)
    BY <2>1, ChargeWrites, OneRow DEF Written
  <2>2. CASE ~Charge(c)
    BY <1>1, <1>2, <2>2 DEF ApplyStep, Apply, CheckVip, Clear, CountUse, Applied, Record, Price
  <2> QED
    BY <2>1, <2>2
<1>3. ASSUME NEW c \in Calls, BookStep(c) PROVE BookingsWritten
  <2>1. ASSUME NEW b \in Bookings, InsertBooking(c, b) PROVE BookingsWritten
    <3>1. call[c].place \in Places
      BY <2>1 DEF InsertBooking, At, Typed, CallsFit, Fits
    <3>2. ~Exists(b) /\ booking' = [booking EXCEPT ![b] = Asked(call[c].place)]
      BY <2>1 DEF InsertBooking
    <3> QED
      BY <3>1, <3>2, AskedWrites, OneRow DEF Written
  <2>2. ASSUME NEW p \in Places, NEW k \in Codes, BookWithCode(c, p, k) PROVE BookingsWritten
    BY <1>1, <2>2 DEF BookWithCode
  <2> QED
    BY <1>3, <2>1, <2>2 DEF BookStep
<1>4. ASSUME NEW c \in Calls, ConfirmStep(c) PROVE BookingsWritten
  <2>1. CASE Commit(c)
    BY <2>1, CommitWrites, OneRow DEF Written
  <2>2. CASE ~Commit(c)
    BY <1>1, <1>4, <2>2 DEF ConfirmStep, ConfirmBooking, ReadCoupons, MarkUsed, MarkFails
  <2> QED
    BY <2>1, <2>2
<1>5. ASSUME NEW c \in Calls, VipStep(c) \/ Crash(c) PROVE BookingsWritten
  BY <1>1, <1>5 DEF VipStep, ActivateVip, Subscribe, SpendVipCoupon, Crash
<1>6. ASSUME NEW k \in Codes, CreateReferralCode(k) PROVE BookingsWritten
  BY <1>1, <1>6 DEF CreateReferralCode
<1>7. ASSUME NEW b \in Bookings, NEW p \in Places, NEW s \in {"pending", "confirmed"},
             MakeBooking(b, p, s)
      PROVE  BookingsWritten
  <2>1. /\ ~Exists(b)
        /\ \/ booking' = [booking EXCEPT ![b] = Asked(p)]
           \/ booking' = [booking EXCEPT ![b] = ByAgent(p)]
    BY <1>7 DEF MakeBooking
  <2> QED
    BY <2>1, AskedWrites, ByAgentWrites, OneRow DEF Written
<1>8. ASSUME NEW b \in Bookings, NEW p \in Places, UpdateBooking(b, p) PROVE BookingsWritten
  <2>1. /\ booking[b] \in Booking /\ booking[b].status = "pending"
        /\ booking' = [booking EXCEPT ![b] = Quoted(booking[b], p)]
    BY <1>8 DEF UpdateBooking, Typed, TypeOK
  <2>2. Quoted(booking[b], p) \in Booking /\ Changed(booking[b], Quoted(booking[b], p))
    BY <2>1, QuotedWrites DEF Changed
  <2>3. booking'[b] = Quoted(booking[b], p) => Written(b)
    BY <1>8, <2>2 DEF Written
  <2> QED
    BY <2>1, <2>2, <2>3, OneRow
<1>9. ASSUME NEW B \in SUBSET Bookings, NEW s \in Closed, Become(B, s) PROVE BookingsWritten
  BY <1>9, BecomeWrites
<1> QED
  BY <1>2, <1>3, <1>4, <1>5, <1>6, <1>7, <1>8, <1>9, StepKinds DEF CallStep, BookingStep

\* The bookings are rows of their kind again, and those there were stay.
BookingsFine ==
    /\ booking' \in [Bookings -> Booking]
    /\ Placed'
    /\ \A b \in Bookings : Exists(b) => Exists(b)'

LEMMA FineStep ==
    ASSUME Typed, [Next]_vars
    PROVE  BookingsFine
<1>1. booking \in [Bookings -> Booking] /\ Placed
  BY DEF Typed, TypeOK
<1>2. CASE UNCHANGED vars
  BY <1>1, <1>2 DEF vars, BookingsFine, Placed, Exists
<1>3. CASE Next
  <2>1. booking' \in [Bookings -> Booking] /\ \A b \in Bookings : Written(b)
    BY <1>3, BookingWrites DEF BookingsWritten
  <2>2. ASSUME NEW b \in Bookings
        PROVE  /\ Exists(b) => Exists(b)'
               /\ IF Exists(b)' THEN booking'[b].place \in Places ELSE booking'[b] = NoBooking
    <3>1. IF Exists(b) THEN booking[b].place \in Places ELSE booking[b] = NoBooking
      BY <1>1 DEF Placed
    <3>2. Written(b)
      BY <2>1
    <3> QED
      BY <3>1, <3>2 DEF Written, Charged, Entered, Changed, Ended, Closed, Exists
  <2> QED
    BY <2>1, <2>2 DEF BookingsFine, Placed
<1> QED
  BY <1>2, <1>3

-----------------------------------------------------------------------------
(* Type correctness *)

CodesStay == \A k \in Codes : code[k] # Null => code'[k] # Null

\* What a call knows of the tables lasts.
Last == BookingsFine /\ CodesStay

LEMMA FitsLast ==
    ASSUME Last, NEW r \in Call, Fits(r)
    PROVE  Fits(r)'
<1>1. r.asked \subseteq Offers
  BY CallFields
<1> QED
  BY <1>1 DEF Fits, Last, CodesStay, BookingsFine

LEMMA CallsKeep ==
    ASSUME Typed, Last, NEW c \in Calls, NEW r \in Call, Moves(c, r), Fits(r)'
    PROVE  call' \in [Calls -> Call] /\ CallsFit'
<1>1. /\ call' \in [Calls -> Call] /\ call'[c] = r
      /\ \A d \in Calls \ {c} : call'[d] = call[d]
  BY Moved DEF Typed
<1>2. Fits(call[c])'
  BY <1>1 DEF Fits
<1>3. ASSUME NEW d \in Calls \ {c} PROVE Fits(call[d])'
  <2>1. PICK q \in Call : q = call[d]
    BY DEF Typed, TypeOK
  <2>2. Fits(q)'
    BY <2>1, FitsLast DEF Typed, CallsFit
  <2>3. call'[d] = q
    BY <1>1, <2>1
  <2> QED
    BY <2>2, <2>3 DEF Fits
<1> QED
  BY <1>1, <1>2, <1>3 DEF CallsFit

LEMMA CallReturns ==
    ASSUME Typed, Last, NEW c \in Calls, Return(c)
    PROVE  call' \in [Calls -> Call] /\ CallsFit'
<1>1. PICK r \in Call : r = NoCall
  BY NoCallTyped
<1>2. Fits(r)'
  BY <1>1, NoCallTyped DEF Fits, Pricing, Confirming, Joining, Reading
<1> QED
  BY <1>1, <1>2, CallsKeep DEF Return, Moves

LEMMA NobodyMoves ==
    ASSUME Typed, Last, UNCHANGED call
    PROVE  call' \in [Calls -> Call] /\ CallsFit'
<1>1. ASSUME NEW d \in Calls PROVE Fits(call[d])'
  <2>1. PICK q \in Call : q = call[d]
    BY DEF Typed, TypeOK
  <2>2. Fits(q)' /\ call'[d] = q
    BY <2>1, FitsLast DEF Typed, CallsFit
  <2> QED
    BY <2>2 DEF Fits
<1> QED
  BY <1>1 DEF CallsFit, Typed, TypeOK

(* A step that keeps the kinds of the other tables.                        *)
Tables ==
    /\ coupon \in [Coupons -> Coupon]
    /\ code \in [Codes -> Opt(Code)]
    /\ applied \in [Bookings -> SUBSET Coupons]
    /\ vips \in 0 .. MaxVips
    /\ undone \subseteq Bookings /\ raced \subseteq Bookings /\ overtaken \subseteq Bookings

tables == <<coupon, code, applied, vips, undone, overtaken>>

LEMMA TypedNext ==
    ASSUME Tables', BookingsFine, call' \in [Calls -> Call], CallsFit' PROVE Typed'
BY DEF Typed, TypeOK, Tables, BookingsFine

LEMMA TablesStay ==
    ASSUME Typed, UNCHANGED tables, raced' \subseteq Bookings
    PROVE  Tables' /\ CodesStay /\ UNCHANGED code
BY DEF Typed, TypeOK, Tables, tables, CodesStay

(* A use of a code is counted.                                             *)
LEMMA Counted ==
    ASSUME Typed, NEW k \in Codes, code[k] # Null, code[k].count < MaxUses,
           code' = [code EXCEPT ![k].count = @ + 1]
    PROVE  /\ code' \in [Codes -> Opt(Code)] /\ CodesStay
           /\ code'[k].count = code[k].count + 1
           /\ \A j \in Codes \ {k} : code'[j] = code[j]
<1> DEFINE row == [code[k] EXCEPT !.count = @ + 1]
<1>1. code \in [Codes -> Opt(Code)] /\ Null \notin Code
  BY NullIsNoCode DEF Typed, TypeOK
<1>2. code[k] \in Code
  BY <1>1 DEF Opt
<1>3. code' = [code EXCEPT ![k] = row] /\ code[k].count + 1 \in 0 .. MaxUses
  BY <1>1, <1>2, CouponsAssumption DEF Code
<1>4. row \in Code /\ row.count = code[k].count + 1
  BY <1>2, <1>3 DEF Code
<1> HIDE DEF row
<1> QED
  BY <1>1, <1>3, <1>4 DEF Opt, CodesStay

LEMMA ApplyStepTyped ==
    ASSUME Typed, NEW c \in Calls, ApplyStep(c), BookingsFine
    PROVE  Typed'
<1>1. Tables /\ call[c] \in Call /\ Fits(call[c])
  BY DEF Typed, TypeOK, Tables, CallsFit
<1>2. ASSUME Tables', CodesStay, NEW r \in Call, Moves(c, r), Fits(r)' PROVE Typed'
  BY <1>2, CallsKeep, TypedNext DEF Last
<1>3. ASSUME NEW b \in Bookings, Exists(b) PROVE Exists(b)'
  BY <1>3 DEF BookingsFine
<1>4. ASSUME NEW b \in Bookings, NEW asked \in SUBSET Offers, Apply(c, b, asked) PROVE Typed'
  <2>1. Tables' /\ CodesStay
    <3>1. UNCHANGED tables /\ raced' \subseteq Bookings
      BY <1>1, <1>4 DEF Apply, Joined, tables, Tables
    <3> QED
      BY <3>1, TablesStay
  <2>2. PICK r \in Call : /\ Moves(c, r) /\ r.at = "vip" /\ r.booking = b /\ r.priced = {}
                          /\ r.place \in Places
    BY <1>4, ApplyMoves
  <2>3. Exists(b)'
    BY <1>3, <1>4, ApplyMoves
  <2>4. Fits(r)'
    BY <2>2, <2>3 DEF Fits, Joining, Reading
  <2> QED
    BY <1>2, <2>1, <2>2, <2>4
<1>5. CASE CheckVip(c)
  <2>1. Tables' /\ CodesStay
    <3>1. UNCHANGED tables /\ raced' \subseteq Bookings
      BY <1>1, <1>5 DEF CheckVip, tables, Tables, past
    <3> QED
      BY <3>1, TablesStay
  <2>2. PICK r \in Call : /\ Moves(c, r) /\ r.at = "price" /\ r.booking = call[c].booking
                          /\ r.place = call[c].place /\ r.priced \subseteq {Vip}
    BY <1>5, CheckVipMoves
  <2>3. call[c].at = "vip"
    BY <1>5 DEF CheckVip, At
  <2>4. r.booking \in Bookings /\ Exists(r.booking)' /\ r.place \in Places
    BY <1>1, <1>3, <2>2, <2>3 DEF Fits, Pricing, Reading
  <2>5. r.priced \cap Codes = {}
    BY <2>2, CouponsAssumption DEF Offers
  <2>6. Fits(r)'
    BY <2>2, <2>4, <2>5 DEF Fits, Joining, Confirming
  <2> QED
    BY <1>2, <2>1, <2>2, <2>6
<1>6. ASSUME NEW k \in Offers, NEW fresh \in BOOLEAN, NEW n \in 1 .. MaxNamed,
             Price(c, k, fresh, n)
      PROVE  Typed'
  <2>1. Tables' /\ CodesStay /\ UNCHANGED code
    <3>1. UNCHANGED tables /\ raced' \subseteq Bookings
      BY <1>1, <1>6 DEF Price, tables, Tables, past
    <3> QED
      BY <3>1, TablesStay
  <2>2. CASE Moves(c, NoCall)
    BY <2>1, <2>2, CallReturns, TypedNext DEF Moves, Return, Last
  <2>3. ASSUME k \in Codes => Usable(k), NEW r \in Call, Moves(c, r), r.at = "price",
               r.booking = call[c].booking, r.asked = call[c].asked, r.place = call[c].place,
               r.priced = call[c].priced \cup {k}
        PROVE  Typed'
    <3>1. call[c].at = "price" /\ (k \in Codes => code[k] # Null)
      BY <1>6, <2>3 DEF Price, At, Usable
    <3>2. r.booking \in Bookings /\ Exists(r.booking)' /\ r.place \in Places
      BY <1>1, <1>3, <2>3, <3>1 DEF Fits, Pricing, Reading
    <3>3. \A j \in r.asked \cap r.priced \cap Codes : code'[j] # Null
      BY <1>1, <2>1, <2>3, <3>1 DEF Fits
    <3>4. Fits(r)'
      BY <2>3, <3>2, <3>3 DEF Fits, Joining, Confirming
    <3> QED
      BY <1>2, <2>1, <2>3, <3>4
  <2> QED
    BY <1>6, <2>2, <2>3, PriceMoves
<1>7. CASE Clear(c)
  <2>1. Tables' /\ CodesStay /\ UNCHANGED code
    <3>1. call[c].booking \in Bookings
      BY <1>1, <1>7 DEF Fits, Clear, At, Pricing
    <3>2. \A S \in SUBSET Coupons : Cleared(S) \in SUBSET Coupons
      BY DEF Cleared
    <3> QED
      BY <1>1, <1>7, <3>1, <3>2 DEF Clear, Tables, CodesStay, past
  <2>2. PICK r \in Call : /\ Moves(c, r) /\ r.at = "charge" /\ r.booking = call[c].booking
                          /\ r.place = call[c].place
                          /\ r.asked = call[c].asked /\ r.priced = call[c].priced
    <3>1. call' = [call EXCEPT ![c].at = "charge"] /\ "charge" \in Steps
      BY <1>7 DEF Clear, Steps
    <3> QED
      BY <3>1, StepMoves
  <2>3. call[c].at = "price" /\ call[c].asked \subseteq call[c].priced
    BY <1>7 DEF Clear, At
  <2>4. r.booking \in Bookings /\ Exists(r.booking)' /\ r.place \in Places
    BY <1>1, <1>3, <2>2, <2>3 DEF Fits, Pricing, Reading
  <2>5. r.asked \subseteq r.priced /\ \A j \in r.asked \cap Codes : code'[j] # Null
    BY <1>1, <2>1, <2>2, <2>3 DEF Fits
  <2>6. Fits(r)'
    BY <2>2, <2>4, <2>5 DEF Fits, Joining, Confirming
  <2> QED
    BY <1>2, <2>1, <2>2, <2>6
<1>8. CASE Charge(c)
  <2>1. Tables' /\ CodesStay /\ UNCHANGED code
    BY <1>1, <1>8 DEF Charge, Tables, CodesStay, past
  <2>2. PICK r \in Call : /\ Moves(c, r) /\ r.at = "record" /\ r.booking = call[c].booking
                          /\ r.asked = call[c].asked
    BY <1>8, ChargeMoves
  <2>3. call[c].at = "charge"
    BY <1>8 DEF Charge, At
  <2>4. /\ r.booking \in Bookings /\ Exists(r.booking)'
        /\ \A j \in r.asked \cap Codes : code'[j] # Null
    BY <1>1, <1>3, <2>1, <2>2, <2>3 DEF Fits, Pricing
  <2>5. Fits(r)'
    BY <2>2, <2>4 DEF Fits, Joining, Reading, Confirming
  <2> QED
    BY <1>2, <2>1, <2>2, <2>5
<1>9. ASSUME NEW k \in Offers, Record(c, k) PROVE Typed'
  <2>1. call[c].at = "record" /\ k \in call[c].asked
    BY <1>9 DEF Record, At
  <2>2. Tables' /\ CodesStay /\ UNCHANGED code
    <3>1. call[c].booking \in Bookings
      BY <1>1, <2>1 DEF Fits, Pricing
    <3> QED
      BY <1>1, <1>9, <3>1 DEF Record, Unspent, Tables, CodesStay, past
  <2>3. PICK r \in Call : /\ Moves(c, r) /\ r.booking = call[c].booking
                          /\ r.asked = call[c].asked \ {k}
                          /\ r.at = IF k \in Codes THEN "count" ELSE "record"
                          /\ k \in Codes => r.offer = k
    BY <1>9, RecordMoves
  <2>4. /\ r.booking \in Bookings /\ Exists(r.booking)'
        /\ \A j \in call[c].asked \cap Codes : code'[j] # Null
    BY <1>1, <1>3, <2>1, <2>2, <2>3 DEF Fits, Pricing
  <2>5. Fits(r)'
    BY <2>1, <2>3, <2>4 DEF Fits, Joining, Reading, Confirming
  <2> QED
    BY <1>2, <2>2, <2>3, <2>5
<1>10. CASE CountUse(c)
  <2> DEFINE k == call[c].offer
  <2>1. call[c].at = "count" /\ k \in Codes /\ code[k] # Null
    BY <1>1, <1>10 DEF Fits, CountUse, At
  <2>2. code' \in [Codes -> Opt(Code)] /\ CodesStay
    BY <1>10, <2>1, Counted DEF CountUse
  <2>3. Tables'
    BY <1>1, <1>10, <2>2 DEF CountUse, Tables, past
  <2>4. PICK r \in Call : /\ Moves(c, r) /\ r.at = "record" /\ r.booking = call[c].booking
                          /\ r.asked = call[c].asked
    BY <1>10, CountUseMoves
  <2>5. /\ r.booking \in Bookings /\ Exists(r.booking)'
        /\ \A j \in r.asked \cap Codes : code'[j] # Null
    BY <1>1, <1>3, <2>1, <2>2, <2>4 DEF Fits, Pricing, CodesStay
  <2>6. Fits(r)'
    BY <2>4, <2>5 DEF Fits, Joining, Reading, Confirming
  <2> QED
    BY <1>2, <2>2, <2>3, <2>4, <2>6
<1>11. CASE Applied(c)
  <2>1. UNCHANGED tables /\ raced' \subseteq Bookings /\ Return(c)
    BY <1>1, <1>11 DEF Applied, tables, Tables, past
  <2> QED
    BY <2>1, TablesStay, CallReturns, TypedNext DEF Last
<1> QED
  BY <1>4, <1>5, <1>6, <1>7, <1>8, <1>9, <1>10, <1>11 DEF ApplyStep

LEMMA BookStepTyped ==
    ASSUME Typed, NEW c \in Calls, BookStep(c), BookingsFine
    PROVE  Typed'
<1>1. Tables /\ call[c] \in Call /\ Fits(call[c])
  BY DEF Typed, TypeOK, Tables, CallsFit
<1>2. ASSUME NEW p \in Places, NEW k \in Codes, BookWithCode(c, p, k) PROVE Typed'
  <2>1. UNCHANGED tables /\ raced' \subseteq Bookings /\ code[k] # Null
    BY <1>1, <1>2 DEF BookWithCode, tables, Tables, past, Usable
  <2>2. Tables' /\ CodesStay /\ code'[k] # Null
    BY <2>1, TablesStay
  <2>3. PICK r \in Call : Moves(c, r) /\ r.at = "book" /\ r.place = p /\ r.offer = k
    BY <1>2, BookWithCodeMoves
  <2>4. Fits(r)'
    BY <2>2, <2>3 DEF Fits, Pricing, Joining, Reading, Confirming
  <2> QED
    BY <2>2, <2>3, <2>4, CallsKeep, TypedNext DEF Last
<1>3. ASSUME NEW b \in Bookings, InsertBooking(c, b) PROVE Typed'
  <2> DEFINE k == call[c].offer
  <2>1. k \in Codes /\ code[k] # Null
    BY <1>1, <1>3 DEF InsertBooking, At, Fits
  <2>2. code' \in [Codes -> Opt(Code)] /\ CodesStay
    BY <1>3, <2>1, Counted DEF InsertBooking
  <2>3. Tables' /\ Return(c)
    BY <1>1, <1>3, <2>2 DEF InsertBooking, Tables, past
  <2> QED
    BY <2>2, <2>3, CallReturns, TypedNext DEF Last
<1> QED
  BY <1>2, <1>3 DEF BookStep

LEMMA CouponTyped ==
    \A r \in Coupon :
       /\ [r EXCEPT !.used = TRUE] \in Coupon
       /\ [r EXCEPT !.used = TRUE].used
       /\ [r EXCEPT !.used = TRUE].by = r.by
       /\ \A b \in Opt(Bookings) :
             /\ [r EXCEPT !.used = TRUE, !.by = b] \in Coupon
             /\ [r EXCEPT !.used = TRUE, !.by = b].used
             /\ [r EXCEPT !.used = TRUE, !.by = b].by = b
BY DEF Coupon

(* What MarkUsed writes.                                                   *)
LEMMA MarkUsedWrites ==
    ASSUME Typed, NEW c \in Calls, MarkUsed(c)
    PROVE  /\ coupon' \in [Coupons -> Coupon]
           /\ call[c].booking \in Bookings
           /\ \A k \in Coupons :
                 IF k \in call[c].asked
                 THEN coupon'[k].used /\ coupon'[k].by = call[c].booking
                 ELSE coupon'[k] = coupon[k]
<1>1. /\ call[c].booking \in Bookings
      /\ coupon \in [Coupons -> Coupon]
      /\ DOMAIN coupon = Coupons
  BY DEF Typed, TypeOK, CallsFit, Fits, MarkUsed, At, Confirming
<1>2. ASSUME NEW k \in Coupons
      PROVE  /\ coupon'[k] \in Coupon
             /\ IF k \in call[c].asked
                THEN coupon'[k].used /\ coupon'[k].by = call[c].booking
                ELSE coupon'[k] = coupon[k]
  <2>1. coupon'[k] = IF k \in call[c].asked
                     THEN [coupon[k] EXCEPT !.used = TRUE, !.by = call[c].booking]
                     ELSE coupon[k]
    BY <1>1 DEF MarkUsed
  <2>2. coupon[k] \in Coupon /\ call[c].booking \in Opt(Bookings)
    BY <1>1 DEF Opt
  <2>3. CASE k \in call[c].asked
    <3> DEFINE n == [coupon[k] EXCEPT !.used = TRUE, !.by = call[c].booking]
    <3>1. n \in Coupon /\ n.used /\ n.by = call[c].booking
      BY <2>2, CouponTyped
    <3>2. coupon'[k] = n
      BY <2>1, <2>3
    <3> HIDE DEF n
    <3> QED
      BY <2>3, <3>1, <3>2
  <2> QED
    BY <2>1, <2>2, <2>3
<1>3. coupon' \in [Coupons -> Coupon]
  <2> DEFINE row(k) == IF k \in call[c].asked
                       THEN [coupon[k] EXCEPT !.used = TRUE, !.by = call[c].booking]
                       ELSE coupon[k]
  <2>1. coupon' = [k \in Coupons |-> row(k)]
    BY <1>1 DEF MarkUsed
  <2>2. ASSUME NEW k \in Coupons PROVE row(k) \in Coupon
    <3>1. coupon'[k] = row(k)
      BY <2>1
    <3> QED
      BY <1>2, <3>1
  <2> HIDE DEF row
  <2> QED
    BY <2>1, <2>2
<1> QED
  BY <1>1, <1>2, <1>3

LEMMA ConfirmStepTyped ==
    ASSUME Typed, NEW c \in Calls, ConfirmStep(c), BookingsFine
    PROVE  Typed'
<1>1. Tables /\ call[c] \in Call /\ Fits(call[c])
  BY DEF Typed, TypeOK, Tables, CallsFit
<1>2. CodesStay
  BY DEF ConfirmStep, ConfirmBooking, ReadCoupons, MarkUsed, MarkFails, Commit, CodesStay
<1>3. ASSUME Tables', NEW r \in Call, Moves(c, r), Fits(r)' PROVE Typed'
  BY <1>2, <1>3, CallsKeep, TypedNext DEF Last
<1>4. ASSUME NEW b \in Bookings, Exists(b) PROVE Exists(b)'
  BY <1>4 DEF BookingsFine
<1>5. ASSUME Tables', call[c].at \in Confirming, NEW r \in Call, Moves(c, r),
             r.booking = call[c].booking, r.at \in {"mark", "commit"},
             r.at = "mark" => r.asked \subseteq Coupons
      PROVE  Typed'
  <2>1. r.booking \in Bookings /\ Exists(r.booking)'
    BY <1>1, <1>4, <1>5 DEF Fits
  <2>2. Fits(r)'
    BY <1>5, <2>1 DEF Fits, Joining, Reading
  <2> QED
    BY <1>3, <1>5, <2>2
<1>6. ASSUME NEW b \in Bookings, ConfirmBooking(c, b) PROVE Typed'
  <2>1. Tables' /\ Exists(b)'
    BY <1>1, <1>4, <1>6 DEF ConfirmBooking, Joined, Tables
  <2>2. PICK r \in Call : Moves(c, r) /\ r.at = "ids" /\ r.booking = b
    BY <1>6, ConfirmBookingMoves
  <2>3. Fits(r)'
    BY <2>1, <2>2 DEF Fits, Joining, Reading
  <2> QED
    BY <1>3, <2>1, <2>2, <2>3
<1>7. CASE ReadCoupons(c)
  <2>1. Tables' /\ call[c].at \in Confirming
    BY <1>1, <1>7 DEF ReadCoupons, Tables, past, At, Confirming
  <2>2. applied[call[c].booking] \subseteq Coupons
    BY <1>1, <2>1 DEF Fits, Tables
  <2>3. PICK r \in Call : /\ Moves(c, r) /\ r.at = "mark" /\ r.booking = call[c].booking
                          /\ r.asked = applied[call[c].booking]
    BY <1>7, ReadCouponsMoves
  <2> QED
    BY <1>5, <2>1, <2>2, <2>3
<1>8. CASE MarkUsed(c)
  <2>1. Tables' /\ call[c].at \in Confirming
    BY <1>1, <1>8, MarkUsedWrites DEF MarkUsed, Tables, past, At, Confirming
  <2>2. call' = [call EXCEPT ![c].at = "commit"] /\ "commit" \in Steps
    BY <1>8 DEF MarkUsed, Steps, Confirming
  <2>3. PICK r \in Call : Moves(c, r) /\ r.at = "commit" /\ r.booking = call[c].booking
    BY <2>2, StepMoves
  <2> QED
    BY <1>5, <2>1, <2>3
<1>9. CASE MarkFails(c)
  <2>1. Tables' /\ call[c].at \in Confirming
    BY <1>1, <1>9 DEF MarkFails, Tables, past, At, Confirming
  <2>2. PICK r \in Call : Moves(c, r) /\ r.at = "commit" /\ r.booking = call[c].booking
    BY <1>9, MarkFailsMoves
  <2> QED
    BY <1>5, <2>1, <2>2
<1>10. CASE Commit(c)
  BY <1>1, <1>2, <1>10, CallReturns, TypedNext DEF Commit, Tables, past, Last
<1> QED
  BY <1>6, <1>7, <1>8, <1>9, <1>10 DEF ConfirmStep

LEMMA SpendVipCouponWrites ==
    ASSUME Typed, NEW c \in Calls, SpendVipCoupon(c), NEW k \in Coupons
    PROVE  /\ coupon'[k].by = coupon[k].by
           /\ coupon'[k] # coupon[k] => k \in VipCoupons
<1>1. call[c].offer \in VipCoupons /\ coupon \in [Coupons -> Coupon]
  BY DEF SpendVipCoupon, Typed, TypeOK, CallsFit, Fits, At, Joining
<1>2. coupon[k] \in Coupon /\ coupon' = [coupon EXCEPT ![call[c].offer].used = TRUE]
  BY <1>1 DEF SpendVipCoupon
<1>3. CASE k = call[c].offer
  BY <1>1, <1>2, <1>3 DEF Coupon
<1>4. CASE k # call[c].offer
  BY <1>1, <1>2, <1>4
<1> QED
  BY <1>1, <1>3, <1>4

LEMMA VipStepTyped ==
    ASSUME Typed, NEW c \in Calls, VipStep(c), BookingsFine
    PROVE  Typed'
<1>1. Tables /\ call[c] \in Call /\ Fits(call[c])
  BY DEF Typed, TypeOK, Tables, CallsFit
<1>2. CodesStay
  BY DEF VipStep, ActivateVip, Subscribe, SpendVipCoupon, CodesStay
<1>3. ASSUME Tables', NEW r \in Call, Moves(c, r), r.at \in Joining, r.offer \in VipCoupons
      PROVE  Typed'
  <2>1. Fits(r)'
    BY <1>3 DEF Fits, Pricing, Confirming, Joining, Reading
  <2> QED
    BY <1>2, <1>3, <2>1, CallsKeep, TypedNext DEF Last
<1>4. ASSUME NEW k \in VipCoupons, ActivateVip(c, k) PROVE Typed'
  <2>1. Tables'
    BY <1>1, <1>4 DEF ActivateVip, Tables, past
  <2>2. PICK r \in Call : Moves(c, r) /\ r.at = "subscribe" /\ r.offer = k
    BY <1>4, ActivateVipMoves
  <2> QED
    BY <1>3, <2>1, <2>2 DEF Joining
<1>5. CASE Subscribe(c)
  <2>1. Tables' /\ call[c].offer \in VipCoupons
    BY <1>1, <1>5, CouponsAssumption DEF Subscribe, Tables, At, past, Fits, Joining
  <2>2. call' = [call EXCEPT ![c].at = "spend"] /\ "spend" \in Steps
    BY <1>5 DEF Subscribe, Steps
  <2>3. PICK r \in Call : Moves(c, r) /\ r.at = "spend" /\ r.offer = call[c].offer
    BY <2>2, StepMoves
  <2> QED
    BY <1>3, <2>1, <2>3 DEF Joining
<1>6. CASE SpendVipCoupon(c)
  <2>1. call[c].offer \in VipCoupons
    BY <1>1, <1>6 DEF SpendVipCoupon, Fits, At, Joining
  <2>2. Tables' /\ Return(c)
    BY <1>1, <1>6, <2>1, CouponTyped DEF SpendVipCoupon, Tables, past
  <2> QED
    BY <1>2, <2>2, CallReturns, TypedNext DEF Last
<1> QED
  BY <1>4, <1>5, <1>6 DEF VipStep

LEMMA CrashTyped ==
    ASSUME Typed, NEW c \in Calls, Crash(c), BookingsFine
    PROVE  Typed'
<1>1. call[c].at = "commit" => call[c].booking \in Bookings
  BY DEF Typed, CallsFit, Fits, Confirming
<1>2. Tables' /\ CodesStay /\ Return(c)
  BY <1>1 DEF Crash, Typed, TypeOK, Tables, CodesStay, At
<1> QED
  BY <1>2, CallReturns, TypedNext DEF Last

LEMMA BookingStepTyped ==
    ASSUME Typed, BookingStep, BookingsFine
    PROVE  Typed'
<1>1. UNCHANGED <<coupon, code, applied, vips, undone, raced, call>>
  BY DEF BookingStep, MakeBooking, UpdateBooking, Become, past
<1>2. overtaken' \subseteq Bookings
  BY DEF BookingStep, MakeBooking, UpdateBooking, Become, past, Typed, TypeOK
<1>3. Tables' /\ CodesStay
  BY <1>1, <1>2 DEF Typed, TypeOK, Tables, CodesStay
<1> QED
  BY <1>1, <1>3, NobodyMoves, TypedNext DEF Last

LEMMA CreateReferralCodeTyped ==
    ASSUME Typed, NEW k \in Codes, CreateReferralCode(k), BookingsFine
    PROVE  Typed'
<1>1. [count |-> 0] \in Code /\ Null \notin Code
  BY CouponsAssumption, NullIsNoCode DEF Code
<1>2. Tables' /\ CodesStay /\ UNCHANGED call
  BY <1>1 DEF CreateReferralCode, Typed, TypeOK, Tables, CodesStay, Opt, past
<1> QED
  BY <1>2, NobodyMoves, TypedNext DEF Last

LEMMA TypedInit == Init => Typed
<1> SUFFICES ASSUME Init PROVE Typed
  OBVIOUS
<1>1. TypeOK
  <2>1. booking \in [Bookings -> Booking]
    BY NoBookingTyped DEF Init
  <2> QED
    BY <2>1, NoCallTyped, CouponsAssumption DEF Init, TypeOK, Opt, Coupon
<1>2. \A c \in Calls : call[c] = NoCall
  BY DEF Init
<1>3. Placed
  BY NoBookingTyped DEF Init, Placed, Exists
<1> QED
  BY <1>1, <1>2, <1>3, NoCallTyped DEF Typed, CallsFit, Fits, Pricing, Confirming, Joining, Reading

LEMMA TypedStep == Typed /\ [Next]_vars => Typed'
<1> SUFFICES ASSUME Typed, [Next]_vars PROVE Typed'
  OBVIOUS
<1>1. BookingsFine
  BY FineStep
<1>2. CASE UNCHANGED vars
  <2>1. Tables' /\ CodesStay /\ UNCHANGED call
    BY <1>2 DEF vars, past, Typed, TypeOK, Tables, CodesStay
  <2> QED
    BY <1>1, <2>1, NobodyMoves, TypedNext DEF Last
<1>3. CASE Next
  BY <1>1, <1>3, StepKinds, ApplyStepTyped, BookStepTyped, ConfirmStepTyped, VipStepTyped,
     CrashTyped, BookingStepTyped, CreateReferralCodeTyped DEF CallStep
<1> QED
  BY <1>2, <1>3

(* Every row and every call keeps its type.                                *)
THEOREM TypeCorrect == Spec => []TypeOK
<1>1. Typed => TypeOK
  BY DEF Typed
<1> QED
  BY <1>1, TypedInit, TypedStep, PTL DEF Spec

-----------------------------------------------------------------------------
(* The life of the bookings                                                *)

Lives == [Life!Next]_(Life!life)

LEMMA SameLife == UNCHANGED booking => Lives
BY DEF Lives, Life!life

(* A row that keeps what the rest of the system sees of it.                *)
LEMMA RowSameLife ==
    ASSUME Typed, NEW b \in Bookings, NEW n \in Booking, booking' = [booking EXCEPT ![b] = n],
           n.status = booking[b].status, n.place = booking[b].place
    PROVE  Lives
<1>1. ASSUME NEW d \in Bookings
      PROVE  booking'[d].status = booking[d].status /\ booking'[d].place = booking[d].place
  BY RowWritten
<1> QED
  BY <1>1 DEF Lives, Life!life

(* A payment's webhook confirms a booking.                                 *)
LEMMA RowPaid ==
    ASSUME Typed, NEW b \in Bookings, Exists(b), NEW n \in Booking,
           booking' = [booking EXCEPT ![b] = n],
           n.status = "confirmed", n.place = booking[b].place
    PROVE  Lives
<1>1. ASSUME NEW d \in Bookings
      PROVE  /\ booking'[d].place = booking[d].place
             /\ booking'[d].status = IF d \in {b} THEN "confirmed" ELSE booking[d].status
  BY RowWritten
<1>2. Life!Become({b}, "confirmed")
  BY <1>1 DEF Life!Become, Life!Exists, Exists
<1>3. Life!Next
  BY <1>2 DEF Life!Pay, Life!Paying, Life!Next
<1> QED
  BY <1>3 DEF Lives

LEMMA LifeStep == Typed /\ [Next]_vars => Lives
<1> SUFFICES ASSUME Typed, [Next]_vars PROVE Lives
  OBVIOUS
<1>1. CASE UNCHANGED vars
  BY <1>1, SameLife DEF vars
<1>2. ASSUME NEW c \in Calls, Step(c) PROVE Lives
  <2>1. CASE Charge(c)
    BY <2>1, ChargeWrites, RowSameLife DEF Charged
  <2>2. CASE Commit(c)
    BY <2>2, CommitWrites, RowPaid DEF Ended
  <2>3. ASSUME NEW b \in Bookings, InsertBooking(c, b) PROVE Lives
    <3>1. PICK p \in Places : p = call[c].place
      BY <2>3 DEF InsertBooking, At, Typed, CallsFit, Fits
    <3>2. Life!Enter(b, p, "pending")
      BY <2>3, <3>1 DEF InsertBooking
    <3> QED
      BY <3>2 DEF Life!Next, Life!Alone, Lives
  <2>4. CASE ~Charge(c) /\ ~Commit(c) /\ ~\E b \in Bookings : InsertBooking(c, b)
    <3>1. UNCHANGED booking
      BY <1>2, <2>4 DEF Step, Apply, CheckVip, Clear, CountUse, Applied, Record, Price,
         BookWithCode, ConfirmBooking, ReadCoupons, MarkUsed, MarkFails, ActivateVip, Subscribe,
         SpendVipCoupon, Crash
    <3> QED
      BY <3>1, SameLife
  <2> QED
    BY <2>1, <2>2, <2>3, <2>4
<1>3. ASSUME NEW k \in Codes, CreateReferralCode(k) PROVE Lives
  BY <1>3, SameLife DEF CreateReferralCode
<1>4. ASSUME NEW b \in Bookings, NEW p \in Places, NEW s \in {"pending", "confirmed"},
             MakeBooking(b, p, s)
      PROVE  Lives
  BY <1>4 DEF MakeBooking, Life!Next, Life!Alone, Lives
<1>5. ASSUME NEW b \in Bookings, NEW p \in Places, UpdateBooking(b, p) PROVE Lives
  BY <1>5 DEF UpdateBooking, Life!Next, Life!Alone, Lives
<1>6. ASSUME NEW b \in Bookings, NEW s \in {"confirmed", "cancelled"}, DecideBooking(b, s)
      PROVE  Lives
  BY <1>6 DEF DecideBooking, Life!Next, Life!Alone, Lives
<1>7. ASSUME NEW B \in SUBSET Bookings, ExpireBookings(B) PROVE Lives
  BY <1>7 DEF ExpireBookings, Life!Next, Life!Alone, Lives
<1>8. ASSUME NEW b \in Bookings, CancelBooking(b) PROVE Lives
  BY <1>8 DEF CancelBooking, Life!Next, Life!Cancelling, Lives
<1> QED
  BY <1>1, <1>2, <1>3, <1>4, <1>5, <1>6, <1>7, <1>8 DEF Next

LEMMA LifeInit == Init => Life!Init
BY NoBookingTyped DEF Init, Life!Init

(* Whatever pricing and confirming do to the bookings, the rest of the     *)
(* system sees them live as module BookingLife says: a charge moves none,  *)
(* a confirmation is a payment.                                            *)
THEOREM LifeTheorem == Spec => Life!Spec
<1>1. Lives => [Life!Next]_(Life!life)
  BY DEF Lives
<1> QED
  BY <1>1, TypedInit, TypedStep, LifeInit, LifeStep, PTL DEF Spec, Life!Spec, Life!Steps

-----------------------------------------------------------------------------
(* The resort's net *)

\* A call that is pricing a booking knows what it is for.
Current(r) ==
    r.at \in Reading => r.place = booking[r.booking].place \/ r.booking \in overtaken

NetInv == ResortGetsItsNet /\ \A c \in Calls : Current(call[c])

NetOf(b) ==
    LET r == booking[b] IN
    IF r.quote = Null THEN r.commission = 0
    ELSE /\ r.total = r.commission + Net[r.quote]
         /\ r.commission \in 0 .. Fee[r.quote]
         /\ r.quote = r.place \/ b \in overtaken

LEMMA NetInit == Init => NetInv
<1> SUFFICES ASSUME Init PROVE NetInv
  OBVIOUS
<1>1. ResortGetsItsNet
  BY NoBookingTyped DEF Init, ResortGetsItsNet
<1>2. \A c \in Calls : Current(call[c])
  BY NoCallTyped DEF Init, Current, Reading
<1> QED
  BY <1>1, <1>2 DEF NetInv

LEMMA NewPrice ==
    ASSUME NEW n \in Booking, n.place \in Places, AtFullPrice(n)
    PROVE  /\ n.quote = n.place /\ n.quote # Null
           /\ n.total = n.commission + Net[n.quote] /\ n.commission \in 0 .. Fee[n.quote]
BY CouponsAssumption DEF AtFullPrice

(* The changes of a booking under way are remembered.                      *)
LEMMA UpdateNet ==
    ASSUME Typed, NetInv, NEW b \in Bookings, NEW p \in Places, UpdateBooking(b, p)
    PROVE  NetInv'
<1>1. /\ booking[b] \in Booking /\ booking' = [booking EXCEPT ![b] = Quoted(booking[b], p)]
      /\ overtaken' = IF Busy(b) THEN overtaken \cup {b} ELSE overtaken \ {b}
      /\ UNCHANGED call
  BY DEF UpdateBooking, Typed, TypeOK
<1>2. PICK n \in Booking : n = Quoted(booking[b], p) /\ AtFullPrice(n) /\ n.place = p
  BY <1>1, QuotedWrites
<1>3. booking'[b] = n /\ \A d \in Bookings \ {b} : booking'[d] = booking[d]
  BY <1>1, <1>2, RowWritten
<1>4. ASSUME NEW d \in Bookings PROVE NetOf(d)'
  <2>1. CASE d = b
    BY <1>2, <1>3, <2>1, NewPrice DEF NetOf
  <2>2. CASE d # b
    <3>1. NetOf(d)
      BY DEF NetInv, ResortGetsItsNet, NetOf
    <3> QED
      BY <1>1, <1>3, <2>2, <3>1 DEF NetOf
  <2> QED
    BY <2>1, <2>2
<1>5. ASSUME NEW c \in Calls PROVE Current(call[c])'
  <2>1. Current(call[c]) /\ (call[c].at \in Reading => call[c].booking \in Bookings)
    BY DEF NetInv, Typed, CallsFit, Fits, Pricing, Reading
  <2>2. CASE call[c].booking = b
    BY <1>1, <2>2 DEF Current, Busy
  <2>3. CASE call[c].booking # b
    BY <1>1, <1>3, <2>1, <2>3 DEF Current
  <2> QED
    BY <2>2, <2>3
<1> QED
  BY <1>4, <1>5 DEF NetInv, ResortGetsItsNet, NetOf

LEMMA OthersStay ==
    ASSUME Typed, NEW c \in Calls, CallStep(c), NEW d \in Calls \ {c}
    PROVE  call'[d] = call[d]
<1>1. call \in [Calls -> Call]
  BY DEF Typed, TypeOK
<1>2. CASE ApplyStep(c)
  BY <1>1, <1>2 DEF ApplyStep, Apply, CheckVip, Clear, Charge, CountUse, Applied, Record, Price, Return
<1>3. CASE ConfirmStep(c)
  BY <1>1, <1>3 DEF ConfirmStep, ConfirmBooking, ReadCoupons, MarkUsed, MarkFails, Commit, Return
<1>4. CASE VipStep(c)
  BY <1>1, <1>4 DEF VipStep, ActivateVip, Subscribe, SpendVipCoupon, Return
<1>5. CASE BookStep(c)
  BY <1>1, <1>5 DEF BookStep, BookWithCode, InsertBooking, Return
<1>6. CASE Crash(c)
  BY <1>1, <1>6 DEF Crash, Return
<1> QED
  BY <1>2, <1>3, <1>4, <1>5, <1>6 DEF CallStep

NobodyCalls == BookingStep \/ \E k \in Codes : CreateReferralCode(k)

LEMMA NobodyCallsStays ==
    NobodyCalls => UNCHANGED <<call, coupon, applied, vips, undone, raced>>
BY DEF NobodyCalls, BookingStep, MakeBooking, UpdateBooking, Become, CreateReferralCode, past

LEMMA Kinds == Next => NobodyCalls \/ \E c \in Calls : CallStep(c)
BY StepKinds DEF NobodyCalls

(* A call reads what its booking is for when it begins to price it.        *)
LEMMA ReadingCalls ==
    ASSUME Typed, Next, NEW c \in Calls, call'[c].at \in Reading
    PROVE  \/ /\ call[c].at \in Reading
              /\ call'[c].booking = call[c].booking /\ call'[c].place = call[c].place
           \/ /\ UNCHANGED booking
              /\ call'[c].place = booking[call'[c].booking].place
<1>1. CASE NobodyCalls
  BY <1>1, NobodyCallsStays
<1>2. ASSUME NEW d \in Calls \ {c}, CallStep(d) PROVE call'[c] = call[c]
  BY <1>2, OthersStay
<1>3. ASSUME NEW r \in Call, Moves(c, r) PROVE call'[c] = r
  BY <1>3, Moved DEF Typed
<1>4. ASSUME Return(c) PROVE call'[c].at \notin Reading
  <2>1. NoCall \in Call /\ NoCall.at = "idle"
    BY NoCallTyped
  <2> QED
    BY <1>3, <1>4, <2>1 DEF Return, Moves, Reading
<1>5. ASSUME NEW b \in Bookings, NEW asked \in SUBSET Offers, Apply(c, b, asked)
      PROVE  /\ UNCHANGED booking
             /\ call'[c].place = booking[call'[c].booking].place
  <2>1. PICK r \in Call : Moves(c, r) /\ r.booking = b /\ r.place = booking[b].place
    BY <1>5, ApplyMoves
  <2>2. call'[c] = r /\ UNCHANGED booking
    BY <1>3, <1>5, <2>1 DEF Apply
  <2> QED
    BY <2>1, <2>2
<1>6. ASSUME CheckVip(c)
      PROVE  call'[c].booking = call[c].booking /\ call'[c].place = call[c].place
  BY <1>3, <1>6, CheckVipMoves
<1>7. ASSUME NEW k \in Offers, NEW fresh \in BOOLEAN, NEW n \in 1 .. MaxNamed,
             Price(c, k, fresh, n)
      PROVE  call'[c].booking = call[c].booking /\ call'[c].place = call[c].place
  BY <1>3, <1>4, <1>7, PriceMoves DEF Return, Moves
<1>8. ASSUME NEW s \in Steps, call' = [call EXCEPT ![c].at = s]
      PROVE  /\ call'[c].at = s
             /\ call'[c].booking = call[c].booking /\ call'[c].place = call[c].place
  <2>1. call' = [call EXCEPT ![c].at = s]
    BY <1>8
  <2>2. PICK r \in Call : /\ Moves(c, r) /\ r.at = s /\ r.booking = call[c].booking
                          /\ r.place = call[c].place
    BY <2>1, StepMoves
  <2> QED
    BY <1>3, <2>2
<1>9. CASE ApplyStep(c)
  <2>1. CheckVip(c) => call[c].at \in Reading
    BY DEF CheckVip, At, Reading
  <2>2. ASSUME NEW k \in Offers, NEW fresh \in BOOLEAN, NEW n \in 1 .. MaxNamed,
               Price(c, k, fresh, n)
        PROVE  call[c].at \in Reading
    BY <2>2 DEF Price, At, Reading
  <2>3. ASSUME Clear(c)
        PROVE  /\ call[c].at \in Reading
               /\ call'[c].booking = call[c].booking /\ call'[c].place = call[c].place
    <3>1. call' = [call EXCEPT ![c].at = "charge"] /\ "charge" \in Steps /\ call[c].at = "price"
      BY <2>3 DEF Clear, Steps, At
    <3> QED
      BY <1>8, <3>1 DEF Reading
  <2>4. ~Charge(c)
    BY <1>3, ChargeMoves DEF Reading
  <2>5. ~CountUse(c)
    BY <1>3, CountUseMoves DEF Reading
  <2>6. ~Applied(c)
    BY <1>4 DEF Applied
  <2>7. ASSUME NEW k \in Offers, Record(c, k) PROVE FALSE
    BY <1>3, <2>7, RecordMoves DEF Reading
  <2> QED
    BY <1>5, <1>6, <1>7, <1>9, <2>1, <2>2, <2>3, <2>4, <2>5, <2>6, <2>7 DEF ApplyStep
<1>10. CASE BookStep(c)
  <2>1. ASSUME NEW p \in Places, NEW k \in Codes, BookWithCode(c, p, k) PROVE FALSE
    BY <1>3, <2>1, BookWithCodeMoves DEF Reading
  <2> QED
    BY <1>4, <1>10, <2>1 DEF BookStep, InsertBooking
<1>11. CASE ConfirmStep(c)
  <2>1. ASSUME NEW b \in Bookings, ConfirmBooking(c, b) PROVE FALSE
    BY <1>3, <2>1, ConfirmBookingMoves DEF Reading
  <2>2. ~ReadCoupons(c)
    BY <1>3, ReadCouponsMoves DEF Reading
  <2>3. ~MarkFails(c)
    BY <1>3, MarkFailsMoves DEF Reading
  <2>4. ~MarkUsed(c)
    <3>1. "commit" \in Steps /\ "commit" \notin Reading
      BY DEF Steps, Confirming, Reading
    <3> QED
      BY <1>8, <3>1 DEF MarkUsed
  <2> QED
    BY <1>4, <1>11, <2>1, <2>2, <2>3, <2>4 DEF ConfirmStep, Commit
<1>12. CASE VipStep(c)
  <2>1. ASSUME NEW k \in VipCoupons, ActivateVip(c, k) PROVE FALSE
    BY <1>3, <2>1, ActivateVipMoves DEF Reading
  <2>2. ~Subscribe(c)
    <3>1. "spend" \in Steps /\ "spend" \notin Reading
      BY DEF Steps, Reading
    <3> QED
      BY <1>8, <3>1 DEF Subscribe
  <2> QED
    BY <1>4, <1>12, <2>1, <2>2 DEF VipStep, SpendVipCoupon
<1>13. CASE Crash(c)
  BY <1>4, <1>13 DEF Crash
<1> QED
  BY <1>1, <1>2, <1>9, <1>10, <1>11, <1>12, <1>13, Kinds DEF CallStep

LEMMA OvertakenStays ==
    ASSUME Next, \A b \in Bookings : \A p \in Places : ~UpdateBooking(b, p)
    PROVE  UNCHANGED overtaken
<1>1. BookingStep => UNCHANGED overtaken
  BY DEF BookingStep, MakeBooking, Become, past
<1>2. ASSUME NEW k \in Codes, CreateReferralCode(k) PROVE UNCHANGED overtaken
  BY <1>2 DEF CreateReferralCode, past
<1>3. ASSUME NEW c \in Calls PROVE ApplyStep(c) => UNCHANGED overtaken
  BY DEF ApplyStep, Apply, CheckVip, Clear, CountUse, Applied, Record, Price, Charge, past
<1>4. ASSUME NEW c \in Calls PROVE BookStep(c) \/ ConfirmStep(c) => UNCHANGED overtaken
  BY DEF BookStep, BookWithCode, InsertBooking, past,
     ConfirmStep, ConfirmBooking, ReadCoupons, MarkUsed, MarkFails, Commit
<1>5. ASSUME NEW c \in Calls PROVE VipStep(c) \/ Crash(c) => UNCHANGED overtaken
  BY DEF VipStep, ActivateVip, Subscribe, SpendVipCoupon, past, Crash
<1> QED
  BY <1>1, <1>2, <1>3, <1>4, <1>5, StepKinds DEF CallStep

LEMMA OtherNet ==
    ASSUME Typed, NetInv, Next, \A b \in Bookings : \A p \in Places : ~UpdateBooking(b, p)
    PROVE  NetInv'
<1>1. UNCHANGED overtaken /\ booking' \in [Bookings -> Booking]
  BY OvertakenStays, BookingWrites DEF BookingsWritten
<1>2. \A b \in Bookings : NetOf(b)
  BY DEF NetInv, ResortGetsItsNet, NetOf
<1>3. \A c \in Calls : Current(call[c])
  BY DEF NetInv
<1>4. ASSUME NEW b \in Bookings
      PROVE  Written(b) /\ booking[b] \in Booking /\ booking'[b] \in Booking
  BY BookingWrites DEF BookingsWritten, Typed, TypeOK
<1>5. ASSUME NEW b \in Bookings, Exists(b) PROVE booking'[b].place = booking[b].place
  BY <1>4, <1>5 DEF Written, Charged, Ended
<1>6. ASSUME NEW b \in Bookings PROVE NetOf(b)'
  <2>1. ASSUME NEW c \in Calls, Charge(c), call[c].booking = b,
               Charged(booking[b], call[c], booking'[b])
        PROVE  NetOf(b)'
    <3>1. call[c].place = booking[b].place \/ b \in overtaken
      BY <1>3, <2>1 DEF Current, Charge, At, Reading
    <3>2. call[c].place \in Places /\ call[c].place # Null
      BY <2>1, ChargeWrites, CouponsAssumption
    <3> QED
      BY <1>1, <2>1, <3>1, <3>2 DEF Charged, NetOf
  <2>2. ASSUME Entered(booking'[b]) PROVE NetOf(b)'
    BY <1>4, <2>2, NewPrice DEF Entered, NetOf
  <2>3. ASSUME Ended(booking[b], booking'[b]) \/ booking'[b] = booking[b] PROVE NetOf(b)'
    BY <1>1, <1>2, <2>3 DEF Ended, NetOf
  <2> QED
    BY <1>4, <2>1, <2>2, <2>3 DEF Written
<1>7. ASSUME NEW c \in Calls PROVE Current(call[c])'
  <2>1. CASE call'[c].at \notin Reading
    BY <2>1 DEF Current
  <2>2. CASE call'[c].at \in Reading /\ UNCHANGED booking
                /\ call'[c].place = booking[call'[c].booking].place
    BY <2>2 DEF Current
  <2>3. CASE /\ call'[c].at \in Reading /\ call[c].at \in Reading
             /\ call'[c].booking = call[c].booking /\ call'[c].place = call[c].place
    <3>1. call[c].booking \in Bookings /\ Exists(call[c].booking)
      BY <2>3 DEF Typed, CallsFit, Fits, Pricing, Reading
    <3>2. booking'[call[c].booking].place = booking[call[c].booking].place
      BY <1>5, <3>1
    <3> QED
      BY <1>1, <1>3, <2>3, <3>2 DEF Current
  <2> QED
    BY <2>1, <2>2, <2>3, ReadingCalls
<1> QED
  BY <1>6, <1>7 DEF NetInv, ResortGetsItsNet, NetOf

LEMMA NetStep == Typed /\ NetInv /\ [Next]_vars => NetInv'
<1> SUFFICES ASSUME Typed, NetInv, [Next]_vars PROVE NetInv'
  OBVIOUS
<1>1. CASE UNCHANGED vars
  BY <1>1 DEF vars, past, NetInv, ResortGetsItsNet, Current
<1> QED
  BY <1>1, UpdateNet, OtherNet

(* However many discounts, by however many calls: the resort's net, and    *)
(* that of what the booking is for, unless it was changed under way.       *)
THEOREM NetTheorem == Spec => []ResortGetsItsNet
<1>1. NetInv => ResortGetsItsNet
  BY DEF NetInv
<1> QED
  BY <1>1, TypedInit, TypedStep, NetInit, NetStep, PTL DEF Spec

-----------------------------------------------------------------------------
(* Used coupons and confirmed bookings                                     *)

(* A coupon is written by the confirmation that marks it, or by the        *)
(* membership that it makes, which names no booking.                       *)
LEMMA CouponWrites ==
    ASSUME Typed, Next, NEW k \in Coupons
    PROVE  \/ coupon'[k] = coupon[k]
           \/ k \in VipCoupons /\ coupon'[k].by = coupon[k].by
           \/ \E c \in Calls : /\ MarkUsed(c) /\ k \in call[c].asked
                               /\ call[c].booking \in Bookings
                               /\ coupon'[k].used /\ coupon'[k].by = call[c].booking
<1>1. ASSUME NEW c \in Calls, MarkUsed(c), coupon'[k] # coupon[k]
      PROVE  /\ k \in call[c].asked /\ call[c].booking \in Bookings
             /\ coupon'[k].used /\ coupon'[k].by = call[c].booking
  BY <1>1, MarkUsedWrites
<1>2. ASSUME NEW c \in Calls, SpendVipCoupon(c), coupon'[k] # coupon[k]
      PROVE  k \in VipCoupons /\ coupon'[k].by = coupon[k].by
  BY <1>2, SpendVipCouponWrites
<1>3. \/ \E c \in Calls : MarkUsed(c) \/ SpendVipCoupon(c)
      \/ UNCHANGED coupon
  <2>1. ASSUME NEW c \in Calls PROVE ApplyStep(c) => UNCHANGED coupon
    BY DEF ApplyStep, Apply, CheckVip, Clear, CountUse, Applied, Record, Unspent, Price, Charge
  <2>2. ASSUME NEW c \in Calls PROVE ConfirmStep(c) => MarkUsed(c) \/ UNCHANGED coupon
    BY DEF ConfirmStep, ConfirmBooking, ReadCoupons, MarkFails, Commit
  <2>3. ASSUME NEW c \in Calls PROVE VipStep(c) => SpendVipCoupon(c) \/ UNCHANGED coupon
    BY DEF VipStep, ActivateVip, Subscribe
  <2>4. ASSUME NEW c \in Calls PROVE BookStep(c) \/ Crash(c) => UNCHANGED coupon
    BY DEF BookStep, BookWithCode, InsertBooking, Crash
  <2> QED
    BY <2>1, <2>2, <2>3, <2>4, Kinds, NobodyCallsStays DEF CallStep
<1> QED
  BY <1>1, <1>2, <1>3

(* A confirmation that has marked its coupons ends committed or undone.    *)
LEMMA CommitEnds ==
    ASSUME Typed, Next, NEW c \in Calls, call[c].at = "commit"
    PROVE  \/ call'[c] = call[c]
           \/ Commit(c) /\ booking'[call[c].booking].paid
           \/ call[c].booking \in undone'
<1>1. ASSUME NEW d \in Calls, CallStep(d) PROVE Commit(c) \/ Crash(c) \/ call'[c] = call[c]
  <2>1. CASE d # c
    BY <1>1, <2>1, OthersStay
  <2>2. CASE d = c
    <3>1. ~ApplyStep(c) /\ ~VipStep(c) /\ ~BookStep(c)
      BY DEF ApplyStep, Apply, CheckVip, Clear, CountUse, Applied, Record, Price, Charge,
         VipStep, ActivateVip, Subscribe, SpendVipCoupon, BookStep, BookWithCode, InsertBooking,
         Idle, At
    <3>2. ConfirmStep(c) => Commit(c)
      BY DEF ConfirmStep, ConfirmBooking, ReadCoupons, MarkUsed, MarkFails, Idle, At
    <3> QED
      BY <1>1, <2>2, <3>1, <3>2 DEF CallStep
  <2> QED
    BY <2>1, <2>2
<1>2. ASSUME Commit(c) PROVE booking'[call[c].booking].paid
  BY <1>2, CommitWrites, RowWritten
<1>3. ASSUME Crash(c) PROVE call[c].booking \in undone'
  BY <1>3 DEF Crash, At
<1> QED
  BY <1>1, <1>2, <1>3, Kinds, NobodyCallsStays

LEMMA HistoryGrows ==
    ASSUME Next PROVE undone \subseteq undone' /\ raced \subseteq raced'
<1>1. ASSUME NEW c \in Calls, ApplyStep(c) PROVE undone \subseteq undone' /\ raced \subseteq raced'
  BY <1>1 DEF ApplyStep, Apply, CheckVip, Clear, CountUse, Applied, Record, Price, Charge, Joined,
     past
<1>2. ASSUME NEW c \in Calls, ConfirmStep(c) PROVE undone \subseteq undone' /\ raced \subseteq raced'
  BY <1>2 DEF ConfirmStep, ConfirmBooking, ReadCoupons, MarkUsed, MarkFails, Commit, Joined, past
<1>3. ASSUME NEW c \in Calls, VipStep(c) \/ BookStep(c)
      PROVE  undone \subseteq undone' /\ raced \subseteq raced'
  BY <1>3 DEF VipStep, ActivateVip, Subscribe, SpendVipCoupon, BookStep, BookWithCode,
     InsertBooking, past
<1>4. ASSUME NEW c \in Calls, Crash(c) PROVE undone \subseteq undone' /\ raced \subseteq raced'
  BY <1>4 DEF Crash
<1> QED
  BY <1>1, <1>2, <1>3, <1>4, Kinds, NobodyCallsStays DEF CallStep

\* What has used up a coupon, other than a membership, is a booking ...
UsedHasBooking ==
    \A k \in Coupons :
       /\ coupon[k].by # Null => coupon[k].by \in Bookings
       /\ coupon[k].used => coupon[k].by # Null \/ k \in VipCoupons

\* ... that a payment has confirmed, or was about to.
NamedWasConfirmed ==
    \A k \in Coupons :
       coupon[k].by # Null =>
          \/ booking[coupon[k].by].paid
          \/ coupon[k].by \in undone
          \/ \E c \in Calls : At(c, "commit") /\ call[c].booking = coupon[k].by

UsedInv == UsedHasBooking /\ NamedWasConfirmed

LEMMA UsedInit == Init => UsedInv
<1> SUFFICES ASSUME Init, NEW k \in Coupons PROVE ~coupon[k].used /\ coupon[k].by = Null
  BY DEF UsedInv, UsedHasBooking, NamedWasConfirmed
<1> QED
  BY DEF Init

LEMMA UsedStep == Typed /\ UsedInv /\ [Next]_vars => UsedInv'
<1> SUFFICES ASSUME Typed, UsedInv, [Next]_vars PROVE UsedInv'
  OBVIOUS
<1>0. ASSUME NEW k \in Coupons
      PROVE  coupon'[k].used => coupon'[k].by # Null \/ k \in VipCoupons
  <2>1. CASE coupon'[k] = coupon[k]
    BY <2>1 DEF UsedInv, UsedHasBooking
  <2>2. CASE coupon'[k] # coupon[k]
    BY <2>2, CouponWrites, CouponsAssumption DEF vars
  <2> QED
    BY <2>1, <2>2
<1> SUFFICES ASSUME NEW k \in Coupons, coupon'[k].by # Null
             PROVE  /\ coupon'[k].by \in Bookings
                    /\ \/ booking'[coupon'[k].by].paid
                       \/ coupon'[k].by \in undone'
                       \/ \E c \in Calls :
                             call'[c].at = "commit" /\ call'[c].booking = coupon'[k].by
  BY <1>0 DEF UsedInv, UsedHasBooking, NamedWasConfirmed, At
<1>1. CASE UNCHANGED vars
  BY <1>1 DEF vars, past, UsedInv, UsedHasBooking, NamedWasConfirmed, At
<1>2. CASE Next /\ coupon'[k].by = coupon[k].by
  <2>1. PICK b \in Bookings : b = coupon[k].by
    BY <1>2 DEF UsedInv, UsedHasBooking
  <2>2. \/ booking[b].paid
        \/ b \in undone
        \/ \E c \in Calls : call[c].at = "commit" /\ call[c].booking = b
    BY <1>2, <2>1 DEF UsedInv, NamedWasConfirmed, At
  <2>3. booking[b].paid => booking'[b].paid
    <3>1. Written(b)
      BY <1>2, BookingWrites DEF BookingsWritten
    <3>2. ~Exists(b) => ~booking[b].paid
      BY NoBookingTyped DEF Typed, Placed
    <3> QED
      BY <3>1, <3>2 DEF Written, Charged, Changed, Ended
  <2>4. b \in undone => b \in undone'
    BY <1>2, HistoryGrows
  <2>5. ASSUME NEW c \in Calls, call[c].at = "commit", call[c].booking = b
        PROVE  \/ booking'[b].paid
               \/ b \in undone'
               \/ call'[c].at = "commit" /\ call'[c].booking = b
    BY <1>2, <2>5, CommitEnds
  <2> QED
    BY <1>2, <2>1, <2>2, <2>3, <2>4, <2>5
<1>3. CASE Next /\ coupon'[k].by # coupon[k].by
  <2>1. PICK c \in Calls : /\ MarkUsed(c) /\ call[c].booking \in Bookings
                           /\ coupon'[k].by = call[c].booking
    BY <1>3, CouponWrites
  <2>2. call' = [call EXCEPT ![c].at = "commit"] /\ "commit" \in Steps
    BY <2>1 DEF MarkUsed, Steps, Confirming
  <2>3. PICK r \in Call : Moves(c, r) /\ r.at = "commit" /\ r.booking = call[c].booking
    BY <2>2, StepMoves
  <2>4. call'[c] = r
    BY <2>3, Moved DEF Typed
  <2> QED
    BY <2>1, <2>3, <2>4
<1> QED
  BY <1>1, <1>2, <1>3

(* A coupon is used up by a booking that a payment has confirmed, or whose *)
(* confirmation was rolled back after the mark.                            *)
THEOREM UsedTheorem == Spec => []UsedWasConfirmed
<1>1. UsedInv => UsedWasConfirmed
  BY DEF UsedInv, UsedHasBooking, NamedWasConfirmed, UsedWasConfirmed
<1> QED
  BY <1>1, TypedInit, TypedStep, UsedInit, UsedStep, PTL DEF Spec

-----------------------------------------------------------------------------
(* The limit of a code                                                     *)

\* The call has found the code valid, and has not counted its use yet.
Owes(r, k) ==
    \/ r.at = "price" /\ k \in r.asked /\ k \in r.priced
    \/ r.at \in {"charge", "record", "count"} /\ k \in r.asked
    \/ r.at \in {"count", "book"} /\ r.offer = k

Owing(k) == {c \in Calls : Owes(call[c], k)}

\* What has been counted and what is still to be.
LimitInv ==
    \A k \in Codes :
       code[k] # Null => code[k].count + Cardinality(Owing(k)) < Limit[k] + Cardinality(Calls)

LEMMA OwingFinite ==
    ASSUME NEW S \in SUBSET Calls
    PROVE  /\ IsFiniteSet(S) /\ Cardinality(S) \in Nat
           /\ Cardinality(Calls) \in Nat /\ Cardinality(S) <= Cardinality(Calls)
BY CouponsAssumption, FS_Subset, FS_CardinalityType

LEMMA LimitImplied == Typed /\ LimitInv => LimitUpToCalls
<1> SUFFICES ASSUME Typed, LimitInv, NEW k \in Codes, code[k] # Null
             PROVE  code[k].count < Limit[k] + Cardinality(Calls)
  BY DEF LimitUpToCalls
<1>1. code[k] \in Code /\ code[k].count \in Nat /\ Limit[k] \in Nat
  BY CouponsAssumption DEF Typed, TypeOK, Opt, Code
<1>2. Cardinality(Owing(k)) \in Nat /\ Cardinality(Calls) \in Nat
  BY OwingFinite DEF Owing
<1>3. code[k].count + Cardinality(Owing(k)) < Limit[k] + Cardinality(Calls)
  BY DEF LimitInv
<1> QED
  BY <1>1, <1>2, <1>3

(* What each kind of step makes of the calls that owe a use of a code.     *)
LEMMA OwingStep ==
    ASSUME Typed, NEW k \in Codes, NEW c \in Calls, NEW r \in Call, Moves(c, r)
    PROVE  /\ (Owes(r, k) => Owes(call[c], k)) => Owing(k)' \subseteq Owing(k)
           /\ ~Owes(r, k) => Owing(k)' \subseteq Owing(k) \ {c}
<1>1. call'[c] = r /\ \A d \in Calls \ {c} : call'[d] = call[d]
  BY Moved DEF Typed
<1>2. ASSUME NEW d \in Calls PROVE Owes(call[d], k)' <=> Owes(call'[d], k)
  BY DEF Owes
<1>3. Owing(k)' = {d \in Calls : Owes(call'[d], k)}
  BY <1>2 DEF Owing
<1> QED
  BY <1>1, <1>3 DEF Owing

\* A use that was owed is counted.
Counts(c) == CountUse(c) \/ \E b \in Bookings : InsertBooking(c, b)

(* The step of a call, as far as one code is concerned.                    *)
CodeSteps(k) ==
    \/ UNCHANGED code /\ Owing(k)' \subseteq Owing(k)
    \/ UNCHANGED code /\ code[k] # Null /\ BelowLimit(k)
    \/ \E c \in Calls : /\ Counts(c) /\ call[c].offer = k
                        /\ code'[k].count = code[k].count + 1
                        /\ Owing(k)' \subseteq Owing(k) \ {c}
    \/ \E c \in Calls : /\ Counts(c) /\ call[c].offer # k
                        /\ code'[k] = code[k] /\ Owing(k)' \subseteq Owing(k)

LEMMA ReturnOwes ==
    ASSUME Typed, NEW k \in Codes, NEW c \in Calls, Return(c)
    PROVE  Owing(k)' \subseteq Owing(k) \ {c}
<1>1. NoCall \in Call /\ ~Owes(NoCall, k)
  BY NoCallTyped DEF Owes
<1>2. Moves(c, NoCall)
  BY DEF Return, Moves
<1> QED
  BY <1>1, <1>2, OwingStep

(* Who counts a use of a code owed it.                                     *)
LEMMA CountsWrites ==
    ASSUME Typed, NEW c \in Calls, Counts(c)
    PROVE  LET k == call[c].offer IN
           /\ k \in Codes /\ code[k] # Null /\ c \in Owing(k)
           /\ call[c].at = "count" => k \notin call[c].asked
           /\ code'[k].count = code[k].count + 1
           /\ \A j \in Codes \ {k} : code'[j] = code[j]
<1> DEFINE k == call[c].offer
<1>1. call[c].at \in {"count", "book"}
  BY DEF Counts, CountUse, InsertBooking, At
<1>2. /\ k \in Codes /\ code[k] # Null /\ (call[c].at = "count" => k \notin call[c].asked)
  BY <1>1 DEF Typed, CallsFit, Fits
<1>3. c \in Owing(k)
  BY <1>1 DEF Owing, Owes
<1>4. code[k].count < MaxUses /\ code' = [code EXCEPT ![k].count = @ + 1]
  BY DEF Counts, CountUse, InsertBooking
<1> QED
  BY <1>2, <1>3, <1>4, Counted

LEMMA ApplyStepCodes ==
    ASSUME Typed, NEW k \in Codes, NEW c \in Calls, ApplyStep(c)
    PROVE  CodeSteps(k)
<1>1. call[c] \in Call /\ Fits(call[c])
  BY DEF Typed, TypeOK, CallsFit
<1>2. ASSUME UNCHANGED code, NEW r \in Call, Moves(c, r), Owes(r, k) => Owes(call[c], k)
      PROVE  CodeSteps(k)
  BY <1>2, OwingStep DEF CodeSteps
<1>3. ASSUME NEW b \in Bookings, NEW asked \in SUBSET Offers, Apply(c, b, asked)
      PROVE  CodeSteps(k)
  <2>1. PICK r \in Call : Moves(c, r) /\ r.at = "vip"
    BY <1>3, ApplyMoves
  <2>2. UNCHANGED code
    BY <1>3 DEF Apply
  <2> QED
    BY <1>2, <2>1, <2>2 DEF Owes
<1>4. CASE CheckVip(c)
  <2>1. PICK r \in Call : Moves(c, r) /\ r.at = "price" /\ r.priced \subseteq {Vip}
    BY <1>4, CheckVipMoves
  <2>2. UNCHANGED code /\ k \notin r.priced
    BY <1>4, <2>1, CouponsAssumption DEF CheckVip, Offers
  <2>3. ~Owes(r, k)
    BY <2>1, <2>2 DEF Owes
  <2> QED
    BY <1>2, <2>1, <2>2, <2>3
<1>5. ASSUME NEW j \in Offers, NEW fresh \in BOOLEAN, NEW n \in 1 .. MaxNamed,
             Price(c, j, fresh, n)
      PROVE  CodeSteps(k)
  <2>1. UNCHANGED code /\ call[c].at = "price"
    BY <1>5 DEF Price, At
  <2>2. CASE Moves(c, NoCall)
    BY <2>1, <2>2, ReturnOwes DEF CodeSteps, Moves, Return
  <2>3. ASSUME j \in Codes => Usable(j), NEW r \in Call, Moves(c, r), r.at = "price",
               r.asked = call[c].asked, r.priced = call[c].priced \cup {j}
        PROVE  CodeSteps(k)
    <3>1. CASE j = k
      BY <2>1, <2>3, <3>1 DEF CodeSteps, Usable
    <3>2. CASE j # k
      <4>1. Owes(r, k) => Owes(call[c], k)
        BY <2>1, <2>3, <3>2 DEF Owes
      <4> QED
        BY <1>2, <2>1, <2>3, <4>1
    <3> QED
      BY <3>1, <3>2
  <2> QED
    BY <1>5, <2>2, <2>3, PriceMoves
<1>6. CASE Clear(c)
  <2>1. call' = [call EXCEPT ![c].at = "charge"] /\ "charge" \in Steps
    BY <1>6 DEF Clear, Steps
  <2>2. PICK r \in Call : Moves(c, r) /\ r.at = "charge" /\ r.asked = call[c].asked
    BY <2>1, StepMoves
  <2>3. UNCHANGED code /\ (Owes(r, k) => Owes(call[c], k))
    BY <1>6, <2>2 DEF Clear, At, Owes
  <2> QED
    BY <1>2, <2>2, <2>3
<1>7. CASE Charge(c)
  <2>1. PICK r \in Call : Moves(c, r) /\ r.at = "record" /\ r.asked = call[c].asked
    BY <1>7, ChargeMoves
  <2>2. UNCHANGED code /\ (Owes(r, k) => Owes(call[c], k))
    BY <1>7, <2>1 DEF Charge, At, Owes
  <2> QED
    BY <1>2, <2>1, <2>2
<1>8. ASSUME NEW j \in Offers, Record(c, j) PROVE CodeSteps(k)
  <2>1. PICK r \in Call : /\ Moves(c, r) /\ r.asked = call[c].asked \ {j}
                          /\ r.at = IF j \in Codes THEN "count" ELSE "record"
                          /\ j \in Codes => r.offer = j
    BY <1>8, RecordMoves
  <2>2. UNCHANGED code /\ call[c].at = "record" /\ j \in call[c].asked
    BY <1>8 DEF Record, At
  <2>3. Owes(r, k) => Owes(call[c], k)
    BY <2>1, <2>2 DEF Owes
  <2> QED
    BY <1>2, <2>1, <2>2, <2>3
<1>9. CASE CountUse(c)
  <2>1. PICK r \in Call : Moves(c, r) /\ r.at = "record" /\ r.asked = call[c].asked
    BY <1>9, CountUseMoves
  <2>2. Counts(c) /\ call[c].at = "count"
    BY <1>9 DEF Counts, CountUse, At
  <2>3. Owes(r, k) => k # call[c].offer /\ Owes(call[c], k)
    BY <2>1, <2>2, CountsWrites DEF Owes
  <2>4. Owing(k)' \subseteq Owing(k) /\ (k = call[c].offer => Owing(k)' \subseteq Owing(k) \ {c})
    BY <2>1, <2>3, OwingStep
  <2> QED
    BY <2>2, <2>4, CountsWrites DEF CodeSteps
<1>10. CASE Applied(c)
  BY <1>10, ReturnOwes DEF Applied, CodeSteps
<1> QED
  BY <1>3, <1>4, <1>5, <1>6, <1>7, <1>8, <1>9, <1>10 DEF ApplyStep

LEMMA BookStepCodes ==
    ASSUME Typed, NEW k \in Codes, NEW c \in Calls, BookStep(c)
    PROVE  CodeSteps(k)
<1>1. ASSUME NEW p \in Places, NEW j \in Codes, BookWithCode(c, p, j) PROVE CodeSteps(k)
  <2>1. PICK r \in Call : Moves(c, r) /\ r.at = "book" /\ r.offer = j
    BY <1>1, BookWithCodeMoves
  <2>2. UNCHANGED code /\ code[j] # Null /\ BelowLimit(j)
    BY <1>1 DEF BookWithCode, Usable
  <2>3. CASE j = k
    BY <2>2, <2>3 DEF CodeSteps
  <2>4. CASE j # k
    <3>1. ~Owes(r, k)
      BY <2>1, <2>4 DEF Owes
    <3> QED
      BY <2>1, <2>2, <3>1, OwingStep DEF CodeSteps
  <2> QED
    BY <2>3, <2>4
<1>2. ASSUME NEW b \in Bookings, InsertBooking(c, b) PROVE CodeSteps(k)
  <2>1. Counts(c) /\ Return(c)
    BY <1>2 DEF Counts, InsertBooking
  <2> QED
    BY <2>1, CountsWrites, ReturnOwes DEF CodeSteps
<1> QED
  BY <1>1, <1>2 DEF BookStep

LEMMA OtherStepCodes ==
    ASSUME Typed, NEW k \in Codes, NEW c \in Calls,
           ConfirmStep(c) \/ VipStep(c) \/ Crash(c)
    PROVE  UNCHANGED code /\ Owing(k)' \subseteq Owing(k)
<1>1. UNCHANGED code
  BY DEF ConfirmStep, ConfirmBooking, ReadCoupons, MarkUsed, MarkFails, Commit,
     VipStep, ActivateVip, Subscribe, SpendVipCoupon, Crash
<1>2. ASSUME NEW r \in Call, Moves(c, r), r.at \in Confirming \cup Joining
      PROVE  Owing(k)' \subseteq Owing(k)
  BY <1>2, OwingStep DEF Owes, Confirming, Joining
<1>3. ASSUME Return(c) PROVE Owing(k)' \subseteq Owing(k)
  BY <1>3, ReturnOwes
<1>4. ASSUME NEW b \in Bookings, ConfirmBooking(c, b) PROVE Owing(k)' \subseteq Owing(k)
  BY <1>2, <1>4, ConfirmBookingMoves DEF Confirming
<1>5. ASSUME ReadCoupons(c) PROVE Owing(k)' \subseteq Owing(k)
  <2>1. PICK r \in Call : Moves(c, r) /\ r.at = "mark"
    BY <1>5, ReadCouponsMoves
  <2> QED
    BY <1>2, <2>1 DEF Confirming
<1>6. ASSUME MarkFails(c) PROVE Owing(k)' \subseteq Owing(k)
  <2>1. PICK r \in Call : Moves(c, r) /\ r.at = "commit"
    BY <1>6, MarkFailsMoves
  <2> QED
    BY <1>2, <2>1 DEF Confirming
<1>7. ASSUME NEW s \in {"commit", "subscribe", "spend"}, call' = [call EXCEPT ![c].at = s]
      PROVE  Owing(k)' \subseteq Owing(k)
  <2>1. s \in Steps /\ s \in Confirming \cup Joining
    BY DEF Steps, Confirming, Joining
  <2>2. call' = [call EXCEPT ![c].at = s]
    BY <1>7
  <2>3. PICK r \in Call : Moves(c, r) /\ r.at = s
    BY <2>1, <2>2, StepMoves
  <2> QED
    BY <1>2, <2>1, <2>3
<1>8. CASE MarkUsed(c)
  BY <1>7, <1>8 DEF MarkUsed
<1>9. ASSUME NEW j \in VipCoupons, ActivateVip(c, j) PROVE Owing(k)' \subseteq Owing(k)
  BY <1>2, <1>9, ActivateVipMoves DEF Joining
<1>10. CASE Subscribe(c)
  BY <1>7, <1>10 DEF Subscribe
<1>11. CASE Commit(c) \/ SpendVipCoupon(c) \/ Crash(c)
  BY <1>3, <1>11 DEF Commit, SpendVipCoupon, Crash
<1> QED
  BY <1>1, <1>4, <1>5, <1>6, <1>8, <1>9, <1>10, <1>11 DEF ConfirmStep, VipStep

LEMMA CodeWrites ==
    ASSUME Typed, Next, NEW k \in Codes
    PROVE  \/ CodeSteps(k)
           \/ UNCHANGED call /\ code'[k] # Null /\ code'[k].count = 0
           \/ UNCHANGED call /\ code'[k] = code[k]
<1>1. ASSUME NEW c \in Calls, CallStep(c) PROVE CodeSteps(k)
  BY <1>1, ApplyStepCodes, BookStepCodes, OtherStepCodes DEF CodeSteps, CallStep
<1>2. code \in [Codes -> Opt(Code)] /\ Null \notin Code
  BY NullIsNoCode DEF Typed, TypeOK
<1>3. ASSUME NEW j \in Codes, CreateReferralCode(j)
      PROVE  \/ code'[k] = code[k]
             \/ code'[k] # Null /\ code'[k].count = 0
  <2>1. [count |-> 0] \in Code
    BY CouponsAssumption DEF Code
  <2> QED
    BY <1>2, <1>3, <2>1 DEF CreateReferralCode
<1>4. BookingStep => UNCHANGED code
  BY DEF BookingStep, MakeBooking, UpdateBooking, Become
<1>5. NobodyCalls => UNCHANGED call
  BY NobodyCallsStays
<1> QED
  BY <1>1, <1>3, <1>4, <1>5, Kinds DEF NobodyCalls

LEMMA LimitInit == Init => LimitInv
<1> SUFFICES ASSUME Init, NEW k \in Codes PROVE code[k] = Null
  BY DEF LimitInv
<1> QED
  BY DEF Init

LEMMA LimitStep == Typed /\ LimitInv /\ [Next]_vars => LimitInv'
<1> SUFFICES ASSUME Typed, LimitInv, [Next]_vars, NEW k \in Codes, code'[k] # Null
             PROVE  code'[k].count + Cardinality(Owing(k)') < Limit[k] + Cardinality(Calls)
  BY DEF LimitInv
<1> DEFINE n == Cardinality(Calls)
           old == Cardinality(Owing(k))
           new == Cardinality(Owing(k)')
<1>1. /\ IsFiniteSet(Owing(k)) /\ old \in Nat /\ IsFiniteSet(Owing(k)')
      /\ new \in Nat /\ n \in Nat /\ new <= n /\ Limit[k] \in Nat \ {0}
  BY OwingFinite, CouponsAssumption DEF Owing
<1>2. code[k] # Null => code[k] \in Code /\ code[k].count \in Nat
  BY CouponsAssumption DEF Typed, TypeOK, Opt, Code
<1>3. code[k] # Null => code[k].count + old < Limit[k] + n
  BY DEF LimitInv
<1>4. Owing(k)' \subseteq Owing(k) => new <= old
  BY <1>1, FS_Subset
<1>5. UNCHANGED call => Owing(k)' = Owing(k)
  BY DEF Owing, Owes
<1>6. CASE UNCHANGED vars
  <2>1. UNCHANGED <<call, code>>
    BY <1>6 DEF vars
  <2> QED
    BY <1>3, <1>5, <2>1
<1>7. ASSUME UNCHANGED code, Owing(k)' \subseteq Owing(k) PROVE code'[k].count + new < Limit[k] + n
  <2>1. code'[k] = code[k] /\ new <= old /\ code[k] # Null
    BY <1>4, <1>7
  <2> QED
    BY <1>1, <1>2, <1>3, <2>1
<1>8. ASSUME UNCHANGED code, BelowLimit(k) PROVE code'[k].count + new < Limit[k] + n
  <2>1. code'[k] = code[k] /\ code[k] # Null /\ code[k].count < Limit[k]
    BY <1>8 DEF BelowLimit
  <2> QED
    BY <1>1, <1>2, <2>1
<1>9. ASSUME NEW c \in Calls, Counts(c), call[c].offer = k,
             code'[k].count = code[k].count + 1, Owing(k)' \subseteq Owing(k) \ {c}
      PROVE  code'[k].count + new < Limit[k] + n
  <2>1. code[k] # Null /\ c \in Owing(k)
    BY <1>9, CountsWrites
  <2>2. Cardinality(Owing(k) \ {c}) = old - 1 /\ IsFiniteSet(Owing(k) \ {c})
    BY <1>1, <2>1, FS_RemoveElement
  <2>3. new <= old - 1
    BY <1>9, <2>2, FS_Subset
  <2> QED
    BY <1>1, <1>2, <1>3, <1>9, <2>1, <2>3
<1>10. ASSUME code'[k] = code[k], Owing(k)' \subseteq Owing(k)
       PROVE  code'[k].count + new < Limit[k] + n
  <2>1. new <= old /\ code[k] # Null
    BY <1>4, <1>10
  <2> QED
    BY <1>1, <1>2, <1>3, <1>10, <2>1
<1>11. ASSUME UNCHANGED call, code'[k].count = 0 PROVE code'[k].count + new < Limit[k] + n
  BY <1>1, <1>11
<1>12. ASSUME UNCHANGED call, code'[k] = code[k]
       PROVE  code'[k].count + new < Limit[k] + n
  BY <1>3, <1>5, <1>12
<1>13. CASE Next
  <2>1. CodeSteps(k) => code'[k].count + new < Limit[k] + n
    BY <1>7, <1>8, <1>9, <1>10 DEF CodeSteps
  <2>2. \/ CodeSteps(k)
        \/ UNCHANGED call /\ code'[k].count = 0
        \/ UNCHANGED call /\ code'[k] = code[k]
    BY <1>13, CodeWrites
  <2> QED
    BY <1>11, <1>12, <2>1, <2>2
<1> QED
  BY <1>6, <1>13

(* A limit is exceeded by the calls under way, and by no more.             *)
THEOREM LimitTheorem == Spec => []LimitUpToCalls
BY TypedInit, TypedStep, LimitInit, LimitStep, LimitImplied, PTL DEF Spec

-----------------------------------------------------------------------------
(* Used coupons and what the booking was priced with                       *)

\* One call has a booking that is not raced ...
OnlyOne(b) == \A c, d \in Calls : call[c].booking = b /\ call[d].booking = b => c = d

\* ... and what it has read or written of it is still there.
Knows(r, b) ==
    /\ r.at = "charge" => applied[b] = {}
    /\ r.at \in {"record", "count"} => r.asked \cap Coupons \subseteq booking[b].priced
    /\ r.at = "mark" => r.asked \subseteq booking[b].priced

Over(b) == booking[b].status \in Closed

\* What has used a coupon up will not be priced again.
Spent(b) ==
    \/ \E c \in Calls : call[c].booking = b /\ call[c].at = "commit"
    \/ /\ Over(b)
       /\ \A c \in Calls : call[c].booking = b => call[c].at \notin Pricing

UsedBy(k, b) == coupon[k].by = b

Good(b) ==
    b \notin raced =>
       /\ OnlyOne(b)
       /\ applied[b] \subseteq booking[b].priced
       /\ \A c \in Calls : call[c].booking = b => Knows(call[c], b)
       /\ \A k \in Coupons : UsedBy(k, b) /\ b \notin undone => k \in booking[b].priced /\ Spent(b)

PricedInv == UsedHasBooking /\ \A b \in Bookings : Good(b)

LEMMA PricedImplied == PricedInv => UsedWasPriced
BY DEF PricedInv, UsedHasBooking, UsedWasPriced, Good, UsedBy

\* The booking is worth what it was, and does not open again.
Kept(b) == booking'[b].priced = booking[b].priced /\ (Over(b) => Over(b)')

LEMMA KeptUnlessCharged ==
    ASSUME Typed, Next, NEW b \in Bookings, \A c \in Calls : Charge(c) => call[c].booking # b
    PROVE  Kept(b)
<1>1. Written(b)
  BY BookingWrites DEF BookingsWritten
<1>2. ~Exists(b) => booking[b].priced = {} /\ booking[b].status = "absent"
  BY NoBookingTyped DEF Typed, Placed
<1> QED
  BY <1>1, <1>2 DEF Written, Entered, Changed, Ended, Kept, Over, Closed

LEMMA KeptByCall ==
    ASSUME Typed, Next, NEW b \in Bookings, NEW c \in Calls, CallStep(c),
           Charge(c) => call[c].booking # b
    PROVE  Kept(b)
<1>1. ASSUME NEW d \in Calls, Charge(d), d # c PROVE FALSE
  <2>1. call'[d].at = "record"
    BY <1>1, ChargeMoves, Moved DEF Typed
  <2>2. call'[d] = call[d] /\ call[d].at = "charge"
    BY <1>1, OthersStay DEF Charge, At
  <2> QED
    BY <2>1, <2>2
<1> QED
  BY <1>1, KeptUnlessCharged

LEMMA KeptByNobody ==
    ASSUME Typed, Next, NEW b \in Bookings, UNCHANGED call
    PROVE  Kept(b)
<1>1. ASSUME NEW d \in Calls, Charge(d) PROVE FALSE
  <2>1. call'[d].at = "record"
    BY <1>1, ChargeMoves, Moved DEF Typed
  <2> QED
    BY <1>1, <2>1 DEF Charge, At
<1> QED
  BY <1>1, KeptUnlessCharged

(* A call moves on, and the booking's rows stay.                           *)
LEMMA GoodMove ==
    ASSUME Typed, NEW b \in Bookings, Good(b), NEW c \in Calls, NEW r \in Call, Moves(c, r),
           raced' = raced, undone \subseteq undone',
           applied'[b] = applied[b], Kept(b),
           \A k \in Coupons : UsedBy(k, b)' => UsedBy(k, b),
           r.booking = b => /\ call[c].booking = b /\ Knows(r, b)
                            /\ r.at \in Pricing => call[c].at \in Pricing,
           call[c].booking = b /\ call[c].at = "commit" => b \in undone'
    PROVE  Good(b)'
<1> SUFFICES ASSUME b \notin raced PROVE Good(b)'
  BY DEF Good
<1>1. call'[c] = r /\ \A d \in Calls \ {c} : call'[d] = call[d]
  BY Moved DEF Typed
<1>2. \A d \in Calls : call'[d].booking = b => call[d].booking = b
  BY <1>1
<1>3. OnlyOne(b)'
  BY <1>2 DEF Good, OnlyOne
<1>4. (applied[b] \subseteq booking[b].priced)'
  BY DEF Good, Kept
<1>5. ASSUME NEW d \in Calls, call'[d].booking = b PROVE Knows(call[d], b)'
  <2>1. CASE d = c
    BY <1>1, <1>5, <2>1 DEF Knows, Kept
  <2>2. CASE d # c
    BY <1>1, <1>5, <2>2 DEF Knows, Good, Kept
  <2> QED
    BY <2>1, <2>2
<1>6. ASSUME NEW k \in Coupons, UsedBy(k, b)', b \notin undone'
      PROVE  k \in booking'[b].priced /\ Spent(b)'
  <2>1. k \in booking[b].priced /\ Spent(b) /\ Kept(b)
    BY <1>6 DEF Good
  <2>2. ASSUME NEW d \in Calls, call[d].booking = b, call[d].at = "commit" PROVE Spent(b)'
    BY <1>1, <1>6, <2>2 DEF Spent
  <2>3. ASSUME Over(b),
               \A d \in Calls : call[d].booking = b => call[d].at \notin Pricing
        PROVE  Spent(b)'
    BY <1>1, <2>1, <2>3 DEF Spent, Kept
  <2> QED
    BY <2>1, <2>2, <2>3 DEF Spent, Kept
<1> QED
  BY <1>3, <1>4, <1>5, <1>6 DEF Good

(* A call begins with a booking.                                           *)
LEMMA GoodStart ==
    ASSUME Typed, NEW b \in Bookings, Good(b), NEW c \in Calls, NEW r \in Call, Moves(c, r),
           Idle(c), raced' = Joined(r.booking), UNCHANGED <<undone, applied, booking, coupon>>,
           r.at \in {"vip", "ids"}, r.at = "vip" => booking[r.booking].status = "pending"
    PROVE  Good(b)'
<1> SUFFICES ASSUME b \notin raced' PROVE Good(b)'
  BY DEF Good
<1>1. call'[c] = r /\ \A d \in Calls \ {c} : call'[d] = call[d]
  BY Moved DEF Typed
<1>2. b \notin raced /\ (r.booking = b => \A d \in Calls : call[d].booking # b)
  BY DEF Joined, Busy
<1>3. OnlyOne(b)'
  BY <1>1, <1>2 DEF Good, OnlyOne
<1>4. (applied[b] \subseteq booking[b].priced)'
  BY <1>2 DEF Good
<1>5. ASSUME NEW d \in Calls, call'[d].booking = b PROVE Knows(call[d], b)'
  <2>1. CASE d = c
    BY <1>1, <2>1 DEF Knows
  <2>2. CASE d # c
    BY <1>1, <1>2, <1>5, <2>2 DEF Knows, Good
  <2> QED
    BY <2>1, <2>2
<1>6. ASSUME NEW k \in Coupons, UsedBy(k, b)', b \notin undone'
      PROVE  k \in booking'[b].priced /\ Spent(b)'
  <2>1. k \in booking[b].priced /\ Spent(b)
    BY <1>2, <1>6 DEF Good, UsedBy
  <2>2. ASSUME NEW d \in Calls, call[d].booking = b, call[d].at = "commit" PROVE Spent(b)'
    BY <1>1, <2>2 DEF Spent, Idle, At
  <2>3. ASSUME Over(b),
               \A d \in Calls : call[d].booking = b => call[d].at \notin Pricing
        PROVE  Spent(b)'
    BY <1>1, <2>3 DEF Spent, Pricing, Over, Closed
  <2> QED
    BY <2>1, <2>2, <2>3 DEF Spent
<1> QED
  BY <1>3, <1>4, <1>5, <1>6 DEF Good

(* The call that has the booking, if it is not raced, is the only one.     *)
LEMMA Alone ==
    ASSUME Typed, NEW c \in Calls, NEW b, call[c].booking = b, Good(b), b \notin raced,
           NEW r \in Call, Moves(c, r), r.booking \in {b, Null}, b # Null
    PROVE  /\ call'[c] = r
           /\ \A d \in Calls : call'[d].booking = b => d = c
           /\ OnlyOne(b)'
           /\ Knows(call[c], b)
           /\ applied[b] \subseteq booking[b].priced
           /\ call[c].at \in Pricing =>
                 \A k \in Coupons : UsedBy(k, b) => b \in undone
           /\ \A k \in Coupons : UsedBy(k, b) /\ b \notin undone => k \in booking[b].priced
<1>1. call'[c] = r /\ \A d \in Calls \ {c} : call'[d] = call[d]
  BY Moved DEF Typed
<1>2. \A d \in Calls : call[d].booking = b => d = c
  BY DEF Good, OnlyOne
<1>3. \A d \in Calls : call'[d].booking = b => d = c
  BY <1>1, <1>2
<1>4. OnlyOne(b)'
  BY <1>3 DEF OnlyOne
<1>5. ASSUME call[c].at \in Pricing PROVE ~Spent(b)
  BY <1>2, <1>5 DEF Spent, Pricing
<1> QED
  BY <1>1, <1>3, <1>4, <1>5 DEF Good

LEMMA GoodReturn ==
    ASSUME Typed, NEW b \in Bookings, Good(b), NEW c \in Calls, Return(c),
           raced' = raced, undone \subseteq undone',
           applied'[b] = applied[b], Kept(b),
           \A k \in Coupons : UsedBy(k, b)' => UsedBy(k, b),
           call[c].booking = b /\ call[c].at = "commit" => b \in undone'
    PROVE  Good(b)'
<1>1. PICK r \in Call : r = NoCall
  BY NoCallTyped
<1>2. Moves(c, r) /\ r.booking # b
  BY <1>1, NoCallTyped, CouponsAssumption DEF Return, Moves
<1> QED
  BY <1>2, GoodMove

LEMMA ApplyStepGood ==
    ASSUME Typed, Next, NEW b \in Bookings, Good(b), NEW c \in Calls, ApplyStep(c)
    PROVE  Good(b)'
<1>1. /\ call[c] \in Call /\ Fits(call[c]) /\ b # Null
      /\ applied \in [Bookings -> SUBSET Coupons] /\ booking \in [Bookings -> Booking]
  BY CouponsAssumption DEF Typed, TypeOK, CallsFit
<1>2. UNCHANGED <<coupon, undone>>
  BY DEF ApplyStep, Apply, CheckVip, Clear, Charge, CountUse, Applied, Record, Unspent, Price, past
<1>3. \A k \in Coupons : UsedBy(k, b)' => UsedBy(k, b)
  BY <1>2 DEF UsedBy
<1>4. ASSUME raced' = raced, applied'[b] = applied[b], Kept(b), NEW r \in Call, Moves(c, r),
             r.booking = call[c].booking, Knows(r, b), call[c].at \in Pricing
      PROVE  Good(b)'
  BY <1>2, <1>3, <1>4, GoodMove DEF Pricing
<1>5. ASSUME raced' = raced, applied'[b] = applied[b], Kept(b), Return(c),
             call[c].at \in Pricing
      PROVE  Good(b)'
  BY <1>2, <1>3, <1>5, GoodReturn DEF Pricing
<1>kept. ASSUME Charge(c) => call[c].booking # b PROVE Kept(b)
  BY <1>kept, KeptByCall DEF CallStep
<1>6. ASSUME NEW d \in Bookings, NEW asked \in SUBSET Offers, Apply(c, d, asked) PROVE Good(b)'
  <2>1. PICK r \in Call : Moves(c, r) /\ r.at = "vip" /\ r.booking = d
    BY <1>6, ApplyMoves
  <2>2. /\ Idle(c) /\ booking[d].status = "pending" /\ raced' = Joined(d)
        /\ UNCHANGED <<undone, applied, booking, coupon>>
    BY <1>6 DEF Apply
  <2> QED
    BY <2>1, <2>2, GoodStart
<1>7. CASE CheckVip(c)
  <2>1. PICK r \in Call : Moves(c, r) /\ r.at = "price" /\ r.booking = call[c].booking
    BY <1>7, CheckVipMoves
  <2>2. UNCHANGED <<raced, applied, booking>> /\ call[c].at \in Pricing
    BY <1>7 DEF CheckVip, At, Pricing, past
  <2>other. ~Charge(c)
    BY <1>7 DEF CheckVip, Charge, At
  <2> QED
    BY <1>4, <1>kept, <2>1, <2>2, <2>other DEF Knows
<1>8. ASSUME NEW k \in Offers, NEW fresh \in BOOLEAN, NEW n \in 1 .. MaxNamed,
             Price(c, k, fresh, n)
      PROVE  Good(b)'
  <2>1. UNCHANGED <<raced, applied, booking>> /\ call[c].at \in Pricing
    BY <1>8 DEF Price, At, Pricing, past
  <2>kept. Kept(b)
    BY <1>8, <1>kept DEF Price, Charge, At
  <2>2. CASE Moves(c, NoCall)
    BY <1>5, <2>1, <2>2, <2>kept DEF Moves, Return
  <2>3. ASSUME NEW r \in Call, Moves(c, r), r.at = "price", r.booking = call[c].booking
        PROVE  Good(b)'
    BY <1>4, <2>1, <2>3, <2>kept DEF Knows
  <2> QED
    BY <1>8, <2>2, <2>3, PriceMoves
<1>9. CASE Applied(c)
  <2>1. UNCHANGED <<raced, applied, booking>> /\ call[c].at \in Pricing /\ Return(c)
    BY <1>9 DEF Applied, At, Pricing, past
  <2>other. ~Charge(c)
    BY <1>9 DEF Applied, Charge, At
  <2> QED
    BY <1>5, <1>kept, <2>1, <2>other
<1>10. CASE CountUse(c)
  <2>1. PICK r \in Call : /\ Moves(c, r) /\ r.at = "record" /\ r.booking = call[c].booking
                          /\ r.asked = call[c].asked
    BY <1>10, CountUseMoves
  <2>2. UNCHANGED <<raced, applied, booking>> /\ call[c].at = "count"
    BY <1>10 DEF CountUse, At, past
  <2>kept. Kept(b)
    BY <1>kept, <2>2 DEF Charge, At
  <2>3. ASSUME call[c].booking = b, b \notin raced PROVE Knows(r, b)
    BY <2>1, <2>2, <2>3 DEF Good, Knows
  <2>4. CASE b \in raced
    BY <2>2, <2>4 DEF Good
  <2>5. CASE b \notin raced
    BY <1>2, <1>3, <2>1, <2>2, <2>3, <2>5, <2>kept, GoodMove DEF Pricing
  <2> QED
    BY <2>4, <2>5
<1>11. CASE Clear(c)
  <2>1. call' = [call EXCEPT ![c].at = "charge"] /\ "charge" \in Steps
    BY <1>11 DEF Clear, Steps
  <2>2. PICK r \in Call : Moves(c, r) /\ r.at = "charge" /\ r.booking = call[c].booking
    BY <2>1, StepMoves
  <2>3. /\ UNCHANGED <<raced, booking>> /\ call[c].at \in Pricing
        /\ applied' = [applied EXCEPT ![call[c].booking] = Cleared(@)]
    BY <1>11 DEF Clear, At, Pricing, past
  <2>kept. Kept(b)
    BY <1>11, <1>kept DEF Clear, Charge, At
  <2>4. CASE call[c].booking # b
    <3>1. applied'[b] = applied[b]
      BY <1>1, <2>3, <2>4
    <3> QED
      BY <1>2, <1>3, <2>2, <2>3, <2>4, <2>kept, <3>1, GoodMove DEF Pricing
  <2>5. CASE call[c].booking = b /\ b \notin raced
    <3>1. applied'[b] = {}
      BY <1>1, <2>3, <2>5 DEF Cleared
    <3>2. /\ call'[c] = r /\ OnlyOne(b)' /\ \A d \in Calls : call'[d].booking = b => d = c
          /\ \A k \in Coupons : UsedBy(k, b) => b \in undone
      BY <1>1, <2>2, <2>3, <2>5, Alone
    <3>3. ASSUME NEW d \in Calls, call'[d].booking = b PROVE Knows(call[d], b)'
      BY <2>2, <3>1, <3>2, <3>3 DEF Knows
    <3> QED
      BY <1>2, <1>3, <3>1, <3>2, <3>3 DEF Good
  <2>6. CASE b \in raced
    BY <2>3, <2>6 DEF Good
  <2> QED
    BY <2>4, <2>5, <2>6
<1>12. CASE Charge(c)
  <2>1. PICK r \in Call : /\ Moves(c, r) /\ r.at = "record" /\ r.booking = call[c].booking
                          /\ r.asked = call[c].asked
    BY <1>12, ChargeMoves
  <2>2. UNCHANGED <<raced, applied>> /\ call[c].at = "charge"
    BY <1>12 DEF Charge, At, past
  <2>3. CASE call[c].booking # b
    <3>1. Kept(b)
      BY <1>kept, <2>3
    <3> QED
      BY <1>2, <1>3, <2>1, <2>2, <2>3, <3>1, GoodMove DEF Pricing
  <2>4. CASE call[c].booking = b /\ b \notin raced
    <3>1. booking'[b].priced = call[c].priced \cap Coupons
      BY <1>12, <2>4, ChargeWrites, RowWritten DEF Charged
    <3>2. /\ call'[c] = r /\ OnlyOne(b)' /\ \A d \in Calls : call'[d].booking = b => d = c
          /\ Knows(call[c], b)
          /\ \A k \in Coupons : UsedBy(k, b) => b \in undone
      BY <1>1, <2>1, <2>2, <2>4, Alone DEF Pricing
    <3>3. applied[b] = {} /\ call[c].asked \subseteq call[c].priced
      BY <1>1, <2>2, <3>2 DEF Knows, Fits
    <3>4. ASSUME NEW d \in Calls, call'[d].booking = b PROVE Knows(call[d], b)'
      BY <2>1, <3>1, <3>2, <3>3, <3>4 DEF Knows
    <3> QED
      BY <1>2, <1>3, <2>2, <3>2, <3>3, <3>4 DEF Good
  <2>5. CASE b \in raced
    BY <2>2, <2>5 DEF Good
  <2> QED
    BY <2>3, <2>4, <2>5
<1>13. ASSUME NEW k \in Offers, Record(c, k) PROVE Good(b)'
  <2>1. PICK r \in Call : /\ Moves(c, r) /\ r.booking = call[c].booking
                          /\ r.asked = call[c].asked \ {k}
                          /\ r.at \in {"count", "record"}
    BY <1>13, RecordMoves
  <2>2. /\ UNCHANGED <<raced, booking>> /\ call[c].at = "record" /\ k \in call[c].asked
        /\ applied' = [applied EXCEPT ![call[c].booking] = @ \cup ({k} \cap Coupons)]
    BY <1>13 DEF Record, At, past
  <2>kept. Kept(b)
    BY <1>kept, <2>2 DEF Charge, At
  <2>3. CASE call[c].booking # b
    <3>1. applied'[b] = applied[b]
      BY <1>1, <2>2, <2>3
    <3> QED
      BY <1>2, <1>3, <2>1, <2>2, <2>3, <2>kept, <3>1, GoodMove DEF Pricing
  <2>4. CASE call[c].booking = b /\ b \notin raced
    <3>1. applied'[b] = applied[b] \cup ({k} \cap Coupons)
      BY <1>1, <2>2, <2>4
    <3>2. /\ call'[c] = r /\ OnlyOne(b)' /\ \A d \in Calls : call'[d].booking = b => d = c
          /\ Knows(call[c], b) /\ applied[b] \subseteq booking[b].priced
          /\ \A j \in Coupons : UsedBy(j, b) => b \in undone
      <4>1. call'[c] = r /\ call[c].at \in Pricing /\ call[c].booking = b
        <5>1. call[c].at \in Pricing /\ call[c].booking = b
          BY <2>2, <2>4 DEF Pricing
        <5> QED
          BY <1>1, <2>1, <2>4, <5>1, Alone
      <4>2. r.booking = b /\ b # Null /\ b \notin raced' /\ b \notin raced
        BY <1>1, <2>1, <2>2, <2>4
      <4> QED
        BY <1>1, <2>1, <2>4, <4>1, <4>2, Alone DEF Pricing
    <3>3. call[c].asked \cap Coupons \subseteq booking[b].priced
      BY <2>2, <3>2 DEF Knows
    <3>4. ASSUME NEW d \in Calls, call'[d].booking = b PROVE Knows(call[d], b)'
      BY <2>1, <2>2, <3>2, <3>3, <3>4 DEF Knows
    <3>5. (applied[b] \subseteq booking[b].priced)'
      BY <2>2, <3>1, <3>2, <3>3
    <3> QED
      BY <1>2, <1>3, <3>2, <3>4, <3>5 DEF Good
  <2>5. CASE b \in raced
    BY <2>2, <2>5 DEF Good
  <2> QED
    BY <2>3, <2>4, <2>5
<1> QED
  BY <1>6, <1>7, <1>8, <1>9, <1>10, <1>11, <1>12, <1>13 DEF ApplyStep

LEMMA ConfirmStepGood ==
    ASSUME Typed, Next, NEW b \in Bookings, Good(b), NEW c \in Calls, ConfirmStep(c)
    PROVE  Good(b)'
<1>1. /\ call[c] \in Call /\ Fits(call[c]) /\ b # Null
      /\ applied \in [Bookings -> SUBSET Coupons] /\ booking \in [Bookings -> Booking]
  BY CouponsAssumption DEF Typed, TypeOK, CallsFit
<1>2. UNCHANGED <<applied, undone>>
  BY DEF ConfirmStep, ConfirmBooking, ReadCoupons, MarkUsed, MarkFails, Commit, past
<1>kept. Kept(b)
  <2>1. ~Charge(c)
    BY DEF ConfirmStep, ConfirmBooking, ReadCoupons, MarkUsed, MarkFails, Commit, Charge, Idle, At
  <2> QED
    BY <2>1, KeptByCall DEF CallStep
<1>3. ASSUME NEW d \in Bookings, ConfirmBooking(c, d) PROVE Good(b)'
  <2>1. PICK r \in Call : Moves(c, r) /\ r.at = "ids" /\ r.booking = d
    BY <1>3, ConfirmBookingMoves
  <2>2. Idle(c) /\ raced' = Joined(d) /\ UNCHANGED <<undone, applied, booking, coupon>>
    BY <1>3 DEF ConfirmBooking
  <2> QED
    BY <2>1, <2>2, GoodStart
<1>4. CASE ReadCoupons(c)
  <2>1. PICK r \in Call : /\ Moves(c, r) /\ r.at = "mark" /\ r.booking = call[c].booking
                          /\ r.asked = applied[call[c].booking]
    BY <1>4, ReadCouponsMoves
  <2>2. UNCHANGED <<raced, booking, coupon>> /\ call[c].at = "ids"
    BY <1>4 DEF ReadCoupons, At, past
  <2>3. ASSUME b \notin raced, r.booking = b PROVE Knows(r, b)
    BY <2>1, <2>3 DEF Good, Knows
  <2>4. CASE b \in raced
    BY <2>2, <2>4 DEF Good
  <2>5. CASE b \notin raced
    BY <1>2, <1>kept, <2>1, <2>2, <2>3, <2>5, GoodMove DEF Pricing, UsedBy
  <2> QED
    BY <2>4, <2>5
<1>5. CASE MarkFails(c)
  <2>1. PICK r \in Call : Moves(c, r) /\ r.at = "commit" /\ r.booking = call[c].booking
    BY <1>5, MarkFailsMoves
  <2>2. UNCHANGED <<raced, booking, coupon>> /\ call[c].at # "commit"
    BY <1>5 DEF MarkFails, At, past
  <2> QED
    BY <1>2, <1>kept, <2>1, <2>2, GoodMove DEF Pricing, UsedBy, Knows
<1>6. CASE MarkUsed(c)
  <2>1. call' = [call EXCEPT ![c].at = "commit"] /\ "commit" \in Steps
    BY <1>6 DEF MarkUsed, Steps, Confirming
  <2>2. PICK r \in Call : Moves(c, r) /\ r.at = "commit" /\ r.booking = call[c].booking
    BY <2>1, StepMoves
  <2>3. UNCHANGED <<raced, booking>> /\ call[c].at = "mark"
    BY <1>6 DEF MarkUsed, At, past
  <2>4. \A k \in Coupons : IF k \in call[c].asked THEN UsedBy(k, call[c].booking)'
                                                ELSE coupon'[k] = coupon[k]
    <3>1. ASSUME NEW k \in Coupons, k \in call[c].asked
          PROVE  coupon'[k].used /\ coupon'[k].by = call[c].booking
      BY <1>6, <3>1, MarkUsedWrites
    <3>2. ASSUME NEW k \in Coupons, k \notin call[c].asked PROVE coupon'[k] = coupon[k]
      BY <1>6, <3>2, MarkUsedWrites
    <3>3. call'[c].booking = call[c].booking
      BY <2>2, Moved DEF Typed
    <3> QED
      BY <3>1, <3>2, <3>3 DEF UsedBy
  <2>5. CASE call[c].booking # b
    <3>1. ASSUME NEW k \in Coupons, UsedBy(k, b)' PROVE UsedBy(k, b)
      <4>1. CASE k \in call[c].asked
        <5>1. coupon'[k].by = call[c].booking
          BY <1>6, <4>1, MarkUsedWrites
        <5> QED
          BY <2>5, <3>1, <5>1 DEF UsedBy
      <4>2. CASE k \notin call[c].asked
        BY <2>4, <3>1, <4>2 DEF UsedBy
      <4> QED
        BY <4>1, <4>2
    <3> QED
      BY <1>2, <1>kept, <2>2, <2>3, <2>5, <3>1, GoodMove
  <2>6. CASE call[c].booking = b /\ b \notin raced
    <3>1. /\ call'[c] = r /\ OnlyOne(b)' /\ \A d \in Calls : call'[d].booking = b => d = c
          /\ Knows(call[c], b) /\ applied[b] \subseteq booking[b].priced
          /\ \A k \in Coupons : UsedBy(k, b) /\ b \notin undone => k \in booking[b].priced
      BY <1>1, <2>2, <2>6, Alone
    <3>2. Spent(b)'
      BY <2>2, <2>6, <3>1 DEF Spent
    <3>3. ASSUME NEW k \in Coupons, UsedBy(k, b)', b \notin undone PROVE k \in booking[b].priced
      <4>1. CASE k \in call[c].asked
        BY <2>3, <3>1, <4>1 DEF Knows
      <4>2. CASE k \notin call[c].asked
        BY <2>4, <3>1, <3>3, <4>2 DEF UsedBy
      <4> QED
        BY <4>1, <4>2
    <3>4. ASSUME NEW d \in Calls, call'[d].booking = b PROVE Knows(call[d], b)'
      BY <2>2, <3>1, <3>4 DEF Knows
    <3> QED
      BY <1>2, <2>3, <3>1, <3>2, <3>3, <3>4 DEF Good
  <2>7. CASE b \in raced
    BY <2>3, <2>7 DEF Good
  <2> QED
    BY <2>5, <2>6, <2>7
<1>7. CASE Commit(c)
  <2>1. PICK r \in Call : r = NoCall
    BY NoCallTyped
  <2>2. Moves(c, r) /\ r.booking = Null /\ Return(c)
    BY <1>7, <2>1, NoCallTyped DEF Commit, Return, Moves
  <2>3. UNCHANGED <<raced, coupon>>
    BY <1>7 DEF Commit, past
  <2>4. CASE call[c].booking # b
    BY <1>2, <1>kept, <2>2, <2>3, <2>4, GoodReturn DEF UsedBy
  <2>5. CASE call[c].booking = b /\ b \notin raced
    <3>1. booking'[b].priced = booking[b].priced /\ Over(b)'
      BY <1>7, <1>kept, <2>5, CommitWrites, RowWritten DEF Kept, Over, Closed
    <3>2. /\ call'[c] = r /\ OnlyOne(b)' /\ \A d \in Calls : call'[d].booking = b => d = c
          /\ applied[b] \subseteq booking[b].priced
          /\ \A k \in Coupons : UsedBy(k, b) /\ b \notin undone => k \in booking[b].priced
      BY <1>1, <2>2, <2>5, Alone
    <3>3. \A d \in Calls : call'[d].booking # b
      BY <1>1, <2>2, <3>2
    <3>4. Spent(b)'
      BY <3>1, <3>3 DEF Spent
    <3> QED
      BY <1>2, <2>3, <3>1, <3>2, <3>3, <3>4 DEF Good, UsedBy
  <2>6. CASE b \in raced
    BY <2>3, <2>6 DEF Good
  <2> QED
    BY <2>4, <2>5, <2>6
<1> QED
  BY <1>3, <1>4, <1>5, <1>6, <1>7 DEF ConfirmStep

LEMMA VipStepGood ==
    ASSUME Typed, Next, NEW b \in Bookings, Good(b), NEW c \in Calls, VipStep(c)
    PROVE  Good(b)'
<1>1. UNCHANGED <<applied, undone, raced>> /\ b # Null
  BY CouponsAssumption DEF VipStep, ActivateVip, Subscribe, SpendVipCoupon, past
<1>2. call[c].at # "commit" /\ Kept(b)
  <2>1. call[c].at # "commit" /\ ~Charge(c)
    BY DEF VipStep, ActivateVip, Subscribe, SpendVipCoupon, Charge, Idle, At
  <2> QED
    BY <2>1, KeptByCall DEF CallStep
<1>3. ASSUME NEW k \in Coupons PROVE coupon'[k].by = coupon[k].by
  BY SpendVipCouponWrites DEF VipStep, ActivateVip, Subscribe
<1>4. \A k \in Coupons : UsedBy(k, b)' => UsedBy(k, b)
  BY <1>3 DEF UsedBy
<1>5. ASSUME NEW r \in Call, Moves(c, r), r.booking \in {call[c].booking, Null},
             r.at \in Joining
      PROVE  Good(b)'
  BY <1>1, <1>2, <1>4, <1>5, GoodMove DEF Joining, Pricing, Knows
<1>6. CASE SpendVipCoupon(c)
  BY <1>1, <1>2, <1>4, <1>6, GoodReturn DEF SpendVipCoupon
<1>7. ASSUME NEW k \in VipCoupons, ActivateVip(c, k) PROVE Good(b)'
  <2>1. PICK r \in Call : Moves(c, r) /\ r.at = "subscribe" /\ r.booking = Null
    BY <1>7, ActivateVipMoves
  <2> QED
    BY <1>5, <2>1 DEF Joining
<1>8. CASE Subscribe(c)
  <2>1. call' = [call EXCEPT ![c].at = "spend"] /\ "spend" \in Steps
    BY <1>8 DEF Subscribe, Steps
  <2>2. PICK r \in Call : Moves(c, r) /\ r.at = "spend" /\ r.booking = call[c].booking
    BY <2>1, StepMoves
  <2> QED
    BY <1>5, <2>2 DEF Joining
<1> QED
  BY <1>6, <1>7, <1>8 DEF VipStep

LEMMA BookStepGood ==
    ASSUME Typed, Next, NEW b \in Bookings, Good(b), NEW c \in Calls, BookStep(c)
    PROVE  Good(b)'
<1>1. UNCHANGED <<coupon, applied, undone, raced>> /\ b # Null
  BY CouponsAssumption DEF BookStep, BookWithCode, InsertBooking, past
<1>2. call[c].at # "commit" /\ Kept(b)
  <2>1. call[c].at # "commit" /\ ~Charge(c)
    BY DEF BookStep, BookWithCode, InsertBooking, Charge, Idle, At
  <2> QED
    BY <2>1, KeptByCall DEF CallStep
<1>3. \A k \in Coupons : UsedBy(k, b)' => UsedBy(k, b)
  BY <1>1 DEF UsedBy
<1>4. ASSUME NEW p \in Places, NEW k \in Codes, BookWithCode(c, p, k) PROVE Good(b)'
  <2>1. PICK r \in Call : Moves(c, r) /\ r.at = "book" /\ r.booking = Null
    BY <1>4, BookWithCodeMoves
  <2> QED
    BY <1>1, <1>2, <1>3, <2>1, GoodMove
<1>5. ASSUME NEW d \in Bookings, InsertBooking(c, d) PROVE Good(b)'
  BY <1>1, <1>2, <1>3, <1>5, GoodReturn DEF InsertBooking
<1> QED
  BY <1>4, <1>5 DEF BookStep

LEMMA CrashGood ==
    ASSUME Typed, Next, NEW b \in Bookings, Good(b), NEW c \in Calls, Crash(c)
    PROVE  Good(b)'
<1>1. /\ Return(c) /\ UNCHANGED <<coupon, applied, booking, raced>>
      /\ undone \subseteq undone'
      /\ call[c].at = "commit" => call[c].booking \in undone'
  BY DEF Crash, At
<1> QED
  BY <1>1, GoodReturn DEF UsedBy, Kept, Over

LEMMA NobodyGood ==
    ASSUME NEW b \in Bookings, Good(b), UNCHANGED <<call, coupon, applied, undone, raced>>,
           Kept(b)
    PROVE  Good(b)'
<1>1. OnlyOne(b)' <=> OnlyOne(b)
  BY DEF OnlyOne
<1>2. Spent(b) => Spent(b)'
  BY DEF Spent, Kept
<1>3. ASSUME NEW d \in Calls, Knows(call[d], b) PROVE Knows(call[d], b)'
  BY <1>3 DEF Knows, Kept
<1>4. \A k \in Coupons : UsedBy(k, b)' <=> UsedBy(k, b)
  BY DEF UsedBy
<1> QED
  BY <1>1, <1>2, <1>3, <1>4 DEF Good, Kept

LEMMA PricedInit == Init => PricedInv
<1> SUFFICES ASSUME Init PROVE PricedInv
  OBVIOUS
<1>1. ASSUME NEW b \in Bookings PROVE Good(b)
  <2>1. /\ \A k \in Coupons : coupon[k].by = Null
        /\ applied[b] = {} /\ \A c \in Calls : call[c].booking = Null
    BY NoCallTyped DEF Init
  <2>2. b # Null
    BY CouponsAssumption
  <2> QED
    BY <2>1, <2>2 DEF Good, OnlyOne, UsedBy
<1> QED
  BY <1>1, UsedInit DEF PricedInv, UsedInv

LEMMA PricedStep == Typed /\ UsedInv /\ PricedInv /\ [Next]_vars => PricedInv'
<1> SUFFICES ASSUME Typed, UsedInv, PricedInv, [Next]_vars PROVE PricedInv'
  OBVIOUS
<1>1. ASSUME NEW b \in Bookings PROVE Good(b)'
  <2>1. Good(b)
    BY DEF PricedInv
  <2>2. CASE UNCHANGED vars
    BY <2>1, <2>2, NobodyGood DEF vars, past, Kept, Over
  <2>3. CASE Next
    BY <2>1, <2>3, Kinds, ApplyStepGood, BookStepGood, ConfirmStepGood, VipStepGood, CrashGood,
       NobodyCallsStays, KeptByNobody, NobodyGood DEF CallStep
  <2> QED
    BY <2>2, <2>3
<1> QED
  BY <1>1, UsedStep DEF PricedInv, UsedInv

(* No coupon is used up by a booking that did not get its discount, unless *)
(* its requests overlapped or its confirmation was rolled back.            *)
THEOREM PricedTheorem == Spec => []UsedWasPriced
BY TypedInit, TypedStep, UsedInit, UsedStep, PricedInit, PricedStep, PricedImplied, PTL DEF Spec

=============================================================================
