------------------------------ MODULE Coupons ------------------------------
(***************************************************************************)
(* What one buyer pays with: coupons, referral codes and the VIP           *)
(* membership (CouponsService, and where AgentsService and AdminService    *)
(* make codes).                                                            *)
(*                                                                         *)
(* createPayment prices a pending booking with applyCouponsToBooking, one  *)
(* statement at a time and without a transaction; the payment's webhook    *)
(* confirms it, and marks its coupons used on another connection than the  *)
(* one of its own transaction.  Meanwhile the rest of the system does to   *)
(* the bookings what module BookingLife lets it do.  Money is in cents.    *)
(***************************************************************************)
EXTENDS Integers, FiniteSets

CONSTANTS
    Null,        \* no value
    Coupons,     \* rows of user_coupons
    VipCoupons,  \* those of type vip_subscription, which make the buyer a VIP; a
                 \* booking can be paid with them all the same
    Codes,       \* referral codes
    Exclusive,   \* those of another referral_type than standard
    Bookings,    \* the buyer's bookings
    Places,      \* what a booking can be for
    Calls,       \* requests in progress at the same time
    Vip,         \* the membership, as a thing a booking is priced with
    Terms,       \* what each of these is worth
    Limit,       \* usage_limit of each code
    Guests,      \* adults and children who go to each place
    Fee,         \* subtotal less net: Livex's commission before discounts
    Net,         \* resort_net_cents
    MaxNamed,    \* bound: how often a request names the same coupon
    MaxUses,     \* bound: how high usage_count goes
    MaxVips      \* bound: memberships the buyer ever has

Offers == Coupons \cup Codes
Term == [percentage : BOOLEAN, value : Nat, cap : Nat, min : Nat]

ASSUME CouponsAssumption ==
    /\ IsFiniteSet(Calls)
    /\ Coupons \cap Codes = {} /\ Exclusive \subseteq Codes
    /\ Vip \notin Offers /\ Null \notin Offers \cup Bookings \cup Places
    /\ VipCoupons \subseteq Coupons
    /\ Terms \in [Offers \cup {Vip} -> Term]
    /\ Limit \in [Codes -> Nat \ {0}]
    /\ Guests \in [Places -> Nat \ {0}]
    /\ Fee \in [Places -> Nat] /\ Net \in [Places -> Nat]
    /\ MaxNamed \in Nat /\ MaxUses \in Nat /\ MaxVips \in Nat

VARIABLES
    coupon,   \* user_coupons
    code,     \* referral_codes
    booking,  \* bookings
    applied,  \* booking_coupons
    vips,     \* how many rows vip_subscriptions has
    undone,   \* history: bookings of which a confirmation was rolled back
    raced,    \* history: bookings two calls worked on at the same time
    overtaken,  \* history: bookings last changed while a call worked on them
    call      \* what each call is in the middle of

past == <<undone, raced, overtaken>>
vars == <<coupon, code, booking, applied, vips, past, call>>

-----------------------------------------------------------------------------
(* Rows *)

Opt(S) == S \cup {Null}

Coupon == [used : BOOLEAN, by : Opt(Bookings)]
Code == [count : 0 .. MaxUses]

ASSUME NullIsNoCode == Null \notin Code

Statuses == {"absent", "pending", "confirmed", "cancelled", "expired"}

\* The last three are history: what the amounts were computed for, the coupons
\* the last charge was computed with, and whether a payment confirmed it.
Booking == [status : Statuses, place : Opt(Places), commission : Nat, total : Nat,
            quote : Opt(Places), priced : SUBSET Coupons, paid : BOOLEAN]

Exists(b) == booking[b].status # "absent"

NoBooking == [status |-> "absent", place |-> Null, commission |-> 0, total |-> 0,
              quote |-> Null, priced |-> {}, paid |-> FALSE]

\* prepareBookingData: what a booking costs before discounts.
Quoted(r, p) == [r EXCEPT !.place = p, !.quote = p, !.commission = Fee[p],
                          !.total = Fee[p] + Net[p]]

Asked(p) == Quoted([NoBooking EXCEPT !.status = "pending"], p)

\* createAgentBooking: Livex takes nothing, the agent keeps the fee.
ByAgent(p) == [NoBooking EXCEPT !.status = "confirmed", !.place = p,
                                !.total = Fee[p] + Net[p]]

Confirming == {"ids", "mark", "commit"}
Steps == {"idle", "book", "vip", "price", "charge", "record", "count",
          "subscribe", "spend"} \cup Confirming

Call == [at : Steps, booking : Opt(Bookings), place : Opt(Places),
         asked : SUBSET Offers, priced : SUBSET (Offers \cup {Vip}),
         discount : Nat, offer : Opt(Offers)]

NoCall == [at |-> "idle", booking |-> Null, place |-> Null, asked |-> {},
           priced |-> {}, discount |-> 0, offer |-> Null]

At(c, step) == call[c].at = step
Idle(c) == At(c, "idle")
Return(c) == call' = [call EXCEPT ![c] = NoCall]
Busy(b) == \E c \in Calls : call[c].booking = b
Joined(b) == IF Busy(b) THEN raced \cup {b} ELSE raced

\* The booking's row is locked by the transaction that confirms it.
Locked(b) == \E c \in Calls : call[c].at \in Confirming /\ call[c].booking = b

Init ==
    /\ coupon = [k \in Coupons |-> [used |-> FALSE, by |-> Null]]
    /\ code = [k \in Codes |-> Null]
    /\ booking = [b \in Bookings |-> NoBooking]
    /\ applied = [b \in Bookings |-> {}]
    /\ vips = 0
    /\ undone = {}
    /\ raced = {}
    /\ overtaken = {}
    /\ call = [c \in Calls |-> NoCall]

\* What the rest of the system sees of the bookings.
Life == INSTANCE BookingLife WITH
    status <- [b \in Bookings |-> booking[b].status],
    place <- [b \in Bookings |-> booking[b].place]

-----------------------------------------------------------------------------
(* Referral codes *)

\* createReferralCode, createPartnerReferralCode; the code is unique.
CreateReferralCode(k) ==
    /\ code[k] = Null
    /\ code' = [code EXCEPT ![k] = [count |-> 0]]
    /\ UNCHANGED <<coupon, booking, applied, vips, past, call>>

-----------------------------------------------------------------------------
(* Pricing a booking *)

\* Too small a purchase; one of nothing is not looked at.
MinimumMet(k, p) == Fee[p] = 0 \/ Terms[k].min <= Fee[p]

\* validateUserCoupon: of whatever type it is.
ValidCoupon(k, p) == ~coupon[k].used /\ MinimumMet(k, p)

\* Mutation: the last use is allowed twice.
BelowLimitOrAt(k) == code[k].count <= Limit[k]

BelowLimit(k) == code[k].count < Limit[k]

Usable(k) == code[k] # Null /\ BelowLimit(k)

\* validateReferralCode; restrictions are in MinimumMet's place.
ValidCode(k, p) == Usable(k) /\ MinimumMet(k, p)

\* A percentage is in hundredths of a percent and capped; a fixed discount is
\* given to each guest, and its cap is not looked at.
Discount(k, p) ==
    LET t == Terms[k]
        part == (Fee[p] * t.value) \div 10000
    IN  IF ~t.percentage THEN t.value * Guests[p]
        ELSE IF t.cap # 0 /\ k # Vip /\ part > t.cap THEN t.cap ELSE part

\* calculateDiscounts: no exclusive code beside a membership or a coupon.
Stackable(k, asked, priced) ==
    k \in Exclusive => Vip \notin priced /\ asked \cap Coupons = {}

\* applyCouponsToBooking: reads the pending booking, and what it is for.
Apply(c, b, asked) ==
    /\ Idle(c)
    /\ booking[b].status = "pending"
    /\ Cardinality(asked \cap Codes) <= 1
    /\ call' = [call EXCEPT ![c] = [NoCall EXCEPT
         !.at = "vip", !.booking = b, !.place = booking[b].place, !.asked = asked]]
    /\ raced' = Joined(b)
    /\ UNCHANGED <<coupon, code, booking, applied, vips, undone, overtaken>>

Priced(r, k, n) ==
    [r EXCEPT !.priced = @ \cup {k}, !.discount = @ + n * Discount(k, r.place)]

\* getVipStatus; each membership there is may have expired.
CheckVip(c) ==
    LET r == [call[c] EXCEPT !.at = "price"] IN
    /\ At(c, "vip")
    /\ \/ vips > 0 /\ call' = [call EXCEPT ![c] = Priced(r, Vip, 1)]
       \/ call' = [call EXCEPT ![c] = r]
    /\ UNCHANGED <<coupon, code, booking, applied, vips, past>>

\* The code first, then one coupon after the other; what is not valid ends
\* the call with an error.  fresh: it is active and has not expired yet; n:
\* how often the request names it, each time discounted again.
Price(c, k, fresh, n) ==
    LET r == call[c] IN
    /\ At(c, "price")
    /\ k \in r.asked \ r.priced
    /\ k \in Coupons => r.asked \cap Codes \subseteq r.priced
    /\ k \in Codes => n = 1
    /\ call' = [call EXCEPT ![c] =
         IF /\ fresh
            /\ \/ k \in Codes /\ ValidCode(k, r.place) /\ Stackable(k, r.asked, r.priced)
               \/ k \in Coupons /\ ValidCoupon(k, r.place)
         THEN Priced(r, k, n)
         ELSE NoCall]
    /\ UNCHANGED <<coupon, code, booking, applied, vips, past>>

\* Mutation: the rows of an earlier application are not deleted.
AllStay(rows) == rows

\* DELETE FROM booking_coupons
Cleared(rows) == {}

Clear(c) ==
    LET b == call[c].booking IN
    /\ At(c, "price")
    /\ call[c].asked \subseteq call[c].priced
    /\ applied' = [applied EXCEPT ![b] = Cleared(@)]
    /\ call' = [call EXCEPT ![c].at = "charge"]
    /\ UNCHANGED <<coupon, code, booking, vips, past>>

\* Mutation: more discount than commission.
LessDiscount(fee, discount) == fee - discount

Reduced(fee, discount) == IF discount > fee THEN 0 ELSE fee - discount

\* The booking's amounts, whatever it has become and is for by now.
Charge(c) ==
    LET r == call[c]
        m == Reduced(Fee[r.place], r.discount)
    IN
    /\ At(c, "charge")
    /\ ~Locked(r.booking)
    /\ booking' = [booking EXCEPT ![r.booking] =
         [@ EXCEPT !.commission = m, !.total = m + Net[r.place],
                   !.quote = r.place, !.priced = r.priced \cap Coupons]]
    /\ call' = [call EXCEPT ![c] =
         [r EXCEPT !.at = "record", !.place = Null, !.priced = {}, !.discount = 0]]
    /\ UNCHANGED <<coupon, code, applied, vips, past>>

\* Mutation: a coupon is used up as soon as it is applied.
SpentBy(k, b) ==
    IF k \in Coupons THEN [coupon EXCEPT ![k].used = TRUE, ![k].by = b] ELSE coupon

\* Applying uses no coupon up, as the payment may still fail.
Unspent(k, b) == coupon

\* The row of each coupon in booking_coupons (only reports read a code's) ...
Record(c, k) ==
    LET r == call[c] IN
    /\ At(c, "record")
    /\ k \in r.asked
    /\ k \in Coupons => r.asked \cap Codes = {}
    /\ applied' = [applied EXCEPT ![r.booking] = @ \cup ({k} \cap Coupons)]
    /\ coupon' = Unspent(k, r.booking)
    /\ call' = [call EXCEPT ![c] =
         [r EXCEPT !.asked = @ \ {k}, !.at = IF k \in Codes THEN "count" ELSE "record",
                   !.offer = IF k \in Codes THEN k ELSE Null]]
    /\ UNCHANGED <<code, booking, vips, past>>

\* ... and, for a code, its count.
CountUse(c) ==
    LET k == call[c].offer IN
    /\ At(c, "count")
    /\ code[k].count < MaxUses
    /\ code' = [code EXCEPT ![k].count = @ + 1]
    /\ call' = [call EXCEPT ![c].at = "record", ![c].offer = Null]
    /\ UNCHANGED <<coupon, booking, applied, vips, past>>

Applied(c) ==
    /\ At(c, "record")
    /\ call[c].asked = {}
    /\ Return(c)
    /\ UNCHANGED <<coupon, code, booking, applied, vips, past>>

-----------------------------------------------------------------------------
(* The rest of the system: bookings are made, changed and ended *)

\* createPendingBooking without a code, or an agent's createAgentBooking.
MakeBooking(b, p, s) ==
    /\ ~Exists(b)
    /\ booking' = [booking EXCEPT ![b] = IF s = "pending" THEN Asked(p) ELSE ByAgent(p)]
    /\ Life!Enter(b, p, s)
    /\ UNCHANGED <<coupon, code, applied, vips, past, call>>

\* insertBooking with a code: looks at the code ...
BookWithCode(c, p, k) ==
    /\ Idle(c)
    /\ Usable(k) /\ Terms[k].min <= Fee[p] + Net[p]
    /\ call' = [call EXCEPT ![c] = [NoCall EXCEPT
         !.at = "book", !.place = p, !.offer = k]]
    /\ UNCHANGED <<coupon, code, booking, applied, vips, past>>

\* ... and inserts the booking and counts the use in one transaction.
InsertBooking(c, b) ==
    LET r == call[c] IN
    /\ At(c, "book") /\ ~Exists(b)
    /\ code[r.offer].count < MaxUses
    /\ code' = [code EXCEPT ![r.offer].count = @ + 1]
    /\ booking' = [booking EXCEPT ![b] = Asked(r.place)]
    /\ Life!Enter(b, r.place, "pending")
    /\ Return(c)
    /\ UNCHANGED <<coupon, applied, vips, past>>

\* updatePendingBooking: new amounts; the rows of its coupons stay.
UpdateBooking(b, p) ==
    /\ booking[b].status = "pending" /\ ~Locked(b)
    /\ booking' = [booking EXCEPT ![b] = Quoted(@, p)]
    /\ Life!Change(b, p)
    /\ overtaken' = IF Busy(b) THEN overtaken \cup {b} ELSE overtaken \ {b}
    /\ UNCHANGED <<coupon, code, applied, vips, undone, raced, call>>

Become(B, s) ==
    /\ \A b \in B : Exists(b) /\ ~Locked(b)
    /\ booking' = [b \in Bookings |->
         IF b \in B THEN [booking[b] EXCEPT !.status = s] ELSE booking[b]]
    /\ UNCHANGED <<coupon, code, applied, vips, past, call>>

\* cancelPendingBooking, confirmPendingBooking and the reconciliation.
DecideBooking(b, s) == Become({b}, s) /\ Life!Decide(b, s)

\* The batch of the sweep.
ExpireBookings(B) == Become(B, "expired") /\ Life!Expire(B)

\* Once its payment is settled.
CancelBooking(b) == Become({b}, "cancelled") /\ Life!Cancel(b)

-----------------------------------------------------------------------------
(* The payment's webhook: confirmBookingPayment *)

ConfirmBooking(c, b) ==
    /\ Idle(c)
    /\ Exists(b)
    /\ ~Locked(b)
    /\ call' = [call EXCEPT ![c] = [NoCall EXCEPT !.at = "ids", !.booking = b]]
    /\ raced' = Joined(b)
    /\ UNCHANGED <<coupon, code, booking, applied, vips, undone, overtaken>>

\* markCouponsUsedForBooking: the coupons of the booking ...
ReadCoupons(c) ==
    /\ At(c, "ids")
    /\ call' = [call EXCEPT ![c].at = "mark",
                            ![c].asked = applied[call[c].booking]]
    /\ UNCHANGED <<coupon, code, booking, applied, vips, past>>

\* ... are used from now on, whether or not the transaction will commit.
MarkUsed(c) ==
    /\ At(c, "mark")
    /\ coupon' = [k \in DOMAIN coupon |->
         IF k \in call[c].asked
         THEN [coupon[k] EXCEPT !.used = TRUE, !.by = call[c].booking]
         ELSE coupon[k]]
    /\ call' = [call EXCEPT ![c].at = "commit"]
    /\ UNCHANGED <<code, booking, applied, vips, past>>

\* An error in either is only logged.
MarkFails(c) ==
    /\ At(c, "ids") \/ At(c, "mark")
    /\ call' = [call EXCEPT ![c].at = "commit", ![c].asked = {}]
    /\ UNCHANGED <<coupon, code, booking, applied, vips, past>>

Commit(c) ==
    /\ At(c, "commit")
    /\ booking' = [booking EXCEPT ![call[c].booking].status = "confirmed",
                                  ![call[c].booking].paid = TRUE]
    /\ Return(c)
    /\ UNCHANGED <<coupon, code, applied, vips, past>>

-----------------------------------------------------------------------------
(* The membership *)

\* activateVipCoupon: reads the coupon and the membership, which, if there is
\* one, has expired; then the new membership, then the coupon's mark.
ActivateVip(c, k) ==
    /\ Idle(c)
    /\ ~coupon[k].used
    /\ call' = [call EXCEPT ![c] = [NoCall EXCEPT !.at = "subscribe", !.offer = k]]
    /\ UNCHANGED <<coupon, code, booking, applied, vips, past>>

Subscribe(c) ==
    /\ At(c, "subscribe")
    /\ vips < MaxVips
    /\ vips' = vips + 1
    /\ call' = [call EXCEPT ![c].at = "spend"]
    /\ UNCHANGED <<coupon, code, booking, applied, past>>

SpendVipCoupon(c) ==
    /\ At(c, "spend")
    /\ coupon' = [coupon EXCEPT ![call[c].offer].used = TRUE]
    /\ Return(c)
    /\ UNCHANGED <<code, booking, applied, vips, past>>

-----------------------------------------------------------------------------
(* Calls that are cut short *)

\* A confirmation that ends early is rolled back, but for the coupons' marks.
Crash(c) ==
    /\ ~Idle(c)
    /\ Return(c)
    /\ undone' = IF At(c, "commit") THEN undone \cup {call[c].booking} ELSE undone
    /\ UNCHANGED <<coupon, code, booking, applied, vips, raced, overtaken>>

Step(c) ==
    \/ \E b \in Bookings : \E asked \in SUBSET Offers : Apply(c, b, asked)
    \/ CheckVip(c) \/ Clear(c) \/ Charge(c) \/ CountUse(c) \/ Applied(c)
    \/ \E k \in Offers : Record(c, k)
    \/ \E k \in Offers : \E fresh \in BOOLEAN : \E n \in 1 .. MaxNamed : Price(c, k, fresh, n)
    \/ \E p \in Places : \E k \in Codes : BookWithCode(c, p, k)
    \/ \E b \in Bookings : InsertBooking(c, b)
    \/ \E b \in Bookings : ConfirmBooking(c, b)
    \/ ReadCoupons(c) \/ MarkUsed(c) \/ MarkFails(c) \/ Commit(c)
    \/ \E k \in VipCoupons : ActivateVip(c, k)
    \/ Subscribe(c) \/ SpendVipCoupon(c)
    \/ Crash(c)

Next ==
    \/ \E c \in Calls : Step(c)
    \/ \E k \in Codes : CreateReferralCode(k)
    \/ \E b \in Bookings : \E p \in Places : \E s \in {"pending", "confirmed"} :
          MakeBooking(b, p, s)
    \/ \E b \in Bookings : \E p \in Places : UpdateBooking(b, p)
    \/ \E b \in Bookings : \E s \in {"confirmed", "cancelled"} : DecideBooking(b, s)
    \/ \E B \in SUBSET Bookings \ {{}} : ExpireBookings(B)
    \/ \E b \in Bookings : CancelBooking(b)

Spec == Init /\ [][Next]_vars

-----------------------------------------------------------------------------
(* Properties *)

\* The tables and the calls hold rows and requests of their kinds.
TypeOK ==
    /\ coupon \in [Coupons -> Coupon]
    /\ code \in [Codes -> Opt(Code)]
    /\ booking \in [Bookings -> Booking]
    /\ applied \in [Bookings -> SUBSET Coupons]
    /\ vips \in 0 .. MaxVips
    /\ undone \subseteq Bookings /\ raced \subseteq Bookings /\ overtaken \subseteq Bookings
    /\ call \in [Calls -> Call]

\* However many discounts are applied, by however many calls at a time, a
\* booking costs the resort's net and a commission between nothing and the
\* original one; those of what it is for, unless it was changed while a
\* payment was pricing it (applyCouponsToBooking, updatePendingBooking).
ResortGetsItsNet ==
    \A b \in Bookings :
       LET r == booking[b] IN
       IF r.quote = Null THEN r.commission = 0
       ELSE /\ r.total = r.commission + Net[r.quote]
            /\ r.commission \in 0 .. Fee[r.quote]
            /\ r.quote = r.place \/ b \in overtaken

\* usage_limit can be exceeded by the calls that were under way when the last
\* use was counted, and by no more (validateReferralCode, then the increment).
LimitUpToCalls ==
    \A k \in Codes :
       code[k] # Null => code[k].count < Limit[k] + Cardinality(Calls)

\* A coupon is used up by a booking that a payment has confirmed, is just
\* confirming, or whose confirmation was rolled back after the mark; a VIP
\* coupon by none, too, when it made a membership.
UsedWasConfirmed ==
    \A k \in Coupons :
       coupon[k].used =>
          \/ k \in VipCoupons /\ coupon[k].by = Null
          \/ booking[coupon[k].by].paid
          \/ coupon[k].by \in undone
          \/ \E c \in Calls : At(c, "commit") /\ call[c].booking = coupon[k].by

\* No coupon is used up by a booking whose last charge was computed without
\* it, unless two requests for the booking overlapped or its confirmation was
\* rolled back: the rows that an application leaves are those of the amounts
\* it has written (applyCouponsToBooking, markCouponsUsedForBooking).
UsedWasPriced ==
    \A k \in Coupons :
       coupon[k].used /\ coupon[k].by \notin raced \cup undone \cup {Null} =>
          k \in booking[coupon[k].by].priced

=============================================================================
