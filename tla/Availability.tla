---------------------------- MODULE Availability ----------------------------
(***************************************************************************)
(* The slots of an experience: AvailabilityService and availability_slots. *)
(*                                                                         *)
(* Every statement commits by itself.  createSlot looks for overlapping    *)
(* slots in one statement and inserts in the next; deleteSlot counts       *)
(* bookings in one and deletes in the next; the bulk creations do the      *)
(* first for every date and every configured time.  Time is counted in     *)
(* hours.  Experiences stay; the bookings do what module BookingLife lets  *)
(* them do, what they are for being the slot.                              *)
(***************************************************************************)
EXTENDS Integers, Sequences, FiniteSets

CONSTANTS
    Null,         \* no value
    Experiences,  \* ids of rows of experiences
    Slots,        \* ids of rows of availability_slots
    Reservations, \* ids of rows of bookings
    Calls,        \* requests in progress at the same time
    Capacities,   \* the capacities single slots are made with
    Day,          \* hours of a day
    Week,         \* days of a week
    MaxDays,      \* the longest range of dates of a block
    Horizon,      \* bound: the last hour of a single slot
    Ticks,        \* bound: how many hours pass
    BulkRequests  \* the bulk requests made: each a sequence of blocks

\* What bulkCreateMultiBlock gets; bulkCreateSlots gets one block.  No capacity
\* is a capacity of 0.
TimeSlotConfig == [from : 0 .. Day - 1, to : 0 .. Day - 1, days : SUBSET (0 .. Week - 1),
                   capacity : Nat]
Block == [first : Nat, last : Nat, capacity : Nat, slots : Seq(TimeSlotConfig)]

ASSUME AvailabilityAssumption ==
    /\ Null \notin Slots \cup Experiences
    /\ Capacities \subseteq Nat
    /\ Day \in Nat \ {0} /\ Week \in Nat \ {0} /\ MaxDays \in Nat /\ Horizon \in Nat /\ Ticks \in Nat
    /\ BulkRequests \subseteq Seq(Block)

VARIABLES
    slot,     \* availability_slots
    used,     \* history: the ids given to slots, none of them twice
    booking,  \* bookings
    call,     \* what each call is in the middle of
    now       \* the hour

vars == <<slot, used, booking, call, now>>

-----------------------------------------------------------------------------
(* Rows, and what is asked of them *)

Opt(S) == S \cup {Null}

\* missed is history: the slots inserted after its call had looked for overlaps.
Slot == [experience : Experiences, from : Int, to : Int, capacity : Nat,
         missed : SUBSET Slots]

Statuses == {"pending", "confirmed", "cancelled", "expired"}

\* A lost booking was deleted with its slot; raced is history: whether the
\* slot was being deleted when the booking was made for it.
Reservation == [slot : Slots, status : Statuses, lost : BOOLEAN, raced : BOOLEAN]

ASSUME NullIsNoReservation == Null \notin Reservation

Steps == {"idle", "check", "insert", "next", "existing", "delete"}

\* todo: the blocks of a bulk call; block and item: how far it got; mine is
\* history: the slots it made.
Call == [at : Steps, experience : Opt(Experiences), from : Int, to : Int,
         capacity : Nat, missed : SUBSET Slots, slot : Opt(Slots),
         todo : Seq(Block), block : Nat, item : Nat,
         created : Nat, skipped : Nat, errors : Nat,
         mine : SUBSET Slots]

NoCall == [at |-> "idle", experience |-> Null, from |-> 0, to |-> 0,
           capacity |-> 0, missed |-> {}, slot |-> Null,
           todo |-> <<>>, block |-> 0, item |-> 0,
           created |-> 0, skipped |-> 0, errors |-> 0,
           mine |-> {}]

Existing == {s \in Slots : slot[s] # Null}
SlotsOf(e) == {s \in Existing : slot[s].experience = e}
Here(b) == booking[b] # Null /\ ~booking[b].lost
BookingsOf(s) == {b \in Reservations : Here(b) /\ booking[b].slot = s}

\* What the rest of the system sees of the bookings.
Life == INSTANCE BookingLife WITH
    Bookings <- Reservations, Places <- Slots,
    status <- [b \in Reservations |-> IF booking[b] = Null THEN "absent" ELSE booking[b].status],
    place <- [b \in Reservations |-> IF booking[b] = Null THEN Null ELSE booking[b].slot]

\* Mutation: only a slot that covers the new one's start is found.
OverlapsStart(s1, e1, s2, e2) == s1 <= s2 /\ e1 > s2

\* checkForOverlappingSlots: a row from s1 to e1 is in the way of one from s2
\* to e2.
Overlaps(s1, e1, s2, e2) ==
    \/ s1 <= s2 /\ e1 > s2
    \/ s1 < e2 /\ e1 >= e2
    \/ s1 >= s2 /\ e1 <= e2

Overlapping(e, from, to) ==
    {s \in SlotsOf(e) : Overlaps(slot[s].from, slot[s].to, from, to)}

\* validateTimeRange: a day at most, and from the next hour on.
ValidTimeRange(from, to) == from < to /\ to - from <= Day /\ from >= now + 1

\* validateDateRange and validateSlotsConfiguration
ValidBlock(b) ==
    /\ b.first <= b.last /\ b.last - b.first <= MaxDays
    /\ b.slots # <<>>
    /\ \A i \in DOMAIN b.slots : b.slots[i].from < b.slots[i].to

At(c, step) == call[c].at = step
Idle(c) == At(c, "idle")
Bulk(c) == call[c].todo # <<>>

Init ==
    /\ slot = [s \in Slots |-> Null]
    /\ used = {}
    /\ booking = [b \in Reservations |-> Null]
    /\ call = [c \in Calls |-> NoCall]
    /\ now = 0

-----------------------------------------------------------------------------
(* One slot *)

\* createSlot
CreateSlot(c, e, from, to, capacity) ==
    /\ Idle(c)
    /\ ValidTimeRange(from, to)
    /\ call' = [call EXCEPT ![c] = [NoCall EXCEPT
         !.at = "check", !.experience = e, !.from = from, !.to = to,
         !.capacity = capacity]]
    /\ UNCHANGED <<slot, used, booking, now>>

\* Mutation: a slot that could not be created counts as created.
FailedCounted(r) ==
    IF r.todo # <<>> THEN [r EXCEPT !.at = "next", !.missed = {}, !.created = @ + 1]
                     ELSE NoCall

\* createSlot throws: a bulk call counts the error and goes on.
Failed(r) ==
    IF r.todo # <<>> THEN [r EXCEPT !.at = "next", !.missed = {}, !.errors = @ + 1]
                     ELSE NoCall

CheckOverlap(c) ==
    LET r == call[c] IN
    /\ At(c, "check")
    /\ call' = [call EXCEPT ![c] =
         IF Overlapping(r.experience, r.from, r.to) = {}
         THEN [r EXCEPT !.at = "insert"]
         ELSE Failed(r)]
    /\ UNCHANGED <<slot, used, booking, now>>

\* The calls that are about to insert have missed slot s.
Missing(s) ==
    [c \in Calls |-> IF At(c, "insert") THEN [call[c] EXCEPT !.missed = @ \cup {s}]
                                        ELSE call[c]]

\* The row may be there and the answer lost: then the slot counts as an error.
InsertSlot(c) ==
    LET r == call[c] IN
    /\ At(c, "insert")
    /\ \E s \in Slots \ used :
         /\ used' = used \cup {s}
         /\ slot' = [slot EXCEPT ![s] =
              [experience |-> r.experience, from |-> r.from, to |-> r.to,
               capacity |-> r.capacity, missed |-> r.missed]]
         /\ LET made == [r EXCEPT !.at = "next", !.missed = {}, !.created = @ + 1,
                                  !.mine = @ \cup {s}]
                lost == Failed([r EXCEPT !.mine = @ \cup {s}])
            IN  \E after \in {IF Bulk(c) THEN made ELSE NoCall, lost} :
                   call' = [Missing(s) EXCEPT ![c] = after]
    /\ UNCHANGED <<booking, now>>

\* Any other error of the database while one slot is looked up or made.
SlotFails(c) ==
    /\ call[c].at \in {"existing", "check", "insert"}
    /\ call' = [call EXCEPT ![c] = Failed(call[c])]
    /\ UNCHANGED <<slot, used, booking, now>>

-----------------------------------------------------------------------------
(* Many slots: for each block, for each date, for each configured time *)

\* The n-th turn of the two inner loops over block b.
Turns(b) == (b.last - b.first + 1) * Len(b.slots)
DateOf(b, n) == b.first + ((n - 1) \div Len(b.slots))
ConfigOf(b, n) == b.slots[1 + ((n - 1) % Len(b.slots))]
Applies(b, n) == DateOf(b, n) % Week \in ConfigOf(b, n).days

\* Mutation: a seat is kept back, and nothing is the default.
CapacityOfBlock(b, n) ==
    IF ConfigOf(b, n).capacity # 0 THEN ConfigOf(b, n).capacity ELSE b.capacity - 1

\* slotConfig.capacity || bulkCreateDto.capacity || 10
CapacityOf(b, n) ==
    IF ConfigOf(b, n).capacity # 0 THEN ConfigOf(b, n).capacity
    ELSE IF b.capacity # 0 THEN b.capacity ELSE 10

BulkCreate(c, e, request) ==
    /\ Idle(c)
    /\ call' = [call EXCEPT ![c] = [NoCall EXCEPT
                  !.at = "next", !.experience = e, !.todo = request]]
    /\ UNCHANGED <<slot, used, booking, now>>

\* The loops' heads.  A block that is not valid ends the whole call with an
\* error; what the blocks before it made stays.
NextTurn(c) ==
    LET r == call[c]
        b == r.todo[r.block]
        n == r.item + 1
    IN
    /\ At(c, "next")
    /\ call' = [call EXCEPT ![c] =
         IF r.block > 0 /\ n <= Turns(b)
         THEN IF Applies(b, n)
              THEN [r EXCEPT !.at = "existing", !.item = n,
                      !.from = DateOf(b, n) * Day + ConfigOf(b, n).from,
                      !.to = DateOf(b, n) * Day + ConfigOf(b, n).to,
                      !.capacity = CapacityOf(b, n)]
              ELSE [r EXCEPT !.item = n]
         ELSE IF r.block < Len(r.todo) /\ ValidBlock(r.todo[r.block + 1])
              THEN [r EXCEPT !.block = @ + 1, !.item = 0]
              ELSE NoCall]
    /\ UNCHANGED <<slot, used, booking, now>>

\* findExistingSlot, then createSlot's validation.
FindExistingSlot(c) ==
    LET r == call[c] IN
    /\ At(c, "existing")
    /\ call' = [call EXCEPT ![c] =
         IF \E s \in SlotsOf(r.experience) : slot[s].from = r.from /\ slot[s].to = r.to
         THEN [r EXCEPT !.at = "next", !.skipped = @ + 1]
         ELSE IF ValidTimeRange(r.from, r.to)
              THEN [r EXCEPT !.at = "check"]
              ELSE Failed(r)]
    /\ UNCHANGED <<slot, used, booking, now>>

-----------------------------------------------------------------------------
(* Deleting a slot, and the bookings that come and go meanwhile *)

\* Mutation: only the bookings that still hold seats are counted.
CanDeleteUnheld(s) ==
    {b \in BookingsOf(s) : booking[b].status \in {"pending", "confirmed"}} = {}

\* Bookings of any status are counted.
CanDelete(s) == BookingsOf(s) = {}

DeleteSlot(c, s) ==
    /\ Idle(c)
    /\ s \in Existing
    /\ CanDelete(s)
    /\ call' = [call EXCEPT ![c] = [NoCall EXCEPT !.at = "delete", !.slot = s]]
    /\ UNCHANGED <<slot, used, booking, now>>

\* The delete takes the slot's bookings with it (ON DELETE CASCADE).
DeleteRow(c) ==
    LET s == call[c].slot IN
    /\ At(c, "delete")
    /\ slot' = [slot EXCEPT ![s] = Null]
    /\ booking' = [b \in Reservations |->
                     IF b \in BookingsOf(s) THEN [booking[b] EXCEPT !.lost = TRUE]
                                            ELSE booking[b]]
    /\ call' = [call EXCEPT ![c] = NoCall]
    /\ UNCHANGED <<used, now>>

BeingDeleted(s) == \E c \in Calls : At(c, "delete") /\ call[c].slot = s

\* The row of a booking refers to a slot that is there (slot_id).
Book(b, s, st) ==
    /\ booking[b] = Null
    /\ s \in Existing
    /\ booking' = [booking EXCEPT ![b] =
         [slot |-> s, status |-> st, lost |-> FALSE, raced |-> BeingDeleted(s)]]
    /\ Life!Enter(b, s, st)
    /\ UNCHANGED <<slot, used, call, now>>

\* updatePendingBooking moves a booking to another slot.
Rebook(b, s) ==
    /\ Here(b) /\ booking[b].slot # s
    /\ s \in Existing
    /\ booking' = [booking EXCEPT ![b] = [@ EXCEPT !.slot = s, !.raced = BeingDeleted(s)]]
    /\ Life!Change(b, s)
    /\ UNCHANGED <<slot, used, call, now>>

\* Bookings are confirmed, cancelled and expired.
Become(B, st) ==
    /\ \A b \in B : Here(b)
    /\ booking' = [b \in Reservations |->
                     IF b \in B THEN [booking[b] EXCEPT !.status = st] ELSE booking[b]]
    /\ Life!Next
    /\ UNCHANGED <<slot, used, call, now>>

Tick ==
    /\ now < Ticks
    /\ now' = now + 1
    /\ UNCHANGED <<slot, used, booking, call>>

Crash(c) ==
    /\ ~Idle(c)
    /\ call' = [call EXCEPT ![c] = NoCall]
    /\ UNCHANGED <<slot, used, booking, now>>

Step(c) ==
    \/ \E e \in Experiences : \E from, to \in 0 .. Horizon : \E n \in Capacities :
          CreateSlot(c, e, from, to, n)
    \/ CheckOverlap(c) \/ InsertSlot(c) \/ SlotFails(c)
    \/ \E e \in Experiences : \E request \in BulkRequests : BulkCreate(c, e, request)
    \/ NextTurn(c) \/ FindExistingSlot(c)
    \/ \E s \in Slots : DeleteSlot(c, s)
    \/ DeleteRow(c)
    \/ Crash(c)

Next ==
    \/ \E c \in Calls : Step(c)
    \/ \E b \in Reservations : \E s \in Slots : \E st \in {"pending", "confirmed"} : Book(b, s, st)
    \/ \E b \in Reservations : \E s \in Slots : Rebook(b, s)
    \/ \E B \in SUBSET Reservations : \E st \in Statuses \ {"pending"} : Become(B, st)
    \/ Tick

Spec == Init /\ [][Next]_vars

-----------------------------------------------------------------------------
(* Properties *)

\* The tables and the calls hold rows and requests of their kinds.
TypeOK ==
    /\ slot \in [Slots -> Opt(Slot)]
    /\ used \subseteq Slots /\ Existing \subseteq used
    /\ booking \in [Reservations -> Opt(Reservation)]
    /\ call \in [Calls -> Call]
    /\ now \in 0 .. Ticks

\* Two slots of an experience share an hour only if one of them was inserted by
\* a call that had looked for overlaps before the other one was there, be it a
\* single or a bulk creation (checkForOverlappingSlots, and its SQL predicate).
\* AVAILABILITY_SYSTEM.md (79-82) has no such exception: it describes a table
\* with CONSTRAINT no_overlapping_slots EXCLUDE USING gist, which the schema
\* (db/init/010_schema.sql) does not have.
OverlapsWereConcurrent ==
    \A s, t \in Existing :
       /\ s # t
       /\ slot[s].experience = slot[t].experience
       /\ slot[s].from < slot[t].to /\ slot[t].from < slot[s].to
       => s \in slot[t].missed \/ t \in slot[s].missed

\* A booking is only ever deleted with its slot if it was made, or moved there,
\* while the slot was being deleted: one that was there before, whatever has
\* become of it, keeps its slot (deleteSlot).
LostWasRaced ==
    \A b \in Reservations :
       booking[b] # Null /\ booking[b].lost => booking[b].raced

\* What a bulk creation reports adds up, whatever failed on the way: every time
\* that applies is counted once, a slot counted as created is there, and one
\* that was made without a word of it is among the errors (bulkCreateSlots).
BulkAddsUp ==
    \A c \in Calls :
       LET r == call[c]
           Done(b) == IF b < r.block THEN Turns(r.todo[b])
                      ELSE IF r.at = "next" THEN r.item ELSE r.item - 1
       IN  Bulk(c) =>
           /\ r.created <= Cardinality(r.mine)
           /\ Cardinality(r.mine) <= r.created + r.errors
           /\ r.created + r.skipped + r.errors =
                Cardinality(UNION {{<<b, n>> : n \in {m \in 1 .. Done(b) : Applies(r.todo[b], m)}}
                                     : b \in 1 .. r.block})

=============================================================================
