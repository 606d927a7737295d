------------------------- MODULE AvailabilityProofs -------------------------
(***************************************************************************)
(* Availability keeps its promises for any number of experiences, slots,   *)
(* bookings and calls, and any bulk requests.  What each step makes of its *)
(* call comes first, then the invariants.                                  *)
(***************************************************************************)
EXTENDS Availability, FiniteSetTheorems, TLAPS

Making == {"next", "existing", "check", "insert"}

\* The bulk call is busy with a time that applies.
OnTurn(r) ==
    /\ r.at \in {"existing", "check", "insert"}
    /\ r.block > 0 /\ r.item > 0 /\ Applies(r.todo[r.block], r.item)

\* How far a call has got.
Fits(r) ==
    /\ r.at \in Making => r.experience \in Experiences
    /\ r.at = "delete" => r.slot \in Slots
    /\ r.block \in 0 .. Len(r.todo)
    /\ r.block = 0 => r.item = 0
    /\ r.block > 0 => r.item <= Turns(r.todo[r.block])
    /\ r.at = "existing" => r.todo # <<>>
    /\ r.todo # <<>> /\ r.at # "next" => OnTurn(r)

CallsFit == \A c \in Calls : Fits(call[c])

Typed == TypeOK /\ CallsFit

-----------------------------------------------------------------------------
(* Numbers *)

LEMMA DivMod ==
    \A n \in Nat, m \in Nat \ {0} : n % m \in 0 .. m - 1 /\ n \div m \in Nat
OBVIOUS

LEMMA Times == \A n, m \in Nat : n * m \in Nat
OBVIOUS

LEMMA BlockFields ==
    ASSUME NEW b \in Block
    PROVE  /\ b.first \in Nat /\ b.last \in Nat /\ b.capacity \in Nat
           /\ b.slots \in Seq(TimeSlotConfig) /\ Len(b.slots) \in Nat
           /\ Turns(b) \in Int
BY DEF Block, Turns

(* The turn of a block, its date and its time.                             *)
LEMMA TurnTyped ==
    ASSUME NEW b \in Block, NEW n \in Nat \ {0}, n <= Turns(b)
    PROVE  /\ DateOf(b, n) \in Nat
           /\ ConfigOf(b, n) \in TimeSlotConfig
           /\ CapacityOf(b, n) \in Nat
<1>1. /\ b.first \in Nat /\ b.last \in Nat /\ b.capacity \in Nat /\ b.slots \in Seq(TimeSlotConfig)
      /\ Len(b.slots) \in Nat
  BY BlockFields
<1>2. PICK L \in Nat : L = Len(b.slots)
  BY <1>1
<1>3. L # 0
  <2>1. (b.last - b.first + 1) * 0 = 0
    BY <1>1
  <2> QED
    BY <1>2, <2>1 DEF Turns
<1>4. (n - 1) % L \in 0 .. L - 1 /\ (n - 1) \div L \in Nat
  <2>1. n - 1 \in Nat
    OBVIOUS
  <2> QED
    BY <1>3, <2>1, DivMod
<1>5. PICK i \in 1 .. L : i = 1 + ((n - 1) % L)
  BY <1>4
<1>6. PICK d \in Nat : d = (n - 1) \div L
  BY <1>4
<1>7. DateOf(b, n) \in Nat
  <2>1. DateOf(b, n) = b.first + d
    BY <1>2, <1>6 DEF DateOf
  <2> QED
    BY <1>1, <2>1
<1>8. ConfigOf(b, n) \in TimeSlotConfig
  <2>1. ConfigOf(b, n) = b.slots[i]
    BY <1>2, <1>5 DEF ConfigOf
  <2>2. b.slots[i] \in TimeSlotConfig
    BY <1>1, <1>2
  <2> QED
    BY <2>1, <2>2
<1>9. ConfigOf(b, n).capacity \in Nat
  BY <1>8 DEF TimeSlotConfig
<1> QED
  BY <1>1, <1>7, <1>8, <1>9 DEF CapacityOf

-----------------------------------------------------------------------------
(* What each step makes of its call *)

LEMMA CallFields ==
    ASSUME NEW r \in Call
    PROVE  /\ r.at \in Steps /\ r.experience \in Opt(Experiences) /\ r.from \in Int /\ r.to \in Int
           /\ r.capacity \in Nat /\ r.missed \subseteq Slots /\ r.slot \in Opt(Slots)
           /\ r.todo \in Seq(Block) /\ r.block \in Nat /\ r.item \in Nat /\ r.created \in Nat
           /\ r.skipped \in Nat /\ r.errors \in Nat /\ r.mine \subseteq Slots
BY DEF Call

LEMMA CallTyped ==
    \A r \in Call :
        /\ \A v \in Steps : [r EXCEPT !.at = v] \in Call
        /\ \A v \in Opt(Experiences) : [r EXCEPT !.experience = v] \in Call
        /\ \A v \in Int : [r EXCEPT !.from = v] \in Call /\ [r EXCEPT !.to = v] \in Call
        /\ \A v \in SUBSET Slots : [r EXCEPT !.missed = v] \in Call /\ [r EXCEPT !.mine = v] \in Call
        /\ \A v \in Opt(Slots) : [r EXCEPT !.slot = v] \in Call
        /\ \A v \in Seq(Block) : [r EXCEPT !.todo = v] \in Call
        /\ \A v \in Nat : /\ [r EXCEPT !.capacity = v] \in Call /\ [r EXCEPT !.block = v] \in Call
                          /\ [r EXCEPT !.item = v] \in Call /\ [r EXCEPT !.created = v] \in Call
                          /\ [r EXCEPT !.skipped = v] \in Call /\ [r EXCEPT !.errors = v] \in Call
<1> TAKE r \in Call
<1>1. \A v \in Steps : [r EXCEPT !.at = v] \in Call
  BY SMTT(30) DEF Call
<1>2. \A v \in Opt(Experiences) : [r EXCEPT !.experience = v] \in Call
  BY SMTT(30) DEF Call
<1>3. \A v \in Int : [r EXCEPT !.from = v] \in Call
  BY SMTT(30) DEF Call
<1>4. \A v \in Int : [r EXCEPT !.to = v] \in Call
  BY SMTT(30) DEF Call
<1>5. \A v \in SUBSET Slots : [r EXCEPT !.missed = v] \in Call
  BY SMTT(30) DEF Call
<1>6. \A v \in SUBSET Slots : [r EXCEPT !.mine = v] \in Call
  BY SMTT(30) DEF Call
<1>7. \A v \in Opt(Slots) : [r EXCEPT !.slot = v] \in Call
  BY SMTT(30) DEF Call
<1>8. \A v \in Seq(Block) : [r EXCEPT !.todo = v] \in Call
  BY SMTT(120) DEF Call
<1>9. \A v \in Nat : [r EXCEPT !.capacity = v] \in Call
  BY SMTT(30) DEF Call
<1>10. \A v \in Nat : [r EXCEPT !.block = v] \in Call
  BY SMTT(30) DEF Call
<1>11. \A v \in Nat : [r EXCEPT !.item = v] \in Call
  BY SMTT(30) DEF Call
<1>12. \A v \in Nat : [r EXCEPT !.created = v] \in Call
  BY SMTT(30) DEF Call
<1>13. \A v \in Nat : [r EXCEPT !.skipped = v] \in Call
  BY SMTT(30) DEF Call
<1>14. \A v \in Nat : [r EXCEPT !.errors = v] \in Call
  BY SMTT(30) DEF Call
<1> QED
  BY ONLY <1>1, <1>2, <1>3, <1>4, <1>5, <1>6, <1>7, <1>8, <1>9, <1>10, <1>11, <1>12, <1>13, <1>14

LEMMA NoCallTyped ==
    /\ NoCall \in Call /\ Fits(NoCall)
    /\ NoCall.at = "idle" /\ NoCall.todo = <<>> /\ NoCall.mine = {} /\ NoCall.missed = {}
<1>1. <<>> \in Seq(Block) /\ Len(<<>>) = 0
  OBVIOUS
<1>2. NoCall \in Call
  BY <1>1 DEF NoCall, Call, Steps, Opt
<1> QED
  BY <1>1, <1>2 DEF NoCall, Fits, Making

\* What a creation of one slot, or of many, begins with.
Single(e, from, to, capacity) ==
    [NoCall EXCEPT !.at = "check", !.experience = e, !.from = from, !.to = to,
                   !.capacity = capacity]

Many(e, q) == [NoCall EXCEPT !.at = "next", !.experience = e, !.todo = q]

LEMMA CreateSlotCall ==
    ASSUME NEW e \in Experiences, NEW from \in Nat, NEW to \in Nat, NEW capacity \in Nat
    PROVE  \E n \in Call : n = Single(e, from, to, capacity) /\ Fits(n) /\ n.at = "check"
<1> DEFINE n == [NoCall EXCEPT !.at = "check", !.experience = e, !.from = from, !.to = to,
                               !.capacity = capacity]
<1>1. n \in Call
  <2>1. "check" \in Steps /\ e \in Opt(Experiences) /\ from \in Int /\ to \in Int /\ capacity \in Nat
    BY DEF Steps, Opt
  <2>2. [NoCall EXCEPT !.at = "check"] \in Call
    BY <2>1, NoCallTyped, CallTyped
  <2>3. [NoCall EXCEPT !.at = "check", !.experience = e] \in Call
    BY <2>1, <2>2, CallTyped
  <2>4. [NoCall EXCEPT !.at = "check", !.experience = e, !.from = from] \in Call
    BY <2>1, <2>3, CallTyped
  <2>5. [NoCall EXCEPT !.at = "check", !.experience = e, !.from = from, !.to = to] \in Call
    BY <2>1, <2>4, CallTyped
  <2> QED
    BY <2>1, <2>5, CallTyped
<1>2. /\ n.at = "check" /\ n.experience = e /\ n.todo = <<>> /\ n.block = 0 /\ n.item = 0
      /\ n.mine = {}
  BY DEF NoCall
<1>3. n = Single(e, from, to, capacity)
  BY DEF Single
<1> HIDE DEF n
<1>4. Fits(n)
  BY <1>2 DEF Fits, Making
<1> QED
  BY <1>1, <1>2, <1>3, <1>4

LEMMA BulkCreateCall ==
    ASSUME NEW e \in Experiences, NEW q \in Seq(Block)
    PROVE  \E n \in Call :
              /\ n = Many(e, q) /\ Fits(n) /\ n.at = "next" /\ n.todo = q /\ n.block = 0
              /\ n.item = 0 /\ n.mine = {} /\ n.created = 0 /\ n.skipped = 0 /\ n.errors = 0
<1> DEFINE n == [NoCall EXCEPT !.at = "next", !.experience = e, !.todo = q]
<1>1. n \in Call
  BY NoCallTyped, CallTyped DEF Steps, Opt
<1>2. /\ n.at = "next" /\ n.experience = e /\ n.todo = q /\ n.block = 0 /\ n.item = 0
      /\ n.mine = {} /\ n.created = 0 /\ n.skipped = 0 /\ n.errors = 0
  BY DEF NoCall
<1>3. n = Many(e, q)
  BY DEF Many
<1> HIDE DEF n
<1>4. Fits(n)
  <2>1. Len(q) \in Nat
    OBVIOUS
  <2> QED
    BY <1>2, <2>1 DEF Fits, Making
<1> QED
  BY <1>1, <1>2, <1>3, <1>4

LEMMA DeleteSlotCall ==
    ASSUME NEW s \in Slots
    PROVE  \E n \in Call :
              /\ n = [NoCall EXCEPT !.at = "delete", !.slot = s]
              /\ n.at = "delete" /\ n.slot = s /\ n.todo = <<>> /\ n.block = 0 /\ n.item = 0
              /\ n.mine = {}
<1> DEFINE n == [NoCall EXCEPT !.at = "delete", !.slot = s]
<1>1. n \in Call
  BY NoCallTyped, CallTyped DEF Steps, Opt
<1>2. /\ n.at = "delete" /\ n.slot = s /\ n.todo = <<>> /\ n.block = 0 /\ n.item = 0
      /\ n.mine = {}
  BY DEF NoCall
<1> QED
  BY <1>1, <1>2

LEMMA FailedCall ==
    ASSUME NEW r \in Call, Fits(r), r.at \in {"existing", "check", "insert"}
    PROVE  \E n \in Call : n = Failed(r) /\ Fits(n) /\ n.at \in {"idle", "next"}
<1>1. CASE r.todo # <<>>
  <2> DEFINE n == [r EXCEPT !.at = "next", !.missed = {}, !.errors = @ + 1]
  <2>1. "next" \in Steps /\ {} \in SUBSET Slots /\ r.errors + 1 \in Nat
    BY CallFields DEF Steps
  <2>2. [r EXCEPT !.at = "next"] \in Call
    BY <2>1, CallTyped
  <2>3. n \in Call
    <3>1. [r EXCEPT !.at = "next", !.missed = {}] \in Call
      BY <2>1, <2>2, CallTyped
    <3>2. [r EXCEPT !.at = "next", !.missed = {}, !.errors = r.errors + 1] \in Call
      BY <2>1, <3>1, CallTyped
    <3> QED
      BY <3>2
  <2>4. /\ n.at = "next" /\ n.experience = r.experience /\ n.todo = r.todo /\ n.block = r.block
        /\ n.item = r.item
    BY DEF Call
  <2>5. n = Failed(r)
    BY <1>1 DEF Failed
  <2> HIDE DEF n
  <2>6. Fits(n)
    BY <2>4 DEF Fits, Making, OnTurn
  <2> QED
    BY <2>3, <2>4, <2>5, <2>6
<1>2. CASE r.todo = <<>>
  BY <1>2, NoCallTyped DEF Failed
<1> QED
  BY <1>1, <1>2

LEMMA CheckedCall ==
    ASSUME NEW r \in Call, Fits(r), r.at = "check"
    PROVE  \E n \in Call :
              /\ n = [r EXCEPT !.at = "insert"] /\ Fits(n) /\ n.at = "insert"
              /\ n.experience = r.experience /\ n.from = r.from /\ n.to = r.to
              /\ n.missed = r.missed
<1> DEFINE n == [r EXCEPT !.at = "insert"]
<1>1. n \in Call
  BY CallTyped DEF Steps
<1>2. /\ n.at = "insert" /\ n.experience = r.experience /\ n.todo = r.todo /\ n.block = r.block
      /\ n.item = r.item /\ n.from = r.from /\ n.to = r.to /\ n.missed = r.missed
  BY DEF Call
<1> HIDE DEF n
<1>3. Fits(n)
  BY <1>2 DEF Fits, Making, OnTurn
<1> QED
  BY <1>1, <1>2, <1>3 DEF n

LEMMA MissingCall ==
    ASSUME NEW r \in Call, Fits(r), r.at = "insert", NEW s \in Slots
    PROVE  \E n \in Call :
              /\ n = [r EXCEPT !.missed = @ \cup {s}] /\ Fits(n) /\ n.at = "insert"
              /\ n.experience = r.experience /\ n.from = r.from /\ n.to = r.to
              /\ n.missed = r.missed \cup {s}
<1> DEFINE n == [r EXCEPT !.missed = @ \cup {s}]
<1>1. r.missed \cup {s} \in SUBSET Slots
  BY CallFields
<1>2. n \in Call
  BY <1>1, CallTyped
<1>3. /\ n.at = "insert" /\ n.experience = r.experience /\ n.todo = r.todo /\ n.block = r.block
      /\ n.item = r.item /\ n.from = r.from /\ n.to = r.to /\ n.missed = r.missed \cup {s}
  BY DEF Call
<1> HIDE DEF n
<1>4. Fits(n)
  BY <1>3 DEF Fits, Making, OnTurn
<1> QED
  BY <1>2, <1>3, <1>4 DEF n

\* What call r may be after slot s was made: it knows, or its answer is lost.
Owning(r, s) == [r EXCEPT !.mine = @ \cup {s}]
Knows(r, s) == [r EXCEPT !.at = "next", !.missed = {}, !.created = @ + 1, !.mine = @ \cup {s}]
After(r, s) == {IF r.todo # <<>> THEN Knows(r, s) ELSE NoCall, Failed(Owning(r, s))}

LEMMA OwningCall ==
    ASSUME NEW r \in Call, Fits(r), r.at = "insert", NEW s \in Slots
    PROVE  \E n \in Call : n = Owning(r, s) /\ Fits(n) /\ n.at = "insert"
<1> DEFINE n == Owning(r, s)
<1>1. r.mine \cup {s} \in SUBSET Slots
  BY CallFields
<1>2. n \in Call
  BY <1>1, CallTyped DEF Owning
<1>3. /\ n.at = "insert" /\ n.experience = r.experience /\ n.todo = r.todo /\ n.block = r.block
      /\ n.item = r.item
  BY DEF Call, Owning
<1> HIDE DEF n
<1>4. Fits(n)
  BY <1>3 DEF Fits, Making, OnTurn
<1> QED
  BY <1>2, <1>3, <1>4 DEF n

LEMMA InsertedCall ==
    ASSUME NEW r \in Call, Fits(r), r.at = "insert", NEW s \in Slots,
           NEW after \in After(r, s)
    PROVE  after \in Call /\ Fits(after) /\ after.at \in {"idle", "next"}
<1>1. CASE r.todo # <<>> /\ after = Knows(r, s)
  <2> DEFINE n == [r EXCEPT !.at = "next", !.missed = {}, !.created = @ + 1, !.mine = @ \cup {s}]
  <2>1. /\ "next" \in Steps /\ {} \in SUBSET Slots /\ r.created + 1 \in Nat
        /\ r.mine \cup {s} \in SUBSET Slots
    BY CallFields DEF Steps
  <2>2. [r EXCEPT !.at = "next"] \in Call
    BY <2>1, CallTyped
  <2>3. [r EXCEPT !.at = "next", !.missed = {}] \in Call
    BY <2>1, <2>2, CallTyped
  <2>4. [r EXCEPT !.at = "next", !.missed = {}, !.created = r.created + 1] \in Call
    BY <2>1, <2>3, CallTyped
  <2>5. [r EXCEPT !.at = "next", !.missed = {}, !.created = r.created + 1,
                  !.mine = r.mine \cup {s}] \in Call
    BY <2>1, <2>4, CallTyped
  <2>6. n \in Call
    BY <2>5
  <2>7. /\ n.at = "next" /\ n.experience = r.experience /\ n.todo = r.todo /\ n.block = r.block
        /\ n.item = r.item
    BY DEF Call
  <2>8. after = n
    BY <1>1 DEF Knows
  <2> HIDE DEF n
  <2>9. Fits(n)
    BY <2>7 DEF Fits, Making, OnTurn
  <2> QED
    BY <2>6, <2>7, <2>8, <2>9
<1>2. CASE r.todo = <<>> /\ after = NoCall
  BY <1>2, NoCallTyped
<1>3. CASE after = Failed(Owning(r, s))
  <2>1. PICK m \in Call : m = Owning(r, s) /\ Fits(m) /\ m.at = "insert"
    BY OwningCall
  <2>2. PICK n \in Call : n = Failed(m) /\ Fits(n) /\ n.at \in {"idle", "next"}
    BY <2>1, FailedCall
  <2> QED
    BY <1>3, <2>1, <2>2
<1> QED
  BY <1>1, <1>2, <1>3 DEF After

LEMMA FoundCall ==
    ASSUME NEW r \in Call, Fits(r), r.at = "existing"
    PROVE  \E n \in Call : n = [r EXCEPT !.at = "next", !.skipped = @ + 1] /\ Fits(n) /\ n.at = "next"
<1> DEFINE n == [r EXCEPT !.at = "next", !.skipped = @ + 1]
<1>1. "next" \in Steps /\ r.skipped + 1 \in Nat
  BY CallFields DEF Steps
<1>2. [r EXCEPT !.at = "next"] \in Call
  BY <1>1, CallTyped
<1>3. [r EXCEPT !.at = "next", !.skipped = r.skipped + 1] \in Call
  BY <1>1, <1>2, CallTyped
<1>4. n \in Call
  BY <1>3
<1>5. /\ n.at = "next" /\ n.experience = r.experience /\ n.todo = r.todo /\ n.block = r.block
      /\ n.item = r.item
  BY DEF Call
<1> HIDE DEF n
<1>6. Fits(n)
  BY <1>5 DEF Fits, Making, OnTurn
<1> QED
  BY <1>4, <1>5, <1>6 DEF n

LEMMA ValidatedCall ==
    ASSUME NEW r \in Call, Fits(r), r.at = "existing"
    PROVE  \E n \in Call : n = [r EXCEPT !.at = "check"] /\ Fits(n) /\ n.at = "check"
<1> DEFINE n == [r EXCEPT !.at = "check"]
<1>1. n \in Call
  BY CallTyped DEF Steps
<1>2. /\ n.at = "check" /\ n.experience = r.experience /\ n.todo = r.todo /\ n.block = r.block
      /\ n.item = r.item
  BY DEF Call
<1> HIDE DEF n
<1>3. Fits(n)
  BY <1>2 DEF Fits, Making, OnTurn
<1> QED
  BY <1>1, <1>2, <1>3 DEF n

(* The loops' heads: the next time applies, does not, or belongs to the    *)
(* next block.                                                             *)
Turn(r, i) ==
    LET b == r.todo[r.block] IN
    [r EXCEPT !.at = "existing", !.item = i,
              !.from = DateOf(b, i) * Day + ConfigOf(b, i).from,
              !.to = DateOf(b, i) * Day + ConfigOf(b, i).to,
              !.capacity = CapacityOf(b, i)]

LEMMA BlockTyped ==
    ASSUME NEW r \in Call, Fits(r), r.block > 0
    PROVE  r.todo[r.block] \in Block /\ r.todo # <<>>
<1>1. r.todo \in Seq(Block) /\ r.block \in 1 .. Len(r.todo)
  BY CallFields DEF Fits
<1> QED
  BY <1>1

LEMMA TurnCall ==
    ASSUME NEW r \in Call, Fits(r), r.at = "next", r.block > 0,
           r.item + 1 <= Turns(r.todo[r.block]), Applies(r.todo[r.block], r.item + 1)
    PROVE  \E n \in Call : n = Turn(r, r.item + 1) /\ Fits(n) /\ n.at = "existing"
<1>1. PICK b \in Block : b = r.todo[r.block]
  BY BlockTyped
<1>2. PICK i \in Nat \ {0} : i = r.item + 1
  BY CallFields
<1>3. PICK d \in Nat, g \in TimeSlotConfig, k \in Nat :
         d = DateOf(b, i) /\ g = ConfigOf(b, i) /\ k = CapacityOf(b, i)
  BY <1>1, <1>2, TurnTyped
<1>4. PICK h \in Nat : h = d * Day
  BY AvailabilityAssumption, Times
<1>5. h + g.from \in Int /\ h + g.to \in Int
  <2>1. g.from \in 0 .. Day - 1 /\ g.to \in 0 .. Day - 1
    BY DEF TimeSlotConfig
  <2> QED
    BY <2>1, AvailabilityAssumption
<1> DEFINE n == [r EXCEPT !.at = "existing", !.item = i, !.from = h + g.from,
                          !.to = h + g.to, !.capacity = k]
<1>6. n = Turn(r, r.item + 1)
  BY <1>1, <1>2, <1>3, <1>4 DEF Turn
<1>7. n \in Call
  <2>1. "existing" \in Steps /\ i \in Nat
    BY DEF Steps
  <2>2. [r EXCEPT !.at = "existing"] \in Call
    BY <2>1, CallTyped
  <2>3. [r EXCEPT !.at = "existing", !.item = i] \in Call
    BY <2>1, <2>2, CallTyped
  <2>4. [r EXCEPT !.at = "existing", !.item = i, !.from = h + g.from] \in Call
    BY <1>5, <2>3, CallTyped
  <2>5. [r EXCEPT !.at = "existing", !.item = i, !.from = h + g.from, !.to = h + g.to] \in Call
    BY <1>5, <2>4, CallTyped
  <2> QED
    BY <2>5, CallTyped
<1>8. /\ n.at = "existing" /\ n.experience = r.experience /\ n.todo = r.todo /\ n.block = r.block
      /\ n.item = i
  BY DEF Call
<1> HIDE DEF n
<1>9. Fits(n)
  <2>1. Applies(n.todo[n.block], n.item) /\ n.item <= Turns(n.todo[n.block])
    BY <1>2, <1>8
  <2>2. n.todo # <<>>
    BY <1>8, BlockTyped
  <2> QED
    BY <1>8, <2>1, <2>2 DEF Fits, Making, OnTurn
<1> QED
  BY <1>6, <1>7, <1>8, <1>9

LEMMA SkipCall ==
    ASSUME NEW r \in Call, Fits(r), r.at = "next", r.block > 0,
           r.item + 1 <= Turns(r.todo[r.block])
    PROVE  \E n \in Call : n = [r EXCEPT !.item = r.item + 1] /\ Fits(n) /\ n.at = "next"
<1> DEFINE n == [r EXCEPT !.item = r.item + 1]
<1>1. r.item + 1 \in Nat
  BY CallFields
<1>2. n \in Call
  BY <1>1, CallTyped
<1>3. /\ n.at = "next" /\ n.experience = r.experience /\ n.todo = r.todo /\ n.block = r.block
      /\ n.item = r.item + 1
  BY DEF Call
<1> HIDE DEF n
<1>4. Fits(n)
  BY <1>3 DEF Fits, Making
<1> QED
  BY <1>2, <1>3, <1>4 DEF n

LEMMA NextBlockCall ==
    ASSUME NEW r \in Call, Fits(r), r.at = "next", r.block < Len(r.todo),
           ValidBlock(r.todo[r.block + 1])
    PROVE  \E n \in Call : n = [r EXCEPT !.block = @ + 1, !.item = 0] /\ Fits(n) /\ n.at = "next"
<1> DEFINE n == [r EXCEPT !.block = @ + 1, !.item = 0]
<1>1. r.block \in Nat /\ r.todo \in Seq(Block) /\ Len(r.todo) \in Nat
  BY CallFields
<1>2. PICK k \in 1 .. Len(r.todo) : k = r.block + 1 /\ k \in Nat
  BY <1>1
<1>3. PICK b \in Block : b = r.todo[k]
  BY <1>1
<1>4. Turns(b) \in Nat
  <2>1. ValidBlock(b)
    BY <1>2, <1>3
  <2>2. b.first <= b.last
    BY <2>1 DEF ValidBlock
  <2>3. b.last - b.first + 1 \in Nat /\ Len(b.slots) \in Nat
    BY <2>2, BlockFields
  <2> QED
    BY <2>3, Times DEF Turns
<1>5. [r EXCEPT !.block = k] \in Call
  BY ONLY r \in Call, <1>2, CallTyped
<1>6. [r EXCEPT !.block = k, !.item = 0] \in Call
  BY ONLY 0 \in Nat, <1>5, CallTyped
<1>7. n \in Call
  BY <1>2, <1>6
<1>8. /\ n.at = "next" /\ n.experience = r.experience /\ n.todo = r.todo /\ n.block = k
      /\ n.item = 0
  BY <1>2 DEF Call
<1> HIDE DEF n
<1>9. Fits(n)
  <2>1. 0 <= Turns(n.todo[n.block]) /\ n.block \in 0 .. Len(n.todo) /\ n.block # 0
    BY <1>1, <1>2, <1>3, <1>4, <1>8
  <2> QED
    BY <1>8, <2>1 DEF Fits, Making
<1> QED
  BY <1>7, <1>8, <1>9 DEF n

LEMMA NextCall ==
    ASSUME NEW r \in Call, Fits(r), r.at = "next"
    PROVE  \E n \in Call :
              /\ n = IF r.block > 0 /\ r.item + 1 <= Turns(r.todo[r.block])
                     THEN IF Applies(r.todo[r.block], r.item + 1)
                          THEN Turn(r, r.item + 1)
                          ELSE [r EXCEPT !.item = r.item + 1]
                     ELSE IF r.block < Len(r.todo) /\ ValidBlock(r.todo[r.block + 1])
                          THEN [r EXCEPT !.block = @ + 1, !.item = 0]
                          ELSE NoCall
              /\ Fits(n) /\ n.at \in {"idle", "next", "existing"}
<1>1. CASE /\ r.block > 0 /\ r.item + 1 <= Turns(r.todo[r.block])
           /\ Applies(r.todo[r.block], r.item + 1)
  BY <1>1, TurnCall
<1>2. CASE /\ r.block > 0 /\ r.item + 1 <= Turns(r.todo[r.block])
           /\ ~Applies(r.todo[r.block], r.item + 1)
  BY <1>2, SkipCall
<1>3. CASE /\ ~(r.block > 0 /\ r.item + 1 <= Turns(r.todo[r.block]))
           /\ r.block < Len(r.todo) /\ ValidBlock(r.todo[r.block + 1])
  BY <1>3, NextBlockCall
<1>4. CASE /\ ~(r.block > 0 /\ r.item + 1 <= Turns(r.todo[r.block]))
           /\ ~(r.block < Len(r.todo) /\ ValidBlock(r.todo[r.block + 1]))
  BY <1>4, NoCallTyped
<1> QED
  BY <1>1, <1>2, <1>3, <1>4

-----------------------------------------------------------------------------
(* Steps *)

\* Call c has become n, and the other calls are as they were.
Becomes(c, n) == call' = [call EXCEPT ![c] = n]

\* A call of its kind, as far as it should be.
Proper(n) == n \in Call /\ Fits(n)

\* Only the call of c moves.
OwnStep(c) ==
    \/ \E e \in Experiences : \E from, to \in 0 .. Horizon : \E n \in Capacities :
          CreateSlot(c, e, from, to, n)
    \/ CheckOverlap(c) \/ SlotFails(c)
    \/ \E e \in Experiences : \E request \in BulkRequests : BulkCreate(c, e, request)
    \/ NextTurn(c) \/ FindExistingSlot(c)
    \/ \E s \in Slots : DeleteSlot(c, s)
    \/ Crash(c)

LEMMA Split ==
    ASSUME Next
    PROVE  \/ \E c \in Calls : OwnStep(c) \/ InsertSlot(c) \/ DeleteRow(c)
           \/ \E b \in Reservations : \E s \in Slots : \E st \in {"pending", "confirmed"} :
                 Book(b, s, st)
           \/ \E b \in Reservations : \E s \in Slots : Rebook(b, s)
           \/ \E B \in SUBSET Reservations : \E st \in Statuses \ {"pending"} : Become(B, st)
           \/ Tick
BY DEF Next, Step, OwnStep

(* What the call of a step of its own becomes: one that is about to insert *)
(* has found nothing in the way, and one that is about to delete a slot    *)
(* has found no booking of it.                                             *)
LEMMA OwnMoves ==
    ASSUME Typed, NEW c \in Calls, OwnStep(c)
    PROVE  /\ UNCHANGED <<slot, used, booking, now>>
           /\ \E n \in Call :
                 /\ Becomes(c, n) /\ Fits(n)
                 /\ n.at = "insert" => /\ Overlapping(n.experience, n.from, n.to) = {}
                                       /\ n.experience \in Experiences
                 /\ n.at = "delete" => n.slot \in Existing /\ CanDelete(n.slot)
<1>1. call[c] \in Call /\ Fits(call[c])
  BY DEF Typed, TypeOK, CallsFit
<1>2. PICK r \in Call : r = call[c] /\ Fits(r)
  BY <1>1
<1>3. ASSUME NEW e \in Experiences, NEW from \in 0 .. Horizon, NEW to \in 0 .. Horizon,
             NEW k \in Capacities, CreateSlot(c, e, from, to, k)
      PROVE  \E n \in Call : Becomes(c, n) /\ Fits(n) /\ n.at = "check"
  <2>1. from \in Nat /\ to \in Nat /\ k \in Nat
    BY AvailabilityAssumption
  <2>2. PICK n \in Call : n = Single(e, from, to, k) /\ Fits(n) /\ n.at = "check"
    BY <2>1, CreateSlotCall
  <2>3. Becomes(c, n)
    BY <1>3, <2>2 DEF CreateSlot, Becomes, Single
  <2> QED
    BY <2>2, <2>3
<1>4. ASSUME NEW e \in Experiences, NEW q \in BulkRequests, BulkCreate(c, e, q)
      PROVE  \E n \in Call : Becomes(c, n) /\ Fits(n) /\ n.at = "next"
  <2>1. q \in Seq(Block) /\ Len(q) \in Nat
    BY AvailabilityAssumption
  <2>2. PICK n \in Call :
           /\ n = Many(e, q) /\ Fits(n) /\ n.at = "next" /\ n.todo = q /\ n.block = 0
           /\ n.item = 0 /\ n.mine = {} /\ n.created = 0 /\ n.skipped = 0 /\ n.errors = 0
    BY <2>1, BulkCreateCall
  <2>3. Becomes(c, n)
    BY <1>4, <2>2 DEF BulkCreate, Becomes, Many
  <2> QED
    BY <2>2, <2>3
<1>5. ASSUME CheckOverlap(c)
      PROVE  \E n \in Call :
                /\ Becomes(c, n) /\ Fits(n)
                /\ \/ n.at \in {"idle", "next"}
                   \/ /\ n.at = "insert" /\ Overlapping(n.experience, n.from, n.to) = {}
                      /\ n.experience \in Experiences
  <2>1. r.at = "check" /\ r.experience \in Experiences
    BY <1>2, <1>5 DEF CheckOverlap, At, Fits, Making
  <2>2. CASE Overlapping(r.experience, r.from, r.to) = {}
    <3>1. PICK n \in Call :
             /\ n = [r EXCEPT !.at = "insert"] /\ Fits(n) /\ n.at = "insert"
             /\ n.experience = r.experience /\ n.from = r.from /\ n.to = r.to
             /\ n.missed = r.missed
      BY <1>2, <2>1, CheckedCall
    <3>2. Becomes(c, n)
      BY <1>2, <1>5, <2>2, <3>1 DEF CheckOverlap, Becomes
    <3> QED
      BY <2>1, <2>2, <3>1, <3>2
  <2>3. CASE Overlapping(r.experience, r.from, r.to) # {}
    <3>1. PICK n \in Call : n = Failed(r) /\ Fits(n) /\ n.at \in {"idle", "next"}
      BY <1>2, <2>1, FailedCall
    <3>2. Becomes(c, n)
      BY <1>2, <1>5, <2>3, <3>1 DEF CheckOverlap, Becomes
    <3> QED
      BY <3>1, <3>2
  <2> QED
    BY <2>2, <2>3
<1>6. ASSUME NextTurn(c)
      PROVE  \E n \in Call : Becomes(c, n) /\ Fits(n) /\ n.at \in {"idle", "next", "existing"}
  <2>1. r.at = "next"
    BY <1>2, <1>6 DEF NextTurn, At
  <2>2. PICK n \in Call :
           /\ n = IF r.block > 0 /\ r.item + 1 <= Turns(r.todo[r.block])
                  THEN IF Applies(r.todo[r.block], r.item + 1)
                       THEN Turn(r, r.item + 1)
                       ELSE [r EXCEPT !.item = r.item + 1]
                  ELSE IF r.block < Len(r.todo) /\ ValidBlock(r.todo[r.block + 1])
                       THEN [r EXCEPT !.block = @ + 1, !.item = 0]
                       ELSE NoCall
           /\ Fits(n) /\ n.at \in {"idle", "next", "existing"}
    BY <1>2, <2>1, NextCall
  <2>3. Becomes(c, n)
    BY <1>2, <1>6, <2>2 DEF NextTurn, Becomes, Turn
  <2> QED
    BY <2>2, <2>3
<1>7. ASSUME FindExistingSlot(c)
      PROVE  \E n \in Call : Becomes(c, n) /\ Fits(n) /\ n.at \in {"idle", "next", "check"}
  <2>1. r.at = "existing"
    BY <1>2, <1>7 DEF FindExistingSlot, At
  <2> DEFINE found == \E s \in SlotsOf(r.experience) : slot[s].from = r.from /\ slot[s].to = r.to
  <2>2. call' = [call EXCEPT ![c] =
           IF found THEN [r EXCEPT !.at = "next", !.skipped = @ + 1]
           ELSE IF ValidTimeRange(r.from, r.to) THEN [r EXCEPT !.at = "check"] ELSE Failed(r)]
    BY <1>2, <1>7 DEF FindExistingSlot
  <2> HIDE DEF found
  <2>3. CASE found
    <3>1. PICK n \in Call : /\ n = [r EXCEPT !.at = "next", !.skipped = @ + 1] /\ Fits(n)
                            /\ n.at = "next"
      BY <1>2, <2>1, FoundCall
    <3>2. Becomes(c, n)
      BY <2>2, <2>3, <3>1 DEF Becomes
    <3> QED
      BY <3>1, <3>2
  <2>4. CASE ~found /\ ValidTimeRange(r.from, r.to)
    <3>1. PICK n \in Call : n = [r EXCEPT !.at = "check"] /\ Fits(n) /\ n.at = "check"
      BY <1>2, <2>1, ValidatedCall
    <3>2. Becomes(c, n)
      BY <2>2, <2>4, <3>1 DEF Becomes
    <3> QED
      BY <3>1, <3>2
  <2>5. CASE ~found /\ ~ValidTimeRange(r.from, r.to)
    <3>1. PICK n \in Call : n = Failed(r) /\ Fits(n) /\ n.at \in {"idle", "next"}
      BY <1>2, <2>1, FailedCall
    <3>2. Becomes(c, n)
      BY <2>2, <2>5, <3>1 DEF Becomes
    <3> QED
      BY <3>1, <3>2
  <2> QED
    BY <2>3, <2>4, <2>5
<1>8. ASSUME NEW s \in Slots, DeleteSlot(c, s)
      PROVE  \E n \in Call : /\ Becomes(c, n) /\ Fits(n) /\ n.at = "delete"
                             /\ n.slot \in Existing /\ CanDelete(n.slot)
  <2>1. PICK n \in Call :
           /\ n = [NoCall EXCEPT !.at = "delete", !.slot = s]
           /\ n.at = "delete" /\ n.slot = s /\ n.todo = <<>> /\ n.block = 0 /\ n.item = 0
           /\ n.mine = {}
    BY DeleteSlotCall
  <2>2. Fits(n)
    BY <2>1 DEF Fits, Making
  <2>3. Becomes(c, n) /\ s \in Existing /\ CanDelete(s)
    BY <1>8, <2>1 DEF DeleteSlot, Becomes
  <2> QED
    BY <2>1, <2>2, <2>3
<1>9. ASSUME Crash(c)
      PROVE  \E n \in Call : Becomes(c, n) /\ Fits(n) /\ n.at = "idle"
  BY <1>9, NoCallTyped DEF Crash, Becomes
<1>10. ASSUME SlotFails(c)
       PROVE  \E n \in Call : Becomes(c, n) /\ Fits(n) /\ n.at \in {"idle", "next"}
  <2>1. r.at \in {"existing", "check", "insert"}
    BY <1>2, <1>10 DEF SlotFails
  <2>2. PICK n \in Call : n = Failed(r) /\ Fits(n) /\ n.at \in {"idle", "next"}
    BY <1>2, <2>1, FailedCall
  <2>3. Becomes(c, n)
    BY <1>2, <1>10, <2>2 DEF SlotFails, Becomes
  <2> QED
    BY <2>2, <2>3
<1>11. UNCHANGED <<slot, used, booking, now>>
  BY DEF OwnStep, CreateSlot, CheckOverlap, SlotFails, BulkCreate, NextTurn, FindExistingSlot,
         DeleteSlot, Crash
<1>12. \E n \in Call :
          /\ Becomes(c, n) /\ Fits(n)
          /\ n.at = "insert" => /\ Overlapping(n.experience, n.from, n.to) = {}
                                /\ n.experience \in Experiences
          /\ n.at = "delete" => n.slot \in Existing /\ CanDelete(n.slot)
  BY <1>3, <1>4, <1>5, <1>6, <1>7, <1>8, <1>9, <1>10 DEF OwnStep
<1> QED
  BY <1>11, <1>12

\* Call c was r, inserts s as row, and becomes n; others have missed s.
Inserts(c, s, row, r, n) ==
    /\ r = call[c] /\ r.at = "insert" /\ r.experience \in Experiences
    /\ used' = used \cup {s}
    /\ slot' = [slot EXCEPT ![s] = row]
    /\ row.experience = r.experience /\ row.from = r.from /\ row.to = r.to
    /\ row.missed = r.missed
    /\ call' = [Missing(s) EXCEPT ![c] = n]
    /\ Fits(n) /\ n.at \in {"idle", "next"}

(* A slot is inserted: the call that made it is done with it, and every    *)
(* other call about to insert has missed it.                               *)
LEMMA InsertMoves ==
    ASSUME Typed, NEW c \in Calls, InsertSlot(c)
    PROVE  /\ UNCHANGED <<booking, now>>
           /\ \E s \in Slots \ used, row \in Slot, r \in Call, n \in Call : Inserts(c, s, row, r, n)
<1>1. call[c] \in Call /\ Fits(call[c])
  BY DEF Typed, TypeOK, CallsFit
<1>2. PICK r \in Call : r = call[c] /\ Fits(r)
  BY <1>1
<1>3. r.at = "insert" /\ r.experience \in Experiences
  BY <1>2 DEF InsertSlot, At, Fits, Making
<1>4. PICK s \in Slots \ used :
         /\ used' = used \cup {s}
         /\ slot' = [slot EXCEPT ![s] =
              [experience |-> r.experience, from |-> r.from, to |-> r.to,
               capacity |-> r.capacity, missed |-> r.missed]]
         /\ \E after \in After(r, s) : call' = [Missing(s) EXCEPT ![c] = after]
  BY <1>2 DEF InsertSlot, Bulk, After, Knows, Owning
<1>5. PICK n \in Call :
         /\ call' = [Missing(s) EXCEPT ![c] = n]
         /\ Fits(n) /\ n.at \in {"idle", "next"}
  BY <1>2, <1>3, <1>4, InsertedCall
<1> DEFINE row == [experience |-> r.experience, from |-> r.from, to |-> r.to,
                   capacity |-> r.capacity, missed |-> r.missed]
<1>6. row \in Slot
  <2>1. /\ r.experience \in Experiences /\ r.from \in Int /\ r.to \in Int /\ r.capacity \in Nat
        /\ r.missed \in SUBSET Slots
    BY <1>3, CallFields
  <2> QED
    BY <2>1 DEF Slot
<1>7. slot' = [slot EXCEPT ![s] = row] /\ call' = [Missing(s) EXCEPT ![c] = n]
  BY <1>4, <1>5
<1>8. /\ row.experience = r.experience /\ row.from = r.from /\ row.to = r.to
      /\ row.missed = r.missed
  OBVIOUS
<1> HIDE DEF row
<1>9. Inserts(c, s, row, r, n)
  BY <1>2, <1>3, <1>4, <1>5, <1>7, <1>8 DEF Inserts
<1>10. UNCHANGED <<booking, now>>
  BY DEF InsertSlot
<1> QED
  BY <1>6, <1>9, <1>10

LEMMA MissingCalls ==
    ASSUME Typed, NEW s \in Slots, NEW c \in Calls, NEW n \in Call, Fits(n),
           n.at \in {"idle", "next"}, call' = [Missing(s) EXCEPT ![c] = n]
    PROVE  \A d \in Calls :
              /\ call'[d] \in Call /\ Fits(call'[d])
              /\ call'[d].at = "delete" => call'[d] = call[d]
              /\ call'[d].at = "insert" =>
                    /\ call[d].at = "insert"
                    /\ call'[d].experience = call[d].experience
                    /\ call'[d].from = call[d].from /\ call'[d].to = call[d].to
                    /\ call'[d].missed = call[d].missed \cup {s}
<1> TAKE d \in Calls
<1>1. call[d] \in Call /\ Fits(call[d])
  BY DEF Typed, TypeOK, CallsFit
<1>2. CASE d = c
  <2>1. call'[d] = n
    BY <1>2 DEF Missing
  <2> QED
    BY <2>1
<1>3. CASE d # c /\ call[d].at # "insert"
  <2>1. call'[d] = call[d]
    BY <1>3 DEF Missing, At
  <2> QED
    BY <1>1, <1>3, <2>1
<1>4. CASE d # c /\ call[d].at = "insert"
  <2>1. PICK m \in Call :
           /\ m = [call[d] EXCEPT !.missed = @ \cup {s}] /\ Fits(m) /\ m.at = "insert"
           /\ m.experience = call[d].experience /\ m.from = call[d].from /\ m.to = call[d].to
           /\ m.missed = call[d].missed \cup {s}
    BY <1>1, <1>4, MissingCall
  <2>2. call'[d] = m
    BY <1>4, <2>1 DEF Missing, At
  <2> QED
    BY <1>4, <2>1, <2>2
<1> QED
  BY <1>2, <1>3, <1>4

-----------------------------------------------------------------------------
(* Types *)

LEMMA InitTyped ==
    ASSUME Init
    PROVE  Typed
<1>1. slot \in [Slots -> Opt(Slot)] /\ booking \in [Reservations -> Opt(Reservation)]
  BY DEF Init, Opt
<1>2. \A s \in Slots : slot[s] = Null
  BY DEF Init
<1>3. used \subseteq Slots /\ Existing \subseteq used
  BY <1>2 DEF Init, Existing
<1>4. call \in [Calls -> Call] /\ CallsFit
  BY NoCallTyped DEF Init, CallsFit
<1>5. now \in 0 .. Ticks
  BY AvailabilityAssumption DEF Init
<1> QED
  BY <1>1, <1>3, <1>4, <1>5 DEF Typed, TypeOK

LEMMA OwnTyped ==
    ASSUME Typed, NEW c \in Calls, OwnStep(c)
    PROVE  Typed'
<1>1. PICK n \in Call : Becomes(c, n) /\ Fits(n)
  BY OwnMoves
<1>2. UNCHANGED <<slot, used, booking, now>>
  BY OwnMoves
<1>3. call' \in [Calls -> Call]
  BY <1>1 DEF Becomes, Typed, TypeOK
<1>4. ASSUME NEW d \in Calls PROVE Fits(call'[d])
  <2>1. call'[d] = IF d = c THEN n ELSE call[d]
    BY <1>1 DEF Becomes, Typed, TypeOK
  <2>2. Fits(call[d])
    BY DEF Typed, CallsFit
  <2> QED
    BY <1>1, <2>1, <2>2
<1>5. CallsFit'
  BY <1>4 DEF CallsFit, Fits, Making, OnTurn, Turns, Applies, DateOf, ConfigOf
<1>6. TypeOK'
  BY <1>2, <1>3 DEF Typed, TypeOK, Existing
<1> QED
  BY <1>5, <1>6 DEF Typed

LEMMA InsertTyped ==
    ASSUME Typed, NEW c \in Calls, InsertSlot(c)
    PROVE  Typed'
<1>1. PICK s \in Slots \ used, row \in Slot, r \in Call, n \in Call : Inserts(c, s, row, r, n)
  BY InsertMoves
<1>2. \A d \in Calls : call'[d] \in Call /\ Fits(call'[d])
  BY <1>1, MissingCalls DEF Inserts
<1>3. call' \in [Calls -> Call]
  <2>1. call' = [d \in Calls |-> call'[d]]
    BY <1>1 DEF Inserts, Missing
  <2> QED
    BY <1>2, <2>1
<1>4. CallsFit'
  BY <1>2 DEF CallsFit, Fits, Making, OnTurn, Turns, Applies, DateOf, ConfigOf
<1>5. slot' \in [Slots -> Opt(Slot)]
  BY <1>1 DEF Inserts, Typed, TypeOK, Opt
<1>6. used' \subseteq Slots /\ Existing' \subseteq used'
  <2>1. \A t \in Slots : t # s => slot'[t] = slot[t]
    BY <1>1 DEF Inserts, Typed, TypeOK
  <2> QED
    BY <1>1, <2>1 DEF Inserts, Typed, TypeOK, Existing
<1>7. UNCHANGED <<booking, now>>
  BY InsertMoves
<1> QED
  BY <1>3, <1>4, <1>5, <1>6, <1>7 DEF Typed, TypeOK

(* The bookings of a deleted slot are lost, the others as they were.       *)
LEMMA DeleteMoves ==
    ASSUME Typed, NEW c \in Calls, DeleteRow(c)
    PROVE  /\ UNCHANGED <<used, now>>
           /\ call[c].at = "delete" /\ call[c].slot \in Slots
           /\ slot' = [slot EXCEPT ![call[c].slot] = Null]
           /\ Becomes(c, NoCall)
           /\ booking' \in [Reservations -> Opt(Reservation)]
           /\ \A b \in Reservations :
                 \/ b \notin BookingsOf(call[c].slot) /\ booking'[b] = booking[b]
                 \/ /\ b \in BookingsOf(call[c].slot)
                    /\ booking'[b] = [booking[b] EXCEPT !.lost = TRUE]
<1>1. PICK s \in Slots : s = call[c].slot /\ call[c].at = "delete"
  BY DEF Typed, CallsFit, Fits, DeleteRow, At
<1>2. /\ slot' = [slot EXCEPT ![s] = Null]
      /\ booking' = [b \in Reservations |->
                       IF b \in BookingsOf(s) THEN [booking[b] EXCEPT !.lost = TRUE]
                                              ELSE booking[b]]
      /\ call' = [call EXCEPT ![c] = NoCall]
      /\ UNCHANGED <<used, now>>
  BY <1>1 DEF DeleteRow
<1>3. ASSUME NEW b \in Reservations PROVE booking'[b] \in Opt(Reservation)
  <2>1. booking[b] \in Opt(Reservation)
    BY DEF Typed, TypeOK
  <2>2. CASE b \in BookingsOf(s)
    <3>1. booking[b] \in Reservation
      BY <2>1, <2>2 DEF BookingsOf, Here, Opt
    <3>2. [booking[b] EXCEPT !.lost = TRUE] \in Reservation
      BY <3>1 DEF Reservation
    <3> QED
      BY <1>2, <2>2, <3>2 DEF Opt
  <2>3. CASE b \notin BookingsOf(s)
    BY <1>2, <2>1, <2>3
  <2> QED
    BY <2>2, <2>3
<1>4. booking' \in [Reservations -> Opt(Reservation)]
  BY <1>2, <1>3
<1>5. \A b \in Reservations :
         \/ b \notin BookingsOf(s) /\ booking'[b] = booking[b]
         \/ b \in BookingsOf(s) /\ booking'[b] = [booking[b] EXCEPT !.lost = TRUE]
  BY <1>2
<1> QED
  BY <1>1, <1>2, <1>4, <1>5 DEF Becomes

LEMMA DeleteTyped ==
    ASSUME Typed, NEW c \in Calls, DeleteRow(c)
    PROVE  Typed'
<1>1. /\ UNCHANGED <<used, now>> /\ slot' = [slot EXCEPT ![call[c].slot] = Null]
      /\ call' = [call EXCEPT ![c] = NoCall] /\ booking' \in [Reservations -> Opt(Reservation)]
  BY DeleteMoves DEF Becomes
<1>2. call' \in [Calls -> Call]
  BY <1>1, NoCallTyped DEF Typed, TypeOK
<1>3. ASSUME NEW d \in Calls PROVE Fits(call'[d])
  <2>1. call'[d] = IF d = c THEN NoCall ELSE call[d]
    BY <1>1 DEF Typed, TypeOK
  <2>2. Fits(call[d])
    BY DEF Typed, CallsFit
  <2> QED
    BY NoCallTyped, <2>1, <2>2
<1>4. CallsFit'
  BY <1>3 DEF CallsFit, Fits, Making, OnTurn, Turns, Applies, DateOf, ConfigOf
<1>5. slot' \in [Slots -> Opt(Slot)] /\ Existing' \subseteq Existing
  BY <1>1 DEF Typed, TypeOK, Opt, Existing
<1> QED
  BY <1>1, <1>2, <1>4, <1>5 DEF Typed, TypeOK

\* Booking b has been put on slot s.
Put(b, s) ==
    \E row \in Reservation :
       /\ booking' = [booking EXCEPT ![b] = row]
       /\ row.slot = s /\ ~row.lost
       /\ BeingDeleted(s) => row.raced

\* A booking of a slot as it is made, and as it is moved there.
Made(s, st, raced) == [slot |-> s, status |-> st, lost |-> FALSE, raced |-> raced]
Moved(row, s, raced) == [row EXCEPT !.slot = s, !.raced = raced]

LEMMA BookMoves ==
    ASSUME Typed, NEW b \in Reservations, NEW s \in Slots, NEW st \in {"pending", "confirmed"},
           Book(b, s, st)
    PROVE  Put(b, s)
<1>1. PICK v \in BOOLEAN : v <=> BeingDeleted(s)
  BY DEF BeingDeleted
<1>2. Made(s, st, v) \in Reservation
  BY DEF Made, Reservation, Statuses
<1>3. Made(s, st, v).slot = s /\ ~Made(s, st, v).lost /\ Made(s, st, v).raced = v
  BY DEF Made
<1>4. v = BeingDeleted(s)
  BY <1>1 DEF BeingDeleted
<1>5. booking' = [booking EXCEPT ![b] = Made(s, st, v)]
  BY <1>4 DEF Book, Made
<1> QED
  BY <1>1, <1>2, <1>3, <1>5 DEF Put

LEMMA RebookMoves ==
    ASSUME Typed, NEW b \in Reservations, NEW s \in Slots, Rebook(b, s)
    PROVE  Put(b, s)
<1>1. PICK v \in BOOLEAN : v <=> BeingDeleted(s)
  BY DEF BeingDeleted
<1>2. booking[b] \in Reservation /\ ~booking[b].lost
  BY DEF Rebook, Here, Typed, TypeOK, Opt
<1>3. PICK row \in Reservation : row = booking[b] /\ ~row.lost
  BY <1>2
<1>4. Moved(row, s, v) \in Reservation
  BY DEF Moved, Reservation
<1>5. Moved(row, s, v).slot = s /\ ~Moved(row, s, v).lost /\ Moved(row, s, v).raced = v
  BY <1>3 DEF Moved, Reservation
<1>6. v = BeingDeleted(s)
  BY <1>1 DEF BeingDeleted
<1>7. booking' = [booking EXCEPT ![b] = Moved(row, s, v)]
  BY <1>3, <1>6 DEF Rebook, Moved, Typed, TypeOK
<1> QED
  BY <1>1, <1>4, <1>5, <1>7 DEF Put

\* A booking changes its status, and nothing else.
Restated(b) ==
    /\ booking[b] \in Reservation /\ booking'[b] \in Reservation
    /\ booking'[b].slot = booking[b].slot
    /\ booking'[b].lost = booking[b].lost /\ booking'[b].raced = booking[b].raced

LEMMA BecomeMoves ==
    ASSUME Typed, NEW B \in SUBSET Reservations, NEW st \in Statuses \ {"pending"}, Become(B, st)
    PROVE  /\ booking' \in [Reservations -> Opt(Reservation)]
           /\ \A b \in Reservations : Restated(b) \/ booking'[b] = booking[b]
<1>1. booking' = [b \in Reservations |->
                    IF b \in B THEN [booking[b] EXCEPT !.status = st] ELSE booking[b]]
  BY DEF Become
<1>2. ASSUME NEW b \in B PROVE Restated(b)
  <2>1. booking[b] \in Reservation
    BY DEF Become, Here, Typed, TypeOK, Opt
  <2>2. PICK row \in Reservation : row = booking[b]
    BY <2>1
  <2>3. PICK next \in Reservation : next = [row EXCEPT !.status = st]
    BY DEF Reservation
  <2>4. next.slot = row.slot /\ next.lost = row.lost /\ next.raced = row.raced
    BY <2>3 DEF Reservation
  <2>5. booking'[b] = next
    BY <1>1, <2>2, <2>3
  <2> QED
    BY <2>2, <2>4, <2>5 DEF Restated
<1>3. \A b \in Reservations \ B : booking'[b] = booking[b]
  BY <1>1
<1>4. \A b \in Reservations : booking'[b] \in Opt(Reservation)
  BY <1>2, <1>3 DEF Restated, Typed, TypeOK, Opt
<1>5. booking' \in [Reservations -> Opt(Reservation)]
  BY <1>1, <1>4
<1> QED
  BY <1>2, <1>3, <1>5

\* The rest is as it was when only bookings move.
LEMMA BookingsTyped ==
    ASSUME Typed, booking' \in [Reservations -> Opt(Reservation)], UNCHANGED <<slot, used, call, now>>
    PROVE  Typed'
BY DEF Typed, TypeOK, CallsFit, Existing, Fits, Making, OnTurn, Turns, Applies, DateOf, ConfigOf

LEMMA PutTyped ==
    ASSUME Typed, NEW b \in Reservations, NEW s \in Slots, Put(b, s),
           UNCHANGED <<slot, used, call, now>>
    PROVE  Typed'
<1>1. PICK row \in Reservation : booking' = [booking EXCEPT ![b] = row]
  BY DEF Put
<1>2. booking' \in [Reservations -> Opt(Reservation)]
  BY <1>1 DEF Typed, TypeOK, Opt
<1> QED
  BY <1>2, BookingsTyped

LEMMA StepTyped ==
    ASSUME Typed, Next
    PROVE  Typed'
<1>1. ASSUME NEW b \in Reservations, NEW s \in Slots, NEW st \in {"pending", "confirmed"},
             Book(b, s, st)
      PROVE  Typed'
  BY <1>1, BookMoves, PutTyped DEF Book
<1>2. ASSUME NEW b \in Reservations, NEW s \in Slots, Rebook(b, s) PROVE Typed'
  BY <1>2, RebookMoves, PutTyped DEF Rebook
<1>3. ASSUME NEW B \in SUBSET Reservations, NEW st \in Statuses \ {"pending"}, Become(B, st)
      PROVE  Typed'
  BY <1>3, BecomeMoves, BookingsTyped DEF Become
<1>4. ASSUME Tick PROVE Typed'
  <2>1. now' \in 0 .. Ticks
    BY <1>4, AvailabilityAssumption DEF Tick, Typed, TypeOK
  <2>2. UNCHANGED <<slot, used, booking, call>>
    BY <1>4 DEF Tick
  <2> QED
    BY <2>1, <2>2 DEF Typed, TypeOK, CallsFit, Existing, Fits, Making, OnTurn, Turns, Applies,
       DateOf, ConfigOf
<1> QED
  BY <1>1, <1>2, <1>3, <1>4, Split, OwnTyped, InsertTyped, DeleteTyped

\* Tables, calls and slots keep their types whatever calls, crashes and
\* bookings do (AvailabilityService).
THEOREM TypeCorrect == Spec => []TypeOK
<1>1. Init => Typed
  BY InitTyped
<1>2. Typed /\ [Next]_vars => Typed'
  <2> SUFFICES ASSUME Typed, [Next]_vars PROVE Typed'
    OBVIOUS
  <2>1. CASE Next
    BY <2>1, StepTyped
  <2>2. CASE UNCHANGED vars
    BY <2>2 DEF vars, Typed, TypeOK, CallsFit, Existing, Fits, Making, OnTurn, Turns, Applies,
       DateOf, ConfigOf
  <2> QED
    BY <2>1, <2>2
<1>3. Typed => TypeOK
  BY DEF Typed
<1> QED
  BY <1>1, <1>2, <1>3, PTL DEF Spec

-----------------------------------------------------------------------------
(* The bookings live as module BookingLife says *)

Lives == [Life!Next]_(Life!life)

LEMMA SameLife == UNCHANGED booking => Lives
BY DEF Lives, Life!life

(* A booking lost with its slot has nothing more to show.                  *)
LEMMA DeleteLives ==
    ASSUME Typed, NEW c \in Calls, DeleteRow(c)
    PROVE  Lives
<1>1. PICK s \in Slots : s = call[c].slot
  BY DeleteMoves
<1>2. \A b \in Reservations :
         \/ booking'[b] = booking[b]
         \/ b \in BookingsOf(s) /\ booking'[b] = [booking[b] EXCEPT !.lost = TRUE]
  BY <1>1, DeleteMoves
<1>3. ASSUME NEW b \in Reservations
      PROVE  \/ booking'[b] = booking[b]
             \/ /\ booking[b] # Null /\ booking'[b] # Null
                /\ booking'[b].slot = booking[b].slot /\ booking'[b].status = booking[b].status
  <2>1. CASE b \in BookingsOf(s) /\ booking'[b] = [booking[b] EXCEPT !.lost = TRUE]
    <3>1. booking[b] \in Reservation /\ booking[b] # Null
      BY <2>1 DEF BookingsOf, Here, Typed, TypeOK, Opt
    <3>2. PICK row \in Reservation : row = booking[b]
      BY <3>1
    <3>3. PICK lost \in Reservation : lost = [row EXCEPT !.lost = TRUE]
      BY DEF Reservation
    <3>4. lost.slot = row.slot /\ lost.status = row.status
      BY <3>3 DEF Reservation
    <3>5. booking'[b] = lost
      BY <2>1, <3>2, <3>3
    <3> QED
      BY <3>1, <3>2, <3>4, <3>5, NullIsNoReservation
  <2> QED
    BY <1>2, <2>1
<1> QED
  BY <1>3 DEF Lives, Life!life

LEMMA LifeStep == Typed /\ [Next]_vars => Lives
<1> SUFFICES ASSUME Typed, [Next]_vars PROVE Lives
  OBVIOUS
<1>1. CASE UNCHANGED vars
  BY <1>1, SameLife DEF vars
<1>2. CASE Next
  <2>1. ASSUME NEW c \in Calls, OwnStep(c) \/ InsertSlot(c) PROVE Lives
    BY <2>1, OwnMoves, SameLife DEF InsertSlot
  <2>2. ASSUME NEW b \in Reservations, NEW s \in Slots, NEW st \in {"pending", "confirmed"},
               Book(b, s, st)
        PROVE  Lives
    BY <2>2 DEF Book, Life!Next, Life!Alone, Lives
  <2>3. ASSUME NEW b \in Reservations, NEW s \in Slots, Rebook(b, s) PROVE Lives
    BY <2>3 DEF Rebook, Life!Next, Life!Alone, Lives
  <2>4. ASSUME NEW B \in SUBSET Reservations, NEW st \in Statuses \ {"pending"}, Become(B, st)
        PROVE  Lives
    BY <2>4 DEF Become, Lives
  <2>5. ASSUME Tick PROVE Lives
    BY <2>5, SameLife DEF Tick
  <2> QED
    BY <1>2, <2>1, <2>2, <2>3, <2>4, <2>5, Split, DeleteLives
<1> QED
  BY <1>1, <1>2

LEMMA LifeInit == Init => Life!Init
BY DEF Init, Life!Init

\* The bookings of this module do only what module BookingLife lets them do,
\* the cascading delete being no part of their life: the slots are checked
\* against bookings as module Bookings makes them (bookings.service).
THEOREM LifeTheorem == Spec => Life!Spec
<1>1. Typed /\ [Next]_vars => Typed'
  <2> SUFFICES ASSUME Typed, [Next]_vars PROVE Typed'
    OBVIOUS
  <2>1. CASE UNCHANGED vars
    BY <2>1, BookingsTyped DEF vars, Typed, TypeOK
  <2> QED
    BY <2>1, StepTyped
<1>2. Lives => [Life!Next]_(Life!life)
  BY DEF Lives
<1> QED
  BY <1>1, <1>2, InitTyped, LifeInit, LifeStep, PTL DEF Spec, Life!Spec, Life!Steps

-----------------------------------------------------------------------------
(* Lost bookings were raced *)

\* While a slot is being deleted, only the bookings made since it was found to
\* have none are there.
OnlyRaced ==
    \A c \in Calls : call[c].at = "delete" =>
       \A b \in BookingsOf(call[c].slot) : booking[b].raced

RaceInv == Typed /\ OnlyRaced /\ LostWasRaced

LEMMA OwnRaced ==
    ASSUME RaceInv, NEW c \in Calls, OwnStep(c)
    PROVE  (OnlyRaced /\ LostWasRaced)'
<1>1. Typed
  BY DEF RaceInv
<1>2. UNCHANGED <<slot, used, booking, now>>
  BY <1>1, OwnMoves
<1>3. PICK n \in Call : Becomes(c, n) /\ (n.at = "delete" => CanDelete(n.slot))
  BY <1>1, OwnMoves
<1>4. ASSUME NEW d \in Calls, call'[d].at = "delete", NEW b \in BookingsOf(call'[d].slot)
      PROVE  booking[b].raced
  <2>1. CASE d = c
    <3>1. call'[d] = n
      BY <1>1, <1>3, <2>1 DEF Becomes, Typed, TypeOK
    <3> QED
      BY <1>3, <1>4, <3>1 DEF CanDelete
  <2>2. CASE d # c
    <3>1. call'[d] = call[d]
      BY <1>1, <1>3, <2>2 DEF Becomes, Typed, TypeOK
    <3> QED
      BY <1>4, <3>1 DEF RaceInv, OnlyRaced
  <2> QED
    BY <2>1, <2>2
<1>5. OnlyRaced'
  BY <1>2, <1>4 DEF OnlyRaced, BookingsOf, Here
<1>6. LostWasRaced'
  BY <1>2 DEF RaceInv, LostWasRaced
<1> QED
  BY <1>5, <1>6

LEMMA InsertRaced ==
    ASSUME RaceInv, NEW c \in Calls, InsertSlot(c)
    PROVE  (OnlyRaced /\ LostWasRaced)'
<1>1. Typed
  BY DEF RaceInv
<1>2. UNCHANGED booking
  BY DEF InsertSlot
<1>3. PICK s \in Slots \ used, row \in Slot, r \in Call, n \in Call : Inserts(c, s, row, r, n)
  BY <1>1, InsertMoves
<1>4. \A d \in Calls : call'[d].at = "delete" => call'[d] = call[d]
  BY <1>1, <1>3, MissingCalls DEF Inserts
<1>5. OnlyRaced'
  BY <1>2, <1>4 DEF RaceInv, OnlyRaced, BookingsOf, Here
<1>6. LostWasRaced'
  BY <1>2 DEF RaceInv, LostWasRaced
<1> QED
  BY <1>5, <1>6

LEMMA DeleteRaced ==
    ASSUME RaceInv, NEW c \in Calls, DeleteRow(c)
    PROVE  (OnlyRaced /\ LostWasRaced)'
<1>1. Typed
  BY DEF RaceInv
<1>2. PICK s \in Slots : s = call[c].slot /\ call[c].at = "delete"
  BY <1>1, DeleteMoves
<1>3. /\ call' = [call EXCEPT ![c] = NoCall]
      /\ \A b \in Reservations :
            \/ b \notin BookingsOf(s) /\ booking'[b] = booking[b]
            \/ b \in BookingsOf(s) /\ booking'[b] = [booking[b] EXCEPT !.lost = TRUE]
  BY <1>1, <1>2, DeleteMoves DEF Becomes
<1>4. \A b \in BookingsOf(s) :
         /\ booking[b] \in Reservation /\ booking[b].raced
         /\ booking'[b].raced = booking[b].raced /\ booking'[b].slot = booking[b].slot
         /\ booking'[b].lost
  <2> TAKE b \in BookingsOf(s)
  <2>1. b \in Reservations /\ booking[b] \in Reservation
    BY <1>1 DEF BookingsOf, Here, Typed, TypeOK, Opt
  <2>2. booking[b].raced
    BY <1>2 DEF RaceInv, OnlyRaced
  <2>3. booking'[b] = [booking[b] EXCEPT !.lost = TRUE]
    BY <1>3, <2>1
  <2> QED
    BY <2>1, <2>2, <2>3 DEF Reservation
<1>5. LostWasRaced'
  <2> SUFFICES ASSUME NEW b \in Reservations, booking'[b] # Null, booking'[b].lost
               PROVE  booking'[b].raced
    BY DEF LostWasRaced
  <2>1. CASE b \in BookingsOf(s)
    BY <1>4, <2>1
  <2>2. CASE b \notin BookingsOf(s)
    <3>1. booking'[b] = booking[b]
      BY <1>3, <2>2
    <3> QED
      BY <3>1 DEF RaceInv, LostWasRaced
  <2> QED
    BY <2>1, <2>2
<1>6. ASSUME NEW d \in Calls, call'[d].at = "delete",
             NEW b \in Reservations, booking'[b] # Null, booking'[b].slot = call'[d].slot,
             ~booking'[b].lost
      PROVE  booking'[b].raced
  <2>1. b \notin BookingsOf(s) /\ booking'[b] = booking[b]
    BY <1>3, <1>4, <1>6
  <2>2. d # c /\ call'[d] = call[d]
    BY <1>1, <1>3, <1>6, NoCallTyped DEF Typed, TypeOK
  <2>3. b \in BookingsOf(call[d].slot)
    BY <1>6, <2>1, <2>2 DEF BookingsOf, Here
  <2> QED
    BY <1>6, <2>1, <2>2, <2>3 DEF RaceInv, OnlyRaced
<1>7. OnlyRaced'
  BY <1>6 DEF OnlyRaced, BookingsOf, Here
<1> QED
  BY <1>5, <1>7

LEMMA PutRaced ==
    ASSUME RaceInv, NEW b \in Reservations, NEW s \in Slots, Put(b, s), UNCHANGED call
    PROVE  (OnlyRaced /\ LostWasRaced)'
<1>1. Typed
  BY DEF RaceInv
<1>2. PICK row \in Reservation :
         /\ booking' = [booking EXCEPT ![b] = row]
         /\ row.slot = s /\ ~row.lost /\ (BeingDeleted(s) => row.raced)
  BY DEF Put
<1>3. booking'[b] = row /\ \A o \in Reservations : o # b => booking'[o] = booking[o]
  BY <1>1, <1>2 DEF Typed, TypeOK
<1>4. LostWasRaced'
  <2> SUFFICES ASSUME NEW o \in Reservations, booking'[o] # Null, booking'[o].lost
               PROVE  booking'[o].raced
    BY DEF LostWasRaced
  <2>1. o # b
    BY <1>2, <1>3
  <2> QED
    BY <1>3, <2>1 DEF RaceInv, LostWasRaced
<1>5. ASSUME NEW d \in Calls, call[d].at = "delete",
             NEW o \in Reservations, booking'[o] # Null, booking'[o].slot = call[d].slot,
             ~booking'[o].lost
      PROVE  booking'[o].raced
  <2>1. CASE o = b
    <3>1. BeingDeleted(s)
      BY <1>2, <1>3, <1>5, <2>1 DEF BeingDeleted, At
    <3> QED
      BY <1>2, <1>3, <2>1, <3>1
  <2>2. CASE o # b
    <3>1. booking'[o] = booking[o] /\ o \in BookingsOf(call[d].slot)
      BY <1>3, <1>5, <2>2 DEF BookingsOf, Here
    <3> QED
      BY <1>5, <3>1 DEF RaceInv, OnlyRaced
  <2> QED
    BY <2>1, <2>2
<1>6. OnlyRaced'
  BY <1>5 DEF OnlyRaced, BookingsOf, Here
<1> QED
  BY <1>4, <1>6

LEMMA BecomeRaced ==
    ASSUME RaceInv, NEW B \in SUBSET Reservations, NEW st \in Statuses \ {"pending"}, Become(B, st)
    PROVE  (OnlyRaced /\ LostWasRaced)'
<1>1. \A b \in Reservations : Restated(b) \/ booking'[b] = booking[b]
  BY BecomeMoves DEF RaceInv
<1>2. \A b \in Reservations : Null # booking[b] \/ booking'[b] = booking[b]
  BY DEF Become, Here
<1>3. UNCHANGED call
  BY DEF Become
<1>4. ASSUME NEW b \in Reservations, booking'[b] # Null
      PROVE  /\ booking[b] # Null /\ booking'[b].slot = booking[b].slot
             /\ booking'[b].lost = booking[b].lost /\ booking'[b].raced = booking[b].raced
  BY <1>1, <1>2, <1>4 DEF Restated
<1>5. LostWasRaced'
  BY <1>4 DEF RaceInv, LostWasRaced
<1>6. ASSUME NEW d \in Calls, call[d].at = "delete",
             NEW o \in Reservations, booking'[o] # Null, booking'[o].slot = call[d].slot,
             ~booking'[o].lost
      PROVE  booking'[o].raced
  <2>1. o \in BookingsOf(call[d].slot)
    BY <1>4, <1>6 DEF BookingsOf, Here
  <2> QED
    BY <1>4, <1>6, <2>1 DEF RaceInv, OnlyRaced
<1>7. OnlyRaced'
  BY <1>3, <1>6 DEF OnlyRaced, BookingsOf, Here
<1> QED
  BY <1>5, <1>7

\* Only a booking made between deleteSlot's count and its delete is deleted
\* with its slot; any booking that was there before keeps it (deleteSlot).
THEOREM LostTheorem == Spec => []LostWasRaced
<1>1. Init => RaceInv
  <2> SUFFICES ASSUME Init PROVE RaceInv
    OBVIOUS
  <2>1. \A c \in Calls : call[c].at = "idle"
    BY NoCallTyped DEF Init
  <2>2. \A b \in Reservations : booking[b] = Null
    BY DEF Init
  <2> QED
    BY <2>1, <2>2, InitTyped DEF RaceInv, OnlyRaced, LostWasRaced
<1>2. RaceInv /\ [Next]_vars => RaceInv'
  <2> SUFFICES ASSUME RaceInv, [Next]_vars PROVE RaceInv'
    OBVIOUS
  <2>1. CASE Next
    <3>1. Typed'
      BY <2>1, StepTyped DEF RaceInv
    <3>2. ASSUME Tick PROVE (OnlyRaced /\ LostWasRaced)'
      BY <3>2 DEF Tick, RaceInv, OnlyRaced, LostWasRaced, BookingsOf, Here
    <3>3. ASSUME NEW b \in Reservations, NEW s \in Slots, NEW st \in {"pending", "confirmed"},
                 Book(b, s, st)
          PROVE  (OnlyRaced /\ LostWasRaced)'
      BY <3>3, BookMoves, PutRaced DEF RaceInv, Book
    <3>4. ASSUME NEW b \in Reservations, NEW s \in Slots, Rebook(b, s)
          PROVE  (OnlyRaced /\ LostWasRaced)'
      BY <3>4, RebookMoves, PutRaced DEF RaceInv, Rebook
    <3>5. (OnlyRaced /\ LostWasRaced)'
      BY <2>1, <3>2, <3>3, <3>4, Split, OwnRaced, InsertRaced, DeleteRaced, BecomeRaced
    <3> QED
      BY <3>1, <3>5 DEF RaceInv
  <2>2. CASE UNCHANGED vars
    BY <2>2 DEF vars, RaceInv, OnlyRaced, LostWasRaced, BookingsOf, Here, Typed, TypeOK,
       CallsFit, Existing, Fits, Making, OnTurn, Turns, Applies, DateOf, ConfigOf
  <2> QED
    BY <2>1, <2>2
<1>3. RaceInv => LostWasRaced
  BY DEF RaceInv
<1> QED
  BY <1>1, <1>2, <1>3, PTL DEF Spec

-----------------------------------------------------------------------------
(* Overlapping slots were made concurrently *)

\* Two slots of an experience that share an hour.
Meet(s, t) ==
    /\ s.experience = t.experience
    /\ s.from < t.to /\ t.from < s.to

\* A call about to insert has missed every slot that is in its way.
Missed ==
    \A c \in Calls : call[c].at = "insert" =>
       \A s \in Existing : Meet(slot[s], call[c]) => s \in call[c].missed

MissInv == Typed /\ Missed /\ OverlapsWereConcurrent

(* checkForOverlappingSlots finds every slot that shares an hour.          *)
LEMMA OverlapsFindsAll ==
    ASSUME NEW s1 \in Int, NEW e1 \in Int, NEW s2 \in Int, NEW e2 \in Int,
           s1 < e2, s2 < e1
    PROVE  Overlaps(s1, e1, s2, e2)
BY DEF Overlaps

LEMMA OwnMissed ==
    ASSUME MissInv, NEW c \in Calls, OwnStep(c)
    PROVE  (Missed /\ OverlapsWereConcurrent)'
<1>1. Typed
  BY DEF MissInv
<1>2. UNCHANGED <<slot, used, booking, now>>
  BY <1>1, OwnMoves
<1>3. PICK n \in Call :
         Becomes(c, n) /\ (n.at = "insert" => Overlapping(n.experience, n.from, n.to) = {})
  BY <1>1, OwnMoves
<1>4. ASSUME NEW d \in Calls, call'[d].at = "insert", NEW s \in Existing, Meet(slot[s], call'[d])
      PROVE  s \in call'[d].missed
  <2>1. CASE d = c
    <3>1. call'[d] = n
      BY <1>1, <1>3, <2>1 DEF Becomes, Typed, TypeOK
    <3>2. slot[s] \in Slot /\ s \in Slots
      BY <1>1 DEF Existing, Typed, TypeOK, Opt
    <3>3. /\ slot[s].from \in Int /\ slot[s].to \in Int
          /\ n.from \in Int /\ n.to \in Int
      BY <3>2, CallFields DEF Slot
    <3>4. /\ slot[s].experience = n.experience
          /\ slot[s].from < n.to /\ n.from < slot[s].to
      BY <1>4, <3>1 DEF Meet
    <3>5. Overlaps(slot[s].from, slot[s].to, n.from, n.to)
      BY <3>3, <3>4, OverlapsFindsAll
    <3>6. s \in Overlapping(n.experience, n.from, n.to)
      BY <3>4, <3>5 DEF Overlapping, SlotsOf
    <3> QED
      BY <1>3, <1>4, <3>1, <3>6
  <2>2. CASE d # c
    <3>1. call'[d] = call[d]
      BY <1>1, <1>3, <2>2 DEF Becomes, Typed, TypeOK
    <3> QED
      BY <1>4, <3>1 DEF MissInv, Missed
  <2> QED
    BY <2>1, <2>2
<1>5. Missed'
  BY <1>2, <1>4 DEF Missed, Existing, Meet
<1>6. OverlapsWereConcurrent'
  BY <1>2 DEF MissInv, OverlapsWereConcurrent, Existing
<1> QED
  BY <1>5, <1>6

LEMMA InsertMissed ==
    ASSUME MissInv, NEW c \in Calls, InsertSlot(c)
    PROVE  (Missed /\ OverlapsWereConcurrent)'
<1>1. Typed
  BY DEF MissInv
<1>2. PICK s \in Slots \ used, row \in Slot, r \in Call, n \in Call : Inserts(c, s, row, r, n)
  BY <1>1, InsertMoves
<1>3. \A d \in Calls :
         call'[d].at = "insert" =>
            /\ call[d].at = "insert"
            /\ call'[d].experience = call[d].experience
            /\ call'[d].from = call[d].from /\ call'[d].to = call[d].to
            /\ call'[d].missed = call[d].missed \cup {s}
  BY <1>1, <1>2, MissingCalls DEF Inserts
<1>4. slot'[s] = row /\ \A t \in Slots : t # s => slot'[t] = slot[t]
  BY <1>1, <1>2 DEF Inserts, Typed, TypeOK
<1>5. \A t \in Existing' : t # s => t \in Existing /\ slot'[t] = slot[t]
  BY <1>4 DEF Existing
<1>6. ASSUME NEW d \in Calls, call'[d].at = "insert", NEW t \in Existing',
             Meet(slot'[t], call'[d])
      PROVE  t \in call'[d].missed
  <2>1. CASE t = s
    BY <1>3, <1>6, <2>1
  <2>2. CASE t # s
    <3>1. t \in Existing /\ Meet(slot[t], call[d])
      BY <1>3, <1>5, <1>6, <2>2 DEF Meet
    <3>2. t \in call[d].missed
      BY <1>3, <1>6, <3>1 DEF MissInv, Missed
    <3> QED
      BY <1>3, <1>6, <3>2
  <2> QED
    BY <2>1, <2>2
<1>7. Missed'
  BY <1>6 DEF Missed, Meet
<1>8. ASSUME NEW t \in Existing, Meet(slot[t], row)
      PROVE  t \in row.missed
  <2>1. r = call[c] /\ r.at = "insert"
    BY <1>2 DEF Inserts
  <2>2. Meet(slot[t], r)
    BY <1>2, <1>8 DEF Inserts, Meet
  <2>3. t \in r.missed
    BY <2>1, <2>2 DEF MissInv, Missed
  <2> QED
    BY <1>2, <2>3 DEF Inserts
<1>9. ASSUME NEW t \in Existing', NEW u \in Existing', t # u, Meet(slot'[t], slot'[u])
      PROVE  t \in slot'[u].missed \/ u \in slot'[t].missed
  <2>1. CASE t = s
    <3>1. u \in Existing /\ slot'[u] = slot[u]
      BY <1>5, <1>9, <2>1
    <3>2. Meet(slot[u], row)
      BY <1>4, <1>9, <2>1, <3>1 DEF Meet
    <3> QED
      BY <1>4, <1>8, <2>1, <3>1, <3>2
  <2>2. CASE u = s
    <3>1. t \in Existing /\ slot'[t] = slot[t]
      BY <1>5, <1>9, <2>2
    <3>2. Meet(slot[t], row)
      BY <1>4, <1>9, <2>2, <3>1
    <3> QED
      BY <1>4, <1>8, <2>2, <3>1, <3>2
  <2>3. CASE t # s /\ u # s
    <3>1. /\ t \in Existing /\ slot'[t] = slot[t]
          /\ u \in Existing /\ slot'[u] = slot[u]
      BY <1>5, <2>3
    <3> QED
      BY <1>9, <3>1 DEF MissInv, OverlapsWereConcurrent, Meet
  <2> QED
    BY <2>1, <2>2, <2>3
<1>10. OverlapsWereConcurrent'
  BY <1>9 DEF OverlapsWereConcurrent, Meet
<1> QED
  BY <1>7, <1>10

LEMMA DeleteMissed ==
    ASSUME MissInv, NEW c \in Calls, DeleteRow(c)
    PROVE  (Missed /\ OverlapsWereConcurrent)'
<1>1. Typed
  BY DEF MissInv
<1>2. slot' = [slot EXCEPT ![call[c].slot] = Null] /\ call' = [call EXCEPT ![c] = NoCall]
  BY <1>1, DeleteMoves DEF Becomes
<1>3. \A t \in Existing' : t \in Existing /\ slot'[t] = slot[t]
  BY <1>1, <1>2 DEF Existing, Typed, TypeOK
<1>4. \A d \in Calls : call'[d].at = "insert" => call'[d] = call[d]
  BY <1>1, <1>2, NoCallTyped DEF Typed, TypeOK
<1>5. ASSUME NEW d \in Calls, call'[d].at = "insert", NEW t \in Existing',
             Meet(slot'[t], call'[d])
      PROVE  t \in call'[d].missed
  <2>1. t \in Existing /\ slot'[t] = slot[t] /\ call'[d] = call[d]
    BY <1>3, <1>4, <1>5
  <2> QED
    BY <1>5, <2>1 DEF MissInv, Missed
<1>6. Missed'
  BY <1>5 DEF Missed, Meet
<1>7. ASSUME NEW t \in Existing', NEW u \in Existing', t # u, Meet(slot'[t], slot'[u])
      PROVE  t \in slot'[u].missed \/ u \in slot'[t].missed
  <2>1. /\ t \in Existing /\ slot'[t] = slot[t]
        /\ u \in Existing /\ slot'[u] = slot[u]
    BY <1>3
  <2> QED
    BY <1>7, <2>1 DEF MissInv, OverlapsWereConcurrent, Meet
<1>8. OverlapsWereConcurrent'
  BY <1>7 DEF OverlapsWereConcurrent, Meet
<1> QED
  BY <1>6, <1>8

\* Two slots of an experience share an hour only if one was inserted by a call
\* that had looked for overlaps before the other was there
\* (checkForOverlappingSlots, createSlot and bulkCreateMultiBlock).
THEOREM OverlapTheorem == Spec => []OverlapsWereConcurrent
<1>1. Init => MissInv
  <2> SUFFICES ASSUME Init PROVE MissInv
    OBVIOUS
  <2>1. \A c \in Calls : call[c].at = "idle"
    BY NoCallTyped DEF Init
  <2>2. Existing = {}
    BY DEF Init, Existing
  <2> QED
    BY <2>1, <2>2, InitTyped DEF MissInv, Missed, OverlapsWereConcurrent
<1>2. MissInv /\ [Next]_vars => MissInv'
  <2> SUFFICES ASSUME MissInv, [Next]_vars PROVE MissInv'
    OBVIOUS
  <2>1. ASSUME UNCHANGED <<slot, call>> PROVE (Missed /\ OverlapsWereConcurrent)'
    BY <2>1 DEF MissInv, Missed, OverlapsWereConcurrent, Existing, Meet
  <2>2. CASE Next
    <3>1. Typed'
      BY <2>2, StepTyped DEF MissInv
    <3>2. ASSUME NEW b \in Reservations, NEW s \in Slots, NEW st \in {"pending", "confirmed"},
                 Book(b, s, st) \/ Rebook(b, s)
          PROVE  UNCHANGED <<slot, call>>
      BY <3>2 DEF Book, Rebook
    <3>3. ASSUME NEW B \in SUBSET Reservations, NEW st \in Statuses \ {"pending"}, Become(B, st)
          PROVE  UNCHANGED <<slot, call>>
      BY <3>3 DEF Become
    <3>4. ASSUME Tick PROVE UNCHANGED <<slot, call>>
      BY <3>4 DEF Tick
    <3>5. (Missed /\ OverlapsWereConcurrent)'
      BY <2>1, <2>2, <3>2, <3>3, <3>4, Split, OwnMissed, InsertMissed, DeleteMissed
    <3> QED
      BY <3>1, <3>5 DEF MissInv
  <2>3. CASE UNCHANGED vars
    <3>1. Typed'
      BY <2>3 DEF vars, MissInv, Typed, TypeOK, CallsFit, Existing, Fits, Making, OnTurn, Turns,
         Applies, DateOf, ConfigOf
    <3>2. (Missed /\ OverlapsWereConcurrent)'
      BY <2>1, <2>3 DEF vars
    <3> QED
      BY <3>1, <3>2 DEF MissInv
  <2> QED
    BY <2>2, <2>3
<1>3. MissInv => OverlapsWereConcurrent
  BY DEF MissInv
<1> QED
  BY <1>1, <1>2, <1>3, PTL DEF Spec

-----------------------------------------------------------------------------
(* What a bulk creation reports adds up *)

\* How far call r has counted in block b, and the times it has counted.
DoneOf(r, b) ==
    IF b < r.block THEN Turns(r.todo[b])
    ELSE IF r.at = "next" THEN r.item ELSE r.item - 1

CountedBy(r) ==
    UNION {{<<b, n>> : n \in {m \in 1 .. DoneOf(r, b) : Applies(r.todo[b], m)}}
             : b \in 1 .. r.block}

\* Its numbers are those of finite sets.
AddsUp(r) ==
    r.todo # <<>> =>
       /\ IsFiniteSet(r.mine) /\ r.created <= Cardinality(r.mine)
       /\ Cardinality(r.mine) <= r.created + r.errors
       /\ IsFiniteSet(CountedBy(r))
       /\ r.created + r.skipped + r.errors = Cardinality(CountedBy(r))

\* A slot that is yet to be inserted is no call's.
MineUsed == \A c \in Calls : call[c].mine \subseteq used

AllAddUp == \A c \in Calls : AddsUp(call[c])

AddInv == Typed /\ MineUsed /\ AllAddUp

LEMMA CountedMember ==
    ASSUME NEW r, NEW x
    PROVE  x \in CountedBy(r) <=>
              \E b \in 1 .. r.block : \E m \in 1 .. DoneOf(r, b) :
                 Applies(r.todo[b], m) /\ x = <<b, m>>
<1> DEFINE T(b) == {<<b, n>> : n \in {m \in 1 .. DoneOf(r, b) : Applies(r.todo[b], m)}}
<1>1. ASSUME NEW b
      PROVE  x \in T(b) <=> \E m \in 1 .. DoneOf(r, b) : Applies(r.todo[b], m) /\ x = <<b, m>>
  OBVIOUS
<1>2. CountedBy(r) = UNION {T(b) : b \in 1 .. r.block}
  BY DEF CountedBy
<1> HIDE DEF T
<1>3. x \in CountedBy(r) <=> \E b \in 1 .. r.block : x \in T(b)
  BY <1>2
<1> QED
  BY <1>1, <1>3

(* Calls that are equally far have counted the same times.                 *)
LEMMA CountedSame ==
    ASSUME NEW r, NEW n, n.todo = r.todo, n.block = r.block,
           \A b \in 1 .. r.block : DoneOf(n, b) = DoneOf(r, b)
    PROVE  CountedBy(n) = CountedBy(r)
<1>1. \A x : x \in CountedBy(n) <=> x \in CountedBy(r)
  BY CountedMember
<1> QED
  BY <1>1

(* So have they if one is done with a time more that does not apply,       *)
LEMMA CountedSkip ==
    ASSUME NEW r, NEW n, n.todo = r.todo, n.block = r.block,
           \A b \in 1 .. r.block : \A m :
              Applies(r.todo[b], m) => (m \in 1 .. DoneOf(n, b) <=> m \in 1 .. DoneOf(r, b))
    PROVE  CountedBy(n) = CountedBy(r)
<1>1. ASSUME NEW x PROVE x \in CountedBy(n) <=> x \in CountedBy(r)
  <2>1. x \in CountedBy(n) <=>
           \E b \in 1 .. n.block : \E m \in 1 .. DoneOf(n, b) :
              Applies(n.todo[b], m) /\ x = <<b, m>>
    BY CountedMember
  <2>2. x \in CountedBy(r) <=>
           \E b \in 1 .. r.block : \E m \in 1 .. DoneOf(r, b) :
              Applies(r.todo[b], m) /\ x = <<b, m>>
    BY CountedMember
  <2> QED
    BY <2>1, <2>2, Zenon
<1> QED
  BY <1>1

(* or if one is at the head of the next block.                             *)
LEMMA CountedNext ==
    ASSUME NEW r, NEW n, r.block \in Nat, n.todo = r.todo, n.block = r.block + 1,
           DoneOf(n, r.block + 1) = 0,
           \A b \in 1 .. r.block : DoneOf(n, b) = DoneOf(r, b)
    PROVE  CountedBy(n) = CountedBy(r)
<1>1. ASSUME NEW x PROVE x \in CountedBy(n) <=> x \in CountedBy(r)
  <2>1. x \in CountedBy(n) <=>
           \E b \in 1 .. n.block : \E m \in 1 .. DoneOf(n, b) :
              Applies(n.todo[b], m) /\ x = <<b, m>>
    BY CountedMember
  <2>2. x \in CountedBy(r) <=>
           \E b \in 1 .. r.block : \E m \in 1 .. DoneOf(r, b) :
              Applies(r.todo[b], m) /\ x = <<b, m>>
    BY CountedMember
  <2>3. \A b : b \in 1 .. n.block <=> b \in 1 .. r.block \/ b = r.block + 1
    OBVIOUS
  <2>4. \A m : m \notin 1 .. DoneOf(n, r.block + 1)
    OBVIOUS
  <2> QED
    BY <2>1, <2>2, <2>3, <2>4, Zenon
<1> QED
  BY <1>1

(* And what their numbers say is the same.                                 *)
LEMMA AddsSame ==
    ASSUME NEW r, NEW n, AddsUp(r), n.todo = r.todo, n.mine = r.mine,
           n.created = r.created, n.skipped = r.skipped, n.errors = r.errors,
           r.todo # <<>> => CountedBy(n) = CountedBy(r)
    PROVE  AddsUp(n)
BY DEF AddsUp

(* A call that is done with a time that applies has counted one more.      *)
LEMMA CountedOneMore ==
    ASSUME NEW r \in Call, OnTurn(r), IsFiniteSet(CountedBy(r)),
           NEW n, n.at = "next", n.todo = r.todo, n.block = r.block, n.item = r.item
    PROVE  /\ IsFiniteSet(CountedBy(n))
           /\ Cardinality(CountedBy(n)) = Cardinality(CountedBy(r)) + 1
<1> DEFINE t == <<r.block, r.item>>
<1>1. /\ r.block \in Nat \ {0} /\ r.item \in Nat \ {0} /\ Applies(r.todo[r.block], r.item)
      /\ r.at # "next"
  BY CallFields DEF OnTurn
<1>2. \A b \in 1 .. r.block : b # r.block => DoneOf(n, b) = DoneOf(r, b)
  BY <1>1 DEF DoneOf
<1>3. DoneOf(r, r.block) = r.item - 1 /\ DoneOf(n, r.block) = r.item
  BY <1>1 DEF DoneOf
<1>4. t \notin CountedBy(r)
  <2> SUFFICES ASSUME t \in CountedBy(r) PROVE FALSE
    OBVIOUS
  <2>1. PICK b \in 1 .. r.block : \E m \in 1 .. DoneOf(r, b) : t = <<b, m>>
    BY CountedMember
  <2>2. PICK m \in 1 .. DoneOf(r, b) : t = <<b, m>>
    BY <2>1
  <2>3. b = r.block /\ m = r.item
    BY <2>2
  <2> QED
    BY <1>1, <1>3, <2>3
<1>5. ASSUME NEW x PROVE x \in CountedBy(n) <=> x \in CountedBy(r) \/ x = t
  <2>1. ASSUME x \in CountedBy(n) PROVE x \in CountedBy(r) \/ x = t
    <3>1. PICK b \in 1 .. r.block :
             \E m \in 1 .. DoneOf(n, b) : Applies(r.todo[b], m) /\ x = <<b, m>>
      BY <2>1, CountedMember
    <3>2. PICK m \in 1 .. DoneOf(n, b) : Applies(r.todo[b], m) /\ x = <<b, m>>
      BY <3>1
    <3>3. CASE b # r.block \/ m # r.item
      <4>1. m \in 1 .. DoneOf(r, b)
        BY <1>1, <1>2, <1>3, <3>2, <3>3
      <4> QED
        BY <3>2, <4>1, CountedMember
    <3>4. CASE b = r.block /\ m = r.item
      BY <3>2, <3>4
    <3> QED
      BY <3>3, <3>4
  <2>2. ASSUME x \in CountedBy(r) PROVE x \in CountedBy(n)
    <3>1. PICK b \in 1 .. r.block :
             \E m \in 1 .. DoneOf(r, b) : Applies(r.todo[b], m) /\ x = <<b, m>>
      BY <2>2, CountedMember
    <3>2. PICK m \in 1 .. DoneOf(r, b) : Applies(r.todo[b], m) /\ x = <<b, m>>
      BY <3>1
    <3>3. m \in 1 .. DoneOf(n, b)
      BY <1>1, <1>2, <1>3, <3>2
    <3> QED
      BY <3>2, <3>3, CountedMember
  <2>3. t \in CountedBy(n)
    <3>1. r.block \in 1 .. n.block /\ r.item \in 1 .. DoneOf(n, r.block)
      BY <1>1, <1>3
    <3> QED
      BY <1>1, <3>1, CountedMember
  <2> QED
    BY <2>1, <2>2, <2>3
<1> HIDE DEF t
<1>6. CountedBy(n) = CountedBy(r) \cup {t}
  BY <1>5
<1> QED
  BY <1>4, <1>6, FS_AddElement

(* A call that failed with a time, or found it taken.                      *)
LEMMA AddsFailed ==
    ASSUME NEW r \in Call, Fits(r), AddsUp(r), r.at \in {"existing", "check", "insert"}
    PROVE  AddsUp(Failed(r)) /\ Failed(r).mine \subseteq r.mine
<1>1. CASE r.todo # <<>>
  <2> DEFINE n == [r EXCEPT !.at = "next", !.missed = {}, !.errors = @ + 1]
  <2>1. /\ n.at = "next" /\ n.todo = r.todo /\ n.block = r.block /\ n.item = r.item
        /\ n.mine = r.mine /\ n.created = r.created /\ n.skipped = r.skipped
        /\ n.errors = r.errors + 1
    BY DEF Call
  <2>2. n = Failed(r)
    BY <1>1 DEF Failed
  <2> HIDE DEF n
  <2>3. OnTurn(r)
    BY <1>1 DEF Fits
  <2>4. /\ IsFiniteSet(CountedBy(n))
        /\ Cardinality(CountedBy(n)) = Cardinality(CountedBy(r)) + 1
    BY <1>1, <2>1, <2>3, CountedOneMore DEF AddsUp
  <2>5. r.created \in Nat /\ r.skipped \in Nat /\ r.errors \in Nat
    BY CallFields
  <2>6. Cardinality(r.mine) \in Nat
    BY <1>1, FS_CardinalityType DEF AddsUp
  <2> QED
    BY <1>1, <2>1, <2>2, <2>4, <2>5, <2>6 DEF AddsUp
<1>2. CASE r.todo = <<>>
  BY <1>2, NoCallTyped DEF Failed, AddsUp
<1> QED
  BY <1>1, <1>2

LEMMA AddsFound ==
    ASSUME NEW r \in Call, Fits(r), AddsUp(r), r.at = "existing",
           NEW n, n = [r EXCEPT !.at = "next", !.skipped = @ + 1]
    PROVE  AddsUp(n) /\ n.mine = r.mine
<1>1. /\ n.at = "next" /\ n.todo = r.todo /\ n.block = r.block /\ n.item = r.item
      /\ n.mine = r.mine /\ n.created = r.created /\ n.skipped = r.skipped + 1
      /\ n.errors = r.errors
  BY DEF Call
<1>2. OnTurn(r) /\ r.todo # <<>>
  BY DEF Fits
<1>3. /\ IsFiniteSet(CountedBy(n))
      /\ Cardinality(CountedBy(n)) = Cardinality(CountedBy(r)) + 1
  BY <1>1, <1>2, CountedOneMore DEF AddsUp
<1>4. r.created \in Nat /\ r.skipped \in Nat /\ r.errors \in Nat
  BY CallFields
<1> QED
  BY <1>1, <1>2, <1>3, <1>4 DEF AddsUp

(* A call that made a slot.                                                *)
LEMMA AddsMade ==
    ASSUME NEW r \in Call, Fits(r), AddsUp(r), r.at = "insert", r.todo # <<>>,
           NEW s, s \notin r.mine,
           NEW n, n = Knows(r, s)
    PROVE  AddsUp(n) /\ n.mine = r.mine \cup {s}
<1>1. /\ n.at = "next" /\ n.todo = r.todo /\ n.block = r.block /\ n.item = r.item
      /\ n.mine = r.mine \cup {s} /\ n.created = r.created + 1 /\ n.skipped = r.skipped
      /\ n.errors = r.errors
  BY DEF Call, Knows
<1>2. OnTurn(r)
  BY DEF Fits
<1>3. /\ IsFiniteSet(CountedBy(n))
      /\ Cardinality(CountedBy(n)) = Cardinality(CountedBy(r)) + 1
  BY <1>1, <1>2, CountedOneMore DEF AddsUp
<1>4. IsFiniteSet(n.mine) /\ Cardinality(n.mine) = Cardinality(r.mine) + 1
  BY <1>1, FS_AddElement DEF AddsUp
<1>5. r.created \in Nat /\ r.skipped \in Nat /\ r.errors \in Nat
  BY CallFields
<1>6. Cardinality(r.mine) \in Nat
  BY FS_CardinalityType DEF AddsUp
<1>7. /\ r.created <= Cardinality(r.mine) /\ Cardinality(r.mine) <= r.created + r.errors
      /\ r.created + r.skipped + r.errors = Cardinality(CountedBy(r))
  BY DEF AddsUp
<1>8. n.created <= Cardinality(n.mine) /\ Cardinality(n.mine) <= n.created + n.errors
  BY <1>1, <1>4, <1>5, <1>6, <1>7
<1>9. n.created + n.skipped + n.errors = Cardinality(CountedBy(n))
  BY <1>1, <1>3, <1>5, <1>7
<1> QED
  BY <1>1, <1>3, <1>4, <1>8, <1>9 DEF AddsUp

(* A call that made a slot and lost the answer.                            *)
LEMMA AddsLost ==
    ASSUME NEW r \in Call, Fits(r), AddsUp(r), r.at = "insert", r.todo # <<>>,
           NEW s, s \notin r.mine, NEW n, n = Failed(Owning(r, s))
    PROVE  AddsUp(n) /\ n.mine = r.mine \cup {s}
<1>1. /\ n.at = "next" /\ n.todo = r.todo /\ n.block = r.block /\ n.item = r.item
      /\ n.mine = r.mine \cup {s} /\ n.created = r.created /\ n.skipped = r.skipped
      /\ n.errors = r.errors + 1
  BY DEF Call, Failed, Owning
<1>2. OnTurn(r)
  BY DEF Fits
<1>3. /\ IsFiniteSet(CountedBy(n))
      /\ Cardinality(CountedBy(n)) = Cardinality(CountedBy(r)) + 1
  BY <1>1, <1>2, CountedOneMore DEF AddsUp
<1>4. IsFiniteSet(n.mine) /\ Cardinality(n.mine) = Cardinality(r.mine) + 1
  BY <1>1, FS_AddElement DEF AddsUp
<1>5. r.created \in Nat /\ r.skipped \in Nat /\ r.errors \in Nat
  BY CallFields
<1>6. Cardinality(r.mine) \in Nat
  BY FS_CardinalityType DEF AddsUp
<1> QED
  BY <1>1, <1>3, <1>4, <1>5, <1>6 DEF AddsUp

(* A call that looks on at the same time.                                  *)
LEMMA AddsLooking ==
    ASSUME NEW r \in Call, AddsUp(r), r.at # "next", NEW n, n.at # "next",
           n.todo = r.todo, n.block = r.block, n.item = r.item, n.mine = r.mine,
           n.created = r.created, n.skipped = r.skipped, n.errors = r.errors
    PROVE  AddsUp(n)
<1>1. \A b \in 1 .. r.block : DoneOf(n, b) = DoneOf(r, b)
  BY DEF DoneOf
<1> QED
  BY <1>1, CountedSame, AddsSame

(* A call at its loops' heads.                                             *)
LEMMA AddsNext ==
    ASSUME NEW r \in Call, Fits(r), AddsUp(r), r.at = "next", NEW n,
           n = IF r.block > 0 /\ r.item + 1 <= Turns(r.todo[r.block])
               THEN IF Applies(r.todo[r.block], r.item + 1)
                    THEN Turn(r, r.item + 1)
                    ELSE [r EXCEPT !.item = r.item + 1]
               ELSE IF r.block < Len(r.todo) /\ ValidBlock(r.todo[r.block + 1])
                    THEN [r EXCEPT !.block = @ + 1, !.item = 0]
                    ELSE NoCall
    PROVE  AddsUp(n) /\ n.mine \subseteq r.mine
<1>1. r.block \in Nat /\ r.item \in Nat /\ r.todo \in Seq(Block) /\ Len(r.todo) \in Nat
  BY CallFields
<1>2. CASE /\ r.block > 0 /\ r.item + 1 <= Turns(r.todo[r.block])
           /\ Applies(r.todo[r.block], r.item + 1)
  <2>1. n = Turn(r, r.item + 1)
    BY <1>2
  <2>2. /\ n.at = "existing" /\ n.todo = r.todo /\ n.block = r.block /\ n.item = r.item + 1
        /\ n.mine = r.mine /\ n.created = r.created /\ n.skipped = r.skipped
        /\ n.errors = r.errors
    BY <2>1 DEF Turn, Call
  <2>3. \A b \in 1 .. r.block : DoneOf(n, b) = DoneOf(r, b)
    BY <1>1, <2>2 DEF DoneOf
  <2> QED
    BY <2>2, <2>3, CountedSame, AddsSame
<1>3. CASE /\ r.block > 0 /\ r.item + 1 <= Turns(r.todo[r.block])
           /\ ~Applies(r.todo[r.block], r.item + 1)
  <2>1. n = [r EXCEPT !.item = r.item + 1]
    BY <1>3
  <2>2. /\ n.at = "next" /\ n.todo = r.todo /\ n.block = r.block /\ n.item = r.item + 1
        /\ n.mine = r.mine /\ n.created = r.created /\ n.skipped = r.skipped
        /\ n.errors = r.errors
    BY <2>1 DEF Call
  <2>3. \A b \in 1 .. r.block :
           DoneOf(n, b) = DoneOf(r, b) \/ (b = r.block /\ DoneOf(n, b) = r.item + 1)
    BY <1>1, <2>2 DEF DoneOf
  <2>4. DoneOf(r, r.block) = r.item
    BY <1>1 DEF DoneOf
  <2>5. ASSUME NEW b \in 1 .. r.block, NEW m, Applies(r.todo[b], m)
        PROVE  m \in 1 .. DoneOf(n, b) <=> m \in 1 .. DoneOf(r, b)
    <3>1. CASE DoneOf(n, b) = DoneOf(r, b)
      BY <3>1
    <3>2. CASE b = r.block /\ DoneOf(n, b) = r.item + 1
      <4>1. m # r.item + 1
        BY <1>3, <2>5, <3>2
      <4> QED
        BY <1>1, <2>4, <3>2, <4>1
    <3> QED
      BY <2>3, <3>1, <3>2
  <2>6. CountedBy(n) = CountedBy(r)
    BY <2>2, <2>5, CountedSkip
  <2> QED
    BY <2>2, <2>6, AddsSame
<1>4. CASE /\ ~(r.block > 0 /\ r.item + 1 <= Turns(r.todo[r.block]))
           /\ r.block < Len(r.todo) /\ ValidBlock(r.todo[r.block + 1])
  <2>1. n = [r EXCEPT !.block = @ + 1, !.item = 0]
    BY <1>4
  <2>2. /\ n.at = "next" /\ n.todo = r.todo /\ n.block = r.block + 1 /\ n.item = 0
        /\ n.mine = r.mine /\ n.created = r.created /\ n.skipped = r.skipped
        /\ n.errors = r.errors
    BY <2>1 DEF Call
  <2>3. r.block > 0 => r.item = Turns(r.todo[r.block])
    <3> SUFFICES ASSUME r.block > 0 PROVE r.item = Turns(r.todo[r.block])
      OBVIOUS
    <3>1. Turns(r.todo[r.block]) \in Int
      BY BlockTyped, BlockFields
    <3> QED
      BY <1>1, <1>4, <3>1 DEF Fits
  <2>4. \A b \in 1 .. r.block : DoneOf(n, b) = DoneOf(r, b)
    BY <1>1, <2>2, <2>3 DEF DoneOf
  <2>5. DoneOf(n, r.block + 1) = 0
    BY <1>1, <2>2 DEF DoneOf
  <2>6. CountedBy(n) = CountedBy(r)
    BY <1>1, <2>2, <2>4, <2>5, CountedNext
  <2> QED
    BY <2>2, <2>6, AddsSame
<1>5. CASE /\ ~(r.block > 0 /\ r.item + 1 <= Turns(r.todo[r.block]))
           /\ ~(r.block < Len(r.todo) /\ ValidBlock(r.todo[r.block + 1]))
  BY <1>5, NoCallTyped DEF AddsUp
<1> QED
  BY <1>2, <1>3, <1>4, <1>5

(* A step of its own leaves a call's numbers right.                        *)
LEMMA OwnAdds ==
    ASSUME AddInv, NEW c \in Calls, OwnStep(c)
    PROVE  (MineUsed /\ AllAddUp)'
<1>1. call[c] \in Call /\ Fits(call[c]) /\ AddsUp(call[c]) /\ call[c].mine \subseteq used
  BY DEF AddInv, Typed, TypeOK, CallsFit, MineUsed, AllAddUp
<1>2. PICK r \in Call : r = call[c] /\ Fits(r) /\ AddsUp(r) /\ r.mine \subseteq used
  BY <1>1
<1>3. used' = used
  BY OwnMoves DEF AddInv
<1>4. ASSUME NEW n, Becomes(c, n), AddsUp(n), n.mine \subseteq used
      PROVE  (MineUsed /\ AllAddUp)'
  <2>1. \A d \in Calls : call'[d] = IF d = c THEN n ELSE call[d]
    BY <1>4 DEF Becomes, AddInv, Typed, TypeOK
  <2>2. \A d \in Calls : AddsUp(call'[d]) /\ call'[d].mine \subseteq used
    BY <1>4, <2>1 DEF AddInv, MineUsed, AllAddUp
  <2>3. MineUsed'
    BY <1>3, <2>2 DEF MineUsed
  <2>4. AllAddUp'
    BY <2>2 DEF AllAddUp, AddsUp, CountedBy, DoneOf, Turns, Applies, DateOf, ConfigOf
  <2> QED
    BY <2>3, <2>4
<1>5. ASSUME NEW e \in Experiences, NEW from \in 0 .. Horizon, NEW to \in 0 .. Horizon,
             NEW k \in Capacities, CreateSlot(c, e, from, to, k)
      PROVE  (MineUsed /\ AllAddUp)'
  <2>1. Becomes(c, Single(e, from, to, k))
    BY <1>5 DEF CreateSlot, Becomes, Single
  <2>2. Single(e, from, to, k).todo = <<>> /\ Single(e, from, to, k).mine = {}
    BY DEF Single, NoCall
  <2> QED
    BY <1>4, <2>1, <2>2 DEF AddsUp
<1>6. ASSUME NEW e \in Experiences, NEW q \in BulkRequests, BulkCreate(c, e, q)
      PROVE  (MineUsed /\ AllAddUp)'
  <2> DEFINE n == Many(e, q)
  <2>1. Becomes(c, n)
    BY <1>6 DEF BulkCreate, Becomes, Many
  <2>2. /\ n.block = 0 /\ n.mine = {} /\ n.created = 0 /\ n.skipped = 0 /\ n.errors = 0
    BY DEF Many, NoCall
  <2> HIDE DEF n
  <2>3. CountedBy(n) = {}
    <3>1. 1 .. 0 = {}
      OBVIOUS
    <3>2. \A x : x \notin CountedBy(n)
      BY <2>2, <3>1, CountedMember
    <3> QED
      BY <3>2
  <2>4. AddsUp(n)
    BY <2>2, <2>3, FS_EmptySet DEF AddsUp
  <2> QED
    BY <1>4, <2>1, <2>2, <2>4
<1>7. ASSUME r.at \in {"existing", "check", "insert"}, Becomes(c, Failed(r))
      PROVE  (MineUsed /\ AllAddUp)'
  BY <1>2, <1>4, <1>7, AddsFailed
<1>8. ASSUME NEW v \in {"check", "insert"}, r.at = "check" \/ r.at = "existing",
             Becomes(c, [r EXCEPT !.at = v])
      PROVE  (MineUsed /\ AllAddUp)'
  <2> DEFINE n == [r EXCEPT !.at = v]
  <2>1. /\ n.at = v /\ n.todo = r.todo /\ n.block = r.block /\ n.item = r.item
        /\ n.mine = r.mine /\ n.created = r.created /\ n.skipped = r.skipped
        /\ n.errors = r.errors
    BY DEF Call
  <2>2. Becomes(c, n)
    BY <1>8
  <2> HIDE DEF n
  <2>3. AddsUp(n)
    BY <1>2, <1>8, <2>1, AddsLooking
  <2> QED
    BY <1>2, <1>4, <2>1, <2>2, <2>3
<1>9. ASSUME CheckOverlap(c) PROVE (MineUsed /\ AllAddUp)'
  <2>1. r.at = "check"
    BY <1>2, <1>9 DEF CheckOverlap, At
  <2>2. Becomes(c, [r EXCEPT !.at = "insert"]) \/ Becomes(c, Failed(r))
    BY <1>2, <1>9 DEF CheckOverlap, Becomes
  <2> QED
    BY <1>7, <1>8, <2>1, <2>2
<1>10. ASSUME NextTurn(c) PROVE (MineUsed /\ AllAddUp)'
  <2> DEFINE n == IF r.block > 0 /\ r.item + 1 <= Turns(r.todo[r.block])
                  THEN IF Applies(r.todo[r.block], r.item + 1)
                       THEN Turn(r, r.item + 1)
                       ELSE [r EXCEPT !.item = r.item + 1]
                  ELSE IF r.block < Len(r.todo) /\ ValidBlock(r.todo[r.block + 1])
                       THEN [r EXCEPT !.block = @ + 1, !.item = 0]
                       ELSE NoCall
  <2>1. r.at = "next"
    BY <1>2, <1>10 DEF NextTurn, At
  <2>2. Becomes(c, n)
    BY <1>2, <1>10 DEF NextTurn, Becomes, Turn
  <2>3. AddsUp(n) /\ n.mine \subseteq r.mine
    BY <1>2, <2>1, AddsNext
  <2> HIDE DEF n
  <2> QED
    BY <1>2, <1>4, <2>2, <2>3
<1>11. ASSUME FindExistingSlot(c) PROVE (MineUsed /\ AllAddUp)'
  <2> DEFINE found == [r EXCEPT !.at = "next", !.skipped = @ + 1]
  <2>1. r.at = "existing"
    BY <1>2, <1>11 DEF FindExistingSlot, At
  <2>2. \/ Becomes(c, found) \/ Becomes(c, [r EXCEPT !.at = "check"]) \/ Becomes(c, Failed(r))
    BY <1>2, <1>11 DEF FindExistingSlot, Becomes
  <2>3. AddsUp(found) /\ found.mine = r.mine
    BY <1>2, <2>1, AddsFound
  <2> HIDE DEF found
  <2>4. Becomes(c, found) => (MineUsed /\ AllAddUp)'
    BY <1>2, <1>4, <2>3
  <2> QED
    BY <1>7, <1>8, <2>1, <2>2, <2>4
<1>12. ASSUME NEW s \in Slots, DeleteSlot(c, s) PROVE (MineUsed /\ AllAddUp)'
  <2>1. PICK n \in Call :
           /\ n = [NoCall EXCEPT !.at = "delete", !.slot = s]
           /\ n.at = "delete" /\ n.slot = s /\ n.todo = <<>> /\ n.block = 0 /\ n.item = 0
           /\ n.mine = {}
    BY DeleteSlotCall
  <2>2. Becomes(c, n)
    BY <1>12, <2>1 DEF DeleteSlot, Becomes
  <2> QED
    BY <1>4, <2>1, <2>2 DEF AddsUp
<1>13. ASSUME Crash(c) PROVE (MineUsed /\ AllAddUp)'
  BY <1>4, <1>13, NoCallTyped DEF Crash, Becomes, AddsUp
<1>14. ASSUME SlotFails(c) PROVE (MineUsed /\ AllAddUp)'
  <2>1. r.at \in {"existing", "check", "insert"} /\ Becomes(c, Failed(r))
    BY <1>2, <1>14 DEF SlotFails, Becomes
  <2> QED
    BY <1>7, <2>1
<1> QED
  BY <1>5, <1>6, <1>9, <1>10, <1>11, <1>12, <1>13, <1>14 DEF OwnStep

(* A slot that is inserted is the inserting call's, and no other's.        *)
LEMMA InsertAdds ==
    ASSUME AddInv, NEW c \in Calls, InsertSlot(c)
    PROVE  (MineUsed /\ AllAddUp)'
<1>1. \A d \in Calls : /\ call[d] \in Call /\ Fits(call[d]) /\ AddsUp(call[d])
                        /\ call[d].mine \subseteq used
  BY DEF AddInv, Typed, TypeOK, CallsFit, MineUsed, AllAddUp
<1>2. PICK r \in Call : r = call[c] /\ Fits(r) /\ AddsUp(r) /\ r.mine \subseteq used
  BY <1>1
<1>3. PICK s \in Slots \ used :
         /\ used' = used \cup {s}
         /\ \E after \in After(r, s) : call' = [Missing(s) EXCEPT ![c] = after]
  BY <1>2 DEF InsertSlot, Bulk, After, Knows, Owning
<1>4. r.at = "insert"
  BY <1>2 DEF InsertSlot, At
<1>5. AddsUp(call'[c]) /\ call'[c].mine \subseteq used'
  <2>1. call'[c] \in After(r, s)
    BY <1>3 DEF Missing
  <2>2. CASE r.todo # <<>>
    <3>1. AddsUp(call'[c]) /\ call'[c].mine = r.mine \cup {s}
      BY <1>2, <1>3, <1>4, <2>1, <2>2, AddsMade, AddsLost DEF After
    <3> QED
      BY <1>2, <1>3, <3>1
  <2>3. CASE r.todo = <<>>
    <3>1. Owning(r, s).todo = <<>>
      BY <2>3 DEF Owning, Call
    <3>2. call'[c] = NoCall
      BY <2>1, <2>3, <3>1 DEF After, Failed
    <3> QED
      BY <3>2, NoCallTyped DEF AddsUp
  <2> QED
    BY <2>2, <2>3
<1>6. ASSUME NEW d \in Calls, d # c PROVE AddsUp(call'[d]) /\ call'[d].mine \subseteq used'
  <2>1. CASE call[d].at # "insert"
    <3>1. call'[d] = call[d]
      BY <1>3, <1>6, <2>1 DEF Missing, At
    <3> QED
      BY <1>1, <1>3, <3>1
  <2>2. CASE call[d].at = "insert"
    <3> DEFINE n == [call[d] EXCEPT !.missed = @ \cup {s}]
    <3>1. call'[d] = n
      BY <1>3, <1>6, <2>2 DEF Missing, At
    <3>2. call[d] \in Call
      BY <1>1
    <3>3. /\ n.at = call[d].at /\ n.todo = call[d].todo /\ n.block = call[d].block
          /\ n.item = call[d].item /\ n.mine = call[d].mine /\ n.created = call[d].created
          /\ n.skipped = call[d].skipped /\ n.errors = call[d].errors
      BY <3>2 DEF Call
    <3> HIDE DEF n
    <3>4. AddsUp(n)
      BY <1>1, <2>2, <3>2, <3>3, AddsLooking
    <3> QED
      BY <1>1, <1>3, <3>1, <3>3, <3>4
  <2> QED
    BY <2>1, <2>2
<1>7. \A d \in Calls : AddsUp(call'[d]) /\ call'[d].mine \subseteq used'
  BY <1>5, <1>6
<1>8. MineUsed'
  BY <1>7 DEF MineUsed
<1>9. AllAddUp'
  BY <1>7 DEF AllAddUp, AddsUp, CountedBy, DoneOf, Turns, Applies, DateOf, ConfigOf
<1> QED
  BY <1>8, <1>9

LEMMA DeleteAdds ==
    ASSUME AddInv, NEW c \in Calls, DeleteRow(c)
    PROVE  (MineUsed /\ AllAddUp)'
<1>1. used' = used /\ Becomes(c, NoCall)
  BY DeleteMoves DEF AddInv
<1>2. \A d \in Calls : call'[d] = IF d = c THEN NoCall ELSE call[d]
  BY <1>1 DEF Becomes, AddInv, Typed, TypeOK
<1>3. \A d \in Calls : AddsUp(call'[d]) /\ call'[d].mine \subseteq used
  BY <1>2, NoCallTyped DEF AddInv, MineUsed, AllAddUp, AddsUp
<1>4. MineUsed'
  BY <1>1, <1>3 DEF MineUsed
<1>5. AllAddUp'
  BY <1>3 DEF AllAddUp, AddsUp, CountedBy, DoneOf, Turns, Applies, DateOf, ConfigOf
<1> QED
  BY <1>4, <1>5

\* What a bulk creation reports adds up at every point of its loops, whichever of
\* its slots overlapped, met an error of the database or lost the answer to its
\* insert: there is one count for every time that applies, no more slots are
\* counted as created than it made, and those it made besides are among the errors
\* (createSlot's catch in bulkCreateSlots and bulkCreateMultiBlock).
THEOREM BulkTheorem == Spec => []BulkAddsUp
<1>1. Init => AddInv
  <2> SUFFICES ASSUME Init PROVE AddInv
    OBVIOUS
  <2>1. \A c \in Calls : call[c].todo = <<>> /\ call[c].mine = {}
    BY NoCallTyped DEF Init
  <2> QED
    BY <2>1, InitTyped DEF AddInv, MineUsed, AllAddUp, AddsUp
<1>2. AddInv /\ [Next]_vars => AddInv'
  <2> SUFFICES ASSUME AddInv, [Next]_vars PROVE AddInv'
    OBVIOUS
  <2>1. ASSUME UNCHANGED <<used, call>> PROVE (MineUsed /\ AllAddUp)'
    <3>1. used' = used /\ call' = call
      BY <2>1
    <3>2. \A d \in Calls : AddsUp(call'[d]) /\ call'[d].mine \subseteq used'
      BY <3>1 DEF AddInv, MineUsed, AllAddUp
    <3>3. MineUsed'
      BY <3>2 DEF MineUsed
    <3>4. AllAddUp'
      BY <3>2 DEF AllAddUp, AddsUp, CountedBy, DoneOf, Turns, Applies, DateOf, ConfigOf
    <3> QED
      BY <3>3, <3>4
  <2>2. CASE Next
    <3>1. Typed'
      BY <2>2, StepTyped DEF AddInv
    <3>2. ASSUME NEW b \in Reservations, NEW s \in Slots, NEW st \in {"pending", "confirmed"},
                 Book(b, s, st) \/ Rebook(b, s)
          PROVE  UNCHANGED <<used, call>>
      BY <3>2 DEF Book, Rebook
    <3>3. ASSUME NEW B \in SUBSET Reservations, NEW st \in Statuses \ {"pending"}, Become(B, st)
          PROVE  UNCHANGED <<used, call>>
      BY <3>3 DEF Become
    <3>4. ASSUME Tick PROVE UNCHANGED <<used, call>>
      BY <3>4 DEF Tick
    <3>5. (MineUsed /\ AllAddUp)'
      BY <2>1, <2>2, <3>2, <3>3, <3>4, Split, OwnAdds, InsertAdds, DeleteAdds
    <3> QED
      BY <3>1, <3>5 DEF AddInv
  <2>3. CASE UNCHANGED vars
    <3>1. Typed'
      BY <2>3 DEF vars, AddInv, Typed, TypeOK, CallsFit, Existing, Fits, Making, OnTurn, Turns,
         Applies, DateOf, ConfigOf
    <3>2. (MineUsed /\ AllAddUp)'
      BY <2>1, <2>3 DEF vars
    <3> QED
      BY <3>1, <3>2 DEF AddInv
  <2> QED
    BY <2>2, <2>3
<1>3. AddInv => BulkAddsUp
  BY DEF AddInv, AllAddUp, AddsUp, CountedBy, DoneOf, BulkAddsUp, Bulk
<1> QED
  BY <1>1, <1>2, <1>3, PTL DEF Spec

=============================================================================
