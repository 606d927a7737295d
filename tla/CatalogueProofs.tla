-------------------------- MODULE CatalogueProofs --------------------------
(***************************************************************************)
(* Catalogue keeps its promises for any number of resorts, experiences,    *)
(* reviews and requests.  What a request knows of the row it is about      *)
(* comes first, then the invariants: each counts what the requests under   *)
(* way may still do.                                                       *)
(***************************************************************************)
EXTENDS Catalogue, FiniteSetTheorems, TLAPS

\* The kind of row that each step of a request is about.
Fits(r) ==
    /\ r.at \in {"edit", "submit", "remove"} => r.row \in Resorts
    /\ r.at \in {"patch", "withdraw", "review", "rate"} => r.row \in Experiences
    /\ r.at \in {"patch", "withdraw"} => r.found = "active"
    /\ r.at = "patch" => r.status \in ExperienceStatus
    /\ r.at = "decide" => /\ r.row \in Rows /\ r.status \in Verdicts(r.row)
                          /\ r.found = "under_review"

CallsFit == \A c \in Calls : Fits(call[c])

\* A resort that is being removed was there, and no id is used again.
Known == \A c \in Calls : At(c, "remove") => row[call[c].row] # Null

Typed == TypeOK /\ CallsFit /\ Known

Moves(c, r) == call' = [call EXCEPT ![c] = r]

-----------------------------------------------------------------------------
(* Requests *)

LEMMA NoCallTyped == NoCall \in Call /\ NoCall.at = "idle" /\ Fits(NoCall)
BY DEF NoCall, Call, Steps, Opt, Fits

LEMMA CallTyped ==
    \A r \in Call :
        /\ \A v \in Steps : [r EXCEPT !.at = v] \in Call
        /\ \A v \in Opt(Rows) : [r EXCEPT !.row = v] \in Call
        /\ \A v \in Opt(ResortStatus \cup ExperienceStatus) :
              [r EXCEPT !.status = v] \in Call /\ [r EXCEPT !.found = v] \in Call
        /\ \A v \in BOOLEAN : [r EXCEPT !.admin = v] \in Call
        /\ \A v \in Nat : [r EXCEPT !.count = v] \in Call
BY DEF Call

LEMMA Moved ==
    ASSUME Typed, NEW c \in Calls, NEW r, Moves(c, r)
    PROVE  call'[c] = r /\ \A d \in Calls \ {c} : call'[d] = call[d]
BY DEF Moves, Typed, TypeOK

LEMMA CallsKeep ==
    ASSUME Typed, NEW c \in Calls, NEW r \in Call, Moves(c, r), Fits(r)
    PROVE  call' \in [Calls -> Call] /\ CallsFit'
<1>1. call' \in [Calls -> Call]
  BY DEF Moves, Typed, TypeOK
<1>2. ASSUME NEW d \in Calls PROVE Fits(call[d])'
  <2>1. CASE d = c
    BY <2>1, Moved DEF Fits
  <2>2. CASE d # c
    BY <2>2, Moved DEF Fits, Typed, CallsFit
  <2> QED
    BY <2>1, <2>2
<1> QED
  BY <1>1, <1>2 DEF CallsFit

LEMMA CallReturns ==
    ASSUME Typed, NEW c \in Calls, Return(c)
    PROVE  call' \in [Calls -> Call] /\ CallsFit'
BY NoCallTyped, CallsKeep DEF Return, Moves

RowsStay == \A x \in Rows : row[x] # Null => row'[x] # Null

LEMMA KnownKeeps ==
    ASSUME Typed, RowsStay, NEW c \in Calls, NEW r \in Call, Moves(c, r),
           r.at = "remove" => row'[r.row] # Null
    PROVE  Known'
<1>1. call'[c] = r /\ \A d \in Calls \ {c} : call'[d] = call[d]
  BY Moved
<1>2. ASSUME NEW d \in Calls, d # c, call[d].at = "remove" PROVE row'[call[d].row] # Null
  BY <1>2 DEF Typed, Known, CallsFit, Fits, RowsStay, Rows, At
<1> QED
  BY <1>1, <1>2 DEF Known, At

LEMMA KnownReturns ==
    ASSUME Typed, RowsStay, NEW c \in Calls, Return(c) PROVE Known'
<1>1. PICK r \in Call : r = NoCall
  BY NoCallTyped
<1> QED
  BY <1>1, NoCallTyped, KnownKeeps DEF Return, Moves

(* What the first half of each request remembers.                          *)
LEMMA RowRead ==
    ASSUME Typed, NEW x \in Rows, Exists(x)
    PROVE  row[x].status \in Opt(ResortStatus \cup ExperienceStatus)
BY DEF Typed, TypeOK, Status, Opt

LEMMA UpdateResortMoves ==
    ASSUME Typed, NEW c \in Calls, NEW x \in Resorts, NEW admin \in BOOLEAN,
           UpdateResort(c, x, admin)
    PROVE  \E r \in Call : Moves(c, r) /\ r.at = "edit" /\ r.row = x /\ r.admin = admin
<1> DEFINE f == row[x].status
           n == [call[c] EXCEPT !.at = "edit", !.row = x, !.found = f, !.admin = admin]
<1>1. call[c] \in Call
  BY DEF Typed, TypeOK
<1>2. n \in Call
  <2>1. f \in Opt(ResortStatus \cup ExperienceStatus) /\ x \in Opt(Rows) /\ "edit" \in Steps
    BY RowRead DEF UpdateResort, Editable, Rows, Opt, Steps
  <2> HIDE DEF f
  <2>2. [call[c] EXCEPT !.at = "edit", !.row = x] \in Call
    BY <1>1, <2>1, CallTyped
  <2>3. [call[c] EXCEPT !.at = "edit", !.row = x, !.found = f] \in Call
    BY <2>1, <2>2, CallTyped
  <2> QED
    BY <2>3, CallTyped
<1>3. n.at = "edit" /\ n.row = x /\ n.admin = admin
  BY <1>1 DEF Call
<1>4. Moves(c, n)
  BY DEF UpdateResort, Moves
<1> HIDE DEF n
<1> QED
  BY <1>2, <1>3, <1>4

LEMMA BeginMoves ==
    ASSUME Typed, NEW c \in Calls, NEW s \in Steps, NEW x \in Rows, Exists(x), Begin(c, s, x)
    PROVE  \E r \in Call : Moves(c, r) /\ r.at = s /\ r.row = x /\ r.found = row[x].status
<1> DEFINE n == [call[c] EXCEPT !.at = s, !.row = x, !.found = row[x].status]
<1>1. call[c] \in Call
  BY DEF Typed, TypeOK
<1>2. n \in Call
  <2>1. [call[c] EXCEPT !.at = s, !.row = x] \in Call
    BY <1>1, CallTyped DEF Opt
  <2> QED
    BY <2>1, RowRead, CallTyped
<1>3. n.at = s /\ n.row = x /\ n.found = row[x].status
  BY <1>1 DEF Call
<1>4. Moves(c, n)
  BY DEF Begin, Moves
<1> HIDE DEF n
<1> QED
  BY <1>2, <1>3, <1>4

LEMMA BeginWithMoves ==
    ASSUME Typed, NEW c \in Calls, NEW s \in Steps, NEW x \in Rows, Exists(x),
           NEW v \in ResortStatus \cup ExperienceStatus, BeginWith(c, s, x, v)
    PROVE  \E r \in Call : /\ Moves(c, r) /\ r.at = s /\ r.row = x
                           /\ r.found = row[x].status /\ r.status = v
<1> DEFINE n == [call[c] EXCEPT !.at = s, !.row = x, !.found = row[x].status, !.status = v]
<1>1. call[c] \in Call
  BY DEF Typed, TypeOK
<1>2. n \in Call
  <2>1. [call[c] EXCEPT !.at = s, !.row = x] \in Call
    BY <1>1, CallTyped DEF Opt
  <2>2. [call[c] EXCEPT !.at = s, !.row = x, !.found = row[x].status] \in Call
    BY <2>1, RowRead, CallTyped
  <2> QED
    BY <2>2, CallTyped DEF Opt
<1>3. n.at = s /\ n.row = x /\ n.found = row[x].status /\ n.status = v
  BY <1>1 DEF Call
<1>4. Moves(c, n)
  BY DEF BeginWith, Moves
<1> HIDE DEF n
<1> QED
  BY <1>2, <1>3, <1>4

LEMMA UpdateExperienceMoves ==
    ASSUME Typed, NEW c \in Calls, NEW x \in Experiences, NEW v \in ExperienceStatus,
           UpdateExperience(c, x, v)
    PROVE  \E r \in Call : /\ Moves(c, r) /\ r.at = "patch" /\ r.row = x /\ r.status = v
                           /\ r.found = "active"
<1>1. BeginWith(c, "patch", x, v) /\ row[x].status = "active" /\ Exists(x)
  BY DEF UpdateExperience, Found, Is, Exists
<1>2. "patch" \in Steps /\ x \in Rows
  BY DEF Steps, Rows
<1> QED
  BY <1>1, <1>2, BeginWithMoves

LEMMA DecideMoves ==
    ASSUME Typed, NEW c \in Calls, NEW x \in Rows, NEW v \in Verdicts(x), Decide(c, x, v)
    PROVE  \E r \in Call : /\ Moves(c, r) /\ r.at = "decide" /\ r.row = x /\ r.status = v
                           /\ r.found = "under_review"
<1>1. BeginWith(c, "decide", x, v) /\ row[x].status = "under_review" /\ Exists(x)
  BY DEF Decide, Undecided, Is, Exists
<1>2. "decide" \in Steps /\ v \in ResortStatus \cup ExperienceStatus
  BY DEF Steps, Verdicts, ResortStatus, ExperienceStatus
<1> QED
  BY <1>1, <1>2, BeginWithMoves

LEMMA ReviewsFinite ==
    ASSUME NEW S \in SUBSET Reviews PROVE IsFiniteSet(S) /\ Cardinality(S) \in Nat
BY CatalogueAssumption, FS_Subset, FS_CardinalityType

LEMMA InsertReviewMoves ==
    ASSUME Typed, NEW c \in Calls, InsertReview(c), Exists(call[c].row)
    PROVE  \E r \in Call : /\ Moves(c, r) /\ r.at = "rate" /\ r.row = call[c].row
                           /\ r.count = Cardinality(ReviewsOf(call[c].row)) + 1
<1> DEFINE m == Counted(call[c].row)
           n == [call[c] EXCEPT !.at = "rate", !.count = m]
<1>1. call[c] \in Call
  BY DEF Typed, TypeOK
<1>2. m \in Nat /\ m = Cardinality(ReviewsOf(call[c].row)) + 1
  BY ReviewsFinite DEF Counted, ReviewsOf
<1>3. Moves(c, n)
  BY DEF InsertReview, Moves
<1> HIDE DEF m
<1>4. n \in Call
  BY <1>1, <1>2, CallTyped DEF Steps
<1>5. n.at = "rate" /\ n.row = call[c].row /\ n.count = m
  BY <1>1 DEF Call
<1> HIDE DEF n
<1> QED
  BY <1>2, <1>3, <1>4, <1>5

-----------------------------------------------------------------------------
(* Rows *)

LEMMA RowTyped ==
    ASSUME Typed, NEW x \in Rows
    PROVE  /\ row \in [Rows -> Opt(Row)] /\ submitted \in [Rows -> 0 .. MaxRounds]
           /\ Null \notin Row /\ MaxRounds \in Nat
           /\ Exists(x) => row[x] \in Row /\ row[x].status \in Status(x)
<1>1. Null \notin Row
  BY NullIsNoRow DEF Row
<1> QED
  BY <1>1, CatalogueAssumption DEF Typed, TypeOK, Exists, Opt

(* What SetStatus writes.                                                  *)
LEMMA SetWrites ==
    ASSUME Typed, NEW x \in Rows, NEW s \in Status(x), SetStatus(x, s)
    PROVE  /\ row' \in [Rows -> Opt(Row)]
           /\ \A y \in Rows \ {x} : row'[y] = row[y] /\ submitted'[y] = submitted[y]
           /\ Exists(x) => /\ row'[x] \in Row /\ row'[x].status = s
                           /\ row'[x].resort = row[x].resort
           /\ ~Exists(x) => row' = row
           /\ submitted' = IF Exists(x) /\ s = "under_review"
                           THEN [submitted EXCEPT ![x] = @ + 1] ELSE submitted
<1> DEFINE n == [row[x] EXCEPT !.status = s]
<1>1. /\ row \in [Rows -> Opt(Row)] /\ submitted \in [Rows -> 0 .. MaxRounds]
      /\ Exists(x) => row[x] \in Row
  BY RowTyped
<1>2. s \in ResortStatus \cup ExperienceStatus
  BY DEF Status
<1>3. Exists(x) => n \in Row /\ n.status = s /\ n.resort = row[x].resort
  BY <1>1, <1>2 DEF Row
<1>4. row' = IF Exists(x) THEN [row EXCEPT ![x] = n] ELSE row
  BY DEF SetStatus
<1>5. submitted' = IF Exists(x) /\ s = "under_review"
                   THEN [submitted EXCEPT ![x] = @ + 1] ELSE submitted
  BY DEF SetStatus
<1> HIDE DEF n
<1> QED
  BY <1>1, <1>3, <1>4, <1>5 DEF Opt

(* The rows as they are typed in TypeOK.                                   *)
RowsOK ==
    /\ row \in [Rows -> Opt(Row)]
    /\ \A x \in Rows : Exists(x) => row[x].status \in Status(x)
    /\ submitted \in [Rows -> 0 .. MaxRounds]

RestOK ==
    /\ review \in [Reviews -> Opt(Experiences)]
    /\ rating \in [Experiences -> Nat]
    /\ decided \in [Rows -> Nat]
    /\ edits \in [Resorts -> Nat]
    /\ overlapped \subseteq Experiences

LEMMA TypedNext ==
    ASSUME RowsOK', RestOK', call' \in [Calls -> Call], CallsFit', Known' PROVE Typed'
BY DEF Typed, TypeOK, RowsOK, RestOK

LEMMA SetTyped ==
    ASSUME Typed, NEW x \in Rows, NEW s \in Status(x), SetStatus(x, s), MoreRounds(x, s)
    PROVE  RowsOK'
<1>1. /\ row' \in [Rows -> Opt(Row)]
      /\ \A y \in Rows \ {x} : row'[y] = row[y]
      /\ Exists(x) => row'[x].status = s
      /\ ~Exists(x) => row' = row
  BY SetWrites
<1>2. submitted \in [Rows -> 0 .. MaxRounds] /\ MaxRounds \in Nat
  BY RowTyped
<1>3. submitted' \in [Rows -> 0 .. MaxRounds]
  BY <1>2 DEF SetStatus, MoreRounds
<1>4. ASSUME NEW y \in Rows, Exists(y)' PROVE row'[y].status \in Status(y)
  <2>1. CASE y = x /\ Exists(x)
    BY <1>1, <2>1
  <2>2. CASE y # x \/ ~Exists(x)
    BY <1>1, <1>4, <2>2 DEF Exists, Typed, TypeOK
  <2> QED
    BY <2>1, <2>2
<1> QED
  BY <1>1, <1>3, <1>4 DEF RowsOK

-----------------------------------------------------------------------------
(* Type correctness *)

\* The first halves of the requests, which leave the tables alone, and the
\* steps that are no request's second half.
ReadStep(c) ==
    \/ \E r \in Resorts : \E admin \in BOOLEAN : UpdateResort(c, r, admin)
    \/ \E e \in Experiences : \E s \in ExperienceStatus : UpdateExperience(c, e, s)
    \/ \E x \in Rows : Submit(c, x) \/ \E verdict \in Verdicts(x) : Decide(c, x, verdict)
    \/ \E r \in Resorts : RemoveResort(c, r)
    \/ \E e \in Experiences : WithdrawExperience(c, e) \/ CreateReview(c, e)
    \/ Crash(c)

WriteStep(c) ==
    \/ \E v \in Reviews : CommitReview(c, v)
    \/ ResortUpdated(c) \/ ExperienceUpdated(c) \/ ExperienceWithdrawn(c)
    \/ Submitted(c) \/ Decided(c)
    \/ ResortRemoved(c) \/ InsertReview(c)

OwnStep ==
    \/ \E r \in Resorts : CreateResort(r)
    \/ \E e \in Experiences : \E r \in Resorts : \E s \in ExperienceStatus :
          CreateExperience(e, r, s)
    \/ \E e \in Experiences : ActivateExperience(e)

LEMMA StepKinds ==
    Next => (\E c \in Calls : ReadStep(c) \/ WriteStep(c)) \/ OwnStep
BY DEF Next, Step, ReadStep, WriteStep, OwnStep

LEMMA ReadLeaves ==
    ASSUME NEW c \in Calls, ReadStep(c)
    PROVE  UNCHANGED <<row, review, rating, submitted, decided, edits, overlapped>>
BY DEF ReadStep, UpdateResort, UpdateExperience, WithdrawExperience, Submit, Decide, RemoveResort,
       CreateReview, Crash

(* What a request that begins is about.                                    *)
LEMMA ReadMoves ==
    ASSUME Typed, NEW c \in Calls, ReadStep(c)
    PROVE  \/ Return(c)
           \/ \E r \in Call :
                 /\ Moves(c, r) /\ Fits(r) /\ r.at # "rate"
                 /\ r.at = "decide" => Is(r.row, "under_review")
                 /\ r.at = "edit" /\ ~r.admin => ~Is(r.row, "approved")
                 /\ r.at = "remove" => row[r.row] # Null
<1> DEFINE Goal == \E r \in Call :
                      /\ Moves(c, r) /\ Fits(r) /\ r.at # "rate"
                      /\ r.at = "decide" => Is(r.row, "under_review")
                      /\ r.at = "edit" /\ ~r.admin => ~Is(r.row, "approved")
                      /\ r.at = "remove" => row[r.row] # Null
<1>1. ASSUME NEW x \in Resorts, NEW admin \in BOOLEAN, UpdateResort(c, x, admin) PROVE Goal
  <2>1. PICK r \in Call : Moves(c, r) /\ r.at = "edit" /\ r.row = x /\ r.admin = admin
    BY <1>1, UpdateResortMoves
  <2>2. Is(x, "approved") => admin
    BY <1>1 DEF UpdateResort, Editable
  <2>3. ~r.admin => ~Is(r.row, "approved")
    BY <2>1, <2>2
  <2> QED
    BY <2>1, <2>3 DEF Fits
<1>2. ASSUME NEW x \in Experiences, NEW v \in ExperienceStatus, UpdateExperience(c, x, v)
      PROVE  Goal
  <2>1. PICK r \in Call : /\ Moves(c, r) /\ r.at = "patch" /\ r.row = x /\ r.status = v
                         /\ r.found = "active"
    BY <1>2, UpdateExperienceMoves
  <2> QED
    BY <2>1 DEF Fits
<1>3. ASSUME NEW x \in Rows, Submit(c, x) PROVE Goal
  <2>1. x \in Resorts /\ Begin(c, "submit", x) /\ "submit" \in Steps /\ Exists(x)
    BY <1>3 DEF Submit, Submittable, Found, Is, Exists, Steps, Rows
  <2>2. PICK r \in Call : Moves(c, r) /\ r.at = "submit" /\ r.row = x
    BY <2>1, BeginMoves
  <2> QED
    BY <2>1, <2>2 DEF Fits
<1>4. ASSUME NEW x \in Rows, NEW v \in Verdicts(x), Decide(c, x, v) PROVE Goal
  <2>1. PICK r \in Call : /\ Moves(c, r) /\ r.at = "decide" /\ r.row = x /\ r.status = v
                         /\ r.found = "under_review"
    BY <1>4, DecideMoves
  <2>2. Is(x, "under_review")
    BY <1>4 DEF Decide, Undecided
  <2> QED
    BY <2>1, <2>2 DEF Fits
<1>5. ASSUME NEW x \in Resorts, RemoveResort(c, x) PROVE Goal
  <2>1. Begin(c, "remove", x) /\ "remove" \in Steps /\ x \in Rows /\ row[x] # Null /\ Exists(x)
    BY <1>5 DEF RemoveResort, Steps, Rows, Exists
  <2>2. PICK r \in Call : Moves(c, r) /\ r.at = "remove" /\ r.row = x
    BY <2>1, BeginMoves
  <2> QED
    BY <2>1, <2>2 DEF Fits
<1>6. ASSUME NEW x \in Experiences, CreateReview(c, x) PROVE Goal
  <2>1. Begin(c, "review", x) /\ "review" \in Steps /\ x \in Rows /\ Exists(x)
    BY <1>6 DEF CreateReview, Found, Is, Exists, Steps, Rows
  <2>2. PICK r \in Call : Moves(c, r) /\ r.at = "review" /\ r.row = x
    BY <2>1, BeginMoves
  <2> QED
    BY <2>2 DEF Fits
<1>7. ASSUME NEW x \in Experiences, WithdrawExperience(c, x) PROVE Goal
  <2>1. /\ Begin(c, "withdraw", x) /\ "withdraw" \in Steps /\ x \in Rows /\ Exists(x)
        /\ row[x].status = "active"
    BY <1>7 DEF WithdrawExperience, Found, Is, Exists, Steps, Rows
  <2>2. PICK r \in Call : Moves(c, r) /\ r.at = "withdraw" /\ r.row = x /\ r.found = "active"
    BY <2>1, BeginMoves
  <2> QED
    BY <2>2 DEF Fits
<1>8. Crash(c) => Return(c)
  BY DEF Crash
<1> HIDE DEF Goal
<1>9. Return(c) \/ Goal
  BY <1>1, <1>2, <1>3, <1>4, <1>5, <1>6, <1>7, <1>8 DEF ReadStep
<1> QED
  BY <1>9 DEF Goal

LEMMA ReadTyped ==
    ASSUME Typed, NEW c \in Calls, ReadStep(c) PROVE Typed'
<1>1. UNCHANGED <<row, review, rating, submitted, decided, edits, overlapped>>
  BY ReadLeaves
<1>2. RowsOK' /\ RestOK'
  BY <1>1 DEF Typed, TypeOK, RowsOK, RestOK, Exists
<1>3. call' \in [Calls -> Call] /\ CallsFit'
  BY ReadMoves, CallsKeep, CallReturns
<1>4. Known'
  <2>1. RowsStay
    BY <1>1 DEF RowsStay
  <2>2. CASE Return(c)
    BY <2>1, <2>2, KnownReturns
  <2>3. ASSUME NEW r \in Call, Moves(c, r), r.at = "remove" => row[r.row] # Null PROVE Known'
    BY <1>1, <2>1, <2>3, KnownKeeps
  <2> QED
    BY <2>2, <2>3, ReadMoves
<1> QED
  BY <1>2, <1>3, <1>4, TypedNext

(* The status that a request writes.                                       *)
LEMMA WritesItsKind ==
    ASSUME Typed, NEW c \in Calls
    PROVE  /\ At(c, "submit") => call[c].row \in Rows /\ call[c].row \in Resorts
                                 /\ "under_review" \in Status(call[c].row)
           /\ At(c, "patch") => call[c].row \in Rows /\ call[c].row \in Experiences
                                /\ call[c].status \in Status(call[c].row)
           /\ At(c, "withdraw") => call[c].row \in Rows /\ call[c].row \in Experiences
                                   /\ "inactive" \in Status(call[c].row)
           /\ At(c, "decide") => call[c].row \in Rows
                                 /\ call[c].status \in Status(call[c].row)
                                 /\ call[c].status # "under_review"
                                 /\ (call[c].status = "approved" => call[c].row \in Resorts)
           /\ At(c, "rate") => call[c].row \in Experiences
           /\ At(c, "review") => call[c].row \in Experiences
           /\ At(c, "edit") => call[c].row \in Resorts
           /\ At(c, "remove") => call[c].row \in Resorts
BY CatalogueAssumption
   DEF Typed, CallsFit, Fits, At, Rows, Status, Verdicts, ResortStatus, ExperienceStatus

LEMMA RowGone ==
    \A r \in Row :
       [r EXCEPT !.status = "gone"] \in Row /\ [r EXCEPT !.status = "gone"].status = "gone"
BY DEF Row

LEMMA RemovedWrites ==
    ASSUME Typed, NEW c \in Calls, ResortRemoved(c)
    PROVE  /\ row' \in [Rows -> Opt(Row)]
           /\ \A x \in Rows :
                 \/ row'[x] = row[x]
                 \/ row'[x] \in Row /\ row'[x].status = "gone"
<1> DEFINE lost == ExperiencesOf(call[c].row)
           n(x) == IF x = call[c].row \/ x \in lost
                   THEN [row[x] EXCEPT !.status = "gone"] ELSE row[x]
<1>1. row' = [x \in Rows |-> n(x)]
  BY DEF ResortRemoved
<1>2. ASSUME NEW x \in Rows
      PROVE  n(x) = row[x] \/ (n(x) \in Row /\ n(x).status = "gone")
  <2>1. CASE x = call[c].row \/ x \in lost
    <3>1. row[x] # Null
      BY <2>1 DEF ResortRemoved, Typed, Known, ExperiencesOf, Exists
    <3>2. row[x] \in Row
      BY <3>1, RowTyped DEF Opt
    <3> QED
      BY <2>1, <3>2, RowGone
  <2>2. CASE ~(x = call[c].row \/ x \in lost)
    BY <2>2
  <2> QED
    BY <2>1, <2>2
<1>3. row \in [Rows -> Opt(Row)]
  BY DEF Typed, TypeOK
<1> HIDE DEF n
<1> QED
  BY <1>1, <1>2, <1>3 DEF Opt

(* Rows are written by SetStatus, made, or gone.                           *)
LEMMA SetStays ==
    ASSUME Typed, NEW x \in Rows, NEW s \in Status(x), SetStatus(x, s) PROVE RowsStay
<1>1. /\ \A y \in Rows \ {x} : row'[y] = row[y]
      /\ Exists(x) => row'[x] \in Row
      /\ ~Exists(x) => row' = row
  BY SetWrites
<1> QED
  BY <1>1, NullIsNoRow DEF RowsStay

LEMMA CommitReviewTyped ==
    ASSUME Typed, NEW c \in Calls, NEW v \in Reviews, CommitReview(c, v)
    PROVE  RowsOK' /\ RestOK' /\ RowsStay
<1>1. /\ call[c].row \in Experiences /\ call[c].count \in Nat
      /\ UNCHANGED <<row, submitted, decided, edits, overlapped>>
      /\ review' = [review EXCEPT ![v] = call[c].row]
      /\ rating' = [rating EXCEPT ![call[c].row] = call[c].count]
  BY WritesItsKind DEF CommitReview, Typed, TypeOK, Call
<1>2. RowsOK' /\ RowsStay
  BY <1>1 DEF Typed, TypeOK, RowsOK, RowsStay, Exists
<1>3. RestOK'
  BY <1>1 DEF Typed, TypeOK, RestOK, Opt
<1> QED
  BY <1>2, <1>3

LEMMA ResortRemovedTyped ==
    ASSUME Typed, NEW c \in Calls, ResortRemoved(c)
    PROVE  RowsOK' /\ RestOK' /\ RowsStay
<1>1. /\ row' \in [Rows -> Opt(Row)]
      /\ \A x \in Rows :
            \/ row'[x] = row[x]
            \/ row'[x] \in Row /\ row'[x].status = "gone"
  BY RemovedWrites
<1>2. UNCHANGED <<submitted, decided, edits, overlapped>>
  BY DEF ResortRemoved
<1>3. RowsOK' /\ RowsStay
  BY <1>1, <1>2, NullIsNoRow DEF Typed, TypeOK, RowsOK, RowsStay, Exists
<1>4. review' \in [Reviews -> Opt(Experiences)] /\ rating' \in [Experiences -> Nat]
  <2> DEFINE lost == ExperiencesOf(call[c].row)
  <2>1. /\ review' = [v \in Reviews |-> IF review[v] \in lost THEN Null ELSE review[v]]
        /\ rating' = [e \in Experiences |-> IF e \in lost THEN 0 ELSE rating[e]]
    BY DEF ResortRemoved
  <2> HIDE DEF lost
  <2> QED
    BY <2>1 DEF Typed, TypeOK, Opt
<1> QED
  BY <1>2, <1>3, <1>4 DEF Typed, TypeOK, RestOK

LEMMA DecidedTyped ==
    ASSUME Typed, NEW c \in Calls, Decided(c)
    PROVE  RowsOK' /\ RestOK' /\ RowsStay
<1> DEFINE x == call[c].row
           s == call[c].status
<1>1. /\ At(c, "decide") /\ SetStatus(x, s)
      /\ decided' = IF Exists(x) THEN [decided EXCEPT ![x] = @ + 1] ELSE decided
      /\ edits' = IF s = "approved" THEN [edits EXCEPT ![x] = 0] ELSE edits
      /\ UNCHANGED <<review, rating, overlapped>>
  BY DEF Decided
<1>2. /\ x \in Rows /\ s \in Status(x) /\ s # "under_review"
      /\ s = "approved" => x \in Resorts
  BY <1>1, WritesItsKind
<1> HIDE DEF x, s
<1>3. RowsOK' /\ RowsStay
  BY <1>1, <1>2, SetTyped, SetStays DEF MoreRounds
<1>4. decided' \in [Rows -> Nat] /\ edits' \in [Resorts -> Nat]
  BY <1>1, <1>2 DEF Typed, TypeOK
<1> QED
  BY <1>1, <1>3, <1>4 DEF Typed, TypeOK, RestOK

LEMMA InsertReviewTyped ==
    ASSUME Typed, NEW c \in Calls, InsertReview(c)
    PROVE  RowsOK' /\ RestOK' /\ RowsStay
<1>1. UNCHANGED <<row, review, rating, submitted, decided, edits>>
  BY DEF InsertReview
<1>2. overlapped' \subseteq Experiences
  BY WritesItsKind DEF InsertReview, Typed, TypeOK
<1> QED
  BY <1>1, <1>2 DEF Typed, TypeOK, RowsOK, RestOK, RowsStay, Exists

LEMMA WriteTyped ==
    ASSUME Typed, NEW c \in Calls, WriteStep(c) PROVE Typed'
<1>1. ASSUME RowsOK', RestOK', RowsStay, Return(c) PROVE Typed'
  BY <1>1, CallReturns, KnownReturns, TypedNext
<1>2. ASSUME NEW v \in Reviews, CommitReview(c, v) PROVE Typed'
  <2>1. Return(c)
    BY <1>2 DEF CommitReview
  <2> QED
    BY <1>1, <1>2, <2>1, CommitReviewTyped
<1>3. CASE ResortUpdated(c)
  <2>1. /\ Return(c) /\ UNCHANGED <<row, review, rating, submitted, decided, overlapped>>
        /\ call[c].row \in Resorts
    BY <1>3, WritesItsKind DEF ResortUpdated
  <2>2. edits' \in [Resorts -> Nat]
    BY <1>3, <2>1 DEF ResortUpdated, Typed, TypeOK
  <2>3. RowsOK' /\ RestOK' /\ RowsStay
    BY <2>1, <2>2 DEF Typed, TypeOK, RowsOK, RestOK, RowsStay, Exists
  <2> QED
    BY <1>1, <2>1, <2>3
<1>4. CASE ExperienceUpdated(c)
  <2>1. /\ Return(c) /\ UNCHANGED <<review, rating, decided, edits, overlapped>>
        /\ SetStatus(call[c].row, call[c].status) /\ MoreRounds(call[c].row, call[c].status)
        /\ call[c].row \in Rows /\ call[c].status \in Status(call[c].row)
    BY <1>4, WritesItsKind DEF ExperienceUpdated
  <2>2. RowsOK' /\ RowsStay
    BY <2>1, SetTyped, SetStays
  <2>3. RestOK'
    BY <2>1 DEF Typed, TypeOK, RestOK
  <2> QED
    BY <1>1, <2>1, <2>2, <2>3
<1>5. CASE Submitted(c)
  <2>1. /\ Return(c) /\ UNCHANGED <<review, rating, decided, edits, overlapped>>
        /\ SetStatus(call[c].row, "under_review") /\ MoreRounds(call[c].row, "under_review")
        /\ call[c].row \in Rows /\ "under_review" \in Status(call[c].row)
    BY <1>5, WritesItsKind DEF Submitted
  <2>2. RowsOK' /\ RowsStay
    BY <2>1, SetTyped, SetStays
  <2>3. RestOK'
    BY <2>1 DEF Typed, TypeOK, RestOK
  <2> QED
    BY <1>1, <2>1, <2>2, <2>3
<1>6. CASE Decided(c)
  <2>1. Return(c)
    BY <1>6 DEF Decided
  <2> QED
    BY <1>1, <1>6, <2>1, DecidedTyped
<1>7. CASE ResortRemoved(c)
  <2>1. Return(c)
    BY <1>7 DEF ResortRemoved
  <2> QED
    BY <1>1, <1>7, <2>1, ResortRemovedTyped
<1>8. CASE InsertReview(c)
  <2>1. RowsOK' /\ RestOK' /\ RowsStay
    BY <1>8, InsertReviewTyped
  <2>2. CASE Return(c)
    BY <1>1, <2>1, <2>2
  <2>3. CASE ~Return(c)
    <3>1. Exists(call[c].row) /\ call[c].row \in Experiences
      BY <1>8, <2>3, WritesItsKind DEF InsertReview
    <3>2. PICK r \in Call : Moves(c, r) /\ r.at = "rate" /\ r.row = call[c].row
      BY <1>8, <3>1, InsertReviewMoves
    <3>3. Fits(r)
      BY <3>1, <3>2 DEF Fits
    <3>4. Known'
      BY <2>1, <3>2, KnownKeeps
    <3> QED
      BY <2>1, <3>2, <3>3, <3>4, CallsKeep, TypedNext
  <2> QED
    BY <2>2, <2>3
<1>9. CASE ExperienceWithdrawn(c)
  <2>1. /\ Return(c) /\ UNCHANGED <<review, rating, decided, edits, overlapped>>
        /\ SetStatus(call[c].row, "inactive") /\ MoreRounds(call[c].row, "inactive")
        /\ call[c].row \in Rows /\ "inactive" \in Status(call[c].row)
    BY <1>9, WritesItsKind DEF ExperienceWithdrawn, MoreRounds
  <2>2. RowsOK' /\ RowsStay
    BY <2>1, SetTyped, SetStays
  <2>3. RestOK'
    BY <2>1 DEF Typed, TypeOK, RestOK
  <2> QED
    BY <1>1, <2>1, <2>2, <2>3
<1> QED
  BY <1>2, <1>3, <1>4, <1>5, <1>6, <1>7, <1>8, <1>9 DEF WriteStep

(* Rows that are made or set without a request in between.                 *)
LEMMA CreateExperienceWrites ==
    ASSUME Typed, NEW e \in Experiences, NEW r \in Resorts, NEW s \in ExperienceStatus,
           CreateExperience(e, r, s)
    PROVE  /\ RowsOK' /\ row[e] = Null /\ row'[e] \in Row /\ row'[e].status = s
           /\ \A x \in Rows \ {e} : row'[x] = row[x] /\ submitted'[x] = submitted[x]
           /\ submitted'[e] = IF s = "under_review" THEN submitted[e] + 1 ELSE submitted[e]
<1> DEFINE n == [status |-> s, resort |-> r]
<1>1. /\ row \in [Rows -> Opt(Row)] /\ submitted \in [Rows -> 0 .. MaxRounds] /\ e \in Rows
      /\ MaxRounds \in Nat /\ s \in Status(e) /\ Null \notin Row
  BY RowTyped, CatalogueAssumption DEF Rows, Status
<1>2. n \in Row /\ n.status = s
  BY DEF Row, Opt
<1>3. /\ row[e] = Null /\ row' = [row EXCEPT ![e] = n] /\ MoreRounds(e, s)
      /\ submitted' = [submitted EXCEPT ![e] = IF s = "under_review" THEN @ + 1 ELSE @]
  BY DEF CreateExperience
<1> HIDE DEF n
<1>4. submitted' \in [Rows -> 0 .. MaxRounds]
  BY <1>1, <1>3 DEF MoreRounds
<1>5. RowsOK'
  BY <1>1, <1>2, <1>3, <1>4 DEF RowsOK, Opt, Exists, Typed, TypeOK
<1> QED
  BY <1>1, <1>2, <1>3, <1>5

LEMMA CreateResortWrites ==
    ASSUME Typed, NEW r \in Resorts, CreateResort(r)
    PROVE  /\ RowsOK' /\ row[r] = Null /\ row'[r] \in Row /\ row'[r].status = "draft"
           /\ \A x \in Rows \ {r} : row'[x] = row[x]
           /\ UNCHANGED submitted
<1> DEFINE n == [status |-> "draft", resort |-> Null]
<1>1. row \in [Rows -> Opt(Row)] /\ r \in Rows /\ "draft" \in Status(r)
  BY RowTyped DEF Rows, Status, ResortStatus
<1>2. n \in Row /\ n.status = "draft"
  BY DEF Row, Opt, ResortStatus
<1>3. row[r] = Null /\ row' = [row EXCEPT ![r] = n] /\ UNCHANGED submitted
  BY DEF CreateResort
<1> HIDE DEF n
<1>4. RowsOK'
  BY <1>1, <1>2, <1>3 DEF RowsOK, Opt, Exists, Typed, TypeOK
<1> QED
  BY <1>1, <1>2, <1>3, <1>4

LEMMA OnOffer ==
    ASSUME NEW e \in Experiences, ActivateExperience(e)
    PROVE  /\ SetStatus(e, "active") /\ "active" \in Status(e) /\ e \in Rows
           /\ MoreRounds(e, "active") /\ Is(e, "inactive")
           /\ UNCHANGED <<review, rating, decided, edits, overlapped, call>>
BY CatalogueAssumption DEF ActivateExperience, Status, ExperienceStatus, Rows, MoreRounds

LEMMA OwnLeaves ==
    ASSUME OwnStep
    PROVE  UNCHANGED <<review, rating, decided, edits, overlapped, call>>
BY DEF OwnStep, CreateResort, CreateExperience, ActivateExperience

LEMMA OwnTyped ==
    ASSUME Typed, OwnStep PROVE Typed'
<1>1. UNCHANGED <<review, rating, decided, edits, overlapped, call>>
  BY OwnLeaves
<1>2. RestOK' /\ call' \in [Calls -> Call] /\ CallsFit'
  BY <1>1 DEF Typed, TypeOK, RestOK, CallsFit, Fits
<1>3. ASSUME RowsOK', RowsStay PROVE Typed'
  <2>1. Known'
    BY <1>1, <1>3 DEF Typed, Known, CallsFit, Fits, RowsStay, Rows, At
  <2> QED
    BY <1>2, <1>3, <2>1, TypedNext
<1>4. ASSUME NEW r \in Resorts, CreateResort(r) PROVE Typed'
  BY <1>3, <1>4, CreateResortWrites, NullIsNoRow DEF RowsStay
<1>5. ASSUME NEW e \in Experiences, NEW r \in Resorts, NEW s \in ExperienceStatus,
             CreateExperience(e, r, s)
      PROVE  Typed'
  BY <1>3, <1>5, CreateExperienceWrites, NullIsNoRow DEF RowsStay
<1>6. ASSUME NEW e \in Experiences, ActivateExperience(e) PROVE Typed'
  BY <1>3, <1>6, OnOffer, SetTyped, SetStays
<1> QED
  BY <1>4, <1>5, <1>6 DEF OwnStep

LEMMA TypedInit == Init => Typed
<1> SUFFICES ASSUME Init PROVE Typed
  OBVIOUS
<1>1. TypeOK
  BY NoCallTyped, CatalogueAssumption DEF Init, TypeOK, Opt, Exists
<1> QED
  BY <1>1, NoCallTyped DEF Init, Typed, CallsFit, Fits, Known, At

LEMMA TypedStep == Typed /\ [Next]_vars => Typed'
<1> SUFFICES ASSUME Typed, [Next]_vars PROVE Typed'
  OBVIOUS
<1>1. CASE UNCHANGED vars
  BY <1>1 DEF vars, Typed, TypeOK, CallsFit, Fits, Known, At, Exists
<1> QED
  BY <1>1, StepKinds, ReadTyped, WriteTyped, OwnTyped

(* Rows, reviews and requests keep their kinds.                            *)
THEOREM TypeCorrect == Spec => []TypeOK
<1>1. Typed => TypeOK
  BY DEF Typed
<1> QED
  BY <1>1, TypedInit, TypedStep, PTL DEF Spec

-----------------------------------------------------------------------------
(* Dead ends *)

\* Call c, which had found e neither a draft nor rejected, ends.
Informed(c, e) ==
    call[c].row = e /\ call[c].found \notin {"draft", "rejected"} /\ Return(c)

LEMMA FoundAlive ==
    ASSUME Typed, NEW c \in Calls, At(c, "patch") \/ At(c, "withdraw") \/ At(c, "decide")
    PROVE  call[c].found \notin {"draft", "rejected"}
BY DEF Typed, CallsFit, Fits, At

LEMMA DeadEndStep ==
    ASSUME Typed, [Next]_vars, NEW e \in Experiences,
           Is(e, "draft") \/ Is(e, "rejected"), row'[e] # row[e]
    PROVE  row'[e].status = "gone" \/ \E c \in Calls : Informed(c, e)
<1>1. e \in Rows /\ e \notin Resorts /\ row[e] # Null
  BY CatalogueAssumption DEF Rows, Is
<1>2. ASSUME NEW x \in Rows, NEW s \in Status(x), SetStatus(x, s) PROVE x = e
  BY <1>1, <1>2, SetWrites
<1>3. CASE UNCHANGED vars
  BY <1>3 DEF vars
<1>4. ASSUME NEW c \in Calls, ReadStep(c) PROVE FALSE
  BY <1>4, ReadLeaves
<1>5. ASSUME NEW c \in Calls, WriteStep(c)
      PROVE  row'[e].status = "gone" \/ Informed(c, e)
  <2>1. CASE ExperienceUpdated(c)
    BY <1>2, <2>1, WritesItsKind, FoundAlive DEF ExperienceUpdated, Informed
  <2>2. CASE Submitted(c)
    BY <1>1, <1>2, <2>2, WritesItsKind DEF Submitted
  <2>3. CASE Decided(c)
    BY <1>2, <2>3, WritesItsKind, FoundAlive DEF Decided, Informed
  <2>4. CASE ResortRemoved(c)
    BY <1>1, <2>4, RemovedWrites
  <2>5. ASSUME \/ ResortUpdated(c) \/ InsertReview(c)
               \/ \E v \in Reviews : CommitReview(c, v)
        PROVE  FALSE
    BY <2>5 DEF ResortUpdated, InsertReview, CommitReview
  <2>6. CASE ExperienceWithdrawn(c)
    BY <1>2, <2>6, WritesItsKind, FoundAlive DEF ExperienceWithdrawn, Informed
  <2> QED
    BY <1>5, <2>1, <2>2, <2>3, <2>4, <2>5, <2>6 DEF WriteStep
<1>6. ASSUME OwnStep PROVE FALSE
  <2>1. ASSUME NEW r \in Resorts, CreateResort(r) PROVE FALSE
    BY <1>1, <2>1, CreateResortWrites
  <2>2. ASSUME NEW f \in Experiences, NEW r \in Resorts, NEW s \in ExperienceStatus,
               CreateExperience(f, r, s)
        PROVE  FALSE
    BY <1>1, <2>2, CreateExperienceWrites
  <2>3. ASSUME NEW f \in Experiences, ActivateExperience(f) PROVE FALSE
    <3>1. f = e /\ Is(e, "inactive")
      BY <1>2, <2>3, OnOffer
    <3> QED
      BY <3>1 DEF Is
  <2> QED
    BY <1>6, <2>1, <2>2, <2>3 DEF OwnStep
<1> QED
  BY <1>3, <1>4, <1>5, <1>6, StepKinds

(* Only a request that had read it as something else changes a draft or a  *)
(* rejected experience, be it an update, a removal or a decision; and the  *)
(* removal of its resort takes it away.                                    *)
THEOREM DeadEndsTheorem == Spec => DeadEnds
<1> DEFINE Ends == \A e \in Experiences :
                      /\ Is(e, "draft") \/ Is(e, "rejected")
                      /\ row'[e] # row[e]
                      => \/ row'[e].status = "gone"
                         \/ \E c \in Calls :
                               /\ call[c].row = e /\ call[c].found \notin {"draft", "rejected"}
                               /\ Return(c)
<1>1. Typed /\ [Next]_vars => [Ends]_vars
  BY DeadEndStep DEF Informed
<1> QED
  BY <1>1, TypedInit, TypedStep, PTL DEF Spec, DeadEnds

-----------------------------------------------------------------------------
(* Decisions *)

Deciding(x) == {c \in Calls : On(c, "decide", x)}

\* While a row is under review every request may still come to decide it;
\* afterwards those that have read it under review may.
Room(x) == IF Is(x, "under_review") THEN Cardinality(Calls) ELSE Cardinality(Deciding(x))

Decidable(x) == decided[x] + Room(x) <= Cardinality(Calls) * submitted[x]

LEMMA CallsFinite ==
    ASSUME NEW S \in SUBSET Calls
    PROVE  /\ IsFiniteSet(S) /\ Cardinality(S) \in Nat
           /\ Cardinality(Calls) \in Nat /\ Cardinality(S) <= Cardinality(Calls)
BY CatalogueAssumption, FS_Subset, FS_CardinalityType

LEMMA Smaller ==
    ASSUME NEW S \in SUBSET Calls, NEW T \in SUBSET Calls, S \subseteq T
    PROVE  Cardinality(S) <= Cardinality(T)
BY CallsFinite, FS_Subset

LEMMA Times == \A n, m \in Nat : n * m \in Nat /\ n * (m + 1) = n * m + n
OBVIOUS

(* The numbers of a row.                                                   *)
LEMMA DecisionNumbers ==
    ASSUME Typed, NEW x \in Rows
    PROVE  /\ decided[x] \in Nat /\ submitted[x] \in Nat
           /\ Cardinality(Calls) \in Nat /\ Cardinality(Calls) * submitted[x] \in Nat
           /\ Room(x) \in Nat /\ Room(x) <= Cardinality(Calls)
           /\ Cardinality(Deciding(x)) <= Room(x)
<1>1. decided[x] \in Nat /\ submitted[x] \in Nat
  BY CatalogueAssumption DEF Typed, TypeOK
<1>2. /\ Cardinality(Calls) \in Nat /\ Cardinality(Deciding(x)) \in Nat
      /\ Cardinality(Deciding(x)) <= Cardinality(Calls)
  BY CallsFinite DEF Deciding
<1>3. Cardinality(Calls) * submitted[x] \in Nat
  BY <1>1, <1>2, Times
<1> QED
  BY <1>1, <1>2, <1>3 DEF Room

LEMMA DecidingMoves ==
    ASSUME Typed, NEW x \in Rows, NEW c \in Calls, NEW r, Moves(c, r)
    PROVE  /\ ~(r.at = "decide" /\ r.row = x) => Deciding(x)' \subseteq Deciding(x) \ {c}
           /\ Deciding(x)' \in SUBSET Calls
<1>1. call'[c] = r /\ \A d \in Calls \ {c} : call'[d] = call[d]
  BY Moved
<1> QED
  BY <1>1 DEF Deciding, On, At

LEMMA DecidingReturns ==
    ASSUME Typed, NEW x \in Rows, NEW c \in Calls, Return(c)
    PROVE  Deciding(x)' \subseteq Deciding(x) \ {c}
BY DecidingMoves, NoCallTyped DEF Return, Moves

(* A row that is not put under review, and that nobody comes to decide.    *)
LEMMA DecidableLess ==
    ASSUME Typed, NEW x \in Rows, Decidable(x), Deciding(x)' \subseteq Deciding(x),
           decided'[x] = decided[x], submitted'[x] = submitted[x],
           Is(x, "under_review")' => Is(x, "under_review")
    PROVE  Decidable(x)'
<1>1. /\ decided[x] \in Nat /\ Room(x) \in Nat /\ Cardinality(Calls) * submitted[x] \in Nat
      /\ Cardinality(Deciding(x)) <= Room(x)
  BY DecisionNumbers
<1>2. Cardinality(Deciding(x)') \in Nat /\ Cardinality(Deciding(x)') <= Cardinality(Deciding(x))
  BY CallsFinite, Smaller DEF Deciding
<1>3. Room(x)' \in Nat /\ Room(x)' <= Room(x)
  BY <1>1, <1>2, CallsFinite DEF Room, Deciding
<1> QED
  BY <1>1, <1>3 DEF Decidable

(* A row whose status is set without a decision.                           *)
LEMMA DecidableSet ==
    ASSUME Typed, NEW x \in Rows, Decidable(x), Deciding(x)' \subseteq Deciding(x),
           UNCHANGED decided, NEW y \in Rows, NEW s \in Status(y), SetStatus(y, s)
    PROVE  Decidable(x)'
<1>1. /\ x # y => row'[x] = row[x] /\ submitted'[x] = submitted[x]
      /\ Exists(y) => row'[y] \in Row /\ row'[y].status = s
      /\ ~Exists(y) => row' = row
      /\ submitted' = IF Exists(y) /\ s = "under_review"
                      THEN [submitted EXCEPT ![y] = @ + 1] ELSE submitted
  BY SetWrites
<1>2. CASE x = y /\ Exists(y) /\ s = "under_review"
  <2>1. submitted'[x] = submitted[x] + 1 /\ Is(x, "under_review")'
    BY <1>1, <1>2, NullIsNoRow, RowTyped DEF Is
  <2>2. /\ decided[x] \in Nat /\ submitted[x] \in Nat /\ Cardinality(Calls) \in Nat
        /\ Room(x) \in Nat /\ Cardinality(Calls) * submitted[x] \in Nat
    BY DecisionNumbers
  <2>3. Cardinality(Calls) * submitted'[x] = Cardinality(Calls) * submitted[x] + Cardinality(Calls)
    BY <2>1, <2>2, Times
  <2>4. Room(x)' = Cardinality(Calls)
    BY <2>1 DEF Room
  <2> QED
    BY <2>2, <2>3, <2>4 DEF Decidable
<1>3. CASE ~(x = y /\ Exists(y) /\ s = "under_review")
  <2>1. submitted'[x] = submitted[x]
    BY <1>1, <1>3, RowTyped
  <2>2. Is(x, "under_review")' => Is(x, "under_review")
    BY <1>1, <1>3 DEF Is
  <2> QED
    BY <2>1, <2>2, DecidableLess
<1> QED
  BY <1>2, <1>3

LEMMA DecidableDecided ==
    ASSUME Typed, NEW x \in Rows, Decidable(x), NEW c \in Calls, Decided(c)
    PROVE  Decidable(x)'
<1> DEFINE y == call[c].row
           s == call[c].status
<1>1. /\ At(c, "decide") /\ SetStatus(y, s) /\ Return(c)
      /\ decided' = IF Exists(y) THEN [decided EXCEPT ![y] = @ + 1] ELSE decided
  BY DEF Decided
<1>2. y \in Rows /\ s \in Status(y) /\ s # "under_review"
  BY <1>1, WritesItsKind
<1>3. Deciding(x)' \subseteq Deciding(x) \ {c}
  BY <1>1, DecidingReturns
<1>4. x = y => c \in Deciding(x)
  BY <1>1 DEF Deciding, On
<1> HIDE DEF y, s
<1>5. CASE ~(x = y /\ Exists(y))
  <2>1. decided'[x] = decided[x]
    BY <1>1, <1>2, <1>5 DEF Typed, TypeOK
  <2>2. row'[x] = row[x] /\ submitted'[x] = submitted[x]
    BY <1>1, <1>2, <1>5, SetWrites
  <2> QED
    BY <1>3, <2>1, <2>2, DecidableLess DEF Is
<1>6. CASE x = y /\ Exists(y)
  <2>1. decided'[x] = decided[x] + 1
    BY <1>1, <1>6 DEF Typed, TypeOK
  <2>2. ~Is(x, "under_review")' /\ submitted'[x] = submitted[x]
    BY <1>1, <1>2, <1>6, SetWrites DEF Is
  <2>3. Cardinality(Deciding(x)') <= Cardinality(Deciding(x)) - 1
    <3>1. IsFiniteSet(Deciding(x))
      BY CallsFinite DEF Deciding
    <3>2. Cardinality(Deciding(x) \ {c}) = Cardinality(Deciding(x)) - 1
      BY <1>4, <1>6, <3>1, FS_RemoveElement
    <3>3. Cardinality(Deciding(x)') <= Cardinality(Deciding(x) \ {c})
      BY <1>3, Smaller DEF Deciding
    <3> QED
      BY <3>2, <3>3
  <2>4. Room(x)' = Cardinality(Deciding(x)')
    BY <2>2 DEF Room
  <2>5. /\ decided[x] \in Nat /\ Room(x) \in Nat /\ Cardinality(Calls) * submitted[x] \in Nat
        /\ Cardinality(Deciding(x)) <= Room(x)
    BY DecisionNumbers
  <2>6. Cardinality(Deciding(x)) \in Nat /\ Cardinality(Deciding(x)') \in Nat
    BY CallsFinite DEF Deciding
  <2> QED
    BY <2>1, <2>2, <2>3, <2>4, <2>5, <2>6 DEF Decidable
<1> QED
  BY <1>5, <1>6

LEMMA DecidableStep ==
    ASSUME Typed, [Next]_vars, NEW x \in Rows, Decidable(x)
    PROVE  Decidable(x)'
<1>1. CASE UNCHANGED vars
  BY <1>1 DEF vars, Decidable, Room, Deciding, On, At, Is
<1>2. ASSUME NEW c \in Calls, ReadStep(c) PROVE Decidable(x)'
  <2>1. UNCHANGED <<row, submitted, decided>>
    BY <1>2, ReadLeaves
  <2>2. CASE Deciding(x)' \subseteq Deciding(x)
    BY <2>1, <2>2, DecidableLess DEF Is
  <2>3. CASE Is(x, "under_review")
    BY <2>1, <2>3 DEF Decidable, Room, Is
  <2>4. Is(x, "under_review") \/ Deciding(x)' \subseteq Deciding(x)
    <3>1. CASE Return(c)
      BY <3>1, DecidingReturns
    <3>2. ASSUME NEW r \in Call, Moves(c, r), r.at = "decide" => Is(r.row, "under_review")
          PROVE  Is(x, "under_review") \/ Deciding(x)' \subseteq Deciding(x)
      BY <3>2, DecidingMoves
    <3> QED
      BY <1>2, <3>1, <3>2, ReadMoves
  <2> QED
    BY <2>2, <2>3, <2>4
<1>3. ASSUME NEW c \in Calls, WriteStep(c) PROVE Decidable(x)'
  <2>1. ASSUME Return(c) PROVE Deciding(x)' \subseteq Deciding(x)
    BY <2>1, DecidingReturns
  <2>2. CASE Decided(c)
    BY <2>2, DecidableDecided
  <2>3. CASE ExperienceUpdated(c) \/ ExperienceWithdrawn(c) \/ Submitted(c)
    <3>1. /\ Return(c) /\ UNCHANGED decided
          /\ \E y \in Rows : \E s \in Status(y) : SetStatus(y, s)
      BY <2>3, WritesItsKind DEF ExperienceUpdated, ExperienceWithdrawn, Submitted
    <3> QED
      BY <2>1, <3>1, DecidableSet
  <2>4. CASE ResortRemoved(c)
    <3>1. Return(c) /\ UNCHANGED <<submitted, decided>>
      BY <2>4 DEF ResortRemoved
    <3>2. Is(x, "under_review")' => Is(x, "under_review")
      BY <2>4, RemovedWrites DEF Is
    <3> QED
      BY <2>1, <3>1, <3>2, DecidableLess
  <2>5. ASSUME \/ ResortUpdated(c) \/ InsertReview(c)
               \/ \E v \in Reviews : CommitReview(c, v)
        PROVE  Decidable(x)'
    <3>1. UNCHANGED <<row, submitted, decided>>
      BY <2>5 DEF ResortUpdated, InsertReview, CommitReview
    <3>2. CASE Return(c)
      BY <2>1, <3>1, <3>2, DecidableLess DEF Is
    <3>3. CASE InsertReview(c) /\ ~Return(c)
      <4>1. PICK r \in Call : Moves(c, r) /\ r.at = "rate"
        BY <3>3, InsertReviewMoves DEF InsertReview
      <4> QED
        BY <3>1, <4>1, DecidingMoves, DecidableLess DEF Is
    <3> QED
      BY <2>5, <3>2, <3>3 DEF ResortUpdated, CommitReview
  <2> QED
    BY <1>3, <2>2, <2>3, <2>4, <2>5 DEF WriteStep
<1>4. ASSUME OwnStep PROVE Decidable(x)'
  <2>1. UNCHANGED <<decided, call>>
    BY <1>4, OwnLeaves
  <2>2. Deciding(x)' \subseteq Deciding(x)
    BY <2>1 DEF Deciding, On, At
  <2>3. ASSUME NEW r \in Resorts, CreateResort(r) PROVE Decidable(x)'
    <3>1. UNCHANGED submitted /\ (Is(x, "under_review")' => Is(x, "under_review"))
      BY <2>3, CreateResortWrites DEF Is
    <3> QED
      BY <2>1, <2>2, <3>1, DecidableLess
  <2>4. ASSUME NEW e \in Experiences, NEW r \in Resorts, NEW s \in ExperienceStatus,
               CreateExperience(e, r, s)
        PROVE  Decidable(x)'
    <3>1. /\ row[e] = Null /\ row'[e].status = s
          /\ x # e => row'[x] = row[x] /\ submitted'[x] = submitted[x]
          /\ submitted'[e] = IF s = "under_review" THEN submitted[e] + 1 ELSE submitted[e]
      BY <2>4, CreateExperienceWrites
    <3>2. CASE x = e /\ s = "under_review"
      <4>1. /\ decided[x] \in Nat /\ submitted[x] \in Nat /\ Cardinality(Calls) \in Nat
            /\ Room(x) \in Nat /\ Cardinality(Calls) * submitted[x] \in Nat
            /\ Room(x)' = Cardinality(Calls) \/ Room(x)' = Cardinality(Deciding(x)')
        BY DecisionNumbers DEF Room
      <4>2. Cardinality(Deciding(x)') <= Cardinality(Calls) /\ Cardinality(Deciding(x)') \in Nat
        BY <2>1, CallsFinite DEF Deciding, On, At
      <4>3. Cardinality(Calls) * submitted'[x]
              = Cardinality(Calls) * submitted[x] + Cardinality(Calls)
        BY <3>1, <3>2, <4>1, Times
      <4> QED
        BY <2>1, <4>1, <4>2, <4>3 DEF Decidable
    <3>3. CASE ~(x = e /\ s = "under_review")
      <4>1. submitted'[x] = submitted[x] /\ (Is(x, "under_review")' => Is(x, "under_review"))
        BY <3>1, <3>3 DEF Is
      <4> QED
        BY <2>1, <2>2, <4>1, DecidableLess
    <3> QED
      BY <3>2, <3>3
  <2>5. ASSUME NEW e \in Experiences, ActivateExperience(e)
        PROVE  Decidable(x)'
    <3>1. e \in Rows /\ \E s \in Status(e) : SetStatus(e, s)
      BY <2>5, OnOffer
    <3> QED
      BY <2>1, <2>2, <3>1, DecidableSet
  <2> QED
    BY <1>4, <2>3, <2>4, <2>5 DEF OwnStep
<1> QED
  BY <1>1, <1>2, <1>3, <1>4, StepKinds

DecisionInv == \A x \in Rows : Decidable(x)

LEMMA DecisionInit == Init => DecisionInv
<1> SUFFICES ASSUME Init, NEW x \in Rows PROVE Decidable(x)
  BY DEF DecisionInv
<1>1. decided[x] = 0 /\ submitted[x] = 0 /\ ~Is(x, "under_review") /\ Deciding(x) = {}
  BY NoCallTyped DEF Init, Is, Deciding, On, At
<1>2. Room(x) = 0
  BY <1>1, FS_EmptySet DEF Room
<1> QED
  BY <1>1, <1>2, CallsFinite DEF Decidable

LEMMA DecisionStep == Typed /\ DecisionInv /\ [Next]_vars => DecisionInv'
BY DecidableStep DEF DecisionInv

LEMMA DecisionImplied == Typed /\ DecisionInv => DecisionsPerSubmission
<1> SUFFICES ASSUME Typed, DecisionInv, NEW x \in Rows
             PROVE  decided[x] <= Cardinality(Calls) * submitted[x]
  BY DEF DecisionsPerSubmission
<1>1. decided[x] \in Nat /\ Room(x) \in Nat /\ Cardinality(Calls) * submitted[x] \in Nat
  BY DecisionNumbers
<1> QED
  BY <1>1 DEF DecisionInv, Decidable

(* Each submission leads to at most as many decisions as there are requests *)
(* at a time.                                                              *)
THEOREM DecisionTheorem == Spec => []DecisionsPerSubmission
BY TypedInit, TypedStep, DecisionInit, DecisionStep, DecisionImplied, PTL DEF Spec

-----------------------------------------------------------------------------
(* Edits of an approved resort *)

Editing(x) == {c \in Calls : On(c, "edit", x) /\ ~call[c].admin}

\* Owners' updates since the approval, and those still to be written.
Edited(x) ==
    Is(x, "approved") => edits[x] + Cardinality(Editing(x)) < Cardinality(Calls)

LEMMA EditNumbers ==
    ASSUME Typed, NEW x \in Resorts
    PROVE  /\ edits[x] \in Nat /\ Cardinality(Editing(x)) \in Nat /\ Cardinality(Calls) \in Nat
           /\ Cardinality(Editing(x)') \in Nat
           /\ Editing(x)' \subseteq Editing(x) =>
                 Cardinality(Editing(x)') <= Cardinality(Editing(x))
BY CallsFinite, Smaller DEF Typed, TypeOK, Editing

LEMMA EditingMoves ==
    ASSUME Typed, NEW x \in Resorts, NEW c \in Calls, NEW r, Moves(c, r)
    PROVE  (r.at = "edit" /\ r.row = x => r.admin) => Editing(x)' \subseteq Editing(x) \ {c}
<1>1. call'[c] = r /\ \A d \in Calls \ {c} : call'[d] = call[d]
  BY Moved
<1> QED
  BY <1>1 DEF Editing, On, At

LEMMA EditingReturns ==
    ASSUME Typed, NEW x \in Resorts, NEW c \in Calls, Return(c)
    PROVE  Editing(x)' \subseteq Editing(x) \ {c}
BY EditingMoves, NoCallTyped DEF Return, Moves

LEMMA EditedLess ==
    ASSUME Typed, NEW x \in Resorts, Edited(x), edits'[x] = edits[x],
           Is(x, "approved")' => Is(x, "approved") /\ Editing(x)' \subseteq Editing(x)
    PROVE  Edited(x)'
BY EditNumbers DEF Edited

LEMMA EditedDecided ==
    ASSUME Typed, NEW x \in Resorts, Edited(x), NEW c \in Calls, Decided(c)
    PROVE  Edited(x)'
<1> DEFINE y == call[c].row
           s == call[c].status
<1>1. /\ At(c, "decide") /\ SetStatus(y, s) /\ Return(c)
      /\ edits' = IF s = "approved" THEN [edits EXCEPT ![y] = 0] ELSE edits
  BY DEF Decided
<1>2. y \in Rows /\ s \in Status(y) /\ (s = "approved" => y \in Resorts) /\ x \in Rows
  BY <1>1, WritesItsKind DEF Rows
<1>3. Editing(x)' \subseteq Editing(x) \ {c}
  BY <1>1, EditingReturns
<1> HIDE DEF y, s
<1>4. CASE x = y /\ s = "approved"
  <2>1. edits'[x] = 0
    BY <1>1, <1>4 DEF Typed, TypeOK
  <2>2. Cardinality(Editing(x)') <= Cardinality(Calls \ {c})
    BY <1>3, Smaller DEF Editing
  <2>3. Cardinality(Calls \ {c}) = Cardinality(Calls) - 1
    BY CatalogueAssumption, FS_RemoveElement
  <2>4. Cardinality(Editing(x)') \in Nat /\ Cardinality(Calls) \in Nat
    BY EditNumbers
  <2> QED
    BY <2>1, <2>2, <2>3, <2>4 DEF Edited
<1>5. CASE ~(x = y /\ s = "approved")
  <2>1. edits'[x] = edits[x]
    BY <1>1, <1>2, <1>5 DEF Typed, TypeOK
  <2>2. Is(x, "approved")' => Is(x, "approved")
    BY <1>1, <1>2, <1>5, SetWrites DEF Is
  <2> QED
    BY <1>3, <2>1, <2>2, EditedLess
<1> QED
  BY <1>4, <1>5

LEMMA EditedUpdated ==
    ASSUME Typed, NEW x \in Resorts, Edited(x), NEW c \in Calls, ResortUpdated(c)
    PROVE  Edited(x)'
<1> DEFINE y == call[c].row
<1>1. /\ At(c, "edit") /\ Return(c) /\ UNCHANGED row
      /\ edits' = IF Is(y, "approved") /\ ~call[c].admin THEN [edits EXCEPT ![y] = @ + 1] ELSE edits
  BY DEF ResortUpdated
<1>2. y \in Resorts
  BY <1>1, WritesItsKind
<1>3. Editing(x)' \subseteq Editing(x) \ {c}
  BY <1>1, EditingReturns
<1>4. CASE y = x /\ Is(x, "approved") /\ ~call[c].admin
  <2>1. c \in Editing(x) /\ edits'[x] = edits[x] + 1
    BY <1>1, <1>2, <1>4 DEF Editing, On, Typed, TypeOK
  <2>2. Cardinality(Editing(x) \ {c}) = Cardinality(Editing(x)) - 1
    BY <2>1, CallsFinite, FS_RemoveElement DEF Editing
  <2>3. Cardinality(Editing(x)') <= Cardinality(Editing(x) \ {c})
    BY <1>3, Smaller DEF Editing
  <2> QED
    BY <1>1, <1>4, <2>1, <2>2, <2>3, EditNumbers DEF Edited, Is
<1>5. CASE ~(y = x /\ Is(x, "approved") /\ ~call[c].admin)
  <2>1. Is(x, "approved") => edits'[x] = edits[x]
    BY <1>1, <1>2, <1>5 DEF Typed, TypeOK
  <2>2. Is(x, "approved")' => Is(x, "approved")
    BY <1>1 DEF Is
  <2>3. CASE Is(x, "approved")
    BY <1>3, <2>1, <2>2, <2>3, EditedLess
  <2>4. CASE ~Is(x, "approved")
    BY <2>2, <2>4 DEF Edited
  <2> QED
    BY <2>3, <2>4
<1> QED
  BY <1>4, <1>5

LEMMA EditedStep ==
    ASSUME Typed, [Next]_vars, NEW x \in Resorts, Edited(x)
    PROVE  Edited(x)'
<1>1. CASE UNCHANGED vars
  BY <1>1 DEF vars, Edited, Editing, On, At, Is
<1>2. ASSUME NEW c \in Calls, ReadStep(c) PROVE Edited(x)'
  <2>1. UNCHANGED <<row, edits>>
    BY <1>2, ReadLeaves
  <2>2. Is(x, "approved") => Editing(x)' \subseteq Editing(x)
    <3>1. CASE Return(c)
      BY <3>1, EditingReturns
    <3>2. ASSUME NEW r \in Call, Moves(c, r),
                 r.at = "edit" /\ ~r.admin => ~Is(r.row, "approved"), Is(x, "approved")
          PROVE  Editing(x)' \subseteq Editing(x)
      BY <3>2, EditingMoves
    <3> QED
      BY <1>2, <3>1, <3>2, ReadMoves
  <2> QED
    BY <2>1, <2>2, EditedLess DEF Is
<1>3. ASSUME NEW c \in Calls, WriteStep(c) PROVE Edited(x)'
  <2>1. ASSUME Return(c) PROVE Editing(x)' \subseteq Editing(x)
    BY <2>1, EditingReturns
  <2>2. CASE Decided(c)
    BY <2>2, EditedDecided
  <2>3. CASE ResortUpdated(c)
    BY <2>3, EditedUpdated
  <2>4. CASE ExperienceUpdated(c) \/ ExperienceWithdrawn(c) \/ Submitted(c)
    <3>1. /\ Return(c) /\ UNCHANGED edits
          /\ \E y \in Rows : \E s \in Status(y) :
                SetStatus(y, s) /\ (y \in Experiences \/ s = "under_review")
      BY <2>4, WritesItsKind DEF ExperienceUpdated, ExperienceWithdrawn, Submitted
    <3>2. x \in Rows /\ x \notin Experiences
      BY CatalogueAssumption DEF Rows
    <3>3. Is(x, "approved")' => Is(x, "approved")
      BY <3>1, <3>2, SetWrites DEF Is
    <3> QED
      BY <2>1, <3>1, <3>3, EditedLess
  <2>5. CASE ResortRemoved(c)
    <3>1. Return(c) /\ UNCHANGED edits /\ x \in Rows
      BY <2>5 DEF ResortRemoved, Rows
    <3>2. Is(x, "approved")' => Is(x, "approved")
      BY <2>5, <3>1, RemovedWrites DEF Is
    <3> QED
      BY <2>1, <3>1, <3>2, EditedLess
  <2>6. ASSUME InsertReview(c) \/ \E v \in Reviews : CommitReview(c, v)
        PROVE  Edited(x)'
    <3>1. UNCHANGED <<row, edits>>
      BY <2>6 DEF InsertReview, CommitReview
    <3>2. CASE Return(c)
      BY <2>1, <3>1, <3>2, EditedLess DEF Is
    <3>3. CASE InsertReview(c) /\ ~Return(c)
      <4>1. PICK r \in Call : Moves(c, r) /\ r.at = "rate"
        BY <3>3, InsertReviewMoves DEF InsertReview
      <4> QED
        BY <3>1, <4>1, EditingMoves, EditedLess DEF Is
    <3> QED
      BY <2>6, <3>2, <3>3 DEF CommitReview
  <2> QED
    BY <1>3, <2>2, <2>3, <2>4, <2>5, <2>6 DEF WriteStep
<1>4. ASSUME OwnStep PROVE Edited(x)'
  <2>1. UNCHANGED <<edits, call>> /\ x \in Rows /\ x \notin Experiences
    BY <1>4, OwnLeaves, CatalogueAssumption DEF Rows
  <2>2. Editing(x)' \subseteq Editing(x)
    BY <2>1 DEF Editing, On, At
  <2>3. ASSUME NEW r \in Resorts, CreateResort(r) PROVE Is(x, "approved")' => Is(x, "approved")
    BY <2>1, <2>3, CreateResortWrites DEF Is
  <2>4. ASSUME NEW e \in Experiences, NEW r \in Resorts, NEW s \in ExperienceStatus,
               CreateExperience(e, r, s)
        PROVE  Is(x, "approved")' => Is(x, "approved")
    BY <2>1, <2>4, CreateExperienceWrites DEF Is
  <2>5. ASSUME NEW e \in Experiences, ActivateExperience(e)
        PROVE  Is(x, "approved")' => Is(x, "approved")
    BY <2>1, <2>5, OnOffer, SetWrites DEF Is
  <2>6. Is(x, "approved")' => Is(x, "approved")
    BY <1>4, <2>3, <2>4, <2>5 DEF OwnStep
  <2> QED
    BY <2>1, <2>2, <2>6, EditedLess
<1> QED
  BY <1>1, <1>2, <1>3, <1>4, StepKinds

EditInv == \A x \in Resorts : Edited(x)

LEMMA EditInit == Init => EditInv
BY DEF Init, EditInv, Edited, Is, Rows

LEMMA EditStep == Typed /\ EditInv /\ [Next]_vars => EditInv'
BY EditedStep DEF EditInv

LEMMA EditImplied == Typed /\ EditInv => EditsAfterApproval
<1> SUFFICES ASSUME Typed, EditInv, NEW x \in Resorts, Is(x, "approved")
             PROVE  edits[x] < Cardinality(Calls)
  BY DEF EditsAfterApproval
<1> QED
  BY EditNumbers DEF EditInv, Edited

(* An owner changes an approved resort at most once for each other request. *)
THEOREM EditsTheorem == Spec => []EditsAfterApproval
BY TypedInit, TypedStep, EditInit, EditStep, EditImplied, PTL DEF Spec

-----------------------------------------------------------------------------
(* Ratings *)

\* The transaction that rates an experience is alone, and its count is the
\* number of reviews there will be.
Rated(e) ==
    e \notin overlapped =>
       /\ rating[e] = Cardinality(ReviewsOf(e))
       /\ \A c \in Calls : On(c, "rate", e) => call[c].count = Cardinality(ReviewsOf(e)) + 1
       /\ \A c, d \in Calls : On(c, "rate", e) /\ On(d, "rate", e) => c = d

(* Nobody begins to rate the experience, and its reviews stay.             *)
LEMMA RatedSame ==
    ASSUME NEW e \in Experiences, Rated(e), rating'[e] = rating[e],
           ReviewsOf(e)' = ReviewsOf(e), overlapped \subseteq overlapped',
           \A d \in Calls : call'[d].at = "rate" /\ call'[d].row = e => call'[d] = call[d]
    PROVE  Rated(e)'
<1> SUFFICES ASSUME e \notin overlapped' PROVE Rated(e)'
  BY DEF Rated
<1>1. /\ rating[e] = Cardinality(ReviewsOf(e))
      /\ \A c \in Calls : On(c, "rate", e) => call[c].count = Cardinality(ReviewsOf(e)) + 1
      /\ \A c, d \in Calls : On(c, "rate", e) /\ On(d, "rate", e) => c = d
  BY DEF Rated
<1>2. \A d \in Calls : On(d, "rate", e)' => On(d, "rate", e) /\ call'[d] = call[d]
  BY DEF On, At
<1> QED
  BY <1>1, <1>2 DEF Rated

LEMMA RatedReturn ==
    ASSUME Typed, NEW e \in Experiences, Rated(e), rating'[e] = rating[e],
           ReviewsOf(e)' = ReviewsOf(e), overlapped \subseteq overlapped',
           NEW c \in Calls, Return(c)
    PROVE  Rated(e)'
<1>1. \A d \in Calls : call'[d].at = "rate" => call'[d] = call[d]
  BY Moved, NoCallTyped DEF Return, Moves
<1> QED
  BY <1>1, RatedSame

LEMMA RatedInsert ==
    ASSUME Typed, NEW e \in Experiences, Rated(e), NEW c \in Calls, InsertReview(c)
    PROVE  Rated(e)'
<1> DEFINE y == call[c].row
<1>1. UNCHANGED <<review, rating>> /\ overlapped \subseteq overlapped'
  BY DEF InsertReview
<1>2. ReviewsOf(e)' = ReviewsOf(e)
  BY <1>1 DEF ReviewsOf
<1>3. CASE Return(c)
  BY <1>1, <1>2, <1>3, RatedReturn
<1>4. CASE ~Return(c)
  <2>1. Exists(y) /\ overlapped' = IF Reviewing(y) THEN overlapped \cup {y} ELSE overlapped
    BY <1>4 DEF InsertReview
  <2>2. PICK r \in Call : /\ Moves(c, r) /\ r.at = "rate" /\ r.row = y
                          /\ r.count = Cardinality(ReviewsOf(y)) + 1
    BY <2>1, InsertReviewMoves
  <2>3. call'[c] = r /\ \A d \in Calls \ {c} : call'[d] = call[d]
    BY <2>2, Moved
  <2>4. CASE y # e
    BY <1>1, <1>2, <2>2, <2>3, <2>4, RatedSame
  <2>5. CASE y = e /\ e \in overlapped'
    BY <2>5 DEF Rated
  <2>6. CASE y = e /\ e \notin overlapped'
    <3>1. e \notin overlapped /\ \A d \in Calls : ~On(d, "rate", e)
      BY <2>1, <2>6 DEF Reviewing
    <3>2. \A d \in Calls : On(d, "rate", e)' => d = c
      BY <2>3, <3>1 DEF On, At
    <3>3. On(c, "rate", e)' => call'[c].count = Cardinality(ReviewsOf(e)') + 1
      BY <1>2, <2>2, <2>3, <2>6
    <3>4. rating'[e] = Cardinality(ReviewsOf(e)')
      BY <1>1, <1>2, <3>1 DEF Rated
    <3> QED
      BY <3>2, <3>3, <3>4 DEF Rated
  <2> QED
    BY <2>4, <2>5, <2>6
<1> QED
  BY <1>3, <1>4

LEMMA RatedCommit ==
    ASSUME Typed, NEW e \in Experiences, Rated(e), NEW c \in Calls, NEW v \in Reviews,
           CommitReview(c, v)
    PROVE  Rated(e)'
<1> DEFINE y == call[c].row
<1>1. /\ At(c, "rate") /\ review[v] = Null /\ Return(c) /\ UNCHANGED overlapped
      /\ review' = [review EXCEPT ![v] = y] /\ rating' = [rating EXCEPT ![y] = call[c].count]
  BY DEF CommitReview
<1>2. /\ y \in Experiences /\ review \in [Reviews -> Opt(Experiences)]
      /\ rating \in [Experiences -> Nat] /\ Null \notin Experiences
  BY <1>1, WritesItsKind, CatalogueAssumption DEF Typed, TypeOK, Rows
<1>3. CASE y # e
  <2>1. rating'[e] = rating[e] /\ ReviewsOf(e)' = ReviewsOf(e)
    BY <1>1, <1>2, <1>3 DEF ReviewsOf
  <2> QED
    BY <1>1, <2>1, RatedReturn
<1>4. CASE y = e /\ e \notin overlapped
  <2>1. ReviewsOf(e)' = ReviewsOf(e) \cup {v} /\ v \notin ReviewsOf(e)
    BY <1>1, <1>2, <1>4 DEF ReviewsOf
  <2>2. Cardinality(ReviewsOf(e)') = Cardinality(ReviewsOf(e)) + 1
    BY <2>1, ReviewsFinite, FS_AddElement DEF ReviewsOf
  <2>3. On(c, "rate", e)
    BY <1>1, <1>4 DEF On
  <2>4. /\ call[c].count = Cardinality(ReviewsOf(e)) + 1
        /\ \A d \in Calls : On(d, "rate", e) => d = c
    BY <1>4, <2>3 DEF Rated
  <2>5. rating'[e] = Cardinality(ReviewsOf(e)')
    BY <1>1, <1>2, <1>4, <2>2, <2>4
  <2>6. \A d \in Calls : ~On(d, "rate", e)'
    <3>1. call'[c] = NoCall /\ \A d \in Calls \ {c} : call'[d] = call[d]
      BY <1>1, Moved DEF Return, Moves
    <3> QED
      BY <2>4, <3>1, NoCallTyped DEF On, At
  <2> QED
    BY <2>5, <2>6 DEF Rated
<1>5. CASE e \in overlapped
  BY <1>1, <1>5 DEF Rated
<1> QED
  BY <1>3, <1>4, <1>5

LEMMA RatedRemoved ==
    ASSUME Typed, NEW e \in Experiences, Rated(e), NEW c \in Calls, ResortRemoved(c)
    PROVE  Rated(e)'
<1> DEFINE lost == ExperiencesOf(call[c].row)
<1>1. /\ Return(c) /\ UNCHANGED overlapped /\ \A f \in lost : ~Reviewing(f)
      /\ review' = [v \in Reviews |-> IF review[v] \in lost THEN Null ELSE review[v]]
      /\ rating' = [f \in Experiences |-> IF f \in lost THEN 0 ELSE rating[f]]
  BY DEF ResortRemoved
<1>2. Null # e
  BY CatalogueAssumption DEF Rows
<1> HIDE DEF lost
<1>3. CASE e \notin lost
  <2>1. rating'[e] = rating[e] /\ ReviewsOf(e)' = ReviewsOf(e)
    BY <1>1, <1>2, <1>3 DEF ReviewsOf
  <2> QED
    BY <1>1, <2>1, RatedReturn
<1>4. CASE e \in lost
  <2>1. rating'[e] = 0 /\ ReviewsOf(e)' = {}
    BY <1>1, <1>2, <1>4 DEF ReviewsOf
  <2>2. \A d \in Calls : ~On(d, "rate", e)'
    <3>1. call'[c] = NoCall /\ \A d \in Calls \ {c} : call'[d] = call[d]
      BY <1>1, Moved DEF Return, Moves
    <3> QED
      BY <1>1, <1>4, <3>1, NoCallTyped DEF Reviewing, On, At
  <2> QED
    BY <2>1, <2>2, FS_EmptySet DEF Rated
<1> QED
  BY <1>3, <1>4

LEMMA RatedStep ==
    ASSUME Typed, [Next]_vars, NEW e \in Experiences, Rated(e)
    PROVE  Rated(e)'
<1>1. ASSUME UNCHANGED <<review, rating, overlapped>>
      PROVE  ReviewsOf(e)' = ReviewsOf(e) /\ rating'[e] = rating[e] /\ overlapped \subseteq overlapped'
  BY <1>1 DEF ReviewsOf
<1>2. ASSUME UNCHANGED <<review, rating, overlapped, call>> PROVE Rated(e)'
  BY <1>1, <1>2, RatedSame
<1>3. ASSUME UNCHANGED <<review, rating, overlapped>>, NEW c \in Calls, Return(c) PROVE Rated(e)'
  BY <1>1, <1>3, RatedReturn
<1>4. CASE UNCHANGED vars
  BY <1>2, <1>4 DEF vars
<1>5. ASSUME NEW c \in Calls, ReadStep(c) PROVE Rated(e)'
  <2>1. UNCHANGED <<review, rating, overlapped>>
    BY <1>5, ReadLeaves
  <2>2. ASSUME NEW r \in Call, Moves(c, r), r.at # "rate" PROVE Rated(e)'
    <3>1. \A d \in Calls : call'[d].at = "rate" => call'[d] = call[d]
      BY <2>2, Moved
    <3> QED
      BY <1>1, <2>1, <3>1, RatedSame
  <2> QED
    BY <1>3, <1>5, <2>1, <2>2, ReadMoves
<1>6. ASSUME NEW c \in Calls, WriteStep(c) PROVE Rated(e)'
  <2>1. ASSUME \/ ResortUpdated(c) \/ ExperienceUpdated(c) \/ ExperienceWithdrawn(c)
               \/ Submitted(c) \/ Decided(c)
        PROVE  Return(c) /\ UNCHANGED <<review, rating, overlapped>>
    BY <2>1 DEF ResortUpdated, ExperienceUpdated, ExperienceWithdrawn, Submitted, Decided
  <2> QED
    BY <1>3, <1>6, <2>1, RatedInsert, RatedCommit, RatedRemoved DEF WriteStep
<1>7. ASSUME OwnStep PROVE Rated(e)'
  BY <1>2, <1>7, OwnLeaves
<1> QED
  BY <1>4, <1>5, <1>6, <1>7, StepKinds

RatingInv == \A e \in Experiences : Rated(e)

LEMMA RatingInit == Init => RatingInv
<1> SUFFICES ASSUME Init, NEW e \in Experiences PROVE Rated(e)
  BY DEF RatingInv
<1>1. ReviewsOf(e) = {} /\ rating[e] = 0
  BY CatalogueAssumption DEF Init, ReviewsOf, Rows
<1>2. \A c \in Calls : ~On(c, "rate", e)
  BY NoCallTyped DEF Init, On, At
<1> QED
  BY <1>1, <1>2, FS_EmptySet DEF Rated

LEMMA RatingStep == Typed /\ RatingInv /\ [Next]_vars => RatingInv'
BY RatedStep DEF RatingInv

(* rating_count is the number of reviews, as long as no two were added to  *)
(* the experience at the same time.                                        *)
THEOREM RatingTheorem == Spec => []RatingIsCurrent
<1>1. RatingInv => RatingIsCurrent
  BY DEF RatingInv, Rated, RatingIsCurrent
<1> QED
  BY <1>1, TypedInit, TypedStep, RatingInit, RatingStep, PTL DEF Spec

=============================================================================
