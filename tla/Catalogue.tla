----------------------------- MODULE Catalogue -----------------------------
(***************************************************************************)
(* What Livex offers: resorts and their experiences, the review by an      *)
(* administrator that both pass, and the ratings guests leave              *)
(* (ResortsService, ExperiencesService and the decisions of AdminService). *)
(*                                                                         *)
(* Most requests read the row they are about, check its status, and then   *)
(* write by id alone, whatever the status has become: any other request    *)
(* may run in between.  A request that does both in one statement, or      *)
(* checks nothing, is one action.                                          *)
(***************************************************************************)
EXTENDS Integers, FiniteSets

CONSTANTS
    Null,         \* no row, or nothing
    Resorts,
    Experiences,
    Reviews,      \* bound: rows of reviews
    Calls,        \* requests in progress at the same time
    MaxRounds     \* bound: submissions of a resort or an experience

Rows == Resorts \cup Experiences

ASSUME CatalogueAssumption ==
    /\ Resorts \cap Experiences = {} /\ Null \notin Rows
    /\ IsFiniteSet(Calls) /\ IsFiniteSet(Reviews)
    /\ MaxRounds \in Nat

VARIABLES
    row,        \* resorts and experiences
    review,     \* which experience each row of reviews is about
    rating,     \* rating_count of each experience
    submitted,  \* history: how often each row was put under review
    decided,    \* history: how often a decision on it was written
    edits,      \* history: updates by the owner since a resort was approved
    overlapped, \* history: experiences two reviews were added to at once
    call        \* what each request is in the middle of

vars == <<row, review, rating, submitted, decided, edits, overlapped, call>>

-----------------------------------------------------------------------------
(* Rows and requests *)

Opt(S) == S \cup {Null}

ResortStatus == {"draft", "under_review", "approved", "rejected"}
ExperienceStatus == {"draft", "under_review", "active", "rejected", "inactive"}
Status(x) == IF x \in Resorts THEN ResortStatus ELSE ExperienceStatus

\* gone: deleted; an id is not used again.
Row == [status : ResortStatus \cup ExperienceStatus \cup {"gone"}, resort : Opt(Resorts)]

ASSUME NullIsNoRow == Null \notin Row

Steps == {"idle", "edit", "submit", "decide", "remove", "patch", "withdraw", "review", "rate"}

\* found is history: the status the request read.
Call == [at : Steps, row : Opt(Rows), found : Opt(ResortStatus \cup ExperienceStatus),
         status : Opt(ResortStatus \cup ExperienceStatus), admin : BOOLEAN, count : Nat]

NoCall == [at |-> "idle", row |-> Null, found |-> Null, status |-> Null,
           admin |-> FALSE, count |-> 0]

At(c, step) == call[c].at = step
On(c, step, x) == At(c, step) /\ call[c].row = x
Return(c) == call' = [call EXCEPT ![c] = NoCall]

\* A request has read row x and goes on to its next step.
Begin(c, step, x) ==
    /\ At(c, "idle")
    /\ call' = [call EXCEPT ![c].at = step, ![c].row = x, ![c].found = row[x].status]

BeginWith(c, step, x, s) ==
    /\ At(c, "idle")
    /\ call' = [call EXCEPT ![c].at = step, ![c].row = x, ![c].found = row[x].status,
                            ![c].status = s]

Exists(x) == row[x] # Null /\ row[x].status # "gone"
Is(x, status) == row[x] # Null /\ row[x].status = status
ExperiencesOf(r) == {e \in Experiences : Exists(e) /\ row[e].resort = r}
ReviewsOf(e) == {v \in Reviews : review[v] = e}

Init ==
    /\ row = [x \in Rows |-> Null]
    /\ review = [v \in Reviews |-> Null]
    /\ rating = [e \in Experiences |-> 0]
    /\ submitted = [x \in Rows |-> 0]
    /\ decided = [x \in Rows |-> 0]
    /\ edits = [r \in Resorts |-> 0]
    /\ overlapped = {}
    /\ call = [c \in Calls |-> NoCall]

\* UPDATE ... SET status = s WHERE id = x
SetStatus(x, s) ==
    /\ row' = IF Exists(x) THEN [row EXCEPT ![x].status = s] ELSE row
    /\ submitted' = IF Exists(x) /\ s = "under_review"
                    THEN [submitted EXCEPT ![x] = @ + 1] ELSE submitted

MoreRounds(x, s) == s = "under_review" => submitted[x] < MaxRounds

-----------------------------------------------------------------------------
(* Creating and changing *)

\* ResortsService.create
CreateResort(r) ==
    /\ row[r] = Null
    /\ row' = [row EXCEPT ![r] = [status |-> "draft", resort |-> Null]]
    /\ UNCHANGED <<review, rating, submitted, decided, edits, overlapped, call>>

\* ExperiencesService.create: with the status the request names; a resort
\* that is not there (any more) breaks the foreign key.
CreateExperience(e, r, s) ==
    /\ row[e] = Null /\ Exists(r)
    /\ MoreRounds(e, s)
    /\ row' = [row EXCEPT ![e] = [status |-> s, resort |-> r]]
    /\ submitted' = [submitted EXCEPT ![e] = IF s = "under_review" THEN @ + 1 ELSE @]
    /\ UNCHANGED <<review, rating, decided, edits, overlapped, call>>

\* Mutation: the owner may always edit.
EditableAlways(r, admin) == Exists(r)

Editable(r, admin) == Exists(r) /\ (Is(r, "approved") => admin)

\* ResortsService.update: an approved resort is for administrators ...
UpdateResort(c, r, admin) ==
    /\ Editable(r, admin)
    /\ At(c, "idle")
    /\ call' = [call EXCEPT ![c].at = "edit", ![c].row = r, ![c].found = row[r].status,
                            ![c].admin = admin]
    /\ UNCHANGED <<row, review, rating, submitted, decided, edits, overlapped>>

\* ... and its data are written in a transaction afterwards.
ResortUpdated(c) ==
    LET r == call[c].row IN
    /\ At(c, "edit")
    /\ edits' = IF Is(r, "approved") /\ ~call[c].admin
                THEN [edits EXCEPT ![r] = @ + 1] ELSE edits
    /\ Return(c)
    /\ UNCHANGED <<row, review, rating, submitted, decided, overlapped>>

\* Mutation: any experience is found.
FoundAnyStatus(e) == Exists(e)

\* ExperiencesService.findOne: active experiences only.
Found(e) == Is(e, "active")

\* ExperiencesService.update: any status may be among the new values ...
UpdateExperience(c, e, s) ==
    /\ Found(e)
    /\ BeginWith(c, "patch", e, s)
    /\ UNCHANGED <<row, review, rating, submitted, decided, edits, overlapped>>

\* ... and is written by id.
ExperienceUpdated(c) ==
    LET e == call[c].row
        s == call[c].status
    IN
    /\ At(c, "patch")
    /\ MoreRounds(e, s)
    /\ SetStatus(e, s)
    /\ Return(c)
    /\ UNCHANGED <<review, rating, decided, edits, overlapped>>

\* ExperiencesService.remove: findOne finds it ...
WithdrawExperience(c, e) ==
    /\ Found(e)
    /\ Begin(c, "withdraw", e)
    /\ UNCHANGED <<row, review, rating, submitted, decided, edits, overlapped>>

\* ... and whatever it has become, unless it is inactive already, is overwritten.
ExperienceWithdrawn(c) ==
    /\ At(c, "withdraw")
    /\ SetStatus(call[c].row, "inactive")
    /\ Return(c)
    /\ UNCHANGED <<review, rating, decided, edits, overlapped>>

\* ExperiencesService.activate, in one statement.
ActivateExperience(e) ==
    /\ Is(e, "inactive")
    /\ SetStatus(e, "active")
    /\ UNCHANGED <<review, rating, decided, edits, overlapped, call>>

-----------------------------------------------------------------------------
(* Review by an administrator *)

\* submitForReview of both services; that of experiences looks for a draft
\* among the active ones, so no experience ever passes.
Submittable(x) ==
    IF x \in Resorts THEN Is(x, "draft") \/ Is(x, "rejected") ELSE Found(x) /\ Is(x, "draft")

Submit(c, x) ==
    /\ Submittable(x)
    /\ Begin(c, "submit", x)
    /\ UNCHANGED <<row, review, rating, submitted, decided, edits, overlapped>>

Submitted(c) ==
    LET x == call[c].row IN
    /\ At(c, "submit")
    /\ MoreRounds(x, "under_review")
    /\ SetStatus(x, "under_review")
    /\ Return(c)
    /\ UNCHANGED <<review, rating, decided, edits, overlapped>>

\* Mutation: a resort becomes what an experience would.
VerdictsOfExperiences(x) == {"active", "rejected"}

Verdicts(x) == IF x \in Resorts THEN {"approved", "rejected"} ELSE {"active", "rejected"}

\* Mutation: what was rejected can be decided again.
UndecidedOrRejected(x) == Is(x, "under_review") \/ Is(x, "rejected")

Undecided(x) == Is(x, "under_review")

\* AdminService and ResortsService: approve and reject read the row ...; so
\* does rejectDocument, which rejects the resort with its document.
Decide(c, x, verdict) ==
    /\ Undecided(x)
    /\ BeginWith(c, "decide", x, verdict)
    /\ UNCHANGED <<row, review, rating, submitted, decided, edits, overlapped>>

\* ... and write the decision.
Decided(c) ==
    LET x == call[c].row
        s == call[c].status
    IN
    /\ At(c, "decide")
    /\ SetStatus(x, s)
    /\ decided' = IF Exists(x) THEN [decided EXCEPT ![x] = @ + 1] ELSE decided
    /\ edits' = IF s = "approved" THEN [edits EXCEPT ![x] = 0] ELSE edits
    /\ Return(c)
    /\ UNCHANGED <<review, rating, overlapped>>

-----------------------------------------------------------------------------
(* Removing a resort *)

\* ResortsService.remove counts the experiences ...
RemoveResort(c, r) ==
    /\ Exists(r)
    /\ ExperiencesOf(r) = {}
    /\ Begin(c, "remove", r)
    /\ UNCHANGED <<row, review, rating, submitted, decided, edits, overlapped>>

\* The transaction that adds a review holds the experience's row.
Reviewing(e) == \E c \in Calls : On(c, "rate", e)

\* ... and deletes the resort, with what experiences it has by now, and
\* their reviews.
ResortRemoved(c) ==
    LET r == call[c].row
        lost == ExperiencesOf(r)
    IN
    /\ At(c, "remove")
    /\ \A e \in lost : ~Reviewing(e)
    /\ row' = [x \in Rows |->
         IF x = r \/ x \in lost THEN [row[x] EXCEPT !.status = "gone"] ELSE row[x]]
    /\ review' = [v \in Reviews |-> IF review[v] \in lost THEN Null ELSE review[v]]
    /\ rating' = [e \in Experiences |-> IF e \in lost THEN 0 ELSE rating[e]]
    /\ Return(c)
    /\ UNCHANGED <<submitted, decided, edits, overlapped>>

-----------------------------------------------------------------------------
(* Ratings *)

\* createReview: the experience is active (who reviews is not told apart) ...
CreateReview(c, e) ==
    /\ Found(e)
    /\ Begin(c, "review", e)
    /\ UNCHANGED <<row, review, rating, submitted, decided, edits, overlapped>>

\* Mutation: the rows are counted before the new one.
WithoutTheNewOne(e) == Cardinality(ReviewsOf(e))

\* COUNT(*) sees the committed rows and the transaction's own.
Counted(e) == Cardinality(ReviewsOf(e)) + 1

\* ... its INSERT, whose trigger recalc_experience_rating counts the rows ...
InsertReview(c) ==
    LET e == call[c].row IN
    /\ At(c, "review")
    /\ IF Exists(e)
       THEN /\ call' = [call EXCEPT ![c].at = "rate", ![c].count = Counted(e)]
            /\ overlapped' = IF Reviewing(e) THEN overlapped \cup {e} ELSE overlapped
       ELSE /\ Return(c)
            /\ UNCHANGED overlapped
    /\ UNCHANGED <<row, review, rating, submitted, decided, edits>>

\* ... and then updates the experience, one transaction after the other.
CommitReview(c, v) ==
    LET e == call[c].row IN
    /\ At(c, "rate")
    /\ review[v] = Null
    /\ review' = [review EXCEPT ![v] = e]
    /\ rating' = [rating EXCEPT ![e] = call[c].count]
    /\ Return(c)
    /\ UNCHANGED <<row, submitted, decided, edits, overlapped>>

\* A request ends early: an error, or a process that is stopped.
Crash(c) ==
    /\ ~At(c, "idle")
    /\ Return(c)
    /\ UNCHANGED <<row, review, rating, submitted, decided, edits, overlapped>>

Step(c) ==
    \/ \E r \in Resorts : \E admin \in BOOLEAN : UpdateResort(c, r, admin)
    \/ \E e \in Experiences : \E s \in ExperienceStatus : UpdateExperience(c, e, s)
    \/ \E x \in Rows : Submit(c, x) \/ \E verdict \in Verdicts(x) : Decide(c, x, verdict)
    \/ \E r \in Resorts : RemoveResort(c, r)
    \/ \E e \in Experiences : WithdrawExperience(c, e) \/ CreateReview(c, e)
    \/ \E v \in Reviews : CommitReview(c, v)
    \/ ResortUpdated(c) \/ ExperienceUpdated(c) \/ ExperienceWithdrawn(c)
    \/ Submitted(c) \/ Decided(c)
    \/ ResortRemoved(c) \/ InsertReview(c) \/ Crash(c)

Next ==
    \/ \E c \in Calls : Step(c)
    \/ \E r \in Resorts : CreateResort(r)
    \/ \E e \in Experiences : \E r \in Resorts : \E s \in ExperienceStatus :
          CreateExperience(e, r, s)
    \/ \E e \in Experiences : ActivateExperience(e)

Spec == Init /\ [][Next]_vars

-----------------------------------------------------------------------------
(* Properties *)

\* Rows, reviews and requests are of their kinds.
TypeOK ==
    /\ row \in [Rows -> Opt(Row)]
    /\ \A x \in Rows : Exists(x) => row[x].status \in Status(x)
    /\ review \in [Reviews -> Opt(Experiences)]
    /\ rating \in [Experiences -> Nat]
    /\ submitted \in [Rows -> 0 .. MaxRounds]
    /\ decided \in [Rows -> Nat]
    /\ edits \in [Resorts -> Nat]
    /\ overlapped \subseteq Experiences
    /\ call \in [Calls -> Call]

\* Decisions overwrite each other (two administrators, or one who rejects a
\* document of a resort just approved), but each submission leads to at most
\* as many as there are requests at a time: nothing is decided that was not
\* submitted, and what is decided stays so until it is submitted again.
DecisionsPerSubmission ==
    \A x \in Rows : decided[x] <= Cardinality(Calls) * submitted[x]

\* An owner changes an approved resort only by updates that had passed the
\* check when it was approved: at most one for each other request.
EditsAfterApproval ==
    \A r \in Resorts : Is(r, "approved") => edits[r] < Cardinality(Calls)

\* rating_count is the number of reviews, as long as no two were added to
\* the experience at the same time (the trigger counts before it locks).
RatingIsCurrent ==
    \A e \in Experiences :
       e \notin overlapped => rating[e] = Cardinality(ReviewsOf(e))

\* A draft and a rejected experience are dead ends: findOne hides them from
\* update, remove and submitForReview, so until its resort is removed the only
\* requests that change one are those that had read it as something else, and
\* write by id what they were asked to (update, remove, approveExperience).
DeadEnds ==
    [][\A e \in Experiences :
          /\ Is(e, "draft") \/ Is(e, "rejected")
          /\ row'[e] # row[e]
          => \/ row'[e].status = "gone"
             \/ \E c \in Calls :
                   /\ call[c].row = e /\ call[c].found \notin {"draft", "rejected"}
                   /\ Return(c)]_vars

=============================================================================
