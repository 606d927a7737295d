\* A resort and an experience, two reviews, two requests at a time.
CONSTANTS
    c1 = c1
    c2 = c2
    v1 = v1
    v2 = v2
    Null = Null
    Resorts = {r1}
    Experiences = {e1}
    Reviews = {v1, v2}
    Calls = {c1, c2}
    MaxRounds = 2
SYMMETRY Symmetry
SPECIFICATION Spec
CHECK_DEADLOCK FALSE
INVARIANTS
    TypeOK
    DecisionsPerSubmission
    EditsAfterApproval
    RatingIsCurrent
PROPERTIES
    DeadEnds
