\* Two e-mails and two workers, with one crash.
CONSTANTS
    Jobs = {j1, j2}
    Workers = {w1, w2}
    MaxAttempts = 3
    MaxCrashes = 1
SPECIFICATION FairSpec
INVARIANTS
    TypeOK
    ImmediateIsKept
    MailedTwiceForAReason
    LogIsBacked
PROPERTY ImmediateIsTried
CHECK_DEADLOCK FALSE
