--------------------------- MODULE Notifications ---------------------------
(***************************************************************************)
(* E-mails on their way: NotificationQueueService puts jobs into RabbitMQ, *)
(* notification-worker takes them out, sends them, has failed ones wait    *)
(* for a retry, and keeps `email_logs`.                                    *)
(*                                                                         *)
(* RabbitMQ is modelled from how the code declares its queues: a message   *)
(* keeps its routing key when it is dead-lettered, and an exchange drops   *)
(* what no binding wants.  A delay is an expiry at any time of a queue's   *)
(* first message.                                                          *)
(***************************************************************************)
EXTENDS Integers, Sequences, Functions

CONSTANTS
    Jobs,         \* ids of the e-mails
    Workers,      \* instances of notification-worker
    MaxAttempts,  \* maxAttempts of every job
    MaxCrashes    \* bound: how often the workers crash

ASSUME NotificationsAssumption ==
    /\ MaxAttempts \in Nat \ {0}
    /\ MaxCrashes \in Nat

VARIABLES
    queue,     \* in the broker: the messages of each queue
    queued,    \* the jobs given to the broker, with how they were
    hand,      \* what each consumer of each worker is in the middle of
    logging,   \* log entries on their way to the database
    emailLog,  \* the email_logs table
    mailed,    \* how often the mail server accepted each e-mail
    failed,    \* how often sendEmail failed with each e-mail
    crashes

vars == <<queue, queued, hand, logging, emailLog, mailed, failed, crashes>>

-----------------------------------------------------------------------------
(* Queues and messages *)

\* The queues notifications.email.<priority>, bound with email.<priority>.
Priorities == {"high", "medium", "low"}
Consumers == Workers \X Priorities
Queues == Priorities \cup {"scheduled", "retry"}

\* sendToQueue publishes with the queue's name as the routing key.
Message == [job : Jobs, key : Queues, attempts : 0 .. MaxAttempts - 1]

\* The queues that exchange `notifications` sends a routing key to.
Bound(key) == Priorities \cap {key}

\* Where a message that is rejected by, or expires in, queue q goes.
DeadLetterQueues(q, key) == IF q \in Priorities THEN {"retry"} ELSE Bound(key)

\* Queue q loses its first message; those in Q get m at their end.
Moved(q, Q, m) ==
    [r \in Queues |-> LET rest == IF r = q THEN Tail(queue[r]) ELSE queue[r]
                      IN  IF r \in Q THEN Append(rest, m) ELSE rest]

With(Q, m) == [r \in Queues |-> IF r \in Q THEN Append(queue[r], m) ELSE queue[r]]

Free == [at |-> "free"]
Held == [at : {"send", "sent", "failed", "requeued"}, msg : Message]
LogStatuses == {"sent", "failed", "retrying"}
NotLogged == [status |-> "none", attempts |-> 0]

TypeOK ==
    /\ queue \in [Queues -> Seq(Message)]
    /\ queued \in [Jobs -> {"no", "immediate", "scheduled"}]
    /\ hand \in [Consumers -> Held \cup {Free}]
    /\ logging \subseteq [worker : Workers, job : Jobs, status : LogStatuses,
                          attempts : 0 .. MaxAttempts]
    /\ emailLog \in [Jobs -> [status : LogStatuses \cup {"none"}, attempts : 0 .. MaxAttempts]]
    /\ mailed \in [Jobs -> Nat]
    /\ failed \in [Jobs -> Nat]
    /\ crashes \in 0 .. MaxCrashes

Init ==
    /\ queue = [q \in Queues |-> <<>>]
    /\ queued = [j \in Jobs |-> "no"]
    /\ hand = [c \in Consumers |-> Free]
    /\ logging = {}
    /\ emailLog = [j \in Jobs |-> NotLogged]
    /\ mailed = [j \in Jobs |-> 0]
    /\ failed = [j \in Jobs |-> 0]
    /\ crashes = 0

-----------------------------------------------------------------------------
(* queueEmailNotification *)

\* Mutation: published under a key nothing is bound to.
RoutingKeyOther(p) == "retry"

RoutingKey(p) == p

QueueImmediate(j, p) ==
    LET m == [job |-> j, key |-> RoutingKey(p), attempts |-> 0] IN
    /\ queued[j] = "no"
    /\ queued' = [queued EXCEPT ![j] = "immediate"]
    /\ queue' = With(Bound(m.key), m)
    /\ UNCHANGED <<hand, logging, emailLog, mailed, failed, crashes>>

QueueScheduled(j) ==
    /\ queued[j] = "no"
    /\ queued' = [queued EXCEPT ![j] = "scheduled"]
    /\ queue' = With({"scheduled"}, [job |-> j, key |-> "scheduled", attempts |-> 0])
    /\ UNCHANGED <<hand, logging, emailLog, mailed, failed, crashes>>

\* The first message of a queue with a time to live expires.
Expire(q) ==
    /\ queue[q] # <<>>
    /\ queue' = Moved(q, DeadLetterQueues(q, Head(queue[q]).key), Head(queue[q]))
    /\ UNCHANGED <<queued, hand, logging, emailLog, mailed, failed, crashes>>

-----------------------------------------------------------------------------
(* processEmailJob, for consumer c of queue c[2] in worker c[1].  After    *)
(* the acknowledgement the next message comes, while the log is still      *)
(* being written.                                                          *)

\* One message at a time for each consumer: prefetch(1).
Deliver(c) ==
    /\ hand[c] = Free
    /\ queue[c[2]] # <<>>
    /\ hand' = [hand EXCEPT ![c] = [at |-> "send", msg |-> Head(queue[c[2]])]]
    /\ queue' = Moved(c[2], {}, Head(queue[c[2]]))
    /\ UNCHANGED <<queued, logging, emailLog, mailed, failed, crashes>>

\* sendEmail: the mail server takes the e-mail, or it does and its answer is
\* lost, or it does not.
SendEmail(c, accepted, success) ==
    LET j == hand[c].msg.job IN
    /\ hand[c].at = "send"
    /\ success => accepted
    /\ mailed' = IF accepted THEN [mailed EXCEPT ![j] = @ + 1] ELSE mailed
    /\ failed' = IF success THEN failed ELSE [failed EXCEPT ![j] = @ + 1]
    /\ hand' = [hand EXCEPT ![c].at = IF success THEN "sent" ELSE "failed"]
    /\ UNCHANGED <<queue, queued, logging, emailLog, crashes>>

\* Mutation: a status that email_logs does not have.
EntryUnknown(w, m, status) == [worker |-> w, job |-> m.job, status |-> "error", attempts |-> m.attempts]

\* Mutation: the log does not wait for the outcome.
EntryHasty(w, m, status) == [worker |-> w, job |-> m.job, status |-> "sent", attempts |-> m.attempts]

Entry(w, m, status) == [worker |-> w, job |-> m.job, status |-> status, attempts |-> m.attempts]

\* Mutation: a sent e-mail is given back to its queue.
NackSent(c) ==
    /\ hand[c].at = "sent"
    /\ hand' = [hand EXCEPT ![c] = Free]
    /\ queue' = With({c[2]}, hand[c].msg)
    /\ UNCHANGED <<queued, logging, emailLog, mailed, failed, crashes>>

AckSent(c) ==
    /\ hand[c].at = "sent"
    /\ hand' = [hand EXCEPT ![c] = Free]
    /\ logging' = logging \cup {Entry(c[1], hand[c].msg, "sent")}
    /\ UNCHANGED <<queue, queued, emailLog, mailed, failed, crashes>>

\* At the last attempt the message is rejected as it came; before it, a copy
\* with one attempt more is put into the retry queue.
AfterFailure(c) ==
    LET m == hand[c].msg
        again == [m EXCEPT !.key = "retry", !.attempts = @ + 1]
    IN
    /\ hand[c].at = "failed"
    /\ IF again.attempts >= MaxAttempts
       THEN /\ queue' = With(DeadLetterQueues(c[2], m.key), m)
            /\ hand' = [hand EXCEPT ![c] = Free]
            /\ logging' = logging \cup {Entry(c[1], again, "failed")}
       ELSE /\ queue' = With({"retry"}, again)
            /\ hand' = [hand EXCEPT ![c].at = "requeued"]
            /\ UNCHANGED logging
    /\ UNCHANGED <<queued, emailLog, mailed, failed, crashes>>

AckRequeued(c) ==
    LET m == hand[c].msg IN
    /\ hand[c].at = "requeued"
    /\ hand' = [hand EXCEPT ![c] = Free]
    /\ logging' = logging \cup {Entry(c[1], [m EXCEPT !.attempts = @ + 1], "retrying")}
    /\ UNCHANGED <<queue, queued, emailLog, mailed, failed, crashes>>

\* logEmailSent: an upsert, or an error that is only logged.
LogEmailSent(l) ==
    /\ l \in logging
    /\ logging' = logging \ {l}
    /\ \/ emailLog' = [emailLog EXCEPT ![l.job] = [status |-> l.status, attempts |-> l.attempts]]
       \/ UNCHANGED emailLog
    /\ UNCHANGED <<queue, queued, hand, mailed, failed, crashes>>

\* Mutation: messages are acknowledged when they are delivered (noAck).
GivenBackNone(c) == <<>>

\* The broker takes back what the worker had not acknowledged.
GivenBack(c) == IF hand[c] = Free THEN <<>> ELSE <<hand[c].msg>>

\* A crash, a shutdown or a lost connection.
Crash(w) ==
    /\ crashes < MaxCrashes
    /\ \E p \in Priorities : hand[<<w, p>>] # Free
    /\ crashes' = crashes + 1
    /\ queue' = [q \in Queues |-> IF q \in Priorities THEN GivenBack(<<w, q>>) \o queue[q] ELSE queue[q]]
    /\ hand' = [c \in Consumers |-> IF c[1] = w THEN Free ELSE hand[c]]
    /\ logging' = {l \in logging : l.worker # w}
    /\ UNCHANGED <<queued, emailLog, mailed, failed>>

Handle(c) ==
    \/ Deliver(c)
    \/ \E accepted, success \in BOOLEAN : SendEmail(c, accepted, success)
    \/ AckSent(c) \/ AfterFailure(c) \/ AckRequeued(c)

Next ==
    \/ \E j \in Jobs : QueueScheduled(j) \/ \E p \in Priorities : QueueImmediate(j, p)
    \/ \E q \in {"scheduled", "retry"} : Expire(q)
    \/ \E c \in Consumers : Handle(c)
    \/ \E w \in Workers : Crash(w)
    \/ \E l \in logging : LogEmailSent(l)

Spec == Init /\ [][Next]_vars

\* The workers keep consuming and time passes; nothing is assumed of crashes,
\* of the mail server's answers or of new jobs.
FairSpec ==
    /\ Spec
    /\ \A q \in {"scheduled", "retry"} : WF_vars(Expire(q))
    /\ \A c \in Consumers : WF_vars(Handle(c))

-----------------------------------------------------------------------------
(* What must hold *)

Messages(q) == Range(queue[q])
InHand(j) == \E c \in Consumers : hand[c] # Free /\ hand[c].msg.job = j

(* An e-mail to be sent at once is not lost before it was tried: it was    *)
(* accepted, or failed, or it is in its queue or a worker has it, however  *)
(* the workers crash.                                                      *)
ImmediateIsKept ==
    \A j \in Jobs :
        queued[j] = "immediate" =>
            \/ mailed[j] > 0 \/ failed[j] > 0
            \/ InHand(j)
            \/ \E p \in Priorities : \E m \in Messages(p) : m.job = j

(* The customer gets an e-mail twice only if a worker crashed or an        *)
(* attempt seemed to have failed.                                          *)
MailedTwiceForAReason == \A j \in Jobs : mailed[j] <= 1 + crashes + failed[j]

(* email_logs says no more than what happened: a sent e-mail was accepted, *)
(* and one to be retried had as many failures as it counts attempts.       *)
LogIsBacked ==
    \A j \in Jobs :
        /\ emailLog[j].status = "sent" => mailed[j] > 0
        /\ emailLog[j].status \in {"retrying", "failed"} => failed[j] >= emailLog[j].attempts

(* Every e-mail to be sent at once is tried, although a worker may crash   *)
(* with it.                                                                *)
ImmediateIsTried ==
    \A j \in Jobs : queued[j] = "immediate" ~> mailed[j] > 0 \/ failed[j] > 0

-----------------------------------------------------------------------------
(* What the documentation says and the code does not keep *)

(* "Sistema de reintentos con backoff exponencial": an e-mail that failed  *)
(* in fewer than maxAttempts attempts, and that the mail server never      *)
(* accepted, is still to be tried.                                         *)
FailedIsRetried ==
    \A j \in Jobs :
        failed[j] \in 1 .. MaxAttempts - 1 /\ mailed[j] = 0 =>
            InHand(j) \/ \E q \in Queues : \E m \in Messages(q) : m.job = j
=============================================================================
