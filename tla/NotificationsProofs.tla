------------------------ MODULE NotificationsProofs ------------------------
(***************************************************************************)
(* Proofs about Notifications for any number of e-mails, workers and       *)
(* crashes: the queues and the workers' hands keep their types, no e-mail  *)
(* to be sent at once is lost before it was tried, email_logs says no more *)
(* than what happened, and no e-mail is mailed twice without a reason.     *)
(***************************************************************************)
EXTENDS Notifications, SequenceTheorems, TLAPS

-----------------------------------------------------------------------------
(* Queues *)

(* Where a routing key and a dead letter lead are queues.                  *)
LEMMA RoutesAreQueues ==
    ASSUME NEW q, NEW key
    PROVE  Bound(key) \subseteq Queues /\ DeadLetterQueues(q, key) \subseteq Queues
BY DEF Bound, DeadLetterQueues, Queues, Priorities

(* What a sequence of one message, or one after the other, holds.          *)
LEMMA OneMessage ==
    ASSUME NEW m \in Message
    PROVE  <<m>> \in Seq(Message) /\ Range(<<m>>) = {m}
<1>1. <<m>> \in Seq(Message) /\ Len(<<m>>) = 1 /\ <<m>>[1] = m
  OBVIOUS
<1>2. Range(<<m>>) = {<<m>>[i] : i \in 1 .. Len(<<m>>)}
  BY <1>1, RangeEquality
<1>3. 1 .. 1 = {1}
  OBVIOUS
<1> QED
  BY <1>1, <1>2, <1>3

LEMMA AppendedMessage ==
    ASSUME NEW s \in Seq(Message), NEW m \in Message
    PROVE  Append(s, m) \in Seq(Message) /\ Range(Append(s, m)) = Range(s) \cup {m}
<1>1. Append(s, m) = s \o <<m>>
  BY AppendIsConcat
<1>2. Range(s \o <<m>>) = Range(s) \cup Range(<<m>>)
  <2> DEFINE t == <<m>>
  <2>1. t \in Seq(Message)
    BY OneMessage
  <2> HIDE DEF t
  <2>2. Range(s \o t) = Range(s) \cup Range(t)
    BY <2>1, RangeConcatenation
  <2> QED
    BY <2>2 DEF t
<1>3. s \o <<m>> \in Seq(Message)
  BY OneMessage, ConcatProperties
<1> QED
  BY <1>1, <1>2, <1>3, OneMessage

(* A message that is put into queues is added to what they hold.           *)
LEMMA WithMessage ==
    ASSUME TypeOK, NEW Q \in SUBSET Queues, NEW m \in Message
    PROVE  /\ With(Q, m) \in [Queues -> Seq(Message)]
           /\ \A r \in Queues : Range(queue[r]) \subseteq Range(With(Q, m)[r])
           /\ \A r \in Q : m \in Range(With(Q, m)[r])
<1>1. \A r \in Queues : queue[r] \in Seq(Message)
  BY DEF TypeOK
<1>2. ASSUME NEW r \in Queues
      PROVE  /\ Append(queue[r], m) \in Seq(Message)
             /\ Range(Append(queue[r], m)) = Range(queue[r]) \cup {m}
  BY <1>1, AppendedMessage
<1> QED
  BY <1>1, <1>2 DEF With

(* A queue that is not empty consists of its first message and the rest.   *)
LEMMA HeadAndTail ==
    ASSUME NEW s \in Seq(Message), s # <<>>
    PROVE  /\ Head(s) \in Message /\ Tail(s) \in Seq(Message)
           /\ Range(s) = {Head(s)} \cup Range(Tail(s))
<1>1. Head(s) \in Message /\ Tail(s) \in Seq(Message) /\ s = <<Head(s)>> \o Tail(s)
  BY HeadTailProperties
<1>2. Range(<<Head(s)>> \o Tail(s)) = Range(<<Head(s)>>) \cup Range(Tail(s))
  <2> DEFINE t == <<Head(s)>>
             rest == Tail(s)
  <2>1. t \in Seq(Message) /\ rest \in Seq(Message)
    BY <1>1, OneMessage
  <2> HIDE DEF t, rest
  <2>2. Range(t \o rest) = Range(t) \cup Range(rest)
    BY <2>1, RangeConcatenation
  <2> QED
    BY <2>2 DEF t, rest
<1> QED
  BY <1>1, <1>2, OneMessage

(* A queue that loses its first message keeps the others.                  *)
LEMMA MovedMessage ==
    ASSUME TypeOK, NEW q \in Queues, queue[q] # <<>>, NEW Q \in SUBSET Queues
    PROVE  /\ Head(queue[q]) \in Message
           /\ Moved(q, Q, Head(queue[q])) \in [Queues -> Seq(Message)]
           /\ \A r \in Queues : Range(queue[r]) \subseteq
                  Range(Moved(q, Q, Head(queue[q]))[r]) \cup (IF r = q THEN {Head(queue[q])} ELSE {})
<1> DEFINE m == Head(queue[q])
           Rest(r) == IF r = q THEN Tail(queue[r]) ELSE queue[r]
<1>1. \A r \in Queues : queue[r] \in Seq(Message)
  BY DEF TypeOK
<1>2. m \in Message
  BY <1>1, HeadAndTail
<1>3. ASSUME NEW r \in Queues
      PROVE  /\ Rest(r) \in Seq(Message)
             /\ Range(queue[r]) \subseteq Range(Rest(r)) \cup (IF r = q THEN {m} ELSE {})
             /\ Append(Rest(r), m) \in Seq(Message)
             /\ Range(Rest(r)) \subseteq Range(Append(Rest(r), m))
  <2>1. /\ Rest(r) \in Seq(Message)
        /\ Range(queue[r]) \subseteq Range(Rest(r)) \cup (IF r = q THEN {m} ELSE {})
    BY <1>1, HeadAndTail
  <2> HIDE DEF m, Rest
  <2> QED
    BY <1>2, <2>1, AppendedMessage
<1>4. Moved(q, Q, m) = [r \in Queues |-> IF r \in Q THEN Append(Rest(r), m) ELSE Rest(r)]
  BY DEF Moved
<1> HIDE DEF m, Rest
<1>5. /\ Moved(q, Q, m) \in [Queues -> Seq(Message)]
      /\ \A r \in Queues : Range(queue[r]) \subseteq
             Range(Moved(q, Q, m)[r]) \cup (IF r = q THEN {m} ELSE {})
  BY <1>3, <1>4
<1> QED
  BY <1>2, <1>5 DEF m

(* What a worker gives back comes before the rest of its queue.            *)
LEMMA GivenBackMessages ==
    ASSUME TypeOK, NEW w \in Workers, NEW p \in Priorities
    PROVE  LET t == GivenBack(<<w, p>>) \o queue[p] IN
           /\ t \in Seq(Message)
           /\ Range(queue[p]) \subseteq Range(t)
           /\ hand[<<w, p>>] # Free => hand[<<w, p>>].msg \in Range(t)
<1> DEFINE h == hand[<<w, p>>]
<1>1. queue[p] \in Seq(Message) /\ h \in Held \cup {Free}
  BY DEF TypeOK, Queues, Consumers
<1>2. CASE h = Free
  BY <1>1, <1>2, ConcatEmptySeq DEF GivenBack
<1>3. CASE h # Free
  <2> DEFINE t == <<h.msg>>
             rest == queue[p]
  <2>1. h.msg \in Message
    BY <1>1, <1>3 DEF Held
  <2>2. t \in Seq(Message) /\ Range(t) = {h.msg} /\ rest \in Seq(Message)
    BY <1>1, <2>1, OneMessage
  <2>3. GivenBack(<<w, p>>) = t
    BY <1>3 DEF GivenBack
  <2> HIDE DEF t, rest
  <2>4. t \o rest \in Seq(Message) /\ Range(t \o rest) = Range(t) \cup Range(rest)
    <3>1. t \o rest \in Seq(Message)
      BY <2>2, ConcatProperties
    <3>2. Range(t \o rest) = Range(t) \cup Range(rest)
      BY <2>2, RangeConcatenation
    <3> QED
      BY <3>1, <3>2
  <2> QED
    BY <2>2, <2>3, <2>4 DEF rest
<1> QED
  BY <1>2, <1>3

-----------------------------------------------------------------------------
(* Types *)

(* A consumer at work holds a message.                                     *)
LEMMA HeldMessage ==
    ASSUME TypeOK, NEW c \in Consumers, hand[c] # Free
    PROVE  hand[c] \in Held /\ hand[c].msg \in Message
BY DEF TypeOK, Held

(* A hand that is not free is at one of the steps.                         *)
LEMMA FreeIsNoStep == \A s \in {"send", "sent", "failed", "requeued"} : Free.at # s
BY DEF Free

(* Counters count.                                                         *)
LEMMA Counted ==
    ASSUME NEW f \in [Jobs -> Nat], NEW j \in Jobs
    PROVE  [f EXCEPT ![j] = @ + 1] \in [Jobs -> Nat]
OBVIOUS

(* A step of a consumer keeps the types.                                   *)
LEMMA TypeHandle ==
    ASSUME TypeOK, NEW c \in Consumers, Handle(c)
    PROVE  TypeOK'
<1>1. c[1] \in Workers /\ c[2] \in Queues
  BY DEF Consumers, Queues
<1>2. ASSUME Deliver(c) PROVE TypeOK'
  <2>1. /\ Head(queue[c[2]]) \in Message
        /\ queue' \in [Queues -> Seq(Message)]
    BY <1>1, <1>2, MovedMessage DEF Deliver
  <2>2. hand' \in [Consumers -> Held \cup {Free}]
    BY <1>2, <2>1 DEF Deliver, TypeOK, Held
  <2> QED
    BY <1>2, <2>1, <2>2 DEF Deliver, TypeOK
<1>3. ASSUME NEW accepted \in BOOLEAN, NEW success \in BOOLEAN, SendEmail(c, accepted, success)
      PROVE  TypeOK'
  <2>1. hand[c] \in Held
    BY <1>3, HeldMessage, FreeIsNoStep DEF SendEmail
  <2>2. hand' \in [Consumers -> Held \cup {Free}]
    BY <1>3, <2>1 DEF SendEmail, TypeOK, Held
  <2>3. hand[c].msg.job \in Jobs
    BY <2>1 DEF Held, Message
  <2>4. mailed' \in [Jobs -> Nat] /\ failed' \in [Jobs -> Nat]
    BY <1>3, <2>3, Counted DEF SendEmail, TypeOK
  <2> QED
    BY <1>3, <2>2, <2>4 DEF SendEmail, TypeOK
<1>4. ASSUME hand[c] # Free, NEW s \in LogStatuses, NEW n \in 0 .. MaxAttempts
      PROVE  [worker |-> c[1], job |-> hand[c].msg.job, status |-> s, attempts |-> n] \in
                 [worker : Workers, job : Jobs, status : LogStatuses, attempts : 0 .. MaxAttempts]
  BY <1>1, <1>4, HeldMessage DEF Message
<1>5. ASSUME AckSent(c) PROVE TypeOK'
  <2>1. hand[c] # Free /\ hand[c].msg.attempts \in 0 .. MaxAttempts
    BY <1>5, HeldMessage, FreeIsNoStep, NotificationsAssumption DEF AckSent, Message
  <2>2. Entry(c[1], hand[c].msg, "sent") \in
            [worker : Workers, job : Jobs, status : LogStatuses, attempts : 0 .. MaxAttempts]
    BY <1>4, <2>1 DEF Entry, LogStatuses
  <2> QED
    BY <1>5, <2>2 DEF AckSent, TypeOK
<1>6. ASSUME AfterFailure(c) PROVE TypeOK'
  <2> DEFINE m == hand[c].msg
             again == [m EXCEPT !.key = "retry", !.attempts = @ + 1]
  <2>1. hand[c] # Free /\ hand[c] \in Held /\ m \in Message
    BY <1>6, HeldMessage, FreeIsNoStep DEF AfterFailure
  <2>2. /\ again.attempts \in 0 .. MaxAttempts
        /\ again.job = m.job
        /\ again.attempts < MaxAttempts => again \in Message
    <3>1. m.job \in Jobs /\ m.key \in Queues /\ m.attempts \in 0 .. MaxAttempts - 1
      BY <2>1 DEF Message
    <3>2. "retry" \in Queues /\ m.attempts + 1 \in 0 .. MaxAttempts
      BY <3>1, NotificationsAssumption DEF Queues
    <3>3. again.attempts = m.attempts + 1 /\ again.job = m.job
      BY <2>1 DEF Message
    <3>4. ASSUME m.attempts + 1 < MaxAttempts PROVE again \in Message
      <4>1. m.attempts + 1 \in 0 .. MaxAttempts - 1
        BY <3>1, <3>4, NotificationsAssumption
      <4> QED
        BY <2>1, <3>2, <4>1 DEF Message
    <3> QED
      BY <3>2, <3>3, <3>4
  <2>3. CASE again.attempts >= MaxAttempts
    <3>1. queue' = With(DeadLetterQueues(c[2], m.key), m)
      BY <1>6, <2>3 DEF AfterFailure
    <3>2. queue' \in [Queues -> Seq(Message)]
      BY <2>1, <3>1, RoutesAreQueues, WithMessage
    <3>3. Entry(c[1], again, "failed") \in
              [worker : Workers, job : Jobs, status : LogStatuses, attempts : 0 .. MaxAttempts]
      BY <1>4, <2>1, <2>2 DEF Entry, LogStatuses
    <3>4. logging' = logging \cup {Entry(c[1], again, "failed")} /\ hand' = [hand EXCEPT ![c] = Free]
      BY <1>6, <2>3 DEF AfterFailure
    <3> HIDE DEF again
    <3> QED
      BY <1>6, <3>2, <3>3, <3>4 DEF AfterFailure, TypeOK
  <2>4. CASE ~(again.attempts >= MaxAttempts)
    <3>1. /\ queue' = With({"retry"}, again)
          /\ hand' = [hand EXCEPT ![c].at = "requeued"] /\ logging' = logging
      BY <1>6, <2>4 DEF AfterFailure
    <3>2. again \in Message
      BY <2>2, <2>4, NotificationsAssumption
    <3> HIDE DEF again
    <3>3. queue' \in [Queues -> Seq(Message)]
      BY <3>1, <3>2, WithMessage DEF Queues
    <3>4. hand' \in [Consumers -> Held \cup {Free}]
      BY <2>1, <3>1 DEF TypeOK, Held
    <3> QED
      BY <1>6, <3>1, <3>3, <3>4 DEF AfterFailure, TypeOK
  <2> QED
    BY <2>3, <2>4
<1>7. ASSUME AckRequeued(c) PROVE TypeOK'
  <2> DEFINE m == hand[c].msg
             again == [m EXCEPT !.attempts = @ + 1]
  <2>1. hand[c] # Free /\ m \in Message
    BY <1>7, HeldMessage, FreeIsNoStep DEF AckRequeued
  <2>2. again.attempts \in 0 .. MaxAttempts /\ again.job = m.job
    BY <2>1, NotificationsAssumption DEF Message
  <2>3. Entry(c[1], again, "retrying") \in
            [worker : Workers, job : Jobs, status : LogStatuses, attempts : 0 .. MaxAttempts]
    BY <1>4, <2>1, <2>2 DEF Entry, LogStatuses
  <2>4. logging' = logging \cup {Entry(c[1], again, "retrying")}
    BY <1>7 DEF AckRequeued
  <2> HIDE DEF again
  <2> QED
    BY <1>7, <2>3, <2>4 DEF AckRequeued, TypeOK
<1> QED
  BY <1>2, <1>3, <1>5, <1>6, <1>7 DEF Handle

(* Jobs that come in, messages that expire, crashes and log entries keep   *)
(* the types.                                                              *)
LEMMA TypeOutside ==
    ASSUME TypeOK
    PROVE  /\ \A j \in Jobs : QueueScheduled(j) => TypeOK'
           /\ \A j \in Jobs, p \in Priorities : QueueImmediate(j, p) => TypeOK'
           /\ \A q \in {"scheduled", "retry"} : Expire(q) => TypeOK'
           /\ \A w \in Workers : Crash(w) => TypeOK'
           /\ \A l \in logging : LogEmailSent(l) => TypeOK'
<1>1. ASSUME NEW j \in Jobs, QueueScheduled(j) PROVE TypeOK'
  <2> DEFINE m == [job |-> j, key |-> "scheduled", attempts |-> 0]
  <2>1. m \in Message
    BY NotificationsAssumption DEF Message, Queues
  <2>2. queue' = With({"scheduled"}, m)
    BY <1>1 DEF QueueScheduled
  <2> HIDE DEF m
  <2>3. queue' \in [Queues -> Seq(Message)]
    BY <2>1, <2>2, WithMessage DEF Queues
  <2> QED
    BY <1>1, <2>3 DEF QueueScheduled, TypeOK
<1>2. ASSUME NEW j \in Jobs, NEW p \in Priorities, QueueImmediate(j, p) PROVE TypeOK'
  <2> DEFINE m == [job |-> j, key |-> RoutingKey(p), attempts |-> 0]
  <2>1. m \in Message
    BY NotificationsAssumption DEF Message, Queues, RoutingKey
  <2>2. queue' = With(Bound(m.key), m)
    BY <1>2 DEF QueueImmediate
  <2> HIDE DEF m
  <2>3. queue' \in [Queues -> Seq(Message)]
    BY <2>1, <2>2, WithMessage, RoutesAreQueues
  <2> QED
    BY <1>2, <2>3 DEF QueueImmediate, TypeOK
<1>3. ASSUME NEW q \in {"scheduled", "retry"}, Expire(q) PROVE TypeOK'
  <2>1. queue' \in [Queues -> Seq(Message)]
    <3>1. q \in Queues /\ queue[q] # <<>>
      BY <1>3 DEF Expire, Queues
    <3>2. DeadLetterQueues(q, Head(queue[q]).key) \in SUBSET Queues
      BY RoutesAreQueues
    <3>3. queue' = Moved(q, DeadLetterQueues(q, Head(queue[q]).key), Head(queue[q]))
      BY <1>3 DEF Expire
    <3> QED
      BY <3>1, <3>2, <3>3, MovedMessage
  <2> QED
    BY <1>3, <2>1 DEF Expire, TypeOK
<1>4. ASSUME NEW w \in Workers, Crash(w) PROVE TypeOK'
  <2>1. queue' \in [Queues -> Seq(Message)]
    BY <1>4, GivenBackMessages DEF Crash, TypeOK
  <2>2. hand' \in [Consumers -> Held \cup {Free}]
    BY <1>4 DEF Crash, TypeOK
  <2>3. crashes' \in 0 .. MaxCrashes
    BY <1>4, NotificationsAssumption DEF Crash, TypeOK
  <2> QED
    BY <1>4, <2>1, <2>2, <2>3 DEF Crash, TypeOK
<1>5. ASSUME NEW l \in logging, LogEmailSent(l) PROVE TypeOK'
  <2>1. l \in [worker : Workers, job : Jobs, status : LogStatuses, attempts : 0 .. MaxAttempts]
    BY DEF TypeOK
  <2>2. /\ l.job \in Jobs
        /\ [status |-> l.status, attempts |-> l.attempts] \in
               [status : LogStatuses \cup {"none"}, attempts : 0 .. MaxAttempts]
    BY <2>1
  <2>3. emailLog' \in [Jobs -> [status : LogStatuses \cup {"none"}, attempts : 0 .. MaxAttempts]]
    BY <1>5, <2>2 DEF LogEmailSent, TypeOK
  <2> QED
    BY <1>5, <2>3 DEF LogEmailSent, TypeOK
<1> QED
  BY <1>1, <1>2, <1>3, <1>4, <1>5

(* The types hold at the start.                                            *)
LEMMA TypeInit == Init => TypeOK
<1> SUFFICES ASSUME Init PROVE TypeOK
  OBVIOUS
<1>1. queue \in [Queues -> Seq(Message)]
  BY EmptySeq DEF Init
<1>2. emailLog \in [Jobs -> [status : LogStatuses \cup {"none"}, attempts : 0 .. MaxAttempts]]
  BY NotificationsAssumption DEF Init, NotLogged
<1> QED
  BY <1>1, <1>2, NotificationsAssumption DEF Init, TypeOK

(* Every step keeps the types.                                             *)
LEMMA TypeNext == TypeOK /\ [Next]_vars => TypeOK'
<1>1. TypeOK /\ Next => TypeOK'
  BY TypeHandle, TypeOutside DEF Next
<1>2. TypeOK /\ UNCHANGED vars => TypeOK'
  BY DEF TypeOK, vars
<1> QED
  BY <1>1, <1>2

(* The queues hold messages, a message never counts as many attempts as    *)
(* are allowed, and the log and the workers' hands keep their types.       *)
THEOREM TypeCorrect == Spec => []TypeOK
BY TypeInit, TypeNext, PTL DEF Spec

-----------------------------------------------------------------------------
(* No e-mail to be sent at once is lost before it was tried. *)

TriedJobs == {j \in Jobs : mailed[j] > 0 \/ failed[j] > 0}

\* A consumer that is past the mail server has tried.
HandTried ==
    \A c \in Consumers :
        hand[c].at \in {"sent", "failed", "requeued"} => hand[c].msg.job \in TriedJobs

QueuedJobs == {j \in Jobs : \E p \in Priorities : \E m \in Messages(p) : m.job = j}

SafeJobs == TriedJobs \cup {j \in Jobs : InHand(j)} \cup QueuedJobs

KeptInvariant == TypeOK /\ HandTried /\ ImmediateIsKept

(* The messages in hands and queues are of jobs.                           *)
LEMMA OfJobs ==
    ASSUME TypeOK
    PROVE  /\ \A c \in Consumers : hand[c] # Free => hand[c].msg.job \in Jobs
           /\ \A p \in Priorities : \A m \in Messages(p) : m.job \in Jobs
<1>1. \A c \in Consumers : hand[c] # Free => hand[c].msg.job \in Jobs
  BY HeldMessage DEF Message
<1>2. ASSUME NEW p \in Priorities PROVE \A m \in Messages(p) : m.job \in Jobs
  <2>1. queue[p] \in Seq(Message)
    BY DEF TypeOK, Queues
  <2>2. Range(queue[p]) \subseteq Message
    BY <2>1, RangeOfSeq
  <2> QED
    BY <2>2 DEF Messages, Message
<1> QED
  BY <1>1, <1>2

(* What is in a hand, in a queue or tried after the step is safe then.     *)
LEMMA SafeNow ==
    /\ TriedJobs' \subseteq SafeJobs'
    /\ \A c \in Consumers, j \in Jobs :
          hand'[c] # Free /\ hand'[c].msg.job = j => j \in SafeJobs'
    /\ \A p \in Priorities : \A m \in Range(queue'[p]) : m.job \in Jobs => m.job \in SafeJobs'
<1>1. \A c \in Consumers, j \in Jobs :
          hand'[c] # Free /\ hand'[c].msg.job = j => InHand(j)'
  BY DEF InHand
<1>2. \A p \in Priorities : \A m \in Range(queue'[p]) : m.job \in Jobs => m.job \in QueuedJobs'
  BY DEF QueuedJobs, Messages
<1> QED
  BY <1>1, <1>2 DEF SafeJobs

(* No e-mail is lost if those that were tried, in a hand, in a queue or    *)
(* new are safe after the step.                                            *)
LEMMA SafeAfter ==
    ASSUME ImmediateIsKept,
           \A j \in Jobs : queued'[j] = "immediate" => queued[j] = "immediate" \/ j \in SafeJobs',
           TriedJobs \subseteq SafeJobs',
           \A c \in Consumers : hand[c] # Free => hand[c].msg.job \in SafeJobs',
           \A p \in Priorities : \A m \in Messages(p) : m.job \in SafeJobs'
    PROVE  ImmediateIsKept'
<1>1. \A j \in Jobs : queued[j] = "immediate" => j \in SafeJobs'
  BY DEF ImmediateIsKept, TriedJobs, InHand
<1>2. \A j \in Jobs : j \in SafeJobs' =>
          \/ mailed'[j] > 0 \/ failed'[j] > 0
          \/ InHand(j)'
          \/ \E p \in Priorities : \E m \in Messages(p)' : m.job = j
  BY DEF SafeJobs, TriedJobs, QueuedJobs
<1> QED
  BY <1>1, <1>2 DEF ImmediateIsKept

(* A step of a consumer loses no e-mail.                                   *)
LEMMA KeptHandle ==
    ASSUME KeptInvariant, NEW c \in Consumers, Handle(c)
    PROVE  HandTried' /\ ImmediateIsKept'
<1> USE DEF KeptInvariant
<1>1. c[2] \in Queues /\ c[2] \in Priorities /\ Priorities \subseteq Queues
  BY DEF Consumers, Queues
<1>2. ASSUME Deliver(c) PROVE HandTried' /\ ImmediateIsKept'
  <2> DEFINE m == Head(queue[c[2]])
  <2>1. \A r \in Queues : Range(queue[r]) \subseteq
             Range(queue'[r]) \cup (IF r = c[2] THEN {m} ELSE {})
    BY <1>1, <1>2, MovedMessage DEF Deliver
  <2>2. hand' = [hand EXCEPT ![c] = [at |-> "send", msg |-> m]] /\ hand \in [Consumers -> Held \cup {Free}]
    BY <1>2 DEF Deliver, TypeOK
  <2>3. hand'[c] # Free /\ hand'[c].msg = m /\ hand'[c].at = "send"
    BY <2>2 DEF Free
  <2>4. \A d \in Consumers : hand[d] # Free => d # c /\ hand'[d] = hand[d]
    BY <1>2, <2>2 DEF Deliver
  <2>5. queued' = queued /\ mailed' = mailed /\ failed' = failed
    BY <1>2 DEF Deliver
  <2>6. HandTried'
    BY <2>2, <2>3, <2>5 DEF HandTried, TriedJobs
  <2>7. \A d \in Consumers : hand[d] # Free => hand[d].msg.job \in SafeJobs'
    BY <2>4, OfJobs, SafeNow
  <2>8. \A p \in Priorities : \A n \in Messages(p) : n.job \in SafeJobs'
    BY <1>1, <2>1, <2>3, OfJobs, SafeNow DEF Messages
  <2>9. TriedJobs \subseteq SafeJobs'
    BY <2>5, SafeNow DEF TriedJobs
  <2> QED
    BY <2>5, <2>6, <2>7, <2>8, <2>9, SafeAfter
<1>3. ASSUME NEW accepted \in BOOLEAN, NEW success \in BOOLEAN, SendEmail(c, accepted, success)
      PROVE  HandTried' /\ ImmediateIsKept'
  <2> DEFINE i == hand[c].msg.job
  <2>1. hand[c] \in Held /\ hand \in [Consumers -> Held \cup {Free}] /\ i \in Jobs
    BY <1>3, HeldMessage, FreeIsNoStep DEF SendEmail, Message, TypeOK
  <2>2. mailed \in [Jobs -> Nat] /\ failed \in [Jobs -> Nat]
    BY DEF TypeOK
  <2>4. i \in TriedJobs' /\ TriedJobs \subseteq TriedJobs'
    <3>1. success => mailed' = [mailed EXCEPT ![i] = @ + 1]
      BY <1>3 DEF SendEmail
    <3>2. ~success => failed' = [failed EXCEPT ![i] = @ + 1]
      BY <1>3 DEF SendEmail
    <3>3. mailed' = mailed \/ mailed' = [mailed EXCEPT ![i] = @ + 1]
      BY <1>3 DEF SendEmail
    <3>4. failed' = failed \/ failed' = [failed EXCEPT ![i] = @ + 1]
      BY <1>3 DEF SendEmail
    <3>5. \A j \in Jobs : mailed'[j] \in Nat /\ mailed'[j] >= mailed[j]
      BY <2>1, <2>2, <3>3
    <3>6. \A j \in Jobs : failed'[j] \in Nat /\ failed'[j] >= failed[j]
      BY <2>1, <2>2, <3>4
    <3>7. mailed'[i] > 0 \/ failed'[i] > 0
      BY <2>1, <2>2, <3>1, <3>2
    <3> QED
      BY <2>1, <2>2, <3>5, <3>6, <3>7 DEF TriedJobs
  <2>5. /\ \A d \in Consumers \ {c} : hand'[d] = hand[d]
        /\ hand'[c].msg.job = i
    BY <1>3, <2>1 DEF SendEmail, Held
  <2>6. \A d \in Consumers : hand[d] # Free => hand[d].msg.job \in Jobs
    BY HeldMessage DEF Message
  <2>7. HandTried'
    BY <2>4, <2>5, <2>6, FreeIsNoStep DEF HandTried
  <2>8. queued' = queued /\ queue' = queue
    BY <1>3 DEF SendEmail
  <2>9. hand'[c] # Free
    BY <1>3, <2>1 DEF SendEmail, Held, Free
  <2>10. \A d \in Consumers : hand[d] # Free => hand[d].msg.job \in SafeJobs'
    BY <2>5, <2>6, <2>9, SafeNow
  <2>11. \A p \in Priorities : \A n \in Messages(p) : n.job \in SafeJobs'
    BY <2>8, OfJobs, SafeNow DEF Messages
  <2> QED
    BY <2>4, <2>7, <2>8, <2>10, <2>11, SafeNow, SafeAfter
<1>4. ASSUME hand[c].at \in {"sent", "failed", "requeued"},
             hand' = [hand EXCEPT ![c] = Free] \/ hand' = [hand EXCEPT ![c].at = "requeued"],
             queued' = queued, mailed' = mailed, failed' = failed,
             \A p \in Priorities : Range(queue[p]) \subseteq Range(queue'[p])
      PROVE  HandTried' /\ ImmediateIsKept'
  <2>1. hand[c] \in Held /\ hand \in [Consumers -> Held \cup {Free}] /\ hand[c].msg.job \in Jobs
    BY <1>4, HeldMessage, FreeIsNoStep DEF Message, TypeOK
  <2>2. hand[c].msg.job \in TriedJobs /\ TriedJobs' = TriedJobs
    BY <1>4 DEF HandTried, TriedJobs
  <2>3. /\ \A d \in Consumers \ {c} : hand'[d] = hand[d]
        /\ hand'[c] = Free \/ hand'[c].msg = hand[c].msg
    BY <1>4, <2>1 DEF Held
  <2>4. HandTried'
    BY <2>2, <2>3, FreeIsNoStep DEF HandTried
  <2>5. \A d \in Consumers : hand[d] # Free => hand[d].msg.job \in SafeJobs'
    BY <2>1, <2>2, <2>3, OfJobs, SafeNow
  <2>6. \A p \in Priorities : \A n \in Messages(p) : n.job \in SafeJobs'
    BY <1>4, OfJobs, SafeNow DEF Messages
  <2> QED
    BY <1>4, <2>2, <2>4, <2>5, <2>6, SafeNow, SafeAfter
<1>5. ASSUME AckSent(c) PROVE HandTried' /\ ImmediateIsKept'
  BY <1>4, <1>5 DEF AckSent
<1>6. ASSUME AfterFailure(c) PROVE HandTried' /\ ImmediateIsKept'
  <2> DEFINE m == hand[c].msg
             again == [m EXCEPT !.key = "retry", !.attempts = @ + 1]
  <2>1. m \in Message
    BY <1>6, HeldMessage, FreeIsNoStep DEF AfterFailure
  <2>2. again.attempts < MaxAttempts => again \in Message
    <3>1. again.attempts = m.attempts + 1 /\ m.attempts \in Nat
      BY <2>1, NotificationsAssumption DEF Message
    <3>2. m.attempts + 1 < MaxAttempts => m.attempts + 1 \in 0 .. MaxAttempts - 1
      BY <3>1, NotificationsAssumption
    <3> QED
      BY <2>1, <3>1, <3>2 DEF Message, Queues
  <2>3. \/ again.attempts >= MaxAttempts /\ queue' = With(DeadLetterQueues(c[2], m.key), m)
        \/ ~(again.attempts >= MaxAttempts) /\ queue' = With({"retry"}, again)
    BY <1>6 DEF AfterFailure
  <2>4. again.attempts \in Nat
    BY <2>1, NotificationsAssumption DEF Message
  <2>5. \A p \in Queues : Range(queue[p]) \subseteq Range(queue'[p])
    <3>1. CASE again.attempts >= MaxAttempts
      BY <2>1, <2>3, <3>1, RoutesAreQueues, WithMessage
    <3>2. CASE ~(again.attempts >= MaxAttempts)
      <4>1. again \in Message /\ queue' = With({"retry"}, again)
        BY <2>2, <2>3, <2>4, <3>2, NotificationsAssumption
      <4> HIDE DEF again
      <4> QED
        BY <4>1, WithMessage DEF Queues
    <3> QED
      BY <3>1, <3>2
  <2>6. /\ hand[c].at = "failed"
        /\ hand' = [hand EXCEPT ![c] = Free] \/ hand' = [hand EXCEPT ![c].at = "requeued"]
        /\ queued' = queued /\ mailed' = mailed /\ failed' = failed
    BY <1>6 DEF AfterFailure
  <2> QED
    BY <1>1, <1>4, <2>5, <2>6
<1>7. ASSUME AckRequeued(c) PROVE HandTried' /\ ImmediateIsKept'
  BY <1>4, <1>7 DEF AckRequeued
<1> QED
  BY <1>2, <1>3, <1>5, <1>6, <1>7 DEF Handle

(* Jobs that come in, messages that expire and crashes lose no e-mail.     *)
LEMMA KeptOutside ==
    ASSUME KeptInvariant
    PROVE  /\ \A j \in Jobs : QueueScheduled(j) => HandTried' /\ ImmediateIsKept'
           /\ \A j \in Jobs, p \in Priorities :
                 QueueImmediate(j, p) => HandTried' /\ ImmediateIsKept'
           /\ \A q \in {"scheduled", "retry"} : Expire(q) => HandTried' /\ ImmediateIsKept'
           /\ \A w \in Workers : Crash(w) => HandTried' /\ ImmediateIsKept'
           /\ \A l \in logging : LogEmailSent(l) => HandTried' /\ ImmediateIsKept'
<1> USE DEF KeptInvariant
<1>1. Priorities \subseteq Queues
  BY DEF Queues
<1>2. ASSUME hand' = hand, mailed' = mailed, failed' = failed,
             \A p \in Priorities : Range(queue[p]) \subseteq Range(queue'[p]),
             \A j \in Jobs : queued'[j] = "immediate" => queued[j] = "immediate" \/ j \in SafeJobs'
      PROVE  HandTried' /\ ImmediateIsKept'
  <2>1. TriedJobs' = TriedJobs
    BY <1>2 DEF TriedJobs
  <2>2. HandTried'
    BY <1>2, <2>1 DEF HandTried
  <2>3. \A c \in Consumers : hand[c] # Free => hand[c].msg.job \in SafeJobs'
    BY <1>2, OfJobs, SafeNow
  <2>4. \A p \in Priorities : \A m \in Messages(p) : m.job \in SafeJobs'
    BY <1>2, OfJobs, SafeNow DEF Messages
  <2> QED
    BY <1>2, <2>1, <2>2, <2>3, <2>4, SafeNow, SafeAfter
<1>3. ASSUME NEW j \in Jobs, QueueScheduled(j) PROVE HandTried' /\ ImmediateIsKept'
  <2> DEFINE m == [job |-> j, key |-> "scheduled", attempts |-> 0]
  <2>1. m \in Message /\ {"scheduled"} \in SUBSET Queues
    BY NotificationsAssumption DEF Message, Queues
  <2>2. queue' = With({"scheduled"}, m)
    BY <1>3 DEF QueueScheduled
  <2> HIDE DEF m
  <2>3. \A p \in Priorities : Range(queue[p]) \subseteq Range(queue'[p])
    BY <1>1, <2>1, <2>2, WithMessage
  <2>4. \A i \in Jobs : queued'[i] = "immediate" => queued[i] = "immediate"
    BY <1>3 DEF QueueScheduled, TypeOK
  <2> QED
    BY <1>2, <1>3, <2>3, <2>4 DEF QueueScheduled
<1>4. ASSUME NEW j \in Jobs, NEW p \in Priorities, QueueImmediate(j, p)
      PROVE  HandTried' /\ ImmediateIsKept'
  <2> DEFINE m == [job |-> j, key |-> RoutingKey(p), attempts |-> 0]
  <2>1. m \in Message /\ m.job = j /\ Bound(m.key) = {p}
    BY NotificationsAssumption DEF Message, Queues, RoutingKey, Bound
  <2>2. queue' = With(Bound(m.key), m)
    BY <1>4 DEF QueueImmediate
  <2> HIDE DEF m
  <2>3. /\ \A r \in Priorities : Range(queue[r]) \subseteq Range(queue'[r])
        /\ m \in Range(queue'[p])
    BY <1>1, <2>1, <2>2, WithMessage
  <2>4. j \in SafeJobs'
    BY <2>1, <2>3, SafeNow
  <2>5. \A i \in Jobs : queued'[i] = "immediate" => queued[i] = "immediate" \/ i \in SafeJobs'
    BY <1>4, <2>4 DEF QueueImmediate, TypeOK
  <2> QED
    BY <1>2, <1>4, <2>3, <2>5 DEF QueueImmediate
<1>5. ASSUME NEW q \in {"scheduled", "retry"}, Expire(q) PROVE HandTried' /\ ImmediateIsKept'
  <2>1. q \in Queues /\ q \notin Priorities /\ queue[q] # <<>>
    BY <1>5 DEF Expire, Queues, Priorities
  <2>2. queue' = Moved(q, DeadLetterQueues(q, Head(queue[q]).key), Head(queue[q]))
    BY <1>5 DEF Expire
  <2>3. \A p \in Priorities : Range(queue[p]) \subseteq Range(queue'[p])
    BY <1>1, <2>1, <2>2, MovedMessage, RoutesAreQueues
  <2> QED
    BY <1>2, <1>5, <2>3 DEF Expire
<1>6. ASSUME NEW w \in Workers, Crash(w) PROVE HandTried' /\ ImmediateIsKept'
  <2>1. /\ hand' = [c \in Consumers |-> IF c[1] = w THEN Free ELSE hand[c]]
        /\ queued' = queued /\ mailed' = mailed /\ failed' = failed
        /\ \A p \in Priorities : queue'[p] = GivenBack(<<w, p>>) \o queue[p]
    BY <1>1, <1>6 DEF Crash
  <2>2. TriedJobs' = TriedJobs
    BY <2>1 DEF TriedJobs
  <2>3. HandTried'
    BY <2>1, <2>2, FreeIsNoStep DEF HandTried
  <2>4. \A p \in Priorities :
            /\ Range(queue[p]) \subseteq Range(queue'[p])
            /\ hand[<<w, p>>] # Free => hand[<<w, p>>].msg \in Range(queue'[p])
    BY <2>1, GivenBackMessages
  <2>5. ASSUME NEW c \in Consumers, hand[c] # Free PROVE hand[c].msg.job \in SafeJobs'
    <3>1. CASE c[1] = w
      <4>1. c = <<w, c[2]>> /\ c[2] \in Priorities
        BY <3>1 DEF Consumers
      <4>2. hand[c].msg \in Range(queue'[c[2]])
        BY <2>4, <2>5, <4>1
      <4> QED
        BY <2>5, <4>1, <4>2, OfJobs, SafeNow
    <3>2. CASE c[1] # w
      <4>1. hand'[c] = hand[c]
        BY <2>1, <3>2
      <4> QED
        BY <2>5, <4>1, OfJobs, SafeNow
    <3> QED
      BY <3>1, <3>2
  <2>6. \A p \in Priorities : \A m \in Messages(p) : m.job \in SafeJobs'
    BY <2>4, OfJobs, SafeNow DEF Messages
  <2> QED
    BY <2>1, <2>2, <2>3, <2>5, <2>6, SafeNow, SafeAfter
<1>7. ASSUME NEW l \in logging, LogEmailSent(l) PROVE HandTried' /\ ImmediateIsKept'
  BY <1>2, <1>7 DEF LogEmailSent
<1> QED
  BY <1>3, <1>4, <1>5, <1>6, <1>7

(* The invariant holds at the start and every step keeps it.               *)
LEMMA KeptInit == Init => KeptInvariant
<1> SUFFICES ASSUME Init PROVE KeptInvariant
  OBVIOUS
<1>1. HandTried
  BY FreeIsNoStep DEF Init, HandTried
<1>2. ImmediateIsKept
  BY DEF Init, ImmediateIsKept
<1> QED
  BY <1>1, <1>2, TypeInit DEF KeptInvariant

LEMMA KeptNext == KeptInvariant /\ [Next]_vars => KeptInvariant'
<1>1. ASSUME KeptInvariant, Next PROVE HandTried' /\ ImmediateIsKept'
  BY <1>1, KeptHandle, KeptOutside DEF Next
<1>2. ASSUME KeptInvariant, UNCHANGED vars PROVE HandTried' /\ ImmediateIsKept'
  BY <1>2 DEF KeptInvariant, HandTried, ImmediateIsKept, TriedJobs, InHand, Messages, vars
<1> QED
  BY <1>1, <1>2, TypeNext DEF KeptInvariant

(* An e-mail to be sent at once is not lost before it was tried, however   *)
(* many workers there are and however often they crash.                    *)
THEOREM KeptTheorem == Spec => []ImmediateIsKept
<1>1. KeptInvariant => ImmediateIsKept
  BY DEF KeptInvariant
<1> QED
  BY <1>1, KeptInit, KeptNext, PTL DEF Spec

-----------------------------------------------------------------------------
(* The log says no more than what happened. *)

(* A message counts no more attempts than there were failures.             *)
Honest(m, fails) == m.attempts <= fails[m.job]

(* Nor does a hand: after a failure there is one more than its message     *)
(* says, and what it takes for sent was accepted.                          *)
HandHonest(h, fails, mails) ==
    h # Free =>
        /\ Honest(h.msg, fails)
        /\ h.at \in {"failed", "requeued"} => h.msg.attempts + 1 <= fails[h.msg.job]
        /\ h.at = "sent" => mails[h.msg.job] > 0

EntryHonest(status, attempts, j, fails, mails) ==
    /\ status = "sent" => mails[j] > 0
    /\ status \in {"retrying", "failed"} => attempts <= fails[j]

LogInvariant ==
    /\ \A q \in Queues : \A m \in Messages(q) : Honest(m, failed)
    /\ \A c \in Consumers : HandHonest(hand[c], failed, mailed)
    /\ \A l \in logging : EntryHonest(l.status, l.attempts, l.job, failed, mailed)
    /\ \A j \in Jobs : EntryHonest(emailLog[j].status, emailLog[j].attempts, j, failed, mailed)

(* What happened has happened.                                             *)
Happened ==
    \A j \in Jobs : failed'[j] >= failed[j] /\ mailed'[j] >= mailed[j]

(* What queues hold after they were given a message.                       *)
LEMMA WithNoMore ==
    ASSUME TypeOK, NEW Q \in SUBSET Queues, NEW m \in Message
    PROVE  \A r \in Queues : Range(With(Q, m)[r]) \subseteq Range(queue[r]) \cup {m}
<1>1. \A r \in Queues : queue[r] \in Seq(Message)
  BY DEF TypeOK
<1>2. \A r \in Queues : Range(Append(queue[r], m)) = Range(queue[r]) \cup {m}
  BY <1>1, AppendedMessage
<1> QED
  BY <1>2 DEF With

(* And when one has lost its first message to others.                      *)
LEMMA MovedNoMore ==
    ASSUME TypeOK, NEW q \in Queues, queue[q] # <<>>, NEW Q \in SUBSET Queues
    PROVE  /\ Head(queue[q]) \in Range(queue[q])
           /\ \A r \in Queues : Range(Moved(q, Q, Head(queue[q]))[r]) \subseteq
                                   Range(queue[r]) \cup {Head(queue[q])}
<1> DEFINE m == Head(queue[q])
           Rest(r) == IF r = q THEN Tail(queue[r]) ELSE queue[r]
<1>1. \A r \in Queues : queue[r] \in Seq(Message)
  BY DEF TypeOK
<1>2. m \in Message /\ m \in Range(queue[q])
  BY <1>1, HeadAndTail
<1>3. ASSUME NEW r \in Queues
      PROVE  /\ Range(Rest(r)) \subseteq Range(queue[r])
             /\ Range(Append(Rest(r), m)) = Range(Rest(r)) \cup {m}
  <2>1. Rest(r) \in Seq(Message) /\ Range(Rest(r)) \subseteq Range(queue[r])
    BY <1>1, HeadAndTail
  <2> HIDE DEF m, Rest
  <2> QED
    BY <1>2, <2>1, AppendedMessage
<1>4. Moved(q, Q, m) = [r \in Queues |-> IF r \in Q THEN Append(Rest(r), m) ELSE Rest(r)]
  BY DEF Moved
<1> HIDE DEF m, Rest
<1>5. \A r \in Queues : Range(Moved(q, Q, m)[r]) \subseteq Range(queue[r]) \cup {m}
  BY <1>3, <1>4
<1> QED
  BY <1>2, <1>5 DEF m

(* A worker gives back what it had.                                        *)
LEMMA GivenBackNoMore ==
    ASSUME TypeOK, NEW w \in Workers, NEW p \in Priorities
    PROVE  \A m \in Range(GivenBack(<<w, p>>) \o queue[p]) :
               m \in Range(queue[p]) \/ (hand[<<w, p>>] # Free /\ m = hand[<<w, p>>].msg)
<1> DEFINE h == hand[<<w, p>>]
<1>1. queue[p] \in Seq(Message) /\ h \in Held \cup {Free}
  BY DEF TypeOK, Queues, Consumers
<1>2. CASE h = Free
  BY <1>1, <1>2, ConcatEmptySeq DEF GivenBack
<1>3. CASE h # Free
  <2> DEFINE t == <<h.msg>>
             rest == queue[p]
  <2>1. h.msg \in Message
    BY <1>1, <1>3 DEF Held
  <2>2. t \in Seq(Message) /\ Range(t) = {h.msg} /\ rest \in Seq(Message)
    BY <1>1, <2>1, OneMessage
  <2>3. GivenBack(<<w, p>>) = t
    BY <1>3 DEF GivenBack
  <2> HIDE DEF t, rest
  <2>4. Range(t \o rest) = Range(t) \cup Range(rest)
    BY <2>2, RangeConcatenation
  <2> QED
    BY <1>3, <2>2, <2>3, <2>4 DEF rest
<1> QED
  BY <1>2, <1>3

(* What is honest stays so.                                                *)
LEMMA HonestyStays ==
    ASSUME TypeOK, TypeOK', Happened
    PROVE  /\ \A m \in Message : Honest(m, failed) => Honest(m, failed')
           /\ \A h \in Held \cup {Free} :
                 HandHonest(h, failed, mailed) => HandHonest(h, failed', mailed')
           /\ \A status, attempts : \A j \in Jobs :
                 attempts \in Nat /\ EntryHonest(status, attempts, j, failed, mailed)
                 => EntryHonest(status, attempts, j, failed', mailed')
<1>1. \A j \in Jobs : /\ failed[j] \in Nat /\ failed'[j] \in Nat /\ failed'[j] >= failed[j]
                       /\ mailed[j] \in Nat /\ mailed'[j] \in Nat /\ mailed'[j] >= mailed[j]
  BY DEF TypeOK, Happened
<1>2. ASSUME NEW m \in Message
      PROVE  /\ m.job \in Jobs /\ m.attempts \in Nat
             /\ Honest(m, failed) => Honest(m, failed')
  <2>1. m.job \in Jobs /\ m.attempts \in Nat
    BY NotificationsAssumption DEF Message
  <2> QED
    BY <1>1, <2>1 DEF Honest
<1>3. ASSUME NEW h \in Held \cup {Free}, HandHonest(h, failed, mailed)
      PROVE  HandHonest(h, failed', mailed')
  <2> SUFFICES ASSUME h # Free PROVE HandHonest(h, failed', mailed')
    BY DEF HandHonest
  <2>1. h.msg \in Message
    BY DEF Held
  <2> QED
    BY <1>1, <1>2, <1>3, <2>1 DEF HandHonest
<1>4. ASSUME NEW status, NEW attempts \in Nat, NEW j \in Jobs,
             EntryHonest(status, attempts, j, failed, mailed)
      PROVE  EntryHonest(status, attempts, j, failed', mailed')
  BY <1>1, <1>4 DEF EntryHonest
<1> QED
  BY <1>2, <1>3, <1>4

(* A step is honest if the messages, the hands and the entries it makes    *)
(* are.                                                                    *)
LEMMA StepHonest ==
    ASSUME TypeOK, TypeOK', LogInvariant, Happened,
           \A q \in Queues : \A m \in Range(queue'[q]) :
               m \in Range(queue[q]) \/ Honest(m, failed'),
           \A c \in Consumers : hand'[c] = hand[c] \/ HandHonest(hand'[c], failed', mailed'),
           \A l \in logging' :
               l \in logging \/ EntryHonest(l.status, l.attempts, l.job, failed', mailed'),
           \A j \in Jobs :
               \/ emailLog'[j] = emailLog[j]
               \/ EntryHonest(emailLog'[j].status, emailLog'[j].attempts, j, failed', mailed')
    PROVE  LogInvariant'
<1>1. ASSUME NEW q \in Queues, NEW m \in Range(queue'[q]) PROVE Honest(m, failed')
  <2>1. queue[q] \in Seq(Message)
    BY DEF TypeOK
  <2>2. Range(queue[q]) \subseteq Message
    BY <2>1, RangeOfSeq
  <2> QED
    BY <1>1, <2>2, HonestyStays DEF LogInvariant, Messages
<1>2. ASSUME NEW c \in Consumers PROVE HandHonest(hand'[c], failed', mailed')
  BY HonestyStays DEF LogInvariant, TypeOK
<1>3. ASSUME NEW l \in logging' PROVE EntryHonest(l.status, l.attempts, l.job, failed', mailed')
  <2>1. l.job \in Jobs /\ l.attempts \in Nat
    BY NotificationsAssumption DEF TypeOK
  <2> QED
    BY <2>1, HonestyStays DEF LogInvariant
<1>4. ASSUME NEW j \in Jobs
      PROVE  EntryHonest(emailLog'[j].status, emailLog'[j].attempts, j, failed', mailed')
  <2>1. emailLog[j].attempts \in Nat
    BY NotificationsAssumption DEF TypeOK
  <2> QED
    BY <2>1, HonestyStays DEF LogInvariant
<1>5. \A q \in Queues : \A m \in Messages(q)' : Honest(m, failed')
  BY <1>1 DEF Messages
<1>6. (\A c \in Consumers : HandHonest(hand[c], failed, mailed))'
  BY <1>2 DEF HandHonest, Honest
<1>7. (\A l \in logging : EntryHonest(l.status, l.attempts, l.job, failed, mailed))'
  BY <1>3 DEF EntryHonest
<1>8. (\A j \in Jobs : EntryHonest(emailLog[j].status, emailLog[j].attempts, j, failed, mailed))'
  BY <1>4 DEF EntryHonest
<1>9. (\A q \in Queues : \A m \in Messages(q) : Honest(m, failed))'
  BY <1>5 DEF Honest
<1> QED
  BY <1>6, <1>7, <1>8, <1>9 DEF LogInvariant

(* A step of a consumer leaves the log honest.                             *)
LEMMA LogHandle ==
    ASSUME TypeOK, TypeOK', LogInvariant, NEW c \in Consumers, Handle(c)
    PROVE  LogInvariant'
<1>1. c[1] \in Workers /\ c[2] \in Queues
  BY DEF Consumers, Queues
<1>2. ASSUME hand[c] # Free
      PROVE  /\ hand[c].msg \in Message /\ hand[c].msg.job \in Jobs
             /\ hand[c].msg.attempts \in Nat
             /\ Honest(hand[c].msg, failed)
             /\ hand[c].at \in {"failed", "requeued"} =>
                   hand[c].msg.attempts + 1 <= failed[hand[c].msg.job]
             /\ hand[c].at = "sent" => mailed[hand[c].msg.job] > 0
  <2>1. hand[c].msg \in Message
    BY <1>2, HeldMessage
  <2>2. hand[c].msg.job \in Jobs /\ hand[c].msg.attempts \in Nat
    BY <2>1, NotificationsAssumption DEF Message
  <2>3. HandHonest(hand[c], failed, mailed)
    BY DEF LogInvariant
  <2> QED
    BY <1>2, <2>1, <2>2, <2>3 DEF HandHonest
<1>3. failed' = failed /\ mailed' = mailed => Happened
  BY DEF Happened, TypeOK
<1>4. ASSUME Deliver(c) PROVE LogInvariant'
  <2> DEFINE m == Head(queue[c[2]])
  <2>1. /\ queue[c[2]] # <<>> /\ queue' = Moved(c[2], {}, m)
        /\ hand' = [hand EXCEPT ![c] = [at |-> "send", msg |-> m]]
        /\ failed' = failed /\ mailed' = mailed /\ logging' = logging /\ emailLog' = emailLog
    BY <1>4 DEF Deliver
  <2>2. /\ m \in Range(queue[c[2]])
        /\ \A q \in Queues : Range(queue'[q]) \subseteq Range(queue[q]) \cup {m}
    BY <1>1, <2>1, MovedNoMore
  <2>3. Honest(m, failed')
    BY <1>1, <2>1, <2>2 DEF LogInvariant, Messages
  <2> HIDE DEF m
  <2>4. HandHonest([at |-> "send", msg |-> m], failed', mailed')
    BY <2>3 DEF HandHonest
  <2>5. \A d \in Consumers : hand'[d] = hand[d] \/ HandHonest(hand'[d], failed', mailed')
    BY <2>1, <2>4 DEF TypeOK
  <2>6. \A q \in Queues : \A n \in Range(queue'[q]) : n \in Range(queue[q]) \/ Honest(n, failed')
    BY <2>2, <2>3
  <2> QED
    BY <1>3, <2>1, <2>5, <2>6, StepHonest
<1>5. ASSUME NEW accepted \in BOOLEAN, NEW success \in BOOLEAN, SendEmail(c, accepted, success)
      PROVE  LogInvariant'
  <2> DEFINE j == hand[c].msg.job
             after == [hand[c] EXCEPT !.at = IF success THEN "sent" ELSE "failed"]
  <2>1. /\ hand[c] # Free /\ hand[c].at = "send" /\ (success => accepted)
        /\ mailed' = IF accepted THEN [mailed EXCEPT ![j] = @ + 1] ELSE mailed
        /\ failed' = IF success THEN failed ELSE [failed EXCEPT ![j] = @ + 1]
        /\ queue' = queue /\ logging' = logging /\ emailLog' = emailLog
    BY <1>5, FreeIsNoStep DEF SendEmail
  <2>2. hand' = [hand EXCEPT ![c] = after]
    BY <1>5 DEF SendEmail
  <2>3. j \in Jobs
    BY <1>2, <2>1
  <2>4. mailed \in [Jobs -> Nat] /\ failed \in [Jobs -> Nat]
    BY DEF TypeOK
  <2>5. /\ after.msg = hand[c].msg /\ after.at = IF success THEN "sent" ELSE "failed"
    BY <2>1, HeldMessage DEF Held
  <2> HIDE DEF after
  <2>6. Happened
    BY <2>1, <2>3, <2>4 DEF Happened
  <2>7. /\ success => mailed'[j] > 0
        /\ ~success => hand[c].msg.attempts + 1 <= failed'[j]
        /\ Honest(hand[c].msg, failed')
    BY <1>2, <2>1, <2>3, <2>4 DEF Honest
  <2>8. HandHonest(after, failed', mailed')
    BY <2>5, <2>7 DEF HandHonest
  <2>9. \A d \in Consumers : hand'[d] = hand[d] \/ HandHonest(hand'[d], failed', mailed')
    BY <2>2, <2>8 DEF TypeOK
  <2> QED
    BY <2>1, <2>6, <2>9, StepHonest
<1>6. ASSUME hand' = [hand EXCEPT ![c] = Free]
      PROVE  \A d \in Consumers : hand'[d] = hand[d] \/ HandHonest(hand'[d], failed', mailed')
  BY <1>6 DEF TypeOK, HandHonest
<1>7. ASSUME AckSent(c) PROVE LogInvariant'
  <2> DEFINE e == Entry(c[1], hand[c].msg, "sent")
  <2>1. /\ hand[c] # Free /\ hand[c].at = "sent"
        /\ hand' = [hand EXCEPT ![c] = Free] /\ logging' = logging \cup {e}
        /\ queue' = queue /\ failed' = failed /\ mailed' = mailed /\ emailLog' = emailLog
    BY <1>7, FreeIsNoStep DEF AckSent
  <2>2. EntryHonest(e.status, e.attempts, e.job, failed', mailed')
    BY <1>2, <2>1 DEF Entry, EntryHonest
  <2> HIDE DEF e
  <2> QED
    BY <1>3, <1>6, <2>1, <2>2, StepHonest
<1>8. ASSUME AfterFailure(c) PROVE LogInvariant'
  <2> DEFINE m == hand[c].msg
             again == [m EXCEPT !.key = "retry", !.attempts = @ + 1]
             e == Entry(c[1], again, "failed")
             after == [hand[c] EXCEPT !.at = "requeued"]
  <2>1. /\ hand[c] # Free /\ hand[c].at = "failed"
        /\ failed' = failed /\ mailed' = mailed /\ emailLog' = emailLog
    BY <1>8, FreeIsNoStep DEF AfterFailure
  <2>2. m \in Message /\ Honest(m, failed) /\ m.attempts + 1 <= failed[m.job]
    BY <1>2, <2>1
  <2>3. again.attempts = m.attempts + 1 /\ again.job = m.job
    BY <2>2 DEF Message
  <2>4. CASE again.attempts >= MaxAttempts
    <3>1. /\ queue' = With(DeadLetterQueues(c[2], m.key), m)
          /\ hand' = [hand EXCEPT ![c] = Free] /\ logging' = logging \cup {e}
      BY <1>8, <2>4 DEF AfterFailure
    <3>2. EntryHonest(e.status, e.attempts, e.job, failed', mailed')
      BY <2>1, <2>2, <2>3 DEF Entry, EntryHonest
    <3> HIDE DEF e, again, m
    <3>3. \A q \in Queues : Range(queue'[q]) \subseteq Range(queue[q]) \cup {m}
      <4> DEFINE Q == DeadLetterQueues(c[2], m.key)
      <4>1. Q \in SUBSET Queues /\ queue' = With(Q, m)
        BY <3>1, RoutesAreQueues
      <4> HIDE DEF Q
      <4> QED
        BY <2>2, <4>1, WithNoMore
    <3>4. \A q \in Queues : \A n \in Range(queue'[q]) : n \in Range(queue[q]) \/ Honest(n, failed')
      BY <2>1, <2>2, <3>3
    <3> QED
      BY <1>3, <1>6, <2>1, <3>1, <3>2, <3>4, StepHonest
  <2>5. CASE ~(again.attempts >= MaxAttempts)
    <3>1. /\ queue' = With({"retry"}, again) /\ logging' = logging
          /\ hand' = [hand EXCEPT ![c] = after]
      BY <1>8, <2>5 DEF AfterFailure
    <3>2. again \in Message
      <4>1. m.job \in Jobs /\ m.attempts \in 0 .. MaxAttempts - 1 /\ "retry" \in Queues
        BY <2>2 DEF Message, Queues
      <4>2. m.attempts + 1 \in 0 .. MaxAttempts - 1
        BY <2>3, <2>5, <4>1, NotificationsAssumption
      <4> QED
        BY <2>2, <4>1, <4>2 DEF Message
    <3>3. Honest(again, failed')
      BY <2>1, <2>2, <2>3 DEF Honest
    <3>4. after.msg = m /\ after.at = "requeued"
      BY <2>1, HeldMessage DEF Held
    <3> HIDE DEF again, after
    <3>5. HandHonest(after, failed', mailed')
      BY <2>1, <2>2, <3>4 DEF HandHonest
    <3>6. \A d \in Consumers : hand'[d] = hand[d] \/ HandHonest(hand'[d], failed', mailed')
      BY <3>1, <3>5 DEF TypeOK
    <3>7. \A q \in Queues : Range(queue'[q]) \subseteq Range(queue[q]) \cup {again}
      BY <3>1, <3>2, WithNoMore DEF Queues
    <3>8. \A q \in Queues : \A n \in Range(queue'[q]) : n \in Range(queue[q]) \/ Honest(n, failed')
      BY <3>3, <3>7
    <3> QED
      BY <1>3, <2>1, <3>1, <3>6, <3>8, StepHonest
  <2> QED
    BY <2>4, <2>5
<1>9. ASSUME AckRequeued(c) PROVE LogInvariant'
  <2> DEFINE m == hand[c].msg
             again == [m EXCEPT !.attempts = @ + 1]
             e == Entry(c[1], again, "retrying")
  <2>1. /\ hand[c] # Free /\ hand[c].at = "requeued"
        /\ hand' = [hand EXCEPT ![c] = Free] /\ logging' = logging \cup {e}
        /\ queue' = queue /\ failed' = failed /\ mailed' = mailed /\ emailLog' = emailLog
    BY <1>9, FreeIsNoStep DEF AckRequeued
  <2>2. m \in Message /\ m.attempts + 1 <= failed[m.job]
    BY <1>2, <2>1
  <2>3. again.attempts = m.attempts + 1 /\ again.job = m.job
    BY <2>2 DEF Message
  <2>4. EntryHonest(e.status, e.attempts, e.job, failed', mailed')
    BY <2>1, <2>2, <2>3 DEF Entry, EntryHonest
  <2> HIDE DEF e
  <2> QED
    BY <1>3, <1>6, <2>1, <2>4, StepHonest
<1> QED
  BY <1>4, <1>5, <1>7, <1>8, <1>9 DEF Handle

(* So do jobs that come in, messages that expire, crashes and what reaches *)
(* email_logs.                                                             *)
LEMMA LogOutside ==
    ASSUME TypeOK, TypeOK', LogInvariant
    PROVE  /\ \A j \in Jobs : QueueScheduled(j) => LogInvariant'
           /\ \A j \in Jobs, p \in Priorities : QueueImmediate(j, p) => LogInvariant'
           /\ \A q \in {"scheduled", "retry"} : Expire(q) => LogInvariant'
           /\ \A w \in Workers : Crash(w) => LogInvariant'
           /\ \A l \in logging : LogEmailSent(l) => LogInvariant'
<1>1. failed' = failed /\ mailed' = mailed => Happened
  BY DEF Happened, TypeOK
<1>2. ASSUME hand' = hand, failed' = failed, mailed' = mailed, logging' = logging,
             emailLog' = emailLog, NEW m, Honest(m, failed),
             \A q \in Queues : Range(queue'[q]) \subseteq Range(queue[q]) \cup {m}
      PROVE  LogInvariant'
  <2>1. \A q \in Queues : \A n \in Range(queue'[q]) : n \in Range(queue[q]) \/ Honest(n, failed')
    BY <1>2
  <2> QED
    BY <1>1, <1>2, <2>1, StepHonest
<1>3. ASSUME NEW m \in Message, m.attempts = 0 PROVE Honest(m, failed)
  BY <1>3 DEF Honest, Message, TypeOK
<1>4. ASSUME NEW j \in Jobs, QueueScheduled(j) PROVE LogInvariant'
  <2> DEFINE m == [job |-> j, key |-> "scheduled", attempts |-> 0]
  <2>1. m \in Message /\ m.attempts = 0 /\ {"scheduled"} \in SUBSET Queues
    BY NotificationsAssumption DEF Message, Queues
  <2>2. queue' = With({"scheduled"}, m)
    BY <1>4 DEF QueueScheduled
  <2> HIDE DEF m
  <2>3. \A q \in Queues : Range(queue'[q]) \subseteq Range(queue[q]) \cup {m}
    BY <2>1, <2>2, WithNoMore
  <2> QED
    BY <1>2, <1>3, <1>4, <2>1, <2>3 DEF QueueScheduled
<1>5. ASSUME NEW j \in Jobs, NEW p \in Priorities, QueueImmediate(j, p) PROVE LogInvariant'
  <2> DEFINE m == [job |-> j, key |-> RoutingKey(p), attempts |-> 0]
  <2>1. m \in Message /\ m.attempts = 0
    BY NotificationsAssumption DEF Message, Queues, RoutingKey
  <2>2. queue' = With(Bound(m.key), m)
    BY <1>5 DEF QueueImmediate
  <2> HIDE DEF m
  <2>3. \A q \in Queues : Range(queue'[q]) \subseteq Range(queue[q]) \cup {m}
    BY <2>1, <2>2, RoutesAreQueues, WithNoMore
  <2> QED
    BY <1>2, <1>3, <1>5, <2>1, <2>3 DEF QueueImmediate
<1>6. ASSUME NEW q \in {"scheduled", "retry"}, Expire(q) PROVE LogInvariant'
  <2> DEFINE m == Head(queue[q])
  <2>1. q \in Queues /\ queue[q] # <<>> /\ queue' = Moved(q, DeadLetterQueues(q, m.key), m)
    BY <1>6 DEF Expire, Queues
  <2>2. /\ m \in Range(queue[q])
        /\ \A r \in Queues : Range(queue'[r]) \subseteq Range(queue[r]) \cup {m}
    BY <2>1, MovedNoMore, RoutesAreQueues
  <2>3. Honest(m, failed)
    BY <2>1, <2>2 DEF LogInvariant, Messages
  <2> HIDE DEF m
  <2> QED
    BY <1>2, <1>6, <2>2, <2>3 DEF Expire
<1>7. ASSUME NEW w \in Workers, Crash(w) PROVE LogInvariant'
  <2>1. /\ queue' = [q \in Queues |-> IF q \in Priorities
                                      THEN GivenBack(<<w, q>>) \o queue[q] ELSE queue[q]]
        /\ hand' = [c \in Consumers |-> IF c[1] = w THEN Free ELSE hand[c]]
        /\ logging' \subseteq logging
        /\ failed' = failed /\ mailed' = mailed /\ emailLog' = emailLog
    BY <1>7 DEF Crash
  <2>2. \A c \in Consumers : hand[c] # Free => Honest(hand[c].msg, failed)
    BY DEF LogInvariant, HandHonest
  <2>3. \A q \in Queues : \A m \in Range(queue'[q]) : m \in Range(queue[q]) \/ Honest(m, failed')
    <3> SUFFICES ASSUME NEW q \in Queues, NEW m \in Range(queue'[q])
                 PROVE  m \in Range(queue[q]) \/ Honest(m, failed)
      BY <2>1
    <3>1. CASE q \in Priorities
      <4>1. queue'[q] = GivenBack(<<w, q>>) \o queue[q] /\ <<w, q>> \in Consumers
        BY <2>1, <3>1 DEF Consumers
      <4> QED
        BY <2>2, <3>1, <4>1, GivenBackNoMore
    <3>2. CASE q \notin Priorities
      BY <2>1, <3>2
    <3> QED
      BY <3>1, <3>2
  <2>4. \A c \in Consumers : hand'[c] = hand[c] \/ HandHonest(hand'[c], failed', mailed')
    BY <2>1 DEF HandHonest
  <2> QED
    BY <1>1, <2>1, <2>3, <2>4, StepHonest
<1>8. ASSUME NEW l \in logging, LogEmailSent(l) PROVE LogInvariant'
  <2> DEFINE e == [status |-> l.status, attempts |-> l.attempts]
  <2>1. /\ emailLog' = [emailLog EXCEPT ![l.job] = e] \/ emailLog' = emailLog
        /\ logging' \subseteq logging /\ queue' = queue /\ hand' = hand
        /\ failed' = failed /\ mailed' = mailed
    BY <1>8 DEF LogEmailSent
  <2>2. EntryHonest(e.status, e.attempts, l.job, failed', mailed')
    BY <2>1 DEF LogInvariant
  <2> HIDE DEF e
  <2>3. \A j \in Jobs : \/ emailLog'[j] = emailLog[j]
                        \/ EntryHonest(emailLog'[j].status, emailLog'[j].attempts, j, failed', mailed')
    BY <2>1, <2>2 DEF TypeOK
  <2> QED
    BY <1>1, <2>1, <2>3, StepHonest
<1> QED
  BY <1>4, <1>5, <1>6, <1>7, <1>8

(* The invariant holds at the start and every step keeps it.               *)
LEMMA LogInit == Init => LogInvariant
<1> SUFFICES ASSUME Init PROVE LogInvariant
  OBVIOUS
<1>1. \A q \in Queues : Messages(q) = {}
  <2> SUFFICES ASSUME NEW q \in Queues PROVE Range(queue[q]) = {}
    BY DEF Messages
  <2>1. queue[q] = <<>> /\ DOMAIN queue[q] = {}
    BY DEF Init
  <2> QED
    BY <2>1 DEF Range
<1>2. \A c \in Consumers : HandHonest(hand[c], failed, mailed)
  BY DEF Init, HandHonest
<1>3. \A j \in Jobs : EntryHonest(emailLog[j].status, emailLog[j].attempts, j, failed, mailed)
  BY DEF Init, NotLogged, EntryHonest
<1>4. logging = {}
  BY DEF Init
<1> QED
  BY <1>1, <1>2, <1>3, <1>4 DEF LogInvariant

LEMMA LogNext == TypeOK /\ TypeOK' /\ LogInvariant /\ [Next]_vars => LogInvariant'
<1>1. ASSUME TypeOK, TypeOK', LogInvariant, Next PROVE LogInvariant'
  BY <1>1, LogHandle, LogOutside DEF Next
<1>2. ASSUME TypeOK, TypeOK', LogInvariant, UNCHANGED vars PROVE LogInvariant'
  <2>1. /\ queue' = queue /\ hand' = hand /\ logging' = logging /\ emailLog' = emailLog
        /\ failed' = failed /\ mailed' = mailed
    BY <1>2 DEF vars
  <2>2. Happened
    BY <1>2, <2>1 DEF Happened, TypeOK
  <2> QED
    BY <1>2, <2>1, <2>2, StepHonest
<1> QED
  BY <1>1, <1>2

(* email_logs says no more than what happened, whatever crashes or is      *)
(* written late: an entry is right when it is made, and what it is about   *)
(* only grows.                                                             *)
THEOREM LogTheorem == Spec => []LogIsBacked
<1>1. TypeOK /\ LogInvariant => LogIsBacked
  <2> SUFFICES ASSUME TypeOK, LogInvariant, NEW j \in Jobs
               PROVE  /\ emailLog[j].status = "sent" => mailed[j] > 0
                      /\ emailLog[j].status \in {"retrying", "failed"} =>
                             failed[j] >= emailLog[j].attempts
    BY DEF LogIsBacked
  <2>1. /\ EntryHonest(emailLog[j].status, emailLog[j].attempts, j, failed, mailed)
        /\ emailLog[j].attempts \in Nat /\ failed[j] \in Nat
    BY NotificationsAssumption DEF LogInvariant, TypeOK
  <2> QED
    BY <2>1 DEF EntryHonest
<1> QED
  BY <1>1, LogInit, LogNext, TypeCorrect, PTL DEF Spec
-----------------------------------------------------------------------------
(* No e-mail is mailed twice without a reason: there is never more than    *)
(* one message of it that can still reach a worker. *)

(* Other messages end where they are: nothing is bound to their keys.      *)
Live(m) == m.key \in Priorities

LiveIn(b, j) == \E q \in Queues : \E i \in 1 .. Len(b[q]) : Live(b[q][i]) /\ b[q][i].job = j

Seen(b, j) == \E q \in Queues : \E i \in 1 .. Len(b[q]) : b[q][i].job = j

Unique(b) ==
    \A q, r \in Queues : \A i \in 1 .. Len(b[q]), k \in 1 .. Len(b[r]) :
       Live(b[q][i]) /\ Live(b[r][k]) /\ b[q][i].job = b[r][k].job => q = r /\ i = k

\* The messages of a consumer's queue have its key.
Keyed(b) == \A p \in Priorities : \A i \in 1 .. Len(b[p]) : b[p][i].key = p

(* A queue gets a message at its end, loses its first, or gets one back    *)
(* before its first.                                                       *)
LEMMA AppendedPlaces ==
    ASSUME NEW s \in Seq(Message), NEW m \in Message
    PROVE  /\ Append(s, m) \in Seq(Message) /\ Len(Append(s, m)) = Len(s) + 1
           /\ \A i \in 1 .. Len(s) + 1 : Append(s, m)[i] = IF i = Len(s) + 1 THEN m ELSE s[i]
  OBVIOUS

LEMMA TailPlaces ==
    ASSUME NEW s \in Seq(Message), s # <<>>
    PROVE  /\ Tail(s) \in Seq(Message) /\ Len(Tail(s)) = Len(s) - 1 /\ Len(s) \in Nat \ {0}
           /\ Head(s) = s[1]
           /\ \A i \in 1 .. Len(s) - 1 : Tail(s)[i] = s[i + 1]
  OBVIOUS

LEMMA GivenBackPlaces ==
    ASSUME NEW s \in Seq(Message), NEW m \in Message
    PROVE  /\ <<m>> \o s \in Seq(Message) /\ Len(<<m>> \o s) = Len(s) + 1
           /\ \A i \in 1 .. Len(s) + 1 : (<<m>> \o s)[i] = IF i = 1 THEN m ELSE s[i - 1]
  OBVIOUS

Appended(b, x, m, d) == \A r \in Queues : d[r] = IF r = x THEN Append(b[r], m) ELSE b[r]
Taken(b, x, d) == \A r \in Queues : d[r] = IF r = x THEN Tail(b[r]) ELSE b[r]
Returned(b, x, m, d) == \A r \in Queues : d[r] = IF r = x THEN <<m>> \o b[r] ELSE b[r]

(* What that does to the copies of an e-mail.                              *)
LEMMA AppendedOnce ==
    ASSUME NEW b \in [Queues -> Seq(Message)], NEW m \in Message, NEW x \in Queues,
           NEW d \in [Queues -> Seq(Message)], Appended(b, x, m, d)
    PROVE  /\ Unique(b) /\ (Live(m) => ~LiveIn(b, m.job)) => Unique(d)
           /\ Keyed(b) /\ (x \in Priorities => m.key = x) => Keyed(d)
           /\ \A j \in Jobs : LiveIn(d, j) => LiveIn(b, j) \/ (Live(m) /\ j = m.job)
           /\ \A j \in Jobs : Seen(d, j) => Seen(b, j) \/ j = m.job
<1>1. \A r \in Queues : b[r] \in Seq(Message) /\ Len(b[r]) \in Nat
  OBVIOUS
<1>2. /\ Append(b[x], m) \in Seq(Message) /\ Len(Append(b[x], m)) = Len(b[x]) + 1
      /\ \A i \in 1 .. Len(b[x]) + 1 :
            Append(b[x], m)[i] = IF i = Len(b[x]) + 1 THEN m ELSE b[x][i]
  BY <1>1, AppendedPlaces
<1>3. /\ d[x] = Append(b[x], m) /\ \A r \in Queues : r # x => d[r] = b[r]
  BY <1>2 DEF Appended
<1>4. ASSUME NEW r \in Queues, NEW i \in 1 .. Len(d[r])
      PROVE  \/ i \in 1 .. Len(b[r]) /\ d[r][i] = b[r][i]
             \/ r = x /\ i = Len(b[x]) + 1 /\ d[r][i] = m
  <2>1. CASE r = x
    BY <1>1, <1>2, <1>3, <1>4, <2>1
  <2>2. CASE r # x
    BY <1>3, <1>4, <2>2
  <2> QED
    BY <2>1, <2>2
<1>5. ASSUME Unique(b), Live(m) => ~LiveIn(b, m.job) PROVE Unique(d)
  <2>1. ASSUME NEW q \in Queues, NEW r \in Queues, NEW i \in 1 .. Len(d[q]),
               NEW k \in 1 .. Len(d[r]), Live(d[q][i]), Live(d[r][k]),
               d[q][i].job = d[r][k].job
        PROVE  q = r /\ i = k
    <3>1. CASE i \in 1 .. Len(b[q]) /\ d[q][i] = b[q][i] /\ k \in 1 .. Len(b[r]) /\ d[r][k] = b[r][k]
      <4>1. /\ i \in 1 .. Len(b[q]) /\ Live(b[q][i])
            /\ k \in 1 .. Len(b[r]) /\ Live(b[r][k])
            /\ b[q][i].job = b[r][k].job
        BY <2>1, <3>1
      <4> QED
        BY <1>5, <4>1 DEF Unique
    <3>2. CASE d[q][i] = m /\ k \in 1 .. Len(b[r]) /\ d[r][k] = b[r][k]
      BY <1>5, <2>1, <3>2 DEF LiveIn
    <3>3. CASE i \in 1 .. Len(b[q]) /\ d[q][i] = b[q][i] /\ d[r][k] = m
      BY <1>5, <2>1, <3>3 DEF LiveIn
    <3> QED
      BY <1>4, <3>1, <3>2, <3>3
  <2> QED
    BY <2>1 DEF Unique
<1>6. ASSUME Keyed(b), x \in Priorities => m.key = x PROVE Keyed(d)
  BY <1>4, <1>6 DEF Keyed, Queues
<1>7. \A j \in Jobs : LiveIn(d, j) => LiveIn(b, j) \/ (Live(m) /\ j = m.job)
  BY <1>4 DEF LiveIn
<1>8. \A j \in Jobs : Seen(d, j) => Seen(b, j) \/ j = m.job
  BY <1>4 DEF Seen
<1> QED
  BY <1>5, <1>6, <1>7, <1>8

LEMMA TakenOnce ==
    ASSUME NEW b \in [Queues -> Seq(Message)], NEW x \in Queues, b[x] # <<>>,
           NEW d \in [Queues -> Seq(Message)], Taken(b, x, d)
    PROVE  /\ Head(b[x]) \in Message
           /\ Unique(b) => Unique(d) /\ (Live(Head(b[x])) => ~LiveIn(d, Head(b[x]).job))
           /\ Keyed(b) => Keyed(d) /\ (x \in Priorities => Head(b[x]).key = x)
           /\ \A j \in Jobs : LiveIn(d, j) => LiveIn(b, j)
           /\ \A j \in Jobs : Seen(d, j) => Seen(b, j)
           /\ Live(Head(b[x])) => LiveIn(b, Head(b[x]).job)
           /\ Seen(b, Head(b[x]).job)
<1> DEFINE h == Head(b[x])
<1>1. /\ Tail(b[x]) \in Seq(Message) /\ Len(Tail(b[x])) = Len(b[x]) - 1
      /\ Len(b[x]) \in Nat \ {0} /\ h = b[x][1]
      /\ \A i \in 1 .. Len(b[x]) - 1 : Tail(b[x])[i] = b[x][i + 1]
  BY TailPlaces
<1>2. /\ d[x] = Tail(b[x]) /\ \A r \in Queues : r # x => d[r] = b[r]
  BY <1>1 DEF Taken
<1>3. 1 \in 1 .. Len(b[x]) /\ b[x] \in Seq(Message) /\ h \in Message
  BY <1>1
<1> DEFINE at(r, i) == IF r = x THEN i + 1 ELSE i
<1>4. ASSUME NEW r \in Queues, NEW i \in 1 .. Len(d[r])
      PROVE  at(r, i) \in 1 .. Len(b[r]) /\ d[r][i] = b[r][at(r, i)] /\ (r = x => at(r, i) # 1)
  <2>1. CASE r = x
    <3>1. i \in 1 .. Len(b[x]) - 1 /\ d[r][i] = Tail(b[x])[i]
      BY <1>1, <1>2, <1>4, <2>1
    <3> QED
      BY <1>1, <2>1, <3>1
  <2>2. CASE r # x
    BY <1>2, <1>4, <2>2
  <2> QED
    BY <2>1, <2>2
<1>5. \A r \in Queues : \A i, k \in 1 .. Len(d[r]) : at(r, i) = at(r, k) => i = k
  OBVIOUS
<1> HIDE DEF h, at
<1>6. ASSUME Unique(b) PROVE Unique(d) /\ (Live(h) => ~LiveIn(d, h.job))
  <2>1. ASSUME NEW q \in Queues, NEW r \in Queues, NEW i \in 1 .. Len(d[q]),
               NEW k \in 1 .. Len(d[r]), Live(d[q][i]), Live(d[r][k]),
               d[q][i].job = d[r][k].job
        PROVE  q = r /\ i = k
    <3>1. /\ at(q, i) \in 1 .. Len(b[q]) /\ Live(b[q][at(q, i)])
          /\ at(r, k) \in 1 .. Len(b[r]) /\ Live(b[r][at(r, k)])
          /\ b[q][at(q, i)].job = b[r][at(r, k)].job
      BY <1>4, <2>1
    <3>2. q = r /\ at(q, i) = at(r, k)
      BY <1>6, <3>1 DEF Unique
    <3> QED
      BY <1>5, <2>1, <3>2
  <2>2. ASSUME Live(h), NEW r \in Queues, NEW i \in 1 .. Len(d[r]), Live(d[r][i]),
               d[r][i].job = h.job
        PROVE  FALSE
    <3>1. /\ at(r, i) \in 1 .. Len(b[r]) /\ Live(b[r][at(r, i)]) /\ Live(b[x][1])
          /\ b[x][1].job = b[r][at(r, i)].job
      BY <1>1, <1>4, <2>2
    <3>2. x = r /\ 1 = at(r, i)
      BY <1>3, <1>6, <3>1 DEF Unique
    <3> QED
      BY <1>4, <2>2, <3>2
  <2> QED
    BY <2>1, <2>2 DEF Unique, LiveIn
<1>7. ASSUME Keyed(b) PROVE Keyed(d) /\ (x \in Priorities => h.key = x)
  <2>1. ASSUME NEW p \in Priorities, NEW i \in 1 .. Len(d[p]) PROVE d[p][i].key = p
    <3>1. p \in Queues
      BY DEF Queues
    <3>2. at(p, i) \in 1 .. Len(b[p]) /\ d[p][i] = b[p][at(p, i)]
      BY <1>4, <3>1
    <3> QED
      BY <1>7, <3>2 DEF Keyed
  <2>2. x \in Priorities => h.key = x
    BY <1>1, <1>3, <1>7 DEF Keyed
  <2> QED
    BY <2>1, <2>2 DEF Keyed
<1>8. \A j \in Jobs : LiveIn(d, j) => LiveIn(b, j)
  BY <1>4 DEF LiveIn
<1>9. \A j \in Jobs : Seen(d, j) => Seen(b, j)
  BY <1>4 DEF Seen
<1>10. (Live(h) => LiveIn(b, h.job)) /\ Seen(b, h.job)
  BY <1>1, <1>3 DEF LiveIn, Seen
<1> QED
  BY <1>3, <1>6, <1>7, <1>8, <1>9, <1>10 DEF h

LEMMA GivenBackOnce ==
    ASSUME NEW b \in [Queues -> Seq(Message)], NEW m \in Message, NEW x \in Queues,
           NEW d \in [Queues -> Seq(Message)], Returned(b, x, m, d)
    PROVE  /\ Unique(b) /\ (Live(m) => ~LiveIn(b, m.job)) => Unique(d)
           /\ Keyed(b) /\ (x \in Priorities => m.key = x) => Keyed(d)
           /\ \A j \in Jobs : LiveIn(d, j) => LiveIn(b, j) \/ (Live(m) /\ j = m.job)
           /\ \A j \in Jobs : Seen(d, j) => Seen(b, j) \/ j = m.job
<1>1. \A r \in Queues : b[r] \in Seq(Message) /\ Len(b[r]) \in Nat
  OBVIOUS
<1>2. /\ <<m>> \o b[x] \in Seq(Message) /\ Len(<<m>> \o b[x]) = Len(b[x]) + 1
      /\ \A i \in 1 .. Len(b[x]) + 1 : (<<m>> \o b[x])[i] = IF i = 1 THEN m ELSE b[x][i - 1]
  BY <1>1, GivenBackPlaces
<1>3. /\ d[x] = <<m>> \o b[x] /\ \A r \in Queues : r # x => d[r] = b[r]
  BY <1>2 DEF Returned
<1> DEFINE at(r, i) == IF r = x THEN i - 1 ELSE i
<1>4. ASSUME NEW r \in Queues, NEW i \in 1 .. Len(d[r])
      PROVE  \/ at(r, i) \in 1 .. Len(b[r]) /\ d[r][i] = b[r][at(r, i)]
             \/ r = x /\ i = 1 /\ d[r][i] = m
  <2>1. CASE r = x
    BY <1>1, <1>2, <1>3, <1>4, <2>1
  <2>2. CASE r # x
    BY <1>3, <1>4, <2>2
  <2> QED
    BY <2>1, <2>2
<1>5. \A r \in Queues : \A i, k \in 1 .. Len(d[r]) : at(r, i) = at(r, k) => i = k
  OBVIOUS
<1> HIDE DEF at
<1>6. ASSUME Unique(b), Live(m) => ~LiveIn(b, m.job) PROVE Unique(d)
  <2>1. ASSUME NEW q \in Queues, NEW r \in Queues, NEW i \in 1 .. Len(d[q]),
               NEW k \in 1 .. Len(d[r]), Live(d[q][i]), Live(d[r][k]),
               d[q][i].job = d[r][k].job
        PROVE  q = r /\ i = k
    <3>1. CASE /\ at(q, i) \in 1 .. Len(b[q]) /\ d[q][i] = b[q][at(q, i)]
               /\ at(r, k) \in 1 .. Len(b[r]) /\ d[r][k] = b[r][at(r, k)]
      <4>1. /\ at(q, i) \in 1 .. Len(b[q]) /\ Live(b[q][at(q, i)])
            /\ at(r, k) \in 1 .. Len(b[r]) /\ Live(b[r][at(r, k)])
            /\ b[q][at(q, i)].job = b[r][at(r, k)].job
        BY <2>1, <3>1
      <4>2. q = r /\ at(q, i) = at(r, k)
        BY <1>6, <4>1 DEF Unique
      <4> QED
        BY <1>5, <2>1, <4>2
    <3>2. CASE d[q][i] = m /\ at(r, k) \in 1 .. Len(b[r]) /\ d[r][k] = b[r][at(r, k)]
      BY <1>6, <2>1, <3>2 DEF LiveIn
    <3>3. CASE at(q, i) \in 1 .. Len(b[q]) /\ d[q][i] = b[q][at(q, i)] /\ d[r][k] = m
      BY <1>6, <2>1, <3>3 DEF LiveIn
    <3> QED
      BY <1>4, <3>1, <3>2, <3>3
  <2> QED
    BY <2>1 DEF Unique
<1>7. ASSUME Keyed(b), x \in Priorities => m.key = x PROVE Keyed(d)
  BY <1>4, <1>7 DEF Keyed, Queues
<1>8. \A j \in Jobs : LiveIn(d, j) => LiveIn(b, j) \/ (Live(m) /\ j = m.job)
  BY <1>4 DEF LiveIn
<1>9. \A j \in Jobs : Seen(d, j) => Seen(b, j) \/ j = m.job
  BY <1>4 DEF Seen
<1> QED
  BY <1>6, <1>7, <1>8, <1>9
\* A message in a hand is the only one that can still reach a worker; while
\* it is not known to be sent, every time it was mailed has a reason.
HandOnce ==
    \A c \in Consumers :
       hand[c] # Free =>
          /\ hand[c].msg.key = c[2] /\ ~LiveIn(queue, hand[c].msg.job)
          /\ queued[hand[c].msg.job] # "no"
          /\ hand[c].at # "sent" =>
                mailed[hand[c].msg.job] <= crashes + failed[hand[c].msg.job]

HandsApart ==
    \A c, d \in Consumers :
       hand[c] # Free /\ hand[d] # Free /\ hand[c].msg.job = hand[d].msg.job => c = d

NewUnseen == \A j \in Jobs : queued[j] = "no" => mailed[j] = 0 /\ ~Seen(queue, j)

LiveMailed == \A j \in Jobs : LiveIn(queue, j) => mailed[j] <= crashes + failed[j]

OnceInvariant ==
    /\ Unique(queue) /\ Keyed(queue)
    /\ HandOnce /\ HandsApart /\ NewUnseen /\ LiveMailed /\ MailedTwiceForAReason

(* Steps that mail nothing: what can reach a worker could before, is new,  *)
(* or has left a hand that did not take it for sent.                       *)
LEMMA OnceCalm ==
    ASSUME TypeOK, OnceInvariant, Unique(queue'), Keyed(queue'),
           UNCHANGED <<mailed, failed, crashes>>,
           \A c \in Consumers :
              \/ hand'[c] = Free
              \/ /\ hand[c] # Free /\ hand'[c] # Free /\ hand'[c].msg = hand[c].msg
                 /\ hand'[c].at # "sent" => hand[c].at # "sent",
           \A j \in Jobs : queued'[j] = "no" => queued[j] = "no",
           \A j \in Jobs :
              LiveIn(queue', j) =>
                 \/ LiveIn(queue, j) \/ queued[j] = "no"
                 \/ \E c \in Consumers : /\ hand[c] # Free /\ hand'[c] = Free
                                         /\ hand[c].at # "sent" /\ hand[c].msg.job = j,
           \A j \in Jobs : Seen(queue', j) => Seen(queue, j) \/ queued'[j] # "no"
    PROVE  OnceInvariant'
<1>1. \A c \in Consumers : hand[c] # Free => hand[c].msg.job \in Jobs
  BY HeldMessage DEF Message
<1>2. \A j \in Jobs : mailed[j] \in Nat /\ failed[j] \in Nat /\ crashes \in Nat
  BY NotificationsAssumption DEF TypeOK
<1>3. HandOnce'
  <2>1. ASSUME NEW c \in Consumers, hand'[c] # Free
        PROVE  /\ hand'[c].msg.key = c[2] /\ ~LiveIn(queue', hand'[c].msg.job)
               /\ queued'[hand'[c].msg.job] # "no"
               /\ hand'[c].at # "sent" =>
                     mailed'[hand'[c].msg.job] <= crashes' + failed'[hand'[c].msg.job]
    <3>1. /\ hand[c] # Free /\ hand'[c].msg = hand[c].msg
          /\ hand'[c].at # "sent" => hand[c].at # "sent"
      BY <2>1
    <3>2. PICK j \in Jobs : j = hand[c].msg.job
      BY <1>1, <3>1
    <3>3. /\ hand[c].msg.key = c[2] /\ ~LiveIn(queue, j) /\ queued[j] # "no"
          /\ hand[c].at # "sent" => mailed[j] <= crashes + failed[j]
      BY <3>1, <3>2 DEF OnceInvariant, HandOnce
    <3>4. ~LiveIn(queue', j)
      BY <2>1, <3>1, <3>2, <3>3 DEF OnceInvariant, HandsApart
    <3> QED
      BY <3>1, <3>2, <3>3, <3>4
  <2> QED
    BY <2>1 DEF HandOnce
<1>4. HandsApart'
  BY DEF OnceInvariant, HandsApart
<1>5. NewUnseen'
  BY DEF OnceInvariant, NewUnseen
<1>6. LiveMailed'
  <2>1. ASSUME NEW j \in Jobs, LiveIn(queue', j) PROVE mailed[j] <= crashes + failed[j]
    <3>1. CASE LiveIn(queue, j)
      BY <3>1 DEF OnceInvariant, LiveMailed
    <3>2. CASE queued[j] = "no"
      BY <1>2, <3>2 DEF OnceInvariant, NewUnseen
    <3>3. ASSUME NEW c \in Consumers, hand[c] # Free, hand[c].at # "sent", hand[c].msg.job = j
          PROVE  mailed[j] <= crashes + failed[j]
      BY <3>3 DEF OnceInvariant, HandOnce
    <3> QED
      BY <2>1, <3>1, <3>2, <3>3
  <2> QED
    BY <2>1 DEF LiveMailed
<1>7. MailedTwiceForAReason'
  BY DEF OnceInvariant, MailedTwiceForAReason
<1> QED
  BY <1>3, <1>4, <1>5, <1>6, <1>7 DEF OnceInvariant

(* A worker takes the first message of a queue.                            *)
LEMMA OnceDelivered ==
    ASSUME TypeOK, TypeOK', OnceInvariant, NEW c \in Consumers, Deliver(c)
    PROVE  OnceInvariant'
<1> DEFINE m == Head(queue[c[2]])
<1>1. c[2] \in Queues /\ c[2] \in Priorities /\ queue \in [Queues -> Seq(Message)]
  BY DEF Consumers, Queues, TypeOK
<1>2. queue' = [r \in Queues |-> IF r = c[2] THEN Tail(queue[r]) ELSE queue[r]]
  BY DEF Deliver, Moved
<1>3. /\ Unique(queue') /\ Keyed(queue') /\ m \in Message
      /\ m.key = c[2] /\ Live(m) /\ ~LiveIn(queue', m.job) /\ LiveIn(queue, m.job)
      /\ Seen(queue, m.job)
      /\ \A j \in Jobs : LiveIn(queue', j) => LiveIn(queue, j)
      /\ \A j \in Jobs : Seen(queue', j) => Seen(queue, j)
  <2>1. queue[c[2]] # <<>> /\ Unique(queue) /\ Keyed(queue)
    BY DEF Deliver, OnceInvariant
  <2>2. PICK x \in Queues : x = c[2]
    BY <1>1
  <2>3. PICK d \in [Queues -> Seq(Message)] : d = queue'
    BY DEF TypeOK
  <2>4. x \in Priorities /\ queue[x] # <<>> /\ m = Head(queue[x])
    BY <1>1, <2>1, <2>2
  <2>5. Taken(queue, x, d)
    BY <1>2, <2>2, <2>3 DEF Taken
  <2>6. /\ m \in Message
        /\ Unique(d) /\ (Live(m) => ~LiveIn(d, m.job))
        /\ Keyed(d) /\ m.key = x
        /\ \A j \in Jobs : LiveIn(d, j) => LiveIn(queue, j)
        /\ \A j \in Jobs : Seen(d, j) => Seen(queue, j)
        /\ Live(m) => LiveIn(queue, m.job)
        /\ Seen(queue, m.job)
    <3> HIDE DEF m
    <3>1. \A h : h = Head(queue[x]) =>
             /\ h \in Message
             /\ Unique(d) /\ (Live(h) => ~LiveIn(d, h.job))
             /\ Keyed(d) /\ h.key = x
             /\ \A j \in Jobs : LiveIn(d, j) => LiveIn(queue, j)
             /\ \A j \in Jobs : Seen(d, j) => Seen(queue, j)
             /\ Live(h) => LiveIn(queue, h.job)
             /\ Seen(queue, h.job)
      BY <1>1, <2>1, <2>4, <2>5, TakenOnce
    <3> QED
      BY <2>4, <3>1
  <2> QED
    BY <1>1, <2>2, <2>3, <2>6 DEF Live
<1> HIDE DEF m
<1>4. /\ hand[c] = Free /\ UNCHANGED <<queued, mailed, failed, crashes>>
      /\ hand' = [hand EXCEPT ![c] = [at |-> "send", msg |-> m]]
  BY DEF Deliver, m
<1>5. /\ hand'[c].msg = m /\ hand'[c].at = "send"
      /\ \A d \in Consumers : d # c => hand'[d] = hand[d]
  BY <1>4 DEF TypeOK
<1>6. m.job \in Jobs
  BY <1>3 DEF Message
<1>7. \A d \in Consumers :
         hand[d] # Free => hand[d].msg.job \in Jobs /\ hand[d].msg.job # m.job
  BY <1>3, HeldMessage DEF OnceInvariant, HandOnce, Message
<1>8. HandOnce'
  <2>1. /\ m.key = c[2] /\ ~LiveIn(queue', m.job) /\ queued[m.job] # "no"
        /\ mailed[m.job] <= crashes + failed[m.job]
    BY <1>3, <1>6 DEF OnceInvariant, NewUnseen, LiveMailed
  <2>2. ASSUME NEW d \in Consumers, d # c, hand[d] # Free
        PROVE  /\ hand[d].msg.key = d[2] /\ ~LiveIn(queue', hand[d].msg.job)
               /\ queued[hand[d].msg.job] # "no"
               /\ hand[d].at # "sent" =>
                     mailed[hand[d].msg.job] <= crashes + failed[hand[d].msg.job]
    BY <1>3, <1>7, <2>2 DEF OnceInvariant, HandOnce
  <2>3. ASSUME NEW d \in Consumers, hand'[d] # Free
        PROVE  /\ hand'[d].msg.key = d[2] /\ ~LiveIn(queue', hand'[d].msg.job)
               /\ queued'[hand'[d].msg.job] # "no"
               /\ hand'[d].at # "sent" =>
                     mailed'[hand'[d].msg.job] <= crashes' + failed'[hand'[d].msg.job]
    <3>1. CASE d = c
      BY <1>4, <1>5, <2>1, <3>1
    <3>2. CASE d # c
      <4>1. hand'[d] = hand[d] /\ hand[d] # Free
        BY <1>5, <2>3, <3>2
      <4> QED
        BY <1>4, <2>2, <3>2, <4>1
    <3> QED
      BY <3>1, <3>2
  <2> QED
    BY <2>3 DEF HandOnce
<1>9. HandsApart'
  <2>1. ASSUME NEW d \in Consumers, NEW e \in Consumers, hand'[d] # Free, hand'[e] # Free,
               hand'[d].msg.job = hand'[e].msg.job
        PROVE  d = e
    <3>1. CASE d # c /\ e # c
      BY <1>5, <2>1, <3>1 DEF OnceInvariant, HandsApart
    <3>2. CASE d = c /\ e # c
      BY <1>5, <1>7, <2>1, <3>2
    <3>3. CASE d # c /\ e = c
      BY <1>5, <1>7, <2>1, <3>3
    <3> QED
      BY <3>1, <3>2, <3>3
  <2> QED
    BY <2>1 DEF HandsApart
<1>10. NewUnseen' /\ LiveMailed' /\ MailedTwiceForAReason'
  BY <1>3, <1>4 DEF OnceInvariant, NewUnseen, LiveMailed, MailedTwiceForAReason
<1> QED
  BY <1>3, <1>8, <1>9, <1>10 DEF OnceInvariant

(* The mail server is asked.                                               *)
LEMMA OnceSent ==
    ASSUME TypeOK, OnceInvariant, NEW c \in Consumers, NEW accepted \in BOOLEAN,
           NEW success \in BOOLEAN, SendEmail(c, accepted, success)
    PROVE  OnceInvariant'
<1>1. hand[c].at = "send" /\ hand[c] # Free /\ hand[c] \in Held
  BY HeldMessage, FreeIsNoStep DEF SendEmail
<1>2. PICK j \in Jobs : j = hand[c].msg.job
  BY <1>1 DEF Held, Message
<1>3. /\ queue' = queue /\ queued' = queued /\ crashes' = crashes
      /\ \A d \in Consumers : d # c => hand'[d] = hand[d]
      /\ hand'[c].msg = hand[c].msg /\ hand'[c].at = IF success THEN "sent" ELSE "failed"
  BY <1>1 DEF SendEmail, TypeOK, Held
<1>4. /\ mailed[j] \in Nat /\ failed[j] \in Nat /\ crashes \in Nat
      /\ mailed[j] <= crashes + failed[j] /\ ~LiveIn(queue, j) /\ queued[j] # "no"
      /\ hand[c].msg.key = c[2]
  BY <1>1, <1>2, NotificationsAssumption DEF TypeOK, OnceInvariant, HandOnce
<1>5. /\ \A i \in Jobs : i # j => mailed'[i] = mailed[i] /\ failed'[i] = failed[i]
      /\ mailed'[j] \in {mailed[j], mailed[j] + 1}
      /\ failed'[j] = IF success THEN failed[j] ELSE failed[j] + 1
  BY <1>2 DEF SendEmail, TypeOK
<1>6. /\ mailed'[j] <= 1 + crashes' + failed'[j]
      /\ ~success => mailed'[j] <= crashes' + failed'[j]
  BY <1>3, <1>4, <1>5
<1>7. \A d \in Consumers :
         d # c /\ hand[d] # Free => hand[d].msg.job \in Jobs /\ hand[d].msg.job # j
  BY <1>1, <1>2, HeldMessage DEF OnceInvariant, HandsApart, Message
<1>8. HandOnce'
  <2>1. ASSUME NEW d \in Consumers, hand'[d] # Free
        PROVE  /\ hand'[d].msg.key = d[2] /\ ~LiveIn(queue', hand'[d].msg.job)
               /\ queued'[hand'[d].msg.job] # "no"
               /\ hand'[d].at # "sent" =>
                     mailed'[hand'[d].msg.job] <= crashes' + failed'[hand'[d].msg.job]
    <3>1. CASE d = c
      BY <1>2, <1>3, <1>4, <1>6, <3>1
    <3>2. CASE d # c
      <4>1. hand'[d] = hand[d] /\ hand[d] # Free
        BY <1>3, <2>1, <3>2
      <4>2. hand[d].msg.job \in Jobs /\ hand[d].msg.job # j
        BY <1>7, <3>2, <4>1
      <4>3. /\ hand[d].msg.key = d[2] /\ ~LiveIn(queue, hand[d].msg.job)
            /\ queued[hand[d].msg.job] # "no"
            /\ hand[d].at # "sent" =>
                  mailed[hand[d].msg.job] <= crashes + failed[hand[d].msg.job]
        BY <4>1 DEF OnceInvariant, HandOnce
      <4> QED
        BY <1>3, <1>5, <4>1, <4>2, <4>3
    <3> QED
      BY <3>1, <3>2
  <2> QED
    BY <2>1 DEF HandOnce
<1>9. HandsApart'
  BY <1>1, <1>3 DEF OnceInvariant, HandsApart
<1>10. NewUnseen'
  BY <1>3, <1>4, <1>5 DEF OnceInvariant, NewUnseen
<1>11. LiveMailed'
  BY <1>3, <1>4, <1>5 DEF OnceInvariant, LiveMailed
<1>12. MailedTwiceForAReason'
  BY <1>3, <1>5, <1>6 DEF OnceInvariant, MailedTwiceForAReason
<1>13. Unique(queue') /\ Keyed(queue')
  BY <1>3 DEF OnceInvariant
<1> QED
  BY <1>8, <1>9, <1>10, <1>11, <1>12, <1>13 DEF OnceInvariant

(* A failed attempt: the worker puts a copy into the retry queue, from     *)
(* where it goes nowhere, or rejects the message, which then goes there.   *)
LEMMA OnceFailed ==
    ASSUME TypeOK, TypeOK', OnceInvariant, NEW c \in Consumers, AfterFailure(c)
    PROVE  OnceInvariant'
<1>1. hand[c].at = "failed" /\ hand[c] # Free /\ hand[c] \in Held /\ c[2] \in Priorities
  BY HeldMessage, FreeIsNoStep DEF AfterFailure, Consumers
<1>2. PICK m \in Message : m = hand[c].msg
  BY <1>1 DEF Held
<1>3. PICK j \in Jobs : j = m.job
  BY DEF Message
<1>4. m.key = c[2] /\ ~LiveIn(queue, j) /\ queued[j] # "no"
  BY <1>1, <1>2, <1>3 DEF OnceInvariant, HandOnce
<1>5. PICK x \in Queues : x = "retry"
  BY DEF Queues
<1>6. PICK d \in [Queues -> Seq(Message)] : d = queue'
  BY DEF TypeOK
<1>7. x \notin Priorities /\ queue \in [Queues -> Seq(Message)]
  BY <1>5 DEF Priorities, TypeOK
<1>8. Unique(queue) /\ Keyed(queue)
  BY DEF OnceInvariant
<1>9. /\ UNCHANGED <<mailed, failed, crashes, queued>>
      /\ \A e \in Consumers : e # c => hand'[e] = hand[e]
  BY DEF AfterFailure, TypeOK
<1> DEFINE copy == [m EXCEPT !.key = "retry", !.attempts = @ + 1]
<1>10. copy.attempts = m.attempts + 1 /\ copy.job = j /\ copy.key = "retry"
  BY <1>3 DEF Message
<1>11. /\ copy.attempts >= MaxAttempts =>
             /\ queue' = With(DeadLetterQueues(c[2], m.key), m)
             /\ hand' = [hand EXCEPT ![c] = Free]
       /\ ~(copy.attempts >= MaxAttempts) =>
             /\ queue' = With({"retry"}, copy)
             /\ hand' = [hand EXCEPT ![c].at = "requeued"]
  BY <1>2 DEF AfterFailure
<1>12. ~(copy.attempts >= MaxAttempts) => copy \in Message
  <2>1. m.job \in Jobs /\ m.key \in Queues /\ m.attempts \in 0 .. MaxAttempts - 1
    BY DEF Message
  <2>2. ~(m.attempts + 1 >= MaxAttempts) => m.attempts + 1 \in 0 .. MaxAttempts - 1
    BY <2>1, NotificationsAssumption
  <2>3. m.attempts + 1 \in 0 .. MaxAttempts - 1 => copy \in Message
    BY <1>5 DEF Message
  <2> QED
    BY <1>10, <2>2, <2>3
<1> HIDE DEF copy
<1>13. CASE copy.attempts >= MaxAttempts
  <2>1. queue' = With({"retry"}, m) /\ hand'[c] = Free
    BY <1>1, <1>11, <1>13 DEF DeadLetterQueues, TypeOK
  <2>2. Appended(queue, x, m, d)
    BY <1>5, <1>6, <2>1 DEF Appended, With
  <2>3. /\ Unique(d) /\ Keyed(d)
        /\ \A i \in Jobs : LiveIn(d, i) => LiveIn(queue, i) \/ i = j
        /\ \A i \in Jobs : Seen(d, i) => Seen(queue, i) \/ i = j
    BY <1>3, <1>4, <1>7, <1>8, <2>2, AppendedOnce
  <2> QED
    BY <1>1, <1>2, <1>3, <1>4, <1>6, <1>9, <2>1, <2>3, OnceCalm
<1>14. CASE ~(copy.attempts >= MaxAttempts)
  <2>1. /\ queue' = With({"retry"}, copy) /\ copy \in Message
        /\ hand'[c].at = "requeued" /\ hand'[c].msg = hand[c].msg
    BY <1>1, <1>11, <1>12, <1>14 DEF TypeOK, Held
  <2>2. Appended(queue, x, copy, d)
    BY <1>5, <1>6, <2>1 DEF Appended, With
  <2>3. ~Live(copy)
    BY <1>10 DEF Live, Priorities
  <2>4. /\ Unique(d) /\ Keyed(d)
        /\ \A i \in Jobs : LiveIn(d, i) => LiveIn(queue, i)
        /\ \A i \in Jobs : Seen(d, i) => Seen(queue, i) \/ i = j
    BY <1>7, <1>8, <1>10, <2>1, <2>2, <2>3, AppendedOnce
  <2>5. hand'[c] # Free
    BY <2>1, FreeIsNoStep
  <2> QED
    BY <1>1, <1>4, <1>6, <1>9, <2>1, <2>4, <2>5, OnceCalm
<1> QED
  BY <1>13, <1>14

(* A new e-mail comes into its queue, which a worker reads, or into that   *)
(* of the scheduled ones, from where it goes nowhere.                      *)
LEMMA OnceQueued ==
    ASSUME TypeOK, TypeOK', OnceInvariant, NEW j \in Jobs, NEW m \in Message, NEW x \in Queues,
           m.job = j, x \in Priorities => m.key = x, queued[j] = "no", queued'[j] # "no",
           \A i \in Jobs : i # j => queued'[i] = queued[i],
           Appended(queue, x, m, queue'),
           UNCHANGED <<hand, mailed, failed, crashes>>
    PROVE  OnceInvariant'
<1>1. PICK d \in [Queues -> Seq(Message)] : d = queue'
  BY DEF TypeOK
<1>2. Appended(queue, x, m, d) /\ queue \in [Queues -> Seq(Message)]
  BY <1>1 DEF TypeOK
<1>3. Unique(queue) /\ Keyed(queue) /\ ~Seen(queue, j)
  BY DEF OnceInvariant, NewUnseen
<1>4. ~LiveIn(queue, m.job)
  BY <1>3 DEF LiveIn, Seen
<1>5. PICK b \in [Queues -> Seq(Message)] : b = queue
  BY DEF TypeOK
<1>6. /\ Appended(b, x, m, d) /\ Unique(b) /\ Keyed(b)
      /\ Live(m) => ~LiveIn(b, m.job)
      /\ x \in Priorities => m.key = x
  BY <1>2, <1>3, <1>4, <1>5
<1>7. /\ Unique(d) /\ Keyed(d)
      /\ \A i \in Jobs : LiveIn(d, i) => LiveIn(b, i) \/ (Live(m) /\ i = m.job)
      /\ \A i \in Jobs : Seen(d, i) => Seen(b, i) \/ i = m.job
  BY <1>6, AppendedOnce
<1> QED
  BY <1>1, <1>5, <1>7, OnceCalm

LEMMA OnceImmediate ==
    ASSUME TypeOK, TypeOK', OnceInvariant, NEW j \in Jobs, NEW p \in Priorities,
           QueueImmediate(j, p)
    PROVE  OnceInvariant'
<1> DEFINE m == [job |-> j, key |-> p, attempts |-> 0]
<1>1. m \in Message /\ m.job = j /\ m.key = p /\ p \in Queues
  BY NotificationsAssumption DEF Message, Queues
<1>2. Appended(queue, p, m, queue')
  BY DEF QueueImmediate, RoutingKey, Bound, With, Appended
<1>3. /\ queued[j] = "no" /\ queued'[j] # "no"
      /\ \A i \in Jobs : i # j => queued'[i] = queued[i]
      /\ UNCHANGED <<hand, mailed, failed, crashes>>
  BY DEF QueueImmediate, TypeOK
<1> HIDE DEF m
<1> QED
  BY <1>1, <1>2, <1>3, OnceQueued

LEMMA OnceScheduled ==
    ASSUME TypeOK, TypeOK', OnceInvariant, NEW j \in Jobs, QueueScheduled(j)
    PROVE  OnceInvariant'
<1> DEFINE m == [job |-> j, key |-> "scheduled", attempts |-> 0]
<1>1. PICK x \in Queues : x = "scheduled"
  BY DEF Queues
<1>2. m \in Message /\ m.job = j /\ x \notin Priorities
  BY <1>1, NotificationsAssumption DEF Message, Priorities
<1>3. Appended(queue, x, m, queue')
  BY <1>1 DEF QueueScheduled, With, Appended
<1>4. /\ queued[j] = "no" /\ queued'[j] # "no"
      /\ \A i \in Jobs : i # j => queued'[i] = queued[i]
      /\ UNCHANGED <<hand, mailed, failed, crashes>>
  BY DEF QueueScheduled, TypeOK
<1> HIDE DEF m
<1> QED
  BY <1>2, <1>3, <1>4, OnceQueued


(* The first message of a queue expires, and comes into the queue that is  *)
(* bound to its key, if there is one.                                      *)
LEMMA OnceExpired ==
    ASSUME TypeOK, TypeOK', OnceInvariant, NEW x \in {"scheduled", "retry"}, Expire(x)
    PROVE  OnceInvariant'
<1>1. PICK b \in [Queues -> Seq(Message)] : b = queue
  BY DEF TypeOK
<1>2. PICK d \in [Queues -> Seq(Message)] : d = queue'
  BY DEF TypeOK
<1>3. PICK h : h = Head(b[x])
  OBVIOUS
<1>4. x \in Queues /\ x \notin Priorities /\ b[x] # <<>> /\ Unique(b) /\ Keyed(b)
  BY <1>1 DEF Queues, Priorities, Expire, OnceInvariant
<1> DEFINE e == [r \in Queues |-> IF r = x THEN Tail(b[r]) ELSE b[r]]
<1>5. e \in [Queues -> Seq(Message)] /\ Taken(b, x, e)
  BY <1>4, TailPlaces DEF Taken
<1>6. \A r \in Queues : d[r] = IF r \in Bound(h.key) THEN Append(e[r], h) ELSE e[r]
  BY <1>1, <1>2, <1>3, <1>4 DEF Expire, Moved, DeadLetterQueues
<1> HIDE DEF e
<1>7. /\ h \in Message /\ Unique(e) /\ (Live(h) => ~LiveIn(e, h.job)) /\ Keyed(e)
      /\ \A j \in Jobs : LiveIn(e, j) => LiveIn(b, j)
      /\ \A j \in Jobs : Seen(e, j) => Seen(b, j)
      /\ Live(h) => LiveIn(b, h.job)
      /\ Seen(b, h.job)
  BY <1>3, <1>4, <1>5, TakenOnce
<1>8. /\ Unique(d) /\ Keyed(d)
      /\ \A j \in Jobs : LiveIn(d, j) => LiveIn(b, j)
      /\ \A j \in Jobs : Seen(d, j) => Seen(b, j)
  <2>1. CASE h.key \in Priorities
    <3>1. PICK y \in Queues : y = h.key
      BY <2>1 DEF Queues
    <3>2. Appended(e, y, h, d)
      BY <1>6, <2>1, <3>1 DEF Appended, Bound
    <3>3. y \in Priorities => h.key = y
      BY <3>1
    <3>4. /\ Unique(d) /\ Keyed(d)
          /\ \A j \in Jobs : LiveIn(d, j) => LiveIn(e, j) \/ (Live(h) /\ j = h.job)
          /\ \A j \in Jobs : Seen(d, j) => Seen(e, j) \/ j = h.job
      BY <1>5, <1>7, <3>2, <3>3, AppendedOnce
    <3> QED
      BY <1>7, <3>4
  <2>2. CASE h.key \notin Priorities
    <3>1. \A r \in Queues : d[r] = e[r]
      BY <1>6, <2>2 DEF Bound
    <3>2. d = e
      BY <1>5, <3>1
    <3> QED
      BY <1>7, <3>2
  <2> QED
    BY <2>1, <2>2
<1>9. UNCHANGED <<queued, hand, mailed, failed, crashes>>
  BY DEF Expire
<1> QED
  BY <1>1, <1>2, <1>8, <1>9, OnceCalm

(* A worker crashes, and the broker puts its messages back, each before    *)
(* the others of its queue: what holds when it has done so for the         *)
(* priorities in S.                                                        *)
PutBack(b, w, S) ==
    /\ Unique(b) /\ Keyed(b)
    /\ \A j \in Jobs : Seen(b, j) => queued[j] # "no"
    /\ \A c \in Consumers :
          hand[c] # Free /\ (c[1] = w => c[2] \notin S) => ~LiveIn(b, hand[c].msg.job)

LEMMA OnceReturned ==
    ASSUME TypeOK, OnceInvariant, NEW w \in Workers, NEW S, NEW p \in Priorities \ S,
           NEW b \in [Queues -> Seq(Message)], NEW d \in [Queues -> Seq(Message)],
           PutBack(b, w, S),
           \A r \in Queues : d[r] = IF r = p THEN GivenBack(<<w, p>>) \o b[r] ELSE b[r]
    PROVE  PutBack(d, w, S \cup {p})
<1>1. PICK c \in Consumers : c = <<w, p>>
  BY DEF Consumers
<1>2. \A e \in Consumers : e # c /\ e[1] = w => e[2] # p
  BY <1>1 DEF Consumers
<1>3. CASE hand[c] = Free
  <2>1. \A r \in Queues : d[r] = b[r]
    BY <1>1, <1>3 DEF GivenBack
  <2>2. d = b
    BY <2>1
  <2> QED
    BY <2>2 DEF PutBack
<1>4. CASE hand[c] # Free
  <2>1. PICK m \in Message : m = hand[c].msg
    BY <1>4, HeldMessage
  <2>2. m.key = p /\ queued[m.job] # "no" /\ c[1] = w /\ c[2] = p
    BY <1>1, <1>4, <2>1 DEF OnceInvariant, HandOnce
  <2>3. ~LiveIn(b, m.job)
    BY <1>4, <2>1, <2>2 DEF PutBack
  <2>4. PICK x \in Queues : x = p
    BY DEF Queues
  <2>5. Returned(b, x, m, d) /\ (x \in Priorities => m.key = x)
    BY <1>1, <1>4, <2>1, <2>2, <2>4 DEF Returned, GivenBack
  <2>6. Unique(b) /\ Keyed(b)
    BY DEF PutBack
  <2>7. /\ Unique(d) /\ Keyed(d)
        /\ \A j \in Jobs : LiveIn(d, j) => LiveIn(b, j) \/ (Live(m) /\ j = m.job)
        /\ \A j \in Jobs : Seen(d, j) => Seen(b, j) \/ j = m.job
    BY <2>3, <2>5, <2>6, GivenBackOnce
  <2>8. \A j \in Jobs : Seen(d, j) => queued[j] # "no"
    BY <2>2, <2>7 DEF PutBack
  <2>9. ASSUME NEW e \in Consumers, hand[e] # Free, e[1] = w => e[2] \notin S \cup {p}
        PROVE  ~LiveIn(d, hand[e].msg.job)
    <3>1. e # c
      BY <2>2, <2>9
    <3>2. PICK j \in Jobs : j = hand[e].msg.job
      BY <2>9, HeldMessage DEF Message
    <3>3. j # m.job
      BY <1>4, <2>1, <2>9, <3>1, <3>2 DEF OnceInvariant, HandsApart
    <3>4. ~LiveIn(b, j)
      BY <2>9, <3>2 DEF PutBack
    <3> QED
      BY <2>7, <3>2, <3>3, <3>4
  <2> QED
    BY <2>7, <2>8, <2>9 DEF PutBack
<1> QED
  BY <1>3, <1>4

LEMMA OnceCrashed ==
    ASSUME TypeOK, TypeOK', OnceInvariant, NEW w \in Workers, Crash(w)
    PROVE  OnceInvariant'
<1>1. ASSUME NEW b \in [Queues -> Seq(Message)], NEW p \in Priorities, NEW S, p \notin S,
             PutBack(b, w, S)
      PROVE  \E d \in [Queues -> Seq(Message)] :
                /\ \A r \in Queues :
                      d[r] = IF r = p THEN GivenBack(<<w, p>>) \o b[r] ELSE b[r]
                /\ PutBack(d, w, S \cup {p})
  <2> DEFINE e == [r \in Queues |-> IF r = p THEN GivenBack(<<w, p>>) \o b[r] ELSE b[r]]
  <2>1. <<w, p>> \in Consumers
    BY DEF Consumers
  <2>2. GivenBack(<<w, p>>) \in Seq(Message)
    BY <2>1, HeldMessage DEF GivenBack
  <2>3. \A r \in Queues : GivenBack(<<w, p>>) \o b[r] \in Seq(Message)
    BY <2>2
  <2>4. PICK d \in [Queues -> Seq(Message)] : d = e
    BY <2>3
  <2>5. \A r \in Queues : d[r] = IF r = p THEN GivenBack(<<w, p>>) \o b[r] ELSE b[r]
    BY <2>4
  <2> HIDE DEF e
  <2>6. PutBack(d, w, S \cup {p})
    BY <1>1, <2>5, OnceReturned
  <2> QED
    BY <2>5, <2>6
<1>2. queue \in [Queues -> Seq(Message)] /\ PutBack(queue, w, {})
  BY DEF TypeOK, OnceInvariant, NewUnseen, HandOnce, PutBack
<1>3. /\ "high" \in Priorities /\ "medium" \in Priorities /\ "low" \in Priorities
      /\ "high" \notin {} /\ "medium" \notin {"high"} /\ "low" \notin {"high"} \cup {"medium"}
  BY DEF Priorities
<1>4. PICK b1 \in [Queues -> Seq(Message)] :
         /\ \A r \in Queues :
               b1[r] = IF r = "high" THEN GivenBack(<<w, "high">>) \o queue[r] ELSE queue[r]
         /\ PutBack(b1, w, {} \cup {"high"})
  BY <1>1, <1>2, <1>3
<1>5. PutBack(b1, w, {"high"})
  <2>1. {} \cup {"high"} = {"high"}
    OBVIOUS
  <2> QED
    BY <1>4, <2>1
<1>6. PICK b2 \in [Queues -> Seq(Message)] :
         /\ \A r \in Queues :
               b2[r] = IF r = "medium" THEN GivenBack(<<w, "medium">>) \o b1[r] ELSE b1[r]
         /\ PutBack(b2, w, {"high"} \cup {"medium"})
  BY <1>1, <1>3, <1>5
<1>7. PICK b3 \in [Queues -> Seq(Message)] :
         /\ \A r \in Queues :
               b3[r] = IF r = "low" THEN GivenBack(<<w, "low">>) \o b2[r] ELSE b2[r]
         /\ PutBack(b3, w, ({"high"} \cup {"medium"}) \cup {"low"})
  BY <1>1, <1>3, <1>6
<1>8. queue' = b3
  <2>1. queue' = [q \in Queues |->
                     IF q \in Priorities THEN GivenBack(<<w, q>>) \o queue[q] ELSE queue[q]]
    BY DEF Crash
  <2>2. ASSUME NEW q \in Queues
        PROVE  b3[q] = IF q \in Priorities THEN GivenBack(<<w, q>>) \o queue[q] ELSE queue[q]
    BY <1>4, <1>6, <1>7 DEF Priorities
  <2> QED
    BY <2>1, <2>2
<1>9. /\ Unique(b3) /\ Keyed(b3)
      /\ \A j \in Jobs : Seen(b3, j) => queued[j] # "no"
      /\ \A c \in Consumers :
            hand[c] # Free /\ c[1] # w => ~LiveIn(b3, hand[c].msg.job)
  BY <1>7 DEF PutBack
<1>10. /\ UNCHANGED <<queued, mailed, failed>> /\ crashes' = crashes + 1
       /\ \A c \in Consumers : hand'[c] = IF c[1] = w THEN Free ELSE hand[c]
  BY DEF Crash
<1>11. /\ \A j \in Jobs : mailed[j] \in Nat /\ failed[j] \in Nat
       /\ crashes \in Nat
       /\ \A c \in Consumers : hand[c] # Free => hand[c].msg.job \in Jobs
  <2>1. \A c \in Consumers : hand[c] # Free => hand[c].msg.job \in Jobs
    BY HeldMessage DEF Message
  <2> QED
    BY <2>1, NotificationsAssumption DEF TypeOK
<1>12. \A j \in Jobs : mailed'[j] <= crashes' + failed'[j]
  BY <1>10, <1>11 DEF OnceInvariant, MailedTwiceForAReason
<1>13. HandOnce'
  BY <1>8, <1>9, <1>10, <1>11, <1>12 DEF OnceInvariant, HandOnce
<1>14. HandsApart'
  BY <1>10 DEF OnceInvariant, HandsApart
<1>15. NewUnseen' /\ LiveMailed'
  BY <1>8, <1>9, <1>10, <1>12 DEF OnceInvariant, NewUnseen, LiveMailed
<1>16. MailedTwiceForAReason'
  BY <1>10, <1>11, <1>12 DEF MailedTwiceForAReason
<1> QED
  BY <1>8, <1>9, <1>13, <1>14, <1>15, <1>16 DEF OnceInvariant

(* The other steps leave the queues alone.                                 *)
LEMMA OnceAcked ==
    ASSUME TypeOK, OnceInvariant, NEW c \in Consumers, AckSent(c) \/ AckRequeued(c)
    PROVE  OnceInvariant'
<1>1. /\ UNCHANGED <<queue, queued, mailed, failed, crashes>>
      /\ hand'[c] = Free /\ \A e \in Consumers : e # c => hand'[e] = hand[e]
  BY DEF AckSent, AckRequeued, TypeOK
<1>2. Unique(queue') /\ Keyed(queue')
  BY <1>1 DEF OnceInvariant
<1> QED
  BY <1>1, <1>2, OnceCalm

LEMMA OnceUnchanged ==
    ASSUME TypeOK, OnceInvariant, UNCHANGED <<queue, queued, hand, mailed, failed, crashes>>
    PROVE  OnceInvariant'
<1>1. Unique(queue') /\ Keyed(queue')
  BY DEF OnceInvariant
<1> QED
  BY <1>1, OnceCalm

LEMMA OnceFirst == Init => OnceInvariant
<1> SUFFICES ASSUME Init PROVE OnceInvariant
  OBVIOUS
<1>1. \A q \in Queues : Len(queue[q]) = 0
  BY DEF Init
<1>2. Unique(queue) /\ Keyed(queue)
  BY <1>1 DEF Unique, Keyed, Queues
<1>3. \A j \in Jobs : ~LiveIn(queue, j) /\ ~Seen(queue, j) /\ mailed[j] = 0
  BY <1>1 DEF Init, LiveIn, Seen
<1>4. \A c \in Consumers : hand[c] = Free
  BY DEF Init
<1>5. MailedTwiceForAReason
  BY DEF Init, MailedTwiceForAReason
<1> QED
  BY <1>2, <1>3, <1>4, <1>5 DEF OnceInvariant, HandOnce, HandsApart, NewUnseen, LiveMailed

LEMMA OnceNext == TypeOK /\ TypeOK' /\ OnceInvariant /\ [Next]_vars => OnceInvariant'
<1> SUFFICES ASSUME TypeOK, TypeOK', OnceInvariant, [Next]_vars PROVE OnceInvariant'
  OBVIOUS
<1>1. ASSUME NEW j \in Jobs, QueueScheduled(j) PROVE OnceInvariant'
  BY <1>1, OnceScheduled
<1>2. ASSUME NEW j \in Jobs, NEW p \in Priorities, QueueImmediate(j, p) PROVE OnceInvariant'
  BY <1>2, OnceImmediate
<1>3. ASSUME NEW q \in {"scheduled", "retry"}, Expire(q) PROVE OnceInvariant'
  BY <1>3, OnceExpired
<1>4. ASSUME NEW c \in Consumers, Handle(c) PROVE OnceInvariant'
  BY <1>4, OnceDelivered, OnceSent, OnceAcked, OnceFailed DEF Handle
<1>5. ASSUME NEW w \in Workers, Crash(w) PROVE OnceInvariant'
  BY <1>5, OnceCrashed
<1>6. ASSUME NEW l \in logging, LogEmailSent(l) PROVE OnceInvariant'
  BY <1>6, OnceUnchanged DEF LogEmailSent
<1>7. CASE UNCHANGED vars
  BY <1>7, OnceUnchanged DEF vars
<1> QED
  BY <1>1, <1>2, <1>3, <1>4, <1>5, <1>6, <1>7 DEF Next

(* An e-mail is mailed no more often than once, once for each crash and    *)
(* once for each attempt that seemed to have failed.                       *)
THEOREM OnceTheorem == Spec => []MailedTwiceForAReason
<1>1. OnceInvariant => MailedTwiceForAReason
  BY DEF OnceInvariant
<1> QED
  BY <1>1, TypeCorrect, OnceFirst, OnceNext, PTL DEF Spec

=============================================================================
