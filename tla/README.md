# LIVEX backend: a TLA+ verification project

The repository is the backend of LIVEX, a marketplace of tourist experiences:
a NestJS API on PostgreSQL (READ COMMITTED, `pg` pool) and RabbitMQ, with
four background processes. Customers reserve places in an experience's time
slots and pay a commission through PayPal or Wompi; resorts and their agents
sell places too. The money and the seats are guarded by row locks, unique
indexes, status columns and, in many places, by nothing but a read that came a
little earlier. This project models those parts and checks and proves what they
guarantee.

Paths below are relative to the repository root.

## 1. Inventory

| part | state | operations | who it talks to |
|---|---|---|---|
| Bookings (`src/bookings`) | `bookings`, `inventory_locks`, view `v_slot_remaining` | create, update, confirm, cancel pending, cancel, check in, agent booking | Payments (refund or cancel the payment), Coupons, Availability's slots, exchange rates |
| Booking-expiry worker (`src/booking-expiry-worker.ts`) | none of its own | every 30 s: expire stale pending bookings, then consume their locks | Bookings' tables |
| Payments (`src/payments`) | `payments`, `refunds`, `webhook_events`, `commissions`, `agent_commissions` | create, webhook, cancel, refund, refund webhook, capture | providers (HTTP), Bookings, Coupons, notifications |
| Payment-reconciliation worker (`src/payment-reconciliation-worker.ts`) | `payment_reconciliations` | every 24 h: ask the provider about the payments of the day before, fix them, confirm the booking | provider, Payments' and Bookings' tables |
| Provider adapters (`src/payments/providers`) | none (an order or transaction lives at the provider) | create, capture, cancel, refund, validate a webhook, map a status | PayPal, Wompi |
| Webhook-event worker (`src/worker.ts`) | `webhook_events` | consume a queue, mark an event processed | RabbitMQ |
| Coupons, VIP, referral codes (`src/coupons`, part of `src/agents`) | `user_coupons`, `booking_coupons`, `vip_subscriptions`, `referral_codes` | validate, apply to a booking, mark used, activate VIP | Bookings' price columns |
| Availability (`src/availability`) | `availability_slots` | create, bulk create, delete (cascades to bookings) | Bookings |
| Auth (`src/auth`) | `refresh_tokens`, `password_reset_tokens` | login, refresh (rotation), logout, reset, change password | users |
| Notifications (`src/notifications`, `src/notification-worker.ts`) | four RabbitMQ queues and a dead-letter queue, `email_logs` | enqueue, delay, retry, dead-letter, send, log | every service |
| Resorts, agents, experiences, business documents (`src/resorts`, `src/agents`, `src/experiences`, `src/admin`, `src/upload`) | status columns, files in S3 | draft, submit, approve, reject, activate, documents | notifications |
| Prices and exchange rates (`src/exchange-rates`, `src/common/services/price-converter*`) | `exchange_rates` | refresh rates, convert cents | Bookings, Payments |
| Users, preferences, favorites, categories, partner views, reports, PDF | rows | CRUD and reads | the above |
| Infrastructure (config, guards, filters, interceptors, `DatabaseClient`) | a pool of 10 connections | `query`, `transaction` | everything |

### What is hard, and what makes each part correct

* **Bookings.** Capacity is checked against a view while other transactions
  commit; six code paths write a booking's status, three of them without
  looking at it. Correct: the seats of a slot are never sold twice, a booking
  and its inventory lock agree, a stale booking is cleaned up, a settled booking
  keeps its seats. *Modelled* but for prices and names.
* **Payments.** A provider call between two transactions, webhooks that are
  repeated, reordered and acknowledged even when they failed, a reconciliation
  worker and a user's cancellation racing with them. Correct: a booking with a
  collected payment leaves pending, no refund row without a refund, the effect of
  an event is applied once, a booking is closed only after its refund. *Modelled*
  but for payloads, currencies and receipts.
* **Coupons and VIP.** A coupon is checked when a booking is priced, statement by
  statement and without a transaction, and marked used when it is paid, on another
  connection than the payment's transaction. Correct: the resort always gets its
  net; a coupon is used up only by a booking that was confirmed and got its
  discount; a code's use limit. *Modelled.*
* **Availability.** An overlap check and an insert in different statements; a
  delete that counts bookings first; bulk creations that go on after errors.
  Correct: slots of an experience overlap only when they are created at the same time, no
  booking that was there loses its slot, a bulk creation reports what it did. *Modelled.*
* **Auth sessions and accounts.** Refresh rotation is check, store, revoke; every
  registration is look-up, then insert. Correct: one account per person, an
  interrupted rotation does not end a session, a reset ends all of them, a
  deactivated account opens none. *Modelled.*
* **Resorts and experiences.** Status columns written by id after an unlocked
  read, by owners and administrators; a trigger that counts reviews. Correct:
  decisions follow submissions, an approved resort is not edited by its owner, a
  rating counts the reviews. *Modelled.*
* **Business documents.** Rows in the database and files in S3, changed one after
  the other; profiles made on demand. Correct: a document is reachable, its file is
  there, an approval is of the file that was read. *Modelled.*
* **Notifications.** Retries by delayed dead-lettering. Correct: a failed e-mail is
  retried until its limit; nothing is lost, and nothing sent twice without a
  reason. *Modelled* but for templates and listeners.
* **Webhook-event worker.** It binds its queue to an exchange (`webhooks.payments`)
  that nothing in the repository publishes to, so no message ever reaches it.
  *Not modelled.*
* **Prices and exchange rates.** Floating-point conversions and one table that an
  hourly job overwrites. *Not modelled* (what a coupon does to a price is, in
  integer cents).

`PROJECT.json` lists the hazards at their lines, with the properties that cover
them.

## 2. The modules

| module | what it is |
|---|---|
| `SeatLedger` | what the booking core promises: parties that take seats when there is room, and give them back |
| `BookingLife` | what the rest of the system sees of a booking: its status, what it is for, and who may change them when |
| `Bookings` | the booking core, and the refinement mappings to `SeatLedger` and `BookingLife` |
| `MCBookings` + three `.cfg` | its instances for TLC |
| `BookingsProofs` | its types, its tables' agreement, capacity, the seat ledger and the life of a booking, proved |
| `Payments`, `MCPayments` + two `.cfg`, `PaymentsProofs` | payments, webhooks, cancellation, refunds, reconciliation and the two providers |
| `Notifications`, `MCNotifications` + two `.cfg`, `NotificationsProofs` | e-mail jobs, the broker's queues, the notification worker and its log |
| `Sessions`, `MCSessions` + `.cfg`, `SessionsProofs` | accounts, refresh tokens, password resets |
| `Availability`, `MCAvailability` + `.cfg`, `AvailabilityProofs` | the slots of an experience |
| `Coupons`, `MCCoupons` + `.cfg`, `CouponsProofs` | coupons, referral codes and the VIP membership of one buyer |
| `Catalogue`, `MCCatalogue` + `.cfg`, `CatalogueProofs` | resorts, experiences, their review by an administrator, and ratings |
| `Documents`, `MCDocuments` + `.cfg`, `DocumentsProofs` | business profiles, documents, images and the file store |

The modules meet at the bookings, and `BookingLife` is what they agree on. It has two
variables, a booking's status and its place (slot and party), and the steps that are left
of the booking core when everything else is hidden: a booking enters pending or
confirmed, changes its place while it is pending, is decided while it is pending, is
expired in a batch whatever it has become, is cancelled when its payment is settled, and is
confirmed by a paid webhook whatever has become of it. It never becomes pending again.

* `Bookings` *implements* it (`ImplementsLife`, a property of a run and a theorem), leaving open
  which payments there are.
* `Payments`, `Coupons` and `Availability` are *written against* it. Each instantiates it over
  its own view of a booking (the status; the status and what the prices are for; the status and
  the slot), lets the rest of the system take its steps by name (`Life!Alone` in
  `BookingMoves`; `Life!Enter`, `Life!Change`, `Life!Decide`, `Life!Expire`, `Life!Cancel` in the others), and adds
  what it knows of the step besides (the amounts, the slot that must be there).
* In turn each *respects* it: `LifeTheorem` of `PaymentsProofs`, `CouponsProofs` and
  `AvailabilityProofs` says that all a module does to its bookings, its own part and the part it leaves
  to others, is a life as `BookingLife` has it.

So no module assumes of the others what they do not do, and what one is checked against
is what another was shown to be. `HappensTheorem` says which part of it is the payments' own doing.
One thing a booking can undergo is left out of `BookingLife`: its row disappears when its slot is
deleted under it (the foreign key cascades). `Availability` alone models that, as `lost`, and
`LostWasRaced` proves that it happens only to a booking that came to the slot during the deletion.

### 2.1 `Bookings`

**State.** `booking` is the `bookings` table (status, source, slot, travellers,
`expires_at`, idempotency key, checked in), `lock` the `inventory_locks` row of
each booking, `now` the database clock, `tx` what each API request is in the
middle of, `sweep` what each expiry worker is in the middle of. `revived` is a
history variable: bookings that were confirmed while the capacity view did not
count them, and so took seats without a check.

**Steps.** A transaction is broken where PostgreSQL lets others in between:

* A transaction that takes the row lock of one booking and commits
  (`ConfirmPending`, `CancelPending`, the two payment confirmations) is one step:
  others see the old row until it commits, and writers of the row wait for it.
* `createPendingBooking`, `updatePendingBooking` and `createAgentBooking` are a
  start (idempotency check, or the row lock and the status check), a slot lock
  with the capacity read (`LockSlotCapacity` or `RejectCapacity`), and a commit.
  Taking the slot's row lock and reading the view are one step, since every
  transaction that adds seats needs that lock and the others only free seats
  between the two. `BEGIN` is merged with the first statement; a request that does
  nothing in between is an `Abort`. The view's `now()` is the transaction's begin
  time, kept in `began`, while `expires_at` comes from the JavaScript clock at the
  time of the insert.
* `cancelBooking` and `markCheckIn` read without a lock and write later; the status
  they read is kept in `seen`. Between the two `cancelBooking` settles the payment,
  which may refuse (`Abort`).
* The expiry sweep is a snapshot read (`ExpireScan`), an `UPDATE` that waits for
  the row locks (`ExpireApply`), and a second statement for the locks
  (`ExpireLocks`), with `WorkerCrash` between them. The subquery's conditions are
  not checked again on a row that changed while the `UPDATE` waited: its own
  `WHERE` is only `id IN (...)`, so it overwrites the row. Nothing in the code
  locks the rows the subquery picks.

**Abstractions.** The travellers are one number (adults + children). Prices,
names, agents and audit columns are left out. One clock stands for the database
and the API hosts. A booking's id is reserved when its request starts, only
because the ids of an instance are few. A slot's capacity is a constant: no code
updates it. The second term of `v_slot_remaining` counts locks without a booking; every lock is
inserted with a booking id (`lockSlotCapacity`'s branch for one without is never
taken by its callers, and `cleanupOrphanLocks` finds nothing), so it is zero.
Any booking made in the app may receive a paid webhook or be found paid by the
reconciliation at any time: which payments exist is left to the Payments model.
`completed` and `refunded` are statuses no code writes.

### 2.2 `Payments`

**State.** The tables `payments`, `refunds`, `webhook_events` (`log`),
`agent_commissions` (`commission`), the status of the bookings, and which payments
a reconciliation has dealt with (`reconciled`); `call` is what each request, webhook
delivery and worker is in the middle of. Outside the repository, and modelled
from what the adapters ask and expect: `order` (PayPal orders and Wompi transactions),
`repaid` (the providers' refunds), `sent` (events the providers have to deliver) and
`capturing` (captures PayPal was asked for).

**Steps.** What a call has read is in its record, and the step that writes uses it:

* `createPayment` is a check, an insert, the call to the provider, and the
  statement that stores the order's id or marks the payment failed. The two
  transactions and the HTTP call between them are not atomic in the code either. With
  a used idempotency key `RetryPayment` goes straight to the provider again, for
  the payment the key is on.
* `processWebhook` is the look-up of the event (`Deliver`), the insert that the
  unique index serializes together with the read of the payment (`Register`), and
  the writes up to the commit. `Apply`, `NoChange`, `Ignore`, `CaptureOnly` are its
  ends: the capture of an approved PayPal order is asked for inside the
  transaction, so it happens also when the transaction fails afterwards. Events stay in
  `sent`: they may be delivered late, repeatedly, in any order or never.
* `cancelBooking` reads the booking and its latest payment (`CancelBooking`), refunds
  a paid payment or cancels an open one, and closes the booking. `cancelPayment`
  reads the payment again, asks PayPal to void the order, and overwrites the status.
* `createRefund` is the check, the provider's part and the record: the row is
  inserted before the call to the provider, but in the transaction that ends after
  it, so others see it only then. A refund webhook may come before that.
* The reconciliation reads the payment (`SelectPayment`), asks (`Inquire`), and corrects
  (`Correct`) by the status it read before asking. What it is told is `getPaymentStatus` of
  each adapter: `PayPalStatus` is the order's status, and a completed order says nothing of its
  capture, which may be held (`HoldCapture`), declined or done; `WompiStatus` is the transaction's, "expired" when
  it was voided by a refund (`Reverse`).
* `Abort` is an error or a crash between any two steps.

**Abstractions.** Every payment is of the same amount (`Price` cents; the instances
use 1, the theorems any). A day's payments are corrected one at a time, although they
share a transaction. `cancelBooking` may only refund within 48 hours of the payment: that the
window is over is one of the refusals that may come at any time (`RefundFails`). A retry names the same provider as the first request. Wompi's
`PENDING` events change nothing and are left out. The inventory lock of a booking
confirmed by a payment is in `Bookings`, as is the rest of a booking's life:
`BookingMoves` is what `BookingLife` lets the core do alone: a booking enters, is
changed, decided or expired, the last whatever it has become. `patch :bookingId/cancel` never
looks at the payment and is part of it. `CloseBooking` and `ConfirmBooking` are this module's own.

### 2.3 `Notifications`

**State.** In the broker, `queue` holds the messages of the three priority queues and
of the two queues nobody consumes (`scheduled`, `retry`), in order; `queued` says
which jobs were given to it. `hand` is the message each consumer is processing and
how far it is; `logging` the log entries on their way, `emailLog` the `email_logs`
table. `mailed` and `failed` count what the mail server accepted and what `sendEmail`
reported as failed: history variables, for the properties.

**Steps.** `QueueImmediate` and `QueueScheduled` publish a job. `Deliver`, `SendEmail`,
`AckSent`, `AfterFailure` and `AckRequeued` are what `processEmailJob` does between
its awaits and sends, so a worker may crash (`Crash`) between any two of them: the broker then
puts what was not acknowledged back at the head of its queue. `SendEmail` includes an
e-mail that the server accepted although `sendEmail` failed. The log is written after
the acknowledgement, when the next message is already there, so `LogEmailSent` is a step of its own;
its error is only logged. `Expire` is the end of a delay.

**The broker** is outside the repository and modelled from how both programs declare
it: `sendToQueue` publishes with the queue's name as the routing key; a
message that expires or is rejected goes to the queue's dead-letter exchange and keeps its
routing key unless the queue names another; a topic exchange drops what
no binding wants. Priority queues name `notifications.dlx`, where every key leads to
the retry queue; `scheduled` and `retry` name `notifications`, which is bound with
`email.high`, `email.medium` and `email.low` only.

**Abstractions.** A delay may end at any time, but only the first message of a queue
can expire, as in RabbitMQ. A publication that does not reach the broker is a job that was not queued
(the caller sees `false`). Malformed messages and `requeueFailedJob`, which nothing
calls, are left out. `AfterFailure` has the branch of the last attempt, which no
run reaches while `MaxAttempts` exceeds 1, because no e-mail is tried again (see the findings).

### 2.4 `Sessions`

**State.** `account` is `users` (address, Firebase uid, active), `token` is
`refresh_tokens` (`live`, `expired`, or revoked: `rotated` by a refresh, `closed` by
anything else), `code` is `password_reset_tokens`, `call` what each request is in
the middle of. History: a token's `parent` (the one it replaces), `handed` (the
client has it), `barred` (its user was inactive when its call began) and `survivor`
(it was usable when a reset of its user ended); `barred` in a call.

**Steps.** Nothing in `AuthService` opens a transaction, so each statement is a
step. `register`: look-up (`Register`), insert (`InsertUser`), store the token.
`loginWithGoogle`: look-up by uid, by address (`FindByEmail`), then `Link` or
`InsertUser`. `refresh`: the user (`Refresh`), the token (`FindToken`), the new token
(`StoreRefreshToken`), the old one revoked (`Rotate`). `resetPassword`: the code, the
password, the mark, and last `CloseAll`. A change of address is `UpdateProfile` and
`SetEmail`. The unique indexes of `users` (`Refused`) end a call with an error.
`Crash` ends a call anywhere.

**Abstractions.** Passwords are right, and a token's signature is good; a token
expires at any time. Firebase's own state is outside: an identity is one address.
`changePassword` has no route, `updateFirebaseInfo` no caller. Observed on the way:
an account keeps its old `firebase_uid` after a change of address, and reset codes
are never purged.

### 2.5 `Availability`

**State.** `slot` is `availability_slots`, `booking` the bookings as their slot sees
them (their status, and `lost` when deleted with the slot), `call` a creation or deletion under way, with how far
a bulk creation got (`block`, `item`) and what it counted. History: `missed` (slots
inserted after a call had looked), `raced` (put on the slot, by a creation or an update, while it was being deleted),
`mine` (the slots a bulk call made), `used` (ids given).

**Steps.** `createSlot` is `CreateSlot` (the validation), `CheckOverlap` and
`InsertSlot`; `bulkCreateSlots` and `bulkCreateMultiBlock` are `BulkCreate` and, for
every block, date and time, `NextTurn`, `FindExistingSlot`, and the same two statements.
Each of the three may fail (`SlotFails`), and the insert may be done and its answer lost: a single
creation ends with the error, a bulk creation counts it and goes on.
`deleteSlot` counts (`DeleteSlot`) and deletes (`DeleteRow`, with the cascade). Bookings come
(`Book`), move to another slot (`Rebook`) and change their status (`Become`) as `BookingLife`
lets them; the foreign key wants the slot to be there. `Overlaps` is the
SQL predicate with its three cases as it is written. `DateOf`, `ConfigOf` and `Applies` are the
arithmetic of the nested loops.

**Abstractions.** Time is in hours from a first day; prices and commissions of a slot
are left out, and so is `getAvailability`, which only reads: a client may ask for any slot that is
there, and whether it has room is `Bookings`' matter. Observed: a bulk creation leaves out the agent's commission, and a
capacity of 0 becomes 10.

### 2.6 `Coupons`

**State.** `coupon` is `user_coupons`, `code` `referral_codes`, `booking` the status, the place
and the amounts of one buyer's bookings, `applied` the rows of `booking_coupons`, `vips` how many
rows `vip_subscriptions` has, `call` a pricing, a creation with a code, a confirmation or an
activation. History: `quote` (the place a booking's amounts are those of), `priced` (the coupons
they were computed with), `paid` (a payment confirmed it), `undone` (a confirmation was rolled
back), `raced` (two calls worked on a booking at once), `overtaken` (a booking was last changed
while a call worked on it).

**Steps.** `applyCouponsToBooking` reads the booking (`Apply`) and the membership (`CheckVip`),
then validates the code and the coupons one by one (`Price`), deletes the old coupon rows
(`Clear`), writes the amounts (`Charge`), and records each offer (`Record`, `CountUse`). The
webhook's part is `ConfirmBooking`, `ReadCoupons`, `MarkUsed` (which commits by itself) and
`Commit`; a crash before it rolls the booking back and not the mark. `activateVipCoupon` reads
(`ActivateVip`), inserts and marks. The bookings are made (`MakeBooking`; with a code,
`BookWithCode` and `InsertBooking`, which counts the code's use in the booking's transaction),
moved with new amounts (`UpdateBooking`) and ended (`DecideBooking`, `ExpireBookings`,
`CancelBooking`) as `BookingLife` lets them, but for rows a confirmation holds locked.

`validateUserCoupon` does not look at the type of a coupon, so a VIP coupon (`VipCoupons`) may be
named as an ordinary one, and used up that way as well as by the membership it makes
(`SpendVipCoupon`).

**Abstractions.** One buyer; every membership is the same offer `Vip`. A place has its own fee,
net and guests. `fresh` says of an offer that it is active and not expired: any answer at any
time, which takes in `toggleReferralCode` and the passing of time; so does the choice in
`CheckVip` for a membership. Taxes are nothing. Restrictions of codes are in the place of
the minimum. Only reports read `booking_referral_codes`. `markCouponsAsUsed` and
`incrementCodeUsage` have no caller.

Observed: a code's use is counted again by every attempt to pay; `createPayment` applies coupons
before it looks at the idempotency key; a coupon named twice is discounted twice; two
activations of VIP coupons at once may both find no membership. `updatePendingBooking`
writes undiscounted amounts and leaves the rows of the coupons, which the confirmation then
uses up (so `UsedWasPriced` speaks of the last *charge*, not of the amounts); a payment that was
being priced while the booking was moved writes the old place's amounts over the new one's
(`overtaken`); and the update's `total_cents` includes the tax, which the creation's does not.

### 2.7 `Catalogue`

**State.** `row` is `resorts` and `experiences` (status, and an experience's resort),
`review` and `rating` are `reviews` and `experiences.rating_count`, `call` a request between
its read and its write. History: `submitted`, `decided`, `edits`, `overlapped`.

**Steps.** Requests that read the row, look at its status and then write by id are
two steps (`UpdateResort`/`ResortUpdated`, `Submit`/`Submitted`, `Decide`/`Decided`,
`UpdateExperience`/`ExperienceUpdated`, `WithdrawExperience`/`ExperienceWithdrawn` (`remove`),
`RemoveResort`/`ResortRemoved`); others are one. `found` in a call is the status it read, kept
for the properties.
`Found` is `ExperiencesService.findOne`, which only finds active experiences; `update`, `remove`
and `submitForReview` go through it. A review is the check, the insert, at which the trigger
counts, and the commit: the row lock on the experience is only taken by the trigger's `UPDATE`.

**Abstractions.** What the rows say is left out, and so are `audit_logs`. Observed:
`submitForReview` of experiences looks for a draft among the active ones and can never succeed;
experiences are put under review by their creation or by an update.

### 2.8 `Documents`

**State.** `profile` and who names it (`resort`, `agreement`), `doc` (documents of profiles
and images of experiences, with their file and review), `file` (S3). History:
`read` (the file the approving reviewer had seen), `swapped` (replaced while a verdict was being
written), `cut` (a deletion stopped half-way), `doubled` (two documents of one type), `astray`
(agents for whom two profiles were made), `loose` (files a client took by name).

**Steps.** Each statement and each call to S3 is a step: `Upload` stores the file, then
`FindDocument`, then `ReplaceDocument` or `InsertDocument`; `DeleteDocument` reads the row,
`DeleteFile` deletes the file or fails, `DeleteRow` deletes the row; `Review` reads, `Reviewed` writes
by id. A new agent profile is made and then linked to the agreements without one (`LinkProfile`) or put
into the one that was read (`AssignProfile`). `CreateAgent` makes an agent's row of `resort_agents` with a
resort or with none; those an instance starts with have one.

Any client may put a file into the store under a name of its own, over what is there (`DirectUpload`), delete any file by
its name (`DeleteByName`) and register any URL as a resort's document (`RegisterDocument`), that of another
row's file or of none. None of the three looks at the rows. A file is `loose` from then on,
unless nothing named it and it was there (`Took`).

**Abstractions.** One type of document. A rejected document is an uploaded one here, since
only an approval says something of the file. The names the services give are unique (a UUID); a file a client has a
presigned URL for counts as stored, as nothing checks whether it came. Observed: an agent
without an agreement uploads into a profile nobody names; `createAgreement` sends its
notification before it inserts; `approveDocument` and `rejectDocument` of `AdminService` fail
after their `UPDATE` when the document is an agent's.

### 2.9 The properties

Besides one type invariant per module:

| property | what could break it |
|---|---|
| `CapacityRespected` | two transactions reading the view before either commits; an update that moves a booking; a view read at begin time; a confirmation of an expired booking |
| `ImplementsLedger` | any step that takes seats otherwise than one party at a time with room for it, or moves a party half |
| `LockFollowsBooking` | seven paths write the two tables with statements of their own, three from a stale read |
| `ImplementsLife` | a late write that brings a booking back to pending, moves it after it was settled, or decides it twice |
| `StaleBookingsSettle` | a backlog larger than the batch, two workers, a crash between the statements |
| `PaidWasCollected` | a reference that finds another payment, an answer of the provider applied late, an approval or a completed order taken for a payment, a retry that replaced the order |
| `PaidBookingLeftPending` | a payment marked paid by one of two writers while the other has already looked at the booking |
| `EventAppliedOnce` | two deliveries of one event pass the look-up |
| `RefundRowsAreBacked` | answers and webhooks of a refund that cross its transaction; a status of the provider stored as something else |
| `ClosedAfterRefund` | a refusal or a failure of the refund in the middle of `cancelBooking` |
| `ImmediateIsKept` | a crash between a delivery and its acknowledgement; a key that no queue is bound with |
| `MailedTwiceForAReason` | a retry copy put into its queue before the original is acknowledged; a message given back after it was sent |
| `LogIsBacked` | entries of one e-mail written late, in another order, by two workers |
| `ImmediateIsTried` | a consumer that crashes with the message, or a message that is in no consumed queue |
| `OneAccountPerPerson` | two log-ins of one person both find no account; a change of address in between |
| `RotatedHasSuccessor` | a refresh that stops between its statements; two refreshes of one token |
| `ResetEndsSessions` | a log-in or refresh while the reset's statements run |
| `NoSessionAfterDeactivation` | a way to a session that does not look at `is_active`, or looks before a step that waits |
| `OverlapsWereConcurrent` | an overlap the SQL predicate misses; a bulk creation that skips the check |
| `LostWasRaced` | a deletion that overlooks bookings of some status, or one that is moved to the slot |
| `BulkAddsUp` | a failed statement, a lost answer, a skip or a bad block that is counted twice or not at all |
| `ResortGetsItsNet` | discounts that add up to more than the commission; amounts computed from amounts already discounted, or written for a booking that was moved meanwhile |
| `LimitUpToCalls` | a code whose uses are counted without the check having passed |
| `UsedWasConfirmed` | a mark outside the transaction that confirms the booking; a booking confirmed without a payment; a VIP coupon spent twice |
| `UsedWasPriced` | rows of an earlier application that the confirmation uses up although the price was computed without them |
| `DecisionsPerSubmission` | decisions that overwrite each other, or decide what was never submitted |
| `EditsAfterApproval` | an update that had passed the check before the approval |
| `RatingIsCurrent` | a review the trigger does not count, a cascade |
| `DeadEnds` | a request that finds a draft after all; an update, a decision or a removal that read it before |
| `DocumentsReachable` | a profile made twice, or linked to no agreement |
| `RowsHaveFiles` | a deletion that stops half-way; a replacement that loses its file; a client that deletes or registers a file by name |
| `ApprovedAsRead` | a replacement that keeps the verdict; a verdict written by id after a replacement |

Several of these say how far a race can go rather than that there is none: the code
takes no lock there, and the exact bound (`LimitUpToCalls`, `DecisionsPerSubmission`,
`EditsAfterApproval`), or the exact circumstances (`missed`, `raced`, `swapped`, `loose`, a payment the reconciliation dealt with), is what it does keep.

### 2.10 The runs

| run | instance | result |
|---|---|---|
| `bookings_capacity` | 2 bookings of 1 or 2 travellers, 1 slot of 2 seats, 2 requests, 1 worker, 1 key, clock to 2 | 576,470 states; types, capacity, locks and both refinements hold |
| `bookings_liveness` | 1 request, 2 workers, batch of 1, fair, no symmetry | 355,915 states; every stale booking settles |
| `bookings_oversell` | one seat | violated, see the findings |
| `payments_safety` | 1 booking with a PayPal and a Wompi payment, 1 order, 1 refund, 1 key, 2 calls at a time | 1,627,648 states; everything above holds, and nothing deadlocks |
| `payments_charged` | 1 Wompi payment, one call at a time | violated |
| `notifications_safety` | 2 e-mails, 2 workers, 1 crash, 3 attempts, fair | 103,228 states; everything above holds |
| `notifications_retry` | 1 e-mail, 1 worker, no crash | violated |
| `sessions` | 2 people, 2 addresses, 2 refresh tokens, 1 reset code, 2 calls at a time | 1,013,178 states; everything above holds |
| `availability` | days of 2 hours, 2 slots, 1 booking, 2 calls, two bulk requests (one with a bad block) | 600,096 states; everything above holds |
| `coupons` | 1 booking, 2 places, 1 VIP coupon (which is named as an ordinary one, too), 1 exclusive code of limit 1, 2 calls | 2,114,305 states; everything above holds |
| `catalogue` | 1 resort, 1 experience, 2 reviews, 2 rounds of review, 2 requests | 456,434 states; everything above holds |
| `documents` | 1 resort, 1 agent, 1 experience, 2 profiles, 2 documents, 2 files, 1 of them lost, 2 requests | 850,830 states; everything above holds |

*Bounds.* Two bookings and two requests are what it takes for two parties to
compete for a slot, a row or a key; parties of two make a seat count differ from a
booking count, so that one booking may fit and the other not. A clock that reaches 2
with a time to live of 1 lets a booking expire (`expires_at < now` is strict), be found
by a sweep and be overwritten afterwards. A batch of one is smaller than the backlog of
two. `bookings_capacity` also has a constraint, `EarlyRequests`: check-ins and requests with an
idempotency key, these for one traveller, come before time passes; without it the run
takes a multiple of its time and finds nothing else. Deadlock is
not checked where the clock, the ids or the rounds are bounded and an instance runs
out of them (all but the two runs of `Payments`).

For payments, two calls are what it takes for a webhook to race with a cancellation, a
reconciliation, a refund, a retry or a second delivery of itself; two payments of one
booking, one of each provider, make "the latest payment", the two ways to find a
payment and the two kinds of refund differ. There is one order in the passing instance,
so a payment whose retry made a second order is covered by the theorems only.

For notifications, two e-mails in one queue, two workers consuming it and a crash of one
let the other take over, a redelivery overtake, and the log entries of one e-mail cross.

For the others, two calls at a time make every pair of requests interleave between any
two statements, and the rows are as many as a race needs: two people and two
addresses to collide on; two slots, to overlap and to move a booking between while one is being
deleted; two rounds of review so that a late decision may hit a later
submission; two documents of one profile. In `documents`, `MaxLost` bounds the deletions that stop
half-way and the files clients take by name, together: one is enough for a row without its file, and a
second only adds another row like it. An ordinary coupon does nothing that a VIP coupon does not
do as well, so one VIP coupon stands for both. A day of two hours and a week of two days
keep the nested loops of a bulk creation at a handful of turns, one of which does not apply.
In `coupons` the fixed discount for two guests exceeds the fee, the partner's code is
capped, and the membership is a percentage, so that each branch of `Discount` is taken; two places
are what it takes for amounts to be another place's. A request names a coupon once there (`MaxNamed`);
twice is covered by the theorem.

*Fairness.* `Bookings`' `FairSpec` assumes that a started request takes its next step
whenever that is repeatedly possible: PostgreSQL grants row locks in the order in
which they were asked for, so a waiter is not passed for ever. The worker's timer
fires every 30 s (weak fairness of the scan and of the second statement), its
`UPDATE` waits in the row-lock queue like a request (strong fairness), and time
passes. Nothing is assumed of users, webhooks or crashes: no fairness on starts,
confirmations, cancellations, `Abort` or `WorkerCrash`. `Payments` states no liveness:
events may be lost (the endpoint answers 200 also when processing failed) and the
reconciliation looks at one day only, so nothing promises that a payment settles.
`Notifications`' `FairSpec` assumes that each consumer goes on with its message or takes the
next one (a worker that crashed is started again) and that delays end, both by weak
fairness; nothing of crashes, of the mail server's answers, of new jobs or of the log.
The other modules are driven by users' requests alone, of which nothing is assumed.

*Findings.* Six places where a document says something else than the code does. Three have a
run that violates what the document says:

* `NoOversell`: a cancelled (or expired) booking keeps its slot; its seats are
  sold again; a late paid webhook or a confirmation of a stale booking then
  confirms it without looking at the capacity. The webhook also leaves `expires_at` as it
  was, and the capacity view counts a booking, a confirmed one too, only until that
  time: its seats are then sold again.
* `NotChargedAfterCancel`: `cancelPayment` never asks Wompi, and takes PayPal's "this
  order cannot be voided" for success. The payer can pay after the booking was
  cancelled, although the document says the user is not charged later.
* `FailedIsRetried`: a failed e-mail is put into the retry queue with that queue's name
  as its routing key, keeps it when the delay is over, and is dropped by an exchange with no
  binding for it. No e-mail is ever tried a second time. A scheduled e-mail
  meets the same end without having been tried once.

Three more are in runs that pass, because their property states what the code does keep:

* `PaidWasCollected` excepts a PayPal payment that the reconciliation has dealt with. `getPaymentStatus`
  takes the order's `COMPLETED` for "paid", whatever became of the capture, which
  may be pending or declined, and the payment's day is not looked at again. `docs/PAYPAL_PAYMENT_GUIDE.md:474` wants a
  failed capture to fail the payment.
* `ClosedAfterRefund` says the opposite of `docs/REFUND_IMPLEMENTATION.md` (83-87, 489-491, 509, 519),
  which cancels the booking even if the refund fails. In the code the error ends `cancelBooking`, and the
  row that says `failed` is rolled back with it.
* `OverlapsWereConcurrent` excepts creations that ran at the same time. `AVAILABILITY_SYSTEM.md:79-82`
  describes a constraint (`EXCLUDE USING gist`) that would rule them out, too; the schema has none.

The models show other things a reader of the documents would not expect. They are in
the actions and have no run of their own: the sweep holds no lock on the rows it picked and does
not check their status again, so a booking confirmed in between is expired
(`ExpireApply`; `BOOKING_PENDING_SYSTEM.md:237`); a retry with the same idempotency key makes
a new order at PayPal, whose request id contains the time, and both can be paid
(`RetryPayment`; `PAYMENT_SYSTEM.md:16`); bookings may be deleted
with their slot, a rating may be off by one, a code used beyond its limit, and a document's file
deleted by anyone who knows its name, each under the circumstances its property names.

## 3. The proofs

TLAPS proves, for every set of bookings (finite), slots, requests, workers and
keys and every capacity, party size, time to live and batch size:

* `BookingsProofs!TypeCorrect`: `Spec => []TypeOK`. Type correctness alone is
  not inductive: a commit writes the slot and the party that its request came with, so
  the proof carries `RequestsTyped` (a request that is not idle names a booking, a
  capturing one a slot and a party).
* `BookingsProofs!LockTheorem`, `Spec => []LockFollowsBooking`, and `SettledTheorem`,
  `Spec => SettledKeepsItsSeats` (no settled booking becomes pending or moves; the refinement
  below says more), from `LockInvariant`. A row and its lock agree (`RowAgrees`);
  a request's row is as it needs it: not there yet for a creation, still pending
  under the row lock for an update (`RequestsFitRows`); and a sweep between its two statements has left
  none of its rows pending (`SweepsFitRows`), so that a lock is released only for a booking that settled.
* `BookingsProofs!CapacityInductive`: `Spec => []CapacityInvariant`, and from it
  `BookingsProofs!CapacityTheorem`: `Spec => []CapacityRespected`. The argument is
  the one `CapacityInvariant` names: a request that found room holds its slot's
  row lock (`HoldersExclusive`), and while it holds it the seats that passed a check
  plus its own party fit the slot (`HoldersHaveRoom`). It rests on three lemmas
  about the sets of seats: a step in which no booking starts to be counted
  unchecked takes nothing (`NothingTaken`), a commit takes the seats of one party
  in one slot (`OneTakes`), and the view as of the transaction's beginning counts at
  least the bookings counted when it locks the slot, since time only makes bookings
  drop out (`ActiveShrinks`). Every action except the three commits is shown to
  take nothing (`BookingStepTakesNothing`, `WorkerStepTakesNothing`,
  `RequestStepKeepsRoom`); that includes the sweep, which only ever takes a booking
  out of the view, and the webhooks, whose late confirmations go to `revived`.

* `BookingsProofs!LedgerTheorem`: `Spec => ImplementsLedger`, that is, every behaviour of the
  booking core is one of `SeatLedger` under the mapping `Party` (a booking sits in its slot
  while it is counted and was checked). A commit maps to `Take`, with the room
  that `CapacityInvariant` guarantees; every other step to `GiveBack` of the bookings that are
  counted no more, or to a stutter.
* `BookingsProofs!LifeTheorem`: `Spec => ImplementsLife`, that is, every behaviour of the booking core
  is one of `BookingLife` under the mapping `Place`. The commit of a request maps to `Enter` or `Change`,
  and that a change finds the booking pending is `RequestsFitRows`: it was read so under the row lock,
  which the request still holds. A cancellation that writes long after its read maps to
  `Cancel`, the sweep to `Expire` of its whole batch, both of which ask nothing of the status; reads,
  locks and check-ins to stutters.

* `PaymentsProofs!TypeCorrect`, for every number of bookings, payments, orders, refunds
  and calls and every price: `Spec => []TypeOK`. What a call carries depends on
  its step (`CarriesItsIds`), which is what makes types inductive.
* `PaymentsProofs!PaidTheorem` and `PaidBookingTheorem`: `Spec => []PaidWasCollected`
  and `Spec => []PaidBookingLeftPending`, from `MoneyInductive`. Neither is inductive: a
  row becomes paid by what a call knew some steps ago. `MoneyInvariant` says what each
  of the three keeps: a row that names an order names one of its own, and is paid only
  if one was captured (or, of PayPal and after the reconciliation, completed) and the booking left
  pending (`RowsHold`); an event of a capture
  is sent after the capture (`EventsHold`); and what a call read is still so when it
  writes (`Knows`: the event it applies was sent, the payment it found is the order's,
  the provider said "paid" of an order that Wompi captured or PayPal completed). The argument for the last is
  that nothing takes these facts back (`Grows`), so a call that waits goes on knowing
  them (`KnowsStays`), and that every row only advances (`RowAdvances`). Each action
  is shown to grow, to advance the rows it writes, and to leave its own call
  with what it should know (`Keeps`). Late webhooks, duplicates, retries and aborts
  need no cases of their own: they are the same actions.
* `PaymentsProofs!EventTheorem`: `Spec => []EventAppliedOnce`, which is inductive with the types:
  the log's unique index lets one delivery in, whatever the look-up before it saw.
* `PaymentsProofs!BackedTheorem` and `ClosedTheorem`: `Spec => []RefundRowsAreBacked` and
  `Spec => []ClosedAfterRefund`, from `RefundInductive`. `RefundInvariant` says that an event of a
  refund is sent after it was completed and a captured payment names an order of its own
  (`RefundTables`), that what a call knows of its refund is so (`RefundCalls`), and that no two
  calls work on one refund (`Apart`), so that nobody else changes the row while the
  provider answers.

* `PaymentsProofs!HappensTheorem` and `LifeTheorem`: what happens to a booking there is a move of the
  core, a settled cancellation or a payment's confirmation of a booking that was made, and so
  `Spec => Life!Spec`. It needs that the payments there are, and the calls that work on one, are of
  bookings that exist (`Made`), on top of `MoneyInvariant`.

* `NotificationsProofs!TypeCorrect` and `KeptTheorem`, for any number of e-mails,
  workers, attempts and crashes: `Spec => []TypeOK` and `Spec => []ImmediateIsKept`. The
  induction needs one thing more, `HandTried`: a consumer that is past `sendEmail`
  has counted its e-mail as mailed or failed, so that giving it up then loses
  nothing untried. A step is safe when every e-mail that was safe before it is
  afterwards (`SafeNow`, `SafeAfter`); the rest is what the queues' operations do to
  the set of messages a queue holds (`WithMessage`, `MovedMessage`,
  `GivenBackMessages`).
* `NotificationsProofs!LogTheorem`: `Spec => []LogIsBacked`. An entry is right when it is made
  (`EntryHonest`), and the counters it is about only grow, so it does not matter how
  late it is written or in what order; messages and hands count no more attempts than there were
  failures (`LogInvariant`).
* `NotificationsProofs!OnceTheorem`: `Spec => []MailedTwiceForAReason`. The counting alone is not
  inductive; `OnceInvariant` adds why nobody mails an e-mail again without a reason: at
  most one message of it can still reach a worker (`Unique`; the copies in the retry queue
  have a key that nothing is bound to), none while a worker has it (`HandOnce`), and no two workers have
  it (`HandsApart`). Such a message has a crash or a failure for every time its e-mail was mailed
  (`LiveMailed`); only the hand of a worker that just heard "sent" has one time more, and it gives
  the message up, unless the worker crashes, which is a reason. How a message is appended, taken
  and given back are three lemmas about any queues (`AppendedOnce`, `TakenOnce`, `GivenBackOnce`).

* `SessionsProofs`, for any number of users, tokens, codes and calls: `TypeCorrect`,
  `AccountsTheorem`, `RotationTheorem`, `ResetTheorem`, `DeactivationTheorem`, that is, every invariant of
  the run. What a call has read is still so when it writes because rows never go
  (`Grows`): tokens keep their user and parent, the inactive stay inactive. `Fits` says what
  each step may rely on.

* `AvailabilityProofs`, for any calendar, capacities, bulk requests and calls: `TypeCorrect`,
  `LostTheorem`, `OverlapTheorem` and `BulkTheorem`, every invariant of the run, and `LifeTheorem`. `Fits` bounds how far a call's loops have got, so that the
  date and the time of a turn exist. `OnlyRaced` says that a slot whose deletion is under way
  has only bookings put on it since it was found to have none, however their status changes; `Missed`, that a call about to
  insert has missed every slot in its way, because the check finds every interval that meets
  its own (`OverlapsFindsAll`, over all integers) and everything inserted since is recorded.
  `AddInv` counts: each turn of the loops adds one to the times that apply exactly when it
  adds one to a counter, a created slot is a new one, and one that was made without a word of it is
  counted as an error.

* `CouponsProofs`, for any number of coupons, codes, bookings and calls and any terms: `TypeCorrect`,
  `NetTheorem`, `UsedTheorem`, `LimitTheorem` and `PricedTheorem`, again every invariant of the run, and
  `LifeTheorem`. `NetInv` adds to the amounts that a call which has read a booking's place and not yet written
  has its current place, or the booking is marked `overtaken` (`Current`).
  The limit needs counting: `LimitInv` adds the calls that have passed the check and not yet
  counted (`Owing`) to a code's count. `PricedInv` says of each booking that is neither raced nor undone
  (`Good`) that what its rows and its calls may still use up is in its price, and that a booking which has
  used a coupon up will not be priced again (`Spent`): it is settled (`Over`), which `BookingLife` never
  takes back, and no call that began to price it before is left. That a VIP coupon may be spent by a
  membership changes none of it: `SpendVipCoupon` leaves `by` alone, which is what these invariants are about.

* `CatalogueProofs`, for any number of resorts, experiences, reviews and requests: `TypeCorrect`, `DecisionTheorem`,
  `EditsTheorem`, `RatingTheorem` and `DeadEndsTheorem` (an action property). The two bounds
  count what requests under way may still write (`Decidable`, `Edited`); a rating is right when the count a
  request carries is that of the rows and its own (`Rated`).

* `DocumentsProofs`, for any number of parties, profiles, documents, files and requests: `TypeCorrect`,
  `ReadTheorem`, `FilesTheorem` and `ReachableTheorem`, every invariant of the run. `ReadInvariant`: a
  reviewer still has the file of the row, or the row is marked as replaced. `FileInvariant`: the
  file of an upload is nobody else's until its row is written (`NewFiles`), two rows with one file are
  marked or their file is loose (`SharedFiles`), so a deletion takes no file of another row
  that is not (`OwnDeletes`).
  `PartyInvariant`: a request that makes a profile has made it for the party that is going to name
  it (`NamesOwn`), which names none yet, or two requests raced and left a mark (`NewResorts`,
  `NewAgents`, `Racing`, `Assigning`, `Linking`).

Assumed of the constants: the named assumptions of each module, that is, finitely many
bookings, refunds or calls where sets of them are counted, natural numbers where the
schema has them, ids and rows that are distinct from NULL. TLC evaluates them in every run.

Only model-checked: the two liveness properties, `StaleBookingsSettle` and `ImmediateIsTried`
(fairness and ENABLED are outside what the prover handles). Every invariant and action
property of the passing runs, and both refinements, are proved.

## 4. The plan

Modelled, in this order: `Bookings`, `Payments`, `Notifications`, `Sessions`, `Availability`, `Coupons`,
`Catalogue`, `Documents`, `SeatLedger` and `BookingLife` with their refinements; each with its runs and its
proofs.

Next: properties for the hazards that have none (section 5), the day's transaction around the
reconciliation, and abstract specifications of the other components: what an account's sessions
promise (`Sessions`), and what a job given to the queues promises (`Notifications`).

## 5. Not modelled

* Reads (lists, searches, reports, partner views, statistics, PDF) and CRUD of single rows
  (preferences, favorites, categories): they keep no state that two actors race for.
* E-mail templates, the payloads that `NotificationService` and its listener put
  together, provider payloads and signatures, configuration, guards and validation: they
  format or check, and decide nothing the properties tell apart.
* Exchange rates and price conversion: floating-point arithmetic, which TLA+'s tools have
  not, over a table with one writer.
* The webhook-event worker: nothing publishes to its exchange.
* The approval of agreements between agents and resorts, restrictions and variants of referral
  codes, `audit_logs`: columns that no other modelled operation reads.
* Methods without a route or a caller: `cancelConfirmedBooking`, `changePassword`, `markCouponsAsUsed`,
  `incrementCodeUsage`, `updateFirebaseInfo`, `requeueFailedJob`.
* The connection pool: a transaction that asks for a second connection can wait
  for one that waits in the same way; no document names its size or what should
  happen. Deadlock of row locks is not checked in `Bookings`: its transactions take the
  booking row before the slot row in every path that takes both.
* Hazards that are in the models, or would be, without a property: a check-in of a booking
  that was cancelled in between (`CheckInWrite` writes whatever the status is); two refunds of
  one payment that both reach the provider, and what became of the second; an error inside the
  reconciliation's loop, which aborts the whole day; two requests with one key (the unique
  index decides, `RejectKey`).
