# LeonAid: TLA+ models of the durable core

LeonAid is a Python application (FastAPI, PostgreSQL through asyncpg, background
workers, object storage, SMTP) with which clubs run fund-raising sales: orders are
captured and booked into delivery windows, delivered, invoiced, mailed, paid, reversed
and cancelled. Several API processes and several worker processes share one
PostgreSQL database; there is no other coordination. What can go wrong is what happens
between their transactions.

This directory holds TLA+ models of the parts where that matters most, TLC runs that
check them on small instances, and TLAPS proofs of the central properties for every
instance. Paths below are relative to `src/src/leonaid/` of the repository unless they
start with `src/`. `PROJECT.json` maps every definition to the lines it models.

## Contents

| Module | What it is | About |
|---|---|---|
| `JobQueue` | abstract specification | what a durable job queue promises |
| `Outbox` | detailed specification | `outbox_event` table, workers, leases, retries, retention |
| `OutboxProofs` | proofs | types, lease protection, retry budget, refinement of `JobQueue`; mail and contact jobs use the queue; completed means mailed, the invoice shows what is on record, when mail is sent twice; one create request, final decisions, job, case, person and consent agree |
| `MailDelivery` | composition, EXTENDS `Outbox` | invoice mail and plain mail handlers over the queue, and the invoice status |
| `InvoiceAccount` | abstract specification | the books of one invoice as atomic commands |
| `Settlement` | detailed specification | the same as concurrent SERIALIZABLE transactions with retries and idempotency keys |
| `SettlementProofs` | proofs | types, derived status, stale forms, exactly once, refinement of `InvoiceAccount` |
| `DeliveryBoard` | composition | delivery board, order cancellation and follow-up tasks on one window |
| `DeliveryBoardProofs` | proofs | types, revisions, closure marks, follow-up tasks, missed drops, cancelled orders |
| `Orders` | composition | orders of one action from capture to invoice or cancellation, against schedule, law and board |
| `OrdersProofs` | proofs | types, order and invoice, gapless numbers, ticks against cancellations, repeated cancellations, bookings, terms of invoices |
| `OrderLocks` | specification of locks | the row and advisory locks of all commands on orders, deliveries, invoices and follow-up tasks |
| `OrderLocksProofs` | proofs | types, no command in the documented order is part of a cycle of waiting, closures take their tasks |
| `Identity` | composition | accounts, system admins, leads of actions, and invitations, under the administrators' lock |
| `IdentityProofs` | proofs | types, an admin and a lead remain, applied once, statuses as seen, changes by managers only |
| `Sessions` | composition | login challenges, sessions, changes of the login address and suspensions, lock by lock |
| `SessionsProofs` | proofs | types, sound sessions, dead addresses, limited guesses, challenges that work once, suspensions that never deadlock |
| `ContactLink` | composition, EXTENDS `Outbox` | inbox cases, their contact jobs, the CRM, manual confirmation, consent, its revocation and erasure |
| `SurveyErasure` | composition | permanent erasure of surveys, its archive, exports, backup and restore |
| `SurveyErasureProofs` | proofs | confirmed erasures stand, erased stays erased, files match rows |
| `MC*` | TLC instances | constants, symmetry |

Run a model with `tlc -config MCOutbox.cfg MCOutbox`; check the proofs with
`tlapm OutboxProofs.tla`, and likewise for the other `*Proofs` modules.

## Inventory

| Component | State | Operations | Interacts with | What is hard | What makes it correct | Where |
|---|---|---|---|---|---|---|
| Durable outbox (`adapters/postgres/outbox.py`, `application/outbox.py`, `domain/outbox.py`) | `outbox_event` rows; the claim in a worker's memory | insert with the business transaction, claim, complete, fail, manual retry, resolve, purge | every module that sends mail, renders, exports or deletes | crashes, expired leases, late outcomes, retry arithmetic | one owner while a lease runs; only the owner decides; every job comes to rest | `Outbox` |
| Mail delivery (`adapters/postgres/invoice_deliveries.py`, `adapters/mail/`) | `mail_delivery`, `invoice_delivery`, the SMTP server | request, was_sent, send, mark_sent, retry | outbox, settlement | at-least-once sending, the gap between SMTP and database | completed means mailed; the invoice shows what is on record | `MailDelivery` |
| Invoice settlement (`adapters/postgres/invoice_settlements.py`, `domain/`, `application/`) | `invoice.status`, `payment_record`, `payment_reversal`, `invoice_cancellation`, `command_receipt` | record, reverse, cancel | mail delivery, order cancellation | stale snapshots, serialization failures, repeated keys | derived status, exactly once, stale forms refused | `Settlement` |
| Delivery board (`adapters/postgres/delivery_board.py`) | `commitment_delivery`, `delivery_window_closure` | tick, undo, assign, close, reopen | orders, follow-up tasks | readings that predate the lock, old screens | closure marks, revisions and tasks agree | `DeliveryBoard` |
| Follow-up tasks (`modules/tasks/delivery_follow_up.py`) | `task_delivery_follow_up`, `task` | sync | board, cancellation, tasks module | tasks changed by hand | an open task exactly for a missed drop | `DeliveryBoard` |
| Order cancellation (`adapters/postgres/order_cancellation.py`) | `commitment.status`, the invoice it cancels along | cancel, preview | invoicing, settlement, board, acquisition | nine lock levels, targets that change before the lock | all or nothing; never a delivered order | `Orders`, `DeliveryBoard` |
| Invoicing (`adapters/postgres/invoices.py`) | `invoice`, number sequences | issue | orders, legal configuration, outbox | gapless numbers under retries, stale profile and order rows | unique, gapless, one per order, on the terms in force | `Orders` |
| Orders and bookings (`commitments.py`, `public_orders.py`, `delivery_completion.py`, `delivery.py`) | `commitment`, drafts, windows and their switches | capture, complete, correct, save schedule, switch "ausgebucht" | board, invoicing | stale snapshots against switches; completion racing issuing | switches bind, booked times stay, order and invoice agree | `Orders` |
| Documents and object storage (`documents.py`, `storage/s3.py`) | `document` rows, objects | render, upload, adopt | outbox | database and storage cannot commit together | a row never names a missing object | planned |
| Retries and lock order (`adapters/postgres/retry.py`) | none; it names the order of the row and advisory locks | begin again after a serialization failure or a deadlock | every command on windows, orders, invoices and tasks | one command out of order is a deadlock | commands of orders go through at once | `OrderLocks`, `Settlement`, `Orders` |
| Sessions (`adapters/postgres/sessions.py`, `email_changes.py`) | `login_challenge`, `user_session`, `email_change_request` | request a code, log in, confirm again, log out, revoke, change the address | identity, outbox | opposite lock orders, attempts counted concurrently, times read before the lock | one use, at most the allowed attempts, no session of a suspended account or for an old address | `Sessions` |
| Identity (`adapters/postgres/identity.py`, `invitations.py`) | `user_account`, `user_global_role`, `action_membership`, `action_invitation`, `command_receipt` | suspend, grant and take roles, replace leads, create an action, invite, correct, accept, revoke | sessions, actions | two administrators acting at once, authority lost while waiting, repeated requests | an admin and a lead remain; only who still manages changes; applied once | `Identity` |
| Inbox (`modules/inbox/`) with the CRM gateway (`adapters/twenty/gateway.py`) and the erasure (`modules/inbox/privacy.py`) | `inbox_case`, `consent_record`, the person in the CRM | submit, contact job, confirm by hand, retry, revoke a consent, erase | outbox, CRM | a create request whose answer is lost, a lost claim, an erasure during the job | no second person, decisions and revocations stand, consent in force only for linked, unerased cases | `ContactLink` |
| Surveys (`modules/surveys/`, `src/tools/surveys/recovery.py`, `src/tools/backup/`) | `survey`, `survey_deletion`, `survey_export_job`, objects, the erasure archive outside the database | design, trash, erase, export, retention, back up, restore | outbox, object storage, archive | three stores that commit apart; a backup from before an erasure | a confirmed erasure stands, erased stays erased, no file is left | `SurveyErasure` |
| Tasks, materials, knowledge modules | their tables and jobs | edits, jobs, exports, deletion | outbox, storage | jobs racing edits, cleanup | see plan | tasks partly; planned |
| Actions, acquisition, legal configuration, privacy | their tables | edits with optimistic versions | invoicing, orders, identity | version hand-over | see plan | transitions and activation in `Orders`, leads in `Identity`; planned |
| HTTP API, dashboard, search, activity feed | none of their own | routing, reads | all | none of its own | not modelled | no |

`PROJECT.json` lists the components with all sources, and under "hazards" what is hard to
test, at the line where it bites.

## How the models correspond to the code

### Outbox

`row` is the table, one record per job; `worker` is what a process holds between
`claim_next` and `complete`/`fail`. Each SQL statement is an action: `ClaimNext` is
`UPDATE ... FROM candidate ... FOR UPDATE SKIP LOCKED`, `Complete` and `Fail` are the
fenced updates, which change nothing when the claim is lost (`OutboxClaimLost`). A
handler ends by returning, raising, raising something not retryable, or timing out;
`Crash` is a killed process as well as a database error that reaches
`durable_worker_loop`: both lose the claim in memory and leave the row.

Time is relative: columns hold their distance from now and `Tick` moves them all. The
clock is unbounded in this form. The attempts counter saturates at `max_attempts`,
beyond which the code treats all values alike. A claim token is any unused one, as a
random UUID; the smallest unused stands for all, because tokens are only compared.

`Parked` jobs belong to disabled modules, `Unhandled` ones have no handler, `Timed` ones a
handler timeout, `Resolvable` ones may be completed by their module
(`complete_resolved_event`), `Referenced` ones are named by a table retention respects.

### MailDelivery

Extends `Outbox` with the steps inside a handler: `was_sent`, the SMTP transfer, `mark_sent`
are three transactions or none, so other workers run in between. The invoice is kept as its
status and whether its balance covers the total; payments and the cancellation are atomic
here because `Settlement` is shown to implement the atomic `InvoiceAccount`.
Plain mail (`SmtpMailHandler`) has the same three steps without an invoice.

ADR-0008 (`src/specs/leonaid-poc/decisions/ADR-0008-durable-invoice-delivery.md`) says that nothing is sent after a
confirmed success. `handle` asks `was_sent` once and then renders and sends, so a worker that overruns its lease in
between can send after another one has recorded the delivery. `ResendNeedsLostClaim` states what holds: this
is the only way. A record is `stray` when its writer had lost the claim.

### ContactLink

Extends `Outbox` with the contact job of every inbox case (a submission inserts the case and its job). `State` is the
transaction of `_state`: it locks the job row with the worker's claim, leaves a linked case alone and otherwise writes.
The look-up, the intention (`Intend`, `contact_started_at`), the request and the outcome are separate steps. The CRM
commits apart from the database: `CreatePerson` sends a request, `Execute` may carry it out at any later time or never,
`Refused` is an answer with a status from 400 to 499, and `RequestFails` any other failure, after which the
request may still be executed. `EraseSubject` is one step because `anonymize` locks the cases until the
consents are revoked and committed; `RevokeConsent` is the administrator's revocation of a single consent (`revoke_consent`
of `adapters/postgres/privacy.py`), at any time after it was recorded. `erased` in a request tells which data it carries.

Left out: `contact_revision` of the confirmation form (a stale form is only refused); a CRM that is not configured and
a snapshot that cannot be read end like a failed look-up and a mismatch; a status of 429 is retried inside the request;
the suppression entries a revocation writes, which concern acquisition and marketing mail.

### SurveyErasure

Three stores that commit apart: the database, the object storage and an archive of erasure requests in files outside both. `process` holds
whatever is under way, a request of a user, the sweep, a worker, a rendering, the operator's `recovery.py publish` and the restore
gate, as the step it has reached. A publication is the export of all requests (`Export`), the comparison with both
documents of the archive (`Extends`), `pending.json`, `current.json` and the removal of `pending.json`. It runs in a thread, so it goes on when
its transaction is gone (`Detach`); nobody hears of its success then. The operator's publication gives up the erasure lock before it
writes, and may run on a restored database. `Fail` ends any process between any two steps. `Restore` replaces database
and objects by the backup at any moment; `Reapply`, `EraseNext`, ... and `PassGate` are the gate before the application starts again, which may
itself die and be repeated. `backup.sh` stops all writers first, so a backup is consistent. `acked` and `gone` (history) are what users were told and
what was once erased.

Abstractions: the outbox delivers the event of an erasure any number of times (at least once, by `QueueSpec`; a completed erasure is left
alone). A survey has one export. The cutoff `exported_at` and the retained copies of documents make the archive refuse more,
and are left out. The sweep trashes and requests in one transaction; here these are two. The gate uses the archive's current document, and the
archive itself is not rolled back: `src/specs/surveyjs-surveys-spike/RECOVERY.md` keeps it apart from the backups and asks for a cutoff that is known independently. An interrupted
publication (`pending.json` is left) blocks the gate until another publication succeeds; if the source is lost, the system stays offline.

`put_object` runs in a thread too, and its request may be executed after the handler has timed out (`LateUpload`). An object that arrives
after the erasure (`stray`) is not found by anyone; `FilesMatchRows` states what holds otherwise.

### Settlement

One invoice, several API calls. A call is submitted with an idempotency key, perhaps the
key of an earlier call, and perhaps with the settlement version its form showed. `Begin` takes the
snapshot; in PostgreSQL that is the first statement, which is the one that waits for
the advisory lock, so a waiter works on rows from before the commit it waited for. `Enter`
is the grant of the lock and the insert of the receipt. From `SELECT ... FOR UPDATE` on the
invoice to the commit the row is held, so this part is one action: it requires the
row version of the snapshot (PostgreSQL fails a serializable transaction otherwise), writes the
status in any case, and stores the receipt. `FailsSerialization` may happen at any time, as the
predicate locks of PostgreSQL may fail any transaction. The mail worker's `mark_sent` is READ COMMITTED
and updates the invoice row without the advisory lock.

The total is assumed positive. The code admits an invoice over zero cents, which
is issued as `issued` and becomes `paid` at the first settlement; nothing here is said of it.

### DeliveryBoard

One delivery window. A board command locks the window row `FOR UPDATE`, so its body is one
step. But `_lock_window` reads the closure by a subquery of the locking statement; at READ COMMITTED that
subquery belongs to the snapshot from before the wait. `Send` and
`SendWindowCommand` therefore read the closure and `SetState`, `CloseWindow`, `ReopenWindow` use it later.
`View` is the page on which the user saw the drop's revision. The order cancellation reads
the closure in a statement of its own and is a single step; whether its invoice part refuses is left open, so
it may not happen. `EditTask` is any change made in the tasks module; the tasks
module is assumed enabled, otherwise the board writes no tasks.

### Orders

All orders of one action. A call stands for one API request: it is submitted (`Fill` or `Press`), takes a
snapshot (`Begin`), and commits or is rolled back and tried again (`Restart`, `Withdraw`). Capture, draft completion, delivery
completion and issuing are SERIALIZABLE: they decide by `snap`, and a row they lock must
still be the row of the snapshot, else PostgreSQL fails them. The row locks each command takes are named
(`ActionLocked`, `WindowsLocked`, `OrderLocked`, `ProfileLocked`, `LawLocked`), and the
mutants drop them one at a time. Rows are compared by contents, not by version, so the model lets more
transactions commit than the database. Nothing is assumed of PostgreSQL's predicate locks, which see
only SERIALIZABLE transactions and would miss the administrators' READ COMMITTED ones.

The cancellation is READ COMMITTED. It reads window and invoice without a lock (`ReadLockTargets`), locks them
and the order, and starts again if an invoice has appeared meanwhile (`LockTargetsChanged`). A tick holds the
window from `LockWindow` to `SetState`; the cancellation and the booking commands wait for it. What a tick may
do in a closed window is the subject of `DeliveryBoard`. Payments, reversals and invoice
cancellations are the atomic commands of `InvoiceAccount`.

`phase` joins draft and scheduled actions as `planned`. An order's invoice recipient is one of `Details`, relative to
the one the order was captured with; the delivery address travels with the window. The status `confirmed` is left
out, as no code writes it. Refusals whose data is left out (prices, capabilities, service
date, missing fields, a login that is not fresh) are `Withdraw`, which any call may take at any time.

### OrderLocks

The models above treat what happens under one lock as a step; here the locks themselves are the subject. A
command is the list of its statements that lock rows (`Statements`), each with the rows it locks in the order of their ids and
the mode, in the order of the code, the locks that foreign keys take included: an audit event locks its action `FOR KEY SHARE`, a new
`commitment_delivery` its order. The record of a call keeps the locks it has and, as its `plan`, those still to take, each with the number of
its statement. `TakeLock` takes the next one (`Upcoming`) when no other transaction holds the row in a
conflicting mode. `Look`, `LookAgain` and `Synced` are the loop of `_lock_current`: it reads the task, locks its lists
by id and the task, and reads again if the task changed, keeping the locks of the first look. The state besides
the locks is what decides which locks are taken, the list and the assignee of each follow-up task.
`RollBack` stands for refusals, serialization failures and the victim of a deadlock.

Left out are the lock on the idempotency key (first and alone), users' rows, the creation of a follow-up list and of a
first task (every order has had one), and orders that change their window between the reading and the lock (such a command ends).

### Identity

A command that can take access away is authorised by its session (`Send`), waits for the advisory lock
`identity.admin_access`, reads everything again under it (`Check`) and writes (`Commit`). Between `Check` and `Commit` no other such command runs, but
invitations are accepted and actions advance, which do not take that lock. `AnswerLost` is an answer that does not reach
the client, who sends the same command with the same key; `RollBack` a transaction that fails. An invitation is the last one of
an action to an address; `InviteReplace` is the correction of the address and `InviteCreate` also the resending.
Memberships without the guard of the coverage rules take the same path and are left out.

### Sessions

Every request is one READ COMMITTED transaction. `Plan` lists its statements in their order, `Needs` the rows a statement locks
and how strongly, and `Advance` takes them and decides by the rows as they are then, as PostgreSQL re-evaluates a locked row. The
write at the end is an action named after the function. Nothing here retries a deadlock, and some pairs do
deadlock: `complete_login` locks the challenge before the account, `create_challenge` the account before the challenge; a
logout holds its session while its audit event needs the account. `RollBack` is what the victim does.

`transition_account_status` is the exception that matters: it locks the account `FOR NO KEY UPDATE`, which does not conflict with the foreign
keys' locks, and reads the clock under the lock, so the constraint `ck_user_session_revocation` holds. The other
revocations use the time at which the request came in and may be refused by that constraint when a login
overtook them. Time is the number of requests sent. `proof` (history) is the address at which the holder of a session was last
reached and `guesses` the wrong codes that were recorded for a row.

## Runs

| Run | Instance | Distinct states | Shows |
|---|---|---|---|
| `outbox` | a mail, a job without handler, a job of a disabled module; 2 workers, 2 attempts, one crash, one manual retry | 0.1 million | `LeaseProtectsClaim`, `BudgetRespected`, `QueueSpec` (refinement of `JobQueue`), `EveryJobSettles` |
| `mail_delivery` | an invoice mail and a plain mail, 2 workers, crash, manual retry | 2.9 million | `CompletedMeansMailed`, `InvoiceShowsRecords`, `ResendNeedsLostClaim` |
| `settlement` | 4 calls, two of them with one key; 2 attempts; total 2 | 0.8 million | `DerivedStatus`, `ExactlyOnce`, `StaleFormRefused`, `AccountSpec` (refinement of `InvoiceAccount`) |
| `delivery_board` | one drop, two managers, one driver, two requests, 5 revisions | 2.4 million | `FollowUpMirrorsDrop`, `ClosureMarkSound`, `RevisionNamesState` |
| `orders` | two orders, one window, two calls, two configurations of the law, two changes | 0.9 million | `NumbersGapless`, `OrderAndInvoiceAgree`, `CancelledStaysUndelivered`, `TargetsChangeOnce`, `BookingRespectsSwitches`, `IssuedOnCurrentTerms` |
| `orders_blocked` | the same | stops | `PaymentBlockCanBeLifted` is violated, finding 2 |
| `board_closed` | the same with 3 revisions | stops | `ClosedWindowIsFinalForDrivers` is violated, finding 1 |
| `order_locks` | two orders, each alone in its window, two users; three commands at once | 1.4 million | `OrderCommandsGoThrough`, `ClosureTakesTasks` |
| `identity` | two persons, one action, two calls, two requests | 0.7 million | `SystemAdminRemains`, `OpenActionKeepsLead`, `AppliedOnce`, `ChangesByManagers`, `SeenIsWhatChanges` |
| `sessions` | two users, three addresses, two places for sessions, two requests | 0.8 million | `LiveSessionSound`, `OldAddressOpensNothing`, `GuessesLimited`, `SuspensionGoesThrough`, `ChallengeWorksOnce` |
| `survey_erasure` | two surveys, two processes at a time, 3 starts, one export | 1.9 million | `ConfirmedErasureStands`, `ErasedStaysErased`, `FilesMatchRows` |
| `contact_link` | one case, 2 workers, 2 attempts, crash, manual retry | 0.3 million | `ContactRecordsAgree`, `NoSecondCreate`, `DecisionsStand` |

Every property of a passing run has a mutant: an altered definition, kept in the module beside
the original, with which TLC finds the property violated.

Why the bounds are enough to meet the interesting cases:

- *Outbox.* Two workers on one job give every takeover, and the other jobs the choice between candidates. A
  token is in use by at most each worker and each row, so four tokens do. Two attempts are a first
  and a last one; `MaxManual` 1 and `MaxCrashes` 1 let a restart and a crash combine. All numbers are
  constants of the proofs, which hold for every lease, delay and number of attempts.
- *Mail.* The two handlers of an invoice mail under two claims are the interesting pair.
- *Contacts.* Cases do not affect each other, so one does. Two workers and a manual retry give the late handler of
  a lost claim beside the present one, and a request of the first executed during the second.
- *Settlement.* Two calls with one key (repeat or different content), one that pays in full or reverses,
  and one that reverses or cancels cover each pair of commands in each order; two
  attempts are one retry; a total of 2 with amounts 1 and 2 gives part, exact and
  over-payment. Calls are finite, so the run stops and `CHECK_DEADLOCK` is off.
- *Board.* Drops affect each other only through the window, so one drop and two requests that
  interleave suffice; five revisions hold assign, close, deliver later, undo, reopen in one history.
- *Orders.* Every property is about two commands that meet, so two calls cover them: one is any command but
  the cancellation, the other issues or cancels. Public orders, payments and administrators act besides.
  Two orders make two numbers. One window and "no window" are the cases the rules
  tell apart. Two changes give a switch set and cleared, a window retired and delivery switched off,
  an action completed and archived. Calls are made once, so the run stops and `CHECK_DEADLOCK` is off.
- *Locks.* Three commands form every cycle of two and of three and leave room for the edit of a task between two
  closures. Two orders in two windows give every pair of rows of each kind, in both orders; two lists are the two ends of a
  moved task. Every kind of command occurs with every order, window and user. Commands stop for good, so `CHECK_DEADLOCK` is off.
- *Identity.* Two persons are the last two of a kind, and any two commands, with their repetition, meet in two calls. Larger numbers are
  the subject of `IdentityProofs`. Requests are bounded and `CHECK_DEADLOCK` is off.
- *Sessions.* All pairs of requests meet, beginning from pending challenges, pending changes and live sessions, so the
  second request need not be spent on making them. Two places let a code sent twice open a second session. Two allowed attempts are a first and a last one. Requests
  are bounded and `CHECK_DEADLOCK` is off.

- *Surveys.* Two surveys make two documents of which one extends the other. Three starts are two publications that overtake each
  other after a request, or a request, its erasure and an export. The gate is not counted, and the one backup may be restored any number of times; a
  second backup would only be a later one.

### Fairness

Only `outbox` assumes fairness (`FairSpec`). Time passes (`Tick`); an idle worker
claims when it can, since `durable_worker_loop` polls every 0.25 s; a handler ends, since it
has a timeout or network timeouts; and an outcome is recorded. These are weak fairness.
Strong fairness of ending and recording while the claim is held excludes that every attempt of a job, for ever,
overruns its lease: the code sets handler timeouts shorter than the lease and SMTP
timeouts well below it. Crashes are bounded, as a job that kills its worker each time
is claimed again after every lease: the claim does not look at `max_attempts`, so such a
job never becomes a dead letter. That is a limit of the code, listed under the hazards.

## Findings

1. **A driver's undo is applied to a closed window** (`board_closed`). See the stale closure
   reading above. The board's docstring says that "a closure and a tick on the same window serialize", and
   the user documentation that drivers change nothing once the window is closed.
   Every invariant of `delivery_board` holds all the same; what is lost is that the drop becomes open
   without being missed and without a task.
2. **The advice for a paid order cannot always be followed** (`orders_blocked`). `cancellation_block` and the
   user documentation say to reverse the payment and then cancel the order. An invoice with a
   part payment may be cancelled on its own; from then on every reversal is refused, so the order is refused for good.

Without a run, as it is plain from the code (`accept` in `Identity`): an accepted invitation may grant nothing. `accept` inserts the membership with
`ON CONFLICT DO NOTHING`. Removing a lead keeps the row and ends it, so a former lead who is invited again and accepts has an
accepted invitation and an ended membership. `src/specs/leonaid-poc/PLAN.md`, line 679, says that an acceptance activates account
and membership at once; the membership commands do reactivate an ended row.

Deadlocks that `OrderLocks` admits and that nobody retries (the request is answered with an error, no data is lost): `save` against a
board command or another window order, two closures whose tasks move between the same two lists, `activate` against
issuing (which retries, unlike `activate`), and the edit of a task (`update_task` holds the list in which it read the task and waits for
the task) against a closure, a reopening or a drop missed again that has the task and waits for that list, to move the
next task there (two tasks of one window). A comment in `modules/tasks/repository.py` (line 1219) hopes that one list lock
keeps these deadlock-free; it speaks of ordering revisions, for which it does. `retry.py` promises the absence of deadlocks for the commands that follow its order, and for
these it holds: `OrderCommandsGoThrough`.

## Proofs

All theorems hold for all values of the constants that satisfy the named assumptions.

`OutboxAssumption`: the counters are natural numbers, the lease, attempts, retention and batch
limit positive, the base delay at most the maximum delay, the handler timeout shorter than
the lease (`RetryPolicy.__post_init__`, the queue's constructor and `effective_timeouts` see to it). `Jobs` and `Workers` are arbitrary sets.

- `TypeCorrect`, `LeaseProtection`, `RetryBudget`. `LeaseProtectsClaim` is not inductive: that a
  worker with time left holds the claim needs that row and worker agree on the lease, that tokens
  of different holders differ and that a row outside `processing` has no token. `ClaimInv` adds these, and what
  a failing worker has decided (which `RetryBudget` needs).
- `OutboxImplementsJobQueue`: each step maps to a step of `JobQueue` or a stutter: a takeover to
  `Grant` of a late job, a fenced update to `Settle`, a lost one to `Drop`, `Tick` to `Expire`.

`MailAssumption`: the jobs retention must keep are jobs. The handlers are proved about in the same module:
`MailUsesQueue` and `ContactUsesQueue` say that each handler step is a step of the queue or leaves it alone, so
`ClaimInv` and its consequences hold below the handlers.

- `CompletedWasMailed`, `InvoiceIsShownRight`, `ResendMeansLostClaim` (`MailInv`). `SentIsAccepted` and `KnownIsRecorded` carry the
  server's answer and the record from step to step of a handler. `_settle_status` finds a confirmation through the job, and
  `EvidenceStays` says that retention spares the jobs of invoices (whose foreign key would refuse their removal).
- `ContactsAgree`, `CreatedOnce`, `DecisionsAreFinal` (`ContactInv`). `OneRequest` with `RequestIsNoted` is the heart: the
  intention is committed under the claim before the request, so only one handler of a case, however many have overrun
  their leases, is between intention and outcome; `NothingSent` and `PersonIsNoted` tie the CRM to it. `UndecidedYet` says
  that a handler that still holds its claim finds the case undecided, because managers cannot decide while a
  worker has the job.

`SettlementAssumption`: calls are finitely many, keys and commands are typed, amounts and the total are positive.

- `SettlementTypeCorrect`, `StatusIsDerived`, `StaleFormsAreRefused`. The key fact is `Fresh`: a snapshot whose row
  version is the current one shows the current rows. It is inductive because every write of
  payments, reversals or mail confirmations also writes the invoice row; `SettledInv` joins
  it with the types and `DerivedStatus`.
- `BookedExactlyOnce` adds to it (`BookInv`) what a receipt stands for: a call that was told its command
  is booked finds it in the receipt of its key, a receipt is some call's booking, receipts a snapshot
  shows are still there, and a call behind the lock saw none for its key.
- `SettlementImplementsAccount`: bookings map to the atomic commands, all else stutters.

`BoardAssumption`: the revision bound is a natural number and the markers for nobody, no task and no request
are not users, tasks or requests. Drops, users and requests are arbitrary sets.

- `BoardTypeCorrect`, `RevisionsNameStates` (`RevisionInv`): a request's revision is never ahead of the row's, so
  a revision that matches was read after the last change of state.
- `ClosureMarksAreSound` (`MarkInv`). The dangerous case is a request that read an open window and is applied in a closed one.
  `OpenReadingUnmarked` says why it does no harm: if its revision is still current, the drop
  carries no mark, because marking a drop counts its revision and reopening clears the mark.
- `FollowUpsMirrorDrops` (`MirrorInv`) adds the tasks; `ManagersMoveMissed` and `CancelledOrdersStayUndelivered` need the types only.

`OrdersAssumption` and `NoInvoiceAssumption`: the kinds of a call are commands, there is a recipient, the markers for no window and no
invoice are not windows or invoices, the bounds are numbers. Orders, windows and calls are arbitrary sets.

- `OrdersTypeCorrect`, `OrdersAgree` (`AgreeInv`, the types and the property itself). A command that holds the order row knows the
  order as it is, and by the property it then knows whether there is an invoice: an order that is neither
  invoiced nor cancelled has none. The snapshot's invoice alone would not tell, as it is not locked.
- `NumbersAreGapless` (`NumberInv`) rests on it: issuing adds an invoice where there was none, with the number of
  the profile row it locks, and nothing else changes a number.
- `CancelledOrdersUndelivered` (`DeliveryInv`). `TickHoldsOrder` is why one lock is enough: a tick under way
  holds the window of a binding order, whose window does not change; so the cancellation, which locks the order's window, waits.
- `TargetsChangeAtMostOnce` (`RedoInv`). `RedoSound`: a call that has started again did so because its order had
  an invoice, and orders do not lose invoices.
- `BookedWindowsStay`, `BookingsRespectSwitches` need the types only, `IssuedOnTermsInForce` also `AgreeInv`; each goes through the
  row locks that make the snapshot current.

`IdentityAssumption`: nobody is not a user, at least one wrong code is allowed, the bound on requests is a number. Users,
actions and calls are arbitrary sets.

- `TypeCorrect`, `AdminCoverage`, `LeadCoverage` rest on `IInv`. The coverage rules are not inductive: between the
  decision and the write, acceptances and changes of an action's status happen without the lock. `CheckedStillOk` says that the decision
  still stands: those steps only add people, or ask for fewer leads, and `LockExclusive` keeps everyone else out. `LeadsChosen`
  is needed for a new action, whose leads come from the request.
- `ExactlyOnce` (`WritesKnown`): a request that was applied and is sent again finds its receipt.
- `NoLostStatus` (`SeenKnown`): revisions only grow and every change of status but an acceptance counts one.
- `OnlyManagersChange` follows from `CheckedStillOk`: who managed when the lock was taken still does at the commit.

`SessionsAssumption`: nobody is not a user, an address or a place for a session, who holds a session at first is a user, at least one
wrong code is allowed. Users, addresses, places and calls are arbitrary sets.

- All six theorems rest on `KnownInv`. `Held` and `Explained` say that a request holds locked exactly what the stages behind it have
  locked (the audit event's locks on accounts aside), `LocksExclusive` that locks which conflict are not held at once, and the
  lemma `WriteFrame` that a row is written only by a request that holds it. So what a request saw of a row that it
  has locked is still so when it writes: `AccountKnown` and `CredentialKnown`.
- `SessionsAreSound`, `OldAddressesAreDead`, `ChallengesWorkOnce` then go write by write. `GuessesAreLimited` needs
  `CountersAgree`: a counter that is written from an old reading would fall behind the wrong codes.
- `SuspensionsGoThrough`: who waits for a suspension, at any distance, stands aside (`Aside`): it holds nothing, or no more than
  a challenge or change of the account the suspension has locked; and for those a suspension does not wait. `Clock` gives the
  other half, that no session began after the time it revokes by.

`OrderLocksAssumption`: orders, windows and users are numbers, whose order is that of the ids, and no order is 0, which stands for none; every order
is in a window and every window has someone who closed it before; `_lock_current` looks at least once. Orders, windows, users and calls
are arbitrary sets, so a closure may lock any number of orders and any number of commands may wait.

- All theorems rest on `LockInv`: for each command (`Shaped`), its plan follows the order of rows (`Ordered`), it locks only the rows of its kind and
  in their mode (`Fits`), it holds nothing that comes after what it has yet to take (`InTurn`), and what it locks first covers what follows (`Covered`, `Tasks`);
  and locks that conflict are not held at once (`LocksExclusive`). The order of rows (`Turn`, `Precedes`) is `retry.py`'s, continued by the rows
  it does not name: it is a notion of the proof alone. That each command's statements follow it is shown command by command (`CreateBegins`
  to `UpdateTaskBegins`), so a command of the code that left the order would fail there.
- `NoCommandIsCaught`: for each row a command can wait for there is a set of commands that contains it and everyone who waits, at any distance, for
  it, and none that it waits for. For a row that all lock in order these are the commands whose locks come before that row. Below the
  tasks it takes more: who holds a task and keeps the order holds its list as well, so it waits for nobody (`TaskHolderWaits`, from `ListKnown`: the list of a
  cancelled order's task cannot change, as who moves it needs the window). A save of the delivery planning updates windows in the order of
  the form; either it holds nothing, or it holds the action and nobody that begins with the action holds anything (`SaveAlone`). The board's
  key-share locks on orders are out of order, but whoever else holds such an order's row has the order's window, so it is not there at the same time (`BoardOrder`), or
  is issuing an invoice; from then on such a command waits only for the profile and the legal configuration and is left out of the set.
- `ClosuresTakeTheirTasks`: the task is locked from the comparison to the commit (`Tasks`, `OneSynced`), and every command that moves a task has it locked.

`ErasureAssumption`: the marker for no survey is not a survey, the bound on processes is a number (`MaxExports` needs nothing: it only
guards). Surveys and processes are arbitrary sets.

- `ConfirmedStands`, `ErasedStands`, `FilesMatch` (`IInv`). The properties speak of the running application only and say nothing of what
  happens after a restore, so the invariant follows an erasure through all three stores. `PublishedIsArchived`
  and `ErasureHeld`: what a user will be told of, or a worker begins to remove, is in the archive. `WriterExtends`: there is one
  writer, and its document names everything the current one names, so the archive forgets nothing
  (`ArchivedGrows`), and with it `HistoryArchived`. `GateCovers`: in the gate every survey of the history is still
  to be erased, being erased, or done; when it passes, all are done, which is `OnlineKept`.
- For the files, `LocksExclusive` and `LocksHold`: while a rendering or an erasure holds a survey nobody else touches its rows, and
  only a late upload its object. `BackupSound` carries this through a restore.

Only model-checked: `EveryJobSettles`, as liveness under fairness is out of the prover's reach. The two refuted properties under Findings are
false and have nothing to prove. `CancelledNeverDelivered` and `BookedWindowStays` are proved and
have no run: they follow from single guards. What the proofs of `Orders` say is for one action; see the plan for several.

## Not modelled

Rendering, PDF contents, formatting, search, dashboards, the feed, the wording of CRM
requests and HTTP routing have no state whose order matters. Authorisation appears only where a command's
effect depends on it (managers and drivers). The read audit of drivers and its purge, task list
creation and task positions are left out of `DeliveryBoard`, and designing, participation, invitations and analysis of surveys out of
`SurveyErasure`. PostgreSQL's isolation is modelled by what it
guarantees: snapshots, row versions, locks, and permission to fail.

## Plan

In the order in which it is worth doing:

1. `Documents` and `Materials`: rows and objects that cannot commit together.
2. Participation in surveys: answers, closing and the invitations over `Outbox`.
3. Actions (publication, aliases), acquisition, task ordering, the legal configuration's four eyes, privacy; invoice numbers
   of several actions under one prefix.
