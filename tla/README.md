# A TLA+ model of payments-orchestrator

Specifications of the payment orchestrator in `src/`, the TLC configurations
that check them on small instances, and proofs checked by TLAPS. Everything is
translated from the Go source, action by action; `PROJECT.json` names the lines
each definition stands for.

## 1. The system

| component | state it keeps | operations |
| --- | --- | --- |
| payment service (`internal/payment/*.go`) | none between two calls; during a call, the payment as it was read and then computed | `Create`, `Authorize` (with `resumeAuthorize`, `completeAuthorize`), `Capture`, `Refund`, `Cancel`, `ApplyInbound`, `ListEvents` |
| payment store (`internal/payment/postgres.go`, migrations) | `payments`, `payment_events`, `webhook_events`, `idempotency_keys`, `provider_events`, `provider_ledger` | `InsertCreated`, `LookupIdempotency`, `Get`, `ListEvents`, `SaveTransition`, `LookupProviderEvent`, `InsertProviderEvent`, `UpsertProviderLedger` |
| mock provider (`internal/psp/mock.go`) | none: the answer depends on the amount | `Authorize` (a new provider id), `Capture`, `Refund` |
| HTTP API (`internal/httpapi`) | none | one route per service operation, the provider's webhook, `/discrepancies`, health |
| webhook worker (`internal/webhook`) | `status`, `attempts`, `next_attempt_at` of `webhook_events`; the batch it claimed | claim with a 30 s lease, deliver, finish |
| reconciliation worker (`internal/recon`) | `discrepancies`; the payments and ledger rows it read | read payments, read ledger, record mismatches |
| desk UI (`src/web/components/desk.tsx`, `lib/session.ts`, `lib/api.ts`) | `sessionStorage`: the payment selected and those remembered; on the page: the payment on display, the reads and the request in flight | create, look up, act, provider event, select, load, poll, reload |
| processes (`cmd/api`, `cmd/worker`, `internal/config`, `internal/db`) | where `main` is, the signal's context, the pool; in the database `schema_migrations` and the migration lock | start, migrate, serve, drain, exit |
| UI proxy, presentation | none that the behaviour depends on | |

How they interact. API processes and worker processes share only the database.
An API request runs in a goroutine of its own and makes a handful of database
accesses, one of them a transaction (`SaveTransition` or `InsertCreated`);
between two accesses anything may happen. The provider is called between the
read of the payment and that transaction, and `provider_ledger`, the local copy
of what the provider believes, is written between the call and the transaction,
outside of it. The provider's own webhook (`ApplyInbound`) makes the same
transitions from the other side. Each transition appends a `payment_events` row
and, but for the start of an authorization, a `webhook_events` row that the
webhook worker later delivers. The reconciliation worker compares `payments`
with `provider_ledger`. Every process migrates the database before it serves;
an api may run the workers' loops in the process of its requests, on the same ten
connections. The desk is a client of the API: it polls a payment that is
processing and shows whatever is answered.

What is hard, and what must nevertheless hold, by component:

- *payment service and store*. Concurrent requests for one payment, with equal
  or different keys, all read before any of them writes; a process dies between
  two accesses, or around a commit whose acknowledgement is lost; the provider
  repeats and reorders its events. Row, history and webhook must agree, moves
  must follow the diagram, a record of a request must not be ahead of its
  effect, one transition must not be recorded for two keys, an authorization
  left half-way must be recoverable.
- *ledger*. Written before the transition it announces, possibly by a handler
  that then loses: it may be ahead of the payment or behind it, but must never
  be missing and never be unjustified, and the provider id in it must be that of
  the authorization that won.
- *webhook worker*. Two workers, leases that expire while a batch is delivered,
  `finish` by id alone, a crash after the claim.
- *reconciliation worker*. Two reads of two moments; a unique index that keeps
  the first report of each kind.
- *desk*. Answers that arrive after another payment was selected, polls that
  overlap, a session written by a request that was clicked in an older one.
- *processes*. Several start at once on an empty database, are signalled while
  they migrate or wait to, or die there; requests and loops share a pool of which
  the migration keeps a connection; a client that does not finish its request
  holds up a process that wants to stop.

The list of hazards, each at its line, is in `PROJECT.json`.

## 2. The modules

| module | what it is | lines of the source |
| --- | --- | --- |
| `Payment` | statuses, operations, provider events, the provider's answers, which events are announced | `status.go`, `outbox.go`, `mock.go`, `inbound.go` |
| `PaymentStore` | the six tables and the statements that write them, each atomic | `postgres.go`, migrations |
| `PaymentService` | the handlers: one action per database access, `Init`, `Next`, `Spec` | `service.go`, `authorize.go`, `capture.go`, `refund.go`, `cancel.go`, `inbound.go`, `ledger.go` |
| `PaymentLifecycle` | abstract specification: a payment that moves along the diagram, with its log and its notices | |
| `PaymentProperties` | type invariant, invariants, action and liveness properties, fairness, the refinement mapping | |
| `MCPaymentService` | instances for TLC: which keys clients send with which operation, symmetry | |
| `PaymentServiceProofs`, `PaymentInvariantProofs` | proofs: types, history and refinement; requests, provider and ledger | |
| `DeliveryQueue` | abstract specification: events that are attempted until they are delivered or given up, the attempts in flight, and the lease under which an attempt is the only one | |
| `WebhookWorker` | claim, delivery, outcome and death of any number of webhook workers; `WorkerSpec`, its properties and fairness | `webhook/worker.go`, `webhook/deliver.go` |
| `Reconciliation` | the reconciliation worker, composed with the payment service it reads from | `recon/worker.go`, `recon/mismatch.go` |
| `Desk` | one tab of the desk, against the abstract payment of `PaymentLifecycle` as its server | `desk.tsx`, `session.ts`, `api.ts` |
| `Processes` | the api and worker processes: start, migration, connections, signal, exit, death | `cmd/api/main.go`, `cmd/worker/main.go`, `config.go`, `db/postgres.go`, `db/migrate.go` |
| `MCWebhookWorker`, `MCReconciliation`, `MCDesk`, `MCProcesses` | instances of these for TLC | |
| `DeliveryQueueProofs`, `WebhookWorkerProofs`, `ReconciliationProofs`, `DeskProofs`, `ProcessesProofs` | their theorems | |

`PaymentService` EXTENDS `PaymentStore` EXTENDS `Payment`. `Reconciliation`
EXTENDS the service (through `PaymentProperties`): its steps interleave with the
handlers' and read the tables those write. `WebhookWorker` stands alone: all it
shares with the service is the insert of an event, its `Enqueue`, which the
service does in the transaction of the transition (`InsertOutbox`). `Desk` EXTENDS
`PaymentLifecycle` instead of the service: a tab sees of a payment its status at
one moment, and that the status moves as the abstract payment does is the
theorem `Implements`. `Processes` stands alone: what a request or a loop does with
a connection is in the other modules, and a process that stops or dies shows
there as `Fail`, `Drop` and `AbortRound`.

How state and actions correspond to the code:

- A handler `h` is a goroutine that serves one request after another. `pc[h]` is
  the database access it makes next (`get`, `begin`, `provider`, `save`,
  `note`, `relookup`, `resume`, `reload`), `job[h]` what it remembers: the
  request, the payment it computed in memory, and the status that
  `SaveTransition` will compare with. `reply` is the answer given in the last step
  and is forgotten in the next; the properties about answers read it there.
- The first access of an operation (`LookupIdempotency`, `LookupProviderEvent`)
  is the action named after the operation; `AuthorizeRead`, `CaptureRead`,
  `CancelRead` and so on are its `Get` and the branch on the status; `Begin`,
  `AuthorizeSave`, `CaptureSave`... its transactions, each with the three ends
  the code distinguishes: committed, duplicate key, stale row.
- The call of the provider is part of the step that writes the ledger
  (`AuthorizeProvider`, `CaptureProvider`, `RefundProvider`): the mock keeps no
  state, so nobody can observe the moment in between, and a handler that dies
  there is one that dies before the step.
- `Fail` ends a request between any two accesses: a database error, a cancelled
  context, a crash of the process. `Acknowledge` also lets a committed statement
  be answered with an error.
- A transaction is one step. At READ COMMITTED, which the code uses, the
  `UPDATE ... WHERE id AND status AND version` of `SaveTransition` locks the row
  until the commit, and the insert of a key locks its index entry, so a second
  transaction waits and then sees the first one's outcome; the checks it makes
  are those of the model. The order of the checks is kept: a stale row is
  reported before a duplicate key.

The webhook workers (`WebhookWorker`):

- `claim` is one transaction with `FOR UPDATE SKIP LOCKED`, so `Claim(w, batch)` is
  one step, of any set of events that are due: others may be locked at that
  moment. It counts the attempt and moves `next_attempt_at` to the end of the
  lease. `held[w][e]` is the attempt the worker `w` remembers with the event `e`,
  which is what `finish` later writes to the row.
- `Deliver` is the POST; the merchant takes the event or not, and an answer of one
  that took it may be lost. `Finish` writes the row by id, whatever happened to it
  since. `Drop` is the death of a worker, or an outcome it could not write.
- The clock is reduced to `due[e]`, whether `next_attempt_at` has passed, and time
  may pass at any moment (`Elapse`). A lease may so run out while its batch is held,
  as in the code: ten posts of up to ten seconds against a lease of thirty.
- `taken`, `tried` and `dropped` are history the workers do not have.
- `WEBHOOK_URL` is taken to be set. Without it `RunOnce` returns at once
  (`worker.go:58`), nothing is ever claimed, and `Settles` does not hold.
- What the workers promise together is `DeliveryQueue`. Its `flying[e]` are the
  numbers of the attempts at `e` in flight, in the workers' terms the counts with
  which those that hold `e` claimed it (`Flight`); `leased[e]` says that the lease of
  the one attempt in flight still runs (`Leased`). The queue takes an event up only if
  it is not leased; `Land` is the outcome of an attempt under its lease, of a
  pending event and its last count; `LandLate` that of an attempt without a lease,
  which overwrites status and count whatever they are by now. `Claim` is a `TakeUp`,
  `Elapse` a `Lapse` or hidden, `Deliver` an `Arrive` or hidden, `Finish` a `Land` or
  `LandLate`, `Drop` a `Lose`.

The reconciliation worker (`Reconciliation`): `ReadPayments` and `ReadLedger` are
its two queries, `RecordMismatch` one insert with `ON CONFLICT DO NOTHING`,
`EndRound` the wait for the next tick, `AbortRound` an error or a death.

The desk (`Desk`):

- `session` is what `sessionStorage` holds, `shown` the state variable `payment`.
  `loads` are the reads that the effect on `currentId` started; its cleanup makes
  the answer of an earlier one be ignored, so a new selection replaces the set.
  Selecting the payment that is selected already starts nothing. `polls` are the
  reads of the two-second timer, a bag, since the same read may be in flight
  twice; nothing cancels them. Each read is taken from the server in one step
  (`...Served`) and applied in a later one (`...Arrives`), or fails.
- `calls` are the requests of the user with the `session` of the render they were
  clicked in, which `remember` later writes back. `Ready` is `busy`: the controls
  that start a request are disabled while one is in flight, so one slot is ever
  used; the other slots are there for what goes wrong without it. The lists of
  remembered payments and of discrepancies are never disabled (`Select`).
- The server moves payments by itself (`Serve`): what a click on an action asks for,
  other clients, the provider and the rest of handlers that were left all look the
  same to the tab. `CallServed` is the moment the answer is taken, `CallFails` also
  an answer that is lost after the server did what was asked. Replaying the last
  creation with its key ends as a lookup of that payment does.
- `ReloadPage` keeps the session and forgets the rest. `Lost` are payments that the
  session remembers from a database since replaced, the only ones answered
  `PAYMENT_NOT_FOUND`; `LostIds` is the session's list of them. `remembered` is
  history.
- The lists of events and of discrepancies, the API's health and the last exchange
  are display only and left out.

The processes (`Processes`):

- `phase[p]` is where `main` is. `Ensure` is `pgx.WithInstance`, which waits for the
  migration lock without a limit; `AcquireLock`, `Mark`, `RunFile`, `Clear` and `Serve`
  are `Up`, which waits 15 seconds (`StartRefused`) and refuses a dirty schema. These
  are golang-migrate's, modelled by how it is called here and marked external.
- The lock belongs to the session that took it and ends with its process (`Exit`).
  Only the ping of `db.Open` takes the signal's context: after it, `main` looks at
  the signal when it serves (`Drain`, `LoopEnds`).
- `Used` counts a connection that the migration driver takes from the pool and
  never gives back. A request is `reading` its body, `waiting` for a connection or
  `holding` one, for a statement or a transaction; no code path asks for a second
  one while it holds one (`Release`).
- `ShutdownTimeout` is the ten seconds of `srv.Shutdown`. The worker's `main` is the
  reconciliation loop, and the process ends when it does (`WorkerReturns`).
- `Die` is a kill, or an error of the database or the listener.

Abstractions. An event type is written as the status it announces. Amounts are
small numbers of which 1, 2 and 3 are the ones the mock declines. The
fingerprint of a request (a SHA-256 over operation and body) is the pair of
operation and argument. Payment ids are elements of `Payments`, created at most
once each, as random uuids are. Provider ids are never given twice. Timestamps,
currencies, payloads, metadata and the merchant (there is one, `DemoMerchantID`)
are left out, as are requests refused before the first statement.

## 3. The runs

Keys bound what clients do: `ClientKeys[op]` is the set of keys that some client
sends with an operation. Since a version never exceeds 5 and every record is
written once, the state space is finite with no further bound. `Fail` may
happen any number of times.

| run | instance | checks |
| --- | --- | --- |
| `races` | 1 payment of each amount, accepted or declined, 2 handlers, 4 keys of which 3 are sent with several operations, 1 provider event | `TypeOK`, `JobsFit`, `HandlersRemember`, `HistoryMatchesRow`, `RecordsHaveEffect`, `LedgerPresent`, `LedgerJustified`, `AuthorizeAnswersDecision`, `ProviderDecides`, `LedgerProviderId`, `ProviderIdStable`, `ImplementsLifecycle` |
| `cross` | 2 payments, 2 amounts, 2 handlers, 5 keys of which one is sent for both payments | `OneKeyPerTransition`, `AnswerNamesPayment` |
| `retry` | 1 payment, 2 handlers, amounts accepted and declined, fairness | `RetryDecides`, `RepeatCompletes` |
| `rounds` | 1 payment, 2 handlers, no refunds, the reconciliation worker, fairness | `ReconTypeOK`, `MissingNeverReported`, `DiscrepanciesJustified`, `LastingMismatchRecorded` |
| `overlap` | 1 event, 3 workers, 3 attempts, leases run out, fairness | `WorkerTypeOK`, `DeliveredWasTaken`, `GivenUpAfterAttempts`, `OverrunOnlyByDrops`, `Settles` |
| `queue` | 2 events, 2 workers, batches of 2, 2 attempts, leases run out | `ImplementsQueue` |
| `desk` | 1 tab, 2 payments that reach `authorized` and 1 lost, 2 call slots, a session of 2, 2 polls in flight, fairness | `DeskTypeOK`, `IdsKept`, `StraysOnlyLate`, `PollCatchesUp` |
| `processes` | 1 api that runs the loops and 1 worker, 2 migrations, a pool of 2, 2 requests, 1 death, fairness | `ProcTypeOK`, `ServesWholeSchema`, `FilesRunOnce`, `DirtyOnlyByDeath`, `RequestsEnd`, `SignalledStops` |
| `reuse`, `replay`, `cancel`, `unbound` | see below | one property each, violated |

What the properties say. `JobsFit` and `HandlersRemember` are about what a handler
holds between two accesses while others move its payment: enough for the next one,
and old perhaps, but never wrong. `HistoryMatchesRow` ties a row to its events,
`RecordsHaveEffect` a key or a provider event to the transition it stands for,
`OneKeyPerTransition` one transition to one key. `LedgerPresent`,
`LedgerJustified`, `LedgerProviderId` say what the ledger may show while it is
ahead of the payment or behind it, `ProviderIdStable` that the provider id of a
payment that left `processing` never changes. `ProviderDecides`: against the
provider's answer a payment only moves by a provider event on record.
`AuthorizeAnswersDecision` and `AnswerNamesPayment` are about answers.
`RetryDecides` and `RepeatCompletes` say what a repeat repairs: an authorization
left in `processing`, and a capture or refund that the ledger shows and the
payment does not. Of the
workers: a row says delivered only if the merchant took the event
(`DeliveredWasTaken`); late writes neither make an event be given up early
(`GivenUpAfterAttempts`) nor keep it alive for longer than the deaths of its
workers explain (`OverrunOnlyByDrops`), it is settled for good in the end
(`Settles`), and attempts at one event overlap only after a lease has lapsed, with
no outcome or count written that is not of an attempt in flight (`ImplementsQueue`). Of the reconciliation: nothing is reported missing although the
reads are not of one moment, what is reported could have been, and a
disagreement that lasts is recorded. Of the desk: however late requests are
answered, the session holds the payments remembered last (`IdsKept`); nothing
replaces the payment on display by one that is not selected but a poll or a
request, never a load that was cancelled (`StraysOnlyLate`); and it does not show
`processing` for ever (`PollCatchesUp`). Of the processes: nobody serves on half a
schema or a dirty one (`ServesWholeSchema`), no file is run twice or skipped
(`FilesRunOnce`), stopping a process while it starts does not leave the schema
dirty (`DirtyOnlyByDeath`), no request waits for a connection for ever
(`RequestsEnd`), and a signal stops a process wherever it finds it
(`SignalledStops`).

Why the bounds are enough. The code's races are between two accesses of one
handler and one transaction of another, on one payment or one key; two handlers
and one payment produce each of them. An authorization that loses while the
winner's payment is already being captured needs no third handler: the one that
won takes the capture.
A provider event that repeats is the same event id again, so one id shows
duplication, and with two operations in flight it also arrives late. `cross` has
a second payment because a key can only be misused across two, and a second amount
so that two creations with one key may ask for the same or not.

A webhook event is only ever written by its own id, so the races on it need one
event and as many workers as may hold it at once; three workers with three
attempts let a late outcome lower the count twice. `MaxDrops` bounds how often
a worker that holds an event may die (2): without it `attempts` grows without
end, since a claim counts and a death does not undo it. `queue` has two events, so
that batches, and one event of a batch failing alone, occur, and two workers of
which either may be late with a batch while the other claims part of it; with two
attempts and one death an attempt is the first, the last, or beyond the last. These
two runs do not check for deadlock: when every event is settled the workers have
nothing to do.

For `rounds`, refunds are left out to keep the liveness check small: captures
and cancellations already write the ledger ahead of the payment, behind it, and
from a handler that loses. The worker treats the payments of a round one by one and
no payment's rows bear on another's, so one payment is enough for what is recorded;
that a failing insert may hide the mismatches behind it is left to `ReconFairness`.

For `desk`, payments move to `processing` and `authorized` only (`Moves`): the desk
tells `processing` from the other statuses and from nothing else, and one edge into
it and one out show it stale in both directions. The session keeps 2 payments
where the code keeps 12, so that three payments push one out; two polls in flight
overtake each other. The three payments are one that is selected, one selected
instead, and the lost one that clears the display.

For `processes`, a pool of 2 has one connection left for two requests and two
loops, where the code's has nine; what matters is that there are more tasks than
connections. Two files give a version that is neither the first nor the last. One
death (`MaxDeaths`) falls on any step of either process, and both start again any
number of times.

Fairness (`Fairness` in `PaymentProperties`), used by `retry` and `unbound`. A
handler that can proceed does (weak fairness: the Go scheduler runs every
runnable goroutine). An authorization, a capture and a refund are repeated by
their clients with their keys (`FairRetry`, strong fairness on their arrival: the
client cannot send them at every moment, since handlers may be busy, but keeps
trying), and an attempt that is begun again and again is not interrupted at the
same statement for ever (strong fairness on the read, on the provider's step and
on the save). The code itself assumes no less: nothing sweeps payments left in
`processing`, and nothing but a repeat completes a capture. No fairness is assumed
of other requests, of the provider's events or of failures.

`WorkerFairness`, used by `overlap`: time passes, a worker goes on with its
batch, and an event that is due again and again is claimed in the end (strong
fairness: `ORDER BY next_attempt_at` gives every poll the oldest event that is due,
and `RunOnce` is called in a loop). That a worker dies is never required and, by
`MaxDrops`, not possible for ever. `ReconFairness`, used by `rounds`: the worker's
ticker goes on, and rounds are not interrupted at the same statement for ever
(strong fairness on the second read and on the insert of each payment's
mismatches: an insert that failed every time would hide those behind it); nothing is assumed of the handlers, which may stop half-way and leave
the disagreement that the property is about.

`DeskFairness`, used by `desk`: a payment in processing is decided (what
`RetryDecides` shows of the service), the timer ticks, and polls are not all lost
(strong fairness on the tick, the read and the arrival of some poll). Nothing is
assumed of loads, of the user or of requests. `ProcFairness`, used by `processes`:
main goes on, and a process that waits for the migration lock gets it in the end
or gives up (PostgreSQL queues the sessions that wait); a statement of a loop ends;
a request that is ready to run gets a connection in the end (`database/sql` picks
one of those that wait) and makes finitely many accesses. Nothing is assumed of
clients, so a body may never arrive, nor of the loops beyond that.

Where documents and code part. Four runs show a sentence of the README or a
test that the code does not keep; `PROJECT.json` quotes each.

- `reuse`: two captures of two payments with one key that overlap. Both find no
  record; the second hits the duplicate key and is answered 200, with a payment
  that is still authorized, instead of the promised 409.
- `replay`: an authorization repeated, with the same key and body, after the
  payment was captured is refused instead of returning the row.
- `cancel`: a cancellation that loses to a capture is answered 200 with the
  captured payment, where a cancellation after a capture is refused.
- `unbound`: a request whose effect is already there is answered 200 without
  recording its key, which can then be used with another body.

## 4. The proofs

Every safety property that a run checks is a theorem, for every value of the
constants. `PROJECT.json` lists the theorems with the property each states.

| module | theorems | invariant they rest on |
| --- | --- | --- |
| `PaymentServiceProofs` | `TypeCorrect`, `JobsAlwaysFit`, `HistoryCorrect`, `Implements` (the refinement of `PaymentLifecycle`) | `TypeInv` |
| `PaymentInvariantProofs` | `MemoryCorrect`, `RecordsCorrect`, `KeysCorrect`, `ProviderCorrect`, `LedgerNeverBehind`, `LedgerOneAhead`, `LedgerIdCorrect`, `AnswersCorrect`, `DecisionsAnswered`, `ProviderIdCorrect` (an action property) | `PaymentInv` (`PaymentInvariant`) |
| `ReconciliationProofs` | `ReconTypeCorrect`, `NeverMissing`, `DiscrepanciesCorrect`, `ReconServes` | `ReconInv` (`ReconInvariant`) |
| `WebhookWorkerProofs` | `WorkerTypeCorrect`, `Delivered`, `GivenUpCorrect`, `OverrunCorrect`, `WorkersImplementQueue` (the refinement of `DeliveryQueue`) | `WorkerInv` (`WorkerInvariant`) |
| `DeliveryQueueProofs` | `OutcomesStand` (an action property) | `QueueInv` (`QueueInvariant`) |
| `DeskProofs` | `DeskTypeCorrect`, `IdsAreKept`, `StraysAreLate` (an action property), `DeskServes` | `DeskInv` (`DeskInvariant`) |
| `ProcessesProofs` | `ProcTypeCorrect`, `ServesWhole`, `FilesOnce`, `DirtyByDeath` | `ProcInv` |

Assumptions. They are those of the modules, and TLC evaluates each on every run
of its module.

- Service: `AmountsAssumption` (amounts are positive: `Create` refuses others),
  `ClientKeysAssumption` (clients send keys), and NULL is none of the values, rows
  or requests (`NoneAssumption`, `NoJobAssumption`; likewise in the other modules).
- Workers (`WorkerAssumption`): at least one attempt, batches of at least one.
- Desk (`DeskAssumption`): the session the tab starts with lists each payment
  once, as `rememberPayment` leaves it; it keeps at least one; payments take edges
  of the diagram.
- Processes (`ProcessesAssumption`): each has a configuration, the pool a
  connection.

No theorem assumes that a batch ends within its lease.

### The service

`TypeOK` is not inductive: a transition writes the row its handler
computed, so the row, the payment it names and the status it starts from must
fit (`JobsFit`), and a replay goes to the payment its record names, which must
exist (`RecordsExist`). `TypeInv` is their conjunction. One lemma for each action
(`...Fits`) shows that the action does one of five things to the tables
(`TableStep`: nothing, a creation, a transition, a ledger row, a noted event) and
leaves its own handler fitting if rows are not removed (`Grows`); `TableType`
shows that each of the five keeps the types and removes no row, and `Bystander`
that the other handlers then still fit. The later theorems only reason about the
five things: a transition starts from the one status `Before` the new one and
adds one to the version (`TransitionIs`), which gives the history its next
element (`MovedHistory`) and the abstract payment its edge (`StepLifecycle`).

`PaymentInv` adds what requests, records and ledger need of each other. A handler
saves what it computed from a row it read some accesses ago. That this is harmless
has two reasons, and the invariant states both: what it remembers is of a status
that its payment did have, with the amount, the version and the provider id the
payment had there (`HandlersRemember`); and payments only go forward (`Forward`: a
status once reached stays reached, a decision stays decided, the id of a payment
that left `processing` stays), so an old truth stays true. Then a transition
that the version in the `UPDATE` lets through carries the row's own provider id
(`ProviderIdStable`, `LedgerProviderId`), a ledger row names a status whose
predecessor was reached even when its handler has lost (`LedgerJustified`), a
handler at `save` has its ledger row behind it (`LedgerPresent`), and a record that
a handler answers from is of a transition that stands (`RecordsHaveEffect`). None
of them is inductive alone: `ProviderDecides`, for one, needs that a handler at
`save` was accepted, which needs the amount it remembers to be the payment's.
`OneKeyPerTransition` follows because a key is recorded in the step of the one
transition it names, and a version is passed once.

### The reconciliation worker

`ReconInv` is `PaymentInv` and the same idea once more: the status the worker read
was reached, and what it has compared or recorded is `Justified` by what was
reached, which `Forward` preserves however long it takes to write it. That nothing
is reported missing uses the order of the two reads: a payment seen as decided had
its ledger row by then (`LedgerPresent`), ledger rows are never deleted, and the
ledger is read afterwards. `ReconServes` shows that the worker leaves the service
alone, so that every theorem about `Spec` holds of the two together.

### The webhook workers

`finish` writes the count its worker remembers, so `attempts` may fall and no bound
on it alone is inductive. `Spent(e)`, the outcomes written, the claims that died
and the claims still held, counts what was really tried; `WorkerInv` says that the
row and every worker's memory stay at or below it (`Counted`), that an event given
up has spent all its attempts (`GivenUp`), and that one still pending at its last
attempt owes it to deaths or to workers that are late (`Overrun`). The lemmas on
`Holders` say that a claim or an outcome changes the number of workers that hold
an event by one.

The refinement needs no invariant but these, since the lease is a function of the
state (`Leased`): pending, not due, and one holder with the row's count. A claim
takes events that are due, so none that is leased, and its attempt is the only one
if nobody held the event (`ClaimTakesUp`); a finish under the lease is of the one
holder, with the count of the row, and any other is a late one (`FinishLands`); when a
worker dies, at most its own count leaves the flight, since another late worker may
have the same (`OneLess`, `DropLoses`). What that is worth is shown of the queue
alone: while a lease runs there is one attempt in flight, at an unsettled event
(`QueueInvariant`), and an outcome is undone or the count lowered only while an
attempt without a lease is in flight (`OutcomesStand`).

### The desk

`IdsKept` compares the session, cut to its limit, with everything that was ever
remembered. That the two stay in step is a fact about sequences (`LatestRecent`:
what the cut dropped would be dropped again), and that a request writes back the
session it was clicked in without forgetting what came since is `CallFits`: while
it is in flight no other one is. `StraysOnlyLate` needs that every load in flight is
for the selected payment (`LoadFits`), since selecting another replaces the loads,
and that an answer "not found" only comes for a payment that was lost.
`DeskServes` closes the gap to the service: what payments do in `Desk` are moves of
the abstract payment, which `Implements` shows of the service.

### The processes

`ProcInv` adds to the properties where the process that migrates stands
(`HolderInv`): before a file the schema is clean, at a mark it is dirty and one file
behind, after the file it is dirty and whole. As `ProcTypeOK` lets one process be
there, and a process that leaves gives the lock up, the next one finds the schema
clean or is refused. The limit of the pool needs that the tasks holding a
connection are finitely many.

### Only model-checked

Everything about liveness: `RetryDecides`, `RepeatCompletes`, `Settles`,
`LastingMismatchRecorded`, `PollCatchesUp`, `RequestsEnd`, `SignalledStops` (the
prover does not reason about fairness and ENABLED). The four runs that show a
document and the code part are counterexamples, which TLC finds.

## 5. What else the models show

Behaviour of the code that no document contradicts, met while modelling:

- The desk offers no action for a payment in `processing`, and calls it terminal
  (`desk.tsx:385`). A payment whose authorization died half-way is decided by a
  repeat with the original key, which the desk does not keep, or by a provider
  event.
- After a late poll the payment on display may not be the one selected. Clicking
  the selected one again loads nothing, since `currentId` does not change; clicking
  another does, and so does reloading the page.
- A creation whose answer is lost is neither remembered nor repeated with its key.
- A process that dies between marking a version and clearing the mark leaves a
  schema on which no process starts until it is repaired by hand.
- The provider id in the ledger of an authorized payment may be that of the
  authorization that lost; the reconciliation does not compare ids.

## 6. The plan

Modelled and checked: every component that has behaviour of its own. Proved: every
safety property the runs check and both refinements. What is left:

1. `PaymentLifecycle`: what it promises by itself (a log is a path of the diagram,
   the notices are its announced part) as theorems about it, as `DeliveryQueueProofs`
   has them of the queue.
2. The steps that the liveness properties rest on, as far as they are safety: that a
   repeat of a half-done request is never refused.

Not modelled, and why. The UI proxy forwards requests and keeps nothing; a request
it does not get through is a failed one of the desk. Layout and styles have no
behaviour. The routes that list events and discrepancies, and the health check,
only read. A pooled endpoint (`postgres.go:44`) changes which session a statement
runs in, outside of this code; the model has the migration lock that a direct
endpoint gives. `WebhookWorker` is not composed with `PaymentService`:
they share one insert and no later read, so a composition would check each of them
again and nothing between them, and the code promises no order of the notices of
one payment (they become due at the same moment and fail one by one).
