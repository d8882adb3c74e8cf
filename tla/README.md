# Elevator ERP: a verification project

Elevator ERP runs the sales, finance, maintenance and messaging of an elevator
company: a NestJS API over PostgreSQL (`src/src`), a Next.js front end
(`src/web`) and a Flutter survey app (`src/mobile`). This directory models the
parts whose correctness depends on the order in which requests, cron jobs, late
answers and crashes interleave, and the rules documents rest on (money, dates,
the company's price formula). TLC checks the models on small instances; TLAPS
proves, for every value of the constants, the central facts of the receivables
ledger, the cash book, quotations and the sales pipeline, the outbox, the document
renderer, the idempotency keys and lock orders, the rate versions, site surveys,
sessions and the accounts of employees.

Paths below are relative to the repository root as it is named in
`PROJECT.json` (`src/...`).

## 1. How the system runs

* Every repository method is one PostgreSQL transaction opened by
  `TenantDbService.withTenant` (`src/src/database/tenant-db.service.ts`), under
  READ COMMITTED: each statement sees what is committed when it starts plus the
  transaction's own writes. An exception rolls the transaction back.
* Three tools order concurrent transactions: `pg_advisory_xact_lock(hashtext(id))`
  taken explicitly, the row lock every `UPDATE` (and `INSERT .. ON CONFLICT DO
  UPDATE`) takes, and unique indexes. All are held to the end of the transaction.
  Guards that are not covered by one of the three are checked against a snapshot
  that may be stale by the time of the write.
* Ledgers (payments, allocations, expenses, bank transactions) are append-only by
  database grant; a mistake is undone by a reversal row with negated amounts.
* Documents carry gapless numbers claimed from `document_sequences`, one row per
  (tenant, kind, fiscal year), inside the transaction that inserts the document.
* Cron jobs (`@nestjs/schedule`) run in the API process: the outbox dispatcher
  every minute, balance reconciliation at 01:00, reminders at 06:00, 07:00 and
  08:00 and also once at boot. The site loses power often (the source says about
  39 times a month), so a process may die between any two statements.
* Tenants are isolated by row level security; the models are of one tenant.

## 2. Inventory

| Component | State | Operations that change it | Interacts with | What is hard | What makes it correct |
|---|---|---|---|---|---|
| Receivables ledger (`invoices`, `payments`, `common/customer-balance.ts`, balance reconciliation) | invoices with status, withholding and number; payments; allocations; stored customer balance | issue an invoice, record a receipt with allocations, allocate, reverse, void, record withholding, nightly reconciliation | document sequences, customers, proformas, reminders read it | lock order over several invoices and payments, guards read before the write, derived status and balance, crash mid-way | no invoice over-settled, no payment overspent, status agrees with money, void is final, reversal is whole and single, numbers gapless, no deadlock, balances heal |
| Idempotency keys (`common/idempotency`) | one row per (tenant, key): fingerprint, stored response, age of the claim | claim, reclaim when stale, complete | wraps the mutating finance endpoints: payments, invoices, expenses, bank transactions | double click while the first request runs, power loss between the handler's commit and `complete()`, reclaim of a slow claimant | at most one execution in flight, a replay answers the request that was made, a stored response is final |
| Outbox (`outbox`) | message rows with status, attempts, next attempt; delivery log of providers | enqueue with a dedupe key, claim due, send, write back sent/retry/failed, manual retry, allow-list block | reminders and users enqueue; SMS providers | crash between send and write-back, overlapping dispatcher runs, reclaim of a row still being sent, retries at the limit | every message ends SENT or FAILED, dedupe, attempts bounded, no send after SENT |
| Document numbering (`document_sequences`, fiscal year) | last value per kind and year | claim inside every issuing transaction | all documents | rollback after a claim, year boundary between two receipts | gapless and unique |
| Quotations (`quotations`) | header with money and status, lines, payment terms, discount sign-off | create, add/update/remove/reorder lines, set VAT, price, sign off, terms, submit, approve, reject, expire | projects (auto-advance), rates, calculator | the draft check takes no lock; header totals are rebuilt from lines another transaction may be adding; the sign-off may land on a price never seen | header equals the sum of its lines, sign-off covers the price, lines frozen after approval |
| Proformas (`proformas`) | snapshot of a quotation, status | issue (compare-and-set on the quotation), cancel | quotations, VAT rate versions, invoices, contracts, projects | VAT rotation between pricing and issue, cancel racing invoice and contract issue | issued once per quotation, at the open VAT version |
| Contracts, instalments, handover (`contracts`) | contract status, schedule, link of instalment to invoice | issue, edit draft, sign, cancel, replace schedule, mark invoiced, hand over | proformas, invoices, projects | unlocked status read before replacing the schedule; cancel and re-issue | schedule sums to the contract value, one invoice per instalment |
| Projects (`projects`) | pipeline stage | create, update status (compare-and-set), auto-advance from documents | quotations, proformas, contracts, handover | auto-advance racing manual changes | stage never moves backwards, terminal stages stay |
| Rates (`rates`) | rate versions with validity intervals per kind | rotate (advisory lock) | quotations, invoices, expenses | two rotations at once | intervals of a kind never overlap, one open version |
| Expenses (`expenses`) | append-only expenses with reversal | record, reverse | sequences, banks | as payments | reversed at most once, numbers gapless |
| Bank accounts and transactions (`banks`) | append-only statement lines linked to payments or expenses | create, update account; record, reverse transaction | payments, expenses | link and reversal racing | a payment is linked once, a reversal is single |
| Employees (`employees`) | users with role, active flag, password state | create, import, update | auth | two demotions of different administrators | an active administrator always remains |
| Auth (`auth`, guards) | refresh token hash, password | login, refresh, logout, change password | employees | refresh reads the user before storing the new token | one live session |
| Reminders (`reminders`) | run results | daily maintenance, payment and warranty sweeps, boot sweep | outbox, notifications | boot sweep and cron overlap, changed due dates | one message per subject and date |
| Notifications (`notifications`) | notification rows | create, mark read | reminders, site surveys | exists-then-insert without a constraint | one notification per link |
| Maintenance (`maintenance`) | maintenance contracts, visits, breakdowns | create, update, log a visit, breakdown life cycle | assets, reminders | read of next service date before its update | next date strictly after the visit |
| Assets and tracking (`assets`) | asset status, checklist, events | create, update, move status, sold-to, checklist | customers, projects, maintenance | compare-and-set of status with an event row | every move leaves an event |
| Customers (`customers`) | customer rows, consent, stored balance | create, update, soft delete | everything | usage check before delete takes no lock | no live document of a deleted customer |
| Site surveys (`site-surveys`, `mobile`) | surveys, conversion link | create, import, update, delete, convert | customers, projects, notifications | converted once (`FOR UPDATE`) | one project per survey |
| Settings, templates, boilerplate (`settings`) | tenant row, branding, document text | update, reorder | every document | reorder of a concurrent list | order stays a permutation |
| Elevator calculator and pricing (`elevator-calc`, `quotations/quote-pricing.ts`, `common/formula.ts`) | product types | calculate (pure), edit product types | quotations | rounding, spreading a negotiated total over lines | parts sum to the whole |
| Exports and documents (`common/export`, `dashboard`) | a render queue, one Chromium, the offset of an export | render, launch, shut down; read a batch, write a row | every list and document | Chromium dies or fails to start, shutdown with renders waiting, paging over a moving table, a client that leaves | one page at a time, a failure costs one document, every request is answered, no more rows missed or repeated than changed |
| Database schema, config, exceptions, DTOs | - | - | - | - | constraints appear in the models of their tables |
| Web and mobile front ends (`web`, `mobile`) | tokens of the client; what is typed and not saved; what the server was last seen to hold | refresh when a call is refused; submit, tap, save, look again | auth, payments, assets, quotations | two calls refreshing at once, answers that are late, lost or of a question no longer asked | a tab signs itself out of nothing, a page shows what is held or a warning, nothing typed is lost |

`PROJECT.json` lists the components with their status and every hazard at its
line, with the properties that would catch it.

## 3. Structure and plan

A module models one component and stands alone: its CONSTANTS, `Init`, one
action per statement, message or step, `Next`, `Spec` and its properties. Nine
modules named `MC...` put components together for TLC:

| MC module | Components |
|---|---|
| `MCLedger` | `Ledger`, `LedgerInvariant`, `LedgerStatement` with `Statement` |
| `MCMoneyRequests` | `Idempotency`, `CashBook`, `LockOrder` (twice: one year, a change of year) |
| `MCBackground` | `Outbox` with `Delivery`, `Renderer`, `Exports` |
| `MCSelling` | `Quotation` (racing; one request at a time), `Sales`, `Instalments`, `Rates` |
| `MCField` | `Staff`, `Sessions`, `SiteSurveys`, `Assets` and `Maintenance` (each racing and one at a time), `Reminders` (three instances) |
| `MCPages` | `ReceiptForm` (two), `PartsChecklist` (three), `LiftLine` (two), `ContentList` (two), `ProductTypes` |
| `MCOneAtATime` | `Ledger` one request of a customer at a time, `MCMoneyRules` (with `Statement`), `MCCalendar`, `Formula` |
| `MCMoneyRules`, `MCCalendar` | the inputs of the pure rules (money and statements; dates) and their reference definitions |

Components put together in one MC module share no row and no lock, so running
them next to each other would add nothing but interleavings of independent
steps. The variable `part` picks the one that goes on in a behaviour; the
variables of the others are idle. Such a module is the disjoint sum of its
parts, and its properties read `part = "..." => ...` where a part must be going
on for the property to mean something. Components that do share state (a
contract and its project, an invoice and a payment, a lift and the records that
copy its customer) are in one module.

Written: all the modules above, and the proofs of section 6. Modules named
`...Proofs` hold theorems about the components of the MC module they extend, or, like
`LedgerProofs`, `QuotationProofs` and `SalesProofs`, about one component; `Sums` has
the lemmas about sums. What is still planned are proofs, in this order:

1. `HistoryReplays` of `Assets`: the events of a lift, replayed, give its status,
   whatever reads and writes interleave;
2. `StatementIsTheBalanceOfSound`: a law for folds over sorted sequences, beside `Sums`;
3. `DamageIsBounded` of `Exports`: a row missed or repeated for each row that changed.

## 4. The models and the code

Everywhere: a transaction that only writes in its last statement is one step
from that statement to its commit, because nothing can see the write before; a
unique index refuses at the insert; a guard that throws rolls back; a crash
drops what was not committed and releases the locks. Bounds on requests,
crashes, faults and days are CONSTANTS whose comments say "bound".

### Ledger (`Ledger.tla`)

A transaction is a process; `pc[t]` names the SQL statement it runs next and
every statement is one action. Committed tables are the variables of
`database`; what a transaction has written and not committed is kept in `rows`,
`spent`, `stat`, `wht`, `num`, and `Commit` publishes it. `StatusSeen`,
`AllocatedSeen` and so on are what READ COMMITTED shows to a statement: the
committed value and the transaction's own writes. `locks[t]` holds advisory
locks (`pg_advisory_xact_lock`) and row locks alike until the end.

| Code | Model |
|---|---|
| `PaymentsRepository.record` | `RecordPayment`, `ClaimNumber`, for each allocation `LockPayment`, `LockInvoice`, `GuardAllocation`, `InsertAllocation`, `DeriveStatus`, `CasStatus`, then the balance |
| `PaymentsRepository.allocate` | `Allocate`, then as above without the number |
| `PaymentsRepository.reverse` | `ReversePayment`, `ClaimNumber`, `LockPayment`, `ReadOriginal`, `LockInvoice` for each, `InsertMirrors`, status of each, balance |
| `InvoicesRepository.issueFromProforma`, `createStandalone` | `CreateInvoice`, `ClaimNumber`, balance |
| `voidInvoice` | `VoidInvoice`, `LockInvoice`, `GuardVoid`, `WriteVoid`, balance |
| `recordWithholding` | `RecordWithholding`, `LockInvoice`, `GuardWithholding`, `WriteWithholding`, status, balance |
| `recomputePaymentStatus` | `DeriveStatus`, `CasStatus`; a compare-and-set that misses is `CasFails`, which the properties exclude |
| `recomputeCustomerBalance` | `ReadInvoiced`, `ReadUnapplied`, `WriteBalance` |
| `BalanceReconciliationService` | `StartSweep`, `ReconcileOne` and the same three |
| a guard that throws | `Refuse` (rollback) |
| power or connection lost | `Crash` |

Abstracted: amounts are small integers in place of two-place decimals (only
sums and comparisons matter); lines, VAT and texts of an invoice; a reversal
inserts its mirrors in one step, which no one can observe because they are
uncommitted and the payment is locked; the four selects of
`recomputeCustomerBalance` are two steps, one for what is invoiced and settled
and one for what is unapplied: a commit that falls between the two selects of a
pair is another way to the same stale balance (section 7).
`invSum` and `paySum` are the two `select sum(...)` of the guards, kept next to
`alloc`; `StoredSumsAreExact` checks that they are those sums, and that a
balance computed without a race within its customer is the derived one.

`LedgerStatement` lays the statement of a customer (`Statement`) beside the
stored balance of the same state.

### Idempotency (`Idempotency.tla`)

One action per database transaction or await of the interceptor: `TryClaim` is
the upsert, `ReadRow` the following select, `Handle` the business transaction,
`Complete` the update with the response. `Die` is a crash at any of them (a
failed query ends the request in the same way) and `GoStale` the thirty seconds.
`Fingerprint` is a constant function from commands to fingerprints: with the
identity it distinguishes bodies, with a constant function it stands for two
URLs that differ in a path id only.

### Outbox and Delivery (`Outbox.tla`, `Delivery.tla`)

`Claim` is the transaction of `claimDue`, atomic because the rows are locked
with SKIP LOCKED before they are updated. A batch is sent in the order
`returning()` gives, which is not specified, hence `Orders`. `SendFails`,
`SendDelivers` and `BlockByAllowlist` are the three ways through `sendOne`;
`WriteBack` and `WriteBackFails` the outcome. Time is relative: `due` counts
down to `next_attempt_at`, `age` up from `updated_at`, and `Tick` cannot let a
send last longer than `SendTime`, the provider's timeout. The assumption
`BatchEndsInTime` is the arithmetic of the source: 20 messages of 10 seconds
fit into the 15 minutes after which a claim is stale.

`Delivery` is what a producer may rely on: unknown, pending, sent or failed, a
delivery only while pending, sent only if delivered, and every pending message
settles. `Promise` in `Outbox` maps QUEUED and SENDING to pending.

A run that selects while another holds row locks skips those rows and takes
later ones; the model lets the second run claim after the first, with the same
set of possible results except for which of several due messages come first,
on which no property depends.

### CashBook (`CashBook.tla`)

Expenses and bank lines, statement by statement. `Ask` sends a request;
`ClaimNumber`, `TakeLock`, `ReadOriginal`, `CheckOnce`, `LookAtLink`,
`InsertMirror` and so on are the statements of recording and reversing an
expense, and of entering, linking and reversing a line.
The advisory lock of a reversal is on the id of the row taken back. `Unreconciled`
is the query for documents without a line. Bank accounts are given: adding or
renaming one changes nothing here.

### LockOrder (`LockOrder.tla`)

The lists of locks in the order the ledger's operations take them, and nothing else
of them, over sequence rows of two fiscal years. Two requests of one year meet at
its sequence row before any invoice, which is why `NeverDeadlock` holds with two
invoices in one year; with one invoice it holds over a change of year too. Invoices,
who settles which (`Settles`) and the years are parameters. Two invoices and a
change of year together are in section 7.

### Quotation (`Quotation.tla`)

One quotation: header, lines, payment terms. `ReadQuote`, `Gate`, `LinesRead`,
`Resync`, `Respec`, `WriteHeader`, `WriteLine`, `IndexLine` are the statements
of `addLine`, `updateLine`, `removeLine`, `reorderLines`, pricing and `setVat`;
`ReadTerms`, `DeleteTerms`, `InsertTerms` replace payment terms; `IssueClaim`,
`IssueGuard`, `CopyTerms`, `CopyLines` freeze a proforma. A row written is locked
to the end (`Others`), a circle is broken by aborting one (`DeadlockAbort`, as
PostgreSQL does). `setVat` is two transactions (`Continued`). A calculator run is
a list price; texts are left out; `Room` in `LinesRead` is a bound on line ids.

### Sales (`Sales.tla`)

A row is its status: customer, project, quotation, proforma, contract, invoice,
and the counters that number them. An operation is a list of statements
(`Check`, `Cas`, `Quiet`, `Touch`, `Insert`, `Move`, `Advance`) taken from its
repository method in the order of the code; `RunCheck`, `RunUpdate`, `RunInsert`,
`RunAdvance` run one each. `Advance` is `autoAdvanceProject`: a read, a rank and
a compare-and-set that may miss.

### Instalments (`Instalments.tla`)

The schedule of one contract: `ReplaceGate`, `DeleteRows`, `InsertRows` and
`MarkGate`, `LinkedElsewhere`, `MarkSet`. Rows have versions, an uncommitted one
is its transaction's alone, and whoever wants it waits.

### Rates (`Rates.tla`)

Rotation under the advisory lock (`TakeLock`, `ReadOpen`, `CloseOpen`, `Insert`)
and the seed of a deploy (`AskSeed`, `Seed`), which takes no lock and is kept
from a second open version by the unique index alone.

### Staff, Sessions, SiteSurveys

`Staff`: create, import and edit of accounts; the rule that an administrator
remains is checked under an advisory lock. Who may manage whom by rank is not
modelled. `Sessions`: one user, several clients. `Send`, `Deliver` and `Lose` are
the way of a request and its answer, `ReadUser` and `IssueTokens` two statements
of `AuthService` with other requests in between. A token is a number. Two
browser tabs that share one storage are the limit the comment at
`src/web/src/lib/api.ts:139` states, so the run has one tab per storage with two
requests under way. `SiteSurveys`: registering, importing, renaming, deleting and
converting sheets; the only lock is the row lock of `convert`.

### Assets, Maintenance, Reminders

`Assets`: reading and writing a lift are two transactions; moves compare the
status, sales do not compare the customer, and events are dated with the start
of their transaction. `Maintenance`: visits and breakdowns, each read and then
written under READ COMMITTED without a lock; a recurrence is a number of days
(`Calendar` has months). `Reminders`: a job reads what is due (`ReadDue`) and
works through its tasks (`Enqueue`, `LookForNote`, `InsertNote`, `FailTask`); the
crons of 6, 7 and 8 o'clock fire in one tick of the model, consent is a constant,
warranties are of signed contracts, and `Rules` selects the sweeps of an instance.

### Renderer, Exports

`Renderer`: the promise chain of `DocumentPdfService`; a job is at one await
(`BrowserAtHand`, `AwaitLaunch`, `OpenPage`, `Draw`, `ClosePage`), Chromium may die
at any of them, and `Destroy` is the shutdown. Launches are bounded. `Exports`: one
export reading by offset, each batch in a transaction of its own, over a table
that changes; the writer either waits for 'drain' (CSV) or races the response
(XLSX). The model starts when the writer does; Node's streams are external.

### ReceiptForm, PartsChecklist, LiftLine

Pages of the web front end with the API as their environment. `ReceiptForm`: the
page that records a receipt; it sends no `Idempotency-Key`, so the API runs every
post. The answer to a recorded receipt only starts the navigation (`leaving`): the
`finally` of `onSubmit` makes the button live again on a form that is still filled,
until `Leave`, which is also a Discard, a link or the browser's back. A request
whose answer is lost makes the button live as well. The clerk enters one receipt
after another (`entry`) and goes on when the form leaves and the receipt seems
recorded (`TakenForRecorded`); this assumption about a person only says which posts
are the same receipt, and when the clerk stops. `PartsChecklist`: taps and typed
details of parts, saved one by one; requests are lost before or after they reach the
server, and the page looks again after a failure. Cases stay open, and no request
lands after the page has given it up. `LiftLine`: which figure of a quoted lift is
typed, derived, completed or priced, through the boxes, the payload, the merge in
`updateLine` and the calculator; the answer arrives with the write, typing during a
save is left out and CUSTOM stands for any product a company adds.

### ContentList, ProductTypes

`ContentList`: `Kind` selects the component table (unique numbers, two passes) or
the prose sections (an order, one pass). A reorder is a transaction of single-row
updates that may wait in a circle (`Victim` is the one PostgreSQL aborts); every
other request writes one row, in one step that waits while a reorder holds the row.
`StartUpdate` and `EndUpdate` are the PATCH of a section that names a `sortOrder`:
it writes that row alone, so the section passes others, and two may come to share a
number, which the key decides. Requests that change neither the rows nor their order
(texts, hiding a section) are left out. `Typed` are numbers a request may name,
`Seeded` how many rows the first deploy had. `ProductTypes`: two-statement requests
on the product list, the first of which may write the default list.

### MoneyRules, Calendar, Statement, Formula

Pure definitions. `MoneyRules` counts cents and basis points, `Calendar` days
since 1970 with the Gregorian calendar of `Date.UTC`, `Statement` the running
balance between two days. `Formula` has the tokenizer, the parser and
`renderFormula` over lexemes: a run of digits, a name, a unit, a sign, a space;
three digits make a group of `Thousand`. Decimal points and aliases are left
out. It builds formulas as trees, and the value of a tree is the reference for
what the text evaluates to. `MCMoneyRules` (for `Statement` too) and `MCCalendar`
hold the inputs and the reference definitions.

## 5. Runs

| Run | Question | Bounds and why they suffice |
|---|---|---|
| `LedgerInvoiceRace` | do two requests racing on one invoice keep it, its status, its reversals and the statement consistent? | 2 requests, 1 invoice, 3 payments (a receipt, its reversal, another receipt), amounts 1 and 2 against a total of 2: exact, under- and over-settlement all occur. Stored balances are left out of the view |
| `LedgerPaymentRace` | and on one payment through two invoices? numbers? deadlock? the inductive invariant? | 2 requests, 2 invoices, 2 payments, receipts with up to 2 allocations in either order |
| `LedgerHeals` | does the night repair a stale balance? | 2 requests, 1 cron, 1 crash, no symmetry because the property is temporal |
| `MoneyRequests` | what do keys promise when no live handler outlasts 30 s? do expenses and bank lines stay whole? do lock orders close a circle? | keys: 4 requests, 2 keys, 2 bodies, 2 deaths (claim, death, takeover, death, second takeover, reader). book: 3 requests, 1 crash, 2 accounts. locks: 3 requests of every kind |
| `Background` | does the outbox implement `Delivery`, does every request for a document get an answer, does an export damage more than what changed? | outbox: 2 runs, batches of 2, 2 messages of which one is not on the allow-list, 2 attempts, 2 faults, 1 manual retry; the time to send a batch is exactly how long a claim stays fresh. renderer: 2 documents, 1 image, 2 faults, 4 launches. exports: 3 rows, batches of 1, 2 changes |
| `Selling` | from quotation to signed contract: what holds whatever interleaves, and what holds for edits one at a time? | quotation: 2 requests racing from four starting points, 1 crash, 3 lines; edits: 3 requests of any kind in sequence, 1 crash; sales: 3 requests over 2 deals of one project from five stages; instalments: 3 requests, 3 invoices; rates: 4 requests, 5 days |
| `OneAtATime` | do balances stay exact where transactions of one customer do not overlap, and do the pure rules agree with their reference? | ledger: 2 requests, which overlap for two customers only (`OnePerCustomer`), an invoice each, 2 payments, 2 lines. rules: every input of the grids in `MCMoneyRules` (money, statements) and `MCCalendar` (leap years, ends of months, weekends, fiscal years). formula: trees of two levels over two numbers and two names |
| `Field` | do people, surveys, lifts, visits and reminders keep their promises? | staff and surveys: 2 requests at once, 3 in all, 1 crash; sessions: 2 clients, 3 requests at once, 3 tokens, 1 lost answer; lifts: 1 lift, 2 customers, 3 requests racing or 4 in sequence; visits: 2 visits, 2 writes; reminders: 2 technicians, up to 5 days, 2 edits, 2 faults |
| `Pages` | do pages show what is held, and do lists and lines keep what was typed and ordered? | receipts: 2 customers, an invoice each, 2 receipts to enter, 3 posts (a receipt, its repeat, the other one), or 3 invoices, 2 posts and 1 lost answer; ticks: 3 parts of 2 cases, 4 taps, 3 lost requests, 1 tick of another person; line: 3 kinds of product, every single typed figure, 3 to 4 edits, 1 change of formula; lists: 2 pages, 3 seeded rows, 4 requests, or 2 seeded rows, 3 requests and a deploy; products: 4 requests |
| `LedgerReversedPair`, `IdempotencyReexecutes`, `QuotationHeaderDrifts` | three statements of comments | violated, section 7 |

What a bundle property contains is its definition in the MC module; each
conjunct is stated with a comment in the module of its component.

Deadlock is checked in the ledger runs. It is off in the others, where the
system may really stop: each request is sent once, documents are printed once,
people stop typing.

Fairness. `Ledger!FairSpec`: a transaction that can take its next statement
takes it (PostgreSQL runs it, and locks are granted), and the cron fires again
and again; requests are never forced to arrive, and a transaction may still be
refused or crash. `Outbox`: time passes, the minute cron claims what is due and a
run goes on with its batch; crashes and lost replies are bounded by `MaxFaults`,
so the promise reads "once faults end". `Renderer`: a job takes the step its
promise has resolved to, a launch that began ends one way or the other and
'disconnected' is delivered. `Exports`: the generator and the writer go on. No
fairness is assumed of clients, operators, providers or Chromium.

The parts "lift" and "visit" of `Field` and "edits" of `Selling` serve one request at
a time, the run `OneAtATime` one of each customer. They show what the code gets right
without a race; where a race breaks the same promise, it is in section 7.

## 6. Proofs

The theorems hold for every set of customers, documents, requests and
connections, every number of crashes and every other value of the constants that
satisfies the ASSUMEs named below. Where TLC checks the same formula, the run
shows it on a small instance and says that the invariant is worth proving; where
a run checks a bundle, the theorem is about one of its conjuncts.

| Module | Theorem | What it states |
|---|---|---|
| `LedgerProofs` | `TypeCorrect`, `SettlementHolds` | types; part 1 of the inductive invariant below |
| | `InvoicesNeverOversettled` | `NoOverAllocation` |
| | `LocksHaveOneHolder` | no advisory or row lock is held twice |
| | `PaymentsNeverOverspent` | `PaymentNotOverspent` |
| | `PaymentsReversedOnce` | `ReversalsAreFlatAndSingle` |
| | `ReversalsAreWhole` | the action property `ReversalUndoesTheWhole` |
| | `StatusesMatchMoney` | `StatusMatchesMoney` |
| | `VoidInvoicesStay`, `VoidInvoicesAreSealed` | a step never changes the row of a void invoice; `VoidIsSealed`, which adds its allocations and that it has no money |
| | `DocumentsAreNumbered` | `NumbersAreGapless` |
| | `NoCircleWaits` | `NoDeadlock` |
| | `AggregatesStayExact` | `AggregatesExact`: stored sums are sums of the rows |
| | `InductiveHolds` | `Inductive`, all eight parts |
| | `BalancesAreExactInCalm` | `StoredSumsAreExact` and `BalancesAreExact`, where transactions of one customer do not overlap |
| `MoneyRequestsProofs` | `KeysTyped` | types of the idempotency keys |
| | `ClaimantsAreAlone`, `AnswersAreHeld`, `ResponsesAreFinal` | `OneClaimantAtATime`, `AnswersHold`, the action property `StoredResponseIsFinal`, where no handler stalls |
| | `LocksNeverDeadlock` | `NeverDeadlock`, in one fiscal year or with one invoice |
| | `BooksAreTyped`, `RowsAreTakenBackOnce`, `DocumentsLeaveTheListForAReason`, `ExpensesAreNumbered` | `TypeOK`, `ReversalsAreFlatAndSingle`, `OffTheListForAReason`, `NumbersAreGapless` of `CashBook` |
| | `MirrorsCancelTheirRows` | a row and its mirror make nothing |
| | `BooksHold` | `BookHolds`: the four above and `BalanceIsOfTheLive` |
| `BackgroundProofs` | `OutboxTyped`, `ClaimsHeldByOne`, `DeliveriesExplained` | types, `ClaimsAreExclusive`, `DeliveriesAreExplained` |
| | `KeepsThePromise` | `Outbox` implements the safety part of `Delivery` |
| | `DocumentsOneAtATime` | `OneDocumentAtATime` of `Renderer` |
| `QuotationProofs` | `QuotationsConvertOnce`, `DiscountsAreSigned` | `ConvertedOnce`, `IssuedDiscountsAreSigned` |
| | `ProformasFreezeOneVersion`, `StatusesMoveByTheTable` | the action properties `ProformaIsOneVersion`, `StatusMoves` |
| `SalesProofs` | `SalesHolds`, `PapersHaveTheirSources`, `SignedProjectsAreWon` | `SalesInvariant`, `TypeOK`, `SignedIsWon` |
| | `NoCircle` | `NoDeadlock` |
| | `ProjectsOnlyAdvance`, `ContractsOnlyAdvance`, `ProjectsFollowContracts` | action properties: what a step may do to a stage and a contract |
| `SellingProofs` | `EveryDayHasItsRate`, `TheIndexIsNeverMet` | `OneRatePerDay`, `ConflictIsUnreachable` of `Rates` |
| | `HistoryIsKept` | the action property `HistoryStands` |
| | `ProformasStaySound`, `SignedContractsAreWon` | `ProformasAreSound`, `SignedIsWon` of `MCSelling` |
| `FieldProofs` | `SomebodyAdministers`, `ImportsMakeAllOrNobody` | `AnAdminRemains`, `ImportsAreWhole` of `Staff` |
| | `SheetsStayWhole` | `SheetsAreWhole`: sheets, their projects and customers, and imports |
| | `RefusalsHaveAReason` | `RefusedForAReason` of `Sessions` |

`Sums` has no theorem of its own about the code: it holds the lemmas about sums that
the ledger and the cash book share.

### Ledger: `LedgerProofs`

Assumptions (`Ledger.tla`): invoice ids are finitely many naturals (the code sorts
them before it locks), the ids rows may be given are finitely many (UUIDs), ids of
invoices and payments are distinct (both are UUIDs), amounts and totals are positive
(the DTOs refuse others), every invoice has an owner, NULL is no value, payment,
status or lock, crons are no requests.

None of the properties is inductive: a guard runs before the write it allows
and the write before the commit, and other transactions move in between.
`LedgerInvariant.tla` strengthens them to `Inductive`, which has eight parts, and
`LedgerPaymentRace` checks it:

1. `SettlementInvariant`, for `NoOverAllocation`: which operation may be at which
   statement and on what (`ControlOK`); locks have one holder; money written and
   not committed is on a locked invoice; an invoice a guard has looked at stays
   locked until the write, so what the guard established is still true then;
   what any transaction sees of an invoice fits its total.
2. `PaymentInvariant`, for payments: whoever has written rows of a payment, or is
   about to, holds its lock, so what the guard found left is left at the write
   (`PaymentCovers`), and the mirrors a reversal writes are the allocations its
   original holds at the commit (`MirrorsOf`). A second reversal of one payment
   waits on that lock and then finds the first.
3. `StatusInvariant`, for statuses: a transaction that has changed the money of an
   invoice and not yet its status still has the status ahead of it (`Pending`),
   holds the lock meanwhile, and what it is about to compare and to set is right
   (`StatusHeldBy`): the compare-and-set of `recomputePaymentStatus` never misses.
4. `NumberInvariant`: whoever has claimed a number holds the row of its sequence
   and the number is the next one; a rollback gives it back.
5. `WaitInvariant`, for `NoDeadlock`: what a transaction may hold at each statement
   (`HeldBy`). An order of the locks is not enough, because a receipt may list
   invoices against the order in which a reversal takes them. The argument is
   that in a circle everybody waits and is waited for, and of those only two
   kinds exist: an allocation in front of its invoice, which holds nothing but its
   payment, and whoever has claimed the receipt number, of which there is one.
   An allocation waits for the holder of an invoice, so for that one; he would
   have to wait for the payment of an allocation, but a receipt's payment is new
   and a reversal that holds invoices is past its payment.

6. `SumsInvariant`: the stored sums are the sums of the rows, and what a transaction
   counts as spent is the sum of the rows it has written (`SpentIsOfRows`). A
   commit adds one payment's row to the table, so each column grows by its entry.
7. `SealInvariant`, for `VoidIsSealed`: receipts only give, and a reversal takes from
   an invoice no more than its original gave (`AllocationsHaveSigns`); a
   reversal settles nothing itself, because its amount is negative and its
   guard leaves no room. So where all payments together give an invoice nothing,
   and the void guard has looked at that sum, each payment nobody has reversed gives it
   nothing (`CleanInvoice`: pair every reversal with its original, no pair is
   negative). A reversal that comes later therefore mirrors no row of a void
   invoice, although `reverse()` never asks for its status.
8. `OwnersInvariant`: a payment settles invoices of its customer only, and a
   transaction writes for the customer whose balance it recomputes.

Each part has a lemma per kind of step (`ControlStepOf`, `OwnStepFits`,
`OthersCommitBenignly`, ...): what the step does to the transaction that takes it,
and why it disturbs no other, which is always the lock. `SettlementStep`,
`PaymentStep`, `StatusStep`, `NumberStep`, `WaitStep`, `SumsStep`, `SealStep` and
`OwnersStep` put them together.

The balance stored on a customer is read in two statements and written in a third,
under a lock that does not cover the reads; races leave it wrong, and the cron
exists to repair that. `BalancesAreExactInCalm` says how far the damage can
reach. `CalmSpec` is `Spec` with one restriction, `OnePerCustomer`: whoever begins
does so when no transaction for its customer is open. Transactions of other
customers overlap as they like, and any may be refused or crash. Then every
stored balance is at any time the derived one; only an overlap within one
customer can leave it stale. The invariant (`CalmInvariant`) says that what a
transaction has summed is what its customer will have when it commits
(`InvoicedAfter`, `UnappliedAfter`), and by `OwnersInvariant` nobody else's commit
changes a term of those sums. The run `OneAtATime` has the same restriction as an
action constraint.

### Sums

The sums of the models are folds of the community modules, recursive functions
on sets that take elements in the order of CHOOSE. `Sums` proves what they come to.
Its induction is the least-number principle (`Least`, from the well-foundedness of
the naturals), applied to the sizes of the subsets that lack a property given as
a set: `SubsetInduction`. From it: such a function exists (`SumsExist`), its value does not
depend on the order (`AnyOrder`), and a sum takes any element away with its amount
(`SumsAdd`, `AddsUp`). The other lemmas are the laws the proofs use: equal amounts,
amounts that add up, one amount that changes, parts, and pairs that cancel
(`PairsCancel`).

### Idempotency

Assumptions: NULL is no row, request, key or command. Three theorems have the
hypothesis `HandlersMayStall = FALSE`: no live handler outlasts the thirty
seconds of its claim. The code does not guarantee it (section 7,
`OneClaimantAtATime`); it is the condition under which the comments of
`idempotency-keys.repository.ts` are right, and the theorems say that nothing
else is needed: crashes, takeovers, repeats and readers come in any number and
order. `IInv` says that the row of a key in execution is the fresh claim of the
one that executes it, that a stored response was made by an execution of that
key and fingerprint, and that whoever runs a handler finds only dead
predecessors that committed. `KeysTyped` needs no hypothesis.

### LockOrder

Assumptions (`LockOrderParameters`, evaluated by `MCMoneyRequests`): payments
settle known invoices, finitely many, a new payment is new, and there is one fiscal
year or one invoice (`OneYearOrInvoice`); with two of both the claim is false (section
7). Every program is `WellOrdered`: the sequence row comes first and the customer
last; a payment that exists is locked under nothing but a sequence row, and a new one
is nobody else's; the row of an invoice comes under its advisory lock; once an
invoice is locked only rows follow, but for requests that hold the receipt number of
the one year. `LockInv` says that what a transaction holds and has yet to take is
a program cut in two. In a circle nobody waits for a customer, a row or a new payment,
because its holder does not wait, or is the one that waits. Whoever waits for an
invoice waits for one that waits in turn, so for the holder of the receipt number, who
would have to wait for another holder of it. Whoever waits for a payment waits for
one that is past the sequence and its payment, so for one that waits for an invoice.
And whoever waits for a sequence row holds nothing to wait for (`NoCircle`).

### Outbox and Renderer

Assumptions: bounds and times are naturals, messages are finitely many, NULL is no
row, and `BatchEndsInTime`: a batch of twenty with the provider's ten-second
timeout ends before its claims are fifteen minutes old, which is what the comment at
`outbox-dispatcher.repository.ts:107` relies on. The invariant behind
`ClaimsAreExclusive` is `ClaimsAreFresh`: a claim ages no faster than its run works
through the batch, so the rest of the batch always fits into the time that is
left, and no message of a live run is ever due for reclaim. `AttemptsAreCounted`
and `DeliveriesAreCounted` charge each attempt or delivery beyond the promised ones
to a fault or a retry that has been counted.

`KeepsThePromise` is the safety half of the refinement that `Background` checks:
under the mapping `Phase` the initial table is that of `Delivery`, and every step
is a step of `Delivery` or changes nothing it sees. The liveness half of
`ImplementsDelivery` stays with TLC.

`Renderer` assumes that jobs are apart from NULL (`JobsAreApart`). `RendererInv` says
that the promise chain has one active job, that a page is the active job's, that the
browser it awaits is the one being launched or up, and that every failed
render has a loss counted to it.

### Quotation

`Parameters` is the hypothesis of each theorem, and `MCSelling` evaluates it
(`QuotationParameters`): the line that stands for a legacy quotation is a line, lines
are finitely many, and a quotation to begin with was not issued yet. The header row is the only lock
all requests share and not all take it first: those that write lines read the
header without it and reach it at the end, so `IInv` says that whoever has
written a line holds the header by its commit, that a header is held by one, and
that the decisions of an issue (its claim, the guard on the discount, the terms and
the lines it copies) agree with what is stored while it holds the header. Lines
rewritten in between belong to a transaction that has yet to reach the header, so
it is not committed before the proforma is. That is why a proforma is one version
(`ProformasFreezeOneVersion`) and why a discount above the threshold, repriced
after its submission, cannot slip through (`DiscountsAreSigned`).

### Rates, Staff, SiteSurveys, Sessions, Sales

`Rates` assumes a calendar with a seed day in it, that every starting table is
`Sound` and that NOBODY is no connection. Its invariant says what a rotation holds
between its statements: the advisory lock, and a picture of the open version that
is still the table's, which is why its close and its insert replace one sound
table by another. The seed takes no lock; its insert is into an empty table or is
refused by the index.

`Staff` assumes at least one founder (an installation starts with an
administrator) and NULL apart from the rest. Between the guard and the write of
a demotion the advisory lock is held, and everybody else who takes an
administrator away must hold it too (`GuardHolds`); creations and imports take
none and only add. `MadeWhenSaid` ties accounts to the request that made them.

`SiteSurveys` and `Sessions` take theirs from `FieldParameters` in `MCField`: NULL is no
number, sheets on file have names, and every call has an app and every app its
store. `SheetsAreNumbered` keeps the forms of
requests apart and the sheets on file old; `ConversionsAreAlone` says that a
conversion past the row lock of its sheet is the only one there, and the sheet has no
project yet. Of `Sessions`, `TokensAreApart` says that
no two devices or requests under way carry one token, `TokensAreUsable` that what a
device keeps or sends is the server's valid token, or its exchange is granted and
on its way back. A refusal then needs a cause outside (`ended`).

`Sales` has its assumptions as one definition, `Parameters`, the hypothesis of each
theorem; `MCSelling` evaluates it (`SalesParameters`) on the instance of its run. A
request is a list of statements, so `SalesInvariant` says of each connection that
it stands somewhere in the program of its request (`Placed`: between two
statements, between the read and the compare-and-set of `autoAdvanceProject`, or
within a manual move), that what its statements wrote is still its own and
unseen (`Effect`, `WritersAreAlone`), and that what it read without a lock still
supports what it will write (`Prudent`). The last is the heart of `SignedIsWon`:
a signature about to commit has either moved its project, or found it at a stage
from which no request can take it back below CONTRACT. `NoCircle` orders the rows
(`Level`: quotation, sequence, papers, project, its stamp, customer); no request
waits for a row below or beside one it holds.

### CashBook

`CashBookParameters`, an ASSUME of `MCMoneyRequests`, is the hypothesis of each
theorem: payments have an account or none, amounts are whole
numbers of cents, NULL is apart, and the books are sound to begin with. `BookInv`
says of each request where in its handler it stands and that what it has found out is
still so. What keeps it so differs: the advisory lock of the row for a
reversal (`TakesBack`), the row of the sequence for a number
(`HoldsTheCounter`), the unique indexes of links for a line (`EntersALink`), and,
for what a request reads without a lock, that rows once written never change:
the account of a payment or an expense that a line has looked at is the same when
the line is written. The rest is two lemmas about data, `OneMoreExpense` and
`OneMoreLine`: sound books with the row of one commit are `Sound`.

`BalanceIsOfTheLive` follows: mirrors and their originals pair off, on one account,
with amounts that cancel, and what is left are the rows that stand
(`TotalIsOfTheLive`).

### Compositions

A module `MC...` runs one of its parts in a behaviour, so a theorem about it splits on
`part`: where the part is the component's, the behaviour of the component's
variables is one of its specification, and elsewhere they keep their initial
values, in which the property holds. `SellingProofs` states this once for quotations,
sales and rates (`QuotationIsQuotation`, `SalesIsSales`, `PartsStay`) and takes the
components' theorems as they are. `BackgroundProofs` and `FieldProofs` prove
`MCSpec => ...` from invariants of the components instantiated there.
`LocksNeverDeadlock` and `BooksHold` are about `L!Spec` and `B!Spec`, the
specifications of the components with the connections of the composition;
`NeverDeadlock` with one invoice over a change of the year is the other disjunct
of `OneYearOrInvoice`.

### What is only model-checked, and why

* Liveness (`ReconciliationHeals`, the liveness half of `ImplementsDelivery`,
  `EveryRequestIsAnswered`) and anything with ENABLED.
* `StatementIsTheBalanceOfSound` and `ScheduleMakesTheValue`: folds over sequences, for
  which there is no module like `Sums`. The balance that the first compares the
  statement with is the subject of `BalancesAreExactInCalm`.
* `Formula`, `MoneyRules`, `Calendar`: what a recursive definition computes on
  every input. Their grids are checked against reference definitions.
* `DamageIsBounded`, `EditsKeepTheQuotation`, `LiftsAndVisitsHold`, `VisitsRoll` and
  `PeopleAreTold`: promises of one request at a time, of one reader against a
  changing table or of a day's sweep, where a run over all sequences of a few requests
  says most of what a proof would.
* The pages (`FormsShowWhatIsHeld`, `LinesAndRowsHold`, `EditsStand`): many small
  components of one user each, which the run explores to the end.

## 7. Where the code and its comments part

Three are runs that expect the violation:

* `LedgerReversedPair`: `guardAndInsertAllocation` never asks whether the payment
  has been reversed. A reversed payment can be allocated afterwards; the invoice
  then counts money that was given back.
* `IdempotencyReexecutes`: the response is stored in a second transaction, so a
  crash in between and a repeat thirty seconds later execute twice.
* `QuotationHeaderDrifts`: two line edits each rebuild the header from the lines
  they see; the total of the one that read first may be written last.

The rest were met while modelling. The definitions are in the modules, and a
definition listed here is violated when it is put into the configuration of a
small instance of its module (two requests, one crash or one lost answer; two
stalled handlers for `OneClaimantAtATime`, `StoredResponseIsFinal` and
`ReplayAnswersTheRequest`, two invoices and two years for
`NeverDeadlock`, no lost answer at all for `OneReceiptEach`, three faults with taps on
cases for `ShownIsHeld`, two patchers and editors together for `LiftLine`,
`GroupInCalls = TRUE` for `RenderKeepsValue`). No run lists them, so a change of the
code has to be checked against them by hand.

| Definition | What the code does | Code | Says otherwise |
|---|---|---|---|
| `BalanceExactAtRest` of Ledger | The code recomputes the balance in the transaction of the invoice but without a lock on the customer, so of two concurrent requests of one customer the one that read first may store its sum last, and with nothing in flight the stored balance differs from the derived one until the next write or the night. | `src/src/modules/invoices/invoices.repository.ts:499` | `src/src/common/customer-balance.ts:62-67` |
| `OneClaimantAtATime` of Idempotency | A claim is taken over by age alone; no statement or lock timeout bounds a handler, so a request of the same single instance that waits more than thirty seconds for an advisory lock runs together with its repeat. | `src/src/common/idempotency/idempotency-keys.repository.ts:68` | `src/src/common/idempotency/idempotency-keys.repository.ts:21-24` |
| `StoredResponseIsFinal`, `ReplayAnswersTheRequest` of Idempotency | complete() updates the row by its key alone. A handler that outlives its claim stores its response over that of the request that took the claim over, which may have been handed out, and with another body under the same key the next repeat is answered with the response to the other body. | `src/src/common/idempotency/idempotency-keys.repository.ts:108` | `src/src/common/idempotency/idempotency.interceptor.ts:24` |
| `ReplayIsGenuineRepeat` of Idempotency | The fingerprint hashes the handler's name and the body but not the path, so one key sent with the same body to /payments/A/allocations and /payments/B/allocations replays A's response to B. | `src/src/common/idempotency/idempotency.interceptor.ts:77` | `src/src/common/idempotency/idempotency-keys.repository.ts:35-36` |
| `KeepsApproved` of Quotation | requireDraft reads the status without a lock and the writes that follow name the row by id only: a quotation approved between the two still gets the line. | `src/src/modules/quotations/quotations.repository.ts:815` | `src/src/modules/quotations/quotations.repository.ts:310-312` |
| `SignOffCoversThePrice` of Quotation | setDiscountApprovedBy stamps the row by id after an unlocked read; a repricing that commits in between is signed without having been shown. | `src/src/modules/quotations/quotations.repository.ts:562` | `src/src/modules/quotations/quotations.repository.ts:536-542` |
| `KeepsALine` of Quotation | The count of lines is taken from an unlocked read, so two requests that each remove one of two lines both find two. | `src/src/modules/quotations/quotations.repository.ts:403` | `src/src/modules/quotations/quotations.repository.ts:386-390` |
| `DealHolds` of Quotation | setVat drops the negotiated price in one transaction and applies it again in others; a process that dies, or a repricing that is refused, in between leaves list price plus VAT. | `src/src/modules/quotations/quotations.service.ts:373` | `src/src/modules/quotations/quotations.service.ts:353-356` |
| `HandedOverIsCompleted` of Sales | autoAdvanceProject reads the stage and then sets it by compare-and-set; when a manual move to EXECUTION commits in between, the update matches no row, the handover commits, and the project stays in EXECUTION with nothing left to move it. | `src/src/modules/projects/project-auto-advance.ts:54` | `src/src/modules/contracts/contract-handover.repository.ts:44-46` |
| `PapersComeFromLiveProformas` of Sales | The proforma is read without a lock and the insert does not look again, so a contract (or invoice) is created for a proforma that has been cancelled meanwhile. | `src/src/modules/contracts/contracts.repository.ts:223` | `src/src/modules/contracts/contracts.repository.ts:243` |
| `CancelledContractsAreReplaceable` of Sales | The check for an existing contract does not look at its status, and the unique index of database/schema/contracts.ts:139 covers cancelled rows too: after a cancellation the proforma can never be contracted again. | `src/src/modules/contracts/contracts.repository.ts:247` | `src/src/modules/contracts/contracts.repository.ts:254` |
| `VoidedInvoicesAreReplaceable` of Sales | invoices_proforma_uk counts voided invoices, so a proforma whose invoice was voided can never be invoiced again. | `src/src/database/migrations/0039_invoices_proforma_unique_partial_index.sql:17` | `src/src/database/schema/invoices.ts:138-139` |
| `DeletedCustomersHadNothing` of Sales | The counts are plain reads under READ COMMITTED and creating a project neither locks nor checks the live customer, so a project commits between the count and the delete. | `src/src/modules/customers/customers.repository.ts:351` | `src/src/modules/customers/customers.repository.ts:348-350` |
| `ContractStageIsStamped` of Sales | Signing a contract moves the project to CONTRACT through autoAdvanceProject, which does not set wonAt; only the manual move does, and the dashboard counts deals won by it. | `src/src/modules/projects/project-auto-advance.ts:56` | `src/src/modules/dashboard/dashboard.repository.ts:283` |
| `InvoiceLinkedOnce` of Instalments | Both requests read that the invoice is linked nowhere and both set their own row; no index prevents it, as the comment at :197-202 admits. | `src/src/modules/contracts/contract-instalments.repository.ts:203` | `src/src/modules/contracts/contract-instalments.repository.ts:215` |
| `LinksSurvive` of Instalments | The gate reads DRAFT without a lock; the contract can be signed and an instalment invoiced before the DELETE runs, which removes the linked row. | `src/src/modules/contracts/contract-instalments.repository.ts:112` | `src/src/modules/contracts/contract-instalments.repository.ts:79-81` |
| `SignedAmountsAreFixed` of Instalments | The status is read and never looked at again, so amounts change after the signature. | `src/src/modules/contracts/contract-instalments.repository.ts:101` | `src/src/modules/contracts/contract-instalments.repository.ts:71-73` |
| `NeverDeadlock` of LockOrder | What keeps a receipt and a reversal apart is that both begin with the row of one RECEIPT sequence; the row is that of today's fiscal year, so around its first day they take different rows, and a receipt that lists two invoices against the order of their ids waits in a circle with a reversal. | `src/src/modules/payments/payments.repository.ts:755` | `src/src/modules/payments/payments.repository.ts:275-279` |
| `NewestSignInHolds` of Sessions | issueTokens writes the token by id whatever the row holds by then: a refresh of the first device that has read the row before the second signs in and writes after it overwrites the newer token, so the second device is the one that is evicted. | `src/src/modules/auth/auth.service.ts:200` | `src/src/modules/auth/auth.service.ts:195-197` |
| `SessionsFollowThePassword` of Sessions | A refresh that has compared its token before a reset and writes its successor after it leaves a refresh token in the row that goes back to the password before. | `src/src/modules/auth/auth.service.ts:200` | `src/src/modules/employees/employees.repository.ts:354-355` |
| `DroppedLinkSignsNobodyOut` of Sessions | The API rotates the token before its answer arrives; when that answer is lost the phone still holds the old token, its next refresh is refused and the app clears its tokens. | `src/src/modules/auth/auth.service.ts:200` | `src/mobile/lib/api.dart:196-197` |
| `PasswordChangeKeepsThisSession` of Sessions | setOwnPassword empties the one refresh token of the user, which is also that of the browser the password was changed in, and the answer brings no other. | `src/src/modules/auth/repositories/users.repository.ts:78` | `src/web/src/app/account/password/page.tsx:66` |
| `GivenPasswordsAreTemporary` of Sessions | update writes the new hash but never mustChangePassword of its patch, so a password reset by an administrator is not temporary. | `src/src/modules/employees/employees.repository.ts:357` | `src/src/database/schema/users.ts:42-46` |
| `ImportSkipsWhatIsThere` of Staff | The rows to insert are chosen by a read of the same transaction, and the insert has no ON CONFLICT: an account made by somebody else after that read fails the whole import on users_tenant_email_unique. | `src/src/modules/employees/employees.repository.ts:277` | `src/src/modules/employees/employees.repository.ts:239-241` |
| `RegisteredOnce` of SiteSurveys | The duplicate check is a plain read and no index stands behind it: two sheets sent together under one name are both registered. | `src/src/modules/site-surveys/site-surveys.repository.ts:418` | `src/src/modules/site-surveys/site-surveys.repository.ts:408-410` |
| `CadenceHolds` of Calendar | Each interval is added to the date the last one was clamped to, so a schedule that starts on the 29th, 30th or 31st moves to the last day of a shorter month and stays there. | `src/src/modules/maintenance/recurrence.ts:64` | `src/src/modules/maintenance/recurrence.ts:53-55` |
| `OneNotificationPerFact` of Reminders | Looking for a notification and inserting it are two transactions, and a boot sweep that is still running when the cron fires passes between them, in one process. | `src/src/modules/notifications/notifications.repository.ts:122` | `src/src/modules/notifications/notifications.repository.ts:115-119` |
| `ReassignedIsTold` of Reminders | The key of an assignment is the breakdown and the assignee, so a breakdown handed from A to B and back to A finds A's old SMS and notification and announces nothing. | `src/src/modules/reminders/maintenance-reminders.service.ts:357` | `src/src/modules/reminders/maintenance-reminders.service.ts:356-357` |
| `WarrantySmsMatchesCertificate` of Reminders | The key is the contract and the days before the expiry, not the expiry: when a handover moves it, the notice of the new date is swallowed as a repeat and the customer keeps the one with the old date. | `src/src/modules/reminders/warranty-reminders.service.ts:103` | `src/src/modules/reminders/warranty-reminders.service.ts:33-34` |
| `LoggingRolls` of Maintenance | Both visits start from the next service date they read, and the update that stores the new one does not compare it: the second visit rolls nothing. | `src/src/modules/maintenance/maintenance.repository.ts:370` | `src/web/src/app/maintenance/page.tsx:574` |
| `VisitsOnlyOnActive` of Maintenance | The status is read without a lock and the contract is updated by its id alone, so a visit lands on a contract paused or ended in between. | `src/src/modules/maintenance/maintenance.repository.ts:377` | `src/src/modules/maintenance/maintenance.repository.ts:343` |
| `ClosedStaysClosed` of Maintenance | updateBreakdown always writes the status it read, so an assignment that read ASSIGNED undoes a DONE written in between and clears resolvedAt. | `src/src/modules/maintenance/maintenance.repository.ts:773` | `src/web/src/app/docs/content.ts:1050` |
| `AssignedHasAssignee` of Maintenance | A request that sets the status to ASSIGNED is taken whether or not there is an assignee; it is what the button at `web/src/app/maintenance/page.tsx:527` sends, and nobody is told. | `src/src/modules/maintenance/maintenance.repository.ts:752` | `src/web/src/app/docs/content.ts:1050` |
| `RecordsFollowTheSale` of Assets | The check for contracts and breakdowns and the change of the customer are separate transactions, and createContract reads the lift without a lock, so a contract keeps a customer the lift is no longer sold to. | `src/src/modules/assets/asset-tracking.service.ts:112` | `src/src/modules/assets/asset-tracking.service.ts:110-111` |
| `ToSiteIsSold` of Assets | The move is compared with the status read, not with the customer read, so a lift whose customer was cleared in between goes to site. | `src/src/modules/assets/asset-tracking.repository.ts:119` | `src/web/src/app/docs/content.ts:961` |
| `NewestSaleIsCurrent` of Assets | An event is dated with the start of its transaction, which may have waited for the row of the other: sorted by that date, the sale in force is not the first. | `src/src/modules/assets/asset-tracking.repository.ts:105` | `src/src/modules/assets/asset-tracking.repository.ts:75` |
| `NothingAfterDeletion` of Assets | setSoldTo writes the event without asking whether its update found the lift, as moveStatus does, so a sale is in the history of a lift deleted before it. | `src/src/modules/assets/asset-tracking.repository.ts:209` | `src/src/database/schema/assets.ts:137` |
| `StatementIsTheBalance` of LedgerStatement | The derived balance leaves reversed payments out and counts what was allocated from them, the statement counts both payments in full: an allocation of a payment that has been reversed sets them apart. | `src/src/common/customer-balance.ts:126` | `src/src/modules/customers/customer-statement.spec.ts:139` |
| `NothingLeftBehind` of Renderer | onModuleDestroy looks at the browser and the launch once and does not look at the render queue: a render that waits there, or a launch that follows a failed one, starts a Chromium after the service has been destroyed and nobody closes it. | `src/src/common/export/document-pdf.service.ts:470` | `src/src/common/export/document-pdf.service.ts:466-469` |
| `DisconnectEnds` of Exports | writeCsv listens for 'close' only while it waits for 'drain'. A client that disconnects during a batch query has closed the response before the next write answers false; 'close' does not come again and neither does 'drain'. | `src/src/common/export/tabular.ts:139` | `src/src/common/export/tabular.ts:83-86` |
| `OneReceiptEach` of ReceiptForm | The answer to a recorded receipt starts a navigation and makes the button live again, with all that was typed still in the form: a second click before the page has left records the receipt twice, and so does one after an answer that was lost. recordPayment sends no Idempotency-Key, so the interceptor lets every post through. Part of it is kept: a click while the first receipt is under way records nothing (`TwiceOnlyOnceHeard`). | `src/web/src/app/invoices/payments/new/page.tsx:203` | `src/web/src/app/docs/content.ts:707` |
| `ShownIsHeld` of PartsChecklist | A save of a case landed and its reply was lost, so the page shows the case as before with a warning. If one of its parts is then tapped and saved before the page could look again, the warning of the whole case goes while its other parts still show the mark the server no longer holds, and nothing looks again. | `src/web/src/app/assets/use-asset-parts.ts:114` | `src/web/src/app/assets/use-asset-parts.ts:112` |
| `TicksStay` of PartsChecklist | `saves` moves when a save starts and when it ends. A look that starts while a save is under way and is answered before it ends sees the same number twice, so what the server held before the tick is put over the tick. | `src/web/src/app/assets/use-asset-parts.ts:80` | `src/web/src/app/assets/use-asset-parts.ts:47` |
| `DetailFailureShows` of PartsChecklist | The quantity and the note of a part share one state, so a note that is saved takes down the failure of the quantity. | `src/web/src/lib/asset-checklist.ts:60` | `src/web/src/lib/asset-checklist.ts:57-58` |
| `TypedLoadNeverPriced` of LiftLine | A load typed over the table's is stored as capacityKg too. When the line moves to a product outside the table the override is dropped, but capacityKg stays (the page sends it, a patch merges it), so the typed load is priced. For the travel and the speed updateLine drops the stored figure in the same case. | `src/src/modules/quotations/quotations.service.ts:284` | `src/src/modules/elevator-calc/elevator-calc.service.ts:204` |
| `TypedTravelNeverPriced` of LiftLine | The page fills its travelHeightM box from the stored travel, typed or not, and sends it when the product is priced on its travel. A lift with a typed travel that is moved to such a product, or whose company formula comes to price the travel, is priced on the typed one; for the speed, speedForDraft keeps the typed one out. | `src/web/src/app/quotations/[id]/edit/line-payload.ts:156` | `src/src/modules/quotations/quotations.service.ts:293-294` |
| `SummaryFollows` of LiftLine | A page sends the description it was loaded with. If another page has saved since, that text is not the stored one, so it counts as typed by hand: both people put the lift on five floors and it is offered at 1 m/s beside a description that says 1.5 m/s, and no later edit of the figures corrects it. | `src/src/modules/quotations/quotations.service.ts:315` | `src/src/modules/quotations/quotations.service.ts:310` |
| `UnmentionedStays` of LiftLine | The line is read in one transaction and written whole in another, so of two patches that overlap the later one writes back what it read of the other's field. | `src/src/modules/quotations/quotations.service.ts:260` | `src/src/modules/quotations/quotations.service.ts:766` |
| `KeepsPrice` of LiftLine | A passenger lift quoted on typed figures has no shaft. The page shows the worked example's shaft in the empty boxes and sends it with any save, so changing the description reprices a 1000 kg lift as the 800 kg one of an 1835 mm shaft. | `src/web/src/app/quotations/[id]/edit/lines-editor.tsx:70` | `src/web/src/app/quotations/[id]/edit/line-payload.ts:125` |
| `RenderKeepsValue` of Formula | renderFormula groups the digits of every figure, inside a call too, where the tokenizer takes a comma for a separator: with C = 1000, max(C, N) is written as max(1,000, N), which reads back as the three values 1, 0 and N. | `src/src/common/formula.ts:459` | `src/src/common/formula.ts:446` |
| `SeedsOnce` of ContentList | The seed finds a component that is there by its row number, not by what it is. Once a company has deleted a component, the next run of the seed inserts the default of the free number again, and after a reorder it may be one that is still in the table. | `src/src/modules/settings/seed-document-content.ts:271` | `src/src/modules/settings/seed-document-content.ts:232` |
| `AddedLast` of ContentList | The last number is read without a lock and written in a later statement. If the last row is deleted between the reads of two requests, the one that read second may write the smaller number after the other's row is there, and its component prints before it. | `src/src/modules/settings/document-content.repository.ts:193` | `src/src/modules/settings/dto/document-content.dto.ts:103` |
| `NeverNothingToSell` of ProductTypes | Of two readers that both find no product, the second inserts none of the defaults (the first has written them) and returns the rows it inserted: an empty list. Its settings page opens empty, and a calculation it makes finds no product. | `src/src/modules/elevator-calc/product-types.repository.ts:241` | `src/src/modules/elevator-calc/product-types.repository.ts:15` |
| `CreatedWhereNoneIs` of ProductTypes | A removed product is brought back by its id alone. When two people create it again at once, the second overwrites the price of the product the first has just created instead of being refused, and both are told that they created it. | `src/src/modules/elevator-calc/product-types.repository.ts:299` | `src/src/modules/elevator-calc/product-types.repository.ts:291` |

`OneClaimantAtATime`, `StoredResponseIsFinal`, `ReplayAnswersTheRequest`,
`NeverDeadlock`, `ShownIsHeld`, `BalanceExactAtRest`, `SignOffCoversThePrice`,
`KeepsALine`, `KeepsApproved`, `RecordsFollowTheSale`, `ToSiteIsSold`,
`VisitsOnlyOnActive`, `TypedTravelNeverPriced`, `SummaryFollows`, `KeepsPrice` and
`RenderKeepsValue` hold in the runs of section 5 because those instances leave out
the case in the table: no race, no lost answer, no stalled handler, no group in a
call.

Four of them have a weaker form in the runs, which says what is left of the promise:
`TwiceOnlyOnceHeard` (`OneReceiptEach`), `SignOffFallsWithThePrice` (a signature that
does not cover the price was given for one that changed since its signer read it),
`DealHoldsOrIsGone` (a crash inside `setVat` costs the deal, and then all of it) and
`ReconciliationHeals` (a stale balance is repaired by a night). `StoredSumsAreExact`
says nothing of that race: in its run the transactions of one customer do not
overlap.

## 8. Not modelled

* Collisions of `hashtext()` advisory keys (two customers sharing one lock only
  wait longer), row level security (declarative; the models are of one tenant),
  the clock skew between API and database, and failures of a statement other
  than those that abort its transaction.
* Message templates, guards of roles, bank account names, branding and company
  settings, the dashboard, listing queries: single statements on one row, or reads.
* About nine tenths of the source lines are not state machines: page layout and
  forms that load, show and post (`src/web`, `src/mobile`), document templates and
  their layout (`common/export/templates`), DTOs and validation, tables of
  products and checklists, help texts, schema declarations. A model of them would
  repeat them. The modules stand for the lines that decide, lock, order, retry
  or compute; `PROJECT.json` gives the reason for each component left out or
  modelled in part.
