# Qistas: a TLA+ verification project

Qistas is a Django application for a law office: clients, cases, courts, hearings,
tasks, contracts, documents, fee agreements, invoices and payments. This directory
models the parts of it whose correctness depends on the order in which requests,
transactions and cron commands run, model-checks them on small instances with TLC, and
proves the central properties for every instance with TLAPS.

## 1. The system

### 1.1 How it executes

* **Requests.** gunicorn workers serve requests concurrently. `ATOMIC_REQUESTS` is off
  (`config/settings/base.py`), so a view runs in autocommit: it loads an instance with one
  query, validates a form (a `ModelForm` already mutates that instance), and then calls a
  service. Each service is one `@transaction.atomic` function on PostgreSQL at READ
  COMMITTED.
* **Stale instances.** Most services decide on *the instance they are handed*. Between the
  view's `SELECT` and the service's first `UPDATE` any other transaction may commit.
  `save()` then writes **every** column of the instance; `save(update_fields=[...])` writes
  only those columns.
* **Locks.** A row is locked from the first `UPDATE`, or from `SELECT ... FOR UPDATE`, to
  the end of the transaction; other writers of the row wait. Only `next_number` and the
  four "locked" finance services (issue, payment, reversal, credit note) re-read under a
  lock. Django declares its foreign keys `DEFERRABLE INITIALLY DEFERRED`, so inserting a
  child row takes no lock on the parent before COMMIT.
* **Commands.** There is no task queue (ADR-0005). `expire_contracts` and
  `generate_notifications` are management commands run by cron; two runs may overlap, and
  one may be killed.
* **Trail.** `audit.events.log_event` and `cases.services.record_case_event` write
  append-only rows in the service's own transaction.

A model therefore splits an operation where another transaction can get in between: the
load, each wait for a lock, and the commit; everything else in a service is one step. A
worker that dies, a validation error and a violated CHECK all roll the transaction back.

### 1.2 Components

| Component (source) | State | Operations | What is hard | What makes it correct | Status |
|---|---|---|---|---|---|
| Money arithmetic (`core/money.py`, totals in `finance`) | none | `quantize`, line total, tax, invoice total | half cents, discount above the subtotal | nearest cent; no negative total | modelled, proved |
| Reference numbers (`core/numbering.py`) | one row per (scope, year) | `next_number` | first number of a year, rollback after the increment | 1, 2, 3, ... in commit order; everyone is served | modelled, proved |
| Invoices and ledgers (`finance`) | invoice row, line items, payments, reversals, credit notes | create, edit, add/remove line, issue, cancel, pay, reverse, credit | stale draft edits against locked operations; stored derived columns | frozen when issued; books add up; no over-collection | modelled, proved |
| Fee agreements (`finance`) | status and terms | create, edit, change status | full save of a stale copy | transition table | modelled, proved |
| Contracts (`contracts`) | status, end date | create, edit, change status, expiry scan | scan against requests; overlapping and killed scans | transition table; overdue is caught | modelled, safety proved |
| Hearings (`hearings`) | status, date, next date, predecessor | schedule, update, complete, postpone, cancel | double closing, follow-ups, timeline | one follow-up; closed is final; timeline tells the date | modelled, proved |
| Expenses (`finance`) | one row, retired or not | create, edit, retire | full save of a stale copy | nothing changes unlogged | modelled, proved |
| Tasks and deadlines (`tasks`) | status, completion time, deletion | create, edit, change status, delete | full save of a stale copy beside a two-column save | stamped exactly when completed; nothing changes unlogged | modelled, proved |
| Clients and courts (`clients`, `courts`) | status, other fields | create, edit, archive, restore, (de)activate | full save of a stale copy | nothing changes unlogged | modelled, proved (courts: see 2.6) |
| Cases and their people (`cases`) | status, supporting lawyers, parties, timeline | create, edit, change status; add and remove lawyers and parties | `get_or_create` races, double removal | the timeline tells the team | partly: notes and confidential notes left out |
| Documents (`documents`) | row and stored blob | upload, edit, retire, download | the blob is written before the row commits | a committed row has its blob | modelled, proved |
| Notifications (`notifications`) | rows keyed by (recipient, key), read marks | five scans, bulk insert, mark read | overlapping scans, stale user lists, rescheduled dates | one per key; everybody concerned is told | modelled but for `notify`, safety proved |
| Lists, tabs, reports, dashboard (`*/selectors.py`, `reports`, `dashboard`) | none | pages built from two to nineteen queries | each query sees another moment; joins that multiply rows; two queries for one number; a number and a link built apart | a page agrees with itself; how its numbers relate to the lists they lead to; what is listed opens | modelled, proved |
| Agenda (`agenda`) | none | day, week and month screens | half-open windows, month boundaries | no day and no event is missing | modelled, proved |
| Audit (`audit`) | append-only rows | `log_event` | an event left out, or written twice | the last event tells the stored status | partly |
| Accounts, sessions, one-time codes, capabilities | sessions, users | sign-in, checks | - | guards every view | not modelled |
| Forms, templates, static, locale, settings, migrations, seeds | none | presentation, deployment | - | - | not modelled |

Interactions: every component that hands out a reference calls `next_number` inside its own
transaction (Numbering; abstracted to the counter `seq` in InvoiceLedger). Hearings,
contracts, invoices, documents and tasks write the case timeline. The notification scans and the
pages read the tables of every other component. `Office` puts the records, the people of a
case, the finance tables and one page under construction together; `InvoiceLedger` and the
finance tables of `Office` are tied by the abstract module both implement, `Receivable`.

## 2. Modules

| Module | Role |
|---|---|
| `Money` | cents, rounding, invoice total |
| `MoneyProofs` | bounds of those operators; sums over finite sets |
| `Receivable` | abstract: what an invoice promises about money |
| `InvoiceLedger` | invoices, lines, payments, reversals, credit notes, under concurrent requests |
| `MCInvoiceLedger` | instances for TLC |
| `InvoiceLedgerProofs` | theorems about InvoiceLedger: draft races included, then with one clerk per draft |
| `NumberSource` | abstract: numbers in commit order |
| `Numbering`, `MCNumbering`, `NumberingProofs` | `next_number` |
| `Agreements`, `MCAgreements`, `AgreementsProofs` | contracts, fee agreements, expiry scan |
| `Hearings`, `MCHearings`, `HearingsProofs` | hearings of a case |
| `Notifications`, `MCNotifications`, `NotificationsProofs` | reminder scans and the inbox |
| `OfficeRecords` | tasks, deadlines, cases, clients, courts, documents, expenses under concurrent requests |
| `CaseTeam` | supporting lawyers, parties and the timeline of a case |
| `FinanceBooks` | the finance tables the pages add up, as steps of `Receivable` |
| `OfficePages`, `FinancePages` | what each list, tab and report asks for |
| `Agenda` | calendar arithmetic |
| `Office`, `MCOffice` | the composition, with one page being built; instances for TLC |
| `OfficeProofs` | theorems about the records, the team and the books in `Office` |
| `PagesProofs` | theorems about the pages of `Office` |

Operators called `...Mutant`, and the three variants of `AppliedStatus`, are plausible bugs of
the definition right below them. No action uses them; putting one in place of the real
definition shows that a property notices the bug.

### 2.1 InvoiceLedger

`inv[i]` is the stored row: status, number (0 for NULL), discount, rate, total, paid. Subtotal
and tax are functions of the lines, discount and rate wherever the code reads them, so they
are not stored again. `lines[i]` are the line items, `pay[p]` a payment with the sum of
its reversals, `credited[i]` the sum of the credit notes, `seq` the sequence row of this
year's invoice numbers. `received[i]`, the sum of the payment rows less their reversals, is an
operator: the sum `paid` must agree with. `req[w]` is the request worker `w` is serving: the instance it loaded (`snap`),
the line it adds or removes, the lines its aggregate summed (`seen`).

| Code | Action |
|---|---|
| `create_invoice` | `CreateInvoice` |
| view loads the draft, `_require_draft` | `BeginDraftEdit` |
| INSERT/DELETE of a line and the `Sum` of `recalculate_invoice` | `SumLines` |
| the `save(update_fields=...)` and COMMIT of `add_line_item` / `remove_line_item` | `AddLine`, `RemoveLine` |
| `update_invoice` (full save, recalculation under the lock that save took) | `UpdateInvoice` |
| `cancel_invoice` | `CancelInvoice` |
| `select_for_update().get(...)` | `LockInvoice` |
| `issue_invoice`, `record_payment`, `reverse_payment`, `issue_credit_note` after it | `IssueInvoice`, `RecordPayment`, `ReversePayment`, `IssueCreditNote` |
| exception, CHECK violation, dead worker, form that changes nothing | `Rollback` |

`SumLines` is a step of its own because the aggregate reads without a lock: two transactions
that add lines to one draft do not see each other's line.

ADR-0032 (lines 240-242) chose not to build optimistic locking for drafts because "a draft is
single-office-clerk work". The constant `SingleDraftClerk` is that assumption: TRUE lets a
draft edit, or an issue, begin only when no other is under way on the same invoice. Payments,
reversals and credit notes are never restricted.

`Receivable` says the same without rows and requests: an invoice is billed once, for a
fixed positive amount; money is collected only while it is open and up to what the credit
notes leave; what was collected can be given back, even on a void invoice; credit notes only
accumulate and the one that completes the amount voids it for good. `ImplementsReceivable`
maps a numbered invoice to a billed one.

### 2.2 Numbering

`last[k]` is the sequence row of a (scope, year) pair, `issued[k]` the numbers of the rows that
committed, `tx[w]` where each transaction is inside `get_or_create`: `Read` is the first (or,
after a collision, the second) `SELECT ... FOR UPDATE`, `Miss` its finding nothing, `Insert`
and `Collide` the INSERT under a savepoint, `Increment` the `F()` update, `Commit` and
`Rollback` the end of the outer transaction. An INSERT waits for an uncommitted row with the
same unique key and then either collides (that one committed) or succeeds (it rolled back).
ADR-0011 and ADR-0021 only promise unique numbers and call gaps acceptable; because the
increment is part of the numbered row's transaction, the code does better, and
`NumberSource` states that: 1, 2, 3, ... in commit order.

### 2.3 Agreements

`row[r]` is the status and end date of contract or fee agreement `r`, `logged[r]` the status
the audit trail last gave it. `Load` is the view's query; `EditContract`, `EditFeeAgreement`
(every column) and `ChangeStatus` (status column only) are the services. `ScanStart`,
`ScanRow`, `ScanCommit` are `expire_due_contracts`: one query, one UPDATE per row in the order
of `Contract.Meta.ordering` (newest first), one COMMIT; `ScanKill` is the command being
killed. Contracts are numbered in order of creation so that this order exists in the model.

### 2.4 Hearings

`row[h]` holds status, date, next date and predecessor; `told[h]` is the date the case
timeline last gave. `Load` is the view with its own guard (`_guard_open`), the others are
the services: each checks the loaded instance and saves every column of it.
`CloseWithFollowUp` includes `_spawn_follow_up`, which is part of the same transaction.
`overlapped[h]` is a history variable: some request wrote `h` from a copy that was no longer
the stored row.

### 2.5 Notifications

`item[i]` is a hearing, task, deadline, invoice or contract as a scan sees it: open or not, its
date, its people; `kind[i]` says which scan it belongs to (any assignment of kinds is an initial
state). `inbox[r]` counts the rows of a (recipient, dedupe key) pair, `read` the pairs whose
`read_at` is set, `run[s]` is where each run of `generate_notifications` is. A scan is four
queries with nothing between them but READ COMMITTED: `ReadUsers` (who may be told),
`ReadItems` (the records, with their prefetched teams), `LookUp` (the keys `bulk_notify` finds) and
`Insert` (`bulk_create(ignore_conflicts=True)`). The two queries for users are one step, and so are
those for records and teams. `Kill` is a killed command or a scan that raises; `ChangeItem` is
whatever the services of the other components do to a record, `ChangeUser` the
administrator's switch of `is_active`. Days stand for the clock.

`owed[s]` is a history variable: the reminders called for, to people the item names, at every
moment since the scan began. It leaves out the fallback to the office managers on purpose: a
scan that found a lawyer active tells nobody if the case is handed to somebody who was not active
yet, and only the next run makes up for it. `ScanLeavesNobodyOut` is therefore about
named people, and `EverybodyTold` about everybody. `notify` has no caller outside the tests and is left out,
and so is the command's `--only`: cron runs every scan.

### 2.6 The office: records, people, books and pages

`OfficeRecords` models the seven kinds of record edited through plain forms. They share one
shape, and so do the operators (`LoadForEdit`, `Compare`, `SaveWhole`, `SetStatus`, `Retire`,
`Create`); each view and each service is an action of its own, named after it. `row[r]` is the
stored row: status, whether the moment of completion is stamped, whether it is retired
(`deleted_at`), and one value for the other fields. `told[r]` is what the last audit event said
of status and deletion, `files` the blobs in the storage, `req[w]` the request of a worker:

* an edit is three steps: the view's query, the comparison of the form with the row *as it is
  then* (`stored = ...objects.get(pk=...)`; nothing changed ends the request), and the save. All
  but `update_document` save every column of the instance the view loaded;
* a status change is two: the view's query, and a save of the status columns, guarded by the
  status of the loaded instance;
* an upload is two: the blob, then the row.

`raced` is a history variable: the records whose status or deletion changed while an edit of them
held a copy. The save of every column puts the old status back without an audit event; for
these `LogTellsRow` claims nothing. So the comment in `clients/services.py:42-46`,
"`status` never changes here", is true of the posted data, not of the row: an archive committed
between load and save is undone. Section 3.3 comes back to it. The other exception is courts, whose edit form changes the
status and whose audit event names the changed fields only. Hearings and contracts have modules of
their own and appear here as rows that move along their tables (`Moves`), or whose date is edited by
a full save of a copy that may be old (`EditedThere`), which can also reopen them.

`CaseTeam` splits `get_or_create` into its `SELECT` and its `INSERT` under the unique constraint,
and the removal of a party into the view's query and the delete.

The summary of a case or a client counts issued invoices only (`_issued`), while the tabs below
it list every invoice and payment. An invoice credited in full after a payment was taken is void, so
its money is in the payments tab and not in the summary's `paid`. No document says otherwise;
`SummaryFits` therefore compares the summary with the rows of issued invoices (`OfIssued`).

`FinanceBooks` conjoins each transaction with the action of `Receivable` it is, and adds the rows
the pages sum: payments, reversals, the number of credit notes. Payments of one invoice are one
row. An invoice is taken to be billed to the client of its case.

A page is a sequence of queries (`Plan`), each on its own, in the order the code runs them; lazy
querysets count where the template first needs them. `OpenPage` resolves the filter,
`NextQuery` runs the next query on the tables as they are now, `SendPage` ends it. An operator
such as `build_task_report(q, f)` is the builder: given the name of one of its queries and the
filter, the query's result. What the code computes from results rather than asks for
(`remaining`, `aging`, `attention_count`, `kpi`, `bucket`) is an operator on what was got.

| Code | Operator |
|---|---|
| the nine list views, invoices and payments | `TaskListView` ... `ContractListView`, `InvoiceListView`, `PaymentListView` |
| the tabs of a case and a client | `CaseDetailView`, `CaseFinanceTab`, `ClientDetailView` |
| the ten reports | `build_..._report` |
| `ReportView.get`, `BaseReportForm.resolved_filters` | `OpenPage`, `resolved_filters` |
| the dashboard | `shared_counts`, `attention`, `kpis`, `case_analytics`, `recent_activity`; its financial overview (`firm_financials`) shares no query with the rest and is a page of its own, `overview` |
| the agenda | `calendar_query`, and the module `Agenda` |

The value of a case is its priority: `URGENT`, `HIGH` or neither, because the dashboard counts the
first two together in one place and the first alone in another. The value of a task, deadline,
hearing or contract stands for its date; the constant `DaysAway` says how many days from today that
is, and the horizons of the code (7, 14 and 30 days) are compared with it. For the agenda it gives
the day of an event (`due`). A list, a tab or a block fits on its page (the code cuts tabs after 6 or
8 rows, blocks after 6, the deadlines to come after 10 and the recent activity after 12), a report
stays under `MAX_ROWS`, and text search, date ranges and the columns that only narrow a list are left
out. In `Agenda` days are integers with day 0 a Monday, and `MonthStarts` gives the calendar.

The dashboard's numbers are not all counts of the list they lead to, and `DashboardAgrees` says for
each what the code makes of it. The blocks of tasks, deadlines, contracts and invoices show the
records of their list, the tiles of active and urgent cases count theirs. The high-priority block has
`HIGH` and `URGENT` cases while its list has the urgent ones; the hearings block covers seven days
while its list goes on; the clients counted include the archived, which the list leaves out; the
outstanding invoices are some of the invoices listed. `LinkedList` names the list of each block.
The recent activity asks the log (`told`), not the tables, so it may name a record that was deleted
or withdrawn since: `EveryLinkOpens` allows it to link to those, and to no others that do not open.
The agenda leaves out cancelled hearings only (`CalendarItems`), so a postponed one stays on its day.

## 3. Runs

| Run | Instance | Shows |
|---|---|---|
| `invoice_clerk` | 2 requests, 2 invoices, 2 lines (3 cents and 1), 2 payments, amounts 1-2, discounts 0-1, rates 0 and 50 %, one clerk per draft | the books are right and the receivable is implemented |
| `invoice_racing` | 2 requests, 2 invoices, 1 line of 3 cents, 2 payments of 2 or 3, no restriction | what survives unrestricted draft races |
| `invoice_frozen` | 2 requests, 1 invoice, no restriction; expects a violation | the documented immutability needs the one-clerk assumption |
| `numbering` | 3 transactions, 2 keys, 2 numbers per key | numbers in order, and every transaction ends |
| `agreements` | 1 request, 2 scans, 2 contracts, 1 fee agreement, 3 days, 1 kill | transitions, audit, overdue contracts |
| `agreements_terminal` | 2 requests, 2 scans, 1 contract, 1 fee agreement; expects a violation | a stale edit revives a cancelled record |
| `hearings` | 2 requests, 3 hearings, 2 days | follow-ups and timeline, races apart |
| `hearings_final` | 2 requests, 2 hearings; expects a violation | a stale request rewrites a closed hearing |
| `notifications` | *overlap*: 2 runs, 2 items of one kind, a manager and a lawyer, 2 days; *command*: 1 run over 2 items of any two kinds, 1 user, 2 kills; at most 3 changes and kills | nobody told twice, left out or unread again; everybody told in the end; no scan starves the next |
| `notifications_count` | as `notifications`; expects a violation | two runs count the same row |
| `office` | 20-odd small instances, see 3.1 | rows, log, files and timeline stay in step; pages agree with themselves and with their lists; what is listed opens; the agenda loses nothing |
| `office_outstanding` | as `office`; expects a violation | the outstanding total counts an invoice once per credit note |

### 3.1 Bounds

* *Two requests* are enough for every race here: each hazard is one request that holds a stale
  copy, or a lock, while another commits. Numbering has three transactions, because an
  inserter, one that collides with it and one that reads after the collision are three roles.
* *Two invoices* let a number or a payment go to the wrong one; *two lines* let one
  aggregate miss the other's; *two payments* let one be reversed while the other stands. The
  amounts make every comparison come out both ways: a total of 3 at most 4 (6 with tax) against
  payments and credit notes of 1 and 2 gives unpaid, partly paid, exactly paid, over-credited
  and void; 1.25 x 2 cents and 50 % of an odd amount round a half cent.
* `MaxNumber` bounds the numbers handed out, `LastDay` the calendar, `MaxKills` the killed
  commands. Deadlock is checked except in `numbering`, `hearings` and `hearings_final`, where the bound on keys
  or the last closed hearing leaves nothing to do, and in the office runs, where the bound on
  writes does.
* `MCNotifications` explores two instances in one run, chosen in the initial state. Two items of
  one kind are enough for overlapping runs, because keys and specs of different items never meet;
  the order of the scans needs two items of different kinds and one run. Two changes take an item
  from absent to open and then move, reassign or close it, or deactivate its lawyer, under a scan.
* `MCOffice` explores many instances in one run: an *area* names the records, workers, invoices
  and pages looked at together, and how many writes may commit, in all (`bound`) and beside one page
  (`overlaps`). Three sorts, because the properties need three things. *Races*: two workers over one
  record of each kind, three writes: one creates it, one changes it under the other's copy, the
  other saves. *Reading*: no write beside the page (two records of a kind, of two cases
  and two clients, or two invoices of one currency or of two), where the page must agree with
  itself; the invoices take five transactions, enough to issue, pay, over-credit and reverse.
  *Overlapping*: up to two writes between the queries of the dashboard or the payment report.
  Pages read different tables, so an area has only those of its pages. The team has an area of
  its own.
* In an area with pages a case is urgent, high or neither, and a date is today, yesterday, in 40 days
  or, for hearings, in three: inside and outside each of the horizons of 7, 14 and 30 days. Three days
  ahead are no other case than today for deadlines and contracts, so hearings alone have them.
* Amounts 1 and 3 make an invoice unpaid, part paid, paid, over-credited and void; the
  invoices are 40, 0 and 100 days late, three of the four ageing buckets.
* The agenda is opened on the last day of a month that ends with a week, on the Saturday after
  it, which begins a month of 28 days, and within the month after that.
* Symmetry is used only with safety properties and only over sets whose members no definition
  tells apart (not the contracts and hearings, which are ordered).

### 3.2 Fairness

Only three liveness properties are checked, under fairness the runtime gives:

* `Numbering`: strong fairness of each transaction's own steps. A request runs until it ends,
  and PostgreSQL queues the waiters of a row lock in order, so none is passed over for ever.
  Nothing is assumed about `Begin` or `Rollback`.
* `Agreements`: weak fairness of each scan. Cron runs the command every day and a run that is
  not killed finishes; `MaxKills` bounds the kills. Users are not fair: no request has to
  happen or to end.
* `Notifications`: weak fairness of each run's steps, for the same reason.

### 3.3 What disagrees with the documents

Five runs expect a violation; each is listed under "findings" in `PROJECT.json` with the
sentence it contradicts.

1. `invoice_frozen`: `update_invoice` saves every column of an instance loaded before the
   invoice was issued, and so turns an issued invoice back into a draft without a number.
2. `agreements_terminal`: the same with a cancelled contract or fee agreement.
3. `hearings_final`: the same with a closed hearing.
4. `notifications_count`: `bulk_notify` returns the rows it tried to insert, not the rows
   inserted: two overlapping runs both report a reminder only one of them created.
5. `office_outstanding`: `build_outstanding_report` asks `_invoice_totals_by_currency` for the
   totals of a query set that already joins the credit notes (`with_balances`), so an open invoice
   with two credit notes is counted twice in the outstanding total of its currency, which the
   helper's own comment warns of. The rows of the report, and its ageing, are right. Every other
   caller passes a query set without the join, and `InvoicePagesAddUp` holds for them.

Other differences have no run of their own. The properties of `office` state, of each, what the code
does instead:

* `update_client` comments "`status` never changes here", PHASE_3_REPORT line 203 and PHASE_5_REPORT
  line 214 say that the status of cases, tasks and deadlines has its own action only, and
  `test_cannot_edit_retired` that a retired expense is not edited. All hold of the posted data and of
  the loaded copy. The save of every column puts back a status, or a deletion, committed since the copy
  was loaded (2.6): `LogTellsRow` excepts these records.
* The high-priority block of the dashboard shows `HIGH` and `URGENT` cases and links to the urgent ones
  (`dashboard/selectors.py:144`, `:160`). PHASE_9_REPORT lines 54-55 promise "an [All] link to the
  filtered list". `DashboardAgrees` says that the urgent cases of the block are that list.
* The tile of clients counts the archived, which the list it links to leaves out (`:299`), and the tile
  of outstanding invoices links to all invoices (`:321`). The report (lines 43-44) says "Each is a
  clickable card linking to the relevant filtered list". `DashboardAgrees` says what is missing and what
  is more. The hearings block covers seven days and links to all that are to come (`:205`).
* The recent activity links the record of every entry (`:413`), while the detail views of tasks and
  documents find live rows only. The report says "Each row links to the entity where a detail URL
  exists" (line 76). `EveryLinkOpens` says that no other link fails.
* A postponed hearing is on the agenda on its old day: `calendar_hearings` excludes cancelled ones only,
  its docstring (`hearings/selectors.py:88`) says "Scheduled + held hearings". `CalendarItems`, and so
  `AgendaMissesNothing`, has it there.
* ADR-0032 line 97 lists a CHECK `discount <= subtotal`, but `Invoice.Meta.constraints` has none (only
  `issue_invoice` tests it, and a draft may exceed it, which `Taxable` models).
* The docstring of `_apply_payment_status` says it is never called on a cancelled invoice, while
  `reverse_payment` does call it on one (it then returns at once, which `CancelledIsFinal` relies on).

What the passing properties do not see: the books of `invoice_clerk` assume one clerk per
draft, so two racing draft edits, or a cancel that crosses an issue, are not seen by
`LinesExplainTotal`, `StatusMatchesBalance` or `NumbersGapless`; `ChainSound` and `TimelineTellsDate`
except hearings two requests overlapped on, so a double closing is seen by `ClosedIsFinal` alone;
`FreshWritesFollowTable` is about writes from a current copy, so a stale one is seen by
`CancelledIsTerminal` alone; and `LogTellsRow` excepts records raced over.

## 4. Proofs

All theorems hold for every value of the constants that satisfies the named assumptions; TLC
evaluates them in every run.

* Keys are disjoint from their "none" values, amounts are positive, rates are hundredths of a percent
  up to 100 % (`TaxRates`, the two decimals of `tax_rate`)
  (`LedgerAssumption`, `NumberingAssumption`, `AgreementsAssumption`, `HearingsAssumption`,
  `NotificationsAssumption`, `KindsAssumption`, `AmountsAssumption`, `PagesAssumption`).
* What is summed or counted is finite: payments (`LedgerAssumption`), records (`TablesAreFinite`),
  invoices (`InvoicesAssumption`). A record is not an invoice (`TablesAssumption`).
* An invoice is late by at most the days a `datetime.date` can tell apart (`InvoicesAssumption`);
  beyond a thousand million it would fall out of the last ageing bucket.
* A date is a whole number of days from today (`DatesAssumption`).
* A month has at least 28 days (`MonthsAssumption`), and a day the agenda is opened at lies in a
  month with one before it and one after it (`DaysAssumption`).

* **Money.** `HalfUpNearest`: `quantize` returns the nearest cent, ties upwards.
  `InvoiceTotalNat`: a recalculated total is a natural number whatever the discount.
  `TaxAtMostTaxable`: at a rate of at most 100 % the rounded tax never exceeds what is taxed.
* **Sums.** `SumFunctionOnSet` is a fold whose order is arbitrary, and the library's induction
  theorems take a predicate, which the provers cannot instantiate. `SubsetInduction` states
  induction over the *set* of good subsets of a finite set, from the library's fact that a
  well-founded order has minimal elements (`SmallestSubset`). With it `MoneyProofs` shows that the fold
  is well defined (`TableUnique`, `TableExists`), that a sum does not depend on the order in which
  elements are taken (`SumRemove`), that it is additive and monotonic, and `SumInGroups`: sums
  by group add up to the whole. Every statement below about totals rests on these.
* **InvoiceLedger, no assumption on the clerks.**
  `TypeCorrect` (`Spec => []TypeOK`). `TypeOK` is not inductive: a commit writes to
  `inv[req[w].inv]`, which needs `RequestsWellFormed` (a busy request names an invoice, and a phase
  goes with its operations).
  `LockedCopyStaysCurrent` (`Spec => []LockedCopyIsCurrent`): what a locking service read under
  `SELECT ... FOR UPDATE` is still the stored row when it commits, however many unlocked draft
  edits race with it. It needs `LocksExclusive` (one owner per row) and `RequestsOnRows` (a row
  somebody loaded exists, so `create_invoice` cannot write it). The argument has one lemma for
  all eight commits, `CommitKeepsLocks`: a commit writes one row, and either nobody holds its lock or
  only the committing request does.
  `NumbersStayUnique` (`Spec => []NumbersUnique`) and `CollectsWithinBalance`
  (`Spec => NeverOverCollects`). Both rest on `RacingInv`, which adds `DraftsBlank`: a draft, and the
  copy an unlocked edit of a draft holds, carry no number and no money, however stale the copy is.
  Without it such an edit could write an old number or an old balance back. `Effect` sorts the
  commits into what they do to the number and the money of one row, and both theorems look only at that.
  `ReversalsWithinPayment`: no payment is reversed beyond its amount; `reverse_payment` compares with
  the reversals there are in the step that adds one, and no draft edit touches a payment.
* **Numbering.** `NumberingTypeCorrect`, `NumbersAreInOrder`, `CounterIsExact` and the refinement
  `NumberingRefinesSource` (`Spec => ImplementsSource`), for any number of transactions and keys.
  The inductive invariant `NumberingInv` adds `OwnerAlone` (one transaction per key is past the
  lock) and `ValueIsNext` (the number it was handed follows the committed ones): without the
  first two owners would be handed the same number, without the second a commit could append any.

* **InvoiceLedger, one clerk per draft.** The second half of `InvoiceLedgerProofs` assumes
  `SingleDraftClerk`; payments, reversals and credit notes still race freely. The inductive
  invariant `ClerkInv` is the one above together with `DraftExclusive` (one draft edit or issue per
  invoice), `DraftCopyIsCurrent` (so its unlocked copy is the row, and the lines it summed are
  the lines) and `Sound`, the books of each invoice: what an unnumbered invoice may hold, how the
  status of a numbered one follows from total, payments and credit notes, and that `paid` and
  `total` are the sums they stand for. The argument has two halves. `StepIsClassified`: every
  step is one of six kinds of change to one invoice (`Quiet`, `DraftStep`, `BillStep`, `CollectStep`,
  `GiveBackStep`, `WaiveStep`). Everything else looks only at the kind: `PaidIsReceived`,
  `LinesAlwaysExplainTotal`, `StatusAlwaysMatchesBalance`, `IssuedStaysFrozen`,
  `CancelledStaysFinal`, `NumbersStayGapless`, and the refinement `LedgerRefinesReceivable`, where a
  `DraftStep` is a stutter and the last four kinds are the actions of `Receivable`.
  `RefundableStaysWithinPaid`: what a payment may still give back is one term of the sum `received`,
  none of whose terms is negative (`ReversalsWithinPayment`), and `paid` is that sum.
* **Hearings.** `ChainIsSound`, `TimelineIsRight` and `ClosedOnlyLosesRaces`, for any number of
  requests and hearings. `ChainSound` counts the follow-ups of a hearing nobody fought over; to
  be inductive it needs that such a request's copy is an open hearing with the
  stored predecessor (`SnapshotsSound`), that rows are inserted in order of their keys
  (`InsertedInOrder`), and that a row not inserted yet is empty and followed by nothing
  (`AbsentIsEmpty`, `OnlyPresentFollowed`): otherwise a new hearing could inherit a follow-up.
* **Agreements.** `AgreementsTypeCorrect` and `FreshWritesAreSound`. The invariant adds
  `CopiesOfTheirKind`: a request's copy has a status of its own kind of record, without which a
  stale save could make a contract "completed".

* **Notifications.** `NobodyToldTwice`, `ReadStaysRead` and `NobodyLeftOut`, for any number of
  overlapping runs. The invariant `OwedInHand` follows what is owed through the scan: its
  recipient is among the users read, then it is among the specs, then it is among the rows to insert or
  in the inbox already. `NamedAreTold` is the reason the second follows from the first.

* **Office.** Theorems of the composition, `OfficeSpec => ...`, whatever pages are read beside the
  writes. `OfficeImplementsRecords` (`OfficeSpec => RecordsSpec`) and the frame argument behind
  `TimelineIsComplete` reduce each property to the module that writes its variables.
  `StampsAreRight`, `LogIsComplete` and `FilesAreThere` come from one inductive invariant,
  `RecordsInv`: it adds to them what a request in flight holds (`Fits`): a record of the
  kind its view is for, a copy whose stamp fits its status, for an edit of an unraced record a
  copy with the row's life, for an upload a blob already stored. Without the second a stale
  save could stamp an open task, without the third an unraced save could change a status
  unlogged. The steps that services share have one lemma each (`EditHolds`, `CompareHolds`,
  `WriteHolds`, ...), cited once per service. `BooksImplementReceivable`: the tables the pages sum
  up are the abstract receivable, which `LedgerRefinesReceivable` shows the services implement.
  `PaidIsRowsLessReversals`: `amount_paid` is the payment rows less the reversal rows.
  `ColumnsInvariant`: a row only ever has the columns of its kind; a save of every column could
  carry foreign ones, so `ColumnsInv` says it of the copies requests hold as well.

* **Pages.** The invariant of `PagesProofs` is `OfficeInv`, three parts:
  * `PageInv`: a page holds the answers to a prefix of its plan, and while nothing was committed
    beside it, they are the answers the tables give *now*. It is inductive because an answer
    depends on the records, their log and the books only (`AskSame`), and any step that changes those is counted
    in `overlaps`. It reduces every claim about a page read undisturbed to a claim about the
    queries in one state, whatever the order in which they ran.
  * `BooksOK`: what was collected is the gross payments less the reversals, nothing is negative, and
    no more is waived than billed.
  * `NetInv`: the gross sums a page holds, less the reversals there are now, are at most what the
    office held when they were read. Transactions only add reversals (`GivenGrows`), so it survives any
    number of writes; when the reversals are read it becomes `ReportedNetWasHeld`. With
    the two queries swapped there is no such invariant.

  `OfficeTypeCorrect` and `LinksLeadSomewhere` follow from `PageInv`, page by page
  (`ListPagesOpen`, `ReportsOpen`, `DetailsOpen`, `BlocksOpen`, `EventsOpen`: each query leaves out what
  the detail views do not find). For the recent activity the second also needs an invariant of the
  records, that what the log names was once there (`LoggedIsThere`, from `ColumnsInv`).
  `DashboardIsConsistent`: that a tile and its block agree under any
  writes holds because they are one answer, the rest because each list filters what the tile counts
  (`ListsOfTiles`), and because a client is either archived or listed (`ClientsListed`). `ReportsAreConsistent`: a breakdown counts or sums the rows by key
  (`CountInGroups`, `SumInGroups`). `FinancePagesAgree` takes two more steps. `LineIsSum`: a
  line of a grouped query, or 0 when there is none, is the sum over the rows of its key. `WhatRemains`:
  the sum is floored at zero after the terms are summed, while the rows floor each term, so what remains
  is at most the sum of what the rows leave, and equal to it when no invoice was credited
  below what was paid. `OneBucket` puts every invoice in exactly one ageing bucket.
  `AgendaLosesNothing` is about the calendar: `CalendarIs` finds in the five queries the items
  `CalendarItems` names; `Turns` says of a view that it draws the days it
  asks for and that its links neither skip a day nor fail to lead back; for months it rests on a month
  being longer than the week its grid may borrow from the next (`MonthPages`, `MonthTurns`).

Two things the proofs brought to light. `SummaryFits` compared the summary of a case with all rows
below it, and was false as soon as a void invoice with money kept shares case and currency with an open
one; the instance TLC had looked at had no such pair (2.6). It has one now. And the agenda's links
do lead astray in a calendar with months shorter than a week, so the length of a month
is an assumption (`MonthsAssumption`).

Only model-checked: the liveness properties (`EveryRequestEnds`, `OverdueIsCaught`,
`EverybodyTold`), because TLAPS does not treat fairness; that the expected violations are
reachable; and that the instances of section 3 exercise every action. Every other invariant and action
property of the passing runs is a theorem.

## 5. Not modelled, and the plan

Not modelled, and why:

* Accounts, sessions, one-time codes, capabilities and case scoping: they decide whether a
  request happens at all; the models start after it was let through. Every case is visible to
  everybody who may see cases.
* Case notes (append-only rows with an event each) and confidential notes (one row per case,
  saved whole, read by nobody else); `notify`; `case_parties`, which shows rows and computes
  nothing.
* Search text, date ranges, `MAX_ROWS`, pagination past the first page, the first 6 to 12 rows of
  tabs, blocks and tables of the dashboard, CSV and print of a report: they cut or lay out a result
  the models have whole.
* Forms (modelled by the values they let through), templates, locale, settings, seeds, migrations.

Names, dates other than those that decide something, notes and wording are abstracted. In
InvoiceLedger the currency is fixed: no rule of the ledger reads it, and sums across invoices
are in FinancePages. Receipt, credit-note and expense numbers come from the same `next_number` and
are not repeated there.

The plan, in this order:

1. `Money`, `Receivable`, `InvoiceLedger`, `NumberSource`, `Numbering`: the money and its numbers
   (done), with their proofs.
2. `Agreements`, `Hearings`: transition tables, scans and follow-ups under races (done), with
   their proofs.
3. `Notifications`: the scans over abstract records, overlapping runs, the unique key, read
   marks (done), with their proofs.
4. `OfficeRecords`, `CaseTeam`: the records of the plain forms and the people of a case under
   races (done), with their proofs.
5. `OfficePages`, `FinancePages`, `Agenda`, `Office`: every page as queries beside committing
   writes (done), with their proofs in `PagesProofs`.
6. Left: notes and confidential notes; an abstract "guarded record" of which contracts, fee
   agreements, cases and clients are instances.
