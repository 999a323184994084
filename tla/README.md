# TLA+ models of School-OS

School-OS is a school management backend: a FastAPI application on async
SQLAlchemy and PostgreSQL, with a family of LLM agents that call its HTTP
interface. Requests are coroutines that interleave at every `await`, in one
process or in several (`docs/ROW_LEVEL_LOCKING_IMPLEMENTATION.md:473` has both
in mind); they share no state in memory, so whatever two requests do to each
other they do through the database. This directory models the parts where that is hard,
checks the models with TLC and proves the most important facts with TLAPS.

Paths below are relative to `src/backend/` unless they say otherwise.

## 1. The system

### How a request runs

`app/db/session.py` gives each request one `AsyncSession` and so one
transaction; `get_db` commits when the route returns and rolls back when it
raises. Many services commit themselves, some of them in the middle. Four
settings decide what a request can know, and every model here rests on them:

- PostgreSQL runs under READ COMMITTED: a SELECT sees what was committed before
  it was sent, and a second SELECT may see something else.
- The session keeps the first copy it loads of a row (the identity map). A later
  SELECT of that row, `FOR UPDATE` included, does not refresh the copy.
- `autoflush=False`: nothing is written before `commit` or an explicit `flush`.
- `expire_on_commit=False`: copies outlive a commit. A rollback does expire
  them, and the next attribute read in async code raises `MissingGreenlet`.

So a request is a short program whose steps are its SELECTs, its row locks and
its commits, and the steps of different requests interleave.

### Components

| component | state | operations | modules | status |
|---|---|---|---|---|
| Orders (`order_service.py`) | `orders`, `order_items` | create from cart, cancel, update status, manual order | `OrderStore` | modelled but for manual order |
| Carts (`cart_service.py`) | `carts`, `cart_items` | add, update, remove, clear | `OrderStore` | modelled |
| Products (`product_service.py`) | `products` | stock: adjust; catalogue: create, update, delete, move | `OrderStore`, `Catalog` | modelled |
| Categories and packages (`product_category_service.py`, `product_package_service.py`) | `product_categories`, `product_packages`, `package_items` | create, update, hide, add and remove items | `Catalog` | modelled |
| Payments (`payment_service.py`) | `payments`, `gateway_webhook_events` | initiate, verify, webhook, reconcile, retry | `PaymentFlow` | modelled but for the "authorized" sweep |
| Payment allocation (`invoice_service.py` 205-307) | `payment_allocations`, `invoices.amount_paid` | allocate to invoice items | `PaymentFlow` | modelled |
| Gateway client, key encryption | none | create order, verify signature, query | | environment |
| Fees and invoices (`fee_*_service.py`, `invoice_service.py`, `discount_service.py`) | `fee_templates`, `class_fee_structure`, `invoices` | create and assign templates, bill a student, bill a class | `Fees` | partly |
| Refunds (`refund_service.py`) | `refunds` | process refund | | not modelled |
| Timetable (`timetable_generation_service.py`, `timetable_service.py`, `period_service.py`) | `timetable`, `periods`, the generator's memory | generate, create, update, delete, clear, swap | `Timetable` | modelled |
| Exams and marks (`exam_service.py`, `mark_service.py`, the mark agent's tools) | `exams`, `marks` | enter, record, correct, delete, five reports | `MarkBook` | modelled but for layout |
| Clubs, achievements, academic years | memberships, points, the active year | join, verify, rules, set-active, leaderboards | `StudentLife` | modelled |
| Students, teachers, classes, subjects, attendance | rows, `class_subjects` | create, edit, turn off, promote, assign subjects | `Registry` | partly |
| Media and album targets | the object store, `media_items`, `album_targets` | upload, delete, replace the audience | `Media`, `Registry` | partly |
| LLM agents | the messages of a chat | ask, call tools, answer | `AgentChats` (`MarkBook` for the mark tools) | partly |
| Announcements, conversations | rows | single inserts in one commit | | not modelled: no second step |
| Authentication and roles | none | who may call what | | not modelled: decided before any state is touched |

### How they interact

A parent fills a **cart**; a checkout turns the cart into an **order** and takes
the **stock**; the checkout endpoint then initiates a **payment** for the order.
Fees take the other road: **invoices** are generated for a class, and a payment
is initiated for an invoice. The money is captured at the gateway. The system
learns of it by up to three ways (the browser comes back, the gateway calls, the
staff run a reconciliation), and a fourth operation repeats an **allocation**
that failed. All four write the same payment row, the same allocations and the
same order, and only two of them take a lock.

The rest of the system is the school office. Its parts meet in the database
sessions and hardly anywhere else: the catalogue decides what the store may sell,
fees make the invoices that payments pay, the timetable, the mark book, clubs and
registers each own their tables, and the agents are chats whose tools read and
write the same tables. Almost none of the office takes locks: a request looks at
a few rows, decides, and commits, and what keeps two of them apart is a unique
key, the foreign keys, or nothing.

### What is hard

- a copy read before a lock, used after it (checkout, cancel);
- an absolute value written over a change nobody saw (order status, stock
  corrections, payment status);
- a commit in the middle of an operation, which also frees its lock (allocation);
- a rollback followed by a second transaction that marks the failure, and a
  process that dies between the two;
- deliveries that come twice, late or never (the webhook), and a sweep that asks
  the gateway about a batch that is out of date;
- locks taken in no fixed order (two checkouts, checkout against cancel), and
  unique keys inserted in no fixed order (billing a class);
- a check made on an unlocked read and a write some statements later (packages,
  names, clubs, recorded marks, swaps, lists that are replaced as a whole);
- a greedy search with random choices and limits that are checked once for two
  lessons (the generator);
- two stores and no transaction that spans them (media);
- sums that are rounded in one place and not in another (invoices, reports);
- a model that asks for calls of tools without end, and calls that fail (chats).

`PROJECT.json` lists each hazard with the line where it bites.

### What makes each component correct

- Store: stock and live orders never exceed what was put on the shelf; a cart
  keeps its rows until they are removed or a checkout that loaded them takes them;
  locks belong to requests in flight; every request ends; when
  requests do not overlap, each is one atomic operation.
- Payments: no money is invented, spent twice or lost; what is captured pays what
  it was for, but for the rounding of the items; what is captured stays so; every
  request, delivery and sweep ends.
- Invoices: a request bills all of its students or none, nobody twice for a term
  of a year, and an invoice adds up.
- Timetable: a generated week of a class can be held, limits and gaps are kept as
  the code keeps them, a swap that nobody disturbed makes no clash.
- Marks: an undisturbed recording gives no second mark, a correction fits its
  maximum, a deleted exam stays deleted, and the five reports agree where they
  count the same thing differently.
- Clubs, achievements, years: what was verified stays verified, after a set-active at
  most one of the years it could see is active, the leaderboards agree.
- Catalogue: a package keeps an item, names stay distinct, a deletion leaves what
  is sold, all as far as a request that overlapped nothing can see to it.
- Registers: who left stays away, a list is replaced completely or not at all.
- Media: the two stores differ only where a request is or was between its halves.
- Chats: every call is answered, in order, before the model is asked again; every
  chat ends.

## 2. The modules

| module | what it is |
|---|---|
| `OrderStatuses` | the statuses of an order and its transition table |
| `OrderStore` | carts, stock and orders, one action per read, lock and commit |
| `StoreLedger` | the abstract store: each operation is one atomic step |
| `PaymentFlow` | payments, allocation, webhook events and the orders they move |
| `School` | what the office shares: sessions, a request in a session, the commit of the ORM |
| `Timetable` | the generator, entries, swaps and periods |
| `MarkBook` | marks, exams, the tools of the mark agent, reports |
| `StudentLife` | clubs, achievements, rules, leaderboards, academic years |
| `Catalog` | categories, products, packages and their items |
| `Fees` | fee templates, the fees of a class, billing |
| `Registry` | students, teachers, classes, subjects, attendance; lists replaced as a whole |
| `Media` | uploads and deletions over the object store and the table |
| `AgentChats` | the graph of an agent, its tools and its endpoint |
| `SchoolOffice` | the office: the eight modules above over one set of sessions |
| `OrderStoreProofs`, `PaymentFlowProofs`, `TimetableProofs`, `MarkBookProofs`, `StudentLifeProofs` | proofs about the module of the name |
| `SalesProofs` | proofs about `Catalog` and `Fees` |
| `OfficeProofs` | proofs about `Registry`, `Media`, `AgentChats`, and about `SchoolOffice` |
| `SumTheorems` | the laws of sums over finite sets that the proofs cite |
| `MC...` | instances for TLC: small tables, request bodies, symmetry |

Definitions whose comment begins with "Mutant:" stand beside the one
they change. They are not part of any specification; each is a plausible bug
that makes one of the properties fail.

### OrderStore

The tables are `stock`, `active`, `cart` with `rowId` (a row removed and added
again has a new id, which a stale request must not take for its own), `status`
and `items`. `rowLock` is the session that holds `FOR UPDATE` on a product.
`req[s]` is what session `s` has read and where it is. A checkout is

    CheckoutReadCart      order_service.py: load the cart
    CheckoutReadProducts  load its products, in a SELECT of their own
    LockProduct           FOR UPDATE, one row at a time, in any order
    CheckoutReject        or
    CheckoutCommit        order, items, stock, emptied cart: one commit

`LockProduct` leaves `req[s].seen` alone: this is the identity map. Cancel has
the same shape. `update_order`, `adjust_stock` and the cart edits are a read and
a commit. `Abort` is any error before the commit, `DeadlockVictim` is
PostgreSQL breaking a cycle of waits. Four history variables are no part of the
program: `supply` (the units staff say they put on the shelf), `adjusts` (a
bound), `stale` (products a commit wrote over a change it had not seen) and `gone`
(the cart rows a parent removed or a checkout took, by their ids).

Left out: prices, names, delivery notes, the checks of student and parent, the
creation of an empty cart (a parent without one and a parent with an empty one
behave alike), and the rule that a product in a package is not deleted. The cart
and its items are read in one step.

### StoreLedger

The promise: a checkout sells what is active and in stock *at that moment*, a
cancellation returns exactly the units of the order, a status moves along the
table. `OrderStore!ImplementsLedger` is its specification, with the variables of
the same name as the refinement mapping.

### PaymentFlow

The state is one payment row per payment (`payStatus`, `target`, `payLock`), the
allocations as sums per invoice item and per payment (`paid`, `allocated`), the
invoice total, the order status, the webhook event row and what the gateway has
captured. `req[s]` again is a session: its flow, its payment, and its place in

    VerifyLock | WebhookNew, WebhookLock | SweepRead, SweepCapture | RetryAllocation
        invoice: AllocateItem ...  SaveAllocations (commit)  ReadTotal  FinishInvoice (commit)
        order:   ReadOrder  FinishOrder (commit)
        sweep:   SweepReject, SweepFail (commit: the payment is given up), SweepSkip
    Fail (rollback)  then MarkPayment or MarkEvent (a second transaction)
    Crash            at any step

A payment is for `Amount`, the `amount_due` of its invoice, and its money goes to
items that cost `Final`. The two are constants apart: `initiate_payment` takes
`amount_due` (`payment_service.py`), which is rounded once, while each item is
rounded by itself (`InvoiceAddsUp` of `Fees` says how far apart that is).

Anyone may call the webhook. `WebhookNew` is a call for an event without a row, signed
or not; the signature is compared in `handle_webhook_event`, which is `WebhookLock`
for a call the gateway has signed and `WebhookBadSignature` for any other, and either
of them leaves an event row behind. A sweep asks the gateway, and what it makes of the
answer is `SweepCapture`, `SweepSkip` (it leaves the payment pending) or `SweepReject`
and `SweepFail` (it sets the payment to failed and commits): the attempts have all
failed, there was none for a day, the gateway calls the order paid and shows no
captured payment, or it answers a status the code does not know (lines 599-605 and
646-652). In the last two the gateway may hold the money, so `SweepReject` does not
ask whether it does.

`SaveAllocations` is the commit in the middle of
`allocate_payment_to_invoice_items`: it saves the allocations and the status the
caller had set, and frees the row lock. `Write` sets a status to an absolute
value and notes in `stale` when the row was no longer what the session had seen.
`shared` notes payments and invoices that two sessions allocated at once. The
sweep keeps the invoices it has loaded from one payment to the next
(`loaded`), because the session does. After `MarkPayment` a sweep is over: the
rollback has expired the rest of its batch, and the next attribute read raises.

Left out: how signatures are computed, secrets, receipts, ages and methods; partial
payments (`initiate_payment` always sets the full amount); the status "authorized",
which nothing sets;
`invoices.payment_status`, computed from the amounts and read by no modelled
flow.

### School and SchoolOffice

Every module of the office works on `job`: `job[s]` is the request of session
`s`, a record with its `kind` and what it has read and decided so far, or `NoJob`.
A request that decides on what it read is two steps or more, one for each SELECT
whose answer it keeps and one for its commit; a request that does its work in one
statement, or whose read cannot go stale, is one step. `Flushed` is the commit of
the ORM: of the fields a request assigned, those that differ from the copy it
loaded are written, and the row keeps what others wrote into the rest. Failures
(`...Fails`) end a request at any step without a trace in the database. `alone` is
history: the sessions in whose time nobody else wrote what they work on. It lets
a property say "a request that overlapped nothing" where the code promises
nothing more.

`SchoolOffice` puts the eight parts over one set of sessions. No request works on
the tables of two parts, so behaviours of the office are interleavings of
behaviours of its parts and a property of one part needs no other to move:
`focus`, chosen at the start, says which part moves. The generator's previews have
a focus of their own, because a preview writes nothing and no other request sees
it.

### Timetable

`GenerateStart`, `ReadGrid`, `PlaceLesson` (one attempt of `schedule_subject`),
`GiveUpSubject`, `SaveTimetable` are the generator. All of its memory (occupied
slots, loads, placements) follows from the lessons placed so far and is computed
from them. Its random choices, the order of equally loaded days and the slot it
picks, are nondeterministic: a day may be passed over when some pick on it would
fail (`MayPass`), and `PlaceLesson` may take a day only when every day with fewer
periods of the subject may be passed over. Swaps are a read, two questions and a
commit. `is_editable`, which nothing clears, warnings, and the check that classes
and teachers are of the same school are left out.

### MarkBook

`marks` is the table in the order of insertion. The desk's endpoints insert,
change and delete; `RecordRead`/`RecordCommit` and `CorrectRead`/`CorrectCommit`
are the tools, with `ResolveStudent` (an exact bearer of the name among at most
`SearchLimit` found, in no order) and `ResolveExam`. `quiet` and `corrected` are
history. The five reports are operators over the table. The marksheet, the exam
summary and the tools round to hundredths of a percent, and so does the model
(`Percent`); `report_card_service.get_percentage` does not and gives no verdict, so
the report card is exact quotients (`Ratio`, compared by `AtLeast`).

### StudentLife

One table of rows under one counter of ids, with the CHECK and UNIQUE constraints
and foreign keys in `Acceptable`. A PUT of any table is `PutRead` and `PutCommit`.
Set-active is: the year is loaded (`SetActiveRead`); the UPDATE of the others
finds the years there are when it starts (`SetActiveUpdate`) and turns them off, at
once or, when other sessions have locked some, after a wait (`SetActiveOthersOff`:
those it found, and none that came since); the commit turns the year on unless the
copy says that it is. Leaderboards cover one academic year.

### Catalog

`CheckNew`, `CheckEdit`, `CheckRetire`, `CheckFill` and `CheckTake` are what the
services look at; the read of a request is its check and the commit comes later.
`SkusDiffer` and the primary key of the items are the only constraints behind them.

### Fees

A billing request works through its students (`Bill`), waits for a number that
another session has inserted and not committed (`WaitsFor`), fails on a number
that exists, commits all its drafts together, and is the victim of a circle of
waits (`DeadlockBroken`). Prices are cents and intermediate amounts hundredths of
a cent: items are rounded, the amount due is not. Discounts and opt-outs are data
of the instance: the endpoints that would write them raise before they commit.

### Registry

Rows of people, classes and subjects with `is_active` and, for people, that of the
profile; edits are a read and a commit; leaving, deleting and promoting are single
statements. A list (the subjects of a class, the audience of an album) is replaced
by a DELETE that sees what was there when it started, waits for rows that another
transaction deletes, and an INSERT that waits for keys or fails on them.

### Media

`UploadStore`, `UploadCommit`, `RemoveRead`, `RemoveFile`, `RemoveCommit` and
`MediaFails`, which is an exception or a crash at any point and remembers in
`torn` the path it left between its two halves.

### AgentChats

The messages of a chat and the node of the graph that runs next. The model is the
environment: it asks for any calls of the agent's own tools, or for none. What a
tool may come to (`Outcomes`) is read off each tool: placeholders that make up a
result, tools whose context is never set, a tool whose schema and parameters
disagree. The graph raises after its limit of steps, and the endpoints turn the
apology that follows into an error, except attendance, which returns it.

## 3. The runs

| run | configuration | question |
|---|---|---|
| `order_concurrent` | 2 sessions, 1 parent, 1 product, 2 orders, quantities to 2, 2 cart rows, 1 correction | do locks, ledger, cart rows and the lock discipline hold under every interleaving? |
| `order_serial` | 1 session, 1 parent, 2 products, 2 orders | do requests that do not overlap implement `StoreLedger`? |
| `order_live` | 2 sessions, 1 parent, 2 products, 1 order, quantity 1 | does every request end, although locks are taken in opposite orders? |
| `order_oversell` | 2 sessions, 2 parents, 1 product of 1 unit | does the lock prevent overselling? (it does not) |
| `order_terminal` | 2 sessions, 1 order | are terminal statuses final? (they are not) |
| `pay_concurrent` | 2 sessions, 2 payments, 1 invoice of one item | is money kept whole under every interleaving, failure and crash? |
| `pay_live` | 2 sessions, 1 payment of 3, 1 invoice of two items of 2 each, 1 order | does every request, delivery and sweep end, whatever fails? what does a capture pay when the amount due is less than the items cost? |
| `pay_double` | 2 sessions, 1 payment, 1 invoice | is a payment allocated once? (it is not) |
| `pay_total` | the same | is the invoice total what was allocated? (it is not) |
| `pay_revive` | 1 session, 1 payment, 1 order | does a cancelled order stay cancelled? (it does not) |
| `office` | 2 sessions; each part with the tables of its `MC` module | does every table keep its promises, and do long requests end? |
| `timetable_teachers` | 2 sessions, 2 classes that share a teacher, 2 periods | is a teacher in one place at a time after two generations? (not so) |

`office` is one run of nine behaviours, one for each value of `focus`, with 22
properties:

| focus | properties | what the instance makes happen |
|---|---|---|
| generator | `LessonsFit` `LimitsPassedByDoubles` `SpacingKept`, `RequestsEnd` | 2 days of 2 periods; five requests: double periods against both limits, gaps, a blocked day, a restricted period, core subjects, more periods than fit |
| timetable | the same on stored weeks, `SwapsMakeNoClash` | two classes generate at once, rows are edited, cleared and swapped meanwhile |
| marks | `RecordedOnce` `CorrectionsFit` `ReportsAgree` `DeletedExamsStay` | two students alike by name, marks out of 50 and of 100, a mark of 0, second marks, corrections, deletions |
| life | `OneActiveYear` `LeaderboardsAgree` `VerifiedStay` | a school with two years, one of them active, and room for a third; one with a single year that is over; or one with a club, a rule and an achievement |
| catalog | `LastItemStays` `NamesStayDistinct` `DeletionsKeepSelling` | two categories, two products and a package of both; names that exist on and off |
| fees | `InvoiceAddsUp` `ClassInvoicedWhole`, `RequestsEnd` | a class of two, two templates with a part in common, discounts above the price, a second year |
| registry | `ListsStayWhole` `LeaversStay` | a student, a teacher, a class, new attendance; one class list and one album |
| media | `StoresAgree` | two uploads, three deletions |
| chats | `AnswersMatchCalls`, `RequestsEnd` | calls of eight tools, at least one of each kind, two at a time, a limit of three steps |

`OfficeTypeOK` holds for all of them.

Why the bounds are enough. Every hazard of the list needs two actors: two
requests, or a request and a failure. One product suffices for a race on stock,
two for a deadlock, two orders for a sale after a sale. Two payments of one
invoice show every way in which payments meet, and one payment already meets all
four flows. Two items are needed for the allocation loop to go on and to stop
early; with two payments they only multiply the states, so `pay_concurrent` has
one and `pay_live` has two. In `pay_concurrent` the amount due is what the item
costs; in `pay_live` it is one less than what the two items cost (3 of 2 and 2), which is
the largest difference that rounding two items can make. Two cart rows (`MaxRows`) are
needed for a row that is removed and added again while a checkout holds a copy of
the first. `MaxQty`, `MaxCount`, `MaxRows` and `MaxAdjust`
bound the quantities, the stock staff enter, the rows inserted for a parent and
product, and the corrections; each is named in the guard it bounds. Sessions,
parents, products, orders and payments are interchangeable where no liveness is
checked, and the runs with symmetry say so.

In the office two sessions are what its hazards need: none of them takes three
requests, and requests that are one statement run beside the two. Bounds on
requests (`MaxEdits`, `MaxDeskEdits`, `MaxWrites`, `MaxRequests`,
`MaxFeeRequests`, `MaxTurns`, `MaxUploads`, `MaxRemovals`, `MaxChats`) are two to
four, so that a third party can undo what two requests rest on; bounds on rows
leave room for every row those requests can add. `EntryIds` has three ids: two
stored weeks have one lesson and two. `RecursionLimit` is 3 instead of 25: the
graph has two nodes, and three steps already end on either of them.

Deadlock is checked for the store. The payment and office configurations turn it
off: once every payment is settled, or every bound of the office is reached, there
is nothing left to do.

Fairness. A request that has started goes on (weak fairness of its steps): its
next statement is sent by a coroutine that nothing suspends for ever. A wait for
a row lock is served in turn, since PostgreSQL queues the waiters, so the steps
that need a lock have strong fairness. The deadlock detector runs
(`DeadlockVictim`). Nobody has to start a request.

For `FlowsEnd` every session has strong fairness of its next step, whatever that
is (`Proceed`): a request may find a row locked each time it looks, and PostgreSQL
hands the lock to those who wait in the order in which they came. Nobody has to pay,
to come back from the gateway, to sweep or to retry, the gateway need not call, its
answers may be any, and failures and crashes may strike for ever; they end requests
and are not counted on to do so. That a payment whose money was
captured is recorded sooner or later is not claimed: the code never starts a sweep, a
sweep takes a hundred payments in no order and stops at the first that fails, and an
answer of the gateway can set a payment to failed although the money is there.

In the office a generation that is being served goes on (it is one coroutine that
waits for nobody), a billing goes on when it waits for nobody and the database
breaks circles of waits, and a chat goes on because it runs in a synchronous call
on the only event loop, whose calls of the model and of tools return. No other
request is assumed to end: nothing that is checked needs it.

### What the runs show

The store keeps its ledger as long as no commit overwrites a row that changed
after the request read it: `LedgerBalanced` excludes exactly the products in
`stale`, and `order_oversell` shows that they exist. Likewise payments are spent
once and invoices are not overpaid outside `shared`, and captured money stays
captured outside `stale`. The exclusions are narrow on purpose: everything else
that could break these properties (failures at each step, duplicated deliveries,
crashes after the commit in the middle, retries) is in the model and does not.

A captured payment has paid its invoice up to `Short`, what its amount is less than
the items cost (`CapturedPaysInvoice`). It is not nothing: two items of 33.335
are 33.34 each and 66.67 together, so the payment is captured and one cent of the
last item stays open for ever.

The office keeps what its checks can keep. Properties that need a request to be
alone say so (`SwapsMakeNoClash`, `RecordedOnce`, `LastItemStays`,
`NamesStayDistinct`, `DeletionsKeepSelling`): without a lock or a constraint the
code cannot promise more, and dropping the condition makes each of them fail.
The others hold for every overlap: what is verified, deleted or turned off is not
brought back by an edit that read it before, because a commit writes only the
fields it changes; a class is billed whole or not at all, because the loop runs in
one savepoint and the number is unique; one year at most is active after a
set-active, because the UPDATE names all the other years and not those it saw active
(unless a year was created behind the UPDATE, which no statement of the request
sees); lists keep whole replacements, although two of them may both remain.

Six promises do not hold.

1. **Overselling** (`order_oversell`). `order_service.py:15` promises
   "Pessimistic row-level locking on products (prevents overselling)". The
   products come into the session with the cart, and the `FOR UPDATE` at line 185
   does not refresh them. The second of two checkouts waits for the lock, then
   validates and subtracts with the count it read before: the last unit is sold
   twice.
2. **Terminal statuses** (`order_terminal`). `app/schemas/enums.py:106` says
   "DELIVERED and CANCELLED are terminal states". `update_order` (line 340) writes
   a status it validated against an unlocked read, so a cancellation that commits
   in between is overwritten, and its stock has already been returned.
3. **Single allocation** (`pay_double`).
   `docs/ROW_LEVEL_LOCKING_IMPLEMENTATION.md:434` says "**Guarantees single
   allocation** per payment". The sweep reads its batch unlocked
   (`payment_service.py:532`) and allocates beside verify.
4. **The total of an invoice** (`pay_total`). `invoice_service.py:264` and `:267`
   describe the sum of *previous* payments; it is read after the commit at line
   261, holds the allocations just saved, and line 271 adds them once more.
5. **Cancelled orders** (`pay_revive`). `tests/test_payment.py:786` says "Order
   status should remain 'cancelled' and not be changed"; verify respects it, the
   webhook (`payment_service.py:447`) moves the order to processing whatever it
   finds.
6. **Teachers in two places** (`timetable_teachers`).
   `timetable_generation_service.py:132` lists among the constraints that must be
   satisfied "Teacher availability (can't be in two places at once)". The validator
   knows the lessons of its own generation; the timetable table is never read, so
   the weeks of two classes book their common teacher for the same period.

Smaller disagreements met on the way, which no run is about:

- `timetable_generation_service.py:195` gives "Math shouldn't be on consecutive
  days (min_gap=1)" as an example; line 205 compares with `<`, so a gap of 1 allows
  consecutive days. `SpacingKept` states what the code keeps.
- `timetable_generation_service.py:253-254` says "Teachers cannot exceed
  max_classes_per_day or max_classes_per_week". The limits are compared once for an
  attempt, and a double period adds two lessons: a teacher with one lesson left gets
  both. `LimitsPassedByDoubles` states what the code keeps: one lesson too many at
  most, and only in a day or week that has a double period.
- The items of an invoice are rounded each, its `amount_due` once
  (`invoice_service.py:446-459`); see above for the cent that stays open.
- The report card compares and shows unrounded percentages
  (`report_card_service.py:18-25`), the marksheet rounds before it compares: 1601 of
  4003 is 40.00 and a pass on the marksheet and less than 40 on the card.
- The validator of `MarkInput` (`mark_agent/schemas.py:25`) is to ensure that marks
  do not exceed `max_marks`, but runs before `max_marks` is parsed and compares with
  the default of 100. 90 out of 50 is recorded, and a later correction is held to 50.
- `product_package_schema.py:36` asks for active products; `add_items_to_package`
  takes products that are off (`CheckFill`).
- `create_category` looks for a name among all categories and `update_category`
  among active ones, so that a category turned on again may have a twin; the next
  lookup of the name raises.
- `exams.py:41` says active exams only; `get_all_exams_for_school` has no such filter.
- The capacity of a club is compared with a count of members that no code raises
  (`club_service.py:86`).
- `PUT /students/{id}` calls a service function that does not exist; enrolment
  raises before it writes; the endpoints of discounts, of opt-outs and some of fees
  call what is not there or is not awaited. `PUT /categories/bulk-reorder` and its
  like are shadowed by `/{category_id}`.

## 4. The proofs

All theorems are about the specification of their module and hold for every value
of the constants, from the assumptions `StoreAssumption`, `PaymentAssumption`,
`TimetableAssumption`, `MarkBookAssumption`, `StudentLifeAssumption`,
`CatalogAssumption`, `FeesAssumption`, `RegistryAssumption`, `MediaAssumption` and
`ChatAssumption` alone (bounds are naturals, the sets that are summed over are
finite, an invoice is a sequence of naturals, prices are natural
numbers, `None` is not a member of the other sets, request bodies and first
rows have their types and keep the constraints of their tables). TLC evaluates the
assumptions on every run. Every safety property of every passing run is a theorem;
the strengthened invariants were invariants of a run before they were proved.

### SumTheorems

Amounts, counts and points are folds of the community modules. What a fold returns is
a recursive function under a `CHOOSE`, and the usual way to reason about it, induction
over finite sets, takes an operator as a parameter. `EverySubset` replaces it by a
set: if the subsets of a finite `S` for which a claim holds include `{}`, and include
a set whenever they include it without any one of its elements, they are all of them,
since a smallest one outside would have to be inside (the order of strict subsets is
well founded). From it follow that the function a fold chooses exists and is unique
(`AddsExist`), and the laws the other modules cite: a sum over some more (`SumOfSome`,
`SumTaken`), two sums in order or equal (`SumsOrdered`, `SumsEqual`), over a union
(`SumsJoined`), under another name (`SumsRenamed`), scaled (`SumsScaled`) and gathered
by group (`SumsGathered`, `SumsGrouped`).

### OrderStoreProofs

| theorem | states | by |
|---|---|---|
| `TypeCorrect` | `Spec => []TypeOK` | `TypeOK` is inductive |
| `LocksCorrect` | `Spec => []LocksMatchRequests` | `LockInv` |
| `LedgerCorrect` | `Spec => []LedgerBalanced` | `LedgerInv` |
| `HolderCorrect` | `Spec => OnlyHolderChangesStock` | `LockInv` |
| `CartRowsCorrect` | `Spec => []CartRowsKept` | `CartInv` |
| `SerialImplements` | `SerialSpec => ImplementsLedger` | `SerialInv` |
| `LedgerImplemented` | `OneSession => (Spec => ImplementsLedger)` | `SerialImplements` |

`TypeOK` needs one thought: stock stays a natural number because a checkout
subtracts from the copy it validated, not from the row. `LocksMatchRequests` is
not inductive alone: a request must not have rows still to lock that are not
among its lines, which is `TodoInLines`.

`LedgerInv` is `TypeOK`, `OrdersTracked` and, for each product, `Balanced`.
`OrdersTracked` says what each request still knows of its order: a checkout owns
an id no order and no other request has; a cancellation and an update hold the
lines and a status from which their move is legal. With it, a commit by a request
whose copies are fresh moves units between stock and live orders, and one whose
copies are not puts the product in `stale`. `Balanced` counts the held units as
the cardinality of a set of order and unit pairs, so the proof rests on facts
about finite sets (adding and removing the interval of one order).

`CartInv` is `TypeOK`, `CartRowsKept` and two facts. `RowsNumbered`: a row that is
there, or gone, has a number that was given out. `RowsKnown`: a checkout remembers
the numbers of the rows it loaded, and they were given out, too. So a row added
behind it has another number, and what the checkout takes is in `gone` already or is
still the last row of its product.

The refinement holds when requests do not overlap. `SerialSpec` says that for any
number of sessions: a session moves only while the others are idle. Then what a
request has read is still true: its cart, its lines and the copies of the products
it locks (`LockReads`), the lines and the status of the order it cancels or moves.
`SerialInv` says so (`Knows`), and with it each commit is the atomic operation of
`StoreLedger` and every other step is a stutter (`SerialMaps`, with one lemma per
operation: `CartIsFill`, `CheckoutIsCheckout`, `CancelIsCancel`, `UpdateIsAdvance`,
`AdjustIsCount`). One session, the instance that TLC checks, is the case in which
nothing can overlap.

### PaymentFlowProofs

| theorem | states | by |
|---|---|---|
| `LockedCorrect` | `Spec => []LockedFlowsExclude` | `LockInv` |
| `CapturesCorrect` | `Spec => []CapturesArePaid` | `CaptureInv` |
| `StaysCorrect` | `Spec => []CapturedStays` | `StayInv` |
| `TypesCorrect` | `Spec => []TypeOK` | `TypeInv` |
| `SpentCorrect` | `Spec => []SpentOnce` | `MoneyInv` |
| `AllocationsFit` | `Spec => []NoOverAllocation` | `MoneyInv` |
| `CapturedPays` | `Spec => []CapturedPaysInvoice` | `MoneyInv` |

The first three rest on `Shape`, the part of the types that does not speak of amounts,
and on `StepReq` and `OthersStay`: a step of a session gives that session a record of
the same shape and leaves the others alone. `LockInv` adds that verify and webhook
hold the row lock from their first read to their commit. `CaptureInv` adds that a
session that records money works on a payment the gateway has captured: the signature
of the customer or of the call, the answer to a query or an earlier capture said so. A
call of the webhook that has just come in knows nothing, and neither does one that
failed and is about to mark its event row (`KnowsOfMoney`). `StayInv` adds what the
session knows: a sweep gives up only what it has seen pending, and a session past its
saving commit, or a retry, works on a payment that is captured unless its status was
written blindly. One lemma (`StatusKept`) says that no step takes a capture back
without marking the payment `stale`; another (`SavesCaptured`) that every step which
adds money or processes an event leaves the payment captured.

The last four are about amounts. `MoneyInv` adds to `TypeInv` what an allocation in
progress has and knows. `PassesFit`: what is left of the payment and what is planned
come to the amount, and as long as something is left, the items passed over are
covered by table and plan together (`PassFits`); outside `shared`, table and plan
together fit every item, and what the payment was allocated before, what is planned
and what would then be open are no more than the items cost (`PassOwn`).
`PassesApart`: two sessions that allocate to one invoice or from one payment have put
it in `shared`, which is what a commit of one does to the plan of the other.
`PassesCover`: behind its saving commit a pass leaves no more than `Short` open on the
invoice. `AllocationsAimed`: what is allocated comes from a payment of an invoice.
`SpendingFits`: outside `shared`, what a payment was allocated and what is open on its
invoice are no more than the items cost. The last one is what keeps a retry, which
starts again with the whole amount, from spending money twice: it can only give what
is open. None of the three safety properties is inductive without these: they speak of
what is committed, and the commit adds a plan that was computed from a read several
steps before.

### TimetableProofs

| theorem | states | by |
|---|---|---|
| `TimetableTypesCorrect` | `TimetableSpec => []TimetableTypeOK` | `TimetableInv` |
| `WeeksCorrect` | `TimetableSpec => []LessonsFit` | `TimetableInv` |
| `LimitsCorrect` | `TimetableSpec => []LimitsPassedByDoubles` | `TimetableInv` |
| `SpacingCorrect` | `TimetableSpec => []SpacingKept` | `TimetableInv` |
| `SwapsCorrect` | `TimetableSpec => SwapsMakeNoClash` | `TimetableInv` |

The requirements are taken hardest first, and an attempt is counted before the
next one begins; so the lessons of an attempt are added together and no later lesson
joins them: that is the part of `TimetableJobFits` about generations. With it a
new lesson has to be compared with earlier attempts only, which is what the code
does. That the loads of a teacher pass a limit by one lesson at most, and only
where there is a double period, is a count of the lessons of a day (what one more
element, or two, do to a cardinality). A swap
knows the two rows it read and, after each of its questions, that the other teacher
is free at that time, for as long as nobody writes the table (`SwapsAloneFit`).

### MarkBookProofs

| theorem | states | by |
|---|---|---|
| `MarkTypesCorrect` | `MarkSpec => []MarkTypeOK` | `MarkInv` |
| `RecordingsCorrect` | `MarkSpec => []RecordedOnce` | `MarkInv` |
| `CorrectionsCorrect` | `MarkSpec => []CorrectionsFit` | `MarkInv` |
| `DeletedExamsCorrect` | `MarkSpec => DeletedExamsStay` | `MarkInv` |
| `ReportsCorrect` | `MarkSpec => []ReportsAgree` | `MarkInv`, `ExamsThere` |

For whom, for what and out of how much a mark is never changes; `MarkRowsStay` says
this of every step. It keeps true what a correction has read of the maximum
(`MarkJobFits`), which is why a stale copy does no harm there, and `RecordedOnce`
of the rows that are there. What a recording has read does go stale:
`RecordsAloneFit` says that a recording which is still alone would find none of its
marks again, so its commit adds marks that are new. An update holds a copy of an
exam that was active and writes only its name.

`ReportsAgree` is about each state, but not about every table: a mark must belong to
an exam that was created, which is `ExamsThere`. Each percentage is a quotient of
two sums (`RatioOfSums`), and that it reaches a grade, the pass mark or another
percentage is the same as that a sum, of `obtained` scaled less the share of `max`, is
not negative (`PercentReaches`). A sum that is not negative has a part that is not
negative: a mark for the marksheet (`SomeMarkReaches`), an exam for the report card
(`SomeCardReaches`, which twice gives the two sides of `CardsAround`). Where the code
rounds, the rounding becomes part of the bound (`PercentRounds`, `CardsRounded`).
The run has one exam and one name for it, so that the overall percentage lies
between those of the exams is only put to the test by the theorem.

### StudentLifeProofs

| theorem | states | by |
|---|---|---|
| `LifeTypesCorrect` | `LifeSpec => []LifeTypeOK` | `LifeInv` |
| `VerifiedCorrect` | `LifeSpec => VerifiedStay` | `LifeInv` |
| `OneYearCorrect` | `LifeSpec => []OneActiveYear` | `YearsInv` |
| `LeaderboardsCorrect` | `LifeSpec => []LeaderboardsAgree` | `LifeInv` |

Ids are not given out twice. So a request that wakes up finds the row it read, a
later state of it or no row, and never a row of another table: that is
`LifeJobFits`. `PointsFit` says that what is not verified has no points, so the copy
a verification holds has none either: a later one writes points only when it gives
some, and takes none back. `ClubsFit` says that members and activities have their
club, which is what lets the leaderboard of clubs gather them; deleting a club keeps
it because they go in the same commit and a join behind it fails on the foreign key.

`YearsInv` says that a set-active in `settled` has locked, and so will turn off, every
other year there is, and that no edit turns a year on: the copy it compares its body
with was active. A set-active whose UPDATE had to wait joins `settled` when the years
it found are still all the others (`SettledGrow`). A first statement of
`OneActiveYear` without `settled` was not inductive for a good reason: in a school
with one inactive year, a year that is created between the UPDATE of a set-active and
its commit stays active beside it. TLC shows this on the smallest school of
`MCStudentLife`, and the property now says which set-active it speaks of.

The leaderboards are sums over the rows by student and by club. `LeaderboardSums`
needs no more than that rows have their types and members their clubs: both sides
are sums over the same rows, gathered differently (`SumsGathered`).

### SalesProofs

| theorem | states | by |
|---|---|---|
| `CatalogTypesCorrect` | `CatalogSpec => []CatalogTypeOK` | `CatalogInv` |
| `LastItemCorrect` | `CatalogSpec => LastItemStays` | `CatalogInv` |
| `NamesCorrect` | `CatalogSpec => NamesStayDistinct` | `CatalogInv` |
| `DeletionsCorrect` | `CatalogSpec => DeletionsKeepSelling` | `CatalogInv` |
| `FeesTypesCorrect` | `FeesSpec => []FeesTypeOK` | `FeesInv` |
| `InvoicesAddUp` | `FeesSpec => []InvoiceAddsUp` | `FeesInv` |
| `ClassesInvoicedWhole` | `FeesSpec => ClassInvoicedWhole` | `FeesInv` |

Catalog. The services check first and write later, without locks. `StillGood` says
what a check has found, of the tables as they are now: that no row has the new name,
that there are items of two products, that no package holds the product. It holds of
every request that is still alone, since such a request has seen no write between
its check and its commit, and each promise follows from it at the commit. Of the
others only the kinds of rows are certain (`ShelfJobFits`): no row changes its kind,
so a stale commit writes the fields of a row of the kind it read. `CategoriesKnown`,
the foreign key of products, is what rules out that a deleted package or product is
somebody's category. An empty package needs a count of the items that were there;
`TwoItems` gets two products from a cardinality above one by the uniqueness of
items.

Fees. An invoice is drawn up in one step, so that it adds up is a fact about that
step: each item is rounded by half a cent at most and each discount logged, and the
laws of sums add this up over the items. `FeesInv` carries it from the drafts of a
billing to the invoices. For `ClassInvoicedWhole` it has `DraftsFit`, that the
drafts of a billing are one for each student it has passed; `NumbersApart`, that no
two drafts or invoices share a number, which is the unique constraint together with
the wait for an uncommitted one; and `AloneBills`, that the drafts of a billing which
is alone are by the fees as they are. `StructureFits` bounds how often a fee of a
class is entered: a session enters it once for what it found missing.

### OfficeProofs

| theorem | states | by |
|---|---|---|
| `RegistryTypesCorrect` | `RegistrySpec => []RegistryTypeOK` | `RegInv`, `ListInv` |
| `LeaversCorrect` | `RegistrySpec => LeaversStay` | `RegInv` |
| `ListsCorrect` | `RegistrySpec => []ListsStayWhole` | `ListInv` |
| `MediaTypesCorrect` | `MediaSpec => []MediaTypeOK` | `MediaInv` |
| `StoresCorrect` | `MediaSpec => []StoresAgree` | `MediaInv` |
| `ChatTypesCorrect` | `ChatSpec => []ChatTypeOK` | `ChatInv` |
| `AnswersCorrect` | `ChatSpec => []AnswersMatchCalls` | `ChatInv` |
| `OfficeIsItsPart` | `OfficeSpec` implies the specification of the part that `focus` names | |
| `OfficeTypesCorrect` | `OfficeSpec => []OfficeTypeOK` | `OfficeIsItsPart` |
| `OfficeStatesCorrect` | `OfficeSpec` implies the 12 other invariants of `office` | `Resting` |
| `OfficeStepsCorrect` | `OfficeSpec` implies the 8 action properties of `office` | `OthersRest` |

`RegInv` holds the types of rows and requests and one fact more, `EditsFit`: an
edit of a teacher or a subject works on a row of that table by a copy that was on.
That is what keeps such an edit from turning anybody on again: `is_active` in its
body is written only when it differs from the copy, and then it is false. `ListInv`
adds to `ListsStayWhole` what the request in the middle of a replacement needs:
the rows its DELETE removed are whole replacements themselves (`SeenClosed`). They
are when the request starts, and stay so because a request that removes some of
them removes their whole replacement and no INSERT adds to an old one. A row of
`listed` knows its replacement by the history fields `asked` and `turn`.

`MediaInv` adds to the agreement of the stores that an upload owns its path (no
other request works on it, it is stored and has no row) and that a deletion which
removed its file leaves it removed: no upload is given a path again.

`AnswersMatchCalls` says nothing of the last message while the tools, or the end,
are next. `ChatInv` adds what the node says of it: it is the model's, and it has
calls when the tools are next. So a message that is followed by others can never
end its answers at the last one, and when the tools answer, the answers belong to
the last message alone. That it is the model's when the graph is at its end is why
no tool's text reaches the user.

The office begins as each of its parts begins, `focus` does not change, and a step
of the office is a step of the part `focus` names or leaves that part alone. So a
behaviour of the office implements that part (`OfficeIsItsPart`), and what was
proved of the part alone is true of it in the office. Of the other parts the
promises have to be true as well: no session works for them (`OfficeServes`), their
tables are as they began (`Resting`) and no step changes them (`OthersRest`). So the
theorems are about the properties as the run `office` checks them, of `OfficeSpec`.

### What is only model-checked

Liveness: `RequestsEnd` of the store and of the office, and `FlowsEnd`. They
rest on fairness, and with it on ENABLED, which is beyond the prover. The six
properties that are violated are shown by TLC's counterexamples.

## 5. Not modelled, and what is left

- `create_manual_order` (`order_service.py:535`): no endpoint calls it.
  `reconcile_authorized_payments` (`payment_service.py:662`): nothing sets the
  status it looks for.
- The second half of the checkout endpoint (`endpoints/orders.py:114`): the order
  is committed before the payment is initiated, so an order whose payment the
  gateway refuses keeps its stock. `OrderStore` and `PaymentFlow` meet there and
  are not composed: each alone fills a run, and the property would compare an order
  with a payment that was never made.
- Refunds: one insert with an unlocked check. Two refunds of the full amount are
  both accepted, because only processed ones are subtracted (`refund_service.py:33`)
  and no code sets one to processed.
- Authentication, roles, announcements, conversations, profile pictures, prices of
  packages, the wording of anything.

Known races that no property speaks of, because nothing in the code or its documents
promises otherwise: two additions to one cart row keep one of them
(`cart_service.py:164`); a quantity that is changed while a checkout runs is lost with
its row, which the checkout deletes; a checkout submitted twice makes two orders when
the stock suffices (`order_service.py:175`); the move to cancelled by `update_order`
restores no stock (`order_service.py:335`); the gateway's order exists before the
payment row and stays without one after a crash (`payment_service.py:131`); a template
assigned twice at once enters the fees of a class twice
(`fee_structure_service.py:128`), which billing counts once; a retried allocation
starts with the whole amount of the payment so it gives the cent that rounding left
open as well: the allocations of that payment come to what the items cost, a cent more
than was paid (`invoice_service.py:205`, which is what `SpentOnce` allows).

Worth doing next: the composition of checkout and payment; refunds.

## 6. Running

    tlc -workers 2 -config OrderStoreConcurrent.cfg MCOrderStore.tla
    tlc -workers 2 -config PaymentConcurrent.cfg MCPaymentFlow.tla
    tlc -workers 2 -config Office.cfg MCSchoolOffice.tla
    tlc -workers 2 -config TimetableTeachers.cfg MCTimetable.tla
    tlapm SumTheorems.tla
    tlapm OrderStoreProofs.tla
    tlapm PaymentFlowProofs.tla
    tlapm TimetableProofs.tla
    tlapm MarkBookProofs.tla
    tlapm StudentLifeProofs.tla
    tlapm SalesProofs.tla
    tlapm OfficeProofs.tla

`PROJECT.json` names the module and the configuration of each run. The longest
run, `office`, has 0.41 million distinct states and takes two to three minutes with
two workers, most of it for the temporal properties; `order_concurrent` has 7.0
million and `pay_concurrent` 3.0 million, and each takes about one and a half.
